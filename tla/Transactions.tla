----------------------------- MODULE Transactions -----------------------------
(***************************************************************************)
(* The transactions of a channel: how lnwallet builds and orders them and  *)
(* how lndcc/lndcc.go turns them into colored-coins transactions.  A       *)
(* public key script is the tuple of the values that determine it, a       *)
(* transaction the record of what it spends and its outputs in order.      *)
(***************************************************************************)
EXTENDS Integers, Sequences, FiniteSets, TLC

dustAmount == 546

Output(value, script) == [value |-> value, script |-> script]

\* Public key scripts: the 2-of-2 output of a channel, the delayed output of
\* the owner of a commitment, and an output that a key spends at once.
FundingPkScript(aPub, bPub) == <<"multisig", {aPub, bPub}>>
ToSelfPkScript(csvTimeout, selfKey, revokeKey) ==
  <<"toSelf", csvTimeout, selfKey, revokeKey>>
UnencumberedPkScript(key) == <<"key", key>>

(***************************************************************************)
(* txsort.InPlaceSort: by value, then by the bytes of the script.  Any     *)
(* fixed choice between two scripts stands for the order of their bytes.   *)
(***************************************************************************)
Before(a, b) ==
  \/ a.value < b.value
  \/ a.value = b.value /\ a # b /\ a = CHOOSE x \in {a, b} : TRUE
InPlaceSort(tx) == [tx EXCEPT !.outs = SortSeq(@, Before)]

(***************************************************************************)
(* ColorifyTx keeps the inputs and the scripts, replaces the values by     *)
(* dust, and adds an output of value 0 with one transfer instruction per   *)
(* output: its index and the value it had.                                 *)
(***************************************************************************)
ColorifyTx(tx, isFunding) ==
  [tx EXCEPT !.outs =
     [i \in DOMAIN @ |->
        Output(IF isFunding THEN dustAmount * 15 ELSE dustAmount,
               @[i].script)]
     \o <<Output(0, <<"OP_RETURN",
                      [i \in DOMAIN @ |-> <<i - 1, @[i].value>>]>>)>>]

\* FindScriptOutputIndex: the index of the first output with the script, 0
\* when there is none.
FindScriptOutputIndex(tx, script) ==
  IF \E i \in DOMAIN tx.outs : tx.outs[i].script = script
  THEN (CHOOSE i \in DOMAIN tx.outs :
          /\ tx.outs[i].script = script
          /\ \A j \in 1..(i - 1) : tx.outs[j].script # script) - 1
  ELSE 0

\* An output, when it is worth anything.
IfAny(value, script) == IF value = 0 THEN <<>> ELSE <<Output(value, script)>>

CreateCommitTx(outpoint, selfKey, theirKey, revokeKey, csvTimeout, amountToSelf, amountToThem) ==
  [ins |-> <<outpoint>>,
   outs |-> IfAny(amountToSelf,
                  ToSelfPkScript(csvTimeout, selfKey, revokeKey))
            \o IfAny(amountToThem, UnencumberedPkScript(theirKey))]

\* A commitment as both wallets keep and sign it.
ColoredCommitTx(outpoint, selfKey, theirKey, revokeKey, csvTimeout, amountToSelf, amountToThem) ==
  ColorifyTx(InPlaceSort(CreateCommitTx(outpoint, selfKey, theirKey, revokeKey,
                                        csvTimeout, amountToSelf,
                                        amountToThem)), FALSE)

\* A witness signature over a transaction commits to the script and to the
\* value of the output that is spent.
Sign(key, tx, redeemScript, value) ==
  [key |-> key, tx |-> tx, script |-> redeemScript, value |-> value]

\* DeriveRevocationPubkey: commitKey + G * preimage.
DeriveRevocationPubkey(commitKey, preimage) == <<commitKey, preimage>>

\* deriveElkremRoot and AtIndex: the preimages of a channel, by its keys.
ElkremAtIndex(localMultiSigKey, remoteMultiSigKey, index) ==
  <<localMultiSigKey, remoteMultiSigKey, index>>
===============================================================================
