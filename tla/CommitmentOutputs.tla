--------------------------- MODULE CommitmentOutputs --------------------------
(***************************************************************************)
(* Who takes an output of a commitment that was broadcast, and when.  The  *)
(* output pays to a script of script_utils.go; either side of the channel  *)
(* tries every witness that the functions of script_utils.go build from    *)
(* the keys and preimages it knows; blocks go by.                          *)
(*                                                                         *)
(* The commitment is its owner's version, mined in block 0.  It may have   *)
(* been revoked, which gave its revocation preimage to the other side.     *)
(***************************************************************************)
EXTENDS Scripts, FiniteSets

CONSTANTS Delays,     \* relative delays of a commitment
          Timeouts,   \* absolute timeouts of an HTLC
          MaxHeight   \* bound on the height of the chain

\* commitScriptToSelf leaves the delay on the stack, and a relative lock has
\* 16 bits: a delay is positive and below 2^16.
ASSUME OutputsAssumption ==
  /\ Delays \subseteq 1..65535 /\ Timeouts \subseteq Nat /\ MaxHeight \in Nat

VARIABLES
  out,     \* the output: [kind, delay, timeout, revoked, ownerKey, size]
  height,  \* the height of the chain
  secret,  \* whether the receiver of the HTLC has its preimage
  spent    \* who spent the output: <<>> or [by, agreed, block]

vars == <<out, height, secret, spent>>

Sides == {"owner", "other"}

(***************************************************************************)
(* Keys and preimages.  Every 32-byte revocation preimage is one number;   *)
(* the payment preimage is of a size the receiver chose.                   *)
(***************************************************************************)
commitKey(p) == IF (p = "owner") = (out.ownerKey = 1) THEN 1 ELSE 2
revocation == 5
revokePreimage == Preimage(revocation, 32)
paymentPreimage == Preimage(6, out.size)
revokeKey == DeriveRevocationPubkey(commitKey("other"), revocation)

receiver == IF out.kind = "sent" THEN "other" ELSE "owner"

Knows(p) ==
  [keys |-> {commitKey(p)} \cup
            (IF p = "other" /\ out.revoked
             THEN {DeriveRevocationPrivKey(commitKey(p), revocation)} ELSE {}),
   preimages |-> (IF p = "owner" \/ out.revoked THEN {revokePreimage} ELSE {})
                 \cup (IF secret /\ p = receiver THEN {paymentPreimage} ELSE {})]

(***************************************************************************)
(* The script of an HTLC, by whose commitment it is on, as seen by the     *)
(* side that builds it, and whether it pays that side.                     *)
(***************************************************************************)

\* Mutant: the owner of the commitment does not matter.
addHTLCByDirection(ourCommit, isIncoming, localKey, remoteKey) ==
  IF isIncoming
  THEN receiverHTLCScript(out.timeout, out.delay, remoteKey, localKey,
                          Hash(revokePreimage), Hash(paymentPreimage))
  ELSE senderHTLCScript(out.timeout, out.delay, localKey, remoteKey,
                        Hash(revokePreimage), Hash(paymentPreimage))

addHTLC(ourCommit, isIncoming, localKey, remoteKey) ==
  CASE isIncoming /\ ourCommit ->
         receiverHTLCScript(out.timeout, out.delay, remoteKey, localKey,
                            Hash(revokePreimage), Hash(paymentPreimage))
    [] isIncoming /\ ~ourCommit ->
         senderHTLCScript(out.timeout, out.delay, remoteKey, localKey,
                          Hash(revokePreimage), Hash(paymentPreimage))
    [] ~isIncoming /\ ourCommit ->
         senderHTLCScript(out.timeout, out.delay, localKey, remoteKey,
                          Hash(revokePreimage), Hash(paymentPreimage))
    [] ~isIncoming /\ ~ourCommit ->
         receiverHTLCScript(out.timeout, out.delay, localKey, remoteKey,
                            Hash(revokePreimage), Hash(paymentPreimage))

Script ==
  CASE out.kind = "funding" ->
         genMultiSigScript(commitKey("owner"), commitKey("other"))
    [] out.kind = "toSelf" ->
         commitScriptToSelf(out.delay, commitKey("owner"), revokeKey)
    [] out.kind = "noDelay" -> commitScriptUnencumbered(commitKey("other"))
    [] out.kind = "sent" ->
         addHTLC(TRUE, FALSE, commitKey("owner"), commitKey("other"))
    [] out.kind = "received" ->
         addHTLC(TRUE, TRUE, commitKey("owner"), commitKey("other"))

(***************************************************************************)
(* Transactions that sweep the output, before a witness is made for them:  *)
(* with the largest sequence number, as NewTxIn makes them, or with one    *)
(* that the caller has set, as the nursery does.                           *)
(***************************************************************************)
SweepTxs ==
  [version : {1, 2}, lockTime : {0}, sequence : {MaxSequence} \cup Delays]

\* The transaction that both sides have signed when the output is the funding
\* output: the commitment.
CommitTx == [version |-> 2, lockTime |-> 0, sequence |-> MaxSequence]

Signatures(p, tx) ==
  {Sig(k, tx) : k \in Knows(p).keys} \cup
  (IF tx = CommitTx THEN {Sig(commitKey("owner"), tx), Sig(commitKey("other"), tx)}
   ELSE {})

\* The witnesses that p can build with keys, and preimages, for a script.
MultiSigSpends(script, p) ==
  {Spend(w[1], SpendMultiSig(script, commitKey(w[2][1]), w[3],
                             commitKey(w[2][2]), w[4])) :
     w \in UNION {{tx} \X {<<"owner", "other">>, <<"other", "owner">>}
                   \X Signatures(p, tx) \X Signatures(p, tx) :
                     tx \in SweepTxs \cup {CommitTx}}}

SettledSpends(script, with) ==
  {CommitSpendTimeout(w[1], script, w[2]) : w \in with}
  \cup {commitSpendRevoke(script, w[1], w[2]) : w \in with}

NoDelaySpends(with) == {commitSpendNoDelay(w[1], w[2]) : w \in with}

HTLCSpends(script, with, preimages) ==
  {senderHtlcSpendRevoke(script, w[1][1], w[1][2], w[2]) :
     w \in with \X preimages}
  \cup {senderHtlcSpendRedeem(script, w[1][1], w[1][2], w[2]) :
          w \in with \X preimages}
  \cup {senderHtlcSpendTimeout(script, w[1][1], w[1][2], w[2], w[3]) :
          w \in with \X Timeouts \X Delays}
  \cup {receiverHtlcSpendRevoke(script, w[1][1], w[1][2], w[2]) :
          w \in with \X preimages}
  \cup {receiverHtlcSpendRedeem(script, w[1][1], w[1][2], w[2], w[3]) :
          w \in with \X preimages \X Delays}
  \cup {receiverHtlcSpendTimeout(script, w[1][1], w[1][2], w[2]) :
          w \in with \X Timeouts}

Spends(script, p) ==
  CASE out.kind = "funding" -> MultiSigSpends(script, p)
    [] out.kind = "toSelf" -> SettledSpends(script, Knows(p).keys \X SweepTxs)
    [] out.kind = "noDelay" -> NoDelaySpends(Knows(p).keys \X SweepTxs)
    [] OTHER -> HTLCSpends(script, Knows(p).keys \X SweepTxs, Knows(p).preimages)

\* What the chain accepts in a block (outside the repository): the witness
\* satisfies the script, and both lock times have run out.
Final(tx, block) ==
  /\ tx.sequence = MaxSequence \/ tx.lockTime < block
  /\ (tx.version >= 2 /\ Locks(tx.sequence)) => block >= tx.sequence

Valid(script, s, block) ==
  /\ Final(s.tx, block)
  /\ IF out.kind = "noDelay" THEN AcceptsKeyHash(script, s.witness, s.tx)
     ELSE Accepts(script, s.witness, s.tx)

\* The transactions with which p can take the output in the next block.
Takes(script, p) ==
  {s.tx : s \in {s \in Spends(script, p) : Valid(script, s, height + 1)}}
CanSpend(p) == Takes(Script, p) # {}

-------------------------------------------------------------------------------
Init ==
  /\ out \in [kind : {"sent", "received"}, delay : Delays, timeout : Timeouts,
              revoked : BOOLEAN, ownerKey : {2}, size : {31, 32}]
             \cup [kind : {"toSelf", "noDelay"}, delay : Delays, timeout : {0},
                   revoked : BOOLEAN, ownerKey : {2}, size : {32}]
             \cup [kind : {"funding"}, delay : Delays, timeout : {0},
                   revoked : BOOLEAN, ownerKey : {1, 2}, size : {32}]
  /\ height = 0 /\ secret = FALSE /\ spent = <<>>

Mine ==
  /\ height < MaxHeight /\ height' = height + 1
  /\ UNCHANGED <<out, secret, spent>>

\* The receiver of the HTLC learns the preimage: it settles, or is its own.
LearnPreimage ==
  /\ out.kind \in {"sent", "received"} /\ ~secret /\ secret' = TRUE
  /\ UNCHANGED <<out, height, spent>>

SpendOutput(p) ==
  /\ spent = <<>>
  /\ \E tx \in Takes(Script, p) :
       spent' = <<[by |-> p, agreed |-> tx = CommitTx, block |-> height + 1]>>
  /\ UNCHANGED <<out, height, secret>>

Next == Mine \/ LearnPreimage \/ \E p \in Sides : SpendOutput(p)

Spec == Init /\ [][Next]_vars

-------------------------------------------------------------------------------
Matured(block) == block >= out.delay
TimedOut(block) == block > out.timeout
Redeemable == secret /\ out.size = 32

\* May p take the output in that block?  The contract that the comments of
\* script_utils.go describe.
Entitled(p, block) ==
  CASE out.kind = "funding" -> TRUE
    [] out.kind = "toSelf" -> IF p = "owner" THEN Matured(block) ELSE out.revoked
    [] out.kind = "noDelay" -> p = "other"
    [] out.kind = "sent" ->
         IF p = "owner" THEN Matured(block) /\ TimedOut(block)
         ELSE out.revoked \/ Redeemable
    [] out.kind = "received" ->
         IF p = "owner" THEN Matured(block) /\ Redeemable
         ELSE out.revoked \/ TimedOut(block)

\* Whatever witness a side builds from what it knows, with whichever of the
\* functions and whatever delays it passes to them, it takes the output only
\* when the contract entitles it to; the funding output is spent by nothing
\* but the transaction that both have signed.
OnlyEntitledSpend ==
  spent # <<>> =>
    /\ Entitled(spent[1].by, spent[1].block)
    /\ out.kind = "funding" => spent[1].agreed

\* The functions of script_utils.go build a valid witness for every case the
\* contract provides for: who is entitled to the output in the next block can
\* take it.  So the other side of a revoked commitment can take its outputs at
\* once, and no output is stuck when its timeouts are over.
EntitledCanSpend ==
  spent = <<>> => \A p \in Sides : Entitled(p, height + 1) => CanSpend(p)

\* An HTLC output looks the same from both ends: the script that the other side
\* builds, and signs, for the owner's commitment is the owner's own.
SidesBuildTheSame ==
  out.kind \in {"sent", "received"} =>
    Script = addHTLC(FALSE, out.kind = "sent", commitKey("other"),
                     commitKey("owner"))

===============================================================================
