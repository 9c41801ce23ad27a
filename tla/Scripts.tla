-------------------------------- MODULE Scripts -------------------------------
(***************************************************************************)
(* lnwallet/script_utils.go: the scripts of the outputs of a commitment    *)
(* and of the funding output, the witnesses that spend them, and the keys  *)
(* they are made of.                                                       *)
(*                                                                         *)
(* A key is a number modulo GroupOrder, and so is the public key of it:    *)
(* the point G * k is known by k, and adding points adds the numbers.      *)
(* A function that builds a witness may change the transaction it is given *)
(* before it signs it: it answers both.                                    *)
(***************************************************************************)
EXTENDS ScriptEngine

GroupOrder == 17
Spend(tx, witness) == [tx |-> tx, witness |-> witness]

(***************************************************************************)
(* The funding output.                                                     *)
(***************************************************************************)
\* Keys in descending order, and the signatures in the order of the keys.
genMultiSigScript(aPub, bPub) ==
  LET a == IF aPub < bPub THEN bPub ELSE aPub
      b == IF aPub < bPub THEN aPub ELSE bPub
  IN  <<Push(Num(2)), Push(Key(a)), Push(Key(b)), Push(Num(2)),
        Op("OP_CHECKMULTISIG")>>

SpendMultiSig(redeemScript, pubA, sigA, pubB, sigB) ==
  IF pubA < pubB THEN <<Num(0), sigB, sigA, redeemScript>>
  ELSE <<Num(0), sigA, sigB, redeemScript>>

\* Mutant: the size of the preimage is not tested.
senderHTLCAnySize(absoluteTimeout, relativeTimeout, senderKey, receiverKey, revokeHash, paymentHash) ==
  <<Op("OP_IF"),
      Op("OP_IF"), Push(revokeHash), Op("OP_ELSE"), Push(paymentHash),
      Op("OP_ENDIF"),
      Op("OP_SWAP"), Op("OP_SHA256"), Op("OP_EQUALVERIFY"),
      Push(Key(receiverKey)), Op("OP_CHECKSIG"),
    Op("OP_ELSE"),
      Push(Num(absoluteTimeout)), Op("OP_CHECKLOCKTIMEVERIFY"),
      Push(Num(relativeTimeout)), Op("OP_CHECKSEQUENCEVERIFY"), Op("OP_2DROP"),
      Push(Key(senderKey)), Op("OP_CHECKSIG"),
    Op("OP_ENDIF")>>

(***************************************************************************)
(* An outgoing HTLC on the sender's commitment.                            *)
(***************************************************************************)
senderHTLCScript(absoluteTimeout, relativeTimeout, senderKey, receiverKey, revokeHash, paymentHash) ==
  <<Op("OP_IF"),
      Op("OP_IF"), Push(revokeHash),
      Op("OP_ELSE"), Op("OP_SIZE"), Push(Num(32)), Op("OP_EQUALVERIFY"),
                     Push(paymentHash),
      Op("OP_ENDIF"),
      Op("OP_SWAP"), Op("OP_SHA256"), Op("OP_EQUALVERIFY"),
      Push(Key(receiverKey)), Op("OP_CHECKSIG"),
    Op("OP_ELSE"),
      Push(Num(absoluteTimeout)), Op("OP_CHECKLOCKTIMEVERIFY"),
      Push(Num(relativeTimeout)), Op("OP_CHECKSEQUENCEVERIFY"), Op("OP_2DROP"),
      Push(Key(senderKey)), Op("OP_CHECKSIG"),
    Op("OP_ENDIF")>>

senderHtlcSpendRevoke(commitScript, receiverKey, sweepTx, revokePreimage) ==
  Spend(sweepTx, <<Sig(receiverKey, sweepTx), revokePreimage, Num(1), Num(1),
                   commitScript>>)

senderHtlcSpendRedeem(commitScript, receiverKey, sweepTx, paymentPreimage) ==
  Spend(sweepTx, <<Sig(receiverKey, sweepTx), paymentPreimage, Num(0), Num(1),
                   commitScript>>)

lockTimeToSequence(isSeconds, locktime) ==
  LET units == locktime \div 512
  IN  IF ~isSeconds THEN locktime
      ELSE IF (units \div 2^22) % 2 = 1 THEN units ELSE units + 2^22

TimeoutTx(sweepTx, absoluteTimeout, relativeTimeout) ==
  [sweepTx EXCEPT !.lockTime = absoluteTimeout, !.version = 2,
                  !.sequence = lockTimeToSequence(FALSE, relativeTimeout)]

\* Mutant: the lock times are set after signing.
senderHtlcSignedFirst(commitScript, senderKey, sweepTx, absoluteTimeout, relativeTimeout) ==
  Spend(TimeoutTx(sweepTx, absoluteTimeout, relativeTimeout),
        <<Sig(senderKey, sweepTx), Num(0), commitScript>>)

senderHtlcSpendTimeout(commitScript, senderKey, sweepTx, absoluteTimeout, relativeTimeout) ==
  LET tx == TimeoutTx(sweepTx, absoluteTimeout, relativeTimeout)
  IN  Spend(tx, <<Sig(senderKey, tx), Num(0), commitScript>>)

(***************************************************************************)
(* An incoming HTLC on the receiver's commitment.                          *)
(***************************************************************************)
receiverHTLCScript(absoluteTimeout, relativeTimeout, senderKey, receiverKey, revokeHash, paymentHash) ==
  <<Op("OP_IF"),
      Op("OP_SIZE"), Push(Num(32)), Op("OP_EQUALVERIFY"),
      Op("OP_SHA256"), Push(paymentHash), Op("OP_EQUALVERIFY"),
      Push(Num(relativeTimeout)), Op("OP_CHECKSEQUENCEVERIFY"), Op("OP_DROP"),
      Push(Key(receiverKey)), Op("OP_CHECKSIG"),
    Op("OP_ELSE"),
      Op("OP_IF"), Op("OP_SHA256"), Push(revokeHash), Op("OP_EQUALVERIFY"),
      Op("OP_ELSE"), Push(Num(absoluteTimeout)), Op("OP_CHECKLOCKTIMEVERIFY"),
                     Op("OP_DROP"),
      Op("OP_ENDIF"),
      Push(Key(senderKey)), Op("OP_CHECKSIG"),
    Op("OP_ENDIF")>>

receiverHtlcSpendRedeem(commitScript, receiverKey, sweepTx, paymentPreimage, relativeTimeout) ==
  LET tx == TimeoutTx(sweepTx, sweepTx.lockTime, relativeTimeout)
  IN  Spend(tx, <<Sig(receiverKey, tx), paymentPreimage, Num(1), commitScript>>)

receiverHtlcSpendRevoke(commitScript, senderKey, sweepTx, revokePreimage) ==
  Spend(sweepTx, <<Sig(senderKey, sweepTx), revokePreimage, Num(1), Num(0),
                   commitScript>>)

\* The sequence number stays as it is, and has to allow for a lock time.
receiverHtlcSpendTimeout(commitScript, senderKey, sweepTx, absoluteTimeout) ==
  LET tx == [sweepTx EXCEPT !.lockTime = absoluteTimeout]
  IN  Spend(tx, <<Sig(senderKey, tx), Num(0), Num(0), commitScript>>)

(***************************************************************************)
(* The settled outputs of a commitment: its owner's and the other's.       *)
(***************************************************************************)
commitScriptToSelf(csvTimeout, selfKey, revokeKey) ==
  <<Op("OP_IF"), Push(Key(revokeKey)), Op("OP_CHECKSIG"),
    Op("OP_ELSE"), Push(Key(selfKey)), Op("OP_CHECKSIGVERIFY"),
                   Push(Num(csvTimeout)), Op("OP_CHECKSEQUENCEVERIFY"),
    Op("OP_ENDIF")>>

commitScriptUnencumbered(key) == Hash(Key(key))

\* No witness for a transaction of a version without relative locks.
CommitSpendTimeout(selfKey, redeemScript, sweepTx) ==
  Spend(sweepTx, IF sweepTx.version < 2 THEN <<>>
                 ELSE <<Sig(selfKey, sweepTx), Num(0), redeemScript>>)

commitSpendRevoke(commitScript, revocationPriv, sweepTx) ==
  Spend(sweepTx, <<Sig(revocationPriv, sweepTx), Num(1), commitScript>>)

commitSpendNoDelay(commitPriv, sweepTx) ==
  Spend(sweepTx, <<Sig(commitPriv, sweepTx), Key(commitPriv)>>)

(***************************************************************************)
(* Revocation keys.                                                        *)
(***************************************************************************)
DeriveRevocationPubkey(commitPubKey, revokePreimage) ==
  (commitPubKey + revokePreimage) % GroupOrder
DeriveRevocationPrivKey(commitPrivKey, revokePreimage) ==
  (revokePreimage + commitPrivKey) % GroupOrder
===============================================================================
