---------------------------- MODULE MCUtxoNursery -----------------------------
(***************************************************************************)
(* A force-closed output o1 with a delay of one block, a client f1 that    *)
(* waits for two confirmations of another transaction, and an observer s1  *)
(* of an outpoint.  Three blocks are one more than either wait needs; an   *)
(* epoch channel with room for one is full after a single slow epoch.      *)
(***************************************************************************)
EXTENDS UtxoNursery, TLC

CONSTANTS o1, f1, t1, t2, s1

MCTxs == {t1, t2}
MCOutputs == {o1}
MCConfClients == {o1, f1}
MCTxOf == (o1 :> t1) @@ (f1 :> t2)
MCNumConfs == (o1 :> 1) @@ (f1 :> 2)
MCDelay == (o1 :> 1)
MCSpendClients == {s1}
===============================================================================
