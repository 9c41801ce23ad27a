------------------------------- MODULE MCSPVCon -------------------------------
(***************************************************************************)
(* Small instances of the SPV wallet.                                      *)
(***************************************************************************)
EXTENDS SPVCon

Tx(id, key, value, noise) ==
  [id |-> id, ins |-> {}, outs |-> <<<<key, value>>>>, noise |-> noise]
\* A payment to the second address, and two transactions of others, one of
\* which the bloom filter takes for ours.
ToUs == Tx(1, 1, 3, FALSE)
Noise == Tx(2, NotOurs, 1, TRUE)
Other == Tx(3, NotOurs, 1, FALSE)

Plan(pays, r, c, s) == [pays |-> pays, reorgs |-> r, crashes |-> c, sends |-> s]

\* A reorganisation, with a send or with a restart; a restart with a send; two
\* sends; false positives; a transaction that does not concern us.
Each ==
  {Plan({ToUs}, 1, 0, 1), Plan({ToUs}, 1, 1, 0), Plan({ToUs}, 0, 1, 1),
   Plan({ToUs}, 0, 0, 2), Plan({Noise, ToUs}, 0, 0, 0),
   Plan({Other}, 0, 0, 0)}
===============================================================================
