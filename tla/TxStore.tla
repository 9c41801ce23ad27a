-------------------------------- MODULE TxStore --------------------------------
(***************************************************************************)
(* The transaction store of the SPV wallet (uspv/txstore.go, utxodb.go) in *)
(* hard mode, the mode shell.go uses, as operators on two records:         *)
(*                                                                         *)
(*   db   the bolt file: numKeys, tip (TipHeight), utxos (the duffel bag), *)
(*        stxos and txns                                                   *)
(*   ts   the memory of a process: adrs, the number of addresses, filter,  *)
(*        the local bloom filter, and ok, OKTxids                          *)
(*                                                                         *)
(* A transaction is [id, ins, outs, noise]: the outpoints it spends, the   *)
(* key index and value of each output, and whether the bloom filter takes  *)
(* it for one of ours by accident.  Key NotOurs is somebody else's.        *)
(***************************************************************************)
EXTENDS Integers, Sequences, FiniteSets, FiniteSetsExt, SequencesExt, TLC

NotOurs == -1

Without(f, S) == [x \in DOMAIN f \ S |-> f[x]]

\* The outpoints of a transaction that pay one of the first n addresses.
Paid(tx, n) ==
  {<<tx.id, i>> : i \in {i \in DOMAIN tx.outs : tx.outs[i][1] \in 0..(n - 1)}}

-----------------------------------------------------------------------------
\* OpenDB of a file that is not there yet: one key.
NewDB == [numKeys |-> 1, tip |-> 0, utxos |-> <<>>, stxos |-> <<>>, txns |-> {}]

(***************************************************************************)
(* Refilter and GimmeFilter's contents: every address and every utxo.      *)
(***************************************************************************)
Refilter(d, adrs) == [keys |-> 0..(adrs - 1), ops |-> DOMAIN d.utxos]

\* OpenDB and PopulateAdrs, then Refilter, in a new process.
OpenDB(d) == [adrs |-> d.numKeys, filter |-> Refilter(d, d.numKeys), ok |-> <<>>]

\* Mutant: the key that was just made is not counted.
NewAdrKeys_Before(t) == t.adrs

\* NewAdr: the counter in the file, then the address and the filter in memory.
NewAdrKeys(t) == t.adrs + 1

NewAdr(t) == [t EXCEPT !.adrs = @ + 1, !.filter.keys = @ \cup {t.adrs}]

AddTxid(t, txid, height) == [t EXCEPT !.ok = (txid :> height) @@ @]

(***************************************************************************)
(* Ingest, one bolt transaction: utxos the transaction spends become       *)
(* stxos, outputs that pay us become utxos, and the transaction is stored. *)
(***************************************************************************)
Spends(d, tx) == tx.ins \cap DOMAIN d.utxos

Gained(tx, t, height) ==
  [o \in Paid(tx, t.adrs) |->
     [at |-> height, key |-> tx.outs[o[2]][1], value |-> tx.outs[o[2]][2]]]

Lose(d, tx, height) ==
  [d EXCEPT !.utxos = Without(@, Spends(d, tx)),
            !.stxos = [o \in Spends(d, tx) |->
                         [utxo |-> d.utxos[o], at |-> height, by |-> tx.id]] @@ @,
            !.txns = @ \cup {tx.id}]

Ingest(d, t, tx, height) ==
  [Lose(d, tx, height) EXCEPT !.utxos = Gained(tx, t, height) @@ @]

Hits(d, t, tx) == Cardinality(Spends(d, tx)) + Cardinality(Paid(tx, t.adrs))

\* bloom.Filter.MatchTxAndUpdate with BloomUpdateAll: outputs that match are
\* added as outpoints.
Matched(f, tx) == {<<tx.id, i>> : i \in {i \in DOMAIN tx.outs : tx.outs[i][1] \in f.keys}}
Matches(f, tx) == tx.noise \/ Matched(f, tx) # {} \/ tx.ins \cap f.ops # {}
Updated(t, tx) == [t EXCEPT !.filter.ops = @ \cup Matched(t.filter, tx)]

(***************************************************************************)
(* The loop of IngestBlock over the transactions of a block, from state    *)
(* [d, t, fp]; more than MaxFalse false positives renew the filter.        *)
(***************************************************************************)
IngestMatch(x, tx, height) ==
  IF ~Matches(x.t.filter, tx) THEN x
  ELSE [d |-> Ingest(x.d, x.t, tx, height), t |-> Updated(x.t, tx),
        fp |-> x.fp + IF Hits(x.d, x.t, tx) = 0 THEN 1 ELSE 0]

IngestTxs(d, t, list, height) ==
  LET after[i \in 0..Len(list)] ==
        IF i = 0 THEN [d |-> d, t |-> t, fp |-> 0]
        ELSE IngestMatch(after[i - 1], list[i], height)
  IN after[Len(list)]

(***************************************************************************)
(* GetPendingInv: what Rebroadcast advertises, the transactions of utxos   *)
(* at height 0 and the spenders of stxos at height 0.                      *)
(***************************************************************************)
\* Mutant: only utxos are looked at.
GetPendingInv_Utxos(d) == {o[1] : o \in {o \in DOMAIN d.utxos : d.utxos[o].at = 0}}

GetPendingInv(d) ==
  {o[1] : o \in {o \in DOMAIN d.utxos : d.utxos[o].at = 0}}
    \cup {d.stxos[o].by : o \in {o \in DOMAIN d.stxos : d.stxos[o].at = 0}}

(***************************************************************************)
(* SendCoins: all utxos, confirmed before unconfirmed and then by falling  *)
(* value, until they exceed the amount by more than the fee; the change    *)
(* goes to a new address unless it is below dustCutoff.  EstFee is the     *)
(* constant fee.                                                           *)
(***************************************************************************)
Value(d, ops) == MapThenSumSet(LAMBDA o : d.utxos[o].value, ops)

Before(d, o, p) ==
  \/ d.utxos[o].at > 0 /\ d.utxos[p].at = 0
  \/ (d.utxos[o].at > 0) = (d.utxos[p].at > 0) /\ d.utxos[o].value > d.utxos[p].value

Sorted(d) == SetToSortSeq(DOMAIN d.utxos, LAMBDA o, p : Before(d, o, p))

\* The utxos added while those before them do not suffice.
Inputs(d, s, amt, fee) ==
  {s[i] : i \in {i \in DOMAIN s :
     \A j \in 1..(i - 1) : Value(d, {s[k] : k \in 1..j}) - amt <= fee}}

Change(d, ins, amt, fee) == Value(d, ins) - amt - fee
===============================================================================
