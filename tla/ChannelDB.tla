------------------------------- MODULE ChannelDB -------------------------------
(***************************************************************************)
(* The bolt database of a node (package channeldb).  A bucket is a         *)
(* function from keys to values, a key is the sequence of the parts the    *)
(* code concatenates, and every operation maps the contents of the         *)
(* database to the contents a committed transaction leaves.                *)
(*   open      openChannelBucket: the prefixed columns of all channels     *)
(*   nodes     per remote node with a bucket: its columns (cols), the      *)
(*             chanIDBucket (ids) and the channelLogBucket (log)           *)
(*   closed    closedChannelBucket                                         *)
(*   invoices, hashes, numInvoices   invoiceBucket, paymentHashIndexBucket *)
(*             and the counter under numInvoicesKey                        *)
(***************************************************************************)
EXTENDS Naturals, Sequences, SequencesExt

EmptyBucket == [k \in {} |-> k]

EmptyDB == [open |-> EmptyBucket, nodes |-> EmptyBucket, closed |-> {},
            invoices |-> EmptyBucket, hashes |-> EmptyBucket, numInvoices |-> 0]

Put(b, k, v) == (k :> v) @@ b
Delete(b, k) == Restrict(b, DOMAIN b \ {k})

\* A fetch of something that is not there: a read past the end of the value
\* is an error, decoding an integer or slicing a key out of nil a panic.
Error == [fails |-> "error"]
Panic == [fails |-> "panic"]
Failed(r) == "fails" \in DOMAIN r

writeOutpoint(o) == <<o.Hash, o.Index>>
readOutpoint(s) == [Hash |-> s[1], Index |-> s[2]]

\* prefix || chanID
Key(prefix, o) == <<prefix>> \o writeOutpoint(o)

PutEach(b, o, r) == [k \in {Key(p, o) : p \in DOMAIN r} |-> r[k[1]]] @@ b
DeleteEach(b, o, P) == Restrict(b, DOMAIN b \ {Key(p, o) : p \in P})

\* The value under k, decoded, or what the fetch makes of its absence.
Read(b, k, Decoded(_), missing) == IF k \in DOMAIN b THEN Decoded(b[k]) ELSE missing

-----------------------------------------------------------------------------
(* The columns of openChannelBucket. *)

putChanCapacity(b, c) ==
  PutEach(b, c.ChanID, [ccp |-> c.Capacity, sbp |-> c.OurBalance, tbp |-> c.TheirBalance])
deleteChanCapacity(b, o) == DeleteEach(b, o, {"ccp", "sbp", "tbp"})
fetchChanCapacity(b, o) ==
  IF \A p \in {"ccp", "sbp", "tbp"} : Key(p, o) \in DOMAIN b
  THEN [Capacity |-> b[Key("ccp", o)], OurBalance |-> b[Key("sbp", o)],
        TheirBalance |-> b[Key("tbp", o)]]
  ELSE Panic

putChanMinFeePerKb(b, c) == Put(b, Key("mfp", c.ChanID), c.MinFeePerKb)
deleteChanMinFeePerKb(b, o) == Delete(b, Key("mfp", o))
fetchChanMinFeePerKb(b, o) ==
  LET Decoded(v) == [MinFeePerKb |-> v] IN Read(b, Key("mfp", o), Decoded, Panic)

putChanNumUpdates(b, c) == Put(b, Key("uup", c.ChanID), c.NumUpdates)
deleteChanNumUpdates(b, o) == Delete(b, Key("uup", o))
fetchChanNumUpdates(b, o) ==
  LET Decoded(v) == [NumUpdates |-> v] IN Read(b, Key("uup", o), Decoded, Panic)

putChanTotalFlow(b, c) ==
  PutEach(b, c.ChanID, [ssp |-> c.TotalSatoshisSent, srp |-> c.TotalSatoshisReceived])
deleteChanTotalFlow(b, o) == DeleteEach(b, o, {"ssp", "srp"})
fetchChanTotalFlow(b, o) ==
  IF \A p \in {"ssp", "srp"} : Key(p, o) \in DOMAIN b
  THEN [TotalSatoshisSent |-> b[Key("ssp", o)], TotalSatoshisReceived |-> b[Key("srp", o)]]
  ELSE Panic

putChanNetFee(b, c) == Put(b, Key("ntp", c.ChanID), c.TotalNetFees)
deleteChanNetFee(b, o) == Delete(b, Key("ntp", o))
fetchChanNetFee(b, o) ==
  LET Decoded(v) == [TotalNetFees |-> v] IN Read(b, Key("ntp", o), Decoded, Panic)

-----------------------------------------------------------------------------
(* The columns of a node's bucket. *)

NoLNID == "zero"

putChannelIDs(b, c) == Put(b, Key("cik", c.ChanID), c.TheirLNID)
deleteChannelIDs(b, o) == Delete(b, Key("cik", o))
fetchChannelIDs(b, o) ==
  LET Decoded(v) == [TheirLNID |-> v]
  IN Read(b, Key("cik", o), Decoded, [TheirLNID |-> NoLNID])

putChanCommitKeys(b, c) ==
  Put(b, Key("ckk", c.ChanID), <<c.TheirCommitKey, c.OurCommitKey>>)
deleteChanCommitKeys(b, o) == Delete(b, Key("ckk", o))
fetchChanCommitKeys(b, o) ==
  LET Decoded(v) == [TheirCommitKey |-> v[1], OurCommitKey |-> v[2]]
  IN Read(b, Key("ckk", o), Decoded, Panic)

putChanCommitTxns(b, c) ==
  Put(b, Key("ctk", c.ChanID),
      <<c.OurCommitTx, c.OurCommitSig, c.LocalCsvDelay, c.RemoteCsvDelay>>)
deleteChanCommitTxns(b, o) == Delete(b, Key("ctk", o))
fetchChanCommitTxns(b, o) ==
  LET Decoded(v) == [OurCommitTx |-> v[1], OurCommitSig |-> v[2],
                     LocalCsvDelay |-> v[3], RemoteCsvDelay |-> v[4]]
  IN Read(b, Key("ctk", o), Decoded, Error)

\* A creation time is stored in whole seconds.
putChanFundingInfo(b, c) ==
  Put(b, Key("fsk", c.ChanID),
      <<writeOutpoint(c.FundingOutpoint), c.OurMultiSigKey, c.TheirMultiSigKey,
        c.FundingRedeemScript, c.CreationTime.sec>>)
deleteChanFundingInfo(b, o) == Delete(b, Key("fsk", o))
fetchChanFundingInfo(b, o) ==
  LET Decoded(v) == [FundingOutpoint |-> readOutpoint(v[1]), OurMultiSigKey |-> v[2],
                     TheirMultiSigKey |-> v[3], FundingRedeemScript |-> v[4],
                     CreationTime |-> [sec |-> v[5], nsec |-> 0]]
  IN Read(b, Key("fsk", o), Decoded, Error)

\* Mutant: the key lacks the channel's identifier.
putSharedElkremState(b, c) ==
  Put(b, <<"esk">>, <<c.TheirCurrentRevocation, c.TheirCurrentRevocationHash,
                      c.LocalElkrem, c.RemoteElkrem>>)
putChanElkremState(b, c) ==
  Put(b, Key("esk", c.ChanID), <<c.TheirCurrentRevocation, c.TheirCurrentRevocationHash,
                                 c.LocalElkrem, c.RemoteElkrem>>)
deleteChanElkremState(b, o) == Delete(b, Key("esk", o))
fetchChanElkremState(b, o) ==
  LET Decoded(v) == [TheirCurrentRevocation |-> v[1], TheirCurrentRevocationHash |-> v[2],
                     LocalElkrem |-> v[3], RemoteElkrem |-> v[4]]
  IN Read(b, Key("esk", o), Decoded, Error)

\* The three functions build prefix || chanID and then use the bare prefix.
putChanDeliveryScripts(b, c) ==
  Put(b, <<"dsk">>, <<c.OurDeliveryScript, c.TheirDeliveryScript>>)
deleteChanDeliveryScripts(b, o) == Delete(b, <<"dsk">>)
fetchChanDeliveryScripts(b, o) ==
  LET Decoded(v) == [OurDeliveryScript |-> v[1], TheirDeliveryScript |-> v[2]]
  IN Read(b, <<"dsk">>, Decoded, Error)

-----------------------------------------------------------------------------
(* HTLCs and channel deltas; a serialized HTLC takes htlcDiskSize cells. *)

htlcDiskSize == 5

serializeHTLC(h) ==
  <<IF h.Incoming THEN 1 ELSE 0, h.Amt, h.RHash, h.RefundTimeout, h.RevocationDelay>>

deserializeHTLC(s) ==
  [Incoming |-> s[1] = 1, Amt |-> s[2], RHash |-> s[3],
   RefundTimeout |-> s[4], RevocationDelay |-> s[5]]

SerializeAll(htlcs) == FlattenSeq([i \in DOMAIN htlcs |-> serializeHTLC(htlcs[i])])

DeserializeFrom(s, start, count) ==
  [i \in 1..count |->
     deserializeHTLC(SubSeq(s, start + (i - 1) * htlcDiskSize,
                               start + i * htlcDiskSize - 1))]

makeHtlcKey(o) == <<"chk", o.Hash, o.Index>>
putCurrentHtlcs(b, htlcs, o) == Put(b, makeHtlcKey(o), SerializeAll(htlcs))
fetchCurrentHtlcs(b, o) ==
  LET Decoded(s) == [Htlcs |-> DeserializeFrom(s, 1, Len(s) \div htlcDiskSize)]
  IN Read(b, makeHtlcKey(o), Decoded, [Htlcs |-> <<>>])

serializeChannelDelta(d) ==
  <<d.LocalBalance, d.RemoteBalance, d.UpdateNum, Len(d.Htlcs)>> \o SerializeAll(d.Htlcs)

deserializeChannelDelta(s) ==
  [LocalBalance |-> s[1], RemoteBalance |-> s[2], UpdateNum |-> s[3],
   Htlcs |-> DeserializeFrom(s, 5, s[4])]

\* Mutant: the key lacks the channel's identifier.
makeLogKeyOfNode(o, updateNum) == <<updateNum>>
makeLogKey(o, updateNum) == <<o.Hash, o.Index, updateNum>>

appendChannelLogEntry(log, d, o) ==
  Put(log, makeLogKey(o, d.UpdateNum), serializeChannelDelta(d))

fetchChannelLogEntry(log, o, updateNum) ==
  Read(log, makeLogKey(o, updateNum), deserializeChannelDelta, Error)

-----------------------------------------------------------------------------
(* Whole channels.  open and cols are the two buckets a channel's columns  *)
(* are spread over.                                                        *)

putOpenChannel(open, cols, c) ==
  [open |-> putChanNetFee(putChanTotalFlow(putChanNumUpdates(
              putChanMinFeePerKb(putChanCapacity(open, c), c), c), c), c),
   cols |-> putCurrentHtlcs(putChanDeliveryScripts(putChanElkremState(
              putChanFundingInfo(putChanCommitTxns(putChanCommitKeys(
                putChannelIDs(cols, c), c), c), c), c), c), c.Htlcs, c.ChanID)]

\* The groups of fields in the order fetchOpenChannel reads them.
FetchedGroups(open, cols, o) ==
  <<fetchChannelIDs(cols, o), fetchChanCommitKeys(cols, o), fetchChanCommitTxns(cols, o),
    fetchChanFundingInfo(cols, o), fetchChanElkremState(cols, o),
    fetchChanDeliveryScripts(cols, o), fetchCurrentHtlcs(cols, o),
    fetchChanCapacity(open, o), fetchChanMinFeePerKb(open, o), fetchChanNumUpdates(open, o),
    fetchChanTotalFlow(open, o), fetchChanNetFee(open, o)>>

fetchOpenChannel(open, cols, o) ==
  LET groups == FetchedGroups(open, cols, o)
      failing == SelectInSeq(groups, Failed)
  IN IF failing # 0 THEN groups[failing]
     ELSE FoldLeft(LAMBDA c, g : c @@ g, [ChanID |-> o], groups)

\* Neither the current HTLCs nor the log entries of the channel are deleted.
deleteOpenChannel(open, cols, o) ==
  [open |-> deleteChanNetFee(deleteChanTotalFlow(deleteChanNumUpdates(
              deleteChanMinFeePerKb(deleteChanCapacity(open, o), o), o), o), o),
   cols |-> deleteChanDeliveryScripts(deleteChanElkremState(deleteChanFundingInfo(
              deleteChanCommitTxns(deleteChanCommitKeys(
                deleteChannelIDs(cols, o), o), o), o), o), o)]

NewNode == [cols |-> EmptyBucket, ids |-> {}, log |-> EmptyBucket]

\* CreateBucketIfNotExists
NodeBucket(db, n) == IF n \in DOMAIN db.nodes THEN db.nodes[n] ELSE NewNode

FullSync(db, c) ==
  LET node == NodeBucket(db, c.TheirLNID)
      put == putOpenChannel(db.open, node.cols, c)
  IN [db EXCEPT !.open = put.open,
                !.nodes = Put(@, c.TheirLNID,
                              [node EXCEPT !.cols = put.cols,
                                           !.ids = @ \cup {writeOutpoint(c.ChanID)}])]

\* The fields UpdateCommitment assigns in memory before it writes anything.
Assigned(c, newCommitment, newSig, d) ==
  [c EXCEPT !.OurCommitTx = newCommitment, !.OurCommitSig = newSig,
            !.OurBalance = d.LocalBalance, !.TheirBalance = d.RemoteBalance,
            !.NumUpdates = d.UpdateNum, !.Htlcs = d.Htlcs]

\* c with the fields of the new commitment assigned.
UpdateCommitment(db, c) ==
  LET node == NodeBucket(db, c.TheirLNID)
  IN [db EXCEPT !.open = putChanNumUpdates(putChanCapacity(@, c), c),
                !.nodes = Put(@, c.TheirLNID,
                              [node EXCEPT !.cols = putCurrentHtlcs(
                                 putChanCommitTxns(@, c), c.Htlcs, c.ChanID)])]

AppendToRevocationLog(db, c, d) ==
  LET node == NodeBucket(db, c.TheirLNID)
  IN [db EXCEPT !.nodes = Put(@, c.TheirLNID,
                              [node EXCEPT !.cols = putChanElkremState(@, c),
                                           !.log = appendChannelLogEntry(@, d, c.ChanID)])]

\* The log bucket is made by the first append; the test for it is made on the
\* node's bucket.
FindPreviousState(db, n, o, updateNum) ==
  IF n \notin DOMAIN db.nodes THEN Error
  ELSE IF db.nodes[n].log = EmptyBucket THEN Panic
  ELSE fetchChannelLogEntry(db.nodes[n].log, o, updateNum)

putClosedChannelSummary(closed, o) == closed \cup {writeOutpoint(o)}

\* Mutant: the channel stays in the index.
CloseKeepingIndex(db, n, o) ==
  IF n \notin DOMAIN db.nodes THEN db
  ELSE LET del == deleteOpenChannel(db.open, db.nodes[n].cols, o)
       IN [db EXCEPT !.open = del.open, !.nodes[n].cols = del.cols,
                     !.closed = putClosedChannelSummary(@, o)]

\* Without a bucket for the node there is nothing to close (ErrNoActiveChannels).
CloseChannel(db, n, o) ==
  IF n \notin DOMAIN db.nodes THEN db
  ELSE LET del == deleteOpenChannel(db.open, db.nodes[n].cols, o)
       IN [db EXCEPT !.open = del.open, !.nodes[n].cols = del.cols,
                     !.nodes[n].ids = @ \ {writeOutpoint(o)},
                     !.closed = putClosedChannelSummary(@, o)]

IDs(db, n) == {readOutpoint(k) : k \in NodeBucket(db, n).ids}

\* One channel that cannot be read fails the whole fetch.
FetchOpenChannels(db, n) ==
  LET read == [o \in IDs(db, n) |-> fetchOpenChannel(db.open, db.nodes[n].cols, o)]
      bad == {o \in DOMAIN read : Failed(read[o])}
  IN IF bad = {} THEN [channels |-> read] ELSE read[CHOOSE o \in bad : TRUE]

-----------------------------------------------------------------------------
(* Invoices.  A creation date whose zone is not a whole number of minutes  *)
(* cannot be marshalled.                                                   *)

PaymentHash(preimage) == <<"sha256", preimage>>

Marshals(i) == i.CreationDate.wholeMinutes

serializeInvoice(i) ==
  <<i.Memo, i.Receipt, i.CreationDate.at, i.PaymentPreimage, i.Value,
    IF i.Settled THEN 1 ELSE 0>>

deserializeInvoice(s) ==
  [Memo |-> s[1], Receipt |-> s[2], CreationDate |-> [at |-> s[3], wholeMinutes |-> TRUE],
   PaymentPreimage |-> s[4], Value |-> s[5], Settled |-> s[6] = 1]

fetchInvoice(db, num) == Read(db.invoices, num, deserializeInvoice, Error)

\* When the invoice does not serialize, the counter and the index entry are
\* committed without it.
putInvoice(db, i, num) ==
  [db EXCEPT !.numInvoices = num + 1,
             !.hashes = Put(@, PaymentHash(i.PaymentPreimage), num),
             !.invoices = IF Marshals(i) THEN Put(@, num, serializeInvoice(i)) ELSE @]

\* Mutant: a payment hash may be used again.
AddDuplicateInvoice(db, i) == putInvoice(db, i, db.numInvoices)

\* ErrDuplicateInvoice leaves the database as it was.
AddInvoice(db, i) ==
  IF PaymentHash(i.PaymentPreimage) \in DOMAIN db.hashes THEN db
  ELSE putInvoice(db, i, db.numInvoices)

LookupInvoice(db, hash) ==
  IF hash \in DOMAIN db.hashes THEN fetchInvoice(db, db.hashes[hash]) ELSE Error

settleInvoice(db, num) ==
  LET i == fetchInvoice(db, num)
  IN IF Failed(i) THEN db
     ELSE [db EXCEPT !.invoices[num] = serializeInvoice([i EXCEPT !.Settled = TRUE])]

\* ErrInvoiceNotFound leaves the database as it was.
SettleInvoice(db, hash) ==
  IF hash \in DOMAIN db.hashes THEN settleInvoice(db, db.hashes[hash]) ELSE db
===============================================================================
