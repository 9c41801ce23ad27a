--------------------------- MODULE LightningChannel ---------------------------
(***************************************************************************)
(* The commitment state machine of lnwallet/channel.go, as operators on a  *)
(* record "lc" holding one party's LightningChannel:                       *)
(*                                                                         *)
(*   height, edge     currentHeight, revocationWindowEdge                  *)
(*   window, used     revocationWindow, usedRevocations (elkrem indexes)   *)
(*   current, secrets TheirCurrentRevocation, size of RemoteElkrem         *)
(*   chain            localCommitChain and remoteCommitChain, tail first   *)
(*   log, ctr         the two update logs and their counters; the maps     *)
(*                    ourLogIndex and theirLogIndex are the Adds of a log  *)
(*   disk             what channeldb holds for the channel                 *)
(*                                                                         *)
(* A transaction is abstracted to what two parties must agree on; a        *)
(* signature is the transaction it covers.  Log entries carry the heights  *)
(* at which each chain added or removed them, 0 meaning "not yet".  The    *)
(* Timeout entry type is declared in the source and never created.         *)
(***************************************************************************)
EXTENDS Integers, Sequences, SequencesExt

CONSTANT InitialRevocationWindow

Sides == {"our", "their"}
Chains == {"local", "remote"}
Other(s) == IF s = "our" THEN "their" ELSE "our"

NoSecret == -1

\* A PaymentDescriptor; h is the height both chains are said to have added it.
Descriptor(type, index, parent, amt, hash, h) ==
  [type |-> type, index |-> index, parent |-> parent, amt |-> amt,
   hash |-> hash, add |-> [c \in Chains |-> h], rem |-> [c \in Chains |-> 0],
   forwarded |-> FALSE, settled |-> FALSE]

Adds(log) == {e \in ToSet(log) : e.type = "Add"}
Removals(log) == {e \in ToSet(log) : e.type # "Add"}
SumAmt(s) == FoldLeft(LAMBDA sum, e : sum + e.amt, 0, s)

Tip(lc, c) == Last(lc.chain[c])
Tail0(lc, c) == Head(lc.chain[c])

\* Mutant: restored entries count as never added.
PastHeight_None(h) == 0

\* The height restored entries are said to have been added at, and the last
\* revocation key handed out, for a channel at height h.
PastHeight(h) == IF h > 0 THEN h - 1 ELSE 0
RestoredEdge(h) == h

(***************************************************************************)
(* NewLightningChannel and restoreStateLogs: both chains start from the    *)
(* one commitment on disk, whose HTLCs become Add entries numbered from 0  *)
(* and added at the height before it.                                      *)
(***************************************************************************)
NewLightningChannel(disk) ==
  LET h == disk.numUpdates
      past == PastHeight(h)
      ctr == [s \in Sides |-> Len(disk.htlcs[s])]
      initial == [height |-> h, balance |-> disk.balance, index |-> ctr,
                  htlcs |-> [s \in Sides |-> <<>>]]
  IN [height |-> h, edge |-> RestoredEdge(h), window |-> <<>>, used |-> <<>>,
      current |-> disk.current, secrets |-> disk.secrets,
      chain |-> [c \in Chains |-> <<initial>>],
      log |-> [s \in Sides |-> [i \in 1..ctr[s] |->
                 Descriptor("Add", i - 1, 0, disk.htlcs[s][i].amt,
                            disk.htlcs[s][i].hash, past)]],
      ctr |-> ctr, disk |-> disk]

(***************************************************************************)
(* fetchHTLCView and evaluateHTLCView: the entries of both logs below the  *)
(* given indexes; an Add is skipped when the other log settles it; entries *)
(* a chain sees for the first time change its balances and are stamped     *)
(* with the new height.                                                    *)
(***************************************************************************)
fetchHTLCView(lc, index) ==
  [s \in Sides |-> SelectSeq(lc.log[s], LAMBDA e : e.index < index[s])]

Skipped(view, s) == {e.parent : e \in Removals(view[Other(s)])}

Active(view, s) ==
  SelectSeq(view[s],
            LAMBDA e : e.type = "Add" /\ e.index \notin Skipped(view, s))

\* The settled parents a view needs; a missing one is a nil dereference.
ParentsPresent(lc, view) ==
  \A s \in Sides : Skipped(view, s) \subseteq {e.index : e \in Adds(lc.log[s])}

processAddEntry(e, c, h) == IF e.add[c] = 0 THEN [e EXCEPT !.add[c] = h] ELSE e
processRemoveEntry(e, c, h) == IF e.rem[c] = 0 THEN [e EXCEPT !.rem[c] = h] ELSE e

\* The log of side s after the view has been evaluated for chain c.
Stamped(lc, view, index, s, c, h) ==
  [i \in DOMAIN lc.log[s] |->
     LET e == lc.log[s][i]
     IN CASE e.index >= index[s] -> e
          [] e.type # "Add" -> processRemoveEntry(e, c, h)
          [] e.index \in Skipped(view, s) -> e
          [] OTHER -> processAddEntry(e, c, h)]

Balance(lc, view, s, c) ==
  Tip(lc, c).balance[s]
    - SumAmt(SelectSeq(Active(view, s), LAMBDA e : e.add[c] = 0))
    + SumAmt(SelectSeq(view[s], LAMBDA e : e.type # "Add" /\ e.rem[c] = 0))

Outputs(htlcs) ==
  ToBag([i \in DOMAIN htlcs |-> [amt |-> htlcs[i].amt, hash |-> htlcs[i].hash]])

\* The transaction of a commitment of chain c as both parties must build it:
\* the balance of the chain's owner first.
Txn(commit, c, key) ==
  LET owner == IF c = "local" THEN "our" ELSE "their"
  IN [self |-> commit.balance[owner], other |-> commit.balance[Other(owner)],
      offered |-> Outputs(commit.htlcs[owner]),
      received |-> Outputs(commit.htlcs[Other(owner)]), key |-> key]

\* The commitment of chain c, at height h, that a view makes.
Evaluated(lc, view, c, index, h) ==
  [height |-> h, index |-> index,
   balance |-> [s \in Sides |-> Balance(lc, view, s, c)],
   htlcs |-> [s \in Sides |-> [i \in DOMAIN Active(view, s) |->
                [amt |-> Active(view, s)[i].amt, hash |-> Active(view, s)[i].hash]]]]

(***************************************************************************)
(* fetchCommitmentView: the next commitment of chain c and the logs with   *)
(* the heights evaluateHTLCView has written.                               *)
(***************************************************************************)
fetchCommitmentView(lc, c, index) ==
  LET view == fetchHTLCView(lc, index)
      h == Tip(lc, c).height + 1
  IN [ok |-> ParentsPresent(lc, view),
      log |-> [s \in Sides |-> Stamped(lc, view, index, s, c, h)],
      commit |-> Evaluated(lc, view, c, index, h)]

(***************************************************************************)
(* SignNextCommitment: ErrNoWindow unless CanSign.                         *)
(***************************************************************************)
CanSign(lc) == Len(lc.window) # 0 /\ Len(lc.used) # InitialRevocationWindow

Signed(lc, next) ==
  [ok |-> next.ok,
   msg |-> [type |-> "sig", logIndex |-> lc.ctr["their"],
            txn |-> Txn(next.commit, "remote", Head(lc.window))],
   lc |-> [lc EXCEPT !.log = next.log,
                     !.chain["remote"] = Append(@, next.commit),
                     !.used = Append(@, Head(lc.window)),
                     !.window = Tail(@)]]

SignNextCommitment(lc) ==
  Signed(lc, fetchCommitmentView(lc, "remote", lc.ctr))

(***************************************************************************)
(* ReceiveNewCommitment: the signature must cover the transaction built    *)
(* here, from our log up to the index the message names.                   *)
(***************************************************************************)
Verified(lc, msg, next) ==
  [ok |-> next.ok /\ Txn(next.commit, "local", lc.height + 1) = msg.txn,
   lc |-> [lc EXCEPT !.log = next.log,
                     !.chain["local"] = Append(@, next.commit)]]

\* Mutant: our whole log is taken to be in the remote's commitment.
ReceiveNewCommitment_OwnIndex(lc, msg) ==
  Verified(lc, msg, fetchCommitmentView(lc, "local", lc.ctr))

ReceiveNewCommitment(lc, msg) ==
  Verified(lc, msg, fetchCommitmentView(lc, "local",
             [our |-> msg.logIndex, their |-> lc.ctr["their"]]))

PendingUpdates(lc) == Tip(lc, "local").index["our"] # Tip(lc, "remote").index["our"]

\* toChannelDelta: what a commitment leaves in the database.
toChannelDelta(commit) ==
  [numUpdates |-> commit.height, balance |-> commit.balance,
   htlcs |-> commit.htlcs]

\* Mutants: the new tail is not saved, here; the last key is handed out again,
\* below.
RevokeCurrentCommitment_NoSave(lc) ==
  [msg |-> [type |-> "rev", secret |-> lc.height, next |-> lc.edge + 1],
   lc |-> [lc EXCEPT !.chain["local"] = Tail(@), !.height = @ + 1,
                     !.edge = @ + 1]]

RevokeCurrentCommitment_SameKey(lc) ==
  [msg |-> [type |-> "rev", secret |-> lc.height, next |-> lc.edge],
   lc |-> [lc EXCEPT !.chain["local"] = Tail(@), !.height = @ + 1,
                     !.disk = toChannelDelta(lc.chain["local"][2]) @@ @]]

(***************************************************************************)
(* RevokeCurrentCommitment: the new tail is on disk (UpdateCommitment)     *)
(* before the message with the old secret exists.                          *)
(***************************************************************************)
RevokeCurrentCommitment(lc) ==
  LET delta == toChannelDelta(lc.chain["local"][2])
  IN [msg |-> [type |-> "rev", secret |-> lc.height, next |-> lc.edge + 1],
      lc |-> [lc EXCEPT !.chain["local"] = Tail(@), !.height = @ + 1,
                        !.edge = @ + 1, !.disk = delta @@ @]]

(***************************************************************************)
(* ReceiveRevocation: a message without secret extends the window.         *)
(* Otherwise the secret must fit the elkrem receiver and derive the        *)
(* current key; the oldest used key becomes current; the revoked           *)
(* commitment is logged to disk (AppendToRevocationLog); entries of their  *)
(* log locked in by both tails are forwarded; both logs are compacted.     *)
(***************************************************************************)
\* Mutant: the local chain alone is looked at.
Forwardable_Local(e, tails) ==
  /\ ~e.forwarded
  /\ IF e.type = "Add"
       THEN e.add["local"] # 0 /\ tails["local"] >= e.add["local"]
       ELSE tails["local"] >= e.rem["local"]

Forwardable(e, tails) ==
  /\ ~e.forwarded
  /\ IF e.type = "Add"
       THEN \A c \in Chains : e.add[c] # 0 /\ tails[c] >= e.add[c]
       ELSE \A c \in Chains : tails[c] >= e.rem[c]

Compactable(e, tails) ==
  e.type # "Add" /\ \A c \in Chains : e.rem[c] # 0 /\ tails[c] >= e.rem[c]

compactLogs(log, tails) ==
  LET parents(s) == {e.parent : e \in {x \in ToSet(log[Other(s)]) :
                                         Compactable(x, tails)}}
  IN [ok |-> \A s \in Sides : parents(s) \subseteq {e.index : e \in Adds(log[s])},
      log |-> [s \in Sides |->
        SelectSeq(log[s], LAMBDA e : /\ ~Compactable(e, tails)
                                     /\ ~(e.type = "Add" /\ e.index \in parents(s)))]]

ExtendedWindow(lc, msg) ==
  [ok |-> TRUE, forward |-> <<>>, lc |-> [lc EXCEPT !.window = Append(@, msg.next)]]

\* Mutant: the commitment that replaces the revoked one is logged.
Revoked_Next(lc) == lc.chain["remote"][2]

\* The commitment of the remote chain that a secret revokes.
Revoked(lc) == Tail0(lc, "remote")

ReceiveRevocation(lc, msg) ==
  IF msg.secret = NoSecret THEN ExtendedWindow(lc, msg)
  ELSE IF msg.secret # lc.secrets \/ msg.secret # lc.current \/ lc.used = <<>>
  THEN [ok |-> FALSE, forward |-> <<>>, lc |-> lc]
  ELSE LET revoked == Revoked(lc)
           tails == [local |-> Tail0(lc, "local").height,
                     remote |-> lc.chain["remote"][2].height]
           marked == [i \in DOMAIN lc.log["their"] |->
                        LET e == lc.log["their"][i]
                        IN [e EXCEPT !.forwarded = @ \/ Forwardable(e, tails)]]
           compacted == compactLogs([lc.log EXCEPT !["their"] = marked], tails)
       IN [ok |-> compacted.ok,
           forward |-> SelectSeq(lc.log["their"],
                                 LAMBDA e : Forwardable(e, tails)),
           lc |-> [lc EXCEPT !.secrets = @ + 1, !.current = Head(lc.used),
                             !.used = Tail(@), !.window = Append(@, msg.next),
                             !.chain["remote"] = Tail(@),
                             !.log = compacted.log,
                             !.disk = [@ EXCEPT
                                !.secrets = lc.secrets + 1,
                                !.current = Head(lc.used),
                                !.revocationLog =
                                    (revoked.height :> toChannelDelta(revoked)) @@ @]]]

\* ExtendRevocationWindow, called n times.
ExtendRevocationWindow(lc, n) ==
  [msgs |-> [i \in 1..n |-> [type |-> "rev", secret |-> NoSecret,
                             next |-> lc.edge + i]],
   lc |-> [lc EXCEPT !.edge = @ + n]]

\* AddHTLC and ReceiveHTLC push an Add on our log or on theirs.
PushAdd(lc, s, htlc) ==
  [lc EXCEPT !.log[s] = Append(@, Descriptor("Add", lc.ctr[s], 0, htlc.amt,
                                             htlc.hash, 0)),
             !.ctr[s] = @ + 1]

AddHTLC(lc, htlc) == PushAdd(lc, "our", htlc)
ReceiveHTLC(lc, htlc) == PushAdd(lc, "their", htlc)

PushSettle(lc, s, add) ==
  [lc EXCEPT !.log[s] = Append(@, Descriptor("Settle", lc.ctr[s], add.index,
                                             add.amt, "none", 0)),
             !.ctr[s] = @ + 1]

(***************************************************************************)
(* SettleHTLC settles the first unsettled Add of their log with the hash;  *)
(* ReceiveHTLCSettle looks the Add up by its index in our log.             *)
(***************************************************************************)
SettleHTLC(lc, hash) ==
  LET i == SelectInSeq(lc.log["their"],
                       LAMBDA e : e.type = "Add" /\ ~e.settled /\ e.hash = hash)
  IN IF i = 0 THEN [ok |-> FALSE, index |-> 0, lc |-> lc]
     ELSE [ok |-> TRUE, index |-> lc.log["their"][i].index,
           lc |-> PushSettle([lc EXCEPT !.log["their"][i].settled = TRUE],
                             "our", lc.log["their"][i])]

ReceiveHTLCSettle(lc, hash, index) ==
  LET targets == {e \in Adds(lc.log["our"]) : e.index = index /\ e.hash = hash}
  IN IF targets = {} THEN [ok |-> FALSE, lc |-> lc]
     ELSE [ok |-> TRUE, lc |-> PushSettle(lc, "their", CHOOSE e \in targets : TRUE)]
===============================================================================
