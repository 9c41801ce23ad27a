------------------------------ MODULE HtlcManager ------------------------------
(***************************************************************************)
(* Two peers with one channel between them, each running the htlcManager   *)
(* goroutine of peer.go over its LightningChannel.  An action is one       *)
(* iteration of htlcManager's select loop: everything the handler does to  *)
(* the channel, to the commitmentState and to the outgoing queue.  The     *)
(* connection is one FIFO per direction (queueHandler, writeHandler and    *)
(* readHandler keep the order).                                            *)
(***************************************************************************)
EXTENDS LightningChannel, FiniteSets

CONSTANTS Peers,      \* the two ends of the channel
          MaxBatch,   \* size of pendingBatch that forces an update (10)
          Payments,   \* per peer, the set of [id, amt, hash] it will send
          Invoices,   \* per peer, the payment hashes it has the preimage of
          Funding     \* per peer, its balance when the channel was opened

\* A channel has two ends; balances and amounts are satoshis.
ASSUME ChannelAssumption ==
  /\ Cardinality(Peers) = 2
  /\ InitialRevocationWindow \in Nat \ {0} /\ MaxBatch \in Nat \ {0}
  /\ \A p \in Peers : /\ Funding[p] \in Nat
                      /\ \A pay \in Payments[p] : pay.amt \in Nat \ {0}

VARIABLES
  lc,         \* the LightningChannel of each peer
  wire,       \* wire[p]: messages sent by p and not yet handled by the other
  state,      \* the commitmentState of each htlcManager
  todo,       \* payments the switch has not handed to the htlcManager yet
  bandwidth,  \* availableBandwidth of the link in the switch
  fulfilled,  \* payments whose requester was told "fully fulfilled" (err <- nil)
  up          \* FALSE once the peer has disconnected or panicked

vars == <<lc, wire, state, todo, bandwidth, fulfilled, up>>

Remote(p) == CHOOSE q \in Peers : q # p
Capacity == LET p == CHOOSE q \in Peers : TRUE IN Funding[p] + Funding[Remote(p)]

NewState == [pendingBatch |-> <<>>, clearedHTCLs |-> {}, htlcsToSettle |-> {},
             numUnAcked |-> 0, logCommitTimer |-> FALSE, started |-> FALSE]

OpenChannel(p) ==
  [numUpdates |-> 0,
   balance |-> [our |-> Funding[p], their |-> Funding[Remote(p)]],
   htlcs |-> [s \in Sides |-> <<>>], current |-> 0, secrets |-> 0,
   revocationLog |-> <<>>]

Init ==
  /\ lc = [p \in Peers |-> NewLightningChannel(OpenChannel(p))]
  /\ wire = [p \in Peers |-> <<>>]
  /\ state = [p \in Peers |-> NewState]
  /\ todo = Payments
  /\ bandwidth = Funding
  /\ fulfilled = [p \in Peers |-> {}]
  /\ up = [p \in Peers |-> TRUE]

(***************************************************************************)
(* A handler works on a record: the channel, the commitmentState, the      *)
(* messages queued so far, the payments reported fulfilled, the bandwidth  *)
(* to credit, whether updateCommitTx sent an update, and whether nothing   *)
(* has failed.                                                             *)
(***************************************************************************)
Current(p) == [ok |-> TRUE, lc |-> lc[p], st |-> state[p], out |-> <<>>,
               told |-> {}, credit |-> 0, sent |-> FALSE]

\* The batch is committed with the signature and its requesters wait.
Updated(x, signed) ==
  [x EXCEPT !.sent = TRUE, !.ok = @ /\ signed.ok, !.lc = signed.lc,
            !.out = Append(@, signed.msg),
            !.st = [@ EXCEPT !.clearedHTCLs = @ \cup ToSet(x.st.pendingBatch),
                             !.logCommitTimer = FALSE, !.pendingBatch = <<>>]]

\* ErrNoWindow leaves everything as it was.
updateCommitTx(x) ==
  IF CanSign(x.lc) THEN Updated(x, SignNextCommitment(x.lc)) ELSE x

\* The callers that count the update as unacknowledged when it was sent.
Counted(x) == IF x.sent THEN [x EXCEPT !.st.numUnAcked = @ + 1] ELSE x

updateUnAcked(x) == Counted(updateCommitTx(x))

\* Install the outcome of a handler; a failing one disconnects the peer.
Commit(p, x) ==
  /\ lc' = [lc EXCEPT ![p] = x.lc]
  /\ state' = [state EXCEPT ![p] = x.st]
  /\ up' = [up EXCEPT ![p] = x.ok]

\* A handler of the switch's packets or of a timer: its messages are queued.
Send(p, x) == Commit(p, x) /\ wire' = [wire EXCEPT ![p] = @ \o x.out]

\* A handler of the first message from the remote peer.
Receive(p, x) ==
  /\ Commit(p, x)
  /\ wire' = [wire EXCEPT ![Remote(p)] = Tail(@), ![p] = @ \o x.out]

(***************************************************************************)
(* The htlcManager goroutine starts: the initial revocation window is      *)
(* queued before the select loop is entered.                               *)
(***************************************************************************)
Start(p) ==
  /\ up[p] /\ ~state[p].started
  /\ LET ext == ExtendRevocationWindow(lc[p], InitialRevocationWindow)
     IN Send(p, [Current(p) EXCEPT !.lc = ext.lc, !.out = ext.msgs,
                                   !.st.started = TRUE])
  /\ UNCHANGED <<todo, bandwidth, fulfilled>>

Running(p) == up[p] /\ state[p].started

\* Mutant: any bandwidth at all is enough.
HasBandwidth_Any(p, amt) == bandwidth[p] > 0

\* htlcForwarder's test before it hands a payment to the link.
HasBandwidth(p, amt) == bandwidth[p] >= amt

(***************************************************************************)
(* handleDownStreamPkt: the switch hands over a payment the link has the   *)
(* bandwidth for; a full batch is committed at once.                       *)
(***************************************************************************)
Batched(p, pay) ==
  [Current(p) EXCEPT
     !.lc = AddHTLC(@, pay),
     !.out = <<[type |-> "add", amt |-> pay.amt, hash |-> pay.hash]>>,
     !.st.pendingBatch = Append(@, [index |-> lc[p].ctr["our"], id |-> pay.id])]

UpdateIfFull(x) ==
  IF Len(x.st.pendingBatch) >= MaxBatch THEN updateUnAcked(x) ELSE x

handleDownStreamPkt(p, pay) ==
  /\ Running(p) /\ pay \in todo[p] /\ HasBandwidth(p, pay.amt)
  /\ Send(p, UpdateIfFull(Batched(p, pay)))
  /\ todo' = [todo EXCEPT ![p] = @ \ {pay}]
  /\ bandwidth' = [bandwidth EXCEPT ![p] = @ - pay.amt]
  /\ UNCHANGED fulfilled

\* The batch timer fires with a non-empty batch and an open window.
BatchTimer(p) ==
  /\ Running(p) /\ state[p].pendingBatch # <<>> /\ CanSign(lc[p])
  /\ Send(p, updateUnAcked(Current(p)))
  /\ UNCHANGED <<todo, bandwidth, fulfilled>>

\* The log commit timer fires with pending updates and an open window.
LogCommitTimer(p) ==
  /\ Running(p) /\ state[p].logCommitTimer
  /\ PendingUpdates(lc[p]) /\ CanSign(lc[p])
  /\ Send(p, updateUnAcked(Current(p)))
  /\ UNCHANGED <<todo, bandwidth, fulfilled>>

HasMsg(p, type) ==
  /\ Running(p) /\ wire[Remote(p)] # <<>>
  /\ Head(wire[Remote(p)]).type = type

Msg(p) == Head(wire[Remote(p)])

\* HTLCAddRequest: remembered for settling if we know the preimage.
ReceiveAdd(p) ==
  /\ HasMsg(p, "add")
  /\ Receive(p, [Current(p) EXCEPT
       !.lc = ReceiveHTLC(@, Msg(p)),
       !.st.htlcsToSettle = @ \cup
         {[index |-> lc[p].ctr["their"], amt |-> Msg(p).amt, hash |-> h] :
            h \in {Msg(p).hash} \cap Invoices[p]}])
  /\ UNCHANGED <<todo, bandwidth, fulfilled>>

\* HTLCSettleRequest: the peer is disconnected if there is no such HTLC.
ReceiveSettle(p) ==
  /\ HasMsg(p, "settle")
  /\ LET r == ReceiveHTLCSettle(lc[p], Msg(p).hash, Msg(p).index)
     IN Receive(p, [Current(p) EXCEPT !.ok = r.ok, !.lc = r.lc])
  /\ UNCHANGED <<todo, bandwidth, fulfilled>>

\* Mutant: the update that answers a signature is left to the timer.
Acknowledge_Later(x) ==
  [x EXCEPT !.st.numUnAcked = IF @ > 0 THEN @ - 1 ELSE @,
            !.st.logCommitTimer = TRUE]

\* A signature acknowledges an update of ours, or it is answered with one,
\* which is not counted as unacknowledged.
Acknowledge(x) ==
  IF x.st.numUnAcked > 0
    THEN [x EXCEPT !.st.numUnAcked = @ - 1, !.st.logCommitTimer = TRUE]
    ELSE updateCommitTx(x)

(***************************************************************************)
(* CommitSignature: verify, acknowledge, then revoke our prior commitment; *)
(* a step is skipped when one before it has failed.                        *)
(***************************************************************************)
Outcome(p, r) == [Current(p) EXCEPT !.ok = r.ok, !.lc = r.lc]

AcknowledgeIfOk(x) == IF x.ok THEN Acknowledge(x) ELSE x

Revoke(x, revoked) ==
  [x EXCEPT !.lc = revoked.lc, !.out = Append(@, revoked.msg)]

RevokeIfOk(x) == IF x.ok THEN Revoke(x, RevokeCurrentCommitment(x.lc)) ELSE x

ReceiveSig(p) ==
  /\ HasMsg(p, "sig")
  /\ Receive(p, RevokeIfOk(AcknowledgeIfOk(
                  Outcome(p, ReceiveNewCommitment(lc[p], Msg(p))))))
  /\ UNCHANGED <<todo, bandwidth, fulfilled>>

(***************************************************************************)
(* One entry returned by ReceiveRevocation.  The requester of the payment  *)
(* its ParentIndex names is told the payment is fulfilled; an Add we have  *)
(* an invoice for is settled.                                              *)
(***************************************************************************)
Fulfils(x, e) == {c \in x.st.clearedHTCLs : c.index = e.parent}

\* The invoice is paid: SettleHTLC's outcome, and the settle is queued.
Settled(x, inv, s) ==
  IF ~s.ok THEN [x EXCEPT !.ok = FALSE]
  ELSE [x EXCEPT !.lc = s.lc, !.st.htlcsToSettle = @ \ {inv},
                 !.out = Append(@, [type |-> "settle", index |-> s.index,
                                    hash |-> inv.hash]),
                 !.credit = @ + inv.amt]

Told(x, told) == [x EXCEPT !.st.clearedHTCLs = @ \ told, !.told = @ \cup told]

ToSettle(x, e) ==
  {i \in x.st.htlcsToSettle : e.type = "Add" /\ i.index = e.index}

SettleAll(x, invoices) ==
  IF invoices = {} THEN x
  ELSE LET inv == CHOOSE i \in invoices : TRUE
       IN Settled(x, inv, SettleHTLC(x.lc, inv.hash))

processForwarded(x, e) ==
  SettleAll(Told(x, Fulfils(x, e)), ToSettle(x, e))

\* Amounts are positive, so something was settled iff there is a credit.
UpdateIfSettled(x) ==
  IF x.ok /\ x.credit # 0 THEN updateUnAcked(x) ELSE x

(***************************************************************************)
(* CommitRevocation: process what has become irrevocable; if anything was  *)
(* settled, credit the link's bandwidth (UpdateLink) and update the remote *)
(* commitment.                                                             *)
(***************************************************************************)
Forwarded(x, forward) == FoldLeft(processForwarded, x, forward)

Finish(p, x) ==
  /\ Receive(p, x)
  /\ bandwidth' = [bandwidth EXCEPT ![p] = @ + x.credit]
  /\ fulfilled' = [fulfilled EXCEPT ![p] = @ \cup x.told]

Process(p, r) == Finish(p, UpdateIfSettled(Forwarded(Outcome(p, r), r.forward)))

ReceiveRev(p) ==
  /\ HasMsg(p, "rev")
  /\ Process(p, ReceiveRevocation(lc[p], Msg(p)))
  /\ UNCHANGED todo

handleUpstreamMsg(p) ==
  ReceiveAdd(p) \/ ReceiveSettle(p) \/ ReceiveSig(p) \/ ReceiveRev(p)

Next ==
  \E p \in Peers :
    \/ Start(p)
    \/ \E pay \in Payments[p] : handleDownStreamPkt(p, pay)
    \/ BatchTimer(p)
    \/ LogCommitTimer(p)
    \/ handleUpstreamMsg(p)

Spec == Init /\ [][Next]_vars

(***************************************************************************)
(* Nothing is left to happen by itself: no message is on the wire and no   *)
(* timer of either htlcManager would act.  Every action but a new payment  *)
(* is disabled, so a state that is not quiet always has a next step, and   *)
(* since heights, counters and payments bound every behaviour, each one    *)
(* reaches a quiet state when the goroutines keep running.                 *)
(***************************************************************************)
Quiet ==
  \A p \in Peers :
    /\ Running(p) /\ wire[p] = <<>>
    /\ state[p].pendingBatch # <<>> => ~CanSign(lc[p])
    /\ state[p].logCommitTimer => ~(PendingUpdates(lc[p]) /\ CanSign(lc[p]))

-----------------------------------------------------------------------------
\* The commitments a peer has built in this session, and the one on its disk.
Commitments(p) ==
  {toChannelDelta(c) : c \in UNION {ToSet(Tail(lc[p].chain[k])) : k \in Chains}}
    \cup {[numUpdates |-> lc[p].disk.numUpdates,
           balance |-> lc[p].disk.balance, htlcs |-> lc[p].disk.htlcs]}

(***************************************************************************)
(* Two honest peers never tear the channel down: every signature covers    *)
(* the very transaction the receiver builds from its own logs              *)
(* (ReceiveNewCommitment), every settle finds its HTLC                     *)
(* (ReceiveHTLCSettle), every secret matches (ReceiveRevocation), and no   *)
(* entry refers to an Add the other log has compacted away                 *)
(* (evaluateHTLCView, compactLogs dereference it unchecked).               *)
(***************************************************************************)
NeverDisconnects == \A p \in Peers : up[p]

(***************************************************************************)
(* No satoshi appears or disappears: in every commitment a peer signs,     *)
(* accepts or has on disk, the balances and the HTLCs add up to the        *)
(* channel's capacity (evaluateHTLCView credits and debits each chain once *)
(* per entry).                                                             *)
(***************************************************************************)
BalancesConserved ==
  \A p \in Peers : \A c \in Commitments(p) :
    c.balance["our"] + c.balance["their"]
      + SumAmt(c.htlcs["our"]) + SumAmt(c.htlcs["their"]) = Capacity

(***************************************************************************)
(* Neither party is ever committed to a negative balance: AddHTLC checks   *)
(* nothing, so this rests on the bandwidth the switch debits when it sends *)
(* and UpdateLink credits before the settle is committed.                  *)
(***************************************************************************)
NoOverdraft ==
  \A p \in Peers : \A c \in Commitments(p) : \A s \in Sides : c.balance[s] >= 0

(***************************************************************************)
(* The commitment a peer has on disk, the one it would broadcast, is never *)
(* one whose secret it has revealed, on the wire or to the remote elkrem   *)
(* receiver (RevokeCurrentCommitment persists before it replies).          *)
(***************************************************************************)
DiskNeverRevoked ==
  \A p \in Peers :
    /\ lc[Remote(p)].secrets <= lc[p].disk.numUpdates
    /\ \A m \in ToSet(wire[p]) :
         m.type = "rev" => m.secret < lc[p].disk.numUpdates

(***************************************************************************)
(* A preimage leaves a peer only for an HTLC that is irrevocable: the      *)
(* receiver's own broadcastable commitment contains it, and the sender has *)
(* revoked every commitment without it (the forward loop of                *)
(* ReceiveRevocation feeding SettleHTLC).                                  *)
(***************************************************************************)
SettledOnlyWhenLockedIn ==
  \A p \in Peers : \A e \in Removals(lc[p].log["our"]) :
    \A a \in Adds(lc[p].log["their"]) :
      a.index = e.parent =>
        /\ a.add["local"] # 0 /\ lc[p].height >= a.add["local"]
        /\ a.add["remote"] # 0 /\ lc[Remote(p)].height >= a.add["remote"]

(***************************************************************************)
(* A requester is told its payment is fulfilled only if the remote peer    *)
(* has settled the HTLC, never because of some other log entry             *)
(* (htlcManager looks up clearedHTCLs by the ParentIndex of every entry).  *)
(***************************************************************************)
FulfilledOnlyIfSettled ==
  \A p \in Peers : \A c \in fulfilled[p] :
    \A a \in Adds(lc[Remote(p)].log["their"]) : a.index = c.index => a.settled

\* Both chains of a peer end in the same balances and HTLCs.
Converged(p) ==
  LET l == Tip(lc[p], "local")
      r == Tip(lc[p], "remote")
  IN l.balance = r.balance /\ \A s \in Sides : Outputs(l.htlcs[s]) = Outputs(r.htlcs[s])

(***************************************************************************)
(* Whenever nothing is in flight and no timer will act, both chains of     *)
(* both peers have converged to identical state: that is the role of       *)
(* logCommitTimer, and of answering a signature with a signature.          *)
(***************************************************************************)
ConvergedWhenQuiet == Quiet => \A p \in Peers : Converged(p)

(***************************************************************************)
(* Whenever nothing is in flight and no timer will act, every payment that *)
(* was committed has been reported fulfilled to its requester, who waits   *)
(* in SendHTLC (the remote peer knows all preimages here).                 *)
(***************************************************************************)
FulfilledWhenQuiet == Quiet => \A p \in Peers : state[p].clearedHTCLs = {}

===============================================================================
