----------------------------- MODULE FundingManager ---------------------------
(***************************************************************************)
(* The single funder workflow between two daemons: the fundingManager of   *)
(* fundingmanager.go on either side, the LightningWallet each one drives,  *)
(* and what the workflow uses of a peer (peer.go) and of the chain.        *)
(*                                                                         *)
(* Actors of a daemon:                                                     *)
(*   reservationCoordinator  handles one message or request at a time; a   *)
(*            send on a Go channel that may block is a step of its own,    *)
(*            and so is what the handler does after it (todo)              *)
(*   routines  one per published channel: wait for the confirmations, then *)
(*            announce the channel                                         *)
(*   readHandler, channelManager and the htlcManagers of every peer object *)
(* Connections are numbered.  Either daemon has a peer object for each; a  *)
(* Disconnect ends the object of the side that calls it and does not close *)
(* the connection (peer.connected is never set).                           *)
(***************************************************************************)
EXTENDS LightningWallet

CONSTANTS Nodes,     \* the two daemons
          Utxos,     \* Utxos[n]: outputs of the wallet of n, as listed
          AssetId,   \* globallyActiveAssetId, the same for both
          Plans,     \* what the two are asked to do: records of
                     \*   opens     channels asked of each node
                     \*   requests  <<local, remote>> amounts they may be of
                     \*   dials     connections made, in order, by who dials
          MaxFaults  \* bound on failing calls, broken connections and crashes

ASSUME FundingAssumption ==
  /\ Cardinality(Nodes) = 2 /\ MaxFaults \in Nat
  /\ \A p \in Plans :
       /\ p.opens \in [Nodes -> Nat] /\ p.dials \in Seq(Nodes)
       /\ p.requests \subseteq Nat \X Nat

VARIABLES
  wallets,      \* the LightningWallet of each node
  active,       \* activeReservations: records [conn, chan, id]
  fundingMsgs,  \* queue of the coordinator: records [conn, msg]
  todo,         \* the sends the coordinator still has to make
  routines,     \* goroutines that wait for a channel to open
  peers,        \* peers[n][k]: peer object of n for connection k
  net,          \* net[n][k]: messages on their way to n
  broken,       \* connections that fail
  disk,         \* channels stored in channeldb
  chain,        \* published funding transactions: records [op, by, conf]
  plan,         \* the plan followed
  opens,        \* channels asked for, by node
  faults,       \* faults so far
  lost,         \* channels published and, because of a fault, not stored
  dropped       \* nothing had failed, and an update arrived for a channel its
                \* receiver does not know

daemon == <<wallets, active, fundingMsgs, todo, routines>>
links == <<peers, net, broken>>
history == <<plan, opens, faults, lost, dropped>>
vars == <<daemon, links, disk, chain, history>>

Other(n) == CHOOSE m \in Nodes : m # n
Conns(n) == DOMAIN peers[n]
Nothing == <<>>

\* Pending channel IDs count from 0 at the side that dialled and from 2^63 at
\* the other.
inboundBase == 1000

\* Mutant: both ends count pending channels from 0.
newPeerFromZero(n, inbound) ==
  [state |-> "up", reading |-> TRUE, waiting |-> Nothing,
   nextPendingChannelID |-> 0, barriers |-> {}, newChannels |-> <<>>,
   htlcManagers |-> {c.chanID : c \in disk[n]},
   starting |-> {c.chanID : c \in disk[n]}]

(***************************************************************************)
(* newPeer: a peer object, with a link for every channel with that node in *)
(* the database.  Each link starts by sending its revocation window.       *)
(***************************************************************************)
newPeer(n, inbound) ==
  [state |-> "up", reading |-> TRUE, waiting |-> Nothing,
   nextPendingChannelID |-> IF inbound THEN inboundBase ELSE 0,
   barriers |-> {}, newChannels |-> <<>>,
   htlcManagers |-> {c.chanID : c \in disk[n]},
   starting |-> {c.chanID : c \in disk[n]}]

Init ==
  /\ wallets = [n \in Nodes |-> NewWallet(n, Utxos[n])]
  /\ active = [n \in Nodes |-> {}] /\ fundingMsgs = [n \in Nodes |-> <<>>]
  /\ todo = [n \in Nodes |-> <<>>] /\ routines = [n \in Nodes |-> {}]
  /\ peers = [n \in Nodes |-> <<>>] /\ net = [n \in Nodes |-> <<>>]
  /\ broken = {} /\ disk = [n \in Nodes |-> {}] /\ chain = {}
  /\ plan \in Plans
  /\ opens = [n \in Nodes |-> 0] /\ faults = 0 /\ lost = {} /\ dropped = FALSE

\* d dials the other node, whom it is not connected to.
Connect(d) ==
  /\ Len(peers[d]) < Len(plan.dials) /\ d = plan.dials[Len(peers[d]) + 1]
  /\ \A k \in Conns(d) : peers[d][k].state # "up"
  /\ peers' = [n \in Nodes |-> Append(peers[n], newPeer(n, n # d))]
  /\ net' = [n \in Nodes |-> Append(net[n], <<>>)]
  /\ UNCHANGED <<daemon, broken, disk, chain, history>>

(***************************************************************************)
(* Sends.  queueMsg reaches the other side while our peer object lives and *)
(* theirs reads;                                                           *)
(* barrierInits has no buffer and needs a live channelManager; newChannels *)
(* has room for one.                                                       *)
(***************************************************************************)
ToPeer(k, msg) == [kind |-> "msg", conn |-> k, val |-> msg]
Barrier(k, op) == [kind |-> "barrier", conn |-> k, val |-> op]
NewChan(k, op) == [kind |-> "chan", conn |-> k, val |-> op]

queueMsg(n, k, msg) ==
  net' = IF /\ peers[n][k].state = "up" /\ k \notin broken
            /\ peers[Other(n)][k].reading
         THEN [net EXCEPT ![Other(n)][k] = Append(@, msg)] ELSE net

HandOver(n, k, op) ==
  /\ peers[n][k].newChannels = <<>>
  /\ peers' = [peers EXCEPT ![n][k].newChannels = <<op>>]

Send(n, s) ==
  \/ /\ s.kind = "msg" /\ queueMsg(n, s.conn, s.val) /\ UNCHANGED peers
  \/ /\ s.kind = "barrier" /\ peers[n][s.conn].state = "up"
     /\ peers' = [peers EXCEPT ![n][s.conn].barriers = @ \cup {s.val}]
     /\ UNCHANGED net
  \/ s.kind = "chan" /\ HandOver(n, s.conn, s.val) /\ UNCHANGED net

CoordinatorSend(n) ==
  /\ todo[n] # <<>> /\ Send(n, Head(todo[n]))
  /\ todo' = [todo EXCEPT ![n] = Tail(@)]
  /\ UNCHANGED <<wallets, active, fundingMsgs, routines, broken, disk, chain,
                 history>>

(***************************************************************************)
(* Failing: a call fails at a place named f, a connection breaks, a daemon *)
(* ends.  An ended daemon starts again with what is on disk.               *)
(***************************************************************************)
Fault(f) ==
  /\ f = "none" \/ faults < MaxFaults
  /\ faults' = IF f = "none" THEN faults ELSE faults + 1

Disconnected(n, k) ==
  peers' = [peers EXCEPT ![n][k].state = IF @ = "up" THEN "quit" ELSE @,
                         ![n][k].starting = {}]

\* The other side of a connection sees it fail when it has read what was sent,
\* and what is on its way to a readHandler that has ended is gone.
Ended(n, w) ==
  /\ wallets' = [wallets EXCEPT ![n] = Reopened(w)]
  /\ active' = [active EXCEPT ![n] = {}]
  /\ fundingMsgs' = [fundingMsgs EXCEPT ![n] = <<>>]
  /\ todo' = [todo EXCEPT ![n] = <<>>]
  /\ routines' = [routines EXCEPT ![n] = {}]
  /\ peers' = [peers EXCEPT ![n] = [k \in Conns(n) |->
                 [newPeer(n, FALSE) EXCEPT !.state = "gone", !.reading = FALSE,
                    !.htlcManagers = {}, !.starting = {}]]]
  /\ broken' = broken \cup Conns(n)
  /\ net' = [net EXCEPT ![n] = [k \in Conns(n) |-> <<>>]]

Crash(n) ==
  /\ Fault("crash") /\ Ended(n, wallets[n])
  /\ UNCHANGED <<disk, chain, plan, opens, lost, dropped>>

\* Some of what was on its way is lost with the connection.
BreakConn(k) ==
  /\ k \notin broken /\ Fault("break") /\ broken' = broken \cup {k}
  /\ \E keep \in [Nodes -> {"all", "none"}] :
       net' = [n \in Nodes |-> [net[n] EXCEPT ![k] =
                 IF keep[n] = "all" THEN @ ELSE <<>>]]
  /\ UNCHANGED <<daemon, peers, disk, chain, plan, opens, lost, dropped>>

(***************************************************************************)
(* The readHandler.  A funding message goes to the coordinator.  An update *)
(* for a channel with a barrier waits for the barrier; without one it goes *)
(* to the htlcManager, and is dropped when there is none.  The loop ends   *)
(* after the message that finds the peer disconnected.                     *)
(***************************************************************************)
StopsReading(p) == [p EXCEPT !.reading = p.state = "up"]

Read(n, k) ==
  /\ peers[n][k].reading /\ peers[n][k].waiting = Nothing
  /\ net[n][k] # <<>>
  /\ net' = [net EXCEPT ![n][k] = IF peers[n][k].state = "up" THEN Tail(@)
                                  ELSE <<>>]
  /\ UNCHANGED broken

ReadFunding(n, k) ==
  /\ Read(n, k) /\ Head(net[n][k]).type # "update"
  /\ fundingMsgs' = [fundingMsgs EXCEPT ![n] =
       Append(@, [conn |-> k, msg |-> Head(net[n][k])])]
  /\ peers' = [peers EXCEPT ![n][k] = StopsReading(@)]
  /\ UNCHANGED <<wallets, active, todo, routines, disk, chain, history>>

\* Nothing has failed and nobody has disconnected.
AllWell ==
  faults = 0 /\ \A n \in Nodes : \A k \in Conns(n) : peers[n][k].state = "up"

Deliver(n, k, op) ==
  /\ dropped' = (dropped \/ (AllWell /\ op \notin peers[n][k].htlcManagers))
  /\ peers' = [peers EXCEPT ![n][k] = StopsReading([@ EXCEPT !.waiting = Nothing])]

ReadUpdate(n, k) ==
  /\ Read(n, k) /\ Head(net[n][k]).type = "update"
  /\ IF Head(net[n][k]).op \in peers[n][k].barriers
     THEN /\ peers' = [peers EXCEPT ![n][k].waiting = Head(net[n][k]).op]
          /\ UNCHANGED dropped
     ELSE Deliver(n, k, Head(net[n][k]).op)
  /\ UNCHANGED <<daemon, disk, chain, plan, opens, faults, lost>>

\* The barrier is closed, or the peer is disconnected and the update ignored.
PassBarrier(n, k) ==
  /\ peers[n][k].waiting # Nothing
  /\ \/ /\ peers[n][k].waiting \notin peers[n][k].barriers
        /\ Deliver(n, k, peers[n][k].waiting)
     \/ /\ peers[n][k].state # "up"
        /\ peers' = [peers EXCEPT ![n][k].waiting = Nothing,
                                  ![n][k].reading = FALSE]
        /\ UNCHANGED dropped
  /\ net' = [net EXCEPT ![n][k] = IF peers[n][k].state = "up" THEN @ ELSE <<>>]
  /\ UNCHANGED <<daemon, broken, disk, chain, plan, opens, faults, lost>>

ReadError(n, k) ==
  /\ k \in broken /\ peers[n][k].reading /\ peers[n][k].waiting = Nothing
  /\ net[n][k] = <<>>
  /\ peers' = [peers EXCEPT ![n][k].reading = FALSE,
                 ![n][k].state = IF @ = "up" THEN "quit" ELSE @]
  /\ UNCHANGED <<daemon, net, broken, disk, chain, history>>

(***************************************************************************)
(* The channelManager takes a new channel: it starts its link and closes   *)
(* its barrier.  The link sends its revocation window.                     *)
(***************************************************************************)
ManageNewChannel(n, k) ==
  /\ peers[n][k].state = "up" /\ peers[n][k].newChannels # <<>>
  /\ LET op == Head(peers[n][k].newChannels)
     IN  peers' = [peers EXCEPT ![n][k].newChannels = <<>>,
                     ![n][k].htlcManagers = @ \cup {op},
                     ![n][k].starting = @ \cup {op},
                     ![n][k].barriers = @ \ {op}]
  /\ UNCHANGED <<daemon, net, broken, disk, chain, history>>

StartLink(n, k) ==
  \E op \in peers[n][k].starting :
    /\ queueMsg(n, k, [type |-> "update", op |-> op])
    /\ peers' = [peers EXCEPT ![n][k].starting = @ \ {op}]
    /\ UNCHANGED <<daemon, broken, disk, chain, history>>

(***************************************************************************)
(* The messages of the workflow.                                           *)
(***************************************************************************)
FundingRequest(chan, amt, ours) ==
  [type |-> "request", chan |-> chan, amt |-> amt, csvDelay |-> ours.csvDelay,
   commitKey |-> ours.commitKey, multiSigKey |-> ours.multiSigKey]
FundingResponse(chan, ours) ==
  [type |-> "response", chan |-> chan, csvDelay |-> ours.csvDelay,
   commitKey |-> ours.commitKey, multiSigKey |-> ours.multiSigKey,
   revocationKey |-> ours.revocationKey]
FundingComplete(chan, r) ==
  [type |-> "complete", chan |-> chan, op |-> r.outpoint, sig |-> r.ourSig,
   revocationKey |-> r.ours.revocationKey]
FundingSignComplete(chan, r) ==
  [type |-> "signComplete", chan |-> chan, sig |-> r.ourSig]
FundingOpenProof(chan) == [type |-> "open", chan |-> chan]

Entries(n, k, chan) == {e \in active[n] : e.conn = k /\ e.chan = chan}
ResID(n, k, chan) == (CHOOSE e \in Entries(n, k, chan) : TRUE).id
Forgotten(n, k, chan) == active[n] \ Entries(n, k, chan)
Tracked(n, k, chan, id) ==
  Forgotten(n, k, chan) \cup {[conn |-> k, chan |-> chan, id |-> id]}

\* A handler leaves wallet w and the sends it still has to make.
Leaves(n, w, sends) ==
  /\ wallets' = [wallets EXCEPT ![n] = w]
  /\ todo' = [todo EXCEPT ![n] = sends]

(***************************************************************************)
(* handleInitFundingMsg: a local request.  The peer was found by the       *)
(* server, and may be disconnected by now.                                 *)
(***************************************************************************)
Initiated(n, k, capacity, a) ==
  /\ Leaves(n, a.w, <<>>)
  /\ IF a.ok
     THEN LET chan == peers[n][k].nextPendingChannelID
              id == Len(a.w.res)
          IN  /\ active' = [active EXCEPT ![n] = Tracked(n, k, chan, id)]
              /\ peers' = [peers EXCEPT ![n][k].nextPendingChannelID = @ + 1]
              /\ queueMsg(n, k, FundingRequest(chan, capacity,
                                               a.w.res[id].ours))
     ELSE UNCHANGED <<active, peers, net>>

handleInitFundingMsg(n, k) ==
  /\ todo[n] = <<>> /\ opens[n] < plan.opens[n] /\ peers[n][k].state # "gone"
  /\ opens' = [opens EXCEPT ![n] = @ + 1]
  /\ \E r \in plan.requests, f \in {"none", "list", "keys"} :
       /\ Fault(f)
       /\ Initiated(n, k, r[1] + r[2],
            handleFundingReserveRequest(wallets[n], r[1] + r[2], r[1], 4,
                                        AssetId, f))
  /\ UNCHANGED <<fundingMsgs, routines, broken, disk, chain, plan, lost, dropped>>

(***************************************************************************)
(* A message at the head of the queue, and its handler.                    *)
(***************************************************************************)
Takes(n, type) ==
  /\ todo[n] = <<>> /\ fundingMsgs[n] # <<>>
  /\ Head(fundingMsgs[n]).msg.type = type
  /\ fundingMsgs' = [fundingMsgs EXCEPT ![n] = Tail(@)]

Known(n, k, chan) == Entries(n, k, chan) # {}

\* The responder reserves, commits no funds of its own, and answers.
Responded(n, k, msg, id, b) ==
  /\ Leaves(n, b.w, <<>>)
  /\ IF b.ok
     THEN queueMsg(n, k, FundingResponse(msg.chan, b.w.res[id].ours))
          /\ UNCHANGED peers
     ELSE Disconnected(n, k) /\ UNCHANGED net

ReservedFor(n, k, msg, a, f) ==
  IF a.ok
  THEN /\ active' = [active EXCEPT ![n] = Tracked(n, k, msg.chan, Len(a.w.res))]
       /\ Responded(n, k, msg, Len(a.w.res),
            handleSingleContribution(a.w, Len(a.w.res),
              Contribution(msg.amt, <<>>, <<>>, msg.multiSigKey, msg.commitKey,
                           <<>>, msg.csvDelay), f = "contribution"))
  ELSE /\ Leaves(n, a.w, <<>>) /\ Disconnected(n, k)
       /\ UNCHANGED <<active, net>>

HandleRequest(n, k, msg, f) ==
  ReservedFor(n, k, msg,
    handleFundingReserveRequest(wallets[n], msg.amt, 0, msg.csvDelay, AssetId,
                                f), f)

handleFundingRequest(n) ==
  /\ Takes(n, "request")
  /\ \E f \in {"none", "keys", "contribution"} :
       /\ Fault(f)
       /\ HandleRequest(n, Head(fundingMsgs[n]).conn, Head(fundingMsgs[n]).msg,
                        f)
  /\ UNCHANGED <<routines, broken, disk, chain, plan, opens, lost, dropped>>

\* The initiator completes its side of the reservation and sends its signature.
Completed(n, k, msg, id, a) ==
  IF a.ok
  THEN Leaves(n, a.w, <<Barrier(k, a.w.res[id].outpoint),
                        ToPeer(k, FundingComplete(msg.chan, a.w.res[id]))>>)
       /\ UNCHANGED peers
  ELSE Leaves(n, a.w, <<>>) /\ Disconnected(n, k)

HandleResponse(n, k, msg, id, f) ==
  Completed(n, k, msg, id,
    handleContributionMsg(wallets[n], id,
      Contribution(0, <<>>, <<>>, msg.multiSigKey, msg.commitKey,
                   msg.revocationKey, msg.csvDelay), f # "none"))

handleFundingResponse(n) ==
  /\ Takes(n, "response")
  /\ LET k == Head(fundingMsgs[n]).conn msg == Head(fundingMsgs[n]).msg IN
       /\ Known(n, k, msg.chan)
       /\ \E f \in {"none", "contribution"} :
            Fault(f) /\ HandleResponse(n, k, msg, ResID(n, k, msg.chan), f)
  /\ UNCHANGED <<active, routines, net, broken, disk, chain, plan, opens,
                 lost, dropped>>

\* Mutant: the responder sets no barrier.
SignedNoBarrier(n, k, msg, id, a) ==
  IF a.ok
  THEN Leaves(n, a.w, <<ToPeer(k, FundingSignComplete(msg.chan, a.w.res[id]))>>)
       /\ UNCHANGED peers
  ELSE Leaves(n, a.w, <<>>) /\ Disconnected(n, k)

\* The responder checks the initiator's signature and sends its own.
Signed(n, k, msg, id, a) ==
  IF a.ok
  THEN Leaves(n, a.w, <<Barrier(k, msg.op),
                        ToPeer(k, FundingSignComplete(msg.chan, a.w.res[id]))>>)
       /\ UNCHANGED peers
  ELSE Leaves(n, a.w, <<>>) /\ Disconnected(n, k)

handleFundingComplete(n) ==
  /\ Takes(n, "complete")
  /\ LET k == Head(fundingMsgs[n]).conn msg == Head(fundingMsgs[n]).msg IN
       /\ Known(n, k, msg.chan)
       /\ \E f \in {"none", "sigs"} :
            /\ Fault(f)
            /\ Signed(n, k, msg, ResID(n, k, msg.chan),
                 handleSingleFunderSigs(wallets[n], ResID(n, k, msg.chan),
                   msg.op, msg.revocationKey, msg.sig, f # "none"))
  /\ UNCHANGED <<active, routines, net, broken, disk, chain, plan, opens,
                 lost, dropped>>

(***************************************************************************)
(* The initiator publishes the funding transaction, then stores the        *)
(* channel, then starts a routine that waits for the confirmations.  The   *)
(* daemon may end between the two ("crash").                               *)
(***************************************************************************)
Opening(k, chan, id) ==
  [conn |-> k, chan |-> chan, id |-> id, stage |-> "confirm"]
OnChain(n, r) == [op |-> r.outpoint, by |-> n, conf |-> FALSE]

Stored(n, k, chan, id, w) ==
  /\ disk' = [disk EXCEPT ![n] = @ \cup {PartialState(w.res[id])}]
  /\ chain' = chain \cup {OnChain(n, w.res[id])}
  /\ routines' = [routines EXCEPT ![n] = @ \cup {Opening(k, chan, id)}]
  /\ Leaves(n, w, <<>>) /\ UNCHANGED <<active, links, lost>>

NotStored(n, k, id, w, published) ==
  /\ chain' = chain \cup IF published THEN {OnChain(n, w.res[id])} ELSE {}
  /\ lost' = lost \cup IF published THEN {w.res[id].outpoint} ELSE {}
  /\ Leaves(n, w, <<>>) /\ Disconnected(n, k)
  /\ UNCHANGED <<active, routines, net, broken, disk>>

CountersignedBy(n, k, msg, id, a, f) ==
  IF a.ok THEN Stored(n, k, msg.chan, id, a.w)
  ELSE NotStored(n, k, id, a.w, f = "sync" /\ a.w # wallets[n])

handleFundingSignComplete(n) ==
  /\ Takes(n, "signComplete")
  /\ LET k == Head(fundingMsgs[n]).conn msg == Head(fundingMsgs[n]).msg IN
       /\ Known(n, k, msg.chan)
       /\ \E f \in {"none", "publish", "sync"} :
            /\ Fault(f)
            /\ CountersignedBy(n, k, msg, ResID(n, k, msg.chan),
                 handleFundingCounterPartySigs(wallets[n],
                   ResID(n, k, msg.chan), msg.sig, f), f)
  /\ UNCHANGED <<plan, opens, dropped>>

PublishedThenEnded(n, id, a) ==
  /\ a.w # wallets[n]
  /\ chain' = chain \cup {OnChain(n, a.w.res[id])}
  /\ lost' = lost \cup {a.w.res[id].outpoint}
  /\ Ended(n, a.w)

CrashBeforeSync(n) ==
  /\ todo[n] = <<>> /\ fundingMsgs[n] # <<>>
  /\ LET k == Head(fundingMsgs[n]).conn msg == Head(fundingMsgs[n]).msg IN
       /\ msg.type = "signComplete" /\ Known(n, k, msg.chan)
       /\ PublishedThenEnded(n, ResID(n, k, msg.chan),
            handleFundingCounterPartySigs(wallets[n], ResID(n, k, msg.chan),
                                          msg.sig, "sync"))
  /\ Fault("crash") /\ UNCHANGED <<disk, plan, opens, dropped>>

Confirm(t) ==
  /\ ~t.conf /\ chain' = (chain \ {t}) \cup {[t EXCEPT !.conf = TRUE]}
  /\ UNCHANGED <<daemon, links, disk, history>>

\* The routine: the reservation is forgotten, the channel handed to the peer,
\* then the responder told.
Waiting(n, stage) == {r \in routines[n] : r.stage = stage}
GoesTo(n, r, stage) ==
  routines' = [routines EXCEPT ![n] =
                 (@ \ {r}) \cup {[r EXCEPT !.stage = stage]}]

ChannelConfirmed(n) ==
  \E r \in Waiting(n, "confirm") :
    /\ \E t \in chain : t.op = wallets[n].res[r.id].outpoint /\ t.conf
    /\ active' = [active EXCEPT ![n] = Forgotten(n, r.conn, r.chan)]
    /\ GoesTo(n, r, "open")
    /\ UNCHANGED <<wallets, fundingMsgs, todo, links, disk, chain, history>>

HandOverOpen(n) ==
  \E r \in Waiting(n, "open") :
    /\ HandOver(n, r.conn, wallets[n].res[r.id].outpoint)
    /\ GoesTo(n, r, "announce")
    /\ UNCHANGED <<wallets, active, fundingMsgs, todo, net, broken, disk, chain,
                   history>>

AnnounceOpen(n) ==
  \E r \in Waiting(n, "announce") :
    /\ queueMsg(n, r.conn, FundingOpenProof(r.chan))
    /\ routines' = [routines EXCEPT ![n] = @ \ {r}]
    /\ UNCHANGED <<wallets, active, fundingMsgs, todo, peers, broken, disk,
                   chain, history>>

\* The responder stores the channel and hands it to the peer.  A reservation
\* that has left limbo is a nil dereference in the wallet.
Finalized(n, k, chan, id, a) ==
  IF a.ok
  THEN /\ disk' = [disk EXCEPT ![n] = @ \cup {PartialState(a.w.res[id])}]
       /\ active' = [active EXCEPT ![n] = Forgotten(n, k, chan)]
       /\ Leaves(n, a.w, <<NewChan(k, a.w.res[id].outpoint)>>)
       /\ UNCHANGED peers
  ELSE Leaves(n, a.w, <<>>) /\ Disconnected(n, k) /\ UNCHANGED <<active, disk>>

handleFundingOpen(n) ==
  /\ Takes(n, "open")
  /\ LET k == Head(fundingMsgs[n]).conn chan == Head(fundingMsgs[n]).msg.chan IN
       /\ Known(n, k, chan) /\ ResID(n, k, chan) \in wallets[n].limbo
       /\ \E f \in {"none", "sync"} :
            /\ Fault(f)
            /\ Finalized(n, k, chan, ResID(n, k, chan),
                 handleChannelOpen(wallets[n], ResID(n, k, chan), f # "none"))
  /\ UNCHANGED <<routines, net, broken, chain, plan, opens, lost, dropped>>

\* A message for which there is no reservation to be found.
Unknown(n) ==
  /\ fundingMsgs[n] # <<>>
  /\ LET k == Head(fundingMsgs[n]).conn msg == Head(fundingMsgs[n]).msg IN
       /\ msg.type # "request"
       /\ \/ ~Known(n, k, msg.chan)
          \/ msg.type = "open" /\ ResID(n, k, msg.chan) \notin wallets[n].limbo

\* ChannelReservation.Cancel, an operation of the wallet that the daemon does
\* not use.
Cancel(n) ==
  \E id \in wallets[n].limbo :
    /\ Fault("cancel")
    /\ wallets' = [wallets EXCEPT ![n] = handleFundingCancelRequest(@, id).w]
    /\ UNCHANGED <<active, fundingMsgs, todo, routines, links, disk, chain,
                   plan, opens, lost, dropped>>

Panic(n) ==
  /\ todo[n] = <<>> /\ Unknown(n) /\ Ended(n, wallets[n])
  /\ UNCHANGED <<disk, chain, history>>

(***************************************************************************)
(* One goroutine each.                                                     *)
(***************************************************************************)
Coordinator(n) ==
  \/ CoordinatorSend(n) \/ handleFundingRequest(n)
  \/ handleFundingResponse(n) \/ handleFundingComplete(n)
  \/ handleFundingSignComplete(n) \/ handleFundingOpen(n) \/ Panic(n)
Routine(n) == ChannelConfirmed(n) \/ HandOverOpen(n) \/ AnnounceOpen(n)
ReadHandler(n, k) ==
  ReadFunding(n, k) \/ ReadUpdate(n, k) \/ PassBarrier(n, k) \/ ReadError(n, k)

Next ==
  \/ \E n \in Nodes :
       \/ Coordinator(n) \/ Routine(n)
       \/ Connect(n) \/ Crash(n) \/ CrashBeforeSync(n) \/ Cancel(n)
       \/ \E k \in Conns(n) :
            \/ handleInitFundingMsg(n, k) \/ ReadHandler(n, k)
            \/ ManageNewChannel(n, k) \/ StartLink(n, k)
  \/ \E t \in chain : Confirm(t)
  \/ \E n \in Nodes : \E k \in Conns(n) : BreakConn(k)

Spec == Init /\ [][Next]_vars

MaxConns == CHOOSE m \in {Len(p.dials) : p \in Plans} :
              \A p \in Plans : Len(p.dials) <= m

\* Goroutines that can go on do, and published transactions are mined.
Fairness ==
  /\ WF_vars(\E t \in chain : Confirm(t))
  /\ \A n \in Nodes :
       /\ WF_vars(Coordinator(n)) /\ WF_vars(Routine(n))
       /\ \A k \in 1..MaxConns :
            /\ WF_vars(k \in Conns(n) /\ ReadHandler(n, k))
            /\ WF_vars(k \in Conns(n) /\ ManageNewChannel(n, k))
            /\ WF_vars(k \in Conns(n) /\ StartLink(n, k))

FairSpec == Spec /\ Fairness

-------------------------------------------------------------------------------
(***************************************************************************)
(* Properties.                                                             *)
(***************************************************************************)
SetOf(seq) == {seq[i] : i \in DOMAIN seq}

\* Coin selection under coinSelectMtx with locked outpoints: a coin backs at
\* most one reservation in limbo, which no published transaction spends, and
\* no two published funding transactions spend the same coin, whatever was
\* cancelled, failed or forgotten in a crash in between.
CoinsBackOneChannel ==
  /\ \A n \in Nodes : \A i, j \in wallets[n].limbo :
       /\ SetOf(wallets[n].res[i].ours.inputs) \subseteq
            wallets[n].locked \ wallets[n].spent
       /\ i # j => SetOf(wallets[n].res[i].ours.inputs) \cap
                     SetOf(wallets[n].res[j].ours.inputs) = {}
  /\ \A s, t \in chain :
       s # t => SetOf(s.op[1].ins) \cap SetOf(t.op[1].ins) = {}

\* What the outputs of a colored transaction are worth in tokens: the values
\* of its transfer instructions.
Tokens(tx) == tx.outs[Len(tx.outs)].script[2]

\* The output that a channel point, a transaction and an index, names.
FundingScript(op) == op[1].outs[op[2] + 1].script
FundingTokens(op) == Tokens(op[1])[op[2] + 1]

\* The commitment of every channel on disk is countersigned for the funding
\* output that was published: it spends the output its channel point names,
\* the other side's key has signed exactly this transaction for that output's
\* script and for its worth in tokens, and it pays that worth out, to each
\* side its balance.  A funding transaction is published only when the
\* initiator holds such a commitment, and then the channel is on its disk,
\* except when FullSync failed or the daemon ended before it.  This does not
\* say that the chain accepts the commitment: the value signed is the capacity
\* in tokens, and the output holds 15 * dustAmount satoshis (ColorifyTx).
CommitmentsCountersigned ==
  /\ \A n \in Nodes : \A c \in disk[n] :
       /\ c.ourCommitTx.ins = <<c.chanID>>
       /\ c.ourCommitSig = Sign(c.theirs.multiSigKey, c.ourCommitTx,
                                FundingScript(c.chanID),
                                FundingTokens(c.chanID)[2])
       /\ FundingTokens(c.chanID) = <<c.chanID[2], c.capacity>>
       /\ c.ourBalance + c.theirBalance = c.capacity
       /\ {Tokens(c.ourCommitTx)[i][2] : i \in DOMAIN Tokens(c.ourCommitTx)} =
            {c.ourBalance, c.theirBalance} \ {0}
  /\ \A t \in chain : t.op \in lost
                       \/ \E c \in disk[t.by] : c.chanID = t.op

\* Both ends of a channel that is stored on both disks hold mirror images:
\* balances, contributions, and each the other's revocation key, although each
\* built its own commitment from what the five messages told it.
EndsAgree ==
  \A n \in Nodes : \A c \in disk[n], d \in disk[Other(n)] :
    c.chanID = d.chanID =>
      /\ c.capacity = d.capacity
      /\ c.ourBalance = d.theirBalance /\ c.theirBalance = d.ourBalance
      /\ c.theirs.commitKey = d.ours.commitKey
      /\ c.theirs.multiSigKey = d.ours.multiSigKey
      /\ c.theirs.csvDelay = d.ours.csvDelay
      /\ c.theirRevocation = d.ours.revocationKey

\* Every message of the workflow finds the reservation it is about, in the
\* table and once: the handlers use the entry without a check, and a request
\* from the other side never takes the place of a reservation of ours.
ReservationsFound ==
  \A n \in Nodes :
    /\ \A i \in DOMAIN fundingMsgs[n] :
         fundingMsgs[n][i].msg.type # "request" =>
           Known(n, fundingMsgs[n][i].conn, fundingMsgs[n][i].msg.chan)
    /\ \A id \in wallets[n].limbo :
         Cardinality({e \in active[n] : e.id = id}) = 1

\* The barriers do what they are for: as long as nothing has failed and nobody
\* has disconnected, no update is dropped for want of an htlcManager.
UpdatesDelivered == ~dropped

\* "Register a new barrier for this channel to properly synchronize with the
\* peer's readHandler once the channel is open" (fundingmanager.go:429): over a
\* connection that lives on, a channel whose funding transaction is confirmed
\* gets a link at both ends.
BothEndsOpen ==
  \A n \in Nodes :
    (\E t \in chain : t.by = n /\ t.conf) ~>
      (~AllWell \/ \A t \in chain : t.conf =>
         \A m \in Nodes : \E k \in Conns(m) : t.op \in peers[m][k].htlcManagers)
===============================================================================
