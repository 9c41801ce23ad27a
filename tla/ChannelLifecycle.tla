---------------------------- MODULE ChannelLifecycle ----------------------------
(***************************************************************************)
(* A channel from FullSync to CloseChannel: the database of ChannelDB, the *)
(* peers that load channels from it (newPeer), the htlcManager goroutines  *)
(* that update them, the readHandler that feeds the htlcManagers, and the  *)
(* goroutines that wipe a channel once it is closed (wipeChannel), which   *)
(* share the maps of the peer without a lock.                              *)
(*                                                                         *)
(* Bounds: a peer connects again only when no wipeChannel of its last      *)
(* connection still uses the maps, and an htlcManager stops with its       *)
(* connection.                                                             *)
(***************************************************************************)
EXTENDS ChannelDB, FiniteSets

CONSTANTS Chans,        \* channel points, records [Hash, Index]
          NodeOf,       \* the remote node of each channel
          HtlcLists,    \* HTLC lists a commitment may carry
          Invoices,     \* invoices a payee may add
          Plans         \* workloads, see below

Nodes == {NodeOf[o] : o \in Chans}

(***************************************************************************)
(* A plan bounds a behaviour: the channels that are opened (only their     *)
(* nodes connect), those of them that are closed, the number of updates    *)
(* received, and the number of failed transactions, lost connections and   *)
(* crashes.                                                                *)
(***************************************************************************)
ASSUME LifecycleAssumption ==
  \A p \in Plans : /\ p.close \subseteq p.open /\ p.open \subseteq Chans
                   /\ p.updates \in Nat /\ p.faults \in Nat

VARIABLES db,        \* what the bolt file holds
          conns,     \* nodes a peer is connected for
          active,    \* p.activeChannels, over all peers
          links,     \* p.htlcManagers, over all peers
          shut,      \* channels whose upstream link is closed
          obj,       \* the OpenChannel of every running htlcManager
          inbox,     \* messages buffered on the upstream link of each channel
          reading,   \* per node, the update its readHandler has found the link for
          wiping,    \* goroutines inside wipeChannel
          closer,    \* <<channel, transaction>> goroutines of handleLocalClose await
          chain,     \* what spends each funding output: "none", or a "force",
                     \* "coop" or "theirs" close transaction
          confirmed, \* channels whose close transaction is confirmed
          status,    \* lc.status of each channel in memory
          signal,    \* per channel, which of ForceCloseSignal and
                     \* UnilateralCloseSignal are closed
          told,      \* channels whose closing the requester was told of
          saved,     \* per channel, what the last committed transaction wrote
          tail,      \* lc.remoteCommitChain.tail().height of each channel, 0
                     \* in a new one
          logged,    \* per channel, the deltas logged, one for every secret
          astray,    \* channels loaded, at least once, when our commitment had
                     \* another height than theirs
          plan, received, faults

vars == <<db, conns, active, links, shut, obj, inbox, reading, wiping, closer,
          chain, confirmed, status, signal, told, saved, tail, logged, astray, plan,
          received, faults>>

logs == <<tail, logged, astray>>
closing == <<wiping, closer, chain, confirmed, status, signal, told>>

ChansOf(n) == {o \in Chans : NodeOf[o] = n}
Opened == DOMAIN saved
NoRead == <<>>

\* The channel a reservation hands to FullSync.
NewChannel(o) ==
  [TheirLNID |-> NodeOf[o], ChanID |-> o, MinFeePerKb |-> <<"fee", o>>,
   OurCommitKey |-> <<"ourCommit", o>>, TheirCommitKey |-> <<"theirCommit", o>>,
   Capacity |-> 10, OurBalance |-> 6, TheirBalance |-> 4,
   OurCommitTx |-> <<"tx", o, 0>>, OurCommitSig |-> <<"sig", o, 0>>, FundingOutpoint |-> o,
   OurMultiSigKey |-> <<"ourMulti", o>>, TheirMultiSigKey |-> <<"theirMulti", o>>,
   FundingRedeemScript |-> <<"redeem", o>>, LocalCsvDelay |-> 4, RemoteCsvDelay |-> 5,
   TheirCurrentRevocation |-> <<"key", o, 0>>, TheirCurrentRevocationHash |-> <<"hash", o, 0>>,
   LocalElkrem |-> <<"root", o>>, RemoteElkrem |-> 0,
   OurDeliveryScript |-> <<"ours", o>>, TheirDeliveryScript |-> <<"theirs", o>>,
   NumUpdates |-> 0, TotalSatoshisSent |-> 0, TotalSatoshisReceived |-> 0, TotalNetFees |-> 0,
   CreationTime |-> [sec |-> 7, nsec |-> 3], Htlcs |-> <<>>]

Init ==
  /\ db = EmptyDB /\ conns = {} /\ active = {} /\ links = {} /\ shut = {}
  /\ obj = EmptyBucket /\ inbox = [o \in Chans |-> <<>>]
  /\ reading = [n \in Nodes |-> NoRead]
  /\ wiping = {} /\ closer = {} /\ told = {}
  /\ chain = [o \in Chans |-> "none"] /\ confirmed = {}
  /\ status = [o \in Chans |-> "open"] /\ signal = [o \in Chans |-> {}]
  /\ saved = EmptyBucket /\ logged = [o \in Chans |-> <<>>]
  /\ tail = [o \in Chans |-> 0] /\ astray = {}
  /\ plan \in Plans /\ received = 0 /\ faults = 0

Fault == faults < plan.faults /\ faults' = faults + 1

-----------------------------------------------------------------------------
(* Connections. *)

\* NewLightningChannel starts both commitment chains at the height of our own
\* commitment.
StartingHeight(state) == state.NumUpdates

\* newPeer, loadActiveChannels.  A failed fetch refuses the connection.
NewPeer(n) ==
  LET fetched == FetchOpenChannels(db, n)
      chans == fetched.channels
  IN
  /\ n \in {NodeOf[o] : o \in plan.open} \ conns /\ ~Failed(fetched)
  /\ \A w \in wiping : NodeOf[w.chan] = n => w.at = "delete"
  /\ conns' = conns \cup {n}
  /\ active' = (active \ ChansOf(n)) \cup DOMAIN chans
  /\ links' = (links \ ChansOf(n)) \cup DOMAIN chans
  /\ shut' = shut \ ChansOf(n)
  /\ obj' = chans @@ obj
  /\ tail' = [o \in Chans |-> IF o \in DOMAIN chans THEN StartingHeight(chans[o]) ELSE tail[o]]
  /\ astray' = astray \cup
       {o \in DOMAIN chans : StartingHeight(chans[o]) # chans[o].RemoteElkrem}
  /\ status' = [o \in Chans |-> IF NodeOf[o] = n THEN "open" ELSE status[o]]
  /\ signal' = [o \in Chans |-> IF NodeOf[o] = n THEN {} ELSE signal[o]]
  /\ UNCHANGED <<db, inbox, reading, wiping, closer, chain, confirmed, told, saved,
                 logged, plan, received, faults>>

Stop(n) ==
  /\ conns' = conns \ {n}
  /\ obj' = Restrict(obj, DOMAIN obj \ ChansOf(n))
  /\ inbox' = [o \in Chans |-> IF NodeOf[o] = n THEN <<>> ELSE inbox[o]]
  /\ reading' = [reading EXCEPT ![n] = NoRead]
  /\ closer' = {w \in closer : NodeOf[w[1]] # n}

\* The maps of the peer live on for a wipeChannel that is under way.
Disconnect(n) ==
  /\ n \in conns
  /\ Fault /\ Stop(n)
  /\ UNCHANGED <<db, active, links, shut, wiping, chain, confirmed, status, signal, told, saved,
                 logs, plan, received>>

\* A panic of any goroutine, or a crash, ends the daemon.
Down ==
  /\ conns' = {} /\ active' = {} /\ links' = {} /\ shut' = {} /\ obj' = EmptyBucket
  /\ inbox' = [o \in Chans |-> <<>>] /\ reading' = [n \in Nodes |-> NoRead]
  /\ wiping' = {} /\ closer' = {}
  /\ status' = [o \in Chans |-> "open"] /\ signal' = [o \in Chans |-> {}]
  /\ UNCHANGED <<db, chain, confirmed, told, saved, logs, plan, received>>

Crash == conns # {} /\ Fault /\ Down

-----------------------------------------------------------------------------
(* Channels and their updates. *)

\* handleChannelOpen or handleFundingCounterPartySigs store the channel, the
\* channelManager starts its htlcManager.
Open(o) ==
  /\ o \in plan.open \ Opened /\ NodeOf[o] \in conns /\ db.hashes = EmptyBucket
  /\ db' = FullSync(db, NewChannel(o))
  /\ saved' = (o :> [NewChannel(o) EXCEPT !.CreationTime.nsec = 0]) @@ saved
  /\ obj' = (o :> NewChannel(o)) @@ obj
  /\ active' = active \cup {o} /\ links' = links \cup {o}
  /\ UNCHANGED <<conns, shut, inbox, reading, closing, logs, plan, received, faults>>

\* The readHandler reads an update and looks its link up.
ReadUpdate(n, o, kind) ==
  /\ n \in conns /\ reading[n] = NoRead /\ o \in ChansOf(n) \cap links
  /\ received < plan.updates /\ received' = received + 1
  /\ reading' = [reading EXCEPT ![n] = <<o, kind>>]
  /\ UNCHANGED <<db, conns, active, links, shut, obj, inbox, closing, saved, logs,
                 plan, faults>>

\* It sends the update on the link; on a closed link that panics.
Dispatch(n) ==
  /\ reading[n] # NoRead
  /\ IF reading[n][1] \in shut
     THEN Down /\ UNCHANGED faults
     ELSE /\ inbox' = [inbox EXCEPT ![reading[n][1]] = Append(@, reading[n][2])]
          /\ reading' = [reading EXCEPT ![n] = NoRead]
          /\ UNCHANGED <<db, conns, active, links, shut, obj, closing, saved, logs,
                         plan, received, faults>>

Delta(c, num, htlcs) ==
  [LocalBalance |-> (c.OurBalance + 3) % 7, RemoteBalance |-> (c.TheirBalance + 2) % 7,
   UpdateNum |-> num, Htlcs |-> htlcs]

\* The htlcManager takes a signature: RevokeCurrentCommitment assigns the new
\* commitment and writes it.  When the write fails the memory keeps it.
NewCommitment(o, htlcs) ==
  LET c == obj[o]
      k == c.NumUpdates + 1
      new == Assigned(c, <<"tx", o, k>>, <<"sig", o, k>>, Delta(c, k, htlcs))
  IN /\ o \in DOMAIN obj /\ inbox[o] # <<>> /\ Head(inbox[o]) = "signature"
     /\ inbox' = [inbox EXCEPT ![o] = Tail(@)]
     /\ obj' = [obj EXCEPT ![o] = new]
     /\ \/ db' = UpdateCommitment(db, new)
           /\ saved' = [saved EXCEPT ![o] = Assigned(@, new.OurCommitTx, new.OurCommitSig,
                                                     Delta(c, k, htlcs))]
           /\ UNCHANGED faults
        \/ Fault /\ UNCHANGED <<db, saved>>
     /\ UNCHANGED <<conns, active, links, shut, reading, closing, logs, plan, received>>

\* The htlcManager takes a revocation: the secret goes into the elkrem
\* receiver and the next key becomes current before both are written with
\* the log entry, which has the number of the commitment at the tail of the
\* remote chain.  When the write fails the peer is disconnected.
Revocation(o, htlcs) ==
  LET c == obj[o]
      k == c.RemoteElkrem + 1
      new == [c EXCEPT !.RemoteElkrem = k, !.TheirCurrentRevocation = <<"key", o, k>>,
                       !.TheirCurrentRevocationHash = <<"hash", o, k>>]
      delta == Delta(c, tail[o], htlcs)
  IN /\ o \in DOMAIN obj /\ inbox[o] # <<>> /\ Head(inbox[o]) = "revocation"
     /\ \/ db' = AppendToRevocationLog(db, new, delta)
           /\ obj' = [obj EXCEPT ![o] = new]
           /\ inbox' = [inbox EXCEPT ![o] = Tail(@)]
           /\ logged' = [logged EXCEPT ![o] = Append(@, delta)]
           /\ tail' = [tail EXCEPT ![o] = @ + 1]
           /\ saved' = [saved EXCEPT ![o].RemoteElkrem = k,
                                     ![o].TheirCurrentRevocation = <<"key", o, k>>,
                                     ![o].TheirCurrentRevocationHash = <<"hash", o, k>>]
           /\ UNCHANGED <<conns, reading, closer, astray, faults>>
        \/ Fault /\ Stop(NodeOf[o]) /\ UNCHANGED <<db, saved, logs>>
     /\ UNCHANGED <<active, links, shut, wiping, chain, confirmed, status, signal, told,
                    plan, received>>

\* What was buffered when the link was closed is handled before the
\* htlcManager sees that it is closed.
ManagerDone(o) ==
  /\ o \in DOMAIN obj \cap shut /\ inbox[o] = <<>>
  /\ obj' = Restrict(obj, DOMAIN obj \ {o})
  /\ UNCHANGED <<db, conns, active, links, shut, inbox, reading, closing, saved, logs,
                 plan, received, faults>>

-----------------------------------------------------------------------------
(* Closing. *)

\* The closeObserver of a channel in memory takes every spend of the funding
\* output for a unilateral close unless we are in dispute.
Observed(o) ==
  IF o \in active /\ status[o] # "dispute"
  THEN /\ signal' = [signal EXCEPT ![o] = @ \cup {"unilateral"}]
       /\ status' = [status EXCEPT ![o] = "dispute"]
  ELSE UNCHANGED <<signal, status>>

\* handleLocalClose, cooperative: the request goes to the remote peer and a
\* goroutine awaits the confirmation (InitCooperativeClose).
CloseCooperatively(o) ==
  /\ NodeOf[o] \in conns /\ o \in active \cap plan.close
  /\ status[o] \notin {"closing", "closed"}
  /\ status' = [status EXCEPT ![o] = "closing"]
  /\ closer' = closer \cup {<<o, "coop">>}
  /\ UNCHANGED <<db, conns, active, links, shut, obj, inbox, reading, wiping, chain,
                 confirmed, signal, told, saved, logs, plan, received, faults>>

\* handleLocalClose, forced: ForceClose closes the ForceCloseSignal, which
\* panics when it is closed already; the commitment is published and a
\* goroutine awaits the confirmation unless the publication is rejected.
CloseByForce(o) ==
  /\ NodeOf[o] \in conns /\ o \in active \cap plan.close
  /\ IF "force" \in signal[o]
     THEN Down /\ UNCHANGED faults
     ELSE /\ status' = [status EXCEPT ![o] = "dispute"]
          /\ signal' = [signal EXCEPT ![o] = @ \cup {"force"}]
          /\ IF chain[o] = "none"
             THEN /\ chain' = [chain EXCEPT ![o] = "force"]
                  /\ closer' = closer \cup {<<o, "force">>}
             ELSE UNCHANGED <<chain, closer>>
          /\ UNCHANGED <<db, conns, active, links, shut, obj, inbox, reading, wiping,
                         confirmed, told, saved, logs, plan, received, faults>>

\* The remote peer publishes the transaction we signed for it, or its
\* commitment.
RemoteSpends(o) ==
  /\ o \in Opened \cap plan.close /\ chain[o] = "none"
  /\ \E tx \in {"theirs"} \cup {w[2] : w \in {v \in closer : v[1] = o}} :
       chain' = [chain EXCEPT ![o] = tx]
  /\ Observed(o)
  /\ UNCHANGED <<db, conns, active, links, shut, obj, inbox, reading, wiping, closer,
                 confirmed, told, saved, logs, plan, received, faults>>

\* A confirmation nobody waits for changes nothing.
Confirm(o) ==
  /\ <<o, chain[o]>> \in closer /\ o \notin confirmed
  /\ confirmed' = confirmed \cup {o}
  /\ UNCHANGED <<db, conns, active, links, shut, obj, inbox, reading, wiping, closer,
                 chain, status, signal, told, saved, logs, plan, received, faults>>

Wiper(o, by) == [chan |-> o, by |-> by, at |-> "lookup"]

\* A goroutine enters wipeChannel, and deletes the channel from activeChannels.
StartWipe(o, by) ==
  /\ wiping' = wiping \cup {Wiper(o, by)}
  /\ active' = active \ {o}

\* handleRemoteClose, in the channelManager: CompleteCooperativeClose, then
\* publish (which the closeObserver sees too), then wipe.  A request is
\* ignored when we are closing as well.
handleRemoteClose(o) ==
  /\ NodeOf[o] \in conns /\ o \in active \cap plan.close
  /\ status[o] \notin {"closing", "closed"}
  /\ IF chain[o] = "none"
     THEN /\ chain' = [chain EXCEPT ![o] = "coop"]
          /\ signal' = [signal EXCEPT ![o] = @ \cup {"unilateral"}]
          /\ status' = [status EXCEPT ![o] = "dispute"]
          /\ StartWipe(o, "remote")
     ELSE /\ status' = [status EXCEPT ![o] = "closed"]
          /\ UNCHANGED <<chain, signal, wiping, active>>
  /\ UNCHANGED <<db, conns, links, shut, obj, inbox, reading, closer, confirmed, told,
                 saved, logs, plan, received, faults>>

\* Mutant: the close is not awaited to be confirmed.
LocalPublished(o, tx) ==
  /\ <<o, tx>> \in closer /\ chain[o] = tx
  /\ StartWipe(o, "local") /\ closer' = closer \ {<<o, tx>>}
  /\ UNCHANGED <<db, conns, links, shut, obj, inbox, reading, chain, confirmed, status,
                 signal, told, saved, logs, plan, received, faults>>

\* A goroutine of handleLocalClose sees its transaction confirmed.
LocalConfirmed(o, tx) ==
  /\ <<o, tx>> \in closer /\ chain[o] = tx /\ o \in confirmed
  /\ StartWipe(o, "local") /\ closer' = closer \ {<<o, tx>>}
  /\ UNCHANGED <<db, conns, links, shut, obj, inbox, reading, chain, confirmed, status,
                 signal, told, saved, logs, plan, received, faults>>

\* The htlcManager sees a close signal and stops; it wipes the channel when
\* the signal is that of a unilateral close.
CloseSignalled(o, sig) ==
  /\ o \in DOMAIN obj /\ sig \in signal[o]
  /\ obj' = Restrict(obj, DOMAIN obj \ {o})
  /\ IF sig = "unilateral" THEN StartWipe(o, "observer") ELSE UNCHANGED <<wiping, active>>
  /\ UNCHANGED <<db, conns, links, shut, inbox, reading, closer, chain, confirmed, status,
                 signal, told, saved, logs, plan, received, faults>>

\* wipeChannel returns to its caller: the goroutine of handleLocalClose tells
\* the requester unless there was an error.
Return(w, ok) ==
  /\ wiping' = wiping \ {w}
  /\ told' = IF w.by = "local" /\ ok THEN told \cup {w.chan} ELSE told

\* wipeChannel after UnregisterLink: a channel that is no longer in
\* htlcManagers is done with.
WipeLookup(w) ==
  /\ w \in wiping /\ w.at = "lookup"
  /\ IF w.chan \in links
     THEN wiping' = (wiping \ {w}) \cup {[w EXCEPT !.at = "close"]} /\ UNCHANGED told
     ELSE Return(w, TRUE)
  /\ UNCHANGED <<db, conns, active, links, shut, obj, inbox, reading, closer, chain,
                 confirmed, status, signal, saved, logs, plan, received, faults>>

\* The link is deleted and closed; closing it twice panics.
WipeClose(w) ==
  /\ w \in wiping /\ w.at = "close"
  /\ IF w.chan \in shut
     THEN Down /\ UNCHANGED faults
     ELSE /\ links' = links \ {w.chan} /\ shut' = shut \cup {w.chan}
          /\ wiping' = (wiping \ {w}) \cup {[w EXCEPT !.at = "delete"]}
          /\ UNCHANGED <<db, conns, active, obj, inbox, reading, closer, chain, confirmed,
                         status, signal, told, saved, logs, plan, received, faults>>

\* DeleteState
WipeDelete(w) ==
  /\ w \in wiping /\ w.at = "delete"
  /\ \/ /\ db' = CloseChannel(db, NodeOf[w.chan], w.chan)
        /\ Return(w, TRUE) /\ UNCHANGED faults
     \/ Fault /\ Return(w, FALSE) /\ UNCHANGED db
  /\ UNCHANGED <<conns, active, links, shut, obj, inbox, reading, closer, chain, confirmed,
                 status, signal, saved, logs, plan, received>>

-----------------------------------------------------------------------------
(* Invoices, on a database without channels: the two share no bucket. *)

Pay(i) ==
  /\ db.nodes = EmptyBucket
  /\ \/ db' = AddInvoice(db, i)
     \/ db' = SettleInvoice(db, PaymentHash(i.PaymentPreimage))
  /\ UNCHANGED <<conns, active, links, shut, obj, inbox, reading, closing, saved, logs,
                 plan, received, faults>>

Next ==
  \/ \E n \in Nodes : NewPeer(n) \/ Disconnect(n) \/ Dispatch(n)
  \/ Crash
  \/ \E n \in Nodes, o \in Chans, kind \in {"signature", "revocation"} : ReadUpdate(n, o, kind)
  \/ \E o \in Chans, htlcs \in HtlcLists : NewCommitment(o, htlcs) \/ Revocation(o, htlcs)
  \/ \E o \in Chans : Open(o) \/ ManagerDone(o) \/ RemoteSpends(o) \/ Confirm(o)
                      \/ handleRemoteClose(o) \/ CloseCooperatively(o) \/ CloseByForce(o)
  \/ \E o \in Chans, tx \in {"coop", "force"} : LocalConfirmed(o, tx)
  \/ \E o \in Chans, sig \in {"unilateral", "force"} : CloseSignalled(o, sig)
  \/ \E w \in wiping : WipeLookup(w) \/ WipeClose(w) \/ WipeDelete(w)
  \/ \E i \in Invoices : Pay(i)

Spec == Init /\ [][Next]_vars

-----------------------------------------------------------------------------
\* The fields of group g as the disk has them and as r does.
Agrees(r, group) == ~Failed(group) /\ \A f \in DOMAIN group : group[f] = r[f]

\* Position of the delivery scripts among the groups.
DeliveryGroup == 6

Indexed == UNION {IDs(db, n) : n \in Nodes}

Groups(o) == FetchedGroups(db.open, db.nodes[NodeOf[o]].cols, o)

(***************************************************************************)
(* What fetchOpenChannel reads of a channel in the index, the delivery     *)
(* scripts aside, is what the last committed transaction wrote for it,     *)
(* whatever was written, deleted or failed for other channels since        *)
(* (put*, fetch* and delete* use the same keys).                           *)
(***************************************************************************)
FieldsReadBack ==
  \A o \in Indexed : \A g \in DOMAIN Groups(o) :
    g # DeliveryGroup => Agrees(saved[o], Groups(o)[g])

\* Entry i of the log of channel o has not been written over by a later one.
Latest(o, i) ==
  \A j \in DOMAIN logged[o] :
    j > i => logged[o][j].UpdateNum # logged[o][i].UpdateNum

(***************************************************************************)
(* There is a log entry for every secret in the elkrem receiver on disk: a *)
(* failed write, a lost connection or a crash never leaves one without the *)
(* other.  What was logged last under a number is what FindPreviousState   *)
(* returns for it, balances and HTLCs, whatever is logged for another      *)
(* channel with the same node (AppendToRevocationLog, makeLogKey).  The    *)
(* number is that of the state the secret revoked, so that every revoked   *)
(* state is found, as long as whenever the channel was loaded from disk    *)
(* our own commitment, whose height the numbers go on from                 *)
(* (NewLightningChannel), was at the height of theirs.  When it was not,   *)
(* numbers are skipped or used again, and an entry used again is lost.     *)
(***************************************************************************)
RevokedStatesFound ==
  \A o \in Indexed :
    /\ Len(logged[o]) =
         fetchChanElkremState(db.nodes[NodeOf[o]].cols, o).RemoteElkrem
    /\ \A i \in DOMAIN logged[o] :
         /\ Latest(o, i) =>
              FindPreviousState(db, NodeOf[o], o, logged[o][i].UpdateNum) = logged[o][i]
         /\ o \notin astray =>
              FindPreviousState(db, NodeOf[o], o, i - 1) = logged[o][i]

(***************************************************************************)
(* Every channel that was opened is either in the index of its node or     *)
(* recorded as closed, never both: the updates an htlcManager still writes *)
(* after CloseChannel bring no channel back.                               *)
(***************************************************************************)
ChannelsAccounted ==
  /\ Indexed \cup {readOutpoint(k) : k \in db.closed} = Opened
  /\ Indexed \cap {readOutpoint(k) : k \in db.closed} = {}

(***************************************************************************)
(* The state of a channel is deleted only when its funding output has been *)
(* spent, and its requester is told of the closing only when the close     *)
(* transaction is confirmed (handleLocalClose, handleRemoteClose,          *)
(* htlcManager).                                                           *)
(***************************************************************************)
DeletedOnlyWhenSpent ==
  /\ \A k \in db.closed : chain[readOutpoint(k)] # "none"
  /\ told \subseteq confirmed

(***************************************************************************)
(* Invoices are never deleted nor changed but for being settled, and a     *)
(* settled one stays settled (AddInvoice of a duplicate, SettleInvoice).   *)
(***************************************************************************)
InvoicesKept ==
  [][\A h \in DOMAIN db.hashes :
       LET was == LookupInvoice(db, h)
           is == LookupInvoice(db', h)
       IN ~Failed(was) => /\ [is EXCEPT !.Settled = was.Settled] = was
                          /\ was.Settled => is.Settled]_db

(***************************************************************************)
(* Every peer can be connected to: the channels in the index of a node     *)
(* read back, each with its own fields (key = prefix || chanID).           *)
(***************************************************************************)
ChannelsReadBack ==
  \A o \in Indexed : \A g \in DOMAIN Groups(o) : Agrees(saved[o], Groups(o)[g])

===============================================================================
