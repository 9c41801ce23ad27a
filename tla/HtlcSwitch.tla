------------------------------ MODULE HtlcSwitch ------------------------------
(***************************************************************************)
(* The htlcSwitch of htlcswitch.go and the goroutines of peer.go that use  *)
(* it, for the channels with one remote node.  Actors:                     *)
(*                                                                         *)
(*   networkAdmin     serves linkControl, an unbuffered channel: whoever   *)
(*                    sends on it is a member of "requests" until served   *)
(*   htlcForwarder    hands payments to links, one goroutine per send      *)
(*   peer objects     one per connection, numbered; each has a             *)
(*                    channelManager, an htlcManager per channel, and the  *)
(*                    goroutines that close a channel or clean up          *)
(*   RPC              SendHTLC and CloseLink                               *)
(*                                                                         *)
(* A link is <<channel, connection>>.  An access to nil ends the daemon    *)
(* (panicked).  The forwarder's loop is taken as one step.                 *)
(***************************************************************************)
EXTENDS Integers, Sequences, SequencesExt, FiniteSets, TLC

CONSTANTS Chans,    \* channels with the node
          Balance,  \* LocalBalance of each channel when it is registered
          Plans     \* workloads: channels open from the start and channels to
                    \* be funded; payments, as [id, amt]; connections; a bound
                    \* on the bandwidth of links to be credited; channels
                    \* CloseLink is called for, and those the remote node
                    \* sends a CloseRequest for

\* Links have a balance, payments an amount, both in satoshis.
ASSUME SwitchAssumption ==
  /\ \A c \in Chans : Balance[c] \in Nat
  /\ \A p \in Plans :
       /\ p.open \subseteq Chans /\ p.new \subseteq Chans \ p.open
       /\ \A pay \in p.pays : pay.amt \in Nat \ {0}
       /\ p.peers \in Nat \ {0} /\ p.credit \in Nat

VARIABLES
  plan,        \* the workload
  chanIndex,   \* chanIndex: registered channels to their links
  interfaces,  \* interfaces[node]: its slice of links, <<>> when there is none
  bandwidth,   \* availableBandwidth of every link made so far
  requests,    \* senders blocked on linkControl
  admin,       \* the link whose peer networkAdmin hands a close request to
  peers,       \* peer objects made so far
  status,      \* of each channel: "unfunded", "open" (in channeldb), "closed"
               \* or not there at all
  asked,       \* local and remote closes asked for already
  todo,        \* payments still to be made
  outgoing,    \* packets in outgoingPayments
  sends,       \* goroutines blocked on a link channel, and the links they may see
  handed,      \* <<payment, link>> pairs handed over to an htlcManager
  rejected,    \* payments answered with an error
  panicked     \* a nil dereference has ended the daemon

registry == <<chanIndex, interfaces, bandwidth>>
payments == <<todo, outgoing, sends, handed, rejected>>
vars == <<plan, registry, requests, admin, peers, status, asked, payments,
          panicked>>

Nil == <<>>
Idle == [type |-> "idle"]   \* a channelManager waiting in its select
Gone == [type |-> "gone"]   \* a channelManager that has returned

Sessions == DOMAIN peers

(***************************************************************************)
(* A peer object that is about to load the given channels: activeChannels, *)
(* htlcManagers (wires), the running htlcManagers, the channels with a     *)
(* closing status, the goroutines that wait for a closing transaction, and *)
(* what the channelManager does.  "alone" is history: no other connection  *)
(* with the node was about during this one.                                *)
(***************************************************************************)
NewPeer(chans, alone) ==
  [loading |-> chans, active |-> {}, wires |-> {}, running |-> {},
   closing |-> {}, watched |-> {}, manager |-> Idle, quit |-> FALSE,
   alone |-> alone]

Init ==
  /\ plan \in Plans
  /\ chanIndex = <<>> /\ interfaces = <<>> /\ bandwidth = <<>>
  /\ requests = {} /\ admin = Nil /\ peers = <<>>
  /\ status = [c \in Chans |-> CASE c \in plan.open -> "open"
                                [] c \in plan.new -> "unfunded"
                                [] OTHER -> "closed"]
  /\ asked = {} /\ todo = plan.pays /\ outgoing = {} /\ sends = {}
  /\ handed = {} /\ rejected = {}
  /\ panicked = FALSE

\* The channelManager of connection s waits for its next event.
Managing(s) == peers[s].loading = {} /\ peers[s].manager = Idle

\* networkAdmin is in its select.
Free == admin = Nil

Request(type, s, c) == [type |-> type, peer |-> s, chan |-> c]

\* The three callers of wipeChannel: handleRemoteClose in the channelManager,
\* the goroutine of handleLocalClose, an htlcManager.
Wipes == {"remote", "confirmed", "spent"}

\* The htlcManager of channel c is blocked on linkControl.
Blocked(s, c) == {Request("update", s, c), Request("spent", s, c)} \cap requests # {}

\* Nothing of connection s is left: no goroutine and no link.
Ended(s) ==
  /\ peers[s].quit /\ peers[s].manager = Gone
  /\ peers[s].running = {} /\ peers[s].watched = {}
  /\ \A r \in requests : r.peer # s
  /\ \A c \in Chans : <<c, s>> \notin ToSet(interfaces)

-----------------------------------------------------------------------------
(***************************************************************************)
(* Connections.  newPeer loads the open channels from the database and     *)
(* registers them one by one.  The server makes a peer object for every    *)
(* connection, whether or not the node still has another.  Disconnect      *)
(* closes quit and leaves a goroutine that purges the node's links.        *)
(***************************************************************************)
newPeer ==
  /\ Len(peers) < plan.peers
  /\ LET left == {s \in Sessions : ~Ended(s)}
         marked == [s \in Sessions |->
                      [peers[s] EXCEPT !.alone = @ /\ s \notin left]]
     IN peers' = Append(marked, NewPeer({c \in Chans : status[c] = "open"},
                                        left = {}))
  /\ UNCHANGED <<registry, requests, admin, status, asked, payments,
                 panicked>>

Disconnect(s) ==
  /\ peers[s].loading = {} /\ ~peers[s].quit
  /\ peers' = [peers EXCEPT ![s].quit = TRUE]
  /\ requests' = requests \cup {Request("purge", s, "all")}
  /\ UNCHANGED <<registry, admin, status, asked, payments,
                 panicked>>

\* A goroutine of a peer object returns: quit is closed, or its wire link is.
GoroutineQuits(s) ==
  /\ \/ /\ Managing(s) /\ peers[s].quit
        /\ peers' = [peers EXCEPT ![s].manager = Gone]
     \/ \E c \in peers[s].running :
          /\ ~Blocked(s, c) /\ (peers[s].quit \/ c \notin peers[s].wires)
          /\ peers' = [peers EXCEPT ![s].running = @ \ {c}]
     \/ \E c \in peers[s].watched :
          /\ peers[s].quit
          /\ peers' = [peers EXCEPT ![s].watched = @ \ {c}]
  /\ UNCHANGED <<registry, requests, admin, status, asked, payments,
                 panicked>>

\* channelManager receives a newly funded channel and asks to register it.
NewChannel(s, c) ==
  /\ Managing(s) /\ status[c] = "unfunded"
  /\ status' = [status EXCEPT ![c] = "open"]
  /\ peers' = [peers EXCEPT ![s].manager = Request("register", s, c)]
  /\ UNCHANGED <<registry, requests, admin, asked, payments,
                 panicked>>

(***************************************************************************)
(* handleRegisterLink, called by newPeer or by the channelManager, which   *)
(* then spawns the channel's htlcManager.                                  *)
(***************************************************************************)
\* Mutant: a link is registered in the channel index only.
AddLink_IndexOnly(l) ==
  /\ chanIndex' = (l[1] :> l) @@ chanIndex
  /\ bandwidth' = (l :> Balance[l[1]]) @@ bandwidth
  /\ UNCHANGED interfaces

\* Mutant: a link is registered in its interface only.
AddLink_InterfaceOnly(l) ==
  /\ interfaces' = Append(interfaces, l)
  /\ bandwidth' = (l :> Balance[l[1]]) @@ bandwidth
  /\ UNCHANGED chanIndex

AddLink(l) ==
  /\ chanIndex' = (l[1] :> l) @@ chanIndex
  /\ interfaces' = Append(interfaces, l)
  /\ bandwidth' = (l :> Balance[l[1]]) @@ bandwidth

Activated(peer, c) ==
  [peer EXCEPT !.active = @ \cup {c}, !.wires = @ \cup {c},
               !.running = @ \cup {c}]

RegisterLink(s, c) ==
  /\ Free
  /\ \/ /\ c \in peers[s].loading
        /\ peers' = [peers EXCEPT ![s] = Activated([@ EXCEPT !.loading = @ \ {c}], c)]
     \/ /\ peers[s].manager = Request("register", s, c)
        /\ peers' = [peers EXCEPT ![s] = Activated([@ EXCEPT !.manager = Idle], c)]
  /\ AddLink(<<c, s>>)
  /\ UNCHANGED <<requests, admin, status, asked, payments,
                 panicked>>

(***************************************************************************)
(* handleUnregisterLink.  The links after the removed one move down in the *)
(* interface's array and its last cell becomes nil; the shorter slice is   *)
(* only used to see whether the interface is empty.                        *)
(***************************************************************************)
Position(l) == SelectInSeq(interfaces, LAMBDA x : x = l)

\* The loop runs into a nil link before it finds the one it looks for.
MeetsNil(l) ==
  \E i \in DOMAIN interfaces :
    /\ interfaces[i] = Nil
    /\ Position(l) = 0 \/ i < Position(l)

RemoveLink(l) ==
  LET i == Position(l)
  IN IF i = 0 THEN interfaces
     ELSE IF Len(interfaces) = 1 THEN <<>>
     ELSE Append(RemoveAt(interfaces, i), Nil)

Without(f, S) == [x \in DOMAIN f \ S |-> f[x]]

\* handleUnregisterLink and the rest of wipeChannel, which does nothing more
\* if somebody else has wiped the channel meanwhile.
UnregisterLink(r) ==
  /\ Free /\ r \in requests /\ r.type \in Wipes
  /\ requests' = requests \ {r}
  /\ IF MeetsNil(<<r.chan, r.peer>>)
       THEN /\ panicked' = TRUE
            /\ UNCHANGED <<chanIndex, interfaces, status, peers>>
       ELSE /\ chanIndex' = Without(chanIndex, {r.chan})
            /\ interfaces' = RemoveLink(<<r.chan, r.peer>>)
            /\ status' = IF r.chan \in peers[r.peer].wires
                           THEN [status EXCEPT ![r.chan] = "closed"] ELSE status
            /\ peers' = [peers EXCEPT
                 ![r.peer].wires = @ \ {r.chan},
                 ![r.peer].running = IF r.type = "spent" THEN @ \ {r.chan} ELSE @,
                 ![r.peer].manager = IF @ = r THEN Idle ELSE @]
            /\ UNCHANGED panicked
  /\ UNCHANGED <<bandwidth, admin, asked, payments>>

\* A nil channel point purges the whole interface.
Purge(r) ==
  /\ Free /\ r \in requests /\ r.type = "purge"
  /\ requests' = requests \ {r}
  /\ IF Nil \in ToSet(interfaces)
       THEN panicked' = TRUE /\ UNCHANGED <<chanIndex, interfaces>>
       ELSE /\ chanIndex' = Without(chanIndex, {l[1] : l \in ToSet(interfaces)})
            /\ interfaces' = <<>>
            /\ UNCHANGED panicked
  /\ UNCHANGED <<bandwidth, admin, peers, status, asked, payments>>

-----------------------------------------------------------------------------
(***************************************************************************)
(* An htlcManager has settled an invoice and credits its link (UpdateLink, *)
(* handleLinkUpdate, which does not check that the link is still there).   *)
(***************************************************************************)
UpdateLink(s, c) ==
  /\ c \in peers[s].running /\ ~Blocked(s, c)
  /\ \A l \in DOMAIN bandwidth : bandwidth[l] < plan.credit
  /\ requests' = requests \cup {Request("update", s, c)}
  /\ UNCHANGED <<registry, admin, peers, status, asked, payments,
                 panicked>>

handleLinkUpdate(r) ==
  /\ Free /\ r \in requests /\ r.type = "update"
  /\ requests' = requests \ {r}
  /\ IF r.chan \in DOMAIN chanIndex
       THEN /\ bandwidth' = [bandwidth EXCEPT ![chanIndex[r.chan]] = @ + 1]
            /\ UNCHANGED panicked
       ELSE panicked' = TRUE /\ UNCHANGED bandwidth
  /\ UNCHANGED <<chanIndex, interfaces, admin, peers, status, asked, payments>>

(***************************************************************************)
(* Closing.  CloseLink is served by handleCloseLink, which blocks until    *)
(* the channelManager of the link's connection takes the request.          *)
(***************************************************************************)
CloseLink(c) ==
  /\ c \in plan.local /\ <<"close", c>> \notin asked
  /\ asked' = asked \cup {<<"close", c>>}
  /\ requests' = requests \cup {Request("close", 0, c)}
  /\ UNCHANGED <<registry, admin, peers, status, payments,
                 panicked>>

handleCloseLink(r) ==
  /\ Free /\ r \in requests /\ r.type = "close"
  /\ requests' = requests \ {r}
  /\ IF r.chan \in DOMAIN chanIndex
       THEN admin' = chanIndex[r.chan]
       ELSE UNCHANGED admin
  /\ UNCHANGED <<registry, peers, status, asked, payments, panicked>>

\* handleLocalClose: a cooperative close is initiated unless the channel is
\* closing already; a goroutine waits for the closing transaction.
handleLocalClose ==
  /\ admin # Nil
  /\ LET c == admin[1]
         s == admin[2]
     IN /\ Managing(s)
        /\ panicked' = (c \notin peers[s].active)
        /\ peers' = IF c \in peers[s].closing THEN peers
                    ELSE [peers EXCEPT ![s].closing = @ \cup {c},
                                       ![s].watched = @ \cup {c}]
  /\ admin' = Nil
  /\ UNCHANGED <<registry, requests, status, asked, payments>>

\* wipeChannel up to its call of UnregisterLink.
Wipe(type, s, c, peer) ==
  /\ peers' = [peers EXCEPT ![s] = [peer EXCEPT !.active = @ \ {c}]]
  /\ requests' = requests \cup {Request(type, s, c)}

\* The closing transaction of a local close is confirmed.
Confirmed(s, c) ==
  /\ c \in peers[s].watched
  /\ Wipe("confirmed", s, c, [peers[s] EXCEPT !.watched = @ \ {c}])
  /\ UNCHANGED <<registry, admin, status, asked, payments,
                 panicked>>

\* The funding output is spent, by whichever transaction
\* (UnilateralCloseSignal), and the htlcManager wipes the channel.
Spent(s, c) ==
  /\ c \in peers[s].running /\ ~Blocked(s, c)
  /\ Wipe("spent", s, c, peers[s])
  /\ UNCHANGED <<registry, admin, status, asked, payments,
                 panicked>>

\* A CloseRequest of the remote node reaches the channelManager.
handleRemoteClose(s, c) ==
  /\ Managing(s) /\ c \in plan.remote /\ status[c] # "unfunded"
  /\ <<"remote", c>> \notin asked
  /\ asked' = asked \cup {<<"remote", c>>}
  /\ panicked' = (c \notin peers[s].active)
  /\ IF c \notin peers[s].active \/ c \in peers[s].closing
       THEN UNCHANGED <<peers, requests>>
       ELSE Wipe("remote", s, c,
                 [peers[s] EXCEPT !.closing = @ \cup {c},
                                  !.manager = Request("remote", s, c)])
  /\ UNCHANGED <<registry, admin, status, payments>>

-----------------------------------------------------------------------------
(***************************************************************************)
(* Payments.  SendHTLC queues a packet; htlcForwarder goes through all     *)
(* links of the interface and sends the packet over every one that has the *)
(* bandwidth.  The goroutine of a send reads the loop's variable when it   *)
(* runs: it may see the link it was made for or a later one.               *)
(***************************************************************************)
SendHTLC(pay) ==
  /\ pay \in todo
  /\ todo' = todo \ {pay}
  /\ outgoing' = outgoing \cup {pay}
  /\ UNCHANGED <<registry, requests, admin, peers, status, asked, sends, handed,
                 rejected, panicked>>

HasBandwidth(l, amt) == bandwidth[l] >= amt

\* Mutant: the requester is told there is no capacity although it was sent.
Answer_Always(pay, used) == rejected \cup {pay}

\* The requester gets an error if no link was used.
Answer(pay, used) == IF used = {} THEN rejected \cup {pay} ELSE rejected

Forward(pay) ==
  /\ pay \in outgoing
  /\ outgoing' = outgoing \ {pay}
  /\ IF Nil \in ToSet(interfaces)
       THEN panicked' = TRUE /\ UNCHANGED <<bandwidth, sends, rejected>>
       ELSE LET used == {i \in DOMAIN interfaces : HasBandwidth(interfaces[i], pay.amt)}
                later(i) == {interfaces[j] : j \in i..Len(interfaces)}
            IN /\ bandwidth' = [l \in DOMAIN bandwidth |->
                    IF l \in {interfaces[i] : i \in used}
                      THEN bandwidth[l] - pay.amt ELSE bandwidth[l]]
               /\ sends' = sends \cup
                    {[pay |-> pay, for |-> interfaces[i], sees |-> later(i)] : i \in used}
               /\ rejected' = Answer(pay, used)
               /\ UNCHANGED panicked
  /\ UNCHANGED <<chanIndex, interfaces, requests, admin, peers, status, asked,
                 todo, handed>>

Deliver(g) ==
  /\ g \in sends
  /\ sends' = sends \ {g}
  /\ \E l \in g.sees : handed' = handed \cup {<<g.pay, l>>}
  /\ UNCHANGED <<registry, requests, admin, peers, status, asked, todo,
                 outgoing, rejected, panicked>>

-----------------------------------------------------------------------------
networkAdmin ==
  \/ \E s \in Sessions, c \in Chans : RegisterLink(s, c)
  \/ \E r \in requests : \/ UnregisterLink(r) \/ Purge(r)
                          \/ handleLinkUpdate(r) \/ handleCloseLink(r)

Next ==
  /\ ~panicked
  /\ \/ newPeer
     \/ \E s \in Sessions : Disconnect(s) \/ GoroutineQuits(s)
     \/ \E s \in Sessions, c \in Chans :
          \/ NewChannel(s, c) \/ UpdateLink(s, c) \/ Confirmed(s, c)
          \/ Spent(s, c) \/ handleRemoteClose(s, c)
     \/ networkAdmin
     \/ \E c \in Chans : CloseLink(c)
     \/ handleLocalClose
     \/ \E pay \in plan.pays : SendHTLC(pay) \/ Forward(pay)
     \/ \E g \in sends : Deliver(g)
  /\ UNCHANGED plan

Spec == Init /\ [][Next]_vars

-----------------------------------------------------------------------------
Links == Chans \X (1..plan.peers)

(***************************************************************************)
(* The channels a live connection considers active are registered, with    *)
(* its own link: an htlcManager's UpdateLink finds its link and a payment  *)
(* finds its channel (RegisterLink before the htlcManager starts,          *)
(* UnregisterLink only after wipeChannel took the channel out of           *)
(* activeChannels).  This needs the connection to be the only one with the *)
(* node from its beginning to its end: of two at a time, one's Disconnect  *)
(* purges the links of the other, and one's wipeChannel deletes the index  *)
(* entry of the other.                                                     *)
(***************************************************************************)
ActiveRegistered ==
  \A s \in Sessions :
    peers[s].alone /\ ~peers[s].quit =>
      \A c \in peers[s].active :
        c \in DOMAIN chanIndex /\ chanIndex[c] = <<c, s>>

(***************************************************************************)
(* The switch's two indexes agree, whatever order registrations, closes    *)
(* and purges are served in.  A link that chanIndex names (what CloseLink  *)
(* and UpdateLink reach) is one of the interface's (what a payment can     *)
(* take), however the connections overlap; and as long as no two           *)
(* connections with the node have overlapped the interface has no others,  *)
(* nil cells apart.  After an overlap it may: handleUnregisterLink deletes *)
(* the entry of the channel point, whichever connection's link that is,    *)
(* and takes only the caller's link out of the interface.                  *)
(***************************************************************************)
RegistryMatches ==
  /\ Range(chanIndex) \subseteq ToSet(interfaces)
  /\ (\A s \in Sessions : peers[s].alone) =>
       ToSet(interfaces) \ {Nil} = Range(chanIndex)

(***************************************************************************)
(* A payment whose requester got an error from SendHTLC is not sent: the   *)
(* error means it can be tried again without paying twice.                 *)
(***************************************************************************)
RejectedNotSent ==
  \A pay \in rejected :
    /\ \A g \in sends : g.pay # pay
    /\ \A l \in Links : <<pay, l>> \notin handed

===============================================================================
