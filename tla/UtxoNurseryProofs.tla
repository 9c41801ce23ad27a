-------------------------- MODULE UtxoNurseryProofs ---------------------------
(***************************************************************************)
(* Proofs about the chain notifier and the nursery, for every set of       *)
(* clients, outputs and transactions, every number of confirmations and    *)
(* delay, and every length of the epoch channel and of the chain.          *)
(*                                                                         *)
(* None of the three properties is inductive.  The notifier's need what is *)
(* known of a client still waiting in the registry, of the heap's entries, *)
(* and of the blocks in the queue; the nursery's need where an output that *)
(* has not been registered can be, and what each stage knows of the height *)
(* of its confirmation.                                                    *)
(***************************************************************************)
EXTENDS UtxoNursery, TLAPS

NotifierTypes ==
  /\ height \in Nat /\ minedAt \in [Txs -> Nat]
  /\ connected \in Seq(Nat) /\ relevantTxs \in Nat /\ handled \in Nat
  /\ registry \subseteq ConfClients \cup SpendClients
  /\ confNotifications \subseteq ConfClients
  /\ confHeap \subseteq ConfClients \X Int
  /\ spendNotifications \subseteq SpendClients /\ told \subseteq SpendClients
  /\ confirmed \in [ConfClients -> Nat]

\* The queue holds the blocks after the last one taken from it, in order.
QueueInOrder ==
  /\ Dequeued >= StartHeight
  /\ \A i \in 1..Len(connected) : connected[i] = Dequeued + i

\* The dispatcher knows nothing of client c, and has not answered it.
Unserved(c) ==
  /\ c \notin confNotifications /\ confirmed[c] = 0
  /\ \A e \in confHeap : e[1] # c

\* A client in the registry is new to the dispatcher.
RegistryFresh ==
  /\ \A c \in registry \cap ConfClients : Unserved(c)
  /\ registry \cap (spendNotifications \cup told) = {}
  /\ (registry \cup spendNotifications) \cap SpendClients # {} => watched

\* A client is in the heap once, under the height of its last confirmation.
HeapExact ==
  /\ \A e, f \in confHeap : e[1] = f[1] => e = f
  /\ \A e \in confHeap : /\ minedAt[TxOf[e[1]]] # 0
                         /\ e[2] = minedAt[TxOf[e[1]]] + NumConfs[e[1]] - 1

NotifierInv ==
  /\ NotifierTypes /\ QueueInOrder /\ RegistryFresh /\ HeapExact
  /\ DispatcherNeverBlocks /\ ConfirmedOnTime

\* An output the peer still holds, or has not published, is not registered.
PeerFresh ==
  /\ closing \subseteq Outputs /\ requests \subseteq Outputs
  /\ closing \cap requests = {}
  /\ \A o \in closing \cup requests : o \notin registry /\ Unserved(o)
  /\ \A o \in Outputs : TxOf[o] \notin published =>
       o \notin closing \cup requests \cup registry /\ Unserved(o)

\* An epoch is a block after the start of the notifier.
EpochsAfterStart ==
  /\ epochSenders \subseteq Nat /\ \A h \in epochSenders : h > StartHeight
  /\ epochs \in Seq(Nat) /\ \A i \in 1..Len(epochs) : epochs[i] > StartHeight

\* What the stages know: a height of 0 comes from a channel closed by Stop,
\* and stages the output at a height no epoch will have.
StagesTrue ==
  /\ watching \subseteq Outputs
  /\ midStage \subseteq Outputs \X Nat /\ staged \subseteq Outputs \X Nat
  /\ tried \subseteq Outputs \X Nat
  /\ \A m \in midStage : m[2] # 0 => /\ minedAt[TxOf[m[1]]] # 0
                                     /\ m[2] >= minedAt[TxOf[m[1]]]
  /\ \A s \in staged : \/ s[2] <= StartHeight
                       \/ /\ minedAt[TxOf[s[1]]] # 0
                          /\ s[2] >= minedAt[TxOf[s[1]]] + Delay[s[1]]

NurseryInv == PeerFresh /\ EpochsAfterStart /\ StagesTrue /\ SweepsMature

IInv == NotifierInv /\ NurseryInv

-----------------------------------------------------------------------------
\* What the assumptions say of the constants.
LEMMA Constants ==
  /\ \A c \in ConfClients : TxOf[c] \in Txs /\ NumConfs[c] \in Nat
  /\ ConfClients \cap SpendClients = {} /\ Outputs \subseteq ConfClients
  /\ \A o \in Outputs : /\ Delay[o] \in Nat /\ Delay[o] <= StartHeight
                        /\ NumConfs[o] = 1
  /\ StartHeight \in Nat /\ StartHeight >= 1
BY NotifierAssumption, NurseryAssumption, ChainAssumption

\* The indexed form of Head, Tail and Append.
LEMMA TailOf ==
  ASSUME NEW S, NEW q \in Seq(S), q # <<>>
  PROVE  /\ Head(q) = q[1] /\ Head(q) \in S
         /\ Tail(q) \in Seq(S) /\ Len(q) >= 1 /\ Len(Tail(q)) = Len(q) - 1
         /\ \A i \in 1..Len(Tail(q)) : Tail(q)[i] = q[i + 1]
OBVIOUS

LEMMA AppendOf ==
  ASSUME NEW S, NEW q \in Seq(S), NEW e \in S
  PROVE  /\ Append(q, e) \in Seq(S) /\ Len(Append(q, e)) = Len(q) + 1
         /\ \A i \in 1..Len(q) : Append(q, e)[i] = q[i]
         /\ Append(q, e)[Len(q) + 1] = e
OBVIOUS

(***************************************************************************)
(* A transaction is mined once: the height of one in a block stays.        *)
(***************************************************************************)
LEMMA MinedOnce ==
  ASSUME NotifierTypes, NEW ts, NEW w, BlockConnected(ts, w)
  PROVE  /\ minedAt' \in [Txs -> Nat]
         /\ \A t \in Txs : minedAt[t] # 0 => minedAt'[t] = minedAt[t]
         /\ \A t \in Txs : minedAt'[t] # minedAt[t] => minedAt'[t] = height + 1
BY DEF NotifierTypes, BlockConnected

\* Initially there is nothing to know.
LEMMA InitIInv == Init => IInv
<1> SUFFICES ASSUME Init PROVE IInv
  OBVIOUS
<1> USE Constants DEF Init, NotifierInit
<1>1. NotifierTypes /\ QueueInOrder
  BY DEF NotifierTypes, QueueInOrder, Dequeued
<1>2. RegistryFresh /\ HeapExact /\ DispatcherNeverBlocks /\ ConfirmedOnTime
  BY DEF RegistryFresh, HeapExact, DispatcherNeverBlocks, ConfirmedOnTime
<1>3. PeerFresh
  BY DEF PeerFresh, Unserved
<1>4. EpochsAfterStart /\ StagesTrue /\ SweepsMature
  BY DEF EpochsAfterStart, StagesTrue, SweepsMature
<1> QED
  BY <1>1, <1>2, <1>3, <1>4 DEF IInv, NotifierInv, NurseryInv

-----------------------------------------------------------------------------
(***************************************************************************)
(* The notifier: one lemma per action.                                     *)
(***************************************************************************)
\* The chain grows: the answers given stay right, the new block is queued.
LEMMA BlockNotifier ==
  ASSUME NotifierInv, NEW ts, NEW w \in BOOLEAN, BlockConnected(ts, w)
  PROVE  NotifierInv'
<1> USE Constants DEF NotifierInv, NotifierTypes, BlockConnected, tables,
      clients, epochVars
<1>1. /\ minedAt' \in [Txs -> Nat]
      /\ \A t \in Txs : minedAt[t] # 0 => minedAt'[t] = minedAt[t]
      /\ \A t \in Txs : minedAt'[t] # minedAt[t] => minedAt'[t] = height + 1
  BY MinedOnce
<1>2. /\ connected' \in Seq(Nat) /\ Len(connected') = Len(connected) + 1
      /\ \A i \in 1..Len(connected) : connected'[i] = connected[i]
      /\ connected'[Len(connected) + 1] = height + 1
  BY AppendOf
<1>3. NotifierTypes' /\ Dequeued' = Dequeued /\ Dequeued \in Int
      /\ Dequeued <= height
  BY <1>1, <1>2 DEF Dequeued
<1>4. QueueInOrder'
  <2>1. ASSUME NEW i \in 1..Len(connected')
        PROVE  connected'[i] = Dequeued + i
    <3>1. CASE i \in 1..Len(connected)
      BY <1>2, <3>1 DEF QueueInOrder
    <3>2. CASE i = Len(connected) + 1
      BY <1>2, <3>2 DEF Dequeued
    <3> QED
      BY <1>2, <3>1, <3>2
  <2> QED
    BY <1>3, <2>1 DEF QueueInOrder
<1>5. RegistryFresh' /\ DispatcherNeverBlocks'
  BY DEF RegistryFresh, Unserved, DispatcherNeverBlocks
<1>6. HeapExact'
  BY <1>1 DEF HeapExact
<1>7. ConfirmedOnTime'
  <2>1. \A c \in ConfClients : confirmed'[c] # 0 =>
          /\ minedAt'[TxOf[c]] # 0
          /\ confirmed'[c] >= minedAt'[TxOf[c]] + NumConfs[c] - 1
    BY <1>1 DEF ConfirmedOnTime
  <2>2. \A e \in confHeap' :
          minedAt'[TxOf[e[1]]] + NumConfs[e[1]] - 1 > handled'
    BY <1>1 DEF ConfirmedOnTime, HeapExact
  <2>3. \A c \in confNotifications' \ late' : minedAt'[TxOf[c]] \notin 1..Dequeued'
    BY <1>1, <1>3 DEF ConfirmedOnTime
  <2>4. \A c \in spendNotifications' \ late' :
          spent' = "mined" => relevantTxs' > 0
    BY DEF ConfirmedOnTime, RegistryFresh
  <2> QED
    BY <2>1, <2>2, <2>3, <2>4 DEF ConfirmedOnTime
<1> QED
  BY <1>3, <1>4, <1>5, <1>6, <1>7

\* The chain and the registry may change around what the dispatcher holds.
LEMMA SpendSeenNotifier ==
  ASSUME NotifierInv, SpendSeen
  PROVE  NotifierInv'
BY Constants DEF NotifierInv, NotifierTypes, SpendSeen, tables, clients,
   epochVars, QueueInOrder, Dequeued, RegistryFresh, Unserved, HeapExact,
   DispatcherNeverBlocks, ConfirmedOnTime

\* A client registers that the dispatcher knows nothing of.
LEMMA RegisterConfNotifier ==
  ASSUME NotifierInv, NEW c \in ConfClients, Unserved(c),
         RegisterConfirmationsNtfn(c)
  PROVE  NotifierInv'
BY Constants DEF NotifierInv, NotifierTypes, RegisterConfirmationsNtfn, chain,
   tables, clients, epochVars, QueueInOrder, Dequeued, RegistryFresh, Unserved,
   HeapExact, DispatcherNeverBlocks, ConfirmedOnTime

LEMMA RegisterSpendNotifier ==
  ASSUME NotifierInv, NEW c \in SpendClients,
         c \notin spendNotifications \cup told, RegisterSpendNtfn(c)
  PROVE  NotifierInv'
BY Constants DEF NotifierInv, NotifierTypes, RegisterSpendNtfn, tables, clients,
   epochVars, QueueInOrder, Dequeued, RegistryFresh, Unserved, HeapExact,
   DispatcherNeverBlocks, ConfirmedOnTime

LEMMA TakeConfNotifier ==
  ASSUME NotifierInv, NEW c \in ConfClients, TakeConf(c)
  PROVE  NotifierInv'
BY Constants DEF NotifierInv, NotifierTypes, TakeConf, chain, clients,
   epochVars, QueueInOrder, Dequeued, RegistryFresh, Unserved, HeapExact,
   DispatcherNeverBlocks, ConfirmedOnTime

LEMMA TakeSpendNotifier ==
  ASSUME NotifierInv, NEW c \in SpendClients, TakeSpend(c)
  PROVE  NotifierInv'
BY Constants DEF NotifierInv, NotifierTypes, TakeSpend, chain, clients,
   epochVars, QueueInOrder, Dequeued, RegistryFresh, Unserved, HeapExact,
   DispatcherNeverBlocks, ConfirmedOnTime

LEMMA NotifySpendNotifier ==
  ASSUME NotifierInv, NotifySpend
  PROVE  NotifierInv'
BY Constants DEF NotifierInv, NotifierTypes, NotifySpend, Served, chain,
   epochVars, QueueInOrder, Dequeued, RegistryFresh, Unserved, HeapExact,
   DispatcherNeverBlocks, ConfirmedOnTime

\* The head of the queue is the block after the last one taken.
LEMMA NextBlock ==
  ASSUME NotifierInv, connected # <<>>, connected' = Tail(connected),
         height' = height
  PROVE  /\ Head(connected) \in Nat /\ Head(connected) = Dequeued + 1
         /\ Head(connected) > StartHeight /\ Dequeued \in Nat
         /\ connected' \in Seq(Nat) /\ Dequeued' = Dequeued + 1 /\ QueueInOrder'
<1>1. /\ Head(connected) = connected[1] /\ Head(connected) \in Nat
      /\ connected' \in Seq(Nat) /\ Len(connected) >= 1
      /\ Len(connected') = Len(connected) - 1
      /\ \A i \in 1..Len(connected') : connected'[i] = connected[i + 1]
  BY TailOf DEF NotifierInv, NotifierTypes
<1>2. Dequeued \in Nat /\ Dequeued' = Dequeued + 1 /\ Len(connected) \in Nat
  BY <1>1, Constants DEF NotifierInv, NotifierTypes, QueueInOrder, Dequeued
<1>3. Head(connected) = Dequeued + 1 /\ Head(connected) > StartHeight
  BY <1>1, <1>2, Constants DEF NotifierInv, QueueInOrder
<1>4. QueueInOrder'
  <2>1. Dequeued' >= StartHeight
    BY <1>2, Constants DEF NotifierInv, QueueInOrder
  <2>2. ASSUME NEW i \in 1..Len(connected')
        PROVE  connected'[i] = Dequeued' + i
    <3>1. i + 1 \in 1..Len(connected) /\ connected'[i] = connected[i + 1]
      BY <1>1, <1>2
    <3> QED
      BY <3>1, <1>2 DEF NotifierInv, QueueInOrder
  <2> QED
    BY <2>1, <2>2 DEF QueueInOrder
<1> QED
  BY <1>1, <1>2, <1>3, <1>4

\* The clients of a skipped block count as late.
LEMMA SkipBlockNotifier ==
  ASSUME NotifierInv, SkipBlock
  PROVE  NotifierInv'
<1>1. /\ Head(connected) = Dequeued + 1 /\ Dequeued \in Nat
      /\ connected' \in Seq(Nat) /\ Dequeued' = Dequeued + 1 /\ QueueInOrder'
  BY NextBlock DEF SkipBlock, chain
<1>2. NotifierTypes' /\ RegistryFresh' /\ HeapExact' /\ DispatcherNeverBlocks'
  BY <1>1 DEF NotifierInv, NotifierTypes, RegistryFresh, Unserved, HeapExact,
     DispatcherNeverBlocks, SkipBlock, chain, tables, clients, epochVars
<1>3. ConfirmedOnTime'
  BY <1>1, Constants DEF NotifierInv, NotifierTypes, ConfirmedOnTime, SkipBlock,
     chain, tables, clients, epochVars
<1> QED
  BY <1>1, <1>2, <1>3 DEF NotifierInv

(***************************************************************************)
(* The dispatcher serves block h.  A client of the block leaves the map    *)
(* for an answer or for one entry of the heap; the heap keeps the entries  *)
(* that are due later, whose clients have no entry that is due now.        *)
(***************************************************************************)
LEMMA NotifyBlockNotifier ==
  ASSUME NotifierInv, NotifyBlock
  PROVE  NotifierInv'
<1> DEFINE h == Head(connected)
           included == {c \in confNotifications : minedAt[TxOf[c]] = h}
           single == {c \in included : NumConfs[c] = 1}
           heap == confHeap \cup {<<c, TriggerHeight(h, NumConfs[c])>> :
                                    c \in included \ single}
           due == {e \in heap : e[2] <= h}
           answered == single \cup {e[1] : e \in due}
<1>1. /\ h \in Nat /\ h = Dequeued + 1 /\ h >= 1 /\ Dequeued \in Nat
      /\ connected' \in Seq(Nat) /\ Dequeued' = h /\ QueueInOrder'
  BY NextBlock, Constants, SMTT(30) DEF NotifyBlock, chain
<1>2. /\ confNotifications' = confNotifications \ included
      /\ confHeap' = heap \ due
      /\ confirmed' = [c \in ConfClients |->
                         IF c \in answered THEN h ELSE confirmed[c]]
      /\ handled' = h
      /\ minedAt' = minedAt /\ height' = height /\ spent' = spent
      /\ watched' = watched
      /\ UNCHANGED <<relevantTxs, registry, spendNotifications, told, late>>
  BY DEF NotifyBlock, connectBlock, Remaining, chain
<1>3. \A e \in heap : \/ e \in confHeap
                      \/ \E c \in included : /\ NumConfs[c] # 1
                                             /\ e = <<c, h + NumConfs[c] - 1>>
  BY DEF TriggerHeight
<1> HIDE DEF h
<1>4. /\ heap \subseteq ConfClients \X Int
      /\ \A e \in heap : /\ minedAt[TxOf[e[1]]] # 0
                         /\ e[2] = minedAt[TxOf[e[1]]] + NumConfs[e[1]] - 1
  <2>1. ASSUME NEW e \in heap
        PROVE  /\ e \in ConfClients \X Int /\ minedAt[TxOf[e[1]]] # 0
               /\ e[2] = minedAt[TxOf[e[1]]] + NumConfs[e[1]] - 1
    <3>1. CASE e \in confHeap
      BY <3>1 DEF NotifierInv, NotifierTypes, HeapExact
    <3>2. CASE \E c \in included : NumConfs[c] # 1 /\ e = <<c, h + NumConfs[c] - 1>>
      BY <3>2, <1>1, Constants DEF NotifierInv, NotifierTypes
    <3> QED
      BY <1>3, <3>1, <3>2
  <2> QED
    BY <2>1
<1>5. /\ \A e \in heap : e[1] \notin confNotifications' /\ e[1] \notin single
      /\ \A e \in heap : confirmed[e[1]] = 0
      /\ \A e, f \in heap : e[1] = f[1] => e = f
  <2>1. ASSUME NEW e \in heap
        PROVE  /\ e[1] \notin confNotifications' /\ e[1] \notin single
               /\ confirmed[e[1]] = 0
               /\ e[1] \in confNotifications <=> e \notin confHeap
    <3>1. CASE e \in confHeap
      BY <3>1, <1>2 DEF NotifierInv, DispatcherNeverBlocks
    <3>2. CASE \E c \in included : NumConfs[c] # 1 /\ e = <<c, h + NumConfs[c] - 1>>
      BY <3>2, <1>2 DEF NotifierInv, DispatcherNeverBlocks
    <3> QED
      BY <1>3, <3>1, <3>2
  <2>2. ASSUME NEW e \in heap, NEW f \in heap, e[1] = f[1]
        PROVE  e = f
    <3>1. CASE e \in confHeap
      BY <3>1, <2>1, <2>2 DEF NotifierInv, HeapExact
    <3>2. CASE e \notin confHeap
      <4>1. f \notin confHeap
        BY <3>2, <2>1, <2>2, SMTT(30)
      <4> QED
        BY <3>2, <4>1, <2>2, <1>3
    <3> QED
      BY <3>1, <3>2
  <2> QED
    BY <2>1, <2>2
<1>6. /\ \A c \in confNotifications' : c \notin answered
      /\ \A e \in confHeap' : e[1] \notin answered
      /\ \A c \in registry \cap ConfClients : c \notin answered
                                              /\ \A e \in heap : e[1] # c
  <2>1. \A c \in confNotifications' : c \notin answered
    BY <1>2, <1>5, SMTT(30)
  <2>2. \A e \in confHeap' : e[1] \notin answered
    BY <1>2, <1>5
  <2>3. ASSUME NEW c \in registry \cap ConfClients
        PROVE  c \notin answered /\ \A e \in heap : e[1] # c
    <3>1. c \notin confNotifications /\ \A e \in confHeap : e[1] # c
      BY DEF NotifierInv, RegistryFresh, Unserved
    <3>2. \A e \in heap : e[1] # c
      BY <3>1, <1>3
    <3> QED
      BY <3>1, <3>2
  <2> QED
    BY <2>1, <2>2, <2>3, SMTT(30)
<1>7. /\ answered \subseteq ConfClients
      /\ \A c \in answered : /\ minedAt[TxOf[c]] # 0
                             /\ h >= minedAt[TxOf[c]] + NumConfs[c] - 1
  <2>1. \A c \in single : /\ c \in ConfClients /\ minedAt[TxOf[c]] # 0
                          /\ h >= minedAt[TxOf[c]] + NumConfs[c] - 1
    BY <1>1 DEF NotifierInv, NotifierTypes
  <2>2. \A e \in due : /\ e[1] \in ConfClients /\ minedAt[TxOf[e[1]]] # 0
                       /\ h >= minedAt[TxOf[e[1]]] + NumConfs[e[1]] - 1
    <3> SUFFICES ASSUME NEW e \in due
                 PROVE  /\ e[1] \in ConfClients /\ minedAt[TxOf[e[1]]] # 0
                        /\ h >= minedAt[TxOf[e[1]]] + NumConfs[e[1]] - 1
      OBVIOUS
    <3>1. e \in heap /\ e[2] <= h
      OBVIOUS
    <3> HIDE DEF heap, due
    <3>2. /\ e[1] \in ConfClients /\ e[2] \in Int /\ minedAt[TxOf[e[1]]] # 0
          /\ e[2] = minedAt[TxOf[e[1]]] + NumConfs[e[1]] - 1
      BY <3>1, <1>4
    <3> QED
      BY <3>1, <3>2, <1>1
  <2> QED
    BY <2>1, <2>2
<1> HIDE DEF single, heap, due, answered
<1>8. confHeap' \subseteq heap /\ \A e \in confHeap' : e[2] > h
  BY <1>1, <1>2, <1>4 DEF due
<1>9. NotifierTypes'
  BY <1>1, <1>2, <1>4, <1>8 DEF NotifierInv, NotifierTypes
<1>10. RegistryFresh'
  BY <1>2, <1>6, <1>8 DEF NotifierInv, RegistryFresh, Unserved
<1>11. HeapExact'
  BY <1>2, <1>4, <1>5, <1>8 DEF HeapExact
<1>12. DispatcherNeverBlocks'
  <2>1. \A c \in confNotifications' : confirmed'[c] = 0
    BY <1>2, <1>6, <1>9 DEF NotifierInv, NotifierTypes, DispatcherNeverBlocks
  <2>2. \A e \in confHeap' : confirmed'[e[1]] = 0 /\ e[1] \notin confNotifications'
    BY <1>2, <1>4, <1>5, <1>6, <1>8, SMTT(30)
  <2> QED
    BY <1>2, <2>1, <2>2 DEF NotifierInv, DispatcherNeverBlocks
<1>13. ConfirmedOnTime'
  <2>1. \A c \in ConfClients : confirmed'[c] # 0 =>
          /\ minedAt'[TxOf[c]] # 0
          /\ confirmed'[c] >= minedAt'[TxOf[c]] + NumConfs[c] - 1
    BY <1>2, <1>7 DEF NotifierInv, ConfirmedOnTime
  <2>2. \A e \in confHeap' :
          minedAt'[TxOf[e[1]]] + NumConfs[e[1]] - 1 > handled'
    BY <1>2, <1>4, <1>8
  <2>3. \A c \in confNotifications' \ late' : minedAt'[TxOf[c]] \notin 1..Dequeued'
    BY <1>1, <1>2, Constants DEF NotifierInv, NotifierTypes, ConfirmedOnTime
  <2> QED
    BY <1>2, <2>1, <2>2, <2>3, SMTT(30) DEF NotifierInv, ConfirmedOnTime
<1> QED
  BY <1>1, <1>9, <1>10, <1>11, <1>12, <1>13 DEF NotifierInv

\* What the other goroutines do leaves the notifier's part alone.
LEMMA SameNotifier ==
  ASSUME NotifierInv,
         UNCHANGED <<height, minedAt, spent, watched, connected, relevantTxs,
                     registry, confNotifications, confHeap, spendNotifications,
                     confirmed, told, handled, late>>
  PROVE  NotifierInv'
BY SMTT(30) DEF NotifierInv, NotifierTypes, QueueInOrder, Dequeued,
   RegistryFresh,
   Unserved, HeapExact, DispatcherNeverBlocks, ConfirmedOnTime

-----------------------------------------------------------------------------
(***************************************************************************)
(* The nursery: what preserves each part of its invariant when the step is *)
(* not one of that part's own.                                             *)
(***************************************************************************)
\* Clients unknown to the dispatcher stay so, and none is registered.
LEMMA PeerStays ==
  ASSUME PeerFresh, UNCHANGED <<closing, requests>>, published \subseteq published',
         \A o \in Outputs : o \in registry' => o \in registry,
         \A o \in Outputs : o \notin registry /\ Unserved(o) => Unserved(o)'
  PROVE  PeerFresh'
BY DEF PeerFresh

LEMMA EpochsStay ==
  ASSUME EpochsAfterStart, UNCHANGED epochVars
  PROVE  EpochsAfterStart'
BY SMTT(30) DEF EpochsAfterStart, epochVars

\* Mined transactions keep their height.
LEMMA StagesStay ==
  ASSUME StagesTrue, SweepsMature, UNCHANGED <<watching, midStage, staged, tried>>,
         \A t \in Txs : minedAt[t] # 0 => minedAt'[t] = minedAt[t]
  PROVE  StagesTrue' /\ SweepsMature'
<1>1. \A o \in Outputs : TxOf[o] \in Txs
  BY Constants, ZenonT(30)
<1>2. StagesTrue'
  BY <1>1 DEF StagesTrue
<1>3. SweepsMature'
  BY <1>1, SMTT(30) DEF StagesTrue, SweepsMature
<1> QED
  BY <1>2, <1>3, SMTT(30)

\* A client that is not of this block stays unknown to the dispatcher.
LEMMA NotifyBlockUnserved ==
  ASSUME NotifierInv, NotifyBlock, NEW c \in ConfClients, Unserved(c)
  PROVE  Unserved(c)'
BY DEF NotifyBlock, connectBlock, Remaining, Unserved

-----------------------------------------------------------------------------
(***************************************************************************)
(* The steps of the peer and of the incubator.                             *)
(***************************************************************************)
LEMMA ForceCloseStep ==
  ASSUME IInv, NEW o \in Outputs, executeForceClose(o)
  PROVE  IInv'
<1> USE DEF IInv, NurseryInv, executeForceClose, notifier
<1>1. NotifierInv'
  BY SameNotifier DEF queues, tables, clients
<1>2. PeerFresh'
  BY DEF PeerFresh, Unserved, queues, tables, clients
<1>3. EpochsAfterStart' /\ StagesTrue' /\ SweepsMature'
  BY EpochsStay, StagesStay
<1> QED
  BY <1>1, <1>2, <1>3

LEMMA IncubateStep ==
  ASSUME IInv, NEW o \in Outputs, incubateOutputs(o)
  PROVE  IInv'
<1> USE DEF IInv, NurseryInv, incubateOutputs, notifier, chain
<1>1. NotifierInv'
  BY SameNotifier DEF queues, tables, clients
<1>2. PeerFresh'
  BY DEF PeerFresh, Unserved, queues, tables, clients
<1>3. EpochsAfterStart' /\ StagesTrue' /\ SweepsMature'
  BY EpochsStay, StagesStay
<1> QED
  BY <1>1, <1>2, <1>3

\* The output leaves the requests for the registry; it is published.
LEMMA EarlyStageStep ==
  ASSUME IInv, NEW o \in Outputs, EarlyStage(o)
  PROVE  IInv'
<1> USE DEF IInv, NurseryInv, EarlyStage
<1>1. Unserved(o) /\ TxOf[o] \in published /\ o \notin closing
  BY DEF PeerFresh
<1>2. NotifierInv'
  BY <1>1, RegisterConfNotifier, Constants
<1>3. PeerFresh'
  BY <1>1 DEF PeerFresh, Unserved, RegisterConfirmationsNtfn, chain, tables,
     clients
<1>4. EpochsAfterStart' /\ StagesTrue' /\ SweepsMature'
  BY EpochsStay, StagesStay DEF RegisterConfirmationsNtfn, chain
<1> QED
  BY <1>2, <1>3, <1>4

\* A client leaves the registry for the dispatcher's map.
LEMMA TakeConfPeer ==
  ASSUME IInv, NEW c \in ConfClients, TakeConf(c), UNCHANGED <<closing, requests>>
  PROVE  PeerFresh' /\ EpochsAfterStart'
<1>1. PeerFresh'
  BY PeerStays, SMTT(30) DEF IInv, NurseryInv, TakeConf, Unserved, chain, clients
<1>2. EpochsAfterStart'
  BY EpochsStay DEF IInv, NurseryInv, TakeConf
<1> QED
  BY <1>1, <1>2, SMTT(30)

LEMMA RegisteredStep ==
  ASSUME IInv, NEW o \in Outputs, Registered(o)
  PROVE  IInv'
<1> USE DEF IInv, NurseryInv, Registered
<1>1. NotifierInv'
  BY TakeConfNotifier, Constants
<1>2. PeerFresh' /\ EpochsAfterStart'
  BY TakeConfPeer, Constants, SMTT(30)
<1>3. StagesTrue' /\ SweepsMature'
  BY DEF TakeConf, chain, StagesTrue, SweepsMature
<1> QED
  BY <1>1, <1>2, <1>3

\* A height that is not 0 is an answer, and answers are not early.
LEMMA WatcherStep ==
  ASSUME IInv, NEW o \in Outputs, Watcher(o)
  PROVE  IInv'
<1> USE DEF IInv, NurseryInv, Watcher, notifier, chain
<1>1. NotifierInv'
  BY SameNotifier, SMTT(30) DEF queues, tables, clients
<1>2. PeerFresh' /\ EpochsAfterStart'
  BY PeerStays, EpochsStay DEF Unserved, queues, tables, clients
<1>3. /\ confirmed[o] \in Nat
      /\ confirmed[o] # 0 => /\ minedAt[TxOf[o]] # 0
                             /\ confirmed[o] >= minedAt[TxOf[o]]
  <2>1. minedAt[TxOf[o]] \in Nat /\ NumConfs[o] = 1 /\ o \in ConfClients
        /\ confirmed[o] \in Nat
    BY Constants, SMTT(30) DEF NotifierInv, NotifierTypes
  <2> QED
    BY <2>1 DEF NotifierInv, ConfirmedOnTime
<1>4. StagesTrue' /\ SweepsMature'
  BY <1>3 DEF StagesTrue, SweepsMature
<1> QED
  BY <1>1, <1>2, <1>4

LEMMA MidStageStep ==
  ASSUME IInv, NEW m \in midStage, MidStage(m)
  PROVE  IInv'
<1> USE DEF IInv, NurseryInv, MidStage, notifier, chain
<1>1. NotifierInv'
  BY SameNotifier DEF queues, tables, clients
<1>2. PeerFresh' /\ EpochsAfterStart'
  BY PeerStays, EpochsStay, SMTT(30) DEF Unserved, queues, tables, clients
<1>3. /\ m[1] \in Outputs /\ m[2] \in Nat /\ maturityHeight(m) \in Nat
      /\ \/ maturityHeight(m) <= StartHeight
         \/ /\ minedAt[TxOf[m[1]]] # 0
            /\ maturityHeight(m) >= minedAt[TxOf[m[1]]] + Delay[m[1]]
  <2>1. /\ m[1] \in Outputs /\ m[2] \in Nat /\ Delay[m[1]] \in Nat
        /\ Delay[m[1]] <= StartHeight /\ minedAt[TxOf[m[1]]] \in Nat
    BY Constants, SMTT(30) DEF StagesTrue, NotifierInv, NotifierTypes
  <2>2. m[2] # 0 => minedAt[TxOf[m[1]]] # 0 /\ m[2] >= minedAt[TxOf[m[1]]]
    BY SMTT(30) DEF StagesTrue
  <2> QED
    BY <2>1, <2>2, SMTT(30) DEF maturityHeight
<1>4. StagesTrue'
  BY <1>3, SMTT(30) DEF StagesTrue
<1>5. SweepsMature'
  BY ZenonT(30) DEF SweepsMature
<1> QED
  BY <1>1, <1>2, <1>4, <1>5

\* The outputs of an epoch are staged at its height, which is after the start.
LEMMA EpochStep ==
  ASSUME IInv, Epoch
  PROVE  IInv'
<1> USE DEF IInv, NurseryInv
<1>1. NotifierInv'
  BY SameNotifier DEF Epoch, chain, queues, tables, clients
<1>2. PeerFresh'
  BY PeerStays DEF Epoch, Unserved, chain, queues, tables, clients
<1>3. /\ Head(epochs) \in Nat /\ Head(epochs) > StartHeight
      /\ EpochsAfterStart'
  <2>1. /\ Head(epochs) = epochs[1] /\ Head(epochs) \in Nat
        /\ epochs' \in Seq(Nat) /\ Len(epochs) >= 1
        /\ Len(epochs') = Len(epochs) - 1
        /\ \A i \in 1..Len(epochs') : epochs'[i] = epochs[i + 1]
    BY TailOf DEF EpochsAfterStart, Epoch
  <2>2. Len(epochs) \in Nat /\ Len(epochs') \in Nat
    BY <2>1 DEF EpochsAfterStart
  <2>3. Head(epochs) > StartHeight
    BY <2>1, <2>2 DEF EpochsAfterStart
  <2>4. ASSUME NEW i \in 1..Len(epochs')
        PROVE  epochs'[i] > StartHeight
    <3>1. i + 1 \in 1..Len(epochs) /\ epochs'[i] = epochs[i + 1]
      BY <2>1, <2>2
    <3> QED
      BY <3>1 DEF EpochsAfterStart
  <2>5. epochSenders' = epochSenders
    BY DEF Epoch
  <2> QED
    BY <2>1, <2>3, <2>4, <2>5 DEF EpochsAfterStart
<1>4. PICK ok \in BOOLEAN : Sweep(Head(epochs), ok)
  BY SMTT(30) DEF Epoch
<1>5. /\ staged' \subseteq staged /\ minedAt' = minedAt
      /\ UNCHANGED <<watching, midStage>>
  BY <1>4, SMTT(30) DEF Sweep, Kept, Epoch, chain
<1>6. ASSUME NEW x \in Mature(Head(epochs))
      PROVE  /\ x[1] \in Outputs /\ minedAt[TxOf[x[1]]] # 0
             /\ Head(epochs) >= minedAt[TxOf[x[1]]] + Delay[x[1]]
  <2>1. x \in staged /\ x[2] = Head(epochs) /\ x[1] \in Outputs
    BY DEF Mature, StagesTrue
  <2>2. ~(x[2] <= StartHeight)
    BY <1>3, <2>1, Constants
  <2> QED
    BY <2>1, <2>2 DEF StagesTrue
<1>7. \A t \in tried' : \/ t \in tried
                        \/ \E x \in Mature(Head(epochs)) : t = <<x[1], Head(epochs)>>
  BY <1>4, SMTT(30) DEF Sweep
<1>8. StagesTrue'
  BY <1>3, <1>5, <1>6, <1>7, SMTT(30) DEF StagesTrue
<1>9. SweepsMature'
  BY <1>5, <1>6, <1>7 DEF SweepsMature
<1> QED
  BY <1>1, <1>2, <1>3, <1>8, <1>9

(***************************************************************************)
(* The steps of the chain, the dispatcher and the other clients.           *)
(***************************************************************************)
LEMMA BlockStep ==
  ASSUME IInv, Block
  PROVE  IInv'
<1> USE DEF IInv, NurseryInv, Block
<1>1. PICK ts \in SUBSET published, w \in BOOLEAN : BlockConnected(ts, w)
  OBVIOUS
<1>2. NotifierInv'
  BY <1>1, BlockNotifier, SMTT(30)
<1>3. PeerFresh' /\ EpochsAfterStart'
  BY <1>1, PeerStays, EpochsStay DEF BlockConnected, Unserved, tables, clients
<1>4. StagesTrue' /\ SweepsMature'
  BY <1>1, MinedOnce, StagesStay DEF NotifierInv
<1> QED
  BY <1>2, <1>3, <1>4

LEMMA FailedGetBlockStep ==
  ASSUME IInv, FailedGetBlock
  PROVE  IInv'
<1> USE DEF IInv, NurseryInv, FailedGetBlock
<1>1. NotifierInv'
  BY SkipBlockNotifier, SMTT(30)
<1>2. PeerFresh' /\ EpochsAfterStart'
  BY PeerStays, EpochsStay, SMTT(30) DEF SkipBlock, Unserved, chain, tables,
     clients
<1>3. StagesTrue' /\ SweepsMature'
  BY StagesStay DEF SkipBlock, chain
<1> QED
  BY <1>1, <1>2, <1>3

LEMMA DispatcherStep ==
  ASSUME IInv, Dispatcher
  PROVE  IInv'
<1> USE DEF IInv, NurseryInv
<1>1. UNCHANGED <<closing, requests, watching, midStage, staged, tried>>
  BY DEF Dispatcher, nursery
<1>2. UNCHANGED minedAt => StagesTrue' /\ SweepsMature'
  BY <1>1, StagesStay
<1>3. CASE NotifyBlock
  <2>1. NotifierInv'
    BY <1>3, NotifyBlockNotifier
  <2>2. \A o \in Outputs : Unserved(o) => Unserved(o)'
    BY <1>3, NotifyBlockUnserved, Constants
  <2>3. PeerFresh'
    BY <1>1, <1>3, <2>2, PeerStays DEF NotifyBlock, chain
  <2>4. EpochsAfterStart'
    <3>1. Head(connected) \in Nat /\ Head(connected) > StartHeight
      BY <1>3, NextBlock, SMTT(30) DEF NotifyBlock, chain
    <3>2. epochSenders' = epochSenders \cup {Head(connected)} /\ epochs' = epochs
      BY <1>3 DEF NotifyBlock, connectBlock
    <3> QED
      BY <3>1, <3>2, ZenonT(30) DEF EpochsAfterStart
  <2> QED
    BY <1>2, <1>3, <2>1, <2>3, <2>4 DEF NotifyBlock, chain
<1>4. CASE NotifySpend
  <2>1. NotifierInv'
    BY <1>4, NotifySpendNotifier
  <2>2. PeerFresh' /\ EpochsAfterStart'
    BY <1>1, <1>4, PeerStays, EpochsStay, SMTT(30) DEF NotifySpend, Unserved,
       chain
  <2> QED
    BY <1>2, <1>4, <2>1, <2>2 DEF NotifySpend, chain
<1>5. ASSUME NEW c \in ConfClients \ Outputs, TakeConf(c)
      PROVE  IInv'
  BY <1>1, <1>2, <1>5, TakeConfNotifier, TakeConfPeer DEF TakeConf, chain
<1>6. ASSUME NEW c \in SpendClients, TakeSpend(c)
      PROVE  IInv'
  <2>1. NotifierInv'
    BY <1>6, TakeSpendNotifier, SMTT(30)
  <2>2. PeerFresh' /\ EpochsAfterStart'
    BY <1>1, <1>6, PeerStays, EpochsStay, ZenonT(30) DEF TakeSpend, Unserved,
       chain, clients
  <2> QED
    BY <1>2, <1>6, <2>1, <2>2 DEF TakeSpend, chain
<1>7. ASSUME NEW h \in epochSenders, notifyBlockEpochs(h)
      PROVE  IInv'
  <2>1. NotifierInv'
    BY <1>7, SameNotifier, SMTT(30) DEF notifyBlockEpochs, chain, queues,
       tables, clients
  <2>2. PeerFresh'
    BY <1>1, <1>7, PeerStays, ZenonT(30) DEF notifyBlockEpochs, Unserved,
       chain, queues,
       tables, clients
  <2>3. EpochsAfterStart'
    <3>1. h \in Nat /\ h > StartHeight /\ epochs \in Seq(Nat)
      BY DEF EpochsAfterStart
    <3>2. CASE epochs' = epochs
      BY <1>7, <3>2 DEF EpochsAfterStart, notifyBlockEpochs
    <3>3. CASE epochs' = Append(epochs, h)
      <4>1. /\ epochs' \in Seq(Nat) /\ Len(epochs') = Len(epochs) + 1
            /\ \A i \in 1..Len(epochs) : epochs'[i] = epochs[i]
            /\ epochs'[Len(epochs) + 1] = h
        BY <3>1, <3>3, AppendOf
      <4>2. \A i \in 1..Len(epochs') : epochs'[i] > StartHeight
        <5> SUFFICES ASSUME NEW i \in 1..Len(epochs')
                     PROVE  epochs'[i] > StartHeight
          OBVIOUS
        <5>1. Len(epochs) \in Nat /\ (i \in 1..Len(epochs) \/ i = Len(epochs) + 1)
          BY <3>1, <4>1
        <5> QED
          BY <3>1, <4>1, <5>1, SMTT(30) DEF EpochsAfterStart
      <4> QED
        BY <1>7, <4>1, <4>2 DEF EpochsAfterStart, notifyBlockEpochs
    <3> QED
      BY <1>7, <3>2, <3>3 DEF notifyBlockEpochs, Sent
  <2> QED
    BY <1>2, <1>7, <2>1, <2>2, <2>3 DEF notifyBlockEpochs, chain
<1>8. CASE SpendSeen
  <2>1. NotifierInv'
    BY <1>8, SpendSeenNotifier
  <2>2. PeerFresh' /\ EpochsAfterStart'
    BY <1>1, <1>8, PeerStays, EpochsStay DEF SpendSeen, Unserved, tables, clients
  <2> QED
    BY <1>2, <1>8, <2>1, <2>2, SMTT(30) DEF SpendSeen
<1> QED
  BY <1>3, <1>4, <1>5, <1>6, <1>7, <1>8 DEF Dispatcher

LEMMA OtherClientStep ==
  ASSUME IInv, NEW c \in ConfClients \ Outputs, OtherClient(c)
  PROVE  IInv'
<1> USE DEF IInv, NurseryInv, OtherClient
<1>1. NotifierInv'
  BY RegisterConfNotifier, SMTT(30) DEF Unserved
<1>2. PeerFresh' /\ EpochsAfterStart'
  BY PeerStays, EpochsStay, SMTT(30) DEF RegisterConfirmationsNtfn, Unserved,
     chain, tables,
     clients, nursery
<1>3. StagesTrue' /\ SweepsMature'
  BY StagesStay DEF RegisterConfirmationsNtfn, chain, nursery
<1> QED
  BY <1>1, <1>2, <1>3

LEMMA ObserverStep ==
  ASSUME IInv, NEW c \in SpendClients, Observer(c)
  PROVE  IInv'
<1> USE DEF IInv, NurseryInv, Observer
<1>1. NotifierInv'
  BY RegisterSpendNotifier, SMTT(30)
<1>2. PeerFresh' /\ EpochsAfterStart'
  BY PeerStays, EpochsStay, Constants DEF RegisterSpendNtfn, Unserved, tables,
     clients, nursery
<1>3. StagesTrue' /\ SweepsMature'
  BY StagesStay DEF RegisterSpendNtfn, nursery
<1> QED
  BY <1>1, <1>2, <1>3

\* Steps after which nothing the invariant speaks of has changed, but for
\* transactions that have been published.
LEMMA QuietStep ==
  ASSUME IInv, published \subseteq published',
         UNCHANGED <<height, minedAt, spent, watched, queues, confNotifications,
                     confHeap, spendNotifications, clients, epochVars, handled,
                     late, closing, requests, watching, midStage, staged, tried>>
  PROVE  IInv'
<1> USE DEF IInv, NurseryInv, queues, clients
<1>1. NotifierInv'
  BY SameNotifier, SMTT(30)
<1>2. PeerFresh' /\ EpochsAfterStart'
  BY PeerStays, EpochsStay DEF Unserved
<1>3. StagesTrue' /\ SweepsMature'
  BY StagesStay
<1> QED
  BY <1>1, <1>2, <1>3

\* Every step of the system preserves the invariant.
LEMMA StepIInv == IInv /\ [Next]_vars => IInv'
<1> SUFFICES ASSUME IInv, [Next]_vars PROVE IInv'
  BY SMTT(30)
<1>1. CASE UNCHANGED vars
  BY <1>1, QuietStep DEF vars, chain, notifier, nursery, tables
<1>2. CASE RegisterEpochs
  BY <1>2, QuietStep DEF RegisterEpochs, TakeEpochClient, chain
<1>3. CASE StopNotifier
  BY <1>3, QuietStep DEF StopNotifier, Stop, chain, tables
<1>4. CASE StopNursery \/ IncubatorQuits
  BY <1>4, QuietStep, SMTT(30) DEF StopNursery, IncubatorQuits, chain,
     notifier, tables
<1>5. ASSUME NEW c \in ConfClients \ Outputs, OtherPublished(c)
      PROVE  IInv'
  BY <1>5, QuietStep DEF OtherPublished, notifier, nursery, tables
<1>6. CASE \/ \E o \in Outputs : \/ executeForceClose(o) \/ incubateOutputs(o)
                                 \/ EarlyStage(o) \/ Registered(o) \/ Watcher(o)
           \/ \E m \in midStage : MidStage(m)
           \/ Epoch
  BY <1>6, ForceCloseStep, IncubateStep, EarlyStageStep, RegisteredStep,
     WatcherStep, MidStageStep, EpochStep
<1>7. CASE Block \/ FailedGetBlock \/ Dispatcher
  BY <1>7, BlockStep, FailedGetBlockStep, DispatcherStep
<1>8. CASE \/ \E c \in ConfClients \ Outputs : OtherClient(c)
           \/ \E c \in SpendClients : Observer(c)
  BY <1>8, OtherClientStep, ObserverStep
<1> QED
  BY <1>1, <1>2, <1>3, <1>4, <1>5, <1>6, <1>7, <1>8 DEF Next

-----------------------------------------------------------------------------
(***************************************************************************)
(* The conjunction above is an inductive invariant of the notifier and the *)
(* nursery (btcdnotify's notificationDispatcher, the nursery's incubator). *)
(***************************************************************************)
THEOREM Invariance == Spec => []IInv
BY InitIInv, StepIInv, PTL DEF Spec

(***************************************************************************)
(* However many clients register, and in whatever order, the dispatcher    *)
(* never sends twice on a client's channel (checkConfirmationTrigger,      *)
(* notifyConfs and the spend case of notificationDispatcher).              *)
(***************************************************************************)
THEOREM NeverBlocks == Spec => []DispatcherNeverBlocks
<1>1. IInv => DispatcherNeverBlocks
  BY DEF IInv, NotifierInv
<1> QED
  BY <1>1, Invariance, PTL

(***************************************************************************)
(* For every number of confirmations, a client is answered neither early   *)
(* nor, unless it came late or its block was skipped, after the block of   *)
(* its last confirmation has been served (notifyConfs).                    *)
(***************************************************************************)
THEOREM AnswersOnTime == Spec => []ConfirmedOnTime
<1>1. IInv => ConfirmedOnTime
  BY DEF IInv, NotifierInv
<1> QED
  BY <1>1, Invariance, PTL

(***************************************************************************)
(* For every delay no longer than the chain was at the start, no sweep is  *)
(* attempted before its inputs are mature, also with epochs dropped or out *)
(* of order and with the notifier stopped (incubator's stagedOutputs).     *)
(***************************************************************************)
THEOREM NoEarlySweep == Spec => []SweepsMature
<1>1. IInv => SweepsMature
  BY DEF IInv, NurseryInv
<1> QED
  BY <1>1, Invariance, PTL
===============================================================================
