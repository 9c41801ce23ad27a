----------------------------- MODULE BtcdNotifier -----------------------------
(***************************************************************************)
(* chainntnfs/btcdnotify: the dispatcher goroutine that tells clients of   *)
(* confirmations, of spent outputs and of new blocks.                      *)
(*                                                                         *)
(* A client is a call of RegisterConfirmationsNtfn or RegisterSpendNtfn;   *)
(* it waits on the unbuffered notificationRegistry until the dispatcher    *)
(* takes its registration, and is answered on a channel of its own with    *)
(* room for one value.  The chain and btcd's callbacks are external: a     *)
(* block is queued in connectedBlockHashes when it is connected, a watched *)
(* spend is queued in relevantTxs when it is seen and again when it is     *)
(* mined.  The queues' bounds (20 and 100) exceed what MaxHeight allows.   *)
(***************************************************************************)
EXTENDS Integers, Sequences, FiniteSets

CONSTANTS
  Txs,            \* transactions of interest
  ConfClients,    \* calls of RegisterConfirmationsNtfn
  TxOf,           \* the transaction each of them waits for
  NumConfs,       \* the confirmations each of them asks for
  SpendClients,   \* calls of RegisterSpendNtfn, all for one outpoint
  EpochBuffer,    \* room in an epoch channel (20)
  StartHeight,    \* height of the chain when the notifier is started
  MaxHeight       \* bound on the height of the chain

\* A call registers for confirmations or for a spend, not for both.
ASSUME NotifierAssumption ==
  /\ ConfClients \cap SpendClients = {}
  /\ \A c \in ConfClients : TxOf[c] \in Txs /\ NumConfs[c] \in Nat
  /\ EpochBuffer \in Nat \ {0}
  /\ StartHeight \in Nat \ {0} /\ MaxHeight \in Nat

VARIABLES
  height, published, minedAt, spent,      \* the chain
  watched,                                \* NotifySpent has been called
  connected, relevantTxs, registry,       \* what waits for the dispatcher
  confNotifications, confHeap, spendNotifications, epochClient,
  confirmed, told,                        \* the clients' channels
  epochSenders, epochs,                   \* notifyBlockEpochs and its channel
  stopped,                                \* Stop has been called
  handled,                                \* history: last block served
  late      \* history: clients whose block or spend went by before they were
            \* registered, or whose block was skipped

chain == <<height, published, minedAt, spent, watched>>
queues == <<connected, relevantTxs, registry>>
tables == <<confNotifications, confHeap, spendNotifications, epochClient>>
clients == <<confirmed, told>>
epochVars == <<epochSenders, epochs>>
notifier == <<queues, tables, clients, epochVars, stopped, handled, late>>

NotifierInit ==
  /\ height = StartHeight /\ published = {} /\ minedAt = [t \in Txs |-> 0]
  /\ spent = "no" /\ watched = FALSE
  /\ connected = <<>> /\ relevantTxs = 0 /\ registry = {}
  /\ confNotifications = {} /\ confHeap = {} /\ spendNotifications = {}
  /\ epochClient = FALSE
  /\ confirmed = [c \in ConfClients |-> 0] /\ told = {}
  /\ epochSenders = {} /\ epochs = <<>>
  /\ stopped = FALSE
  /\ handled = StartHeight /\ late = {}

-----------------------------------------------------------------------------
(***************************************************************************)
(* External: the chain and the callbacks of btcd.  Once the notifier has   *)
(* stopped nothing listens to the chain, and it is not followed further.   *)
(***************************************************************************)
\* The last block the dispatcher has taken from its queue.
Dequeued == height - Len(connected)

\* A block with the transactions in ts, and possibly the watched spend.
BlockConnected(ts, withSpend) ==
  /\ height < MaxHeight /\ ~stopped
  /\ ts \subseteq {t \in published : minedAt[t] = 0}
  /\ withSpend => spent = "seen"
  /\ height' = height + 1
  /\ minedAt' = [t \in Txs |-> IF t \in ts THEN height + 1 ELSE minedAt[t]]
  /\ spent' = IF withSpend THEN "mined" ELSE spent
  /\ connected' = Append(connected, height + 1)
  /\ relevantTxs' = relevantTxs + (IF withSpend /\ watched THEN 1 ELSE 0)
  /\ UNCHANGED <<published, watched, registry, tables, clients, epochVars,
                 stopped, handled, late>>

\* The outpoint of the spend clients is spent by a transaction on the network.
SpendSeen ==
  /\ SpendClients # {} /\ spent = "no" /\ ~stopped
  /\ spent' = "seen"
  /\ relevantTxs' = relevantTxs + (IF watched THEN 1 ELSE 0)
  /\ UNCHANGED <<height, published, minedAt, watched, connected, registry,
                 tables, clients, epochVars, stopped, handled, late>>

-----------------------------------------------------------------------------
(***************************************************************************)
(* Registration: the client blocks on notificationRegistry, the dispatcher *)
(* takes it.  A later spend client of the same outpoint replaces an        *)
(* earlier one.                                                            *)
(***************************************************************************)
RegisterConfirmationsNtfn(c) ==
  /\ registry' = registry \cup {c}
  /\ UNCHANGED <<chain, connected, relevantTxs, tables, clients, epochVars,
                 stopped, handled, late>>

RegisterSpendNtfn(c) ==
  /\ watched' = TRUE
  /\ registry' = registry \cup {c}
  /\ UNCHANGED <<height, published, minedAt, spent, connected, relevantTxs,
                 tables, clients, epochVars, stopped, handled, late>>

TakeConf(c) ==
  /\ ~stopped /\ c \in registry
  /\ registry' = registry \ {c}
  /\ confNotifications' = confNotifications \cup {c}
  /\ late' = IF minedAt[TxOf[c]] \in 1..Dequeued THEN late \cup {c} ELSE late
  /\ UNCHANGED <<chain, connected, relevantTxs, confHeap, spendNotifications,
                 epochClient, clients, epochVars, stopped, handled>>

TakeSpend(c) ==
  /\ ~stopped /\ c \in registry
  /\ registry' = registry \ {c}
  /\ spendNotifications' = {c}
  /\ late' = IF spent = "mined" /\ relevantTxs = 0 THEN late \cup {c} ELSE late
  /\ UNCHANGED <<chain, connected, relevantTxs, confNotifications, confHeap,
                 epochClient, clients, epochVars, stopped, handled>>

TakeEpochClient ==
  /\ ~stopped /\ ~epochClient
  /\ epochClient' = TRUE
  /\ UNCHANGED <<chain, queues, confNotifications, confHeap, spendNotifications,
                 clients, epochVars, stopped, handled, late>>

(***************************************************************************)
(* The dispatcher takes a connected block h: a goroutine will notify the   *)
(* epoch clients; clients of its transactions are answered at once or wait *)
(* in the heap for their trigger height; then the heap is served.          *)
(***************************************************************************)
\* Mutant: one confirmation too many.
TriggerHeight_Late(h, n) == h + n
TriggerHeight(h, n) == h + n - 1

\* Mutant: clients that have been moved to the heap are not deleted.
Remaining_All(included) == confNotifications

Remaining(included) == confNotifications \ included

\* checkConfirmationTrigger for every transaction of block h, then notifyConfs.
connectBlock(h) ==
  LET included == {c \in confNotifications : minedAt[TxOf[c]] = h}
      single == {c \in included : NumConfs[c] = 1}
      heap == confHeap \cup {<<c, TriggerHeight(h, NumConfs[c])>> :
                               c \in included \ single}
      due == {e \in heap : e[2] <= h}
      answered == single \cup {e[1] : e \in due}
  IN /\ confNotifications' = Remaining(included)
     /\ confHeap' = heap \ due
     /\ confirmed' = [c \in ConfClients |->
                        IF c \in answered THEN h ELSE confirmed[c]]
     /\ epochSenders' = epochSenders \cup {h}
     /\ handled' = h

NotifyBlock ==
  /\ ~stopped /\ connected # <<>>
  /\ connected' = Tail(connected)
  /\ connectBlock(Head(connected))
  /\ UNCHANGED <<chain, relevantTxs, registry, spendNotifications, epochClient,
                 told, epochs, stopped, late>>

\* GetBlock fails: the block is skipped.
SkipBlock ==
  /\ ~stopped /\ connected # <<>>
  /\ connected' = Tail(connected)
  /\ late' = late \cup {c \in confNotifications :
                         minedAt[TxOf[c]] = Head(connected)}
  /\ UNCHANGED <<chain, relevantTxs, registry, tables, clients, epochVars,
                 stopped, handled>>

Served == {}

\* The dispatcher takes a spend: the client is told and deleted.
NotifySpend ==
  /\ ~stopped /\ relevantTxs > 0
  /\ relevantTxs' = relevantTxs - 1
  /\ told' = told \cup spendNotifications
  /\ spendNotifications' = Served
  /\ UNCHANGED <<chain, connected, registry, confNotifications, confHeap,
                 epochClient, confirmed, epochVars, stopped, handled, late>>

\* A non-blocking send.
Sent(h) ==
  IF epochClient /\ Len(epochs) < EpochBuffer THEN Append(epochs, h) ELSE epochs

\* notifyBlockEpochs, in a goroutine per block.
notifyBlockEpochs(h) ==
  /\ h \in epochSenders
  /\ epochSenders' = epochSenders \ {h}
  /\ epochs' = Sent(h)
  /\ UNCHANGED <<chain, queues, tables, clients, stopped, handled, late>>

\* Stop closes the channels of the clients in the two maps.
Stop ==
  /\ ~stopped
  /\ stopped' = TRUE
  /\ UNCHANGED <<chain, queues, tables, clients, epochVars, handled, late>>

Closed(c) == stopped /\ c \in confNotifications

-----------------------------------------------------------------------------
(***************************************************************************)
(* The dispatcher never blocks on a client's channel, which has room for   *)
(* one value: no client that has been answered is still registered, though *)
(* btcd reports a spend twice and a block may hold several transactions    *)
(* (the deletions in checkConfirmationTrigger, notifyConfs and the spend   *)
(* handler).                                                               *)
(***************************************************************************)
DispatcherNeverBlocks ==
  /\ \A c \in confNotifications \cup {e[1] : e \in confHeap} : confirmed[c] = 0
  /\ \A e \in confHeap : e[1] \notin confNotifications
  /\ told \cap spendNotifications = {}

(***************************************************************************)
(* Confirmations come on time.  Not early: the height a client gets is     *)
(* that of a block at which its transaction has the confirmations asked    *)
(* for.  Not late: unless the registration came after the block of the     *)
(* transaction had been handled, or that block was skipped, the client has *)
(* its answer as soon as the block of the last confirmation is handled;    *)
(* and a spend client still registered has come too late or has its spend  *)
(* in the queue (checkConfirmationTrigger, notifyConfs).                   *)
(***************************************************************************)
ConfirmedOnTime ==
  /\ \A c \in ConfClients : confirmed[c] # 0 =>
       /\ minedAt[TxOf[c]] # 0
       /\ confirmed[c] >= minedAt[TxOf[c]] + NumConfs[c] - 1
  /\ \A e \in confHeap :
       minedAt[TxOf[e[1]]] + NumConfs[e[1]] - 1 > handled
  /\ \A c \in confNotifications \ late : minedAt[TxOf[c]] \notin 1..Dequeued
  /\ \A c \in spendNotifications \ late : spent = "mined" => relevantTxs > 0
===============================================================================
