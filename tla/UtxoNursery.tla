----------------------------- MODULE UtxoNursery ------------------------------
(***************************************************************************)
(* utxonursery.go beside the chain notifier: the time-locked output of a   *)
(* force-closed channel waits for its transaction to confirm (unstaged),   *)
(* then for its delay to pass (staged), and is swept when the epoch of     *)
(* exactly its maturity height arrives.                                    *)
(*                                                                         *)
(* Processes: the peer that force-closes, the incubator, one watcher       *)
(* goroutine per output, the dispatcher and its epoch goroutines, btcd.    *)
(* The other confirmation clients stand for the wallet's                   *)
(* openChannelAfterConfirmations, the spend clients for the channels'      *)
(* close observers.  Nothing is persisted: a restart is Init.              *)
(***************************************************************************)
EXTENDS BtcdNotifier

CONSTANTS
  Outputs,    \* force-closed outputs; each is also a confirmation client
  Delay       \* blocksToMaturity of each

\* The CSV delay is at least one block (funding asks for 4).
ASSUME NurseryAssumption ==
  /\ Outputs \subseteq ConfClients
  /\ \A o \in Outputs : Delay[o] \in Nat \ {0} /\ NumConfs[o] = 1

\* The chain is older than any delay.  Without this an output whose watcher is
\* woken by Stop would be staged at a height that is still to come.
ASSUME ChainAssumption == \A o \in Outputs : Delay[o] <= StartHeight

VARIABLES
  closing,     \* outputs whose commitment is broadcast, not yet handed over
  requests,    \* peers blocked on the requests channel
  incubator,   \* "starting", "select", "done", or the output it registers
  unstaged,    \* unstagedOutputs
  watching,    \* watcher goroutines waiting on confChan.Confirmed
  midStage,    \* <<output, confHeight>> of watchers blocked on midStageOutputs
  staged,      \* <<output, maturityHeight>> in stagedOutputs
  swept,       \* <<output, epoch height>> of broadcast sweeps
  tried,       \* history: <<output, epoch height>> of attempted sweeps
  quit,        \* Stop has closed quit
  calm         \* history: see Idle

nursery == <<closing, requests, incubator, unstaged, watching, midStage, staged,
             swept, tried, quit, calm>>
vars == <<chain, notifier, nursery>>

Init ==
  /\ NotifierInit
  /\ closing = {} /\ requests = {} /\ incubator = "starting"
  /\ unstaged = {} /\ watching = {} /\ midStage = {} /\ staged = {}
  /\ swept = {} /\ tried = {} /\ quit = FALSE /\ calm = TRUE

(***************************************************************************)
(* Nothing is left to do before the next block: no message, goroutine or   *)
(* request is under way.  "calm" records that every block so far has been  *)
(* connected in such a state, and that no call to btcd or to the wallet    *)
(* has failed and nothing has been stopped: blocks are minutes apart, the  *)
(* goroutines' steps are not.                                              *)
(***************************************************************************)
Idle ==
  /\ connected = <<>> /\ relevantTxs = 0 /\ registry = {}
  /\ epochSenders = {} /\ epochs = <<>>
  /\ closing = {} /\ requests = {} /\ midStage = {}
  /\ incubator = "select"
  /\ \A o \in watching : confirmed[o] = 0 /\ ~Closed(o)

-----------------------------------------------------------------------------
(***************************************************************************)
(* The peer: executeForceClose broadcasts the commitment, then hands its   *)
(* output to the nursery.                                                  *)
(***************************************************************************)
executeForceClose(o) ==
  /\ TxOf[o] \notin published
  /\ published' = published \cup {TxOf[o]}
  /\ closing' = closing \cup {o}
  /\ UNCHANGED <<height, minedAt, spent, watched, notifier, requests, incubator,
                 unstaged, watching, midStage, staged, swept, tried, quit, calm>>

incubateOutputs(o) ==
  /\ o \in closing
  /\ closing' = closing \ {o}
  /\ requests' = requests \cup {o}
  /\ UNCHANGED <<chain, notifier, incubator, unstaged, watching, midStage,
                 staged, swept, tried, quit, calm>>

-----------------------------------------------------------------------------
(***************************************************************************)
(* The incubator.  It is blocked while the dispatcher has not taken its    *)
(* registration.                                                           *)
(***************************************************************************)
RegisterEpochs ==
  /\ incubator = "starting"
  /\ TakeEpochClient
  /\ incubator' = "select"
  /\ UNCHANGED <<closing, requests, unstaged, watching, midStage, staged, swept,
                 tried, quit, calm>>

EarlyStage(o) ==
  /\ incubator = "select" /\ o \in requests
  /\ requests' = requests \ {o}
  /\ incubator' = o
  /\ RegisterConfirmationsNtfn(o)
  /\ UNCHANGED <<closing, unstaged, watching, midStage, staged, swept, tried,
                 quit, calm>>

Registered(o) ==
  /\ incubator = o
  /\ TakeConf(o)
  /\ incubator' = "select"
  /\ unstaged' = unstaged \cup {o}
  /\ watching' = watching \cup {o}
  /\ UNCHANGED <<closing, requests, midStage, staged, swept, tried, quit, calm>>

\* The watcher reads the height, or 0 from a channel that Stop has closed.
Watcher(o) ==
  /\ o \in watching
  /\ confirmed[o] # 0 \/ Closed(o)
  /\ watching' = watching \ {o}
  /\ midStage' = midStage \cup {<<o, confirmed[o]>>}
  /\ UNCHANGED <<chain, notifier, closing, requests, incubator, unstaged, staged,
                 swept, tried, quit, calm>>

\* Mutants: the sweep is due a block early, or a block late.
maturityHeight_Early(m) == m[2] + Delay[m[1]] - 1
maturityHeight_Late(m) == m[2] + Delay[m[1]] + 1

maturityHeight(m) == m[2] + Delay[m[1]]

MidStage(m) ==
  /\ incubator = "select" /\ m \in midStage
  /\ midStage' = midStage \ {m}
  /\ unstaged' = unstaged \ {m[1]}
  /\ staged' = staged \cup {<<m[1], maturityHeight(m)>>}
  /\ UNCHANGED <<chain, notifier, closing, requests, incubator, watching, swept,
                 tried, quit, calm>>

Mature(h) == {s \in staged : s[2] = h}

\* External: the network takes a sweep that can be in the next block.
Accepts(batch) ==
  \A s \in batch : /\ minedAt[TxOf[s[1]]] # 0
                   /\ minedAt[TxOf[s[1]]] + Delay[s[1]] <= height + 1
                   /\ \A w \in swept : w[1] # s[1]

\* Mutant: the outputs are forgotten though the sweep was not broadcast.
Kept_Failed(ok, batch) == staged \ batch

Kept(ok, batch) == IF ok THEN staged \ batch ELSE staged

\* The sweep of the outputs that mature with this epoch; it may fail.
Sweep(h, ok) ==
  /\ ok => Accepts(Mature(h))
  /\ Mature(h) = {} => ok
  /\ tried' = tried \cup {<<s[1], h>> : s \in Mature(h)}
  /\ swept' = IF ok THEN swept \cup {<<s[1], h>> : s \in Mature(h)} ELSE swept
  /\ staged' = Kept(ok, Mature(h))
  /\ calm' = (calm /\ ok)

Epoch ==
  /\ incubator = "select" /\ epochs # <<>>
  /\ \E ok \in BOOLEAN : Sweep(Head(epochs), ok)
  /\ epochs' = Tail(epochs)
  /\ UNCHANGED <<chain, queues, tables, clients, epochSenders, stopped, handled,
                 late, closing, requests, incubator, unstaged, watching, midStage,
                 quit>>

\* server.Stop stops the notifier first, then the nursery.
StopNotifier ==
  /\ Stop
  /\ calm' = FALSE
  /\ UNCHANGED <<closing, requests, incubator, unstaged, watching, midStage,
                 staged, swept, tried, quit>>

StopNursery ==
  /\ stopped /\ ~quit
  /\ quit' = TRUE
  /\ UNCHANGED <<chain, notifier, closing, requests, incubator, unstaged,
                 watching, midStage, staged, swept, tried, calm>>

IncubatorQuits ==
  /\ quit /\ incubator = "select"
  /\ incubator' = "done"
  /\ UNCHANGED <<chain, notifier, closing, requests, unstaged, watching, midStage,
                 staged, swept, tried, quit, calm>>

-----------------------------------------------------------------------------
Block ==
  /\ \E ts \in SUBSET published, s \in BOOLEAN : BlockConnected(ts, s)
  /\ calm' = (calm /\ Idle)
  /\ UNCHANGED <<closing, requests, incubator, unstaged, watching, midStage,
                 staged, swept, tried, quit>>

FailedGetBlock ==
  /\ SkipBlock
  /\ calm' = FALSE
  /\ UNCHANGED <<closing, requests, incubator, unstaged, watching, midStage,
                 staged, swept, tried, quit>>

\* The other clients of the notifier, and its own steps.
OtherClient(c) ==
  /\ c \notin registry \cup confNotifications /\ confirmed[c] = 0
  /\ \A e \in confHeap : e[1] # c
  /\ RegisterConfirmationsNtfn(c)
  /\ UNCHANGED nursery

Observer(c) ==
  /\ c \notin registry \cup spendNotifications \cup told
  /\ RegisterSpendNtfn(c)
  /\ UNCHANGED nursery

OtherPublished(c) ==
  /\ TxOf[c] \notin published \cup {TxOf[o] : o \in Outputs}
  /\ published' = published \cup {TxOf[c]}
  /\ UNCHANGED <<height, minedAt, spent, watched, notifier, nursery>>

Dispatcher ==
  /\ \/ NotifyBlock
     \/ NotifySpend
     \/ \E c \in ConfClients \ Outputs : TakeConf(c)
     \/ \E c \in SpendClients : TakeSpend(c)
     \/ \E h \in epochSenders : notifyBlockEpochs(h)
     \/ SpendSeen
  /\ UNCHANGED nursery

Next ==
  \/ Block \/ FailedGetBlock \/ Dispatcher
  \/ RegisterEpochs \/ Epoch
  \/ StopNotifier \/ StopNursery \/ IncubatorQuits
  \/ \E o \in Outputs : \/ executeForceClose(o) \/ incubateOutputs(o)
                        \/ EarlyStage(o) \/ Registered(o) \/ Watcher(o)
  \/ \E m \in midStage : MidStage(m)
  \/ \E c \in ConfClients \ Outputs : OtherClient(c) \/ OtherPublished(c)
  \/ \E c \in SpendClients : Observer(c)

Spec == Init /\ [][Next]_vars

-----------------------------------------------------------------------------
(***************************************************************************)
(* No output is lost or handled twice inside the nursery: from the         *)
(* broadcast of its commitment on it is at exactly one stage (with the     *)
(* peer, being registered, unstaged, staged, or swept), also when a sweep  *)
(* fails or the notifier stops under the incubator (incubator's map        *)
(* updates).                                                               *)
(***************************************************************************)
OutputTracked ==
  \A o \in Outputs : TxOf[o] \in published =>
    Cardinality({s \in staged : s[1] = o}) + Cardinality({s \in swept : s[1] = o})
      + Cardinality({S \in {<<"peer", closing \cup requests>>, <<"reg", {incubator}>>,
                            <<"early", unstaged>>} : o \in S[2]}) = 1

(***************************************************************************)
(* No sweep is attempted before the relative time-lock of each of its      *)
(* inputs has passed, whatever the order of blocks, epochs and watchers,   *)
(* and even when the notifier has stopped (maturityHeight in incubator).   *)
(***************************************************************************)
SweepsMature ==
  \A t \in tried : /\ minedAt[TxOf[t[1]]] # 0
                   /\ t[2] >= minedAt[TxOf[t[1]]] + Delay[t[1]]

(***************************************************************************)
(* "Once an output is mature, it will be sweeped into the wallet": if      *)
(* blocks have only come when nothing else was under way, nothing has      *)
(* failed and nothing has stopped, then whenever nothing is under way      *)
(* every output whose delay has passed is swept (the single comparison     *)
(* stagedOutputs[newHeight] misses none).                                  *)
(***************************************************************************)
SweptWhenMature ==
  calm /\ Idle =>
    \A o \in Outputs :
      minedAt[TxOf[o]] # 0 /\ height >= minedAt[TxOf[o]] + Delay[o] =>
        \E w \in swept : w[1] = o
===============================================================================
