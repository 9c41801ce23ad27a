-------------------------------- MODULE SPVCon --------------------------------
(***************************************************************************)
(* The SPV wallet of shell.go and uspv/: one connection to a full node,    *)
(* the header file, the transaction store, and the goroutines between      *)
(* them.  The incoming handler takes one message at a time; a headers      *)
(* message is handled in a goroutine of its own, which goes on to request  *)
(* the blocks.  The full node is external: it follows a best chain, serves *)
(* what it is asked for in order, and announces blocks and transactions.   *)
(* The process may end at any moment; the two files stay.                  *)
(***************************************************************************)
EXTENDS TxStore

CONSTANTS
  Plans,         \* what the others and the user may do: see plan
  Amounts,       \* amounts the user may send
  Fee,           \* EstFee, and the fixed fee of SendOne
  DustCutoff,    \* change below this is given to miners
  MaxFalse,      \* reFilter (10)
  QueueDepth,    \* capacity of blockQueue (32)
  MaxHeaders,    \* headers a full node sends at once (2000)
  Dropped,       \* headers removed when one does not fit (100)
  Birthday,      \* height a new wallet starts from (21900)
  MaxBlocks, MaxKeys  \* bounds of the model

VARIABLES
  blocks, best,  \* the blocks there are, block 1 being genesis; the best tip
  txs, mempool,  \* the transactions there are; those the node has in its pool
  headers,       \* the header file, block numbers from genesis on
  db, ts,        \* the transaction store: on disk, in memory
  queue,         \* blockQueue
  waiting,       \* inWaitState holds its token
  tasks,         \* goroutines of HeaderHandler
  in, out,       \* messages from and to the node
  plan,          \* [pays, reorgs, crashes, sends]: the transactions others may
                 \* make, to pay us or not, and how often each may happen
  handed,        \* addresses the user has been given
  reorgs, crashes, sends  \* how often each has happened

chain == <<blocks, best, txs, mempool>>
memory == <<ts, queue, waiting, tasks>>
counts == <<plan, handed, reorgs, crashes, sends>>
vars == <<chain, headers, db, memory, in, out, counts>>

Msg(type, arg) == [type |-> type, arg |-> arg]
Say(msgs) == out' = out \o msgs

-----------------------------------------------------------------------------
(***************************************************************************)
(* The full node.                                                          *)
(***************************************************************************)
Chain(b) ==
  LET to[x \in DOMAIN blocks] ==
        IF x = 1 THEN <<1>> ELSE Append(to[blocks[x].prev], x)
  IN to[b]

\* The headers after the locator, or after genesis if it is on no best chain.
After(c, i) == SubSeq(c, i + 1, Min({i + MaxHeaders, Len(c)}))
HeadersAfter(c, locator) ==
  After(c, IF locator \in ToSet(c) THEN SelectInSeq(c, LAMBDA b : b = locator) ELSE 1)

InChain(c) == UNION {ToSet(blocks[b].txs) : b \in ToSet(c)}

\* A transaction the node takes into its pool: it is in no block of the best
\* chain, and nothing the node knows conflicts.
Acceptable(id) ==
  /\ id \notin InChain(Chain(best))
  /\ \A other \in (mempool \cup InChain(Chain(best))) \ {id} :
       txs[other].ins \cap txs[id].ins = {}

Reply(m) ==
  CASE m.type = "getheaders" -> <<Msg("headers", HeadersAfter(Chain(best), m.arg))>>
    [] m.type = "getblock" -> <<Msg("block", m.arg)>>
    [] m.type = "gettx" -> IF m.arg \in mempool THEN <<Msg("tx", m.arg)>> ELSE <<>>
    [] m.type = "invtx" ->
         LET new == m.arg \ (mempool \cup InChain(Chain(best)))
         IN IF new = {} THEN <<>> ELSE <<Msg("getdata", new)>>
    [] OTHER -> <<>>

Serve ==
  /\ out # <<>>
  /\ out' = Tail(out)
  /\ in' = in \o Reply(Head(out))
  /\ mempool' = IF Head(out).type = "tx" /\ Acceptable(Head(out).arg)
                  THEN mempool \cup {Head(out).arg} ELSE mempool
  /\ UNCHANGED <<blocks, best, txs, headers, db, memory, counts>>

\* Somebody makes a transaction; ours are to addresses we gave them.
Pay(tx) ==
  /\ tx.id \notin DOMAIN txs
  /\ \A i \in DOMAIN tx.outs : tx.outs[i][1] < handed
  /\ txs' = (tx.id :> tx) @@ txs
  /\ mempool' = mempool \cup {tx.id}
  /\ in' = Append(in, Msg("invtx", tx.id))
  /\ UNCHANGED <<blocks, best, headers, db, memory, out, counts>>

\* Transactions of a block are ordered by their dependencies, as their numbers.
Mine(ids) ==
  /\ Len(blocks) < MaxBlocks
  /\ \A id \in ids : \A o \in txs[id].ins :
       o[1] \in mempool => o[1] \in ids
  /\ blocks' = Append(blocks, [prev |-> best, txs |-> SetToSortSeq(ids, <)])
  /\ best' = Len(blocks) + 1
  /\ mempool' = mempool \ ids
  /\ in' = Append(in, Msg("invblock", best'))
  /\ UNCHANGED <<txs, headers, db, memory, out, counts>>

\* The tip is replaced by two empty blocks.
Reorg ==
  /\ reorgs < plan.reorgs /\ best # 1
  /\ reorgs' = reorgs + 1
  /\ blocks' = blocks \o <<[prev |-> blocks[best].prev, txs |-> <<>>],
                           [prev |-> Len(blocks) + 1, txs |-> <<>>]>>
  /\ best' = Len(blocks) + 2
  /\ mempool' = mempool \cup ToSet(blocks[best].txs)
  /\ in' = Append(in, Msg("invblock", best'))
  /\ UNCHANGED <<txs, headers, db, memory, out, plan, handed, crashes, sends>>

-----------------------------------------------------------------------------
(***************************************************************************)
(* Headers.  IngestHeaders appends headers that fit; when the first or     *)
(* another one does not, it drops the last headers, down to genesis if     *)
(* there are too few, and reports an error, and HeaderHandler returns.     *)
(***************************************************************************)
AskForHeaders == Msg("getheaders", Last(headers))

Fits(list) ==
  \A i \in DOMAIN list :
    blocks[list[i]].prev = IF i = 1 THEN Last(headers) ELSE list[i - 1]

Truncated ==
  IF Len(headers) < Dropped + 1 THEN SubSeq(headers, 1, 1)
  ELSE SubSeq(headers, 1, Len(headers) - Dropped)

IngestHeaders(list) == IF Fits(list) THEN headers \o list ELSE Truncated

\* A goroutine of HeaderHandler: what it does next.
Task(step, list, next, tip) == [step |-> step, list |-> list, next |-> next, tip |-> tip]

Becomes(i, seq) == tasks' = SubSeq(tasks, 1, i - 1) \o seq \o SubSeq(tasks, i + 1, Len(tasks))

HeaderHandler(i) ==
  /\ tasks[i].step = "ingest"
  /\ headers' = IngestHeaders(tasks[i].list)
  /\ Becomes(i, IF tasks[i].list = <<>> THEN <<Task("blocks", <<>>, 0, 0)>>
                ELSE IF Fits(tasks[i].list) THEN <<Task("ask", <<>>, 0, 0)>>
                ELSE <<>>)
  /\ UNCHANGED <<chain, db, ts, queue, waiting, in, out, counts>>

AskForMore(i) ==
  /\ tasks[i].step = "ask"
  /\ Say(<<AskForHeaders>>)
  /\ Becomes(i, <<>>)
  /\ UNCHANGED <<chain, headers, db, ts, queue, waiting, in, counts>>

(***************************************************************************)
(* AskForBlocks: nothing to ask for puts the token into inWaitState and    *)
(* then rebroadcasts, when an announcement may have taken the token again; *)
(* otherwise the blocks are queued and requested one by one.               *)
(***************************************************************************)
headerTip == Len(headers) - 1

EnterWait(i) ==
  /\ tasks[i].step = "blocks" /\ db.tip = headerTip /\ ~waiting
  /\ waiting' = TRUE
  /\ Becomes(i, <<Task("rebroadcast", <<>>, 0, 0)>>)
  /\ UNCHANGED <<chain, headers, db, ts, queue, in, out, counts>>

Rebroadcast(i) ==
  /\ tasks[i].step = "rebroadcast"
  /\ Say(LET pending == GetPendingInv(db)
         IN IF pending = {} THEN <<>> ELSE <<Msg("invtx", pending)>>)
  /\ Becomes(i, <<>>)
  /\ UNCHANGED <<chain, headers, db, ts, queue, waiting, in, counts>>

\* A database that is longer than the headers is an error.
AskForBlocks(i) ==
  /\ tasks[i].step = "blocks" /\ db.tip # headerTip
  /\ Becomes(i, IF db.tip > headerTip THEN <<>>
                ELSE <<Task("loop", <<>>, db.tip + 1, headerTip)>>)
  /\ UNCHANGED <<chain, headers, db, ts, queue, waiting, in, out, counts>>

\* The entry of blockQueue for a requested block.  Its header is there: only a
\* HeaderHandler shortens the file, and this is the only one.
HashAndHeight(task) ==
  [block |-> headers[task.next + 1], height |-> task.next, final |-> task.next = task.tip]

RequestBlock(i) ==
  /\ tasks[i].step = "loop" /\ Len(queue) < QueueDepth
  /\ queue' = Append(queue, HashAndHeight(tasks[i]))
  /\ Say(<<Msg("getblock", headers[tasks[i].next + 1])>>)
  /\ Becomes(i, IF tasks[i].next = tasks[i].tip THEN <<>>
                ELSE <<[tasks[i] EXCEPT !.next = @ + 1]>>)
  /\ UNCHANGED <<chain, headers, db, ts, waiting, in, counts>>

-----------------------------------------------------------------------------
(***************************************************************************)
(* The incoming handler.                                                   *)
(***************************************************************************)
Receives(type) == in # <<>> /\ Head(in).type = type /\ in' = Tail(in)
Arg == Head(in).arg

MsgHeaders ==
  /\ Receives("headers")
  /\ tasks' = Append(tasks, Task("ingest", Arg, 0, 0))
  /\ UNCHANGED <<chain, headers, db, ts, queue, waiting, out, counts>>

Txs(b) == [i \in DOMAIN blocks[b].txs |-> txs[blocks[b].txs[i]]]

\* Mutant: the height of the next block is written.
Synced_Next(d, hah) == [d EXCEPT !.tip = hah.height + 1]

\* SetDBSyncHeight.
Synced(d, hah) == [d EXCEPT !.tip = hah.height]

Renewed(x) ==
  IF x.fp > MaxFalse THEN [x.t EXCEPT !.filter = Refilter(x.d, x.t.adrs)] ELSE x.t

Ingested(x, hah) ==
  /\ db' = Synced(x.d, hah)
  /\ ts' = Renewed(x)
  /\ Say(IF hah.final THEN <<AskForHeaders>> ELSE <<>>)

\* IngestBlock: the head of the queue is taken even if it is another block.
IngestBlock ==
  /\ Receives("block")
  /\ IF queue # <<>> /\ Head(queue).block = Arg
       THEN Ingested(IngestTxs(db, ts, Txs(Arg), Head(queue).height), Head(queue))
       ELSE UNCHANGED <<db, ts, out>>
  /\ queue' = IF queue = <<>> THEN queue ELSE Tail(queue)
  /\ UNCHANGED <<chain, headers, waiting, tasks, counts>>

\* A transaction that was asked for and passes the local filter.
TxHandler ==
  /\ Receives("tx")
  /\ IF Arg \in DOMAIN ts.ok /\ Matches(ts.filter, txs[Arg])
       THEN /\ db' = Ingest(db, ts, txs[Arg], ts.ok[Arg])
            /\ ts' = Updated(ts, txs[Arg])
       ELSE UNCHANGED <<db, ts>>
  /\ UNCHANGED <<chain, headers, queue, waiting, tasks, out, counts>>

InvTx ==
  /\ Receives("invtx")
  /\ ts' = AddTxid(ts, Arg, 0)
  /\ Say(<<Msg("gettx", Arg)>>)
  /\ UNCHANGED <<chain, headers, db, queue, waiting, tasks, counts>>

\* Mutant: the token is taken and nothing asked for.
InvBlock_Drop ==
  /\ Receives("invblock")
  /\ waiting' = FALSE
  /\ UNCHANGED <<chain, headers, db, ts, queue, tasks, out, counts>>

\* Mutant: the announcement of a block is answered in any state.
InvBlock_Any ==
  /\ Receives("invblock")
  /\ waiting' = FALSE
  /\ Say(<<AskForHeaders>>)
  /\ UNCHANGED <<chain, headers, db, ts, queue, tasks, counts>>

InvBlock ==
  /\ Receives("invblock")
  /\ waiting' = FALSE
  /\ Say(IF waiting THEN <<AskForHeaders>> ELSE <<>>)
  /\ UNCHANGED <<chain, headers, db, ts, queue, tasks, counts>>

\* GetDataHandler; every transaction that is asked for has been stored.
GetData ==
  /\ Receives("getdata")
  /\ Say(LET ids == SetToSeq(Arg) IN [i \in DOMAIN ids |-> Msg("tx", ids[i])])
  /\ UNCHANGED <<chain, headers, db, memory, counts>>

-----------------------------------------------------------------------------
(***************************************************************************)
(* The user.                                                               *)
(***************************************************************************)
Adr ==
  /\ ts.adrs < MaxKeys
  /\ db' = [db EXCEPT !.numKeys = NewAdrKeys(ts)]
  /\ ts' = NewAdr(ts)
  /\ handed' = ts.adrs + 1
  /\ UNCHANGED <<chain, headers, queue, waiting, tasks, in, out, plan, reorgs, crashes, sends>>

\* NewOutgoingTx: known, ingested at height 0, advertised.
NewOutgoingTx(d, t, tx) ==
  /\ sends < plan.sends /\ sends' = sends + 1
  /\ txs' = (tx.id :> tx) @@ txs
  /\ ts' = AddTxid(t, tx.id, 0)
  /\ db' = Ingest(d, t, tx, 0)
  /\ Say(<<Msg("invtx", {tx.id})>>)
  /\ UNCHANGED <<blocks, best, mempool, headers, queue, waiting, tasks, in,
                 plan, handed, reorgs, crashes>>

\* Transactions of ours are numbered after all others.
OwnTx(ins, outs) == [id |-> 100 + sends, ins |-> ins, outs |-> outs, noise |-> FALSE]

\* Sweep sends a confirmed utxo with SendOne.
SendOne(o) ==
  /\ db.utxos[o].at # 0
  /\ NewOutgoingTx(db, ts, OwnTx({o}, <<<<NotOurs, db.utxos[o].value - Fee>>>>))

\* SendCoins; the address for the change is made whether it is used or not.
Outputs(amt, change) ==
  IF change < DustCutoff THEN <<<<NotOurs, amt>>>>
  ELSE <<<<NotOurs, amt>>, <<ts.adrs, change>>>>

Send(ins, amt) ==
  NewOutgoingTx([db EXCEPT !.numKeys = NewAdrKeys(ts)], NewAdr(ts),
                OwnTx(ins, Outputs(amt, Change(db, ins, amt, Fee))))

SendCoins(amt) ==
  /\ amt <= Value(db, DOMAIN db.utxos)
  /\ Send(Inputs(db, Sorted(db), amt, Fee), amt)

-----------------------------------------------------------------------------
(***************************************************************************)
(* The process ends and is started again: shell opens the two files and    *)
(* asks for headers; a new database starts at the birthday.  It may end    *)
(* between two transactions of a block, or before the height is written.   *)
(***************************************************************************)
Opened(d) == IF d.tip = 0 THEN [d EXCEPT !.tip = Birthday] ELSE d

Restart(d) ==
  /\ crashes < plan.crashes /\ crashes' = crashes + 1
  /\ db' = Opened(d) /\ ts' = OpenDB(d)
  /\ queue' = <<>> /\ waiting' = FALSE /\ tasks' = <<>>
  /\ in' = <<>> /\ out' = <<AskForHeaders>>
  /\ UNCHANGED <<chain, headers, plan, handed, reorgs, sends>>

Crash == Restart(db)

CrashInBlock ==
  /\ in # <<>> /\ Head(in).type = "block"
  /\ queue # <<>> /\ Head(queue).block = Arg
  /\ \E k \in 1..Len(blocks[Arg].txs) :
       Restart(IngestTxs(db, ts, SubSeq(Txs(Arg), 1, k), Head(queue).height).d)

Init ==
  /\ blocks = [b \in 1..(Birthday + 1) |-> [prev |-> b - 1, txs |-> <<>>]]
  /\ best = Birthday + 1
  /\ txs = <<>> /\ mempool = {}
  /\ headers = <<1>>
  /\ db = Opened(NewDB) /\ ts = OpenDB(NewDB)
  /\ queue = <<>> /\ waiting = FALSE /\ tasks = <<>>
  /\ in = <<>> /\ out = <<AskForHeaders>>
  /\ plan \in Plans
  /\ handed = 1 /\ reorgs = 0 /\ crashes = 0 /\ sends = 0

\* What the node and the goroutines of the wallet do by themselves.
Progress ==
  \/ Serve
  \/ \E i \in DOMAIN tasks :
       \/ HeaderHandler(i) \/ AskForMore(i) \/ EnterWait(i) \/ Rebroadcast(i)
       \/ AskForBlocks(i) \/ RequestBlock(i)
  \/ MsgHeaders \/ IngestBlock \/ TxHandler \/ InvTx \/ InvBlock \/ GetData

Next ==
  \/ Progress \/ Reorg
  \/ \E tx \in plan.pays : Pay(tx)
  \/ \E ids \in SUBSET mempool : Mine(ids)
  \/ Adr
  \/ \E amt \in Amounts : SendCoins(amt)
  \/ \E o \in DOMAIN db.utxos : SendOne(o)
  \/ Crash \/ CrashInBlock

\* The connection delivers and goroutines are scheduled; a user, a payer or a
\* miner need not do anything.
FairSpec == Init /\ [][Next]_vars /\ WF_vars(Progress)

-----------------------------------------------------------------------------
\* The block at a height of the header file, and the transactions of the
\* blocks the store says it has ingested.
At(h) == headers[h + 1]
Heights == (Birthday + 1)..db.tip
Confirmed == UNION {ToSet(blocks[At(h)].txs) : h \in Heights}

\* The outputs of a transaction that pay an address of ours, one the user was
\* given or one made for change.
Ours(tx) == {<<tx.id, i>> : i \in {j \in DOMAIN tx.outs : tx.outs[j][1] # NotOurs}}

(***************************************************************************)
(* Until a block is abandoned, the store is right about every block up to  *)
(* its height: an output of ours, a payment or change, is a utxo at the    *)
(* height of its block, or, if a transaction that spends it has been       *)
(* stored, an stxo, and never a utxo once the spend is confirmed; between  *)
(* the two it may be both.  It holds although each transaction             *)
(* and the height are written separately and the process may end in        *)
(* between (IngestBlock, Ingest, SetDBSyncHeight, NewAdr, Refilter).       *)
(***************************************************************************)
LedgerRight ==
  reorgs = 0 =>
    \A h \in Heights : \A id \in ToSet(blocks[At(h)].txs) :
      \A o \in Ours(txs[id]) :
        LET spenders == {s \in db.txns : o \in txs[s].ins}
        IN IF spenders \cap Confirmed # {} THEN o \notin DOMAIN db.utxos
           ELSE IF spenders # {} THEN o \in DOMAIN db.stxos
           ELSE o \in DOMAIN db.utxos /\ db.utxos[o].at = h

(***************************************************************************)
(* Synchronisation is one thread: a request for headers, its answer, a     *)
(* HeaderHandler, the final block of its requests, or the token in         *)
(* inWaitState, never two of them, so that blocks are requested in order   *)
(* and once; and until a block is abandoned it never breaks off.           *)
(***************************************************************************)
Threads ==
  Len(SelectSeq(tasks, LAMBDA t : t.step # "rebroadcast"))
    + Len(SelectSeq(in, LAMBDA m : m.type = "headers"))
    + Len(SelectSeq(out, LAMBDA m : m.type = "getheaders"))
    + Len(SelectSeq(queue, LAMBDA hah : hah.final))
    + (IF waiting THEN 1 ELSE 0)
OneThread == Threads <= 1 /\ (reorgs = 0 => Threads = 1)

(***************************************************************************)
(* Until a block is abandoned, the wallet comes to rest again and again,   *)
(* whatever blocks, payments and restarts come between and although        *)
(* AskForBlocks waits for room in blockQueue: every block of the header    *)
(* file is ingested and the token is back in inWaitState, so that the next *)
(* announcement is answered (the relay from InvHandler through             *)
(* HeaderHandler, AskForBlocks and the final block back to AskForHeaders). *)
(***************************************************************************)
ComesToRest ==
  []<>((waiting /\ queue = <<>> /\ db.tip = headerTip) \/ reorgs > 0)

(***************************************************************************)
(* A transaction the user has made is advertised at every wait state until *)
(* it is confirmed, whenever the process ends, and however little change   *)
(* it has (Rebroadcast, GetPendingInv).  This is said of transactions that *)
(* share no input with another: of two sends of the same coin the store    *)
(* remembers the later as its spender.  A block that is abandoned ends it  *)
(* too: the heights in the store are never taken back.                     *)
(***************************************************************************)
Conflicts(id) == \E s \in DOMAIN txs \ {id} : txs[s].ins \cap txs[id].ins # {}
UnconfirmedPending ==
  reorgs = 0 => \A id \in DOMAIN txs :
    (id >= 100 /\ id \notin InChain(Chain(best)) /\ ~Conflicts(id)) =>
      id \in GetPendingInv(db)

(***************************************************************************)
(* AskForBlocks never finds a database that is longer than the headers,    *)
(* "shouldn't happen", although a reorganisation shortens the header file  *)
(* and not the database: blocks are asked for only once no headers are     *)
(* missing, and by then the new chain is longer than the one that was      *)
(* ingested.  That a node turns to another chain only when it is longer    *)
(* (Reorg) is what this rests on.                                          *)
(***************************************************************************)
DbNotLonger ==
  \A i \in DOMAIN tasks : tasks[i].step = "blocks" => db.tip <= headerTip
===============================================================================
