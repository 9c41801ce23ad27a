# A TLA+ model of lnd-cc

This directory holds TLA+ modules that model the daemon in `src/`, TLC
configurations that check them on small instances, and TLAPS proofs of what
matters most. `PROJECT.json` lists the components, the runs, the hazards and,
for every definition that models code, the lines it models.

## The system and its parts

`lnd` is a Lightning node: it opens payment channels with other nodes, updates
them with every payment, and closes them on the Bitcoin chain.

* **Commitment state machine** (`lnwallet/channel.go`). Each party of a channel
  keeps two commitment chains (its own, `localCommitChain`, and the remote
  party's, `remoteCommitChain`) and two update logs. A party proposes HTLCs,
  signs the other's next commitment with a revocation key the other has handed
  out, and revokes its own old one by revealing an elkrem secret.
* **HTLC manager** (`peer.go`, `htlcManager`). One goroutine per channel that
  drives the state machine: it batches the payments of the switch, answers
  signatures with signatures, settles HTLCs it has the preimage of, and tells
  requesters when their payment is fulfilled.
* **HTLC switch** (`htlcswitch.go`). `networkAdmin` keeps the registry of links
  (`chanIndex`, `interfaces`), `htlcForwarder` gives outgoing payments to links
  with enough bandwidth.
* **Peer** (`peer.go`). A connection with its read, write and queue goroutines
  and the `channelManager`, which registers new channels and handles closes.
* **Channel database** (`channeldb/`). Channels, revocation logs, invoices and
  nodes in bolt buckets.
* **Wallet and funding** (`lnwallet/wallet.go`, `reservation.go`,
  `fundingmanager.go`). Coin selection and locking, reservations, and the
  exchange of messages that opens a channel.
* **Chain notifier and UTXO nursery** (`chainntnfs/`, `utxonursery.go`).
  Confirmations, spends and blocks, and the sweeping of time-locked outputs.
* **Scripts** (`lnwallet/script_utils.go`) of the funding output and of the
  outputs of a commitment, with the witnesses that spend them, and the
  **colouring** of transactions (`lndcc/`).
* **Secrets** (`elkrem/`): the tree a party draws its revocation secrets from
  and the stack in which the other party keeps them.
* **SPV wallet** (`uspv/`, `shell.go`): header and block synchronisation with a
  full node, and a store of the wallet's own transactions.
* **Messages** (`lnwire/`), **transport** (`lndc/`), **server and RPC**
  (`server.go`, `rpcserver.go`), command line, generated code, and `shachain/`,
  which nothing uses.

A payment goes RPC server → switch → htlcManager → connection → remote
htlcManager, which settles it; every two messages of the commitment protocol
save the channel in the database. A channel begins in the funding manager, which
hands it to the peer, and ends in `wipeChannel`, which takes it out of the peer,
the switch and the database.

## Modules

| module | models | uses |
|---|---|---|
| `RevocationWindow` | the window protocol of one commitment chain: the abstract specification | |
| `RevocationWindowProofs` | theorems about it | `RevocationWindow` |
| `Elkrem` | elkrem sender, receiver and serialisation, as operators | |
| `ElkremWindow` | the window protocol with the trees that feed it and the stored receiver | `RevocationWindow`, `Elkrem` |
| `ElkremProofs` | theorems about the receiver's stack | `ElkremWindow` |
| `LightningChannel` | `lnwallet/channel.go` as operators on one party's channel | |
| `HtlcManager` | two htlcManagers over two `LightningChannel`s and a FIFO per direction | `LightningChannel` |
| `ChannelRestart` | the same when the connection is lost and the channel restored from disk | `HtlcManager` |
| `HtlcSwitch` | the switch, the connections of one remote node, and channel closure | |
| `HtlcSwitchProofs` | a theorem about its payments | `HtlcSwitch` |
| `BtcdNotifier` | the dispatcher of the chain notifier, with btcd as its environment | |
| `UtxoNursery` | the nursery beside the notifier | `BtcdNotifier` |
| `UtxoNurseryProofs` | theorems about the two | `UtxoNursery` |
| `Transactions` | funding, commitment and closing transactions, sorting, colouring | |
| `LightningWallet` | the wallet's request handlers and reservations, as operators | `Transactions` |
| `FundingManager` | the single funder workflow of two daemons | `LightningWallet` |
| `ScriptEngine` | the part of the script interpreter the scripts use (external) | |
| `Scripts` | scripts, keys and witnesses of `script_utils.go` | `ScriptEngine` |
| `CommitmentOutputs` | the race for an output of a commitment on the chain | `Scripts` |
| `ChannelDB` | the buckets of channeldb: keys, put, delete, fetch, invoices | |
| `ChannelLifecycle` | channels from `FullSync` to `CloseChannel` | `ChannelDB` |
| `TxStore` | the SPV wallet's transaction store, as operators | |
| `SPVCon` | synchronisation with a full node, sends, restarts | `TxStore` |
| `MC...` | payments, workloads and refinement mappings for TLC | |

**RevocationWindow.** State: the signer's `window` (`revocationWindow`), `used`
(`usedRevocations`), `current` (`TheirCurrentRevocation`) and `secrets` (size of
the elkrem receiver), the owner's `height` and `edge`, and the signatures and
revocations in flight. A key and its secret are named by their elkrem index.
Actions: the initial extensions, signing, and the two message handlers.
`ReceiveRevocationAndSign` is the revocation handler that settles an HTLC and
signs in the same iteration.

**LightningChannel.** One record per party with the fields of the Go struct.
Entries of the logs carry the heights at which each chain added or removed them
(0 means "not yet", as in the code). `fetchHTLCView`, `evaluateHTLCView` (as
`Skipped`, `Active`, `Stamped`, `Balance`), `compactLogs`, `SignNextCommitment`,
`ReceiveNewCommitment`, `RevokeCurrentCommitment`, `ReceiveRevocation`,
`SettleHTLC` and the constructors keep the code's order of effects and its error
returns. Data that is abstracted: a transaction is its height, key, balances and
bag of HTLC outputs; a signature is the transaction it covers; a hash is a
string; scripts are left out. `disk` is what `FullSync`, `UpdateCommitment` and
`AppendToRevocationLog` have written.

**HtlcManager.** `state` is `commitmentState`, `wire` the connection, `todo` the
payments the switch has yet to hand over, `bandwidth` the link's
`availableBandwidth`. An action is one iteration of the `select` loop with all
that the handler does: `Start`, `handleDownStreamPkt`, `BatchTimer`,
`LogCommitTimer`, and `handleUpstreamMsg` with a branch per message. An error
return that disconnects, and a nil dereference, make `up[p]` false. Debit and
credit of the bandwidth are one step each; the unsynchronised access of the two
switch goroutines to the field is a hazard that is not modelled.

**ChannelRestart.** `Reconnect` drops the connection with everything that is
only in memory and rebuilds both channels from `disk`. `held` remembers every
commitment a disk has held, `orderly` whether every connection so far was lost
when both disks agreed, and `serial` whether every payment so far was handed over
when nothing else was under way.

**HtlcSwitch.** One remote node, its channels, and its connections, any of
which may begin while another is about, as the server makes a peer object for
every connection. `alone`, in a connection's record, remembers that it
overlapped no other.
A link is `<<channel, connection>>`, as the code compares links by pointer.
`interfaces` is the slice of the node with its nil cells, `admin` the close
request that `networkAdmin` is handing over, `requests` the goroutines blocked
on the unbuffered `linkControl`. A connection is a record of the peer object's
maps and of what its goroutines do. A nil dereference sets `panicked`, after
which nothing happens.

**BtcdNotifier.** `connected` and `relevantTxs` are what btcd's callbacks have
queued, `registry` the clients blocked on `notificationRegistry`,
`confNotifications`, `confHeap` (a set of client and trigger height: only its
minimum is ever looked at) and `spendNotifications` the dispatcher's maps,
`confirmed` and `told` what the clients' channels have received. One action per
case of the dispatcher's `select`; the epoch goroutine of a block is a step of
its own, so epochs may be dropped or overtake each other. `late` remembers the
clients whose block or spend had gone by when their registration was taken, or
whose block could not be fetched: the code never answers them.

**UtxoNursery.** An output is with the peer (`closing`, `requests`), being
registered (`incubator`), `unstaged`, `staged` under its maturity height, or
`swept`. `Watcher` and `MidStage` are the two halves of the watcher goroutine.
A sweep may fail, and the network refuses one whose time-lock has not passed.
`StopNotifier` and `StopNursery` follow the order of `server.Stop`; an incubator
that waits for a stopped dispatcher waits for ever, as in the code.

**Elkrem, ElkremWindow.** A hash is the root's name and the turns below it. The
receiver's stack, `AddNext` with its two tests, `descend`, `AtIndex` and the byte
counts and order test of `serdes.go` are as in the code. `ElkremWindow` adds to
each step of `RevocationWindow` that carries a secret what `ReceiveRevocation`
does with it, and `stored`, what `putChanElkremState` has written.

**Transactions, LightningWallet, FundingManager.** A transaction is its inputs
and its ordered outputs with values and scripts; a script is the tuple of what
determines it; a signature is a key, the transaction it covers, and the script
and value of the output spent. `ColorifyTx`
replaces values by dust and appends the transfer instructions. `LightningWallet`
has an operator per handler of `requestHandler`, which maps the wallet (coins,
`locked` outpoints, reservations `res`, `limbo`) to the wallet afterwards and
says whether it succeeded. `FundingManager` has two daemons, numbered
connections, and for each daemon the table of reservations (`active`), the
coordinator's queue (`fundingMsgs`) and the sends of the current handler that may
block (`todo`), the goroutines that wait for confirmations (`routines`), and a
record per peer object with its barriers, new channels and links. Calls may fail,
connections break, daemons end and start again (`MaxFaults`). `lost` remembers
the channels whose funding transaction went out and whose `FullSync` did not
succeed.

**ScriptEngine, Scripts, CommitmentOutputs.** Scripts are sequences of opcodes
and run on a stack machine; keys are numbers modulo a small group order, so that
the revocation key is really the sum of a key and a preimage. An output of a
commitment mined in block 0 is chosen with its delay, timeout, size of preimage,
and whether the commitment was revoked; then blocks go by and either side tries
every witness that the functions of `script_utils.go` build from what it knows.
`Entitled` states the contract independently of the scripts.

**ChannelDB, ChannelLifecycle.** A bucket is a function, a key the sequence of
the parts the code concatenates, an operation what a committed transaction leaves
behind. A fetch that finds nothing is an error or a panic, as the decoding makes
it. `ChannelLifecycle` runs the goroutines over one database: `newPeer`, the
read loop in two steps (link found, message sent), updates by the htlcManager
with writes that fail, and the closes. `wipeChannel` is three steps of a
goroutine, up to three of which (local, remote, observer) meet over the
unlocked maps. A second close of a Go channel and a send on a closed one end the
process (`Down`). `tail` is the height at the tail of
the remote chain, which numbers the log entries; a channel that is loaded starts
it at the height of our own commitment. `saved` and `logged` remember what
committed transactions wrote, `astray` the channels ever loaded when the two
heights differed. Invoices share no bucket with channels and are explored on their own.

**TxStore, SPVCon.** `db` is the bolt file, `ts` the memory of the process,
`headers` the header file. The incoming handler takes a message at a time; a
headers message becomes a task that ingests headers, asks for more or for blocks,
and waits for room in `queue`; the block that is `final` asks for headers again,
and an empty answer puts the token into `inWaitState` and then rebroadcasts.
Each transaction of a block and the new height are separate writes and the
process may end between them. The node is external: it mines, reorganises, serves
requests in order, and announces.

## What is checked

| run | instance | states | shows |
|---|---|---|---|
| `RevocationWindow` | window 4, heights 1 to 31, trees of height 4 | 446 | no honest message is refused (`NeverRefused`), only past commitments are revoked (`OnlyPastRevoked`), the window always reopens (`WindowReopens`); from the receiver on disk every revoked secret and no other can be derived (`SecretsKept`), a secret of another tree is noticed (`WrongSecretCaught`), the stack keeps its shape (`StackInShape`) |
| `Session` | payments of 1 and 2 from a balance of 3 and 3 from a balance of 2, window 2, batches of 2 | 13,318 | one session with crossing payments is safe (`NeverDisconnects`, `NoOverdraft`, `RevocationLogTrue`, `SettledOnlyWhenLockedIn`); payments made one after the other complete (`SerialPaymentsComplete`); both chains implement `RevocationWindow` (`ChainsFollowWindow`) |
| `Restart` | 2+1 payments, one without an invoice, one reconnection at any moment | 196,876 | disks stay consistent and never hold a revoked commitment (`DiskConsistent`); a channel never lost but in good order refuses no message and conserves its balances (`RestoredGoesOn`) |
| `HtlcSwitch` | four plans: one connection with two channels, a payment, credits and every close; two connections, one after the other or overlapping, with one channel and every close, with two channels and closes by the chain or the remote node, and with one channel and a payment | 692,408 | what the channel index names is in the interface, and the two agree while no connections overlap (`RegistryMatches`), active channels of a connection without another beside it are registered (`ActiveRegistered`), a payment answered with an error is not sent (`RejectedNotSent`) |
| `UtxoNursery` | one output with a delay of 1, one client of 2 confirmations, one spend observer, 3 blocks, epoch channel of 1 | 2,470,413 | clients are answered neither early nor late (`ConfirmedOnTime`) and once (`DispatcherNeverBlocks`); no output is lost or swept early (`OutputTracked`, `SweepsMature`); at the pace of real blocks a mature output is swept (`SweptWhenMature`) |
| `Funding` | three workloads: two channels of one node over two connections, one of each node over one connection, one channel of various amounts; one fault | 235,302 | no coin backs two channels (`CoinsBackOneChannel`); a channel on disk is a commitment countersigned for the published output, and a published channel is on disk unless the daemon failed just then (`CommitmentsCountersigned`); both ends hold mirror images (`EndsAgree`); messages find their reservation (`ReservationsFound`); updates wait for their channel (`UpdatesDelivered`) |
| `Outputs` | all five kinds of output, delays 2 and 3, timeouts 0 and 3, 4 blocks | 2,316 | whoever spends was entitled (`OnlyEntitledSpend`); whoever is entitled can spend (`EntitledCanSpend`), so a breach can be punished at once and nothing is stuck; both sides build the same HTLC scripts (`SidesBuildTheSame`) |
| `Lifecycle` | up to three channels with two nodes, up to 3 updates, one fault, three invoices | 207,347 | fields read back (`FieldsReadBack`), every secret has its log entry, and revoked states are found as long as a channel is loaded at equal heights (`RevokedStatesFound`), every channel is either open or closed on disk (`ChannelsAccounted`) and deleted only when spent (`DeletedOnlyWhenSpent`), invoices are kept (`InvoicesKept`) |
| `Spv` | 4 blocks, 2 addresses, queue of 1, six plans of payments, sends, one reorganisation, one restart | 309,593 | the ledger is right about payments and change (`LedgerRight`); synchronisation is one thread (`OneThread`) that always comes to rest with every block ingested (`ComesToRest`); own transactions stay pending (`UnconfirmedPending`); the database is never longer than the headers when blocks are asked for (`DbNotLonger`) |
| `Convergence` | one payment each way | | *violated*: crossing payments can leave two chains different for ever |
| `FundingOpen` | one channel, no faults | | *violated*: an update overtakes the message that would let it pass, and the responder's end never opens |
| `LifecycleReadBack` | as `Lifecycle` | | *violated*: two channels with one node share their delivery scripts |

The runs marked *violated* check what a comment of the code says of it; the
findings in `PROJECT.json` quote the comment and describe the behaviour. Every
property of the other runs has a mutant of the code that breaks it.

**Bounds.** Windows and batches of 2 exhaust the window and fill batches with
two payments, which with 4 and 10 would take more payments than TLC can explore;
`RevocationWindow` itself is checked with 4, and the code treats the two numbers
as parameters. A tree of height 4 has 31 secrets, all of which are revealed, so
that every merge up to the root happens. Two payments one way and one the other
way reach crossing signatures, a settle in one direction while adds go in the
other, compaction and overdrafts if there were any. One reconnection is enough
for what is restored to be used; a second only repeats it. In the switch, two
channels are the least for an interface with several links, two connections the
least for a purge, a wipe or a payment of one to meet a registration of the
other; all that together is out of TLC's reach, and the plans combine it three
at a time. For the
nursery, three blocks are one more than the delay and the confirmations need, an
epoch channel of 1 in place of 20 is full after one slow epoch, and the chain
starts above every delay, as it does in reality. For funding, a wallet with two
coins of the asset and one of another is the least in which two reservations
compete and one needs two coins. For the outputs, heights go one past every
delay and timeout, both orders of delay and timeout occur, and a timeout of 0 is
the boundary. Two channels with one node and one with another are the least that
tell keys of channels from keys of nodes. The SPV queue of 1 is full at the
second block, two headers a message make a full and a partial answer, a
reorganisation drops more headers than it replaces, and `MaxFalse` 0 refreshes
the filter at the first false positive.

**Fairness.** `FairElkremSpec` asks weak fairness of reading messages only: the
goroutines of a connected peer keep reading, and signing, which needs a payment
or a timer, is not assumed. `FundingManager!FairSpec` asks it of the goroutines
(coordinator, confirmation routines, read loop, channel manager, links) and of
the mining of what was published. `SPVCon!FairSpec` asks it of `Progress`: the
connection delivers, the node answers, and goroutines run; users and miners are
free not to act. In `HtlcManager` every behaviour is finite (payments are, and
timers act only on something pending), so a behaviour in which the goroutines go
on ends in a state where nothing is in flight and no timer acts. "Eventually" is
therefore stated as an invariant of those states: `ConvergedWhenQuiet`,
and `FulfilledWhenQuiet` within `SerialPaymentsComplete`. `SweptWhenMature` is of
the same kind. It holds under `calm`: every
block came when nothing was under way, as blocks are minutes apart and the
goroutines' steps are not, and nothing failed or was stopped. Deadlock is not
checked in any run: a finished workload, a channel that has been closed and a
daemon that has ended all stop, and rightly; where stopping would be wrong, a
property says so.

**Refinement.** `MCWindowRefinement` maps `HtlcManager` to `RevocationWindow`
twice: the chain of Bob with Alice as signer, and the reverse. The signatures
and revocations of a direction are the matching messages of the FIFO, `failed`
is "one of the two is down". TLC checks `Spec` of both (`ChainsFollowWindow`), so what is
proved of the window protocol holds of the channel code it abstracts, within the
bounds of the run.

## What is proved

`RevocationWindowProofs` proves, for every window size, starting height and
bound:

* `TypeCorrect`: `Spec => []TypeOK`
* `HonestMessagesAccepted`: no signature or revocation is ever refused
* `CurrentNeverRevoked`: only commitments below the current height are revoked
* `WindowBounded`: unrevoked commitments are exactly the messages in flight, at
  most the window
* `WindowNeverLeaks`: a signer with nothing outstanding has its whole window

None of the last four is inductive: that a signature verifies depends on which
key was at the head of the window when it was made, and that on every key handed
out before. The inductive invariant `IInv` (`Invariance`) is `TypeOK`,
`NeverRefused` and `KeyLedger`: used keys, unused keys and keys on the wire are
consecutive from the signer's current key to the owner's window edge, signatures
in flight carry the keys just above the owner's height, and the revocations in
flight carry the secrets just below it, after all extensions. There is one lemma
per action. The assumptions are those of `WindowAssumption`: a window of at least
one key, and a starting height below the bound. The run checks the second and
third of these on an instance; the other statements rest on the proof.

`ElkremProofs` proves, for every height of the tree and whatever the receiver is
given:

* `StackKeepsShape`: a stack in shape stays in shape at every step
* `ShapeReadsBack`: a stack in shape passes the order test of
  `ElkremReceiverFromBytes` and is at most two longer than its bottom node is
  high

The shape (`InShape`) says that indexes rise along the stack and that heights
fall strictly, except that the last two nodes may have the same height when
their parent is due next. The order of
heights alone, which is all `FromBytes` asks for, is not inductive: it bounds no
length and does not say where a merge ends. `StackKeepsShape` is stated from a
stack in shape: that the receiver a run starts from, a recursive function of the
number of secrets given, is in shape would need induction over that number, and
TLC checks it instead (`StackInShape` in the run `RevocationWindow`).

`UtxoNurseryProofs` proves, for every set of clients, outputs and transactions,
every number of confirmations, every delay, and every size of the epoch channel
and of the chain:

* `NeverBlocks`: the dispatcher never sends twice on a client's channel
* `AnswersOnTime`: a client is answered neither early nor late
* `NoEarlySweep`: no sweep is attempted before its inputs are mature

The invariant `IInv` (`Invariance`) adds what these three rest on. For the
notifier: a client still in the registry is unknown to the dispatcher and has no
answer (otherwise taking it could answer it a second time); a client is in the
heap once, under the height of its last confirmation; the queue holds the blocks
after the last one taken, in order. For the nursery: an output the peer still
holds is not registered; every epoch is a block after the start; a staged height
is either late enough or no later than the start of the notifier. The last case
is the watcher that `Stop` wakes with a height of 0. It is harmless only because
the chain was longer than the delay when the notifier was started, which is the
assumption `ChainAssumption`. The other assumptions are that a call registers
for a confirmation or for a spend and not for both (`NotifierAssumption`), and
that the nursery asks for one confirmation (`NurseryAssumption`). There is one
lemma per action. The run `UtxoNursery` checks the same three on an instance;
`OutputTracked` and `SweptWhenMature` are only model-checked.

`HtlcSwitchProofs` proves, for every set of channels and payments, every balance
and any number of connections, overlapping or not:

* `ErrorMeansUnpaid`: a payment answered with an error is never handed to a link

The property says nothing of payments that have no answer yet, so it is not
inductive. The invariant `OneFate` is: a payment that is to be made, queued or
answered with an error is in no goroutine and with no htlcManager, and the three
exclude each other.

Only model-checked: liveness and fairness, which the prover does not support;
that the derived secrets are the right ones, which needs induction over the
tree; the refinement; and all of the other modules.

## Known disagreements

Besides the three findings, modelling met these places where the code falls short
of what a comment or a reader would expect. They are in the models as the code
has them, and the properties are stated around them.

* A settle that is in no commitment yet has removal height 0 and counts as locked
  in (`lnwallet/channel.go:1162`): with overlapping payments a requester may be
  told of the fulfilment before the HTLC has left the commitments.
* A channel restored at height 1 takes its pending HTLCs for new ones and debits
  them again (`lnwallet/channel.go:521`), and the first commitment revoked after
  a restart is logged without HTLCs (`lnwallet/channel.go:443`).
* A local close that meets a remote close of the same channel leaves
  `networkAdmin` and `channelManager` waiting for each other
  (`htlcswitch.go:342`).
* An interface whose links are all gone keeps nil links and is not collected
  (`htlcswitch.go:308`); the next payment, purge or unregistration that meets one
  ends the daemon. So does a credit for a link that is gone (`htlcswitch.go:348`).
* The server makes a peer object for every connection (`server.go:485`), also
  when the node still has one. "Tell the switch to unregister all links
  associated with this peer" (`peer.go:307`) then unregisters those of the other
  connection, whose channels stay active and can no longer be paid over, and a
  wipe by one connection deletes the other's entry of the channel index
  (`htlcswitch.go:306`) and leaves its link in the interface. `ActiveRegistered`,
  and the second half of `RegistryMatches`, therefore ask that connections do not
  overlap; without that TLC finds both within seven states.
* The forwarder sends a payment over every link that has the bandwidth, and the
  goroutines that send share the loop's variable (`htlcswitch.go:175`).
* Closing a channel twice by force, or wiping it twice at the wrong moment, closes
  a Go channel twice and ends the daemon (`lnwallet/channel.go:1547`,
  `peer.go:832`); when both ends start a cooperative close, each ignores the
  other's request (`lnwallet/channel.go:1578`).
* `server.Stop` stops the notifier first; an incubator that is then registering
  waits for ever, and the nursery's `Stop` with it (`utxonursery.go:109`).
* A wipe that finds the link already gone reports success before the other wipe
  has deleted the channel (`peer.go:826`).
* Coins of a reservation that fails stay locked until a restart
  (`lnwallet/wallet.go:513`), and a crash between publication and `FullSync`
  forgets the channel (`lnwallet/wallet.go:1018`).
* "... we ensure that the signature we received from the counterparty for our version
  of the commitment transaction allows us to spend from the funding output"
  (`lnwallet/wallet.go:909`): the signatures are made and verified for an output
  worth the capacity (`lnwallet/wallet.go:980`), which is its worth in tokens,
  while `ColorifyTx` puts 15 times the dust amount into it (`lndcc/lndcc.go:63`).
  A signature commits to the value in satoshis, so that the chain accepts the
  commitment of no channel whose capacity is another number.
  `CommitmentsCountersigned` compares the value signed with the worth in tokens
  and does not claim that the commitment can be published.
* `AppendToRevocationLog` writes to an "append-only log"
  (`channeldb/channel.go:314`) under the height at the tail of the remote chain,
  which starts at the height of our own commitment whenever the channel is loaded
  (`lnwallet/channel.go:423`). After a connection lost between a signature and the
  revocation that follows it, numbers are skipped, so that the entry of a revoked
  state is not found under its own, or used again, so that an entry is lost.
  `RevokedStatesFound` says what holds then, and that every state is found when
  it does not happen.
* Nothing keeps a relative delay between 1 and 65535 (`lnwallet/script_utils.go:575`):
  0 is the script's false result, and a larger one is masked to 16 bits.
* The stored elkrem receiver is read with a limit of 1000 bytes
  (`channeldb/channel.go:1250`), which about 2^25 updates exceed; `serdes.go`
  allows 1969.
* After a reorganisation the SPV wallet truncates its headers and does not ask
  again (`uspv/msghandler.go:113`), and heights in its store are never taken back;
  a confirmed funding transaction that is ingested again makes an output that an
  unconfirmed transaction spends unspent once more (`uspv/utxodb.go:480`).

## Not modelled

`PROJECT.json` gives the reason for every component that is left out or modelled
in part.

* `lnwire` encodings, `lndc`, `lnrpc`, configuration, command line and logging
  have no state of interest: a property of them would be about byte strings,
  cryptography or text. `shachain` is unfinished and unused.
* Data races on plain fields and maps (the link's bandwidth, the interface map)
  are not torn apart below the level of one statement's effect.
* Fees, what a cooperative close pays, and what the colouring service answers.
* `btcwallet` beyond the listing and locking of outputs, and the server's peer
  set.
* The filter mode of the SPV wallet, proof of work and difficulty, merkle proofs,
  and user commands in the middle of the ingestion of a block.
* Routing: a forwarded HTLC ends at the switch, as in this version of the code.
