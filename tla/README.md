# TLA+ models of filecoin-network-sim

The simulator spawns a network of Filecoin daemons, makes them trade and mine at
random, and merges their event logs into one stream that a browser reads from
`/logs`. This directory models its Go code, all of which is concurrent but the conversion of
events and the choice of deals, with TLC runs on small instances and TLAPS proofs
for every value of the constants.

All line numbers are those of the Go files at the modelled commit; `PROJECT.json`
(`map`) gives the lines of every definition.

## 1. The system

| Component | State | Operations | Talks to |
|---|---|---|---|
| `filnetsim/main.go`: service | arguments, the instance, HTTP servers | `parseArgs`, `SetupInstance`, `Instance.Run`, `runService` | starts the randomizer and the log endpoint; cancels their context; `defer ShutdownAll` |
| `filnetsim/logs.go`, `writebuf.go`: log endpoint | channel `wch` of new writers, the pump's `ws` and `newWs`, a ring of old chunks | `HandleHttp`, `AddWriter`, `Wait`, `PipeLogsToWriters`, `DrainWriterCh`, `RingWriter.Write/WriteTo` | reads the merged log, writes to HTTP clients |
| `logs/aggregator.go`, `simlogger.go` (streams): log mixing | an `io.Pipe` per node, one `io.Pipe` for all | `NewSimLogger`, `transformEventLogs`, `WriteEvent`, `MixReader`, `mixScanner` | daemons' event streams and `AddNode` on one side, the pump on the other |
| `logs/simlogger.go` (conversion) | none | `convertEL2SL`, `addDeal`, `NetworkChurnEvent`, ... | called by `transformEventLogs` and `AddNode` |
| `network/network.go`: network | `lk`, `nodes`, `repoNum`, the nodes' fields | `AddNode`, `tryCreatingNode`, `ConnectNodeToAll`, look-ups, `ShutdownAll` | daemons (external), the aggregator |
| `network/randomizer.go`: spawner | where its goroutine is | `addInitialNodes`, `periodic`, `nextRandomType` | `Network` |
| `network/randomizer.go`: mining | the loop variable, a wait group per epoch | `mineBlocks`, `rollToMine` | `GetRandomNodes`, daemons |
| `network/randomizer.go`: actions | `MinerAddr` of a node; what they have read of the chain | `randomActions`, `doActionPayment/Ask/Bid/Deal`, `getBestDealPair`, `extract...` | daemons, `CreateOrGetMinerIdentity` |
| `network/wgerr.go`: `AsyncErrs` | a channel, a wait group | `AsyncErrs` | `AddNodes`, `ShutdownAll` |
| `randfile/` | none | `RandomFile` | file system |

How they interact. The spawner calls `AddNode`, which starts a daemon, connects
it, appends it to `n.nodes`, hands its log stream to the aggregator and announces
the node *on that same stream*. All pipes are synchronous: a daemon's event, or an
announcement, is taken only as fast as the pump reads (a scanner holds one line at
most), and the pump is blocked until a first client attaches and while any client does not read. So a slow viewer
holds up the announcement, with it `AddNode`, and with it the start of the network.
`ShutdownAll` holds the network's lock until all daemons have stopped.

What is hard here: writers that join, stall, fail and leave while the pump is
between a read and its delivery; long lines that cross several reads while other
nodes write; streams that close between two steps; nodes that join at the same time
and each see a list without the others; checks of the size or the type made long
before the append; every external call failing; a shutdown at any moment;
goroutines that share a loop variable; an address that is checked, created and
stored without a lock; balances and order books that change between the look and
the use; commands that hang.

What makes each part correct:

- *log endpoint*: a viewer's log has no gap and no repetition, it starts early
  enough, and nobody that keeps reading is left out for ever;
- *log mixing*: lines come out whole, once, in the order of their source, and every
  line accepted comes out;
- *network, spawner*: repos are not shared, no daemon is forgotten, the spawner keeps the
  maximum and the share of miners, the nodes end up connected but for failed connections,
  start and shutdown end as far as the log is read;
- *mining*: epochs do not overlap, and each winner mines;
- *conversion*: lines that belong together come out together and agree, and those
  about blocks, deals and payments say who acted whichever daemon logged it;
- *actions*: a deal is the best of what its action saw, a bid is used twice and a
  payment lacks funds only if something overlapped, a miner has one address in the
  end, and no action outlives the context but in a command that is not given it;
- *AsyncErrs*: it returns, never sends on a closed channel, and reports errors.

## 2. The modules

| Module | Models |
|---|---|
| `LogFanout` | abstract: what a viewer of `/logs` is promised |
| `LogHandler` | the log endpoint, which implements `LogFanout` |
| `LogHandlerProofs` | theorems about `LogHandler` |
| `LineMix` | abstract: what the merged log promises |
| `LogMixer` | the pipes and their goroutines, which implement `LineMix` |
| `LogMixerProofs` | theorems about `LogMixer` and `EventConvert` |
| `EventConvert` | `convertEL2SL`, as pure operators that `LogMixer` uses |
| `LogPipeline` | `LogMixer` and `LogHandler` composed, from the node to the browser |
| `LogPipelineProofs` | theorems about `LogPipeline`, from those of its parts |
| `Network` | `Network` and the spawner |
| `NetworkProofs` | theorems about `Network` |
| `Mining` | `mineBlocks` |
| `MiningProofs` | theorems about `Mining` |
| `DealMatch` | `getBestDealPair` and `extract...`, as pure operators that `Actions` uses |
| `DealMatchProofs` | theorems about `DealMatch` |
| `Actions` | the four random actions and the end of `AddNode` that they race with |
| `ActionsProofs` | theorems about `Actions` |
| `AsyncErrs` | `AsyncErrs` |
| `AsyncErrsProofs` | theorems about `AsyncErrs` |
| `MCActions` | the terms of asks and bids, and the symmetry, for TLC |

Definitions named `...Late`, `...Open`, `...Always` and the like, each commented as a
mutant, are faulty variants of the action below them. Nothing uses them but the
mutation runs listed in `PROJECT.json`, which show that every property can fail.

### LogHandler

A chunk is the number of the `Read` that returned it, which is what `buf` holds.
`ring`/`at` are the `RingWriter`'s slots and handle. The slices `ws` and `newWs` are
sets, because the order of their elements is visible to nobody, and an entry set to
`nil` is an element removed; `todo` is the part of a slice that a `range` loop has
not come to. `pc` is where the pump is: `first` (line 42), `read`, `select`,
`drain`, `catchup`, `deliver`, `done`. `cur` and `p` are the writer and the slot of
a catch-up under way, so that clients stall and drop between two slots.

A client is `up`, `stalled` (a write to it blocks) or `down` (a write to it fails).
The three cases of the `select` are three actions; with the context done *and* a
writer waiting either may be taken. `Wait` makes the connection fail because the
server finishes the response when the handler returns, while the pump still holds
its writer.

`since[c]` is a history variable: the chunk in `buf` when `wch` took the writer.

### LogMixer

`npipe[n]` is the pipe of node `n`'s `SimLogger`, `apipe` the aggregator's. A pipe is
modelled by what `io.Pipe` does: a lock held for the whole of a `Write`, what is left
of that `Write`, and whether it is open. A line is a sequence of units, the last one
its newline; `part[n]` is what `mixScanner` has collected, `tail` what the reader has
since the last newline. `tpc`, `apc` and `spc` are the positions of
`transformEventLogs`, of `AddNode`'s announcement and of `mixScanner`.

`Decode` takes an event that becomes 0, 1 or 2 lines, `DecodeError` is the end of the
event stream. A `Write` that found the pipe open and has the lock may still be
received after the pipe closed, and `WriteEvent` has no guard on `open` for that
reason; a scanner that reads a closed pipe leaves.

### EventConvert

JSON objects are functions, and so are lines; `NewSimEvent` is `newSimEvent` with the
assignments that follow it; `At` is Go's index expression, null for a
key that is not there, and `Broken` is a value of another type than the one expected.
There is one operator for each operation that `convertEL2SL` knows. What the code does
with damage is what it does here: null decodes to a zero value without an error, so
that an event without a block shows one, and an event without a message is shown as
a payment; a value that does not decode ends the conversion. `Panics` says for which
events the process ends (`addDeal`, whose parameters did not decode).

`Events` holds events of every operation with every kind of damage the code looks for.
Nothing is assumed of the values TLC is given but that null and damage are told apart
(`ValuesDiffer`). `PairFits` and `ActorFits` are about the lines of one event. In `ActorFits`
the types of lines are in two classes, those that are the same from every daemon and those that
are about the daemon; lines of asks and bids are in neither, because code and comments differ
on them (see "Seen on the way").
The properties are about all of them, the theorems about every event; `LogMixer` states them of its transformers
(`Decoding`), which take the number of lines of an event from here.

### LogPipeline

The state is that of both parts, `log` is a history variable with what each chunk
holds. `ReadChunk` is the one joint step; in all others one part rests. The context is
done only when `runService` returns, and the process ends with it, so that there is no
cancellation here; the aggregator's pipe has nobody that closes it, so that `Read` does
not fail. `StopReading`, `SelectDone`, `Wait` and `ReadError` are therefore left to the runs of
the parts.

### Network

A node is its repo number; `nodes` is `n.nodes` as a set, `ntype` and `daemon` the
type and the process. There is a caller of `AddNode` for each of the first
`StartNodes` goroutines, and `Spawner`, the goroutine of `addAndRemoveNodes`, which
also runs the connection pass through the same `Snapshot`/`Connect` steps. `todo` is
the copy of the list made under the lock. The lock is held over single actions, so
it needs no variable, except by `ShutdownAll`, which holds it while `shut` is
`"stopping"`: every action that takes the lock has `LockFree`.

Every call of a daemon may fail: `StartFails`, `IdentifyFails`, `ConnectFails`, the
second alternative of `Mine`. So may `Shutdown`, whose error nobody looks at (network.go:173,
179, 185, and AsyncErrs loses it at 359): `ShutDown`, and the daemon runs on, `"stuck"`. `StartFails`
may leave a process, because `Start` can fail after it started one.
`failed` is a history variable.

The announcement is one action here and is described by `LogMixer`. What `Network` keeps of the
log is the `reader`: nobody yet, the pump `"reading"`, the pump `"stalled"` in a write to a
client, or `"ended"`. The pump has the context of the network (main.go:173-177) and may return as
soon as it is done, between a `Read` and its delivery (logs.go:74); an `AddNode` in `WriteEvent` then
waits for ever, and `wg.Wait` or the spawner with it.

### Mining

`n` is the loop variable that the goroutines share with the loop; `MiningOnce(k)`
reads it when the goroutine of iteration `k` runs.

### DealMatch and Actions

The ID of an ask or a bid is its index in the order book. The errors of `extractAsks`,
`extractUnusedBids` and `getBestDealPair` are the empty set. `sort.Slice` is not stable:
`SortedAsks` is the set of all orders it may leave.

A thread is a slot, which holds an action in progress and then the message it has posted,
or the end of a node's `AddNode` from its registration on. `Tick` starts an action in a free
slot, whatever else is under way; `note` are its local variables. `periodic` looks at the context
before it starts an action (randomizer.go:92), so that the context may be done in between: `Cancel`
chooses whether `periodic` was past its look (`late`), and one `Tick` may follow then. `seen`, `nasks` and
`nbids` record how much of the wallet's debits, the deals, the asks and the bids it had
seen; `nasks` is also where the code keeps the asks it has read.

`MinerAddr` is a string of two words, stored without a lock: `StoreLength` and
`StorePointer`. In between, an address that was empty has a length and no bytes (`Torn`),
and whoever uses it panics. An address is named for the thread that created it. All
addresses are of one length, so that a second store tears nothing. `AddNode` prints the address
with a load of each word (`PrintPointer`, `PrintLength`); `GetIdentity` is the load of the pointer,
because its goroutine has seen, or stored, the length before.

The chain is external. A command posts a message (`Post`) and returns, hangs or fails
before or after that; the message lands in any order or is lost. All daemons agree on
the chain. A payment or a bid lands if there are funds: a bid takes its price times its size
from the wallet of the bidder, and the creation of a miner its collateral, as the messages and
comments of eventlogs.ndjson:165-166 and simlogger.go:183-184 have it. `spent` counts the debits of a
wallet. What a node mines after its first block is left out, and so is the daemons' own refusal of
a used bid: more money would only make fewer payments short, and no property says how many are.
Commands that are given the context are killed with it, and payments have a timeout; the others
may hang (README.md:41).
`RandomFile` is what `randfile` may come to for each state of the test directory.

### AsyncErrs

One action per statement that other goroutines can tell apart. `errc` is the content
of the buffered channel, `errs` the slice that is returned.

## 3. The runs

| Run | Question | Bounds |
|---|---|---|
| `log_handler` | Does the endpoint implement `LogFanout`, does a viewer get what was published after it queued, and is everybody served? | 2 clients, ring of 2, `wch` of 1, 4 reads |
| `log_mixer` | Are lines whole and in order, is every accepted line shown, and does an announcement end? Do the lines of events agree and name who acted? | 2 nodes, 2 lines of events each, lines of 1 or 2 units, reads of 1; all `Events` |
| `add_deal_data` | Does a line of `addDeal` show the data? **No.** | all `Events` |
| `log_pipeline` | What does a browser see of the nodes' logs? | 1 node, 2 clients, lines of 1 or 2 units, reads of 1, ring of 2 |
| `network` | Repos, stray daemons, miners, connections; do start and shutdown end? | 2 at the start, at most 3, 3 repos |
| `network_pass` | Does the pass try all pairs? **No.** | 3 at the start |
| `mining` | Are epochs apart, does the loop end, which miner does a goroutine find? | 3 miners, 2 drawn, 2 epochs |
| `mining_leaders` | Does a leader mine once? **No.** | 2 miners, 2 drawn, 1 epoch |
| `async_errs` | Does it return, without a panic? | 4 calls |
| `async_errs_reported` | Are errors reported? **No.** | 2 calls |
| `actions_market` | What do stale looks at the order book, at a wallet and at `MinerAddr` lead to? | 1 miner, 1 client, 2 slots, all kinds; 2 asks, 2 bids, 2 deals, 1 payment of each; two kinds of asks |
| `actions_drain` | Does everything end that can? | 1 miner, 1 client, 1 slot, all kinds; 2 asks, 2 bids, 1 deal, 1 payment of each |

Why the bounds are enough to be interesting. With two clients and a channel of one, one
client waits for `wch` while the other is in it, and the drain finds a second writer that
queued after the `select`. With four reads a ring of two wraps around, so that its oldest
chunk is overwritten. `LogBufferSize` is 5000 and the capacity of `wch` 20 in the code;
the proofs cover every size and any number of clients. Lines of two units with reads of one take two reads at each
of the two pipes, so that every writer can be caught in the middle of a line. In
`log_pipeline` the first client is served live and the second is caught up from a ring
that may begin in the middle of a line; two nodes that compete for the pipe are the
subject of `log_mixer`. A source has one line there, so that its order in a viewer's chunks is
the subject of the theorem (`ViewersReadLinesAlways`, for any number of lines) and that in
the merged log of `log_mixer` too, which has two lines of a source. Two nodes that join at once miss each other, and one more joins
after the pass; the proofs cover every number of nodes. Two slots are two actions that overlap: two asks of a node without an
identity, a payment and a bid of one wallet, two deals that read the same bids. The bid of `MCActions` fits only the dearer of its asks; an order book
of one counts as empty (randomizer.go:423), so that every deal needs two of each, which is
what the runs have. Mining pays a wallet for both of its bids and nothing more, so that a payment that
was checked before them is short after them (`MaxPays` bounds the debits of a wallet that a payment
may follow); payments that overlap each other are covered by the theorem. There is one client: that a deal uses the bids of its own client only is in
`IsBest`, and proved for any number of clients. In `actions_drain` one slot is enough, because actions
wait for nothing that another one does; its actions go all the way to a deal that is proposed.
(`MaxAsks` counts asks on the chain or on the way there, so that asks that fail are followed by
others; so do the other bounds.)

`MaxReads`, `MaxLines`, `MaxRepos`, `MaxEpochs`, `MaxAsks`, `MaxBids`, `MaxDeals`, `MaxPays` bound
what would otherwise run for ever: the first ends the log stream, the second leaves the
daemon silent, the third makes the spawner sleep, the fourth leaves `mineBlocks` asleep, the
others keep new actions from starting. In `log_pipeline` `MaxReads` is as many chunks as the
lines have units, so that it stops nothing.

Deadlock is not checked: every one of these systems may come to rest, when the
context is done, the log has ended, or nobody attaches to it.

### Fairness

- `LogHandler`: the pump's and the handlers' own steps are weakly fair (goroutines
  run), and a client that stopped reading reads again (`Resume`) or goes away. This
  one is an assumption about clients, and it is needed: the code sets no write
  deadline, so one client that stops for ever stops everybody. Writes to a client
  are strongly fair, because it may stall and resume again and again. `Read` has no
  fairness.
- `LogMixer`: weak fairness of the goroutines and of the pump while it lives. Whoever waits
  for a pipe's lock may be overtaken, but within the bounds not for ever; without
  them it is Go's mutexes, which hand over to a waiter that starves. Daemons need not
  emit anything.
- `LogPipeline`: one weak fairness for all goroutines, which is enough because each has
  finitely many steps within the bounds; clients are as in `LogHandler`. That the pump
  keeps reading is no assumption here but the property `LinesAreTaken`.
- `Network`: weak fairness of every goroutine and of the calls to daemons, which is
  an assumption about the daemons: they answer. A client that holds up the pump reads on or goes
  away (`Resume`), again and again perhaps, so that the announcement has strong fairness while
  the log is read. Nobody has to attach or to cancel, nothing is assumed of a log whose pump has
  returned, and the pump need not return when it may: both outcomes are in `BootEnds` and `SpawnerStops`.
- `Mining`, `AsyncErrs`: goroutines run and their calls return.
- `Actions`: goroutines run. Any command may hang for ever. Those that are given the context end
  at their timeout, if there is one, or when the context is done; the others need not (`Unbound`).
  Neither the chain nor the spawner owes anything.

### What the failing runs show

- `network_pass`: `ConnectNodeToAll` returns at the first failed `Connect`
  (network.go:271), although it goes on to report a count of failures; one failure
  leaves pairs untried that the pass is to "ensure" (randomizer.go:128).
- `add_deal_data`: simlogger.go:342 takes the data of a deal from the parameter that holds
  its signature.
- `mining_leaders`: the goroutine of randomizer.go:187 uses the shared `n` (the module
  predates per-iteration loop variables), so two winners may mine as the same
  miner. `NoEarlierMiner` says what does hold: only a later one can be picked.
- `async_errs_reported`: wgerr.go:23 ranges over the empty `errs`, not over `errc`, so
  neither `AddNodes` nor `ShutdownAll` ever returns an error.

### Seen on the way, without a run

- main.go:72 calls `--max-nodes` the "maximum number of nodes to spawn", but the nodes of the
  start are added without a look at it (randomizer.go:112-126): with `--start-nodes` above it the network is
  larger from the beginning. `SpawnerKeepsMaximum` is what does hold, of the spawner's own nodes;
- simlogger.go:85-86 list `from` of the lines `AddAsk` and `AddBid` as the one who asks or bids; the code
  (111-121) leaves the daemon that logs there, whoever that is (`EventAskers`);
- simlogger.go:42-46 and 83-90 list fields that no line has: `tx` in lines of asks, bids, deals and payments,
  `to`, `price` and `size` in some of them, `size` of a file (266-269); and no line of the
  listed types for leaving nodes occurs, because nobody removes a node. `from` is now a wallet,
  now a peer, now a miner;
- the errors of `Shutdown` on the failing paths of `tryCreatingNode` are ignored (network.go:173, 179,
  185): a daemon that does not stop runs on and nobody knows of it. `NoStrayDaemon` is about the others;
- an `AddNode` that announces its node when the context is done may wait for ever (network.go:216 and
  logs.go:74), as may a handler in `AddWriter`; both end with the process;
- nodes whose `AddNode` is past its reservation when `ShutdownAll` looks at the list are registered
  afterwards and run on;
- the only ask, or the only bid, counts as none (randomizer.go:423, 446);
- an empty test directory makes `rand.Intn` panic (randfile.go:25), a missing one does not;
- `HasMinerIdentity` says the opposite of its name (network.go:105), and nothing calls it;
- `GetNodesOfType` is to be called "with lock held" (network.go:304), and would then
  deadlock: it takes the lock itself, and its callers do not hold it;
- every kind of action may be started more often than it ends, and only payments have a
  timeout: until the context is done, hung actions accumulate.

## 4. The proofs

`LogHandlerProofs` proves, for any set of clients, ring size, channel capacity and
number of reads (`NilAssumption`, `SizeAssumption`):

- `TypeCorrect`: `Spec => []TypeOK`;
- `NothingMissedAlways`: `Spec => []NothingMissed`;
- `Refinement`: `Spec => RefinesFanout`, every step of the pump is a step of
  `LogFanout` or a stutter.

The argument. `IInv` is a conjunction of named parts, and `Invariance` proves it
inductive, one step per action:

- `Places`: a client is in exactly one of `wch`, `ws`, `newWs` and "nowhere", and
  `cur`, `todo` fit to `pc`;
- `RingInv`: the slot at distance d behind the handle holds chunk `Age(d)`, so the
  ring holds the last `LogBufferSize` chunks with the oldest at the handle; it is
  what ties `p`, the slot a catch-up visits, to a chunk number;
- `Windows`: what a client has is a run of consecutive chunks, ending where its place
  in the loops says (the previous chunk, the current one, or the slot before `p`).
  It refers to the ring only through `RingInv`, and without it the refinement has no
  reason to append the *successor* of the newest chunk;
- `SinceInv`: a queued writer's `since` is the current chunk or the one before it,
  because each round drains `wch`; hence its catch-up reaches back far enough.

`NothingMissed` and the step simulation follow from `IInv` alone. `LogFanout!Feed`
is matched by `WriteSlot` and `Deliver`, `Publish` by `Read`, and `Lose` by a client that
goes down.

Two more theorems say what the refinement means for a viewer, and are proved from the
steps of `LogFanout` only:

- `ConsecutiveAlways`: the chunks of a viewer follow each other, through the catch-up and
  the move from `newWs` to `ws`;
- `FromStartAlways`: while the ring has forgotten nothing, they begin with the first.

Of the pump's progress:

- `RoundsEndAlways`: `Work` bounds the steps of the pump before its next `Read`, by the sizes
  of the slices and of the ring; every step of the pump lowers it, and nothing raises it but
  a new request;
- `NeverBlockedAlways`: between two `Read`s only a viewer that stalls, and whose request is
  open, holds the pump up. Since `HandleHttp` returns when the context is done, a stalled viewer
  does not keep the endpoint from ending;
- `StrandedForEver`: once the pump has returned, a handler that finds `wch` full never
  leaves `AddWriter`. Nothing in the code says that it should.

`LogMixerProofs` proves, for any set of nodes, lines and reads of any length and any number
of lines (`MixAssumption`), that `TypeOK` and `TailIntact` always hold and that `Spec`
implements `LineMix` (`Refinement`). The parts of its `IInv`:

- `WriterFits(n)`: whoever is in a `Write` to the pipe of node n has its lock;
- `LinesFit(n)`: how many lines the sources of n still have;
- `ScannerFits(n)`: what `mixScanner` has collected and what is left in the pipe are
  together one line (`Split`), the one after those accepted; a line collected in whole is
  accepted and not yet shown (`Behind`); otherwise all that was accepted is shown;
- `ReaderFits`: the same for the aggregator's pipe and `tail`, and its owner's scanner
  is writing.

`TailIntact` alone is not inductive: it says of the tail that it begins some line, and
not that the rest of *that* line is what the pipe still holds. The step lemmas rest on
lemmas about cutting and joining lines (`CutAll`, `CutTwo`, `CutJoin`, `ReadSplit`, ...). In the
refinement, `Accept` is matched by the read that takes the newline at a node's pipe, `Show`
by the one that takes it at the aggregator's, and all others stutter.

Of the conversion it proves that for *every* event, whatever is missing or broken in it,
the lines of a pair come out together and agree (`EventPairs`), that the lines of blocks,
deals, payments and miner creations are the same from every daemon and all others but those of asks
and bids name the daemon (`EventActors`), and that asks and bids are attributed to whoever logs them
(`EventAskers`). `PairsAgree` and `ActorNotLogger` follow. `EventLines` is the case
distinction behind them: an event becomes nothing, a line about the daemon, a line about
others, or a pair.

Of the progress of lines: `LinesEndAlways` says that every step of a scanner or the reader
brings one line nearer to the reader and moves no other line back. In the order (what is
left in the node's pipe, where the scanner is, what is left in the aggregator's pipe) each one
goes down, so that a line of k units is shown after 3k + 1 such steps at most, however many
nodes write. `NobodyStuckAlways` says that while a line is on its way a goroutine of its
node can step, or there is something to read; it needs that a scanner which has left its loop
found the stream closed (`ExitsClosed`).

`LogPipelineProofs` proves, from `MixAssumption` and the assumptions of the endpoint
(`PipeAssumption`), that the composition keeps to the specifications of both parts
(`MixerInside`, `HandlerInside`), so that all theorems above hold of it. Then

- `OneLineBeforeViewerAlways`: `PipeSpec => []OneLineBeforeViewer`. With `StartsWithViewer`
  (no pump without a client that is attached, and nothing shown before the pump), the
  bound comes from the mixer's `IInv`: at most one line of a node is behind;
- `ViewersReadLinesAlways`: `PipeSpec => []ViewersReadLines`. Two invariants of the whole log
  carry it. `LogFits`: the chunks, cut as they are, go on from unit to unit, and the
  end of the last one is the mixer's `tail`. `AllNumbered`: the lines of a source begin in the
  chunks in order, each in one chunk, up to the last one `Begun`, which is one more than
  `shown` while the reader is in the middle of a line of that source; without that case
  the invariant is false after a read that cuts a line. A step other than a `Read` changes
  none of this (`OnlyReads`), and what a `Read` takes is known from the mixer's `IInv` (`ReadTakes`).
  The endpoint's `Consecutive` (a viewer's chunks are numbered one after the other, across
  the catch-up, `EndCatchUp` and the live chunks) and `FromStart` give it to the viewer;
- `PipeNeverStuckAlways`: `PipeSpec => []PipeNeverStuck`. Once a viewer has queued, a line on
  its way is held up by nothing but a viewer that stalls: `NobodyStuck` and `NeverBlocked`
  meet at the aggregator's pipe, where what the one leaves to the reader is what the pump
  reads.

`NetworkProofs` proves, for any number of nodes at the start, any maximum and any number
of repos (`ArgsAssumption`), that `TypeOK`, `UniqueRepos`, `NoStrayDaemon`,
`MinerShare` and `MissedOnlyByFailure` always hold, and that no step of the spawner exceeds the maximum
(`SpawnerKeepsMaximum`, from `Decided`). The parts of its `IInv`:

- `SpawnerPlaces` ties the spawner's two counters together and says that all starters
  are done once the start is: from then on nobody but the spawner appends a node;
- `ReposFresh`: repos from `repoNum` on are untouched, hence a new one is nobody's;
- `Started`: a node of the start belongs to one starter, a miner to one with an even
  number. This turns into bounds on the sizes of the sets (`StarterBound`,
  `EvenBound`, from the library's facts on surjections);
- `Decided`: what `CheckSize` and `NextRandomType` saw stays true until `Register`,
  many steps later;
- `PassInv`: the node that the spawner is connecting has `Tried` all nodes it has
  passed, and the pass leaves behind only nodes that have tried all: they are connected, or
  have had a failure. Without it `MissedOnlyByFailure` is not inductive: it says nothing
  during the pass.

Frame lemmas (`StartedFrame`, `CountFrame`, `PassFrame`, `Frame`) say once what most
actions leave alone.

`EndsNearAlways`: every step brings one call of `AddNode`, the spawner or `ShutdownAll` nearer
to its end, and leaves the others where they are. The stages of a call fall, and in the
stages that loop (`connect`, the pass, the stops) a finite set shrinks. Only `periodic` starts
over, and not when the context is done. `NeverStuckAlways`: while nobody holds the lock and
the pump is reading the log, every call of `AddNode` has a step to take until it is over, and so has the
spawner, except that it waits for the starters at the beginning. It needs the invariant `ReposLeft`:
the starters do not run out of repo numbers (`MaxRepos` is a bound of the model).

`MiningProofs` proves, for any set of miners, any number drawn and any number of epochs
(`MiningAssumption`), that `TypeOK`, `EpochsApart` and `NoEarlierMiner` always hold. Its
`IInv` says that the loop variable is the miner of the last iteration begun
(`LoopVariable`), that no goroutine runs ahead of the loop (`Started`), and that all are
back outside of `range` and `wait` (`AllBack`). `EpochsEndAlways` counts what is left of an
epoch (`ToGo`, iterations to begin and goroutines that are owed), which every step lowers
unless it begins another epoch before the context is done; `NeverStuckAlways` says that the loop or one
of its goroutines can always take such a step.

`AsyncErrsProofs` proves, for any number of calls (`NumAssumption`), that `TypeOK` and
`NoSendOnClosed` always hold, and `RoomForAll`: no send ever finds the channel full. The
argument counts: `wg` is the number of goroutines not past their `Done`, the length of the
channel that of those past their send, and the channel is closed only when all are back.
`StepsCounted` says that 4 * `Num` + 2 steps remain at the start and each takes one away, and
`NeverStuckAlways` that one can be taken until none is left: `AsyncErrs` returns in whichever
order its goroutines run.

`DealMatchProofs` proves of `getBestDealPair`, for order books of any length and every order
that the sort may leave equal keys in: what it returns is the wallet's first unused bid
that fits an ask, with a cheapest ask that it fits (`BestPair`, `BestOfBooks`), and it returns a
pair if there is one (`PairFound`).

`ActionsProofs` proves, for any nodes, slots, terms and bounds (`ActionsAssumption`), that
`TypeOK`, `ShortOnlyByOverlap`, `TornBeforeAsks`, `DealsBest` and `ReuseOnlyUnseen` always hold,
and the action property `IdentitySettles`. The parts of its `IInv`:

- `NotesFit`, `NodesFit`: what an action has noted is what the code has computed at its place,
  and only miners are in `CreateOrGetMinerIdentity`;
- `PaymentsFunded`: from the check on, either the wallet has the funds or it has been
  debited since, through every command and every message on its way;
- `AsksWhole`: who has stored or read an address has left one there; an ask that goes
  out has a whole one. `crashed` is what separates the two: the ask that read a
  torn address takes the process with it;
- `DealsChosen`: the order book that a deal action has read is a prefix of what is there
  now, so that its choice remains the best of it (from `BestOfBooks`); and a deal has seen
  only deals before itself. `ReuseOnlyUnseen` follows because a bid chosen by a deal
  that had seen another is none of the bids dealt until then.

`EndsNearAlways`: an action or an `AddNode` takes nine steps at most (`Stage`), a message
leaves the way to the chain once, and after the cancel one action may start, if `periodic` was past
its check, and no second. `DrainedForEver`: when none is about to start after that and the last one is over,
none follows. That an action can always step is not a theorem here: commands without a context may hang.

These theorems, that every step is one of finitely many towards an end and that
somebody can always take one, are the part of the liveness properties that is about safety.
They hold for every value of the constants, where TLC's runs have small ones. What they leave
open is that a goroutine which can step does: that is the fairness of section 3, and
that it suffices is what TLC checks.

Only model-checked is all liveness (`NewcomersServed`, `LaggardsCatchUp`, `AcceptedIsShown`,
`AnnouncementEnds`, `LinesAreTaken`, `AnnouncementSeen`, `BootEnds`, `SpawnerStops`, `MiningStops`,
`Returns`, `PaymentsEnd`, `ActionsDrain`), which TLAPS cannot prove with fairness.

## 5. What is not modelled

- `AddNodes`, which only tests call; `GetNode`, `GetNodeByID` and the order of the list; the fields
  of a node other than its type and its miner address.
- `SimLogger.Close`, `LineAggregator.Close`, `extractDeals`, `HasMinerIdentity`: nothing calls them.
- `NetworkChurnEvent`: the line that `AddNode` announces is a line like others in `LogMixer`, and what
  is in it is two fields.
- The look-up of wallet addresses by a payment, which is one step with its look at the balance.
- `parseArgs`, the file server and the end of the process: no state of interest; that
  the process may end before `ShutdownAll` does is listed as a hazard.
- `demos`, `bin`: shell scripts and web pages.
- The daemons and the chain, beyond what the code relies on; forks, above all, in which
  two daemons list different order books.
- The bytes of a line, of a chunk and of a random file.

## 6. Plan

The order is that of importance: what a viewer sees first, then the network it is
about, then the traffic on it.

1. `LogFanout`, `LogHandler` and its proofs; `LineMix`, `LogMixer`; `Network` and its
   proofs; `Mining`; `AsyncErrs`. Done.
2. `DealMatch` and `Actions`; `EventConvert`; `LogPipeline`. Done.
3. Proofs of the invariants of `Actions`, `DealMatch`, `Mining` and `AsyncErrs`; the refinement of
   `LineMix` by `LogMixer`; the conversion of every event; the proofs about `LogPipeline`.
   Done.
4. Proofs that steps end and that nobody is stuck, in every component but for `Actions`, where
   commands may hang; `MissedOnlyByFailure`. Done.
5. A network whose daemons disagree on the chain, for `Actions`.
