# Moodist: TLA+ models, model checking and proofs

This directory keeps a formal model of moodist beside its code. Moodist is a
PyTorch process group: a shared library (`core/`) with a decentralised key-value
store (`TcpStore`), tensor queues between ranks (`Queue`), and collectives that
one CPU thread per rank drives over RDMA and shared memory.

Run a model with `tlc -config <cfg> <module>`; check a proof with
`tlapm <module>.tla`. `PROJECT.json` lists the runs, the mutants that show each
property can fail, the source lines of every definition, the hazards and the
theorems.

## 1. The system and its modules

| Part | Code | Module |
|---|---|---|
| One edge of the store's mesh: connections, sequence numbers, acknowledgements, retransmission | `store.cc`: `EdgeInfo`, `connectEdge`, `onreadtcp`, `sendMessage`, `keepalive`, `addConnection` | `StoreLink` (with `SeqArith`); promise: `FifoChannel` |
| The mesh and its routing tables | `store.cc`: `findPaths` | `StoreMesh` |
| Broadcasts over the mesh | `store.cc`: `broadcastMessage`, `forwardBroadcast`, `replayPendingBroadcasts` | `StoreBroadcast` |
| Shutdown | `store.cc`: `close`, `runCloseStateMachine`, `processMessage` | `StoreShutdown` |
| Key-value operations | `store.cc`: `set`, `get`, `check`, `wait`, `doWaitOp`, `internalStore*` | `StoreOps`; promise: `AtomicStore` |
| The locks of a waiting operation | `store.cc`: `Wait::wait`, `exitWait`, `getConnectionDiagnostics` | `StoreWait` |
| Queues | `queue.cc`, the queue handlers of `cputhread.cc` | `TensorQueue` |
| Routes of the CPU collectives | `allgather.cc`: `AllGather::init` | `AllGatherRoutes` |
| Works of the CPU thread and their scheduler | `cputhread.cc`: `Work*`, `entry`; `processgroup.cc`: the calls that enqueue them | `CpuWorks` |

The modules stack as the code does. `StoreLink` shows that an edge is a pair of
FIFO channels; `StoreMesh` that first hops are shortest; `StoreBroadcast`
assumes both and shows that a broadcast arrives once and in order;
`StoreShutdown` and `StoreOps` assume that of the messages they exchange.
`TensorQueue` and `CpuWorks` do not use the store: they stand on RDMA sends,
reads and writes that complete once and in any order. `CpuWorks` extends
`AllGatherRoutes`, so the routes that the code computes are the ones its works
follow.

`MC*` modules give the constants their values for TLC.

### StoreLink

A handler of the store runs to its end on the store thread under the store
mutex, so each handler is one action. The n-th message that a side hands to
`sendMessage` is named n; the code sees only n modulo `SeqMod` (2^32). TCP is a
FIFO channel per direction that may break at any moment and lose its tail
(`Break`, `LoseTail`); connections of both sides may cross (`ConnectEdge` from
either side), are adopted on `signatureConnect` or `signatureConnectAck`
(`AdoptConnect`), and are closed by read errors, keepalive and shutdown.
`delivered` records what `processMessage` was given.

The guard `Recent` of the two sending actions says that no message lives
through 2^31 newer ones. The code does not enforce it; it is the assumption
under which signed distances order sequence numbers at all.

### StoreMesh

`findPaths` draws one shortcut per rank and repairs unusable draws, then runs a
breadth-first search that shuffles its neighbours. Random draws are
nondeterministic choices, so the run covers every mesh of its size. Each
iteration of a loop of `findPaths` is a step.

### StoreBroadcast

Each pair of neighbours has a channel; `AdoptConnect` is the moment an edge
first comes up, until which copies are kept in `pendingBroadcasts`. The routing
tables are constants with the assumptions that `StoreMesh` checks and
`StoreMeshProofs` proves of them.

### StoreShutdown

`close` on any rank starts the three phases. A plan says which stores close and
which deadlines may pass. `Cut` stands for a rank that has closed and no longer
passes messages on. A rank that is only about to close still does, so what a rank
on the way may spoil depends on when it closes: that is `GracefulExit`. The run has
three ranks, which are all neighbours; the theorem about it has any paths.

### StoreOps and AtomicStore

Client threads call `set`, `get`, `check` and `wait`; requests go to the owner
of the key and the answer comes back to a `Wait`, or finds that the caller has
timed out. The code keeps the waiters of a key in one list; `storeWaiters` keeps
them apart by the rank that waits, since a set answers all of them in one step
and there is no order between messages to different ranks. `AtomicStore` is the table that all of this is meant to be: a call
takes effect at one moment between its start and its answer, and the calls of a
rank do not overtake its earlier sets of the same key.

### StoreWait

The same operations at the level of the two spin mutexes and the futex, to ask
whether an exit wakes them.

### TensorQueue

Application threads, the host functions of their CUDA streams, and the CPU
threads of the ranks. A put becomes a task, the task a numbered message, and the
receiver puts messages in order again. Small tensors travel in the message;
large ones are fetched with RDMA reads that finish in any order. `store[r]` is
the `QueueStorage` of rank r: items announced and not ready, open transactions,
waiting gets. Calls that lock, compare and unlock are split where another thread
can come between. A failed `CHECK` sets `failed`. The `CHECK`s that compare the
sizes of a queue with its vector are left out, except that of `putQueueSize`, and
so is the error of a get on a multicast queue from a rank that is not a location.

`AllOrNothing` and `FifoPerSender` are about the rank that puts go to, the first
location of a multicast queue. `CopiesAgree` says what the other locations may show:
a beginning of it, in the same order. It may end within a transaction, which is
what `queue_multicast` finds.

### CpuWorks

A work is a coroutine; its script is the sequence of its sections, each with the
condition it waits for, the control and data transfers it posts and the `CHECK`s
it makes. `StepWork` runs one section. Control writes take their value from the
sender's buffer when the device sends it, which is what makes early reuse of the
buffer visible. Memory is one cell per slot (`inDyn`, `inStepValue`,
`internalInStepValue`, `cpuProxyReady`, ...) and concurrency index. `got`
records which inputs, chunks or parts reached a result, and through whom.

A program is a sequence of operations that every rank requests in this order, and a
call that returns no future blocks its thread. Making a queue does not look at the
lock that keeps other threads out of a process group; in a plan with `queueThread`
a thread of its own does it, and may come while a collective goes on. That is how a
modelled work gets different predecessors in its two lists (CUDA collectives on
several streams, which are not modelled, do so too).

## 2. Runs

| Run | What it asks | Result |
|---|---|---|
| `link` | Messages both ways, crossing connections, one fault, numbers that wrap (6 numbers, 7 messages): in order and once, nothing released early, acknowledgements only on adopted connections | holds |
| `link_live` | One side connects, one fault, either side may close: refinement of `FifoChannel`, delivery, release, and a close is noticed | holds |
| `mesh` | Every mesh of 6 ranks: edges fit `maxEdgePeers`, first hops are shortest, the repair loop can always end | holds |
| `broadcast` | Broadcasts of two ranks on a ring of 4 whose edges come up in any order | holds |
| `shutdown` | With a waiting client, two of three ranks close without the third, or one closes and gives up on the others; or all three close: waits end and name a store that closed, no store closes before the others have exited, `close` ends, and all ranks wake | holds |
| `ops` | Two clients on two ranks, two keys, timeouts: refinement of `AtomicStore`, no lost wake-up, `wait` and `check` speak for all their keys, waiters return | holds |
| `wait_locks` | An exit wakes all waits | violated |
| `queue` | Five plans on three ranks (transactions, cancellation, CUDA puts, remote gets with timeouts, multicast), message numbers that wrap | holds |
| `queue_threads` | Two threads put CUDA tensors to one queue | violated |
| `queue_multicast` | A transaction of two tensors on a queue with three locations | violated |
| `works` | Seven programs of collectives on two to four ranks, one with a thread that makes a queue meanwhile | holds |
| `works_queue` | An all-gather followed by the construction of an unnamed queue on rank 2 | violated |

### What the four violations show

* `wait_locks`. `Wait::wait` calls `getConnectionDiagnostics`, which locks the
  store, while it holds its own mutex; `exitWait` locks the `Wait` while its
  caller holds the store. A timeout that meets an exit stops both threads, and
  every later user of the store, for ever. The internal documentation says that
  an exit wakes all pending waits.
* `queue_threads`. `putQueueSize` is raised before the queue is locked and
  compared with the size of the queue under the lock. A second thread between
  the two makes the `CHECK` fail. The documentation calls concurrent puts safe.
* `queue_multicast`. The first location commits a transaction as a whole, and then
  forwards its tensors to the other locations with one put each, without the key of
  the transaction (`qsAdd`). There the first tensor can be read before the second
  has arrived. The documentation says that all puts of a transaction become visible
  atomically, and does not except multicast queues.
* `works_queue`. `WorkCreateQueue` writes the owner's addresses to slot 0 of
  every rank although the owner is another rank, on concurrency index 0, which
  ordinary collectives use as well. When a rank is still in an all-gather there,
  the value that it waits for with `!=` is overwritten, or overwrites the
  queue's. All ranks then wait for ever. In the `works` run the construction
  follows a barrier, after which slot 0 is free, and all is well.

### Bounds, and why they are enough

* `link`: two connections at once is what crossing needs; 7 messages over 6
  numbers wrap every number; one fault puts a message on two connections. The
  proofs have none of these bounds.
* `mesh`: 6 is the smallest world in which shortcuts, their repair and paths of
  more than one hop all occur. The proofs are for every size.
* `broadcast`: on a ring of 4 the farthest rank is two hops away, so broadcasts
  are kept, replayed and forwarded at the same rank.
* `shutdown`: the third rank is the one that follows, and that must be told. The
  proofs of its invariants have no bound on ranks, paths, clients or deadlines.
* `ops`: two keys with different owners, so that a list of keys spans ranks and
  an operation is local for one client and remote for the other.
* `queue`: numbers start at 14 of 16, so they wrap after two messages; every
  plan has fewer messages than the window.
* `works`: with one or two concurrency indexes an index is reused at once or
  after one operation (the code has 16), which is where stale values matter.
  Two nodes of two ranks is the least that has proxies and shared memory.

### Fairness

* The store thread runs its callbacks and timers, sockets report their end, and
  `keepalive` retries: weak fairness of `ConnectEdge`, `OnReadTcp`, `ReadError`
  and `Reap`. Sending, closing and faults are free.
* In `StoreShutdown` the store threads run, the deadlines that may pass do so and
  messages that are not lost arrive: weak fairness of each. What the two liveness
  properties wait for stays true, so "again and again" says that it comes about.
* In `StoreWait` a thread gets a spin lock that becomes free again and again:
  strong fairness. The violation needs no more than that.
* In `TensorQueue` no step can be repeated for ever, so `WF_vars(Next)` says
  only that something happens while something can.
* `CpuWorks` has no fairness: `NeverStuck` is an invariant. Every action
  consumes a request, a section or a transfer, so progress while possible is
  all that is needed to finish.

## 3. Proofs

`StoreLinkProofs` proves, for every even number of sequence numbers, every
number of messages, connections and faults:

* `TypeCorrect`, `Reliable` (`InOrderOnce`), `Retained` (`NothingForgotten`),
  `AckChecked` (`AckOnAdopted`);
* `Refinement`: `Spec => FifoChannel!Spec` with the identity as the mapping.

`InOrderOnce` is not inductive: nothing in it says that a frame whose number
equals `incomingSeq` is the message that is due and not one that is a multiple
of `SeqMod` older. `IInv` adds, for each side r (`SideInv`):

* every copy of a message of r, in its queue, on a wire or in the peer's reorder
  buffer, carries the number of its position and is at most `Half` messages
  behind (`Good`), which `Recent` keeps true as r sends;
* `incomingSeq` is the number of processed messages modulo `SeqMod`;
* every acknowledgement on a wire is of a message that the peer has processed or
  buffered (`Safe`).

Then a number determines the message among those in use (`SeqArithTheorems`:
signed distance is difference for messages within `Half`), an acknowledgement
releases exactly the message it is for, and in-order delivery and retention
follow. The proof has one lemma per action: `StoreLinkInvariant` for the types,
for sending and for adopting, `StoreLinkProofs` for messages, acknowledgements
and the rest, and the theorems.

Assumptions: `SeqModAssumption` (even and positive), `InitiatorsAssumption`,
`BoundsAssumption`.

`StoreMeshProofs` proves for every size of the world, whatever is drawn and
shuffled:

* `EdgesFitTheorem` (`EdgesFit`) and `ShortestTheorem` (`FirstHopsAreShortest`).

`EdgesFit` is not inductive: it does not say where the edges come from. `MeshInv`
does: `connections` stays a permutation, and every edge of r is one of the two ring
edges, the shortcut of r or that of the one rank whose shortcut is r, as far as the
loops have come. For the search, `SearchInv` says that the visited ranks that are no
longer open have only visited neighbours, that the open ranks are queued by
distance, at most one apart, and that every visited rank has a first hop one nearer.
Distances are defined by a recursive function on the natural numbers; the facts
about it follow from the least number principle. Assumption: `WorldAssumption`.

`StoreBroadcastProofs` proves for every mesh, every routing table with the
assumed hops and every number of broadcasts:

* `BroadcastTypes` (`TypeOK`), `BroadcastOnce` (`OncePerRank`) and `BroadcastTtl`
  (`TtlLeft`).

The last two are not inductive: nothing in them says what is still on its way. `IInv` has a
`Row` for each rank r and source s: the broadcasts of s come to r over its first
hop p towards s and from nobody else (`Feed`). What r has processed, what is in
the channel and what p keeps for r are together exactly what p has, numbered
without a gap, and each copy has `worldSize` minus the distance of p from s as its
ttl. While p has never been connected to r everything is in `pendingBroadcasts`,
afterwards nothing is, so a replay neither repeats nor overtakes a copy. A copy
is not forwarded back because the first hop of p towards s is nearer to s than r
is (`Routes`). One lemma per action: `CastInv`, `AdoptInv` and, for
`ProcessMessage`, `ReceiverRow`, `ForwardRow` and `ProcessInv`.

Assumptions: `WorldAssumption`, `MeshAssumption`, and `RouteAssumption`: the first
hop is a neighbour and one hop nearer, a direct neighbour is its own first hop,
and no two ranks are `worldSize` hops apart.

`StoreShutdownProofs` proves for any number of ranks and clients, any plan of who
closes and which deadlines pass, and any loss of messages behind a closed rank:

* `BlamesInitiator` (`BlameInitiator`), `WaitsEnd` (`NoWaitLeft`), `ClosesLast`
  (`GracefulExit`) and `SourceKnown` (`TypeOK`).

`IInv` adds to them that everything a store or a message says is true: a recorded
or named `exitSourceRank` is a rank that closes, a rank that is recorded as shut
down or exited, or whose message of it is on its way, is so (`Truthful`, `Meant`);
and that the fields of each store agree (`Fit`): past `WaitShutdownAck` it has
exited, and it has left a phase whose deadline may not pass because its peers have
signalled what that phase waits for. `shuttingDown` and `exited` are never reset, so what
was true stays true (`Later`). `BecomesInv` covers every step of a store thread,
and the four phases of `runCloseStateMachine` are one lemma each on what they
hand on (`Ready`). Assumption: `ShutdownAssumption`.

`StoreOpsProofs` and `StoreOpsRefinement` prove for any ranks, keys, values and
clients, any owner of each key and any lists of keys:

* `WakeupTheorem` (`NoLostWakeup`) and `KeysTheorem` (`AllKeysThere`);
* `AtomicTheorem` (`AtomicOperations`): `Spec => AtomicStore!Spec`, where the table
  is `store` and a call has been applied when its answer has come or is on its way
  (`AtomicCalls`).

None of them is inductive: they say nothing of requests and answers on their way.
`IInv` follows each request from its `Wait` to the owner and back (`Consistent`):

* the request of a `Wait` without an answer is on its way, among the waiters, or
  answered, and in one of these places only (`Somewhere`, `Line`, `Apart`,
  `Queue`), so an answer is never given twice;
* the requests of a rank to an owner travel in the order of their calls (`Line`),
  so a call comes after the earlier sets of its rank, timed out or not;
* waiters wait for a key without a value (`Queue`), and an answer that says
  that a key is set is true and stays true, since no operation of the store
  removes a key (`Sound`);
* the operation of a client owns the `Wait`s it has asked for (`Issued`), so what
  it returns is about its own keys.

`Consistent` has a parameter for the requests in hand: a handler takes a request
off its path, then processes it, and a local call does only the second, so
`ProcessInv` serves both. In the refinement a set applies the waiters of
its key in the same step (`SetHits`), any other request applies at most itself
(`OneHit`, `NoHits`), and a message with an answer is the delivery of a call
(`DeliverAbs`). Assumption: `OpsAssumption`.

Only model-checked: all liveness (it needs fairness, and `ENABLED`), that the repair
loop of `StoreMesh` can end, `AllGatherRoutes` (folds and sorting), `StoreWait` (its
property is liveness), `TensorQueue` and `CpuWorks`.

## 4. Observations

Behaviour met while modelling that is not a run of its own:

* A custom operation reads the tensor list of every rank with more than two
  inputs but waits only for the lists it uses (`cputhread.cc`, `WorkCustom`).
  The read of an unused list may end after the work was freed. `BuffersAlive`
  shows it when the last conjunct of `WorksAssumption` is dropped.
* The step value restarts at 1 after 524288 operations; waits for "at least"
  are then satisfied by values of the last round (`getNextStepValue`).
* `customOp` writes its step value without the serializer of the other
  collectives; `CpuWorks` gives each rank a single CUDA stream.
* An empty transaction that is a sender's first contact with a queue fails the
  `CHECK` on `IncomingSource` at the owner (`queue.cc`, 1074 and 1102).
* Host functions of two streams mark their puts ready before they lock; one may
  send both, and the other's `CHECK` finds the queue empty (`queue.cc`, 675).
* `docs/internals/queue.md` says that a put that was waited for is counted in
  the size of the queue; the work is done when the tensor has been read.
* The comment at `store.cc`:1172 calls the shortcuts "non-neighbor, non-self";
  the swap at 1188 may put such an entry at a place that was already looked at,
  and a rank is then left without a shortcut.
* `docs/internals/tcp_store.md`:100 says that waits get a generic error in a
  graceful shutdown; `messageShutdown` records the initiator (`store.cc`:1098),
  and the error names that rank.
* Two ends that keep opening connections to each other are separated only by
  the random pause of `keepalive`; `link_live` lets one side connect.

## 5. Not modelled

* Rendezvous over UDP (`onreadudp`, `connect`, `listen`): its result, that a
  side may open a connection, is an action of `StoreLink`.
* Diagnostics of the store: they report. The one message of theirs that shares
  an edge, `messageDiagnosticSource`, is in `StoreLink`.
* CUDA collectives: half of each is kernel text generated for the device.
  `WorkShutdown` and the heartbeat; `WorkGatherCpu` and `WorkCached`, which
  nothing enqueues.
* Set-up of a group (`setup_comms.cc`, `group.cc`): one exchange of addresses. All
  ranks of a node have ipc access to each other, as `AllGather::init` checks; that
  `group.cc` drops a pair without nvlink where another rank has one is left out.
* Errors for ranks that disagree on what they construct or run (the location of a
  queue, the id of a custom operation): the programs of `CpuWorks` are the same on
  all ranks.
* Planning of compiled operations and resharding: arithmetic on shapes; the
  plan is an input of `CpuWorks`.
* Allocators, containers, serialization: sequential data structures.
* RDMA devices and sockets: taken as transfers that complete, in any order, and
  as FIFO connections that break.
* Bindings, logging, loading of CUDA, NUMA, and the vendored libraries
  (rdma-core, fmt, pybind11).
