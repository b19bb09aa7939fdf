# Sodium in TLA+

A formal model of `sodium`, a functional reactive programming library for Rust:
TLA+ modules translated from the source, TLC configurations that check them on
small instances, and TLAPS proofs that hold for every instance. Paths are given
from the root of the repository (`src/impl_/...`); `PROJECT.json` maps every
definition to its lines.

## 1. The system

A program builds a graph of *streams* (discrete events) and *cells* (values that
are always there), sends events on *sinks*, and *listens*. Every change happens
in a *transaction*; at its end the library propagates the events through the
graph. Streams and cells are reference counted, and a cycle collector frees
graphs that hold themselves.

| component | state | operations |
|---|---|---|
| `SodiumCtx` (`impl_/sodium_ctx.rs`) | `transaction_depth`, the queues `changed_nodes`, `pre_eot`, `pre_post`, `post`, `keep_alive`, `allow_collect_cycles_counter` | `enter_transaction`, `leave_transaction`, `end_of_transaction`, `update_node`, `post`, `collect_cycles` |
| `Node` (`impl_/node.rs`) | `visited`, `changed`, `update`, `dependencies`, `dependents`, `keep_alive`, `cleanups` | `new`, `clone`, `drop`, `add_dependency`, `remove_dependency`, `upgrade`, trace, deconstructor |
| `GcNode`, `GcCtx` (`impl_/gc_node.rs`) | `ref_count`, `ref_count_adj`, `color`, `buffered`, `freed`; `roots`, `to_be_freed` | `inc_ref`, `dec_ref`, `possible_root`, `free`, `mark_roots`, `scan_roots`, `collect_roots`, `collect_cycles` |
| `Listener` (`impl_/listener.rs`) | the node it holds, or nothing after `unlisten` | `new` (weak or kept by the context), `clone`, `unlisten`, `drop` |
| `Stream` (`impl_/stream.rs`) | `firing_op`, a coalescer | `_send`, `map`, `filter`, `filter_map`, `merge`, `snapshot`, `hold`, `accum`, `collect`, `once`, `defer`, `split`, `split_filter`, `split_enum`, `listen` |
| `Cell` (`impl_/cell.rs`) | `value` (lazy), `next_value_op` | `hold`, `sample`, `updates`, `value`, `map`, `lift`, `switch_s`, `switch_c`, `listen` |
| `StreamSink`, `CellSink` | a stream, a cell | `send` |
| `StreamLoop`, `CellLoop` | the looped stream or cell, `looped` | `loop_`, `stream`, `cell` |
| `Lazy` (`impl_/lazy.rs`) | a thunk or its value | `run` |
| `Router` (`impl_/router.rs`) | a table from keys to weak streams, behind a lock | `filter_matches`, its update, the cleanup of a stream |
| `Transaction` (`impl_/transaction.rs`) | whether it is closed | `close`, `drop` |
| `lambda`, `dep`, `name`, `enum_`, the public wrappers | none | |

**How they interact.** A combinator makes a `Node` whose update closure reads the
`firing_op` of its inputs and calls `_send` on its own stream. `send` puts the
sink's node in `changed_nodes`. When the outermost transaction is left,
`end_of_transaction` runs `pre_eot`; takes `changed_nodes` until there are none,
calling `update_node`, which updates dependencies before a node and dependents
after it; lowers the depth; runs `pre_post`, which clears what fired and was
visited; runs `post`, where cells take their values, `once` disconnects and
deferred events are sent, each in a transaction of its own inside of the running
one; and calls the collector if no other `end_of_transaction` is on the stack.
Handles (clones of a `Node` or a `Listener`) count on the `GcNode`; dropping one
makes the node a *possible root*, and the collector looks for garbage from there.

**What is hard.** Most programs use a context from one thread
(`single_threaded_mode` calls what it is asked to spawn), and then the
interleavings are those of callbacks: a node met twice on the way up and down the
graph; one queue for commits, disconnections and deferred sends; a transaction
that ends inside the end of another; a collector that runs deconstructors which
drop handles and so change the very counts and roots it works on; data that dies
by its last handle rather than by the collector; a stream that the collector
frees, and whose entry in the table of a `Router` it strikes out, while that table
is looked up or after the key was given away again; a lazy value that is computed
long after the cells it comes from were changed, under the locks of all the cells
on the way. But a context can be cloned and sent to other threads: its lock is
taken for one field access at a time, and whoever lowers the depth to zero ends
the transactions of all. And a closure may panic in any of them, with the depth
and the collector's counter raised. Section 7 names what each component's
correctness rests on; `PROJECT.json` lists the hazards line by line.

## 2. The modules

| module | models | depends on |
|---|---|---|
| `GcNode` | the collector and the heap of `Node`s and `Listener`s it works on | |
| `MCGcNode` | small heaps for TLC | `GcNode` |
| `MCGcDeferLoop` | the heap of one program, a stream loop looped to its own deferred stream | `GcNode` |
| `GcSafetyProofs` | theorems about `GcNode`: types and counts, nothing live is freed, no assertion fails | `GcNode` |
| `GcGarbageProofs` | ... all garbage is collected | `GcSafetyProofs` |
| `Network` | networks of streams, the combinators, the meaning of one transaction | |
| `Frp` | the promise: one atomic step per transaction | `Network` |
| `SodiumCtx` | transactions and propagation, call by call | `Network`, `Frp` |
| `MCSodiumCtx` | networks for TLC, most of them from the tests | `SodiumCtx` |
| `SodiumCtxProofs` | theorems about `SodiumCtx`: the stack and the depth, flags, queues and the values of cells | `SodiumCtx` |
| `PropagationProofs` | ... the order of updates, and what streams carry | `SodiumCtxProofs` |
| `OnceProofs` | ... a `once` fires once; the collector runs between transactions | `SodiumCtxProofs` |
| `Router` | the weak table of a router, on the heap of the collector | `GcNode` |
| `MCRouter` | its symmetry for TLC | `Router` |
| `RouterProofs` | theorems about `Router` | `Router` |
| `LazyCells` | the first values of cells: `Lazy`, `CellLoop`, what maps, lifts and holds start with | `Network` |
| `SharedCtx` | a context that threads share, and closures that panic | |
| `MCSharedCtx` | its symmetry for TLC | `SharedCtx` |
| `SharedCtxProofs` | theorems about `SharedCtx`: counts and posts | `SharedCtx` |
| `SharedStateProofs` | ... types, each posted closure, flags | `SharedCtxProofs` |

Definitions marked "Mutant" in a comment are wrong on purpose: each is a
plausible bug in the definition that follows it (a clone that forgets to count,
a node updated before what it depends on), and putting it in that definition's
place makes a property fail. They keep the properties honest; no specification
uses them.

### GcNode

A *handle* is one counted reference. `owner[h]` says who holds it (the program,
the context's `keep_alive` list, or a gc node) and `target[h]` what it counts
for, so a heap is a set of handles rather than Rust objects. A node owns the entries
of its `dependencies` (`DepHandle`) and what its update closure captured; `trace`
visits what it owns. `KeepHandle`s are the entries of a `keep_alive` list: they
are `GcNode`s, whose count was raised by hand and which have no `Drop`.

| action | code |
|---|---|
| `New`, `Clone`, `Drop` | `Node::new`, `Clone for Node`, a local going out of scope or `remove_dependency` |
| `ListenWeak`, `Listen`, `Unlisten` | `Listener::new`, `Listener::unlisten` |
| `Defer` | `defer` and `split`: a weak listener in the result's `keep_alive` |
| `Upgrade` | `upgrade2` of a weak dependent |
| `RunDrop` | `Drop` of one handle: `dec_ref`, and what dies with it |
| `Collect`, `Again` | `collect_cycles` and its loop |
| `MarkRoot`, `MarkDone` | `mark_roots`, `mark_gray` |
| `ScanRoot`, `ScanDone` | `scan_roots`, `scan`, `scan_black`, the reset of the adjustments |
| `CollectRoot`, `CollectVisit`, `CollectLeave`, `CollectDone` | `collect_roots`, `collect_white` |
| `Free`, `Retain`, `FreeDone` | `free`, the deconstructor, `retain`, the assertions |

The handles a call lets go of wait in `dropping` and run one by one in any
order: Rust fixes an order, the model allows each. `mark_gray`, `scan` and
`scan_black` visit a set that does not depend on the order of `trace` and are
one step each; `collect_white` decides the order of the frees and is walked node
by node. `panicked` records a failed assertion; a program that has panicked does
nothing more.

### Network, Frp and SodiumCtx

A network is a record of node kinds, inputs and the other node a node has to do
with, its nodes numbered in the order of creation. The first `start` of them
exist from the beginning; the program makes the others inside of its
transactions (`Build`). Some combinators are several nodes, as in the code, and
are made in one step:

| combinator | nodes |
|---|---|
| `accum`, `collect` | a loop, a hold, a snapshot (and two maps) |
| `defer`, `split` | the resulting stream and the weak listener that posts |
| `value`, `listen` on a cell | a spark, its map, an or_else (and a listener) |
| `Cell::map` | a map, and a hold of it |
| `lift2` | two maps that keep what they hear in a shared state, an or_else, a map of that state, a hold |
| `split_filter`, `split_enum`, `Router` | the router and its routes, which depend on it without being its dependents |
| `switch_s` | the map the public function puts in front, and its hold; the outer node and the switch |
| `switch_c` | the same, and a hold |

Event values are sequences that record where they came from, so that the
functions given to `map`, `merge`, `snapshot`, `lift2` and a coalescer confuse no
two inputs: a lost, doubled or early event shows.

`SodiumCtx` keeps the calls in progress in `stack`: a frame of
`end_of_transaction` (its `pc` is `pre_eot`, `loop`, `batch`, `pre_post` or
`post`) or of `update_node` (`dependencies`, then `dependents`; in between
`switching`, for the outer node of a `switch_c`), with the list it still has to
go through.

| action | code |
|---|---|
| `Enter`, `Leave`, `Send`, `Post` | `enter_transaction`, `leave_transaction`, `StreamSink::send`, `post` |
| `Build` | the constructors; their closures for `pre_eot` are `FirstSteps` |
| `RunPreEot` | `pre_eot`: switches connect (`Connect`), new nodes run their update once, and count as changed if they fire (`Mark`) |
| `TakeChanged`, `UpdateChanged` | the loop over `changed_nodes` |
| `VisitDependency`, `RunUpdate`, `VisitDependent`, `EndUpdate` | `update_node`; the update closures are `RunClosure` |
| `BeginSwitch`, `EndSwitch` | the update of `switch_c`, which calls `update_node` in its middle and rewires at once |
| `RunPrePost` | `pre_post`: `Clear`, `Forget`, `Rewire` (`switch_s`), visited flags |
| `RunPost` | `post`: `Commit`, `Disconnect` (`once`), deferred sends |
| `EndEot`, `CollectCycles` | the counter of `end_of_transaction` in progress, and the collector, which the last one calls (`collecting`) |

Closures in the queues are records. A deferred `send` in `post` enters a
transaction and leaves it, and pushes a second frame of `end_of_transaction` on
the first. `CanRun` stands for the locks an update takes on the streams it reads:
they are not reentrant, so that an update whose lock its own stack holds waits
for ever.

`Frp` is what the library promises: given what the sinks carry and which nodes
exist at the end of the transaction, `Denotation` computes every event of the
transaction at once; new combinators take part as if they had been there from its
start; cells and `once`s change atomically, listeners hear each of their events
once, a `switch_s` follows what its cell held before the transaction and a
`switch_c` what it holds after it, and deferred events get transactions of their
own before the program's next one.

Simplifications: a program makes nodes in its transactions, not inside of update
closures; cells start with values, and `LazyCells` is about the thunks they really
start with; a router fires its routes in the order of their creation, and
`Router` is about how long they are there.

### Router

`SodiumCtx` has routers with routes that live for ever. This module has what the
table of a `Router` adds to the heap: `table` maps a key to a stream without
counting for it, `keyOf` is what the cleanup of a stream captured, and `at` says
where the library is. Every step is a step of `GcNode` with what it does to the
table, so that the collector of `GcNode` runs here too, at the end of every
transaction, and frees what the program let go of.

| action | code |
|---|---|
| `NewRouter`, `NewGraph`, `Attach`, `LetGo` | `Router::new`; what else a program builds around its streams: nodes that hold streams and themselves |
| `FilterHit` | `filter_matches`, the stream of the key is alive |
| `FilterMiss`, `FilterFirst`, `FilterEnd`, `FilterCollect`, `FilterInsert` | `filter_matches` makes it: `Stream::new`, its closure for `pre_eot`, outside of a transaction the end of its own one, then the dependency, the entry and the cleanup, all under the lock (`Locked`) |
| `BeginRouting`, `RouteHit`, `RouteMiss`, `EndRouting` | the update of the router, key by key |
| `RouterFree` | the collector frees a node; that of a stream runs its cleanup (`CleanUp`) |
| `OpenTransaction`, `CloseTransaction`, `Unqueue`, `EndTransaction` | a transaction of the program, the handles its queues hold, the collection at its end |

A handle that a step needs is `Fresh`: the handles that are not in use cannot be
told apart. The table has a lock that is not reentrant; a cleanup that runs while
`filter_matches` holds it sets `waiting`, and nothing happens any more.

### LazyCells

A program makes cells one after the other, of sources, maps, lifts of two and
three, loops, and steps (`hold_lazy` of a snapshot, the core of `accum_lazy` and
`collect_lazy`), samples them at any time, takes a `Lazy` from one and runs it, or
makes another cell start with it, and sends.

| definition | code |
|---|---|
| `Run`, `Thunk`, `Stored` | `Lazy::run`, and the thunks of `Cell::map`, `Cell::lift2`, `CellLoop::new`; `held` are the locks on the way |
| `Sample`, `SampleCell`, `TakeLazy`, `RunTaken` | `sample`, `sample_lazy`, `run` |
| `MakeSource`, `MakeMap`, `MakeLifts`, `MakeLoop`, `MakeStep`, `MakeStepLate` | the constructors |
| `Loop` | `CellLoop::loop_` |
| `Update`, `Keep`, `Send` | what a transaction changes: values of cells, and the state of a lift |

`Run` and `Sample` return what the call gives, whether it panics (a loop that was
not looped) or waits for a lock of its own stack, and the memory it leaves, so
that the order in which thunks run can be anything. What a cell *ought* to hold is
`Means`, which knows nothing of lazies.

### SharedCtx

Each thread has a stack of the calls it is in, and a step is one hold of a lock:
`with_data` of the context, an access to a flag of a node, or the data of a
stream. The network is as small as the questions allow: sinks with a listener
each.

| action | code |
|---|---|
| `Enter`, `LeaveScope` | `SodiumCtx::transaction`, or `Transaction::new` and its drop |
| `Close`, `Closed` | `Transaction::close`: it leaves, and sets `done` when that has returned |
| `Post` | `post` |
| `SendBegin` .. `SendLeave` | `StreamSink::send` and `_send`, hold by hold |
| `EndCount` .. `EndRelease` | `end_of_transaction`, hold by hold |
| `NodeSwap` .. `NodeSelf` | `update_node` of a sink or its listener |
| `PanicBody`, `PanicHandler`, `PanicPosted` | user code panics: the closure of `transaction` or a scope with a `Transaction`, a handler, a posted closure |
| `UnwindObject`, `UnwindCall`, `Unwound` | what unwinding drops, call by call: a `Transaction` leaves unless it is done, everything else stays as it is |

`raised` and `leaked` count what a panic left in the depth and in the collector's
counter for ever; `inside`, `ran`, `dropped`, `heard` and `replaced` record what
became of posted closures and sent events.

## 3. The runs

Runs that pass:

| run | question | distinct states |
|---|---|---|
| `gc_cycles` | three nodes and four handles (one of them a dependency) in every possible heap: counts, garbage, assertions | 57 thousand |
| `gc_listeners` | two nodes, a listener and a `keep_alive` entry: garbage, what `mark_roots` overwrites, and that `collect_cycles` returns | 136 thousand |
| `ctx_tests` | thirteen networks, most from the tests, made beforehand; three transactions, two sends, nesting of two, a user's `post` | 706 thousand |
| `ctx_shapes` | every network of up to five sinks, maps and merges without a detour, and those of four nodes of which the program makes the last, some or all in its transactions; two transactions of three sends in any order | 2.5 million |
| `ctx_grown` | nineteen networks with switches, routers, lifts, loops and values, most of them made in one or two transactions that also send; every `end_of_transaction` returns | 327 thousand |
| `router` | a router, two keys, two streams and a node that may hold them and itself, in every order of lookups, drops, transactions, events and collections | 750 thousand |
| `lazy` | every program of up to four cells that samples, loops and takes lazies before and after a transaction | 773 thousand |
| `shared` | two threads that send, post, open and close transactions on one context, hold by hold, with panics | 496 thousand |

Properties of the collector:

- `RefCountExact`: the count of a stream or a cell is the number of its handles;
  that of a listener is never less.
- `NoLiveFreed`: nothing the program can reach, or that listens for it, is freed.
- `NoPanic`: none of the collector's assertions fails.
- `RootsBuffered`: `buffered` and `roots` say the same, and a root is there once.
- `NoLostGarbage`: garbage can always be reached from a purple root.
- `MarkDropsNothing`: `mark_roots` overwrites `roots`; no root it lets go of owns
  data whose drop would have pushed new ones.
- `CollectsAll`: when `collect_cycles` returns, what is unreachable is gone.
- `CollectionEnds`: and it returns.

Properties of transactions:

- `PropagationExact`: when no changed node is left, each stream carries the event
  the network means, and each listener was called once for it or not at all.
- `DepthExact`: the depth matches the calls in progress, whatever nests.
- `CollectsBetween`: while the collector runs no `end_of_transaction` is in progress,
  also none that the one that called it was nested in; no closure waits in a queue
  with what it captured, no stream fires, and every cell has committed its next
  value. What a collection finds is the graph, and nothing that is on its way.
- `PostOutside`: `post` closures run at depth 0 with nothing firing, changed or
  visited. Two exceptions are in the code: a node made in a transaction in which
  it fires keeps `changed` (`Forget`), and so does the outer node of a `switch_c`
  that has switched. `PropagationExact` shows that this is harmless.
- `CellsChangeBetween`, `CommittedFirst`: a cell that was made changes only while
  nothing fires, whatever the program makes meanwhile, and before another transaction
  starts.
- `OnceOnly`: a `once` fires once.
- `ImplementsFrp`: every run of the engine is a run of `Frp`, under the mapping at
  the end of `SodiumCtx`: a transaction takes effect when its propagation is over,
  and what it still owes (commits, disconnections, deferred sends) counts as done
  or waiting from there.
- `TransactionsEnd`: every transaction ends, with what it posts, and no update
  waits for itself.

Properties of routers:

- `RouterTypeOK`: the types of the table and of what the calls pass on.
- `LiveRouteListed`: a stream that can still be upgraded and was not freed is the
  one its table lists under its key. So the cleanup of a dead one, however late,
  strikes out no entry that another stream was given since, and no key has two.
- `EventsReachRoutes`: an event for a key reaches the stream of that key which the
  program holds, or which something it holds depends on, be its router held or not;
  and a router is not left out of a transaction while such a stream is there.
- `CollectsAll`: the table keeps nothing alive.

Properties of first values:

- `LazyTypeOK`: the types.
- `SampleExact`: whenever a cell is sampled, and whatever ran before, it gives what
  its inputs and the events make it, and nothing only if that is undefined.
- `SampleFailsWell`: it panics only because of a loop that is not looped, and waits
  only because of a circle.
- `LiftStateCurrent`: what the updates of a lift remember of the side that did not
  change is what that cell holds.
- `TakenExact`: a `Lazy` that was taken gives what its cell held then.

Properties of a shared context:

- `SharedTypeOK`: the types.
- `CountsCover`: the depth is at least the number of transactions and propagations
  in progress, the collector's counter at least that of the ends: no transaction is
  ended by another one, and `depth` never underflows. Any closure may panic but a
  posted one that `Transaction::close` runs (`PanicInClose = FALSE`, see below).
- `PostsKept`: every posted closure is in the queue, in the list of one end, has
  run, or was dropped by a panic: one of these, and once.
- `PostsRun`: when every thread is out of the library, and no panic left the depth
  raised, those that were posted in a transaction have run or were dropped.
- `FlagsReset`: at that time nothing fires, is visited, or waits in `pre_post`.
- `CallsReturn`: every call returns.

Runs that find a disagreement between the code and what it says of itself:

| run | what happens |
|---|---|
| `gc_defer_loop` | `sl.loop_(&defer(&sl.stream()))`: dropping it fails the collector's assertion that a freed node has count zero. The deferred stream loses its last handle while it is freed; its `NodeData`, with the `keep_alive` list, is gone before its own deconstructor looks, and nobody lowers the listener's count |
| `ctx_detour` | `b = a.merge(c)`, `d = b.merge(c)`; send on `a`, then on `c`: `update_node` comes from `a` up to `b`, visits `c` for it, goes down from `c` to `d` and updates `d` before `b`. `d` hears only `c` |
| `router_lock` | `filter_matches` outside of a transaction, while another stream of the same router is garbage in a cycle: the collector it calls frees that stream, whose cleanup waits for the lock of the table that `filter_matches` holds |
| `shared_lost` | two threads send. The first finds no more changed nodes; the second sends, and does not end its transaction as the depth is still raised; the first lowers the depth and clears what fires. The second event is lost |

Differences that were met while modelling and have no run of their own, most of
them because they need a network or a bound of their own to show:

- A stream deferred before it is held (`DeferThenHold` in `MCSodiumCtx`): the
  deferred event is in front of the commit in `post` and samples the old value.
- `once` of a stream joined with its own deferral (`OnceOfDeferred`, against
  `OnceOnly`), for the same reason: the deferred event is sent, in a transaction of
  its own, before the closure runs that disconnects the `once`
  (`src/src/impl_/stream.rs:498-507`), and the listener of the `once` hears both.
  It is to output "only one value" (`src/src/stream.rs:603-605`).
- Send on `s`, then make `s.merge(m)` and a filter of it, `m` being an older map of
  `s` (`GrownFilter`): the first update of the merge runs before `m` is updated, the
  filter lets its intermediate event through and does not take it back.
- `s.merge(&s)` (`SelfMergeOnly`): the update of the merge locks the data of `s`
  twice and never returns.
- The doc of `StreamSink` says a second `send` in a transaction panics
  (`src/stream_sink.rs:26-28`); `_send` overwrites the event (`Fire`). The doc of
  `SodiumCtx::post` says the closure runs at once if there is no transaction
  (`src/sodium_ctx.rs:93-94`); it is only queued (`Post`), until some transaction
  ends.
- `sample_lazy` is documented to sample the *current* value of a cell lazily
  (`src/cell.rs:47`). The `Lazy` of a map or a lift that is run after a transaction
  that changed its inputs gives their new values; with `InTime = FALSE` `LazyCells`
  finds it (`TakenExact`).
- Two threads that end transactions go over the same nodes: one resets `visited`
  of a listener that the other has yet to leave, and its handler is called twice
  for one event (`impl_/sodium_ctx.rs:321-323`).
- A posted closure that panics while `Transaction::close` runs it: `done` is not
  set, so dropping the `Transaction` leaves once more and takes away a depth that
  is not its own, or underflows the `u32` (`impl_/sodium_ctx.rs:168`). With
  `PanicInClose = TRUE` `CountsCover` fails after a dozen steps.
- After a panic in a handler or a posted closure that the program catches, the
  collector's counter stays raised and the collector never runs again; after one
  in a handler, or in the closure of `transaction`, so does the depth, and no
  transaction ends again.
- Two threads may each find the collector's counter at zero and run the collector
  at the same time; `GcNode` has one.

**Bounds, and why they are enough.** Cycles of one, two and three nodes, two
handles on one node, a cycle hanging from another and from a root all fit in
three nodes and four handles; every program step is possible in every state, so
the heap may change in any way between two collections. The listener runs have
the smallest heap in which a `keep_alive` list dies with its node. A node's two
ways through the graph need four or five nodes, which `ctx_shapes` enumerates in
every order of creation; `HasDetour` in `Network` leaves out the shapes
`ctx_detour` is about. A detour is said in terms of the walks that `update_node` can
take (`Walks`): it goes up from a node to an input, and comes from there, by any way
up and down, to a reader of that node. Two merges that share an input are the
smallest; another is a ring, `ab = a.merge(b)`, `bc = b.merge(c)`, then
`ab.merge(bc)`, whose walk goes up and down twice. Two transactions show what one leaves to the next; the
third of `ctx_tests` shows a switch forth and back, with the lasting `changed`
flag of `switch_c`, and an event after it. A depth of two shows the difference
between inner and outer `leave`, two sends the coalescer, and two sinks sent to in
either order. A payload of 0 and 1 is what filters, routers and switches choose
by. `SwitchOne`, `SwitchCOne` and `SwitchCLate` choose and are chosen from by one
sink, `SwitchS` and `SwitchC` by three.
`Payload`, `MaxSends`, `MaxDepth`, `MaxTransactions` and `MaxPosts` are the
bounds of `SodiumCtx`; `GcNode` has none but its sets of identities, which are
used once each for nodes (a program that makes nodes for ever) and again and
again for handles. `HeapSymmetry` permutes plain nodes and plain handles, which
nothing tells apart; the runs with liveness properties do not use symmetry.

`Router` needs two streams for one key, the second of which is made when the first
is dead but not yet freed, and a node that holds a stream and itself, so that only
the collector can free it; two keys tell the table's entries apart. `MaxKeys` is
the number of keys the selector gives for one event: the update takes them one by
one, and a second finds what the first left, so one is enough for the table. Five
handles of the program and the nodes suffice for a stream that holds its router,
another of the same key, and a cycle that holds the first; two more are those of the
queues. What a stream holds of its router goes when the stream is freed, not with
the router, which does not list it as a dependent (`DepHandle = {}`).
`LazyCells` reaches every shape of four cells, such as a loop looped to a lift of a
map of itself, a cell lifted with itself, two cells lifted as three, or a step that
starts with a taken `Lazy`; `MaxLoops = 2` lets a loop be looped to a loop, and
`MaxSources` and `MaxSends` leave room for a transaction that changes one side of
a lift, with lazies taken before it. Sources and loops are made first and the cells
of a lift are given in the order of making, which changes no shape; a program ends
with its first panic or wait; `InTime = TRUE` leaves out the late lazies of the
list above, and with them only `TakenExact` and what rests on it.
`SharedCtx` has two threads, one sink, one transaction opened by the program, two
sends and one post: enough for an end of each thread, one inside of the other's
time, with a post and an event that meet them anywhere. `PanicInClose = FALSE` is
a condition on the program, without which `CountsCover` fails (see above).

**Deadlock.** `gc_cycles` checks it. `gc_listeners` and `router` may stop when an
assertion fails or a cleanup waits (`keep_alive` entries as in `gc_defer_loop`; the
lock of `router_lock`) or when the identities are used up, `ctx_*`, `lazy` and
`shared` when the program has used up its bounds, has panicked or was aborted.

**Fairness.** `FairSpec` of `GcNode` asks that a collection or a drop in progress
goes on, that of `SodiumCtx` that `end_of_transaction` does, and the collector it calls
(`Library`; that `collect_cycles` returns is `CollectionEnds`). Both are one thread
inside one call, and the only waiting in it is for the locks of `CanRun`, which
`TransactionsEnd` is about. Nothing is asked of the program. `SharedFairSpec` asks
the same of each thread (`CodeStep`; a step waits for a lock that every other
holder gives back in the same step), and of the program only that its threads
leave the scopes they opened (`LeaveScope`), which a Rust scope does when its
closure returns.

## 4. What is proved

Each theorem holds for every value of the constants, under the assumptions that
the modules name; each rests on an inductive invariant, which TLC checked on the
runs' instances before it was proved.

### The counts: `GcSafetyProofs`

For every finite `Node` and `Handle` (`GcAssumption`), as in the next two:

- `TypeCorrect`: `Spec => []TypeOK`. In particular no count is ever decremented
  below zero.
- `CountsExact`: `Spec => []RefCountExact`.

Neither is inductive alone. `HeapInv` adds what the types rest on: a handle that
is owned or being dropped has a target, targets were created, and the entries of
`keep_alive` lists count for listeners. Types need it because `RunDrop` and
`MarkGray` count on targets being nodes. `RefCountExact` is inductive together
with `HeapInv`: a step that adds a handle adds it to one node (`IncRef`, `New`,
`Listen`), a step that removes one removes it from its target's count (`RunDrop`),
and the handles that go with a dead `keep_alive` list go without a decrement,
which is why a listener's count is only bounded from below. The lemmas are about
counting: what one handle more, or a set of handles less, does to `HandlesOf`.

### The collector is safe: `GcSafetyProofs`

- `RootsListed`: `Spec => []RootsBuffered`.
- `LiveNotFreed`: `Spec => []NoLiveFreed`.
- `NeverPanics`: `Spec => []NoPanic`, if there are no `keep_alive` entries
  (`KeepHandle = {}`). With them it is false: `gc_defer_loop`.
- `PanicNeedsKeepAlive`, without that condition: when an assertion failed, some
  listener counts more than its handles, that is, an entry of a `keep_alive` list
  went without a `dec_ref`.

`NoLiveFreed` says nothing of how the collector comes to free a node; `SafetyInv`
follows one round of it:

- `ListInv`: `roots` and the list that a function works on repeat nothing, and
  `buffered` says who waits in them. Without it a node would be scanned or freed
  twice.
- `PhaseInv`: what each function has emptied when the next starts, and that no drop
  is under way while colors are worked out.
- `MarkInv`: the gray nodes are closed under `trace` and spanned by the roots that
  `mark_roots` keeps, and `refCountAdj` counts the edges out of them. So, when all
  roots are marked, a count less its adjustment is the number of handles from outside.
- `ScanInv`: a gray or white node is among what the roots reach, its adjustment
  counts the edges out of that set, white nodes have no handle from outside, and
  black has spread to whatever a black node reaches. So, when `scan` is over, every
  handle to a white node is held by a white node.
- `CollectInv`, `FreeInv`: such a set is out of the program's reach, and stays so
  while `collect_white` lists it and `free` takes it apart, since nobody outside has
  a handle to give away; whatever is white is met.
- `FreedInv`: a freed node owns nothing, and nobody has a handle to it when
  `collect_roots` is over.

That a set of nodes is reached from some nodes is said as `Spans`, over all the
sets that are closed under `trace`, and needs no induction over paths.

### The collector is complete: `GcGarbageProofs`

- `GarbageHasRoot`: `Spec => []NoLostGarbage`.
- `CollectionComplete`: `Spec => CollectsAll`.
- `NothingDropped`: `Spec => []MarkDropsNothing`.

These are about every way a node can lose its last path, at any time. `AliveInv`
says that whatever has its data is reached from the `Anchors`: the handles of the
program and the context, the targets of the drops under way, and what the
collector has still to look at (purple roots that wait, the list it works on,
white nodes not yet freed). A step that lets go of an edge makes the edge's target
an anchor; a step that takes a node off the collector's lists must show that the
node is reached from another anchor or is dead. For `scan` that is `BlackInv`: what
it makes black is reached from the program, because a count that is not zero means
a handle that the traversal did not meet, and its owner, being alive and not
among what the roots reach, is reached from an anchor too. The other parts
(`HandleInv`, `OwnerInv`, `PurpleInv`, `LocalInv`, `RestInv`) say what a count means
when there are no handles, that owners have their data, and which roots may be let
go of. `RestInv` shows by the way that the list `to_be_freed` is always empty when
`collect_roots` comes to it.

### Routers: `RouterProofs`

For every finite heap with one router on it, any keys, streams and number of keys
per event (`GcAssumption`, `RouterAssumption`):

- `RouterTypes`: `RouterSpec => []RouterTypeOK`.
- `RoutesListed`: `RouterSpec => []LiveRouteListed`.
- `RouterUsesHeap`: `RouterSpec => Spec`, that is, a program with a router is a
  program of `GcNode`.
- `RouterKeepsLive`, `RouterCollects`: hence `NoLiveFreed` and `CollectsAll` of a
  program with a router.
- `EventReachesRoute`: `RouterSpec => EventsReachRoutes`.

`LiveRouteListed` alone is not inductive: a stream that is dead might be upgraded,
and one that `filter_matches` is making might have an entry already. `Listing` adds
that a node without handles stays without (nothing can be cloned from it), that the
key of a stream that is being made has no live entry, and that a stream has a key
only when it was made. `EventReachesRoute` is an action property: when the update
looks a key up, the stream of that key which the program can reach is upgraded. It
rests on `LiveRouteListed`, on `LiveNotFreed`, and on `Tied`: a stream with a key
owns a handle to its router until it is freed, so that a router whose stream is
reached is reached itself, and is there to route.

### The depth: `SodiumCtxProofs`

For every set of networks, every payload and every bound:

- `DepthIsExact`: `Spec => []DepthExact`.

It follows from an inductive invariant, `StackInv`, which relates the depth and the
collector's counter to the stack: a frame of `update_node` stands on a frame that
propagates, a frame of `end_of_transaction` on none that does (`Shape`). Without
that shape it is not inductive: only with it does the top frame alone tell
whether something is being propagated (`TopTells`), so that a call which returns
leaves the depth right for its caller. The lemmas say what pushing, popping and
replacing a frame make of the shape; then each action is one of these. Nothing is
assumed about the network, so the argument does not depend on what the update
closures do.

### A clean slate: `SodiumCtxProofs`

For every set of networks that `NetworkOK` describes (`CtxAssumption`), made
beforehand or by the program, every payload and every bound:

- `PostRunsOutside`: `Spec => []PostOutside`.
- `CellsChange`: `Spec => CellsChangeBetween`.

`PostOutside` speaks of one moment. What leads to it is `CleanInv`: at any time,
every flag that is set is owed its reset (`Covered`) by a closure in `pre_post` or, when
the transaction is closed, on the list that `pre_post` works on (`Pending`). A step
that sets a flag queues the reset, or finds one queued (`CoveredFire`, `CoveredVisit`);
a closure that runs pays off its node (`CoveredReset`). The rest says that nothing
else is in the way: `pre_eot` and `pre_post` set `changed` only for nodes that the
program made (`Fresh`, `AllClean`), and that once the propagation is over both queues
are empty and stay so until a posted closure sends (`IdleInv`). With `StackInv` this
gives depth 0 and no flags when `post` runs. A cell changes there (`Commit`); `Build`
is the only other step that assigns to `value`, and it leaves the cells alone that were
there.

The lists in question are as long as the network: the first steps that `Build` queues
(`FlattenSeq`), the routes that a router fires (`InOrder`), the values of new cells
(`Founded`). What these compute is proved by induction, without an induction theorem:
`LeastNat` derives the least member of a set of naturals from the library's theorem that
strict inclusion of finite sets is well founded, and `Induct` puts it to use.

### Types: `SodiumCtxProofs`

For every set of networks that `NetworkOK` describes, every payload and every bound:

- `NodesMade`: `Spec => []TypeInv`.
- `TypesRight`: `Spec => []TypeOK`.

What could go wrong with the types of `SodiumCtx` is a node that is not there yet: the
program makes its combinators one after the other, while closures wait in four queues
and in the lists of the calls in progress. `TypeInv` says that all of them, the edges,
and the stream a switch will move to, are nodes that are made (`1 .. built`), and that
what is made are whole combinators (`Whole`). It needs of the network that a combinator
takes what was made before it (`InputsMade`), that what a switch may come to follow was
made before the switch (`FollowedMade`), and that the nodes of a combinator that refer to
one another are made together (`PartnerMade`); `NetworkOK` says this of the networks, and
TLC evaluates it for those of the runs. It needs `CleanInv` too: only with the stack's
shape does a call that returns find the caller's list to go on with.

### Propagation: `PropagationProofs`

For every *plain* network, every payload and every bound:

- `PlainIsExact`: `Spec => [](Plain(net) => PropagationExact)`.
- `PlainWaves`: `Spec => [](Plain(net) => WaveInv)`, the invariant behind it.

A network is plain when it is made beforehand, of sinks, coalescing sinks, loops, maps,
filters, merges, `or_else`s, snapshots, holds, onces, deferrals, splits and listeners;
when every cycle in it goes through a cell or a deferral (`Layered`: a cycle of streams
alone has no meaning); and when it has no detour. It may have any size and shape, the
events and functions are any, and so are the nesting of transactions, what is posted,
and how often a transaction is opened by a post closure of another.

The difficulty is `visited`. `update_node` takes a dependency that is visited for one
that is up to date, and it need not be: it may be a node lower on the stack, whose own
dependencies are still being visited. `WaveInv` therefore says what the stack looks
like and, relative to it, what has been done:

- `Trail`: the calls in progress are a walk through the network, beginning at a sink,
  that meets no node twice. `ReadsRun` concludes that, without a detour, a call that
  is about to run an update reads no node lower on the stack that has not run its own:
  the part of the walk between the two would be a detour. It is the only lemma that
  needs the condition, and `ctx_detour` shows that the theorem needs it.
- `NodeRight`, for each node: if it is *done* (visited, and its update over), its
  inputs are, it carries what its combinator makes of them (`Right`), its cell has
  kept the event for later and its listener was called for it once; and if it fired,
  each of its dependents is visited, or waits in the list of a call. A node that is
  not done fires nothing, and a sink that fired is visited or waits in
  `changed_nodes` or in the batch taken from it.
- `Wired`, and the types of the queues: the dependencies are those of the network but
  for the onces that disconnected, and the dependents are the other side of them.

With nothing left to visit, a node that ought to carry an event has an input that does
(`EventOf`), which was done and fired, so that it was visited and is done itself
(`Settled`). Right at every node is what `Denotation` computes, since its rounds settle
from the sinks downwards along the rank of a node (`DenotationOf`, by induction). A
transaction that begins, one opened by a deferred send among them, finds every stream
silent (`AtRest`), which is what the clean slate above is for.

What is not plain stays with TLC: lifts, whose two sides share a state; routers, whose
routes are not dependents; switches, which rewire the network while it is propagated;
and networks that grow in a transaction, whose new nodes run out of order, in `pre_eot`.

### Once, and when the collector runs: `OnceProofs`

For every set of networks that `NetworkOK` describes, with lifts, switches and routers,
made beforehand or by the program, every payload and every bound:

- `OnceOnlyApart`: `Spec => [](Apart(net) => OnceOnly)`.
- `CollectorBetween`: `Spec => []CollectsBetween`.

and the invariants the first rests on, each proved with the ones before it:

- `QueuesEmpty`: `Spec => []QueueInv`. A transaction finds none of what an earlier one
  queued: between transactions `post` holds only what the program posted, nothing but
  sinks carries an event, and a call that runs `post` has emptied the queue.
- `CallsSingle`: `Spec => []CallsInv`. `update_node` is never at work on a node twice at
  a time, and a call that is about to run the closure of a `once` has read the
  dependencies that the `once` still has.
- `FirstStepsLeft`: `Spec => []FirstInv`. A new `once` is connected when `pre_eot` runs
  its first update; a switch follows one of the streams it may, or is still to be
  connected.
- `NestedQuiet`: `Spec => []NestedInv`. In the transactions that `post` opens for
  deferred events, the nodes out of their reach (`Steady`) do not fire, are not rewired,
  and no listener of a `once` among them is called.
- `OnceHeard`: `Spec => []OnceInv`. Of a `once` that is `Steady`: if it fires, its
  removal is posted; if it was heard in an earlier transaction, it is disconnected or
  its removal still to be run, and disconnected when the program's next transaction
  propagates; if it was heard in the one in progress, the update of its listener is over
  and does not run again.

Nothing prevents a `once` from firing but that it has no dependencies, and it loses them
late, in `post`, where deferred sends wait too. So `OnceOnly` is false where one of those
can come first: of a sink joined with its deferral, a `once` fires in the transaction of
the sink and again in the nested one of the deferred event, before its own removal runs
(`OnceOfDeferred`). `Apart` excludes just the networks where a deferred event
reaches a `once`: `Steady` is the largest set of nodes that has no deferred stream in it
and, with a node, all it depends on and, with a switch, all it may come to follow. It
leaves deferrals elsewhere: of what a `once` let through, as in `OnceThenDefer`. None of
the networks of `ctx_tests` is excluded.

The proof rests on what a step can do rather than on the steps: `AllSteps` shows that each
action of the engine is one of nine kinds (the walk goes on, a closure runs, a switch is
connected or moves, the propagation closes, a flag is reset, `post` is taken, a posted
closure runs, a call returns), which say what becomes of the lists and of the edges. Each
invariant is then proved of the kinds.

`CollectorBetween` needs that the counter is zero only when no end is left on the stack
(`StackInv`, `LastEnd`): then the program is in no call of the library. `QueueInv` says
what the queues hold at such a time, and `PostOutside` of the state before that nothing
fires; that no cell still has a next value is `CommitInv`: one that has is owed a commit,
in `post` or in the list of an end that runs what was posted.

### Shared contexts: `SharedCtxProofs`, `SharedStateProofs`

For any number of threads, sinks and calls, with panics anywhere:

- `StateTyped`: `SharedSpec => []SharedTypeOK`.
- `PostsStay`: `SharedSpec => []PostsKept`.

and, if no posted closure panics while `Transaction::close` runs it
(`~PanicInClose`, the discipline without which the statements are false):

- `CountsHold`: `SharedSpec => []CountsCover`.
- `PostsHaveRun`: `SharedSpec => []PostsRun`.
- `FlagsAreReset`: `SharedSpec => []FlagsReset`.

`CountsHold` and `PostsHaveRun` follow from `SharedInv`. `Accounts` makes of the two
inequalities equations: the depth is the number of frames that hold it, on all the
stacks together, plus what panics left behind. `Shape` says what can be on top of
what, which tells whether the call that a panic stops was counted, and that the
`Transaction` below it takes it over. `Waits` says why no post is forgotten: if one
made inside of a transaction is in the queue, then either the depth is not zero, and
whoever takes it to zero ends the transaction, or an end is on its way to the queue.
`Located` follows the closures from there. The proofs work on the numbers `N(S, P)`
of the frames of a kind `P` on the stacks `S`, and what a push or a pop makes of them;
each action is a few of these. Without `Waits`, the theorem would not survive
mutants such as `LeaveQuiet`, where a second thread does not end what it should.

The types (`TypeInv`) need an order of calls too (`Placed`): a call of `update_node`
stands on the batch of an end, so that a call which returns finds its caller in the
state in which it called. `PostsInv` sharpens `PostsKept` into a partition: the
numbers of the closures posted so far are divided among the queue, those that ran,
those a panic dropped, and the list of each end on each stack, and no list repeats
one. Every step moves closures from one part to another. `FlagsInv` says for each
flag that is set who will reset it: `pre_post`, or a call in progress that is about
to queue its reset or has taken it from there (`FlagsOwed`); and for `pre_post`, that
somebody still holds the depth or an end is on its way to it (`QueueHeld`). When the
threads are out of the library and the depth is zero, nobody is left to owe anything.

### Only model-checked

- Liveness: `CollectionEnds`, `TransactionsEnd`, `CallsReturn`. The prover does not
  treat fairness.
- `PropagationExact` of networks that are not plain, and `ImplementsFrp`, which needs
  besides what a transaction still owes when its propagation is over, in order.
- `CommittedFirst`, and `OnceOnly` where deferred events reach a `once`. Both are false
  when a deferral is made before the hold or the once it disturbs (`DeferThenHold`,
  `OnceOfDeferred`); they need the order in which a network's nodes post.
- All of `LazyCells`: its operators are recursive, and the prover does not accept
  those.

TLC finds the properties that are proved to fail under the mutants that `PROJECT.json`
lists, as it does those that are only checked.

## 5. Not modelled

- Nodes made inside of update closures, which the library allows, and a
  `filter_matches` called from one, while the router's update may be running.
- On a shared context: networks beyond a sink and its listener, handlers and posted
  closures that use the context themselves, nodes made while another thread
  propagates, two collectors at once.
- Locks other than those of the streams an update reads (`CanRun`), of cells and
  lazies (`LazyCells`) and of a router's table.
- Networks with a detour (`HasDetour`), beyond `ctx_detour`: what their merges and
  snapshots of merges do there need not be what `Frp` says.
- Closures that capture what they do not declare: `GcNode` assumes the two agree,
  as the repository's README demands. A stream captured without being declared is
  a handle that `trace` does not see: its count never comes down to what the
  collector subtracts, so that a cycle through it is never freed. One declared but
  not captured counts twice and could be freed while it is in use. `CollectsAll` and
  `NoLiveFreed` are relative to this, and the library does not meet it everywhere
  itself: an update of `switch_c` captures the outer cell (`impl_/cell.rs:561`)
  and declares its own two nodes (`impl_/cell.rs:589-592`), and a thunk that a cell
  starts with (`hold_lazy`) holds what it captured until it is run.
- More than one router on a heap: `Router` has one, with its table. The tables of two
  share no stream and no lock.
- The weak reference by which an update reaches its own stream
  (`impl_/stream.rs:57`), which it unwraps: `GcNode` runs no updates and
  `SodiumCtx` drops no streams.
- A `StreamLoop` or `CellLoop` looped twice (a panic), and the gc node of a
  `StreamLoop`, which traces and frees nothing that its stream does not.
- Logging, names, statistics (`node_count`), `simple_threaded_mode`, which has no
  user, and the wrappers outside `impl_`: no behaviour of their own.

## 6. The plan

Done: the collector, the engine and its promise, growth inside of transactions,
switches and routers, first values and loops of cells, shared contexts and panics,
the weak table, and the proofs of section 4. What is left, in order:

1. nodes made inside of update closures, and `filter_matches` among them;
2. updates and the heap in one module: the weak references that updates unwrap,
   undeclared captures;
3. `SharedCtx` with closures that use the context, and with larger networks;
4. proofs: `PlainIsExact` with lifts, then routers and switches; `CommittedFirst`, and
   `OnceOnly` of networks that are not `Apart`, for those whose holds and onces come
   before their deferrals, and with them the refinement of `Frp`; the first values of
   `LazyCells`, once their operators are functions.

## 7. What makes each part correct

| component | it must |
|---|---|
| collector | count exactly, free what is garbage, all of it, nothing else, and return |
| node, listener | keep what they depend on, let go of it once |
| propagation | update each node after what it depends on, once, and miss none |
| transactions | balance their depth, leave no trace for the next one, end |
| cells | show old values during a transaction and new ones after it |
| `once`, `defer` | fire once; fire in a transaction of their own |
| loops | close a cycle through a cell or a deferral only |
| `switch_s`, `switch_c` | follow the inner stream of the right transaction, without a glitch |
| `Router` | send to the streams of a key, forget those that died, and only those |
| `Lazy`, `CellLoop` | run each thunk at most once, after it was looped, and give what it means then |
| shared contexts, panics | end each transaction once, forget nothing that was posted or sent |
