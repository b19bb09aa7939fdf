----------------------------- MODULE SodiumCtx -----------------------------
(***************************************************************************)
(* Transactions and propagation: impl_/sodium_ctx.rs, with the update      *)
(* closures that impl_/stream.rs and impl_/cell.rs give their nodes.       *)
(*                                                                         *)
(* One thread uses the context (threaded_mode runs what it spawns at       *)
(* once), so all the code is one stack of calls: stack holds the frames of *)
(* end_of_transaction and update_node that have not returned.  While it is *)
(* empty the program runs: it opens and closes transactions and sends.     *)
(*                                                                         *)
(* The program makes the nodes of its network one after the other; one     *)
(* made outside of a transaction is one made in a transaction of its own,  *)
(* since every constructor opens one.  Update closures make no nodes.      *)
(* Closures are records: what they do (op), and to which node.             *)
(*                                                                         *)
(* Definitions marked "Mutant" are wrong on purpose: put in the place of   *)
(* the definition after them, they break a property.                       *)
(***************************************************************************)
EXTENDS Network

Lists == INSTANCE SequencesExt

CONSTANTS
  Networks,         \* the networks the program may have built
  Payload,          \* what the program sends
  MaxSends,         \* bound: sends of the program in one transaction
  MaxDepth,         \* bound: how deep the program nests its transactions
  MaxTransactions,  \* bound: outermost transactions of the program
  MaxPosts          \* bound: calls of post by the program

ASSUME CtxAssumption ==
  /\ \A net \in Networks : NetworkOK(net)
  /\ MaxDepth \in Nat /\ MaxSends \in Nat \ {0} /\ MaxTransactions \in Nat /\ MaxPosts \in Nat

VARIABLES
  net,            \* the network
  built,          \* how many nodes of it have been made
  dependencies, dependents, visited, changed,    \* NodeData
  firing,         \* firing_op of a stream
  value, next,    \* value and next_value_op of a cell
  lifted,         \* state of a lift2: the latest values of its two cells
  inner,          \* (last_)inner_s of a switch: the stream it follows, or 0
  depth,          \* transaction_depth
  changedNodes, preEot, prePost, post, \* queues of SodiumCtxData
  gcCounter,      \* allow_collect_cycles_counter
  collecting,     \* collect_cycles is running
  stack,          \* the calls in progress, the innermost last
  open, sends, transactions, posts,   \* what the program did
  heard, log,     \* calls of listeners: in this transaction, in earlier ones
  settled         \* how many nodes had been made when the last one was over

edges == <<dependencies, dependents, inner>>
flags == <<visited, changed, firing>>
cells == <<value, next, lifted>>
queues == <<changedNodes, preEot, prePost, post>>
program == <<open, sends, transactions, posts>>
outcome == <<heard, log, settled>>
gc == <<gcCounter, collecting>>
context == <<net, built, edges, flags, cells, depth, queues, gcCounter, stack, program, outcome>>
vars == <<context, collecting>>

-----------------------------------------------------------------------------
Top == stack[Len(stack)]
Below == SubSeq(stack, 1, Len(stack) - 1)
SetTop(frame) == Append(Below, frame)

TopIs(op, pc) == stack # <<>> /\ Top.op = op /\ Top.pc = pc

Eot(pc, list, cause) == [op |-> "eot", pc |-> pc, list |-> list, cause |-> cause]

(* reads: the dependencies as they were when the call began.               *)
Update(pc, n, reads, list) ==
  [op |-> "update", pc |-> pc, node |-> n, reads |-> reads, list |-> list]

NoCause == [op |-> "program"]

(* Mutant: the dependents the other way round.                             *)
RegisteredReversed(m, a, b, deps) ==
  LET reads(n) == m \in {deps[n][k] : k \in DOMAIN deps[n]} /\ net.kind[n] # "route"
  IN Lists!Reverse(InOrder({n \in a .. b : reads(n)}))

(* Which of the nodes a .. b register as dependents of m, in their order:  *)
(* nodes when they are made, loops when they are looped.  A route depends  *)
(* on its router without being registered.                                 *)
Registered(m, a, b, deps) ==
  LET reads(n) == m \in {deps[n][k] : k \in DOMAIN deps[n]} /\ net.kind[n] # "route"
  IN InOrder({n \in a .. b : reads(n) /\ net.kind[n] # "loop"})
       \o InOrder({n \in a .. b : reads(n) /\ net.kind[n] = "loop"})

(* A transaction is being propagated: its updates may still run.           *)
Propagates(frame) == frame.op = "update" \/ frame.pc \in {"pre_eot", "loop", "batch"}
Propagating == \E i \in DOMAIN stack : Propagates(stack[i])

(* The state a lift2 starts with, sampled from its cells.                  *)
Captured(n, values) ==
  IF net.kind[n] = "both" THEN [i \in 1 .. 2 |-> values[net.inner[n][i]]] ELSE <<>>

(* The nodes that exist from the beginning are connected.                  *)
Init ==
  /\ net \in Networks
  /\ built = net.start
  /\ value = Founded(net, [n \in Nodes(net) |-> IF n \in Cells(net) THEN Initial ELSE NoEvent],
                     0, net.start)
  /\ inner = [n \in Nodes(net) |->
                IF net.kind[n] \in {"switch", "switchC"} /\ n <= net.start
                THEN Followed(net, n, value[net.to[n]]) ELSE 0]
  /\ dependencies = [n \in Nodes(net) |->
                       CASE n > net.start -> <<>>
                         [] n <= net.start /\ inner[n] = 0 -> net.in[n]
                         [] OTHER -> Append(net.in[n], inner[n])]
  /\ dependents = [n \in Nodes(net) |-> Registered(n, 1, net.start, dependencies)]
  /\ visited = [n \in Nodes(net) |-> FALSE]
  /\ changed = [n \in Nodes(net) |-> FALSE]
  /\ firing = [n \in Nodes(net) |-> NoEvent]
  /\ lifted = [n \in Nodes(net) |-> IF n <= net.start THEN Captured(n, value) ELSE <<>>]
  /\ next = [n \in Nodes(net) |-> NoEvent]
  /\ depth = 0 /\ changedNodes = <<>> /\ preEot = <<>> /\ prePost = <<>> /\ post = <<>>
  /\ gcCounter = 0 /\ collecting = FALSE /\ stack = <<>>
  /\ open = 0 /\ sends = 0 /\ transactions = 0 /\ posts = 0
  /\ heard = <<>> /\ log = <<>> /\ settled = net.start

-----------------------------------------------------------------------------
(* Firing *)

(* _send: the last event wins, unless the stream has a coalescer; the      *)
(* first one of a transaction queues the clearing.                         *)
Fire(n, a) ==
  /\ firing' = [firing EXCEPT ![n] =
       IF net.kind[n] = "coalescing" /\ @ # NoEvent THEN Coalesce(@, a) ELSE a]
  /\ changed' = [changed EXCEPT ![n] = TRUE]
  /\ prePost' = IF firing[n] = NoEvent
                THEN Append(prePost, [op |-> "clear", node |-> n]) ELSE prePost

(* StreamSink::send, inside its transaction.                               *)
SinkSend(n, a) ==
  /\ changedNodes' = Append(changedNodes, n)
  /\ Fire(n, a)

(* leave_transaction at depth 1 goes on to end_of_transaction, which       *)
(* counts itself as a transaction and keeps the collector off.             *)
BeginEot(calls, cause) ==
  /\ stack' = Append(calls, Eot("pre_eot", preEot, cause))
  /\ preEot' = <<>>
  /\ gcCounter' = gcCounter + 1 /\ UNCHANGED collecting

-----------------------------------------------------------------------------
(* The program *)

(* enter_transaction *)
Enter ==
  /\ stack = <<>> /\ open < MaxDepth
  /\ open = 0 => transactions < MaxTransactions
  /\ depth' = depth + 1 /\ open' = open + 1
  /\ sends' = IF open = 0 THEN 0 ELSE sends
  /\ transactions' = IF open = 0 THEN transactions + 1 ELSE transactions
  /\ UNCHANGED <<net, built, edges, flags, cells, queues, gc, stack, posts, outcome>>

Send(n, p) ==
  /\ stack = <<>> /\ open > 0 /\ sends < MaxSends
  /\ n \in ProgramSinks(net) /\ n <= built
  /\ sends' = sends + 1
  /\ SinkSend(n, Sent(n, p))
  /\ UNCHANGED <<net, built, edges, visited, cells, depth, preEot, post, gc, stack,
                 open, transactions, posts, outcome>>

(* What the constructor of node n leaves in pre_eot: a first update, and   *)
(* for a stream a look at whether it fires.  A switch is connected there.  *)
FirstSteps(n) ==
  LET step(op) == [op |-> op, node |-> n] IN
    CASE net.kind[n] \in {"coalescing", "listen", "defer", "split", "router", "outer", "outerC"} ->
           <<>>
      [] net.kind[n] = "hold" -> <<step("update")>>
      [] net.kind[n] \in {"switch", "switchC"} -> <<step("connect"), step("update"), step("mark")>>
      [] OTHER -> <<step("update"), step("mark")>>

(* The program makes the next combinator.  A spark fires the value of its  *)
(* cell at once.                                                           *)
Build ==
  /\ stack = <<>> /\ open > 0 /\ built < Len(net.kind)
  /\ LET a == built + 1
         b == LastOf(net, a)
     IN /\ built' = b
        /\ dependencies' = [m \in Nodes(net) |->
                              IF m \in a .. b THEN net.in[m] ELSE dependencies[m]]
        /\ dependents' = [m \in Nodes(net) |->
                            dependents[m] \o Registered(m, a, b, dependencies')]
        /\ value' = Founded(net, value, built, b)
        /\ lifted' = [m \in Nodes(net) |-> IF m \in a .. b THEN Captured(m, value) ELSE lifted[m]]
        /\ preEot' = preEot \o Lists!FlattenSeq([i \in DOMAIN Span(a, b) |-> FirstSteps(a + i - 1)])
        /\ IF net.kind[a] = "spark" THEN SinkSend(a, value[net.to[a]])
                                    ELSE UNCHANGED <<firing, changed, prePost, changedNodes>>
  /\ UNCHANGED <<net, inner, visited, next, depth, post, gc, stack, program, outcome>>

(* SodiumCtx::post only queues.                                            *)
Post ==
  /\ stack = <<>> /\ posts < MaxPosts
  /\ posts' = posts + 1
  /\ post' = Append(post, [op |-> "user", node |-> 0])
  /\ UNCHANGED <<net, built, edges, flags, cells, depth, changedNodes, preEot, prePost,
                 gc, stack, open, sends, transactions, outcome>>

(* Mutant: a leave that no enter came before.                              *)
LeaveUnpaired ==
  /\ stack = <<>>
  /\ open' = open - 1
  /\ IF depth = 1
     THEN BeginEot(stack, NoCause) /\ UNCHANGED depth
     ELSE depth' = depth - 1 /\ UNCHANGED <<stack, preEot, gc>>
  /\ UNCHANGED <<net, built, edges, flags, cells, changedNodes, prePost, post, sends,
                 transactions, posts, outcome>>

(* leave_transaction *)
Leave ==
  /\ stack = <<>> /\ open > 0
  /\ open' = open - 1
  /\ IF depth = 1
     THEN BeginEot(stack, NoCause) /\ UNCHANGED depth
     ELSE depth' = depth - 1 /\ UNCHANGED <<stack, preEot, gc>>
  /\ UNCHANGED <<net, built, edges, flags, cells, changedNodes, prePost, post, sends,
                 transactions, posts, outcome>>

-----------------------------------------------------------------------------
(* The update closures of the nodes *)

(* Mutant: a once that stays connected.                                    *)
AfterFiringArmed(n) == UNCHANGED post

(* once posts its own disconnection.                                       *)
AfterFiring(n) ==
  post' = IF net.kind[n] = "once"
          THEN Append(post, [op |-> "remove", node |-> n]) ELSE post

(* Mutant: the value is kept as the other one.                             *)
KeepSwapped(n, a) ==
  lifted' = IF net.kind[n] \in {"left", "right"}
            THEN [lifted EXCEPT ![net.to[n]][IF net.kind[n] = "left" THEN 2 ELSE 1] = a]
            ELSE lifted

(* The two first maps of a lift2 keep what they hear in its state.         *)
Keep(n, a) ==
  lifted' = IF net.kind[n] \in {"left", "right"}
            THEN [lifted EXCEPT ![net.to[n]][IF net.kind[n] = "left" THEN 1 ELSE 2] = a]
            ELSE lifted

(* The inner node of a switch fires what the stream it follows fires.      *)
Inner(n) == firing[inner[n]]

(* The last map of a lift2 fires the pair of the latest values.            *)
Latest(n) ==
  IF firing[net.in[n][1]] = NoEvent THEN NoEvent ELSE Pair(lifted[n][1], lifted[n][2])

(* A stream fires when its combinator gives an event.                      *)
RunStream(n) ==
  LET a == CASE net.kind[n] \in {"switch", "switchC"} -> Inner(n)
             [] net.kind[n] = "both" -> Latest(n)
             [] OTHER -> Event(net, n, firing, value)
  IN /\ IF a = NoEvent THEN UNCHANGED <<firing, changed, prePost, post, lifted>>
        ELSE Fire(n, a) /\ AfterFiring(n) /\ Keep(n, a)
     /\ UNCHANGED <<next, changedNodes, heard>>

(* hold: the first event of a transaction queues the commit.               *)
RunHold(n) ==
  LET a == firing[net.in[n][1]] IN
  /\ next' = [next EXCEPT ![n] = IF a = NoEvent THEN @ ELSE a]
  /\ post' = IF a # NoEvent /\ next[n] = NoEvent
             THEN Append(post, [op |-> "commit", node |-> n]) ELSE post
  /\ UNCHANGED <<lifted, firing, changed, prePost, changedNodes, heard>>

(* listen: the handler is called.                                          *)
RunListen(n) ==
  LET a == firing[net.in[n][1]] IN
  /\ heard' = IF a = NoEvent THEN heard ELSE Append(heard, <<n, a>>)
  /\ UNCHANGED <<lifted, firing, changed, prePost, changedNodes, next, post>>

(* The weak listener of defer or split: it posts a send for each event.    *)
RunDefer(n) ==
  LET sent == Posted(net, n, firing[net.in[n][1]]) IN
  /\ post' = post \o [i \in DOMAIN sent |->
                        [op |-> "send", node |-> net.to[n], event |-> sent[i]]]
  /\ UNCHANGED <<lifted, firing, changed, prePost, changedNodes, next, heard>>

(* split_filter, split_enum, Router: the routes the event is for fire, and *)
(* count as changed by themselves.  A route fires for the first time here. *)
RunRouter(n) ==
  LET a == firing[net.in[n][1]]
      hit(m) == /\ net.kind[m] = "route" /\ net.in[m] = <<n>>
                /\ a # NoEvent /\ net.to[m] \in Selected(a)
      hits == InOrder({m \in 1 .. built : hit(m)})
  IN /\ firing' = [m \in Nodes(net) |-> IF m \in 1 .. built /\ hit(m) THEN a ELSE firing[m]]
     /\ changed' = [m \in Nodes(net) |-> (m \in 1 .. built /\ hit(m)) \/ changed[m]]
     /\ prePost' = prePost \o [i \in DOMAIN hits |-> [op |-> "clear", node |-> hits[i]]]
     /\ changedNodes' = changedNodes \o hits
     /\ UNCHANGED <<lifted, next, post, heard>>

(* The outer node of switch_s: a new inner stream is for the next          *)
(* transaction.                                                            *)
RunOuter(n) ==
  LET a == firing[net.in[n][1]] IN
  /\ prePost' = IF a = NoEvent THEN prePost
                ELSE Append(prePost, [op |-> "rewire", node |-> net.to[n],
                                      stream |-> Chosen(net, net.to[n], a)])
  /\ UNCHANGED <<lifted, firing, changed, changedNodes, next, post, heard>>

(* The streams whose data an update locks, and those that the updates in   *)
(* progress have locked.  The locks are not reentrant: merge, which takes  *)
(* both at once, of one stream waits for itself.                           *)
Locks(n) ==
  CASE net.kind[n] \in {"switch", "switchC"} -> <<inner[n]>>
    [] net.kind[n] = "route" -> <<>>
    [] OTHER -> net.in[n]

Locked == {net.in[stack[i].node][1] : i \in {k \in DOMAIN stack : stack[k].pc = "switching"}}

CanRun(n) == Lists!IsInjective(Locks(n)) /\ \A k \in DOMAIN Locks(n) : Locks(n)[k] \notin Locked

RunNothing == UNCHANGED <<lifted, firing, changed, prePost, changedNodes, next, post, heard>>

RunClosure(n) ==
  CASE net.kind[n] = "hold" -> RunHold(n)
    [] net.kind[n] = "listen" -> RunListen(n)
    [] n \in Defers(net) -> RunDefer(n)
    [] net.kind[n] = "router" -> RunRouter(n)
    [] net.kind[n] = "outer" -> RunOuter(n)
    [] n \in Sinks(net) \/ net.kind[n] \in {"route", "outerC"} -> RunNothing
    [] OTHER -> RunStream(n)

(* retain: the list without all the entries of n.                          *)
Without(list, n) ==
  LET kept == InOrder({i \in DOMAIN list : list[i] # n}) IN [k \in DOMAIN kept |-> list[kept[k]]]

(* Mutant: the dependency is moved, and the old stream still looked at.    *)
RewireHalf(n, s) ==
  /\ UNCHANGED inner
  /\ dependencies' = [dependencies EXCEPT ![n] = Append(Without(@, inner[n]), s)]
  /\ dependents' = [m \in Nodes(net) |->
       LET kept == IF m = inner[n] THEN Without(dependents[m], n) ELSE dependents[m]
       IN IF m = s THEN Append(kept, n) ELSE kept]

(* What the outer node of a switch queued: remove_dependency of the old    *)
(* stream, add_dependency of the new one.                                  *)
Rewire(n, s) ==
  /\ inner' = [inner EXCEPT ![n] = s]
  /\ dependencies' = [dependencies EXCEPT ![n] = Append(Without(@, inner[n]), s)]
  /\ dependents' = [m \in Nodes(net) |->
       LET kept == IF m = inner[n] THEN Without(dependents[m], n) ELSE dependents[m]
       IN IF m = s THEN Append(kept, n) ELSE kept]

-----------------------------------------------------------------------------
(* update_node *)

(* Mutant: a node is updated before what it depends on.                    *)
VisitShallow(n, rest) ==
  IF visited[n]
  THEN stack' = rest /\ UNCHANGED <<visited, prePost>>
  ELSE /\ visited' = [visited EXCEPT ![n] = TRUE]
       /\ prePost' = Append(prePost, [op |-> "unvisit", node |-> n])
       /\ stack' = Append(rest, Update("dependencies", n, dependencies[n], <<>>))

(* The call: a node is visited once, its flag is reset after propagation.  *)
Visit(n, rest) ==
  IF visited[n]
  THEN stack' = rest /\ UNCHANGED <<visited, prePost>>
  ELSE /\ visited' = [visited EXCEPT ![n] = TRUE]
       /\ prePost' = Append(prePost, [op |-> "unvisit", node |-> n])
       /\ stack' = Append(rest, Update("dependencies", n, dependencies[n], dependencies[n]))

VisitDependency ==
  /\ TopIs("update", "dependencies") /\ Top.list # <<>>
  /\ Visit(Head(Top.list), SetTop([Top EXCEPT !.list = Tail(@)]))
  /\ UNCHANGED <<net, built, edges, changed, firing, cells, depth, changedNodes, preEot, post,
                 gc, program, outcome>>

(* All dependencies visited: the update runs if one of them changed, and   *)
(* the dependents are next if the node itself changed.                     *)
AnyChanged == \E k \in DOMAIN Top.reads : changed[Top.reads[k]]

Switches(n) == AnyChanged /\ net.kind[n] = "outerC" /\ firing[net.in[n][1]] # NoEvent

RunUpdate ==
  /\ TopIs("update", "dependencies") /\ Top.list = <<>> /\ ~Switches(Top.node)
  /\ LET n == Top.node IN
       /\ IF AnyChanged THEN CanRun(n) /\ RunClosure(n) ELSE RunNothing
       /\ stack' = SetTop(Update("dependents", n, Top.reads,
                                 IF changed'[n] THEN dependents[n] ELSE <<>>))
  /\ UNCHANGED <<net, built, edges, visited, value, depth, preEot, gc, program,
                 log, settled>>

(* Mutant: the updates are not updated first.                              *)
BeginSwitchBlind ==
  /\ TopIs("update", "dependencies") /\ Top.list = <<>> /\ Switches(Top.node)
  /\ CanRun(Top.node)
  /\ stack' = SetTop([Top EXCEPT !.pc = "switching"])
  /\ UNCHANGED <<net, built, edges, flags, cells, depth, queues, gc, program, outcome>>

(* The outer node of switch_c, in the middle of its update, has the updates *)
(* of the new inner cell updated.                                          *)
BeginSwitch ==
  /\ TopIs("update", "dependencies") /\ Top.list = <<>> /\ Switches(Top.node)
  /\ CanRun(Top.node)
  /\ Visit(Followed(net, net.to[Top.node], firing[net.in[Top.node][1]]),
           SetTop([Top EXCEPT !.pc = "switching"]))
  /\ UNCHANGED <<net, built, edges, changed, firing, cells, depth, changedNodes, preEot, post,
                 gc, program, outcome>>

(* ... fires with what that cell holds or, if it has one, its new event,   *)
(* and rewires the switch at once.                                         *)
EndSwitch ==
  /\ TopIs("update", "switching")
  /\ LET o == Top.node
         n == net.to[o]
         a == firing[net.in[o][1]]
         s == Followed(net, n, a)
     IN /\ firing' = [firing EXCEPT ![n] = IF firing[s] = NoEvent THEN value[Chosen(net, n, a)]
                                           ELSE firing[s]]
        /\ changed' = [changed EXCEPT ![o] = TRUE, ![n] = TRUE]
        /\ prePost' = IF firing[n] = NoEvent
                      THEN Append(prePost, [op |-> "clear", node |-> n]) ELSE prePost
        /\ Rewire(n, s)
        /\ stack' = SetTop(Update("dependents", o, Top.reads, dependents[o]))
  /\ UNCHANGED <<net, built, visited, cells, depth, changedNodes, preEot, post, gc,
                 program, outcome>>

VisitDependent ==
  /\ TopIs("update", "dependents") /\ Top.list # <<>>
  /\ Visit(Head(Top.list), SetTop([Top EXCEPT !.list = Tail(@)]))
  /\ UNCHANGED <<net, built, edges, changed, firing, cells, depth, changedNodes, preEot, post,
                 gc, program, outcome>>

EndUpdate ==
  /\ TopIs("update", "dependents") /\ Top.list = <<>>
  /\ stack' = Below
  /\ UNCHANGED <<net, built, edges, flags, cells, depth, queues, gc, program, outcome>>

-----------------------------------------------------------------------------
(* end_of_transaction *)

(* A switch begins to follow the stream its cell holds.                    *)
Connect(n) ==
  LET s == Followed(net, n, value[net.to[n]]) IN
  /\ inner' = [inner EXCEPT ![n] = s]
  /\ dependencies' = [dependencies EXCEPT ![n] = Append(@, s)]
  /\ dependents' = [dependents EXCEPT ![s] = Append(@, n)]

(* _new: a stream that fires in the transaction it is made in counts as    *)
(* changed from then on.                                                   *)
Mark(n) ==
  IF firing[n] = NoEvent THEN UNCHANGED <<changed, prePost>>
  ELSE /\ changed' = [changed EXCEPT ![n] = TRUE]
       /\ prePost' = Append(prePost, [op |-> "forget", node |-> n])

(* pre_eot: the first steps of the nodes made in the transaction.          *)
RunPreEot ==
  /\ TopIs("eot", "pre_eot")
  /\ IF Top.list = <<>>
     THEN /\ stack' = SetTop([Top EXCEPT !.pc = "loop"])
          /\ RunNothing /\ UNCHANGED edges
     ELSE LET k == Head(Top.list) IN
          /\ stack' = SetTop([Top EXCEPT !.list = Tail(@)])
          /\ \/ k.op = "connect" /\ Connect(k.node) /\ RunNothing
             \/ k.op = "update" /\ CanRun(k.node) /\ RunClosure(k.node) /\ UNCHANGED edges
             \/ /\ k.op = "mark" /\ Mark(k.node)
                /\ UNCHANGED <<edges, firing, changedNodes, next, lifted, post, heard>>
  /\ UNCHANGED <<net, built, visited, value, depth, preEot, gc, program, log, settled>>

(* Mutant: the changed nodes are read, not taken.                          *)
TakeBatchCopy ==
  /\ stack' = SetTop([Top EXCEPT !.pc = "batch", !.list = changedNodes])
  /\ UNCHANGED changedNodes

(* mem::swap of changed_nodes with an empty list.                          *)
TakeBatch ==
  /\ stack' = SetTop([Top EXCEPT !.pc = "batch", !.list = changedNodes])
  /\ changedNodes' = <<>>

(* Mutant: the depth is given back later.                                  *)
CloseOpen ==
  /\ stack' = SetTop([Top EXCEPT !.pc = "pre_post", !.list = prePost])
  /\ prePost' = <<>> /\ UNCHANGED depth

(* Mutant: post runs, and pre_post is left for the next transaction.       *)
ClosePostFirst ==
  /\ stack' = SetTop([Top EXCEPT !.pc = "post", !.list = post])
  /\ depth' = depth - 1 /\ UNCHANGED prePost

(* The transaction is closed for what runs from here.                      *)
Close ==
  /\ stack' = SetTop([Top EXCEPT !.pc = "pre_post", !.list = prePost])
  /\ depth' = depth - 1 /\ prePost' = <<>>

(* The loop takes the changed nodes until there are none; what listeners   *)
(* heard meanwhile is the outcome of the transaction.                      *)
TakeChanged ==
  /\ TopIs("eot", "loop")
  /\ IF changedNodes # <<>>
     THEN TakeBatch /\ UNCHANGED <<depth, prePost, outcome>>
     ELSE /\ Close
          /\ heard' = <<>>
          /\ log' = IF heard = <<>> THEN log ELSE Append(log, heard)
          /\ settled' = built
          /\ UNCHANGED changedNodes
  /\ UNCHANGED <<net, built, edges, flags, cells, preEot, post, gc, program>>

UpdateChanged ==
  /\ TopIs("eot", "batch")
  /\ IF Top.list = <<>>
     THEN stack' = SetTop([Top EXCEPT !.pc = "loop"]) /\ UNCHANGED <<visited, prePost>>
     ELSE Visit(Head(Top.list), SetTop([Top EXCEPT !.list = Tail(@)]))
  /\ UNCHANGED <<net, built, edges, changed, firing, cells, depth, changedNodes, preEot, post,
                 gc, program, outcome>>

(* Mutant: a stream is cleared but its node stays changed.                 *)
ClearFiring(n) ==
  /\ firing' = [firing EXCEPT ![n] = NoEvent]
  /\ UNCHANGED changed

(* What _send queued: the stream stops firing.                             *)
Clear(n) ==
  /\ firing' = [firing EXCEPT ![n] = NoEvent]
  /\ changed' = [changed EXCEPT ![n] = FALSE]

(* What _new queued: its node goes on counting as changed.                 *)
Forget(n) ==
  /\ firing' = [firing EXCEPT ![n] = NoEvent]
  /\ changed' = [changed EXCEPT ![n] = TRUE]

(* pre_post: firings are cleared, visited flags reset, switches rewired.   *)
RunPrePost ==
  /\ TopIs("eot", "pre_post")
  /\ IF Top.list = <<>>
     THEN /\ stack' = SetTop([Top EXCEPT !.pc = "post", !.list = post])
          /\ post' = <<>>
          /\ UNCHANGED <<edges, flags>>
     ELSE LET k == Head(Top.list) IN
          /\ stack' = SetTop([Top EXCEPT !.list = Tail(@)])
          /\ \/ k.op = "clear" /\ Clear(k.node) /\ UNCHANGED <<edges, visited>>
             \/ k.op = "forget" /\ Forget(k.node) /\ UNCHANGED <<edges, visited>>
             \/ k.op = "rewire" /\ Rewire(k.node, k.stream) /\ UNCHANGED flags
             \/ /\ k.op = "unvisit"
                /\ visited' = [visited EXCEPT ![k.node] = FALSE]
                /\ UNCHANGED <<edges, firing, changed>>
          /\ UNCHANGED post
  /\ UNCHANGED <<net, built, cells, depth, changedNodes, preEot, prePost, gc,
                 program, outcome>>

(* Mutant: the value is copied, not taken.                                 *)
CommitCopy(c) ==
  /\ value' = [value EXCEPT ![c] = IF next[c] = NoEvent THEN @ ELSE next[c]]
  /\ UNCHANGED <<next, lifted>>

(* What hold queued: the cell takes its next value.                        *)
Commit(c) ==
  /\ value' = [value EXCEPT ![c] = IF next[c] = NoEvent THEN @ ELSE next[c]]
  /\ next' = [next EXCEPT ![c] = NoEvent]
  /\ UNCHANGED lifted

(* What once queued: remove_dependency of all its dependencies.            *)
Disconnect(n) ==
  /\ dependencies' = [dependencies EXCEPT ![n] = <<>>]
  /\ dependents' = [m \in Nodes(net) |->
       IF \E k \in DOMAIN dependencies[n] : dependencies[n][k] = m
       THEN Without(dependents[m], n) ELSE dependents[m]]

(* post: a cell takes its next value; a once removes its dependencies; a   *)
(* deferred event is sent in a transaction of its own, which ends at once. *)
RunPost ==
  /\ TopIs("eot", "post") /\ Top.list # <<>>
  /\ LET k == Head(Top.list)
         rest == SetTop([Top EXCEPT !.list = Tail(@)])
     IN \/ /\ k.op = "commit"
           /\ Commit(k.node)
           /\ stack' = rest
           /\ UNCHANGED <<edges, flags, changedNodes, preEot, prePost, depth, gc>>
        \/ /\ k.op = "remove"
           /\ Disconnect(k.node)
           /\ stack' = rest
           /\ UNCHANGED <<inner, flags, cells, changedNodes, preEot, prePost, depth, gc>>
        \/ /\ k.op = "send"
           /\ SinkSend(k.node, k.event)
           /\ depth' = depth + 1
           /\ BeginEot(rest, k)
           /\ UNCHANGED <<edges, visited, cells>>
        \/ /\ k.op = "user"
           /\ stack' = rest
           /\ UNCHANGED <<edges, flags, cells, changedNodes, preEot, prePost, depth, gc>>
  /\ UNCHANGED <<net, built, post, program, outcome>>

(* Mutant: every end calls the collector.                                  *)
EndEotUngated ==
  /\ TopIs("eot", "post") /\ Top.list = <<>>
  /\ stack' = Below
  /\ gcCounter' = gcCounter - 1
  /\ collecting' = TRUE
  /\ UNCHANGED <<net, built, edges, flags, cells, depth, queues, program, outcome>>

(* The last end in progress calls the collector.                           *)
EndEot ==
  /\ TopIs("eot", "post") /\ Top.list = <<>>
  /\ stack' = Below
  /\ gcCounter' = gcCounter - 1
  /\ collecting' = (gcCounter' = 0)
  /\ UNCHANGED <<net, built, edges, flags, cells, depth, queues, program, outcome>>

(* collect_cycles returns.  What it does to the heap is GcNode's: none of  *)
(* the nodes here is garbage.                                              *)
CollectCycles ==
  /\ collecting
  /\ collecting' = FALSE
  /\ UNCHANGED context

-----------------------------------------------------------------------------
Program ==
  \/ Enter \/ Leave \/ Post \/ Build
  \/ \E n \in Nodes(net), p \in Payload : Send(n, p)

Engine ==
  \/ RunPreEot \/ TakeChanged \/ UpdateChanged \/ RunPrePost \/ RunPost \/ EndEot
  \/ VisitDependency \/ RunUpdate \/ BeginSwitch \/ EndSwitch \/ VisitDependent \/ EndUpdate

(* The thread in collect_cycles does nothing else.                         *)
Library == CollectCycles \/ (~collecting /\ Engine)

Next == Library \/ (~collecting /\ Program)

Spec == Init /\ [][Next]_vars

(* The thread inside end_of_transaction keeps running.                     *)
FairSpec == Spec /\ WF_vars(Library)

-----------------------------------------------------------------------------
(* Properties *)

TypeOK ==
  /\ net \in Networks
  /\ built \in 0 .. Len(net.kind) /\ settled \in 0 .. built
  /\ \A n \in Nodes(net) :
       /\ dependencies[n] \in Seq(1 .. built) /\ dependents[n] \in Seq(1 .. built)
       /\ inner[n] \in 0 .. Len(net.kind)
  /\ visited \in [Nodes(net) -> BOOLEAN] /\ changed \in [Nodes(net) -> BOOLEAN]
  /\ DOMAIN firing = Nodes(net) /\ DOMAIN value = Nodes(net) /\ DOMAIN next = Nodes(net)
  /\ depth \in Nat /\ gcCounter \in Nat /\ collecting \in BOOLEAN
  /\ changedNodes \in Seq(Nodes(net))
  /\ \A i \in DOMAIN preEot : preEot[i].op \in {"connect", "update", "mark"}
  /\ \A i \in DOMAIN prePost : prePost[i].op \in {"clear", "forget", "rewire", "unvisit"}
  /\ \A i \in DOMAIN post : post[i].op \in {"commit", "remove", "send", "user"}
  /\ \A i \in DOMAIN stack : stack[i].op \in {"eot", "update"}
  /\ open \in 0 .. MaxDepth /\ sends \in 0 .. MaxSends

(* enter, leave and end_of_transaction: the depth counts the transactions  *)
(* of the program, and the propagation as one more; whatever runs after    *)
(* the propagation finds depth 0, so that its sends get their own.         *)
DepthExact == depth = open + (IF Propagating THEN 1 ELSE 0)

(* allow_collect_cycles_counter: the collector runs between transactions.  *)
(* No end is in progress that has closures to run, also not one that this  *)
(* end was nested in; none waits in a queue, holding what it captured; no  *)
(* stream fires, and every cell has committed its next value.              *)
CollectsBetween ==
  collecting =>
    /\ stack = <<>> /\ depth = 0
    /\ changedNodes = <<>> /\ preEot = <<>> /\ prePost = <<>> /\ post = <<>>
    /\ \A n \in Nodes(net) : firing[n] = NoEvent /\ ~visited[n] /\ next[n] = NoEvent

(* update_node: when no changed node is left, every stream carries exactly *)
(* the event that the sinks' events mean for it: no update was lost, none  *)
(* ran before its inputs, no listener was called twice ("exactly once per  *)
(* transaction, with no intermediate glitches", README).                   *)
Calls(l) == {k \in DOMAIN heard : heard[k][1] = l}

CalledOnce(l, a) == \E k \in Calls(l) : Calls(l) = {k} /\ heard[k] = <<l, a>>

PropagationExact ==
  (TopIs("eot", "loop") /\ changedNodes = <<>>) =>
    LET active == [n \in Nodes(net) |->
                     n <= built /\ (net.kind[n] = "once" => dependencies[n] # <<>>)]
        sent == [n \in Nodes(net) |-> IF n \in Sinks(net) THEN firing[n] ELSE NoEvent]
        events == Denotation(net, sent, value, active)
    IN /\ \A n \in Nodes(net) \ OfKind(net, Silent) :
            firing[n] = events[n]
       /\ \A c \in Cells(net) : events[c] # NoEvent => next[c] = events[c]
       /\ \A l \in Listeners(net) :
            IF events[l] = NoEvent THEN Calls(l) = {} ELSE CalledOnce(l, events[l])

(* pre_post before post: the post closures run outside of any transaction, *)
(* and what they send starts on a clean slate: nothing fires, and no node  *)
(* is still marked visited or, unless it was made while it fired, changed. *)
PostOutside ==
  TopIs("eot", "post") =>
    /\ depth = 0 /\ changedNodes = <<>> /\ prePost = <<>>
    /\ \A n \in Nodes(net) : firing[n] = NoEvent /\ ~visited[n]
    /\ \A n \in 1 .. net.start : changed[n] => net.kind[n] = "outerC"

(* snapshot sees a cell as it was before any state changes from the        *)
(* current transaction (its doc): a cell that was made only changes while  *)
(* no stream fires, whatever the program makes meanwhile.                  *)
CellsChangeBetween ==
  [][(\E c \in 1 .. built : value'[c] # value[c]) =>
       \A n \in Nodes(net) : firing[n] = NoEvent /\ firing'[n] = NoEvent]_vars

(* ... and in "the following transaction" the new value is visible: no     *)
(* transaction starts while an earlier one has a value to commit.          *)
CommittedFirst ==
  \A i \in 1 .. Len(stack) - 1 :
    stack[i].op = "eot" /\ stack[i].pc = "post" =>
      \A k \in DOMAIN stack[i].list : stack[i].list[k].op # "commit"

(* once "outputs only one value".                                          *)
HeardIn(entries, l) == Cardinality({k \in DOMAIN entries : entries[k][1] = l})

OnceOnly ==
  \A l \in Listeners(net) : net.kind[net.in[l][1]] = "once" =>
    \A i, j \in DOMAIN Append(log, heard) :
      LET all == Append(log, heard) IN
        HeardIn(all[i], l) + (IF i = j THEN 0 ELSE HeardIn(all[j], l)) <= 1

(* Every end_of_transaction returns, whatever it posts.                    *)
TransactionsEnd == stack # <<>> ~> stack = <<>> /\ ~collecting

-----------------------------------------------------------------------------
(* The refinement of Frp.  A transaction happens when its propagation is   *)
(* over: from there on a pending commit or removal counts as done.         *)

(* What frame i still has to do after its propagation; before that, the    *)
(* deferred event it was started for is still waiting.                     *)
Owed(i) ==
  CASE stack[i].op = "update" -> <<>>
    [] stack[i].op = "eot" /\ stack[i].pc \in {"pre_eot", "loop", "batch"} ->
         IF stack[i].cause = NoCause THEN <<>> ELSE <<stack[i].cause>>
    [] stack[i].op = "eot" /\ stack[i].pc = "pre_post" -> post
    [] stack[i].op = "eot" /\ stack[i].pc = "post" -> stack[i].list

Outstanding ==
  LET from[i \in 0 .. Len(stack)] == IF i = 0 THEN <<>> ELSE Owed(i) \o from[i - 1]
  IN from[Len(stack)]

Owes(op, n) == \E k \in DOMAIN Outstanding : Outstanding[k].op = op /\ Outstanding[k].node = n

HeldNow ==
  [c \in Cells(net) |->
     IF c > settled THEN Initial ELSE IF Owes("commit", c) THEN next[c] ELSE value[c]]
ArmedNow ==
  {o \in Onces(net) : (o > built \/ dependencies[o] # <<>>) /\ ~Owes("remove", o)}
DeferredNow ==
  LET isSend(k) == k.op = "send"
      sendsOwed == SelectSeq(Outstanding, isSend)
  IN [i \in DOMAIN sendsOwed |-> [node |-> sendsOwed[i].node, event |-> sendsOwed[i].event]]
LogNow == [i \in DOMAIN log |-> {log[i][k] : k \in DOMAIN log[i]}]

Promise == INSTANCE Frp WITH built <- settled, held <- HeldNow, armed <- ArmedNow,
                             deferred <- DeferredNow, log <- LogNow

(* Every run of the engine is a sequence of atomic transactions of Frp:    *)
(* Promise!Spec, with its stuttering steps spelled out.                    *)
ImplementsFrp ==
  Promise!Init /\ [][Promise!vars' # Promise!vars => Promise!Next]_vars
=============================================================================
