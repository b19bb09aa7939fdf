------------------------------ MODULE SharedCtx ------------------------------
(***************************************************************************)
(* A context that threads share, and closures that panic:                  *)
(* impl_/sodium_ctx.rs, impl_/transaction.rs and impl_/stream_sink.rs.     *)
(*                                                                         *)
(* A SodiumCtx can be cloned and sent to other threads.  What it holds is  *)
(* behind one lock, taken anew by every with_data, so a step here is one   *)
(* with_data, one access to a flag, or one hold of the lock of a stream.   *)
(* Each thread has a stack of the calls it is in; a panic unwinds it.      *)
(*                                                                         *)
(* The network is made beforehand: sinks, each with one listener.  A sent  *)
(* event, and a posted closure, is the number of the call.  Handlers and   *)
(* posted closures do not use the context.  SodiumCtx has networks, and    *)
(* closures that do, for one thread.                                       *)
(*                                                                         *)
(* Definitions marked "Mutant" are wrong on purpose: put in the place of   *)
(* the definition after them, they break a property.                       *)
(***************************************************************************)
EXTENDS Integers, Sequences, FiniteSets

CONSTANTS
  Thread,
  Sink,
  MayPanic,   \* which closures may: "body", "handler", "posted"
  PanicInClose, \* a posted closure may panic while Transaction::close runs it
  MaxOpens,   \* bound: transactions the program opens
  MaxSends,   \* bound: calls of send
  MaxPosts    \* bound: calls of post

ASSUME SharedAssumption ==
  /\ MayPanic \subseteq {"body", "handler", "posted"} /\ PanicInClose \in BOOLEAN
  /\ MaxOpens \in Nat /\ MaxSends \in Nat /\ MaxPosts \in Nat

VARIABLES
  stack,      \* the calls each thread is in, the innermost last
  depth,      \* transaction_depth
  counter,    \* allow_collect_cycles_counter
  changedNodes, prePost, post,  \* queues of SodiumCtxData
  visited, changed,             \* NodeData
  firing,     \* firing_op of a sink: an event, or 0
  opens, sends, posts,          \* what the program did
  inside,     \* the closures posted in a transaction
  ran, dropped,                 \* those that ran, and that a panic dropped
  heard,      \* the events the listeners were called with, in that order
  replaced,   \* the events that a later one of the same sink replaced
  raised,     \* how much of depth nobody will take back
  leaked,     \* ... of counter
  aborted     \* a panic while a panic unwound the stack

queues == <<changedNodes, prePost, post>>
flags == <<visited, changed, firing>>
calls == <<opens, sends, posts, inside>>
closures == <<ran, dropped>>
events == <<heard, replaced>>
lost == <<raised, leaked>>
sharedVars ==
  <<stack, depth, counter, queues, flags, calls, closures, events, lost, aborted>>

-----------------------------------------------------------------------------
(* A sink and its listener.                                                *)
SinkNode(s) == <<"sink", s>>
ListenNode(s) == <<"listen", s>>
Node == {"sink", "listen"} \X Sink

Elements(list) == {list[k] : k \in DOMAIN list}

Open(how) == [op |-> how, pc |-> "open", list |-> <<>>]
Sending(pc, list) == [op |-> "send", pc |-> pc, list |-> list]
End(pc, list) == [op |-> "end", pc |-> pc, list |-> list]
Visit(pc, n) == [op |-> "node", pc |-> pc, list |-> n]
Unwinding == [op |-> "unwind", pc |-> "unwind", list |-> <<>>]

Top(t) == stack[t][Len(stack[t])]
Below(t) == SubSeq(stack[t], 1, Len(stack[t]) - 1)
Is(t, op, pc) == ~aborted /\ stack[t] # <<>> /\ Top(t).op = op /\ Top(t).pc = pc

Calls(t, frames) == stack' = [stack EXCEPT ![t] = frames]
GoOn(t, frame) == Calls(t, Append(Below(t), frame))
Nest(t, frame, call) == Calls(t, Append(Append(Below(t), frame), call))
Return(t) == Calls(t, Below(t))

(* The call of close of a Transaction.                                     *)
Closing(t, n) == n > 0 /\ stack[t][n].op = "object" /\ stack[t][n].pc = "closing"

(* The program, and not the library, is running.                           *)
Runs(t) == ~aborted /\ (stack[t] # <<>> => Top(t).pc = "open")

(* A call that counts in transaction_depth: a transaction, until it leaves,*)
(* and end_of_transaction while it propagates; and one that counts in      *)
(* allow_collect_cycles_counter.                                           *)
Holds(frame) ==
  \/ frame.op \in {"closure", "object"} /\ frame.pc \in {"open", "again"}
  \/ frame.op = "send"
  \/ frame.op = "end" /\ frame.pc \in {"take", "batch", "uncount"}

HoldsOff(frame) == frame.op = "end" /\ frame.pc # "count"

InProgress == UNION {{t} \X DOMAIN stack[t] : t \in Thread}
Frame(x) == stack[x[1]][x[2]]
Holding == {x \in InProgress : Holds(Frame(x))}
HoldingOff == {x \in InProgress : HoldsOff(Frame(x))}

-----------------------------------------------------------------------------
SharedInit ==
  /\ stack = [t \in Thread |-> <<>>]
  /\ depth = 0 /\ counter = 0
  /\ changedNodes = <<>> /\ prePost = <<>> /\ post = <<>>
  /\ visited = [n \in Node |-> FALSE]
  /\ changed = [s \in Sink |-> FALSE]
  /\ firing = [s \in Sink |-> 0]
  /\ opens = 0 /\ sends = 0 /\ posts = 0 /\ inside = {}
  /\ ran = <<>> /\ dropped = {} /\ heard = <<>> /\ replaced = {}
  /\ raised = 0 /\ leaked = 0 /\ aborted = FALSE

-----------------------------------------------------------------------------
(* Transactions *)

(* Mutant: nobody ends a transaction while another end is in progress.     *)
LeaveQuiet(t, rest) ==
  /\ depth' = depth - 1
  /\ Calls(t, IF depth = 1 /\ counter = 0 THEN Append(rest, End("count", <<>>)) ELSE rest)

(* leave_transaction: whoever takes the depth to 0 ends the transaction.   *)
(* depth is a u32: below 0 it would overflow.                              *)
Leave(t, rest) ==
  /\ depth' = depth - 1
  /\ Calls(t, IF depth = 1 THEN Append(rest, End("count", <<>>)) ELSE rest)

(* SodiumCtx::transaction, or a new Transaction.                           *)
Enter(t, how) ==
  /\ Runs(t) /\ opens < MaxOpens
  /\ opens' = opens + 1
  /\ depth' = depth + 1
  /\ Calls(t, Append(stack[t], Open(how)))
  /\ UNCHANGED <<counter, queues, flags, sends, posts, inside, closures, events, lost, aborted>>

(* The closure has returned, or the Transaction is dropped, ...            *)
LeaveScope(t) ==
  /\ ~aborted /\ stack[t] # <<>> /\ Top(t).pc = "open"
  /\ Leave(t, Below(t))
  /\ UNCHANGED <<counter, queues, flags, calls, closures, events, lost, aborted>>

(* ... or it is closed before; done is set when leave_transaction returns. *)
Close(t) ==
  /\ Is(t, "object", "open")
  /\ Leave(t, Append(Below(t), [Top(t) EXCEPT !.pc = "closing"]))
  /\ UNCHANGED <<counter, queues, flags, calls, closures, events, lost, aborted>>

(* Mutant: done is not set.                                                *)
ClosedOpen(t) ==
  /\ Is(t, "object", "closing")
  /\ GoOn(t, Open("object"))
  /\ UNCHANGED <<depth, counter, queues, flags, calls, closures, events, lost, aborted>>

Closed(t) ==
  /\ Is(t, "object", "closing")
  /\ Return(t)
  /\ UNCHANGED <<depth, counter, queues, flags, calls, closures, events, lost, aborted>>

(* SodiumCtx::post only queues.                                            *)
Post(t) ==
  /\ Runs(t) /\ posts < MaxPosts
  /\ posts' = posts + 1
  /\ post' = Append(post, posts + 1)
  /\ inside' = IF stack[t] = <<>> THEN inside ELSE inside \cup {posts + 1}
  /\ UNCHANGED <<stack, depth, counter, changedNodes, prePost, flags, opens, sends, closures,
                 events, lost, aborted>>

-----------------------------------------------------------------------------
(* StreamSink::send of event e on s; list is <<s, e, is_first>>.  The      *)
(* transaction that _send opens is inside of the one of send.              *)

SendBegin(t, s) ==
  /\ Runs(t) /\ sends < MaxSends
  /\ sends' = sends + 1
  /\ depth' = depth + 1
  /\ Calls(t, Append(stack[t], Sending("mark", <<s, sends + 1, FALSE>>)))
  /\ UNCHANGED <<counter, queues, flags, opens, posts, inside, closures, events, lost, aborted>>

SendMark(t) ==
  /\ Is(t, "send", "mark")
  /\ changed' = [changed EXCEPT ![Top(t).list[1]] = TRUE]
  /\ GoOn(t, [Top(t) EXCEPT !.pc = "push"])
  /\ UNCHANGED <<depth, counter, queues, visited, firing, calls, closures, events, lost, aborted>>

SendPush(t) ==
  /\ Is(t, "send", "push")
  /\ changedNodes' = Append(changedNodes, Top(t).list[1])
  /\ GoOn(t, [Top(t) EXCEPT !.pc = "fire"])
  /\ UNCHANGED <<depth, counter, prePost, post, flags, calls, closures, events, lost, aborted>>

(* _send: without a coalescer the last event wins.                         *)
SendFire(t) ==
  LET s == Top(t).list[1]
      e == Top(t).list[2]
  IN /\ Is(t, "send", "fire")
     /\ firing' = [firing EXCEPT ![s] = e]
     /\ replaced' = replaced \cup ({firing[s]} \ {0})
     /\ GoOn(t, Sending("flag", <<s, e, firing[s] = 0>>))
     /\ UNCHANGED <<depth, counter, queues, visited, changed, calls, closures, heard, lost,
                    aborted>>

SendFlag(t) ==
  /\ Is(t, "send", "flag")
  /\ changed' = [changed EXCEPT ![Top(t).list[1]] = TRUE]
  /\ GoOn(t, [Top(t) EXCEPT !.pc = IF Top(t).list[3] THEN "queue" ELSE "leave"])
  /\ UNCHANGED <<depth, counter, queues, visited, firing, calls, closures, events, lost, aborted>>

(* Mutant: the wrong flag is queued.                                       *)
SendQueueVisited(t) ==
  /\ Is(t, "send", "queue")
  /\ prePost' = Append(prePost, <<"unvisit", Top(t).list[1]>>)
  /\ GoOn(t, [Top(t) EXCEPT !.pc = "leave"])
  /\ UNCHANGED <<depth, counter, changedNodes, post, flags, calls, closures, events, lost,
                 aborted>>

SendQueue(t) ==
  /\ Is(t, "send", "queue")
  /\ prePost' = Append(prePost, <<"clear", Top(t).list[1]>>)
  /\ GoOn(t, [Top(t) EXCEPT !.pc = "leave"])
  /\ UNCHANGED <<depth, counter, changedNodes, post, flags, calls, closures, events, lost,
                 aborted>>

SendLeave(t) ==
  /\ Is(t, "send", "leave")
  /\ Leave(t, Below(t))
  /\ UNCHANGED <<counter, queues, flags, calls, closures, events, lost, aborted>>

-----------------------------------------------------------------------------
(* end_of_transaction *)

EndCount(t) ==
  /\ Is(t, "end", "count")
  /\ depth' = depth + 1 /\ counter' = counter + 1
  /\ GoOn(t, End("take", <<>>))
  /\ UNCHANGED <<queues, flags, calls, closures, events, lost, aborted>>

(* Mutant: the changed nodes stay in the queue.                            *)
EndTakeCopy(t) ==
  /\ Is(t, "end", "take")
  /\ GoOn(t, IF changedNodes = <<>> THEN End("uncount", <<>>) ELSE End("batch", changedNodes))
  /\ UNCHANGED <<depth, counter, queues, flags, calls, closures, events, lost, aborted>>

(* The loop ends when there are no changed nodes.                          *)
EndTake(t) ==
  /\ Is(t, "end", "take")
  /\ GoOn(t, IF changedNodes = <<>> THEN End("uncount", <<>>) ELSE End("batch", changedNodes))
  /\ changedNodes' = <<>>
  /\ UNCHANGED <<depth, counter, prePost, post, flags, calls, closures, events, lost, aborted>>

EndBatch(t) ==
  LET list == Top(t).list IN
  /\ Is(t, "end", "batch")
  /\ IF list = <<>> THEN GoOn(t, End("take", <<>>))
     ELSE Nest(t, End("batch", Tail(list)), Visit("swap", SinkNode(Head(list))))
  /\ UNCHANGED <<depth, counter, queues, flags, calls, closures, events, lost, aborted>>

(* Mutant: pre_post is left for the next transaction.                      *)
EndUncountOnly(t) ==
  /\ Is(t, "end", "uncount")
  /\ depth' = depth - 1
  /\ GoOn(t, End("post", <<>>))
  /\ UNCHANGED <<counter, queues, flags, calls, closures, events, lost, aborted>>

EndUncount(t) ==
  /\ Is(t, "end", "uncount")
  /\ depth' = depth - 1
  /\ GoOn(t, End("pre_post", <<>>))
  /\ UNCHANGED <<counter, queues, flags, calls, closures, events, lost, aborted>>

EndPrePost(t) ==
  /\ Is(t, "end", "pre_post")
  /\ GoOn(t, End("clear", prePost))
  /\ prePost' = <<>>
  /\ UNCHANGED <<depth, counter, changedNodes, post, flags, calls, closures, events, lost,
                 aborted>>

(* The closures of update_node and of _send.                               *)
EndClear(t) ==
  LET list == Top(t).list IN
  /\ Is(t, "end", "clear")
  /\ IF list = <<>> THEN GoOn(t, End("post", <<>>)) /\ UNCHANGED flags
     ELSE LET what == Head(list)[1]
              x == Head(list)[2]
          IN /\ GoOn(t, End("clear", Tail(list)))
             /\ IF what = "clear"
                THEN /\ firing' = [firing EXCEPT ![x] = 0]
                     /\ changed' = [changed EXCEPT ![x] = FALSE]
                     /\ UNCHANGED visited
                ELSE /\ visited' = [visited EXCEPT ![x] = FALSE]
                     /\ UNCHANGED <<firing, changed>>
  /\ UNCHANGED <<depth, counter, queues, calls, closures, events, lost, aborted>>

(* Mutant: the closures stay in the queue.                                 *)
EndPostCopy(t) ==
  /\ Is(t, "end", "post")
  /\ GoOn(t, End("posted", post))
  /\ UNCHANGED <<depth, counter, queues, flags, calls, closures, events, lost, aborted>>

EndPost(t) ==
  /\ Is(t, "end", "post")
  /\ GoOn(t, End("posted", post))
  /\ post' = <<>>
  /\ UNCHANGED <<depth, counter, changedNodes, prePost, flags, calls, closures, events, lost,
                 aborted>>

EndPosted(t) ==
  LET list == Top(t).list IN
  /\ Is(t, "end", "posted")
  /\ IF list = <<>> THEN GoOn(t, End("release", <<>>)) /\ UNCHANGED ran
     ELSE GoOn(t, End("posted", Tail(list))) /\ ran' = Append(ran, Head(list))
  /\ UNCHANGED <<depth, counter, queues, flags, calls, dropped, events, lost, aborted>>

(* ... after which the collector runs if counter is 0 (GcNode).            *)
EndRelease(t) ==
  /\ Is(t, "end", "release")
  /\ counter' = counter - 1
  /\ Return(t)
  /\ UNCHANGED <<depth, queues, flags, calls, closures, events, lost, aborted>>

-----------------------------------------------------------------------------
(* update_node of a sink or of its listener *)

NodeSwap(t) ==
  LET n == Top(t).list IN
  /\ Is(t, "node", "swap")
  /\ visited' = [visited EXCEPT ![n] = TRUE]
  /\ IF visited[n] THEN Return(t) ELSE GoOn(t, Visit("queue", n))
  /\ UNCHANGED <<depth, counter, queues, changed, firing, calls, closures, events, lost, aborted>>

NodeQueue(t) ==
  LET n == Top(t).list IN
  /\ Is(t, "node", "queue")
  /\ prePost' = Append(prePost, <<"unvisit", n>>)
  /\ GoOn(t, Visit(IF n[1] = "listen" THEN "visit" ELSE "self", n))
  /\ UNCHANGED <<depth, counter, changedNodes, post, flags, calls, closures, events, lost,
                 aborted>>

(* The listener depends on the sink, which another thread may have reset.  *)
NodeVisit(t) ==
  LET s == Top(t).list[2] IN
  /\ Is(t, "node", "visit")
  /\ IF visited[SinkNode(s)] THEN GoOn(t, Visit("any", ListenNode(s)))
     ELSE Nest(t, Visit("any", ListenNode(s)), Visit("swap", SinkNode(s)))
  /\ UNCHANGED <<depth, counter, queues, flags, calls, closures, events, lost, aborted>>

NodeAny(t) ==
  /\ Is(t, "node", "any")
  /\ IF changed[Top(t).list[2]] THEN GoOn(t, [Top(t) EXCEPT !.pc = "run"]) ELSE Return(t)
  /\ UNCHANGED <<depth, counter, queues, flags, calls, closures, events, lost, aborted>>

(* The listener calls its handler, if the sink fires.                      *)
NodeRun(t) ==
  LET e == firing[Top(t).list[2]] IN
  /\ Is(t, "node", "run")
  /\ heard' = IF e = 0 THEN heard ELSE Append(heard, e)
  /\ Return(t)
  /\ UNCHANGED <<depth, counter, queues, flags, calls, closures, replaced, lost, aborted>>

(* The sink, if it changed, updates its listener.                          *)
NodeSelf(t) ==
  LET s == Top(t).list[2] IN
  /\ Is(t, "node", "self")
  /\ IF changed[s] THEN GoOn(t, Visit("swap", ListenNode(s))) ELSE Return(t)
  /\ UNCHANGED <<depth, counter, queues, flags, calls, closures, events, lost, aborted>>

-----------------------------------------------------------------------------
(* Panics *)

(* A panic that meets another one on its way aborts the process.           *)
Panics(t, what) ==
  /\ what \in MayPanic
  /\ aborted' = (\E i \in DOMAIN stack[t] : stack[t][i].op = "unwind")

PanicBody(t) ==
  /\ Runs(t) /\ stack[t] # <<>>
  /\ Panics(t, "body")
  /\ Calls(t, Append(stack[t], Unwinding))
  /\ UNCHANGED <<depth, counter, queues, flags, calls, closures, events, lost>>

PanicHandler(t) ==
  LET e == firing[Top(t).list[2]] IN
  /\ Is(t, "node", "run") /\ e # 0
  /\ Panics(t, "handler")
  /\ heard' = Append(heard, e)
  /\ GoOn(t, Unwinding)
  /\ UNCHANGED <<depth, counter, queues, flags, calls, closures, replaced, lost>>

PanicPosted(t) ==
  LET list == Top(t).list IN
  /\ Is(t, "end", "posted") /\ list # <<>>
  /\ Panics(t, "posted")
  /\ Closing(t, Len(stack[t]) - 1) => PanicInClose
  /\ ran' = Append(ran, Head(list))
  /\ Nest(t, End("posted", Tail(list)), Unwinding)
  /\ UNCHANGED <<depth, counter, queues, flags, calls, dropped, events, lost>>

(* Unwinding drops a Transaction, which leaves unless done is set ...      *)
UnwindObject(t) ==
  LET n == Len(stack[t]) - 1 IN
  /\ Is(t, "unwind", "unwind") /\ n > 0 /\ stack[t][n].op = "object"
  /\ Leave(t, Append(SubSeq(stack[t], 1, n - 1), Unwinding))
  /\ UNCHANGED <<counter, queues, flags, calls, closures, events, lost, aborted>>

(* ... and stops other calls where they are.  What an end added to depth   *)
(* the Transaction takes back that is being closed, and leaves again.      *)
UnwindCall(t) ==
  LET n == Len(stack[t]) - 1
      rest == SubSeq(stack[t], 1, n - 1)
      again == Holds(stack[t][n]) /\ Closing(t, n - 1)
  IN /\ Is(t, "unwind", "unwind") /\ n > 0 /\ stack[t][n].op # "object"
     /\ Calls(t, Append(IF again THEN [rest EXCEPT ![n - 1].pc = "again"] ELSE rest, Unwinding))
     /\ raised' = IF Holds(stack[t][n]) /\ ~again THEN raised + 1 ELSE raised
     /\ leaked' = IF HoldsOff(stack[t][n]) THEN leaked + 1 ELSE leaked
     /\ dropped' = IF stack[t][n].pc = "posted"
                   THEN dropped \cup Elements(stack[t][n].list) ELSE dropped
     /\ UNCHANGED <<depth, counter, queues, flags, calls, ran, events, aborted>>

(* The thread goes on, or ends.                                            *)
Unwound(t) ==
  /\ Is(t, "unwind", "unwind") /\ Len(stack[t]) = 1
  /\ Return(t)
  /\ UNCHANGED <<depth, counter, queues, flags, calls, closures, events, lost, aborted>>

-----------------------------------------------------------------------------
SendStep(t) ==
  \/ SendMark(t) \/ SendPush(t) \/ SendFire(t)
  \/ SendFlag(t) \/ SendQueue(t) \/ SendLeave(t)

EndStep(t) ==
  \/ EndCount(t) \/ EndTake(t) \/ EndBatch(t) \/ EndUncount(t)
  \/ EndPrePost(t) \/ EndClear(t) \/ EndPost(t) \/ EndPosted(t) \/ EndRelease(t)

NodeStep(t) ==
  NodeSwap(t) \/ NodeQueue(t) \/ NodeVisit(t) \/ NodeAny(t) \/ NodeRun(t) \/ NodeSelf(t)

UnwindStep(t) == UnwindObject(t) \/ UnwindCall(t) \/ Unwound(t)

PanicStep(t) == PanicBody(t) \/ PanicHandler(t) \/ PanicPosted(t)

(* What a thread does without being asked.                                 *)
CodeStep(t) == SendStep(t) \/ EndStep(t) \/ NodeStep(t) \/ Closed(t) \/ UnwindStep(t)

SharedNext ==
  \E t \in Thread :
    \/ Enter(t, "closure") \/ Enter(t, "object")
    \/ LeaveScope(t) \/ Close(t) \/ Post(t)
    \/ \E s \in Sink : SendBegin(t, s)
    \/ CodeStep(t) \/ PanicStep(t)

SharedSpec == SharedInit /\ [][SharedNext]_sharedVars

(* The threads run, and leave the scopes they are in.                      *)
SharedFairSpec ==
  SharedSpec /\ \A t \in Thread : WF_sharedVars(CodeStep(t)) /\ WF_sharedVars(LeaveScope(t))

-----------------------------------------------------------------------------
(* Properties *)

AtRest == ~aborted /\ \A t \in Thread : stack[t] = <<>>

SharedTypeOK ==
  /\ depth \in Int /\ counter \in Int
  /\ Elements(changedNodes) \subseteq Sink
  /\ Elements(prePost) \subseteq ({"clear"} \X Sink) \cup ({"unvisit"} \X Node)
  /\ Elements(post) \cup Elements(ran) \cup dropped \subseteq 1 .. posts
  /\ visited \in [Node -> BOOLEAN]
  /\ changed \in [Sink -> BOOLEAN]
  /\ firing \in [Sink -> 0 .. sends]
  /\ opens \in 0 .. MaxOpens /\ sends \in 0 .. MaxSends /\ posts \in 0 .. MaxPosts
  /\ inside \subseteq 1 .. posts
  /\ Elements(heard) \cup replaced \subseteq 1 .. sends
  /\ aborted \in BOOLEAN

(* enter_transaction, leave_transaction: whatever the threads do, and      *)
(* whatever panics but a closure that Transaction::close runs in post      *)
(* (PanicInClose), transaction_depth counts every transaction that is open *)
(* and every propagation, so that none is ended by another one, and        *)
(* allow_collect_cycles_counter every end in progress.                     *)
CountsCover ==
  /\ depth >= Cardinality(Holding)
  /\ counter >= Cardinality(HoldingOff)

(* post: a closure is queued, or taken by one end, or has run, once, or    *)
(* was in the list of an end that a panic stopped.                         *)
PostsKept ==
  \A p \in 1 .. posts :
    LET at(list) == {k \in DOMAIN list : list[k] = p}
        taken == UNION {{x} \X at(Frame(x).list) :
                          x \in {y \in InProgress : Frame(y).pc = "posted"}}
    IN Cardinality(at(post)) + Cardinality(at(ran)) + Cardinality(taken)
         + Cardinality({p} \cap dropped) = 1

(* end_of_transaction: when no thread is in a call, and no panic left the  *)
(* depth raised, the closures that were posted in transactions have run:   *)
(* the thread that takes the depth to 0, by leaving or by ending, takes    *)
(* the queue after that.                                                   *)
PostsRun ==
  AtRest /\ raised = 0 => inside \subseteq Elements(ran) \cup dropped

(* ... and for the same reason every event has been cleared, and every     *)
(* node can be visited again.                                              *)
FlagsReset ==
  AtRest /\ raised = 0 =>
    /\ prePost = <<>>
    /\ \A s \in Sink : firing[s] = 0
    /\ \A n \in Node : ~visited[n]

(* What the README of the repository says: an update propagates exactly    *)
(* once per transaction.  Every event that none replaced has been heard.   *)
EventsHeard ==
  AtRest /\ raised = 0 => 1 .. sends \subseteq Elements(heard) \cup replaced

(* Every call returns: the ends of several threads do not keep each other  *)
(* going.                                                                  *)
CallsReturn == \A t \in Thread : []<>(stack[t] = <<>> \/ aborted)
=============================================================================
