----------------------------- MODULE OnceProofs -----------------------------
(***************************************************************************)
(* Theorems about SodiumCtx: a once outputs only one value (OnceOnly), in  *)
(* every network whose onces deferred events cannot reach (Apart), with    *)
(* lifts, switches, routers and what the program makes as it goes on.      *)
(*                                                                         *)
(* A once that fires posts a closure that removes its dependencies, and    *)
(* only that stops it from firing in a later transaction.  So the removal  *)
(* must be run before the once can be updated again, and nothing must undo *)
(* it.  Five invariants say why, each by the ones before it:               *)
(*                                                                         *)
(* QueueInv.   Between transactions nothing is left that could fire or     *)
(*   disconnect: nothing is posted but the program's own closures, only    *)
(*   sinks carry events, and pre_eot was taken.                            *)
(* CallsInv.   No node is being updated by two calls, and a call that is   *)
(*   about to run the closure of a once has read the dependencies that the *)
(*   once has now: a once that is disconnected does not run.               *)
(* FirstInv.   The first update of a new once finds it connected, and a    *)
(*   switch follows a stream that its network lets it follow, or is about  *)
(*   to be connected.                                                      *)
(* NestedInv.  While post runs what was posted, it may open transactions   *)
(*   for deferred events.  Nothing happens in these to the nodes that are  *)
(*   Steady: those that no deferred event reaches.  So a once among them   *)
(*   fires in the program's own transactions only.                         *)
(* OnceInv.    A once that fires has posted its removal, which post runs   *)
(*   before the program's next transaction.  So in each of the latter, the *)
(*   onces that were heard before are disconnected, do not fire, and are   *)
(*   not heard again.                                                      *)
(*                                                                         *)
(* The collector runs between transactions (CollectsBetween).  This needs  *)
(* QueueInv, and that a next value still has its commit to come:           *)
(*                                                                         *)
(* CommitInv.  A cell with a next value has queued the commit that takes   *)
(*   it: in post, or in the list of a call that runs what was posted.      *)
(***************************************************************************)
EXTENDS SodiumCtxProofs

-----------------------------------------------------------------------------
(* The calls on a stack.                                                   *)
LEMMA FramesPush ==
  ASSUME NEW s, s \in Seq(Frames(s)), NEW f
  PROVE  Frames(Append(s, f)) = Frames(s) \cup {f}
<1> DEFINE t == Append(s, f)
<1>1. /\ Len(s) \in Nat /\ Len(t) = Len(s) + 1
      /\ t[Len(s) + 1] = f /\ \A i \in 1 .. Len(s) : t[i] = s[i]
  BY PushSeq
<1> HIDE DEF t
<1>2. \A i : i \in 1 .. Len(t) <=> i = Len(s) + 1 \/ i \in 1 .. Len(s)
  BY <1>1
<1> DEFINE l == Len(s)
<1>3. \A i : i \in 1 .. Len(t) <=> i = l + 1 \/ i \in 1 .. l
  BY <1>2
<1>4. t[l + 1] = f /\ \A i \in 1 .. l : t[i] = s[i]
  BY <1>1
<1>5. Frames(s) = {s[i] : i \in 1 .. l}
  BY DEF Frames
<1> HIDE DEF l
<1>6. \A x \in Frames(t) : x \in Frames(s) \cup {f}
  BY <1>3, <1>4, <1>5 DEF Frames
<1>7. \A x \in Frames(s) \cup {f} : x \in Frames(t)
  <2>1. \A x \in Frames(s) : \E i \in 1 .. Len(t) : t[i] = x
    BY <1>3, <1>4, <1>5
  <2>2. \E i \in 1 .. Len(t) : t[i] = f
    BY <1>3, <1>4
  <2> QED BY <2>1, <2>2 DEF Frames
<1>8. Frames(t) = Frames(s) \cup {f}
  BY <1>6, <1>7
<1> QED BY <1>8 DEF t

(* A call less.                                                            *)
LEMMA FramesPop ==
  ASSUME NEW s, s \in Seq(Frames(s)), s # <<>>
  PROVE  Frames(s) = Frames(Lower(s)) \cup {s[Len(s)]}
<1> DEFINE t == Lower(s)
           l == Len(s)
<1>1. /\ l \in Nat \ {0} /\ Len(t) = l - 1
      /\ \A i \in 1 .. l - 1 : t[i] = s[i]
  BY PopSeq
<1>2. Frames(s) = {s[i] : i \in 1 .. l}
  BY DEF Frames
<1> HIDE DEF t, l
<1>3. \A i : i \in 1 .. l <=> i = l \/ i \in 1 .. l - 1
  BY <1>1
<1>4. Frames(t) = {s[i] : i \in 1 .. l - 1}
  BY <1>1 DEF Frames
<1>5. Frames(s) = Frames(t) \cup {s[l]}
  BY <1>2, <1>3, <1>4
<1> QED BY <1>5 DEF t, l

(* The stack and the call on top of it.                                    *)
LEMMA TopFrames ==
  ASSUME Shape(stack), stack # <<>>
  PROVE  /\ Frames(stack) = Frames(Below) \cup {Top} /\ Top \in Frames(stack)
         /\ \A f : /\ Frames(SetTop(f)) = Frames(Below) \cup {f} /\ SetTop(f) # <<>>
                   /\ SetTop(f) \in Seq(Frames(SetTop(f)))
                   /\ SetTop(f)[Len(SetTop(f))] = f
         /\ \A f, g : /\ Frames(Append(SetTop(f), g)) = Frames(Below) \cup {f, g}
                      /\ Append(SetTop(f), g)[Len(Append(SetTop(f), g))] = g
                      /\ Append(SetTop(f), g) # <<>>
<1>1. stack \in Seq(Frames(stack))
  BY DEF Shape
<1>2. Lower(stack) \in Seq(Frames(Lower(stack))) /\ Frames(stack) = Frames(Lower(stack)) \cup {Top}
  BY <1>1, PopSeq, FramesPop DEF Top
<1>3. Below = Lower(stack)
  BY DEF Below, Lower
<1> HIDE DEF Lower
<1>4. ASSUME NEW f
      PROVE  /\ Frames(SetTop(f)) = Frames(Below) \cup {f} /\ SetTop(f) # <<>>
             /\ SetTop(f) \in Seq(Frames(SetTop(f))) /\ SetTop(f)[Len(SetTop(f))] = f
  <2> DEFINE b == Lower(stack)
  <2>1. b \in Seq(Frames(b))
    BY <1>2
  <2> HIDE DEF b
  <2>2. /\ Append(b, f) \in Seq(Frames(Append(b, f))) /\ Append(b, f) # <<>>
        /\ Append(b, f)[Len(Append(b, f))] = f /\ Frames(Append(b, f)) = Frames(b) \cup {f}
    BY <2>1, PushSeq, FramesPush
  <2> QED BY <1>3, <2>2 DEF SetTop, b
<1>5. ASSUME NEW f, NEW g
      PROVE  /\ Frames(Append(SetTop(f), g)) = Frames(Below) \cup {f, g}
             /\ Append(SetTop(f), g)[Len(Append(SetTop(f), g))] = g /\ Append(SetTop(f), g) # <<>>
  <2> DEFINE b == SetTop(f)
  <2>1. b \in Seq(Frames(b)) /\ Frames(b) = Frames(Below) \cup {f}
    BY <1>4
  <2> HIDE DEF b
  <2>2. /\ Append(b, g)[Len(Append(b, g))] = g /\ Frames(Append(b, g)) = Frames(b) \cup {g}
        /\ Append(b, g) # <<>>
    BY <2>1, PushSeq, FramesPush
  <2> QED BY <2>1, <2>2 DEF b
<1> QED BY <1>2, <1>3, <1>4, <1>5

(* Nothing is propagated below a call of end_of_transaction.               *)
LEMMA BelowEot ==
  ASSUME Shape(stack), stack # <<>>, Top.op = "eot"
  PROVE  \A f \in Frames(Below) : ~Propagates(f)
<1>1. FrameOK(stack, Len(stack)) /\ Len(stack) \in Nat \ {0}
  BY TopFrame
<1>2. \A i \in 1 .. Len(stack) - 1 : ~Propagates(stack[i])
  BY <1>1 DEF FrameOK, Top
<1>3. /\ Len(Lower(stack)) = Len(stack) - 1
      /\ \A i \in 1 .. Len(stack) - 1 : Lower(stack)[i] = stack[i]
  BY PopSeq DEF Shape
<1>4. Below = Lower(stack)
  BY DEF Below, Lower
<1> HIDE DEF Lower, Below
<1> QED BY <1>2, <1>3, <1>4 DEF Frames

-----------------------------------------------------------------------------
(* Steps *)

(* The call on top goes on.                                                *)
Kept(f) ==
  /\ {"op", "pc", "list"} \subseteq DOMAIN f /\ f.op = Top.op
  /\ Top.op = "update" => {"node", "reads"} \subseteq DOMAIN f /\ f.node = Top.node
                       /\ f.reads = Top.reads

(* ... and may call update_node.                                           *)
Goes(f) ==
  \/ stack' = SetTop(f) /\ visited' = visited
  \/ \E n \in 1 .. built :
       /\ ~visited[n] /\ visited' = [visited EXCEPT ![n] = TRUE]
       /\ stack' = Append(SetTop(f), Update("dependencies", n, dependencies[n], dependencies[n]))

(* A step of the propagation in which no closure runs.                     *)
Walking(f) ==
  /\ Kept(f) /\ Goes(f) /\ f.pc # "post" /\ Top.pc # "post"
  /\ f.pc = "dependencies" => Top.pc = "dependencies"
  /\ f.pc = "switching" =>
       Top.pc = "switching" \/ (Top.op = "update" /\ firing[net.in[Top.node][1]] # NoEvent)
  /\ f.pc = "pre_eot" =>
       Top.pc = "pre_eot" /\ \E k : k.op = "mark" /\ Entries(Top.list) = Entries(f.list) \cup {k}
  /\ f.pc # "pre_eot" => Top.pc # "pre_eot" \/ Top.list = <<>>
  /\ UNCHANGED <<net, built, edges, firing, value, preEot, post, heard, log>>

(* A step of the propagation in which the closure of node n runs.          *)
Running(n, f) ==
  /\ Kept(f) /\ stack' = SetTop(f) /\ n \in 1 .. built /\ RunClosure(n)
  /\ \/ Top.op = "update" /\ Top.pc = "dependencies" /\ f.pc = "dependents" /\ n = Top.node
          /\ Top.reads # <<>>
     \/ Top.op = "eot" /\ Top.pc = "pre_eot" /\ f.pc = "pre_eot"
          /\ \E k \in Entries(Top.list) : /\ k.op = "update" /\ k.node = n
                                          /\ Entries(Top.list) = Entries(f.list) \cup {k}
  /\ UNCHANGED <<net, built, edges, visited, value, preEot, log>>

(* A call that goes on keeps its node and what it reads.                   *)
LEMMA KeptChanged ==
  ASSUME StackInv, TypeInv, stack # <<>>
  PROVE  /\ {"op", "pc", "list"} \subseteq DOMAIN Top
         /\ \A v : LET f == [Top EXCEPT !.list = v] IN Kept(f) /\ f.pc = Top.pc /\ f.list = v
         /\ \A p : LET f == [Top EXCEPT !.pc = p] IN Kept(f) /\ f.pc = p /\ f.list = Top.list
         /\ \A p, v : LET f == [Top EXCEPT !.pc = p, !.list = v] IN
                        Kept(f) /\ f.pc = p /\ f.list = v
         /\ Top.op = "update" => \A p, v : Kept(Update(p, Top.node, Top.reads, v))
<1>1. /\ {"op", "pc", "list"} \subseteq DOMAIN Top
      /\ Top.op = "update" => {"node", "reads"} \subseteq DOMAIN Top
  BY TypedTop DEF FrameTyped
<1>2. Top.op = "update" => \A p, v : Kept(Update(p, Top.node, Top.reads, v))
  BY DEF Kept, Update
<1> DEFINE t == Top
<1>4. /\ {"op", "pc", "list"} \subseteq DOMAIN t
      /\ t.op = "update" => {"node", "reads"} \subseteq DOMAIN t
  BY <1>1
<1> HIDE DEF t
<1>3. ASSUME NEW p, NEW v, NEW f,
             f \in {[t EXCEPT !.list = v], [t EXCEPT !.pc = p], [t EXCEPT !.pc = p, !.list = v]}
      PROVE  /\ {"op", "pc", "list"} \subseteq DOMAIN f /\ f.op = t.op
             /\ t.op = "update" => /\ {"node", "reads"} \subseteq DOMAIN f
                                   /\ f.node = t.node /\ f.reads = t.reads
  BY <1>3, <1>4
<1>5. /\ \A v : LET f == [t EXCEPT !.list = v] IN f.pc = t.pc /\ f.list = v
      /\ \A p : LET f == [t EXCEPT !.pc = p] IN f.pc = p /\ f.list = t.list
      /\ \A p, v : LET f == [t EXCEPT !.pc = p, !.list = v] IN f.pc = p /\ f.list = v
  BY <1>4
<1> QED BY <1>1, <1>2, <1>3, <1>5 DEF Kept, t

(* update_node is called, or not, since the node is visited.               *)
LEMMA VisitGoes ==
  ASSUME NEW STATE n, n \in 1 .. built, NEW f, Visit(n, SetTop(f))
  PROVE  Goes(f)
BY DEF Visit, Goes

(* A switch is connected.                                                  *)
Connecting(k, f) ==
  /\ Kept(f) /\ stack' = SetTop(f) /\ Top.pc = "pre_eot" /\ f.pc = "pre_eot" /\ Top.op = "eot"
  /\ k.op = "connect" /\ FirstStep(net, built, k) /\ Connect(k.node)
  /\ Entries(Top.list) = Entries(f.list) \cup {k}
  /\ UNCHANGED <<net, built, visited, firing, value, preEot, post, heard, log>>

(* Calls of update_node, and what stays the same.                          *)
LEMMA UpdateSteps ==
  ASSUME StackInv, CleanInv, TypeInv,
         \/ VisitDependency \/ RunUpdate \/ BeginSwitch \/ VisitDependent
  PROVE  (\E f : Walking(f)) \/ (\E n, f : Running(n, f))
<1>0. stack # <<>> /\ Top.op = "update" /\ Top.pc \in {"dependencies", "dependents"}
  BY DEF VisitDependency, RunUpdate, BeginSwitch, VisitDependent, TopIs
<1>1. Top.node \in 1 .. built /\ NodeList(built, Top.list)
  BY <1>0, TypedTop DEF FrameTyped
<1>2. ASSUME Top.list # <<>> PROVE Head(Top.list) \in 1 .. built
  BY <1>1, <1>2, TypedTail
<1>3. built \in Nat /\ 1 .. built \subseteq Nodes(net)
  BY TypedNet
<1>4. CASE VisitDependency \/ VisitDependent
  <2> DEFINE f == [Top EXCEPT !.list = Tail(@)]
  <2>1. /\ Visit(Head(Top.list), SetTop(f)) /\ Top.list # <<>>
        /\ UNCHANGED <<net, built, edges, firing, value, preEot, post, heard, log>>
    BY <1>4 DEF VisitDependency, VisitDependent, cells, outcome
  <2>2. Kept(f) /\ f.pc = Top.pc
    BY <1>0, KeptChanged
  <2> HIDE DEF f
  <2>3. Goes(f)
    BY <1>2, <2>1, VisitGoes
  <2>4. Walking(f)
    BY <1>0, <2>1, <2>2, <2>3 DEF Walking
  <2> QED BY <2>4
<1>5. CASE RunUpdate
  <2> DEFINE n == Top.node
             f == Update("dependents", n, Top.reads, IF changed'[n] THEN dependents[n] ELSE <<>>)
  <2>1. /\ stack' = SetTop(f) /\ Top.pc = "dependencies"
        /\ IF AnyChanged THEN RunClosure(n) ELSE RunNothing
        /\ UNCHANGED <<net, built, edges, visited, value, preEot, log>>
    BY <1>5 DEF RunUpdate, TopIs
  <2>2. Kept(f) /\ f.pc = "dependents"
    BY <1>0, KeptChanged DEF Update
  <2> HIDE DEF f
  <2>3. CASE AnyChanged
    <3>1. Top.reads # <<>>
      BY <2>3 DEF AnyChanged
    <3>2. Running(n, f)
      BY <1>0, <1>1, <2>1, <2>2, <2>3, <3>1 DEF Running
    <3> QED BY <3>2
  <2>4. CASE ~AnyChanged
    <3>1. UNCHANGED <<firing, post, heard>>
      BY <2>1, <2>4 DEF RunNothing
    <3>2. Walking(f)
      BY <1>0, <2>1, <2>2, <3>1 DEF Walking, Goes
    <3> QED BY <3>2
  <2> QED BY <2>3, <2>4
<1>6. CASE BeginSwitch
  <2> DEFINE f == [Top EXCEPT !.pc = "switching"]
             m == net.to[Top.node]
             s == Followed(net, m, firing[net.in[Top.node][1]])
  <2>1. /\ Visit(s, SetTop(f)) /\ net.kind[Top.node] = "outerC"
        /\ firing[net.in[Top.node][1]] # NoEvent
        /\ UNCHANGED <<net, built, edges, firing, value, preEot, post, heard, log>>
    BY <1>6 DEF BeginSwitch, Switches, cells, outcome
  <2>2. m = Top.node + 1 /\ m \in 1 .. built /\ net.kind[m] = "switchC"
    BY <1>1, <2>1, TypedNet, PartnerMade
  <2>3. m \in Nodes(net) /\ m - 1 <= built
    BY <1>1, <1>3, <2>2
  <2> HIDE DEF m
  <2>4. s \in 1 .. built
    BY <2>2, <2>3, TypedNet, FollowedMade
  <2>5. Kept(f) /\ f.pc = "switching"
    BY <1>0, KeptChanged
  <2> HIDE DEF f, s
  <2>6. Goes(f)
    BY <2>1, <2>4, VisitGoes
  <2>7. Walking(f)
    BY <1>0, <2>1, <2>5, <2>6 DEF Walking
  <2> QED BY <2>7
<1> QED BY <1>4, <1>5, <1>6

(* What is at the head of a list is in it.                                 *)
LEMMA HeadOf ==
  ASSUME NEW s, IsList(s), s # <<>>
  PROVE  Entries(s) = Entries(Tail(s)) \cup {Head(s)} /\ Head(s) \in Entries(s)
BY ListTail

(* end_of_transaction while it propagates.                                 *)
LEMMA EotSteps ==
  ASSUME StackInv, CleanInv, TypeInv,
         \/ RunPreEot \/ UpdateChanged \/ (TakeChanged /\ changedNodes # <<>>)
  PROVE  (\E f : Walking(f)) \/ (\E n, f : Running(n, f)) \/ (\E k, f : Connecting(k, f))
<1>0. stack # <<>> /\ Top.op = "eot" /\ Top.pc \in {"pre_eot", "batch", "loop"}
  BY DEF RunPreEot, TakeChanged, UpdateChanged, TopIs
<1>1. /\ Top.pc = "pre_eot" => FirstList(net, built, Top.list)
      /\ Top.pc = "batch" => NodeList(built, Top.list)
  BY <1>0, TypedTop DEF FrameTyped
<1>2. CASE RunPreEot
  <2>1. Top.pc = "pre_eot" /\ UNCHANGED <<net, built, visited, value, preEot, log>>
    BY <1>2 DEF RunPreEot, TopIs
  <2>2. CASE Top.list = <<>>
    <3> DEFINE f == [Top EXCEPT !.pc = "loop"]
    <3>1. stack' = SetTop(f) /\ UNCHANGED <<edges, firing, post, heard>>
      BY <1>2, <2>2 DEF RunPreEot, RunNothing
    <3>2. Kept(f) /\ f.pc = "loop"
      BY <1>0, KeptChanged
    <3> HIDE DEF f
    <3>3. Walking(f)
      BY <2>1, <2>2, <3>1, <3>2 DEF Walking, Goes
    <3> QED BY <3>3
  <2>3. CASE Top.list # <<>>
    <3> DEFINE k == Head(Top.list)
               f == [Top EXCEPT !.list = Tail(@)]
    <3>1. /\ stack' = SetTop(f)
          /\ \/ k.op = "connect" /\ Connect(k.node) /\ UNCHANGED <<firing, post, heard>>
             \/ k.op = "update" /\ RunClosure(k.node) /\ UNCHANGED edges
             \/ k.op = "mark" /\ UNCHANGED <<edges, firing, post, heard>>
      BY <1>2, <2>3 DEF RunPreEot, RunNothing
    <3>2. Kept(f) /\ f.pc = "pre_eot" /\ f.list = Tail(Top.list)
      BY <1>0, <2>1, KeptChanged
    <3>3. Entries(Top.list) = Entries(f.list) \cup {k} /\ k \in Entries(Top.list)
      BY <1>1, <2>1, <2>3, <3>2, HeadOf DEF FirstList
    <3> HIDE DEF f, k
    <3>4. FirstStep(net, built, k)
      BY <1>1, <2>1, <3>3 DEF FirstList
    <3>5. CASE k.op = "connect" /\ Connect(k.node) /\ UNCHANGED <<firing, post, heard>>
      <4>1. Connecting(k, f)
        BY <1>0, <2>1, <3>1, <3>2, <3>3, <3>4, <3>5 DEF Connecting
      <4> QED BY <4>1
    <3>6. CASE k.op = "update" /\ RunClosure(k.node) /\ UNCHANGED edges
      <4>1. k.node \in 1 .. built
        BY <3>4 DEF FirstStep
      <4>2. Running(k.node, f)
        BY <1>0, <2>1, <3>1, <3>2, <3>3, <3>6, <4>1 DEF Running
      <4> QED BY <4>2
    <3>7. CASE k.op = "mark" /\ UNCHANGED <<edges, firing, post, heard>>
      <4>1. Walking(f)
        BY <2>1, <3>1, <3>2, <3>3, <3>7 DEF Walking, Goes
      <4> QED BY <4>1
    <3> QED BY <3>1, <3>5, <3>6, <3>7
  <2> QED BY <2>2, <2>3
<1>3. CASE UpdateChanged
  <2>1. /\ UNCHANGED <<net, built, edges, firing, value, preEot, post, heard, log>>
        /\ Top.pc = "batch"
    BY <1>3 DEF UpdateChanged, TopIs, cells, outcome
  <2>2. CASE Top.list = <<>>
    <3> DEFINE f == [Top EXCEPT !.pc = "loop"]
    <3>1. stack' = SetTop(f) /\ visited' = visited
      BY <1>3, <2>2 DEF UpdateChanged
    <3>2. Kept(f) /\ f.pc = "loop"
      BY <1>0, KeptChanged
    <3> HIDE DEF f
    <3>3. Walking(f)
      BY <2>1, <3>1, <3>2 DEF Walking, Goes
    <3> QED BY <3>3
  <2>3. CASE Top.list # <<>>
    <3> DEFINE f == [Top EXCEPT !.list = Tail(@)]
    <3>1. Visit(Head(Top.list), SetTop(f))
      BY <1>3, <2>3 DEF UpdateChanged
    <3>2. Kept(f) /\ f.pc = "batch"
      BY <1>0, <2>1, KeptChanged
    <3> HIDE DEF f
    <3>3. Head(Top.list) \in 1 .. built
      BY <1>1, <2>1, <2>3, TypedTail
    <3>4. Goes(f)
      BY <3>1, <3>3, VisitGoes
    <3>5. Walking(f)
      BY <2>1, <3>2, <3>4 DEF Walking
    <3> QED BY <3>5
  <2> QED BY <2>2, <2>3
<1>4. CASE TakeChanged /\ changedNodes # <<>>
  <2> DEFINE f == [Top EXCEPT !.pc = "batch", !.list = changedNodes]
  <2>1. /\ stack' = SetTop(f) /\ Top.pc = "loop"
        /\ UNCHANGED <<net, built, visited, edges, firing, value, preEot, post, heard, log>>
    BY <1>4 DEF TakeChanged, TakeBatch, TopIs, flags, cells, outcome
  <2>2. Kept(f) /\ f.pc = "batch"
    BY <1>0, KeptChanged
  <2> HIDE DEF f
  <2>3. Walking(f)
    BY <2>1, <2>2 DEF Walking, Goes
  <2> QED BY <2>3
<1> QED BY <1>2, <1>3, <1>4

(* Every step of the engine is one of these, or                            *)
LEMMA EngineSteps ==
  ASSUME StackInv, StackInv', CleanInv, TypeInv, Engine
  PROVE  /\ stack # <<>> /\ UNCHANGED <<net, built>>
         /\ \/ /\ Active(stack) /\ Active(stack')
               /\ \/ (\E f : Walking(f)) \/ (\E n, f : Running(n, f)) \/ (\E k, f : Connecting(k, f))
                  \/ EndSwitch \/ EndUpdate
            \/ TakeChanged /\ changedNodes = <<>>
            \/ RunPrePost \/ RunPost \/ EndEot
<1>0. stack # <<>> /\ UNCHANGED <<net, built>>
  BY DEF Engine, VisitDependency, RunUpdate, BeginSwitch, EndSwitch, VisitDependent, EndUpdate,
         RunPreEot, TakeChanged, UpdateChanged, RunPrePost, RunPost, EndEot, TopIs
<1>1. CASE VisitDependency \/ RunUpdate \/ BeginSwitch \/ VisitDependent \/ EndSwitch \/ EndUpdate
  <2>1. Active(stack)
    BY <1>0, <1>1 DEF VisitDependency, RunUpdate, BeginSwitch, EndSwitch, VisitDependent, EndUpdate,
       TopIs, Active, Propagates, Top
  <2>2. UNCHANGED <<depth, open>>
    BY <1>1 DEF VisitDependency, RunUpdate, BeginSwitch, EndSwitch, VisitDependent, EndUpdate,
       program
  <2>3. Active(stack')
    BY <2>1, <2>2 DEF StackInv
  <2> QED BY <1>0, <1>1, <2>1, <2>3, UpdateSteps
<1>2. CASE RunPreEot \/ UpdateChanged \/ (TakeChanged /\ changedNodes # <<>>)
  <2>1. Active(stack)
    BY <1>0, <1>2 DEF RunPreEot, UpdateChanged, TakeChanged, TopIs, Active, Propagates, Top
  <2>2. UNCHANGED <<depth, open>>
    BY <1>2 DEF RunPreEot, UpdateChanged, TakeChanged, program
  <2>3. Active(stack')
    BY <2>1, <2>2 DEF StackInv
  <2> QED BY <1>0, <1>2, <2>1, <2>3, EotSteps
<1> QED BY <1>0, <1>1, <1>2 DEF Engine

(* Outside of end_of_transaction: the program goes on,                     *)
Idling ==
  /\ stack = <<>> /\ stack' = <<>>
  /\ post' = post \/ post' = Append(post, [op |-> "user", node |-> 0])
  /\ firing' = firing \/ \E n \in Sinks(net) : \E a : firing' = [firing EXCEPT ![n] = a]
  /\ UNCHANGED <<net, built, edges, visited, preEot, heard, log>>

(* or leaves its outermost transaction.                                    *)
Leaving ==
  /\ stack = <<>> /\ stack' = Append(stack, Eot("pre_eot", preEot, NoCause)) /\ preEot' = <<>>
  /\ UNCHANGED <<net, built, edges, visited, firing, post, heard, log>>

(* What the program does: it enters or leaves, sends, posts or makes nodes. *)
LEMMA ProgramSteps ==
  ASSUME Program
  PROVE  Idling \/ Leaving \/ Build
<1>1. CASE Enter
  <2>1. Idling
    BY <1>1 DEF Enter, Idling, flags, queues, outcome
  <2> QED BY <2>1
<1>2. CASE Post
  <2>1. Idling
    BY <1>2 DEF Post, Idling, flags, outcome
  <2> QED BY <2>1
<1>3. CASE Leave
  <2>1. Idling \/ Leaving
    BY <1>3 DEF Leave, BeginEot, Idling, Leaving, flags, outcome
  <2> QED BY <2>1
<1>4. CASE \E n \in Nodes(net), p \in Payload : Send(n, p)
  <2>1. PICK n \in Nodes(net), p \in Payload : Send(n, p)
    BY <1>4
  <2>2. n \in Sinks(net)
    BY <2>1 DEF Send, ProgramSinks, Sinks, OfKind
  <2>3. \E a : firing' = [firing EXCEPT ![n] = a]
    BY <2>1 DEF Send, SinkSend, Fire
  <2>4. Idling
    BY <2>1, <2>2, <2>3 DEF Send, Idling, outcome
  <2> QED BY <2>4
<1> QED BY <1>1, <1>2, <1>3, <1>4 DEF Program

-----------------------------------------------------------------------------
(* What is queued: pre_eot is empty from the moment a transaction ends, the *)
(* calls of listeners are logged when the propagation is over, post was    *)
(* taken by the call that runs it, and between transactions nothing waits  *)
(* but what the program posted, and nothing but sinks carries an event.    *)
QueueInv ==
  /\ stack # <<>> => preEot = <<>>
  /\ ~Active(stack) => heard = <<>>
  /\ TopIs("eot", "post") => post = <<>>
  /\ stack = <<>> =>
       /\ \A k \in Entries(post) : k.op = "user"
       /\ \A n \in Nodes(net) \ Sinks(net) : firing[n] = NoEvent

(* The new top of a stack                                                  *)
LEMMA ActiveTop == Active(stack) => ~TopIs("eot", "post") /\ stack # <<>>
BY DEF Active, TopIs, Propagates, Top

(* ... and so it remains, whatever is done.                                *)
LEMMA QueueKeeps ==
  ASSUME StackInv, StackInv', CleanInv, TypeInv, TypeInv', QueueInv, [Next]_vars
  PROVE  QueueInv'
<1>1. CASE UNCHANGED context
  <2>1. UNCHANGED <<stack, net, preEot, heard, post, firing>>
    BY <1>1 DEF context, queues, outcome, flags
  <2>2. Nodes(net') = Nodes(net) /\ Sinks(net') = Sinks(net)
    BY <2>1
  <2>3. Active(stack') <=> Active(stack)
    BY <2>1
  <2>4. TopIs("eot", "post")' <=> TopIs("eot", "post")
    BY <2>1 DEF TopIs, Top
  <2> QED BY <2>1, <2>2, <2>3, <2>4 DEF QueueInv
<1>2. CASE Idling
  <2>1. \A k \in Entries(post') : k.op = "user"
    <3>1. IsList(post)
      BY DEF TypeInv, QueuesTyped, PostList
    <3>2. post' = post \/ Entries(post') = Entries(post) \cup {[op |-> "user", node |-> 0]}
      BY <1>2, <3>1, ListAppend DEF Idling
    <3> QED BY <1>2, <3>2 DEF QueueInv, Idling
  <2>2. ASSUME NEW n \in Nodes(net) \ Sinks(net) PROVE firing'[n] = NoEvent
    <3>1. firing[n] = NoEvent /\ DOMAIN firing = Nodes(net)
      BY <1>2 DEF QueueInv, Idling, TypeInv, StateTypes
    <3>2. firing' = firing \/ \E m \in Sinks(net) : \E a : firing' = [firing EXCEPT ![m] = a]
      BY <1>2 DEF Idling
    <3> QED BY <3>1, <3>2
  <2>3. heard' = <<>>
    BY <1>2 DEF QueueInv, Idling, Active
  <2>4. Nodes(net') = Nodes(net) /\ Sinks(net') = Sinks(net)
    BY <1>2 DEF Idling
  <2> QED BY <1>2, <2>1, <2>2, <2>3, <2>4 DEF QueueInv, Idling, TopIs
<1>3. CASE Leaving
  <2> DEFINE f == Eot("pre_eot", preEot, NoCause)
  <2>1. stack' = Append(<<>>, f) /\ f.op = "eot" /\ f.pc = "pre_eot"
    BY <1>3 DEF Leaving, Eot
  <2> HIDE DEF f
  <2>2. stack' # <<>> /\ Len(stack') = 1 /\ stack'[1] = f
    BY <2>1
  <2>3. stack' # <<>> /\ stack'[Len(stack')] = f
    BY <2>2
  <2>4. preEot' = <<>> /\ heard' = <<>>
    BY <1>3 DEF QueueInv, Leaving, Active
  <2>5. ~TopIs("eot", "post")'
    BY <2>1, <2>3 DEF TopIs, Top
  <2> QED BY <2>3, <2>4, <2>5 DEF QueueInv
<1>4. CASE Build
  <2>1. stack = <<>> /\ stack' = <<>> /\ post' = post /\ heard' = heard /\ net' = net
    BY <1>4 DEF Build, outcome
  <2>2. ASSUME NEW n \in Nodes(net) \ Sinks(net) PROVE firing'[n] = NoEvent
    <3>1. firing[n] = NoEvent
      BY <2>1 DEF QueueInv
    <3>2. CASE net.kind[built + 1] = "spark"
      <4>1. n # built + 1
        BY <3>2 DEF Sinks, OfKind
      <4>2. \E a : firing' = [firing EXCEPT ![built + 1] = a]
        BY <1>4, <3>2 DEF Build, SinkSend, Fire
      <4> QED BY <3>1, <4>1, <4>2
    <3>3. CASE net.kind[built + 1] # "spark"
      BY <1>4, <3>1, <3>3 DEF Build
    <3> QED BY <3>2, <3>3
  <2>3. Nodes(net') = Nodes(net) /\ Sinks(net') = Sinks(net)
    BY <2>1
  <2>4. heard = <<>> /\ \A k \in Entries(post) : k.op = "user"
    BY <2>1 DEF QueueInv, Active
  <2> QED BY <2>1, <2>2, <2>3, <2>4 DEF QueueInv, TopIs
<1>5. ASSUME Engine
      PROVE  QueueInv'
  <2>1. stack # <<>> /\ preEot = <<>>
    BY <1>5, EngineSteps DEF QueueInv
  <2>2. preEot' = <<>>
    BY <1>5, <2>1 DEF Engine, VisitDependency, RunUpdate, BeginSwitch, EndSwitch, VisitDependent,
       EndUpdate, RunPreEot, TakeChanged, UpdateChanged, RunPrePost, RunPost, EndEot, BeginEot, queues
  <2>3. CASE Active(stack')
    <3>1. stack' # <<>> /\ ~TopIs("eot", "post")'
      BY <2>3 DEF Active, TopIs, Propagates, Top
    <3> QED BY <2>2, <2>3, <3>1 DEF QueueInv
  <2>4. CASE TakeChanged /\ changedNodes = <<>>
    <3>1. /\ stack' = SetTop([Top EXCEPT !.pc = "pre_post", !.list = prePost]) /\ heard' = <<>>
      BY <2>4 DEF TakeChanged, Close
    <3> DEFINE f == [Top EXCEPT !.pc = "pre_post", !.list = prePost]
    <3>2. f.pc = "pre_post"
      BY <2>1, KeptChanged
    <3>3. stack' # <<>> /\ stack'[Len(stack')] = f
      BY <2>1, <3>1, TopFrames DEF StackInv
    <3> HIDE DEF f
    <3>4. ~TopIs("eot", "post")'
      BY <3>2, <3>3 DEF TopIs, Top
    <3> QED BY <2>2, <3>1, <3>3, <3>4 DEF QueueInv
  <2>5. CASE RunPrePost
    <3>1. TopIs("eot", "pre_post") /\ heard' = heard
      BY <2>5 DEF RunPrePost, outcome
    <3>2. heard' = <<>>
      BY <3>1 DEF QueueInv, TopIs, Active, Propagates, Top
    <3>3. TopIs("eot", "post")' => post' = <<>>
      <4>1. CASE Top.list = <<>>
        BY <2>5, <4>1 DEF RunPrePost
      <4>2. CASE Top.list # <<>>
        <5> DEFINE f == [Top EXCEPT !.list = Tail(@)]
        <5>1. stack' = SetTop(f)
          BY <2>5, <4>2 DEF RunPrePost
        <5>2. f.pc = "pre_post"
          BY <2>1, <3>1, KeptChanged DEF TopIs
        <5> HIDE DEF f
        <5>3. stack'[Len(stack')] = f
          BY <2>1, <5>1, TopFrames DEF StackInv
        <5> QED BY <5>2, <5>3 DEF TopIs, Top
      <4> QED BY <4>1, <4>2
    <3>4. stack' # <<>>
      <4>1. \E f : stack' = SetTop(f)
        BY <2>5 DEF RunPrePost
      <4> QED BY <2>1, <4>1, TopFrames DEF StackInv
    <3> QED BY <2>2, <3>2, <3>3, <3>4 DEF QueueInv
  <2>6. CASE RunPost \/ EndEot
    <3>1. TopIs("eot", "post") /\ heard' = heard /\ post' = post
      BY <2>6 DEF RunPost, EndEot, outcome, queues
    <3>2. heard' = <<>> /\ post' = <<>>
      BY <3>1 DEF QueueInv, TopIs, Active, Propagates, Top
    <3>3. CASE stack' = <<>>
      <4>1. EndEot
        <5>1. CASE RunPost
          <6>1. \E f, g : stack' = SetTop(f) \/ stack' = Append(SetTop(f), g)
            BY <5>1 DEF RunPost, BeginEot
          <6>2. stack' # <<>>
            BY <2>1, <6>1, TopFrames DEF StackInv
          <6> QED BY <3>3, <6>2
        <5> QED BY <2>6, <5>1
      <4>2. UNCHANGED <<net, firing>>
        BY <4>1 DEF EndEot, flags
      <4>3. ~Active(stack) /\ Pending(stack) = {}
        BY <3>1 DEF TopIs, Active, Propagates, Top, Pending
      <4>4. \A n \in Nodes(net) : firing[n] = NoEvent
        BY <2>1, <4>3, Resting DEF Covered, Due
      <4>5. Nodes(net') = Nodes(net)
        BY <4>2
      <4>6. \A n \in Nodes(net') \ Sinks(net') : firing'[n] = NoEvent
        BY <4>2, <4>4, <4>5
      <4>7. Entries(post') = {}
        BY <3>2, ListEmpty
      <4> QED BY <2>2, <3>2, <4>6, <4>7 DEF QueueInv
    <3>4. CASE stack' # <<>>
      BY <2>2, <3>2, <3>4 DEF QueueInv
    <3> QED BY <3>3, <3>4
  <2> QED BY <1>5, <2>3, <2>4, <2>5, <2>6, EngineSteps
<1> QED BY <1>1, <1>2, <1>3, <1>4, <1>5, ProgramSteps, StepOf

(* Whatever the program does, a transaction begins with nothing that an    *)
(* earlier one has left behind in the queues of the context, but closures  *)
(* the program posted itself.                                              *)
THEOREM QueuesEmpty == Spec => []QueueInv
<1>1. Init => QueueInv
  <2> SUFFICES ASSUME Init PROVE QueueInv
    OBVIOUS
  <2>1. stack = <<>> /\ post = <<>> /\ heard = <<>> /\ \A n \in Nodes(net) : firing[n] = NoEvent
    BY DEF Init
  <2>2. Entries(post) = {}
    BY <2>1, ListEmpty
  <2> QED BY <2>1, <2>2 DEF QueueInv, TopIs
<1>2. StackInv /\ StackInv' /\ CleanInv /\ TypeInv /\ TypeInv' /\ QueueInv /\ [Next]_vars => QueueInv'
  BY QueueKeeps
<1> QED BY <1>1, <1>2, StackShape, FlagsOwed, NodesMade, PTL DEF Spec

(* switch_c fires and is rewired.                                          *)
Switching(n, s, f) ==
  /\ Top.op = "update" /\ Top.pc = "switching" /\ n \in 1 .. built /\ net.kind[n] = "switchC"
  /\ net.in[n] = <<Top.node>> /\ s \in Followable(net, n)
  /\ Kept(f) /\ f.pc = "dependents" /\ stack' = SetTop(f)
  /\ Rewire(n, s) /\ \E a : firing' = [firing EXCEPT ![n] = a]
  /\ UNCHANGED <<net, built, visited, preEot, post, heard, log>>

(* The propagation is over.                                                *)
Closing(f) ==
  /\ TopIs("eot", "loop") /\ Kept(f) /\ f.pc = "pre_post" /\ stack' = SetTop(f)
  /\ heard' = <<>> /\ log' = (IF heard = <<>> THEN log ELSE Append(log, heard))
  /\ UNCHANGED <<net, built, edges, visited, firing, preEot, post>>

(* A closure of pre_post runs.                                             *)
Resetting(f) ==
  /\ TopIs("eot", "pre_post") /\ Kept(f) /\ f.pc = "pre_post" /\ stack' = SetTop(f)
  /\ firing' = firing \/ \E n : firing' = [firing EXCEPT ![n] = NoEvent]
  /\ UNCHANGED edges \/ \E n, s : /\ n \in 1 .. built /\ net.kind[n] = "switch"
                                  /\ s \in Followable(net, n) /\ Rewire(n, s)
  /\ UNCHANGED <<net, built, preEot, post, heard, log>>

(* post takes the closures that were posted.                               *)
Taking(f) ==
  /\ TopIs("eot", "pre_post") /\ Top.list = <<>>
  /\ Kept(f) /\ f.pc = "post" /\ f.list = post /\ stack' = SetTop(f) /\ post' = <<>>
  /\ UNCHANGED <<net, built, edges, visited, firing, preEot, heard, log>>

(* ... and runs one: it is a removal, a send, or neither.                  *)
Posting(k, f) ==
  /\ TopIs("eot", "post") /\ Kept(f) /\ f.pc = "post" /\ Entries(Top.list) = Entries(f.list) \cup {k}
  /\ PostStep(net, built, k)
  /\ \/ k.op \in {"commit", "user"} /\ stack' = SetTop(f) /\ UNCHANGED <<edges, firing, preEot>>
     \/ /\ k.op = "remove" /\ Disconnect(k.node) /\ stack' = SetTop(f)
        /\ UNCHANGED <<inner, firing, preEot>>
     \/ /\ k.op = "send" /\ stack' = Append(SetTop(f), Eot("pre_eot", preEot, k)) /\ preEot' = <<>>
        /\ (\E a : firing' = [firing EXCEPT ![k.node] = a]) /\ UNCHANGED edges
  /\ UNCHANGED <<net, built, visited, post, heard, log>>

(* A call returns.                                                         *)
Returning ==
  /\ stack' = Below /\ UNCHANGED <<net, built, edges, visited, firing, preEot, post, heard, log>>

(* The end of the update of a switch_c is one of these steps,              *)
LEMMA SwitchStep ==
  ASSUME StackInv, CleanInv, TypeInv, EndSwitch
  PROVE  \E n, s, f : Switching(n, s, f)
<1> DEFINE o == Top.node
           n == net.to[o]
           s == Followed(net, n, firing[net.in[o][1]])
           f == Update("dependents", o, Top.reads, dependents[o])
<1>1. /\ stack # <<>> /\ Top.op = "update" /\ Top.pc = "switching"
      /\ \E a : firing' = [firing EXCEPT ![n] = a]
      /\ stack' = SetTop(f) /\ Rewire(n, s)
      /\ UNCHANGED <<net, built, visited, preEot, post, heard, log>>
  BY DEF EndSwitch, TopIs, outcome
<1>2. net.kind[o] = "outerC"
  <2>1. FrameClean(net, Top)
    BY <1>1, CleanTop DEF CleanInv
  <2> QED BY <1>1, <2>1 DEF FrameClean
<1>3. o \in 1 .. built
  BY <1>1, TypedTop DEF FrameTyped
<1>4. n = o + 1 /\ n \in 1 .. built /\ net.kind[n] = "switchC"
  BY <1>2, <1>3, TypedNet, PartnerMade
<1>5. built \in Nat /\ 1 .. built \subseteq Nodes(net)
  BY TypedNet
<1>6. n \in Nodes(net) /\ n - 1 = o /\ n - 1 <= built
  BY <1>3, <1>4, <1>5
<1>7. Kept(f) /\ f.pc = "dependents"
  BY <1>1, KeptChanged DEF Update
<1> HIDE DEF n, f
<1>8. s \in Followable(net, n)
  BY <1>4, <1>6, TypedNet, FollowedMade
<1>9. net.in[n] = <<n - 1>>
  BY <1>4, <1>6, TypedNet DEF NetworkOK
<1> HIDE DEF s
<1>10. Switching(n, s, f)
  BY <1>1, <1>4, <1>6, <1>7, <1>8, <1>9 DEF Switching
<1> QED BY <1>10

(* so is the end of the propagation,                                       *)
LEMMA CloseStep ==
  ASSUME StackInv, CleanInv, TypeInv, TakeChanged, changedNodes = <<>>
  PROVE  \E f : Closing(f)
<1> DEFINE f == [Top EXCEPT !.pc = "pre_post", !.list = prePost]
<1>1. /\ stack # <<>> /\ TopIs("eot", "loop") /\ stack' = SetTop(f)
      /\ heard' = <<>> /\ log' = (IF heard = <<>> THEN log ELSE Append(log, heard))
      /\ UNCHANGED <<net, built, edges, visited, firing, preEot, post>>
  BY DEF TakeChanged, Close, TopIs, flags
<1>2. Kept(f) /\ f.pc = "pre_post"
  BY <1>1, KeptChanged
<1> HIDE DEF f
<1> QED BY <1>1, <1>2 DEF Closing

(* so are the steps of pre_post,                                           *)
LEMMA PrePostStep ==
  ASSUME StackInv, CleanInv, TypeInv, RunPrePost
  PROVE  (\E f : Resetting(f)) \/ (\E f : Taking(f))
<1>0. /\ stack # <<>> /\ TopIs("eot", "pre_post")
      /\ UNCHANGED <<net, built, preEot, heard, log>>
  BY DEF RunPrePost, TopIs, outcome
<1>1. CASE Top.list = <<>>
  <2> DEFINE f == [Top EXCEPT !.pc = "post", !.list = post]
  <2>1. stack' = SetTop(f) /\ post' = <<>> /\ UNCHANGED <<edges, visited, firing>>
    BY <1>1 DEF RunPrePost, flags
  <2>2. Kept(f) /\ f.pc = "post" /\ f.list = post
    BY <1>0, KeptChanged
  <2> HIDE DEF f
  <2>3. Taking(f)
    BY <1>0, <1>1, <2>1, <2>2 DEF Taking
  <2> QED BY <2>3
<1>2. CASE Top.list # <<>>
  <2> DEFINE f == [Top EXCEPT !.list = Tail(@)]
             k == Head(Top.list)
  <2>1. /\ stack' = SetTop(f) /\ post' = post
        /\ firing' = firing \/ firing' = [firing EXCEPT ![k.node] = NoEvent]
        /\ UNCHANGED edges \/ (k.op = "rewire" /\ Rewire(k.node, k.stream))
    BY <1>2 DEF RunPrePost, Clear, Forget, flags
  <2>2. Kept(f) /\ f.pc = "pre_post"
    BY <1>0, KeptChanged DEF TopIs
  <2>3. ResetStep(net, built, k)
    <3>1. ResetList(net, built, Top.list)
      BY <1>0, TypedTop DEF FrameTyped, TopIs
    <3> QED BY <1>2, <3>1, TypedTail
  <2> HIDE DEF f, k
  <2>4. UNCHANGED edges \/ \E n, s : /\ n \in 1 .. built /\ net.kind[n] = "switch"
                                     /\ s \in Followable(net, n) /\ Rewire(n, s)
    BY <2>1, <2>3 DEF ResetStep
  <2>5. Resetting(f)
    BY <1>0, <2>1, <2>2, <2>4 DEF Resetting
  <2> QED BY <2>5
<1> QED BY <1>1, <1>2

(* those of post,                                                          *)
LEMMA PostStepRuns ==
  ASSUME StackInv, CleanInv, TypeInv, RunPost
  PROVE  \E k, f : Posting(k, f)
<1> DEFINE f == [Top EXCEPT !.list = Tail(@)]
           k == Head(Top.list)
<1>0. /\ stack # <<>> /\ TopIs("eot", "post") /\ Top.list # <<>>
      /\ UNCHANGED <<net, built, post, heard, log>>
  BY DEF RunPost, TopIs, outcome
<1>1. Kept(f) /\ f.pc = "post" /\ f.list = Tail(Top.list)
  BY <1>0, KeptChanged DEF TopIs
<1>2. PostList(net, built, Top.list)
  BY <1>0, TypedTop DEF FrameTyped, TopIs
<1>3. Entries(Top.list) = Entries(f.list) \cup {k} /\ PostStep(net, built, k)
  BY <1>0, <1>1, <1>2, HeadOf DEF PostList
<1>4. visited' = visited
  BY DEF RunPost, flags
<1>5. \/ k.op \in {"commit", "user"} /\ stack' = SetTop(f) /\ UNCHANGED <<edges, firing, preEot>>
      \/ /\ k.op = "remove" /\ Disconnect(k.node) /\ stack' = SetTop(f)
         /\ UNCHANGED <<inner, firing, preEot>>
      \/ /\ k.op = "send" /\ SinkSend(k.node, k.event) /\ BeginEot(SetTop(f), k)
         /\ UNCHANGED edges
  BY DEF RunPost, flags
<1> HIDE DEF f, k
<1>6. SinkSend(k.node, k.event) => \E a : firing' = [firing EXCEPT ![k.node] = a]
  BY DEF SinkSend, Fire
<1>7. Posting(k, f)
  BY <1>0, <1>1, <1>3, <1>4, <1>5, <1>6 DEF Posting, BeginEot
<1> QED BY <1>7

(* and the returns.                                                        *)
LEMMA ReturnStep ==
  ASSUME EndUpdate \/ EndEot
  PROVE  Returning
BY DEF EndUpdate, EndEot, Returning, flags, queues, outcome

(* All the steps of the engine.                                            *)
LEMMA AllSteps ==
  ASSUME StackInv, StackInv', CleanInv, TypeInv, Engine
  PROVE  /\ stack # <<>> /\ UNCHANGED <<net, built>>
         /\ \/ /\ Active(stack) /\ Active(stack')
               /\ \/ (\E f : Walking(f)) \/ (\E n, f : Running(n, f)) \/ (\E k, f : Connecting(k, f))
                  \/ (\E n, s, f : Switching(n, s, f)) \/ (Returning /\ TopIs("update", "dependents"))
            \/ (\E f : Closing(f)) \/ (\E f : Resetting(f)) \/ (\E f : Taking(f))
            \/ (\E k, f : Posting(k, f))
            \/ Returning /\ TopIs("eot", "post") /\ Top.list = <<>>
<1>1. EndUpdate => Returning /\ TopIs("update", "dependents")
  BY ReturnStep DEF EndUpdate, TopIs
<1>2. EndEot => Returning /\ TopIs("eot", "post") /\ Top.list = <<>>
  BY ReturnStep DEF EndEot
<1> QED BY <1>1, <1>2, EngineSteps, SwitchStep, CloseStep, PrePostStep, PostStepRuns

(* No node is being updated by two calls.                                  *)
Single(s) ==
  \A i, j \in 1 .. Len(s) :
    s[i].op = "update" /\ s[j].op = "update" /\ s[i].node = s[j].node => i = j

(* A call is one of a visited node; before the closure of a once runs, the *)
(* call has read the dependencies that the once has now.                   *)
CallOK(f) ==
  f.op = "update" =>
    /\ f.node \in 1 .. built /\ visited[f.node]
    /\ f.pc = "dependencies" /\ net.kind[f.node] = "once" => f.reads = dependencies[f.node]

(* This of all the calls.                                                  *)
CallsInv == Single(stack) /\ \A f \in Frames(stack) : CallOK(f)

(* A call more, of a node that has none,                                   *)
LEMMA SinglePush ==
  ASSUME NEW s, s \in Seq(Frames(s)), Single(s), NEW f,
         f.op = "update" => \A g \in Frames(s) : g.op = "update" => g.node # f.node
  PROVE  Single(Append(s, f))
<1> DEFINE t == Append(s, f)
           l == Len(s)
<1>1. /\ l \in Nat /\ Len(t) = l + 1 /\ t[l + 1] = f /\ \A i \in 1 .. l : t[i] = s[i]
  BY PushSeq
<1>2. \A i \in 1 .. l : s[i] \in Frames(s)
  BY DEF Frames
<1>3. \A i, j \in 1 .. l : s[i].op = "update" /\ s[j].op = "update" /\ s[i].node = s[j].node => i = j
  BY DEF Single
<1> HIDE DEF t, l
<1>4. \A i \in 1 .. Len(t) : i = l + 1 \/ i \in 1 .. l
  BY <1>1
<1>5. ASSUME NEW i \in 1 .. Len(t), NEW j \in 1 .. Len(t),
             t[i].op = "update", t[j].op = "update", t[i].node = t[j].node
      PROVE  i = j
  <2>1. CASE i \in 1 .. l /\ j \in 1 .. l
    BY <1>1, <1>3, <1>5, <2>1
  <2>2. CASE i = l + 1 /\ j \in 1 .. l
    BY <1>1, <1>2, <1>5, <2>2
  <2>3. CASE i \in 1 .. l /\ j = l + 1
    BY <1>1, <1>2, <1>5, <2>3
  <2> QED BY <1>4, <2>1, <2>2, <2>3
<1> QED BY <1>5 DEF Single, t

(* and a call less.                                                        *)
LEMMA SinglePop ==
  ASSUME NEW s, s \in Seq(Frames(s)), s # <<>>, Single(s)
  PROVE  /\ Single(Lower(s))
         /\ s[Len(s)].op = "update" =>
              \A g \in Frames(Lower(s)) : g.op = "update" => g.node # s[Len(s)].node
<1> DEFINE t == Lower(s)
           l == Len(s)
<1>1. l \in Nat \ {0} /\ Len(t) = l - 1 /\ \A i \in 1 .. l - 1 : t[i] = s[i]
  BY PopSeq
<1>2. \A i, j \in 1 .. l : s[i].op = "update" /\ s[j].op = "update" /\ s[i].node = s[j].node => i = j
  BY DEF Single
<1> HIDE DEF t, l
<1>3. l \in 1 .. l /\ \A i \in 1 .. Len(t) : i \in 1 .. l /\ i # l /\ t[i] = s[i]
  BY <1>1
<1>4. Single(t)
  BY <1>2, <1>3 DEF Single
<1>5. s[l].op = "update" => \A g \in Frames(t) : g.op = "update" => g.node # s[l].node
  BY <1>2, <1>3 DEF Frames
<1> QED BY <1>4, <1>5 DEF t, l

(* The call on top goes on, perhaps with a call of update_node.            *)
LEMMA SingleTop ==
  ASSUME StackInv, CallsInv, stack # <<>>
  PROVE  /\ Single(Below)
         /\ \A f : Kept(f) => Single(SetTop(f))
         /\ \A f, g : Kept(f) /\ (g.op = "update" => ~visited[g.node]) => Single(Append(SetTop(f), g))
<1>1. stack \in Seq(Frames(stack)) /\ Single(stack)
  BY DEF StackInv, Shape, CallsInv
<1>2. Below = Lower(stack) /\ Top = stack[Len(stack)]
  BY DEF Below, Lower, Top
<1>3. /\ Single(Below) /\ Below \in Seq(Frames(Below))
      /\ Top.op = "update" => \A g \in Frames(Below) : g.op = "update" => g.node # Top.node
  BY <1>1, <1>2, SinglePop, PopSeq
<1> HIDE DEF Below, Top, Lower
<1>4. ASSUME NEW f, Kept(f) PROVE Single(SetTop(f))
  <2>1. f.op = "update" => \A g \in Frames(Below) : g.op = "update" => g.node # f.node
    BY <1>3, <1>4 DEF Kept
  <2>2. Single(Append(Below, f))
    BY <1>3, <2>1, SinglePush
  <2> QED BY <2>2 DEF SetTop
<1>5. ASSUME NEW f, NEW g, Kept(f), g.op = "update" => ~visited[g.node]
      PROVE  Single(Append(SetTop(f), g))
  <2>1. Frames(stack) = Frames(Below) \cup {Top} /\ Frames(SetTop(f)) = Frames(Below) \cup {f}
        /\ SetTop(f) \in Seq(Frames(SetTop(f)))
    BY TopFrames DEF StackInv
  <2>2. \A h \in Frames(stack) : h.op = "update" => visited[h.node]
    BY DEF CallsInv, CallOK
  <2>3. \A h \in Frames(SetTop(f)) : h.op = "update" => visited[h.node]
    BY <1>5, <2>1, <2>2 DEF Kept
  <2>4. g.op = "update" => \A h \in Frames(SetTop(f)) : h.op = "update" => h.node # g.node
    BY <1>5, <2>3
  <2> DEFINE r == SetTop(f)
  <2>5. /\ Single(r) /\ r \in Seq(Frames(r))
        /\ g.op = "update" => \A h \in Frames(r) : h.op = "update" => h.node # g.node
    BY <1>4, <1>5, <2>1, <2>4
  <2> HIDE DEF r
  <2>6. Single(Append(r, g))
    BY <2>5, SinglePush
  <2> QED BY <2>6 DEF r
<1> QED BY <1>3, <1>4, <1>5

(* Switches are no onces.                                                  *)
LEMMA OncesKept ==
  ASSUME TypeInv, NEW n, NEW s, Rewire(n, s) \/ Connect(n), net.kind[n] \in {"switch", "switchC"}
  PROVE  \A o \in Onces(net) : dependencies'[o] = dependencies[o]
<1> SUFFICES ASSUME NEW o \in Onces(net) PROVE dependencies'[o] = dependencies[o]
  OBVIOUS
<1>1. o \in Nodes(net) /\ o # n
  BY DEF Onces, OfKind
<1>2. DOMAIN dependencies = Nodes(net)
  BY DEF TypeInv, EdgesTyped
<1>3. \E d : dependencies' = [dependencies EXCEPT ![n] = d]
  BY DEF Rewire, Connect
<1> QED BY <1>1, <1>2, <1>3

(* Without a call of update_node there is nothing to say.                  *)
LEMMA NoCalls ==
  ASSUME \A f \in Frames(stack') : f.op # "update"
  PROVE  CallsInv'
<1> DEFINE s == stack'
<1>1. \A i \in 1 .. Len(s) : s[i].op # "update"
  BY DEF Frames
<1>2. Single(s)
  BY <1>1 DEF Single
<1> QED BY <1>2 DEF CallsInv, CallOK

(* A step of the call on top, while the transaction is propagated.         *)
LEMMA CallsGo ==
  ASSUME StackInv, CallsInv, TypeInv, stack # <<>>, UNCHANGED <<net, built>>, NEW f, Kept(f),
         f.pc = "dependencies" => Top.pc = "dependencies",
         Goes(f) \/ (stack' = SetTop(f) /\ visited' = visited),
         \A o \in Onces(net) : dependencies'[o] = dependencies[o],
         1 .. built \subseteq Nodes(net)
  PROVE  CallsInv'
<1>1. \A g \in Frames(stack) : CallOK(g)
  BY DEF CallsInv
<1>2. Frames(stack) = Frames(Below) \cup {Top} /\ Frames(SetTop(f)) = Frames(Below) \cup {f}
  BY TopFrames DEF StackInv
<1>3. visited \in [Nodes(net) -> BOOLEAN]
  BY DEF TypeInv
<1>4. \A g \in Frames(SetTop(f)) : CallOK(g)
  <2>1. \A g \in Frames(Below) : CallOK(g)
    BY <1>1, <1>2
  <2>2. CallOK(f)
    BY <1>1, <1>2 DEF CallOK, Kept
  <2> QED BY <1>2, <2>1, <2>2
<1>5. ASSUME NEW g, CallOK(g), \A n \in 1 .. built : visited[n] => visited'[n]
      PROVE  CallOK(g)'
  <2>1. g.op = "update" /\ net.kind[g.node] = "once" => g.node \in Onces(net)
    BY <1>5 DEF CallOK, Onces, OfKind
  <2> QED BY <1>5, <2>1 DEF CallOK
<1>6. CASE stack' = SetTop(f) /\ visited' = visited
  <2>1. Single(stack')
    BY <1>6, SingleTop
  <2>2. \A g \in Frames(stack') : CallOK(g)'
    BY <1>4, <1>5, <1>6
  <2> QED BY <2>1, <2>2 DEF CallsInv
<1>7. ASSUME NEW n \in 1 .. built, ~visited[n], visited' = [visited EXCEPT ![n] = TRUE],
             stack' = Append(SetTop(f), Update("dependencies", n, dependencies[n], dependencies[n]))
      PROVE  CallsInv'
  <2>0. PICK g : g = Update("dependencies", n, dependencies[n], dependencies[n])
    OBVIOUS
  <2>1. g.op = "update" /\ g.node = n /\ g.reads = dependencies[n] /\ g.pc = "dependencies"
    BY <2>0 DEF Update
  <2>2. stack' = Append(SetTop(f), g)
    BY <1>7, <2>0
  <2>3. Single(stack')
    BY <1>7, <2>1, <2>2, SingleTop
  <2>4. Frames(stack') = Frames(SetTop(f)) \cup {g}
    BY <1>2, <2>2, TopFrames DEF StackInv
  <2>5. \A m \in 1 .. built : visited[m] => visited'[m]
    BY <1>3, <1>7
  <2>6. CallOK(g)'
    <3>1. visited'[n]
      BY <1>3, <1>7
    <3>2. net.kind[n] = "once" => dependencies'[n] = dependencies[n]
      BY <1>7 DEF Onces, OfKind
    <3> QED BY <1>7, <2>1, <3>1, <3>2 DEF CallOK
  <2>7. \A h \in Frames(stack') : CallOK(h)'
    BY <1>4, <1>5, <2>4, <2>5, <2>6
  <2> QED BY <2>3, <2>7 DEF CallsInv
<1> QED BY <1>6, <1>7 DEF Goes

(* ... and so it remains, whatever is done.                                *)
LEMMA CallsKeep ==
  ASSUME StackInv, StackInv', CleanInv, TypeInv, CallsInv, [Next]_vars
  PROVE  CallsInv'
<1>0. 1 .. built \subseteq Nodes(net)
  BY TypedNet
<1>1. CASE UNCHANGED context
  BY <1>1 DEF context, edges, flags, CallsInv, CallOK
<1>2. CASE stack = <<>> /\ (Idling \/ Leaving \/ Build)
  <2>1. stack' = <<>> \/ stack' = Append(<<>>, Eot("pre_eot", preEot, NoCause))
    BY <1>2 DEF Idling, Leaving, Build
  <2>2. CASE stack' = <<>>
    BY <2>2, NoCalls DEF Frames
  <2>3. CASE stack' = Append(<<>>, Eot("pre_eot", preEot, NoCause))
    <3> DEFINE f == Eot("pre_eot", preEot, NoCause)
    <3>1. f.op = "eot"
      BY DEF Eot
    <3>2. Len(stack') = 1 /\ stack'[1] = f
      BY <2>3
    <3> HIDE DEF f
    <3> QED BY <3>1, <3>2, NoCalls DEF Frames
  <2> QED BY <2>1, <2>2, <2>3
<1>3. ASSUME stack # <<>>, UNCHANGED <<net, built>>,
             \/ (\E f : Walking(f)) \/ (\E n, f : Running(n, f)) \/ (\E k, f : Connecting(k, f))
             \/ (\E n, s, f : Switching(n, s, f))
      PROVE  CallsInv'
  <2>1. ASSUME NEW f, Walking(f) PROVE CallsInv'
    <3>1. dependencies' = dependencies /\ Kept(f) /\ Goes(f)
          /\ (f.pc = "dependencies" => Top.pc = "dependencies")
      BY <2>1 DEF Walking, edges
    <3> QED BY <1>0, <1>3, <3>1, CallsGo
  <2>2. ASSUME NEW n, NEW f, Running(n, f) PROVE CallsInv'
    <3>1. f.pc # "dependencies"
      BY <2>2 DEF Running
    <3>2. dependencies' = dependencies /\ Kept(f) /\ stack' = SetTop(f) /\ visited' = visited
      BY <2>2 DEF Running, edges
    <3> QED BY <1>0, <1>3, <3>1, <3>2, CallsGo
  <2>3. ASSUME NEW k, NEW f, Connecting(k, f) PROVE CallsInv'
    <3>1. net.kind[k.node] \in {"switch", "switchC"} /\ Connect(k.node) /\ f.pc # "dependencies"
      BY <2>3 DEF Connecting, FirstStep
    <3>2. \A o \in Onces(net) : dependencies'[o] = dependencies[o]
      BY <3>1, OncesKept
    <3> QED BY <1>0, <1>3, <2>3, <3>1, <3>2, CallsGo DEF Connecting
  <2>4. ASSUME NEW n, NEW s, NEW f, Switching(n, s, f) PROVE CallsInv'
    <3>1. net.kind[n] \in {"switch", "switchC"} /\ Rewire(n, s) /\ f.pc # "dependencies"
      BY <2>4 DEF Switching
    <3>2. \A o \in Onces(net) : dependencies'[o] = dependencies[o]
      BY <3>1, OncesKept
    <3> QED BY <1>0, <1>3, <2>4, <3>1, <3>2, CallsGo DEF Switching
  <2> QED BY <1>3, <2>1, <2>2, <2>3, <2>4
<1>4. CASE stack # <<>> /\ Returning /\ UNCHANGED <<net, built>>
  <2>1. stack' = Below /\ UNCHANGED <<edges, visited>>
    BY <1>4 DEF Returning
  <2>2. Single(stack')
    BY <1>4, <2>1, SingleTop
  <2>3. \A f \in Frames(Below) : f \in Frames(stack)
    BY <1>4, TopFrames DEF StackInv
  <2> QED BY <1>4, <2>1, <2>2, <2>3 DEF CallsInv, CallOK, edges
<1>5. ASSUME stack # <<>>, Top.op = "eot",
             \/ (\E f : Closing(f)) \/ (\E f : Resetting(f)) \/ (\E f : Taking(f))
             \/ (\E k, f : Posting(k, f))
      PROVE  CallsInv'
  <2>1. \A f \in Frames(Below) : f.op # "update"
    BY <1>5, BelowEot DEF StackInv, Propagates
  <2>2. PICK f, k : /\ Kept(f)
                    /\ \/ stack' = SetTop(f)
                       \/ stack' = Append(SetTop(f), Eot("pre_eot", preEot, k))
    BY <1>5 DEF Closing, Resetting, Taking, Posting
  <2>3. f.op # "update"
    BY <1>5, <2>2 DEF Kept
  <2>0. PICK g : g = Eot("pre_eot", preEot, k)
    OBVIOUS
  <2>4. g.op # "update"
    BY <2>0 DEF Eot
  <2>5. Frames(stack') \subseteq Frames(Below) \cup {f, g}
    <3>1. /\ Frames(SetTop(f)) = Frames(Below) \cup {f}
          /\ Frames(Append(SetTop(f), g)) = Frames(Below) \cup {f, g}
      BY <1>5, TopFrames DEF StackInv
    <3>2. stack' = SetTop(f) \/ stack' = Append(SetTop(f), g)
      BY <2>0, <2>2
    <3> QED BY <3>1, <3>2
  <2> QED BY <2>1, <2>3, <2>4, <2>5, NoCalls
<1>6. CASE Engine
  BY <1>3, <1>4, <1>5, <1>6, AllSteps DEF Closing, Resetting, Taking, Posting, TopIs
<1>7. CASE Program
  BY <1>2, <1>7, ProgramSteps DEF Idling, Leaving, Build
<1> QED BY <1>1, <1>6, <1>7, StepOf

(* update_node is in progress once for a node, which is marked visited     *)
(* meanwhile, and a once reads what it still depends on.                   *)
THEOREM CallsSingle == Spec => []CallsInv
<1>1. Init => CallsInv
  <2> SUFFICES ASSUME Init PROVE CallsInv
    OBVIOUS
  <2>1. stack = <<>>
    BY DEF Init
  <2> QED BY <2>1 DEF CallsInv, Single, Frames
<1>2. StackInv /\ StackInv' /\ CleanInv /\ TypeInv /\ CallsInv /\ [Next]_vars => CallsInv'
  BY CallsKeep
<1> QED BY <1>1, <1>2, StackShape, FlagsOwed, NodesMade, PTL DEF Spec

(* What the calls F that are at pc still have in their lists.              *)
Left(F, pc) == UNION {Entries(f.list) : f \in {g \in F : g.pc = pc}}

(* ... for some calls and some more, for one, for two, and for none.       *)
LEMMA LeftUnion ==
  ASSUME NEW pc
  PROVE  /\ \A F, G : Left(F \cup G, pc) = Left(F, pc) \cup Left(G, pc)
         /\ \A f : Left({f}, pc) = (IF f.pc = pc THEN Entries(f.list) ELSE {})
         /\ \A f, g : Left({f, g}, pc) = Left({f}, pc) \cup Left({g}, pc)
         /\ Left({}, pc) = {}
<1>1. \A F, G : Left(F \cup G, pc) = Left(F, pc) \cup Left(G, pc)
  BY DEF Left
<1>2. \A f : Left({f}, pc) = (IF f.pc = pc THEN Entries(f.list) ELSE {})
  BY DEF Left
<1>3. \A f, g : Left({f, g}, pc) = Left({f}, pc) \cup Left({g}, pc)
  BY DEF Left
<1>4. Left({}, pc) = {}
  BY DEF Left
<1> QED BY <1>1, <1>2, <1>3, <1>4

(* The lists left on the stack, when the call on top of it goes on.        *)
LEMMA LeftTop ==
  ASSUME StackInv, stack # <<>>, NEW pc
  PROVE  LET at(f) == IF f.pc = pc THEN Entries(f.list) ELSE {}
             below == Left(Frames(Below), pc)
         IN /\ Left(Frames(stack), pc) = below \cup at(Top)
            /\ \A f : Left(Frames(SetTop(f)), pc) = below \cup at(f)
            /\ \A f, g : Left(Frames(Append(SetTop(f), g)), pc) = below \cup at(f) \cup at(g)
            /\ Top.op = "eot" /\ pc = "pre_eot" => below = {}
<1> DEFINE at(f) == IF f.pc = pc THEN Entries(f.list) ELSE {}
           below == Left(Frames(Below), pc)
<1>1. /\ Frames(stack) = Frames(Below) \cup {Top}
      /\ \A f : Frames(SetTop(f)) = Frames(Below) \cup {f}
      /\ \A f, g : Frames(Append(SetTop(f), g)) = Frames(Below) \cup {f, g}
  BY TopFrames DEF StackInv
<1>2. /\ \A G : Left(Frames(Below) \cup G, pc) = below \cup Left(G, pc)
      /\ \A f : Left({f}, pc) = at(f)
      /\ \A f, g : Left({f, g}, pc) = at(f) \cup at(g)
  <2>1. \A G : Left(Frames(Below) \cup G, pc) = Left(Frames(Below), pc) \cup Left(G, pc)
    BY LeftUnion
  <2>2. \A f : Left({f}, pc) = at(f)
    BY LeftUnion
  <2>3. \A f, g : Left({f, g}, pc) = Left({f}, pc) \cup Left({g}, pc)
    BY LeftUnion
  <2> HIDE DEF at
  <2>4. \A f, g : Left({f, g}, pc) = at(f) \cup at(g)
    BY <2>2, <2>3
  <2> QED BY <2>1, <2>2, <2>4
<1> HIDE DEF at
<1>3. ASSUME Top.op = "eot", pc = "pre_eot"
      PROVE  below = {}
  <2>1. \A f \in Frames(Below) : f.pc # "pre_eot"
    BY <1>3, BelowEot DEF StackInv, Propagates
  <2>2. {g \in Frames(Below) : g.pc = pc} = {}
    BY <1>3, <2>1
  <2> QED BY <2>2 DEF Left
<1> HIDE DEF below
<1>4. Left(Frames(stack), pc) = below \cup at(Top)
  <2>1. Left(Frames(Below) \cup {Top}, pc) = below \cup Left({Top}, pc)
    BY <1>2
  <2> QED BY <1>1, <1>2, <2>1
<1>5. ASSUME NEW f PROVE Left(Frames(SetTop(f)), pc) = below \cup at(f)
  <2>1. Left(Frames(Below) \cup {f}, pc) = below \cup Left({f}, pc)
    BY <1>2
  <2> QED BY <1>1, <1>2, <2>1
<1>6. ASSUME NEW f, NEW g
      PROVE  Left(Frames(Append(SetTop(f), g)), pc) = below \cup at(f) \cup at(g)
  <2>1. Left(Frames(Below) \cup {f, g}, pc) = below \cup Left({f, g}, pc)
    BY <1>2
  <2>2. /\ Frames(Append(SetTop(f), g)) = Frames(Below) \cup {f, g}
        /\ Left({f, g}, pc) = at(f) \cup at(g)
    BY <1>1, <1>2
  <2> QED BY <2>1, <2>2
<1> QED BY <1>3, <1>4, <1>5, <1>6 DEF at, below

-----------------------------------------------------------------------------
(* The nodes that are connected by the program, not by their maker.        *)
IsSwitch(nt, n) == nt.kind[n] \in {"switch", "switchC"}

(* The first steps still to be taken.                                      *)
FirstLeft == Entries(preEot) \cup Left(Frames(stack), "pre_eot")

(* A once that still has its first update to come is connected; a switch   *)
(* follows what it may, or has yet to be connected.                        *)
FirstInv ==
  /\ \A k \in FirstLeft : k.op = "update" =>
       k.node \in 1 .. built /\ (net.kind[k.node] = "once" => dependencies[k.node] # <<>>)
  /\ \A n \in 1 .. built : IsSwitch(net, n) =>
       inner[n] \in Followable(net, n) \/ \E k \in FirstLeft : k.op = "connect" /\ k.node = n

(* A step that makes no nodes.                                             *)
LEMMA FirstGo ==
  ASSUME FirstInv, UNCHANGED <<net, built>>, 1 .. built \subseteq Nodes(net),
         \A o \in Onces(net) : dependencies'[o] = dependencies[o],
         FirstLeft' \subseteq FirstLeft,
         \A n \in 1 .. built : inner'[n] = inner[n] \/ inner'[n] \in Followable(net, n),
         \A k \in FirstLeft : \/ k.op # "connect" \/ k \in FirstLeft'
                              \/ inner'[k.node] \in Followable(net, k.node)
  PROVE  FirstInv'
<1>1. ASSUME NEW k \in FirstLeft', k.op = "update"
      PROVE  k.node \in 1 .. built /\ (net.kind[k.node] = "once" => dependencies'[k.node] # <<>>)
  BY <1>1 DEF FirstInv, Onces, OfKind
<1>2. ASSUME NEW n \in 1 .. built, IsSwitch(net, n)
      PROVE  inner'[n] \in Followable(net, n) \/ \E k \in FirstLeft' : k.op = "connect" /\ k.node = n
  BY <1>2 DEF FirstInv
<1>3. net' = net /\ built' = built
  OBVIOUS
<1> HIDE DEF FirstLeft
<1> QED BY <1>1, <1>2, <1>3 DEF FirstInv, IsSwitch

(* ... and takes no first step either.                                     *)
LEMMA RewireFirst ==
  ASSUME TypeInv, NEW n, n \in Nodes(net), NEW s, s \in Followable(net, n), Rewire(n, s),
         IsSwitch(net, n)
  PROVE  /\ \A o \in Onces(net) : dependencies'[o] = dependencies[o]
         /\ \A m \in Nodes(net) : inner'[m] = inner[m] \/ inner'[m] \in Followable(net, m)
<1>1. DOMAIN inner = Nodes(net)
  BY DEF TypeInv, EdgesTyped
<1>2. inner' = [inner EXCEPT ![n] = s]
  BY DEF Rewire
<1>3. \A m \in Nodes(net) : inner'[m] = inner[m] \/ inner'[m] \in Followable(net, m)
  BY <1>1, <1>2
<1> QED BY <1>3, OncesKept DEF IsSwitch

(* The first steps left, when the call on top goes on.                     *)
LEMMA FirstLeftGo ==
  ASSUME StackInv, stack # <<>>, preEot' = preEot, NEW f,
         Goes(f) \/ stack' = SetTop(f)
  PROVE  LET at(g) == IF g.pc = "pre_eot" THEN Entries(g.list) ELSE {}
             rest == Entries(preEot) \cup Left(Frames(Below), "pre_eot")
         IN FirstLeft = rest \cup at(Top) /\ FirstLeft' = rest \cup at(f)
<1> DEFINE at(g) == IF g.pc = "pre_eot" THEN Entries(g.list) ELSE {}
           below == Left(Frames(Below), "pre_eot")
<1>1. /\ Left(Frames(stack), "pre_eot") = below \cup at(Top)
      /\ Left(Frames(SetTop(f)), "pre_eot") = below \cup at(f)
      /\ \A g : Left(Frames(Append(SetTop(f), g)), "pre_eot") = below \cup at(f) \cup at(g)
  BY LeftTop
<1>2. \A n, r, l : at(Update("dependencies", n, r, l)) = {}
  BY DEF Update
<1> HIDE DEF at, below
<1>3. stack' = SetTop(f) \/ \E n, r, l : stack' = Append(SetTop(f), Update("dependencies", n, r, l))
  BY DEF Goes
<1>4. Left(Frames(stack'), "pre_eot") = below \cup at(f)
  BY <1>1, <1>2, <1>3
<1>5. FirstLeft = Entries(preEot) \cup below \cup at(Top)
  BY <1>1 DEF FirstLeft
<1>6. FirstLeft' = Entries(preEot) \cup below \cup at(f)
  BY <1>4 DEF FirstLeft
<1>7. /\ FirstLeft = (Entries(preEot) \cup below) \cup at(Top)
      /\ FirstLeft' = (Entries(preEot) \cup below) \cup at(f)
  BY <1>5, <1>6
<1> QED BY <1>7 DEF at, below

(* The steps of a propagation.                                             *)
LEMMA ActiveFirst ==
  ASSUME StackInv, CleanInv, TypeInv, FirstInv, stack # <<>>, UNCHANGED <<net, built>>,
         \/ (\E f : Walking(f)) \/ (\E n, f : Running(n, f)) \/ (\E k, f : Connecting(k, f))
         \/ (\E n, s, f : Switching(n, s, f)) \/ (Returning /\ TopIs("update", "dependents"))
  PROVE  FirstInv' /\ FirstLeft' \subseteq FirstLeft
<1> DEFINE at(g) == IF g.pc = "pre_eot" THEN Entries(g.list) ELSE {}
           rest == Entries(preEot) \cup Left(Frames(Below), "pre_eot")
<1>0. 1 .. built \subseteq Nodes(net)
  BY TypedNet
<1>1. ASSUME NEW f, Walking(f) PROVE FirstInv' /\ FirstLeft' \subseteq FirstLeft
  <2>1. FirstLeft = rest \cup at(Top) /\ FirstLeft' = rest \cup at(f)
    BY <1>1, FirstLeftGo DEF Walking
  <2>2. dependencies' = dependencies /\ inner' = inner
    BY <1>1 DEF Walking, edges
  <2>3. at(f) \subseteq at(Top) /\ \A k \in at(Top) : k.op = "mark" \/ k \in at(f)
    <3>1. CASE f.pc = "pre_eot"
      BY <1>1, <3>1 DEF Walking
    <3>2. CASE f.pc # "pre_eot"
      BY <1>1, <3>2, ListEmpty DEF Walking
    <3> QED BY <3>1, <3>2
  <2> HIDE DEF at, rest
  <2>4. FirstLeft' \subseteq FirstLeft /\ \A k \in FirstLeft : k.op # "connect" \/ k \in FirstLeft'
    BY <2>1, <2>3
  <2> QED BY <1>0, <2>2, <2>4, FirstGo
<1>2. ASSUME NEW n, NEW f, Running(n, f) PROVE FirstInv' /\ FirstLeft' \subseteq FirstLeft
  <2>1. FirstLeft = rest \cup at(Top) /\ FirstLeft' = rest \cup at(f)
    BY <1>2, FirstLeftGo DEF Running
  <2>2. dependencies' = dependencies /\ inner' = inner
    BY <1>2 DEF Running, edges
  <2>3. at(f) \subseteq at(Top) /\ \A k \in at(Top) : k.op = "update" \/ k \in at(f)
    BY <1>2 DEF Running
  <2> HIDE DEF at, rest
  <2>4. FirstLeft' \subseteq FirstLeft /\ \A k \in FirstLeft : k.op # "connect" \/ k \in FirstLeft'
    BY <2>1, <2>3
  <2> QED BY <1>0, <2>2, <2>4, FirstGo
<1>3. ASSUME NEW k, NEW f, Connecting(k, f) PROVE FirstInv' /\ FirstLeft' \subseteq FirstLeft
  <2>1. FirstLeft = rest \cup at(Top) /\ FirstLeft' = rest \cup at(f)
    BY <1>3, FirstLeftGo DEF Connecting
  <2>2. /\ k.node \in 1 .. built /\ net.kind[k.node] \in {"switch", "switchC"} /\ Connect(k.node)
        /\ at(Top) = at(f) \cup {k}
    BY <1>3 DEF Connecting, FirstStep
  <2>3. \A o \in Onces(net) : dependencies'[o] = dependencies[o]
    BY <2>2, OncesKept
  <2>4. inner' = [inner EXCEPT ![k.node] = Followed(net, k.node, value[net.to[k.node]])]
    BY <2>2 DEF Connect
  <2>5. k.node - 1 <= built /\ k.node \in Nodes(net)
    BY <1>0, <2>2, TypedNet
  <2>6. Followed(net, k.node, value[net.to[k.node]]) \in Followable(net, k.node)
    BY <2>2, <2>5, TypedNet, FollowedMade
  <2>7. DOMAIN inner = Nodes(net)
    BY DEF TypeInv, EdgesTyped
  <2>8. /\ \A m \in 1 .. built : inner'[m] = inner[m] \/ inner'[m] \in Followable(net, m)
        /\ inner'[k.node] \in Followable(net, k.node)
    BY <1>0, <2>2, <2>4, <2>6, <2>7
  <2> HIDE DEF at, rest
  <2>9. FirstLeft' \subseteq FirstLeft /\ \A j \in FirstLeft : j = k \/ j \in FirstLeft'
    BY <2>1, <2>2
  <2> QED BY <1>0, <2>3, <2>8, <2>9, FirstGo
<1>4. ASSUME NEW n, NEW s, NEW f,
             Switching(n, s, f) PROVE FirstInv' /\ FirstLeft' \subseteq FirstLeft
  <2>1. FirstLeft = rest \cup at(Top) /\ FirstLeft' = rest \cup at(f)
    BY <1>4, FirstLeftGo DEF Switching
  <2>2. at(Top) = {} /\ at(f) = {}
    BY <1>4 DEF Switching
  <2>3. n \in Nodes(net) /\ s \in Followable(net, n) /\ Rewire(n, s) /\ IsSwitch(net, n)
    BY <1>0, <1>4 DEF Switching, IsSwitch
  <2>4. /\ \A o \in Onces(net) : dependencies'[o] = dependencies[o]
        /\ \A m \in 1 .. built : inner'[m] = inner[m] \/ inner'[m] \in Followable(net, m)
    BY <1>0, <2>3, RewireFirst
  <2> QED BY <1>0, <2>1, <2>2, <2>4, FirstGo
<1>5. ASSUME Returning, TopIs("update", "dependents")
      PROVE  FirstInv' /\ FirstLeft' \subseteq FirstLeft
  <2>1. dependencies' = dependencies /\ inner' = inner /\ stack' = Below /\ preEot' = preEot
    BY <1>5 DEF Returning, edges
  <2>2. Left(Frames(stack), "pre_eot") = Left(Frames(Below), "pre_eot") \cup at(Top)
    BY LeftTop
  <2>3. at(Top) = {}
    BY <1>5 DEF TopIs
  <2>4. FirstLeft' = FirstLeft
    BY <2>1, <2>2, <2>3 DEF FirstLeft
  <2> QED BY <1>0, <2>1, <2>4, FirstGo
<1> QED BY <1>1, <1>2, <1>3, <1>4, <1>5

(* A sequence of one is not empty.                                         *)
LEMMA SomeLen ==
  ASSUME NEW s, Len(s) = 1
  PROVE  s # <<>>
<1>1. Len(<<>>) = 0
  OBVIOUS
<1> QED BY <1>1

(* New nodes come with their first steps, and connected if they are onces. *)
LEMMA BuildFirst ==
  ASSUME CleanInv, TypeInv, FirstInv, Build
  PROVE  FirstInv'
<1> DEFINE a == built + 1
           b == LastOf(net, a)
           more == Lists!FlattenSeq([i \in DOMAIN Span(a, b) |-> FirstSteps(a + i - 1)])
<1>1. /\ built \in Nat /\ a \in Nat \ {0} /\ b \in Nat /\ a <= b /\ b \in net.start .. Len(net.kind)
      /\ 1 .. built \subseteq Nodes(net) /\ NetworkOK(net) /\ 1 .. b \subseteq Nodes(net)
  <2>1. /\ built \in Nat /\ b \in Nat /\ a <= b /\ b \in net.start .. Len(net.kind)
        /\ 1 .. built \subseteq Nodes(net) /\ NetworkOK(net) /\ Nodes(net) = 1 .. Len(net.kind)
        /\ Len(net.kind) \in Nat
    BY BuildGrows, TypedNet, NetworkNodes DEF CleanInv
  <2> HIDE DEF b
  <2> QED BY <2>1
<1>2. /\ stack = <<>> /\ stack' = <<>> /\ net' = net /\ built' = b /\ preEot' = preEot \o more
      /\ dependencies' = [m \in Nodes(net) |-> IF m \in a .. b THEN net.in[m] ELSE dependencies[m]]
      /\ inner' = inner
  BY DEF Build, program, outcome
<1>3. /\ FirstList(net, b, more) /\ \A k \in Entries(more) : k.node \in a .. b
      /\ \A n \in a .. b : net.kind[n] \in {"switch", "switchC"} =>
           [op |-> "connect", node |-> n] \in Entries(more)
  <2> HIDE DEF a, b
  <2> QED BY <1>1, FirstStepsMade
<1> HIDE DEF b, more
<1>4. Entries(preEot') = Entries(preEot) \cup Entries(more)
  BY <1>2, <1>3, ListConcat DEF TypeInv, FirstList
<1>5. Frames(<<>>) = {}
  BY DEF Frames
<1>6. FirstLeft = Entries(preEot) /\ FirstLeft' = FirstLeft \cup Entries(more)
  BY <1>2, <1>4, <1>5, LeftUnion DEF FirstLeft
<1>7. \A m \in 1 .. built : m \notin a .. b /\ m \in 1 .. b
  BY <1>1
<1>8. ASSUME NEW k \in FirstLeft', k.op = "update"
      PROVE  k.node \in 1 .. b /\ (net.kind[k.node] = "once" => dependencies'[k.node] # <<>>)
  <2>1. CASE k \in FirstLeft
    <3>1. k.node \in 1 .. built /\ (net.kind[k.node] = "once" => dependencies[k.node] # <<>>)
      BY <1>8, <2>1 DEF FirstInv
    <3> QED BY <1>1, <1>2, <1>7, <3>1
  <2>2. CASE k \in Entries(more)
    <3>1. k.node \in a .. b
      BY <1>3, <2>2
    <3>2. k.node \in 1 .. b /\ k.node \in Nodes(net)
      BY <1>1, <3>1
    <3>3. net.kind[k.node] = "once" => k.node \notin Sinks(net)
      BY DEF Sinks, OfKind
    <3>4. net.kind[k.node] = "once" => Len(net.in[k.node]) = 1
      BY <1>1, <3>2, <3>3, NetworkNodes
    <3>5. net.kind[k.node] = "once" => net.in[k.node] # <<>>
      BY <3>4, SomeLen
    <3> QED BY <1>2, <3>1, <3>2, <3>5
  <2> QED BY <1>6, <1>8, <2>1, <2>2
<1>9. ASSUME NEW n \in 1 .. b, IsSwitch(net, n)
      PROVE  inner'[n] \in Followable(net, n) \/ \E k \in FirstLeft' : k.op = "connect" /\ k.node = n
  <2>1. CASE n \in 1 .. built
    BY <1>2, <1>6, <1>9, <2>1 DEF FirstInv
  <2>2. CASE n \in a .. b
    <3>1. [op |-> "connect", node |-> n] \in Entries(more)
      BY <1>3, <1>9, <2>2 DEF IsSwitch
    <3> QED BY <1>6, <3>1
  <2>3. n \in 1 .. built \/ n \in a .. b
    BY <1>1
  <2> QED BY <2>1, <2>2, <2>3
<1> HIDE DEF FirstLeft
<1> QED BY <1>2, <1>8, <1>9 DEF FirstInv, IsSwitch

(* The program, outside of end_of_transaction.                             *)
LEMMA ProgramFirst ==
  ASSUME CleanInv, TypeInv, FirstInv, Idling \/ Leaving
  PROVE  FirstInv'
<1>0. 1 .. built \subseteq Nodes(net)
  BY TypedNet
<1>1. Frames(<<>>) = {} /\ Entries(<<>>) = {}
  BY ListEmpty DEF Frames
<1>2. UNCHANGED <<net, built, dependencies, inner>> /\ stack = <<>>
  BY DEF Idling, Leaving, edges
<1>3. FirstLeft = Entries(preEot)
  BY <1>1, <1>2, LeftUnion DEF FirstLeft
<1>4. FirstLeft' = FirstLeft
  <2>1. CASE Idling
    BY <1>1, <1>3, <2>1, LeftUnion DEF FirstLeft, Idling
  <2>2. CASE Leaving
    <3>1. PICK f : f = Eot("pre_eot", preEot, NoCause)
      OBVIOUS
    <3>2. f.pc = "pre_eot" /\ f.list = preEot
      BY <3>1 DEF Eot
    <3>3. stack' = Append(<<>>, f) /\ preEot' = <<>>
      BY <1>2, <2>2, <3>1 DEF Leaving
    <3>4. Len(stack') = 1 /\ stack'[1] = f
      BY <3>3
    <3>5. Frames(stack') = {f}
      BY <3>4 DEF Frames
    <3>6. Left(Frames(stack'), "pre_eot") = Entries(preEot)
      BY <3>2, <3>5, LeftUnion
    <3> QED BY <1>1, <1>3, <3>3, <3>6 DEF FirstLeft
  <2> QED BY <2>1, <2>2
<1> QED BY <1>0, <1>2, <1>4, FirstGo

(* Past its pre_eot no call of end_of_transaction has first steps left.    *)
LEMMA NoFirst ==
  ASSUME StackInv, stack # <<>>, Top.op = "eot", Top.pc # "pre_eot", preEot = <<>>
  PROVE  FirstLeft = {} /\ Left(Frames(Below), "pre_eot") = {}
<1>1. Entries(preEot) = {}
  BY ListEmpty
<1> QED BY <1>1, LeftTop DEF FirstLeft

(* The steps after the propagation.                                        *)
LEMMA EndFirst ==
  ASSUME StackInv, CleanInv, TypeInv, QueueInv, FirstInv, stack # <<>>, UNCHANGED <<net, built>>,
         \/ (\E f : Closing(f)) \/ (\E f : Resetting(f)) \/ (\E f : Taking(f))
         \/ (\E k, f : Posting(k, f))
         \/ Returning /\ TopIs("eot", "post") /\ Top.list = <<>>
  PROVE  FirstInv' /\ FirstLeft' = {}
<1>0. 1 .. built \subseteq Nodes(net)
  BY TypedNet
<1>1. Top.op = "eot" /\ Top.pc \in {"loop", "pre_post", "post"} /\ preEot = <<>>
  BY DEF Closing, Resetting, Taking, Posting, TopIs, QueueInv
<1>2. FirstLeft = {} /\ Left(Frames(Below), "pre_eot") = {} /\ Entries(<<>>) = {}
  BY <1>1, NoFirst, ListEmpty
<1>3. preEot' = <<>>
  BY <1>1 DEF Closing, Resetting, Taking, Posting, Returning
<1>4. FirstLeft' = {}
  <2>1. CASE stack' = Below
    BY <1>2, <1>3, <2>1 DEF FirstLeft
  <2>2. ASSUME NEW f, NEW k, f.pc # "pre_eot",
               \/ stack' = SetTop(f)
               \/ stack' = Append(SetTop(f), Eot("pre_eot", <<>>, k))
        PROVE  FirstLeft' = {}
    <3>1. PICK g : g = Eot("pre_eot", <<>>, k)
      OBVIOUS
    <3>2. Entries(g.list) = {}
      BY <1>2, <3>1 DEF Eot
    <3>3. stack' = SetTop(f) \/ stack' = Append(SetTop(f), g)
      BY <2>2, <3>1
    <3>4. Left(Frames(stack'), "pre_eot") = {}
      <4>1. /\ Left(Frames(SetTop(f)), "pre_eot") = {}
            /\ Left(Frames(Append(SetTop(f), g)), "pre_eot") =
                 IF g.pc = "pre_eot" THEN Entries(g.list) ELSE {}
        <5>1. /\ Left(Frames(SetTop(f)), "pre_eot") =
                   Left(Frames(Below), "pre_eot") \cup (IF f.pc = "pre_eot" THEN Entries(f.list) ELSE {})
              /\ Left(Frames(Append(SetTop(f), g)), "pre_eot") =
                   Left(Frames(Below), "pre_eot") \cup (IF f.pc = "pre_eot" THEN Entries(f.list) ELSE {})
                     \cup (IF g.pc = "pre_eot" THEN Entries(g.list) ELSE {})
          BY LeftTop
        <5>2. (IF f.pc = "pre_eot" THEN Entries(f.list) ELSE {}) = {}
          BY <2>2
        <5> QED BY <1>2, <5>1, <5>2
      <4> QED BY <3>2, <3>3, <4>1
    <3> QED BY <1>2, <1>3, <3>4 DEF FirstLeft
  <2>3. (\E f : Closing(f)) \/ (\E f : Resetting(f)) \/ (\E f : Taking(f)) => FirstLeft' = {}
    BY <2>2 DEF Closing, Resetting, Taking
  <2>4. (\E k, f : Posting(k, f)) => FirstLeft' = {}
    BY <1>1, <2>2 DEF Posting
  <2> QED BY <2>1, <2>3, <2>4 DEF Returning
<1>5. /\ \A o \in Onces(net) : o \in 1 .. built => TRUE
      /\ \A m \in Nodes(net) : inner'[m] = inner[m] \/ inner'[m] \in Followable(net, m)
  <2>1. CASE inner' = inner
    BY <2>1
  <2>2. ASSUME NEW n, NEW s, n \in 1 .. built, net.kind[n] = "switch", s \in Followable(net, n),
               Rewire(n, s)
        PROVE  \A m \in Nodes(net) : inner'[m] = inner[m] \/ inner'[m] \in Followable(net, m)
    BY <1>0, <2>2, RewireFirst DEF IsSwitch
  <2> QED BY <2>1, <2>2 DEF Closing, Resetting, Taking, Posting, Returning, edges, PostStep,
             Disconnect
<1>6. \A n \in 1 .. built : IsSwitch(net, n) => inner'[n] \in Followable(net, n)
  BY <1>0, <1>2, <1>5 DEF FirstInv
<1> HIDE DEF FirstLeft
<1> QED BY <1>4, <1>6 DEF FirstInv, IsSwitch

(* ... and so it remains, whatever is done.                                *)
LEMMA FirstKeeps ==
  ASSUME StackInv, StackInv', CleanInv, TypeInv, QueueInv, FirstInv, [Next]_vars
  PROVE  FirstInv'
<1>1. CASE UNCHANGED context
  <2>1. UNCHANGED <<net, built, dependencies, inner, preEot, stack>>
    BY <1>1 DEF context, edges, queues
  <2>2. FirstLeft' = FirstLeft /\ 1 .. built \subseteq Nodes(net)
    BY <2>1, TypedNet DEF FirstLeft
  <2> QED BY <2>1, <2>2, FirstGo
<1>2. CASE Program
  BY <1>2, ProgramSteps, ProgramFirst, BuildFirst
<1>3. CASE Engine
  BY <1>3, AllSteps, ActiveFirst, EndFirst
<1> QED BY <1>1, <1>2, <1>3, StepOf

(* The constructors' first steps: a once whose first update is to come is  *)
(* connected, and a switch follows one of its streams, or is to be         *)
(* connected to one in pre_eot.                                            *)
THEOREM FirstStepsLeft == Spec => []FirstInv
<1>1. Init => FirstInv
  <2> SUFFICES ASSUME Init PROVE FirstInv
    OBVIOUS
  <2>1. stack = <<>> /\ preEot = <<>> /\ built = net.start /\ NetworkOK(net)
    BY CtxAssumption DEF Init
  <2>2. FirstLeft = {}
    BY <2>1, ListEmpty, LeftUnion DEF FirstLeft, Frames
  <2>3. ASSUME NEW n \in 1 .. built, IsSwitch(net, n)
        PROVE  inner[n] \in Followable(net, n)
    <3>1. /\ net.start \in 0 .. Len(net.kind) /\ Len(net.kind) \in Nat
          /\ Nodes(net) = 1 .. Len(net.kind)
      BY <2>1, NetworkNodes
    <3>2. /\ n \in Nodes(net) /\ n <= net.start /\ n - 1 <= net.start
          /\ net.start \in net.start .. Len(net.kind)
      BY <2>1, <3>1
    <3>3. inner[n] = Followed(net, n, value[net.to[n]])
      BY <2>3, <3>2 DEF Init, IsSwitch
    <3> QED BY <2>1, <2>3, <3>2, <3>3, FollowedMade DEF IsSwitch
  <2> QED BY <2>2, <2>3 DEF FirstInv
<1>2. StackInv /\ StackInv' /\ CleanInv /\ TypeInv /\ QueueInv /\ FirstInv /\ [Next]_vars => FirstInv'
  BY FirstKeeps
<1> QED BY <1>1, <1>2, StackShape, FlagsOwed, NodesMade, QueuesEmpty, PTL DEF Spec

(* Sets of nodes that only the program's own sends can reach: they take no *)
(* part in a transaction that end_of_transaction opens for a deferred one. *)
Unsent(nt, S) ==
  \A n \in S : /\ nt.kind[n] # "deferred" /\ Inputs(nt, n) \subseteq S
               /\ IsSwitch(nt, n) => Followable(nt, n) \subseteq S

(* All of these nodes.                                                     *)
Steady(nt) == UNION {S \in SUBSET Nodes(nt) : Unsent(nt, S)}

(* ... which make such a set themselves.                                   *)
LEMMA SteadyUnsent ==
  ASSUME NEW nt
  PROVE  Steady(nt) \subseteq Nodes(nt) /\ Unsent(nt, Steady(nt))
<1>1. ASSUME NEW n \in Steady(nt)
      PROVE  /\ n \in Nodes(nt) /\ nt.kind[n] # "deferred" /\ Inputs(nt, n) \subseteq Steady(nt)
             /\ IsSwitch(nt, n) => Followable(nt, n) \subseteq Steady(nt)
  <2>1. PICK S \in SUBSET Nodes(nt) : Unsent(nt, S) /\ n \in S
    BY DEF Steady
  <2>2. S \subseteq Steady(nt)
    BY <2>1 DEF Steady
  <2>3. /\ nt.kind[n] # "deferred" /\ Inputs(nt, n) \subseteq S
        /\ IsSwitch(nt, n) => Followable(nt, n) \subseteq S
    BY <2>1 DEF Unsent
  <2> HIDE DEF Steady
  <2> QED BY <2>1, <2>2, <2>3
<1> HIDE DEF Steady
<1> QED BY <1>1 DEF Unsent

(* The stream that a listener listens to, and the listeners of onces that  *)
(* are out of the reach of deferred events.                                *)
OnceOf(l) == net.in[l][1]
Ears == {l \in Listeners(net) : net.kind[OnceOf(l)] = "once" /\ OnceOf(l) \in Steady(net)}

(* The calls of a listener in one transaction, and in the one in progress. *)
CallsIn(h, l) == {k \in DOMAIN h : h[k][1] = l}
HeardNow(l) == CallsIn(heard, l) # {}

(* The combinators give no event when none of their inputs has one.        *)
LEMMA SilentStream ==
  ASSUME NetworkOK(net), NEW STATE n, n \in Nodes(net), n \in Steady(net), n \notin Sinks(net),
         \A m \in Steady(net) : firing[m] = NoEvent,
         IsSwitch(net, n) => inner[n] \in Followable(net, n),
         net.kind[n] \in {"map", "filter", "merge", "orElse", "left", "right", "both", "snapshot",
                          "loop", "once", "switch", "switchC"}
  PROVE  (CASE net.kind[n] \in {"switch", "switchC"} -> Inner(n)
             [] net.kind[n] = "both" -> Latest(n)
             [] OTHER -> Event(net, n, firing, value)) = NoEvent
<1>1. \A m \in Inputs(net, n) : firing[m] = NoEvent
  BY SteadyUnsent DEF Unsent
<1>2. firing[net.in[n][1]] = NoEvent
  BY <1>1, NetworkNodes
<1>3. CASE net.kind[n] \in {"switch", "switchC"}
  BY <1>3, SteadyUnsent DEF Inner, Unsent, IsSwitch
<1>4. CASE net.kind[n] = "both"
  BY <1>2, <1>4 DEF Latest
<1>5. CASE net.kind[n] \in {"merge", "orElse"}
  <2>1. Len(net.in[n]) = 2 /\ DOMAIN net.in[n] = 1 .. Len(net.in[n])
    BY <1>5, NetworkNodes
  <2>2. net.in[n][2] \in Inputs(net, n)
    BY <2>1 DEF Inputs
  <2>3. firing[net.in[n][2]] = NoEvent
    BY <1>1, <2>2
  <2>4. NoEvent \o NoEvent = NoEvent
    BY DEF NoEvent
  <2>5. Event(net, n, firing, value) = NoEvent
    BY <1>2, <1>5, <2>3, <2>4 DEF Event, Merge, OrElse
  <2> QED BY <1>5, <2>5
<1>6. CASE net.kind[n] \in {"map", "filter", "left", "right", "snapshot", "loop", "once"}
  <2>1. Event(net, n, firing, value) = NoEvent
    BY <1>2, <1>6 DEF Event
  <2> QED BY <1>6, <2>1
<1> QED BY <1>3, <1>4, <1>5, <1>6

(* An update neither makes a node that deferred events do not reach fire,  *)
(* nor calls a listener behind such nodes.                                 *)
LEMMA SilentClosure ==
  ASSUME NetworkOK(net), StateTypes(net, changed, firing, next), IsList(heard),
         NEW STATE n, n \in Nodes(net), RunClosure(n),
         1 .. built \subseteq Nodes(net),
         \A m \in Steady(net) : firing[m] = NoEvent,
         IsSwitch(net, n) => inner[n] \in Followable(net, n)
  PROVE  /\ \A m \in Steady(net) : firing'[m] = NoEvent
         /\ \A l \in Ears : HeardNow(l)' => HeardNow(l)
<1>0. DOMAIN firing = Nodes(net) /\ Steady(net) \subseteq Nodes(net)
  BY SteadyUnsent DEF StateTypes
<1>1. CASE firing' = firing /\ heard' = heard
  BY <1>1 DEF HeardNow
<1>7. net.kind[n] = "listen" => RunListen(n)
  BY DEF RunClosure, Defers, Sinks, OfKind
<1>8. net.kind[n] = "router" => RunRouter(n)
  BY DEF RunClosure, Defers, Sinks, OfKind
<1>2. CASE net.kind[n] = "listen"
  <2>1. firing' = firing
    BY <1>2, <1>7 DEF RunListen
  <2>2. \A l \in Ears : HeardNow(l)' => HeardNow(l)
    <3> TAKE l \in Ears
    <3>1. CASE heard' = heard
      BY <3>1 DEF HeardNow
    <3>2. CASE heard' = Append(heard, <<n, firing[net.in[n][1]]>>) /\ firing[net.in[n][1]] # NoEvent
      <4>1. n # l
        BY <3>2 DEF Ears, OnceOf
      <4> DEFINE e == <<n, firing[net.in[n][1]]>>
      <4>2. e[1] # l /\ heard' = Append(heard, e)
        BY <3>2, <4>1
      <4> HIDE DEF e
      <4>3. \A k \in DOMAIN heard' : heard'[k][1] = l => k \in DOMAIN heard /\ heard[k][1] = l
        BY <4>2 DEF IsList
      <4> QED BY <4>3 DEF HeardNow, CallsIn
    <3> QED BY <1>2, <1>7, <3>1, <3>2 DEF RunListen
  <2> QED BY <2>1, <2>2
<1>3. CASE net.kind[n] = "router"
  <2> DEFINE a == firing[net.in[n][1]]
  <2>1. heard' = heard
    BY <1>3, <1>8 DEF RunRouter
  <2>2. ASSUME NEW m \in Steady(net) PROVE firing'[m] = NoEvent
    <3>1. \/ firing'[m] = firing[m]
          \/ firing'[m] = a /\ a # NoEvent /\ net.in[m] = <<n>>
      BY <1>0, <1>3, <1>8 DEF RunRouter
    <3>2. ASSUME net.in[m] = <<n>> PROVE a = NoEvent
      <4>1. n \in Inputs(net, m)
        BY <3>2 DEF Inputs
      <4>2. n \in Steady(net)
        BY <4>1, SteadyUnsent DEF Unsent
      <4>3. n \notin Sinks(net)
        BY <1>3 DEF Sinks, OfKind
      <4>4. net.in[n][1] \in Steady(net)
        BY <4>2, <4>3, SteadyUnsent, NetworkNodes DEF Unsent
      <4> QED BY <4>4
    <3> QED BY <3>1, <3>2
  <2> QED BY <2>1, <2>2 DEF HeardNow
<1>4. CASE /\ RunStream(n) /\ n \notin Sinks(net) /\ n \notin Defers(net)
           /\ net.kind[n] \notin {"hold", "listen", "router", "outer", "route", "outerC"}
  <2>1. net.kind[n] \in {"map", "filter", "merge", "orElse", "left", "right", "both", "snapshot",
                         "loop", "once", "switch", "switchC"}
    <3>1. net.kind[n] \in {"sink", "coalescing", "deferred", "spark", "map", "filter", "merge",
                       "orElse", "left", "right", "both", "snapshot", "hold", "loop", "once",
                       "listen", "defer", "split", "router", "route", "outer", "switch",
                       "outerC", "switchC"}
      BY DEF NetworkOK, Nodes
    <3> QED BY <1>4, <3>1 DEF Sinks, Defers, OfKind
  <2>2. heard' = heard
    BY <1>4 DEF RunStream
  <2>3. CASE firing' = firing
    BY <1>1, <2>2, <2>3
  <2>4. CASE n \in Steady(net)
    BY <1>1, <1>4, <2>1, <2>2, <2>4, SilentStream DEF RunStream
  <2>5. CASE n \notin Steady(net)
    <3>1. firing' = firing \/ \E a : firing' = [firing EXCEPT ![n] = a]
      BY <1>4 DEF RunStream, Fire
    <3>2. \A m \in Steady(net) : firing'[m] = NoEvent
      BY <1>0, <2>5, <3>1
    <3> QED BY <2>2, <3>2 DEF HeardNow
  <2> QED BY <2>4, <2>5
<1>5. \/ firing' = firing /\ heard' = heard
      \/ net.kind[n] \in {"listen", "router"}
      \/ /\ RunStream(n) /\ n \notin Sinks(net) /\ n \notin Defers(net)
         /\ net.kind[n] \notin {"hold", "listen", "router", "outer", "route", "outerC"}
  BY DEF RunClosure, RunHold, RunDefer, RunOuter, RunNothing
<1> QED BY <1>1, <1>2, <1>3, <1>4, <1>5

(* A call of end_of_transaction is at its post.                            *)
Posts(F) == \E f \in F : f.pc = "post"
Nested == Posts(Frames(stack))

(* No call of switch_c's outer node is at work on a steady switch.         *)
SwitchesApart(nt, F) ==
  \A f \in F : f.op = "update" /\ f.pc = "switching" => f.node \notin Steady(nt)

(* While a call of end_of_transaction is at its post, no steady node fires *)
(* or is being switched, nobody behind a once that is steady was called in *)
(* the transaction in progress, and no first step waits.                   *)
NestedInv ==
  /\ IsList(heard)
  /\ Nested => /\ \A n \in Steady(net) : firing[n] = NoEvent
               /\ SwitchesApart(net, Frames(stack))
               /\ \A l \in Ears : ~HeardNow(l)
               /\ FirstLeft = {}

(* What the update closures do to the calls of listeners.                  *)
LEMMA ClosureHeard ==
  ASSUME NEW STATE n, RunClosure(n)
  PROVE  \/ heard' = heard
         \/ /\ net.kind[n] = "listen" /\ firing[net.in[n][1]] # NoEvent
            /\ heard' = Append(heard, <<n, firing[net.in[n][1]]>>)
<1>1. net.kind[n] = "listen" => RunListen(n)
  BY DEF RunClosure, Defers, Sinks, OfKind
<1>2. CASE net.kind[n] = "listen"
  BY <1>1, <1>2 DEF RunListen
<1>3. CASE net.kind[n] # "listen"
  BY <1>3 DEF RunClosure, RunStream, RunHold, RunDefer, RunRouter, RunOuter, RunNothing
<1> QED BY <1>2, <1>3

(* The calls after a step of the call on top.                              *)
LEMMA FramesGo ==
  ASSUME StackInv, stack # <<>>, NEW f, Goes(f) \/ stack' = SetTop(f)
  PROVE  /\ Frames(Below) \subseteq Frames(stack') /\ f \in Frames(stack')
         /\ \A g \in Frames(stack') :
              \/ g \in Frames(Below) \/ g = f
              \/ \E n \in 1 .. built : \E r, l : /\ g = Update("dependencies", n, r, l)
                                                /\ ~visited[n]
         /\ Frames(stack) = Frames(Below) \cup {Top}
<1>1. /\ Frames(stack) = Frames(Below) \cup {Top}
      /\ Frames(SetTop(f)) = Frames(Below) \cup {f}
      /\ \A g : Frames(Append(SetTop(f), g)) = Frames(Below) \cup {f, g}
  BY TopFrames DEF StackInv
<1>2. CASE stack' = SetTop(f)
  BY <1>1, <1>2
<1>3. CASE \E n \in 1 .. built :
             /\ ~visited[n]
             /\ stack' = Append(SetTop(f), Update("dependencies", n, dependencies[n], dependencies[n]))
  <2>1. PICK n \in 1 .. built : \E g :
          /\ ~visited[n] /\ stack' = Append(SetTop(f), g)
          /\ g = Update("dependencies", n, dependencies[n], dependencies[n])
    BY <1>3
  <2> QED BY <1>1, <2>1
<1> QED BY <1>2, <1>3 DEF Goes

(* A step of the propagation finds and leaves a nested one so.             *)
LEMMA NestedGo ==
  ASSUME StackInv, CleanInv', NestedInv, stack # <<>>, net' = net, built' = built,
         NEW f, Kept(f), Goes(f) \/ stack' = SetTop(f), f.pc # "post",
         f.pc = "switching" =>
           Top.pc = "switching" \/ (Top.op = "update" /\ firing[net.in[Top.node][1]] # NoEvent),
         FirstLeft' \subseteq FirstLeft, IsList(heard'),
         Nested => /\ \A n \in Steady(net) : firing'[n] = NoEvent
                   /\ \A l \in Ears : HeardNow(l)' => HeardNow(l),
         NetworkOK(net), TypeInv, built \in Nat, 1 .. built \subseteq Nodes(net)
  PROVE  NestedInv'
<1> SUFFICES ASSUME Nested'
             PROVE  /\ \A n \in Steady(net) : firing'[n] = NoEvent
                    /\ SwitchesApart(net, Frames(stack'))
                    /\ \A l \in Ears : ~HeardNow(l)'
                    /\ FirstLeft' = {}
  <2>1. Steady(net') = Steady(net) /\ Ears' = Ears
    BY DEF Ears, OnceOf
  <2> HIDE DEF FirstLeft
  <2> QED BY <2>1 DEF NestedInv, SwitchesApart
<1>1. /\ Frames(stack) = Frames(Below) \cup {Top} /\ f \in Frames(stack')
      /\ \A g \in Frames(stack') : \/ g \in Frames(Below) \/ g = f
                                   \/ \E n \in 1 .. built : \E r, l : g = Update("dependencies", n, r, l)
  BY FramesGo
<1>2. \A n, r, l : Update("dependencies", n, r, l).pc = "dependencies"
  BY DEF Update
<1>3. Nested
  BY <1>1, <1>2 DEF Nested, Posts
<1>4. /\ \A n \in Steady(net) : firing[n] = NoEvent /\ firing'[n] = NoEvent
      /\ SwitchesApart(net, Frames(stack)) /\ FirstLeft = {}
      /\ \A l \in Ears : ~HeardNow(l) /\ ~HeardNow(l)'
  BY <1>3 DEF NestedInv
<1>5. ASSUME f.op = "update", f.pc = "switching"
      PROVE  f.node \notin Steady(net)
  <2>1. Top.op = "update" /\ f.node = Top.node
    BY <1>5 DEF Kept
  <2>2. CASE Top.pc = "switching"
    BY <1>1, <1>4, <2>1, <2>2 DEF SwitchesApart
  <2>3. CASE firing[net.in[Top.node][1]] # NoEvent
    <3>1. net.kind[f.node] = "outerC"
      <4>1. PICK i \in 1 .. Len(stack') : stack'[i] = f
        BY <1>1 DEF Frames
      <4>2. FrameClean(net', f)
        BY <4>1 DEF CleanInv, AllClean
      <4> QED BY <1>5, <4>2 DEF FrameClean
    <3>2. Top.node \in 1 .. built
      BY <2>1, TypedTop DEF FrameTyped
    <3>3. Top.node \in Nodes(net) /\ Top.node \notin Sinks(net)
      BY <2>1, <3>1, <3>2 DEF Sinks, OfKind
    <3>4. net.in[Top.node][1] \in Inputs(net, Top.node)
      BY <3>3, NetworkNodes
    <3>5. Top.node \notin Steady(net)
      BY <1>4, <2>3, <3>4, SteadyUnsent DEF Unsent
    <3> QED BY <2>1, <3>5
  <2> QED BY <1>5, <2>2, <2>3
<1>6. SwitchesApart(net, Frames(stack'))
  BY <1>1, <1>2, <1>4, <1>5 DEF SwitchesApart
<1> QED BY <1>4, <1>6

(* The steps of a propagation,                                             *)
LEMMA ActiveNested ==
  ASSUME StackInv, CleanInv, CleanInv', TypeInv, FirstInv, NestedInv,
         stack # <<>>, UNCHANGED <<net, built>>,
         \/ (\E f : Walking(f)) \/ (\E n, f : Running(n, f)) \/ (\E k, f : Connecting(k, f))
         \/ (\E n, s, f : Switching(n, s, f)) \/ (Returning /\ TopIs("update", "dependents"))
  PROVE  NestedInv'
<1>0. /\ 1 .. built \subseteq Nodes(net) /\ built \in Nat /\ NetworkOK(net)
      /\ DOMAIN firing = Nodes(net) /\ IsList(heard) /\ net' = net /\ built' = built
      /\ StateTypes(net, changed, firing, next)
  BY TypedNet DEF TypeInv, StateTypes, NestedInv
<1>1. FirstLeft' \subseteq FirstLeft
  BY ActiveFirst
<1>2. Nested => \A n \in Steady(net) : firing[n] = NoEvent
  BY DEF NestedInv
<1> HIDE DEF FirstLeft
<1>3. ASSUME NEW f, Walking(f) PROVE NestedInv'
  <2>1. firing' = firing /\ heard' = heard
    BY <1>3 DEF Walking
  <2>2. \A l \in Ears : HeardNow(l)' => HeardNow(l)
    BY <2>1 DEF HeardNow
  <2> QED BY <1>0, <1>1, <1>2, <1>3, <2>1, <2>2, NestedGo DEF Walking
<1>4. ASSUME NEW n, NEW f, Running(n, f) PROVE NestedInv'
  <2>1. /\ f.pc # "post" /\ f.pc # "switching" /\ n \in Nodes(net) /\ RunClosure(n)
        /\ Kept(f) /\ stack' = SetTop(f) /\ n \in 1 .. built
    BY <1>0, <1>4 DEF Running
  <2>2. IsList(heard')
    <3>1. heard' = heard \/ \E e : heard' = Append(heard, e)
      BY <2>1, ClosureHeard
    <3> QED BY <1>0, <3>1, ListAppend
  <2>3. ASSUME Nested
        PROVE  /\ \A m \in Steady(net) : firing'[m] = NoEvent
               /\ \A l \in Ears : HeardNow(l)' => HeardNow(l)
    <3>1. FirstLeft = {}
      BY <2>3 DEF NestedInv
    <3>2. IsSwitch(net, n) => inner[n] \in Followable(net, n)
      BY <2>1, <3>1 DEF FirstInv
    <3> QED BY <1>0, <1>2, <2>1, <2>3, <3>2, SilentClosure
  <2> QED BY <1>0, <1>1, <2>1, <2>2, <2>3, NestedGo
<1>5. ASSUME NEW k, NEW f, Connecting(k, f) PROVE NestedInv'
  <2>1. /\ firing' = firing /\ heard' = heard /\ Kept(f) /\ stack' = SetTop(f)
        /\ f.pc # "post" /\ f.pc # "switching"
    BY <1>5 DEF Connecting
  <2>2. \A l \in Ears : HeardNow(l)' => HeardNow(l)
    BY <2>1 DEF HeardNow
  <2> QED BY <1>0, <1>1, <1>2, <2>1, <2>2, NestedGo
<1>6. ASSUME NEW n, NEW s, NEW f, Switching(n, s, f) PROVE NestedInv'
  <2>1. /\ heard' = heard /\ Kept(f) /\ stack' = SetTop(f)
        /\ f.pc # "post" /\ f.pc # "switching" /\ n \in 1 .. built
        /\ net.in[n] = <<Top.node>> /\ Top.op = "update" /\ Top.pc = "switching"
        /\ \E a : firing' = [firing EXCEPT ![n] = a]
    BY <1>6 DEF Switching
  <2>2. \A l \in Ears : HeardNow(l)' => HeardNow(l)
    BY <2>1 DEF HeardNow
  <2>3. ASSUME Nested PROVE \A m \in Steady(net) : firing'[m] = NoEvent
    <3>1. Top \in Frames(stack)
      BY TopFrames DEF StackInv
    <3>2. Top.node \notin Steady(net)
      BY <2>1, <2>3, <3>1 DEF NestedInv, SwitchesApart
    <3>3. Top.node \in Inputs(net, n)
      BY <2>1 DEF Inputs
    <3>4. n \notin Steady(net)
      BY <3>2, <3>3, SteadyUnsent DEF Unsent
    <3> QED BY <1>0, <1>2, <2>1, <2>3, <3>4, SteadyUnsent
  <2> QED BY <1>0, <1>1, <2>1, <2>2, <2>3, NestedGo
<1>7. ASSUME Returning PROVE NestedInv'
  <2>1. stack' = Below /\ UNCHANGED <<firing, heard>>
    BY <1>7 DEF Returning
  <2>2. Frames(stack') \subseteq Frames(stack)
    BY <2>1, TopFrames DEF StackInv
  <2>3. Nested' => Nested
    BY <2>2 DEF Nested, Posts
  <2>4. Steady(net') = Steady(net) /\ Ears' = Ears /\ \A l \in Ears : HeardNow(l)' <=> HeardNow(l)
    BY <1>0, <2>1 DEF Ears, OnceOf, HeardNow
  <2>5. SwitchesApart(net, Frames(stack)) => SwitchesApart(net', Frames(stack'))
    BY <1>0, <2>2 DEF SwitchesApart
  <2> QED BY <1>0, <1>1, <2>1, <2>3, <2>4, <2>5 DEF NestedInv
<1> QED BY <1>3, <1>4, <1>5, <1>6, <1>7

(* and the steps after it.                                                 *)
LEMMA EndNested ==
  ASSUME StackInv, CleanInv, TypeInv, QueueInv, FirstInv, NestedInv,
         stack # <<>>, UNCHANGED <<net, built>>,
         \/ (\E f : Closing(f)) \/ (\E f : Resetting(f)) \/ (\E f : Taking(f))
         \/ (\E k, f : Posting(k, f))
         \/ Returning /\ TopIs("eot", "post") /\ Top.list = <<>>
  PROVE  NestedInv'
<1>0. /\ DOMAIN firing = Nodes(net) /\ IsList(heard) /\ net' = net /\ built' = built
      /\ NetworkOK(net) /\ 1 .. built \subseteq Nodes(net)
  BY TypedNet DEF TypeInv, StateTypes, NestedInv
<1>1. FirstLeft' = {}
  BY EndFirst
<1>2. heard' = <<>>
  <2>1. CASE \E f : Closing(f)
    BY <2>1 DEF Closing
  <2>2. CASE \/ (\E f : Resetting(f)) \/ (\E f : Taking(f)) \/ (\E k, f : Posting(k, f))
             \/ Returning /\ TopIs("eot", "post")
    <3>1. Top.op = "eot" /\ Top.pc \in {"pre_post", "post"} /\ heard' = heard
      BY <2>2 DEF Resetting, Taking, Posting, Returning, TopIs
    <3> QED BY <3>1 DEF QueueInv, Active, Propagates, Top
  <2> QED BY <2>1, <2>2
<1>3. IsList(heard') /\ \A l : ~HeardNow(l)'
  <2>1. \A l : CallsIn(<<>>, l) = {}
    BY DEF CallsIn
  <2> QED BY <1>2, <2>1, ListEmpty DEF HeardNow
<1>4. Top.op = "eot" /\ \A f \in Frames(Below) : f.op # "update"
  <2>1. Top.op = "eot"
    BY DEF Closing, Resetting, Taking, Posting, TopIs
  <2> QED BY <2>1, BelowEot DEF StackInv, Propagates
<1>5. \A f \in Frames(stack') : f.op # "update"
  <2>1. CASE stack' = Below
    BY <1>4, <2>1
  <2>2. ASSUME NEW f, NEW k, Kept(f),
               \/ stack' = SetTop(f)
               \/ stack' = Append(SetTop(f), Eot("pre_eot", preEot, k))
        PROVE  \A g \in Frames(stack') : g.op # "update"
    <3>1. PICK g : g = Eot("pre_eot", preEot, k)
      OBVIOUS
    <3>2. g.op # "update" /\ f.op # "update"
      BY <1>4, <2>2, <3>1 DEF Eot, Kept
    <3>3. stack' = SetTop(f) \/ stack' = Append(SetTop(f), g)
      BY <2>2, <3>1
    <3>4. Frames(stack') \subseteq Frames(Below) \cup {f, g}
      <4>1. /\ Frames(SetTop(f)) = Frames(Below) \cup {f}
            /\ Frames(Append(SetTop(f), g)) = Frames(Below) \cup {f, g}
        BY TopFrames DEF StackInv
      <4> QED BY <3>3, <4>1
    <3> QED BY <1>4, <3>2, <3>4
  <2> QED BY <2>1, <2>2 DEF Closing, Resetting, Taking, Posting, Returning
<1>6. ASSUME Nested' PROVE \A n \in Steady(net) : firing'[n] = NoEvent
  <2>0. Steady(net) \subseteq Nodes(net)
    BY SteadyUnsent
  <2>1. /\ Frames(stack) = Frames(Below) \cup {Top}
        /\ \A f : Frames(SetTop(f)) = Frames(Below) \cup {f}
    BY TopFrames DEF StackInv
  <2>2. Nested => \A n \in Steady(net) : firing[n] = NoEvent
    BY DEF NestedInv
  <2>3. CASE (\E f : Closing(f)) \/ (\E f : Resetting(f))
    <3>1. PICK f : stack' = SetTop(f) /\ f.pc = "pre_post"
      BY <2>3 DEF Closing, Resetting
    <3>2. Nested
      BY <1>6, <2>1, <3>1 DEF Nested, Posts
    <3>3. firing' = firing \/ \E n : firing' = [firing EXCEPT ![n] = NoEvent]
      BY <2>3 DEF Closing, Resetting
    <3> QED BY <1>0, <2>0, <2>2, <3>2, <3>3
  <2>4. CASE \E f : Taking(f)
    <3>1. TopIs("eot", "pre_post") /\ Top.list = <<>> /\ firing' = firing
      BY <2>4 DEF Taking
    <3>2. ~Active(stack) /\ Pending(stack) = {}
      BY <3>1, ListEmpty DEF Active, Pending, Propagates, TopIs, Top
    <3>3. \A n \in Nodes(net) : firing[n] = NoEvent
      BY <3>2, Resting DEF Covered, Due
    <3> QED BY <2>0, <3>1, <3>3
  <2>5. CASE Returning
    <3>1. Nested
      BY <1>6, <2>1, <2>5 DEF Nested, Posts, Returning
    <3> QED BY <2>2, <2>5, <3>1 DEF Returning
  <2>6. CASE \E k, f : Posting(k, f)
    <3>1. PICK k : \/ firing' = firing
                   \/ /\ k.op = "send" /\ PostStep(net, built, k)
                      /\ \E a : firing' = [firing EXCEPT ![k.node] = a]
      BY <2>6 DEF Posting
    <3>2. Nested
      BY <2>1, <2>6 DEF Nested, Posts, Posting, TopIs
    <3>3. k.op = "send" /\ PostStep(net, built, k) => k.node \notin Steady(net)
      BY SteadyUnsent DEF PostStep, Unsent
    <3> QED BY <1>0, <2>0, <2>2, <3>1, <3>2, <3>3
  <2> QED BY <2>3, <2>4, <2>5, <2>6
<1>7. Steady(net') = Steady(net)
  BY <1>0
<1>8. SwitchesApart(net', Frames(stack'))
  BY <1>5 DEF SwitchesApart
<1> HIDE DEF FirstLeft
<1> QED BY <1>1, <1>3, <1>6, <1>7, <1>8 DEF NestedInv

(* ... and so it remains, whatever is done.                                *)
LEMMA NestedKeeps ==
  ASSUME StackInv, StackInv', CleanInv, CleanInv', TypeInv, QueueInv, FirstInv, NestedInv,
         [Next]_vars
  PROVE  NestedInv'
<1>1. CASE UNCHANGED context
  <2>1. UNCHANGED <<net, firing, heard, preEot, stack>>
    BY <1>1 DEF context, queues, flags, outcome
  <2>2. Nested' = Nested /\ FirstLeft' = FirstLeft /\ Ears' = Ears /\ Steady(net') = Steady(net)
    BY <2>1 DEF Nested, FirstLeft, Ears, OnceOf
  <2>3. \A l : HeardNow(l)' <=> HeardNow(l)
    BY <2>1 DEF HeardNow
  <2> HIDE DEF Nested, FirstLeft, Ears
  <2> QED BY <2>1, <2>2, <2>3 DEF NestedInv
<1>2. CASE Program
  <2>1. stack' = <<>> \/ stack' = Append(<<>>, Eot("pre_eot", preEot, NoCause))
    BY <1>2, ProgramSteps DEF Idling, Leaving, Build
  <2>2. heard' = heard
    BY <1>2, ProgramSteps DEF Idling, Leaving, Build, outcome
  <2>3. ~Nested'
    <3>1. CASE stack' = <<>>
      BY <3>1 DEF Nested, Posts, Frames
    <3>2. CASE stack' = Append(<<>>, Eot("pre_eot", preEot, NoCause))
      <4>1. PICK f : f = Eot("pre_eot", preEot, NoCause)
        OBVIOUS
      <4>2. f.pc # "post" /\ stack' = Append(<<>>, f)
        BY <3>2, <4>1 DEF Eot
      <4>3. Len(stack') = 1 /\ stack'[1] = f
        BY <4>2
      <4> QED BY <4>2, <4>3 DEF Nested, Posts, Frames
    <3> QED BY <2>1, <3>1, <3>2
  <2> QED BY <2>2, <2>3 DEF NestedInv
<1>3. CASE Engine
  BY <1>3, AllSteps, ActiveNested, EndNested
<1> QED BY <1>1, <1>2, <1>3, StepOf

(* While end_of_transaction runs what was posted, nothing fires but what   *)
(* deferred events can reach, and no listener behind the rest is called.   *)
THEOREM NestedQuiet == Spec => []NestedInv
<1>1. Init => NestedInv
  <2> SUFFICES ASSUME Init PROVE NestedInv
    OBVIOUS
  <2>1. stack = <<>> /\ heard = <<>>
    BY DEF Init
  <2> QED BY <2>1, ListEmpty DEF NestedInv, Nested, Posts, Frames
<1>2. StackInv /\ StackInv' /\ CleanInv /\ CleanInv' /\ TypeInv /\ QueueInv /\ FirstInv /\ NestedInv
        /\ [Next]_vars => NestedInv'
  BY NestedKeeps
<1> QED BY <1>1, <1>2, StackShape, FlagsOwed, NodesMade, QueuesEmpty, FirstStepsLeft, PTL DEF Spec

(* A listener was called once at most in a transaction, or in an earlier   *)
(* one than that in progress.                                              *)
AtMost(h, l) == \A i, j \in CallsIn(h, l) : i = j
Logged(l) == \E i \in DOMAIN log : CallsIn(log[i], l) # {}

(* The removals of node o that were posted.                                *)
Remove(K, o) == \E k \in K : k.op = "remove" /\ k.node = o
Removing(o) == Remove(Entries(post) \cup Left(Frames(stack), "post"), o)

(* A once that fires in a transaction of the program was connected, and    *)
(* has posted its removal.                                                 *)
FiringPosts ==
  Active(stack) /\ ~Nested =>
    \A o \in Onces(net) : firing[o] # NoEvent =>
      Remove(Entries(post), o) /\ dependencies[o] # <<>>

(* A once that was heard in an earlier transaction is disconnected before  *)
(* the program's next one; until then its removal is posted.               *)
LoggedCut ==
  (stack = <<>> \/ Active(stack)) /\ ~Nested =>
    \A l \in Ears : Logged(l) => dependencies[OnceOf(l)] = <<>>

(* ... at any time, that is: it is disconnected, or its removal is posted. *)
LoggedPosts ==
  \A l \in Ears : Logged(l) =>
    OnceOf(l) \in 1 .. built /\ (dependencies[OnceOf(l)] = <<>> \/ Removing(OnceOf(l)))

(* A listener is called once, in one transaction,                          *)
CallsApart ==
  /\ IsList(log)
  /\ \A l \in Ears :
       /\ AtMost(heard, l) /\ (Logged(l) => ~HeardNow(l))
       /\ \A i \in DOMAIN log : AtMost(log[i], l)
       /\ \A i, j \in DOMAIN log : i = j \/ CallsIn(log[i], l) = {} \/ CallsIn(log[j], l) = {}

(* ... and in the one in progress it is by an update that is over.         *)
HeardOver ==
  \A l \in Ears : HeardNow(l) =>
    /\ visited[l] /\ Remove(Entries(post), OnceOf(l))
    /\ \A f \in Frames(stack) : f.op = "update" /\ f.node = l => f.pc # "dependencies"

(* All of it.                                                              *)
OnceInv == FiringPosts /\ LoggedCut /\ LoggedPosts /\ CallsApart /\ HeardOver

(* What a defer or a split posts is a list.                                *)
LEMMA PostedList ==
  ASSUME NEW nt, NEW n, NEW a
  PROVE  IsList(Posted(nt, n, a))
<1> DEFINE sent == Posted(nt, n, a)
           A == {a, Part(a, 1), Part(a, 2)}
<1>1. sent \in {<<>>, <<a>>, <<Part(a, 1), Part(a, 2)>>}
  BY DEF Posted
<1>2. <<>> \in Seq(A) /\ <<a>> \in Seq(A) /\ <<Part(a, 1), Part(a, 2)>> \in Seq(A)
  OBVIOUS
<1> HIDE DEF A, sent
<1>3. sent \in Seq(A)
  BY <1>1, <1>2
<1> QED BY <1>3, ListOf DEF sent

(* What a closure posts comes after what was posted; a once that fires     *)
(* posts its removal.                                                      *)
LEMMA ClosurePosts ==
  ASSUME CleanInv, TypeInv, NEW STATE n, n \in 1 .. built, RunClosure(n)
  PROVE  /\ Entries(post) \subseteq Entries(post')
         /\ \A o \in Onces(net) : firing'[o] = firing[o] \/ (o = n /\ Remove(Entries(post'), o))
<1>0. DOMAIN firing = Nodes(net) /\ IsList(post) /\ n \in Nodes(net)
  BY TypedNet DEF TypeInv, StateTypes, QueuesTyped, PostList
<1>1. \A s : IsList(s) => Entries(post) \subseteq Entries(post \o s)
  BY <1>0, ListConcat
<1>2. \A x : Entries(Append(post, x)) = Entries(post) \cup {x}
  BY <1>0, ListAppend
<1>3. CASE RunStream(n)
  <2>1. post' = post \/ \E x : post' = Append(post, x)
    BY <1>3 DEF RunStream, AfterFiring
  <2>2. ASSUME NEW o \in Onces(net)
        PROVE  firing'[o] = firing[o] \/ (o = n /\ Remove(Entries(post'), o))
    <3>1. CASE o = n /\ firing' # firing
      <4>1. net.kind[n] = "once"
        BY <3>1 DEF Onces, OfKind
      <4>2. post' = Append(post, [op |-> "remove", node |-> n])
        BY <1>3, <3>1, <4>1 DEF RunStream, AfterFiring
      <4> QED BY <1>2, <3>1, <4>2 DEF Remove
    <3>2. CASE o # n
      <4>1. firing' = firing \/ \E a : firing' = [firing EXCEPT ![n] = a]
        BY <1>3 DEF RunStream, Fire
      <4> QED BY <1>0, <3>2, <4>1 DEF Onces, OfKind
    <3> QED BY <3>1, <3>2
  <2> QED BY <1>2, <2>1, <2>2
<1>4. CASE RunHold(n)
  <2>1. post' = post \/ \E x : post' = Append(post, x)
    BY <1>4 DEF RunHold
  <2> QED BY <1>2, <1>4, <2>1 DEF RunHold
<1>5. CASE RunListen(n) \/ RunOuter(n) \/ RunNothing
  BY <1>5 DEF RunListen, RunOuter, RunNothing
<1>6. CASE RunDefer(n)
  <2> DEFINE sent == Posted(net, n, firing[net.in[n][1]])
             t == [i \in DOMAIN sent |-> [op |-> "send", node |-> net.to[n], event |-> sent[i]]]
  <2>1. IsList(sent)
    BY PostedList
  <2>2. IsList(t)
    <3> HIDE DEF sent
    <3> QED BY <2>1, SendsMade
  <2>3. post' = post \o t /\ firing' = firing
    BY <1>6 DEF RunDefer
  <2> QED BY <1>1, <2>2, <2>3
<1>7. CASE RunRouter(n)
  <2>1. post' = post
    BY <1>7 DEF RunRouter
  <2>2. \A o \in Onces(net) : firing'[o] = firing[o]
    BY <1>7 DEF RunRouter, Onces, OfKind
  <2> QED BY <2>1, <2>2
<1> QED BY <1>3, <1>4, <1>5, <1>6, <1>7 DEF RunClosure

(* Nodes of listeners and onces.                                           *)
LEMMA EarNodes ==
  ASSUME NetworkOK(net), NEW l \in Ears
  PROVE  /\ l \in Nodes(net) /\ OnceOf(l) \in Onces(net) /\ OnceOf(l) \in Steady(net)
         /\ OnceOf(l) \in 1 .. l - 1
<1>1. /\ l \in Nodes(net) /\ net.kind[l] = "listen"
      /\ net.kind[OnceOf(l)] = "once" /\ OnceOf(l) \in Steady(net)
  BY DEF Ears, Listeners, OfKind
<1>2. l \notin Sinks(net)
  BY <1>1 DEF Sinks, OfKind
<1>3. /\ OnceOf(l) \in Inputs(net, l)
      /\ Inputs(net, l) \subseteq 1 .. l - 1 /\ Inputs(net, l) \subseteq Nodes(net)
  BY <1>1, <1>2, NetworkNodes DEF OnceOf
<1> QED BY <1>1, <1>3 DEF Onces, OfKind

(* A removal among some is one among more.                                 *)
LEMMA RemoveMore ==
  ASSUME NEW K, NEW L, K \subseteq L, NEW o, Remove(K, o)
  PROVE  Remove(L, o)
BY DEF Remove

(* The parts that do not speak of calls, while a transaction is            *)
(* propagated: the call on top goes on or returns.                         *)
LEMMA PartsGo ==
  ASSUME StackInv, TypeInv, OnceInv, NetworkOK(net), stack # <<>>, net' = net, built' = built,
         log' = log,
         Active(stack), Active(stack'), Nested' <=> Nested,
         Left(Frames(stack'), "post") = Left(Frames(stack), "post"),
         Entries(post) \subseteq Entries(post'),
         \A o \in Onces(net) : dependencies'[o] = dependencies[o],
         \A o \in Onces(net) :
           firing'[o] = firing[o] \/ (Remove(Entries(post'), o) /\ dependencies[o] # <<>>)
  PROVE  FiringPosts' /\ LoggedCut' /\ LoggedPosts' /\ stack' # <<>>
<1>0. /\ Ears' = Ears /\ Onces(net') = Onces(net) /\ \A l \in Ears : OnceOf(l)' = OnceOf(l)
      /\ \A l \in Ears : Logged(l)' <=> Logged(l)
  BY DEF Ears, OnceOf, Logged
<1>1. \A l \in Ears : OnceOf(l) \in Onces(net)
  BY EarNodes
<1>2. FiringPosts'
  <2> SUFFICES ASSUME ~Nested, NEW o \in Onces(net), firing'[o] # NoEvent
               PROVE  Remove(Entries(post'), o) /\ dependencies'[o] # <<>>
    BY <1>0 DEF FiringPosts
  <2>1. CASE firing'[o] = firing[o]
    <3>1. Remove(Entries(post), o) /\ dependencies[o] # <<>>
      BY <2>1 DEF OnceInv, FiringPosts
    <3> QED BY <3>1, RemoveMore
  <2>2. CASE Remove(Entries(post'), o) /\ dependencies[o] # <<>>
    BY <2>2
  <2> QED BY <2>1, <2>2
<1>3. LoggedCut'
  <2> SUFFICES ASSUME ~Nested, NEW l \in Ears, Logged(l)
               PROVE  dependencies'[OnceOf(l)] = <<>>
    BY <1>0 DEF LoggedCut
  <2> QED BY <1>1 DEF OnceInv, LoggedCut
<1>4. LoggedPosts'
  <2> SUFFICES ASSUME NEW l \in Ears, Logged(l)
               PROVE  /\ OnceOf(l) \in 1 .. built
                      /\ dependencies'[OnceOf(l)] = <<>> \/ Removing(OnceOf(l))'
    BY <1>0 DEF LoggedPosts
  <2>1. OnceOf(l) \in 1 .. built /\ (dependencies[OnceOf(l)] = <<>> \/ Removing(OnceOf(l)))
    BY DEF OnceInv, LoggedPosts
  <2>2. Removing(OnceOf(l)) => Removing(OnceOf(l))'
    <3>1. Removing(OnceOf(l)) => Remove(Entries(post') \cup Left(Frames(stack'), "post"), OnceOf(l))
      BY RemoveMore DEF Removing
    <3>2. OnceOf(l)' = OnceOf(l)
      BY <1>0
    <3> QED BY <3>1, <3>2 DEF Removing
  <2> QED BY <1>1, <2>1, <2>2
<1> QED BY <1>2, <1>3, <1>4 DEF Active

(* What is left to post, while a transaction is propagated.                *)
LEMMA PostFrames ==
  ASSUME StackInv, stack # <<>>, NEW f, Goes(f) \/ stack' = SetTop(f), f.pc # "post",
         Top.pc # "post"
  PROVE  /\ Nested' <=> Nested
         /\ Left(Frames(stack'), "post") = Left(Frames(stack), "post")
<1>1. /\ Frames(stack) = Frames(Below) \cup {Top} /\ Frames(Below) \subseteq Frames(stack')
      /\ \A g \in Frames(stack') : \/ g \in Frames(Below) \/ g = f
                                   \/ \E n \in 1 .. built : \E r, l : g = Update("dependencies", n, r, l)
  BY FramesGo
<1>2. \A n, r, l : Update("dependencies", n, r, l).pc # "post"
  BY DEF Update
<1>3. {g \in Frames(stack) : g.pc = "post"} = {g \in Frames(Below) : g.pc = "post"}
  BY <1>1
<1>4. {g \in Frames(stack') : g.pc = "post"} = {g \in Frames(Below) : g.pc = "post"}
  BY <1>1, <1>2
<1>5. Left(Frames(stack'), "post") = Left(Frames(stack), "post")
  BY <1>3, <1>4 DEF Left
<1>6. Nested' <=> Nested
  BY <1>1, <1>2 DEF Nested, Posts
<1> QED BY <1>5, <1>6

(* No listener is called.                                                  *)
LEMMA HeardGo ==
  ASSUME OnceInv, net' = net, heard' = heard, log' = log,
         Entries(post) \subseteq Entries(post'),
         \A l \in Ears : visited[l] => visited'[l],
         \A g \in Frames(stack') : g.op = "update" /\ g.pc = "dependencies" =>
           \/ ~visited[g.node]
           \/ \E h \in Frames(stack) : h.op = "update" /\ h.pc = "dependencies" /\ h.node = g.node
  PROVE  CallsApart' /\ HeardOver'
<1>0. /\ Ears' = Ears /\ \A l \in Ears : OnceOf(l)' = OnceOf(l)
      /\ \A l \in Ears : (Logged(l)' <=> Logged(l)) /\ (HeardNow(l)' <=> HeardNow(l))
  BY DEF Ears, OnceOf, Logged, HeardNow
<1>1. CallsApart'
  <2>1. CallsApart
    BY DEF OnceInv
  <2> HIDE DEF Logged, HeardNow, AtMost, Ears
  <2> QED BY <1>0, <2>1 DEF CallsApart
<1>2. HeardOver'
  <2> SUFFICES ASSUME NEW l \in Ears, HeardNow(l)
               PROVE  /\ visited'[l] /\ Remove(Entries(post'), OnceOf(l))
                      /\ \A f \in Frames(stack') :
                           f.op = "update" /\ f.node = l => f.pc # "dependencies"
    BY <1>0 DEF HeardOver
  <2>1. /\ visited[l] /\ Remove(Entries(post), OnceOf(l))
        /\ \A f \in Frames(stack) : f.op = "update" /\ f.node = l => f.pc # "dependencies"
    BY DEF OnceInv, HeardOver
  <2> QED BY <2>1, RemoveMore
<1> QED BY <1>1, <1>2

(* ... since the call on top goes on, and may call update_node.            *)
LEMMA HeardStep ==
  ASSUME StackInv, OnceInv, TypeInv, NetworkOK(net), stack # <<>>, net' = net, heard' = heard,
         log' = log,
         Entries(post) \subseteq Entries(post'), 1 .. built \subseteq Nodes(net),
         NEW f, Kept(f), Goes(f) \/ (stack' = SetTop(f) /\ visited' = visited),
         f.pc = "dependencies" => Top.pc = "dependencies"
  PROVE  CallsApart' /\ HeardOver'
<1>1. /\ Frames(stack) = Frames(Below) \cup {Top}
      /\ \A g \in Frames(stack') :
           \/ g \in Frames(Below) \/ g = f
           \/ \E n \in 1 .. built : \E r, l : g = Update("dependencies", n, r, l) /\ ~visited[n]
  BY FramesGo
<1>2. \A l \in Ears : visited[l] => visited'[l]
  <2> TAKE l \in Ears
  <2>1. l \in Nodes(net) /\ visited \in [Nodes(net) -> BOOLEAN]
    BY EarNodes DEF TypeInv
  <2> QED BY <2>1 DEF Goes
<1>3. \A n, r, l : Update("dependencies", n, r, l).node = n
  BY DEF Update
<1>4. \A g \in Frames(stack') : g.op = "update" /\ g.pc = "dependencies" =>
           \/ ~visited[g.node]
           \/ \E h \in Frames(stack) : h.op = "update" /\ h.pc = "dependencies" /\ h.node = g.node
  BY <1>1, <1>3 DEF Kept
<1> QED BY <1>2, <1>4, HeardGo

(* A listener is called.                                                   *)
LEMMA CallOne ==
  ASSUME NEW h, IsList(h), NEW n, NEW a, NEW l
  PROVE  LET g == Append(h, <<n, a>>) IN
         /\ n # l => CallsIn(g, l) = CallsIn(h, l) /\ (AtMost(h, l) => AtMost(g, l))
         /\ n = l /\ CallsIn(h, l) = {} => AtMost(g, l)
<1> DEFINE e == <<n, a>>
           g == Append(h, e)
<1>1. e[1] = n
  OBVIOUS
<1> HIDE DEF e
<1>2. Len(h) \in Nat /\ DOMAIN h = 1 .. Len(h) /\ DOMAIN g = 1 .. Len(h) + 1
      /\ g[Len(h) + 1] = e /\ \A k \in 1 .. Len(h) : g[k] = h[k]
  BY DEF IsList
<1> HIDE DEF g
<1>3. \A k \in DOMAIN g : k = Len(h) + 1 \/ k \in DOMAIN h
  BY <1>2
<1>4. ASSUME n # l PROVE CallsIn(g, l) = CallsIn(h, l)
  BY <1>1, <1>2, <1>3, <1>4 DEF CallsIn
<1>5. ASSUME n = l, CallsIn(h, l) = {} PROVE AtMost(g, l)
  BY <1>1, <1>2, <1>3, <1>5 DEF CallsIn, AtMost
<1> QED BY <1>4, <1>5 DEF AtMost, e, g

(* Its once fires, for the first time, and is not heard by it twice.       *)
LEMMA ListenGo ==
  ASSUME StackInv, CleanInv, TypeInv, CallsInv, NestedInv, OnceInv, Active(stack), stack # <<>>,
         UNCHANGED <<net, built>>, NEW n, NEW f, Running(n, f), net.kind[n] = "listen",
         firing[net.in[n][1]] # NoEvent, heard' = Append(heard, <<n, firing[net.in[n][1]]>>),
         Entries(post) \subseteq Entries(post')
  PROVE  CallsApart' /\ HeardOver'
<1> DEFINE a == firing[net.in[n][1]]
<1>0. /\ Ears' = Ears /\ (\A l \in Ears : OnceOf(l)' = OnceOf(l)) /\ log' = log /\ visited' = visited
      /\ (\A l \in Ears : Logged(l)' <=> Logged(l)) /\ NetworkOK(net) /\ IsList(heard)
      /\ IsList(log)
  BY TypedNet DEF Ears, OnceOf, Logged, Running, NestedInv, OnceInv, CallsApart
<1>1. /\ Top.op = "update" /\ Top.pc = "dependencies" /\ n = Top.node /\ f.pc = "dependents"
      /\ Kept(f) /\ stack' = SetTop(f)
  <2>1. CASE Top.op = "eot" /\ Top.pc = "pre_eot"
    <3>1. FirstList(net, built, Top.list)
      BY <2>1, TypedTop DEF FrameTyped
    <3> QED BY <2>1, <3>1 DEF Running, FirstList, FirstStep
  <2> QED BY <2>1 DEF Running
<1>2. Top \in Frames(stack) /\ visited[n]
  BY <1>1, TopFrames DEF StackInv, CallsInv, CallOK
<1>3. \A l \in Ears : l = n => ~HeardNow(l) /\ ~Logged(l) /\ Remove(Entries(post), OnceOf(l))
  <2> SUFFICES ASSUME NEW l \in Ears, l = n
               PROVE  ~HeardNow(l) /\ ~Logged(l) /\ Remove(Entries(post), OnceOf(l))
    OBVIOUS
  <2>1. OnceOf(l) \in Onces(net) /\ OnceOf(l) \in Steady(net)
    BY <1>0, EarNodes
  <2>2. firing[OnceOf(l)] # NoEvent
    BY DEF OnceOf
  <2>3. ~Nested
    BY <2>1, <2>2 DEF NestedInv
  <2>4. Remove(Entries(post), OnceOf(l)) /\ dependencies[OnceOf(l)] # <<>>
    BY <2>1, <2>2, <2>3 DEF OnceInv, FiringPosts
  <2>5. ~Logged(l)
    BY <2>3, <2>4 DEF OnceInv, LoggedCut
  <2>6. ~HeardNow(l)
    BY <1>1, <1>2 DEF OnceInv, HeardOver
  <2> QED BY <2>4, <2>5, <2>6
<1> HIDE DEF a
<1>4. \A l : l # n => /\ HeardNow(l)' <=> HeardNow(l)
                      /\ AtMost(heard, l) => AtMost(heard', l)
  BY <1>0, CallOne DEF HeardNow
<1>5. \A l : l = n /\ ~HeardNow(l) => AtMost(heard', l)
  BY <1>0, CallOne DEF HeardNow
<1>6. CallsApart'
  <2>1. CallsApart
    BY DEF OnceInv
  <2>2. \A l \in Ears : AtMost(heard', l) /\ (Logged(l) => ~HeardNow(l)')
    <3> HIDE DEF AtMost, HeardNow, Logged
    <3> QED BY <1>3, <1>4, <1>5, <2>1 DEF CallsApart
  <2> HIDE DEF AtMost, HeardNow, Logged, Ears
  <2> QED BY <1>0, <2>1, <2>2 DEF CallsApart
<1>7. HeardOver'
  <2> SUFFICES ASSUME NEW l \in Ears, HeardNow(l)'
               PROVE  /\ visited'[l] /\ Remove(Entries(post'), OnceOf(l))
                      /\ \A g \in Frames(stack') :
                           g.op = "update" /\ g.node = l => g.pc # "dependencies"
    BY <1>0 DEF HeardOver
  <2>1. Frames(stack) = Frames(Below) \cup {Top} /\ Frames(stack') = Frames(Below) \cup {f}
    BY <1>1, TopFrames DEF StackInv
  <2>2. CASE l = n
    <3>1. \A g \in Frames(Below) : g.op = "update" => g.node # n
      <4>1. /\ stack \in Seq(Frames(stack)) /\ Single(stack)
            /\ Below = Lower(stack) /\ Top = stack[Len(stack)]
        BY DEF StackInv, Shape, CallsInv, Below, Lower, Top
      <4> QED BY <1>1, <4>1, SinglePop
    <3>2. Remove(Entries(post'), OnceOf(l))
      BY <1>3, <2>2, RemoveMore
    <3> QED BY <1>0, <1>1, <1>2, <2>1, <2>2, <3>1, <3>2
  <2>3. CASE l # n
    <3>1. /\ visited[l] /\ Remove(Entries(post), OnceOf(l))
          /\ \A g \in Frames(stack) : g.op = "update" /\ g.node = l => g.pc # "dependencies"
      BY <1>4, <2>3 DEF OnceInv, HeardOver
    <3> QED BY <1>0, <1>1, <2>1, <3>1, RemoveMore
  <2> QED BY <2>2, <2>3
<1> QED BY <1>6, <1>7

(* The steps of a propagation.                                             *)
LEMMA ActiveOnce ==
  ASSUME StackInv, CleanInv, TypeInv, CallsInv, FirstInv, NestedInv, OnceInv,
         stack # <<>>, UNCHANGED <<net, built>>, Active(stack), Active(stack'),
         \/ (\E f : Walking(f)) \/ (\E n, f : Running(n, f)) \/ (\E k, f : Connecting(k, f))
         \/ (\E n, s, f : Switching(n, s, f)) \/ (Returning /\ TopIs("update", "dependents"))
  PROVE  OnceInv'
<1>0. /\ 1 .. built \subseteq Nodes(net) /\ NetworkOK(net) /\ DOMAIN firing = Nodes(net)
      /\ net' = net /\ built' = built
  BY TypedNet DEF TypeInv, StateTypes
<1>1. ASSUME NEW f, Walking(f) PROVE OnceInv'
  <2>1. /\ Kept(f) /\ Goes(f) /\ f.pc # "post" /\ Top.pc # "post"
        /\ f.pc = "dependencies" => Top.pc = "dependencies"
        /\ UNCHANGED <<dependencies, firing, post, heard, log>>
    BY <1>1 DEF Walking, edges
  <2>2. /\ Nested' <=> Nested
        /\ Left(Frames(stack'), "post") = Left(Frames(stack), "post")
    BY <2>1, PostFrames
  <2>3. FiringPosts' /\ LoggedCut' /\ LoggedPosts'
    BY <1>0, <2>1, <2>2, PartsGo
  <2>4. CallsApart' /\ HeardOver'
    BY <1>0, <2>1, HeardStep
  <2> QED BY <2>3, <2>4 DEF OnceInv
<1>2. ASSUME NEW n, NEW f, Running(n, f) PROVE OnceInv'
  <2>1. /\ Kept(f) /\ stack' = SetTop(f) /\ f.pc # "post" /\ f.pc # "dependencies" /\ Top.pc # "post"
        /\ visited' = visited /\ n \in 1 .. built /\ RunClosure(n)
        /\ UNCHANGED <<dependencies, log>>
    BY <1>2 DEF Running, edges
  <2>2. /\ Nested' <=> Nested
        /\ Left(Frames(stack'), "post") = Left(Frames(stack), "post")
    BY <2>1, PostFrames
  <2>3. /\ Entries(post) \subseteq Entries(post')
        /\ \A o \in Onces(net) : firing'[o] = firing[o] \/ (o = n /\ Remove(Entries(post'), o))
    BY <2>1, ClosurePosts
  <2>4. n \in Onces(net) => dependencies[n] # <<>>
    <3> SUFFICES ASSUME net.kind[n] = "once" PROVE dependencies[n] # <<>>
      BY DEF Onces, OfKind
    <3>1. CASE Top.op = "update" /\ Top.pc = "dependencies" /\ n = Top.node /\ Top.reads # <<>>
      <4>1. CallOK(Top)
        BY TopFrames DEF StackInv, CallsInv
      <4> QED BY <3>1, <4>1 DEF CallOK
    <3>2. CASE /\ Top.op = "eot" /\ Top.pc = "pre_eot"
               /\ \E k \in Entries(Top.list) : k.op = "update" /\ k.node = n
      <4>1. Entries(Top.list) \subseteq FirstLeft
        BY <3>2, LeftTop DEF FirstLeft
      <4> QED BY <3>2, <4>1 DEF FirstInv
    <3> QED BY <1>2, <3>1, <3>2 DEF Running
  <2>5. FiringPosts' /\ LoggedCut' /\ LoggedPosts'
    BY <1>0, <2>1, <2>2, <2>3, <2>4, PartsGo
  <2>6. CASE heard' = heard
    <3>1. CallsApart' /\ HeardOver'
      BY <1>0, <2>1, <2>3, <2>6, HeardStep
    <3> QED BY <2>5, <3>1 DEF OnceInv
  <2>7. CASE /\ net.kind[n] = "listen" /\ firing[net.in[n][1]] # NoEvent
             /\ heard' = Append(heard, <<n, firing[net.in[n][1]]>>)
    <3>1. CallsApart' /\ HeardOver'
      BY <1>0, <1>2, <2>3, <2>7, ListenGo
    <3> QED BY <2>5, <3>1 DEF OnceInv
  <2> QED BY <2>1, <2>6, <2>7, ClosureHeard
<1>3. ASSUME NEW f, Kept(f), stack' = SetTop(f), f.pc # "post", f.pc # "dependencies",
             Top.pc # "post",
             UNCHANGED <<visited, post, heard, log>>,
             \A o \in Onces(net) : dependencies'[o] = dependencies[o] /\ firing'[o] = firing[o]
      PROVE  OnceInv'
  <2>1. /\ Nested' <=> Nested
        /\ Left(Frames(stack'), "post") = Left(Frames(stack), "post")
    BY <1>3, PostFrames
  <2>2. FiringPosts' /\ LoggedCut' /\ LoggedPosts'
    BY <1>0, <1>3, <2>1, PartsGo
  <2>3. CallsApart' /\ HeardOver'
    BY <1>0, <1>3, HeardStep
  <2> QED BY <2>2, <2>3 DEF OnceInv
<1>4. ASSUME NEW k, NEW f, Connecting(k, f) PROVE OnceInv'
  <2>1. net.kind[k.node] \in {"switch", "switchC"} /\ Connect(k.node)
    BY <1>4 DEF Connecting, FirstStep
  <2>2. \A o \in Onces(net) : dependencies'[o] = dependencies[o]
    BY <2>1, OncesKept
  <2> QED BY <1>3, <1>4, <2>2 DEF Connecting
<1>5. ASSUME NEW n, NEW s, NEW f, Switching(n, s, f) PROVE OnceInv'
  <2>1. net.kind[n] = "switchC" /\ Rewire(n, s) /\ \E a : firing' = [firing EXCEPT ![n] = a]
    BY <1>5 DEF Switching
  <2>2. \A o \in Onces(net) : dependencies'[o] = dependencies[o]
    BY <2>1, OncesKept
  <2>3. \A o \in Onces(net) : firing'[o] = firing[o]
    BY <1>0, <2>1 DEF Onces, OfKind
  <2> QED BY <1>3, <1>5, <2>2, <2>3 DEF Switching
<1>6. ASSUME Returning, TopIs("update", "dependents")
      PROVE  OnceInv'
  <2>1. /\ stack' = Below /\ UNCHANGED <<dependencies, visited, firing, post, heard, log>>
        /\ Top.pc # "post"
    BY <1>6 DEF Returning, edges, TopIs
  <2>2. Frames(stack) = Frames(Below) \cup {Top}
    BY TopFrames DEF StackInv
  <2>3. Nested' <=> Nested
    BY <2>1, <2>2 DEF Nested, Posts
  <2>4. {g \in Frames(stack) : g.pc = "post"} = {g \in Frames(stack') : g.pc = "post"}
    BY <2>1, <2>2
  <2>5. Left(Frames(stack'), "post") = Left(Frames(stack), "post")
    BY <2>4 DEF Left
  <2>6. FiringPosts' /\ LoggedCut' /\ LoggedPosts'
    BY <1>0, <2>1, <2>3, <2>5, PartsGo
  <2>7. CallsApart' /\ HeardOver'
    BY <1>0, <2>1, <2>2, HeardGo
  <2> QED BY <2>6, <2>7 DEF OnceInv
<1> QED BY <1>1, <1>2, <1>4, <1>5, <1>6

(* Without calls in the transaction in progress.                           *)
LEMMA QuietHeard ==
  ASSUME heard' = <<>>
  PROVE  /\ \A l : ~HeardNow(l)' /\ AtMost(heard', l)
         /\ HeardOver'
<1>1. \A l : CallsIn(<<>>, l) = {}
  BY DEF CallsIn
<1> QED BY <1>1 DEF HeardNow, AtMost, HeardOver

(* The nodes made before keep their dependencies.                          *)
LEMMA BuildOld ==
  ASSUME CleanInv, TypeInv, Build
  PROVE  \A o \in 1 .. built : o \in 1 .. built' /\ dependencies'[o] = dependencies[o]
<1> DEFINE a == built + 1
           b == LastOf(net, a)
<1>1. b \in Nat /\ a <= b /\ built \in Nat /\ 1 .. built \subseteq Nodes(net)
  BY BuildGrows DEF CleanInv
<1>2. /\ built' = b
      /\ dependencies' = [m \in Nodes(net) |-> IF m \in a .. b THEN net.in[m] ELSE dependencies[m]]
  BY DEF Build
<1> HIDE DEF b
<1>3. \A m \in 1 .. built : m \notin a .. b /\ m \in 1 .. b
  BY <1>1
<1> QED BY <1>1, <1>2, <1>3

(* The program: no transaction is in progress, or one begins.              *)
LEMMA ProgramOnce ==
  ASSUME CleanInv, TypeInv, QueueInv, OnceInv, Idling \/ Leaving \/ Build
  PROVE  OnceInv'
<1>0. /\ 1 .. built \subseteq Nodes(net) /\ NetworkOK(net) /\ stack = <<>> /\ net' = net /\ log' = log
      /\ heard = <<>> /\ heard' = <<>> /\ built \in Nat /\ IsList(post)
  BY TypedNet DEF Idling, Leaving, Build, outcome, QueueInv, Active, TypeInv, QueuesTyped, PostList
<1>1. /\ Ears' = Ears /\ Onces(net') = Onces(net) /\ \A l \in Ears : OnceOf(l)' = OnceOf(l)
      /\ \A l \in Ears : Logged(l)' <=> Logged(l)
  BY <1>0 DEF Ears, OnceOf, Logged
<1>2. HeardOver' /\ \A l : ~HeardNow(l)' /\ AtMost(heard', l)
  BY <1>0, QuietHeard
<1>3. CallsApart'
  <2>1. CallsApart
    BY DEF OnceInv
  <2> HIDE DEF Logged, HeardNow, AtMost, Ears
  <2> QED BY <1>0, <1>1, <1>2, <2>1 DEF CallsApart
<1>4. ~Nested /\ Left(Frames(stack), "post") = {}
  BY <1>0 DEF Nested, Posts, Frames, Left
<1>5. \A o \in 1 .. built : o \in 1 .. built' /\ dependencies'[o] = dependencies[o]
  <2>1. CASE Idling \/ Leaving
    BY <2>1 DEF Idling, Leaving, edges
  <2>2. CASE Build
    BY <2>2, BuildOld
  <2> QED BY <2>1, <2>2
<1>6. Entries(post) \subseteq Entries(post')
  <2>1. post' = post \/ \E x : post' = Append(post, x)
    BY DEF Idling, Leaving, Build
  <2>2. \A x : Entries(Append(post, x)) = Entries(post) \cup {x}
    BY <1>0, ListAppend
  <2> QED BY <2>1, <2>2
<1>7. \A l \in Ears : Logged(l) => OnceOf(l) \in 1 .. built /\ dependencies[OnceOf(l)] = <<>>
  BY <1>0, <1>4 DEF OnceInv, LoggedCut, LoggedPosts
<1>8. LoggedCut' /\ LoggedPosts'
  BY <1>1, <1>5, <1>7 DEF LoggedCut, LoggedPosts
<1>9. FiringPosts'
  <2>1. CASE stack' = <<>>
    BY <2>1 DEF FiringPosts, Active
  <2>2. CASE Leaving
    <3>1. \A o \in Onces(net) : o \in Nodes(net) /\ o \notin Sinks(net)
      BY DEF Onces, Sinks, OfKind
    <3>2. \A o \in Onces(net) : firing'[o] = NoEvent
      BY <1>0, <2>2, <3>1 DEF QueueInv, Leaving
    <3> QED BY <1>1, <3>2 DEF FiringPosts
  <2> QED BY <2>1, <2>2 DEF Idling, Build
<1> QED BY <1>2, <1>3, <1>8, <1>9 DEF OnceInv

(* The propagation is over: what was heard goes to the log.                *)
LEMMA CloseCalls ==
  ASSUME OnceInv, net' = net, heard' = <<>>,
         log' = (IF heard = <<>> THEN log ELSE Append(log, heard))
  PROVE  /\ CallsApart'
         /\ \A l \in Ears : Logged(l)' => Logged(l) \/ HeardNow(l)
<1>0. Ears' = Ears /\ CallsApart
  BY DEF Ears, OnceOf, OnceInv
<1>1. \A l : ~HeardNow(l)' /\ AtMost(heard', l)
  BY QuietHeard
<1>2. CASE log' = log
  <2>1. \A l \in Ears : Logged(l)' <=> Logged(l)
    BY <1>2 DEF Logged
  <2> HIDE DEF Logged, HeardNow, AtMost, Ears
  <2> QED BY <1>0, <1>1, <1>2, <2>1 DEF CallsApart
<1>3. CASE log' = Append(log, heard)
  <2> DEFINE m == Len(log)
  <2>0. IsList(log)
    BY <1>0 DEF CallsApart
  <2>1. /\ m \in Nat /\ DOMAIN log = 1 .. m /\ DOMAIN log' = 1 .. m + 1
        /\ log'[m + 1] = heard /\ \A i \in 1 .. m : log'[i] = log[i]
    <3>1. log \in Seq(Entries(log) \cup {heard})
      BY <2>0, SeqMonotonic DEF IsList
    <3>2. Len(log) \in Nat /\ DOMAIN log = 1 .. Len(log)
      BY <3>1
    <3>3. /\ Len(log') = Len(log) + 1 /\ log' \in Seq(Entries(log) \cup {heard})
          /\ \A i \in 1 .. Len(log) : log'[i] = log[i]
          /\ log'[Len(log) + 1] = heard
      BY <1>3, <3>1, AppendProperties
    <3>4. DOMAIN log' = 1 .. Len(log')
      BY <3>3
    <3> QED BY <3>2, <3>3, <3>4
  <2>5. IsList(log')
    BY <1>3, <2>0, ListAppend
  <2> HIDE DEF m
  <2>2. \A i \in DOMAIN log' : (i = m + 1 /\ log'[i] = heard) \/ (i \in DOMAIN log /\ log'[i] = log[i])
    BY <2>1
  <2>3. \A l \in Ears : Logged(l)' => Logged(l) \/ HeardNow(l)
    BY <1>0, <2>2 DEF Logged, HeardNow
  <2>4. ASSUME NEW l \in Ears
        PROVE  /\ \A i \in DOMAIN log' : AtMost(log'[i], l)
               /\ \A i, j \in DOMAIN log' : i = j \/ CallsIn(log'[i], l) = {} \/ CallsIn(log'[j], l) = {}
    <3>1. /\ AtMost(heard, l) /\ (Logged(l) => ~HeardNow(l))
          /\ \A i \in DOMAIN log : AtMost(log[i], l)
          /\ \A i, j \in DOMAIN log : i = j \/ CallsIn(log[i], l) = {} \/ CallsIn(log[j], l) = {}
      BY <1>0 DEF CallsApart
    <3>2. \A i \in DOMAIN log : CallsIn(log[i], l) = {} \/ CallsIn(heard, l) = {}
      BY <3>1 DEF Logged, HeardNow
    <3> HIDE DEF AtMost, CallsIn
    <3>3. \A i \in DOMAIN log' : AtMost(log'[i], l)
      BY <2>2, <3>1
    <3>4. \A i, j \in DOMAIN log' : i = j \/ CallsIn(log'[i], l) = {} \/ CallsIn(log'[j], l) = {}
      BY <2>2, <3>1, <3>2
    <3> QED BY <3>3, <3>4
  <2> HIDE DEF Logged, HeardNow, AtMost, Ears
  <2> QED BY <1>0, <1>1, <2>5, <2>3, <2>4 DEF CallsApart
<1> QED BY <1>2, <1>3

(* The steps after the propagation.                                        *)
LEMMA EndOnce ==
  ASSUME StackInv, StackInv', CleanInv, TypeInv, QueueInv, OnceInv, stack # <<>>,
         UNCHANGED <<net, built>>,
         \/ (\E f : Closing(f)) \/ (\E f : Resetting(f)) \/ (\E f : Taking(f))
         \/ (\E k, f : Posting(k, f))
         \/ Returning /\ TopIs("eot", "post") /\ Top.list = <<>>
  PROVE  OnceInv'
<1>0. /\ 1 .. built \subseteq Nodes(net) /\ NetworkOK(net) /\ net' = net /\ built' = built
      /\ PostList(net, built, post) /\ DOMAIN dependencies = Nodes(net)
  BY TypedNet DEF TypeInv, QueuesTyped, EdgesTyped
<1>1. /\ Ears' = Ears /\ Onces(net') = Onces(net) /\ \A l \in Ears : OnceOf(l)' = OnceOf(l)
  BY <1>0 DEF Ears, OnceOf
<1>2. \A l \in Ears : OnceOf(l) \in Onces(net) /\ OnceOf(l) \in Nodes(net)
  BY <1>0, EarNodes DEF Onces, OfKind
<1>3. heard' = <<>> /\ \/ log' = log
                       \/ /\ \E f : Closing(f)
                          /\ log' = (IF heard = <<>> THEN log ELSE Append(log, heard))
  <2>1. CASE \E f : Closing(f)
    BY <2>1 DEF Closing
  <2>2. CASE \/ (\E f : Resetting(f)) \/ (\E f : Taking(f)) \/ (\E k, f : Posting(k, f))
             \/ Returning /\ TopIs("eot", "post")
    <3>1. Top.op = "eot" /\ Top.pc \in {"pre_post", "post"} /\ heard' = heard /\ log' = log
      BY <2>2 DEF Resetting, Taking, Posting, Returning, TopIs
    <3> QED BY <3>1 DEF QueueInv, Active, Propagates, Top
  <2> QED BY <2>1, <2>2
<1>4. HeardOver'
  BY <1>3, QuietHeard
<1>5. CallsApart'
  <2>1. CASE log' = log
    <3>1. \A l \in Ears : Logged(l)' <=> Logged(l)
      BY <2>1 DEF Logged
    <3>2. \A l : ~HeardNow(l)' /\ AtMost(heard', l)
      BY <1>3, QuietHeard
    <3>3. CallsApart
      BY DEF OnceInv
    <3> HIDE DEF Logged, HeardNow, AtMost, Ears
    <3> QED BY <1>1, <2>1, <3>1, <3>2, <3>3 DEF CallsApart
  <2>2. CASE log' = (IF heard = <<>> THEN log ELSE Append(log, heard))
    BY <1>0, <1>3, <2>2, CloseCalls
  <2> QED BY <1>3, <2>1, <2>2
<1>6. ASSUME log' = log
      PROVE  \A l \in Ears : Logged(l)' <=> Logged(l)
  BY <1>6 DEF Logged
<1>7. ASSUME NEW l \in Ears, Logged(l)
      PROVE  /\ OnceOf(l) \in 1 .. built
             /\ dependencies[OnceOf(l)] = <<>> \/ Removing(OnceOf(l))
  BY <1>7 DEF OnceInv, LoggedPosts
<1> DEFINE posts0 == Left(Frames(Below), "post")
           at(f) == IF f.pc = "post" THEN Entries(f.list) ELSE {}
<1>8. /\ Left(Frames(stack), "post") = posts0 \cup at(Top)
      /\ \A f : Left(Frames(SetTop(f)), "post") = posts0 \cup at(f)
      /\ \A f, g : Left(Frames(Append(SetTop(f), g)), "post") = posts0 \cup at(f) \cup at(g)
  BY LeftTop
<1>9. LoggedPosts'
  <2>1. ASSUME NEW f, Closing(f) PROVE LoggedPosts'
    <3>1. /\ Top.pc # "post" /\ f.pc # "post" /\ stack' = SetTop(f) /\ post' = post
          /\ dependencies' = dependencies
          /\ log' = (IF heard = <<>> THEN log ELSE Append(log, heard))
      BY <2>1 DEF Closing, TopIs, edges
    <3>2. at(Top) = {} /\ at(f) = {}
      BY <3>1
    <3> HIDE DEF at, posts0
    <3>3. Entries(post') \cup Left(Frames(stack'), "post")
            = Entries(post) \cup Left(Frames(stack), "post")
      BY <1>8, <3>1, <3>2
    <3>4. \A o : Removing(o)' <=> Removing(o)
      BY <3>3 DEF Removing
    <3> SUFFICES ASSUME NEW l \in Ears, Logged(l)'
                 PROVE  /\ OnceOf(l) \in 1 .. built
                        /\ dependencies[OnceOf(l)] = <<>> \/ Removing(OnceOf(l))'
      BY <1>0, <1>1, <3>1 DEF LoggedPosts
    <3>5. CASE Logged(l)
      BY <1>1, <1>7, <3>3, <3>5 DEF Removing
    <3>6. CASE HeardNow(l)
      <4>1. Remove(Entries(post), OnceOf(l))
        BY <3>6 DEF OnceInv, HeardOver
      <4>2. OnceOf(l) \in 1 .. built
        BY <1>0, <4>1 DEF Remove, PostList, PostStep
      <4>3. Remove(Entries(post') \cup Left(Frames(stack'), "post"), OnceOf(l))
        BY <3>1, <4>1, RemoveMore
      <4> QED BY <1>1, <4>2, <4>3 DEF Removing
    <3> QED BY <1>0, <1>3, <3>1, <3>5, <3>6, CloseCalls
  <2>2. ASSUME NEW f, Resetting(f) PROVE LoggedPosts'
    <3>1. /\ Top.pc # "post" /\ f.pc # "post" /\ stack' = SetTop(f) /\ post' = post /\ log' = log
      BY <2>2 DEF Resetting, TopIs
    <3>2. at(Top) = {} /\ at(f) = {}
      BY <3>1
    <3> HIDE DEF at, posts0
    <3>3. Entries(post') \cup Left(Frames(stack'), "post")
            = Entries(post) \cup Left(Frames(stack), "post")
      BY <1>8, <3>1, <3>2
    <3>4. \A o \in Onces(net) : dependencies'[o] = dependencies[o]
      <4>1. CASE UNCHANGED edges
        BY <4>1 DEF edges
      <4>2. ASSUME NEW n, NEW s, net.kind[n] = "switch", Rewire(n, s)
            PROVE  \A o \in Onces(net) : dependencies'[o] = dependencies[o]
        BY <4>2, OncesKept
      <4> QED BY <2>2, <4>1, <4>2 DEF Resetting
    <3> QED BY <1>0, <1>1, <1>2, <1>6, <1>7, <3>1, <3>3, <3>4 DEF LoggedPosts, Removing
  <2>3. ASSUME NEW f, Taking(f) PROVE LoggedPosts'
    <3>1. /\ Top.pc # "post" /\ f.pc = "post" /\ f.list = post /\ stack' = SetTop(f) /\ log' = log
          /\ dependencies' = dependencies
      BY <2>3 DEF Taking, TopIs, edges
    <3>2. at(Top) = {} /\ at(f) = Entries(post)
      BY <3>1
    <3> HIDE DEF at, posts0
    <3>3. Entries(post) \cup Left(Frames(stack), "post")
            \subseteq Entries(post') \cup Left(Frames(stack'), "post")
      BY <1>8, <3>1, <3>2
    <3>4. \A o : Removing(o) => Remove(Entries(post') \cup Left(Frames(stack'), "post"), o)
      BY <3>3, RemoveMore DEF Removing
    <3> QED BY <1>0, <1>1, <1>6, <1>7, <3>1, <3>4 DEF LoggedPosts, Removing
  <2>4. ASSUME NEW k, NEW f, Posting(k, f) PROVE LoggedPosts'
    <3>1. /\ Top.pc = "post" /\ f.pc = "post" /\ Entries(Top.list) = Entries(f.list) \cup {k}
          /\ stack' = SetTop(f) \/ \E g : g.pc # "post" /\ stack' = Append(SetTop(f), g)
          /\ post' = post /\ log' = log
      BY <2>4 DEF Posting, TopIs, Eot
    <3>2. at(Top) = at(f) \cup {k} /\ \A g : g.pc # "post" => at(g) = {}
      BY <3>1
    <3> HIDE DEF at, posts0
    <3>3. /\ Left(Frames(stack), "post") = Left(Frames(stack'), "post") \cup {k}
      <4>1. CASE stack' = SetTop(f)
        BY <1>8, <3>2, <4>1
      <4>2. ASSUME NEW g, g.pc # "post", stack' = Append(SetTop(f), g)
            PROVE  Left(Frames(stack), "post") = Left(Frames(stack'), "post") \cup {k}
        BY <1>8, <3>2, <4>2
      <4> QED BY <3>1, <4>1, <4>2
    <3>4. \/ dependencies' = dependencies /\ k.op # "remove"
          \/ k.op = "remove" /\ dependencies' = [dependencies EXCEPT ![k.node] = <<>>]
      BY <2>4 DEF Posting, Disconnect, edges
    <3>5. ASSUME NEW o \in Nodes(net)
          PROVE  /\ dependencies[o] = <<>> => dependencies'[o] = <<>>
                 /\ k.op = "remove" /\ k.node = o => dependencies'[o] = <<>>
      BY <1>0, <3>4
    <3>6. ASSUME NEW o \in Nodes(net), Removing(o)
          PROVE  \/ Remove(Entries(post') \cup Left(Frames(stack'), "post"), o)
                 \/ dependencies'[o] = <<>>
      BY <3>1, <3>3, <3>5, <3>6 DEF Removing, Remove
    <3> SUFFICES ASSUME NEW l \in Ears, Logged(l)
                 PROVE  /\ OnceOf(l) \in 1 .. built
                        /\ \/ dependencies'[OnceOf(l)] = <<>>
                           \/ Remove(Entries(post') \cup Left(Frames(stack'), "post"), OnceOf(l))
      BY <1>0, <1>1, <1>6, <3>1 DEF LoggedPosts, Removing
    <3> QED BY <1>2, <1>7, <3>5, <3>6
  <2>5. ASSUME Returning, TopIs("eot", "post"), Top.list = <<>> PROVE LoggedPosts'
    <3>1. stack' = Below /\ post' = post /\ log' = log /\ dependencies' = dependencies
      BY <2>5 DEF Returning, edges
    <3>2. at(Top) = {}
      BY <2>5, ListEmpty
    <3> HIDE DEF at
    <3>3. Left(Frames(stack'), "post") = Left(Frames(stack), "post")
      BY <1>8, <3>1, <3>2
    <3> QED BY <1>0, <1>1, <1>6, <1>7, <3>1, <3>3 DEF LoggedPosts, Removing
  <2> QED BY <2>1, <2>2, <2>3, <2>4, <2>5
<1>10. \/ \E f : stack' = SetTop(f) /\ f.op = "eot" /\ f.pc \in {"pre_post", "post"}
       \/ Nested'
       \/ stack' = Below /\ post' = post /\ firing' = firing /\ TopIs("eot", "post")
  <2>1. Top.op = "eot"
    BY DEF Closing, Resetting, Taking, Posting, TopIs
  <2>2. CASE (\E f : Closing(f)) \/ (\E f : Resetting(f)) \/ (\E f : Taking(f))
    BY <2>1, <2>2 DEF Closing, Resetting, Taking, Kept
  <2>3. ASSUME NEW k, NEW f, Posting(k, f)
        PROVE  Nested'
    <3>1. f.pc = "post" /\ \/ stack' = SetTop(f)
                           \/ \E g : stack' = Append(SetTop(f), g)
      BY <2>3 DEF Posting
    <3>2. f \in Frames(stack')
      <4>1. /\ f \in Frames(SetTop(f))
            /\ \A g : f \in Frames(Append(SetTop(f), g))
        BY TopFrames DEF StackInv
      <4> QED BY <3>1, <4>1
    <3> QED BY <3>1, <3>2 DEF Nested, Posts
  <2>4. CASE Returning /\ TopIs("eot", "post")
    BY <2>4 DEF Returning
  <2> QED BY <2>2, <2>3, <2>4
<1>11. CASE \E f : stack' = SetTop(f) /\ f.op = "eot" /\ f.pc \in {"pre_post", "post"}
  <2>1. stack' # <<>> /\ ~Active(stack')
    BY <1>11, TopFrames DEF StackInv, Active, Propagates
  <2> QED BY <1>4, <1>5, <1>9, <2>1 DEF OnceInv, FiringPosts, LoggedCut
<1>12. CASE Nested'
  BY <1>4, <1>5, <1>9, <1>12 DEF OnceInv, FiringPosts, LoggedCut
<1>13. CASE stack' = Below /\ post' = post /\ firing' = firing /\ TopIs("eot", "post")
  <2>1. ~Active(stack')
    <3>1. Below = Lower(stack)
      BY DEF Below, Lower
    <3> HIDE DEF Below, Lower
    <3> QED BY <1>13, <3>1, PopEot DEF StackInv, TopIs, Top
  <2>2. post' = <<>>
    BY <1>13 DEF QueueInv
  <2>3. ASSUME stack' = <<>>
        PROVE  \A l \in Ears : ~Removing(OnceOf(l))'
    <3>1. Left(Frames(stack'), "post") = {} /\ Entries(post') = {}
      BY <2>2, <2>3, ListEmpty DEF Left, Frames
    <3> QED BY <3>1 DEF Removing, Remove
  <2>4. LoggedCut'
    BY <1>1, <1>9, <2>1, <2>3 DEF LoggedCut, LoggedPosts
  <2> QED BY <1>4, <1>5, <1>9, <2>1, <2>4 DEF OnceInv, FiringPosts
<1> QED BY <1>10, <1>11, <1>12, <1>13

(* What the calls of the listeners of onces rest on is kept by every step. *)
LEMMA OnceKeeps ==
  ASSUME StackInv, StackInv', CleanInv, TypeInv, QueueInv, CallsInv, FirstInv, NestedInv, OnceInv,
         [Next]_vars
  PROVE  OnceInv'
<1>1. CASE UNCHANGED context
  <2>1. UNCHANGED <<net, built, dependencies, visited, firing, post, heard, log, stack>>
    BY <1>1 DEF context, edges, queues, flags, outcome
  <2>2. /\ Ears' = Ears /\ Nested' = Nested /\ \A l \in Ears : OnceOf(l)' = OnceOf(l)
        /\ \A o : Removing(o)' <=> Removing(o)
        /\ \A l \in Ears : (Logged(l)' <=> Logged(l)) /\ (HeardNow(l)' <=> HeardNow(l))
    BY <2>1 DEF Ears, OnceOf, Nested, Removing, Logged, HeardNow
  <2>3. FiringPosts' /\ LoggedCut' /\ LoggedPosts'
    <3>1. FiringPosts /\ LoggedCut /\ LoggedPosts
      BY DEF OnceInv
    <3> HIDE DEF Ears, Nested, Removing, Logged
    <3>2. FiringPosts'
      BY <2>1, <2>2, <3>1 DEF FiringPosts
    <3>3. LoggedCut'
      BY <2>1, <2>2, <3>1 DEF LoggedCut
    <3>4. LoggedPosts'
      <4> SUFFICES ASSUME NEW l \in Ears, Logged(l)
                   PROVE  /\ OnceOf(l) \in 1 .. built
                          /\ dependencies[OnceOf(l)] = <<>> \/ Removing(OnceOf(l))'
        BY <2>1, <2>2 DEF LoggedPosts
      <4>1. Removing(OnceOf(l))' <=> Removing(OnceOf(l))
        BY <2>1 DEF Removing, OnceOf
      <4> QED BY <3>1, <4>1 DEF LoggedPosts
    <3> QED BY <3>2, <3>3, <3>4
  <2>4. CallsApart' /\ HeardOver'
    <3>1. CallsApart /\ HeardOver
      BY DEF OnceInv
    <3> HIDE DEF Ears, Logged, HeardNow, AtMost
    <3>2. CallsApart'
      BY <2>1, <2>2, <3>1 DEF CallsApart
    <3>3. HeardOver'
      BY <2>1, <2>2, <3>1 DEF HeardOver
    <3> QED BY <3>2, <3>3
  <2> QED BY <2>3, <2>4 DEF OnceInv
<1>2. CASE Program
  BY <1>2, ProgramSteps, ProgramOnce
<1>3. CASE Engine
  BY <1>3, AllSteps, ActiveOnce, EndOnce
<1> QED BY <1>1, <1>2, <1>3, StepOf

(* A once that is out of the reach of deferred events calls its listener   *)
(* in one transaction, and once in it.                                     *)
THEOREM OnceHeard == Spec => []OnceInv
<1>1. Init => OnceInv
  <2> SUFFICES ASSUME Init PROVE OnceInv
    OBVIOUS
  <2>1. /\ stack = <<>> /\ heard = <<>> /\ log = <<>> /\ DOMAIN log = {} /\ DOMAIN heard = {}
        /\ ~Active(stack)
    BY DEF Init, Active
  <2>2. \A l : ~Logged(l) /\ ~HeardNow(l) /\ AtMost(heard, l)
    BY <2>1 DEF Logged, HeardNow, AtMost, CallsIn
  <2>3. FiringPosts /\ LoggedCut /\ LoggedPosts /\ HeardOver
    BY <2>1, <2>2 DEF FiringPosts, LoggedCut, LoggedPosts, HeardOver
  <2>4. CallsApart
    BY <2>1, <2>2, ListEmpty DEF CallsApart
  <2> QED BY <2>3, <2>4 DEF OnceInv
<1>2. StackInv /\ StackInv' /\ CleanInv /\ TypeInv /\ QueueInv /\ CallsInv /\ FirstInv /\ NestedInv
        /\ OnceInv /\ [Next]_vars => OnceInv'
  BY OnceKeeps
<1> QED BY <1>1, <1>2, StackShape, FlagsOwed, NodesMade, QueuesEmpty, CallsSingle, FirstStepsLeft,
           NestedQuiet, PTL DEF Spec

(* The networks no once of which deferred events reach.                    *)
Apart(nt) == Onces(nt) \subseteq Steady(nt)

(* One call at most, counted.                                              *)
LEMMA AtMostOne ==
  ASSUME NEW h, NEW l, AtMost(h, l)
  PROVE  /\ HeardIn(h, l) \in {0, 1}
         /\ CallsIn(h, l) = {} => HeardIn(h, l) = 0
<1>1. HeardIn(h, l) = Cardinality(CallsIn(h, l))
  BY DEF HeardIn, CallsIn
<1>2. CallsIn(h, l) = {} \/ \E k : CallsIn(h, l) = {k}
  <2> HIDE DEF CallsIn
  <2> QED BY DEF AtMost
<1> HIDE DEF CallsIn, HeardIn
<1> QED BY <1>1, <1>2, FS_EmptySet, FS_Singleton

(* Of the transactions so far, the one in progress last, one at most calls *)
(* the listener, and once.                                                 *)
LEMMA CallsCounted ==
  ASSUME OnceInv, NEW l \in Ears, NEW i \in DOMAIN Append(log, heard),
         NEW j \in DOMAIN Append(log, heard)
  PROVE  LET all == Append(log, heard) IN
         /\ AtMost(all[i], l)
         /\ i = j \/ CallsIn(all[i], l) = {} \/ CallsIn(all[j], l) = {}
<1> DEFINE all == Append(log, heard)
<1>1. /\ IsList(log) /\ AtMost(heard, l) /\ (Logged(l) => ~HeardNow(l))
      /\ \A a \in DOMAIN log : AtMost(log[a], l)
      /\ \A a, b \in DOMAIN log : a = b \/ CallsIn(log[a], l) = {} \/ CallsIn(log[b], l) = {}
  BY DEF OnceInv, CallsApart
<1>2. \A a \in DOMAIN all : \/ a = Len(log) + 1 /\ all[a] = heard
                            \/ a \in DOMAIN log /\ all[a] = log[a]
  <2>1. log \in Seq(Entries(log) \cup {heard})
    BY <1>1, SeqMonotonic DEF IsList
  <2>2. Len(log) \in Nat /\ DOMAIN log = 1 .. Len(log)
    BY <2>1
  <2>3. /\ Len(all) = Len(log) + 1 /\ all \in Seq(Entries(log) \cup {heard})
        /\ \A a \in 1 .. Len(log) : all[a] = log[a]
        /\ all[Len(log) + 1] = heard
    BY <2>1, AppendProperties
  <2>4. DOMAIN all = 1 .. Len(all)
    BY <2>3
  <2> HIDE DEF all
  <2> QED BY <2>2, <2>3, <2>4
<1>3. \A a \in DOMAIN log : CallsIn(log[a], l) = {} \/ CallsIn(heard, l) = {}
  BY <1>1 DEF Logged, HeardNow
<1> HIDE DEF all, AtMost, CallsIn
<1>4. AtMost(all[i], l)
  BY <1>1, <1>2 DEF all
<1>5. i = j \/ CallsIn(all[i], l) = {} \/ CallsIn(all[j], l) = {}
  BY <1>1, <1>2, <1>3 DEF all
<1> QED BY <1>4, <1>5 DEF all

(* A once outputs only one value: in every such network, whatever the      *)
(* program does.                                                           *)
THEOREM OnceOnlyApart == Spec => [](Apart(net) => OnceOnly)
<1>1. StackInv /\ CleanInv /\ TypeInv /\ OnceInv => (Apart(net) => OnceOnly)
  <2> SUFFICES ASSUME StackInv, CleanInv, TypeInv, OnceInv, Apart(net),
                      NEW l \in Listeners(net), net.kind[net.in[l][1]] = "once",
                      NEW i \in DOMAIN Append(log, heard), NEW j \in DOMAIN Append(log, heard)
               PROVE  HeardIn(Append(log, heard)[i], l)
                        + (IF i = j THEN 0 ELSE HeardIn(Append(log, heard)[j], l)) <= 1
    BY DEF OnceOnly
  <2>1. l \in Ears
    <3>1. l \in Nodes(net) \ Sinks(net)
      BY DEF Listeners, Sinks, OfKind
    <3>2. OnceOf(l) \in Nodes(net)
      BY <3>1, TypedNet, NetworkNodes DEF OnceOf
    <3> QED BY <3>2 DEF Apart, Onces, OfKind, Ears, OnceOf
  <2> PICK all : all = Append(log, heard)
    OBVIOUS
  <2>2. /\ AtMost(all[i], l) /\ AtMost(all[j], l)
        /\ i = j \/ CallsIn(all[i], l) = {} \/ CallsIn(all[j], l) = {}
    BY <2>1, CallsCounted
  <2>3. /\ HeardIn(all[i], l) \in {0, 1} /\ HeardIn(all[j], l) \in {0, 1}
        /\ CallsIn(all[i], l) = {} => HeardIn(all[i], l) = 0
        /\ CallsIn(all[j], l) = {} => HeardIn(all[j], l) = 0
    <3> HIDE DEF AtMost, CallsIn, HeardIn
    <3> QED BY <2>2, AtMostOne
  <2> HIDE DEF HeardIn, CallsIn
  <2> QED BY <2>2, <2>3
<1> QED BY <1>1, StackShape, FlagsOwed, NodesMade, OnceHeard, PTL

-----------------------------------------------------------------------------
(* The collector.  A cell that has a next value has queued the commit that *)
(* takes it, which some call of end_of_transaction has yet to run.         *)
Commits(K, c) == \E k \in K : k.op = "commit" /\ k.node = c
Awaited == Entries(post) \cup Left(Frames(stack), "post")

CommitInv == \A c \in Nodes(net) : next[c] # NoEvent => Commits(Awaited, c)

(* A closure that gives a cell its next value queues the commit.           *)
LEMMA ClosureCommits ==
  ASSUME TypeInv, NEW STATE n, RunClosure(n), NEW c \in Nodes(net), next'[c] # NoEvent
  PROVE  next[c] # NoEvent \/ Commits(Entries(post'), c)
<1>1. DOMAIN next = Nodes(net) /\ IsList(post)
  BY DEF TypeInv, StateTypes, QueuesTyped, PostList
<1>2. CASE RunHold(n)
  <2> DEFINE k == [op |-> "commit", node |-> n]
  <2>1. CASE c # n
    <3>1. \E a : next' = [next EXCEPT ![n] = a]
      BY <1>2 DEF RunHold
    <3>2. next'[c] = next[c]
      BY <1>1, <2>1, <3>1
    <3> QED BY <3>2
  <2>2. CASE c = n /\ next[n] = NoEvent
    <3>1. firing[net.in[n][1]] # NoEvent
      BY <1>1, <1>2, <2>2 DEF RunHold
    <3>2. post' = Append(post, k)
      BY <1>2, <2>2, <3>1 DEF RunHold
    <3>3. k \in Entries(post') /\ k.op = "commit" /\ k.node = n
      BY <1>1, <3>2, ListAppend
    <3> QED BY <2>2, <3>3 DEF Commits
  <2> QED BY <2>1, <2>2
<1>3. CASE next' = next
  BY <1>3
<1>4. RunHold(n) \/ next' = next
  BY DEF RunClosure, RunStream, RunListen, RunDefer, RunRouter, RunOuter, RunNothing
<1> QED BY <1>2, <1>3, <1>4

(* A step of the engine, other than those of post, gives a cell a next     *)
(* value in no other way.                                                  *)
LEMMA StepCommits ==
  ASSUME TypeInv, Engine, ~RunPost, NEW c \in Nodes(net), next'[c] # NoEvent
  PROVE  next[c] # NoEvent \/ Commits(Entries(post'), c)
<1>1. CASE RunUpdate
  <2>1. RunClosure(Top.node) \/ next' = next
    BY <1>1 DEF RunUpdate, RunNothing
  <2> QED BY <2>1, ClosureCommits
<1>2. CASE RunPreEot
  <2> DEFINE k == Head(Top.list)
  <2>1. RunClosure(k.node) \/ next' = next
    BY <1>2 DEF RunPreEot, RunNothing
  <2> QED BY <2>1, ClosureCommits
<1>3. CASE ~RunUpdate /\ ~RunPreEot
  <2>1. next' = next
    BY <1>3 DEF Engine, VisitDependency, BeginSwitch, EndSwitch, VisitDependent, EndUpdate,
       TakeChanged, UpdateChanged, RunPrePost, EndEot, cells
  <2> QED BY <2>1
<1> QED BY <1>1, <1>2, <1>3

(* No step of the engine loses a posted closure, except that which runs    *)
(* it.                                                                     *)
LEMMA StepAwaits ==
  ASSUME StackInv, StackInv', CleanInv, TypeInv, Engine, ~RunPost
  PROVE  Awaited \subseteq Awaited'
<1> DEFINE posts0 == Left(Frames(Below), "post")
           at(f) == IF f.pc = "post" THEN Entries(f.list) ELSE {}
           now == Left(Frames(stack), "post")
           then == Left(Frames(stack'), "post")
<1>0. stack # <<>>
  BY AllSteps
<1>1. /\ now = posts0 \cup at(Top)
      /\ \A f : Left(Frames(SetTop(f)), "post") = posts0 \cup at(f)
  BY <1>0, LeftTop
<1>2. ASSUME NEW f, Goes(f) \/ stack' = SetTop(f), f.pc # "post", Top.pc # "post",
             Entries(post) \subseteq Entries(post')
      PROVE  Awaited \subseteq Awaited'
  <2>1. then = now
    BY <1>0, <1>2, PostFrames
  <2> QED BY <1>2, <2>1 DEF Awaited
<1>3. ASSUME NEW f, Walking(f) PROVE Awaited \subseteq Awaited'
  BY <1>2, <1>3 DEF Walking
<1>4. ASSUME NEW n, NEW f, Running(n, f) PROVE Awaited \subseteq Awaited'
  <2>1. Entries(post) \subseteq Entries(post')
    BY <1>4, ClosurePosts DEF Running
  <2> QED BY <1>2, <1>4, <2>1 DEF Running
<1>5. ASSUME NEW k, NEW f, Connecting(k, f) PROVE Awaited \subseteq Awaited'
  BY <1>2, <1>5 DEF Connecting
<1>6. ASSUME NEW n, NEW s, NEW f, Switching(n, s, f) PROVE Awaited \subseteq Awaited'
  BY <1>2, <1>6 DEF Switching
<1>7. ASSUME NEW f, Closing(f) \/ Resetting(f) PROVE Awaited \subseteq Awaited'
  BY <1>2, <1>7 DEF Closing, Resetting, TopIs
<1>8. ASSUME NEW f, Taking(f) PROVE Awaited \subseteq Awaited'
  <2>1. Top.pc # "post" /\ f.pc = "post" /\ f.list = post /\ stack' = SetTop(f)
    BY <1>8 DEF Taking, TopIs
  <2>2. at(Top) = {} /\ at(f) = Entries(post)
    BY <2>1
  <2> HIDE DEF at, posts0
  <2>3. now = posts0 /\ then = posts0 \cup Entries(post)
    BY <1>1, <2>1, <2>2
  <2> QED BY <2>3 DEF Awaited
<1>9. ASSUME Returning, \/ TopIs("update", "dependents")
                        \/ TopIs("eot", "post") /\ Top.list = <<>>
      PROVE  Awaited \subseteq Awaited'
  <2>1. stack' = Below /\ post' = post
    BY <1>9 DEF Returning
  <2>2. at(Top) = {}
    BY <1>9, ListEmpty DEF TopIs
  <2> HIDE DEF at
  <2>3. then = now
    BY <1>1, <2>1, <2>2
  <2> QED BY <2>1, <2>3 DEF Awaited
<1>10. EndUpdate => Returning /\ TopIs("update", "dependents")
  BY ReturnStep DEF EndUpdate
<1>11. EndEot => Returning /\ TopIs("eot", "post") /\ Top.list = <<>>
  BY ReturnStep DEF EndEot
<1> HIDE DEF posts0, at, now, then
<1> QED BY <1>3, <1>4, <1>5, <1>6, <1>7, <1>8, <1>9, <1>10, <1>11, EngineSteps, SwitchStep,
           CloseStep, PrePostStep

(* post runs a closure: the cell of a commit has no next value any more.   *)
LEMMA PostCommits ==
  ASSUME StackInv, CleanInv, TypeInv, CommitInv, RunPost
  PROVE  CommitInv'
<1> DEFINE f == [Top EXCEPT !.list = Tail(@)]
           k == Head(Top.list)
           posts0 == Left(Frames(Below), "post")
           at(g) == IF g.pc = "post" THEN Entries(g.list) ELSE {}
           now == Left(Frames(stack), "post")
           then == Left(Frames(stack'), "post")
<1>0. stack # <<>> /\ TopIs("eot", "post") /\ Top.list # <<>> /\ UNCHANGED <<net, post>>
  BY DEF RunPost, TopIs
<1>1. f.pc = "post" /\ f.list = Tail(Top.list)
  BY <1>0, KeptChanged DEF TopIs
<1>2. PostList(net, built, Top.list)
  BY <1>0, TypedTop DEF FrameTyped, TopIs
<1>3. Entries(Top.list) = Entries(f.list) \cup {k}
  BY <1>0, <1>1, <1>2, HeadOf DEF PostList
<1>4. /\ now = posts0 \cup at(Top)
      /\ then = posts0 \cup at(f)
  <2>1. /\ now = posts0 \cup at(Top)
        /\ \A h : Left(Frames(SetTop(h)), "post") = posts0 \cup at(h)
        /\ \A h, g : Left(Frames(Append(SetTop(h), g)), "post") = posts0 \cup at(h) \cup at(g)
    BY <1>0, LeftTop
  <2> DEFINE p == Eot("pre_eot", preEot, k)
  <2>2. stack' = SetTop(f) \/ stack' = Append(SetTop(f), p)
    BY DEF RunPost, BeginEot
  <2>3. at(p) = {}
    BY DEF Eot
  <2> HIDE DEF at, f, k, posts0, p
  <2>4. CASE stack' = SetTop(f)
    BY <2>1, <2>4
  <2>5. CASE stack' = Append(SetTop(f), p)
    <3>1. Left(Frames(Append(SetTop(f), p)), "post") = posts0 \cup at(f) \cup at(p)
      BY <2>1
    <3> QED BY <2>1, <2>3, <2>5, <3>1
  <2> QED BY <2>2, <2>4, <2>5
<1>5. at(Top) = at(f) \cup {k}
  BY <1>0, <1>1, <1>3 DEF TopIs
<1>6. IF k.op = "commit" THEN next' = [next EXCEPT ![k.node] = NoEvent] ELSE next' = next
  BY DEF RunPost, Commit, cells
<1>7. DOMAIN next = Nodes(net)
  BY DEF TypeInv, StateTypes
<1> HIDE DEF f, k, posts0, at, now, then
<1>8. ASSUME NEW c \in Nodes(net), next'[c] # NoEvent
      PROVE  Commits(Awaited', c)
  <2>1. next[c] # NoEvent /\ ~(k.op = "commit" /\ k.node = c)
    BY <1>6, <1>7, <1>8
  <2>2. PICK j \in Awaited : j.op = "commit" /\ j.node = c
    BY <2>1 DEF CommitInv, Commits
  <2>3. Awaited' = Entries(post) \cup posts0 \cup at(f) /\ Awaited = Awaited' \cup {k}
    BY <1>0, <1>4, <1>5 DEF Awaited, now, then
  <2>4. j \in Awaited'
    BY <2>1, <2>2, <2>3
  <2> QED BY <2>2, <2>4 DEF Commits
<1> QED BY <1>0, <1>8 DEF CommitInv

(* Every step keeps it so.                                                 *)
LEMMA CommitKeeps ==
  ASSUME StackInv, StackInv', CleanInv, TypeInv, CommitInv, [Next]_vars
  PROVE  CommitInv'
<1>1. CASE UNCHANGED context
  BY <1>1 DEF context, cells, queues, CommitInv, Awaited
<1>2. CASE Program
  <2>1. stack = <<>> /\ UNCHANGED <<net, next>>
    BY <1>2 DEF Program, Enter, Leave, Post, Build, Send, cells
  <2>2. Awaited = Entries(post)
    BY <2>1 DEF Awaited, Left, Frames
  <2>3. post' = post \/ \E x : post' = Append(post, x)
    BY <1>2 DEF Program, Enter, Leave, Post, Build, Send, queues
  <2>4. IsList(post)
    BY DEF TypeInv, QueuesTyped, PostList
  <2>5. Entries(post) \subseteq Awaited'
    BY <2>3, <2>4, ListAppend DEF Awaited
  <2> QED BY <2>1, <2>2, <2>5 DEF CommitInv, Commits
<1>3. CASE Engine /\ ~RunPost
  <2>1. net' = net /\ Awaited \subseteq Awaited' /\ Entries(post') \subseteq Awaited'
    BY <1>3, EngineSteps, StepAwaits DEF Awaited
  <2>2. ASSUME NEW c \in Nodes(net), next'[c] # NoEvent
        PROVE  Commits(Awaited', c)
    <3>1. Commits(Awaited, c) \/ Commits(Entries(post'), c)
      BY <1>3, <2>2, StepCommits DEF CommitInv
    <3> QED BY <2>1, <3>1 DEF Commits
  <2> QED BY <2>1, <2>2 DEF CommitInv
<1>4. CASE RunPost
  BY <1>4, PostCommits
<1> QED BY <1>1, <1>2, <1>3, <1>4, StepOf

LEMMA CommitsAwaited == Spec => []CommitInv
<1>1. Init => CommitInv
  BY DEF Init, CommitInv
<1>2. StackInv /\ StackInv' /\ CleanInv /\ TypeInv /\ CommitInv /\ [Next]_vars => CommitInv'
  BY CommitKeeps
<1> QED BY <1>1, <1>2, StackShape, FlagsOwed, NodesMade, PTL DEF Spec

(* The end that calls the collector is the last call on the stack.         *)
LEMMA LastEnd ==
  ASSUME StackInv', gcCounter' = 0
  PROVE  stack' = <<>>
<1>1. Shape(stack') /\ Cardinality(EotsOf(stack')) = 0
  BY DEF StackInv
<1>2. EotsOf(stack') = {}
  BY <1>1, EotsFinite, FS_EmptySet
<1> SUFFICES ASSUME stack' # <<>> PROVE FALSE
  OBVIOUS
<1>3. Len(stack') \in Nat \ {0}
  BY <1>1, TopFrame
<1>4. 1 \in 1 .. Len(stack')
  BY <1>3
<1>5. stack'[1].op = "eot"
  BY <1>1, <1>4 DEF Shape, FrameOK
<1> QED BY <1>2, <1>4, <1>5 DEF EotsOf

(* end_of_transaction, allow_collect_cycles_counter: the collector runs    *)
(* between transactions, whatever they were nested in.  While it does, no  *)
(* closure waits in a queue and no call waits to go on with its own, no    *)
(* stream fires, and every cell has committed its next value: what a       *)
(* collection finds is what the program's nodes hold, and no more.         *)
THEOREM CollectorBetween == Spec => []CollectsBetween
<1>1. Init => CollectsBetween
  BY DEF Init, CollectsBetween
<1>2. /\ StackInv' /\ QueueInv /\ CommitInv /\ CommitInv' /\ PostOutside
      /\ CollectsBetween /\ [Next]_vars
      => CollectsBetween'
  <2> SUFFICES ASSUME StackInv', QueueInv, CommitInv, CommitInv', PostOutside, CollectsBetween,
                      [Next]_vars, collecting'
               PROVE  CollectsBetween'
    BY DEF CollectsBetween
  <2>1. CASE collecting' = collecting /\ (collecting => UNCHANGED context)
    BY <2>1 DEF context, flags, cells, queues, CollectsBetween
  <2>2. CASE EndEot /\ collecting' = (gcCounter' = 0)
    <3>1. stack' = <<>>
      BY <2>2, LastEnd
    <3>2. TopIs("eot", "post") /\ stack # <<>>
      BY <2>2 DEF EndEot, TopIs
    <3>3. /\ UNCHANGED <<net, depth, changedNodes, preEot, prePost, post, firing, visited, next>>
      BY <2>2 DEF EndEot, flags, cells, queues
    <3>4. /\ depth = 0 /\ changedNodes = <<>> /\ prePost = <<>>
          /\ \A n \in Nodes(net) : firing[n] = NoEvent /\ ~visited[n]
      BY <3>2 DEF PostOutside
    <3>5. preEot = <<>> /\ post = <<>>
      BY <3>2 DEF QueueInv
    <3>6. Awaited' = {}
      BY <3>1, <3>3, <3>5, ListEmpty DEF Awaited, Left, Frames
    <3>7. \A n \in Nodes(net) : next[n] = NoEvent
      BY <3>3, <3>6 DEF CommitInv, Commits
    <3> QED BY <3>1, <3>3, <3>4, <3>5, <3>7 DEF CollectsBetween
  <2> QED BY <2>1, <2>2, GateKept
<1> QED BY <1>1, <1>2, StackShape, QueuesEmpty, CommitsAwaited, PostRunsOutside, PTL DEF Spec
=============================================================================
