---------------------------- MODULE RouterProofs ----------------------------
(***************************************************************************)
(* For every set of streams, keys and handles: a router uses the heap the  *)
(* way GcNode lets a program use it, so that the collector is as safe and  *)
(* as thorough there; its table lists every stream an event can still be   *)
(* for; and a stream keeps the router it comes from alive (Tied), so that  *)
(* the event reaches it.                                                   *)
(***************************************************************************)
EXTENDS Router, GcGarbageProofs

USE GcAssumption, RouterAssumption DEF GcAssumption, RouterAssumption

(* The stream that filter_matches makes is the only one that can ever be   *)
(* sent to under its key, before it is in the table and after.             *)
Listing ==
  /\ LiveRouteListed
  /\ \A n \in Route : keyOf[n] # None => n \in created
  /\ Locked => /\ wanted \in Key /\ made \in created /\ keyOf[made] = None
               /\ \A n \in Route : keyOf[n] = wanted /\ Alive(n) => freed[n]

RouterInv == HeapInv /\ RouterTypeOK /\ Listing

(* A spare handle is one of those it is chosen from.                       *)
LEMMA SpareIn ==
  ASSUME NEW S, S # {}
  PROVE  Spare(S) \in S
<1>1. \E h \in S : Unused(h) \/ \A g \in S : ~Unused(g)
  OBVIOUS
<1> QED BY <1>1 DEF Spare

LEMMA FreshHandles ==
  /\ Fresh \in Handle \ (DepHandle \cup KeepHandle)
  /\ FreshQueue \in Handle \ (DepHandle \cup KeepHandle)
  BY SpareIn DEF Fresh, FreshQueue

-----------------------------------------------------------------------------
(* The heap of a router is a heap of GcNode *)

LEMMA ProgramOnHeap == RouterTypeOK /\ RouterProgram => [Next]_vars
<1> SUFFICES ASSUME RouterTypeOK, RouterProgram PROVE [Next]_vars
  OBVIOUS
<1>1. CASE NewRouter
  BY <1>1, FreshHandles DEF NewRouter, Next, ProgramStep
<1>2. ASSUME NEW c \in Graph, NewGraph(c) PROVE Next
  BY <1>2, FreshHandles DEF NewGraph, Next, ProgramStep
<1>3. ASSUME NEW g \in Handle, NEW c \in Graph, Attach(g, c) PROVE Next
  BY <1>3, FreshHandles DEF Attach, Next, ProgramStep
<1>4. ASSUME NEW h \in Handle, LetGo(h) PROVE Next
  BY <1>4 DEF LetGo, Next, ProgramStep
<1>5. ASSUME OpenTransaction \/ CloseTransaction PROVE UNCHANGED vars
  BY <1>5 DEF OpenTransaction, CloseTransaction
<1>6. ASSUME NEW k \in Key, NEW g \in Handle, FilterHit(k, g) PROVE Next
  <2>1. table[k] \in Node
    BY <1>6 DEF FilterHit, Alive, RouterTypeOK
  <2>2. Upgrade(table[k], Fresh)
    BY <1>6 DEF FilterHit
  <2> QED BY <2>1, <2>2, FreshHandles DEF Next, ProgramStep
<1>7. ASSUME NEW k \in Key, NEW g \in Handle, NEW n \in Route, FilterMiss(k, g, n)
      PROVE  Next
  BY <1>7, FreshHandles DEF FilterMiss, Next, ProgramStep
<1> QED BY <1>1, <1>2, <1>3, <1>4, <1>5, <1>6, <1>7 DEF RouterProgram

LEMMA FilterOnHeap ==
  ASSUME RouterTypeOK, NEW h \in Handle,
         FilterFirst(h) \/ FilterEnd(h) \/ FilterInsert(h) \/ Unqueue(h)
  PROVE  Next
<1>1. CASE FilterFirst(h)
  BY <1>1, FreshHandles DEF FilterFirst, Next, ProgramStep
<1>2. CASE FilterEnd(h)
  BY <1>2 DEF FilterEnd, Next, ProgramStep
<1>3. CASE FilterInsert(h)
  <2>1. at = "insert" /\ Clone(h, Fresh, made)
    BY <1>3 DEF FilterInsert
  <2>2. made \in Node
    BY <2>1 DEF RouterTypeOK, Locked, Filtering
  <2> QED BY <2>1, <2>2, FreshHandles DEF Next, ProgramStep
<1>4. CASE Unqueue(h)
  BY <1>4 DEF Unqueue, Next, ProgramStep
<1> QED BY <1>1, <1>2, <1>3, <1>4

LEMMA RouteOnHeap ==
  ASSUME RouterTypeOK,
         \/ RouteHit \/ RouteMiss \/ EndRouting
         \/ \E ks \in UNION {[1 .. m -> Key] : m \in 0 .. MaxKeys} : BeginRouting(ks)
  PROVE  [Next]_vars
<1>1. CASE RouteHit
  <2>1. Upgrade(table[Head(keys)], FreshQueue)
    BY <1>1 DEF RouteHit
  <2>2. Head(keys) \in Key
    BY <1>1 DEF RouteHit, RouterTypeOK
  <2>3. table[Head(keys)] \in Node
    BY <1>1, <2>2 DEF RouteHit, Alive, RouterTypeOK
  <2> QED BY <2>1, <2>3, FreshHandles DEF Next, ProgramStep
<1>2. CASE RouteMiss \/ EndRouting
  BY <1>2 DEF RouteMiss, EndRouting
<1>3. ASSUME NEW ks, BeginRouting(ks) PROVE UNCHANGED vars
  BY <1>3 DEF BeginRouting
<1> QED BY <1>1, <1>2, <1>3

LEMMA GoesOnOnHeap == HeapGoesOn \/ RouterFree \/ FilterCollect \/ EndTransaction => Next
<1>1. HeapGoesOn => Next
  BY DEF HeapGoesOn, Next, CollectorStep
<1>2. RouterFree => Next
  BY DEF RouterFree, Next, CollectorStep
<1>3. FilterCollect \/ EndTransaction => Next
  BY DEF FilterCollect, EndTransaction, Next, ProgramStep
<1> QED BY <1>1, <1>2, <1>3

LEMMA RouterOnHeap == RouterTypeOK /\ [RouterNext]_routerVars => [Next]_vars
<1> SUFFICES ASSUME RouterTypeOK, [RouterNext]_routerVars PROVE [Next]_vars
  OBVIOUS
<1>1. CASE RouterProgram
  BY <1>1, ProgramOnHeap
<1>2. CASE RouterLibrary
  BY <1>2, FilterOnHeap, RouteOnHeap, GoesOnOnHeap DEF RouterLibrary
<1>3. CASE UNCHANGED routerVars
  BY <1>3 DEF routerVars
<1> QED BY <1>1, <1>2, <1>3 DEF RouterNext

-----------------------------------------------------------------------------
(* What is dead stays dead *)

(* A new handle is to a new node, or to one that has a handle already.     *)
LEMMA NoRevival ==
  ASSUME HeapInv, NEW n \in Node, NEW h \in Handle, Unused(h),
         target' = [target EXCEPT ![h] = n],
         n \notin created \/ HandlesOf(n) # {}
  PROVE  \A m \in created : HandlesOf(m)' # {} => HandlesOf(m) # {}
<1>1. \A m \in Node \ {n} : HandlesOf(m)' = HandlesOf(m)
  BY HandlesAfterNew
<1> QED BY <1>1 DEF HeapInv, TypeOK

LEMMA DeadAfterProgram ==
  ASSUME HeapInv, ProgramStep
  PROVE  \A m \in created : HandlesOf(m)' # {} => HandlesOf(m) # {}
<1> DEFINE Goal == \A m \in created : HandlesOf(m)' # {} => HandlesOf(m) # {}
<1>0. UNCHANGED target => Goal
  BY DEF HandlesOf
<1> HIDE DEF Goal
<1>1. ASSUME NEW n \in Node, NEW h \in Handle, New(n, h)
      PROVE  Goal
  BY <1>1, NoRevival DEF New, Goal
<1>9. ASSUME NEW n \in Node, NEW h \in Handle, Upgrade(n, h)
      PROVE  Goal
  BY <1>9, NoRevival DEF Upgrade, IncRef, Goal
<1>2. ASSUME NEW l \in Listener, NEW h \in Handle, NEW g \in Handle,
             ListenWeak(l, h, g)
      PROVE  Goal
  BY <1>2, NoRevival DEF ListenWeak, Goal
<1>3. ASSUME NEW l \in Listener, NEW h \in Handle, NEW c \in Handle, NEW g \in Handle,
             Listen(l, h, c, g)
      PROVE  Goal
  <2>1. \A m \in Node \ {l} : HandlesOf(m)' = HandlesOf(m)
    BY <1>3 DEF HeapInv, TypeOK, HandlesOf, Listen, Unused
  <2>2. l \notin created
    BY <1>3 DEF Listen
  <2> QED BY <2>1, <2>2 DEF Goal, HeapInv, TypeOK
<1>4. ASSUME NEW l \in Listener, NEW k \in Handle, NEW g \in Handle, NEW o \in Node,
             Defer(l, k, g, o)
      PROVE  Goal
  BY <1>4, NoRevival DEF Defer, Goal
<1>5. ASSUME NEW g \in Handle, NEW h \in Handle, NEW o \in Node \cup {Program},
             Clone(g, h, o)
      PROVE  Goal
  <2>1. target[g] \in Node /\ HandlesOf(target[g]) # {}
    BY <1>5 DEF HeapInv, TypeOK, Clone, Accessible, HandlesOf
  <2> QED BY <1>5, <2>1, NoRevival DEF Clone, IncRef, Goal
<1>6. ASSUME NEW h \in Handle, Drop(h) PROVE Goal
  BY <1>6, <1>0 DEF Drop
<1>7. ASSUME NEW l \in Listener, Unlisten(l) PROVE Goal
  BY <1>7, <1>0 DEF Unlisten
<1>8. ASSUME Collect PROVE Goal
  <2>1. UNCHANGED target
    BY <1>8 DEF Collect, heap
  <2> QED BY <2>1, <1>0
<1>10. Goal
  BY <1>1, <1>2, <1>3, <1>4, <1>5, <1>6, <1>7, <1>8, <1>9 DEF ProgramStep
<1> QED BY <1>10 DEF Goal

(* A drop only ends handles.                                               *)
LEMMA DeadAfterDrop ==
  ASSUME HeapInv, NEW h \in Handle, RunDrop(h)
  PROVE  \A m \in created : HandlesOf(m)' # {} => HandlesOf(m) # {}
<1>1. PICK S : target' = [g \in Handle |-> IF g \in S THEN None ELSE target[g]]
  BY DEF RunDrop
<1>2. \A m \in created : m # None
  BY DEF HeapInv, TypeOK
<1> QED BY <1>1, <1>2 DEF HandlesOf

LEMMA CreatedStays ==
  ASSUME HeapInv, [Next]_vars
  PROVE  created \subseteq created'
<1>1. CASE ProgramStep
  BY <1>1 DEF ProgramStep, New, Upgrade, ListenWeak, Listen, Defer, Clone, Drop, Unlisten,
              Collect, heap
<1>2. CASE CollectorStep
  BY <1>2 DEF CollectorStep, MarkRoot, MarkDone, ScanRoot, ScanDone, CollectRoot, CollectDone,
              CollectLeave, CollectVisit, Free, Retain, FreeDone, Again, heap
<1>3. CASE DropStep
  BY <1>3 DEF DropStep, RunDrop
<1> QED BY <1>1, <1>2, <1>3 DEF Next, vars, heap

LEMMA FreedStays ==
  ASSUME HeapInv, [Next]_vars
  PROVE  \A n \in Node : freed[n] => freed'[n]
<1>1. CASE ProgramStep
  BY <1>1 DEF ProgramStep, New, Upgrade, ListenWeak, Listen, Defer, Clone, Drop, Unlisten,
              Collect
<1>2. CASE CollectorStep
  <2>1. CASE Free
    <3>1. freed' = [freed EXCEPT ![white[pos]] = TRUE] \/ UNCHANGED freed
      BY <2>1 DEF Free
    <3>2. freed \in [Node -> BOOLEAN]
      BY DEF HeapInv, TypeOK
    <3> QED BY <3>1, <3>2
  <2>2. CASE UNCHANGED freed
    BY <2>2
  <2>3. ASSUME ~Free PROVE UNCHANGED freed
    BY <1>2, <2>3 DEF CollectorStep, MarkRoot, MarkDone, ScanRoot, ScanDone, CollectRoot,
              CollectDone, CollectLeave, CollectVisit, Retain, FreeDone, Again
  <2> QED BY <2>1, <2>2, <2>3
<1>3. CASE DropStep
  BY <1>3 DEF DropStep, RunDrop
<1> QED BY <1>1, <1>2, <1>3 DEF Next, vars

LEMMA DeadStaysDead ==
  ASSUME HeapInv, [Next]_vars
  PROVE  \A m \in created : HandlesOf(m)' # {} => HandlesOf(m) # {}
<1>1. CASE CollectorStep
  BY <1>1, CollectorKeeps DEF HandlesOf
<1>2. CASE UNCHANGED vars
  BY <1>2 DEF vars, heap, HandlesOf
<1> QED BY <1>1, <1>2, DeadAfterProgram, DeadAfterDrop DEF Next, DropStep

-----------------------------------------------------------------------------
(* The table *)

LEMMA AliveBefore ==
  ASSUME HeapInv, [Next]_vars, NEW n \in created, Alive(n)'
  PROVE  Alive(n)
  BY DeadStaysDead DEF Alive

(* A step that gives no stream a cleanup and starts no filter_matches need *)
(* only leave the entries of the streams that can be sent to.              *)
LEMMA ListingKept ==
  ASSUME RouterInv, [Next]_vars, UNCHANGED keyOf,
         Locked' => Locked /\ UNCHANGED <<wanted, made>>,
         \A n \in Route : /\ keyOf[n] # None /\ table[keyOf[n]] = n
                          /\ Alive(n) /\ ~freed'[n]
                          => table'[keyOf[n]] = n
  PROVE  Listing'
<1>1. \A n \in Route : keyOf[n] # None => n \in created
  BY DEF RouterInv, Listing
<1>2. created \subseteq created' /\ \A n \in Node : freed[n] => freed'[n]
  BY CreatedStays, FreedStays DEF RouterInv
<1>3. \A n \in Route : keyOf[n] # None /\ Alive(n)' => Alive(n)
  BY <1>1, AliveBefore DEF RouterInv
<1>4. LiveRouteListed'
  BY <1>2, <1>3 DEF RouterInv, Listing, LiveRouteListed
<1>5. ASSUME Locked' PROVE /\ wanted' \in Key /\ made' \in created' /\ keyOf'[made'] = None
                          /\ \A n \in Route : keyOf'[n] = wanted' /\ Alive(n)' => freed'[n]
  <2>1. wanted \in Key /\ made \in created /\ keyOf[made] = None
    BY <1>5 DEF RouterInv, Listing
  <2>2. \A n \in Route : keyOf[n] = wanted /\ Alive(n) => freed[n]
    BY <1>5 DEF RouterInv, Listing
  <2>3. \A n \in Route : keyOf[n] = wanted /\ Alive(n)' => freed'[n]
    BY <1>2, <1>3, <2>1, <2>2
  <2> QED BY <1>2, <1>5, <2>1, <2>3
<1> QED BY <1>1, <1>2, <1>4, <1>5 DEF Listing

(* A miss: no stream has an entry for the key, and any that had one is     *)
(* dead or freed.                                                          *)
LEMMA ListingFilterMiss ==
  ASSUME RouterInv, [Next]_vars, NEW k \in Key, NEW g \in Handle, NEW n \in Route,
         FilterMiss(k, g, n)
  PROVE  Listing'
<1>1. /\ n \notin created /\ created' = created \cup {n} /\ UNCHANGED freed
      /\ UNCHANGED <<table, keyOf>> /\ wanted' = k /\ made' = n /\ ~Alive(table[k])
  BY DEF FilterMiss, New
<1>2. \A m \in Route : keyOf[m] # None => m \in created
  BY DEF RouterInv, Listing
<1>3. \A m \in Route : keyOf[m] # None /\ Alive(m)' => Alive(m)
  BY <1>2, AliveBefore DEF RouterInv
<1>4. \A m \in Route : keyOf[m] = k /\ Alive(m) => freed[m]
  BY <1>1 DEF RouterInv, Listing, LiveRouteListed
<1>5. LiveRouteListed'
  BY <1>1, <1>3 DEF RouterInv, Listing, LiveRouteListed
<1>6. \A m \in Route : keyOf'[m] = wanted' /\ Alive(m)' => freed'[m]
  BY <1>1, <1>3, <1>4
<1>7. keyOf'[made'] = None
  BY <1>1, <1>2
<1> QED BY <1>1, <1>2, <1>5, <1>6, <1>7 DEF Listing

LEMMA ListingFilterInsert ==
  ASSUME RouterInv, [Next]_vars, NEW g \in Handle, FilterInsert(g)
  PROVE  Listing'
<1>1. /\ at = "insert" /\ at' = "out" /\ UNCHANGED <<created, freed>>
      /\ table' = [table EXCEPT ![wanted] = made]
      /\ keyOf' = [keyOf EXCEPT ![made] = wanted]
  BY DEF FilterInsert, Clone
<1>2. Locked /\ ~Locked'
  BY <1>1 DEF Locked, Filtering
<1>3. /\ wanted \in Key /\ made \in created /\ keyOf[made] = None
      /\ \A n \in Route : keyOf[n] = wanted /\ Alive(n) => freed[n]
  BY <1>2 DEF RouterInv, Listing
<1>4. \A n \in Route : keyOf[n] # None => n \in created
  BY DEF RouterInv, Listing
<1>5. \A n \in Route : keyOf[n] # None /\ Alive(n)' => Alive(n)
  BY <1>4, AliveBefore DEF RouterInv
<1>6. made \in Route
  BY <1>2 DEF RouterInv, RouterTypeOK
<1>7. \A n \in Route \ {made} : keyOf'[n] = keyOf[n]
  BY <1>1 DEF RouterInv, RouterTypeOK
<1>8. keyOf'[made] = wanted /\ table'[wanted] = made
      /\ \A k \in Key \ {wanted} : table'[k] = table[k]
  BY <1>1, <1>3, <1>6 DEF RouterInv, RouterTypeOK
<1>9. ASSUME NEW n \in Route, keyOf'[n] # None, Alive(n)', ~freed'[n]
      PROVE  table'[keyOf'[n]] = n
  <2>1. CASE n = made
    BY <2>1, <1>8
  <2>2. CASE n # made
    <3>1. keyOf'[n] = keyOf[n] /\ Alive(n) /\ ~freed[n] /\ keyOf[n] \in Key
      BY <2>2, <1>1, <1>5, <1>7, <1>9 DEF RouterInv, RouterTypeOK
    <3>2. keyOf[n] # wanted /\ table[keyOf[n]] = n
      BY <3>1, <1>3 DEF RouterInv, Listing, LiveRouteListed
    <3> QED BY <3>1, <3>2, <1>8
  <2> QED BY <2>1, <2>2
<1>10. \A n \in Route : keyOf'[n] # None => n \in created'
  BY <1>1, <1>3, <1>4, <1>7
<1> QED BY <1>2, <1>9, <1>10 DEF Listing, LiveRouteListed

(* An entry is struck out when its stream is dead, or by that stream.      *)
LEMMA ListingRouteMiss ==
  ASSUME RouterInv, [Next]_vars, RouteMiss
  PROVE  Listing'
<1>1. /\ ~Alive(table[Head(keys)]) /\ table' = [table EXCEPT ![Head(keys)] = None]
      /\ UNCHANGED <<keyOf, at, wanted, made>>
  BY DEF RouteMiss, request
<1>2. ASSUME NEW n \in Route, keyOf[n] # None, table[keyOf[n]] = n, Alive(n)
      PROVE  table'[keyOf[n]] = n
  <2>1. keyOf[n] \in Key /\ keyOf[n] # Head(keys)
    BY <1>1, <1>2 DEF RouterInv, RouterTypeOK
  <2> QED BY <1>1, <1>2, <2>1 DEF RouterInv, RouterTypeOK
<1> QED BY <1>1, <1>2, ListingKept DEF Locked

LEMMA ListingRouterFree ==
  ASSUME RouterInv, [Next]_vars, RouterFree
  PROVE  Listing'
<1> DEFINE f == white[pos]
<1>1. UNCHANGED <<keyOf, at, wanted, made>>
  BY DEF RouterFree, request
<1>2. ASSUME NEW n \in Route, keyOf[n] # None, table[keyOf[n]] = n, ~freed'[n]
      PROVE  table'[keyOf[n]] = n
  <2>1. CASE UNCHANGED table
    BY <1>2, <2>1
  <2>2. ASSUME ~UNCHANGED table
        PROVE  ~freed[f] /\ table' = [table EXCEPT ![keyOf[f]] = IF @ = f THEN None ELSE @]
    BY <2>2 DEF RouterFree, CleanUp
  <2>3. ASSUME ~UNCHANGED table
        PROVE  f # n
    <3>1. freed' = [freed EXCEPT ![f] = TRUE]
      BY <2>2, <2>3 DEF RouterFree, Free
    <3> QED BY <1>2, <3>1 DEF RouterInv, HeapInv, TypeOK
  <2> QED BY <1>2, <2>1, <2>2, <2>3 DEF RouterInv, RouterTypeOK
<1> QED BY <1>1, <1>2, ListingKept DEF Locked

LEMMA ListingStep ==
  ASSUME RouterInv, [RouterNext]_routerVars
  PROVE  Listing'
<1>0. [Next]_vars
  BY RouterOnHeap DEF RouterInv
<1>1. ASSUME UNCHANGED <<table, keyOf, at, wanted, made>> PROVE Listing'
  BY <1>0, <1>1, ListingKept DEF Locked
<1>2. ASSUME UNCHANGED <<table, keyOf, wanted, made>>, Locked' => Locked PROVE Listing'
  BY <1>0, <1>2, ListingKept
<1>3. ASSUME NEW k \in Key, NEW g \in Handle, NEW n \in Route, FilterMiss(k, g, n)
      PROVE  Listing'
  BY <1>0, <1>3, ListingFilterMiss
<1>4. ASSUME RouterProgram, ~OpenTransaction, ~CloseTransaction,
             ~ \E k \in Key, g \in Handle, n \in Route : FilterMiss(k, g, n)
      PROVE  Listing'
  <2>1. UNCHANGED routing
    BY <1>4 DEF RouterProgram, NewRouter, NewGraph, Attach, LetGo, FilterHit
  <2> QED BY <2>1, <1>1 DEF routing, request
<1>5. ASSUME OpenTransaction PROVE Listing'
  BY <1>5, <1>2 DEF OpenTransaction, Locked, Filtering, request
<1>6. ASSUME CloseTransaction PROVE Listing'
  BY <1>6, <1>2 DEF CloseTransaction, Locked, Filtering
<1>7. ASSUME NEW h \in Handle, FilterFirst(h) \/ FilterEnd(h) PROVE Listing'
  BY <1>7, <1>2 DEF FilterFirst, FilterEnd, Locked, Filtering
<1>8. ASSUME NEW h \in Handle, FilterInsert(h) PROVE Listing'
  BY <1>0, <1>8, ListingFilterInsert
<1>9. ASSUME NEW h \in Handle, Unqueue(h) PROVE Listing'
  BY <1>9, <1>2 DEF Unqueue, Locked, Filtering, request
<1>10. ASSUME FilterCollect \/ EndTransaction PROVE Listing'
  BY <1>10, <1>2 DEF FilterCollect, EndTransaction, Locked, Filtering
<1>11. ASSUME NEW ks, BeginRouting(ks) PROVE Listing'
  BY <1>11, <1>2 DEF BeginRouting, Locked, Filtering
<1>12. ASSUME RouteHit \/ EndRouting PROVE Listing'
  BY <1>12, <1>2 DEF RouteHit, EndRouting, Locked, Filtering, request
<1>13. ASSUME RouteMiss PROVE Listing'
  BY <1>0, <1>13, ListingRouteMiss
<1>14. ASSUME RouterFree PROVE Listing'
  BY <1>0, <1>14, ListingRouterFree
<1>15. ASSUME HeapGoesOn \/ UNCHANGED routerVars PROVE Listing'
  BY <1>15, <1>1 DEF HeapGoesOn, routerVars, routing, request
<1>16. CASE RouterProgram
  BY <1>16, <1>3, <1>4, <1>5, <1>6
<1>17. CASE RouterLibrary
  BY <1>17, <1>7, <1>8, <1>9, <1>10, <1>11, <1>12, <1>13, <1>14, <1>15 DEF RouterLibrary
<1> QED BY <1>15, <1>16, <1>17 DEF RouterNext

-----------------------------------------------------------------------------
(* Types *)

LEMMA TypeFilter ==
  ASSUME RouterInv, NEW h \in Handle,
         \/ \E k \in Key, n \in Route : FilterMiss(k, h, n)
         \/ FilterFirst(h) \/ FilterEnd(h) \/ FilterInsert(h)
  PROVE  RouterTypeOK'
<1> USE DEF RouterInv, RouterTypeOK, Locked, Filtering
<1>1. ASSUME NEW k \in Key, NEW n \in Route, FilterMiss(k, h, n) PROVE RouterTypeOK'
  BY <1>1 DEF FilterMiss, Turn
<1>2. CASE FilterFirst(h)
  BY <1>2, FreshHandles DEF FilterFirst
<1>3. CASE FilterEnd(h)
  BY <1>3 DEF FilterEnd
<1>4. CASE FilterInsert(h)
  <2>1. wanted \in Key /\ made \in Route
    BY <1>4 DEF FilterInsert, Listing
  <2> QED BY <1>4, <2>1 DEF FilterInsert
<1> QED BY <1>1, <1>2, <1>3, <1>4

LEMMA TypeRoute ==
  ASSUME RouterInv,
         \/ RouteHit \/ RouteMiss \/ EndRouting
         \/ \E ks \in UNION {[1 .. m -> Key] : m \in 0 .. MaxKeys} : BeginRouting(ks)
  PROVE  RouterTypeOK'
<1> USE DEF RouterInv, RouterTypeOK, Locked, Filtering
<1>1. CASE RouteHit
  BY <1>1, FreshHandles DEF RouteHit, request
<1>2. CASE RouteMiss
  BY <1>2 DEF RouteMiss, request
<1>3. CASE EndRouting
  BY <1>3 DEF EndRouting
<1>4. ASSUME NEW m \in 0 .. MaxKeys, NEW ks \in [1 .. m -> Key], BeginRouting(ks)
      PROVE  RouterTypeOK'
  <2>1. ks \in Seq(Key) /\ Len(ks) <= MaxKeys
    OBVIOUS
  <2> QED BY <1>4, <2>1 DEF BeginRouting
<1> QED BY <1>1, <1>2, <1>3, <1>4

LEMMA TypeRest ==
  ASSUME RouterInv, [RouterNext]_routerVars,
         ~ \E k \in Key, h \in Handle, n \in Route : FilterMiss(k, h, n),
         ~ \E h \in Handle : FilterFirst(h) \/ FilterEnd(h) \/ FilterInsert(h),
         ~RouteHit, ~RouteMiss, ~EndRouting,
         ~ \E ks \in UNION {[1 .. m -> Key] : m \in 0 .. MaxKeys} : BeginRouting(ks)
  PROVE  RouterTypeOK'
<1> USE DEF RouterInv, RouterTypeOK, Locked, Filtering, request
<1>1. CASE UNCHANGED routing
  BY <1>1 DEF routing
<1>2. ASSUME RouterProgram, ~OpenTransaction, ~CloseTransaction PROVE UNCHANGED routing
  BY <1>2 DEF RouterProgram, NewRouter, NewGraph, Attach, LetGo, FilterHit
<1>3. CASE OpenTransaction
  BY <1>3 DEF OpenTransaction
<1>4. CASE CloseTransaction
  BY <1>4 DEF CloseTransaction, Turn
<1>5. ASSUME NEW h \in Handle, Unqueue(h) PROVE RouterTypeOK'
  BY <1>5 DEF Unqueue
<1>6. CASE FilterCollect
  BY <1>6 DEF FilterCollect
<1>7. CASE EndTransaction
  BY <1>7 DEF EndTransaction
<1>8. CASE RouterFree
  <2>1. CASE UNCHANGED <<table, waiting>>
    BY <1>8, <2>1 DEF RouterFree
  <2> DEFINE f == white[pos]
  <2>2. ASSUME waiting' = TRUE, UNCHANGED table PROVE RouterTypeOK'
    BY <1>8, <2>2 DEF RouterFree
  <2>3. ASSUME table' = [table EXCEPT ![keyOf[f]] = IF @ = f THEN None ELSE @],
               UNCHANGED waiting
        PROVE  RouterTypeOK'
    <3>1. table' \in [Key -> Route \cup {None}]
      BY <2>3
    <3> QED BY <1>8, <2>3, <3>1 DEF RouterFree
  <2> QED BY <1>8, <2>1, <2>2, <2>3 DEF RouterFree, CleanUp
<1>9. HeapGoesOn \/ UNCHANGED routerVars => UNCHANGED routing
  BY DEF HeapGoesOn, routerVars
<1> HIDE DEF RouterInv, RouterTypeOK, Locked, Filtering, request
<1>10. CASE RouterProgram
  BY <1>10, <1>1, <1>2, <1>3, <1>4
<1>11. CASE RouterLibrary
  BY <1>11, <1>1, <1>5, <1>6, <1>7, <1>8, <1>9 DEF RouterLibrary
<1> QED BY <1>1, <1>9, <1>10, <1>11 DEF RouterNext

LEMMA RouterInvInit == RouterInit => RouterInv
<1> SUFFICES ASSUME RouterInit PROVE RouterInv
  OBVIOUS
<1>1. HeapInv
  BY HeapInit DEF RouterInit
<1>2. RouterTypeOK
  <2>1. keys \in Seq(Key) /\ Len(keys) <= MaxKeys
    BY DEF RouterInit
  <2>2. ~Locked
    BY DEF RouterInit, Locked, Filtering
  <2> QED BY <2>1, <2>2 DEF RouterInit, RouterTypeOK
<1>3. Listing
  BY DEF RouterInit, Listing, LiveRouteListed, Locked, Filtering
<1> QED BY <1>1, <1>2, <1>3 DEF RouterInv

LEMMA RouterInvStep == RouterInv /\ [RouterNext]_routerVars => RouterInv'
<1> SUFFICES ASSUME RouterInv, [RouterNext]_routerVars PROVE RouterInv'
  OBVIOUS
<1>1. HeapInv'
  BY RouterOnHeap, HeapStep DEF RouterInv
<1>2. RouterTypeOK'
  BY TypeFilter, TypeRoute, TypeRest
<1>3. Listing'
  BY ListingStep
<1> QED BY <1>1, <1>2, <1>3 DEF RouterInv

-----------------------------------------------------------------------------
(* A stream and its router *)

(* The dependencies of n that hold the router alive.                       *)
Tie(n) == {h \in Handle : owner[h] = n /\ target[h] = router /\ h \notin dropping}

(* A stream in the table holds its router, unless the collector is about   *)
(* to free both; and the queues use their own handles only.                *)
Tied ==
  /\ queued \subseteq QueueHandle
  /\ \A n \in Route : keyOf[n] # None /\ HandlesOf(n) # {} /\ ~freed[n] =>
       Tie(n) # {} \/ (phase = "free" /\ n \in Elems(white))

EventInv == SafetyInv /\ RouterInv /\ Tied

LEMMA QueueKept ==
  ASSUME EventInv, [RouterNext]_routerVars
  PROVE  queued' \subseteq QueueHandle
<1>1. FreshQueue \in QueueHandle
  BY SpareIn DEF FreshQueue
<1>2. UNCHANGED routing => UNCHANGED queued
  BY DEF routing
<1>3. CASE RouterProgram
  BY <1>2, <1>3 DEF EventInv, Tied, RouterProgram, NewRouter, NewGraph, Attach, LetGo, OpenTransaction,
     CloseTransaction, FilterHit, FilterMiss
<1>4. CASE RouterLibrary
  BY <1>1, <1>2, <1>4 DEF EventInv, Tied, RouterLibrary, FilterFirst, FilterEnd, FilterInsert, Unqueue,
     FilterCollect, BeginRouting, RouteHit, RouteMiss, EndRouting, EndTransaction, RouterFree, HeapGoesOn
<1>5. CASE UNCHANGED routerVars
  BY <1>2, <1>5 DEF EventInv, Tied, routerVars
<1> QED BY <1>3, <1>4, <1>5 DEF RouterNext

(* A step that lets go of no dependency of a node it leaves.               *)
LEMMA TiedKept ==
  ASSUME EventInv, [Next]_vars, queued' \subseteq QueueHandle, UNCHANGED keyOf,
         phase' = "free" \/ phase # "free",
         phase = "free" => UNCHANGED white,
         \A n \in Route : \A h \in Tie(n) :
            HandlesOf(n)' # {} /\ ~freed'[n] =>
              \/ owner'[h] = n /\ target'[h] = router /\ h \notin dropping'
              \/ phase' = "free" /\ n \in Elems(white')
  PROVE  Tied'
<1> SUFFICES ASSUME NEW n \in Route, keyOf[n] # None, HandlesOf(n)' # {}, ~freed'[n]
             PROVE  Tie(n)' # {} \/ (phase' = "free" /\ n \in Elems(white)')
  BY DEF Tied
<1>0. Elems(white') = Elems(white)'
  BY DEF Elems
<1>1. n \in created /\ n \in Node
  BY DEF EventInv, RouterInv, Listing
<1>2. HandlesOf(n) # {} /\ ~freed[n]
  BY <1>1, DeadStaysDead, FreedStays DEF EventInv, RouterInv
<1>3. CASE phase = "free" /\ n \in Elems(white)
  BY <1>3 DEF Elems
<1>4. CASE Tie(n) # {}
  <2>1. PICK h \in Tie(n) : TRUE
    BY <1>4
  <2>2. h \in Handle
    BY DEF Tie
  <2> QED BY <1>0, <2>1, <2>2 DEF Tie
<1> QED BY <1>2, <1>3, <1>4 DEF EventInv, Tied

(* A step of the program that makes a handle, or lets go of one of its own.*)
LEMMA TiedProgram ==
  ASSUME EventInv, [Next]_vars, queued' \subseteq QueueHandle, UNCHANGED keyOf,
         \/ \E n \in Node, h \in Handle : New(n, h) \/ Upgrade(n, h)
         \/ \E g, h \in Handle, o \in Node \cup {Program} : Clone(g, h, o)
         \/ \E h \in Handle : owner[h] = Program /\ Drop(h)
         \/ Collect
  PROVE  Tied'
<1>0. /\ router \in Node /\ None \notin Node /\ Program \notin Node /\ Route \subseteq Node
      /\ owner \in [Handle -> Node \cup {Program, Context, None}] /\ target \in [Handle -> Node \cup {None}]
  BY DEF EventInv, SafetyInv, HeapInv, TypeOK
<1>1. phase # "free" /\ \A n : \A h \in Tie(n) : h \in Handle /\ owner[h] = n /\ target[h] = router
  BY DEF New, Upgrade, Clone, Drop, Collect, Running, Tie
<1>2. ASSUME NEW n \in Route, NEW h \in Tie(n)
      PROVE  owner'[h] = n /\ target'[h] = router /\ h \notin dropping'
  <2> DEFINE Goal == owner'[h] = n /\ target'[h] = router /\ h \notin dropping'
  <2>1. ASSUME NEW m \in Node, NEW x \in Handle, New(m, x) \/ Upgrade(m, x) PROVE Goal
    BY <1>0, <1>1, <2>1 DEF New, Upgrade, IncRef, Unused, Running, Quiet
  <2>2. ASSUME NEW g \in Handle, NEW x \in Handle, NEW o \in Node \cup {Program}, Clone(g, x, o) PROVE Goal
    BY <1>0, <1>1, <2>2 DEF Clone, IncRef, Unused, Running, Quiet
  <2>3. ASSUME NEW x \in Handle, owner[x] = Program, Drop(x) PROVE Goal
    BY <1>0, <1>1, <2>3 DEF Drop
  <2>4. ASSUME Collect PROVE Goal
    BY <1>1, <2>4 DEF Collect, heap, Running, Quiet
  <2> QED BY <2>1, <2>2, <2>3, <2>4
<1> QED BY <1>1, <1>2, TiedKept

(* The collector lets go of the dependencies on the router when it frees   *)
(* it, and then whoever has one is in the white list too.                  *)
LEMMA TiedFree ==
  ASSUME EventInv, [Next]_vars, queued' \subseteq QueueHandle, UNCHANGED keyOf, Free
  PROVE  Tied'
<1>1. phase = "free" /\ UNCHANGED <<owner, target, phase, white>> /\ pos \in 1 .. Len(white) /\ white \in Seq(Node)
  BY DEF Free, EventInv, SafetyInv, HeapInv, TypeOK
<1>2. PICK m \in Elems(white) : m = white[pos]
  BY <1>1 DEF Elems
<1>3. \A x \in HandlesOf(m) : owner[x] \in Elems(white)
  BY <1>1 DEF EventInv, SafetyInv, FreeInv
<1>4. ASSUME NEW n \in Route, NEW h \in Tie(n), ~freed'[n]
      PROVE  h \notin dropping' \/ n \in Elems(white)
  <2>1. h \in Handle /\ owner[h] = n /\ h \notin dropping /\ n \in Node
    BY DEF Tie
  <2>2. CASE UNCHANGED dropping
    BY <2>1, <2>2
  <2>3. CASE dropping' = OwnedBy(m) \cup (HandlesOf(m) \cap DepHandle) /\ freed' = [freed EXCEPT ![m] = TRUE]
    <3>1. n # m
      BY <1>4, <2>1, <2>3 DEF EventInv, SafetyInv, HeapInv, TypeOK
    <3> QED BY <1>3, <2>1, <2>3, <3>1 DEF OwnedBy
  <2> QED BY <1>2, <2>2, <2>3 DEF Free
<1>5. \A n \in Route : \A h \in Tie(n) : owner[h] = n /\ target[h] = router
  BY DEF Tie
<1> QED BY <1>1, <1>4, <1>5, TiedKept

LEMMA TiedDrop ==
  ASSUME EventInv, [Next]_vars, queued' \subseteq QueueHandle, UNCHANGED keyOf, NEW x \in Handle, RunDrop(x)
  PROVE  Tied'
<1>1. UNCHANGED <<phase, white>>
  BY DEF RunDrop, cursor
<1>2. x \in dropping /\ DropStep
  BY DEF RunDrop, DropStep
<1>3. ASSUME NEW n \in Route, NEW h \in Tie(n), HandlesOf(n)' # {}
      PROVE  owner'[h] = n /\ target'[h] = router /\ h \notin dropping'
  <2>0. h \in Handle /\ owner[h] = n /\ target[h] = router /\ h \notin dropping /\ n \in Node \ Listener
    BY DEF Tie
  <2>1. h \notin Lost(x)
    <3> SUFFICES ASSUME HandlesOf(target[x]) = {x}, h \in Trace(target[x]) PROVE FALSE
      BY DEF Lost
    <3>1. HandlesOf(n) = {x}
      BY <2>0 DEF Trace, OwnedBy
    <3>2. target'[x] = None /\ \A g \in Handle : target'[g] \in {None, target[g]}
      BY DEF RunDrop
    <3>3. None # n
      BY <2>0
    <3> QED BY <1>3, <3>1, <3>2, <3>3 DEF HandlesOf
  <2>2. h \notin Gone(x)
    BY <1>2, <2>0, <2>1 DEF Gone
  <2>3. \A l \in Orphans(x) : h \notin OwnedBy(l)
    BY <2>0 DEF Orphans, OwnedBy
  <2>4. /\ dropping' = (dropping \cup Lost(x) \cup UNION {OwnedBy(l) : l \in Orphans(x)}) \ Gone(x)
        /\ owner' = [g \in Handle |-> IF g \in Gone(x) THEN None ELSE owner[g]]
        /\ target' = [g \in Handle |-> IF g \in Gone(x) THEN None ELSE target[g]]
    BY DEF RunDrop, Lost, Gone, Orphans
  <2> QED BY <2>0, <2>1, <2>2, <2>3, <2>4
<1> QED BY <1>1, <1>3, TiedKept

LEMMA TiedHeap ==
  ASSUME EventInv, [Next]_vars, queued' \subseteq QueueHandle, UNCHANGED keyOf,
         \/ MarkRoot \/ MarkDone \/ ScanRoot \/ ScanDone \/ CollectRoot \/ CollectDone \/ CollectLeave
         \/ \E h \in Handle : CollectVisit(h)
         \/ Retain \/ Again
         \/ UNCHANGED vars
  PROVE  Tied'
<1>1. UNCHANGED <<owner, target, dropping>>
  BY DEF MarkRoot, MarkDone, ScanRoot, ScanDone, CollectRoot, CollectDone, CollectLeave, CollectVisit,
     Retain, Again, vars, heap
<1>2. (phase' = "free" \/ phase # "free") /\ (phase = "free" => UNCHANGED white)
  BY DEF MarkRoot, MarkDone, ScanRoot, ScanDone, CollectRoot, CollectDone, CollectLeave, CollectVisit,
     Retain, Again, vars, cursor
<1>3. \A n \in Route : \A h \in Tie(n) : owner[h] = n /\ target[h] = router /\ h \notin dropping
  BY DEF Tie
<1> QED BY <1>1, <1>2, <1>3, TiedKept

(* When collect_roots returns, what its white list held has no handles.    *)
LEMMA TiedFreeDone ==
  ASSUME EventInv, [Next]_vars, queued' \subseteq QueueHandle, UNCHANGED keyOf, FreeDone
  PROVE  Tied'
<1> SUFFICES ASSUME NEW n \in Route, keyOf[n] # None, HandlesOf(n)' # {}, ~freed'[n]
             PROVE  Tie(n)' # {}
  BY DEF Tied
<1>1. UNCHANGED <<owner, target, freed>> /\ dropping = {}
      /\ \A h \in dropping' : owner[h] \in Listener
  BY DEF FreeDone, Quiet, OwnedBy
<1>2. HandlesOf(n) # {} /\ ~freed[n]
  BY <1>1 DEF HandlesOf
<1>3. n \notin Elems(white)
  BY <1>2, FreedAlone DEF EventInv
<1>4. Tie(n) # {}
  BY <1>2, <1>3 DEF EventInv, Tied
<1>5. \A h \in Tie(n) : h \in Tie(n)'
  BY <1>1 DEF Tie
<1> QED BY <1>4, <1>5

(* The new stream enters the table with its dependency.                    *)
LEMMA TiedFilterInsert ==
  ASSUME EventInv, [Next]_vars, queued' \subseteq QueueHandle, NEW g \in Handle, FilterInsert(g)
  PROVE  Tied'
<1>1. /\ HasRouter(g) /\ Clone(g, Fresh, made) /\ keyOf' = [keyOf EXCEPT ![made] = wanted]
      /\ made \in Route /\ Fresh \in Handle
  BY FreshHandles DEF FilterInsert, EventInv, RouterInv, RouterTypeOK, Locked, Filtering
<1>2. /\ owner' = [owner EXCEPT ![Fresh] = made] /\ target' = [target EXCEPT ![Fresh] = router]
      /\ Unused(Fresh) /\ dropping' = {} /\ phase = "idle" /\ UNCHANGED freed
  BY <1>1 DEF Clone, IncRef, HasRouter, Running, Quiet
<1>3. /\ owner \in [Handle -> Node \cup {Program, Context, None}] /\ target \in [Handle -> Node \cup {None}]
      /\ keyOf \in [Route -> Key \cup {None}] /\ None # router
  BY DEF EventInv, SafetyInv, HeapInv, TypeOK, RouterInv, RouterTypeOK
<1> SUFFICES ASSUME NEW n \in Route, keyOf'[n] # None, HandlesOf(n)' # {}, ~freed'[n]
             PROVE  Tie(n)' # {}
  BY DEF Tied
<1>4. CASE n = made
  <2>1. Fresh \in Tie(n)'
    BY <1>1, <1>2, <1>3, <1>4 DEF Tie
  <2> QED BY <2>1
<1>5. CASE n # made
  <2>1. keyOf[n] # None
    BY <1>1, <1>3, <1>5
  <2>2. HandlesOf(n) # {} /\ ~freed[n]
    BY <1>2, <2>1, DeadStaysDead DEF EventInv, RouterInv, Listing
  <2>3. PICK h \in Tie(n) : TRUE
    BY <1>2, <2>1, <2>2 DEF EventInv, Tied
  <2>4. h \in Tie(n)'
    BY <1>2, <1>3 DEF Tie, Unused
  <2> QED BY <2>4
<1> QED BY <1>4, <1>5

LEMMA TiedStep ==
  ASSUME EventInv, [RouterNext]_routerVars
  PROVE  Tied'
<1>1. [Next]_vars /\ queued' \subseteq QueueHandle
  BY RouterOnHeap, QueueKept DEF EventInv, RouterInv
<1>2. CASE RouterProgram
  <2>1. UNCHANGED keyOf
    BY <1>2 DEF RouterProgram, NewRouter, NewGraph, Attach, LetGo, OpenTransaction, CloseTransaction,
       FilterHit, FilterMiss, routing
  <2>2. ASSUME NEW k \in Key, NEW g \in Handle, FilterHit(k, g) PROVE Tied'
    <3>1. table[k] \in Node /\ Upgrade(table[k], Fresh)
      BY <2>2 DEF FilterHit, Alive, EventInv, RouterInv, RouterTypeOK
    <3> QED BY <1>1, <2>1, <3>1, FreshHandles, TiedProgram
  <2>3. ASSUME NEW n \in Node, New(n, Fresh) PROVE Tied'
    BY <1>1, <2>1, <2>3, FreshHandles, TiedProgram
  <2>4. ASSUME NEW g \in Handle, NEW c \in Graph, Attach(g, c) PROVE Tied'
    BY <1>1, <2>1, <2>4, FreshHandles, TiedProgram DEF Attach
  <2>5. ASSUME NEW h \in Handle, LetGo(h) PROVE Tied'
    BY <1>1, <2>1, <2>5, TiedProgram DEF LetGo
  <2>6. ASSUME OpenTransaction \/ CloseTransaction PROVE Tied'
    BY <1>1, <2>1, <2>6, TiedHeap DEF OpenTransaction, CloseTransaction
  <2> QED BY <1>2, <2>2, <2>3, <2>4, <2>5, <2>6 DEF RouterProgram, NewRouter, NewGraph, FilterMiss
<1>3. ASSUME NEW h \in Handle, FilterFirst(h) \/ FilterEnd(h) \/ FilterInsert(h) \/ Unqueue(h)
      PROVE  Tied'
  <2>1. CASE FilterFirst(h)
    BY <1>1, <2>1, FreshHandles, TiedProgram DEF FilterFirst
  <2>2. CASE FilterInsert(h)
    BY <1>1, <2>2, TiedFilterInsert
  <2>3. CASE FilterEnd(h) \/ Unqueue(h)
    <3>1. h \in QueueHandle /\ Drop(h) /\ UNCHANGED keyOf
      BY <2>3 DEF FilterEnd, Unqueue, EventInv, Tied
    <3>2. owner[h] = Program
      BY <3>1 DEF Drop
    <3> QED BY <1>1, <3>1, <3>2, TiedProgram
  <2> QED BY <1>3, <2>1, <2>2, <2>3
<1>4. CASE FilterCollect \/ EndTransaction
  BY <1>1, <1>4, TiedProgram DEF FilterCollect, EndTransaction
<1>5. ASSUME NEW ks, BeginRouting(ks) PROVE Tied'
  BY <1>1, <1>5, TiedHeap DEF BeginRouting
<1>6. CASE RouteMiss \/ EndRouting
  BY <1>1, <1>6, TiedHeap DEF RouteMiss, EndRouting
<1>7. CASE RouteHit
  <2>1. Upgrade(table[Head(keys)], FreshQueue) /\ UNCHANGED keyOf
    BY <1>7 DEF RouteHit
  <2>2. Head(keys) \in Key
    BY <1>7 DEF RouteHit, EventInv, RouterInv, RouterTypeOK
  <2>3. table[Head(keys)] \in Node
    BY <1>7, <2>2 DEF RouteHit, Alive, EventInv, RouterInv, RouterTypeOK
  <2> QED BY <1>1, <2>1, <2>3, FreshHandles, TiedProgram
<1>8. CASE RouterFree
  BY <1>1, <1>8, TiedFree DEF RouterFree
<1>9. CASE HeapGoesOn
  <2>1. UNCHANGED keyOf
    BY <1>9 DEF HeapGoesOn, routing
  <2>2. CASE FreeDone
    BY <1>1, <2>1, <2>2, TiedFreeDone
  <2>3. CASE DropStep
    BY <1>1, <2>1, <2>3, TiedDrop DEF DropStep
  <2> QED BY <1>1, <1>9, <2>1, <2>2, <2>3, TiedHeap DEF HeapGoesOn
<1>10. CASE UNCHANGED routerVars
  BY <1>1, <1>10, TiedHeap DEF routerVars, routing
<1>11. CASE RouterLibrary
  BY <1>3, <1>4, <1>5, <1>6, <1>7, <1>8, <1>9, <1>11 DEF RouterLibrary
<1> QED BY <1>2, <1>10, <1>11 DEF RouterNext

LEMMA EventInit == RouterInit => EventInv
<1> SUFFICES ASSUME RouterInit PROVE EventInv
  OBVIOUS
<1>1. SafetyInv
  BY SafetyInit DEF RouterInit
<1>2. Tied
  BY DEF RouterInit, Tied
<1> QED BY <1>1, <1>2, RouterInvInit DEF EventInv

LEMMA EventStep == EventInv /\ [RouterNext]_routerVars => EventInv'
<1> SUFFICES ASSUME EventInv, [RouterNext]_routerVars PROVE EventInv'
  OBVIOUS
<1>1. SafetyInv'
  BY RouterOnHeap, SafetyStep DEF EventInv, RouterInv
<1> QED BY <1>1, RouterInvStep, TiedStep DEF EventInv

-----------------------------------------------------------------------------
(* Theorems *)

(* Router::new, filter_matches, the update of the router and its cleanups  *)
(* keep the types of its table and of what they pass to each other.        *)
THEOREM RouterTypes == RouterSpec => []RouterTypeOK
<1>1. RouterInv => RouterTypeOK
  BY DEF RouterInv
<1> QED BY <1>1, RouterInvInit, RouterInvStep, PTL DEF RouterSpec

(* The table of a router lists every stream of filter_matches that can     *)
(* still be upgraded and was not freed, so that no event misses it.        *)
THEOREM RoutesListed == RouterSpec => []LiveRouteListed
<1>1. RouterInv => LiveRouteListed
  BY DEF RouterInv, Listing
<1> QED BY <1>1, RouterInvInit, RouterInvStep, PTL DEF RouterSpec

(* A program with a router is a program of GcNode: all that holds of the   *)
(* heap and the collector there holds beside a router.                     *)
THEOREM RouterUsesHeap == RouterSpec => Spec
<1>1. RouterInit => Init
  BY DEF RouterInit
<1>2. RouterInv /\ [RouterNext]_routerVars => [Next]_vars
  BY RouterOnHeap DEF RouterInv
<1> QED BY <1>1, <1>2, RouterInvInit, RouterInvStep, PTL DEF RouterSpec, Spec

(* However a program uses its router, its streams and its graphs, however  *)
(* many keys and handles there are, the collector frees nothing that it    *)
(* can get at.                                                             *)
THEOREM RouterKeepsLive == RouterSpec => []NoLiveFreed
  BY RouterUsesHeap, LiveNotFreed, PTL

(* What it cannot get at is gone when the end of a transaction, its own or *)
(* that of filter_matches, has collected: the table and the cleanups keep  *)
(* nothing alive.                                                          *)
THEOREM RouterCollects == RouterSpec => CollectsAll
  BY RouterUsesHeap, CollectionComplete

(* An event for a key reaches the stream of the key that the program can   *)
(* get at: it is in the table, and holds the router it depends on alive,   *)
(* so that the router is updated however few hold it.                      *)
THEOREM EventReachesRoute == RouterSpec => EventsReachRoutes
<1> DEFINE Reached ==
      \A n \in Live \cap Route :
        /\ at = "routing" /\ keys' # keys /\ keyOf[n] = Head(keys)
             => \E q \in queued' : target'[q] = n
        /\ at = "closing" /\ at' = "clearing" => keyOf[n] = None
<1>1. EventInv /\ NoLiveFreed /\ [RouterNext]_routerVars => Reached
  <2> SUFFICES ASSUME EventInv, NoLiveFreed, [RouterNext]_routerVars, NEW n \in Live \cap Route
               PROVE  /\ at = "routing" /\ keys' # keys /\ keyOf[n] = Head(keys)
                           => \E q \in queued' : target'[q] = n
                      /\ at = "closing" /\ at' = "clearing" => keyOf[n] = None
    OBVIOUS
  <2>1. n \in Node /\ n # None /\ ~freed[n] /\ HandlesOf(n) # {} /\ Alive(n)
    BY LiveHandles, LiveSource DEF EventInv, SafetyInv, NoLiveFreed, Alive
  <2>2. ASSUME at = "routing", keys' # keys, keyOf[n] = Head(keys)
        PROVE  \E q \in queued' : target'[q] = n
    <3>1. RouteHit \/ RouteMiss
      BY <2>2 DEF RouterNext, RouterProgram, NewRouter, NewGraph, Attach, LetGo, OpenTransaction,
         CloseTransaction, FilterHit, FilterMiss, RouterLibrary, FilterFirst, FilterEnd, FilterInsert,
         Unqueue, FilterCollect, BeginRouting, EndRouting, EndTransaction, RouterFree, HeapGoesOn,
         routerVars, routing, Turn
    <3>2. Head(keys) \in Key
      BY <3>1 DEF RouteHit, RouteMiss, EventInv, RouterInv, RouterTypeOK
    <3>3. table[Head(keys)] = n
      BY <2>1, <2>2, <3>2 DEF EventInv, RouterInv, Listing, LiveRouteListed
    <3>4. Upgrade(n, FreshQueue) /\ FreshQueue \in queued' /\ FreshQueue \in Handle
      BY <2>1, <3>1, <3>3, FreshHandles DEF RouteHit, RouteMiss
    <3>5. target'[FreshQueue] = n
      BY <3>4 DEF Upgrade, IncRef, EventInv, SafetyInv, HeapInv, TypeOK
    <3> QED BY <3>4, <3>5
  <2>3. ASSUME at = "closing", at' = "clearing", keyOf[n] # None
        PROVE  FALSE
    <3>1. PICK ks : BeginRouting(ks)
      BY <2>3 DEF RouterNext, RouterProgram, NewRouter, NewGraph, Attach, LetGo, OpenTransaction,
         CloseTransaction, FilterHit, FilterMiss, RouterLibrary, FilterFirst, FilterEnd, FilterInsert,
         Unqueue, FilterCollect, RouteHit, RouteMiss, EndRouting, EndTransaction, RouterFree, HeapGoesOn,
         routerVars, routing, request, Turn
    <3>2. phase = "idle" /\ ~Alive(router)
      BY <2>3, <3>1 DEF BeginRouting, Running
    <3>3. PICK h \in Tie(n) : TRUE
      BY <2>1, <2>3, <3>2 DEF EventInv, Tied
    <3>4. h \in HandlesOf(router) /\ router # None
      BY DEF Tie, HandlesOf
    <3> QED BY <3>2, <3>4 DEF Alive
  <2> QED BY <2>2, <2>3
<1>2. RouterSpec => [][Reached]_routerVars
  BY <1>1, EventInit, EventStep, RouterKeepsLive, PTL DEF RouterSpec
<1> QED BY <1>2 DEF EventsReachRoutes
=============================================================================
