--------------------------- MODULE GcSafetyProofs ---------------------------
(***************************************************************************)
(* For every set of nodes and handles, the types of the collector's state, *)
(* and its safety: reference counts are exact, whatever the program, the   *)
(* drops and the collector do; what it frees is out of the reach of the    *)
(* program, a node waits in roots once, and no assertion of it fails, save *)
(* where a Listener was counted for a keep_alive entry that is gone.       *)
(*                                                                         *)
(* The counts come first (HeapInv): each function of the collector changes *)
(* them as the handles it takes or gives away do.  The rest follows one    *)
(* round.  mark_roots grays a set of nodes that trace does not leave, all  *)
(* of it reached from the roots it kept, and counts into refCountAdj the   *)
(* edges out of that set (MarkInv).  scan therefore makes white only nodes *)
(* all of whose handles are edges out of the set; when it ends no handle   *)
(* to a white node is held by a node that is not white (ScanInv).  Such a  *)
(* set is out of reach, and stays so while it is taken apart: nothing      *)
(* outside of it has a handle to give away                                 *)
(* (CollectInv, FreeInv, FreedInv).                                        *)
(***************************************************************************)
EXTENDS GcNode, FiniteSetTheorems, TLAPS

(* The heap is well formed: a handle that is owned, or about to be         *)
(* dropped, counts for a node that was created; keep_alive lists hold      *)
(* Listeners only.                                                         *)
HeapInv ==
  /\ TypeOK
  /\ \A h \in Handle : owner[h] # None => target[h] # None
  /\ \A h \in dropping : target[h] # None
  /\ \A h \in KeepHandle : target[h] \in Listener \cup {None}
  /\ \A h \in Handle : target[h] # None => target[h] \in created

USE GcAssumption DEF GcAssumption

-----------------------------------------------------------------------------
(* Counting handles *)

(* A set of handles is finite, so its size is a number.                    *)
LEMMA HandlesFinite ==
  ASSUME NEW S \in SUBSET Handle
  PROVE  IsFiniteSet(S) /\ Cardinality(S) \in Nat
  BY FS_Subset, FS_CardinalityType

(* Elements of a sequence of nodes are nodes.                              *)
LEMMA ElemsNode ==
  ASSUME NEW s \in Seq(Node)
  PROVE  Elems(s) \subseteq Node
  BY DEF Elems

(* retain leaves a sequence of nodes.                                      *)
LEMMA WithoutType ==
  ASSUME NEW s \in Seq(Node), NEW m
  PROVE  Without(s, m) \in Seq(Node)
<1>1. CASE m \in Elems(s)
  <2> DEFINE i == CHOOSE j \in DOMAIN s : s[j] = m
  <2>1. i \in 1 .. Len(s)
    BY <1>1 DEF Elems
  <2> HIDE DEF i
  <2>2. SubSeq(s, 1, i - 1) \o SubSeq(s, i + 1, Len(s)) \in Seq(Node)
    BY <2>1
  <2> QED BY <1>1, <2>2 DEF Without, i
<1>2. CASE m \notin Elems(s)
  BY <1>2 DEF Without
<1> QED BY <1>1, <1>2

(* possible_root keeps the types of what it changes.                       *)
LEMMA PossibleRootType ==
  ASSUME TypeOK, NEW n \in Node, PossibleRoot(n)
  PROVE  /\ color' \in [Node -> Color]
         /\ buffered' \in [Node -> BOOLEAN]
         /\ roots' \in Seq(Node)
<1>1. color' \in [Node -> Color]
  BY DEF TypeOK, PossibleRoot, Color
<1>2. CASE color[n] = "purple" \/ buffered[n]
  BY <1>1, <1>2 DEF TypeOK, PossibleRoot
<1>3. CASE ~(color[n] = "purple" \/ buffered[n])
  <2>1. /\ buffered' = [buffered EXCEPT ![n] = TRUE]
        /\ roots' = Append(roots, n)
    BY <1>3 DEF PossibleRoot
  <2>2. Append(roots, n) \in Seq(Node)
    BY DEF TypeOK
  <2>3. buffered' \in [Node -> BOOLEAN]
    BY <2>1 DEF TypeOK
  <2> QED BY <1>1, <2>1, <2>2, <2>3
<1> QED BY <1>2, <1>3

(* dec_ref keeps the types of what it changes.                             *)
LEMMA DecRefType ==
  ASSUME TypeOK, NEW n \in Node, DecRef(n)
  PROVE  /\ refCount' \in [Node -> Nat]
         /\ color' \in [Node -> Color]
         /\ buffered' \in [Node -> BOOLEAN]
         /\ roots' \in Seq(Node)
<1>1. CASE refCount[n] = 0
  BY <1>1 DEF TypeOK, DecRef, counts
<1>2. CASE refCount[n] # 0
  <2>1. refCount' = [refCount EXCEPT ![n] = @ - 1] /\ PossibleRoot(n)
    BY <1>2 DEF DecRef
  <2>2. refCount' \in [Node -> Nat]
    BY <1>2, <2>1 DEF TypeOK
  <2> QED BY <2>1, <2>2, PossibleRootType
<1> QED BY <1>1, <1>2

-----------------------------------------------------------------------------
LEMMA HeapInit == Init => HeapInv
<1> SUFFICES ASSUME Init PROVE HeapInv
  OBVIOUS
<1>1. /\ created \subseteq Node /\ dropping \subseteq Handle
      /\ owner \in [Handle -> Node \cup {Program, Context, None}]
      /\ target \in [Handle -> Node \cup {None}]
  BY DEF Init
<1>2. /\ refCount \in [Node -> Nat] /\ refCountAdj \in [Node -> Nat]
      /\ color \in [Node -> Color]
      /\ buffered \in [Node -> BOOLEAN] /\ freed \in [Node -> BOOLEAN]
  BY DEF Init, Color
<1>3. <<>> \in Seq(Node)
  OBVIOUS
<1>4. /\ roots \in Seq(Node) /\ toBeFreed \in Seq(Node) /\ local \in Seq(Node)
      /\ stack \in Seq(Node) /\ white \in Seq(Node)
  BY <1>3 DEF Init
<1>5. phase \in Phase /\ freeing \in Node \cup {None}
  BY DEF Init, Phase
<1>6. pos \in Nat \ {0}
  BY DEF Init
<1>7. panicked \in BOOLEAN
  BY Zenon DEF Init
<1>8. TypeOK
  BY <1>1, <1>2, <1>4, <1>5, <1>6, <1>7 DEF TypeOK
<1> QED BY <1>8 DEF Init, HeapInv

(* One lemma per operation of the program and per step of the collector.   *)
LEMMA HeapNew ==
  ASSUME HeapInv, NEW n \in Node, NEW h \in Handle, New(n, h)
  PROVE  HeapInv'
  BY DEF HeapInv, TypeOK, New, Running, Quiet, Unused, cursor

LEMMA HeapListenWeak ==
  ASSUME HeapInv, NEW l \in Listener, NEW h \in Handle, NEW g \in Handle, ListenWeak(l, h, g)
  PROVE  HeapInv'
  BY DEF HeapInv, TypeOK, ListenWeak, Running, Quiet, Unused, cursor

LEMMA HeapListen ==
  ASSUME HeapInv, NEW l \in Listener, NEW h \in Handle, NEW c \in Handle, NEW g \in Handle,
         Listen(l, h, c, g)
  PROVE  HeapInv'
  BY DEF HeapInv, TypeOK, Listen, Running, Quiet, Unused, cursor

LEMMA HeapDefer ==
  ASSUME HeapInv, NEW l \in Listener, NEW k \in Handle, NEW g \in Handle, NEW o \in Node,
         Defer(l, k, g, o)
  PROVE  HeapInv'
<1>1. /\ color' \in [Node -> Color]
      /\ buffered' \in [Node -> BOOLEAN]
      /\ roots' \in Seq(Node)
  BY PossibleRootType DEF HeapInv, Defer
<1> QED
  BY <1>1 DEF HeapInv, TypeOK, Defer, Running, Quiet, Unused, cursor

LEMMA HeapClone ==
  ASSUME HeapInv, NEW g \in Handle, NEW h \in Handle, NEW o \in Node \cup {Program}, Clone(g, h, o)
  PROVE  HeapInv'
<1>1. target[g] \in Node /\ target[g] \in created
  BY DEF HeapInv, TypeOK, Clone, Accessible
<1>2. /\ owner' \in [Handle -> Node \cup {Program, Context, None}]
      /\ target' \in [Handle -> Node \cup {None}]
      /\ refCount' \in [Node -> Nat]
      /\ color' \in [Node -> Color]
  BY <1>1 DEF HeapInv, TypeOK, Clone, IncRef, Color
<1>3. panicked' \in BOOLEAN
  BY <1>1 DEF HeapInv, TypeOK, Clone, IncRef
<1>4. TypeOK'
  BY <1>2, <1>3 DEF HeapInv, TypeOK, Clone, cursor
<1>5. /\ owner' = [owner EXCEPT ![h] = o] /\ target' = [target EXCEPT ![h] = target[g]]
      /\ UNCHANGED <<created, dropping>> /\ dropping = {} /\ h \notin KeepHandle
  BY DEF Clone, IncRef, Running, Quiet
<1>6. \A k \in Handle : target'[k] = IF k = h THEN target[g] ELSE target[k]
  BY <1>5 DEF HeapInv, TypeOK
<1>7. \A k \in Handle : owner'[k] # None => k = h \/ owner[k] # None
  BY <1>5 DEF HeapInv, TypeOK
<1> QED BY <1>1, <1>4, <1>5, <1>6, <1>7 DEF HeapInv

LEMMA HeapUpgrade ==
  ASSUME HeapInv, NEW n \in Node, NEW h \in Handle, Upgrade(n, h)
  PROVE  HeapInv'
<1>1. n \in created
  BY DEF HeapInv, Upgrade, HandlesOf
<1> QED
  BY <1>1 DEF HeapInv, TypeOK, Upgrade, IncRef, Running, Quiet, Unused, cursor, Color

LEMMA HeapDrop ==
  ASSUME HeapInv, NEW h \in Handle, Drop(h)
  PROVE  HeapInv'
  BY DEF HeapInv, TypeOK, Drop, Accessible, Running, Quiet, cursor, counts

LEMMA HeapUnlisten ==
  ASSUME HeapInv, NEW l \in Listener, Unlisten(l)
  PROVE  HeapInv'
  BY DEF HeapInv, TypeOK, Unlisten, OwnedBy, HandlesOf, Running, Quiet, cursor, counts

LEMMA HeapBeginRound ==
  ASSUME HeapInv, BeginRound
  PROVE  /\ refCountAdj' \in [Node -> Nat]
         /\ roots' \in Seq(Node) /\ local' \in Seq(Node)
         /\ phase' \in Phase /\ pos' \in Nat \ {0}
  BY DEF HeapInv, TypeOK, BeginRound, Phase

LEMMA HeapCollect ==
  ASSUME HeapInv, Collect
  PROVE  HeapInv'
  BY HeapBeginRound DEF HeapInv, TypeOK, Collect, Running, Quiet, heap

LEMMA HeapAgain ==
  ASSUME HeapInv, Again
  PROVE  HeapInv'
  BY HeapBeginRound DEF HeapInv, TypeOK, Again, Quiet, heap, Phase

LEMMA HeapMarkGray ==
  ASSUME HeapInv, NEW r \in Node, MarkGray(r)
  PROVE  /\ color' \in [Node -> Color]
         /\ refCountAdj' \in [Node -> Nat]
         /\ panicked' \in BOOLEAN
<1> DEFINE grayed == Grayed(r)
           edges(n) == Cardinality({h \in HandlesOf(n) : h \in UNION {Trace(m) : m \in grayed}})
<1>1. \A n \in Node : edges(n) \in Nat
  BY HandlesFinite DEF HandlesOf
<1>2. /\ color' = [n \in Node |-> IF n \in grayed THEN "gray" ELSE color[n]]
      /\ refCountAdj' = [n \in Node |-> refCountAdj[n] + edges(n)]
      /\ panicked' = \E n \in Node : edges(n) > 0 /\ refCountAdj[n] + edges(n) > refCount[n] + 1
  BY DEF MarkGray
<1> HIDE DEF grayed, edges
<1> QED BY <1>1, <1>2 DEF HeapInv, TypeOK, Color

LEMMA HeapMarkRoot ==
  ASSUME HeapInv, MarkRoot
  PROVE  HeapInv'
<1> DEFINE r == local[pos]
<1>1. r \in Node
  BY DEF HeapInv, TypeOK, MarkRoot
<1>4. pos' \in Nat \ {0}
  BY DEF HeapInv, TypeOK, MarkRoot
<1>5. UNCHANGED <<created, owner, target, dropping, refCount, freed, phase, local, stack, white,
                  freeing>>
  BY DEF MarkRoot, heap
<1>2. CASE color[r] = "purple"
  <2>1. MarkGray(r) /\ roots' = Append(roots, r) /\ UNCHANGED <<buffered, toBeFreed>>
    BY <1>2 DEF MarkRoot
  <2> HIDE DEF r
  <2>2. Append(roots, r) \in Seq(Node)
    BY <1>1 DEF HeapInv, TypeOK
  <2>3. /\ color' \in [Node -> Color]
        /\ refCountAdj' \in [Node -> Nat]
        /\ panicked' \in BOOLEAN
    BY <1>1, <2>1, HeapMarkGray
  <2>4. roots' \in Seq(Node) /\ buffered' = buffered /\ toBeFreed' = toBeFreed
    BY <2>1, <2>2
  <2> QED BY <1>4, <1>5, <2>3, <2>4 DEF HeapInv, TypeOK
<1>3. CASE color[r] # "purple"
  <2>1. /\ buffered' = [buffered EXCEPT ![r] = FALSE]
        /\ toBeFreed' = IF color[r] = "black" /\ refCount[r] = 0 /\ ~freed[r]
                         THEN Append(toBeFreed, r) ELSE toBeFreed
        /\ UNCHANGED <<color, refCountAdj, roots, panicked>>
    BY <1>3 DEF MarkRoot
  <2> HIDE DEF r
  <2>2. Append(toBeFreed, r) \in Seq(Node)
    BY <1>1 DEF HeapInv, TypeOK
  <2>3. toBeFreed' \in Seq(Node)
    BY <2>1, <2>2 DEF HeapInv, TypeOK
  <2>4. buffered' \in [Node -> BOOLEAN]
    BY <2>1 DEF HeapInv, TypeOK
  <2>5. UNCHANGED <<color, refCountAdj, roots, panicked>>
    BY <2>1
  <2> QED BY <1>4, <1>5, <2>3, <2>4, <2>5 DEF HeapInv, TypeOK
<1> QED BY <1>2, <1>3

LEMMA HeapMarkDone ==
  ASSUME HeapInv, MarkDone
  PROVE  HeapInv'
  BY DEF HeapInv, TypeOK, MarkDone, heap, counts, Phase

LEMMA HeapScanRoot ==
  ASSUME HeapInv, ScanRoot
  PROVE  HeapInv'
  BY DEF HeapInv, TypeOK, ScanRoot, heap, Color

LEMMA HeapScanDone ==
  ASSUME HeapInv, ScanDone
  PROVE  HeapInv'
  BY DEF HeapInv, TypeOK, ScanDone, heap, Phase

LEMMA HeapCollectRoot ==
  ASSUME HeapInv, CollectRoot
  PROVE  HeapInv'
<1> DEFINE r == local[pos]
<1>1. r \in Node
  BY DEF HeapInv, TypeOK, CollectRoot
<1>2. <<r>> \in Seq(Node)
  BY <1>1
<1>3. /\ buffered' = [buffered EXCEPT ![r] = FALSE]
      /\ IF color[r] = "white"
         THEN color' = [color EXCEPT ![r] = "black"] /\ stack' = <<r>>
         ELSE UNCHANGED <<color, stack>>
  BY DEF CollectRoot
<1> HIDE DEF r
<1>4. color' \in [Node -> Color] /\ stack' \in Seq(Node)
  BY <1>2, <1>3 DEF HeapInv, TypeOK, Color
<1>5. buffered' \in [Node -> BOOLEAN]
  BY <1>3 DEF HeapInv, TypeOK
<1>6. pos' \in Nat \ {0}
  BY DEF HeapInv, TypeOK, CollectRoot
<1>7. UNCHANGED <<created, owner, target, dropping, refCount, roots, refCountAdj, freed,
                  toBeFreed, phase, local, white, freeing, panicked>>
  BY DEF CollectRoot, heap
<1> QED BY <1>4, <1>5, <1>6, <1>7 DEF HeapInv, TypeOK

LEMMA HeapCollectVisit ==
  ASSUME HeapInv, NEW h \in Handle, CollectVisit(h)
  PROVE  HeapInv'
<1>1. stack[Len(stack)] \in Node
  BY DEF HeapInv, TypeOK, CollectVisit
<1>2. target[h] \in Node
  BY <1>1 DEF HeapInv, TypeOK, CollectVisit, Trace, OwnedBy
<1>3. Append(stack, target[h]) \in Seq(Node)
  BY <1>2 DEF HeapInv, TypeOK
<1>4. color' \in [Node -> Color]
  BY DEF HeapInv, TypeOK, CollectVisit, Color
<1> QED BY <1>3, <1>4 DEF HeapInv, TypeOK, CollectVisit, heap

LEMMA HeapCollectLeave ==
  ASSUME HeapInv, CollectLeave
  PROVE  HeapInv'
<1>1. stack[Len(stack)] \in Node
  BY DEF HeapInv, TypeOK, CollectLeave
<1>2. Append(white, stack[Len(stack)]) \in Seq(Node)
  BY <1>1 DEF HeapInv, TypeOK
<1>3. SubSeq(stack, 1, Len(stack) - 1) \in Seq(Node)
  BY DEF HeapInv, TypeOK, CollectLeave
<1> QED BY <1>2, <1>3 DEF HeapInv, TypeOK, CollectLeave, heap, counts

LEMMA HeapCollectDone ==
  ASSUME HeapInv, CollectDone
  PROVE  HeapInv'
  BY DEF HeapInv, TypeOK, CollectDone, heap, counts, Phase

LEMMA HeapFree ==
  ASSUME HeapInv, Free
  PROVE  HeapInv'
<1> DEFINE n == white[pos]
<1>1. n \in Node
  BY DEF HeapInv, TypeOK, Free
<1>2. CASE freed[n]
  <2>1. pos' = pos + 1 /\ UNCHANGED <<dropping, freed, freeing>>
    BY <1>2 DEF Free
  <2> QED BY <2>1 DEF HeapInv, TypeOK, Free, counts
<1>3. CASE ~freed[n]
  <2>1. /\ freed' = [freed EXCEPT ![n] = TRUE]
        /\ freeing' = n /\ UNCHANGED pos
        /\ dropping' = OwnedBy(n) \cup (HandlesOf(n) \cap DepHandle)
    BY <1>3 DEF Free
  <2> HIDE DEF n
  <2>2. freed' \in [Node -> BOOLEAN]
    BY <2>1 DEF HeapInv, TypeOK
  <2>3. dropping' \subseteq Handle /\ \A h \in dropping' : target[h] # None
    BY <1>1, <2>1 DEF HeapInv, OwnedBy, HandlesOf
  <2> QED BY <1>1, <2>1, <2>2, <2>3 DEF HeapInv, TypeOK, Free, counts
<1> QED BY <1>2, <1>3

LEMMA HeapRetain ==
  ASSUME HeapInv, Retain
  PROVE  HeapInv'
  BY WithoutType DEF HeapInv, TypeOK, Retain, heap

LEMMA HeapFreeDone ==
  ASSUME HeapInv, FreeDone
  PROVE  HeapInv'
  BY DEF HeapInv, TypeOK, FreeDone, counts, OwnedBy, Phase

(* A drop: what it adds to dropping is owned, hence counts for a node, and *)
(* it takes out of dropping what it takes out of the heap.                 *)
LEMMA HeapRunDrop ==
  ASSUME HeapInv, NEW h \in Handle, RunDrop(h)
  PROVE  HeapInv'
<1> DEFINE n == target[h]
           lost == IF n \notin Listener /\ HandlesOf(n) = {h} THEN Trace(n) ELSE {}
           gone == {h} \cup (lost \cap KeepHandle)
           orphans == {l \in Listener \ {n} : /\ HandlesOf(l) # {} /\ HandlesOf(l) \subseteq gone
                                              /\ l \notin Listed}
           more == UNION {OwnedBy(l) : l \in orphans}
<1>1. /\ h \in dropping /\ DecRef(n)
      /\ dropping' = (dropping \cup lost \cup more) \ gone
      /\ owner' = [g \in Handle |-> IF g \in gone THEN None ELSE owner[g]]
      /\ target' = [g \in Handle |-> IF g \in gone THEN None ELSE target[g]]
      /\ UNCHANGED <<created, refCountAdj, freed, toBeFreed, cursor, panicked>>
  BY DEF RunDrop
<1>2. n \in Node
  BY <1>1 DEF HeapInv, TypeOK
<1>3. /\ refCount' \in [Node -> Nat]
      /\ color' \in [Node -> Color]
      /\ buffered' \in [Node -> BOOLEAN]
      /\ roots' \in Seq(Node)
  BY <1>1, <1>2, DecRefType DEF HeapInv
<1>4. lost \subseteq Handle /\ \A g \in lost : target[g] # None
  BY <1>2 DEF HeapInv, Trace, OwnedBy
<1>5. more \subseteq Handle /\ \A g \in more : target[g] # None
  BY DEF HeapInv, OwnedBy
<1> HIDE DEF n, lost, gone, orphans, more
<1>6. /\ dropping' \subseteq Handle
      /\ \A g \in dropping' : target'[g] # None
  BY <1>1, <1>4, <1>5 DEF HeapInv, TypeOK
<1>7. /\ owner' \in [Handle -> Node \cup {Program, Context, None}]
      /\ target' \in [Handle -> Node \cup {None}]
  BY <1>1 DEF HeapInv, TypeOK
<1>8. TypeOK'
  BY <1>1, <1>3, <1>6, <1>7 DEF HeapInv, TypeOK, cursor
<1> QED BY <1>1, <1>6, <1>8 DEF HeapInv, TypeOK

-----------------------------------------------------------------------------
LEMMA HeapStep == HeapInv /\ [Next]_vars => HeapInv'
<1> SUFFICES ASSUME HeapInv, [Next]_vars PROVE HeapInv'
  OBVIOUS
<1>1. CASE ProgramStep
  BY <1>1, HeapNew, HeapUpgrade, HeapListenWeak, HeapListen, HeapDefer, HeapClone, HeapDrop, HeapUnlisten,
     HeapCollect DEF ProgramStep
<1>2. CASE CollectorStep
  BY <1>2, HeapMarkRoot, HeapMarkDone, HeapScanRoot, HeapScanDone, HeapCollectRoot,
     HeapCollectVisit, HeapCollectLeave, HeapCollectDone, HeapFree, HeapRetain, HeapFreeDone,
     HeapAgain DEF CollectorStep
<1>3. CASE DropStep
  BY <1>3, HeapRunDrop DEF DropStep
<1>4. CASE UNCHANGED vars
  BY <1>4 DEF HeapInv, TypeOK, vars, heap, counts, cursor
<1> QED BY <1>1, <1>2, <1>3, <1>4 DEF Next

(* The types of the collector's state, for every heap.                     *)
THEOREM TypeCorrect == Spec => []TypeOK
<1>1. HeapInv => TypeOK
  BY DEF HeapInv
<1> QED BY <1>1, HeapInit, HeapStep, PTL DEF Spec
-----------------------------------------------------------------------------
(* Counts, exact but for the nodes of L.  This is the property with the    *)
(* Listeners for L; without keep_alive entries no node needs the excuse.   *)
ExactBut(L) ==
  \A n \in Node : /\ refCount[n] >= Cardinality(HandlesOf(n))
                  /\ n \notin L => refCount[n] = Cardinality(HandlesOf(n))

(* Counts.  Only the target of handles and refCount matter: a step either  *)
(* leaves both alone, or makes one handle, or runs one drop.               *)
LEMMA CountsKept ==
  ASSUME NEW L, ExactBut(L), UNCHANGED <<target, refCount>>
  PROVE  ExactBut(L)'
  BY DEF ExactBut, HandlesOf

(* A new handle h to n is the only change to the handles of a node.        *)
LEMMA HandlesAfterNew ==
  ASSUME HeapInv, NEW n \in Node, NEW h \in Handle, Unused(h),
         target' = [target EXCEPT ![h] = n]
  PROVE  /\ Cardinality(HandlesOf(n)') = Cardinality(HandlesOf(n)) + 1
         /\ \A m \in Node \ {n} : HandlesOf(m)' = HandlesOf(m)
         /\ \A m \in Node : Cardinality(HandlesOf(m)) \in Nat
<1>1. HandlesOf(n)' = HandlesOf(n) \cup {h} /\ h \notin HandlesOf(n)
  BY DEF HeapInv, TypeOK, HandlesOf, Unused
<1>2. \A m \in Node \ {n} : HandlesOf(m)' = HandlesOf(m)
  BY DEF HeapInv, TypeOK, HandlesOf, Unused
<1>3. \A m \in Node : IsFiniteSet(HandlesOf(m)) /\ Cardinality(HandlesOf(m)) \in Nat
  BY HandlesFinite DEF HandlesOf
<1>4. Cardinality(HandlesOf(n) \cup {h}) = Cardinality(HandlesOf(n)) + 1
  BY <1>1, <1>3, FS_AddElement
<1> QED BY <1>1, <1>2, <1>3, <1>4

(* The count of a node that did not exist starts with its first handle.    *)
LEMMA CountCreate ==
  ASSUME HeapInv, NEW L, ExactBut(L), NEW n \in Node \ created, NEW h \in Handle, Unused(h),
         target' = [target EXCEPT ![h] = n], refCount' = [refCount EXCEPT ![n] = 1]
  PROVE  ExactBut(L)'
<1>1. HandlesOf(n) = {}
  BY DEF HeapInv, HandlesOf
<1>2. Cardinality(HandlesOf(n)') = 1
  <2>1. Cardinality(HandlesOf(n)') = Cardinality(HandlesOf(n)) + 1
    BY HandlesAfterNew
  <2>2. Cardinality(HandlesOf(n)) = 0
    BY <1>1, FS_EmptySet
  <2> QED BY <2>1, <2>2
<1>3. refCount'[n] = 1 /\ \A m \in Node \ {n} : refCount'[m] = refCount[m]
  BY DEF HeapInv, TypeOK
<1>4. \A m \in Node \ {n} : HandlesOf(m)' = HandlesOf(m)
  BY HandlesAfterNew
<1> QED BY <1>2, <1>3, <1>4 DEF ExactBut

(* inc_ref goes with the new handle.                                       *)
LEMMA CountIncRef ==
  ASSUME HeapInv, NEW L, ExactBut(L), NEW n \in Node, NEW h \in Handle, NEW o, Unused(h),
         IncRef(n, h, o)
  PROVE  ExactBut(L)'
<1>1. /\ target' = [target EXCEPT ![h] = n]
      /\ refCount' = [refCount EXCEPT ![n] = @ + 1]
  BY DEF IncRef
<1>2. /\ refCount'[n] = refCount[n] + 1 /\ refCount[n] \in Nat
      /\ \A m \in Node \ {n} : refCount'[m] = refCount[m]
  BY <1>1 DEF HeapInv, TypeOK
<1>3. /\ Cardinality(HandlesOf(n)') = Cardinality(HandlesOf(n)) + 1
      /\ Cardinality(HandlesOf(n)) \in Nat
      /\ \A m \in Node \ {n} : HandlesOf(m)' = HandlesOf(m)
  BY <1>1, HandlesAfterNew
<1>4. /\ refCount'[n] >= Cardinality(HandlesOf(n)')
      /\ n \notin L => refCount'[n] = Cardinality(HandlesOf(n)')
  BY <1>2, <1>3 DEF ExactBut
<1>5. ASSUME NEW m \in Node \ {n}
      PROVE  /\ refCount'[m] >= Cardinality(HandlesOf(m)')
             /\ m \notin L => refCount'[m] = Cardinality(HandlesOf(m)')
  BY <1>2, <1>3 DEF ExactBut
<1> QED BY <1>4, <1>5 DEF ExactBut

(* A drop takes one off the count of its node.  The keep_alive entries     *)
(* that vanish with it without a dec_ref are all handles to Listeners,     *)
(* whose counts then exceed their handles.                                 *)
LEMMA CountRunDrop ==
  ASSUME HeapInv, NEW L, ExactBut(L), NEW h \in Handle, RunDrop(h),
         \A k \in KeepHandle : target[k] \in L \cup {None}
  PROVE  ExactBut(L)'
<1>0. PICK n \in Node : n = target[h]
  BY DEF HeapInv, TypeOK, RunDrop
<1> DEFINE lost == IF n \notin Listener /\ HandlesOf(n) = {h} THEN Trace(n) ELSE {}
           gone == {h} \cup (lost \cap KeepHandle)
<1>1. /\ h \in dropping /\ DecRef(n)
      /\ target' = [g \in Handle |-> IF g \in gone THEN None ELSE target[g]]
  BY <1>0 DEF RunDrop
<1>2. n \in Node /\ h \in HandlesOf(n)
  BY <1>0 DEF HandlesOf
<1>3. h \in gone /\ \A g \in gone \ {h} : g \in KeepHandle
  OBVIOUS
<1> HIDE DEF lost, gone
<1>4. \A m \in Node : HandlesOf(m)' = HandlesOf(m) \ gone
  BY <1>1 DEF HeapInv, TypeOK, HandlesOf
<1>5. \A m \in Node : IsFiniteSet(HandlesOf(m)) /\ Cardinality(HandlesOf(m)) \in Nat
  BY HandlesFinite DEF HandlesOf
<1>6. \A m \in Node \ L : HandlesOf(m)' = HandlesOf(m) \ {h}
  BY <1>3, <1>4 DEF HeapInv, HandlesOf
<1>7. Cardinality(HandlesOf(n) \ {h}) = Cardinality(HandlesOf(n)) - 1
  BY <1>2, <1>5, FS_RemoveElement
<1>8. refCount' = [refCount EXCEPT ![n] = @ - 1] /\ refCount[n] \in Nat
  <2>1. IsFiniteSet(HandlesOf(n)) /\ HandlesOf(n) # {}
    BY <1>2, <1>5
  <2>2. Cardinality(HandlesOf(n)) # 0
    BY <2>1, FS_EmptySet
  <2>3. refCount[n] # 0 /\ refCount[n] \in Nat
    BY <1>2, <1>5, <2>2 DEF ExactBut, HeapInv, TypeOK
  <2> QED BY <1>1, <2>3 DEF DecRef
<1>9. /\ refCount'[n] = refCount[n] - 1
      /\ \A m \in Node \ {n} : refCount'[m] = refCount[m]
      /\ \A m \in Node : refCount[m] \in Nat
  BY <1>2, <1>8 DEF HeapInv, TypeOK
<1>10. /\ refCount'[n] >= Cardinality(HandlesOf(n)')
       /\ n \notin L => refCount'[n] = Cardinality(HandlesOf(n)')
  <2>1. HandlesOf(n)' \subseteq HandlesOf(n) \ {h} /\ IsFiniteSet(HandlesOf(n) \ {h})
    BY <1>2, <1>3, <1>4, <1>5, FS_Subset
  <2>2. /\ Cardinality(HandlesOf(n)') <= Cardinality(HandlesOf(n) \ {h})
        /\ Cardinality(HandlesOf(n)') \in Nat
    BY <2>1, FS_Subset, FS_CardinalityType
  <2>3. refCount[n] >= Cardinality(HandlesOf(n))
    BY <1>2 DEF ExactBut
  <2>4. refCount'[n] >= Cardinality(HandlesOf(n)')
    BY <1>2, <1>5, <1>7, <1>9, <2>2, <2>3
  <2>5. n \notin L => refCount'[n] = Cardinality(HandlesOf(n)')
    BY <1>2, <1>6, <1>7, <1>9 DEF ExactBut
  <2> QED BY <2>4, <2>5
<1>11. ASSUME NEW m \in Node \ {n}
       PROVE  /\ refCount'[m] >= Cardinality(HandlesOf(m)')
              /\ m \notin L => refCount'[m] = Cardinality(HandlesOf(m)')
  <2>1. HandlesOf(m)' \subseteq HandlesOf(m)
    BY <1>4
  <2>2. /\ Cardinality(HandlesOf(m)') <= Cardinality(HandlesOf(m))
        /\ Cardinality(HandlesOf(m)') \in Nat
    BY <1>5, <2>1, FS_Subset, FS_CardinalityType
  <2>3. refCount[m] >= Cardinality(HandlesOf(m))
    BY DEF ExactBut
  <2>4. refCount'[m] >= Cardinality(HandlesOf(m)')
    BY <1>5, <1>9, <2>2, <2>3
  <2>5. m \notin L => HandlesOf(m)' = HandlesOf(m)
    BY <1>0, <1>6 DEF HandlesOf
  <2>6. m \notin L => refCount[m] = Cardinality(HandlesOf(m))
    BY DEF ExactBut
  <2> QED BY <1>9, <2>4, <2>5, <2>6
<1> QED BY <1>10, <1>11 DEF ExactBut

(* listen starts a Listener with two handles.                              *)
LEMMA CountListen ==
  ASSUME HeapInv, NEW L, ExactBut(L), NEW l \in Listener, NEW h \in Handle, NEW c \in Handle,
         NEW g \in Handle, Listen(l, h, c, g)
  PROVE  ExactBut(L)'
<1>1. HandlesOf(l)' = {h, c} /\ \A m \in Node \ {l} : HandlesOf(m)' = HandlesOf(m)
  BY DEF HeapInv, TypeOK, HandlesOf, Listen, Unused
<1>2. Cardinality({h, c}) = 2
  <2>1. IsFiniteSet({h}) /\ Cardinality({h}) = 1
    BY FS_Singleton
  <2>2. c \notin {h} /\ {h, c} = {h} \cup {c}
    BY DEF Listen
  <2>3. Cardinality({h} \cup {c}) = Cardinality({h}) + 1
    BY <2>1, <2>2, FS_AddElement
  <2> QED BY <2>1, <2>2, <2>3
<1>3. refCount'[l] = 2 /\ \A m \in Node \ {l} : refCount'[m] = refCount[m]
  BY DEF HeapInv, TypeOK, Listen
<1> QED BY <1>1, <1>2, <1>3 DEF ExactBut

LEMMA CountProgram ==
  ASSUME HeapInv, NEW L, ExactBut(L), ProgramStep
  PROVE  ExactBut(L)'
<1>1. ASSUME NEW n \in Node, NEW h \in Handle, New(n, h)
      PROVE  ExactBut(L)'
  BY <1>1, CountCreate DEF New
<1>2. ASSUME NEW n \in Node, NEW h \in Handle, Upgrade(n, h)
      PROVE  ExactBut(L)'
  BY <1>2, CountIncRef DEF Upgrade
<1>3. ASSUME NEW l \in Listener, NEW h \in Handle, NEW g \in Handle, ListenWeak(l, h, g)
      PROVE  ExactBut(L)'
  BY <1>3, CountCreate DEF ListenWeak
<1>9. ASSUME NEW l \in Listener, NEW h \in Handle, NEW c \in Handle, NEW g \in Handle,
             Listen(l, h, c, g)
      PROVE  ExactBut(L)'
  BY <1>9, CountListen
<1>4. ASSUME NEW l \in Listener, NEW k \in Handle, NEW g \in Handle, NEW o \in Node,
             Defer(l, k, g, o)
      PROVE  ExactBut(L)'
  BY <1>4, CountCreate DEF Defer
<1>5. ASSUME NEW g \in Handle, NEW h \in Handle, NEW o \in Node \cup {Program}, Clone(g, h, o)
      PROVE  ExactBut(L)'
  <2>1. target[g] \in Node
    BY <1>5 DEF HeapInv, TypeOK, Clone, Accessible
  <2> QED BY <1>5, <2>1, CountIncRef DEF Clone
<1>6. ASSUME NEW h \in Handle, Drop(h)
      PROVE  ExactBut(L)'
  BY <1>6, CountsKept DEF Drop, counts
<1>7. ASSUME NEW l \in Listener, Unlisten(l)
      PROVE  ExactBut(L)'
  BY <1>7, CountsKept DEF Unlisten, counts
<1>8. ASSUME Collect
      PROVE  ExactBut(L)'
  BY <1>8, CountsKept DEF Collect, heap
<1> QED
  BY <1>1, <1>2, <1>3, <1>4, <1>5, <1>6, <1>7, <1>8, <1>9 DEF ProgramStep

(* The collector counts nothing itself: what it frees is dropped.          *)
LEMMA CollectorKeeps == CollectorStep => UNCHANGED <<target, refCount>>
<1>1. MarkRoot \/ MarkDone \/ ScanRoot \/ ScanDone => UNCHANGED <<target, refCount>>
  BY DEF MarkRoot, MarkDone, ScanRoot, ScanDone, heap, counts
<1>2. CollectRoot \/ CollectDone \/ CollectLeave => UNCHANGED <<target, refCount>>
  BY DEF CollectRoot, CollectDone, CollectLeave, heap, counts
<1>3. (\E h \in Handle : CollectVisit(h)) => UNCHANGED <<target, refCount>>
  BY DEF CollectVisit, heap
<1>4. Free \/ Retain \/ FreeDone \/ Again => UNCHANGED <<target, refCount>>
  BY DEF Free, Retain, FreeDone, Again, heap, counts
<1> QED BY <1>1, <1>2, <1>3, <1>4 DEF CollectorStep

LEMMA CountNext ==
  ASSUME HeapInv, NEW L, ExactBut(L), [Next]_vars,
         \A k \in KeepHandle : target[k] \in L \cup {None}
  PROVE  ExactBut(L)'
<1>1. CASE ProgramStep
  BY <1>1, CountProgram
<1>2. CASE CollectorStep
  BY <1>2, CollectorKeeps, CountsKept
<1>3. CASE DropStep
  BY <1>3, CountRunDrop DEF DropStep
<1>4. CASE UNCHANGED vars
  BY <1>4, CountsKept DEF vars, heap, counts
<1> QED BY <1>1, <1>2, <1>3, <1>4 DEF Next

LEMMA CountInit == Init => \A L : ExactBut(L)
<1> SUFFICES ASSUME Init, NEW L PROVE ExactBut(L)
  OBVIOUS
<1>1. \A n \in Node : HandlesOf(n) = {} /\ refCount[n] = 0
  BY DEF Init, HandlesOf
<1> QED BY <1>1, FS_EmptySet DEF ExactBut

LEMMA CountStep == HeapInv /\ RefCountExact /\ [Next]_vars => RefCountExact'
<1>1. RefCountExact <=> ExactBut(Listener)
  BY DEF RefCountExact, ExactBut
<1>2. RefCountExact' <=> ExactBut(Listener)'
  BY DEF RefCountExact, ExactBut
<1>3. HeapInv => \A k \in KeepHandle : target[k] \in Listener \cup {None}
  BY DEF HeapInv
<1> QED BY <1>1, <1>2, <1>3, CountNext

(* inc_ref, dec_ref: whatever the program does, and in whatever order the  *)
(* drops and the collector run, the count of a stream or a cell is exactly *)
(* the number of handles to it, and that of a Listener no less.            *)
THEOREM CountsExact == Spec => []RefCountExact
<1>1. Init => RefCountExact
  BY CountInit DEF RefCountExact, ExactBut
<1> QED BY <1>1, CountStep, HeapInit, HeapStep, PTL DEF Spec

-----------------------------------------------------------------------------
(* What is freed *)

(* The nodes of a color. *)
Grays == {n \in Node : color[n] = "gray"}
Whites == {n \in Node : color[n] = "white"}

(* The entries of local the running function has not looked at yet. *)
Ahead == {local[i] : i \in pos .. Len(local)}

(* A sequence without repetitions. *)
NoRepeat(s) == \A i, j \in DOMAIN s : s[i] = s[j] => i = j

(* The handles to n that trace of the nodes of S visits. *)
CountedIn(n, S) == {h \in HandlesOf(n) : \E m \in S : h \in Trace(m)}

(* Every node of P is reached from S by stepping on nodes of P only. *)
Spans(S, P) ==
  \A C \in SUBSET Node : S \subseteq C /\ ClosedIn(C, P) => P \subseteq C

(* Where a buffered node waits. *)
Waiting ==
  CASE phase = "mark" -> Elems(roots) \cup Ahead
    [] phase = "collect" -> Ahead
    [] OTHER -> Elems(roots)

-----------------------------------------------------------------------------
(* The inductive invariant *)

(* The lists: nothing twice, and buffered says what waits in them.         *)
ListInv ==
  /\ NoRepeat(roots) /\ NoRepeat(local)
  /\ \A n \in Node : n \in Waiting => buffered[n]
  /\ \A n \in Node : buffered[n] /\ ~freed[n] => n \in Waiting
  /\ phase = "mark" => Elems(roots) \cap Ahead = {}
  /\ phase = "scan" => roots = local
  /\ phase = "collect" => roots = <<>>
  /\ Elems(roots) \cup Elems(local) \cup Elems(toBeFreed) \cup Elems(white) \cup Elems(stack)
       \subseteq created

(* What each function has emptied when the next one starts.                *)
PhaseInv ==
  /\ phase \in {"mark", "scan", "collect"} => dropping = {}
  /\ phase \notin {"collect", "free"} => white = <<>>
  /\ phase # "collect" => stack = <<>>
  /\ phase # "free" => freeing = None
  /\ phase \notin {"mark", "scan", "collect"} => toBeFreed = <<>>
  /\ \A n \in Elems(toBeFreed) : HandlesOf(n) = {}
  /\ phase \notin {"mark", "scan"} => \A n \in Node : refCountAdj[n] = 0
  /\ phase \notin {"mark", "scan"} => Grays = {}
  /\ phase \notin {"scan", "collect"} => Whites = {}

(* mark_roots: the gray nodes are what the kept roots reach, and the       *)
(* adjustments count the edges out of them.                                *)
MarkInv ==
  phase = "mark" =>
    /\ Elems(roots) \subseteq Grays
    /\ ClosedIn(Grays, Node)
    /\ Spans(Elems(roots), Grays)
    /\ \A n \in Node : refCountAdj[n] = Cardinality(CountedIn(n, Grays))

(* scan: gray and white nodes are left among what the roots reach, the     *)
(* edges out of which the adjustments still count; a gray node is reached  *)
(* from a root ahead, a white one from a root behind; black spreads.       *)
ScanInv ==
  phase = "scan" =>
    LET G == Reach(Elems(local)) IN
    /\ Grays \cup Whites \subseteq G
    /\ \A n \in G : color[n] # "purple"
    /\ \A n \in Node : refCountAdj[n] = Cardinality(CountedIn(n, G))
    /\ Spans(Ahead \cap Grays, Grays)
    /\ Spans(Elems(local) \cap Whites, Whites)
    /\ \A n \in Whites : Internal(n)
    /\ \A m \in G : color[m] = "black" => \A h \in Trace(m) : color[target[h]] = "black"

(* What scan left white, wherever collect_white has moved it since.        *)
Dead == Whites \cup Elems(stack) \cup Elems(white)

(* collect_white: the dead nodes hold every handle to one of them, and     *)
(* whatever is still white will be met.                                    *)
CollectInv ==
  phase = "collect" =>
    /\ \A n \in Dead : \A h \in HandlesOf(n) : owner[h] \in Dead
    /\ Elems(stack) \cap Whites = {}
    /\ Spans((Ahead \cap Whites) \cup Elems(stack), Whites)

(* collect_roots: the same of the white list, freed up to pos.             *)
FreeInv ==
  phase = "free" =>
    /\ \A n \in Elems(white) : \A h \in HandlesOf(n) : owner[h] \in Elems(white)
    /\ \A n \in Node : freed[n] => HandlesOf(n) = {} \/ n \in Elems(white)
    /\ \A i \in DOMAIN white : i < pos => freed[white[i]]
    /\ freeing # None => pos \in DOMAIN white /\ freeing = white[pos] /\ freed[freeing]

(* A freed node owns nothing, and no one has a handle to it once           *)
(* collect_roots has returned; and when an assertion does fail, a Listener *)
(* has been counted for more handles than it has.                          *)
FreedInv ==
  /\ \A n \in Node : freed[n] => n \in created /\ OwnedBy(n) \subseteq dropping
  /\ phase # "free" /\ ~panicked => \A n \in Node : freed[n] => HandlesOf(n) = {}
  /\ panicked => NoLiveFreed
  /\ panicked => phase = "again" /\ \E l \in Listener : refCount[l] # Cardinality(HandlesOf(l))

SafetyInv ==
  /\ HeapInv /\ RefCountExact
  /\ ListInv /\ PhaseInv /\ MarkInv /\ ScanInv /\ CollectInv /\ FreeInv /\ FreedInv

-----------------------------------------------------------------------------
(* Sequences *)

LEMMA ElemsAppend ==
  ASSUME NEW s \in Seq(Node), NEW n \in Node
  PROVE  /\ Elems(Append(s, n)) = Elems(s) \cup {n}
         /\ NoRepeat(s) /\ n \notin Elems(s) => NoRepeat(Append(s, n))
<1>1. /\ DOMAIN Append(s, n) = 1 .. Len(s) + 1 /\ DOMAIN s = 1 .. Len(s) /\ Len(s) \in Nat
      /\ Append(s, n)[Len(s) + 1] = n
      /\ \A i \in 1 .. Len(s) : Append(s, n)[i] = s[i]
  OBVIOUS
<1>2. Elems(Append(s, n)) = Elems(s) \cup {n}
  BY <1>1 DEF Elems
<1>3. ASSUME NoRepeat(s), n \notin Elems(s) PROVE NoRepeat(Append(s, n))
  BY <1>1, <1>3 DEF Elems, NoRepeat
<1> QED BY <1>2, <1>3

LEMMA ElemsEmpty == Elems(<<>>) = {} /\ NoRepeat(<<>>)
  BY DEF Elems, NoRepeat

LEMMA ElemsConcat ==
  ASSUME NEW s \in Seq(Node), NEW t \in Seq(Node)
  PROVE  Elems(s \o t) = Elems(s) \cup Elems(t)
<1>1. /\ Len(s) \in Nat /\ Len(t) \in Nat
      /\ DOMAIN (s \o t) = 1 .. Len(s) + Len(t) /\ DOMAIN s = 1 .. Len(s) /\ DOMAIN t = 1 .. Len(t)
      /\ \A i \in 1 .. Len(s) : (s \o t)[i] = s[i]
      /\ \A i \in 1 .. Len(t) : (s \o t)[Len(s) + i] = t[i]
  OBVIOUS
<1>2. \A i \in DOMAIN (s \o t) : i \in 1 .. Len(s) \/ (i - Len(s) \in 1 .. Len(t) /\ i = Len(s) + (i - Len(s)))
  BY <1>1
<1>3. Elems(s \o t) \subseteq Elems(s) \cup Elems(t)
  BY <1>1, <1>2 DEF Elems
<1>4. Elems(s) \subseteq Elems(s \o t)
  BY <1>1 DEF Elems
<1>5. Elems(t) \subseteq Elems(s \o t)
  <2> SUFFICES ASSUME NEW i \in DOMAIN t PROVE t[i] \in Elems(s \o t)
    BY DEF Elems
  <2>1. Len(s) + i \in DOMAIN (s \o t) /\ (s \o t)[Len(s) + i] = t[i]
    BY <1>1
  <2> QED BY <2>1 DEF Elems
<1> QED BY <1>3, <1>4, <1>5

(* A stack without its top.                                                *)
LEMMA ElemsPop ==
  ASSUME NEW s \in Seq(Node), s # <<>>
  PROVE  /\ SubSeq(s, 1, Len(s) - 1) \in Seq(Node)
         /\ s[Len(s)] \in Node
         /\ Elems(s) = Elems(SubSeq(s, 1, Len(s) - 1)) \cup {s[Len(s)]}
<1> DEFINE t == SubSeq(s, 1, Len(s) - 1)
<1>1. Len(s) \in Nat /\ Len(s) > 0
  OBVIOUS
<1>0. DOMAIN s = 1 .. Len(s) /\ s[Len(s)] \in Node /\ Len(s) \in DOMAIN s
  OBVIOUS
<1>2. t \in Seq(Node) /\ DOMAIN t = 1 .. Len(s) - 1 /\ \A i \in 1 .. Len(s) - 1 : t[i] = s[i]
  BY <1>1
<1> HIDE DEF t
<1>3. \A i \in 1 .. Len(s) : i = Len(s) \/ i \in 1 .. Len(s) - 1
  BY <1>1
<1>5. 1 .. Len(s) - 1 \subseteq 1 .. Len(s)
  BY <1>1
<1>4. Elems(s) = Elems(t) \cup {s[Len(s)]}
  BY <1>0, <1>2, <1>3, <1>5, Zenon DEF Elems
<1> QED BY <1>0, <1>2, <1>4 DEF t

(* retain takes the node out of roots, and nothing else.                   *)
LEMMA ElemsWithout ==
  ASSUME NEW s \in Seq(Node), NoRepeat(s), NEW m
  PROVE  Elems(Without(s, m)) = Elems(s) \ {m} /\ NoRepeat(Without(s, m))
<1>1. CASE m \in Elems(s)
  <2> DEFINE i == CHOOSE j \in DOMAIN s : s[j] = m
             a == SubSeq(s, 1, i - 1)
             b == SubSeq(s, i + 1, Len(s))
             t == a \o b
  <2>0. DOMAIN s = 1 .. Len(s)
    OBVIOUS
  <2>1. i \in 1 .. Len(s) /\ s[i] = m /\ Len(s) \in Nat
    BY <1>1 DEF Elems
  <2>2. Without(s, m) = t
    BY <1>1 DEF Without
  <2> HIDE DEF i
  <2>3. /\ Len(a) = i - 1 /\ a \in Seq(Node)
        /\ \A j \in 1 .. i - 1 : a[j] = s[j]
    BY <2>1
  <2>4. /\ Len(b) = Len(s) - i /\ b \in Seq(Node)
        /\ \A j \in 1 .. Len(s) - i : b[j] = s[i + j]
    BY <2>1
  <2> HIDE DEF a, b
  <2>5. /\ DOMAIN t = 1 .. Len(s) - 1
        /\ \A j \in 1 .. Len(s) - 1 : t[j] = IF j < i THEN s[j] ELSE s[j + 1]
    <3>9. a \in Seq(Node) /\ b \in Seq(Node)
      BY <2>3, <2>4
    <3>1. DOMAIN t = 1 .. Len(a) + Len(b)
      BY <3>9
    <3>2. \A j \in 1 .. Len(a) + Len(b) : t[j] = IF j <= Len(a) THEN a[j] ELSE b[j - Len(a)]
      BY <3>9
    <3> HIDE DEF t
    <3>0. Len(a) = i - 1 /\ Len(b) = Len(s) - i /\ Len(a) + Len(b) = Len(s) - 1
      <4>1. Len(a) = i - 1 /\ Len(b) = Len(s) - i
        BY <2>3, <2>4
      <4> QED BY <2>1, <4>1
    <3>3. DOMAIN t = 1 .. Len(s) - 1
      BY <3>0, <3>1
    <3>4. ASSUME NEW j \in 1 .. Len(s) - 1
          PROVE  t[j] = IF j < i THEN s[j] ELSE s[j + 1]
      <4>0. t[j] = IF j <= Len(a) THEN a[j] ELSE b[j - Len(a)]
        BY <3>0, <3>2
      <4>1. CASE j < i
        <5>1. j <= Len(a) /\ j \in 1 .. i - 1
          BY <4>1, <2>1, <3>0
        <5> QED BY <4>0, <4>1, <5>1, <2>3
      <4>2. CASE j >= i
        <5>1. j - Len(a) \in 1 .. Len(s) - i /\ i + (j - Len(a)) = j + 1
          BY <4>2, <2>1, <3>0
        <5>2. ~(j <= Len(a)) /\ ~(j < i)
          BY <4>2, <2>1, <3>0
        <5> QED BY <4>0, <5>1, <5>2, <2>4
      <4> QED BY <4>1, <4>2, <2>1
    <3> QED BY <3>3, <3>4
  <2> HIDE DEF t
  <2>6. \A j \in DOMAIN t : t[j] \in Elems(s) \ {m}
    <3> TAKE j \in DOMAIN t
    <3> DEFINE k == IF j < i THEN j ELSE j + 1
    <3>1. k \in 1 .. Len(s) /\ k # i /\ t[j] = s[k]
      BY <2>1, <2>5
    <3> HIDE DEF k
    <3> QED BY <3>1, <2>1 DEF NoRepeat, Elems
  <2>7. \A k \in DOMAIN s : s[k] # m => \E j \in DOMAIN t : t[j] = s[k]
    <3> SUFFICES ASSUME NEW k \in DOMAIN s, s[k] # m PROVE \E j \in DOMAIN t : t[j] = s[k]
      OBVIOUS
    <3>1. k # i
      BY <2>1
    <3>2. CASE k < i
      BY <3>2, <2>1, <2>5
    <3>3. CASE k > i
      <4>1. k - 1 \in DOMAIN t /\ t[k - 1] = s[k]
        BY <3>3, <2>1, <2>5
      <4> QED BY <4>1
    <3> QED BY <3>1, <3>2, <3>3, <2>1
  <2>8. NoRepeat(t)
    <3> SUFFICES ASSUME NEW j \in DOMAIN t, NEW k \in DOMAIN t, t[j] = t[k] PROVE j = k
      BY DEF NoRepeat
    <3> DEFINE up(x) == IF x < i THEN x ELSE x + 1
    <3>1. up(j) \in DOMAIN s /\ up(k) \in DOMAIN s /\ s[up(j)] = s[up(k)]
      BY <2>1, <2>5
    <3>2. up(j) = up(k)
      BY <3>1 DEF NoRepeat
    <3> QED BY <3>2, <2>1, <2>5
  <2> QED BY <2>2, <2>6, <2>7, <2>8 DEF Elems
<1>2. CASE m \notin Elems(s)
  BY <1>2 DEF Without
<1> QED BY <1>1, <1>2

(* One more entry of local is behind.                                      *)
LEMMA AheadNext ==
  ASSUME NEW s \in Seq(Node), NEW p \in Nat \ {0}, p <= Len(s)
  PROVE  /\ {s[i] : i \in p .. Len(s)} = {s[i] : i \in p + 1 .. Len(s)} \cup {s[p]}
         /\ NoRepeat(s) => s[p] \notin {s[i] : i \in p + 1 .. Len(s)}
<1>1. p .. Len(s) = (p + 1 .. Len(s)) \cup {p} /\ p \notin p + 1 .. Len(s)
      /\ p .. Len(s) \subseteq DOMAIN s
  OBVIOUS
<1> QED BY <1>1 DEF NoRepeat

LEMMA AheadStart ==
  ASSUME NEW s \in Seq(Node)
  PROVE  {s[i] : i \in 1 .. Len(s)} = Elems(s)
  BY DEF Elems

LEMMA AheadEnd ==
  ASSUME NEW s \in Seq(Node), NEW p \in Nat, p > Len(s)
  PROVE  {s[i] : i \in p .. Len(s)} = {}
  OBVIOUS

-----------------------------------------------------------------------------
(* Reachability.  What a traversal visits holds its start, is closed, and  *)
(* is the smallest set of this kind.                                       *)
LEMMA ReachSource ==
  ASSUME NEW S \in SUBSET Node, NEW P
  PROVE  S \subseteq ReachIn(S, P) /\ ReachIn(S, P) \subseteq Node
  BY DEF ReachIn

LEMMA ReachClosed ==
  ASSUME HeapInv, NEW S \in SUBSET Node, NEW P \in SUBSET Node
  PROVE  ClosedIn(ReachIn(S, P), P)
<1> SUFFICES ASSUME NEW n \in ReachIn(S, P), NEW h \in Trace(n), target[h] \in P
             PROVE  target[h] \in ReachIn(S, P)
  BY DEF ClosedIn
<1>1. ASSUME NEW C \in SUBSET Node, S \subseteq C, ClosedIn(C, P)
      PROVE  target[h] \in C
  <2>1. n \in C
    BY <1>1 DEF ReachIn
  <2> QED BY <1>1, <2>1 DEF ClosedIn
<1> QED BY <1>1 DEF ReachIn

LEMMA ReachLeast ==
  ASSUME NEW S, NEW P, NEW C \in SUBSET Node, S \subseteq C, ClosedIn(C, P)
  PROVE  ReachIn(S, P) \subseteq C
  BY DEF ReachIn

LEMMA ReachPass ==
  ASSUME NEW P \in SUBSET Node, NEW S \in SUBSET P
  PROVE  ReachIn(S, P) \subseteq P
  BY ReachLeast DEF ClosedIn

(* The nodes the program holds a handle to, or the context.                *)
Base == {target[h] : h \in Trace(Program) \cup Trace(Context)}

(* Trace of an owner visits handles to nodes.                              *)
LEMMA TraceTarget ==
  ASSUME HeapInv, NEW o, o # None, NEW h \in Trace(o)
  PROVE  h \in Handle /\ target[h] \in Node /\ h \in HandlesOf(target[h])
  BY DEF HeapInv, TypeOK, Trace, OwnedBy, HandlesOf

LEMMA LiveSource ==
  ASSUME HeapInv
  PROVE  Base \subseteq Live /\ Live \subseteq Node /\ ClosedIn(Live, Node)
<1>1. Base \in SUBSET Node
  BY TraceTarget DEF Base
<1> QED BY <1>1, ReachSource, ReachClosed DEF Live, Reach, Base

LEMMA LiveLeast ==
  ASSUME NEW C \in SUBSET Node, Base \subseteq C, ClosedIn(C, Node)
  PROVE  Live \subseteq C
  BY ReachLeast DEF Live, Reach, Base

(* The program can only get at nodes that have handles.                    *)
LEMMA LiveHandles ==
  ASSUME HeapInv, NEW n \in Live
  PROVE  HandlesOf(n) # {}
<1> DEFINE C == {m \in Node : HandlesOf(m) # {}}
<1>1. Base \subseteq C
  BY TraceTarget DEF Base
<1>2. ClosedIn(C, Node)
  BY TraceTarget DEF ClosedIn
<1> QED BY <1>1, <1>2, LiveLeast

(* Nodes all of whose handles they hold themselves are out of reach.       *)
LEMMA DeadNotLive ==
  ASSUME HeapInv, NEW D \in SUBSET Node,
         \A n \in D : \A h \in HandlesOf(n) : owner[h] \in D
  PROVE  D \cap Live = {}
<1>1. Base \subseteq Node \ D
  BY TraceTarget DEF Base, Trace, OwnedBy
<1>2. ClosedIn(Node \ D, Node)
  BY TraceTarget DEF ClosedIn, Trace, OwnedBy
<1> QED BY <1>1, <1>2, LiveLeast

(* A step that makes no handle and gives none away gives the program no    *)
(* way to a node it had none to.                                           *)
LEMMA LiveShrinks ==
  ASSUME HeapInv, HeapInv',
         \A h \in Handle : target'[h] # None /\ owner'[h] # None /\ h \notin dropping' =>
            target'[h] = target[h] /\ owner'[h] = owner[h] /\ h \notin dropping
  PROVE  Live' \subseteq Live
<1>1. \A o : o # None => \A h \in Trace(o)' : h \in Trace(o) /\ target'[h] = target[h]
  BY DEF HeapInv, TypeOK, Trace, OwnedBy
<1>2. ASSUME NEW C \in SUBSET Node, Base \subseteq C, ClosedIn(C, Node)
      PROVE  Base' \subseteq C /\ ClosedIn(C, Node)'
  BY <1>1, <1>2 DEF Base, ClosedIn
<1>3. \A n \in Live' : n \in Node /\ \A C \in SUBSET Node : Base' \subseteq C /\ ClosedIn(C, Node)' => n \in C
  BY DEF Live, Reach, ReachIn, Base
<1> QED BY <1>2, <1>3 DEF Live, Reach, ReachIn, Base

-----------------------------------------------------------------------------
(* Counting edges *)

(* Trace of two nodes has no handle in common: a handle has one owner.     *)
LEMMA CountedFinite ==
  ASSUME NEW n \in Node, NEW S
  PROVE  /\ CountedIn(n, S) \subseteq HandlesOf(n) /\ IsFiniteSet(HandlesOf(n))
         /\ Cardinality(CountedIn(n, S)) \in Nat
         /\ Cardinality(CountedIn(n, S)) <= Cardinality(HandlesOf(n))
         /\ Cardinality(CountedIn(n, S)) = Cardinality(HandlesOf(n)) => CountedIn(n, S) = HandlesOf(n)
<1>1. CountedIn(n, S) \subseteq HandlesOf(n) /\ IsFiniteSet(HandlesOf(n))
  BY HandlesFinite DEF CountedIn, HandlesOf
<1> QED BY <1>1, FS_Subset, FS_CardinalityType

(* Two groups of nodes count their edges separately.                       *)
LEMMA CountedAdd ==
  ASSUME NEW n \in Node, NEW S, NEW T, S \cap T = {}
  PROVE  Cardinality(CountedIn(n, S \cup T)) =
           Cardinality(CountedIn(n, S)) + Cardinality(CountedIn(n, T))
<1>1. CountedIn(n, S \cup T) = CountedIn(n, S) \cup CountedIn(n, T)
  BY DEF CountedIn
<1>2. CountedIn(n, S) \cap CountedIn(n, T) = {}
  BY DEF CountedIn, Trace, OwnedBy
<1>3. IsFiniteSet(CountedIn(n, S)) /\ IsFiniteSet(CountedIn(n, T))
  BY CountedFinite, FS_Subset
<1>4. Cardinality(CountedIn(n, S)) \in Nat /\ Cardinality(CountedIn(n, T)) \in Nat
  BY CountedFinite
<1>5. Cardinality(CountedIn(n, S) \cup CountedIn(n, T)) =
        Cardinality(CountedIn(n, S)) + Cardinality(CountedIn(n, T)) - Cardinality({})
  BY <1>2, <1>3, FS_Union
<1>6. Cardinality({}) = 0
  BY FS_EmptySet
<1>7. Cardinality(CountedIn(n, S) \cup CountedIn(n, T)) =
        Cardinality(CountedIn(n, S)) + Cardinality(CountedIn(n, T))
  BY <1>4, <1>5, <1>6
<1> QED BY <1>1, <1>7

(* An assertion on the adjustments cannot fail: they count handles.        *)
LEMMA CountedBound ==
  ASSUME HeapInv, RefCountExact, NEW n \in Node, NEW S
  PROVE  Cardinality(CountedIn(n, S)) <= refCount[n]
<1>1. /\ Cardinality(CountedIn(n, S)) \in Nat /\ Cardinality(HandlesOf(n)) \in Nat
      /\ Cardinality(CountedIn(n, S)) <= Cardinality(HandlesOf(n))
  BY CountedFinite, FS_CardinalityType
<1>2. refCount[n] \in Nat /\ refCount[n] >= Cardinality(HandlesOf(n))
  BY DEF HeapInv, TypeOK, RefCountExact
<1> QED BY <1>1, <1>2

(* A count that is met by edges alone leaves no handle to anyone else.     *)
LEMMA CountedAll ==
  ASSUME HeapInv, RefCountExact, NEW n \in Node, NEW S,
         refCount[n] = Cardinality(CountedIn(n, S)), NEW h \in HandlesOf(n)
  PROVE  owner[h] \in S /\ h \in Trace(owner[h])
<1>1. /\ Cardinality(CountedIn(n, S)) \in Nat /\ Cardinality(HandlesOf(n)) \in Nat
      /\ Cardinality(CountedIn(n, S)) <= Cardinality(HandlesOf(n))
  BY CountedFinite, FS_CardinalityType
<1>2. refCount[n] \in Nat /\ refCount[n] >= Cardinality(HandlesOf(n))
  BY DEF HeapInv, TypeOK, RefCountExact
<1>3. CountedIn(n, S) = HandlesOf(n)
  BY <1>1, <1>2, CountedFinite
<1> QED BY <1>3 DEF CountedIn, Trace, OwnedBy

(* A node without count has no handle.                                     *)
LEMMA CountZero ==
  ASSUME HeapInv, RefCountExact, NEW n \in Node, refCount[n] = 0
  PROVE  HandlesOf(n) = {}
<1>1. IsFiniteSet(HandlesOf(n)) /\ Cardinality(HandlesOf(n)) \in Nat
  BY HandlesFinite DEF HandlesOf
<1>2. Cardinality(HandlesOf(n)) = 0
  BY <1>1 DEF RefCountExact
<1> QED BY <1>1, <1>2, FS_EmptySet

-----------------------------------------------------------------------------
(* Steps that leave the heap alone *)

LEMMA HeapSame ==
  ASSUME UNCHANGED <<owner, target, dropping>>
  PROVE  /\ \A o : Trace(o)' = Trace(o) /\ HandlesOf(o)' = HandlesOf(o) /\ OwnedBy(o)' = OwnedBy(o)
         /\ \A C, P : ClosedIn(C, P)' <=> ClosedIn(C, P)
<1>1. \A o : Trace(o)' = Trace(o) /\ HandlesOf(o)' = HandlesOf(o) /\ OwnedBy(o)' = OwnedBy(o)
  BY DEF Trace, OwnedBy, HandlesOf
<1>2. \A C, P : ClosedIn(C, P)' <=> ClosedIn(C, P)
  BY <1>1 DEF ClosedIn
<1> QED BY <1>1, <1>2

(* The lists, while the program or a drop pushes a root at most.           *)
LEMMA ListPush ==
  ASSUME HeapInv, ListInv, phase \in {"idle", "free", "again"},
         UNCHANGED <<phase, local, pos, toBeFreed, white, stack, freed>>,
         created \subseteq created',
         UNCHANGED <<buffered, roots>> \/ \E n \in Node \cap created' : PossibleRoot(n)
  PROVE  ListInv'
<1>1. Waiting = Elems(roots) /\ Waiting' = Elems(roots')
  BY DEF Waiting
<1>2. CASE UNCHANGED <<buffered, roots>>
  BY <1>1, <1>2 DEF ListInv
<1>3. ASSUME NEW n \in Node \cap created', PossibleRoot(n), ~ UNCHANGED <<buffered, roots>>
      PROVE  ListInv'
  <2>1. /\ buffered' = [buffered EXCEPT ![n] = TRUE] /\ roots' = Append(roots, n) /\ ~buffered[n]
    BY <1>3 DEF PossibleRoot
  <2>2. /\ Elems(roots') = Elems(roots) \cup {n} /\ n \notin Elems(roots) /\ NoRepeat(roots')
    BY <1>1, <2>1, ElemsAppend DEF ListInv, HeapInv, TypeOK
  <2>3. \A m \in Node : buffered'[m] <=> buffered[m] \/ m = n
    BY <2>1 DEF HeapInv, TypeOK
  <2> QED BY <1>1, <2>2, <2>3 DEF ListInv
<1> QED BY <1>2, <1>3
-----------------------------------------------------------------------------
(* The lists, through a collection *)

LEMMA ListBeginRound ==
  ASSUME HeapInv, ListInv, PhaseInv, phase \in {"idle", "again"}, BeginRound,
         UNCHANGED <<created, buffered, freed, toBeFreed, white, stack>>
  PROVE  ListInv'
<1>1. /\ phase' = "mark" /\ local' = roots /\ roots' = <<>> /\ pos' = 1
  BY DEF BeginRound
<1>2. Ahead' = Elems(roots) /\ Elems(roots') = {} /\ NoRepeat(roots')
  <2>1. Ahead' = {roots[i] : i \in 1 .. Len(roots)} /\ roots \in Seq(Node)
    BY <1>1 DEF Ahead, HeapInv, TypeOK
  <2>2. Ahead' = Elems(roots)
    BY <2>1, AheadStart
  <2> QED BY <1>1, <2>2, ElemsEmpty
<1>3. Waiting = Elems(roots) /\ Waiting' = Elems(roots)
  BY <1>1, <1>2 DEF Waiting
<1> QED BY <1>1, <1>2, <1>3 DEF ListInv

LEMMA ListMarkRoot ==
  ASSUME HeapInv, ListInv, PhaseInv, MarkRoot
  PROVE  ListInv'
<1>0. /\ phase = "mark" /\ pos <= Len(local) /\ pos' = pos + 1
      /\ UNCHANGED <<created, freed, phase, local, stack, white>>
  BY DEF MarkRoot, heap
<1>1. PICK r \in Node : r = local[pos]
  BY <1>0 DEF HeapInv, TypeOK
<1>2. /\ Ahead = Ahead' \cup {r} /\ r \notin Ahead'
      /\ r \in Elems(local)
  <2>1. local \in Seq(Node) /\ pos \in Nat \ {0} /\ NoRepeat(local)
    BY DEF ListInv, HeapInv, TypeOK
  <2>2. /\ {local[i] : i \in pos .. Len(local)} = {local[i] : i \in pos + 1 .. Len(local)} \cup {local[pos]}
        /\ local[pos] \notin {local[i] : i \in pos + 1 .. Len(local)}
    BY <1>0, <2>1, AheadNext
  <2>3. local[pos] \in Elems(local)
    BY <1>0, <2>1 DEF Elems
  <2> QED BY <1>0, <1>1, <2>2, <2>3 DEF Ahead
<1>3. /\ Waiting = Elems(roots) \cup Ahead /\ Waiting' = Elems(roots') \cup Ahead'
  BY <1>0 DEF Waiting
<1>4. CASE color[r] = "purple"
  <2>1. roots' = Append(roots, r) /\ UNCHANGED <<buffered, toBeFreed>>
    BY <1>1, <1>4 DEF MarkRoot
  <2>2. r \notin Elems(roots)
    BY <1>0, <1>2 DEF ListInv
  <2>3. Elems(roots') = Elems(roots) \cup {r} /\ NoRepeat(roots')
    BY <2>1, <2>2, ElemsAppend DEF HeapInv, TypeOK, ListInv
  <2> QED BY <1>0, <1>2, <1>3, <2>1, <2>3 DEF ListInv
<1>5. CASE color[r] # "purple"
  <2>1. /\ buffered' = [buffered EXCEPT ![r] = FALSE]
        /\ toBeFreed' = IF color[r] = "black" /\ refCount[r] = 0 /\ ~freed[r]
                        THEN Append(toBeFreed, r) ELSE toBeFreed
        /\ UNCHANGED roots
    BY <1>1, <1>5 DEF MarkRoot
  <2>2. Elems(toBeFreed') \subseteq Elems(toBeFreed) \cup {r}
    BY <2>1, ElemsAppend DEF HeapInv, TypeOK
  <2>3. \A n \in Node : buffered'[n] <=> buffered[n] /\ n # r
    BY <2>1 DEF HeapInv, TypeOK
  <2>4. r \notin Elems(roots)
    BY <1>0, <1>2 DEF ListInv
  <2> QED BY <1>0, <1>2, <1>3, <2>1, <2>2, <2>3, <2>4 DEF ListInv
<1> QED BY <1>4, <1>5

LEMMA ListMarkDone ==
  ASSUME HeapInv, ListInv, PhaseInv, MarkDone
  PROVE  ListInv'
<1>1. /\ phase = "mark" /\ phase' = "scan" /\ local' = roots /\ pos > Len(local)
      /\ UNCHANGED <<created, buffered, roots, freed, toBeFreed, white, stack>>
  BY DEF MarkDone, heap, counts
<1>2. Ahead = {}
  BY <1>1, AheadEnd DEF Ahead, HeapInv, TypeOK
<1>3. Waiting = Elems(roots) /\ Waiting' = Elems(roots)
  BY <1>1, <1>2 DEF Waiting
<1> QED BY <1>1, <1>3 DEF ListInv

LEMMA ListScanRoot ==
  ASSUME HeapInv, ListInv, PhaseInv, ScanRoot
  PROVE  ListInv'
<1>1. phase = "scan" /\ UNCHANGED <<created, roots, phase, local, buffered, freed, toBeFreed, white, stack>>
  BY DEF ScanRoot, heap
<1>2. Waiting = Elems(roots) /\ Waiting' = Elems(roots)
  BY <1>1 DEF Waiting
<1> QED BY <1>1, <1>2 DEF ListInv

LEMMA ListScanDone ==
  ASSUME HeapInv, ListInv, PhaseInv, ScanDone
  PROVE  ListInv'
<1>1. /\ phase = "scan" /\ phase' = "collect" /\ roots' = <<>> /\ pos' = 1
      /\ UNCHANGED <<created, local, buffered, freed, toBeFreed, white, stack>>
  BY DEF ScanDone, heap
<1>2. roots = local
  BY <1>1 DEF ListInv
<1>3. Ahead' = Elems(local) /\ Elems(roots') = {} /\ NoRepeat(roots')
  <2>1. Ahead' = {local[i] : i \in 1 .. Len(local)} /\ local \in Seq(Node)
    BY <1>1 DEF Ahead, HeapInv, TypeOK
  <2>2. Ahead' = Elems(local)
    BY <2>1, AheadStart
  <2> QED BY <1>1, <2>2, ElemsEmpty
<1>4. Waiting = Elems(roots) /\ Waiting' = Elems(roots)
  BY <1>1, <1>2, <1>3 DEF Waiting
<1> QED BY <1>1, <1>3, <1>4 DEF ListInv

LEMMA ListCollectRoot ==
  ASSUME HeapInv, ListInv, PhaseInv, CollectRoot
  PROVE  ListInv'
<1>0. /\ phase = "collect" /\ pos <= Len(local) /\ pos' = pos + 1
      /\ UNCHANGED <<created, roots, freed, phase, local, white, toBeFreed>>
  BY DEF CollectRoot, heap
<1>1. PICK r \in Node : r = local[pos]
  BY <1>0 DEF HeapInv, TypeOK
<1>2. Ahead = Ahead' \cup {r} /\ r \notin Ahead' /\ r \in Elems(local)
  <2>1. local \in Seq(Node) /\ pos \in Nat \ {0} /\ NoRepeat(local)
    BY DEF ListInv, HeapInv, TypeOK
  <2>2. /\ {local[i] : i \in pos .. Len(local)} = {local[i] : i \in pos + 1 .. Len(local)} \cup {local[pos]}
        /\ local[pos] \notin {local[i] : i \in pos + 1 .. Len(local)}
    BY <1>0, <2>1, AheadNext
  <2>3. local[pos] \in Elems(local)
    BY <1>0, <2>1 DEF Elems
  <2> QED BY <1>0, <1>1, <2>2, <2>3 DEF Ahead
<1>3. Waiting = Ahead /\ Waiting' = Ahead'
  BY <1>0 DEF Waiting
<1>4. /\ buffered' = [buffered EXCEPT ![r] = FALSE]
      /\ stack' = <<r>> \/ stack' = stack
  BY <1>1 DEF CollectRoot
<1>5. \A n \in Node : buffered'[n] <=> buffered[n] /\ n # r
  BY <1>4 DEF HeapInv, TypeOK
<1>6. Elems(<<r>>) = {r}
  BY DEF Elems
<1> QED BY <1>0, <1>2, <1>3, <1>4, <1>5, <1>6 DEF ListInv

LEMMA ListCollectVisit ==
  ASSUME HeapInv, ListInv, PhaseInv, NEW h \in Handle, CollectVisit(h)
  PROVE  ListInv'
<1>1. /\ phase = "collect"
      /\ UNCHANGED <<created, roots, phase, local, pos, buffered, freed, toBeFreed, white>>
      /\ stack' = Append(stack, target[h]) /\ stack # <<>> /\ h \in Trace(stack[Len(stack)])
  BY DEF CollectVisit, heap
<1>2. target[h] \in Node /\ target[h] \in created
  <2>1. stack[Len(stack)] \in Node
    BY <1>1 DEF HeapInv, TypeOK
  <2>2. h \in Handle /\ target[h] \in Node
    BY <1>1, <2>1, TraceTarget
  <2> QED BY <2>2 DEF HeapInv
<1>3. Elems(stack') = Elems(stack) \cup {target[h]}
  BY <1>1, <1>2, ElemsAppend DEF HeapInv, TypeOK
<1>4. Waiting = Ahead /\ Waiting' = Ahead' /\ Ahead' = Ahead
  BY <1>1 DEF Waiting, Ahead
<1> QED BY <1>1, <1>2, <1>3, <1>4 DEF ListInv

LEMMA ListCollectLeave ==
  ASSUME HeapInv, ListInv, PhaseInv, CollectLeave
  PROVE  ListInv'
<1>1. /\ phase = "collect" /\ stack # <<>>
      /\ UNCHANGED <<created, roots, phase, local, pos, buffered, freed, toBeFreed>>
      /\ white' = Append(white, stack[Len(stack)])
      /\ stack' = SubSeq(stack, 1, Len(stack) - 1)
  BY DEF CollectLeave, heap, counts
<1>2. /\ Elems(stack) = Elems(stack') \cup {stack[Len(stack)]}
      /\ Elems(white') = Elems(white) \cup {stack[Len(stack)]}
  BY <1>1, ElemsPop, ElemsAppend DEF HeapInv, TypeOK
<1>4. Waiting = Ahead /\ Waiting' = Ahead' /\ Ahead' = Ahead
  BY <1>1 DEF Waiting, Ahead
<1> QED BY <1>1, <1>2, <1>4 DEF ListInv

LEMMA ListCollectDone ==
  ASSUME HeapInv, ListInv, PhaseInv, CollectDone
  PROVE  ListInv'
<1>1. /\ phase = "collect" /\ phase' = "free" /\ pos > Len(local)
      /\ UNCHANGED <<created, roots, local, buffered, freed, stack>>
      /\ white' = white \o toBeFreed /\ toBeFreed' = <<>>
  BY DEF CollectDone, heap, counts
<1>2. Ahead = {}
  BY <1>1, AheadEnd DEF Ahead, HeapInv, TypeOK
<1>3. roots = <<>>
  BY <1>1 DEF ListInv
<1>4. Waiting = {} /\ Waiting' = {}
  BY <1>1, <1>2, <1>3, ElemsEmpty DEF Waiting
<1>5. Elems(white') = Elems(white) \cup Elems(toBeFreed) /\ Elems(toBeFreed') = {}
  BY <1>1, ElemsConcat, ElemsEmpty DEF HeapInv, TypeOK
<1> QED BY <1>1, <1>4, <1>5 DEF ListInv

LEMMA ListFree ==
  ASSUME HeapInv, ListInv, PhaseInv, Free
  PROVE  ListInv'
<1>1. /\ phase = "free"
      /\ UNCHANGED <<created, roots, local, buffered, stack, phase, white, toBeFreed>>
      /\ \A n \in Node : freed[n] => freed'[n]
  BY DEF Free, counts, HeapInv, TypeOK
<1>2. Waiting = Elems(roots) /\ Waiting' = Elems(roots)
  BY <1>1 DEF Waiting
<1> QED BY <1>1, <1>2 DEF ListInv

LEMMA ListRetain ==
  ASSUME HeapInv, ListInv, PhaseInv, FreeInv, Retain
  PROVE  ListInv'
<1>1. /\ phase = "free" /\ freed[freeing]
      /\ UNCHANGED <<created, local, buffered, freed, stack, phase, white, toBeFreed>>
      /\ roots' = Without(roots, freeing)
  BY DEF Retain, heap, PhaseInv, FreeInv
<1>2. Elems(roots') = Elems(roots) \ {freeing} /\ NoRepeat(roots')
  BY <1>1, ElemsWithout DEF HeapInv, TypeOK, ListInv
<1>3. Waiting = Elems(roots) /\ Waiting' = Elems(roots')
  BY <1>1 DEF Waiting
<1> QED BY <1>1, <1>2, <1>3 DEF ListInv

LEMMA ListFreeDone ==
  ASSUME HeapInv, ListInv, PhaseInv, FreeDone
  PROVE  ListInv'
<1>1. /\ phase = "free" /\ phase' = "again" /\ local' = <<>> /\ white' = <<>>
      /\ UNCHANGED <<created, roots, buffered, freed, stack, toBeFreed>>
  BY DEF FreeDone, counts
<1>2. Elems(local') = {} /\ Elems(white') = {} /\ NoRepeat(local')
  BY <1>1, ElemsEmpty
<1>3. Waiting = Elems(roots) /\ Waiting' = Elems(roots)
  BY <1>1 DEF Waiting
<1> QED BY <1>1, <1>2, <1>3 DEF ListInv

LEMMA ListAgain ==
  ASSUME HeapInv, ListInv, PhaseInv, Again
  PROVE  ListInv'
<1>1. UNCHANGED <<created, buffered, freed, toBeFreed, white, stack>> /\ phase = "again"
  BY DEF Again, heap
<1>2. CASE BeginRound
  BY <1>1, <1>2, ListBeginRound
<1>3. CASE phase' = "idle" /\ UNCHANGED <<local, roots>>
  <2>1. Waiting = Elems(roots) /\ Waiting' = Elems(roots)
    BY <1>1, <1>3 DEF Waiting
  <2> QED BY <1>1, <1>3, <2>1 DEF ListInv
<1> QED BY <1>2, <1>3 DEF Again
-----------------------------------------------------------------------------
(* The program, and the drops between two rounds *)

LEMMA SafetyInit == Init => SafetyInv
<1> SUFFICES ASSUME Init PROVE SafetyInv
  OBVIOUS
<1>1. HeapInv
  BY HeapInit
<1>2. \A n \in Node : HandlesOf(n) = {} /\ OwnedBy(n) = {} /\ refCount[n] = 0
  BY DEF Init, HandlesOf, OwnedBy
<1>3. RefCountExact
  BY <1>2, FS_EmptySet DEF RefCountExact
<1>4. ListInv
  BY ElemsEmpty DEF ListInv, Waiting, Init
<1>5. PhaseInv
  BY ElemsEmpty DEF PhaseInv, Init, Grays, Whites
<1>6. MarkInv /\ ScanInv /\ CollectInv /\ FreeInv
  BY DEF MarkInv, ScanInv, CollectInv, FreeInv, Init
<1>7. FreedInv
  BY DEF FreedInv, Init
<1> QED BY <1>1, <1>3, <1>4, <1>5, <1>6, <1>7 DEF SafetyInv

(* A step of the program or a drop, which hands nothing to a freed node.   *)
LEMMA HeapOnly ==
  ASSUME SafetyInv, HeapInv', RefCountExact',
         phase \in {"idle", "again", "free"}, ~panicked,
         UNCHANGED <<cursor, toBeFreed, refCountAdj, freed, panicked>>,
         created \subseteq created',
         \A n \in Node : color'[n] \in {color[n], "black", "purple"},
         UNCHANGED <<buffered, roots>> \/ \E n \in Node \cap created' : PossibleRoot(n),
         \A n \in Node : freed[n] => OwnedBy(n)' \subseteq dropping',
         phase # "free" => \A n \in Node : freed[n] => HandlesOf(n)' = {},
         FreeInv'
  PROVE  SafetyInv'
<1>1. UNCHANGED <<phase, local, pos, stack, white, freeing, toBeFreed, refCountAdj, freed, panicked>>
  BY DEF cursor
<1>2. ListInv'
  BY <1>1, ListPush DEF SafetyInv
<1>3. PhaseInv'
  <2>1. Grays = {} /\ Whites = {}
    BY DEF SafetyInv, PhaseInv
  <2>2. Grays' = {} /\ Whites' = {}
    BY <2>1 DEF Grays, Whites
  <2>3. toBeFreed = <<>>
    BY DEF SafetyInv, PhaseInv
  <2> QED BY <1>1, <2>2, <2>3, ElemsEmpty DEF SafetyInv, PhaseInv
<1>4. MarkInv' /\ ScanInv' /\ CollectInv' /\ FreeInv'
  BY <1>1 DEF MarkInv, ScanInv, CollectInv
<1>5. FreedInv'
  BY <1>1 DEF SafetyInv, FreedInv
<1> QED BY <1>2, <1>3, <1>4, <1>5 DEF SafetyInv

LEMMA IdleStep ==
  ASSUME SafetyInv, HeapInv', RefCountExact',
         phase = "idle", ~panicked,
         UNCHANGED <<cursor, toBeFreed, refCountAdj, freed, panicked>>,
         created \subseteq created',
         \A n \in Node : color'[n] \in {color[n], "black", "purple"},
         UNCHANGED <<buffered, roots>> \/ \E n \in Node \cap created' : PossibleRoot(n),
         \A n \in Node : freed[n] => OwnedBy(n)' = {} /\ HandlesOf(n)' = {}
  PROVE  SafetyInv'
<1>1. FreeInv'
  BY DEF FreeInv, cursor
<1>2. \A n \in Node : freed[n] => OwnedBy(n)' \subseteq dropping'
  OBVIOUS
<1> QED BY <1>1, <1>2, HeapOnly

(* While the program runs, a freed node holds nothing and nobody holds it. *)
LEMMA RunningFreed ==
  ASSUME SafetyInv, Running
  PROVE  /\ dropping = {} /\ ~panicked /\ phase = "idle"
         /\ \A n \in Node : freed[n] => OwnedBy(n) = {} /\ HandlesOf(n) = {} /\ n \in created
         /\ \A n \in Live : n \in Node /\ ~freed[n] /\ HandlesOf(n) # {}
<1>1. dropping = {} /\ ~panicked /\ phase = "idle"
  BY DEF Running, Quiet
<1>2. \A n \in Node : freed[n] => OwnedBy(n) = {} /\ HandlesOf(n) = {} /\ n \in created
  BY <1>1 DEF SafetyInv, FreedInv
<1>3. \A n \in Live : n \in Node /\ HandlesOf(n) # {}
  BY LiveHandles, LiveSource DEF SafetyInv
<1> QED BY <1>1, <1>2, <1>3

(* What is handed out goes to nodes that are not freed.                    *)
LEMMA StillEmpty ==
  ASSUME SafetyInv, Running,
         \A x \in Handle : owner'[x] = owner[x] \/ owner'[x] \notin Node
                            \/ owner'[x] \in Live \/ owner'[x] \notin created,
         \A x \in Handle : target'[x] = target[x] \/ target'[x] \notin created
                            \/ (target'[x] \in Node /\ HandlesOf(target'[x]) # {})
  PROVE  \A m \in Node : freed[m] => OwnedBy(m)' = {} /\ HandlesOf(m)' = {}
<1> SUFFICES ASSUME NEW m \in Node, freed[m] PROVE OwnedBy(m)' = {} /\ HandlesOf(m)' = {}
  OBVIOUS
<1>1. OwnedBy(m) = {} /\ HandlesOf(m) = {} /\ m \in created /\ m \notin Live
  BY RunningFreed
<1>2. \A x \in Handle : owner'[x] # m
  BY <1>1 DEF OwnedBy
<1>3. \A x \in Handle : target'[x] # m
  BY <1>1 DEF HandlesOf
<1> QED BY <1>2, <1>3 DEF OwnedBy, HandlesOf

LEMMA SafetyNew ==
  ASSUME SafetyInv, HeapInv', RefCountExact', NEW n \in Node, NEW h \in Handle, New(n, h)
  PROVE  SafetyInv'
<1>1. Running /\ n \notin created /\ Unused(h)
  BY DEF New
<1>2. /\ created' = created \cup {n}
      /\ owner' = [owner EXCEPT ![h] = Program] /\ target' = [target EXCEPT ![h] = n]
      /\ UNCHANGED <<dropping, color, buffered, roots, refCountAdj, freed, toBeFreed, cursor, panicked>>
  BY DEF New
<1>3. \A m \in Node : freed[m] => OwnedBy(m)' = {} /\ HandlesOf(m)' = {}
  <2>1. \A x \in Handle : owner'[x] = owner[x] \/ owner'[x] \notin Node
                           \/ owner'[x] \in Live \/ owner'[x] \notin created
    BY <1>1, <1>2 DEF SafetyInv, HeapInv, TypeOK
  <2>2. \A x \in Handle : target'[x] = target[x] \/ target'[x] \notin created
                           \/ (target'[x] \in Node /\ HandlesOf(target'[x]) # {})
    BY <1>1, <1>2 DEF SafetyInv, HeapInv, TypeOK
  <2> QED BY <1>1, <2>1, <2>2, StillEmpty
<1> QED BY <1>1, <1>2, <1>3, RunningFreed, IdleStep

LEMMA SafetyListenWeak ==
  ASSUME SafetyInv, HeapInv', RefCountExact', NEW l \in Listener, NEW h \in Handle,
         NEW g \in Handle, ListenWeak(l, h, g)
  PROVE  SafetyInv'
<1>1. Running /\ l \in Node /\ l \notin created /\ Unused(h)
  BY DEF ListenWeak
<1>2. /\ created' = created \cup {l}
      /\ owner' = [owner EXCEPT ![h] = Program, ![g] = l] /\ target' = [target EXCEPT ![h] = l]
      /\ UNCHANGED <<dropping, color, buffered, roots, refCountAdj, freed, toBeFreed, cursor, panicked>>
  BY DEF ListenWeak
<1>3. \A m \in Node : freed[m] => OwnedBy(m)' = {} /\ HandlesOf(m)' = {}
  <2>1. \A x \in Handle : owner'[x] = owner[x] \/ owner'[x] \notin Node
                           \/ owner'[x] \in Live \/ owner'[x] \notin created
    BY <1>1, <1>2 DEF SafetyInv, HeapInv, TypeOK
  <2>2. \A x \in Handle : target'[x] = target[x] \/ target'[x] \notin created
                           \/ (target'[x] \in Node /\ HandlesOf(target'[x]) # {})
    BY <1>1, <1>2 DEF SafetyInv, HeapInv, TypeOK
  <2> QED BY <1>1, <2>1, <2>2, StillEmpty
<1> QED BY <1>1, <1>2, <1>3, RunningFreed, IdleStep

LEMMA SafetyListen ==
  ASSUME SafetyInv, HeapInv', RefCountExact', NEW l \in Listener, NEW h \in Handle,
         NEW c \in Handle, NEW g \in Handle, Listen(l, h, c, g)
  PROVE  SafetyInv'
<1>1. Running /\ l \in Node /\ l \notin created /\ Unused(h) /\ Unused(c)
  BY DEF Listen
<1>2. /\ created' = created \cup {l}
      /\ owner' = [owner EXCEPT ![h] = Program, ![c] = Context, ![g] = l]
      /\ target' = [target EXCEPT ![h] = l, ![c] = l]
      /\ UNCHANGED <<dropping, color, buffered, roots, refCountAdj, freed, toBeFreed, cursor, panicked>>
  BY DEF Listen
<1>3. \A m \in Node : freed[m] => OwnedBy(m)' = {} /\ HandlesOf(m)' = {}
  <2>1. \A x \in Handle : owner'[x] = owner[x] \/ owner'[x] \notin Node
                           \/ owner'[x] \in Live \/ owner'[x] \notin created
    BY <1>1, <1>2 DEF SafetyInv, HeapInv, TypeOK
  <2>2. \A x \in Handle : target'[x] = target[x] \/ target'[x] \notin created
                           \/ (target'[x] \in Node /\ HandlesOf(target'[x]) # {})
    BY <1>1, <1>2 DEF SafetyInv, HeapInv, TypeOK
  <2> QED BY <1>1, <2>1, <2>2, StillEmpty
<1> QED BY <1>1, <1>2, <1>3, RunningFreed, IdleStep

(* clone and inc_ref: the node has a handle, hence is not freed, and the   *)
(* owner is live.                                                          *)
LEMMA SafetyIncRef ==
  ASSUME SafetyInv, HeapInv', RefCountExact', Running, NEW n \in Node, NEW h \in Handle,
         NEW o \in Live \cup {Program}, Unused(h), HandlesOf(n) # {}, IncRef(n, h, o),
         UNCHANGED <<created, dropping, buffered, roots, refCountAdj, freed, toBeFreed, cursor>>
  PROVE  SafetyInv'
<1>1. /\ owner' = [owner EXCEPT ![h] = o] /\ target' = [target EXCEPT ![h] = n]
      /\ color' = [color EXCEPT ![n] = "black"] /\ panicked' = freed[n]
  BY DEF IncRef
<1>2. ~freed[n]
  BY RunningFreed
<1>3. panicked' = panicked
  BY <1>1, <1>2, RunningFreed, Zenon DEF SafetyInv, HeapInv, TypeOK
<1>4. \A m \in Node : freed[m] => OwnedBy(m)' = {} /\ HandlesOf(m)' = {}
  <2>1. \A x \in Handle : owner'[x] = owner[x] \/ owner'[x] \notin Node
                           \/ owner'[x] \in Live \/ owner'[x] \notin created
    BY <1>1, <1>2 DEF SafetyInv, HeapInv, TypeOK
  <2>2. \A x \in Handle : target'[x] = target[x] \/ target'[x] \notin created
                           \/ (target'[x] \in Node /\ HandlesOf(target'[x]) # {})
    BY <1>1, <1>2 DEF SafetyInv, HeapInv, TypeOK
  <2> QED BY <1>1, <2>1, <2>2, StillEmpty
<1>5. \A m \in Node : color'[m] \in {color[m], "black", "purple"}
  BY <1>1 DEF SafetyInv, HeapInv, TypeOK
<1> QED BY <1>3, <1>4, <1>5, RunningFreed, IdleStep

LEMMA SafetyClone ==
  ASSUME SafetyInv, HeapInv', RefCountExact', NEW g \in Handle, NEW h \in Handle,
         NEW o \in Node \cup {Program}, Clone(g, h, o)
  PROVE  SafetyInv'
<1>1. /\ Running /\ Unused(h) /\ o \in Live \cup {Program} /\ IncRef(target[g], h, o)
      /\ target[g] # None
      /\ UNCHANGED <<created, dropping, buffered, roots, refCountAdj, freed, toBeFreed, cursor>>
  BY DEF Clone, Accessible
<1>2. target[g] \in Node /\ HandlesOf(target[g]) # {}
  BY <1>1 DEF SafetyInv, HeapInv, TypeOK, HandlesOf
<1> QED BY <1>1, <1>2, SafetyIncRef

LEMMA SafetyUpgrade ==
  ASSUME SafetyInv, HeapInv', RefCountExact', NEW n \in Node, NEW h \in Handle, Upgrade(n, h)
  PROVE  SafetyInv'
  BY SafetyIncRef DEF Upgrade

LEMMA SafetyDefer ==
  ASSUME SafetyInv, HeapInv', RefCountExact', NEW l \in Listener, NEW k \in Handle,
         NEW g \in Handle, NEW o \in Node, Defer(l, k, g, o)
  PROVE  SafetyInv'
<1>1. Running /\ l \in Node /\ l \notin created /\ Unused(k) /\ o \in Live
  BY DEF Defer
<1>2. /\ created' = created \cup {l}
      /\ owner' = [owner EXCEPT ![k] = o, ![g] = l] /\ target' = [target EXCEPT ![k] = l]
      /\ UNCHANGED <<dropping, refCountAdj, freed, toBeFreed, cursor, panicked>>
      /\ PossibleRoot(l)
  BY DEF Defer
<1>3. \A m \in Node : freed[m] => OwnedBy(m)' = {} /\ HandlesOf(m)' = {}
  <2>1. \A x \in Handle : owner'[x] = owner[x] \/ owner'[x] \notin Node
                           \/ owner'[x] \in Live \/ owner'[x] \notin created
    BY <1>1, <1>2 DEF SafetyInv, HeapInv, TypeOK
  <2>2. \A x \in Handle : target'[x] = target[x] \/ target'[x] \notin created
                           \/ (target'[x] \in Node /\ HandlesOf(target'[x]) # {})
    BY <1>1, <1>2 DEF SafetyInv, HeapInv, TypeOK
  <2> QED BY <1>1, <2>1, <2>2, StillEmpty
<1>4. \A m \in Node : color'[m] \in {color[m], "black", "purple"}
  BY <1>1, <1>2 DEF PossibleRoot, SafetyInv, HeapInv, TypeOK
<1> QED BY <1>1, <1>2, <1>3, <1>4, RunningFreed, IdleStep

LEMMA SafetyLetGo ==
  ASSUME SafetyInv, HeapInv', RefCountExact', Running,
         UNCHANGED <<created, owner, target, counts, refCountAdj, freed, toBeFreed, cursor, panicked>>
  PROVE  SafetyInv'
<1>1. \A m \in Node : freed[m] => OwnedBy(m)' = {} /\ HandlesOf(m)' = {}
  BY RunningFreed DEF OwnedBy, HandlesOf
<1> QED BY <1>1, RunningFreed, IdleStep DEF counts

(* The steps of the program that leave the collector alone.                *)
LEMMA SafetyProgram ==
  ASSUME SafetyInv, HeapInv', RefCountExact', ProgramStep, ~Collect
  PROVE  SafetyInv'
<1>1. ASSUME NEW h \in Handle, Drop(h) PROVE SafetyInv'
  BY <1>1, SafetyLetGo DEF Drop
<1>2. ASSUME NEW l \in Listener, Unlisten(l) PROVE SafetyInv'
  BY <1>2, SafetyLetGo DEF Unlisten
<1> QED
  BY <1>1, <1>2, SafetyNew, SafetyUpgrade, SafetyListenWeak, SafetyListen, SafetyDefer, SafetyClone
  DEF ProgramStep
(* A drop takes handles away; what it lets go of in turn had an owner.     *)
LEMMA SafetyRunDrop ==
  ASSUME SafetyInv, HeapInv', RefCountExact', NEW h \in Handle, RunDrop(h)
  PROVE  SafetyInv'
<1>0. PICK n \in Node : n = target[h]
  BY DEF SafetyInv, HeapInv, TypeOK, RunDrop
<1>1. /\ h \in dropping /\ ~panicked /\ DecRef(n)
      /\ UNCHANGED <<created, refCountAdj, freed, toBeFreed, cursor, panicked>>
  BY <1>0 DEF RunDrop
<1>2. PICK gone : /\ owner' = [g \in Handle |-> IF g \in gone THEN None ELSE owner[g]]
                  /\ target' = [g \in Handle |-> IF g \in gone THEN None ELSE target[g]]
                  /\ dropping \ gone \subseteq dropping'
  BY DEF RunDrop
<1>3. phase \in {"idle", "again", "free"}
  BY <1>1 DEF SafetyInv, PhaseInv, HeapInv, TypeOK, Phase
<1>4. n \in created
  BY <1>0 DEF SafetyInv, HeapInv
<1>5. /\ UNCHANGED <<buffered, roots>> \/ PossibleRoot(n)
      /\ \A m \in Node : color'[m] \in {color[m], "black", "purple"}
  BY <1>1 DEF DecRef, PossibleRoot, counts, SafetyInv, HeapInv, TypeOK
<1>6. \A x \in Handle : /\ owner'[x] # None => owner'[x] = owner[x] /\ x \notin gone
                        /\ target'[x] # None => target'[x] = target[x] /\ x \notin gone
  BY <1>2
<1>7. \A m \in Node : /\ HandlesOf(m)' \subseteq HandlesOf(m)
                      /\ \A x \in HandlesOf(m)' : owner'[x] = owner[x]
                      /\ \A x \in OwnedBy(m)' : x \in OwnedBy(m) /\ x \notin gone
  BY <1>2, <1>6 DEF HandlesOf, OwnedBy
<1>8. \A m \in Node : freed[m] => OwnedBy(m)' \subseteq dropping'
  BY <1>2, <1>7 DEF SafetyInv, FreedInv
<1>9. phase # "free" => \A m \in Node : freed[m] => HandlesOf(m)' = {}
  BY <1>1, <1>7 DEF SafetyInv, FreedInv
<1>10. FreeInv'
  <2>1. UNCHANGED <<phase, white, freed, pos, freeing>>
    BY <1>1 DEF cursor
  <2>2. Elems(white) \subseteq Node
    BY ElemsNode DEF SafetyInv, HeapInv, TypeOK
  <2> QED BY <1>7, <2>1, <2>2 DEF SafetyInv, FreeInv
<1> QED BY <1>1, <1>3, <1>4, <1>5, <1>8, <1>9, <1>10, HeapOnly
-----------------------------------------------------------------------------
(* The collector: marking *)

(* A step of a traversal leaves the freed nodes and the heap alone.        *)
LEMMA FreedKept ==
  ASSUME FreedInv, ~panicked, ~panicked',
         UNCHANGED <<created, owner, target, dropping, freed>>,
         phase' # "free" => phase # "free"
  PROVE  FreedInv'
<1>1. \A n : HandlesOf(n)' = HandlesOf(n) /\ OwnedBy(n)' = OwnedBy(n)
  BY HeapSame
<1> QED BY <1>1 DEF FreedInv

LEMMA SafetyBeginRound ==
  ASSUME SafetyInv, HeapInv', RefCountExact', phase \in {"idle", "again"}, Quiet, BeginRound,
         UNCHANGED <<heap, refCount, color, buffered, freed, toBeFreed, stack, white, freeing, panicked>>
  PROVE  SafetyInv'
<1>1. /\ phase' = "mark" /\ local' = roots /\ roots' = <<>> /\ pos' = 1
      /\ UNCHANGED <<created, owner, target, dropping>> /\ dropping = {} /\ ~panicked
      /\ refCountAdj' = [n \in Node |-> IF n \in Reach(Elems(roots)) THEN 0 ELSE refCountAdj[n]]
  BY DEF BeginRound, heap, Quiet
<1>2. ListInv'
  BY <1>1, ListBeginRound DEF SafetyInv
<1>3. /\ Grays = {} /\ Whites = {} /\ toBeFreed = <<>> /\ stack = <<>> /\ white = <<>>
      /\ freeing = None /\ \A n \in Node : refCountAdj[n] = 0
  BY DEF SafetyInv, PhaseInv
<1>4. /\ Grays' = {} /\ Whites' = {} /\ \A n \in Node : refCountAdj'[n] = 0
  BY <1>1, <1>3 DEF Grays, Whites
<1>5. PhaseInv'
  BY <1>1, <1>3, <1>4, ElemsEmpty DEF PhaseInv
<1>6. MarkInv'
  <2>1. Elems(roots') \subseteq Grays'
    BY <1>1, ElemsEmpty
  <2>2. ClosedIn(Grays, Node)' /\ Spans(Elems(roots), Grays)'
    BY <1>4 DEF ClosedIn, Spans
  <2>3. \A n \in Node : CountedIn(n, Grays)' = {}
    BY <1>4 DEF CountedIn
  <2>4. \A n \in Node : refCountAdj'[n] = Cardinality(CountedIn(n, Grays)')
    BY <1>4, <2>3, FS_EmptySet
  <2> QED BY <2>1, <2>2, <2>4 DEF MarkInv
<1>7. ScanInv' /\ CollectInv' /\ FreeInv'
  BY <1>1 DEF ScanInv, CollectInv, FreeInv
<1>8. FreedInv'
  BY <1>1, FreedKept DEF SafetyInv
<1> QED BY <1>2, <1>5, <1>6, <1>7, <1>8 DEF SafetyInv

LEMMA SafetyCollect ==
  ASSUME SafetyInv, HeapInv', RefCountExact', Collect
  PROVE  SafetyInv'
  BY SafetyBeginRound DEF Collect, Running

LEMMA SafetyAgain ==
  ASSUME SafetyInv, HeapInv', RefCountExact', Again
  PROVE  SafetyInv'
<1>1. /\ phase = "again" /\ Quiet
      /\ UNCHANGED <<heap, refCount, color, buffered, freed, toBeFreed, stack, white, freeing, panicked>>
  BY DEF Again
<1>2. CASE BeginRound
  BY <1>1, <1>2, SafetyBeginRound
<1>3. CASE phase' = "idle" /\ UNCHANGED <<local, roots, pos, refCountAdj>>
  <2>1. ListInv'
    BY ListAgain DEF SafetyInv
  <2>2. UNCHANGED <<created, owner, target, dropping>> /\ dropping = {} /\ ~panicked
    BY <1>1 DEF heap, Quiet
  <2>3. PhaseInv'
    BY <1>1, <1>3, <2>2, ElemsEmpty DEF SafetyInv, PhaseInv, Grays, Whites, HandlesOf
  <2>4. MarkInv' /\ ScanInv' /\ CollectInv' /\ FreeInv'
    BY <1>3 DEF MarkInv, ScanInv, CollectInv, FreeInv
  <2>5. FreedInv'
    BY <1>1, <1>3, <2>2, FreedKept DEF SafetyInv
  <2> QED BY <2>1, <2>3, <2>4, <2>5 DEF SafetyInv
<1> QED BY <1>2, <1>3 DEF Again

(* mark_gray: what it grays was not gray before, its edges are counted     *)
(* once, and no edge leaves the gray nodes.                                *)
LEMMA GrayedNew ==
  ASSUME HeapInv, NEW r \in Node, color[r] # "gray"
  PROVE  /\ Grayed(r) \subseteq Node /\ r \in Grayed(r) /\ Grayed(r) \cap Grays = {}
         /\ \A n \in Grayed(r) : \A h \in Trace(n) : target[h] \in Grayed(r) \cup Grays
<1> DEFINE P == {n \in Node : color[n] # "gray"}
<1>1. {r} \in SUBSET P /\ P \in SUBSET Node
  OBVIOUS
<1>2. Grayed(r) = ReachIn({r}, P)
  BY DEF Grayed
<1> HIDE DEF P
<1>3. Grayed(r) \subseteq P /\ r \in Grayed(r) /\ ClosedIn(Grayed(r), P)
  BY <1>1, <1>2, ReachPass, ReachSource, ReachClosed
<1>4. Grayed(r) \subseteq Node /\ Grayed(r) \cap Grays = {}
  BY <1>3 DEF P, Grays
<1>5. ASSUME NEW n \in Grayed(r), NEW h \in Trace(n)
      PROVE  target[h] \in Grayed(r) \cup Grays
  <2>1. target[h] \in Node
    BY <1>4, TraceTarget
  <2> QED BY <1>3, <2>1 DEF ClosedIn, P, Grays
<1> QED BY <1>3, <1>4, <1>5

LEMMA SafetyMarkGray ==
  ASSUME SafetyInv, HeapInv', RefCountExact', MarkRoot, color[local[pos]] = "purple"
  PROVE  SafetyInv'
<1>0. /\ phase = "mark" /\ Quiet /\ pos <= Len(local)
      /\ UNCHANGED <<heap, refCount, freed, phase, local, stack, white, freeing>>
  BY DEF MarkRoot
<1>1. PICK r \in Node : r = local[pos]
  <2>1. local \in Seq(Node) /\ pos \in 1 .. Len(local)
    BY <1>0 DEF SafetyInv, HeapInv, TypeOK
  <2> QED BY <2>1
<1>2. MarkGray(r) /\ roots' = Append(roots, r) /\ UNCHANGED <<buffered, toBeFreed>>
  BY <1>1 DEF MarkRoot
<1> DEFINE edges(n) == Cardinality(CountedIn(n, Grayed(r)))
<1>3. /\ color' = [n \in Node |-> IF n \in Grayed(r) THEN "gray" ELSE color[n]]
      /\ refCountAdj' = [n \in Node |-> refCountAdj[n] + edges(n)]
      /\ panicked' = \E n \in Node : edges(n) > 0 /\ refCountAdj[n] + edges(n) > refCount[n] + 1
  <2>1. \A n : {h \in HandlesOf(n) : h \in UNION {Trace(m) : m \in Grayed(r)}} = CountedIn(n, Grayed(r))
    BY DEF CountedIn
  <2> QED BY <1>2, <2>1 DEF MarkGray
<1>4. /\ UNCHANGED <<created, owner, target, dropping, phase>> /\ dropping = {} /\ ~panicked
  BY <1>0 DEF heap, Quiet
<1>5. /\ Grayed(r) \subseteq Node /\ r \in Grayed(r) /\ Grayed(r) \cap Grays = {}
      /\ \A n \in Grayed(r) : \A h \in Trace(n) : target[h] \in Grayed(r) \cup Grays
  BY <1>1, GrayedNew DEF SafetyInv
<1>6. Grays' = Grays \cup Grayed(r) /\ Grays \subseteq Node
  BY <1>3, <1>5 DEF Grays
<1>7. \A n \in Node : refCountAdj'[n] = Cardinality(CountedIn(n, Grays \cup Grayed(r)))
  <2> SUFFICES ASSUME NEW n \in Node
               PROVE  refCountAdj'[n] = Cardinality(CountedIn(n, Grays \cup Grayed(r)))
    OBVIOUS
  <2>1. refCountAdj[n] = Cardinality(CountedIn(n, Grays))
    BY <1>0 DEF SafetyInv, MarkInv
  <2>2. Cardinality(CountedIn(n, Grays \cup Grayed(r))) =
          Cardinality(CountedIn(n, Grays)) + Cardinality(CountedIn(n, Grayed(r)))
    BY <1>5, CountedAdd
  <2>3. refCountAdj'[n] = refCountAdj[n] + edges(n)
    BY <1>3
  <2> QED BY <2>1, <2>2, <2>3
<1>8. ~panicked'
  <2> SUFFICES ASSUME NEW n \in Node, refCountAdj[n] + edges(n) > refCount[n] + 1 PROVE FALSE
    BY <1>3
  <2>1. refCountAdj'[n] = refCountAdj[n] + edges(n)
    BY <1>3
  <2>2. Cardinality(CountedIn(n, Grays \cup Grayed(r))) <= refCount[n]
    BY CountedBound DEF SafetyInv
  <2>3. refCountAdj'[n] <= refCount[n]
    BY <1>7, <2>2
  <2>4. refCountAdj'[n] \in Nat /\ refCount[n] \in Nat
    BY DEF SafetyInv, HeapInv, TypeOK
  <2> HIDE DEF edges
  <2> QED BY <2>1, <2>3, <2>4
<1> HIDE DEF edges
<1>9. Elems(roots') = Elems(roots) \cup {r}
  BY <1>1, <1>2, ElemsAppend DEF SafetyInv, HeapInv, TypeOK
<1>10. /\ Elems(roots) \subseteq Grays /\ ClosedIn(Grays, Node) /\ Spans(Elems(roots), Grays)
  BY <1>0 DEF SafetyInv, MarkInv
<1>11. ClosedIn(Grays', Node)
  BY <1>5, <1>6, <1>10 DEF ClosedIn
<1>12. Spans(Elems(roots'), Grays')
  <2> SUFFICES ASSUME NEW C \in SUBSET Node, Elems(roots') \subseteq C, ClosedIn(C, Grays')
               PROVE  Grays' \subseteq C
    BY DEF Spans
  <2>1. Grays \subseteq C
    BY <1>6, <1>9, <1>10 DEF Spans, ClosedIn
  <2> DEFINE P == {n \in Node : color[n] # "gray"}
             D == C \cap Grayed(r)
  <2>2. ClosedIn(D, P)
    BY <1>5, <1>6 DEF ClosedIn, Grays
  <2>3. {r} \subseteq D /\ D \in SUBSET Node
    BY <1>5, <1>9
  <2>4. Grayed(r) = ReachIn({r}, P)
    BY DEF Grayed
  <2> HIDE DEF P, D
  <2>5. Grayed(r) \subseteq D
    BY <2>2, <2>3, <2>4, ReachLeast
  <2> QED BY <1>6, <2>1, <2>5 DEF D
<1>13. MarkInv'
  <2>1. Elems(roots') \subseteq Grays'
    BY <1>5, <1>6, <1>9, <1>10
  <2>2. ClosedIn(Grays, Node)' /\ Spans(Elems(roots), Grays)'
    BY <1>4, <1>11, <1>12, HeapSame DEF ClosedIn, Spans
  <2>3. \A n \in Node : CountedIn(n, Grays)' = CountedIn(n, Grays \cup Grayed(r))
    BY <1>4, <1>6, HeapSame DEF CountedIn
  <2>4. \A n \in Node : refCountAdj'[n] = Cardinality(CountedIn(n, Grays)')
    BY <1>7, <2>3
  <2> QED BY <2>1, <2>2, <2>4 DEF MarkInv
<1>14. PhaseInv'
  <2>1. Whites' = {}
    BY <1>0, <1>3 DEF SafetyInv, PhaseInv, Whites
  <2>2. \A n : HandlesOf(n)' = HandlesOf(n)
    BY <1>4, HeapSame
  <2> QED BY <1>0, <1>2, <1>4, <2>1, <2>2 DEF SafetyInv, PhaseInv
<1>15. ScanInv' /\ CollectInv' /\ FreeInv'
  BY <1>0 DEF ScanInv, CollectInv, FreeInv
<1>16. FreedInv'
  BY <1>0, <1>4, <1>8, FreedKept DEF SafetyInv
<1> QED BY <1>13, <1>14, <1>15, <1>16, ListMarkRoot DEF SafetyInv

(* A root that is not purple leaves the roots; only a node without handles *)
(* goes to the to_be_freed list.                                           *)
LEMMA SafetyMarkSkip ==
  ASSUME SafetyInv, HeapInv', RefCountExact', MarkRoot, color[local[pos]] # "purple"
  PROVE  SafetyInv'
<1>0. /\ phase = "mark" /\ Quiet /\ pos <= Len(local)
      /\ UNCHANGED <<heap, refCount, freed, phase, local, stack, white, freeing>>
      /\ UNCHANGED <<color, refCountAdj, roots, panicked>>
  BY DEF MarkRoot
<1>1. PICK r \in Node : r = local[pos]
  <2>1. local \in Seq(Node) /\ pos \in 1 .. Len(local)
    BY <1>0 DEF SafetyInv, HeapInv, TypeOK
  <2> QED BY <2>1
<1>2. toBeFreed' = IF color[r] = "black" /\ refCount[r] = 0 /\ ~freed[r]
                  THEN Append(toBeFreed, r) ELSE toBeFreed
  BY <1>1 DEF MarkRoot
<1>3. /\ UNCHANGED <<created, owner, target, dropping>> /\ dropping = {} /\ ~panicked
  BY <1>0 DEF heap, Quiet
<1>4. UNCHANGED <<Grays, Whites>>
  BY <1>0 DEF Grays, Whites
<1>5. MarkInv'
  <2>1. \A n \in Node : CountedIn(n, Grays)' = CountedIn(n, Grays)
    BY <1>3, <1>4, HeapSame DEF CountedIn
  <2>2. (ClosedIn(Grays, Node)' <=> ClosedIn(Grays, Node))
        /\ (Spans(Elems(roots), Grays)' <=> Spans(Elems(roots), Grays))
    BY <1>0, <1>3, <1>4, HeapSame DEF ClosedIn, Spans
  <2> QED BY <1>0, <1>4, <2>1, <2>2 DEF SafetyInv, MarkInv
<1>6. \A n \in Elems(toBeFreed') : HandlesOf(n)' = {}
  <2>1. \A n : HandlesOf(n)' = HandlesOf(n)
    BY <1>3, HeapSame
  <2>2. CASE color[r] = "black" /\ refCount[r] = 0 /\ ~freed[r]
    <3>1. Elems(toBeFreed') = Elems(toBeFreed) \cup {r}
      BY <1>2, <2>2, ElemsAppend DEF SafetyInv, HeapInv, TypeOK
    <3>2. HandlesOf(r) = {}
      BY <2>2, CountZero DEF SafetyInv
    <3> QED BY <2>1, <3>1, <3>2 DEF SafetyInv, PhaseInv
  <2>3. CASE ~(color[r] = "black" /\ refCount[r] = 0 /\ ~freed[r])
    BY <1>2, <2>1, <2>3 DEF SafetyInv, PhaseInv
  <2> QED BY <2>2, <2>3
<1>7. PhaseInv'
  BY <1>0, <1>3, <1>4, <1>6 DEF SafetyInv, PhaseInv
<1>8. ScanInv' /\ CollectInv' /\ FreeInv'
  BY <1>0 DEF ScanInv, CollectInv, FreeInv
<1>9. FreedInv'
  BY <1>0, <1>3, FreedKept DEF SafetyInv
<1> QED BY <1>5, <1>7, <1>8, <1>9, ListMarkRoot DEF SafetyInv
-----------------------------------------------------------------------------
(* The collector: scanning *)

(* When the marking is over the gray nodes are all that the roots reach.   *)
LEMMA SafetyMarkDone ==
  ASSUME SafetyInv, HeapInv', RefCountExact', MarkDone
  PROVE  SafetyInv'
<1>1. /\ phase = "mark" /\ phase' = "scan" /\ local' = roots /\ pos' = 1 /\ Quiet
      /\ UNCHANGED <<created, owner, target, dropping, refCount, color, roots, refCountAdj, freed,
                     toBeFreed, stack, white, freeing, panicked>>
  BY DEF MarkDone, heap, counts
<1>2. dropping = {} /\ ~panicked
  BY <1>1 DEF Quiet
<1>3. /\ Elems(roots) \subseteq Grays /\ ClosedIn(Grays, Node) /\ Spans(Elems(roots), Grays)
      /\ \A n \in Node : refCountAdj[n] = Cardinality(CountedIn(n, Grays))
  BY <1>1 DEF SafetyInv, MarkInv
<1>4. Grays \subseteq Node /\ Whites = {}
  BY <1>1 DEF SafetyInv, PhaseInv, Grays
<1>5. Reach(Elems(roots)) = Grays
  <2>1. Reach(Elems(roots)) \subseteq Grays
    BY <1>3, <1>4, ReachLeast DEF Reach
  <2>2. Elems(roots) \in SUBSET Node
    BY <1>3, <1>4
  <2>3. Elems(roots) \subseteq Reach(Elems(roots)) /\ Reach(Elems(roots)) \in SUBSET Node
    BY <2>2, ReachSource DEF Reach
  <2>4. ClosedIn(Reach(Elems(roots)), Node)
    BY <2>2, ReachClosed DEF Reach, SafetyInv
  <2>5. ClosedIn(Reach(Elems(roots)), Grays)
    BY <1>4, <2>4 DEF ClosedIn
  <2> QED BY <1>3, <2>1, <2>3, <2>5 DEF Spans
<1>6. Reach(Elems(local))' = Grays
  <2>1. Reach(Elems(local))' = Reach(Elems(roots))
    BY <1>1, HeapSame DEF Reach, ReachIn
  <2> QED BY <1>5, <2>1
<1>7. Grays' = Grays /\ Whites' = {}
  BY <1>1, <1>4 DEF Grays, Whites
<1>8. Ahead' = Elems(roots)
  <2>1. Ahead' = {roots[i] : i \in 1 .. Len(roots)} /\ roots \in Seq(Node)
    BY <1>1 DEF Ahead, SafetyInv, HeapInv, TypeOK
  <2> QED BY <2>1, AheadStart
<1>9. ScanInv'
  <2>1. Grays' \cup Whites' \subseteq Reach(Elems(local))'
    BY <1>6, <1>7
  <2>2. \A n \in Reach(Elems(local))' : color'[n] = "gray"
    BY <1>1, <1>6 DEF Grays
  <2>3. \A n \in Node : CountedIn(n, Reach(Elems(local)))' = CountedIn(n, Grays)
    BY <1>1, <1>6, HeapSame DEF CountedIn
  <2>4. \A n \in Node : refCountAdj'[n] = Cardinality(CountedIn(n, Reach(Elems(local)))')
    BY <1>1, <1>3, <2>3
  <2>5. Spans(Ahead \cap Grays, Grays)'
    BY <1>1, <1>3, <1>7, <1>8, HeapSame DEF Spans, ClosedIn
  <2>6. Spans(Elems(local) \cap Whites, Whites)'
    BY <1>7 DEF Spans
  <2>7. \A n \in Whites' : Internal(n)'
    BY <1>7
  <2> QED BY <2>1, <2>2, <2>4, <2>5, <2>6, <2>7 DEF ScanInv
<1>10. PhaseInv'
  BY <1>1, <1>2, <1>7, HeapSame DEF SafetyInv, PhaseInv
<1>11. MarkInv' /\ CollectInv' /\ FreeInv'
  BY <1>1 DEF MarkInv, CollectInv, FreeInv
<1>12. FreedInv'
  BY <1>1, <1>2, FreedKept DEF SafetyInv
<1> QED BY <1>9, <1>10, <1>11, <1>12, ListMarkDone DEF SafetyInv

(* scan and scan_black: no white node is reached from a black one, and     *)
(* what is still gray is reached through gray nodes from a root that has   *)
(* not been scanned.                                                       *)
LEMMA SafetyScanRoot ==
  ASSUME SafetyInv, HeapInv', RefCountExact', ScanRoot
  PROVE  SafetyInv'
<1>0. /\ phase = "scan" /\ Quiet /\ pos <= Len(local) /\ pos' = pos + 1
      /\ UNCHANGED <<created, owner, target, dropping, refCount, roots, refCountAdj, freed,
                     toBeFreed, phase, local, stack, white, freeing, panicked>>
  BY DEF ScanRoot, heap
<1>1. PICK r \in Node : r = local[pos]
  <2>1. local \in Seq(Node) /\ pos \in 1 .. Len(local)
    BY <1>0 DEF SafetyInv, HeapInv, TypeOK
  <2> QED BY <2>1
<1> DEFINE G == Reach(Elems(local))
           inner == {n \in Grays : Internal(n)}
           whitened == IF r \in inner THEN ReachIn({r}, inner) ELSE {}
           hot == {n \in Grays \ inner : n = r \/ \E m \in whitened : \E h \in Trace(m) : target[h] = n}
           NonBlack == {n \in Node : color[n] # "black"}
           blackened == ReachIn(hot, NonBlack)
<1>2. color' = [n \in Node |-> IF n \in blackened THEN "black"
                               ELSE IF n \in whitened THEN "white" ELSE color[n]]
  BY <1>1 DEF ScanRoot, Grays
<1>3. /\ Grays \cup Whites \subseteq G
      /\ \A n \in G : color[n] # "purple"
      /\ \A n \in Node : refCountAdj[n] = Cardinality(CountedIn(n, G))
      /\ Spans(Ahead \cap Grays, Grays)
      /\ Spans(Elems(local) \cap Whites, Whites)
      /\ \A n \in Whites : Internal(n)
      /\ \A m \in G : color[m] = "black" => \A h \in Trace(m) : color[target[h]] = "black"
  BY <1>0 DEF SafetyInv, ScanInv
<1>4. /\ G \subseteq Node /\ ClosedIn(G, Node) /\ Elems(local) \subseteq G
  <2>1. Elems(local) \in SUBSET Node
    BY ElemsNode DEF SafetyInv, HeapInv, TypeOK
  <2> QED BY <2>1, ReachSource, ReachClosed DEF SafetyInv, Reach
<1>5. /\ inner \subseteq Grays /\ Grays \subseteq NonBlack /\ NonBlack \subseteq Node
      /\ Whites \subseteq NonBlack /\ Grays \cap Whites = {}
  BY DEF Grays, Whites
<1>6. /\ whitened \subseteq inner /\ (r \in inner => r \in whitened) /\ ClosedIn(whitened, inner)
  <2>1. CASE r \in inner
    <3>1. {r} \in SUBSET inner /\ inner \in SUBSET Node /\ whitened = ReachIn({r}, inner)
      BY <1>5, <2>1
    <3> HIDE DEF inner, whitened
    <3> QED BY <1>5, <3>1, ReachPass, ReachSource, ReachClosed DEF SafetyInv
  <2>2. CASE r \notin inner
    BY <2>2 DEF ClosedIn
  <2> QED BY <2>1, <2>2
<1>7. hot \subseteq Grays /\ (r \in Grays => r \in whitened \cup hot)
  BY <1>6
<1>8. /\ \A m \in whitened : \A h \in Trace(m) : target[h] \in Grays => target[h] \in whitened \cup hot
  BY <1>5, <1>6 DEF ClosedIn
<1>9. \A D \in SUBSET Node : {r} \subseteq D /\ ClosedIn(D, inner) => whitened \subseteq D
  <2> HIDE DEF inner
  <2>1. \A D \in SUBSET Node : {r} \subseteq D /\ ClosedIn(D, inner) => ReachIn({r}, inner) \subseteq D
    BY ReachLeast
  <2> QED BY <2>1
<1> HIDE DEF inner, whitened, hot
<1>10. /\ hot \subseteq blackened /\ blackened \subseteq NonBlack /\ ClosedIn(blackened, NonBlack)
  <2>1. hot \in SUBSET NonBlack /\ NonBlack \in SUBSET Node
    BY <1>5, <1>7
  <2> HIDE DEF NonBlack
  <2> QED BY <1>5, <2>1, ReachPass, ReachSource, ReachClosed DEF SafetyInv
<1> HIDE DEF blackened
<1>11. /\ \A n \in Node : NonBlack \cap {n} = {} => color'[n] = "black"
       /\ \A n \in blackened : color'[n] = "black"
       /\ Grays' = Grays \ (whitened \cup blackened)
       /\ Whites' = (Whites \cup whitened) \ blackened
       /\ \A n \in Node : color'[n] \in {"black", "white", color[n]}
       /\ \A n \in Node : color'[n] = "black" => n \in blackened \/ color[n] = "black"
  <2>1. \A n \in Node : color'[n] = IF n \in blackened THEN "black"
                               ELSE IF n \in whitened THEN "white" ELSE color[n]
    BY <1>2
  <2>2. whitened \subseteq Node /\ blackened \subseteq Node /\ \A n \in whitened : n \in NonBlack
    BY <1>5, <1>6, <1>10
  <2>3. Grays' = Grays \ (whitened \cup blackened)
    BY <2>1 DEF Grays
  <2>4. Whites' = (Whites \cup whitened) \ blackened
    BY <2>1, <2>2 DEF Whites
  <2>5. \A n \in blackened : color'[n] = "black"
    BY <2>1, <2>2
  <2>6. \A n \in Node : NonBlack \cap {n} = {} => color'[n] = "black"
    BY <2>1, <2>2
  <2>7. \A n \in Node : color'[n] \in {"black", "white", color[n]}
    BY <2>1
  <2>8. \A n \in Node : color'[n] = "black" => n \in blackened \/ color[n] = "black"
    BY <2>1
  <2> QED BY <2>3, <2>4, <2>5, <2>6, <2>7, <2>8
<1>12. Ahead = Ahead' \cup {r}
  <2>1. local \in Seq(Node) /\ pos \in Nat \ {0}
    BY DEF SafetyInv, HeapInv, TypeOK
  <2>2. {local[i] : i \in pos .. Len(local)} = {local[i] : i \in pos + 1 .. Len(local)} \cup {local[pos]}
    BY <1>0, <2>1, AheadNext
  <2> QED BY <1>0, <1>1, <2>2 DEF Ahead
<1>13. r \in Elems(local)
  BY <1>0, <1>1 DEF Elems, SafetyInv, HeapInv, TypeOK
<1>14. Spans(Ahead' \cap Grays', Grays')
  <2> SUFFICES ASSUME NEW C \in SUBSET Node, Ahead' \cap Grays' \subseteq C, ClosedIn(C, Grays')
               PROVE  Grays' \subseteq C
    BY DEF Spans
  <2> DEFINE E == C \cup whitened \cup blackened
  <2>1. E \in SUBSET Node
    BY <1>5, <1>6, <1>10
  <2>2. Ahead \cap Grays \subseteq E
    BY <1>7, <1>10, <1>11, <1>12
  <2>3. ClosedIn(E, Grays)
    <3> SUFFICES ASSUME NEW m \in E, NEW h \in Trace(m), target[h] \in Grays PROVE target[h] \in E
      BY DEF ClosedIn
    <3>1. CASE target[h] \in Grays' /\ m \in C
      BY <3>1 DEF ClosedIn
    <3>2. CASE m \in whitened
      BY <1>8, <1>10, <3>2
    <3>3. CASE m \in blackened
      BY <1>5, <1>10, <3>3 DEF ClosedIn
    <3> QED BY <1>11, <3>1, <3>2, <3>3
  <2>4. Grays \subseteq E
    BY <1>3, <2>1, <2>2, <2>3 DEF Spans
  <2> QED BY <1>11, <2>4
<1>15. Spans(Elems(local) \cap Whites', Whites')
  <2> SUFFICES ASSUME NEW C \in SUBSET Node, Elems(local) \cap Whites' \subseteq C, ClosedIn(C, Whites')
               PROVE  Whites' \subseteq C
    BY DEF Spans
  <2> DEFINE E == C \cup blackened
  <2>1. E \in SUBSET Node
    BY <1>5, <1>10
  <2>2. ClosedIn(E, Whites \cup whitened)
    <3> SUFFICES ASSUME NEW m \in E, NEW h \in Trace(m), target[h] \in Whites \cup whitened
                 PROVE  target[h] \in E
      BY DEF ClosedIn
    <3>1. CASE m \in blackened
      BY <1>5, <1>6, <1>10, <3>1 DEF ClosedIn
    <3>2. CASE m \in C
      BY <1>11, <3>2 DEF ClosedIn
    <3> QED BY <3>1, <3>2
  <2>3. Whites \subseteq E
    <3>1. Elems(local) \cap Whites \subseteq E
      BY <1>11
    <3>2. ClosedIn(E, Whites)
      BY <2>2 DEF ClosedIn
    <3> QED BY <1>3, <2>1, <3>1, <3>2 DEF Spans
  <2>4. whitened \subseteq E
    <3>1. CASE whitened = {}
      BY <3>1
    <3>2. CASE whitened # {}
      <4> DEFINE D == E \cap whitened
      <4>1. r \in whitened
        BY <1>6, <3>2 DEF whitened
      <4>2. {r} \subseteq D
        BY <1>11, <1>13, <4>1
      <4>3. ClosedIn(D, inner)
        BY <1>6, <2>2 DEF ClosedIn
      <4>4. D \in SUBSET Node
        BY <2>1
      <4> HIDE DEF D
      <4>5. whitened \subseteq D
        BY <1>9, <4>2, <4>3, <4>4
      <4> QED BY <4>5 DEF D
    <3> QED BY <3>1, <3>2
  <2> QED BY <1>11, <2>3, <2>4
<1>16. ASSUME NEW m \in G, color'[m] = "black", NEW h \in Trace(m)
       PROVE  color'[target[h]] = "black"
  <2>1. target[h] \in Node /\ m \in Node
    BY <1>4, TraceTarget DEF SafetyInv
  <2>2. CASE color[m] = "black"
    <3>1. color[target[h]] = "black"
      BY <1>3, <2>2
    <3> QED BY <1>11, <2>1, <3>1
  <2>3. CASE m \in blackened
    <3>1. target[h] \in blackened \/ target[h] \notin NonBlack
      BY <1>10, <2>3 DEF ClosedIn
    <3> QED BY <1>11, <2>1, <3>1
  <2> QED BY <1>11, <1>16, <2>1, <2>2, <2>3
<1> HIDE DEF G
<1>17. ScanInv'
  <2>1. Reach(Elems(local))' = G
    BY <1>0, HeapSame DEF Reach, ReachIn, G
  <2>2. Grays' \cup Whites' \subseteq G
    BY <1>3, <1>5, <1>6, <1>11
  <2>3. \A n \in G : color'[n] # "purple"
    BY <1>3, <1>4, <1>11
  <2>4. \A n \in Node : refCountAdj'[n] = Cardinality(CountedIn(n, Reach(Elems(local)))')
    <3>1. \A n \in Node : CountedIn(n, Reach(Elems(local)))' = CountedIn(n, G)
      BY <1>0, <2>1, HeapSame DEF CountedIn
    <3> QED BY <1>0, <1>3, <3>1
  <2>5. Spans(Ahead \cap Grays, Grays)' /\ Spans(Elems(local) \cap Whites, Whites)'
    BY <1>0, <1>14, <1>15, HeapSame DEF Spans, ClosedIn
  <2>6. \A n \in Whites' : Internal(n)'
    BY <1>0, <1>3, <1>11, <1>6 DEF Internal, inner
  <2>7. \A m \in G : color'[m] = "black" => \A h \in Trace(m)' : color'[target'[h]] = "black"
    BY <1>0, <1>16, HeapSame
  <2> QED BY <2>1, <2>2, <2>3, <2>4, <2>5, <2>6, <2>7 DEF ScanInv
<1>18. dropping = {} /\ ~panicked
  BY <1>0 DEF Quiet
<1>19. PhaseInv'
  BY <1>0, HeapSame DEF SafetyInv, PhaseInv
<1>20. MarkInv' /\ CollectInv' /\ FreeInv'
  BY <1>0 DEF MarkInv, CollectInv, FreeInv
<1>21. FreedInv'
  BY <1>0, <1>18, FreedKept DEF SafetyInv
<1> QED BY <1>17, <1>19, <1>20, <1>21, ListScanRoot DEF SafetyInv
(* Once every root is scanned, nothing is gray, and all the handles to a   *)
(* white node are held by white nodes.                                     *)
LEMMA SafetyScanDone ==
  ASSUME SafetyInv, HeapInv', RefCountExact', ScanDone
  PROVE  SafetyInv'
<1>1. /\ phase = "scan" /\ phase' = "collect" /\ roots' = <<>> /\ pos' = 1 /\ Quiet /\ pos > Len(local)
      /\ UNCHANGED <<created, owner, target, dropping, refCount, color, freed,
                     toBeFreed, local, stack, white, freeing, panicked>>
      /\ refCountAdj' = [n \in Node |-> IF n \in Reach(Elems(local)) THEN 0 ELSE refCountAdj[n]]
  BY DEF ScanDone, heap
<1> DEFINE G == Reach(Elems(local))
<1>2. dropping = {} /\ ~panicked
  BY <1>1 DEF Quiet
<1>3. /\ Grays \cup Whites \subseteq G
      /\ \A n \in G : color[n] # "purple"
      /\ \A n \in Node : refCountAdj[n] = Cardinality(CountedIn(n, G))
      /\ Spans(Ahead \cap Grays, Grays)
      /\ Spans(Elems(local) \cap Whites, Whites)
      /\ \A n \in Whites : Internal(n)
      /\ \A m \in G : color[m] = "black" => \A h \in Trace(m) : color[target[h]] = "black"
  BY <1>1 DEF SafetyInv, ScanInv
<1>4. /\ G \subseteq Node /\ ClosedIn(G, Node) /\ Elems(local) \subseteq G
  <2>1. Elems(local) \in SUBSET Node
    BY ElemsNode DEF SafetyInv, HeapInv, TypeOK
  <2> QED BY <2>1, ReachSource, ReachClosed DEF SafetyInv, Reach
<1>5. Ahead = {}
  BY <1>1, AheadEnd DEF Ahead, SafetyInv, HeapInv, TypeOK
<1>6. Grays = {}
  BY <1>3, <1>5 DEF Spans, ClosedIn
<1>7. stack = <<>> /\ white = <<>> /\ Elems(<<>>) = {}
  BY <1>1, ElemsEmpty DEF SafetyInv, PhaseInv
<1>8. ASSUME NEW n \in Whites, NEW h \in HandlesOf(n)
      PROVE  owner[h] \in Whites
  <2>1. n \in Node /\ color[n] = "white"
    BY DEF Whites
  <2>2. refCount[n] = Cardinality(CountedIn(n, G))
    BY <1>3, <2>1 DEF Internal
  <2> HIDE DEF G
  <2>3. owner[h] \in G /\ h \in Trace(owner[h])
    BY <2>1, <2>2, CountedAll DEF SafetyInv
  <2>4. target[h] = n
    BY DEF HandlesOf
  <2>5. color[owner[h]] # "black"
    BY <1>3, <2>1, <2>3, <2>4
  <2>6. color[owner[h]] # "purple" /\ color[owner[h]] # "gray" /\ owner[h] \in Node
    BY <1>3, <1>4, <1>6, <2>3 DEF Grays
  <2> QED BY <2>5, <2>6 DEF Whites, SafetyInv, HeapInv, TypeOK, Color
<1>9. Grays' = Grays /\ Whites' = Whites
  BY <1>1 DEF Grays, Whites
<1>10. Ahead' = Elems(local)
  <2>1. Ahead' = {local[i] : i \in 1 .. Len(local)} /\ local \in Seq(Node)
    BY <1>1 DEF Ahead, SafetyInv, HeapInv, TypeOK
  <2> QED BY <2>1, AheadStart
<1>11. CollectInv'
  <2>1. Dead' = Whites /\ Elems(stack') = {} /\ Elems(white') = {}
    BY <1>1, <1>7, <1>9 DEF Dead
  <2>2. \A n \in Dead' : \A h \in HandlesOf(n)' : owner'[h] \in Dead'
    BY <1>1, <1>8, <2>1, HeapSame
  <2>3. Spans((Ahead \cap Whites) \cup Elems(stack), Whites)'
    <3>1. (Ahead' \cap Whites') \cup Elems(stack') = Elems(local) \cap Whites
      BY <1>9, <1>10, <2>1
    <3> QED BY <1>1, <1>3, <1>9, <3>1, HeapSame DEF Spans, ClosedIn
  <2> QED BY <2>1, <2>2, <2>3 DEF CollectInv
<1>12. \A n \in Node : refCountAdj'[n] = 0
  <2> SUFFICES ASSUME NEW n \in Node, n \notin G PROVE refCountAdj[n] = 0
    BY <1>1
  <2>1. CountedIn(n, G) = {}
    BY <1>4 DEF CountedIn, HandlesOf, ClosedIn
  <2> QED BY <1>3, <2>1, FS_EmptySet
<1>13. PhaseInv'
  BY <1>1, <1>2, <1>6, <1>9, <1>12, HeapSame DEF SafetyInv, PhaseInv
<1>14. MarkInv' /\ ScanInv' /\ FreeInv'
  BY <1>1 DEF MarkInv, ScanInv, FreeInv
<1>15. FreedInv'
  BY <1>1, <1>2, FreedKept DEF SafetyInv
<1> QED BY <1>11, <1>13, <1>14, <1>15, ListScanDone DEF SafetyInv

-----------------------------------------------------------------------------
(* The collector: collecting the white nodes *)

(* The frame of a step that collects.                                      *)
LEMMA CollectFrame ==
  ASSUME SafetyInv, HeapInv', RefCountExact', phase = "collect", Quiet, phase' = "collect",
         UNCHANGED <<created, owner, target, dropping, roots, refCountAdj, freed, toBeFreed,
                     freeing, panicked>>,
         Grays' = {}, ListInv', CollectInv'
  PROVE  SafetyInv'
<1>1. dropping = {} /\ ~panicked
  BY DEF Quiet
<1>2. PhaseInv'
  BY <1>1, HeapSame DEF SafetyInv, PhaseInv
<1>3. MarkInv' /\ ScanInv' /\ FreeInv'
  BY DEF MarkInv, ScanInv, FreeInv
<1>4. FreedInv'
  BY <1>1, FreedKept DEF SafetyInv
<1> QED BY <1>2, <1>3, <1>4 DEF SafetyInv

LEMMA SafetyCollectRoot ==
  ASSUME SafetyInv, HeapInv', RefCountExact', CollectRoot
  PROVE  SafetyInv'
<1>0. /\ phase = "collect" /\ Quiet /\ stack = <<>> /\ pos <= Len(local) /\ pos' = pos + 1
      /\ UNCHANGED <<created, owner, target, dropping, roots, refCountAdj, freed,
                     toBeFreed, phase, local, white, freeing, panicked>>
  BY DEF CollectRoot, heap
<1>1. PICK r \in Node : r = local[pos]
  <2>1. local \in Seq(Node) /\ pos \in 1 .. Len(local)
    BY <1>0 DEF SafetyInv, HeapInv, TypeOK
  <2> QED BY <2>1
<1>2. Ahead = Ahead' \cup {r}
  <2>1. local \in Seq(Node) /\ pos \in Nat \ {0}
    BY DEF SafetyInv, HeapInv, TypeOK
  <2>2. {local[i] : i \in pos .. Len(local)} = {local[i] : i \in pos + 1 .. Len(local)} \cup {local[pos]}
    BY <1>0, <2>1, AheadNext
  <2> QED BY <1>0, <1>1, <2>2 DEF Ahead
<1>3. /\ Elems(stack) = {} /\ Grays = {}
      /\ \A n \in Dead : \A h \in HandlesOf(n) : owner[h] \in Dead
      /\ Spans((Ahead \cap Whites) \cup Elems(stack), Whites)
  BY <1>0, ElemsEmpty DEF SafetyInv, CollectInv, PhaseInv
<1>4. CASE color[r] = "white"
  <2>1. color' = [color EXCEPT ![r] = "black"] /\ stack' = <<r>>
    BY <1>1, <1>4 DEF CollectRoot
  <2>2. /\ Elems(stack') = {r} /\ Whites' = Whites \ {r} /\ Grays' = {} /\ r \in Whites
    BY <1>3, <1>4, <2>1 DEF Elems, Whites, Grays, SafetyInv, HeapInv, TypeOK
  <2>3. Dead' = Dead
    BY <1>0, <1>3, <2>2 DEF Dead
  <2>4. Spans((Ahead' \cap Whites') \cup Elems(stack'), Whites')
    <3> SUFFICES ASSUME NEW C \in SUBSET Node, (Ahead' \cap Whites') \cup Elems(stack') \subseteq C,
                        ClosedIn(C, Whites')
                 PROVE  Whites' \subseteq C
      BY DEF Spans
    <3>1. (Ahead \cap Whites) \cup Elems(stack) \subseteq C
      BY <1>2, <1>3, <2>2
    <3>2. ClosedIn(C, Whites)
      BY <2>2 DEF ClosedIn
    <3> QED BY <1>3, <2>2, <3>1, <3>2 DEF Spans
  <2>5. CollectInv'
    BY <1>0, <1>3, <2>2, <2>3, <2>4, HeapSame DEF CollectInv, Spans, ClosedIn
  <2> QED BY <1>0, <2>2, <2>5, CollectFrame, ListCollectRoot DEF SafetyInv
<1>5. CASE color[r] # "white"
  <2>1. UNCHANGED <<color, stack>>
    BY <1>1, <1>5 DEF CollectRoot
  <2>2. /\ Elems(stack') = {} /\ Whites' = Whites /\ Grays' = {} /\ r \notin Whites /\ Dead' = Dead
    BY <1>0, <1>3, <1>5, <2>1 DEF Whites, Grays, Dead
  <2>3. (Ahead' \cap Whites') \cup Elems(stack') = (Ahead \cap Whites) \cup Elems(stack)
    BY <1>2, <1>3, <2>2
  <2>4. CollectInv'
    BY <1>0, <1>3, <2>2, <2>3, HeapSame DEF CollectInv, Spans, ClosedIn
  <2> QED BY <1>0, <2>2, <2>4, CollectFrame, ListCollectRoot DEF SafetyInv
<1> QED BY <1>4, <1>5

LEMMA SafetyCollectVisit ==
  ASSUME SafetyInv, HeapInv', RefCountExact', NEW h \in Handle, CollectVisit(h)
  PROVE  SafetyInv'
<1>0. /\ phase = "collect" /\ Quiet /\ stack # <<>>
      /\ UNCHANGED <<created, owner, target, dropping, roots, refCountAdj, freed,
                     toBeFreed, phase, local, pos, white, freeing, panicked>>
      /\ h \in Trace(stack[Len(stack)]) /\ color[target[h]] = "white"
      /\ color' = [color EXCEPT ![target[h]] = "black"] /\ stack' = Append(stack, target[h])
  BY DEF CollectVisit, heap
<1>1. PICK t \in Node : t = target[h]
  <2>1. stack[Len(stack)] \in Node
    BY <1>0, ElemsPop DEF SafetyInv, HeapInv, TypeOK
  <2> QED BY <1>0, <2>1, TraceTarget DEF SafetyInv
<1>3. /\ Grays = {}
      /\ \A n \in Dead : \A g \in HandlesOf(n) : owner[g] \in Dead
      /\ Elems(stack) \cap Whites = {}
      /\ Spans((Ahead \cap Whites) \cup Elems(stack), Whites)
  BY <1>0 DEF SafetyInv, CollectInv, PhaseInv
<1>2. /\ Elems(stack') = Elems(stack) \cup {t} /\ Whites' = Whites \ {t} /\ Grays' = {} /\ t \in Whites
      /\ Ahead' = Ahead
  <2>1. Elems(stack') = Elems(stack) \cup {t}
    BY <1>0, <1>1, ElemsAppend DEF SafetyInv, HeapInv, TypeOK
  <2>2. /\ \A n \in Node : color'[n] = IF n = t THEN "black" ELSE color[n]
        /\ color[t] = "white"
    BY <1>0, <1>1 DEF SafetyInv, HeapInv, TypeOK
  <2>3. Whites' = Whites \ {t} /\ t \in Whites
    BY <2>2 DEF Whites
  <2>4. Grays' = {}
    BY <1>3, <2>2 DEF Grays
  <2>5. Ahead' = Ahead
    BY <1>0 DEF Ahead
  <2> QED BY <2>1, <2>3, <2>4, <2>5
<1>4. Dead' = Dead
  BY <1>0, <1>2 DEF Dead
<1>5. Spans((Ahead' \cap Whites') \cup Elems(stack'), Whites')
  <2> SUFFICES ASSUME NEW C \in SUBSET Node, (Ahead' \cap Whites') \cup Elems(stack') \subseteq C,
                      ClosedIn(C, Whites')
               PROVE  Whites' \subseteq C
    BY DEF Spans
  <2>1. (Ahead \cap Whites) \cup Elems(stack) \subseteq C
    BY <1>2
  <2>2. ClosedIn(C, Whites)
    BY <1>2 DEF ClosedIn
  <2> QED BY <1>2, <1>3, <2>1, <2>2 DEF Spans
<1>6. CollectInv'
  <2>1. Elems(stack') \cap Whites' = {}
    BY <1>2, <1>3
  <2> QED BY <1>0, <1>3, <1>4, <1>5, <2>1, HeapSame DEF CollectInv, Spans, ClosedIn
<1> QED BY <1>0, <1>2, <1>6, CollectFrame, ListCollectVisit DEF SafetyInv

LEMMA SafetyCollectLeave ==
  ASSUME SafetyInv, HeapInv', RefCountExact', CollectLeave
  PROVE  SafetyInv'
<1>0. /\ phase = "collect" /\ Quiet /\ stack # <<>>
      /\ UNCHANGED <<created, owner, target, dropping, roots, refCountAdj, freed, color,
                     toBeFreed, phase, local, pos, freeing, panicked>>
      /\ white' = Append(white, stack[Len(stack)])
      /\ stack' = SubSeq(stack, 1, Len(stack) - 1)
      /\ \A h \in Trace(stack[Len(stack)]) : color[target[h]] # "white"
  BY DEF CollectLeave, heap, counts
<1>1. PICK t \in Node : t = stack[Len(stack)]
  <2>1. stack[Len(stack)] \in Node
    BY <1>0, ElemsPop DEF SafetyInv, HeapInv, TypeOK
  <2> QED BY <2>1
<1>3. /\ Grays = {}
      /\ \A n \in Dead : \A g \in HandlesOf(n) : owner[g] \in Dead
      /\ Elems(stack) \cap Whites = {}
      /\ Spans((Ahead \cap Whites) \cup Elems(stack), Whites)
  BY <1>0 DEF SafetyInv, CollectInv, PhaseInv
<1>2. /\ Elems(stack) = Elems(stack') \cup {t}
      /\ Elems(white') = Elems(white) \cup {t}
      /\ Whites' = Whites /\ Grays' = {} /\ Ahead' = Ahead
  <2>1. Elems(stack) = Elems(stack') \cup {t}
    BY <1>0, <1>1, ElemsPop DEF SafetyInv, HeapInv, TypeOK
  <2>2. Elems(white') = Elems(white) \cup {t}
    BY <1>0, <1>1, ElemsAppend DEF SafetyInv, HeapInv, TypeOK
  <2> QED BY <1>0, <1>3, <2>1, <2>2 DEF Whites, Grays, Ahead
<1>4. Dead' = Dead
  BY <1>2 DEF Dead
<1>5. Spans((Ahead' \cap Whites') \cup Elems(stack'), Whites')
  <2> SUFFICES ASSUME NEW C \in SUBSET Node, (Ahead' \cap Whites') \cup Elems(stack') \subseteq C,
                      ClosedIn(C, Whites')
               PROVE  Whites' \subseteq C
    BY DEF Spans
  <2>1. (Ahead \cap Whites) \cup Elems(stack) \subseteq C \cup {t} /\ C \cup {t} \in SUBSET Node
    BY <1>2
  <2>2. ClosedIn(C \cup {t}, Whites)
    BY <1>0, <1>1, <1>2 DEF ClosedIn, Whites
  <2>3. Whites \subseteq C \cup {t} /\ t \notin Whites
    BY <1>2, <1>3, <2>1, <2>2 DEF Spans
  <2> QED BY <1>2, <2>3
<1>6. CollectInv'
  <2>1. Elems(stack') \cap Whites' = {}
    BY <1>2, <1>3
  <2> QED BY <1>0, <1>3, <1>4, <1>5, <2>1, HeapSame DEF CollectInv, Spans, ClosedIn
<1> QED BY <1>0, <1>2, <1>6, CollectFrame, ListCollectLeave DEF SafetyInv
(* When the collecting is over, the white list holds what was white, and   *)
(* nobody else holds a handle to it.                                       *)
LEMMA SafetyCollectDone ==
  ASSUME SafetyInv, HeapInv', RefCountExact', CollectDone
  PROVE  SafetyInv'
<1>0. /\ phase = "collect" /\ phase' = "free" /\ Quiet /\ stack = <<>> /\ pos > Len(local) /\ pos' = 1
      /\ UNCHANGED <<created, owner, target, dropping, roots, refCountAdj, freed, color, stack,
                     local, freeing, panicked>>
      /\ white' = white \o toBeFreed /\ toBeFreed' = <<>>
  BY DEF CollectDone, heap, counts
<1>1. dropping = {} /\ ~panicked
  BY <1>0 DEF Quiet
<1>2. /\ Grays = {} /\ Elems(stack) = {} /\ freeing = None
      /\ \A n \in Elems(toBeFreed) : HandlesOf(n) = {}
      /\ \A n \in Dead : \A g \in HandlesOf(n) : owner[g] \in Dead
      /\ Spans((Ahead \cap Whites) \cup Elems(stack), Whites)
      /\ \A n \in Node : freed[n] => HandlesOf(n) = {}
  BY <1>0, <1>1, ElemsEmpty DEF SafetyInv, CollectInv, PhaseInv, FreedInv
<1>3. Ahead = {}
  BY <1>0, AheadEnd DEF Ahead, SafetyInv, HeapInv, TypeOK
<1>4. Whites = {}
  BY <1>2, <1>3 DEF Spans, ClosedIn
<1>5. Elems(white') = Elems(white) \cup Elems(toBeFreed) /\ white' \in Seq(Node)
  BY <1>0, ElemsConcat DEF SafetyInv, HeapInv, TypeOK
<1>6. Dead = Elems(white)
  BY <1>2, <1>4 DEF Dead
<1>7. FreeInv'
  <2>1. \A n \in Elems(white') : \A h \in HandlesOf(n)' : owner'[h] \in Elems(white')
    BY <1>0, <1>2, <1>5, <1>6, HeapSame
  <2>2. \A n \in Node : freed'[n] => HandlesOf(n)' = {}
    BY <1>0, <1>2, HeapSame
  <2>3. \A i \in DOMAIN white' : ~(i < pos')
    BY <1>0, <1>5
  <2> QED BY <1>0, <1>2, <2>1, <2>2, <2>3 DEF FreeInv
<1>8. PhaseInv'
  <2>1. Grays' = {} /\ Whites' = {}
    BY <1>0, <1>2, <1>4 DEF Grays, Whites
  <2> QED BY <1>0, <2>1, ElemsEmpty DEF SafetyInv, PhaseInv
<1>9. MarkInv' /\ ScanInv' /\ CollectInv'
  BY <1>0 DEF MarkInv, ScanInv, CollectInv
<1>10. FreedInv'
  <2>1. \A n : OwnedBy(n)' = OwnedBy(n)
    BY <1>0, HeapSame
  <2> QED BY <1>0, <1>1, <2>1 DEF SafetyInv, FreedInv
<1> QED BY <1>7, <1>8, <1>9, <1>10, ListCollectDone DEF SafetyInv

-----------------------------------------------------------------------------
(* The collector: freeing *)

(* The frame of a step that frees.                                         *)
LEMMA FreeFrame ==
  ASSUME SafetyInv, HeapInv', RefCountExact', phase = "free", phase' = "free",
         UNCHANGED <<created, owner, target, color, refCountAdj, toBeFreed, stack, white, panicked>>,
         ~panicked, ListInv', FreeInv',
         \A n \in Node : freed'[n] => n \in created /\ OwnedBy(n) \subseteq dropping'
  PROVE  SafetyInv'
<1>1. PhaseInv'
  BY HeapSame, ElemsEmpty DEF SafetyInv, PhaseInv, Grays, Whites
<1>2. MarkInv' /\ ScanInv' /\ CollectInv'
  BY DEF MarkInv, ScanInv, CollectInv
<1>3. FreedInv'
  <2>1. \A n : OwnedBy(n)' = OwnedBy(n)
    BY DEF OwnedBy
  <2> QED BY <2>1 DEF FreedInv
<1> QED BY <1>1, <1>2, <1>3 DEF SafetyInv

LEMMA SafetyFree ==
  ASSUME SafetyInv, HeapInv', RefCountExact', Free
  PROVE  SafetyInv'
<1>0. /\ phase = "free" /\ phase' = "free" /\ Quiet /\ freeing = None /\ pos <= Len(white)
      /\ UNCHANGED <<created, owner, target, color, refCountAdj, toBeFreed, stack, white, panicked>>
  BY DEF Free, counts
<1>1. dropping = {} /\ ~panicked
  BY <1>0 DEF Quiet
<1>2. PICK n \in Node : n = white[pos]
  <2>1. white \in Seq(Node) /\ pos \in 1 .. Len(white)
    BY <1>0 DEF SafetyInv, HeapInv, TypeOK
  <2> QED BY <2>1
<1>3. pos \in DOMAIN white /\ n \in Elems(white) /\ pos \in Nat
  BY <1>0, <1>2 DEF Elems, SafetyInv, HeapInv, TypeOK
<1>4. /\ \A m \in Elems(white) : \A h \in HandlesOf(m) : owner[h] \in Elems(white)
      /\ \A m \in Node : freed[m] => HandlesOf(m) = {} \/ m \in Elems(white)
      /\ \A i \in DOMAIN white : i < pos => freed[white[i]]
      /\ \A m \in Node : freed[m] => m \in created /\ OwnedBy(m) = {}
      /\ Elems(white) \subseteq created
  BY <1>0, <1>1 DEF SafetyInv, FreeInv, FreedInv, ListInv
<1>5. \A m : HandlesOf(m)' = HandlesOf(m)
  BY <1>0 DEF HandlesOf
<1>6. DOMAIN white \subseteq Nat
  <2>1. white \in Seq(Node)
    BY DEF SafetyInv, HeapInv, TypeOK
  <2>2. DOMAIN white = 1 .. Len(white) /\ Len(white) \in Nat
    BY <2>1
  <2> QED BY <2>2
<1>7. CASE freed[n]
  <2>1. pos' = pos + 1 /\ UNCHANGED <<dropping, freed, freeing>>
    BY <1>2, <1>7 DEF Free
  <2>2. \A i \in DOMAIN white : i < pos' => i < pos \/ i = pos
    BY <1>3, <1>6, <2>1
  <2>3. FreeInv'
    BY <1>0, <1>2, <1>4, <1>5, <1>7, <2>1, <2>2 DEF FreeInv
  <2> QED BY <1>0, <1>1, <1>4, <2>1, <2>3, FreeFrame, ListFree DEF SafetyInv
<1>8. CASE ~freed[n]
  <2>1. /\ freed' = [freed EXCEPT ![n] = TRUE] /\ freeing' = n /\ pos' = pos
        /\ dropping' = OwnedBy(n) \cup (HandlesOf(n) \cap DepHandle)
    BY <1>2, <1>8 DEF Free
  <2>2. freed'[n] /\ \A m \in Node : freed'[m] <=> freed[m] \/ m = n
    BY <2>1 DEF SafetyInv, HeapInv, TypeOK
  <2>3. \A i \in DOMAIN white : white[i] \in Node
    BY DEF SafetyInv, HeapInv, TypeOK
  <2>4. FreeInv'
    BY <1>0, <1>2, <1>3, <1>4, <1>5, <2>1, <2>2, <2>3 DEF FreeInv
  <2>5. \A m \in Node : freed'[m] => m \in created /\ OwnedBy(m) \subseteq dropping'
    BY <1>3, <1>4, <2>1, <2>2
  <2> QED BY <1>0, <1>1, <2>4, <2>5, FreeFrame, ListFree DEF SafetyInv
<1> QED BY <1>7, <1>8

LEMMA SafetyRetain ==
  ASSUME SafetyInv, HeapInv', RefCountExact', Retain
  PROVE  SafetyInv'
<1>0. /\ freeing # None /\ Quiet /\ freeing' = None /\ pos' = pos + 1
      /\ UNCHANGED <<created, owner, target, dropping, color, refCountAdj, freed, toBeFreed, stack,
                     phase, white, panicked>>
  BY DEF Retain, heap
<1>1. phase = "free" /\ phase' = "free" /\ ~panicked
  BY <1>0 DEF SafetyInv, PhaseInv, Quiet
<1>2. /\ \A m \in Elems(white) : \A h \in HandlesOf(m) : owner[h] \in Elems(white)
      /\ \A m \in Node : freed[m] => HandlesOf(m) = {} \/ m \in Elems(white)
      /\ \A i \in DOMAIN white : i < pos => freed[white[i]]
      /\ \A m \in Node : freed[m] => m \in created /\ OwnedBy(m) \subseteq dropping
      /\ freed[white[pos]]
  BY <1>0, <1>1 DEF SafetyInv, FreeInv, FreedInv
<1>3. DOMAIN white \subseteq Nat /\ pos \in Nat
  <2>1. white \in Seq(Node) /\ pos \in Nat
    BY DEF SafetyInv, HeapInv, TypeOK
  <2>2. DOMAIN white = 1 .. Len(white) /\ Len(white) \in Nat
    BY <2>1
  <2> QED BY <2>1, <2>2
<1>4. \A i \in DOMAIN white : i < pos' => i < pos \/ i = pos
  BY <1>0, <1>3
<1>5. FreeInv'
  BY <1>0, <1>1, <1>2, <1>4, HeapSame DEF FreeInv
<1> QED BY <1>0, <1>1, <1>2, <1>5, FreeFrame, ListRetain DEF SafetyInv

(* Nothing that nodes own is dropped when free() starts on the next one,   *)
(* so at the end the nodes of the white list own nothing any more, and     *)
(* hence nobody holds a handle to one of them.  The count of a node can be *)
(* left over only where keep_alive entries went without a dec_ref.         *)
LEMMA FreedAlone ==
  ASSUME SafetyInv, FreeDone, NEW n \in Elems(white)
  PROVE  n \in Node /\ HandlesOf(n) = {} /\ OwnedBy(n) = {}
<1>0. phase = "free" /\ Quiet /\ pos > Len(white) /\ dropping = {}
  BY DEF FreeDone, Quiet
<1>1. Elems(white) \subseteq Node
  BY ElemsNode DEF SafetyInv, HeapInv, TypeOK
<1>2. \A i \in DOMAIN white : i < pos
  BY <1>0 DEF SafetyInv, HeapInv, TypeOK
<1>3. \A m \in Elems(white) : freed[m]
  BY <1>0, <1>2 DEF SafetyInv, FreeInv, Elems
<1>4. \A m \in Elems(white) : OwnedBy(m) = {}
  BY <1>0, <1>1, <1>3 DEF SafetyInv, FreedInv
<1>5. \A h \in HandlesOf(n) : owner[h] \in Elems(white) /\ h \in Handle
  BY <1>0 DEF SafetyInv, FreeInv, HandlesOf
<1>6. HandlesOf(n) = {}
  BY <1>4, <1>5 DEF OwnedBy
<1> QED BY <1>1, <1>4, <1>6

LEMMA SafetyFreeDone ==
  ASSUME SafetyInv, HeapInv', RefCountExact', FreeDone
  PROVE  SafetyInv'
<1>0. /\ phase = "free" /\ phase' = "again" /\ dropping = {} /\ ~panicked /\ freeing = None
      /\ UNCHANGED <<created, owner, target, color, refCount, refCountAdj, freed, toBeFreed, stack, freeing>>
      /\ white' = <<>>
      /\ panicked' = \E n \in Elems(white) : refCount[n] # 0
  BY DEF FreeDone, counts, Quiet
<1>1. \A m : HandlesOf(m)' = HandlesOf(m) /\ OwnedBy(m)' = OwnedBy(m)
  BY <1>0 DEF HandlesOf, OwnedBy
<1>2. \A m \in Node : freed[m] => HandlesOf(m) = {} /\ OwnedBy(m) = {} /\ m \in created
  BY <1>0, FreedAlone DEF SafetyInv, FreeInv, FreedInv
<1>3. PhaseInv'
  BY <1>0, ElemsEmpty DEF SafetyInv, PhaseInv, Grays, Whites
<1>4. MarkInv' /\ ScanInv' /\ CollectInv' /\ FreeInv'
  BY <1>0 DEF MarkInv, ScanInv, CollectInv, FreeInv
<1>5. NoLiveFreed'
  <2>1. Live' \subseteq Live
    BY <1>0, LiveShrinks DEF SafetyInv
  <2>2. \A n \in Live : HandlesOf(n) # {} /\ n \in Node
    BY LiveHandles, LiveSource DEF SafetyInv
  <2> QED BY <1>0, <1>2, <2>1, <2>2 DEF NoLiveFreed
<1>6. ASSUME panicked' PROVE \E l \in Listener : refCount'[l] # Cardinality(HandlesOf(l)')
  <2>1. PICK n \in Elems(white) : refCount[n] # 0
    BY <1>0, <1>6
  <2>2. n \in Node /\ HandlesOf(n) = {}
    BY FreedAlone
  <2>3. Cardinality(HandlesOf(n)) = 0
    BY <2>2, FS_EmptySet
  <2>4. n \in Listener
    BY <2>1, <2>2, <2>3 DEF SafetyInv, RefCountExact
  <2> QED BY <1>0, <1>1, <2>1, <2>3, <2>4
<1>7. FreedInv'
  <2>1. \A m \in Node : freed'[m] => m \in created' /\ OwnedBy(m)' \subseteq dropping' /\ HandlesOf(m)' = {}
    BY <1>0, <1>1, <1>2
  <2> QED BY <1>0, <1>5, <1>6, <2>1 DEF FreedInv
<1> QED BY <1>3, <1>4, <1>7, ListFreeDone DEF SafetyInv

-----------------------------------------------------------------------------
(* The invariant is inductive.                                             *)
LEMMA SafetyStep == SafetyInv /\ [Next]_vars => SafetyInv'
<1> SUFFICES ASSUME SafetyInv, [Next]_vars PROVE SafetyInv'
  OBVIOUS
<1>1. HeapInv'
  BY HeapStep DEF SafetyInv
<1>2. RefCountExact'
  BY CountStep DEF SafetyInv
<1>3. CASE ProgramStep
  BY <1>1, <1>2, <1>3, SafetyProgram, SafetyCollect
<1>4. CASE CollectorStep
  <2>1. ASSUME MarkRoot PROVE SafetyInv'
    BY <1>1, <1>2, <2>1, SafetyMarkGray, SafetyMarkSkip
  <2> QED
    BY <1>1, <1>2, <1>4, <2>1, SafetyMarkDone, SafetyScanRoot, SafetyScanDone, SafetyCollectRoot,
       SafetyCollectVisit, SafetyCollectLeave, SafetyCollectDone, SafetyFree, SafetyRetain,
       SafetyFreeDone, SafetyAgain
    DEF CollectorStep
<1>5. CASE DropStep
  BY <1>1, <1>2, <1>5, SafetyRunDrop DEF DropStep
<1>6. CASE UNCHANGED vars
  <2>1. /\ UNCHANGED <<created, owner, target, dropping, refCount, color, buffered, roots, refCountAdj>>
        /\ UNCHANGED <<freed, toBeFreed, phase, local, pos, stack, white, freeing, panicked>>
    BY <1>6 DEF vars, heap, counts, cursor
  <2>2. UNCHANGED <<Grays, Whites, Ahead, Waiting, Dead>>
    BY <2>1 DEF Grays, Whites, Ahead, Waiting, Dead
  <2>3. ListInv' /\ PhaseInv' /\ FreeInv'
    BY <2>1, <2>2, HeapSame DEF SafetyInv, ListInv, PhaseInv, FreeInv
  <2>4. \A n \in Node : \A S : CountedIn(n, S)' = CountedIn(n, S)
    BY <2>1, HeapSame DEF CountedIn
  <2>5. MarkInv'
    BY <2>1, <2>2, <2>4, HeapSame DEF SafetyInv, MarkInv, Spans, ClosedIn
  <2>6. Reach(Elems(local))' = Reach(Elems(local)) /\ Live' = Live
    BY <2>1, HeapSame DEF Live, Reach, ReachIn
  <2>7. ScanInv'
    BY <2>1, <2>2, <2>4, <2>6, HeapSame DEF SafetyInv, ScanInv, Spans, ClosedIn, Internal
  <2>8. CollectInv'
    BY <2>1, <2>2, HeapSame DEF SafetyInv, CollectInv, Spans, ClosedIn
  <2>9. FreedInv'
    BY <2>1, <2>6, HeapSame DEF SafetyInv, FreedInv, NoLiveFreed
  <2> QED BY <1>1, <1>2, <2>3, <2>5, <2>7, <2>8, <2>9 DEF SafetyInv
<1> QED BY <1>3, <1>4, <1>5, <1>6 DEF Next
-----------------------------------------------------------------------------
(* Theorems *)

(* possible_root buffers a node once, and every buffered node that is not  *)
(* freed waits in roots between two collections.                           *)
THEOREM RootsListed == Spec => []RootsBuffered
<1>1. SafetyInv => RootsBuffered
  BY DEF SafetyInv, ListInv, NoRepeat, Waiting, RootsBuffered
<1> QED BY <1>1, SafetyInit, SafetyStep, PTL DEF Spec

(* free() only ever hits a node that the program has no way to: whatever   *)
(* graph of streams, cells and listeners the program builds, loops         *)
(* included, and wherever the collector and the drops stand.               *)
THEOREM LiveNotFreed == Spec => []NoLiveFreed
<1>1. SafetyInv => NoLiveFreed
  <2> SUFFICES ASSUME SafetyInv, ~panicked, NEW n \in Live, freed[n] PROVE FALSE
    BY DEF NoLiveFreed, SafetyInv, FreedInv
  <2>1. n \in Node /\ HandlesOf(n) # {}
    BY LiveHandles, LiveSource DEF SafetyInv
  <2>2. phase = "free" /\ n \in Elems(white)
    BY <2>1 DEF SafetyInv, FreedInv, FreeInv
  <2>3. /\ Elems(white) \in SUBSET Node
        /\ \A m \in Elems(white) : \A h \in HandlesOf(m) : owner[h] \in Elems(white)
    BY <2>2, ElemsNode DEF SafetyInv, FreeInv, HeapInv, TypeOK
  <2> QED BY <2>2, <2>3, DeadNotLive DEF SafetyInv
<1> QED BY <1>1, SafetyInit, SafetyStep, PTL DEF Spec

(* An assertion of the collector fails only where the count of a Listener  *)
(* exceeds its handles: keep_alive entries of it went without a dec_ref.   *)
PanicExcused == panicked => \E l \in Listener : refCount[l] # Cardinality(HandlesOf(l))

THEOREM PanicNeedsKeepAlive == Spec => []PanicExcused
<1>1. SafetyInv => PanicExcused
  BY DEF SafetyInv, FreedInv, PanicExcused
<1> QED BY <1>1, SafetyInit, SafetyStep, PTL DEF Spec

(* Without keep_alive entries, which only defer and split make, every      *)
(* count is exact and none of the assertions of the collector fails.  With *)
(* them the assertion of collect_roots can fail: GcDeferLoop.              *)
THEOREM NeverPanics ==
  ASSUME KeepHandle = {}
  PROVE  Spec => []NoPanic
<1>1. Init => ExactBut({})
  BY CountInit
<1>2. HeapInv /\ ExactBut({}) /\ [Next]_vars => ExactBut({})'
  BY CountNext
<1>3. SafetyInv /\ ExactBut({}) => NoPanic
  BY DEF SafetyInv, FreedInv, NoPanic, ExactBut
<1>4. SafetyInv => HeapInv
  BY DEF SafetyInv
<1> QED BY <1>1, <1>2, <1>3, <1>4, SafetyInit, SafetyStep, PTL DEF Spec
=============================================================================
