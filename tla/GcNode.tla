------------------------------- MODULE GcNode -------------------------------
(***************************************************************************)
(* The reference counting cycle collector of impl_/gc_node.rs, with the    *)
(* heap it works on.                                                       *)
(*                                                                         *)
(* A gc node is a GcNode together with the data its trace and              *)
(* deconstructor closures reach: the NodeData of a Node, or the            *)
(* ListenerData of a Listener.  A handle is one counted reference: a Node  *)
(* (a Stream or a Cell holds one), a Listener, or one entry of a           *)
(* keep_alive list.  A handle is owned by the program (a local, a closure  *)
(* outside the graph), by the context (its keep_alive list) or by a gc     *)
(* node (an entry of its dependencies, or a handle captured by its update  *)
(* closure).  The Deps a node declares mirror the handles its closure      *)
(* captures, as the README demands, so trace visits exactly the handles    *)
(* the node owns.                                                          *)
(*                                                                         *)
(* One thread uses the context: the collector, and every drop it causes,   *)
(* runs to completion between two steps of the program.                    *)
(*                                                                         *)
(* mark_gray, scan and scan_black recurse along trace and touch a set that *)
(* does not depend on the order, so such a call is one step; collect_white *)
(* decides the order of the frees and is walked node by node.              *)
(*                                                                         *)
(* Definitions marked "Mutant" are wrong on purpose: put in the place of   *)
(* the definition after them, they break a property.                       *)
(***************************************************************************)
EXTENDS Naturals, Sequences, FiniteSets

CONSTANTS
  Node,        \* identities of gc nodes
  Listener,    \* the gc nodes that belong to a Listener
  Handle,      \* identities of counted references
  DepHandle,   \* the handles stored in a dependencies list
  KeepHandle,  \* the entries of a keep_alive list: a GcNode with its count
  Program,     \* owner of the handles outside the graph
  Context,     \* owner of the listeners in the keep_alive list of the context
  None         \* no node, no owner

ASSUME GcAssumption ==
  /\ IsFiniteSet(Node)
  /\ IsFiniteSet(Handle)
  /\ Listener \subseteq Node
  /\ DepHandle \subseteq Handle
  /\ KeepHandle \subseteq Handle
  /\ DepHandle \cap KeepHandle = {}
  /\ Program \notin Node /\ Context \notin Node \cup {Program}
  /\ None \notin Node \cup {Program, Context}

VARIABLES
  created,     \* nodes that exist or existed: an id is never used again
  owner,       \* owner[h]: who holds handle h, None when h does not exist
  target,      \* target[h]: the gc node h counts for
  dropping,    \* handles whose Drop has started and not run yet
  refCount, refCountAdj, color, buffered, freed,      \* GcNodeData
  roots, toBeFreed,                                   \* GcCtxData
  phase,       \* where collect_cycles is, "idle" outside of it
  local,       \* the roots the running function took out of the context
  pos,         \* the next entry of local, or of white, to look at
  stack,       \* the calls of collect_white in progress
  white,       \* the white list of collect_roots
  freeing,     \* the node whose free() is running, or None
  panicked     \* an assertion of the collector has failed

heap == <<created, owner, target, dropping>>
counts == <<refCount, color, buffered, roots>>
cursor == <<phase, local, pos, stack, white, freeing>>
vars == <<heap, counts, refCountAdj, freed, toBeFreed, cursor, panicked>>

Color == {"black", "gray", "purple", "white"}
Phase == {"idle", "mark", "scan", "collect", "free", "again"}

TypeOK ==
  /\ created \subseteq Node
  /\ owner \in [Handle -> Node \cup {Program, Context, None}]
  /\ target \in [Handle -> Node \cup {None}]
  /\ dropping \subseteq Handle
  /\ refCount \in [Node -> Nat]
  /\ refCountAdj \in [Node -> Nat]
  /\ color \in [Node -> Color]
  /\ buffered \in [Node -> BOOLEAN]
  /\ freed \in [Node -> BOOLEAN]
  /\ roots \in Seq(Node)
  /\ toBeFreed \in Seq(Node)
  /\ phase \in Phase
  /\ local \in Seq(Node)
  /\ pos \in Nat \ {0}
  /\ stack \in Seq(Node)
  /\ white \in Seq(Node)
  /\ freeing \in Node \cup {None}
  /\ panicked \in BOOLEAN

-----------------------------------------------------------------------------
(* The heap *)

HandlesOf(n) == {h \in Handle : target[h] = n}
OwnedBy(o) == {h \in Handle : owner[h] = o}

(* What trace of a node visits: the handles it owns and has not let go.    *)
Trace(o) == OwnedBy(o) \ dropping

(* A set of nodes that trace does not leave, when it may only step on the  *)
(* nodes of pass.                                                          *)
ClosedIn(C, pass) ==
  \A n \in C : \A h \in Trace(n) : target[h] \in pass => target[h] \in C

(* The nodes a traversal from S visits when it enters only nodes of pass.  *)
ReachIn(S, pass) ==
  {n \in Node : \A C \in SUBSET Node : S \subseteq C /\ ClosedIn(C, pass) => n \in C}

Reach(S) == ReachIn(S, Node)

(* The nodes the program can get at, or whose listeners are registered.    *)
Live == Reach({target[h] : h \in Trace(Program) \cup Trace(Context)})

Elems(s) == {s[i] : i \in DOMAIN s}

(* The gc nodes some list of the collector holds.                          *)
Listed ==
  Elems(roots) \cup Elems(toBeFreed) \cup Elems(local) \cup Elems(white)

(* NodeData dies with its last handle.  ListenerData is owned by the       *)
(* closures of its gc node, and dies when the last GcNode does: a handle,  *)
(* or an entry of a list.                                                  *)
DataAlive(n) == HandlesOf(n) # {} \/ (n \in Listener /\ n \in Listed)

Quiet == dropping = {} /\ ~panicked
Running == phase = "idle" /\ Quiet

-----------------------------------------------------------------------------
Init ==
  /\ created = {}
  /\ owner = [h \in Handle |-> None]
  /\ target = [h \in Handle |-> None]
  /\ dropping = {}
  /\ refCount = [n \in Node |-> 0]
  /\ refCountAdj = [n \in Node |-> 0]
  /\ color = [n \in Node |-> "black"]
  /\ buffered = [n \in Node |-> FALSE]
  /\ freed = [n \in Node |-> FALSE]
  /\ roots = <<>>
  /\ toBeFreed = <<>>
  /\ phase = "idle"
  /\ local = <<>>
  /\ pos = 1
  /\ stack = <<>>
  /\ white = <<>>
  /\ freeing = None
  /\ panicked = FALSE

-----------------------------------------------------------------------------
(* Counting *)

(* Mutant: a clone that forgets to count.                                  *)
IncRefForgotten(n, h, o) ==
  /\ owner' = [owner EXCEPT ![h] = o]
  /\ target' = [target EXCEPT ![h] = n]
  /\ color' = [color EXCEPT ![n] = "black"]
  /\ panicked' = freed[n]
  /\ UNCHANGED refCount

(* A new handle h to n, held by o: inc_ref, which refuses a freed node.    *)
IncRef(n, h, o) ==
  /\ owner' = [owner EXCEPT ![h] = o]
  /\ target' = [target EXCEPT ![h] = n]
  /\ refCount' = [refCount EXCEPT ![n] = @ + 1]
  /\ color' = [color EXCEPT ![n] = "black"]
  /\ panicked' = freed[n]

(* Mutant: pushed again although still buffered.                           *)
PossibleRootAgain(n) ==
  /\ color' = [color EXCEPT ![n] = "purple"]
  /\ IF color[n] = "purple"
     THEN UNCHANGED <<buffered, roots>>
     ELSE /\ buffered' = [buffered EXCEPT ![n] = TRUE]
          /\ roots' = Append(roots, n)

(* Mutant: a buffered node keeps its color.                                *)
PossibleRootFaded(n) ==
  IF color[n] = "purple" \/ buffered[n]
  THEN UNCHANGED <<color, buffered, roots>>
  ELSE /\ color' = [color EXCEPT ![n] = "purple"]
       /\ buffered' = [buffered EXCEPT ![n] = TRUE]
       /\ roots' = Append(roots, n)

(* possible_root: a node is pushed once, until a collection takes it out.  *)
PossibleRoot(n) ==
  /\ color' = [color EXCEPT ![n] = "purple"]
  /\ IF color[n] = "purple" \/ buffered[n]
     THEN UNCHANGED <<buffered, roots>>
     ELSE /\ buffered' = [buffered EXCEPT ![n] = TRUE]
          /\ roots' = Append(roots, n)

(* Mutant: a drop that counts twice.                                       *)
DecRefTwice(n) ==
  IF refCount[n] = 0
  THEN UNCHANGED counts
  ELSE /\ refCount' = [refCount EXCEPT ![n] = @ - 2]
       /\ PossibleRoot(n)

(* Mutant: only a node that loses its last handle becomes a root.          *)
DecRefLast(n) ==
  CASE refCount[n] = 0 -> UNCHANGED counts
    [] refCount[n] = 1 -> refCount' = [refCount EXCEPT ![n] = 0] /\ PossibleRoot(n)
    [] OTHER -> /\ refCount' = [refCount EXCEPT ![n] = @ - 1]
                /\ UNCHANGED <<color, buffered, roots>>

(* fetch_update hands dec_ref the count before the decrement, so its       *)
(* release branch is never taken.                                          *)
DecRef(n) ==
  IF refCount[n] = 0
  THEN UNCHANGED counts
  ELSE /\ refCount' = [refCount EXCEPT ![n] = @ - 1]
       /\ PossibleRoot(n)

-----------------------------------------------------------------------------
(* The program *)

Unused(h) == target[h] = None

(* A handle the program can clone: one of its own, or one it reaches.      *)
Accessible(h) == target[h] # None /\ owner[h] \in Live \cup {Program}

(* Node::new.                                                              *)
New(n, h) ==
  /\ Running
  /\ n \notin created \cup Listener /\ Unused(h) /\ h \notin DepHandle \cup KeepHandle
  /\ created' = created \cup {n}
  /\ owner' = [owner EXCEPT ![h] = Program]
  /\ target' = [target EXCEPT ![h] = n]
  /\ refCount' = [refCount EXCEPT ![n] = 1]
  /\ UNCHANGED <<dropping, color, buffered, roots, refCountAdj, freed, toBeFreed,
                 cursor, panicked>>

(* listen_weak (Listener::new): the Listener takes over the handle g to    *)
(* its node.                                                               *)
ListenWeak(l, h, g) ==
  /\ Running
  /\ l \in Listener \ created /\ Unused(h) /\ h \notin DepHandle \cup KeepHandle
  /\ owner[g] = Program /\ target[g] \notin Listener
  /\ created' = created \cup {l}
  /\ owner' = [owner EXCEPT ![h] = Program, ![g] = l]
  /\ target' = [target EXCEPT ![h] = l]
  /\ refCount' = [refCount EXCEPT ![l] = 1]
  /\ UNCHANGED <<dropping, color, buffered, roots, refCountAdj, freed, toBeFreed,
                 cursor, panicked>>

(* listen: the context keeps a clone c of the Listener.                    *)
Listen(l, h, c, g) ==
  /\ Running
  /\ l \in Listener \ created /\ h # c
  /\ Unused(h) /\ Unused(c) /\ {h, c} \cap (DepHandle \cup KeepHandle) = {}
  /\ owner[g] = Program /\ target[g] \notin Listener
  /\ created' = created \cup {l}
  /\ owner' = [owner EXCEPT ![h] = Program, ![c] = Context, ![g] = l]
  /\ target' = [target EXCEPT ![h] = l, ![c] = l]
  /\ refCount' = [refCount EXCEPT ![l] = 2]
  /\ UNCHANGED <<dropping, color, buffered, roots, refCountAdj, freed, toBeFreed,
                 cursor, panicked>>

(* Clone of a Node or a Listener, into a local of the program, or into the *)
(* closure or the dependencies of a node it reaches.                       *)
Clone(g, h, o) ==
  /\ Running
  /\ Accessible(g) /\ g \notin KeepHandle /\ Unused(h) /\ h \notin KeepHandle
  /\ o \in {Program} \cup (Live \ Listener)
  /\ h \in DepHandle => o # Program /\ target[g] \notin Listener
  /\ o # Program => target[g] \notin Listener
  /\ IncRef(target[g], h, o)
  /\ UNCHANGED <<created, dropping, buffered, roots, refCountAdj, freed, toBeFreed, cursor>>

(* defer and split: a weak Listener takes over the handle g to its node,   *)
(* the result o keeps it alive (add_keep_alive), and the handle itself goes *)
(* at the end of the call.                                                 *)
Defer(l, k, g, o) ==
  /\ Running
  /\ l \in Listener \ created /\ k \in KeepHandle /\ Unused(k)
  /\ owner[g] = Program /\ target[g] \notin Listener
  /\ o \in Live \ (Listener \cup {target[g]})
  /\ created' = created \cup {l}
  /\ owner' = [owner EXCEPT ![k] = o, ![g] = l]
  /\ target' = [target EXCEPT ![k] = l]
  /\ refCount' = [refCount EXCEPT ![l] = 1]
  /\ PossibleRoot(l)
  /\ UNCHANGED <<dropping, refCountAdj, freed, toBeFreed, cursor, panicked>>

(* upgrade2: update_node turns the weak dependents of a node into handles, *)
(* whether the program can still reach them or not.                        *)
Upgrade(n, h) ==
  /\ Running
  /\ n \notin Listener /\ HandlesOf(n) # {}
  /\ Unused(h) /\ h \notin DepHandle \cup KeepHandle
  /\ IncRef(n, h, Program)
  /\ UNCHANGED <<created, dropping, buffered, roots, refCountAdj, freed, toBeFreed, cursor>>

(* The program lets go of a local, or removes a dependency of a node.      *)
Drop(h) ==
  /\ Running
  /\ owner[h] = Program \/ (h \in DepHandle /\ Accessible(h))
  /\ dropping' = {h}
  /\ UNCHANGED <<created, owner, target, counts, refCountAdj, freed, toBeFreed,
                 cursor, panicked>>

(* Listener::unlisten lets go of the node, and takes the Listener out of   *)
(* the keep_alive list of the context.                                     *)
Unlisten(l) ==
  /\ Running
  /\ l \in Listener /\ OwnedBy(l) # {}
  /\ \E h \in HandlesOf(l) : owner[h] = Program
  /\ dropping' = OwnedBy(l) \cup (HandlesOf(l) \cap OwnedBy(Context))
  /\ UNCHANGED <<created, owner, target, counts, refCountAdj, freed, toBeFreed,
                 cursor, panicked>>

(* Drop of a handle: dec_ref, then the data goes with its last owner and   *)
(* the handles in it are dropped too.  The entries of a keep_alive list    *)
(* are GcNodes, which have no Drop: they go without a dec_ref, and a       *)
(* Listener that loses its last GcNode this way goes with them.            *)
RunDrop(h) ==
  LET n == target[h]
      lost == IF n \notin Listener /\ HandlesOf(n) = {h} THEN Trace(n) ELSE {}
      gone == {h} \cup (lost \cap KeepHandle)
      orphans == {l \in Listener \ {n} : /\ HandlesOf(l) # {} /\ HandlesOf(l) \subseteq gone
                                         /\ l \notin Listed}
  IN /\ h \in dropping /\ ~panicked
     /\ DecRef(n)
     /\ dropping' = (dropping \cup lost \cup UNION {OwnedBy(l) : l \in orphans}) \ gone
     /\ owner' = [g \in Handle |-> IF g \in gone THEN None ELSE owner[g]]
     /\ target' = [g \in Handle |-> IF g \in gone THEN None ELSE target[g]]
     /\ UNCHANGED <<created, refCountAdj, freed, toBeFreed, cursor, panicked>>

-----------------------------------------------------------------------------
(* The collector *)

(* mark_roots takes the roots and resets the adjustments from them.        *)
BeginRound ==
  /\ phase' = "mark"
  /\ local' = roots
  /\ roots' = <<>>
  /\ pos' = 1
  /\ refCountAdj' = [n \in Node |-> IF n \in Reach(Elems(roots)) THEN 0 ELSE refCountAdj[n]]

Collect ==
  /\ Running
  /\ BeginRound
  /\ UNCHANGED <<heap, refCount, color, buffered, freed, toBeFreed, stack, white,
                 freeing, panicked>>

(* Mutant: mark_gray goes through gray nodes again.                        *)
GrayedAgain(r) == Reach({r})

(* What a call of mark_gray on r visits.                                   *)
Grayed(r) == ReachIn({r}, {n \in Node : color[n] # "gray"})

(* mark_gray grays what it reaches that is not gray, and adds the edges    *)
(* out of it to refCountAdj; the assertion compares the value before.      *)
MarkGray(r) ==
  LET grayed == Grayed(r)
      edges(n) == Cardinality({h \in HandlesOf(n) : h \in UNION {Trace(m) : m \in grayed}})
  IN /\ color' = [n \in Node |-> IF n \in grayed THEN "gray" ELSE color[n]]
     /\ refCountAdj' = [n \in Node |-> refCountAdj[n] + edges(n)]
     /\ panicked' = \E n \in Node : edges(n) > 0 /\ refCountAdj[n] + edges(n) > refCount[n] + 1

(* No handle is dropped while mark_roots runs, so roots gets nothing but   *)
(* new_roots.                                                              *)
MarkRoot ==
  /\ phase = "mark" /\ Quiet /\ pos <= Len(local)
  /\ LET r == local[pos] IN
       IF color[r] = "purple"
       THEN /\ MarkGray(r)
            /\ roots' = Append(roots, r)
            /\ UNCHANGED <<buffered, toBeFreed>>
       ELSE /\ buffered' = [buffered EXCEPT ![r] = FALSE]
            /\ toBeFreed' = IF color[r] = "black" /\ refCount[r] = 0 /\ ~freed[r]
                            THEN Append(toBeFreed, r) ELSE toBeFreed
            /\ UNCHANGED <<color, refCountAdj, roots, panicked>>
  /\ pos' = pos + 1
  /\ UNCHANGED <<heap, refCount, freed, phase, local, stack, white, freeing>>

MarkDone ==
  /\ phase = "mark" /\ Quiet /\ pos > Len(local)
  /\ phase' = "scan" /\ local' = roots /\ pos' = 1
  /\ UNCHANGED <<heap, counts, refCountAdj, freed, toBeFreed, stack, white, freeing, panicked>>

(* Mutant: some edges into the node are enough.                            *)
InternalLoose(n) == refCountAdj[n] <= refCount[n]

(* Mutant: never true.                                                     *)
InternalStrict(n) == refCountAdj[n] > refCount[n]

(* All the handles to n were met as edges.                                 *)
Internal(n) == refCountAdj[n] = refCount[n]

(* scan: a gray node all of whose count is internal becomes white and is   *)
(* scanned through; what a counted-from-outside node reaches turns black.  *)
ScanRoot ==
  LET r == local[pos]
      gray == {n \in Node : color[n] = "gray"}
      inner == {n \in gray : Internal(n)}
      whitened == IF r \in inner THEN ReachIn({r}, inner) ELSE {}
      hot == {n \in gray \ inner : n = r \/ \E m \in whitened : \E h \in Trace(m) : target[h] = n}
      blackened == ReachIn(hot, {n \in Node : color[n] # "black"})
  IN /\ phase = "scan" /\ Quiet /\ pos <= Len(local)
     /\ color' = [n \in Node |-> IF n \in blackened THEN "black"
                                 ELSE IF n \in whitened THEN "white" ELSE color[n]]
     /\ pos' = pos + 1
     /\ UNCHANGED <<heap, refCount, buffered, roots, refCountAdj, freed, toBeFreed,
                    phase, local, stack, white, freeing, panicked>>

ScanDone ==
  /\ phase = "scan" /\ Quiet /\ pos > Len(local)
  /\ refCountAdj' = [n \in Node |-> IF n \in Reach(Elems(local)) THEN 0 ELSE refCountAdj[n]]
  /\ phase' = "collect" /\ roots' = <<>> /\ pos' = 1
  /\ UNCHANGED <<heap, refCount, color, buffered, freed, toBeFreed, local, stack, white,
                 freeing, panicked>>

CollectRoot ==
  /\ phase = "collect" /\ Quiet /\ stack = <<>> /\ pos <= Len(local)
  /\ LET r == local[pos] IN
       /\ buffered' = [buffered EXCEPT ![r] = FALSE]
       /\ IF color[r] = "white"
          THEN color' = [color EXCEPT ![r] = "black"] /\ stack' = <<r>>
          ELSE UNCHANGED <<color, stack>>
  /\ pos' = pos + 1
  /\ UNCHANGED <<heap, refCount, roots, refCountAdj, freed, toBeFreed, phase, local, white,
                 freeing, panicked>>

(* collect_white goes into a white child (h is the order of trace) ...     *)
CollectVisit(h) ==
  /\ phase = "collect" /\ Quiet /\ stack # <<>>
  /\ h \in Trace(stack[Len(stack)]) /\ color[target[h]] = "white"
  /\ color' = [color EXCEPT ![target[h]] = "black"]
  /\ stack' = Append(stack, target[h])
  /\ UNCHANGED <<heap, refCount, buffered, roots, refCountAdj, freed, toBeFreed,
                 phase, local, pos, white, freeing, panicked>>

(* ... and lists a node after its children.                                *)
CollectLeave ==
  /\ phase = "collect" /\ Quiet /\ stack # <<>>
  /\ \A h \in Trace(stack[Len(stack)]) : color[target[h]] # "white"
  /\ white' = Append(white, stack[Len(stack)])
  /\ stack' = SubSeq(stack, 1, Len(stack) - 1)
  /\ UNCHANGED <<heap, counts, refCountAdj, freed, toBeFreed, phase, local, pos,
                 freeing, panicked>>

(* The to_be_freed list is handled after the white list and nothing is     *)
(* added to it meanwhile.                                                  *)
CollectDone ==
  /\ phase = "collect" /\ Quiet /\ stack = <<>> /\ pos > Len(local)
  /\ phase' = "free" /\ pos' = 1
  /\ white' = white \o toBeFreed /\ toBeFreed' = <<>>
  /\ UNCHANGED <<heap, counts, refCountAdj, freed, local, stack, freeing, panicked>>

(* free(): the deconstructor empties the node and takes it out of the      *)
(* dependencies of its dependents.                                         *)
Free ==
  /\ phase = "free" /\ Quiet /\ freeing = None /\ pos <= Len(white)
  /\ LET n == white[pos] IN
       IF freed[n]
       THEN pos' = pos + 1 /\ UNCHANGED <<dropping, freed, freeing>>
       ELSE /\ freed' = [freed EXCEPT ![n] = TRUE]
            /\ freeing' = n
            /\ dropping' = OwnedBy(n) \cup (HandlesOf(n) \cap DepHandle)
            /\ UNCHANGED pos
  /\ UNCHANGED <<created, owner, target, counts, refCountAdj, toBeFreed, phase, local,
                 stack, white, panicked>>

Without(s, m) ==
  IF m \in Elems(s)
  THEN LET i == CHOOSE j \in DOMAIN s : s[j] = m
       IN SubSeq(s, 1, i - 1) \o SubSeq(s, i + 1, Len(s))
  ELSE s

(* data.roots.retain after the deconstructor has run; roots never holds a  *)
(* node twice (RootsBuffered), so there is one entry to remove at most.    *)
Retain ==
  /\ freeing # None /\ Quiet
  /\ roots' = Without(roots, freeing)
  /\ freeing' = None /\ pos' = pos + 1
  /\ UNCHANGED <<heap, refCount, color, buffered, refCountAdj, freed, toBeFreed,
                 phase, local, stack, white, panicked>>

(* collect_roots returns: the count of what it freed must be zero, and the *)
(* Listeners only its lists still held go.                                 *)
FreeDone ==
  LET orphans == {l \in Listener : HandlesOf(l) = {} /\ l \notin Elems(roots)} IN
  /\ phase = "free" /\ Quiet /\ freeing = None /\ pos > Len(white)
  /\ panicked' = \E n \in Elems(white) : refCount[n] # 0
  /\ dropping' = UNION {OwnedBy(l) : l \in orphans}
  /\ phase' = "again" /\ local' = <<>> /\ white' = <<>> /\ pos' = 1
  /\ UNCHANGED <<created, owner, target, counts, refCountAdj, freed, toBeFreed, stack, freeing>>

(* Mutant: one round and no more.                                          *)
AgainNever ==
  /\ phase = "again" /\ Quiet
  /\ phase' = "idle" /\ UNCHANGED <<local, roots, pos, refCountAdj>>
  /\ UNCHANGED <<heap, refCount, color, buffered, freed, toBeFreed, stack, white,
                 freeing, panicked>>

(* Mutant: one round more, always.                                         *)
AgainAlways ==
  /\ phase = "again" /\ Quiet
  /\ BeginRound
  /\ UNCHANGED <<heap, refCount, color, buffered, freed, toBeFreed, stack, white,
                 freeing, panicked>>

(* collect_cycles goes round until nothing is left to look at.             *)
Again ==
  /\ phase = "again" /\ Quiet
  /\ IF roots = <<>> /\ toBeFreed = <<>>
     THEN phase' = "idle" /\ UNCHANGED <<local, roots, pos, refCountAdj>>
     ELSE BeginRound
  /\ UNCHANGED <<heap, refCount, color, buffered, freed, toBeFreed, stack, white,
                 freeing, panicked>>

-----------------------------------------------------------------------------
ProgramStep ==
  \/ \E n \in Node, h \in Handle : New(n, h) \/ Upgrade(n, h)
  \/ \E l \in Listener, h, g \in Handle :
       \/ ListenWeak(l, h, g)
       \/ \E c \in Handle : Listen(l, h, c, g)
       \/ \E o \in Node : Defer(l, h, g, o)
  \/ \E g, h \in Handle, o \in Node \cup {Program} : Clone(g, h, o)
  \/ \E h \in Handle : Drop(h)
  \/ \E l \in Listener : Unlisten(l)
  \/ Collect

CollectorStep ==
  \/ MarkRoot \/ MarkDone \/ ScanRoot \/ ScanDone
  \/ CollectRoot \/ CollectDone \/ CollectLeave
  \/ \E h \in Handle : CollectVisit(h)
  \/ Free \/ Retain \/ FreeDone \/ Again

DropStep == \E h \in Handle : RunDrop(h)

Next == ProgramStep \/ CollectorStep \/ DropStep

Spec == Init /\ [][Next]_vars

(* The thread that entered the collector, or a drop, keeps running.        *)
FairSpec == Spec /\ WF_vars(CollectorStep \/ DropStep)

-----------------------------------------------------------------------------
(* Properties *)

(* inc_ref, dec_ref: the count of a node is the number of handles to it,   *)
(* and never less than that for a Listener, whose keep_alive entries go    *)
(* without a dec_ref when the NodeData that holds them dies.               *)
RefCountExact ==
  \A n \in Node : /\ refCount[n] >= Cardinality(HandlesOf(n))
                  /\ n \notin Listener => refCount[n] = Cardinality(HandlesOf(n))

(* free() only ever hits a node the program has no way to: a stream or a   *)
(* cell in use is never emptied by the collector.                          *)
NoLiveFreed == \A n \in Live : ~freed[n]

(* None of the assertions of the collector fails: no adjustment above its  *)
(* count (mark_gray), no freed node with handles left (collect_roots), no  *)
(* handle taken on a freed node (inc_ref).                                 *)
NoPanic == ~panicked

(* mark_roots overwrites what is pushed to roots while it runs: a root it  *)
(* lets go must not own its data by then, or the drops would be lost.      *)
MarkDropsNothing ==
  phase = "mark" =>
    \A i \in pos .. Len(local) :
      (local[i] \in Listener /\ color[local[i]] # "purple" /\ OwnedBy(local[i]) # {})
        => HandlesOf(local[i]) # {}

(* possible_root buffers a node once: roots holds no node twice, and every *)
(* buffered node that is not freed is there between two collections.       *)
RootsBuffered ==
  /\ \A i, j \in DOMAIN roots : roots[i] = roots[j] => i = j
  /\ phase = "idle" => \A n \in Node : ~freed[n] => (buffered[n] <=> n \in Elems(roots))

(* dec_ref leaves a trail: whatever the program cannot reach any more can  *)
(* be reached from a purple root, where the next collection starts.        *)
NoLostGarbage ==
  (phase = "idle" /\ dropping = {}) =>
    \A n \in Node \ Live :
      DataAlive(n) => n \in Reach({r \in Elems(roots) : color[r] = "purple"})

(* When collect_cycles returns, what the program cannot reach is gone.     *)
CollectsAll ==
  [][phase # "idle" /\ phase' = "idle" =>
       \A n \in Node : DataAlive(n)' => n \in Live']_vars

(* collect_cycles goes round while drops make new roots, but it returns,   *)
(* or an assertion of it fails.                                            *)
CollectionEnds == phase # "idle" ~> phase = "idle" \/ panicked
=============================================================================
