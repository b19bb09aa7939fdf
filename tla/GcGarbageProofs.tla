--------------------------- MODULE GcGarbageProofs ---------------------------
(***************************************************************************)
(* For every set of nodes and handles, the completeness of the collector:  *)
(* dec_ref leaves a trail to whatever the program cannot reach any more,   *)
(* and when collect_cycles returns nothing of it is left.                  *)
(*                                                                         *)
(* The argument: at every moment, every node whose data lives is reached   *)
(* from the anchors, which are the handles of the program and the context, *)
(* the targets of the drops under way and the nodes the collector has      *)
(* still to look at (AliveInv).  A step that lets go of an edge makes its  *)
(* target an anchor.  What the collector takes off its lists is either     *)
(* black, and then it is reached from the program, because some handle to  *)
(* a node on the way to it is not met by the traversal and its owner is    *)
(* alive (BlackInv), or dead, and then it is freed.                        *)
(***************************************************************************)
EXTENDS GcSafetyProofs

Purples == {n \in Node : color[n] = "purple"}

(* Listeners without handles that only the list of the running function    *)
(* still holds.                                                            *)
Zombies == {l \in Listener \cap Elems(local) : HandlesOf(l) = {}}

(* What the collector has still to look at, or to free.                    *)
Pending ==
  CASE phase = "mark" -> (Purples \cap Ahead) \cup Elems(roots)
    [] phase = "scan" -> Elems(local)
    [] OTHER -> (Purples \cap Elems(roots)) \cup Zombies \cup Dead

Anchors == Base \cup {target[h] : h \in dropping} \cup Pending

(* A handle that exists has an owner; the entry of a keep_alive list is    *)
(* the only handle to its Listener; and a count can exceed the handles     *)
(* only when there are none.                                               *)
HandleInv ==
  /\ \A h \in Handle : target[h] # None => owner[h] # None
  /\ \A k \in KeepHandle, h \in Handle : target[k] # None /\ target[h] = target[k] => h = k
  /\ \A n \in Node : HandlesOf(n) # {} => refCount[n] = Cardinality(HandlesOf(n))

(* A node that owns a handle, and has not let go of it, has its data.      *)
OwnerInv ==
  \A h \in Handle : owner[h] \in Node /\ h \notin dropping => DataAlive(owner[h])

(* A purple node waits in a list.  Between two rounds, a root that is not  *)
(* purple any more has been cloned since.                                  *)
PurpleInv ==
  /\ \A n \in Purples : freed[n] \/ buffered[n]
  /\ phase \in {"scan", "collect"} => \A n \in Purples : freed[n]
  /\ phase \in {"idle", "free", "again"} =>
       /\ \A r \in Elems(roots) : r \in Purples \/ HandlesOf(r) # {}
       /\ \A k \in KeepHandle : target[k] \in Elems(roots) => target[k] \in Purples

(* mark_roots lets go of roots that have handles only.                     *)
LocalInv ==
  phase = "mark" =>
    \A r \in Elems(local) : HandlesOf(r) # {} \/ r \in Elems(roots) \/ r \in Ahead \cap Purples

(* scan makes black only what the program reaches, or a Listener without   *)
(* handles does.                                                           *)
BlackInv ==
  phase = "scan" =>
    \A m \in Reach(Elems(local)) : color[m] = "black" => m \in Reach(Base \cup Zombies)

AliveInv == \A n \in Node : DataAlive(n) => n \in Reach(Anchors)

(* The to_be_freed list is never used, and no list is left between rounds. *)
RestInv ==
  /\ toBeFreed = <<>>
  /\ phase \in {"idle", "again"} => local = <<>>

GarbageInv ==
  HandleInv /\ OwnerInv /\ PurpleInv /\ LocalInv /\ BlackInv /\ AliveInv /\ RestInv

USE GcAssumption DEF GcAssumption

-----------------------------------------------------------------------------
(* The anchors *)

(* Between two rounds the purple roots are all the collector has to do.    *)
LEMMA RestLists ==
  SafetyInv /\ RestInv /\ phase \in {"idle", "again"} =>
    /\ Zombies = {} /\ Dead = {} /\ Listed = Elems(roots)
    /\ Anchors = Base \cup {target[h] : h \in dropping} \cup (Purples \cap Elems(roots))
<1> SUFFICES ASSUME SafetyInv, RestInv, phase \in {"idle", "again"}
             PROVE  /\ Zombies = {} /\ Dead = {} /\ Listed = Elems(roots)
                    /\ Anchors = Base \cup {target[h] : h \in dropping} \cup (Purples \cap Elems(roots))
  OBVIOUS
<1>1. /\ toBeFreed = <<>> /\ local = <<>> /\ white = <<>> /\ stack = <<>> /\ Whites = {}
  BY DEF RestInv, SafetyInv, PhaseInv
<1>2. Elems(<<>>) = {}
  BY ElemsEmpty
<1>3. Zombies = {} /\ Dead = {} /\ Listed = Elems(roots)
  BY <1>1, <1>2 DEF Zombies, Dead, Listed
<1>4. Pending = Purples \cap Elems(roots)
  BY <1>3 DEF Pending
<1> QED BY <1>3, <1>4 DEF Anchors

LEMMA RestListsNext ==
  ASSUME SafetyInv', RestInv', phase' \in {"idle", "again"}
  PROVE  /\ Zombies' = {} /\ Dead' = {} /\ Listed' = Elems(roots')
         /\ Anchors' = Base' \cup {target'[h] : h \in dropping'} \cup (Purples' \cap Elems(roots'))
<1>1. (SafetyInv /\ RestInv /\ phase \in {"idle", "again"} =>
        /\ Zombies = {} /\ Dead = {} /\ Listed = Elems(roots)
        /\ Anchors = Base \cup {target[h] : h \in dropping} \cup (Purples \cap Elems(roots)))'
  BY RestLists, PTL
<1>2. Elems(roots)' = Elems(roots')
  BY DEF Elems
<1> QED BY <1>1, <1>2

(* What lives is in every closed set that holds the anchors.               *)
LEMMA AliveIn ==
  ASSUME AliveInv, NEW C \in SUBSET Node, Anchors \subseteq C, ClosedIn(C, Node),
         NEW n \in Node, DataAlive(n)
  PROVE  n \in C
  BY ReachLeast DEF AliveInv, Reach

LEMMA AliveNext ==
  ASSUME \A C \in SUBSET Node : Anchors' \subseteq C /\ ClosedIn(C, Node)' =>
           \A n \in Node : DataAlive(n)' => n \in C
  PROVE  AliveInv'
  BY DEF AliveInv, Reach, ReachIn

-----------------------------------------------------------------------------
(* The program *)

(* A step of the program that makes handles, or hands some over to a new   *)
(* Listener: a node keeps what it owns, and the Listener is an anchor.     *)
LEMMA GarbageGrow ==
  ASSUME SafetyInv, SafetyInv', GarbageInv, Running, HandleInv', PurpleInv',
         UNCHANGED <<dropping, toBeFreed, cursor>>,
         Elems(roots) \subseteq Elems(roots'),
         \A x \in Handle : target[x] # None => target'[x] = target[x],
         \A x \in Handle : owner[x] \notin {None, Program} => owner'[x] = owner[x],
         \A x \in Handle : owner[x] = Program =>
            owner'[x] = Program \/ owner'[x] \in Node \cap Anchors',
         \A x \in Handle : \A o \in Node : owner'[x] = o => owner[x] = o \/ DataAlive(o)',
         \A n \in Purples \cap Elems(roots) : n \in Live \cup Anchors',
         \A n \in Node : HandlesOf(n)' # {} => HandlesOf(n) # {} \/ n \in Anchors',
         \A n \in Elems(roots') : n \in Elems(roots) \/ n \in Anchors'
  PROVE  GarbageInv'
<1>1. /\ UNCHANGED <<phase, local, white, toBeFreed>> /\ phase = "idle"
      /\ dropping = {} /\ dropping' = {}
  BY DEF cursor, Running, Quiet
<1>2. RestInv' /\ LocalInv' /\ BlackInv'
  BY <1>1 DEF GarbageInv, RestInv, LocalInv, BlackInv
<1>3. /\ Listed = Elems(roots) /\ Listed' = Elems(roots')
      /\ Anchors = Base \cup (Purples \cap Elems(roots))
  BY <1>1, <1>2, RestLists, RestListsNext DEF GarbageInv
<1>4. \A n \in Node : HandlesOf(n) \subseteq HandlesOf(n)'
  BY DEF HandlesOf
<1>5. \A n \in Node : DataAlive(n) => DataAlive(n)'
  BY <1>3, <1>4 DEF DataAlive
<1>6. OwnerInv'
  <2>1. \A x \in Handle : \A o \in Node : owner'[x] = o => DataAlive(o)'
    BY <1>1, <1>5 DEF GarbageInv, OwnerInv
  <2> QED BY <2>1 DEF OwnerInv, DataAlive, HandlesOf, Listed
<1>7. AliveInv'
  <2> SUFFICES ASSUME NEW C \in SUBSET Node, Anchors' \subseteq C, ClosedIn(C, Node)'
               PROVE  \A n \in Node : DataAlive(n)' => n \in C
    BY AliveNext
  <2>2. Base' \subseteq C
    BY DEF Anchors
  <2>3. ASSUME NEW y \in C \cup {Context}, NEW x \in Trace(y) PROVE target[x] \in C
    <3>1. x \in Handle /\ target[x] \in Node /\ x \in Trace(y)' /\ target'[x] = target[x]
      <4>1. x \in Handle /\ target[x] \in Node /\ owner[x] = y
        BY TraceTarget DEF SafetyInv, Trace, OwnedBy
      <4> QED BY <1>1, <4>1 DEF Trace, OwnedBy
    <3>2. CASE y = Context
      BY <3>1, <3>2, <2>2 DEF Base
    <3> QED BY <3>1, <3>2 DEF ClosedIn
  <2>4. ASSUME NEW x \in Trace(Program) PROVE target[x] \in C
    <3>1. x \in Handle /\ target[x] \in Node /\ owner[x] = Program /\ target'[x] = target[x]
      BY TraceTarget DEF SafetyInv, Trace, OwnedBy
    <3>2. CASE owner'[x] = Program
      <4>1. x \in Trace(Program)'
        BY <1>1, <3>1, <3>2 DEF Trace, OwnedBy
      <4> QED BY <2>2, <3>1, <4>1 DEF Base
    <3>3. CASE owner'[x] \in Node \cap Anchors'
      <4>1. PICK o \in Node : o = owner'[x] /\ o \in C
        BY <3>3
      <4>2. x \in Trace(o)'
        BY <1>1, <3>1, <4>1 DEF Trace, OwnedBy
      <4> QED BY <3>1, <4>1, <4>2 DEF ClosedIn
    <3> QED BY <3>1, <3>2, <3>3
  <2>5. Base \subseteq C
    BY <2>3, <2>4 DEF Base
  <2>6. ClosedIn(C, Node)
    BY <2>3 DEF ClosedIn
  <2>7. Live \subseteq C
    BY <2>5, <2>6, LiveLeast
  <2>8. Anchors \subseteq C
    BY <1>3, <2>5, <2>7
  <2>9. \A n \in Node : DataAlive(n) => n \in C
    BY <2>6, <2>8, AliveIn DEF GarbageInv
  <2> QED BY <1>3, <2>9 DEF DataAlive
<1> QED BY <1>2, <1>6, <1>7 DEF GarbageInv

(* One node n gets handles and its count follows.                          *)
LEMMA HandleGrow ==
  ASSUME SafetyInv, HandleInv, NEW n \in Node,
         \A x \in Handle : target'[x] # None => owner'[x] # None,
         \A x \in Handle : target'[x] # target[x] => target[x] = None /\ target'[x] = n,
         \A m \in Node \ {n} : refCount'[m] = refCount[m],
         \A k \in KeepHandle : target'[k] = n => HandlesOf(n)' = {k},
         refCount'[n] = Cardinality(HandlesOf(n)')
  PROVE  HandleInv'
<1>1. \A m \in Node \ {n} : HandlesOf(m)' = HandlesOf(m)
  BY DEF HandlesOf
<1>2. \A k \in KeepHandle : target'[k] \notin {None, n} => target'[k] = target[k] /\ target[k] \in Node \ {n}
  BY DEF SafetyInv, HeapInv, TypeOK
<1>3. \A m \in Node : HandlesOf(m)' # {} => refCount'[m] = Cardinality(HandlesOf(m)')
  BY <1>1 DEF HandleInv
<1>4. ASSUME NEW k \in KeepHandle, NEW x \in Handle, target'[k] # None, target'[x] = target'[k]
      PROVE  x = k
  <2>1. CASE target'[k] = n
    BY <1>4, <2>1 DEF HandlesOf
  <2>2. CASE target'[k] # n
    BY <1>2, <1>4, <2>2 DEF HandleInv
  <2> QED BY <2>1, <2>2
<1> QED BY <1>3, <1>4 DEF HandleInv

(* Colors, while the program makes handles: a node that turns black has a  *)
(* handle, and is in no keep_alive list.                                   *)
LEMMA PurpleGrow ==
  ASSUME SafetyInv, PurpleInv, phase = "idle", UNCHANGED <<phase, buffered, freed, roots>>,
         \A x \in Handle : target[x] # None => target'[x] = target[x],
         \A k \in KeepHandle : target'[k] = target[k],
         \A m \in Node : color'[m] = color[m] \/
            (color'[m] = "black" /\ HandlesOf(m)' # {} /\ \A k \in KeepHandle : target[k] # m)
  PROVE  PurpleInv'
<1>1. \A m \in Node : HandlesOf(m) \subseteq HandlesOf(m)'
  BY DEF HandlesOf
<1>2. Elems(roots') = Elems(roots) /\ Elems(roots)' = Elems(roots) /\ Elems(roots) \subseteq Node
  BY ElemsNode DEF Elems, SafetyInv, HeapInv, TypeOK
<1>3. Purples' \subseteq Purples
  BY DEF Purples
<1>4. \A m \in Purples : m \in Purples' \/ (HandlesOf(m)' # {} /\ \A k \in KeepHandle : target[k] # m)
  BY DEF Purples
<1>5. \A r \in Elems(roots) : r \in Purples' \/ HandlesOf(r)' # {}
  BY <1>1, <1>2, <1>4 DEF PurpleInv
<1>6. \A k \in KeepHandle : target[k] \in Elems(roots) => target[k] \in Purples'
  BY <1>2, <1>4 DEF PurpleInv
<1> QED BY <1>2, <1>3, <1>5, <1>6 DEF PurpleInv

(* A new handle of the program makes an anchor.                            *)
LEMMA AnchorNew ==
  ASSUME NEW h \in Handle, owner'[h] \in {Program, Context}, h \notin dropping'
  PROVE  target'[h] \in Anchors'
<1>1. h \in Trace(Program)' \/ h \in Trace(Context)'
  BY DEF Trace, OwnedBy
<1> QED BY <1>1 DEF Anchors, Base

(* The purple roots are anchors as long as they are purple.                *)
LEMMA AnchorRoot ==
  ASSUME phase' = "idle", NEW n \in Node, color'[n] = "purple", n \in Elems(roots')
  PROVE  n \in Anchors'
<1>1. n \in Purples' /\ n \in Elems(roots)'
  BY DEF Purples, Elems
<1> QED BY <1>1 DEF Anchors, Pending

(* Node::new.                                                              *)
LEMMA GarbageNew ==
  ASSUME SafetyInv, SafetyInv', GarbageInv, NEW n \in Node, NEW h \in Handle, New(n, h)
  PROVE  GarbageInv'
<1>1. /\ Running /\ n \notin created /\ Unused(h) /\ h \notin KeepHandle
      /\ owner' = [owner EXCEPT ![h] = Program] /\ target' = [target EXCEPT ![h] = n]
      /\ refCount' = [refCount EXCEPT ![n] = 1]
      /\ UNCHANGED <<dropping, color, buffered, roots, freed, toBeFreed, cursor>>
  BY DEF New
<1>2. /\ phase = "idle" /\ UNCHANGED phase /\ dropping' = {}
      /\ target[h] = None
      /\ \A x \in Handle : owner'[x] = IF x = h THEN Program ELSE owner[x]
      /\ \A x \in Handle : target'[x] = IF x = h THEN n ELSE target[x]
      /\ \A m \in Node \ {n} : refCount'[m] = refCount[m]
      /\ refCount'[n] = 1
  BY <1>1 DEF SafetyInv, HeapInv, TypeOK, Unused, Running, Quiet, cursor
<1>3. \A x \in Handle : target[x] # n
  BY <1>1 DEF SafetyInv, HeapInv
<1>4. HandlesOf(n)' = {h} /\ Cardinality({h}) = 1
  <2>1. HandlesOf(n)' = {h}
    BY <1>2, <1>3 DEF HandlesOf
  <2> QED BY <2>1, FS_Singleton
<1>5. HandleInv'
  <2>1. \A x \in Handle : target'[x] # None => owner'[x] # None
    BY <1>2 DEF GarbageInv, HandleInv
  <2>2. \A k \in KeepHandle : target'[k] # n
    BY <1>1, <1>2, <1>3
  <2>3. \A x \in Handle : target'[x] # target[x] => target[x] = None /\ target'[x] = n
    BY <1>2
  <2> QED BY <1>2, <1>4, <2>1, <2>2, <2>3, HandleGrow DEF GarbageInv
<1>6. PurpleInv'
  <2>1. \A k \in KeepHandle : target'[k] = target[k]
    BY <1>1, <1>2
  <2>2. \A x \in Handle : target[x] # None => target'[x] = target[x]
    BY <1>2
  <2> QED BY <1>1, <1>2, <2>1, <2>2, PurpleGrow DEF GarbageInv
<1>7. n \in Anchors'
  BY <1>2, AnchorNew
<1>8. \A m \in Node : HandlesOf(m)' # {} => HandlesOf(m) # {} \/ m \in Anchors'
  BY <1>2, <1>7 DEF HandlesOf
<1>9. Purples \cap Elems(roots) \subseteq Anchors'
  BY <1>1, <1>2, AnchorRoot DEF Purples
<1>10. /\ \A x \in Handle : \A o \in Node : owner'[x] = o => owner[x] = o
       /\ \A x \in Handle : owner[x] # None => owner'[x] = owner[x]
  BY <1>2 DEF GarbageInv, SafetyInv, HeapInv
<1>11. Elems(roots) = Elems(roots')
  BY <1>1
<1> QED
  BY <1>1, <1>2, <1>5, <1>6, <1>8, <1>9, <1>10, <1>11, GarbageGrow

(* clone: what turns black is reached by the program, or has just been     *)
(* handed to it.                                                           *)
LEMMA GarbageIncRef ==
  ASSUME SafetyInv, SafetyInv', GarbageInv, Running, NEW n \in Node, NEW h \in Handle \ KeepHandle,
         NEW o \in Live \cup {Program}, Unused(h), HandlesOf(n) # {}, IncRef(n, h, o),
         o = Program \/ n \in Live \/ n \in Base,
         \A k \in KeepHandle : target[k] # n,
         UNCHANGED <<dropping, buffered, roots, freed, toBeFreed, cursor>>
  PROVE  GarbageInv'
<1>1. /\ owner' = [owner EXCEPT ![h] = o] /\ target' = [target EXCEPT ![h] = n]
      /\ refCount' = [refCount EXCEPT ![n] = @ + 1]
      /\ color' = [color EXCEPT ![n] = "black"]
  BY DEF IncRef
<1>2. /\ phase = "idle" /\ UNCHANGED phase /\ dropping' = {}
      /\ target[h] = None /\ owner[h] = None
      /\ \A x \in Handle : owner'[x] = IF x = h THEN o ELSE owner[x]
      /\ \A x \in Handle : target'[x] = IF x = h THEN n ELSE target[x]
      /\ \A m \in Node \ {n} : refCount'[m] = refCount[m]
      /\ refCount'[n] = refCount[n] + 1
      /\ \A m \in Node : color'[m] = IF m = n THEN "black" ELSE color[m]
  BY <1>1 DEF SafetyInv, HeapInv, TypeOK, Unused, Running, Quiet, cursor
<1>3. Live \subseteq Node
  BY LiveSource DEF SafetyInv
<1>4. Cardinality(HandlesOf(n)') = refCount'[n]
  BY <1>1, <1>2, HandlesAfterNew DEF SafetyInv, GarbageInv, HandleInv
<1>5. HandleInv'
  <2>1. \A x \in Handle : target'[x] # None => owner'[x] # None
    BY <1>2, <1>3 DEF GarbageInv, HandleInv
  <2>2. \A k \in KeepHandle : target'[k] # n
    BY <1>2
  <2>3. \A x \in Handle : target'[x] # target[x] => target[x] = None /\ target'[x] = n
    BY <1>2
  <2> QED BY <1>2, <1>4, <2>1, <2>2, <2>3, HandleGrow DEF GarbageInv
<1>6. PurpleInv'
  <2>1. HandlesOf(n)' # {}
    BY <1>2 DEF HandlesOf
  <2>2. \A k \in KeepHandle : target'[k] = target[k]
    BY <1>2
  <2>3. \A x \in Handle : target[x] # None => target'[x] = target[x]
    BY <1>2
  <2>4. \A m \in Node : color'[m] = color[m] \/
          (color'[m] = "black" /\ HandlesOf(m)' # {} /\ \A k \in KeepHandle : target[k] # m)
    BY <1>2, <2>1
  <2> QED BY <1>2, <2>2, <2>3, <2>4, PurpleGrow DEF GarbageInv
<1>7. n \in Live \cup Anchors'
  BY <1>2, AnchorNew, LiveSource DEF SafetyInv
<1>8. \A m \in Node : HandlesOf(m)' # {} => HandlesOf(m) # {}
  BY <1>2 DEF HandlesOf
<1>9. Purples \cap Elems(roots) \subseteq Live \cup Anchors'
  <2>1. \A m \in Purples \cap Elems(roots) : m # n => m \in Anchors'
    BY <1>2, AnchorRoot DEF Purples
  <2> QED BY <1>7, <2>1
<1>10. \A x \in Handle : \A m \in Node : owner'[x] = m => owner[x] = m \/ DataAlive(m)'
  <2> SUFFICES ASSUME o \in Live PROVE DataAlive(o)'
    BY <1>2
  <2>1. HandlesOf(o) # {}
    BY LiveHandles DEF SafetyInv
  <2>2. HandlesOf(o) \subseteq HandlesOf(o)'
    BY <1>2, <1>3 DEF HandlesOf
  <2>3. HandlesOf(o)' # {}
    BY <2>1, <2>2
  <2> QED BY <2>3 DEF DataAlive
<1>11. \A x \in Handle : owner[x] # None => owner'[x] = owner[x]
  BY <1>2
<1> QED
  BY <1>2, <1>5, <1>6, <1>8, <1>9, <1>10, <1>11, GarbageGrow

LEMMA GarbageClone ==
  ASSUME SafetyInv, SafetyInv', GarbageInv, NEW g \in Handle, NEW h \in Handle,
         NEW o \in Node \cup {Program}, Clone(g, h, o)
  PROVE  GarbageInv'
<1>1. /\ Running /\ Unused(h) /\ h \notin KeepHandle /\ g \notin KeepHandle
      /\ o \in Live \cup {Program} /\ IncRef(target[g], h, o)
      /\ target[g] # None /\ owner[g] \in Live \cup {Program}
      /\ UNCHANGED <<dropping, buffered, roots, freed, toBeFreed, cursor>>
  BY DEF Clone, Accessible
<1>2. target[g] \in Node /\ HandlesOf(target[g]) # {}
  BY <1>1 DEF SafetyInv, HeapInv, TypeOK, HandlesOf
<1>3. target[g] \in Live
  <2>1. g \in Trace(owner[g])
    BY <1>1 DEF Trace, OwnedBy, Running, Quiet
  <2>2. CASE owner[g] = Program
    BY <2>1, <2>2, LiveSource DEF SafetyInv, Base
  <2>3. CASE owner[g] \in Live
    BY <1>2, <2>1, <2>3, LiveSource DEF SafetyInv, ClosedIn
  <2> QED BY <1>1, <2>2, <2>3
<1>4. \A k \in KeepHandle : target[k] # target[g]
  BY <1>1 DEF GarbageInv, HandleInv
<1> QED BY <1>1, <1>2, <1>3, <1>4, GarbageIncRef

(* upgrade2 hands the program a node that nothing but garbage may reach.   *)
LEMMA GarbageUpgrade ==
  ASSUME SafetyInv, SafetyInv', GarbageInv, NEW n \in Node, NEW h \in Handle, Upgrade(n, h)
  PROVE  GarbageInv'
<1>1. \A k \in KeepHandle : target[k] # n
  BY DEF Upgrade, SafetyInv, HeapInv
<1> QED BY <1>1, GarbageIncRef DEF Upgrade

(* listen_weak and listen: the Listener takes over the handle g, and the   *)
(* program has a handle to it.                                             *)
LEMMA GarbageListen ==
  ASSUME SafetyInv, SafetyInv', GarbageInv, Running, NEW l \in Listener, NEW g \in Handle,
         NEW H \in SUBSET Handle, l \notin created, H \cap KeepHandle = {}, H # {},
         \A x \in H : Unused(x),
         owner[g] = Program,
         \A x \in Handle : target'[x] = IF x \in H THEN l ELSE target[x],
         \A x \in H : owner'[x] \in {Program, Context},
         owner'[g] = l,
         \A x \in Handle \ (H \cup {g}) : owner'[x] = owner[x],
         refCount' = [refCount EXCEPT ![l] = Cardinality(H)],
         UNCHANGED <<dropping, color, buffered, roots, freed, toBeFreed, cursor>>
  PROVE  GarbageInv'
<1>1. /\ l \in Node /\ phase = "idle" /\ UNCHANGED phase /\ dropping' = {}
      /\ \A x \in H : x \in Handle /\ target[x] = None /\ x \notin KeepHandle /\ x # g
      /\ \A m \in Node \ {l} : refCount'[m] = refCount[m]
      /\ refCount'[l] = Cardinality(H)
      /\ target[g] # None
  BY DEF SafetyInv, HeapInv, TypeOK, Unused, Running, Quiet, cursor
<1>2. \A x \in Handle : target[x] # l
  BY <1>1 DEF SafetyInv, HeapInv
<1>3. HandlesOf(l)' = H
  BY <1>1, <1>2 DEF HandlesOf
<1>4. HandleInv'
  <2>1. \A x \in Handle : target'[x] # None => owner'[x] # None
    BY <1>1 DEF GarbageInv, HandleInv
  <2>2. \A k \in KeepHandle : target'[k] # l
    BY <1>1, <1>2
  <2>3. \A x \in Handle : target'[x] # target[x] => target[x] = None /\ target'[x] = l
    BY <1>1
  <2> QED BY <1>1, <1>3, <2>1, <2>2, <2>3, HandleGrow DEF GarbageInv
<1>5. \A x \in Handle : target[x] # None => target'[x] = target[x]
  BY <1>1
<1>6. PurpleInv'
  <2>1. \A k \in KeepHandle : target'[k] = target[k]
    BY <1>1
  <2> QED BY <1>1, <1>5, <2>1, PurpleGrow DEF GarbageInv
<1>7. l \in Anchors' /\ HandlesOf(l)' # {}
  <2>1. PICK x \in H : x \in Handle /\ target'[x] = l /\ owner'[x] \in {Program, Context}
    BY <1>1
  <2> QED BY <1>1, <1>3, <2>1, AnchorNew
<1>8. \A m \in Node : HandlesOf(m)' # {} => HandlesOf(m) # {} \/ m = l
  BY <1>1 DEF HandlesOf
<1>9. Purples \cap Elems(roots) \subseteq Anchors'
  BY <1>1, AnchorRoot DEF Purples
<1>10. \A x \in Handle : \A m \in Node : owner'[x] = m => owner[x] = m \/ m = l
  BY <1>1
<1>11. DataAlive(l)'
  BY <1>7 DEF DataAlive
<1>12. \A x \in H : owner[x] = None
  BY <1>1 DEF SafetyInv, HeapInv
<1>13. /\ \A x \in Handle : owner[x] \notin {None, Program} => owner'[x] = owner[x]
       /\ \A x \in Handle : owner[x] = Program => owner'[x] = Program \/ owner'[x] = l
  BY <1>1, <1>12
<1>14. Elems(roots) = Elems(roots')
  OBVIOUS
<1> QED
  BY <1>1, <1>4, <1>5, <1>6, <1>7, <1>8, <1>9, <1>10, <1>11, <1>13, <1>14, GarbageGrow

LEMMA GarbageListenWeak ==
  ASSUME SafetyInv, SafetyInv', GarbageInv, NEW l \in Listener, NEW h \in Handle,
         NEW g \in Handle, ListenWeak(l, h, g)
  PROVE  GarbageInv'
<1> DEFINE H == {h}
<1>1. /\ Running /\ l \notin created /\ Unused(h) /\ h \notin KeepHandle /\ owner[g] = Program
      /\ owner' = [owner EXCEPT ![h] = Program, ![g] = l] /\ target' = [target EXCEPT ![h] = l]
      /\ refCount' = [refCount EXCEPT ![l] = 1]
      /\ UNCHANGED <<dropping, color, buffered, roots, freed, toBeFreed, cursor>>
  BY DEF ListenWeak
<1>2. h # g
  BY <1>1 DEF SafetyInv, HeapInv, Unused
<1>3. /\ \A x \in Handle : target'[x] = IF x \in H THEN l ELSE target[x]
      /\ owner'[h] = Program /\ owner'[g] = l
      /\ \A x \in Handle \ (H \cup {g}) : owner'[x] = owner[x]
  BY <1>1, <1>2 DEF SafetyInv, HeapInv, TypeOK
<1>4. Cardinality({h}) = 1
  BY FS_Singleton
<1>5. refCount' = [refCount EXCEPT ![l] = Cardinality(H)]
  BY <1>1, <1>4
<1>6. /\ H \in SUBSET Handle /\ H # {} /\ H \cap KeepHandle = {}
      /\ \A x \in H : Unused(x) /\ owner'[x] \in {Program, Context}
  BY <1>1, <1>3
<1> HIDE DEF H
<1> QED BY <1>1, <1>3, <1>5, <1>6, GarbageListen

LEMMA GarbageListenKept ==
  ASSUME SafetyInv, SafetyInv', GarbageInv, NEW l \in Listener, NEW h \in Handle,
         NEW c \in Handle, NEW g \in Handle, Listen(l, h, c, g)
  PROVE  GarbageInv'
<1> DEFINE H == {h, c}
<1>1. /\ Running /\ l \notin created /\ h # c /\ Unused(h) /\ Unused(c)
      /\ {h, c} \cap KeepHandle = {} /\ owner[g] = Program
      /\ owner' = [owner EXCEPT ![h] = Program, ![c] = Context, ![g] = l]
      /\ target' = [target EXCEPT ![h] = l, ![c] = l]
      /\ refCount' = [refCount EXCEPT ![l] = 2]
      /\ UNCHANGED <<dropping, color, buffered, roots, freed, toBeFreed, cursor>>
  BY DEF Listen
<1>2. h # g /\ c # g
  BY <1>1 DEF SafetyInv, HeapInv, Unused
<1>3. /\ \A x \in Handle : target'[x] = IF x \in H THEN l ELSE target[x]
      /\ owner'[h] = Program /\ owner'[c] = Context /\ owner'[g] = l
      /\ \A x \in Handle \ (H \cup {g}) : owner'[x] = owner[x]
  BY <1>1, <1>2 DEF SafetyInv, HeapInv, TypeOK
<1>4. Cardinality({h, c}) = 2
  <2>1. IsFiniteSet({h}) /\ Cardinality({h}) = 1
    BY FS_Singleton
  <2>2. c \notin {h} /\ {h, c} = {h} \cup {c}
    BY <1>1
  <2>3. Cardinality({h} \cup {c}) = Cardinality({h}) + 1
    BY <2>1, <2>2, FS_AddElement
  <2> QED BY <2>1, <2>2, <2>3
<1>5. refCount' = [refCount EXCEPT ![l] = Cardinality(H)]
  BY <1>1, <1>4
<1>6. /\ H \in SUBSET Handle /\ H # {} /\ H \cap KeepHandle = {}
      /\ \A x \in H : Unused(x) /\ owner'[x] \in {Program, Context}
  BY <1>1, <1>3
<1> HIDE DEF H
<1> QED BY <1>1, <1>3, <1>5, <1>6, GarbageListen

(* defer and split: no handle of the program leads to the Listener, but it *)
(* waits in roots.                                                         *)
LEMMA GarbageDefer ==
  ASSUME SafetyInv, SafetyInv', GarbageInv, NEW l \in Listener, NEW k \in Handle,
         NEW g \in Handle, NEW o \in Node, Defer(l, k, g, o)
  PROVE  GarbageInv'
<1>1. /\ Running /\ l \notin created /\ k \in KeepHandle /\ Unused(k)
      /\ owner[g] = Program /\ o \in Live
      /\ owner' = [owner EXCEPT ![k] = o, ![g] = l] /\ target' = [target EXCEPT ![k] = l]
      /\ refCount' = [refCount EXCEPT ![l] = 1] /\ PossibleRoot(l)
      /\ UNCHANGED <<dropping, freed, toBeFreed, cursor>>
  BY DEF Defer
<1>2. /\ l \in Node /\ phase = "idle" /\ UNCHANGED phase /\ dropping' = {}
      /\ target[k] = None /\ owner[k] = None /\ k # g
  BY <1>1 DEF SafetyInv, HeapInv, TypeOK, Unused, Running, Quiet, cursor
<1>3. /\ \A x \in Handle : owner'[x] = IF x = k THEN o ELSE IF x = g THEN l ELSE owner[x]
      /\ \A x \in Handle : target'[x] = IF x = k THEN l ELSE target[x]
      /\ \A m \in Node \ {l} : refCount'[m] = refCount[m]
      /\ refCount'[l] = 1
  <2>1. owner' = [owner EXCEPT ![k] = o, ![g] = l] /\ target' = [target EXCEPT ![k] = l]
        /\ refCount' = [refCount EXCEPT ![l] = 1]
    BY <1>1
  <2>2. DOMAIN owner = Handle /\ DOMAIN target = Handle /\ DOMAIN refCount = Node
    BY DEF SafetyInv, HeapInv, TypeOK
  <2> QED BY <1>2, <2>1, <2>2
<1>4. \A x \in Handle : target[x] # l
  BY <1>1, <1>2 DEF SafetyInv, HeapInv
<1>5. HandlesOf(l)' = {k} /\ Cardinality({k}) = 1
  <2>1. HandlesOf(l)' = {k}
    BY <1>3, <1>4 DEF HandlesOf
  <2> QED BY <2>1, FS_Singleton
<1>6. HandleInv'
  <2>1. \A x \in Handle : target'[x] # None => owner'[x] # None
    BY <1>2, <1>3 DEF GarbageInv, HandleInv
  <2>2. \A x \in KeepHandle : target'[x] = l => x = k
    BY <1>3, <1>4
  <2>3. \A x \in Handle : target'[x] # target[x] => target[x] = None /\ target'[x] = l
    BY <1>2, <1>3
  <2> QED BY <1>2, <1>3, <1>5, <2>1, <2>2, <2>3, HandleGrow DEF GarbageInv
<1>7. ~freed[l] /\ ~buffered[l] /\ color[l] # "purple"
  <2>1. ~freed[l] /\ Waiting = Elems(roots) /\ Elems(roots) \subseteq created
    BY <1>1, <1>2 DEF SafetyInv, FreedInv, ListInv, Waiting
  <2>2. ~buffered[l]
    BY <1>1, <1>2, <2>1 DEF SafetyInv, ListInv
  <2> QED BY <1>2, <2>1, <2>2 DEF GarbageInv, PurpleInv, Purples
<1>8. /\ roots' = Append(roots, l)
      /\ \A m \in Node : color'[m] = IF m = l THEN "purple" ELSE color[m]
      /\ \A m \in Node : buffered'[m] <=> m = l \/ buffered[m]
  <2>1. /\ roots' = Append(roots, l) /\ color' = [color EXCEPT ![l] = "purple"]
        /\ buffered' = [buffered EXCEPT ![l] = TRUE]
    BY <1>1, <1>7 DEF PossibleRoot
  <2>2. DOMAIN color = Node /\ DOMAIN buffered = Node
    BY DEF SafetyInv, HeapInv, TypeOK
  <2> QED BY <1>2, <2>1, <2>2
<1>9. Elems(roots') = Elems(roots) \cup {l} /\ Elems(roots)' = Elems(roots')
      /\ Elems(roots) \subseteq Node
  <2>1. Elems(roots') = Elems(roots) \cup {l} /\ Elems(roots) \subseteq Node
    BY <1>2, <1>8, ElemsAppend, ElemsNode DEF SafetyInv, HeapInv, TypeOK
  <2> QED BY <2>1 DEF Elems
<1>10. Purples' = Purples \cup {l}
  BY <1>2, <1>8 DEF Purples
<1>11. \A m \in Node : HandlesOf(m) \subseteq HandlesOf(m)'
  BY <1>2, <1>3 DEF HandlesOf
<1>12. PurpleInv'
  <2>1. \A m \in Purples' : freed'[m] \/ buffered'[m]
    BY <1>1, <1>8, <1>10 DEF GarbageInv, PurpleInv, Purples
  <2>2. \A r \in Elems(roots)' : r \in Purples' \/ HandlesOf(r)' # {}
    BY <1>2, <1>9, <1>10, <1>11 DEF GarbageInv, PurpleInv
  <2>3. \A x \in KeepHandle : target'[x] \in Elems(roots)' => target'[x] \in Purples'
    BY <1>2, <1>3, <1>9, <1>10 DEF GarbageInv, PurpleInv
  <2> QED BY <1>2, <2>1, <2>2, <2>3 DEF PurpleInv
<1>13. l \in Anchors' /\ Purples \cap Elems(roots) \subseteq Anchors'
  BY <1>2, <1>8, <1>9, AnchorRoot DEF Purples
<1>14. \A x \in Handle : \A m \in Node : owner'[x] = m => owner[x] = m \/ DataAlive(m)'
  <2>1. HandlesOf(o)' # {} /\ HandlesOf(l)' # {}
    BY <1>1, <1>5, <1>11, LiveHandles DEF SafetyInv
  <2>2. DataAlive(o)' /\ DataAlive(l)'
    BY <2>1 DEF DataAlive
  <2> QED BY <1>3, <2>2
<1>15. \A m \in Node : HandlesOf(m)' # {} => HandlesOf(m) # {} \/ m \in Anchors'
  BY <1>3, <1>13 DEF HandlesOf
<1>16. /\ \A x \in Handle : owner[x] \notin {None, Program} => owner'[x] = owner[x]
       /\ \A x \in Handle : owner[x] = Program => owner'[x] = Program \/ owner'[x] = l
       /\ \A x \in Handle : target[x] # None => target'[x] = target[x]
  BY <1>1, <1>2, <1>3
<1> QED
  BY <1>1, <1>2, <1>6, <1>9, <1>12, <1>13, <1>14, <1>15, <1>16, GarbageGrow

(* Letting go, by the program or by the deconstructor of a node: handles   *)
(* whose drop has started lead to anchors.                                 *)
LEMMA GarbageLetGo ==
  ASSUME SafetyInv, GarbageInv, dropping = {},
         UNCHANGED <<owner, target, refCount, color, buffered, roots, toBeFreed,
                     phase, local, white, stack>>,
         \A n \in Node : freed[n] => freed'[n], phase \in {"idle", "free"}
  PROVE  GarbageInv'
<1>1. /\ \A n : HandlesOf(n)' = HandlesOf(n)
      /\ \A n : DataAlive(n)' <=> DataAlive(n)
      /\ UNCHANGED <<Purples, Zombies, Dead>>
  BY DEF HandlesOf, DataAlive, Listed, Purples, Zombies, Dead, Whites
<1>2. HandleInv' /\ RestInv' /\ LocalInv' /\ BlackInv'
  BY <1>1 DEF GarbageInv, HandleInv, RestInv, LocalInv, BlackInv
<1>3. OwnerInv'
  BY <1>1 DEF GarbageInv, OwnerInv
<1>4. PurpleInv'
  BY <1>1 DEF GarbageInv, PurpleInv, Purples
<1>5. AliveInv'
  <2> SUFFICES ASSUME NEW C \in SUBSET Node, Anchors' \subseteq C, ClosedIn(C, Node)'
               PROVE  \A n \in Node : DataAlive(n)' => n \in C
    BY AliveNext
  <2>1. Pending' = Pending
    BY <1>1 DEF Pending
  <2>2. \A y : \A x \in Trace(y) : x \in Handle /\ (x \in Trace(y)' \/ target[x] \in Anchors')
    BY DEF Trace, OwnedBy, Anchors
  <2>3. Base' \subseteq C
    BY DEF Anchors
  <2>4. Base \subseteq C
    BY <2>2, <2>3 DEF Base
  <2>5. ClosedIn(C, Node)
    BY <2>2 DEF ClosedIn
  <2>6. Anchors \subseteq C
    BY <2>1, <2>4 DEF Anchors
  <2> QED BY <1>1, <2>5, <2>6, AliveIn DEF GarbageInv
<1> QED BY <1>2, <1>3, <1>4, <1>5 DEF GarbageInv

(* The steps of the program that leave the collector alone.                *)
LEMMA GarbageProgram ==
  ASSUME SafetyInv, SafetyInv', GarbageInv, ProgramStep, ~Collect
  PROVE  GarbageInv'
<1>1. ASSUME NEW h \in Handle, Drop(h) PROVE GarbageInv'
  BY <1>1, GarbageLetGo DEF Drop, Running, Quiet, counts, cursor
<1>2. ASSUME NEW l \in Listener, Unlisten(l) PROVE GarbageInv'
  BY <1>2, GarbageLetGo DEF Unlisten, Running, Quiet, counts, cursor
<1> QED
  BY <1>1, <1>2, GarbageNew, GarbageUpgrade, GarbageListenWeak, GarbageListenKept, GarbageDefer,
     GarbageClone DEF ProgramStep

-----------------------------------------------------------------------------
(* Drops *)

(* What a drop takes out of the heap, and what it lets go of in turn.      *)
Lost(h) ==
  IF target[h] \notin Listener /\ HandlesOf(target[h]) = {h} THEN Trace(target[h]) ELSE {}
Gone(h) == {h} \cup (Lost(h) \cap KeepHandle)
Orphans(h) ==
  {l \in Listener \ {target[h]} :
     /\ HandlesOf(l) # {} /\ HandlesOf(l) \subseteq Gone(h) /\ l \notin Listed}

(* The facts about a drop the lemmas below use.                            *)
LEMMA DropFacts ==
  ASSUME SafetyInv, GarbageInv, NEW h \in Handle, RunDrop(h), NEW n, n = target[h]
  PROVE  /\ n \in Node /\ h \in HandlesOf(n) /\ h \in dropping /\ h \in Gone(h)
         /\ phase \in {"idle", "free", "again"}
         /\ UNCHANGED <<freed, toBeFreed, phase, local, white, stack>>
         /\ dropping' =
              (dropping \cup Lost(h) \cup UNION {OwnedBy(l) : l \in Orphans(h)}) \ Gone(h)
         /\ \A x \in Handle : owner'[x] = IF x \in Gone(h) THEN None ELSE owner[x]
         /\ \A x \in Handle : target'[x] = IF x \in Gone(h) THEN None ELSE target[x]
         /\ \A m \in Node : HandlesOf(m)' = HandlesOf(m) \ Gone(h)
         /\ refCount' = [refCount EXCEPT ![n] = @ - 1] /\ PossibleRoot(n)
<1>1. /\ h \in dropping /\ DecRef(n) /\ ~panicked
      /\ owner' = [x \in Handle |-> IF x \in Gone(h) THEN None ELSE owner[x]]
      /\ target' = [x \in Handle |-> IF x \in Gone(h) THEN None ELSE target[x]]
      /\ dropping' =
              (dropping \cup Lost(h) \cup UNION {OwnedBy(l) : l \in Orphans(h)}) \ Gone(h)
      /\ UNCHANGED <<freed, toBeFreed, phase, local, white, stack>>
  BY DEF RunDrop, Gone, Lost, Orphans, cursor
<1>2. n \in Node /\ h \in HandlesOf(n) /\ h \in Gone(h)
  BY <1>1 DEF SafetyInv, HeapInv, TypeOK, HandlesOf, Gone
<1>3. phase \in {"idle", "free", "again"}
  BY <1>1 DEF SafetyInv, PhaseInv, HeapInv, TypeOK, Phase
<1>4. refCount[n] # 0
  BY <1>2, CountZero DEF SafetyInv
<1>5. refCount' = [refCount EXCEPT ![n] = @ - 1] /\ PossibleRoot(n)
  BY <1>1, <1>4 DEF DecRef
<1>6. \A m \in Node : HandlesOf(m)' = HandlesOf(m) \ Gone(h)
  BY <1>1 DEF HandlesOf
<1> QED BY <1>1, <1>2, <1>3, <1>5, <1>6

(* A handle that goes is the one dropped, or the last one to a Listener.   *)
LEMMA DropGone ==
  ASSUME SafetyInv, GarbageInv, NEW h \in Handle, RunDrop(h), NEW n, n = target[h],
         NEW x \in Gone(h), x # h
  PROVE  /\ x \in Lost(h) /\ n \notin Listener /\ HandlesOf(n) = {h}
         /\ x \in Handle /\ x \in KeepHandle /\ target[x] \in Listener \ {n}
         /\ HandlesOf(target[x]) = {x}
<1>1. x \in Lost(h) /\ x \in KeepHandle /\ n \notin Listener /\ HandlesOf(n) = {h} /\ x \in Trace(n)
  BY DEF Gone, Lost
<1>2. n \in Node
  BY DropFacts
<1>3. x \in Handle /\ target[x] \in Node
  BY <1>1, <1>2, TraceTarget DEF SafetyInv
<1>4. target[x] \in Listener
  BY <1>1, <1>3 DEF SafetyInv, HeapInv
<1>5. HandlesOf(target[x]) = {x}
  BY <1>1, <1>3 DEF GarbageInv, HandleInv, HandlesOf, SafetyInv, HeapInv, TypeOK
<1> QED BY <1>1, <1>3, <1>4, <1>5

(* The node of the handle is purple, and waits in roots or is dead.        *)
LEMMA DropRoot ==
  ASSUME SafetyInv, GarbageInv, NEW h \in Handle, RunDrop(h), NEW n, n = target[h]
  PROVE  /\ color' = [color EXCEPT ![n] = "purple"]
         /\ Purples' = Purples \cup {n}
         /\ Elems(roots)' \subseteq Elems(roots) \cup {n} /\ Elems(roots) \subseteq Elems(roots)'
         /\ \A m \in Node : buffered[m] => buffered'[m]
         /\ freed[n] \/ buffered'[n]
         /\ n \in Elems(roots)' \/ (n \in Elems(white) /\ OwnedBy(n) \subseteq dropping)
<1>0. /\ n \in Node /\ h \in HandlesOf(n) /\ phase \in {"idle", "free", "again"} /\ PossibleRoot(n)
      /\ ~panicked
  BY DropFacts DEF RunDrop
<1>1. color' = [color EXCEPT ![n] = "purple"]
  BY <1>0 DEF PossibleRoot
<1>2. Purples' = Purples \cup {n}
  <2>1. DOMAIN color = Node
    BY DEF SafetyInv, HeapInv, TypeOK
  <2> QED BY <1>0, <1>1, <2>1 DEF Purples
<1>3. Waiting = Elems(roots)
  BY <1>0 DEF Waiting
<1>4. freed[n] => n \in Elems(white) /\ OwnedBy(n) \subseteq dropping
  BY <1>0 DEF SafetyInv, FreedInv, FreeInv
<1>5. CASE color[n] = "purple" \/ buffered[n]
  <2>1. UNCHANGED <<buffered, roots>>
    BY <1>0, <1>5 DEF PossibleRoot
  <2>2. freed[n] \/ buffered[n]
    BY <1>0, <1>5 DEF GarbageInv, PurpleInv, Purples
  <2>3. freed[n] \/ n \in Elems(roots)
    BY <1>0, <1>3, <2>2 DEF SafetyInv, ListInv
  <2>4. Elems(roots)' = Elems(roots)
    BY <2>1 DEF Elems
  <2> QED BY <1>1, <1>2, <1>4, <2>1, <2>2, <2>3, <2>4
<1>6. CASE ~(color[n] = "purple" \/ buffered[n])
  <2>1. buffered' = [buffered EXCEPT ![n] = TRUE] /\ roots' = Append(roots, n)
    BY <1>0, <1>6 DEF PossibleRoot
  <2>2. Elems(roots') = Elems(roots) \cup {n} /\ Elems(roots)' = Elems(roots')
    <3>1. Elems(roots') = Elems(roots) \cup {n}
      BY <1>0, <2>1, ElemsAppend DEF SafetyInv, HeapInv, TypeOK
    <3> QED BY <3>1 DEF Elems
  <2>3. buffered'[n] /\ \A m \in Node : buffered[m] => buffered'[m]
    BY <1>0, <2>1 DEF SafetyInv, HeapInv, TypeOK
  <2> QED BY <1>1, <1>2, <2>2, <2>3
<1> QED BY <1>5, <1>6

LEMMA DropHandles ==
  ASSUME SafetyInv, GarbageInv, NEW h \in Handle, RunDrop(h)
  PROVE  HandleInv'
<1>0. PICK n : n = target[h]
  OBVIOUS
<1>1. /\ n \in Node /\ h \in HandlesOf(n) /\ h \in Gone(h)
      /\ \A x \in Handle : owner'[x] = IF x \in Gone(h) THEN None ELSE owner[x]
      /\ \A x \in Handle : target'[x] = IF x \in Gone(h) THEN None ELSE target[x]
      /\ \A m \in Node : HandlesOf(m)' = HandlesOf(m) \ Gone(h)
      /\ refCount' = [refCount EXCEPT ![n] = @ - 1]
  BY <1>0, DropFacts
<1>2. \A x \in Handle : target'[x] # None => owner'[x] # None
  BY <1>1 DEF GarbageInv, HandleInv
<1>3. \A k \in KeepHandle, x \in Handle : target'[k] # None /\ target'[x] = target'[k] => x = k
  BY <1>1 DEF GarbageInv, HandleInv
<1>4. ASSUME NEW m \in Node, HandlesOf(m)' # {}
      PROVE  refCount'[m] = Cardinality(HandlesOf(m)')
  <2>1. refCount[m] = Cardinality(HandlesOf(m))
    BY <1>1, <1>4 DEF GarbageInv, HandleInv
  <2>2. \A x \in Gone(h) : x # h => x \notin HandlesOf(m)
    <3> SUFFICES ASSUME NEW x \in Gone(h), x # h, x \in HandlesOf(m) PROVE FALSE
      OBVIOUS
    <3>1. HandlesOf(m) = {x}
      BY <1>0, DropGone DEF HandlesOf
    <3> QED BY <1>1, <1>4, <3>1
  <2>3. HandlesOf(m)' = HandlesOf(m) \ {h}
    BY <1>1, <2>2
  <2>4. IsFiniteSet(HandlesOf(m)) /\ Cardinality(HandlesOf(m)) \in Nat
    BY HandlesFinite DEF HandlesOf
  <2>5. CASE m = n
    <3>1. Cardinality(HandlesOf(m) \ {h}) = Cardinality(HandlesOf(m)) - 1
      BY <1>1, <2>4, <2>5, FS_RemoveElement
    <3>2. refCount'[m] = refCount[m] - 1
      BY <1>1, <2>5 DEF SafetyInv, HeapInv, TypeOK
    <3> QED BY <2>1, <2>3, <3>1, <3>2
  <2>6. CASE m # n
    <3>1. h \notin HandlesOf(m)
      BY <1>0, <2>6 DEF HandlesOf
    <3>2. refCount'[m] = refCount[m]
      BY <1>1, <2>6 DEF SafetyInv, HeapInv, TypeOK
    <3>3. HandlesOf(m)' = HandlesOf(m)
      BY <2>3, <3>1
    <3> QED BY <2>1, <3>2, <3>3
  <2> QED BY <2>5, <2>6
<1> QED BY <1>2, <1>3, <1>4 DEF HandleInv

(* A node whose handles all go, and that no list holds, lets go of what it *)
(* owns, and is forgotten.                                                 *)
LEMMA DropOwners ==
  ASSUME SafetyInv, GarbageInv, NEW h \in Handle, RunDrop(h)
  PROVE  OwnerInv'
<1>0. PICK n : n = target[h]
  OBVIOUS
<1>1. /\ n \in Node /\ h \in HandlesOf(n) /\ h \in Gone(h)
      /\ UNCHANGED <<toBeFreed, local, white>>
      /\ dropping' =
              (dropping \cup Lost(h) \cup UNION {OwnedBy(l) : l \in Orphans(h)}) \ Gone(h)
      /\ \A x \in Handle : owner'[x] = IF x \in Gone(h) THEN None ELSE owner[x]
      /\ \A m \in Node : HandlesOf(m)' = HandlesOf(m) \ Gone(h)
  BY <1>0, DropFacts
<1>2. /\ Elems(roots) \subseteq Elems(roots)'
      /\ n \in Elems(roots)' \/ (n \in Elems(white) /\ OwnedBy(n) \subseteq dropping)
  BY <1>0, DropRoot
<1>3. Listed \subseteq Listed' /\ (n \in Listed' \/ OwnedBy(n) \subseteq dropping)
  BY <1>1, <1>2 DEF Listed, Elems
<1>4. ASSUME NEW x \in Handle, NEW m \in Node, owner'[x] = m, x \notin dropping', ~DataAlive(m)'
      PROVE  FALSE
  <2>1. /\ x \notin Gone(h) /\ owner[x] = m /\ x \in OwnedBy(m)
        /\ x \notin dropping /\ x \notin Lost(h) /\ m \notin Orphans(h)
    BY <1>1, <1>4 DEF OwnedBy
  <2>2. DataAlive(m)
    BY <2>1 DEF GarbageInv, OwnerInv
  <2>3. /\ m \in Listener => m \notin Listed'
        /\ HandlesOf(m) \subseteq Gone(h)
    BY <1>1, <1>4 DEF DataAlive
  <2>4. HandlesOf(m) # {} /\ (m \in Listener => m \notin Listed)
    BY <1>3, <2>2, <2>3 DEF DataAlive
  <2>5. CASE m = n
    <3>1. n \notin Listener
      BY <1>3, <2>1, <2>3, <2>5
    <3>2. HandlesOf(n) = {h}
      BY <1>0, <1>1, <2>3, <2>5, DropGone
    <3>3. x \in Trace(n)
      BY <2>1, <2>5 DEF Trace
    <3> QED BY <1>0, <2>1, <3>1, <3>2, <3>3 DEF Lost
  <2>6. CASE m # n
    <3>1. PICK k \in HandlesOf(m) : k \in Gone(h) /\ k # h /\ target[k] = m
      BY <1>0, <2>3, <2>4, <2>6 DEF HandlesOf
    <3>2. m \in Listener \ {n}
      BY <1>0, <3>1, DropGone
    <3> QED BY <1>0, <2>1, <2>3, <2>4, <3>2 DEF Orphans
  <2> QED BY <2>5, <2>6
<1>5. \A x \in Handle : owner'[x] \in Node /\ x \notin dropping' =>
         \E m \in Node : m = owner'[x] /\ DataAlive(m)'
  BY <1>4
<1> QED BY <1>5 DEF OwnerInv, DataAlive, HandlesOf, Listed, Elems

LEMMA DropColors ==
  ASSUME SafetyInv, GarbageInv, NEW h \in Handle, RunDrop(h)
  PROVE  PurpleInv'
<1>0. PICK n : n = target[h]
  OBVIOUS
<1>1. /\ n \in Node /\ phase \in {"idle", "free", "again"} /\ UNCHANGED <<freed, phase>>
      /\ \A x \in Handle : target'[x] = IF x \in Gone(h) THEN None ELSE target[x]
      /\ \A m \in Node : HandlesOf(m)' = HandlesOf(m) \ Gone(h)
  BY <1>0, DropFacts
<1>2. /\ Purples' = Purples \cup {n}
      /\ Elems(roots)' \subseteq Elems(roots) \cup {n}
      /\ \A m \in Node : buffered[m] => buffered'[m]
      /\ freed[n] \/ buffered'[n]
  BY <1>0, DropRoot
<1>3. Elems(roots) \subseteq Node /\ None \notin Elems(roots)' /\ Purples \subseteq Node
  <2>1. Elems(roots) \subseteq Node
    BY ElemsNode DEF SafetyInv, HeapInv, TypeOK
  <2> QED BY <1>1, <1>2, <2>1 DEF Purples
<1>4. \A m \in Purples' : freed'[m] \/ buffered'[m]
  BY <1>1, <1>2, <1>3 DEF GarbageInv, PurpleInv
<1>5. ASSUME NEW r \in Elems(roots), r \notin Purples' PROVE HandlesOf(r)' # {}
  <2>1. r \in Node /\ r \notin Purples /\ HandlesOf(r) # {} /\ r # n
    BY <1>1, <1>2, <1>3, <1>5 DEF GarbageInv, PurpleInv
  <2>2. ASSUME NEW x \in HandlesOf(r), x \in Gone(h) PROVE FALSE
    <3>1. x # h /\ target[x] = r
      BY <1>0, <2>1, <2>2 DEF HandlesOf
    <3>2. x \in KeepHandle
      BY <1>0, <2>2, <3>1, DropGone
    <3> QED BY <1>1, <2>1, <3>1, <3>2 DEF GarbageInv, PurpleInv
  <2> QED BY <1>1, <2>1, <2>2
<1>6. \A r \in Elems(roots)' : r \in Purples' \/ HandlesOf(r)' # {}
  BY <1>2, <1>5
<1>7. \A k \in KeepHandle : target'[k] \in Elems(roots)' => target'[k] \in Purples'
  BY <1>1, <1>2, <1>3 DEF GarbageInv, PurpleInv
<1> QED BY <1>1, <1>4, <1>6, <1>7 DEF PurpleInv

(* Nothing that lives is lost by a drop: the node of the handle is purple  *)
(* and in a list, a Listener that loses its last keep_alive entry is       *)
(* forgotten or in a list, and what they let go of is being dropped.       *)
LEMMA DropAlive ==
  ASSUME SafetyInv, GarbageInv, NEW h \in Handle, RunDrop(h)
  PROVE  AliveInv'
<1>0. PICK n : n = target[h]
  OBVIOUS
<1>1. /\ n \in Node /\ h \in HandlesOf(n) /\ h \in Gone(h)
      /\ phase \in {"idle", "free", "again"}
      /\ UNCHANGED <<toBeFreed, phase, local, white, stack>>
      /\ dropping' =
              (dropping \cup Lost(h) \cup UNION {OwnedBy(l) : l \in Orphans(h)}) \ Gone(h)
      /\ \A x \in Handle : owner'[x] = IF x \in Gone(h) THEN None ELSE owner[x]
      /\ \A x \in Handle : target'[x] = IF x \in Gone(h) THEN None ELSE target[x]
      /\ \A m \in Node : HandlesOf(m)' = HandlesOf(m) \ Gone(h)
  BY <1>0, DropFacts
<1>2. /\ Purples' = Purples \cup {n}
      /\ Elems(roots)' \subseteq Elems(roots) \cup {n} /\ Elems(roots) \subseteq Elems(roots)'
      /\ n \in Elems(roots)' \/ n \in Elems(white)
  BY <1>0, DropRoot
<1>3. Listed' \subseteq Listed \cup {n}
  BY <1>1, <1>2 DEF Listed, Elems
<1>4. /\ Zombies \subseteq Zombies' /\ Dead \subseteq Dead' /\ Elems(white) \subseteq Dead'
      /\ Pending = (Purples \cap Elems(roots)) \cup Zombies \cup Dead
      /\ Pending' = (Purples' \cap Elems(roots)') \cup Zombies' \cup Dead'
  <2>1. Elems(local)' = Elems(local) /\ Elems(white)' = Elems(white) /\ Elems(stack)' = Elems(stack)
    BY <1>1 DEF Elems
  <2>2. Zombies \subseteq Zombies'
    BY <1>1, <2>1 DEF Zombies
  <2>3. Whites = {}
    BY <1>1 DEF SafetyInv, PhaseInv
  <2> QED BY <1>1, <2>1, <2>2, <2>3 DEF Dead, Pending
<1> SUFFICES ASSUME NEW C \in SUBSET Node, Anchors' \subseteq C, ClosedIn(C, Node)'
             PROVE  \A m \in Node : DataAlive(m)' => m \in C
  BY AliveNext
<1>5. /\ Base' \subseteq C /\ Pending' \subseteq C
      /\ \A x \in dropping' : target'[x] \in C
  BY DEF Anchors
<1>6. n \in C
  BY <1>1, <1>2, <1>4, <1>5
<1> DEFINE D == C \cup Orphans(h)
<1>7. D \in SUBSET Node
  BY DEF Orphans
<1>8. \A x \in Gone(h) : target[x] \in D
  <2> SUFFICES ASSUME NEW x \in Gone(h), x # h PROVE target[x] \in D
    BY <1>0, <1>6
  <2>1. PICK l \in Listener : /\ l = target[x] /\ l # n /\ HandlesOf(l) = {x} /\ x \in KeepHandle
    BY <1>0, DropGone
  <2>2. HandlesOf(l)' = {}
    BY <1>1, <2>1
  <2>3. CASE l \notin Listed
    BY <1>0, <2>1, <2>3 DEF Orphans
  <2>4. CASE l \in Elems(roots)
    <3>1. l \in Purples
      BY <1>1, <2>1, <2>4 DEF GarbageInv, PurpleInv
    <3> QED BY <1>2, <1>4, <1>5, <2>1, <2>4, <3>1
  <2>5. CASE l \in Elems(local)
    <3>1. l \in Elems(local)'
      BY <1>1, <2>5 DEF Elems
    <3>2. l \in Zombies'
      BY <2>2, <3>1 DEF Zombies
    <3> QED BY <1>4, <1>5, <2>1, <3>2
  <2>6. CASE l \in Elems(white)
    BY <1>4, <1>5, <2>1, <2>6
  <2>7. Elems(toBeFreed) = {}
    BY ElemsEmpty DEF GarbageInv, RestInv
  <2> QED BY <2>3, <2>4, <2>5, <2>6, <2>7 DEF Listed
<1>9. \A x \in Handle : x \in dropping' => target[x] \in D
  <2>1. \A x \in Handle : x \in dropping' => target'[x] = target[x]
    BY <1>1
  <2> QED BY <1>5, <2>1
<1>10. \A x \in dropping \cup Lost(h) \cup UNION {OwnedBy(l) : l \in Orphans(h)} :
          x \in Handle => target[x] \in D
  BY <1>1, <1>8, <1>9
<1>11. ASSUME NEW y, NEW x \in Trace(y), y # None, y \in D \/ y \notin Node
       PROVE  target[x] \in D
  <2>1. x \in Handle /\ target[x] \in Node /\ owner[x] = y
    BY <1>11, TraceTarget DEF SafetyInv, Trace, OwnedBy
  <2>2. CASE x \in Gone(h) \/ x \in dropping'
    BY <1>8, <1>9, <2>1, <2>2
  <2>3. CASE y \in Orphans(h)
    BY <1>10, <2>1, <2>3 DEF OwnedBy
  <2>4. CASE x \notin Gone(h) /\ x \notin dropping' /\ y \notin Orphans(h)
    <3>1. x \in Trace(y)' /\ target'[x] = target[x]
      BY <1>1, <2>1, <2>4 DEF Trace, OwnedBy
    <3>2. CASE y \in C
      BY <2>1, <3>1, <3>2 DEF ClosedIn
    <3>3. CASE y \notin Node
      <4>1. y \in {Program, Context}
        BY <1>11, <2>1, <3>3 DEF SafetyInv, HeapInv, TypeOK
      <4> QED BY <1>5, <3>1, <4>1 DEF Base
    <3> QED BY <1>11, <2>4, <3>2, <3>3
  <2> QED BY <2>2, <2>3, <2>4
<1>12. Base \subseteq D
  BY <1>11 DEF Base
<1>13. ClosedIn(D, Node)
  BY <1>7, <1>11 DEF ClosedIn
<1>14. \A x \in dropping : x \in Handle /\ target[x] \in D
  BY <1>10 DEF SafetyInv, HeapInv, TypeOK
<1>15. Pending \subseteq C
  BY <1>2, <1>4, <1>5
<1>16. Anchors \subseteq D
  BY <1>12, <1>14, <1>15 DEF Anchors
<1> HIDE DEF D
<1>17. ASSUME NEW m \in Node, DataAlive(m)' PROVE m \in C
  <2>1. CASE m = n
    BY <1>6, <2>1
  <2>2. CASE m # n
    <3>1. DataAlive(m)
      BY <1>1, <1>3, <1>17, <2>2 DEF DataAlive
    <3>2. m \in D
      BY <1>7, <1>13, <1>16, <3>1, AliveIn DEF GarbageInv
    <3>3. m \notin Orphans(h)
      BY <1>0, <1>1, <1>3, <1>17, <2>2 DEF Orphans, DataAlive
    <3> QED BY <3>2, <3>3 DEF D
  <2> QED BY <2>1, <2>2
<1> QED BY <1>17

LEMMA GarbageRunDrop ==
  ASSUME SafetyInv, GarbageInv, NEW h \in Handle, RunDrop(h)
  PROVE  GarbageInv'
<1>1. phase \in {"idle", "free", "again"} /\ UNCHANGED <<toBeFreed, phase, local>>
  BY DropFacts
<1>2. RestInv' /\ LocalInv' /\ BlackInv'
  BY <1>1 DEF GarbageInv, RestInv, LocalInv, BlackInv
<1> QED BY <1>2, DropHandles, DropOwners, DropColors, DropAlive DEF GarbageInv

-----------------------------------------------------------------------------
(* The collector: steps that leave the heap alone *)

LEMMA BaseSame ==
  ASSUME UNCHANGED <<owner, target, dropping>>
  PROVE  /\ Base' = Base /\ {target[h] : h \in dropping}' = {target[h] : h \in dropping}
         /\ \A S : Reach(S)' = Reach(S)
<1>1. Base' = Base /\ {target[h] : h \in dropping}' = {target[h] : h \in dropping}
  BY HeapSame DEF Base
<1>2. \A S : Reach(S)' = Reach(S)
  BY HeapSame DEF Reach, ReachIn
<1> QED BY <1>1, <1>2

(* The collector moves nodes from list to list: the anchors still lead to  *)
(* what they led to.                                                       *)
LEMMA GarbageSame ==
  ASSUME GarbageInv, UNCHANGED <<owner, target, dropping, refCount>>,
         PurpleInv', LocalInv', BlackInv', RestInv',
         \A n \in Node : HandlesOf(n) = {} /\ n \in Listener /\ n \in Listed => n \in Listed',
         \A C \in SUBSET Node : Base \subseteq C /\ Pending' \subseteq C /\ ClosedIn(C, Node) =>
            /\ Pending \subseteq C
            /\ \A n \in Listener : n \in Listed' => n \in Listed \/ n \in C
  PROVE  GarbageInv'
<1>1. \A n : HandlesOf(n)' = HandlesOf(n)
  BY HeapSame
<1>2. HandleInv'
  BY <1>1 DEF GarbageInv, HandleInv
<1>3. \A n \in Node : DataAlive(n) => DataAlive(n)'
  BY <1>1 DEF DataAlive
<1>4. OwnerInv'
  BY <1>3 DEF GarbageInv, OwnerInv
<1>5. AliveInv'
  <2> SUFFICES ASSUME NEW C \in SUBSET Node, Anchors' \subseteq C, ClosedIn(C, Node)'
               PROVE  \A n \in Node : DataAlive(n)' => n \in C
    BY AliveNext
  <2>1. Base \subseteq C /\ Pending' \subseteq C /\ {target[h] : h \in dropping} \subseteq C
    BY BaseSame DEF Anchors
  <2>2. ClosedIn(C, Node)
    BY HeapSame
  <2>3. /\ Pending \subseteq C
        /\ \A n \in Listener : n \in Listed' => n \in Listed \/ n \in C
    BY <2>1, <2>2
  <2>4. Anchors \subseteq C
    BY <2>1, <2>3 DEF Anchors
  <2>5. \A n \in Node : DataAlive(n)' => DataAlive(n) \/ n \in C
    BY <1>1, <2>3 DEF DataAlive
  <2> QED BY <2>2, <2>4, <2>5, AliveIn DEF GarbageInv
<1> QED BY <1>2, <1>4, <1>5 DEF GarbageInv

(* Whatever lists change, a node stays in some list.                       *)
LEMMA GarbageBeginRound ==
  ASSUME SafetyInv, GarbageInv, phase \in {"idle", "again"}, BeginRound,
         UNCHANGED <<heap, refCount, color, buffered, freed, toBeFreed, white>>
  PROVE  GarbageInv'
<1>1. /\ UNCHANGED <<owner, target, dropping>>
      /\ phase' = "mark" /\ local' = roots /\ roots' = <<>> /\ pos' = 1
  BY DEF BeginRound, heap
<1>2. /\ Ahead' = Elems(roots) /\ Elems(roots)' = {} /\ Elems(local)' = Elems(roots)
      /\ local = <<>> /\ Elems(local) = {} /\ Elems(roots) \subseteq Node
  <2>1. Ahead' = {roots[i] : i \in 1 .. Len(roots)} /\ roots \in Seq(Node)
    BY <1>1 DEF Ahead, SafetyInv, HeapInv, TypeOK
  <2>2. Ahead' = Elems(roots) /\ Elems(roots) \subseteq Node
    BY <2>1, AheadStart, ElemsNode
  <2> QED BY <1>1, <2>2, ElemsEmpty DEF Elems, GarbageInv, RestInv
<1>3. Listed' = Listed
  BY <1>1, <1>2 DEF Listed, Elems
<1>4. Purples' = Purples
  BY DEF Purples
<1>5. Zombies = {} /\ Dead = {}
  BY RestLists DEF GarbageInv
<1>6. Pending = Purples \cap Elems(roots) /\ Pending' = Purples \cap Elems(roots)
  BY <1>1, <1>2, <1>4, <1>5 DEF Pending
<1>7. PurpleInv'
  BY <1>1, <1>4 DEF GarbageInv, PurpleInv, Purples
<1>8. LocalInv'
  <2>1. \A n : HandlesOf(n)' = HandlesOf(n)
    BY <1>1, HeapSame
  <2>2. \A r \in Elems(roots) : r \in Purples \/ HandlesOf(r) # {}
    BY DEF GarbageInv, PurpleInv
  <2> QED BY <1>2, <1>4, <2>1, <2>2 DEF LocalInv
<1>9. BlackInv' /\ RestInv'
  BY <1>1 DEF GarbageInv, BlackInv, RestInv
<1> QED BY <1>1, <1>3, <1>6, <1>7, <1>8, <1>9, GarbageSame

LEMMA GarbageAgain ==
  ASSUME SafetyInv, GarbageInv, Again
  PROVE  GarbageInv'
<1>1. CASE BeginRound
  BY <1>1, GarbageBeginRound DEF Again
<1>2. CASE ~BeginRound
  <2>1. /\ phase = "again" /\ phase' = "idle" /\ UNCHANGED <<local, roots>>
        /\ UNCHANGED <<owner, target, dropping, refCount, color, buffered, freed, toBeFreed,
                       stack, white>>
    BY <1>2 DEF Again, heap
  <2>2. UNCHANGED <<Purples, Zombies, Dead, Listed>>
    BY <2>1, HeapSame DEF Purples, Zombies, Dead, Whites, Listed
  <2>3. Pending' = Pending
    BY <2>1, <2>2 DEF Pending
  <2>4. \A n : HandlesOf(n)' = HandlesOf(n)
    BY <2>1, HeapSame
  <2>5. PurpleInv'
    BY <2>1, <2>2, <2>4 DEF GarbageInv, PurpleInv
  <2>6. LocalInv' /\ BlackInv' /\ RestInv'
    BY <2>1 DEF GarbageInv, LocalInv, BlackInv, RestInv
  <2> QED BY <2>1, <2>2, <2>3, <2>5, <2>6, GarbageSame
<1> QED BY <1>1, <1>2

(* A node that is reached, and not where the traversal starts, has a       *)
(* handle.                                                                 *)
LEMMA ReachHandle ==
  ASSUME HeapInv, NEW S \in SUBSET Node, NEW P, NEW n \in ReachIn(S, P), n \notin S
  PROVE  HandlesOf(n) # {}
<1> DEFINE C == S \cup {m \in Node : HandlesOf(m) # {}}
<1>1. C \in SUBSET Node /\ S \subseteq C
  OBVIOUS
<1>2. ClosedIn(C, P)
  <2> SUFFICES ASSUME NEW m \in C, NEW h \in Trace(m) PROVE target[h] \in C
    BY DEF ClosedIn
  <2> QED BY TraceTarget
<1> HIDE DEF C
<1>3. n \in C
  BY <1>1, <1>2, ReachLeast
<1> QED BY <1>3 DEF C

-----------------------------------------------------------------------------
(* The collector: marking *)

(* The root mark_roots looks at next.                                      *)
LEMMA MarkNext ==
  ASSUME SafetyInv, MarkRoot
  PROVE  /\ phase = "mark" /\ ~panicked
         /\ UNCHANGED <<owner, target, dropping, refCount, freed, phase, local, white, stack>>
         /\ \E r \in Node : /\ r = local[pos] /\ r \in Elems(local)
                            /\ Ahead = Ahead' \cup {r} /\ r \notin Ahead'
                            /\ r \notin Elems(roots) /\ Elems(roots) \cap Ahead = {}
<1>0. /\ phase = "mark" /\ ~panicked /\ pos <= Len(local) /\ pos' = pos + 1
      /\ UNCHANGED <<owner, target, dropping, refCount, freed, phase, local, white, stack>>
  BY DEF MarkRoot, Quiet, heap
<1>1. PICK r \in Node : r = local[pos]
  BY <1>0 DEF SafetyInv, HeapInv, TypeOK
<1>2. local \in Seq(Node) /\ pos \in Nat \ {0} /\ NoRepeat(local)
  BY DEF SafetyInv, ListInv, HeapInv, TypeOK
<1>3. /\ {local[i] : i \in pos .. Len(local)} = {local[i] : i \in pos + 1 .. Len(local)} \cup {local[pos]}
      /\ local[pos] \notin {local[i] : i \in pos + 1 .. Len(local)}
  BY <1>0, <1>2, AheadNext
<1>4. local[pos] \in Elems(local)
  BY <1>0, <1>2 DEF Elems
<1>5. Ahead = Ahead' \cup {r} /\ r \notin Ahead'
  BY <1>0, <1>1, <1>3 DEF Ahead
<1>6. Elems(roots) \cap Ahead = {}
  BY <1>0 DEF SafetyInv, ListInv
<1> QED BY <1>0, <1>1, <1>4, <1>5, <1>6

(* A root that is marked: what mark_gray takes the purple from is reached  *)
(* from the root, which is kept.                                           *)
LEMMA GarbageMarkGray ==
  ASSUME SafetyInv, SafetyInv', GarbageInv, MarkRoot, color[local[pos]] = "purple"
  PROVE  GarbageInv'
<1>1. PICK r \in Node : /\ r = local[pos] /\ r \in Elems(local)
                        /\ Ahead = Ahead' \cup {r} /\ r \notin Ahead'
  BY MarkNext
<1>2. /\ phase = "mark" /\ color[r] = "purple"
      /\ UNCHANGED <<owner, target, dropping, refCount, freed, phase, local, white>>
  BY <1>1, MarkNext
<1>3. /\ roots' = Append(roots, r) /\ UNCHANGED <<buffered, toBeFreed>>
      /\ color' = [n \in Node |-> IF n \in Grayed(r) THEN "gray" ELSE color[n]]
  BY <1>1, <1>2 DEF MarkRoot, MarkGray
<1>4. Elems(roots)' = Elems(roots) \cup {r}
  <2>1. Elems(roots') = Elems(roots) \cup {r}
    BY <1>3, ElemsAppend DEF SafetyInv, HeapInv, TypeOK
  <2> QED BY <2>1 DEF Elems
<1>5. Purples' = Purples \ Grayed(r) /\ Purples \subseteq Node
  BY <1>3 DEF Purples
<1>6. /\ Pending = (Purples \cap Ahead) \cup Elems(roots)
      /\ Pending' = (Purples' \cap Ahead') \cup Elems(roots)'
  BY <1>2 DEF Pending
<1>7. \A n \in Grayed(r) : n = r \/ HandlesOf(n) # {}
  BY ReachHandle DEF Grayed, SafetyInv
<1>8. PurpleInv'
  BY <1>2, <1>3, <1>5 DEF GarbageInv, PurpleInv
<1>9. LocalInv'
  <2>1. \A n : HandlesOf(n)' = HandlesOf(n)
    BY <1>2, HeapSame
  <2>2. \A n \in Elems(local) : HandlesOf(n) # {} \/ n \in Elems(roots) \/ n \in Ahead \cap Purples
    BY <1>2 DEF GarbageInv, LocalInv
  <2>3. \A n \in Elems(local) : HandlesOf(n) # {} \/ n \in Elems(roots)' \/ n \in Ahead' \cap Purples'
    BY <1>1, <1>4, <1>5, <1>7, <2>2
  <2> QED BY <1>2, <2>1, <2>3 DEF LocalInv, Elems
<1>10. BlackInv' /\ RestInv'
  BY <1>2, <1>3 DEF GarbageInv, BlackInv, RestInv
<1>11. Listed \subseteq Listed' /\ Listed' \subseteq Listed
  BY <1>1, <1>2, <1>3, <1>4 DEF Listed, Elems
<1>12. ASSUME NEW C \in SUBSET Node, Pending' \subseteq C, ClosedIn(C, Node)
       PROVE  Pending \subseteq C
  <2>1. r \in C
    BY <1>4, <1>6, <1>12
  <2>2. ClosedIn(C, {n \in Node : color[n] # "gray"})
    BY <1>12 DEF ClosedIn
  <2>3. Grayed(r) \subseteq C
    BY <2>1, <2>2, ReachLeast DEF Grayed
  <2> QED BY <1>1, <1>4, <1>5, <1>6, <1>12, <2>1, <2>3
<1> QED BY <1>2, <1>8, <1>9, <1>10, <1>11, <1>12, GarbageSame

(* A root that is let go of is not purple, hence has a handle.             *)
LEMMA GarbageMarkSkip ==
  ASSUME SafetyInv, SafetyInv', GarbageInv, MarkRoot, color[local[pos]] # "purple"
  PROVE  GarbageInv'
<1>1. PICK r \in Node : /\ r = local[pos] /\ r \in Elems(local)
                        /\ Ahead = Ahead' \cup {r} /\ r \notin Ahead' /\ r \notin Elems(roots)
  BY MarkNext
<1>2. /\ phase = "mark" /\ color[r] # "purple"
      /\ UNCHANGED <<owner, target, dropping, refCount, freed, phase, local, white>>
  BY <1>1, MarkNext
<1>3. /\ buffered' = [buffered EXCEPT ![r] = FALSE]
      /\ toBeFreed' = IF color[r] = "black" /\ refCount[r] = 0 /\ ~freed[r]
                      THEN Append(toBeFreed, r) ELSE toBeFreed
      /\ UNCHANGED <<color, roots>>
  BY <1>1, <1>2 DEF MarkRoot
<1>4. Purples' = Purples /\ Elems(roots)' = Elems(roots) /\ r \notin Purples
  BY <1>2, <1>3 DEF Purples, Elems
<1>5. HandlesOf(r) # {}
  BY <1>1, <1>2, <1>4 DEF GarbageInv, LocalInv
<1>6. toBeFreed' = toBeFreed
  <2>1. refCount[r] # 0
    BY <1>5, CountZero DEF SafetyInv
  <2> QED BY <1>3, <2>1
<1>7. /\ Pending = (Purples \cap Ahead) \cup Elems(roots)
      /\ Pending' = (Purples' \cap Ahead') \cup Elems(roots)'
  BY <1>2 DEF Pending
<1>8. PurpleInv'
  <2>1. \A n \in Node : n # r /\ buffered[n] => buffered'[n]
    BY <1>3 DEF SafetyInv, HeapInv, TypeOK
  <2>2. \A n \in Purples' : freed'[n] \/ buffered'[n]
    BY <1>2, <1>4, <2>1 DEF GarbageInv, PurpleInv, Purples
  <2> QED BY <1>2, <2>2 DEF PurpleInv
<1>9. LocalInv'
  <2>1. \A n : HandlesOf(n)' = HandlesOf(n)
    BY <1>2, HeapSame
  <2>2. \A n \in Elems(local) : HandlesOf(n) # {} \/ n \in Elems(roots) \/ n \in Ahead \cap Purples
    BY <1>2 DEF GarbageInv, LocalInv
  <2>3. \A n \in Elems(local) : HandlesOf(n) # {} \/ n \in Elems(roots)' \/ n \in Ahead' \cap Purples'
    BY <1>1, <1>4, <2>2
  <2> QED BY <1>2, <2>1, <2>3 DEF LocalInv, Elems
<1>10. BlackInv' /\ RestInv'
  BY <1>2, <1>6 DEF GarbageInv, BlackInv, RestInv
<1>11. Listed' = Listed
  BY <1>2, <1>3, <1>6 DEF Listed, Elems
<1>12. Pending' = Pending
  BY <1>1, <1>4, <1>7
<1> QED BY <1>2, <1>8, <1>9, <1>10, <1>11, <1>12, GarbageSame

(* The roots that were let go of are forgotten.                            *)
LEMMA GarbageMarkDone ==
  ASSUME SafetyInv, SafetyInv', GarbageInv, MarkDone
  PROVE  GarbageInv'
<1>1. /\ phase = "mark" /\ phase' = "scan" /\ local' = roots /\ pos > Len(local) /\ ~panicked
      /\ UNCHANGED <<owner, target, dropping, refCount, color, buffered, roots, freed, toBeFreed, white>>
  BY DEF MarkDone, heap, counts, Quiet
<1>2. Ahead = {}
  BY <1>1, AheadEnd DEF Ahead, SafetyInv, HeapInv, TypeOK
<1>3. /\ Elems(roots)' = Elems(roots) /\ Elems(local)' = Elems(roots)
      /\ Elems(roots) \subseteq Grays /\ ClosedIn(Grays, Node) /\ Grays \in SUBSET Node
  BY <1>1 DEF Elems, SafetyInv, MarkInv, Grays
<1>4. Pending = Elems(roots) /\ Pending' = Elems(roots)
  BY <1>1, <1>2, <1>3 DEF Pending
<1>5. PurpleInv'
  <2>1. Waiting = Elems(roots)
    BY <1>1, <1>2 DEF Waiting
  <2>2. \A n \in Purples : n \in Node /\ n \notin Grays
    BY DEF Purples, Grays
  <2>3. \A n \in Purples : freed[n]
    BY <1>3, <2>1, <2>2 DEF SafetyInv, ListInv, GarbageInv, PurpleInv
  <2>4. Purples' = Purples
    BY <1>1 DEF Purples
  <2> QED BY <1>1, <2>3, <2>4 DEF PurpleInv
<1>6. LocalInv' /\ RestInv'
  BY <1>1 DEF GarbageInv, LocalInv, RestInv
<1>7. BlackInv'
  <2>1. Reach(Elems(roots)) \subseteq Grays
    BY <1>3, ReachLeast DEF Reach
  <2>2. \A n \in Reach(Elems(local))' : n \in Grays
    BY <1>1, <1>3, <2>1, BaseSame, HeapSame DEF Reach, ReachIn
  <2> QED BY <1>1, <2>2 DEF BlackInv, Grays
<1>8. \A n \in Node : HandlesOf(n) = {} /\ n \in Listener /\ n \in Listed => n \in Listed'
  <2>1. \A n \in Elems(local) : HandlesOf(n) # {} \/ n \in Elems(roots)
    BY <1>1, <1>2 DEF GarbageInv, LocalInv
  <2> QED BY <1>1, <2>1 DEF Listed, Elems
<1>9. Listed' \subseteq Listed
  BY <1>1 DEF Listed, Elems
<1> QED BY <1>1, <1>4, <1>5, <1>6, <1>7, <1>8, <1>9, GarbageSame

-----------------------------------------------------------------------------
(* The collector: scanning *)

(* A traversal from two sets of nodes visits what the two traversals do.   *)
LEMMA ReachUnion ==
  ASSUME HeapInv, NEW S \in SUBSET Node, NEW T \in SUBSET Node
  PROVE  /\ Reach(S \cup T) \subseteq Reach(S) \cup Reach(T)
         /\ Reach(S) \subseteq Reach(S \cup T)
<1>1. /\ S \subseteq Reach(S) /\ Reach(S) \subseteq Node /\ ClosedIn(Reach(S), Node)
      /\ T \subseteq Reach(T) /\ Reach(T) \subseteq Node /\ ClosedIn(Reach(T), Node)
  BY ReachSource, ReachClosed DEF Reach
<1>2. ClosedIn(Reach(S) \cup Reach(T), Node)
  BY <1>1 DEF ClosedIn
<1>3. Reach(S \cup T) \subseteq Reach(S) \cup Reach(T)
  BY <1>1, <1>2, ReachLeast DEF Reach
<1>4. Reach(S) \subseteq Reach(S \cup T)
  BY DEF Reach, ReachIn
<1> QED BY <1>3, <1>4

(* A gray node whose count the edges do not account for is a Listener that *)
(* only the list holds, or somebody outside of what is traversed owns a    *)
(* handle to it: the program, the context, or a node that lives, and that  *)
(* only the program can keep alive then.                                   *)
LEMMA HotReached ==
  ASSUME SafetyInv, GarbageInv, phase = "scan", NEW n \in Node, ~Internal(n),
         HandlesOf(n) # {} \/ n \in Elems(local)
  PROVE  n \in Reach(Base \cup Zombies)
<1> DEFINE G == Reach(Elems(local))
           R == Reach(Base \cup Zombies)
<1>1. /\ Base \in SUBSET Node /\ Zombies \in SUBSET Node /\ Elems(local) \in SUBSET Node
      /\ Base \cup Zombies \in SUBSET Node
  BY LiveSource, ElemsNode DEF Zombies, SafetyInv, HeapInv, TypeOK
<1>2. /\ Base \cup Zombies \subseteq R /\ R \subseteq Node /\ ClosedIn(R, Node)
  BY <1>1, ReachSource, ReachClosed DEF Reach, SafetyInv
<1>3. /\ refCountAdj[n] = Cardinality(CountedIn(n, G)) /\ dropping = {}
      /\ G \subseteq Node /\ Elems(local) \subseteq G /\ ClosedIn(G, Node)
  BY <1>1, ReachSource, ReachClosed DEF SafetyInv, ScanInv, PhaseInv, Reach
<1>4. CASE HandlesOf(n) = {}
  <2>1. CountedIn(n, G) = {}
    BY <1>4 DEF CountedIn
  <2>2. refCount[n] # Cardinality(HandlesOf(n))
    BY <1>3, <1>4, <2>1 DEF Internal
  <2>3. n \in Zombies
    BY <1>4, <2>2 DEF Zombies, SafetyInv, RefCountExact
  <2> QED BY <1>2, <2>3
<1>5. CASE HandlesOf(n) # {}
  <2>1. refCount[n] = Cardinality(HandlesOf(n))
    BY <1>5 DEF GarbageInv, HandleInv
  <2>2. CountedIn(n, G) # HandlesOf(n)
    BY <1>3, <2>1 DEF Internal
  <2>3. PICK h \in HandlesOf(n) : \A m \in G : h \notin Trace(m)
    BY <2>2 DEF CountedIn
  <2>4. h \in Handle /\ target[h] = n /\ owner[h] # None /\ h \in Trace(owner[h])
    BY <1>3, <2>3 DEF HandlesOf, GarbageInv, HandleInv, SafetyInv, HeapInv, TypeOK, Trace, OwnedBy
  <2>5. CASE owner[h] \notin Node
    <3>1. owner[h] \in {Program, Context}
      BY <2>4, <2>5 DEF SafetyInv, HeapInv, TypeOK
    <3>2. n \in Base
      BY <2>4, <3>1 DEF Base
    <3> QED BY <1>2, <3>2
  <2>6. CASE owner[h] \in Node
    <3>1. PICK m \in Node : m = owner[h]
      BY <2>6
    <3>2. m \notin G /\ DataAlive(m)
      BY <1>3, <2>3, <2>4, <3>1 DEF GarbageInv, OwnerInv
    <3>3. Anchors = Base \cup Elems(local)
      BY <1>3 DEF Anchors, Pending
    <3>4. m \in Reach(Base \cup Elems(local))
      BY <3>2, <3>3 DEF GarbageInv, AliveInv
    <3>5. m \in Reach(Base)
      BY <1>1, <3>2, <3>4, ReachUnion DEF SafetyInv
    <3>6. m \in R
      BY <1>1, <3>5, ReachUnion DEF SafetyInv
    <3> QED BY <1>2, <2>4, <3>1, <3>6 DEF ClosedIn
  <2> QED BY <2>5, <2>6
<1> QED BY <1>4, <1>5

LEMMA GarbageScanRoot ==
  ASSUME SafetyInv, SafetyInv', GarbageInv, ScanRoot
  PROVE  GarbageInv'
<1>0. /\ phase = "scan" /\ pos <= Len(local)
      /\ UNCHANGED <<owner, target, dropping, refCount, roots, buffered, freed,
                     toBeFreed, phase, local, white>>
  BY DEF ScanRoot, heap
<1>1. PICK r \in Node : r = local[pos] /\ r \in Elems(local)
  <2>1. local \in Seq(Node) /\ pos \in DOMAIN local
    BY <1>0 DEF SafetyInv, HeapInv, TypeOK
  <2> QED BY <2>1 DEF Elems
<1> DEFINE inner == {n \in Grays : Internal(n)}
           whitened == IF r \in inner THEN ReachIn({r}, inner) ELSE {}
           hot == {n \in Grays \ inner : n = r \/ \E m \in whitened : \E h \in Trace(m) : target[h] = n}
           NonBlack == {n \in Node : color[n] # "black"}
           blackened == ReachIn(hot, NonBlack)
           R == Reach(Base \cup Zombies)
<1>2. color' = [n \in Node |-> IF n \in blackened THEN "black"
                               ELSE IF n \in whitened THEN "white" ELSE color[n]]
  BY <1>1 DEF ScanRoot, Grays
<1>3. R \in SUBSET Node /\ ClosedIn(R, Node)
  <2>1. Base \cup Zombies \in SUBSET Node
    BY LiveSource DEF Zombies, SafetyInv
  <2> QED BY <2>1, ReachSource, ReachClosed DEF Reach, SafetyInv
<1>4. hot \subseteq R
  <2> SUFFICES ASSUME NEW n \in hot PROVE n \in R
    OBVIOUS
  <2>1. n \in Node /\ ~Internal(n)
    BY DEF Grays
  <2>2. HandlesOf(n) # {} \/ n \in Elems(local)
    <3>1. whitened \subseteq Node
      BY DEF ReachIn
    <3>2. CASE n = r
      BY <1>1, <3>2
    <3>3. CASE n # r
      <4>1. PICK m \in whitened : \E h \in Trace(m) : target[h] = n
        BY <3>3
      <4>2. PICK h \in Trace(m) : target[h] = n
        BY <4>1
      <4> QED BY <3>1, <4>1, <4>2, TraceTarget DEF SafetyInv
    <3> QED BY <3>2, <3>3
  <2> QED BY <1>0, <2>1, <2>2, HotReached
<1>5. blackened \subseteq R
  <2>1. ClosedIn(R, NonBlack)
    BY <1>3 DEF ClosedIn
  <2> HIDE DEF hot, NonBlack, R
  <2> QED BY <1>3, <1>4, <2>1, ReachLeast
<1> HIDE DEF blackened, whitened
<1>6. Purples' \subseteq Purples
  BY <1>2 DEF Purples
<1>7. PurpleInv'
  BY <1>0, <1>6 DEF GarbageInv, PurpleInv
<1>8. LocalInv' /\ RestInv'
  BY <1>0 DEF GarbageInv, LocalInv, RestInv
<1>9. Zombies' = Zombies /\ Elems(local)' = Elems(local) /\ Base' = Base
  BY <1>0, HeapSame, BaseSame DEF Zombies, Elems
<1>10. BlackInv'
  <2>1. Reach(Elems(local))' = Reach(Elems(local)) /\ Reach(Base \cup Zombies)' = R
    BY <1>0, <1>9, HeapSame DEF Reach, ReachIn
  <2>2. \A m \in Reach(Elems(local)) : color[m] = "black" => m \in R
    BY <1>0 DEF GarbageInv, BlackInv
  <2>3. \A m \in Reach(Elems(local)) : color'[m] = "black" => m \in R
    BY <1>2, <1>5, <2>2 DEF Reach, ReachIn
  <2> QED BY <2>1, <2>3 DEF BlackInv
<1>11. Pending' = Pending /\ Listed' = Listed
  BY <1>0, <1>9 DEF Pending, Listed, Elems
<1> QED BY <1>0, <1>7, <1>8, <1>10, <1>11, GarbageSame

(* scan has made black what the program reaches; what is left is dead.     *)
LEMMA GarbageScanDone ==
  ASSUME SafetyInv, SafetyInv', GarbageInv, ScanDone
  PROVE  GarbageInv'
<1>0. /\ phase = "scan" /\ phase' = "collect" /\ pos > Len(local) /\ roots' = <<>>
      /\ UNCHANGED <<owner, target, dropping, refCount, color, buffered, freed,
                     toBeFreed, local, stack, white>>
  BY DEF ScanDone, heap
<1>1. /\ roots = local /\ stack = <<>> /\ white = <<>>
      /\ \A n \in Reach(Elems(local)) : color[n] # "purple"
      /\ Spans(Ahead \cap Grays, Grays)
  BY <1>0 DEF SafetyInv, ListInv, PhaseInv, ScanInv
<1>2. Elems(local) \in SUBSET Node /\ Elems(local) \subseteq Reach(Elems(local))
  <2>1. Elems(local) \in SUBSET Node
    BY ElemsNode DEF SafetyInv, HeapInv, TypeOK
  <2> QED BY <2>1, ReachSource DEF Reach
<1>3. Grays = {}
  <2>1. Ahead = {}
    BY <1>0, AheadEnd DEF Ahead, SafetyInv, HeapInv, TypeOK
  <2> QED BY <1>1, <2>1 DEF Spans, ClosedIn
<1>4. /\ Elems(roots)' = {} /\ Elems(local)' = Elems(local) /\ Zombies' = Zombies
      /\ Dead' = Whites /\ Purples' = Purples
  BY <1>0, <1>1, ElemsEmpty, HeapSame DEF Elems, Zombies, Dead, Whites, Purples
<1>5. Pending = Elems(local) /\ Pending' = Zombies \cup Whites
  BY <1>0, <1>4 DEF Pending
<1>6. PurpleInv' /\ LocalInv' /\ BlackInv' /\ RestInv'
  BY <1>0, <1>4 DEF GarbageInv, PurpleInv, LocalInv, BlackInv, RestInv
<1>7. Listed' = Listed
  BY <1>0, <1>1, <1>4 DEF Listed, Elems
<1>8. ASSUME NEW C \in SUBSET Node, Base \subseteq C, Pending' \subseteq C, ClosedIn(C, Node)
      PROVE  Pending \subseteq C
  <2> SUFFICES ASSUME NEW n \in Elems(local) PROVE n \in C
    BY <1>5
  <2>1. n \in Node /\ color[n] \in {"black", "white"}
    BY <1>1, <1>2, <1>3 DEF Grays, Color, SafetyInv, HeapInv, TypeOK
  <2>2. CASE color[n] = "white"
    BY <1>5, <1>8, <2>1, <2>2 DEF Whites
  <2>3. CASE color[n] = "black"
    <3>1. n \in Reach(Base \cup Zombies)
      BY <1>0, <1>2, <2>3 DEF GarbageInv, BlackInv
    <3> QED BY <1>5, <1>8, <3>1, ReachLeast DEF Reach
  <2> QED BY <2>1, <2>2, <2>3
<1> QED BY <1>0, <1>6, <1>7, <1>8, GarbageSame

-----------------------------------------------------------------------------
(* The collector: collecting and freeing *)

(* collect_white moves dead nodes along; a Listener it lists is one.       *)
LEMMA GarbageCollecting ==
  ASSUME SafetyInv, GarbageInv, phase = "collect",
         UNCHANGED <<owner, target, dropping, refCount, roots, freed, toBeFreed, phase, local>>,
         Dead' = Dead, \A n \in Node : color'[n] \in {color[n], "black"},
         Elems(white) \subseteq Elems(white)', Elems(white)' \subseteq Elems(white) \cup Dead
  PROVE  GarbageInv'
<1>1. Purples' \subseteq Purples /\ Zombies' = Zombies /\ Elems(roots)' = Elems(roots)
  BY HeapSame DEF Purples, Zombies, Elems
<1>2. roots = <<>> /\ Elems(roots) = {}
  BY ElemsEmpty DEF SafetyInv, ListInv
<1>3. Pending = Zombies \cup Dead /\ Pending' = Zombies \cup Dead
  BY <1>1, <1>2 DEF Pending
<1>4. PurpleInv' /\ LocalInv' /\ BlackInv' /\ RestInv'
  BY <1>1 DEF GarbageInv, PurpleInv, LocalInv, BlackInv, RestInv
<1>5. Listed \subseteq Listed' /\ Listed' \subseteq Listed \cup Dead
  BY DEF Listed, Elems
<1> QED BY <1>3, <1>4, <1>5, GarbageSame

LEMMA GarbageCollectRoot ==
  ASSUME SafetyInv, GarbageInv, CollectRoot
  PROVE  GarbageInv'
<1>0. /\ phase = "collect" /\ stack = <<>> /\ pos <= Len(local)
      /\ UNCHANGED <<owner, target, dropping, refCount, roots, freed, toBeFreed, phase, local, white>>
  BY DEF CollectRoot, heap
<1>1. PICK r \in Node : r = local[pos]
  <2>1. local \in Seq(Node) /\ pos \in 1 .. Len(local)
    BY <1>0 DEF SafetyInv, HeapInv, TypeOK
  <2> QED BY <2>1
<1>2. Elems(white)' = Elems(white) /\ Elems(stack) = {}
  BY <1>0, ElemsEmpty DEF Elems
<1>3. CASE color[r] = "white"
  <2>1. color' = [color EXCEPT ![r] = "black"] /\ stack' = <<r>>
    BY <1>1, <1>3 DEF CollectRoot
  <2>2. \A n \in Node : color'[n] = IF n = r THEN "black" ELSE color[n]
    BY <2>1 DEF SafetyInv, HeapInv, TypeOK
  <2>3. Elems(stack)' = {r} /\ Whites' = Whites \ {r} /\ r \in Whites
    BY <1>3, <2>1, <2>2 DEF Elems, Whites
  <2>4. Dead' = Dead
    BY <1>2, <2>3 DEF Dead
  <2> QED BY <1>0, <1>2, <2>2, <2>4, GarbageCollecting
<1>4. CASE color[r] # "white"
  <2>1. UNCHANGED <<color, stack>>
    BY <1>1, <1>4 DEF CollectRoot
  <2>2. Dead' = Dead
    BY <1>0, <2>1 DEF Dead, Whites, Elems
  <2> QED BY <1>0, <1>2, <2>1, <2>2, GarbageCollecting
<1> QED BY <1>3, <1>4

LEMMA GarbageCollectVisit ==
  ASSUME SafetyInv, GarbageInv, NEW h \in Handle, CollectVisit(h)
  PROVE  GarbageInv'
<1>0. /\ phase = "collect" /\ stack # <<>>
      /\ UNCHANGED <<owner, target, dropping, refCount, roots, freed, toBeFreed, phase, local, white>>
      /\ h \in Trace(stack[Len(stack)]) /\ color[target[h]] = "white"
      /\ color' = [color EXCEPT ![target[h]] = "black"] /\ stack' = Append(stack, target[h])
  BY DEF CollectVisit, heap
<1>1. PICK t \in Node : t = target[h]
  <2>1. stack[Len(stack)] \in Node
    BY <1>0, ElemsPop DEF SafetyInv, HeapInv, TypeOK
  <2> QED BY <1>0, <2>1, TraceTarget DEF SafetyInv
<1>2. \A n \in Node : color'[n] = IF n = t THEN "black" ELSE color[n]
  BY <1>0, <1>1 DEF SafetyInv, HeapInv, TypeOK
<1>3. Elems(stack') = Elems(stack) \cup {t}
  BY <1>0, <1>1, ElemsAppend DEF SafetyInv, HeapInv, TypeOK
<1>4. Whites' = Whites \ {t} /\ t \in Whites
  BY <1>0, <1>1, <1>2 DEF Whites
<1>5. Elems(white)' = Elems(white) /\ Elems(stack)' = Elems(stack')
  BY <1>0 DEF Elems
<1>6. Dead' = Dead
  BY <1>3, <1>4, <1>5 DEF Dead
<1> QED BY <1>0, <1>2, <1>5, <1>6, GarbageCollecting

LEMMA GarbageCollectLeave ==
  ASSUME SafetyInv, GarbageInv, CollectLeave
  PROVE  GarbageInv'
<1>0. /\ phase = "collect" /\ stack # <<>>
      /\ UNCHANGED <<owner, target, dropping, refCount, roots, freed, color, toBeFreed, phase, local>>
      /\ white' = Append(white, stack[Len(stack)])
      /\ stack' = SubSeq(stack, 1, Len(stack) - 1)
  BY DEF CollectLeave, heap, counts
<1>1. PICK t \in Node : t = stack[Len(stack)]
  <2>1. stack[Len(stack)] \in Node
    BY <1>0, ElemsPop DEF SafetyInv, HeapInv, TypeOK
  <2> QED BY <2>1
<1>2. Elems(stack) = Elems(stack') \cup {t}
  BY <1>0, <1>1, ElemsPop DEF SafetyInv, HeapInv, TypeOK
<1>3. Elems(white') = Elems(white) \cup {t}
  BY <1>0, <1>1, ElemsAppend DEF SafetyInv, HeapInv, TypeOK
<1>4. Elems(white)' = Elems(white') /\ Elems(stack)' = Elems(stack') /\ Whites' = Whites
  BY <1>0 DEF Elems, Whites
<1>5. Dead' = Dead /\ t \in Dead
  BY <1>2, <1>3, <1>4 DEF Dead
<1> QED BY <1>0, <1>3, <1>4, <1>5, GarbageCollecting

LEMMA GarbageCollectDone ==
  ASSUME SafetyInv, GarbageInv, CollectDone
  PROVE  GarbageInv'
<1>0. /\ phase = "collect" /\ phase' = "free"
      /\ UNCHANGED <<owner, target, dropping, refCount, color, buffered, roots, freed, local, stack>>
      /\ white' = white \o toBeFreed /\ toBeFreed' = <<>>
  BY DEF CollectDone, heap, counts
<1>1. roots = <<>> /\ Elems(roots) = {} /\ toBeFreed = <<>> /\ Elems(toBeFreed) = {}
  BY <1>0, ElemsEmpty DEF SafetyInv, ListInv, GarbageInv, RestInv
<1>2. Elems(white') = Elems(white) \cup Elems(toBeFreed)
  BY <1>0, ElemsConcat DEF SafetyInv, HeapInv, TypeOK
<1>3. /\ Elems(white)' = Elems(white) /\ Elems(roots)' = {} /\ Elems(toBeFreed)' = {}
      /\ Elems(local)' = Elems(local)
  BY <1>0, <1>1, <1>2 DEF Elems
<1>4. Dead' = Dead /\ Zombies' = Zombies /\ Purples' = Purples /\ Listed' = Listed
  BY <1>0, <1>1, <1>3, HeapSame DEF Dead, Whites, Zombies, Purples, Listed, Elems
<1>5. Pending' = Pending
  BY <1>0, <1>1, <1>3, <1>4 DEF Pending
<1>6. PurpleInv'
  <2>1. \A n \in Purples' : freed'[n] \/ buffered'[n]
    BY <1>0, <1>4 DEF GarbageInv, PurpleInv
  <2> QED BY <1>0, <1>3, <2>1 DEF PurpleInv
<1>7. LocalInv' /\ BlackInv' /\ RestInv'
  BY <1>0 DEF LocalInv, BlackInv, RestInv
<1> QED BY <1>0, <1>4, <1>5, <1>6, <1>7, GarbageSame

LEMMA GarbageFree ==
  ASSUME SafetyInv, GarbageInv, Free
  PROVE  GarbageInv'
<1>1. /\ phase = "free" /\ dropping = {}
      /\ UNCHANGED <<owner, target, refCount, color, buffered, roots, toBeFreed,
                     phase, local, white, stack>>
  BY DEF Free, Quiet, counts
<1>2. \A n \in Node : freed[n] => freed'[n]
  BY DEF Free, SafetyInv, HeapInv, TypeOK
<1> QED BY <1>1, <1>2, GarbageLetGo

(* What retain takes out of roots is in the white list.                    *)
LEMMA GarbageRetain ==
  ASSUME SafetyInv, GarbageInv, Retain
  PROVE  GarbageInv'
<1>1. /\ phase = "free" /\ roots' = Without(roots, freeing) /\ freeing # None
      /\ UNCHANGED <<owner, target, dropping, refCount, color, buffered, freed, toBeFreed,
                     phase, local, white, stack>>
  BY DEF Retain, heap, SafetyInv, PhaseInv
<1>2. freeing \in Elems(white)
  BY <1>1 DEF SafetyInv, FreeInv, Elems
<1>3. Elems(roots') = Elems(roots) \ {freeing} /\ Elems(roots)' = Elems(roots')
  <2>1. Elems(roots') = Elems(roots) \ {freeing}
    BY <1>1, ElemsWithout DEF SafetyInv, ListInv, HeapInv, TypeOK
  <2> QED BY <2>1 DEF Elems
<1>4. Dead' = Dead /\ Zombies' = Zombies /\ Purples' = Purples /\ freeing \in Dead
  BY <1>1, <1>2, HeapSame DEF Dead, Whites, Zombies, Purples, Elems
<1>5. Listed' = Listed
  BY <1>1, <1>2, <1>3 DEF Listed, Elems
<1>6. Pending \subseteq Pending'
  BY <1>1, <1>3, <1>4 DEF Pending
<1>7. PurpleInv'
  <2>1. \A n : HandlesOf(n)' = HandlesOf(n)
    BY <1>1, HeapSame
  <2> QED BY <1>1, <1>3, <1>4, <2>1 DEF GarbageInv, PurpleInv
<1>8. LocalInv' /\ BlackInv' /\ RestInv'
  BY <1>1 DEF GarbageInv, LocalInv, BlackInv, RestInv
<1> QED BY <1>1, <1>5, <1>6, <1>7, <1>8, GarbageSame

(* When collect_roots returns, its lists let go of what they freed and of  *)
(* the Listeners nobody has a handle to, which takes what these own along. *)
LEMMA GarbageFreeDone ==
  ASSUME SafetyInv, SafetyInv', GarbageInv, FreeDone
  PROVE  GarbageInv'
<1> DEFINE O == {l \in Listener : HandlesOf(l) = {} /\ l \notin Elems(roots)}
<1>0. /\ phase = "free" /\ phase' = "again" /\ local' = <<>> /\ dropping = {}
      /\ dropping' = UNION {OwnedBy(l) : l \in O}
      /\ UNCHANGED <<owner, target, color, refCount, buffered, roots, freed, toBeFreed>>
  BY DEF FreeDone, counts, Quiet
<1>1. /\ \A n : HandlesOf(n)' = HandlesOf(n) /\ OwnedBy(n)' = OwnedBy(n)
      /\ Purples' = Purples /\ Elems(roots') = Elems(roots)
  BY <1>0 DEF HandlesOf, OwnedBy, Purples
<1>2. RestInv'
  BY <1>0 DEF GarbageInv, RestInv
<1>3. /\ Listed' = Elems(roots)
      /\ Anchors' = Base' \cup {target[h] : h \in dropping'} \cup (Purples \cap Elems(roots))
  BY <1>0, <1>1, <1>2, RestListsNext
<1>4. /\ Pending = (Purples \cap Elems(roots)) \cup Zombies \cup Dead
      /\ Dead = Elems(white) /\ Anchors = Base \cup Pending
      /\ \A n \in Elems(white) : n \in Node /\ HandlesOf(n) = {} /\ OwnedBy(n) = {}
      /\ \A r \in Elems(roots) : r \in Purples \/ HandlesOf(r) # {}
  <2>1. Whites = {} /\ stack = <<>> /\ Elems(<<>>) = {}
    BY <1>0, ElemsEmpty DEF SafetyInv, PhaseInv
  <2>2. Pending = (Purples \cap Elems(roots)) \cup Zombies \cup Dead
    BY <1>0 DEF Pending
  <2>3. Anchors = Base \cup Pending
    BY <1>0 DEF Anchors
  <2> QED BY <1>0, <2>1, <2>2, <2>3, FreedAlone DEF Dead, GarbageInv, PurpleInv
<1>5. HandleInv' /\ LocalInv' /\ BlackInv'
  BY <1>0, <1>1 DEF GarbageInv, HandleInv, LocalInv, BlackInv
<1>6. PurpleInv'
  BY <1>0, <1>1 DEF GarbageInv, PurpleInv, Elems
<1>7. OwnerInv'
  <2> SUFFICES ASSUME NEW h \in Handle, NEW m \in Node, m = owner[h], h \notin dropping'
               PROVE  DataAlive(m)'
    BY <1>0 DEF OwnerInv
  <2>1. HandlesOf(m) # {} \/ m \in Listener
    BY <1>0 DEF GarbageInv, OwnerInv, DataAlive
  <2>2. m \notin O
    BY <1>0 DEF OwnedBy
  <2> QED BY <1>1, <1>3, <2>1, <2>2 DEF DataAlive
<1>8. AliveInv'
  <2> SUFFICES ASSUME NEW C \in SUBSET Node, Anchors' \subseteq C, ClosedIn(C, Node)'
               PROVE  \A n \in Node : DataAlive(n)' => n \in C
    BY AliveNext
  <2> DEFINE D == C \cup Elems(white) \cup O
  <2>1. \A y : \A x \in Trace(y) : x \in Handle /\ (x \in Trace(y)' \/ target[x] \in C)
    BY <1>1, <1>3 DEF Trace, OwnedBy
  <2>2. Base \subseteq C
    <3>1. Base' \subseteq C
      BY <1>3
    <3> QED BY <1>0, <2>1, <3>1 DEF Base
  <2>3. ClosedIn(D, Node)
    <3>1. ASSUME NEW n \in C, NEW x \in Trace(n), target[x] \in Node PROVE target[x] \in C
      BY <1>0, <2>1, <3>1 DEF ClosedIn
    <3>2. \A n \in Elems(white) : Trace(n) = {}
      BY <1>4 DEF Trace
    <3>3. ASSUME NEW n \in O, NEW x \in Trace(n) PROVE target[x] \in C
      BY <1>0, <1>3 DEF Trace
    <3> QED BY <3>1, <3>2, <3>3 DEF ClosedIn
  <2>4. Zombies \subseteq D /\ Purples \cap Elems(roots) \subseteq C
    BY <1>3, <1>4 DEF Zombies
  <2>5. D \in SUBSET Node /\ Anchors \subseteq D
    BY <1>4, <2>2, <2>4
  <2>6. \A n \in Node : DataAlive(n)' => DataAlive(n) /\ (HandlesOf(n) # {} \/ n \in Purples \cap Elems(roots))
    BY <1>1, <1>3, <1>4 DEF DataAlive, Listed
  <2>7. \A n \in Node : DataAlive(n)' => n \in D
    BY <2>3, <2>5, <2>6, AliveIn DEF GarbageInv
  <2> QED BY <1>4, <2>4, <2>6, <2>7
<1> QED BY <1>2, <1>5, <1>6, <1>7, <1>8 DEF GarbageInv

-----------------------------------------------------------------------------
(* The invariant is inductive.                                             *)
LEMMA GarbageInit == Init => GarbageInv
<1> SUFFICES ASSUME Init PROVE GarbageInv
  OBVIOUS
<1>1. /\ phase = "idle" /\ dropping = {} /\ roots = <<>> /\ toBeFreed = <<>> /\ local = <<>> /\ white = <<>>
      /\ \A h \in Handle : owner[h] = None /\ target[h] = None
      /\ \A n \in Node : color[n] = "black"
  BY DEF Init
<1>2. \A n \in Node : HandlesOf(n) = {}
  BY <1>1 DEF HandlesOf
<1>3. Listed = {} /\ Elems(roots) = {} /\ Purples = {}
  BY <1>1, ElemsEmpty DEF Listed, Purples
<1>4. \A n \in Node : ~DataAlive(n)
  BY <1>2, <1>3 DEF DataAlive
<1>5. HandleInv /\ OwnerInv /\ AliveInv
  BY <1>1, <1>2, <1>4 DEF HandleInv, OwnerInv, AliveInv
<1>6. PurpleInv /\ LocalInv /\ BlackInv /\ RestInv
  BY <1>1, <1>3 DEF PurpleInv, LocalInv, BlackInv, RestInv
<1> QED BY <1>5, <1>6 DEF GarbageInv

LEMMA GarbageStep == SafetyInv /\ GarbageInv /\ [Next]_vars => GarbageInv'
<1> SUFFICES ASSUME SafetyInv, GarbageInv, [Next]_vars PROVE GarbageInv'
  OBVIOUS
<1>1. SafetyInv'
  BY SafetyStep
<1>2. CASE ProgramStep
  <2>1. ASSUME Collect PROVE GarbageInv'
    BY <2>1, GarbageBeginRound DEF Collect, Running
  <2> QED BY <1>1, <1>2, <2>1, GarbageProgram
<1>3. CASE CollectorStep
  <2>1. ASSUME MarkRoot PROVE GarbageInv'
    BY <1>1, <2>1, GarbageMarkGray, GarbageMarkSkip
  <2> QED
    BY <1>1, <1>3, <2>1, GarbageMarkDone, GarbageScanRoot, GarbageScanDone, GarbageCollectRoot,
       GarbageCollectVisit, GarbageCollectLeave, GarbageCollectDone, GarbageFree, GarbageRetain,
       GarbageFreeDone, GarbageAgain
    DEF CollectorStep
<1>4. CASE DropStep
  BY <1>4, GarbageRunDrop DEF DropStep
<1>5. CASE UNCHANGED vars
  <2>1. /\ UNCHANGED <<owner, target, dropping, refCount, color, buffered, roots>>
        /\ UNCHANGED <<freed, toBeFreed, phase, local, pos, stack, white>>
    BY <1>5 DEF vars, heap, counts, cursor
  <2>2. UNCHANGED <<Purples, Zombies, Dead, Ahead, Listed>>
    BY <2>1, HeapSame DEF Purples, Zombies, Dead, Whites, Ahead, Listed
  <2>3. Pending' = Pending
    BY <2>1, <2>2 DEF Pending
  <2>4. \A n : HandlesOf(n)' = HandlesOf(n)
    BY <2>1, HeapSame
  <2>5. PurpleInv' /\ LocalInv' /\ RestInv'
    BY <2>1, <2>2, <2>4 DEF GarbageInv, PurpleInv, LocalInv, RestInv
  <2>6. BlackInv'
    <3>1. Reach(Elems(local))' = Reach(Elems(local)) /\ Reach(Base \cup Zombies)' = Reach(Base \cup Zombies)
      BY <2>1, <2>2, HeapSame, BaseSame DEF Reach, ReachIn
    <3> QED BY <2>1, <3>1 DEF GarbageInv, BlackInv
  <2> QED BY <2>1, <2>2, <2>3, <2>5, <2>6, GarbageSame
<1> QED BY <1>2, <1>3, <1>4, <1>5 DEF Next

-----------------------------------------------------------------------------
(* Theorems *)

GarbageSpecInv == SafetyInv /\ GarbageInv

LEMMA GarbageAlways == Spec => []GarbageSpecInv
<1>1. Init => GarbageSpecInv
  BY SafetyInit, GarbageInit DEF GarbageSpecInv
<1>2. GarbageSpecInv /\ [Next]_vars => GarbageSpecInv'
  BY SafetyStep, GarbageStep DEF GarbageSpecInv
<1> QED BY <1>1, <1>2, PTL DEF Spec

(* dec_ref leaves a trail: between two collections, everything that lives  *)
(* and that the program cannot reach can be reached from a purple root,    *)
(* where the next collection starts.                                       *)
THEOREM GarbageHasRoot == Spec => []NoLostGarbage
<1>1. GarbageSpecInv => NoLostGarbage
  <2> SUFFICES ASSUME SafetyInv, GarbageInv, phase = "idle", dropping = {},
                      NEW n \in Node, n \notin Live, DataAlive(n)
               PROVE  n \in Reach({r \in Elems(roots) : color[r] = "purple"})
    BY DEF GarbageSpecInv, NoLostGarbage
  <2> DEFINE P == {r \in Elems(roots) : color[r] = "purple"}
  <2>1. Elems(roots) \subseteq Node /\ Base \in SUBSET Node
    BY ElemsNode, LiveSource DEF SafetyInv, HeapInv, TypeOK
  <2>2. P = Purples \cap Elems(roots) /\ P \in SUBSET Node
    BY <2>1 DEF Purples
  <2>3. Anchors = Base \cup P
    BY <2>2, RestLists DEF GarbageInv
  <2> HIDE DEF P
  <2>4. n \in Reach(Base \cup P)
    BY <2>3 DEF GarbageInv, AliveInv
  <2>5. Reach(Base) = Live
    BY DEF Live, Base
  <2>6. n \in Reach(P)
    BY <2>1, <2>2, <2>4, <2>5, ReachUnion DEF SafetyInv
  <2> QED BY <2>6 DEF P
<1> QED BY <1>1, GarbageAlways, PTL

(* When collect_cycles returns, nothing lives that the program cannot      *)
(* reach: the collector goes round until it has found all of it.           *)
THEOREM CollectionComplete == Spec => CollectsAll
<1>1. ASSUME GarbageSpecInv, GarbageSpecInv', [Next]_vars, phase # "idle", phase' = "idle",
             NEW n \in Node, DataAlive(n)'
      PROVE  n \in Live'
  <2>1. Again
    BY <1>1 DEF Next, ProgramStep, CollectorStep, DropStep, New, ListenWeak, Listen, Clone, Defer,
       Upgrade, Drop, Unlisten, RunDrop, Collect, BeginRound, MarkRoot, MarkDone, ScanRoot, ScanDone,
       CollectRoot, CollectVisit, CollectLeave, CollectDone, Free, Retain, FreeDone, vars, cursor, Running
  <2>2. roots = <<>> /\ roots' = <<>> /\ dropping' = {}
    BY <1>1, <2>1 DEF Again, BeginRound, Quiet, heap
  <2>3. Anchors' = Base'
    BY <1>1, <2>2, RestListsNext, ElemsEmpty DEF GarbageSpecInv, GarbageInv
  <2>4. n \in Reach(Anchors)'
    BY <1>1 DEF GarbageSpecInv, GarbageInv, AliveInv
  <2> QED BY <2>3, <2>4 DEF Live, Base, Reach, ReachIn
<1>2. GarbageSpecInv /\ GarbageSpecInv' /\ [Next]_vars =>
        (phase # "idle" /\ phase' = "idle" => \A n \in Node : DataAlive(n)' => n \in Live')
  BY <1>1
<1> QED BY <1>2, GarbageAlways, PTL DEF Spec, CollectsAll

(* mark_roots overwrites what is pushed to roots while it runs, and there  *)
(* is nothing to lose: a Listener it lets go of has a handle still, or has *)
(* let go of what it owned.                                                *)
THEOREM NothingDropped == Spec => []MarkDropsNothing
<1>1. GarbageSpecInv => MarkDropsNothing
  <2> SUFFICES ASSUME SafetyInv, GarbageInv, phase = "mark", NEW i \in pos .. Len(local),
                      color[local[i]] # "purple"
               PROVE  HandlesOf(local[i]) # {}
    BY DEF GarbageSpecInv, MarkDropsNothing
  <2>1. local[i] \in Elems(local) /\ local[i] \in Ahead
    <3>1. local \in Seq(Node) /\ i \in 1 .. Len(local)
      BY DEF SafetyInv, HeapInv, TypeOK
    <3> QED BY <3>1 DEF Elems, Ahead
  <2>2. local[i] \notin Elems(roots) /\ local[i] \notin Purples
    BY <2>1 DEF SafetyInv, ListInv, Purples
  <2> QED BY <2>1, <2>2 DEF GarbageInv, LocalInv
<1> QED BY <1>1, GarbageAlways, PTL
=============================================================================
