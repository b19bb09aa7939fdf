--------------------------- MODULE SharedCtxProofs ---------------------------
(***************************************************************************)
(* What SharedCtx's threads can rely on, for every number of threads,      *)
(* sinks and calls, if no posted closure panics while Transaction::close   *)
(* runs it:                                                                *)
(*                                                                         *)
(*   CountsHold    the depth and the counter cover what is in progress;    *)
(*   PostsHaveRun  what was posted in a transaction has run when all the   *)
(*                 threads are out of the library.                         *)
(*                                                                         *)
(* The proofs count the frames of a kind P on the stacks S, N(S, P): a     *)
(* step pushes or pops a frame or two, and changes the depth and the       *)
(* counter as much as the counts (Accounts).  That leaves Waits, which     *)
(* says that a closure in the queue has somebody who is going to take it:  *)
(* a call that holds the depth, or an end on its way to the queue.         *)
(***************************************************************************)
EXTENDS SharedCtx, FiniteSetTheorems, SequenceTheorems, TLAPS

(* The frames that there can be.                                           *)
SendPc == {"mark", "push", "fire", "flag", "queue", "leave"}
NodePc == {"swap", "queue", "visit", "any", "run", "self"}
ListPc == {"batch", "clear", "posted"}
EndPc == {"count", "take", "uncount", "pre_post", "post", "release"}
Item == ({"clear"} \X Sink) \cup ({"unvisit"} \X Node)

FrameSet ==
  [op : {"closure"}, pc : {"open"}, list : {<<>>}]
    \cup [op : {"object"}, pc : {"open", "closing", "again"}, list : {<<>>}]
    \cup [op : {"send"}, pc : SendPc, list : Sink \X Nat \X BOOLEAN]
    \cup [op : {"end"}, pc : EndPc, list : {<<>>}]
    \cup [op : {"end"}, pc : {"batch"}, list : Seq(Sink)]
    \cup [op : {"end"}, pc : {"clear"}, list : Seq(Item)]
    \cup [op : {"end"}, pc : {"posted"}, list : Seq(Nat)]
    \cup [op : {"node"}, pc : NodePc, list : Node]
    \cup [op : {"unwind"}, pc : {"unwind"}, list : {<<>>}]

(* Stacks, and the frames that hold the depth, that hold the counter, of   *)
(* ends that are going to take the queue, and of those that took p.        *)
Stacks == [Thread -> Seq(FrameSet)]

Lower(s) == SubSeq(s, 1, Len(s) - 1)
One(f, P) == IF f \in P THEN 1 ELSE 0
BeforeF == {f \in FrameSet : f.op = "end" /\ f.pc \in {"count", "pre_post", "clear", "post"}}
HoldF == {f \in FrameSet : Holds(f)}
OffF == {f \in FrameSet : HoldsOff(f)}
ListF(p) == {f \in FrameSet : f.op = "end" /\ f.pc = "posted" /\ p \in Elements(f.list)}

Pushed(S, t, f) == [S EXCEPT ![t] = Append(S[t], f)]
Popped(S, t) == [S EXCEPT ![t] = Lower(S[t])]

(* What can be above what: an end above a Transaction that is being        *)
(* closed, and nothing above an end but where it runs closures and nodes;  *)
(* in a Transaction that is being closed, only nodes, as no posted closure *)
(* panics there.                                                           *)
Shape(s) ==
  /\ \A i \in 1 .. Len(s) - 1 :
       /\ s[i].pc = "closing" => s[i + 1].op = "end"
       /\ s[i].op = "end" => s[i].pc \in {"batch", "posted"}
  /\ \A i \in 1 .. Len(s) - 2 : s[i].pc = "closing" => s[i + 1].pc = "batch"

(* f can be pushed on s.                                                   *)
Fits(s, f) ==
  LET n == Len(s) IN
    s # <<>> =>
      /\ s[n].pc = "closing" => f.op = "end"
      /\ s[n].op = "end" => s[n].pc \in {"batch", "posted"}
      /\ n > 1 /\ s[n - 1].pc = "closing" => s[n].pc = "batch"

On(S, P) == {x \in UNION {{t} \X DOMAIN S[t] : t \in Thread} : S[x[1]][x[2]] \in P}
N(S, P) == Cardinality(On(S, P))
Well(S) ==
  /\ S \in Stacks /\ IsFiniteSet(On(S, FrameSet))
  /\ \A t \in Thread : Shape(S[t])

-----------------------------------------------------------------------------
LEMMA LowerSeq ==
  ASSUME NEW F, NEW s \in Seq(F), s # <<>>
  PROVE  /\ Len(s) \in Nat \ {0}
         /\ s[Len(s)] \in F
         /\ Lower(s) \in Seq(F)
         /\ Len(Lower(s)) = Len(s) - 1
         /\ \A i \in 1 .. Len(s) - 1 : Lower(s)[i] = s[i]
<1>0. Len(s) \in Nat \ {0}
  BY EmptySeq
<1>1. \A i \in 1 .. Len(s) : s[i] \in F
  BY ElementOfSeq
<1> DEFINE n == Len(s) - 1
<1>6. n \in Int /\ (n = 0 \/ n >= 1)
  <2>1. \A k \in Nat \ {0} : k - 1 \in Int /\ (k - 1 = 0 \/ k - 1 >= 1)
    OBVIOUS
  <2> QED
    BY <1>0, <2>1
<1>2. n \in Int /\ \A i \in 1 .. n : s[i] \in F
  BY <1>0, <1>1
<1> HIDE DEF n
<1>3. /\ SubSeq(s, 1, n) \in Seq(F)
      /\ Len(SubSeq(s, 1, n)) = IF 1 <= n THEN n - 1 + 1 ELSE 0
      /\ \A i \in 1 .. n - 1 + 1 : SubSeq(s, 1, n)[i] = s[1 + i - 1]
  BY <1>2, SubSeqProperties
<1>4. CASE n = 0
  BY <1>0, <1>1, <1>3, <1>4 DEF Lower, n
<1>5. CASE n >= 1
  <2>1. /\ Len(SubSeq(s, 1, n)) = n
        /\ \A i \in 1 .. n : SubSeq(s, 1, n)[i] = s[i]
    BY <1>2, <1>3, <1>5
  <2>2. Lower(s) = SubSeq(s, 1, n)
    BY DEF Lower, n
  <2> QED
    BY <1>0, <1>1, <1>3, <2>1, <2>2 DEF n
<1> QED
  BY <1>4, <1>5, <1>6

LEMMA OnIs ==
  ASSUME NEW S \in Stacks, NEW P, NEW t, NEW i
  PROVE  <<t, i>> \in On(S, P) <=> t \in Thread /\ i \in 1 .. Len(S[t]) /\ S[t][i] \in P
<1>1. \A u \in Thread : DOMAIN S[u] = 1 .. Len(S[u])
  BY LenProperties DEF Stacks
<1> QED
  BY <1>1 DEF On

LEMMA OnPairs ==
  ASSUME NEW S \in Stacks, NEW P, NEW x \in On(S, P)
  PROVE  x = <<x[1], x[2]>>
BY DEF On

LEMMA OnEqual ==
  ASSUME NEW S \in Stacks, NEW P, NEW R,
         \A x \in R : x = <<x[1], x[2]>>,
         \A u, i : <<u, i>> \in On(S, P) <=> <<u, i>> \in R
  PROVE  On(S, P) = R
<1>1. ASSUME NEW x \in On(S, P)
      PROVE  x \in R
  <2>1. x = <<x[1], x[2]>>
    BY OnPairs
  <2>2. <<x[1], x[2]>> \in On(S, P)
    BY <2>1
  <2>3. <<x[1], x[2]>> \in R
    BY <2>2
  <2> QED
    BY <2>1, <2>3
<1>2. ASSUME NEW x \in R
      PROVE  x \in On(S, P)
  <2>1. x = <<x[1], x[2]>>
    OBVIOUS
  <2>2. <<x[1], x[2]>> \in R
    BY <2>1
  <2>3. <<x[1], x[2]>> \in On(S, P)
    BY <2>2
  <2> QED
    BY <2>1, <2>3
<1> QED
  BY <1>1, <1>2

LEMMA Push ==
  ASSUME NEW S \in Stacks, NEW t \in Thread, NEW f \in FrameSet, NEW P,
         IsFiniteSet(On(S, P)),
         NEW T, T = [S EXCEPT ![t] = Append(S[t], f)]
  PROVE  /\ T \in Stacks
         /\ IsFiniteSet(On(T, P))
         /\ Cardinality(On(T, P)) = Cardinality(On(S, P)) + One(f, P)
<1> DEFINE n == Len(S[t])
<1>1. /\ S[t] \in Seq(FrameSet) /\ n \in Nat
      /\ Append(S[t], f) \in Seq(FrameSet)
      /\ Len(Append(S[t], f)) = n + 1
      /\ Append(S[t], f)[n + 1] = f
      /\ \A i \in 1 .. n : Append(S[t], f)[i] = S[t][i]
  BY AppendProperties, LenProperties DEF Stacks
<1>2. T \in Stacks /\ T[t] = Append(S[t], f) /\ \A u \in Thread \ {t} : T[u] = S[u]
  BY <1>1 DEF Stacks
<1>3. On(T, P) = On(S, P) \cup (IF f \in P THEN {<<t, n + 1>>} ELSE {})
  <2>1. ASSUME NEW u, NEW i
        PROVE  <<u, i>> \in On(T, P) <=>
                 <<u, i>> \in On(S, P) \cup (IF f \in P THEN {<<t, n + 1>>} ELSE {})
    <3>1. <<u, i>> \in On(T, P) <=> u \in Thread /\ i \in 1 .. Len(T[u]) /\ T[u][i] \in P
      BY <1>2, OnIs
    <3>2. <<u, i>> \in On(S, P) <=> u \in Thread /\ i \in 1 .. Len(S[u]) /\ S[u][i] \in P
      BY OnIs
    <3>3. CASE u = t
      BY <3>1, <3>2, <3>3, <1>1, <1>2
    <3>4. CASE u # t
      BY <3>1, <3>2, <3>4, <1>2
    <3> QED
      BY <3>3, <3>4
  <2> DEFINE R == On(S, P) \cup (IF f \in P THEN {<<t, n + 1>>} ELSE {})
  <2>2. \A x \in R : x = <<x[1], x[2]>>
    BY OnPairs
  <2>3. \A u, i : <<u, i>> \in On(T, P) <=> <<u, i>> \in R
    BY <2>1
  <2> HIDE DEF R
  <2>4. On(T, P) = R
    BY <1>2, <2>2, <2>3, OnEqual
  <2> QED
    BY <2>4 DEF R
<1>4. <<t, n + 1>> \notin On(S, P)
  BY <1>1, OnIs
<1>0. Cardinality(On(S, P)) \in Nat
  BY FS_CardinalityType
<1>5. CASE f \in P
  <2>1. On(T, P) = On(S, P) \cup {<<t, n + 1>>}
    BY <1>3, <1>5
  <2>2. /\ IsFiniteSet(On(S, P) \cup {<<t, n + 1>>})
        /\ Cardinality(On(S, P) \cup {<<t, n + 1>>}) = Cardinality(On(S, P)) + 1
    BY <1>4, FS_AddElement
  <2> QED
    BY <1>2, <1>5, <2>1, <2>2 DEF One
<1>6. CASE f \notin P
  <2>1. On(T, P) = On(S, P)
    BY <1>3, <1>6
  <2> QED
    BY <1>0, <1>2, <1>6, <2>1 DEF One
<1> QED
  BY <1>5, <1>6

LEMMA Pop ==
  ASSUME NEW S \in Stacks, NEW t \in Thread, NEW P, S[t] # <<>>,
         IsFiniteSet(On(S, P)),
         NEW T, T = [S EXCEPT ![t] = Lower(S[t])]
  PROVE  /\ T \in Stacks
         /\ IsFiniteSet(On(T, P))
         /\ Cardinality(On(T, P)) = Cardinality(On(S, P)) - One(S[t][Len(S[t])], P)
<1> DEFINE n == Len(S[t])
<1>1. /\ S[t] \in Seq(FrameSet) /\ n \in Nat \ {0}
      /\ Lower(S[t]) \in Seq(FrameSet)
      /\ Len(Lower(S[t])) = n - 1
      /\ \A i \in 1 .. n - 1 : Lower(S[t])[i] = S[t][i]
  BY LowerSeq DEF Stacks
<1>2. T \in Stacks /\ T[t] = Lower(S[t]) /\ \A u \in Thread \ {t} : T[u] = S[u]
  BY <1>1 DEF Stacks
<1>3. On(T, P) = On(S, P) \ {<<t, n>>}
  <2>1. ASSUME NEW u, NEW i
        PROVE  <<u, i>> \in On(T, P) <=> <<u, i>> \in On(S, P) \ {<<t, n>>}
    <3>1. <<u, i>> \in On(T, P) <=> u \in Thread /\ i \in 1 .. Len(T[u]) /\ T[u][i] \in P
      BY <1>2, OnIs
    <3>2. <<u, i>> \in On(S, P) <=> u \in Thread /\ i \in 1 .. Len(S[u]) /\ S[u][i] \in P
      BY OnIs
    <3>3. CASE u = t
      BY <3>1, <3>2, <3>3, <1>1, <1>2
    <3>4. CASE u # t
      BY <3>1, <3>2, <3>4, <1>2
    <3> QED
      BY <3>3, <3>4
  <2> DEFINE R == On(S, P) \ {<<t, n>>}
  <2>2. \A x \in R : x = <<x[1], x[2]>>
    BY OnPairs
  <2>3. \A u, i : <<u, i>> \in On(T, P) <=> <<u, i>> \in R
    BY <2>1
  <2> HIDE DEF R
  <2>4. On(T, P) = R
    BY <1>2, <2>2, <2>3, OnEqual
  <2> QED
    BY <2>4 DEF R
<1>4. <<t, n>> \in On(S, P) <=> S[t][n] \in P
  BY <1>1, OnIs
<1>5. /\ IsFiniteSet(On(S, P) \ {<<t, n>>})
      /\ Cardinality(On(S, P) \ {<<t, n>>}) =
           IF <<t, n>> \in On(S, P) THEN Cardinality(On(S, P)) - 1 ELSE Cardinality(On(S, P))
  BY FS_RemoveElement
<1>6. Cardinality(On(S, P)) \in Nat
  BY FS_CardinalityType
<1>7. CASE S[t][n] \in P
  <2>1. Cardinality(On(T, P)) = Cardinality(On(S, P)) - 1 /\ One(S[t][n], P) = 1
    BY <1>3, <1>4, <1>5, <1>7 DEF One
  <2> QED
    BY <1>2, <1>3, <1>5, <2>1
<1>8. CASE S[t][n] \notin P
  <2>1. Cardinality(On(T, P)) = Cardinality(On(S, P)) /\ One(S[t][n], P) = 0
    BY <1>3, <1>4, <1>5, <1>8 DEF One
  <2>2. Cardinality(On(S, P)) - 0 = Cardinality(On(S, P))
    <3>1. \A k \in Nat : k - 0 = k
      OBVIOUS
    <3> QED
      BY <1>6, <3>1
  <2> QED
    BY <1>2, <1>3, <1>5, <2>1, <2>2
<1> QED
  BY <1>7, <1>8

-----------------------------------------------------------------------------
(* Frames *)

LEMMA FrameKinds ==
  ASSUME NEW f \in FrameSet
  PROVE  /\ f.op = "closure" => f.pc = "open" /\ f.list = <<>>
         /\ f.op = "object" => f.pc \in {"open", "closing", "again"} /\ f.list = <<>>
         /\ f.op = "send" => f.pc \in SendPc /\ f.list \in Sink \X Nat \X BOOLEAN
         /\ f.op = "end" => /\ f.pc \in EndPc \cup ListPc
                            /\ f.pc = "batch" => f.list \in Seq(Sink)
                            /\ f.pc = "clear" => f.list \in Seq(Item)
                            /\ f.pc = "posted" => f.list \in Seq(Nat)
         /\ f.op = "node" => f.pc \in NodePc /\ f.list \in Node
         /\ f.op = "unwind" => f.pc = "unwind" /\ f.list = <<>>
         /\ f.op \in {"closure", "object", "send", "end", "node", "unwind"}
BY DEF FrameSet, ListPc, EndPc

LEMMA MakeFrames ==
  /\ Open("closure") \in FrameSet /\ Open("object") \in FrameSet
  /\ \A pc \in {"closing", "again"} : [op |-> "object", pc |-> pc, list |-> <<>>] \in FrameSet
  /\ \A pc \in SendPc, list \in Sink \X Nat \X BOOLEAN : Sending(pc, list) \in FrameSet
  /\ \A pc \in EndPc : End(pc, <<>>) \in FrameSet
  /\ \A list \in Seq(Sink) : End("batch", list) \in FrameSet
  /\ \A list \in Seq(Item) : End("clear", list) \in FrameSet
  /\ \A list \in Seq(Nat) : End("posted", list) \in FrameSet
  /\ \A pc \in NodePc, n \in Node : Visit(pc, n) \in FrameSet
  /\ Unwinding \in FrameSet
<1>1. /\ Open("closure") \in FrameSet /\ Open("object") \in FrameSet
      /\ \A pc \in {"closing", "again"} :
           [op |-> "object", pc |-> pc, list |-> <<>>] \in FrameSet
  BY DEF FrameSet, Open
<1>2. \A pc \in SendPc, list \in Sink \X Nat \X BOOLEAN : Sending(pc, list) \in FrameSet
  BY DEF FrameSet, Sending
<1>3. \A pc \in EndPc : End(pc, <<>>) \in FrameSet
  BY DEF FrameSet, End
<1>4. \A list \in Seq(Sink) : End("batch", list) \in FrameSet
  BY DEF FrameSet, End
<1>5. \A list \in Seq(Item) : End("clear", list) \in FrameSet
  BY DEF FrameSet, End
<1>6. \A list \in Seq(Nat) : End("posted", list) \in FrameSet
  BY DEF FrameSet, End
<1>7. \A pc \in NodePc, n \in Node : Visit(pc, n) \in FrameSet
  BY DEF FrameSet, Visit
<1>8. Unwinding \in FrameSet
  BY DEF FrameSet, Unwinding
<1> QED
  BY <1>1, <1>2, <1>3, <1>4, <1>5, <1>6, <1>7, <1>8

(* A send and a visit that go on.                                          *)
LEMMA FrameGoesOn ==
  ASSUME NEW f \in FrameSet
  PROVE  /\ f.op = "send" => \A pc \in SendPc : [f EXCEPT !.pc = pc] = Sending(pc, f.list)
         /\ f.op = "node" => \A pc \in NodePc : [f EXCEPT !.pc = pc] = Visit(pc, f.list)
         /\ f.op = "object" => [f EXCEPT !.pc = "closing"] =
                                 [op |-> "object", pc |-> "closing", list |-> <<>>]
         /\ f.op = "object" => [f EXCEPT !.pc = "again"] =
                                 [op |-> "object", pc |-> "again", list |-> <<>>]
BY DEF FrameSet, Sending, Visit

-----------------------------------------------------------------------------
(* Stacks *)

LEMMA Counts ==
  ASSUME NEW S, Well(S), NEW P \in SUBSET FrameSet
  PROVE  IsFiniteSet(On(S, P)) /\ N(S, P) \in Nat
<1>1. On(S, P) \subseteq On(S, FrameSet)
  BY DEF On
<1>2. IsFiniteSet(On(S, P))
  BY <1>1, FS_Subset DEF Well
<1> QED
  BY <1>2, FS_CardinalityType DEF N

LEMMA PopWell ==
  ASSUME NEW S, Well(S), NEW t \in Thread, S[t] # <<>>
  PROVE  /\ Well(Popped(S, t))
         /\ \A P \in SUBSET FrameSet :
              N(Popped(S, t), P) = N(S, P) - One(S[t][Len(S[t])], P)
<1>1. S \in Stacks /\ S[t] \in Seq(FrameSet)
  BY DEF Well, Stacks
<1>2. /\ Popped(S, t) \in Stacks
      /\ IsFiniteSet(On(Popped(S, t), FrameSet))
  BY <1>1, Counts, Pop DEF Popped
<1>3. \A P \in SUBSET FrameSet : N(Popped(S, t), P) = N(S, P) - One(S[t][Len(S[t])], P)
  BY <1>1, Counts, Pop DEF Popped, N
<1>4. Shape(Lower(S[t]))
  <2>1. /\ Len(S[t]) \in Nat \ {0} /\ Len(Lower(S[t])) = Len(S[t]) - 1
        /\ \A i \in 1 .. Len(S[t]) - 1 : Lower(S[t])[i] = S[t][i]
    BY <1>1, LowerSeq
  <2>2. Shape(S[t])
    BY DEF Well
  <2> DEFINE s == S[t]
             r == Lower(S[t])
  <2>3. \A i \in 1 .. Len(r) - 1 : i \in 1 .. Len(s) - 1 /\ r[i] = s[i] /\ r[i + 1] = s[i + 1]
    BY <2>1
  <2>4. \A i \in 1 .. Len(r) - 2 : i \in 1 .. Len(s) - 2 /\ r[i] = s[i] /\ r[i + 1] = s[i + 1]
    BY <2>1
  <2> HIDE DEF s, r
  <2>5. Shape(s)
    BY <2>2 DEF s
  <2>6. Shape(r)
    BY <2>3, <2>4, <2>5 DEF Shape
  <2> QED
    BY <2>6 DEF r
<1>5. \A u \in Thread : Shape(Popped(S, t)[u])
  BY <1>1, <1>4 DEF Well, Popped, Stacks
<1> QED
  BY <1>2, <1>3, <1>5 DEF Well

LEMMA PushWell ==
  ASSUME NEW S, Well(S), NEW t \in Thread, NEW f \in FrameSet, Fits(S[t], f)
  PROVE  /\ Well(Pushed(S, t, f))
         /\ \A P \in SUBSET FrameSet : N(Pushed(S, t, f), P) = N(S, P) + One(f, P)
<1>1. S \in Stacks /\ S[t] \in Seq(FrameSet)
  BY DEF Well, Stacks
<1>2. /\ Pushed(S, t, f) \in Stacks
      /\ IsFiniteSet(On(Pushed(S, t, f), FrameSet))
  BY <1>1, Counts, Push DEF Pushed
<1>3. \A P \in SUBSET FrameSet : N(Pushed(S, t, f), P) = N(S, P) + One(f, P)
  BY <1>1, Counts, Push DEF Pushed, N
<1>4. Shape(Append(S[t], f))
  <2> DEFINE n == Len(S[t])
  <2>1. /\ n \in Nat /\ Len(Append(S[t], f)) = n + 1
        /\ Append(S[t], f)[n + 1] = f
        /\ \A i \in 1 .. n : Append(S[t], f)[i] = S[t][i]
    BY <1>1, AppendProperties, LenProperties
  <2>2. n > 0 => S[t] # <<>>
    BY <1>1, EmptySeq
  <2>3. Shape(S[t]) /\ Fits(S[t], f)
    BY DEF Well
  <2> DEFINE s == S[t]
             a == Append(S[t], f)
  <2> HIDE DEF n, s, a
  <2>4. ASSUME NEW i \in 1 .. n
        PROVE  /\ a[i].pc = "closing" => a[i + 1].op = "end"
               /\ a[i].op = "end" => a[i].pc \in {"batch", "posted"}
    <3>1. CASE i = n
      BY <2>1, <2>2, <2>3, <3>1 DEF Fits, n, s, a
    <3>2. CASE i # n
      <4>1. i \in 1 .. n - 1 /\ i + 1 \in 1 .. n
        BY <2>1, <3>2
      <4>2. a[i] = s[i] /\ a[i + 1] = s[i + 1]
        BY <2>1, <4>1 DEF s, a
      <4>3. Shape(s) /\ n = Len(s)
        BY <2>3 DEF s, n
      <4> QED
        BY <4>1, <4>2, <4>3 DEF Shape
    <3> QED
      BY <3>1, <3>2
  <2>5. ASSUME NEW i \in 1 .. n - 1, a[i].pc = "closing"
        PROVE  a[i + 1].pc = "batch"
    <3>0. i + 1 \in 1 .. n /\ a[i] = s[i] /\ a[i + 1] = s[i + 1]
      BY <2>1 DEF s, a
    <3>1. CASE i = n - 1
      <4>1. n > 1 /\ n - 1 = i /\ i + 1 = n
        BY <2>1, <3>1
      <4> QED
        BY <2>2, <2>3, <2>5, <3>0, <4>1 DEF Fits, n, s
    <3>2. CASE i # n - 1
      <4>1. i \in 1 .. n - 2
        BY <2>1, <3>2
      <4>2. Shape(s) /\ n = Len(s)
        BY <2>3 DEF s, n
      <4> QED
        BY <2>5, <3>0, <4>1, <4>2 DEF Shape
    <3> QED
      BY <3>1, <3>2
  <2>6. Len(a) = n + 1 /\ Len(a) - 1 = n /\ Len(a) - 2 = n - 1
    BY <2>1 DEF a
  <2>7. Shape(a)
    BY <2>4, <2>5, <2>6 DEF Shape
  <2> QED
    BY <2>7 DEF a
<1>5. \A u \in Thread : Shape(Pushed(S, t, f)[u])
  BY <1>1, <1>4 DEF Well, Pushed, Stacks
<1> QED
  BY <1>2, <1>3, <1>5 DEF Well

(* A frame in the place of the top one fits on what is below it.           *)
LEMMA FitsBelow ==
  ASSUME NEW S, Well(S), NEW t \in Thread, S[t] # <<>>, NEW f \in FrameSet,
         S[t][Len(S[t])].op = "end" => f.op = "end"
  PROVE  Fits(Lower(S[t]), f)
<1> DEFINE n == Len(S[t])
<1>1. S[t] \in Seq(FrameSet) /\ Shape(S[t])
  BY DEF Well, Stacks
<1>2. /\ n \in Nat \ {0} /\ Len(Lower(S[t])) = n - 1
      /\ \A i \in 1 .. n - 1 : Lower(S[t])[i] = S[t][i]
      /\ Lower(S[t]) # <<>> => n > 1
  BY <1>1, LowerSeq, EmptySeq
<1> QED
  BY <1>1, <1>2 DEF Shape, Fits

-----------------------------------------------------------------------------
(* What the calls make of the stacks *)

LEMMA TopIs ==
  ASSUME Well(stack), NEW t \in Thread, stack[t] # <<>>
  PROVE  /\ Top(t) \in FrameSet
         /\ Below(t) = Lower(stack[t])
         /\ stack \in Stacks
         /\ Popped(stack, t)[t] = Lower(stack[t])
         /\ Len(stack[t]) \in Nat \ {0}
         /\ Len(Lower(stack[t])) = Len(stack[t]) - 1
         /\ \A i \in 1 .. Len(stack[t]) - 1 : Lower(stack[t])[i] = stack[t][i]
<1>1. stack \in Stacks /\ stack[t] \in Seq(FrameSet)
  BY DEF Well, Stacks
<1> QED
  BY <1>1, LowerSeq DEF Top, Below, Lower, Popped, Stacks

LEMMA ReturnIs ==
  ASSUME Well(stack), NEW t \in Thread, stack[t] # <<>>,
         NEW T, T = [stack EXCEPT ![t] = Below(t)]
  PROVE  /\ Well(T)
         /\ \A P \in SUBSET FrameSet : N(T, P) = N(stack, P) - One(Top(t), P)
<1>1. T = Popped(stack, t)
  BY TopIs DEF Popped
<1> QED
  BY <1>1, PopWell DEF Top

LEMMA GoOnIs ==
  ASSUME Well(stack), NEW t \in Thread, stack[t] # <<>>,
         NEW f \in FrameSet, Top(t).op = "end" => f.op = "end",
         NEW T, T = [stack EXCEPT ![t] = Append(Below(t), f)]
  PROVE  /\ Well(T)
         /\ \A P \in SUBSET FrameSet : N(T, P) = N(stack, P) - One(Top(t), P) + One(f, P)
<1> DEFINE S == Popped(stack, t)
<1>1. /\ Well(S)
      /\ \A P \in SUBSET FrameSet : N(S, P) = N(stack, P) - One(Top(t), P)
  BY PopWell DEF Top
<1>2. T = Pushed(S, t, f)
  BY TopIs DEF Pushed, Popped, Stacks
<1>3. Fits(S[t], f)
  BY TopIs, FitsBelow DEF Top
<1> HIDE DEF S
<1>4. /\ Well(Pushed(S, t, f))
      /\ \A P \in SUBSET FrameSet : N(Pushed(S, t, f), P) = N(S, P) + One(f, P)
  <2>1. Well(S)
    BY <1>1
  <2> QED
    BY <2>1, <1>3, PushWell
<1> QED
  BY <1>1, <1>2, <1>4

LEMMA NestIs ==
  ASSUME Well(stack), NEW t \in Thread, stack[t] # <<>>,
         NEW f \in FrameSet, Top(t).op = "end" => f.op = "end",
         f.pc # "closing",
         f.op = "end" => \/ f.pc = "batch"
                         \/ f.pc = "posted" /\ ~Closing(t, Len(stack[t]) - 1),
         NEW g \in FrameSet,
         NEW T, T = [stack EXCEPT ![t] = Append(Append(Below(t), f), g)]
  PROVE  /\ Well(T)
         /\ \A P \in SUBSET FrameSet :
              N(T, P) = N(stack, P) - One(Top(t), P) + One(f, P) + One(g, P)
<1> DEFINE S == [stack EXCEPT ![t] = Append(Below(t), f)]
           n == Len(stack[t])
<1>1. /\ Well(S)
      /\ \A P \in SUBSET FrameSet : N(S, P) = N(stack, P) - One(Top(t), P) + One(f, P)
  BY GoOnIs
<1>2. T = Pushed(S, t, g)
  BY TopIs DEF Pushed, Stacks
<1>3. Fits(S[t], g)
  <2>1. /\ S[t] = Append(Lower(stack[t]), f)
        /\ Lower(stack[t]) \in Seq(FrameSet)
        /\ n \in Nat \ {0} /\ Len(Lower(stack[t])) = n - 1
    BY TopIs, LowerSeq DEF Stacks
  <2>2. /\ Len(S[t]) = n /\ S[t][n] = f
        /\ \A i \in 1 .. n - 1 : S[t][i] = stack[t][i]
    BY <2>1, TopIs, AppendProperties
  <2>3. ASSUME n > 1, S[t][n - 1].pc = "closing"
        PROVE  f.pc = "batch"
    <3>1. stack[t][n - 1].pc = "closing" /\ n - 1 \in 1 .. n - 1
      BY <2>1, <2>2, <2>3
    <3>2. Shape(stack[t])
      BY DEF Well
    <3>3. Top(t).op = "end"
      BY <2>1, <3>1, <3>2, SMTT(30) DEF Shape, Top
    <3>4. stack[t][n - 1] \in FrameSet
      BY <2>1, <3>1, ElementOfSeq, TopIs DEF Stacks
    <3>5. stack[t][n - 1].op = "object"
      BY <3>1, <3>4, FrameKinds DEF EndPc, ListPc, SendPc, NodePc
    <3>6. Closing(t, n - 1)
      BY <2>1, <2>3, <3>1, <3>5 DEF Closing
    <3> QED
      BY <3>3, <3>6
  <2> QED
    BY <2>2, <2>3 DEF Fits
<1> HIDE DEF S
<1>4. /\ Well(Pushed(S, t, g))
      /\ \A P \in SUBSET FrameSet : N(Pushed(S, t, g), P) = N(S, P) + One(g, P)
  <2>1. Well(S)
    BY <1>1
  <2> QED
    BY <2>1, <1>3, PushWell
<1> QED
  BY <1>1, <1>2, <1>4

(* A call of the program.                                                  *)
LEMMA CallIs ==
  ASSUME Well(stack), NEW t \in Thread, Runs(t), NEW f \in FrameSet,
         NEW T, T = [stack EXCEPT ![t] = Append(stack[t], f)]
  PROVE  /\ Well(T)
         /\ \A P \in SUBSET FrameSet : N(T, P) = N(stack, P) + One(f, P)
<1>1. T = Pushed(stack, t, f)
  BY DEF Pushed
<1>2. Fits(stack[t], f)
  <2>1. CASE stack[t] = <<>>
    BY <2>1 DEF Fits
  <2>2. CASE stack[t] # <<>>
    <3> DEFINE n == Len(stack[t])
    <3>1. Top(t) \in FrameSet /\ Top(t).pc = "open" /\ Top(t) = stack[t][n]
      BY <2>2, TopIs DEF Runs, Top
    <3>2. Top(t).op # "end"
      BY <3>1, FrameKinds DEF EndPc, ListPc
    <3>3. n \in Nat \ {0} /\ Shape(stack[t])
      BY <2>2, TopIs DEF Well
    <3>4. ~(n > 1 /\ stack[t][n - 1].pc = "closing")
      <4>1. n > 1 => n - 1 \in 1 .. n - 1
        BY <3>3
      <4> QED
        BY <3>1, <3>2, <3>3, <4>1 DEF Shape
    <3> QED
      BY <3>1, <3>2, <3>4 DEF Fits
  <2> QED
    BY <2>1, <2>2
<1>3. /\ Well(Pushed(stack, t, f))
      /\ \A P \in SUBSET FrameSet : N(Pushed(stack, t, f), P) = N(stack, P) + One(f, P)
  BY <1>2, PushWell
<1> QED
  BY <1>1, <1>3

(* leave_transaction, when S is what it leaves of the stacks but for an    *)
(* end.                                                                    *)
LEMMA LeaveIs ==
  ASSUME NEW S, Well(S), NEW t \in Thread, stack \in Stacks,
         S = [stack EXCEPT ![t] = S[t]],
         Fits(S[t], End("count", <<>>)),
         Leave(t, S[t])
  PROVE  /\ depth' = depth - 1
         /\ Well(stack')
         /\ \A P \in SUBSET FrameSet :
              N(stack', P) = N(S, P) + (IF depth = 1 THEN One(End("count", <<>>), P) ELSE 0)
<1>1. End("count", <<>>) \in FrameSet
  BY MakeFrames DEF EndPc
<1>2. CASE depth = 1
  <2>1. stack' = Pushed(S, t, End("count", <<>>))
    BY <1>2 DEF Leave, Calls, Pushed, Well, Stacks
  <2>2. /\ Well(Pushed(S, t, End("count", <<>>)))
        /\ \A P \in SUBSET FrameSet :
             N(Pushed(S, t, End("count", <<>>)), P) = N(S, P) + One(End("count", <<>>), P)
    BY <1>1, PushWell
  <2> QED
    BY <1>2, <2>1, <2>2 DEF Leave
<1>3. CASE depth # 1
  <2>1. stack' = S
    BY <1>3 DEF Leave, Calls
  <2>2. \A P \in SUBSET FrameSet : N(S, P) + 0 = N(S, P)
    BY Counts
  <2> QED
    BY <1>3, <2>1, <2>2 DEF Leave
<1> QED
  BY <1>2, <1>3

LEMMA Kinds ==
  /\ HoldF \in SUBSET FrameSet /\ OffF \in SUBSET FrameSet /\ BeforeF \in SUBSET FrameSet
  /\ \A p : ListF(p) \in SUBSET FrameSet
  /\ \A f \in FrameSet :
       /\ One(f, HoldF) = IF Holds(f) THEN 1 ELSE 0
       /\ One(f, OffF) = IF HoldsOff(f) THEN 1 ELSE 0
       /\ One(f, BeforeF) = IF f.op = "end" /\ f.pc \in {"count", "pre_post", "clear", "post"}
                            THEN 1 ELSE 0
       /\ \A p : One(f, ListF(p)) = IF f.op = "end" /\ f.pc = "posted" /\ p \in Elements(f.list)
                                     THEN 1 ELSE 0
BY DEF HoldF, OffF, BeforeF, ListF, One

LEMMA ElementsOf ==
  ASSUME NEW A, NEW s \in Seq(A), NEW a \in A
  PROVE  /\ Elements(<<>>) = {}
         /\ Elements(Append(s, a)) = Elements(s) \cup {a}
         /\ s # <<>> => /\ Head(s) \in A /\ Tail(s) \in Seq(A)
                        /\ Elements(s) = Elements(Tail(s)) \cup {Head(s)}
<1>1. Elements(<<>>) = {}
  BY DEF Elements
<1>2. Elements(Append(s, a)) = Elements(s) \cup {a}
  BY DEF Elements
<1>3. ASSUME s # <<>>
      PROVE  /\ Head(s) \in A /\ Tail(s) \in Seq(A)
             /\ Elements(s) = Elements(Tail(s)) \cup {Head(s)}
  <2> DEFINE n == Len(s)
             u == Tail(s)
  <2>1. /\ Head(s) \in A /\ u \in Seq(A)
        /\ n \in Nat \ {0} /\ Len(u) = n - 1
        /\ \A i \in 1 .. Len(u) : u[i] = s[i + 1]
    BY <1>3, HeadTailProperties, EmptySeq
  <2>2. DOMAIN s = 1 .. n /\ DOMAIN u = 1 .. n - 1 /\ Head(s) = s[1]
    BY <1>3, <2>1
  <2> HIDE DEF n, u
  <2>3. ASSUME NEW i \in 1 .. n
        PROVE  s[i] \in Elements(u) \cup {Head(s)}
    <3>1. CASE i = 1
      BY <2>2, <3>1
    <3>2. CASE i # 1
      <4>1. i - 1 \in 1 .. n - 1 /\ i - 1 + 1 = i
        BY <2>1, <3>2
      <4>2. u[i - 1] = s[i] /\ i - 1 \in DOMAIN u
        BY <2>1, <2>2, <4>1
      <4> QED
        BY <4>2 DEF Elements
    <3> QED
      BY <3>1, <3>2
  <2>4. ASSUME NEW i \in 1 .. n - 1
        PROVE  u[i] \in Elements(s)
    <3>1. i + 1 \in 1 .. n /\ u[i] = s[i + 1]
      BY <2>1
    <3> QED
      BY <2>2, <3>1 DEF Elements
  <2>5. 1 \in 1 .. n
    BY <2>1
  <2>6. Head(s) \in Elements(s)
    BY <2>2, <2>5 DEF Elements
  <2>7. Elements(s) \subseteq Elements(u) \cup {Head(s)}
    BY <2>2, <2>3 DEF Elements
  <2>8. Elements(u) \subseteq Elements(s)
    <3>1. \A x \in Elements(u) : \E i \in 1 .. n - 1 : x = u[i]
      BY <2>2 DEF Elements
    <3> QED
      BY <2>4, <3>1
  <2> QED
    BY <2>1, <2>6, <2>7, <2>8 DEF u
<1> QED
  BY <1>1, <1>2, <1>3

-----------------------------------------------------------------------------
(* The invariant *)

Typed ==
  /\ changedNodes \in Seq(Sink) /\ prePost \in Seq(Item)
  /\ post \in Seq(Nat) /\ ran \in Seq(Nat)
  /\ sends \in Nat /\ posts \in Nat /\ inside \subseteq 1 .. posts
  /\ raised \in Nat /\ leaked \in Nat

Accounts ==
  /\ depth = N(stack, HoldF) + raised
  /\ counter = N(stack, OffF) + leaked

(* Somebody is going to take the queue.                                    *)
Waits == inside \cap Elements(post) # {} => depth > 0 \/ N(stack, BeforeF) > 0

Located ==
  \A p \in inside : \/ p \in Elements(post) \cup Elements(ran) \cup dropped
                   \/ N(stack, ListF(p)) > 0

SharedInv == Typed /\ Well(stack) /\ Accounts /\ Waits /\ Located

LEMMA Naturals ==
  ASSUME SharedInv
  PROVE  /\ N(stack, HoldF) \in Nat /\ N(stack, OffF) \in Nat /\ N(stack, BeforeF) \in Nat
         /\ \A p : N(stack, ListF(p)) \in Nat
         /\ depth \in Nat /\ counter \in Nat
         /\ raised \in Nat /\ leaked \in Nat
<1>1. /\ N(stack, HoldF) \in Nat /\ N(stack, OffF) \in Nat /\ N(stack, BeforeF) \in Nat
      /\ \A p : N(stack, ListF(p)) \in Nat
  BY Counts, Kinds DEF SharedInv
<1> QED
  BY <1>1 DEF SharedInv, Accounts, Typed

(* A step that changes calls and nothing they answer for.                  *)
LEMMA Quiet ==
  ASSUME SharedInv, Typed', Well(stack'),
         N(stack', HoldF) = N(stack, HoldF),
         N(stack', OffF) = N(stack, OffF),
         N(stack', BeforeF) >= N(stack, BeforeF),
         \A p : N(stack', ListF(p)) = N(stack, ListF(p)),
         UNCHANGED <<depth, counter, post, inside, ran, dropped, raised, leaked>>
  PROVE  SharedInv'
<1>1. Accounts'
  BY DEF SharedInv, Accounts
<1>2. Waits'
  <2>1. N(stack, BeforeF) \in Nat /\ N(stack', BeforeF) \in Nat
    BY Naturals, Counts, Kinds
  <2> QED
    BY <2>1 DEF SharedInv, Waits
<1>3. Located'
  BY DEF SharedInv, Located
<1> QED
  BY <1>1, <1>2, <1>3 DEF SharedInv

LEMMA QuietGoOn ==
  ASSUME SharedInv, Typed', NEW t \in Thread, stack[t] # <<>>,
         NEW f \in FrameSet, GoOn(t, f), Top(t).op = "end" => f.op = "end",
         Holds(f) <=> Holds(Top(t)), HoldsOff(f) <=> HoldsOff(Top(t)),
         Top(t) \in BeforeF => f \in BeforeF,
         Top(t).pc # "posted", f.pc # "posted",
         UNCHANGED <<depth, counter, post, inside, ran, dropped, raised, leaked>>
  PROVE  SharedInv'
<1>1. Well(stack) /\ Top(t) \in FrameSet
  BY TopIs DEF SharedInv
<1>2. /\ Well(stack')
      /\ \A P \in SUBSET FrameSet : N(stack', P) = N(stack, P) - One(Top(t), P) + One(f, P)
  BY <1>1, GoOnIs DEF GoOn, Calls
<1>3. /\ One(f, HoldF) = One(Top(t), HoldF) /\ One(f, OffF) = One(Top(t), OffF)
      /\ One(f, BeforeF) >= One(Top(t), BeforeF)
      /\ \A p : One(f, ListF(p)) = One(Top(t), ListF(p))
      /\ One(f, BeforeF) \in {0, 1} /\ One(Top(t), BeforeF) \in {0, 1}
      /\ One(f, HoldF) \in {0, 1} /\ One(f, OffF) \in {0, 1}
      /\ \A p : One(f, ListF(p)) \in {0, 1}
  <2>1. /\ One(f, HoldF) = One(Top(t), HoldF) /\ One(f, HoldF) \in {0, 1}
        /\ One(f, OffF) = One(Top(t), OffF) /\ One(f, OffF) \in {0, 1}
    BY <1>1, Kinds
  <2>2. \A p : One(f, ListF(p)) = 0 /\ One(Top(t), ListF(p)) = 0
    BY <1>1, Kinds
  <2>3. /\ One(f, BeforeF) >= One(Top(t), BeforeF)
        /\ One(f, BeforeF) \in {0, 1} /\ One(Top(t), BeforeF) \in {0, 1}
    BY <1>1 DEF One
  <2> QED
    BY <2>1, <2>2, <2>3
<1>4. \A n \in Nat : \A a, b \in {0, 1} : n - a + a = n /\ (b >= a => n - a + b >= n)
  OBVIOUS
<1>5. /\ N(stack', HoldF) = N(stack, HoldF) /\ N(stack', OffF) = N(stack, OffF)
      /\ N(stack', BeforeF) >= N(stack, BeforeF)
      /\ \A p : N(stack', ListF(p)) = N(stack, ListF(p))
  BY <1>2, <1>3, <1>4, Kinds, Naturals
<1> QED
  BY <1>2, <1>5, Quiet

LEMMA QuietReturn ==
  ASSUME SharedInv, Typed', NEW t \in Thread, stack[t] # <<>>, Return(t),
         ~Holds(Top(t)), Top(t).op # "end",
         UNCHANGED <<depth, counter, post, inside, ran, dropped, raised, leaked>>
  PROVE  SharedInv'
<1>1. Well(stack) /\ Top(t) \in FrameSet
  BY TopIs DEF SharedInv
<1>2. /\ Well(stack')
      /\ \A P \in SUBSET FrameSet : N(stack', P) = N(stack, P) - One(Top(t), P)
  BY <1>1, ReturnIs DEF Return, Calls
<1>3. /\ One(Top(t), HoldF) = 0 /\ One(Top(t), OffF) = 0 /\ One(Top(t), BeforeF) = 0
      /\ \A p : One(Top(t), ListF(p)) = 0
  BY <1>1, Kinds DEF HoldsOff
<1>4. \A n \in Nat : n - 0 = n /\ n >= n
  OBVIOUS
<1>5. /\ N(stack', HoldF) = N(stack, HoldF) /\ N(stack', OffF) = N(stack, OffF)
      /\ N(stack', BeforeF) >= N(stack, BeforeF)
      /\ \A p : N(stack', ListF(p)) = N(stack, ListF(p))
  BY <1>2, <1>3, <1>4, Kinds, Naturals
<1> QED
  BY <1>2, <1>5, Quiet

LEMMA QuietNest ==
  ASSUME SharedInv, Typed', NEW t \in Thread, stack[t] # <<>>,
         NEW f \in FrameSet, NEW g \in FrameSet, Nest(t, f, g),
         Top(t).op = "end" => f.op = "end",
         f.op = "end" => f.pc = "batch",
         Holds(f) <=> Holds(Top(t)), HoldsOff(f) <=> HoldsOff(Top(t)),
         Top(t).op = "end" => Top(t).pc = "batch", f.pc # "closing",
         ~Holds(g), g.op # "end",
         UNCHANGED <<depth, counter, post, inside, ran, dropped, raised, leaked>>
  PROVE  SharedInv'
<1>1. Well(stack) /\ Top(t) \in FrameSet
  BY TopIs DEF SharedInv
<1>2. /\ Well(stack')
      /\ \A P \in SUBSET FrameSet :
           N(stack', P) = N(stack, P) - One(Top(t), P) + One(f, P) + One(g, P)
  <2>1. stack' = [stack EXCEPT ![t] = Append(Append(Below(t), f), g)]
    BY DEF Nest, Calls
  <2>2. f.op = "end" => \/ f.pc = "batch"
                        \/ f.pc = "posted" /\ ~Closing(t, Len(stack[t]) - 1)
    OBVIOUS
  <2>3. /\ Well(stack) /\ t \in Thread /\ stack[t] # <<>> /\ f \in FrameSet /\ g \in FrameSet
        /\ (Top(t).op = "end" => f.op = "end") /\ f.pc # "closing"
    BY <1>1
  <2> QED
    BY ONLY <2>1, <2>2, <2>3, NestIs, ZenonT(60)
<1>3. /\ One(f, HoldF) = One(Top(t), HoldF) /\ One(f, HoldF) \in {0, 1}
      /\ One(f, OffF) = One(Top(t), OffF) /\ One(f, OffF) \in {0, 1}
  BY <1>1, Kinds
<1>4. One(f, BeforeF) = 0 /\ One(Top(t), BeforeF) = 0
  BY <1>1, Kinds
<1>5. \A p : One(f, ListF(p)) = 0 /\ One(Top(t), ListF(p)) = 0
  BY <1>1, Kinds
<1>6. /\ One(g, HoldF) = 0 /\ One(g, OffF) = 0 /\ One(g, BeforeF) = 0
      /\ \A p : One(g, ListF(p)) = 0
  BY Kinds DEF HoldsOff
<1>7. \A n \in Nat : \A a \in {0, 1} : n - a + a + 0 = n
  OBVIOUS
<1>8. /\ N(stack', HoldF) = N(stack, HoldF) /\ N(stack', OffF) = N(stack, OffF)
      /\ N(stack', BeforeF) >= N(stack, BeforeF)
      /\ \A p : N(stack', ListF(p)) = N(stack, ListF(p))
  <2>1. N(stack', HoldF) = N(stack, HoldF) /\ N(stack', OffF) = N(stack, OffF)
    BY <1>2, <1>3, <1>6, <1>7, Kinds, Naturals
  <2>2. N(stack', BeforeF) = N(stack, BeforeF)
    BY <1>2, <1>4, <1>6, <1>7, Kinds, Naturals
  <2>3. \A p : N(stack', ListF(p)) = N(stack, ListF(p))
    BY <1>2, <1>5, <1>6, <1>7, Kinds, Naturals
  <2> QED
    BY <2>1, <2>2, <2>3, Naturals
<1> QED
  BY <1>2, <1>8, Quiet

-----------------------------------------------------------------------------
(* The steps of send *)

LEMMA SendGoesOn ==
  ASSUME SharedInv, Typed', NEW t \in Thread, stack[t] # <<>>, Top(t).op = "send",
         NEW pc \in SendPc, NEW list \in Sink \X Nat \X BOOLEAN, GoOn(t, Sending(pc, list)),
         UNCHANGED <<depth, counter, post, inside, ran, dropped, raised, leaked>>
  PROVE  SharedInv'
<1>1. Well(stack) /\ Top(t) \in FrameSet /\ Top(t).pc \in SendPc
  BY TopIs, FrameKinds DEF SharedInv
<1>2. Sending(pc, list) \in FrameSet
  BY MakeFrames
<1>3. /\ Holds(Sending(pc, list)) /\ Holds(Top(t))
      /\ ~HoldsOff(Sending(pc, list)) /\ ~HoldsOff(Top(t))
      /\ Top(t) \notin BeforeF
      /\ Top(t).pc # "posted" /\ Sending(pc, list).pc # "posted"
  BY <1>1 DEF Holds, HoldsOff, Sending, BeforeF, SendPc
<1> QED
  BY <1>2, <1>3, QuietGoOn

LEMMA SendSteps ==
  ASSUME SharedInv, NEW t \in Thread,
         SendMark(t) \/ SendPush(t) \/ SendFire(t) \/ SendFlag(t) \/ SendQueue(t)
  PROVE  SharedInv'
<1> DEFINE s == Top(t).list[1]
           e == Top(t).list[2]
<1>1. Typed /\ Well(stack)
  BY DEF SharedInv
<1>2. stack[t] # <<>> /\ Top(t).op = "send"
  BY DEF SendMark, SendPush, SendFire, SendFlag, SendQueue, Is
<1>3. /\ Top(t) \in FrameSet /\ Top(t).list \in Sink \X Nat \X BOOLEAN
      /\ s \in Sink /\ e \in Nat
      /\ \A pc \in SendPc : [Top(t) EXCEPT !.pc = pc] = Sending(pc, Top(t).list)
  BY <1>1, <1>2, TopIs, FrameKinds, FrameGoesOn
<1>4. CASE SendMark(t)
  <2>1. Typed'
    BY <1>1, <1>4 DEF SendMark, Typed, queues, calls, lost, closures, events
  <2>2. GoOn(t, Sending("push", Top(t).list))
    BY <1>3, <1>4 DEF SendMark, SendPc
  <2> QED
    BY <1>2, <1>3, <1>4, <2>1, <2>2, SendGoesOn
    DEF SendMark, SendPc, queues, calls, lost, closures
<1>5. CASE SendPush(t)
  <2>1. Typed'
    BY <1>1, <1>3, <1>5, AppendProperties DEF SendPush, Typed, calls, lost, closures, events
  <2>2. GoOn(t, Sending("fire", Top(t).list))
    BY <1>3, <1>5 DEF SendPush, SendPc
  <2> QED
    BY <1>2, <1>3, <1>5, <2>1, <2>2, SendGoesOn
    DEF SendPush, SendPc, calls, lost, closures
<1>6. CASE SendFire(t)
  <2>1. Typed'
    BY <1>1, <1>6 DEF SendFire, Typed, queues, calls, lost, closures
  <2>2. <<s, e, firing[s] = 0>> \in Sink \X Nat \X BOOLEAN
    BY <1>3
  <2>3. GoOn(t, Sending("flag", <<s, e, firing[s] = 0>>))
    BY <1>6 DEF SendFire
  <2> QED
    BY <1>2, <1>6, <2>1, <2>2, <2>3, SendGoesOn
    DEF SendFire, SendPc, queues, calls, lost, closures
<1>7. CASE SendFlag(t)
  <2>1. Typed'
    BY <1>1, <1>7 DEF SendFlag, Typed, queues, calls, lost, closures, events
  <2>2. \E pc \in SendPc : GoOn(t, Sending(pc, Top(t).list))
    BY <1>3, <1>7 DEF SendFlag, SendPc
  <2> QED
    BY <1>2, <1>3, <1>7, <2>1, <2>2, SendGoesOn
    DEF SendFlag, queues, calls, lost, closures
<1>8. CASE SendQueue(t)
  <2>1. <<"clear", s>> \in Item
    BY <1>3 DEF Item
  <2>2. Typed'
    BY <1>1, <1>8, <2>1, AppendProperties DEF SendQueue, Typed, calls, lost, closures, events
  <2>3. GoOn(t, Sending("leave", Top(t).list))
    BY <1>3, <1>8 DEF SendQueue, SendPc
  <2> QED
    BY <1>2, <1>3, <1>8, <2>2, <2>3, SendGoesOn
    DEF SendQueue, SendPc, calls, lost, closures
<1> QED
  BY <1>4, <1>5, <1>6, <1>7, <1>8

-----------------------------------------------------------------------------
(* The steps of update_node *)

LEMMA NodeFrame ==
  ASSUME NEW pc \in NodePc, NEW n \in Node
  PROVE  /\ Visit(pc, n) \in FrameSet
         /\ ~Holds(Visit(pc, n)) /\ ~HoldsOff(Visit(pc, n))
         /\ Visit(pc, n).op = "node" /\ Visit(pc, n).pc \notin {"posted", "closing"}
<1>1. Visit(pc, n) \in FrameSet
  BY MakeFrames
<1> QED
  BY <1>1 DEF Visit, Holds, HoldsOff, NodePc

LEMMA NodeSteps ==
  ASSUME SharedInv, NEW t \in Thread, NodeStep(t)
  PROVE  SharedInv'
<1> DEFINE n == Top(t).list
<1>1. Typed /\ Well(stack)
  BY DEF SharedInv
<1>2. stack[t] # <<>> /\ Top(t).op = "node"
  BY DEF NodeStep, NodeSwap, NodeQueue, NodeVisit, NodeAny, NodeRun, NodeSelf, Is
<1>3. /\ Top(t) \in FrameSet /\ Top(t).pc \in NodePc
      /\ n \in Node /\ n[2] \in Sink
      /\ \A pc \in NodePc : [Top(t) EXCEPT !.pc = pc] = Visit(pc, n)
  BY <1>1, <1>2, TopIs, FrameKinds, FrameGoesOn DEF Node
<1>4. /\ ~Holds(Top(t)) /\ ~HoldsOff(Top(t)) /\ Top(t) \notin BeforeF
      /\ Top(t).pc # "posted"
  BY <1>2, <1>3 DEF Holds, HoldsOff, BeforeF, NodePc
<1>5. Visit("swap", SinkNode(n[2])) \in FrameSet /\ SinkNode(n[2]) \in Node
      /\ ListenNode(n[2]) \in Node
  BY <1>3, MakeFrames DEF SinkNode, ListenNode, Node, NodePc
<1>6. ASSUME NEW pc \in NodePc, NEW m \in Node, GoOn(t, Visit(pc, m)), Typed',
             UNCHANGED <<depth, counter, post, inside, ran, dropped, raised, leaked>>
      PROVE  SharedInv'
  BY <1>2, <1>4, <1>6, NodeFrame, QuietGoOn
<1>7. ASSUME Return(t), Typed',
             UNCHANGED <<depth, counter, post, inside, ran, dropped, raised, leaked>>
      PROVE  SharedInv'
  BY <1>2, <1>4, <1>7, QuietReturn
<1>8. CASE NodeSwap(t)
  <2>1. Typed'
    BY <1>1, <1>8 DEF NodeSwap, Typed, queues, calls, lost, closures, events
  <2>2. UNCHANGED <<depth, counter, post, inside, ran, dropped, raised, leaked>>
    BY <1>8 DEF NodeSwap, queues, calls, lost, closures
  <2>3. Return(t) \/ GoOn(t, Visit("queue", n))
    BY <1>8 DEF NodeSwap
  <2> QED
    BY <1>3, <1>6, <1>7, <2>1, <2>2, <2>3 DEF NodePc
<1>9. CASE NodeQueue(t)
  <2>1. <<"unvisit", n>> \in Item
    BY <1>3 DEF Item
  <2>2. Typed'
    BY <1>1, <1>9, <2>1, AppendProperties DEF NodeQueue, Typed, calls, lost, closures, events
  <2>3. UNCHANGED <<depth, counter, post, inside, ran, dropped, raised, leaked>>
    BY <1>9 DEF NodeQueue, calls, lost, closures
  <2>4. GoOn(t, Visit("visit", n)) \/ GoOn(t, Visit("self", n))
    BY <1>9 DEF NodeQueue
  <2> QED
    BY <1>3, <1>6, <2>2, <2>3, <2>4 DEF NodePc
<1>10. CASE NodeVisit(t)
  <2>1. Typed'
    BY <1>1, <1>10 DEF NodeVisit, Typed, queues, calls, lost, closures, events
  <2>2. UNCHANGED <<depth, counter, post, inside, ran, dropped, raised, leaked>>
    BY <1>10 DEF NodeVisit, queues, calls, lost, closures
  <2> DEFINE f == Visit("any", ListenNode(n[2]))
             g == Visit("swap", SinkNode(n[2]))
  <2>3. GoOn(t, f) \/ Nest(t, f, g)
    BY <1>10 DEF NodeVisit
  <2>4. CASE GoOn(t, f)
    BY <1>5, <1>6, <2>1, <2>2, <2>4 DEF NodePc
  <2>5. CASE Nest(t, f, g)
    <3>1. /\ f \in FrameSet /\ ~Holds(f) /\ ~HoldsOff(f) /\ f.op = "node" /\ f.pc # "closing"
          /\ g \in FrameSet /\ ~Holds(g) /\ g.op = "node"
      BY <1>5, NodeFrame DEF NodePc
    <3> HIDE DEF f, g
    <3> QED
      BY <1>2, <1>4, <2>1, <2>2, <2>5, <3>1, QuietNest
  <2> QED
    BY <2>3, <2>4, <2>5
<1>11. CASE NodeAny(t)
  <2>1. Typed'
    BY <1>1, <1>11 DEF NodeAny, Typed, queues, calls, lost, closures, events
  <2>2. UNCHANGED <<depth, counter, post, inside, ran, dropped, raised, leaked>>
    BY <1>11 DEF NodeAny, queues, calls, lost, closures
  <2>3. Return(t) \/ GoOn(t, Visit("run", n))
    BY <1>3, <1>11 DEF NodeAny, NodePc
  <2> QED
    BY <1>3, <1>6, <1>7, <2>1, <2>2, <2>3 DEF NodePc
<1>12. CASE NodeRun(t)
  <2>1. Typed'
    BY <1>1, <1>12 DEF NodeRun, Typed, queues, calls, lost, closures
  <2>2. UNCHANGED <<depth, counter, post, inside, ran, dropped, raised, leaked>>
    BY <1>12 DEF NodeRun, queues, calls, lost, closures
  <2> QED
    BY <1>7, <1>12, <2>1, <2>2 DEF NodeRun
<1>13. CASE NodeSelf(t)
  <2>1. Typed'
    BY <1>1, <1>13 DEF NodeSelf, Typed, queues, calls, lost, closures, events
  <2>2. UNCHANGED <<depth, counter, post, inside, ran, dropped, raised, leaked>>
    BY <1>13 DEF NodeSelf, queues, calls, lost, closures
  <2>3. Return(t) \/ GoOn(t, Visit("swap", ListenNode(n[2])))
    BY <1>13 DEF NodeSelf
  <2> QED
    BY <1>5, <1>6, <1>7, <2>1, <2>2, <2>3 DEF NodePc
<1> QED
  BY <1>8, <1>9, <1>10, <1>11, <1>12, <1>13 DEF NodeStep

-----------------------------------------------------------------------------
(* Transactions *)

LEMMA CountFrame ==
  /\ End("count", <<>>) \in FrameSet
  /\ One(End("count", <<>>), HoldF) = 0 /\ One(End("count", <<>>), OffF) = 0
  /\ One(End("count", <<>>), BeforeF) = 1
  /\ \A p : One(End("count", <<>>), ListF(p)) = 0
<1>1. End("count", <<>>) \in FrameSet
  BY MakeFrames DEF EndPc
<1>2. /\ End("count", <<>>).op = "end" /\ End("count", <<>>).pc = "count"
      /\ ~Holds(End("count", <<>>)) /\ ~HoldsOff(End("count", <<>>))
  BY DEF End, Holds, HoldsOff
<1> HIDE DEF End
<1> QED
  BY <1>1, <1>2, Kinds

(* A call that held the depth leaves: another one still does, or its end   *)
(* is going to take the queue.                                             *)
LEMMA LeaveKeeps ==
  ASSUME SharedInv, Typed', NEW t \in Thread, NEW S, Well(S),
         S = [stack EXCEPT ![t] = S[t]],
         Fits(S[t], End("count", <<>>)), Leave(t, S[t]),
         N(S, HoldF) = N(stack, HoldF) - 1,
         N(S, OffF) = N(stack, OffF), N(S, BeforeF) = N(stack, BeforeF),
         \A p : N(S, ListF(p)) = N(stack, ListF(p)),
         UNCHANGED <<counter, post, inside, ran, dropped, raised, leaked>>
  PROVE  SharedInv'
<1>1. stack \in Stacks
  BY DEF SharedInv, Well
<1>2. /\ depth' = depth - 1 /\ Well(stack')
      /\ \A P \in SUBSET FrameSet :
           N(stack', P) = N(S, P) + (IF depth = 1 THEN One(End("count", <<>>), P) ELSE 0)
  BY <1>1, LeaveIs
<1>3. /\ N(S, HoldF) \in Nat /\ N(S, OffF) \in Nat /\ N(S, BeforeF) \in Nat
      /\ \A p : N(S, ListF(p)) \in Nat
  BY Naturals, Counts, Kinds
<1>4. depth \in Nat /\ raised \in Nat /\ depth = N(S, HoldF) + 1 + raised
  BY <1>3, Naturals DEF SharedInv, Accounts
<1>5. \A n \in Nat : n + 0 = n
  OBVIOUS
<1>6. N(stack', HoldF) = N(S, HoldF) /\ N(stack', OffF) = N(S, OffF)
  BY <1>2, <1>3, <1>5, CountFrame, Kinds
<1>7. \A p : N(stack', ListF(p)) = N(S, ListF(p))
  BY <1>2, <1>3, <1>5, CountFrame, Kinds
<1>8. N(stack', BeforeF) = N(S, BeforeF) + (IF depth = 1 THEN 1 ELSE 0)
  BY <1>2, CountFrame, Kinds
<1>9. Accounts'
  BY <1>2, <1>3, <1>4, <1>6 DEF SharedInv, Accounts
<1>10. Waits'
  <2>1. CASE depth = 1
    BY <1>3, <1>8, <2>1 DEF Waits
  <2>2. CASE depth # 1
    BY <1>2, <1>3, <1>4, <2>2 DEF Waits
  <2> QED
    BY <2>1, <2>2
<1>11. Located'
  BY <1>7 DEF SharedInv, Located
<1> QED
  BY <1>2, <1>9, <1>10, <1>11 DEF SharedInv

LEMMA Leaving ==
  ASSUME SharedInv, Typed', NEW t \in Thread, stack[t] # <<>>, Holds(Top(t)),
         Top(t).op # "end", Leave(t, Below(t)),
         UNCHANGED <<counter, post, inside, ran, dropped, raised, leaked>>
  PROVE  SharedInv'
<1> DEFINE S == Popped(stack, t)
<1>1. Well(stack) /\ Top(t) \in FrameSet /\ S[t] = Below(t) /\ Below(t) = Lower(stack[t])
  BY TopIs DEF SharedInv
<1>2. /\ Well(S)
      /\ \A P \in SUBSET FrameSet : N(S, P) = N(stack, P) - One(Top(t), P)
  BY <1>1, PopWell DEF Top
<1>3. S = [stack EXCEPT ![t] = S[t]]
  BY <1>1 DEF Popped
<1>4. Fits(S[t], End("count", <<>>))
  BY <1>1, FitsBelow, CountFrame DEF End, Top
<1>5. /\ One(Top(t), HoldF) = 1 /\ One(Top(t), OffF) = 0 /\ One(Top(t), BeforeF) = 0
      /\ \A p : One(Top(t), ListF(p)) = 0
  BY <1>1, Kinds DEF HoldsOff
<1>6. \A n \in Nat : n - 0 = n
  OBVIOUS
<1>7. /\ N(S, HoldF) = N(stack, HoldF) - 1
      /\ N(S, OffF) = N(stack, OffF) /\ N(S, BeforeF) = N(stack, BeforeF)
      /\ \A p : N(S, ListF(p)) = N(stack, ListF(p))
  BY <1>2, <1>5, <1>6, Kinds, Naturals
<1>8. Leave(t, S[t])
  BY <1>1
<1> HIDE DEF S
<1> QED
  BY <1>2, <1>3, <1>4, <1>7, <1>8, LeaveKeeps

LEMMA LeaveScopeKeeps ==
  ASSUME SharedInv, NEW t \in Thread, LeaveScope(t) \/ SendLeave(t)
  PROVE  SharedInv'
<1>1. stack[t] # <<>> /\ Leave(t, Below(t)) /\ (Top(t).pc = "open" \/ Top(t).op = "send")
  BY DEF LeaveScope, SendLeave, Is
<1>2. Top(t) \in FrameSet
  BY <1>1, TopIs DEF SharedInv
<1>3. Holds(Top(t)) /\ Top(t).op # "end"
  BY <1>1, <1>2, FrameKinds DEF Holds, EndPc, ListPc, SendPc, NodePc
<1>4. Typed'
  BY DEF SharedInv, Typed, LeaveScope, SendLeave, queues, calls, closures, events, lost
<1>5. UNCHANGED <<counter, post, inside, ran, dropped, raised, leaked>>
  BY DEF LeaveScope, SendLeave, queues, calls, closures, lost
<1> QED
  BY <1>1, <1>3, <1>4, <1>5, Leaving

LEMMA CloseKeeps ==
  ASSUME SharedInv, NEW t \in Thread, Close(t)
  PROVE  SharedInv'
<1> DEFINE f == [op |-> "object", pc |-> "closing", list |-> <<>>]
           S == [stack EXCEPT ![t] = Append(Below(t), f)]
<1>1. stack[t] # <<>> /\ Top(t).op = "object" /\ Top(t).pc = "open"
  BY DEF Close, Is
<1>2. /\ Well(stack) /\ Top(t) \in FrameSet /\ Below(t) = Lower(stack[t])
      /\ stack \in Stacks /\ Len(stack[t]) \in Nat \ {0}
      /\ Len(Lower(stack[t])) = Len(stack[t]) - 1
      /\ \A i \in 1 .. Len(stack[t]) - 1 : Lower(stack[t])[i] = stack[t][i]
  BY <1>1, TopIs DEF SharedInv
<1>3. f \in FrameSet /\ [Top(t) EXCEPT !.pc = "closing"] = f
  BY <1>1, <1>2, MakeFrames, FrameGoesOn
<1>4. /\ Well(S)
      /\ \A P \in SUBSET FrameSet : N(S, P) = N(stack, P) - One(Top(t), P) + One(f, P)
  <2> HIDE DEF f
  <2>1. S = [stack EXCEPT ![t] = Append(Below(t), f)] /\ f \in FrameSet
    BY <1>3
  <2>2. Top(t).op # "end"
    BY <1>1
  <2> HIDE DEF S
  <2>3. Well(stack) /\ t \in Thread /\ stack[t] # <<>>
    BY <1>1, <1>2
  <2> QED
    BY ONLY <2>1, <2>2, <2>3, GoOnIs
<1>5. S[t] = Append(Lower(stack[t]), f)
  BY <1>2 DEF Stacks
<1>6. Fits(S[t], End("count", <<>>))
  <2> DEFINE n == Len(stack[t])
  <2>1. Lower(stack[t]) \in Seq(FrameSet)
    BY <1>1, <1>2, LowerSeq DEF Stacks
  <2>2. /\ Len(S[t]) = n /\ S[t][n] = f
        /\ \A i \in 1 .. n - 1 : S[t][i] = stack[t][i]
    BY <1>2, <1>5, <2>1, AppendProperties
  <2>3. ~(n > 1 /\ S[t][n - 1].pc = "closing")
    <3>1. ASSUME n > 1
          PROVE  stack[t][n - 1].pc # "closing" /\ S[t][n - 1] = stack[t][n - 1]
      <4>1. n - 1 \in 1 .. n - 1 /\ n - 1 + 1 = n
        BY <1>2, <3>1
      <4>2. Shape(stack[t])
        BY <1>2 DEF Well
      <4> QED
        BY <1>1, <2>2, <4>1, <4>2 DEF Shape, Top
    <3> QED
      BY <3>1
  <2> QED
    BY <2>2, <2>3 DEF Fits, End
<1>7. /\ One(Top(t), HoldF) = 1 /\ One(Top(t), OffF) = 0 /\ One(Top(t), BeforeF) = 0
      /\ \A p : One(Top(t), ListF(p)) = 0
  BY <1>1, <1>2, Kinds DEF HoldsOff, Holds
<1>8. /\ One(f, HoldF) = 0 /\ One(f, OffF) = 0 /\ One(f, BeforeF) = 0
      /\ \A p : One(f, ListF(p)) = 0
  BY <1>3, Kinds DEF HoldsOff, Holds
<1>9. \A n \in Nat : n - 0 + 0 = n /\ n - 1 + 0 = n - 1
  OBVIOUS
<1> HIDE DEF f, S
<1>10. /\ N(S, HoldF) = N(stack, HoldF) - 1
       /\ N(S, OffF) = N(stack, OffF) /\ N(S, BeforeF) = N(stack, BeforeF)
       /\ \A p : N(S, ListF(p)) = N(stack, ListF(p))
  BY <1>4, <1>7, <1>8, <1>9, Kinds, Naturals
<1>11. S = [stack EXCEPT ![t] = S[t]] /\ Leave(t, S[t])
  BY <1>2, <1>3, <1>5 DEF S, Close
<1>12. Typed'
  BY DEF SharedInv, Typed, Close, queues, calls, closures, events, lost
<1>13. UNCHANGED <<counter, post, inside, ran, dropped, raised, leaked>>
  BY DEF Close, queues, calls, closures, lost
<1> QED
  BY <1>4, <1>6, <1>10, <1>11, <1>12, <1>13, LeaveKeeps

LEMMA EnterKeeps ==
  ASSUME SharedInv, NEW t \in Thread,
         \/ Enter(t, "closure") \/ Enter(t, "object")
         \/ \E s \in Sink : SendBegin(t, s)
  PROVE  SharedInv'
<1>1. PICK f \in FrameSet :
        /\ Holds(f) /\ f.op # "end"
        /\ Runs(t) /\ depth' = depth + 1 /\ Calls(t, Append(stack[t], f))
  <2>1. CASE Enter(t, "closure") \/ Enter(t, "object")
    <3>1. PICK how \in {"closure", "object"} : Enter(t, how)
      BY <2>1
    <3>2. Open(how) \in FrameSet /\ Holds(Open(how)) /\ Open(how).op # "end"
      BY MakeFrames DEF Open, Holds
    <3> QED
      BY <3>1, <3>2 DEF Enter
  <2>2. CASE \E s \in Sink : SendBegin(t, s)
    <3>1. PICK s \in Sink : SendBegin(t, s)
      BY <2>2
    <3> DEFINE f == Sending("mark", <<s, sends + 1, FALSE>>)
    <3>2. sends + 1 \in Nat
      BY DEF SharedInv, Typed
    <3>3. f \in FrameSet
      BY <3>2, MakeFrames DEF SendPc
    <3>4. Holds(f) /\ f.op # "end"
      BY DEF Sending, Holds
    <3> QED
      BY <3>1, <3>3, <3>4 DEF SendBegin
  <2> QED
    BY <2>1, <2>2
<1>2. Well(stack) /\ stack' = [stack EXCEPT ![t] = Append(stack[t], f)]
  BY <1>1 DEF SharedInv, Calls
<1>3. /\ Well(stack')
      /\ \A P \in SUBSET FrameSet : N(stack', P) = N(stack, P) + One(f, P)
  BY <1>1, <1>2, CallIs
<1>4. UNCHANGED <<counter, post, inside, ran, dropped, raised, leaked>>
  BY DEF Enter, SendBegin, queues, closures, lost
<1>5. Typed'
  <2>1. UNCHANGED <<changedNodes, prePost, post, ran, posts, inside, raised, leaked>>
    BY DEF Enter, SendBegin, queues, closures, lost
  <2>2. sends' = sends \/ sends' = sends + 1
    BY DEF Enter, SendBegin
  <2> QED
    BY <2>1, <2>2 DEF SharedInv, Typed
<1>6. /\ One(f, HoldF) = 1 /\ One(f, OffF) = 0
      /\ \A p : One(f, ListF(p)) = 0
  BY <1>1, Kinds DEF HoldsOff
<1>7. /\ N(stack', HoldF) = N(stack, HoldF) + 1
      /\ N(stack', OffF) = N(stack, OffF)
      /\ \A p : N(stack', ListF(p)) = N(stack, ListF(p))
  <2>1. \A n \in Nat : n + 0 = n
    OBVIOUS
  <2> QED
    BY <1>3, <1>6, <2>1, Kinds, Naturals
<1>8. Accounts'
  <2>1. \A h, r \in Nat : h + r + 1 = h + 1 + r
    OBVIOUS
  <2> QED
    BY <1>1, <1>4, <1>7, <2>1, Naturals DEF SharedInv, Accounts
<1>9. Waits'
  BY <1>1, Naturals DEF Waits
<1>10. Located'
  BY <1>4, <1>7 DEF SharedInv, Located
<1> QED
  BY <1>3, <1>5, <1>8, <1>9, <1>10 DEF SharedInv

LEMMA ClosedKeeps ==
  ASSUME SharedInv, NEW t \in Thread, Closed(t)
  PROVE  SharedInv'
<1>1. stack[t] # <<>> /\ Top(t).op = "object" /\ Top(t).pc = "closing" /\ Return(t)
  BY DEF Closed, Is
<1>2. ~Holds(Top(t)) /\ Top(t).op # "end"
  BY <1>1 DEF Holds
<1>3. Typed'
  BY DEF SharedInv, Typed, Closed, queues, calls, closures, events, lost
<1>4. UNCHANGED <<depth, counter, post, inside, ran, dropped, raised, leaked>>
  BY DEF Closed, queues, calls, closures, lost
<1> QED
  BY <1>1, <1>2, <1>3, <1>4, QuietReturn

(* Whoever posts in a transaction holds the depth.                         *)
LEMMA PostKeeps ==
  ASSUME SharedInv, NEW t \in Thread, Post(t)
  PROVE  SharedInv'
<1> DEFINE p == posts + 1
<1>1. /\ Typed /\ Well(stack) /\ stack' = stack /\ depth' = depth
      /\ p \in Nat /\ p \notin inside
  BY DEF SharedInv, Typed, Post
<1>2. /\ post' = Append(post, p) /\ posts' = p
      /\ inside' = IF stack[t] = <<>> THEN inside ELSE inside \cup {p}
      /\ UNCHANGED <<depth, counter, changedNodes, prePost, sends, ran, dropped, raised, leaked>>
  BY DEF Post, closures, lost
<1> HIDE DEF p
<1>3. Elements(post') = Elements(post) \cup {p}
  BY <1>1, <1>2, ElementsOf, SMTT(30) DEF Typed
<1>4. Typed'
  <2>1. Append(post, p) \in Seq(Nat)
    BY <1>1, AppendProperties DEF Typed
  <2>2. inside' \subseteq 1 .. p
    <3>1. inside \subseteq 1 .. p /\ p \in 1 .. p
      BY <1>1 DEF Typed, p
    <3> QED
      BY <1>2, <3>1
  <2> QED
    BY <1>1, <1>2, <2>1, <2>2 DEF Typed
<1>5. Accounts'
  BY <1>1, <1>2 DEF SharedInv, Accounts
<1>6. Waits'
  <2>1. CASE stack[t] = <<>>
    <3>1. inside' \cap Elements(post') = inside \cap Elements(post)
      BY <1>1, <1>2, <1>3, <2>1
    <3> QED
      BY <1>1, <3>1 DEF SharedInv, Waits
  <2>2. CASE stack[t] # <<>>
    <3>1. /\ Top(t) \in FrameSet /\ Top(t).pc = "open" /\ stack \in Stacks
          /\ Len(stack[t]) \in 1 .. Len(stack[t])
      BY <1>1, <2>2, TopIs DEF Post, Runs
    <3>2. Holds(Top(t))
      BY <3>1, FrameKinds DEF Holds, EndPc, ListPc, SendPc, NodePc
    <3>3. <<t, Len(stack[t])>> \in On(stack, HoldF)
      BY <3>1, <3>2, OnIs DEF HoldF, Top
    <3>4. N(stack, HoldF) # 0
      BY <1>1, <3>3, Counts, Kinds, FS_EmptySet DEF N
    <3>5. depth > 0
      BY <3>4, Naturals DEF SharedInv, Accounts
    <3> QED
      BY <1>1, <3>5 DEF Waits
  <2> QED
    BY <2>1, <2>2
<1>7. Located'
  BY <1>1, <1>2, <1>3 DEF SharedInv, Located
<1> QED
  BY <1>1, <1>4, <1>5, <1>6, <1>7 DEF SharedInv

-----------------------------------------------------------------------------
(* The steps of end_of_transaction *)

(* An end that goes on, and moves the counts as its frames do.             *)
LEMMA EndGoesOn ==
  ASSUME SharedInv, NEW t \in Thread, stack[t] # <<>>, Top(t).op = "end",
         NEW f \in FrameSet, f.op = "end", GoOn(t, f),
         depth' = depth - One(Top(t), HoldF) + One(f, HoldF),
         counter' = counter - One(Top(t), OffF) + One(f, OffF),
         UNCHANGED <<raised, leaked>>
  PROVE  /\ Well(stack') /\ Accounts'
         /\ \A P \in SUBSET FrameSet : N(stack', P) = N(stack, P) - One(Top(t), P) + One(f, P)
<1>1. Well(stack) /\ Top(t) \in FrameSet
  BY TopIs DEF SharedInv
<1>2. /\ Well(stack')
      /\ \A P \in SUBSET FrameSet : N(stack', P) = N(stack, P) - One(Top(t), P) + One(f, P)
  BY <1>1, GoOnIs DEF GoOn, Calls
<1>3. \A h, r \in Nat : \A a, b \in {0, 1} : h + r - a + b = h - a + b + r
  OBVIOUS
<1>4. \A g, P : One(g, P) \in {0, 1}
  BY DEF One
<1>5. depth' = N(stack', HoldF) + raised
  <2> DEFINE a == One(Top(t), HoldF)
             b == One(f, HoldF)
             h == N(stack, HoldF)
  <2>1. N(stack', HoldF) = h - a + b /\ depth' = depth - a + b /\ depth = h + raised
    BY <1>2, Kinds DEF SharedInv, Accounts
  <2>2. h \in Nat /\ raised \in Nat /\ a \in {0, 1} /\ b \in {0, 1}
    BY <1>4, Naturals
  <2> HIDE DEF a, b, h
  <2> QED
    BY <1>3, <2>1, <2>2
<1>6. counter' = N(stack', OffF) + leaked
  <2> DEFINE a == One(Top(t), OffF)
             b == One(f, OffF)
             h == N(stack, OffF)
  <2>1. N(stack', OffF) = h - a + b /\ counter' = counter - a + b /\ counter = h + leaked
    BY <1>2, Kinds DEF SharedInv, Accounts
  <2>2. h \in Nat /\ leaked \in Nat /\ a \in {0, 1} /\ b \in {0, 1}
    BY <1>4, Naturals
  <2> HIDE DEF a, b, h
  <2> QED
    BY <1>3, <2>1, <2>2
<1> QED
  BY <1>2, <1>5, <1>6 DEF Accounts

LEMMA EndTop ==
  ASSUME SharedInv, NEW t \in Thread, stack[t] # <<>>, Top(t).op = "end"
  PROVE  /\ Top(t).pc \in EndPc \cup ListPc
         /\ Top(t).pc = "batch" => Top(t).list \in Seq(Sink)
         /\ Top(t).pc = "clear" => Top(t).list \in Seq(Item)
         /\ Top(t).pc = "posted" => Top(t).list \in Seq(Nat)
         /\ One(Top(t), HoldF) = IF Top(t).pc \in {"take", "batch", "uncount"} THEN 1 ELSE 0
         /\ One(Top(t), OffF) = IF Top(t).pc # "count" THEN 1 ELSE 0
         /\ One(Top(t), BeforeF) =
              IF Top(t).pc \in {"count", "pre_post", "clear", "post"} THEN 1 ELSE 0
         /\ \A p : One(Top(t), ListF(p)) =
              IF Top(t).pc = "posted" /\ p \in Elements(Top(t).list) THEN 1 ELSE 0
<1>1. Top(t) \in FrameSet
  BY TopIs DEF SharedInv
<1>2. /\ Holds(Top(t)) <=> Top(t).pc \in {"take", "batch", "uncount"}
      /\ HoldsOff(Top(t)) <=> Top(t).pc # "count"
  BY DEF Holds, HoldsOff
<1>3. /\ Top(t).pc \in EndPc \cup ListPc
      /\ Top(t).pc = "batch" => Top(t).list \in Seq(Sink)
      /\ Top(t).pc = "clear" => Top(t).list \in Seq(Item)
      /\ Top(t).pc = "posted" => Top(t).list \in Seq(Nat)
  BY <1>1, FrameKinds
<1>4. /\ One(Top(t), HoldF) = IF Top(t).pc \in {"take", "batch", "uncount"} THEN 1 ELSE 0
      /\ One(Top(t), OffF) = IF Top(t).pc # "count" THEN 1 ELSE 0
      /\ One(Top(t), BeforeF) =
              IF Top(t).pc \in {"count", "pre_post", "clear", "post"} THEN 1 ELSE 0
  BY <1>1, <1>2, Kinds
<1>5. \A p : One(Top(t), ListF(p)) =
              IF Top(t).pc = "posted" /\ p \in Elements(Top(t).list) THEN 1 ELSE 0
  BY <1>1, Kinds
<1> QED
  BY <1>3, <1>4, <1>5

LEMMA EndCountKeeps ==
  ASSUME SharedInv, NEW t \in Thread, EndCount(t)
  PROVE  SharedInv'
<1> DEFINE f == End("take", <<>>)
<1>1. stack[t] # <<>> /\ Top(t).op = "end" /\ Top(t).pc = "count" /\ GoOn(t, f)
      /\ depth' = depth + 1 /\ counter' = counter + 1
  BY DEF EndCount, Is
<1>2. f \in FrameSet
  BY MakeFrames DEF EndPc
<1>3. /\ f.op = "end" /\ One(f, HoldF) = 1 /\ One(f, OffF) = 1
      /\ \A p : One(f, ListF(p)) = 0
  <2>1. f.op = "end" /\ f.pc = "take"
    BY DEF End
  <2> HIDE DEF f
  <2>2. Holds(f) /\ HoldsOff(f)
    BY <2>1 DEF Holds, HoldsOff
  <2> QED
    BY <1>2, <2>1, <2>2, Kinds
<1> HIDE DEF f
<1>4. /\ One(Top(t), HoldF) = 0 /\ One(Top(t), OffF) = 0
      /\ \A p : One(Top(t), ListF(p)) = 0
  BY <1>1, EndTop
<1>5. UNCHANGED <<post, inside, ran, dropped, raised, leaked>>
  BY DEF EndCount, queues, calls, closures, lost
<1>6. Typed'
  BY DEF SharedInv, Typed, EndCount, queues, calls, closures, events, lost
<1>7. depth' = depth - 0 + 1 /\ counter' = counter - 0 + 1
  BY <1>1, Naturals
<1>8. /\ Well(stack') /\ Accounts'
      /\ \A P \in SUBSET FrameSet : N(stack', P) = N(stack, P) - One(Top(t), P) + One(f, P)
  BY <1>1, <1>2, <1>3, <1>4, <1>5, <1>7, EndGoesOn
<1>9. \A p : N(stack', ListF(p)) = N(stack, ListF(p))
  <2>1. \A n \in Nat : n - 0 + 0 = n
    OBVIOUS
  <2> QED
    BY <1>3, <1>4, <1>8, <2>1, Kinds, Naturals
<1>10. Waits'
  BY <1>1, Naturals DEF Waits
<1>11. Located'
  BY <1>5, <1>9 DEF SharedInv, Located
<1> QED
  BY <1>6, <1>8, <1>10, <1>11 DEF SharedInv

(* The depth that an end gives back may be the last: it is still going to  *)
(* take the queue.                                                         *)
LEMMA EndUncountKeeps ==
  ASSUME SharedInv, NEW t \in Thread, EndUncount(t)
  PROVE  SharedInv'
<1> DEFINE f == End("pre_post", <<>>)
<1>1. stack[t] # <<>> /\ Top(t).op = "end" /\ Top(t).pc = "uncount" /\ GoOn(t, f)
      /\ depth' = depth - 1 /\ counter' = counter
  BY DEF EndUncount, Is
<1>2. f \in FrameSet
  BY MakeFrames DEF EndPc
<1>3. /\ f.op = "end" /\ One(f, HoldF) = 0 /\ One(f, OffF) = 1 /\ One(f, BeforeF) = 1
      /\ \A p : One(f, ListF(p)) = 0
  <2>1. f.op = "end" /\ f.pc = "pre_post"
    BY DEF End
  <2> HIDE DEF f
  <2>2. ~Holds(f) /\ HoldsOff(f)
    BY <2>1 DEF Holds, HoldsOff
  <2> QED
    BY <1>2, <2>1, <2>2, Kinds
<1> HIDE DEF f
<1>4. /\ One(Top(t), HoldF) = 1 /\ One(Top(t), OffF) = 1 /\ One(Top(t), BeforeF) = 0
      /\ \A p : One(Top(t), ListF(p)) = 0
  BY <1>1, EndTop
<1>5. UNCHANGED <<post, inside, ran, dropped, raised, leaked>>
  BY DEF EndUncount, queues, calls, closures, lost
<1>6. Typed'
  BY DEF SharedInv, Typed, EndUncount, queues, calls, closures, events, lost
<1>7. depth' = depth - 1 + 0 /\ counter' = counter - 1 + 1
  BY <1>1, Naturals
<1>8. /\ Well(stack') /\ Accounts'
      /\ \A P \in SUBSET FrameSet : N(stack', P) = N(stack, P) - One(Top(t), P) + One(f, P)
  BY <1>1, <1>2, <1>3, <1>4, <1>5, <1>7, EndGoesOn
<1>9. \A p : N(stack', ListF(p)) = N(stack, ListF(p))
  <2>1. \A n \in Nat : n - 0 + 0 = n
    OBVIOUS
  <2> QED
    BY <1>3, <1>4, <1>8, <2>1, Kinds, Naturals
<1>10. Waits'
  <2>1. N(stack', BeforeF) = N(stack, BeforeF) - 0 + 1
    BY <1>3, <1>4, <1>8, Kinds
  <2>2. N(stack', BeforeF) > 0
    BY <2>1, Naturals
  <2> QED
    BY <2>2 DEF Waits
<1>11. Located'
  BY <1>5, <1>9 DEF SharedInv, Located
<1> QED
  BY <1>6, <1>8, <1>10, <1>11 DEF SharedInv

LEMMA EndQuiet ==
  ASSUME SharedInv, Typed', NEW t \in Thread, stack[t] # <<>>, Top(t).op = "end",
         NEW pc \in EndPc \cup ListPc, NEW list, End(pc, list) \in FrameSet,
         GoOn(t, End(pc, list)),
         \/ Top(t).pc \in {"take", "batch"} /\ pc \in {"take", "batch", "uncount"}
         \/ Top(t).pc \in {"pre_post", "clear"} /\ pc \in {"clear", "post"},
         UNCHANGED <<depth, counter, post, inside, ran, dropped, raised, leaked>>
  PROVE  SharedInv'
<1> DEFINE f == End(pc, list)
<1>1. f.op = "end" /\ f.pc = pc /\ f \in FrameSet /\ GoOn(t, f)
  BY DEF End
<1> HIDE DEF f
<1>2. /\ Holds(f) <=> Holds(Top(t))
      /\ HoldsOff(f) <=> HoldsOff(Top(t))
  BY <1>1 DEF Holds, HoldsOff
<1>3. /\ Top(t) \in BeforeF => f \in BeforeF
      /\ Top(t).pc # "posted" /\ f.pc # "posted"
  BY <1>1 DEF BeforeF
<1> QED
  BY <1>1, <1>2, <1>3, QuietGoOn

LEMMA EndQuietSteps ==
  ASSUME SharedInv, NEW t \in Thread,
         EndTake(t) \/ EndBatch(t) \/ EndPrePost(t) \/ EndClear(t)
  PROVE  SharedInv'
<1> DEFINE l == Top(t).list
<1>1. Typed /\ Well(stack) /\ stack[t] # <<>> /\ Top(t).op = "end"
  BY DEF SharedInv, EndTake, EndBatch, EndPrePost, EndClear, Is
<1>2. UNCHANGED <<depth, counter, post, inside, ran, dropped, raised, leaked>>
  BY DEF EndTake, EndBatch, EndPrePost, EndClear, queues, calls, closures, lost
<1>3. <<>> \in Seq(Sink) /\ <<>> \in Seq(Item)
  BY EmptySeq
<1>4. Typed'
  BY <1>1, <1>3 DEF Typed, EndTake, EndBatch, EndPrePost, EndClear, queues, calls, closures, lost
<1>5. /\ \A pc \in EndPc : End(pc, <<>>) \in FrameSet
      /\ \A list \in Seq(Sink) : End("batch", list) \in FrameSet
      /\ \A list \in Seq(Item) : End("clear", list) \in FrameSet
  BY MakeFrames
<1>6. ASSUME NEW pc \in EndPc \cup ListPc, NEW list, End(pc, list) \in FrameSet,
             GoOn(t, End(pc, list)),
             \/ Top(t).pc \in {"take", "batch"} /\ pc \in {"take", "batch", "uncount"}
             \/ Top(t).pc \in {"pre_post", "clear"} /\ pc \in {"clear", "post"}
      PROVE  SharedInv'
  BY <1>1, <1>2, <1>4, <1>6, EndQuiet
<1>7. CASE EndTake(t)
  <2>1. Top(t).pc = "take" /\ changedNodes \in Seq(Sink)
    BY <1>1, <1>7 DEF EndTake, Is, Typed
  <2>2. \/ GoOn(t, End("uncount", <<>>)) \/ GoOn(t, End("batch", changedNodes))
    BY <1>7 DEF EndTake
  <2> QED
    BY <1>5, <1>6, <2>1, <2>2 DEF EndPc, ListPc
<1>8. CASE EndBatch(t)
  <2>1. Top(t).pc = "batch" /\ l \in Seq(Sink)
    BY <1>1, <1>8, EndTop DEF EndBatch, Is
  <2>2. CASE l = <<>>
    <3>1. GoOn(t, End("take", <<>>))
      BY <1>8, <2>2 DEF EndBatch
    <3> QED
      BY <1>5, <1>6, <2>1, <3>1 DEF EndPc, ListPc
  <2>3. CASE l # <<>>
    <3> DEFINE f == End("batch", Tail(l))
               g == Visit("swap", SinkNode(Head(l)))
    <3>1. Head(l) \in Sink /\ Tail(l) \in Seq(Sink)
      BY <2>1, <2>3, HeadTailProperties
    <3>2. Nest(t, f, g)
      BY <1>8, <2>3 DEF EndBatch
    <3>3. f \in FrameSet /\ f.op = "end" /\ f.pc = "batch"
      BY <1>5, <3>1 DEF End
    <3>4. g \in FrameSet /\ ~Holds(g) /\ g.op = "node"
      <4>1. SinkNode(Head(l)) \in Node
        BY <3>1 DEF SinkNode, Node
      <4> QED
        BY <4>1, NodeFrame DEF NodePc
    <3> HIDE DEF f, g
    <3>5. /\ Holds(f) <=> Holds(Top(t))
          /\ HoldsOff(f) <=> HoldsOff(Top(t))
      BY <1>1, <2>1, <3>3 DEF Holds, HoldsOff
    <3> QED
      BY <1>1, <1>2, <1>4, <2>1, <3>2, <3>3, <3>4, <3>5, QuietNest
  <2> QED
    BY <2>2, <2>3
<1>9. CASE EndPrePost(t)
  <2>1. Top(t).pc = "pre_post" /\ prePost \in Seq(Item) /\ GoOn(t, End("clear", prePost))
    BY <1>1, <1>9 DEF EndPrePost, Is, Typed
  <2> QED
    BY <1>5, <1>6, <2>1 DEF ListPc
<1>10. CASE EndClear(t)
  <2>1. Top(t).pc = "clear" /\ l \in Seq(Item)
    BY <1>1, <1>10, EndTop DEF EndClear, Is
  <2>2. CASE l = <<>>
    <3>1. GoOn(t, End("post", <<>>))
      BY <1>10, <2>2 DEF EndClear
    <3> QED
      BY <1>5, <1>6, <2>1, <3>1 DEF EndPc
  <2>3. CASE l # <<>>
    <3>1. Tail(l) \in Seq(Item) /\ GoOn(t, End("clear", Tail(l)))
      BY <1>10, <2>1, <2>3, HeadTailProperties DEF EndClear
    <3> QED
      BY <1>5, <1>6, <2>1, <3>1 DEF ListPc
  <2> QED
    BY <2>2, <2>3
<1> QED
  BY <1>7, <1>8, <1>9, <1>10

(* The closures that were queued are in the list of the end.               *)
LEMMA EndPostKeeps ==
  ASSUME SharedInv, NEW t \in Thread, EndPost(t)
  PROVE  SharedInv'
<1> DEFINE f == End("posted", post)
<1>1. stack[t] # <<>> /\ Top(t).op = "end" /\ Top(t).pc = "post" /\ GoOn(t, f)
      /\ post' = <<>> /\ post \in Seq(Nat)
  BY DEF SharedInv, Typed, EndPost, Is
<1>2. f \in FrameSet
  BY <1>1, MakeFrames
<1>3. /\ f.op = "end" /\ One(f, HoldF) = 0 /\ One(f, OffF) = 1
      /\ \A p : One(f, ListF(p)) = IF p \in Elements(post) THEN 1 ELSE 0
  <2>1. f.op = "end" /\ f.pc = "posted" /\ f.list = post
    BY DEF End
  <2> HIDE DEF f
  <2>2. ~Holds(f) /\ HoldsOff(f)
    BY <2>1 DEF Holds, HoldsOff
  <2> QED
    BY <1>2, <2>1, <2>2, Kinds
<1> HIDE DEF f
<1>4. /\ One(Top(t), HoldF) = 0 /\ One(Top(t), OffF) = 1
      /\ \A p : One(Top(t), ListF(p)) = 0
  BY <1>1, EndTop
<1>5. UNCHANGED <<depth, counter, inside, ran, dropped, raised, leaked>>
  BY DEF EndPost, calls, closures, lost
<1>6. Typed'
  <2>1. <<>> \in Seq(Nat)
    BY EmptySeq
  <2> QED
    BY <2>1 DEF SharedInv, Typed, EndPost, calls, closures, events, lost
<1>7. depth' = depth - 0 + 0 /\ counter' = counter - 1 + 1
  BY <1>5, Naturals
<1>8. /\ Well(stack') /\ Accounts'
      /\ \A P \in SUBSET FrameSet : N(stack', P) = N(stack, P) - One(Top(t), P) + One(f, P)
  BY <1>1, <1>2, <1>3, <1>4, <1>5, <1>7, EndGoesOn
<1>9. \A p : /\ N(stack, ListF(p)) > 0 => N(stack', ListF(p)) > 0
             /\ p \in Elements(post) => N(stack', ListF(p)) > 0
  <2>1. \A n \in Nat : (n > 0 => n - 0 + 0 > 0 /\ n - 0 + 1 > 0) /\ n - 0 + 1 > 0
    OBVIOUS
  <2>2. \A p : N(stack, ListF(p)) \in Nat
    BY Naturals
  <2>3. \A p : N(stack', ListF(p)) =
                 N(stack, ListF(p)) - 0 + (IF p \in Elements(post) THEN 1 ELSE 0)
    BY <1>3, <1>4, <1>8, Kinds
  <2> QED
    BY <2>1, <2>2, <2>3
<1>10. Waits'
  <2>1. Elements(post') = {}
    BY <1>1 DEF Elements
  <2> QED
    BY <2>1 DEF Waits
<1>11. Located'
  BY <1>5, <1>9 DEF SharedInv, Located
<1> QED
  BY <1>6, <1>8, <1>10, <1>11 DEF SharedInv

(* The head of a list has run, or panics: what is left of the list counts  *)
(* for the rest of it.                                                     *)
LEMMA RunPosted ==
  ASSUME SharedInv, NEW list \in Seq(Nat), list # <<>>,
         ran' = Append(ran, Head(list)),
         \A p : N(stack', ListF(p)) =
                  N(stack, ListF(p)) - (IF p \in Elements(list) THEN 1 ELSE 0)
                                     + (IF p \in Elements(Tail(list)) THEN 1 ELSE 0),
         UNCHANGED <<post, inside, dropped>>
  PROVE  Located'
<1>1. /\ Head(list) \in Nat /\ Elements(list) = Elements(Tail(list)) \cup {Head(list)}
  <2> PICK a \in Nat : a = 0
    OBVIOUS
  <2> QED
    BY ElementsOf
<1>2. ran \in Seq(Nat)
  BY DEF SharedInv, Typed
<1>3. Elements(ran') = Elements(ran) \cup {Head(list)}
  BY <1>1, <1>2, ElementsOf
<1>4. ASSUME NEW p \in inside, N(stack, ListF(p)) > 0, p # Head(list)
      PROVE  N(stack', ListF(p)) > 0
  <2>1. \A n \in Nat : n > 0 => n - 0 + 0 > 0 /\ n - 1 + 1 > 0
    OBVIOUS
  <2>2. N(stack, ListF(p)) \in Nat
    BY Naturals
  <2>3. p \in Elements(list) <=> p \in Elements(Tail(list))
    BY <1>1, <1>4
  <2> QED
    BY <1>4, <2>1, <2>2, <2>3
<1> QED
  BY <1>3, <1>4 DEF SharedInv, Located

LEMMA EndPostedKeeps ==
  ASSUME SharedInv, NEW t \in Thread, EndPosted(t)
  PROVE  SharedInv'
<1> DEFINE l == Top(t).list
<1>1. stack[t] # <<>> /\ Top(t).op = "end" /\ Top(t).pc = "posted"
  BY DEF EndPosted, Is
<1>2. /\ l \in Seq(Nat)
      /\ One(Top(t), HoldF) = 0 /\ One(Top(t), OffF) = 1 /\ One(Top(t), BeforeF) = 0
      /\ \A p : One(Top(t), ListF(p)) = IF p \in Elements(l) THEN 1 ELSE 0
  BY <1>1, EndTop
<1>3. UNCHANGED <<depth, counter, post, inside, dropped, raised, leaked>>
  BY DEF EndPosted, queues, calls, lost
<1>4. PICK f \in FrameSet :
        /\ GoOn(t, f) /\ f.op = "end"
        /\ One(f, HoldF) = 0 /\ One(f, OffF) = 1 /\ One(f, BeforeF) = 0
        /\ \/ /\ l = <<>> /\ ran' = ran
              /\ \A p : One(f, ListF(p)) = 0
           \/ /\ l # <<>> /\ ran' = Append(ran, Head(l)) /\ Head(l) \in Nat
              /\ \A p : One(f, ListF(p)) = IF p \in Elements(Tail(l)) THEN 1 ELSE 0
  <2>1. CASE l = <<>>
    <3> DEFINE f == End("release", <<>>)
    <3>1. f \in FrameSet /\ f.op = "end" /\ f.pc = "release"
      BY MakeFrames DEF EndPc, End
    <3>2. GoOn(t, f) /\ ran' = ran
      BY <2>1 DEF EndPosted
    <3> HIDE DEF f
    <3>3. ~Holds(f) /\ HoldsOff(f)
      BY <3>1 DEF Holds, HoldsOff
    <3> QED
      BY <2>1, <3>1, <3>2, <3>3, Kinds
  <2>2. CASE l # <<>>
    <3> DEFINE f == End("posted", Tail(l))
    <3>1. Head(l) \in Nat /\ Tail(l) \in Seq(Nat)
      BY <1>2, <2>2, HeadTailProperties
    <3>2. f \in FrameSet /\ f.op = "end" /\ f.pc = "posted" /\ f.list = Tail(l)
      BY <3>1, MakeFrames DEF End
    <3>3. GoOn(t, f) /\ ran' = Append(ran, Head(l))
      BY <2>2 DEF EndPosted
    <3> HIDE DEF f
    <3>4. ~Holds(f) /\ HoldsOff(f)
      BY <3>2 DEF Holds, HoldsOff
    <3>5. /\ One(f, HoldF) = 0 /\ One(f, OffF) = 1 /\ One(f, BeforeF) = 0
          /\ \A p : One(f, ListF(p)) = IF p \in Elements(Tail(l)) THEN 1 ELSE 0
      BY <3>2, <3>4, Kinds
    <3> QED
      BY <2>2, <3>1, <3>2, <3>3, <3>5
  <2> QED
    BY <2>1, <2>2
<1>5. Typed'
  <2>1. ran \in Seq(Nat)
    BY DEF SharedInv, Typed
  <2>2. ran' \in Seq(Nat)
    BY <1>4, <2>1, AppendProperties
  <2> QED
    BY <2>2 DEF SharedInv, Typed, EndPosted, queues, calls, events, lost
<1>6. depth' = depth - 0 + 0 /\ counter' = counter - 1 + 1
  BY <1>3, Naturals
<1>7. /\ Well(stack') /\ Accounts'
      /\ \A P \in SUBSET FrameSet : N(stack', P) = N(stack, P) - One(Top(t), P) + One(f, P)
  BY <1>1, <1>2, <1>3, <1>4, <1>6, EndGoesOn
<1>8. Waits'
  <2>1. \A n \in Nat : n - 0 + 0 = n
    OBVIOUS
  <2>2. N(stack', BeforeF) = N(stack, BeforeF)
    BY <1>2, <1>4, <1>7, <2>1, Kinds, Naturals
  <2> QED
    BY <1>3, <2>2 DEF SharedInv, Waits
<1>9. Located'
  <2>1. CASE l = <<>>
    <3>1. Elements(l) = {}
      BY <2>1 DEF Elements
    <3>2. \A n \in Nat : n - 0 + 0 = n
      OBVIOUS
    <3>3. \A p : N(stack', ListF(p)) = N(stack, ListF(p))
      BY <1>2, <1>4, <1>7, <2>1, <3>1, <3>2, Kinds, Naturals
    <3> QED
      BY <1>3, <1>4, <2>1, <3>3 DEF SharedInv, Located
  <2>2. CASE l # <<>>
    <3>1. \A p : N(stack', ListF(p)) =
                   N(stack, ListF(p)) - (IF p \in Elements(l) THEN 1 ELSE 0)
                                      + (IF p \in Elements(Tail(l)) THEN 1 ELSE 0)
      BY <1>2, <1>4, <1>7, <2>2, Kinds
    <3> HIDE DEF l
    <3> QED
      BY <1>2, <1>3, <1>4, <2>2, <3>1, RunPosted
  <2> QED
    BY <2>1, <2>2
<1> QED
  BY <1>5, <1>7, <1>8, <1>9 DEF SharedInv

LEMMA EndReleaseKeeps ==
  ASSUME SharedInv, NEW t \in Thread, EndRelease(t)
  PROVE  SharedInv'
<1>1. stack[t] # <<>> /\ Top(t).op = "end" /\ Top(t).pc = "release" /\ Return(t)
      /\ counter' = counter - 1
  BY DEF EndRelease, Is
<1>2. /\ One(Top(t), HoldF) = 0 /\ One(Top(t), OffF) = 1 /\ One(Top(t), BeforeF) = 0
      /\ \A p : One(Top(t), ListF(p)) = 0
  BY <1>1, EndTop
<1>3. UNCHANGED <<depth, post, inside, ran, dropped, raised, leaked>>
  BY DEF EndRelease, queues, calls, closures, lost
<1>4. Typed'
  BY DEF SharedInv, Typed, EndRelease, queues, calls, closures, events, lost
<1>5. /\ Well(stack')
      /\ \A P \in SUBSET FrameSet : N(stack', P) = N(stack, P) - One(Top(t), P)
  BY <1>1, ReturnIs DEF Return, Calls, SharedInv
<1>6. /\ N(stack', HoldF) = N(stack, HoldF) /\ N(stack', OffF) = N(stack, OffF) - 1
      /\ N(stack', BeforeF) = N(stack, BeforeF)
      /\ \A p : N(stack', ListF(p)) = N(stack, ListF(p))
  <2>1. \A n \in Nat : n - 0 = n
    OBVIOUS
  <2> QED
    BY <1>2, <1>5, <2>1, Kinds, Naturals
<1>7. Accounts'
  <2>1. \A h, r \in Nat : h + r - 1 = h - 1 + r
    OBVIOUS
  <2> QED
    BY <1>1, <1>3, <1>6, <2>1, Naturals DEF SharedInv, Accounts
<1>8. Waits' /\ Located'
  BY <1>3, <1>6 DEF SharedInv, Waits, Located
<1> QED
  BY <1>4, <1>5, <1>7, <1>8 DEF SharedInv

-----------------------------------------------------------------------------
(* Panics *)

LEMMA UnwindFrame ==
  /\ Unwinding \in FrameSet /\ ~Holds(Unwinding) /\ ~HoldsOff(Unwinding)
  /\ Unwinding.op = "unwind" /\ Unwinding.pc = "unwind"
  /\ One(Unwinding, HoldF) = 0 /\ One(Unwinding, OffF) = 0 /\ One(Unwinding, BeforeF) = 0
  /\ \A p : One(Unwinding, ListF(p)) = 0
<1>1. Unwinding \in FrameSet
  BY MakeFrames
<1>2. /\ Unwinding.op = "unwind" /\ Unwinding.pc = "unwind"
      /\ ~Holds(Unwinding) /\ ~HoldsOff(Unwinding)
  BY DEF Unwinding, Holds, HoldsOff
<1> HIDE DEF Unwinding
<1> QED
  BY <1>1, <1>2, Kinds

LEMMA PanicBodyKeeps ==
  ASSUME SharedInv, NEW t \in Thread, PanicBody(t)
  PROVE  SharedInv'
<1>1. Runs(t) /\ stack' = [stack EXCEPT ![t] = Append(stack[t], Unwinding)] /\ Well(stack)
  BY DEF SharedInv, PanicBody, Calls
<1>2. /\ Well(stack')
      /\ \A P \in SUBSET FrameSet : N(stack', P) = N(stack, P) + One(Unwinding, P)
  BY <1>1, UnwindFrame, CallIs
<1>3. \A n \in Nat : n + 0 = n /\ n >= n
  OBVIOUS
<1>4. /\ N(stack', HoldF) = N(stack, HoldF) /\ N(stack', OffF) = N(stack, OffF)
      /\ N(stack', BeforeF) >= N(stack, BeforeF)
      /\ \A p : N(stack', ListF(p)) = N(stack, ListF(p))
  BY <1>2, <1>3, UnwindFrame, Kinds, Naturals
<1>5. Typed'
  BY DEF SharedInv, Typed, PanicBody, queues, calls, closures, events, lost
<1>6. UNCHANGED <<depth, counter, post, inside, ran, dropped, raised, leaked>>
  BY DEF PanicBody, queues, calls, closures, lost
<1> QED
  BY <1>2, <1>4, <1>5, <1>6, Quiet

LEMMA PanicHandlerKeeps ==
  ASSUME SharedInv, NEW t \in Thread, PanicHandler(t)
  PROVE  SharedInv'
<1>1. stack[t] # <<>> /\ Top(t).op = "node" /\ Top(t).pc = "run" /\ GoOn(t, Unwinding)
  BY DEF PanicHandler, Is
<1>2. ~Holds(Top(t)) /\ ~HoldsOff(Top(t)) /\ Top(t) \notin BeforeF
  BY <1>1 DEF Holds, HoldsOff, BeforeF
<1>3. Typed'
  BY DEF SharedInv, Typed, PanicHandler, queues, calls, closures, lost
<1>4. UNCHANGED <<depth, counter, post, inside, ran, dropped, raised, leaked>>
  BY DEF PanicHandler, queues, calls, closures, lost
<1>5. Top(t).op # "end" /\ Top(t).pc # "posted"
  BY <1>1
<1> QED
  BY <1>1, <1>2, <1>3, <1>4, <1>5, UnwindFrame, QuietGoOn

LEMMA PanicPostedKeeps ==
  ASSUME SharedInv, ~PanicInClose, NEW t \in Thread, PanicPosted(t)
  PROVE  SharedInv'
<1> DEFINE l == Top(t).list
           f == End("posted", Tail(l))
<1>1. /\ stack[t] # <<>> /\ Top(t).op = "end" /\ Top(t).pc = "posted" /\ l # <<>>
      /\ ran' = Append(ran, Head(l)) /\ Nest(t, f, Unwinding)
      /\ ~Closing(t, Len(stack[t]) - 1)
  BY DEF PanicPosted, Is
<1>2. /\ l \in Seq(Nat)
      /\ One(Top(t), HoldF) = 0 /\ One(Top(t), OffF) = 1 /\ One(Top(t), BeforeF) = 0
      /\ \A p : One(Top(t), ListF(p)) = IF p \in Elements(l) THEN 1 ELSE 0
  BY <1>1, EndTop
<1>3. Head(l) \in Nat /\ Tail(l) \in Seq(Nat)
  BY <1>1, <1>2, HeadTailProperties
<1>4. f \in FrameSet /\ f.op = "end" /\ f.pc = "posted" /\ f.list = Tail(l)
  BY <1>3, MakeFrames DEF End
<1> HIDE DEF f
<1>5. /\ One(f, HoldF) = 0 /\ One(f, OffF) = 1 /\ One(f, BeforeF) = 0
      /\ \A p : One(f, ListF(p)) = IF p \in Elements(Tail(l)) THEN 1 ELSE 0
  <2>1. ~Holds(f) /\ HoldsOff(f)
    BY <1>4 DEF Holds, HoldsOff
  <2> QED
    BY <1>4, <2>1, Kinds
<1>6. /\ Well(stack')
      /\ \A P \in SUBSET FrameSet :
           N(stack', P) = N(stack, P) - One(Top(t), P) + One(f, P) + One(Unwinding, P)
  <2>1. stack' = [stack EXCEPT ![t] = Append(Append(Below(t), f), Unwinding)]
    BY <1>1 DEF Nest, Calls
  <2>2. /\ Well(stack) /\ t \in Thread /\ stack[t] # <<>> /\ f \in FrameSet
        /\ Unwinding \in FrameSet
        /\ (Top(t).op = "end" => f.op = "end") /\ f.pc # "closing"
        /\ (f.op = "end" => \/ f.pc = "batch"
                            \/ f.pc = "posted" /\ ~Closing(t, Len(stack[t]) - 1))
    BY <1>1, <1>4, UnwindFrame DEF SharedInv
  <2> QED
    BY ONLY <2>1, <2>2, NestIs, ZenonT(60)
<1>7. UNCHANGED <<depth, counter, post, inside, dropped, raised, leaked>>
  BY DEF PanicPosted, queues, calls, lost
<1>8. Typed'
  <2>1. ran \in Seq(Nat)
    BY DEF SharedInv, Typed
  <2>2. ran' \in Seq(Nat)
    BY <1>1, <1>3, <2>1, AppendProperties
  <2> QED
    BY <2>2 DEF SharedInv, Typed, PanicPosted, queues, calls, events, lost
<1>9. \A n \in Nat : n - 0 + 0 + 0 = n /\ n - 1 + 1 + 0 = n
                     /\ \A a, b \in {0, 1} : n - a + b + 0 = n - a + b
  OBVIOUS
<1>10. /\ N(stack', HoldF) = N(stack, HoldF) /\ N(stack', OffF) = N(stack, OffF)
       /\ N(stack', BeforeF) = N(stack, BeforeF)
  <2>1. /\ N(stack', HoldF) = N(stack, HoldF) - 0 + 0 + 0
        /\ N(stack', OffF) = N(stack, OffF) - 1 + 1 + 0
        /\ N(stack', BeforeF) = N(stack, BeforeF) - 0 + 0 + 0
    BY <1>2, <1>5, <1>6, UnwindFrame, Kinds
  <2> QED
    BY <1>9, <2>1, Naturals
<1>11. \A p : N(stack', ListF(p)) =
                N(stack, ListF(p)) - (IF p \in Elements(l) THEN 1 ELSE 0)
                                   + (IF p \in Elements(Tail(l)) THEN 1 ELSE 0)
  BY <1>2, <1>5, <1>6, <1>9, UnwindFrame, Kinds, Naturals
<1>12. Accounts' /\ Waits'
  BY <1>7, <1>10 DEF SharedInv, Accounts, Waits
<1>13. Located'
  <2> HIDE DEF l
  <2> QED
    BY <1>1, <1>2, <1>7, <1>11, RunPosted
<1> QED
  BY <1>6, <1>8, <1>12, <1>13 DEF SharedInv

(* S is the stacks without the call that unwinds and without the n-th one, *)
(* which it is in.                                                         *)
Without(t, n, S) ==
  /\ n \in Nat \ {0} /\ stack[t][n] \in FrameSet /\ stack[t] # <<>>
  /\ Well(S) /\ S = [stack EXCEPT ![t] = S[t]]
  /\ S[t] = SubSeq(stack[t], 1, n - 1)
  /\ Len(S[t]) = n - 1 /\ \A i \in 1 .. n - 1 : S[t][i] = stack[t][i]
  /\ S[t] # <<>> <=> n > 1
  /\ \A P \in {HoldF, OffF, BeforeF} : N(S, P) = N(stack, P) - One(stack[t][n], P)
  /\ \A p : N(S, ListF(p)) = N(stack, ListF(p)) - One(stack[t][n], ListF(p))
  /\ stack[t][n].pc # "closing"
  /\ stack[t][n].op = "end" => stack[t][n].pc \in {"batch", "posted"}

LEMMA Unwinds ==
  ASSUME SharedInv, NEW t \in Thread, Is(t, "unwind", "unwind"), Len(stack[t]) - 1 > 0
  PROVE  Without(t, Len(stack[t]) - 1, Popped(Popped(stack, t), t))
<1> DEFINE n == Len(stack[t]) - 1
           S == Popped(Popped(stack, t), t)
           R == Popped(stack, t)
<1>1. stack[t] # <<>> /\ Top(t).op = "unwind" /\ Well(stack)
  BY DEF Is, SharedInv
<1>2. /\ stack \in Stacks /\ stack[t] \in Seq(FrameSet) /\ Top(t) \in FrameSet
      /\ Len(stack[t]) = n + 1 /\ n \in Nat \ {0}
      /\ R[t] = Lower(stack[t])
      /\ Len(R[t]) = n /\ \A i \in 1 .. n : R[t][i] = stack[t][i]
  <2>1. /\ stack \in Stacks /\ Top(t) \in FrameSet
        /\ Len(stack[t]) \in Nat \ {0}
        /\ R[t] = Lower(stack[t])
        /\ Len(Lower(stack[t])) = Len(stack[t]) - 1
        /\ \A i \in 1 .. Len(stack[t]) - 1 : Lower(stack[t])[i] = stack[t][i]
    BY <1>1, TopIs
  <2>2. \A k \in Nat : k - 1 > 0 => k = k - 1 + 1 /\ k - 1 \in Nat \ {0}
    OBVIOUS
  <2> QED
    BY <2>1, <2>2 DEF Stacks
<1>3. /\ Well(R)
      /\ \A P \in SUBSET FrameSet : N(R, P) = N(stack, P) - One(Top(t), P)
  BY <1>1, PopWell DEF Top
<1>4. R \in Stacks /\ R[t] \in Seq(FrameSet) /\ R[t] # <<>> /\ R[t][n] = stack[t][n]
  BY <1>2, <1>3, EmptySeq DEF Well, Stacks
<1> HIDE DEF R
<1>5. /\ Well(Popped(R, t))
      /\ \A P \in SUBSET FrameSet : N(Popped(R, t), P) = N(R, P) - One(R[t][Len(R[t])], P)
  BY <1>3, <1>4, PopWell
<1>6. S = Popped(R, t)
  BY DEF R
<1>7. /\ Lower(R[t]) \in Seq(FrameSet) /\ R[t][n] \in FrameSet
      /\ Len(Lower(R[t])) = n - 1
      /\ \A i \in 1 .. n - 1 : Lower(R[t])[i] = R[t][i]
  BY <1>2, <1>4, LowerSeq
<1>8. S[t] = Lower(R[t])
  BY <1>4, <1>6 DEF Popped, Stacks
<1>9. Len(S[t]) = n - 1 /\ \A i \in 1 .. n - 1 : S[t][i] = stack[t][i]
  BY <1>2, <1>7, <1>8
<1>10. S = [stack EXCEPT ![t] = S[t]]
  BY <1>2, <1>6, <1>8 DEF Popped, R, Stacks
<1>11. S[t] # <<>> <=> n > 1
  BY <1>2, <1>7, <1>8, EmptySeq
<1>12. S[t] = SubSeq(stack[t], 1, n - 1)
  <2>1. \A i \in 1 .. n - 1 : stack[t][i] \in FrameSet
    BY <1>2, ElementOfSeq
  <2>2. n - 1 \in Int /\ (n - 1 = 0 \/ n - 1 >= 1)
    <3>1. \A k \in Nat \ {0} : k - 1 \in Int /\ (k - 1 = 0 \/ k - 1 >= 1)
      OBVIOUS
    <3> QED
      BY <1>2, <3>1
  <2>3. /\ SubSeq(stack[t], 1, n - 1) \in Seq(FrameSet)
        /\ Len(SubSeq(stack[t], 1, n - 1)) = n - 1
        /\ \A i \in 1 .. n - 1 : SubSeq(stack[t], 1, n - 1)[i] = stack[t][i]
    BY <2>1, <2>2, SubSeqProperties
  <2> QED
    BY <1>7, <1>8, <1>9, <2>3, SeqEqual
<1>13. /\ One(Top(t), HoldF) = 0 /\ One(Top(t), OffF) = 0 /\ One(Top(t), BeforeF) = 0
       /\ \A p : One(Top(t), ListF(p)) = 0
  BY <1>1, <1>2, Kinds DEF Holds, HoldsOff
<1>14. \A k \in Nat : \A a \in {0, 1} : k - 0 - a = k - a
  OBVIOUS
<1>15. \A f, P : One(f, P) \in {0, 1}
  BY DEF One
<1>16. /\ \A P \in {HoldF, OffF, BeforeF} : N(S, P) = N(stack, P) - One(stack[t][n], P)
       /\ \A p : N(S, ListF(p)) = N(stack, ListF(p)) - One(stack[t][n], ListF(p))
  <2>1. \A P \in SUBSET FrameSet : N(S, P) = N(stack, P) - One(Top(t), P) - One(stack[t][n], P)
    BY <1>2, <1>3, <1>4, <1>5, <1>6
  <2>2. \A P \in {HoldF, OffF, BeforeF} : /\ P \in SUBSET FrameSet /\ N(stack, P) \in Nat
                                         /\ One(Top(t), P) = 0
    BY <1>13, Kinds, Naturals
  <2>3. \A p : /\ ListF(p) \in SUBSET FrameSet /\ N(stack, ListF(p)) \in Nat
               /\ One(Top(t), ListF(p)) = 0
    BY <1>13, Kinds, Naturals
  <2> QED
    BY <1>14, <1>15, <2>1, <2>2, <2>3
<1>17. /\ stack[t][n].pc # "closing"
       /\ stack[t][n].op = "end" => stack[t][n].pc \in {"batch", "posted"}
  <2>1. Shape(stack[t]) /\ n \in 1 .. Len(stack[t]) - 1 /\ stack[t][n + 1].op = "unwind"
    BY <1>1, <1>2 DEF Well, Top
  <2> QED
    BY <2>1 DEF Shape
<1> QED
  BY <1>1, <1>2, <1>4, <1>5, <1>6, <1>7, <1>9, <1>10, <1>11, <1>12, <1>16, <1>17 DEF Without

(* A Transaction that a panic drops leaves as if it were closed.           *)
LEMMA UnwindObjectKeeps ==
  ASSUME SharedInv, NEW t \in Thread, UnwindObject(t)
  PROVE  SharedInv'
<1> DEFINE n == Len(stack[t]) - 1
           R == Popped(Popped(stack, t), t)
           S == Pushed(R, t, Unwinding)
<1>1. /\ Is(t, "unwind", "unwind") /\ n > 0 /\ stack[t][n].op = "object"
      /\ Leave(t, Append(SubSeq(stack[t], 1, n - 1), Unwinding))
  BY DEF UnwindObject
<1>0. Without(t, n, R)
  BY <1>1, Unwinds
<1> HIDE DEF n, R
<1>2. /\ n \in Nat \ {0} /\ stack[t][n] \in FrameSet
      /\ Well(R) /\ R = [stack EXCEPT ![t] = R[t]]
      /\ R[t] = SubSeq(stack[t], 1, n - 1)
      /\ Len(R[t]) = n - 1 /\ \A i \in 1 .. n - 1 : R[t][i] = stack[t][i]
      /\ R[t] # <<>> <=> n > 1
      /\ \A P \in {HoldF, OffF, BeforeF} : N(R, P) = N(stack, P) - One(stack[t][n], P)
      /\ \A p : N(R, ListF(p)) = N(stack, ListF(p)) - One(stack[t][n], ListF(p))
      /\ stack[t][n].pc # "closing"
  BY <1>0 DEF Without
<1>3. Shape(stack[t]) /\ stack \in Stacks /\ Len(stack[t]) = n + 1
  <2>1. Len(stack[t]) \in Nat
    BY LenProperties DEF SharedInv, Well, Stacks
  <2> QED
    BY <2>1 DEF SharedInv, Well, n
<1>4. ASSUME n > 1
      PROVE  stack[t][n - 1].pc # "closing"
  <2>1. n - 1 \in 1 .. Len(stack[t]) - 1 /\ n - 1 + 1 = n
    BY <1>2, <1>3, <1>4
  <2> QED
    BY <1>1, <1>3, <2>1 DEF Shape
<1>5. Fits(R[t], Unwinding)
  <2>1. ASSUME n > 1
        PROVE  stack[t][n - 1].op # "end"
               \/ stack[t][n - 1].pc \in {"batch", "posted"}
    <3>1. n - 1 \in 1 .. Len(stack[t]) - 1
      BY <1>2, <1>3, <2>1
    <3> QED
      BY <1>3, <3>1 DEF Shape
  <2>2. ASSUME n - 1 > 1, stack[t][n - 1 - 1].pc = "closing"
        PROVE  stack[t][n - 1].pc = "batch"
    <3>1. n - 1 - 1 \in 1 .. Len(stack[t]) - 2 /\ n - 1 - 1 + 1 = n - 1
      BY <1>2, <1>3, <2>2
    <3> QED
      BY <1>3, <2>2, <3>1 DEF Shape
  <2>3. /\ n > 1 => n - 1 \in 1 .. n - 1
        /\ n - 1 > 1 => n - 1 - 1 \in 1 .. n - 1
    BY <1>2
  <2> QED
    BY <1>2, <1>4, <2>1, <2>2, <2>3 DEF Fits
<1>6. /\ Well(S)
      /\ \A P \in SUBSET FrameSet : N(S, P) = N(R, P) + One(Unwinding, P)
  <2>1. S = Pushed(R, t, Unwinding)
    OBVIOUS
  <2>2. t \in Thread /\ Unwinding \in FrameSet /\ Well(R) /\ Fits(R[t], Unwinding)
    BY <1>2, <1>5, UnwindFrame
  <2> HIDE DEF S
  <2>3. /\ Well(Pushed(R, t, Unwinding))
        /\ \A P \in SUBSET FrameSet :
             N(Pushed(R, t, Unwinding), P) = N(R, P) + One(Unwinding, P)
    BY ONLY <2>2, PushWell
  <2> QED
    BY <2>1, <2>3
<1>7. /\ S[t] = Append(R[t], Unwinding) /\ R[t] \in Seq(FrameSet)
      /\ S = [stack EXCEPT ![t] = S[t]]
  BY <1>2, <1>3 DEF Pushed, Well, Stacks
<1> HIDE DEF S
<1>8. /\ Len(S[t]) = n /\ S[t][n] = Unwinding
      /\ \A i \in 1 .. n - 1 : S[t][i] = stack[t][i]
  <2>1. /\ Len(S[t]) = Len(R[t]) + 1 /\ S[t][Len(R[t]) + 1] = Unwinding
        /\ \A i \in 1 .. Len(R[t]) : S[t][i] = R[t][i]
    BY <1>7, UnwindFrame, AppendProperties
  <2>2. n - 1 + 1 = n
    BY <1>2
  <2> QED
    BY <1>2, <2>1, <2>2
<1>9. Fits(S[t], End("count", <<>>))
  <2>1. n > 1 => n - 1 \in 1 .. n - 1
    BY <1>2
  <2> QED
    BY <1>4, <1>8, <2>1, UnwindFrame DEF Fits
<1>10. /\ One(stack[t][n], HoldF) = 1 /\ One(stack[t][n], OffF) = 0
       /\ One(stack[t][n], BeforeF) = 0
       /\ \A p : One(stack[t][n], ListF(p)) = 0
  <2>1. stack[t][n].pc \in {"open", "again"}
    BY <1>1, <1>2, FrameKinds
  <2>2. Holds(stack[t][n]) /\ ~HoldsOff(stack[t][n])
    BY <1>1, <2>1 DEF Holds, HoldsOff
  <2> QED
    BY <1>1, <1>2, <2>2, Kinds
<1>11. \A k \in Nat : k - 0 + 0 = k /\ k - 1 + 0 = k - 1
  OBVIOUS
<1>12. /\ N(S, HoldF) = N(stack, HoldF) - 1
       /\ N(S, OffF) = N(stack, OffF) /\ N(S, BeforeF) = N(stack, BeforeF)
       /\ \A p : N(S, ListF(p)) = N(stack, ListF(p))
  <2>1. /\ N(S, HoldF) = N(stack, HoldF) - 1 + 0
        /\ N(S, OffF) = N(stack, OffF) - 0 + 0
        /\ N(S, BeforeF) = N(stack, BeforeF) - 0 + 0
    BY <1>2, <1>6, <1>10, UnwindFrame, Kinds
  <2>2. \A p : N(S, ListF(p)) = N(stack, ListF(p)) - 0 + 0
    BY <1>2, <1>6, <1>10, UnwindFrame, Kinds
  <2> QED
    BY <1>11, <2>1, <2>2, Naturals
<1>13. Typed'
  BY DEF SharedInv, Typed, UnwindObject, queues, calls, closures, events, lost
<1>14. UNCHANGED <<counter, post, inside, ran, dropped, raised, leaked>>
  BY DEF UnwindObject, queues, calls, closures, lost
<1>15. Leave(t, S[t])
  BY <1>1, <1>2, <1>7
<1> QED
  BY <1>6, <1>7, <1>9, <1>12, <1>13, <1>14, <1>15, LeaveKeeps

LEMMA UnwoundKeeps ==
  ASSUME SharedInv, NEW t \in Thread, Unwound(t)
  PROVE  SharedInv'
<1>1. stack[t] # <<>> /\ Top(t).op = "unwind" /\ Return(t)
  BY DEF Unwound, Is
<1>2. ~Holds(Top(t)) /\ Top(t).op # "end"
  BY <1>1 DEF Holds
<1>3. Typed'
  BY DEF SharedInv, Typed, Unwound, queues, calls, closures, events, lost
<1>4. UNCHANGED <<depth, counter, post, inside, ran, dropped, raised, leaked>>
  BY DEF Unwound, queues, calls, closures, lost
<1> QED
  BY <1>1, <1>2, <1>3, <1>4, QuietReturn

(* The call that a panic stops propagates in a Transaction that is being   *)
(* closed, which takes the depth over.                                     *)
Again(t, n) == Holds(stack[t][n]) /\ Closing(t, n - 1)

LEMMA UnwindStacks ==
  ASSUME SharedInv, NEW t \in Thread, NEW n, NEW R, Without(t, n, R),
         Len(stack[t]) = n + 1,
         stack' = [stack EXCEPT ![t] =
                     Append(IF Again(t, n) THEN [R[t] EXCEPT ![n - 1].pc = "again"] ELSE R[t],
                            Unwinding)]
  PROVE  /\ Well(stack')
         /\ N(stack', HoldF) = N(R, HoldF) + (IF Again(t, n) THEN 1 ELSE 0)
         /\ N(stack', OffF) = N(R, OffF) /\ N(stack', BeforeF) = N(R, BeforeF)
         /\ \A p : N(stack', ListF(p)) = N(R, ListF(p))
<1>1. /\ n \in Nat \ {0} /\ stack[t][n] \in FrameSet /\ Well(R)
      /\ R = [stack EXCEPT ![t] = R[t]]
      /\ Len(R[t]) = n - 1 /\ \A i \in 1 .. n - 1 : R[t][i] = stack[t][i]
      /\ R[t] # <<>> <=> n > 1
  BY DEF Without
<1>2. /\ Shape(stack[t]) /\ stack \in Stacks
      /\ stack[t] \in Seq(FrameSet) /\ R[t] \in Seq(FrameSet)
  BY <1>1 DEF SharedInv, Well, Stacks
<1>3. /\ N(R, HoldF) \in Nat /\ N(R, OffF) \in Nat /\ N(R, BeforeF) \in Nat
      /\ \A p : N(R, ListF(p)) \in Nat
  BY <1>1, Counts, Kinds
<1>4. \A k \in Nat : k + 0 = k /\ k - 0 + 1 + 0 = k + 1 /\ k - 0 + 0 + 0 = k
  OBVIOUS
<1>5. n > 1 => n - 1 \in 1 .. n - 1 /\ n - 1 \in 1 .. Len(stack[t]) - 2 /\ n - 1 + 1 = n
  <2>1. \A k \in Nat \ {0} : /\ k > 1 => k - 1 \in 1 .. k - 1 /\ k - 1 + 1 = k
                            /\ k + 1 - 2 = k - 1
    OBVIOUS
  <2> QED
    BY <1>1, <2>1
<1>6. /\ n > 1 /\ stack[t][n - 1].op = "end" => stack[t][n - 1].pc \in {"batch", "posted"}
      /\ n - 1 > 1 /\ stack[t][n - 1 - 1].pc = "closing" =>
           stack[t][n - 1].op = "end" /\ stack[t][n - 1].pc = "batch"
  <2>1. n > 1 => n - 1 \in 1 .. Len(stack[t]) - 1
    BY <1>1
  <2>2. n - 1 > 1 => /\ n - 1 - 1 \in 1 .. Len(stack[t]) - 2
                     /\ n - 1 - 1 \in 1 .. Len(stack[t]) - 1
                     /\ n - 1 - 1 + 1 = n - 1
    BY <1>1
  <2> QED
    BY <1>2, <2>1, <2>2 DEF Shape
<1>7. n - 1 > 1 => n - 1 - 1 \in 1 .. n - 1 /\ n > 1
  BY <1>1
<1>8. CASE ~Again(t, n)
  <2>1. n > 1 => stack[t][n - 1].pc # "closing"
    <3>1. ASSUME n > 1, stack[t][n - 1].pc = "closing"
          PROVE  FALSE
      <4>1. stack[t][n - 1] \in FrameSet
        BY <1>2, <1>5, <3>1, ElementOfSeq
      <4>2. Closing(t, n - 1)
        <5>1. n - 1 > 0
          BY <1>1, <3>1
        <5>2. stack[t][n - 1].op = "object"
          BY <3>1, <4>1, FrameKinds DEF EndPc, ListPc, SendPc, NodePc
        <5> QED
          BY <3>1, <5>1, <5>2 DEF Closing
      <4>3. n - 1 \in 1 .. Len(stack[t]) - 1
        BY <1>1, <3>1
      <4>4. stack[t][n].op = "end" /\ stack[t][n].pc = "batch"
        BY <1>2, <1>5, <3>1, <4>3 DEF Shape
      <4> QED
        BY <1>8, <4>2, <4>4 DEF Again, Holds
    <3> QED
      BY <3>1
  <2>2. Fits(R[t], Unwinding)
    BY <1>1, <1>5, <1>6, <1>7, <2>1 DEF Fits
  <2>3. stack' = Pushed(R, t, Unwinding)
    BY <1>1, <1>2, <1>8 DEF Pushed, Stacks
  <2>4. /\ Well(Pushed(R, t, Unwinding))
        /\ \A P \in SUBSET FrameSet :
             N(Pushed(R, t, Unwinding), P) = N(R, P) + One(Unwinding, P)
    BY <1>1, <2>2, UnwindFrame, PushWell
  <2>5. /\ N(stack', HoldF) = N(R, HoldF) + 0
        /\ N(stack', OffF) = N(R, OffF) + 0 /\ N(stack', BeforeF) = N(R, BeforeF) + 0
    BY <2>3, <2>4, UnwindFrame, Kinds
  <2>6. ASSUME NEW p
        PROVE  N(stack', ListF(p)) = N(R, ListF(p)) + 0
    <3>1. ListF(p) \in SUBSET FrameSet /\ One(Unwinding, ListF(p)) = 0
      BY UnwindFrame, Kinds
    <3> QED
      BY <2>3, <2>4, <3>1
  <2> QED
    BY <1>3, <1>4, <1>8, <2>3, <2>4, <2>5, <2>6
<1>9. CASE Again(t, n)
  <2> DEFINE f == [op |-> "object", pc |-> "again", list |-> <<>>]
             g == R[t][n - 1]
             S == Popped(R, t)
             T == Pushed(S, t, f)
             low == Lower(R[t])
  <2>1. /\ n > 1 /\ g = stack[t][n - 1] /\ g.op = "object" /\ g.pc = "closing"
        /\ R[t] # <<>>
    <3>1. n - 1 > 0 /\ stack[t][n - 1].op = "object" /\ stack[t][n - 1].pc = "closing"
      BY <1>9 DEF Again, Closing
    <3>2. \A k \in Nat : k - 1 > 0 => k > 1
      OBVIOUS
    <3> QED
      BY <1>1, <1>5, <3>1, <3>2
  <2>2. g \in FrameSet /\ f \in FrameSet /\ [g EXCEPT !.pc = "again"] = f
    <3>1. g \in FrameSet
      BY <1>2, <1>5, <2>1, ElementOfSeq
    <3> QED
      BY <2>1, <3>1, MakeFrames, FrameGoesOn
  <2>3. /\ low \in Seq(FrameSet) /\ Len(low) = n - 1 - 1
        /\ \A i \in 1 .. n - 1 - 1 : low[i] = R[t][i]
    <3>1. /\ low \in Seq(FrameSet) /\ Len(low) = Len(R[t]) - 1
          /\ \A i \in 1 .. Len(R[t]) - 1 : low[i] = R[t][i]
      BY <1>2, <2>1, LowerSeq
    <3> QED
      BY <1>1, <3>1
  <2>4. /\ Well(S)
        /\ \A P \in SUBSET FrameSet : N(S, P) = N(R, P) - One(g, P)
    BY <1>1, <2>1, PopWell
  <2>5. S[t] = low /\ S = [stack EXCEPT ![t] = low]
    BY <1>1, <1>2, <2>3 DEF Popped, Stacks
  <2> HIDE DEF f
  <2>6. Fits(low, f)
    BY <1>1, <2>1, <2>2, FitsBelow
  <2>7. /\ Well(T)
        /\ \A P \in SUBSET FrameSet : N(T, P) = N(S, P) + One(f, P)
    <3> HIDE DEF S
    <3>1. Well(S) /\ Fits(S[t], f)
      BY <2>4, <2>5, <2>6
    <3> QED
      BY <2>2, <3>1, PushWell
  <2>8. T[t] = Append(low, f) /\ T = [stack EXCEPT ![t] = Append(low, f)]
    BY <1>2, <2>5 DEF Pushed, Stacks
  <2>9. /\ Append(low, f) \in Seq(FrameSet) /\ Len(Append(low, f)) = n - 1
        /\ Append(low, f)[n - 1] = f
        /\ \A i \in 1 .. n - 1 - 1 : Append(low, f)[i] = R[t][i]
    <3>1. n - 1 - 1 + 1 = n - 1
      BY <1>1
    <3> QED
      BY <2>2, <2>3, <3>1, AppendProperties
  <2>10. [R[t] EXCEPT ![n - 1].pc = "again"] = Append(low, f)
    <3>1. n - 1 \in 1 .. Len(R[t])
      BY <1>1, <1>5, <2>1
    <3>2. [R[t] EXCEPT ![n - 1].pc = "again"] = [R[t] EXCEPT ![n - 1] = f]
      BY <2>2
    <3>3. /\ [R[t] EXCEPT ![n - 1] = f] \in Seq(FrameSet)
          /\ Len([R[t] EXCEPT ![n - 1] = f]) = n - 1
          /\ \A i \in 1 .. n - 1 :
               [R[t] EXCEPT ![n - 1] = f][i] = IF i = n - 1 THEN f ELSE R[t][i]
      BY <1>1, <1>2, <2>2, <3>1, ExceptSeq
    <3>4. \A i \in 1 .. n - 1 : i = n - 1 \/ i \in 1 .. n - 1 - 1
      BY <1>1
    <3>5. \A i \in 1 .. n - 1 : [R[t] EXCEPT ![n - 1] = f][i] = Append(low, f)[i]
      BY <2>9, <3>3, <3>4
    <3>6. [R[t] EXCEPT ![n - 1] = f] = Append(low, f)
      <4> DEFINE u == [R[t] EXCEPT ![n - 1] = f]
                 v == Append(low, f)
      <4>1. /\ u \in Seq(FrameSet) /\ v \in Seq(FrameSet) /\ Len(u) = Len(v)
            /\ \A i \in 1 .. Len(u) : u[i] = v[i]
        BY <2>9, <3>3, <3>5
      <4> HIDE DEF u, v
      <4>2. u = v
        BY <4>1, SeqEqual
      <4> QED
        BY <4>2 DEF u, v
    <3> QED
      BY <3>2, <3>6
  <2>11. Fits(T[t], Unwinding)
    <3>1. f.pc = "again" /\ f.op = "object"
      BY DEF f
    <3>2. ~(n - 1 > 1 /\ R[t][n - 1 - 1].pc = "closing")
      BY <1>1, <1>6, <1>7, <2>1
    <3>3. n - 1 > 1 => n - 1 - 1 \in 1 .. n - 1 - 1
      BY <1>1
    <3> QED
      BY <2>8, <2>9, <3>1, <3>2, <3>3 DEF Fits
  <2>12. stack' = Pushed(T, t, Unwinding)
    BY <1>2, <1>9, <2>8, <2>10 DEF Pushed, Stacks
  <2> HIDE DEF T
  <2>13. /\ Well(Pushed(T, t, Unwinding))
         /\ \A P \in SUBSET FrameSet :
              N(Pushed(T, t, Unwinding), P) = N(T, P) + One(Unwinding, P)
    <3>1. Well(T)
      BY <2>7
    <3> QED
      BY <2>11, <3>1, UnwindFrame, PushWell
  <2>14. \A P \in SUBSET FrameSet :
           N(stack', P) = N(R, P) - One(g, P) + One(f, P) + One(Unwinding, P)
    BY <2>4, <2>7, <2>12, <2>13
  <2>15. /\ One(g, HoldF) = 0 /\ One(g, OffF) = 0 /\ One(g, BeforeF) = 0
         /\ \A p : One(g, ListF(p)) = 0
    BY <2>1, <2>2, Kinds DEF Holds, HoldsOff
  <2>16. /\ One(f, HoldF) = 1 /\ One(f, OffF) = 0 /\ One(f, BeforeF) = 0
         /\ \A p : One(f, ListF(p)) = 0
    <3>1. f.op = "object" /\ f.pc = "again"
      BY DEF f
    <3>2. Holds(f) /\ ~HoldsOff(f)
      BY <3>1 DEF Holds, HoldsOff
    <3> QED
      BY <2>2, <3>1, <3>2, Kinds
  <2> HIDE DEF g
  <2>17. /\ N(stack', HoldF) = N(R, HoldF) + 1
         /\ N(stack', OffF) = N(R, OffF) /\ N(stack', BeforeF) = N(R, BeforeF)
    <3>1. /\ N(stack', HoldF) = N(R, HoldF) - 0 + 1 + 0
          /\ N(stack', OffF) = N(R, OffF) - 0 + 0 + 0
          /\ N(stack', BeforeF) = N(R, BeforeF) - 0 + 0 + 0
      BY <2>14, <2>15, <2>16, UnwindFrame, Kinds
    <3> QED
      BY <1>3, <1>4, <3>1
  <2>18. \A p : N(stack', ListF(p)) = N(R, ListF(p))
    <3>1. ASSUME NEW p
          PROVE  N(stack', ListF(p)) = N(R, ListF(p)) - 0 + 0 + 0
      <4>1. /\ ListF(p) \in SUBSET FrameSet /\ One(g, ListF(p)) = 0
            /\ One(f, ListF(p)) = 0 /\ One(Unwinding, ListF(p)) = 0
        BY <2>15, <2>16, UnwindFrame, Kinds
      <4> QED
        BY <2>14, <4>1
    <3> QED
      BY <1>3, <1>4, <3>1
  <2> QED
    BY <1>9, <2>12, <2>13, <2>17, <2>18
<1> QED
  BY <1>8, <1>9

LEMMA UnwindCallKeeps ==
  ASSUME SharedInv, NEW t \in Thread, UnwindCall(t)
  PROVE  SharedInv'
<1> DEFINE n == Len(stack[t]) - 1
           g == stack[t][n]
           R == Popped(Popped(stack, t), t)
           rest == SubSeq(stack[t], 1, n - 1)
<1>1. /\ Is(t, "unwind", "unwind") /\ n > 0 /\ g.op # "object"
      /\ Calls(t, Append(IF Again(t, n) THEN [rest EXCEPT ![n - 1].pc = "again"] ELSE rest,
                         Unwinding))
      /\ raised' = IF Holds(g) /\ ~Again(t, n) THEN raised + 1 ELSE raised
      /\ leaked' = IF HoldsOff(g) THEN leaked + 1 ELSE leaked
      /\ dropped' = IF g.pc = "posted" THEN dropped \cup Elements(g.list) ELSE dropped
      /\ UNCHANGED <<depth, counter, post, inside, ran>>
  BY DEF UnwindCall, Again, queues, calls
<1>2. Without(t, n, R)
  BY <1>1, Unwinds
<1>3. Again(t, n) => Holds(g)
  BY DEF Again
<1>4. stack \in Stacks /\ Len(stack[t]) \in Nat
  BY LenProperties DEF SharedInv, Well, Stacks
<1>5. Len(stack[t]) = n + 1
  BY <1>4
<1>6. Typed'
  <2>1. UNCHANGED <<changedNodes, prePost, post, ran, sends, posts, inside>>
    BY DEF UnwindCall, queues, calls
  <2>2. raised' \in Nat /\ leaked' \in Nat
    <3>1. raised \in Nat /\ leaked \in Nat
      BY Naturals
    <3> QED
      BY <1>1, <3>1
  <2> QED
    BY <2>1, <2>2 DEF SharedInv, Typed
<1> HIDE DEF n, R
<1>7. /\ g \in FrameSet /\ R[t] = rest
      /\ N(R, HoldF) = N(stack, HoldF) - One(g, HoldF)
      /\ N(R, OffF) = N(stack, OffF) - One(g, OffF)
      /\ N(R, BeforeF) = N(stack, BeforeF) - One(g, BeforeF)
      /\ \A p : N(R, ListF(p)) = N(stack, ListF(p)) - One(g, ListF(p))
      /\ g.op = "end" => g.pc \in {"batch", "posted"}
  BY <1>2 DEF Without
<1>8. stack' = [stack EXCEPT ![t] =
                  Append(IF Again(t, n) THEN [R[t] EXCEPT ![n - 1].pc = "again"] ELSE R[t],
                         Unwinding)]
  BY <1>1, <1>7 DEF Calls
<1> HIDE DEF g, rest
<1>9. /\ Well(stack')
      /\ N(stack', HoldF) = N(R, HoldF) + (IF Again(t, n) THEN 1 ELSE 0)
      /\ N(stack', OffF) = N(R, OffF) /\ N(stack', BeforeF) = N(R, BeforeF)
      /\ \A p : N(stack', ListF(p)) = N(R, ListF(p))
  BY <1>2, <1>5, <1>8, UnwindStacks
<1>10. /\ One(g, HoldF) = IF Holds(g) THEN 1 ELSE 0
       /\ One(g, OffF) = IF HoldsOff(g) THEN 1 ELSE 0
       /\ One(g, BeforeF) = 0
       /\ \A p : One(g, ListF(p)) = 1 => g.pc = "posted" /\ p \in Elements(g.list)
       /\ \A p : One(g, ListF(p)) \in {0, 1}
  <2>1. /\ One(g, HoldF) = IF Holds(g) THEN 1 ELSE 0
        /\ One(g, OffF) = IF HoldsOff(g) THEN 1 ELSE 0
        /\ One(g, BeforeF) = 0
    BY <1>7, Kinds
  <2>2. \A p : One(g, ListF(p)) = IF g.op = "end" /\ g.pc = "posted" /\ p \in Elements(g.list)
                                  THEN 1 ELSE 0
    BY <1>7, Kinds
  <2> QED
    BY <2>1, <2>2
<1>11. Accounts'
  <2>1. N(stack', HoldF) + raised' = N(stack, HoldF) + raised
    <3>1. /\ N(stack', HoldF) = N(stack, HoldF) - (IF Holds(g) THEN 1 ELSE 0)
                                                + (IF Again(t, n) THEN 1 ELSE 0)
          /\ raised' = raised + (IF Holds(g) /\ ~Again(t, n) THEN 1 ELSE 0)
      BY <1>1, <1>7, <1>9, <1>10, Naturals
    <3>2. \A h, r \in Nat : /\ h - 1 + 1 + (r + 0) = h + r /\ h - 1 + 0 + (r + 1) = h + r
                            /\ h - 0 + 0 + (r + 0) = h + r
      OBVIOUS
    <3>3. N(stack, HoldF) \in Nat /\ raised \in Nat
      BY Naturals
    <3>4. CASE Again(t, n)
      BY <1>3, <3>1, <3>2, <3>3, <3>4
    <3>5. CASE ~Again(t, n) /\ Holds(g)
      BY <3>1, <3>2, <3>3, <3>5
    <3>6. CASE ~Again(t, n) /\ ~Holds(g)
      BY <3>1, <3>2, <3>3, <3>6
    <3> QED
      BY <3>4, <3>5, <3>6
  <2>2. N(stack', OffF) + leaked' = N(stack, OffF) + leaked
    <3>1. N(stack', OffF) = N(stack, OffF) - (IF HoldsOff(g) THEN 1 ELSE 0)
      BY <1>7, <1>9, <1>10
    <3>2. leaked' = leaked + (IF HoldsOff(g) THEN 1 ELSE 0)
      BY <1>1, Naturals
    <3>3. \A h, r \in Nat : h - 1 + (r + 1) = h + r /\ h - 0 + (r + 0) = h + r
      OBVIOUS
    <3> QED
      BY <3>1, <3>2, <3>3, Naturals
  <2> QED
    BY <1>1, <2>1, <2>2 DEF SharedInv, Accounts
<1>12. Waits'
  <2>1. N(stack', BeforeF) = N(stack, BeforeF)
    <3>1. \A k \in Nat : k - 0 = k
      OBVIOUS
    <3> QED
      BY <1>7, <1>9, <1>10, <3>1, Naturals
  <2> QED
    BY <1>1, <2>1 DEF SharedInv, Waits
<1>13. Located'
  <2>1. ASSUME NEW p \in inside, N(stack, ListF(p)) > 0
        PROVE  N(stack', ListF(p)) > 0 \/ p \in dropped'
    <3>1. CASE One(g, ListF(p)) = 0
      <4>1. N(stack', ListF(p)) = N(stack, ListF(p)) - 0
        BY <1>7, <1>9, <3>1
      <4> QED
        BY <2>1, <4>1, Naturals
    <3>2. CASE One(g, ListF(p)) = 1
      BY <1>1, <1>10, <3>2
    <3> QED
      BY <1>10, <3>1, <3>2
  <2>2. dropped \subseteq dropped'
    BY <1>1
  <2> QED
    BY <1>1, <2>1, <2>2 DEF SharedInv, Located
<1> QED
  BY <1>6, <1>9, <1>11, <1>12, <1>13 DEF SharedInv

-----------------------------------------------------------------------------
LEMMA SharedStep ==
  ASSUME SharedInv, ~PanicInClose, [SharedNext]_sharedVars
  PROVE  SharedInv'
<1>1. CASE UNCHANGED sharedVars
  BY <1>1
  DEF sharedVars, queues, flags, calls, closures, events, lost,
      SharedInv, Typed, Well, Shape, Accounts, Waits, Located, N, On
<1>2. CASE SharedNext
  <2>1. PICK t \in Thread :
          \/ Enter(t, "closure") \/ Enter(t, "object")
          \/ LeaveScope(t) \/ Close(t) \/ Post(t)
          \/ \E s \in Sink : SendBegin(t, s)
          \/ CodeStep(t) \/ PanicStep(t)
    BY <1>2 DEF SharedNext
  <2>2. CASE \/ Enter(t, "closure") \/ Enter(t, "object")
             \/ \E s \in Sink : SendBegin(t, s)
    BY <2>2, EnterKeeps
  <2>3. CASE LeaveScope(t) \/ SendLeave(t)
    BY <2>3, LeaveScopeKeeps
  <2>4. CASE Close(t)
    BY <2>4, CloseKeeps
  <2>5. CASE Post(t)
    BY <2>5, PostKeeps
  <2>6. CASE SendStep(t)
    BY <2>3, <2>6, SendSteps DEF SendStep
  <2>7. CASE EndStep(t)
    BY <2>7, EndCountKeeps, EndQuietSteps, EndUncountKeeps, EndPostKeeps, EndPostedKeeps,
       EndReleaseKeeps DEF EndStep
  <2>8. CASE NodeStep(t)
    BY <2>8, NodeSteps
  <2>9. CASE Closed(t)
    BY <2>9, ClosedKeeps
  <2>10. CASE UnwindStep(t)
    BY <2>10, UnwindObjectKeeps, UnwindCallKeeps, UnwoundKeeps DEF UnwindStep
  <2>11. CASE PanicStep(t)
    BY <2>11, PanicBodyKeeps, PanicHandlerKeeps, PanicPostedKeeps DEF PanicStep
  <2> QED
    BY <2>1, <2>2, <2>3, <2>4, <2>5, <2>6, <2>7, <2>8, <2>9, <2>10, <2>11 DEF CodeStep
<1> QED
  BY <1>1, <1>2

LEMMA NoCalls ==
  ASSUME \A t \in Thread : stack[t] = <<>>, NEW P
  PROVE  On(stack, P) = {} /\ N(stack, P) = 0
<1>1. On(stack, P) = {}
  BY DEF On
<1> QED
  BY <1>1, FS_EmptySet DEF N

LEMMA SharedStart ==
  ASSUME SharedInit
  PROVE  SharedInv
<1>1. \A t \in Thread : stack[t] = <<>>
  BY DEF SharedInit
<1>2. /\ <<>> \in Seq(Sink) /\ <<>> \in Seq(Item) /\ <<>> \in Seq(Nat)
      /\ <<>> \in Seq(FrameSet) /\ Len(<<>>) = 0
  BY EmptySeq
<1>3. Typed
  BY <1>2 DEF SharedInit, Typed
<1>4. Well(stack)
  <2>1. stack \in Stacks
    BY <1>2 DEF SharedInit, Stacks
  <2>2. IsFiniteSet(On(stack, FrameSet))
    BY <1>1, NoCalls, FS_EmptySet
  <2>3. \A t \in Thread : Shape(stack[t])
    BY <1>1, <1>2 DEF Shape
  <2> QED
    BY <2>1, <2>2, <2>3 DEF Well
<1>5. Accounts
  <2>1. N(stack, HoldF) = 0 /\ N(stack, OffF) = 0
    BY <1>1, NoCalls
  <2> QED
    BY <2>1 DEF SharedInit, Accounts
<1>6. Waits /\ Located
  BY DEF SharedInit, Waits, Located
<1> QED
  BY <1>3, <1>4, <1>5, <1>6 DEF SharedInv

LEMMA SharedAlways ==
  ASSUME ~PanicInClose
  PROVE  SharedSpec => []SharedInv
<1>1. SharedInit => SharedInv
  BY SharedStart
<1>2. SharedInv /\ [SharedNext]_sharedVars => SharedInv'
  BY SharedStep
<1> QED
  BY <1>1, <1>2, PTL DEF SharedSpec

(* enter_transaction, leave_transaction, end_of_transaction: whatever the  *)
(* threads do, and wherever a closure panics, but for a posted one that    *)
(* Transaction::close runs, transaction_depth is at least the number of    *)
(* transactions and propagations in progress, and                          *)
(* allow_collect_cycles_counter at least the number of ends.               *)
THEOREM CountsHold ==
  ASSUME ~PanicInClose
  PROVE  SharedSpec => []CountsCover
<1>1. SharedInv => CountsCover
  <2> SUFFICES ASSUME SharedInv
               PROVE  CountsCover
    OBVIOUS
  <2>1. stack \in Stacks
    BY DEF SharedInv, Well
  <2>2. \A x \in InProgress : Frame(x) \in FrameSet
    <3>1. \A t \in Thread : \A i \in DOMAIN stack[t] : stack[t][i] \in FrameSet
      BY <2>1, LenProperties, ElementOfSeq DEF Stacks
    <3> QED
      BY <3>1 DEF InProgress, Frame
  <2>3. Holding = On(stack, HoldF)
    BY <2>2 DEF Holding, On, HoldF, InProgress, Frame
  <2>4. HoldingOff = On(stack, OffF)
    BY <2>2 DEF HoldingOff, On, OffF, InProgress, Frame
  <2> QED
    BY <2>3, <2>4, Naturals DEF CountsCover, SharedInv, Accounts, N
<1> QED
  BY <1>1, SharedAlways, PTL

(* end_of_transaction: with the same exception, when every thread is out   *)
(* of the library and no panic left the depth raised, the closures that    *)
(* were posted in transactions have run, or were dropped by a panic.       *)
THEOREM PostsHaveRun ==
  ASSUME ~PanicInClose
  PROVE  SharedSpec => []PostsRun
<1>1. SharedInv => PostsRun
  <2> SUFFICES ASSUME SharedInv, AtRest, raised = 0
               PROVE  inside \subseteq Elements(ran) \cup dropped
    BY DEF PostsRun
  <2>1. \A P : N(stack, P) = 0
    BY NoCalls DEF AtRest
  <2>2. depth = 0 /\ N(stack, BeforeF) = 0
    BY <2>1 DEF SharedInv, Accounts
  <2>3. inside \cap Elements(post) = {}
    BY <2>2 DEF SharedInv, Waits
  <2>4. \A p \in inside : p \in Elements(post) \cup Elements(ran) \cup dropped
    BY <2>1 DEF SharedInv, Located
  <2> QED
    BY <2>3, <2>4
<1> QED
  BY <1>1, SharedAlways, PTL

=============================================================================
