-------------------------- MODULE SodiumCtxProofs --------------------------
(***************************************************************************)
(* Theorems about SodiumCtx, for every network and every bound.            *)
(*                                                                         *)
(* The depth of the transactions matches the calls in progress             *)
(* (DepthExact), and so does the counter that holds the collector off.     *)
(* Both rest on the shape of the stack.  A call of update_node stands on   *)
(* one that propagates; a call of end_of_transaction stands on none that   *)
(* does, however deep post closures have nested it.                        *)
(*                                                                         *)
(* The post closures run on a clean slate (PostOutside), and cells change  *)
(* only between transactions (CellsChangeBetween).  Both rest on what      *)
(* pre_post owes.  A stream that fires has a "clear" queued, a visited     *)
(* node an "unvisit"; a transaction is closed with all of them on the list *)
(* that pre_post runs, so that none is left for post.                      *)
(*                                                                         *)
(* The engine works on nodes that are made (NodesMade), so that its state  *)
(* has the types of TypeOK: whatever is queued was queued by a node that   *)
(* is there, for nodes that are there, and a combinator is made together   *)
(* with all it depends on.                                                 *)
(*                                                                         *)
(* The lists are those the code builds, so what InOrder, FlattenSeq and    *)
(* Founded compute has to be known for lists and networks of any length:   *)
(* by induction on natural numbers, from the fact that a set of them has a *)
(* least member.                                                           *)
(***************************************************************************)
EXTENDS SodiumCtx, FiniteSetTheorems, SequenceTheorems, FunctionTheorems, WellFoundedInduction,
        TLAPS

Lower(s) == SubSeq(s, 1, Len(s) - 1)
Frames(s) == {s[i] : i \in 1 .. Len(s)}

FrameOK(s, j) ==
  /\ {"op", "pc"} \subseteq DOMAIN s[j]
  /\ s[j].op \in {"eot", "update"}
  /\ s[j].op = "eot" => \A i \in 1 .. j - 1 : ~Propagates(s[i])
  /\ s[j].op = "update" => j > 1 /\ Propagates(s[j - 1])

Shape(s) == s \in Seq(Frames(s)) /\ \A j \in 1 .. Len(s) : FrameOK(s, j)

Active(s) == s # <<>> /\ Propagates(s[Len(s)])
EotsOf(s) == {i \in 1 .. Len(s) : s[i].op = "eot"}

(* The inductive invariant.                                                *)
StackInv ==
  /\ Shape(stack)
  /\ open \in Nat
  /\ depth = open + (IF Active(stack) THEN 1 ELSE 0)
  /\ gcCounter = Cardinality(EotsOf(stack))

-----------------------------------------------------------------------------
(* Sequences: one frame more,                                              *)
LEMMA PushSeq ==
  ASSUME NEW s, s \in Seq(Frames(s)), NEW f
  PROVE  /\ Append(s, f) \in Seq(Frames(Append(s, f)))
         /\ Append(s, f) # <<>>
         /\ Len(s) \in Nat
         /\ Len(Append(s, f)) = Len(s) + 1
         /\ Append(s, f)[Len(s) + 1] = f
         /\ \A i \in 1 .. Len(s) : Append(s, f)[i] = s[i]
<1> DEFINE All == Frames(s) \cup {f}
<1>1. s \in Seq(All)
  BY SeqMonotonic
<1>2. /\ Append(s, f) \in Seq(All)
      /\ Append(s, f) # <<>>
      /\ Len(s) \in Nat
      /\ Len(Append(s, f)) = Len(s) + 1
      /\ Append(s, f)[Len(s) + 1] = f
      /\ \A i \in 1 .. Len(s) : Append(s, f)[i] = s[i]
  BY <1>1, AppendProperties, LenProperties
<1>3. Append(s, f) \in Seq(Frames(Append(s, f)))
  <2>1. \A i \in 1 .. Len(s) : s[i] = Append(s, f)[i] /\ i \in 1 .. Len(Append(s, f))
    BY <1>2
  <2>2. f = Append(s, f)[Len(s) + 1] /\ Len(s) + 1 \in 1 .. Len(Append(s, f))
    BY <1>2
  <2>3. All \subseteq Frames(Append(s, f))
    BY <2>1, <2>2 DEF Frames
  <2> QED BY <1>2, <2>3, SeqMonotonic
<1> QED BY <1>2, <1>3

(* ... and one frame less.                                                 *)
LEMMA PopSeq ==
  ASSUME NEW s, s \in Seq(Frames(s)), s # <<>>
  PROVE  /\ Lower(s) \in Seq(Frames(Lower(s)))
         /\ Len(s) \in Nat \ {0}
         /\ Len(Lower(s)) = Len(s) - 1
         /\ \A i \in 1 .. Len(s) - 1 : Lower(s)[i] = s[i]
<1> DEFINE Kept == {s[i] : i \in 1 .. Len(s) - 1}
<1>1. Len(s) \in Nat \ {0}
  BY EmptySeq
<1>2. Len(s) - 1 \in Int /\ \A i \in 1 .. Len(s) - 1 : s[i] \in Kept
  BY <1>1
<1>3. /\ SubSeq(s, 1, Len(s) - 1) \in Seq(Kept)
      /\ Len(SubSeq(s, 1, Len(s) - 1)) = IF 1 <= Len(s) - 1 THEN Len(s) - 1 - 1 + 1 ELSE 0
      /\ \A i \in 1 .. Len(s) - 1 - 1 + 1 : SubSeq(s, 1, Len(s) - 1)[i] = s[1 + i - 1]
  <2> HIDE DEF Kept
  <2> QED BY <1>2, SubSeqProperties
<1>4. /\ Lower(s) \in Seq(Kept)
      /\ Len(Lower(s)) = Len(s) - 1
      /\ \A i \in 1 .. Len(s) - 1 : Lower(s)[i] = s[i]
  <2> HIDE DEF Kept
  <2>1. Lower(s) \in Seq(Kept)
    BY <1>3 DEF Lower
  <2>2. Len(Lower(s)) = Len(s) - 1
    <3>1. \A n \in Nat \ {0} : (IF 1 <= n - 1 THEN n - 1 - 1 + 1 ELSE 0) = n - 1
      OBVIOUS
    <3> QED BY <1>1, <1>3, <3>1 DEF Lower
  <2>3. ASSUME NEW i \in 1 .. Len(s) - 1
        PROVE  Lower(s)[i] = s[i]
    <3>1. i \in 1 .. Len(s) - 1 - 1 + 1 /\ 1 + i - 1 = i
      BY <1>1
    <3>2. SubSeq(s, 1, Len(s) - 1)[i] = s[1 + i - 1]
      BY <1>3, <3>1
    <3> QED BY <3>1, <3>2 DEF Lower
  <2> QED BY <2>1, <2>2, <2>3
<1>5. Kept \subseteq Frames(Lower(s))
  BY <1>4 DEF Frames
<1>6. Lower(s) \in Seq(Frames(Lower(s)))
  <2> HIDE DEF Kept
  <2> QED BY <1>4, <1>5, SeqMonotonic
<1> QED BY <1>1, <1>4, <1>6

-----------------------------------------------------------------------------
(* Stacks: what each kind of step makes of their shape.                    *)
Frame(f, op) == {"op", "pc"} \subseteq DOMAIN f /\ f.op = op

(* A stack that is not empty has a well-formed top.                        *)
LEMMA TopFrame ==
  ASSUME NEW s, Shape(s), s # <<>>
  PROVE  Len(s) \in Nat \ {0} /\ FrameOK(s, Len(s))
<1>1. Len(s) \in Nat \ {0}
  BY EmptySeq DEF Shape
<1> QED BY <1>1 DEF Shape

(* Only the top of the stack tells whether something is being propagated.  *)
LEMMA TopTells ==
  ASSUME NEW s, Shape(s)
  PROVE  (\E i \in DOMAIN s : Propagates(s[i])) <=> Active(s)
<1>1. DOMAIN s = 1 .. Len(s) /\ Len(s) \in Nat
  BY LenProperties DEF Shape
<1>2. CASE s = <<>>
  <2>1. Len(s) = 0
    BY <1>2, EmptySeq
  <2> QED BY <1>1, <1>2, <2>1 DEF Active
<1>3. CASE s # <<>>
  <2>1. Len(s) \in 1 .. Len(s) /\ FrameOK(s, Len(s))
    BY <1>3, TopFrame
  <2>2. CASE s[Len(s)].op = "update"
    BY <1>1, <1>3, <2>1, <2>2 DEF Active, Propagates
  <2>3. CASE s[Len(s)].op = "eot"
    <3>1. \A i \in 1 .. Len(s) - 1 : ~Propagates(s[i])
      BY <2>1, <2>3 DEF FrameOK
    <3>2. \A n \in Nat : \A i \in 1 .. n : i = n \/ i \in 1 .. n - 1
      OBVIOUS
    <3> QED BY <1>1, <1>3, <2>1, <3>1, <3>2 DEF Active
  <2> QED BY <2>1, <2>2, <2>3 DEF FrameOK
<1> QED BY <1>2, <1>3

(* The calls of end_of_transaction in progress can be counted.             *)
LEMMA EotsFinite ==
  ASSUME NEW s, Shape(s)
  PROVE  IsFiniteSet(EotsOf(s)) /\ Cardinality(EotsOf(s)) \in Nat
<1>1. Len(s) \in Nat
  BY LenProperties DEF Shape
<1>2. IsFiniteSet(1 .. Len(s)) /\ EotsOf(s) \in SUBSET (1 .. Len(s))
  BY <1>1, FS_Interval DEF EotsOf
<1> QED BY <1>2, FS_Subset, FS_CardinalityType

(* A call of update_node is made by something that propagates.             *)
LEMMA PushUpdate ==
  ASSUME NEW s, Shape(s), Active(s), NEW f, Frame(f, "update")
  PROVE  LET t == Append(s, f) IN
         Shape(t) /\ t # <<>> /\ Active(t) /\ EotsOf(t) = EotsOf(s)
<1> DEFINE t == Append(s, f)
<1>1. /\ t \in Seq(Frames(t))
      /\ t # <<>>
      /\ Len(s) \in Nat
      /\ Len(t) = Len(s) + 1
      /\ t[Len(s) + 1] = f
      /\ \A i \in 1 .. Len(s) : t[i] = s[i]
  BY PushSeq DEF Shape
<1> HIDE DEF t
<1>2. Len(s) > 0 /\ Propagates(s[Len(s)])
  BY TopFrame DEF Active
<1>3. ASSUME NEW j \in 1 .. Len(s)
      PROVE  FrameOK(t, j)
  <2>1. FrameOK(s, j) /\ t[j] = s[j] /\ \A i \in 1 .. j - 1 : t[i] = s[i]
    BY <1>1 DEF Shape
  <2>2. j > 1 => j - 1 \in 1 .. j - 1
    BY <1>1
  <2> QED BY <2>1, <2>2 DEF FrameOK
<1>4. FrameOK(t, Len(s) + 1)
  <2>1. Len(s) + 1 > 1 /\ t[Len(s) + 1 - 1] = s[Len(s)]
    BY <1>1, <1>2
  <2>2. t[Len(s) + 1].op = "update" /\ {"op", "pc"} \subseteq DOMAIN t[Len(s) + 1]
    BY <1>1 DEF Frame
  <2> QED BY <1>2, <2>1, <2>2 DEF FrameOK
<1>5. \A j \in 1 .. Len(t) : j = Len(s) + 1 \/ j \in 1 .. Len(s)
  BY <1>1
<1>6. Shape(t)
  BY <1>1, <1>3, <1>4, <1>5 DEF Shape
<1>7. Active(t)
  BY <1>1 DEF Active, Propagates, Frame
<1>8. EotsOf(t) = EotsOf(s)
  BY <1>1, <1>5 DEF EotsOf, Frame
<1> QED BY <1>1, <1>6, <1>7, <1>8 DEF t

(* A call of end_of_transaction begins when nothing is propagated.         *)
LEMMA PushEot ==
  ASSUME NEW s, Shape(s), ~Active(s), NEW f, Frame(f, "eot")
  PROVE  LET t == Append(s, f) IN
         /\ Shape(t) /\ t # <<>> /\ (Active(t) <=> Propagates(f))
         /\ Cardinality(EotsOf(t)) = Cardinality(EotsOf(s)) + 1
<1> DEFINE t == Append(s, f)
<1>1. /\ t \in Seq(Frames(t))
      /\ t # <<>>
      /\ Len(s) \in Nat
      /\ Len(t) = Len(s) + 1
      /\ t[Len(s) + 1] = f
      /\ \A i \in 1 .. Len(s) : t[i] = s[i]
  BY PushSeq DEF Shape
<1> HIDE DEF t
<1>2. \A i \in 1 .. Len(s) : ~Propagates(s[i])
  BY TopTells, LenProperties DEF Shape
<1>3. ASSUME NEW j \in 1 .. Len(s)
      PROVE  FrameOK(t, j)
  <2>1. FrameOK(s, j) /\ t[j] = s[j] /\ \A i \in 1 .. j - 1 : t[i] = s[i]
    BY <1>1 DEF Shape
  <2>2. j > 1 => j - 1 \in 1 .. j - 1
    BY <1>1
  <2> QED BY <2>1, <2>2 DEF FrameOK
<1>4. FrameOK(t, Len(s) + 1)
  <2>1. \A n \in Nat : 1 .. n + 1 - 1 = 1 .. n
    OBVIOUS
  <2>2. \A i \in 1 .. Len(s) + 1 - 1 : ~Propagates(t[i])
    BY <1>1, <1>2, <2>1
  <2>3. t[Len(s) + 1].op = "eot" /\ {"op", "pc"} \subseteq DOMAIN t[Len(s) + 1]
    BY <1>1 DEF Frame
  <2> QED BY <2>2, <2>3 DEF FrameOK
<1>5. \A j \in 1 .. Len(t) : j = Len(s) + 1 \/ j \in 1 .. Len(s)
  BY <1>1
<1>6. Shape(t)
  BY <1>1, <1>3, <1>4, <1>5 DEF Shape
<1>7. Active(t) <=> Propagates(f)
  BY <1>1 DEF Active
<1>8. EotsOf(t) = EotsOf(s) \cup {Len(s) + 1} /\ Len(s) + 1 \notin EotsOf(s)
  BY <1>1, <1>5 DEF EotsOf, Frame
<1>9. Cardinality(EotsOf(t)) = Cardinality(EotsOf(s)) + 1
  BY <1>8, EotsFinite, FS_AddElement
<1> QED BY <1>1, <1>6, <1>7, <1>9 DEF t

(* A call of update_node returns to something that propagates.             *)
LEMMA PopUpdate ==
  ASSUME NEW s, Shape(s), s # <<>>, s[Len(s)].op = "update"
  PROVE  /\ Shape(Lower(s)) /\ Active(Lower(s))
         /\ EotsOf(Lower(s)) = EotsOf(s)
<1> DEFINE t == Lower(s)
<1>1. /\ t \in Seq(Frames(t))
      /\ Len(s) \in Nat \ {0}
      /\ Len(t) = Len(s) - 1
      /\ \A i \in 1 .. Len(s) - 1 : t[i] = s[i]
  BY PopSeq DEF Shape
<1> HIDE DEF t
<1>2. Len(s) > 1 /\ Propagates(s[Len(s) - 1])
  BY TopFrame DEF FrameOK
<1>3. ASSUME NEW j \in 1 .. Len(t)
      PROVE  FrameOK(t, j)
  <2>1. FrameOK(s, j) /\ t[j] = s[j] /\ \A i \in 1 .. j - 1 : t[i] = s[i]
    BY <1>1 DEF Shape
  <2>2. j > 1 => j - 1 \in 1 .. j - 1
    BY <1>1
  <2> QED BY <2>1, <2>2 DEF FrameOK
<1>4. Shape(t)
  BY <1>1, <1>3 DEF Shape
<1>5. t # <<>>
  BY <1>1, <1>2, EmptySeq
<1>6. Active(t)
  BY <1>1, <1>2, <1>5 DEF Active
<1>7. EotsOf(t) = EotsOf(s)
  <2>1. \A j \in 1 .. Len(s) : j = Len(s) \/ j \in 1 .. Len(t)
    BY <1>1
  <2>2. 1 .. Len(t) \subseteq 1 .. Len(s) /\ \A j \in 1 .. Len(t) : t[j] = s[j]
    BY <1>1
  <2> QED BY <2>1, <2>2 DEF EotsOf
<1> QED BY <1>4, <1>6, <1>7 DEF t

(* A call of end_of_transaction returns to something that does not.        *)
LEMMA PopEot ==
  ASSUME NEW s, Shape(s), s # <<>>, s[Len(s)].op = "eot"
  PROVE  /\ Shape(Lower(s)) /\ ~Active(Lower(s))
         /\ Cardinality(EotsOf(Lower(s))) = Cardinality(EotsOf(s)) - 1
<1> DEFINE t == Lower(s)
<1>1. /\ t \in Seq(Frames(t))
      /\ Len(s) \in Nat \ {0}
      /\ Len(t) = Len(s) - 1
      /\ \A i \in 1 .. Len(s) - 1 : t[i] = s[i]
  BY PopSeq DEF Shape
<1> HIDE DEF t
<1>2. \A i \in 1 .. Len(s) - 1 : ~Propagates(s[i])
  BY TopFrame DEF FrameOK
<1>3. ASSUME NEW j \in 1 .. Len(t)
      PROVE  FrameOK(t, j)
  <2>1. FrameOK(s, j) /\ t[j] = s[j] /\ \A i \in 1 .. j - 1 : t[i] = s[i]
    BY <1>1 DEF Shape
  <2>2. j > 1 => j - 1 \in 1 .. j - 1
    BY <1>1
  <2> QED BY <2>1, <2>2 DEF FrameOK
<1>4. Shape(t)
  BY <1>1, <1>3 DEF Shape
<1>5. ~Active(t)
  <2>1. t # <<>> => Len(t) \in 1 .. Len(s) - 1
    BY <1>1, EmptySeq
  <2> QED BY <1>1, <1>2, <2>1 DEF Active
<1>6. EotsOf(t) = EotsOf(s) \ {Len(s)} /\ Len(s) \in EotsOf(s)
  <2>1. \A j \in 1 .. Len(s) : j = Len(s) \/ j \in 1 .. Len(t)
    BY <1>1
  <2>2. /\ 1 .. Len(t) \subseteq 1 .. Len(s)
        /\ Len(s) \in 1 .. Len(s) /\ Len(s) \notin 1 .. Len(t)
        /\ \A j \in 1 .. Len(t) : t[j] = s[j]
    BY <1>1
  <2> QED BY <2>1, <2>2 DEF EotsOf
<1>7. Cardinality(EotsOf(t)) = Cardinality(EotsOf(s)) - 1
  BY <1>6, EotsFinite, FS_RemoveElement
<1> QED BY <1>4, <1>5, <1>7 DEF t

(* The top frame moves on: it is popped, and pushed again.                 *)
LEMMA ReplaceUpdate ==
  ASSUME NEW s, Shape(s), s # <<>>, s[Len(s)].op = "update", NEW f, Frame(f, "update")
  PROVE  LET t == Append(Lower(s), f) IN
         Shape(t) /\ t # <<>> /\ Active(t) /\ EotsOf(t) = EotsOf(s)
BY PopUpdate, PushUpdate

(* ... for a frame of end_of_transaction, which may stop propagating.      *)
LEMMA ReplaceEot ==
  ASSUME NEW s, Shape(s), s # <<>>, s[Len(s)].op = "eot", NEW f, Frame(f, "eot")
  PROVE  LET t == Append(Lower(s), f) IN
         /\ Shape(t) /\ t # <<>> /\ (Active(t) <=> Propagates(f))
         /\ Cardinality(EotsOf(t)) = Cardinality(EotsOf(s))
<1>1. /\ Shape(Lower(s)) /\ ~Active(Lower(s))
      /\ Cardinality(EotsOf(Lower(s))) = Cardinality(EotsOf(s)) - 1
      /\ Cardinality(EotsOf(s)) \in Nat
  BY PopEot, EotsFinite
<1> QED BY <1>1, PushEot

-----------------------------------------------------------------------------
(* A step that leaves the depth and the counter alone.                     *)
LEMMA Quiet ==
  ASSUME StackInv, UNCHANGED <<depth, open, gcCounter>>,
         Shape(stack'), Active(stack') <=> Active(stack),
         Cardinality(EotsOf(stack')) = Cardinality(EotsOf(stack))
  PROVE  StackInv'
BY DEF StackInv

(* What a call of update_node leaves on the stack of its caller.           *)
LEMMA VisitKeeps ==
  ASSUME NEW STATE n, NEW STATE rest, Shape(rest), Active(rest), Visit(n, rest)
  PROVE  Shape(stack') /\ Active(stack') /\ EotsOf(stack') = EotsOf(rest)
<1>1. CASE visited[n]
  BY <1>1 DEF Visit
<1>2. CASE ~visited[n]
  <2>1. stack' = Append(rest, Update("dependencies", n, dependencies[n], dependencies[n]))
    BY <1>2 DEF Visit
  <2>2. Frame(Update("dependencies", n, dependencies[n], dependencies[n]), "update")
    BY DEF Frame, Update
  <2> QED BY <2>1, <2>2, PushUpdate
<1> QED BY <1>1, <1>2

(* A call that goes on differs from what it was in its pc or its list.     *)
LEMMA FrameKept ==
  ASSUME NEW f, NEW op, Frame(f, op)
  PROVE  /\ \A v : Frame([f EXCEPT !.list = v], op) /\ [f EXCEPT !.list = v].pc = f.pc
         /\ \A v : Frame([f EXCEPT !.pc = v], op) /\ [f EXCEPT !.pc = v].pc = v
         /\ \A v, w : /\ Frame([f EXCEPT !.pc = v, !.list = w], op)
                      /\ [f EXCEPT !.pc = v, !.list = w].pc = v
BY DEF Frame

(* What a guard of an action says of the stack.                            *)
LEMMA TopIsFrame ==
  ASSUME NEW op, NEW pc, Shape(stack), TopIs(op, pc)
  PROVE  /\ stack # <<>> /\ stack[Len(stack)] = Top /\ Frame(Top, op)
         /\ Top.op = op /\ Top.pc = pc /\ (Active(stack) <=> Propagates(Top))
BY TopFrame DEF TopIs, Top, Frame, FrameOK, Active

(* An action that replaces the top, a frame of end_of_transaction.         *)
LEMMA SetTopEot ==
  ASSUME Shape(stack), NEW pc, TopIs("eot", pc), NEW f, Frame(f, "eot")
  PROVE  /\ Shape(SetTop(f)) /\ SetTop(f) # <<>> /\ (Active(SetTop(f)) <=> Propagates(f))
         /\ Cardinality(EotsOf(SetTop(f))) = Cardinality(EotsOf(stack))
BY TopIsFrame, ReplaceEot DEF SetTop, Below, Lower

(* ... and one that replaces a frame of update_node.                       *)
LEMMA SetTopUpdate ==
  ASSUME Shape(stack), NEW pc, TopIs("update", pc), NEW f, Frame(f, "update")
  PROVE  /\ Shape(SetTop(f)) /\ SetTop(f) # <<>> /\ Active(SetTop(f)) /\ Active(stack)
         /\ EotsOf(SetTop(f)) = EotsOf(stack)
<1>1. Active(stack)
  BY TopIsFrame DEF Propagates
<1> QED BY <1>1, TopIsFrame, ReplaceUpdate DEF SetTop, Below, Lower

(* A step is one of the program, one of the engine, or the collector's,    *)
(* which shows only in that it is over.                                    *)
LEMMA StepOf ==
  ASSUME [Next]_vars
  PROVE  Program \/ Engine \/ UNCHANGED context
BY DEF Next, Library, CollectCycles, vars

(* The program *)
LEMMA ProgramKeeps ==
  ASSUME StackInv, Program
  PROVE  StackInv'
<1>1. stack = <<>> /\ ~Active(stack)
  BY DEF Program, Enter, Leave, Post, Build, Send, Active
<1>2. CASE Enter
  BY <1>1, <1>2 DEF Enter, StackInv, gc
<1>3. CASE Leave
  <2>1. CASE depth = 1
    <3> DEFINE f == Eot("pre_eot", preEot, NoCause)
    <3>1. stack' = Append(stack, f) /\ gcCounter' = gcCounter + 1 /\ depth' = depth
      BY <1>3, <2>1 DEF Leave, BeginEot
    <3>2. Frame(f, "eot") /\ Propagates(f)
      BY DEF Frame, Eot, Propagates
    <3>3. /\ Shape(stack') /\ Active(stack')
          /\ Cardinality(EotsOf(stack')) = Cardinality(EotsOf(stack)) + 1
      <4> HIDE DEF f
      <4> QED BY <1>1, <3>1, <3>2, PushEot DEF StackInv
    <3>4. open = 1 /\ open' = 0
      BY <1>1, <1>3, <2>1 DEF Leave, StackInv
    <3> QED BY <2>1, <3>1, <3>3, <3>4 DEF StackInv
  <2>2. CASE depth # 1
    BY <1>1, <1>3, <2>2 DEF Leave, StackInv, gc
  <2> QED BY <2>1, <2>2
<1>4. CASE Post
  BY <1>4, Quiet DEF Post, StackInv, gc
<1>5. CASE Build
  BY <1>5, Quiet DEF Build, program, gc, StackInv
<1>6. CASE \E n \in Nodes(net), p \in Payload : Send(n, p)
  BY <1>6, Quiet DEF Send, StackInv, gc
<1> QED BY <1>2, <1>3, <1>4, <1>5, <1>6 DEF Program

(* update_node *)
LEMMA UpdateKeeps ==
  ASSUME StackInv,
         \/ VisitDependency \/ RunUpdate \/ BeginSwitch \/ EndSwitch \/ VisitDependent \/ EndUpdate
  PROVE  StackInv'
<1>0. Shape(stack)
  BY DEF StackInv
<1>1. ASSUME NEW pc \in {"dependencies", "dependents"}, TopIs("update", pc),
             NEW STATE n, Visit(n, SetTop([Top EXCEPT !.list = Tail(@)])),
             UNCHANGED <<depth, open, gcCounter>>
      PROVE  StackInv'
  <2> DEFINE f == [Top EXCEPT !.list = Tail(@)]
  <2>1. Frame(f, "update")
    BY <1>0, <1>1, TopIsFrame, FrameKept
  <2>2. /\ Shape(SetTop(f)) /\ Active(SetTop(f)) /\ Active(stack)
        /\ EotsOf(SetTop(f)) = EotsOf(stack)
    <3> HIDE DEF f
    <3> QED BY <1>0, <1>1, <2>1, SetTopUpdate
  <2>3. Shape(stack') /\ Active(stack') /\ EotsOf(stack') = EotsOf(SetTop(f))
    BY <1>1, <2>2, VisitKeeps
  <2> QED BY <1>1, <2>2, <2>3, Quiet
<1>2. CASE VisitDependency
  BY <1>1, <1>2 DEF VisitDependency, program, gc
<1>3. CASE VisitDependent
  BY <1>1, <1>3 DEF VisitDependent, program, gc
<1>4. ASSUME NEW pc, TopIs("update", pc), NEW STATE n, NEW STATE reads, NEW STATE list,
             stack' = SetTop(Update("dependents", n, reads, list)),
             UNCHANGED <<depth, open, gcCounter>>
      PROVE  StackInv'
  <2> DEFINE f == Update("dependents", n, reads, list)
  <2>1. Frame(f, "update")
    BY DEF Frame, Update
  <2>2. /\ Shape(SetTop(f)) /\ Active(SetTop(f)) /\ Active(stack)
        /\ EotsOf(SetTop(f)) = EotsOf(stack)
    <3> HIDE DEF f
    <3> QED BY <1>0, <1>4, <2>1, SetTopUpdate
  <2> QED BY <1>4, <2>2, Quiet
<1>5. CASE RunUpdate
  <2> DEFINE n == Top.node
             list == IF changed'[n] THEN dependents[n] ELSE <<>>
             f == Update("dependents", n, Top.reads, list)
  <2>1. Frame(f, "update")
    BY DEF Frame, Update
  <2>2. /\ stack' = SetTop(f) /\ TopIs("update", "dependencies")
        /\ UNCHANGED <<depth, open, gcCounter>>
    BY <1>5 DEF RunUpdate, program, gc
  <2>3. /\ Shape(SetTop(f)) /\ Active(SetTop(f)) /\ Active(stack)
        /\ EotsOf(SetTop(f)) = EotsOf(stack)
    <3> HIDE DEF f
    <3> QED BY <1>0, <2>1, <2>2, SetTopUpdate
  <2> HIDE DEF f
  <2> QED BY <2>2, <2>3, Quiet
<1>6. CASE EndSwitch
  BY <1>4, <1>6 DEF EndSwitch, program, gc
<1>7. CASE BeginSwitch
  <2> DEFINE f == [Top EXCEPT !.pc = "switching"]
  <2>1. /\ TopIs("update", "dependencies") /\ UNCHANGED <<depth, open, gcCounter>>
        /\ Visit(Followed(net, net.to[Top.node], firing[net.in[Top.node][1]]), SetTop(f))
    BY <1>7 DEF BeginSwitch, program, gc
  <2>2. Frame(f, "update")
    BY <1>0, <2>1, TopIsFrame, FrameKept
  <2> HIDE DEF f
  <2>3. /\ Shape(SetTop(f)) /\ Active(SetTop(f)) /\ Active(stack)
        /\ EotsOf(SetTop(f)) = EotsOf(stack)
    BY <1>0, <2>1, <2>2, SetTopUpdate
  <2>4. Shape(stack') /\ Active(stack') /\ EotsOf(stack') = EotsOf(SetTop(f))
    BY <2>1, <2>3, VisitKeeps
  <2> QED BY <2>1, <2>3, <2>4, Quiet
<1>8. CASE EndUpdate
  <2>1. /\ TopIs("update", "dependents") /\ stack' = Lower(stack)
        /\ UNCHANGED <<depth, open, gcCounter>>
    BY <1>8 DEF EndUpdate, Below, Lower, program, gc
  <2>2. Shape(stack') /\ Active(stack') /\ EotsOf(stack') = EotsOf(stack) /\ Active(stack)
    BY <1>0, <2>1, TopIsFrame, PopUpdate DEF Propagates
  <2> QED BY <2>1, <2>2, Quiet
<1> QED BY <1>2, <1>3, <1>5, <1>6, <1>7, <1>8

(* end_of_transaction *)
LEMMA EotKeeps ==
  ASSUME StackInv,
         \/ RunPreEot \/ TakeChanged \/ UpdateChanged \/ RunPrePost \/ RunPost \/ EndEot
  PROVE  StackInv'
<1>0. Shape(stack)
  BY DEF StackInv
<1>1. ASSUME NEW pc, TopIs("eot", pc), NEW STATE f, Frame(f, "eot"), stack' = SetTop(f),
             Propagates(f) <=> Propagates(Top), UNCHANGED <<depth, open, gcCounter>>
      PROVE  StackInv'
  <2>1. /\ Shape(SetTop(f)) /\ (Active(SetTop(f)) <=> Propagates(f))
        /\ Cardinality(EotsOf(SetTop(f))) = Cardinality(EotsOf(stack))
    BY <1>0, <1>1, SetTopEot
  <2>2. Active(stack) <=> Propagates(Top)
    BY <1>0, <1>1, TopIsFrame
  <2> QED BY <1>1, <2>1, <2>2, Quiet
<1>2. ASSUME NEW pc, TopIs("eot", pc)
      PROVE  /\ Frame(Top, "eot") /\ Top.op = "eot" /\ Top.pc = pc
             /\ \A v : /\ Frame([Top EXCEPT !.list = v], "eot")
                       /\ [Top EXCEPT !.list = v].pc = pc
             /\ \A v : Frame([Top EXCEPT !.pc = v], "eot") /\ [Top EXCEPT !.pc = v].pc = v
             /\ \A v, w : /\ Frame([Top EXCEPT !.pc = v, !.list = w], "eot")
                          /\ [Top EXCEPT !.pc = v, !.list = w].pc = v
  <2>1. Frame(Top, "eot") /\ Top.op = "eot" /\ Top.pc = pc
    BY <1>0, <1>2, TopIsFrame
  <2>2. /\ \A v : Frame([Top EXCEPT !.list = v], "eot") /\ [Top EXCEPT !.list = v].pc = Top.pc
        /\ \A v : Frame([Top EXCEPT !.pc = v], "eot") /\ [Top EXCEPT !.pc = v].pc = v
        /\ \A v, w : /\ Frame([Top EXCEPT !.pc = v, !.list = w], "eot")
                     /\ [Top EXCEPT !.pc = v, !.list = w].pc = v
    BY <2>1 DEF Frame
  <2> QED BY <2>1, <2>2
<1>3. ASSUME NEW pc, TopIs("eot", pc), stack' = SetTop([Top EXCEPT !.list = Tail(@)]),
             UNCHANGED <<depth, open, gcCounter>>
      PROVE  StackInv'
  <2> DEFINE f == [Top EXCEPT !.list = Tail(@)]
  <2>1. Frame(f, "eot") /\ (Propagates(f) <=> Propagates(Top))
    BY <1>2, <1>3 DEF Propagates, Frame
  <2> HIDE DEF f
  <2>2. stack' = SetTop(f)
    BY <1>3 DEF f
  <2> QED BY <1>1, <1>3, <2>1, <2>2
<1>4. ASSUME NEW pc \in {"pre_eot", "batch"}, TopIs("eot", pc),
              stack' = SetTop([Top EXCEPT !.pc = "loop"]), UNCHANGED <<depth, open, gcCounter>>
       PROVE  StackInv'
  <2> DEFINE f == [Top EXCEPT !.pc = "loop"]
  <2>1. Frame(f, "eot") /\ Propagates(f) /\ Propagates(Top)
    BY <1>2, <1>4 DEF Propagates
  <2> HIDE DEF f
  <2>2. stack' = SetTop(f)
    BY <1>4 DEF f
  <2> QED BY <1>1, <1>4, <2>1, <2>2
<1>5. CASE RunPreEot
  <2>1. TopIs("eot", "pre_eot") /\ UNCHANGED <<depth, open, gcCounter>>
    BY <1>5 DEF RunPreEot, program, gc
  <2>2. \/ stack' = SetTop([Top EXCEPT !.pc = "loop"])
        \/ stack' = SetTop([Top EXCEPT !.list = Tail(@)])
    BY <1>5 DEF RunPreEot
  <2> QED BY <1>3, <1>4, <2>1, <2>2
<1>6. CASE TakeChanged
  <2>1. TopIs("eot", "loop") /\ UNCHANGED <<open, gcCounter>>
    BY <1>6 DEF TakeChanged, program, gc
  <2>2. CASE changedNodes # <<>>
    <3> DEFINE f == [Top EXCEPT !.pc = "batch", !.list = changedNodes]
    <3>1. stack' = SetTop(f) /\ depth' = depth
      BY <1>6, <2>2 DEF TakeChanged, TakeBatch
    <3>2. Frame(f, "eot") /\ f.pc = "batch" /\ Top.pc = "loop"
      BY <1>2, <2>1
    <3> HIDE DEF f
    <3>3. Propagates(f) /\ Propagates(Top)
      BY <3>2 DEF Propagates
    <3> QED BY <1>1, <2>1, <3>1, <3>2, <3>3
  <2>3. CASE changedNodes = <<>>
    <3> DEFINE f == [Top EXCEPT !.pc = "pre_post", !.list = prePost]
    <3>1. stack' = SetTop(f) /\ depth' = depth - 1
      BY <1>6, <2>3 DEF TakeChanged, Close
    <3>2. Frame(f, "eot") /\ ~Propagates(f) /\ Propagates(Top)
      BY <1>2, <2>1 DEF Propagates, Frame
    <3> HIDE DEF f
    <3>3. /\ Shape(stack') /\ ~Active(stack') /\ Active(stack)
          /\ Cardinality(EotsOf(stack')) = Cardinality(EotsOf(stack))
      BY <1>0, <2>1, <3>1, <3>2, SetTopEot, TopIsFrame
    <3> QED BY <2>1, <3>1, <3>3 DEF StackInv
  <2> QED BY <2>2, <2>3
<1>7. CASE UpdateChanged
  <2>1. TopIs("eot", "batch") /\ UNCHANGED <<depth, open, gcCounter>>
    BY <1>7 DEF UpdateChanged, program, gc
  <2>2. CASE stack' = SetTop([Top EXCEPT !.pc = "loop"])
    BY <1>4, <2>1, <2>2
  <2>3. CASE Visit(Head(Top.list), SetTop([Top EXCEPT !.list = Tail(@)]))
    <3> DEFINE f == [Top EXCEPT !.list = Tail(@)]
    <3>1. Frame(f, "eot") /\ Propagates(f) /\ Propagates(Top)
      BY <1>2, <2>1 DEF Propagates
    <3> HIDE DEF f
    <3>2. /\ Shape(SetTop(f)) /\ Active(SetTop(f)) /\ Active(stack)
          /\ Cardinality(EotsOf(SetTop(f))) = Cardinality(EotsOf(stack))
      BY <1>0, <2>1, <3>1, SetTopEot, TopIsFrame
    <3>3. Visit(Head(Top.list), SetTop(f))
      BY <2>3 DEF f
    <3>4. Shape(stack') /\ Active(stack') /\ EotsOf(stack') = EotsOf(SetTop(f))
      BY <3>2, <3>3, VisitKeeps
    <3> QED BY <2>1, <3>2, <3>4, Quiet
  <2> QED BY <1>7, <2>2, <2>3 DEF UpdateChanged
<1>8. CASE RunPrePost
  <2>1. TopIs("eot", "pre_post") /\ UNCHANGED <<depth, open, gcCounter>>
    BY <1>8 DEF RunPrePost, program, gc
  <2>2. \/ stack' = SetTop([Top EXCEPT !.pc = "post", !.list = post])
        \/ stack' = SetTop([Top EXCEPT !.list = Tail(@)])
    BY <1>8 DEF RunPrePost
  <2>3. CASE stack' = SetTop([Top EXCEPT !.pc = "post", !.list = post])
    <3> DEFINE f == [Top EXCEPT !.pc = "post", !.list = post]
    <3>1. Frame(f, "eot") /\ ~Propagates(f) /\ ~Propagates(Top)
      BY <1>2, <2>1 DEF Propagates, Frame
    <3> HIDE DEF f
    <3>2. stack' = SetTop(f)
      BY <2>3 DEF f
    <3> QED BY <1>1, <2>1, <3>1, <3>2
  <2> QED BY <1>3, <2>1, <2>2, <2>3
<1>9. CASE RunPost
  <2> DEFINE f == [Top EXCEPT !.list = Tail(@)]
  <2>1. TopIs("eot", "post") /\ open' = open
    BY <1>9 DEF RunPost, program, gc
  <2>2. Frame(f, "eot") /\ ~Propagates(f) /\ ~Propagates(Top)
    BY <1>2, <2>1 DEF Propagates, Frame
  <2>3. \/ stack' = SetTop(f) /\ UNCHANGED <<depth, gcCounter>>
        \/ BeginEot(SetTop(f), Head(Top.list)) /\ depth' = depth + 1
    BY <1>9 DEF RunPost, gc
  <2> HIDE DEF f
  <2>4. /\ Shape(SetTop(f)) /\ ~Active(SetTop(f)) /\ ~Active(stack)
        /\ Cardinality(EotsOf(SetTop(f))) = Cardinality(EotsOf(stack))
    BY <1>0, <2>1, <2>2, SetTopEot, TopIsFrame
  <2>5. CASE stack' = SetTop(f) /\ UNCHANGED <<depth, gcCounter>>
    BY <2>1, <2>4, <2>5, Quiet
  <2>6. CASE BeginEot(SetTop(f), Head(Top.list)) /\ depth' = depth + 1
    <3> DEFINE g == Eot("pre_eot", preEot, Head(Top.list))
    <3>1. stack' = Append(SetTop(f), g) /\ gcCounter' = gcCounter + 1
      BY <2>6 DEF BeginEot
    <3>2. Frame(g, "eot") /\ Propagates(g)
      BY DEF Frame, Eot, Propagates
    <3> HIDE DEF g
    <3>3. /\ Shape(stack') /\ Active(stack')
          /\ Cardinality(EotsOf(stack')) = Cardinality(EotsOf(stack)) + 1
      BY <2>4, <3>1, <3>2, PushEot
    <3> QED BY <2>1, <2>4, <2>6, <3>1, <3>3 DEF StackInv
  <2> QED BY <2>3, <2>5, <2>6
<1>10. CASE EndEot
  <2>1. /\ TopIs("eot", "post") /\ stack' = Lower(stack) /\ UNCHANGED <<depth, open>>
        /\ gcCounter' = gcCounter - 1
    BY <1>10 DEF EndEot, Below, Lower, program, gc
  <2>2. /\ Shape(stack') /\ ~Active(stack') /\ ~Active(stack)
        /\ Cardinality(EotsOf(stack')) = Cardinality(EotsOf(stack)) - 1
    BY <1>0, <2>1, TopIsFrame, PopEot DEF Propagates
  <2> QED BY <2>1, <2>2 DEF StackInv
<1> QED BY <1>5, <1>6, <1>7, <1>8, <1>9, <1>10

-----------------------------------------------------------------------------
(* The stack keeps its shape, whatever the network and its closures are.   *)
THEOREM StackShape == Spec => []StackInv
<1>1. Init => StackInv
  <2> SUFFICES ASSUME Init PROVE StackInv
    OBVIOUS
  <2>1. stack = <<>> /\ Len(stack) = 0 /\ stack \in Seq(Frames(stack))
    BY EmptySeq DEF Init
  <2>2. EotsOf(stack) = {} /\ Shape(stack) /\ ~Active(stack)
    BY <2>1 DEF EotsOf, Shape, Active
  <2>3. Cardinality({}) = 0
    BY FS_EmptySet
  <2>4. open = 0 /\ depth = 0 /\ gcCounter = 0
    BY DEF Init
  <2> QED BY <2>2, <2>3, <2>4 DEF StackInv
<1>2. StackInv /\ [Next]_vars => StackInv'
  <2> SUFFICES ASSUME StackInv, [Next]_vars PROVE StackInv'
    OBVIOUS
  <2>1. CASE Program
    BY <2>1, ProgramKeeps
  <2>2. CASE Engine
    BY <2>2, UpdateKeeps, EotKeeps DEF Engine
  <2>3. CASE UNCHANGED context
    BY <2>3 DEF context, program, StackInv
  <2> QED BY <2>1, <2>2, <2>3, StepOf
<1> QED BY <1>1, <1>2, PTL DEF Spec

(* enter_transaction, leave_transaction, end_of_transaction: however the   *)
(* program nests its transactions and however deep post closures nest      *)
(* theirs, transaction_depth counts the ones the program has open and the  *)
(* propagation in progress, and nothing else.                              *)
THEOREM DepthIsExact == Spec => []DepthExact
<1>1. StackInv => DepthExact
  BY TopTells DEF StackInv, DepthExact, Propagating
<1> QED BY <1>1, StackShape, PTL

-----------------------------------------------------------------------------
(* Lists and flags *)

(* The entries of a list.                                                  *)
Entries(s) == {s[i] : i \in 1 .. Len(s)}
IsList(s) == s \in Seq(Entries(s))

-----------------------------------------------------------------------------
(* Induction.  A set of natural numbers has a least member: of the         *)
(* intervals from 0 to one of its members, one has no other inside.        *)
LEMMA LeastNat ==
  ASSUME NEW T \in SUBSET Nat, T # {}
  PROVE  \E m \in T : \A k \in T : m <= k
<1> DEFINE Up(n) == 0 .. n
           X == {Up(n) : n \in T}
           R == StrictSubsetOrdering(Nat)
           F == FiniteSubsetsOf(Nat)
<1>1. \A n \in Nat : IsFiniteSet(0 .. n) /\ 0 .. n \in SUBSET Nat
  BY FS_Interval
<1>2. X \subseteq F
  BY <1>1 DEF FiniteSubsetsOf
<1>3. X # {}
  OBVIOUS
<1>4. IsWellFoundedOn(R, F)
  BY FS_StrictSubsetOrderingWellFounded
<1> HIDE DEF X, R, F
<1>5. PICK x \in X : \A y \in X : <<y, x>> \notin R
  BY <1>2, <1>3, <1>4, WFMin
<1>6. PICK m \in T : x = 0 .. m
  BY <1>5 DEF X
<1>7. ASSUME NEW k \in T, ~(m <= k)
      PROVE  FALSE
  <2>1. 0 .. k \in X
    BY DEF X
  <2>2. /\ 0 .. k \in SUBSET Nat /\ 0 .. m \in SUBSET Nat
        /\ 0 .. k \subseteq 0 .. m /\ 0 .. k # 0 .. m
    <3>1. m \in 0 .. m /\ m \notin 0 .. k
      BY <1>7
    <3>2. 0 .. k \subseteq 0 .. m
      BY <1>7
    <3> QED BY <1>1, <3>1, <3>2
  <2>3. <<0 .. k, 0 .. m>> \in R
    BY <2>2 DEF R, StrictSubsetOrdering
  <2> QED BY <1>5, <1>6, <2>1, <2>3
<1> QED BY <1>7

(* What holds of a and, with n, of n + 1, holds of a .. b.                 *)
LEMMA Induct ==
  ASSUME NEW a \in Nat, NEW b \in Nat, NEW P,
         a \in P, \A n \in a .. b : n + 1 <= b /\ n \in P => n + 1 \in P
  PROVE  a .. b \subseteq P
<1> SUFFICES ASSUME (a .. b) \ P # {} PROVE FALSE
  OBVIOUS
<1> DEFINE T == (a .. b) \ P
<1>0. T \in SUBSET Nat /\ T # {}
  OBVIOUS
<1>1. PICK m \in T : \A k \in T : m <= k
  <2> HIDE DEF T
  <2> QED BY <1>0, LeastNat
<1>2. m \in Nat /\ m # a /\ m \in a .. b /\ m - 1 \in a .. b
  BY <1>1
<1>3. m - 1 \notin T
  BY <1>1, <1>2
<1>4. m - 1 \in P /\ m - 1 + 1 = m
  BY <1>2, <1>3
<1> QED BY <1>1, <1>2, <1>4

-----------------------------------------------------------------------------
(* Lists *)

(* The empty list has no entries; those of others follow.                  *)
LEMMA ListEmpty == IsList(<<>>) /\ Entries(<<>>) = {}
<1>1. Len(<<>>) = 0
  OBVIOUS
<1>2. Entries(<<>>) = {}
  BY <1>1 DEF Entries
<1> QED BY <1>2 DEF IsList

(* A sequence is a list of members of what it is a sequence over.          *)
LEMMA ListOf ==
  ASSUME NEW A, NEW s \in Seq(A)
  PROVE  IsList(s) /\ Entries(s) \subseteq A
<1>1. /\ Len(s) \in Nat /\ \A i \in 1 .. Len(s) : s[i] \in A
      /\ s \in [1 .. Len(s) -> A]
  BY LenProperties, ElementOfSeq
<1>2. s \in [1 .. Len(s) -> Entries(s)]
  BY <1>1 DEF Entries
<1>3. s \in Seq(Entries(s))
  BY <1>1, <1>2, SeqDef
<1> QED BY <1>1, <1>3 DEF IsList, Entries

(* A list with one entry more has that entry besides its own.              *)
LEMMA ListAppend ==
  ASSUME NEW s, IsList(s), NEW x
  PROVE  IsList(Append(s, x)) /\ Entries(Append(s, x)) = Entries(s) \cup {x}
<1> DEFINE t == Append(s, x)
<1>1. /\ t \in Seq(Frames(t)) /\ Len(s) \in Nat /\ Len(t) = Len(s) + 1
      /\ t[Len(s) + 1] = x /\ \A i \in 1 .. Len(s) : t[i] = s[i]
  BY PushSeq DEF IsList, Entries, Frames
<1> HIDE DEF t
<1>2. \A i \in 1 .. Len(t) : i = Len(s) + 1 \/ i \in 1 .. Len(s)
  BY <1>1
<1>3. Len(s) + 1 \in 1 .. Len(t) /\ 1 .. Len(s) \subseteq 1 .. Len(t)
  BY <1>1
<1>4. Entries(t) = Entries(s) \cup {x}
  BY <1>1, <1>2, <1>3 DEF Entries
<1>5. IsList(t)
  BY <1>1 DEF IsList, Entries, Frames
<1> QED BY <1>4, <1>5 DEF t

(* One list after the other is a list of the entries of both.              *)
LEMMA ListConcat ==
  ASSUME NEW s, IsList(s), NEW t, IsList(t)
  PROVE  IsList(s \o t) /\ Entries(s \o t) = Entries(s) \cup Entries(t)
<1> DEFINE A == Entries(s) \cup Entries(t)
           r == s \o t
<1>1. s \in Seq(A) /\ t \in Seq(A)
  BY SeqMonotonic DEF IsList
<1> HIDE DEF A
<1>2. /\ r \in Seq(A) /\ Len(s) \in Nat /\ Len(t) \in Nat
      /\ Len(r) = Len(s) + Len(t)
      /\ \A i \in 1 .. Len(s) + Len(t) : r[i] = IF i <= Len(s) THEN s[i] ELSE t[i - Len(s)]
  BY <1>1, ConcatProperties, LenProperties
<1> HIDE DEF r
<1>3. \A i \in 1 .. Len(s) : i \in 1 .. Len(r) /\ r[i] = s[i]
  BY <1>2
<1>4. \A i \in 1 .. Len(t) : Len(s) + i \in 1 .. Len(r) /\ r[Len(s) + i] = t[i]
  <2> TAKE i \in 1 .. Len(t)
  <2>1. Len(s) + i \in 1 .. Len(s) + Len(t) /\ ~(Len(s) + i <= Len(s)) /\ Len(s) + i - Len(s) = i
    BY <1>2
  <2> QED BY <1>2, <2>1
<1>5. Entries(s) \subseteq Entries(r) /\ Entries(t) \subseteq Entries(r)
  BY <1>3, <1>4 DEF Entries
<1>6. IsList(r) /\ Entries(r) \subseteq A
  BY <1>2, ListOf
<1> QED BY <1>5, <1>6 DEF A, r

(* The head of a list and its tail hold its entries.                       *)
LEMMA ListTail ==
  ASSUME NEW s, IsList(s), s # <<>>
  PROVE  IsList(Tail(s)) /\ Entries(s) = Entries(Tail(s)) \cup {Head(s)}
<1>1. /\ Len(s) \in Nat \ {0} /\ Tail(s) \in Seq(Entries(s)) /\ Len(Tail(s)) = Len(s) - 1
      /\ \A i \in 1 .. Len(Tail(s)) : Tail(s)[i] = s[i + 1]
      /\ Head(s) = s[1]
  BY EmptySeq, LenProperties, HeadTailProperties DEF IsList
<1>2. \A i \in 1 .. Len(s) : i = 1 \/ (i - 1 \in 1 .. Len(Tail(s)) /\ s[i] = Tail(s)[i - 1])
  <2> TAKE i \in 1 .. Len(s)
  <2>1. i # 1 => i - 1 \in 1 .. Len(Tail(s)) /\ i - 1 + 1 = i
    BY <1>1
  <2> QED BY <1>1, <2>1
<1>3. Entries(s) \subseteq Entries(Tail(s)) \cup {Head(s)}
  BY <1>1, <1>2 DEF Entries
<1>4. 1 \in 1 .. Len(s)
  BY <1>1
<1>5. Head(s) \in Entries(s)
  BY <1>1, <1>4 DEF Entries
<1>6. IsList(Tail(s)) /\ Entries(Tail(s)) \subseteq Entries(s)
  <2> DEFINE A == Entries(s)
             t == Tail(s)
  <2>1. t \in Seq(A)
    BY <1>1
  <2> HIDE DEF A, t
  <2>2. IsList(t) /\ Entries(t) \subseteq A
    BY <2>1, ListOf
  <2> QED BY <2>2 DEF A, t
<1> QED BY <1>3, <1>5, <1>6

(* Lists of A one after the other make a list of A, with all their entries. *)
LEMMA FlattenType ==
  ASSUME NEW A, NEW ss \in Seq(Seq(A))
  PROVE  /\ Lists!FlattenSeq(ss) \in Seq(A)
         /\ \A i \in 1 .. Len(ss) : Entries(ss[i]) \subseteq Entries(Lists!FlattenSeq(ss))
<1> DEFINE n == Len(ss)
           Solves(g, k) ==
             /\ g \in [1 .. k -> Seq(A)]
             /\ \A i \in 1 .. k : g[i] = IF i = 1 THEN ss[i] ELSE g[i - 1] \o ss[i]
           f == CHOOSE g : g = [i \in 1 .. n |-> IF i = 1 THEN ss[i] ELSE g[i - 1] \o ss[i]]
<1>1. n \in Nat /\ \A i \in 1 .. n : ss[i] \in Seq(A)
  BY LenProperties, ElementOfSeq
<1>2. Lists!FlattenSeq(ss) = IF n = 0 THEN ss ELSE f[n]
  BY DEF Lists!FlattenSeq
<1>0. n = 0 => ss = <<>>
  BY EmptySeq
<1> HIDE DEF n
<1>3. CASE n = 0
  <2>1. ss = <<>> /\ Lists!FlattenSeq(ss) = <<>>
    BY <1>0, <1>2, <1>3
  <2>2. <<>> \in Seq(A) /\ 1 .. n = {}
    BY <1>3
  <2> QED BY <2>1, <2>2 DEF n
<1>4. CASE n # 0
  <2>0. 1 \in 1 .. n /\ n \in 1 .. n
    BY <1>1, <1>4
  <2>1. \A k \in 1 .. n : \E g : Solves(g, k)
    <3> DEFINE P == {k \in Nat : \E g : Solves(g, k)}
    <3>1. 1 \in P
      <4> DEFINE g == [i \in 1 .. 1 |-> ss[i]]
      <4>1. g \in [1 .. 1 -> Seq(A)] /\ \A i \in 1 .. 1 : i = 1 /\ g[i] = ss[i]
        BY <1>1, <2>0
      <4> HIDE DEF g
      <4>2. Solves(g, 1)
        BY <4>1
      <4> QED BY <4>2
    <3>2. ASSUME NEW k \in 1 .. n, k + 1 <= n, k \in P
          PROVE  k + 1 \in P
      <4>1. PICK g : Solves(g, k)
        BY <3>2
      <4> DEFINE h == [i \in 1 .. k + 1 |-> IF i = k + 1 THEN g[k] \o ss[k + 1] ELSE g[i]]
      <4>2. k \in 1 .. k /\ k + 1 \in 1 .. n /\ k \in Nat /\ k + 1 \notin 1 .. k
            /\ k + 1 \in 1 .. k + 1 /\ 1 .. k \subseteq 1 .. k + 1 /\ k + 1 # 1 /\ k + 1 - 1 = k
        BY <1>1, <3>2
      <4>3. g[k] \o ss[k + 1] \in Seq(A)
        BY <1>1, <4>1, <4>2, ConcatProperties
      <4>4. \A i \in 1 .. k + 1 : i = k + 1 \/ (i \in 1 .. k /\ i # k + 1)
        BY <4>2
      <4>5. h \in [1 .. k + 1 -> Seq(A)]
        BY <4>1, <4>3, <4>4
      <4>6. h[k + 1] = g[k] \o ss[k + 1] /\ \A i \in 1 .. k : h[i] = g[i]
        BY <4>2
      <4> HIDE DEF h
      <4>7. ASSUME NEW i \in 1 .. k + 1
            PROVE  h[i] = IF i = 1 THEN ss[i] ELSE h[i - 1] \o ss[i]
        <5>1. CASE i = k + 1
          <6>1. h[i - 1] = g[k] /\ i # 1
            BY <4>2, <4>6, <5>1
          <6> QED BY <4>6, <5>1, <6>1
        <5>2. CASE i \in 1 .. k
          <6>1. i # 1 => i - 1 \in 1 .. k
            BY <5>2
          <6> QED BY <4>1, <4>6, <5>2, <6>1
        <5> QED BY <4>4, <5>1, <5>2
      <4>8. Solves(h, k + 1)
        BY <4>5, <4>7
      <4>9. \E e : Solves(e, k + 1)
        BY <4>8
      <4> HIDE DEF Solves
      <4> QED BY <4>2, <4>9
    <3> HIDE DEF P
    <3>3. 1 .. n \subseteq P
      BY <1>1, <3>1, <3>2, Induct
    <3> QED BY <3>3 DEF P
  <2>2. PICK g : Solves(g, n)
    BY <2>0, <2>1
  <2>3. g = [i \in 1 .. n |-> IF i = 1 THEN ss[i] ELSE g[i - 1] \o ss[i]]
    BY <2>2
  <2>4. f = [i \in 1 .. n |-> IF i = 1 THEN ss[i] ELSE f[i - 1] \o ss[i]]
    BY <2>3
  <2> HIDE DEF f
  <2>6. \A i \in 1 .. n : f[i] = IF i = 1 THEN ss[i] ELSE f[i - 1] \o ss[i]
    <3> DEFINE e == [i \in 1 .. n |-> IF i = 1 THEN ss[i] ELSE f[i - 1] \o ss[i]]
    <3>1. \A i \in 1 .. n : e[i] = IF i = 1 THEN ss[i] ELSE f[i - 1] \o ss[i]
      OBVIOUS
    <3>2. f = e
      BY <2>4
    <3> HIDE DEF e
    <3> QED BY <3>1, <3>2
  <2>5. f[n] \in Seq(A) /\ \A i \in 1 .. n : Entries(ss[i]) \subseteq Entries(f[n])
    <3> DEFINE P == {k \in 1 .. n : /\ f[k] \in Seq(A)
                                    /\ \A i \in 1 .. k : Entries(ss[i]) \subseteq Entries(f[k])}
    <3>1. 1 \in P
      BY <1>1, <2>0, <2>6
    <3>2. ASSUME NEW k \in 1 .. n, k + 1 <= n, k \in P
          PROVE  k + 1 \in P
      <4> DEFINE j == k + 1
      <4>1. j \in 1 .. n /\ j # 1 /\ j - 1 = k /\ \A i \in 1 .. j : i = j \/ i \in 1 .. k
        BY <1>1, <3>2
      <4> HIDE DEF j
      <4>2. f[j] = f[k] \o ss[j]
        <5>1. f[j] = f[j - 1] \o ss[j]
          BY <2>6, <4>1
        <5> QED BY <4>1, <5>1
      <4>3. f[k] \in Seq(A) /\ ss[j] \in Seq(A)
        BY <1>1, <3>2, <4>1
      <4>4. Entries(f[j]) = Entries(f[k]) \cup Entries(ss[j]) /\ f[j] \in Seq(A)
        BY <4>2, <4>3, ListOf, ListConcat, ConcatProperties
      <4>5. \A i \in 1 .. j : Entries(ss[i]) \subseteq Entries(f[j])
        BY <3>2, <4>1, <4>4
      <4>6. j \in P
        BY <4>1, <4>4, <4>5
      <4> QED BY <4>6 DEF j
    <3> HIDE DEF P
    <3>3. 1 .. n \subseteq P
      BY <1>1, <3>1, <3>2, Induct
    <3>4. n \in P
      BY <2>0, <3>3
    <3> QED BY <3>4 DEF P
  <2> QED BY <1>2, <1>4, <2>5 DEF n
<1> QED BY <1>3, <1>4

(* Making the nodes after the first a, up to b, leaves the other cells as  *)
(* they are.                                                               *)
LEMMA FoundedKeeps ==
  ASSUME NEW nt, NEW held, NEW a \in Nat, NEW b \in Nat, a <= b
  PROVE  /\ DOMAIN Founded(nt, held, a, b) = DOMAIN held
         /\ \A c \in DOMAIN held : c \notin a + 1 .. b => Founded(nt, held, a, b)[c] = held[c]
<1> DEFINE Step(i, w) == IF nt.kind[i] # "hold" THEN w
                         ELSE [w EXCEPT ![i] = FirstValue(nt, i, w)]
           Solves(g, k) == g = [i \in a .. k |-> IF i = a THEN held ELSE Step(i, g[i - 1])]
           f == CHOOSE g : Solves(g, b)
<1>1. Founded(nt, held, a, b) = f[b]
  BY DEF Founded
<1>2. ASSUME NEW i, NEW w, DOMAIN w = DOMAIN held, i \in a + 1 .. b
      PROVE  /\ DOMAIN Step(i, w) = DOMAIN held
             /\ \A c \in DOMAIN held : c \notin a + 1 .. b => Step(i, w)[c] = w[c]
  BY <1>2
<1>0. a \in a .. b /\ b \in a .. b
  OBVIOUS
<1> HIDE DEF Step
<1>3. \A k \in a .. b : \E g : Solves(g, k)
  <2> DEFINE P == {k \in a .. b : \E g : Solves(g, k)}
  <2>1. a \in P
    <3> DEFINE g == [i \in a .. a |-> held]
    <3>1. \A i \in a .. a : i = a
      OBVIOUS
    <3>2. g = [i \in a .. a |-> IF i = a THEN held ELSE Step(i, g[i - 1])]
      BY <3>1
    <3> QED BY <1>0, <3>2
  <2>2. ASSUME NEW k \in a .. b, k + 1 <= b, k \in P
        PROVE  k + 1 \in P
    <3>1. PICK g : Solves(g, k)
      BY <2>2
    <3> DEFINE j == k + 1
               h == [i \in a .. j |-> IF i = j THEN Step(j, g[k]) ELSE g[i]]
    <3>2. /\ j \in a .. b /\ j # a /\ j - 1 = k /\ k \in a .. k /\ j \in a .. j
          /\ \A i \in a .. j : i = j \/ (i \in a .. k /\ i # j /\ (i # a => i - 1 \in a .. k /\ i - 1 # j))
          /\ a .. k \subseteq a .. j
      BY <2>2
    <3>3. h[j] = Step(j, g[k]) /\ \A i \in a .. k : h[i] = g[i]
      BY <3>2
    <3>8. \A i \in a .. k : g[i] = IF i = a THEN held ELSE Step(i, g[i - 1])
      <4> DEFINE e == [i \in a .. k |-> IF i = a THEN held ELSE Step(i, g[i - 1])]
      <4>1. \A i \in a .. k : e[i] = IF i = a THEN held ELSE Step(i, g[i - 1])
        OBVIOUS
      <4>2. g = e
        BY <3>1
      <4> HIDE DEF e
      <4> QED BY <4>1, <4>2
    <3>4. h = [i \in a .. j |-> h[i]]
      OBVIOUS
    <3> HIDE DEF h
    <3>5. ASSUME NEW i \in a .. j
          PROVE  h[i] = IF i = a THEN held ELSE Step(i, h[i - 1])
      <4>1. CASE i = j
        <5>1. h[i - 1] = g[k] /\ i # a
          BY <3>2, <3>3, <4>1
        <5> QED BY <3>3, <4>1, <5>1
      <4>2. CASE i = a
        BY <3>2, <3>3, <3>8, <4>2
      <4>3. CASE i # j /\ i # a
        <5>1. i \in a .. k /\ i - 1 \in a .. k
          BY <3>2, <4>3
        <5>2. h[i] = g[i] /\ h[i - 1] = g[i - 1]
          BY <3>3, <5>1
        <5> QED BY <3>8, <4>3, <5>1, <5>2
      <4> QED BY <4>1, <4>2, <4>3
    <3>6. Solves(h, j)
      BY <3>4, <3>5
    <3>7. \E e : Solves(e, j)
      BY <3>6
    <3> HIDE DEF Solves, j
    <3>9. j \in P
      BY <3>2, <3>7
    <3> QED BY <3>9 DEF j
  <2> HIDE DEF P
  <2>3. a .. b \subseteq P
    BY <2>1, <2>2, Induct
  <2> QED BY <2>3 DEF P
<1>4. Solves(f, b)
  <2>1. PICK g : Solves(g, b)
    BY <1>0, <1>3
  <2> QED BY <2>1
<1> HIDE DEF f
<1>5. \A i \in a .. b : f[i] = IF i = a THEN held ELSE Step(i, f[i - 1])
  <2> DEFINE e == [i \in a .. b |-> IF i = a THEN held ELSE Step(i, f[i - 1])]
  <2>1. \A i \in a .. b : e[i] = IF i = a THEN held ELSE Step(i, f[i - 1])
    OBVIOUS
  <2>2. f = e
    BY <1>4
  <2> HIDE DEF e
  <2> QED BY <2>1, <2>2
<1> DEFINE Same(w) == /\ DOMAIN w = DOMAIN held
                      /\ \A c \in DOMAIN held : c \notin a + 1 .. b => w[c] = held[c]
           P == {k \in a .. b : Same(f[k])}
<1>6. a \in P
  BY <1>0, <1>5
<1>7. ASSUME NEW k \in a .. b, k + 1 <= b, k \in P
      PROVE  k + 1 \in P
  <2> DEFINE j == k + 1
  <2>1. j \in a .. b /\ j # a /\ j - 1 = k /\ j \in a + 1 .. b
    BY <1>7
  <2> HIDE DEF j
  <2>2. f[j] = Step(j, f[k])
    BY <1>5, <2>1
  <2>3. Same(f[k])
    BY <1>7
  <2>4. Same(f[j])
    BY <1>2, <2>1, <2>2, <2>3
  <2>5. j \in P
    BY <2>1, <2>4
  <2> QED BY <2>5 DEF j
<1> HIDE DEF P
<1>8. a .. b \subseteq P
  BY <1>6, <1>7, Induct
<1> QED BY <1>0, <1>1, <1>8 DEF P

(* InOrder puts every member of its set into the list.                     *)
Ascends(s, T) == /\ s \in [1 .. Cardinality(T) -> T]
                 /\ \A i, j \in DOMAIN s : i < j => s[i] < s[j]

(* An ascending list grows at its end.                                     *)
LEMMA AscendsMore ==
  ASSUME NEW T \in SUBSET Nat, IsFiniteSet(T), NEW m \in Nat, \A x \in T : x < m,
         NEW s, Ascends(s, T)
  PROVE  \E h : Ascends(h, T \cup {m})
<1> DEFINE c == Cardinality(T)
           d == c + 1
           h == [i \in 1 .. d |-> IF i = d THEN m ELSE s[i]]
<1>1. c \in Nat
  BY FS_CardinalityType
<1>2. m \notin T
  OBVIOUS
<1>3. Cardinality(T \cup {m}) = d
  BY <1>2, FS_AddElement
<1>4. s \in [1 .. c -> T] /\ \A i, j \in DOMAIN s : i < j => s[i] < s[j]
  BY DEF Ascends
<1> HIDE DEF c
<1>5. DOMAIN s = 1 .. c /\ \A i \in 1 .. c : s[i] \in T
  BY <1>4
<1>6. d \in 1 .. d /\ d \notin 1 .. c /\ \A i \in 1 .. d : i = d \/ (i \in 1 .. c /\ i # d)
  BY <1>1
<1>9. \A i, j \in 1 .. d : i < j => i \in 1 .. c
  BY <1>1
<1>12. 1 .. c \subseteq 1 .. d
  BY <1>1
<1> HIDE DEF d
<1>7. h \in [1 .. d -> T \cup {m}]
  BY <1>5, <1>6
<1>8. h[d] = m /\ \A i \in 1 .. c : h[i] = s[i] /\ h[i] \in T
  BY <1>5, <1>6, <1>12
<1> HIDE DEF h
<1>10. ASSUME NEW i \in 1 .. d, NEW j \in 1 .. d, i < j
       PROVE  h[i] < h[j]
  <2>1. i \in 1 .. c
    BY <1>9, <1>10
  <2>2. CASE j = d
    BY <1>8, <2>1, <2>2
  <2>3. CASE j \in 1 .. c
    <3>1. s[i] < s[j]
      BY <1>4, <1>5, <1>10, <2>1, <2>3
    <3> QED BY <1>8, <2>1, <2>3, <3>1
  <2> QED BY <1>6, <2>2, <2>3
<1>11. Ascends(h, T \cup {m})
  BY <1>3, <1>7, <1>10 DEF Ascends
<1> QED BY <1>11

(* InOrder, which gives a router its routes, lists the numbers of a set    *)
(* and nothing else.                                                       *)
LEMMA InOrderList ==
  ASSUME NEW n \in Nat, NEW S \in SUBSET (1 .. n)
  PROVE  IsList(InOrder(S)) /\ Entries(InOrder(S)) = S
<1> DEFINE UpTo(k) == {x \in S : x <= k}
<1>0. \A x \in S : x \in Nat /\ x \in Int /\ 1 <= x /\ x <= n
  OBVIOUS
<1>1. /\ \A T \in SUBSET S : IsFiniteSet(T) /\ Cardinality(T) \in Nat
      /\ S \in SUBSET S /\ \A k : UpTo(k) \in SUBSET S /\ UpTo(k) \in SUBSET Nat
  <2>1. IsFiniteSet(1 .. n)
    BY FS_Interval
  <2>2. S \subseteq Nat
    OBVIOUS
  <2> QED BY <2>1, <2>2, FS_Subset, FS_CardinalityType
<1>2. \A k \in 0 .. n : \E s : Ascends(s, UpTo(k))
  <2> DEFINE P == {k \in Nat : \E s : Ascends(s, UpTo(k))}
  <2>1. 0 \in P
    <3> DEFINE s == [i \in 1 .. 0 |-> 0]
    <3>5. UpTo(0) = {}
      <4>1. \A x \in S : ~(x <= 0)
        BY <1>0
      <4> QED BY <4>1
    <3>6. 1 .. 0 = {}
      OBVIOUS
    <3>1. UpTo(0) = {} /\ Cardinality({}) = 0 /\ 1 .. 0 = {}
      BY <3>5, <3>6, FS_EmptySet
    <3>3. s \in [1 .. 0 -> {}] /\ DOMAIN s = {}
      BY <3>1
    <3>2. Ascends(s, {})
      <4> HIDE DEF s
      <4> QED BY <3>1, <3>3 DEF Ascends
    <3>4. \E r : Ascends(r, UpTo(0))
      BY <3>1, <3>2
    <3> HIDE DEF UpTo
    <3> QED BY <3>4
  <2>2. ASSUME NEW k \in 0 .. n, k + 1 <= n, k \in P
        PROVE  k + 1 \in P
    <3>1. PICK s : Ascends(s, UpTo(k))
      BY <2>2
    <3> DEFINE m == k + 1
    <3>0. m \in Nat /\ \A x \in UpTo(k) : x < m
      BY <2>2
    <3>4. \A x \in S : x <= m <=> (x <= k \/ x = m)
      BY <1>0, <2>2
    <3> HIDE DEF m
    <3>2. CASE m \notin S
      <4>1. UpTo(m) = UpTo(k)
        BY <3>2, <3>4
      <4> HIDE DEF UpTo
      <4>2. \E r : Ascends(r, UpTo(m))
        BY <3>1, <4>1
      <4> QED BY <3>0, <4>2 DEF m
    <3>3. CASE m \in S
      <4>1. UpTo(m) = UpTo(k) \cup {m}
        BY <3>0, <3>3, <3>4
      <4>2. UpTo(k) \in SUBSET Nat /\ IsFiniteSet(UpTo(k))
        BY <1>1
      <4> HIDE DEF UpTo
      <4>3. \E r : Ascends(r, UpTo(m))
        BY <3>0, <3>1, <4>1, <4>2, AscendsMore
      <4>4. m \in P
        BY <3>0, <4>3
      <4> QED BY <4>4 DEF m
    <3> QED BY <3>2, <3>3
  <2> HIDE DEF P, UpTo
  <2>3. 0 .. n \subseteq P
    BY <2>1, <2>2, Induct
  <2> QED BY <2>3 DEF P
<1>3. UpTo(n) = S
  BY <1>0
<1>4. \E s : Ascends(s, S)
  <2> HIDE DEF UpTo
  <2>1. n \in 0 .. n
    OBVIOUS
  <2> QED BY <1>2, <1>3, <2>1
<1> DEFINE s == InOrder(S)
           c == Cardinality(S)
<1>5. Ascends(s, S)
  <2>1. s = CHOOSE r \in [1 .. Cardinality(S) -> S] : \A i, j \in DOMAIN r : i < j => r[i] < r[j]
    BY DEF InOrder
  <2>2. \E r \in [1 .. Cardinality(S) -> S] : \A i, j \in DOMAIN r : i < j => r[i] < r[j]
    BY <1>4 DEF Ascends
  <2> HIDE DEF s
  <2> QED BY <2>1, <2>2 DEF Ascends
<1> HIDE DEF s
<1>6. c \in Nat /\ IsFiniteSet(S) /\ IsFiniteSet(1 .. c) /\ Cardinality(1 .. c) = c
  <2>1. c \in Nat /\ IsFiniteSet(S)
    BY <1>1
  <2> HIDE DEF c
  <2>2. IsFiniteSet(1 .. c) /\ (Cardinality(1 .. c) = IF 1 > c THEN 0 ELSE c - 1 + 1)
    BY <2>1, FS_Interval
  <2> QED BY <2>1, <2>2
<1>7. s \in [1 .. c -> S] /\ \A i, j \in 1 .. c : i < j => s[i] < s[j]
  BY <1>5 DEF Ascends
<1>13. Cardinality(S) = c
  OBVIOUS
<1> HIDE DEF c
<1>12. \A i, j \in 1 .. c : s[i] = s[j] => i = j
  <2>1. \A i \in 1 .. c : s[i] \in Int
    <3>1. \A i \in 1 .. c : s[i] \in S
      BY <1>7
    <3> QED BY <1>0, <3>1
  <2>2. \A i, j \in 1 .. c : ~(s[i] < s[j] /\ s[i] = s[j]) /\ (i < j \/ j < i \/ i = j)
    BY <1>6, <2>1
  <2> QED BY <1>7, <2>2
<1>8. s \in Injection(1 .. c, S)
  BY <1>7, <1>12 DEF Injection, IsInjective
<1>9. s \in Surjection(1 .. c, S)
  BY <1>6, <1>8, <1>13, FS_Injection, FS_Surjection
<1>10. s \in Seq(S) /\ Len(s) = c
  BY <1>6, <1>7, SeqDef, LenProperties
<1>11. Entries(s) = S
  BY <1>7, <1>9, <1>10 DEF Entries, Surjection
<1> QED BY <1>10, <1>11 DEF s, IsList

-----------------------------------------------------------------------------
(* The inductive invariant.  Every flag that is set is owed its reset by a *)
(* closure that pre_post has yet to run.                                   *)

(* pre_eot and pre_post keep set only the flags of nodes the program made. *)
Fresh(nt, s) ==
  /\ IsList(s)
  /\ \A k \in Entries(s) : k.op \in {"mark", "forget"} => k.node \notin 1 .. nt.start

FrameClean(nt, f) ==
  /\ f.op = "eot" => "list" \in DOMAIN f
  /\ f.op = "eot" /\ f.pc \in {"pre_eot", "pre_post"} => Fresh(nt, f.list)
  /\ f.op = "update" => "node" \in DOMAIN f
  /\ f.op = "update" /\ f.pc = "switching" => nt.kind[f.node] = "outerC"

AllClean(nt, s) == \A i \in 1 .. Len(s) : FrameClean(nt, s[i])

Due(K, op, n) == \E k \in K : k.op = op /\ k.node = n

Covered(nt, vi, ch, fi, K) ==
  /\ DOMAIN vi = Nodes(nt) /\ DOMAIN ch = Nodes(nt) /\ DOMAIN fi = Nodes(nt)
  /\ \A n \in Nodes(nt) :
       /\ fi[n] # NoEvent => Due(K, "clear", n)
       /\ vi[n] => Due(K, "unvisit", n)
       /\ ch[n] /\ n <= nt.start /\ nt.kind[n] # "outerC" => Due(K, "clear", n)

(* The closures of pre_post that have not run.                             *)
Pending(s) ==
  IF s # <<>> /\ s[Len(s)].op = "eot" /\ s[Len(s)].pc = "pre_post"
  THEN Entries(s[Len(s)].list) ELSE {}

NetInv ==
  /\ net \in Networks /\ built \in net.start .. Len(net.kind) /\ DOMAIN value = Nodes(net)

FlagsInv == Covered(net, visited, changed, firing, Entries(prePost) \cup Pending(stack))

IdleInv ==
  /\ stack # <<>> => open = 0
  /\ stack # <<>> /\ ~Active(stack) => prePost = <<>> /\ changedNodes = <<>>

CleanInv ==
  /\ NetInv
  /\ Fresh(net, preEot) /\ Fresh(net, prePost) /\ AllClean(net, stack)
  /\ IdleInv
  /\ FlagsInv

-----------------------------------------------------------------------------
(* Lists of closures *)

(* The empty list sets no flags; what others may set follows.              *)
LEMMA FreshEmpty == ASSUME NEW nt PROVE Fresh(nt, <<>>)
BY ListEmpty DEF Fresh

(* A list of closures that leaves the flags of old nodes alone does so     *)
(* with one more of the kind,                                              *)
LEMMA FreshAppend ==
  ASSUME NEW nt, NEW s, Fresh(nt, s), NEW k,
         k.op \in {"mark", "forget"} => k.node \notin 1 .. nt.start
  PROVE  /\ Fresh(nt, Append(s, k))
         /\ Entries(Append(s, k)) = Entries(s) \cup {k}
BY ListAppend DEF Fresh

(* and so do two of them, one after the other,                             *)
LEMMA FreshConcat ==
  ASSUME NEW nt, NEW s, Fresh(nt, s), NEW t, Fresh(nt, t)
  PROVE  /\ Fresh(nt, s \o t)
         /\ Entries(s \o t) = Entries(s) \cup Entries(t)
BY ListConcat DEF Fresh

(* and one of them without its first.                                      *)
LEMMA FreshTail ==
  ASSUME NEW nt, NEW s, Fresh(nt, s), s # <<>>
  PROVE  /\ Fresh(nt, Tail(s)) /\ Entries(s) = Entries(Tail(s)) \cup {Head(s)}
         /\ Head(s).op \in {"mark", "forget"} => Head(s).node \notin 1 .. nt.start
<1>1. IsList(Tail(s)) /\ Entries(s) = Entries(Tail(s)) \cup {Head(s)}
  BY ListTail DEF Fresh
<1> QED BY <1>1 DEF Fresh

-----------------------------------------------------------------------------
(* Flags *)

(* More may be owed than has to be.                                        *)
LEMMA CoveredMore ==
  ASSUME NEW nt, NEW vi, NEW ch, NEW fi, NEW K, NEW L, Covered(nt, vi, ch, fi, K), K \subseteq L
  PROVE  Covered(nt, vi, ch, fi, L)
BY DEF Covered, Due

(* A stream fires.                                                         *)
LEMMA CoveredFire ==
  ASSUME NEW nt, NEW vi, NEW ch, NEW fi, NEW K, NEW L, Covered(nt, vi, ch, fi, K),
         NEW n, NEW a, K \subseteq L, fi[n] = NoEvent => Due(L, "clear", n)
  PROVE  /\ Covered(nt, vi, [ch EXCEPT ![n] = TRUE], [fi EXCEPT ![n] = a], L)
         /\ \A o : nt.kind[o] = "outerC" =>
              Covered(nt, vi, [ch EXCEPT ![o] = TRUE, ![n] = TRUE], [fi EXCEPT ![n] = a], L)
<1>1. Covered(nt, vi, ch, fi, L)
  BY CoveredMore
<1>2. n \in Nodes(nt) => Due(L, "clear", n)
  BY <1>1 DEF Covered
<1>3. ASSUME NEW c, DOMAIN c = Nodes(nt),
             \A m \in Nodes(nt) : c[m] = ch[m] \/ m = n \/ nt.kind[m] = "outerC"
      PROVE  Covered(nt, vi, c, [fi EXCEPT ![n] = a], L)
  <2> DEFINE f == [fi EXCEPT ![n] = a]
  <2>1. DOMAIN f = Nodes(nt) /\ \A m \in Nodes(nt) : m # n => f[m] = fi[m]
    BY DEF Covered
  <2> HIDE DEF f
  <2> QED BY <1>1, <1>2, <1>3, <2>1 DEF Covered
<1>4. DOMAIN ch = Nodes(nt)
  BY DEF Covered
<1> DEFINE c == [ch EXCEPT ![n] = TRUE]
<1>5. DOMAIN c = Nodes(nt) /\ \A m \in Nodes(nt) : c[m] = ch[m] \/ m = n
  BY <1>4
<1>6. ASSUME NEW o, nt.kind[o] = "outerC"
      PROVE  Covered(nt, vi, [ch EXCEPT ![o] = TRUE, ![n] = TRUE], [fi EXCEPT ![n] = a], L)
  <2> DEFINE d == [ch EXCEPT ![o] = TRUE, ![n] = TRUE]
  <2>1. DOMAIN d = Nodes(nt)
        /\ \A m \in Nodes(nt) : d[m] = ch[m] \/ m = n \/ nt.kind[m] = "outerC"
    BY <1>4, <1>6
  <2> HIDE DEF d
  <2> QED BY <1>3, <2>1 DEF d
<1> HIDE DEF c
<1> QED BY <1>3, <1>5, <1>6 DEF c

(* A node made in this transaction counts as changed.                      *)
LEMMA CoveredMark ==
  ASSUME NEW nt, NEW vi, NEW ch, NEW fi, NEW K, NEW L, Covered(nt, vi, ch, fi, K), K \subseteq L,
         NEW n, n \notin 1 .. nt.start,
         \A m \in Nodes(nt) : m <= nt.start => m \in 1 .. nt.start
  PROVE  Covered(nt, vi, [ch EXCEPT ![n] = TRUE], fi, L)
<1>1. Covered(nt, vi, ch, fi, L)
  BY CoveredMore
<1> DEFINE c == [ch EXCEPT ![n] = TRUE]
<1>2. DOMAIN c = Nodes(nt) /\ \A m \in Nodes(nt) : m # n => c[m] = ch[m]
  BY DEF Covered
<1> HIDE DEF c
<1>3. Covered(nt, vi, c, fi, L)
  BY <1>1, <1>2 DEF Covered
<1> QED BY <1>3 DEF c

(* A node is visited.                                                      *)
LEMMA CoveredVisit ==
  ASSUME NEW nt, NEW vi, NEW ch, NEW fi, NEW K, NEW L, Covered(nt, vi, ch, fi, K), K \subseteq L,
         NEW n, Due(L, "unvisit", n)
  PROVE  Covered(nt, [vi EXCEPT ![n] = TRUE], ch, fi, L)
<1>1. Covered(nt, vi, ch, fi, L)
  BY CoveredMore
<1> DEFINE v == [vi EXCEPT ![n] = TRUE]
<1>2. DOMAIN v = Nodes(nt) /\ \A m \in Nodes(nt) : m # n => v[m] = vi[m]
  BY DEF Covered
<1> HIDE DEF v
<1>3. Covered(nt, v, ch, fi, L)
  BY <1>1, <1>2 DEF Covered
<1> QED BY <1>3 DEF v

(* A closure of pre_post runs.                                             *)
LEMMA CoveredReset ==
  ASSUME NEW nt, NEW vi, NEW ch, NEW fi, NEW K, NEW k, Covered(nt, vi, ch, fi, K \cup {k}),
         k.op \in {"mark", "forget"} => k.node \notin 1 .. nt.start,
         \A n \in Nodes(nt) : n <= nt.start => n \in 1 .. nt.start
  PROVE  /\ k.op = "clear" => Covered(nt, vi, [ch EXCEPT ![k.node] = FALSE],
                                      [fi EXCEPT ![k.node] = NoEvent], K)
         /\ k.op = "forget" => Covered(nt, vi, [ch EXCEPT ![k.node] = TRUE],
                                       [fi EXCEPT ![k.node] = NoEvent], K)
         /\ k.op = "unvisit" => Covered(nt, [vi EXCEPT ![k.node] = FALSE], ch, fi, K)
         /\ k.op \notin {"clear", "unvisit"} => Covered(nt, vi, ch, fi, K)
<1> DEFINE n == k.node
           f == [fi EXCEPT ![n] = NoEvent]
           c == [ch EXCEPT ![n] = FALSE]
           d == [ch EXCEPT ![n] = TRUE]
           v == [vi EXCEPT ![n] = FALSE]
<1>1. /\ DOMAIN vi = Nodes(nt) /\ DOMAIN ch = Nodes(nt) /\ DOMAIN fi = Nodes(nt)
      /\ DOMAIN f = Nodes(nt) /\ DOMAIN c = Nodes(nt) /\ DOMAIN d = Nodes(nt)
      /\ DOMAIN v = Nodes(nt)
  BY DEF Covered
<1>2. \A m \in Nodes(nt) : /\ m # n => f[m] = fi[m] /\ c[m] = ch[m] /\ d[m] = ch[m] /\ v[m] = vi[m]
                           /\ m = n => f[m] = NoEvent /\ c[m] = FALSE /\ v[m] = FALSE
  BY <1>1
<1>3. \A m, op : Due(K \cup {k}, op, m) => Due(K, op, m) \/ (op = k.op /\ m = n)
  BY DEF Due
<1> HIDE DEF n, f, c, d, v
<1>4. k.op = "clear" => Covered(nt, vi, c, f, K)
  BY <1>1, <1>2, <1>3 DEF Covered
<1>5. k.op = "forget" => Covered(nt, vi, d, f, K)
  BY <1>1, <1>2, <1>3 DEF Covered, n
<1>6. k.op = "unvisit" => Covered(nt, v, ch, fi, K)
  BY <1>1, <1>2, <1>3 DEF Covered
<1>7. k.op \notin {"clear", "unvisit"} => Covered(nt, vi, ch, fi, K)
  BY <1>1, <1>3 DEF Covered
<1> QED BY <1>4, <1>5, <1>6, <1>7 DEF n, f, c, d, v

-----------------------------------------------------------------------------
(* A call begins, and returns.                                             *)
LEMMA CleanPush ==
  ASSUME NEW nt, NEW s, s \in Seq(Frames(s)), AllClean(nt, s), NEW f, FrameClean(nt, f)
  PROVE  /\ AllClean(nt, Append(s, f)) /\ Append(s, f) # <<>>
         /\ Append(s, f) \in Seq(Frames(Append(s, f)))
         /\ Pending(Append(s, f)) =
              IF f.op = "eot" /\ f.pc = "pre_post" THEN Entries(f.list) ELSE {}
<1> DEFINE t == Append(s, f)
<1>1. /\ t \in Seq(Frames(t)) /\ t # <<>> /\ Len(s) \in Nat /\ Len(t) = Len(s) + 1
      /\ t[Len(s) + 1] = f /\ \A i \in 1 .. Len(s) : t[i] = s[i]
  BY PushSeq
<1> HIDE DEF t
<1>2. \A i \in 1 .. Len(t) : i = Len(s) + 1 \/ i \in 1 .. Len(s)
  BY <1>1
<1>3. AllClean(nt, t)
  BY <1>1, <1>2 DEF AllClean
<1>4. Pending(t) = IF f.op = "eot" /\ f.pc = "pre_post" THEN Entries(f.list) ELSE {}
  BY <1>1 DEF Pending
<1> QED BY <1>1, <1>3, <1>4 DEF t

(* When the top call returns, the calls that remain are still clean, and   *)
(* so was the top one.                                                     *)
LEMMA CleanPop ==
  ASSUME NEW nt, NEW s, s \in Seq(Frames(s)), s # <<>>, AllClean(nt, s)
  PROVE  /\ AllClean(nt, Lower(s)) /\ FrameClean(nt, s[Len(s)])
         /\ Lower(s) \in Seq(Frames(Lower(s)))
<1> DEFINE t == Lower(s)
<1>1. /\ t \in Seq(Frames(t)) /\ Len(s) \in Nat \ {0} /\ Len(t) = Len(s) - 1
      /\ \A i \in 1 .. Len(s) - 1 : t[i] = s[i]
  BY PopSeq
<1> HIDE DEF t
<1>2. Len(s) \in 1 .. Len(s) /\ \A i \in 1 .. Len(t) : i \in 1 .. Len(s) /\ t[i] = s[i]
  BY <1>1
<1> QED BY <1>1, <1>2 DEF AllClean, t

(* The top frame is replaced.                                              *)
LEMMA CleanTop ==
  ASSUME StackInv, AllClean(net, stack), stack # <<>>
  PROVE  /\ FrameClean(net, Top)
         /\ \A f : FrameClean(net, f) =>
              /\ AllClean(net, SetTop(f)) /\ SetTop(f) # <<>>
              /\ SetTop(f) \in Seq(Frames(SetTop(f)))
              /\ Pending(SetTop(f)) =
                   IF f.op = "eot" /\ f.pc = "pre_post" THEN Entries(f.list) ELSE {}
<1>1. stack \in Seq(Frames(stack))
  BY DEF StackInv, Shape
<1>2. /\ AllClean(net, Lower(stack)) /\ FrameClean(net, Top)
      /\ Lower(stack) \in Seq(Frames(Lower(stack)))
  BY <1>1, CleanPop DEF Top
<1>3. ASSUME NEW f, FrameClean(net, f)
      PROVE  /\ AllClean(net, SetTop(f)) /\ SetTop(f) # <<>>
             /\ SetTop(f) \in Seq(Frames(SetTop(f)))
             /\ Pending(SetTop(f)) =
                  IF f.op = "eot" /\ f.pc = "pre_post" THEN Entries(f.list) ELSE {}
  <2>1. SetTop(f) = Append(Lower(stack), f)
    BY DEF SetTop, Below, Lower
  <2> HIDE DEF Lower
  <2> QED BY <1>2, <1>3, <2>1, CleanPush
<1> QED BY <1>2, <1>3

-----------------------------------------------------------------------------
(* Steps of a propagation *)

(* While it lasts, pre_post only grows: a step leaves what it finds owed.  *)
LEMMA NothingPending ==
  ASSUME StackInv, Active(stack)
  PROVE  stack # <<>> /\ Pending(stack) = {}
BY DEF Active, Propagates, Pending

(* Such a step has only to respect the lists and the flags.                *)
LEMMA ActiveStep ==
  ASSUME StackInv, StackInv', CleanInv, Active(stack),
         UNCHANGED <<net, built, value, open, depth>>,
         AllClean(net, stack'), Fresh(net, preEot'), Fresh(net, prePost'),
         Covered(net, visited', changed', firing', Entries(prePost'))
  PROVE  CleanInv'
<1>1. Active(stack')
  <2>1. open \in Nat /\ depth = open + 1
    BY DEF StackInv
  <2>2. depth = open + (IF Active(stack') THEN 1 ELSE 0)
    BY DEF StackInv
  <2> QED BY <2>1, <2>2
<1>2. NetInv'
  BY DEF CleanInv, NetInv, Nodes
<1>3. IdleInv'
  BY <1>1, NothingPending DEF CleanInv, IdleInv
<1>4. FlagsInv'
  <2>1. Entries(prePost') \subseteq Entries(prePost') \cup Pending(stack')
    OBVIOUS
  <2>2. Covered(net, visited', changed', firing', Entries(prePost') \cup Pending(stack'))
    BY <2>1, CoveredMore
  <2> QED BY <2>2 DEF FlagsInv
<1> QED BY <1>2, <1>3, <1>4 DEF CleanInv

(* _send: the first event of a stream queues its clearing.                 *)
LEMMA FireKeeps ==
  ASSUME Fresh(net, prePost), Covered(net, visited, changed, firing, Entries(prePost)),
         NEW STATE n, NEW STATE a, Fire(n, a)
  PROVE  /\ Fresh(net, prePost')
         /\ Covered(net, visited, changed', firing', Entries(prePost'))
<1> DEFINE k == [op |-> "clear", node |-> n]
           b == IF net.kind[n] = "coalescing" /\ firing[n] # NoEvent THEN Coalesce(firing[n], a)
                ELSE a
<1>1. k.op = "clear" /\ k.node = n
  OBVIOUS
<1>2. /\ firing' = [firing EXCEPT ![n] = b] /\ changed' = [changed EXCEPT ![n] = TRUE]
      /\ prePost' = IF firing[n] = NoEvent THEN Append(prePost, k) ELSE prePost
  BY DEF Fire
<1> HIDE DEF k, b
<1>3. /\ Fresh(net, prePost') /\ Entries(prePost) \subseteq Entries(prePost')
      /\ firing[n] = NoEvent => Due(Entries(prePost'), "clear", n)
  <2>1. CASE firing[n] = NoEvent
    <3>1. Fresh(net, prePost') /\ Entries(prePost') = Entries(prePost) \cup {k}
      BY <1>1, <1>2, <2>1, FreshAppend
    <3> QED BY <1>1, <3>1 DEF Due
  <2>2. CASE firing[n] # NoEvent
    BY <1>2, <2>2
  <2> QED BY <2>1, <2>2
<1> QED BY <1>2, <1>3, CoveredFire

(* The closures for the nodes of a list.                                   *)
LEMMA ClosuresFor ==
  ASSUME NEW nt, NEW s, IsList(s), NEW op, op \notin {"mark", "forget"}
  PROVE  LET t == [i \in DOMAIN s |-> [op |-> op, node |-> s[i]]] IN
         /\ Fresh(nt, t)
         /\ \A n \in Entries(s) : Due(Entries(t), op, n)
<1> DEFINE t == [i \in DOMAIN s |-> [op |-> op, node |-> s[i]]]
           A == {[op |-> op, node |-> n] : n \in Entries(s)}
<1>1. Len(s) \in Nat /\ DOMAIN s = 1 .. Len(s)
  BY LenProperties DEF IsList
<1>2. /\ t \in [1 .. Len(s) -> A]
      /\ \A i \in 1 .. Len(s) : t[i].op = op /\ t[i].node = s[i]
  BY <1>1 DEF Entries
<1>3. \A k \in A : k.op = op
  OBVIOUS
<1> HIDE DEF t, A
<1>4. t \in Seq(A)
  BY <1>1, <1>2, SeqDef
<1>5. Len(t) = Len(s)
  BY <1>1, <1>2, <1>4, LenProperties
<1>6. IsList(t) /\ Entries(t) \subseteq A
  BY <1>4, ListOf
<1>7. Fresh(nt, t)
  BY <1>3, <1>6 DEF Fresh
<1>8. \A n \in Entries(s) : Due(Entries(t), op, n)
  BY <1>2, <1>5 DEF Entries, Due
<1> QED BY <1>7, <1>8 DEF t

(* A router queues the clearing of every route that it fires.              *)
LEMMA RouterKeeps ==
  ASSUME Fresh(net, prePost), Covered(net, visited, changed, firing, Entries(prePost)),
         built \in Nat, NEW STATE n, RunRouter(n)
  PROVE  /\ Fresh(net, prePost')
         /\ Covered(net, visited, changed', firing', Entries(prePost'))
<1> DEFINE a == firing[net.in[n][1]]
           hit(m) == /\ net.kind[m] = "route" /\ net.in[m] = <<n>>
                     /\ a # NoEvent /\ net.to[m] \in Selected(a)
           S == {m \in 1 .. built : hit(m)}
           hits == InOrder(S)
           t == [i \in DOMAIN hits |-> [op |-> "clear", node |-> hits[i]]]
           f == [m \in Nodes(net) |-> IF m \in 1 .. built /\ hit(m) THEN a ELSE firing[m]]
           c == [m \in Nodes(net) |-> (m \in 1 .. built /\ hit(m)) \/ changed[m]]
<1>1. firing' = f /\ changed' = c /\ prePost' = prePost \o t
  BY DEF RunRouter
<1>2. S \in SUBSET (1 .. built)
  OBVIOUS
<1>3. \A m : m \in S <=> (m \in 1 .. built /\ hit(m))
  OBVIOUS
<1>4. DOMAIN f = Nodes(net) /\ DOMAIN c = Nodes(net)
  OBVIOUS
<1> HIDE DEF hit, a
<1>5. \A m \in Nodes(net) : m \notin S => f[m] = firing[m] /\ c[m] = (FALSE \/ changed[m])
  BY <1>3
<1> HIDE DEF S, f, c
<1>6. IsList(hits) /\ Entries(hits) = S
  BY <1>2, InOrderList
<1> HIDE DEF hits
<1>7. Fresh(net, t) /\ \A m \in S : Due(Entries(t), "clear", m)
  BY <1>6, ClosuresFor
<1> HIDE DEF t
<1>8. Fresh(net, prePost') /\ Entries(prePost') = Entries(prePost) \cup Entries(t)
  BY <1>1, <1>7, FreshConcat
<1>9. Covered(net, visited, changed, firing, Entries(prePost'))
  BY <1>8, CoveredMore
<1>10. \A m \in S : Due(Entries(prePost'), "clear", m)
  BY <1>7, <1>8 DEF Due
<1>11. Covered(net, visited, c, f, Entries(prePost'))
  BY <1>4, <1>5, <1>9, <1>10 DEF Covered
<1> QED BY <1>1, <1>8, <1>11

(* The update closure of any node.                                         *)
LEMMA ClosureKeeps ==
  ASSUME Fresh(net, prePost), Covered(net, visited, changed, firing, Entries(prePost)),
         built \in Nat, NEW STATE n, RunClosure(n)
  PROVE  /\ Fresh(net, prePost')
         /\ Covered(net, visited, changed', firing', Entries(prePost'))
<1> DEFINE Idle == UNCHANGED <<firing, changed, prePost>>
<1>1. CASE Idle
  BY <1>1
<1>2. CASE RunRouter(n)
  BY <1>2, RouterKeeps
<1>3. CASE RunOuter(n)
  <2> DEFINE k == [op |-> "rewire", node |-> net.to[n],
                   stream |-> Chosen(net, net.to[n], firing[net.in[n][1]])]
  <2>1. /\ \/ prePost' = prePost \/ prePost' = Append(prePost, k)
        /\ UNCHANGED <<firing, changed>>
    BY <1>3 DEF RunOuter
  <2>2. k.op = "rewire"
    OBVIOUS
  <2> HIDE DEF k
  <2>3. CASE prePost' = Append(prePost, k)
    <3>1. Fresh(net, prePost') /\ Entries(prePost) \subseteq Entries(prePost')
      BY <2>2, <2>3, FreshAppend
    <3> QED BY <2>1, <3>1, CoveredMore
  <2> QED BY <2>1, <2>3
<1>4. CASE RunStream(n)
  <2>1. PICK a : Idle \/ Fire(n, a)
    BY <1>4 DEF RunStream
  <2>2. CASE Fire(n, a)
    BY <2>2, FireKeeps
  <2> QED BY <1>1, <2>1, <2>2
<1>5. \/ Idle \/ RunRouter(n) \/ RunOuter(n) \/ RunStream(n)
  BY DEF RunClosure, RunHold, RunListen, RunDefer, RunNothing
<1> QED BY <1>1, <1>2, <1>3, <1>4, <1>5

(* The call of update_node for a node.                                     *)
LEMMA VisitCleans ==
  ASSUME Fresh(net, prePost), Covered(net, visited, changed, firing, Entries(prePost)),
         NEW STATE n, NEW STATE rest, rest \in Seq(Frames(rest)), AllClean(net, rest),
         Visit(n, rest)
  PROVE  /\ Fresh(net, prePost') /\ AllClean(net, stack')
         /\ Covered(net, visited', changed, firing, Entries(prePost'))
<1>1. CASE visited[n]
  BY <1>1 DEF Visit
<1>2. CASE ~visited[n]
  <2> DEFINE k == [op |-> "unvisit", node |-> n]
             f == Update("dependencies", n, dependencies[n], dependencies[n])
  <2>1. /\ visited' = [visited EXCEPT ![n] = TRUE]
        /\ prePost' = Append(prePost, k) /\ stack' = Append(rest, f)
    BY <1>2 DEF Visit
  <2>2. k.op = "unvisit" /\ k.node = n
    OBVIOUS
  <2>3. FrameClean(net, f)
    BY DEF FrameClean, Update
  <2> HIDE DEF k, f
  <2>4. Fresh(net, prePost') /\ Entries(prePost') = Entries(prePost) \cup {k}
    BY <2>1, <2>2, FreshAppend
  <2>5. Due(Entries(prePost'), "unvisit", n) /\ Entries(prePost) \subseteq Entries(prePost')
    BY <2>2, <2>4 DEF Due
  <2>6. Covered(net, visited', changed, firing, Entries(prePost'))
    BY <2>1, <2>5, CoveredVisit
  <2> QED BY <2>1, <2>3, <2>4, <2>6, CleanPush
<1> QED BY <1>1, <1>2

-----------------------------------------------------------------------------
(* update_node sets no flag without owing its reset.                       *)
LEMMA UpdateCleans ==
  ASSUME StackInv, StackInv', CleanInv,
         \/ VisitDependency \/ RunUpdate \/ BeginSwitch \/ EndSwitch \/ VisitDependent \/ EndUpdate
  PROVE  CleanInv'
<1>0. TopIs("update", Top.pc) /\ stack # <<>> /\ Top.op = "update"
  BY DEF VisitDependency, RunUpdate, BeginSwitch, EndSwitch, VisitDependent, EndUpdate, TopIs
<1>1. Active(stack) /\ Shape(stack)
  BY <1>0, TopIsFrame DEF StackInv, Propagates
<1>2. UNCHANGED <<net, built, value, open, depth>> /\ preEot' = preEot
  BY DEF VisitDependency, RunUpdate, BeginSwitch, EndSwitch, VisitDependent, EndUpdate, program,
         cells, queues
<1>3. /\ Fresh(net, preEot) /\ Fresh(net, prePost) /\ AllClean(net, stack)
      /\ Covered(net, visited, changed, firing, Entries(prePost))
      /\ built \in Nat
  <2>1. Pending(stack) = {}
    BY <1>1, NothingPending
  <2>2. Covered(net, visited, changed, firing, Entries(prePost) \cup Pending(stack))
    BY DEF CleanInv, FlagsInv
  <2>3. built \in Nat
    BY CtxAssumption DEF CleanInv, NetInv, NetworkOK
  <2> QED BY <2>1, <2>2, <2>3 DEF CleanInv
<1>4. /\ FrameClean(net, Top) /\ "node" \in DOMAIN Top
      /\ \A f : FrameClean(net, f) =>
           /\ AllClean(net, SetTop(f)) /\ SetTop(f) \in Seq(Frames(SetTop(f)))
  BY <1>0, <1>3, CleanTop DEF FrameClean
<1>5. Fresh(net, preEot')
  BY <1>2, <1>3
<1>6. ASSUME NEW STATE n, NEW f, FrameClean(net, f), Visit(n, SetTop(f)),
             UNCHANGED <<changed, firing>>
      PROVE  CleanInv'
  <2>1. /\ Fresh(net, prePost') /\ AllClean(net, stack')
        /\ Covered(net, visited', changed, firing, Entries(prePost'))
    BY <1>3, <1>4, <1>6, VisitCleans
  <2> QED BY <1>1, <1>2, <1>5, <1>6, <2>1, ActiveStep
<1>7. FrameClean(net, [Top EXCEPT !.list = Tail(@)])
  <2> DEFINE f == [Top EXCEPT !.list = Tail(@)]
  <2>1. f.op = "update" /\ f.pc = Top.pc /\ f.node = Top.node /\ DOMAIN f = DOMAIN Top
    BY <1>0, <1>1, <1>4, TopIsFrame DEF Frame
  <2> HIDE DEF f
  <2>2. FrameClean(net, f)
    BY <1>0, <1>4, <2>1 DEF FrameClean
  <2> QED BY <2>2 DEF f
<1>8. ASSUME NEW n, NEW reads, NEW list
      PROVE  FrameClean(net, Update("dependents", n, reads, list))
  BY DEF FrameClean, Update
<1>9. CASE VisitDependency
  BY <1>6, <1>7, <1>9 DEF VisitDependency
<1>10. CASE VisitDependent
  BY <1>6, <1>7, <1>10 DEF VisitDependent
<1>11. CASE RunUpdate
  <2> DEFINE n == Top.node
  <2>1. /\ visited' = visited
        /\ RunClosure(n) \/ RunNothing
    BY <1>11 DEF RunUpdate
  <2>2. /\ Fresh(net, prePost') /\ Covered(net, visited', changed', firing', Entries(prePost'))
    <3>1. CASE RunClosure(n)
      BY <1>3, <2>1, <3>1, ClosureKeeps
    <3>2. CASE RunNothing
      BY <1>3, <2>1, <3>2 DEF RunNothing
    <3> QED BY <2>1, <3>1, <3>2
  <2>3. AllClean(net, stack')
    <3> DEFINE list == IF changed'[n] THEN dependents[n] ELSE <<>>
               f == Update("dependents", n, Top.reads, list)
    <3>1. stack' = SetTop(f)
      BY <1>11 DEF RunUpdate
    <3>2. FrameClean(net, f)
      BY DEF FrameClean, Update
    <3> HIDE DEF f
    <3> QED BY <1>4, <3>1, <3>2
  <2> QED BY <1>1, <1>2, <1>5, <2>2, <2>3, ActiveStep
<1>12. CASE BeginSwitch
  <2> DEFINE f == [Top EXCEPT !.pc = "switching"]
  <2>1. /\ Visit(Followed(net, net.to[Top.node], firing[net.in[Top.node][1]]), SetTop(f))
        /\ UNCHANGED <<changed, firing>> /\ net.kind[Top.node] = "outerC"
    BY <1>12 DEF BeginSwitch, Switches
  <2>2. f.op = "update" /\ f.pc = "switching" /\ f.node = Top.node /\ DOMAIN f = DOMAIN Top
    BY <1>0, <1>1, <1>4, TopIsFrame DEF Frame
  <2> HIDE DEF f
  <2>3. FrameClean(net, f)
    BY <1>4, <2>1, <2>2 DEF FrameClean
  <2> QED BY <1>6, <2>1, <2>3
<1>13. CASE EndSwitch
  <2> DEFINE o == Top.node
             n == net.to[o]
             a == firing[net.in[o][1]]
             s == Followed(net, n, a)
             b == IF firing[s] = NoEvent THEN value[Chosen(net, n, a)] ELSE firing[s]
             k == [op |-> "clear", node |-> n]
             f == Update("dependents", o, Top.reads, dependents[o])
  <2>1. /\ firing' = [firing EXCEPT ![n] = b]
        /\ changed' = [changed EXCEPT ![o] = TRUE, ![n] = TRUE]
        /\ prePost' = IF firing[n] = NoEvent THEN Append(prePost, k) ELSE prePost
        /\ stack' = SetTop(f) /\ visited' = visited
    BY <1>13 DEF EndSwitch
  <2>2. net.kind[o] = "outerC"
    BY <1>4, <1>13 DEF FrameClean, EndSwitch, TopIs
  <2>3. k.op = "clear" /\ k.node = n
    OBVIOUS
  <2>4. FrameClean(net, f)
    BY <1>8
  <2> HIDE DEF n, b, k, f, o
  <2>5. /\ Fresh(net, prePost') /\ Entries(prePost) \subseteq Entries(prePost')
        /\ firing[n] = NoEvent => Due(Entries(prePost'), "clear", n)
    <3>1. CASE firing[n] = NoEvent
      <4>1. Fresh(net, prePost') /\ Entries(prePost') = Entries(prePost) \cup {k}
        BY <1>3, <2>1, <2>3, <3>1, FreshAppend
      <4> QED BY <2>3, <4>1 DEF Due
    <3>2. CASE firing[n] # NoEvent
      BY <1>3, <2>1, <3>2
    <3> QED BY <3>1, <3>2
  <2>6. Covered(net, visited', changed', firing', Entries(prePost'))
    BY <1>3, <2>1, <2>2, <2>5, CoveredFire
  <2>7. AllClean(net, stack')
    BY <1>4, <2>1, <2>4
  <2> QED BY <1>1, <1>2, <1>5, <2>5, <2>6, <2>7, ActiveStep
<1>14. CASE EndUpdate
  <2>1. stack' = Lower(stack) /\ UNCHANGED <<visited, changed, firing, prePost>>
    BY <1>14 DEF EndUpdate, Below, Lower, flags, queues
  <2>2. AllClean(net, stack')
    BY <1>0, <1>1, <1>3, <2>1, CleanPop DEF Shape
  <2> QED BY <1>1, <1>2, <1>3, <1>5, <2>1, <2>2, ActiveStep
<1> QED BY <1>9, <1>10, <1>11, <1>12, <1>13, <1>14

-----------------------------------------------------------------------------
(* end_of_transaction, while it propagates                                 *)
LEMMA EotCleans ==
  ASSUME StackInv, StackInv', CleanInv,
         \/ RunPreEot \/ UpdateChanged \/ (TakeChanged /\ changedNodes # <<>>)
  PROVE  CleanInv'
<1>0. /\ TopIs("eot", Top.pc) /\ stack # <<>> /\ Top.op = "eot"
      /\ Top.pc \in {"pre_eot", "loop", "batch"}
  BY DEF RunPreEot, UpdateChanged, TakeChanged, TopIs
<1>1. Active(stack) /\ Shape(stack)
  BY <1>0, TopIsFrame DEF StackInv, Propagates
<1>2. UNCHANGED <<net, built, value, open, depth>> /\ preEot' = preEot
  BY DEF RunPreEot, UpdateChanged, TakeChanged, program, cells
<1>3. /\ Fresh(net, preEot) /\ Fresh(net, prePost) /\ AllClean(net, stack)
      /\ Covered(net, visited, changed, firing, Entries(prePost))
      /\ built \in Nat /\ \A m \in Nodes(net) : m <= net.start => m \in 1 .. net.start
  <2>1. Pending(stack) = {}
    BY <1>1, NothingPending
  <2>2. Covered(net, visited, changed, firing, Entries(prePost) \cup Pending(stack))
    BY DEF CleanInv, FlagsInv
  <2>3. built \in Nat /\ net.start \in Nat /\ Nodes(net) \subseteq Nat \ {0}
    BY CtxAssumption DEF CleanInv, NetInv, NetworkOK, Nodes
  <2>4. \A m \in Nodes(net) : m <= net.start => m \in 1 .. net.start
    BY <2>3
  <2> QED BY <2>1, <2>2, <2>3, <2>4 DEF CleanInv
<1>4. /\ FrameClean(net, Top) /\ "list" \in DOMAIN Top
      /\ \A f : FrameClean(net, f) =>
           /\ AllClean(net, SetTop(f)) /\ SetTop(f) \in Seq(Frames(SetTop(f)))
  BY <1>0, <1>3, CleanTop DEF FrameClean
<1>5. Fresh(net, preEot')
  BY <1>2, <1>3
<1>6. Frame(Top, "eot")
  BY <1>0, <1>1, TopIsFrame
<1>7. ASSUME NEW v, Top.pc = "pre_eot" => Fresh(net, v)
      PROVE  FrameClean(net, [Top EXCEPT !.list = v])
  <2> DEFINE f == [Top EXCEPT !.list = v]
  <2>1. f.op = "eot" /\ f.pc = Top.pc /\ f.list = v /\ DOMAIN f = DOMAIN Top
    BY <1>0, <1>4, <1>6 DEF Frame
  <2> HIDE DEF f
  <2>2. FrameClean(net, f)
    BY <1>0, <1>4, <1>7, <2>1 DEF FrameClean
  <2> QED BY <2>2 DEF f
<1>8. FrameClean(net, [Top EXCEPT !.pc = "loop"])
  <2> DEFINE f == [Top EXCEPT !.pc = "loop"]
  <2>1. f.op = "eot" /\ f.pc = "loop" /\ DOMAIN f = DOMAIN Top
    BY <1>0, <1>4, <1>6 DEF Frame
  <2> HIDE DEF f
  <2>2. FrameClean(net, f)
    BY <1>4, <2>1 DEF FrameClean
  <2> QED BY <2>2 DEF f
<1>9. CASE RunPreEot
  <2>0. Top.pc = "pre_eot" /\ visited' = visited
    BY <1>9 DEF RunPreEot, TopIs
  <2>1. CASE Top.list = <<>>
    <3>1. stack' = SetTop([Top EXCEPT !.pc = "loop"]) /\ UNCHANGED <<firing, changed, prePost>>
      BY <1>9, <2>1 DEF RunPreEot, RunNothing
    <3>2. AllClean(net, stack')
      BY <1>4, <1>8, <3>1
    <3> QED BY <1>1, <1>2, <1>3, <1>5, <2>0, <3>1, <3>2, ActiveStep
  <2>2. CASE Top.list # <<>>
    <3> DEFINE k == Head(Top.list)
    <3>1. /\ stack' = SetTop([Top EXCEPT !.list = Tail(@)])
          /\ \/ RunNothing
             \/ RunClosure(k.node)
             \/ k.op = "mark" /\ Mark(k.node) /\ UNCHANGED firing
      BY <1>9, <2>2 DEF RunPreEot
    <3>2. /\ Fresh(net, Tail(Top.list))
          /\ k.op \in {"mark", "forget"} => k.node \notin 1 .. net.start
      <4>1. Fresh(net, Top.list)
        BY <1>0, <1>4, <2>0 DEF FrameClean
      <4> QED BY <2>2, <4>1, FreshTail
    <3>3. AllClean(net, stack')
      BY <1>4, <1>7, <3>1, <3>2
    <3>4. CASE RunNothing
      BY <1>1, <1>2, <1>3, <1>5, <2>0, <3>3, <3>4, ActiveStep DEF RunNothing
    <3>5. CASE RunClosure(k.node)
      <4>1. /\ Fresh(net, prePost')
            /\ Covered(net, visited, changed', firing', Entries(prePost'))
        BY <1>3, <3>5, ClosureKeeps
      <4> QED BY <1>1, <1>2, <1>5, <2>0, <3>3, <4>1, ActiveStep
    <3>6. CASE k.op = "mark" /\ Mark(k.node) /\ UNCHANGED firing
      <4> DEFINE n == k.node
                 g == [op |-> "forget", node |-> n]
      <4>1. g.op = "forget" /\ g.node = n /\ n \notin 1 .. net.start
        BY <3>2, <3>6
      <4>2. CASE firing[n] = NoEvent
        <5>1. UNCHANGED <<firing, changed, prePost>>
          BY <3>6, <4>2 DEF Mark
        <5> QED BY <1>1, <1>2, <1>3, <1>5, <2>0, <3>3, <5>1, ActiveStep
      <4>3. CASE firing[n] # NoEvent
        <5>1. /\ changed' = [changed EXCEPT ![n] = TRUE] /\ prePost' = Append(prePost, g)
              /\ firing' = firing
          BY <3>6, <4>3 DEF Mark
        <5> HIDE DEF n, g
        <5>2. Fresh(net, prePost') /\ Entries(prePost) \subseteq Entries(prePost')
          BY <1>3, <4>1, <5>1, FreshAppend
        <5>3. Covered(net, visited, changed', firing, Entries(prePost'))
          BY <1>3, <4>1, <5>1, <5>2, CoveredMark
        <5> QED BY <1>1, <1>2, <1>5, <2>0, <3>3, <5>1, <5>2, <5>3, ActiveStep
      <4> QED BY <4>2, <4>3
    <3> QED BY <3>1, <3>4, <3>5, <3>6
  <2> QED BY <2>1, <2>2
<1>10. CASE UpdateChanged
  <2>0. Top.pc = "batch" /\ UNCHANGED <<changed, firing>>
    BY <1>10 DEF UpdateChanged, TopIs
  <2>1. CASE Top.list = <<>>
    <3>1. stack' = SetTop([Top EXCEPT !.pc = "loop"]) /\ UNCHANGED <<visited, prePost>>
      BY <1>10, <2>1 DEF UpdateChanged
    <3>2. AllClean(net, stack')
      BY <1>4, <1>8, <3>1
    <3> QED BY <1>1, <1>2, <1>3, <1>5, <2>0, <3>1, <3>2, ActiveStep
  <2>2. CASE Top.list # <<>>
    <3> DEFINE f == [Top EXCEPT !.list = Tail(@)]
               n == Head(Top.list)
    <3>1. Visit(n, SetTop(f))
      BY <1>10, <2>2 DEF UpdateChanged
    <3>2. FrameClean(net, f)
      BY <1>7, <2>0
    <3> HIDE DEF f, n
    <3>3. /\ Fresh(net, prePost') /\ AllClean(net, stack')
          /\ Covered(net, visited', changed, firing, Entries(prePost'))
      BY <1>3, <1>4, <3>1, <3>2, VisitCleans
    <3> QED BY <1>1, <1>2, <1>5, <2>0, <3>3, ActiveStep
  <2> QED BY <2>1, <2>2
<1>11. CASE TakeChanged /\ changedNodes # <<>>
  <2> DEFINE f == [Top EXCEPT !.pc = "batch", !.list = changedNodes]
  <2>1. stack' = SetTop(f) /\ UNCHANGED <<prePost, visited, changed, firing>>
    BY <1>11 DEF TakeChanged, TakeBatch, flags
  <2>2. f.op = "eot" /\ f.pc = "batch" /\ DOMAIN f = DOMAIN Top
    BY <1>0, <1>4, <1>6 DEF Frame
  <2> HIDE DEF f
  <2>3. FrameClean(net, f)
    BY <1>4, <2>2 DEF FrameClean
  <2>4. AllClean(net, stack')
    BY <1>4, <2>1, <2>3
  <2> QED BY <1>1, <1>2, <1>3, <1>5, <2>1, <2>4, ActiveStep
<1> QED BY <1>9, <1>10, <1>11

-----------------------------------------------------------------------------
(* end_of_transaction, once the propagation is over                        *)
LEMMA IdleStep ==
  ASSUME CleanInv, stack # <<>>, UNCHANGED <<net, built, open>>, DOMAIN value' = DOMAIN value,
         AllClean(net, stack'), Fresh(net, preEot'), Fresh(net, prePost'),
         Active(stack') \/ (prePost' = <<>> /\ changedNodes' = <<>>),
         Covered(net, visited', changed', firing', Entries(prePost') \cup Pending(stack'))
  PROVE  CleanInv'
<1>1. NetInv'
  BY DEF CleanInv, NetInv, Nodes
<1>2. IdleInv'
  BY DEF CleanInv, IdleInv
<1> QED BY <1>1, <1>2 DEF CleanInv, FlagsInv

(* The transaction is closed: pre_post takes over what is owed.            *)
LEMMA CloseCleans ==
  ASSUME StackInv, CleanInv, TakeChanged, changedNodes = <<>>
  PROVE  CleanInv'
<1> DEFINE f == [Top EXCEPT !.pc = "pre_post", !.list = prePost]
<1>1. /\ stack # <<>> /\ Top.op = "eot" /\ Shape(stack)
      /\ stack' = SetTop(f) /\ prePost' = <<>> /\ changedNodes' = <<>> /\ preEot' = preEot
      /\ UNCHANGED <<net, built, open, value, visited, changed, firing>>
  BY DEF TakeChanged, Close, TopIs, StackInv, program, cells, flags
<1>2. Active(stack) /\ Frame(Top, "eot")
  BY <1>1, TopIsFrame DEF TakeChanged, Propagates
<1>3. FrameClean(net, Top) /\ Fresh(net, prePost)
  BY <1>1, CleanTop DEF CleanInv
<1>4. f.op = "eot" /\ f.pc = "pre_post" /\ f.list = prePost /\ DOMAIN f = DOMAIN Top
  BY <1>1, <1>2, <1>3 DEF Frame, FrameClean
<1> HIDE DEF f
<1>5. FrameClean(net, f)
  BY <1>1, <1>3, <1>4 DEF FrameClean
<1>6. AllClean(net, stack') /\ Pending(stack') = Entries(prePost)
  BY <1>1, <1>4, <1>5, CleanTop DEF CleanInv
<1>7. Covered(net, visited, changed, firing, Entries(prePost))
  <2>1. Pending(stack) = {}
    BY <1>2, NothingPending
  <2>2. Entries(prePost) \cup Pending(stack) = Entries(prePost)
    BY <2>1
  <2> QED BY <2>2 DEF CleanInv, FlagsInv
<1>8. Covered(net, visited', changed', firing', Entries(prePost') \cup Pending(stack'))
  BY <1>1, <1>6, <1>7, ListEmpty
<1>9. Fresh(net, preEot') /\ Fresh(net, prePost')
  BY <1>1, FreshEmpty DEF CleanInv
<1> QED BY <1>1, <1>6, <1>8, <1>9, IdleStep

(* What CleanInv says of a state where pre_post or post runs.              *)
LEMMA Resting ==
  ASSUME StackInv, CleanInv, stack # <<>>, ~Active(stack)
  PROVE  /\ open = 0 /\ depth = 0 /\ prePost = <<>> /\ changedNodes = <<>>
         /\ Covered(net, visited, changed, firing, Pending(stack))
<1>1. open = 0 /\ prePost = <<>> /\ changedNodes = <<>>
  BY DEF CleanInv, IdleInv
<1>2. Entries(prePost) \cup Pending(stack) = Pending(stack)
  BY <1>1, ListEmpty
<1>3. Covered(net, visited, changed, firing, Pending(stack))
  BY <1>2 DEF CleanInv, FlagsInv
<1> QED BY <1>1, <1>3 DEF StackInv

(* pre_post: each closure it runs pays off what it owed.                   *)
LEMMA PrePostCleans ==
  ASSUME StackInv, CleanInv, RunPrePost
  PROVE  CleanInv'
<1>1. /\ TopIs("eot", "pre_post") /\ stack # <<>> /\ Top.op = "eot" /\ Top.pc = "pre_post"
      /\ Shape(stack)
      /\ UNCHANGED <<net, built, open, value, preEot, prePost, changedNodes>>
  BY DEF RunPrePost, TopIs, StackInv, program, cells
<1>2. ~Active(stack) /\ Frame(Top, "eot")
  BY <1>1, TopIsFrame DEF Propagates
<1>3. /\ FrameClean(net, Top) /\ Fresh(net, Top.list)
      /\ \A f : FrameClean(net, f) =>
           /\ AllClean(net, SetTop(f))
           /\ Pending(SetTop(f)) =
                IF f.op = "eot" /\ f.pc = "pre_post" THEN Entries(f.list) ELSE {}
  BY <1>1, CleanTop DEF CleanInv, FrameClean
<1>4. /\ prePost = <<>> /\ changedNodes = <<>>
      /\ Covered(net, visited, changed, firing, Entries(Top.list))
  <2>1. Pending(stack) = Entries(Top.list)
    BY <1>1 DEF Pending, Top
  <2> QED BY <1>1, <1>2, <2>1, Resting
<1>5. Fresh(net, preEot') /\ Fresh(net, prePost') /\ Entries(prePost') = {}
  BY <1>1, <1>4, FreshEmpty, ListEmpty DEF CleanInv
<1>6. CASE Top.list = <<>>
  <2> DEFINE f == [Top EXCEPT !.pc = "post", !.list = post]
  <2>1. stack' = SetTop(f) /\ UNCHANGED <<visited, changed, firing>>
    BY <1>6 DEF RunPrePost, flags
  <2>2. f.op = "eot" /\ f.pc = "post" /\ DOMAIN f = DOMAIN Top
    BY <1>1, <1>2, <1>3 DEF Frame
  <2> HIDE DEF f
  <2>3. FrameClean(net, f)
    BY <1>1, <1>3, <2>2 DEF FrameClean
  <2>4. AllClean(net, stack') /\ Pending(stack') = {}
    BY <1>3, <2>1, <2>2, <2>3
  <2>5. Entries(Top.list) = Entries(prePost') \cup Pending(stack')
    BY <1>5, <1>6, <2>4, ListEmpty
  <2> QED BY <1>1, <1>4, <1>5, <2>1, <2>4, <2>5, IdleStep
<1>7. CASE Top.list # <<>>
  <2> DEFINE k == Head(Top.list)
             K == Entries(Tail(Top.list))
             f == [Top EXCEPT !.list = Tail(@)]
  <2>1. /\ stack' = SetTop(f)
        /\ \/ k.op = "clear" /\ Clear(k.node) /\ UNCHANGED visited
           \/ k.op = "forget" /\ Forget(k.node) /\ UNCHANGED visited
           \/ k.op = "rewire" /\ UNCHANGED <<visited, changed, firing>>
           \/ /\ k.op = "unvisit" /\ visited' = [visited EXCEPT ![k.node] = FALSE]
              /\ UNCHANGED <<firing, changed>>
    BY <1>7 DEF RunPrePost, flags
  <2>2. /\ Fresh(net, Tail(Top.list)) /\ Entries(Top.list) = K \cup {k}
        /\ k.op \in {"mark", "forget"} => k.node \notin 1 .. net.start
    BY <1>3, <1>7, FreshTail
  <2>3. f.op = "eot" /\ f.pc = "pre_post" /\ f.list = Tail(Top.list) /\ DOMAIN f = DOMAIN Top
    BY <1>1, <1>2, <1>3 DEF Frame, FrameClean
  <2>4. \A m \in Nodes(net) : m <= net.start => m \in 1 .. net.start
    <3>1. net.start \in Nat /\ Nodes(net) \subseteq Nat \ {0}
      BY CtxAssumption DEF CleanInv, NetInv, NetworkOK, Nodes
    <3> QED BY <3>1
  <2> HIDE DEF f, k
  <2>5. FrameClean(net, f)
    BY <1>1, <1>3, <2>2, <2>3 DEF FrameClean
  <2>6. AllClean(net, stack') /\ Pending(stack') = K
    BY <1>3, <2>1, <2>3, <2>5
  <2> HIDE DEF K
  <2>7. Covered(net, visited, changed, firing, K \cup {k})
    BY <1>4, <2>2
  <2>8. Covered(net, visited', changed', firing', K)
    <3>1. /\ k.op = "clear" => Covered(net, visited, [changed EXCEPT ![k.node] = FALSE],
                                       [firing EXCEPT ![k.node] = NoEvent], K)
          /\ k.op = "forget" => Covered(net, visited, [changed EXCEPT ![k.node] = TRUE],
                                        [firing EXCEPT ![k.node] = NoEvent], K)
          /\ k.op = "unvisit" => Covered(net, [visited EXCEPT ![k.node] = FALSE], changed,
                                         firing, K)
          /\ k.op \notin {"clear", "unvisit"} => Covered(net, visited, changed, firing, K)
      BY <2>2, <2>4, <2>7, CoveredReset
    <3> QED BY <2>1, <3>1 DEF Clear, Forget
  <2>9. Entries(prePost') \cup Pending(stack') = K
    BY <1>5, <2>6
  <2> QED BY <1>1, <1>4, <1>5, <2>6, <2>8, <2>9, IdleStep
<1> QED BY <1>6, <1>7

(* post: nothing is owed when its closures run, and the sends among them   *)
(* owe what they fire.                                                     *)
LEMMA PostCleans ==
  ASSUME StackInv, StackInv', CleanInv, RunPost \/ EndEot
  PROVE  CleanInv'
<1>1. /\ TopIs("eot", "post") /\ stack # <<>> /\ Top.op = "eot" /\ Top.pc = "post"
      /\ Shape(stack) /\ UNCHANGED <<net, built, open>>
  BY DEF RunPost, EndEot, TopIs, StackInv, program
<1>2. ~Active(stack) /\ Frame(Top, "eot")
  BY <1>1, TopIsFrame DEF Propagates
<1>3. /\ FrameClean(net, Top) /\ AllClean(net, stack)
      /\ \A f : FrameClean(net, f) =>
           /\ AllClean(net, SetTop(f)) /\ SetTop(f) \in Seq(Frames(SetTop(f)))
           /\ Pending(SetTop(f)) =
                IF f.op = "eot" /\ f.pc = "pre_post" THEN Entries(f.list) ELSE {}
  BY <1>1, CleanTop DEF CleanInv
<1>4. /\ prePost = <<>> /\ changedNodes = <<>> /\ open = 0 /\ depth = 0
      /\ Covered(net, visited, changed, firing, {})
  <2>1. Pending(stack) = {}
    BY <1>1 DEF Pending, Top
  <2> QED BY <1>1, <1>2, <2>1, Resting
<1>5. Fresh(net, preEot) /\ Fresh(net, prePost) /\ Entries(prePost) = {} /\ Fresh(net, <<>>)
  BY <1>4, FreshEmpty, ListEmpty DEF CleanInv
<1>6. CASE EndEot
  <2>1. /\ stack' = Lower(stack)
        /\ UNCHANGED <<value, preEot, prePost, changedNodes, visited, changed, firing>>
    BY <1>6 DEF EndEot, Below, Lower, flags, queues, cells
  <2>2. AllClean(net, stack')
    BY <1>1, <1>3, <2>1, CleanPop DEF Shape
  <2>3. Covered(net, visited', changed', firing', Entries(prePost') \cup Pending(stack'))
    BY <1>4, <2>1, CoveredMore
  <2> QED BY <1>1, <1>4, <1>5, <2>1, <2>2, <2>3, IdleStep
<1>7. CASE RunPost
  <2> DEFINE k == Head(Top.list)
             f == [Top EXCEPT !.list = Tail(@)]
  <2>1. f.op = "eot" /\ f.pc = "post" /\ DOMAIN f = DOMAIN Top
    BY <1>1, <1>2, <1>3 DEF Frame
  <2>2. \/ /\ stack' = SetTop(f)
           /\ UNCHANGED <<visited, changed, firing, preEot, prePost, changedNodes>>
           /\ DOMAIN value' = DOMAIN value
        \/ /\ SinkSend(k.node, k.event) /\ depth' = depth + 1 /\ BeginEot(SetTop(f), k)
           /\ UNCHANGED <<visited, value>>
    BY <1>7 DEF RunPost, Commit, flags, cells
  <2> HIDE DEF f, k
  <2>3. FrameClean(net, f)
    BY <1>1, <1>3, <2>1 DEF FrameClean
  <2>4. /\ AllClean(net, SetTop(f)) /\ SetTop(f) \in Seq(Frames(SetTop(f)))
        /\ Pending(SetTop(f)) = {}
    BY <1>3, <2>1, <2>3
  <2>5. CASE /\ stack' = SetTop(f)
             /\ UNCHANGED <<visited, changed, firing, preEot, prePost, changedNodes>>
             /\ DOMAIN value' = DOMAIN value
    <3>1. Entries(prePost') \cup Pending(stack') = {}
      BY <1>5, <2>4, <2>5
    <3> QED BY <1>1, <1>4, <1>5, <2>4, <2>5, <3>1, IdleStep
  <2>6. CASE /\ SinkSend(k.node, k.event) /\ depth' = depth + 1 /\ BeginEot(SetTop(f), k)
             /\ UNCHANGED <<visited, value>>
    <3> DEFINE g == Eot("pre_eot", preEot, k)
    <3>1. stack' = Append(SetTop(f), g) /\ preEot' = <<>> /\ Fire(k.node, k.event)
      BY <2>6 DEF BeginEot, SinkSend
    <3>2. /\ g.op = "eot" /\ g.pc = "pre_eot" /\ FrameClean(net, g)
      BY <1>5 DEF Eot, FrameClean
    <3> HIDE DEF g
    <3>3. AllClean(net, stack')
      BY <2>4, <3>1, <3>2, CleanPush
    <3>4. /\ Fresh(net, prePost')
          /\ Covered(net, visited, changed', firing', Entries(prePost'))
      BY <1>4, <1>5, <3>1, FireKeeps
    <3>5. Covered(net, visited', changed', firing', Entries(prePost') \cup Pending(stack'))
      BY <2>6, <3>4, CoveredMore
    <3>6. Active(stack')
      BY <1>1, <1>4, <2>6 DEF StackInv
    <3> QED BY <1>1, <1>5, <2>6, <3>1, <3>3, <3>4, <3>5, <3>6, IdleStep
  <2> QED BY <2>2, <2>5, <2>6
<1> QED BY <1>6, <1>7

-----------------------------------------------------------------------------
(* What the program does between the steps of the engine owes nothing new. *)
LEMMA ProgramStep ==
  ASSUME NetInv', net' = net, AllClean(net, stack'), Fresh(net, preEot'), Fresh(net, prePost'),
         stack' = <<>> \/ (open' = 0 /\ Active(stack')),
         Covered(net, visited', changed', firing', Entries(prePost'))
  PROVE  CleanInv'
<1>1. IdleInv'
  BY DEF IdleInv, Active
<1>2. Covered(net, visited', changed', firing', Entries(prePost') \cup Pending(stack'))
  BY CoveredMore
<1> QED BY <1>1, <1>2 DEF CleanInv, FlagsInv

(* What waits in pre_eot: a closure for one of the first b nodes.          *)
FirstStep(nt, b, k) ==
  /\ k.op \in {"connect", "update", "mark"} /\ k.node \in 1 .. b
  /\ k.op = "connect" => nt.kind[k.node] \in {"switch", "switchC"}
  /\ k.op = "update" => nt.kind[k.node] # "listen"

FirstList(nt, b, s) == IsList(s) /\ \A k \in Entries(s) : FirstStep(nt, b, k)

(* The first steps of the nodes a combinator is made of are such closures, *)
(* for these nodes; a switch has one that connects it.                     *)
LEMMA FirstStepsMade ==
  ASSUME NEW STATE a, NEW STATE b, a \in Nat \ {0}, b \in Nat, a <= b
  PROVE  LET s == Lists!FlattenSeq([i \in DOMAIN Span(a, b) |-> FirstSteps(a + i - 1)]) IN
         /\ FirstList(net, b, s) /\ \A k \in Entries(s) : k.node \in a .. b
         /\ \A n \in a .. b : net.kind[n] \in {"switch", "switchC"} =>
              [op |-> "connect", node |-> n] \in Entries(s)
<1> DEFINE All == {[op |-> o, node |-> n] : o \in {"connect", "update", "mark"}, n \in a .. b}
           A == {k \in All : /\ k.op = "connect" => net.kind[k.node] \in {"switch", "switchC"}
                             /\ k.op = "update" => net.kind[k.node] # "listen"}
           l == b + 1 - a
           ss == [i \in DOMAIN Span(a, b) |-> FirstSteps(a + i - 1)]
<1>1. l \in Nat /\ DOMAIN Span(a, b) = 1 .. l
  BY DEF Span
<1>2. \A i \in 1 .. l : a + i - 1 \in a .. b
  OBVIOUS
<1>3. ASSUME NEW n \in a .. b
      PROVE  FirstSteps(n) \in Seq(A)
  <2> DEFINE c == [op |-> "connect", node |-> n]
             u == [op |-> "update", node |-> n]
             m == [op |-> "mark", node |-> n]
  <2>1. /\ m \in A /\ (net.kind[n] # "listen" => u \in A)
        /\ net.kind[n] \in {"switch", "switchC"} => c \in A
    OBVIOUS
  <2>2. \/ FirstSteps(n) = <<>>
        \/ net.kind[n] # "listen" /\ FirstSteps(n) \in {<<u>>, <<u, m>>}
        \/ net.kind[n] \in {"switch", "switchC"} /\ FirstSteps(n) = <<c, u, m>>
    BY DEF FirstSteps
  <2> HIDE DEF A, c, u, m
  <2>3. <<>> \in Seq(A) /\ (u \in A => <<u>> \in Seq(A) /\ <<u, m>> \in Seq(A))
    BY <2>1
  <2>4. c \in A /\ u \in A => <<c, u, m>> \in Seq(A)
    BY <2>1
  <2> QED BY <2>1, <2>2, <2>3, <2>4
<1>10. ASSUME NEW n \in a .. b, net.kind[n] \in {"switch", "switchC"}
       PROVE  [op |-> "connect", node |-> n] \in Entries(FirstSteps(n))
  <2> DEFINE c == [op |-> "connect", node |-> n]
             u == [op |-> "update", node |-> n]
             m == [op |-> "mark", node |-> n]
  <2>1. FirstSteps(n) = <<c, u, m>>
    BY <1>10 DEF FirstSteps
  <2> HIDE DEF c, u, m
  <2>2. c \in Entries(<<c, u, m>>)
    BY DEF Entries
  <2> QED BY <2>1, <2>2 DEF c
<1>11. \A n \in a .. b : n + 1 - a \in 1 .. l /\ a + (n + 1 - a) - 1 = n
  OBVIOUS
<1>4. \A k \in A : FirstStep(net, b, k) /\ k.node \in a .. b
  BY DEF FirstStep
<1> HIDE DEF A
<1>5. ss \in [1 .. l -> Seq(A)]
  BY <1>1, <1>2, <1>3
<1> HIDE DEF ss, l
<1>6. ss \in Seq(Seq(A))
  BY <1>1, <1>5, SeqDef
<1>7. Lists!FlattenSeq(ss) \in Seq(A)
  BY <1>6, FlattenType
<1>8. IsList(Lists!FlattenSeq(ss)) /\ Entries(Lists!FlattenSeq(ss)) \subseteq A
  BY <1>7, ListOf
<1>9. /\ FirstList(net, b, Lists!FlattenSeq(ss))
      /\ \A k \in Entries(Lists!FlattenSeq(ss)) : k.node \in a .. b
  BY <1>4, <1>8 DEF FirstList
<1>12. ASSUME NEW n \in a .. b, net.kind[n] \in {"switch", "switchC"}
       PROVE  [op |-> "connect", node |-> n] \in Entries(Lists!FlattenSeq(ss))
  <2> DEFINE i == n + 1 - a
  <2>1. i \in 1 .. l /\ a + i - 1 = n
    BY <1>11
  <2> HIDE DEF i
  <2>2. ss[i] = FirstSteps(n)
    <3>1. ss[i] = FirstSteps(a + i - 1)
      BY <1>1, <2>1 DEF ss
    <3> QED BY <2>1, <3>1
  <2>3. Len(ss) = l
    BY <1>1, <1>5, <1>6, LenProperties
  <2>4. Entries(ss[i]) \subseteq Entries(Lists!FlattenSeq(ss))
    BY <1>6, <2>1, <2>3, FlattenType
  <2> QED BY <1>10, <1>12, <2>2, <2>4
<1> QED BY <1>9, <1>12 DEF ss

(* They set no flags of the nodes there were.                              *)
LEMMA BuildQueues ==
  ASSUME NEW STATE a, NEW STATE b, net.start \in Nat, a \in Nat, b \in Nat, net.start < a, a <= b
  PROVE  Fresh(net, Lists!FlattenSeq([i \in DOMAIN Span(a, b) |-> FirstSteps(a + i - 1)]))
<1> DEFINE s == Lists!FlattenSeq([i \in DOMAIN Span(a, b) |-> FirstSteps(a + i - 1)])
<1>1. FirstList(net, b, s) /\ \A k \in Entries(s) : k.node \in a .. b
  <2>1. a \in Nat \ {0}
    OBVIOUS
  <2> QED BY <2>1, FirstStepsMade
<1> HIDE DEF s
<1>2. \A n \in a .. b : n \notin 1 .. net.start
  OBVIOUS
<1>3. Fresh(net, s)
  BY <1>1, <1>2 DEF FirstList, Fresh
<1> QED BY <1>3 DEF s

(* A combinator is made after the nodes there are, within the network.     *)
LEMMA BuildGrows ==
  ASSUME NetInv, Build
  PROVE  LET a == built + 1
             b == LastOf(net, a) IN
         /\ net.start \in Nat /\ built \in Nat /\ a \in Nat /\ b \in Nat
         /\ net.start < a /\ a <= b /\ b \in net.start .. Len(net.kind)
         /\ 1 .. built \subseteq Nodes(net)
<1> DEFINE a == built + 1
           b == LastOf(net, a)
           l == Len(net.kind)
<1>1. /\ l \in Nat /\ net.start \in 0 .. l /\ built \in net.start .. l /\ built < l
      /\ \A n \in net.start + 1 .. l : LastOf(net, n) \in n .. l
  BY CtxAssumption, LenProperties DEF NetInv, NetworkOK, Build
<1>2. Nodes(net) = 1 .. l
  BY DEF Nodes
<1> HIDE DEF l
<1>3. a \in net.start + 1 .. l /\ built \in Nat /\ net.start \in Nat
  BY <1>1
<1>4. b \in a .. l
  BY <1>1, <1>3
<1> HIDE DEF b
<1>5. /\ a \in Nat /\ b \in Nat /\ net.start < a /\ a <= b /\ b \in net.start .. l
      /\ 1 .. built \subseteq 1 .. l
  BY <1>1, <1>3, <1>4
<1> QED BY <1>2, <1>3, <1>5 DEF b, l

(* Every operation of the program owes what it fires.                      *)
LEMMA ProgramCleans ==
  ASSUME StackInv, StackInv', CleanInv, Program
  PROVE  CleanInv'
<1>1. stack = <<>> /\ stack \in Seq(Frames(stack)) /\ AllClean(net, stack)
  BY DEF Program, Enter, Leave, Post, Build, Send, StackInv, Shape, CleanInv
<1>2. /\ NetInv /\ Fresh(net, preEot) /\ Fresh(net, prePost)
      /\ Covered(net, visited, changed, firing, Entries(prePost))
  <2>1. Entries(prePost) \cup Pending(stack) = Entries(prePost)
    BY <1>1 DEF Pending
  <2> QED BY <2>1 DEF CleanInv, FlagsInv
<1>3. CASE Enter \/ Post
  <2>1. UNCHANGED <<net, built, value, visited, changed, firing, preEot, prePost, stack>>
    BY <1>3 DEF Enter, Post, flags, cells, queues
  <2>2. NetInv'
    BY <1>2, <2>1 DEF NetInv, Nodes
  <2> QED BY <1>1, <1>2, <2>1, <2>2, ProgramStep
<1>4. CASE \E n \in Nodes(net), p \in Payload : Send(n, p)
  <2>1. PICK n \in Nodes(net), p \in Payload : Send(n, p)
    BY <1>4
  <2>2. Fire(n, Sent(n, p)) /\ UNCHANGED <<net, built, value, visited, preEot, stack>>
    BY <2>1 DEF Send, SinkSend, cells
  <2>3. NetInv'
    BY <1>2, <2>2 DEF NetInv, Nodes
  <2>4. Fresh(net, prePost') /\ Covered(net, visited, changed', firing', Entries(prePost'))
    BY <1>2, <2>2, FireKeeps
  <2> QED BY <1>1, <1>2, <2>2, <2>3, <2>4, ProgramStep
<1>5. CASE Leave
  <2>1. UNCHANGED <<net, built, value, visited, changed, firing, prePost>> /\ open' = open - 1
    BY <1>5 DEF Leave, flags, cells
  <2>2. NetInv'
    BY <1>2, <2>1 DEF NetInv, Nodes
  <2>3. CASE depth = 1
    <3> DEFINE f == Eot("pre_eot", preEot, NoCause)
    <3>1. stack' = Append(stack, f) /\ preEot' = <<>> /\ depth' = 1
      BY <1>5, <2>3 DEF Leave, BeginEot
    <3>2. FrameClean(net, f)
      BY <1>2 DEF FrameClean, Eot
    <3> HIDE DEF f
    <3>3. AllClean(net, stack')
      BY <1>1, <3>1, <3>2, CleanPush
    <3>4. open' = 0 /\ Active(stack')
      BY <1>1, <2>1, <2>3, <3>1 DEF StackInv, Active
    <3> QED BY <1>2, <2>1, <2>2, <3>1, <3>3, <3>4, FreshEmpty, ProgramStep
  <2>4. CASE depth # 1
    <3>1. stack' = stack /\ preEot' = preEot
      BY <1>5, <2>4 DEF Leave
    <3> QED BY <1>1, <1>2, <2>1, <2>2, <3>1, ProgramStep
  <2> QED BY <2>3, <2>4
<1>6. CASE Build
  <2> DEFINE a == built + 1
             b == LastOf(net, a)
             more == Lists!FlattenSeq([i \in DOMAIN Span(a, b) |-> FirstSteps(a + i - 1)])
  <2>1. /\ UNCHANGED <<net, visited, stack>> /\ built' = b /\ preEot' = preEot \o more
        /\ value' = Founded(net, value, built, b)
        /\ \/ SinkSend(a, value[net.to[a]])
           \/ UNCHANGED <<firing, changed, prePost, changedNodes>>
    BY <1>6 DEF Build
  <2>2. /\ net.start \in Nat /\ built \in Nat /\ a \in Nat /\ b \in Nat
        /\ net.start < a /\ a <= b /\ b \in net.start .. Len(net.kind) /\ built <= b
    <3>1. /\ net.start \in Nat /\ built \in Nat /\ a \in Nat /\ b \in Nat
          /\ net.start < a /\ a <= b /\ b \in net.start .. Len(net.kind)
      BY <1>2, <1>6, BuildGrows
    <3> HIDE DEF b
    <3>2. built <= b
      BY <3>1
    <3> QED BY <3>1, <3>2
  <2> HIDE DEF b
  <2>3. Fresh(net, more)
    <3> HIDE DEF a
    <3> QED BY <2>2, BuildQueues
  <2> HIDE DEF more
  <2>4. Fresh(net, preEot')
    BY <1>2, <2>1, <2>3, FreshConcat
  <2>5. NetInv'
    <3>1. DOMAIN value' = DOMAIN value
      BY <2>1, <2>2, FoundedKeeps
    <3> QED BY <1>2, <2>1, <2>2, <3>1 DEF NetInv, Nodes
  <2>6. Fresh(net, prePost') /\ Covered(net, visited, changed', firing', Entries(prePost'))
    <3>1. CASE SinkSend(a, value[net.to[a]])
      <4>1. Fire(a, value[net.to[a]])
        BY <3>1 DEF SinkSend
      <4> QED BY <1>2, <4>1, FireKeeps
    <3>2. CASE UNCHANGED <<firing, changed, prePost, changedNodes>>
      BY <1>2, <3>2
    <3> QED BY <2>1, <3>1, <3>2
  <2> QED BY <1>1, <2>1, <2>4, <2>5, <2>6, ProgramStep
<1> QED BY <1>3, <1>4, <1>5, <1>6 DEF Program

-----------------------------------------------------------------------------
(* In the beginning nothing fires.                                         *)
LEMMA InitCleans ==
  ASSUME Init
  PROVE  CleanInv
<1>1. /\ stack = <<>> /\ Len(stack) = 0 /\ preEot = <<>> /\ prePost = <<>> /\ open = 0
      /\ net \in Networks /\ built = net.start
  BY DEF Init
<1>2. /\ Fresh(net, preEot) /\ Fresh(net, prePost) /\ AllClean(net, stack)
  BY <1>1, FreshEmpty DEF AllClean
<1>3. net.start \in 0 .. Len(net.kind) /\ Len(net.kind) \in Nat
  BY <1>1, CtxAssumption, LenProperties DEF NetworkOK
<1>4. DOMAIN value = Nodes(net)
  <2> DEFINE held == [n \in Nodes(net) |-> IF n \in Cells(net) THEN Initial ELSE NoEvent]
  <2>1. value = Founded(net, held, 0, net.start)
    BY DEF Init
  <2>2. DOMAIN held = Nodes(net) /\ 0 \in Nat /\ net.start \in Nat /\ 0 <= net.start
    BY <1>3
  <2> HIDE DEF held
  <2> QED BY <2>1, <2>2, FoundedKeeps
<1>5. NetInv
  BY <1>1, <1>3, <1>4 DEF NetInv
<1>6. Covered(net, visited, changed, firing, {})
  BY DEF Init, Covered
<1>7. FlagsInv
  BY <1>6, CoveredMore DEF FlagsInv
<1> QED BY <1>1, <1>2, <1>5, <1>7 DEF CleanInv, IdleInv

(* Whatever the network, however its nodes are made and its transactions   *)
(* nest: every flag that is set is owed its reset, and between propagation *)
(* and the end of end_of_transaction nothing is queued for another round.  *)
THEOREM FlagsOwed == Spec => []CleanInv
<1>1. Init => CleanInv
  BY InitCleans
<1>2. StackInv /\ StackInv' /\ CleanInv /\ [Next]_vars => CleanInv'
  <2> SUFFICES ASSUME StackInv, StackInv', CleanInv, [Next]_vars PROVE CleanInv'
    OBVIOUS
  <2>1. CASE Program
    BY <2>1, ProgramCleans
  <2>2. CASE Engine
    BY <2>2, UpdateCleans, EotCleans, CloseCleans, PrePostCleans, PostCleans DEF Engine
  <2>3. CASE UNCHANGED context
    BY <2>3 DEF context, flags, cells, queues, program, CleanInv, NetInv, FlagsInv, IdleInv, Nodes
  <2> QED BY <2>1, <2>2, <2>3, StepOf
<1> QED BY <1>1, <1>2, StackShape, PTL DEF Spec

(* end_of_transaction runs pre_post before post: the post closures run     *)
(* outside of any transaction and on a clean slate, nothing fires and no   *)
(* node counts as visited or changed, so that what they send is            *)
(* propagated as if nothing had been sent before.                          *)
THEOREM PostRunsOutside == Spec => []PostOutside
<1>1. StackInv /\ CleanInv => PostOutside
  <2> SUFFICES ASSUME StackInv, CleanInv, TopIs("eot", "post") PROVE PostOutside
    BY DEF PostOutside
  <2>1. stack # <<>> /\ ~Active(stack) /\ Pending(stack) = {}
    BY TopIsFrame DEF StackInv, TopIs, Top, Propagates, Pending
  <2>2. /\ depth = 0 /\ changedNodes = <<>> /\ prePost = <<>>
        /\ Covered(net, visited, changed, firing, {})
    BY <2>1, Resting
  <2>3. \A n \in Nodes(net) : firing[n] = NoEvent /\ ~visited[n]
    BY <2>2 DEF Covered, Due
  <2>4. \A n \in 1 .. net.start : n \in Nodes(net) /\ n <= net.start
    <3>1. net.start \in 0 .. Len(net.kind) /\ Len(net.kind) \in Nat
      BY CtxAssumption, LenProperties DEF CleanInv, NetInv, NetworkOK
    <3> QED BY <3>1 DEF Nodes
  <2>5. \A n \in 1 .. net.start : changed[n] => net.kind[n] = "outerC"
    BY <2>2, <2>4 DEF Covered, Due
  <2> QED BY <2>2, <2>3, <2>5 DEF PostOutside
<1> QED BY <1>1, StackShape, FlagsOwed, PTL

(* SodiumCtx::post of hold: a cell takes its next value only in post, and  *)
(* then no stream fires; what the program makes meanwhile leaves the cells *)
(* that were there alone.  So a snapshot, which reads a cell while its own *)
(* stream fires, reads what the cell held before the transaction.          *)
THEOREM CellsChange == Spec => CellsChangeBetween
<1>1. StackInv /\ CleanInv /\ [Next]_vars =>
        [(\E c \in 1 .. built : value'[c] # value[c]) =>
           \A n \in Nodes(net) : firing[n] = NoEvent /\ firing'[n] = NoEvent]_vars
  <2> SUFFICES ASSUME StackInv, CleanInv, [Next]_vars,
                      NEW c \in 1 .. built, value'[c] # value[c], NEW n \in Nodes(net)
               PROVE  firing[n] = NoEvent /\ firing'[n] = NoEvent
    OBVIOUS
  <2>1. value' # value
    OBVIOUS
  <2>2. Build \/ RunPost
    BY <2>1, StepOf DEF Program, Engine, Enter, Leave, Post, Send, RunPreEot, TakeChanged,
                UpdateChanged, RunPrePost, EndEot, VisitDependency, RunUpdate, BeginSwitch,
                EndSwitch, VisitDependent, EndUpdate, cells, context
  <2>3. CASE Build
    <3> DEFINE a == built + 1
               b == LastOf(net, a)
    <3>1. /\ built \in Nat /\ b \in Nat /\ a <= b /\ 1 .. built \subseteq Nodes(net)
      BY <2>3, BuildGrows DEF CleanInv
    <3>2. value' = Founded(net, value, built, b)
      BY <2>3 DEF Build
    <3> HIDE DEF b
    <3>3. built <= b /\ c \notin built + 1 .. b /\ c \in DOMAIN value
      BY <3>1 DEF CleanInv, NetInv
    <3>4. value'[c] = value[c]
      BY <3>1, <3>2, <3>3, FoundedKeeps
    <3> QED BY <3>4
  <2>4. CASE RunPost
    <3>1. TopIs("eot", "post") /\ firing' = firing
      BY <2>1, <2>4 DEF RunPost, flags, cells
    <3>2. stack # <<>> /\ ~Active(stack) /\ Pending(stack) = {}
      BY <3>1, TopIsFrame DEF StackInv, TopIs, Top, Propagates, Pending
    <3>3. Covered(net, visited, changed, firing, {})
      BY <3>2, Resting
    <3>4. firing[n] = NoEvent
      BY <3>3 DEF Covered, Due
    <3> QED BY <3>1, <3>4
  <2> QED BY <2>2, <2>3, <2>4
<1> QED BY <1>1, StackShape, FlagsOwed, PTL DEF Spec, CellsChangeBetween

-----------------------------------------------------------------------------
(* The nodes up to number b are whole combinators.                         *)
Whole(nt, b) == \A m \in 1 .. b : LastOf(nt, m) <= b

(* The streams that a switch may come to follow.                           *)
Followable(nt, n) ==
  {IF nt.kind[n] = "switchC" THEN nt.in[nt.inner[n][k]][1] ELSE nt.inner[n][k] : k \in 1 .. 2}

(* What is right for a list of nodes, for the closures that wait in        *)
(* pre_post and in post, and for a call, while b nodes are made.           *)
NodeList(b, s) == IsList(s) /\ Entries(s) \subseteq 1 .. b

ResetStep(nt, b, k) ==
  /\ k.op \in {"clear", "forget", "rewire", "unvisit"}
  /\ k.op = "rewire" =>
       /\ k.node \in 1 .. b /\ nt.kind[k.node] = "switch"
       /\ k.stream \in 1 .. b /\ k.stream \in Followable(nt, k.node)

PostStep(nt, b, k) ==
  /\ k.op \in {"commit", "remove", "send", "user"}
  /\ k.op = "send" => k.node \in 1 .. b /\ nt.kind[k.node] = "deferred"
  /\ k.op = "remove" => k.node \in 1 .. b /\ nt.kind[k.node] = "once"

ResetList(nt, b, s) == IsList(s) /\ \A k \in Entries(s) : ResetStep(nt, b, k)
PostList(nt, b, s) == IsList(s) /\ \A k \in Entries(s) : PostStep(nt, b, k)

FrameTyped(nt, b, f) ==
  /\ {"op", "pc", "list"} \subseteq DOMAIN f
  /\ f.op = "eot" =>
       /\ f.pc = "pre_eot" => FirstList(nt, b, f.list)
       /\ f.pc = "batch" => NodeList(b, f.list)
       /\ f.pc = "pre_post" => ResetList(nt, b, f.list)
       /\ f.pc = "post" => PostList(nt, b, f.list)
  /\ f.op = "update" =>
       {"node", "reads"} \subseteq DOMAIN f /\ f.node \in 1 .. b /\ NodeList(b, f.list)

AllTyped(nt, b, s) == \A i \in 1 .. Len(s) : FrameTyped(nt, b, s[i])

(* The same for the edges, for what the nodes hold and for the queues.     *)
EdgesTyped(nt, b, deps, dnts, inn) ==
  /\ DOMAIN deps = Nodes(nt) /\ DOMAIN dnts = Nodes(nt) /\ DOMAIN inn = Nodes(nt)
  /\ \A n \in Nodes(nt) :
       NodeList(b, deps[n]) /\ NodeList(b, dnts[n]) /\ inn[n] \in 0 .. Len(nt.kind)

StateTypes(nt, ch, fi, nx) ==
  ch \in [Nodes(nt) -> BOOLEAN] /\ DOMAIN fi = Nodes(nt) /\ DOMAIN nx = Nodes(nt)

QueuesTyped(nt, b, cn, pp, po) ==
  NodeList(b, cn) /\ ResetList(nt, b, pp) /\ PostList(nt, b, po)

(* The inductive invariant: what is queued, followed or called is made.    *)
TypeInv ==
  /\ Whole(net, built) /\ settled \in 0 .. built
  /\ EdgesTyped(net, built, dependencies, dependents, inner)
  /\ visited \in [Nodes(net) -> BOOLEAN] /\ StateTypes(net, changed, firing, next)
  /\ QueuesTyped(net, built, changedNodes, prePost, post) /\ FirstList(net, built, preEot)
  /\ AllTyped(net, built, stack)
  /\ open \in 0 .. MaxDepth /\ sends \in 0 .. MaxSends

-----------------------------------------------------------------------------
(* What NetworkOK says of the nodes.                                       *)
LEMMA NetworkNodes ==
  ASSUME NEW nt, NetworkOK(nt)
  PROVE  /\ Len(nt.kind) \in Nat /\ nt.start \in 0 .. Len(nt.kind) /\ Nodes(nt) = 1 .. Len(nt.kind)
         /\ \A n \in Nodes(nt) :
              /\ IsList(nt.in[n]) /\ DOMAIN nt.in[n] = 1 .. Len(nt.in[n])
              /\ Len(nt.in[n]) = (IF n \in Sinks(nt) THEN 0
                                  ELSE IF nt.kind[n] \in {"merge", "orElse"} THEN 2 ELSE 1)
              /\ Entries(nt.in[n]) = Inputs(nt, n) /\ Inputs(nt, n) \subseteq Nodes(nt)
              /\ n \notin Sinks(nt) => nt.in[n][1] \in Inputs(nt, n)
              /\ nt.kind[n] # "loop" => Inputs(nt, n) \subseteq 1 .. n - 1
              /\ nt.kind[n] = "loop" => nt.in[n][1] \in Nodes(nt) /\ Inputs(nt, n) = {nt.in[n][1]}
<1>1. /\ Len(nt.kind) \in Nat /\ nt.start \in 0 .. Len(nt.kind) /\ Nodes(nt) = 1 .. Len(nt.kind)
      /\ nt.in \in Seq(Seq(Nodes(nt))) /\ Len(nt.in) = Len(nt.kind)
  BY LenProperties DEF NetworkOK, Nodes
<1>2. ASSUME NEW n \in Nodes(nt)
      PROVE  /\ IsList(nt.in[n]) /\ DOMAIN nt.in[n] = 1 .. Len(nt.in[n])
             /\ Len(nt.in[n]) = (IF n \in Sinks(nt) THEN 0
                                 ELSE IF nt.kind[n] \in {"merge", "orElse"} THEN 2 ELSE 1)
             /\ Entries(nt.in[n]) = Inputs(nt, n) /\ Inputs(nt, n) \subseteq Nodes(nt)
             /\ n \notin Sinks(nt) => nt.in[n][1] \in Inputs(nt, n)
             /\ nt.kind[n] # "loop" => Inputs(nt, n) \subseteq 1 .. n - 1
             /\ nt.kind[n] = "loop" => nt.in[n][1] \in Nodes(nt) /\ Inputs(nt, n) = {nt.in[n][1]}
  <2> DEFINE s == nt.in[n]
  <2>1. s \in Seq(Nodes(nt))
    BY <1>1, ElementOfSeq
  <2>2. /\ Len(s) = (IF n \in Sinks(nt) THEN 0
                     ELSE IF nt.kind[n] \in {"merge", "orElse"} THEN 2 ELSE 1)
        /\ Inputs(nt, n) \subseteq (IF nt.kind[n] = "loop" THEN Nodes(nt) ELSE 1 .. n - 1)
    BY DEF NetworkOK
  <2>3. Inputs(nt, n) = {s[k] : k \in DOMAIN s}
    BY DEF Inputs
  <2>7. nt.kind[n] = "loop" => n \notin Sinks(nt)
    BY DEF Sinks, OfKind
  <2> HIDE DEF s
  <2>4. IsList(s) /\ Entries(s) \subseteq Nodes(nt) /\ DOMAIN s = 1 .. Len(s)
    BY <2>1, ListOf, LenProperties
  <2>5. Entries(s) = Inputs(nt, n)
    BY <2>3, <2>4 DEF Entries
  <2>6. n \notin Sinks(nt) => s[1] \in Entries(s)
    BY <2>2 DEF Entries
  <2>8. nt.kind[n] = "loop" => Len(s) = 1 /\ Entries(s) = {s[1]}
    BY <2>2, <2>7 DEF Entries
  <2> QED BY <2>2, <2>4, <2>5, <2>6, <2>8 DEF s
<1> QED BY <1>1, <1>2

(* What is made depends on what is made.                                   *)
LEMMA InputsMade ==
  ASSUME NEW nt, NetworkOK(nt), NEW b \in nt.start .. Len(nt.kind), Whole(nt, b), NEW n \in 1 .. b
  PROVE  NodeList(b, nt.in[n]) /\ n \in Nodes(nt)
<1>1. /\ Len(nt.kind) \in Nat /\ nt.start \in Nat /\ n \in Nodes(nt) /\ b \in Nat
  BY NetworkNodes
<1>2. CASE nt.kind[n] # "loop"
  <2>1. /\ IsList(nt.in[n]) /\ Entries(nt.in[n]) = Inputs(nt, n)
        /\ nt.kind[n] # "loop" => Inputs(nt, n) \subseteq 1 .. n - 1
    BY <1>1, NetworkNodes
  <2>2. 1 .. n - 1 \subseteq 1 .. b
    BY <1>1
  <2> QED BY <1>1, <1>2, <2>1, <2>2 DEF NodeList
<1>3. CASE nt.kind[n] = "loop"
  <2>1. IsList(nt.in[n]) /\ Entries(nt.in[n]) = {nt.in[n][1]} /\ nt.in[n][1] \in 1 .. Len(nt.kind)
    BY <1>1, <1>3, NetworkNodes
  <2>2. LastOf(nt, n) = nt.in[n][1]
    BY <1>3 DEF LastOf
  <2>3. nt.in[n][1] <= b
    BY <2>2 DEF Whole
  <2> QED BY <1>1, <2>1, <2>3 DEF NodeList
<1> QED BY <1>1, <1>2, <1>3

(* What a switch may follow is made when its outer node is.                *)
LEMMA FollowedMade ==
  ASSUME NEW nt, NetworkOK(nt), NEW b \in nt.start .. Len(nt.kind), NEW n \in Nodes(nt),
         nt.kind[n] \in {"switch", "switchC"}, n - 1 <= b, NEW v
  PROVE  /\ Chosen(nt, n, v) \in 1 .. b /\ Followed(nt, n, v) \in 1 .. b
         /\ Followed(nt, n, v) \in Followable(nt, n)
         /\ nt.kind[n] = "switch" => Chosen(nt, n, v) \in Followable(nt, n)
<1>1. /\ Len(nt.kind) \in Nat /\ nt.start \in Nat /\ b \in Nat /\ Nodes(nt) = 1 .. Len(nt.kind)
  BY NetworkNodes
<1>2. \A k \in 1 .. 2 : nt.inner[n][k] < n \/ (k = 2 /\ nt.inner[n][k] <= nt.start)
  BY DEF NetworkOK
<1>3. PICK k \in 1 .. 2 : Chosen(nt, n, v) = nt.inner[n][k]
  BY DEF Chosen
<1> DEFINE c == Chosen(nt, n, v)
<1>4. c \in Nodes(nt) /\ (nt.kind[n] = "switchC" => c \in Cells(nt))
  BY <1>3 DEF NetworkOK, Cells, OfKind
<1>5. c < n \/ c <= nt.start
  BY <1>2, <1>3
<1>6. Followed(nt, n, v) = IF nt.kind[n] = "switchC" THEN nt.in[c][1] ELSE c
  BY DEF Followed
<1>9. /\ Followed(nt, n, v) \in Followable(nt, n)
      /\ nt.kind[n] = "switch" => c \in Followable(nt, n)
  BY <1>3, <1>6 DEF Followable
<1> HIDE DEF c
<1>7. c \in 1 .. b
  BY <1>1, <1>4, <1>5
<1>8. nt.kind[n] = "switchC" => nt.in[c][1] \in 1 .. b
  <2> SUFFICES ASSUME nt.kind[n] = "switchC" PROVE nt.in[c][1] \in 1 .. b
    OBVIOUS
  <2>1. c \in Nodes(nt) /\ c \notin Sinks(nt) /\ nt.kind[c] # "loop"
    BY <1>4 DEF Cells, Sinks, OfKind
  <2>2. nt.in[c][1] \in 1 .. c - 1
    BY <2>1, NetworkNodes
  <2> QED BY <1>1, <1>7, <2>2
<1> QED BY <1>6, <1>7, <1>8, <1>9 DEF c

(* The other node that a node has to do with is made with it.              *)
LEMMA PartnerMade ==
  ASSUME NEW nt, NetworkOK(nt), NEW b \in nt.start .. Len(nt.kind), Whole(nt, b), NEW n \in 1 .. b
  PROVE  /\ n \in Defers(nt) => nt.to[n] \in 1 .. b /\ nt.kind[nt.to[n]] = "deferred"
         /\ nt.kind[n] = "outer" => /\ nt.to[n] = n + 1 /\ n + 1 \in 1 .. b
                                    /\ nt.kind[n + 1] = "switch"
         /\ nt.kind[n] = "outerC" => /\ nt.to[n] = n + 1 /\ n + 1 \in 1 .. b
                                     /\ nt.kind[n + 1] = "switchC"
<1>1. /\ Len(nt.kind) \in Nat /\ nt.start \in Nat /\ b \in Nat /\ n \in Nodes(nt)
      /\ Nodes(nt) = 1 .. Len(nt.kind) /\ LastOf(nt, n) <= b
  BY NetworkNodes DEF Whole
<1>2. ASSUME n \in Defers(nt) PROVE nt.to[n] \in 1 .. b /\ nt.kind[nt.to[n]] = "deferred"
  <2>1. nt.to[n] = n - 1 /\ nt.kind[n - 1] = "deferred"
    BY <1>1, <1>2 DEF NetworkOK
  <2>2. n \notin Sinks(nt) /\ nt.kind[n] # "loop"
    BY <1>2 DEF Defers, Sinks, OfKind
  <2>3. nt.in[n][1] \in 1 .. n - 1
    BY <1>1, <2>2, NetworkNodes
  <2> QED BY <1>1, <2>1, <2>3
<1>3. ASSUME nt.kind[n] = "outer"
      PROVE  nt.to[n] = n + 1 /\ n + 1 \in 1 .. b /\ nt.kind[n + 1] = "switch"
  <2>1. LastOf(nt, n) = n + 1
    BY <1>3 DEF LastOf
  <2> QED BY <1>1, <1>3, <2>1 DEF NetworkOK
<1>4. ASSUME nt.kind[n] = "outerC"
      PROVE  nt.to[n] = n + 1 /\ n + 1 \in 1 .. b /\ nt.kind[n + 1] = "switchC"
  <2>1. LastOf(nt, n) = n + 2
    BY <1>4 DEF LastOf
  <2>2. SubSeq(nt.kind, n, n + 2) = <<"outerC", "switchC", "hold">> /\ nt.to[n] = n + 1
    BY <1>1, <1>4 DEF NetworkOK
  <2>3. SubSeq(nt.kind, n, n + 2)[2] = nt.kind[n + 1]
    <3> DEFINE K == {nt.kind[i] : i \in n .. n + 2}
    <3>1. n \in Int /\ n + 2 \in Int /\ 2 \in 1 .. n + 2 - n + 1 /\ n + 2 - 1 = n + 1
      BY <1>1
    <3>2. \A i \in n .. n + 2 : nt.kind[i] \in K
      OBVIOUS
    <3> HIDE DEF K
    <3>3. \A i \in 1 .. n + 2 - n + 1 : SubSeq(nt.kind, n, n + 2)[i] = nt.kind[n + i - 1]
      BY <3>1, <3>2, SubSeqProperties
    <3> DEFINE t == SubSeq(nt.kind, n, n + 2)
    <3>4. \A i \in 1 .. n + 2 - n + 1 : t[i] = nt.kind[n + i - 1]
      BY <3>3
    <3> HIDE DEF t
    <3>5. t[2] = nt.kind[n + 2 - 1]
      BY <3>1, <3>4
    <3>6. t[2] = nt.kind[n + 1]
      BY <3>1, <3>5
    <3> QED BY <3>6 DEF t
  <2> DEFINE t == SubSeq(nt.kind, n, n + 2)
  <2>5. t = <<"outerC", "switchC", "hold">> /\ t[2] = nt.kind[n + 1]
    BY <2>2, <2>3
  <2> HIDE DEF t
  <2>4. nt.kind[n + 1] = "switchC"
    BY <2>5
  <2> QED BY <1>1, <2>1, <2>2, <2>4
<1> QED BY <1>2, <1>3, <1>4

-----------------------------------------------------------------------------
(* What is right for fewer nodes is right for more.                        *)
LEMMA TypedMore ==
  ASSUME NEW nt, NEW b \in Nat, NEW c \in Nat, b <= c
  PROVE  /\ 1 .. b \subseteq 1 .. c
         /\ \A s : NodeList(b, s) => NodeList(c, s)
         /\ \A s : FirstList(nt, b, s) => FirstList(nt, c, s)
         /\ \A s : ResetList(nt, b, s) => ResetList(nt, c, s)
         /\ \A s : PostList(nt, b, s) => PostList(nt, c, s)
<1>1. 1 .. b \subseteq 1 .. c
  OBVIOUS
<1>2. \A k : /\ FirstStep(nt, b, k) => FirstStep(nt, c, k)
             /\ ResetStep(nt, b, k) => ResetStep(nt, c, k)
             /\ PostStep(nt, b, k) => PostStep(nt, c, k)
  BY <1>1 DEF FirstStep, ResetStep, PostStep
<1> QED BY <1>1, <1>2 DEF NodeList, FirstList, ResetList, PostList

(* The empty list is right, and so is a right one with one more entry.     *)
LEMMA TypedAppend ==
  ASSUME NEW nt, NEW b
  PROVE  /\ NodeList(b, <<>>) /\ FirstList(nt, b, <<>>)
         /\ ResetList(nt, b, <<>>) /\ PostList(nt, b, <<>>)
         /\ \A s, n : NodeList(b, s) /\ n \in 1 .. b => NodeList(b, Append(s, n))
         /\ \A s, k : ResetList(nt, b, s) /\ ResetStep(nt, b, k) => ResetList(nt, b, Append(s, k))
         /\ \A s, k : PostList(nt, b, s) /\ PostStep(nt, b, k) => PostList(nt, b, Append(s, k))
<1>1. IsList(<<>>) /\ Entries(<<>>) = {}
  BY ListEmpty
<1>2. ASSUME NEW s, IsList(s), NEW k
      PROVE  IsList(Append(s, k)) /\ Entries(Append(s, k)) = Entries(s) \cup {k}
  BY <1>2, ListAppend
<1>3. ASSUME NEW s, NEW n, NodeList(b, s), n \in 1 .. b PROVE NodeList(b, Append(s, n))
  BY <1>2, <1>3 DEF NodeList
<1>4. ASSUME NEW s, NEW k, ResetList(nt, b, s), ResetStep(nt, b, k)
      PROVE  ResetList(nt, b, Append(s, k))
  BY <1>2, <1>4 DEF ResetList
<1>5. ASSUME NEW s, NEW k, PostList(nt, b, s), PostStep(nt, b, k)
      PROVE  PostList(nt, b, Append(s, k))
  BY <1>2, <1>5 DEF PostList
<1>6. NodeList(b, <<>>) /\ FirstList(nt, b, <<>>) /\ ResetList(nt, b, <<>>) /\ PostList(nt, b, <<>>)
  BY <1>1 DEF NodeList, FirstList, ResetList, PostList
<1> QED BY <1>3, <1>4, <1>5, <1>6

(* A right list after a right list is right.                               *)
LEMMA TypedConcat ==
  ASSUME NEW nt, NEW b, NEW s, NEW t
  PROVE  /\ NodeList(b, s) /\ NodeList(b, t) => NodeList(b, s \o t)
         /\ FirstList(nt, b, s) /\ FirstList(nt, b, t) => FirstList(nt, b, s \o t)
         /\ ResetList(nt, b, s) /\ ResetList(nt, b, t) => ResetList(nt, b, s \o t)
         /\ PostList(nt, b, s) /\ PostList(nt, b, t) => PostList(nt, b, s \o t)
<1>1. IsList(s) /\ IsList(t) => IsList(s \o t) /\ Entries(s \o t) = Entries(s) \cup Entries(t)
  BY ListConcat
<1> QED BY <1>1 DEF NodeList, FirstList, ResetList, PostList

(* A right list is right without its first entry.                          *)
LEMMA TypedTail ==
  ASSUME NEW nt, NEW b, NEW s, s # <<>>
  PROVE  /\ NodeList(b, s) => NodeList(b, Tail(s)) /\ Head(s) \in 1 .. b
         /\ FirstList(nt, b, s) => FirstList(nt, b, Tail(s)) /\ FirstStep(nt, b, Head(s))
         /\ ResetList(nt, b, s) => ResetList(nt, b, Tail(s)) /\ ResetStep(nt, b, Head(s))
         /\ PostList(nt, b, s) => PostList(nt, b, Tail(s)) /\ PostStep(nt, b, Head(s))
<1>1. IsList(s) => IsList(Tail(s)) /\ Entries(s) = Entries(Tail(s)) \cup {Head(s)}
  BY ListTail
<1> QED BY <1>1 DEF NodeList, FirstList, ResetList, PostList

(* The dependents that a node gets are among those that are made.          *)
LEMMA RegisteredMade ==
  ASSUME NEW STATE m, NEW STATE a, NEW STATE b, a \in Nat \ {0}, b \in Nat, NEW deps
  PROVE  NodeList(b, Registered(m, a, b, deps))
<1> DEFINE reads(n) == m \in {deps[n][k] : k \in DOMAIN deps[n]} /\ net.kind[n] # "route"
           A == {n \in a .. b : reads(n) /\ net.kind[n] # "loop"}
           B == {n \in a .. b : reads(n) /\ net.kind[n] = "loop"}
<1>1. Registered(m, a, b, deps) = InOrder(A) \o InOrder(B)
  BY DEF Registered
<1>2. A \in SUBSET (1 .. b) /\ B \in SUBSET (1 .. b)
  OBVIOUS
<1> HIDE DEF A, B
<1>3. NodeList(b, InOrder(A)) /\ NodeList(b, InOrder(B))
  BY <1>2, InOrderList DEF NodeList
<1> QED BY <1>1, <1>3, TypedConcat

(* The sends of a defer or a split go to its result.                       *)
LEMMA SendsMade ==
  ASSUME NEW m, NEW s, IsList(s)
  PROVE  LET t == [i \in DOMAIN s |-> [op |-> "send", node |-> m, event |-> s[i]]] IN
         IsList(t) /\ \A k \in Entries(t) : k.op = "send" /\ k.node = m
<1> DEFINE t == [i \in DOMAIN s |-> [op |-> "send", node |-> m, event |-> s[i]]]
           A == {[op |-> "send", node |-> m, event |-> e] : e \in Entries(s)}
<1>1. Len(s) \in Nat /\ DOMAIN s = 1 .. Len(s)
  BY LenProperties DEF IsList
<1>2. t \in [1 .. Len(s) -> A]
  BY <1>1 DEF Entries
<1>3. \A k \in A : k.op = "send" /\ k.node = m
  OBVIOUS
<1> HIDE DEF t, A
<1>4. t \in Seq(A)
  BY <1>1, <1>2, SeqDef
<1>5. IsList(t) /\ Entries(t) \subseteq A
  BY <1>4, ListOf
<1> QED BY <1>3, <1>5 DEF t

(* What TypeInv and CleanInv say of the network.                           *)
LEMMA TypedNet ==
  ASSUME CleanInv, TypeInv
  PROVE  /\ NetworkOK(net) /\ built \in net.start .. Len(net.kind) /\ Whole(net, built)
         /\ built \in Nat /\ 1 .. built \subseteq Nodes(net) /\ Nodes(net) = 1 .. Len(net.kind)
         /\ built \in 0 .. Len(net.kind)
<1>1. /\ NetworkOK(net) /\ built \in net.start .. Len(net.kind) /\ Whole(net, built)
  BY CtxAssumption DEF CleanInv, NetInv, TypeInv
<1>2. Len(net.kind) \in Nat /\ net.start \in 0 .. Len(net.kind) /\ Nodes(net) = 1 .. Len(net.kind)
  BY <1>1, NetworkNodes
<1> DEFINE l == Len(net.kind)
<1>3. l \in Nat /\ net.start \in 0 .. l /\ Nodes(net) = 1 .. l /\ built \in net.start .. l
  BY <1>1, <1>2
<1> HIDE DEF l
<1>4. built \in Nat /\ 1 .. built \subseteq 1 .. l /\ built \in 0 .. l
  BY <1>3
<1> QED BY <1>1, <1>3, <1>4 DEF l

-----------------------------------------------------------------------------
(* A call begins.                                                          *)
LEMMA TypedPush ==
  ASSUME NEW nt, NEW b, NEW s, s \in Seq(Frames(s)), AllTyped(nt, b, s), NEW f, FrameTyped(nt, b, f)
  PROVE  AllTyped(nt, b, Append(s, f)) /\ Append(s, f) \in Seq(Frames(Append(s, f)))
<1> DEFINE t == Append(s, f)
<1>1. /\ t \in Seq(Frames(t)) /\ Len(s) \in Nat /\ Len(t) = Len(s) + 1
      /\ t[Len(s) + 1] = f /\ \A i \in 1 .. Len(s) : t[i] = s[i]
  BY PushSeq
<1> HIDE DEF t
<1>2. \A i \in 1 .. Len(t) : i = Len(s) + 1 \/ i \in 1 .. Len(s)
  BY <1>1
<1>3. AllTyped(nt, b, t)
  BY <1>1, <1>2 DEF AllTyped
<1> QED BY <1>1, <1>3 DEF t

(* A call returns.                                                         *)
LEMMA TypedPop ==
  ASSUME NEW nt, NEW b, NEW s, s \in Seq(Frames(s)), s # <<>>, AllTyped(nt, b, s)
  PROVE  /\ AllTyped(nt, b, Lower(s)) /\ FrameTyped(nt, b, s[Len(s)])
         /\ Lower(s) \in Seq(Frames(Lower(s)))
<1> DEFINE t == Lower(s)
<1>1. /\ t \in Seq(Frames(t)) /\ Len(s) \in Nat \ {0} /\ Len(t) = Len(s) - 1
      /\ \A i \in 1 .. Len(s) - 1 : t[i] = s[i]
  BY PopSeq
<1> HIDE DEF t
<1>2. Len(s) \in 1 .. Len(s) /\ \A i \in 1 .. Len(t) : i \in 1 .. Len(s) /\ t[i] = s[i]
  BY <1>1
<1> QED BY <1>1, <1>2 DEF AllTyped, t

(* A call goes on.                                                         *)
LEMMA TypedTop ==
  ASSUME StackInv, TypeInv, stack # <<>>
  PROVE  /\ FrameTyped(net, built, Top) /\ AllTyped(net, built, Below)
         /\ \A f : FrameTyped(net, built, f) =>
              AllTyped(net, built, SetTop(f)) /\ SetTop(f) \in Seq(Frames(SetTop(f)))
<1>1. stack \in Seq(Frames(stack)) /\ AllTyped(net, built, stack)
  BY DEF StackInv, Shape, TypeInv
<1>2. /\ AllTyped(net, built, Lower(stack)) /\ FrameTyped(net, built, Top)
      /\ Lower(stack) \in Seq(Frames(Lower(stack)))
  BY <1>1, TypedPop DEF Top
<1>3. ASSUME NEW f, FrameTyped(net, built, f)
      PROVE  AllTyped(net, built, SetTop(f)) /\ SetTop(f) \in Seq(Frames(SetTop(f)))
  <2>1. SetTop(f) = Append(Lower(stack), f)
    BY DEF SetTop, Below, Lower
  <2> HIDE DEF Lower
  <2> QED BY <1>2, <1>3, <2>1, TypedPush
<1> QED BY <1>2, <1>3 DEF Below, Lower

(* A call that goes on differs from what it was in its pc or its list.     *)
LEMMA FrameChanged ==
  ASSUME NEW f, {"op", "pc", "list"} \subseteq DOMAIN f, NEW v, NEW p
  PROVE  /\ LET g == [f EXCEPT !.list = v] IN
              /\ g.op = f.op /\ g.pc = f.pc /\ g.list = v /\ DOMAIN g = DOMAIN f
              /\ "node" \in DOMAIN f => g.node = f.node
         /\ LET g == [f EXCEPT !.pc = p] IN
              /\ g.op = f.op /\ g.pc = p /\ g.list = f.list /\ DOMAIN g = DOMAIN f
              /\ "node" \in DOMAIN f => g.node = f.node
         /\ LET g == [f EXCEPT !.pc = p, !.list = v] IN
              /\ g.op = f.op /\ g.pc = p /\ g.list = v /\ DOMAIN g = DOMAIN f
OBVIOUS

-----------------------------------------------------------------------------
(* A step that makes no nodes has only to respect the rest.                *)
LEMMA TypedStep ==
  ASSUME TypeInv, UNCHANGED <<net, built, open, sends>>, settled' \in 0 .. built,
         EdgesTyped(net, built, dependencies', dependents', inner'),
         visited' \in [Nodes(net) -> BOOLEAN], StateTypes(net, changed', firing', next'),
         QueuesTyped(net, built, changedNodes', prePost', post'), FirstList(net, built, preEot'),
         AllTyped(net, built, stack')
  PROVE  TypeInv'
<1>1. Nodes(net') = Nodes(net)
  OBVIOUS
<1> QED BY <1>1 DEF TypeInv, Nodes

(* The call of update_node for a node.                                     *)
LEMMA VisitTyped ==
  ASSUME CleanInv, TypeInv, NEW STATE n, n \in 1 .. built, NEW STATE rest,
         rest \in Seq(Frames(rest)), AllTyped(net, built, rest), Visit(n, rest)
  PROVE  /\ AllTyped(net, built, stack') /\ visited' \in [Nodes(net) -> BOOLEAN]
         /\ ResetList(net, built, prePost')
<1>1. ResetList(net, built, prePost) /\ visited \in [Nodes(net) -> BOOLEAN]
  BY DEF TypeInv, QueuesTyped
<1>2. CASE visited[n]
  BY <1>1, <1>2 DEF Visit
<1>3. CASE ~visited[n]
  <2> DEFINE k == [op |-> "unvisit", node |-> n]
             f == Update("dependencies", n, dependencies[n], dependencies[n])
  <2>1. /\ visited' = [visited EXCEPT ![n] = TRUE]
        /\ prePost' = Append(prePost, k) /\ stack' = Append(rest, f)
    BY <1>3 DEF Visit
  <2>2. ResetStep(net, built, k)
    BY DEF ResetStep
  <2>3. n \in Nodes(net)
    BY TypedNet
  <2>4. NodeList(built, dependencies[n])
    BY <2>3 DEF TypeInv, EdgesTyped
  <2>5. FrameTyped(net, built, f)
    BY <2>4 DEF FrameTyped, Update
  <2> HIDE DEF k, f
  <2>6. ResetList(net, built, prePost')
    BY <1>1, <2>1, <2>2, TypedAppend
  <2>7. AllTyped(net, built, stack')
    BY <2>1, <2>5, TypedPush
  <2> QED BY <1>1, <2>1, <2>6, <2>7
<1> QED BY <1>2, <1>3

-----------------------------------------------------------------------------
(* _send: an event on a stream.                                            *)
LEMMA FireTyped ==
  ASSUME TypeInv, NEW STATE n, NEW STATE a, Fire(n, a)
  PROVE  /\ changed' \in [Nodes(net) -> BOOLEAN] /\ DOMAIN firing' = Nodes(net)
         /\ ResetList(net, built, prePost')
<1>1. /\ changed \in [Nodes(net) -> BOOLEAN] /\ DOMAIN firing = Nodes(net)
      /\ ResetList(net, built, prePost)
  BY DEF TypeInv, StateTypes, QueuesTyped
<1> DEFINE k == [op |-> "clear", node |-> n]
<1>2. ResetStep(net, built, k)
  BY DEF ResetStep
<1>3. /\ prePost' = prePost \/ prePost' = Append(prePost, k)
      /\ changed' = [changed EXCEPT ![n] = TRUE]
      /\ DOMAIN firing' = DOMAIN firing
  BY DEF Fire
<1> HIDE DEF k
<1>4. ResetList(net, built, prePost')
  BY <1>1, <1>2, <1>3, TypedAppend
<1> QED BY <1>1, <1>3, <1>4

(* A router queues the routes that it fires.                               *)
LEMMA RouterTyped ==
  ASSUME CleanInv, TypeInv, NEW STATE n, RunRouter(n)
  PROVE  /\ StateTypes(net, changed', firing', next')
         /\ QueuesTyped(net, built, changedNodes', prePost', post')
<1> DEFINE a == firing[net.in[n][1]]
           hit(m) == /\ net.kind[m] = "route" /\ net.in[m] = <<n>>
                     /\ a # NoEvent /\ net.to[m] \in Selected(a)
           S == {m \in 1 .. built : hit(m)}
           hits == InOrder(S)
           t == [i \in DOMAIN hits |-> [op |-> "clear", node |-> hits[i]]]
<1>1. /\ DOMAIN firing' = Nodes(net) /\ changed' \in [Nodes(net) -> BOOLEAN]
      /\ prePost' = prePost \o t /\ changedNodes' = changedNodes \o hits
      /\ UNCHANGED <<next, post>>
  <2>1. /\ firing' = [m \in Nodes(net) |-> IF m \in 1 .. built /\ hit(m) THEN a ELSE firing[m]]
        /\ changed' = [m \in Nodes(net) |-> (m \in 1 .. built /\ hit(m)) \/ changed[m]]
        /\ prePost' = prePost \o t /\ changedNodes' = changedNodes \o hits
        /\ UNCHANGED <<next, post>>
    BY DEF RunRouter
  <2> HIDE DEF hit, hits, t
  <2> QED BY <2>1
<1>2. S \in SUBSET (1 .. built) /\ built \in Nat
  BY TypedNet
<1> HIDE DEF S
<1>3. IsList(hits) /\ Entries(hits) = S
  BY <1>2, InOrderList
<1> HIDE DEF hits
<1>4. NodeList(built, hits)
  BY <1>2, <1>3 DEF NodeList
<1>5. IsList(t) /\ \A k \in Entries(t) : k.op = "clear"
  <2> DEFINE A == {[op |-> "clear", node |-> m] : m \in S}
  <2>1. Len(hits) \in Nat /\ DOMAIN hits = 1 .. Len(hits)
    BY <1>3, LenProperties DEF IsList
  <2>2. t \in [1 .. Len(hits) -> A]
    BY <1>3, <2>1 DEF Entries
  <2>3. \A k \in A : k.op = "clear"
    OBVIOUS
  <2> HIDE DEF t, A
  <2>4. t \in Seq(A)
    BY <2>1, <2>2, SeqDef
  <2>5. IsList(t) /\ Entries(t) \subseteq A
    BY <2>4, ListOf
  <2> QED BY <2>3, <2>5
<1> HIDE DEF t
<1>6. ResetList(net, built, t)
  BY <1>5 DEF ResetList, ResetStep
<1>7. /\ NodeList(built, changedNodes) /\ ResetList(net, built, prePost)
      /\ PostList(net, built, post) /\ DOMAIN next = Nodes(net)
  BY DEF TypeInv, QueuesTyped, StateTypes
<1>8. NodeList(built, changedNodes') /\ ResetList(net, built, prePost')
  BY <1>1, <1>4, <1>6, <1>7, TypedConcat
<1> QED BY <1>1, <1>7, <1>8 DEF StateTypes, QueuesTyped

(* The update closure of any node.                                         *)
LEMMA ClosureTyped ==
  ASSUME CleanInv, TypeInv, NEW STATE n, n \in 1 .. built, RunClosure(n)
  PROVE  /\ StateTypes(net, changed', firing', next')
         /\ QueuesTyped(net, built, changedNodes', prePost', post')
<1>1. /\ StateTypes(net, changed, firing, next)
      /\ QueuesTyped(net, built, changedNodes, prePost, post)
  BY DEF TypeInv
<1>2. \/ RunHold(n) \/ RunListen(n) \/ (n \in Defers(net) /\ RunDefer(n)) \/ RunRouter(n)
      \/ (net.kind[n] = "outer" /\ RunOuter(n)) \/ RunNothing \/ RunStream(n)
  BY DEF RunClosure
<1>3. CASE RunRouter(n)
  BY <1>3, RouterTyped
<1>4. CASE RunListen(n) \/ RunNothing
  BY <1>1, <1>4 DEF RunListen, RunNothing
<1>5. CASE RunHold(n)
  <2> DEFINE k == [op |-> "commit", node |-> n]
  <2>1. PostStep(net, built, k)
    BY DEF PostStep
  <2>2. /\ post' = post \/ post' = Append(post, k)
        /\ DOMAIN next' = DOMAIN next /\ UNCHANGED <<firing, changed, prePost, changedNodes>>
    BY <1>5 DEF RunHold
  <2> HIDE DEF k
  <2>3. PostList(net, built, post')
    BY <1>1, <2>1, <2>2, TypedAppend DEF QueuesTyped
  <2> QED BY <1>1, <2>2, <2>3 DEF StateTypes, QueuesTyped
<1>6. CASE n \in Defers(net) /\ RunDefer(n)
  <2> DEFINE sent == Posted(net, n, firing[net.in[n][1]])
             t == [i \in DOMAIN sent |-> [op |-> "send", node |-> net.to[n], event |-> sent[i]]]
  <2>1. post' = post \o t /\ UNCHANGED <<firing, changed, prePost, changedNodes, next>>
    BY <1>6 DEF RunDefer
  <2>2. IsList(sent)
    <3> DEFINE a == firing[net.in[n][1]]
    <3>1. sent \in {<<>>, <<a>>, <<Part(a, 1), Part(a, 2)>>}
      BY DEF Posted
    <3> DEFINE A == {a, Part(a, 1), Part(a, 2)}
    <3>2. <<>> \in Seq(A) /\ <<a>> \in Seq(A) /\ <<Part(a, 1), Part(a, 2)>> \in Seq(A)
      OBVIOUS
    <3> HIDE DEF A, sent, a
    <3>3. sent \in Seq(A)
      BY <3>1, <3>2
    <3> QED BY <3>3, ListOf
  <2> HIDE DEF sent
  <2>3. IsList(t) /\ \A k \in Entries(t) : k.op = "send" /\ k.node = net.to[n]
    BY <2>2, SendsMade
  <2> HIDE DEF t
  <2>4. net.to[n] \in 1 .. built /\ net.kind[net.to[n]] = "deferred"
    BY <1>6, TypedNet, PartnerMade
  <2>5. PostList(net, built, t)
    BY <2>3, <2>4 DEF PostList, PostStep
  <2>6. PostList(net, built, post')
    BY <1>1, <2>1, <2>5, TypedConcat DEF QueuesTyped
  <2> QED BY <1>1, <2>1, <2>6 DEF StateTypes, QueuesTyped
<1>7. CASE net.kind[n] = "outer" /\ RunOuter(n)
  <2> DEFINE m == net.to[n]
             c == Chosen(net, m, firing[net.in[n][1]])
             k == [op |-> "rewire", node |-> m, stream |-> c]
  <2>1. m = n + 1 /\ m \in 1 .. built /\ net.kind[m] = "switch"
    BY <1>7, TypedNet, PartnerMade
  <2>2. c \in 1 .. built /\ c \in Followable(net, m)
    <3>1. m \in Nodes(net) /\ net.kind[m] \in {"switch", "switchC"} /\ m - 1 <= built
      BY <2>1, TypedNet
    <3> HIDE DEF m
    <3> QED BY <2>1, <3>1, TypedNet, FollowedMade
  <2>3. /\ prePost' = prePost \/ prePost' = Append(prePost, k)
        /\ UNCHANGED <<firing, changed, changedNodes, next, post>>
    BY <1>7 DEF RunOuter
  <2> HIDE DEF m, c
  <2>4. ResetStep(net, built, k)
    BY <2>1, <2>2 DEF ResetStep
  <2> HIDE DEF k
  <2>5. ResetList(net, built, prePost')
    BY <1>1, <2>3, <2>4, TypedAppend DEF QueuesTyped
  <2> QED BY <1>1, <2>3, <2>5 DEF StateTypes, QueuesTyped
<1>8. CASE RunStream(n)
  <2> DEFINE k == [op |-> "remove", node |-> n]
  <2>1. net.kind[n] = "once" => PostStep(net, built, k)
    BY DEF PostStep
  <2>2. UNCHANGED <<next, changedNodes>>
    BY <1>8 DEF RunStream
  <2>3. PICK a : \/ UNCHANGED <<firing, changed, prePost, post>>
                 \/ /\ Fire(n, a)
                    /\ post' = post \/ (net.kind[n] = "once" /\ post' = Append(post, k))
    BY <1>8 DEF RunStream, AfterFiring
  <2> HIDE DEF k
  <2>4. CASE UNCHANGED <<firing, changed, prePost, post>>
    BY <1>1, <2>2, <2>4 DEF StateTypes, QueuesTyped
  <2>5. CASE /\ Fire(n, a)
             /\ post' = post \/ (net.kind[n] = "once" /\ post' = Append(post, k))
    <3>1. /\ changed' \in [Nodes(net) -> BOOLEAN] /\ DOMAIN firing' = Nodes(net)
          /\ ResetList(net, built, prePost')
      BY <2>5, FireTyped
    <3>2. PostList(net, built, post')
      BY <1>1, <2>1, <2>5, TypedAppend DEF QueuesTyped
    <3> QED BY <1>1, <2>2, <3>1, <3>2 DEF StateTypes, QueuesTyped
  <2> QED BY <2>3, <2>4, <2>5
<1> QED BY <1>2, <1>3, <1>4, <1>5, <1>6, <1>7, <1>8

-----------------------------------------------------------------------------
(* retain keeps all the others.                                            *)
LEMMA WithoutList ==
  ASSUME NEW l, IsList(l), NEW x
  PROVE  IsList(Without(l, x)) /\ Entries(Without(l, x)) = Entries(l) \ {x}
<1> DEFINE S == {i \in DOMAIN l : l[i] # x}
           kept == InOrder(S)
           w == [k \in DOMAIN kept |-> l[kept[k]]]
           A == Entries(l) \ {x}
<1>1. Len(l) \in Nat /\ DOMAIN l = 1 .. Len(l)
  BY LenProperties DEF IsList
<1>2. Without(l, x) = w
  BY DEF Without
<1>3. S \in SUBSET (1 .. Len(l)) /\ \A i \in 1 .. Len(l) : l[i] # x => i \in S
  BY <1>1
<1>4. \A i \in S : i \in 1 .. Len(l) /\ l[i] # x
  BY <1>1
<1> HIDE DEF S
<1>5. IsList(kept) /\ Entries(kept) = S
  BY <1>1, <1>3, InOrderList
<1> HIDE DEF kept
<1>6. Len(kept) \in Nat /\ DOMAIN kept = 1 .. Len(kept)
  BY <1>5, LenProperties DEF IsList
<1>7. \A k \in 1 .. Len(kept) : kept[k] \in S
  BY <1>5 DEF Entries
<1>8. w \in [1 .. Len(kept) -> A] /\ \A k \in 1 .. Len(kept) : w[k] = l[kept[k]]
  BY <1>4, <1>6, <1>7 DEF Entries
<1>9. \A y \in A : \E k \in 1 .. Len(kept) : l[kept[k]] = y
  <2> TAKE y \in A
  <2>1. PICK i \in 1 .. Len(l) : l[i] = y
    BY DEF Entries
  <2>2. i \in S
    BY <1>3, <2>1
  <2>3. PICK k \in 1 .. Len(kept) : kept[k] = i
    BY <1>5, <2>2 DEF Entries
  <2> QED BY <2>1, <2>3
<1> HIDE DEF w, A
<1>10. w \in Seq(A) /\ Len(w) = Len(kept)
  BY <1>6, <1>8, SeqDef, LenProperties
<1>11. IsList(w) /\ Entries(w) \subseteq A
  BY <1>10, ListOf
<1>12. A \subseteq Entries(w)
  BY <1>8, <1>9, <1>10 DEF Entries
<1> QED BY <1>2, <1>11, <1>12 DEF A

(* A switch is moved to a stream that is made.                             *)
LEMMA RewireTyped ==
  ASSUME CleanInv, TypeInv, NEW STATE n, NEW STATE s, s \in 1 .. built, n \in 1 .. built, Rewire(n, s)
  PROVE  EdgesTyped(net, built, dependencies', dependents', inner')
<1>1. /\ DOMAIN dependencies = Nodes(net) /\ DOMAIN dependents = Nodes(net)
      /\ DOMAIN inner = Nodes(net)
      /\ \A m \in Nodes(net) :
           /\ NodeList(built, dependencies[m]) /\ NodeList(built, dependents[m])
           /\ inner[m] \in 0 .. Len(net.kind)
  BY DEF TypeInv, EdgesTyped
<1>2. n \in Nodes(net) /\ s \in 0 .. Len(net.kind)
  BY TypedNet
<1>3. ASSUME NEW l, NodeList(built, l), NEW x PROVE NodeList(built, Without(l, x))
  BY <1>3, WithoutList DEF NodeList
<1>4. NodeList(built, Append(Without(dependencies[n], inner[n]), s))
  BY <1>1, <1>2, <1>3, TypedAppend
<1>5. /\ inner' = [inner EXCEPT ![n] = s]
      /\ dependencies' = [dependencies EXCEPT ![n] = Append(Without(dependencies[n], inner[n]), s)]
  BY DEF Rewire
<1>6. DOMAIN dependents' = Nodes(net)
  BY DEF Rewire
<1>7. ASSUME NEW m \in Nodes(net)
      PROVE  NodeList(built, dependents'[m])
  <2> DEFINE kept == IF m = inner[n] THEN Without(dependents[m], n) ELSE dependents[m]
  <2>1. dependents'[m] = IF m = s THEN Append(kept, n) ELSE kept
    BY DEF Rewire
  <2>2. NodeList(built, kept)
    BY <1>1, <1>3
  <2> HIDE DEF kept
  <2> QED BY <2>1, <2>2, TypedAppend
<1>8. ASSUME NEW m \in Nodes(net)
      PROVE  NodeList(built, dependencies'[m]) /\ inner'[m] \in 0 .. Len(net.kind)
  BY <1>1, <1>2, <1>4, <1>5
<1> QED BY <1>1, <1>5, <1>6, <1>7, <1>8 DEF EdgesTyped

(* A switch begins to follow a stream.                                     *)
LEMMA ConnectTyped ==
  ASSUME CleanInv, TypeInv, NEW STATE n, n \in 1 .. built,
         net.kind[n] \in {"switch", "switchC"}, Connect(n)
  PROVE  EdgesTyped(net, built, dependencies', dependents', inner')
<1> DEFINE s == Followed(net, n, value[net.to[n]])
<1>1. /\ DOMAIN dependencies = Nodes(net) /\ DOMAIN dependents = Nodes(net)
      /\ DOMAIN inner = Nodes(net)
      /\ \A m \in Nodes(net) :
           /\ NodeList(built, dependencies[m]) /\ NodeList(built, dependents[m])
           /\ inner[m] \in 0 .. Len(net.kind)
  BY DEF TypeInv, EdgesTyped
<1>2. n \in Nodes(net) /\ n - 1 <= built
  BY TypedNet
<1>3. s \in 1 .. built
  BY <1>2, TypedNet, FollowedMade
<1>4. /\ inner' = [inner EXCEPT ![n] = s]
      /\ dependencies' = [dependencies EXCEPT ![n] = Append(dependencies[n], s)]
      /\ dependents' = [dependents EXCEPT ![s] = Append(dependents[s], n)]
  BY DEF Connect
<1> HIDE DEF s
<1>5. s \in Nodes(net) /\ s \in 0 .. Len(net.kind)
  BY <1>3, TypedNet
<1>6. NodeList(built, Append(dependencies[n], s)) /\ NodeList(built, Append(dependents[s], n))
  BY <1>1, <1>2, <1>3, <1>5, TypedAppend
<1> QED BY <1>1, <1>2, <1>4, <1>5, <1>6 DEF EdgesTyped

(* A once is disconnected.                                                 *)
LEMMA DisconnectTyped ==
  ASSUME TypeInv, NEW STATE n, Disconnect(n), inner' = inner
  PROVE  EdgesTyped(net, built, dependencies', dependents', inner')
<1>1. /\ DOMAIN dependencies = Nodes(net) /\ DOMAIN dependents = Nodes(net)
      /\ DOMAIN inner = Nodes(net)
      /\ \A m \in Nodes(net) :
           /\ NodeList(built, dependencies[m]) /\ NodeList(built, dependents[m])
           /\ inner[m] \in 0 .. Len(net.kind)
  BY DEF TypeInv, EdgesTyped
<1>2. NodeList(built, <<>>)
  BY TypedAppend
<1>3. dependencies' = [dependencies EXCEPT ![n] = <<>>] /\ DOMAIN dependents' = Nodes(net)
  BY DEF Disconnect
<1>4. ASSUME NEW m \in Nodes(net)
      PROVE  NodeList(built, dependents'[m])
  <2>1. dependents'[m] = Without(dependents[m], n) \/ dependents'[m] = dependents[m]
    BY DEF Disconnect
  <2>2. NodeList(built, Without(dependents[m], n))
    BY <1>1, WithoutList DEF NodeList
  <2> QED BY <1>1, <2>1, <2>2
<1> QED BY <1>1, <1>2, <1>3, <1>4 DEF EdgesTyped

-----------------------------------------------------------------------------
(* Every step of update_node leaves what is made right.                    *)
LEMMA UpdateTyped ==
  ASSUME StackInv, CleanInv, TypeInv,
         \/ VisitDependency \/ RunUpdate \/ BeginSwitch \/ EndSwitch \/ VisitDependent \/ EndUpdate
  PROVE  TypeInv'
<1>0. stack # <<>> /\ Top.op = "update"
  BY DEF VisitDependency, RunUpdate, BeginSwitch, EndSwitch, VisitDependent, EndUpdate, TopIs
<1>1. UNCHANGED <<net, built, open, sends, settled, preEot>>
  BY DEF VisitDependency, RunUpdate, BeginSwitch, EndSwitch, VisitDependent, EndUpdate, program,
         queues, outcome
<1>2. /\ settled' \in 0 .. built /\ FirstList(net, built, preEot')
      /\ EdgesTyped(net, built, dependencies, dependents, inner)
      /\ visited \in [Nodes(net) -> BOOLEAN] /\ StateTypes(net, changed, firing, next)
      /\ QueuesTyped(net, built, changedNodes, prePost, post)
  BY <1>1 DEF TypeInv
<1>3. /\ {"op", "pc", "list", "node", "reads"} \subseteq DOMAIN Top
      /\ Top.node \in 1 .. built /\ NodeList(built, Top.list)
      /\ \A f : FrameTyped(net, built, f) =>
           AllTyped(net, built, SetTop(f)) /\ SetTop(f) \in Seq(Frames(SetTop(f)))
  BY <1>0, TypedTop DEF FrameTyped
<1>4. built \in Nat /\ 1 .. built \subseteq Nodes(net)
  BY TypedNet
<1>5. ASSUME NEW STATE n, n \in 1 .. built, NEW f, FrameTyped(net, built, f), Visit(n, SetTop(f)),
             UNCHANGED <<edges, changed, firing, next, changedNodes, post>>
      PROVE  TypeInv'
  <2>1. /\ AllTyped(net, built, stack') /\ visited' \in [Nodes(net) -> BOOLEAN]
        /\ ResetList(net, built, prePost')
    BY <1>3, <1>5, VisitTyped
  <2>2. EdgesTyped(net, built, dependencies', dependents', inner')
    BY <1>2, <1>5 DEF edges
  <2>3. StateTypes(net, changed', firing', next')
    BY <1>2, <1>5
  <2>4. QueuesTyped(net, built, changedNodes', prePost', post')
    BY <1>2, <1>5, <2>1 DEF QueuesTyped
  <2> QED BY <1>1, <1>2, <2>1, <2>2, <2>3, <2>4, TypedStep
<1>6. ASSUME Top.list # <<>>
      PROVE  Head(Top.list) \in 1 .. built /\ FrameTyped(net, built, [Top EXCEPT !.list = Tail(@)])
  <2> DEFINE f == [Top EXCEPT !.list = Tail(Top.list)]
  <2>1. NodeList(built, Tail(Top.list)) /\ Head(Top.list) \in 1 .. built
    BY <1>3, <1>6, TypedTail
  <2>2. /\ f.op = "update" /\ f.list = Tail(Top.list) /\ DOMAIN f = DOMAIN Top
        /\ f.node = Top.node
    BY <1>0, <1>3, FrameChanged
  <2> HIDE DEF f
  <2>3. FrameTyped(net, built, f)
    BY <1>3, <2>1, <2>2 DEF FrameTyped
  <2> QED BY <2>1, <2>3 DEF f
<1>7. ASSUME NEW n, n \in 1 .. built, NEW pc, NEW reads, NEW l, NodeList(built, l)
      PROVE  FrameTyped(net, built, Update(pc, n, reads, l))
  BY <1>7 DEF FrameTyped, Update
<1>8. CASE VisitDependency
  <2>1. /\ Visit(Head(Top.list), SetTop([Top EXCEPT !.list = Tail(@)])) /\ Top.list # <<>>
        /\ UNCHANGED <<edges, changed, firing, next, changedNodes, post>>
    BY <1>8 DEF VisitDependency, cells
  <2> QED BY <1>5, <1>6, <2>1
<1>9. CASE VisitDependent
  <2>1. /\ Visit(Head(Top.list), SetTop([Top EXCEPT !.list = Tail(@)])) /\ Top.list # <<>>
        /\ UNCHANGED <<edges, changed, firing, next, changedNodes, post>>
    BY <1>9 DEF VisitDependent, cells
  <2> QED BY <1>5, <1>6, <2>1
<1>10. CASE RunUpdate
  <2> DEFINE n == Top.node
             l == IF changed'[n] THEN dependents[n] ELSE <<>>
  <2>1. /\ stack' = SetTop(Update("dependents", n, Top.reads, l))
        /\ UNCHANGED edges /\ visited' = visited
        /\ RunClosure(n) \/ RunNothing
    BY <1>10 DEF RunUpdate
  <2>2. NodeList(built, l)
    BY <1>2, <1>3, <1>4, TypedAppend DEF EdgesTyped
  <2> HIDE DEF l
  <2>3. AllTyped(net, built, stack')
    BY <1>3, <1>7, <2>1, <2>2
  <2>4. /\ StateTypes(net, changed', firing', next')
        /\ QueuesTyped(net, built, changedNodes', prePost', post')
    <3>1. CASE RunClosure(n)
      BY <1>3, <3>1, ClosureTyped
    <3>2. CASE RunNothing
      BY <1>2, <3>2 DEF RunNothing
    <3> QED BY <2>1, <3>1, <3>2
  <2>5. EdgesTyped(net, built, dependencies', dependents', inner')
    BY <1>2, <2>1 DEF edges
  <2>6. visited' \in [Nodes(net) -> BOOLEAN]
    BY <1>2, <2>1
  <2> QED BY <1>1, <1>2, <2>3, <2>4, <2>5, <2>6, TypedStep
<1>11. CASE BeginSwitch
  <2> DEFINE f == [Top EXCEPT !.pc = "switching"]
             m == net.to[Top.node]
             s == Followed(net, m, firing[net.in[Top.node][1]])
  <2>1. /\ Visit(s, SetTop(f)) /\ net.kind[Top.node] = "outerC"
        /\ UNCHANGED <<edges, changed, firing, next, changedNodes, post>>
    BY <1>11 DEF BeginSwitch, Switches, cells
  <2>2. m = Top.node + 1 /\ m \in 1 .. built /\ net.kind[m] = "switchC"
    BY <1>3, <2>1, TypedNet, PartnerMade
  <2>3. m \in Nodes(net) /\ m - 1 <= built
    BY <1>4, <2>2
  <2> HIDE DEF m
  <2>4. s \in 1 .. built
    BY <2>2, <2>3, TypedNet, FollowedMade
  <2>5. f.op = "update" /\ f.list = Top.list /\ DOMAIN f = DOMAIN Top /\ f.node = Top.node
    BY <1>0, <1>3, FrameChanged
  <2> HIDE DEF f, s
  <2>6. FrameTyped(net, built, f)
    BY <1>3, <2>5 DEF FrameTyped
  <2> QED BY <1>5, <2>1, <2>4, <2>6
<1>12. CASE EndSwitch
  <2> DEFINE o == Top.node
             n == net.to[o]
             a == firing[net.in[o][1]]
             s == Followed(net, n, a)
             k == [op |-> "clear", node |-> n]
             f == Update("dependents", o, Top.reads, dependents[o])
  <2>1. /\ DOMAIN firing' = DOMAIN firing
        /\ changed' = [changed EXCEPT ![o] = TRUE, ![n] = TRUE]
        /\ prePost' = prePost \/ prePost' = Append(prePost, k)
        /\ stack' = SetTop(f) /\ Rewire(n, s)
        /\ UNCHANGED <<visited, next, changedNodes, post>>
    BY <1>12 DEF EndSwitch, cells
  <2>2. net.kind[o] = "outerC"
    <3>1. FrameClean(net, Top)
      BY <1>0, CleanTop DEF CleanInv
    <3> QED BY <1>0, <1>12, <3>1 DEF FrameClean, EndSwitch, TopIs
  <2>3. n = o + 1 /\ n \in 1 .. built /\ net.kind[n] = "switchC"
    BY <1>3, <2>2, TypedNet, PartnerMade
  <2>4. n \in Nodes(net) /\ n - 1 <= built
    BY <1>3, <1>4, <2>3
  <2>5. ResetStep(net, built, k)
    BY DEF ResetStep
  <2>6. NodeList(built, dependents[o])
    BY <1>2, <1>3, <1>4 DEF EdgesTyped
  <2>7. FrameTyped(net, built, f)
    BY <1>3, <1>7, <2>6
  <2> HIDE DEF n, a, k, f
  <2>8. s \in 1 .. built
    BY <2>3, <2>4, TypedNet, FollowedMade
  <2> HIDE DEF s
  <2>9. EdgesTyped(net, built, dependencies', dependents', inner')
    BY <2>1, <2>3, <2>8, RewireTyped
  <2>10. StateTypes(net, changed', firing', next')
    BY <1>2, <2>1 DEF StateTypes
  <2>11. ResetList(net, built, prePost')
    BY <1>2, <2>1, <2>5, TypedAppend DEF QueuesTyped
  <2>12. QueuesTyped(net, built, changedNodes', prePost', post')
    BY <1>2, <2>1, <2>11 DEF QueuesTyped
  <2>13. AllTyped(net, built, stack') /\ visited' \in [Nodes(net) -> BOOLEAN]
    BY <1>2, <1>3, <2>1, <2>7
  <2> QED BY <1>1, <1>2, <2>9, <2>10, <2>12, <2>13, TypedStep
<1>13. CASE EndUpdate
  <2>1. /\ stack' = Below
        /\ UNCHANGED <<dependencies, dependents, inner, visited, changed, firing, next,
                       changedNodes, prePost, post>>
    BY <1>13 DEF EndUpdate, edges, flags, cells, queues
  <2>2. AllTyped(net, built, stack')
    BY <1>0, <2>1, TypedTop
  <2>3. EdgesTyped(net, built, dependencies', dependents', inner')
    BY <1>2, <2>1
  <2>4. QueuesTyped(net, built, changedNodes', prePost', post')
    BY <1>2, <2>1
  <2>5. StateTypes(net, changed', firing', next') /\ visited' \in [Nodes(net) -> BOOLEAN]
    BY <1>2, <2>1
  <2> QED BY <1>1, <1>2, <2>2, <2>3, <2>4, <2>5, TypedStep
<1> QED BY <1>8, <1>9, <1>10, <1>11, <1>12, <1>13

-----------------------------------------------------------------------------
(* Every step of end_of_transaction leaves what is made right.             *)
LEMMA EotTyped ==
  ASSUME StackInv, CleanInv, TypeInv,
         \/ RunPreEot \/ TakeChanged \/ UpdateChanged \/ RunPrePost \/ RunPost \/ EndEot
  PROVE  TypeInv'
<1>0. stack # <<>> /\ Top.op = "eot" /\ TopIs("eot", Top.pc)
  BY DEF RunPreEot, TakeChanged, UpdateChanged, RunPrePost, RunPost, EndEot, TopIs
<1>1. UNCHANGED <<net, built, open, sends>>
  BY DEF RunPreEot, TakeChanged, UpdateChanged, RunPrePost, RunPost, EndEot, program
<1>2. /\ settled \in 0 .. built /\ FirstList(net, built, preEot)
      /\ EdgesTyped(net, built, dependencies, dependents, inner)
      /\ visited \in [Nodes(net) -> BOOLEAN] /\ StateTypes(net, changed, firing, next)
      /\ QueuesTyped(net, built, changedNodes, prePost, post)
  BY DEF TypeInv
<1>3. /\ {"op", "pc", "list"} \subseteq DOMAIN Top /\ FrameTyped(net, built, Top)
      /\ \A f : FrameTyped(net, built, f) =>
           AllTyped(net, built, SetTop(f)) /\ SetTop(f) \in Seq(Frames(SetTop(f)))
  BY <1>0, TypedTop DEF FrameTyped
<1>4. built \in Nat /\ 1 .. built \subseteq Nodes(net) /\ built \in 0 .. built
  BY TypedNet
<1>5. /\ NodeList(built, <<>>) /\ FirstList(net, built, <<>>)
      /\ ResetList(net, built, <<>>) /\ PostList(net, built, <<>>)
  BY TypedAppend
<1>6. ASSUME Top.list # <<>>, Top.pc \in {"pre_eot", "batch", "pre_post", "post"}
      PROVE  /\ FrameTyped(net, built, [Top EXCEPT !.list = Tail(@)])
             /\ Top.pc = "pre_eot" => FirstStep(net, built, Head(Top.list))
             /\ Top.pc = "batch" => Head(Top.list) \in 1 .. built
             /\ Top.pc = "pre_post" => ResetStep(net, built, Head(Top.list))
             /\ Top.pc = "post" => PostStep(net, built, Head(Top.list))
  <2> DEFINE f == [Top EXCEPT !.list = Tail(Top.list)]
             l == Top.list
  <2>1. /\ Top.pc = "pre_eot" => FirstList(net, built, l)
        /\ Top.pc = "batch" => NodeList(built, l)
        /\ Top.pc = "pre_post" => ResetList(net, built, l)
        /\ Top.pc = "post" => PostList(net, built, l)
    BY <1>0, <1>3 DEF FrameTyped
  <2>2. f.op = "eot" /\ f.pc = Top.pc /\ f.list = Tail(l) /\ DOMAIN f = DOMAIN Top
    BY <1>0, <1>3, FrameChanged
  <2>3. l # <<>>
    BY <1>6
  <2> HIDE DEF f, l
  <2>4. /\ Top.pc = "pre_eot" => FirstList(net, built, Tail(l)) /\ FirstStep(net, built, Head(l))
        /\ Top.pc = "batch" => NodeList(built, Tail(l)) /\ Head(l) \in 1 .. built
        /\ Top.pc = "pre_post" => ResetList(net, built, Tail(l)) /\ ResetStep(net, built, Head(l))
        /\ Top.pc = "post" => PostList(net, built, Tail(l)) /\ PostStep(net, built, Head(l))
    BY <2>1, <2>3, TypedTail
  <2>5. FrameTyped(net, built, f)
    BY <1>3, <2>2, <2>4 DEF FrameTyped
  <2> QED BY <2>4, <2>5 DEF f, l
<1>7. ASSUME NEW pc, NEW v,
             /\ pc = "pre_eot" => FirstList(net, built, v)
             /\ pc = "batch" => NodeList(built, v)
             /\ pc = "pre_post" => ResetList(net, built, v)
             /\ pc = "post" => PostList(net, built, v)
      PROVE  FrameTyped(net, built, [Top EXCEPT !.pc = pc, !.list = v])
  <2> DEFINE f == [Top EXCEPT !.pc = pc, !.list = v]
  <2>1. f.op = "eot" /\ f.pc = pc /\ f.list = v /\ DOMAIN f = DOMAIN Top
    BY <1>0, <1>3, FrameChanged
  <2> HIDE DEF f
  <2>2. FrameTyped(net, built, f)
    BY <1>3, <1>7, <2>1 DEF FrameTyped
  <2> QED BY <2>2 DEF f
<1>8. FrameTyped(net, built, [Top EXCEPT !.pc = "loop"])
  <2> DEFINE f == [Top EXCEPT !.pc = "loop"]
  <2>1. f.op = "eot" /\ f.pc = "loop" /\ DOMAIN f = DOMAIN Top
    BY <1>0, <1>3, FrameChanged
  <2> HIDE DEF f
  <2>2. FrameTyped(net, built, f)
    BY <1>3, <2>1 DEF FrameTyped
  <2> QED BY <2>2 DEF f
<1>9. CASE RunPreEot
  <2>1. Top.pc = "pre_eot" /\ UNCHANGED <<visited, preEot, settled>>
    BY <1>9 DEF RunPreEot, TopIs
  <2>2. CASE Top.list = <<>>
    <3>1. stack' = SetTop([Top EXCEPT !.pc = "loop"]) /\ RunNothing /\ UNCHANGED edges
      BY <1>9, <2>2 DEF RunPreEot
    <3>2. AllTyped(net, built, stack')
      BY <1>3, <1>8, <3>1
    <3> QED BY <1>1, <1>2, <2>1, <3>1, <3>2, TypedStep DEF RunNothing, edges
  <2>3. CASE Top.list # <<>>
    <3> DEFINE k == Head(Top.list)
    <3>1. /\ stack' = SetTop([Top EXCEPT !.list = Tail(@)])
          /\ \/ k.op = "connect" /\ Connect(k.node) /\ RunNothing
             \/ RunClosure(k.node) /\ UNCHANGED edges
             \/ /\ Mark(k.node)
                /\ UNCHANGED <<edges, firing, changedNodes, next, post>>
      BY <1>9, <2>3 DEF RunPreEot
    <3>2. FirstStep(net, built, k) /\ FrameTyped(net, built, [Top EXCEPT !.list = Tail(@)])
      BY <1>6, <2>1, <2>3
    <3>3. AllTyped(net, built, stack')
      BY <1>3, <3>1, <3>2
    <3> HIDE DEF k
    <3>4. CASE k.op = "connect" /\ Connect(k.node) /\ RunNothing
      <4>1. EdgesTyped(net, built, dependencies', dependents', inner')
        BY <3>2, <3>4, ConnectTyped DEF FirstStep
      <4> QED BY <1>1, <1>2, <2>1, <3>3, <3>4, <4>1, TypedStep DEF RunNothing
    <3>5. CASE RunClosure(k.node) /\ UNCHANGED edges
      <4>1. k.node \in 1 .. built
        BY <3>2 DEF FirstStep
      <4>2. /\ StateTypes(net, changed', firing', next')
            /\ QueuesTyped(net, built, changedNodes', prePost', post')
        BY <3>5, <4>1, ClosureTyped
      <4> QED BY <1>1, <1>2, <2>1, <3>3, <3>5, <4>2, TypedStep DEF edges
    <3>6. CASE /\ Mark(k.node)
               /\ UNCHANGED <<edges, firing, changedNodes, next, post>>
      <4> DEFINE g == [op |-> "forget", node |-> k.node]
      <4>1. ResetStep(net, built, g)
        BY DEF ResetStep
      <4>2. /\ prePost' = prePost \/ prePost' = Append(prePost, g)
            /\ changed' = changed \/ changed' = [changed EXCEPT ![k.node] = TRUE]
        BY <3>6 DEF Mark
      <4> HIDE DEF g
      <4>3. ResetList(net, built, prePost')
        <5>1. ResetList(net, built, prePost)
          BY <1>2 DEF QueuesTyped
        <5>2. prePost' = prePost \/ prePost' = Append(prePost, g)
          BY <4>2
        <5> QED BY <4>1, <5>1, <5>2, TypedAppend
      <4>4. QueuesTyped(net, built, changedNodes', prePost', post')
        BY <1>2, <3>6, <4>3 DEF QueuesTyped
      <4>5. StateTypes(net, changed', firing', next')
        BY <1>2, <3>6, <4>2 DEF StateTypes
      <4> QED BY <1>1, <1>2, <2>1, <3>3, <3>6, <4>4, <4>5, TypedStep DEF edges
    <3> QED BY <3>1, <3>4, <3>5, <3>6
  <2> QED BY <2>2, <2>3
<1>10. CASE TakeChanged
  <2>1. UNCHANGED <<edges, flags, next, preEot, post>>
    BY <1>10 DEF TakeChanged, cells
  <2>2. CASE changedNodes # <<>>
    <3>1. /\ stack' = SetTop([Top EXCEPT !.pc = "batch", !.list = changedNodes])
          /\ changedNodes' = <<>> /\ UNCHANGED <<prePost, settled>>
      BY <1>10, <2>2 DEF TakeChanged, TakeBatch, outcome
    <3>2. NodeList(built, changedNodes)
      BY <1>2 DEF QueuesTyped
    <3>3. AllTyped(net, built, stack')
      BY <1>3, <1>7, <3>1, <3>2
    <3>4. QueuesTyped(net, built, changedNodes', prePost', post')
      BY <1>2, <1>5, <2>1, <3>1 DEF QueuesTyped
    <3> QED BY <1>1, <1>2, <2>1, <3>1, <3>3, <3>4, TypedStep DEF edges, flags
  <2>3. CASE changedNodes = <<>>
    <3>1. /\ stack' = SetTop([Top EXCEPT !.pc = "pre_post", !.list = prePost])
          /\ prePost' = <<>> /\ changedNodes' = changedNodes /\ settled' = built
      BY <1>10, <2>3 DEF TakeChanged, Close
    <3>2. ResetList(net, built, prePost)
      BY <1>2 DEF QueuesTyped
    <3>3. AllTyped(net, built, stack')
      BY <1>3, <1>7, <3>1, <3>2
    <3>4. QueuesTyped(net, built, changedNodes', prePost', post')
      BY <1>2, <1>5, <2>1, <3>1 DEF QueuesTyped
    <3> QED BY <1>1, <1>2, <1>4, <2>1, <3>1, <3>3, <3>4, TypedStep DEF edges, flags
  <2> QED BY <2>2, <2>3
<1>11. CASE UpdateChanged
  <2>1. /\ UNCHANGED <<edges, changed, firing, next, changedNodes, preEot, post, settled>>
        /\ Top.pc = "batch"
    BY <1>11 DEF UpdateChanged, TopIs, cells, outcome
  <2>2. /\ AllTyped(net, built, stack') /\ visited' \in [Nodes(net) -> BOOLEAN]
        /\ ResetList(net, built, prePost')
    <3>1. CASE Top.list = <<>>
      <4>1. stack' = SetTop([Top EXCEPT !.pc = "loop"]) /\ UNCHANGED <<visited, prePost>>
        BY <1>11, <3>1 DEF UpdateChanged
      <4> QED BY <1>2, <1>3, <1>8, <4>1 DEF QueuesTyped
    <3>2. CASE Top.list # <<>>
      <4> DEFINE f == [Top EXCEPT !.list = Tail(@)]
                 n == Head(Top.list)
      <4>1. Visit(n, SetTop(f))
        BY <1>11, <3>2 DEF UpdateChanged
      <4>2. n \in 1 .. built /\ FrameTyped(net, built, f)
        BY <1>6, <2>1, <3>2
      <4> HIDE DEF f, n
      <4> QED BY <1>3, <4>1, <4>2, VisitTyped
    <3> QED BY <3>1, <3>2
  <2>3. QueuesTyped(net, built, changedNodes', prePost', post')
    BY <1>2, <2>1, <2>2 DEF QueuesTyped
  <2> QED BY <1>1, <1>2, <2>1, <2>2, <2>3, TypedStep DEF edges
<1>12. CASE RunPrePost
  <2>1. UNCHANGED <<next, changedNodes, preEot, prePost, settled>> /\ Top.pc = "pre_post"
    BY <1>12 DEF RunPrePost, TopIs, cells, outcome
  <2>2. CASE Top.list = <<>>
    <3>1. /\ stack' = SetTop([Top EXCEPT !.pc = "post", !.list = post])
          /\ post' = <<>> /\ UNCHANGED <<edges, flags>>
      BY <1>12, <2>2 DEF RunPrePost
    <3>2. PostList(net, built, post)
      BY <1>2 DEF QueuesTyped
    <3>3. AllTyped(net, built, stack')
      BY <1>3, <1>7, <3>1, <3>2
    <3>4. QueuesTyped(net, built, changedNodes', prePost', post')
      BY <1>2, <1>5, <2>1, <3>1 DEF QueuesTyped
    <3> QED BY <1>1, <1>2, <2>1, <3>1, <3>3, <3>4, TypedStep DEF edges, flags
  <2>3. CASE Top.list # <<>>
    <3> DEFINE k == Head(Top.list)
    <3>1. /\ stack' = SetTop([Top EXCEPT !.list = Tail(@)]) /\ post' = post
          /\ \/ Clear(k.node) /\ UNCHANGED <<edges, visited>>
             \/ Forget(k.node) /\ UNCHANGED <<edges, visited>>
             \/ k.op = "rewire" /\ Rewire(k.node, k.stream) /\ UNCHANGED flags
             \/ /\ visited' = [visited EXCEPT ![k.node] = FALSE]
                /\ UNCHANGED <<edges, firing, changed>>
      BY <1>12, <2>3 DEF RunPrePost
    <3>2. ResetStep(net, built, k) /\ FrameTyped(net, built, [Top EXCEPT !.list = Tail(@)])
      BY <1>6, <2>1, <2>3
    <3>3. AllTyped(net, built, stack')
      BY <1>3, <3>1, <3>2
    <3> HIDE DEF k
    <3>4. EdgesTyped(net, built, dependencies', dependents', inner')
      <4>1. CASE UNCHANGED edges
        BY <1>2, <4>1 DEF edges
      <4>2. CASE k.op = "rewire" /\ Rewire(k.node, k.stream)
        BY <3>2, <4>2, RewireTyped DEF ResetStep
      <4> QED BY <3>1, <4>1, <4>2
    <3>5. StateTypes(net, changed', firing', next') /\ visited' \in [Nodes(net) -> BOOLEAN]
      <4>1. \/ UNCHANGED <<visited, changed, firing>>
            \/ /\ visited' = [visited EXCEPT ![k.node] = FALSE] /\ UNCHANGED <<firing, changed>>
            \/ /\ UNCHANGED visited /\ firing' = [firing EXCEPT ![k.node] = NoEvent]
               /\ \/ changed' = [changed EXCEPT ![k.node] = FALSE]
                  \/ changed' = [changed EXCEPT ![k.node] = TRUE]
        BY <3>1 DEF Clear, Forget, flags
      <4> QED BY <1>2, <2>1, <4>1 DEF StateTypes
    <3>6. QueuesTyped(net, built, changedNodes', prePost', post')
      BY <1>2, <2>1, <3>1
    <3> QED BY <1>1, <1>2, <2>1, <3>3, <3>4, <3>5, <3>6, TypedStep
  <2> QED BY <2>2, <2>3
<1>13. CASE EndEot
  <2>1. stack' = Below /\ UNCHANGED <<edges, flags, next, queues, settled>>
    BY <1>13 DEF EndEot, cells, outcome
  <2>2. AllTyped(net, built, stack')
    BY <1>0, <2>1, TypedTop
  <2> QED BY <1>1, <1>2, <2>1, <2>2, TypedStep DEF edges, flags, queues
<1>14. CASE RunPost
  <2> DEFINE k == Head(Top.list)
             f == [Top EXCEPT !.list = Tail(@)]
  <2>1. Top.pc = "post" /\ Top.list # <<>> /\ UNCHANGED <<post, settled>>
    BY <1>14 DEF RunPost, TopIs, outcome
  <2>2. PostStep(net, built, k) /\ FrameTyped(net, built, f)
    BY <1>6, <2>1
  <2>3. \/ /\ stack' = SetTop(f) /\ DOMAIN next' = DOMAIN next
           /\ UNCHANGED <<edges, flags, changedNodes, preEot, prePost>>
        \/ /\ Disconnect(k.node) /\ stack' = SetTop(f)
           /\ UNCHANGED <<inner, flags, next, changedNodes, preEot, prePost>>
        \/ /\ k.op = "send" /\ SinkSend(k.node, k.event) /\ BeginEot(SetTop(f), k)
           /\ UNCHANGED <<edges, visited, next>>
    BY <1>14 DEF RunPost, Commit, cells
  <2> HIDE DEF k, f
  <2>4. AllTyped(net, built, SetTop(f)) /\ SetTop(f) \in Seq(Frames(SetTop(f)))
    BY <1>3, <2>2
  <2>5. CASE /\ stack' = SetTop(f) /\ DOMAIN next' = DOMAIN next
             /\ UNCHANGED <<edges, flags, changedNodes, preEot, prePost>>
    <3>1. StateTypes(net, changed', firing', next') /\ visited' \in [Nodes(net) -> BOOLEAN]
      BY <1>2, <2>5 DEF StateTypes, flags
    <3> QED BY <1>1, <1>2, <2>1, <2>4, <2>5, <3>1, TypedStep DEF edges
  <2>6. CASE /\ Disconnect(k.node) /\ stack' = SetTop(f)
             /\ UNCHANGED <<inner, flags, next, changedNodes, preEot, prePost>>
    <3>1. EdgesTyped(net, built, dependencies', dependents', inner')
      BY <2>6, DisconnectTyped
    <3> QED BY <1>1, <1>2, <2>1, <2>4, <2>6, <3>1, TypedStep DEF flags
  <2>7. CASE /\ k.op = "send" /\ SinkSend(k.node, k.event) /\ BeginEot(SetTop(f), k)
             /\ UNCHANGED <<edges, visited, next>>
    <3> DEFINE g == Eot("pre_eot", preEot, k)
    <3>1. /\ stack' = Append(SetTop(f), g) /\ preEot' = <<>> /\ Fire(k.node, k.event)
          /\ changedNodes' = Append(changedNodes, k.node)
      BY <2>7 DEF BeginEot, SinkSend
    <3>2. FrameTyped(net, built, g)
      BY <1>2 DEF Eot, FrameTyped
    <3> HIDE DEF g
    <3>3. AllTyped(net, built, stack')
      BY <2>4, <3>1, <3>2, TypedPush
    <3>4. /\ changed' \in [Nodes(net) -> BOOLEAN] /\ DOMAIN firing' = Nodes(net)
          /\ ResetList(net, built, prePost')
      BY <3>1, FireTyped
    <3>5. NodeList(built, changedNodes')
      <4>1. k.node \in 1 .. built /\ NodeList(built, changedNodes)
        BY <1>2, <2>2, <2>7 DEF PostStep, QueuesTyped
      <4> QED BY <3>1, <4>1, TypedAppend
    <3>6. QueuesTyped(net, built, changedNodes', prePost', post')
      BY <1>2, <2>1, <3>4, <3>5 DEF QueuesTyped
    <3>7. StateTypes(net, changed', firing', next') /\ visited' \in [Nodes(net) -> BOOLEAN]
      BY <1>2, <2>7, <3>4 DEF StateTypes
    <3> QED BY <1>1, <1>2, <1>5, <2>1, <2>7, <3>1, <3>3, <3>6, <3>7, TypedStep DEF edges
  <2> QED BY <2>3, <2>5, <2>6, <2>7
<1> QED BY <1>9, <1>10, <1>11, <1>12, <1>13, <1>14

-----------------------------------------------------------------------------
(* The program.  A combinator is made with everything it depends on.       *)
LEMMA BuildWhole ==
  ASSUME CleanInv, TypeInv, Build
  PROVE  Whole(net, LastOf(net, built + 1))
<1> DEFINE a == built + 1
           b == LastOf(net, a)
           l == Len(net.kind)
<1>1. /\ built \in Nat /\ a \in Nat /\ b \in Nat /\ a <= b /\ b \in net.start .. l
      /\ 1 .. built \subseteq Nodes(net)
  BY BuildGrows DEF CleanInv
<1>2. NetworkOK(net) /\ Whole(net, built) /\ Nodes(net) = 1 .. l /\ l \in Nat
      /\ net.start \in Nat /\ net.start <= l
  BY TypedNet, NetworkNodes
<1>3. /\ \A n \in 1 .. net.start : LastOf(net, n) \in 1 .. net.start
      /\ \A n \in net.start + 1 .. l : LastOf(net, n) \in n .. l
      /\ \A n \in Nodes(net) : \A m \in n .. LastOf(net, n) : LastOf(net, m) <= LastOf(net, n)
  BY <1>2 DEF NetworkOK
<1> HIDE DEF b, l
<1>4. a \in Nodes(net)
  BY <1>1, <1>2
<1>5. \A m \in a .. b : LastOf(net, m) <= b
  BY <1>3, <1>4 DEF b
<1>6. ASSUME NEW m \in 1 .. built
      PROVE  LastOf(net, m) <= b
  <2>1. LastOf(net, m) <= built
    BY <1>2 DEF Whole
  <2>2. m \in 1 .. net.start \/ m \in net.start + 1 .. l
    BY <1>1, <1>2
  <2>3. LastOf(net, m) \in Int
    BY <1>2, <1>3, <2>2
  <2> QED BY <1>1, <2>1, <2>3
<1>7. \A m \in 1 .. b : m \in a .. b \/ m \in 1 .. built
  BY <1>1
<1> QED BY <1>5, <1>6, <1>7 DEF Whole, b

(* The nodes that are made are right.                                      *)
LEMMA BuildTyped ==
  ASSUME CleanInv, TypeInv, Build
  PROVE  TypeInv'
<1> DEFINE a == built + 1
           b == LastOf(net, a)
           more == Lists!FlattenSeq([i \in DOMAIN Span(a, b) |-> FirstSteps(a + i - 1)])
<1>1. /\ built \in Nat /\ a \in Nat \ {0} /\ b \in Nat /\ a <= b /\ b \in net.start .. Len(net.kind)
      /\ 1 .. built \subseteq Nodes(net) /\ NetworkOK(net) /\ built <= b
  <2>1. /\ built \in Nat /\ b \in Nat /\ a <= b /\ b \in net.start .. Len(net.kind)
        /\ 1 .. built \subseteq Nodes(net) /\ NetworkOK(net)
    BY BuildGrows, TypedNet DEF CleanInv
  <2> HIDE DEF b
  <2> QED BY <2>1
<1>2. Whole(net, b)
  BY BuildWhole
<1>3. /\ stack = <<>> /\ net' = net /\ built' = b /\ preEot' = preEot \o more
      /\ dependencies' = [m \in Nodes(net) |-> IF m \in a .. b THEN net.in[m] ELSE dependencies[m]]
      /\ dependents' = [m \in Nodes(net) |-> dependents[m] \o Registered(m, a, b, dependencies')]
      /\ UNCHANGED <<inner, visited, next, post, stack, open, sends, settled>>
      /\ \/ SinkSend(a, value[net.to[a]])
         \/ UNCHANGED <<firing, changed, prePost, changedNodes>>
  BY DEF Build, program, outcome
<1>4. /\ settled \in 0 .. built /\ FirstList(net, built, preEot)
      /\ EdgesTyped(net, built, dependencies, dependents, inner)
      /\ visited \in [Nodes(net) -> BOOLEAN] /\ StateTypes(net, changed, firing, next)
      /\ NodeList(built, changedNodes) /\ ResetList(net, built, prePost) /\ PostList(net, built, post)
      /\ AllTyped(net, built, stack)
  BY DEF TypeInv, QueuesTyped
<1>5. FirstList(net, b, more)
  <2> HIDE DEF a, b
  <2> QED BY <1>1, FirstStepsMade
<1>6. \A m \in a .. b : NodeList(b, net.in[m])
  <2> TAKE m \in a .. b
  <2> HIDE DEF b
  <2>1. m \in 1 .. b
    BY <1>1
  <2> QED BY <1>1, <1>2, <2>1, InputsMade
<1>7. \A m \in Nodes(net) : NodeList(b, Registered(m, a, b, dependencies'))
  <2> TAKE m \in Nodes(net)
  <2> HIDE DEF a, b
  <2> QED BY <1>1, RegisteredMade
<1> HIDE DEF b, more
<1>8. /\ \A s : NodeList(built, s) => NodeList(b, s)
      /\ \A s : FirstList(net, built, s) => FirstList(net, b, s)
      /\ \A s : ResetList(net, built, s) => ResetList(net, b, s)
      /\ \A s : PostList(net, built, s) => PostList(net, b, s)
  BY <1>1, TypedMore
<1>9. EdgesTyped(net, b, dependencies', dependents', inner')
  <2>1. \A m \in Nodes(net) : NodeList(b, dependencies[m]) /\ NodeList(b, dependents[m])
    BY <1>4, <1>8 DEF EdgesTyped
  <2>2. \A m \in Nodes(net) : NodeList(b, dependencies'[m])
    BY <1>3, <1>6, <2>1
  <2>3. \A m \in Nodes(net) : NodeList(b, dependents'[m])
    <3> TAKE m \in Nodes(net)
    <3>1. dependents'[m] = dependents[m] \o Registered(m, a, b, dependencies')
      BY <1>3
    <3> QED BY <1>7, <2>1, <3>1, TypedConcat
  <2> QED BY <1>3, <1>4, <2>2, <2>3 DEF EdgesTyped
<1>10. FirstList(net, b, preEot')
  BY <1>3, <1>4, <1>5, <1>8, TypedConcat
<1>11. StateTypes(net, changed', firing', next') /\ QueuesTyped(net, b, changedNodes', prePost', post')
  <2>1. CASE SinkSend(a, value[net.to[a]])
    <3>1. Fire(a, value[net.to[a]]) /\ changedNodes' = Append(changedNodes, a)
      BY <2>1 DEF SinkSend
    <3>2. /\ changed' \in [Nodes(net) -> BOOLEAN] /\ DOMAIN firing' = Nodes(net)
          /\ ResetList(net, built, prePost')
      BY <3>1, FireTyped
    <3>3. a \in 1 .. b /\ NodeList(b, changedNodes)
      BY <1>1, <1>4, <1>8
    <3>4. NodeList(b, changedNodes')
      BY <3>1, <3>3, TypedAppend
    <3> QED BY <1>3, <1>4, <1>8, <3>2, <3>4 DEF StateTypes, QueuesTyped
  <2>2. CASE UNCHANGED <<firing, changed, prePost, changedNodes>>
    BY <1>3, <1>4, <1>8, <2>2 DEF StateTypes, QueuesTyped
  <2> QED BY <1>3, <2>1, <2>2
<1>12. AllTyped(net, b, stack')
  <2>1. Len(stack') = 0
    BY <1>3, EmptySeq
  <2> QED BY <2>1 DEF AllTyped
<1>13. settled' \in 0 .. b /\ visited' \in [Nodes(net) -> BOOLEAN]
  BY <1>1, <1>3, <1>4
<1>14. open' \in 0 .. MaxDepth /\ sends' \in 0 .. MaxSends
  BY <1>3 DEF TypeInv
<1>15. Nodes(net') = Nodes(net)
  BY <1>3
<1> QED BY <1>2, <1>3, <1>9, <1>10, <1>11, <1>12, <1>13, <1>14, <1>15 DEF TypeInv

(* ... and what else the program does keeps them right.                    *)
LEMMA ProgramTyped ==
  ASSUME CleanInv, TypeInv, Program
  PROVE  TypeInv'
<1>1. /\ Whole(net, built) /\ settled \in 0 .. built /\ FirstList(net, built, preEot)
      /\ EdgesTyped(net, built, dependencies, dependents, inner)
      /\ visited \in [Nodes(net) -> BOOLEAN] /\ StateTypes(net, changed, firing, next)
      /\ NodeList(built, changedNodes) /\ ResetList(net, built, prePost) /\ PostList(net, built, post)
      /\ AllTyped(net, built, stack) /\ open \in 0 .. MaxDepth /\ sends \in 0 .. MaxSends
  BY DEF TypeInv, QueuesTyped
<1>2. MaxDepth \in Nat /\ MaxSends \in Nat
  BY CtxAssumption
<1>3. stack = <<>> /\ stack \in Seq(Frames(stack))
  <2>1. Len(<<>>) = 0
    OBVIOUS
  <2>2. stack = <<>>
    BY DEF Program, Enter, Leave, Post, Build, Send
  <2> QED BY <2>1, <2>2, EmptySeq
<1>4. ASSUME UNCHANGED <<net, built, edges, visited, next, settled>>,
             StateTypes(net, changed', firing', next'),
             QueuesTyped(net, built, changedNodes', prePost', post'), FirstList(net, built, preEot'),
             AllTyped(net, built, stack'), open' \in 0 .. MaxDepth, sends' \in 0 .. MaxSends
      PROVE  TypeInv'
  <2>1. Nodes(net') = Nodes(net)
    BY <1>4
  <2> QED BY <1>1, <1>4, <2>1 DEF TypeInv, edges
<1>5. CASE Enter
  <2>1. UNCHANGED <<net, built, edges, flags, next, queues, stack, settled>>
    BY <1>5 DEF Enter, cells, outcome
  <2>2. open' \in 0 .. MaxDepth /\ sends' \in 0 .. MaxSends
    BY <1>1, <1>2, <1>5 DEF Enter
  <2> QED BY <1>1, <1>4, <2>1, <2>2 DEF flags, queues, QueuesTyped
<1>6. CASE Post
  <2> DEFINE k == [op |-> "user", node |-> 0]
  <2>1. /\ post' = Append(post, k)
        /\ UNCHANGED <<net, built, edges, flags, next, changedNodes, preEot, prePost, stack, settled,
                       open, sends>>
    BY <1>6 DEF Post, cells, outcome
  <2>2. PostStep(net, built, k)
    BY DEF PostStep
  <2> HIDE DEF k
  <2>3. PostList(net, built, post')
    BY <1>1, <2>1, <2>2, TypedAppend
  <2> QED BY <1>1, <1>4, <2>1, <2>3 DEF flags, QueuesTyped
<1>7. CASE \E n \in Nodes(net), p \in Payload : Send(n, p)
  <2>1. PICK n \in Nodes(net), p \in Payload : Send(n, p)
    BY <1>7
  <2>2. /\ Fire(n, Sent(n, p)) /\ changedNodes' = Append(changedNodes, n) /\ n <= built
        /\ UNCHANGED <<net, built, edges, visited, next, preEot, post, stack, open, settled>>
        /\ sends < MaxSends /\ sends' = sends + 1
    BY <2>1 DEF Send, SinkSend, cells, outcome
  <2>3. /\ changed' \in [Nodes(net) -> BOOLEAN] /\ DOMAIN firing' = Nodes(net)
        /\ ResetList(net, built, prePost')
    BY <2>2, FireTyped
  <2>4. n \in 1 .. built
    BY <2>2, TypedNet
  <2>5. NodeList(built, changedNodes')
    BY <1>1, <2>2, <2>4, TypedAppend
  <2>6. sends' \in 0 .. MaxSends
    BY <1>1, <1>2, <2>2
  <2> QED BY <1>1, <1>4, <2>2, <2>3, <2>5, <2>6 DEF StateTypes, QueuesTyped
<1>8. CASE Leave
  <2>1. /\ UNCHANGED <<net, built, edges, flags, next, changedNodes, prePost, post, sends, settled>>
        /\ open' = open - 1 /\ open > 0
    BY <1>8 DEF Leave, cells, outcome
  <2>2. open' \in 0 .. MaxDepth
    BY <1>1, <1>2, <2>1
  <2>3. FirstList(net, built, preEot') /\ AllTyped(net, built, stack')
    <3>1. CASE depth = 1
      <4> DEFINE f == Eot("pre_eot", preEot, NoCause)
      <4>1. stack' = Append(stack, f) /\ preEot' = <<>>
        BY <1>8, <3>1 DEF Leave, BeginEot
      <4>2. FrameTyped(net, built, f)
        BY <1>1 DEF FrameTyped, Eot
      <4> HIDE DEF f
      <4> QED BY <1>1, <1>3, <4>1, <4>2, TypedPush, TypedAppend
    <3>2. CASE depth # 1
      BY <1>1, <1>8, <3>2 DEF Leave
    <3> QED BY <3>1, <3>2
  <2> QED BY <1>1, <1>4, <2>1, <2>2, <2>3 DEF flags, QueuesTyped
<1> QED BY <1>5, <1>6, <1>7, <1>8, BuildTyped DEF Program

-----------------------------------------------------------------------------
(* The nodes that exist from the beginning are right.                      *)
LEMMA InitTyped ==
  ASSUME Init
  PROVE  TypeInv
<1> DEFINE b == net.start
<1>1. NetworkOK(net) /\ built = b /\ settled = b /\ open = 0 /\ sends = 0
      /\ stack = <<>> /\ preEot = <<>> /\ prePost = <<>> /\ post = <<>> /\ changedNodes = <<>>
  BY CtxAssumption DEF Init
<1>2. Len(net.kind) \in Nat /\ b \in 0 .. Len(net.kind) /\ Nodes(net) = 1 .. Len(net.kind)
  BY <1>1, NetworkNodes
<1>3. Whole(net, b)
  BY <1>1, <1>2 DEF NetworkOK, Whole
<1>4. \A m \in 1 .. b : NodeList(b, net.in[m])
  <2> TAKE m \in 1 .. b
  <2>1. b \in net.start .. Len(net.kind)
    BY <1>2
  <2> QED BY <1>1, <1>3, <2>1, InputsMade
<1>5. ASSUME NEW n \in Nodes(net)
      PROVE  /\ inner[n] \in 0 .. Len(net.kind)
             /\ inner[n] # 0 => inner[n] \in 1 .. b
  <2>1. inner[n] = IF net.kind[n] \in {"switch", "switchC"} /\ n <= net.start
                   THEN Followed(net, n, value[net.to[n]]) ELSE 0
    BY DEF Init
  <2>2. CASE net.kind[n] \in {"switch", "switchC"} /\ n <= net.start
    <3>1. b \in net.start .. Len(net.kind) /\ n - 1 <= b
      BY <1>2, <2>2
    <3>2. Followed(net, n, value[net.to[n]]) \in 1 .. b
      BY <1>1, <2>2, <3>1, FollowedMade
    <3> QED BY <1>2, <2>1, <2>2, <3>2
  <2>3. CASE ~(net.kind[n] \in {"switch", "switchC"} /\ n <= net.start)
    BY <1>2, <2>1, <2>3
  <2> QED BY <2>2, <2>3
<1>6. ASSUME NEW n \in Nodes(net)
      PROVE  NodeList(b, dependencies[n])
  <2>1. dependencies[n] = CASE n > net.start -> <<>>
                            [] n <= net.start /\ inner[n] = 0 -> net.in[n]
                            [] OTHER -> Append(net.in[n], inner[n])
    BY DEF Init
  <2>2. CASE n > net.start
    <3>1. ~(n <= net.start)
      BY <1>2, <2>2
    <3>2. dependencies[n] = <<>>
      BY <2>1, <2>2, <3>1
    <3> QED BY <3>2, TypedAppend
  <2>3. CASE ~(n > net.start)
    <3>1. n <= net.start /\ n \in 1 .. b
      BY <1>2, <2>3
    <3>2. NodeList(b, net.in[n])
      BY <1>4, <3>1
    <3>3. CASE inner[n] = 0
      BY <2>1, <2>3, <3>1, <3>2, <3>3
    <3>4. CASE inner[n] # 0
      <4>1. dependencies[n] = Append(net.in[n], inner[n])
        BY <2>1, <2>3, <3>1, <3>4
      <4> QED BY <1>5, <3>2, <3>4, <4>1, TypedAppend
    <3> QED BY <3>3, <3>4
  <2> QED BY <2>2, <2>3
<1>7. ASSUME NEW n \in Nodes(net)
      PROVE  NodeList(b, dependents[n])
  <2>1. dependents[n] = Registered(n, 1, b, dependencies)
    BY DEF Init
  <2> DEFINE o == 1
  <2>2. o \in Nat \ {0} /\ b \in Nat
    BY <1>2
  <2>3. o = 1
    OBVIOUS
  <2> HIDE DEF b, o
  <2>4. NodeList(b, Registered(n, o, b, dependencies))
    BY <2>2, RegisteredMade
  <2> QED BY <2>1, <2>3, <2>4
<1>8. /\ DOMAIN dependencies = Nodes(net) /\ DOMAIN dependents = Nodes(net)
      /\ DOMAIN inner = Nodes(net) /\ DOMAIN firing = Nodes(net) /\ DOMAIN next = Nodes(net)
      /\ visited \in [Nodes(net) -> BOOLEAN] /\ changed \in [Nodes(net) -> BOOLEAN]
  BY DEF Init
<1>9. EdgesTyped(net, b, dependencies, dependents, inner)
  BY <1>5, <1>6, <1>7, <1>8 DEF EdgesTyped
<1>10. AllTyped(net, b, stack)
  <2>1. Len(stack) = 0
    BY <1>1, EmptySeq
  <2> QED BY <2>1 DEF AllTyped
<1>11. QueuesTyped(net, b, changedNodes, prePost, post) /\ FirstList(net, b, preEot)
  BY <1>1, TypedAppend DEF QueuesTyped
<1>12. settled \in 0 .. built /\ open \in 0 .. MaxDepth /\ sends \in 0 .. MaxSends
  BY <1>1, <1>2, CtxAssumption
<1> QED BY <1>1, <1>3, <1>8, <1>9, <1>10, <1>11, <1>12 DEF TypeInv, StateTypes

(* Whatever the program builds and whatever it sends, the engine works on  *)
(* nodes that are made: the edges lead from one to another, and so do the  *)
(* closures that wait in the queues or on the lists of the calls in        *)
(* progress, those that will rewire a switch or send to a sink included.   *)
THEOREM NodesMade == Spec => []TypeInv
<1>1. Init => TypeInv
  BY InitTyped
<1>2. StackInv /\ CleanInv /\ TypeInv /\ [Next]_vars => TypeInv'
  <2> SUFFICES ASSUME StackInv, CleanInv, TypeInv, [Next]_vars PROVE TypeInv'
    OBVIOUS
  <2>1. CASE Program
    BY <2>1, ProgramTyped
  <2>2. CASE Engine
    BY <2>2, UpdateTyped, EotTyped DEF Engine
  <2>3. CASE UNCHANGED context
    <3>1. UNCHANGED <<net, built, edges, flags, next, queues, stack, open, sends, settled>>
      BY <2>3 DEF context, cells, program, outcome
    <3> QED BY <3>1 DEF TypeInv, edges, flags, queues, Nodes
  <2> QED BY <2>1, <2>2, <2>3, StepOf
<1> QED BY <1>1, <1>2, StackShape, FlagsOwed, PTL DEF Spec

(* Only an end of a transaction calls the collector, when it is the last   *)
(* one counted; no other step does, nor runs while the collector does.     *)
LEMMA GateKept ==
  ASSUME [Next]_vars
  PROVE  \/ collecting' = collecting /\ (collecting => UNCHANGED context)
         \/ collecting' = FALSE
         \/ EndEot /\ collecting' = (gcCounter' = 0)
<1>1. CASE CollectCycles
  BY <1>1 DEF CollectCycles
<1>2. CASE ~collecting /\ Engine
  <2>1. CASE EndEot
    BY <2>1 DEF EndEot
  <2>2. CASE ~EndEot
    BY <1>2, <2>2 DEF Engine, RunPreEot, TakeChanged, UpdateChanged, RunPrePost, RunPost, BeginEot,
                VisitDependency, RunUpdate, BeginSwitch, EndSwitch, VisitDependent, EndUpdate, gc
  <2> QED BY <2>1, <2>2
<1>3. CASE ~collecting /\ Program
  BY <1>3 DEF Program, Enter, Leave, Post, Build, Send, BeginEot, gc
<1>4. CASE UNCHANGED vars
  BY <1>4 DEF vars
<1> QED BY <1>1, <1>2, <1>3, <1>4 DEF Next, Library

GateInv == collecting \in BOOLEAN

LEMMA GateTyped == Spec => []GateInv
<1>1. Init => GateInv
  BY DEF Init, GateInv
<1>2. GateInv /\ [Next]_vars => GateInv'
  BY GateKept DEF GateInv
<1> QED BY <1>1, <1>2, PTL DEF Spec

(* The state of SodiumCtx is what its types say.                           *)
THEOREM TypesRight == Spec => []TypeOK
<1>1. StackInv /\ CleanInv /\ TypeInv /\ GateInv => TypeOK
  <2> SUFFICES ASSUME StackInv, CleanInv, TypeInv, GateInv PROVE TypeOK
    OBVIOUS
  <2>1. net \in Networks /\ DOMAIN value = Nodes(net) /\ built \in 0 .. Len(net.kind)
        /\ 1 .. built \subseteq Nodes(net)
    BY TypedNet DEF CleanInv, NetInv
  <2>2. /\ settled \in 0 .. built /\ FirstList(net, built, preEot)
        /\ EdgesTyped(net, built, dependencies, dependents, inner)
        /\ visited \in [Nodes(net) -> BOOLEAN] /\ StateTypes(net, changed, firing, next)
        /\ NodeList(built, changedNodes) /\ ResetList(net, built, prePost) /\ PostList(net, built, post)
        /\ open \in 0 .. MaxDepth /\ sends \in 0 .. MaxSends
    BY DEF TypeInv, QueuesTyped
  <2>3. \A s : NodeList(built, s) => s \in Seq(1 .. built) /\ s \in Seq(Nodes(net))
    BY <2>1, SeqMonotonic DEF NodeList, IsList
  <2>4. \A s : IsList(s) => \A i \in DOMAIN s : s[i] \in Entries(s)
    BY LenProperties DEF IsList, Entries
  <2>5. \A n \in Nodes(net) :
          /\ dependencies[n] \in Seq(1 .. built) /\ dependents[n] \in Seq(1 .. built)
          /\ inner[n] \in 0 .. Len(net.kind)
    BY <2>2, <2>3 DEF EdgesTyped
  <2>6. \A i \in DOMAIN preEot : preEot[i].op \in {"connect", "update", "mark"}
    BY <2>2, <2>4 DEF FirstList, FirstStep
  <2>7. \A i \in DOMAIN prePost : prePost[i].op \in {"clear", "forget", "rewire", "unvisit"}
    BY <2>2, <2>4 DEF ResetList, ResetStep
  <2>8. \A i \in DOMAIN post : post[i].op \in {"commit", "remove", "send", "user"}
    BY <2>2, <2>4 DEF PostList, PostStep
  <2>9. \A i \in DOMAIN stack : stack[i].op \in {"eot", "update"}
    BY LenProperties DEF StackInv, Shape, FrameOK
  <2>10. depth \in Nat /\ gcCounter \in Nat
    BY EotsFinite DEF StackInv
  <2> QED BY <2>1, <2>2, <2>3, <2>5, <2>6, <2>7, <2>8, <2>9, <2>10 DEF TypeOK, StateTypes, GateInv
<1> QED BY <1>1, StackShape, FlagsOwed, NodesMade, GateTyped, PTL
=============================================================================
