------------------------- MODULE SharedStateProofs -------------------------
(***************************************************************************)
(* For every number of threads, sinks and calls, what becomes of the state *)
(* behind the lock of a shared context:                                    *)
(*                                                                         *)
(*   StateTyped     the types;                                             *)
(*   PostsStay      a posted closure is in one place, wherever a closure   *)
(*                  panics;                                                *)
(*   FlagsAreReset  nothing fires and nothing is visited when all the      *)
(*                  threads are out of the library.                        *)
(*                                                                         *)
(* The last rests on FlagsInv: for each flag that is set, some call in     *)
(* progress, or pre_post, owes its reset (Owed), and pre_post itself is    *)
(* owed to whoever holds the depth, or is an end on its way to it.  It     *)
(* needs Accounts for the depth.                                           *)
(***************************************************************************)
EXTENDS SharedCtxProofs

(* The frames on stacks S, of all the threads.                             *)
Frames(S) == UNION {Elements(S[t]) : t \in Thread}

(* The closures that the i-th call of a stack took from the queue.         *)
Taken(f) == IF f.pc = "posted" THEN f.list ELSE <<>>
ListAt(s, i) == IF i \in 1 .. Len(s) THEN Taken(s[i]) ELSE <<>>

NoRepeat(list) == \A i, j \in DOMAIN list : list[i] = list[j] => i = j

-----------------------------------------------------------------------------
(* The invariants *)

(* What a call is in when it has called another one; and update_node is    *)
(* called by an end, in its loop.                                          *)
Inner(f) ==
  /\ f.op # "send"
  /\ f.op = "node" => f.pc = "any"
  /\ f.op = "end" => f.pc \in {"batch", "posted"}

Batch(f) == f.op = "end" /\ f.pc = "batch"

Order(s) ==
  /\ \A i \in 1 .. Len(s) - 1 : Inner(s[i])
  /\ \A i \in 1 .. Len(s) : s[i].op = "node" => \E j \in 1 .. i - 1 : Batch(s[j])

Placed == stack \in Stacks /\ \A t \in Thread : Order(stack[t])

(* SharedTypeOK but for what was posted, and the types of the queues.      *)
Data ==
  /\ depth \in Int /\ counter \in Int
  /\ changedNodes \in Seq(Sink) /\ prePost \in Seq(Item)
  /\ post \in Seq(Nat) /\ ran \in Seq(Nat) /\ heard \in Seq(Nat)
  /\ visited \in [Node -> BOOLEAN]
  /\ changed \in [Sink -> BOOLEAN]
  /\ firing \in [Sink -> 0 .. sends]
  /\ opens \in 0 .. MaxOpens /\ sends \in 0 .. MaxSends /\ posts \in 0 .. MaxPosts
  /\ inside \subseteq 1 .. posts
  /\ Elements(heard) \cup replaced \subseteq 1 .. sends
  /\ aborted \in BOOLEAN

TypeInv ==
  /\ Placed /\ Data
  /\ \A f \in Frames(stack) : f.op = "send" => f.list[2] \in 1 .. sends

(* What was posted is in the queue, in the list of an end, has run, or was *)
(* dropped: in one of these, and once.                                     *)
Place == Thread \X Nat
Held == [x \in Place |-> Elements(ListAt(stack[x[1]], x[2]))]

Parted(S, P, R, D, H) ==
  /\ P \cap (R \cup D) = {} /\ R \cap D = {}
  /\ \A x \in Place : H[x] \cap (P \cup R \cup D) = {}
  /\ \A x, y \in Place : x # y => H[x] \cap H[y] = {}
  /\ S = P \cup R \cup D \cup UNION {H[x] : x \in Place}

Single ==
  /\ NoRepeat(post) /\ NoRepeat(ran)
  /\ \A t \in Thread, i \in Nat : NoRepeat(ListAt(stack[t], i))

PostsInv == Single /\ Parted(1 .. posts, Elements(post), Elements(ran), dropped, Held)

(* The call f is going to do what item says, or to queue it.               *)
Owes(f, item) ==
  \/ f.op = "end" /\ f.pc = "clear" /\ item \in Elements(f.list)
  \/ f.op = "send" /\ f.pc \in {"flag", "queue"} /\ f.list[3] /\ item = <<"clear", f.list[1]>>
  \/ f.op = "node" /\ f.pc = "queue" /\ item = <<"unvisit", f.list>>

Owed(item) == item \in Elements(prePost) \/ \E f \in Frames(stack) : Owes(f, item)

(* An end that is going to take pre_post.                                  *)
Before(f) == f.op = "end" /\ f.pc \in {"count", "pre_post"}

QueueHeld == prePost # <<>> => depth > 0 \/ \E f \in Frames(stack) : Before(f)

FlagsOwed ==
  /\ \A s \in Sink : firing[s] # 0 => Owed(<<"clear", s>>)
  /\ \A n \in Node : visited[n] => Owed(<<"unvisit", n>>)

FlagsInv == QueueHeld /\ FlagsOwed

-----------------------------------------------------------------------------
(* Sequences of frames *)

LEMMA ElementsRange ==
  ASSUME NEW A, NEW s \in Seq(A)
  PROVE  /\ \A a : a \in Elements(s) <=> \E i \in 1 .. Len(s) : a = s[i]
         /\ Elements(s) \subseteq A
<1>1. DOMAIN s = 1 .. Len(s)
  BY LenProperties
<1>2. \A i \in 1 .. Len(s) : s[i] \in A
  BY ElementOfSeq
<1> QED
  BY <1>1, <1>2 DEF Elements

(* The elements of a stack without its top.                                *)
LEMMA ElementsLower ==
  ASSUME NEW A, NEW s \in Seq(A), s # <<>>
  PROVE  Elements(s) = Elements(Lower(s)) \cup {s[Len(s)]}
<1> DEFINE r == Lower(s)
           n == Len(s)
<1>1. /\ n \in Nat \ {0} /\ r \in Seq(A) /\ Len(r) = n - 1
      /\ \A i \in 1 .. n - 1 : r[i] = s[i]
  BY LowerSeq
<1> HIDE DEF r, n
<1>2. \A i \in 1 .. n : i = n \/ i \in 1 .. n - 1
  BY <1>1
<1>3. \A i \in 1 .. n - 1 : i \in 1 .. n
  BY <1>1
<1>4. n \in 1 .. n
  BY <1>1
<1>5. /\ \A a : a \in Elements(s) <=> \E i \in 1 .. n : a = s[i]
      /\ \A a : a \in Elements(r) <=> \E i \in 1 .. n - 1 : a = r[i]
  BY <1>1, ElementsRange DEF n
<1>6. Elements(s) = Elements(r) \cup {s[n]}
  BY <1>1, <1>2, <1>3, <1>4, <1>5
<1> QED
  BY <1>6 DEF r, n

LEMMA AppendLists ==
  ASSUME NEW s \in Seq(FrameSet), NEW f \in FrameSet
  PROVE  /\ \A i \in Nat : ListAt(Append(s, f), i) =
                             IF i = Len(s) + 1 THEN Taken(f) ELSE ListAt(s, i)
         /\ ListAt(s, Len(s) + 1) = <<>>
<1> DEFINE r == Append(s, f)
           n == Len(s)
<1>1. n \in Nat /\ Len(r) = n + 1 /\ r[n + 1] = f /\ \A i \in 1 .. n : r[i] = s[i]
  BY AppendProperties, LenProperties
<1> HIDE DEF r
<1>2. \A i \in Nat : /\ i \in 1 .. n + 1 <=> i = n + 1 \/ i \in 1 .. n
                     /\ ~(i = n + 1 /\ i \in 1 .. n)
  BY <1>1
<1>3. \A i \in Nat : ListAt(r, i) = IF i = n + 1 THEN Taken(f) ELSE ListAt(s, i)
  BY <1>1, <1>2 DEF ListAt
<1>4. ListAt(s, n + 1) = <<>>
  BY <1>1 DEF ListAt
<1> QED
  BY <1>3, <1>4 DEF r

LEMMA LowerLists ==
  ASSUME NEW s \in Seq(FrameSet), s # <<>>
  PROVE  /\ \A i \in Nat : ListAt(Lower(s), i) = IF i = Len(s) THEN <<>> ELSE ListAt(s, i)
         /\ ListAt(s, Len(s)) = Taken(s[Len(s)])
<1> DEFINE r == Lower(s)
           n == Len(s)
<1>1. n \in Nat \ {0} /\ Len(r) = n - 1 /\ \A i \in 1 .. n - 1 : r[i] = s[i]
  BY LowerSeq
<1> HIDE DEF r
<1>2. \A i \in Nat : i \in 1 .. n - 1 <=> i # n /\ i \in 1 .. n
  BY <1>1
<1>3. \A i \in Nat : ListAt(r, i) = IF i = n THEN <<>> ELSE ListAt(s, i)
  BY <1>1, <1>2 DEF ListAt
<1>4. ListAt(s, n) = Taken(s[n])
  BY <1>1 DEF ListAt
<1> QED
  BY <1>3, <1>4 DEF r

(* What becomes of a stack s: the frames of outs leave it, those of ins    *)
(* come, and what ends have taken does not change but with these.          *)
Reworked(s, q, outs, ins) ==
  /\ q \in Seq(FrameSet)
  /\ Elements(s) \subseteq Elements(q) \cup outs
  /\ Elements(q) \subseteq Elements(s) \cup ins
  /\ (\A f \in outs \cup ins : Taken(f) = <<>>) =>
       \A i \in Nat : ListAt(q, i) = ListAt(s, i)

LEMMA ReworkedAppend ==
  ASSUME NEW s \in Seq(FrameSet), NEW f \in FrameSet
  PROVE  Reworked(s, Append(s, f), {}, {f})
<1>1. Append(s, f) \in Seq(FrameSet)
  BY AppendProperties
<1>2. Elements(Append(s, f)) = Elements(s) \cup {f}
  BY ElementsOf
<1>3. Taken(f) = <<>> => \A i \in Nat : ListAt(Append(s, f), i) = ListAt(s, i)
  BY AppendLists
<1> QED
  BY <1>1, <1>2, <1>3 DEF Reworked

LEMMA ReworkedLower ==
  ASSUME NEW s \in Seq(FrameSet), s # <<>>
  PROVE  Reworked(s, Lower(s), {s[Len(s)]}, {})
<1>1. Lower(s) \in Seq(FrameSet)
  BY LowerSeq
<1>2. Elements(s) = Elements(Lower(s)) \cup {s[Len(s)]}
  BY ElementsLower
<1>3. Taken(s[Len(s)]) = <<>> => \A i \in Nat : ListAt(Lower(s), i) = ListAt(s, i)
  BY LowerLists
<1> QED
  BY <1>1, <1>2, <1>3 DEF Reworked

LEMMA ReworkedTwice ==
  ASSUME NEW s, NEW q, NEW r, NEW o1, NEW i1, NEW o2, NEW i2,
         Reworked(s, q, o1, i1), Reworked(q, r, o2, i2)
  PROVE  Reworked(s, r, o1 \cup o2, i1 \cup i2)
BY DEF Reworked

LEMMA OrderAppend ==
  ASSUME NEW s \in Seq(FrameSet), Order(s), NEW f \in FrameSet,
         s # <<>> => Inner(s[Len(s)]),
         f.op = "node" => \E j \in 1 .. Len(s) : Batch(s[j])
  PROVE  Order(Append(s, f))
<1> DEFINE r == Append(s, f)
           n == Len(s)
<1>1. n \in Nat /\ Len(r) = n + 1 /\ r[n + 1] = f /\ \A i \in 1 .. n : r[i] = s[i]
  BY AppendProperties, LenProperties
<1>2. n > 0 => s # <<>>
  BY EmptySeq
<1> HIDE DEF r
<1>3. ASSUME NEW i \in 1 .. n
      PROVE  Inner(r[i])
  <2>1. CASE i = n
    BY <1>1, <1>2, <2>1
  <2>2. CASE i # n
    <3>1. i \in 1 .. n - 1
      BY <1>1, <2>2
    <3> QED
      BY <1>1, <3>1 DEF Order
  <2> QED
    BY <2>1, <2>2
<1>4. ASSUME NEW i \in 1 .. n + 1, r[i].op = "node"
      PROVE  \E j \in 1 .. i - 1 : Batch(r[j])
  <2>1. CASE i = n + 1
    <3>1. PICK j \in 1 .. n : Batch(s[j])
      BY <1>1, <1>4, <2>1
    <3>2. j \in 1 .. i - 1 /\ r[j] = s[j]
      BY <1>1, <2>1
    <3> QED
      BY <3>1, <3>2
  <2>2. CASE i # n + 1
    <3>1. i \in 1 .. n /\ s[i].op = "node"
      BY <1>1, <1>4, <2>2
    <3>2. PICK j \in 1 .. i - 1 : Batch(s[j])
      BY <3>1 DEF Order
    <3>3. r[j] = s[j]
      BY <1>1, <3>1, <3>2
    <3> QED
      BY <3>2, <3>3
  <2> QED
    BY <2>1, <2>2
<1>5. Len(r) - 1 = n
  BY <1>1
<1>6. Order(r)
  BY <1>1, <1>3, <1>4, <1>5 DEF Order
<1> QED
  BY <1>6 DEF r

LEMMA OrderLower ==
  ASSUME NEW s \in Seq(FrameSet), Order(s), s # <<>>
  PROVE  /\ Order(Lower(s))
         /\ Lower(s) # <<>> => Inner(Lower(s)[Len(Lower(s))])
         /\ s[Len(s)].op = "node" => \E j \in 1 .. Len(Lower(s)) : Batch(Lower(s)[j])
<1> DEFINE r == Lower(s)
           n == Len(s)
<1>1. /\ n \in Nat \ {0} /\ r \in Seq(FrameSet)
      /\ Len(r) = n - 1 /\ \A i \in 1 .. n - 1 : r[i] = s[i]
  BY LowerSeq
<1>2. r # <<>> => Len(r) \in Nat \ {0}
  BY <1>1, EmptySeq, LenProperties
<1> HIDE DEF r
<1>3. \A i \in 1 .. n - 2 : i \in 1 .. n - 1
  BY <1>1
<1>4. Order(r)
  <2>1. \A i \in 1 .. Len(r) - 1 : Inner(r[i])
    BY <1>1, <1>3 DEF Order
  <2>2. ASSUME NEW i \in 1 .. Len(r), r[i].op = "node"
        PROVE  \E j \in 1 .. i - 1 : Batch(r[j])
    <3>1. i \in 1 .. n - 1 /\ i \in 1 .. n /\ s[i].op = "node"
      BY <1>1, <2>2
    <3>2. PICK j \in 1 .. i - 1 : Batch(s[j])
      BY <3>1 DEF Order
    <3>3. r[j] = s[j]
      BY <1>1, <3>1, <3>2
    <3> QED
      BY <3>2, <3>3
  <2> QED
    BY <2>1, <2>2 DEF Order
<1>5. r # <<>> => Inner(r[Len(r)])
  <2>1. r # <<>> => Len(r) \in 1 .. n - 1
    BY <1>1, <1>2
  <2> QED
    BY <1>1, <2>1 DEF Order
<1>6. s[n].op = "node" => \E j \in 1 .. Len(r) : Batch(r[j])
  <2>1. n \in 1 .. n
    BY <1>1
  <2>2. s[n].op = "node" => \E j \in 1 .. n - 1 : Batch(s[j])
    BY <2>1 DEF Order
  <2> QED
    BY <1>1, <2>2
<1> QED
  BY <1>4, <1>5, <1>6 DEF r

-----------------------------------------------------------------------------
(* What a step makes of the stacks *)

Work(t, outs, ins) ==
  /\ Placed'
  /\ \A u \in Thread \ {t} : stack'[u] = stack[u]
  /\ Reworked(stack[t], stack'[t], outs, ins)

LEMMA WorkIs ==
  ASSUME Placed, NEW t \in Thread, NEW q, NEW outs, NEW ins,
         Reworked(stack[t], q, outs, ins), Order(q), Calls(t, q)
  PROVE  Work(t, outs, ins) /\ stack'[t] = q
<1>1. q \in Seq(FrameSet)
  BY DEF Reworked
<1>2. /\ stack' \in Stacks /\ stack'[t] = q
      /\ \A u \in Thread \ {t} : stack'[u] = stack[u]
  BY <1>1 DEF Calls, Placed, Stacks
<1>3. \A u \in Thread : Order(stack'[u])
  BY <1>2 DEF Placed
<1>4. Placed'
  BY <1>2, <1>3 DEF Placed
<1> QED
  BY <1>2, <1>4 DEF Work

LEMMA StackIs ==
  ASSUME Placed, NEW t \in Thread
  PROVE  /\ stack[t] \in Seq(FrameSet) /\ Order(stack[t])
         /\ Below(t) = Lower(stack[t])
         /\ stack[t] # <<>> =>
              /\ Top(t) \in FrameSet /\ Top(t) = stack[t][Len(stack[t])]
              /\ Top(t) \in Elements(stack[t]) /\ Top(t) \in Frames(stack)
              /\ Len(stack[t]) \in Nat \ {0}
              /\ Below(t) \in Seq(FrameSet) /\ Order(Below(t))
              /\ Below(t) # <<>> => Inner(Below(t)[Len(Below(t))])
              /\ Top(t).op = "node" => \E j \in 1 .. Len(Below(t)) : Batch(Below(t)[j])
              /\ Reworked(stack[t], Below(t), {Top(t)}, {})
<1>1. stack[t] \in Seq(FrameSet) /\ Order(stack[t])
  BY DEF Placed, Stacks
<1>2. Below(t) = Lower(stack[t])
  BY DEF Below, Lower
<1>3. ASSUME stack[t] # <<>>
      PROVE  /\ Top(t) \in FrameSet /\ Top(t) = stack[t][Len(stack[t])]
             /\ Top(t) \in Elements(stack[t]) /\ Top(t) \in Frames(stack)
             /\ Len(stack[t]) \in Nat \ {0}
  <2>1. Top(t) \in FrameSet /\ Top(t) = stack[t][Len(stack[t])] /\ Len(stack[t]) \in Nat \ {0}
    BY <1>1, <1>3, LowerSeq DEF Top
  <2>2. Top(t) \in Elements(stack[t])
    BY <1>1, <1>3, <2>1, ElementsLower
  <2> QED
    BY <2>1, <2>2 DEF Frames
<1>4. ASSUME stack[t] # <<>>
      PROVE  /\ Below(t) \in Seq(FrameSet) /\ Order(Below(t))
             /\ Below(t) # <<>> => Inner(Below(t)[Len(Below(t))])
             /\ Top(t).op = "node" => \E j \in 1 .. Len(Below(t)) : Batch(Below(t)[j])
             /\ Reworked(stack[t], Below(t), {Top(t)}, {})
  BY <1>1, <1>2, <1>4, LowerSeq, OrderLower, ReworkedLower DEF Top
<1> QED
  BY <1>1, <1>2, <1>3, <1>4

LEMMA CallWork ==
  ASSUME Placed, NEW t \in Thread, Runs(t), NEW f \in FrameSet, f.op # "node",
         Calls(t, Append(stack[t], f))
  PROVE  Work(t, {}, {f}) /\ stack'[t] = Append(stack[t], f)
<1>1. ASSUME stack[t] # <<>>
      PROVE  Inner(stack[t][Len(stack[t])])
  <2>1. Top(t) \in FrameSet /\ Top(t) = stack[t][Len(stack[t])] /\ Top(t).pc = "open"
    BY <1>1, StackIs DEF Runs
  <2>2. Top(t).op \in {"closure", "object"}
    BY <2>1, FrameKinds DEF EndPc, ListPc, SendPc, NodePc
  <2> QED
    BY <2>1, <2>2 DEF Inner
<1>2. Order(Append(stack[t], f))
  BY <1>1, StackIs, OrderAppend
<1>3. Reworked(stack[t], Append(stack[t], f), {}, {f})
  BY StackIs, ReworkedAppend
<1> QED
  BY <1>2, <1>3, WorkIs

LEMMA ReturnWork ==
  ASSUME Placed, NEW t \in Thread, stack[t] # <<>>, Return(t)
  PROVE  Work(t, {Top(t)}, {}) /\ stack'[t] = Below(t)
BY StackIs, WorkIs DEF Return

(* A frame in the place of the top one.                                    *)
LEMMA OverTop ==
  ASSUME Placed, NEW t \in Thread, stack[t] # <<>>,
         NEW f \in FrameSet, f.op = "node" => Top(t).op = "node"
  PROVE  /\ Append(Below(t), f) \in Seq(FrameSet)
         /\ Order(Append(Below(t), f))
         /\ Len(Append(Below(t), f)) = Len(stack[t])
         /\ Append(Below(t), f)[Len(stack[t])] = f
         /\ \A i \in 1 .. Len(Below(t)) : Append(Below(t), f)[i] = Below(t)[i]
         /\ Reworked(stack[t], Append(Below(t), f), {Top(t)}, {f})
         /\ \A i \in Nat : ListAt(Append(Below(t), f), i) =
                             IF i = Len(stack[t]) THEN Taken(f) ELSE ListAt(stack[t], i)
<1> DEFINE s == Below(t)
           r == Append(s, f)
           n == Len(stack[t])
<1>1. /\ s \in Seq(FrameSet) /\ Order(s) /\ (s # <<>> => Inner(s[Len(s)]))
      /\ Top(t).op = "node" => \E j \in 1 .. Len(s) : Batch(s[j])
      /\ Reworked(stack[t], s, {Top(t)}, {})
      /\ n \in Nat \ {0}
  BY StackIs
<1>2. Len(s) = n - 1 /\ Len(s) \in Nat
  <2>1. Len(s) = n - 1
    BY StackIs, LowerSeq
  <2> QED
    BY <1>1, <2>1
<1>3. \A i \in Nat : ListAt(s, i) = IF i = n THEN <<>> ELSE ListAt(stack[t], i)
  BY StackIs, LowerLists
<1> HIDE DEF s, n
<1>4. Order(r)
  BY <1>1, OrderAppend
<1>5. Reworked(s, r, {}, {f})
  BY <1>1, ReworkedAppend
<1>6. Reworked(stack[t], r, {Top(t)}, {f})
  <2>1. {Top(t)} \cup {} = {Top(t)} /\ {} \cup {f} = {f}
    OBVIOUS
  <2>2. Reworked(stack[t], r, {Top(t)} \cup {}, {} \cup {f})
    BY <1>1, <1>5, ReworkedTwice
  <2> QED
    BY <2>1, <2>2
<1>7. Len(s) + 1 = n
  BY <1>1, <1>2
<1>8. /\ r \in Seq(FrameSet) /\ Len(r) = n /\ r[n] = f
      /\ \A i \in 1 .. Len(s) : r[i] = s[i]
  BY <1>1, <1>7, AppendProperties
<1>9. \A i \in Nat : ListAt(r, i) = IF i = n THEN Taken(f) ELSE ListAt(s, i)
  BY <1>1, <1>7, AppendLists
<1>10. \A i \in Nat : ListAt(r, i) = IF i = n THEN Taken(f) ELSE ListAt(stack[t], i)
  BY <1>3, <1>9
<1> QED
  BY <1>4, <1>6, <1>8, <1>10 DEF s, n

LEMMA GoOnWork ==
  ASSUME Placed, NEW t \in Thread, stack[t] # <<>>,
         NEW f \in FrameSet, f.op = "node" => Top(t).op = "node", GoOn(t, f)
  PROVE  /\ Work(t, {Top(t)}, {f}) /\ stack'[t] = Append(Below(t), f)
         /\ f \in Frames(stack')
<1>1. Work(t, {Top(t)}, {f}) /\ stack'[t] = Append(Below(t), f)
  BY OverTop, WorkIs DEF GoOn
<1>2. f \in Elements(Append(Below(t), f))
  <2>1. Below(t) \in Seq(FrameSet)
    BY StackIs
  <2> QED
    BY <2>1, ElementsOf
<1>3. f \in Elements(stack'[t])
  BY <1>1, <1>2
<1> QED
  BY <1>1, <1>3 DEF Frames

LEMMA NestWork ==
  ASSUME Placed, NEW t \in Thread, stack[t] # <<>>,
         NEW f \in FrameSet, f.op = "node" => Top(t).op = "node", Inner(f),
         NEW g \in FrameSet, g.op = "node" => f.op = "node" \/ Batch(f), Nest(t, f, g)
  PROVE  Work(t, {Top(t)}, {f, g}) /\ stack'[t] = Append(Append(Below(t), f), g)
<1> DEFINE s == Below(t)
           r == Append(s, f)
           n == Len(stack[t])
<1>1. /\ r \in Seq(FrameSet) /\ Order(r) /\ Len(r) = n /\ r[n] = f
      /\ \A i \in 1 .. Len(s) : r[i] = s[i]
      /\ Reworked(stack[t], r, {Top(t)}, {f})
  BY OverTop
<1>2. /\ n \in Nat \ {0} /\ Len(s) = n - 1
      /\ Top(t).op = "node" => \E j \in 1 .. Len(s) : Batch(s[j])
  BY StackIs, LowerSeq
<1>3. Nest(t, f, g) <=> Calls(t, Append(r, g))
  BY DEF Nest
<1> HIDE DEF s, r, n
<1>4. g.op = "node" => \E j \in 1 .. Len(r) : Batch(r[j])
  <2>1. ASSUME f.op = "node"
        PROVE  \E j \in 1 .. n : Batch(r[j])
    <3>1. PICK j \in 1 .. Len(s) : Batch(s[j])
      BY <1>2, <2>1
    <3>2. j \in 1 .. n
      BY <1>2, <3>1
    <3> QED
      BY <1>1, <3>1, <3>2
  <2>2. ASSUME Batch(f)
        PROVE  \E j \in 1 .. n : Batch(r[j])
    <3>1. n \in 1 .. n
      BY <1>2
    <3> QED
      BY <1>1, <2>2, <3>1
  <2> QED
    BY <1>1, <2>1, <2>2
<1>5. Order(Append(r, g))
  BY <1>1, <1>4, OrderAppend
<1>6. Reworked(stack[t], Append(r, g), {Top(t)}, {f, g})
  <2>1. {Top(t)} \cup {} = {Top(t)} /\ {f} \cup {g} = {f, g}
    OBVIOUS
  <2>2. Reworked(r, Append(r, g), {}, {g})
    BY <1>1, ReworkedAppend
  <2>3. Reworked(stack[t], Append(r, g), {Top(t)} \cup {}, {f} \cup {g})
    BY <1>1, <2>2, ReworkedTwice
  <2> QED
    BY <2>1, <2>3
<1>7. Work(t, {Top(t)}, {f, g}) /\ stack'[t] = Append(r, g)
  BY <1>3, <1>5, <1>6, WorkIs
<1> QED
  BY <1>7 DEF r, s

Counting == End("count", <<>>)

(* leave_transaction, when q is what it leaves of the stack but for an end.*)
LEMMA LeaveWork ==
  ASSUME Placed, NEW t \in Thread, NEW q, NEW outs, NEW ins,
         Reworked(stack[t], q, outs, ins), Order(q),
         q # <<>> => Inner(q[Len(q)]), Leave(t, q)
  PROVE  /\ depth' = depth - 1
         /\ depth = 1 => Work(t, outs, ins \cup {Counting}) /\ Counting \in Frames(stack')
         /\ depth # 1 => Work(t, outs, ins)
<1>1. q \in Seq(FrameSet)
  BY DEF Reworked
<1>2. Counting \in FrameSet /\ Counting.op = "end"
  BY MakeFrames DEF EndPc, Counting, End
<1>3. ASSUME depth = 1
      PROVE  Work(t, outs, ins \cup {Counting}) /\ Counting \in Frames(stack')
  <2>1. Calls(t, Append(q, Counting))
    BY <1>3 DEF Leave, Counting
  <2>2. Order(Append(q, Counting))
    BY <1>1, <1>2, OrderAppend
  <2>3. Reworked(stack[t], Append(q, Counting), outs \cup {}, ins \cup {Counting})
    BY <1>1, <1>2, ReworkedAppend, ReworkedTwice
  <2>4. outs \cup {} = outs
    OBVIOUS
  <2>5. Work(t, outs, ins \cup {Counting}) /\ stack'[t] = Append(q, Counting)
    BY <2>1, <2>2, <2>3, <2>4, WorkIs
  <2>6. Counting \in Elements(Append(q, Counting))
    BY <1>1, <1>2, ElementsOf
  <2> QED
    BY <2>5, <2>6 DEF Frames
<1>4. ASSUME depth # 1
      PROVE  Work(t, outs, ins)
  BY <1>4, WorkIs DEF Leave
<1> QED
  BY <1>3, <1>4 DEF Leave

(* The stack without the unwinding and the call that it stops, g.          *)
Stopped(t) == stack[t][Len(stack[t]) - 1]
Rest(t) == SubSeq(stack[t], 1, Len(stack[t]) - 2)

LEMMA RestIs ==
  ASSUME Placed, NEW t \in Thread, stack[t] # <<>>, Len(stack[t]) - 1 > 0
  PROVE  /\ Rest(t) \in Seq(FrameSet) /\ Order(Rest(t))
         /\ Rest(t) # <<>> => Inner(Rest(t)[Len(Rest(t))])
         /\ Len(stack[t]) - 1 \in Nat \ {0} /\ Len(Rest(t)) = Len(stack[t]) - 1 - 1
         /\ Rest(t) = SubSeq(stack[t], 1, Len(stack[t]) - 1 - 1)
         /\ \A i \in 1 .. Len(stack[t]) - 1 - 1 : Rest(t)[i] = stack[t][i]
         /\ Stopped(t) \in FrameSet /\ Inner(Stopped(t))
         /\ Stopped(t) \in Frames(stack)
         /\ Reworked(stack[t], Rest(t), {Top(t), Stopped(t)}, {})
         /\ Taken(Top(t)) = <<>> =>
              \A i \in Nat : ListAt(Rest(t), i) =
                               IF i = Len(stack[t]) - 1 THEN <<>> ELSE ListAt(stack[t], i)
         /\ ListAt(stack[t], Len(stack[t]) - 1) = Taken(Stopped(t))
<1> DEFINE s == stack[t]
           b == Lower(s)
           r == Lower(b)
           n == Len(stack[t]) - 1
           g == Stopped(t)
<1>1. /\ s \in Seq(FrameSet) /\ Order(s) /\ Len(s) \in Nat \ {0}
      /\ b \in Seq(FrameSet) /\ Order(b) /\ (b # <<>> => Inner(b[Len(b)]))
      /\ Reworked(s, b, {Top(t)}, {})
      /\ Top(t) \in FrameSet /\ Top(t) = s[Len(s)]
  BY StackIs
<1>2. /\ Len(b) = n /\ \A i \in 1 .. n : b[i] = s[i]
  BY <1>1, LowerSeq
<1>3. Len(s) = n + 1 /\ n \in Nat \ {0} /\ n - 1 \in Nat /\ Len(s) - 2 = n - 1
  BY <1>1
<1>4. /\ \A i \in Nat : ListAt(b, i) = IF i = n + 1 THEN <<>> ELSE ListAt(s, i)
      /\ ListAt(s, n + 1) = Taken(Top(t))
  BY <1>1, <1>3, LowerLists
<1> HIDE DEF s, b, n
<1>5. b # <<>> /\ b[n] = s[n] /\ g = s[n]
  <2>1. b # <<>>
    BY <1>2, <1>3, EmptySeq
  <2>2. n \in 1 .. n
    BY <1>3
  <2> QED
    BY <1>2, <2>1, <2>2 DEF Stopped, s, n
<1>6. /\ r \in Seq(FrameSet) /\ Len(r) = n - 1 /\ \A i \in 1 .. n - 1 : r[i] = b[i]
      /\ b[n] \in FrameSet
  BY <1>1, <1>2, <1>5, LowerSeq
<1>7. Order(r) /\ (r # <<>> => Inner(r[Len(r)]))
  BY <1>1, <1>5, OrderLower
<1>8. Reworked(b, r, {b[n]}, {})
  BY <1>1, <1>2, <1>5, ReworkedLower
<1>9. /\ \A i \in Nat : ListAt(r, i) = IF i = n THEN <<>> ELSE ListAt(b, i)
      /\ ListAt(b, n) = Taken(b[n])
  BY <1>1, <1>2, <1>5, LowerLists
<1>10. \A i \in 1 .. n - 1 : r[i] = s[i]
  <2>1. \A i \in 1 .. n - 1 : i \in 1 .. n
    BY <1>3
  <2> QED
    BY <1>2, <1>6, <2>1
<1> HIDE DEF r, g
<1>11. r = Rest(t) /\ r = SubSeq(s, 1, n - 1)
  <2>1. \A i \in 1 .. n - 1 : s[i] \in FrameSet
    <3>1. \A i \in 1 .. n - 1 : i \in 1 .. Len(s)
      BY <1>3
    <3> QED
      BY <1>1, <3>1, ElementOfSeq
  <2>2. n - 1 \in Int /\ (n - 1 = 0 \/ n - 1 >= 1)
    BY <1>3
  <2>3. /\ SubSeq(s, 1, n - 1) \in Seq(FrameSet)
        /\ Len(SubSeq(s, 1, n - 1)) = n - 1
        /\ \A i \in 1 .. n - 1 : SubSeq(s, 1, n - 1)[i] = s[i]
    BY <2>1, <2>2, SubSeqProperties
  <2>4. r = SubSeq(s, 1, n - 1)
    BY <1>6, <1>10, <2>3, SeqEqual
  <2> QED
    BY <1>3, <2>4 DEF Rest, s
<1>12. Reworked(s, r, {Top(t), g}, {})
  <2>1. {Top(t)} \cup {g} = {Top(t), g} /\ {} \cup {} = {}
    OBVIOUS
  <2>2. Reworked(s, r, {Top(t)} \cup {g}, {} \cup {})
    BY <1>1, <1>5, <1>8, ReworkedTwice
  <2> QED
    BY <2>1, <2>2
<1>13. Taken(Top(t)) = <<>> =>
         \A i \in Nat : ListAt(r, i) = IF i = n THEN <<>> ELSE ListAt(s, i)
  BY <1>4, <1>9
<1>14. ListAt(s, n) = Taken(g)
  <2>1. n # n + 1
    BY <1>3
  <2> QED
    BY <1>3, <1>4, <1>5, <1>9, <2>1
<1>15. g \in FrameSet /\ Inner(g) /\ g \in Frames(stack)
  <2>1. n \in 1 .. Len(s)
    BY <1>3
  <2>2. g \in Elements(s)
    BY <1>1, <1>5, <2>1, ElementsRange
  <2> QED
    BY <1>1, <1>2, <1>5, <1>6, <2>2 DEF Frames, s
<1>16. n \in Nat \ {0} /\ Len(r) = n - 1 /\ \A i \in 1 .. n - 1 : r[i] = s[i]
  BY <1>3, <1>6, <1>10
<1> QED
  BY <1>6, <1>7, <1>11, <1>12, <1>13, <1>14, <1>15, <1>16 DEF s, n, g

AgainFrame == [op |-> "object", pc |-> "again", list |-> <<>>]

(* UnwindCall stops a call, and the Transaction that is being closed takes *)
(* over what it holds.                                                     *)
LEMMA UnwindWork ==
  ASSUME Placed, NEW t \in Thread, UnwindCall(t)
  PROVE  \E outs, ins :
           /\ Work(t, outs, ins)
           /\ \A f \in outs : f.op \in {"unwind", "object"} \/ f = Stopped(t)
           /\ \A f \in ins : f \in FrameSet /\ f.op \in {"unwind", "object"}
           /\ \A i \in Nat : ListAt(stack'[t], i) =
                               IF i = Len(stack[t]) - 1 THEN <<>> ELSE ListAt(stack[t], i)
<1> DEFINE n == Len(stack[t]) - 1
           g == Stopped(t)
           r == Rest(t)
           q == IF Again(t, n) THEN [r EXCEPT ![n - 1].pc = "again"] ELSE r
<1>1. /\ stack[t] # <<>> /\ Top(t).op = "unwind" /\ n > 0
  BY DEF UnwindCall, Is
<1>2. Calls(t, Append(q, Unwinding))
  BY <1>1, RestIs DEF UnwindCall, Again
<1>3. Top(t) \in FrameSet /\ Top(t).pc = "unwind" /\ Taken(Top(t)) = <<>>
  BY <1>1, StackIs, FrameKinds DEF Taken
<1>4. /\ r \in Seq(FrameSet) /\ Order(r) /\ (r # <<>> => Inner(r[Len(r)]))
      /\ n \in Nat \ {0} /\ Len(r) = n - 1 /\ (\A i \in 1 .. n - 1 : r[i] = stack[t][i])
      /\ Reworked(stack[t], r, {Top(t), g}, {})
      /\ \A i \in Nat : ListAt(r, i) = IF i = n THEN <<>> ELSE ListAt(stack[t], i)
  BY <1>1, <1>3, RestIs
<1>5. Unwinding \in FrameSet /\ Unwinding.op = "unwind" /\ Taken(Unwinding) = <<>>
  BY MakeFrames DEF Unwinding, Taken
<1> HIDE DEF n, g, r
<1>6. \E outs, ins :
        /\ Reworked(stack[t], q, outs, ins) /\ Order(q)
        /\ q # <<>> => Inner(q[Len(q)])
        /\ \A f \in outs : f.op \in {"unwind", "object"} \/ f = g
        /\ \A f \in ins : f \in FrameSet /\ f.op \in {"unwind", "object"}
        /\ \A i \in Nat : ListAt(q, i) = ListAt(r, i)
  <2>1. CASE ~Again(t, n)
    <3>1. q = r
      BY <2>1
    <3>2. /\ Reworked(stack[t], q, {Top(t), g}, {}) /\ Order(q)
          /\ q # <<>> => Inner(q[Len(q)])
          /\ \A f \in {Top(t), g} : f.op \in {"unwind", "object"} \/ f = g
          /\ \A i \in Nat : ListAt(q, i) = ListAt(r, i)
      BY <1>1, <1>4, <3>1
    <3> HIDE DEF q
    <3> QED
      BY <3>2
  <2>2. CASE Again(t, n)
    <3> DEFINE h == r[n - 1]
               b == Lower(r)
    <3>1. n - 1 > 0 /\ stack[t][n - 1].op = "object"
      BY <2>2 DEF Again, Closing
    <3>2. /\ r # <<>> /\ n - 1 \in 1 .. n - 1 /\ n - 1 \in Nat \ {0}
      <4>1. n - 1 \in Nat \ {0} /\ n - 1 \in 1 .. n - 1
        BY <1>4, <3>1
      <4> QED
        BY <1>4, <4>1, EmptySeq
    <3>3. h \in FrameSet /\ h.op = "object" /\ [h EXCEPT !.pc = "again"] = AgainFrame
          /\ AgainFrame \in FrameSet /\ h.pc # "posted"
      <4>1. h.op = "object" /\ h \in FrameSet
        BY <1>4, <3>1, <3>2, ElementOfSeq
      <4> QED
        BY <4>1, MakeFrames, FrameGoesOn, FrameKinds DEF AgainFrame
    <3>4. /\ b \in Seq(FrameSet) /\ Len(b) = n - 1 - 1
          /\ \A i \in 1 .. n - 1 - 1 : b[i] = r[i]
      BY <1>4, <3>2, LowerSeq
    <3>5. Order(b) /\ (b # <<>> => Inner(b[Len(b)])) /\ Reworked(r, b, {h}, {})
      BY <1>4, <3>2, OrderLower, ReworkedLower
    <3>6. n - 1 - 1 + 1 = n - 1
      BY <1>4
    <3> HIDE DEF b, h
    <3>7. /\ Append(b, AgainFrame) \in Seq(FrameSet)
          /\ Len(Append(b, AgainFrame)) = n - 1
          /\ Append(b, AgainFrame)[n - 1] = AgainFrame
          /\ \A i \in 1 .. n - 1 - 1 : Append(b, AgainFrame)[i] = r[i]
      BY <3>3, <3>4, <3>6, AppendProperties
    <3>8. q = Append(b, AgainFrame)
      <4>1. q = [r EXCEPT ![n - 1] = AgainFrame]
        BY <2>2, <3>3 DEF h
      <4> DEFINE u == [r EXCEPT ![n - 1] = AgainFrame]
                 v == Append(b, AgainFrame)
      <4>2. /\ u \in Seq(FrameSet) /\ Len(u) = n - 1
            /\ \A i \in 1 .. n - 1 : u[i] = IF i = n - 1 THEN AgainFrame ELSE r[i]
        BY <1>4, <3>2, <3>3, ExceptSeq
      <4>3. \A i \in 1 .. n - 1 : i = n - 1 \/ i \in 1 .. n - 1 - 1
        BY <1>4
      <4>4. v \in Seq(FrameSet) /\ Len(v) = Len(u) /\ \A i \in 1 .. Len(u) : u[i] = v[i]
        BY <3>7, <4>2, <4>3
      <4> HIDE DEF u, v
      <4>5. u = v
        BY <4>2, <4>4, SeqEqual
      <4> QED
        BY <4>1, <4>5 DEF u, v
    <3>9. AgainFrame.op = "object" /\ Inner(AgainFrame) /\ Taken(AgainFrame) = <<>>
      BY DEF AgainFrame, Inner, Taken
    <3> HIDE DEF q
    <3>10. Order(q)
      BY <3>3, <3>4, <3>5, <3>8, <3>9, OrderAppend
    <3>11. q # <<>> => Inner(q[Len(q)])
      BY <3>7, <3>8, <3>9
    <3>12. Reworked(r, q, {h} \cup {}, {} \cup {AgainFrame})
      <4>1. Reworked(b, q, {}, {AgainFrame})
        BY <3>3, <3>4, <3>8, ReworkedAppend
      <4> QED
        BY <3>5, <4>1, ReworkedTwice
    <3>13. Taken(h) = <<>>
      BY <3>3 DEF Taken
    <3>14. \A i \in Nat : ListAt(q, i) = ListAt(r, i)
      BY <3>9, <3>12, <3>13 DEF Reworked
    <3> DEFINE o == {Top(t), g} \cup ({h} \cup {})
               a == {} \cup ({} \cup {AgainFrame})
    <3>15. Reworked(stack[t], q, o, a)
      BY <1>4, <3>12, ReworkedTwice
    <3>16. /\ \A f \in o : f.op \in {"unwind", "object"} \/ f = g
           /\ \A f \in a : f \in FrameSet /\ f.op \in {"unwind", "object"}
      BY <1>1, <3>3, <3>9
    <3> HIDE DEF o, a
    <3> QED
      BY <3>10, <3>11, <3>14, <3>15, <3>16
  <2> QED
    BY <2>1, <2>2
<1> HIDE DEF q
<1>7. PICK outs, ins :
        /\ Reworked(stack[t], q, outs, ins) /\ Order(q)
        /\ q # <<>> => Inner(q[Len(q)])
        /\ \A f \in outs : f.op \in {"unwind", "object"} \/ f = g
        /\ \A f \in ins : f \in FrameSet /\ f.op \in {"unwind", "object"}
        /\ \A i \in Nat : ListAt(q, i) = ListAt(r, i)
  BY <1>6
<1>8. q \in Seq(FrameSet)
  BY <1>7 DEF Reworked
<1>9. Order(Append(q, Unwinding))
  BY <1>5, <1>7, <1>8, OrderAppend
<1>10. Reworked(q, Append(q, Unwinding), {}, {Unwinding})
  BY <1>5, <1>8, ReworkedAppend
<1>11. Reworked(stack[t], Append(q, Unwinding), outs \cup {}, ins \cup {Unwinding})
  BY <1>7, <1>10, ReworkedTwice
<1>12. \A i \in Nat : ListAt(Append(q, Unwinding), i) = ListAt(q, i)
  BY <1>5, <1>10 DEF Reworked
<1>13. /\ Work(t, outs \cup {}, ins \cup {Unwinding})
       /\ stack'[t] = Append(q, Unwinding)
  BY <1>2, <1>9, <1>11, WorkIs
<1>14. /\ \A f \in outs \cup {} : f.op \in {"unwind", "object"} \/ f = g
       /\ \A f \in ins \cup {Unwinding} : f \in FrameSet /\ f.op \in {"unwind", "object"}
       /\ \A i \in Nat : ListAt(stack'[t], i) = IF i = n THEN <<>> ELSE ListAt(stack[t], i)
  BY <1>4, <1>5, <1>7, <1>12, <1>13
<1> QED
  BY <1>13, <1>14 DEF n, g

-----------------------------------------------------------------------------
(* What each action makes of the stacks *)

Over(t, f) ==
  stack[t] # <<>> /\ Work(t, {Top(t)}, {f}) /\ f \in Frames(stack')

LEMMA WorkFrames ==
  ASSUME Placed, NEW t \in Thread, NEW outs, NEW ins, Work(t, outs, ins)
  PROVE  /\ Frames(stack') \subseteq Frames(stack) \cup ins
         /\ Frames(stack) \subseteq Frames(stack') \cup outs
         /\ (\A f \in outs \cup ins : Taken(f) = <<>>) =>
              \A u \in Thread, i \in Nat : ListAt(stack'[u], i) = ListAt(stack[u], i)
<1>1. /\ \A u \in Thread \ {t} : stack'[u] = stack[u]
      /\ Elements(stack[t]) \subseteq Elements(stack'[t]) \cup outs
      /\ Elements(stack'[t]) \subseteq Elements(stack[t]) \cup ins
      /\ (\A f \in outs \cup ins : Taken(f) = <<>>) =>
           \A i \in Nat : ListAt(stack'[t], i) = ListAt(stack[t], i)
  BY DEF Work, Reworked
<1>2. Frames(stack') \subseteq Frames(stack) \cup ins
  BY <1>1 DEF Frames
<1>3. Frames(stack) \subseteq Frames(stack') \cup outs
  BY <1>1 DEF Frames
<1> QED
  BY <1>1, <1>2, <1>3

LEMMA SendTop ==
  ASSUME Placed, NEW t \in Thread, stack[t] # <<>>, Top(t).op = "send"
  PROVE  /\ Top(t) \in FrameSet /\ Top(t) \in Frames(stack)
         /\ Top(t).list \in Sink \X Nat \X BOOLEAN
         /\ Top(t).list[1] \in Sink /\ Top(t).list[3] \in BOOLEAN
         /\ \A pc \in SendPc : /\ [Top(t) EXCEPT !.pc = pc] = Sending(pc, Top(t).list)
                               /\ Sending(pc, Top(t).list) \in FrameSet
                               /\ Sending(pc, Top(t).list).op = "send"
<1>1. Top(t) \in FrameSet /\ Top(t) \in Frames(stack)
  BY StackIs
<1>2. Top(t).list \in Sink \X Nat \X BOOLEAN
  BY <1>1, FrameKinds
<1>3. \A pc \in SendPc : /\ [Top(t) EXCEPT !.pc = pc] = Sending(pc, Top(t).list)
                         /\ Sending(pc, Top(t).list) \in FrameSet
  BY <1>1, <1>2, FrameGoesOn, MakeFrames
<1> QED
  BY <1>1, <1>2, <1>3 DEF Sending

LEMMA SendBeginWork ==
  ASSUME TypeInv, NEW t \in Thread, NEW s \in Sink, SendBegin(t, s)
  PROVE  Work(t, {}, {Sending("mark", <<s, sends + 1, FALSE>>)})
<1> DEFINE f == Sending("mark", <<s, sends + 1, FALSE>>)
<1>1. Placed /\ sends \in Nat
  BY SharedAssumption DEF TypeInv, Data
<1>2. Runs(t) /\ Calls(t, Append(stack[t], f))
  BY DEF SendBegin
<1>3. f \in FrameSet /\ f.op # "node"
  <2> DEFINE list == <<s, sends + 1, FALSE>>
  <2>1. list \in Sink \X Nat \X BOOLEAN
    <3>1. sends + 1 \in Nat
      BY <1>1
    <3>2. \A a \in Nat : <<s, a, FALSE>> \in Sink \X Nat \X BOOLEAN
      OBVIOUS
    <3> QED
      BY <3>1, <3>2
  <2> HIDE DEF list
  <2>2. Sending("mark", list) \in FrameSet /\ Sending("mark", list).op # "node"
    BY <2>1, MakeFrames DEF Sending, SendPc
  <2> QED
    BY <2>2 DEF list
<1> HIDE DEF f
<1>4. Work(t, {}, {f})
  BY <1>1, <1>2, <1>3, CallWork
<1> QED
  BY <1>4 DEF f

LEMMA SendWork ==
  ASSUME Placed, NEW t \in Thread
  PROVE  /\ SendMark(t) => Over(t, Sending("push", Top(t).list))
         /\ SendPush(t) => Over(t, Sending("fire", Top(t).list))
         /\ SendFire(t) => Over(t, Sending("flag", <<Top(t).list[1], Top(t).list[2],
                                                    firing[Top(t).list[1]] = 0>>))
         /\ SendFlag(t) => Over(t, Sending(IF Top(t).list[3] THEN "queue" ELSE "leave",
                                           Top(t).list))
         /\ SendQueue(t) => Over(t, Sending("leave", Top(t).list))
<1>1. ASSUME stack[t] # <<>>, Top(t).op = "send", NEW pc \in SendPc,
             GoOn(t, Sending(pc, Top(t).list))
      PROVE  Over(t, Sending(pc, Top(t).list))
  BY <1>1, SendTop, GoOnWork DEF Over
<1>2. SendMark(t) => Over(t, Sending("push", Top(t).list))
  BY <1>1, SendTop DEF SendMark, Is, SendPc
<1>3. SendPush(t) => Over(t, Sending("fire", Top(t).list))
  BY <1>1, SendTop DEF SendPush, Is, SendPc
<1>4. ASSUME SendFire(t)
      PROVE  Over(t, Sending("flag", <<Top(t).list[1], Top(t).list[2],
                                       firing[Top(t).list[1]] = 0>>))
  <2> DEFINE list == <<Top(t).list[1], Top(t).list[2], firing[Top(t).list[1]] = 0>>
             f == Sending("flag", list)
  <2>1. stack[t] # <<>> /\ Top(t).op = "send" /\ GoOn(t, f)
    BY <1>4 DEF SendFire, Is
  <2>2. list \in Sink \X Nat \X BOOLEAN
    BY <2>1, SendTop
  <2> HIDE DEF list
  <2>3. f \in FrameSet /\ f.op = "send"
    BY <2>2, MakeFrames DEF Sending, SendPc
  <2> HIDE DEF f
  <2>4. Over(t, f)
    BY <2>1, <2>3, GoOnWork DEF Over
  <2> QED
    BY <2>4 DEF f, list
<1>5. ASSUME SendFlag(t)
      PROVE  Over(t, Sending(IF Top(t).list[3] THEN "queue" ELSE "leave", Top(t).list))
  <2> DEFINE pc == IF Top(t).list[3] THEN "queue" ELSE "leave"
  <2>1. pc \in SendPc
    BY DEF SendPc
  <2>2. stack[t] # <<>> /\ Top(t).op = "send" /\ GoOn(t, [Top(t) EXCEPT !.pc = pc])
    BY <1>5 DEF SendFlag, Is
  <2> HIDE DEF pc
  <2>3. GoOn(t, Sending(pc, Top(t).list))
    BY <2>1, <2>2, SendTop
  <2>4. Over(t, Sending(pc, Top(t).list))
    BY <1>1, <2>1, <2>2, <2>3
  <2> QED
    BY <2>4 DEF pc
<1>6. SendQueue(t) => Over(t, Sending("leave", Top(t).list))
  BY <1>1, SendTop DEF SendQueue, Is, SendPc
<1> QED
  BY <1>2, <1>3, <1>4, <1>5, <1>6

LEMMA NodeTop ==
  ASSUME Placed, NEW t \in Thread, stack[t] # <<>>, Top(t).op = "node"
  PROVE  /\ Top(t) \in FrameSet /\ Top(t) \in Frames(stack)
         /\ Top(t).list \in Node /\ Top(t).list[2] \in Sink
         /\ SinkNode(Top(t).list[2]) \in Node /\ ListenNode(Top(t).list[2]) \in Node
         /\ \A pc \in NodePc : [Top(t) EXCEPT !.pc = pc] = Visit(pc, Top(t).list)
         /\ \A pc \in NodePc, n \in Node : Visit(pc, n) \in FrameSet
         /\ \E f \in Frames(stack) : f \in FrameSet /\ Batch(f)
<1>1. Top(t) \in FrameSet /\ Top(t) \in Frames(stack)
  BY StackIs
<1>2. Top(t).list \in Node /\ \A pc \in NodePc : [Top(t) EXCEPT !.pc = pc] = Visit(pc, Top(t).list)
  BY <1>1, FrameKinds, FrameGoesOn
<1>3. \E f \in Frames(stack) : f \in FrameSet /\ Batch(f)
  <2>1. /\ stack[t] \in Seq(FrameSet) /\ Below(t) = Lower(stack[t])
        /\ Below(t) \in Seq(FrameSet)
    BY StackIs
  <2>2. PICK j \in 1 .. Len(Below(t)) : Batch(Below(t)[j])
    BY StackIs
  <2>3. Below(t)[j] \in Elements(Below(t)) /\ Below(t)[j] \in FrameSet
    BY <2>1, ElementsRange
  <2>4. Elements(Below(t)) \subseteq Elements(stack[t])
    BY <2>1, ElementsLower
  <2> QED
    BY <2>2, <2>3, <2>4 DEF Frames
<1>4. \A pc \in NodePc, n \in Node : Visit(pc, n) \in FrameSet
  BY MakeFrames
<1>5. /\ Top(t).list[2] \in Sink
      /\ SinkNode(Top(t).list[2]) \in Node /\ ListenNode(Top(t).list[2]) \in Node
  BY <1>2 DEF Node, SinkNode, ListenNode
<1> QED
  BY <1>1, <1>2, <1>3, <1>4, <1>5

LEMMA NodeWork ==
  ASSUME Placed, NEW t \in Thread
  PROVE  /\ NodeSwap(t) /\ ~visited[Top(t).list] => Over(t, Visit("queue", Top(t).list))
         /\ NodeSwap(t) /\ visited[Top(t).list] => Work(t, {Top(t)}, {})
         /\ NodeQueue(t) => \E pc \in NodePc \ {"queue"} : Over(t, Visit(pc, Top(t).list))
         /\ NodeVisit(t) => \E ins : /\ Work(t, {Top(t)}, ins)
                                     /\ \A f \in ins : f.op = "node" /\ f.pc \in {"any", "swap"}
         /\ NodeAny(t) \/ NodeRun(t) \/ NodeSelf(t) =>
              \E ins : /\ Work(t, {Top(t)}, ins)
                       /\ \A f \in ins : f.op = "node" /\ f.pc \in {"run", "swap"}
<1>1. ASSUME stack[t] # <<>>, Top(t).op = "node", NEW pc \in NodePc, NEW n \in Node,
             GoOn(t, Visit(pc, n))
      PROVE  Over(t, Visit(pc, n)) /\ Visit(pc, n).op = "node" /\ Visit(pc, n).pc = pc
  <2>1. Visit(pc, n) \in FrameSet /\ Visit(pc, n).op = "node" /\ Visit(pc, n).pc = pc
    BY MakeFrames DEF Visit
  <2> QED
    BY <1>1, <2>1, GoOnWork DEF Over
<1>2. NodeSwap(t) /\ ~visited[Top(t).list] => Over(t, Visit("queue", Top(t).list))
  BY <1>1, NodeTop DEF NodeSwap, Is, NodePc
<1>3. NodeSwap(t) /\ visited[Top(t).list] => Work(t, {Top(t)}, {})
  BY ReturnWork DEF NodeSwap, Is
<1>4. NodeQueue(t) => \E pc \in NodePc \ {"queue"} : Over(t, Visit(pc, Top(t).list))
  <2> SUFFICES ASSUME NodeQueue(t)
               PROVE  \E pc \in NodePc \ {"queue"} : Over(t, Visit(pc, Top(t).list))
    OBVIOUS
  <2> DEFINE pc == IF Top(t).list[1] = "listen" THEN "visit" ELSE "self"
  <2>1. stack[t] # <<>> /\ Top(t).op = "node" /\ GoOn(t, Visit(pc, Top(t).list))
    BY DEF NodeQueue, Is
  <2>2. pc \in NodePc \ {"queue"}
    BY DEF NodePc
  <2> HIDE DEF pc
  <2> QED
    BY <1>1, <2>1, <2>2, NodeTop
<1>5. ASSUME NodeVisit(t)
      PROVE  \E ins : /\ Work(t, {Top(t)}, ins)
                      /\ \A f \in ins : f.op = "node" /\ f.pc \in {"any", "swap"}
  <2> DEFINE f == Visit("any", ListenNode(Top(t).list[2]))
             g == Visit("swap", SinkNode(Top(t).list[2]))
  <2>1. stack[t] # <<>> /\ Top(t).op = "node" /\ (GoOn(t, f) \/ Nest(t, f, g))
    BY <1>5 DEF NodeVisit, Is
  <2>2. /\ f \in FrameSet /\ f.op = "node" /\ f.pc = "any" /\ Inner(f)
        /\ g \in FrameSet /\ g.op = "node" /\ g.pc = "swap"
    <3>1. f \in FrameSet /\ g \in FrameSet
      BY <2>1, NodeTop DEF NodePc
    <3> QED
      BY <3>1 DEF Visit, Inner
  <2> HIDE DEF f, g
  <2>3. Work(t, {Top(t)}, {f}) \/ Work(t, {Top(t)}, {f, g})
    BY <2>1, <2>2, GoOnWork, NestWork
  <2> QED
    BY <2>2, <2>3
<1>6. ASSUME NodeAny(t) \/ NodeRun(t) \/ NodeSelf(t)
      PROVE  \E ins : /\ Work(t, {Top(t)}, ins)
                      /\ \A f \in ins : f.op = "node" /\ f.pc \in {"run", "swap"}
  <2>1. stack[t] # <<>> /\ Top(t).op = "node"
    BY <1>6 DEF NodeAny, NodeRun, NodeSelf, Is
  <2>2. \/ Return(t) \/ GoOn(t, [Top(t) EXCEPT !.pc = "run"])
        \/ GoOn(t, Visit("swap", ListenNode(Top(t).list[2])))
    BY <1>6 DEF NodeAny, NodeRun, NodeSelf
  <2>3. CASE Return(t)
    <3>1. Work(t, {Top(t)}, {})
      BY <2>1, <2>3, ReturnWork
    <3> QED
      BY <3>1
  <2>4. CASE GoOn(t, [Top(t) EXCEPT !.pc = "run"])
    <3>1. GoOn(t, Visit("run", Top(t).list)) /\ Top(t).list \in Node /\ "run" \in NodePc
      BY <2>1, <2>4, NodeTop DEF NodePc
    <3> DEFINE f == Visit("run", Top(t).list)
    <3>2. Work(t, {Top(t)}, {f}) /\ f.op = "node" /\ f.pc = "run"
      BY <1>1, <2>1, <3>1 DEF Over
    <3> HIDE DEF f
    <3> QED
      BY <3>2
  <2>5. CASE GoOn(t, Visit("swap", ListenNode(Top(t).list[2])))
    <3>1. ListenNode(Top(t).list[2]) \in Node /\ "swap" \in NodePc
      BY <2>1, NodeTop DEF NodePc
    <3> DEFINE f == Visit("swap", ListenNode(Top(t).list[2]))
    <3>2. Work(t, {Top(t)}, {f}) /\ f.op = "node" /\ f.pc = "swap"
      BY <1>1, <2>1, <2>5, <3>1 DEF Over
    <3> HIDE DEF f
    <3> QED
      BY <3>2
  <2> QED
    BY <2>2, <2>3, <2>4, <2>5
<1> QED
  BY <1>2, <1>3, <1>4, <1>5, <1>6

LEMMA EndIs ==
  ASSUME Placed, NEW t \in Thread, stack[t] # <<>>, Top(t).op = "end"
  PROVE  /\ Top(t) \in FrameSet /\ Top(t) \in Frames(stack)
         /\ Top(t).pc \in EndPc \cup ListPc
         /\ Top(t).pc = "batch" => Top(t).list \in Seq(Sink)
         /\ Top(t).pc = "clear" => Top(t).list \in Seq(Item)
         /\ Top(t).pc = "posted" => Top(t).list \in Seq(Nat)
         /\ \A f \in FrameSet : f.op = "end" /\ GoOn(t, f) => Over(t, f)
<1>1. Top(t) \in FrameSet /\ Top(t) \in Frames(stack)
  BY StackIs
<1>2. \A f \in FrameSet : f.op = "end" /\ GoOn(t, f) => Over(t, f)
  BY GoOnWork DEF Over
<1> QED
  BY <1>1, <1>2, FrameKinds

LEMMA EndFrames ==
  /\ \A pc \in EndPc : End(pc, <<>>) \in FrameSet
  /\ \A list \in Seq(Sink) : End("batch", list) \in FrameSet
  /\ \A list \in Seq(Item) : End("clear", list) \in FrameSet
  /\ \A list \in Seq(Nat) : End("posted", list) \in FrameSet
  /\ \A pc, list : End(pc, list).op = "end" /\ End(pc, list).pc = pc /\ End(pc, list).list = list
BY MakeFrames DEF End

LEMMA EndWork ==
  ASSUME Placed, Data, NEW t \in Thread
  PROVE  /\ EndCount(t) => Over(t, End("take", <<>>))
         /\ EndTake(t) \/ EndBatch(t) =>
              \E ins : /\ Work(t, {Top(t)}, ins)
                       /\ \A f \in ins : \/ f.op = "end" /\ f.pc \in {"take", "batch", "uncount"}
                                         \/ f.op = "node" /\ f.pc = "swap"
         /\ EndUncount(t) => Over(t, End("pre_post", <<>>))
         /\ EndPrePost(t) => Over(t, End("clear", prePost))
         /\ EndClear(t) /\ Top(t).list = <<>> => Over(t, End("post", <<>>))
         /\ EndClear(t) /\ Top(t).list # <<>> => Over(t, End("clear", Tail(Top(t).list)))
         /\ EndPost(t) => Over(t, End("posted", post))
         /\ EndPosted(t) /\ Top(t).list = <<>> => Over(t, End("release", <<>>))
         /\ EndPosted(t) /\ Top(t).list # <<>> => Over(t, End("posted", Tail(Top(t).list)))
         /\ EndRelease(t) => Work(t, {Top(t)}, {})
<1>1. ASSUME stack[t] # <<>>, Top(t).op = "end", NEW f \in FrameSet, f.op = "end", GoOn(t, f)
      PROVE  Over(t, f)
  BY <1>1, EndIs
<1>2. EndCount(t) => Over(t, End("take", <<>>))
  BY <1>1, EndFrames DEF EndCount, Is, EndPc
<1>3. ASSUME EndTake(t)
      PROVE  \E ins : /\ Work(t, {Top(t)}, ins)
                      /\ \A f \in ins : f.op = "end" /\ f.pc \in {"take", "batch", "uncount"}
  <2> DEFINE f == IF changedNodes = <<>> THEN End("uncount", <<>>) ELSE End("batch", changedNodes)
  <2>1. stack[t] # <<>> /\ Top(t).op = "end" /\ GoOn(t, f)
    BY <1>3 DEF EndTake, Is
  <2>2. f \in FrameSet /\ f.op = "end" /\ f.pc \in {"batch", "uncount"}
    BY EndFrames DEF Data, EndPc
  <2> HIDE DEF f
  <2>3. Work(t, {Top(t)}, {f})
    BY <1>1, <2>1, <2>2 DEF Over
  <2> QED
    BY <2>2, <2>3
<1>4. ASSUME EndBatch(t)
      PROVE  \E ins : /\ Work(t, {Top(t)}, ins)
                      /\ \A f \in ins : \/ f.op = "end" /\ f.pc \in {"take", "batch", "uncount"}
                                        \/ f.op = "node" /\ f.pc = "swap"
  <2> DEFINE list == Top(t).list
  <2>1. stack[t] # <<>> /\ Top(t).op = "end" /\ Top(t).pc = "batch"
    BY <1>4 DEF EndBatch, Is
  <2>2. list \in Seq(Sink)
    BY <2>1, EndIs
  <2>3. CASE list = <<>>
    <3> DEFINE f == End("take", <<>>)
    <3>1. GoOn(t, f)
      BY <1>4, <2>3 DEF EndBatch
    <3>2. f \in FrameSet /\ f.op = "end" /\ f.pc = "take"
      BY EndFrames DEF EndPc
    <3> HIDE DEF f
    <3>3. Work(t, {Top(t)}, {f})
      BY <1>1, <2>1, <3>1, <3>2 DEF Over
    <3> QED
      BY <3>2, <3>3
  <2>4. CASE list # <<>>
    <3> DEFINE f == End("batch", Tail(list))
               g == Visit("swap", SinkNode(Head(list)))
    <3>1. Nest(t, f, g)
      BY <1>4, <2>4 DEF EndBatch
    <3>2. Head(list) \in Sink /\ Tail(list) \in Seq(Sink)
      BY <2>2, <2>4, HeadTailProperties
    <3>3. /\ f \in FrameSet /\ f.op = "end" /\ f.pc = "batch"
          /\ g \in FrameSet /\ g.op = "node" /\ g.pc = "swap"
      <4>1. SinkNode(Head(list)) \in Node
        BY <3>2 DEF SinkNode, Node
      <4> QED
        BY <3>2, <4>1, EndFrames, MakeFrames DEF Visit, NodePc
    <3> HIDE DEF f, g
    <3>4. Inner(f) /\ Batch(f)
      BY <3>3 DEF Inner, Batch
    <3>5. Work(t, {Top(t)}, {f, g})
      BY <2>1, <3>1, <3>3, <3>4, NestWork
    <3> QED
      BY <3>3, <3>5
  <2> QED
    BY <2>3, <2>4
<1>5. EndUncount(t) => Over(t, End("pre_post", <<>>))
  BY <1>1, EndFrames DEF EndUncount, Is, EndPc
<1>6. EndPrePost(t) => Over(t, End("clear", prePost))
  BY <1>1, EndFrames DEF EndPrePost, Is, Data
<1>7. EndClear(t) /\ Top(t).list = <<>> => Over(t, End("post", <<>>))
  BY <1>1, EndFrames DEF EndClear, Is, EndPc
<1>8. ASSUME EndClear(t), Top(t).list # <<>>
      PROVE  Over(t, End("clear", Tail(Top(t).list)))
  <2>1. /\ stack[t] # <<>> /\ Top(t).op = "end" /\ Top(t).pc = "clear"
        /\ GoOn(t, End("clear", Tail(Top(t).list)))
    BY <1>8 DEF EndClear, Is
  <2>2. Tail(Top(t).list) \in Seq(Item)
    BY <1>8, <2>1, EndIs, HeadTailProperties
  <2> QED
    BY <1>1, <2>1, <2>2, EndFrames
<1>9. EndPost(t) => Over(t, End("posted", post))
  BY <1>1, EndFrames DEF EndPost, Is, Data
<1>10. EndPosted(t) /\ Top(t).list = <<>> => Over(t, End("release", <<>>))
  BY <1>1, EndFrames DEF EndPosted, Is, EndPc
<1>11. ASSUME EndPosted(t), Top(t).list # <<>>
       PROVE  Over(t, End("posted", Tail(Top(t).list)))
  <2>1. /\ stack[t] # <<>> /\ Top(t).op = "end" /\ Top(t).pc = "posted"
        /\ GoOn(t, End("posted", Tail(Top(t).list)))
    BY <1>11 DEF EndPosted, Is
  <2>2. Tail(Top(t).list) \in Seq(Nat)
    BY <1>11, <2>1, EndIs, HeadTailProperties
  <2> QED
    BY <1>1, <2>1, <2>2, EndFrames
<1>12. EndRelease(t) => Work(t, {Top(t)}, {})
  BY ReturnWork DEF EndRelease, Is
<1> QED
  BY <1>2, <1>3, <1>4, <1>5, <1>6, <1>7, <1>8, <1>9, <1>10, <1>11, <1>12

(* The calls of the program, and how they end.  Scopes are their frames.   *)
Scope(f) == f.op \in {"closure", "object", "unwind"} /\ f.pc # "posted"

LEMMA ScopeWork ==
  ASSUME Placed, NEW t \in Thread
  PROVE  /\ Enter(t, "closure") \/ Enter(t, "object") \/ PanicBody(t) =>
              \E f : Scope(f) /\ Work(t, {}, {f})
         /\ LeaveScope(t) \/ Close(t) \/ UnwindObject(t) \/ SendLeave(t) =>
              /\ depth' = depth - 1
              /\ \E outs, ins :
                   /\ \A f \in outs : \/ Scope(f)
                                      \/ f = Top(t) /\ f.op = "send" /\ f.pc = "leave"
                   /\ \A f \in ins : Scope(f)
                   /\ depth = 1 => /\ Work(t, outs, ins \cup {Counting})
                                   /\ Counting \in Frames(stack')
                   /\ depth # 1 => Work(t, outs, ins)
         /\ Closed(t) \/ Unwound(t) => Scope(Top(t)) /\ Work(t, {Top(t)}, {})
<1>1. ASSUME Enter(t, "closure") \/ Enter(t, "object") \/ PanicBody(t)
      PROVE  \E f : Scope(f) /\ Work(t, {}, {f})
  <2>1. PICK f \in {Open("closure"), Open("object"), Unwinding} : Calls(t, Append(stack[t], f))
    BY <1>1 DEF Enter, PanicBody
  <2>2. Runs(t)
    BY <1>1 DEF Enter, PanicBody
  <2>3. f \in FrameSet /\ Scope(f) /\ f.op # "node"
    BY MakeFrames DEF Open, Unwinding, Scope
  <2>4. Work(t, {}, {f})
    BY <2>1, <2>2, <2>3, CallWork
  <2> QED
    BY <2>3, <2>4
<1>2. ASSUME LeaveScope(t) \/ SendLeave(t)
      PROVE  /\ depth' = depth - 1
             /\ \/ Scope(Top(t))
                \/ Top(t).op = "send" /\ Top(t).pc = "leave"
             /\ depth = 1 => Work(t, {Top(t)}, {} \cup {Counting}) /\ Counting \in Frames(stack')
             /\ depth # 1 => Work(t, {Top(t)}, {})
  <2>1. stack[t] # <<>> /\ Leave(t, Below(t))
    BY <1>2 DEF LeaveScope, SendLeave, Is
  <2>2. \/ Scope(Top(t))
        \/ Top(t).op = "send" /\ Top(t).pc = "leave"
    <3>1. CASE LeaveScope(t)
      <4>1. Top(t).pc = "open" /\ Top(t) \in FrameSet
        BY <2>1, <3>1, StackIs DEF LeaveScope
      <4>2. Top(t).op \in {"closure", "object"}
        BY <4>1, FrameKinds DEF EndPc, ListPc, SendPc, NodePc
      <4> QED
        BY <4>1, <4>2 DEF Scope
    <3>2. CASE SendLeave(t)
      BY <3>2 DEF SendLeave, Is
    <3> QED
      BY <1>2, <3>1, <3>2
  <2>3. /\ Reworked(stack[t], Below(t), {Top(t)}, {}) /\ Order(Below(t))
        /\ Below(t) # <<>> => Inner(Below(t)[Len(Below(t))])
    BY <2>1, StackIs
  <2> DEFINE q == Below(t)
             outs == {Top(t)}
             ins == {}
  <2>4. /\ Reworked(stack[t], q, outs, ins) /\ Order(q)
        /\ q # <<>> => Inner(q[Len(q)])
        /\ Leave(t, q)
    BY <2>1, <2>3
  <2> HIDE DEF q, outs, ins
  <2>5. /\ depth' = depth - 1
        /\ depth = 1 => Work(t, outs, ins \cup {Counting}) /\ Counting \in Frames(stack')
        /\ depth # 1 => Work(t, outs, ins)
    BY <2>4, LeaveWork
  <2> QED
    BY <2>2, <2>5 DEF outs, ins
<1>3. ASSUME Close(t)
      PROVE  /\ depth' = depth - 1
             /\ \E f : /\ Scope(f) /\ Scope(Top(t))
                       /\ depth = 1 => /\ Work(t, {Top(t)}, {f} \cup {Counting})
                                       /\ Counting \in Frames(stack')
                       /\ depth # 1 => Work(t, {Top(t)}, {f})
  <2> DEFINE f == [op |-> "object", pc |-> "closing", list |-> <<>>]
             q == Append(Below(t), f)
  <2>1. stack[t] # <<>> /\ Top(t).op = "object" /\ Top(t).pc = "open" /\ Top(t) \in FrameSet
    BY <1>3, StackIs DEF Close, Is
  <2>2. Leave(t, q)
    BY <1>3, <2>1, FrameGoesOn DEF Close
  <2>3. f \in FrameSet /\ Scope(f) /\ Scope(Top(t)) /\ Inner(f) /\ f.op # "node"
    BY <2>1, MakeFrames DEF Scope, Inner
  <2> HIDE DEF f
  <2>4. /\ Reworked(stack[t], q, {Top(t)}, {f}) /\ Order(q)
        /\ q \in Seq(FrameSet) /\ Len(q) = Len(stack[t]) /\ q[Len(stack[t])] = f
    BY <2>1, <2>3, OverTop
  <2> HIDE DEF q
  <2>5. /\ depth' = depth - 1
        /\ depth = 1 => Work(t, {Top(t)}, {f} \cup {Counting}) /\ Counting \in Frames(stack')
        /\ depth # 1 => Work(t, {Top(t)}, {f})
    <3>1. q # <<>> => Inner(q[Len(q)])
      BY <2>3, <2>4
    <3> QED
      BY <2>2, <2>4, <3>1, LeaveWork
  <2> QED
    BY <2>3, <2>5
<1>4. ASSUME UnwindObject(t)
      PROVE  /\ depth' = depth - 1
             /\ Scope(Top(t)) /\ Scope(Stopped(t)) /\ Scope(Unwinding)
             /\ depth = 1 => /\ Work(t, {Top(t), Stopped(t)}, {Unwinding} \cup {Counting})
                             /\ Counting \in Frames(stack')
             /\ depth # 1 => Work(t, {Top(t), Stopped(t)}, {Unwinding})
  <2> DEFINE r == Rest(t)
             q == Append(r, Unwinding)
             outs == {Top(t), Stopped(t)}
  <2>1. stack[t] # <<>> /\ Top(t).op = "unwind" /\ Len(stack[t]) - 1 > 0
        /\ Stopped(t).op = "object"
    BY <1>4 DEF UnwindObject, Is, Stopped
  <2>2. /\ r \in Seq(FrameSet) /\ Order(r) /\ (r # <<>> => Inner(r[Len(r)]))
        /\ Reworked(stack[t], r, outs, {})
        /\ r = SubSeq(stack[t], 1, Len(stack[t]) - 1 - 1)
        /\ Stopped(t) \in FrameSet /\ Top(t) \in FrameSet
    BY <2>1, RestIs, StackIs
  <2>3. Leave(t, q)
    BY <1>4, <2>2 DEF UnwindObject
  <2>4. Scope(Top(t)) /\ Scope(Stopped(t))
    BY <2>1, <2>2, FrameKinds DEF Scope
  <2>5. Unwinding \in FrameSet /\ Unwinding.op = "unwind" /\ Scope(Unwinding) /\ Inner(Unwinding)
    BY MakeFrames DEF Unwinding, Scope, Inner
  <2> HIDE DEF r, outs
  <2>6. Order(q) /\ Reworked(stack[t], q, outs, {Unwinding})
    <3>1. Order(q)
      BY <2>2, <2>5, OrderAppend
    <3>2. outs \cup {} = outs /\ {} \cup {Unwinding} = {Unwinding}
      OBVIOUS
    <3>3. Reworked(stack[t], q, outs \cup {}, {} \cup {Unwinding})
      BY <2>2, <2>5, ReworkedAppend, ReworkedTwice
    <3> QED
      BY <3>1, <3>2, <3>3
  <2>7. q[Len(q)] = Unwinding
    BY <2>2, <2>5, AppendProperties
  <2> HIDE DEF q
  <2>8. /\ depth' = depth - 1
        /\ depth = 1 => Work(t, outs, {Unwinding} \cup {Counting}) /\ Counting \in Frames(stack')
        /\ depth # 1 => Work(t, outs, {Unwinding})
    <3>1. q # <<>> => Inner(q[Len(q)])
      BY <2>5, <2>7
    <3> QED
      BY <2>3, <2>6, <3>1, LeaveWork
  <2> QED
    BY <2>4, <2>5, <2>8 DEF outs
<1>5. ASSUME LeaveScope(t) \/ Close(t) \/ UnwindObject(t) \/ SendLeave(t)
      PROVE  /\ depth' = depth - 1
             /\ \E outs, ins :
                  /\ \A f \in outs : \/ Scope(f)
                                     \/ f = Top(t) /\ f.op = "send" /\ f.pc = "leave"
                  /\ \A f \in ins : Scope(f)
                  /\ depth = 1 => /\ Work(t, outs, ins \cup {Counting})
                                  /\ Counting \in Frames(stack')
                  /\ depth # 1 => Work(t, outs, ins)
  <2>1. CASE LeaveScope(t) \/ SendLeave(t)
    BY <1>2, <2>1
  <2>2. CASE Close(t)
    <3>1. PICK f : /\ Scope(f) /\ Scope(Top(t))
                   /\ depth = 1 => /\ Work(t, {Top(t)}, {f} \cup {Counting})
                                   /\ Counting \in Frames(stack')
                   /\ depth # 1 => Work(t, {Top(t)}, {f})
      BY <1>3, <2>2
    <3> QED
      BY <1>3, <2>2, <3>1
  <2>3. CASE UnwindObject(t)
    <3> DEFINE outs == {Top(t), Stopped(t)}
               ins == {Unwinding}
    <3>1. /\ \A f \in outs : Scope(f)
          /\ \A f \in ins : Scope(f)
          /\ depth = 1 => Work(t, outs, ins \cup {Counting}) /\ Counting \in Frames(stack')
          /\ depth # 1 => Work(t, outs, ins)
      BY <1>4, <2>3
    <3> HIDE DEF outs, ins
    <3> QED
      BY <1>4, <2>3, <3>1
  <2> QED
    BY <1>5, <2>1, <2>2, <2>3
<1>6. ASSUME Closed(t) \/ Unwound(t)
      PROVE  Scope(Top(t)) /\ Work(t, {Top(t)}, {})
  <2>1. stack[t] # <<>> /\ Return(t) /\ Top(t).op \in {"object", "unwind"}
    BY <1>6 DEF Closed, Unwound, Is
  <2>2. Scope(Top(t))
    BY <2>1, StackIs, FrameKinds DEF Scope
  <2> QED
    BY <2>1, <2>2, ReturnWork
<1> QED
  BY <1>1, <1>5, <1>6

LEMMA PanicWork ==
  ASSUME Placed, NEW t \in Thread
  PROVE  /\ PanicHandler(t) => Over(t, Unwinding)
         /\ PanicPosted(t) =>
              /\ Work(t, {Top(t)}, {End("posted", Tail(Top(t).list)), Unwinding})
              /\ stack'[t] = Append(Append(Below(t), End("posted", Tail(Top(t).list))), Unwinding)
<1>1. Unwinding \in FrameSet /\ Unwinding.op = "unwind"
  BY MakeFrames DEF Unwinding
<1>2. PanicHandler(t) => Over(t, Unwinding)
  BY <1>1, GoOnWork DEF PanicHandler, Is, Over
<1>3. ASSUME PanicPosted(t)
      PROVE  /\ Work(t, {Top(t)}, {End("posted", Tail(Top(t).list)), Unwinding})
             /\ stack'[t] = Append(Append(Below(t), End("posted", Tail(Top(t).list))), Unwinding)
  <2> DEFINE f == End("posted", Tail(Top(t).list))
  <2>1. /\ stack[t] # <<>> /\ Top(t).op = "end" /\ Top(t).pc = "posted"
        /\ Top(t).list # <<>> /\ Nest(t, f, Unwinding)
    BY <1>3 DEF PanicPosted, Is
  <2>2. Tail(Top(t).list) \in Seq(Nat)
    BY <2>1, EndIs, HeadTailProperties
  <2>3. f \in FrameSet /\ f.op = "end" /\ f.pc = "posted"
    BY <2>2, EndFrames
  <2> HIDE DEF f
  <2>4. Inner(f)
    BY <2>3 DEF Inner
  <2>5. /\ Work(t, {Top(t)}, {f, Unwinding})
        /\ stack'[t] = Append(Append(Below(t), f), Unwinding)
    BY <1>1, <2>1, <2>3, <2>4, NestWork
  <2> QED
    BY <2>5 DEF f
<1> QED
  BY <1>2, <1>3

-----------------------------------------------------------------------------
(* Types *)

LEMMA TypeKeeps ==
  ASSUME TypeInv, NEW t \in Thread, NEW outs, NEW ins, Work(t, outs, ins),
         Data', 1 .. sends \subseteq 1 .. sends',
         \A f \in ins : f.op = "send" => f.list[2] \in 1 .. sends'
  PROVE  TypeInv'
<1>1. Frames(stack') \subseteq Frames(stack) \cup ins
  BY WorkFrames DEF TypeInv
<1>2. \A f \in Frames(stack') : f.op = "send" => f.list[2] \in 1 .. sends'
  BY <1>1 DEF TypeInv
<1> QED
  BY <1>2 DEF TypeInv, Work

LEMMA SendTypes ==
  ASSUME TypeInv, NEW t \in Thread,
         SendMark(t) \/ SendPush(t) \/ SendFire(t) \/ SendFlag(t) \/ SendQueue(t)
  PROVE  TypeInv'
<1> DEFINE s == Top(t).list[1]
           e == Top(t).list[2]
<1>1. Placed /\ Data
  BY DEF TypeInv
<1>2. stack[t] # <<>> /\ Top(t).op = "send"
  BY DEF SendMark, SendPush, SendFire, SendFlag, SendQueue, Is
<1>3. s \in Sink /\ e \in 1 .. sends
  BY <1>1, <1>2, SendTop DEF TypeInv
<1>4. ASSUME NEW f, Over(t, f), f.list[2] = e, Data', sends' = sends
      PROVE  TypeInv'
  BY <1>3, <1>4, TypeKeeps DEF Over
<1>5. \A pc, list : Sending(pc, list).list = list
  BY DEF Sending
<1>6. CASE SendMark(t)
  <2>1. Data' /\ sends' = sends
    BY <1>1, <1>3, <1>6 DEF SendMark, Data, queues, calls, closures, events, lost
  <2> QED
    BY <1>1, <1>4, <1>5, <1>6, <2>1, SendWork
<1>7. CASE SendPush(t)
  <2>1. changedNodes' \in Seq(Sink)
    BY <1>1, <1>3, <1>7, AppendProperties DEF SendPush, Data
  <2>2. Data' /\ sends' = sends
    BY <1>1, <1>7, <2>1 DEF SendPush, Data, flags, calls, closures, events, lost
  <2> QED
    BY <1>1, <1>4, <1>5, <1>7, <2>2, SendWork
<1>8. CASE SendFire(t)
  <2>1. firing' \in [Sink -> 0 .. sends] /\ replaced' \subseteq 1 .. sends
    <3>1. /\ firing \in [Sink -> 0 .. sends] /\ replaced \subseteq 1 .. sends /\ sends \in Nat
          /\ firing' = [firing EXCEPT ![s] = e]
          /\ replaced' = replaced \cup ({firing[s]} \ {0})
      BY <1>1, <1>8, SharedAssumption DEF SendFire, Data
    <3>2. e \in 0 .. sends /\ firing[s] \in 0 .. sends
      BY <1>3, <3>1
    <3>3. \A k \in 0 .. sends : k # 0 => k \in 1 .. sends
      BY <3>1
    <3> QED
      BY <1>3, <3>1, <3>2, <3>3
  <2>2. Data' /\ sends' = sends
    BY <1>1, <1>8, <2>1 DEF SendFire, Data, queues, calls, closures, lost
  <2> DEFINE f == Sending("flag", <<s, e, firing[s] = 0>>)
  <2>3. Over(t, f)
    BY <1>1, <1>8, SendWork
  <2>4. f.list[2] = e
    BY <1>5
  <2> HIDE DEF f
  <2> QED
    BY <1>4, <2>2, <2>3, <2>4
<1>9. CASE SendFlag(t)
  <2>1. Data' /\ sends' = sends
    BY <1>1, <1>3, <1>9 DEF SendFlag, Data, queues, calls, closures, events, lost
  <2> QED
    BY <1>1, <1>4, <1>5, <1>9, <2>1, SendWork
<1>10. CASE SendQueue(t)
  <2>1. prePost' \in Seq(Item)
    <3>1. <<"clear", s>> \in Item
      BY <1>3 DEF Item
    <3> QED
      BY <1>1, <1>10, <3>1, AppendProperties DEF SendQueue, Data
  <2>2. Data' /\ sends' = sends
    BY <1>1, <1>10, <2>1 DEF SendQueue, Data, flags, calls, closures, events, lost
  <2> QED
    BY <1>1, <1>4, <1>5, <1>10, <2>2, SendWork
<1> QED
  BY <1>6, <1>7, <1>8, <1>9, <1>10

LEMMA NodeTypes ==
  ASSUME TypeInv, NEW t \in Thread, NodeStep(t) \/ PanicHandler(t)
  PROVE  TypeInv'
<1> DEFINE n == Top(t).list
           e == firing[Top(t).list[2]]
<1>1. Placed /\ Data
  BY DEF TypeInv
<1>2. stack[t] # <<>> /\ Top(t).op = "node"
  BY DEF NodeStep, NodeSwap, NodeQueue, NodeVisit, NodeAny, NodeRun, NodeSelf, PanicHandler, Is
<1>3. n \in Node /\ n[2] \in Sink /\ (e # 0 => e \in 1 .. sends)
  <2>1. n \in Node /\ n[2] \in Sink
    BY <1>1, <1>2, NodeTop
  <2>2. e \in 0 .. sends /\ sends \in Nat
    BY <1>1, <2>1, SharedAssumption DEF Data
  <2>3. \A k \in 0 .. sends : k # 0 => k \in 1 .. sends
    BY <2>2
  <2> QED
    BY <2>1, <2>2, <2>3
<1>4. ASSUME NEW ins, Work(t, {Top(t)}, ins), \A f \in ins : f.op # "send", Data', sends' = sends
      PROVE  TypeInv'
  BY <1>4, TypeKeeps
<1>5. \A pc, m : Visit(pc, m).op = "node"
  BY DEF Visit
<1>6. CASE NodeSwap(t)
  <2>1. Data' /\ sends' = sends
    BY <1>1, <1>3, <1>6 DEF NodeSwap, Data, queues, calls, closures, events, lost
  <2>2. \E ins : Work(t, {Top(t)}, ins) /\ \A f \in ins : f.op # "send"
    <3>1. CASE visited[n]
      <4>1. Work(t, {Top(t)}, {}) /\ \A f \in {} : f.op # "send"
        BY <1>1, <1>6, <3>1, NodeWork
      <4> QED
        BY <4>1
    <3>2. CASE ~visited[n]
      <4>1. Work(t, {Top(t)}, {Visit("queue", n)})
        BY <1>1, <1>6, <3>2, NodeWork DEF Over
      <4> QED
        BY <1>5, <4>1
    <3> QED
      BY <3>1, <3>2
  <2> QED
    BY <1>4, <2>1, <2>2
<1>7. CASE NodeQueue(t)
  <2>1. prePost' \in Seq(Item)
    <3>1. <<"unvisit", n>> \in Item
      BY <1>3 DEF Item
    <3> QED
      BY <1>1, <1>7, <3>1, AppendProperties DEF NodeQueue, Data
  <2>2. Data' /\ sends' = sends
    BY <1>1, <1>7, <2>1 DEF NodeQueue, Data, flags, calls, closures, events, lost
  <2>3. PICK pc \in NodePc : Work(t, {Top(t)}, {Visit(pc, n)})
    BY <1>1, <1>7, NodeWork DEF Over
  <2> QED
    BY <1>4, <1>5, <2>2, <2>3
<1>8. CASE NodeVisit(t) \/ NodeAny(t) \/ NodeSelf(t)
  <2>1. Data' /\ sends' = sends
    BY <1>1, <1>8
    DEF NodeVisit, NodeAny, NodeSelf, Data, queues, flags, calls, closures, events, lost
  <2>2. \E ins : Work(t, {Top(t)}, ins) /\ \A f \in ins : f.op # "send"
    BY <1>1, <1>8, NodeWork
  <2> QED
    BY <1>4, <2>1, <2>2
<1>9. ASSUME heard' = Append(heard, e), e # 0
      PROVE  heard' \in Seq(Nat) /\ Elements(heard') \subseteq 1 .. sends
  <2>1. e \in Nat /\ heard \in Seq(Nat) /\ Elements(heard) \subseteq 1 .. sends
    BY <1>1, <1>3, <1>9 DEF Data
  <2> QED
    BY <1>3, <1>9, <2>1, AppendProperties, ElementsOf
<1>10. CASE NodeRun(t)
  <2>1. heard' \in Seq(Nat) /\ Elements(heard') \subseteq 1 .. sends
    BY <1>1, <1>9, <1>10 DEF NodeRun, Data
  <2>2. Data' /\ sends' = sends
    BY <1>1, <1>10, <2>1 DEF NodeRun, Data, queues, flags, calls, closures, lost
  <2>3. \E ins : Work(t, {Top(t)}, ins) /\ \A f \in ins : f.op # "send"
    BY <1>1, <1>10, NodeWork
  <2> QED
    BY <1>4, <2>2, <2>3
<1>11. CASE PanicHandler(t)
  <2>1. heard' \in Seq(Nat) /\ Elements(heard') \subseteq 1 .. sends
    BY <1>9, <1>11 DEF PanicHandler
  <2>2. Data' /\ sends' = sends
    BY <1>1, <1>11, <2>1 DEF PanicHandler, Panics, Data, queues, flags, calls, closures, lost
  <2>3. Work(t, {Top(t)}, {Unwinding}) /\ Unwinding.op # "send"
    BY <1>1, <1>11, PanicWork DEF Over, Unwinding
  <2> QED
    BY <1>4, <2>2, <2>3
<1> QED
  BY <1>6, <1>7, <1>8, <1>10, <1>11 DEF NodeStep

LEMMA EndTypes ==
  ASSUME TypeInv, NEW t \in Thread, EndStep(t) \/ PanicPosted(t)
  PROVE  TypeInv'
<1> DEFINE list == Top(t).list
<1>1. Placed /\ Data
  BY DEF TypeInv
<1>2. stack[t] # <<>> /\ Top(t).op = "end"
  BY DEF EndStep, EndCount, EndTake, EndBatch, EndUncount, EndPrePost, EndClear, EndPost,
         EndPosted, EndRelease, PanicPosted, Is
<1>3. ASSUME NEW ins, Work(t, {Top(t)}, ins), \A f \in ins : f.op # "send", Data', sends' = sends
      PROVE  TypeInv'
  BY <1>3, TypeKeeps
<1>4. ASSUME NEW pc, NEW l, Over(t, End(pc, l)), Data', sends' = sends
      PROVE  TypeInv'
  <2> DEFINE f == End(pc, l)
  <2>1. Work(t, {Top(t)}, {f}) /\ f.op # "send"
    BY <1>4, EndFrames DEF Over
  <2> HIDE DEF f
  <2> QED
    BY <1>3, <1>4, <2>1
<1>5. /\ <<>> \in Seq(Sink) /\ <<>> \in Seq(Item) /\ <<>> \in Seq(Nat)
  BY EmptySeq
<1>6. CASE EndCount(t) \/ EndUncount(t)
  <2>1. Data' /\ sends' = sends
    <3>1. /\ depth' \in Int /\ counter' \in Int
          /\ UNCHANGED <<queues, flags, calls, closures, events, lost, aborted>>
      BY <1>1, <1>6 DEF EndCount, EndUncount, Data
    <3> QED
      BY <1>1, <3>1 DEF Data, queues, flags, calls, closures, events, lost
  <2> QED
    BY <1>1, <1>4, <1>6, <2>1, EndWork
<1>7. CASE EndTake(t) \/ EndBatch(t)
  <2>1. Data' /\ sends' = sends
    BY <1>1, <1>5, <1>7 DEF EndTake, EndBatch, Data, queues, flags, calls, closures, events, lost
  <2> QED
    BY <1>1, <1>3, <1>7, <2>1, EndWork
<1>8. CASE EndPrePost(t)
  <2>1. Data' /\ sends' = sends
    BY <1>1, <1>5, <1>8 DEF EndPrePost, Data, flags, calls, closures, events, lost
  <2> QED
    BY <1>1, <1>4, <1>8, <2>1, EndWork
<1>9. CASE EndClear(t)
  <2>1. /\ firing' \in [Sink -> 0 .. sends] /\ changed' \in [Sink -> BOOLEAN]
        /\ visited' \in [Node -> BOOLEAN]
    <3>0. /\ firing \in [Sink -> 0 .. sends] /\ changed \in [Sink -> BOOLEAN]
          /\ visited \in [Node -> BOOLEAN] /\ 0 \in 0 .. sends
      BY <1>1, SharedAssumption DEF Data
    <3>1. CASE list = <<>>
      BY <1>9, <3>0, <3>1 DEF EndClear, flags
    <3>2. CASE list # <<>>
      <4>1. Top(t).pc = "clear" /\ list \in Seq(Item)
        BY <1>1, <1>2, <1>9, EndIs DEF EndClear, Is
      <4>2. Head(list) \in Item
        BY <3>2, <4>1, HeadTailProperties
      <4>3. CASE Head(list)[1] = "clear"
        <5>1. Head(list)[2] \in Sink
          BY <4>2, <4>3 DEF Item
        <5> QED
          BY <1>9, <3>0, <3>2, <4>3, <5>1 DEF EndClear
      <4>4. CASE Head(list)[1] # "clear"
        <5>1. Head(list)[2] \in Node
          BY <4>2, <4>4 DEF Item
        <5> QED
          BY <1>9, <3>0, <3>2, <4>4, <5>1 DEF EndClear
      <4> QED
        BY <4>3, <4>4
    <3> QED
      BY <3>1, <3>2
  <2>2. Data' /\ sends' = sends
    BY <1>1, <1>9, <2>1 DEF EndClear, Data, queues, calls, closures, events, lost
  <2> QED
    BY <1>1, <1>4, <1>9, <2>2, EndWork
<1>10. CASE EndPost(t)
  <2>1. Data' /\ sends' = sends
    BY <1>1, <1>5, <1>10 DEF EndPost, Data, flags, calls, closures, events, lost
  <2> QED
    BY <1>1, <1>4, <1>10, <2>1, EndWork
<1>11. ASSUME list # <<>>, Top(t).pc = "posted", ran' = Append(ran, Head(list))
       PROVE  ran' \in Seq(Nat)
  <2>1. Head(list) \in Nat
    BY <1>1, <1>2, <1>11, EndIs, HeadTailProperties
  <2> QED
    BY <1>1, <1>11, <2>1, AppendProperties DEF Data
<1>12. CASE EndPosted(t)
  <2>1. ran' \in Seq(Nat)
    BY <1>1, <1>11, <1>12 DEF EndPosted, Is, Data
  <2>2. Data' /\ sends' = sends
    BY <1>1, <1>12, <2>1 DEF EndPosted, Data, queues, flags, calls, events, lost
  <2> QED
    BY <1>1, <1>4, <1>12, <2>2, EndWork
<1>13. CASE EndRelease(t)
  <2>1. Data' /\ sends' = sends
    BY <1>1, <1>13 DEF EndRelease, Data, queues, flags, calls, closures, events, lost
  <2>2. Work(t, {Top(t)}, {})
    BY <1>1, <1>13, EndWork
  <2> QED
    BY <1>3, <2>1, <2>2
<1>14. CASE PanicPosted(t)
  <2>1. ran' \in Seq(Nat)
    BY <1>11, <1>14 DEF PanicPosted, Is
  <2>2. Data' /\ sends' = sends
    BY <1>1, <1>14, <2>1 DEF PanicPosted, Panics, Data, queues, flags, calls, events, lost
  <2> DEFINE ins == {End("posted", Tail(list)), Unwinding}
  <2>3. Work(t, {Top(t)}, ins) /\ \A f \in ins : f.op # "send"
    BY <1>1, <1>14, PanicWork, EndFrames DEF Unwinding
  <2> HIDE DEF ins
  <2> QED
    BY <1>3, <2>2, <2>3
<1> QED
  BY <1>6, <1>7, <1>8, <1>9, <1>10, <1>12, <1>13, <1>14 DEF EndStep

LEMMA ScopeTypes ==
  ASSUME TypeInv, NEW t \in Thread,
         \/ Enter(t, "closure") \/ Enter(t, "object") \/ PanicBody(t)
         \/ LeaveScope(t) \/ Close(t) \/ UnwindObject(t) \/ SendLeave(t)
         \/ Closed(t) \/ Unwound(t)
  PROVE  TypeInv'
<1>1. Placed /\ Data
  BY DEF TypeInv
<1>2. ASSUME NEW outs, NEW ins, Work(t, outs, ins), \A f \in ins : f.op # "send",
             Data', sends' = sends
      PROVE  TypeInv'
  BY <1>2, TypeKeeps
<1>3. Counting.op # "send"
  BY DEF Counting, End
<1>4. \A f : Scope(f) => f.op # "send"
  BY DEF Scope
<1>5. CASE Enter(t, "closure") \/ Enter(t, "object") \/ PanicBody(t)
  <2>1. opens' \in 0 .. MaxOpens
    <3>1. opens \in 0 .. MaxOpens /\ MaxOpens \in Nat
      BY <1>1, SharedAssumption DEF Data
    <3>2. opens' = opens \/ (opens < MaxOpens /\ opens' = opens + 1)
      BY <1>5 DEF Enter, PanicBody, calls
    <3> QED
      BY <3>1, <3>2
  <2>2. Data' /\ sends' = sends
    <3>1. CASE Enter(t, "closure") \/ Enter(t, "object")
      <4>1. /\ depth' \in Int /\ opens' \in 0 .. MaxOpens
            /\ UNCHANGED <<counter, queues, flags, sends, posts, inside, closures, events, aborted>>
        BY <1>1, <2>1, <3>1 DEF Enter, Data
      <4> QED
        BY <1>1, <4>1 DEF Data, queues, flags, closures, events
    <3>2. CASE PanicBody(t)
      BY <1>1, <3>2 DEF PanicBody, Panics, Data, queues, flags, calls, closures, events, lost
    <3> QED
      BY <1>5, <3>1, <3>2
  <2>3. PICK f : Scope(f) /\ Work(t, {}, {f})
    BY <1>1, <1>5, ScopeWork
  <2> QED
    BY <1>2, <1>4, <2>2, <2>3
<1>6. CASE LeaveScope(t) \/ Close(t) \/ UnwindObject(t) \/ SendLeave(t)
  <2>1. Data' /\ sends' = sends
    <3>1. depth' = depth - 1
      BY <1>1, <1>6, ScopeWork
    <3>2. /\ depth' \in Int
          /\ UNCHANGED <<counter, queues, flags, calls, closures, events, lost, aborted>>
      BY <1>1, <1>6, <3>1 DEF LeaveScope, Close, UnwindObject, SendLeave, Data
    <3> QED
      BY <1>1, <3>2 DEF Data, queues, flags, calls, closures, events, lost
  <2>2. PICK outs, ins :
          /\ \A f \in ins : Scope(f)
          /\ depth = 1 => Work(t, outs, ins \cup {Counting})
          /\ depth # 1 => Work(t, outs, ins)
    BY <1>1, <1>6, ScopeWork
  <2>3. CASE depth = 1
    <3> DEFINE more == ins \cup {Counting}
    <3>1. Work(t, outs, more) /\ \A f \in more : f.op # "send"
      BY <1>3, <1>4, <2>2, <2>3
    <3> HIDE DEF more
    <3> QED
      BY <1>2, <2>1, <3>1
  <2>4. CASE depth # 1
    BY <1>2, <1>4, <2>1, <2>2, <2>4
  <2> QED
    BY <2>3, <2>4
<1>7. CASE Closed(t) \/ Unwound(t)
  <2>1. Data' /\ sends' = sends
    BY <1>1, <1>7 DEF Closed, Unwound, Data, queues, flags, calls, closures, events, lost
  <2>2. Work(t, {Top(t)}, {})
    BY <1>1, <1>7, ScopeWork
  <2> QED
    BY <1>2, <2>1, <2>2
<1> QED
  BY <1>5, <1>6, <1>7

LEMMA OtherTypes ==
  ASSUME TypeInv, NEW t \in Thread,
         Post(t) \/ (\E s \in Sink : SendBegin(t, s)) \/ UnwindCall(t)
  PROVE  TypeInv'
<1>1. Placed /\ Data
  BY DEF TypeInv
<1>2. /\ sends \in Nat /\ posts \in Nat /\ MaxSends \in Nat /\ MaxPosts \in Nat
      /\ sends \in 0 .. MaxSends /\ posts \in 0 .. MaxPosts
  BY <1>1, SharedAssumption DEF Data
<1>3. CASE Post(t)
  <2>1. posts + 1 \in 0 .. MaxPosts /\ 1 .. posts \subseteq 1 .. posts + 1
        /\ posts + 1 \in 1 .. posts + 1 /\ posts + 1 \in Nat
    BY <1>2, <1>3 DEF Post
  <2>2. post' \in Seq(Nat) /\ posts' = posts + 1 /\ inside' \subseteq 1 .. posts + 1
    <3>1. post' \in Seq(Nat)
      BY <1>1, <1>3, <2>1, AppendProperties DEF Post, Data
    <3> QED
      BY <1>1, <1>3, <2>1, <3>1 DEF Post, Data
  <2>3. Data'
    BY <1>1, <1>3, <2>1, <2>2 DEF Post, Data, flags, closures, events, lost
  <2> QED
    BY <1>3, <2>3 DEF Post, TypeInv, Placed
<1>4. CASE \E s \in Sink : SendBegin(t, s)
  <2>1. PICK s \in Sink : SendBegin(t, s)
    BY <1>4
  <2>2. /\ sends' = sends + 1 /\ sends + 1 \in 0 .. MaxSends /\ sends + 1 \in 1 .. sends + 1
        /\ 0 .. sends \subseteq 0 .. sends + 1 /\ 1 .. sends \subseteq 1 .. sends + 1
    BY <1>2, <2>1 DEF SendBegin
  <2>3. firing \in [Sink -> 0 .. sends + 1]
    BY <1>1, <2>2 DEF Data
  <2>4. Data'
    BY <1>1, <2>1, <2>2, <2>3 DEF SendBegin, Data, queues, flags, closures, events, lost
  <2> DEFINE f == Sending("mark", <<s, sends + 1, FALSE>>)
  <2>5. Work(t, {}, {f})
    BY <2>1, SendBeginWork
  <2>6. f.list[2] = sends + 1
    BY DEF Sending
  <2> HIDE DEF f
  <2> QED
    BY <2>2, <2>4, <2>5, <2>6, TypeKeeps
<1>5. CASE UnwindCall(t)
  <2>1. Data' /\ sends' = sends
    BY <1>1, <1>5 DEF UnwindCall, Data, queues, flags, calls, events
  <2>2. PICK outs, ins : Work(t, outs, ins) /\ \A f \in ins : f.op \in {"unwind", "object"}
    BY <1>1, <1>5, UnwindWork
  <2>3. \A f \in ins : f.op # "send"
    BY <2>2
  <2> QED
    BY <2>1, <2>2, <2>3, TypeKeeps
<1> QED
  BY <1>3, <1>4, <1>5

LEMMA TypeStep == TypeInv /\ [SharedNext]_sharedVars => TypeInv'
<1> SUFFICES ASSUME TypeInv, [SharedNext]_sharedVars
             PROVE  TypeInv'
  OBVIOUS
<1>1. CASE UNCHANGED sharedVars
  BY <1>1 DEF sharedVars, queues, flags, calls, closures, events, lost, TypeInv, Placed, Data
<1>2. CASE SharedNext
  <2>1. PICK t \in Thread :
          \/ Enter(t, "closure") \/ Enter(t, "object")
          \/ LeaveScope(t) \/ Close(t) \/ Post(t)
          \/ \E s \in Sink : SendBegin(t, s)
          \/ CodeStep(t) \/ PanicStep(t)
    BY <1>2 DEF SharedNext
  <2> QED
    BY <2>1, SendTypes, NodeTypes, EndTypes, ScopeTypes, OtherTypes
    DEF CodeStep, PanicStep, SendStep, UnwindStep
<1> QED
  BY <1>1, <1>2

LEMMA TypeStart == SharedInit => TypeInv
<1> SUFFICES ASSUME SharedInit
             PROVE  TypeInv
  OBVIOUS
<1>1. /\ <<>> \in Seq(FrameSet) /\ <<>> \in Seq(Sink) /\ <<>> \in Seq(Item) /\ <<>> \in Seq(Nat)
      /\ Len(<<>>) = 0
  BY EmptySeq
<1>2. \A t \in Thread : stack[t] = <<>>
  BY DEF SharedInit
<1>3. Placed
  <2>1. stack \in Stacks
    BY <1>1 DEF SharedInit, Stacks
  <2>2. Order(<<>>)
    BY <1>1 DEF Order
  <2> QED
    BY <1>2, <2>1, <2>2 DEF Placed
<1>4. Data
  <2>1. Elements(<<>>) = {}
    BY DEF Elements
  <2> QED
    <3>1. /\ 0 \in Int /\ 0 \in 0 .. 0 /\ 0 \in 0 .. MaxOpens
          /\ 0 \in 0 .. MaxSends /\ 0 \in 0 .. MaxPosts
      BY SharedAssumption
    <3>2. /\ visited \in [Node -> BOOLEAN] /\ changed \in [Sink -> BOOLEAN]
          /\ firing \in [Sink -> 0 .. sends]
      BY <3>1 DEF SharedInit
    <3> QED
      BY <1>1, <2>1, <3>1, <3>2 DEF SharedInit, Data
<1>5. Frames(stack) = {}
  BY <1>2 DEF Frames, Elements
<1> QED
  BY <1>3, <1>4, <1>5 DEF TypeInv

-----------------------------------------------------------------------------
(* What was posted *)

LEMMA PartedPost ==
  ASSUME NEW S, NEW P, NEW R, NEW D, NEW H, Parted(S, P, R, D, H), NEW p, p \notin S
  PROVE  Parted(S \cup {p}, P \cup {p}, R, D, H)
<1>1. \A x \in Place : H[x] \subseteq S
  BY DEF Parted
<1>2. P \subseteq S /\ R \subseteq S /\ D \subseteq S
  BY DEF Parted
<1> QED
  BY <1>1, <1>2 DEF Parted

LEMMA PartedTake ==
  ASSUME NEW S, NEW P, NEW R, NEW D, NEW H, Parted(S, P, R, D, H),
         NEW x \in Place, H[x] = {}, NEW G,
         \A y \in Place : G[y] = IF y = x THEN P ELSE H[y]
  PROVE  Parted(S, {}, R, D, G)
<1>1. \A y \in Place : G[y] \cap ({} \cup R \cup D) = {}
  BY DEF Parted
<1>2. \A y, z \in Place : y # z => G[y] \cap G[z] = {}
  BY DEF Parted
<1>3. UNION {G[y] : y \in Place} = P \cup UNION {H[y] : y \in Place}
  <2>1. \A e : (\E y \in Place : e \in G[y]) <=> e \in P \/ \E y \in Place : e \in H[y]
    OBVIOUS
  <2> QED
    BY <2>1
<1> QED
  BY <1>1, <1>2, <1>3 DEF Parted

LEMMA PartedRun ==
  ASSUME NEW S, NEW P, NEW R, NEW D, NEW H, Parted(S, P, R, D, H),
         NEW x \in Place, NEW T, NEW p, H[x] = T \cup {p}, p \notin T, NEW G,
         \A y \in Place : G[y] = IF y = x THEN T ELSE H[y]
  PROVE  Parted(S, P, R \cup {p}, D, G)
<1>1. \A y \in Place : G[y] \cap (P \cup (R \cup {p}) \cup D) = {}
  BY DEF Parted
<1>2. \A y, z \in Place : y # z => G[y] \cap G[z] = {}
  BY DEF Parted
<1>3. {p} \cup UNION {G[y] : y \in Place} = UNION {H[y] : y \in Place}
  <2>1. \A e : e = p \/ (\E y \in Place : e \in G[y]) <=> \E y \in Place : e \in H[y]
    OBVIOUS
  <2> QED
    BY <2>1
<1>4. P \cap ((R \cup {p}) \cup D) = {} /\ (R \cup {p}) \cap D = {}
  BY DEF Parted
<1>5. S = P \cup (R \cup {p}) \cup D \cup UNION {G[y] : y \in Place}
  BY <1>3 DEF Parted
<1> QED
  BY <1>1, <1>2, <1>4, <1>5 DEF Parted

LEMMA PartedDrop ==
  ASSUME NEW S, NEW P, NEW R, NEW D, NEW H, Parted(S, P, R, D, H),
         NEW x \in Place, NEW G,
         \A y \in Place : G[y] = IF y = x THEN {} ELSE H[y]
  PROVE  Parted(S, P, R, D \cup H[x], G)
<1>1. \A y \in Place : G[y] \cap (P \cup R \cup (D \cup H[x])) = {}
  BY DEF Parted
<1>2. \A y, z \in Place : y # z => G[y] \cap G[z] = {}
  BY DEF Parted
<1>3. H[x] \cup UNION {G[y] : y \in Place} = UNION {H[y] : y \in Place}
  <2>1. \A e : e \in H[x] \/ (\E y \in Place : e \in G[y]) <=> \E y \in Place : e \in H[y]
    OBVIOUS
  <2> QED
    BY <2>1
<1>4. P \cap (R \cup (D \cup H[x])) = {} /\ R \cap (D \cup H[x]) = {}
  BY DEF Parted
<1>5. S = P \cup R \cup (D \cup H[x]) \cup UNION {G[y] : y \in Place}
  BY <1>3 DEF Parted
<1> QED
  BY <1>1, <1>2, <1>4, <1>5 DEF Parted

LEMMA RepeatFacts ==
  ASSUME NEW s \in Seq(Nat), NoRepeat(s)
  PROVE  /\ NoRepeat(<<>>) /\ Elements(<<>>) = {}
         /\ \A a \in Nat : a \notin Elements(s) => NoRepeat(Append(s, a))
         /\ s # <<>> => NoRepeat(Tail(s)) /\ Head(s) \notin Elements(Tail(s))
<1>1. NoRepeat(<<>>) /\ Elements(<<>>) = {}
  BY DEF NoRepeat, Elements
<1>2. Len(s) \in Nat /\ DOMAIN s = 1 .. Len(s)
  BY LenProperties
<1>3. ASSUME NEW a \in Nat, a \notin Elements(s)
      PROVE  NoRepeat(Append(s, a))
  <2> DEFINE r == Append(s, a)
             n == Len(s)
  <2>1. /\ r \in Seq(Nat) /\ Len(r) = n + 1 /\ r[n + 1] = a /\ \A i \in 1 .. n : r[i] = s[i]
    BY AppendProperties
  <2>2. DOMAIN r = 1 .. n + 1
    BY <2>1, LenProperties
  <2>3. \A i \in 1 .. n : s[i] # a
    BY <1>2, <1>3 DEF Elements
  <2> HIDE DEF r
  <2>4. \A i, j \in 1 .. n : s[i] = s[j] => i = j
    BY <1>2 DEF NoRepeat
  <2>5. \A i \in 1 .. n + 1 : i = n + 1 \/ i \in 1 .. n
    BY <1>2
  <2>6. \A i, j \in 1 .. n + 1 : r[i] = r[j] => i = j
    BY <2>1, <2>3, <2>4, <2>5
  <2> QED
    BY <2>2, <2>6 DEF NoRepeat, r
<1>4. ASSUME s # <<>>
      PROVE  NoRepeat(Tail(s)) /\ Head(s) \notin Elements(Tail(s))
  <2> DEFINE r == Tail(s)
             n == Len(s)
  <2>1. /\ r \in Seq(Nat) /\ Len(r) = n - 1 /\ \A i \in 1 .. n - 1 : r[i] = s[i + 1]
        /\ Head(s) = s[1]
    BY <1>4, HeadTailProperties
  <2>2. DOMAIN r = 1 .. n - 1 /\ n \in Nat \ {0}
    BY <1>2, <1>4, <2>1, LenProperties, EmptySeq
  <2> HIDE DEF r
  <2>3. \A i, j \in 1 .. n : s[i] = s[j] => i = j
    BY <1>2 DEF NoRepeat
  <2>4. \A i \in 1 .. n - 1 : i + 1 \in 1 .. n /\ i + 1 # 1
    BY <2>2
  <2>5. \A i, j \in 1 .. n - 1 : i + 1 = j + 1 => i = j
    BY <2>2
  <2>6. NoRepeat(r)
    <3>1. ASSUME NEW i \in 1 .. n - 1, NEW j \in 1 .. n - 1, r[i] = r[j]
          PROVE  i = j
      <4>1. s[i + 1] = s[j + 1] /\ i + 1 \in 1 .. n /\ j + 1 \in 1 .. n
        BY <2>1, <2>4, <3>1
      <4>2. i + 1 = j + 1
        BY <2>3, <4>1
      <4> QED
        BY <2>5, <4>2
    <3> QED
      BY <2>2, <3>1 DEF NoRepeat
  <2>7. 1 \in 1 .. n
    BY <2>2
  <2>8. \A i \in 1 .. n - 1 : r[i] # s[1]
    BY <2>1, <2>3, <2>4, <2>7
  <2>9. Head(s) \notin Elements(r)
    BY <2>1, <2>2, <2>8 DEF Elements
  <2> QED
    BY <2>6, <2>9 DEF r
<1> QED
  BY <1>1, <1>3, <1>4

(* The lists after a step that changes the n-th one of t.                  *)
LEMMA HeldMoves ==
  ASSUME NEW t \in Thread, NEW n \in Nat, NEW l,
         \A u \in Thread \ {t} : stack'[u] = stack[u],
         \A i \in Nat : ListAt(stack'[t], i) = IF i = n THEN l ELSE ListAt(stack[t], i)
  PROVE  \A y \in Place : Held'[y] = IF y = <<t, n>> THEN Elements(l) ELSE Held[y]
<1> SUFFICES ASSUME NEW y \in Place
             PROVE  Held'[y] = IF y = <<t, n>> THEN Elements(l) ELSE Held[y]
  OBVIOUS
<1>1. PICK u \in Thread, i \in Nat : y = <<u, i>>
  BY DEF Place
<1>2. Held'[y] = Elements(ListAt(stack'[u], i)) /\ Held[y] = Elements(ListAt(stack[u], i))
  BY <1>1 DEF Held
<1>3. CASE u = t
  BY <1>1, <1>2, <1>3
<1>4. CASE u # t
  BY <1>1, <1>2, <1>4
<1> QED
  BY <1>3, <1>4

LEMMA QuietPosts ==
  ASSUME Placed, PostsInv, NEW t \in Thread, NEW outs, NEW ins, Work(t, outs, ins),
         \A f \in outs \cup ins : Taken(f) = <<>>,
         UNCHANGED <<post, posts, closures>>
  PROVE  PostsInv'
<1>1. \A u \in Thread, i \in Nat : ListAt(stack'[u], i) = ListAt(stack[u], i)
  BY WorkFrames
<1>2. Held' = Held
  <2>1. \A x \in Place : Held'[x] = Held[x]
    BY <1>1 DEF Held, Place
  <2> QED
    BY <2>1 DEF Held
<1>3. post' = post /\ posts' = posts /\ ran' = ran /\ dropped' = dropped
  BY DEF closures
<1> QED
  BY <1>1, <1>2, <1>3 DEF PostsInv, Single

LEMMA Untaken ==
  /\ \A f : f.pc # "posted" => Taken(f) = <<>>
  /\ \A f \in FrameSet : f.op # "end" => f.pc # "posted"
BY FrameKinds DEF Taken, SendPc, NodePc

LEMMA SendPosts ==
  ASSUME TypeInv, PostsInv, NEW t \in Thread,
         SendMark(t) \/ SendPush(t) \/ SendFire(t) \/ SendFlag(t) \/ SendQueue(t)
  PROVE  PostsInv'
<1>1. Placed
  BY DEF TypeInv
<1>2. stack[t] # <<>> /\ Top(t).op = "send"
  BY DEF SendMark, SendPush, SendFire, SendFlag, SendQueue, Is
<1>3. Taken(Top(t)) = <<>>
  BY <1>1, <1>2, StackIs, Untaken
<1>4. UNCHANGED <<post, posts, closures>>
  BY DEF SendMark, SendPush, SendFire, SendFlag, SendQueue, queues, calls
<1>5. ASSUME NEW pc \in SendPc, NEW list, Over(t, Sending(pc, list))
      PROVE  PostsInv'
  <2> DEFINE f == Sending(pc, list)
  <2>1. f.pc = pc /\ pc # "posted"
    BY DEF Sending, SendPc
  <2>2. Taken(f) = <<>>
    BY <2>1, Untaken
  <2> HIDE DEF f
  <2>3. Work(t, {Top(t)}, {f}) /\ \A g \in {Top(t)} \cup {f} : Taken(g) = <<>>
    BY <1>3, <1>5, <2>2 DEF Over, f
  <2> QED
    BY <1>1, <1>4, <2>3, QuietPosts
<1>6. {"push", "fire", "flag", "queue", "leave"} \subseteq SendPc
  BY DEF SendPc
<1>7. CASE SendMark(t) \/ SendPush(t) \/ SendQueue(t)
  BY <1>1, <1>5, <1>6, <1>7, SendWork
<1>8. CASE SendFire(t)
  <2> DEFINE list == <<Top(t).list[1], Top(t).list[2], firing[Top(t).list[1]] = 0>>
  <2>1. Over(t, Sending("flag", list))
    BY <1>1, <1>8, SendWork
  <2> HIDE DEF list
  <2> QED
    BY <1>5, <1>6, <2>1
<1>9. CASE SendFlag(t)
  <2> DEFINE pc == IF Top(t).list[3] THEN "queue" ELSE "leave"
  <2>1. Over(t, Sending(pc, Top(t).list)) /\ pc \in SendPc
    BY <1>1, <1>6, <1>9, SendWork
  <2> HIDE DEF pc
  <2> QED
    BY <1>5, <2>1
<1> QED
  BY <1>7, <1>8, <1>9

LEMMA NodePosts ==
  ASSUME TypeInv, PostsInv, NEW t \in Thread, NodeStep(t) \/ PanicHandler(t)
  PROVE  PostsInv'
<1>1. Placed
  BY DEF TypeInv
<1>2. stack[t] # <<>> /\ Top(t).op = "node"
  BY DEF NodeStep, NodeSwap, NodeQueue, NodeVisit, NodeAny, NodeRun, NodeSelf, PanicHandler, Is
<1>3. Taken(Top(t)) = <<>>
  BY <1>1, <1>2, StackIs, Untaken
<1>4. UNCHANGED <<post, posts, closures>>
  BY DEF NodeStep, NodeSwap, NodeQueue, NodeVisit, NodeAny, NodeRun, NodeSelf, PanicHandler,
         queues, calls
<1>5. ASSUME NEW ins, Work(t, {Top(t)}, ins), \A f \in ins : f.pc # "posted"
      PROVE  PostsInv'
  <2>1. \A g \in {Top(t)} \cup ins : Taken(g) = <<>>
    BY <1>3, <1>5, Untaken
  <2> QED
    BY <1>1, <1>4, <1>5, <2>1, QuietPosts
<1>6. ASSUME NEW f, Over(t, f), f.pc # "posted"
      PROVE  PostsInv'
  BY <1>5, <1>6 DEF Over
<1>7. \A pc \in NodePc : \A n : Visit(pc, n).pc # "posted"
  BY DEF Visit, NodePc
<1>8. CASE NodeSwap(t)
  <2>1. CASE visited[Top(t).list]
    <3>1. Work(t, {Top(t)}, {}) /\ \A f \in {} : f.pc # "posted"
      BY <1>1, <1>8, <2>1, NodeWork
    <3> QED
      BY <1>5, <3>1
  <2>2. CASE ~visited[Top(t).list]
    <3>1. Over(t, Visit("queue", Top(t).list)) /\ "queue" \in NodePc
      BY <1>1, <1>8, <2>2, NodeWork DEF NodePc
    <3> QED
      BY <1>6, <1>7, <3>1
  <2> QED
    BY <2>1, <2>2
<1>9. CASE NodeQueue(t)
  <2>1. PICK pc \in NodePc : Over(t, Visit(pc, Top(t).list))
    BY <1>1, <1>9, NodeWork
  <2> QED
    BY <1>6, <1>7, <2>1
<1>10. CASE NodeVisit(t) \/ NodeAny(t) \/ NodeRun(t) \/ NodeSelf(t)
  <2>1. PICK ins : Work(t, {Top(t)}, ins) /\ \A f \in ins : f.pc \in {"any", "run", "swap"}
    BY <1>1, <1>10, NodeWork
  <2> QED
    BY <1>5, <2>1
<1>11. CASE PanicHandler(t)
  <2>1. Over(t, Unwinding) /\ Unwinding.pc # "posted"
    BY <1>1, <1>11, PanicWork DEF Unwinding
  <2> QED
    BY <1>6, <2>1
<1> QED
  BY <1>8, <1>9, <1>10, <1>11 DEF NodeStep

LEMMA ScopePosts ==
  ASSUME TypeInv, PostsInv, NEW t \in Thread,
         \/ Enter(t, "closure") \/ Enter(t, "object") \/ PanicBody(t)
         \/ LeaveScope(t) \/ Close(t) \/ UnwindObject(t) \/ SendLeave(t)
         \/ Closed(t) \/ Unwound(t)
         \/ \E s \in Sink : SendBegin(t, s)
  PROVE  PostsInv'
<1>1. Placed
  BY DEF TypeInv
<1>2. UNCHANGED <<post, posts, closures>>
  BY DEF Enter, PanicBody, LeaveScope, Close, UnwindObject, SendLeave, Closed, Unwound, SendBegin,
         queues, calls
<1>3. ASSUME NEW outs, NEW ins, Work(t, outs, ins), \A f \in outs \cup ins : f.pc # "posted"
      PROVE  PostsInv'
  BY <1>1, <1>2, <1>3, Untaken, QuietPosts
<1>4. \A f : Scope(f) => f.pc # "posted"
  BY DEF Scope
<1>5. CASE Enter(t, "closure") \/ Enter(t, "object") \/ PanicBody(t)
  <2>1. PICK f : Scope(f) /\ Work(t, {}, {f})
    BY <1>1, <1>5, ScopeWork
  <2> QED
    BY <1>3, <1>4, <2>1
<1>6. CASE LeaveScope(t) \/ Close(t) \/ UnwindObject(t) \/ SendLeave(t)
  <2>1. PICK outs, ins :
          /\ \A f \in outs : Scope(f) \/ f.pc = "leave"
          /\ \A f \in ins : Scope(f)
          /\ depth = 1 => Work(t, outs, ins \cup {Counting})
          /\ depth # 1 => Work(t, outs, ins)
    BY <1>1, <1>6, ScopeWork
  <2>2. Counting.pc # "posted"
    BY DEF Counting, End
  <2>3. CASE depth = 1
    <3> DEFINE more == ins \cup {Counting}
    <3>1. Work(t, outs, more) /\ \A f \in outs \cup more : f.pc # "posted"
      BY <1>4, <2>1, <2>2, <2>3
    <3> HIDE DEF more
    <3> QED
      BY <1>3, <3>1
  <2>4. CASE depth # 1
    <3>1. Work(t, outs, ins) /\ \A f \in outs \cup ins : f.pc # "posted"
      BY <1>4, <2>1, <2>4
    <3> QED
      BY <1>3, <3>1
  <2> QED
    BY <2>3, <2>4
<1>7. CASE Closed(t) \/ Unwound(t)
  <2>1. Work(t, {Top(t)}, {}) /\ Scope(Top(t))
    BY <1>1, <1>7, ScopeWork
  <2> QED
    BY <1>3, <1>4, <2>1
<1>8. CASE \E s \in Sink : SendBegin(t, s)
  <2>1. PICK s \in Sink : SendBegin(t, s)
    BY <1>8
  <2> DEFINE f == Sending("mark", <<s, sends + 1, FALSE>>)
  <2>2. Work(t, {}, {f}) /\ f.pc # "posted"
    BY <2>1, SendBeginWork DEF Sending
  <2> HIDE DEF f
  <2> QED
    BY <1>3, <2>2
<1> QED
  BY <1>5, <1>6, <1>7, <1>8

(* A step of an end that puts f in its place.                              *)
LEMMA OverLists ==
  ASSUME Placed, NEW t \in Thread, stack[t] # <<>>, Top(t).op = "end",
         NEW f \in FrameSet, f.op = "end", GoOn(t, f)
  PROVE  /\ Len(stack[t]) \in Nat
         /\ ListAt(stack[t], Len(stack[t])) = Taken(Top(t))
         /\ \A u \in Thread \ {t} : stack'[u] = stack[u]
         /\ \A i \in Nat : ListAt(stack'[t], i) =
                             IF i = Len(stack[t]) THEN Taken(f) ELSE ListAt(stack[t], i)
<1>1. stack[t] \in Seq(FrameSet) /\ Top(t) = stack[t][Len(stack[t])] /\ Len(stack[t]) \in Nat
  BY StackIs
<1>2. ListAt(stack[t], Len(stack[t])) = Taken(Top(t))
  BY <1>1, LowerLists
<1>3. Work(t, {Top(t)}, {f}) /\ stack'[t] = Append(Below(t), f)
  BY GoOnWork
<1>4. \A i \in Nat : ListAt(Append(Below(t), f), i) =
                       IF i = Len(stack[t]) THEN Taken(f) ELSE ListAt(stack[t], i)
  BY OverTop
<1> QED
  BY <1>1, <1>2, <1>3, <1>4 DEF Work

LEMMA EndPosts ==
  ASSUME TypeInv, PostsInv, NEW t \in Thread,
         \/ EndCount(t) \/ EndTake(t) \/ EndBatch(t) \/ EndUncount(t)
         \/ EndPrePost(t) \/ EndClear(t) \/ EndRelease(t)
         \/ EndPosted(t) /\ Top(t).list = <<>>
  PROVE  PostsInv'
<1>1. Placed /\ Data
  BY DEF TypeInv
<1>2. UNCHANGED <<post, posts, closures>>
  BY DEF EndCount, EndTake, EndBatch, EndUncount, EndPrePost, EndClear, EndRelease, EndPosted,
         queues, calls, closures
<1>3. Taken(Top(t)) = <<>>
  BY DEF EndCount, EndTake, EndBatch, EndUncount, EndPrePost, EndClear, EndRelease, EndPosted,
         Is, Taken
<1>4. ASSUME NEW ins, Work(t, {Top(t)}, ins), \A f \in ins : f.pc # "posted"
      PROVE  PostsInv'
  <2>1. \A g \in {Top(t)} \cup ins : Taken(g) = <<>>
    BY <1>3, <1>4, Untaken
  <2> QED
    BY <1>1, <1>2, <1>4, <2>1, QuietPosts
<1>5. ASSUME NEW pc, NEW list, Over(t, End(pc, list)), pc # "posted"
      PROVE  PostsInv'
  <2> DEFINE f == End(pc, list)
  <2>1. Work(t, {Top(t)}, {f}) /\ f.pc # "posted"
    BY <1>5, EndFrames DEF Over
  <2> HIDE DEF f
  <2> QED
    BY <1>4, <2>1
<1>6. CASE EndCount(t) \/ EndUncount(t) \/ EndPrePost(t) \/ EndClear(t)
           \/ (EndPosted(t) /\ Top(t).list = <<>>)
  BY <1>1, <1>5, <1>6, EndWork
<1>7. CASE EndTake(t) \/ EndBatch(t)
  <2>1. PICK ins : Work(t, {Top(t)}, ins) /\ \A f \in ins : f.pc # "posted"
    BY <1>1, <1>7, EndWork
  <2> QED
    BY <1>4, <2>1
<1>8. CASE EndRelease(t)
  <2>1. Work(t, {Top(t)}, {}) /\ \A f \in {} : f.pc # "posted"
    BY <1>1, <1>8, EndWork
  <2> QED
    BY <1>4, <2>1
<1> QED
  BY <1>6, <1>7, <1>8

LEMMA QueuePosts ==
  ASSUME TypeInv, PostsInv, NEW t \in Thread, Post(t)
  PROVE  PostsInv'
<1> DEFINE p == posts + 1
<1>1. /\ post \in Seq(Nat) /\ posts \in Nat /\ p \in Nat
      /\ stack' = stack /\ post' = Append(post, p) /\ posts' = p
      /\ ran' = ran /\ dropped' = dropped
  BY SharedAssumption DEF Post, TypeInv, Data, closures
<1>2. p \notin 1 .. posts /\ 1 .. p = 1 .. posts \cup {p}
  BY <1>1
<1>3. Held' = Held
  BY <1>1 DEF Held
<1> HIDE DEF p
<1>4. Parted(1 .. posts, Elements(post), Elements(ran), dropped, Held) /\ Single
  BY DEF PostsInv
<1>5. Parted(1 .. posts \cup {p}, Elements(post) \cup {p}, Elements(ran), dropped, Held)
  BY <1>2, <1>4, PartedPost
<1>6. p \notin Elements(post)
  BY <1>2, <1>4 DEF Parted
<1>7. NoRepeat(Append(post, p)) /\ Elements(Append(post, p)) = Elements(post) \cup {p}
  BY <1>1, <1>4, <1>6, RepeatFacts, ElementsOf DEF Single
<1>8. Single'
  BY <1>1, <1>4, <1>7 DEF Single
<1> QED
  BY <1>1, <1>2, <1>3, <1>5, <1>7, <1>8 DEF PostsInv

(* The list of an end of t changes to l.                                   *)
LEMMA SingleMoves ==
  ASSUME Single, NEW t \in Thread, NEW n \in Nat, NEW l, NoRepeat(l),
         \A u \in Thread \ {t} : stack'[u] = stack[u],
         \A i \in Nat : ListAt(stack'[t], i) = IF i = n THEN l ELSE ListAt(stack[t], i),
         NoRepeat(post'), NoRepeat(ran')
  PROVE  Single'
<1>1. ASSUME NEW u \in Thread, NEW i \in Nat
      PROVE  NoRepeat(ListAt(stack'[u], i))
  BY DEF Single
<1> QED
  BY <1>1 DEF Single

LEMMA TakePosts ==
  ASSUME TypeInv, PostsInv, NEW t \in Thread, EndPost(t)
  PROVE  PostsInv'
<1> DEFINE n == Len(stack[t])
           f == End("posted", post)
<1>1. Placed /\ Data
  BY DEF TypeInv
<1>2. /\ stack[t] # <<>> /\ Top(t).op = "end" /\ Top(t).pc = "post" /\ GoOn(t, f)
      /\ post' = <<>> /\ posts' = posts /\ ran' = ran /\ dropped' = dropped
  BY DEF EndPost, Is, calls, closures
<1>3. f \in FrameSet /\ f.op = "end" /\ Taken(f) = post /\ Taken(Top(t)) = <<>>
  BY <1>1, <1>2, EndFrames DEF Data, Taken
<1> HIDE DEF f
<1>4. /\ n \in Nat /\ ListAt(stack[t], n) = <<>>
      /\ \A u \in Thread \ {t} : stack'[u] = stack[u]
      /\ \A i \in Nat : ListAt(stack'[t], i) = IF i = n THEN post ELSE ListAt(stack[t], i)
  BY <1>1, <1>2, <1>3, OverLists
<1> HIDE DEF n
<1>5. Single /\ Parted(1 .. posts, Elements(post), Elements(ran), dropped, Held)
  BY DEF PostsInv
<1>6. NoRepeat(post) /\ NoRepeat(<<>>) /\ Elements(<<>>) = {}
  BY <1>1, <1>5, RepeatFacts DEF Single, Data
<1>7. Single'
  BY <1>2, <1>4, <1>5, <1>6, SingleMoves DEF Single
<1>8. \A y \in Place : Held'[y] = IF y = <<t, n>> THEN Elements(post) ELSE Held[y]
  BY <1>4, HeldMoves
<1>9. <<t, n>> \in Place /\ Held[<<t, n>>] = {}
  BY <1>4, <1>6 DEF Place, Held
<1>10. Parted(1 .. posts, {}, Elements(ran), dropped, Held')
  BY <1>5, <1>8, <1>9, PartedTake
<1> QED
  BY <1>2, <1>6, <1>7, <1>10 DEF PostsInv

LEMMA RunPosts ==
  ASSUME TypeInv, PostsInv, NEW t \in Thread,
         \/ EndPosted(t) /\ Top(t).list # <<>>
         \/ PanicPosted(t)
  PROVE  PostsInv'
<1> DEFINE n == Len(stack[t])
           list == Top(t).list
           rest == Tail(list)
           p == Head(list)
           f == End("posted", rest)
<1>1. Placed /\ Data
  BY DEF TypeInv
<1>2. /\ stack[t] # <<>> /\ Top(t).op = "end" /\ Top(t).pc = "posted" /\ list # <<>>
      /\ GoOn(t, f) \/ Nest(t, f, Unwinding)
      /\ post' = post /\ posts' = posts /\ ran' = Append(ran, p) /\ dropped' = dropped
  BY DEF EndPosted, PanicPosted, Is, calls, queues
<1>3. /\ list \in Seq(Nat) /\ rest \in Seq(Nat) /\ p \in Nat
      /\ Elements(list) = Elements(rest) \cup {p}
  BY <1>1, <1>2, EndIs, ElementsOf
<1>4. f \in FrameSet /\ f.op = "end" /\ Taken(f) = rest /\ Taken(Top(t)) = list /\ Inner(f)
  BY <1>2, <1>3, EndFrames DEF Taken, Inner
<1>5. stack[t] \in Seq(FrameSet) /\ n \in Nat /\ ListAt(stack[t], n) = list
  BY <1>1, <1>2, <1>4, StackIs, LowerLists
<1>6. /\ \A u \in Thread \ {t} : stack'[u] = stack[u]
      /\ \A i \in Nat : ListAt(stack'[t], i) = IF i = n THEN rest ELSE ListAt(stack[t], i)
  <2> HIDE DEF f, rest, list, p
  <2>1. CASE GoOn(t, f)
    BY <1>1, <1>2, <1>4, <2>1, OverLists
  <2>2. CASE Nest(t, f, Unwinding)
    <3> DEFINE q == Append(Below(t), f)
    <3>1. Unwinding \in FrameSet /\ Unwinding.op = "unwind" /\ Taken(Unwinding) = <<>>
      BY MakeFrames DEF Unwinding, Taken
    <3>2. Work(t, {Top(t)}, {f, Unwinding}) /\ stack'[t] = Append(q, Unwinding)
      BY <1>1, <1>2, <1>4, <2>2, <3>1, NestWork
    <3>3. /\ q \in Seq(FrameSet) /\ Len(q) = n
          /\ \A i \in Nat : ListAt(q, i) = IF i = n THEN Taken(f) ELSE ListAt(stack[t], i)
      BY <1>1, <1>2, <1>4, OverTop
    <3> HIDE DEF q
    <3>4. \A i \in Nat : ListAt(Append(q, Unwinding), i) =
                           IF i = Len(q) + 1 THEN <<>> ELSE ListAt(q, i)
      BY <3>1, <3>3, AppendLists
    <3>5. ListAt(q, Len(q) + 1) = <<>>
      BY <3>1, <3>3, AppendLists
    <3>6. \A i \in Nat : ListAt(Append(q, Unwinding), i) = ListAt(q, i)
      BY <3>4, <3>5
    <3> QED
      BY <1>4, <3>2, <3>3, <3>6 DEF Work
  <2> QED
    BY <1>2, <2>1, <2>2
<1> HIDE DEF f, n, rest, p, list
<1>7. Single /\ Parted(1 .. posts, Elements(post), Elements(ran), dropped, Held)
  BY DEF PostsInv
<1>8. NoRepeat(list) /\ NoRepeat(ran) /\ NoRepeat(post)
  BY <1>5, <1>7 DEF Single
<1>9. NoRepeat(rest) /\ p \notin Elements(rest)
  BY <1>2, <1>3, <1>8, RepeatFacts DEF rest, p
<1>10. <<t, n>> \in Place /\ Held[<<t, n>>] = Elements(rest) \cup {p}
  BY <1>3, <1>5 DEF Place, Held
<1>11. p \notin Elements(ran)
  BY <1>7, <1>10 DEF Parted
<1>12. /\ NoRepeat(Append(ran, p))
       /\ Elements(Append(ran, p)) = Elements(ran) \cup {p}
  <2>1. ran \in Seq(Nat) /\ p \in Nat
    BY <1>1, <1>3 DEF Data
  <2>2. NoRepeat(Append(ran, p))
    BY <1>8, <1>11, <2>1, RepeatFacts
  <2> QED
    BY <2>1, <2>2, ElementsOf
<1>13. Single'
  BY <1>2, <1>5, <1>6, <1>7, <1>8, <1>9, <1>12, SingleMoves
<1>14. \A y \in Place : Held'[y] = IF y = <<t, n>> THEN Elements(rest) ELSE Held[y]
  BY <1>5, <1>6, HeldMoves
<1>15. Parted(1 .. posts, Elements(post), Elements(ran) \cup {p}, dropped, Held')
  BY <1>7, <1>9, <1>10, <1>14, PartedRun
<1> QED
  BY <1>2, <1>12, <1>13, <1>15 DEF PostsInv

LEMMA DropPosts ==
  ASSUME TypeInv, PostsInv, NEW t \in Thread, UnwindCall(t)
  PROVE  PostsInv'
<1> DEFINE n == Len(stack[t]) - 1
           g == Stopped(t)
           list == Taken(g)
<1>1. Placed
  BY DEF TypeInv
<1>2. /\ stack[t] # <<>> /\ n > 0 /\ post' = post /\ posts' = posts /\ ran' = ran
      /\ dropped' = IF g.pc = "posted" THEN dropped \cup Elements(g.list) ELSE dropped
  BY DEF UnwindCall, Is, calls, queues, Stopped
<1>3. n \in Nat /\ ListAt(stack[t], n) = list
  BY <1>1, <1>2, RestIs
<1>4. /\ \A u \in Thread \ {t} : stack'[u] = stack[u]
      /\ \A i \in Nat : ListAt(stack'[t], i) = IF i = n THEN <<>> ELSE ListAt(stack[t], i)
  BY <1>1, UnwindWork DEF Work
<1>5. Elements(<<>>) = {} /\ NoRepeat(<<>>)
  BY DEF Elements, NoRepeat
<1>6. dropped' = dropped \cup Elements(list)
  BY <1>2, <1>5 DEF Taken
<1> HIDE DEF n, g, list
<1>7. Single /\ Parted(1 .. posts, Elements(post), Elements(ran), dropped, Held)
  BY DEF PostsInv
<1>8. Single'
  BY <1>2, <1>3, <1>4, <1>5, <1>7, SingleMoves DEF Single
<1>9. \A y \in Place : Held'[y] = IF y = <<t, n>> THEN {} ELSE Held[y]
  BY <1>3, <1>4, <1>5, HeldMoves
<1>10. <<t, n>> \in Place /\ Held[<<t, n>>] = Elements(list)
  BY <1>3 DEF Place, Held
<1>11. Parted(1 .. posts, Elements(post), Elements(ran), dropped \cup Held[<<t, n>>], Held')
  BY <1>7, <1>9, <1>10, PartedDrop
<1> QED
  BY <1>2, <1>6, <1>8, <1>10, <1>11 DEF PostsInv

LEMMA PostsStart == SharedInit => PostsInv
<1> SUFFICES ASSUME SharedInit
             PROVE  PostsInv
  OBVIOUS
<1>1. NoRepeat(<<>>) /\ Elements(<<>>) = {} /\ 1 .. 0 = {} /\ Len(<<>>) = 0
  BY EmptySeq DEF NoRepeat, Elements
<1>2. \A t \in Thread, i \in Nat : ListAt(stack[t], i) = <<>>
  BY <1>1 DEF SharedInit, ListAt
<1>3. Single
  BY <1>1, <1>2 DEF Single, SharedInit
<1>4. \A x \in Place : Held[x] = {}
  BY <1>1, <1>2 DEF Held, Place
<1>5. Parted({}, {}, {}, {}, Held)
  BY <1>4 DEF Parted
<1> QED
  BY <1>1, <1>3, <1>5 DEF SharedInit, PostsInv

LEMMA PostsStep == TypeInv /\ PostsInv /\ [SharedNext]_sharedVars => PostsInv'
<1> SUFFICES ASSUME TypeInv, PostsInv, [SharedNext]_sharedVars
             PROVE  PostsInv'
  OBVIOUS
<1>1. CASE UNCHANGED sharedVars
  <2>1. stack' = stack /\ post' = post /\ posts' = posts /\ ran' = ran /\ dropped' = dropped
    BY <1>1 DEF sharedVars, queues, calls, closures
  <2>2. Held' = Held /\ Single'
    BY <2>1 DEF Held, Single, PostsInv
  <2> QED
    BY <2>1, <2>2 DEF PostsInv
<1>2. CASE SharedNext
  <2>1. PICK t \in Thread :
          \/ Enter(t, "closure") \/ Enter(t, "object")
          \/ LeaveScope(t) \/ Close(t) \/ Post(t)
          \/ \E s \in Sink : SendBegin(t, s)
          \/ CodeStep(t) \/ PanicStep(t)
    BY <1>2 DEF SharedNext
  <2>2. EndStep(t) => PostsInv'
    BY EndPosts, TakePosts, RunPosts DEF EndStep
  <2> QED
    BY <2>1, <2>2, SendPosts, NodePosts, ScopePosts, QueuePosts, RunPosts, DropPosts
    DEF CodeStep, PanicStep, SendStep, UnwindStep
<1> QED
  BY <1>1, <1>2

At(list, p) == {k \in DOMAIN list : list[k] = p}
PostedIn == {y \in InProgress : Frame(y).pc = "posted"}
TakenAt(p) == UNION {{x} \X At(Frame(x).list, p) : x \in PostedIn}

LEMMA AtOnce ==
  ASSUME NEW list, NoRepeat(list), NEW p
  PROVE  /\ p \in Elements(list) => \E k : At(list, p) = {k}
         /\ p \notin Elements(list) => At(list, p) = {}
<1>1. ASSUME p \in Elements(list)
      PROVE  \E k : At(list, p) = {k}
  <2>1. PICK k \in DOMAIN list : list[k] = p
    BY <1>1 DEF Elements
  <2>2. At(list, p) = {k}
    BY <2>1 DEF At, NoRepeat
  <2> QED
    BY <2>2
<1>2. p \notin Elements(list) => At(list, p) = {}
  BY DEF At, Elements
<1> QED
  BY <1>1, <1>2

LEMMA OneOrNone ==
  /\ Cardinality({}) = 0
  /\ \A a : Cardinality({a}) = 1
BY FS_EmptySet, FS_Singleton

LEMMA AtCount ==
  ASSUME NEW list, NoRepeat(list), NEW p
  PROVE  Cardinality(At(list, p)) = IF p \in Elements(list) THEN 1 ELSE 0
BY AtOnce, OneOrNone

(* The ends that have p in their lists.                                    *)
LEMMA PostedPlaces ==
  ASSUME Placed
  PROVE  /\ \A y \in PostedIn : y \in Place /\ Held[y] = Elements(Frame(y).list)
                                /\ Frame(y).list = ListAt(stack[y[1]], y[2])
         /\ \A x \in Place : Held[x] # {} => x \in PostedIn
<1>1. \A u \in Thread : Len(stack[u]) \in Nat /\ DOMAIN stack[u] = 1 .. Len(stack[u])
  BY LenProperties DEF Placed, Stacks
<1>2. ASSUME NEW y \in PostedIn
      PROVE  y \in Place /\ Held[y] = Elements(Frame(y).list)
             /\ Frame(y).list = ListAt(stack[y[1]], y[2])
  <2>0. PICK u \in Thread : y \in {u} \X DOMAIN stack[u]
    BY DEF PostedIn, InProgress
  <2>1. PICK i \in DOMAIN stack[u] : y = <<u, i>>
    BY <2>0
  <2>2. i \in 1 .. Len(stack[u]) /\ i \in Nat
    BY <1>1, <2>1
  <2>3. y \in Place /\ stack[u][i].pc = "posted" /\ Frame(y) = stack[u][i]
    BY <2>1, <2>2 DEF Place, PostedIn, Frame
  <2>4. ListAt(stack[u], i) = stack[u][i].list
    BY <2>2, <2>3 DEF ListAt, Taken
  <2> QED
    BY <2>1, <2>3, <2>4 DEF Held
<1>3. ASSUME NEW x \in Place, Held[x] # {}
      PROVE  x \in PostedIn
  <2>1. PICK u \in Thread, i \in Nat : x = <<u, i>>
    BY DEF Place
  <2>2. Elements(ListAt(stack[u], i)) # {}
    BY <1>3, <2>1 DEF Held
  <2>3. ListAt(stack[u], i) # <<>>
    BY <2>2 DEF Elements
  <2>4. i \in 1 .. Len(stack[u]) /\ stack[u][i].pc = "posted"
    BY <2>3 DEF ListAt, Taken
  <2>5. x \in {u} \X DOMAIN stack[u]
    BY <1>1, <2>1, <2>4
  <2>6. x \in InProgress
    BY <2>5 DEF InProgress
  <2> QED
    BY <2>1, <2>4, <2>6 DEF PostedIn, Frame
<1> QED
  BY <1>2, <1>3

LEMMA TakenCount ==
  ASSUME Placed, PostsInv, NEW p
  PROVE  Cardinality(TakenAt(p)) = IF \E x \in Place : p \in Held[x] THEN 1 ELSE 0
<1>1. /\ \A y \in PostedIn : y \in Place /\ Held[y] = Elements(Frame(y).list)
                             /\ Frame(y).list = ListAt(stack[y[1]], y[2])
      /\ \A x \in Place : Held[x] # {} => x \in PostedIn
  BY PostedPlaces
<1>2. \A y \in PostedIn : NoRepeat(Frame(y).list)
  <2>1. \A y \in PostedIn : y[1] \in Thread /\ y[2] \in Nat
    BY <1>1 DEF Place
  <2> QED
    BY <1>1, <2>1 DEF PostsInv, Single
<1>3. CASE \E x \in Place : p \in Held[x]
  <2>1. PICK x \in Place : p \in Held[x]
    BY <1>3
  <2>2. x \in PostedIn
    BY <1>1, <2>1
  <2>3. \A y \in PostedIn : y # x => p \notin Held[y]
    BY <1>1, <2>1 DEF PostsInv, Parted
  <2>4. \A y \in PostedIn : y # x => At(Frame(y).list, p) = {}
    BY <1>1, <1>2, <2>3, AtOnce
  <2>5. PICK k : At(Frame(x).list, p) = {k}
    BY <1>1, <1>2, <2>1, <2>2, AtOnce
  <2>6. TakenAt(p) = {<<x, k>>}
    <3>1. {x} \X At(Frame(x).list, p) = {<<x, k>>}
      BY <2>5
    <3>2. \A y \in PostedIn : y # x => {y} \X At(Frame(y).list, p) = {}
      BY <2>4
    <3> QED
      BY <2>2, <3>1, <3>2 DEF TakenAt
  <2> QED
    BY <1>3, <2>6, OneOrNone
<1>4. CASE ~\E x \in Place : p \in Held[x]
  <2>1. \A y \in PostedIn : At(Frame(y).list, p) = {}
    BY <1>1, <1>2, <1>4, AtOnce
  <2>2. TakenAt(p) = {}
    BY <2>1 DEF TakenAt
  <2> QED
    BY <1>4, <2>2, OneOrNone
<1> QED
  BY <1>3, <1>4

LEMMA PostsAreKept == TypeInv /\ PostsInv => PostsKept
<1> SUFFICES ASSUME TypeInv, PostsInv, NEW p \in 1 .. posts
             PROVE  Cardinality(At(post, p)) + Cardinality(At(ran, p))
                      + Cardinality(TakenAt(p)) + Cardinality({p} \cap dropped) = 1
  BY DEF PostsKept, At, TakenAt, PostedIn
<1>1. Placed /\ NoRepeat(post) /\ NoRepeat(ran)
  BY DEF TypeInv, PostsInv, Single
<1>2. /\ Cardinality(At(post, p)) = IF p \in Elements(post) THEN 1 ELSE 0
      /\ Cardinality(At(ran, p)) = IF p \in Elements(ran) THEN 1 ELSE 0
      /\ Cardinality(TakenAt(p)) = IF \E x \in Place : p \in Held[x] THEN 1 ELSE 0
  BY <1>1, AtCount, TakenCount
<1>3. Cardinality({p} \cap dropped) = IF p \in dropped THEN 1 ELSE 0
  <2>1. {p} \cap dropped = IF p \in dropped THEN {p} ELSE {}
    OBVIOUS
  <2> QED
    BY <2>1, OneOrNone
<1> DEFINE held == \E x \in Place : p \in Held[x]
<1>4. /\ p \in Elements(post) \/ p \in Elements(ran) \/ p \in dropped \/ held
      /\ ~(p \in Elements(post) /\ p \in Elements(ran))
      /\ ~(p \in Elements(post) /\ p \in dropped)
      /\ ~(p \in Elements(ran) /\ p \in dropped)
      /\ held => p \notin Elements(post) /\ p \notin Elements(ran) /\ p \notin dropped
  BY DEF PostsInv, Parted
<1> HIDE DEF held
<1>5. Cardinality(TakenAt(p)) = IF held THEN 1 ELSE 0
  BY <1>2 DEF held
<1> QED
  BY <1>2, <1>3, <1>4, <1>5

LEMMA TypesHold == TypeInv /\ PostsInv => SharedTypeOK
<1> SUFFICES ASSUME TypeInv, PostsInv
             PROVE  SharedTypeOK
  OBVIOUS
<1>1. Elements(changedNodes) \subseteq Sink /\ Elements(prePost) \subseteq Item
  BY ElementsRange DEF TypeInv, Data
<1>2. Elements(post) \cup Elements(ran) \cup dropped \subseteq 1 .. posts
  BY DEF PostsInv, Parted
<1> QED
  BY <1>1, <1>2 DEF SharedTypeOK, TypeInv, Data, Item

LEMMA StateHolds == SharedSpec => [](TypeInv /\ PostsInv)
<1>1. SharedInit => TypeInv /\ PostsInv
  BY TypeStart, PostsStart
<1>2. TypeInv /\ PostsInv /\ [SharedNext]_sharedVars => (TypeInv /\ PostsInv)'
  BY TypeStep, PostsStep
<1> QED
  BY <1>1, <1>2, PTL DEF SharedSpec

(* Every queue, list and flag of the data behind the lock has its type,    *)
(* whichever threads take the lock in turn and whichever closures panic:   *)
(* events are those that were sent, and what was posted has a number of a  *)
(* call of post.                                                           *)
THEOREM StateTyped == SharedSpec => []SharedTypeOK
BY StateHolds, TypesHold, PTL

(* SodiumCtx::post and the end of end_of_transaction: a posted closure is  *)
(* in the queue, or in the list that one end took, or has run, or was      *)
(* dropped with the list of an end that a panic stopped.  It never runs    *)
(* twice and is never lost in another way, with any panic anywhere.        *)
THEOREM PostsStay == SharedSpec => []PostsKept
BY StateHolds, PostsAreKept, PTL

-----------------------------------------------------------------------------
(* Flags *)

(* A call that owes no reset; and that is not on its way to pre_post.      *)
Free(f) ==
  /\ ~(f.op = "end" /\ f.pc = "clear")
  /\ ~(f.op = "send" /\ f.pc \in {"flag", "queue"})
  /\ ~(f.op = "node" /\ f.pc = "queue")

LEMMA OwedStays ==
  ASSUME Placed, NEW t \in Thread, NEW outs, NEW ins, Work(t, outs, ins),
         NEW item, Owed(item),
         item \in Elements(prePost) =>
           item \in Elements(prePost') \/ \E f \in Frames(stack') : Owes(f, item),
         \A f \in outs : Owes(f, item) =>
           item \in Elements(prePost') \/ \E g \in Frames(stack') : Owes(g, item)
  PROVE  Owed(item)'
<1>1. Frames(stack) \subseteq Frames(stack') \cup outs
  BY WorkFrames
<1>2. CASE item \in Elements(prePost)
  BY <1>2 DEF Owed
<1>3. CASE \E f \in Frames(stack) : Owes(f, item)
  BY <1>1, <1>3 DEF Owed
<1> QED
  BY <1>2, <1>3 DEF Owed

(* A step that raises no flag.                                             *)
LEMMA FlagsStay ==
  ASSUME Placed, FlagsOwed, NEW t \in Thread, NEW outs, NEW ins, Work(t, outs, ins),
         \A item : item \in Elements(prePost) => Owed(item)',
         \A f \in outs : \A item : Owes(f, item) => Owed(item)',
         firing' = firing, visited' = visited
  PROVE  FlagsOwed'
<1>1. \A item : Owed(item) => Owed(item)'
  BY OwedStays DEF Owed
<1> QED
  BY <1>1 DEF FlagsOwed

LEMMA FreeOwes == \A f, item : Free(f) => ~Owes(f, item)
BY DEF Free, Owes

LEMMA FlagsFree ==
  ASSUME Placed, FlagsOwed, NEW t \in Thread, NEW outs, NEW ins, Work(t, outs, ins),
         Elements(prePost) \subseteq Elements(prePost'), \A f \in outs : Free(f),
         firing' = firing, visited' = visited
  PROVE  FlagsOwed'
<1>1. \A item : item \in Elements(prePost) => Owed(item)'
  BY DEF Owed
<1> QED
  BY <1>1, FreeOwes, FlagsStay

LEMMA SendFlags ==
  ASSUME TypeInv, FlagsOwed, NEW t \in Thread,
         SendMark(t) \/ SendPush(t) \/ SendFire(t) \/ SendFlag(t) \/ SendQueue(t)
  PROVE  FlagsOwed'
<1> DEFINE list == Top(t).list
           s == list[1]
<1>1. Placed /\ Data
  BY DEF TypeInv
<1>2. /\ stack[t] # <<>> /\ Top(t).op = "send" /\ visited' = visited
  BY DEF SendMark, SendPush, SendFire, SendFlag, SendQueue, Is, flags
<1>3. s \in Sink
  BY <1>1, <1>2, SendTop
<1>4. CASE SendMark(t) \/ SendPush(t)
  <2>1. PICK f : Work(t, {Top(t)}, {f})
    BY <1>1, <1>4, SendWork DEF Over
  <2>2. Free(Top(t)) /\ prePost' = prePost /\ firing' = firing
    BY <1>4 DEF SendMark, SendPush, Is, Free, queues, flags
  <2> QED
    BY <1>1, <1>2, <2>1, <2>2, FlagsFree
<1>5. CASE SendFire(t)
  <2> DEFINE l == <<s, list[2], firing[s] = 0>>
             f == Sending("flag", l)
  <2>1. Over(t, f)
    BY <1>1, <1>5, SendWork
  <2>2. f.op = "send" /\ f.pc = "flag" /\ f.list[1] = s /\ f.list[3] = (firing[s] = 0)
    BY DEF Sending
  <2> HIDE DEF f
  <2>3. Free(Top(t)) /\ prePost' = prePost
    BY <1>5 DEF SendFire, Is, Free, queues
  <2>4. \A item : Owed(item) => Owed(item)'
    <3>1. Work(t, {Top(t)}, {f})
      BY <2>1 DEF Over
    <3>2. \A g \in {Top(t)} : \A item : ~Owes(g, item)
      BY <2>3, FreeOwes
    <3> QED
      BY <1>1, <2>3, <3>1, <3>2, OwedStays
  <2>5. \A r \in Sink : firing'[r] = IF r = s THEN list[2] ELSE firing[r]
    BY <1>1, <1>3, <1>5 DEF SendFire, Data
  <2>6. ASSUME NEW r \in Sink, r = s, firing[s] = 0
        PROVE  Owed(<<"clear", r>>)'
    <3>1. Owes(f, <<"clear", r>>)
      BY <2>2, <2>6 DEF Owes
    <3>2. f \in Frames(stack')
      BY <2>1 DEF Over
    <3> QED
      BY <3>1, <3>2 DEF Owed
  <2>7. \A r \in Sink : firing'[r] # 0 => Owed(<<"clear", r>>)'
    BY <2>4, <2>5, <2>6 DEF FlagsOwed
  <2>8. \A n \in Node : visited'[n] => Owed(<<"unvisit", n>>)'
    BY <1>2, <2>4 DEF FlagsOwed
  <2> QED
    BY <2>7, <2>8 DEF FlagsOwed
<1>6. CASE SendFlag(t)
  <2> DEFINE f == Sending(IF list[3] THEN "queue" ELSE "leave", list)
  <2>1. Over(t, f) /\ f.op = "send" /\ f.list = list /\ (list[3] => f.pc = "queue")
    BY <1>1, <1>6, SendWork DEF Sending
  <2> HIDE DEF f
  <2>2. prePost' = prePost /\ firing' = firing
    BY <1>6 DEF SendFlag, queues
  <2>3. ASSUME NEW item, Owes(Top(t), item)
        PROVE  Owed(item)'
    <3>1. list[3] /\ item = <<"clear", s>>
      BY <1>2, <2>3 DEF Owes
    <3>2. Owes(f, item) /\ f \in Frames(stack')
      BY <2>1, <3>1 DEF Owes, Over
    <3> QED
      BY <3>2 DEF Owed
  <2>4. Work(t, {Top(t)}, {f})
    BY <2>1 DEF Over
  <2>5. \A item : item \in Elements(prePost) => Owed(item)'
    BY <2>2 DEF Owed
  <2>6. \A g \in {Top(t)} : \A item : Owes(g, item) => Owed(item)'
    BY <2>3
  <2> QED
    BY <1>1, <1>2, <2>2, <2>4, <2>5, <2>6, FlagsStay
<1>7. CASE SendQueue(t)
  <2>1. prePost' = Append(prePost, <<"clear", s>>) /\ firing' = firing
    BY <1>7 DEF SendQueue, flags
  <2>2. <<"clear", s>> \in Item /\ prePost \in Seq(Item)
    BY <1>1, <1>3 DEF Item, Data
  <2>3. Elements(prePost') = Elements(prePost) \cup {<<"clear", s>>}
    BY <2>1, <2>2, ElementsOf
  <2>4. Work(t, {Top(t)}, {Sending("leave", list)})
    BY <1>1, <1>7, SendWork DEF Over
  <2>5. \A item : item \in Elements(prePost) => Owed(item)'
    BY <2>3 DEF Owed
  <2>6. \A item : Owes(Top(t), item) => item = <<"clear", s>>
    BY <1>2 DEF Owes
  <2>7. \A g \in {Top(t)} : \A item : Owes(g, item) => Owed(item)'
    BY <2>3, <2>6 DEF Owed
  <2> QED
    BY <1>1, <1>2, <2>1, <2>4, <2>5, <2>7, FlagsStay
<1> QED
  BY <1>4, <1>5, <1>6, <1>7

LEMMA NodeFlags ==
  ASSUME TypeInv, FlagsOwed, NEW t \in Thread, NodeStep(t) \/ PanicHandler(t)
  PROVE  FlagsOwed'
<1> DEFINE n == Top(t).list
<1>1. Placed /\ Data
  BY DEF TypeInv
<1>2. stack[t] # <<>> /\ Top(t).op = "node" /\ firing' = firing
  BY DEF NodeStep, NodeSwap, NodeQueue, NodeVisit, NodeAny, NodeRun, NodeSelf, PanicHandler, Is,
         flags
<1>3. n \in Node
  BY <1>1, <1>2, NodeTop
<1>4. ASSUME NEW ins, Work(t, {Top(t)}, ins), Free(Top(t)), prePost' = prePost, visited' = visited
      PROVE  FlagsOwed'
  BY <1>1, <1>2, <1>4, FlagsFree
<1>5. CASE NodeSwap(t)
  <2>1. /\ Top(t).pc = "swap" /\ prePost' = prePost
        /\ visited' = [visited EXCEPT ![n] = TRUE]
    BY <1>5 DEF NodeSwap, Is, queues
  <2>2. Free(Top(t))
    BY <1>2, <2>1 DEF Free
  <2>3. \A m \in Node : visited'[m] = (m = n \/ visited[m])
    BY <1>1, <1>3, <2>1 DEF Data
  <2>4. CASE visited[n]
    <3>1. visited' = visited
      BY <1>1, <1>3, <2>1, <2>4 DEF Data
    <3>2. Work(t, {Top(t)}, {})
      BY <1>1, <1>5, <2>4, NodeWork
    <3> QED
      BY <1>4, <2>1, <2>2, <3>1, <3>2
  <2>5. CASE ~visited[n]
    <3> DEFINE f == Visit("queue", n)
    <3>1. Over(t, f) /\ f.op = "node" /\ f.pc = "queue" /\ f.list = n
      BY <1>1, <1>5, <2>5, NodeWork DEF Visit
    <3> HIDE DEF f
    <3>2. \A item : Owed(item) => Owed(item)'
      <4>1. Work(t, {Top(t)}, {f})
        BY <3>1 DEF Over
      <4>2. \A g \in {Top(t)} : \A item : ~Owes(g, item)
        BY <2>2, FreeOwes
      <4> QED
        BY <1>1, <2>1, <4>1, <4>2, OwedStays
    <3>3. ASSUME NEW m \in Node, m = n
          PROVE  Owed(<<"unvisit", m>>)'
      <4>1. Owes(f, <<"unvisit", m>>) /\ f \in Frames(stack')
        BY <3>1, <3>3 DEF Owes, Over
      <4> QED
        BY <4>1 DEF Owed
    <3>4. \A r \in Sink : firing'[r] # 0 => Owed(<<"clear", r>>)'
      BY <1>2, <3>2 DEF FlagsOwed
    <3>5. \A m \in Node : visited'[m] => Owed(<<"unvisit", m>>)'
      BY <2>3, <3>2, <3>3 DEF FlagsOwed
    <3> QED
      BY <3>4, <3>5 DEF FlagsOwed
  <2> QED
    BY <2>4, <2>5
<1>6. CASE NodeQueue(t)
  <2>1. prePost' = Append(prePost, <<"unvisit", n>>) /\ visited' = visited /\ Top(t).pc = "queue"
    BY <1>6 DEF NodeQueue, flags, Is
  <2>2. <<"unvisit", n>> \in Item /\ prePost \in Seq(Item)
    BY <1>1, <1>3 DEF Item, Data
  <2>3. Elements(prePost') = Elements(prePost) \cup {<<"unvisit", n>>}
    BY <2>1, <2>2, ElementsOf
  <2>4. PICK pc \in NodePc : Work(t, {Top(t)}, {Visit(pc, n)})
    BY <1>1, <1>6, NodeWork DEF Over
  <2>5. \A item : item \in Elements(prePost) => Owed(item)'
    BY <2>3 DEF Owed
  <2>6. \A item : Owes(Top(t), item) => item = <<"unvisit", n>>
    BY <1>2 DEF Owes
  <2>7. \A g \in {Top(t)} : \A item : Owes(g, item) => Owed(item)'
    BY <2>3, <2>6 DEF Owed
  <2> QED
    BY <1>1, <1>2, <2>1, <2>4, <2>5, <2>7, FlagsStay
<1>7. CASE NodeVisit(t) \/ NodeAny(t) \/ NodeRun(t) \/ NodeSelf(t) \/ PanicHandler(t)
  <2>1. Free(Top(t)) /\ prePost' = prePost /\ visited' = visited
    BY <1>7 DEF NodeVisit, NodeAny, NodeRun, NodeSelf, PanicHandler, Is, Free, queues, flags
  <2>2. \E ins : Work(t, {Top(t)}, ins)
    BY <1>1, <1>7, NodeWork, PanicWork DEF Over
  <2> QED
    BY <1>4, <2>1, <2>2
<1> QED
  BY <1>5, <1>6, <1>7 DEF NodeStep

LEMMA EndFlags ==
  ASSUME TypeInv, FlagsOwed, NEW t \in Thread, EndStep(t) \/ PanicPosted(t)
  PROVE  FlagsOwed'
<1> DEFINE list == Top(t).list
<1>1. Placed /\ Data
  BY DEF TypeInv
<1>2. stack[t] # <<>> /\ Top(t).op = "end"
  BY DEF EndStep, EndCount, EndTake, EndBatch, EndUncount, EndPrePost, EndClear, EndPost,
         EndPosted, EndRelease, PanicPosted, Is
<1>3. CASE EndPrePost(t)
  <2> DEFINE f == End("clear", prePost)
  <2>1. Over(t, f) /\ f.op = "end" /\ f.pc = "clear" /\ f.list = prePost
    BY <1>1, <1>3, EndWork, EndFrames
  <2> HIDE DEF f
  <2>2. Work(t, {Top(t)}, {f}) /\ f \in Frames(stack')
    BY <2>1 DEF Over
  <2>3. Free(Top(t)) /\ firing' = firing /\ visited' = visited
    BY <1>3 DEF EndPrePost, Is, Free, flags
  <2>4. \A item : item \in Elements(prePost) => Owed(item)'
    BY <2>1, <2>2 DEF Owes, Owed
  <2>5. \A g \in {Top(t)} : \A item : Owes(g, item) => Owed(item)'
    BY <2>3, FreeOwes
  <2> QED
    BY <1>1, <2>2, <2>3, <2>4, <2>5, FlagsStay
<1>4. CASE EndClear(t)
  <2>1. Top(t).pc = "clear" /\ list \in Seq(Item) /\ prePost' = prePost
    BY <1>1, <1>2, <1>4, EndIs DEF EndClear, Is, queues
  <2>2. \A item : Owes(Top(t), item) <=> item \in Elements(list)
    BY <1>2, <2>1 DEF Owes
  <2>3. \A item : item \in Elements(prePost) => Owed(item)'
    BY <2>1 DEF Owed
  <2>4. CASE list = <<>>
    <3>1. Work(t, {Top(t)}, {End("post", <<>>)}) /\ firing' = firing /\ visited' = visited
      BY <1>1, <1>4, <2>4, EndWork DEF Over, EndClear, flags
    <3>2. \A g \in {Top(t)} : \A item : Owes(g, item) => Owed(item)'
      BY <2>2, <2>4, ElementsOf DEF Elements
    <3> QED
      BY <1>1, <2>3, <3>1, <3>2, FlagsStay
  <2>5. CASE list # <<>>
    <3> DEFINE f == End("clear", Tail(list))
               what == Head(list)[1]
               x == Head(list)[2]
    <3>1. Over(t, f) /\ f.op = "end" /\ f.pc = "clear" /\ f.list = Tail(list)
      BY <1>1, <1>4, <2>5, EndWork, EndFrames
    <3> HIDE DEF f
    <3>2. Elements(list) = Elements(Tail(list)) \cup {Head(list)} /\ Head(list) \in Item
      BY <2>1, <2>5, ElementsOf
    <3>3. \A item : item \in Elements(Tail(list)) => Owed(item)'
      BY <3>1 DEF Owes, Owed, Over
    <3>4. \A item : Owed(item) => item = Head(list) \/ Owed(item)'
      <4>1. Frames(stack) \subseteq Frames(stack') \cup {Top(t)}
        <5>1. Work(t, {Top(t)}, {f})
          BY <3>1 DEF Over
        <5> QED
          BY <1>1, <5>1, WorkFrames
      <4>2. ASSUME NEW item, item \notin Elements(prePost), Owed(item), item # Head(list)
            PROVE  Owed(item)'
        <5>1. PICK g \in Frames(stack) : Owes(g, item)
          BY <4>2 DEF Owed
        <5>2. CASE g = Top(t)
          BY <2>2, <3>2, <3>3, <4>2, <5>1, <5>2
        <5>3. CASE g # Top(t)
          BY <4>1, <5>1, <5>3 DEF Owed
        <5> QED
          BY <5>2, <5>3
      <4> QED
        BY <2>3, <4>2
    <3>5. CASE what = "clear"
      <4>1. firing' = [firing EXCEPT ![x] = 0] /\ visited' = visited
        BY <1>4, <2>5, <3>5 DEF EndClear
      <4>2. x \in Sink
        BY <3>2, <3>5 DEF Item
      <4>3. \A r \in Sink : firing'[r] = IF r = x THEN 0 ELSE firing[r]
        BY <1>1, <4>1 DEF Data
      <4>4. \A r \in Sink : r # x => <<"clear", r>> # Head(list)
        OBVIOUS
      <4>5. \A m \in Node : <<"unvisit", m>> # Head(list)
        BY <3>5
      <4>6. \A r \in Sink : firing'[r] # 0 => Owed(<<"clear", r>>)'
        BY <3>4, <4>3, <4>4 DEF FlagsOwed
      <4>7. \A m \in Node : visited'[m] => Owed(<<"unvisit", m>>)'
        BY <3>4, <4>1, <4>5 DEF FlagsOwed
      <4> QED
        BY <4>6, <4>7 DEF FlagsOwed
    <3>6. CASE what # "clear"
      <4>1. visited' = [visited EXCEPT ![x] = FALSE] /\ firing' = firing
        BY <1>4, <2>5, <3>6 DEF EndClear
      <4>3. \A m \in Node : visited'[m] = IF m = x THEN FALSE ELSE visited[m]
        BY <1>1, <4>1 DEF Data
      <4>4. \A m \in Node : m # x => <<"unvisit", m>> # Head(list)
        OBVIOUS
      <4>5. \A r \in Sink : <<"clear", r>> # Head(list)
        BY <3>6
      <4>6. \A r \in Sink : firing'[r] # 0 => Owed(<<"clear", r>>)'
        BY <3>4, <4>1, <4>5 DEF FlagsOwed
      <4>7. \A m \in Node : visited'[m] => Owed(<<"unvisit", m>>)'
        BY <3>4, <4>3, <4>4 DEF FlagsOwed
      <4> QED
        BY <4>6, <4>7 DEF FlagsOwed
    <3> QED
      BY <3>5, <3>6
  <2> QED
    BY <2>4, <2>5
<1>5. CASE EndCount(t) \/ EndTake(t) \/ EndBatch(t) \/ EndUncount(t) \/ EndPost(t)
           \/ EndPosted(t) \/ EndRelease(t) \/ PanicPosted(t)
  <2>1. Free(Top(t)) /\ prePost' = prePost /\ firing' = firing /\ visited' = visited
    BY <1>5
    DEF EndCount, EndTake, EndBatch, EndUncount, EndPost, EndPosted, EndRelease, PanicPosted,
        Is, Free, queues, flags
  <2>2. \E ins : Work(t, {Top(t)}, ins)
    <3>1. CASE PanicPosted(t)
      BY <1>1, <3>1, PanicWork
    <3>2. CASE EndTake(t) \/ EndBatch(t)
      BY <1>1, <3>2, EndWork
    <3>3. CASE EndRelease(t)
      BY <1>1, <3>3, EndWork
    <3>4. CASE EndCount(t) \/ EndUncount(t) \/ EndPost(t) \/ EndPosted(t)
      <4>1. \E f : Over(t, f)
        BY <1>1, <3>4, EndWork
      <4> QED
        BY <4>1 DEF Over
    <3> QED
      BY <1>5, <3>1, <3>2, <3>3, <3>4
  <2> QED
    BY <1>1, <2>1, <2>2, FlagsFree
<1> QED
  BY <1>3, <1>4, <1>5 DEF EndStep

LEMMA CallFlags ==
  ASSUME TypeInv, FlagsOwed, NEW t \in Thread,
         \/ Enter(t, "closure") \/ Enter(t, "object") \/ PanicBody(t)
         \/ LeaveScope(t) \/ Close(t) \/ UnwindObject(t) \/ SendLeave(t)
         \/ Closed(t) \/ Unwound(t) \/ UnwindCall(t) \/ Post(t)
         \/ \E s \in Sink : SendBegin(t, s)
  PROVE  FlagsOwed'
<1>1. Placed
  BY DEF TypeInv
<1>2. prePost' = prePost /\ firing' = firing /\ visited' = visited
  BY DEF Enter, PanicBody, LeaveScope, Close, UnwindObject, SendLeave, Closed, Unwound,
         UnwindCall, Post, SendBegin, queues, flags
<1>3. ASSUME NEW outs, NEW ins, Work(t, outs, ins), \A f \in outs : Free(f)
      PROVE  FlagsOwed'
  BY <1>1, <1>2, <1>3, FlagsFree
<1>4. \A f : Scope(f) \/ Inner(f) => Free(f)
  BY DEF Scope, Inner, Free
<1>5. CASE Enter(t, "closure") \/ Enter(t, "object") \/ PanicBody(t)
  <2>1. \E f : Work(t, {}, {f})
    BY <1>1, <1>5, ScopeWork
  <2> QED
    BY <1>3, <2>1
<1>6. CASE LeaveScope(t) \/ Close(t) \/ UnwindObject(t) \/ SendLeave(t)
  <2>1. PICK outs, ins :
          /\ \A f \in outs : Scope(f) \/ (f.op = "send" /\ f.pc = "leave")
          /\ depth = 1 => Work(t, outs, ins \cup {Counting})
          /\ depth # 1 => Work(t, outs, ins)
    BY <1>1, <1>6, ScopeWork
  <2>2. \A f \in outs : Free(f)
    BY <1>4, <2>1 DEF Free
  <2>3. \E more : Work(t, outs, more)
    BY <2>1
  <2> QED
    BY <1>3, <2>2, <2>3
<1>7. CASE Closed(t) \/ Unwound(t)
  <2>1. Scope(Top(t)) /\ Work(t, {Top(t)}, {})
    BY <1>1, <1>7, ScopeWork
  <2> QED
    BY <1>3, <1>4, <2>1
<1>8. CASE UnwindCall(t)
  <2>1. PICK outs, ins :
          /\ Work(t, outs, ins)
          /\ \A f \in outs : f.op \in {"unwind", "object"} \/ f = Stopped(t)
    BY <1>1, <1>8, UnwindWork
  <2>2. Inner(Stopped(t))
    BY <1>1, <1>8, RestIs DEF UnwindCall, Is
  <2>3. \A f \in outs : Free(f)
    BY <1>4, <2>1, <2>2 DEF Free
  <2> QED
    BY <1>3, <2>1, <2>3
<1>9. CASE Post(t)
  <2>1. stack' = stack
    BY <1>9 DEF Post
  <2>2. \A item : Owed(item) => Owed(item)'
    BY <1>2, <2>1 DEF Owed, Frames
  <2> QED
    BY <1>2, <2>2 DEF FlagsOwed
<1>10. CASE \E s \in Sink : SendBegin(t, s)
  <2>1. PICK s \in Sink : SendBegin(t, s)
    BY <1>10
  <2>2. Work(t, {}, {Sending("mark", <<s, sends + 1, FALSE>>)})
    BY <2>1, SendBeginWork
  <2> QED
    BY <1>3, <2>2
<1> QED
  BY <1>5, <1>6, <1>7, <1>8, <1>9, <1>10

(* A call that holds the depth keeps it above 0.                           *)
LEMMA HeldDepth ==
  ASSUME SharedInv, NEW f \in Frames(stack), f \in FrameSet, Holds(f)
  PROVE  depth > 0
<1>1. PICK u \in Thread : f \in Elements(stack[u])
  BY DEF Frames
<1>2. PICK i \in DOMAIN stack[u] : f = stack[u][i]
  BY <1>1 DEF Elements
<1>3. <<u, i>> \in {u} \X DOMAIN stack[u]
  OBVIOUS
<1>4. <<u, i>> \in On(stack, HoldF)
  BY <1>2, <1>3 DEF On, HoldF
<1>5. IsFiniteSet(On(stack, HoldF))
  BY Counts, Kinds DEF SharedInv
<1>6. N(stack, HoldF) # 0
  BY <1>4, <1>5, FS_EmptySet DEF N
<1> QED
  BY <1>6, Naturals DEF SharedInv, Accounts

LEMMA QueueStays ==
  ASSUME Placed, QueueHeld, NEW t \in Thread, NEW outs, NEW ins, Work(t, outs, ins),
         \A f \in outs : ~Before(f), prePost' = prePost, depth' = depth
  PROVE  QueueHeld'
<1>1. Frames(stack) \subseteq Frames(stack') \cup outs
  BY WorkFrames
<1> QED
  BY <1>1 DEF QueueHeld

LEMMA DepthNat == SharedInv => depth \in Nat
BY Naturals

LEMMA QueueStep ==
  ASSUME TypeInv, SharedInv, SharedInv', QueueHeld, SharedNext
  PROVE  QueueHeld'
<1>1. Placed /\ Data /\ depth \in Nat /\ depth' \in Nat
  <2>1. depth' \in Nat
    <3>1. (SharedInv => depth \in Nat)'
      BY DepthNat, PTL
    <3> QED
      BY <3>1
  <2> QED
    BY <2>1, Naturals DEF TypeInv
<1>2. PICK t \in Thread :
        \/ Enter(t, "closure") \/ Enter(t, "object")
        \/ LeaveScope(t) \/ Close(t) \/ Post(t)
        \/ \E s \in Sink : SendBegin(t, s)
        \/ CodeStep(t) \/ PanicStep(t)
  BY DEF SharedNext
<1>3. CASE depth' = depth + 1
  BY <1>1, <1>3 DEF QueueHeld
<1>4. CASE \/ Enter(t, "closure") \/ Enter(t, "object") \/ EndCount(t)
           \/ \E s \in Sink : SendBegin(t, s)
  BY <1>3, <1>4 DEF Enter, SendBegin, EndCount
<1>5. CASE LeaveScope(t) \/ Close(t) \/ UnwindObject(t) \/ SendLeave(t)
  <2>1. depth' = depth - 1 /\ (depth = 1 => Counting \in Frames(stack'))
    BY <1>1, <1>5, ScopeWork
  <2>2. Before(Counting)
    BY DEF Before, Counting, End
  <2>3. CASE depth = 1
    BY <2>1, <2>2, <2>3 DEF QueueHeld
  <2>4. CASE depth # 1
    <3>1. depth' > 0
      BY <1>1, <2>1, <2>4
    <3> QED
      BY <3>1 DEF QueueHeld
  <2> QED
    BY <2>3, <2>4
<1>6. CASE SendQueue(t)
  <2>1. stack[t] # <<>> /\ Top(t).op = "send" /\ depth' = depth
    BY <1>6 DEF SendQueue, Is
  <2>2. Top(t) \in Frames(stack) /\ Top(t) \in FrameSet /\ Holds(Top(t))
    BY <1>1, <2>1, StackIs DEF Holds
  <2>3. depth > 0
    BY <2>2, HeldDepth
  <2> QED
    BY <2>1, <2>3 DEF QueueHeld
<1>7. CASE NodeQueue(t)
  <2>1. stack[t] # <<>> /\ Top(t).op = "node" /\ depth' = depth
    BY <1>7 DEF NodeQueue, Is
  <2>2. PICK f \in Frames(stack) : f \in FrameSet /\ Batch(f)
    BY <1>1, <2>1, NodeTop
  <2>3. depth > 0
    BY <2>2, HeldDepth DEF Holds, Batch
  <2> QED
    BY <2>1, <2>3 DEF QueueHeld
<1>8. CASE EndUncount(t)
  <2>1. End("pre_post", <<>>) \in Frames(stack')
    BY <1>1, <1>8, EndWork DEF Over
  <2>2. Before(End("pre_post", <<>>))
    BY DEF Before, End
  <2> QED
    BY <2>1, <2>2 DEF QueueHeld
<1>9. CASE EndPrePost(t)
  BY <1>9 DEF EndPrePost, QueueHeld
<1>10. ASSUME NEW outs, NEW ins, Work(t, outs, ins),
              \A f \in outs : ~Before(f), prePost' = prePost, depth' = depth
       PROVE  QueueHeld'
  BY <1>1, <1>10, QueueStays
<1>11. CASE SendMark(t) \/ SendPush(t) \/ SendFire(t) \/ SendFlag(t)
  <2>1. ~Before(Top(t)) /\ prePost' = prePost /\ depth' = depth
    BY <1>11 DEF SendMark, SendPush, SendFire, SendFlag, Is, Before, queues
  <2>2. \E f : Over(t, f)
    BY <1>1, <1>11, SendWork
  <2>3. PICK f : Work(t, {Top(t)}, {f})
    BY <2>2 DEF Over
  <2> QED
    BY <1>10, <2>1, <2>3
<1>12. CASE \/ NodeSwap(t) \/ NodeVisit(t) \/ NodeAny(t) \/ NodeRun(t) \/ NodeSelf(t)
            \/ PanicHandler(t)
  <2>1. ~Before(Top(t)) /\ prePost' = prePost /\ depth' = depth
    BY <1>12 DEF NodeSwap, NodeVisit, NodeAny, NodeRun, NodeSelf, PanicHandler, Is, Before, queues
  <2>2. \E ins : Work(t, {Top(t)}, ins)
    <3>1. CASE NodeSwap(t) \/ PanicHandler(t)
      BY <1>1, <3>1, NodeWork, PanicWork DEF Over
    <3>2. CASE NodeVisit(t) \/ NodeAny(t) \/ NodeRun(t) \/ NodeSelf(t)
      BY <1>1, <3>2, NodeWork
    <3> QED
      BY <1>12, <3>1, <3>2
  <2> QED
    BY <1>10, <2>1, <2>2
<1>13. CASE EndTake(t) \/ EndBatch(t) \/ EndClear(t) \/ EndPost(t) \/ EndPosted(t) \/ EndRelease(t)
            \/ PanicPosted(t)
  <2>1. ~Before(Top(t)) /\ prePost' = prePost /\ depth' = depth
    BY <1>13
    DEF EndTake, EndBatch, EndClear, EndPost, EndPosted, EndRelease, PanicPosted, Is, Before, queues
  <2>2. \E ins : Work(t, {Top(t)}, ins)
    <3>1. CASE PanicPosted(t)
      BY <1>1, <3>1, PanicWork
    <3>2. CASE EndTake(t) \/ EndBatch(t) \/ EndRelease(t)
      BY <1>1, <3>2, EndWork
    <3>3. CASE EndClear(t) \/ EndPost(t) \/ EndPosted(t)
      <4>1. \E f : Over(t, f)
        BY <1>1, <3>3, EndWork
      <4> QED
        BY <4>1 DEF Over
    <3> QED
      BY <1>13, <3>1, <3>2, <3>3
  <2> QED
    BY <1>10, <2>1, <2>2
<1>14. CASE PanicBody(t) \/ Closed(t) \/ Unwound(t)
  <2>1. prePost' = prePost /\ depth' = depth
    BY <1>14 DEF PanicBody, Closed, Unwound, queues
  <2>2. \A f : Scope(f) => ~Before(f)
    BY DEF Scope, Before
  <2>3. \E outs, ins : Work(t, outs, ins) /\ \A f \in outs : Scope(f)
    <3>1. CASE PanicBody(t)
      <4>1. PICK f : Work(t, {}, {f})
        BY <1>1, <3>1, ScopeWork
      <4> QED
        BY <4>1
    <3>2. CASE Closed(t) \/ Unwound(t)
      <4>1. Work(t, {Top(t)}, {}) /\ \A f \in {Top(t)} : Scope(f)
        BY <1>1, <3>2, ScopeWork
      <4> QED
        BY <4>1
    <3> QED
      BY <1>14, <3>1, <3>2
  <2> QED
    BY <1>10, <2>1, <2>2, <2>3
<1>15. CASE UnwindCall(t)
  <2>1. prePost' = prePost /\ depth' = depth
    BY <1>15 DEF UnwindCall, queues
  <2>2. PICK outs, ins :
          /\ Work(t, outs, ins)
          /\ \A f \in outs : f.op \in {"unwind", "object"} \/ f = Stopped(t)
    BY <1>1, <1>15, UnwindWork
  <2>3. Inner(Stopped(t))
    BY <1>1, <1>15, RestIs DEF UnwindCall, Is
  <2>4. \A f \in outs : ~Before(f)
    BY <2>2, <2>3 DEF Before, Inner
  <2> QED
    BY <1>10, <2>1, <2>2, <2>4
<1>16. CASE Post(t)
  BY <1>16 DEF Post, QueueHeld, Frames
<1>17. CodeStep(t) => QueueHeld'
  BY <1>4, <1>5, <1>6, <1>7, <1>8, <1>9, <1>11, <1>12, <1>13, <1>14, <1>15
  DEF CodeStep, SendStep, EndStep, NodeStep, UnwindStep
<1>18. PanicStep(t) => QueueHeld'
  BY <1>12, <1>13, <1>14 DEF PanicStep
<1> QED
  BY <1>2, <1>4, <1>5, <1>16, <1>17, <1>18

LEMMA FlagsStep ==
  ASSUME TypeInv, SharedInv, SharedInv', FlagsInv, [SharedNext]_sharedVars
  PROVE  FlagsInv'
<1>1. CASE UNCHANGED sharedVars
  <2>1. /\ stack' = stack /\ prePost' = prePost /\ depth' = depth
        /\ firing' = firing /\ visited' = visited
    BY <1>1 DEF sharedVars, queues, flags
  <2>2. \A item : Owed(item) => Owed(item)'
    BY <2>1 DEF Owed, Frames
  <2>3. FlagsOwed'
    BY <2>1, <2>2 DEF FlagsInv, FlagsOwed
  <2>4. QueueHeld'
    BY <2>1 DEF FlagsInv, QueueHeld, Frames
  <2> QED
    BY <2>3, <2>4 DEF FlagsInv
<1>2. CASE SharedNext
  <2>1. FlagsOwed'
    <3>1. PICK t \in Thread :
            \/ Enter(t, "closure") \/ Enter(t, "object")
            \/ LeaveScope(t) \/ Close(t) \/ Post(t)
            \/ \E s \in Sink : SendBegin(t, s)
            \/ CodeStep(t) \/ PanicStep(t)
      BY <1>2 DEF SharedNext
    <3> QED
      BY <3>1, SendFlags, NodeFlags, EndFlags, CallFlags
      DEF FlagsInv, CodeStep, PanicStep, SendStep, UnwindStep
  <2>2. QueueHeld'
    BY <1>2, QueueStep DEF FlagsInv
  <2> QED
    BY <2>1, <2>2 DEF FlagsInv
<1> QED
  BY <1>1, <1>2

(* end_of_transaction, update_node and _send: when every thread is out of  *)
(* the library and no panic left the depth raised, pre_post has been       *)
(* emptied, nothing fires and every node can be visited again, so that no  *)
(* event reaches the listeners of a later transaction.  The panics are     *)
(* those of CountsHold.                                                    *)
THEOREM FlagsAreReset ==
  ASSUME ~PanicInClose
  PROVE  SharedSpec => []FlagsReset
<1>1. SharedInit => FlagsInv
  <2> SUFFICES ASSUME SharedInit
               PROVE  FlagsInv
    OBVIOUS
  <2>1. QueueHeld
    BY DEF SharedInit, QueueHeld
  <2>2. FlagsOwed
    BY DEF SharedInit, FlagsOwed
  <2> QED
    BY <2>1, <2>2 DEF FlagsInv
<1>2. (TypeInv /\ SharedInv) /\ (TypeInv /\ SharedInv)' /\ FlagsInv /\ [SharedNext]_sharedVars
        => FlagsInv'
  BY FlagsStep
<1>3. TypeInv /\ SharedInv /\ FlagsInv => FlagsReset
  <2> SUFFICES ASSUME SharedInv, FlagsInv, AtRest, raised = 0
               PROVE  /\ prePost = <<>>
                      /\ \A s \in Sink : firing[s] = 0
                      /\ \A n \in Node : ~visited[n]
    BY DEF FlagsReset
  <2>1. \A t \in Thread : stack[t] = <<>>
    BY DEF AtRest
  <2>2. N(stack, HoldF) = 0
    BY <2>1, NoCalls
  <2>3. depth = 0
    BY <2>2 DEF SharedInv, Accounts
  <2>4. Frames(stack) = {}
    BY <2>1 DEF Frames, Elements
  <2>5. prePost = <<>>
    BY <2>3, <2>4 DEF FlagsInv, QueueHeld
  <2>6. \A item : ~Owed(item)
    BY <2>4, <2>5 DEF Owed, Elements
  <2> QED
    BY <2>5, <2>6 DEF FlagsInv, FlagsOwed
<1>4. SharedSpec => [](TypeInv /\ SharedInv)
  BY StateHolds, SharedAlways, PTL
<1> QED
  BY <1>1, <1>2, <1>3, <1>4, PTL DEF SharedSpec

=============================================================================
