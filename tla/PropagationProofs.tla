-------------------------- MODULE PropagationProofs --------------------------
(***************************************************************************)
(* Theorems about SodiumCtx: a transaction is propagated exactly           *)
(* (PropagationExact) through every plain network, that is, one that is    *)
(* made beforehand of streams, holds, onces, deferrals and listeners, and  *)
(* has no detour.  Its size, shape, events and transactions are any.       *)
(*                                                                         *)
(* update_node updates a node after the dependencies it has visited, but   *)
(* it takes a node that is visited for one that is up to date: it passes   *)
(* by those whose own update is still below it on the stack.  So each call *)
(* must find that none of the nodes it is about to read is one of these.   *)
(* The calls in progress are a walk through the network (Trail): each went *)
(* up to an input or down to a reader of the one before it.  A node that   *)
(* is read by the top of the walk, and that the walk has left upwards, is  *)
(* just what HasDetour says there is none of (ReadsRun).                   *)
(*                                                                         *)
(* The rest is what the propagation has achieved so far (NodeRight).  A    *)
(* node is done when it is visited and its update is over.  What is done   *)
(* carries what its combinator makes of its inputs, which are done too;    *)
(* if it changed, each of its dependents is visited, or waits in the list  *)
(* of a call on the stack; and a sink that changed is visited or queued.   *)
(* When no call is left, everything that ought to have an event is done    *)
(* (Settled), and as the network has no cycles the events are those of     *)
(* Denotation, which computes them in rounds (DenotationOf).               *)
(***************************************************************************)
EXTENDS SodiumCtxProofs

(* Networks of which nothing changes but what once disconnects: made       *)
(* beforehand, without lifts, routers and switches, and no detour in them. *)
PlainKinds ==
  {"sink", "coalescing", "deferred", "map", "filter", "merge", "orElse", "snapshot", "hold",
   "loop", "once", "listen", "defer", "split"}

Layered(nt) ==
  \E rank \in [Nodes(nt) -> Nodes(nt)] :
    \A n \in Nodes(nt) : \A m \in Inputs(nt, n) : rank[m] < rank[n]

Plain(nt) ==
  /\ NetworkOK(nt) /\ nt.start = Len(nt.kind) /\ \A n \in Nodes(nt) : nt.kind[n] \in PlainKinds
  /\ Layered(nt) /\ ~HasDetour(nt)

-----------------------------------------------------------------------------
(* The inductive invariant.                                                *)

(* The network as it is wired: no dependency but those given, none but a   *)
(* once's is lost, and the dependents are the other side of them.          *)
Wired(nt, deps, dnts) ==
  /\ DOMAIN deps = Nodes(nt) /\ DOMAIN dnts = Nodes(nt)
  /\ \A n \in Nodes(nt) : deps[n] = nt.in[n] \/ (nt.kind[n] = "once" /\ deps[n] = <<>>)
  /\ \A m \in Nodes(nt) :
       IsList(dnts[m]) /\ Entries(dnts[m]) = {n \in Nodes(nt) : m \in Entries(deps[n])}

(* Queues *)
SinkList(nt, s) == IsList(s) /\ Entries(s) \subseteq Sinks(nt)
Resets(s) == IsList(s) /\ \A k \in Entries(s) : k.op \in {"clear", "unvisit"}
Posts(nt, s) ==
  /\ IsList(s)
  /\ \A k \in Entries(s) : /\ k.op = "send" => k.node \in Sinks(nt)
                           /\ k.op = "remove" => k.node \in Onces(nt)

EotFrame(nt, f) ==
  /\ {"op", "pc", "list"} \subseteq DOMAIN f
  /\ f.pc = "pre_eot" => f.list = <<>>
  /\ f.pc = "batch" => SinkList(nt, f.list)
  /\ f.pc = "pre_post" => Resets(f.list)
  /\ f.pc = "post" => Posts(nt, f.list)

(* A call of update_node: its node is visited, and so are the dependencies *)
(* it has left behind.                                                     *)
UpdateFrame(nt, deps, vi, f) ==
  /\ {"op", "pc", "node", "reads", "list"} \subseteq DOMAIN f
  /\ f.pc \in {"dependencies", "dependents"}
  /\ f.node \in Nodes(nt) /\ vi[f.node] /\ f.reads = deps[f.node]
  /\ IsList(f.list) /\ Entries(f.list) \subseteq Nodes(nt)
  /\ f.pc = "dependencies" => \A m \in Entries(f.reads) : m \in Entries(f.list) \/ vi[m]
  /\ f.pc = "dependencies" => Entries(f.list) \subseteq Entries(f.reads)
  /\ f.pc = "dependents" => \A m \in Entries(f.list) : f.node \in Inputs(nt, m)

(* The calls in progress are a walk through the network: from a sink, each *)
(* went up to an input or down to a reader, and none to a node twice.      *)
Leads(nt, f, g) ==
  IF f.pc = "dependencies" THEN g.node \in Inputs(nt, f.node) ELSE f.node \in Inputs(nt, g.node)

Trail(nt, deps, vi, s) ==
  \A i \in 1 .. Len(s) :
    /\ s[i].op = "eot" => EotFrame(nt, s[i])
    /\ s[i].op = "update" =>
         /\ i > 1 /\ UpdateFrame(nt, deps, vi, s[i])
         /\ \A j \in 1 .. i - 1 : s[j].op = "update" => s[j].node # s[i].node
         /\ IF s[i - 1].op = "update" THEN Leads(nt, s[i - 1], s[i]) ELSE s[i].node \in Sinks(nt)

(* A node is done when it is visited and its update is over.               *)
Unrun(s, n) == \E f \in Frames(s) : f.op = "update" /\ f.pc = "dependencies" /\ f.node = n
Done(s, vi, n) == vi[n] /\ ~Unrun(s, n)

(* What an update, or the loop over the changed nodes, is still to visit.  *)
Ahead(s, m, n) ==
  \E f \in Frames(s) :
    f.op = "update" /\ f.pc = "dependents" /\ f.node = m /\ n \in Entries(f.list)
Batched(s, n) ==
  \E f \in Frames(s) : f.op = "eot" /\ f.pc = "batch" /\ n \in Entries(f.list)

Right(nt, deps, fi, va, n) ==
  fi[n] = IF deps[n] = <<>> \/ nt.kind[n] \in Silent THEN NoEvent ELSE Event(nt, n, fi, va)

Input(nt, fi, n) == fi[nt.in[n][1]]

(* What has become of node n.                                              *)
NodeRight(n) ==
  LET done == Done(stack, visited, n) IN
  /\ firing[n] # NoEvent => changed[n]
  /\ n \in Sinks(net) /\ changed[n] =>
       visited[n] \/ n \in Entries(changedNodes) \/ Batched(stack, n)
  /\ n \notin Sinks(net) /\ ~done => firing[n] = NoEvent
  /\ n \notin Sinks(net) /\ done => Right(net, dependencies, firing, value, n)
  /\ done => \A m \in Entries(dependencies[n]) : Done(stack, visited, m)
  /\ done /\ changed[n] => \A m \in Entries(dependents[n]) : visited[m] \/ Ahead(stack, n, m)
  /\ n \in Cells(net) /\ done /\ Input(net, firing, n) # NoEvent =>
       next[n] = Input(net, firing, n)
  /\ n \in Listeners(net) =>
       IF done /\ Input(net, firing, n) # NoEvent
       THEN CalledOnce(n, Input(net, firing, n)) ELSE Calls(n) = {}

Wave == \A n \in Nodes(net) : NodeRight(n)

WaveInv ==
  /\ Wired(net, dependencies, dependents)
  /\ preEot = <<>> /\ Resets(prePost) /\ Posts(net, post) /\ SinkList(net, changedNodes)
  /\ Trail(net, dependencies, visited, stack)
  /\ DOMAIN next = Nodes(net) /\ IsList(heard)
  /\ ~Active(stack) => heard = <<>>
  /\ stack = <<>> => \A n \in Nodes(net) : ~visited[n]
  /\ stack = <<>> \/ Active(stack) => Wave

-----------------------------------------------------------------------------
(* Networks *)

(* What a node depends on: nothing if it is a sink, else one stream or, if *)
(* it joins streams, two; never itself.                                    *)
LEMMA InputsOf ==
  ASSUME NEW nt, Plain(nt), NEW n \in Nodes(nt)
  PROVE  /\ Len(nt.kind) \in Nat /\ nt.in[n] \in Seq(Nodes(nt))
         /\ IsList(nt.in[n]) /\ Entries(nt.in[n]) = Inputs(nt, n) /\ Inputs(nt, n) \subseteq Nodes(nt)
         /\ n \in Sinks(nt) <=> nt.in[n] = <<>>
         /\ n \notin Sinks(nt) => nt.in[n][1] \in Inputs(nt, n)
         /\ nt.kind[n] \in {"merge", "orElse"} => nt.in[n][2] \in Inputs(nt, n)
         /\ n \notin Inputs(nt, n)
         /\ \A m \in Inputs(nt, n) : nt.kind[m] \notin Silent
<1> DEFINE s == nt.in[n]
<1>1. /\ Len(nt.kind) \in Nat /\ nt.in \in Seq(Seq(Nodes(nt))) /\ Len(nt.in) = Len(nt.kind)
      /\ Len(s) = IF n \in Sinks(nt) THEN 0
                  ELSE IF nt.kind[n] \in {"merge", "orElse"} THEN 2 ELSE 1
      /\ nt.kind[n] \in PlainKinds
      /\ nt.kind[n] \notin {"route", "switch", "switchC"} =>
            \A m \in Inputs(nt, n) : nt.kind[m] \notin Silent
  BY LenProperties DEF Plain, NetworkOK
<1>2. s \in Seq(Nodes(nt))
  BY <1>1, ElementOfSeq DEF Nodes
<1> HIDE DEF s
<1>3. IsList(s) /\ Len(s) \in Nat /\ DOMAIN s = 1 .. Len(s) /\ \A i \in 1 .. Len(s) : s[i] \in Nodes(nt)
  BY <1>2, ListOf, LenProperties, ElementOfSeq
<1>4. Entries(s) = Inputs(nt, n) /\ Inputs(nt, n) \subseteq Nodes(nt)
  BY <1>3 DEF Entries, Inputs, s
<1>5. n \in Sinks(nt) <=> s = <<>>
  <2>1. (n \in Sinks(nt) => Len(s) = 0) /\ (n \notin Sinks(nt) => Len(s) # 0)
    BY <1>1
  <2>2. s = <<>> <=> Len(s) = 0
    BY <1>2, EmptySeq
  <2> QED BY <2>1, <2>2
<1>6. n \notin Sinks(nt) => s[1] \in Entries(s)
  BY <1>1 DEF Entries
<1>7. nt.kind[n] \in {"merge", "orElse"} => s[2] \in Entries(s)
  <2>1. nt.kind[n] \in {"merge", "orElse"} => n \notin Sinks(nt)
    BY DEF Sinks, OfKind
  <2> QED BY <1>1, <2>1 DEF Entries
<1>8. n \notin Inputs(nt, n)
  <2>1. PICK rank \in [Nodes(nt) -> Nodes(nt)] :
          \A k \in Nodes(nt) : \A m \in Inputs(nt, k) : rank[m] < rank[k]
    BY DEF Plain, Layered
  <2>2. rank[n] \in Nodes(nt)
    BY <2>1
  <2>3. Nodes(nt) \subseteq Nat
    BY <1>1 DEF Nodes
  <2> QED BY <2>1, <2>2, <2>3
<1>9. nt.kind[n] \notin {"route", "switch", "switchC"}
  BY <1>1 DEF PlainKinds
<1> QED BY <1>1, <1>2, <1>3, <1>4, <1>5, <1>6, <1>7, <1>8, <1>9 DEF s

(* What a node makes of its inputs depends on nothing else that streams    *)
(* carry, and is nothing where they carry nothing.                         *)
LEMMA EventOf ==
  ASSUME NEW nt, Plain(nt), NEW n \in Nodes(nt), n \notin Sinks(nt), NEW e, NEW held
  PROVE  /\ \A d : (\A m \in Inputs(nt, n) : d[m] = e[m]) => Event(nt, n, d, held) = Event(nt, n, e, held)
         /\ (\A m \in Inputs(nt, n) : e[m] = NoEvent) => Event(nt, n, e, held) = NoEvent
         /\ nt.kind[n] \in Silent => Event(nt, n, e, held) = e[nt.in[n][1]]
<1>1. /\ nt.in[n][1] \in Inputs(nt, n)
      /\ nt.kind[n] \in {"merge", "orElse"} => nt.in[n][2] \in Inputs(nt, n)
      /\ nt.kind[n] \in PlainKinds
  BY InputsOf DEF Plain
<1>2. nt.kind[n] \in {"map", "filter", "merge", "orElse", "snapshot", "hold", "loop", "once",
                      "listen", "defer", "split"}
  BY <1>1 DEF PlainKinds, Sinks, OfKind
<1>3. \A d : (\A m \in Inputs(nt, n) : d[m] = e[m]) => Event(nt, n, d, held) = Event(nt, n, e, held)
  BY <1>1, <1>2 DEF Event
<1>4. (\A m \in Inputs(nt, n) : e[m] = NoEvent) => Event(nt, n, e, held) = NoEvent
  <2>1. NoEvent \o NoEvent = NoEvent
    BY DEF NoEvent
  <2> QED BY <1>1, <1>2, <2>1 DEF Event, Merge, OrElse
<1>5. nt.kind[n] \in Silent => Event(nt, n, e, held) = e[nt.in[n][1]]
  BY <1>2 DEF Event, Silent
<1> QED BY <1>3, <1>4, <1>5

(* A node is not its own input, nor an input of its inputs, and so on: the *)
(* walks through the network.  w is one that starts at a sink.             *)
IsWalk(nt, w) ==
  /\ w \in Seq(Nodes(nt)) /\ w # <<>> /\ w[1] \in Sinks(nt)
  /\ \A i \in 1 .. Len(w) - 1 : w[i + 1] \in Inputs(nt, w[i]) \/ w[i] \in Inputs(nt, w[i + 1])
  /\ \A i, j \in 1 .. Len(w) : w[i] = w[j] => i = j

(* Walks finds them all: the beginnings of w, one after the other.         *)
LEMMA WalksAll ==
  ASSUME NEW nt, Len(nt.kind) \in Nat, NEW w, IsWalk(nt, w)
  PROVE  w \in Walks(nt)
<1> DEFINE L == Len(nt.kind)
           beside(m) == Inputs(nt, m) \cup Readers(nt, {m})
           Next1(v) == {Append(v, m) : m \in beside(v[Len(v)]) \ {v[i] : i \in DOMAIN v}}
           More(W) == W \cup UNION {Next1(v) : v \in W}
           First == {<<n>> : n \in Sinks(nt) \cup OfKind(nt, {"route"})}
           Solves(g, k) == g = [i \in 0 .. k |-> IF i = 0 THEN First ELSE More(g[i - 1])]
           f == CHOOSE g : Solves(g, L)
<1>1. Walks(nt) = f[L]
  BY DEF Walks
<1>0. L \in Nat /\ 0 \in 0 .. L /\ L \in 0 .. L
  OBVIOUS
<1>20. \A W, v, m : v \in W /\ m \in beside(v[Len(v)]) /\ m \notin {v[i] : i \in DOMAIN v} =>
                     Append(v, m) \in More(W)
  <2> TAKE W, v, m
  <2> HAVE v \in W /\ m \in beside(v[Len(v)]) /\ m \notin {v[i] : i \in DOMAIN v}
  <2> HIDE DEF beside
  <2>1. Append(v, m) \in Next1(v)
    OBVIOUS
  <2> HIDE DEF Next1
  <2> QED BY <2>1
<1>21. \A W : W \subseteq More(W)
  OBVIOUS
<1>22. \A n \in Sinks(nt) : <<n>> \in First
  OBVIOUS
<1> HIDE DEF L, More, First
<1>3. \A k \in 0 .. L : \E g : Solves(g, k)
  <2> DEFINE P == {k \in 0 .. L : \E g : Solves(g, k)}
  <2>1. 0 \in P
    <3> DEFINE g == [i \in 0 .. 0 |-> First]
    <3>1. \A i \in 0 .. 0 : i = 0
      OBVIOUS
    <3>2. g = [i \in 0 .. 0 |-> IF i = 0 THEN First ELSE More(g[i - 1])]
      BY <3>1
    <3> QED BY <1>0, <3>2
  <2>2. ASSUME NEW k \in 0 .. L, k + 1 <= L, k \in P
        PROVE  k + 1 \in P
    <3>1. PICK g : Solves(g, k)
      BY <2>2
    <3> DEFINE j == k + 1
               h == [i \in 0 .. j |-> IF i = j THEN More(g[k]) ELSE g[i]]
    <3>2. /\ j \in 0 .. L /\ j # 0 /\ j - 1 = k /\ k \in 0 .. k /\ j \in 0 .. j
          /\ \A i \in 0 .. j : i = j \/ (i \in 0 .. k /\ i # j /\ (i # 0 => i - 1 \in 0 .. k /\ i - 1 # j))
          /\ 0 .. k \subseteq 0 .. j
      BY <1>0, <2>2
    <3>3. h[j] = More(g[k]) /\ \A i \in 0 .. k : h[i] = g[i]
      BY <3>2
    <3>8. \A i \in 0 .. k : g[i] = IF i = 0 THEN First ELSE More(g[i - 1])
      <4> DEFINE e == [i \in 0 .. k |-> IF i = 0 THEN First ELSE More(g[i - 1])]
      <4>1. \A i \in 0 .. k : e[i] = IF i = 0 THEN First ELSE More(g[i - 1])
        OBVIOUS
      <4>2. g = e
        BY <3>1
      <4> HIDE DEF e
      <4> QED BY <4>1, <4>2
    <3>4. h = [i \in 0 .. j |-> h[i]]
      OBVIOUS
    <3> HIDE DEF h
    <3>5. ASSUME NEW i \in 0 .. j
          PROVE  h[i] = IF i = 0 THEN First ELSE More(h[i - 1])
      <4>1. CASE i = j
        <5>1. h[i - 1] = g[k] /\ i # 0
          BY <3>2, <3>3, <4>1
        <5> QED BY <3>3, <4>1, <5>1
      <4>2. CASE i = 0
        BY <3>2, <3>3, <3>8, <4>2
      <4>3. CASE i # j /\ i # 0
        <5>1. i \in 0 .. k /\ i - 1 \in 0 .. k
          BY <3>2, <4>3
        <5>2. h[i] = g[i] /\ h[i - 1] = g[i - 1]
          BY <3>3, <5>1
        <5> QED BY <3>8, <4>3, <5>1, <5>2
      <4> QED BY <4>1, <4>2, <4>3
    <3>6. Solves(h, j)
      BY <3>4, <3>5
    <3>7. \E e : Solves(e, j)
      BY <3>6
    <3> HIDE DEF Solves, j
    <3>9. j \in P
      BY <3>2, <3>7
    <3> QED BY <3>9 DEF j
  <2> HIDE DEF P
  <2>3. 0 .. L \subseteq P
    BY <1>0, <2>1, <2>2, Induct
  <2> QED BY <2>3 DEF P
<1>4. Solves(f, L)
  <2>1. PICK g : Solves(g, L)
    BY <1>0, <1>3
  <2> QED BY <2>1
<1> HIDE DEF f
<1>5. \A i \in 0 .. L : f[i] = IF i = 0 THEN First ELSE More(f[i - 1])
  <2> DEFINE e == [i \in 0 .. L |-> IF i = 0 THEN First ELSE More(f[i - 1])]
  <2>1. \A i \in 0 .. L : e[i] = IF i = 0 THEN First ELSE More(f[i - 1])
    OBVIOUS
  <2>2. f = e
    BY <1>4
  <2> HIDE DEF e
  <2> QED BY <2>1, <2>2
<1>6. /\ w \in Seq(Nodes(nt)) /\ Len(w) \in Nat \ {0} /\ DOMAIN w = 1 .. Len(w)
      /\ w[1] \in Sinks(nt) /\ \A i \in 1 .. Len(w) : w[i] \in Nodes(nt)
      /\ \A i \in 1 .. Len(w) - 1 : w[i + 1] \in Inputs(nt, w[i]) \/ w[i] \in Inputs(nt, w[i + 1])
      /\ \A i, j \in 1 .. Len(w) : w[i] = w[j] => i = j
  BY EmptySeq, LenProperties, ElementOfSeq DEF IsWalk
<1>7. Len(w) <= L
  <2>1. w \in [1 .. Len(w) -> 1 .. L]
    BY <1>6, LenProperties DEF Nodes, L
  <2>2. w \in Injection(1 .. Len(w), 1 .. L)
    BY <1>6, <2>1 DEF Injection, IsInjective
  <2>3. \A k \in Nat : IsFiniteSet(1 .. k) /\ Cardinality(1 .. k) = k
    <3> TAKE k \in Nat
    <3>1. 1 \in Int /\ k \in Int /\ (IF 1 > k THEN 0 ELSE k - 1 + 1) = k
      OBVIOUS
    <3> QED BY <3>1, FS_Interval
  <2>4. IsFiniteSet(1 .. L) /\ Cardinality(1 .. L) = L /\ Cardinality(1 .. Len(w)) = Len(w)
    BY <1>0, <1>6, <2>3
  <2>5. Cardinality(1 .. Len(w)) <= Cardinality(1 .. L)
    BY <2>2, <2>4, FS_Injection
  <2> QED BY <2>4, <2>5
<1> DEFINE Begin(i) == SubSeq(w, 1, i)
<1>8. ASSUME NEW i \in 1 .. Len(w)
      PROVE  /\ Begin(i) \in Seq(Nodes(nt)) /\ Len(Begin(i)) = i /\ DOMAIN Begin(i) = 1 .. i
             /\ \A j \in 1 .. i : Begin(i)[j] = w[j]
  <2>1. 1 \in Int /\ i \in Int /\ \A j \in 1 .. i : w[j] \in Nodes(nt)
    BY <1>6
  <2>2. /\ Begin(i) \in Seq(Nodes(nt)) /\ Len(Begin(i)) = IF 1 <= i THEN i - 1 + 1 ELSE 0
        /\ \A j \in 1 .. i - 1 + 1 : Begin(i)[j] = w[1 + j - 1]
    BY <2>1, SubSeqProperties
  <2>3. i - 1 + 1 = i /\ \A j \in 1 .. i : 1 + j - 1 = j
    BY <2>1
  <2> HIDE DEF Begin
  <2>4. Len(Begin(i)) = i /\ \A j \in 1 .. i : Begin(i)[j] = w[j]
    BY <1>6, <2>2, <2>3
  <2> QED BY <2>2, <2>4, LenProperties
<1>9. ASSUME NEW i \in 1 .. Len(w) - 1
      PROVE  Begin(i + 1) = Append(Begin(i), w[i + 1])
  <2>1. i \in 1 .. Len(w) /\ i + 1 \in 1 .. Len(w) /\ i \in Nat
    BY <1>6
  <2> HIDE DEF Begin
  <2>2. /\ Append(Begin(i), w[i + 1]) \in Seq(Nodes(nt))
        /\ Len(Append(Begin(i), w[i + 1])) = i + 1
        /\ \A j \in 1 .. i : Append(Begin(i), w[i + 1])[j] = w[j]
        /\ Append(Begin(i), w[i + 1])[i + 1] = w[i + 1]
    BY <1>6, <1>8, <2>1, AppendProperties
  <2>3. \A j \in 1 .. i + 1 : j = i + 1 \/ j \in 1 .. i
    BY <2>1
  <2>4. \A j \in 1 .. i + 1 : Append(Begin(i), w[i + 1])[j] = Begin(i + 1)[j]
    BY <1>8, <2>1, <2>2, <2>3
  <2> QED BY <1>8, <2>1, <2>2, <2>4, SeqEqual
<1>10. Begin(1) = <<w[1]>>
  <2>1. 1 \in 1 .. Len(w) /\ 1 \in 1 .. 1
    BY <1>6
  <2> HIDE DEF Begin
  <2>2. <<w[1]>> \in Seq(Nodes(nt)) /\ Len(<<w[1]>>) = 1 /\ <<w[1]>>[1] = w[1]
    BY <1>6, <2>1
  <2>3. \A j \in 1 .. 1 : Begin(1)[j] = <<w[1]>>[j]
    BY <1>8, <2>1, <2>2
  <2> QED BY <1>8, <2>1, <2>2, <2>3, SeqEqual
<1>11. Begin(Len(w)) = w
  BY <1>6, SubSeqFull
<1> DEFINE P == {k \in 0 .. L : \A i \in 1 .. Len(w) : i <= k + 1 => Begin(i) \in f[k]}
<1> HIDE DEF Begin
<1>12. 0 \in P
  <2>1. \A i \in 1 .. Len(w) : i <= 0 + 1 => i = 1
    BY <1>6
  <2>2. f[0] = First
    BY <1>0, <1>5
  <2> QED BY <1>0, <1>6, <1>10, <1>22, <2>1, <2>2
<1>13. ASSUME NEW k \in 0 .. L, k + 1 <= L, k \in P
       PROVE  k + 1 \in P
  <2> DEFINE j == k + 1
  <2>1. j \in 0 .. L /\ j # 0 /\ j - 1 = k /\ j \in Nat
    BY <1>0, <1>13
  <2> HIDE DEF j
  <2>2. f[j] = More(f[k])
    BY <1>5, <2>1
  <2>3. ASSUME NEW i \in 1 .. Len(w), i <= j + 1
        PROVE  Begin(i) \in f[j]
    <3>1. CASE i <= k + 1
      BY <1>13, <1>21, <2>2, <3>1
    <3>2. CASE ~(i <= k + 1)
      <4>1. /\ i = j + 1 /\ j \in 1 .. Len(w) /\ j \in 1 .. Len(w) - 1 /\ j <= k + 1 /\ j \in 1 .. j
            /\ \A l \in 1 .. j : l \in 1 .. Len(w) /\ l # j + 1
        BY <1>6, <2>1, <2>3, <3>2
      <4>2. Begin(j) \in f[k]
        BY <1>13, <4>1
      <4>3. Begin(j)[Len(Begin(j))] = w[j]
        BY <1>8, <4>1
      <4>4. w[i] \in beside(Begin(j)[Len(Begin(j))])
        <5>1. w[i] \in Inputs(nt, w[j]) \/ w[j] \in Inputs(nt, w[i])
          BY <1>6, <4>1
        <5>2. w[i] \in Nodes(nt)
          BY <1>6
        <5>3. w[i] \in Inputs(nt, w[j]) \/ w[i] \in Readers(nt, {w[j]})
          BY <5>1, <5>2 DEF Readers
        <5> QED BY <4>3, <5>3
      <4>5. w[i] \notin {Begin(j)[l] : l \in DOMAIN Begin(j)}
        <5>1. ASSUME NEW l \in DOMAIN Begin(j), Begin(j)[l] = w[i]
              PROVE  FALSE
          <6>1. l \in 1 .. j /\ w[l] = w[i]
            BY <1>8, <4>1, <5>1
          <6> QED BY <1>6, <4>1, <6>1
        <5> QED BY <5>1
      <4>6. Begin(i) = Append(Begin(j), w[i])
        BY <1>9, <4>1
      <4> HIDE DEF beside
      <4> QED BY <1>20, <2>2, <4>2, <4>4, <4>5, <4>6
    <3> QED BY <3>1, <3>2
  <2>4. j \in P
    BY <2>1, <2>3
  <2> QED BY <2>4 DEF j
<1> HIDE DEF P
<1>14. 0 .. L \subseteq P
  BY <1>0, <1>12, <1>13, Induct
<1>15. L \in P /\ Len(w) \in 1 .. Len(w) /\ Len(w) <= L + 1
  BY <1>0, <1>6, <1>7, <1>14
<1> QED BY <1>1, <1>11, <1>15 DEF P

(* Why no detour matters: a call whose node has had its dependencies       *)
(* visited reads none whose own call is still visiting its dependencies.   *)
LEMMA ReadsRun ==
  ASSUME NEW nt, Plain(nt), NEW deps, NEW dnts, Wired(nt, deps, dnts), NEW vi,
         NEW s, Shape(s), s # <<>>, Trail(nt, deps, vi, s), s[Len(s)].op = "update",
         NEW m \in Entries(s[Len(s)].reads)
  PROVE  ~Unrun(s, m)
<1> DEFINE T == Len(s)
           n == s[T].node
           Block == {j \in 1 .. T : \A k \in j .. T : s[k].op = "update"}
<1> SUFFICES ASSUME Unrun(s, m) PROVE FALSE
  OBVIOUS
<1>1. T \in Nat \ {0} /\ T \in 1 .. T
  BY TopFrame
<1>2. /\ UpdateFrame(nt, deps, vi, s[T]) /\ n \in Nodes(nt) /\ s[T].reads = deps[n]
  BY <1>1 DEF Trail, UpdateFrame
<1>3. m \in Inputs(nt, n)
  <2>1. deps[n] = nt.in[n] \/ deps[n] = <<>>
    BY <1>2 DEF Wired
  <2>2. Entries(deps[n]) \subseteq Inputs(nt, n)
    BY <1>2, <2>1, InputsOf, ListEmpty
  <2> QED BY <1>2, <2>2
<1>4. PICK i \in 1 .. T : s[i].op = "update" /\ s[i].pc = "dependencies" /\ s[i].node = m
  BY DEF Unrun, Frames
<1>5. i # T
  BY <1>2, <1>3, <1>4, InputsOf
<1>6. i \in Block
  <2>1. ASSUME NEW k \in i .. T
        PROVE  s[k].op = "update"
    <3>1. k \in 1 .. T
      BY <1>1, <1>4, <2>1
    <3>2. CASE k = i
      BY <1>4, <3>2
    <3>3. CASE k # i
      <4>1. i \in 1 .. k - 1
        BY <1>1, <1>4, <2>1, <3>3
      <4>2. Propagates(s[i])
        BY <1>4 DEF Propagates
      <4> QED BY <3>1, <4>1, <4>2 DEF Shape, FrameOK
    <3> QED BY <3>2, <3>3
  <2> QED BY <1>4, <2>1
<1>7. Block \in SUBSET Nat /\ Block # {}
  BY <1>1, <1>6
<1>8. PICK a \in Block : \A k \in Block : a <= k
  <2> HIDE DEF Block
  <2> QED BY <1>7, LeastNat
<1>9. /\ a \in 1 .. T /\ a <= i /\ a \in Nat \ {0}
      /\ \A k \in a .. T : s[k].op = "update" /\ k \in 1 .. T
  BY <1>1, <1>6, <1>8
<1>10. s[a].node \in Sinks(nt)
  <2>1. s[a].op = "update" /\ a > 1
    BY <1>1, <1>9 DEF Shape, FrameOK
  <2> DEFINE b == a - 1
  <2>2. b \in 1 .. T /\ b < a /\ \A k \in b .. T : k = b \/ k \in a .. T
    BY <1>1, <1>9, <2>1
  <2> HIDE DEF b
  <2>3. s[b].op # "update"
    <3>1. b \notin Block
      BY <1>8, <1>9, <2>2
    <3> QED BY <1>9, <2>2, <3>1
  <2> QED BY <1>9, <2>1, <2>3 DEF Trail, b
<1> HIDE DEF Block
<1> DEFINE w == [k \in 1 .. T - a + 1 |-> s[a + k - 1].node]
           l == T - a + 1
           h == i - a + 1
<1>11. /\ l \in Nat \ {0} /\ h \in 1 .. l - 1 /\ a + h - 1 = i /\ a + (h + 1) - 1 = i + 1
       /\ a + l - 1 = T /\ a + 1 - 1 = a
       /\ \A k \in 1 .. l : a + k - 1 \in a .. T
       /\ \A j, k \in 1 .. l : a + j - 1 = a + k - 1 => j = k
       /\ \A k \in 1 .. l - 1 : /\ a + (k + 1) - 1 = (a + k - 1) + 1 /\ k \in 1 .. l /\ k + 1 \in 1 .. l
                                /\ (a + k - 1) + 1 - 1 = a + k - 1
  BY <1>1, <1>4, <1>5, <1>9
<1>12. \A k \in 1 .. l : w[k] = s[a + k - 1].node
  OBVIOUS
<1>13. /\ w \in Seq(Nodes(nt)) /\ Len(w) = l
  <2>1. \A k \in 1 .. l : w[k] \in Nodes(nt)
    BY <1>9, <1>11, <1>12 DEF Trail, UpdateFrame
  <2>2. w \in [1 .. l -> Nodes(nt)]
    BY <2>1
  <2> HIDE DEF w, l
  <2> QED BY <1>11, <2>2, SeqDef
<1> HIDE DEF w, l, h
<1>14. ASSUME NEW k \in 1 .. l - 1
       PROVE  Leads(nt, s[a + k - 1], s[a + (k + 1) - 1])
  <2> DEFINE p == a + k - 1
             q == a + (k + 1) - 1
  <2>1. q \in a .. T /\ p \in a .. T /\ q - 1 = p
    <3>1. k \in 1 .. l /\ k + 1 \in 1 .. l
      BY <1>11
    <3>2. p \in a .. T /\ q \in a .. T
      BY <1>11, <3>1
    <3>3. q = p + 1 /\ p + 1 - 1 = p
      BY <1>11
    <3> QED BY <3>2, <3>3
  <2> HIDE DEF p, q
  <2>2. s[q].op = "update" /\ s[q - 1].op = "update" /\ q \in 1 .. T
    BY <1>9, <2>1
  <2>3. s[q].op = "update" =>
          IF s[q - 1].op = "update" THEN Leads(nt, s[q - 1], s[q]) ELSE s[q].node \in Sinks(nt)
    <3> HIDE DEF T
    <3> QED BY <2>2 DEF Trail, T
  <2>4. Leads(nt, s[p], s[q])
    BY <2>1, <2>2, <2>3
  <2> QED BY <2>4 DEF p, q
<1>15. IsWalk(nt, w)
  <2>1. w # <<>>
    BY <1>11, <1>13, EmptySeq
  <2>2. w[1] \in Sinks(nt)
    <3>1. 1 \in 1 .. l
      BY <1>11
    <3> QED BY <1>10, <1>11, <1>12, <3>1
  <2>3. ASSUME NEW k \in 1 .. l - 1
        PROVE  w[k + 1] \in Inputs(nt, w[k]) \/ w[k] \in Inputs(nt, w[k + 1])
    BY <1>11, <1>12, <1>14 DEF Leads
  <2>4. ASSUME NEW j \in 1 .. l, NEW k \in 1 .. l, w[j] = w[k]
        PROVE  j = k
    <3> DEFINE p == a + j - 1
               q == a + k - 1
    <3>1. p \in a .. T /\ q \in a .. T /\ (p = q => j = k) /\ s[p].node = s[q].node
      BY <1>11, <1>12, <2>4
    <3> HIDE DEF p, q
    <3>2. p \in 1 .. T /\ q \in 1 .. T /\ s[p].op = "update" /\ s[q].op = "update"
      BY <1>9, <3>1
    <3>3. p = q \/ p \in 1 .. q - 1 \/ q \in 1 .. p - 1
      BY <1>1, <3>2
    <3>4. p = q
      BY <3>1, <3>2, <3>3 DEF Trail
    <3> QED BY <3>1, <3>4
  <2> QED BY <1>13, <2>1, <2>2, <2>3, <2>4 DEF IsWalk
<1>16. w[h + 1] \in Inputs(nt, w[h]) /\ w[h] = m /\ w[Len(w)] = n
  <2>1. h \in 1 .. l /\ h + 1 \in 1 .. l /\ l \in 1 .. l
    BY <1>11
  <2>2. w[h] = m /\ w[l] = n
    BY <1>4, <1>11, <1>12, <2>1
  <2>3. Leads(nt, s[i], s[a + (h + 1) - 1])
    BY <1>11, <1>14
  <2>4. w[h + 1] \in Inputs(nt, w[h])
    BY <1>4, <1>12, <2>1, <2>2, <2>3 DEF Leads
  <2> QED BY <1>13, <2>2, <2>4
<1>17. Len(nt.kind) \in Nat
  BY <1>2, InputsOf
<1>18. w \in Walks(nt)
  BY <1>15, <1>17, WalksAll
<1>19. HasDetour(nt)
  BY <1>3, <1>11, <1>13, <1>16, <1>18 DEF HasDetour
<1> QED BY <1>19 DEF Plain

(* What the rounds of Denotation settle on: whatever assignment of events  *)
(* is, at every node, what the combinator makes of those of its inputs.    *)
LEMMA DenotationOf ==
  ASSUME NEW nt, Plain(nt), NEW sent, NEW held, NEW active, NEW F,
         \A n \in Nodes(nt) :
           F[n] = IF n \in Sinks(nt) THEN sent[n]
                  ELSE IF ~active[n] THEN NoEvent ELSE Event(nt, n, F, held)
  PROVE  \A n \in Nodes(nt) : Denotation(nt, sent, held, active)[n] = F[n]
<1> DEFINE L == Len(nt.kind)
           At(n, k, before) == IF n \in Sinks(nt) THEN sent[n]
                               ELSE IF k = 0 \/ ~active[n] THEN NoEvent
                               ELSE Event(nt, n, before, held)
           Solves(g, k) == g = [i \in 0 .. k |-> [n \in Nodes(nt) |-> At(n, i, g[i - 1])]]
           f == CHOOSE g : Solves(g, L)
<1>1. Denotation(nt, sent, held, active) = f[L]
  BY DEF Denotation
<1>2. L \in Nat /\ Nodes(nt) = 1 .. L
  BY LenProperties DEF Plain, NetworkOK, Nodes
<1>3. PICK rank \in [Nodes(nt) -> Nodes(nt)] :
        \A n \in Nodes(nt) : \A m \in Inputs(nt, n) : rank[m] < rank[n]
  BY DEF Plain, Layered
<1>4. \A n \in Nodes(nt) : \A d, e : At(n, 0, d) = At(n, 0, e)
  OBVIOUS
<1>5. \A n \in Nodes(nt) : \A k, e :
        k # 0 /\ (\A m \in Inputs(nt, n) : e[m] = F[m]) => At(n, k, e) = F[n]
  <2> TAKE n \in Nodes(nt)
  <2> TAKE k, e
  <2> HAVE k # 0 /\ (\A m \in Inputs(nt, n) : e[m] = F[m])
  <2>1. n \notin Sinks(nt) => Event(nt, n, e, held) = Event(nt, n, F, held)
    BY EventOf
  <2> QED BY <2>1
<1> HIDE DEF L, At
<1>6. \A k \in 0 .. L : \E g : Solves(g, k)
  <2> DEFINE P == {k \in 0 .. L : \E g : Solves(g, k)}
  <2>1. 0 \in P
    <3> DEFINE g == [i \in 0 .. 0 |-> [n \in Nodes(nt) |-> At(n, 0, sent)]]
    <3>1. \A i \in 0 .. 0 : i = 0
      OBVIOUS
    <3>2. g = [i \in 0 .. 0 |-> [n \in Nodes(nt) |-> At(n, i, g[i - 1])]]
      BY <1>4, <3>1
    <3>3. \E e : Solves(e, 0)
      BY <3>2
    <3>4. 0 \in 0 .. L
      BY <1>2
    <3> HIDE DEF Solves
    <3> QED BY <3>3, <3>4
  <2>2. ASSUME NEW k \in 0 .. L, k + 1 <= L, k \in P
        PROVE  k + 1 \in P
    <3>1. PICK g : Solves(g, k)
      BY <2>2
    <3> DEFINE j == k + 1
               new == [n \in Nodes(nt) |-> At(n, j, g[k])]
               h == [i \in 0 .. j |-> IF i = j THEN new ELSE g[i]]
    <3>2. /\ j \in 0 .. L /\ j # 0 /\ j - 1 = k /\ k \in 0 .. k /\ j \in 0 .. j
          /\ \A i \in 0 .. j : i = j \/ (i \in 0 .. k /\ i # j /\ (i # 0 => i - 1 \in 0 .. k /\ i - 1 # j))
          /\ 0 .. k \subseteq 0 .. j
      BY <1>2, <2>2
    <3> HIDE DEF j
    <3>3. h[j] = new /\ \A i \in 0 .. k : h[i] = g[i]
      <4> HIDE DEF new
      <4>1. \A i \in 0 .. k : i # j
        BY <2>2 DEF j
      <4> QED BY <3>2, <4>1
    <3>4. \A i \in 0 .. k : g[i] = [n \in Nodes(nt) |-> At(n, i, g[i - 1])]
      <4> DEFINE e == [i \in 0 .. k |-> [n \in Nodes(nt) |-> At(n, i, g[i - 1])]]
      <4>1. \A i \in 0 .. k : e[i] = [n \in Nodes(nt) |-> At(n, i, g[i - 1])]
        OBVIOUS
      <4>2. g = e
        BY <3>1
      <4> HIDE DEF e
      <4> QED BY <4>1, <4>2
    <3>5. h = [i \in 0 .. j |-> h[i]]
      OBVIOUS
    <3> HIDE DEF h
    <3>6. ASSUME NEW i \in 0 .. j
          PROVE  h[i] = [n \in Nodes(nt) |-> At(n, i, h[i - 1])]
      <4>1. CASE i = j
        BY <3>2, <3>3, <4>1
      <4>2. CASE i = 0
        <5>1. 0 \in 0 .. k /\ h[0] = g[0]
          BY <2>2, <3>3
        <5>2. g[0] = [n \in Nodes(nt) |-> At(n, 0, g[0 - 1])]
          BY <3>4, <5>1
        <5>3. [n \in Nodes(nt) |-> At(n, 0, g[0 - 1])] = [n \in Nodes(nt) |-> At(n, 0, h[0 - 1])]
          BY <1>4
        <5> QED BY <4>2, <5>1, <5>2, <5>3
      <4>3. CASE i # j /\ i # 0
        <5>1. i \in 0 .. k /\ i - 1 \in 0 .. k
          BY <3>2, <4>3
        <5>2. h[i] = g[i] /\ h[i - 1] = g[i - 1]
          BY <3>3, <5>1
        <5> QED BY <3>4, <5>1, <5>2
      <4> QED BY <4>1, <4>2, <4>3
    <3>7. h = [i \in 0 .. j |-> [n \in Nodes(nt) |-> At(n, i, h[i - 1])]]
      BY <3>5, <3>6
    <3>8. \E e : Solves(e, j)
      BY <3>7
    <3> HIDE DEF Solves
    <3>9. j \in P
      BY <3>2, <3>8
    <3> QED BY <3>9 DEF j
  <2> HIDE DEF P, Solves
  <2>3. 0 .. L \subseteq P
    BY <1>2, <2>1, <2>2, Induct
  <2> QED BY <2>3 DEF P
<1>7. Solves(f, L)
  <2>1. L \in 0 .. L
    BY <1>2
  <2>2. \E g : Solves(g, L)
    BY <1>6, <2>1
  <2> QED BY <2>2
<1> HIDE DEF f
<1>8. \A i \in 0 .. L : \A n \in Nodes(nt) : f[i][n] = At(n, i, f[i - 1])
  <2> DEFINE e == [i \in 0 .. L |-> [n \in Nodes(nt) |-> At(n, i, f[i - 1])]]
  <2>1. \A i \in 0 .. L : \A n \in Nodes(nt) : e[i][n] = At(n, i, f[i - 1])
    OBVIOUS
  <2>2. f = e
    BY <1>7
  <2> HIDE DEF e
  <2> QED BY <2>1, <2>2
<1> HIDE DEF Solves
<1> DEFINE P == {k \in 0 .. L : \A n \in Nodes(nt) : rank[n] <= k => f[k][n] = F[n]}
<1>9. \A n \in Nodes(nt) : rank[n] \in 1 .. L
  BY <1>2, <1>3
<1>10. 0 \in P
  <2>1. 0 \in 0 .. L /\ \A n \in Nodes(nt) : ~(rank[n] <= 0)
    BY <1>2, <1>9
  <2> QED BY <2>1
<1>11. ASSUME NEW k \in 0 .. L, k + 1 <= L, k \in P
       PROVE  k + 1 \in P
  <2> DEFINE j == k + 1
  <2>1. j \in 0 .. L /\ j # 0 /\ j - 1 = k
    BY <1>2, <1>11
  <2>2. ASSUME NEW n \in Nodes(nt), rank[n] <= j
        PROVE  f[j][n] = F[n]
    <3>1. \A m \in Inputs(nt, n) : f[k][m] = F[m]
      <4> TAKE m \in Inputs(nt, n)
      <4>1. m \in Nodes(nt) /\ rank[m] < rank[n]
        BY <1>3, InputsOf
      <4>2. rank[m] \in 1 .. L /\ rank[n] \in 1 .. L
        BY <1>9, <4>1
      <4>3. rank[m] <= k
        BY <1>2, <2>2, <4>1, <4>2
      <4> QED BY <1>11, <4>1, <4>3
    <3> HIDE DEF j
    <3>2. f[j][n] = At(n, j, f[k])
      BY <1>8, <2>1
    <3> QED BY <1>5, <2>1, <3>1, <3>2
  <2> HIDE DEF j
  <2>3. j \in P
    BY <2>1, <2>2
  <2> QED BY <2>3 DEF j
<1> HIDE DEF P
<1>12. 0 .. L \subseteq P
  BY <1>2, <1>10, <1>11, Induct
<1>13. L \in P /\ \A n \in Nodes(nt) : rank[n] <= L
  BY <1>2, <1>9, <1>12
<1> QED BY <1>1, <1>13 DEF P

-----------------------------------------------------------------------------
(* Stacks *)

(* A call begins: its frame comes on top of those that were there.         *)
LEMMA FramesPush ==
  ASSUME NEW s, s \in Seq(Frames(s)), NEW f
  PROVE  Frames(Append(s, f)) = Frames(s) \cup {f}
BY ListAppend DEF IsList, Entries, Frames

(* The frames of a stack are its top and those that remain when it         *)
(* returns.                                                                *)
LEMMA FramesPop ==
  ASSUME NEW s, s \in Seq(Frames(s)), s # <<>>
  PROVE  Frames(s) = Frames(Lower(s)) \cup {s[Len(s)]}
<1> DEFINE t == Lower(s)
<1>1. /\ Len(s) \in Nat \ {0} /\ Len(t) = Len(s) - 1 /\ \A i \in 1 .. Len(s) - 1 : t[i] = s[i]
  BY PopSeq
<1> HIDE DEF t
<1>2. /\ \A i \in 1 .. Len(s) : i = Len(s) \/ i \in 1 .. Len(t)
      /\ Len(s) \in 1 .. Len(s) /\ \A i \in 1 .. Len(t) : i \in 1 .. Len(s) /\ t[i] = s[i]
  BY <1>1
<1> QED BY <1>2 DEF Frames, t

(* A call that goes from where the top call is to one more node makes the  *)
(* walk longer, if that node was not on it.                                *)
LEMMA TrailPush ==
  ASSUME NEW nt, NEW deps, NEW vi, NEW s, s \in Seq(Frames(s)), Trail(nt, deps, vi, s), NEW f,
         f.op = "eot" => EotFrame(nt, f),
         f.op = "update" =>
           /\ UpdateFrame(nt, deps, vi, f)
           /\ \A j \in 1 .. Len(s) : s[j].op = "update" => s[j].node # f.node
           /\ IF s[Len(s)].op = "update" THEN Leads(nt, s[Len(s)], f) ELSE f.node \in Sinks(nt),
         f.op = "update" => s # <<>>
  PROVE  Trail(nt, deps, vi, Append(s, f))
<1> DEFINE t == Append(s, f)
           m == Len(s)
           l == m + 1
<1>1. /\ m \in Nat /\ Len(t) = l /\ t[l] = f /\ \A i \in 1 .. m : t[i] = s[i]
  BY PushSeq
<1>2. s # <<>> => m # 0
  BY EmptySeq
<1>3. /\ \A i \in 1 .. l : i = l \/ i \in 1 .. m
      /\ \A i \in 1 .. m : 1 .. i - 1 \subseteq 1 .. m /\ (i # 1 => i - 1 \in 1 .. m)
      /\ l - 1 = m /\ (m # 0 => m \in 1 .. m)
  BY <1>1
<1> HIDE DEF t, l, m
<1>4. ASSUME NEW i \in 1 .. m
      PROVE  /\ t[i].op = "eot" => EotFrame(nt, t[i])
             /\ t[i].op = "update" =>
                  /\ i > 1 /\ UpdateFrame(nt, deps, vi, t[i])
                  /\ \A j \in 1 .. i - 1 : t[j].op = "update" => t[j].node # t[i].node
                  /\ IF t[i - 1].op = "update" THEN Leads(nt, t[i - 1], t[i])
                     ELSE t[i].node \in Sinks(nt)
  <2>1. /\ s[i].op = "eot" => EotFrame(nt, s[i])
        /\ s[i].op = "update" =>
                  /\ i > 1 /\ UpdateFrame(nt, deps, vi, s[i])
                  /\ \A j \in 1 .. i - 1 : s[j].op = "update" => s[j].node # s[i].node
                  /\ IF s[i - 1].op = "update" THEN Leads(nt, s[i - 1], s[i])
                     ELSE s[i].node \in Sinks(nt)
    BY DEF Trail, m
  <2>2. t[i] = s[i] /\ (\A j \in 1 .. i - 1 : t[j] = s[j]) /\ (i # 1 => t[i - 1] = s[i - 1])
    BY <1>1, <1>3
  <2> QED BY <2>1, <2>2
<1>5. /\ f.op = "eot" => EotFrame(nt, t[l])
      /\ f.op = "update" =>
           /\ l > 1 /\ UpdateFrame(nt, deps, vi, t[l])
           /\ \A j \in 1 .. l - 1 : t[j].op = "update" => t[j].node # t[l].node
           /\ IF t[l - 1].op = "update" THEN Leads(nt, t[l - 1], t[l]) ELSE t[l].node \in Sinks(nt)
  <2>1. f.op = "update" => m # 0 /\ l > 1 /\ t[l - 1] = s[m]
    <3>1. m # 0 => l > 1
      BY <1>1 DEF l
    <3> QED BY <1>1, <1>2, <1>3, <3>1
  <2>2. \A j \in 1 .. l - 1 : t[j] = s[j]
    BY <1>1, <1>3
  <2> QED BY <1>1, <1>3, <2>1, <2>2 DEF m
<1>6. Trail(nt, deps, vi, t)
  BY <1>1, <1>3, <1>4, <1>5 DEF Trail
<1> QED BY <1>6 DEF t

(* The calls that remain go on as before.                                  *)
LEMMA TrailPop ==
  ASSUME NEW nt, NEW deps, NEW vi, NEW s, s \in Seq(Frames(s)), s # <<>>, Trail(nt, deps, vi, s)
  PROVE  Trail(nt, deps, vi, Lower(s))
<1> DEFINE t == Lower(s)
<1>1. /\ Len(s) \in Nat \ {0} /\ Len(t) = Len(s) - 1 /\ \A i \in 1 .. Len(s) - 1 : t[i] = s[i]
  BY PopSeq
<1> HIDE DEF t
<1>2. ASSUME NEW i \in 1 .. Len(t)
      PROVE  /\ t[i].op = "eot" => EotFrame(nt, t[i])
             /\ t[i].op = "update" =>
                  /\ i > 1 /\ UpdateFrame(nt, deps, vi, t[i])
                  /\ \A j \in 1 .. i - 1 : t[j].op = "update" => t[j].node # t[i].node
                  /\ IF t[i - 1].op = "update" THEN Leads(nt, t[i - 1], t[i])
                     ELSE t[i].node \in Sinks(nt)
  <2>1. /\ i \in 1 .. Len(s) /\ t[i] = s[i] /\ \A j \in 1 .. i - 1 : t[j] = s[j]
        /\ i > 1 => t[i - 1] = s[i - 1]
    BY <1>1
  <2>2. /\ s[i].op = "eot" => EotFrame(nt, s[i])
        /\ s[i].op = "update" =>
                  /\ i > 1 /\ UpdateFrame(nt, deps, vi, s[i])
                  /\ \A j \in 1 .. i - 1 : s[j].op = "update" => s[j].node # s[i].node
                  /\ IF s[i - 1].op = "update" THEN Leads(nt, s[i - 1], s[i])
                     ELSE s[i].node \in Sinks(nt)
    BY <2>1 DEF Trail
  <2> QED BY <2>1, <2>2
<1>3. Trail(nt, deps, vi, t)
  BY <1>2 DEF Trail
<1> QED BY <1>3 DEF t

(* The top call goes on, at the same node.                                 *)
LEMMA TrailTop ==
  ASSUME NEW nt, NEW deps, NEW vi, NEW s, Shape(s), s # <<>>, Trail(nt, deps, vi, s), NEW f,
         f.op = s[Len(s)].op,
         f.op = "eot" => EotFrame(nt, f),
         f.op = "update" => UpdateFrame(nt, deps, vi, f) /\ f.node = s[Len(s)].node
  PROVE  Trail(nt, deps, vi, Append(Lower(s), f))
<1> DEFINE t == Lower(s)
           T == Len(s)
<1>1. /\ T \in Nat \ {0} /\ Len(t) = T - 1 /\ (\A i \in 1 .. T - 1 : t[i] = s[i])
      /\ t \in Seq(Frames(t)) /\ Trail(nt, deps, vi, t)
  BY PopSeq, TrailPop DEF Shape
<1>2. s[T].op = "update" =>
        /\ T > 1
        /\ \A j \in 1 .. T - 1 : s[j].op = "update" => s[j].node # s[T].node
        /\ IF s[T - 1].op = "update" THEN Leads(nt, s[T - 1], s[T]) ELSE s[T].node \in Sinks(nt)
  <2>1. T \in 1 .. T
    BY <1>1
  <2> HIDE DEF T
  <2> QED BY <2>1 DEF Trail, T
<1>3. t = <<>> <=> Len(t) = 0
  BY <1>1, EmptySeq
<1>4. T > 1 => t # <<>> /\ t[Len(t)] = s[T - 1]
  BY <1>1, <1>3
<1> HIDE DEF t, T
<1>5. f.op = "update" =>
        /\ t # <<>>
        /\ \A j \in 1 .. Len(t) : t[j].op = "update" => t[j].node # f.node
        /\ IF t[Len(t)].op = "update" THEN Leads(nt, t[Len(t)], f) ELSE f.node \in Sinks(nt)
  <2>1. \A g : Leads(nt, g, s[T]) /\ f.node = s[T].node => Leads(nt, g, f)
    BY DEF Leads
  <2> QED BY <1>1, <1>2, <1>4, <2>1 DEF T
<1> QED BY <1>1, <1>5, TrailPush DEF t, T

(* When more nodes are visited the calls in progress are still a walk.     *)
LEMMA TrailMore ==
  ASSUME NEW nt, NEW deps, NEW vi, NEW s, Trail(nt, deps, vi, s),
         NEW wi, \A n \in Nodes(nt) : vi[n] => wi[n],
         \A n \in Nodes(nt) : Entries(deps[n]) \subseteq Nodes(nt)
  PROVE  Trail(nt, deps, wi, s)
<1>1. \A f : UpdateFrame(nt, deps, vi, f) => UpdateFrame(nt, deps, wi, f)
  BY DEF UpdateFrame
<1> QED BY <1>1 DEF Trail

(* Where no call of update_node is in progress the walk asks nothing of    *)
(* the visited flags or the dependencies, which then may change.           *)
LEMMA TrailIdle ==
  ASSUME NEW nt, NEW deps, NEW vi, NEW s, Shape(s), ~Active(s), Trail(nt, deps, vi, s),
         NEW es, NEW wi
  PROVE  Trail(nt, es, wi, s)
<1>1. \A i \in 1 .. Len(s) : s[i].op # "update"
  BY TopTells, LenProperties DEF Shape, Propagates
<1> QED BY <1>1 DEF Trail

(* Under a call of end_of_transaction nothing is propagated.               *)
LEMMA OverEot ==
  ASSUME NEW s, Shape(s), s # <<>>, s[Len(s)].op = "eot"
  PROVE  \A f \in Frames(Lower(s)) : ~Propagates(f)
<1>1. Shape(Lower(s)) /\ ~Active(Lower(s))
  BY PopEot
<1> QED BY <1>1, TopTells, LenProperties DEF Shape, Frames

-----------------------------------------------------------------------------
(* What a state of the invariant says of the network it is in.             *)
LEMMA Ready ==
  ASSUME CleanInv, Plain(net), WaveInv
  PROVE  /\ Len(net.kind) \in Nat /\ built = Len(net.kind) /\ net.start = Len(net.kind)
         /\ DOMAIN visited = Nodes(net) /\ DOMAIN changed = Nodes(net)
         /\ DOMAIN firing = Nodes(net) /\ DOMAIN dependencies = Nodes(net)
         /\ \A n \in Nodes(net) :
              /\ IsList(dependencies[n]) /\ Entries(dependencies[n]) \subseteq Inputs(net, n)
              /\ Entries(dependencies[n]) \subseteq Nodes(net)
              /\ IsList(dependents[n]) /\ Entries(dependents[n]) \subseteq Nodes(net)
              /\ \A m \in Entries(dependencies[n]) : n \in Entries(dependents[m])
              /\ \A m \in Entries(dependents[n]) : n \in Entries(dependencies[m])
<1>1. Len(net.kind) \in Nat
  BY LenProperties DEF Plain, NetworkOK
<1>2. built = Len(net.kind) /\ net.start = Len(net.kind)
  BY <1>1 DEF CleanInv, NetInv, Plain
<1>3. DOMAIN visited = Nodes(net) /\ DOMAIN changed = Nodes(net) /\ DOMAIN firing = Nodes(net)
  BY DEF CleanInv, FlagsInv, Covered
<1>4. Wired(net, dependencies, dependents)
  BY DEF WaveInv
<1>5. ASSUME NEW n \in Nodes(net)
      PROVE  /\ IsList(dependencies[n]) /\ Entries(dependencies[n]) \subseteq Inputs(net, n)
             /\ Entries(dependencies[n]) \subseteq Nodes(net)
  <2>1. dependencies[n] = net.in[n] \/ dependencies[n] = <<>>
    BY <1>4 DEF Wired
  <2> QED BY <2>1, InputsOf, ListEmpty
<1>6. ASSUME NEW n \in Nodes(net)
      PROVE  /\ IsList(dependents[n]) /\ Entries(dependents[n]) \subseteq Nodes(net)
             /\ \A m \in Entries(dependencies[n]) : n \in Entries(dependents[m])
             /\ \A m \in Entries(dependents[n]) : n \in Entries(dependencies[m])
  BY <1>4, <1>5 DEF Wired
<1>7. DOMAIN dependencies = Nodes(net)
  BY <1>4 DEF Wired
<1> QED BY <1>1, <1>2, <1>3, <1>5, <1>6, <1>7

(* A step that changes nothing but where the calls in progress are: what   *)
(* is done stays done, and who is still to visit a node goes on to do so.  *)
LEMMA WaveSame ==
  ASSUME Wave,
         UNCHANGED <<net, dependencies, dependents, changed, firing, value, next, heard>>,
         \A n \in Nodes(net) :
           /\ Entries(dependencies[n]) \subseteq Nodes(net)
           /\ Entries(dependents[n]) \subseteq Nodes(net)
           /\ Done(stack', visited', n) <=> Done(stack, visited, n)
           /\ visited[n] => visited'[n]
           /\ n \in Sinks(net) /\ (n \in Entries(changedNodes) \/ Batched(stack, n)) =>
                visited'[n] \/ n \in Entries(changedNodes') \/ Batched(stack', n)
           /\ \A m \in Nodes(net) : Ahead(stack, m, n) => visited'[n] \/ Ahead(stack', m, n)
  PROVE  Wave'
<1> SUFFICES ASSUME NEW n \in Nodes(net) PROVE NodeRight(n)'
  BY DEF Wave, Nodes
<1>1. NodeRight(n)
  BY DEF Wave
<1>3. Done(stack', visited', n) <=> Done(stack, visited, n)
  OBVIOUS
<1>4. n \in Sinks(net) /\ changed[n] =>
        visited'[n] \/ n \in Entries(changedNodes') \/ Batched(stack', n)
  BY <1>1 DEF NodeRight
<1>5. Done(stack, visited, n) => \A m \in Entries(dependencies[n]) : Done(stack', visited', m)
  BY <1>1 DEF NodeRight
<1>6. Done(stack, visited, n) /\ changed[n] =>
        \A m \in Entries(dependents[n]) : visited'[m] \/ Ahead(stack', n, m)
  <2> HIDE DEF Done
  <2> SUFFICES ASSUME Done(stack, visited, n), changed[n], NEW m \in Entries(dependents[n])
               PROVE  visited'[m] \/ Ahead(stack', n, m)
    OBVIOUS
  <2>1. m \in Nodes(net) /\ (visited[m] \/ Ahead(stack, n, m))
    BY <1>1 DEF NodeRight
  <2> QED BY <2>1
<1>7. /\ firing[n] # NoEvent => changed[n]
      /\ n \notin Sinks(net) /\ ~Done(stack, visited, n) => firing[n] = NoEvent
      /\ n \notin Sinks(net) /\ Done(stack, visited, n) => Right(net, dependencies, firing, value, n)
      /\ n \in Cells(net) /\ Done(stack, visited, n) /\ Input(net, firing, n) # NoEvent =>
           next[n] = Input(net, firing, n)
      /\ n \in Listeners(net) =>
           IF Done(stack, visited, n) /\ Input(net, firing, n) # NoEvent
           THEN CalledOnce(n, Input(net, firing, n)) ELSE Calls(n) = {}
  BY <1>1 DEF NodeRight
<1> HIDE DEF Done, Right, Input
<1>8. /\ Calls(n)' = Calls(n)
      /\ CalledOnce(n, Input(net, firing, n))' <=> CalledOnce(n, Input(net, firing, n))
  BY DEF Calls, CalledOnce
<1> QED BY <1>3, <1>4, <1>5, <1>6, <1>7, <1>8 DEF NodeRight

(* A state in which no node has been visited: nothing but sinks fires.     *)
Starting ==
  /\ heard = <<>> /\ \A n \in Nodes(net) : ~visited[n]
  /\ \A n \in Nodes(net) :
       /\ firing[n] # NoEvent => changed[n] /\ n \in Sinks(net)
       /\ n \in Sinks(net) /\ changed[n] => n \in Entries(changedNodes)

(* In such a state the invariant of the propagation holds of every node,   *)
(* since nothing is done yet:                                              *)
LEMMA StartingWave == Starting => Wave
<1> SUFFICES ASSUME Starting, NEW n \in Nodes(net) PROVE NodeRight(n)
  BY DEF Wave
<1>1. ~Done(stack, visited, n)
  BY DEF Done, Starting
<1>2. Calls(n) = {}
  <2>1. DOMAIN heard = {}
    BY DEF Starting
  <2> QED BY <2>1 DEF Calls
<1> QED BY <1>1, <1>2 DEF NodeRight, Starting

(* and so it does after a step into one.                                   *)
LEMMA StartsWave == Starting' => Wave'
BY StartingWave, PTL

-----------------------------------------------------------------------------
(* Steps of a propagation *)

(* The frames of a stack whose top is replaced.                            *)
LEMMA TopFrames ==
  ASSUME StackInv, stack # <<>>
  PROVE  /\ Frames(stack) = Frames(Lower(stack)) \cup {Top} /\ Top \in Frames(stack)
         /\ \A f : /\ Frames(SetTop(f)) = Frames(Lower(stack)) \cup {f}
                   /\ SetTop(f) = Append(Lower(stack), f) /\ SetTop(f) # <<>>
                   /\ SetTop(f) \in Seq(Frames(SetTop(f))) /\ Len(SetTop(f)) = Len(stack)
                   /\ SetTop(f)[Len(stack)] = f
                   /\ \A i \in 1 .. Len(stack) : i = Len(stack) \/ SetTop(f)[i] = stack[i]
<1>1. stack \in Seq(Frames(stack))
  BY DEF StackInv, Shape
<1>2. /\ Lower(stack) \in Seq(Frames(Lower(stack))) /\ Len(stack) \in Nat \ {0}
      /\ Len(Lower(stack)) = Len(stack) - 1
      /\ \A i \in 1 .. Len(stack) - 1 : Lower(stack)[i] = stack[i]
  BY <1>1, PopSeq
<1>3. Frames(stack) = Frames(Lower(stack)) \cup {Top}
  BY <1>1, FramesPop DEF Top
<1>4. ASSUME NEW f
      PROVE  /\ Frames(SetTop(f)) = Frames(Lower(stack)) \cup {f}
             /\ SetTop(f) = Append(Lower(stack), f) /\ SetTop(f) # <<>>
             /\ SetTop(f) \in Seq(Frames(SetTop(f))) /\ Len(SetTop(f)) = Len(stack)
             /\ SetTop(f)[Len(stack)] = f
             /\ \A i \in 1 .. Len(stack) : i = Len(stack) \/ SetTop(f)[i] = stack[i]
  <2> DEFINE s == Lower(stack)
  <2>1. SetTop(f) = Append(s, f)
    BY DEF SetTop, Below, Lower
  <2> HIDE DEF s
  <2>2. /\ Append(s, f) \in Seq(Frames(Append(s, f))) /\ Append(s, f) # <<>>
        /\ Len(Append(s, f)) = Len(s) + 1 /\ Append(s, f)[Len(s) + 1] = f
        /\ \A i \in 1 .. Len(s) : Append(s, f)[i] = s[i]
    BY <1>2, PushSeq DEF s
  <2>3. Len(s) + 1 = Len(stack) /\ \A i \in 1 .. Len(stack) : i = Len(stack) \/ i \in 1 .. Len(s)
    BY <1>2 DEF s
  <2>4. \A i \in 1 .. Len(s) : s[i] = stack[i]
    BY <1>2 DEF s
  <2>5. Frames(Append(s, f)) = Frames(s) \cup {f}
    BY <1>2, FramesPush DEF s
  <2> QED BY <2>1, <2>2, <2>3, <2>4, <2>5 DEF s
<1> QED BY <1>3, <1>4

(* A call of update_node for node m, made by the top call, which goes on   *)
(* as f: from a sink that changed, up to an input or down to a reader.     *)
LEMMA VisitWaves ==
  ASSUME StackInv, StackInv', CleanInv, Plain(net), WaveInv, Active(stack),
         NEW STATE f, NEW STATE m, m \in Nodes(net), Visit(m, SetTop(f)),
         f.op = Top.op, f.pc = Top.pc, Entries(Top.list) \subseteq Entries(f.list) \cup {m},
         f.op = "eot" => EotFrame(net, f) /\ m \in Sinks(net),
         f.op = "update" =>
           /\ f.node = Top.node /\ Leads(net, f, Update("dependencies", m, <<>>, <<>>))
           /\ UpdateFrame(net, dependencies, [visited EXCEPT ![m] = TRUE], f),
         UNCHANGED <<net, edges, changed, firing, cells, changedNodes, preEot, post, heard>>
  PROVE  WaveInv'
<1>0. stack # <<>> /\ Shape(stack) /\ Shape(stack') /\ UNCHANGED <<dependencies, dependents, value, next>>
  BY DEF Active, StackInv, edges, cells
<1>1. /\ DOMAIN visited = Nodes(net)
      /\ \A n \in Nodes(net) : /\ Entries(dependencies[n]) \subseteq Nodes(net)
                               /\ Entries(dependents[n]) \subseteq Nodes(net)
                               /\ IsList(dependencies[n])
                               /\ Entries(dependencies[n]) \subseteq Inputs(net, n)
  BY Ready
<1> DEFINE wi == [visited EXCEPT ![m] = TRUE]
           g == Update("dependencies", m, dependencies[m], dependencies[m])
           B == Frames(Lower(stack))
<1>2. wi[m] /\ \A n \in Nodes(net) : n # m => wi[n] = visited[n]
  BY <1>1
<1>3. /\ Frames(stack) = B \cup {Top} /\ Frames(SetTop(f)) = B \cup {f}
      /\ SetTop(f) = Append(Lower(stack), f) /\ SetTop(f) # <<>>
      /\ SetTop(f) \in Seq(Frames(SetTop(f))) /\ Len(SetTop(f)) = Len(stack)
      /\ SetTop(f)[Len(stack)] = f
      /\ \A i \in 1 .. Len(stack) : i = Len(stack) \/ SetTop(f)[i] = stack[i]
  BY <1>0, TopFrames
<1>4. visited' = IF visited[m] THEN visited ELSE wi
  BY DEF Visit
<1>5. \A n \in Nodes(net) : visited'[n] <=> wi[n]
  BY <1>2, <1>4
<1>6. g.op = "update" /\ g.pc = "dependencies" /\ g.node = m
  BY DEF Update
<1>7. IF visited[m] THEN stack' = SetTop(f) /\ prePost' = prePost
      ELSE stack' = Append(SetTop(f), g) /\ prePost' = Append(prePost, [op |-> "unvisit", node |-> m])
  BY DEF Visit
<1> HIDE DEF wi
<1>8. Trail(net, dependencies, wi, SetTop(f))
  <2>1. Trail(net, dependencies, wi, stack)
    BY <1>1, <1>2, TrailMore DEF WaveInv
  <2>2. stack[Len(stack)] = Top
    BY DEF Top
  <2> QED BY <1>0, <1>3, <2>1, <2>2, TrailTop DEF wi
<1>9. UpdateFrame(net, dependencies, wi, g)
  BY <1>1, <1>2 DEF UpdateFrame, Update
<1> HIDE DEF g
<1>10. Trail(net, dependencies, wi, stack')
  <2>1. CASE visited[m]
    BY <1>7, <1>8, <2>1
  <2>2. CASE ~visited[m]
    <3>1. ASSUME NEW j \in 1 .. Len(stack), SetTop(f)[j].op = "update"
          PROVE  SetTop(f)[j].node # m
      <4>1. stack[j].op = "update" /\ SetTop(f)[j].node = stack[j].node
        BY <1>3, <3>1 DEF Top
      <4>2. visited[stack[j].node]
        BY <4>1 DEF WaveInv, Trail, UpdateFrame
      <4> QED BY <2>2, <4>1, <4>2
    <3>2. f.op # "update" => f.op = "eot"
      BY <1>0, TopFrame DEF FrameOK, Top
    <3>3. f.op = "update" => Leads(net, f, g)
      BY <1>6 DEF Leads, Update
    <3>4. Trail(net, dependencies, wi, Append(SetTop(f), g))
      <4> DEFINE s == SetTop(f)
      <4>1. /\ s \in Seq(Frames(s)) /\ s # <<>> /\ Trail(net, dependencies, wi, s)
            /\ Len(s) = Len(stack) /\ s[Len(s)] = f
            /\ \A j \in 1 .. Len(s) : s[j].op = "update" => s[j].node # g.node
        BY <1>3, <1>6, <1>8, <3>1
      <4> HIDE DEF s
      <4>2. IF s[Len(s)].op = "update" THEN Leads(net, s[Len(s)], g) ELSE g.node \in Sinks(net)
        BY <1>6, <3>2, <3>3, <4>1
      <4>3. g.op # "eot"
        BY <1>6
      <4>4. Trail(net, dependencies, wi, Append(s, g))
        BY <1>9, <4>1, <4>2, <4>3, TrailPush
      <4> QED BY <4>4 DEF s
    <3> QED BY <1>7, <2>2, <3>4
  <2> QED BY <2>1, <2>2
<1>11. Resets(prePost')
  <2> DEFINE k == [op |-> "unvisit", node |-> m]
  <2>1. k.op = "unvisit"
    OBVIOUS
  <2> HIDE DEF k
  <2>2. Resets(prePost)
    BY DEF WaveInv
  <2>3. Resets(Append(prePost, k))
    BY <2>1, <2>2, ListAppend DEF Resets
  <2> QED BY <1>7, <2>2, <2>3 DEF k
<1>12. Frames(stack') = IF visited[m] THEN B \cup {f} ELSE B \cup {f} \cup {g}
  <2>1. Frames(Append(SetTop(f), g)) = Frames(SetTop(f)) \cup {g}
    BY <1>3, FramesPush
  <2> QED BY <1>3, <1>7, <2>1
<1> HIDE DEF B
<1>13. \A n : Unrun(stack', n) <=> Unrun(stack, n) \/ (n = m /\ ~visited[m])
  BY <1>3, <1>6, <1>12 DEF Unrun
<1>14. \A n : Batched(stack, n) => Batched(stack', n) \/ n = m
  BY <1>3, <1>12 DEF Batched
<1>15. \A l, n : Ahead(stack, l, n) => Ahead(stack', l, n) \/ n = m
  BY <1>3, <1>12 DEF Ahead
<1>16. Active(stack')
  <2>1. Shape(SetTop(f)) /\ Active(SetTop(f))
    <3>1. Active(SetTop(f))
      BY <1>0, <1>3 DEF Active, Propagates, Top
    <3>2. Frame(f, Top.op) /\ Frame(Top, Top.op)
      <4>1. Frame(Top, Top.op) /\ (Top.op = "eot" \/ Top.op = "update")
        BY <1>0, TopFrame DEF FrameOK, Top, Frame
      <4> QED BY <4>1 DEF Frame, EotFrame, UpdateFrame
    <3>3. TopIs(Top.op, Top.pc)
      BY <1>0 DEF TopIs
    <3> QED BY <1>0, <3>1, <3>2, <3>3, SetTopEot, SetTopUpdate, TopFrame DEF FrameOK, Top
  <2> QED BY <2>1, VisitKeeps
<1>17. Wave
  BY <1>0 DEF WaveInv
<1>18. Wave'
  <2>1. ASSUME NEW n \in Nodes(net)
        PROVE  /\ Done(stack', visited', n) <=> Done(stack, visited, n)
               /\ visited[n] => visited'[n]
               /\ n \in Sinks(net) /\ (n \in Entries(changedNodes) \/ Batched(stack, n)) =>
                    visited'[n] \/ n \in Entries(changedNodes') \/ Batched(stack', n)
               /\ \A l \in Nodes(net) : Ahead(stack, l, n) => visited'[n] \/ Ahead(stack', l, n)
    BY <1>2, <1>5, <1>13, <1>14, <1>15 DEF Done
  <2> QED BY <1>0, <1>1, <1>17, <2>1, WaveSame
<1>19. Trail(net, dependencies, visited', stack')
  BY <1>1, <1>5, <1>10, TrailMore
<1>20. stack' # <<>>
  BY <1>16 DEF Active
<1> QED BY <1>0, <1>11, <1>16, <1>18, <1>19, <1>20 DEF WaveInv

(* The top call, one of end_of_transaction, goes on as f: no node that     *)
(* waits to be visited is forgotten.                                       *)
LEMMA MoveWaves ==
  ASSUME StackInv, CleanInv, Plain(net), WaveInv, Active(stack), Top.op = "eot",
         NEW STATE f, stack' = SetTop(f), f.op = "eot", EotFrame(net, f), Propagates(f),
         SinkList(net, changedNodes'),
         \A n \in Entries(changedNodes) \cup (IF Top.pc = "batch" THEN Entries(Top.list) ELSE {}) :
           n \in Entries(changedNodes') \/ (f.pc = "batch" /\ n \in Entries(f.list)),
         UNCHANGED <<net, edges, flags, cells, prePost, preEot, post, heard>>
  PROVE  WaveInv'
<1>1. /\ stack # <<>> /\ Shape(stack)
      /\ UNCHANGED <<dependencies, dependents, value, next, visited, changed, firing>>
  BY DEF Active, StackInv, edges, cells, flags
<1>2. /\ Frames(stack) = Frames(Lower(stack)) \cup {Top}
      /\ Frames(stack') = Frames(Lower(stack)) \cup {f}
      /\ stack' = Append(Lower(stack), f) /\ stack' # <<>> /\ stack'[Len(stack')] = f
  BY <1>1, TopFrames
<1>3. Trail(net, dependencies, visited, stack')
  <2>1. stack[Len(stack)] = Top
    BY DEF Top
  <2> QED BY <1>1, <1>2, <2>1, TrailTop DEF WaveInv
<1>4. Active(stack')
  BY <1>2 DEF Active
<1>5. \A n : Unrun(stack', n) <=> Unrun(stack, n)
  BY <1>2 DEF Unrun
<1>6. \A m, n : Ahead(stack, m, n) => Ahead(stack', m, n)
  BY <1>2 DEF Ahead
<1>7. \A n : Batched(stack, n) =>
        Batched(stack', n) \/ (Top.pc = "batch" /\ n \in Entries(Top.list))
  BY <1>2 DEF Batched
<1>8. \A n : f.pc = "batch" /\ n \in Entries(f.list) => Batched(stack', n)
  BY <1>2 DEF Batched
<1>9. Wave'
  <2>1. ASSUME NEW n \in Nodes(net)
        PROVE  /\ Entries(dependencies[n]) \subseteq Nodes(net)
               /\ Entries(dependents[n]) \subseteq Nodes(net)
               /\ Done(stack', visited', n) <=> Done(stack, visited, n)
               /\ visited[n] => visited'[n]
               /\ n \in Sinks(net) /\ (n \in Entries(changedNodes) \/ Batched(stack, n)) =>
                    visited'[n] \/ n \in Entries(changedNodes') \/ Batched(stack', n)
               /\ \A m \in Nodes(net) : Ahead(stack, m, n) => visited'[n] \/ Ahead(stack', m, n)
    <3>1. Done(stack', visited', n) <=> Done(stack, visited, n)
      BY <1>1, <1>5 DEF Done
    <3>2. n \in Entries(changedNodes) \/ Batched(stack, n) =>
            n \in Entries(changedNodes') \/ Batched(stack', n)
      BY <1>7, <1>8
    <3> QED BY <1>1, <1>6, <3>1, <3>2, Ready
  <2> QED BY <1>1, <2>1, WaveSame DEF WaveInv
<1> QED BY <1>1, <1>2, <1>3, <1>4, <1>9 DEF WaveInv

(* end_of_transaction, while it propagates: pre_eot has nothing to do, and *)
(* each changed node is visited.                                           *)
LEMMA EotWaves ==
  ASSUME StackInv, StackInv', CleanInv, Plain(net), WaveInv,
         \/ RunPreEot \/ UpdateChanged \/ (TakeChanged /\ changedNodes # <<>>)
  PROVE  WaveInv'
<1>1. /\ stack # <<>> /\ Top.op = "eot" /\ Top.pc \in {"pre_eot", "loop", "batch"}
      /\ TopIs("eot", Top.pc) /\ Shape(stack)
  BY DEF RunPreEot, UpdateChanged, TakeChanged, TopIs, StackInv
<1>2. Active(stack)
  BY <1>1, TopIsFrame DEF Propagates
<1>3. EotFrame(net, Top)
  <2>1. Len(stack) \in 1 .. Len(stack)
    BY <1>1, TopFrame
  <2> QED BY <1>1, <2>1 DEF WaveInv, Trail, Top
<1> DEFINE onward == [Top EXCEPT !.pc = "loop"]
<1>4. onward.op = "eot" /\ EotFrame(net, onward) /\ Propagates(onward) /\ onward.pc = "loop"
  BY <1>1, <1>3 DEF EotFrame, Propagates
<1> HIDE DEF onward
<1>5. ASSUME stack' = SetTop(onward), Top.pc = "batch" => Top.list = <<>>, changedNodes' = changedNodes,
             UNCHANGED <<net, edges, flags, cells, prePost, preEot, post, heard>>
      PROVE  WaveInv'
  BY <1>1, <1>2, <1>4, <1>5, ListEmpty, MoveWaves DEF WaveInv
<1>6. CASE RunPreEot
  <2>1. Top.pc = "pre_eot" /\ Top.list = <<>>
    BY <1>3, <1>6 DEF RunPreEot, TopIs, EotFrame
  <2>2. /\ stack' = SetTop(onward) /\ changedNodes' = changedNodes
        /\ UNCHANGED <<net, edges, flags, cells, prePost, preEot, post, heard>>
    BY <1>6, <2>1 DEF RunPreEot, RunNothing, onward, flags, cells
  <2> QED BY <1>5, <2>1, <2>2
<1>7. CASE UpdateChanged /\ Top.list = <<>>
  <2>1. /\ stack' = SetTop(onward) /\ changedNodes' = changedNodes
        /\ UNCHANGED <<net, edges, flags, cells, prePost, preEot, post, heard>>
    BY <1>7 DEF UpdateChanged, onward, flags, outcome
  <2> QED BY <1>5, <1>7, <2>1
<1>8. CASE UpdateChanged /\ Top.list # <<>>
  <2> DEFINE f == [Top EXCEPT !.list = Tail(@)]
             m == Head(Top.list)
  <2>1. /\ Visit(m, SetTop(f))
        /\ UNCHANGED <<net, edges, changed, firing, cells, changedNodes, preEot, post, heard>>
    BY <1>8 DEF UpdateChanged, outcome
  <2>2. Top.pc = "batch" /\ SinkList(net, Top.list)
    BY <1>3, <1>8 DEF UpdateChanged, TopIs, EotFrame
  <2>3. /\ IsList(Tail(Top.list)) /\ Entries(Top.list) = Entries(Tail(Top.list)) \cup {m}
        /\ m \in Sinks(net) /\ m \in Nodes(net)
    BY <1>8, <2>2, ListTail DEF SinkList, Sinks, OfKind
  <2>4. f.op = "eot" /\ f.pc = "batch" /\ f.list = Tail(Top.list) /\ DOMAIN f = DOMAIN Top
    BY <1>1, <1>3, <2>2 DEF EotFrame
  <2> HIDE DEF f, m
  <2>5. EotFrame(net, f)
    BY <1>3, <2>2, <2>3, <2>4 DEF EotFrame, SinkList
  <2> QED BY <1>1, <1>2, <2>1, <2>2, <2>3, <2>4, <2>5, VisitWaves
<1>9. CASE TakeChanged /\ changedNodes # <<>>
  <2> DEFINE f == [Top EXCEPT !.pc = "batch", !.list = changedNodes]
  <2>1. /\ stack' = SetTop(f) /\ changedNodes' = <<>>
        /\ UNCHANGED <<net, edges, flags, cells, prePost, preEot, post, heard>>
    BY <1>9 DEF TakeChanged, TakeBatch, outcome
  <2>2. f.op = "eot" /\ f.pc = "batch" /\ f.list = changedNodes /\ DOMAIN f = DOMAIN Top
    BY <1>1, <1>3 DEF EotFrame
  <2> HIDE DEF f
  <2>3. SinkList(net, changedNodes) /\ SinkList(net, <<>>)
    BY ListEmpty DEF WaveInv, SinkList
  <2>4. EotFrame(net, f) /\ Propagates(f) /\ Top.pc # "batch"
    BY <1>3, <1>9, <2>2, <2>3 DEF EotFrame, Propagates, TakeChanged, TopIs
  <2> QED BY <1>1, <1>2, <2>1, <2>2, <2>3, <2>4, MoveWaves
<1> QED BY <1>6, <1>7, <1>8, <1>9

(* update_node: the dependencies of a node, and then its dependents.       *)
LEMMA NodeWaves ==
  ASSUME StackInv, StackInv', CleanInv, Plain(net), WaveInv,
         VisitDependency \/ VisitDependent
  PROVE  WaveInv'
<1>1. /\ stack # <<>> /\ Top.op = "update" /\ TopIs("update", Top.pc) /\ Shape(stack)
      /\ Top.list # <<>>
  BY DEF VisitDependency, VisitDependent, TopIs, StackInv
<1>2. Active(stack)
  BY <1>1, TopIsFrame DEF Propagates
<1>3. UpdateFrame(net, dependencies, visited, Top)
  <2>1. Len(stack) \in 1 .. Len(stack)
    BY <1>1, TopFrame
  <2> QED BY <1>1, <2>1 DEF WaveInv, Trail, Top
<1> DEFINE f == [Top EXCEPT !.list = Tail(@)]
           m == Head(Top.list)
           g == Update("dependencies", m, <<>>, <<>>)
           wi == [visited EXCEPT ![m] = TRUE]
<1>4. /\ Visit(m, SetTop(f))
      /\ UNCHANGED <<net, edges, changed, firing, cells, changedNodes, preEot, post, heard>>
  BY DEF VisitDependency, VisitDependent, outcome
<1>5. /\ f.op = Top.op /\ f.pc = Top.pc /\ f.list = Tail(Top.list) /\ f.node = Top.node
      /\ f.reads = Top.reads /\ DOMAIN f = DOMAIN Top
  BY <1>3 DEF UpdateFrame
<1>6. IsList(Tail(Top.list)) /\ Entries(Top.list) = Entries(Tail(Top.list)) \cup {m}
  BY <1>1, <1>3, ListTail DEF UpdateFrame
<1>7. m \in Nodes(net) /\ m \in Entries(Top.list)
  BY <1>3, <1>6 DEF UpdateFrame
<1>8. /\ DOMAIN visited = Nodes(net) /\ \A n \in Nodes(net) : Entries(dependencies[n]) \subseteq Inputs(net, n)
      /\ \A n \in Nodes(net) : Entries(dependencies[n]) \subseteq Nodes(net)
  BY Ready
<1>9. wi[m] /\ \A n \in Nodes(net) : visited[n] => wi[n]
  BY <1>7, <1>8
<1>10. g.node = m
  BY DEF Update
<1> HIDE DEF f, m, g, wi
<1>11. UpdateFrame(net, dependencies, wi, f)
  BY <1>3, <1>5, <1>6, <1>8, <1>9 DEF UpdateFrame
<1>12. Leads(net, f, g)
  BY <1>3, <1>5, <1>7, <1>8, <1>10 DEF UpdateFrame, Leads
<1> QED BY <1>1, <1>2, <1>4, <1>5, <1>6, <1>7, <1>11, <1>12, VisitWaves DEF g, wi

(* ... and it returns.                                                     *)
LEMMA ReturnWaves ==
  ASSUME StackInv, StackInv', CleanInv, Plain(net), WaveInv, EndUpdate
  PROVE  WaveInv'
<1>1. /\ stack # <<>> /\ Top.op = "update" /\ Top.pc = "dependents" /\ Shape(stack)
      /\ Top.list = <<>> /\ stack' = Lower(stack) /\ stack \in Seq(Frames(stack))
      /\ UNCHANGED <<net, dependencies, dependents, visited, changed, firing, value, next,
                     changedNodes, preEot, prePost, post, heard>>
  BY DEF EndUpdate, TopIs, StackInv, Shape, Below, Lower, edges, flags, cells, queues, outcome
<1>2. Active(stack')
  BY <1>1, PopUpdate DEF Top
<1>3. Trail(net, dependencies, visited, stack')
  BY <1>1, TrailPop DEF WaveInv
<1>4. Frames(stack) = Frames(stack') \cup {Top}
  BY <1>1, FramesPop DEF Top
<1>5. /\ \A n : Unrun(stack', n) <=> Unrun(stack, n)
      /\ \A n : Batched(stack', n) <=> Batched(stack, n)
  BY <1>1, <1>4 DEF Unrun, Batched
<1>6. \A m, n : Ahead(stack, m, n) => Ahead(stack', m, n)
  BY <1>1, <1>4, ListEmpty DEF Ahead
<1>7. Wave'
  <2>0. Wave
    <3>1. Active(stack)
      BY <1>1 DEF Active, Propagates, Top
    <3> QED BY <3>1 DEF WaveInv
  <2>1. ASSUME NEW n \in Nodes(net)
        PROVE  /\ Entries(dependencies[n]) \subseteq Nodes(net)
               /\ Entries(dependents[n]) \subseteq Nodes(net)
               /\ Done(stack', visited', n) <=> Done(stack, visited, n)
               /\ visited[n] => visited'[n]
               /\ n \in Sinks(net) /\ (n \in Entries(changedNodes) \/ Batched(stack, n)) =>
                    visited'[n] \/ n \in Entries(changedNodes') \/ Batched(stack', n)
               /\ \A m \in Nodes(net) : Ahead(stack, m, n) => visited'[n] \/ Ahead(stack', m, n)
    <3>1. Done(stack', visited', n) <=> Done(stack, visited, n)
      BY <1>1, <1>5 DEF Done
    <3> QED BY <1>1, <1>5, <1>6, <3>1, Ready
  <2> QED BY <1>1, <2>0, <2>1, WaveSame
<1> QED BY <1>1, <1>2, <1>3, <1>7 DEF WaveInv, Active

-----------------------------------------------------------------------------
(* The update of a node *)
CallsIn(h, l) == {k \in DOMAIN h : h[k][1] = l}
OnceIn(h, l, a) == \E k \in CallsIn(h, l) : CallsIn(h, l) = {k} /\ h[k] = <<l, a>>

(* What holds when the update of a node begins: what it reads is done, and *)
(* it is not.                                                              *)
LEMMA RunReady ==
  ASSUME StackInv, CleanInv, Plain(net), WaveInv, TopIs("update", "dependencies"),
         Top.list = <<>>
  PROVE  /\ Wave /\ stack # <<>> /\ Shape(stack) /\ Active(stack)
         /\ UpdateFrame(net, dependencies, visited, Top) /\ Top \in Frames(stack)
         /\ Top.node \in Nodes(net) /\ Top.reads = dependencies[Top.node] /\ visited[Top.node]
         /\ ~Done(stack, visited, Top.node)
         /\ \A f \in Frames(Lower(stack)) : f.op = "update" => f.node # Top.node
         /\ \A m \in Entries(dependencies[Top.node]) :
              Done(stack, visited, m) /\ m # Top.node /\ m \in Nodes(net)
<1>1. /\ stack # <<>> /\ Top.op = "update" /\ Top.pc = "dependencies" /\ Shape(stack)
      /\ Top = stack[Len(stack)]
  BY DEF TopIs, StackInv, Top
<1>2. Active(stack)
  BY <1>1, TopIsFrame DEF Propagates
<1>3. UpdateFrame(net, dependencies, visited, Top)
  <2>1. Len(stack) \in 1 .. Len(stack)
    BY <1>1, TopFrame
  <2> QED BY <1>1, <2>1 DEF WaveInv, Trail
<1>4. Top \in Frames(stack)
  BY <1>1, TopFrames
<1>5. Unrun(stack, Top.node)
  BY <1>1, <1>4 DEF Unrun
<1>6. ASSUME NEW f \in Frames(Lower(stack)), f.op = "update"
      PROVE  f.node # Top.node
  <2>1. PICK j \in 1 .. Len(Lower(stack)) : f = Lower(stack)[j]
    BY DEF Frames
  <2>2. j \in 1 .. Len(stack) - 1 /\ f = stack[j] /\ Len(stack) \in 1 .. Len(stack)
    <3>1. /\ Len(stack) \in Nat \ {0} /\ Len(Lower(stack)) = Len(stack) - 1
          /\ \A i \in 1 .. Len(stack) - 1 : Lower(stack)[i] = stack[i]
      BY <1>1, PopSeq DEF Shape
    <3> QED BY <2>1, <3>1
  <2> QED BY <1>1, <1>6, <2>2 DEF WaveInv, Trail
<1>7. ASSUME NEW m \in Entries(Top.reads)
      PROVE  Done(stack, visited, m) /\ m # Top.node /\ m \in Nodes(net)
  <2>1. visited[m]
    BY <1>1, <1>3, ListEmpty DEF UpdateFrame
  <2>2. ~Unrun(stack, m)
    BY <1>1, ReadsRun DEF WaveInv
  <2>3. m \in Nodes(net)
    BY <1>3, Ready DEF UpdateFrame
  <2> QED BY <1>5, <2>1, <2>2, <2>3 DEF Done
<1> QED BY <1>1, <1>2, <1>3, <1>4, <1>5, <1>6, <1>7 DEF Done, UpdateFrame, WaveInv

(* The update of node n is over: n is done, and what is done already does  *)
(* not depend on it.                                                       *)
LEMMA RunStep ==
  ASSUME StackInv, CleanInv, Plain(net), WaveInv, TopIs("update", "dependencies"),
         Top.list = <<>>,
         NEW STATE n, n = Top.node,
         stack' = SetTop(Update("dependents", n, Top.reads,
                                IF changed'[n] THEN dependents[n] ELSE <<>>)),
         UNCHANGED <<net, dependencies, dependents, visited, value, changedNodes>>,
         \A k \in Nodes(net) : k # n =>
           firing'[k] = firing[k] /\ changed'[k] = changed[k] /\ next'[k] = next[k],
         \A l \in Nodes(net) : l # n =>
           CallsIn(heard', l) = CallsIn(heard, l) /\ \A k \in CallsIn(heard, l) : heard'[k] = heard[k],
         firing'[n] # NoEvent => changed'[n],
         n \in Sinks(net) /\ changed'[n] => changed[n],
         n \notin Sinks(net) => Right(net, dependencies, firing', value, n),
         n \in Cells(net) /\ Input(net, firing', n) # NoEvent => next'[n] = Input(net, firing', n),
         n \in Listeners(net) =>
           IF Input(net, firing', n) # NoEvent THEN OnceIn(heard', n, Input(net, firing', n))
           ELSE CallsIn(heard', n) = {}
  PROVE  Wave' /\ Trail(net', dependencies', visited', stack')
<1> DEFINE f == Update("dependents", n, Top.reads, IF changed'[n] THEN dependents[n] ELSE <<>>)
           B == Frames(Lower(stack))
<1>1. /\ Wave /\ stack # <<>> /\ Shape(stack) /\ Active(stack)
      /\ UpdateFrame(net, dependencies, visited, Top) /\ Top \in Frames(stack)
      /\ n \in Nodes(net) /\ Top.reads = dependencies[n] /\ visited[n]
      /\ ~Done(stack, visited, n)
      /\ \A g \in B : g.op = "update" => g.node # n
      /\ \A m \in Entries(dependencies[n]) : Done(stack, visited, m) /\ m # n
      /\ Top.op = "update" /\ Top.pc = "dependencies"
  BY RunReady DEF TopIs
<1>2. Frames(stack) = B \cup {Top} /\ Frames(stack') = B \cup {f} /\ stack' = Append(Lower(stack), f)
  BY <1>1, TopFrames
<1>3. \A k \in Nodes(net) :
        /\ IsList(dependencies[k]) /\ Entries(dependencies[k]) \subseteq Inputs(net, k)
        /\ Entries(dependencies[k]) \subseteq Nodes(net)
        /\ IsList(dependents[k]) /\ Entries(dependents[k]) \subseteq Nodes(net)
        /\ \A m \in Entries(dependents[k]) : k \in Entries(dependencies[m])
        /\ dependencies[k] = net.in[k] \/ (net.kind[k] = "once" /\ dependencies[k] = <<>>)
  BY Ready DEF WaveInv, Wired
<1>4. /\ f.op = "update" /\ f.pc = "dependents" /\ f.node = n /\ f.reads = Top.reads
      /\ f.list = IF changed'[n] THEN dependents[n] ELSE <<>>
      /\ {"op", "pc", "node", "reads", "list"} \subseteq DOMAIN f
  BY DEF Update
<1> HIDE DEF f, B
<1>5. UpdateFrame(net, dependencies, visited, f)
  <2>1. IsList(f.list) /\ Entries(f.list) \subseteq Nodes(net)
    BY <1>1, <1>3, <1>4, ListEmpty
  <2>2. \A m \in Entries(f.list) : f.node \in Inputs(net, m)
    BY <1>1, <1>3, <1>4, ListEmpty
  <2> QED BY <1>1, <1>4, <2>1, <2>2 DEF UpdateFrame
<1>6. Trail(net, dependencies, visited, stack')
  <2>1. stack[Len(stack)] = Top
    BY DEF Top
  <2>2. Trail(net, dependencies, visited, stack)
    BY DEF WaveInv
  <2>3. f.op = stack[Len(stack)].op /\ f.op # "eot" /\ f.node = stack[Len(stack)].node
    BY <1>1, <1>4, <2>1
  <2>4. Trail(net, dependencies, visited, Append(Lower(stack), f))
    BY <1>1, <1>5, <2>2, <2>3, TrailTop
  <2> QED BY <1>2, <2>4
<1>7. /\ \A k : Unrun(stack', k) <=> Unrun(stack, k) /\ k # n
      /\ \A k : Batched(stack, k) => Batched(stack', k)
      /\ \A l, k : Ahead(stack, l, k) => Ahead(stack', l, k)
      /\ changed'[n] => \A k \in Entries(dependents[n]) : Ahead(stack', n, k)
  <2>1. \A k : Unrun(stack', k) <=> Unrun(stack, k) /\ k # n
    BY <1>1, <1>2, <1>4 DEF Unrun
  <2>2. \A k : Batched(stack, k) => Batched(stack', k)
    BY <1>1, <1>2 DEF Batched
  <2>3. \A l, k : Ahead(stack, l, k) => Ahead(stack', l, k)
    BY <1>1, <1>2 DEF Ahead
  <2>4. changed'[n] => \A k \in Entries(dependents[n]) : Ahead(stack', n, k)
    BY <1>2, <1>4 DEF Ahead
  <2> QED BY <2>1, <2>2, <2>3, <2>4
<1>8. \A k : Done(stack', visited, k) <=> Done(stack, visited, k) \/ k = n
  BY <1>1, <1>7 DEF Done
<1>9. \A k \in Nodes(net) : k # n /\ Done(stack, visited, k) =>
        \A m \in Entries(dependencies[k]) : m # n /\ firing'[m] = firing[m]
  <2> SUFFICES ASSUME NEW k \in Nodes(net), Done(stack, visited, k), NEW m \in Entries(dependencies[k])
               PROVE  m # n /\ firing'[m] = firing[m]
    OBVIOUS
  <2>1. Done(stack, visited, m) /\ m \in Nodes(net)
    BY <1>1, <1>3 DEF Wave, NodeRight
  <2> QED BY <1>1, <2>1
<1>10. Wave'
  <2> SUFFICES ASSUME NEW k \in Nodes(net) PROVE NodeRight(k)'
    BY DEF Wave, Nodes
  <2>1. NodeRight(k)
    BY <1>1 DEF Wave
  <2>2. Calls(k)' = CallsIn(heard', k) /\ Calls(k) = CallsIn(heard, k)
    BY DEF Calls, CallsIn
  <2>3. /\ CalledOnce(k, Input(net, firing, k)) <=> OnceIn(heard, k, Input(net, firing, k))
        /\ CalledOnce(k, Input(net, firing, k))' <=> OnceIn(heard', k, Input(net', firing', k))
    BY DEF CalledOnce, OnceIn, Calls, CallsIn
  <2>4. firing'[k] # NoEvent => changed'[k]
    BY <2>1 DEF NodeRight
  <2>5. k \in Sinks(net) /\ changed'[k] => visited[k] \/ k \in Entries(changedNodes) \/ Batched(stack', k)
    BY <1>7, <2>1 DEF NodeRight
  <2>6. Done(stack', visited, k) => \A m \in Entries(dependencies[k]) : Done(stack', visited, m)
    BY <1>1, <1>8, <2>1 DEF NodeRight
  <2>7. Done(stack', visited, k) /\ changed'[k] =>
          \A m \in Entries(dependents[k]) : visited[m] \/ Ahead(stack', k, m)
    BY <1>7, <1>8, <2>1 DEF NodeRight
  <2>8. CASE k = n
    <3> HIDE DEF Right, Input
    <3>1. Done(stack', visited, k)
      BY <1>8, <2>8
    <3> QED BY <2>2, <2>3, <2>4, <2>5, <2>6, <2>7, <2>8, <3>1 DEF NodeRight
  <2>9. CASE k # n
    <3>1. Done(stack', visited, k) <=> Done(stack, visited, k)
      BY <1>8, <2>9
    <3>2. k \notin Sinks(net) /\ Done(stack, visited, k) => Right(net, dependencies, firing', value, k)
      <4> SUFFICES ASSUME k \notin Sinks(net), Done(stack, visited, k)
                   PROVE  Right(net, dependencies, firing', value, k)
        OBVIOUS
      <4>1. Right(net, dependencies, firing, value, k) /\ firing'[k] = firing[k]
        BY <2>1, <2>9 DEF NodeRight
      <4>2. CASE dependencies[k] = <<>>
        BY <4>1, <4>2 DEF Right
      <4>3. CASE dependencies[k] # <<>>
        <5>1. Entries(dependencies[k]) = Inputs(net, k)
          BY <1>3, <4>3, InputsOf
        <5>2. \A m \in Inputs(net, k) : firing'[m] = firing[m]
          BY <1>9, <2>9, <5>1
        <5>3. Event(net, k, firing', value) = Event(net, k, firing, value)
          BY <5>2, EventOf
        <5> QED BY <4>1, <5>3 DEF Right
      <4> QED BY <4>2, <4>3
    <3>3. (k \in Cells(net) \/ k \in Listeners(net)) /\ Done(stack, visited, k) =>
            Input(net, firing', k) = Input(net, firing, k)
      <4> SUFFICES ASSUME k \in Cells(net) \/ k \in Listeners(net), Done(stack, visited, k)
                   PROVE  Input(net, firing', k) = Input(net, firing, k)
        OBVIOUS
      <4>1. k \notin Sinks(net) /\ dependencies[k] = net.in[k]
        BY <1>3 DEF Cells, Listeners, Sinks, OfKind
      <4>2. net.in[k][1] \in Entries(dependencies[k])
        BY <4>1, InputsOf
      <4> QED BY <1>9, <2>9, <4>2 DEF Input
    <3>4. /\ CallsIn(heard', k) = CallsIn(heard, k)
          /\ \A a : OnceIn(heard, k, a) => OnceIn(heard', k, a)
      BY <2>9 DEF OnceIn
    <3>5. /\ k \notin Sinks(net) /\ ~Done(stack, visited, k) => firing'[k] = NoEvent
          /\ k \in Cells(net) /\ Done(stack, visited, k) /\ Input(net, firing', k) # NoEvent =>
               next'[k] = Input(net, firing', k)
      BY <2>1, <2>9, <3>3 DEF NodeRight
    <3>6. k \in Listeners(net) =>
            IF Done(stack, visited, k) /\ Input(net, firing', k) # NoEvent
            THEN OnceIn(heard', k, Input(net, firing', k)) ELSE CallsIn(heard', k) = {}
      <4> HIDE DEF Input
      <4>1. k \in Listeners(net) =>
              IF Done(stack, visited, k) /\ Input(net, firing, k) # NoEvent
              THEN OnceIn(heard, k, Input(net, firing, k)) ELSE CallsIn(heard, k) = {}
        BY <2>1, <2>2, <2>3 DEF NodeRight
      <4> QED BY <3>3, <3>4, <4>1
    <3> HIDE DEF Right, Input
    <3> QED BY <2>2, <2>3, <2>4, <2>5, <2>6, <2>7, <3>1, <3>2, <3>5, <3>6 DEF NodeRight
  <2> QED BY <2>8, <2>9
<1> QED BY <1>6, <1>10

(* Node n as its update finds it: nothing that it reads is the node        *)
(* itself, and it has done nothing yet.                                    *)
Before(n) ==
  /\ n \in Nodes(net) /\ (dependencies[n] = net.in[n] \/ (net.kind[n] = "once" /\ dependencies[n] = <<>>))
  /\ \A m \in Entries(dependencies[n]) : m # n /\ m \in Nodes(net) /\ (firing[m] # NoEvent => changed[m])
  /\ firing[n] # NoEvent => changed[n]
  /\ n \notin Sinks(net) => firing[n] = NoEvent
  /\ n \in Listeners(net) => CallsIn(heard, n) = {}
  /\ Resets(prePost) /\ Posts(net, post) /\ IsList(heard)
  /\ DOMAIN firing = Nodes(net) /\ DOMAIN changed = Nodes(net) /\ DOMAIN next = Nodes(net)

(* ... and as it leaves it, with all the other nodes as they were.         *)
After(n) ==
  /\ \A k \in Nodes(net) : k # n =>
       firing'[k] = firing[k] /\ changed'[k] = changed[k] /\ next'[k] = next[k]
  /\ \A l \in Nodes(net) : l # n =>
       CallsIn(heard', l) = CallsIn(heard, l) /\ \A k \in CallsIn(heard, l) : heard'[k] = heard[k]
  /\ firing'[n] # NoEvent => changed'[n]
  /\ n \in Sinks(net) /\ changed'[n] => changed[n]
  /\ n \notin Sinks(net) => Right(net, dependencies, firing', value, n)
  /\ n \in Cells(net) /\ Input(net, firing', n) # NoEvent => next'[n] = Input(net, firing', n)
  /\ n \in Listeners(net) =>
       IF Input(net, firing', n) # NoEvent THEN OnceIn(heard', n, Input(net, firing', n))
       ELSE CallsIn(heard', n) = {}
  /\ Resets(prePost') /\ Posts(net, post') /\ IsList(heard') /\ DOMAIN next' = Nodes(net)
  /\ changedNodes' = changedNodes

(* A node nothing of whose inputs changed is left alone.                   *)
LEMMA NothingRuns ==
  ASSUME Plain(net), NEW STATE n, Before(n), RunNothing,
         \A m \in Entries(dependencies[n]) : ~changed[m]
  PROVE  After(n)
<1>1. /\ UNCHANGED <<firing, changed, prePost, changedNodes, next, post, heard>>
      /\ n \in Nodes(net) /\ \A m \in Entries(dependencies[n]) : firing[m] = NoEvent
  BY DEF RunNothing, Before
<1>2. n \notin Sinks(net) /\ dependencies[n] # <<>> =>
        /\ dependencies[n] = net.in[n] /\ Entries(dependencies[n]) = Inputs(net, n)
        /\ net.in[n][1] \in Inputs(net, n)
  BY <1>1, InputsOf DEF Before
<1>3. n \notin Sinks(net) => Right(net, dependencies, firing, value, n)
  <2> SUFFICES ASSUME n \notin Sinks(net) PROVE Right(net, dependencies, firing, value, n)
    OBVIOUS
  <2>1. firing[n] = NoEvent
    BY DEF Before
  <2>2. dependencies[n] # <<>> => Event(net, n, firing, value) = NoEvent
    BY <1>1, <1>2, EventOf
  <2> QED BY <2>1, <2>2 DEF Right
<1>4. n \in Cells(net) \/ n \in Listeners(net) => Input(net, firing, n) = NoEvent
  <2> SUFFICES ASSUME n \in Cells(net) \/ n \in Listeners(net) PROVE Input(net, firing, n) = NoEvent
    OBVIOUS
  <2>1. n \notin Sinks(net) /\ net.kind[n] # "once"
    BY DEF Cells, Listeners, Sinks, OfKind
  <2>2. dependencies[n] = net.in[n] /\ net.in[n] # <<>>
    BY <1>1, <2>1, InputsOf DEF Before
  <2> QED BY <1>1, <1>2, <2>1, <2>2 DEF Input
<1> HIDE DEF Right, Input
<1>5. \A l \in Nodes(net) :
        CallsIn(heard', l) = CallsIn(heard, l) /\ \A k \in CallsIn(heard, l) : heard'[k] = heard[k]
  BY <1>1
<1> QED BY <1>1, <1>3, <1>4, <1>5 DEF After, Before

(* What the update of n, one that reads what it depends on, may rely on.   *)
LEMMA ReadsSettled ==
  ASSUME Plain(net), NEW STATE n, Before(n), dependencies[n] # <<>>,
         \A k \in Nodes(net) : k # n => firing'[k] = firing[k]
  PROVE  /\ n \notin Sinks(net) /\ dependencies[n] = net.in[n] /\ firing[n] = NoEvent
         /\ Event(net, n, firing', value) = Event(net, n, firing, value)
         /\ Input(net, firing', n) = Input(net, firing, n)
<1>1. n \in Nodes(net) /\ dependencies[n] = net.in[n]
  BY DEF Before
<1>2. n \notin Sinks(net) /\ firing[n] = NoEvent
  BY <1>1, InputsOf DEF Before
<1>3. Entries(dependencies[n]) = Inputs(net, n) /\ net.in[n][1] \in Inputs(net, n)
  BY <1>1, <1>2, InputsOf
<1>4. \A m \in Inputs(net, n) : firing'[m] = firing[m]
  BY <1>3 DEF Before
<1>5. Event(net, n, firing', value) = Event(net, n, firing, value)
  BY <1>1, <1>2, <1>4, EventOf
<1> QED BY <1>1, <1>2, <1>3, <1>4, <1>5 DEF Input

(* A stream fires what its combinator makes of the inputs.                 *)
LEMMA StreamRuns ==
  ASSUME Plain(net), NEW STATE n, Before(n), dependencies[n] # <<>>, RunStream(n),
         net.kind[n] \in {"map", "filter", "merge", "orElse", "snapshot", "loop", "once"}
  PROVE  After(n)
<1> DEFINE a == Event(net, n, firing, value)
<1>1. /\ n \in Nodes(net) /\ n \notin Cells(net) /\ n \notin Listeners(net)
      /\ net.kind[n] \notin Silent /\ net.kind[n] # "coalescing"
  BY DEF Before, Cells, Listeners, OfKind, Silent
<1>2. /\ UNCHANGED <<next, changedNodes, heard>>
      /\ IF a = NoEvent THEN UNCHANGED <<firing, changed, prePost, post, lifted>>
         ELSE Fire(n, a) /\ AfterFiring(n)
  BY DEF RunStream
<1> HIDE DEF a
<1>3. /\ \A k \in Nodes(net) : k # n => firing'[k] = firing[k] /\ changed'[k] = changed[k]
      /\ firing'[n] = IF a = NoEvent THEN firing[n] ELSE a
      /\ a # NoEvent => changed'[n]
      /\ prePost' = prePost \/ prePost' = Append(prePost, [op |-> "clear", node |-> n])
      /\ post' = post \/ (post' = Append(post, [op |-> "remove", node |-> n]) /\ net.kind[n] = "once")
  <2>1. CASE a = NoEvent
    BY <1>2, <2>1
  <2>2. CASE a # NoEvent
    BY <1>1, <1>2, <2>2 DEF Before, Fire, AfterFiring
  <2> QED BY <2>1, <2>2
<1>4. /\ n \notin Sinks(net) /\ dependencies[n] = net.in[n] /\ firing[n] = NoEvent
      /\ Event(net, n, firing', value) = a
  BY <1>3, ReadsSettled DEF a
<1>5. Right(net, dependencies, firing', value, n)
  BY <1>1, <1>3, <1>4 DEF Right
<1>6. Resets(prePost')
  <2> DEFINE k == [op |-> "clear", node |-> n]
  <2>1. k.op = "clear" /\ Resets(prePost)
    BY DEF Before
  <2> HIDE DEF k
  <2>2. Resets(Append(prePost, k))
    BY <2>1, ListAppend DEF Resets
  <2> QED BY <1>3, <2>1, <2>2 DEF k
<1>7. Posts(net, post')
  <2> DEFINE k == [op |-> "remove", node |-> n]
  <2>1. k.op = "remove" /\ k.node = n /\ Posts(net, post)
    BY DEF Before
  <2> HIDE DEF k
  <2>2. net.kind[n] = "once" => Posts(net, Append(post, k))
    BY <1>1, <2>1, ListAppend DEF Posts, Onces, OfKind
  <2> QED BY <1>3, <2>1, <2>2 DEF k
<1>8. firing'[n] # NoEvent => changed'[n]
  BY <1>3, <1>4
<1> HIDE DEF Right
<1>9. \A l \in Nodes(net) :
        CallsIn(heard', l) = CallsIn(heard, l) /\ \A k \in CallsIn(heard, l) : heard'[k] = heard[k]
  BY <1>2
<1> QED BY <1>1, <1>2, <1>3, <1>4, <1>5, <1>6, <1>7, <1>8, <1>9 DEF After, Before

(* A hold keeps the event for later.                                       *)
LEMMA HoldRuns ==
  ASSUME Plain(net), NEW STATE n, Before(n), dependencies[n] # <<>>, RunHold(n),
         net.kind[n] = "hold"
  PROVE  After(n)
<1> DEFINE a == firing[net.in[n][1]]
           k == [op |-> "commit", node |-> n]
<1>1. /\ UNCHANGED <<firing, changed, prePost, changedNodes, heard>>
      /\ next' = [next EXCEPT ![n] = IF a = NoEvent THEN @ ELSE a]
      /\ post' = post \/ post' = Append(post, k)
  BY DEF RunHold
<1>2. n \in Nodes(net) /\ n \notin Listeners(net) /\ net.kind[n] \in Silent
  BY DEF Before, Listeners, OfKind, Silent
<1>3. n \notin Sinks(net) /\ firing[n] = NoEvent /\ Input(net, firing', n) = a
  BY <1>1, ReadsSettled DEF Input
<1> HIDE DEF a
<1>4. /\ DOMAIN next' = Nodes(net) /\ \A m \in Nodes(net) : m # n => next'[m] = next[m]
      /\ a # NoEvent => next'[n] = a
  BY <1>1, <1>2 DEF Before
<1>5. Right(net, dependencies, firing', value, n)
  BY <1>1, <1>2, <1>3 DEF Right
<1>6. Posts(net, post')
  <2>1. k.op = "commit" /\ Posts(net, post)
    BY DEF Before
  <2> HIDE DEF k
  <2>2. Posts(net, Append(post, k))
    BY <2>1, ListAppend DEF Posts
  <2> QED BY <1>1, <2>1, <2>2
<1> HIDE DEF Right
<1>7. \A l \in Nodes(net) :
        CallsIn(heard', l) = CallsIn(heard, l) /\ \A i \in CallsIn(heard, l) : heard'[i] = heard[i]
  BY <1>1
<1> QED BY <1>1, <1>2, <1>3, <1>4, <1>5, <1>6, <1>7 DEF After, Before

(* A listener is called.                                                   *)
LEMMA ListenRuns ==
  ASSUME Plain(net), NEW STATE n, Before(n), dependencies[n] # <<>>, RunListen(n),
         net.kind[n] = "listen"
  PROVE  After(n)
<1> DEFINE a == firing[net.in[n][1]]
           h == Append(heard, <<n, a>>)
<1>1. /\ UNCHANGED <<firing, changed, prePost, changedNodes, next, post>>
      /\ heard' = IF a = NoEvent THEN heard ELSE h
  BY DEF RunListen
<1>2. /\ n \in Nodes(net) /\ n \notin Cells(net) /\ n \in Listeners(net)
      /\ net.kind[n] \in Silent
  BY DEF Before, Listeners, Cells, OfKind, Silent
<1>3. n \notin Sinks(net) /\ firing[n] = NoEvent /\ Input(net, firing', n) = a
  BY <1>1, ReadsSettled DEF Input
<1> HIDE DEF a
<1>4. Right(net, dependencies, firing', value, n)
  BY <1>1, <1>2, <1>3 DEF Right
<1>5. /\ Len(heard) \in Nat /\ Len(h) = Len(heard) + 1 /\ h[Len(heard) + 1] = <<n, a>>
      /\ \A i \in 1 .. Len(heard) : h[i] = heard[i]
      /\ DOMAIN heard = 1 .. Len(heard) /\ DOMAIN h = 1 .. Len(h) /\ IsList(h)
  <2>1. heard \in Seq(Entries(heard)) /\ IsList(heard)
    BY DEF Before, IsList
  <2>2. /\ h \in Seq(Frames(h)) /\ Len(heard) \in Nat /\ Len(h) = Len(heard) + 1
        /\ h[Len(heard) + 1] = <<n, a>> /\ \A i \in 1 .. Len(heard) : h[i] = heard[i]
    <3>1. heard \in Seq(Frames(heard))
      BY <2>1 DEF Entries, Frames
    <3> QED BY <3>1, PushSeq
  <2>3. IsList(h)
    BY <2>1, ListAppend
  <2> HIDE DEF h
  <2> QED BY <2>1, <2>2, <2>3, LenProperties
<1> HIDE DEF h
<1>6. DOMAIN h = DOMAIN heard \cup {Len(heard) + 1} /\ Len(heard) + 1 \notin DOMAIN heard
  BY <1>5
<1>7. \A l : l # n => CallsIn(h, l) = CallsIn(heard, l)
  BY <1>5, <1>6 DEF CallsIn
<1>8. CallsIn(heard, n) = {}
  BY <1>2 DEF Before
<1>9. CallsIn(h, n) = {Len(heard) + 1}
  <2>1. \A i \in DOMAIN heard : h[i][1] # n
    BY <1>5, <1>8 DEF CallsIn
  <2> QED BY <1>5, <1>6, <2>1 DEF CallsIn
<1>10. OnceIn(h, n, a)
  BY <1>5, <1>9 DEF OnceIn
<1>11. \A l \in Nodes(net) : l # n =>
         CallsIn(heard', l) = CallsIn(heard, l) /\ \A k \in CallsIn(heard, l) : heard'[k] = heard[k]
  <2>1. \A l : \A k \in CallsIn(heard, l) : h[k] = heard[k]
    BY <1>5 DEF CallsIn
  <2> QED BY <1>1, <1>7, <2>1
<1> HIDE DEF Right
<1>12. IsList(heard')
  BY <1>1, <1>5 DEF Before
<1>13. IF Input(net, firing', n) # NoEvent THEN OnceIn(heard', n, Input(net, firing', n))
       ELSE CallsIn(heard', n) = {}
  BY <1>1, <1>3, <1>8, <1>10
<1> HIDE DEF Input
<1> QED BY <1>1, <1>2, <1>3, <1>4, <1>11, <1>12, <1>13 DEF After, Before

(* The sends of a defer or a split go to its result.                       *)
LEMMA SendsFor ==
  ASSUME NEW nt, NEW m \in Sinks(nt), NEW s, IsList(s)
  PROVE  Posts(nt, [i \in DOMAIN s |-> [op |-> "send", node |-> m, event |-> s[i]]])
<1> DEFINE t == [i \in DOMAIN s |-> [op |-> "send", node |-> m, event |-> s[i]]]
           A == {[op |-> "send", node |-> m, event |-> e] : e \in Entries(s)}
<1>1. Len(s) \in Nat /\ DOMAIN s = 1 .. Len(s)
  BY LenProperties DEF IsList
<1>2. t \in [1 .. Len(s) -> A]
  BY <1>1 DEF Entries
<1>3. \A k \in A : k.op = "send" /\ k.node = m
  OBVIOUS
<1> HIDE DEF t, A
<1>4. t \in Seq(A)
  BY <1>1, <1>2, SeqDef
<1>5. IsList(t) /\ Entries(t) \subseteq A
  BY <1>4, ListOf
<1> QED BY <1>3, <1>5 DEF Posts, t

(* A defer or split posts the sends of its events, and nothing else.       *)
LEMMA DeferRuns ==
  ASSUME Plain(net), NEW STATE n, Before(n), dependencies[n] # <<>>, RunDefer(n),
         n \in Defers(net)
  PROVE  After(n)
<1> DEFINE a == firing[net.in[n][1]]
           sent == Posted(net, n, a)
           more == [i \in DOMAIN sent |-> [op |-> "send", node |-> net.to[n], event |-> sent[i]]]
<1>1. UNCHANGED <<firing, changed, prePost, changedNodes, next, heard>> /\ post' = post \o more
  BY DEF RunDefer
<1>2. /\ n \in Nodes(net) /\ n \notin Cells(net) /\ n \notin Listeners(net)
      /\ net.kind[n] \in Silent /\ net.kind[n] # "loop" /\ n \notin Sinks(net)
  BY DEF Before, Defers, Listeners, Cells, OfKind, Silent, Sinks
<1>3. net.to[n] \in Sinks(net)
  <2>1. net.to[n] = n - 1 /\ net.kind[n - 1] = "deferred" /\ Inputs(net, n) \subseteq 1 .. n - 1
    BY <1>2 DEF Plain, NetworkOK
  <2>2. net.in[n][1] \in Inputs(net, n) /\ Len(net.kind) \in Nat
    BY <1>2, InputsOf
  <2>3. n - 1 \in Nodes(net)
    BY <1>2, <2>1, <2>2 DEF Nodes
  <2> QED BY <2>1, <2>3 DEF Sinks, OfKind
<1>4. IsList(sent)
  <2>1. ASSUME NEW x, NEW y PROVE IsList(<<>>) /\ IsList(<<x>>) /\ IsList(<<x, y>>)
    <3> DEFINE A == {x, y}
    <3>1. <<>> \in Seq(A) /\ <<x>> \in Seq(A) /\ <<x, y>> \in Seq(A)
      OBVIOUS
    <3> HIDE DEF A
    <3> QED BY <3>1, ListOf
  <2> QED BY <2>1 DEF Posted
<1> HIDE DEF sent
<1>5. Posts(net, more)
  BY <1>3, <1>4, SendsFor
<1> HIDE DEF more
<1>6. Posts(net, post')
  <2>1. Posts(net, post)
    BY DEF Before
  <2> QED BY <1>1, <1>5, <2>1, ListConcat DEF Posts
<1>7. Right(net, dependencies, firing', value, n)
  BY <1>1, <1>2 DEF Right, Before
<1> HIDE DEF Right
<1>8. \A l \in Nodes(net) :
        CallsIn(heard', l) = CallsIn(heard, l) /\ \A i \in CallsIn(heard, l) : heard'[i] = heard[i]
  BY <1>1
<1> QED BY <1>1, <1>2, <1>6, <1>7, <1>8 DEF After, Before

(* update_node, when all it depends on is visited: the update of the node. *)
LEMMA RunWaves ==
  ASSUME StackInv, StackInv', CleanInv, Plain(net), WaveInv, RunUpdate
  PROVE  WaveInv'
<1> DEFINE n == Top.node
<1>1. /\ TopIs("update", "dependencies") /\ Top.list = <<>>
      /\ IF AnyChanged THEN RunClosure(n) ELSE RunNothing
      /\ stack' = SetTop(Update("dependents", n, Top.reads,
                                IF changed'[n] THEN dependents[n] ELSE <<>>))
      /\ UNCHANGED <<net, dependencies, dependents, visited, value, preEot>>
  BY DEF RunUpdate, edges
<1>2. /\ Wave /\ stack # <<>> /\ Shape(stack) /\ Active(stack)
      /\ UpdateFrame(net, dependencies, visited, Top) /\ Top \in Frames(stack)
      /\ n \in Nodes(net) /\ Top.reads = dependencies[n] /\ visited[n]
      /\ ~Done(stack, visited, n)
      /\ \A m \in Entries(dependencies[n]) :
           Done(stack, visited, m) /\ m # n /\ m \in Nodes(net)
  BY <1>1, RunReady
<1>3. Before(n)
  <2>1. \A m \in Nodes(net) : firing[m] # NoEvent => changed[m]
    BY <1>2 DEF Wave, NodeRight
  <2>2. /\ n \notin Sinks(net) => firing[n] = NoEvent
        /\ n \in Listeners(net) => Calls(n) = {}
    BY <1>2 DEF Wave, NodeRight
  <2>3. DOMAIN changed = Nodes(net) /\ DOMAIN firing = Nodes(net)
    BY Ready
  <2> QED BY <1>2, <2>1, <2>2, <2>3 DEF Before, WaveInv, Wired, Calls, CallsIn
<1>4. DOMAIN Top.reads = 1 .. Len(Top.reads)
  BY <1>2, Ready, LenProperties DEF IsList
<1> HIDE DEF n
<1>5. After(n)
  <2>1. CASE ~AnyChanged
    <3>1. \A m \in Entries(dependencies[n]) : ~changed[m]
      BY <1>2, <1>4, <2>1 DEF AnyChanged, Entries
    <3> QED BY <1>1, <1>3, <2>1, <3>1, NothingRuns
  <2>2. CASE AnyChanged
    <3>1. RunClosure(n) /\ dependencies[n] # <<>>
      <4>1. Entries(dependencies[n]) # {}
        BY <1>2, <1>4, <2>2 DEF AnyChanged, Entries
      <4> QED BY <1>1, <2>2, <4>1, ListEmpty
    <3>2. n \notin Sinks(net) /\ net.kind[n] \in PlainKinds
      BY <1>2, <1>3, <3>1, InputsOf DEF Before, Plain
    <3>3. net.kind[n] \in {"map", "filter", "merge", "orElse", "snapshot", "hold", "loop", "once",
                           "listen", "defer", "split"}
      BY <1>2, <3>2 DEF PlainKinds, Sinks, OfKind
    <3>4. CASE net.kind[n] = "hold"
      <4>1. /\ net.kind[n] # "listen" /\ n \notin Defers(net) /\ net.kind[n] # "router"
            /\ net.kind[n] # "outer" /\ ~(n \in Sinks(net) \/ net.kind[n] \in {"route", "outerC"})
        BY <3>2, <3>4 DEF Defers, OfKind
      <4>2. RunHold(n)
        BY <3>1, <3>4, <4>1 DEF RunClosure
      <4> QED BY <1>3, <3>1, <3>4, <4>2, HoldRuns
    <3>5. CASE net.kind[n] = "listen"
      <4>1. /\ net.kind[n] # "hold" /\ n \notin Defers(net) /\ net.kind[n] # "router"
            /\ net.kind[n] # "outer" /\ ~(n \in Sinks(net) \/ net.kind[n] \in {"route", "outerC"})
        BY <3>2, <3>5 DEF Defers, OfKind
      <4>2. RunListen(n)
        BY <3>1, <3>5, <4>1 DEF RunClosure
      <4> QED BY <1>3, <3>1, <3>5, <4>2, ListenRuns
    <3>6. CASE net.kind[n] \in {"defer", "split"}
      <4>1. /\ n \in Defers(net) /\ net.kind[n] # "hold" /\ net.kind[n] # "listen"
            /\ net.kind[n] # "router" /\ net.kind[n] # "outer"
            /\ ~(n \in Sinks(net) \/ net.kind[n] \in {"route", "outerC"})
        BY <1>2, <3>2, <3>6 DEF Defers, OfKind
      <4>2. RunDefer(n)
        BY <3>1, <4>1 DEF RunClosure
      <4> QED BY <1>3, <3>1, <4>1, <4>2, DeferRuns
    <3>7. CASE net.kind[n] \in {"map", "filter", "merge", "orElse", "snapshot", "loop", "once"}
      <4>1. RunStream(n)
        BY <3>1, <3>2, <3>7 DEF RunClosure, Defers, OfKind
      <4> QED BY <1>3, <3>1, <3>7, <4>1, StreamRuns
    <3> QED BY <3>3, <3>4, <3>5, <3>6, <3>7
  <2> QED BY <2>1, <2>2
<1>6. Wave' /\ Trail(net', dependencies', visited', stack')
  <2>1. changedNodes' = changedNodes
    BY <1>5 DEF After
  <2> HIDE DEF Right, Input
  <2> QED BY <1>1, <1>5, <2>1, RunStep DEF After, n
<1>7. Active(stack')
  <2>1. Frame(Update("dependents", n, Top.reads, IF changed'[n] THEN dependents[n] ELSE <<>>), "update")
    BY DEF Frame, Update
  <2> QED BY <1>1, <1>2, <2>1, SetTopUpdate
<1>8. stack' # <<>> /\ Resets(prePost') /\ Posts(net, post') /\ IsList(heard') /\ DOMAIN next' = Nodes(net)
      /\ changedNodes' = changedNodes
  BY <1>5, <1>7 DEF After, Active
<1> QED BY <1>1, <1>6, <1>7, <1>8 DEF WaveInv

-----------------------------------------------------------------------------
(* Once the propagation is over *)

(* A once that disconnects leaves the others as they are wired.            *)
LEMMA DisconnectWires ==
  ASSUME Plain(net), Wired(net, dependencies, dependents), NEW STATE n, n \in Onces(net),
         Disconnect(n)
  PROVE  Wired(net, dependencies', dependents')
<1>1. /\ DOMAIN dependencies = Nodes(net) /\ DOMAIN dependents = Nodes(net)
      /\ \A k \in Nodes(net) : dependencies[k] = net.in[k] \/ (net.kind[k] = "once" /\ dependencies[k] = <<>>)
      /\ \A m \in Nodes(net) :
           IsList(dependents[m]) /\ Entries(dependents[m]) = {k \in Nodes(net) : m \in Entries(dependencies[k])}
  BY DEF Wired
<1>2. n \in Nodes(net) /\ net.kind[n] = "once"
  BY DEF Onces, OfKind
<1>3. /\ DOMAIN dependencies' = Nodes(net) /\ dependencies'[n] = <<>>
      /\ \A k \in Nodes(net) : k # n => dependencies'[k] = dependencies[k]
  BY <1>1, <1>2 DEF Disconnect
<1>4. Entries(dependencies'[n]) = {}
  BY <1>3, ListEmpty
<1>5. IsList(dependencies[n])
  BY <1>1, <1>2, InputsOf, ListEmpty
<1>6. \A m : (\E k \in DOMAIN dependencies[n] : dependencies[n][k] = m) <=> m \in Entries(dependencies[n])
  BY <1>5, LenProperties DEF IsList, Entries
<1>7. DOMAIN dependents' = Nodes(net)
  BY DEF Disconnect
<1>8. ASSUME NEW m \in Nodes(net)
      PROVE  /\ IsList(dependents'[m])
             /\ Entries(dependents'[m]) = {k \in Nodes(net) : m \in Entries(dependencies'[k])}
  <2>1. IsList(dependents[m]) /\ Entries(dependents[m]) = {k \in Nodes(net) : m \in Entries(dependencies[k])}
    BY <1>1
  <2>2. dependents'[m] = IF m \in Entries(dependencies[n]) THEN Without(dependents[m], n) ELSE dependents[m]
    BY <1>6 DEF Disconnect
  <2>3. IsList(Without(dependents[m], n)) /\ Entries(Without(dependents[m], n)) = Entries(dependents[m]) \ {n}
    BY <2>1, WithoutList
  <2>4. IsList(dependents'[m]) /\ Entries(dependents'[m]) = Entries(dependents[m]) \ {n}
    BY <1>2, <2>1, <2>2, <2>3
  <2>5. \A k \in Nodes(net) : m \in Entries(dependencies'[k]) <=> k # n /\ m \in Entries(dependencies[k])
    BY <1>3, <1>4
  <2> QED BY <2>1, <2>4, <2>5
<1> QED BY <1>1, <1>2, <1>3, <1>7, <1>8 DEF Wired

(* A call of end_of_transaction goes on as f, with nothing to propagate.   *)
LEMMA RestWaves ==
  ASSUME StackInv, stack # <<>>, Top.op = "eot", WaveInv, net' = net,
         NEW STATE f, stack' = SetTop(f), f.op = "eot", EotFrame(net, f), ~Propagates(f),
         Trail(net, dependencies', visited', stack), Wired(net, dependencies', dependents'),
         preEot' = <<>>, Resets(prePost'), Posts(net, post'), SinkList(net, changedNodes'),
         DOMAIN next' = Nodes(net), heard' = <<>>
  PROVE  WaveInv'
<1>1. Shape(stack) /\ stack[Len(stack)] = Top
  BY DEF StackInv, Top
<1>2. stack' = Append(Lower(stack), f) /\ stack' # <<>> /\ stack'[Len(stack')] = f
  BY TopFrames
<1>3. Trail(net, dependencies', visited', stack')
  BY <1>1, <1>2, TrailTop
<1>4. ~Active(stack')
  BY <1>2 DEF Active
<1>5. IsList(heard')
  BY ListEmpty
<1> QED BY <1>2, <1>3, <1>4, <1>5 DEF WaveInv

(* The transaction is closed.                                              *)
LEMMA CloseWaves ==
  ASSUME StackInv, CleanInv, Plain(net), WaveInv, TakeChanged, changedNodes = <<>>
  PROVE  WaveInv'
<1> DEFINE f == [Top EXCEPT !.pc = "pre_post", !.list = prePost]
<1>1. /\ stack # <<>> /\ Top.op = "eot" /\ stack' = SetTop(f) /\ heard' = <<>> /\ prePost' = <<>>
      /\ UNCHANGED <<net, dependencies, dependents, visited, next, preEot, post, changedNodes>>
  BY DEF TakeChanged, TopIs, Close, edges, flags, cells
<1>2. EotFrame(net, Top)
  <2>1. Len(stack) \in 1 .. Len(stack)
    BY <1>1, TopFrame DEF StackInv
  <2> QED BY <1>1, <2>1 DEF WaveInv, Trail, Top
<1>3. f.op = "eot" /\ f.pc = "pre_post" /\ f.list = prePost /\ DOMAIN f = DOMAIN Top
  BY <1>1, <1>2 DEF EotFrame
<1> HIDE DEF f
<1>4. EotFrame(net, f) /\ ~Propagates(f)
  BY <1>2, <1>3 DEF EotFrame, Propagates, WaveInv
<1>5. Resets(prePost')
  BY <1>1, ListEmpty DEF Resets
<1>6. /\ Trail(net, dependencies', visited', stack) /\ Wired(net, dependencies', dependents')
      /\ preEot' = <<>> /\ Posts(net, post') /\ SinkList(net, changedNodes') /\ DOMAIN next' = Nodes(net)
  BY <1>1 DEF WaveInv
<1> QED BY <1>1, <1>3, <1>4, <1>5, <1>6, RestWaves

(* pre_post: flags are reset.                                              *)
LEMMA PrePostWaves ==
  ASSUME StackInv, CleanInv, Plain(net), WaveInv, RunPrePost
  PROVE  WaveInv'
<1>1. /\ stack # <<>> /\ Top.op = "eot" /\ Top.pc = "pre_post" /\ Shape(stack) /\ ~Active(stack)
      /\ UNCHANGED <<net, next, preEot, prePost, changedNodes, heard>>
  BY TopIsFrame DEF RunPrePost, TopIs, StackInv, Propagates, cells, outcome
<1>2. EotFrame(net, Top)
  <2>1. Len(stack) \in 1 .. Len(stack)
    BY <1>1, TopFrame
  <2> QED BY <1>1, <2>1 DEF WaveInv, Trail, Top
<1>3. /\ Trail(net, dependencies', visited', stack) /\ heard' = <<>> /\ preEot' = <<>>
      /\ Resets(prePost') /\ Posts(net, post) /\ SinkList(net, changedNodes')
      /\ DOMAIN next' = Nodes(net) /\ Wired(net, dependencies, dependents)
  BY <1>1, TrailIdle DEF WaveInv
<1>4. CASE Top.list = <<>>
  <2> DEFINE f == [Top EXCEPT !.pc = "post", !.list = post]
  <2>1. stack' = SetTop(f) /\ post' = <<>> /\ UNCHANGED <<dependencies, dependents>>
    BY <1>4 DEF RunPrePost, edges
  <2>2. f.op = "eot" /\ f.pc = "post" /\ f.list = post /\ DOMAIN f = DOMAIN Top
    BY <1>1, <1>2 DEF EotFrame
  <2> HIDE DEF f
  <2>3. EotFrame(net, f) /\ ~Propagates(f)
    BY <1>2, <1>3, <2>2 DEF EotFrame, Propagates
  <2>4. Posts(net, post')
    BY <2>1, ListEmpty DEF Posts
  <2> QED BY <1>1, <1>3, <2>1, <2>2, <2>3, <2>4, RestWaves
<1>5. CASE Top.list # <<>>
  <2> DEFINE f == [Top EXCEPT !.list = Tail(@)]
             k == Head(Top.list)
  <2>1. Resets(Top.list)
    BY <1>1, <1>2 DEF EotFrame
  <2>2. Resets(Tail(Top.list)) /\ k.op \in {"clear", "unvisit"}
    <3>1. IsList(Tail(Top.list)) /\ Entries(Top.list) = Entries(Tail(Top.list)) \cup {k}
      BY <1>5, <2>1, ListTail DEF Resets
    <3> QED BY <2>1, <3>1 DEF Resets
  <2>3. stack' = SetTop(f) /\ post' = post /\ UNCHANGED <<dependencies, dependents>>
    BY <1>5, <2>2 DEF RunPrePost, edges
  <2>4. f.op = "eot" /\ f.pc = "pre_post" /\ f.list = Tail(Top.list) /\ DOMAIN f = DOMAIN Top
    BY <1>1, <1>2 DEF EotFrame
  <2> HIDE DEF f, k
  <2>5. EotFrame(net, f) /\ ~Propagates(f)
    BY <1>2, <2>2, <2>4 DEF EotFrame, Propagates
  <2> QED BY <1>1, <1>3, <2>3, <2>4, <2>5, RestWaves
<1> QED BY <1>4, <1>5

(* Between transactions no stream fires, and nothing counts as changed.    *)
LEMMA AtRest ==
  ASSUME StackInv, CleanInv, Plain(net), stack # <<>>, Top.op = "eot", Top.pc = "post"
  PROVE  /\ \A n \in Nodes(net) : firing[n] = NoEvent /\ ~changed[n] /\ ~visited[n]
         /\ ~Active(stack) /\ prePost = <<>> /\ changedNodes = <<>>
<1>1. ~Active(stack) /\ Pending(stack) = {}
  BY TopIsFrame DEF StackInv, TopIs, Top, Propagates, Pending
<1>2. Covered(net, visited, changed, firing, {}) /\ prePost = <<>> /\ changedNodes = <<>>
  BY <1>1, Resting
<1>3. \A n \in Nodes(net) : n <= net.start /\ net.kind[n] # "outerC"
  <2>1. net.start = Len(net.kind) /\ Len(net.kind) \in Nat
    BY LenProperties DEF Plain, NetworkOK
  <2>2. \A n \in Nodes(net) : n <= net.start
    BY <2>1 DEF Nodes
  <2>3. \A n \in Nodes(net) : net.kind[n] # "outerC"
    BY DEF Plain, PlainKinds
  <2> QED BY <2>2, <2>3
<1> QED BY <1>1, <1>2, <1>3 DEF Covered, Due

(* A sink fires, the first one of its transaction or not.                  *)
LEMMA SendStarts ==
  ASSUME Starting, NEW STATE n, n \in Sinks(net), NEW STATE a, SinkSend(n, a), IsList(changedNodes),
         Resets(prePost), DOMAIN firing = Nodes(net), DOMAIN changed = Nodes(net),
         SinkList(net, changedNodes),
         UNCHANGED <<net, heard, visited>>
  PROVE  Starting' /\ Resets(prePost') /\ SinkList(net, changedNodes')
<1> DEFINE k == [op |-> "clear", node |-> n]
<1>1. /\ changedNodes' = Append(changedNodes, n)
      /\ prePost' = prePost \/ prePost' = Append(prePost, k)
      /\ \A m \in Nodes(net) : m # n => firing'[m] = firing[m] /\ changed'[m] = changed[m]
      /\ changed'[n] /\ n \in Nodes(net)
  BY DEF SinkSend, Fire, Sinks, OfKind
<1>2. k.op = "clear"
  OBVIOUS
<1> HIDE DEF k
<1>3. IsList(changedNodes') /\ Entries(changedNodes') = Entries(changedNodes) \cup {n}
  BY <1>1, ListAppend
<1>4. Resets(prePost')
  <2>1. Resets(Append(prePost, k))
    BY <1>2, ListAppend DEF Resets
  <2> QED BY <1>1, <2>1
<1>5. SinkList(net, changedNodes')
  BY <1>3 DEF SinkList
<1>6. Starting'
  <2>1. \A m \in Nodes(net) :
          /\ firing'[m] # NoEvent => changed'[m] /\ m \in Sinks(net)
          /\ m \in Sinks(net) /\ changed'[m] => m \in Entries(changedNodes')
          /\ ~visited'[m]
    BY <1>1, <1>3 DEF Starting
  <2>2. heard' = <<>>
    BY DEF Starting
  <2> QED BY <2>1, <2>2 DEF Starting, Nodes, Sinks, OfKind
<1> QED BY <1>4, <1>5, <1>6

(* post: what is deferred begins a transaction of its own.                 *)
LEMMA PostWaves ==
  ASSUME StackInv, StackInv', CleanInv, Plain(net), WaveInv, RunPost
  PROVE  WaveInv'
<1> DEFINE k == Head(Top.list)
           f == [Top EXCEPT !.list = Tail(@)]
<1>1. /\ stack # <<>> /\ Top.op = "eot" /\ Top.pc = "post" /\ Shape(stack) /\ Top.list # <<>>
      /\ UNCHANGED <<net, post, heard>>
  BY DEF RunPost, TopIs, StackInv, outcome
<1>2. /\ \A n \in Nodes(net) : firing[n] = NoEvent /\ ~changed[n] /\ ~visited[n]
      /\ ~Active(stack) /\ prePost = <<>> /\ changedNodes = <<>>
  BY <1>1, AtRest
<1>3. EotFrame(net, Top)
  <2>1. Len(stack) \in 1 .. Len(stack)
    BY <1>1, TopFrame
  <2> QED BY <1>1, <2>1 DEF WaveInv, Trail, Top
<1>4. f.op = "eot" /\ f.pc = "post" /\ f.list = Tail(Top.list) /\ DOMAIN f = DOMAIN Top
  BY <1>1, <1>3 DEF EotFrame
<1>5. /\ Posts(net, Tail(Top.list))
      /\ k.op = "send" => k.node \in Sinks(net)
      /\ k.op = "remove" => k.node \in Onces(net)
  <2>1. Posts(net, Top.list)
    BY <1>1, <1>3 DEF EotFrame
  <2>2. IsList(Tail(Top.list)) /\ Entries(Top.list) = Entries(Tail(Top.list)) \cup {k}
    BY <1>1, <2>1, ListTail DEF Posts
  <2> QED BY <2>1, <2>2 DEF Posts
<1>6. /\ stack' = SetTop(f) /\ UNCHANGED <<visited, changedNodes, preEot, prePost>>
         /\ DOMAIN next' = DOMAIN next
         /\ \/ UNCHANGED <<dependencies, dependents>>
            \/ k.op = "remove" /\ Disconnect(k.node)
      \/ /\ k.op = "send" /\ SinkSend(k.node, k.event) /\ BeginEot(SetTop(f), k)
         /\ UNCHANGED <<dependencies, dependents, visited, next>>
  BY DEF RunPost, Commit, edges, flags, cells
<1> HIDE DEF f, k
<1>7. EotFrame(net, f) /\ ~Propagates(f)
  BY <1>3, <1>4, <1>5 DEF EotFrame, Propagates
<1>8. /\ Trail(net, dependencies', visited', stack) /\ heard' = <<>> /\ preEot = <<>>
      /\ Resets(prePost) /\ Posts(net, post') /\ SinkList(net, changedNodes)
      /\ DOMAIN next = Nodes(net) /\ Wired(net, dependencies, dependents)
  BY <1>1, <1>2, TrailIdle DEF WaveInv
<1>9. CASE /\ stack' = SetTop(f) /\ UNCHANGED <<visited, changedNodes, preEot, prePost>>
           /\ DOMAIN next' = DOMAIN next
           /\ \/ UNCHANGED <<dependencies, dependents>>
              \/ k.op = "remove" /\ Disconnect(k.node)
  <2>1. Wired(net, dependencies', dependents')
    BY <1>5, <1>8, <1>9, DisconnectWires
  <2> QED BY <1>1, <1>4, <1>7, <1>8, <1>9, <2>1, RestWaves
<1>10. CASE /\ k.op = "send" /\ SinkSend(k.node, k.event) /\ BeginEot(SetTop(f), k)
            /\ UNCHANGED <<dependencies, dependents, visited, next>>
  <2> DEFINE g == Eot("pre_eot", <<>>, k)
             s == SetTop(f)
  <2>1. stack' = Append(s, g) /\ preEot' = <<>>
    BY <1>8, <1>10 DEF BeginEot
  <2>2. g.op = "eot" /\ g.pc = "pre_eot" /\ g.list = <<>> /\ {"op", "pc", "list"} \subseteq DOMAIN g
    BY DEF Eot
  <2> HIDE DEF g
  <2>3. EotFrame(net, g) /\ g.op # "update"
    BY <2>2 DEF EotFrame
  <2>4. s = Append(Lower(stack), f) /\ s \in Seq(Frames(s))
    BY <1>1, TopFrames
  <2>5. Trail(net, dependencies', visited', s)
    <3>1. stack[Len(stack)] = Top /\ f.op # "update"
      BY <1>4 DEF Top
    <3> QED BY <1>1, <1>4, <1>7, <1>8, <2>4, <3>1, TrailTop
  <2> HIDE DEF s
  <2>6. Trail(net, dependencies', visited', stack')
    BY <2>1, <2>3, <2>4, <2>5, TrailPush
  <2>7. Starting
    BY <1>1, <1>2, <1>8 DEF Starting
  <2>8. Starting' /\ Resets(prePost') /\ SinkList(net, changedNodes')
    <3>1. DOMAIN firing = Nodes(net) /\ DOMAIN changed = Nodes(net)
      BY Ready
    <3>2. IsList(changedNodes)
      BY <1>8 DEF SinkList
    <3>3. k.node \in Sinks(net) /\ SinkSend(k.node, k.event) /\ UNCHANGED <<net, heard, visited>>
      BY <1>1, <1>5, <1>10
    <3> QED BY <1>8, <2>7, <3>1, <3>2, <3>3, SendStarts
  <2>9. Wave'
    BY <2>8, StartsWave
  <2>10. stack' # <<>> /\ stack'[Len(stack')] = g
    BY <2>1, <2>4, PushSeq
  <2>11. IsList(heard') /\ UNCHANGED <<net, dependencies, dependents, next>>
    BY <1>1, <1>8, <1>10, ListEmpty
  <2> QED BY <1>8, <2>1, <2>6, <2>8, <2>9, <2>10, <2>11 DEF WaveInv
<1> QED BY <1>6, <1>9, <1>10

(* ... and the call returns.                                               *)
LEMMA EndWaves ==
  ASSUME StackInv, StackInv', CleanInv, Plain(net), WaveInv, EndEot
  PROVE  WaveInv'
<1>1. /\ stack # <<>> /\ Top.op = "eot" /\ Top.pc = "post" /\ Shape(stack) /\ stack \in Seq(Frames(stack))
      /\ stack' = Lower(stack)
      /\ UNCHANGED <<net, dependencies, dependents, visited, changed, firing, next, changedNodes,
                     preEot, prePost, post, heard>>
  BY DEF EndEot, TopIs, StackInv, Shape, Below, Lower, edges, flags, cells, queues, outcome
<1>2. /\ \A n \in Nodes(net) : firing[n] = NoEvent /\ ~changed[n] /\ ~visited[n]
      /\ ~Active(stack) /\ prePost = <<>> /\ changedNodes = <<>>
  BY <1>1, AtRest
<1>3. heard = <<>>
  BY <1>2 DEF WaveInv
<1>4. Starting'
  BY <1>1, <1>2, <1>3 DEF Starting, Nodes, Sinks, OfKind
<1>5. Trail(net, dependencies, visited, stack')
  BY <1>1, TrailPop DEF WaveInv
<1>6. Wave'
  BY <1>4, StartsWave
<1> QED BY <1>1, <1>2, <1>3, <1>5, <1>6 DEF WaveInv

(* The program sends, and the outermost transaction it leaves begins to    *)
(* propagate.                                                              *)
LEMMA ProgramWaves ==
  ASSUME StackInv, StackInv', CleanInv, Plain(net), WaveInv, Program
  PROVE  WaveInv'
<1>1. stack = <<>>
  BY DEF Program, Enter, Leave, Post, Build, Send
<1>2. /\ Wave /\ heard = <<>> /\ Len(stack) = 0 /\ ~Active(stack)
      /\ \A n \in Nodes(net) : ~visited[n]
  BY <1>1 DEF WaveInv, Active
<1>3. Frames(stack) = {}
  BY <1>2 DEF Frames
<1>4. Starting
  <2>1. ASSUME NEW n \in Nodes(net)
        PROVE  /\ firing[n] # NoEvent => changed[n] /\ n \in Sinks(net)
               /\ n \in Sinks(net) /\ changed[n] => n \in Entries(changedNodes)
    <3>1. ~Done(stack, visited, n) /\ ~Batched(stack, n)
      BY <1>2, <1>3 DEF Done, Batched
    <3> QED BY <1>2, <3>1 DEF Wave, NodeRight
  <2> QED BY <1>2, <2>1 DEF Starting
<1>5. ~Build
  <2>1. built = Len(net.kind) /\ Len(net.kind) \in Nat
    BY Ready
  <2>2. Build => built < Len(net.kind)
    BY DEF Build
  <2> QED BY <2>1, <2>2
<1>6. CASE Enter \/ Post
  <2> DEFINE k == [op |-> "user", node |-> 0]
  <2>1. /\ UNCHANGED <<net, dependencies, dependents, visited, changed, firing, value, next, changedNodes,
                       preEot, prePost, stack, heard>>
        /\ post' = post \/ post' = Append(post, k)
    BY <1>6 DEF Enter, Post, edges, flags, cells, queues, outcome
  <2>2. k.op = "user" /\ Posts(net, post)
    BY DEF WaveInv
  <2> HIDE DEF k
  <2>3. Posts(net, Append(post, k))
    BY <2>2, ListAppend DEF Posts
  <2>4. Posts(net, post')
    BY <2>1, <2>2, <2>3
  <2>5. Starting'
    BY <1>4, <2>1 DEF Starting, Nodes, Sinks, OfKind
  <2>6. Wave'
    BY <2>5, StartsWave
  <2> QED BY <2>1, <2>4, <2>6 DEF WaveInv
<1>7. CASE \E n \in Nodes(net), p \in Payload : Send(n, p)
  <2>1. PICK n \in Nodes(net), p \in Payload : Send(n, p)
    BY <1>7
  <2>2. /\ SinkSend(n, Sent(n, p)) /\ n \in Sinks(net)
        /\ UNCHANGED <<net, dependencies, dependents, visited, value, next, preEot, post, stack, heard>>
    BY <2>1 DEF Send, edges, cells, outcome, ProgramSinks, Sinks, OfKind
  <2>3. /\ DOMAIN firing = Nodes(net) /\ DOMAIN changed = Nodes(net) /\ Resets(prePost)
        /\ SinkList(net, changedNodes) /\ IsList(changedNodes)
    BY Ready DEF WaveInv, SinkList
  <2>4. Starting' /\ Resets(prePost') /\ SinkList(net, changedNodes')
    BY <1>4, <2>2, <2>3, SendStarts
  <2>5. Wave'
    BY <2>4, StartsWave
  <2> QED BY <1>2, <2>2, <2>4, <2>5 DEF WaveInv
<1>8. CASE Leave
  <2>1. UNCHANGED <<net, dependencies, dependents, visited, changed, firing, value, next, changedNodes,
                    prePost, post, heard>>
    BY <1>8 DEF Leave, edges, flags, cells, outcome
  <2>2. Starting'
    BY <1>4, <2>1 DEF Starting, Nodes, Sinks, OfKind
  <2>3. Wave'
    BY <2>2, StartsWave
  <2>4. preEot = <<>> /\ Trail(net, dependencies, visited, stack)
    BY DEF WaveInv
  <2>5. preEot' = <<>> /\ Trail(net, dependencies, visited, stack')
    <3>1. CASE depth = 1
      <4> DEFINE g == Eot("pre_eot", <<>>, NoCause)
      <4>1. stack' = Append(stack, g) /\ preEot' = <<>>
        BY <1>8, <2>4, <3>1 DEF Leave, BeginEot
      <4>2. g.op = "eot" /\ g.pc = "pre_eot" /\ g.list = <<>> /\ {"op", "pc", "list"} \subseteq DOMAIN g
        BY DEF Eot
      <4> HIDE DEF g
      <4>3. EotFrame(net, g) /\ g.op # "update" /\ stack \in Seq(Frames(stack))
        BY <4>2 DEF EotFrame, StackInv, Shape
      <4> QED BY <2>4, <4>1, <4>3, TrailPush
    <3>2. CASE depth # 1
      BY <1>8, <2>4, <3>2 DEF Leave
    <3> QED BY <3>1, <3>2
  <2> QED BY <1>2, <2>1, <2>3, <2>5 DEF WaveInv
<1> QED BY <1>5, <1>6, <1>7, <1>8 DEF Program

(* The nodes that exist from the beginning are wired.                      *)
LEMMA InitWaves ==
  ASSUME Init, Plain(net)
  PROVE  WaveInv
<1>1. /\ stack = <<>> /\ Len(stack) = 0 /\ preEot = <<>> /\ prePost = <<>> /\ post = <<>> /\ changedNodes = <<>>
      /\ heard = <<>> /\ net.start = Len(net.kind) /\ Len(net.kind) \in Nat
      /\ \A n \in Nodes(net) : net.kind[n] \in PlainKinds
  BY LenProperties DEF Init, Plain, NetworkOK
<1>2. /\ DOMAIN dependencies = Nodes(net) /\ DOMAIN dependents = Nodes(net) /\ DOMAIN next = Nodes(net)
      /\ \A n \in Nodes(net) : ~visited[n] /\ ~changed[n] /\ firing[n] = NoEvent
  BY DEF Init
<1>3. ASSUME NEW n \in Nodes(net)
      PROVE  dependencies[n] = net.in[n] /\ net.kind[n] # "route"
  <2>1. /\ net.kind[n] \notin {"switch", "switchC", "route"} /\ n <= net.start
    BY <1>1 DEF PlainKinds, Nodes
  <2>2. inner[n] = 0
    BY <2>1 DEF Init
  <2>3. dependencies[n] = CASE n > net.start -> <<>>
                            [] n <= net.start /\ inner[n] = 0 -> net.in[n]
                            [] OTHER -> Append(net.in[n], inner[n])
    BY DEF Init
  <2>4. ~(n > net.start)
    BY <1>1, <2>1 DEF Nodes
  <2> QED BY <2>1, <2>2, <2>3, <2>4
<1>4. ASSUME NEW m \in Nodes(net)
      PROVE  /\ IsList(dependents[m])
             /\ Entries(dependents[m]) = {n \in Nodes(net) : m \in Entries(dependencies[n])}
  <2> DEFINE reads(n) == m \in {dependencies[n][k] : k \in DOMAIN dependencies[n]} /\ net.kind[n] # "route"
             A == {n \in 1 .. net.start : reads(n) /\ net.kind[n] # "loop"}
             B == {n \in 1 .. net.start : reads(n) /\ net.kind[n] = "loop"}
  <2>1. dependents[m] = InOrder(A) \o InOrder(B)
    BY DEF Init, Registered
  <2>2. \A n \in Nodes(net) : reads(n) <=> m \in Entries(dependencies[n])
    <3> TAKE n \in Nodes(net)
    <3>1. IsList(dependencies[n]) /\ net.kind[n] # "route"
      BY <1>3, InputsOf
    <3>2. DOMAIN dependencies[n] = 1 .. Len(dependencies[n])
      BY <3>1, LenProperties DEF IsList
    <3> QED BY <3>1, <3>2 DEF Entries
  <2> HIDE DEF reads
  <2>3. A \in SUBSET (1 .. net.start) /\ B \in SUBSET (1 .. net.start) /\ net.start \in Nat
    BY <1>1
  <2>4. A \cup B = {n \in Nodes(net) : m \in Entries(dependencies[n])}
    BY <1>1, <2>2 DEF Nodes
  <2> HIDE DEF A, B
  <2>5. IsList(InOrder(A)) /\ Entries(InOrder(A)) = A /\ IsList(InOrder(B)) /\ Entries(InOrder(B)) = B
    BY <2>3, InOrderList
  <2>6. IsList(dependents[m]) /\ Entries(dependents[m]) = A \cup B
    BY <2>1, <2>5, ListConcat
  <2> QED BY <2>4, <2>6
<1>5. Wired(net, dependencies, dependents)
  BY <1>2, <1>3, <1>4 DEF Wired
<1>6. Starting
  BY <1>1, <1>2 DEF Starting
<1>7. Wave
  BY <1>6, StartingWave
<1>8. Resets(prePost) /\ Posts(net, post) /\ SinkList(net, changedNodes) /\ IsList(heard)
  BY <1>1, ListEmpty DEF Resets, Posts, SinkList
<1>9. Trail(net, dependencies, visited, stack)
  BY <1>1 DEF Trail
<1> QED BY <1>1, <1>2, <1>5, <1>7, <1>8, <1>9 DEF WaveInv

-----------------------------------------------------------------------------
(* The theorem *)

(* When no changed node is left, what was to be visited has been, and all  *)
(* of it is done.                                                          *)
LEMMA Settled ==
  ASSUME StackInv, CleanInv, Plain(net), WaveInv, TopIs("eot", "loop"), changedNodes = <<>>
  PROVE  /\ Wave
         /\ \A n \in Nodes(net) :
              /\ Done(stack, visited, n) <=> visited[n]
              /\ \A m \in Entries(dependencies[n]) : firing[m] # NoEvent => visited[n]
<1>1. /\ stack # <<>> /\ Top = stack[Len(stack)] /\ Top.op = "eot" /\ Top.pc = "loop" /\ Shape(stack)
      /\ Active(stack)
  BY TopIsFrame DEF TopIs, StackInv, Propagates
<1>2. Wave
  BY <1>1 DEF WaveInv
<1>3. \A f \in Frames(stack) : f = Top \/ ~Propagates(f)
  BY <1>1, OverEot, TopFrames
<1>4. /\ \A n : ~Unrun(stack, n) /\ ~Batched(stack, n)
      /\ \A m, n : ~Ahead(stack, m, n)
  BY <1>1, <1>3 DEF Unrun, Batched, Ahead, Propagates
<1>5. \A n : Done(stack, visited, n) <=> visited[n]
  BY <1>4 DEF Done
<1>6. ASSUME NEW n \in Nodes(net), NEW m \in Entries(dependencies[n]), firing[m] # NoEvent
      PROVE  visited[n]
  <2>1. m \in Nodes(net) /\ n \in Entries(dependents[m])
    BY Ready
  <2>2. NodeRight(m) /\ n \notin {} /\ Entries(changedNodes) = {}
    BY <1>2, <2>1, ListEmpty DEF Wave
  <2>3. changed[m] /\ Done(stack, visited, m)
    BY <1>4, <1>5, <1>6, <2>2 DEF NodeRight
  <2> QED BY <1>4, <2>1, <2>2, <2>3 DEF NodeRight
<1> QED BY <1>2, <1>5, <1>6

(* Then the events are those of the denotation.                            *)
LEMMA WaveExact ==
  ASSUME StackInv, CleanInv, Plain(net), WaveInv
  PROVE  PropagationExact
<1> DEFINE active == [n \in Nodes(net) |-> n <= built /\ (net.kind[n] = "once" => dependencies[n] # <<>>)]
           sent == [n \in Nodes(net) |-> IF n \in Sinks(net) THEN firing[n] ELSE NoEvent]
           events == Denotation(net, sent, value, active)
           F == [n \in Nodes(net) |-> IF n \in Sinks(net) THEN firing[n]
                                      ELSE IF dependencies[n] = <<>> THEN NoEvent
                                      ELSE Event(net, n, firing, value)]
<1> SUFFICES ASSUME TopIs("eot", "loop"), changedNodes = <<>>
             PROVE  /\ \A n \in Nodes(net) \ OfKind(net, Silent) : firing[n] = events[n]
                    /\ \A c \in Cells(net) : events[c] # NoEvent => next[c] = events[c]
                    /\ \A l \in Listeners(net) :
                         IF events[l] = NoEvent THEN Calls(l) = {} ELSE CalledOnce(l, events[l])
  BY DEF PropagationExact
<1>1. /\ \A n \in Nodes(net) : NodeRight(n)
      /\ \A n \in Nodes(net) :
           /\ Done(stack, visited, n) <=> visited[n]
           /\ \A m \in Entries(dependencies[n]) : firing[m] # NoEvent => visited[n]
  BY Settled DEF Wave
<1>2. ASSUME NEW n \in Nodes(net), n \notin Sinks(net), dependencies[n] # <<>>
      PROVE  dependencies[n] = net.in[n] /\ Entries(dependencies[n]) = Inputs(net, n)
  BY <1>2, InputsOf DEF WaveInv, Wired
<1>3. ASSUME NEW n \in Nodes(net), n \notin Sinks(net), ~visited[n]
      PROVE  firing[n] = NoEvent /\ F[n] = NoEvent
  <2>1. firing[n] = NoEvent
    BY <1>1, <1>3 DEF NodeRight
  <2>2. dependencies[n] # <<>> => Event(net, n, firing, value) = NoEvent
    BY <1>1, <1>2, <1>3, EventOf
  <2> QED BY <1>3, <2>1, <2>2
<1>4. ASSUME NEW n \in Nodes(net), net.kind[n] \notin Silent
      PROVE  F[n] = firing[n]
  <2>1. CASE n \notin Sinks(net) /\ visited[n]
    <3>1. Right(net, dependencies, firing, value, n)
      BY <1>1, <2>1 DEF NodeRight
    <3> QED BY <1>4, <2>1, <3>1 DEF Right
  <2> QED BY <1>3, <2>1
<1>5. ASSUME NEW n \in Nodes(net), n \notin Sinks(net)
      PROVE  Event(net, n, F, value) = Event(net, n, firing, value)
  <2>1. \A m \in Inputs(net, n) : F[m] = firing[m]
    BY <1>4, <1>5, InputsOf
  <2> HIDE DEF F
  <2> QED BY <1>5, <2>1, EventOf
<1>6. ASSUME NEW n \in Nodes(net), n \notin Sinks(net)
      PROVE  active[n] <=> dependencies[n] # <<>>
  <2>1. n <= built
    BY Ready DEF Nodes
  <2>2. dependencies[n] = <<>> => net.kind[n] = "once"
    BY <1>6, InputsOf DEF WaveInv, Wired
  <2> QED BY <2>1, <2>2
<1>7. \A n \in Nodes(net) :
        F[n] = IF n \in Sinks(net) THEN sent[n]
               ELSE IF ~active[n] THEN NoEvent ELSE Event(net, n, F, value)
  <2> SUFFICES ASSUME NEW n \in Nodes(net)
               PROVE  F[n] = IF n \in Sinks(net) THEN sent[n]
                             ELSE IF ~active[n] THEN NoEvent ELSE Event(net, n, F, value)
    OBVIOUS
  <2>1. F[n] = IF n \in Sinks(net) THEN firing[n]
               ELSE IF dependencies[n] = <<>> THEN NoEvent ELSE Event(net, n, firing, value)
    OBVIOUS
  <2>2. n \in Sinks(net) => sent[n] = firing[n]
    OBVIOUS
  <2> HIDE DEF F, sent, active
  <2> QED BY <1>5, <1>6, <2>1, <2>2
<1> HIDE DEF sent, active
<1>8. \A n \in Nodes(net) : events[n] = F[n]
  <2> HIDE DEF F
  <2> QED BY <1>7, DenotationOf
<1>9. ASSUME NEW n \in Cells(net) \cup Listeners(net)
      PROVE  /\ n \in Nodes(net) /\ n \notin Sinks(net) /\ F[n] = Input(net, firing, n)
             /\ Input(net, firing, n) # NoEvent => Done(stack, visited, n)
  <2>1. /\ n \in Nodes(net) /\ n \notin Sinks(net) /\ net.kind[n] \in Silent /\ net.kind[n] # "once"
    BY DEF Cells, Listeners, Sinks, OfKind, Silent
  <2>2. dependencies[n] = net.in[n] /\ dependencies[n] # <<>>
    BY <2>1, InputsOf DEF WaveInv, Wired
  <2>3. F[n] = firing[net.in[n][1]]
    BY <2>1, <2>2, EventOf
  <2>4. net.in[n][1] \in Entries(dependencies[n])
    BY <1>2, <2>1, <2>2, InputsOf
  <2> QED BY <1>1, <2>1, <2>3, <2>4 DEF Input
<1> HIDE DEF F, events
<1>10. \A n \in Nodes(net) \ OfKind(net, Silent) : firing[n] = events[n]
  BY <1>4, <1>8 DEF OfKind
<1>11. \A c \in Cells(net) : events[c] # NoEvent => next[c] = events[c]
  BY <1>1, <1>8, <1>9 DEF NodeRight
<1>12. ASSUME NEW l \in Listeners(net)
       PROVE  IF events[l] = NoEvent THEN Calls(l) = {} ELSE CalledOnce(l, events[l])
  <2>1. events[l] = Input(net, firing, l)
    BY <1>8, <1>9
  <2>2. IF Done(stack, visited, l) /\ Input(net, firing, l) # NoEvent
        THEN CalledOnce(l, Input(net, firing, l)) ELSE Calls(l) = {}
    BY <1>1, <1>9 DEF NodeRight
  <2> QED BY <1>9, <2>1, <2>2
<1> QED BY <1>10, <1>11, <1>12

(* No step changes the network.                                            *)
LEMMA NetStays == [Next]_vars => net' = net
BY StepOf DEF Program, Engine, Enter, Leave, Post, Build, Send, RunPreEot, TakeChanged,
       UpdateChanged, RunPrePost, RunPost, EndEot, VisitDependency, RunUpdate, BeginSwitch, EndSwitch,
       VisitDependent, EndUpdate, context

(* Every step of a plain network's engine.                                 *)
LEMMA StepWaves ==
  ASSUME StackInv, StackInv', CleanInv, Plain(net), WaveInv, [Next]_vars
  PROVE  WaveInv'
<1>1. CASE Program
  BY <1>1, ProgramWaves
<1>2. CASE RunPreEot \/ UpdateChanged \/ TakeChanged
  BY <1>2, EotWaves, CloseWaves
<1>3. CASE RunPrePost \/ RunPost \/ EndEot
  BY <1>3, PrePostWaves, PostWaves, EndWaves
<1>4. CASE VisitDependency \/ VisitDependent \/ RunUpdate \/ EndUpdate
  BY <1>4, NodeWaves, RunWaves, ReturnWaves
<1>5. ~BeginSwitch
  <2> SUFFICES ASSUME BeginSwitch PROVE FALSE
    OBVIOUS
  <2>1. TopIs("update", "dependencies") /\ Top.list = <<>> /\ net.kind[Top.node] = "outerC"
    BY DEF BeginSwitch, Switches
  <2>2. Top.node \in Nodes(net)
    BY <2>1, RunReady
  <2> QED BY <2>1, <2>2 DEF Plain, PlainKinds
<1>6. ~EndSwitch
  <2> SUFFICES ASSUME EndSwitch PROVE FALSE
    OBVIOUS
  <2>1. stack # <<>> /\ Top.op = "update" /\ Top.pc = "switching"
    BY DEF EndSwitch, TopIs
  <2>2. Len(stack) \in 1 .. Len(stack)
    BY <2>1, TopFrame DEF StackInv
  <2> QED BY <2>1, <2>2 DEF WaveInv, Trail, UpdateFrame, Top
<1>7. CASE UNCHANGED context
  <2>1. UNCHANGED <<net, dependencies, dependents, visited, changed, firing, value, next, changedNodes,
                    preEot, prePost, post, stack, heard>>
    BY <1>7 DEF context, edges, flags, cells, queues, outcome
  <2> QED BY <2>1 DEF WaveInv, Wave, NodeRight, Calls, CalledOnce, Nodes, Sinks, Cells, Listeners,
                      OfKind
<1> QED BY <1>1, <1>2, <1>3, <1>4, <1>5, <1>6, <1>7, StepOf DEF Engine

(* In every state of a plain network the calls of update_node in progress  *)
(* are a walk, and whatever update_node is done with is right and is       *)
(* passed on, for every network that is plain and every bound.             *)
THEOREM PlainWaves == Spec => [](Plain(net) => WaveInv)
<1>1. Init => (Plain(net) => WaveInv)
  BY InitWaves
<1>2. StackInv /\ StackInv' /\ CleanInv /\ (Plain(net) => WaveInv) /\ [Next]_vars =>
        (Plain(net) => WaveInv)'
  BY StepWaves, NetStays
<1> QED BY <1>1, <1>2, StackShape, FlagsOwed, PTL DEF Spec

(* update_node and end_of_transaction: however the program nests and posts *)
(* its transactions, in a network of sinks, maps, filters, merges,         *)
(* snapshots, holds, loops, onces, defers, splits and listeners that has   *)
(* no detour, every stream carries in every transaction exactly the event  *)
(* that those of the sinks mean for it, and every listener is called once  *)
(* for it or not at all.                                                   *)
THEOREM PlainIsExact == Spec => [](Plain(net) => PropagationExact)
<1>1. StackInv /\ CleanInv /\ (Plain(net) => WaveInv) => (Plain(net) => PropagationExact)
  BY WaveExact
<1> QED BY <1>1, StackShape, FlagsOwed, PlainWaves, PTL
=============================================================================
