------------------------------ MODULE LazyCells ------------------------------
(***************************************************************************)
(* The first values of cells, which the library computes as late as it     *)
(* can: impl_/lazy.rs, impl_/cell_loop.rs, and the Lazy in Cell::map,      *)
(* Cell::lift2 .. lift6, hold_lazy and accum_lazy.                         *)
(*                                                                         *)
(* A cell holds a Lazy.  That of a mapped, lifted or looped cell starts as *)
(* a thunk which samples other cells, or runs other lazies, when it is     *)
(* first run; a transaction that changes the cell replaces it by a value.  *)
(* Lazies are shared (Arc), and a value never changes, so a Lazy is either *)
(* a value or the first Lazy of a cell.                                    *)
(*                                                                         *)
(* What a cell ought to hold is Means: the functions of map and lift of    *)
(* what their inputs hold, and what the sent events made of the others.    *)
(*                                                                         *)
(* A transaction is one step here (SodiumCtx has its inside), cells are    *)
(* made between transactions, and one thread runs.  A panic, and a wait    *)
(* for a lock of its own, is the end of the program.                       *)
(*                                                                         *)
(* Definitions marked "Mutant" are wrong on purpose: put in the place of   *)
(* the definition after them, they break a property.                       *)
(***************************************************************************)
EXTENDS Network

CONSTANTS
  Payload,    \* what the program sends
  MaxCells,   \* bound: cells made
  MaxSources, \* bound: cells the program sends to
  MaxLoops,   \* bound: cells looped
  MaxLift,    \* bound: cells lifted at once, as in lift2 .. lift6
  MaxSends,   \* bound: transactions
  InTime      \* the program runs the lazies it took before their cells change

ASSUME LazyAssumption ==
  /\ MaxCells \in Nat /\ MaxSources \in Nat /\ MaxLoops \in Nat
  /\ MaxSends \in Nat /\ MaxLift \in 2 .. 6
  /\ InTime \in BOOLEAN

Cell == 1 .. MaxCells

VARIABLES
  kind,       \* "none" for a cell not made yet
  inputs,     \* the cells it was made from; the second of a step is sampled
  target,     \* the cell a loop was looped to, or 0
  value,      \* the Lazy of CellData
  first,      \* the value of the first Lazy of a cell, NoEvent until it ran
  initOp,     \* init_value_op of a loop: a Lazy or None
  base,       \* the lazies the first Lazy of a lift runs
  state,      \* the lazies the updates of a lift run
  taken,      \* a Lazy the program took from a cell, or None
  meant,      \* what the events made of sources and steps
  asOf,       \* the cell whose Lazy a step started with, while it counts
  sends,
  ended       \* "no", "panics" or "waits"

graph == <<kind, inputs, target>>
memory == <<first, initOp>>
history == <<meant, asOf>>
lazyVars == <<graph, value, memory, base, state, taken, history, sends, ended>>

Made == {c \in Cell : kind[c] # "none"}
Sources == {c \in Cell : kind[c] = "source"}
Loops == {c \in Cell : kind[c] = "loop"}

-----------------------------------------------------------------------------
(* Lazies *)

None == [of |-> 0, value |-> NoEvent]
OfValue(v) == [of |-> 0, value |-> v]
FirstOf(c) == [of |-> c, value |-> NoEvent]

Unrun(lazy) == lazy.of # 0 /\ first[lazy.of] = NoEvent

Memory == [first |-> first, initOp |-> initOp]

(* A call that returns a value, panics, or waits for a lock it holds; m is *)
(* the memory it leaves.                                                   *)
Returns(m, v) == [memory |-> m, how |-> "returns", value |-> v]
Panics(m) == [memory |-> m, how |-> "panics", value |-> NoEvent]
Waits(m) == [memory |-> m, how |-> "waits", value |-> NoEvent]

(* Mutant: the Lazy keeps its thunk and runs it every time.                *)
StoredNever(call, c) == call

(* What the thunk of the first Lazy of c returned takes its place.         *)
Stored(call, c) ==
  IF call.how = "returns" THEN [call EXCEPT !.memory.first[c] = call.value] ELSE call

RECURSIVE Run(_, _, _), Sample(_, _, _)

(* The thunk of the first Lazy of c.                                       *)
Thunk(m, held, c) ==
  CASE kind[c] = "map" ->
         LET a == Sample(m, held, inputs[c][1])
         IN IF a.how = "returns" THEN [a EXCEPT !.value = Map(c, @)] ELSE a
    [] kind[c] = "lift" /\ <<"f", c>> \in held -> Waits(m)
    [] kind[c] = "lift" /\ <<"f", c>> \notin held ->
         LET a == Run(m, held, base[c][1])
             b == Run(a.memory, held, base[c][2])
         IN CASE a.how # "returns" -> a
              [] a.how = "returns" /\ b.how # "returns" -> b
              [] OTHER -> [b EXCEPT !.value = Pair(a.value, @)]
    [] kind[c] = "loop" /\ m.initOp[c] = None -> Panics(m)
    [] kind[c] = "loop" /\ m.initOp[c] # None ->
         Run([m EXCEPT !.initOp[c] = None], held, m.initOp[c])

(* Lazy::run holds the lock of the Lazy while the thunk runs.              *)
Run(m, held, lazy) ==
  LET c == lazy.of IN
    CASE c = 0 -> Returns(m, lazy.value)
      [] c # 0 /\ <<"lazy", c>> \in held -> Waits(m)
      [] c # 0 /\ <<"lazy", c>> \notin held ->
           IF m.first[c] # NoEvent THEN Returns(m, m.first[c])
           ELSE Stored(Thunk(m, held \cup {<<"lazy", c>>}, c), c)

(* Cell::sample holds the lock of the cell while its Lazy runs.            *)
Sample(m, held, c) ==
  IF <<"cell", c>> \in held THEN Waits(m) ELSE Run(m, held \cup {<<"cell", c>>}, value[c])

-----------------------------------------------------------------------------
(* What cells mean *)

(* ... with k steps to find out: NoEvent if there is none, since a loop is *)
(* not looped, or in a circle.                                             *)
RECURSIVE MeansIn(_, _)
MeansIn(c, k) ==
  LET of(d) == MeansIn(d, k - 1)
      a == of(inputs[c][1])
      b == of(inputs[c][2])
  IN CASE k = 0 -> NoEvent
       [] k # 0 /\ kind[c] = "map" -> IF a = NoEvent THEN NoEvent ELSE Map(c, a)
       [] k # 0 /\ kind[c] = "lift" ->
            IF a = NoEvent \/ b = NoEvent THEN NoEvent ELSE Pair(a, b)
       [] k # 0 /\ kind[c] = "loop" -> IF target[c] = 0 THEN NoEvent ELSE of(target[c])
       [] k # 0 /\ kind[c] = "step" /\ asOf[c] # 0 -> of(asOf[c])
       [] OTHER -> meant[c]

Means(c) == MeansIn(c, MaxCells + 1)

(* The cells the value of a cell comes from ...                            *)
Needs ==
  [c \in Cell |->
     CASE kind[c] \in {"map", "lift"} -> {inputs[c][k] : k \in DOMAIN inputs[c]}
       [] kind[c] = "loop" -> {target[c]} \ {0}
       [] kind[c] = "step" -> {asOf[c]} \ {0}
       [] OTHER -> {}]

(* ... and those its updates come from.                                    *)
Follows ==
  [c \in Cell |-> IF kind[c] = "step" THEN {inputs[c][1]} ELSE Needs[c]]

RECURSIVE From(_, _, _)
From(next, S, k) ==
  IF k = 0 THEN S ELSE From(next, S \cup UNION {next[c] : c \in S}, k - 1)

InCircle(next, c) == c \in From(next, next[c], MaxCells)

(* The cells a transaction changes that sends to S.                        *)
Changed(S) == {c \in Made : From(Follows, {c}, MaxCells) \cap S # {}}

-----------------------------------------------------------------------------
LazyTypeOK ==
  /\ kind \in [Cell -> {"none", "source", "map", "lift", "loop", "step"}]
  /\ \E n \in 0 .. MaxCells : Made = 1 .. n
  /\ \A c \in Made : /\ \A k \in DOMAIN inputs[c] : inputs[c][k] \in Made
                     /\ value[c].of \in Made \cup {0} /\ value[c] # None
                     /\ initOp[c] # None => target[c] # 0
                     /\ first[c] # NoEvent => kind[c] \in {"map", "lift", "loop"}
                     /\ asOf[c] \in Made \cup {0}
  /\ target \in [Cell -> {0} \cup Made]
  /\ sends \in 0 .. MaxSends
  /\ ended \in {"no", "panics", "waits"}

LazyInit ==
  /\ kind = [c \in Cell |-> "none"]
  /\ inputs = [c \in Cell |-> <<>>]
  /\ target = [c \in Cell |-> 0]
  /\ value = [c \in Cell |-> None]
  /\ first = [c \in Cell |-> NoEvent]
  /\ initOp = [c \in Cell |-> None]
  /\ base = [c \in Cell |-> <<None, None>>]
  /\ state = [c \in Cell |-> <<None, None>>]
  /\ taken = [lazy |-> None, of |-> 0, worth |-> NoEvent]
  /\ meant = [c \in Cell |-> NoEvent]
  /\ asOf = [c \in Cell |-> 0]
  /\ sends = 0 /\ ended = "no"

-----------------------------------------------------------------------------
(* The program *)

New == Cardinality(Made) + 1
Running == ended = "no"

(* A new cell of kind k made from the cells of in, which starts with lazy. *)
Make(k, in, lazy) ==
  /\ Running
  /\ kind' = [kind EXCEPT ![New] = k]
  /\ inputs' = [inputs EXCEPT ![New] = in]
  /\ value' = [value EXCEPT ![New] = lazy]
  /\ UNCHANGED <<target, memory, taken, sends, ended>>

(* Sources and loops wait for nothing: they are made first.                *)
First(kinds) == \A c \in Made : kind[c] \in kinds

(* Cell::new, or the cell of a CellSink.                                   *)
MakeSource ==
  /\ First({"source"}) /\ Cardinality(Made) < MaxSources
  /\ Make("source", <<>>, OfValue(Initial))
  /\ meant' = [meant EXCEPT ![New] = Initial]
  /\ UNCHANGED <<base, state, asOf>>

(* Mutant: a map that starts with the Lazy of its input.                   *)
MakeMapShared(c) ==
  /\ Make("map", <<c>>, value[c])
  /\ UNCHANGED <<base, state, history>>

(* Cell::map.                                                              *)
MakeMap(c) ==
  /\ Make("map", <<c>>, FirstOf(New))
  /\ UNCHANGED <<base, state, history>>

(* Two or more cells, in the order they were made in; the same cell may    *)
(* be there twice.                                                         *)
Lifted ==
  {cs \in UNION {[1 .. n -> Cell] : n \in 2 .. MaxLift} :
     \A i \in 2 .. Len(cs) : cs[i - 1] <= cs[i]}

(* lift2 .. lift6: the lift of two cells, that of it and the third, ...    *)
MakeLifts(cs) ==
  LET n == Len(cs) - 1
      lift == New .. New + n - 1
      side(c) == IF c = New THEN <<cs[1], cs[2]>> ELSE <<c - 1, cs[c - New + 2]>>
      lazies(c) == IF c = New THEN <<value[cs[1]], value[cs[2]]>>
                   ELSE <<FirstOf(c - 1), value[cs[c - New + 2]]>>
      put(f, v(_)) == [c \in Cell |-> IF c \in lift THEN v(c) ELSE f[c]]
  IN /\ Running /\ lift \subseteq Cell
     /\ \A i \in DOMAIN cs : cs[i] \in Made
     /\ kind' = [c \in Cell |-> IF c \in lift THEN "lift" ELSE kind[c]]
     /\ inputs' = put(inputs, side)
     /\ value' = put(value, FirstOf)
     /\ base' = put(base, lazies) /\ state' = put(state, lazies)
     /\ UNCHANGED <<target, memory, taken, history, sends, ended>>

(* CellLoop::new; its first Lazy waits for init_value_op.                  *)
MakeLoop ==
  /\ First({"source", "loop"}) /\ Cardinality(Loops) < MaxLoops
  /\ Make("loop", <<>>, FirstOf(New))
  /\ UNCHANGED <<base, state, history>>

(* Mutant: the streams are looped, the first Lazy is not.                  *)
LoopForgets(c, d) ==
  /\ Running /\ kind[c] = "loop" /\ target[c] = 0
  /\ target' = [target EXCEPT ![c] = d]
  /\ UNCHANGED <<kind, inputs, value, memory, base, state, taken, history, sends, ended>>

(* Mutant: the first Lazy is looped, the streams are not.                  *)
LoopHalf(c, d) ==
  /\ Running /\ kind[c] = "loop" /\ target[c] = 0
  /\ initOp' = [initOp EXCEPT ![c] = value[d]]
  /\ UNCHANGED <<graph, value, first, base, state, taken, history, sends, ended>>

(* loop_, which is called once.                                            *)
Loop(c, d) ==
  /\ Running /\ kind[c] = "loop" /\ target[c] = 0
  /\ target' = [target EXCEPT ![c] = d]
  /\ initOp' = [initOp EXCEPT ![c] = value[d]]
  /\ UNCHANGED <<kind, inputs, value, first, base, state, taken, history, sends, ended>>

(* hold_lazy of a snapshot: the updates of c, each with what d holds; that *)
(* of accum_lazy and of collect_lazy when d is the new cell itself.        *)
MakeStep(c, d, lazy) ==
  /\ Make("step", <<c, d>>, lazy)
  /\ meant' = [meant EXCEPT ![New] = Initial]
  /\ UNCHANGED <<base, state, asOf>>

(* ... starting with the Lazy the program took.                            *)
MakeStepLate(c, d) ==
  /\ taken.lazy # None
  /\ Make("step", <<c, d>>, taken.lazy)
  /\ meant' = [meant EXCEPT ![New] = taken.worth]
  /\ asOf' = [asOf EXCEPT ![New] = taken.of]
  /\ UNCHANGED <<base, state>>

(* sample_lazy; what has run is a mere value.                              *)
TakeLazy(c) ==
  /\ Running /\ Unrun(value[c])
  /\ taken' = [lazy |-> value[c], of |-> c, worth |-> NoEvent]
  /\ UNCHANGED <<graph, value, memory, base, state, history, sends, ended>>

(* What a call leaves behind, and whether the program goes on.             *)
After(call) ==
  /\ first' = call.memory.first /\ initOp' = call.memory.initOp
  /\ ended' = IF call.how = "returns" THEN "no" ELSE call.how

RunTaken ==
  /\ Running /\ taken.lazy # None
  /\ After(Run(Memory, {}, taken.lazy))
  /\ UNCHANGED <<graph, value, base, state, taken, history, sends>>

SampleCell(c) ==
  /\ Running
  /\ After(Sample(Memory, {}, c))
  /\ UNCHANGED <<graph, value, base, state, taken, history, sends>>

-----------------------------------------------------------------------------
(* A transaction *)

(* The new value of a cell that changes when payload p is sent.  A lift    *)
(* runs the Lazy of a side that does not, holding the lock of its function.*)
RECURSIVE Update(_, _, _)
Update(m, c, p) ==
  LET side(n, i) ==
        IF inputs[c][i] \in Changed(DOMAIN p) THEN Update(n, inputs[c][i], p)
        ELSE Run(n, {<<"f", c>>}, state[c][i])
      with(a, b, f(_, _)) ==
        CASE a.how # "returns" -> a
          [] a.how = "returns" /\ b.how # "returns" -> b
          [] OTHER -> [b EXCEPT !.value = f(a.value, @)]
  IN CASE kind[c] = "source" -> Returns(m, Sent(c, p[c]))
       [] kind[c] = "map" ->
            LET a == Update(m, inputs[c][1], p)
            IN IF a.how = "returns" THEN [a EXCEPT !.value = Map(c, @)] ELSE a
       [] kind[c] = "lift" ->
            LET a == side(m, 1) IN with(a, side(a.memory, 2), Pair)
       [] kind[c] = "loop" -> Update(m, target[c], p)
       [] kind[c] = "step" ->
            LET a == Update(m, inputs[c][1], p)
            IN with(a, Sample(a.memory, {}, inputs[c][2]), Snapshot)

(* The calls of all the updates one after the other.                       *)
RECURSIVE Updates(_, _, _)
Updates(m, cs, p) ==
  IF cs = {} THEN Returns(m, NoEvent)
  ELSE LET c == CHOOSE d \in cs : TRUE
           a == Update(m, c, p)
       IN IF a.how = "returns" THEN Updates(a.memory, cs \ {c}, p) ELSE a

(* What a changed cell means after the transaction.                        *)
RECURSIVE WillMean(_, _)
WillMean(c, p) ==
  CASE c \notin Changed(DOMAIN p) -> Means(c)
    [] c \in Changed(DOMAIN p) /\ kind[c] = "source" -> Sent(c, p[c])
    [] c \in Changed(DOMAIN p) /\ kind[c] = "map" -> Map(c, WillMean(inputs[c][1], p))
    [] c \in Changed(DOMAIN p) /\ kind[c] = "lift" ->
         Pair(WillMean(inputs[c][1], p), WillMean(inputs[c][2], p))
    [] c \in Changed(DOMAIN p) /\ kind[c] = "loop" -> WillMean(target[c], p)
    [] c \in Changed(DOMAIN p) /\ kind[c] = "step" ->
         Snapshot(WillMean(inputs[c][1], p), Means(inputs[c][2]))

(* None of the lazies the program took is late: not yet run, and of a cell *)
(* that changes now.                                                       *)
NoneLate(changed) ==
  /\ taken.of \in changed => ~Unrun(taken.lazy)
  /\ \A c \in Made : asOf[c] \in changed => ~Unrun(value[c])

(* The promise is kept up to date: what a Lazy was taken for, and what the *)
(* cells of state mean.                                                    *)
Promise(p) ==
  LET changed == Changed(DOMAIN p)
      settled(d) == d \in changed /\ Means(d) # NoEvent
      kept(c) == kind[c] \in {"source", "step"}
  IN /\ meant' = [c \in Cell |-> IF c \in changed /\ kept(c) THEN WillMean(c, p)
                                 ELSE IF settled(asOf[c]) THEN Means(asOf[c]) ELSE meant[c]]
     /\ asOf' = [c \in Cell |-> IF c \in changed \/ settled(asOf[c]) THEN 0 ELSE asOf[c]]
     /\ taken' = IF settled(taken.of)
                 THEN [taken EXCEPT !.of = 0, !.worth = Means(taken.of)] ELSE taken

(* Mutant: both updates of a lift write to the left.                       *)
KeepLeft(c, new) ==
  <<IF inputs[c][1] \in DOMAIN new THEN new[inputs[c][1]] ELSE state[c][1], state[c][2]>>

(* The updates of a lift put the new values where its lazies were.         *)
Keep(c, new) ==
  [i \in 1 .. 2 |-> IF inputs[c][i] \in DOMAIN new THEN new[inputs[c][i]] ELSE state[c][i]]

(* A transaction that sends p[c] to each of some sources: the updates, on  *)
(* what the cells hold before, then the commits.  Streams in a circle with *)
(* no delay are left out.                                                  *)
Send(p) ==
  LET changed == Changed(DOMAIN p)
      call == Updates(Memory, changed, p)
      new == [c \in changed |-> OfValue(Update(Memory, c, p).value)]
  IN /\ Running /\ sends < MaxSends
     /\ \A c \in changed : ~InCircle(Follows, c)
     /\ InTime => NoneLate(changed)
     /\ After(call)
     /\ sends' = sends + 1
     /\ IF call.how = "returns"
        THEN /\ value' = [c \in Cell |-> IF c \in changed THEN new[c] ELSE value[c]]
             /\ state' = [c \in Cell |-> IF kind[c] = "lift" THEN Keep(c, new)
                                        ELSE state[c]]
             /\ Promise(p)
        ELSE UNCHANGED <<value, state, taken, history>>
     /\ UNCHANGED <<graph, base>>

-----------------------------------------------------------------------------
Making ==
  \/ MakeSource \/ MakeLoop
  \/ \E cs \in Lifted : MakeLifts(cs)
  \/ \E c \in Made :
       \/ MakeMap(c)
       \/ \E d \in Made \cup {New} : MakeStep(c, d, OfValue(Initial)) \/ MakeStepLate(c, d)

LazyNext ==
  \/ New \in Cell /\ Making
  \/ RunTaken
  \/ \E c \in Made :
       \/ TakeLazy(c) \/ SampleCell(c)
       \/ \E d \in Made : Loop(c, d)
  \/ \E S \in SUBSET Sources \ {{}} : \E p \in [S -> Payload] : Send(p)

LazySpec == LazyInit /\ [][LazyNext]_lazyVars

-----------------------------------------------------------------------------
(* Properties *)

(* sample: whenever it is called, and whatever was run before, a cell      *)
(* gives what its inputs and the events make it, a looped cell what the    *)
(* cell it is looped to gives; it gives nothing only if that is undefined. *)
SampleExact ==
  Running => \A c \in Made : Sample(Memory, {}, c).value = Means(c)

(* ... the call then panics because of a loop that is not looped, or waits *)
(* because of a circle: no lock is in the way of a value there is.         *)
SampleFailsWell ==
  Running => \A c \in Made :
    LET call == Sample(Memory, {}, c)
    IN /\ call.how = "panics" => \E d \in From(Needs, {c}, MaxCells) :
                                   kind[d] = "loop" /\ target[d] = 0
       /\ call.how = "waits" => \E d \in From(Needs, {c}, MaxCells) : InCircle(Needs, d)

(* lift2: the two lazies its updates would run are those of the cells.     *)
LiftStateCurrent ==
  Running => \A c \in Made : kind[c] = "lift" =>
    \A i \in 1 .. 2 : Run(Memory, {}, state[c][i]).value = Means(inputs[c][i])

(* sample_lazy: a Lazy gives what its cell held when it was taken.         *)
TakenExact ==
  Running /\ taken.lazy # None =>
    Run(Memory, {}, taken.lazy).value =
      IF taken.of = 0 THEN taken.worth ELSE Means(taken.of)
=============================================================================
