---------------------------- MODULE MCSodiumCtx ----------------------------
(***************************************************************************)
(* Networks for TLC, built the way the tests of the repository build them. *)
(***************************************************************************)
EXTENDS SodiumCtx

(* A network, made beforehand, from the list of its nodes <<kind, in, to>>  *)
(* or, for a switch, <<kind, in, to, inner>>.                              *)
Net(nodes) ==
  [kind  |-> [n \in DOMAIN nodes |-> nodes[n][1]],
   in    |-> [n \in DOMAIN nodes |-> nodes[n][2]],
   to    |-> [n \in DOMAIN nodes |-> nodes[n][3]],
   inner |-> [n \in DOMAIN nodes |-> IF Len(nodes[n]) = 4 THEN nodes[n][4] ELSE <<>>],
   start |-> Len(nodes)]

(* The same, of which the program has made only the first k nodes.         *)
Grown(whole, k) == [whole EXCEPT !.start = k]

(* Two maps of one stream joined again.                                    *)
Diamond ==
  Net(<< <<"sink", <<>>, 0>>, <<"map", <<1>>, 0>>, <<"map", <<1>>, 0>>,
         <<"merge", <<2, 3>>, 0>>, <<"listen", <<4>>, 0>> >>)

(* merge_simultaneous, coalesce, filter: two sinks joined.                 *)
TwoSinks ==
  Net(<< <<"coalescing", <<>>, 0>>, <<"sink", <<>>, 0>>, <<"filter", <<2>>, 0>>,
         <<"merge", <<1, 3>>, 0>>, <<"listen", <<4>>, 0>>, <<"listen", <<2>>, 0>> >>)

(* snapshot, hold_is_delayed: a cell and a snapshot of it by its stream.   *)
HoldSnapshot ==
  Net(<< <<"sink", <<>>, 0>>, <<"hold", <<1>>, 0>>, <<"snapshot", <<1>>, 2>>,
         <<"listen", <<3>>, 0>> >>)

(* accum: sink 1, loop 2, its cell 3, the snapshot 4 that feeds the loop.  *)
Accum ==
  Net(<< <<"sink", <<>>, 0>>, <<"loop", <<4>>, 0>>, <<"hold", <<2>>, 0>>,
         <<"snapshot", <<1>>, 3>>, <<"listen", <<2>>, 0>> >>)

(* collect: as accum, of the output 5 and the next state 6.                *)
Collect ==
  Net(<< <<"sink", <<>>, 0>>, <<"loop", <<6>>, 0>>, <<"hold", <<2>>, 0>>,
         <<"snapshot", <<1>>, 3>>, <<"map", <<4>>, 0>>, <<"map", <<4>>, 0>>,
         <<"listen", <<5>>, 0>> >>)

(* defer: the cell is made before the stream is deferred (3 is the result, *)
(* 4 the weak listener).                                                   *)
HoldThenDefer ==
  Net(<< <<"sink", <<>>, 0>>, <<"hold", <<1>>, 0>>, <<"deferred", <<>>, 0>>,
         <<"defer", <<1>>, 3>>, <<"snapshot", <<3>>, 2>>, <<"listen", <<5>>, 0>> >>)

(* ... a deferred stream deferred again, next to its source.               *)
DeferTwice ==
  Net(<< <<"sink", <<>>, 0>>, <<"deferred", <<>>, 0>>, <<"defer", <<1>>, 2>>,
         <<"deferred", <<>>, 0>>, <<"defer", <<2>>, 4>>, <<"merge", <<2, 4>>, 0>>,
         <<"merge", <<1, 6>>, 0>>, <<"listen", <<7>>, 0>> >>)

(* once, next to its input.                                                *)
Once ==
  Net(<< <<"sink", <<>>, 0>>, <<"once", <<1>>, 0>>, <<"listen", <<2>>, 0>>,
         <<"listen", <<1>>, 0>> >>)

(* ... and what it lets through deferred (3 is the result, 4 the weak      *)
(* listener), in a cell.                                                   *)
OnceThenDefer ==
  Net(<< <<"sink", <<>>, 0>>, <<"once", <<1>>, 0>>, <<"deferred", <<>>, 0>>,
         <<"defer", <<2>>, 3>>, <<"hold", <<3>>, 0>>, <<"listen", <<2>>, 0>>,
         <<"listen", <<3>>, 0>> >>)

(* split: a collection of two becomes two events.                          *)
Split ==
  Net(<< <<"sink", <<>>, 0>>, <<"deferred", <<>>, 0>>, <<"split", <<1>>, 2>>,
         <<"hold", <<2>>, 0>>, <<"snapshot", <<2>>, 4>>, <<"listen", <<5>>, 0>> >>)

(* lift_glitch: the lift of a cell with a map of itself.                   *)
LiftMaps ==
  Net(<< <<"sink", <<>>, 0>>, <<"hold", <<1>>, 0>>, <<"map", <<1>>, 0>>, <<"hold", <<3>>, 2>>,
         <<"left", <<1>>, 8>>, <<"right", <<3>>, 8>>, <<"orElse", <<5, 6>>, 0>>,
         <<"both", <<7>>, 0, <<2, 4>>>>, <<"hold", <<8>>, 0>>, <<"listen", <<8>>, 0>> >>)

(* lift2 of two independent cells, sampled.                                *)
LiftTwo ==
  Net(<< <<"sink", <<>>, 0>>, <<"sink", <<>>, 0>>, <<"hold", <<1>>, 0>>, <<"hold", <<2>>, 0>>,
         <<"left", <<1>>, 8>>, <<"right", <<2>>, 8>>, <<"orElse", <<5, 6>>, 0>>,
         <<"both", <<7>>, 0, <<3, 4>>>>, <<"hold", <<8>>, 0>>, <<"snapshot", <<1>>, 9>>,
         <<"listen", <<10>>, 0>> >>)

(* switch_s: a cell (4) of one of the streams 1 and 2, the map of it that  *)
(* the public function puts in between, and the stream it holds.           *)
SwitchS ==
  Net(<< <<"sink", <<>>, 0>>, <<"sink", <<>>, 0>>, <<"sink", <<>>, 0>>,
         <<"hold", <<3>>, 0>>, <<"map", <<3>>, 0>>, <<"hold", <<5>>, 4>>,
         <<"outer", <<5>>, 8>>, <<"switch", <<7>>, 6, <<1, 2>>>>, <<"listen", <<8>>, 0>> >>)

(* ... the streams, the cell and the choice coming from one sink, with a   *)
(* cell of the result.                                                     *)
SwitchOne ==
  Net(<< <<"sink", <<>>, 0>>, <<"map", <<1>>, 0>>, <<"hold", <<2>>, 0>>,
         <<"map", <<2>>, 0>>, <<"hold", <<4>>, 3>>,
         <<"outer", <<4>>, 7>>, <<"switch", <<6>>, 5, <<1, 2>>>>, <<"hold", <<7>>, 0>>,
         <<"snapshot", <<1>>, 8>>, <<"listen", <<7>>, 0>>, <<"listen", <<9>>, 0>> >>)

(* switch_c: a cell of one of the cells 4 and 5, and the cell it follows.  *)
SwitchC ==
  Net(<< <<"sink", <<>>, 0>>, <<"sink", <<>>, 0>>, <<"sink", <<>>, 0>>,
         <<"hold", <<1>>, 0>>, <<"hold", <<2>>, 0>>, <<"hold", <<3>>, 0>>,
         <<"map", <<3>>, 0>>, <<"hold", <<7>>, 6>>,
         <<"outerC", <<7>>, 10>>, <<"switchC", <<9>>, 8, <<4, 5>>>>, <<"hold", <<10>>, 0>>,
         <<"snapshot", <<1>>, 11>>, <<"listen", <<10>>, 0>>, <<"listen", <<12>>, 0>> >>)

(* ... the cells and the choice coming from one sink.                      *)
SwitchCOne ==
  Net(<< <<"sink", <<>>, 0>>, <<"hold", <<1>>, 0>>, <<"map", <<1>>, 0>>, <<"hold", <<3>>, 2>>,
         <<"map", <<1>>, 0>>, <<"hold", <<5>>, 0>>, <<"map", <<5>>, 0>>, <<"hold", <<7>>, 6>>,
         <<"outerC", <<7>>, 10>>, <<"switchC", <<9>>, 8, <<2, 4>>>>, <<"hold", <<10>>, 0>>,
         <<"listen", <<10>>, 0>> >>)

(* ... one of the cells being made after the switch.                       *)
SwitchCLate ==
  Net(<< <<"sink", <<>>, 0>>, <<"map", <<1>>, 0>>, <<"hold", <<2>>, 0>>,
         <<"map", <<1>>, 0>>, <<"hold", <<4>>, 0>>, <<"map", <<4>>, 0>>, <<"hold", <<6>>, 5>>,
         <<"outerC", <<6>>, 9>>, <<"switchC", <<8>>, 7, <<3, 12>>>>, <<"hold", <<9>>, 0>>,
         <<"map", <<1>>, 0>>, <<"hold", <<11>>, 0>>, <<"listen", <<9>>, 0>> >>)

TestNetworks ==
  {Diamond, TwoSinks, HoldSnapshot, Accum, HoldThenDefer, DeferTwice, Once, OnceThenDefer, Split,
   LiftMaps, LiftTwo, SwitchOne, SwitchCOne}

-----------------------------------------------------------------------------
(* listen on a cell made before: its value, then its updates.              *)
CellListen ==
  Net(<< <<"sink", <<>>, 0>>, <<"hold", <<1>>, 0>>, <<"spark", <<>>, 2>>,
         <<"map", <<3>>, 0>>, <<"orElse", <<1, 4>>, 0>>, <<"listen", <<5>>, 0>> >>)

(* router: one route for the 1s and one for every event, joined again, and *)
(* the latter next to its source.                                          *)
Routes ==
  Net(<< <<"sink", <<>>, 0>>, <<"router", <<1>>, 0>>, <<"route", <<2>>, 1>>,
         <<"route", <<2>>, 2>>, <<"merge", <<3, 4>>, 0>>, <<"merge", <<1, 4>>, 0>>,
         <<"listen", <<5>>, 0>>, <<"listen", <<6>>, 0>> >>)

GrownNetworks ==
  {Grown(SwitchS, 4), Grown(SwitchOne, 1), Grown(SwitchCOne, 1),
   Grown(CellListen, 2), Routes, Grown(Routes, 1),
   Grown(Diamond, 1), Grown(HoldSnapshot, 1), Grown(Once, 1), Grown(HoldThenDefer, 1),
   Grown(Accum, 1), Grown(Collect, 1), Grown(LiftMaps, 2), Grown(LiftTwo, 4)}

SwitchNetworks == {SwitchS, SwitchOne, SwitchC, SwitchCOne, SwitchCLate}

GrowingNetworks == GrownNetworks \cup SwitchNetworks

AllNetworks == TestNetworks \cup GrownNetworks \cup SwitchNetworks

-----------------------------------------------------------------------------
(* Every network of n streams made of sinks, maps and merges, node by node *)
(* in the order of creation.                                               *)
NodeChoices(i) ==
  {<<"sink", <<>>, 0>>}
    \cup {<<"map", <<j>>, 0>> : j \in 1 .. i - 1}
    \cup {<<"merge", <<j, k>>, 0>> : j \in 1 .. i - 1, k \in 1 .. i - 1}

Shapes(n) ==
  LET lists[i \in Nat] ==
        IF i = 0 THEN {<<>>}
        ELSE {Append(l, c) : l \in lists[i - 1],
                             c \in {x \in NodeChoices(i) :
                                      x[1] = "merge" => x[2][1] # x[2][2]}}
  IN {Net(l) : l \in lists[n]}

SmallShapes == {s \in UNION {Shapes(n) : n \in 1 .. 5} : ~HasDetour(s)}

(* The smaller of them again, the program making some or all of the nodes. *)
GrownShapes ==
  UNION {{Grown(s, k) : k \in 0 .. Len(s.kind) - 1} :
           s \in {x \in Shapes(4) : ~HasDetour(x)}}

AllShapes == SmallShapes \cup GrownShapes

-----------------------------------------------------------------------------
(* Networks the findings are about *)

(* Sink 1 and a map of it exist; their merge is made, and filtered, in a   *)
(* transaction in which the sink is sent to.                               *)
GrownFilter ==
  Grown(Net(<< <<"sink", <<>>, 0>>, <<"map", <<1>>, 0>>, <<"merge", <<1, 2>>, 0>>,
               <<"filter", <<3>>, 0>>, <<"listen", <<4>>, 0>> >>), 2)
GrownFilterOnly == {GrownFilter}

(* s.merge(&s)                                                             *)
SelfMergeOnly ==
  {Grown(Net(<< <<"sink", <<>>, 0>>, <<"merge", <<1, 1>>, 0>> >>), 1)}

(* Sinks 1 and 2; 3 merges them; 4 merges 3 with 2 again.                  *)
Detour ==
  Net(<< <<"sink", <<>>, 0>>, <<"sink", <<>>, 0>>, <<"merge", <<1, 2>>, 0>>,
         <<"merge", <<3, 2>>, 0>>, <<"listen", <<4>>, 0>> >>)
DetourOnly == {Detour}

(* once of a stream and its deferral: what the sink sends goes through the *)
(* once, and comes back deferred before the once is disconnected.          *)
OnceOfDeferred ==
  Net(<< <<"sink", <<>>, 0>>, <<"deferred", <<>>, 0>>, <<"defer", <<1>>, 2>>,
         <<"orElse", <<1, 2>>, 0>>, <<"once", <<4>>, 0>>, <<"listen", <<5>>, 0>> >>)

OnceOfDeferredOnly == {OnceOfDeferred}

(* As HoldThenDefer, but the stream is deferred first.                     *)
DeferThenHold ==
  Net(<< <<"sink", <<>>, 0>>, <<"deferred", <<>>, 0>>, <<"defer", <<1>>, 2>>,
         <<"hold", <<1>>, 0>>, <<"snapshot", <<2>>, 4>>, <<"listen", <<5>>, 0>> >>)
DeferThenHoldOnly == {DeferThenHold}
=============================================================================
