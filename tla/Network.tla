------------------------------ MODULE Network ------------------------------
(***************************************************************************)
(* Networks of streams and cells, and what one transaction on them means.  *)
(*                                                                         *)
(* A network is a record.  Its nodes are 1 .. Len(net.kind), in the order  *)
(* of their creation; the first net.start of them exist from the beginning *)
(* and the program makes the others in its transactions.  net.in[n] is the *)
(* sequence of nodes n depends on (the vec! given to Node::new).           *)
(* net.to[n] is what else n has to do with: the cell a snapshot, a spark   *)
(* or a switch samples; the cell whose map a hold holds; the result        *)
(* ("deferred") of the defer or split whose listener n is; the switch an   *)
(* outer node rewires; the node a left or right keeps a value for; the key *)
(* of a route; and 0 for the others.  net.inner[n] are the two streams or  *)
(* cells a switch chooses from, or the two cells that are lifted to n      *)
(* ("both").                                                               *)
(*                                                                         *)
(* Some combinators are several nodes, as in the code: accum is a loop, a  *)
(* hold and a snapshot; value is a spark, its map and an or_else; a map of *)
(* a cell is a map and a hold; lift2 is two maps, an or_else, one more map *)
(* and a hold; split_filter, split_enum and Router are a router and its    *)
(* routes; switch_s is a map of a cell, an outer node and the switch, its  *)
(* inner node; switch_c is the like, and a hold.                           *)
(*                                                                         *)
(* Event values are sequences: the functions the program passes to map,    *)
(* merge, snapshot and to a coalescer are taken to be as discerning as     *)
(* possible, so that two different inputs never give the same output.      *)
(***************************************************************************)
EXTENDS Naturals, Sequences, FiniteSets

NoEvent == <<>>     \* firing_op is None: no event value is empty

Sent(n, p) == << <<"send", n, p>> >>      \* what the program sends
Initial == << <<"init", 0, 0>> >>         \* what a cell is made with

Nodes(net) == 1 .. Len(net.kind)
OfKind(net, kinds) == {n \in Nodes(net) : net.kind[n] \in kinds}

Sinks(net) == OfKind(net, {"sink", "coalescing", "deferred", "spark"})
ProgramSinks(net) == OfKind(net, {"sink", "coalescing"})
Cells(net) == OfKind(net, {"hold"})
Onces(net) == OfKind(net, {"once"})
Defers(net) == OfKind(net, {"defer", "split"})
Listeners(net) == OfKind(net, {"listen"})

(* The kinds of nodes that carry no stream: nothing else reads them, but a *)
(* route its router and a switch its outer node.                           *)
Silent == {"hold", "listen", "defer", "split", "router", "outer", "outerC"}

(* The nodes a .. b, in the order of creation.                             *)
Span(a, b) == [i \in 1 .. b + 1 - a |-> a + i - 1]

(* The members of a set of nodes in that order.                            *)
InOrder(S) == CHOOSE s \in [1 .. Cardinality(S) -> S] :
                \A i, j \in DOMAIN s : i < j => s[i] < s[j]

(* The last node of the combinator whose first node is n.                  *)
LastOf(net, n) ==
  CASE net.kind[n] \in {"deferred", "outer"} -> n + 1
    [] net.kind[n] \in {"spark", "outerC"} -> n + 2
    [] net.kind[n] = "left" -> n + 4
    [] net.kind[n] = "loop" -> net.in[n][1]
    [] OTHER -> n

(* How many nodes there may be between two constructions.                  *)
Stages(net) ==
  LET after[k \in Nat] ==
        IF k = 0 THEN {net.start}
        ELSE after[k - 1] \cup {LastOf(net, m + 1) : m \in after[k - 1] \ {Len(net.kind)}}
  IN after[Len(net.kind)]

-----------------------------------------------------------------------------
(* The combinators, as functions of the events of their inputs.  events is *)
(* what the streams carry, held what the cells hold, and active says which *)
(* nodes take part: not those still to be made, and not a once that fired. *)

Map(n, a) == Append(a, <<"map", n, 0>>)

(* merge: the combining function where both fire, else the one that does.  *)
Merge(a, b) ==
  IF a # NoEvent /\ b # NoEvent THEN a \o <<<<"merge", 0, 0>>>> \o b ELSE a \o b

OrElse(a, b) == IF a # NoEvent THEN a ELSE b

Snapshot(a, c) == a \o <<<<"at", 0, 0>>>> \o c

Pair(a, b) == a \o <<<<"pair", 0, 0>>>> \o b

(* What an event says: the payload it started with.                        *)
Key(a) == a[1][3]

(* The predicate of a filter keeps what started as a 1 and was not merged. *)
Passes(a) == Key(a) = 1 /\ \A i \in DOMAIN a : a[i][1] # "merge"

(* The selector of a router: an event goes to its own key, and to key 2.   *)
Selected(a) == {Key(a), 2}

(* What the listener of a defer or a split sends later: the event, or its  *)
(* two parts one after the other.                                          *)
Part(a, i) == Append(a, <<"part", i, 0>>)

Posted(net, n, a) ==
  CASE a = NoEvent -> <<>>
    [] a # NoEvent /\ net.kind[n] = "split" -> <<Part(a, 1), Part(a, 2)>>
    [] OTHER -> <<a>>

(* The value of the outer cell chooses what a switch follows.              *)
Chosen(net, n, v) == net.inner[n][IF Key(v) = 1 THEN 2 ELSE 1]

(* The stream it follows: that one, or the updates of the chosen cell.     *)
Followed(net, n, v) ==
  LET c == Chosen(net, n, v)
  IN IF net.kind[n] = "switchC" THEN net.in[c][1] ELSE c

Event(net, n, events, held) ==
  LET a == events[net.in[n][1]] IN
    CASE net.kind[n] = "merge"    -> Merge(a, events[net.in[n][2]])
      [] net.kind[n] = "orElse"   -> OrElse(a, events[net.in[n][2]])
      [] net.kind[n] = "map"      -> IF a = NoEvent THEN NoEvent ELSE Map(n, a)
      [] net.kind[n] = "filter"   -> IF a # NoEvent /\ Passes(a) THEN a ELSE NoEvent
      [] net.kind[n] = "snapshot" -> IF a = NoEvent THEN NoEvent
                                     ELSE Snapshot(a, held[net.to[n]])
      [] net.kind[n] = "route"    -> IF a # NoEvent /\ net.to[n] \in Selected(a) THEN a
                                     ELSE NoEvent
      [] net.kind[n] = "both"     ->
           LET latest(c) == IF events[net.in[c][1]] = NoEvent THEN held[c]
                            ELSE events[net.in[c][1]]
           IN IF a = NoEvent THEN NoEvent
              ELSE Pair(latest(net.inner[n][1]), latest(net.inner[n][2]))
      [] net.kind[n] = "switch"   -> events[Chosen(net, n, held[net.to[n]])]
      [] net.kind[n] = "switchC"  ->
           LET v == IF a = NoEvent THEN held[net.to[n]] ELSE a
               e == events[Followed(net, n, v)]
           IN IF a # NoEvent /\ e = NoEvent THEN held[Chosen(net, n, v)] ELSE e
      [] net.kind[n] \in {"left", "right", "once", "loop", "hold", "listen", "defer", "split", "router", "outer",
                          "outerC"} -> a

(* What a new cell holds: maps and lifts of cells start with the functions *)
(* of what those hold, the others as they are given.                       *)
FirstValue(net, n, now) ==
  LET m == net.in[n][1] IN
    CASE net.to[n] # 0 -> Map(m, now[net.to[n]])
      [] net.kind[m] = "both" -> Pair(now[net.inner[m][1]], now[net.inner[m][2]])
      [] net.kind[m] = "switchC" -> now[Chosen(net, m, now[net.to[m]])]
      [] OTHER -> now[n]

(* What the cells hold once the nodes after the first a, up to b, are      *)
(* made.                                                                   *)
Founded(net, held, a, b) ==
  LET upTo[n \in a .. b] ==
        IF n = a THEN held
        ELSE IF net.kind[n] # "hold" THEN upTo[n - 1]
        ELSE [upTo[n - 1] EXCEPT ![n] = FirstValue(net, n, upTo[n - 1])]
  IN upTo[b]

-----------------------------------------------------------------------------
(* The events of a whole transaction, given those of the sinks.  Streams   *)
(* do not depend on each other in a circle (a loop goes through a cell or  *)
(* a defer), so as many rounds as there are nodes settle every one.        *)
Denotation(net, sent, held, active) ==
  LET round[k \in 0 .. Len(net.kind)] ==
        [n \in Nodes(net) |->
           IF n \in Sinks(net) THEN sent[n]
           ELSE IF k = 0 \/ ~active[n] THEN NoEvent
           ELSE Event(net, n, round[k - 1], held)]
  IN round[Len(net.kind)]

(* The events the program may put on its sinks in one transaction: of      *)
(* several sends the last one counts, and a coalescer combines them all.   *)
Coalesce(a, b) == a \o <<<<"coalesce", 0, 0>>>> \o b

Arrivals(net, payload, most) ==
  LET once(n) == {Sent(n, p) : p \in payload}
      combined(n) ==
        LET upTo[k \in Nat] ==
              IF k = 1 THEN once(n)
              ELSE upTo[k - 1] \cup {Coalesce(a, b) : a \in upTo[k - 1], b \in once(n)}
        IN upTo[most]
      possible(n) == {NoEvent} \cup (IF net.kind[n] = "sink" THEN once(n) ELSE combined(n))
      all == [ProgramSinks(net) -> UNION {possible(n) : n \in ProgramSinks(net)}]
  IN {[n \in Nodes(net) |-> IF n \in ProgramSinks(net) THEN sent[n] ELSE NoEvent] :
        sent \in {f \in all : \A n \in ProgramSinks(net) : f[n] \in possible(n)}}

-----------------------------------------------------------------------------
(* Shapes of networks *)

Inputs(net, n) == {net.in[n][k] : k \in DOMAIN net.in[n]}
Readers(net, S) == {m \in Nodes(net) : Inputs(net, m) \cap S # {}}

(* The ways update_node can take through the network, from a node that got *)
(* into changed_nodes: each node of a walk is an input or a reader of the  *)
(* one before it, and none is met twice.                                   *)
Walks(net) ==
  LET beside(m) == Inputs(net, m) \cup Readers(net, {m})
      within[k \in 0 .. Len(net.kind)] ==
        IF k = 0 THEN {<<n>> : n \in Sinks(net) \cup OfKind(net, {"route"})}
        ELSE within[k - 1] \cup
               UNION {{Append(w, m) : m \in beside(w[Len(w)]) \ {w[i] : i \in DOMAIN w}} :
                        w \in within[k - 1]}
  IN within[Len(net.kind)]

(* A detour: update_node went up from node w[k] to an input of it, and, on *)
(* its way from there, comes to a node that reads w[k].                    *)
HasDetour(net) ==
  \E w \in Walks(net) : \E k \in 1 .. Len(w) - 1 :
    w[k + 1] \in Inputs(net, w[k]) /\ w[k] \in Inputs(net, w[Len(w)])

NetworkOK(net) ==
  /\ net.kind \in Seq({"sink", "coalescing", "deferred", "spark", "map", "filter", "merge",
                       "orElse", "left", "right", "both", "snapshot", "hold", "loop", "once",
                       "listen", "defer", "split", "router", "route", "outer", "switch",
                       "outerC", "switchC"})
  /\ net.in \in Seq(Seq(Nodes(net))) /\ Len(net.in) = Len(net.kind) /\ Len(net.to) = Len(net.kind)
  /\ Len(net.inner) = Len(net.kind) /\ net.start \in 0 .. Len(net.kind)
  /\ \A n \in 1 .. net.start : LastOf(net, n) \in 1 .. net.start
  /\ \A n \in net.start + 1 .. Len(net.kind) : LastOf(net, n) \in n .. Len(net.kind)
  /\ \A n \in Nodes(net) : \A m \in n .. LastOf(net, n) : LastOf(net, m) <= LastOf(net, n)
  /\ \A n \in Nodes(net) :
       /\ Len(net.in[n]) = (IF n \in Sinks(net) THEN 0
                            ELSE IF net.kind[n] \in {"merge", "orElse"} THEN 2 ELSE 1)
       /\ Inputs(net, n) \subseteq (IF net.kind[n] = "loop" THEN Nodes(net) ELSE 1 .. n - 1)
       /\ net.kind[n] \notin {"route", "switch", "switchC"} =>
            \A m \in Inputs(net, n) : net.kind[m] \notin Silent
       /\ net.kind[n] \in {"snapshot", "spark", "switch", "switchC"} => net.to[n] \in Cells(net)
       /\ net.kind[n] \in {"snapshot", "spark"} => net.to[n] < n
       /\ net.kind[n] = "hold" /\ net.to[n] # 0 =>
            /\ net.to[n] \in Cells(net) /\ net.to[n] < n
            /\ net.kind[net.in[n][1]] = "map"
            /\ net.in[net.in[n][1]] = <<net.in[net.to[n]][1]>>
       /\ net.kind[n] = "left" =>
            /\ SubSeq(net.kind, n + 1, n + 4) = <<"right", "orElse", "both", "hold">>
            /\ net.to[n] = n + 3 /\ net.to[n + 1] = n + 3 /\ net.in[n + 2] = <<n, n + 1>>
            /\ \A k \in 1 .. 2 : /\ net.inner[n + 3][k] \in Cells(net)
                                 /\ net.in[n + k - 1] = net.in[net.inner[n + 3][k]]
            /\ net.in[n + 3] = <<n + 2>> /\ net.in[n + 4] = <<n + 3>> /\ net.to[n + 4] = 0
       /\ n \in Defers(net) => net.to[n] = n - 1 /\ net.kind[n - 1] = "deferred"
       /\ net.kind[n] = "deferred" => n + 1 \in Defers(net)
       /\ net.kind[n] = "outer" => net.to[n] = n + 1 /\ net.kind[n + 1] = "switch"
       /\ net.kind[n] = "switch" =>
            /\ net.in[n] = <<n - 1>> /\ net.kind[n - 1] = "outer"
            /\ Len(net.inner[n]) = 2 /\ \A k \in 1 .. 2 : net.inner[n][k] \in Nodes(net)
       /\ net.kind[n] = "outerC" =>
            SubSeq(net.kind, n, n + 2) = <<"outerC", "switchC", "hold">> /\ net.to[n] = n + 1
       /\ net.kind[n] = "switchC" =>
            /\ net.in[n] = <<n - 1>> /\ net.kind[n - 1] = "outerC" /\ net.in[n + 1] = <<n>>
            /\ \A k \in 1 .. 2 : net.inner[n][k] \in Cells(net)
       /\ net.kind[n] \in {"switch", "switchC"} =>
            /\ net.in[n - 1] = net.in[net.to[n]] /\ net.to[net.to[n]] # 0
            /\ \A k \in 1 .. 2 : net.inner[n][k] < n \/ (k = 2 /\ net.inner[n][k] <= net.start)
       /\ net.kind[n] = "route" => net.kind[net.in[n][1]] = "router"
       /\ net.kind[n] \in {"merge", "orElse"} /\ n <= net.start => net.in[n][1] # net.in[n][2]
       /\ net.kind[n] = "spark" =>
            /\ n > net.start
            /\ net.kind[n + 1] = "map" /\ net.in[n + 1] = <<n>>
            /\ net.kind[n + 2] = "orElse" /\ net.in[n + 2] = <<net.in[net.to[n]][1], n + 1>>
=============================================================================
