-------------------------------- MODULE Frp --------------------------------
(***************************************************************************)
(* What the library promises, one step per transaction: all the events of  *)
(* a transaction happen at once, to the streams made in it as well;        *)
(* listeners hear each of theirs once, cells hold the new values from the  *)
(* next transaction on, and a deferred event gets a transaction of its own *)
(* before the program has another.                                         *)
(***************************************************************************)
EXTENDS Network

LOCAL INSTANCE SequencesExt

CONSTANTS Networks, Payload, MaxSends

VARIABLES
  net,
  built,     \* how many nodes of the network there are
  held,      \* what the cells hold
  armed,     \* the onces that have not fired
  deferred,  \* events waiting for their transaction: sequence of [node, event]
  log        \* what the listeners heard, transaction by transaction

vars == <<net, built, held, armed, deferred, log>>

Init ==
  /\ net \in Networks
  /\ built = net.start
  /\ held = Founded(net, [n \in Cells(net) |-> Initial], 0, net.start)
  /\ armed = Onces(net)
  /\ deferred = <<>>
  /\ log = <<>>

(* The events of a transaction in which the sinks carry sent, the cells    *)
(* hold now, and the nodes up to the number upTo exist; a new spark fires  *)
(* with what its cell holds.                                               *)
Events(sent, upTo, now) ==
  Denotation(net,
    [n \in Nodes(net) |->
       CASE n > upTo -> NoEvent
         [] n <= upTo /\ net.kind[n] = "spark" -> IF n > built THEN now[net.to[n]] ELSE NoEvent
         [] OTHER -> sent[n]],
    now,
    [n \in Nodes(net) |-> n <= upTo /\ (net.kind[n] = "once" => n \in armed)])

(* The listeners of one transaction are called in any order.               *)
HeardBy(events) == {<<l, events[l]>> : l \in {m \in Listeners(net) : events[m] # NoEvent}}

(* What defer d sends, once the transaction is over.                       *)
Sends(d, events) ==
  LET posted == Posted(net, d, events[d])
  IN [i \in DOMAIN posted |-> [node |-> net.to[d], event |-> posted[i]]]

(* The new deferred events go before those still waiting; the defers of    *)
(* one transaction take their turns in any order.                          *)
Transaction(sent, upTo, waiting) ==
  LET now == Founded(net, held, built, upTo)
      events == Events(sent, upTo, now)
      busy == {d \in Defers(net) : events[d] # NoEvent}
  IN /\ held' = [c \in Cells(net) |-> IF events[c] = NoEvent THEN now[c] ELSE events[c]]
     /\ armed' = {o \in armed : events[o] = NoEvent}
     /\ log' = IF HeardBy(events) = {} THEN log ELSE Append(log, HeardBy(events))
     /\ \E order \in SetToSeqs(busy) :
          deferred' = FlattenSeq([i \in DOMAIN order |-> Sends(order[i], events)]) \o waiting
     /\ built' = upTo
     /\ UNCHANGED net

(* The program sends on some of its sinks, and makes some nodes.           *)
ProgramTransaction ==
  /\ deferred = <<>>
  /\ \E sent \in Arrivals(net, Payload, MaxSends), upTo \in {k \in Stages(net) : k >= built} :
       Transaction(sent, upTo, <<>>)

DeferredTransaction ==
  /\ deferred # <<>>
  /\ Transaction([n \in Nodes(net) |->
                    IF n = Head(deferred).node THEN Head(deferred).event ELSE NoEvent],
                 built, Tail(deferred))

Next == ProgramTransaction \/ DeferredTransaction

Spec == Init /\ [][Next]_vars
=============================================================================
