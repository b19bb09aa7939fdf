-------------------------------- MODULE Router --------------------------------
(***************************************************************************)
(* The weak table of impl_/router.rs on the heap of GcNode.                *)
(*                                                                         *)
(* A Router keeps a table from keys to weak streams.  filter_matches gives *)
(* out the stream of a key, and makes it when there is none or it is dead; *)
(* the update of the router sends an event to the streams of its keys and  *)
(* strikes out the dead ones; a stream that the collector frees strikes    *)
(* itself out (its cleanup).  All three take the lock of the table, and    *)
(* filter_matches holds it while it makes a stream: outside of a           *)
(* transaction that is a transaction of its own, whose end collects.       *)
(*                                                                         *)
(* Every step is one of GcNode, with what it does to the table: the heap   *)
(* of this module is a heap of that one (RouterProofs).  A handle a step   *)
(* makes is Fresh, since nothing tells unused handles apart.               *)
(*                                                                         *)
(* Definitions marked "Mutant" are wrong on purpose: put in the place of   *)
(* the definition after them, they break a property.                       *)
(***************************************************************************)
EXTENDS GcNode

CONSTANTS
  Key,      \* what the selector may give
  Route,    \* identities of the streams filter_matches makes
  Graph,    \* identities of what else the program builds
  router,   \* the node of the Router
  QueueHandle, \* the handles kept for the queues of the context
  MaxKeys   \* bound: how many keys the selector gives for one event

ASSUME RouterAssumption ==
  /\ router \in Node \ Listener
  /\ Route \subseteq Node \ (Listener \cup {router})
  /\ Graph \subseteq Node \ (Listener \cup {router} \cup Route)
  /\ QueueHandle \subseteq Handle \ (DepHandle \cup KeepHandle)
  /\ QueueHandle # {}
  /\ Handle \ (DepHandle \cup KeepHandle \cup QueueHandle) # {}
  /\ None \notin Key
  /\ MaxKeys \in Nat

VARIABLES
  table,    \* the entry of a key: a route, dead or alive, or None
  keyOf,    \* the key the cleanup of a route strikes out; None without one
  at,       \* where the library is: "out", in filter_matches, or at an end
  wanted,   \* the key filter_matches was called with
  made,     \* the route it makes
  open,     \* the program has a transaction open
  queued,   \* the handles in the queues of the context
  keys,     \* the keys of the event of this transaction, to be gone through
  waiting   \* a cleanup waits for the lock of the table its own thread holds

request == <<at, wanted, made>>
routing == <<table, keyOf, request, open, queued, keys, waiting>>
routerVars == <<vars, routing>>

(* Where filter_matches holds the lock of the table.                       *)
Filtering == {"first", "end", "collect", "insert"}
Locked == at \in Filtering

RouterTypeOK ==
  /\ table \in [Key -> Route \cup {None}]
  /\ keyOf \in [Route -> Key \cup {None}]
  /\ at \in Filtering \cup {"out", "closing", "routing", "clearing"}
  /\ wanted \in Key \cup {None} /\ made \in Route \cup {None}
  /\ open \in BOOLEAN /\ waiting \in BOOLEAN
  /\ queued \subseteq Handle
  /\ keys \in Seq(Key) /\ Len(keys) <= MaxKeys
  /\ Locked <=> made # None
  /\ keys # <<>> => at = "routing"

RouterInit ==
  /\ Init
  /\ table = [k \in Key |-> None]
  /\ keyOf = [n \in Route |-> None]
  /\ at = "out" /\ wanted = None /\ made = None
  /\ open = FALSE /\ queued = {} /\ keys = <<>> /\ waiting = FALSE

-----------------------------------------------------------------------------
(* An unused handle of S, or one in use if there is none.                  *)
Spare(S) == CHOOSE h \in S : Unused(h) \/ \A g \in S : ~Unused(g)

Fresh == Spare(Handle \ (DepHandle \cup KeepHandle \cup QueueHandle))
FreshQueue == Spare(QueueHandle)

(* upgrade of a weak stream succeeds while there is a handle to it.        *)
Alive(n) == n # None /\ HandlesOf(n) # {}

(* The program runs its own code.                                          *)
Turn == at = "out" /\ Running /\ ~waiting

(* The program has the router at hand.                                     *)
HasRouter(g) == owner[g] = Program /\ target[g] = router

-----------------------------------------------------------------------------
(* The program *)

(* Router::new makes a node and runs no transaction.                       *)
NewRouter ==
  /\ Turn /\ New(router, Fresh)
  /\ UNCHANGED routing

(* What else the program builds: graphs that hold routes and themselves.   *)
NewGraph(c) ==
  /\ Turn /\ c \in Graph /\ New(c, Fresh)
  /\ UNCHANGED routing

Attach(g, c) ==
  /\ Turn /\ c \in Graph /\ target[g] \in Route \cup Graph /\ g \notin queued
  /\ \A h \in OwnedBy(c) : target[h] # target[g]
  /\ Clone(g, Fresh, c)
  /\ UNCHANGED routing

LetGo(h) ==
  /\ Turn /\ owner[h] = Program /\ h \notin queued /\ Drop(h)
  /\ UNCHANGED routing

OpenTransaction ==
  /\ Turn /\ ~open
  /\ open' = TRUE
  /\ UNCHANGED <<vars, table, keyOf, request, queued, keys, waiting>>

-----------------------------------------------------------------------------
(* filter_matches *)

(* The stream of the key is alive: one more handle to it.                  *)
FilterHit(k, g) ==
  /\ Turn /\ HasRouter(g)
  /\ Alive(table[k]) /\ Upgrade(table[k], Fresh)
  /\ UNCHANGED routing

(* Mutant: a new stream whether there is one or not.                       *)
FilterMissAgain(k, g, n) ==
  /\ Turn /\ HasRouter(g)
  /\ n \in Route /\ New(n, Fresh)
  /\ at' = "first" /\ wanted' = k /\ made' = n
  /\ UNCHANGED <<table, keyOf, open, queued, keys, waiting>>

(* There is none, or a dead one: Stream::new ...                           *)
FilterMiss(k, g, n) ==
  /\ Turn /\ HasRouter(g)
  /\ ~Alive(table[k])
  /\ n \in Route /\ New(n, Fresh)
  /\ at' = "first" /\ wanted' = k /\ made' = n
  /\ UNCHANGED <<table, keyOf, open, queued, keys, waiting>>

(* ... which leaves a closure in pre_eot that holds the new stream.        *)
FilterFirst(h) ==
  /\ at = "first" /\ ~waiting
  /\ owner[h] = Program /\ target[h] = made /\ Clone(h, FreshQueue, Program)
  /\ queued' = queued \cup {FreshQueue}
  /\ at' = IF open THEN "insert" ELSE "end"
  /\ UNCHANGED <<table, keyOf, wanted, made, open, keys, waiting>>

(* Outside of a transaction its own one ends: the closure runs and goes,   *)
(* and the collector is called.                                            *)
FilterEnd(q) ==
  /\ at = "end" /\ ~waiting
  /\ q \in queued /\ Drop(q)
  /\ queued' = queued \ {q}
  /\ at' = "collect"
  /\ UNCHANGED <<table, keyOf, wanted, made, open, keys, waiting>>

FilterCollect ==
  /\ at = "collect" /\ ~waiting
  /\ Collect
  /\ at' = "insert"
  /\ UNCHANGED <<table, keyOf, wanted, made, open, queued, keys, waiting>>

(* Mutant: the new stream does not depend on the router.                   *)
FilterInsertLoose(g) ==
  /\ at = "insert" /\ Running /\ ~waiting
  /\ HasRouter(g)
  /\ table' = [table EXCEPT ![wanted] = made]
  /\ keyOf' = [keyOf EXCEPT ![made] = wanted]
  /\ at' = "out" /\ wanted' = None /\ made' = None
  /\ UNCHANGED <<vars, open, queued, keys, waiting>>

(* The new stream depends on the router, enters the table, and gets its    *)
(* cleanup.  The dependency is the stream's alone: the router does not     *)
(* list it as a dependent, and does not take it away when it is freed.     *)
FilterInsert(g) ==
  /\ at = "insert" /\ ~waiting
  /\ HasRouter(g) /\ Clone(g, Fresh, made)
  /\ table' = [table EXCEPT ![wanted] = made]
  /\ keyOf' = [keyOf EXCEPT ![made] = wanted]
  /\ at' = "out" /\ wanted' = None /\ made' = None
  /\ UNCHANGED <<open, queued, keys, waiting>>

-----------------------------------------------------------------------------
(* The end of the program's transaction *)

CloseTransaction ==
  /\ Turn /\ open
  /\ open' = FALSE /\ at' = "closing"
  /\ UNCHANGED <<vars, table, keyOf, wanted, made, queued, keys, waiting>>

(* The closures of pre_eot go after they ran, and what changed_nodes and   *)
(* pre_post held goes before the collector is called.                      *)
Unqueue(q) ==
  /\ at \in {"closing", "clearing"} /\ ~waiting
  /\ q \in queued /\ Drop(q)
  /\ queued' = queued \ {q}
  /\ UNCHANGED <<table, keyOf, request, open, keys, waiting>>

(* Mutant: the selector is called for a router that is gone.               *)
BeginRoutingEarly(ks) ==
  /\ at = "closing" /\ Running /\ ~waiting /\ queued = {}
  /\ at' = IF Alive(router) THEN "routing" ELSE "clearing"
  /\ keys' = ks
  /\ UNCHANGED <<vars, table, keyOf, wanted, made, open, queued, waiting>>

(* The selector is called with the event there may be.  A router that      *)
(* nothing holds is not updated: its input has it as a weak dependent.     *)
BeginRouting(ks) ==
  /\ at = "closing" /\ Running /\ ~waiting /\ queued = {}
  /\ IF Alive(router)
     THEN at' = "routing" /\ keys' = ks
     ELSE at' = "clearing" /\ UNCHANGED keys
  /\ UNCHANGED <<vars, table, keyOf, wanted, made, open, queued, waiting>>

(* The update of the router, for one key: the stream of the key fires and  *)
(* is queued as changed ...                                                *)
RouteHit ==
  /\ at = "routing" /\ ~waiting /\ keys # <<>>
  /\ Alive(table[Head(keys)]) /\ Upgrade(table[Head(keys)], FreshQueue)
  /\ queued' = queued \cup {FreshQueue}
  /\ keys' = Tail(keys)
  /\ UNCHANGED <<table, keyOf, request, open, waiting>>

(* ... or is dead and is struck out.                                       *)
RouteMiss ==
  /\ at = "routing" /\ Running /\ ~waiting /\ keys # <<>>
  /\ ~Alive(table[Head(keys)])
  /\ table' = [table EXCEPT ![Head(keys)] = None]
  /\ keys' = Tail(keys)
  /\ UNCHANGED <<vars, keyOf, request, open, queued, waiting>>

EndRouting ==
  /\ at = "routing" /\ Running /\ ~waiting /\ keys = <<>>
  /\ at' = "clearing"
  /\ UNCHANGED <<vars, table, keyOf, wanted, made, open, queued, keys, waiting>>

EndTransaction ==
  /\ at = "clearing" /\ ~waiting /\ queued = {}
  /\ Collect
  /\ at' = "out"
  /\ UNCHANGED <<table, keyOf, wanted, made, open, queued, keys, waiting>>

-----------------------------------------------------------------------------
(* The collector *)

(* The cleanup of a route that is freed while its data is alive.  If       *)
(* filter_matches holds the lock, the thread waits for itself (RwLock may  *)
(* panic instead; either way filter_matches gives no stream).              *)
CleanUp(n) ==
  IF ~freed[n] /\ n \in Route /\ Alive(n) /\ keyOf[n] # None
  THEN IF Locked
       THEN waiting' = TRUE /\ UNCHANGED table
       ELSE /\ table' = [table EXCEPT ![keyOf[n]] = IF @ = n THEN None ELSE @]
            /\ UNCHANGED waiting
  ELSE UNCHANGED <<table, waiting>>

RouterFree ==
  /\ ~waiting
  /\ Free /\ CleanUp(white[pos])
  /\ UNCHANGED <<keyOf, request, open, queued, keys>>

HeapGoesOn ==
  /\ ~waiting
  /\ \/ MarkRoot \/ MarkDone \/ ScanRoot \/ ScanDone
     \/ CollectRoot \/ CollectDone \/ CollectLeave
     \/ \E h \in Handle : CollectVisit(h)
     \/ Retain \/ FreeDone \/ Again
     \/ DropStep
  /\ UNCHANGED routing

-----------------------------------------------------------------------------
RouterProgram ==
  \/ NewRouter
  \/ \E c \in Graph : NewGraph(c)
  \/ \E g \in Handle, c \in Graph : Attach(g, c)
  \/ \E h \in Handle : LetGo(h)
  \/ OpenTransaction \/ CloseTransaction
  \/ \E k \in Key, g \in Handle : FilterHit(k, g) \/ \E n \in Route : FilterMiss(k, g, n)

RouterLibrary ==
  \/ \E h \in Handle : FilterFirst(h) \/ FilterEnd(h) \/ FilterInsert(h) \/ Unqueue(h)
  \/ FilterCollect
  \/ \E ks \in UNION {[1 .. m -> Key] : m \in 0 .. MaxKeys} : BeginRouting(ks)
  \/ RouteHit \/ RouteMiss \/ EndRouting \/ EndTransaction
  \/ RouterFree \/ HeapGoesOn

RouterNext == RouterProgram \/ RouterLibrary

RouterSpec == RouterInit /\ [][RouterNext]_routerVars

-----------------------------------------------------------------------------
(* Properties *)

(* A stream that can still be sent to is in the table under its key, so    *)
(* that events find it, and no key has two.                                *)
LiveRouteListed ==
  \A n \in Route : keyOf[n] # None /\ Alive(n) /\ ~freed[n] => table[keyOf[n]] = n

(* An event for a key reaches the stream of the key that the program holds *)
(* or that a graph it holds depends on, be its router held or not.         *)
EventsReachRoutes ==
  [][\A n \in Live \cap Route :
       /\ at = "routing" /\ keys' # keys /\ keyOf[n] = Head(keys)
            => \E q \in queued' : target'[q] = n
       /\ at = "closing" /\ at' = "clearing" => keyOf[n] = None]_routerVars

(* filter_matches returns: no cleanup waits for the lock that it holds.    *)
NoSelfWait == ~waiting
=============================================================================
