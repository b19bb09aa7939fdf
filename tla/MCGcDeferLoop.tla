--------------------------- MODULE MCGcDeferLoop ---------------------------
(***************************************************************************)
(* The heap of                                                             *)
(*   let loop_ = ctx.new_stream_loop();                                    *)
(*   let d = Operational::defer(&loop_.stream());                          *)
(*   loop_.loop_(&d);                                                      *)
(* once that code has run and the transactions it used are over: the       *)
(* stream sl of the loop depends on the deferred stream df, whose          *)
(* keep_alive list holds the weak listener wk of the node rd, which reads  *)
(* sl.  Each dependency counts twice: once for the dependencies list and   *)
(* once for the update closure.                                            *)
(***************************************************************************)
EXTENDS GcNode, TLC

CONSTANTS sl, df, rd, wk,          \* nodes; wk is the Listener
          pSl, pD,                 \* the locals of the program
          slD, slDep, rdSl, rdDep,   \* closure and dependencies of sl and of rd
          wN, keepW                \* the listener's node; df's keep_alive entry

LoopOwner ==
  (pSl :> Program) @@ (pD :> Program) @@ (slD :> sl) @@ (slDep :> sl)
    @@ (rdSl :> rd) @@ (rdDep :> rd) @@ (wN :> wk) @@ (keepW :> df)

LoopTarget ==
  (pSl :> sl) @@ (pD :> df) @@ (slD :> df) @@ (slDep :> df)
    @@ (rdSl :> sl) @@ (rdDep :> sl) @@ (wN :> rd) @@ (keepW :> wk)

LoopInit ==
  /\ created = Node
  /\ owner = LoopOwner
  /\ target = LoopTarget
  /\ dropping = {}
  /\ refCount = [m \in Node |-> Cardinality({h \in Handle : LoopTarget[h] = m})]
  /\ refCountAdj = [m \in Node |-> 0]
  /\ color = [m \in Node |-> "black"]
  /\ buffered = [m \in Node |-> FALSE]
  /\ freed = [m \in Node |-> FALSE]
  /\ roots = <<>> /\ toBeFreed = <<>>
  /\ phase = "idle" /\ local = <<>> /\ pos = 1
  /\ stack = <<>> /\ white = <<>> /\ freeing = None
  /\ panicked = FALSE

(* The rest of the program: its locals go out of scope, and it collects.   *)
LoopNext ==
  \/ \E h \in {pSl, pD} : Drop(h)
  \/ Collect \/ CollectorStep \/ DropStep

LoopSpec == LoopInit /\ [][LoopNext]_vars
=============================================================================
