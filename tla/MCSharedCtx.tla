----------------------------- MODULE MCSharedCtx -----------------------------
EXTENDS SharedCtx, TLC

(* Threads can be swapped, and sinks.                                      *)
Symmetry == Permutations(Thread) \cup Permutations(Sink)
=============================================================================
