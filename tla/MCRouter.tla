------------------------------ MODULE MCRouter ------------------------------
EXTENDS Router, TLC

(* Keys, and the streams made for them, can be swapped.                    *)
Symmetry == Permutations(Route) \cup Permutations(Key)
=============================================================================
