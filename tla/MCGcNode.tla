------------------------------ MODULE MCGcNode ------------------------------
(* Small heaps for TLC: nodes and handles are model values, the roles      *)
(* (Listener, DepHandle, KeepHandle) are chosen by the configuration.      *)
EXTENDS GcNode, TLC

(* Plain nodes are interchangeable, and so are plain handles.              *)
HeapSymmetry ==
  Permutations(Node \ Listener)
    \cup Permutations(Handle \ (DepHandle \cup KeepHandle))
=============================================================================
