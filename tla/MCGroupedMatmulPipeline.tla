---------------------- MODULE MCGroupedMatmulPipeline ----------------------
(* Instances of GroupedMatmulPipeline. *)
EXTENDS GroupedMatmulPipeline

(* The second matmul with A kept in L1, with a k that does not fill L1, and *)
(* the first matmul with its longer ring.                                   *)
BothMatmuls ==
  {[soft |-> FALSE, k |-> 2, parts |-> 2, stages |-> 2, min |-> 0, max |-> 3],
   [soft |-> FALSE, k |-> 3, parts |-> 2, stages |-> 2, min |-> 0, max |-> 2],
   [soft |-> TRUE, k |-> 2, parts |-> 1, stages |-> 4, min |-> 0, max |-> 4]}

(* One core with one tile more than a byte counts. *)
ManyTiles ==
  {[soft |-> TRUE, k |-> 1, parts |-> 1, stages |-> 4, min |-> 256, max |-> 256]}
=============================================================================
