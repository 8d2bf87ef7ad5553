------------------------ MODULE MCMoeDispatchCombine ------------------------
(* Instances of MoeDispatchCombine. The routings are small tables that send *)
(* two tokens to one expert, spread them, and leave entries masked (-1).    *)
EXTENDS MoeDispatchCombine

(* Table given row by row. *)
Table(entries) == [t \in 0 .. Len(entries) - 1 |-> entries[t + 1]]

(* Two ranks with one expert each and a mask, three launches; two ranks     *)
(* that hold the shared expert and one that holds the only other expert.    *)
WithAndWithoutShared ==
  {[ranks |-> 2, shared |-> 0, bs |-> 3, active |-> 2, k |-> 2,
    routings |-> {Table(<<0, 1, 1, 0>>), Table(<<0, -1, 1, 0>>)},
    repeat |-> 2, launches |-> 3],
   [ranks |-> 3, shared |-> 2, bs |-> 3, active |-> 3, k |-> 1,
    routings |-> {Table(<<0, -1, 0>>)},
    repeat |-> 3, launches |-> 1]}

(* A mask together with two ranks that hold the shared expert.              *)
SharedAndMasked ==
  {[ranks |-> 3, shared |-> 2, bs |-> 3, active |-> 2, k |-> 1,
    routings |-> {Table(<<0, 0>>)}, repeat |-> 3, launches |-> 1]}
=============================================================================
