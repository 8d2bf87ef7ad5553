-------------------------------- MODULE MCEplb ------------------------------
(* Three ranks with two slots for four experts, two of which have a copy.   *)
EXTENDS Eplb

Table(rows) == [r \in Ranks |-> [k \in Slots |-> rows[r + 1][k + 1]]]

Start == Table(<<<<0, 1>>, <<2, 3>>, <<0, 2>>>>)
Swapped == Table(<<<<2, 3>>, <<0, 1>>, <<0, 2>>>>)    \* two experts each way
Copied == Table(<<<<0, 3>>, <<2, 3>>, <<0, 1>>>>)     \* one moves, one is copied
Turned == Table(<<<<1, 0>>, <<2, 3>>, <<0, 2>>>>)     \* a move inside a rank
Lost == Table(<<<<0, 1>>, <<0, 1>>, <<0, 2>>>>)       \* an expert is nowhere

MCInitialPlacement == [l \in Layers |-> Start]
MCProposals ==
  {[l \in Layers |-> IF l = 0 THEN p[1] ELSE p[2]] :
     p \in {<<Swapped, Copied>>, <<Turned, Lost>>}}

(* The number of tokens is the same on all ranks, or the stage is "all".    *)
MCHeatStatuses == {[r \in Ranks |-> s] : s \in BOOLEAN}
=============================================================================
