---------------------------- MODULE TileDealing ----------------------------
(* How the grouped matmuls of the fused expert operator deal the tiles of   *)
(* all experts to the cores. Every cube core and every vector core runs     *)
(* these loops by itself; nothing is exchanged.                             *)
EXTENDS Integers, Sequences, FiniteSets, SequencesExt

CONSTANTS CoreNum,   \* cube cores
          Groups     \* experts of the rank

(* loops[g] is coreLoops, the number of tiles of expert g. The core that    *)
(* the first tile of g falls to is the one after the last tile before g.    *)
startCoreIdx_restart(loops, g) == 0

startCoreIdx(loops, g) ==
  LET start[i \in 0 .. g] ==
        IF i = 0 THEN 0 ELSE (start[i - 1] + loops[i - 1]) % CoreNum
  IN start[g]

startLoopIdx(loops, core, g) ==
  (IF core < startCoreIdx(loops, g) THEN core + CoreNum ELSE core)
    - startCoreIdx(loops, g)

(* The tiles of a core, in order: <<expert, loopIdx>>. *)
CoreTiles(loops, core) ==
  FlattenSeq([i \in 1 .. Groups |->
    LET g == i - 1
        first == startLoopIdx(loops, core, g)
    IN SelectSeq([j \in 1 .. loops[g] |-> <<g, j - 1>>],
                 LAMBDA t : t[2] >= first /\ (t[2] - first) % CoreNum = 0)])

-----------------------------------------------------------------------------
(* Every tile of every expert goes to exactly one core, once, whatever the  *)
(* number of tiles of each expert (the loops on loopIdx).                   *)
EachTileOnce(loops) ==
  \A g \in 0 .. Groups - 1 : \A i \in 0 .. loops[g] - 1 :
    Cardinality(UNION {{<<c, j>> : j \in {k \in DOMAIN CoreTiles(loops, c) :
                                             CoreTiles(loops, c)[k] = <<g, i>>}} :
                         c \in 0 .. CoreNum - 1}) = 1

(* The deal is even over all experts, not only within each: no core has two *)
(* tiles more than another (startCoreIdx carries over from expert to        *)
(* expert).                                                                 *)
DealtEvenly(loops) ==
  \A c, d \in 0 .. CoreNum - 1 :
    Len(CoreTiles(loops, c)) <= Len(CoreTiles(loops, d)) + 1
=============================================================================
