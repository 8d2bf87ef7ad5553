------------------------ MODULE MCKVCacheRecvingThread ------------------------
(* TLC instances of KVCacheRecvingThread. *)
EXTENDS KVCacheRecvingThreadContract, TLC

CONSTANTS r1, r2, p1, p2

\* Two requests that are pulled from the same two ports, in opposite orders.
MCRemotePorts == (r1 :> <<p1, p2>>) @@ (r2 :> <<p2, p1>>)

\* Context parallel: two shards of one pull each; the second shard of r2 is
\* empty (its blocks were all found in the prefix cache).
MCShardBlocks == (r1 :> <<{1}, {2}>>) @@ (r2 :> <<{3}, {}>>)

\* Unequal TP sizes: one shard, pulled from two ports.
MCPulledBlocks == (r1 :> <<{1, 2}>>) @@ (r2 :> <<{3}>>)

\* The executor's threads are interchangeable.
WorkerSymmetry == Permutations(Workers)
=============================================================================
