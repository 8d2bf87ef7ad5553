---------------------------- MODULE MCArithmetic ----------------------------
(* The pure parts of the system on every small size. A state is one problem *)
(* to solve: its kind and its sizes.                                        *)
EXTENDS Integers, Sequences, FiniteSetsExt

VARIABLE size

Rows == INSTANCE AllreduceRows WITH
          RankSize <- size.ranks, UsedCores <- size.cores,
          M <- size.rows, RowsPerSplit <- size.split

Tiles == INSTANCE TileDealing WITH
           CoreNum <- size.cores, Groups <- size.groups

Sharing == INSTANCE MoeSharing WITH
             SharedExpertRankNum <- size.shared,
             BS <- size.bs, ActiveBS <- size.bs

Ranks == INSTANCE RemoteRanks WITH
           prefill_tp_size <- size.ptp, decode_tp_size <- size.dtp,
           prefill_pp_size <- size.pp, num_kv_head <- size.heads,
           Sample <- size.sample

Ports == INSTANCE KVPorts WITH
           P <- size.p, D <- size.d, num_kv_head <- size.heads,
           r_blk <- size.r

Split == INSTANCE KVSplit WITH
           RemoteCp <- size.rcp, LocalCp <- size.lcp, Bp <- size.bp,
           Bd <- size.bd, Prompt <- size.prompt, Computed <- size.computed

Copying == INSTANCE ContiguousGroups WITH
             remote <- size.remote, local <- size.local,
             remote_stride <- size.rstride, block_stride <- size.lstride,
             tp_num_need_pulls <- size.pulls, inner_offset <- size.offset,
             inner_block_len <- size.len

Tp == {1, 2, 3, 4, 6, 8}
Side == [tp : {1, 2, 4, 8}, pcp : {1, 2}, dcp : {1, 2}]
Ids == UNION {[1 .. n -> 0 .. 3] : n \in 1 .. 3}

Init ==
  \/ /\ size \in [kind : {"rows"}, ranks : 1 .. 5, cores : 1 .. 7,
                   rows : 1 .. 9, split : {1, 2, 3, 6}]
     /\ size.cores >= size.ranks
  \/ \E g \in 1 .. 3 :
       size \in [kind : {"tiles"}, cores : 1 .. 4, groups : {g},
                loops : [0 .. g - 1 -> 0 .. 4]]
  \/ size \in [kind : {"sharing"}, shared : 1 .. 6, bs : 1 .. 9, rank : 0 .. 9]
  \/ \E p \in Tp, d \in Tp, h \in Tp :
       /\ d <= p /\ p <= 4 * h    \* at most four copies of a head
       /\ size \in [kind : {"ranks"}, ptp : {p}, dtp : {d}, pp : {1, 2},
                    heads : {h},
                    sample : [1 .. Max({d \div h, 1}) -> 0 .. Max({p \div h, 1}) - 1]]
       /\ Ranks!Supported
  \/ /\ size \in [kind : {"ports"}, p : Side, d : Side, heads : {1, 2, 4},
                   r : {1, 2}]
     /\ Ports!Supported
  \/ /\ size \in [kind : {"split"}, rcp : {1, 2, 4, 6}, lcp : 1 .. 3,
                   bp : {1, 2, 4}, bd : {1, 2, 4}, prompt : 1 .. 13,
                   computed : 0 .. 8]
     /\ Split!Supported
  \/ /\ size \in [kind : {"copying"}, remote : Ids, local : Ids,
                   rstride : {2, 3}, lstride : {2, 3, 4}, pulls : {1, 2},
                   offset : {0, 1}, len : {2}]
     /\ Len(size.remote) = Len(size.local)
     /\ size.offset < size.pulls
     /\ size.lstride >= size.pulls * size.len
     /\ \A i, j \in DOMAIN size.local :
          i # j => size.local[i] # size.local[j] /\ size.remote[i] # size.remote[j]

Next == UNCHANGED size

Spec == Init /\ [][Next]_size

-----------------------------------------------------------------------------
(* Every row is reduced by one core of one rank, and is gathered once, from *)
(* the rank that reduced it (AllreduceRows, Process and ParallelAllGather   *)
(* of the vector kernel).                                                   *)
RowsShared == size.kind = "rows" => Rows!RowsShared

(* Every tile of every expert is computed once, by one core, and the cores' *)
(* shares over all experts differ by one tile at most (TileDealing).        *)
TilesDealt ==
  size.kind = "tiles" =>
    Tiles!EachTileOnce(size.loops) /\ Tiles!DealtEvenly(size.loops)

(* The tokens for the shared expert fill exactly the places announced       *)
(* (MoeSharing, SendToSharedExpert).                                        *)
SharedPlacesFilled ==
  size.kind = "sharing" => Sharing!SharedPlacesFilled(size.rank)

(* A decode rank pulls exactly its heads, in order (RemoteRanks,            *)
(* _get_remote_ranks_for_req).                                              *)
HeadsComplete == size.kind = "ranks" => Ranks!HeadsComplete

(* A prefill rank waits for a reader exactly when it will be read           *)
(* (RemoteRanks, _prefill_get_remote_rank).                                 *)
SendersAreRead == size.kind = "ranks" => Ranks!SendersAreRead

(* Under context parallelism the ports pulled from have the heads and the   *)
(* share of the blocks that they are pulled for, and the pulls are spread   *)
(* over the copies of a share (KVPorts, select_cp_groups_id).               *)
PortsServeReaders ==
  size.kind = "ports" => Ports!PortsHoldTheirShares /\ Ports!DonesSpread

(* Under context parallelism every missing part of the prompt is copied to  *)
(* its place and nothing elsewhere (KVSplit, _get_kv_split_metadata).       *)
KernelsInPlace == size.kind = "split" => Split!KernelsInPlace

(* Copying in groups moves the same bytes as copying block by block         *)
(* (ContiguousGroups, group_concurrent_contiguous).                         *)
CopiesExact == size.kind = "copying" => Copying!CopiesExact
=============================================================================
