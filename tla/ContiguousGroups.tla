-------------------------- MODULE ContiguousGroups --------------------------
(* How the blocks of a pull become copies of memory: runs of blocks that    *)
(* follow each other on both sides are copied as one. When several pulls    *)
(* fill a block, each writes its part of it.                                *)
EXTENDS Integers, Sequences, FiniteSets

CONSTANTS remote, local,                   \* block ids, pairwise
          remote_stride, block_stride,     \* bytes from block to block
          tp_num_need_pulls, inner_offset, \* the parts of a block, this part
          inner_block_len                  \* bytes of a part

(* The positions a new group begins at (brk). *)
group_starts_remote_only(rs, ls, len) ==
  {i \in DOMAIN remote : i = 1 \/ (remote[i] - remote[i - 1]) * rs # len}

group_starts(rs, ls, len) ==
  {i \in DOMAIN remote :
     i = 1 \/ ~ /\ (remote[i] - remote[i - 1]) * rs = len
                /\ (local[i] - local[i - 1]) * ls = len}

(* Ids that follow each other first; if the blocks of a side lie further    *)
(* apart than what is copied, all is grouped again by address.              *)
starts ==
  IF remote_stride # inner_block_len \/ block_stride # inner_block_len
  THEN group_starts(remote_stride, block_stride, inner_block_len)
  ELSE IF tp_num_need_pulls = 1 THEN group_starts(1, 1, 1)
  ELSE DOMAIN remote

group_len(i) ==
  Cardinality({j \in DOMAIN remote : j >= i /\ (i + 1 .. j) \cap starts = {}})

remote_address(i) == remote[i] * remote_stride
local_address(i) == local[i] * block_stride + inner_offset * inner_block_len

(* The bytes the copies move, as pairs of addresses. *)
CopiedBytes ==
  UNION {{<<remote_address(i) + b, local_address(i) + b>> :
            b \in 0 .. group_len(i) * inner_block_len - 1} : i \in starts}

-----------------------------------------------------------------------------
(* The grouped copies move exactly the bytes that copying block by block    *)
(* would, from and to the same addresses, for ids in any order and also     *)
(* where blocks lie further apart than what is copied of them               *)
(* (group_concurrent_contiguous, split_if_not_byte_contiguous).             *)
CopiesExact ==
  CopiedBytes =
    UNION {{<<remote_address(i) + b, local_address(i) + b>> :
              b \in 0 .. inner_block_len - 1} : i \in DOMAIN remote}
=============================================================================
