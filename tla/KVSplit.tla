------------------------------ MODULE KVSplit ------------------------------
(* Which blocks a decode rank pulls under context parallelism, and where it *)
(* puts them. The prefill ranks of a CP group hold the blocks of a prompt   *)
(* in turn, and so do the decode ranks, but the numbers of ranks, the block *)
(* sizes and what is already cached on D may all differ.                    *)
(* Sizes are in kernel blocks, the unit both sides share: the divisions of  *)
(* the code round the same way when everything is divided by kernel_size.   *)
EXTENDS Integers, Sequences, SequencesExt, FiniteSetsExt

CONSTANTS RemoteCp,   \* remote_cp_size
          LocalCp,    \* local_cp_size
          Bp, Bd,     \* block sizes on P and on D
          Prompt,     \* length of the prompt
          Computed    \* how much of it D has in its prefix cache

CeilDiv(a, b) == (a + b - 1) \div b

r_blk == IF Bd > Bp THEN Bd \div Bp ELSE 1

(* The asserts of _get_local_remote_cp_params, of the check of parameters   *)
(* and of the prefix; a prefix hit is made of whole blocks of D. With CP on *)
(* P and Bp > Bd it has to be made of whole blocks of P as well, which the  *)
(* code does not assert.                                                    *)
Supported ==
  /\ RemoteCp % LocalCp = 0
  /\ Bd % Bp = 0 \/ Bp % Bd = 0
  /\ Bp # Bd /\ LocalCp > 1 =>
       Bd % Bp = 0 /\ (RemoteCp \div LocalCp) % r_blk = 0
  /\ Computed % Bd = 0 /\ Computed < Prompt
  /\ RemoteCp > 1 => Computed % Bp = 0

-----------------------------------------------------------------------------
num_prompt_blocks == CeilDiv(Prompt, Bp)
num_external_blocks == CeilDiv(Prompt - Computed, Bd)
num_external_blocks_p == CeilDiv(Prompt - Computed, Bp)
num_prefix_cached_blocks == num_prompt_blocks - num_external_blocks_p

(* What rank cp gets of n blocks that are dealt in turn. *)
Dealt(n, cp) == n \div RemoteCp + (IF cp < n % RemoteCp THEN 1 ELSE 0)

remote_block_nums(cp) ==
  Dealt(num_prompt_blocks, cp) - Dealt(num_prefix_cached_blocks, cp)

last_block_location ==
  ((num_prompt_blocks % RemoteCp) + RemoteCp - 1) % RemoteCp

(* The prefill ranks that decode rank d pulls from: the one with the last   *)
(* block comes last.                                                        *)
shard_cp_ranks(d) ==
  LET mine == SelectSeq([i \in 1 .. RemoteCp |-> i - 1],
                        LAMBDA cp : (cp \div r_blk) % LocalCp = d)
  IN SelectSeq(mine, LAMBDA cp : cp # last_block_location)
     \o SelectSeq(mine, LAMBDA cp : cp = last_block_location)

first_d(d) ==
  LET num_prefix_d_blocks == num_prefix_cached_blocks \div r_blk
  IN num_prefix_d_blocks + ((d - num_prefix_d_blocks) % LocalCp)

remote_first_floor(cp) == num_prefix_cached_blocks \div RemoteCp

remote_first(cp) == (num_prefix_cached_blocks - cp + RemoteCp - 1) \div RemoteCp

num_remote_block_ids == CeilDiv(Prompt, Bp * RemoteCp)
num_local_block_ids == CeilDiv(num_external_blocks, LocalCp)

(* Kernel blocks as <<index into the list of block ids, offset>>.           *)
kernel_remote(cp) ==
  LET slice == SelectSeq([i \in 1 .. remote_block_nums(cp) |-> remote_first(cp) + i - 1],
                         LAMBDA i : i < num_remote_block_ids)
  IN FlattenSeq([i \in 1 .. Len(slice) |-> [k \in 1 .. Bp |-> <<slice[i], k - 1>>]])

(* _local_kernel_ids_for_shard: where the kernels of one P block go. *)
LocalKernels(d, cp, block_idx) ==
  LET global_p_block == (remote_first(cp) + block_idx) * RemoteCp + cp
      token_start == (global_p_block - num_prefix_cached_blocks) * Bp
      d_block == (global_p_block \div r_blk - first_d(d)) \div LocalCp
  IN IF Bp > Bd
     THEN LET placed == SelectSeq([k \in 1 .. Bp |-> token_start + k - 1],
                                  LAMBDA x : x < num_local_block_ids * Bd)
          IN [k \in 1 .. Len(placed) |-> <<placed[k] \div Bd, placed[k] % Bd>>]
     ELSE IF d_block >= num_local_block_ids THEN <<>>
     ELSE [k \in 1 .. Bp |-> <<d_block, (global_p_block % r_blk) * Bp + k - 1>>]

kernel_local(d, cp) ==
  FlattenSeq([i \in 1 .. remote_block_nums(cp) |-> LocalKernels(d, cp, i - 1)])

(* The list of n blocks of size b in kernels. *)
expand_block_ids(n, b) == [i \in 1 .. n * b |-> <<(i - 1) \div b, (i - 1) % b>>]

(* The copies of one shard: the two lists, cut to the shorter. Without CP   *)
(* (_get_kernel_block_ids) the remote list begins behind the prefix.        *)
Copies(d, cp) ==
  LET no_cp == RemoteCp * LocalCp = 1
      from == IF no_cp
              THEN SubSeq(expand_block_ids(num_remote_block_ids, Bp),
                          Computed + 1, num_remote_block_ids * Bp)
              ELSE kernel_remote(cp)
      to == IF no_cp THEN expand_block_ids(num_local_block_ids, Bd)
            ELSE kernel_local(d, cp)
  IN {<<from[i], to[i]>> : i \in 1 .. Min({Len(from), Len(to)})}

-----------------------------------------------------------------------------
(* The place of a kernel block of the prompt on each side: blocks go round  *)
(* the ranks, and D's list begins with the first block behind its prefix.   *)
KernelOnP(cp, place) == (place[1] * RemoteCp + cp) * Bp + place[2]

KernelOnD(d, place) ==
  LET first == Min({g \in 0 .. CeilDiv(Prompt, Bd) + LocalCp :
                      g >= Computed \div Bd /\ g % LocalCp = d})
  IN (first + place[1] * LocalCp) * Bd + place[2]

(* The shards of a decode rank bring every part of the prompt that the rank *)
(* has to hold and does not hold yet to the place where attention looks for *)
(* it, and put nothing anywhere else, whatever the two CP sizes, the block  *)
(* sizes, the partly filled last block and the prefix that is already there *)
(* (_get_kv_split_metadata, _local_kernel_ids_for_shard).                   *)
KernelsInPlace ==
  \A d \in 0 .. LocalCp - 1 :
    LET shards == ToSet(shard_cp_ranks(d))
    IN /\ \A cp \in shards : \A c \in Copies(d, cp) :
            KernelOnP(cp, c[1]) = KernelOnD(d, c[2])
       /\ \A x \in Computed .. Prompt - 1 :
            (x \div Bd) % LocalCp = d =>
              \E cp \in shards : \E c \in Copies(d, cp) : KernelOnD(d, c[2]) = x
=============================================================================
