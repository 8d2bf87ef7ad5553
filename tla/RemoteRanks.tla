---------------------------- MODULE RemoteRanks ----------------------------
(* Which prefill ranks a decode rank pulls a request from when there is no  *)
(* context parallelism. The prefill ranks work the same table out by        *)
(* themselves, from the same hash of the request id, to know whether they   *)
(* will be read.                                                            *)
EXTENDS Integers, Sequences, SequencesExt, FiniteSets, FiniteSetsExt

CONSTANTS prefill_tp_size, decode_tp_size, prefill_pp_size,
          num_kv_head,       \* KV heads of the model; 1 for MLA
          Sample             \* rand.sample(range(num_groups), ...) of a request

(* Copies of each KV head among the ranks of a stage. *)
num_groups == Max({1, prefill_tp_size \div num_kv_head})

SampleSize == Max({decode_tp_size \div num_kv_head, 1})

(* The sizes that vLLM accepts: heads and ranks divide each other. D's      *)
(* ranks divide P's, which the code asserts for hybrid models; otherwise it *)
(* only asks that P has as many.                                            *)
Supported ==
  /\ prefill_tp_size % decode_tp_size = 0
  /\ \A tp \in {prefill_tp_size, decode_tp_size} :
       tp % num_kv_head = 0 \/ num_kv_head % tp = 0
  /\ Sample \in [1 .. SampleSize -> 0 .. num_groups - 1]
  /\ IsInjective(Sample)

-----------------------------------------------------------------------------
(* _get_tp_num_need_pulls on a worker with tp ranks.                        *)
tp_num_need_pulls(tp) ==
  Max({1, num_kv_head \div tp}) \div Max({1, num_kv_head \div prefill_tp_size})

(* flattened: the chosen copies of head 0, then those of head 1, ...        *)
flattened_by_copy ==
  [i \in 1 .. (prefill_tp_size \div num_groups) * SampleSize |->
     ((i - 1) % (prefill_tp_size \div num_groups)) * num_groups
       + Sample[((i - 1) \div (prefill_tp_size \div num_groups)) + 1]]

flattened ==
  [i \in 1 .. (prefill_tp_size \div num_groups) * SampleSize |->
     ((i - 1) \div SampleSize) * num_groups + Sample[((i - 1) % SampleSize) + 1]]

(* _get_remote_tp_ranks for decode rank d, as seen by a worker with tp      *)
(* ranks, in the first stage.                                               *)
remote_tp_ranks(tp, d) ==
  LET group_size == prefill_tp_size \div decode_tp_size
      n == tp_num_need_pulls(tp)
  IN IF prefill_tp_size > num_kv_head \/ num_kv_head = 1
     THEN SubSeq(flattened, d * n + 1, d * n + n)
     ELSE [i \in 1 .. group_size |-> d * group_size + i - 1]

(* _get_remote_ranks_for_req: entry d of the table, all stages.             *)
remote_ranks(tp, d) ==
  IF prefill_tp_size = decode_tp_size
  THEN [pp \in 1 .. prefill_pp_size |-> d + (pp - 1) * prefill_tp_size]
  ELSE FlattenSeq([pp \in 1 .. prefill_pp_size |->
         [i \in 1 .. Len(remote_tp_ranks(tp, d)) |->
            remote_tp_ranks(tp, d)[i] + (pp - 1) * prefill_tp_size]])

(* _prefill_get_remote_rank: the whole table, however it is cut.            *)
Entries(tp) == IF prefill_tp_size = decode_tp_size
                 \/ ~(prefill_tp_size > num_kv_head \/ num_kv_head = 1)
               THEN decode_tp_size
               ELSE Len(flattened) \div tp_num_need_pulls(tp)
prefill_remote_rank_first(tp) == ToSet(remote_ranks(tp, 0))

prefill_remote_rank(tp) ==
  UNION {ToSet(remote_ranks(tp, d)) : d \in 0 .. Entries(tp) - 1}

-----------------------------------------------------------------------------
(* The heads that vLLM gives tensor parallel rank t of tp, in order.        *)
HeadsOf(tp, t) ==
  IF num_kv_head >= tp
  THEN [i \in 1 .. num_kv_head \div tp |-> t * (num_kv_head \div tp) + i - 1]
  ELSE <<t \div (tp \div num_kv_head)>>

(* A decode rank that pulls in the order of its list, stage by stage, gets  *)
(* its own heads, each once and in order, from the ranks of that stage      *)
(* (_get_remote_ranks_for_req; the pulls are written at offset i of a       *)
(* block, so the order counts).                                             *)
HeadsComplete ==
  \A d \in 0 .. decode_tp_size - 1 : \A pp \in 0 .. prefill_pp_size - 1 :
    LET ranks == remote_ranks(decode_tp_size, d)
        n == tp_num_need_pulls(decode_tp_size)
    IN /\ Len(ranks) = n * prefill_pp_size
       /\ \A i \in 1 .. n :
            ranks[pp * n + i] \div prefill_tp_size = pp
       /\ FlattenSeq([i \in 1 .. n |->
            HeadsOf(prefill_tp_size, ranks[pp * n + i] % prefill_tp_size)])
            = HeadsOf(decode_tp_size, d)

(* A prefill rank keeps the blocks of a request for a reader exactly when   *)
(* some decode rank will read them and say DONE, although it works with its *)
(* own number of pulls and compares its rank within a stage only            *)
(* (_prefill_get_remote_rank, start_load_kv).                               *)
SendersAreRead ==
  \A t \in 0 .. prefill_tp_size - 1 : \A pp \in 0 .. prefill_pp_size - 1 :
    (t \in prefill_remote_rank(prefill_tp_size)) =
      \E d \in 0 .. decode_tp_size - 1 :
        t + pp * prefill_tp_size \in ToSet(remote_ranks(decode_tp_size, d))
=============================================================================
