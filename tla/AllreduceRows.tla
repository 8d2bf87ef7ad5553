----------------------------- MODULE AllreduceRows -----------------------------
(***************************************************************************)
(* How matmul_allreduce_add_rmsnorm deals the rows of the output: splits of *)
(* RowsPerSplit rows, each shared out over the ranks, and a rank's share    *)
(* over its vector cores.  Every division rounds up and every share is cut  *)
(* to what is left, so late ranks and late cores may get nothing.           *)
(***************************************************************************)
EXTENDS Integers

CONSTANTS
    RankSize,          \* rank_size
    UsedCores,         \* allreduce_used_core, 16 in the code
    M,                 \* m: rows of the output
    RowsPerSplit       \* swizzl_count * m0

Ranks == 0 .. RankSize - 1
Rows == 0 .. M - 1

DivCeil(a, b) == (a + b - 1) \div b

LimitRange(val, low, high) ==
    LET raised == IF val < low THEN low ELSE val
    IN IF raised < high THEN raised ELSE high

comm_count == DivCeil(M, RowsPerSplit)

m_total(cal_idx) ==
    IF cal_idx = comm_count - 1 THEN M - cal_idx * RowsPerSplit ELSE RowsPerSplit

m_per_rank(cal_idx) == DivCeil(m_total(cal_idx), RankSize)

(***************************************************************************)
(* The rows core c of rank r reduces in a split, and the rows a core        *)
(* gathers, with the rank it gathers them from.                             *)
(***************************************************************************)
StepOneRows(r, c, cal_idx) ==
    LET mine == m_per_rank(cal_idx)
        m_cur_rank == LimitRange(m_total(cal_idx) - r * mine, 0, mine)
        m_per_core == DivCeil(m_cur_rank, UsedCores)
        m_cur_core == LimitRange(m_cur_rank - c * m_per_core, 0, m_per_core)
        first == cal_idx * RowsPerSplit + r * mine + c * m_per_core
    IN IF c < UsedCores THEN first .. first + m_cur_core - 1 ELSE {}

used_core_per_rank_rounded_up == DivCeil(UsedCores, RankSize)

\* Cores left over when the ranks do not divide the cores gather nothing.
used_core_per_rank == UsedCores \div RankSize

gather_rank_id(c) == c \div used_core_per_rank

GatherRows(c, cal_idx) ==
    LET mine == m_per_rank(cal_idx)
        m_in_rank == LimitRange(m_total(cal_idx) - gather_rank_id(c) * mine, 0, mine)
        m_per_core == DivCeil(m_in_rank, used_core_per_rank)
        sub_core_idx == c % used_core_per_rank
        m_cur_core == LimitRange(m_in_rank - sub_core_idx * m_per_core, 0, m_per_core)
        first == cal_idx * RowsPerSplit + gather_rank_id(c) * mine
                 + sub_core_idx * m_per_core
    IN IF c < UsedCores THEN first .. first + m_cur_core - 1 ELSE {}

----------------------------------------------------------------------------
\* ParallelWithSplitStepOneAddNorm rewrites a row in place, so a row must be
\* reduced by one core of one rank, no more, and every row by one: the shares of
\* the ranks and the cores partition the rows.
EachRowReducedOnce ==
    \A row \in Rows :
        \E r \in Ranks, c \in 0 .. UsedCores - 1, i \in 0 .. comm_count - 1 :
            /\ row \in StepOneRows(r, c, i)
            /\ \A r2 \in Ranks, c2 \in 0 .. UsedCores - 1, i2 \in 0 .. comm_count - 1 :
                  row \in StepOneRows(r2, c2, i2) => <<r2, c2, i2>> = <<r, c, i>>

\* ParallelAllGather deals the same rows over the cores a second time, in
\* another way: each row is gathered by one core, from the rank that reduced it,
\* and no core is sent to the window of a rank that does not exist.
GatheredFromItsReducer ==
    \A i \in 0 .. comm_count - 1 :
        /\ \A row \in i * RowsPerSplit .. i * RowsPerSplit + m_total(i) - 1 :
              \E c \in 0 .. UsedCores - 1 :
                  /\ row \in GatherRows(c, i)
                  /\ \A c2 \in 0 .. UsedCores - 1 : row \in GatherRows(c2, i) => c2 = c
        /\ \A c \in 0 .. UsedCores - 1 : \A row \in GatherRows(c, i) :
              /\ gather_rank_id(c) \in Ranks
              /\ \E c1 \in 0 .. UsedCores - 1 :
                    row \in StepOneRows(gather_rank_id(c), c1, i)

\* The rows are shared out right by both kernels: ParallelWithSplitStepOneAddNorm
\* and ParallelAllGather.
RowsShared == EachRowReducedOnce /\ GatheredFromItsReducer
=============================================================================
