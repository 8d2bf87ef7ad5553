-------------------------- MODULE AllreduceRowsProofs --------------------------
(***************************************************************************)
(* The rows are dealt right for any number of ranks, cores and rows: the    *)
(* two properties of AllreduceRows, for every size.                         *)
(***************************************************************************)
EXTENDS AllreduceRows, TLAPS

(***************************************************************************)
(* What a dealing of total things to n takers gives to taker q: a share     *)
(* rounded up, cut to what is left.                                         *)
(***************************************************************************)
Dealt(total, n, q) ==
    LET share == DivCeil(total, n)
    IN q * share .. q * share + LimitRange(total - q * share, 0, share) - 1

\* Division with remainder.
LEMMA Division ==
    ASSUME NEW a \in Nat, NEW b \in Nat \ {0}
    PROVE  /\ a \div b \in Nat /\ a % b \in 0 .. b - 1
           /\ a = b * (a \div b) + (a % b)
OBVIOUS

\* Multiplication is monotone.
LEMMA Monotone ==
    ASSUME NEW q \in Nat, NEW a \in Nat, NEW b \in Nat, a < b
    PROVE  q * a + q <= q * b
<1>1. q * (b - a - 1) >= 0
    OBVIOUS
<1>2. q * (b - a - 1) = q * b - q * a - q
    OBVIOUS
<1> QED
    BY <1>1, <1>2

\* Stretches of the same length do not overlap.
LEMMA Apart ==
    ASSUME NEW b \in Nat, NEW q \in Nat, NEW p \in Nat, NEW x \in Int,
           b * q <= x, x < b * q + b, b * p <= x, x < b * p + b
    PROVE  q = p
<1>1. b * q \in Nat /\ b * p \in Nat
    OBVIOUS
<1>2. q < p => b * q + b <= b * p
    BY Monotone
<1>3. p < q => b * p + b <= b * q
    BY Monotone
<1> QED
    BY <1>1, <1>2, <1>3

\* A division rounded up.
LEMMA Ceiling ==
    ASSUME NEW total \in Nat, NEW n \in Nat \ {0}
    PROVE  /\ DivCeil(total, n) \in Nat
           /\ total <= n * DivCeil(total, n)
           /\ total > 0 => DivCeil(total, n) > 0 /\ n * (DivCeil(total, n) - 1) < total
<1>1. PICK a \in Nat : a = total + n - 1
    OBVIOUS
<1>2. PICK k \in Nat, m \in 0 .. n - 1 : k = a \div n /\ m = a % n /\ a = n * k + m
    BY Zenon, Division
<1>3. DivCeil(total, n) = k
    BY <1>1, <1>2 DEF DivCeil
<1>4. n * k \in Nat /\ n * (k - 1) = n * k - n
    OBVIOUS
<1>5. total <= n * k /\ n * (k - 1) < total
    BY <1>1, <1>2, <1>4
<1>6. total > 0 => k > 0
    BY <1>1, <1>2, <1>5
<1> QED
    BY <1>3, <1>5, <1>6

\* A dealing gives everything out, once, and to the n takers only.
LEMMA DealtOnce ==
    ASSUME NEW total \in Nat, NEW n \in Nat \ {0}
    PROVE  /\ \A q \in Nat : \A x \in Dealt(total, n, q) : x \in 0 .. total - 1 /\ q < n
           /\ \A x \in 0 .. total - 1 : \E q \in 0 .. n - 1 : x \in Dealt(total, n, q)
           /\ \A q, p \in Nat : \A x :
                x \in Dealt(total, n, q) /\ x \in Dealt(total, n, p) => q = p
<1>1. PICK b \in Nat : b = DivCeil(total, n) /\ total <= n * b /\ (total > 0 => b > 0)
    BY Ceiling
<1>2. ASSUME NEW q \in Nat, NEW x
      PROVE  x \in Dealt(total, n, q) <=>
               x \in Int /\ b * q <= x /\ x < b * q + b /\ x < total
    <2>1. PICK s \in Nat : s = q * b /\ s = b * q
        OBVIOUS
    <2>2. Dealt(total, n, q) = s .. s + LimitRange(total - s, 0, b) - 1
        BY <1>1, <2>1 DEF Dealt
    <2>3. LimitRange(total - s, 0, b) =
            IF total - s < 0 THEN 0 ELSE IF total - s < b THEN total - s ELSE b
        BY DEF LimitRange
    <2> QED
        BY <2>1, <2>2, <2>3
<1>3. ASSUME NEW q \in Nat, NEW x \in Dealt(total, n, q)
      PROVE  x \in 0 .. total - 1 /\ q < n
    <2>1. b * q \in Nat /\ n * b = b * n /\ b * n \in Nat
        OBVIOUS
    <2>2. x \in Int /\ b * q <= x /\ x < b * q + b /\ x < total
        BY <1>2
    <2>3. n < q => b * n + b <= b * q
        BY Monotone
    <2>4. n = q => b * n = b * q
        OBVIOUS
    <2> QED
        BY <1>1, <2>1, <2>2, <2>3, <2>4
<1>4. ASSUME NEW x \in 0 .. total - 1
      PROVE  \E q \in 0 .. n - 1 : x \in Dealt(total, n, q)
    <2>1. b \in Nat \ {0} /\ x \in Nat
        BY <1>1
    <2>2. x \div b \in Nat /\ x % b \in 0 .. b - 1 /\ x = b * (x \div b) + (x % b)
        BY Zenon, <2>1, Division
    <2>3. PICK q \in Nat, m \in 0 .. b - 1 : x = b * q + m
        BY Zenon, <2>2
    <2>4. b * q \in Nat
        OBVIOUS
    <2>5. x \in Dealt(total, n, q)
        BY <1>2, <2>1, <2>3, <2>4
    <2> QED
        BY <1>3, <2>5
<1>5. ASSUME NEW q \in Nat, NEW p \in Nat, NEW x,
             x \in Dealt(total, n, q), x \in Dealt(total, n, p)
      PROVE  q = p
    BY <1>2, <1>5, Apart
<1> QED
    BY <1>3, <1>4, <1>5

(***************************************************************************)
(* The rows of rank r's share of a split, and of core c's share of that,    *)
(* counted from the start of what is dealt.                                 *)
(***************************************************************************)
m_cur_rank(r, i) == LimitRange(m_total(i) - r * m_per_rank(i), 0, m_per_rank(i))

\* A split holds at least one row and at most RowsPerSplit, the splits hold every
\* row and a row is in one split only.
LEMMA Splits ==
    ASSUME M \in Nat, RowsPerSplit \in Nat \ {0}
    PROVE  /\ \A i \in 0 .. comm_count - 1 : m_total(i) \in 1 .. RowsPerSplit
           /\ \A row \in Rows : \E i \in 0 .. comm_count - 1 :
                row - i * RowsPerSplit \in 0 .. m_total(i) - 1
           /\ \A i, j \in 0 .. comm_count - 1 : \A row \in Int :
                row - i * RowsPerSplit \in 0 .. m_total(i) - 1
                  /\ row - j * RowsPerSplit \in 0 .. m_total(j) - 1 => i = j
<1>1. PICK n \in Nat : /\ n = comm_count /\ M <= RowsPerSplit * n
                       /\ M > 0 => n > 0 /\ RowsPerSplit * (n - 1) < M
    BY Ceiling DEF comm_count
<1>2. RowsPerSplit * (n - 1) = RowsPerSplit * n - RowsPerSplit /\ RowsPerSplit * n \in Nat
    OBVIOUS
<1>3. M = 0 => n = 0
    <2>1. SUFFICES ASSUME M = 0 PROVE n = 0
        OBVIOUS
    <2>2. PICK k \in Nat, m \in 0 .. RowsPerSplit - 1 :
            k = (RowsPerSplit - 1) \div RowsPerSplit /\ RowsPerSplit - 1 = RowsPerSplit * k + m
        BY Division
    <2>3. k > 0 => RowsPerSplit * k >= RowsPerSplit
        OBVIOUS
    <2>4. n = k
        BY <1>1, <2>1, <2>2 DEF comm_count, DivCeil
    <2> QED
        BY <2>2, <2>3, <2>4
<1>4. ASSUME NEW i \in 0 .. n - 1
      PROVE  /\ m_total(i) = (IF i = n - 1 THEN M - RowsPerSplit * i ELSE RowsPerSplit)
             /\ m_total(i) \in 1 .. RowsPerSplit
             /\ i * RowsPerSplit = RowsPerSplit * i /\ RowsPerSplit * i \in Nat
    <2>1. i * RowsPerSplit = RowsPerSplit * i /\ RowsPerSplit * i \in Nat
        OBVIOUS
    <2>2. m_total(i) = (IF i = n - 1 THEN M - RowsPerSplit * i ELSE RowsPerSplit)
        BY <1>1, <2>1 DEF m_total
    <2>3. i = n - 1 => RowsPerSplit * i = RowsPerSplit * n - RowsPerSplit
        BY <1>2
    <2> QED
        BY <1>1, <1>2, <1>3, <2>1, <2>2, <2>3
<1>5. ASSUME NEW row \in Rows
      PROVE  \E i \in 0 .. n - 1 : row - i * RowsPerSplit \in 0 .. m_total(i) - 1
    <2>1. row \in Nat /\ row < M
        BY DEF Rows
    <2>2. PICK i \in Nat, m \in 0 .. RowsPerSplit - 1 : row = RowsPerSplit * i + m
        <3>1. /\ row \div RowsPerSplit \in Nat /\ row % RowsPerSplit \in 0 .. RowsPerSplit - 1
              /\ row = RowsPerSplit * (row \div RowsPerSplit) + (row % RowsPerSplit)
            BY Zenon, Division, <2>1
        <3> QED
            BY Zenon, <3>1
    <2>3. RowsPerSplit * i \in Nat
        OBVIOUS
    <2>4. n < i => RowsPerSplit * n + RowsPerSplit <= RowsPerSplit * i
        BY Monotone
    <2>5. n = i => RowsPerSplit * n = RowsPerSplit * i
        OBVIOUS
    <2>6. i \in 0 .. n - 1
        BY <1>1, <1>2, <2>1, <2>2, <2>3, <2>4, <2>5
    <2>7. row - i * RowsPerSplit \in 0 .. m_total(i) - 1
        BY <1>4, <2>1, <2>2, <2>3, <2>6
    <2> QED
        BY <2>6, <2>7
<1>6. ASSUME NEW i \in 0 .. n - 1, NEW j \in 0 .. n - 1, NEW row \in Int,
             row - i * RowsPerSplit \in 0 .. m_total(i) - 1,
             row - j * RowsPerSplit \in 0 .. m_total(j) - 1
      PROVE  i = j
    <2>1. RowsPerSplit * i <= row /\ row < RowsPerSplit * i + RowsPerSplit
        BY <1>4, <1>6
    <2>2. RowsPerSplit * j <= row /\ row < RowsPerSplit * j + RowsPerSplit
        BY <1>4, <1>6
    <2> QED
        BY <2>1, <2>2, Apart
<1> QED
    BY <1>1, <1>4, <1>5, <1>6

\* The share of a rank is a dealing of the split's rows to the ranks.
LEMMA RankShare ==
    ASSUME NEW i \in Nat, m_total(i) \in Nat, RankSize \in Nat \ {0}, NEW r \in Nat
    PROVE  /\ m_per_rank(i) \in Nat /\ m_cur_rank(r, i) \in Nat /\ r * m_per_rank(i) \in Nat
           /\ \A x \in Int : x \in Dealt(m_total(i), RankSize, r) <=>
                              x - r * m_per_rank(i) \in 0 .. m_cur_rank(r, i) - 1
<1>1. m_per_rank(i) = DivCeil(m_total(i), RankSize) /\ m_per_rank(i) \in Nat
    BY Ceiling DEF m_per_rank
<1>2. r * m_per_rank(i) \in Nat
    BY <1>1
<1>3. m_cur_rank(r, i) \in Nat
    BY <1>1, <1>2 DEF m_cur_rank, LimitRange
<1>4. Dealt(m_total(i), RankSize, r) =
        r * m_per_rank(i) .. r * m_per_rank(i) + m_cur_rank(r, i) - 1
    BY Zenon, <1>1 DEF Dealt, m_cur_rank
<1>5. PICK s \in Nat, l \in Nat : s = r * m_per_rank(i) /\ l = m_cur_rank(r, i)
    BY Zenon, <1>2, <1>3
<1>6. \A x \in Int : x \in s .. s + l - 1 <=> x - s \in 0 .. l - 1
    OBVIOUS
<1> QED
    BY Zenon, <1>1, <1>2, <1>3, <1>4, <1>5, <1>6

\* What core q of n cores that share rank r's share of a split handles, counted
\* from the start of that share.
LEMMA CoreShare ==
    ASSUME NEW total \in Nat, NEW n \in Nat \ {0}, NEW q \in Nat,
           NEW first \in Int, NEW row \in Int
    PROVE  LET share == DivCeil(total, n)
               start == first + q * share
           IN row \in start .. start + LimitRange(total - q * share, 0, share) - 1
                <=> row - first \in Dealt(total, n, q)
<1>1. PICK b \in Nat : b = DivCeil(total, n)
    BY Ceiling
<1>2. PICK s \in Nat : s = q * b
    OBVIOUS
<1>3. PICK l \in Nat : l = LimitRange(total - s, 0, b)
    BY DEF LimitRange
<1>4. Dealt(total, n, q) = s .. s + l - 1
    BY Zenon, <1>1, <1>2, <1>3 DEF Dealt
<1>5. row \in first + s .. first + s + l - 1 <=> row - first \in s .. s + l - 1
    OBVIOUS
<1> QED
    BY Zenon, <1>1, <1>2, <1>3, <1>4, <1>5

\* Step one deals a rank's share to all cores; the gather deals it to the cores
\* that are sent to that rank.
LEMMA StepOneWhere ==
    ASSUME RankSize \in Nat \ {0}, UsedCores \in Nat \ {0}, RowsPerSplit \in Nat \ {0},
           NEW i \in Nat, m_total(i) \in Nat, NEW r \in Nat,
           NEW c \in 0 .. UsedCores - 1, NEW row \in Int
    PROVE  row \in StepOneRows(r, c, i) <=>
             row - (i * RowsPerSplit + r * m_per_rank(i))
               \in Dealt(m_cur_rank(r, i), UsedCores, c)
<1>1. m_cur_rank(r, i) \in Nat /\ i * RowsPerSplit + r * m_per_rank(i) \in Int /\ c \in Nat
    <2>1. m_cur_rank(r, i) \in Nat /\ r * m_per_rank(i) \in Nat
        BY Zenon, RankShare
    <2>2. i * RowsPerSplit \in Nat /\ c \in Nat
        OBVIOUS
    <2> QED
        BY <2>1, <2>2
<1>2. c < UsedCores
    OBVIOUS
<1> QED
    BY Zenon, <1>1, <1>2, CoreShare DEF StepOneRows, m_cur_rank

LEMMA GatherWhere ==
    ASSUME RankSize \in Nat \ {0}, used_core_per_rank \in Nat \ {0},
           UsedCores \in Nat \ {0}, RowsPerSplit \in Nat \ {0},
           NEW i \in Nat, m_total(i) \in Nat,
           NEW c \in 0 .. UsedCores - 1, NEW row \in Int
    PROVE  row \in GatherRows(c, i) <=>
             row - (i * RowsPerSplit + gather_rank_id(c) * m_per_rank(i))
               \in Dealt(m_cur_rank(gather_rank_id(c), i), used_core_per_rank,
                         c % used_core_per_rank)
<1>1. c \in Nat /\ c < UsedCores
    OBVIOUS
<1>2. gather_rank_id(c) \in Nat /\ c % used_core_per_rank \in 0 .. used_core_per_rank - 1
    BY Zenon, <1>1, Division DEF gather_rank_id
<1>3. c % used_core_per_rank \in Nat
    BY <1>2
<1>4. /\ m_cur_rank(gather_rank_id(c), i) \in Nat
      /\ i * RowsPerSplit + gather_rank_id(c) * m_per_rank(i) \in Int
    <2>1. /\ m_cur_rank(gather_rank_id(c), i) \in Nat
          /\ gather_rank_id(c) * m_per_rank(i) \in Nat
        BY Zenon, <1>2, RankShare
    <2>2. i * RowsPerSplit \in Nat
        OBVIOUS
    <2> QED
        BY <2>1, <2>2
<1> QED
    BY Zenon, <1>1, <1>3, <1>4, CoreShare DEF GatherRows, m_cur_rank

\* A row of a split lies in one rank's share of it, and what lies in a rank's
\* share lies in the split and is the share of a rank that exists.
LEMMA ShareOfRow ==
    ASSUME RankSize \in Nat \ {0}, RowsPerSplit \in Nat \ {0},
           NEW i \in Nat, m_total(i) \in Nat, NEW row \in Int
    PROVE  LET In(r) == row - (i * RowsPerSplit + r * m_per_rank(i))
                          \in 0 .. m_cur_rank(r, i) - 1
           IN /\ row - i * RowsPerSplit \in 0 .. m_total(i) - 1 => \E r \in Ranks : In(r)
              /\ \A r \in Nat : In(r) =>
                   r \in Ranks /\ row - i * RowsPerSplit \in 0 .. m_total(i) - 1
              /\ \A r, q \in Nat : In(r) /\ In(q) => r = q
<1> DEFINE In(r) == row - (i * RowsPerSplit + r * m_per_rank(i)) \in 0 .. m_cur_rank(r, i) - 1
<1>1. PICK x \in Int : x = row - i * RowsPerSplit
    OBVIOUS
<1>2. ASSUME NEW r \in Nat
      PROVE  In(r) <=> x \in Dealt(m_total(i), RankSize, r)
    <2>1. PICK s \in Nat : s = r * m_per_rank(i)
        <3>1. r * m_per_rank(i) \in Nat
            BY Zenon, RankShare
        <3> QED
            BY Zenon, <3>1
    <2>2. PICK a \in Nat : a = i * RowsPerSplit
        OBVIOUS
    <2>3. row - (a + s) = x - s
        BY <1>1, <2>2
    <2>4. x \in Dealt(m_total(i), RankSize, r) <=> x - s \in 0 .. m_cur_rank(r, i) - 1
        BY Zenon, <2>1, RankShare
    <2> QED
        BY Zenon, <2>1, <2>2, <2>3, <2>4
<1> HIDE DEF In
<1>3. x \in 0 .. m_total(i) - 1 => \E r \in Ranks : In(r)
    <2>1. \A r \in Ranks : r \in Nat
        BY DEF Ranks
    <2> QED
        BY Zenon, <1>2, <2>1, DealtOnce DEF Ranks
<1>4. ASSUME NEW r \in Nat, In(r)
      PROVE  r \in Ranks /\ x \in 0 .. m_total(i) - 1
    <2>1. x \in 0 .. m_total(i) - 1 /\ r < RankSize
        BY Zenon, <1>2, <1>4, DealtOnce
    <2> QED
        BY <2>1 DEF Ranks
<1>5. ASSUME NEW r \in Nat, NEW q \in Nat, In(r), In(q)
      PROVE  r = q
    BY Zenon, <1>2, <1>5, DealtOnce
<1> QED
    BY Zenon, <1>1, <1>3, <1>4, <1>5 DEF In

\* ParallelWithSplitStepOneAddNorm: whatever the ranks, the cores, the rows and
\* the rows of a split, each row is reduced by one core of one rank in one split.
THEOREM EachRowReducedOnceHolds ==
    ASSUME RankSize \in Nat \ {0}, UsedCores \in Nat \ {0}, M \in Nat,
           RowsPerSplit \in Nat \ {0}
    PROVE  EachRowReducedOnce
<1> DEFINE From(r, i) == i * RowsPerSplit + r * m_per_rank(i)
           In(row, r, i) == row - From(r, i) \in 0 .. m_cur_rank(r, i) - 1
<1>1. ASSUME NEW i \in 0 .. comm_count - 1
      PROVE  i \in Nat /\ m_total(i) \in Nat
    <2>1. m_total(i) \in 1 .. RowsPerSplit
        BY Zenon, Splits
    <2> QED
        BY <2>1
<1>2. ASSUME NEW i \in 0 .. comm_count - 1, NEW r \in Ranks, NEW c \in 0 .. UsedCores - 1,
             NEW row \in Int
      PROVE  /\ row \in StepOneRows(r, c, i) <=>
                  row - From(r, i) \in Dealt(m_cur_rank(r, i), UsedCores, c)
             /\ r \in Nat /\ c \in Nat /\ m_cur_rank(r, i) \in Nat
    <2>1. r \in Nat /\ c \in Nat
        BY DEF Ranks
    <2>2. m_cur_rank(r, i) \in Nat
        BY Zenon, <1>1, <2>1, RankShare
    <2>3. row \in StepOneRows(r, c, i) <=>
            row - From(r, i) \in Dealt(m_cur_rank(r, i), UsedCores, c)
        BY Zenon, <1>1, <2>1, StepOneWhere
    <2> QED
        BY <2>1, <2>2, <2>3
<1> HIDE DEF From
<1>3. ASSUME NEW i \in 0 .. comm_count - 1, NEW r \in Ranks, NEW c \in 0 .. UsedCores - 1,
             NEW row \in Int, row \in StepOneRows(r, c, i)
      PROVE  In(row, r, i) /\ row - i * RowsPerSplit \in 0 .. m_total(i) - 1
    <2>1. In(row, r, i)
        <3>1. /\ row - From(r, i) \in Dealt(m_cur_rank(r, i), UsedCores, c)
              /\ c \in Nat /\ m_cur_rank(r, i) \in Nat
            BY Zenon, <1>2, <1>3
        <3> QED
            BY Zenon, <3>1, DealtOnce
    <2>2. r \in Nat
        BY <1>2
    <2> QED
        BY Zenon, <1>1, <2>1, <2>2, ShareOfRow DEF From
<1>4. SUFFICES ASSUME NEW row \in Rows
               PROVE  \E r \in Ranks, c \in 0 .. UsedCores - 1, i \in 0 .. comm_count - 1 :
                        /\ row \in StepOneRows(r, c, i)
                        /\ \A r2 \in Ranks, c2 \in 0 .. UsedCores - 1,
                              i2 \in 0 .. comm_count - 1 :
                             row \in StepOneRows(r2, c2, i2) => <<r2, c2, i2>> = <<r, c, i>>
    BY Zenon DEF EachRowReducedOnce
<1>5. row \in Int
    BY DEF Rows
<1>6. PICK i \in 0 .. comm_count - 1 : row - i * RowsPerSplit \in 0 .. m_total(i) - 1
    BY Zenon, Splits
<1>7. PICK r \in Ranks : In(row, r, i)
    BY Zenon, <1>1, <1>5, <1>6, ShareOfRow DEF From
<1>8. PICK c \in 0 .. UsedCores - 1 : row \in StepOneRows(r, c, i)
    <2>1. r \in Nat /\ m_cur_rank(r, i) \in Nat
        <3>1. r \in Nat
            BY DEF Ranks
        <3> QED
            BY Zenon, <1>1, <3>1, RankShare
    <2>2. PICK c \in 0 .. UsedCores - 1 :
            row - From(r, i) \in Dealt(m_cur_rank(r, i), UsedCores, c)
        BY Zenon, <1>7, <2>1, DealtOnce
    <2> QED
        BY Zenon, <1>2, <1>5, <2>2
<1>9. ASSUME NEW r2 \in Ranks, NEW c2 \in 0 .. UsedCores - 1, NEW i2 \in 0 .. comm_count - 1,
             row \in StepOneRows(r2, c2, i2)
      PROVE  r2 = r /\ c2 = c /\ i2 = i
    <2>1. In(row, r2, i2) /\ row - i2 * RowsPerSplit \in 0 .. m_total(i2) - 1
        BY Zenon, <1>3, <1>5, <1>9
    <2>2. i2 = i
        BY Zenon, <1>5, <1>6, <2>1, Splits
    <2>3. r \in Nat /\ r2 \in Nat /\ c \in Nat /\ c2 \in Nat
        BY DEF Ranks
    <2>4. r2 = r
        BY Zenon, <1>1, <1>5, <1>7, <2>1, <2>2, <2>3, ShareOfRow DEF From
    <2>5. c2 = c
        <3>1. /\ row - From(r, i) \in Dealt(m_cur_rank(r, i), UsedCores, c)
              /\ m_cur_rank(r, i) \in Nat
            BY Zenon, <1>2, <1>5, <1>8
        <3>2. row - From(r, i) \in Dealt(m_cur_rank(r, i), UsedCores, c2)
            BY Zenon, <1>2, <1>5, <1>9, <2>2, <2>4
        <3> QED
            BY Zenon, <2>3, <3>1, <3>2, DealtOnce
    <2> QED
        BY <2>2, <2>4, <2>5
<1> QED
    BY <1>8, <1>9

\* ParallelAllGather: when there is a core for each rank, each row of a split is
\* gathered by one core, from the rank that reduced it.
THEOREM GatheredFromItsReducerHolds ==
    ASSUME RankSize \in Nat \ {0}, UsedCores \in Nat, RankSize <= UsedCores, M \in Nat,
           RowsPerSplit \in Nat \ {0}
    PROVE  GatheredFromItsReducer
<1> DEFINE u == used_core_per_rank
           From(r, i) == i * RowsPerSplit + r * m_per_rank(i)
           In(row, r, i) == row - From(r, i) \in 0 .. m_cur_rank(r, i) - 1
<1>1. u \in Nat \ {0} /\ RankSize * u <= UsedCores /\ UsedCores \in Nat \ {0}
    <2>1. PICK m \in 0 .. RankSize - 1 : UsedCores = RankSize * u + m /\ u \in Nat
        BY Zenon, Division DEF used_core_per_rank
    <2>2. RankSize * u \in Nat /\ RankSize * 0 = 0
        BY <2>1
    <2> QED
        BY <2>1, <2>2
<1>2. ASSUME NEW i \in 0 .. comm_count - 1
      PROVE  i \in Nat /\ m_total(i) \in Nat
    <2>1. m_total(i) \in 1 .. RowsPerSplit
        BY Zenon, Splits
    <2> QED
        BY <2>1
<1>3. ASSUME NEW c \in 0 .. UsedCores - 1
      PROVE  /\ c \in Nat /\ gather_rank_id(c) \in Nat /\ c % u \in Nat /\ c % u < u
             /\ c = u * gather_rank_id(c) + (c % u)
    <2>1. c \in Nat
        OBVIOUS
    <2>2. /\ gather_rank_id(c) \in Nat /\ c % u \in 0 .. u - 1
          /\ c = u * gather_rank_id(c) + (c % u)
        BY Zenon, <1>1, <2>1, Division DEF gather_rank_id
    <2>3. u \in Nat
        BY <1>1
    <2> HIDE DEF u
    <2> QED
        BY <2>1, <2>2, <2>3
<1>4. ASSUME NEW i \in 0 .. comm_count - 1, NEW c \in 0 .. UsedCores - 1, NEW row \in Int
      PROVE  /\ row \in GatherRows(c, i) <=>
                  row - From(gather_rank_id(c), i)
                    \in Dealt(m_cur_rank(gather_rank_id(c), i), u, c % u)
             /\ m_cur_rank(gather_rank_id(c), i) \in Nat
    <2>1. m_cur_rank(gather_rank_id(c), i) \in Nat
        BY Zenon, <1>2, <1>3, RankShare
    <2>2. row \in GatherRows(c, i) <=>
            row - From(gather_rank_id(c), i)
              \in Dealt(m_cur_rank(gather_rank_id(c), i), u, c % u)
        BY Zenon, <1>1, <1>2, GatherWhere
    <2> QED
        BY <2>1, <2>2
<1> HIDE DEF From, u
<1>5. ASSUME NEW i \in 0 .. comm_count - 1, NEW c \in 0 .. UsedCores - 1, NEW row \in Int,
             row \in GatherRows(c, i)
      PROVE  In(row, gather_rank_id(c), i) /\ gather_rank_id(c) \in Ranks
    <2>1. In(row, gather_rank_id(c), i)
        BY Zenon, <1>1, <1>3, <1>4, <1>5, DealtOnce
    <2> QED
        BY Zenon, <1>2, <1>3, <2>1, ShareOfRow DEF From
<1>6. ASSUME NEW i \in 0 .. comm_count - 1,
             NEW row \in i * RowsPerSplit .. i * RowsPerSplit + m_total(i) - 1
      PROVE  \E c \in 0 .. UsedCores - 1 :
               /\ row \in GatherRows(c, i)
               /\ \A c2 \in 0 .. UsedCores - 1 : row \in GatherRows(c2, i) => c2 = c
    <2>1. row \in Int /\ row - i * RowsPerSplit \in 0 .. m_total(i) - 1
        <3>1. PICK a \in Nat : a = i * RowsPerSplit
            OBVIOUS
        <3> QED
            BY <1>2, <3>1
    <2>2. PICK r \in Ranks : In(row, r, i)
        BY Zenon, <1>2, <2>1, ShareOfRow DEF From
    <2>3. r \in Nat /\ r < RankSize
        BY DEF Ranks
    <2>4. m_cur_rank(r, i) \in Nat
        BY Zenon, <1>2, <2>3, RankShare
    <2>5. PICK sub \in 0 .. u - 1 : row - From(r, i) \in Dealt(m_cur_rank(r, i), u, sub)
        BY Zenon, <1>1, <2>2, <2>4, DealtOnce
    <2>6. PICK c \in Nat : c = u * r + sub
        BY <1>1, <2>3
    <2>7. c \in 0 .. UsedCores - 1
        <3>1. u \in Nat /\ u * r \in Nat /\ u * RankSize = RankSize * u
            BY <1>1, <2>3
        <3>2. u * r + u <= u * RankSize
            BY <2>3, <3>1, Monotone
        <3> QED
            BY <1>1, <2>6, <3>1, <3>2
    <2>8. gather_rank_id(c) = r /\ c % u = sub
        <3>1. PICK g \in Nat, t \in Nat : /\ g = gather_rank_id(c) /\ t = c % u /\ t < u
                                         /\ c = u * g + t
            BY Zenon, <1>3, <2>7
        <3>2. u \in Nat /\ u * g \in Nat /\ u * r \in Nat
            BY <1>1, <2>3
        <3>3. g = r
            <4>1. u * g <= c /\ c < u * g + u /\ u * r <= c /\ c < u * r + u
                BY <2>6, <3>1, <3>2
            <4>2. c \in Int
                OBVIOUS
            <4> QED
                BY <2>3, <3>2, <4>1, <4>2, Apart
        <3>4. t = sub
            BY <2>6, <3>1, <3>2, <3>3
        <3> QED
            BY <3>1, <3>3, <3>4
    <2>9. row \in GatherRows(c, i)
        BY Zenon, <1>4, <2>1, <2>5, <2>7, <2>8
    <2>10. ASSUME NEW c2 \in 0 .. UsedCores - 1, row \in GatherRows(c2, i)
           PROVE  c2 = c
        <3>1. In(row, gather_rank_id(c2), i)
            BY Zenon, <1>5, <2>1, <2>10
        <3>2. gather_rank_id(c2) = r
            BY Zenon, <1>2, <1>3, <2>1, <2>2, <2>3, <3>1, ShareOfRow DEF From
        <3>3. sub \in Nat
            OBVIOUS
        <3>4. c2 % u = sub
            BY Zenon, <1>1, <1>3, <1>4, <2>1, <2>4, <2>5, <2>10, <3>2, <3>3, DealtOnce
        <3> QED
            BY Zenon, <1>3, <2>6, <3>2, <3>4
    <2> QED
        BY Zenon, <2>7, <2>9, <2>10
<1>7. ASSUME NEW i \in 0 .. comm_count - 1, NEW c \in 0 .. UsedCores - 1,
             NEW row \in GatherRows(c, i)
      PROVE  /\ gather_rank_id(c) \in Ranks
             /\ \E c1 \in 0 .. UsedCores - 1 :
                  row \in StepOneRows(gather_rank_id(c), c1, i)
    <2>1. row \in Int
        BY <1>2, <1>3, <1>7 DEF GatherRows
    <2>2. In(row, gather_rank_id(c), i) /\ gather_rank_id(c) \in Ranks
        BY Zenon, <1>5, <2>1
    <2>3. gather_rank_id(c) \in Nat /\ m_cur_rank(gather_rank_id(c), i) \in Nat
        BY Zenon, <1>3, <1>4, <2>1
    <2>4. PICK c1 \in 0 .. UsedCores - 1 :
            row - From(gather_rank_id(c), i)
              \in Dealt(m_cur_rank(gather_rank_id(c), i), UsedCores, c1)
        BY Zenon, <1>1, <2>2, <2>3, DealtOnce
    <2>5. row \in StepOneRows(gather_rank_id(c), c1, i)
        BY Zenon, <1>1, <1>2, <2>1, <2>3, <2>4, StepOneWhere DEF From
    <2> QED
        BY Zenon, <2>2, <2>5
<1> QED
    BY Zenon, <1>6, <1>7 DEF GatheredFromItsReducer

\* Both together: whatever the ranks, the rows and the rows of a split, and with
\* a core for each rank at least (the code has 16 cores), every row is reduced once
\* and gathered once, from the rank that reduced it.
THEOREM RowsSharedHolds ==
    ASSUME RankSize \in Nat \ {0}, UsedCores \in Nat, RankSize <= UsedCores, M \in Nat,
           RowsPerSplit \in Nat \ {0}
    PROVE  RowsShared
<1>1. UsedCores \in Nat \ {0}
    OBVIOUS
<1> QED
    BY Zenon, <1>1, EachRowReducedOnceHolds, GatheredFromItsReducerHolds DEF RowsShared

================================================================================
