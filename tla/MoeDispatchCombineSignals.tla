--------------------- MODULE MoeDispatchCombineSignals ---------------------
(* What the cores of MoeDispatchCombine know of each other from the words   *)
(* they announce and wait for, for any number of ranks, cores, experts,     *)
(* tokens and launches: the invariant, and that every step preserves it.    *)
EXTENDS MoeDispatchCombine, TLAPS

(* Every word that is announced lies in a whole vector repeat and so gets   *)
(* its flag (statusFlag). A deployment without this waits for ever.         *)
EveryWordFlagged ==
  \A d \in Deployments :
    d.shared + (d.ranks - d.shared) * MoeExpertNumPerRank
      <= ((d.ranks * MoeExpertNumPerRank) \div d.repeat) * d.repeat

-----------------------------------------------------------------------------
(* How often core c of rank r has come past a step, over all launches.      *)
Passed(r, c, step) == launch[r] - (IF pc[r][c] > Place(step) THEN 0 ELSE 1)

(* Dispatch works on half 0 and combine on half 1.                          *)
InitStep(h) == IF h = 0 THEN "AlltoAllDispatch" ELSE "ExpertAlltoAll"
SetStep(h) == IF h = 0 THEN "SetStatus" ELSE "CombineSetStatus"
WaitStep(h) == IF h = 0 THEN "WaitDispatch" ELSE "CombineWait"

(* The words that core c of rank r announces on half h, each with the rank  *)
(* that has it, and the words of its own rank that the core waits for.      *)
Announced(r, c, h) ==
  IF h = 0
  THEN {StatusAddress(r, i) : i \in Share(SharedExpertRankNum + MoeExpertNum, AivNum, c)}
  ELSE {<<ep, r>> : ep \in Share(EpWorldSize, AivNum, c)}

Awaited(r, c, h) ==
  Share(IF h = 0 THEN rscvStatusNum(r) ELSE EpWorldSize, AivNum, c)

CountersOK ==
  /\ op \in Deployments
  /\ launch \in [Ranks -> Nat]
  /\ pc \in [Ranks -> [Cores -> 1 .. Ended]]
  /\ \A r \in Ranks, c \in Cores : launch[r] = 0 => pc[r][c] = Ended

(* The bit says which of the two Inits came last, and the flag of a half is *)
(* the parity of the Inits on it.                                           *)
BitsOK ==
  /\ data_state \in [Ranks -> [Cores -> {0, 1}]]
  /\ self_status \in [Ranks -> [Cores -> [{0, 1} -> {0, 1}]]]
  /\ \A r \in Ranks : \A c \in Cores :
       /\ data_state[r][c] = Passed(r, c, InitStep(0)) - Passed(r, c, InitStep(1))
       /\ \A h \in {0, 1} : self_status[r][c][h] = Passed(r, c, InitStep(h)) % 2

(* No core is past a barrier that another core of its rank is not past.     *)
Barriers == {i \in DOMAIN Kernel : Kernel[i] \in {"SyncAll", "GroupedMatmul"}}

BarriersOK ==
  \A r \in Ranks : \A c, d \in Cores : \A b \in Barriers :
    pc[r][c] > b => pc[r][d] > b

(* What one core knows of itself and the cores beside it.                   *)
PhasesOK == CountersOK /\ BitsOK /\ BarriersOK

(* The flag of a word: the parity of the announcements made by the core     *)
(* that announces it.                                                       *)
FlagsOK ==
  /\ DOMAIN status = Ranks \X {0, 1} \X Slots
  /\ \A r \in Ranks : \A c \in Cores : \A h \in {0, 1} : \A a \in Announced(r, c, h) :
       status[<<a[1], h, a[2]>>].flag = Passed(r, c, SetStep(h)) % 2

(* A core that has waited n times for a word has had it announced n times   *)
(* at least.                                                                *)
WaitsOK ==
  \A r, s \in Ranks : \A c, d \in Cores : \A h \in {0, 1} : \A w \in Awaited(r, c, h) :
    <<r, w>> \in Announced(s, d, h) =>
      Passed(r, c, WaitStep(h)) <= Passed(s, d, SetStep(h))

Inductive == PhasesOK /\ FlagsOK /\ WaitsOK

(* A core that finds the sum of the flags it waits for finds every flag.    *)
SumsTell ==
  \A r \in Ranks : \A c \in Cores : \A h \in {0, 1} :
    pc[r][c] = Place(WaitStep(h)) /\ FlagsArrived(r, c, Awaited(r, c, h)) =>
      \A w \in Awaited(r, c, h) : status[<<r, h, w>>].flag = launch[r] % 2

-----------------------------------------------------------------------------
(* The places of the kernel.                                                *)

(* The steps of Process, by number.                                         *)
LEMMA KernelFacts ==
  /\ DOMAIN Kernel = 1 .. 12
  /\ Ended = 13
  /\ \A i \in 1 .. 12 :
       /\ Kernel[i] = "AlltoAllDispatch" <=> i = 1
       /\ Kernel[i] = "SetStatus" <=> i = 3
       /\ Kernel[i] = "WaitDispatch" <=> i = 4
       /\ Kernel[i] = "LocalWindowCopy" <=> i = 6
       /\ Kernel[i] = "GroupedMatmul" <=> i = 7
       /\ Kernel[i] = "ExpertAlltoAll" <=> i = 8
       /\ Kernel[i] = "CombineSetStatus" <=> i = 9
       /\ Kernel[i] = "CombineWait" <=> i = 10
       /\ Kernel[i] = "CombineWindowCopy" <=> i = 12
       /\ Kernel[i] = "SyncAll" <=> i \in {2, 5, 11}
BY DEF Kernel, Ended

(* Where the steps are that the proof speaks of.                            *)
LEMMA Places ==
  /\ Place("AlltoAllDispatch") = 1 /\ Place("SetStatus") = 3
  /\ Place("WaitDispatch") = 4 /\ Place("LocalWindowCopy") = 6
  /\ Place("ExpertAlltoAll") = 8 /\ Place("CombineSetStatus") = 9
  /\ Place("CombineWait") = 10 /\ Barriers = {2, 5, 7, 11}
<1>1. \A i : i \in DOMAIN Kernel <=> i \in 1 .. 12
  BY KernelFacts
<1>2. Place("AlltoAllDispatch") = 1
  BY <1>1, KernelFacts DEF Place
<1>3. Place("SetStatus") = 3
  BY <1>1, KernelFacts DEF Place
<1>4. Place("WaitDispatch") = 4
  BY <1>1, KernelFacts DEF Place
<1>5. Place("LocalWindowCopy") = 6
  BY <1>1, KernelFacts DEF Place
<1>6. Place("ExpertAlltoAll") = 8
  BY <1>1, KernelFacts DEF Place
<1>7. Place("CombineSetStatus") = 9
  BY <1>1, KernelFacts DEF Place
<1>8. Place("CombineWait") = 10
  BY <1>1, KernelFacts DEF Place
<1>9. Barriers = {2, 5, 7, 11}
  BY <1>1, KernelFacts DEF Barriers
<1> QED
  BY Zenon, <1>2, <1>3, <1>4, <1>5, <1>6, <1>7, <1>8, <1>9

-----------------------------------------------------------------------------
(* The shares.                                                              *)

(* Division with remainder.                                                 *)
LEMMA Division ==
  ASSUME NEW a \in Nat, NEW b \in Nat \ {0}
  PROVE  /\ a \div b \in Nat /\ a % b \in 0 .. b - 1
         /\ a = b * (a \div b) + (a % b)
OBVIOUS

(* Multiplication is monotone.                                              *)
LEMMA Monotone ==
  ASSUME NEW q \in Nat, NEW a \in Nat, NEW b \in Nat, a < b
  PROVE  q * a + q <= q * b
<1>1. q * (b - a - 1) >= 0
  OBVIOUS
<1>2. q * (b - a - 1) = q * b - q * a - q
  OBVIOUS
<1> QED
  BY <1>1, <1>2

(* The shares of n workers partition 0 .. total - 1.                        *)
LEMMA ShareFacts ==
  ASSUME NEW total \in Nat, NEW n \in Nat \ {0}
  PROVE  /\ \A c \in 0 .. n - 1 : Share(total, n, c) \subseteq 0 .. total - 1
         /\ \A x \in 0 .. total - 1 : \E c \in 0 .. n - 1 : x \in Share(total, n, c)
         /\ \A c, d \in 0 .. n - 1 :
              c # d => Share(total, n, c) \cap Share(total, n, d) = {}
<1> DEFINE q == total \div n
           m == total % n
           least(c) == IF c < m THEN c ELSE m
           start(c) == q * c + least(c)
<1>1. q \in Nat /\ m \in 0 .. n - 1 /\ total = n * q + m
  BY Zenon, Division
<1>2. \A c \in Nat : Share(total, n, c)
        = start(c) .. start(c) + q + (IF c < m THEN 1 ELSE 0) - 1
  BY Zenon DEF Share
<1> HIDE DEF q, m
<1>3. \A c \in Nat : start(c) \in Nat
                   /\ start(c + 1) = start(c) + q + (IF c < m THEN 1 ELSE 0)
  BY <1>1
<1>9. \A c \in Nat : \A x :
        x \in Share(total, n, c) <=> x \in Int /\ start(c) <= x /\ x < start(c + 1)
  <2> TAKE c \in Nat
  <2>1. start(c) \in Nat /\ start(c + 1) = start(c) + q + (IF c < m THEN 1 ELSE 0)
    BY Zenon, <1>3
  <2>2. Share(total, n, c) = start(c) .. start(c) + q + (IF c < m THEN 1 ELSE 0) - 1
    BY Zenon, <1>2
  <2> HIDE DEF start
  <2> QED
    BY <1>1, <2>1, <2>2
<1>4. ASSUME NEW c \in Nat, NEW d \in Nat, c < d
      PROVE  start(c + 1) <= start(d)
  <2>1. q * c + q <= q * d
    BY Zenon, <1>1, <1>4, Monotone
  <2>2. q * (c + 1) = q * c + q
    BY <1>1
  <2>3. least(c + 1) <= least(d)
    BY <1>1, <1>4
  <2>4. /\ q * (c + 1) \in Int /\ q * d \in Int
        /\ least(c + 1) \in Int /\ least(d) \in Int
    BY <1>1
  <2>5. start(c + 1) = q * (c + 1) + least(c + 1) /\ start(d) = q * d + least(d)
    BY Zenon
  <2> HIDE DEF least, start
  <2> QED
    BY <2>1, <2>2, <2>3, <2>4, <2>5
<1>5. start(n) = total
  BY <1>1
<1> HIDE DEF start
<1>6. ASSUME NEW c \in 0 .. n - 1
      PROVE  Share(total, n, c) \subseteq 0 .. total - 1
  <2>1. c + 1 = n \/ start(c + 1 + 1) <= start(n)
    BY <1>4
  <2>2. start(c + 1) <= start(c + 1 + 1)
    BY <1>1, <1>3
  <2>3. start(c) \in Nat /\ start(c + 1) \in Nat /\ start(c + 1 + 1) \in Nat
    BY <1>3
  <2>4. start(c + 1) <= total
    BY <1>5, <2>1, <2>2, <2>3
  <2> QED
    BY <1>9, <2>3, <2>4
<1>7. ASSUME NEW c \in 0 .. n - 1, NEW d \in 0 .. n - 1, c < d
      PROVE  Share(total, n, c) \cap Share(total, n, d) = {}
  <2>1. start(c) \in Nat /\ start(c + 1) \in Nat /\ start(d) \in Nat
        /\ start(c + 1) <= start(d)
    BY <1>3, <1>4, <1>7
  <2> QED
    BY <1>9, <2>1
<1>8. ASSUME NEW x \in 0 .. total - 1
      PROVE  \E c \in 0 .. n - 1 : x \in Share(total, n, c)
  <2>1. CASE x < (q + 1) * m
    <3> DEFINE c == x \div (q + 1)
    <3>0. PICK b \in Nat \ {0} : b = q + 1
      BY <1>1
    <3>8. x \in Nat
      OBVIOUS
    <3>9. x \div b \in Nat /\ x = b * (x \div b) + (x % b) /\ x % b \in 0 .. b - 1
      BY Zenon, <3>8, Division
    <3>1. c \in Nat /\ x = (q + 1) * c + (x % (q + 1)) /\ x % (q + 1) \in 0 .. q
      BY <1>1, <3>0, <3>9
    <3> HIDE DEF c
    <3>2. c < m
      <4>1. m < c => (q + 1) * m + (q + 1) <= (q + 1) * c
        BY <1>1, <3>1, Monotone
      <4>2. (q + 1) * m \in Nat /\ (q + 1) * c \in Nat
        BY <1>1, <3>1
      <4> QED
        BY <1>1, <2>1, <3>1, <4>1, <4>2
    <3>3. start(c) = (q + 1) * c
      BY <1>1, <3>1, <3>2 DEF start
    <3>4. x \in start(c) .. start(c) + q
      BY <1>1, <3>1, <3>3
    <3>5. start(c + 1) = start(c) + q + 1 /\ start(c) \in Nat
      BY Zenon, <1>1, <1>3, <3>1, <3>2
    <3>6. c \in 0 .. n - 1
      BY <1>1, <3>1, <3>2
    <3> QED
      BY <1>1, <1>9, <3>1, <3>4, <3>5, <3>6
  <2>2. CASE x >= (q + 1) * m
    <3> DEFINE y == x - (q + 1) * m
               k == y \div q
    <3>1. /\ (q + 1) * m \in Nat /\ y \in Nat /\ n - m \in Nat
          /\ y < q * (n - m)
      BY <1>1, <2>2
    <3>2. q # 0
      BY <1>1, <3>1
    <3> HIDE DEF y
    <3>3. k \in Nat /\ y = q * k + (y % q) /\ y % q \in 0 .. q - 1
      BY Zenon, <1>1, <3>1, <3>2, Division
    <3> HIDE DEF k
    <3>4. k < n - m
      <4>1. n - m < k => q * (n - m) + q <= q * k
        BY Zenon, <1>1, <3>1, <3>3, Monotone
      <4>2. q * (n - m) \in Nat /\ q * k \in Nat
        BY <1>1, <3>1, <3>3
      <4> QED
        BY <1>1, <3>1, <3>3, <4>1, <4>2
    <3>5. start(m + k) = (q + 1) * m + q * k
      BY <1>1, <3>3 DEF start
    <3>6. x \in start(m + k) .. start(m + k) + q - 1
      BY <1>1, <3>1, <3>3, <3>5 DEF y
    <3>7. m + k \in 0 .. n - 1 /\ ~(m + k < m)
      BY <1>1, <3>3, <3>4
    <3>8. start(m + k + 1) = start(m + k) + q /\ start(m + k) \in Nat
      BY <1>1, <1>3, <3>3, <3>7
    <3> QED
      BY <1>1, <1>9, <3>6, <3>7, <3>8
  <2> QED
    BY <1>1, <2>1, <2>2
<1> QED
  BY <1>6, <1>7, <1>8

-----------------------------------------------------------------------------
(* The words.                                                               *)

(* Quotient and remainder are the only ones.                                *)
LEMMA DivisionUnique ==
  ASSUME NEW b \in Nat \ {0}, NEW x \in Nat, NEW y \in 0 .. b - 1
  PROVE  (b * x + y) \div b = x /\ (b * x + y) % b = y
<1>1. PICK a \in Nat : a = b * x + y
  OBVIOUS
<1>2. PICK q \in Nat, m \in 0 .. b - 1 : q = a \div b /\ m = a % b /\ a = b * q + m
  BY Zenon, Division
<1>3. b * q \in Nat /\ b * x \in Nat
  OBVIOUS
<1>4. ~(q < x)
  <2>1. q < x => b * q + b <= b * x
    BY Zenon, Monotone
  <2> QED
    BY <1>1, <1>2, <1>3, <2>1
<1>5. ~(x < q)
  <2>1. x < q => b * x + b <= b * q
    BY Zenon, Monotone
  <2> QED
    BY <1>1, <1>2, <1>3, <2>1
<1>6. q = x
  BY <1>4, <1>5
<1>7. m = y
  BY <1>1, <1>2, <1>3, <1>6
<1> QED
  BY Zenon, <1>1, <1>2, <1>6, <1>7

(* A number below b * n has a quotient below n.                             *)
LEMMA DivisionBound ==
  ASSUME NEW b \in Nat \ {0}, NEW n \in Nat, NEW a \in Nat, a < b * n
  PROVE  a \div b < n
<1>1. PICK q \in Nat, m \in 0 .. b - 1 : q = a \div b /\ a = b * q + m
  BY Zenon, Division
<1>2. b * q \in Nat /\ b * n \in Nat
  OBVIOUS
<1>3. n < q => b * n + b <= b * q
  BY Zenon, Monotone
<1> QED
  BY <1>1, <1>2, <1>3

(* The sizes of the deployment.                                             *)
LEMMA OpFacts ==
  ASSUME op \in Deployments
  PROVE  /\ EpWorldSize \in Nat \ {0} /\ AivNum \in Nat \ {0}
         /\ MoeExpertNumPerRank \in Nat \ {0}
         /\ SharedExpertRankNum \in 0 .. EpWorldSize - 1
         /\ Ranks = 0 .. EpWorldSize - 1 /\ Cores = 0 .. AivNum - 1
         /\ Slots = 0 .. EpWorldSize * MoeExpertNumPerRank - 1
         /\ MoeExpertNum = MoeExpertNumPerRank * (EpWorldSize - SharedExpertRankNum)
         /\ MoeExpertNum \in Nat
         /\ \A r \in Ranks : rscvStatusNum(r) = IF r < SharedExpertRankNum THEN EpWorldSize
                              ELSE EpWorldSize * MoeExpertNumPerRank
<1>1. /\ op.ranks \in Nat \ {0} /\ op.shared \in 0 .. op.ranks - 1
      /\ AivNum \in Nat \ {0} /\ MoeExpertNumPerRank \in Nat \ {0}
  BY Zenon, MoeAssumption
<1>2. /\ EpWorldSize = op.ranks /\ SharedExpertRankNum = op.shared
      /\ RecvWinBlockNum = op.ranks * MoeExpertNumPerRank
  BY Zenon DEF EpWorldSize, SharedExpertRankNum, RecvWinBlockNum
<1>3. /\ MoeExpertNum = MoeExpertNumPerRank * (EpWorldSize - SharedExpertRankNum)
      /\ MoeExpertNum \in Nat
  <2>1. EpWorldSize - SharedExpertRankNum \in Nat
    BY <1>1, <1>2
  <2> QED
    BY <1>1, <2>1 DEF MoeExpertNum
<1> QED
  BY Zenon, <1>1, <1>2, <1>3 DEF Ranks, Cores, Slots, rscvStatusNum, isShareExpertRank

(* The word of entry i: one of the rank's own for a shared expert, one of   *)
(* the expert's for the others, whatever number of experts a rank has.      *)
LEMMA AddressFacts ==
  ASSUME op \in Deployments, NEW r \in Ranks,
         NEW i \in 0 .. (SharedExpertRankNum + MoeExpertNum) - 1
  PROVE  /\ i < SharedExpertRankNum => StatusAddress(r, i) = <<i, r>>
         /\ i >= SharedExpertRankNum =>
              \E x \in 0 .. EpWorldSize - SharedExpertRankNum - 1 :
              \E y \in 0 .. MoeExpertNumPerRank - 1 :
                /\ i = SharedExpertRankNum + (MoeExpertNumPerRank * x + y)
                /\ StatusAddress(r, i) = <<x + SharedExpertRankNum, EpWorldSize * y + r>>
<1> DEFINE W == EpWorldSize
           S == SharedExpertRankNum
           M == MoeExpertNumPerRank
<1>1. /\ W \in Nat \ {0} /\ M \in Nat \ {0} /\ S \in 0 .. W - 1 /\ r \in 0 .. W - 1
      /\ MoeExpertNum = M * (W - S) /\ MoeExpertNum \in Nat
  BY Zenon, OpFacts
<1> HIDE DEF W, S, M
<1>2. StatusAddress(r, i) = IF M > 1 /\ i >= S
                            THEN <<(i - S) \div M + S, r + ((i - S) % M) * W>> ELSE <<i, r>>
  BY Zenon DEF StatusAddress, W, S, M
<1>3. ASSUME i < S PROVE StatusAddress(r, i) = <<i, r>>
  BY <1>1, <1>2, <1>3
<1>4. ASSUME i >= S
      PROVE  \E x \in 0 .. W - S - 1 : \E y \in 0 .. M - 1 :
               i = S + (M * x + y) /\ StatusAddress(r, i) = <<x + S, W * y + r>>
  <2>1. PICK e \in Nat : e = i - S /\ e < M * (W - S) /\ i = S + e
    BY <1>1, <1>4 DEF S
  <2>6. M \in Nat \ {0}
    BY Zenon, <1>1
  <2>2. PICK x \in Nat, y \in 0 .. M - 1 : x = e \div M /\ y = e % M /\ e = M * x + y
    BY Zenon, <2>6, Division
  <2>3. x < W - S
    <3>1. W - S \in Nat
      BY <1>1
    <3> QED
      BY Zenon, <1>1, <2>1, <2>2, <3>1, DivisionBound
  <2>4. StatusAddress(r, i) = <<x + S, W * y + r>>
    <3>1. CASE M > 1
      <4>1. r + y * W = W * y + r
        BY <1>1
      <4> QED
        BY Zenon, <1>2, <1>4, <2>1, <2>2, <3>1, <4>1
    <3>2. CASE ~(M > 1)
      <4>1. M = 1
        BY <1>1, <3>2
      <4>2. y = 0 /\ e = x /\ i = x + S /\ W * y + r = r
        BY <1>1, <2>1, <2>2, <4>1
      <4> QED
        BY Zenon, <1>2, <3>2, <4>2
    <3> QED
      BY Zenon, <3>1, <3>2
  <2>5. x \in 0 .. W - S - 1 /\ i = S + (M * x + y)
    BY <1>1, <2>1, <2>2, <2>3
  <2> QED
    BY Zenon, <2>2, <2>4, <2>5
<1> QED
  BY Zenon, <1>3, <1>4 DEF W, S, M

(* Different ranks and entries have different words.                        *)
LEMMA AddressUnique ==
  ASSUME op \in Deployments, NEW r \in Ranks, NEW s \in Ranks,
         NEW i \in 0 .. (SharedExpertRankNum + MoeExpertNum) - 1,
         NEW j \in 0 .. (SharedExpertRankNum + MoeExpertNum) - 1,
         StatusAddress(r, i) = StatusAddress(s, j)
  PROVE  r = s /\ i = j
<1>1. /\ EpWorldSize \in Nat \ {0} /\ MoeExpertNumPerRank \in Nat \ {0}
      /\ SharedExpertRankNum \in Nat
      /\ r \in 0 .. EpWorldSize - 1 /\ s \in 0 .. EpWorldSize - 1
      /\ i \in Nat /\ j \in Nat
  BY OpFacts
<1>2. CASE i < SharedExpertRankNum /\ j < SharedExpertRankNum
  BY <1>2, AddressFacts
<1>3. CASE i >= SharedExpertRankNum /\ j >= SharedExpertRankNum
  <2>1. PICK x \in Nat, y \in 0 .. MoeExpertNumPerRank - 1 :
          /\ i = SharedExpertRankNum + (MoeExpertNumPerRank * x + y)
          /\ StatusAddress(r, i) = <<x + SharedExpertRankNum, EpWorldSize * y + r>>
    BY <1>3, AddressFacts
  <2>2. PICK u \in Nat, v \in 0 .. MoeExpertNumPerRank - 1 :
          /\ j = SharedExpertRankNum + (MoeExpertNumPerRank * u + v)
          /\ StatusAddress(s, j) = <<u + SharedExpertRankNum, EpWorldSize * v + s>>
    BY <1>3, AddressFacts
  <2>3. x = u /\ EpWorldSize * y + r = EpWorldSize * v + s
    BY <1>1, <2>1, <2>2
  <2>4. y \in Nat /\ v \in Nat
    BY <1>1
  <2>5. PICK b \in Nat \ {0} : b = EpWorldSize /\ r \in 0 .. b - 1 /\ s \in 0 .. b - 1
    BY Zenon, <1>1
  <2>7. (b * y + r) \div b = y /\ (b * y + r) % b = r
    BY Zenon, <2>4, <2>5, DivisionUnique
  <2>8. (b * v + s) \div b = v /\ (b * v + s) % b = s
    BY Zenon, <2>4, <2>5, DivisionUnique
  <2>6. y = v /\ r = s
    BY Zenon, <2>3, <2>5, <2>7, <2>8
  <2> QED
    BY Zenon, <2>1, <2>2, <2>3, <2>6
<1>4. ASSUME NEW q \in Ranks, NEW k \in 0 .. (SharedExpertRankNum + MoeExpertNum) - 1,
             k >= SharedExpertRankNum
      PROVE  StatusAddress(q, k)[1] >= SharedExpertRankNum
  <2>1. PICK x \in Nat : \E w : StatusAddress(q, k) = <<x + SharedExpertRankNum, w>>
    BY <1>4, AddressFacts
  <2> QED
    BY <1>1, <2>1
<1>5. ASSUME NEW q \in Ranks, NEW k \in 0 .. (SharedExpertRankNum + MoeExpertNum) - 1,
             k < SharedExpertRankNum
      PROVE  StatusAddress(q, k)[1] = k
  BY <1>5, AddressFacts
<1>6. CASE (i < SharedExpertRankNum) # (j < SharedExpertRankNum)
  BY <1>1, <1>4, <1>5, <1>6
<1> QED
  BY <1>1, <1>2, <1>3, <1>6

(* Every word that a rank has is the word of some entry of the rank it      *)
(* belongs to.                                                              *)
LEMMA AddressExists ==
  ASSUME op \in Deployments, NEW r \in Ranks, NEW w \in 0 .. rscvStatusNum(r) - 1
  PROVE  \E s \in Ranks : \E i \in 0 .. (SharedExpertRankNum + MoeExpertNum) - 1 :
           /\ StatusAddress(s, i) = <<r, w>>
           /\ w \in Ranks => s = w
<1> DEFINE W == EpWorldSize
           S == SharedExpertRankNum
           M == MoeExpertNumPerRank
<1>1. /\ W \in Nat \ {0} /\ M \in Nat \ {0} /\ S \in 0 .. W - 1 /\ r \in 0 .. W - 1
      /\ MoeExpertNum = M * (W - S) /\ MoeExpertNum \in Nat
      /\ Ranks = 0 .. W - 1
      /\ rscvStatusNum(r) = IF r < S THEN W ELSE W * M
      /\ W * M \in Nat
  BY OpFacts
<1>2. \A s \in Ranks : \A i \in 0 .. (S + MoeExpertNum) - 1 :
        /\ i < S => StatusAddress(s, i) = <<i, s>>
        /\ i >= S =>
             \E x \in 0 .. W - S - 1 : \E y \in 0 .. M - 1 :
               i = S + (M * x + y) /\ StatusAddress(s, i) = <<x + S, W * y + s>>
  BY Zenon, AddressFacts
<1> HIDE DEF W, S, M
<1>3. CASE r < S
  <2>1. w \in Ranks /\ r \in 0 .. (S + MoeExpertNum) - 1
    BY <1>1, <1>3
  <2>2. StatusAddress(w, r) = <<r, w>>
    BY Zenon, <1>2, <1>3, <2>1
  <2> QED
    BY Zenon, <2>1, <2>2 DEF S
<1>4. CASE r >= S
  <2>1. w \in Nat /\ w < W * M
    BY <1>1, <1>4
  <2>16. W \in Nat \ {0}
    BY Zenon, <1>1
  <2>2. PICK q \in Nat, s \in 0 .. W - 1 : q = w \div W /\ s = w % W /\ w = W * q + s
    BY Zenon, <2>1, <2>16, Division
  <2>3. q < M
    BY Zenon, <1>1, <2>1, <2>2, DivisionBound
  <2>4. PICK k \in Nat : k = r - S /\ k < W - S
    BY <1>1, <1>4
  <2>5. PICK i \in Nat : i = S + (M * k + q)
    BY <1>1
  <2>6. M * k + M <= M * (W - S) /\ M * k \in Nat
    <3>1. W - S \in Nat
      BY <1>1
    <3> QED
      BY <1>1, <2>4, <3>1, Monotone
  <2>7. i \in 0 .. (S + MoeExpertNum) - 1 /\ i >= S
    BY <1>1, <2>3, <2>5, <2>6
  <2>14. s \in Ranks
    BY Zenon, <1>1
  <2>8. PICK x \in 0 .. W - S - 1, y \in 0 .. M - 1 :
          i = S + (M * x + y) /\ StatusAddress(s, i) = <<x + S, W * y + s>>
    BY Zenon, <1>2, <2>7, <2>14
  <2>15. x \in Nat
    BY <1>1
  <2>9. q \in 0 .. M - 1 /\ M * x + y = M * k + q
    <3>1. M * x \in Nat /\ y \in Nat
      BY <1>1, <2>15
    <3> QED
      BY <1>1, <2>3, <2>5, <2>6, <2>8, <3>1
  <2>10. /\ (M * x + y) \div M = x /\ (M * x + y) % M = y
         /\ (M * k + q) \div M = k /\ (M * k + q) % M = q
    BY Zenon, <1>1, <2>9, <2>15, DivisionUnique
  <2>11. x = k /\ y = q
    BY Zenon, <2>9, <2>10
  <2>12. StatusAddress(s, i) = <<r, w>>
    <3>1. k + S = r
      BY <1>1, <2>4
    <3> QED
      BY Zenon, <2>2, <2>8, <2>11, <3>1
  <2>13. w \in Ranks => s = w
    <3>1. q # 0 => W * q >= W
      BY <1>1
    <3>2. q = 0 => W * q = 0
      BY <1>1
    <3>3. W * q \in Nat
      BY <1>1
    <3> QED
      BY <1>1, <2>2, <3>1, <3>2, <3>3
  <2> QED
    BY Zenon, <2>7, <2>12, <2>13, <2>14 DEF S
<1> QED
  BY <1>1, <1>3, <1>4

(* Every announced word has one core that announces it, every word that is  *)
(* waited for is announced, and every rank waits for a word from every rank *)
(* on each half.                                                            *)
LEMMA SignalFacts ==
  ASSUME op \in Deployments, NEW h \in {0, 1}
  PROVE  /\ \A r, s \in Ranks : \A c, d \in Cores : \A a :
              a \in Announced(r, c, h) /\ a \in Announced(s, d, h) => r = s /\ c = d
         /\ \A r \in Ranks : \A c \in Cores : \A w \in Awaited(r, c, h) :
              \E s \in Ranks : \E d \in Cores : <<r, w>> \in Announced(s, d, h)
         /\ \A r, s \in Ranks : \E c, d \in Cores : \E w \in Awaited(r, c, h) :
              <<r, w>> \in Announced(s, d, h)
         /\ \A r \in Ranks : \A c \in Cores : \E n \in Nat : Awaited(r, c, h) \subseteq 0 .. n - 1
<1> DEFINE E == SharedExpertRankNum + MoeExpertNum
           words(r) == IF h = 0 THEN rscvStatusNum(r) ELSE EpWorldSize
<1>1. /\ EpWorldSize \in Nat \ {0} /\ AivNum \in Nat \ {0} /\ E \in Nat
      /\ Ranks = 0 .. EpWorldSize - 1 /\ Cores = 0 .. AivNum - 1
  BY OpFacts
<1>2. \A r \in Ranks : rscvStatusNum(r) \in Nat /\ EpWorldSize <= rscvStatusNum(r)
  <2>1. /\ EpWorldSize * MoeExpertNumPerRank \in Nat
        /\ EpWorldSize <= EpWorldSize * MoeExpertNumPerRank
    BY OpFacts
  <2>2. \A r \in Ranks : rscvStatusNum(r) \in {EpWorldSize, EpWorldSize * MoeExpertNumPerRank}
    BY Zenon, OpFacts
  <2>3. EpWorldSize \in Nat
    BY <1>1
  <2> QED
    BY <2>1, <2>2, <2>3
<1>3. /\ \A c \in Cores : Share(E, AivNum, c) \subseteq 0 .. E - 1
      /\ \A i \in 0 .. E - 1 : \E c \in Cores : i \in Share(E, AivNum, c)
      /\ \A c, d \in Cores : c # d => Share(E, AivNum, c) \cap Share(E, AivNum, d) = {}
  BY Zenon, <1>1, ShareFacts
<1>4. /\ \A c \in Cores : Share(EpWorldSize, AivNum, c) \subseteq Ranks
      /\ \A s \in Ranks : \E c \in Cores : s \in Share(EpWorldSize, AivNum, c)
      /\ \A c, d \in Cores :
           c # d => Share(EpWorldSize, AivNum, c) \cap Share(EpWorldSize, AivNum, d) = {}
  <2>1. EpWorldSize \in Nat
    BY Zenon, <1>1
  <2> QED
    BY Zenon, <1>1, <2>1, ShareFacts
<1>5. \A r \in Ranks :
        /\ words(r) \in Nat /\ Ranks \subseteq 0 .. words(r) - 1
        /\ \A c \in Cores : Awaited(r, c, h) \subseteq 0 .. words(r) - 1
        /\ \A w \in 0 .. words(r) - 1 : \E c \in Cores : w \in Awaited(r, c, h)
  <2> TAKE r \in Ranks
  <2>1. words(r) \in Nat /\ Ranks \subseteq 0 .. words(r) - 1
    BY <1>1, <1>2
  <2> HIDE DEF words
  <2>2. \A c : Awaited(r, c, h) = Share(words(r), AivNum, c)
    BY Zenon DEF Awaited, words
  <2>3. /\ \A c \in Cores : Share(words(r), AivNum, c) \subseteq 0 .. words(r) - 1
        /\ \A w \in 0 .. words(r) - 1 : \E c \in Cores : w \in Share(words(r), AivNum, c)
    BY Zenon, <1>1, <2>1, ShareFacts
  <2> QED
    BY Zenon, <2>1, <2>2, <2>3
<1> HIDE DEF E, words
<1>6. ASSUME NEW r \in Ranks, NEW s \in Ranks, NEW c \in Cores, NEW d \in Cores, NEW a,
             a \in Announced(r, c, h), a \in Announced(s, d, h)
      PROVE  r = s /\ c = d
  <2>1. CASE h = 0
    <3>1. PICK i \in Share(E, AivNum, c) : a = StatusAddress(r, i)
      BY Zenon, <1>6, <2>1 DEF Announced, E
    <3>2. PICK j \in Share(E, AivNum, d) : a = StatusAddress(s, j)
      BY Zenon, <1>6, <2>1 DEF Announced, E
    <3>3. i \in 0 .. E - 1 /\ j \in 0 .. E - 1
      BY Zenon, <1>3
    <3>5. StatusAddress(r, i) = StatusAddress(s, j)
      BY Zenon, <3>1, <3>2
    <3>4. r = s /\ i = j
      BY <3>3, <3>5, AddressUnique DEF E
    <3> QED
      BY Zenon, <1>3, <3>4
  <2>2. CASE h = 1
    <3>1. PICK i \in Share(EpWorldSize, AivNum, c) : a = <<i, r>>
      BY <1>6, <2>2 DEF Announced
    <3>2. PICK j \in Share(EpWorldSize, AivNum, d) : a = <<j, s>>
      BY <1>6, <2>2 DEF Announced
    <3>3. r = s /\ i = j
      BY <3>1, <3>2
    <3> QED
      BY Zenon, <1>4, <3>3
  <2> QED
    BY Zenon, <2>1, <2>2
<1>7. ASSUME NEW r \in Ranks, NEW w \in 0 .. words(r) - 1
      PROVE  \E s \in Ranks : \E d \in Cores :
               <<r, w>> \in Announced(s, d, h) /\ (w \in Ranks => s = w)
  <2>1. CASE h = 0
    <3>1. PICK s \in Ranks, i \in 0 .. E - 1 :
            StatusAddress(s, i) = <<r, w>> /\ (w \in Ranks => s = w)
      BY Zenon, <2>1, AddressExists DEF words, E
    <3>2. PICK d \in Cores : i \in Share(E, AivNum, d)
      BY Zenon, <1>3
    <3>3. <<r, w>> \in Announced(s, d, h)
      BY Zenon, <2>1, <3>1, <3>2 DEF Announced, E
    <3> QED
      BY Zenon, <3>1, <3>3
  <2>2. CASE h = 1
    <3>1. w \in Ranks
      BY <1>1, <2>2 DEF words
    <3>2. PICK d \in Cores : r \in Share(EpWorldSize, AivNum, d)
      BY Zenon, <1>4
    <3>3. <<r, w>> \in Announced(w, d, h)
      BY <2>2, <3>2 DEF Announced
    <3> QED
      BY Zenon, <3>1, <3>3
  <2> QED
    BY Zenon, <2>1, <2>2
<1>8. ASSUME NEW r \in Ranks, NEW s \in Ranks
      PROVE  \E c, d \in Cores : \E w \in Awaited(r, c, h) : <<r, w>> \in Announced(s, d, h)
  <2>1. s \in 0 .. words(r) - 1
    BY Zenon, <1>5
  <2>2. PICK d \in Cores : <<r, s>> \in Announced(s, d, h)
    BY Zenon, <1>7, <2>1
  <2> QED
    BY Zenon, <1>5, <2>1, <2>2
<1>10. \A r \in Ranks : \A c \in Cores : \A w \in Awaited(r, c, h) :
         \E s \in Ranks : \E d \in Cores : <<r, w>> \in Announced(s, d, h)
  BY Zenon, <1>5, <1>7
<1>9. \A r \in Ranks : \A c \in Cores : \E n \in Nat : Awaited(r, c, h) \subseteq 0 .. n - 1
  BY Zenon, <1>5
<1> QED
  BY Zenon, <1>6, <1>8, <1>9, <1>10

(* An announced word is a word of the rank that is told.                    *)
LEMMA AnnouncedPlaces ==
  ASSUME op \in Deployments, NEW h \in {0, 1}, NEW r \in Ranks, NEW c \in Cores,
         NEW a \in Announced(r, c, h)
  PROVE  a \in Ranks \X Slots
<1> DEFINE W == EpWorldSize
           S == SharedExpertRankNum
           M == MoeExpertNumPerRank
<1>1. /\ W \in Nat \ {0} /\ M \in Nat \ {0} /\ S \in 0 .. W - 1 /\ r \in 0 .. W - 1
      /\ MoeExpertNum \in Nat /\ Ranks = 0 .. W - 1 /\ Slots = 0 .. W * M - 1
      /\ AivNum \in Nat \ {0} /\ Cores = 0 .. AivNum - 1
  BY Zenon, OpFacts
<1>2. W * M \in Nat /\ W <= W * M
  BY <1>1
<1>3. CASE h = 0
  <2>1. PICK i \in Share(S + MoeExpertNum, AivNum, c) : a = StatusAddress(r, i)
    BY Zenon, <1>3 DEF Announced
  <2>2. S + MoeExpertNum \in Nat
    BY <1>1
  <2>3. i \in 0 .. (S + MoeExpertNum) - 1
    BY Zenon, <1>1, <2>2, ShareFacts
  <2>4. CASE i < S
    <3>1. a = <<i, r>>
      BY Zenon, <2>1, <2>3, <2>4, AddressFacts
    <3>2. i \in 0 .. W - 1
      BY <1>1, <2>3, <2>4
    <3> QED
      BY <1>1, <1>2, <3>1, <3>2
  <2>5. CASE i >= S
    <3>1. PICK x \in 0 .. W - S - 1, y \in 0 .. M - 1 : a = <<x + S, W * y + r>>
      BY Zenon, <2>1, <2>3, <2>5, AddressFacts
    <3> HIDE DEF W, S, M
    <3>2. W * y + W <= W * M /\ W * y \in Nat /\ y \in Nat
      BY <1>1, Monotone
    <3>3. W * y + r \in 0 .. W * M - 1 /\ x + S \in 0 .. W - 1
      BY <1>1, <1>2, <3>2
    <3> QED
      BY Zenon, <1>1, <3>1, <3>3
  <2> QED
    BY <1>1, <2>3, <2>4, <2>5
<1>4. CASE h = 1
  <2>1. PICK i \in Share(W, AivNum, c) : a = <<i, r>>
    BY <1>4 DEF Announced
  <2>2. W \in Nat
    BY Zenon, <1>1
  <2>3. i \in 0 .. W - 1
    BY Zenon, <1>1, <2>2, ShareFacts
  <2> QED
    BY <1>1, <1>2, <2>1, <2>3
<1> QED
  BY Zenon, <1>3, <1>4

-----------------------------------------------------------------------------
(* How a step changes the counts.                                           *)

CountedSteps == {"AlltoAllDispatch", "SetStatus", "WaitDispatch",
                 "ExpertAlltoAll", "CombineSetStatus", "CombineWait"}

(* Core c of rank r comes past the step, and no other core past any.        *)
Counts(r, c, step) ==
  \A q \in Ranks : \A d \in Cores : \A x \in CountedSteps :
    Passed(q, d, x)' = Passed(q, d, x) + (IF q = r /\ d = c /\ x = step THEN 1 ELSE 0)

CountsNothing ==
  \A q \in Ranks : \A d \in Cores : \A x \in CountedSteps :
    Passed(q, d, x)' = Passed(q, d, x)

(* A core that is not at a barrier goes one step further.                   *)
LEMMA CoreMoves ==
  ASSUME CountersOK, BarriersOK, NEW r \in Ranks, NEW c \in Cores,
         op' = op, launch' = launch, Advance(r, c),
         pc[r][c] \in {1, 3, 4, 6, 8, 9, 10, 12}
  PROVE  /\ CountersOK' /\ BarriersOK'
         /\ \A step \in CountedSteps :
              pc[r][c] = Place(step) => Counts(r, c, step)
         /\ pc[r][c] \in {6, 12} => CountsNothing
<1>1. /\ launch \in [Ranks -> Nat] /\ pc \in [Ranks -> [Cores -> 1 .. 13]]
      /\ \A q \in Ranks, d \in Cores : launch[q] = 0 => pc[q][d] = 13
  BY KernelFacts DEF CountersOK
<1>2. /\ Ranks' = Ranks /\ Cores' = Cores
      /\ pc' = [pc EXCEPT ![r][c] = @ + 1]
  BY Zenon DEF Ranks, EpWorldSize, Cores, Advance
<1>3. /\ pc' \in [Ranks -> [Cores -> 1 .. 13]]
      /\ pc'[r][c] = pc[r][c] + 1
      /\ \A q \in Ranks : \A d \in Cores : q # r \/ d # c => pc'[q][d] = pc[q][d]
  BY <1>1, <1>2
<1>4. CountersOK'
  BY <1>1, <1>2, <1>3, KernelFacts DEF CountersOK
<1>5. BarriersOK'
  BY <1>1, <1>2, <1>3, Places DEF BarriersOK, Barriers
<1>6. ASSUME NEW q \in Ranks, NEW d \in Cores, NEW x \in CountedSteps
      PROVE  Passed(q, d, x)' = Passed(q, d, x)
               + (IF q = r /\ d = c /\ pc[r][c] = Place(x) THEN 1 ELSE 0)
  <2>1. Place(x) \in {1, 3, 4, 8, 9, 10}
    BY Zenon, Places DEF CountedSteps
  <2> HIDE DEF Place
  <2> QED
    BY <1>1, <1>3, <2>1 DEF Passed
<1>7. \A x, y \in CountedSteps : Place(x) = Place(y) => x = y
  BY Places DEF CountedSteps
<1>8. \A x \in CountedSteps : Place(x) \notin {6, 12}
  BY Places DEF CountedSteps
<1>9. ASSUME NEW step \in CountedSteps, pc[r][c] = Place(step) PROVE Counts(r, c, step)
  BY <1>6, <1>7, <1>9 DEF Counts
<1>10. ASSUME pc[r][c] \in {6, 12} PROVE CountsNothing
  <2>1. \A x \in CountedSteps : pc[r][c] # Place(x)
    BY Zenon, <1>8, <1>10
  <2>2. \A q \in Ranks : \A d \in Cores : \A x \in CountedSteps : Passed(q, d, x) \in Int
    BY <1>1 DEF Passed
  <2> QED
    BY <1>6, <2>1, <2>2 DEF CountsNothing
<1> QED
  BY Zenon, <1>4, <1>5, <1>9, <1>10

(* The cores of a rank leave a barrier together.                            *)
LEMMA BarrierMoves ==
  ASSUME CountersOK, BarriersOK, NEW r \in Ranks, NEW b \in {2, 5, 7, 11},
         op' = op, launch' = launch, \A c \in Cores : pc[r][c] = b,
         pc' = [pc EXCEPT ![r] = [c \in Cores |-> pc[r][c] + 1]]
  PROVE  CountersOK' /\ BarriersOK' /\ CountsNothing
<1>1. /\ launch \in [Ranks -> Nat] /\ pc \in [Ranks -> [Cores -> 1 .. 13]]
      /\ \A q \in Ranks, d \in Cores : launch[q] = 0 => pc[q][d] = 13
  BY KernelFacts DEF CountersOK
<1>2. Ranks' = Ranks /\ Cores' = Cores
  BY Zenon DEF Ranks, EpWorldSize, Cores
<1>3. /\ pc' \in [Ranks -> [Cores -> 1 .. 13]]
      /\ \A d \in Cores : pc'[r][d] = b + 1 /\ pc[r][d] = b
      /\ \A q \in Ranks : \A d \in Cores : q # r => pc'[q][d] = pc[q][d]
  BY <1>1
<1>4. CountersOK'
  BY <1>1, <1>2, <1>3, KernelFacts DEF CountersOK
<1>5. BarriersOK'
  BY <1>1, <1>2, <1>3, Places DEF BarriersOK, Barriers
<1>6. ASSUME NEW q \in Ranks, NEW d \in Cores, NEW x \in CountedSteps
      PROVE  Passed(q, d, x)' = Passed(q, d, x)
  <2>1. Place(x) \in {1, 3, 4, 8, 9, 10}
    BY Zenon, Places DEF CountedSteps
  <2> QED
    BY <1>1, <1>3, <2>1 DEF Passed
<1> QED
  BY Zenon, <1>4, <1>5, <1>6 DEF CountsNothing

(* A launch counts nothing: the cores go from behind the last step of one   *)
(* launch to the first step of the next.                                    *)
LEMMA LaunchMoves ==
  ASSUME CountersOK, BarriersOK, NEW r \in Ranks, Launch(r)
  PROVE  CountersOK' /\ BarriersOK' /\ CountsNothing
<1>1. /\ launch \in [Ranks -> Nat] /\ pc \in [Ranks -> [Cores -> 1 .. 13]]
      /\ \A q \in Ranks, d \in Cores : launch[q] = 0 => pc[q][d] = 13
  BY KernelFacts DEF CountersOK
<1>2. op' = op /\ Ranks' = Ranks /\ Cores' = Cores
  BY Zenon DEF Launch, Ranks, EpWorldSize, Cores
<1>3. /\ pc' = [pc EXCEPT ![r] = [c \in Cores |-> 1]]
      /\ launch' = [launch EXCEPT ![r] = @ + 1]
      /\ \A c \in Cores : pc[r][c] = 13
  BY KernelFacts DEF Launch
<1>4. /\ pc' \in [Ranks -> [Cores -> 1 .. 13]] /\ launch' \in [Ranks -> Nat]
      /\ \A d \in Cores : pc'[r][d] = 1 /\ pc[r][d] = 13
      /\ launch'[r] = launch[r] + 1
      /\ \A q \in Ranks : q # r => launch'[q] = launch[q]
      /\ \A q \in Ranks : \A d \in Cores : q # r => pc'[q][d] = pc[q][d]
  BY <1>1, <1>3
<1> HIDE DEF Launch
<1>5. CountersOK'
  <2>1. \A q \in Ranks : \A d \in Cores : launch'[q] = 0 => pc'[q][d] = 13
    BY <1>1, <1>4
  <2> QED
    BY <1>2, <1>4, <2>1, KernelFacts DEF CountersOK
<1>6. BarriersOK'
  BY <1>2, <1>4, Places DEF BarriersOK, Barriers
<1>7. ASSUME NEW q \in Ranks, NEW d \in Cores, NEW x \in CountedSteps
      PROVE  Passed(q, d, x)' = Passed(q, d, x)
  <2>1. Place(x) \in {1, 3, 4, 8, 9, 10}
    BY Zenon, Places DEF CountedSteps
  <2>2. launch[q] \in Nat /\ launch'[q] \in Nat
    BY Zenon, <1>1, <1>4
  <2>3. CASE q = r
    <3>1. launch'[q] = launch[q] + 1 /\ pc'[q][d] = 1 /\ pc[q][d] = 13
      BY Zenon, <1>4, <2>3
    <3> QED
      BY <2>1, <2>2, <3>1 DEF Passed
  <2>4. CASE q # r
    BY Zenon, <1>4, <2>4 DEF Passed
  <2> QED
    BY Zenon, <2>3, <2>4
<1> QED
  BY Zenon, <1>5, <1>6, <1>7 DEF CountsNothing

(* The steps of the other invariants.                                       *)
LEMMA StepFacts ==
  /\ \A h \in {0, 1} : /\ InitStep(h) \in CountedSteps
                       /\ SetStep(h) \in CountedSteps
                       /\ WaitStep(h) \in CountedSteps
  /\ \A g, h \in {0, 1} : /\ InitStep(g) # SetStep(h) /\ InitStep(g) # WaitStep(h)
                          /\ SetStep(g) # WaitStep(h)
                          /\ g # h => /\ InitStep(g) # InitStep(h)
                                      /\ SetStep(g) # SetStep(h)
                                      /\ WaitStep(g) # WaitStep(h)
  /\ InitStep(0) = "AlltoAllDispatch" /\ InitStep(1) = "ExpertAlltoAll"
  /\ SetStep(0) = "SetStatus" /\ SetStep(1) = "CombineSetStatus"
  /\ WaitStep(0) = "WaitDispatch" /\ WaitStep(1) = "CombineWait"
BY DEF CountedSteps, InitStep, SetStep, WaitStep

(* The sizes stay, and with them the words.                                 *)
LEMMA SizesStay ==
  ASSUME op' = op
  PROVE  /\ Ranks' = Ranks /\ Cores' = Cores /\ Slots' = Slots
         /\ \A q, d, h : /\ Announced(q, d, h)' = Announced(q, d, h)
                         /\ Awaited(q, d, h)' = Awaited(q, d, h)
<1>1. /\ Ranks' = Ranks /\ Cores' = Cores /\ Slots' = Slots
      /\ EpWorldSize' = EpWorldSize /\ SharedExpertRankNum' = SharedExpertRankNum
      /\ MoeExpertNum' = MoeExpertNum /\ RecvWinBlockNum' = RecvWinBlockNum
  BY Zenon DEF Ranks, Cores, Slots, EpWorldSize, RecvWinBlockNum, SharedExpertRankNum,
               MoeExpertNum
<1>2. /\ \A q, i : StatusAddress(q, i)' = StatusAddress(q, i)
      /\ \A q : rscvStatusNum(q)' = rscvStatusNum(q)
  BY Zenon, <1>1 DEF StatusAddress, rscvStatusNum, isShareExpertRank
<1> QED
  BY Zenon, <1>1, <1>2 DEF Announced, Awaited

(* A step that counts nothing and touches no bit, flag or word.             *)
LEMMA QuietBits ==
  ASSUME BitsOK, op' = op, CountsNothing, UNCHANGED <<data_state, self_status>>
  PROVE  BitsOK'
<1>1. \A q \in Ranks : \A d \in Cores : \A h \in {0, 1} :
        Passed(q, d, InitStep(h))' = Passed(q, d, InitStep(h))
  BY Zenon, StepFacts DEF CountsNothing
<1> QED
  BY <1>1, SizesStay DEF BitsOK

(* The same for the words and the waits.                                    *)
LEMMA QuietSignals ==
  ASSUME FlagsOK, WaitsOK, op' = op, CountsNothing, UNCHANGED status
  PROVE  FlagsOK' /\ WaitsOK'
<1>1. \A q \in Ranks : \A d \in Cores : \A h \in {0, 1} :
        /\ Passed(q, d, SetStep(h))' = Passed(q, d, SetStep(h))
        /\ Passed(q, d, WaitStep(h))' = Passed(q, d, WaitStep(h))
  BY Zenon, StepFacts DEF CountsNothing
<1>2. FlagsOK'
  BY <1>1, SizesStay DEF FlagsOK
<1>3. WaitsOK'
  BY <1>1, SizesStay DEF WaitsOK
<1> QED
  BY Zenon, <1>2, <1>3

-----------------------------------------------------------------------------
(* The bits and flags of the cores.                                         *)

(* Neither Init is run: the bits and the flags stay.                        *)
LEMMA BitsStable ==
  ASSUME BitsOK, op' = op, NEW r \in Ranks, NEW c \in Cores, NEW step,
         Counts(r, c, step), step \notin {InitStep(0), InitStep(1)}, CountersOK,
         UNCHANGED <<data_state, self_status>>
  PROVE  BitsOK'
<1>1. Ranks' = Ranks /\ Cores' = Cores
  BY Zenon DEF Ranks, Cores, EpWorldSize
<1>2. \A q \in Ranks : \A d \in Cores : \A h \in {0, 1} :
        Passed(q, d, InitStep(h)) \in Int
  BY DEF Passed, CountersOK
<1>3. \A q \in Ranks : \A d \in Cores : \A h \in {0, 1} :
        Passed(q, d, InitStep(h))' = Passed(q, d, InitStep(h))
  BY <1>2, StepFacts DEF Counts
<1> QED
  BY <1>1, <1>3 DEF BitsOK

(* Both Init functions flip the bit, and the flag of the half that the bit  *)
(* names: the dispatcher's is on half 0, the combiner's on half 1.          *)
LEMMA InitBits ==
  ASSUME BitsOK, CountersOK, op' = op, NEW r \in Ranks, NEW c \in Cores, NEW h \in {0, 1},
         Counts(r, c, InitStep(h)), pc[r][c] = Place(InitStep(h)), InitWindow(r, c)
  PROVE  BitsOK'
<1>1. Ranks' = Ranks /\ Cores' = Cores
  BY Zenon DEF Ranks, Cores, EpWorldSize
<1>2. /\ launch \in [Ranks -> Nat] /\ pc \in [Ranks -> [Cores -> 1 .. 13]]
  BY Zenon, KernelFacts DEF CountersOK
<1>3. \A q \in Ranks : \A d \in Cores : \A g \in {0, 1} :
        Passed(q, d, InitStep(g)) \in Int
  BY <1>2 DEF Passed
<1>4. \A q \in Ranks : \A d \in Cores : \A g \in {0, 1} :
        Passed(q, d, InitStep(g))' = Passed(q, d, InitStep(g))
          + (IF q = r /\ d = c /\ g = h THEN 1 ELSE 0)
  BY StepFacts DEF Counts
<1>5. data_state[r][c] = h
  BY <1>2, StepFacts, Places DEF BitsOK, Passed
<1>6. data_state' = [data_state EXCEPT ![r][c] = 1 - h]
  BY Zenon, <1>5 DEF InitWindow
<1>7. self_status' = [self_status EXCEPT ![r][c][h] = 1 - @]
  BY Zenon, <1>5 DEF InitWindow
<1>8. /\ data_state' \in [Ranks -> [Cores -> {0, 1}]] /\ data_state'[r][c] = 1 - h
      /\ \A q \in Ranks : \A d \in Cores :
           q # r \/ d # c => data_state'[q][d] = data_state[q][d]
  BY <1>6 DEF BitsOK
<1>9. /\ self_status' \in [Ranks -> [Cores -> [{0, 1} -> {0, 1}]]]
      /\ self_status'[r][c][h] = 1 - self_status[r][c][h]
      /\ \A q \in Ranks : \A d \in Cores : \A g \in {0, 1} :
           q # r \/ d # c \/ g # h => self_status'[q][d][g] = self_status[q][d][g]
  BY <1>7 DEF BitsOK
<1>10. ASSUME NEW q \in Ranks, NEW d \in Cores
       PROVE  data_state'[q][d] = Passed(q, d, InitStep(0))' - Passed(q, d, InitStep(1))'
  <2>1. /\ Passed(q, d, InitStep(0)) \in Int /\ Passed(q, d, InitStep(1)) \in Int
        /\ data_state[q][d] = Passed(q, d, InitStep(0)) - Passed(q, d, InitStep(1))
    BY Zenon, <1>3 DEF BitsOK
  <2>2. CASE q = r /\ d = c
    <3>1. /\ Passed(q, d, InitStep(0))' = Passed(q, d, InitStep(0)) + (1 - h)
          /\ Passed(q, d, InitStep(1))' = Passed(q, d, InitStep(1)) + h
      BY <1>4, <2>1, <2>2
    <3> QED
      BY <1>5, <1>8, <2>1, <2>2, <3>1
  <2>3. CASE ~(q = r /\ d = c)
    <3>1. /\ Passed(q, d, InitStep(0))' = Passed(q, d, InitStep(0))
          /\ Passed(q, d, InitStep(1))' = Passed(q, d, InitStep(1))
      BY <1>4, <2>1, <2>3
    <3> QED
      BY Zenon, <1>8, <2>1, <2>3, <3>1
  <2> QED
    BY Zenon, <2>2, <2>3
<1>11. ASSUME NEW q \in Ranks, NEW d \in Cores, NEW g \in {0, 1}
       PROVE  self_status'[q][d][g] = Passed(q, d, InitStep(g))' % 2
  <2>1. /\ Passed(q, d, InitStep(g)) \in Int
        /\ self_status[q][d][g] = Passed(q, d, InitStep(g)) % 2
    BY Zenon, <1>3 DEF BitsOK
  <2>2. CASE q = r /\ d = c /\ g = h
    <3>1. Passed(q, d, InitStep(g))' = Passed(q, d, InitStep(g)) + 1
      BY Zenon, <1>4, <2>2
    <3>2. self_status'[q][d][g] = 1 - self_status[q][d][g]
      BY Zenon, <1>9, <2>2
    <3> QED
      BY <2>1, <3>1, <3>2
  <2>3. CASE ~(q = r /\ d = c /\ g = h)
    <3>1. Passed(q, d, InitStep(g))' = Passed(q, d, InitStep(g))
      BY <1>4, <2>1, <2>3
    <3> QED
      BY Zenon, <1>9, <2>1, <2>3, <3>1
  <2> QED
    BY Zenon, <2>2, <2>3
<1> QED
  BY <1>1, <1>8, <1>9, <1>10, <1>11 DEF BitsOK

(* What a core announces or waits for has the parity of the launch, on half *)
(* 0 when it dispatches and on half 1 when it combines.                     *)
LEMMA Target ==
  ASSUME CountersOK, BitsOK, NEW r \in Ranks, NEW c \in Cores, NEW h \in {0, 1},
         pc[r][c] \in {Place(SetStep(h)), Place(WaitStep(h))}
  PROVE  dataState(r, c) = h /\ sumTarget(r, c) = launch[r] % 2
<1>1. launch[r] \in Nat
  BY Zenon DEF CountersOK
<1>2. IF h = 0 THEN pc[r][c] \in {3, 4} ELSE pc[r][c] \in {9, 10}
  BY Zenon, Places, StepFacts
<1>3. /\ Passed(r, c, InitStep(0)) = launch[r]
      /\ Passed(r, c, InitStep(1)) = launch[r] - (1 - h)
  BY <1>1, <1>2, Places, StepFacts DEF Passed
<1>4. data_state[r][c] = 1 - h
  BY <1>1, <1>3 DEF BitsOK
<1>5. dataState(r, c) = h
  BY <1>4 DEF dataState
<1>6. Passed(r, c, InitStep(h)) = launch[r]
  BY <1>1, <1>3
<1> QED
  BY Zenon, <1>5, <1>6 DEF BitsOK, sumTarget

-----------------------------------------------------------------------------
(* The status words.                                                        *)

(* Written changes the addresses that are written and no others.            *)
LEMMA WrittenFacts ==
  ASSUME NEW f, NEW ws
  PROVE  /\ DOMAIN Written(f, ws) = DOMAIN f
         /\ \A a \in DOMAIN f :
              /\ (\E w \in ws : w[1] = a) =>
                   \E w \in ws : w[1] = a /\ Written(f, ws)[a] = w[2]
              /\ ~(\E w \in ws : w[1] = a) => Written(f, ws)[a] = f[a]
BY Zenon DEF Written

(* No word is written: the words stay as the counts do.                     *)
LEMMA FlagsStable ==
  ASSUME FlagsOK, CountersOK, op' = op, NEW r \in Ranks, NEW c \in Cores, NEW step,
         Counts(r, c, step), step \notin {SetStep(0), SetStep(1)}, UNCHANGED status
  PROVE  FlagsOK'
<1>1. \A q \in Ranks : \A d \in Cores : \A h \in {0, 1} :
        Passed(q, d, SetStep(h)) \in Int
  BY DEF Passed, CountersOK
<1>2. \A q \in Ranks : \A d \in Cores : \A h \in {0, 1} :
        Passed(q, d, SetStep(h))' = Passed(q, d, SetStep(h))
  BY <1>1, StepFacts DEF Counts
<1> QED
  BY <1>2, SizesStay DEF FlagsOK

(* Both SetStatus functions: the core writes the parity of its announcement *)
(* to the words it announces.                                               *)
LEMMA SetFlags ==
  ASSUME FlagsOK, CountersOK, op' = op,
         NEW r \in Ranks, NEW c \in Cores, NEW h \in {0, 1},
         Counts(r, c, SetStep(h)), pc[r][c] = Place(SetStep(h)),
         NEW ws, status' = Written(status, ws),
         \A w \in ws : \E a \in Announced(r, c, h) :
           w[1] = <<a[1], h, a[2]>> /\ w[2].flag = launch[r] % 2,
         \A a \in Announced(r, c, h) : \E w \in ws : w[1] = <<a[1], h, a[2]>>
  PROVE  FlagsOK'
<1>1. /\ op \in Deployments /\ launch[r] \in Nat
      /\ \A q \in Ranks : \A d \in Cores : \A g \in {0, 1} :
           Passed(q, d, SetStep(g)) \in Int
  BY DEF Passed, CountersOK
<1>2. Passed(r, c, SetStep(h)) = launch[r] - 1
  BY <1>1, Places, StepFacts DEF Passed
<1>3. /\ Passed(r, c, SetStep(h))' = launch[r]
      /\ \A q \in Ranks : \A d \in Cores : \A g \in {0, 1} : ~(q = r /\ d = c /\ g = h) =>
           Passed(q, d, SetStep(g))' = Passed(q, d, SetStep(g))
  BY <1>1, <1>2, StepFacts DEF Counts
<1>4. DOMAIN status' = DOMAIN status /\ DOMAIN status = Ranks \X {0, 1} \X Slots
  BY Zenon, WrittenFacts DEF FlagsOK
<1>5. ASSUME NEW q \in Ranks, NEW d \in Cores, NEW g \in {0, 1}, NEW b \in Announced(q, d, g)
      PROVE  status'[<<b[1], g, b[2]>>].flag = Passed(q, d, SetStep(g))' % 2
  <2>1. b \in Ranks \X Slots
    BY Zenon, <1>1, AnnouncedPlaces
  <2>2. <<b[1], g, b[2]>> \in DOMAIN status
    BY Zenon, <1>4, <2>1
  <2>3. CASE \E w \in ws : w[1] = <<b[1], g, b[2]>>
    <3>1. PICK w \in ws : w[1] = <<b[1], g, b[2]>> /\ status'[<<b[1], g, b[2]>>] = w[2]
      BY <2>2, <2>3, WrittenFacts
    <3>2. PICK a \in Announced(r, c, h) :
            w[1] = <<a[1], h, a[2]>> /\ w[2].flag = launch[r] % 2
      BY Zenon
    <3>3. a \in Ranks \X Slots
      BY Zenon, <1>1, AnnouncedPlaces
    <3>4. a = b /\ g = h
      BY <2>1, <3>1, <3>2, <3>3
    <3>5. q = r /\ d = c
      BY Zenon, <1>1, <3>4, SignalFacts
    <3> QED
      BY Zenon, <1>3, <3>1, <3>2, <3>4, <3>5
  <2>4. CASE ~\E w \in ws : w[1] = <<b[1], g, b[2]>>
    <3>1. status'[<<b[1], g, b[2]>>] = status[<<b[1], g, b[2]>>]
      BY <2>2, <2>4, WrittenFacts
    <3>2. ~(q = r /\ d = c /\ g = h)
      BY Zenon, <2>4
    <3>3. Passed(q, d, SetStep(g))' = Passed(q, d, SetStep(g))
      BY Zenon, <1>3, <3>2
    <3>4. status[<<b[1], g, b[2]>>].flag = Passed(q, d, SetStep(g)) % 2
      BY Zenon DEF FlagsOK
    <3> QED
      BY Zenon, <3>1, <3>3, <3>4
  <2> QED
    BY Zenon, <2>3, <2>4
<1> QED
  BY <1>4, <1>5, SizesStay DEF FlagsOK

-----------------------------------------------------------------------------
(* The waits.                                                               *)

(* A number of the same parity as b that is b - 1 or more is b or more.     *)
LEMMA Parity ==
  ASSUME NEW a \in Int, NEW b \in Int, a % 2 = b % 2, a >= b - 1
  PROVE  a >= b
OBVIOUS

(* No core comes past a wait: the announcements only get more.              *)
LEMMA WaitsStable ==
  ASSUME WaitsOK, CountersOK, op' = op, NEW r \in Ranks, NEW c \in Cores, NEW step,
         Counts(r, c, step), step \notin {WaitStep(0), WaitStep(1)}
  PROVE  WaitsOK'
<1>1. \A q \in Ranks : \A d \in Cores : \A h \in {0, 1} :
        /\ Passed(q, d, SetStep(h)) \in Int
        /\ Passed(q, d, WaitStep(h)) \in Int
  BY DEF Passed, CountersOK
<1>2. \A q \in Ranks : \A d \in Cores : \A h \in {0, 1} :
        /\ Passed(q, d, WaitStep(h))' = Passed(q, d, WaitStep(h))
        /\ Passed(q, d, SetStep(h))' \in Int
        /\ Passed(q, d, SetStep(h))' >= Passed(q, d, SetStep(h))
  BY <1>1, StepFacts DEF Counts
<1>3. ASSUME NEW q \in Ranks, NEW s \in Ranks, NEW e \in Cores, NEW d \in Cores,
             NEW h \in {0, 1}, NEW w \in Awaited(q, e, h), <<q, w>> \in Announced(s, d, h)
      PROVE  Passed(q, e, WaitStep(h))' <= Passed(s, d, SetStep(h))'
  <2>1. Passed(q, e, WaitStep(h)) <= Passed(s, d, SetStep(h))
    BY Zenon, <1>3 DEF WaitsOK
  <2> QED
    BY <1>1, <1>2, <2>1
<1> QED
  BY <1>3, SizesStay DEF WaitsOK

(* Both WaitDispatch functions: the flag that has arrived is not the one of *)
(* the launch before, for the sender has announced that launch already.     *)
LEMMA WaitPassed ==
  ASSUME SumsTell, WaitsOK, CountersOK, FlagsOK, op' = op,
         NEW r \in Ranks, NEW c \in Cores, NEW h \in {0, 1},
         Counts(r, c, WaitStep(h)), pc[r][c] = Place(WaitStep(h)),
         FlagsArrived(r, c, Awaited(r, c, h))
  PROVE  WaitsOK'
<1>1. \A q \in Ranks : \A d \in Cores : \A g \in {0, 1} :
        /\ Passed(q, d, SetStep(g)) \in Int
        /\ Passed(q, d, WaitStep(g)) \in Int
  BY DEF Passed, CountersOK
<1>2. \A q \in Ranks : \A d \in Cores : \A g \in {0, 1} :
        /\ Passed(q, d, SetStep(g))' = Passed(q, d, SetStep(g))
        /\ ~(q = r /\ d = c /\ g = h) =>
             Passed(q, d, WaitStep(g))' = Passed(q, d, WaitStep(g))
  BY <1>1, StepFacts DEF Counts
<1>3. /\ launch[r] \in Nat
      /\ Passed(r, c, WaitStep(h)) = launch[r] - 1
      /\ Passed(r, c, WaitStep(h))' = launch[r]
  <2>1. launch[r] \in Nat
    BY Zenon DEF CountersOK
  <2>2. Passed(r, c, WaitStep(h)) = launch[r] - 1
    BY <2>1, Places, StepFacts DEF Passed
  <2>3. Passed(r, c, WaitStep(h))' = Passed(r, c, WaitStep(h)) + 1
    BY Zenon, StepFacts DEF Counts
  <2> QED
    BY <2>1, <2>2, <2>3
<1>4. ASSUME NEW s \in Ranks, NEW d \in Cores, NEW w \in Awaited(r, c, h),
             <<r, w>> \in Announced(s, d, h)
      PROVE  launch[r] <= Passed(s, d, SetStep(h))
  <2>1. status[<<r, h, w>>].flag = launch[r] % 2
    BY Zenon DEF SumsTell
  <2>2. status[<<<<r, w>>[1], h, <<r, w>>[2]>>].flag = Passed(s, d, SetStep(h)) % 2
    BY Zenon, <1>4 DEF FlagsOK
  <2>3. Passed(r, c, WaitStep(h)) <= Passed(s, d, SetStep(h))
    BY Zenon, <1>4 DEF WaitsOK
  <2>4. Passed(s, d, SetStep(h)) % 2 = launch[r] % 2
    BY Zenon, <2>1, <2>2
  <2> QED
    BY <1>1, <1>3, <2>3, <2>4, Parity
<1>5. ASSUME NEW q \in Ranks, NEW s \in Ranks, NEW e \in Cores, NEW d \in Cores,
             NEW g \in {0, 1}, NEW w \in Awaited(q, e, g), <<q, w>> \in Announced(s, d, g)
      PROVE  Passed(q, e, WaitStep(g))' <= Passed(s, d, SetStep(g))'
  <2>1. CASE q = r /\ e = c /\ g = h
    <3>1. launch[r] <= Passed(s, d, SetStep(h))
      BY Zenon, <1>4, <1>5, <2>1
    <3> QED
      BY Zenon, <1>2, <1>3, <2>1, <3>1
  <2>2. CASE ~(q = r /\ e = c /\ g = h)
    <3>1. Passed(q, e, WaitStep(g)) <= Passed(s, d, SetStep(g))
      BY Zenon, <1>5 DEF WaitsOK
    <3> QED
      BY Zenon, <1>2, <2>2, <3>1
  <2> QED
    BY Zenon, <2>1, <2>2
<1> QED
  BY <1>5, SizesStay DEF WaitsOK

-----------------------------------------------------------------------------
(* The invariant.                                                           *)

(* It holds at first: no launch, and every bit, flag and word is 0.         *)
LEMMA InitInductive ==
  ASSUME Init
  PROVE  Inductive
<1>1. /\ op \in Deployments
      /\ \A r \in Ranks : launch[r] = 0
      /\ launch \in [Ranks -> Nat]
      /\ \A r \in Ranks : \A c \in Cores : pc[r][c] = 13
      /\ pc \in [Ranks -> [Cores -> 1 .. 13]]
  BY KernelFacts DEF Init
<1>2. CountersOK
  BY <1>1, KernelFacts DEF CountersOK
<1>3. \A r \in Ranks : \A c \in Cores : \A h \in {0, 1} :
        /\ Passed(r, c, InitStep(h)) = 0 /\ Passed(r, c, SetStep(h)) = 0
        /\ Passed(r, c, WaitStep(h)) = 0
  BY <1>1, Places, StepFacts DEF Passed
<1>4. BitsOK
  <2>1. /\ data_state \in [Ranks -> [Cores -> {0, 1}]]
        /\ self_status \in [Ranks -> [Cores -> [{0, 1} -> {0, 1}]]]
        /\ \A r \in Ranks : \A c \in Cores :
             data_state[r][c] = 0 /\ \A h \in {0, 1} : self_status[r][c][h] = 0
    BY Zenon DEF Init
  <2> QED
    BY <1>3, <2>1 DEF BitsOK
<1>5. BarriersOK
  BY <1>1, Places DEF BarriersOK
<1>6. FlagsOK
  <2>1. /\ DOMAIN status = Ranks \X {0, 1} \X Slots
        /\ \A a \in Ranks \X {0, 1} \X Slots : status[a] = [flag |-> 0, count |-> 0]
    BY Zenon DEF Init
  <2>2. ASSUME NEW r \in Ranks, NEW c \in Cores, NEW h \in {0, 1}, NEW a \in Announced(r, c, h)
        PROVE  status[<<a[1], h, a[2]>>].flag = Passed(r, c, SetStep(h)) % 2
    <3>1. a \in Ranks \X Slots
      BY Zenon, <1>1, AnnouncedPlaces
    <3>2. status[<<a[1], h, a[2]>>].flag = 0
      BY <2>1, <3>1
    <3> QED
      BY <1>3, <3>2
  <2> QED
    BY Zenon, <2>1, <2>2 DEF FlagsOK
<1>7. WaitsOK
  BY <1>3 DEF WaitsOK
<1> QED
  BY Zenon, <1>2, <1>4, <1>5, <1>6, <1>7 DEF Inductive, PhasesOK

(* A core that takes a step is at that step, goes one step further, and     *)
(* comes past one counted step at most.                                     *)
LEMMA CoreStepFacts ==
  ASSUME PhasesOK, NEW r \in Ranks, NEW c \in Cores, CoreStep(r, c)
  PROVE  /\ op' = op /\ launch' = launch /\ CountersOK' /\ BarriersOK'
         /\ \A step \in CountedSteps :
              AtStep(r, c, step) => pc[r][c] = Place(step) /\ Counts(r, c, step)
         /\ AtStep(r, c, "LocalWindowCopy") => CountsNothing
         /\ AtStep(r, c, "CombineWindowCopy") => CountsNothing
<1>1. CountersOK /\ BarriersOK
  BY Zenon DEF PhasesOK
<1>2. /\ op' = op /\ launch' = launch /\ Advance(r, c)
      /\ pc[r][c] \in {1, 3, 4, 6, 8, 9, 10, 12}
  <2>1. \A step : AtStep(r, c, step) => pc[r][c] \in 1 .. 12 /\ Kernel[pc[r][c]] = step
    BY KernelFacts DEF AtStep
  <2>2. CASE AlltoAllDispatch(r, c)
    BY Zenon, <2>1, <2>2, KernelFacts DEF AlltoAllDispatch
  <2>3. CASE SetStatus(r, c)
    BY Zenon, <2>1, <2>3, KernelFacts DEF SetStatus
  <2>4. CASE WaitDispatch(r, c)
    BY Zenon, <2>1, <2>4, KernelFacts DEF WaitDispatch
  <2>5. CASE LocalWindowCopy(r, c)
    BY Zenon, <2>1, <2>5, KernelFacts DEF LocalWindowCopy
  <2>6. CASE ExpertAlltoAll(r, c)
    BY Zenon, <2>1, <2>6, KernelFacts DEF ExpertAlltoAll
  <2>7. CASE CombineSetStatus(r, c)
    BY Zenon, <2>1, <2>7, KernelFacts DEF CombineSetStatus
  <2>8. CASE CombineWait(r, c)
    BY Zenon, <2>1, <2>8, KernelFacts DEF CombineWait
  <2>9. CASE CombineWindowCopy(r, c)
    BY Zenon, <2>1, <2>9, KernelFacts DEF CombineWindowCopy
  <2> QED
    BY ZenonT(30), <2>2, <2>3, <2>4, <2>5, <2>6, <2>7, <2>8, <2>9 DEF CoreStep
<1>3. /\ CountersOK' /\ BarriersOK'
      /\ \A step \in CountedSteps : pc[r][c] = Place(step) => Counts(r, c, step)
      /\ pc[r][c] \in {6, 12} => CountsNothing
  BY Zenon, <1>1, <1>2, CoreMoves
<1>4. \A step \in CountedSteps : AtStep(r, c, step) => pc[r][c] = Place(step)
  BY KernelFacts, Places DEF AtStep, CountedSteps
<1>5. /\ AtStep(r, c, "LocalWindowCopy") => pc[r][c] = 6
      /\ AtStep(r, c, "CombineWindowCopy") => pc[r][c] = 12
  BY KernelFacts DEF AtStep
<1> QED
  BY Zenon, <1>2, <1>3, <1>4, <1>5

(* The phases under a step of one core.                                     *)
LEMMA CoreStepPhases ==
  ASSUME PhasesOK, NEW r \in Ranks, NEW c \in Cores, CoreStep(r, c)
  PROVE  PhasesOK'
<1>1. CountersOK /\ BitsOK
  BY Zenon DEF PhasesOK
<1>2. /\ op' = op /\ CountersOK' /\ BarriersOK'
      /\ \A step \in CountedSteps :
           AtStep(r, c, step) => pc[r][c] = Place(step) /\ Counts(r, c, step)
      /\ AtStep(r, c, "LocalWindowCopy") => CountsNothing
      /\ AtStep(r, c, "CombineWindowCopy") => CountsNothing
  BY Zenon, CoreStepFacts
<1>3. SUFFICES BitsOK'
  BY Zenon, <1>2 DEF PhasesOK
<1>4. ASSUME NEW h \in {0, 1}, AtStep(r, c, InitStep(h)), InitWindow(r, c) PROVE BitsOK'
  <2>1. pc[r][c] = Place(InitStep(h)) /\ Counts(r, c, InitStep(h))
    BY Zenon, <1>2, <1>4, StepFacts
  <2> QED
    BY Zenon, <1>1, <1>2, <1>4, <2>1, InitBits
<1>5. ASSUME NEW step \in CountedSteps \ {InitStep(0), InitStep(1)}, AtStep(r, c, step),
             UNCHANGED <<data_state, self_status>>
      PROVE  BitsOK'
  <2>1. Counts(r, c, step)
    BY Zenon, <1>2, <1>5
  <2> QED
    BY Zenon, <1>1, <1>2, <1>5, <2>1, BitsStable
<1>6. ASSUME CountsNothing, UNCHANGED <<data_state, self_status>> PROVE BitsOK'
  BY Zenon, <1>1, <1>2, <1>6, QuietBits
<1>7. CASE AlltoAllDispatch(r, c)
  BY Zenon, <1>4, <1>7, StepFacts DEF AlltoAllDispatch
<1>8. CASE ExpertAlltoAll(r, c)
  BY Zenon, <1>4, <1>8, StepFacts DEF ExpertAlltoAll
<1>9. \A h \in {0, 1} : /\ SetStep(h) \in CountedSteps \ {InitStep(0), InitStep(1)}
                        /\ WaitStep(h) \in CountedSteps \ {InitStep(0), InitStep(1)}
  BY Zenon, StepFacts
<1>10. CASE SetStatus(r, c)
  BY Zenon, <1>5, <1>9, <1>10, StepFacts DEF SetStatus
<1>11. CASE WaitDispatch(r, c)
  BY Zenon, <1>5, <1>9, <1>11, StepFacts DEF WaitDispatch
<1>12. CASE CombineSetStatus(r, c)
  BY Zenon, <1>5, <1>9, <1>12, StepFacts DEF CombineSetStatus
<1>13. CASE CombineWait(r, c)
  BY Zenon, <1>5, <1>9, <1>13, StepFacts DEF CombineWait
<1>14. CASE LocalWindowCopy(r, c)
  BY Zenon, <1>2, <1>6, <1>14 DEF LocalWindowCopy
<1>15. CASE CombineWindowCopy(r, c)
  BY Zenon, <1>2, <1>6, <1>15 DEF CombineWindowCopy
<1> QED
  BY ZenonT(30), <1>7, <1>8, <1>10, <1>11, <1>12, <1>13, <1>14, <1>15 DEF CoreStep

(* Every word that is announced gets the flag.                              *)
LEMMA FlagGiven ==
  ASSUME EveryWordFlagged, op \in Deployments, NEW r, NEW c \in Cores,
         NEW i \in Share(SharedExpertRankNum + MoeExpertNum, AivNum, c)
  PROVE  statusFlag(r, c, i) = sumTarget(r, c)
<1> DEFINE E == SharedExpertRankNum + MoeExpertNum
           flagged == (RecvWinBlockNum \div FlagRepeat) * FlagRepeat
<1>1. E \in Nat /\ AivNum \in Nat \ {0} /\ Cores = 0 .. AivNum - 1
  BY OpFacts
<1>2. E <= flagged
  BY Zenon DEF EveryWordFlagged, SharedExpertRankNum, MoeExpertNum, EpWorldSize,
         RecvWinBlockNum, FlagRepeat
<1>3. flagged \in Int
  <2>1. RecvWinBlockNum \in Nat /\ FlagRepeat \in Nat \ {0}
    BY MoeAssumption DEF RecvWinBlockNum, EpWorldSize, FlagRepeat
  <2>2. RecvWinBlockNum \div FlagRepeat \in Nat
    BY Zenon, <2>1, Division
  <2> QED
    BY <2>1, <2>2
<1> HIDE DEF E
<1>4. i \in 0 .. E - 1
  <2>1. i \in Share(E, AivNum, c)
    BY Zenon DEF E
  <2> QED
    BY Zenon, <1>1, <2>1, ShareFacts
<1> HIDE DEF flagged
<1>5. i < flagged
  BY <1>1, <1>2, <1>3, <1>4
<1> QED
  BY Zenon, <1>5 DEF statusFlag, flagged

(* The words and the waits under a step of one core.                        *)
LEMMA CoreStepSignals ==
  ASSUME EveryWordFlagged, SumsTell, Inductive, NEW r \in Ranks, NEW c \in Cores, CoreStep(r, c)
  PROVE  FlagsOK' /\ WaitsOK'
<1>1. CountersOK /\ BitsOK /\ FlagsOK /\ WaitsOK /\ PhasesOK /\ op \in Deployments
  BY Zenon DEF Inductive, PhasesOK, CountersOK
<1>2. /\ op' = op
      /\ \A step \in CountedSteps :
           AtStep(r, c, step) => pc[r][c] = Place(step) /\ Counts(r, c, step)
      /\ AtStep(r, c, "LocalWindowCopy") => CountsNothing
      /\ AtStep(r, c, "CombineWindowCopy") => CountsNothing
  BY Zenon, <1>1, CoreStepFacts
<1>3. ASSUME NEW h \in {0, 1}, AtStep(r, c, InitStep(h)), UNCHANGED status
      PROVE  FlagsOK' /\ WaitsOK'
  <2>1. Counts(r, c, InitStep(h))
    BY Zenon, <1>2, <1>3, StepFacts
  <2>2. FlagsOK'
    BY Zenon, <1>1, <1>2, <1>3, <2>1, FlagsStable, StepFacts
  <2>3. WaitsOK'
    BY ZenonT(30), <1>1, <1>2, <2>1, WaitsStable, StepFacts
  <2> QED
    BY Zenon, <2>2, <2>3
<1>4. ASSUME NEW h \in {0, 1}, AtStep(r, c, WaitStep(h)), UNCHANGED status,
             FlagsArrived(r, c, Awaited(r, c, h))
      PROVE  FlagsOK' /\ WaitsOK'
  <2>1. pc[r][c] = Place(WaitStep(h)) /\ Counts(r, c, WaitStep(h))
    BY Zenon, <1>2, <1>4, StepFacts
  <2>2. FlagsOK'
    BY Zenon, <1>1, <1>2, <1>4, <2>1, FlagsStable, StepFacts
  <2>3. WaitsOK'
    BY ZenonT(30), <1>1, <1>2, <1>4, <2>1, WaitPassed
  <2> QED
    BY Zenon, <2>2, <2>3
<1>5. ASSUME NEW h \in {0, 1}, AtStep(r, c, SetStep(h)),
             NEW ws, status' = Written(status, ws),
             \A w \in ws : \E a \in Announced(r, c, h) :
               w[1] = <<a[1], h, a[2]>> /\ w[2].flag = launch[r] % 2,
             \A a \in Announced(r, c, h) : \E w \in ws : w[1] = <<a[1], h, a[2]>>
      PROVE  FlagsOK' /\ WaitsOK'
  <2>1. pc[r][c] = Place(SetStep(h)) /\ Counts(r, c, SetStep(h))
    BY Zenon, <1>2, <1>5, StepFacts
  <2>2. FlagsOK'
    BY <1>1, <1>2, <1>5, <2>1, SetFlags
  <2>3. WaitsOK'
    BY Zenon, <1>1, <1>2, <2>1, WaitsStable, StepFacts
  <2> QED
    BY Zenon, <2>2, <2>3
<1>6. \A h \in {0, 1} : AtStep(r, c, SetStep(h)) =>
        dataState(r, c) = h /\ sumTarget(r, c) = launch[r] % 2
  BY Zenon, <1>1, <1>2, StepFacts, Target
<1>7. CASE AlltoAllDispatch(r, c)
  BY Zenon, <1>3, <1>7, StepFacts DEF AlltoAllDispatch
<1>8. CASE ExpertAlltoAll(r, c)
  BY Zenon, <1>3, <1>8, StepFacts DEF ExpertAlltoAll
<1>9. CASE WaitDispatch(r, c)
  BY Zenon, <1>4, <1>9, StepFacts DEF WaitDispatch, Awaited
<1>10. CASE CombineWait(r, c)
  BY Zenon, <1>4, <1>10, StepFacts DEF CombineWait, Awaited
<1>11. CASE LocalWindowCopy(r, c)
  BY Zenon, <1>1, <1>2, <1>11, QuietSignals DEF LocalWindowCopy
<1>12. CASE CombineWindowCopy(r, c)
  BY Zenon, <1>1, <1>2, <1>12, QuietSignals DEF CombineWindowCopy
<1>13. CASE SetStatus(r, c)
  <2> DEFINE entries == Share(SharedExpertRankNum + MoeExpertNum, AivNum, c)
             address(i) == <<StatusAddress(r, i)[1], dataState(r, c), StatusAddress(r, i)[2]>>
             word(i) == [flag |-> statusFlag(r, c, i), count |-> statusCount(r, i)]
  <2>1. AtStep(r, c, SetStep(0)) /\ dataState(r, c) = 0 /\ sumTarget(r, c) = launch[r] % 2
    BY Zenon, <1>6, <1>13, StepFacts DEF SetStatus
  <2>2. \A i \in entries : statusFlag(r, c, i) = launch[r] % 2
    BY Zenon, <1>1, <2>1, FlagGiven
  <2>3. PICK ws : status' = Written(status, ws) /\ ws = {<<address(i), word(i)>> : i \in entries}
    BY Zenon, <1>13 DEF SetStatus
  <2>4. \A i : word(i).flag = statusFlag(r, c, i)
    BY Zenon
  <2> HIDE DEF word, entries
  <2>5. Announced(r, c, 0) = {StatusAddress(r, i) : i \in entries}
    BY Zenon DEF Announced, entries
  <2>6. \A i : address(i) = <<StatusAddress(r, i)[1], 0, StatusAddress(r, i)[2]>>
    BY Zenon, <2>1
  <2> HIDE DEF address
  <2>7. ASSUME NEW w \in ws
        PROVE  \E a \in Announced(r, c, 0) :
                 w[1] = <<a[1], 0, a[2]>> /\ w[2].flag = launch[r] % 2
    <3>1. PICK i \in entries : w = <<address(i), word(i)>>
      BY Zenon, <2>3
    <3>2. w[1] = address(i) /\ w[2] = word(i)
      BY Zenon, <3>1
    <3>3. w[2].flag = launch[r] % 2
      BY Zenon, <2>2, <2>4, <3>2
    <3>4. w[1] = <<StatusAddress(r, i)[1], 0, StatusAddress(r, i)[2]>>
      BY Zenon, <2>6, <3>2
    <3> QED
      BY Zenon, <2>5, <3>3, <3>4
  <2>8. ASSUME NEW a \in Announced(r, c, 0) PROVE \E w \in ws : w[1] = <<a[1], 0, a[2]>>
    <3>1. PICK i \in entries : a = StatusAddress(r, i)
      BY Zenon, <2>5
    <3>2. <<address(i), word(i)>> \in ws
      BY Zenon, <2>3
    <3>3. <<address(i), word(i)>>[1] = <<a[1], 0, a[2]>>
      BY Zenon, <2>6, <3>1
    <3> QED
      BY Zenon, <3>2, <3>3
  <2> QED
    BY Zenon, <1>5, <2>1, <2>3, <2>7, <2>8
<1>14. CASE CombineSetStatus(r, c)
  <2> DEFINE ranks == Share(EpWorldSize, AivNum, c)
             address(ep) == <<ep, dataState(r, c), r>>
             word(ep) == [flag |-> sumTarget(r, c),
                          count |-> status[<<ep, dataState(r, c), r>>].count]
  <2>1. AtStep(r, c, SetStep(1)) /\ dataState(r, c) = 1 /\ sumTarget(r, c) = launch[r] % 2
    BY Zenon, <1>6, <1>14, StepFacts DEF CombineSetStatus
  <2>2. PICK ws : status' = Written(status, ws) /\ ws = {<<address(ep), word(ep)>> : ep \in ranks}
    BY Zenon, <1>14 DEF CombineSetStatus
  <2>3. \A ep : word(ep).flag = launch[r] % 2
    BY Zenon, <2>1
  <2>4. \A ep : address(ep) = <<<<ep, r>>[1], 1, <<ep, r>>[2]>>
    BY Zenon, <2>1
  <2> HIDE DEF word, ranks, address
  <2>5. Announced(r, c, 1) = {<<ep, r>> : ep \in ranks}
    BY DEF Announced, ranks
  <2>6. ASSUME NEW w \in ws
        PROVE  \E a \in Announced(r, c, 1) :
                 w[1] = <<a[1], 1, a[2]>> /\ w[2].flag = launch[r] % 2
    <3>1. PICK ep \in ranks : w = <<address(ep), word(ep)>>
      BY Zenon, <2>2
    <3>2. w[1] = address(ep) /\ w[2] = word(ep)
      BY Zenon, <3>1
    <3>3. w[1] = <<<<ep, r>>[1], 1, <<ep, r>>[2]>> /\ w[2].flag = launch[r] % 2
      BY Zenon, <2>3, <2>4, <3>2
    <3> QED
      BY Zenon, <2>5, <3>3
  <2>7. ASSUME NEW a \in Announced(r, c, 1) PROVE \E w \in ws : w[1] = <<a[1], 1, a[2]>>
    <3>1. PICK ep \in ranks : a = <<ep, r>>
      BY Zenon, <2>5
    <3>2. <<address(ep), word(ep)>> \in ws
      BY Zenon, <2>2
    <3>3. <<address(ep), word(ep)>>[1] = <<a[1], 1, a[2]>>
      BY Zenon, <2>4, <3>1
    <3> QED
      BY Zenon, <3>2, <3>3
  <2> QED
    BY Zenon, <1>5, <2>1, <2>2, <2>6, <2>7
<1> QED
  BY ZenonT(30), <1>7, <1>8, <1>9, <1>10, <1>11, <1>12, <1>13, <1>14 DEF CoreStep

(* Every step preserves the phases, and the words and the waits with them.  *)
LEMMA NextInductive ==
  ASSUME [Next]_vars, PhasesOK
  PROVE  /\ PhasesOK'
         /\ EveryWordFlagged /\ SumsTell /\ FlagsOK /\ WaitsOK => FlagsOK' /\ WaitsOK'
<1> DEFINE Goal == /\ PhasesOK'
                   /\ EveryWordFlagged /\ SumsTell /\ FlagsOK /\ WaitsOK => FlagsOK' /\ WaitsOK'
<1>1. CountersOK /\ BitsOK /\ BarriersOK /\ op \in Deployments
  BY Zenon DEF PhasesOK, CountersOK
<1>2. ASSUME op' = op, CountersOK', BarriersOK', CountsNothing,
             UNCHANGED <<data_state, self_status, status>>
      PROVE  Goal
  <2>1. BitsOK'
    BY Zenon, <1>1, <1>2, QuietBits
  <2>2. FlagsOK /\ WaitsOK => FlagsOK' /\ WaitsOK'
    BY Zenon, <1>2, QuietSignals
  <2> QED
    BY Zenon, <1>2, <2>1, <2>2 DEF PhasesOK
<1>3. ASSUME NEW r \in Ranks, Launch(r) PROVE Goal
  <2>1. op' = op /\ UNCHANGED <<data_state, self_status, status>>
    BY Zenon, <1>3 DEF Launch
  <2>2. CountersOK' /\ BarriersOK' /\ CountsNothing
    BY Zenon, <1>1, <1>3, LaunchMoves
  <2> HIDE DEF Goal
  <2> QED
    BY Zenon, <1>2, <2>1, <2>2
<1>4. ASSUME NEW r \in Ranks, SyncAll(r) PROVE Goal
  <2>1. 0 \in Cores /\ \A c \in Cores : pc[r][c] \in 1 .. 13
    <3>1. Cores = 0 .. AivNum - 1 /\ AivNum \in Nat \ {0}
      BY Zenon, <1>1, OpFacts
    <3> QED
      BY <1>1, <3>1, KernelFacts DEF CountersOK
  <2>2. PICK b : b = pc[r][0]
    BY Zenon
  <2>3. b \in {2, 5, 7, 11} /\ \A c \in Cores : pc[r][c] = b
    BY <1>4, <2>1, <2>2, KernelFacts DEF SyncAll, AtStep
  <2>4. /\ op' = op /\ launch' = launch /\ UNCHANGED <<data_state, self_status, status>>
        /\ pc' = [pc EXCEPT ![r] = [c \in Cores |-> pc[r][c] + 1]]
    BY Zenon, <1>4 DEF SyncAll
  <2>5. CountersOK' /\ BarriersOK' /\ CountsNothing
    BY Zenon, <1>1, <2>3, <2>4, BarrierMoves
  <2> HIDE DEF Goal
  <2> QED
    BY Zenon, <1>2, <2>4, <2>5
<1>5. ASSUME NEW r \in Ranks, GroupedMatmul(r) PROVE Goal
  <2>1. \A c \in Cores : pc[r][c] = 7
    BY <1>5, KernelFacts DEF GroupedMatmul, AtStep
  <2>2. /\ op' = op /\ launch' = launch /\ UNCHANGED <<data_state, self_status, status>>
        /\ pc' = [pc EXCEPT ![r] = [c \in Cores |-> pc[r][c] + 1]]
    BY Zenon, <1>5 DEF GroupedMatmul
  <2>3. CountersOK' /\ BarriersOK' /\ CountsNothing
    BY Zenon, <1>1, <2>1, <2>2, BarrierMoves
  <2> HIDE DEF Goal
  <2> QED
    BY Zenon, <1>2, <2>2, <2>3
<1>6. ASSUME UNCHANGED vars PROVE Goal
  <2>1. op' = op /\ launch' = launch /\ pc' = pc
        /\ UNCHANGED <<data_state, self_status, status>>
    BY Zenon, <1>6 DEF vars
  <2>2. CountersOK' /\ BarriersOK' /\ CountsNothing
    BY Zenon, <1>1, <2>1, SizesStay DEF CountersOK, BarriersOK, CountsNothing, Passed
  <2> HIDE DEF Goal
  <2> QED
    BY Zenon, <1>2, <2>1, <2>2
<1>7. ASSUME NEW r \in Ranks, NEW c \in Cores, CoreStep(r, c) PROVE Goal
  BY Zenon, <1>7, CoreStepPhases, CoreStepSignals DEF Inductive
<1> HIDE DEF Goal
<1>8. Goal
  BY Zenon, <1>3, <1>4, <1>5, <1>6, <1>7 DEF Next
<1> QED
  BY Zenon, <1>8 DEF Goal

(* The invariant says what WindowsFree says.                                *)
LEMMA InductiveFree ==
  ASSUME Inductive
  PROVE  WindowsFree
<1>1. /\ CountersOK /\ BarriersOK /\ WaitsOK /\ op \in Deployments
      /\ pc \in [Ranks -> [Cores -> 1 .. 13]] /\ launch \in [Ranks -> Nat]
  BY Zenon, KernelFacts DEF Inductive, PhasesOK, CountersOK
<1> SUFFICES ASSUME NEW r \in Ranks, NEW s \in Ranks, NEW c \in Cores, NEW d \in Cores,
                    launch[s] < launch[r]
             PROVE  /\ launch[s] = launch[r] - 1
                    /\ launch[r] > 1 => pc[s][d] > Place("LocalWindowCopy")
                    /\ pc[s][d] < Ended => pc[r][c] <= Place("ExpertAlltoAll")
  BY Zenon DEF WindowsFree
<1>4. ASSUME NEW h \in {0, 1}
      PROVE  \E x, y \in Cores : Passed(r, x, WaitStep(h)) <= Passed(s, y, SetStep(h))
  <2>1. \E x, y \in Cores : \E w \in Awaited(r, x, h) : <<r, w>> \in Announced(s, y, h)
    <3>1. op \in Deployments
      BY Zenon, <1>1
    <3>2. \A q, p \in Ranks : \E x, y \in Cores : \E w \in Awaited(q, x, h) :
            <<q, w>> \in Announced(p, y, h)
      BY Zenon, <3>1, SignalFacts
    <3> QED
      BY Zenon, <3>2
  <2> QED
    BY Zenon, <1>1, <2>1 DEF WaitsOK
<1>5. /\ launch[r] \in Nat /\ launch[s] \in Nat
      /\ \A x \in Cores : pc[r][x] \in Nat /\ pc[s][x] \in Nat
  BY <1>1
<1>6. launch[s] = launch[r] - 1 /\ \E y \in Cores : pc[s][y] > 9
  <2>1. PICK x \in Cores, y \in Cores : Passed(r, x, WaitStep(1)) <= Passed(s, y, SetStep(1))
    BY Zenon, <1>4
  <2>2. Passed(r, x, WaitStep(1)) >= launch[r] - 1 /\ Passed(r, x, WaitStep(1)) \in Int
    BY <1>5 DEF Passed
  <2>3. Passed(s, y, SetStep(1)) = launch[s] - (IF pc[s][y] > 9 THEN 0 ELSE 1)
    BY Zenon, StepFacts, Places DEF Passed
  <2> QED
    BY <1>5, <2>1, <2>2, <2>3
<1>7. pc[s][d] > 7
  BY <1>1, <1>5, <1>6, Places DEF BarriersOK
<1>8. pc[r][c] <= 8
  <2> SUFFICES ASSUME pc[r][c] > 8 PROVE FALSE
    BY <1>5
  <2>1. PICK x \in Cores, y \in Cores : Passed(r, x, WaitStep(0)) <= Passed(s, y, SetStep(0))
    BY Zenon, <1>4
  <2>2. pc[r][x] > 5
    BY <1>1, <1>5, Places DEF BarriersOK
  <2>3. Passed(r, x, WaitStep(0)) = launch[r]
    BY <1>5, <2>2, StepFacts, Places DEF Passed
  <2>4. Passed(s, y, SetStep(0)) <= launch[s] /\ Passed(s, y, SetStep(0)) \in Int
    BY <1>5 DEF Passed
  <2> QED
    BY <1>5, <2>1, <2>3, <2>4
<1> QED
  BY <1>5, <1>6, <1>7, <1>8, Places

(* The phases say what CoresInStep says: the bit and the flag of a core are *)
(* functions of the launch and the phase.                                   *)
LEMMA PhasesInStep ==
  ASSUME PhasesOK
  PROVE  CoresInStep
<1>1. BitsOK /\ launch \in [Ranks -> Nat]
  BY Zenon DEF PhasesOK, CountersOK
<1> SUFFICES ASSUME NEW r \in Ranks, NEW s \in Ranks, NEW c \in Cores, NEW d \in Cores,
                    launch[r] = launch[s],
                    (pc[r][c] > 8) = (pc[s][d] > 8), (pc[r][c] > 1) = (pc[s][d] > 1)
             PROVE  dataState(r, c) = dataState(s, d) /\ sumTarget(r, c) = sumTarget(s, d)
  BY Places DEF CoresInStep
<1>2. \A h \in {0, 1} : Passed(r, c, InitStep(h)) = Passed(s, d, InitStep(h))
  BY Zenon, <1>1, StepFacts, Places DEF Passed
<1>3. data_state[r][c] = data_state[s][d] /\ data_state[r][c] \in {0, 1}
  BY <1>1, <1>2 DEF BitsOK
<1>4. dataState(r, c) = dataState(s, d) /\ dataState(r, c) \in {0, 1}
  BY <1>3 DEF dataState
<1>5. \A h \in {0, 1} : self_status[r][c][h] = self_status[s][d][h]
  BY <1>1, <1>2 DEF BitsOK
<1> QED
  BY Zenon, <1>4, <1>5 DEF sumTarget

=============================================================================
