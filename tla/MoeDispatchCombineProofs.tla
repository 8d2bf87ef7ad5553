---------------------- MODULE MoeDispatchCombineProofs ----------------------
(* Why two window halves and one alternating flag are enough: WindowsFree   *)
(* and CoresInStep of MoeDispatchCombine, for any number of ranks, cores,   *)
(* experts, tokens and launches.                                            *)
EXTENDS MoeDispatchCombineSignals, FiniteSetTheorems

(* Every flag is 0 or 1, so when the sum is the target every flag is.       *)
LEMMA SumsTellFlags ==
  ASSUME CountersOK, BitsOK, FlagsOK
  PROVE  SumsTell
<1> SUFFICES ASSUME NEW r \in Ranks, NEW c \in Cores, NEW h \in {0, 1},
                    pc[r][c] = Place(WaitStep(h)), FlagsArrived(r, c, Awaited(r, c, h))
             PROVE  \A w \in Awaited(r, c, h) : status[<<r, h, w>>].flag = launch[r] % 2
  BY Zenon DEF SumsTell
<1> DEFINE words == Awaited(r, c, h)
           raised == {w \in words : status[<<r, h, w>>].flag = 1}
<1>1. op \in Deployments /\ launch[r] \in Nat
  BY Zenon DEF CountersOK
<1>2. dataState(r, c) = h /\ sumTarget(r, c) = launch[r] % 2
  BY Zenon, Target
<1>3. Cardinality(raised) = (launch[r] % 2) * Cardinality(words)
  BY Zenon, <1>2 DEF FlagsArrived
<1>4. IsFiniteSet(words)
  <2>3. \A q \in Ranks : \A d \in Cores : \E n \in Nat : Awaited(q, d, h) \subseteq 0 .. n - 1
    BY Zenon, <1>1, SignalFacts
  <2>1. PICK n \in Nat : words \subseteq 0 .. n - 1
    BY Zenon, <2>3
  <2>2. IsFiniteSet(0 .. n - 1)
    BY FS_Interval
  <2> QED
    BY Zenon, <2>1, <2>2, FS_Subset
<1>5. /\ raised \subseteq words /\ IsFiniteSet(raised)
      /\ Cardinality(words) \in Nat /\ Cardinality(raised) \in Nat
      /\ Cardinality(raised) = 0 => raised = {}
      /\ Cardinality(raised) = Cardinality(words) => raised = words
  BY Zenon, <1>4, FS_Subset, FS_EmptySet, FS_CardinalityType
<1>6. ASSUME NEW w \in words PROVE status[<<r, h, w>>].flag \in {0, 1}
  <2>1. PICK s \in Ranks, d \in Cores : <<r, w>> \in Announced(s, d, h)
    BY <1>1, SignalFacts
  <2>2. status[<<<<r, w>>[1], h, <<r, w>>[2]>>].flag = Passed(s, d, SetStep(h)) % 2
    BY Zenon, <2>1 DEF FlagsOK
  <2>3. Passed(s, d, SetStep(h)) \in Int
    BY DEF Passed, CountersOK
  <2> QED
    BY <2>2, <2>3
<1>7. launch[r] % 2 \in {0, 1}
  BY <1>1
<1>8. CASE launch[r] % 2 = 0
  <2>1. raised = {}
    BY <1>3, <1>5, <1>8
  <2> QED
    BY Zenon, <1>6, <1>8, <2>1
<1>9. CASE launch[r] % 2 = 1
  <2>1. raised = words
    BY <1>3, <1>5, <1>9
  <2> QED
    BY Zenon, <1>9, <2>1
<1> QED
  BY Zenon, <1>7, <1>8, <1>9

(* The bits, flags and barriers of the cores, for every number of ranks,    *)
(* cores, experts, tokens and launches (Init of CamMoeDistributeDispatch    *)
(* and CamMoeDistributeCombine).                                            *)
THEOREM Phases == Spec => []PhasesOK
<1>1. Init => PhasesOK
  BY Zenon, InitInductive DEF Inductive
<1>2. PhasesOK /\ [Next]_vars => PhasesOK'
  BY Zenon, NextInductive
<1> QED
  BY <1>1, <1>2, PTL DEF Spec

(* The words and the waits with them, when every word gets its flag: the    *)
(* windows of CamMoeDistributeDispatch and CamMoeDistributeCombine.         *)
THEOREM Invariance ==
  ASSUME EveryWordFlagged
  PROVE  Spec => []Inductive
<1>1. Init => Inductive
  BY Zenon, InitInductive
<1>2. Inductive /\ [Next]_vars => Inductive'
  BY Zenon, NextInductive, SumsTellFlags DEF Inductive, PhasesOK
<1> QED
  BY <1>1, <1>2, PTL DEF Spec

(* WindowsFree for every number of ranks, cores, experts, tokens and        *)
(* launches: when every word gets its flag, no rank writes into a half of a *)
(* window that its owner still has to read, though nothing acknowledges a   *)
(* read (the two halves of winDataSizeOffset_).                             *)
THEOREM WindowsFreeHolds ==
  ASSUME EveryWordFlagged
  PROVE  Spec => []WindowsFree
<1>1. Inductive => WindowsFree
  BY Zenon, InductiveFree
<1> QED
  BY <1>1, Invariance, PTL

(* CoresInStep for every number of ranks, cores, experts, tokens and        *)
(* launches: what one core announces is what another waits for (dataState_  *)
(* and sumTarget_ of every core).                                           *)
THEOREM CoresInStepHolds == Spec => []CoresInStep
<1>1. PhasesOK => CoresInStep
  BY Zenon, PhasesInStep
<1> QED
  BY <1>1, Phases, PTL

-----------------------------------------------------------------------------
(* The tokens for the shared expert.                                        *)

(* A quotient is the largest number that many times fits.                   *)
LEMMA Floor ==
  ASSUME NEW a \in Nat, NEW b \in Nat \ {0}, NEW n \in Nat
  PROVE  a \div b \in Nat /\ (n <= a \div b <=> b * n <= a)
<1>1. PICK q \in Nat, m \in 0 .. b - 1 : q = a \div b /\ m = a % b /\ a = b * q + m
  BY Zenon, Division
<1>2. b * q \in Nat /\ b * n \in Nat
  OBVIOUS
<1>3. q < n => b * q + b <= b * n
  BY Monotone
<1>4. n < q => b * n + b <= b * q
  BY Monotone
<1>5. n = q => b * n = b * q
  OBVIOUS
<1> QED
  BY <1>1, <1>2, <1>3, <1>4, <1>5

(* A quotient rounded up is the smallest number that many times covers.     *)
LEMMA Ceiled ==
  ASSUME NEW a \in Nat \ {0}, NEW b \in Nat \ {0}
  PROVE  /\ Ceil(a, b) \in Nat \ {0}
         /\ b * (Ceil(a, b) - 1) < a /\ a <= b * Ceil(a, b)
<1>1. PICK x \in Nat : x = a + b - 1
  OBVIOUS
<1>2. PICK q \in Nat, m \in 0 .. b - 1 : q = x \div b /\ m = x % b /\ x = b * q + m
  BY Zenon, Division
<1>3. b * q \in Nat /\ b * (q - 1) = b * q - b
  OBVIOUS
<1>4. q # 0
  BY <1>1, <1>2
<1>5. Ceil(a, b) = q
  BY <1>1, <1>2 DEF Ceil
<1> QED
  BY <1>1, <1>2, <1>3, <1>4, <1>5

(* SendToSharedExpert deals the tokens of a rank to the shared expert ranks *)
(* as AlltoAllDispatch announces them, in every deployment: the places      *)
(* announced are filled, each by one token, unless a mask leaves tokens out.*)
THEOREM SharedPlacesFilledHolds ==
  ASSUME op \in Deployments, SharedExpertRankNum > 0, NEW r \in Nat
  PROVE  SharedPlacesFilled(r)
<1> PICK S \in Nat \ {0}, B \in Nat \ {0} : S = op.shared /\ B = op.bs
  BY MoeAssumption DEF SharedExpertRankNum
<1> SUFFICES ASSUME op.active = B
             PROVE  SharedPlacesFilled(r)
  BY Zenon DEF SharedPlacesFilled
<1> DEFINE F(x) == (x * B) \div S
           A == F(r)
           To(t) == moeOnShareRank(r, t)
<1>1. ASSUME NEW x \in Nat, NEW n \in Nat
      PROVE  F(x) \in Nat /\ (n <= F(x) <=> S * n <= B * x)
  <2>1. x * B \in Nat /\ x * B = B * x
    OBVIOUS
  <2> QED
    BY Zenon, <2>1, Floor
<1>2. ASSUME NEW x \in Nat, NEW y \in Nat, x <= y
      PROVE  F(x) <= F(y)
  <2>1. F(x) \in Nat /\ F(y) \in Nat /\ S * F(x) <= B * x
    <3>1. F(x) \in Nat /\ F(y) \in Nat
      BY Zenon, <1>1
    <3>2. F(x) <= F(x)
      BY <3>1
    <3> QED
      BY Zenon, <1>1, <3>1, <3>2
  <2>2. B * x <= B * y
    <3>1. x = y \/ x < y
      BY <1>2
    <3>2. x < y => B * x + B <= B * y
      BY Monotone
    <3>3. B * x \in Nat /\ B * y \in Nat
      OBVIOUS
    <3> QED
      BY <3>1, <3>2, <3>3
  <2>3. PICK f \in Nat : f = F(x)
    BY Zenon, <2>1
  <2>4. S * f <= B * y
    <3>1. S * f \in Nat /\ B * x \in Nat /\ B * y \in Nat
      OBVIOUS
    <3> QED
      BY <2>1, <2>2, <2>3, <3>1
  <2> QED
    BY Zenon, <1>1, <2>3, <2>4
<1>3. F(r + S) = A + B
  <2>1. PICK y \in Nat : y = r * B
    OBVIOUS
  <2>2. PICK q \in Nat, m \in 0 .. S - 1 : q = y \div S /\ y = S * q + m
    <3>1. y \div S \in Nat /\ y % S \in 0 .. S - 1 /\ y = S * (y \div S) + (y % S)
      BY Zenon, Division
    <3> QED
      BY Zenon, <3>1
  <2>3. (r + S) * B = S * (q + B) + m
    <3>1. (r + S) * B = r * B + S * B /\ S * (q + B) = S * q + S * B
      OBVIOUS
    <3>2. S * B \in Nat /\ S * q \in Nat
      OBVIOUS
    <3> QED
      BY <2>1, <2>2, <3>1, <3>2
  <2>4. PICK z \in Nat : z = (r + S) * B
    OBVIOUS
  <2>5. PICK p \in Nat, l \in 0 .. S - 1 : p = z \div S /\ z = S * p + l
    <3>1. z \div S \in Nat /\ z % S \in 0 .. S - 1 /\ z = S * (z \div S) + (z % S)
      BY Zenon, Division
    <3> QED
      BY Zenon, <3>1
  <2>6. PICK k \in Nat : k = q + B
    OBVIOUS
  <2>7. S * k \in Nat /\ S * p \in Nat
    OBVIOUS
  <2>8. (k < p => S * k + S <= S * p) /\ (p < k => S * p + S <= S * k)
    BY Zenon, Monotone
  <2>9. p = k
    BY <2>3, <2>4, <2>5, <2>6, <2>7, <2>8
  <2> QED
    BY Zenon, <2>1, <2>2, <2>4, <2>5, <2>6, <2>9
<1>4. A \in Nat
  BY Zenon, <1>1
<1>5. ASSUME NEW t \in 0 .. B - 1
      PROVE  To(t) \in 0 .. S - 1 /\ F(To(t) + r) <= t + A /\ t + A < F(To(t) + r + 1)
  <2>1. PICK n \in Nat : n = t + 1 + A
    BY <1>4
  <2>2. n * S \in Nat \ {0}
    BY <1>4, <2>1
  <2>3. PICK k \in Nat \ {0} : k = Ceil(n * S, B) /\ B * (k - 1) < n * S /\ n * S <= B * k
    BY Zenon, <2>2, Ceiled
  <2>4. To(t) = k - 1 - r
    BY <2>1, <2>3 DEF moeOnShareRank
  <2>5. PICK j \in Nat : j = k - 1
    BY <2>3
  <2>6. n * S = S * n /\ S * n \in Nat /\ B * j \in Nat /\ B * k \in Nat
    OBVIOUS
  <2>7. n <= F(k) /\ ~(n <= F(j))
    <3>1. S * n <= B * k /\ ~(S * n <= B * j)
      BY <2>3, <2>5, <2>6
    <3>2. k \in Nat
      OBVIOUS
    <3> QED
      BY Zenon, <1>1, <3>1, <3>2
  <2>8. F(j) \in Nat /\ F(k) \in Nat
    BY Zenon, <1>1
  <2>9. r < k
    <3>1. k <= r => F(k) <= A
      BY Zenon, <1>2
    <3> HIDE DEF F, A
    <3> QED
      BY <1>4, <2>1, <2>7, <2>8, <3>1
  <2>10. j < r + S
    <3>1. r + S <= j => F(r + S) <= F(j)
      <4>1. r + S \in Nat
        OBVIOUS
      <4> QED
        BY Zenon, <1>2, <4>1
    <3> HIDE DEF F, A
    <3> QED
      BY <1>3, <1>4, <2>1, <2>7, <2>8, <3>1
  <2>11. To(t) \in 0 .. S - 1 /\ To(t) + r = j /\ To(t) + r + 1 = k
    BY <2>4, <2>5, <2>9, <2>10
  <2> HIDE DEF F, A, To
  <2> QED
    BY <1>4, <2>1, <2>7, <2>8, <2>11
<1>6. ASSUME NEW t \in 0 .. B - 1, NEW s \in 0 .. S - 1,
             F(s + r) <= t + A, t + A < F(s + r + 1)
      PROVE  To(t) = s
  <2>1. PICK p \in 0 .. S - 1 : p = To(t)
    BY Zenon, <1>5
  <2>2. p \in 0 .. S - 1 /\ F(p + r) <= t + A /\ t + A < F(p + r + 1)
    BY Zenon, <1>5, <2>1
  <2>3. p + r \in Nat /\ p + r + 1 \in Nat /\ s + r \in Nat /\ s + r + 1 \in Nat
    BY <2>2
  <2>4. /\ p + r + 1 <= s + r => F(p + r + 1) <= F(s + r)
        /\ s + r + 1 <= p + r => F(s + r + 1) <= F(p + r)
    BY Zenon, <1>2, <2>3
  <2>5. F(p + r) \in Nat /\ F(p + r + 1) \in Nat /\ F(s + r) \in Nat /\ F(s + r + 1) \in Nat
    BY Zenon, <1>1, <2>3
  <2> HIDE DEF F, A
  <2> QED
    BY <1>4, <1>6, <2>1, <2>2, <2>4, <2>5
<1>7. ASSUME NEW s \in 0 .. S - 1
      PROVE  /\ preCnt(r, s) = F(s + r) - A
             /\ curExpertCnt(r, s) = F(s + r + 1) - F(s + r)
             /\ F(s + r) \in Nat /\ F(s + r + 1) \in Nat
             /\ A <= F(s + r) /\ F(s + r + 1) <= A + B
  <2>1. s + 1 + r = s + r + 1
    OBVIOUS
  <2>2. s + r \in Nat /\ s + r + 1 \in Nat /\ r + S \in Nat /\ r <= s + r /\ s + r + 1 <= r + S
    OBVIOUS
  <2>3. preCnt(r, s) = F(s + r) - A /\ curExpertCnt(r, s) = F(s + r + 1) - F(s + r)
    BY <2>1 DEF preCnt, curExpertCnt
  <2>4. A <= F(s + r) /\ F(s + r + 1) <= F(r + S)
    BY Zenon, <1>2, <2>2
  <2>5. F(s + r) \in Nat /\ F(s + r + 1) \in Nat
    BY Zenon, <1>1, <2>2
  <2> QED
    BY Zenon, <1>3, <2>3, <2>4, <2>5
<1>8. ASSUME NEW t \in 0 .. B - 1
      PROVE  /\ To(t) \in 0 .. S - 1
             /\ t - preCnt(r, To(t)) \in 0 .. curExpertCnt(r, To(t)) - 1
             /\ preCnt(r, To(t)) \in Int
  <2>1. PICK s \in 0 .. S - 1 : s = To(t)
    BY Zenon, <1>5
  <2>2. F(s + r) <= t + A /\ t + A < F(s + r + 1)
    BY Zenon, <1>5, <2>1
  <2>3. t - preCnt(r, s) \in 0 .. curExpertCnt(r, s) - 1 /\ preCnt(r, s) \in Int
    <3>1. /\ preCnt(r, s) = F(s + r) - A
          /\ curExpertCnt(r, s) = F(s + r + 1) - F(s + r)
          /\ F(s + r) \in Nat /\ F(s + r + 1) \in Nat
      BY Zenon, <1>7
    <3> HIDE DEF F, A
    <3> QED
      BY <1>4, <2>2, <3>1
  <2> HIDE DEF To
  <2> QED
    BY Zenon, <2>1, <2>3
<1>9. ASSUME NEW s \in 0 .. S - 1, NEW i \in 0 .. curExpertCnt(r, s) - 1
      PROVE  \E t \in 0 .. B - 1 : <<s, i>> = <<To(t), t - preCnt(r, To(t))>>
  <2>1. /\ preCnt(r, s) = F(s + r) - A
        /\ curExpertCnt(r, s) = F(s + r + 1) - F(s + r)
        /\ F(s + r) \in Nat /\ F(s + r + 1) \in Nat
        /\ A <= F(s + r) /\ F(s + r + 1) <= A + B
    BY Zenon, <1>7
  <2>2. PICK t \in Int : t = (i + F(s + r)) - A
    <3> HIDE DEF F, A
    <3> QED
      BY <1>4, <2>1
  <2>3. /\ t \in 0 .. B - 1 /\ F(s + r) <= t + A /\ t + A < F(s + r + 1)
        /\ i = t - preCnt(r, s)
    <3> HIDE DEF F, A
    <3> QED
      BY <1>4, <2>1, <2>2
  <2>4. To(t) = s
    BY Zenon, <1>6, <2>3
  <2> QED
    BY Zenon, <2>3, <2>4
<1> HIDE DEF To, F, A
<1>10. {<<To(t), t - preCnt(r, To(t))>> : t \in 0 .. B - 1}
         = UNION {{<<s, i>> : i \in 0 .. curExpertCnt(r, s) - 1} : s \in 0 .. S - 1}
  <2>1. ASSUME NEW t \in 0 .. B - 1
        PROVE  <<To(t), t - preCnt(r, To(t))>>
                 \in UNION {{<<s, i>> : i \in 0 .. curExpertCnt(r, s) - 1} : s \in 0 .. S - 1}
    <3>1. PICK s \in 0 .. S - 1 : s = To(t)
      BY Zenon, <1>8
    <3>2. PICK i \in 0 .. curExpertCnt(r, s) - 1 : i = t - preCnt(r, To(t))
      BY Zenon, <1>8, <3>1
    <3>3. <<s, i>> \in {<<s, j>> : j \in 0 .. curExpertCnt(r, s) - 1}
      BY Zenon
    <3> QED
      BY <3>1, <3>2, <3>3
  <2>2. ASSUME NEW s \in 0 .. S - 1, NEW i \in 0 .. curExpertCnt(r, s) - 1
        PROVE  <<s, i>> \in {<<To(t), t - preCnt(r, To(t))>> : t \in 0 .. B - 1}
    BY Zenon, <1>9
  <2> QED
    BY <2>1, <2>2
<1>11. ASSUME NEW t \in 0 .. B - 1, NEW u \in 0 .. B - 1, t # u, To(t) = To(u)
       PROVE  preCnt(r, To(t)) - t # preCnt(r, To(u)) - u
  BY <1>8, <1>11
<1> QED
  BY Zenon, <1>10, <1>11 DEF SharedPlacesFilled, To
=============================================================================
