----------------------------- MODULE MoeSharing -----------------------------
(* How the tokens of a rank are dealt to the ranks that hold the shared     *)
(* expert. Sender, receiver and combiner each work it out for themselves.   *)
EXTENDS Integers, FiniteSets

CONSTANTS SharedExpertRankNum,  \* ranks 0 .. that - 1 hold the shared expert
          BS,                   \* tokens of a rank in one launch
          ActiveBS              \* how many of them x_active_mask leaves on

Ceil(x, y) == (x + y - 1) \div y

(* The shared expert rank that serves token t of rank r, and the first of   *)
(* r's tokens that it serves.                                               *)
moeOnShareRank(r, t) ==
  Ceil((t + 1 + (r * ActiveBS) \div SharedExpertRankNum) * SharedExpertRankNum,
       ActiveBS) - 1 - r

preCnt_even(r, share) == (share * ActiveBS) \div SharedExpertRankNum

preCnt(r, share) ==
  ((share + r) * ActiveBS) \div SharedExpertRankNum
    - (r * ActiveBS) \div SharedExpertRankNum

(* The number of tokens rank r announces to a shared expert rank.           *)
curExpertCnt(r, share) ==
  ((share + 1 + r) * BS) \div SharedExpertRankNum
    - ((share + r) * BS) \div SharedExpertRankNum

-----------------------------------------------------------------------------
(* Without a mask, the tokens of a rank fill the places that the rank       *)
(* announces to each shared expert rank, one each and from 0 on: nothing    *)
(* is sent to a rank that has no shared expert, overwritten, or announced   *)
(* and not sent (SendToSharedExpert and the counts of AlltoAllDispatch).    *)
SharedPlacesFilled(r) ==
  BS = ActiveBS =>
    /\ {<<moeOnShareRank(r, t), t - preCnt(r, moeOnShareRank(r, t))>> :
          t \in 0 .. BS - 1}
       = UNION {{<<s, i>> : i \in 0 .. curExpertCnt(r, s) - 1} :
                  s \in 0 .. SharedExpertRankNum - 1}
    /\ \A t, u \in 0 .. BS - 1 : t # u =>
         \/ moeOnShareRank(r, t) # moeOnShareRank(r, u)
         \/ preCnt(r, moeOnShareRank(r, t)) - t # preCnt(r, moeOnShareRank(r, u)) - u
=============================================================================
