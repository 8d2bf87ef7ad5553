------------------------- MODULE MoeDispatchCombine -------------------------
(* The fused mixture-of-experts operator dispatch_gmm_combine_decode: every *)
(* rank sends its tokens into the windows of the ranks that hold the chosen *)
(* experts (dispatch), the experts run (grouped matmul), and the results go *)
(* back through the windows of the ranks the tokens came from (combine).    *)
(*                                                                          *)
(* There is no acknowledgement and nothing is ever cleared: a rank's window *)
(* has two halves, chosen by a bit that every core flips in each Init, and  *)
(* the words that announce a write carry a flag that alternates between 1   *)
(* and 0 from one use of a half to the next.                                *)
EXTENDS Integers, Sequences, FiniteSets, FiniteSetsExt

CONSTANTS MoeExpertNumPerRank,  \* experts on each rank without the shared one
          AivNum,               \* vector cores per rank
          Deployments           \* the sizes to look at, records of
                                \*   ranks: epWorldSize
                                \*   shared: sharedExpertRankNum
                                \*   bs: tokens of a rank in one launch
                                \*   active: of them, what x_active_mask leaves
                                \*   k: experts chosen per token
                                \*   routings: the tables expertIds may be
                                \*   repeat: status words of one vector repeat
                                \*   launches: bound on those of each rank

VARIABLES op,           \* the deployment that runs
          launch,       \* launch[r]: launches rank r has started
          pc,           \* pc[r][c]: next step of core c, an index of Kernel
          expertIds,    \* expertIds[r]: the routing of the present launch
          data_state,   \* data_state[r][c]: the bit that picks a window half
          self_status,  \* self_status[r][c][h]: last flag core c used on half h
          window,       \* window[<<r, h, slot, pos>>]: token in r's half h
          status,       \* status[<<r, h, i>>]: [flag, count] word i of r's half h
          expandX,      \* expandX[r]: the rows the experts of r work on
          sendCounts,   \* sendCounts[r]: running sum of the received counts
          out           \* out[r][t]: results the cores summed up for token t

vars == <<op, launch, pc, expertIds, data_state, self_status, window, status,
          expandX, sendCounts, out>>

EpWorldSize == op.ranks
SharedExpertRankNum == op.shared  \* ranks 0 .. that - 1 have the shared expert
BS == op.bs
ActiveBS == op.active
K == op.k
Routings == op.routings
FlagRepeat == op.repeat
MaxLaunches == op.launches

Ranks == 0 .. EpWorldSize - 1
Cores == 0 .. AivNum - 1
Tokens == 0 .. ActiveBS - 1
MoeExpertNum == (EpWorldSize - SharedExpertRankNum) * MoeExpertNumPerRank
RecvWinBlockNum == EpWorldSize * MoeExpertNumPerRank
Slots == 0 .. RecvWinBlockNum - 1
Rows == 0 .. RecvWinBlockNum * BS - 1

(* The index the model gives the shared expert. *)
SharedExpert == MoeExpertNum

ASSUME MoeAssumption ==
  /\ {MoeExpertNumPerRank, AivNum} \subseteq Nat \ {0}
  /\ \A d \in Deployments :
       /\ {d.ranks, d.bs, d.active, d.k, d.repeat, d.launches} \subseteq Nat \ {0}
       /\ d.shared \in 0 .. d.ranks - 1
       /\ d.shared > 0 => AivNum > 1
       /\ d.active <= d.bs
       /\ \A ids \in d.routings :
            /\ ids \in [0 .. d.active * d.k - 1 ->
                        -1 .. (d.ranks - d.shared) * MoeExpertNumPerRank - 1]
            /\ \A t, u \in DOMAIN ids :      \* top-k picks an expert once
                 t # u /\ t \div d.k = u \div d.k /\ ids[t] >= 0 => ids[t] # ids[u]

INSTANCE MoeSharing WITH SharedExpertRankNum <- op.shared, BS <- op.bs,
                         ActiveBS <- op.active

NoToken == <<>>
isShareExpertRank(r) == r < SharedExpertRankNum

(* The part of 0 .. total - 1 that worker i of n takes: equal shares, the   *)
(* remainder dealt to the first workers.                                    *)
Share(total, n, i) ==
  LET quotient == total \div n
      remainder == total % n
      start == quotient * i + (IF i < remainder THEN i ELSE remainder)
  IN start .. start + quotient + (IF i < remainder THEN 1 ELSE 0) - 1

sharedUsedAivNum ==
  IF SharedExpertRankNum = 0 THEN 0
  ELSE IF AivNum \div (K + 1) = 0 THEN 1 ELSE AivNum \div (K + 1)

moeUsedAivNum == AivNum - sharedUsedAivNum

-----------------------------------------------------------------------------
(* Where a token goes                                                       *)

(* How many entries before the t-th chose the same expert: the row of the   *)
(* token in the block of its rank and expert.                               *)
expertCount(ids, t) == Cardinality({u \in 0 .. t - 1 : ids[u] = ids[t]})

(* The same from the table of the vector path: a mark for every row and     *)
(* expert, added up from row to row.                                        *)
tableCount_own_row(ids, t) ==
  Cardinality({row \in 0 .. t \div K :
                 \E k \in 0 .. K - 1 : ids[row * K + k] = ids[t]})

tableCount(ids, t) ==
  Cardinality({row \in 0 .. t \div K - 1 :
                 \E k \in 0 .. K - 1 : ids[row * K + k] = ids[t]})

(* The count rank r announces for entry i of shared ranks and experts.      *)
statusCount(r, i) ==
  IF i < SharedExpertRankNum /\ ~isShareExpertRank(r)
  THEN curExpertCnt(r, i)
  ELSE Cardinality({t \in DOMAIN expertIds[r] :
                      expertIds[r][t] + SharedExpertRankNum = i})

-----------------------------------------------------------------------------
(* The steps of a core, in the order of Process                             *)

(* Without the SyncAll at the head of SetStatus. *)
Kernel_no_sync ==
  <<"AlltoAllDispatch", "SetStatus", "WaitDispatch", "SyncAll",
    "LocalWindowCopy", "GroupedMatmul", "ExpertAlltoAll", "CombineSetStatus",
    "CombineWait", "SyncAll", "CombineWindowCopy">>

Kernel ==
  <<"AlltoAllDispatch", "SyncAll", "SetStatus", "WaitDispatch", "SyncAll",
    "LocalWindowCopy", "GroupedMatmul", "ExpertAlltoAll", "CombineSetStatus",
    "CombineWait", "SyncAll", "CombineWindowCopy">>

Place(step) == CHOOSE i \in DOMAIN Kernel : Kernel[i] = step
Ended == Len(Kernel) + 1
AtStep(r, c, step) == pc[r][c] \in DOMAIN Kernel /\ Kernel[pc[r][c]] = step
Advance(r, c) == pc' = [pc EXCEPT ![r][c] = @ + 1]

(* The half the core works on since its last Init, and the flag it uses.    *)
dataState(r, c) == 1 - data_state[r][c]
sumTarget(r, c) == self_status[r][c][dataState(r, c)]

(* Both Init functions: the half is the bit as it was, the bit is flipped,  *)
(* and the flag for this half becomes the opposite of the last one.         *)
InitWindow_flag_stays(r, c) ==
  /\ data_state' = [data_state EXCEPT ![r][c] = 1 - @]
  /\ self_status' = [self_status EXCEPT ![r][c][data_state[r][c]] = 1]

InitWindow_shared_bit(r, c) ==
  /\ data_state' = [data_state EXCEPT ![r][0] = 1 - @]
  /\ self_status' = [self_status EXCEPT ![r][c][data_state[r][c]] = 1 - @]

InitWindow(r, c) ==
  /\ data_state' = [data_state EXCEPT ![r][c] = 1 - @]
  /\ self_status' = [self_status EXCEPT ![r][c][data_state[r][c]] = 1 - @]

(* f after the writes ws, a set of address and value pairs. *)
Written(f, ws) ==
  [a \in DOMAIN f |-> IF \E w \in ws : w[1] = a
                      THEN (CHOOSE w \in ws : w[1] = a)[2] ELSE f[a]]

Init ==
  /\ op \in Deployments
  /\ launch = [r \in Ranks |-> 0]
  /\ pc = [r \in Ranks |-> [c \in Cores |-> Ended]]
  /\ expertIds \in [Ranks -> {CHOOSE ids \in Routings : TRUE}]
  /\ data_state = [r \in Ranks |-> [c \in Cores |-> 0]]
  /\ self_status = [r \in Ranks |-> [c \in Cores |-> [h \in {0, 1} |-> 0]]]
  /\ window = [a \in Ranks \X {0, 1} \X Slots \X (0 .. BS - 1) |-> NoToken]
  /\ status = [a \in Ranks \X {0, 1} \X Slots |-> [flag |-> 0, count |-> 0]]
  /\ expandX = [r \in Ranks |-> [i \in Rows |-> NoToken]]
  /\ sendCounts = [r \in Ranks |-> [i \in Slots |-> 0]]
  /\ out = [r \in Ranks |-> [t \in Tokens |-> {}]]

(* The host launches the operator again on rank r, with a new routing and a *)
(* workspace whose contents are of no account. The windows stay.            *)
Launch(r) ==
  /\ \A c \in Cores : pc[r][c] = Ended
  /\ launch[r] < MaxLaunches
  /\ launch' = [launch EXCEPT ![r] = @ + 1]
  /\ pc' = [pc EXCEPT ![r] = [c \in Cores |-> 1]]
  /\ \E ids \in Routings : expertIds' = [expertIds EXCEPT ![r] = ids]
  /\ expandX' = [expandX EXCEPT ![r] = [i \in Rows |-> NoToken]]
  /\ sendCounts' = [sendCounts EXCEPT ![r] = [i \in Slots |-> 0]]
  /\ out' = [out EXCEPT ![r] = [t \in Tokens |-> {}]]
  /\ UNCHANGED <<op, data_state, self_status, window, status>>

(* SyncAll: the cores of a rank wait for each other.                        *)
SyncAll(r) ==
  /\ \A c \in Cores : AtStep(r, c, "SyncAll") /\ pc[r][c] = pc[r][0]
  /\ pc' = [pc EXCEPT ![r] = [c \in Cores |-> pc[r][c] + 1]]
  /\ UNCHANGED <<op, launch, expertIds, data_state, self_status, window, status,
                 expandX, sendCounts, out>>

-----------------------------------------------------------------------------
(* Dispatch                                                                 *)

(* The writes of SendToMoeExpert by core c of rank r, to half h. *)
SendToMoeExpert(r, c, h) ==
  {LET e == expertIds[r][t]
   IN <<<<e \div MoeExpertNumPerRank + SharedExpertRankNum, h,
          r * MoeExpertNumPerRank + (e % MoeExpertNumPerRank),
          expertCount(expertIds[r], t)>>,
        <<launch[r], r, t \div K>>>> :
     t \in {u \in Share(ActiveBS * K, moeUsedAivNum, c) : expertIds[r][u] >= 0}}

(* The tokens core c of rank r takes to the shared expert.                  *)
SharedShare(c) == Share(ActiveBS, sharedUsedAivNum, c - moeUsedAivNum)

SendToSharedExpert(r, c, h) ==
  {LET s == moeOnShareRank(r, t)
   IN <<<<s, h, r, t - preCnt(r, s)>>, <<launch[r], r, t>>>> :
     t \in SharedShare(c)}

(* Init of the dispatcher and AlltoAllDispatch. A shared expert rank puts   *)
(* its own tokens straight at the head of its rows.                         *)
AlltoAllDispatch(r, c) ==
  /\ AtStep(r, c, "AlltoAllDispatch")
  /\ InitWindow(r, c)
  /\ LET h == data_state[r][c]
         toShared == SharedExpertRankNum # 0 /\ c >= moeUsedAivNum
     IN IF toShared /\ isShareExpertRank(r)
        THEN /\ expandX' = [expandX EXCEPT ![r] =
                              Written(@, {<<t, <<launch[r], r, t>>>> :
                                            t \in SharedShare(c)})]
             /\ UNCHANGED window
        ELSE /\ window' = Written(window,
                            IF toShared THEN SendToSharedExpert(r, c, h)
                            ELSE SendToMoeExpert(r, c, h))
             /\ UNCHANGED expandX
  /\ Advance(r, c)
  /\ UNCHANGED <<op, launch, expertIds, status, sendCounts, out>>

(* The rank and the word that get the status of entry i. *)
StatusAddress(r, i) ==
  IF MoeExpertNumPerRank > 1 /\ i >= SharedExpertRankNum
  THEN LET e == i - SharedExpertRankNum
       IN <<e \div MoeExpertNumPerRank + SharedExpertRankNum,
            r + (e % MoeExpertNumPerRank) * EpWorldSize>>
  ELSE <<i, r>>

(* Only whole vector repeats of the status words get the flag; words beyond *)
(* them keep 0.                                                             *)
statusFlag_short(r, c, i) ==
  IF i < RecvWinBlockNum - 1 THEN sumTarget(r, c) ELSE 0

statusFlag(r, c, i) ==
  IF i < (RecvWinBlockNum \div FlagRepeat) * FlagRepeat THEN sumTarget(r, c) ELSE 0

(* SetStatus (after its SyncAll): core c announces its share of the counts. *)
SetStatus(r, c) ==
  /\ AtStep(r, c, "SetStatus")
  /\ status' = Written(status,
       {LET a == StatusAddress(r, i)
        IN <<<<a[1], dataState(r, c), a[2]>>,
             [flag |-> statusFlag(r, c, i), count |-> statusCount(r, i)]>> :
          i \in Share(SharedExpertRankNum + MoeExpertNum, AivNum, c)})
  /\ Advance(r, c)
  /\ UNCHANGED <<op, launch, expertIds, data_state, self_status, window, expandX,
                 sendCounts, out>>

(* The number of words rank r is sent. *)
rscvStatusNum(r) ==
  IF isShareExpertRank(r) THEN EpWorldSize ELSE RecvWinBlockNum

(* The loops on the sum of the flags of the words in indices: between the   *)
(* target less a half and the target plus a half. A flag is 0 or 1, so the  *)
(* sum is the number of words whose flag is 1.                              *)
FlagsArrived(r, c, indices) ==
  Cardinality({i \in indices : status[<<r, dataState(r, c), i>>].flag = 1})
    = sumTarget(r, c) * Cardinality(indices)

WaitDispatch(r, c) ==
  /\ AtStep(r, c, "WaitDispatch")
  /\ FlagsArrived(r, c, Share(rscvStatusNum(r), AivNum, c))
  /\ Advance(r, c)
  /\ UNCHANGED <<op, launch, expertIds, data_state, self_status, window, status,
                 expandX, sendCounts, out>>

(* The count in word i of rank r; a shared expert rank computes the counts  *)
(* of its own tokens itself.                                                *)
ReceivedCount(r, c, i) ==
  IF isShareExpertRank(r) /\ i < SharedExpertRankNum
  THEN curExpertCnt(r, i)
  ELSE status[<<r, dataState(r, c), i>>].count

(* The rows before those of word i: the sum of the counts of smaller words. *)
GetCumSum(r, c, i) ==
  MapThenSumSet(LAMBDA j : ReceivedCount(r, c, j), 0 .. i - 1)

(* The slot of the window that word i counts: words go by expert, then      *)
(* source rank, slots by source rank, then expert.                          *)
winOffset(r, i) ==
  IF ~isShareExpertRank(r) /\ MoeExpertNumPerRank > 1
  THEN (i % EpWorldSize) * MoeExpertNumPerRank + i \div EpWorldSize
  ELSE i

(* LocalWindowCopy of the dispatcher: core c moves the tokens its share of  *)
(* the words counts from the window to their rows.                          *)
LocalWindowCopy(r, c) ==
  LET words == Share(rscvStatusNum(r), AivNum, c)
      moved == {i \in words : ~(isShareExpertRank(r) /\ i < SharedExpertRankNum)}
  IN /\ AtStep(r, c, "LocalWindowCopy")
     /\ expandX' = [expandX EXCEPT ![r] = Written(@,
          UNION {{<<GetCumSum(r, c, i) + j,
                    window[<<r, dataState(r, c), winOffset(r, i), j>>]>> :
                    j \in 0 .. ReceivedCount(r, c, i) - 1} : i \in moved})]
     /\ sendCounts' = [sendCounts EXCEPT ![r] = Written(@,
          {<<i, GetCumSum(r, c, i + 1)>> : i \in words})]
     /\ Advance(r, c)
     /\ UNCHANGED <<op, launch, expertIds, data_state, self_status, window, status,
                    out>>

(* expertTokenNums: where the rows of each expert of the rank end.          *)
groupList(r, g) == sendCounts[r][EpWorldSize * (g + 1) - 1]

(* The two grouped matmuls between barriers of all cores: expert g of the   *)
(* rank works on the rows up to groupList(r, g) that no expert before it    *)
(* has.                                                                     *)
GroupedMatmul(r) ==
  LET groups == IF isShareExpertRank(r) THEN {0}
                ELSE 0 .. MoeExpertNumPerRank - 1
      expertOf(i) ==
        IF isShareExpertRank(r) THEN SharedExpert
        ELSE (r - SharedExpertRankNum) * MoeExpertNumPerRank
               + Min({g \in groups : i < groupList(r, g)})
  IN /\ \A c \in Cores : AtStep(r, c, "GroupedMatmul")
     /\ expandX' = [expandX EXCEPT ![r] =
          [i \in Rows |-> IF \E g \in groups : i < groupList(r, g)
                          THEN Append(@[i], expertOf(i)) ELSE @[i]]]
     /\ pc' = [pc EXCEPT ![r] = [c \in Cores |-> pc[r][c] + 1]]
     /\ UNCHANGED <<op, launch, expertIds, data_state, self_status, window, status,
                    sendCounts, out>>

-----------------------------------------------------------------------------
(* Combine                                                                  *)

(* Where the results for rank ep from expert g of rank r go: the window of  *)
(* ep, or, among the shared expert ranks, r's own window in the place of ep *)
ResultSlot(r, g, ep) ==
  IF isShareExpertRank(r) /\ isShareExpertRank(ep)
  THEN <<r, ep * MoeExpertNumPerRank + g>>
  ELSE <<ep, r * MoeExpertNumPerRank + g>>

(* Init of the combiner and ExpertAlltoAllDispatchCopyAdd: core c returns   *)
(* the rows of its share of the ranks.                                      *)
ExpertAlltoAll(r, c) ==
  LET h == data_state[r][c]
      experts == IF isShareExpertRank(r) THEN {0}
                 ELSE 0 .. MoeExpertNumPerRank - 1
      preCount(g, ep) == IF ep > 0 \/ g > 0
                         THEN sendCounts[r][g * EpWorldSize + ep - 1] ELSE 0
      curTokenNum(g, ep) ==
        sendCounts[r][g * EpWorldSize + ep] - preCount(g, ep)
  IN /\ AtStep(r, c, "ExpertAlltoAll")
     /\ InitWindow(r, c)
     /\ window' = Written(window,
          UNION {{LET to == ResultSlot(r, d[1], d[2])
                  IN <<<<to[1], h, to[2], j>>,
                       expandX[r][preCount(d[1], d[2]) + j]>> :
                    j \in 0 .. curTokenNum(d[1], d[2]) - 1} :
                 d \in experts \X Share(EpWorldSize, AivNum, c)})
     /\ Advance(r, c)
     /\ UNCHANGED <<op, launch, expertIds, status, expandX, sendCounts, out>>

(* SetStatus of the combiner: a flag to each rank of the same share.        *)
CombineSetStatus(r, c) ==
  /\ AtStep(r, c, "CombineSetStatus")
  /\ status' = Written(status,
       {<<<<ep, dataState(r, c), r>>,
          [flag |-> sumTarget(r, c),
           count |-> status[<<ep, dataState(r, c), r>>].count]>> :
          ep \in Share(EpWorldSize, AivNum, c)})
  /\ Advance(r, c)
  /\ UNCHANGED <<op, launch, expertIds, data_state, self_status, window, expandX,
                 sendCounts, out>>

CombineWait_own_flag(r, c) ==
  /\ AtStep(r, c, "CombineWait")
  /\ FlagsArrived(r, c, {r})
  /\ Advance(r, c)
  /\ UNCHANGED <<op, launch, expertIds, data_state, self_status, window, status,
                 expandX, sendCounts, out>>

CombineWait(r, c) ==
  /\ AtStep(r, c, "CombineWait")
  /\ FlagsArrived(r, c, Share(EpWorldSize, AivNum, c))
  /\ Advance(r, c)
  /\ UNCHANGED <<op, launch, expertIds, data_state, self_status, window, status,
                 expandX, sendCounts, out>>

(* The tokens core c sums up. With fewer tokens than cores several cores    *)
(* take a stretch of the same token each, and the cores left over nothing.  *)
CombineShare(c) ==
  IF ActiveBS < AivNum
  THEN {c \div (AivNum \div ActiveBS)} \cap Tokens
  ELSE Share(ActiveBS, AivNum, c)

(* LocalWindowCopy of the combiner: the result of every chosen expert, and  *)
(* of the shared expert, is read from the window and added up.              *)
CombineWindowCopy(r, c) ==
  LET read(slot, pos) == window[<<r, dataState(r, c), slot, pos>>]
      results(t) ==
        {read(SharedExpertRankNum * MoeExpertNumPerRank + expertIds[r][u],
              expertCount(expertIds[r], u)) :
           u \in {v \in t * K .. t * K + K - 1 : expertIds[r][v] >= 0}}
        \cup {LET s == moeOnShareRank(r, t)
              IN read(s * MoeExpertNumPerRank, t - preCnt(r, s)) :
                x \in IF SharedExpertRankNum > 0 THEN {t} ELSE {}}
  IN /\ AtStep(r, c, "CombineWindowCopy")
     /\ out' = [out EXCEPT ![r] =
          [t \in Tokens |-> IF t \in CombineShare(c)
                            THEN @[t] \cup {results(t)} ELSE @[t]]]
     /\ Advance(r, c)
     /\ UNCHANGED <<op, launch, expertIds, data_state, self_status, window, status,
                    expandX, sendCounts>>

-----------------------------------------------------------------------------
CoreStep(r, c) ==
  \/ AlltoAllDispatch(r, c)
  \/ SetStatus(r, c)
  \/ WaitDispatch(r, c)
  \/ LocalWindowCopy(r, c)
  \/ ExpertAlltoAll(r, c)
  \/ CombineSetStatus(r, c)
  \/ CombineWait(r, c)
  \/ CombineWindowCopy(r, c)

Next ==
  \E r \in Ranks :
    \/ Launch(r)
    \/ SyncAll(r)
    \/ GroupedMatmul(r)
    \/ \E c \in Cores : CoreStep(r, c)

(* The device runs every launched core and the host every queued launch;    *)
(* each step moves a counter on, so it is enough that some step is taken    *)
(* while one is possible.                                                   *)
Spec == Init /\ [][Next]_vars /\ WF_vars(Next)

-----------------------------------------------------------------------------
Values == {NoToken} \cup (1 .. MaxLaunches) \X Ranks \X Tokens
            \cup (1 .. MaxLaunches) \X Ranks \X Tokens \X (0 .. MoeExpertNum)

(* Every core is at a step of the kernel, and every slot of a window holds  *)
(* nothing, a token or a result of one expert: the experts never run on a   *)
(* row that no token was copied to, nor is a result fed to an expert again  *)
(* (expandX and the windows of the dispatcher and combiner).                *)
TypeOK ==
  /\ launch \in [Ranks -> 0 .. MaxLaunches]
  /\ pc \in [Ranks -> [Cores -> 1 .. Ended]]
  /\ expertIds \in [Ranks -> Routings]
  /\ data_state \in [Ranks -> [Cores -> {0, 1}]]
  /\ self_status \in [Ranks -> [Cores -> [{0, 1} -> {0, 1}]]]
  /\ \A a \in DOMAIN window : window[a] \in Values
  /\ \A a \in DOMAIN status : status[a] \in [flag : {0, 1}, count : 0 .. BS]
  /\ \A r \in Ranks : \A i \in Rows : expandX[r][i] \in Values

Done(r) == launch[r] > 0 /\ \A c \in Cores : pc[r][c] = Ended

(* A rank that has finished a launch has, for each of its active tokens and *)
(* from every core that worked on it, exactly the results of the experts    *)
(* the token chose and of the shared expert, computed in this launch from   *)
(* this token (CamMoeDistributeCombine::LocalWindowCopy).                   *)
OutputsCorrect ==
  \A r \in Ranks : Done(r) =>
    \A t \in Tokens :
      out[r][t] =
        {{<<launch[r], r, t, e>> :
            e \in ({expertIds[r][u] : u \in t * K .. t * K + K - 1} \ {-1})
                    \cup IF SharedExpertRankNum > 0 THEN {SharedExpert} ELSE {}}}

(* Nothing acknowledges a read, yet no rank writes into a half of a window  *)
(* that its owner still has to read: a rank that has started a launch finds *)
(* every other rank past its dispatch copy of the launch before, and a rank *)
(* that has begun to return results finds every other rank done with the    *)
(* results of the launch before (the two halves of winDataSizeOffset_).     *)
WindowsFree ==
  \A r, s \in Ranks : \A c, d \in Cores :
    /\ launch[s] < launch[r] =>
         /\ launch[s] = launch[r] - 1
         /\ launch[r] > 1 => pc[s][d] > Place("LocalWindowCopy")
    /\ launch[s] < launch[r] /\ pc[s][d] < Ended =>
         pc[r][c] <= Place("ExpertAlltoAll")

(* The cores of a rank flip their bits in step: whenever two cores are in   *)
(* the same phase of the launch they work on the same half and use the same *)
(* flag, so what one core announces is what another waits for (dataState_   *)
(* and sumTarget_ of every core).                                           *)
CoresInStep ==
  \A r, s \in Ranks : \A c, d \in Cores :
    launch[r] = launch[s]
      /\ (pc[r][c] > Place("ExpertAlltoAll")) = (pc[s][d] > Place("ExpertAlltoAll"))
      /\ (pc[r][c] > Place("AlltoAllDispatch")) = (pc[s][d] > Place("AlltoAllDispatch"))
    => dataState(r, c) = dataState(s, d) /\ sumTarget(r, c) = sumTarget(s, d)

(* The table of the vector path and the scalar loop give every token the    *)
(* same row (the two branches of AlltoAllDispatch).                         *)
CountsAgree ==
  \A r \in Ranks : \A t \in DOMAIN expertIds[r] :
    expertIds[r][t] >= 0 =>
      tableCount(expertIds[r], t) = expertCount(expertIds[r], t)

(* Every rank finishes all its launches: no core waits for ever for a sum   *)
(* of flags (the loops of both WaitDispatch functions).                     *)
EveryLaunchEnds == <>(\A r \in Ranks : launch[r] = MaxLaunches /\ Done(r))
=============================================================================
