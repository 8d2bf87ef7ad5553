---------------------------- MODULE MatmulAllreduce ----------------------------
(***************************************************************************)
(* The fused matmul + all-reduce + add + RMSNorm kernel of                  *)
(* csrc/mc2/matmul_allreduce_add_rmsnorm.  On every rank the cube cores     *)
(* (AIC) multiply into the rank's shared window, one split of rows after    *)
(* another; the vector cores (AIV) reduce, normalise and gather the splits  *)
(* across ranks.  Ranks meet only through counters in shared memory that    *)
(* are polled for EQUALITY, and the window is used again by the next        *)
(* launch, whose cube cores start before any rank has been waited for.      *)
(*                                                                          *)
(* A vector core runs the straight-line program Kernel; pc is its position. *)
(* A row is one tile, and holds <<launch, kind>>.  The second vector        *)
(* subblock of a core only takes part in synchronisation and is left out.   *)
(***************************************************************************)
EXTENDS AllreduceRows, Sequences, FiniteSets, FiniteSetsExt

CONSTANTS
    CoreNum,           \* core_num: cube cores, and as many vector cores
    GatherAddOut,      \* the launches with is_gather_add_out
    LeftOver,          \* what shared flags may hold before the first launch
    MaxLaunches        \* bound: launches of the kernel

ASSUME KernelAssumption ==
    /\ {RankSize, CoreNum, UsedCores, M, RowsPerSplit, MaxLaunches} \subseteq Nat \ {0}
    /\ RankSize <= UsedCores /\ UsedCores <= CoreNum
    /\ GatherAddOut \subseteq 1 .. MaxLaunches
    /\ LeftOver \subseteq Int

VARIABLES
    launch,    \* launch[r]: the launch rank r is running
    pc,        \* pc[r][c]: position of vector core c in Kernel
    split,     \* split[r][c]: split cube core c is at, -1 before InitFlags
    flags,     \* flags[r][f]: the counters of rank r's window
    ex,        \* the counter of CrossRankSyncEx, in rank 0's window
    old,       \* old[r]: old_flag_data of core 0 of rank r
    to_aic,    \* to_aic[r][c][f]: FFTS events set for the cube core
    to_aiv,    \* to_aiv[r][c][f]: FFTS events set for the vector core
    window,    \* window[r][row]: the shared window of rank r
    out,       \* out[r][row]: the output y of the running launch
    add_out    \* add_out[r][row]: the output add_out of the running launch

vars == <<launch, pc, split, flags, ex, old, to_aic, to_aiv, window, out, add_out>>

Cores == 0 .. CoreNum - 1
PIPE_DEPTH == 2
AIC_WAIT_AIV_FINISH_ALIGN_FLAG_ID == 12
Events == {0, 1, AIC_WAIT_AIV_FINISH_ALIGN_FLAG_ID}
Flags == {"ZERO", "TWO", "ADD", "GATHER_STEP1", "GATHER_STEP2"}

\* The rows cube core c writes in a split: tiles are dealt round robin.
TileRows(c, s) ==
    {s * RowsPerSplit + i : i \in {j \in 0 .. m_total(s) - 1 : j % CoreNum = c}}

(***************************************************************************)
(* The program of a vector core.  A step is its operation, the flag it is   *)
(* about and cal_idx; "Sync" is SetAndWaitAivSync or SyncAll.               *)
(***************************************************************************)
Do(op, cal_idx) == [op |-> op, flag |-> "ZERO", cal |-> cal_idx]
OnFlag(op, flag, cal_idx) == [op |-> op, flag |-> flag, cal |-> cal_idx]

\* The cores that do not poll go on at once.
CrossRankSyncV1_no_second_sync(flag, cal_idx) ==
    <<Do("Sync", cal_idx), OnFlag("V1", flag, cal_idx)>>

CrossRankSyncV1(flag, cal_idx) ==
    <<Do("Sync", cal_idx), OnFlag("V1", flag, cal_idx), Do("Sync", cal_idx)>>

CrossRankSyncV2(flag, cal_idx) ==
    <<Do("Sync", cal_idx), OnFlag("V2Add", flag, cal_idx),
      OnFlag("V2Check", flag, cal_idx), Do("Sync", cal_idx)>>

CrossRankSyncEx ==
    <<Do("Sync", 0), Do("ExRead", 0), Do("ExAdd", 0), Do("ExWait", 0),
      Do("ExLeave", 0), Do("Sync", 0)>>

Round(cal_idx, gather) ==
    <<Do("WaitAic", cal_idx)>>
    \o CrossRankSyncV1("ZERO", cal_idx)
    \o <<Do("StepOne", cal_idx)>>
    \o CrossRankSyncV1("ADD", cal_idx)
    \o <<Do("Gather", cal_idx)>>
    \o CrossRankSyncV2("TWO", cal_idx)
    \o (IF gather
        THEN <<Do("Share", cal_idx)>>
             \o CrossRankSyncV2("GATHER_STEP1", cal_idx)
             \o <<Do("Fetch", cal_idx)>>
             \o CrossRankSyncV2("GATHER_STEP2", cal_idx)
        ELSE <<>>)
    \o <<Do("SetAic", cal_idx)>>

\* The rounds one after the other.
Rounds(gather) ==
    LET length == Len(Round(0, gather))
    IN  [j \in 1 .. comm_count * length |->
            Round((j - 1) \div length, gather)[((j - 1) % length) + 1]]

\* The whole program, without and with is_gather_add_out.
Kernel ==
    [gather \in BOOLEAN |->
        <<Do("Start", 0)>> \o CrossRankSyncEx
        \o Rounds(gather)
        \o <<Do("Clear", 0), Do("Final", 0)>>]

\* ops[g][i]: the operation at position i, if the program has not ended there.
ops ==
    [g \in BOOLEAN |-> [i \in 1 .. Len(Kernel[g]) + 1 |->
        IF i <= Len(Kernel[g]) THEN Kernel[g][i].op ELSE "Finished"]]

Gathers(r) == launch[r] \in GatherAddOut
Program(r) == Kernel[Gathers(r)]
Finished(r) == Len(Program(r)) + 1
At(r, c, op) == ops[Gathers(r)][pc[r][c]] = op /\ pc[r][c] < Finished(r)
Cal(r, c) == Program(r)[pc[r][c]].cal
Flag(r, c) == Program(r)[pc[r][c]].flag
RankDone(r) == \A c \in Cores : pc[r][c] = Finished(r) /\ split[r][c] = comm_count

\* The steps at which core c of rank r does something: the others are skipped
\* by the conditions on core_idx around them.
Concerns(r, c, step) ==
    CASE step.op \in {"ExRead", "ExAdd", "ExWait", "ExLeave", "Clear"} -> c = 0
      [] step.op \in {"V1", "V2Add", "Final"} -> c \in Ranks
      [] step.op = "V2Check" -> c = r
      [] step.op = "StepOne" -> StepOneRows(r, c, step.cal) # {}
      [] step.op = "Gather" -> GatherRows(c, step.cal) # {}
      [] step.op = "Share" -> GatherRows(c, step.cal) # {} /\ gather_rank_id(c) = r
      [] step.op = "Fetch" -> GatherRows(c, step.cal) # {} /\ gather_rank_id(c) # r
      [] step.op = "SetAic" -> step.cal <= comm_count - PIPE_DEPTH
      [] OTHER -> TRUE

\* after[g][r][c][i]: the first position past i at which core c does something.
after ==
    [g \in BOOLEAN |-> [r \in Ranks |-> [c \in Cores |-> [i \in 1 .. Len(Kernel[g]) |->
        Min({j \in i + 1 .. Len(Kernel[g]) : Concerns(r, c, Kernel[g][j])}
            \cup {Len(Kernel[g]) + 1})]]]]

Advance(r, c) == pc' = [pc EXCEPT ![r][c] = after[Gathers(r)][r][c][@]]
NoValue == <<0, "none">>
----------------------------------------------------------------------------
Init ==
    /\ launch = [r \in Ranks |-> 1]
    /\ pc = [r \in Ranks |-> [c \in Cores |-> 1]]
    /\ split = [r \in Ranks |-> [c \in Cores |-> -1]]
    /\ \E v \in LeftOver : ex = v /\ flags = [r \in Ranks |-> [f \in Flags |-> v]]
    /\ old = [r \in Ranks |-> 0]
    /\ to_aic = [r \in Ranks |-> [c \in Cores |-> [f \in Events |-> 0]]]
    /\ to_aiv = [r \in Ranks |-> [c \in Cores |-> [f \in Events |-> 0]]]
    /\ window = [r \in Ranks |-> [row \in Rows |-> NoValue]]
    /\ out = [r \in Ranks |-> [row \in Rows |-> NoValue]]
    /\ add_out = [r \in Ranks |-> [row \in Rows |-> NoValue]]

\* The flags are left as the last user of the window left them.
flags_not_cleared(r, c) == UNCHANGED flags

\* ResetIpcFlags: core 0 clears the flags of its own rank.
ResetIpcFlags(r, c) ==
    flags' = IF c = 0 THEN [flags EXCEPT ![r] = [f \in Flags |-> 0]] ELSE flags

\* Process begins: the cube core may start, then the flags are cleared.
Start(r, c) ==
    /\ At(r, c, "Start")
    /\ to_aic' = [to_aic EXCEPT ![r][c][AIC_WAIT_AIV_FINISH_ALIGN_FLAG_ID] = @ + 1]
    /\ ResetIpcFlags(r, c)
    /\ Advance(r, c)
    /\ UNCHANGED <<launch, split, ex, old, to_aiv, window, out, add_out>>

\* A barrier of the vector cores of one rank.
Sync(r) ==
    /\ \A c \in Cores : At(r, c, "Sync") /\ pc[r][c] = pc[r][0]
    /\ pc' = [pc EXCEPT ![r] = [c \in Cores |-> after[Gathers(r)][r][c][pc[r][c]]]]
    /\ UNCHANGED <<launch, split, flags, ex, old, to_aic, to_aiv, window, out, add_out>>

(***************************************************************************)
(* CrossRankSyncEx: core 0 of every rank reads the counter, adds one, waits *)
(* until the counter has grown by rank_size and adds one more, which lets   *)
(* through a rank that read the counter late.                               *)
(***************************************************************************)
ExRead(r, c) ==
    /\ At(r, c, "ExRead")
    /\ old' = [old EXCEPT ![r] = ex]
    /\ Advance(r, c)
    /\ UNCHANGED <<launch, split, flags, ex, to_aic, to_aiv, window, out, add_out>>

ExAdd(r, c) ==
    /\ At(r, c, "ExAdd")
    /\ ex' = ex + 1
    /\ Advance(r, c)
    /\ UNCHANGED <<launch, split, flags, old, to_aic, to_aiv, window, out, add_out>>

ex_released_early(r) == ex - old[r] >= RankSize - 1

ex_released(r) == ex - old[r] >= RankSize

ExWait(r, c) ==
    /\ At(r, c, "ExWait")
    /\ ex_released(r)
    /\ Advance(r, c)
    /\ UNCHANGED <<launch, split, flags, ex, old, to_aic, to_aiv, window, out, add_out>>

\* The rank leaves without counting again.
ex_after_silent_leave == ex

ex_after_leave == ex + 1

ExLeave(r, c) ==
    /\ At(r, c, "ExLeave")
    /\ ex' = ex_after_leave
    /\ Advance(r, c)
    /\ UNCHANGED <<launch, split, flags, old, to_aic, to_aiv, window, out, add_out>>

\* WaitEvent(flag_idx): the cube core of this core has finished the split.
event_not_awaited(r, c, flag_idx) == TRUE

WaitEvent(r, c, flag_idx) == to_aiv[r][c][flag_idx] > 0

WaitAic(r, c) ==
    LET flag_idx == Cal(r, c) % PIPE_DEPTH
    IN  /\ At(r, c, "WaitAic")
        /\ WaitEvent(r, c, flag_idx)
        /\ to_aiv' = [to_aiv EXCEPT ![r][c][flag_idx] = @ - 1]
        /\ Advance(r, c)
        /\ UNCHANGED <<launch, split, flags, ex, old, to_aic, window, out, add_out>>

\* The value CheckBuffFlag of core c polls for, and the rank whose flag it is.
Target(r, c) ==
    IF At(r, c, "V1") THEN Cal(r, c) + 1
    ELSE IF At(r, c, "V2Check") THEN RankSize * (Cal(r, c) + 1)
    ELSE 0

Polling(r, c) ==
    (At(r, c, "V1") /\ c # r) \/ At(r, c, "V2Check") \/ At(r, c, "Final")

CheckBuffFlag(r, c) == flags[c][Flag(r, c)] = Target(r, c)

\* CrossRankSyncV1: core r counts its own rank, core s # r polls rank s.
SyncV1(r, c) ==
    /\ At(r, c, "V1")
    /\ Polling(r, c) => CheckBuffFlag(r, c)
    /\ flags' = IF c = r THEN [flags EXCEPT ![r][Flag(r, c)] = @ + 1] ELSE flags
    /\ Advance(r, c)
    /\ UNCHANGED <<launch, split, ex, old, to_aic, to_aiv, window, out, add_out>>

\* CrossRankSyncV2: core s counts at rank s, then core r polls its own rank.
V2Add(r, c) ==
    /\ At(r, c, "V2Add")
    /\ flags' = [flags EXCEPT ![c][Flag(r, c)] = @ + 1]
    /\ Advance(r, c)
    /\ UNCHANGED <<launch, split, ex, old, to_aic, to_aiv, window, out, add_out>>

V2Check(r, c) ==
    /\ At(r, c, "V2Check")
    /\ CheckBuffFlag(r, c)
    /\ Advance(r, c)
    /\ UNCHANGED <<launch, split, flags, ex, old, to_aic, to_aiv, window, out, add_out>>

\* ParallelWithSplitStepOneAddNorm on one row: the partial products of every
\* rank are summed; anything else read makes the result wrong.
Reduced(r, row, kind) ==
    IF \A s \in Ranks : window[s][row] = <<launch[r], "partial">>
    THEN <<launch[r], kind>> ELSE <<launch[r], "wrong">>

StepOne(r, c) ==
    LET mine == StepOneRows(r, c, Cal(r, c))
    IN  /\ At(r, c, "StepOne")
        /\ add_out' = [add_out EXCEPT ![r] =
               [row \in Rows |-> IF row \in mine THEN Reduced(r, row, "sum") ELSE @[row]]]
        /\ window' = [window EXCEPT ![r] =
               [row \in Rows |-> IF row \in mine THEN Reduced(r, row, "norm") ELSE @[row]]]
        /\ Advance(r, c)
        /\ UNCHANGED <<launch, split, flags, ex, old, to_aic, to_aiv, out>>

\* ParallelAllGather: the rows of from, copied over those of to.
ParallelAllGather(to, from, copied) ==
    [row \in Rows |-> IF row \in copied THEN from[row] ELSE to[row]]

Gather(r, c) ==
    LET copied == GatherRows(c, Cal(r, c))
    IN  /\ At(r, c, "Gather")
        /\ out' = [out EXCEPT ![r] =
               ParallelAllGather(@, window[gather_rank_id(c)], copied)]
        /\ Advance(r, c)
        /\ UNCHANGED <<launch, split, flags, ex, old, to_aic, to_aiv, window, add_out>>

\* is_gather_add_out: a rank shares the sums it made, then fetches the others'.
Share(r, c) ==
    /\ At(r, c, "Share")
    /\ window' = [window EXCEPT ![r] =
           ParallelAllGather(@, add_out[r], GatherRows(c, Cal(r, c)))]
    /\ Advance(r, c)
    /\ UNCHANGED <<launch, split, flags, ex, old, to_aic, to_aiv, out, add_out>>

Fetch(r, c) ==
    LET copied == GatherRows(c, Cal(r, c))
    IN  /\ At(r, c, "Fetch")
        /\ add_out' = [add_out EXCEPT ![r] =
               ParallelAllGather(@, window[gather_rank_id(c)], copied)]
        /\ Advance(r, c)
        /\ UNCHANGED <<launch, split, flags, ex, old, to_aic, to_aiv, window, out>>

\* SetAicSync lets the cube core run PIPE_DEPTH splits ahead.
SetAic(r, c) ==
    /\ At(r, c, "SetAic")
    /\ to_aic' = [to_aic EXCEPT ![r][c][Cal(r, c) % PIPE_DEPTH] = @ + 1]
    /\ Advance(r, c)
    /\ UNCHANGED <<launch, split, flags, ex, old, to_aiv, window, out, add_out>>

\* The end of Process: the flags are cleared, and every rank is seen clear.
Clear(r, c) ==
    /\ At(r, c, "Clear")
    /\ ResetIpcFlags(r, c)
    /\ Advance(r, c)
    /\ UNCHANGED <<launch, split, ex, old, to_aic, to_aiv, window, out, add_out>>

Final(r, c) ==
    /\ At(r, c, "Final")
    /\ CheckBuffFlag(r, c)
    /\ Advance(r, c)
    /\ UNCHANGED <<launch, split, flags, ex, old, to_aic, to_aiv, window, out, add_out>>
----------------------------------------------------------------------------
(***************************************************************************)
(* A cube core: InitFlags, then per split the wait for the vector core from *)
(* the third split on, the tiles, and the event that the split is done.     *)
(***************************************************************************)
InitFlags(r, c) ==
    /\ split[r][c] = -1
    /\ to_aic[r][c][AIC_WAIT_AIV_FINISH_ALIGN_FLAG_ID] > 0
    /\ to_aic' = [to_aic EXCEPT ![r][c][AIC_WAIT_AIV_FINISH_ALIGN_FLAG_ID] = @ - 1]
    /\ split' = [split EXCEPT ![r][c] = 0]
    /\ UNCHANGED <<launch, pc, flags, ex, old, to_aiv, window, out, add_out>>

Matmul(r, c) ==
    LET s == split[r][c]
        flag_idx == s % PIPE_DEPTH
    IN  /\ s \in 0 .. comm_count - 1
        /\ IF s >= PIPE_DEPTH
           THEN /\ to_aic[r][c][flag_idx] > 0
                /\ to_aic' = [to_aic EXCEPT ![r][c][flag_idx] = @ - 1]
           ELSE to_aic' = to_aic
        /\ window' = [window EXCEPT ![r] =
               [row \in Rows |-> IF row \in TileRows(c, s)
                                 THEN <<launch[r], "partial">> ELSE @[row]]]
        /\ to_aiv' = [to_aiv EXCEPT ![r][c][flag_idx] = @ + 1]
        /\ split' = [split EXCEPT ![r][c] = s + 1]
        /\ UNCHANGED <<launch, pc, flags, ex, old, out, add_out>>

(***************************************************************************)
(* The stream of a rank starts the next launch when every core of this one  *)
(* has ended; no rank waits for another here.  The outputs are new buffers. *)
(***************************************************************************)
Launch(r) ==
    /\ RankDone(r) /\ launch[r] < MaxLaunches
    /\ launch' = [launch EXCEPT ![r] = @ + 1]
    /\ pc' = [pc EXCEPT ![r] = [c \in Cores |-> 1]]
    /\ split' = [split EXCEPT ![r] = [c \in Cores |-> -1]]
    /\ out' = [out EXCEPT ![r] = [row \in Rows |-> NoValue]]
    /\ add_out' = [add_out EXCEPT ![r] = [row \in Rows |-> NoValue]]
    /\ UNCHANGED <<flags, ex, old, to_aic, to_aiv, window>>

AivStep(r, c) ==
    \/ Start(r, c)
    \/ ExRead(r, c) \/ ExAdd(r, c) \/ ExWait(r, c) \/ ExLeave(r, c)
    \/ WaitAic(r, c) \/ SyncV1(r, c) \/ V2Add(r, c) \/ V2Check(r, c)
    \/ StepOne(r, c) \/ Gather(r, c) \/ Share(r, c) \/ Fetch(r, c)
    \/ SetAic(r, c) \/ Clear(r, c) \/ Final(r, c)

AicStep(r, c) == InitFlags(r, c) \/ Matmul(r, c)

AllDone == \A r \in Ranks : RankDone(r) /\ launch[r] = MaxLaunches

Next ==
    \/ \E r \in Ranks, c \in Cores : AivStep(r, c) \/ AicStep(r, c)
    \/ \E r \in Ranks : Sync(r) \/ Launch(r)

\* Some core that can go on does: every step moves a program counter forward,
\* so no more is needed.
Fairness == WF_vars(Next)

Spec == Init /\ [][Next]_vars /\ Fairness
----------------------------------------------------------------------------
Kinds == {"none", "partial", "norm", "sum", "wrong"}
Values == (0 .. MaxLaunches) \X Kinds

\* The types of the kernel's state.
TypeOK ==
    /\ launch \in [Ranks -> 1 .. MaxLaunches]
    /\ pc \in [Ranks -> [Cores -> Nat]]
    /\ \A r \in Ranks, c \in Cores : pc[r][c] \in 1 .. Finished(r)
    /\ split \in [Ranks -> [Cores -> -1 .. comm_count]]
    /\ flags \in [Ranks -> [Flags -> Int]]
    /\ ex \in Int /\ old \in [Ranks -> Int]
    /\ to_aic \in [Ranks -> [Cores -> [Events -> Nat]]]
    /\ to_aiv \in [Ranks -> [Cores -> [Events -> Nat]]]
    /\ {window, out, add_out} \subseteq [Ranks -> [Rows -> Values]]

\* When the kernel ends on a rank, every row of y is the norm and every row of
\* add_out (without the gather: every row the rank reduced) is the sum of this
\* launch: no partial product was read early, read late after another rank's
\* next launch had overwritten it, left out or summed twice.
OutputsCorrect ==
    \A r \in Ranks : RankDone(r) =>
        \A row \in Rows :
            /\ out[r][row] = <<launch[r], "norm">>
            /\ \/ Gathers(r)
               \/ \E c \in Cores, i \in 0 .. comm_count - 1 : row \in StepOneRows(r, c, i)
               => add_out[r][row] = <<launch[r], "sum">>

\* CheckBuffFlag polls for equality, so a flag that ran past the value polled
\* for would never be seen again: while a core of the loop polls, the flag has
\* not passed its target.
NoFlagOvershoots ==
    \A r \in Ranks, c \in Cores :
        Polling(r, c) /\ ~ At(r, c, "Final") => flags[c][Flag(r, c)] <= Target(r, c)

\* CrossRankSyncEx is a barrier whatever the counter held: past it on one rank,
\* every rank has cleared its flags for that launch, although ranks read the
\* counter in any order and the counter is never reset.
ExIsBarrier ==
    \A r, s \in Ranks :
        (\E c \in Cores : pc[r][c] > Len(CrossRankSyncEx) + 1) =>
            \/ launch[s] > launch[r]
            \/ launch[s] = launch[r] /\ pc[s][0] > 1

\* Every rank ends every launch: no poll waits for a value that was missed.
EveryLaunchEnds == <>AllDone

----------------------------------------------------------------------------
(* The inductive invariant behind the safety properties. *)

CalIdxs == 0 .. comm_count - 1
V1Flags == {"ZERO", "ADD"}
V2Flags == {"TWO", "GATHER_STEP1", "GATHER_STEP2"}

\* places[g][op][f][i]: where a step stands in the program.
Operations == {Kernel[TRUE][p].op : p \in DOMAIN Kernel[TRUE]}
places ==
    [g \in BOOLEAN |-> [op \in Operations |-> [f \in Flags |-> [i \in CalIdxs |->
        {p \in DOMAIN Kernel[g] : Kernel[g][p] = OnFlag(op, f, i)}]]]]
barriers ==
    [g \in BOOLEAN |-> {p \in DOMAIN Kernel[g] : Kernel[g][p].op = "Sync"}]

\* Core c of rank r is past a step in this launch; in launch n or a later one.
Behind(r, c, step) ==
    \E p \in places[Gathers(r)][step.op][step.flag][step.cal] : pc[r][c] > p

Past(r, c, n, step) == launch[r] > n \/ (launch[r] = n /\ Behind(r, c, step))

\* A core stands only at steps that concern it, and no core is past a barrier
\* of its rank that another core is not past.
CoresOK ==
    \A r \in Ranks, c \in Cores :
        /\ \/ pc[r][c] \in {1, Finished(r)}
           \/ Concerns(r, c, Program(r)[pc[r][c]])
        /\ \A p \in barriers[Gathers(r)] : pc[r][c] > p =>
               \A d \in Cores : pc[r][d] > p

\* Past a wait for another rank, that rank has done what was waited for.
RanksOK ==
    \A r, s \in Ranks :
        /\ \A n \in 1 .. launch[r] - 1 : Past(s, 0, n, Do("Clear", 0))
        /\ Behind(r, 0, Do("ExWait", 0)) => Past(s, 0, launch[r], Do("ExAdd", 0))
        /\ \A f \in V1Flags, i \in CalIdxs :
               Behind(r, s, OnFlag("V1", f, i)) =>
                   Past(s, s, launch[r], OnFlag("V1", f, i))
        /\ \A f \in V2Flags, i \in CalIdxs :
               Behind(r, r, OnFlag("V2Check", f, i)) =>
                   Past(s, r, launch[r], OnFlag("V2Add", f, i))
        /\ Behind(r, s, Do("Final", 0)) => Past(s, 0, launch[r], Do("Clear", 0))

\* No core is ahead of what the barriers of its rank and the waits for other
\* ranks let it do.
InStep == TypeOK /\ CoresOK /\ RanksOK

\* The counter of CrossRankSyncEx counts who came and who left over all
\* launches, and who has read it found all of the launches before.
Came == {x \in Ranks \X (1 .. MaxLaunches) : Past(x[1], 0, x[2], Do("ExAdd", 0))}
Left == {x \in Ranks \X (1 .. MaxLaunches) : Past(x[1], 0, x[2], Do("ExLeave", 0))}

ExOK ==
    \E v \in LeftOver :
        /\ ex = v + Cardinality(Came) + Cardinality(Left)
        /\ \A r \in Ranks :
               At(r, 0, "ExAdd") \/ At(r, 0, "ExWait") =>
                   old[r] >= v + 2 * (RankSize * (launch[r] - 1))

\* A flag counts the steps that have added to it since its rank cleared it.
AddedV1(s, f) == {i \in CalIdxs : Behind(s, s, OnFlag("V1", f, i))}
AddedV2(s, f) ==
    {x \in Ranks \X CalIdxs : Past(x[1], s, launch[s], OnFlag("V2Add", f, x[2]))}

FlagsOK ==
    \A s \in Ranks : launch[s] > 1 \/ pc[s][0] > 1 =>
        IF Behind(s, 0, Do("Clear", 0))
        THEN \A f \in Flags : flags[s][f] = 0
        ELSE /\ \A f \in V1Flags :
                    flags[s][f] \in Nat /\ AddedV1(s, f) = 0 .. flags[s][f] - 1
             /\ \A f \in V2Flags : flags[s][f] = Cardinality(AddedV2(s, f))

\* An event from a cube core is for a split it has multiplied and the vector
\* core has not waited for.
Multiplied(r, c, e) == {i \in CalIdxs : i < split[r][c] /\ i % PIPE_DEPTH = e}
Awaited(r, c, e) ==
    {i \in CalIdxs : Behind(r, c, Do("WaitAic", i)) /\ i % PIPE_DEPTH = e}

EventsOK ==
    \A r \in Ranks, c \in Cores :
        /\ \A e \in 0 .. PIPE_DEPTH - 1 :
               to_aiv[r][c][e] + Cardinality(Awaited(r, c, e))
                   = Cardinality(Multiplied(r, c, e))
        /\ \A i \in CalIdxs : Behind(r, c, Do("WaitAic", i)) => split[r][c] > i

\* What a row of the window of rank r is, once it is multiplied: a partial
\* product until it is reduced there, and then the norm until the sum is shared.
RowKind(r, row, i) ==
    IF \E c \in Cores : /\ Behind(r, c, Do("Share", i)) /\ gather_rank_id(c) = r
                         /\ row \in GatherRows(c, i)
    THEN "sum"
    ELSE IF \E c \in Cores : /\ Behind(r, c, Do("StepOne", i))
                              /\ row \in StepOneRows(r, c, i)
    THEN "norm" ELSE "partial"

RowsOK ==
    \A r \in Ranks, c \in Cores, i \in CalIdxs :
        /\ split[r][c] > i => \A row \in TileRows(c, i) :
               window[r][row] = <<launch[r], RowKind(r, row, i)>>
        /\ Behind(r, c, Do("StepOne", i)) => \A row \in StepOneRows(r, c, i) :
               add_out[r][row] = <<launch[r], "sum">>
        /\ Behind(r, c, Do("Gather", i)) => \A row \in GatherRows(c, i) :
               out[r][row] = <<launch[r], "norm">>
        /\ Behind(r, c, Do("Fetch", i)) /\ gather_rank_id(c) # r =>
               \A row \in GatherRows(c, i) : add_out[r][row] = <<launch[r], "sum">>

\* The counters, events and windows agree with where the cores of all ranks are.
Inductive ==
    /\ InStep
    /\ ExOK
    /\ FlagsOK
    /\ EventsOK
    /\ RowsOK
=============================================================================
