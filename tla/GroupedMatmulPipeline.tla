----------------------- MODULE GroupedMatmulPipeline -----------------------
(* One cube core (AIC) and its vector core (AIV) in a grouped matmul of the *)
(* fused expert operator. The cube core's scalar unit hands instructions to *)
(* four pipes that run concurrently and synchronise by events only:         *)
(*   MTE2 global memory -> L1, MTE1 L1 -> L0, M the multiplier L0 -> L0C,   *)
(*   FIX L0C -> a ring of WORKSPACE_STAGES tiles in global memory,          *)
(* from which the vector core takes each tile. The multiply of an L1 tile   *)
(* is issued PRELOAD_STAGES loads late.                                     *)
(*                                                                          *)
(* The second matmul guards the ring with hardware flags, one pair a stage. *)
(* The first one (SoftSync) has two counters of one byte in global memory,  *)
(* and a single wait object whose target each new tile overwrites.          *)
EXTENDS TileDealing

CONSTANTS NBlocks,           \* tiles side by side that use the same rows of A
          L1A_STAGES, L1B_STAGES, L0A_STAGES, L0B_STAGES, PRELOAD_STAGES,
          FlagLimit,         \* values of a counter: 256
          Variants           \* the matmuls and sizes to look at, records of
                             \*   soft: the first matmul, counters in memory
                             \*   k: L1 tiles along k
                             \*   parts: L0 tiles along k in one L1 tile
                             \*   stages: tiles in the ring
                             \*   min, max: bounds on the tiles of one expert

VARIABLES variant,           \* the kernel that runs
          coreIdx, loops,    \* which core this is; loops[g]: tiles of expert g
          tiles,             \* the tiles of this core, in order
          pos,               \* pos[p]: instructions pipe p has executed
          event,             \* event[e]: times set and not yet waited for
          l1A, l1B, l0A, l0B, l0C,   \* buffers
          unit,              \* the unit flag of L0C: a result waits for FIX
          ring,              \* ring[stage]: tile in the workspace
          aicFlag, aivFlag,  \* per stage, or at stage 0 the soft counters
          aiv,               \* tiles the vector core has finished
          out                \* out[t]: what it read for tile t

buffers == <<l1A, l1B, l0A, l0B, l0C, unit>>
shared == <<ring, aicFlag, aivFlag>>
program == <<variant, coreIdx, loops, tiles>>
vars == <<program, pos, event, buffers, shared, aiv, out>>

KTileCount == variant.k
KPartLoop == variant.parts
WORKSPACE_STAGES == variant.stages
SoftSync == variant.soft

Pipes == {"MTE2", "MTE1", "M", "FIX", "S"}
Stages == 0 .. WORKSPACE_STAGES - 1

ASSUME PipelineAssumption ==
  /\ {NBlocks, L1A_STAGES, L1B_STAGES, L0A_STAGES, L0B_STAGES,
      PRELOAD_STAGES, FlagLimit} \subseteq Nat \ {0}
  /\ \A v \in Variants :
       /\ v.soft \in BOOLEAN
       /\ {v.k, v.parts, v.stages, v.max} \subseteq Nat \ {0}
       /\ v.min \in 0 .. v.max
  \* a load must find a free L1 buffer while PRELOAD_STAGES tiles wait
  /\ PRELOAD_STAGES < L1A_STAGES /\ PRELOAD_STAGES < L1B_STAGES

-----------------------------------------------------------------------------
NTiles == Len(tiles)
stageId(t) == (t - 1) % WORKSPACE_STAGES

(* The rows of A tile t reads: the address gmBlockA. *)
blockA(t) == <<tiles[t][1], tiles[t][2] \div NBlocks>>

-----------------------------------------------------------------------------
(* BlockMmad: L1 tile n is k tile kIdx(n) of tile tileOf(n)                 *)

L1Tiles == 1 .. NTiles * KTileCount
tileOf(n) == (n - 1) \div KTileCount + 1
kLoopIdx(n) == (n - 1) % KTileCount
isKLoopLast(n) == kLoopIdx(n) = KTileCount - 1

(* The k tile loaded: each core starts at another one (ENABLE_SHUFFLE_K).   *)
kTileIdx(n) == ((coreIdx % KTileCount) + kLoopIdx(n)) % KTileCount

l1AListId(n) == (n - 1) % L1A_STAGES
l1BListId(n) == (n - 1) % L1B_STAGES
l0Id(n, p) == (n - 1) * KPartLoop + p

(* A is still in L1 from the tile before: the block of the second matmul    *)
(* remembers the address.                                                   *)
useResidentA_any_k(t) ==
  /\ ~SoftSync /\ t > 1
  /\ blockA(t) = blockA(t - 1)

useResidentA(t) ==
  /\ ~SoftSync /\ t > 1 /\ KTileCount = L1A_STAGES
  /\ blockA(t) = blockA(t - 1)

(* The scalar unit hands out the instructions in program order and stops    *)
(* only at its own, before and after the copy of a tile to the ring. So an  *)
(* instruction is out once the scalar unit is past those before it: the     *)
(* load of L1 tile n follows the multiply of n - 1 - PRELOAD_STAGES, the    *)
(* multiply of n that of n - 1.                                             *)
Passed(t) == pos["S"] >= 2 * t
LoadIssued(n) == n <= PRELOAD_STAGES \/ Passed((n - 1 - PRELOAD_STAGES) \div KTileCount)
MmadIssued(n) == Passed((n - 1) \div KTileCount)

Done(pipe) == pos' = [pos EXCEPT ![pipe] = @ + 1]

(* WaitFlag on the events in w, SetFlag on those in s. *)
Sync(w, s) ==
  /\ \A e \in w : event[e] > 0
  /\ event' = [e \in DOMAIN event |->
                 event[e] - (IF e \in w THEN 1 ELSE 0) + (IF e \in s THEN 1 ELSE 0)]

(* The events every buffer starts with (the constructor) and the core takes *)
(* back at the end (the destructor).                                        *)
BufferEvents ==
  ({"MTE1_MTE2"} \X {"A"} \X (0 .. L1A_STAGES - 1))
    \cup ({"MTE1_MTE2"} \X {"B"} \X (0 .. L1B_STAGES - 1))
    \cup ({"M_MTE1"} \X {"A"} \X (0 .. L0A_STAGES - 1))
    \cup ({"M_MTE1"} \X {"B"} \X (0 .. L0B_STAGES - 1))

DataEvents ==
  ({"MTE2_MTE1"} \X {"A"} \X (0 .. L1A_STAGES - 1))
    \cup ({"MTE2_MTE1"} \X {"B"} \X (0 .. L1B_STAGES - 1))

MTE1_M == <<"MTE1_M", "", 0>>
Events == BufferEvents \cup DataEvents \cup {MTE1_M}

Empty == <<>>

Init ==
  /\ variant \in Variants
  /\ coreIdx \in 0 .. CoreNum - 1
  /\ loops \in [0 .. Groups - 1 -> variant.min .. variant.max]
  /\ tiles = CoreTiles(loops, coreIdx)
  /\ pos = [p \in Pipes |-> 0]
  /\ event = [e \in Events |-> IF e \in BufferEvents THEN 1 ELSE 0]
  /\ l1A = [i \in 0 .. L1A_STAGES - 1 |-> Empty]
  /\ l1B = [i \in 0 .. L1B_STAGES - 1 |-> Empty]
  /\ l0A = [i \in 0 .. L0A_STAGES - 1 |-> Empty]
  /\ l0B = [i \in 0 .. L0B_STAGES - 1 |-> Empty]
  /\ l0C = Empty
  /\ unit = FALSE
  /\ ring = [i \in Stages |-> Empty]
  /\ aicFlag = [i \in Stages |-> 0]
  /\ aivFlag = [i \in Stages |-> 0]
  /\ aiv = 0
  /\ out = <<>>

-----------------------------------------------------------------------------
(* The pipes                                                                *)

CopyGmToL1A ==
  LET n == pos["MTE2"] \div 2 + 1
      i == l1AListId(n)
  IN /\ pos["MTE2"] % 2 = 0 /\ n \in L1Tiles /\ LoadIssued(n)
     /\ Sync({<<"MTE1_MTE2", "A", i>>}, {<<"MTE2_MTE1", "A", i>>})
     /\ l1A' = IF useResidentA(tileOf(n)) THEN l1A
               ELSE [l1A EXCEPT ![i] = <<blockA(tileOf(n)), kTileIdx(n)>>]
     /\ Done("MTE2")
     /\ UNCHANGED <<program, l1B, l0A, l0B, l0C, unit, shared, aiv, out>>

CopyGmToL1B ==
  LET n == pos["MTE2"] \div 2 + 1
      i == l1BListId(n)
  IN /\ pos["MTE2"] % 2 = 1 /\ n \in L1Tiles
     /\ Sync({<<"MTE1_MTE2", "B", i>>}, {<<"MTE2_MTE1", "B", i>>})
     /\ l1B' = [l1B EXCEPT ![i] = <<tiles[tileOf(n)], kTileIdx(n)>>]
     /\ Done("MTE2")
     /\ UNCHANGED <<program, l1A, l0A, l0B, l0C, unit, shared, aiv, out>>

(* The L1 tile is waited for at its first part and given back after its     *)
(* last one.                                                                *)
FirstPart(p, e) == IF p = 0 THEN {e} ELSE {}
LastPart(p, e) == IF p = KPartLoop - 1 THEN {e} ELSE {}

CopyL1ToL0A ==
  LET n == pos["MTE1"] \div (2 * KPartLoop) + 1
      p == (pos["MTE1"] \div 2) % KPartLoop
      i == l1AListId(n)
      j == l0Id(n, p) % L0A_STAGES
  IN /\ pos["MTE1"] % 2 = 0 /\ n \in L1Tiles /\ MmadIssued(n)
     /\ Sync({<<"M_MTE1", "A", j>>} \cup FirstPart(p, <<"MTE2_MTE1", "A", i>>),
             LastPart(p, <<"MTE1_MTE2", "A", i>>))
     /\ l0A' = [l0A EXCEPT ![j] = Append(l1A[i], p)]
     /\ Done("MTE1")
     /\ UNCHANGED <<program, l1A, l1B, l0B, l0C, unit, shared, aiv, out>>

CopyL1ToL0B ==
  LET n == pos["MTE1"] \div (2 * KPartLoop) + 1
      p == (pos["MTE1"] \div 2) % KPartLoop
      i == l1BListId(n)
      j == l0Id(n, p) % L0B_STAGES
  IN /\ pos["MTE1"] % 2 = 1 /\ n \in L1Tiles
     /\ Sync({<<"M_MTE1", "B", j>>} \cup FirstPart(p, <<"MTE2_MTE1", "B", i>>),
             {MTE1_M} \cup LastPart(p, <<"MTE1_MTE2", "B", i>>))
     /\ l0B' = [l0B EXCEPT ![j] = Append(l1B[i], p)]
     /\ Done("MTE1")
     /\ UNCHANGED <<program, l1A, l1B, l0A, l0C, unit, shared, aiv, out>>

(* The product is added to L0C; the unit flag holds the multiplier off      *)
(* while a finished result has not left.                                    *)
TileMmad ==
  LET n == pos["M"] \div KPartLoop + 1
      p == pos["M"] % KPartLoop
      a == l0Id(n, p) % L0A_STAGES
      b == l0Id(n, p) % L0B_STAGES
      initC == kLoopIdx(n) = 0 /\ p = 0
  IN /\ n \in L1Tiles /\ MmadIssued(n) /\ ~unit
     /\ Sync({MTE1_M}, {<<"M_MTE1", "B", b>>, <<"M_MTE1", "A", a>>})
     /\ l0C' = Append(IF initC THEN Empty ELSE l0C, <<l0A[a], l0B[b]>>)
     /\ unit' = (isKLoopLast(n) /\ p = KPartLoop - 1)
     /\ Done("M")
     /\ UNCHANGED <<program, l1A, l1B, l0A, l0B, shared, aiv, out>>

CopyL0CToGm ==
  LET t == pos["FIX"] + 1
  IN /\ t \in 1 .. NTiles /\ pos["S"] >= 2 * t - 1 /\ unit
     /\ ring' = [ring EXCEPT ![stageId(t)] = l0C]
     /\ unit' = FALSE
     /\ aicFlag' = IF SoftSync THEN aicFlag
                   ELSE [aicFlag EXCEPT ![stageId(t)] = @ + 1]  \* AicSetFunc
     /\ Done("FIX")
     /\ UNCHANGED <<program, event, l1A, l1B, l0A, l0B, l0C, aivFlag, aiv, out>>

-----------------------------------------------------------------------------
(* The scalar unit                                                          *)

(* PipeBarrier<PIPE_ALL> at the callbacks of tile t: everything issued so   *)
(* far is done, stores of the ring up to tile stored included.              *)
LastLoad(t) ==
  LET n == t * KTileCount + PRELOAD_STAGES
  IN IF n < NTiles * KTileCount THEN n ELSE NTiles * KTileCount

PipeBarrier(t, stored) ==
  /\ pos["MTE2"] = 2 * LastLoad(t)
  /\ pos["MTE1"] = 2 * t * KTileCount * KPartLoop
  /\ pos["M"] = t * KTileCount * KPartLoop
  /\ pos["FIX"] = stored

(* The target in aicWaitFunc1 when the callback of tile t runs: the tile    *)
(* then being loaded has overwritten it.                                    *)
target_far(t) == tileOf(LastLoad(t))
target(t) == tileOf(LastLoad(t)) - WORKSPACE_STAGES

(* A stage is waited for once all of them have been used.                   *)
stageReused_late(t) == t > WORKSPACE_STAGES + 1
stageReused(t) == t > WORKSPACE_STAGES

(* The callback before the copy of tile t; without SoftSync the one after   *)
(* it is an instruction of the FIX pipe.                                    *)
BeforeFixpipe ==
  LET t == pos["S"] \div 2 + 1
  IN /\ pos["S"] % 2 = 0 /\ t \in 1 .. NTiles
     /\ stageReused(t) =>
          IF SoftSync THEN PipeBarrier(t, t - 1) /\ aivFlag[0] >= target(t)
          ELSE aivFlag[stageId(t)] > 0
     /\ aivFlag' = IF stageReused(t) /\ ~SoftSync
                   THEN [aivFlag EXCEPT ![stageId(t)] = @ - 1] ELSE aivFlag
     /\ pos' = [pos EXCEPT !["S"] = @ + (IF SoftSync THEN 1 ELSE 2)]
     /\ UNCHANGED <<program, event, buffers, ring, aicFlag, aiv, out>>

(* EncreaseSyncFlag: a byte. *)
Increased(flag) == [flag EXCEPT ![0] = (@ + 1) % FlagLimit]

AfterFixpipe ==
  LET t == pos["S"] \div 2 + 1
  IN /\ SoftSync /\ pos["S"] % 2 = 1 /\ t \in 1 .. NTiles
     /\ PipeBarrier(t, t)
     /\ aicFlag' = Increased(aicFlag)
     /\ Done("S")
     /\ UNCHANGED <<program, event, buffers, ring, aivFlag, aiv, out>>

(* The loop on stageUsed: the flags of the last stages, which no tile waited *)
(* for. The first matmul only counts its target up.                         *)
stageUsed == IF SoftSync THEN 0
             ELSE IF NTiles < WORKSPACE_STAGES THEN NTiles ELSE WORKSPACE_STAGES

Drain ==
  LET i == pos["S"] - 2 * NTiles
      stage == stageId(NTiles - stageUsed + i + 1)
  IN /\ i \in 0 .. stageUsed - 1
     /\ aivFlag[stage] > 0
     /\ aivFlag' = [aivFlag EXCEPT ![stage] = @ - 1]
     /\ Done("S")
     /\ UNCHANGED <<program, event, buffers, ring, aicFlag, aiv, out>>

End == 2 * NTiles + stageUsed + 1

(* ~BlockMmad. *)
Destroy ==
  /\ pos["S"] = End - 1
  /\ Sync(BufferEvents, {})
  /\ Done("S")
  /\ UNCHANGED <<program, buffers, shared, aiv, out>>

-----------------------------------------------------------------------------
(* The vector core: wait for the tile, use it, give the stage back          *)

Epilogue ==
  LET t == aiv + 1
      stage == stageId(t)
  IN /\ t \in 1 .. NTiles
     /\ IF SoftSync
        THEN /\ aicFlag[0] >= t
             /\ aivFlag' = Increased(aivFlag)
             /\ UNCHANGED aicFlag
        ELSE /\ aicFlag[stage] > 0
             /\ aicFlag' = [aicFlag EXCEPT ![stage] = @ - 1]
             /\ aivFlag' = [aivFlag EXCEPT ![stage] = @ + 1]
     /\ out' = Append(out, ring[stage])
     /\ aiv' = t
     /\ UNCHANGED <<program, pos, event, buffers, ring>>

(* The counters go back to zero for the next launch. *)
CleanFlags_own == aivFlag' = [aivFlag EXCEPT ![0] = 0] /\ UNCHANGED aicFlag

CleanFlags ==
  /\ aivFlag' = [aivFlag EXCEPT ![0] = 0]
  /\ aicFlag' = [aicFlag EXCEPT ![0] = 0]

Clean ==
  /\ SoftSync /\ aiv = NTiles
  /\ CleanFlags
  /\ aiv' = NTiles + 1
  /\ UNCHANGED <<program, pos, event, buffers, ring, out>>

-----------------------------------------------------------------------------
Ended ==
  /\ pos["S"] = End
  /\ aiv = NTiles + (IF SoftSync THEN 1 ELSE 0)

Next ==
  \/ CopyGmToL1A \/ CopyGmToL1B \/ CopyL1ToL0A \/ CopyL1ToL0B
  \/ TileMmad \/ CopyL0CToGm
  \/ BeforeFixpipe \/ AfterFixpipe \/ Drain \/ Destroy
  \/ Epilogue \/ Clean

(* The pipes and cores run until they wait; each step is taken once, so     *)
(* fairness of the whole is enough.                                         *)
Spec == Init /\ [][Next]_vars /\ WF_vars(Next)

-----------------------------------------------------------------------------
(* The sum of products that tile t stands for. *)
Product(t) ==
  [i \in 1 .. KTileCount * KPartLoop |->
     LET k == ((coreIdx % KTileCount) + (i - 1) \div KPartLoop) % KTileCount
         p == (i - 1) % KPartLoop
     IN <<<<blockA(t), k, p>>, <<tiles[t], k, p>>>>]

(* Counters stay within what was set: no event is set twice before it is    *)
(* waited for, except MTE1_M, which runs ahead by the L0 buffers at most.   *)
TypeOK ==
  /\ pos \in [Pipes -> Nat]
  /\ event \in [Events -> 0 .. L0A_STAGES]
  /\ \A e \in Events \ {MTE1_M} : event[e] \in {0, 1}
  /\ aicFlag \in [Stages -> 0 .. IF SoftSync THEN FlagLimit - 1 ELSE 1]
  /\ aivFlag \in [Stages -> 0 .. IF SoftSync THEN FlagLimit - 1 ELSE 1]
  /\ Len(out) <= NTiles

(* The vector core reads each of its tiles whole: all parts of k, of its    *)
(* own rows and columns, once, though loads of the next tile, the copy out  *)
(* and the reuse of L1, L0, L0C and ring stages overlap (L1TileMmad and the *)
(* callbacks around the fixpipe).                                           *)
TilesWhole == \A t \in DOMAIN out : out[t] = Product(t)

(* A finished kernel leaves every event, flag and counter at zero: the next *)
(* kernel on these cores starts from the state this one started from.       *)
FlagsBalanced ==
  Ended => /\ \A e \in Events : event[e] = 0
           /\ \A i \in Stages : aicFlag[i] = 0 /\ aivFlag[i] = 0

(* Neither core waits for ever: all tiles are computed and taken.           *)
EveryTileTaken == <>Ended
=============================================================================
