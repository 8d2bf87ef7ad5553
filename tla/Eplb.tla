--------------------------------- MODULE Eplb -------------------------------
(***************************************************************************)
(* Dynamic expert placement (src/vllm_ascend/eplb). Every rank runs the    *)
(* model step by step; a counter of the steps, kept by each rank for       *)
(* itself, says when the loads are gathered, when the rank's planner       *)
(* process is woken, when its plan is fetched and when the experts of      *)
(* which layer move. The ranks exchange weights pairwise and never tell    *)
(* each other what they have planned.                                      *)
(***************************************************************************)
EXTENDS Integers, Sequences, FiniteSets, FiniteSetsExt, SequencesExt

CONSTANTS
  world_size, num_experts, num_local_experts, num_moe_layers, tp_size,
  expert_heat_collection_interval, algorithm_execution_interval,
  InitialPlacement,   \* the experts in the slots of every rank and layer
  Proposals,          \* the placements that a policy may propose
  HeatStatuses,       \* what the ranks may make of a step's number of tokens
  RecordPaths         \* whether expert_map_record_path is set

(* With an interval of 0, which _validate_config lets pass, the plan is     *)
(* fetched in the step whose end wakes the planner, and the rank hangs.     *)
ASSUME IntervalAssumption ==
  /\ expert_heat_collection_interval \in Nat \ {0}
  /\ algorithm_execution_interval \in Nat \ {0}
  /\ num_moe_layers \in Nat \ {0}

Ranks == 0 .. world_size - 1
Experts == 0 .. num_experts - 1
Slots == 0 .. num_local_experts - 1
Layers == 0 .. num_moe_layers - 1

VARIABLES
  record,             \* expert_map_record_path is set
  pc,                 \* where the rank is in its step
  cur_iterations,
  heat_status,        \* eplb_heat_collection_status
  moe_load,           \* shared_dict["moe_load"]
  planner_q,          \* wake-ups in the planner's queue
  old_expert_maps,    \* the planner's own memory of the placement
  planned,            \* the plan that the planner is about to put
  block_update_q, update_info_all,
  loader,             \* D2DExpertWeightLoader
  sends, recvs,       \* posted operations that are still under way
  buffer,             \* buffer_tensor_list
  expert_map,         \* expert_map_per_layer_cpu
  log2phy,            \* log2phy_map_per_layer
  weight              \* the expert whose weights a slot holds

stepVars == <<record, pc, cur_iterations, heat_status>>
plannerVars == <<moe_load, planner_q, old_expert_maps, planned>>
fetchVars == <<block_update_q, update_info_all>>
wireVars == <<sends, recvs, buffer>>
modelVars == <<expert_map, log2phy, weight>>
vars == <<stepVars, plannerVars, fetchVars, loader, wireVars, modelVars>>

-----------------------------------------------------------------------------
(* The planner's arithmetic, for one layer. A placement gives the expert in *)
(* each slot of each rank, a map the slot of each expert, or -1.            *)

local2global(placement) ==
  [r \in Ranks |-> [e \in Experts |->
     Max({k \in Slots : placement[r][k] = e} \cup {-1})]]

global2local(map) ==
  [r \in Ranks |-> [k \in Slots |->
     CHOOSE e \in Experts : map[r][e] = k]]

Placed(placement) == UNION {{placement[r][k] : k \in Slots} : r \in Ranks}

MovesInside(old, new) ==
  \E k \in Slots : new[k] \in {old[i] : i \in Slots} /\ new[k] # old[k]

(* Whether a proposal stands; a layer for which it does not keeps its old   *)
(* placement.                                                               *)
check_expert_placement(old, new) ==
  /\ Cardinality(Placed(new)) >= Cardinality(Placed(old))
  /\ \A r \in Ranks :
       /\ Cardinality({new[r][k] : k \in Slots}) = num_local_experts
       /\ ~MovesInside(old[r], new[r])

(* The rank that sends an expert: the first that gives it up, or else the   *)
(* first that has it.                                                       *)
src_rank(old, new, e) ==
  LET holders == {r \in Ranks : old[r][e] # -1}
      giving == {r \in holders : new[r][e] = -1}
  IN Min(IF giving # {} THEN giving ELSE holders)

(* The experts to receive, by receiving rank and then by expert.            *)
experts_to_recv(old, new) ==
  SelectSeq([i \in 1 .. world_size * num_experts |->
               <<(i - 1) \div num_experts, (i - 1) % num_experts>>],
            LAMBDA m : old[m[1]][m[2]] = -1 /\ new[m[1]][m[2]] # -1)

(* What a rank sends, as <<receiver, expert>>, and receives, as             *)
(* <<sender, expert>>.                                                      *)
expert_send_info_reversed(old, new, r) ==
  Reverse(SelectSeq(experts_to_recv(old, new),
                    LAMBDA m : src_rank(old, new, m[2]) = r))

expert_send_info(old, new, r) ==
  SelectSeq(experts_to_recv(old, new),
            LAMBDA m : src_rank(old, new, m[2]) = r)

expert_recv_info(old, new, r) ==
  LET mine == SelectSeq(experts_to_recv(old, new), LAMBDA m : m[1] = r)
  IN [i \in DOMAIN mine |->
        <<src_rank(old, new, mine[i][2]), mine[i][2]>>]

(* The physical number of the copy of each expert that a rank sends to.     *)
generate_log2phy_map(map, r) ==
  LET valid_count == Cardinality({e \in Experts : map[0][e] # -1})
      holders(e) == SelectSeq([i \in 1 .. world_size |-> i - 1],
                              LAMBDA s : map[s][e] # -1)
      replica_index(e) ==
        (IF tp_size > 1 THEN (r % tp_size) + (r \div tp_size) + e ELSE r)
          % Len(holders(e))
  IN [e \in Experts |->
        LET s == holders(e)[replica_index(e) + 1]
        IN map[s][e] + s * valid_count]

-----------------------------------------------------------------------------
Waiting ==
  [state |-> "WAITING", layer |-> -1, map |-> <<>>, log2phy |-> <<>>,
   recv_expert_list |-> <<>>]

Init ==
  LET maps == [l \in Layers |-> local2global(InitialPlacement[l])] IN
  /\ record \in RecordPaths
  /\ pc = [r \in Ranks |-> "before"]
  /\ cur_iterations = [r \in Ranks |-> 0]
  /\ heat_status = [r \in Ranks |-> TRUE]
  /\ moe_load = [r \in Ranks |-> InitialPlacement]
  /\ planner_q = [r \in Ranks |-> 0]
  /\ old_expert_maps = [r \in Ranks |-> maps]
  /\ planned = [r \in Ranks |-> <<>>]
  /\ block_update_q = [r \in Ranks |-> <<>>]
  /\ update_info_all = [r \in Ranks |-> <<>>]
  /\ loader = [r \in Ranks |-> Waiting]
  /\ sends = [r \in Ranks |-> <<>>]
  /\ recvs = [r \in Ranks |-> <<>>]
  /\ buffer = [r \in Ranks |-> [k \in Slots |-> -1]]
  /\ expert_map = [r \in Ranks |-> [l \in Layers |-> maps[l][r]]]
  /\ log2phy = [r \in Ranks |->
                  [l \in Layers |-> generate_log2phy_map(maps[l], r)]]
  /\ weight = [r \in Ranks |-> [l \in Layers |-> InitialPlacement[l][r]]]

-----------------------------------------------------------------------------
(* The phases of a cycle.                                                   *)
FirstUpdate == expert_heat_collection_interval + algorithm_execution_interval

wakeup_eplb_worker_flag(r) ==
  cur_iterations[r] = expert_heat_collection_interval - 1

get_update_info_flag(r) == cur_iterations[r] = FirstUpdate - 1

update_expert_weight_flag_one_short(r) ==
  cur_iterations[r] \in FirstUpdate .. FirstUpdate + num_moe_layers - 2

update_expert_weight_flag(r) ==
  cur_iterations[r] \in FirstUpdate .. FirstUpdate + num_moe_layers - 1

(* The loads that are cleared and the map that is written to the record     *)
(* file at the end of a cycle are left out.                                 *)
update_iteration_heat_kept(r) ==
  cur_iterations' =
    [cur_iterations EXCEPT ![r] =
       IF @ + 1 = FirstUpdate + num_moe_layers
       THEN expert_heat_collection_interval - 1 ELSE @ + 1]

update_iteration(r) ==
  cur_iterations' =
    [cur_iterations EXCEPT ![r] = (@ + 1) % (FirstUpdate + num_moe_layers)]

-----------------------------------------------------------------------------
(* The loader. A transfer is started in one step before the model runs and  *)
(* completed when it has run.                                               *)

(* The posted operations of a plan for one layer: the slot that the rank    *)
(* has an expert in now is sent from, and a buffer is received into.        *)
comm_op_list(r, info) ==
  [sends |-> [i \in DOMAIN info.send |->
                [to |-> info.send[i][1], layer |-> info.layer,
                 slot |-> expert_map[r][info.layer][info.send[i][2]]]],
   recvs |-> [i \in DOMAIN info.recv |->
                [from |-> info.recv[i][1], id |-> i - 1]]]

(* set_log2phy_map, generate_expert_d2d_transfer_task and                   *)
(* asyn_expert_weight_transfer. A loader that is not waiting takes only the *)
(* first of them.                                                           *)
start_transfer(r, info) ==
  IF loader[r].state = "WAITING"
  THEN LET ops == comm_op_list(r, info) IN
       /\ sends' = [sends EXCEPT ![r] = ops.sends]
       /\ recvs' = [recvs EXCEPT ![r] = ops.recvs]
       /\ loader' = [loader EXCEPT ![r] =
            [state |-> "TRANSFERRING", layer |-> info.layer,
             map |-> info.map, log2phy |-> info.log2phy,
             recv_expert_list |->
               [i \in DOMAIN info.recv |-> <<info.map[info.recv[i][2]], i - 1>>]]]
  ELSE /\ loader' = [loader EXCEPT ![r].log2phy = info.log2phy]
       /\ UNCHANGED <<sends, recvs>>

(* Messages from one rank to another arrive in the order in which they were *)
(* sent, and fill the buffers in the order in which these were posted.      *)
Transfer(s, d) ==
  LET out == {i \in DOMAIN sends[s] : sends[s][i].to = d}
      in == {i \in DOMAIN recvs[d] : recvs[d][i].from = s}
  IN /\ out # {} /\ in # {}
     /\ LET op == sends[s][Min(out)]
            into == recvs[d][Min(in)].id
        IN buffer' = [buffer EXCEPT ![d][into] = weight[s][op.layer][op.slot]]
     /\ sends' = [sends EXCEPT ![s] = RemoveAt(@, Min(out))]
     /\ recvs' = [recvs EXCEPT ![d] = RemoveAt(@, Min(in))]
     /\ UNCHANGED <<stepVars, plannerVars, fetchVars, loader, modelVars>>

(* Waits for the rank's own operations, then takes over the maps and copies *)
(* the buffers to the slots of the new experts.                             *)
TakeOver(r) ==
  LET l == loader[r].layer
      list == loader[r].recv_expert_list
  IN /\ expert_map' = [expert_map EXCEPT ![r][l] = loader[r].map]
     /\ log2phy' = [log2phy EXCEPT ![r][l] = loader[r].log2phy]
     /\ weight' = [weight EXCEPT ![r][l] = [k \in Slots |->
          LET new == {i \in DOMAIN list : list[i][1] = k}
          IN IF new = {} THEN @[k] ELSE buffer[r][list[Max(new)][2]]]]
     /\ loader' = [loader EXCEPT ![r] = Waiting]

update_expert_map_and_weight(r) ==
  IF loader[r].state # "TRANSFERRING"
  THEN UNCHANGED <<loader, modelVars>>
  ELSE sends[r] = <<>> /\ recvs[r] = <<>> /\ TakeOver(r)

-----------------------------------------------------------------------------
(* The rank's step.                                                         *)

(* Blocks until the plan is there in the step that fetches it.              *)
forward_before(r) ==
  /\ pc[r] = "before"
  /\ pc' = [pc EXCEPT ![r] = "forward"]
  /\ IF get_update_info_flag(r)
     THEN /\ block_update_q[r] # <<>>
          /\ update_info_all' =
               [update_info_all EXCEPT ![r] = Head(block_update_q[r])]
          /\ block_update_q' = [block_update_q EXCEPT ![r] = Tail(@)]
          /\ UNCHANGED <<loader, sends, recvs>>
     ELSE /\ UNCHANGED block_update_q
          /\ IF update_expert_weight_flag(r)
             THEN /\ start_transfer(r, Head(update_info_all[r]))
                  /\ update_info_all' = [update_info_all EXCEPT ![r] = Tail(@)]
             ELSE UNCHANGED <<loader, sends, recvs, update_info_all>>
  /\ UNCHANGED <<record, cur_iterations, heat_status, plannerVars, buffer,
                 modelVars>>

(* The model runs. Its layers exchange tokens among all ranks, so that none *)
(* is through before all have come.                                         *)
Forward ==
  /\ \A r \in Ranks : pc[r] = "forward"
  /\ pc' = [r \in Ranks |-> "end"]
  /\ heat_status' \in HeatStatuses
  /\ UNCHANGED <<record, cur_iterations, plannerVars, fetchVars, loader,
                 wireVars, modelVars>>

(* The all_gather of the loads, with which all ranks have the same. The     *)
(* policy's proposal stands for the loads that lead to it.                  *)
compute_and_set_moe_load ==
  /\ \A r \in Ranks : pc[r] = "end" /\ wakeup_eplb_worker_flag(r)
  /\ \E p \in Proposals : moe_load' = [r \in Ranks |-> p]
  /\ pc' = [r \in Ranks |-> "gathered"]
  /\ UNCHANGED <<record, cur_iterations, heat_status, planner_q,
                 old_expert_maps, planned, fetchVars, loader, wireVars,
                 modelVars>>

forward_end(r) ==
  /\ pc[r] = IF wakeup_eplb_worker_flag(r) THEN "gathered" ELSE "end"
  /\ pc' = [pc EXCEPT ![r] = "before"]
  /\ planner_q' = IF wakeup_eplb_worker_flag(r)
                  THEN [planner_q EXCEPT ![r] = @ + 1] ELSE planner_q
  /\ IF update_expert_weight_flag(r) /\ ~record
     THEN update_expert_map_and_weight(r)
     ELSE UNCHANGED <<loader, modelVars>>
  /\ IF \/ cur_iterations[r] >= expert_heat_collection_interval - 1
        \/ heat_status[r]
     THEN update_iteration(r) ELSE UNCHANGED cur_iterations
  /\ UNCHANGED <<record, heat_status, moe_load, old_expert_maps, planned,
                 fetchVars, wireVars>>

-----------------------------------------------------------------------------
(* The planner process of a rank.                                           *)

new_expert_maps(r, l) ==
  IF check_expert_placement(global2local(old_expert_maps[r][l]), moe_load[r][l])
  THEN local2global(moe_load[r][l])
  ELSE old_expert_maps[r][l]

(* The rank's part of the plan, by layer.                                   *)
pack_update_info(r) ==
  [i \in 1 .. num_moe_layers |->
     LET l == i - 1
         old == old_expert_maps[r][l]
         new == new_expert_maps(r, l)
         same == new = old
     IN [send |-> IF same THEN <<>> ELSE expert_send_info(old, new, r),
         recv |-> IF same THEN <<>> ELSE expert_recv_info(old, new, r),
         map |-> new[r],
         log2phy |-> generate_log2phy_map(new, r),
         layer |-> l]]

(* The maps are also put into shared_dict, where only the record file takes *)
(* them from after the first plan.                                          *)
do_update(r) ==
  /\ planned[r] = <<>> /\ planner_q[r] > 0
  /\ planner_q' = [planner_q EXCEPT ![r] = @ - 1]
  /\ planned' = [planned EXCEPT ![r] = pack_update_info(r)]
  /\ old_expert_maps' = [old_expert_maps EXCEPT ![r] =
                           [l \in Layers |-> new_expert_maps(r, l)]]
  /\ UNCHANGED <<stepVars, moe_load, fetchVars, loader, wireVars, modelVars>>

(* Spins until block_update_q is empty, then puts the plan.                 *)
put_update_info(r) ==
  /\ planned[r] # <<>> /\ block_update_q[r] = <<>>
  /\ block_update_q' = [block_update_q EXCEPT ![r] = <<planned[r]>>]
  /\ planned' = [planned EXCEPT ![r] = <<>>]
  /\ UNCHANGED <<stepVars, moe_load, planner_q, old_expert_maps,
                 update_info_all, loader, wireVars, modelVars>>

-----------------------------------------------------------------------------
Next ==
  \/ Forward
  \/ compute_and_set_moe_load
  \/ \E s, d \in Ranks : Transfer(s, d)
  \/ \E r \in Ranks : forward_before(r) \/ forward_end(r)
  \/ \E r \in Ranks : put_update_info(r)
  \/ \E r \in Ranks : do_update(r)

(* Some rank, planner or transfer that can go on does. As the ranks meet in *)
(* every step none of them can run for ever while another stands still.     *)
Fairness == WF_vars(Next)

Spec == Init /\ [][Next]_vars /\ Fairness

-----------------------------------------------------------------------------
(* While the model runs, the copy of an expert that a rank sends a token to *)
(* holds the weights of that expert, on whichever rank it is. The maps of a *)
(* rank follow from its own planner, the weights from the transfers that    *)
(* other ranks' plans have started.                                         *)
TokensReachTheirExpert ==
  (\A r \in Ranks : pc[r] = "forward") =>
    \A r \in Ranks, l \in Layers, e \in Experts :
      LET phy == log2phy[r][l][e]
      IN weight[phy \div num_local_experts][l][phy % num_local_experts] = e

(* A planner never asks where the experts are but remembers its last plan:  *)
(* when it plans, that is where they are on every rank, unless the map is   *)
(* only recorded.                                                           *)
PlannedFromTruth ==
  \A r, s \in Ranks :
    planner_q[r] > 0 /\ ~record =>
      \A l \in Layers : global2local(old_expert_maps[r][l])[s] = weight[s][l]

(* Once the loads are gathered the cycle comes to its end on every rank,    *)
(* whatever the later steps hold: the fetch of the plan and the waits for   *)
(* the transfers are all answered.                                          *)
EveryCycleEnds ==
  \A r \in Ranks :
    cur_iterations[r] >= expert_heat_collection_interval
      ~> cur_iterations[r] = 0
=============================================================================
