SPECIFICATION Spec
CONSTANTS
  world_size = 3
  num_experts = 4
  num_local_experts = 2
  num_moe_layers = 2
  tp_size = 1
  expert_heat_collection_interval = 2
  algorithm_execution_interval = 1
  InitialPlacement <- MCInitialPlacement
  Proposals <- MCProposals
  HeatStatuses <- MCHeatStatuses
  RecordPaths = {TRUE, FALSE}
INVARIANTS
  TokensReachTheirExpert
  PlannedFromTruth
PROPERTIES
  EveryCycleEnds
