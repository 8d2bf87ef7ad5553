SPECIFICATION Spec
CONSTANTS
  MoeExpertNumPerRank = 1
  AivNum = 2
  Deployments <- WithAndWithoutShared
INVARIANTS TypeOK OutputsCorrect WindowsFree CoresInStep CountsAgree
PROPERTY EveryLaunchEnds
CHECK_DEADLOCK FALSE
