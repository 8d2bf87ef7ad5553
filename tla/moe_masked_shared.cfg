SPECIFICATION Spec
CONSTANTS
  MoeExpertNumPerRank = 1
  AivNum = 2
  Deployments <- SharedAndMasked
INVARIANT OutputsCorrect
CHECK_DEADLOCK FALSE
