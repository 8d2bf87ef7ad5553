SPECIFICATION Spec
CONSTANTS
  CoreNum = 1
  Groups = 2
  NBlocks = 2
  L1A_STAGES = 2
  L1B_STAGES = 2
  L0A_STAGES = 2
  L0B_STAGES = 2
  PRELOAD_STAGES = 1
  FlagLimit = 256
  Variants <- BothMatmuls
INVARIANTS TypeOK TilesWhole FlagsBalanced
PROPERTY EveryTileTaken
CHECK_DEADLOCK FALSE
