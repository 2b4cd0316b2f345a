SPECIFICATION Spec
CONSTANTS
  PAGE_SIZE = 4
  NPages = 4
  MappedPages = {1, 2, 3}
  NVals = 2
  JumpTab <- MCJumpTab
  Entries = {13}
  Programs <- LastPagePrograms
  Patches <- NoPatches
  TB_MAX_INSNS = 3
  TBPoolSize = 8
  CodePoolSize = 24
  L1Size = 2
INVARIANT
  BoundaryAssertHolds
