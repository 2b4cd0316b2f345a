SPECIFICATION Spec
CONSTANTS
  PAGE_SIZE = 4
  NPages = 4
  MappedPages = {1, 2}
  NVals = 2
  JumpTab <- MCJumpTab
  Entries = {4}
  Programs <- FencePrograms
  Patches <- FencePatches
  TB_MAX_INSNS = 3
  TBPoolSize = 8
  CodePoolSize = 24
  L1Size = 2
INVARIANT
  FetchCoherent
