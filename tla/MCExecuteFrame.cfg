SPECIFICATION FairFSpec
CONSTANTS
  PAGE_SIZE = 4
  NPages = 4
  MappedPages = {1, 2}
  NVals = 2
  JumpTab <- NullJumpTab
  Entries = {4}
  Programs <- MCFramePrograms
  Patches <- SmcPatches
  TB_MAX_INSNS = 3
  TBPoolSize = 6
  CodePoolSize = 24
  L1Size = 3
  SpillWords = 2
INVARIANTS
  FrameTypeOK
  FrameBalanced
  CallsAligned
  HostContextKept
  LocalsSurvive
PROPERTIES
  BranchesGetLinked
  ImplementsGuest
