SPECIFICATION Spec
CONSTANTS
  PAGE_SIZE = 4
  NPages = 4
  MappedPages = {1, 2}
  NVals = 3
  JumpTab <- MCJumpTab
  Entries = {4}
  Programs <- MCPrograms
  Patches <- NoPatches
  TB_MAX_INSNS = 3
  TBPoolSize = 6
  CodePoolSize = 8
  L1Size = 3
INVARIANTS
  TypeOK
  CacheCoherent
  OneTranslationPerIp
  RegionInPage
  StopsAtEarlierEntry
  LinksRecorded
  BranchSlotMatchesIp
PROPERTY
  TranslationStable
