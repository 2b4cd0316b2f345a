SPECIFICATION Spec
CONSTANTS
  Programs <- MCPrograms
  Entry = 4096
  TB_MAX_INSNS = 4
  MaxMovs = 2
INVARIANTS
  DecodeMatchesAsm
  ListsWhole
  VisitedOnceInOrder
  CallsKnown
  OperandsMatchAsm
  LocalsStayInBlock
  HostFlowMatchesGuest
