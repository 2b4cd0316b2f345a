SPECIFICATION Spec
CONSTANTS
  Exists <- MCExists
  Links <- MCLinks
  Paths <- MCPaths
  MaxFd = 4
  IntMax = 1
  MaxPos = 3
INVARIANTS
  AnswersHonest
  PathsInRoot
