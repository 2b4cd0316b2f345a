SPECIFICATION Spec
CONSTANTS
  WordBits = 4
  Regs = {0, 1, 2}
  Words = {0, 1, 6, 8, 15}
  Imms = {0, 3, 4, 12, 15}
  Ip = 4
  MemWords = {0, 6, 9}
  MaxTemps = 4
INVARIANTS
  X0LoadHarmless
