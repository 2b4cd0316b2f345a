SPECIFICATION Spec
CONSTANTS
  g1 = g1
  g2 = g2
  t1 = t1
  t2 = t2
  PRegs = {0, 1, 2, 3}
  Fixed = {3}
  CallClobber = {0, 1}
  RCX = 1
  RSI = 2
  Globals = {g1}
  Locals = {t1, t2}
  VSize <- MCVSize
  FrameSize = 6
INVARIANTS
  TypeOK
  TrackingSound
  FrameSlotsDisjoint
  PanicMeansFrameFull
  OperandsCurrent
  GuestStateInMemory
