SPECIFICATION FairSpec
CONSTANTS
  FrameIds = {f1, f2, f3}
  ClosureIds = {c1}
  Regs = {r1}
  Param = r1
  Data = {}
  Null = Null
  Err = Err
  NoClosure = NoClosure
  NoReg = NoReg
  MaxUps = 1
  MaxTrys = 2
  MaxOps = 6
CHECK_DEADLOCK FALSE
INVARIANTS
  CapturesUntilReturn
PROPERTIES
  WatchdogEnds
