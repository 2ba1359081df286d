SPECIFICATION Spec
CONSTANTS
  FrameIds = {f1, f2}
  ClosureIds = {c1, c2}
  Regs = {r1}
  Param = r1
  Data = {d1}
  Null = Null
  Err = Err
  NoClosure = NoClosure
  NoReg = NoReg
  MaxUps = 1
  MaxTrys = 1
  MaxOps = 0
SYMMETRY Symmetry
CHECK_DEADLOCK FALSE
INVARIANTS
  CapturesPersist
