SPECIFICATION Spec
CONSTANTS
  FrameIds = {f1, f2, f3, f4}
  ClosureIds = {}
  Regs = {r1}
  Param = r1
  Data = {}
  Null = Null
  Err = Err
  NoClosure = NoClosure
  NoReg = NoReg
  MaxUps = 1
  MaxTrys = 3
  MaxOps = 0
SYMMETRY Symmetry
CHECK_DEADLOCK FALSE
INVARIANTS
  TypeOK
  CallChain
  NoFrameReuse
  CatchOnce
PROPERTIES
  SuspendedUntouched
  NewestHandlerCatches
  ImplementsCallStack
