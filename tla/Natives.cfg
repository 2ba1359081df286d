SPECIFICATION AllSpec
CONSTANTS
  Tasks = {m, a, b}
  Main = m
  None = None
  FileUsers = {a, b}
  MaxArgs = 2
  Leaves <- MCLeaves
  Shapes <- MCShapes
  Slices <- MCSlices
  Lookups <- MCLookups
  MaxTensors = 4
  MaxRuns = 3
  MaxSteps = 6
SYMMETRY Symmetry
CHECK_DEADLOCK FALSE
INVARIANTS
  TypeOK
  RegistryExact
  FilesClosedWhenReady
  ConsumedHandlesGone
  GradientIsDerivative
  TapeIsFresh
