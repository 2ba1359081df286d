SPECIFICATION AllSpec
CONSTANTS
  Names = {x, y}
  Params = {}
  RegLimit = 5
  Bytes = 6
  MaxArgs = 1
  MaxCaptures = 1
  MaxDepth = 3
  MaxExpr = 3
  MaxNext = 5
  MaxConstructs = 2
  MaxStatements = 2
SYMMETRY Symmetry
CHECK_DEADLOCK FALSE
INVARIANTS
  NoSharing
  FreeAreFree
  ReadsBack
  LinksRight
