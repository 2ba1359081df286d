SPECIFICATION Spec
CONSTANTS
  Bodies <- MCBodies
  Packed <- MCPacked
  Plans <- MCPlans
  Fuel = 9
  IntHalf = 8
CHECK_DEADLOCK FALSE
INVARIANTS PackedMeansBody
