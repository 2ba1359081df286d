SPECIFICATION FairSpec
CONSTANTS
  Tasks = {m, a, b}
  Main = m
  None = None
  FileUsers = {}
  MaxArgs = 1
CHECK_DEADLOCK FALSE
PROPERTIES
  WaitEnds
  ReturnedIsForgotten
