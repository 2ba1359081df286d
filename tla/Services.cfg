SPECIFICATION Spec
CONSTANTS
  Listeners = {l1, l2}
  Clients = {c1}
  Nodes = {tcp, ws}
  WsNodes = {ws}
  MaxPayload = 1
  Tasks = {a, b}
  Kinds = {"conn", "listener", "ws", "file"}
  Objects = {1, 2, 3}
  None = None
  Cells = {0, 1}
  MaxLength = 2
  MaxValues = 3
  MaxBlocks = 3
CHECK_DEADLOCK FALSE
INVARIANTS
  TypeOK
  NodeOfItsListener
  KeepsAccepting
  ConnsCounted
  NothingLost
  OwnObject
  TablesExact
  StorageMeans
PROPERTIES
  StopEndsLoops
  RelayFinishes
