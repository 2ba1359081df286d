SPECIFICATION FairSpec
CONSTANTS
  Procs = {p, q, r}
  Caps = {0, 1}
  MaxSends = 2
CHECK_DEADLOCK FALSE
INVARIANTS
  TypeOK
  AnswersTrue
  NoIdleWait
PROPERTIES
  ImplementsQueue
  ClosedIsFinal
  ClosedEnds
  TimedEnds
