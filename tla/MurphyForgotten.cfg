SPECIFICATION Spec
CONSTANTS
  s1 = s1
  s2 = s2
  d1 = d1
  NoNode = NoNode
  Stream <- BothStreams
  Device <- OneDevice
  Wants <- WantedByAll
  MayRefuse = FALSE
  MaxBreaks = 1
  MaxRequest = 6
INVARIANTS
  EntriesAlive
CHECK_DEADLOCK FALSE
