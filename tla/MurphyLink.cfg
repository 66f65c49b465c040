SPECIFICATION FairSpec
CONSTANTS
  s1 = s1
  s2 = s2
  d1 = d1
  NoNode = NoNode
  Stream <- BothStreams
  Device <- OneDevice
  Wants <- WantedByStream
  MayRefuse = TRUE
  MaxBreaks = 1
  MaxRequest = 4
INVARIANTS
  TypeOK
  OneSetEach
  NoSetForgotten
  DestroysUnneeded
PROPERTIES
  PromiseKept
  StreamsServed
  OrphansDestroyed
CHECK_DEADLOCK FALSE
