SPECIFICATION Spec
CONSTANTS
  speaker = speaker headset = headset a2dp = a2dp
  None = None
  Device = {speaker, headset, a2dp}
  MaxConn = 3
  SuspendConn = 1
  MoveMayFail = TRUE
  MaxOutputs = 3
CONSTRAINT Bounded
INVARIANTS
  TypeOK
  OneStreamPerSink
  Heard
  NoOrphans
PROPERTIES
  Uninterrupted
