SPECIFICATION Spec
CONSTANTS
  speaker = speaker headset = headset a2dp = a2dp
  None = None
  Device = {speaker, headset}
  MaxConn = 2
  SuspendConn = 2
  MoveMayFail = FALSE
  MaxOutputs = 4
INVARIANTS
  SuspendVisitsOnce
