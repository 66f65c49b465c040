SPECIFICATION Spec
CONSTANTS
  music = music call = call talk = talk carkit = carkit
  speaker = speaker headset = headset a2dp = a2dp sco = sco mic = mic silent = silent tunnel = tunnel
  alsa = alsa bt = bt null = null net = net
  pSpeaker = pSpeaker pHeadset = pHeadset pA2dp = pA2dp pSco = pSco off = off
  Stream = {music, call}
  Gateway = {}
  Recorder = {}
  Chooser = {call}
  Source = {}
  Device = {speaker, headset, a2dp, sco, silent, tunnel}
  Unit = {alsa, bt, null, net}
  Mode = {pSpeaker, pHeadset, pA2dp, pSco, off}
  RtGroup <- MCRtGroup
  PortUnit = {alsa}
  ProfileUnit = {bt}
  UnitOf <- MCUnitOf
  ModeOf <- MCModeOf
  Accept <- MCAccept
  Rank <- MCRank
  GroupOf <- MCGroupOf
  Prio <- MCPrio
  NullUnit = null
  OffMode = off
  None = None
  Connects <- MCCallConnects
  MaxConn = 1
  StaticSinks = TRUE
  MayFail = {"switch", "move", "teardown"}
  Meddling = TRUE
INVARIANTS
  TypeOK
  NoConflictingRoutes
  
