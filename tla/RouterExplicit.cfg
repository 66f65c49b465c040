SPECIFICATION FairSpec
CONSTANTS
  music = music call = call talk = talk carkit = carkit
  speaker = speaker headset = headset a2dp = a2dp sco = sco mic = mic silent = silent tunnel = tunnel
  alsa = alsa bt = bt null = null net = net
  pSpeaker = pSpeaker pHeadset = pHeadset pA2dp = pA2dp pSco = pSco off = off
  Stream = {music}
  Gateway = {carkit}
  Recorder = {talk}
  Chooser = {}
  Source = {mic}
  Device = {a2dp, sco, mic, silent, tunnel}
  Unit = {bt, null, net}
  Mode = {pSpeaker, pHeadset, pA2dp, pSco, off}
  RtGroup <- MCRtGroup
  PortUnit = {}
  ProfileUnit = {bt}
  UnitOf <- MCUnitOf
  ModeOf <- MCModeOf
  Accept <- MCAccept
  Rank <- MCRank
  GroupOf <- MCGroupOf
  Prio <- MCPrio
  NullUnit = null
  OffMode = off
  None = None
  Connects <- MCHeadsetConnects
  MaxConn = 2
  StaticSinks = TRUE
  MayFail = {}
  Meddling = FALSE
INVARIANTS
  ExplicitRouteHonoured
  
PROPERTIES
  EventuallySettled
