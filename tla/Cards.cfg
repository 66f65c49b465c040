SPECIFICATION Spec
CONSTANTS
  intern = intern headset = headset phone = phone
  stereo = stereo duplex = duplex surround = surround
  a2dp = a2dp hsp = hsp hfgw = hfgw
  speaker = speaker mic = mic wide = wide
  bsink = bsink bsource = bsource psink = psink psource = psource
  pSpeaker = pSpeaker pJack = pJack
  pHead = pHead pHeadMic = pHeadMic pPhone = pPhone pPhoneMic = pPhoneMic
  Off = off None = None
  Alsa = {intern}
  Bluetooth = {headset, phone}
  DevsOf <- MCDevsOf
  PortsOf <- MCPortsOf
  Sink = {speaker, wide, bsink, psink}
  Port = {pSpeaker, pJack, pHead, pHeadMic, pPhone, pPhoneMic}
  Changing = {pJack, pPhone}
  OutPort = {pSpeaker, pJack, pHead, pPhone}
  Headset = {a2dp, hsp}
  ByPort = {hfgw}
  Priority <- MCPriority
  Wide = {surround}
  Hasty = FALSE
INVARIANTS
  TypeOK
  LinksMutual
  NodesOfProfile
PROPERTIES
  ComesLinked
