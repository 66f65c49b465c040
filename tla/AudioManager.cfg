SPECIFICATION FairSpec
CONSTANTS
  phone = phone
  gw = gw
  None = None
  Key = {phone, gw}
  DirOf <- MCDirOf
  Gateway = {gw}
  AcceptsTwice = TRUE
  AmIds = 2
  MaxNodes = 3
  MaxEvents = 6
INVARIANTS
  TypeOK
  ConnsFaithful
  DownForgets
  AvailableKnown
  ConnectedIsRouted
PROPERTIES
  NodesAnnounced
CHECK_DEADLOCK FALSE
