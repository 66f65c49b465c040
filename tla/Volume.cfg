SPECIFICATION Spec
CONSTANTS
  music = music navi = navi call = call alert = alert
  speaker = speaker headset = headset
  player = player navigator = navigator phone = phone event = event
  NoClass = NoClass Null = Null None = None
  Stream = {music, navi, call}
  Device = {speaker, headset}
  Class = {player, navigator, phone, event}
  ClassOf <- MCClassOf
  Kind <- MCKind
  Relaxed = {music}
  Ramps = {music}
  Suppressor <- MCSuppressor
  MaxAttenuation <- MCMaxAttenuation
  Public = {speaker}
  Correction = {0, 1}
  Fading = TRUE
  Norm = 4
INVARIANTS
  TypeOK
  UngrantedSilent
  AllowedHeard
PROPERTIES
  LimitsApplied
