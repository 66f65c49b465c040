------------------------------ MODULE MCRouter ------------------------------
(* Instances of Router for TLC: a sound card with two ports on one sink, a *)
(* bluetooth headset with two profiles, a phone that is looped back, and a *)
(* tunnel, a sink without a card that comes while streams are playing;     *)
(* what the default configuration makes of them is taken from Groups.      *)
EXTENDS Router, TLC

CONSTANTS
  music, call,                              \* streams
  talk,                                     \* what the caller says, recorded
  carkit,                                   \* gateway
  speaker, headset, a2dp, sco,              \* devices
  silent, tunnel,                           \* devices without a card
  mic,                                      \* the microphone of the bluetooth headset
  alsa, bt, null, net,                      \* units
  pSpeaker, pHeadset, pA2dp, pSco, off      \* ports and profiles

LOCAL G == INSTANCE Groups

AllUnits == (speaker :> alsa) @@ (headset :> alsa) @@ (a2dp :> bt) @@ (sco :> bt)
              @@ (mic :> bt) @@ (silent :> null) @@ (tunnel :> net)
AllModes == (speaker :> pSpeaker) @@ (headset :> pHeadset) @@ (a2dp :> pA2dp)
              @@ (sco :> pSco) @@ (mic :> pSco) @@ (silent :> pSpeaker) @@ (tunnel :> pSpeaker)

AllNodes ==
     (speaker :> G!ClassifyByCard("internal", "pci", "none", "analog", "output", 2))
  @@ (headset :> G!ClassifyByCard("internal", "pci", "none", "headset", "output", 2))
  @@ (a2dp :> G!ClassifyByCard("headset", "bluetooth", "a2dp", "none", "output", 2))
  @@ (sco :> G!ClassifyByCard("headset", "bluetooth", "hsp", "none", "output", 1))
  @@ (mic :> G!ClassifyByCard("headset", "bluetooth", "hsp", "none", "input", 1))
  @@ (silent :> G!NullNode(2))
  @@ (tunnel :> G!StaticNode("speakers", 2))
AllClasses == (music :> G!StreamClass("rhytmbox", "none"))
                @@ (call :> G!StreamClass("none", "phone"))
                @@ (talk :> G!StreamClass("none", "phone"))
                @@ (carkit :> G!ClassOfSource("bluetooth_carkit"))
Needed(s) == <<IF s \in Recorder THEN "input" ELSE "output", AllClasses[s]>>

ASSUME NodesTyped == \A d \in DOMAIN AllNodes : AllNodes[d] \in G!Node

MCRtGroup == G!Group
MCHeadsetConnects == {music} \X {a2dp, sco}
MCCallConnects == {<<call, a2dp>>}
MCUnitOf == [d \in Device |-> AllUnits[d]]
MCModeOf == [d \in Device |-> AllModes[d]]
MCAccept == [g \in RtGroup |-> {d \in Device : G!GroupAccepts(g, AllNodes[d])}]
MCRank == [g \in RtGroup |-> [d \in Device |-> G!GroupRank(g, AllNodes[d])]]
MCGroupOf == [s \in Start |-> IF Needed(s) \in DOMAIN G!ClassMap
                              THEN G!ClassMap[Needed(s)] ELSE None]
MCPrio == [s \in Start |-> G!NodePriority(AllClasses[s])]
=============================================================================
