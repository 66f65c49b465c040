------------------------------ MODULE MCCards ------------------------------
(* Instances of Cards: a sound card whose speaker and jack share a sink    *)
(* and whose microphone has no port, with a profile of more channels, a    *)
(* bluetooth headset whose profiles share the output port, and a phone     *)
(* that makes calls.                                                       *)
EXTENDS Cards, TLC

CONSTANTS intern, headset, phone,                      \* cards
          stereo, duplex, surround, a2dp, hsp, hfgw,          \* profiles
          speaker, mic, wide, bsink, bsource, psink, psource,
          pSpeaker, pJack, pHead, pHeadMic, pPhone, pPhoneMic

MCDevsOf == [c \in Card |->
  CASE c = intern -> (Off :> {}) @@ (stereo :> {speaker}) @@ (duplex :> {speaker, mic})
                       @@ (surround :> {wide})
    [] c = headset -> (Off :> {}) @@ (a2dp :> {bsink}) @@ (hsp :> {bsink, bsource})
    [] c = phone -> (Off :> {}) @@ (hfgw :> {psink, psource})]
MCPortsOf == [c \in Card |->
  CASE c = intern -> (Off :> {}) @@ (stereo :> {pSpeaker, pJack})
                       @@ (duplex :> {pSpeaker, pJack}) @@ (surround :> {pSpeaker})
    [] c = headset -> (Off :> {}) @@ (a2dp :> {pHead}) @@ (hsp :> {pHead, pHeadMic})
    [] c = phone -> (Off :> {}) @@ (hfgw :> {pPhone, pPhoneMic})]
MCPriority == (a2dp :> 10) @@ (hsp :> 20) @@ (hfgw :> 20) @@ (Off :> 0)
=============================================================================
