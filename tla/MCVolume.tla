------------------------------ MODULE MCVolume ------------------------------
(* Instances of Volume, with the limits of the default configuration:      *)
(* music that tells its resource set, a navigator that gets one, a call on *)
(* a looped back phone, and an alert that needs none.                      *)
EXTENDS Volume

CONSTANTS music, navi, call, alert, speaker, headset,
          player, navigator, phone, event

MCClassOf == [s \in Stream |-> CASE s = music -> player [] s = navi -> navigator
                                 [] s = call -> phone [] OTHER -> NoClass]
MCKind == [s \in Stream |-> CASE s = music -> "named" [] s = navi -> "resdef"
                              [] s = call -> "loop" [] OTHER -> "free"]
MCSuppressor == {[trigger |-> {phone}, by |-> 2], [trigger |-> {navigator, phone}, by |-> 2]}
MCMaxAttenuation == [c \in Class |->
                       IF c = navigator THEN 1 ELSE IF c = player THEN 3 ELSE 4]
=============================================================================
