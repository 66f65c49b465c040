---------------------------- MODULE MCMurphyLink ----------------------------
(***************************************************************************)
(* Instances of MurphyLink: a stream with a resource definition, one       *)
(* without, and a device that is looped back.                              *)
(***************************************************************************)
EXTENDS MurphyLink

CONSTANTS s1, s2, d1

BothStreams == {s1, s2}
OneDevice == {d1}
WantedByStream == {s1}
WantedByAll == {s1, s2, d1}
=============================================================================
