--------------------------- MODULE MCAudioManager ---------------------------
(* Instances of AudioManager: a phone, whose port comes and goes, and a    *)
(* gateway, whose module may be unloaded and loaded again.                 *)
EXTENDS AudioManager, TLC

CONSTANTS phone, gw

MCDirOf == (phone :> "input") @@ (gw :> "output")
=============================================================================
