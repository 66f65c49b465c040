---------------------------- MODULE MCMultiplex ----------------------------
(* Instances of Multiplex: two devices can be connected while the default  *)
(* stream is on a third.                                                   *)
EXTENDS Multiplex

CONSTANTS speaker, headset, a2dp, MaxOutputs

(* Bounds: what is seen of a combine sink that was suspended with explicit *)
(* routes, as it may collect outputs without end.                          *)
Bounded == routedAsleep => Len(outputs) <= MaxOutputs /\ Len(conns) <= SuspendConn
=============================================================================
