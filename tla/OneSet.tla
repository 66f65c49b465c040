------------------------------- MODULE OneSet -------------------------------
(***************************************************************************)
(* What the Murphy interface promises the streams: each holds at most one  *)
(* resource set, nobody shares one, and a stream keeps its set until it    *)
(* ends or the connection to Murphy is lost - for all streams at once.     *)
(* How the sets are requested, answered, lost and given back is the        *)
(* business of MurphyLink, which implements this.                          *)
(***************************************************************************)
EXTENDS Naturals

CONSTANT Holder    \* the streams

VARIABLES
  state,  \* [Holder -> {"new", "live", "gone"}]
  holds   \* [Holder -> id of the set it holds, or 0]

oneSetVars == <<state, holds>>

OneSetInit ==
  /\ state = [n \in Holder |-> "new"]
  /\ holds = [n \in Holder |-> 0]

Come(n) ==
  /\ state[n] = "new"
  /\ state' = [state EXCEPT ![n] = "live"]
  /\ UNCHANGED holds

Obtain(n) ==
  /\ state[n] = "live" /\ holds[n] = 0
  /\ holds'[n] \in Nat \ ({0} \cup {holds[m] : m \in Holder})
  /\ holds' = [holds EXCEPT ![n] = holds'[n]]
  /\ UNCHANGED state

Leave(n) ==
  /\ state[n] = "live"
  /\ state' = [state EXCEPT ![n] = "gone"]
  /\ holds' = [holds EXCEPT ![n] = 0]

LoseAll ==
  /\ holds' = [n \in Holder |-> 0]
  /\ UNCHANGED state

OneSetNext == LoseAll \/ \E n \in Holder : Come(n) \/ Obtain(n) \/ Leave(n)

OneSetSpec == OneSetInit /\ [][OneSetNext]_oneSetVars
=============================================================================
