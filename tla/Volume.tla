------------------------------- MODULE Volume -------------------------------
(***************************************************************************)
(* fader.c, volume.c and stream-state.c: how loud a stream plays on its    *)
(* device, given who else is active there, and how Murphy's verdicts cork, *)
(* mute and kill streams; with the places in discover.c, murphyif.c and    *)
(* router.c that make a pass over the limits.                              *)
(*                                                                         *)
(* A volume is a number from 0 to Norm, an attenuation what is taken from  *)
(* it.  A ramp is its target: how long it takes is left out.  Where a      *)
(* stream plays is up to Router, so here it is any device.                 *)
(***************************************************************************)
EXTENDS Integers, FiniteSets, FiniteSetsExt, TLC

CONSTANTS
  Stream,         \* sink-inputs
  Device,         \* sinks that have a node
  ClassOf,        \* class of each stream; NoClass if it has none
  Class,          \* the classes
  Kind,           \* [Stream -> {"free", "resdef", "named", "loop"}], see below
  Relaxed,        \* streams whose policy may be relaxed
  Ramps,          \* streams that are faded in: those of the class player
  Suppressor,     \* volume limits: records [trigger |-> classes, by |-> attenuation]
  MaxAttenuation, \* [class -> the most its limits may take away]
  Public,         \* devices that are corrected by the speed
  Correction,     \* corrections there may be
  Fading,         \* are both transition times positive?
  Norm,           \* PA_VOLUME_NORM
  NoClass, Null, None

(* enforce_policy: the grant that is noted and the request that is made;   *)
(* a relaxed policy lets a stream run that is not granted the resource.    *)
Verdict == {[grant |-> TRUE,  req |-> "RUN"], [grant |-> FALSE, req |-> "RUN"],
            [grant |-> FALSE, req |-> "BLOCK"], [grant |-> FALSE, req |-> "KILL"]}
Blocked == [grant |-> FALSE, req |-> "BLOCK"]

(* "free" streams have no resource set; for "resdef" and "loop" the module *)
(* creates one; "named" ones tell the id of theirs.  A "loop" is the       *)
(* stream of a looped back device.  A stream without a class has no node   *)
(* and is left alone, so it is "free".                                     *)
ASSUME VolumeConfig ==
  /\ ClassOf \in [Stream -> Class \cup {NoClass}] /\ NoClass \notin Class
  /\ MaxAttenuation \in [Class -> Nat]
  /\ IsFiniteSet(Suppressor)
  /\ \A e \in Suppressor : e.trigger \subseteq Class /\ e.by \in Nat
  /\ Kind \in [Stream -> {"free", "resdef", "named", "loop"}]
  /\ \A s \in Stream : ClassOf[s] = NoClass => Kind[s] = "free"
  /\ Ramps \subseteq {s \in Stream : ClassOf[s] # NoClass} /\ Public \subseteq Device
  /\ Norm \in Nat \ {0} /\ Correction \subseteq 0..Norm /\ 0 \in Correction
  /\ Fading \in BOOLEAN
  /\ Null \notin Device /\ None \notin Device \cup {Null} \cup Verdict

VARIABLES
  where,      \* the sink of each stream: a device, the null sink, or None
  st,         \* [muted, internal, corked, target, factor] of each stream
  verdict,    \* what Murphy's tables say of each stream, None if not known
  correction  \* the limit of the generic entry

vars == <<where, st, verdict, correction>>

Living == {s \in Stream : where[s] # None}
Known == {s \in Stream : verdict[s] # None}

VerdictsOn(s) == {v \in Verdict : /\ ~v.grant /\ v.req = "RUN" => s \in Relaxed
                                  /\ Kind[s] = "loop" => v.req # "KILL"}
Verdicts(ss) == {v \in [ss -> Verdict] : \A s \in ss : v[s] \in VerdictsOn(s)}

Granted(v, s) == \/ Kind[s] \in {"free", "loop"}
                 \/ v[s] # None /\ v[s].grant

-----------------------------------------------------------------------------
(* A pass over the limits.                                                 *)

(* vollim_create: a limit acts on the classes that do not trigger it.      *)
LimitsOf(c) == {e \in Suppressor : c \notin e.trigger}

(* mir_volume_suppress.                                                    *)
Suppress(c, mask, e) ==
  IF c \notin e.trigger /\ e.trigger \cap mask # {} THEN e.by ELSE 0

(* mir_volume_correction: the attenuation is of the device.                *)
Corrected(d, correct) == IF d \in Public THEN correct ELSE 0

(* apply_table.                                                            *)
ApplyTable(c, mask, table) == Max({0} \cup {Suppress(c, mask, e) : e \in table})

(* The maximum holds unless the class is to be silent.                     *)
ClassLimit ==
  [c \in Class |-> [mask \in SUBSET Class |->
     LET most == ApplyTable(c, mask, LimitsOf(c))
     IN  IF most >= Norm THEN Norm ELSE Min({most, MaxAttenuation[c]})]]

(* mir_volume_apply_limits.                                                *)
Limit(d, c, mask, correct) ==
  LET left == Norm - ClassLimit[c][mask] - Corrected(d, correct)
  IN  IF left > 0 THEN left ELSE 0

(* The mask: classes of the streams that may play on the device now.       *)
Mask(w, x, v, d) ==
  {ClassOf[s] : s \in {t \in Stream : /\ w[t] = d /\ ClassOf[t] # NoClass
                                     /\ Granted(v, t)
                                     /\ ~x[t].muted /\ ~x[t].internal}}

(* set_stream_volume_limit: with transition times it is the ramp that is   *)
(* set, without the volume factor, whatever items it is the product of.    *)
SetLimit(x, vol) == IF Fading THEN [x EXCEPT !.target = vol] ELSE [x EXCEPT !.factor = vol]

(* pa_fader_apply_volume_limits.                                           *)
Pass(w, x, v, correct) ==
  LET mask == [d \in Device |-> Mask(w, x, v, d)]
  IN  [s \in Stream |->
         IF w[s] \notin Device \/ ClassOf[s] = NoClass THEN x[s]
         ELSE SetLimit(x[s], Limit(w[s], ClassOf[s], mask[w[s]], correct))]

-----------------------------------------------------------------------------
(* Requests.                                                               *)

(* Mutant: the flag is cleared by any request.                             *)
BlockUncorked(s, x) ==
  IF Kind[s] = "loop" THEN [x EXCEPT !.muted = TRUE]
  ELSE IF x.corked THEN [x EXCEPT !.corked = FALSE]
  ELSE IF x.internal THEN x
  ELSE [x EXCEPT !.internal = TRUE, !.factor = 0]

(* pa_stream_state_change and sink_input_block, PA_STREAM_BLOCK: the       *)
(* internal mute is an item of the volume factor.                          *)
Block(s, x) ==
  IF Kind[s] = "loop" THEN [x EXCEPT !.muted = TRUE]
  ELSE IF x.corked \/ x.internal THEN x
  ELSE [x EXCEPT !.internal = TRUE, !.factor = 0]

(* The item is removed.  pa_fader_set_volume and pa_fader_ramp_volume: the *)
(* volume is set to 0 and ramped to where it was, but without transition   *)
(* times nothing ramps.                                                    *)
FadedIn(x) == [x EXCEPT !.internal = FALSE, !.factor = Norm,
                        !.target = IF Fading THEN @ ELSE 0]

(* Mutant: the flag is cleared before it is looked at.                     *)
RunStaysCorked(s, x) ==
  CASE Kind[s] = "loop" -> [x EXCEPT !.muted = FALSE]
    [] Kind[s] # "loop" /\ x.internal -> FadedIn(x)
    [] OTHER -> x

(* PA_STREAM_RUN.  A corked stream is uncorked and told so, and unmuted.   *)
(* Otherwise the internal mute is taken back.                              *)
Run(s, x) ==
  CASE Kind[s] = "loop" -> [x EXCEPT !.muted = FALSE]
    [] Kind[s] # "loop" /\ x.corked -> [x EXCEPT !.corked = FALSE, !.muted = FALSE]
    [] Kind[s] # "loop" /\ ~x.corked /\ x.internal -> FadedIn(x)
    [] OTHER -> x

(* pa_stream_state_change; Notification sees to those that are killed.     *)
StateChange(s, x, req) == IF req = "RUN" THEN Run(s, x) ELSE Block(s, x)

Enforced(x, v) ==
  [s \in Stream |-> IF v[s] = None THEN x[s] ELSE StateChange(s, x[s], v[s].req)]

-----------------------------------------------------------------------------
Absent == [muted |-> FALSE, internal |-> FALSE, corked |-> FALSE,
           target |-> Norm, factor |-> Norm]

Init ==
  /\ where = [s \in Stream |-> None]
  /\ st = [s \in Stream |-> Absent]
  /\ verdict = [s \in Stream |-> None]
  /\ correction = 0

Without(f, gone, value) == [s \in Stream |-> IF s \in gone THEN value ELSE f[s]]

(* pa_discover_preroute_sink_input: PA_SINK_INPUT_START_CORKED and         *)
(* START_RAMP_MUTED.                                                       *)
Fresh(s) == [Absent EXCEPT !.corked = Kind[s] = "resdef",
                           !.target = IF s \in Ramps THEN 0 ELSE Norm]

(* pa_discover_add_sink_input; a stream that names its resource set is in  *)
(* the database at once, with the verdict of its table if that was there.  *)
NewStream(s, d, seen) ==
  /\ where[s] = None /\ seen.req # "KILL"
  /\ seen # Blocked => Kind[s] = "named"
  /\ where' = [where EXCEPT ![s] = d]
  /\ verdict' = IF Kind[s] = "named" THEN [verdict EXCEPT ![s] = seen] ELSE verdict
  /\ LET new == [st EXCEPT ![s] = Fresh(s)]
         asked == IF Kind[s] = "named" THEN Enforced(new, verdict') ELSE new
     IN  st' = IF ClassOf[s] = NoClass \/ (d = Null /\ Kind[s] # "loop") THEN asked
               ELSE Pass(where', asked, verdict', correction)
  /\ UNCHANGED correction

(* Mutant: the stream keeps its class until it is gone.                    *)
RemoveStreamCounted(s) ==
  /\ where[s] # None
  /\ verdict' = [verdict EXCEPT ![s] = None]
  /\ where' = [where EXCEPT ![s] = None]
  /\ st' = Without(Pass(where, st, verdict, correction), {s}, Absent)
  /\ UNCHANGED correction

(* Mutant: the entry of the stream stays in the database.                  *)
RemoveStreamKnown(s) ==
  /\ where[s] # None
  /\ where' = [where EXCEPT ![s] = None]
  /\ st' = Without(Pass(where', st, verdict, correction), {s}, Absent)
  /\ UNCHANGED <<verdict, correction>>

(* pa_discover_remove_sink_input: the sink-input is still on its sink when *)
(* the routing and the limits are made, but it has lost its class.         *)
RemoveStream(s) ==
  /\ where[s] # None
  /\ verdict' = [verdict EXCEPT ![s] = None]
  /\ where' = [where EXCEPT ![s] = None]
  /\ st' = Without(Pass(where', st, verdict', correction), {s}, Absent)
  /\ UNCHANGED correction

(* resource_set_notification: the verdicts of the new table are enforced,  *)
(* streams may be killed, and then a pass is made.                         *)
Notification ==
  /\ Known # {}
  /\ \E v \in Verdicts(Known) :
       LET gone == {s \in Known : v[s].req = "KILL" /\ Kind[s] # "loop"}
       IN  /\ verdict' = [s \in Stream |-> IF s \in Known \ gone THEN v[s] ELSE None]
           /\ where' = Without(where, gone, None)
           /\ st' = Pass(where', Enforced(Without(st, gone, Absent), verdict'),
                         verdict', correction)
  /\ UNCHANGED correction

(* resource_set_create_response and pa_murphyif_add_node: from now on the  *)
(* stream is in the database, and all that are there are enforced.  The    *)
(* table with its verdict may have come before; no pass is made.           *)
Response(s) ==
  /\ s \in Living \ Known /\ Kind[s] \in {"resdef", "loop"}
  /\ \E seen \in VerdictsOn(s) :
       seen.req # "KILL" /\ verdict' = [verdict EXCEPT ![s] = seen]
  /\ st' = Enforced(st, verdict')
  /\ UNCHANGED <<where, correction>>

(* mir_router_make_routing, because devices come and go, or right after a  *)
(* stream has gone: it puts the streams where it likes.                    *)
MakeRouting ==
  /\ \E w \in [Living -> Device \cup {Null}] :
       where' = [s \in Stream |-> IF s \in Living THEN w[s] ELSE None]
  /\ st' = Pass(where', st, verdict, correction)
  /\ UNCHANGED <<verdict, correction>>

(* The database has a new value: mir_volume_make_limiting.                 *)
MakeLimiting ==
  /\ correction' \in Correction \ {correction}
  /\ st' = Pass(where, st, verdict, correction')
  /\ UNCHANGED <<where, verdict>>

(* A mixer mutes or unmutes a stream: no hook is told.                     *)
UserMute(s) ==
  /\ where[s] # None
  /\ st' = [st EXCEPT ![s].muted = ~@]
  /\ UNCHANGED <<where, verdict, correction>>

Next ==
  \/ \E s \in Stream, d \in Device \cup {Null} : \E seen \in VerdictsOn(s) : NewStream(s, d, seen)
  \/ \E s \in Stream : RemoveStream(s) \/ Response(s) \/ UserMute(s)
  \/ Notification \/ MakeRouting \/ MakeLimiting

Spec == Init /\ [][Next]_vars

-----------------------------------------------------------------------------
(* What is heard of a stream.                                              *)
Silent(s) == \/ st[s].muted \/ st[s].corked
             \/ st[s].target = 0 \/ st[s].factor = 0

StreamState == [muted : BOOLEAN, internal : BOOLEAN, corked : BOOLEAN,
                target : 0..Norm, factor : 0..Norm]

TypeOK ==
  /\ where \in [Stream -> Device \cup {Null, None}]
  /\ st \in [Stream -> StreamState]
  /\ verdict \in [Stream -> Verdict \cup {None}]
  /\ \A s \in Stream : where[s] = None => verdict[s] = None /\ st[s] = Absent
  /\ correction \in Correction

(* A stream that Murphy has to allow is silent until it does, and again as *)
(* soon as it is withdrawn, however corking, the internal mute and the     *)
(* user's mute were combined before.                                       *)
UngrantedSilent ==
  \A s \in Living :
    Kind[s] \in {"resdef", "named"} /\ ~Silent(s) =>
      s \in Known /\ verdict[s].req = "RUN"

(* A stream that may run and that the user has not muted is heard on its   *)
(* device: nothing that was done to it while it was blocked, corked or     *)
(* about to be faded in is left over.                                      *)
AllowedHeard ==
  \A s \in Living :
    /\ where[s] \in Device /\ ~st[s].muted
    /\ Kind[s] # "loop"
    /\ Kind[s] = "free" \/ (s \in Known /\ verdict[s].req = "RUN")
    => ~Silent(s)

(* A stream plays as loud as the limits say for those that are active on   *)
(* its device now.                                                         *)
Due ==
  [c \in Class |-> [active \in SUBSET Class |->
     LET by == {e.by : e \in {x \in Suppressor : c \notin x.trigger /\ x.trigger \cap active # {}}}
     IN  CASE by = {} -> 0
           [] by # {} /\ Max(by) >= Norm -> Norm
           [] OTHER -> Min({Max(by), MaxAttenuation[c]})]]
LimitsRight ==
  LET Active(r) == /\ ClassOf[r] # NoClass /\ ~st[r].muted /\ ~st[r].internal
                   /\ Kind[r] \in {"resdef", "named"} => r \in Known /\ verdict[r].grant
      active == [d \in Device |-> {ClassOf[r] : r \in {t \in Stream : where[t] = d /\ Active(t)}}]
  IN  \A s \in Stream :
        where[s] \in Device /\ ClassOf[s] # NoClass =>
          LET level == IF Fading THEN st[s].target ELSE st[s].factor
              due == Norm - Due[ClassOf[s]][active[where[s]]]
                          - IF where[s] \in Public THEN correction ELSE 0
          IN  level = IF due > 0 THEN due ELSE 0

(* After whatever the module does the volumes on all devices are right,    *)
(* except that it does not see a user's mute, makes no pass for a late     *)
(* answer, or when a stream starts that has no class or is on no device.   *)
LimitsApplied ==
  [][\/ LimitsRight'
     \/ \E s \in Stream : UserMute(s) \/ Response(s)
     \/ \E s \in Stream : /\ where[s] = None /\ where'[s] # None
                          /\ ClassOf[s] = NoClass \/ where'[s] = Null]_vars
=============================================================================
