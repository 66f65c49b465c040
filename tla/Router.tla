------------------------------- MODULE Router -------------------------------
(***************************************************************************)
(* The routing engine: router.c (routing groups, the prioritised node list *)
(* and the connection list), constrain.c (which endpoints exclude one      *)
(* another), the part of switch.c that makes an endpoint active and moves  *)
(* a stream to it, and the events of discover.c and tracker.c that end in  *)
(* a routing pass.                                                         *)
(*                                                                         *)
(* Everything runs in PulseAudio's main loop, so a handler is never        *)
(* interrupted by another one.  The loops of a handler are modelled one    *)
(* iteration per step: "phase" says which loop is running and no other     *)
(* handler starts before it is "idle" again.                               *)
(***************************************************************************)
EXTENDS Integers, Sequences, SequencesExt, FiniteSets

CONSTANTS
  Stream,       \* playback streams (input nodes implemented by a sink-input)
  Gateway,      \* input devices that are looped back, e.g. a bluetooth carkit
  Recorder,     \* recording streams (output nodes implemented by a source-output)
  Chooser,      \* streams whose application asks for a sink or a source
  Device,       \* device nodes that streams are routed to
  Source,       \* those of them that are input devices, e.g. a microphone
  Unit,         \* what has to be switched for a device: a sink or a card
  Mode,         \* port names (of a sink) and profile names (of a card)
  RtGroup,      \* routing groups, of output devices and of input devices
  PortUnit,     \* sinks of ALSA cards: one node per port
  ProfileUnit,  \* bluetooth cards: one node per profile
  UnitOf,       \* [Device -> Unit]
  ModeOf,       \* [Device -> Mode]: the port or profile the node needs
  Accept,       \* [RtGroup -> SUBSET Device]: the groups' accept functions
  Rank,         \* [RtGroup -> [Device -> Int]]: the groups' compare functions
  GroupOf,      \* [Start -> RtGroup \cup {None}]: zone and class map
  Prio,         \* [Start -> Int]: the class priorities
  NullUnit,     \* the null sink, a unit that is neither a port nor a profile unit
  OffMode,      \* profile of a bluetooth card with no sink
  None,         \* no node, no group
  Connects,     \* bound: the pairs of a stream and a device that are ever connected
  MaxConn,      \* bound: connections that exist at one time
  StaticSinks,  \* may sinks without a card appear while streams are playing?
  MayFail,      \* what PulseAudio can refuse: a "switch" of a port or profile, the
                \* "move" of a stream, the "teardown" of an explicit route
  Meddling      \* does somebody else change the active port of a sink?

Start == Stream \cup Gateway \cup Recorder     \* what a default route is looked for
PlainUnit == Unit \ (PortUnit \cup ProfileUnit)
DevicesOn(u) == {d \in Device : UnitOf[d] = u}
ModeFor(u, m) == m = OffMode \/ \E d \in DevicesOn(u) : ModeOf[d] = m

(* The configuration is one that use_default_configuration or the Lua      *)
(* configuration can set up.  Sources without a card are left out: their   *)
(* nodes keep the index 0 of the zeroed data, whichever source that is.    *)
ASSUME RouterConfig ==
  /\ PortUnit \subseteq Unit /\ ProfileUnit \subseteq Unit
  /\ PortUnit \cap ProfileUnit = {}
  /\ NullUnit \in PlainUnit
  /\ Stream \cap Gateway = {} /\ Recorder \cap (Stream \cup Gateway) = {}
  /\ Chooser \subseteq Stream \cup Recorder /\ Source \subseteq Device
  /\ Start \cap Device = {}
  /\ \A d \in Source : UnitOf[d] \notin PlainUnit
  /\ UnitOf \in [Device -> Unit] /\ ModeOf \in [Device -> Mode]
  /\ Accept \in [RtGroup -> SUBSET Device]
  /\ Rank \in [RtGroup -> [Device -> Int]]
  /\ GroupOf \in [Start -> RtGroup \cup {None}]
  /\ \A s \in Start : GroupOf[s] # None =>
       Accept[GroupOf[s]] \subseteq IF s \in Recorder THEN Source ELSE Device \ Source
  /\ Prio \in [Start -> Int]
  /\ OffMode \in Mode
  /\ \A d \in Device : ModeOf[d] # OffMode
  /\ None \notin Start \cup Device \cup Unit \cup RtGroup
  /\ Connects \subseteq Stream \X (Device \ Source)
  /\ MaxConn \in Nat /\ {StaticSinks, Meddling} \subseteq BOOLEAN
  /\ MayFail \subseteq {"switch", "move", "teardown"}

VARIABLES
  registered,   \* device nodes that exist (they are in every group that accepts them)
  available,    \* device nodes whose "available" flag is set
  attached,     \* device nodes whose paidx is valid: they have a sink
  mode,         \* [Unit -> Mode]: active port or profile in PulseAudio
  entries,      \* [RtGroup -> Seq(Device)]: the groups' rtentry lists, best last
  nodlist,      \* Seq(Start): the prioritised node list, most important last; no Recorder
  looped,       \* gateways that have a loopback (node->loop # NULL)
  at,           \* [Start -> Unit \cup {None}]: where PulseAudio plays or records the stream
  connlist,     \* explicit routes, oldest first
  phase,        \* which loop of which handler runs
  i,            \* position in the list the loop walks, from the end to 0
  data,         \* node that is being prerouted, or None in make_routing
  done,         \* make_prerouting's local "done"
  job,          \* unit whose nodes are being created or destroyed
  stamped,      \* nodes with node->stamp = the pass' stamp
  marked,       \* devices whose rtentries have rte->stamp = the pass' stamp
  blocked,      \* devices whose rtentries have rte->blocked set
  target,       \* [Start -> Device \cup {None}]: default route found in the last pass
  unrouted,     \* history, read by no action: streams and devices that changed since
                \* the last pass began, where the code makes none for the change
  deferred      \* a routing callback is scheduled in the main loop

nodeVars == <<registered, entries, nodlist, looped>>
switchVars == <<available, attached, mode, at>>
passVars == <<i, data, done, stamped, marked, blocked, target, unrouted>>
vars == <<nodeVars, switchVars, passVars, connlist, phase, job, deferred>>

-----------------------------------------------------------------------------
(* Priority lists: MIR_DLIST_INSERT_BEFORE in front of the first element   *)
(* that ranks higher, MIR_DLIST_APPEND if there is none.  Elements that    *)
(* rank the same stay in the order of their arrival.                       *)

(* Mutant: MIR_DLIST_INSERT_AFTER in place of MIR_DLIST_INSERT_BEFORE.     *)
InsertByRankAfter(list, x, rank) ==
  LET Above == {k \in DOMAIN list : rank[x] < rank[list[k]]}
  IN  IF Above = {} THEN Append(list, x)
      ELSE InsertAt(list, 1 + CHOOSE k \in Above : \A l \in Above : k <= l, x)

InsertByRank(list, x, rank) ==
  LET Above == {k \in DOMAIN list : rank[x] < rank[list[k]]}
  IN  IF Above = {} THEN Append(list, x)
      ELSE InsertAt(list, CHOOSE k \in Above : \A l \in Above : k <= l, x)

(* MIR_DLIST_UNLINK of a node that is linked at most once.                 *)
Unlink(list, x) ==
  IF x \in ToSet(list) THEN RemoveAt(list, CHOOSE k \in DOMAIN list : list[k] = x)
  ELSE list

-----------------------------------------------------------------------------
(* What PulseAudio's side can look like after mir_switch_setup_link.       *)

Here == [mode |-> mode, attached |-> attached, available |-> available, at |-> at]

(* set_port: the sink's old node loses its paidx to the new one.           *)
PortSwitched(d) ==
  [Here EXCEPT !.mode[UnitOf[d]] = ModeOf[d],
               !.attached = (@ \ DevicesOn(UnitOf[d])) \cup {d}]

(* Another profile of a bluetooth card: the unlink hooks of the sinks that *)
(* go reset their nodes, the put hooks of those that come fill "new" in.   *)
(* PulseAudio rescues the streams of a sink that goes to the null sink.    *)
ProfileWith(u, m, new) ==
  [mode      |-> [mode EXCEPT ![u] = m],
   attached  |-> (attached \ DevicesOn(u)) \cup new,
   available |-> available \cup new,
   at        |-> [s \in Start |-> IF at[s] = u THEN NullUnit ELSE at[s]]]

NodesFor(u, m) == {d \in DevicesOn(u) \cap registered : ModeOf[d] = m}

(* set_profile: u->state.profile tells node_key the profile that comes.    *)
ProfileSwitched(u, m) == ProfileWith(u, m, NodesFor(u, m))

(* pa_card_set_profile by anybody else: while its sinks come the card's    *)
(* active profile is still the old one, and node_key makes the key of the  *)
(* old profile's node of it.  Only a sink or source for which there is no  *)
(* such node is kept in u->state and gets the right one once the profile   *)
(* is active.  All sinks of a bluetooth card have one name and one port,   *)
(* and so have its sources.                                                *)
SameDirection(d, e) == d \in Source <=> e \in Source
NodesFound(d, m) == {e \in NodesFor(UnitOf[d], m) : SameDirection(d, e)}
ProfileForced(u, m) ==
  LET Old(d) == NodesFound(d, mode[u])
  IN  ProfileWith(u, m, UNION {IF Old(d) = {} THEN {d} ELSE Old(d) : d \in NodesFor(u, m)})

(* setup_device_output: nothing to switch if the mode is right already.    *)
SwitchResults(d) ==
  LET u == UnitOf[d]
  IN  IF u \in PlainUnit \/ mode[u] = ModeOf[d] THEN {Here}
      ELSE {IF u \in PortUnit THEN PortSwitched(d) ELSE ProfileSwitched(u, ModeOf[d])}
             \cup (IF "switch" \in MayFail THEN {Here} ELSE {})

(* setup_device_output returned a sink: set_port did not fail, and the     *)
(* node has a paidx.                                                       *)
Usable(r, d) ==
  /\ UnitOf[d] \in PortUnit => r.mode[UnitOf[d]] = ModeOf[d]
  /\ d \in r.attached

(* The whole link: the switch, then the move of n's sink-input.            *)
LinkResults(n, d) ==
  UNION {IF Usable(r, d)
         THEN {[ok |-> TRUE, r |-> [r EXCEPT !.at[n] = UnitOf[d]]]}
                \cup (IF "move" \in MayFail /\ r.at[n] # UnitOf[d]
                      THEN {[ok |-> FALSE, r |-> r]} ELSE {})
         ELSE {[ok |-> FALSE, r |-> r]} : r \in SwitchResults(d)}

Becomes(r) ==
  /\ mode' = r.mode
  /\ attached' = r.attached
  /\ available' = r.available
  /\ at' = r.at

-----------------------------------------------------------------------------
(* Start-up: pa_tracker_synchronize is about to create the null sink's     *)
(* node; its last step is a routing pass.                                  *)
Init ==
  /\ registered = {} /\ available = {} /\ attached = {}
  /\ mode = [u \in Unit |-> OffMode]
  /\ entries = [g \in RtGroup |-> <<>>]
  /\ nodlist = <<>> /\ looped = {}
  /\ at = [s \in Start |-> None]
  /\ connlist = <<>>
  /\ phase = "plug" /\ job = NullUnit
  /\ i = 0 /\ data = None /\ done = FALSE
  /\ stamped = {} /\ marked = {} /\ blocked = {}
  /\ target = [s \in Start |-> None] /\ unrouted = {}
  /\ deferred = FALSE

-----------------------------------------------------------------------------
(* A routing pass.  pa_utils_new_stamp makes every older stamp out of      *)
(* date: "stamped" and "marked" are the nodes and rtentries that carry the *)
(* stamp of this pass.                                                     *)

(* Mutant: the walk starts one connection too late.                        *)
BeginPassLate(n) ==
  /\ phase' = "explicit"
  /\ i' = Len(connlist') - 1
  /\ data' = n
  /\ done' = FALSE
  /\ stamped' = {} /\ marked' = {} /\ unrouted' = {}
  /\ UNCHANGED blocked

BeginPass(n) ==
  /\ phase' = "explicit"
  /\ i' = Len(connlist')
  /\ data' = n
  /\ done' = FALSE
  /\ stamped' = {} /\ marked' = {}
  /\ unrouted' = {}
  /\ UNCHANGED blocked

(* make_explicit_routes, one connection.  Connections are walked from the  *)
(* newest to the oldest; blocked ones and those with a missing node are    *)
(* skipped.                                                                *)
ExplicitRoute ==
  /\ phase = "explicit" /\ i > 0
  /\ LET c == connlist[i]
     IN  IF c.blocked \/ c.from = None \/ c.to = None
         THEN UNCHANGED <<switchVars, stamped>>
         ELSE \E l \in LinkResults(c.from, c.to) :
                /\ Becomes(l.r)
                /\ stamped' = IF l.ok THEN stamped \cup {c.from} ELSE stamped
  /\ i' = i - 1
  /\ UNCHANGED <<nodeVars, data, done, marked, blocked, target, unrouted, connlist, phase,
                 job, deferred>>

(* pa_audiomgr_delete_default_routes; the loop over the node list starts.  *)
ExplicitDone ==
  /\ phase = "explicit" /\ i = 0
  /\ target' = [s \in Start |-> None]
  /\ i' = Len(nodlist)
  /\ phase' = IF data = None THEN "start" ELSE "data"
  /\ UNCHANGED <<nodeVars, switchVars, data, done, stamped, marked, blocked, unrouted, connlist,
                 job, deferred>>

(* find_default_route: may the walk over the group's entries stop at d?    *)
Candidate(d) ==
  /\ d \in available
  /\ d \in attached \/ UnitOf[d] \notin PlainUnit
Open(d) == Candidate(d) /\ ~(d \in marked /\ d \in blocked)

(* find_default_route: the last entry of n's group that is open.           *)
Found(n) ==
  LET g == GroupOf[n]
      K == {k \in DOMAIN entries[g] : Open(entries[g][k])}
  IN  IF g = None THEN None
      ELSE IF K = {} THEN None
      ELSE entries[g][CHOOSE k \in K : \A l \in K : l <= k]

(* Nodes that share a constraint with d: a "port" constraint per sink, a   *)
(* "profile" constraint per card.                                          *)
Peers(d) == IF UnitOf[d] \in PlainUnit THEN {} ELSE DevicesOn(UnitOf[d]) \cap registered

(* Mutant: only the entry that was picked is stamped.                      *)
ConstrainApplyAlone(d) ==
  /\ marked' = marked \cup {d}
  /\ blocked' = blocked \ {d}

(* mir_constrain_apply, skipped for an entry that carries the stamp.       *)
ConstrainApply(d) ==
  IF d \in marked THEN UNCHANGED <<marked, blocked>>
  ELSE /\ marked' = marked \cup Peers(d)
       /\ blocked' = (blocked \ Peers(d)) \cup {e \in Peers(d) : ModeOf[e] # ModeOf[d]}

(* find_default_route for n, then the link.  implement_default_route       *)
(* ignores what mir_switch_setup_link returns.                             *)
RouteStart(n) ==
  LET d == Found(n)
  IN  IF d = None
      THEN UNCHANGED <<switchVars, marked, blocked, target>>
      ELSE /\ target' = [target EXCEPT ![n] = d]
           /\ ConstrainApply(d)
           /\ \E l \in LinkResults(n, d) : Becomes(l.r)

(* The same for the stream being created: implement_preroute only switches *)
(* the device, there is no sink-input to move yet.                         *)
RouteData ==
  LET d == Found(data)
  IN  IF d = None
      THEN UNCHANGED <<switchVars, marked, blocked, target>>
      ELSE /\ target' = [target EXCEPT ![data] = d]
           /\ ConstrainApply(d)
           /\ \E r \in SwitchResults(d) : Becomes(r)

Skipped(n) == n \in Gateway /\ n \notin looped

(* make_prerouting, first half of an iteration: a route is looked for the  *)
(* new stream before every node that is not more important; the last one   *)
(* found counts.                                                           *)
DataTurn ==
  /\ phase = "data" /\ i > 0
  /\ LET n == nodlist[i]
     IN  IF Skipped(n)
         THEN i' = i - 1 /\ UNCHANGED <<switchVars, marked, blocked, target, done, phase>>
         ELSE /\ phase' = "start"
              /\ UNCHANGED i
              /\ IF Prio[data] >= Prio[n] THEN RouteData /\ done' = TRUE
                 ELSE UNCHANGED <<switchVars, marked, blocked, target, done>>
  /\ UNCHANGED <<nodeVars, data, stamped, unrouted, connlist, job, deferred>>

(* Mutant: the stamp of an explicit route is not looked at.                *)
StartTurnUnstamped ==
  /\ phase = "start" /\ i > 0
  /\ IF Skipped(nodlist[i]) THEN UNCHANGED <<switchVars, marked, blocked, target>>
     ELSE RouteStart(nodlist[i])
  /\ i' = i - 1
  /\ phase' = IF data = None THEN "start" ELSE "data"
  /\ UNCHANGED <<nodeVars, data, done, stamped, unrouted, connlist, job, deferred>>

(* make_routing's iteration and the second half of make_prerouting's.      *)
StartTurn ==
  /\ phase = "start" /\ i > 0
  /\ LET n == nodlist[i]
     IN  IF Skipped(n) \/ n \in stamped
         THEN UNCHANGED <<switchVars, marked, blocked, target>>
         ELSE RouteStart(n)
  /\ i' = i - 1
  /\ phase' = IF data = None THEN "start" ELSE "data"
  /\ UNCHANGED <<nodeVars, data, done, stamped, unrouted, connlist, job, deferred>>

PassDone ==
  /\ phase = "start" /\ i = 0 /\ data = None
  /\ phase' = "idle"
  /\ UNCHANGED <<nodeVars, switchVars, passVars, connlist, job, deferred>>

(* make_prerouting after the loop: no node was less important.             *)
DataLast ==
  /\ phase = "data" /\ i = 0 /\ ~done
  /\ RouteData
  /\ done' = TRUE
  /\ UNCHANGED <<nodeVars, i, data, stamped, unrouted, connlist, phase, job, deferred>>

(* make_output_prerouting, make_input_prerouting: the new stream starts on *)
(* the sink or source of its target, or where PulseAudio chooses.          *)
Placements(n) ==
  IF target[n] # None /\ target[n] \in attached THEN {UnitOf[target[n]]}
  ELSE {NullUnit} \cup {UnitOf[d] : d \in attached}

(* The node of a new stream enters the node list, unless it records (only  *)
(* input nodes are listed): no later pass routes a recording stream.       *)
NodlistWith(n) ==
  IF n \in Stream THEN InsertByRank(nodlist, n, Prio) ELSE nodlist

(* The sink-input or source-output is put: pa_discover_add_sink_input and  *)
(* pa_discover_add_source_output create the stream's node, or the loopback *)
(* becomes the gateway's (pa_discover_add_source).                         *)
DataDone ==
  /\ phase = "data" /\ i = 0 /\ done
  /\ \E u \in Placements(data) : at' = [at EXCEPT ![data] = u]
  /\ nodlist' = NodlistWith(data)
  /\ looped' = looped \cup ({data} \cap Gateway)
  /\ phase' = "idle" /\ data' = None /\ done' = FALSE
  /\ UNCHANGED <<registered, entries, available, attached, mode, i, stamped, marked,
                 blocked, target, unrouted, connlist, job, deferred>>

PassStep ==
  \/ ExplicitRoute \/ ExplicitDone
  \/ DataTurn \/ StartTurn
  \/ PassDone \/ DataLast \/ DataDone

-----------------------------------------------------------------------------
(* Cards and sinks come and go.                                            *)

(* handle_alsa_card, handle_bluetooth_card and the branch for static sinks *)
(* of pa_discover_add_sink: the unit's nodes are created one by one.       *)
PlugUnit(u) ==
  /\ phase = "idle" /\ DevicesOn(u) \cap registered = {}
  /\ u \in PlainUnit => StaticSinks /\ u # NullUnit
  /\ phase' = "plug" /\ job' = u
  /\ UNCHANGED <<nodeVars, switchVars, passVars, connlist, deferred>>

(* mir_node_create and mir_router_register_node: an rtentry in every group *)
(* that accepts the node.  "avail": the port's availability; the profiles  *)
(* of a headset are always available (get_bluetooth_port_availability).    *)
CreateNode(d, avail) ==
  /\ phase = "plug" /\ UnitOf[d] = job /\ d \notin registered
  /\ UnitOf[d] \in ProfileUnit => avail
  /\ registered' = registered \cup {d}
  /\ available' = IF avail THEN available \cup {d} ELSE available
  /\ entries' = [g \in RtGroup |-> IF d \in Accept[g]
                                   THEN InsertByRank(entries[g], d, Rank[g])
                                   ELSE entries[g]]
  /\ marked' = marked \ {d} /\ blocked' = blocked \ {d}
  /\ UNCHANGED <<nodlist, looped, attached, mode, at, i, data, done, stamped, target, unrouted,
                 connlist, phase, job, deferred>>

(* The sink is put in mode m.  An ALSA sink is routed at once, a bluetooth *)
(* card from a callback (card check or deferred routing), a static sink    *)
(* not at all, whatever plays then; start-up ends with a routing pass.     *)
PlugDone(m) ==
  /\ phase = "plug" /\ DevicesOn(job) \subseteq registered
  /\ \/ /\ job \in PlainUnit
        /\ m = OffMode
        /\ attached' = attached \cup DevicesOn(job)
        /\ available' = available \cup DevicesOn(job)
        /\ UNCHANGED <<mode, at, deferred>>
     \/ /\ job \in PortUnit
        /\ \E d \in DevicesOn(job) :
             /\ ModeOf[d] = m
             /\ attached' = attached \cup {d}
             /\ available' = available \cup {d}
        /\ mode' = [mode EXCEPT ![job] = m]
        /\ UNCHANGED <<at, deferred>>
     \/ /\ job \in ProfileUnit
        /\ ModeFor(job, m)
        /\ Becomes(ProfileSwitched(job, m))
        /\ deferred' = TRUE
  /\ job' = None
  /\ UNCHANGED <<nodeVars, connlist>>
  /\ IF job \in PortUnit \cup {NullUnit}
     THEN BeginPass(None) /\ UNCHANGED target
     ELSE /\ phase' = "idle"
          /\ unrouted' = IF job \in PlainUnit THEN unrouted \cup DevicesOn(job) ELSE unrouted
          /\ UNCHANGED <<i, data, done, stamped, marked, blocked, target>>

(* The unit's sinks are unlinked (pa_discover_remove_sink), PulseAudio     *)
(* rescues their streams, then card_unlink destroys the nodes.             *)
UnplugUnit(u) ==
  /\ phase = "idle" /\ u \in PortUnit \cup ProfileUnit
  /\ DevicesOn(u) \cap registered # {}
  /\ attached' = attached \ DevicesOn(u)
  /\ available' = IF u \in PortUnit THEN available \ (attached \cap DevicesOn(u))
                  ELSE available
  /\ at' = [s \in Start |-> IF at[s] = u THEN NullUnit ELSE at[s]]
  /\ mode' = [mode EXCEPT ![u] = OffMode]
  /\ deferred' = (deferred \/ (u \in ProfileUnit /\ attached \cap DevicesOn(u) # {}))
  /\ phase' = "unplug" /\ job' = u
  /\ UNCHANGED <<nodeVars, passVars, connlist>>

(* destroy_node: mir_router_unregister_node and mir_constrain_remove_node. *)
(* Node indices are never used again, so a connection to d stays dead.     *)
DestroyNode(d) ==
  /\ phase = "unplug" /\ UnitOf[d] = job /\ d \in registered
  /\ registered' = registered \ {d}
  /\ available' = available \ {d}
  /\ entries' = [g \in RtGroup |-> Unlink(entries[g], d)]
  /\ marked' = marked \ {d} /\ blocked' = blocked \ {d}
  /\ connlist' = [k \in DOMAIN connlist |->
                    IF connlist[k].to = d THEN [connlist[k] EXCEPT !.to = None]
                    ELSE connlist[k]]
  /\ UNCHANGED <<nodlist, looped, attached, mode, at, i, data, done, stamped, target, unrouted,
                 phase, job, deferred>>

(* card_unlink ends with a routing pass.                                   *)
UnplugDone ==
  /\ phase = "unplug" /\ DevicesOn(job) \cap registered = {}
  /\ job' = None
  /\ UNCHANGED <<nodeVars, switchVars, target, connlist, deferred>>
  /\ BeginPass(None)

(* pa_discover_port_available_changed for a port of an ALSA sink.          *)
PortAvailable(d) ==
  /\ phase = "idle" /\ d \in registered /\ UnitOf[d] \in PortUnit
  /\ available' = IF d \in available THEN available \ {d} ELSE available \cup {d}
  /\ UNCHANGED <<nodeVars, attached, mode, at, target, connlist, job, deferred>>
  /\ BeginPass(None)

(* Mutant: no routing pass is scheduled when the sinks come.               *)
ProfileChangedUnrouted(u, m) ==
  /\ phase = "idle" /\ u \in ProfileUnit /\ DevicesOn(u) \cap registered # {}
  /\ m # mode[u]
  /\ ModeFor(u, m)
  /\ Becomes(ProfileForced(u, m))
  /\ UNCHANGED <<nodeVars, passVars, connlist, phase, job, deferred>>

(* Somebody else sets the profile of a bluetooth card, or the module does  *)
(* for a port that came or went (set_bluetooth_profile): the sink hooks    *)
(* schedule a routing pass.                                                *)
ProfileChanged(u, m) ==
  /\ phase = "idle" /\ u \in ProfileUnit /\ DevicesOn(u) \cap registered # {}
  /\ m # mode[u]
  /\ ModeFor(u, m)
  /\ Becomes(ProfileForced(u, m))
  /\ deferred' = TRUE
  /\ UNCHANGED <<nodeVars, passVars, connlist, phase, job>>

(* Somebody else sets a sink's port: the sink_port_changed hook does       *)
(* nothing.                                                                *)
PortChanged(d) ==
  /\ Meddling
  /\ phase = "idle" /\ d \in registered /\ UnitOf[d] \in PortUnit
  /\ mode' = [mode EXCEPT ![UnitOf[d]] = ModeOf[d]]
  /\ UNCHANGED <<nodeVars, available, attached, at, passVars, connlist, phase, job,
                 deferred>>

(* Mutant: the deferred event is not disabled by its callback.             *)
DeferredRoutingAgain ==
  /\ phase = "idle" /\ deferred
  /\ UNCHANGED <<nodeVars, switchVars, target, connlist, job, deferred>>
  /\ BeginPass(None)

DeferredRouting ==
  /\ phase = "idle" /\ deferred
  /\ deferred' = FALSE
  /\ UNCHANGED <<nodeVars, switchVars, target, connlist, job>>
  /\ BeginPass(None)

-----------------------------------------------------------------------------
(* Streams and gateways come and go.                                       *)

(* sink_input_new: a stream is prerouted, then created (DataDone).         *)
NewStream(s) ==
  /\ phase = "idle" /\ s \notin ToSet(nodlist)
  /\ UNCHANGED <<nodeVars, switchVars, target, connlist, job, deferred>>
  /\ BeginPass(s)

(* A stream that comes with a sink, or a recording one with a source, is   *)
(* not prerouted; a later pass may route a stream away from it.            *)
NewChosen(s) ==
  /\ phase = "idle" /\ at[s] = None
  /\ \E d \in attached :
       /\ d \in Source <=> s \in Recorder
       /\ at' = [at EXCEPT ![s] = UnitOf[d]]
  /\ nodlist' = NodlistWith(s)
  /\ unrouted' = unrouted \cup {s}
  /\ UNCHANGED <<registered, entries, looped, available, attached, mode, i, data, done,
                 stamped, marked, blocked, target, connlist, phase, job, deferred>>

(* pa_discover_remove_sink_input: destroy_node, then routing.  The index   *)
(* of the node in the connections becomes invalid for good.                *)
RemoveStream(s) ==
  /\ phase = "idle" /\ s \in ToSet(nodlist)
  /\ nodlist' = Unlink(nodlist, s)
  /\ at' = [at EXCEPT ![s] = None]
  /\ target' = [target EXCEPT ![s] = None]
  /\ connlist' = [k \in DOMAIN connlist |->
                    IF connlist[k].from = s THEN [connlist[k] EXCEPT !.from = None]
                    ELSE connlist[k]]
  /\ UNCHANGED <<registered, entries, looped, available, attached, mode, job, deferred>>
  /\ BeginPass(None)

(* source_output_new: prerouted by the groups of input devices.            *)
NewRecording(s) ==
  /\ phase = "idle" /\ at[s] = None
  /\ UNCHANGED <<nodeVars, switchVars, target, connlist, job, deferred>>
  /\ BeginPass(s)

(* pa_discover_remove_source_output.                                       *)
RemoveRecording(s) ==
  /\ phase = "idle" /\ at[s] # None
  /\ at' = [at EXCEPT ![s] = None]
  /\ target' = [target EXCEPT ![s] = None]
  /\ UNCHANGED <<nodeVars, available, attached, mode, connlist, job, deferred>>
  /\ BeginPass(None)

(* The bluetooth card of a gateway is put: its node is on the node list,   *)
(* without a loopback.  The card check routes if the card has no sink.     *)
AddGateway(g) ==
  /\ phase = "idle" /\ g \notin ToSet(nodlist)
  /\ nodlist' = InsertByRank(nodlist, g, Prio)
  /\ deferred' \in {deferred, TRUE}
  /\ UNCHANGED <<registered, entries, looped, switchVars, passVars, connlist, phase, job>>

(* pa_discover_add_source: the loopback's sink-input is prerouted.         *)
GatewaySource(g) ==
  /\ phase = "idle" /\ g \in ToSet(nodlist) \ looped
  /\ UNCHANGED <<nodeVars, switchVars, target, connlist, job, deferred>>
  /\ BeginPass(g)

(* pa_discover_remove_source: the loopback is destroyed in a callback, and *)
(* the removal of its sink-input ends with routing.                        *)
GatewaySourceGone(g) ==
  /\ phase = "idle" /\ g \in looped
  /\ looped' = looped \ {g}
  /\ at' = [at EXCEPT ![g] = None]
  /\ target' = [target EXCEPT ![g] = None]
  /\ deferred' = TRUE
  /\ UNCHANGED <<registered, entries, nodlist, available, attached, mode, i, data, done,
                 stamped, marked, blocked, unrouted, connlist, phase, job>>

(* card_unlink of a card whose source is gone already.                     *)
RemoveGateway(g) ==
  /\ phase = "idle" /\ g \in ToSet(nodlist) \ looped
  /\ nodlist' = Unlink(nodlist, g)
  /\ UNCHANGED <<registered, entries, looped, switchVars, target, connlist, job, deferred>>
  /\ BeginPass(None)

-----------------------------------------------------------------------------
(* The audio manager's explicit routes.                                    *)

(* mir_router_add_explicit_route; the link is asserted to be one to an     *)
(* output device.                                                          *)
AddExplicitRoute(s, d) ==
  /\ phase = "idle" /\ Len(connlist) < MaxConn
  /\ <<s, d>> \in Connects /\ s \in ToSet(nodlist) /\ d \in registered
  /\ connlist' = Append(connlist, [from |-> s, to |-> d, blocked |-> FALSE])
  /\ UNCHANGED <<nodeVars, switchVars, target, job, deferred>>
  /\ BeginPass(None)

Live(c) == c.from # None /\ c.to # None
passState == <<phase, i, data, done, stamped, marked, blocked, unrouted>>

(* mir_router_remove_explicit_route: the stream is moved to the null sink; *)
(* there is no routing if a node is missing or the move fails.             *)
RemoveExplicitRoute(k) ==
  /\ phase = "idle" /\ k \in DOMAIN connlist
  /\ connlist' = RemoveAt(connlist, k)
  /\ UNCHANGED <<nodeVars, available, attached, mode, target, job, deferred>>
  /\ LET c == connlist[k]
     IN  \/ /\ Live(c)
            /\ at' = [at EXCEPT ![c.from] = NullUnit]
            /\ IF c.blocked THEN UNCHANGED passState ELSE BeginPass(None)
         \/ /\ ~Live(c)
            /\ UNCHANGED <<at, passState>>
         \/ /\ Live(c) /\ "teardown" \in MayFail /\ at[c.from] # NullUnit
            /\ unrouted' = unrouted \cup {c.from}
            /\ UNCHANGED <<at, phase, i, data, done, stamped, marked, blocked>>

-----------------------------------------------------------------------------
Next ==
  \/ PassStep
  \/ \E u \in Unit : PlugUnit(u) \/ UnplugUnit(u)
  \/ \E d \in Device, avail \in BOOLEAN : CreateNode(d, avail)
  \/ \E d \in Device : DestroyNode(d) \/ PortAvailable(d) \/ PortChanged(d)
  \/ \E m \in Mode : PlugDone(m)
  \/ UnplugDone
  \/ \E u \in Unit, m \in Mode : ProfileChanged(u, m)
  \/ DeferredRouting
  \/ \E s \in Stream : NewStream(s) \/ RemoveStream(s)
  \/ \E s \in Recorder : NewRecording(s) \/ RemoveRecording(s)
  \/ \E s \in Chooser : NewChosen(s)
  \/ \E g \in Gateway : AddGateway(g) \/ GatewaySource(g) \/ GatewaySourceGone(g)
                          \/ RemoveGateway(g)
  \/ \E s \in Stream, d \in Device : AddExplicitRoute(s, d)
  \/ \E k \in 1 .. MaxConn : RemoveExplicitRoute(k)

(* A handler that has started runs to its end, and the main loop runs a    *)
(* scheduled callback even if events keep coming: pa_mainloop dispatches   *)
(* deferred events in every iteration.                                     *)
HandlerStep == PassStep \/ UnplugDone \/ \E d \in Device : DestroyNode(d)
                 \/ (\E avail \in BOOLEAN : CreateNode(d, avail)) \/ \E m \in Mode : PlugDone(m)
Fairness == WF_vars(HandlerStep) /\ SF_vars(DeferredRouting)

Spec == Init /\ [][Next]_vars
FairSpec == Spec /\ Fairness

-----------------------------------------------------------------------------
TypeOK ==
  /\ registered \subseteq Device /\ available \subseteq Device /\ attached \subseteq Device
  /\ mode \in [Unit -> Mode]
  /\ entries \in [RtGroup -> Seq(Device)]
  /\ nodlist \in Seq(Start) /\ looped \subseteq Gateway
  /\ at \in [Start -> Unit \cup {None}]
  /\ connlist \in Seq([from : Stream \cup {None}, to : Device \cup {None},
                       blocked : BOOLEAN])
  /\ phase \in {"idle", "plug", "unplug", "explicit", "data", "start"}
  /\ i \in Nat /\ data \in Start \cup {None} /\ done \in BOOLEAN
  /\ job \in Unit \cup {None}
  /\ stamped \subseteq Start /\ marked \subseteq Device /\ blocked \subseteq Device
  /\ target \in [Start -> Device \cup {None}]
  /\ unrouted \subseteq Start \cup Device
  /\ deferred \in BOOLEAN

Conflict(d, e) ==
  UnitOf[d] = UnitOf[e] /\ ModeOf[d] # ModeOf[e] /\ UnitOf[d] \notin PlainUnit

(* Two default routes never need different ports of the same sink or       *)
(* different profiles of the same card, at no time during a pass: the      *)
(* constraints block every entry that conflicts with one already chosen    *)
(* (mir_constrain_apply), also across routing groups and when profile      *)
(* switches attach other nodes half-way through the pass.                  *)
NoConflictingRoutes ==
  \A s, t \in Start :
    target[s] # None /\ target[t] # None => ~Conflict(target[s], target[t])

Settled == phase = "idle" /\ ~deferred

(* The sink or source of d is linked to the node of another profile.       *)
Elsewhere(d) ==
  /\ UnitOf[d] \in ProfileUnit
  /\ \E e \in attached \ {d} : UnitOf[e] = UnitOf[d] /\ SameDirection(d, e)

(* When the main loop is idle and no routing is scheduled, a stream whose  *)
(* default route was found really plays there: its sink has the right      *)
(* port, its card the right profile, and the stream has been moved to it.  *)
(* Neither a later default route of the pass, nor a handler that ran       *)
(* since, has switched it away.  The one exception is what a change of a   *)
(* profile by others leaves: the right profile is active, but its sink is  *)
(* linked to the node of the old one, so the route has nothing to move to. *)
(* Holds unless PulseAudio refuses a switch or a move, or somebody else    *)
(* sets ports.                                                             *)
RoutesImplemented ==
  Settled =>
    \A s \in ToSet(nodlist) :
      LET d == target[s]
      IN  d # None => /\ d \in registered
                      /\ mode[UnitOf[d]] = ModeOf[d] \/ UnitOf[d] \in PlainUnit
                      /\ IF d \in attached THEN at[s] = UnitOf[d] ELSE Elsewhere(d)

(* What stands in the way of stream s using d: a default route of another  *)
(* stream that is at least as important.                                   *)
Outranked(s, d) ==
  \E t \in Start \ {s} : target[t] # None /\ Prio[t] >= Prio[s] /\ Conflict(target[t], d)

Explicit(s) == \E k \in DOMAIN connlist : connlist[k].from = s /\ connlist[k].to # None

(* No endpoint that a routing group prefers is passed over without reason. *)
(* When the system is settled, a candidate that the compare function of a  *)
(* stream's routing group puts above the stream's target is excluded by    *)
(* the default route of another node at least as important, and if the     *)
(* stream has no target, or one that is gone, every candidate is.  It      *)
(* spans router.c's lists, walks and stamps, prerouting, and the events    *)
(* that must end in a routing pass.  Excepted until the next pass are only a static sink that         *)
(* appeared, a stream that came with a sink of its own, and one whose      *)
(* connection could not be torn down: the code makes no pass for these.    *)
BestRoute ==
  Settled =>
    \A s \in ToSet(nodlist) \ unrouted :
      GroupOf[s] # None /\ ~Skipped(s) /\ ~Explicit(s) =>
        LET g == GroupOf[s]
        IN  \A d \in (Accept[g] \cap registered) \ unrouted :
              Candidate(d) =>
                \/ Outranked(s, d)
                \/ target[s] \in registered /\ Rank[g][d] <= Rank[g][target[s]]

(* An explicit route is only displaced for a reason.  When the system is   *)
(* settled, a stream plays where its oldest live connection says (the walk *)
(* from the newest to the oldest lets the oldest win), unless a default    *)
(* route or another connection wants another port of the same sink or      *)
(* another profile of the same card, or the device has no sink.  A stream  *)
(* with a working connection gets no default route.                        *)
ExplicitRouteHonoured ==
  Settled =>
    \A k \in DOMAIN connlist :
      LET c == connlist[k]
      IN  /\ Live(c) /\ c.to \in attached
          /\ \A l \in DOMAIN connlist \ {k} :
               Live(connlist[l]) => /\ ~Conflict(connlist[l].to, c.to)
                                    /\ connlist[l].from = c.from => k < l
          /\ \A t \in Start : target[t] # None => ~Conflict(target[t], c.to)
          => at[c.from] = UnitOf[c.to] /\ target[c.from] = None

(* A scheduled routing pass takes place and comes to an end, whatever      *)
(* events arrive meanwhile.                                                *)
EventuallySettled == deferred ~> Settled
=============================================================================
