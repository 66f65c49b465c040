------------------------------- MODULE Cards -------------------------------
(***************************************************************************)
(* discover.c: the nodes of sound cards.  A card has profiles, a profile   *)
(* has sinks and sources, and these have ports.  A node stands for a sink  *)
(* or source with one of its ports active and, on a bluetooth card, one of *)
(* the profiles.  It exists whether there is such a sink or not; if there  *)
(* is, the two are linked, by the node's index and by the hash "byptr".    *)
(*                                                                         *)
(* Changing a profile takes sinks and sources away and brings others, one  *)
(* by one, and the module is told of each by a hook of tracker.c; it looks *)
(* for the node by its key.  A routing pass in the middle may set ports    *)
(* and change the profile of another card.  switch.c does the latter.      *)
(*                                                                         *)
(* A pass may be made at any time, so those that are scheduled are not     *)
(* kept.  What is routed where is Router's subject; here a pass may choose *)
(* any candidate.                                                          *)
(***************************************************************************)
EXTENDS Naturals, Sequences, SequencesExt

CONSTANTS
  Alsa, Bluetooth, \* cards, by their bus
  DevsOf,          \* [card -> [profile -> names of its sinks and sources]]
  Sink,            \* the names that are sinks'
  Port,
  Wide,            \* profiles of ALSA cards with more than two channels
  Changing,        \* bound: the ports whose availability changes
  PortsOf,         \* [card -> [profile -> ports]]
  OutPort,         \* the ports that are outputs
  Off,             \* the profile without sinks and sources, of every card
  Headset,         \* profiles whose nodes are of type bluetooth a2dp or sco
  ByPort,          \* profiles that are there if the port is: hfgw, a2dp_source, a2dp_sink
  Priority,        \* of bluetooth profiles
  Hasty,           \* may others change a profile again before a pass is made?
  None

Card == Alsa \cup Bluetooth
ProfilesOf(c) == DOMAIN DevsOf[c]
DevsOn(c) == UNION {DevsOf[c][p] : p \in ProfilesOf(c)}
Dev == UNION {DevsOn(c) : c \in Card}
CardOf == [d \in Dev |-> CHOOSE c \in Card : d \in DevsOn(c)]
Profile == UNION {ProfilesOf(c) : c \in Card}
PortsFor == [d \in Dev |-> [p \in ProfilesOf(CardOf[d]) |->
               {q \in PortsOf[CardOf[d]][p] : q \in OutPort <=> d \in Sink}]]

(* PulseAudio gives a port to all profiles that have the device it is of.  *)
ASSUME CardsConfig ==
  /\ Alsa \cap Bluetooth = {}
  /\ \A c \in Card : /\ Off \in ProfilesOf(c) /\ DevsOf[c][Off] = {}
                     /\ DOMAIN PortsOf[c] = ProfilesOf(c)
                     /\ \A p \in ProfilesOf(c) : PortsOf[c][p] \subseteq Port
  /\ \A c, e \in Card : c # e => DevsOn(c) \cap DevsOn(e) = {}
  /\ \A d \in Dev : CardOf[d] \in Alsa =>
       \A p, q \in ProfilesOf(CardOf[d]) :
         d \in DevsOf[CardOf[d]][p] \cap DevsOf[CardOf[d]][q] => PortsFor[d][p] = PortsFor[d][q]
  /\ \A c \in Bluetooth : Wide \cap ProfilesOf(c) = {}
  /\ Headset \subseteq UNION {ProfilesOf(c) : c \in Bluetooth}
  /\ Hasty \in BOOLEAN

(* A profile with more than two channels shares no sink or source with one *)
(* of fewer.  If it did, changing to it would destroy the node of a sink   *)
(* or source that stays, and the hash "byptr" would keep what was freed.   *)
ASSUME WideApart ==
  \A c \in Alsa : \A p, q \in ProfilesOf(c) :
    DevsOf[c][p] \cap DevsOf[c][q] # {} => (p \in Wide <=> q \in Wide)

(* handle_alsa_card goes through profiles of one or two channels only.     *)
Considered(c, p) == IF p \in Wide THEN {} ELSE DevsOf[c][p]

(* Keys of nodes: the name of the sink or source, the port, the profile.   *)
AlsaKeys(c, p) ==
  UNION {IF PortsFor[d][p] = {} THEN {<<d, None, None>>}
         ELSE {<<d, q, None>> : q \in PortsFor[d][p]} : d \in Considered(c, p)}
BluetoothKeys(c) ==
  UNION {UNION {{<<d, q, p>> : q \in PortsFor[d][p]} : d \in DevsOf[c][p]} : p \in ProfilesOf(c)}
KeysOf == [c \in Card |-> IF c \in Alsa THEN UNION {AlsaKeys(c, p) : p \in ProfilesOf(c)}
                          ELSE BluetoothKeys(c)]
Key == UNION {KeysOf[c] : c \in Card}

(* A node is "fresh" if it was looked at after the last pass: its stamp is *)
(* the current one.                                                        *)
Node == [available : BOOLEAN, linked : BOOLEAN, fresh : BOOLEAN]

(* None is no value of the model.                                          *)
ASSUME NoneConfig ==
  /\ None \notin Card \cup Dev \cup Port \cup Profile
  /\ None \notin Key /\ None \notin Node

VARIABLES
  plugged,  \* cards
  active,   \* active profile of each card
  live,     \* sinks and sources
  port,     \* active port of each, or None
  avail,    \* of each port: "yes", "no" or "unknown"
  nodes,    \* by key: a node or None
  byptr,    \* the node of each sink and source
  late,     \* u->state.sink and .source: one that has come and has no node yet
  changes   \* what happens to cards, the innermost last: see Change

vars == <<plugged, active, live, port, avail, nodes, byptr, late, changes>>

(* What is done to a card: it is plugged or unplugged, others change its   *)
(* profile ("change"), or a routing pass does ("route").  "left" is to be  *)
(* taken away, "routing" tells that a pass follows, and "changed" that the *)
(* new profile is active and profile_changed has begun.                    *)
Change(c, p, kind, left, routing) ==
  [card |-> c, to |-> p, kind |-> kind, left |-> left, routing |-> routing, changed |-> FALSE]

CardChange == [card : Card, to : Profile, kind : {"plug", "unplug", "change", "route"},
               left : SUBSET Dev, routing : BOOLEAN, changed : BOOLEAN]

Idle == changes = <<>>
Current == Last(changes)
Rest == Front(changes)

(* u->state.profile, which set_profile of switch.c sets.                   *)
StateProfile ==
  LET routed == {k \in DOMAIN changes : changes[k].kind = "route"}
  IN  IF routed = {} THEN None ELSE changes[CHOOSE k \in routed : TRUE].to

-----------------------------------------------------------------------------
(* The nodes and what they stand for as a record, which a handler takes    *)
(* through several steps.                                                  *)
Nodes == [nodes |-> nodes, byptr |-> byptr, live |-> live, port |-> port, late |-> late]
Becomes(s) == /\ nodes' = s.nodes /\ byptr' = s.byptr
              /\ live' = s.live /\ port' = s.port /\ late' = s.late

(* Mutant: the profile is always the active one.                           *)
NodeKeyActive(d, p, held, q) ==
  IF CardOf[d] \in Alsa THEN <<d, q, None>> ELSE <<d, q, p>>

(* node_key.                                                               *)
NodeKey(d, p, held, q) ==
  IF CardOf[d] \in Alsa THEN <<d, q, None>> ELSE <<d, q, IF held = None THEN p ELSE held>>

Found(s, k) == k \in Key /\ s.nodes[k] # None
Direction(d) == IF d \in Sink THEN "sink" ELSE "source"

(* pa_discover_add_sink and pa_discover_add_source; an entry of a hash is  *)
(* never replaced.                                                         *)
AddDevice(s, d, p, held) ==
  LET k == NodeKey(d, p, held, s.port[d])
  IN  IF ~Found(s, k)
      THEN IF held # None THEN s ELSE [s EXCEPT !.late[Direction(d)] = d]
      ELSE [s EXCEPT !.nodes[k] = [@ EXCEPT !.linked = TRUE, !.available = TRUE],
                     !.byptr[d] = IF @ = None THEN k ELSE @]

(* Does it make a pass?  Not for sources and bluetooth headsets.           *)
Routes(s, d, p, held) ==
  LET k == NodeKey(d, p, held, s.port[d])
  IN  d \in Sink /\ Found(s, k) /\ k[3] \notin Headset

(* pa_discover_remove_sink and pa_discover_remove_source.  An index that   *)
(* was kept for later finds nothing any more.                              *)
RemoveDevice(s, d) ==
  LET k == s.byptr[d]
      gone == [s EXCEPT !.live = @ \ {d}, !.port[d] = None, !.byptr[d] = None,
                        !.late[Direction(d)] = IF @ = d THEN None ELSE @]
  IN  IF k = None THEN gone
      ELSE [gone EXCEPT !.nodes[k] = [available |-> @.available /\ k[3] \in Headset,
                                      linked |-> FALSE, fresh |-> @.fresh]]

(* handle_card_ports, and get_bluetooth_port_availability.  The port name  *)
(* that a source without ports takes over from the sink before it is none  *)
(* of its own: set_port is refused, which is one of the outcomes here.     *)
PortThere(k) == k[2] = None \/ avail[k[2]] # "no"
Available(k) == IF k[3] = None \/ k[3] \in ByPort THEN PortThere(k) ELSE TRUE
NewNode(k) == [available |-> Available(k), linked |-> FALSE, fresh |-> TRUE]

(* Mutant: the stamp of a node that is there is not renewed.               *)
CreateNodesStale(s, keys) ==
  [s EXCEPT !.nodes = [k \in Key |-> IF k \in keys /\ s.nodes[k] = None THEN NewNode(k)
                                     ELSE s.nodes[k]]]

(* create_node for all nodes that handle_udev_loaded_card or               *)
(* handle_bluetooth_card goes through.                                     *)
CreateNodes(s, keys) ==
  [s EXCEPT !.nodes = [k \in Key |-> IF k \notin keys THEN s.nodes[k]
                                     ELSE IF s.nodes[k] = None THEN NewNode(k)
                                     ELSE [s.nodes[k] EXCEPT !.fresh = TRUE]]]

(* destroy_node leaves the hash "byptr" alone.                             *)
DestroyNodes(s, keys) ==
  [s EXCEPT !.nodes = [k \in Key |-> IF k \in keys THEN None ELSE s.nodes[k]]]

-----------------------------------------------------------------------------
(* A routing pass.                                                         *)

(* find_default_route asks for a node that is available, but               *)
(* make_explicit_routes sets up what was connected without asking; neither *)
(* needs a sink that is there, as setting a port or a profile may bring it.*)
Candidates(s) == {k \in Key : s.nodes[k] # None}

(* set_port for these nodes: the sink is looked for by its name.           *)
Moving(s, K) == {k \in K : k[1] \in s.live /\ s.port[k[1]] # k[2]}

(* Mutant: the node that had the sink keeps its index.                     *)
SetPortsTwice(s, K) ==
  LET moving == Moving(s, K)
      For == [d \in {k[1] : k \in moving} |-> CHOOSE k \in moving : k[1] = d]
  IN  [s EXCEPT !.port = [d \in Dev |-> IF d \in DOMAIN For THEN For[d][2] ELSE s.port[d]],
                !.byptr = [d \in Dev |-> IF d \in DOMAIN For THEN For[d] ELSE s.byptr[d]],
                !.nodes = [k \in Key |-> IF k \in moving THEN [s.nodes[k] EXCEPT !.linked = TRUE]
                                         ELSE s.nodes[k]]]

SetPorts(s, K) ==
  LET moving == Moving(s, K)
      For == [d \in {k[1] : k \in moving} |-> CHOOSE k \in moving : k[1] = d]
      Left(k) == \E d \in DOMAIN For : s.byptr[d] = k
  IN  [s EXCEPT !.port = [d \in Dev |-> IF d \in DOMAIN For THEN For[d][2] ELSE s.port[d]],
                !.byptr = [d \in Dev |-> IF d \in DOMAIN For THEN For[d] ELSE s.byptr[d]],
                !.nodes = [k \in Key |->
                  IF k \in moving THEN [s.nodes[k] EXCEPT !.linked = TRUE]
                  ELSE IF s.nodes[k] # None /\ Left(k) THEN [s.nodes[k] EXCEPT !.linked = FALSE]
                  ELSE s.nodes[k]]]

(* A pass may set a port on any of the devices, which may be refused, and  *)
(* a profile; it does nothing while another one is running.                *)
PortChoices(s) ==
  {K \in SUBSET {k \in Candidates(s) : k[3] = None /\ k[2] # None} :
     \A k, l \in K : k[1] = l[1] => k = l}
Stamped(s) ==
  [s EXCEPT !.nodes = [k \in Key |-> IF s.nodes[k] = None THEN None
                                     ELSE [s.nodes[k] EXCEPT !.fresh = FALSE]]]

(* set_profile.                                                            *)
SetProfile(s, c) ==
  {p \in ProfilesOf(c) \cap Headset : /\ p # active[c]
                                     /\ \E k \in Candidates(s) \cap KeysOf[c] : k[3] = p}

Pass(s, pending) ==
  IF StateProfile # None THEN Becomes(s) /\ changes' = pending
  ELSE /\ \E K \in PortChoices(s) : Becomes(SetPorts(Stamped(s), K))
       /\ \/ changes' = pending
          \/ \E c \in Bluetooth \cap plugged : \E p \in SetProfile(s, c) :
               /\ \A k \in DOMAIN pending : pending[k].card # c
               /\ changes' = Append(pending, Change(c, p, "route", s.live \cap DevsOn(c), FALSE))

PassIf(needed, s, pending) ==
  IF needed THEN Pass(s, pending) ELSE Becomes(s) /\ changes' = pending

-----------------------------------------------------------------------------
Init ==
  /\ plugged = {} /\ live = {} /\ changes = <<>>
  /\ active = [c \in Card |-> Off]
  /\ port = [d \in Dev |-> None]
  /\ avail = [q \in Port |-> "unknown"]
  /\ nodes = [k \in Key |-> None]
  /\ byptr = [d \in Dev |-> None]
  /\ late = [dir \in {"sink", "source"} |-> None]

(* card_put: a card comes with a profile; its sinks and sources follow.    *)
PlugCard(c, p) ==
  /\ Idle /\ c \notin plugged
  /\ plugged' = plugged \cup {c} /\ active' = [active EXCEPT ![c] = p]
  /\ Becomes(CreateNodes(Nodes, IF c \in Alsa THEN AlsaKeys(c, p) ELSE BluetoothKeys(c)))
  /\ changes' = <<Change(c, p, "plug", {}, FALSE)>>
  /\ UNCHANGED avail

UnplugCard(c) ==
  /\ Idle /\ c \in plugged
  /\ changes' = <<Change(c, Off, "unplug", live \cap DevsOn(c), TRUE)>>
  /\ UNCHANGED <<plugged, active, live, port, avail, nodes, byptr, late>>

(* Sinks and sources that both profiles of an ALSA card have stay.         *)
Leaving(c, p) == (live \cap DevsOn(c)) \ IF c \in Alsa THEN DevsOf[c][p] ELSE {}

(* Somebody else changes the profile of a card.                            *)
ChangeProfile(c, p) ==
  /\ Idle /\ c \in plugged /\ p \in ProfilesOf(c) \ {active[c]}
  /\ Hasty \/ \A k \in KeysOf[c] : nodes[k] # None => ~nodes[k].fresh
  /\ changes' = <<Change(c, p, "change", Leaving(c, p), FALSE)>>
  /\ UNCHANGED <<plugged, active, live, port, avail, nodes, byptr, late>>

(* ... or the active port of a sink or source: the hook does nothing.      *)
ChangePort(d, q) ==
  /\ Idle /\ d \in live /\ q \in PortsFor[d][active[CardOf[d]]] \ {port[d]}
  /\ port' = [port EXCEPT ![d] = q]
  /\ UNCHANGED <<plugged, active, live, avail, nodes, byptr, late, changes>>

(* sink_unlink and source_unlink.                                          *)
DeviceGoes(d) ==
  /\ ~Idle /\ d \in Current.left
  /\ Becomes(RemoveDevice(Nodes, d))
  /\ changes' = Append(Rest, [Current EXCEPT !.left = @ \ {d}])
  /\ UNCHANGED <<plugged, active, avail>>

(* sink_put and source_put: while a profile is changed the card's active   *)
(* profile is still the old one.                                           *)
DeviceComes(d) ==
  /\ ~Idle /\ Current.left = {} /\ ~Current.changed
  /\ d \in DevsOf[Current.card][Current.to] \ live
  /\ \E q \in IF PortsFor[d][Current.to] = {} THEN {None} ELSE PortsFor[d][Current.to] :
       LET s == [Nodes EXCEPT !.live = @ \cup {d}, !.port[d] = q]
           p == active[Current.card]
       IN  PassIf(Routes(s, d, p, StateProfile), AddDevice(s, d, p, StateProfile), changes)
  /\ UNCHANGED <<plugged, active, avail>>

Moved == /\ ~Idle /\ Current.left = {} /\ ~Current.changed
         /\ DevsOf[Current.card][Current.to] \subseteq live

PlugDone ==
  /\ Moved /\ Current.kind = "plug"
  /\ changes' = Rest
  /\ UNCHANGED <<plugged, active, live, port, avail, nodes, byptr, late>>

(* Mutant: nodes without a sink are forgotten.                             *)
UnplugDoneLinked ==
  /\ Moved /\ Current.kind = "unplug"
  /\ plugged' = plugged \ {Current.card} /\ active' = [active EXCEPT ![Current.card] = Off]
  /\ Pass(DestroyNodes(Nodes, {k \in KeysOf[Current.card] : nodes[k] # None /\ nodes[k].available}),
          Rest)
  /\ UNCHANGED avail

(* card_unlink and pa_discover_remove_card.                                *)
UnplugDone ==
  /\ Moved /\ Current.kind = "unplug"
  /\ plugged' = plugged \ {Current.card} /\ active' = [active EXCEPT ![Current.card] = Off]
  /\ Pass(DestroyNodes(Nodes, KeysOf[Current.card]), Rest)
  /\ UNCHANGED avail

(* pa_discover_profile_changed begins: the sink that had no node is added  *)
(* now that the new profile is active.                                     *)
ProfileChanges ==
  /\ Moved /\ Current.kind \in {"change", "route"}
  /\ active' = [active EXCEPT ![Current.card] = Current.to]
  /\ LET pending == Append(Rest, [Current EXCEPT !.changed = TRUE])
         d == late["sink"]
         Added(s) == [s EXCEPT !.late["sink"] = None]
     IN  IF d = None THEN Becomes(Nodes) /\ changes' = pending
         ELSE LET p == active'[CardOf[d]]
              IN  PassIf(Routes(Nodes, d, p, StateProfile),
                         Added(AddDevice(Nodes, d, p, StateProfile)), pending)
  /\ UNCHANGED <<plugged, avail>>

(* The rest of it: the source; then the nodes of the new profile of an     *)
(* ALSA card are made and those of the old one destroyed.                  *)
ProfileChanged ==
  /\ ~Idle /\ Current.changed
  /\ LET c == Current.card
         d == late["source"]
         added == [IF d = None THEN Nodes
                   ELSE AddDevice(Nodes, d, active[CardOf[d]], StateProfile) EXCEPT !.late["source"] = None]
         made == CreateNodes(added, AlsaKeys(c, Current.to))
         off == [added EXCEPT !.nodes = [k \in Key |->
                   IF k \in KeysOf[c] /\ added.nodes[k] # None /\ k[3] \notin Headset
                   THEN [added.nodes[k] EXCEPT !.available = FALSE] ELSE added.nodes[k]]]
     IN  PassIf(Current.routing,
                CASE c \in Alsa ->
                       DestroyNodes(made, {k \in KeysOf[c] : made.nodes[k] # None /\ ~made.nodes[k].fresh})
                  [] c \in Bluetooth /\ Current.to = Off -> off
                  [] OTHER -> added,
                Rest)
  /\ UNCHANGED <<plugged, active, avail>>

-----------------------------------------------------------------------------
(* set_bluetooth_profile: the most important profile with an available     *)
(* port in the given directions, "off" if there is none.  If the profile   *)
(* "off" comes first in the hash, nothing is changed unless it is to it.   *)
BluetoothProfile(c, ports, now) ==
  LET Fits(p) == /\ DevsOf[c][p] # {}
                 /\ \E q \in PortsOf[c][p] \cap ports : now[q] # "no"
      fit == {p \in ProfilesOf(c) : Fits(p)}
      best == {p \in fit : \A r \in fit : Priority[r] <= Priority[p]}
  IN  IF fit = {} THEN {Off} ELSE best \cup {active[c]}

(* pa_discover_port_available_changed: of a bluetooth card all nodes that  *)
(* the port has are updated and the profile is set before a pass is made.  *)
BluetoothPortChanges(c, q, v) ==
  /\ Idle /\ c \in plugged \cap Bluetooth /\ v # avail[q]
  /\ \E p \in ProfilesOf(c) : q \in PortsOf[c][p]
  /\ avail' = [avail EXCEPT ![q] = v]
  /\ LET of == {k \in KeysOf[c] : k[2] = q}
         There(k) == IF k[3] \in ByPort THEN v # "no" ELSE TRUE
         changed == \E k \in of : nodes[k].available # There(k)
         updated == [Nodes EXCEPT !.nodes = [k \in Key |->
                       IF k \in of THEN [nodes[k] EXCEPT !.available = There(k)] ELSE nodes[k]]]
         same == {r \in Port : r \in OutPort <=> q \in OutPort}
     IN  \E p \in BluetoothProfile(c, same, avail') :
           IF p = active[c] THEN PassIf(changed, updated, <<>>)
           ELSE /\ Becomes(updated)
                /\ changes' = <<Change(c, p, "change", live \cap DevsOn(c), changed)>>
  /\ UNCHANGED <<plugged, active>>

(* ... of an ALSA card those of the sinks and sources that have the port.  *)
AlsaPortChanges(c, q, v) ==
  /\ Idle /\ c \in plugged \cap Alsa /\ v # avail[q]
  /\ \E p \in ProfilesOf(c) : q \in PortsOf[c][p]
  /\ avail' = [avail EXCEPT ![q] = v]
  /\ LET of == {k \in KeysOf[c] : k[2] = q /\ nodes[k] # None /\ k[1] \in live
                                  /\ v # "unknown" /\ nodes[k].available # (v = "yes")}
     IN  PassIf(of # {}, [Nodes EXCEPT !.nodes = [k \in Key |->
                            IF k \in of THEN [nodes[k] EXCEPT !.available = (v = "yes")]
                            ELSE nodes[k]]], <<>>)
  /\ UNCHANGED <<plugged, active>>

MakeRouting ==
  /\ Idle /\ Pass(Nodes, <<>>)
  /\ UNCHANGED <<plugged, active, avail>>

Next ==
  \/ \E c \in Card : \/ \E p \in ProfilesOf(c) : PlugCard(c, p) \/ ChangeProfile(c, p)
                     \/ UnplugCard(c)
                     \/ \E q \in Changing, v \in {"yes", "no", "unknown"} :
                          BluetoothPortChanges(c, q, v) \/ AlsaPortChanges(c, q, v)
  \/ \E d \in Dev : DeviceGoes(d) \/ DeviceComes(d) \/ \E q \in Port : ChangePort(d, q)
  \/ PlugDone \/ UnplugDone \/ ProfileChanges \/ ProfileChanged
  \/ MakeRouting

Spec == Init /\ [][Next]_vars

-----------------------------------------------------------------------------
(* Nodes are of cards that are plugged, and what was kept for later is     *)
(* there.                                                                  *)
TypeOK ==
  /\ plugged \subseteq Card /\ live \subseteq Dev
  /\ active \in [Card -> Profile] /\ \A c \in Card : active[c] \in ProfilesOf(c)
  /\ port \in [Dev -> Port \cup {None}] /\ avail \in [Port -> {"yes", "no", "unknown"}]
  /\ nodes \in [Key -> Node \cup {None}]
  /\ \A k \in Key : nodes[k] # None => CardOf[k[1]] \in plugged
  /\ byptr \in [Dev -> Key \cup {None}]
  /\ late \in [{"sink", "source"} -> live \cup {None}]
  /\ changes \in Seq(CardChange)

(* However sinks come and go, ports and profiles are changed, a node and   *)
(* the sink or source it is linked with find each other: no node keeps an  *)
(* index of another's or of none, and the hash "byptr", which destroy_node *)
(* does not look at, never leads to a node that was freed.                 *)
LinksMutual ==
  /\ \A d \in Dev : byptr[d] # None => /\ d \in live /\ byptr[d][1] = d
                                       /\ nodes[byptr[d]] # None /\ nodes[byptr[d]].linked
  /\ \A k \in Key : nodes[k] # None /\ nodes[k].linked => byptr[k[1]] = k

(* When no profile is being changed, an ALSA card has the nodes of its     *)
(* active profile and no others: none of an old one is offered to routing. *)
(* It takes a pass between two changes; see Hasty.                         *)
NodesOfProfile ==
  \A c \in Alsa \cap plugged :
    (\A k \in DOMAIN changes : changes[k].card # c) =>
      {k \in KeysOf[c] : nodes[k] # None} = AlsaKeys(c, active[c])

(* A profile that the module changes itself brings the sinks and sources   *)
(* it was changed for: when it is done they are linked with the nodes of   *)
(* the new profile, whoever had changed it before; and when a card has     *)
(* been plugged all its sinks and sources that have nodes are linked.      *)
ComesLinked ==
  [][\A c \in Card :
       /\ ~Idle /\ Len(changes') < Len(changes)
       /\ Current.card = c /\ Current.kind \in {"plug", "route"}
       => \A d \in Considered(c, active'[c]) :
            /\ byptr'[d] # None
            /\ c \in Bluetooth => byptr'[d][3] = active'[c]]_vars
=============================================================================
