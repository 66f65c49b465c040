# A TLA+ model of pulseaudio-module-murphy-ivi

The module routes the audio streams of a car: it creates a node for every
endpoint PulseAudio knows, keeps prioritised lists of them, chooses a device for
each stream, switches ports and profiles accordingly, and lets Murphy's resource
manager and an external audio manager decide who may play and over what.

This directory holds TLA+ modules that model its core, TLC configurations that
check them on small instances, and machine-checked proofs of the properties that
matter most. Everything is translated from `src/`; line references are in
`PROJECT.json` (`map`).

    tlc -config Router.cfg MCRouter        # check a run
    tlapm RouterProofs.tla                 # check the proofs

## 1. Inventory

All of the module runs in PulseAudio's main loop. There is no preemption: what
makes the code hard is that handlers are long loops over shared lists which call
hooks and switch devices half-way through, that part of the work is deferred to
callbacks (`pa_mainloop_api_once`), and that four outside parties - PulseAudio's
devices and clients, Murphy, the audio manager and other mixers - act in any
order between two handlers.

| Component | State | Operations | Interacts with |
|---|---|---|---|
| Router (`router.c`) | routing groups with ordered `rtentry` lists, prioritised node list, connection list | register and unregister nodes, add and remove explicit routes, `make_routing`, `make_prerouting` | constraints, switch, audio manager, volume |
| Constraints (`constrain.c`) | definitions ("port" of a sink, "profile" of a card) and their node links | create, add and remove nodes, `mir_constrain_apply` (stamp and block entries) | router entries |
| Switch (`switch.c`) | none of its own: active ports, profiles, positions of streams | set up and tear down links, `set_profile`, `set_port` | PulseAudio, multiplexer, loopback; its profile switches call back into discover |
| Discover (`discover.c`) and tracker (`tracker.c`) | nodes by name and by pointer, scheduled callbacks | hooks for cards, sinks, sources, streams, ports, profiles | router, constraints, audio manager, Murphy interface |
| Resource (`resource.c`, `stream-state.c`) | rset and stream entries, five hash maps, counters, requests per node | update from a table, purge, add and remove streams, enforce policies | Murphy interface, fader |
| Murphy interface (`murphyif.c`) | connection state, reconnect timer, pending requests, sequence number | connect and reconnect, create and destroy resource sets, responses, table notifications | resource, nodes |
| Audio manager (`audiomgr.c`) with `dbusif.c` or `socketif.c` | domain state, node hash, connections, default routes of the last pass | register domain and nodes, connect, disconnect, domain down | router |
| Multiplexer, loopback (`multiplex.c`, `loopback.c`), `combine/` | combine sinks with a default and explicit slaves, loopback modules | create, duplicate, change, remove | switch, discover |
| Volume, fader (`volume.c`, `fader.c`) | per-class tables, limits with stamps, muted and corked streams | add limits, apply them after a pass | router, resource |
| Nodes, zones, classes, utils | tables, indices, the pass stamp | lookup, classification | all |
| Configuration, scripting (`murphy-config.c`, `scripting.c`, `murphy-ivi.lua`) | groups, classes, priorities, set up once | run at start | router, volume, nodes |
| `augment/`, `extapi.c`, `module-murphy-ivi.c` | - | property files, client extension, load and unload | - |

What is hard, and what makes each component right:

* **Router, constraints, switch, discover.** A pass is a walk over two lists
  whose steps change what the rest of the walk sees (profile switches attach and
  detach sinks; stamps and blocked flags are shared between groups). New streams
  are routed before they exist. Right means: default routes never contradict each
  other; what was chosen is what plays; nothing better was passed over; explicit
  routes win; and every event that makes a route wrong ends in a pass.
* **Resource.** Rsets and streams arrive in either order, with several on either
  side, and each side's absence is filled in with incomplete partners. Right
  means: links and hash maps never lead to freed entries, counters count, a stream
  runs if and only if Murphy's current table lets it.
* **Murphy interface.** Requests and responses over a connection that breaks.
  Right means: every stream that needs one has exactly one resource set, and a set
  whose stream has gone is destroyed.
* **Audio manager.** Registrations are answered later, the domain comes and goes.
  Right means: an id never leads to a node that was freed, and a connection is
  implemented by exactly one explicit route.
* **Multiplexer, volume.** A stream is not played twice on one sink; a limit of an
  older pass has no effect on a newer one.

The hazards behind these, each at its line, are in `PROJECT.json` (`hazards`).

## 2. The plan

| Step | Modules | State |
|---|---|---|
| 1 | `Router`, `MCRouter`, `RouterProofs`, `RouterPassProofs` | done, proved |
| 2 | `Resource`, `MCResource`, `ResourceProofs` | done, proved |
| 3 | `OneSet`, `MurphyLink`, `MCMurphyLink`, `MurphyLinkProofs`: transport, requests and responses, reconnect timer, local resource sets; "one set per stream" as refinement target | done, proved |
| 4 | `AudioManager`, `MCAudioManager`, `AudioManagerProofs`: domain and node registration, connect and disconnect, late answers and restarts of the D-Bus peer | done, proved |
| 5 | `Multiplex`, `MCMultiplex`, `MultiplexProofs`: default and explicit outputs of a combine sink under `Router`'s link operations, suspending | done, proved |
| 6 | `Volume`, `MCVolume`, `VolumeProofs`: limits and correction, muting, corking and fading by verdicts | done, proved |
| 7 | `Cards`, `MCCards`, `CardsProofs`: node keys, the two hash maps, stamps of an ALSA profile change, bluetooth profile choice | done, proved |
| 8 | `Groups`: types of nodes by card, routing groups, classes and priorities of the built-in configuration; gives `MCRouter` its constants | done, no theorem |
| 9 | the remaining theorems, see below | open |
| 10 | recording streams and streams that bring their sink, in `Router` | done, proved |
| 11 | streams that exist when the module is loaded, sources without a card | open |

Each module has an MC module with one run per question, a type invariant and
properties aimed at the listed hazards. Theorems worth proving next, in order:
`GrantedStreamsRun` of `Resource`, once the tables and streams for which it holds are
described by an assumption; that the number `DefaultRank` packs orders nodes lexicographically.

How the modules fit together: `Groups` says which groups accept a node and how they
rank it; `Cards` which nodes exist and are linked to a sink; `Router` which of them a
stream gets; `Multiplex` what becomes of the routes of one stream that is copied to
several devices; `Volume` how loud it is there. `MurphyLink` brings the resource
sets whose tables `Resource` keeps, and the verdicts of `Resource` are the inputs of
`Volume`. `AudioManager` makes the explicit routes that are inputs of `Router` and
`Multiplex`. They are checked apart, each with a neighbour that may do anything its
own module allows and more: a pass in `Cards` chooses any candidate, one in
`Multiplex` any target, one in `Volume` any device.

## 3. Router

`Router.tla` models `router.c`, `constrain.c`, the links of `switch.c` and
the events of `discover.c` and `tracker.c` that lead to a pass.

**State.** `entries` are the groups' `rtentry` lists (best last), `nodlist` the
node list, `connlist` the explicit routes. A device node is `registered` if it
exists, `available` if its flag is set, `attached` if it has a sink (`paidx`).
What has to be switched for it is its *unit*: a sink with ports (`PortUnit`), a
bluetooth card with profiles (`ProfileUnit`), or nothing. `mode` is the active port
or profile of each unit and `at` the unit each stream plays on, both kept by
PulseAudio. Stamps become sets: `stamped` are the nodes and `marked` the entries
that carry the current pass' stamp, `blocked` the entries whose flag is set, even
if by an older pass. `target` is the default route each start node got in the last
pass: what `pa_audiomgr_add_default_route` records. `unrouted` is a history variable that no
action reads: the streams and devices changed since the last pass began by something the
code makes no pass for. These are a sink without a card that appears while streams are
playing, a stream that comes with a sink of its own, and one whose connection could not be
torn down.

**Actions.** A handler runs to its end before another starts, but its loops are modelled one
iteration per step, so every property is also checked in the middle of a pass. `phase` says
which loop runs: `explicit` (make_explicit_routes), `data` and `start` (the two halves of an
iteration of `make_prerouting`; `make_routing` has only the second), `plug` and `unplug`
(the nodes of a card). `BeginPass` starts a pass as the last action of the handlers that
route. Events are `PlugUnit`, `UnplugUnit`, `PortAvailable`, `ProfileChanged`,
`PortChanged`, `NewStream`, `RemoveStream`, `NewRecording`, `RemoveRecording`, `NewChosen`,
the gateway actions (a bluetooth carkit whose input is looped back), `AddExplicitRoute`,
`RemoveExplicitRoute`, and `DeferredRouting`, the scheduled callback. Scheduled callbacks
that all run in one dispatch of the main loop are one flag.

A recording stream (`Recorder`) is routed by the groups of input devices when it is
prerouted, and only then: its node is an output node, so `mir_router_register_node` never
puts it on the node list (`NodlistWith`). Its route counts in the constraints of that pass;
a later pass may well switch the headset to the profile without a microphone. A stream that
comes with a sink or a source of its own (`Chooser`) is not prerouted: it plays where it
asked to until the next pass, which routes it as any other.

What PulseAudio does is modelled from how the code uses it: a profile switch
unlinks and puts sinks, whose hooks detach and attach nodes; a sink that goes away
has its streams rescued to the null sink; a switch or a move may be refused
(`MayFail`); somebody else may set ports (`Meddling`). A profile that others change, or
`set_bluetooth_profile` does, is not the same as one that a pass switches
(`ProfileForced` and `ProfileSwitched`): while the new sinks come, `u->state.profile` is
NULL and the card's active profile still the old one, so `node_key` links a sink to the
node of the *old* profile in its direction, if there is one. The new profile's node then has
no sink, and a stream routed to it stays where it is.

**Checked.**

| Run | Instance | Shows |
|---|---|---|
| `Router` | music and a call that may bring its sink, in two groups and priorities, an ALSA sink with 2 ports, a bluetooth headset with 2 profiles, the null sink, a tunnel that may appear while they play, 1 explicit route of the call to `a2dp`; switches, moves and the teardown of the connection are refused, ports set by others | `NoConflictingRoutes`, `BestRoute`: the choice of routes does not depend on success, nor on which events came between the passes |
| `RouterExplicit` | music, a looped back phone and the recording of what the caller says, the headset with its microphone in one of the profiles, the null sink, a tunnel, 2 explicit routes to the headset, with fairness | `ExplicitRouteHonoured`, `RoutesImplemented`, `EventuallySettled` |

They have 2,489,349 and 229,799 distinct states. `BestRoute` compares the choice of a
stream also among the ports or profiles of one unit: only the route of *another* stream
(`Outranked`) is a reason to pass over an endpoint. What the code makes no pass for is excepted
by name and until the next pass only; in particular a tunnel that appeared is a candidate
like any other from then on. A target that is gone excuses nothing: when a card has gone, its
streams must have been routed again.

`RoutesImplemented` has one exception, `Elsewhere`: the right profile is active, but its sink is
linked to the node of another. It is what `ProfileForced` leaves behind, and it says
which node has the sink; a route that is not implemented for any other reason violates
the property.

The groups, their order and the priorities of the instances are those of the
built-in configuration: `MCRouter` computes them with `Groups` from the types of the
devices. (The phone group, for instance, takes neither A2DP nor a line; the mono
`sco` ranks below everything in stereo in the default group, and above the speaker
in the phone group.)

Why the bounds are enough: a conflict needs two modes of one unit and two streams; the two
kinds of unit behave differently, so there is one of each with two modes; the phone and the
default group overlap in `speaker`, `headset` and `sco`, so each stream can take the other's
unit; the microphone needs the profile that music on `a2dp` does not want, so preparing a
recording switches what the music plays on. `RouterExplicit` leaves out the sound card, so that
its liveness can be checked; what a port may do is in `Router` and in the theorems. Two
connections are the smallest number that
can conflict, and a looped back phone has the higher priority, so it can take a unit that an
explicit route of the music wants.

The profiles of a headset are always available (`get_bluetooth_port_availability`); were
they not, a profile switch that succeeds late in a pass would make a device available
that a more important stream had passed over.

`MaxConn` bounds the connections that exist at a time and `Connects` the pairs they
connect; no other bound is needed.
`StaticSinks` says whether sinks without a card appear while streams are playing. Such a sink
gets its node but no routing pass follows (`pa_discover_add_sink`). The code says
nowhere that it should route, so this is listed as a hazard and not as a finding, and
`BestRoute` counts the sink from the next pass on. With `Meddling` or refused switches
`RoutesImplemented` cannot hold, so it is checked where nothing is refused.

**Fairness.** `WF` of the steps of a handler that has started (it is a loop that
nothing interrupts), and `SF` of `DeferredRouting`: `pa_mainloop` dispatches its
deferred events in every iteration, and the action is disabled only while another
handler runs. Nothing is assumed of the environment.

## 4. Resource

`Resource.tla` models `resource.c` and the parts of `murphyif.c` that drive it.

**State.** `db` is `struct pa_resource`: the rset entries, the stream entries, the
hash maps `rid`, `rname` (rsets), `sid`, `sname`, `snode` (streams) and the counters
`nres`. Entries are allocated from `RsetObj` and `StreamObj`, so that a hash map can
point to a freed or reused entry if the code allows it. `table` is the last table
Murphy sent for each type of resource, `nodes` the streams that exist, `req` the
request last made for each of them (`RUN`, `BLOCK`, `KILL`).

**Actions.** A `Notification` brings a table; its rows are entered one per step
(`RsetUpdate`), then the rsets that were not updated are purged one per step (`Purge`),
then policies are enforced (`PurgeDone`). Rows and purges come in any order: neither
the table nor the hash map promises one. `AddNode` and `DeleteNode` are the streams.
The operators between them (`RsetFound`, `RsetJoins`, `StreamFound`, ...) have one
branch for each branch of `pa_resource_rset_update` and `pa_resource_stream_update`.
Fields that come and go together are one value: `over` is "released with
autorelease". `Without` takes one link off a list (`PA_LLIST_REMOVE`), `WithoutKey`
one key out of a hash map. `Room` is the bound on entries: a row or a node is
taken only while there is a free one of each kind, so that allocation never fails.

**Checked.**

| Run | Instance | Shows |
|---|---|---|
| `Resource` | 2 rsets with one name, 1 without, a playing stream found by name and a recording one found by id | `LinksMutual`, `HashesFaithful`, `CountersRight`, `NothingRunsUngranted`, `GrantedStreamsRun` |
| `ResourceShared` | 2 streams of one name | `LinksMutual`, `GrantedStreamsRun` for an rset with several streams |

The two passing runs split what does not hold together: with several streams *and*
several rsets of one name, a new rset that comes before the old one is purged gets
no name, the second stream of that name is refused by `stream_entry_new`, and
`GrantedStreamsRun` fails. The model shows it with three streams and rsets
`i1`, `i2`; no comment in the code promises otherwise.

`IdsReturn` is FALSE: Murphy numbers rsets consecutively. If ids come back (Murphy
restarted), `pa_resource_rset_update` finds the dead entry and refuses the row for
good. Deadlock is not checked: ids are used up, so the model may stop.

The object bounds are one more than the entries that can exist at a time (every
entry has a partner, and each id or node makes at most one).

## 5. MurphyLink

`MurphyLink.tla` models the resource protocol of `murphyif.c`, with the places in
`discover.c` and `node.c` that create and destroy resource sets. `OneSet.tla` is what
it promises the streams.

**State.** `transp`, `connected`, `timer`, `seqno` and `reqs` are the fields of
`resource_interface`; `life`, `loop`, `rsetid` and `localrset` belong to the nodes, and
`known` is the id under which `resource.c` has an entry for a node. Murphy, its sets
and the two directions of the connection are external. `link` is what the
connection really is: after it broke, PulseAudio still believes in it until the
closed event (`"broken"`), and what it sends may or may not fail.

**Actions.** `NewStream`, `RemoveStream`, `LoopAppears`, `LoopGone`, `DeviceGone`
(the nodes), `ConnectAttempt` (the timer), `ConnectionClosed`, `ReceiveResponse`, and
Murphy's `MurphyStarts`, `MurphyCreates`, `MurphyDestroys`, `Break`. Each is a handler
from its beginning to its end, for nothing interrupts one. `CreateResourceSet`
connects on its own if it can and then asks for the sets of *all* nodes.

Three details of the code carry the properties. Requests are never taken off the list
when the connection breaks, and a response is compared with every older request;
because the list is newest first, and because reading the message moves its cursor,
only the right node gets the id: no two nodes have a request with one sequence number,
so `reqs` is a set and the newest request that fits is the one with the greatest number
(`FirstReader`). A request freed with `pa_xfree` is still read
(`req->seqno`); nothing is allocated in between and the allocator overwrites only the
list pointers, so the model reads the old value. After a break the transport is NULL
until the first attempt, and the code passes it to the library nevertheless; the
model takes the call as one that fails.

**Checked.** `MurphyLink`: a stream with a resource definition, one without (it gets
a set only by `resource_set_create_all`), and a looped back device. `OneSetEach`,
`NoSetForgotten`, `DestroysUnneeded`, the refinement `PromiseKept`, and with fairness
`StreamsServed` and `OrphansDestroyed`. One break (`MaxBreaks`) is enough to have
requests of an old connection in the list of a new one, and two streams to confuse
them; without the device the properties also hold with two breaks
(`MaxBreaks = 2`, an empty `Device`). No device
is looped back any more when `MaxRequest` requests were made. Deadlock is not
checked: nodes live once, so the model may stop.

The properties speak of streams. For looped back devices most of them fail, as the
model shows: they keep the ids of a lost connection (`resource_set_destroy_all` resets
only streams), and a response that comes after the source has gone gives the node a
set that nobody destroys. The shipped configuration gives devices no resource
definition, but `resource_set_create_all` asks for their sets all the same. Ids are
not reused, as in `Resource`. Sets requested by `resource_set_create_all` lack the flag
that acquires them at once; acquiring is Murphy's business and not modelled.

**Fairness.** `WF` of the timer and of what comes over the connection, which the main
loop dispatches, and of Murphy reading its requests. That Murphy is running from
some time on is a hypothesis of `StreamsServed`, not an assumption.

## 6. AudioManager

`AudioManager.tla` models `audiomgr.c` and `dbusif.c`, with the connect and disconnect
commands of `extapi.c` and the places in `discover.c` that register nodes.

**State.** `nodes` are all nodes ever made, by index; `hash`, `domain` and `amisup` are
the fields of `pa_audiomgr` and `pa_routerif`; `connlist` is the router's list and
`conns` the two hash maps of connection ids, the audio manager's and the extension's.
`toAM` and `fromAM` are the two directions of the bus and `am` the audio manager, both
external and modelled by what the code relies on: messages arrive in order, ids are
not given twice by one audio manager, a call nobody answers comes back as an error
that changes nothing.

**Actions.** Node events (`CreateNode`, `DestroyNode`, `UpdateNodeAvailability`), one
action per message (`HandleUp`, `HandleGone`, `DomainRegistered`, `NodeRegistered`,
`Connect`, `Disconnect`), the two commands of a client, and the audio manager's own
steps. A node is looked up by its key when its answer comes, whatever has happened to
it since; a hash entry whose node was freed leads anywhere (`IndexOf`).

`available` is written in two ways. `update_node_availability` (`UpdateNodeAvailability`)
registers or unregisters the node with it. The hooks of a device's sink or source
(`pa_discover_add_sink`, `pa_discover_remove_sink`, their siblings for sources, and a card
that is switched off) write the flag and tell nobody: `DeviceBack` and `DeviceGone`. A node
that is not available when the domain comes up is left out by `pa_discover_domain_up`, and
stays unknown when its sink returns. `withheld` marks such nodes for the properties; no
guard of the code's reads it. It does *not* follow `available`: a node that is known stays
known while its sink comes and goes, and must.

A client's connection has its id twice: whole, as the key of the extension's hash map, and cast
to 16 bits in the connection (`AmidOf`; `AmIds` stands for 2^16). Ids are used up by calls that
fail, too (`ExtConnectFails`). The command looks up no direction of the two nodes, and
`mir_switch_setup_link` asserts it: a client that connects the wrong way round ends
PulseAudio, for which there is no step.

**Checked.** `AudioManager`: a phone whose port and whose device come and go and a gateway
whose module is unloaded and loaded (754,001 distinct states). `ConnsFaithful` (no
connection is freed twice or unlinked by another's id, and no two keys lead to one
connection), `DownForgets`, `AvailableKnown`, `ConnectedIsRouted`, and with fairness
`NodesAnnounced`. The last two are about the nodes that are not withheld. `AmIds` is 2, so
that ids wrap around with the third connection. `MaxNodes` (3) lets one of the two nodes be
made again; `MaxEvents` (6) is the number of events apart from the messages they cause:
enough for a restart of the audio manager with a node remade and a connection made and
ended. It is the bound that ends behaviours, so deadlock is not checked. `AcceptsTwice` lets
the audio manager accept the domain registered a second time, the harder case.

`ConnectedIsRouted` allows for two answers that are still to come. An audio manager
that is restarted gives its connections the ids of the one before it, and takes an
acknowledgement of the old connection for one of its own: it then believes that its
connection is there before the module has handled the call. Either the call is still
on its way (`fromAM`) or its refusal is (`toAM`), so the belief is put right. That takes
nine events; the run's six do not reach it, the theorem covers it.

**Fairness.** `WF` of the messages, which the main loop dispatches, and of the audio
manager's (or, without one, the bus's) handling of its calls. Nothing is assumed of
nodes and clients, nor that the audio manager runs.

## 7. Volume

`Volume.tla` models `fader.c`, the limits of `volume.c` and `stream-state.c`, with what
`discover.c`, `murphyif.c` and `router.c` do around them.

**State.** `where` is the sink of each stream, `st` its three ways to be silent (muted,
internally muted, corked), the target of its ramp and its volume factor. `verdict` is
what Murphy's tables say of it, and `correction` the limit of the generic entry.
Volumes are 0 to `Norm`; a ramp is its target, the time it takes is left out. The internal
mute is an item of the volume factor: it sets `factor` to 0, and taking it back restores
`Norm`. With transition times (`Fading`) a limit is the target of a ramp and the factor keeps
the mute; without, the limit *is* the factor and overwrites it (`SetLimit`), so that a stream
that is blocked, and flagged `internal`, is heard from the next pass on. A stream without a
class gets no node and no rset, so it is of kind `free`.

**Actions.** `NewStream`, `RemoveStream`, `Notification`, `Response`, `MakeRouting`,
`MakeLimiting`, `UserMute`. Each contains the pass over the limits where the code makes
one (`Pass`), with the streams that the code still finds on the sink at that time.

**Checked.** `Volume`: music that names its resource set, a navigator that gets one
from the module, and a looped back call, on two devices, with the limits the
default configuration has in mind. `UngrantedSilent`, `AllowedHeard`, and
`LimitsApplied`, which compares every step with an independent formula for what each
stream is due. Three kinds of steps are excepted, because the code makes no pass over the
limits there: a user's mute, a late response, and a stream that comes without a class or
on no device. Four volumes (`Norm = 4`) keep apart "no limit", "some", "the maximum of
the class" and "silent"; three streams of three classes are the smallest number in
which one triggers, one is limited and one does both. Nothing is bounded besides.
There are 102,358 distinct states. `Fading` is TRUE: without transition times both
`UngrantedSilent` and `AllowedHeard` fail, see Findings.

## 8. Multiplex

`Multiplex.tla` models `multiplex.c`, the parts of `switch.c` that route a multiplexed
stream, and the outputs of `combine/module-combine-sink.c`.

**State.** `outputs` is the combine sink's list: an output has a sink, and a stream
with a routing method if it is `on`. `defstream` is the stream that follows the default
route. `conns` are the stream's connections, `attached` the devices with a sink,
`target` the default route of the last pass. `sweep` and `cursor` are the loops of
`suspend` and `unsuspend`, one output per step, because each output whose stream ends
makes module-murphy-ivi run a pass over the same list.

**Actions.** `Create`, `Destroy`, `MakeRouting`, `AddExplicitRoute`,
`RemoveExplicitRoute`, `SinkPut`, `SinkUnlink`, `Suspend`, `Resume`, `SweepOutput`,
`SweepDone`. A pass goes through the connections from the newest on
(`MakeExplicit`, a recursive function of their number) and sets up the default route if
none of them could be (`Pass`). The hook of a sink that goes runs in the
combine sink first, so the pass in the middle still sees the device. `routedAsleep` is a
history variable that no action reads: since it was made, the combine sink was suspended, or
on its way there, while its stream had explicit routes.

**Checked.** `Multiplex`: three devices and up to three connections, moves may be
refused. `OneStreamPerSink`, `Heard`, `NoOrphans`, `Uninterrupted`. `MultiplexSuspend`:
violated, see Findings. Two devices can be connected while the default stream is on
the third; a third connection can repeat one of them.

Nothing in the code keeps a combine sink from being suspended while its stream has explicit
routes, and no action forbids it. What becomes of it then is seen in the model: with two
connections the loop over the outputs does not come to an end (`MultiplexSuspend`), and an
output made while the sink is suspended gets no stream but stays in the list, so that the
next pass makes another for the same device. `OneStreamPerSink`, `Heard` and `NoOrphans`
therefore speak of the combine sinks for which `routedAsleep` is FALSE, including those that
were suspended and resumed, any number of times, while there was no connection.
`Uninterrupted` speaks of all. The outputs a sink collects have no bound, so for those
with `routedAsleep` the state space is cut: `SuspendConn` is the number of
connections there may be while the sink is suspended (1 in `Multiplex`, 2 in
`MultiplexSuspend`), and `Bounded` looks no further than `MaxOutputs` outputs. `Multiplex` has
417,078 distinct states.

## 9. Cards

`Cards.tla` models the nodes of sound cards: `discover.c` from the hooks of `tracker.c` on,
and what `set_port` and `set_profile` of `switch.c` do to them.

**State.** `plugged`, `active`, `live`, `port` and `avail` are PulseAudio's cards,
profiles, sinks and sources, and ports. `nodes` is the hash of nodes by key (name, port,
bluetooth profile): whether it is available, linked to a sink (`paidx`) and has the
stamp of the present (`fresh`). `byptr` is the hash by sink. `late` keeps the sink or
source that came before its node was known. `changes` is a stack of profile changes
under way, for a pass in the middle of one may make another; `u->state.profile` is
read off it.

**Actions.** Cards are plugged and unplugged, their profile is changed by somebody or by
a pass, ports come and go. A change takes its sinks and sources away and brings the
new ones in any order, one per step (`DeviceGoes`, `DeviceComes`), then
`ProfileChanges` and `ProfileChanged` are the hook at its end. A pass sets the port of
each device at most once (`SetPorts`), and may do so for several. It may switch to any node
there is, available or not, for `make_explicit_routes` does not ask.

`handle_alsa_card` makes nodes for profiles of one or two channels only (`Considered`); those in
`Wide` have more. `WideApart` assumes that a wide profile shares no sink or source with a narrower
one. If it did, changing to it would destroy the node of a sink that stays, and `byptr` would keep
the freed node. The sink of a wide profile has no node, and stays in `u->state` as the one
that waits for its own.

`handle_card_ports` never resets the port name in its data, so that a source without a port that
is made after sinks with ports carries the name of an output port. Its key is without the port,
so nodes are found as the model says; a pass that would switch to it asks for an output port
of the source, is refused, and nothing changes.

**Checked.** `Cards` (736,037 distinct states): a sound card whose speaker and jack share a
sink, whose microphone has no port, and which has a profile of more channels; a headset
whose two profiles share the output port, and a phone that makes calls. `LinksMutual`,
`NodesOfProfile`, `ComesLinked`. The cards cover the three ways a key is made; two bluetooth
cards let a profile be changed in the middle of another change. `Changing` bounds the ports
whose availability changes to one of each kind (`pJack`, `pPhone`). `Hasty` is FALSE: a
profile is changed again by others only after a pass. Otherwise `NodesOfProfile` fails, see
Findings.

## 10. Groups

`Groups.tla` has no state. It models how `classify.c` finds a node's type, location and
privacy from its card, or a sink's without a card from its name (`StaticNode`), the accept
and compare functions of `router.c` (compare as the number it computes, width included), and
the groups of both directions, class map, role and binary maps and priorities of
`murphy-config.c`. The instances of `Router` are made with it, so what `BestRoute` and
`ExplicitRouteHonoured` show holds for the order the program really uses.

## 11. Findings

Each with a run that TLC finds violated:

* `MurphyForgotten`: when the connection breaks, the streams forget their ids but
  their entries in `resource.c` stay, for the removal depends on `connected`, which
  has just been cleared. A stream that ends then leaves an entry that points to a
  freed node. (One that lives on gets a new set, but its entry stays linked to the
  old one.)
* `MurphyAborts`: a device that loses its source before the response to its request
  has a set when the source comes back, and
  `pa_assert(!node->rset.id)` fails. It takes a resource definition for the device's
  role.
* `MultiplexSuspend`: suspending a combine sink whose stream is connected to two
  devices walks over the outputs for ever: ending the stream of one makes a pass that
  adds an output for the other at the end of the same list.

Seen in the models, without a run of their own:

* Router: `router.h` says that a connection's `blocked` is "true if this conflicts with
  another route". Nothing sets it. After others have changed a headset's profile, the default
  route to the new profile has no sink to move the stream to, for the sink is linked to the
  old profile's node (`Elsewhere`).
* Resource: an rset without a stream that leaves the table is kept "as long as the
  streams is alive", that is for ever; an id that returns hits it. A second rset
  without a name is refused as a duplicate, because the first entered the empty name in
  the name hash.
* AudioManager: a node that is destroyed and made again before the first answer gets
  two ids, and the hash keeps both. After a restart of the audio manager the
  connections of the old one stay, and a new one with an id in use can never be ended. A
  device that had no sink when the domain came up is never announced when its sink comes, and
  one that loses its sink is never withdrawn (`discover.c:475`, `668`, `615`, `794`).
* Multiplex: a suspended combine sink with connections collects outputs without
  streams.
* Volume: without transition times a stream that was internally muted keeps the target
  0, so `AllowedHeard` fails, and one that is blocked is heard at the next pass over the
  limits, so `UngrantedSilent` fails. A user's mute and a late response leave the limits as they
  were until the next pass. The `suppress` entries of the built-in configuration have an
  empty trigger mask, which nothing computes, so they suppress nothing.
* Groups: an internal card is given the location external. A handset gets the type of
  an application class, which no group accepts. The rank has five bits for channels, so
  32 channels would rank as none (cards are limited to two).
* Cards: `Hasty = TRUE` violates `NodesOfProfile`: nodes are destroyed if their stamp is
  older than the present, and two profile changes without a pass between them have the
  same stamp. `u->state.profile` is set only by `switch.c`, so a profile changed by others
  or by `set_bluetooth_profile` may link a sink to the old profile's node. An ALSA sink
  that comes by a profile change is looked up before its node exists, and is not
  linked until a port is set. If "off" comes first in a card's hash of profiles,
  `set_bluetooth_profile` never switches to another. A profile of more than two channels that
  shares a source with a narrower one leaves the hash by pointer with a freed node.

## 12. Proofs

Checked by TLAPS, for every value of the constants that satisfies the assumption each
module states of their types (`RouterConfig`, `ResourceConfig`, ...): the bounds of the runs
(`MaxConn`, `MaxBreaks`, `MaxNodes`, `MaxEvents`, the sets of objects) are arbitrary in the
theorems. Theorems that need more say so:

| Assumption | Of | Why the code justifies it |
|---|---|---|
| `MayFail = {}`, `~Meddling` | `RoutesAreImplemented`, `ExplicitRoutesAreHonoured` | a refused switch or move, or a port somebody else sets, leaves a route that is not implemented |
| `OneNodePerPort` | the same | `handle_alsa_card` makes one node for each port of a sink, and a node's port decides its mode |
| `NamesSteady` | `UngrantedNeverRun` | of Murphy's tables: rows with one id have one name. `rset_data_copy` takes a row that renames its rset for an error ("refuse to update rset: mismatching names"), and the rset would keep the grant of the last row it took |
| `NumberedAlone` | the same | of Murphy's tables and streams: a stream that asks for an rset by its number asks for one whose name, if it has one, no other rset has. The sets the module has made for a stream are such, for `resource_set_create_node` sends no name of the set, and streams find them by number; sets that share a name are those that streams find by `#name`. Without it the stream of the set `i1`, named `n1`, is linked to a later set `i2` of the same name by `pa_resource_rset_update`, and runs by its grant. The MC module evaluates both on the tables of the runs (`TablesAsProved`) |
| `Fading` | `UngrantedStaySilent` | both transition times are positive, as by default (`fader.c`). Without them a limit overwrites the internal mute, and a blocked stream is heard (Findings) |
| `Audible` | `AllowedAreHeard` | both transition times are positive, as by default (`fader.c`), and the limits of a class and the correction of a device do not add up to silence: a limit that mutes what Murphy allows is a configuration that wants it silent |
| `~Hasty` | `NodesAreOfProfile` | two profile changes of others without a pass between them do break it (Findings) |
| `BluetoothPorts` | `ComesAreLinked` | `handle_bluetooth_card` makes nodes for the ports of a profile only, and PulseAudio's bluetooth cards have an input and an output port that belong to every profile with the direction |

`NoneIsPassedOver`, `OneStreamEach`, `AreHeard` and `OutputsHaveReasons` need none: what they
except is in the properties, by `unrouted` and `routedAsleep`. `WideApart` is an assumption of
`Cards` itself, as `CardsConfig` is; it is not of the code's making but of the sound cards'
profiles.

Each module has one inductive invariant, usually `IInv`; the argument is always that it
holds initially, that each action preserves it (one lemma per action, and one per
operator that several actions share), and that it implies the property.

### Router (`RouterProofs`)

For any choice of `MayFail`, `Meddling` and `StaticSinks`.

* `TypeCorrect`: `Spec => []TypeOK`. `TypeOK` is not inductive: that `connlist[i]` is a
  connection needs `i` to be inside the list. `TInv` adds `LoopsInside`: the walks stay
  inside their lists, a stream is prerouted only if there is one, and only nodes
  that exist are available. The lemmas type the list operations (`InsertByRank`,
  `Unlink`), the results of a switch, and `Found`.
* `RoutesNeverConflict`: `Spec => []NoConflictingRoutes`. A route is added because its
  entry is not blocked, so the invariant must say that whatever conflicts with an
  existing route *is* blocked. `BlockedRight` says it in three parts: stamps are given
  to all entries of a unit at once (`mir_constrain_apply` walks the whole
  constraint); an entry that carries the stamp and is not blocked has blocked
  exactly its rivals (`Exact`); and so has the target of every route. It holds while
  a pass walks the node list (`PassInv`); before, no entry carries the stamp.
  `RouteKeepsBlocked` is the heart: adding one route preserves it, whether the entry
  carries the stamp already (then it is `Exact`) or not (then no entry of its unit
  does, and applying the constraint disturbs no other). The stale `blocked` flags
  of older passes never matter, for they are read together with the stamp.

### Router, the passes (`RouterPassProofs`)

* `NoneIsPassedOver`: `Spec => []BestRoute`. The invariant (`BInv`) says that the priority
  list of each group has the accepted nodes in the order of its compare function, and the
  node list the streams in the order of theirs (`ListsRight`), and, while a pass walks,
  that each entry that is blocked with the stamp has a default route to blame for it
  (`Blockers`), made for a node the walk has passed (`Routed`), and that a node that the
  walk has passed has the best entry of its list that was open (`Passed`). What was open
  when an important stream chose may be blocked later, never the other way round; this is
  why the route of a less important stream cannot invalidate the choice. The stream that
  is prerouted takes its turn before the first that is less important (`DataBefore`).
  `Gentle` is what PulseAudio's hooks must leave alone in the middle of a pass, and the
  lemmas on switches show they do. No assumption is made: while the nodes of a sink without a
  card are made, `PlugBest` says that nobody is passed over but for them, and when the last is
  made they are `unrouted` until the next pass begins. `Ranked` is `BestRoute` without the
  demand that a target is there; that it is, except while a card goes and until its pass
  has thrown the old targets away, is `TargetsThere`, proved on its own.
* `RoutesAreImplemented`: `Spec => []RoutesImplemented`. `RInv` adds to the invariants above
  that a registered node is without a sink only while its unit is in another mode
  (`AttachedRight`), and that each default route the pass has made so far is in effect
  (`TargetsImplemented`). Switching for a route undoes only what conflicts with it
  (`SwitchedTo`), and no default route does, by `NoConflictingRoutes`. Static sinks may
  appear. A profile changed by others leaves its sink with one node or another of
  the profiles in its direction (`ProfileForced`); which one is all that `Elsewhere` excepts.
* `ExplicitRoutesAreHonoured`: `Spec => []ExplicitRouteHonoured`. `HInv` joins the two and
  follows the connections: those the walk has passed, and that no other contradicts, are in
  effect and their streams carry the stamp (`ConnsHonoured`); the default routes of
  the pass skip the streams with the stamp and undo only what they conflict with; and a
  stream that goes leaves no connection behind that still names it (`ConnsKnown`).

### Resource (`ResourceProofs`)

`TypeCorrect`, `LinksStayMutual`, `HashesStayFaithful`, `CountersStayRight`, whatever
tables Murphy sends, in whatever order, and whether or not ids return. The three
properties are proved together (`Good`), since none is inductive alone: an entry is found
through a hash map before it is linked, and a counter goes down with the links that
are cut. Inside a handler `Good` does not hold: an entry is entered in the hash maps
before it has a partner, and loses its last one before it is freed. `Whole` is what
holds throughout, and `Partnered(d, R, S)` says that all but the entries in `R` and `S` have
partners; each operator of the model has a lemma that moves entries in and out of those
sets, and each action ends with both empty.

`UngrantedNeverRun` states `NothingRunsUngranted`, for tables with `NamesSteady` and
`NumberedAlone`. Its invariant, `GInv`, has four parts. `Kin`: an rset with an id is found
by it, what an entry has of names and ids belongs to rows Murphy sends, and each rset
*serves* every key by which its streams were found or still can be found, which is what
keeps the rows of a stream's rsets among the rows it asked for, whichever of the two came
first, and when a name is taken away from an entry again. `PowersBacked`: each grant and
each relaxed policy of an rset that is alive comes from a row of the table that counts;
during a notification this holds of the entries of its kind only once they are updated, and
when nothing is left to purge, all of them are. `TablesSent`: the rows still to be entered
are of that table. `RunsAllowed`: a stream that runs is allowed to, except for those of the
kind of a notification under way. Every operator of the model has a lemma `...Kin`, which
also says that it makes no power out of nothing (`PowersKept`) and that the dead rsets and
the nodes stay with their streams (`DeadKept`): a relaxed rset that has died is the one
excuse for a stream that runs without a row, so it may not lose its stream.

### MurphyLink (`MurphyLinkProofs`)

`TypeCorrect`, `OneSetForEach`, `NothingForgotten`, `OnlyUnneededDestroyed`, and
`LinkKeepsPromise`: `MurphyLink` implements `OneSet`. `LinkInv` says where the id of a set
can be: with the node that holds it, in the one response that brings it, or in the one
request that destroys it (`IdsHeld`, `IdsBrought`, `IdsDestroyed`). That a response reaches the
node that asked for it rests on `InOrder`: sequence numbers are given in order, both
directions of the connection keep it, and whatever is under way belongs to one listed
request. `StreamInv` says that a stream asks at most once per connection. In the
refinement a step of the link is a step of `OneSet` for the node it concerns, or a stutter;
`PromiseStep` goes through the actions.

### AudioManager (`AudioManagerProofs`)

`TypeCorrect` and `ConnectionsStayFaithful` (with `ConnsFaithful` inductive together with the
types), `DownForgetsAll` and `ConnectedAreRouted`. For `DownForgets` the invariant
is about the order of the messages under way (`DownInv`): the answers about nodes come
after the one about the domain and before the end of the audio manager, so that the
domain is up whenever one is handled. For `ConnectedIsRouted` it follows
a connection through both directions of the bus (`RoutedInv`): as long as the audio manager
has not ended it, the last call about it is still to be handled, or it has a route, or
its refusal is under way; and whatever an audio manager before this one said of
the same id comes before that call. Restarts are in it at any place.

`AvailableAreKnown` has the longest argument (`KnownInv`). An audio manager without a domain
is asked for one (`AskInv`); what the running one has said is still so, and its ids grow
(`RepliesRight`); once the domain is this audio manager's, the ids the module holds are its
ids and older than those to come (`IdsRight`), and each available node is known, or its
registration is on the way and nothing behind it will undo it, or the answer is on the way
back and stands (`NodesServed`). The part that is easy to miss is a call to
unregister a node that was meant for an earlier audio manager: it is handled by this one, and
can do harm only if it names an id that this one has already given, which `NoStale` excludes.

### Volume (`VolumeProofs`)

`TypeCorrect`, `UngrantedStaySilent`, `AllowedAreHeard`, `LimitsAreApplied`, for any finite
table of limits. A stream is internally muted or corked until it is allowed, and never
both (`ObeysAt`), so that one request to run undoes it. That the flag really keeps it
silent is `Mutes`: its factor is 0, and with transition times no limit touches the factor.
`LimitsAreApplied` shows that what the
passes of a handler leave behind is the formula of `LimitsRight`, which looks at nothing but
the verdicts and where the streams are; `TableMost` is the lemma about the maximum of
a table of limits.

### Cards (`CardsProofs`)

`TypeCorrect`, `LinksStayMutual`, `NodesAreOfProfile`, `ComesAreLinked`, for any cards,
ports and profiles, and passes in the middle of a profile change that change another card's.
`Sound` is the property with what it needs of `late`; `Fits` ties the record of the nodes to
the cards that are plugged, their profiles, and the stack of changes that are not done,
which is at most two deep (`StackOK`). A profile in `Wide` has no key, and by `WideApart` no
sink or source of another has a key of it, or loses one to it (`Narrow`, `HasKey`).
`ProfileNodes` and `ComeLinked` say what is true of the nodes of a card in each stage of a
change.

### Multiplex (`MultiplexProofs`)

`TypeCorrect`, `RoutesUninterrupted`, `OneStreamEach`, `AreHeard` and `OutputsHaveReasons`,
for any number of devices and connections, suspended at any time and with any number of
connections, and moves that may be refused at any time. The last three are about a combine
sink that has not been suspended with explicit routes: the invariant `Kept` says that
`MuxInv` holds as long as `routedAsleep` is FALSE, and `AsleepStays` that only a new combine
sink makes it FALSE again.

What makes these proofs different is the loop in a pass. `MakeExplicit` is a recursive function
of the number of connections it has been through, and the library's induction theorems
cannot be used, as they take an operator. `Climb` says the same of a *set* of numbers: a
set that has 0 and, with each number, the next, has them all. It follows from the fact that the
natural numbers are well-founded, whose statement has no operator either. `CourseExists`
uses it to show that the recursion defines a function, `MakeExplicitSteps` that this is
the one that is chosen, and `ServedStep` carries the claim from one connection to the
next: nobody's output is lost (`Grown`), every device that the walk has come to has an
output, and no device has two.

The invariant (`MuxInv`) has a part for each stage. In use (`InUse`), every output plays, no
two on one device, and each is the default stream or has a connection. Suspended, there
is at most one output, without a stream (`Asleep`); in between (`Suspending`, `Resuming`) the
outputs before the cursor are those the loop has dealt with. `HeardInv` is `Heard` with what the
handlers need of it; `Waiting` says that a stream that is left without outputs has
no default route, unless a pass is still due, so that a resumed sink plays again. The
delicate step is the removal of an output. The stream that is unlinked is still in the list
during the pass this causes, but is not the default stream any more: the pass takes its
device for served, and only what it does for the others may remain (`DisableDisables`,
`RemoveSlaveRemoves`).

### Only model-checked

* `GrantedStreamsRun` of `Resource`: it holds only for some combinations of tables and
  streams. A second row without a name is refused by `rset_entry_new`, so that its grant has
  no effect; several streams and several rsets of one name break it (section 4); so does
  an rset of both types of which one is released. The runs choose tables and streams that
  avoid these; an assumption that describes them all would say little of what Murphy sends.
* What `Groups` computes: it has no state, and is checked only as the constants of the
  instances of `Router`. The theorems about `Router` hold for any groups.
* `EventuallySettled`, `StreamsServed`, `OrphansDestroyed` and `NodesAnnounced`: liveness
  under fairness is out of this prover's reach.

## 13. What is not modelled

* Rendering, latency and rate control, volumes in samples and the course of a ramp in
  time, property parsing, marshalling for D-Bus and sockets, printing, the `augment`
  modules, documentation tools: no decision of the router depends on them.
* The Lua bindings (`scripting.c`): they build tables once, at start-up. Their results
  are constants. Volume contexts are set only from there.
* Loading and unloading the module, and the streams that exist when it is loaded.
  Routing groups made or destroyed at run time.
* Sources without a card: their nodes keep the index 0 of the zeroed data
  (`discover.c:736` sets it for the null source only), so that a recording stream routed to
  one records from whichever source has the index 0. This is listed as a hazard.
* Zones, and the class of a stream found out from its process (`/proc`): the class is
  taken from the binary and the role, with the built-in maps (`Groups`).
* Audio manager: `socketif.c` has empty functions; `pa_audiomgr_done`; timeouts and error
  replies, which are logged and never retried; the list of default routes, which is
  sent without an effect on the module. Ids are not reused by one audio manager.
* Volume: a stream plays on one sink; corking by the client itself.
* Multiplex: one stream, and one node per sink (that nodes share a sink is in `Router`);
  a new output that PulseAudio refuses; nested passes while a stream is prerouted; what
  the combine sink does when a slave's state changes.
* Cards: a pass happens only between hooks, and does not change a headset's profile in
  the middle of its own change; all profiles are available. Which sinks survive a
  change of profile is PulseAudio's affair and external.

`PROJECT.json` gives the state of each component.
