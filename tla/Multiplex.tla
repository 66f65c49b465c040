----------------------------- MODULE Multiplex -----------------------------
(***************************************************************************)
(* A stream that plays on several devices: multiplex.c, the parts of       *)
(* switch.c that route such a stream, and the outputs of the combine sink  *)
(* it is connected to (combine/module-combine-sink.c).                     *)
(*                                                                         *)
(* The combine sink has one output per device.  One of them may be the     *)
(* "default stream", which follows the default route; the others are there *)
(* for explicit routes.  A stream of an output that ends tells discover.c, *)
(* which makes a routing pass at once, in the middle of whatever ended it. *)
(*                                                                         *)
(* One stream is modelled; another stream's pass only brings a new target. *)
(* A device is a node with a sink of its own: that two nodes share a sink  *)
(* is in Router.                                                           *)
(***************************************************************************)
EXTENDS Integers, Sequences, SequencesExt, FiniteSets

CONSTANTS
  Device,          \* device nodes
  None,
  MaxConn,         \* bound: explicit routes of the stream
  SuspendConn,     \* bound: those it may have while the combine sink is suspended
  MoveMayFail      \* may PulseAudio refuse to move a stream?

ASSUME MultiplexConfig ==
  /\ None \notin Device /\ None \notin Nat
  /\ None \notin {"default", "explicit", "suspend", "resume"}
  /\ MaxConn \in Nat /\ SuspendConn \in 0..MaxConn
  /\ MoveMayFail \in BOOLEAN

VARIABLES
  attached,    \* devices that have a sink
  target,      \* default route found in the last pass, or None
  alive,       \* the stream and its multiplexer exist
  outputs,     \* the combine sink's outputs: [id, sink, on, method]; "on" if they
               \* have a stream, which has a routing method then
  defstream,   \* id of the default stream, or None
  conns,       \* devices of the stream's connections, oldest first
  open,        \* the combine sink is not suspended
  sweep,       \* the loop over the outputs that runs: "suspend", "resume" or None
  cursor,      \* its position
  deferred,    \* a routing pass is due
  refused,     \* a move was refused in the last pass
  routedAsleep \* of the properties: since the combine sink was made, it was
               \* suspended, or is, with explicit routes

muxVars == <<outputs, defstream>>
sweepVars == <<sweep, cursor>>
vars == <<attached, target, alive, muxVars, conns, open, sweepVars, deferred, refused,
          routedAsleep>>

(* The multiplexer's state, which a handler takes through several steps.   *)
Mux == [outputs |-> outputs, def |-> defstream]
Becomes(m) == outputs' = m.outputs /\ defstream' = m.def

-----------------------------------------------------------------------------
(* combine/module-combine-sink.c.                                          *)

(* find_output.                                                            *)
OutputsOn(m, d) == {k \in DOMAIN m.outputs : m.outputs[k].sink = d}
FindOutput(m, d) == CHOOSE k \in OutputsOn(m, d) : \A l \in OutputsOn(m, d) : k <= l

NewId(m) ==
  CHOOSE n \in 1..(Len(m.outputs) + 1) :
    /\ \A k \in DOMAIN m.outputs : m.outputs[k].id # n
    /\ \A j \in 1..(n - 1) : \E k \in DOMAIN m.outputs : m.outputs[k].id = j

(* add_slave: the output stays if it gets no stream.  The hooks of a new   *)
(* stream give it a default route and make it the default stream if there  *)
(* is none; their routing pass does nothing, as one is running.            *)
AddSlave(m, d, opened, method) ==
  LET o == [id |-> NewId(m), sink |-> d, on |-> opened,
            method |-> IF opened THEN method ELSE None]
  IN  [outputs |-> Append(m.outputs, o),
       def |-> IF opened /\ m.def = None THEN o.id ELSE m.def]

-----------------------------------------------------------------------------
(* A routing pass, as far as it is about this stream.                      *)

IsDefault(m, k) == m.outputs[k].on /\ m.outputs[k].id = m.def

(* pa_multiplex_duplicate_route.                                           *)
DuplicateRoute(m, d) ==
  \E k \in OutputsOn(m, d) : m.outputs[k].on /\ ~IsDefault(m, k)

(* Mutant: the default stream is removed, not transferred.                 *)
TransferDefaultRemoved(m) ==
  [outputs |-> SelectSeq(m.outputs, LAMBDA o : o.id # m.def), def |-> None]

(* pa_multiplex_remove_default_route with transfer_to_explicit.            *)
TransferDefault(m) ==
  [outputs |-> [k \in DOMAIN m.outputs |-> IF IsDefault(m, k)
                  THEN [m.outputs[k] EXCEPT !.method = "explicit"] ELSE m.outputs[k]],
   def |-> None]

(* Mutant: no look for a stream on the device.                             *)
SetupExplicitAlways(m, d, opened) ==
  IF \E k \in OutputsOn(m, d) : IsDefault(m, k)
  THEN [mux |-> TransferDefault(m), ok |-> TRUE]
  ELSE [mux |-> AddSlave(m, d, opened, "explicit"), ok |-> opened]

(* setup_explicit_stream2dev_link.                                         *)
SetupExplicit(m, d, opened) ==
  CASE \E k \in OutputsOn(m, d) : IsDefault(m, k) ->
         [mux |-> TransferDefault(m), ok |-> TRUE]
    [] DuplicateRoute(m, d) /\ ~\E k \in OutputsOn(m, d) : IsDefault(m, k) ->
         [mux |-> m, ok |-> TRUE]
    [] OTHER -> [mux |-> AddSlave(m, d, opened, "explicit"), ok |-> opened]

(* pa_multiplex_change_default_route and move_slave.                       *)
ChangeDefault(m, d, refuse) ==
  [m EXCEPT !.outputs = [k \in DOMAIN @ |-> IF IsDefault(m, k) /\ ~refuse
                           THEN [@[k] EXCEPT !.sink = d] ELSE @[k]]]

(* Mutant: a multiplexer without outputs is left without.                  *)
SetupDefaultNever(m, d, opened, refuse) ==
  IF m.def = None \/ DuplicateRoute(m, d) THEN m ELSE ChangeDefault(m, d, refuse)

(* setup_default_stream2dev_link: with explicit routes only there is to be *)
(* no default one.                                                         *)
SetupDefault(m, d, opened, refuse) ==
  CASE m.def = None /\ m.outputs = <<>> -> AddSlave(m, d, opened, "default")
    [] m.def # None /\ ~DuplicateRoute(m, d) -> ChangeDefault(m, d, refuse)
    [] OTHER -> m

(* make_explicit_routes from the newest connection on: what has become of  *)
(* the outputs, and whether one of the i newest could be set up.           *)
MakeExplicit(m, cs, up, opened) ==
  LET done[i \in 0..Len(cs)] ==
        IF i = 0 THEN [mux |-> m, ok |-> FALSE]
        ELSE LET before == done[i - 1]
                 d == cs[Len(cs) + 1 - i]
                 s == SetupExplicit(before.mux, d, opened)
             IN  IF d \notin up THEN before
                 ELSE [mux |-> s.mux, ok |-> before.ok \/ s.ok]
  IN  done[Len(cs)]

(* The default route follows, if no explicit one could be set up.          *)
Pass(m, cs, up, t, opened, refuse) ==
  LET explicit == MakeExplicit(m, cs, up, opened)
  IN  IF explicit.ok \/ t \notin up THEN explicit.mux
      ELSE SetupDefault(explicit.mux, t, opened, refuse)

(* What a pass can come to: the target is Router's choice.                 *)
Outcome == [target : attached \cup {None}, refuse : {FALSE} \cup {MoveMayFail}]
Routed(m, cs, p) == Pass(m, cs, attached, p.target, open, p.refuse)
Noted(p) == target' = p.target /\ refused' = p.refuse

-----------------------------------------------------------------------------
(* Streams of outputs that begin and end.                                  *)

(* Mutant: pa_multiplex_sink_input_remove does not look at the default.    *)
DisableForgets(m, k, cs, p) ==
  IF ~m.outputs[k].on THEN m
  ELSE [Routed(m, cs, p) EXCEPT !.outputs[k].on = FALSE, !.outputs[k].method = None]

(* output_disable: while the stream is unlinked it is still there for the  *)
(* pass that pa_discover_remove_sink_input makes.                          *)
Disable(m, k, cs, p) ==
  LET unlinked == [m EXCEPT !.def = IF IsDefault(m, k) THEN None ELSE @]
  IN  IF ~m.outputs[k].on THEN m
      ELSE [Routed(unlinked, cs, p) EXCEPT !.outputs[k].on = FALSE,
                                           !.outputs[k].method = None]

(* output_enable: pa_discover_add_sink_input makes it the default stream,  *)
(* and a pass, if there is none.                                           *)
Enable(m, k, cs, p) ==
  LET on == [m EXCEPT !.outputs[k].on = TRUE, !.outputs[k].method = "default"]
  IN  CASE m.outputs[k].on -> m
        [] ~m.outputs[k].on /\ m.def # None -> on
        [] OTHER -> Routed([on EXCEPT !.def = m.outputs[k].id], cs, p)

Free(m, k) == [m EXCEPT !.outputs = RemoveAt(@, k)]

(* remove_slave of the output on a device; quietly, while a pass is        *)
(* running, it causes no other.                                            *)
RemoveSlave(m, d, cs, p) ==
  IF OutputsOn(m, d) = {} THEN m
  ELSE LET k == FindOutput(m, d) IN Free(Disable(m, k, cs, p), k)
RemoveSlaveQuiet(m, d) ==
  IF OutputsOn(m, d) = {} THEN m
  ELSE LET k == FindOutput(m, d)
       IN  Free([m EXCEPT !.def = IF IsDefault(m, k) THEN None ELSE @], k)

-----------------------------------------------------------------------------
Init ==
  /\ attached = Device /\ target = None
  /\ alive = FALSE /\ outputs = <<>> /\ defstream = None
  /\ conns = <<>> /\ open = TRUE
  /\ sweep = None /\ cursor = 1
  /\ deferred = FALSE /\ refused = FALSE
  /\ routedAsleep = FALSE

(* The stream is prerouted: make_output_prerouting, pa_multiplex_create.   *)
Create ==
  /\ sweep = None /\ ~alive
  /\ \E d \in attached :
       /\ target' = d
       /\ Becomes(AddSlave([outputs |-> <<>>, def |-> None], d, TRUE, "default"))
  /\ alive' = TRUE /\ refused' = FALSE
  /\ UNCHANGED <<attached, conns, open, sweepVars, deferred, routedAsleep>>

(* The stream ends: pa_multiplex_destroy unloads the combine sink.  The    *)
(* passes made meanwhile find that its module is gone.                     *)
Destroy ==
  /\ sweep = None /\ alive
  /\ alive' = FALSE /\ conns' = <<>> /\ open' = TRUE /\ routedAsleep' = FALSE
  /\ Becomes([outputs |-> <<>>, def |-> None])
  /\ \E p \in Outcome : Noted(p)
  /\ UNCHANGED <<attached, sweepVars, deferred>>

(* mir_router_make_routing.                                                *)
MakeRouting ==
  /\ sweep = None
  /\ \E p \in Outcome :
       Noted(p) /\ IF alive THEN Becomes(Routed(Mux, conns, p)) ELSE UNCHANGED muxVars
  /\ deferred' = FALSE
  /\ UNCHANGED <<attached, alive, conns, open, sweepVars, routedAsleep>>

(* mir_router_add_explicit_route.                                          *)
AddExplicitRoute(d) ==
  /\ sweep = None /\ alive
  /\ Len(conns) < IF open THEN MaxConn ELSE SuspendConn
  /\ conns' = Append(conns, d)
  /\ \E p \in Outcome : Noted(p) /\ Becomes(Routed(Mux, conns', p))
  /\ deferred' = FALSE
  /\ routedAsleep' = (routedAsleep \/ ~open)
  /\ UNCHANGED <<attached, alive, open, sweepVars>>

(* Mutant: the link is not torn down.                                      *)
RemoveExplicitRouteOnly(k) ==
  /\ sweep = None
  /\ conns' = RemoveAt(conns, k)
  /\ \E p \in Outcome : Noted(p) /\ Becomes(Routed(Mux, conns', p))
  /\ deferred' = FALSE
  /\ UNCHANGED <<attached, alive, open, sweepVars, routedAsleep>>

(* mir_router_remove_explicit_route and teardown_explicit_stream2dev_link: *)
(* without a sink nothing can be torn down, and no pass is made.           *)
RemoveExplicitRoute(k) ==
  /\ sweep = None
  /\ conns' = RemoveAt(conns, k)
  /\ \/ /\ conns[k] \in attached
        /\ \E p \in Outcome :
             /\ Noted(p)
             /\ Becomes(Routed(RemoveSlave(Mux, conns[k], conns', p), conns', p))
        /\ deferred' = FALSE
     \/ /\ conns[k] \notin attached
        /\ UNCHANGED <<target, refused, muxVars, deferred>>
  /\ UNCHANGED <<attached, alive, open, sweepVars, routedAsleep>>

(* A sink appears: without unlinked_slaves, as no_reattach is set, the     *)
(* combine sink does nothing, and discover.c goes on to a pass.            *)
SinkPut(d) ==
  /\ sweep = None /\ d \notin attached
  /\ attached' = attached \cup {d} /\ deferred' = TRUE
  /\ UNCHANGED <<target, alive, muxVars, conns, open, sweepVars, refused, routedAsleep>>

(* A sink goes: the combine sink's hook is called before the module's own, *)
(* so that the pass in the middle still sees the device.  There is no such *)
(* pass if the sink goes because a running one changes a profile.          *)
SinkUnlink(d) ==
  /\ sweep = None /\ d \in attached
  /\ \/ \E p \in Outcome : Noted(p) /\ Becomes(RemoveSlave(Mux, d, conns, p))
     \/ Becomes(RemoveSlaveQuiet(Mux, d)) /\ UNCHANGED <<target, refused>>
  /\ attached' = attached \ {d} /\ deferred' = TRUE
  /\ UNCHANGED <<alive, conns, open, sweepVars, routedAsleep>>

(* sink_set_state: the combine sink is suspended or resumed.  Its state    *)
(* changes after the loop over the outputs.                                *)
Suspend ==
  /\ sweep = None /\ alive /\ open /\ Len(conns) <= SuspendConn
  /\ sweep' = "suspend" /\ cursor' = 1
  /\ routedAsleep' = (routedAsleep \/ conns # <<>>)
  /\ UNCHANGED <<attached, target, alive, muxVars, conns, open, deferred, refused>>

Resume ==
  /\ sweep = None /\ alive /\ ~open
  /\ sweep' = "resume" /\ cursor' = 1
  /\ UNCHANGED <<attached, target, alive, muxVars, conns, open, deferred, refused,
                 routedAsleep>>

(* The loops of suspend and unsuspend.                                     *)
SweepOutput ==
  /\ sweep # None /\ cursor <= Len(outputs)
  /\ \E p \in Outcome :
       /\ Noted(p)
       /\ Becomes(IF sweep = "suspend" THEN Disable(Mux, cursor, conns, p)
                                       ELSE Enable(Mux, cursor, conns, p))
  /\ cursor' = cursor + 1
  /\ UNCHANGED <<attached, alive, conns, open, sweep, deferred, routedAsleep>>

SweepDone ==
  /\ sweep # None /\ cursor > Len(outputs)
  /\ open' = (sweep = "resume") /\ sweep' = None /\ cursor' = 1
  /\ UNCHANGED <<attached, target, alive, muxVars, conns, deferred, refused, routedAsleep>>

Next ==
  \/ Create \/ Destroy \/ MakeRouting
  \/ \E d \in Device : AddExplicitRoute(d) \/ SinkPut(d) \/ SinkUnlink(d)
  \/ \E k \in DOMAIN conns : RemoveExplicitRoute(k)
  \/ Suspend \/ Resume \/ SweepOutput \/ SweepDone

Spec == Init /\ [][Next]_vars

-----------------------------------------------------------------------------
Output == [id : Nat \ {0}, sink : Device, on : BOOLEAN,
           method : {"default", "explicit", None}]
Playing == {k \in DOMAIN outputs : outputs[k].on}

(* The default stream is never a stream that has ended.                    *)
TypeOK ==
  /\ attached \subseteq Device /\ target \in Device \cup {None}
  /\ {alive, open, deferred, refused, routedAsleep} \subseteq BOOLEAN
  /\ outputs \in Seq(Output) /\ conns \in Seq(Device)
  /\ \A k, l \in DOMAIN outputs : outputs[k].id = outputs[l].id => k = l
  /\ \A k \in DOMAIN outputs : outputs[k].on <=> outputs[k].method # None
  /\ defstream = None \/ \E k \in Playing : outputs[k].id = defstream
  /\ sweep \in {"suspend", "resume", None} /\ cursor \in Nat \ {0}

(* What a combine sink that was suspended with explicit routes comes to is *)
(* SuspendVisitsOnce's subject; the next three are about all others.       *)

(* However default and explicit routes come, go and turn into each other,  *)
(* the stream is never mixed twice into the sound of one device.           *)
OneStreamPerSink ==
  ~routedAsleep => \A k, l \in DOMAIN outputs : outputs[k].sink = outputs[l].sink => k = l

(* When nothing is under way, the stream is heard on every device that it  *)
(* is connected to and that is there; if there is none, on the device of   *)
(* the default route, by a stream that will follow that route.             *)
Settled == alive /\ open /\ sweep = None /\ ~deferred /\ ~refused /\ ~routedAsleep
Connected == ToSet(conns) \cap attached
Heard ==
  Settled =>
    /\ \A d \in Connected : \E k \in Playing : outputs[k].sink = d
    /\ Connected = {} /\ target # None =>
         \E k \in Playing : /\ outputs[k].sink = target
                            /\ outputs[k].id = defstream

(* No output outlives its reason: it is the default stream or plays on a   *)
(* device that the stream is connected to.                                 *)
NoOrphans ==
  Settled =>
    \A k \in DOMAIN outputs : \/ outputs[k].id = defstream
                              \/ outputs[k].sink \in ToSet(conns)

(* Routes are set up without a gap: what plays on a device the stream is   *)
(* connected to goes on playing, unless the connection ends, the device    *)
(* goes, or the combine sink is suspended or destroyed.                    *)
Uninterrupted ==
  [][\A k \in Playing :
       LET d == outputs[k].sink
           kept == \A j \in DOMAIN conns : conns[j] = d => ~RemoveExplicitRoute(j)
       IN  /\ d \in ToSet(conns') \cap attached' /\ kept
           /\ alive' /\ sweep = None
           => \E l \in DOMAIN outputs' : outputs'[l].id = outputs[k].id
                                         /\ outputs'[l].sink = d /\ outputs'[l].on]_vars

(* "Let's suspend by unlinking all streams" (module-combine-sink.c:540): a  *)
(* loop over the outputs that comes to every device once.  A stream that   *)
(* is unlinked is missed by the pass this causes, though, and made again.  *)
SuspendVisitsOnce ==
  sweep = "suspend" =>
    \A k, l \in 1..(cursor - 1) : outputs[k].sink = outputs[l].sink => k = l
=============================================================================
