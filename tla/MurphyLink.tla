----------------------------- MODULE MurphyLink -----------------------------
(***************************************************************************)
(* murphyif.c: the connection to Murphy over which resource sets are       *)
(* created and destroyed for streams and looped back devices.  Requests    *)
(* are numbered and listed until a response comes; the connection breaks   *)
(* and is attempted again every second; streams end before the response    *)
(* to their request is there.                                              *)
(*                                                                         *)
(* Murphy and the transport are external: Murphy answers the requests of a *)
(* connection in order, and when the connection breaks it drops the sets   *)
(* created over it.                                                        *)
(***************************************************************************)
EXTENDS Naturals, Sequences, SequencesExt, FiniteSets, FiniteSetsExt

CONSTANTS
  Stream,      \* nodes that are streams without a resource set id of their own
  Device,      \* nodes that are devices which can be looped back
  Wants,       \* nodes with a resource definition
  MayRefuse,   \* may Murphy refuse to create a set?
  MaxBreaks,   \* bound: times the connection breaks
  MaxRequest   \* bound: no device is looped back after so many requests

Node == Stream \cup Device

(* An index that no node has, PA_IDXSET_INVALID.                           *)
CONSTANT NoNode

ASSUME LinkConfig ==
  /\ Stream \cap Device = {} /\ Wants \subseteq Node /\ NoNode \notin Node
  /\ IsFiniteSet(Node)
  /\ MayRefuse \in BOOLEAN /\ MaxBreaks \in Nat /\ MaxRequest \in Nat

(* A resource set id is a number that Murphy counts up; 0 is "no id".      *)
VARIABLES
  life,      \* [Node -> "new", "live" or "gone"]
  loop,      \* [Node -> BOOLEAN]: node->loop is not NULL
  rsetid,    \* [Node -> Nat]: node->rset.id
  localrset, \* [Node -> BOOLEAN]: node->localrset
  known,     \* [Node -> Nat]: the id under which resource.c has an entry for the node
  transp,    \* rif->transp is not NULL
  connected, \* rif->connected
  timer,     \* rif->connect.evt is not NULL
  seqno,     \* rif->seqno.request
  reqs,      \* rif->reqs: the listed requests; as every new one is prepended and
             \* numbers only grow, the list has them in falling order of seqno
  aborted,   \* an assertion has failed
  murphy,    \* is Murphy running?
  link,      \* "down", "up", or "broken" as long as PulseAudio has not noticed
  toMurphy,  \* requests on their way
  toPulse,   \* responses on their way
  sets,      \* Murphy's resource sets, with the node they were created for
  nextId,    \* the id of Murphy's next set
  refused,   \* nodes for which Murphy refused to create a set
  breaks     \* how often the connection has broken

nodeVars == <<life, loop, rsetid, localrset, known>>
rifVars == <<transp, connected, timer>>
requestVars == <<seqno, reqs, toMurphy>>
murphyVars == <<murphy, sets, nextId, refused, breaks>>
vars == <<nodeVars, rifVars, requestVars, murphyVars, aborted, link, toPulse>>

(* Mutant: nodes are still found after their end.                          *)
LiveOnce == {n \in Node : life[n] # "new"}

(* pa_nodeset's nodes: what mir_node_find_by_index finds.                  *)
Live == {n \in Node : life[n] = "live"}

-----------------------------------------------------------------------------
(* resource_send_message: a request that cannot be sent is not listed.  On *)
(* a broken connection sending may still succeed, and the request is lost. *)

Outcomes == IF link = "up" THEN {TRUE} ELSE IF link = "broken" THEN BOOLEAN ELSE {FALSE}

Listed(kind, n, number) == [kind |-> kind, node |-> n, seqno |-> number]

Request(kind, n, id, number) == [kind |-> kind, node |-> n, id |-> id, seqno |-> number]

Send(kind, n, id, success, old) ==
  /\ seqno' = seqno + 1
  /\ reqs' = IF success THEN old \cup {Listed(kind, n, seqno)} ELSE old
  /\ toMurphy' = IF success /\ link = "up"
                 THEN Append(toMurphy, Request(kind, n, id, seqno)) ELSE toMurphy

(* resource_set_destroy_node: the request is about a set, not a node.      *)
DestroySet(id, old) == \E success \in Outcomes : Send("DESTROY", NoNode, id, success, old)

(* resource_set_create_all, over a connection just made: every stream and  *)
(* every looped back device without a set, wanted or not.  alive and       *)
(* looped are the nodes when it runs.                                      *)
CreateAll(alive, looped) ==
  LET ns == SetToSeq({n \in alive : (n \in Stream \/ looped[n]) /\ rsetid[n] = 0})
  IN  /\ seqno' = seqno + Len(ns)
      /\ reqs' = reqs \cup {Listed("CREATE", ns[i], seqno + i - 1) : i \in DOMAIN ns}
      /\ toMurphy' = [i \in DOMAIN ns |-> Request("CREATE", ns[i], 0, seqno + i - 1)]
      /\ localrset' = [n \in Node |-> n \in ToSet(ns) \/ localrset[n]]

(* resource_transport_connect, when it succeeds.  Without a transport, as  *)
(* after a break until the first attempt, it fails.                        *)
CanConnect == ~connected /\ transp /\ murphy

Connected ==
  /\ connected' = TRUE /\ link' = "up"
  /\ toPulse' = <<>>

(* pa_murphyif_create_resource_set.                                        *)
CreateResourceSet(n, looped) ==
  \/ /\ connected
     /\ \E success \in Outcomes :
          /\ Send("CREATE", n, 0, success, reqs)
          /\ localrset' = [localrset EXCEPT ![n] = success]
     /\ UNCHANGED <<connected, link, toPulse>>
  \/ /\ CanConnect
     /\ Connected
     /\ CreateAll(Live \cup {n}, looped)
  \/ /\ ~connected /\ ~CanConnect
     /\ UNCHANGED <<localrset, connected, link, toPulse, requestVars>>

(* pa_murphyif_destroy_resource_set, and pa_murphyif_delete_node which it  *)
(* calls.                                                                  *)
DestroyResourceSet(n) ==
  IF localrset[n] /\ rsetid[n] # 0
  THEN /\ DestroySet(rsetid[n], reqs)
       /\ known' = [known EXCEPT ![n] = 0]
       /\ localrset' = [localrset EXCEPT ![n] = FALSE]
       /\ rsetid' = [rsetid EXCEPT ![n] = 0]
  ELSE UNCHANGED <<known, localrset, rsetid, requestVars>>

-----------------------------------------------------------------------------
(* pa_murphyif_init: there are no nodes yet.                               *)
Init ==
  /\ life = [n \in Node |-> "new"] /\ loop = [n \in Node |-> FALSE]
  /\ rsetid = [n \in Node |-> 0] /\ known = [n \in Node |-> 0]
  /\ localrset = [n \in Node |-> FALSE]
  /\ transp \in BOOLEAN /\ murphy \in BOOLEAN
  /\ connected = (transp /\ murphy) /\ timer = ~connected
  /\ link = IF connected THEN "up" ELSE "down"
  /\ seqno = 1 /\ reqs = {} /\ toMurphy = <<>> /\ toPulse = <<>>
  /\ sets = {} /\ nextId = 1 /\ refused = {} /\ breaks = 0
  /\ aborted = FALSE

(* pa_discover_add_sink_input, pa_discover_add_source_output.              *)
NewStream(n) ==
  /\ ~aborted /\ n \in Stream /\ life[n] = "new"
  /\ life' = [life EXCEPT ![n] = "live"]
  /\ IF n \in Wants THEN CreateResourceSet(n, loop)
     ELSE UNCHANGED <<localrset, connected, link, toPulse, requestVars>>
  /\ UNCHANGED <<loop, rsetid, known, transp, timer, murphyVars, aborted>>

(* Mutant: a stream that has asked for a set but has none yet is not known *)
(* by its index any more, and its request is taken off the list.           *)
RemoveStreamUnlisted(n) ==
  /\ ~aborted /\ n \in Stream /\ life[n] = "live"
  /\ life' = [life EXCEPT ![n] = "gone"]
  /\ IF localrset[n] /\ rsetid[n] = 0
     THEN /\ reqs' = {q \in reqs : q.node # n}
          /\ UNCHANGED <<known, localrset, rsetid, seqno, toMurphy>>
     ELSE DestroyResourceSet(n)
  /\ UNCHANGED <<loop, rifVars, murphyVars, aborted, link, toPulse>>

(* mir_node_destroy for a stream.  The entry in resource.c of a stream     *)
(* without a local set is removed only if the node has its id.             *)
RemoveStream(n) ==
  /\ ~aborted /\ n \in Stream /\ life[n] = "live"
  /\ life' = [life EXCEPT ![n] = "gone"]
  /\ DestroyResourceSet(n)
  /\ UNCHANGED <<loop, rifVars, murphyVars, aborted, link, toPulse>>

(* A looped back device gets its sink or source: pa_discover_add_sink,     *)
(* pa_discover_add_source.  pa_murphyif_create_resource_set asserts that   *)
(* the node has no set.                                                    *)
LoopAppears(n) ==
  LET looped == [loop EXCEPT ![n] = TRUE]
  IN  /\ ~aborted /\ n \in Device /\ life[n] # "gone" /\ ~loop[n]
      /\ seqno < MaxRequest
      /\ life' = [life EXCEPT ![n] = "live"]
      /\ loop' = looped
      /\ aborted' = (n \in Wants /\ rsetid[n] # 0)
      /\ IF n \in Wants /\ ~aborted' THEN CreateResourceSet(n, looped)
         ELSE UNCHANGED <<localrset, connected, link, toPulse, requestVars>>
      /\ UNCHANGED <<rsetid, known, transp, timer, murphyVars>>

(* pa_discover_remove_sink, pa_discover_remove_source; the node stays.     *)
LoopGone(n) ==
  /\ ~aborted /\ loop[n]
  /\ loop' = [loop EXCEPT ![n] = FALSE]
  /\ DestroyResourceSet(n)
  /\ UNCHANGED <<life, rifVars, murphyVars, aborted, link, toPulse>>

(* mir_node_destroy for a device.                                          *)
DeviceGone(n) ==
  /\ ~aborted /\ n \in Device /\ life[n] = "live" /\ ~loop[n]
  /\ life' = [life EXCEPT ![n] = "gone"]
  /\ UNCHANGED <<loop, rsetid, localrset, known, rifVars, requestVars, murphyVars,
                 aborted, link, toPulse>>

-----------------------------------------------------------------------------
(* Mutant: sets are created only for streams that come later.              *)
ConnectAttemptAlone ==
  /\ ~aborted /\ timer
  /\ transp' = TRUE
  /\ timer' = (~connected /\ ~murphy)
  /\ IF ~connected /\ murphy THEN Connected
     ELSE UNCHANGED <<connected, link, toPulse>>
  /\ UNCHANGED <<nodeVars, requestVars, murphyVars, aborted>>

(* connect_attempt, when the timer fires.                                  *)
ConnectAttempt ==
  /\ ~aborted /\ timer
  /\ transp' = TRUE
  /\ timer' = (~connected /\ ~murphy)
  /\ IF ~connected /\ murphy THEN Connected /\ CreateAll(Live, loop)
     ELSE UNCHANGED <<connected, link, toPulse, localrset, requestVars>>
  /\ UNCHANGED <<life, loop, rsetid, known, murphyVars, aborted>>

(* resource_set_destroy_all, without a connection: nothing is sent and     *)
(* nothing removed in resource.c.  Only streams are reset.                 *)
DestroyAll ==
  LET lost == {n \in Live \cap Stream : localrset[n]}
  IN  /\ rsetid' = [n \in Node |-> IF n \in lost THEN 0 ELSE rsetid[n]]
      /\ localrset' = [n \in Node |-> n \notin lost /\ localrset[n]]
      /\ UNCHANGED <<life, loop, known, requestVars>>

(* Mutant: nobody attempts to connect again.                               *)
ConnectionClosedForGood ==
  /\ ~aborted /\ link = "broken" /\ toPulse = <<>>
  /\ transp' = FALSE /\ connected' = FALSE /\ link' = "down"
  /\ DestroyAll
  /\ UNCHANGED <<timer, murphyVars, aborted, toPulse>>

(* Mutant: the streams keep the ids they had.                              *)
ConnectionClosedKept ==
  /\ ~aborted /\ link = "broken" /\ toPulse = <<>>
  /\ transp' = FALSE /\ connected' = FALSE /\ timer' = TRUE /\ link' = "down"
  /\ UNCHANGED <<nodeVars, requestVars, murphyVars, aborted, toPulse>>

(* resource_xport_closed_evt.  The transport is destroyed first, so        *)
(* resource_set_destroy_all finds "connected" FALSE.                       *)
ConnectionClosed ==
  /\ ~aborted /\ link = "broken" /\ toPulse = <<>>
  /\ transp' = FALSE /\ connected' = FALSE /\ timer' = TRUE /\ link' = "down"
  /\ DestroyAll
  /\ UNCHANGED <<murphyVars, aborted, toPulse>>

-----------------------------------------------------------------------------
(* resource_recvfrom_msg.  Requests older than the response are looked at, *)
(* too.  The position in the message moves on with what is read, so only   *)
(* the first who reads gets the status and the id.                         *)

(* Mutant: a response to a node that is gone is ignored.                   *)
ReadersAlive(r) == {q \in reqs : q.node \in Live /\ q.seqno = r.seqno}

Readers(r) ==
  {q \in reqs : q.seqno <= r.seqno /\ (q.node \notin Live \/ q.seqno = r.seqno)}

(* Mutant: the list is in the order of the requests.                       *)
FirstReaderOldest(r) == CHOOSE q \in Readers(r) : \A p \in Readers(r) : q.seqno <= p.seqno

FirstReader(r) == CHOOSE q \in Readers(r) : \A p \in Readers(r) : p.seqno <= q.seqno

(* resource_set_create_response and pa_murphyif_add_node: resource.c       *)
(* leaves the entry of a node it knows.                                    *)
CreateResponse(n, id, left) ==
  /\ rsetid' = [rsetid EXCEPT ![n] = id]
  /\ known' = [known EXCEPT ![n] = IF @ = 0 THEN id ELSE @]
  /\ reqs' = left
  /\ UNCHANGED <<seqno, toMurphy>>

(* resource_set_create_response_abort: nobody wants the set any more.      *)
CreateResponseAbort(id, left) == DestroySet(id, left) /\ UNCHANGED <<rsetid, known>>

Respond(r) ==
  LET left == {q \in reqs : q.seqno > r.seqno \/ q.kind # r.kind}
      n == FirstReader(r).node
  IN  IF r.kind = "CREATE" /\ r.ok /\ Readers(r) # {}
      THEN IF n \in Live THEN CreateResponse(n, r.id, left) ELSE CreateResponseAbort(r.id, left)
      ELSE /\ reqs' = left
           /\ UNCHANGED <<rsetid, known, seqno, toMurphy>>

ReceiveResponse ==
  /\ ~aborted /\ toPulse # <<>>
  /\ toPulse' = Tail(toPulse)
  /\ Respond(Head(toPulse))
  /\ UNCHANGED <<life, loop, localrset, rifVars, murphyVars, aborted, link>>

-----------------------------------------------------------------------------
(* Murphy.                                                                 *)

MurphyStarts ==
  /\ ~aborted /\ ~murphy /\ murphy' = TRUE
  /\ UNCHANGED <<nodeVars, rifVars, requestVars, sets, nextId, refused, breaks, aborted,
                 link, toPulse>>

Response(q, ok, id) == [kind |-> q.kind, seqno |-> q.seqno, ok |-> ok, id |-> id]

MurphyCreates ==
  LET q == Head(toMurphy)
  IN  /\ ~aborted /\ toMurphy # <<>> /\ q.kind = "CREATE"
      /\ \/ /\ sets' = sets \cup {[id |-> nextId, node |-> q.node]}
            /\ nextId' = nextId + 1
            /\ toPulse' = Append(toPulse, Response(q, TRUE, nextId))
            /\ UNCHANGED refused
         \/ /\ MayRefuse
            /\ refused' = refused \cup {q.node}
            /\ toPulse' = Append(toPulse, Response(q, FALSE, 0))
            /\ UNCHANGED <<sets, nextId>>
      /\ toMurphy' = Tail(toMurphy)
      /\ UNCHANGED <<nodeVars, rifVars, seqno, reqs, murphy, breaks, aborted, link>>

MurphyDestroys ==
  LET q == Head(toMurphy)
  IN  /\ ~aborted /\ toMurphy # <<>> /\ q.kind = "DESTROY"
      /\ sets' = {s \in sets : s.id # q.id}
      /\ toPulse' = Append(toPulse, Response(q, sets' # sets, 0))
      /\ toMurphy' = Tail(toMurphy)
      /\ UNCHANGED <<nodeVars, rifVars, seqno, reqs, murphy, nextId, refused, breaks, aborted, link>>

(* Murphy stops.  What it has sent may still arrive, up to some point.     *)
Break ==
  /\ ~aborted /\ link = "up" /\ breaks < MaxBreaks
  /\ breaks' = breaks + 1
  /\ link' = "broken" /\ murphy' = FALSE /\ sets' = {}
  /\ toMurphy' = <<>>
  /\ \E k \in 0..Len(toPulse) : toPulse' = SubSeq(toPulse, 1, k)
  /\ UNCHANGED <<nodeVars, rifVars, seqno, reqs, nextId, refused, aborted>>

-----------------------------------------------------------------------------
(* A failed assertion stops PulseAudio: aborted disables every action.     *)
Next ==
  \/ \E n \in Node : NewStream(n) \/ RemoveStream(n) \/ LoopAppears(n) \/ LoopGone(n)
                      \/ DeviceGone(n)
  \/ ConnectAttempt \/ ConnectionClosed \/ ReceiveResponse
  \/ MurphyStarts \/ MurphyCreates \/ MurphyDestroys \/ Break

(* The main loop dispatches the timer and what comes over the connection,  *)
(* and Murphy reads its requests.                                          *)
Fairness ==
  /\ WF_vars(ConnectAttempt) /\ WF_vars(ConnectionClosed) /\ WF_vars(ReceiveResponse)
  /\ WF_vars(MurphyCreates) /\ WF_vars(MurphyDestroys)

Spec == Init /\ [][Next]_vars
FairSpec == Spec /\ Fairness

-----------------------------------------------------------------------------
Kinds == {"CREATE", "DESTROY"}

(* What the variables are, and that a transport, the timer and the         *)
(* connection go together: without a connection an attempt is scheduled.   *)
TypeOK ==
  /\ life \in [Node -> {"new", "live", "gone"}] /\ loop \in [Node -> BOOLEAN]
  /\ rsetid \in [Node -> Nat] /\ localrset \in [Node -> BOOLEAN] /\ known \in [Node -> Nat]
  /\ transp \in BOOLEAN /\ connected \in BOOLEAN /\ timer \in BOOLEAN
  /\ aborted \in BOOLEAN /\ murphy \in BOOLEAN /\ link \in {"down", "up", "broken"}
  /\ seqno \in Nat /\ nextId \in Nat /\ breaks \in Nat /\ refused \subseteq Node
  /\ reqs \subseteq [kind : Kinds, node : Node \cup {NoNode}, seqno : Nat]
  /\ toMurphy \in Seq([kind : Kinds, node : Node \cup {NoNode}, id : Nat, seqno : Nat])
  /\ toPulse \in Seq([kind : Kinds, seqno : Nat, ok : BOOLEAN, id : Nat])
  /\ sets \subseteq [id : Nat, node : Node \cup {NoNode}]
  /\ connected => transp
  /\ connected = (link # "down")
  /\ ~connected => timer

(* The set that a stream holds over a working connection exists, was       *)
(* created for this stream and is the only one created for it: responses   *)
(* reach the stream whose request they answer, although requests of older  *)
(* connections are still listed and ended streams are still waited for     *)
(* (resource_recvfrom_msg).                                                *)
OneSetEach ==
  link = "up" =>
    \A n \in Stream :
      /\ rsetid[n] # 0 => [id |-> rsetid[n], node |-> n] \in sets
      /\ \A s, t \in sets : s.node = n /\ t.node = n => s = t

(* No set is forgotten: while one exists for a stream, the stream holds    *)
(* it, or the response that brings it or the request that destroys it is   *)
(* on its way (resource_set_create_response_abort,                         *)
(* pa_murphyif_destroy_resource_set).                                      *)
NoSetForgotten ==
  link = "up" =>
    \A s \in sets : s.node \in Stream =>
      \/ rsetid[s.node] = s.id
      \/ \E r \in ToSet(toPulse) : r.kind = "CREATE" /\ r.ok /\ r.id = s.id
      \/ \E q \in ToSet(toMurphy) : q.kind = "DESTROY" /\ q.id = s.id

(* A set is destroyed only when nobody needs it: not while a node holds    *)
(* it, nor before the response reaches the living stream it is for         *)
(* (resource_set_destroy_node).                                            *)
DestroysUnneeded ==
  \A q \in ToSet(toMurphy) : q.kind = "DESTROY" =>
    /\ \A n \in Live : rsetid[n] # q.id
    /\ \A s \in sets : s.id = q.id /\ s.node \in Stream => s.node \notin Live

(* Murphy stays up from some time on.                                      *)
MurphyStays == <>[]murphy

(* Every stream with a resource definition gets its set, whenever it comes *)
(* and however often the connection breaks (connect_attempt,               *)
(* resource_set_create_all), unless Murphy refuses or it ends before.      *)
StreamsServed ==
  MurphyStays =>
    \A n \in Stream \cap Wants :
      life[n] = "live" ~> rsetid[n] # 0 \/ life[n] = "gone" \/ n \in refused \/ aborted

(* Murphy does not keep a set for a stream that has ended, even if the     *)
(* response came after its end.                                            *)
OrphansDestroyed ==
  \A n \in Stream :
    life[n] = "gone" ~> (aborted \/ \A s \in sets : s.node # n)

(* The link implements what it promises the streams.                       *)
Promise == INSTANCE OneSet WITH
  Holder <- Stream,
  state <- [n \in Stream |-> life[n]],
  holds <- [n \in Stream |-> rsetid[n]]
PromiseKept == Promise!OneSetSpec

(* What the log of resource_set_destroy_all says of the set of a node      *)
(* whose connection is lost, "destroying resource set for '%s'": after     *)
(* that resource.c has no entry for the node, so none is left when the     *)
(* node is freed.                                                          *)
EntriesAlive == \A n \in Stream : known[n] # 0 => life[n] = "live"

(* The assertion of pa_murphyif_create_resource_set, that a node for which *)
(* a set is to be created has none.                                        *)
CreatesWithoutSet == ~aborted
=============================================================================
