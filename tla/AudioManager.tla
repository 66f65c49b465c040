---------------------------- MODULE AudioManager ----------------------------
(***************************************************************************)
(* audiomgr.c and dbusif.c: how the nodes are made known to the GENIVI     *)
(* audio manager, and how the explicit routes it asks for, and those of    *)
(* the clients of extapi.c, come and go.                                   *)
(*                                                                         *)
(* The module and the audio manager talk over D-Bus: messages of one       *)
(* sender arrive in the order they were sent, the bus tells when the       *)
(* audio manager takes or loses its name, and a call that nobody answers   *)
(* ends with an error, on which the code does nothing but log.  A call     *)
(* goes to whoever owns the name when the bus comes to it.                 *)
(*                                                                         *)
(* Only nodes of the classes that pa_audiomgr_register_node knows are in   *)
(* the model.  A node is named by its index, which is never used again.    *)
(***************************************************************************)
EXTENDS Naturals, Sequences, SequencesExt, FiniteSets, FiniteSetsExt, Functions

CONSTANTS
  Key,           \* keys of nodes: two nodes with one key never exist together
  DirOf,         \* [Key -> {"input", "output"}]
  Gateway,       \* keys of gateways: registered with the domain even if unavailable
  AcceptsTwice,  \* does the audio manager accept a domain that it has already?
  AmIds,         \* how many ids an uint16_t holds
  MaxNodes,      \* bound: nodes made
  MaxEvents,     \* bound: events outside the two message queues
  None           \* AM_ID_INVALID, or no entry

Dir == {"input", "output"}
Owner == {"am", "ext"}

ASSUME AudioManagerConfig ==
  /\ DirOf \in [Key -> Dir] /\ Gateway \subseteq Key
  /\ AcceptsTwice \in BOOLEAN /\ AmIds \in Nat \ {0}
  /\ MaxNodes \in Nat /\ MaxEvents \in Nat
  /\ None \notin Nat /\ None \notin Key

VARIABLES
  nodes,     \* Seq of nodes by index: [key, living, available, withheld, amid]
             \* (withheld is of the properties, not of the code, see Due)
  hash,      \* am->nodes: <<direction, id>> to the index of a node
  domain,    \* am->domain: its id, or None while it is down
  amisup,    \* routerif->amisup
  connlist,  \* router->connlist: [ptr, owner, amid, from, to]
  conns,     \* the hash maps of connections: [owner -> (id to ptr)]
  extid,     \* extapi->conn_id
  toAM,      \* calls on their way to the audio manager
  fromAM,    \* what comes back: its answers and calls, and the bus's signals
  am,        \* the audio manager, see NewManager
  events     \* events so far, for the bound

module == <<nodes, hash, domain, amisup>>
routes == <<connlist, conns, extid>>
vars == <<nodes, hash, domain, amisup, connlist, conns, extid, toAM, fromAM, am, events>>

Living == {n \in DOMAIN nodes : nodes[n].living}
Direction(n) == DirOf[nodes[n].key]

(* pa_hashmap_put does nothing if the key is there; pa_hashmap_remove.     *)
Put(map, key, entry) ==
  [k \in DOMAIN map \cup {key} |-> IF k \in DOMAIN map THEN map[k] ELSE entry]
Drop(map, key) == Restrict(map, DOMAIN map \ {key})

Event == events < MaxEvents /\ events' = events + 1

-----------------------------------------------------------------------------
(* The audio manager, as far as the code relies on it: it answers in the   *)
(* order it was asked, refuses nodes of a domain it does not have, and     *)
(* does not give an id twice as long as it runs.                           *)

NewManager == [up |-> TRUE, domains |-> 0, complete |-> FALSE,
               reg |-> [d \in Dir |-> <<>>],  \* keys by id, None once deregistered
               conn |-> <<>>]                 \* connections by id: [auto, state]
NoManager == [NewManager EXCEPT !.up = FALSE]

DomainCall == [m |-> "domain"]
RegisterCall(k, dom) == [m |-> "register", key |-> k, domain |-> dom]
DeregisterCall(d, id) == [m |-> "deregister", dir |-> d, id |-> id]
ConnectAck(cid, ok) == [m |-> "connect_ack", conn |-> cid, ok |-> ok]

Init ==
  /\ nodes = <<>> /\ hash = <<>>
  /\ domain = None /\ amisup = FALSE
  /\ connlist = <<>> /\ conns = [o \in Owner |-> <<>>] /\ extid = 0
  /\ toAM = <<DomainCall>> /\ fromAM = <<>>       \* pa_routerif_init
  /\ am \in {NewManager, NoManager}
  /\ events = 0

AmStarts ==
  /\ ~am.up /\ Event
  /\ am' = NewManager
  /\ fromAM' = Append(fromAM, [m |-> "up"])
  /\ UNCHANGED <<module, routes, toAM>>

(* The calls it has received but not handled are lost with it.             *)
AmStops ==
  /\ am.up /\ Event
  /\ am' = NoManager
  /\ \E lost \in 0..Len(toAM) : toAM' = SubSeq(toAM, lost + 1, Len(toAM))
  /\ fromAM' = Append(fromAM, [m |-> "gone"])
  /\ UNCHANGED <<module, routes>>

(* The error the bus sends back changes nothing.                           *)
BusRefuses ==
  /\ ~am.up /\ toAM # <<>>
  /\ toAM' = Tail(toAM)
  /\ UNCHANGED <<module, routes, fromAM, am, events>>

Asked(kind) == am.up /\ toAM # <<>> /\ Head(toAM).m = kind /\ toAM' = Tail(toAM)

AmTakesDomain ==
  /\ Asked("domain")
  /\ IF am.domains = 0 \/ AcceptsTwice
     THEN /\ am' = [am EXCEPT !.domains = @ + 1]
          /\ fromAM' = Append(fromAM, [m |-> "domainIs", id |-> am.domains + 1])
     ELSE UNCHANGED <<am, fromAM>>
  /\ UNCHANGED <<module, routes, events>>

AmTakesComplete ==
  /\ Asked("complete")
  /\ am' = [am EXCEPT !.complete = am.domains > 0]
  /\ UNCHANGED <<module, routes, fromAM, events>>

AmTakesNode ==
  /\ Asked("register")
  /\ LET call == Head(toAM)
         d == DirOf[call.key]
     IN  IF call.domain \in 1..am.domains
         THEN /\ am' = [am EXCEPT !.reg[d] = Append(@, call.key)]
              /\ fromAM' = Append(fromAM, [m |-> "nodeIs", key |-> call.key,
                                           id |-> Len(am.reg[d]) + 1])
         ELSE UNCHANGED <<am, fromAM>>
  /\ UNCHANGED <<module, routes, events>>

AmDropsNode ==
  /\ Asked("deregister")
  /\ LET call == Head(toAM)
     IN  am' = IF call.id \in DOMAIN am.reg[call.dir]
               THEN [am EXCEPT !.reg[call.dir][call.id] = None]
               ELSE am
  /\ UNCHANGED <<module, routes, fromAM, events>>

AmTakesAck ==
  /\ Asked("connect_ack")
  /\ LET call == Head(toAM)
         live == call.conn \in DOMAIN am.conn /\ am.conn[call.conn].state # "ended"
     IN  am' = IF live THEN [am EXCEPT !.conn[call.conn].state = IF call.ok THEN "on" ELSE "off"]
               ELSE am
  /\ UNCHANGED <<module, routes, fromAM, events>>

(* It connects the nodes it has, and counts its connections.               *)
AmConnects ==
  /\ am.up /\ am.complete /\ Event
  /\ \E s \in DOMAIN am.reg["input"], t \in DOMAIN am.reg["output"], auto \in BOOLEAN :
       /\ am.reg["input"][s] # None /\ am.reg["output"][t] # None
       /\ am' = [am EXCEPT !.conn = Append(@, [auto |-> auto, state |-> "asked"])]
       /\ fromAM' = Append(fromAM, [m |-> "connect", conn |-> Len(am.conn) + 1,
                                    source |-> s, sink |-> t, auto |-> auto])
  /\ UNCHANGED <<module, routes, toAM>>

AmDisconnects ==
  /\ am.up /\ Event
  /\ \E cid \in DOMAIN am.conn :
       /\ am.conn[cid].state = "on"
       /\ am' = [am EXCEPT !.conn[cid].state = "ended"]
       /\ fromAM' = Append(fromAM, [m |-> "disconnect", conn |-> cid])
  /\ UNCHANGED <<module, routes, toAM>>

-----------------------------------------------------------------------------
(* Nodes.                                                                  *)

(* pa_audiomgr_register_node: the calls for these nodes.                   *)
Registrations(ns, dom) == [i \in DOMAIN ns |-> RegisterCall(ns[i], dom)]
RegisterNode(k) ==
  toAM' = IF domain = None THEN toAM ELSE toAM \o Registrations(<<k>>, domain)

(* pa_audiomgr_unregister_node: the node keeps its amid.                   *)
UnregisterNode(n) ==
  IF domain = None \/ nodes[n].amid = None
  THEN UNCHANGED <<hash, toAM>>
  ELSE /\ hash' = Drop(hash, <<Direction(n), nodes[n].amid>>)
       /\ toAM' = Append(toAM, DeregisterCall(Direction(n), nodes[n].amid))

(* create_node; the amid in the data is always AM_ID_INVALID.              *)
CreateNode(k, available) ==
  /\ Len(nodes) < MaxNodes /\ Event
  /\ \A n \in Living : nodes[n].key # k
  /\ nodes' = Append(nodes, [key |-> k, living |-> TRUE, available |-> available,
                             withheld |-> ~available, amid |-> None])
  /\ IF available THEN RegisterNode(k) ELSE UNCHANGED toAM
  /\ UNCHANGED <<hash, domain, amisup, routes, fromAM, am>>

DestroyNode(n) ==
  /\ Event
  /\ nodes' = [nodes EXCEPT ![n].living = FALSE]
  /\ UnregisterNode(n)
  /\ UNCHANGED <<domain, amisup, routes, fromAM, am>>

(* update_node_availability: the port of a device, never of a gateway.     *)
UpdateNodeAvailability(n) ==
  /\ nodes[n].key \notin Gateway /\ Event
  /\ nodes' = [nodes EXCEPT ![n].available = ~@, ![n].withheld = nodes[n].available]
  /\ IF nodes[n].available THEN UnregisterNode(n)
     ELSE RegisterNode(nodes[n].key) /\ UNCHANGED hash
  /\ UNCHANGED <<domain, amisup, routes, fromAM, am>>

(* Mutant: the node is unregistered when its sink goes, but no one         *)
(* registers it when that comes back.                                      *)
DeviceGoneTold(n) ==
  /\ nodes[n].key \notin Gateway /\ Event
  /\ nodes' = [nodes EXCEPT ![n].available = FALSE]
  /\ UnregisterNode(n)
  /\ UNCHANGED <<domain, amisup, routes, fromAM, am>>

(* pa_discover_remove_sink and _source, and a card switched off: a device  *)
(* of a card is not available any more, and nobody is told.                *)
DeviceGone(n) ==
  /\ nodes[n].key \notin Gateway /\ Event
  /\ nodes' = [nodes EXCEPT ![n].available = FALSE]
  /\ UNCHANGED <<hash, domain, amisup, routes, toAM, fromAM, am>>

(* pa_discover_add_sink and _source: it is back, and again nobody is told. *)
DeviceBack(n) ==
  /\ nodes[n].key \notin Gateway /\ Event
  /\ nodes' = [nodes EXCEPT ![n].available = TRUE]
  /\ UNCHANGED <<hash, domain, amisup, routes, toAM, fromAM, am>>

-----------------------------------------------------------------------------
(* What comes over the bus.                                                *)

Received(kind) == fromAM # <<>> /\ Head(fromAM).m = kind /\ fromAM' = Tail(fromAM)

(* handle_admin_message: the name has a new owner.                         *)
HandleUp ==
  /\ Received("up")
  /\ toAM' = IF amisup THEN toAM ELSE Append(toAM, DomainCall)
  /\ UNCHANGED <<module, routes, am, events>>

(* Mutant: the ids of the old audio manager stay.                          *)
UnregisterDomainKept == domain' = None /\ UNCHANGED <<nodes, hash>>

(* pa_audiomgr_unregister_domain.                                          *)
UnregisterDomain ==
  /\ nodes' = [n \in DOMAIN nodes |->
                 IF n \in Range(hash) THEN [nodes[n] EXCEPT !.amid = None] ELSE nodes[n]]
  /\ hash' = <<>>
  /\ domain' = None

(* Mutant: the audio manager is still believed to be there.                *)
HandleGoneStaysUp ==
  /\ Received("gone")
  /\ IF amisup THEN UnregisterDomain ELSE UNCHANGED <<nodes, hash, domain>>
  /\ UNCHANGED <<amisup, routes, toAM, am, events>>

(* handle_admin_message: the name has no owner any more.                   *)
HandleGone ==
  /\ Received("gone")
  /\ IF amisup THEN UnregisterDomain ELSE UNCHANGED <<nodes, hash, domain>>
  /\ amisup' = FALSE
  /\ UNCHANGED <<routes, toAM, am, events>>

(* pa_discover_domain_up: the nodes in any order.                          *)
Announced(n) == nodes[n].available \/ nodes[n].key \in Gateway
DomainUp(dom) ==
  LET known == {nodes[n].key : n \in {n \in Living : Announced(n)}}
  IN  /\ nodes' = [n \in DOMAIN nodes |->
                     IF n \in Living
                     THEN [nodes[n] EXCEPT !.amid = None, !.withheld = ~Announced(n)]
                     ELSE nodes[n]]
      /\ \E order \in SetToSeqs(known) :
           toAM' = toAM \o Append(Registrations(order, dom), [m |-> "complete"])

(* pa_audiomgr_domain_registered.                                          *)
DomainIs(dom) == domain' = dom /\ DomainUp(dom)

(* audiomgr_register_domain_cb.                                            *)
DomainRegistered ==
  /\ Received("domainIs")
  /\ amisup' = TRUE
  /\ DomainIs(Head(fromAM).id)
  /\ UNCHANGED <<hash, routes, am, events>>

(* Mutant: the key, not the node, is entered.                              *)
NodeRegisteredByKey ==
  /\ Received("nodeIs")
  /\ LET reply == Head(fromAM)
     IN  hash' = Put(hash, <<DirOf[reply.key], reply.id>>, reply.key)
  /\ UNCHANGED <<nodes, domain, amisup, routes, toAM, am, events>>

(* audiomgr_register_node_cb and pa_audiomgr_node_registered: the node is  *)
(* looked up by its key, whatever has happened to it since.                *)
NodeRegistered ==
  /\ Received("nodeIs")
  /\ LET reply == Head(fromAM)
         found == {n \in Living : nodes[n].key = reply.key}
     IN  /\ nodes' = [n \in DOMAIN nodes |->
                        IF n \in found THEN [nodes[n] EXCEPT !.amid = reply.id] ELSE nodes[n]]
         /\ hash' = IF found = {} THEN hash
                    ELSE Put(hash, <<DirOf[reply.key], reply.id>>, CHOOSE n \in found : TRUE)
  /\ UNCHANGED <<domain, amisup, routes, toAM, am, events>>

-----------------------------------------------------------------------------
(* Explicit routes.                                                        *)

Pointers == {connlist[i].ptr : i \in DOMAIN connlist}
NewPointer == CHOOSE p \in 1..Len(connlist) + 1 : p \notin Pointers

(* The connection has 16 bits of the id, which those of the clients        *)
(* outgrow; the hash map has it all.                                       *)
AmidOf(owner, id) == IF owner = "ext" THEN id % AmIds ELSE id

(* mir_router_add_explicit_route, up to the routing pass.                  *)
AddRoute(owner, id, from, to) ==
  /\ connlist' = Append(connlist, [ptr |-> NewPointer, owner |-> owner,
                                   amid |-> AmidOf(owner, id), from |-> from, to |-> to])
  /\ conns' = [conns EXCEPT ![owner] = Put(@, id, NewPointer)]

Unlinked(ptr) == RemoveAt(connlist, CHOOSE i \in DOMAIN connlist : connlist[i].ptr = ptr)

(* Mutant: the connection stays in the hash map.                           *)
RemoveRouteKept(owner, id) ==
  /\ connlist' = Unlinked(conns[owner][id])
  /\ UNCHANGED conns

(* mir_router_remove_explicit_route, and the removal from the hash map.    *)
RemoveRoute(owner, id) ==
  /\ connlist' = Unlinked(conns[owner][id])
  /\ conns' = [conns EXCEPT ![owner] = Drop(@, id)]

(* An entry whose node is freed: whatever index the memory holds.          *)
IndexOf(n) == IF n \in Living THEN {n} ELSE DOMAIN nodes

(* Mutant: a connection to nodes that are not there is acknowledged.       *)
ConnectAlwaysOK ==
  /\ Received("connect")
  /\ LET cd == Head(fromAM)
         from == <<"input", cd.source>>
         to == <<"output", cd.sink>>
         ok == {from, to} \subseteq DOMAIN hash
     IN  /\ IF ok /\ ~cd.auto
            THEN \E f \in IndexOf(hash[from]), t \in IndexOf(hash[to]) :
                   AddRoute("am", cd.conn, f, t)
            ELSE UNCHANGED <<connlist, conns>>
         /\ toAM' = Append(toAM, ConnectAck(cd.conn, TRUE))
  /\ UNCHANGED <<module, extid, am, events>>

(* routerif_connect and pa_audiomgr_connect.                               *)
Connect ==
  /\ Received("connect")
  /\ LET cd == Head(fromAM)
         from == <<"input", cd.source>>
         to == <<"output", cd.sink>>
         ok == {from, to} \subseteq DOMAIN hash
     IN  /\ IF ok /\ ~cd.auto
            THEN \E f \in IndexOf(hash[from]), t \in IndexOf(hash[to]) :
                   AddRoute("am", cd.conn, f, t)
            ELSE UNCHANGED <<connlist, conns>>
         /\ toAM' = Append(toAM, ConnectAck(cd.conn, ok \/ cd.auto))
  /\ UNCHANGED <<module, extid, am, events>>

(* routerif_disconnect and pa_audiomgr_disconnect; the audio manager has   *)
(* ended the connection already and ignores the acknowledgement.           *)
Disconnect ==
  /\ Received("disconnect")
  /\ LET cid == Head(fromAM).conn
     IN  IF cid \in DOMAIN conns["am"] THEN RemoveRoute("am", cid)
         ELSE UNCHANGED <<connlist, conns>>
  /\ UNCHANGED <<module, extid, toAM, am, events>>

(* extension_cb, SUBCOMMAND_CONNECT: a client names nodes by index.  Their *)
(* directions are not looked at here, but mir_switch_setup_link asserts    *)
(* them in the pass that mir_router_add_explicit_route runs: the server    *)
(* does not live to reach another state, and no step stands for that.      *)
ExtConnect ==
  /\ Event
  /\ \E f, t \in Living :
       /\ Direction(f) = "input" /\ Direction(t) = "output"
       /\ AddRoute("ext", extid, f, t)
  /\ extid' = extid + 1
  /\ UNCHANGED <<module, toAM, fromAM, am>>

(* There is no node of that index, but the id is spent.                    *)
ExtConnectFails ==
  /\ Event
  /\ extid' = extid + 1
  /\ UNCHANGED <<module, connlist, conns, toAM, fromAM, am>>

(* SUBCOMMAND_DISCONNECT: any client may end a connection it knows of.     *)
ExtDisconnect ==
  /\ Event
  /\ \E id \in DOMAIN conns["ext"] : RemoveRoute("ext", id)
  /\ UNCHANGED <<module, extid, toAM, fromAM, am>>

-----------------------------------------------------------------------------
Manager == \/ AmTakesDomain \/ AmTakesComplete \/ AmTakesNode \/ AmDropsNode
           \/ AmTakesAck \/ BusRefuses
Messages == \/ HandleUp \/ HandleGone \/ DomainRegistered \/ NodeRegistered
            \/ Connect \/ Disconnect
NodeEvents == \/ \E k \in Key, available \in BOOLEAN :
                   (k \in Gateway => available) /\ CreateNode(k, available)
              \/ \E n \in Living : \/ DestroyNode(n) \/ UpdateNodeAvailability(n)
                                  \/ DeviceGone(n) \/ DeviceBack(n)
Next == \/ Manager \/ Messages \/ NodeEvents
        \/ AmStarts \/ AmStops \/ AmConnects \/ AmDisconnects
        \/ ExtConnect \/ ExtConnectFails \/ ExtDisconnect

Spec == Init /\ [][Next]_vars

(* Messages arrive and are answered.                                       *)
FairSpec == Spec /\ WF_vars(Manager) /\ WF_vars(Messages)

-----------------------------------------------------------------------------
Node == [key : Key, living : BOOLEAN, available : BOOLEAN, withheld : BOOLEAN,
         amid : Nat \cup {None}]
Call == {DomainCall} \cup [m : {"complete"}]
        \cup [m : {"register"}, key : Key, domain : Nat]
        \cup [m : {"deregister"}, dir : Dir, id : Nat]
        \cup [m : {"connect_ack"}, conn : Nat, ok : BOOLEAN]
Reply == [m : {"up", "gone"}]
         \cup [m : {"domainIs"}, id : Nat]
         \cup [m : {"nodeIs"}, key : Key, id : Nat]
         \cup [m : {"connect"}, conn : Nat, source : Nat, sink : Nat, auto : BOOLEAN]
         \cup [m : {"disconnect"}, conn : Nat]
Connection == [auto : BOOLEAN, state : {"asked", "on", "off", "ended"}]
ManagerState == [up : BOOLEAN, domains : Nat, complete : BOOLEAN,
                 reg : [Dir -> Seq(Key \cup {None})], conn : Seq(Connection)]
Route == [ptr : Nat, owner : Owner, amid : Nat, from : DOMAIN nodes, to : DOMAIN nodes]

TypeOK ==
  /\ nodes \in Seq(Node)
  /\ hash \in [DOMAIN hash -> DOMAIN nodes] /\ DOMAIN hash \subseteq Dir \X Nat
  /\ domain \in Nat \cup {None} /\ amisup \in BOOLEAN
  /\ connlist \in Seq(Route)
  /\ DOMAIN conns = Owner
  /\ \A o \in Owner : conns[o] \in [DOMAIN conns[o] -> Nat] /\ DOMAIN conns[o] \subseteq Nat
  /\ toAM \in Seq(Call) /\ fromAM \in Seq(Reply)
  /\ am \in ManagerState
  /\ extid \in Nat /\ events \in 0..MaxEvents

(* A connection that can be ended by its id is one that exists, has that   *)
(* id and owner, and is not known by another id: disconnecting never frees *)
(* a connection twice nor unlinks somebody else's.                         *)
ConnsFaithful ==
  /\ \A o \in DOMAIN conns : \A id \in DOMAIN conns[o] :
       \E i \in DOMAIN connlist :
         /\ connlist[i].ptr = conns[o][id]
         /\ connlist[i].owner = o /\ connlist[i].amid = AmidOf(o, id)
  /\ \A o \in DOMAIN conns : \A x, y \in DOMAIN conns[o] : conns[o][x] = conns[o][y] => x = y
  /\ \A i, j \in DOMAIN connlist : connlist[i].ptr = connlist[j].ptr => i = j

(* While the domain is down no id of the audio manager leads to a node,    *)
(* however late an answer of the old one came.                             *)
DownForgets == domain = None => hash = <<>> /\ ~amisup

Quiet == toAM = <<>> /\ fromAM = <<>>

(* A node is withheld that was not available when the domain came up or    *)
(* when it was made, or whose port went since and has not come back.       *)
(* While its sink comes and goes, its node does not change in this: what   *)
(* became available with its sink alone stays unknown to the audio         *)
(* manager, for want of a pa_audiomgr_register_node in                     *)
(* pa_discover_add_sink, and what went with its sink stays known.          *)
Due(n) == n \in Living /\ ~nodes[n].withheld

(* When all messages have arrived and the audio manager runs, every node   *)
(* that is not withheld has an id that leads to it and that means this     *)
(* node to the audio manager, however often it was restarted, whatever     *)
(* happened to the nodes while their registrations were under way, and     *)
(* however often their sinks went and came back.                           *)
AvailableKnown ==
  Quiet /\ am.up =>
    \A n \in Living :
      Due(n) =>
        LET id == nodes[n].amid
            d == Direction(n)
        IN  /\ id # None /\ <<d, id>> \in DOMAIN hash /\ hash[<<d, id>>] = n
            /\ am.reg[d][id] = nodes[n].key

(* A connection that the audio manager was told is there, and has not      *)
(* ended, has a route, unless it was told so by an answer to the audio     *)
(* manager before it, which is put right when its own call is answered.    *)
Asks(i, cid) == fromAM[i].m = "connect" /\ fromAM[i].conn = cid
ConnectedIsRouted ==
  \A cid \in DOMAIN am.conn :
    am.conn[cid].state = "on" /\ ~am.conn[cid].auto =>
      \/ \E i \in DOMAIN connlist : connlist[i].owner = "am" /\ connlist[i].amid = cid
      \/ \E i \in DOMAIN fromAM : Asks(i, cid)
      \/ ConnectAck(cid, FALSE) \in ToSet(toAM)

(* A node that is available and not withheld gets known to the audio       *)
(* manager, unless one of them goes away.                                  *)
NodesAnnounced ==
  \A n \in 1..MaxNodes :
    LET Wanted == Due(n) /\ nodes[n].available /\ am.up
        Known == /\ nodes[n].amid # None
                 /\ nodes[n].key \in Range(am.reg[Direction(n)])
    IN  (n \in DOMAIN nodes /\ Wanted) ~> (~Wanted \/ Known)

=============================================================================
