------------------------- MODULE AudioManagerProofs -------------------------
(***************************************************************************)
(* Proofs about AudioManager, for any nodes, whatever the audio manager    *)
(* asks for, and however often and wherever it is restarted.               *)
(***************************************************************************)
EXTENDS AudioManager, SequenceTheorems, FiniteSetTheorems, TLAPS

-----------------------------------------------------------------------------
(* Lists, by position.                                                     *)

LEMMA ListAt ==
  ASSUME NEW T, NEW list \in Seq(T)
  PROVE  /\ Len(list) \in Nat /\ DOMAIN list = 1 .. Len(list)
         /\ \A j \in DOMAIN list : list[j] \in T
BY LenProperties, ElementOfSeq

LEMMA AppendAt ==
  ASSUME NEW T, NEW list \in Seq(T), NEW e \in T
  PROVE  /\ Append(list, e) \in Seq(T)
         /\ Len(list) \in Nat /\ DOMAIN list = 1 .. Len(list)
         /\ Len(Append(list, e)) = Len(list) + 1
         /\ DOMAIN Append(list, e) = 1 .. Len(list) + 1
         /\ \A j \in 1 .. Len(list) : Append(list, e)[j] = list[j]
         /\ Append(list, e)[Len(list) + 1] = e
<1> DEFINE longer == Append(list, e)
<1>1. /\ longer \in Seq(T) /\ Len(longer) = Len(list) + 1
      /\ \A j \in 1 .. Len(list) : longer[j] = list[j]
      /\ longer[Len(list) + 1] = e
  BY AppendProperties
<1>2. DOMAIN longer = 1 .. Len(longer) /\ DOMAIN list = 1 .. Len(list) /\ Len(list) \in Nat
  BY <1>1, LenProperties
<1> HIDE DEF longer
<1> QED
  BY <1>1, <1>2 DEF longer

LEMMA TailAt ==
  ASSUME NEW T, NEW list \in Seq(T), list # <<>>
  PROVE  /\ Len(list) \in Nat \ {0} /\ DOMAIN list = 1 .. Len(list)
         /\ Head(list) \in T /\ Head(list) = list[1]
         /\ Tail(list) \in Seq(T)
         /\ Len(Tail(list)) = Len(list) - 1
         /\ DOMAIN Tail(list) = 1 .. Len(list) - 1
         /\ \A j \in 1 .. Len(list) - 1 : Tail(list)[j] = list[j + 1]
<1>1. /\ Head(list) \in T /\ Tail(list) \in Seq(T)
      /\ Len(Tail(list)) = Len(list) - 1
      /\ \A j \in 1 .. Len(Tail(list)) : Tail(list)[j] = list[j + 1]
  BY HeadTailProperties
<1>2. /\ DOMAIN list = 1 .. Len(list) /\ DOMAIN Tail(list) = 1 .. Len(list) - 1
      /\ Len(list) \in Nat \ {0}
  BY <1>1, LenProperties, EmptySeq
<1>3. Head(list) = list[1]
  OBVIOUS
<1> QED
  BY <1>1, <1>2, <1>3

LEMMA ConcatAt ==
  ASSUME NEW T, NEW list \in Seq(T), NEW more \in Seq(T)
  PROVE  /\ list \o more \in Seq(T)
         /\ Len(list) \in Nat /\ Len(more) \in Nat
         /\ DOMAIN list = 1 .. Len(list) /\ DOMAIN more = 1 .. Len(more)
         /\ DOMAIN (list \o more) = 1 .. Len(list) + Len(more)
         /\ \A j \in 1 .. Len(list) + Len(more) :
              (list \o more)[j] = IF j <= Len(list) THEN list[j] ELSE more[j - Len(list)]
<1> DEFINE all == list \o more
<1>1. /\ all \in Seq(T) /\ Len(all) = Len(list) + Len(more)
      /\ \A j \in 1 .. Len(list) + Len(more) :
           all[j] = IF j <= Len(list) THEN list[j] ELSE more[j - Len(list)]
  BY ConcatProperties
<1> HIDE DEF all
<1>2. /\ DOMAIN all = 1 .. Len(all) /\ Len(list) \in Nat /\ Len(more) \in Nat
      /\ DOMAIN list = 1 .. Len(list) /\ DOMAIN more = 1 .. Len(more)
  BY <1>1, LenProperties
<1> QED
  BY <1>1, <1>2 DEF all

(* What comes after a place in a list.                                     *)
LEMMA LastAt ==
  ASSUME NEW T, NEW list \in Seq(T), NEW n \in 0 .. Len(list)
  PROVE  SubSeq(list, n + 1, Len(list)) \in Seq(T)
<1>1. \A j \in n + 1 .. Len(list) : list[j] \in T
  BY ListAt
<1> QED
  BY <1>1, ListAt, SubSeqProperties

LEMMA FirstAt ==
  ASSUME NEW T, NEW list \in Seq(T), NEW n \in 0 .. Len(list)
  PROVE  /\ SubSeq(list, 1, n) \in Seq(T) /\ Len(SubSeq(list, 1, n)) = n
         /\ \A j \in 1 .. n : SubSeq(list, 1, n)[j] = list[j]
<1>1. \A j \in 1 .. n : list[j] \in T
  BY ListAt
<1> QED
  BY <1>1, ListAt, SubSeqProperties

(* The elements of a list of which one is removed are the others, in their *)
(* order.                                                                  *)
LEMMA RemoveAtAt ==
  ASSUME NEW T, NEW list \in Seq(T), NEW k \in DOMAIN list
  PROVE  /\ RemoveAt(list, k) \in Seq(T)
         /\ DOMAIN RemoveAt(list, k) = 1 .. Len(list) - 1
         /\ \A j \in 1 .. Len(list) - 1 :
              RemoveAt(list, k)[j] = IF j < k THEN list[j] ELSE list[j + 1]
<1> DEFINE before == SubSeq(list, 1, k - 1)
           after == SubSeq(list, k + 1, Len(list))
<1>1. Len(list) \in Nat /\ DOMAIN list = 1 .. Len(list) /\ k \in 1 .. Len(list)
  BY ListAt
<1>2. /\ before \in Seq(T) /\ Len(before) = k - 1
      /\ \A j \in 1 .. k - 1 : before[j] = list[j]
  BY <1>1, FirstAt
<1>3. /\ after \in Seq(T) /\ Len(after) = Len(list) - k
      /\ \A j \in 1 .. Len(list) - k : after[j] = list[k + j]
  <2>1. \A j \in k + 1 .. Len(list) : list[j] \in T
    BY <1>1, ListAt
  <2>2. /\ after \in Seq(T)
        /\ Len(after) = IF k + 1 <= Len(list) THEN Len(list) - (k + 1) + 1 ELSE 0
        /\ \A j \in 1 .. Len(list) - (k + 1) + 1 : after[j] = list[k + 1 + j - 1]
    BY <1>1, <2>1, SubSeqProperties
  <2> HIDE DEF after
  <2>3. Len(after) = Len(list) - k
    BY <1>1, <2>2
  <2>4. ASSUME NEW j \in 1 .. Len(list) - k PROVE after[j] = list[k + j]
    <3>1. j \in 1 .. Len(list) - (k + 1) + 1 /\ k + 1 + j - 1 = k + j
      BY <1>1
    <3> QED
      BY <2>2, <3>1
  <2> QED
    BY <2>2, <2>3, <2>4
<1>4. RemoveAt(list, k) = before \o after
  BY DEF RemoveAt
<1> HIDE DEF before, after
<1>5. /\ before \o after \in Seq(T)
      /\ DOMAIN (before \o after) = 1 .. (k - 1) + (Len(list) - k)
      /\ \A j \in 1 .. (k - 1) + (Len(list) - k) :
           (before \o after)[j] = IF j <= k - 1 THEN before[j] ELSE after[j - (k - 1)]
  BY <1>2, <1>3, ConcatAt
<1>6. (k - 1) + (Len(list) - k) = Len(list) - 1
  BY <1>1
<1>7. ASSUME NEW j \in 1 .. Len(list) - 1
      PROVE  (before \o after)[j] = IF j < k THEN list[j] ELSE list[j + 1]
  <2>1. CASE j < k
    BY <1>1, <1>2, <1>5, <1>6, <2>1
  <2>2. CASE ~(j < k)
    <3>1. j - (k - 1) \in 1 .. Len(list) - k /\ k + (j - (k - 1)) = j + 1
      BY <1>1, <2>2
    <3>2. (before \o after)[j] = after[j - (k - 1)]
      BY <1>1, <1>5, <1>6, <2>2
    <3> QED
      BY <1>3, <2>2, <3>1, <3>2
  <2> QED
    BY <2>1, <2>2
<1> QED
  BY <1>4, <1>5, <1>6, <1>7

-----------------------------------------------------------------------------
(* The helpers of the model.                                               *)

LEMMA PutType ==
  ASSUME NEW D, NEW T, NEW map \in [D -> T], NEW key, NEW entry \in T
  PROVE  /\ Put(map, key, entry) \in [D \cup {key} -> T]
         /\ DOMAIN Put(map, key, entry) = D \cup {key}
         /\ \A k \in D : Put(map, key, entry)[k] = map[k]
         /\ key \notin D => Put(map, key, entry)[key] = entry
BY DEF Put

LEMMA DropType ==
  ASSUME NEW D, NEW T, NEW map \in [D -> T], NEW key
  PROVE  /\ Drop(map, key) \in [D \ {key} -> T]
         /\ DOMAIN Drop(map, key) = D \ {key}
         /\ \A k \in D \ {key} : Drop(map, key)[k] = map[k]
BY DEF Drop, Restrict

(* A list changed in place.                                                *)
LEMMA EachAt ==
  ASSUME NEW T, NEW list \in Seq(T), NEW new,
         DOMAIN new = DOMAIN list, new = [j \in DOMAIN list |-> new[j]],
         \A j \in DOMAIN list : new[j] \in T
  PROVE  new \in Seq(T)
<1>1. Len(list) \in Nat /\ DOMAIN list = 1 .. Len(list)
  BY ListAt
<1>2. new \in [1 .. Len(list) -> T]
  BY <1>1
<1> QED
  BY <1>1, <1>2, SeqDef

(* There is memory for one more connection: n of them are not at n + 1     *)
(* places.                                                                 *)
LEMMA PointerFree ==
  ASSUME NEW T, connlist \in Seq(T)
  PROVE  NewPointer \in Nat /\ NewPointer \notin Pointers
<1> DEFINE places == 1 .. Len(connlist) + 1
           At == [i \in 1 .. Len(connlist) |-> connlist[i].ptr]
<1>1. Len(connlist) \in Nat /\ DOMAIN connlist = 1 .. Len(connlist)
  BY ListAt
<1>2. IsFiniteSet(1 .. Len(connlist)) /\ Cardinality(1 .. Len(connlist)) = Len(connlist)
  BY <1>1, FS_Interval
<1>3. IsFiniteSet(places) /\ Cardinality(places) = Len(connlist) + 1
  BY <1>1, FS_Interval
<1>4. At \in Surjection(1 .. Len(connlist), Pointers)
  BY <1>1 DEF Pointers, Surjection
<1>5. IsFiniteSet(Pointers) /\ Cardinality(Pointers) <= Len(connlist)
  BY <1>2, <1>4, FS_Surjection
<1> HIDE DEF places, At
<1>6. ~(places \subseteq Pointers)
  <2>1. ASSUME places \in SUBSET Pointers PROVE FALSE
    <3>1. Cardinality(places) <= Cardinality(Pointers)
      BY <1>5, <2>1, FS_Subset
    <3>2. Cardinality(Pointers) \in Nat
      BY <1>5, FS_CardinalityType
    <3> QED
      BY <1>1, <1>3, <1>5, <3>1, <3>2
  <2> QED
    BY <2>1
<1>7. PICK p \in places : p \notin Pointers
  BY <1>6
<1>8. NewPointer \in places /\ NewPointer \notin Pointers
  BY <1>7 DEF NewPointer, places
<1> QED
  BY <1>1, <1>8 DEF places

(* A domain's nodes are registered one after the other.                    *)
LEMMA RegistrationsType ==
  ASSUME NEW ns \in Seq(Key), NEW dom \in Nat
  PROVE  Registrations(ns, dom) \in Seq(Call)
<1>1. Len(ns) \in Nat /\ DOMAIN ns = 1 .. Len(ns) /\ \A j \in DOMAIN ns : ns[j] \in Key
  BY ListAt
<1>2. \A j \in 1 .. Len(ns) : RegisterCall(ns[j], dom) \in Call
  BY <1>1 DEF RegisterCall, Call
<1>3. Registrations(ns, dom) \in [1 .. Len(ns) -> Call]
  BY <1>1, <1>2 DEF Registrations
<1> QED
  BY <1>1, <1>3, SeqDef

(* The nodes that are announced, in an order, are a list.                  *)
LEMMA OrderType ==
  ASSUME NEW T, nodes \in Seq(T), NEW which \in SUBSET DOMAIN nodes,
         NEW order \in SetToSeqs({nodes[n].key : n \in which}),
         \A n \in which : nodes[n].key \in Key
  PROVE  order \in Seq(Key)
<1> DEFINE known == {nodes[n].key : n \in which}
           KeyAt == [n \in which |-> nodes[n].key]
<1>1. Len(nodes) \in Nat /\ DOMAIN nodes = 1 .. Len(nodes)
  BY ListAt
<1>2. IsFiniteSet(which)
  <2>1. IsFiniteSet(1 .. Len(nodes)) /\ which \in SUBSET (1 .. Len(nodes))
    BY <1>1, FS_Interval
  <2> QED
    BY <2>1, FS_Subset
<1>3. KeyAt \in Surjection(which, known)
  BY DEF Surjection
<1>4. IsFiniteSet(known)
  BY <1>2, <1>3, FS_Surjection
<1>5. Cardinality(known) \in Nat
  BY <1>4, FS_CardinalityType
<1>6. order \in [1 .. Cardinality(known) -> known]
  BY DEF SetToSeqs
<1>7. known \subseteq Key
  OBVIOUS
<1> HIDE DEF known
<1>8. order \in [1 .. Cardinality(known) -> Key]
  BY <1>6, <1>7
<1> QED
  BY <1>5, <1>8, SeqDef

-----------------------------------------------------------------------------
(* What a message says.                                                    *)

LEMMA CallTypes ==
  /\ DomainCall \in Call
  /\ [m |-> "complete"] \in Call
  /\ \A k \in Key, dom \in Nat : RegisterCall(k, dom) \in Call
  /\ \A d \in Dir, id \in Nat : DeregisterCall(d, id) \in Call
  /\ \A cid \in Nat, ok \in BOOLEAN : ConnectAck(cid, ok) \in Call
BY DEF Call, DomainCall, RegisterCall, DeregisterCall, ConnectAck

LEMMA CallSays ==
  ASSUME NEW call \in Call
  PROVE  /\ call.m = "register" => call.key \in Key /\ call.domain \in Nat
         /\ call.m = "deregister" => call.dir \in Dir /\ call.id \in Nat
         /\ call.m = "connect_ack" =>
              /\ call.conn \in Nat /\ call.ok \in BOOLEAN
              /\ call = ConnectAck(call.conn, call.ok)
BY DEF Call, DomainCall, ConnectAck

LEMMA ReplyTypes ==
  /\ [m |-> "up"] \in Reply /\ [m |-> "gone"] \in Reply
  /\ \A n \in Nat : [m |-> "domainIs", id |-> n] \in Reply
  /\ \A k \in Key, n \in Nat : [m |-> "nodeIs", key |-> k, id |-> n] \in Reply
  /\ \A cid, s, t \in Nat, auto \in BOOLEAN :
       [m |-> "connect", conn |-> cid, source |-> s, sink |-> t, auto |-> auto] \in Reply
  /\ \A cid \in Nat : [m |-> "disconnect", conn |-> cid] \in Reply
BY DEF Reply

LEMMA ReplySays ==
  ASSUME NEW reply \in Reply
  PROVE  /\ reply.m = "domainIs" => reply.id \in Nat
         /\ reply.m = "nodeIs" => reply.key \in Key /\ reply.id \in Nat
         /\ reply.m = "connect" =>
              /\ reply.conn \in Nat /\ reply.source \in Nat /\ reply.sink \in Nat
              /\ reply.auto \in BOOLEAN
         /\ reply.m = "disconnect" => reply.conn \in Nat
BY DEF Reply

-----------------------------------------------------------------------------
(* The type invariant, in parts.                                           *)

NodesFine == nodes \in Seq(Node)
HashFine == hash \in [DOMAIN hash -> DOMAIN nodes] /\ DOMAIN hash \subseteq Dir \X Nat
ConnsFine ==
  /\ DOMAIN conns = Owner
  /\ \A o \in Owner : conns[o] \in [DOMAIN conns[o] -> Nat] /\ DOMAIN conns[o] \subseteq Nat
RoutesFine == connlist \in Seq(Route) /\ ConnsFine /\ extid \in Nat
ModuleFine == domain \in Nat \cup {None} /\ amisup \in BOOLEAN
MailFine == toAM \in Seq(Call) /\ fromAM \in Seq(Reply)
OutsideFine == am \in ManagerState /\ events \in 0 .. MaxEvents

LEMMA Parts ==
  TypeOK <=> /\ NodesFine /\ HashFine /\ RoutesFine /\ ModuleFine
             /\ MailFine /\ OutsideFine
BY DEF TypeOK, NodesFine, HashFine, ConnsFine, RoutesFine, ModuleFine, MailFine, OutsideFine

LEMMA PartsNext ==
  TypeOK' <=> (/\ NodesFine /\ HashFine /\ RoutesFine /\ ModuleFine
               /\ MailFine /\ OutsideFine)'
BY DEF TypeOK, NodesFine, HashFine, ConnsFine, RoutesFine, ModuleFine, MailFine, OutsideFine

(* Nodes are added and change, but their places stay.                      *)
LEMMA PlacesStay ==
  ASSUME HashFine, RoutesFine, DOMAIN nodes \subseteq DOMAIN nodes',
         UNCHANGED <<hash, routes>>
  PROVE  HashFine' /\ RoutesFine'
<1>1. HashFine'
  BY DEF HashFine
<1>2. Route \subseteq Route'
  BY DEF Route
<1>3. connlist \in Seq(Route')
  BY <1>2, SeqMonotonic DEF RoutesFine
<1>4. (connlist \in Seq(Route))'
  BY <1>3 DEF routes
<1>5. (ConnsFine /\ extid \in Nat)'
  BY DEF RoutesFine, ConnsFine, routes
<1> QED
  BY <1>1, <1>4, <1>5 DEF RoutesFine

LEMMA RoutesStay ==
  ASSUME RoutesFine, DOMAIN nodes \subseteq DOMAIN nodes', UNCHANGED routes
  PROVE  RoutesFine'
<1>1. Route \subseteq Route'
  BY DEF Route
<1>2. connlist \in Seq(Route')
  BY <1>1, SeqMonotonic DEF RoutesFine
<1>3. (connlist \in Seq(Route))'
  BY <1>2 DEF routes
<1>4. (ConnsFine /\ extid \in Nat)'
  BY DEF RoutesFine, ConnsFine, routes
<1> QED
  BY <1>3, <1>4 DEF RoutesFine

LEMMA NodesAt ==
  ASSUME NodesFine
  PROVE  /\ Len(nodes) \in Nat /\ DOMAIN nodes = 1 .. Len(nodes)
         /\ \A n \in DOMAIN nodes : /\ nodes[n] \in Node /\ nodes[n].key \in Key
                                    /\ nodes[n].living \in BOOLEAN
                                    /\ nodes[n].amid \in Nat \cup {None}
                                    /\ Direction(n) \in Dir
         /\ Living \subseteq DOMAIN nodes
<1>1. nodes \in Seq(Node)
  BY DEF NodesFine
<1>2. /\ Len(nodes) \in Nat /\ DOMAIN nodes = 1 .. Len(nodes)
      /\ \A n \in DOMAIN nodes : nodes[n] \in Node
  BY <1>1, ListAt
<1> QED
  BY <1>2, AudioManagerConfig DEF Node, Living, Direction

LEMMA MailAt ==
  ASSUME MailFine
  PROVE  /\ toAM # <<>> => Head(toAM) \in Call /\ Tail(toAM) \in Seq(Call)
         /\ fromAM # <<>> => Head(fromAM) \in Reply /\ Tail(fromAM) \in Seq(Reply)
BY TailAt DEF MailFine

LEMMA EventCounted ==
  ASSUME events \in 0 .. MaxEvents, Event
  PROVE  events' \in 0 .. MaxEvents
BY AudioManagerConfig DEF Event

LEMMA ManagerTypes ==
  NewManager \in ManagerState /\ NoManager \in ManagerState
<1>1. <<>> \in Seq(Key \cup {None}) /\ <<>> \in Seq(Connection)
  OBVIOUS
<1>2. NewManager \in ManagerState
  BY <1>1 DEF NewManager, ManagerState
<1>3. NoManager \in ManagerState
  BY <1>2 DEF NoManager, ManagerState
<1> QED
  BY <1>2, <1>3

-----------------------------------------------------------------------------
(* Every action keeps the types.                                           *)

LEMMA TypeManager ==
  ASSUME TypeOK,
         Manager \/ AmStarts \/ AmStops \/ AmConnects \/ AmDisconnects
  PROVE  TypeOK'
<1>0. /\ NodesFine /\ HashFine /\ RoutesFine /\ ModuleFine /\ MailFine /\ OutsideFine
      /\ UNCHANGED <<module, routes>>
  BY Parts DEF Manager, AmTakesDomain, AmTakesComplete, AmTakesNode, AmDropsNode,
     AmTakesAck, BusRefuses, AmStarts, AmStops, AmConnects, AmDisconnects
<1>1. (NodesFine /\ HashFine /\ RoutesFine /\ ModuleFine)'
  <2>1. UNCHANGED <<nodes, hash, domain, amisup, routes>>
    BY <1>0 DEF module
  <2>2. HashFine' /\ RoutesFine'
    BY <1>0, <2>1, PlacesStay
  <2> QED
    BY <1>0, <2>1, <2>2 DEF NodesFine, ModuleFine
<1>2. /\ toAM \in Seq(Call) /\ fromAM \in Seq(Reply)
      /\ am \in ManagerState /\ events \in 0 .. MaxEvents
  BY <1>0 DEF MailFine, OutsideFine
<1>3. ASSUME toAM' \in Seq(Call), fromAM' \in Seq(Reply),
             am' \in ManagerState, events' \in 0 .. MaxEvents
      PROVE  TypeOK'
  BY <1>1, <1>3, PartsNext DEF MailFine, OutsideFine
<1>4. ASSUME NEW kind, Asked(kind)
      PROVE  Head(toAM) \in Call /\ toAM' \in Seq(Call)
  BY <1>0, <1>4, MailAt DEF Asked
<1>5. CASE AmTakesDomain
  <2>1. toAM' \in Seq(Call)
    BY <1>4, <1>5 DEF AmTakesDomain
  <2> DEFINE reply == [m |-> "domainIs", id |-> am.domains + 1]
  <2>2. \/ am' = [am EXCEPT !.domains = @ + 1] /\ fromAM' = Append(fromAM, reply)
        \/ am' = am /\ fromAM' = fromAM
    BY <1>5 DEF AmTakesDomain
  <2>3. reply \in Reply
    BY <1>2, ReplyTypes DEF ManagerState
  <2> HIDE DEF reply
  <2>4. am' \in ManagerState
    <3>1. CASE am' = [am EXCEPT !.domains = @ + 1]
      <4>1. am.domains + 1 \in Nat
        BY <1>2 DEF ManagerState
      <4> QED
        BY <1>2, <3>1, <4>1 DEF ManagerState
    <3> QED
      BY <1>2, <2>2, <3>1
  <2>5. fromAM' \in Seq(Reply)
    BY <1>2, <2>2, <2>3, AppendAt
  <2> QED
    BY <1>2, <1>3, <1>5, <2>1, <2>4, <2>5 DEF AmTakesDomain
<1>6. CASE AmTakesComplete
  <2>1. toAM' \in Seq(Call)
    BY <1>4, <1>6 DEF AmTakesComplete
  <2>2. am' \in ManagerState
    <3> DEFINE has == am.domains > 0
    <3>1. has \in BOOLEAN /\ am' = [am EXCEPT !.complete = has]
      BY <1>6 DEF AmTakesComplete
    <3> HIDE DEF has
    <3> QED
      BY <1>2, <3>1 DEF ManagerState
  <2> QED
    BY <1>2, <1>3, <1>6, <2>1, <2>2 DEF AmTakesComplete
<1>7. CASE AmTakesNode
  <2> DEFINE call == Head(toAM)
             d == DirOf[call.key]
             reply == [m |-> "nodeIs", key |-> call.key, id |-> Len(am.reg[d]) + 1]
  <2>1. toAM' \in Seq(Call) /\ call \in Call /\ call.m = "register"
    BY <1>4, <1>7 DEF AmTakesNode, Asked
  <2>2. call.key \in Key /\ d \in Dir
    BY <2>1, CallSays, AudioManagerConfig
  <2>3. am.reg[d] \in Seq(Key \cup {None}) /\ Len(am.reg[d]) \in Nat
    BY <1>2, <2>2 DEF ManagerState
  <2>4. Append(am.reg[d], call.key) \in Seq(Key \cup {None})
    BY <2>2, <2>3, AppendAt
  <2>5. reply \in Reply
    BY <2>2, <2>3, ReplyTypes
  <2>6. CASE call.domain \in 1 .. am.domains
    <3>1. am' = [am EXCEPT !.reg[d] = Append(@, call.key)] /\ fromAM' = Append(fromAM, reply)
      BY <1>7, <2>6 DEF AmTakesNode
    <3>2. am' \in ManagerState
      BY <1>2, <2>2, <2>4, <3>1 DEF ManagerState
    <3>3. fromAM' \in Seq(Reply)
      BY <1>2, <2>5, <3>1, AppendAt
    <3> QED
      BY <1>2, <1>3, <1>7, <2>1, <3>2, <3>3 DEF AmTakesNode
  <2>7. CASE call.domain \notin 1 .. am.domains
    <3>1. am' = am /\ fromAM' = fromAM
      BY <1>7, <2>7 DEF AmTakesNode
    <3> QED
      BY <1>2, <1>3, <1>7, <2>1, <3>1 DEF AmTakesNode
  <2> QED
    BY <2>6, <2>7
<1>8. CASE AmDropsNode
  <2> DEFINE call == Head(toAM)
             gone == [am.reg[call.dir] EXCEPT ![call.id] = None]
  <2>1. toAM' \in Seq(Call) /\ call \in Call /\ call.m = "deregister"
    BY <1>4, <1>8 DEF AmDropsNode, Asked
  <2>2. call.dir \in Dir
    BY <2>1, CallSays
  <2>3. am.reg[call.dir] \in Seq(Key \cup {None})
    BY <1>2, <2>2 DEF ManagerState
  <2>4. gone \in Seq(Key \cup {None})
    <3>1. DOMAIN gone = DOMAIN am.reg[call.dir]
      OBVIOUS
    <3>2. \A j \in DOMAIN am.reg[call.dir] : gone[j] \in Key \cup {None}
      BY <2>3, ListAt
    <3>3. gone = [j \in DOMAIN am.reg[call.dir] |-> gone[j]]
      OBVIOUS
    <3> HIDE DEF gone
    <3> QED
      BY <2>3, <3>1, <3>2, <3>3, EachAt
  <2>5. am' \in ManagerState
    <3>1. CASE call.id \in DOMAIN am.reg[call.dir]
      <4>1. am' = [am EXCEPT !.reg[call.dir] = gone]
        BY <1>8, <3>1 DEF AmDropsNode
      <4> HIDE DEF gone
      <4> QED
        BY <1>2, <2>2, <2>4, <4>1 DEF ManagerState
    <3>2. CASE call.id \notin DOMAIN am.reg[call.dir]
      BY <1>2, <1>8, <3>2 DEF AmDropsNode
    <3> QED
      BY <3>1, <3>2
  <2> QED
    BY <1>2, <1>3, <1>8, <2>1, <2>5 DEF AmDropsNode
<1>9. CASE AmTakesAck
  <2> DEFINE call == Head(toAM)
             answer == IF call.ok THEN "on" ELSE "off"
             told == [am.conn EXCEPT ![call.conn].state = answer]
  <2>1. toAM' \in Seq(Call)
    BY <1>4, <1>9 DEF AmTakesAck
  <2>2. am.conn \in Seq(Connection)
    BY <1>2 DEF ManagerState
  <2>3. am' \in ManagerState
    <3>1. CASE call.conn \in DOMAIN am.conn /\ am.conn[call.conn].state # "ended"
      <4>1. am' = [am EXCEPT !.conn = told]
        BY <1>9, <3>1 DEF AmTakesAck
      <4>2. told \in Seq(Connection)
        <5>1. \A j \in DOMAIN am.conn : am.conn[j] \in Connection
          BY <2>2, ListAt
        <5>2. \A j \in DOMAIN am.conn : told[j] \in Connection
          BY <5>1 DEF Connection
        <5>3. DOMAIN told = DOMAIN am.conn /\ told = [j \in DOMAIN am.conn |-> told[j]]
          OBVIOUS
        <5> HIDE DEF told
        <5> QED
          BY <2>2, <5>2, <5>3, EachAt
      <4> HIDE DEF told
      <4> QED
        BY <1>2, <4>1, <4>2 DEF ManagerState
    <3>2. CASE ~(call.conn \in DOMAIN am.conn /\ am.conn[call.conn].state # "ended")
      <4>1. am' = am
        BY <1>9, <3>2 DEF AmTakesAck
      <4> QED
        BY <1>2, <4>1
    <3> QED
      BY <3>1, <3>2
  <2> QED
    BY <1>2, <1>3, <1>9, <2>1, <2>3 DEF AmTakesAck
<1>10. CASE BusRefuses
  <2>1. toAM' \in Seq(Call)
    BY <1>0, <1>10, MailAt DEF BusRefuses
  <2> QED
    BY <1>2, <1>3, <1>10, <2>1 DEF BusRefuses
<1>11. CASE AmStarts
  <2>1. fromAM' \in Seq(Reply)
    BY <1>2, <1>11, ReplyTypes, AppendAt DEF AmStarts
  <2>2. events' \in 0 .. MaxEvents
    BY <1>2, <1>11, EventCounted DEF AmStarts
  <2> QED
    BY <1>2, <1>3, <1>11, <2>1, <2>2, ManagerTypes DEF AmStarts
<1>12. CASE AmStops
  <2>1. fromAM' \in Seq(Reply)
    BY <1>2, <1>12, ReplyTypes, AppendAt DEF AmStops
  <2>2. events' \in 0 .. MaxEvents
    BY <1>2, <1>12, EventCounted DEF AmStops
  <2>3. toAM' \in Seq(Call)
    <3>1. PICK lost \in 0 .. Len(toAM) : toAM' = SubSeq(toAM, lost + 1, Len(toAM))
      BY <1>12 DEF AmStops
    <3> QED
      BY <1>2, <3>1, LastAt
  <2> QED
    BY <1>2, <1>3, <1>12, <2>1, <2>2, <2>3, ManagerTypes DEF AmStops
<1>13. CASE AmConnects
  <2>1. PICK s \in DOMAIN am.reg["input"], t \in DOMAIN am.reg["output"], auto \in BOOLEAN :
          /\ am' = [am EXCEPT !.conn = Append(@, [auto |-> auto, state |-> "asked"])]
          /\ fromAM' = Append(fromAM, [m |-> "connect", conn |-> Len(am.conn) + 1,
                                       source |-> s, sink |-> t, auto |-> auto])
    BY <1>13 DEF AmConnects
  <2>2. /\ am.reg["input"] \in Seq(Key \cup {None}) /\ am.reg["output"] \in Seq(Key \cup {None})
        /\ am.conn \in Seq(Connection)
    BY <1>2 DEF ManagerState, Dir
  <2>3. s \in Nat /\ t \in Nat /\ Len(am.conn) + 1 \in Nat
    BY <2>2, ListAt
  <2>4. [auto |-> auto, state |-> "asked"] \in Connection
    BY DEF Connection
  <2>5. Append(am.conn, [auto |-> auto, state |-> "asked"]) \in Seq(Connection)
    BY <2>2, <2>4, AppendAt
  <2>6. am' \in ManagerState
    BY <1>2, <2>1, <2>5 DEF ManagerState
  <2>7. fromAM' \in Seq(Reply)
    BY <1>2, <2>1, <2>3, ReplyTypes, AppendAt
  <2>8. events' \in 0 .. MaxEvents
    BY <1>2, <1>13, EventCounted DEF AmConnects
  <2> QED
    BY <1>2, <1>3, <1>13, <2>6, <2>7, <2>8 DEF AmConnects
<1>14. CASE AmDisconnects
  <2>1. PICK cid \in DOMAIN am.conn :
          /\ am' = [am EXCEPT !.conn[cid].state = "ended"]
          /\ fromAM' = Append(fromAM, [m |-> "disconnect", conn |-> cid])
    BY <1>14 DEF AmDisconnects
  <2> DEFINE told == [am.conn EXCEPT ![cid].state = "ended"]
  <2>2. am.conn \in Seq(Connection)
    BY <1>2 DEF ManagerState
  <2>3. told \in Seq(Connection)
    <3>1. \A j \in DOMAIN am.conn : am.conn[j] \in Connection
      BY <2>2, ListAt
    <3>2. \A j \in DOMAIN am.conn : told[j] \in Connection
      BY <3>1 DEF Connection
    <3>3. DOMAIN told = DOMAIN am.conn /\ told = [j \in DOMAIN am.conn |-> told[j]]
      OBVIOUS
    <3> HIDE DEF told
    <3> QED
      BY <2>2, <3>2, <3>3, EachAt
  <2>4. am' = [am EXCEPT !.conn = told]
    BY <2>1
  <2> HIDE DEF told
  <2>5. am' \in ManagerState
    BY <1>2, <2>3, <2>4 DEF ManagerState
  <2>6. fromAM' \in Seq(Reply)
    BY <1>2, <2>1, <2>2, ReplyTypes, AppendAt, ListAt
  <2>7. events' \in 0 .. MaxEvents
    BY <1>2, <1>14, EventCounted DEF AmDisconnects
  <2> QED
    BY <1>2, <1>3, <1>14, <2>5, <2>6, <2>7 DEF AmDisconnects
<1> QED
  BY <1>5, <1>6, <1>7, <1>8, <1>9, <1>10, <1>11, <1>12, <1>13, <1>14 DEF Manager

LEMMA TypeRegisterNode ==
  ASSUME MailFine, ModuleFine, NEW k \in Key, RegisterNode(k)
  PROVE  toAM' \in Seq(Call)
<1>1. toAM \in Seq(Call)
  BY DEF MailFine
<1>2. CASE domain # None
  <2>1. domain \in Nat /\ toAM' = toAM \o Registrations(<<k>>, domain)
    BY <1>2 DEF ModuleFine, RegisterNode
  <2>2. <<k>> \in Seq(Key)
    OBVIOUS
  <2>3. Registrations(<<k>>, domain) \in Seq(Call)
    BY <2>1, <2>2, RegistrationsType
  <2> QED
    BY <1>1, <2>1, <2>3, ConcatAt
<1>3. CASE domain = None
  BY <1>1, <1>3 DEF RegisterNode
<1> QED
  BY <1>2, <1>3

LEMMA TypeUnregisterNode ==
  ASSUME NodesFine, HashFine, ModuleFine, MailFine, NEW n \in Living, UnregisterNode(n),
         DOMAIN nodes' = DOMAIN nodes
  PROVE  HashFine' /\ toAM' \in Seq(Call)
<1>1. toAM \in Seq(Call)
  BY DEF MailFine
<1>2. CASE domain = None \/ nodes[n].amid = None
  BY <1>1, <1>2 DEF UnregisterNode, HashFine
<1>3. CASE ~(domain = None \/ nodes[n].amid = None)
  <2> DEFINE key == <<Direction(n), nodes[n].amid>>
             call == DeregisterCall(Direction(n), nodes[n].amid)
  <2>1. hash' = Drop(hash, key) /\ toAM' = Append(toAM, call)
    BY <1>3 DEF UnregisterNode
  <2>2. call \in Call
    BY <1>3, NodesAt, CallTypes
  <2>3. toAM' \in Seq(Call)
    BY <1>1, <2>1, <2>2, AppendAt
  <2> HIDE DEF key
  <2>4. hash \in [DOMAIN hash -> DOMAIN nodes]
    BY DEF HashFine
  <2>5. /\ Drop(hash, key) \in [DOMAIN hash \ {key} -> DOMAIN nodes]
        /\ DOMAIN Drop(hash, key) = DOMAIN hash \ {key}
    BY <2>4, DropType
  <2> QED
    BY <2>1, <2>3, <2>4, <2>5 DEF HashFine
<1> QED
  BY <1>2, <1>3

(* The availability of a node changes, and nothing else of it.             *)
Moves(m) == UpdateNodeAvailability(m) \/ DeviceGone(m) \/ DeviceBack(m)

LEMMA MovedNode ==
  ASSUME NodesFine, NEW m \in Living, Moves(m)
  PROVE  /\ DOMAIN nodes' = DOMAIN nodes /\ nodes' \in Seq(Node) /\ Living' = Living
         /\ \A n \in DOMAIN nodes :
              /\ nodes'[n].key = nodes[n].key /\ nodes'[n].amid = nodes[n].amid
              /\ nodes'[n].living = nodes[n].living
              /\ n # m => nodes'[n] = nodes[n]
         /\ nodes'[m].withheld = IF UpdateNodeAvailability(m) THEN nodes[m].available
                                                              ELSE nodes[m].withheld
<1>1. PICK a \in BOOLEAN, w \in BOOLEAN :
        /\ nodes' = [nodes EXCEPT ![m] = [@ EXCEPT !.available = a, !.withheld = w]]
        /\ w = IF UpdateNodeAvailability(m) THEN nodes[m].available ELSE nodes[m].withheld
  <2>0. nodes[m] \in Node /\ m \in DOMAIN nodes /\ nodes[m].available \in BOOLEAN
        /\ nodes[m].withheld \in BOOLEAN
    BY NodesAt DEF Node
  <2>1. CASE UpdateNodeAvailability(m)
    <3> DEFINE other == ~nodes[m].available
               was == nodes[m].available
    <3>1. /\ other \in BOOLEAN /\ was \in BOOLEAN
          /\ nodes' = [nodes EXCEPT ![m].available = other, ![m].withheld = was]
      BY <2>0, <2>1 DEF UpdateNodeAvailability
    <3>2. was = nodes[m].available
      OBVIOUS
    <3> HIDE DEF other, was
    <3>3. nodes' = [nodes EXCEPT ![m] = [@ EXCEPT !.available = other, !.withheld = was]]
      BY <2>0, <3>1
    <3> QED
      BY <2>1, <3>1, <3>2, <3>3
  <2>2. CASE ~UpdateNodeAvailability(m)
    <3> DEFINE is == nodes[m].withheld
    <3>1. PICK a \in BOOLEAN : nodes' = [nodes EXCEPT ![m].available = a]
      BY <2>2 DEF Moves, DeviceGone, DeviceBack
    <3>2. is \in BOOLEAN /\ is = nodes[m].withheld
      BY <2>0
    <3>3. [nodes[m] EXCEPT !.available = a] = [nodes[m] EXCEPT !.available = a, !.withheld = is]
      BY <2>0 DEF Node
    <3> HIDE DEF is
    <3>4. nodes' = [nodes EXCEPT ![m] = [@ EXCEPT !.available = a, !.withheld = is]]
      BY <2>0, <3>1, <3>3
    <3> QED
      BY <2>2, <3>2, <3>4
  <2> QED
    BY <2>1, <2>2
<1>2. \A n \in DOMAIN nodes : nodes[n] \in Node
  BY NodesAt
<1>3. m \in DOMAIN nodes
  BY DEF Living
<1>4. DOMAIN nodes' = DOMAIN nodes /\ \A n \in DOMAIN nodes : n # m => nodes'[n] = nodes[n]
  BY <1>1
<1>5. nodes'[m] = [nodes[m] EXCEPT !.available = a, !.withheld = w]
  BY <1>1, <1>3
<1>6. /\ nodes'[m] \in Node /\ nodes'[m].key = nodes[m].key /\ nodes'[m].amid = nodes[m].amid
      /\ nodes'[m].living = nodes[m].living /\ nodes'[m].withheld = w
  BY <1>2, <1>3, <1>5 DEF Node
<1>7. \A n \in DOMAIN nodes :
        /\ nodes'[n].key = nodes[n].key /\ nodes'[n].amid = nodes[n].amid
        /\ nodes'[n].living = nodes[n].living /\ nodes'[n] \in Node
  BY <1>2, <1>4, <1>6
<1>8. nodes' \in Seq(Node)
  <2>1. nodes \in Seq(Node) /\ nodes' = [j \in DOMAIN nodes |-> nodes'[j]]
    BY <1>1 DEF NodesFine
  <2> QED
    BY <1>7, <2>1, EachAt
<1>9. Living' = Living
  BY <1>4, <1>7 DEF Living
<1> QED
  BY <1>1, <1>4, <1>6, <1>7, <1>8, <1>9

LEMMA TypeNodeEvents ==
  ASSUME TypeOK, NodeEvents
  PROVE  TypeOK'
<1>0. /\ NodesFine /\ HashFine /\ RoutesFine /\ ModuleFine /\ MailFine /\ OutsideFine
      /\ nodes \in Seq(Node) /\ toAM \in Seq(Call) /\ fromAM \in Seq(Reply)
      /\ am \in ManagerState /\ events \in 0 .. MaxEvents
  BY Parts DEF NodesFine, MailFine, OutsideFine
<1>1. ASSUME nodes' \in Seq(Node), HashFine', RoutesFine', toAM' \in Seq(Call), Event,
             UNCHANGED <<domain, amisup, fromAM, am>>
      PROVE  TypeOK'
  <2>1. events' \in 0 .. MaxEvents
    BY <1>0, <1>1, EventCounted
  <2> QED
    BY <1>0, <1>1, <2>1, PartsNext DEF NodesFine, MailFine, OutsideFine, ModuleFine
<1>2. ASSUME NEW k \in Key, NEW available \in BOOLEAN, CreateNode(k, available)
      PROVE  TypeOK'
  <2> DEFINE node == [key |-> k, living |-> TRUE, available |-> available,
                        withheld |-> ~available, amid |-> None]
  <2>1. node \in Node
    BY DEF Node
  <2>2. nodes' = Append(nodes, node)
    BY <1>2 DEF CreateNode
  <2> HIDE DEF node
  <2>3. nodes' \in Seq(Node) /\ DOMAIN nodes \subseteq DOMAIN nodes'
    BY <1>0, <2>1, <2>2, AppendAt
  <2>4. HashFine' /\ RoutesFine'
    BY <1>0, <1>2, <2>3, PlacesStay DEF CreateNode
  <2>5. toAM' \in Seq(Call)
    BY <1>0, <1>2, TypeRegisterNode DEF CreateNode
  <2> QED
    BY <1>1, <1>2, <2>3, <2>4, <2>5 DEF CreateNode
<1>3. ASSUME NEW n \in Living, DestroyNode(n)
      PROVE  TypeOK'
  <2>1. nodes' = [nodes EXCEPT ![n].living = FALSE]
    BY <1>3 DEF DestroyNode
  <2>2. DOMAIN nodes' = DOMAIN nodes /\ nodes' = [j \in DOMAIN nodes |-> nodes'[j]]
    BY <2>1
  <2>3. \A j \in DOMAIN nodes : nodes'[j] \in Node
    BY <1>0, <2>1, NodesAt DEF Node
  <2>4. nodes' \in Seq(Node)
    BY <1>0, <2>2, <2>3, EachAt
  <2>5. HashFine' /\ toAM' \in Seq(Call)
    BY <1>0, <1>3, <2>2, TypeUnregisterNode DEF DestroyNode
  <2>6. RoutesFine'
    BY <1>0, <1>3, <2>2, RoutesStay DEF DestroyNode
  <2> QED
    BY <1>1, <1>3, <2>4, <2>5, <2>6 DEF DestroyNode
<1>4. ASSUME NEW n \in Living, Moves(n)
      PROVE  TypeOK'
  <2>1. DOMAIN nodes' = DOMAIN nodes /\ nodes' \in Seq(Node)
    BY <1>0, <1>4, MovedNode
  <2>2. UNCHANGED <<domain, amisup, routes, fromAM, am>> /\ Event
    BY <1>4 DEF Moves, UpdateNodeAvailability, DeviceGone, DeviceBack
  <2>3. RoutesFine'
    BY <1>0, <2>1, <2>2, RoutesStay
  <2>4. HashFine' /\ toAM' \in Seq(Call)
    <3>1. CASE UpdateNodeAvailability(n) /\ nodes[n].available
      BY <1>0, <2>1, <3>1, TypeUnregisterNode DEF UpdateNodeAvailability
    <3>2. CASE UpdateNodeAvailability(n) /\ ~nodes[n].available
      <4>1. RegisterNode(nodes[n].key) /\ UNCHANGED hash /\ nodes[n].key \in Key
        BY <1>0, <3>2, NodesAt DEF UpdateNodeAvailability
      <4>2. toAM' \in Seq(Call)
        BY <1>0, <4>1, TypeRegisterNode
      <4> QED
        BY <1>0, <2>1, <4>1, <4>2 DEF HashFine
    <3>3. CASE DeviceGone(n) \/ DeviceBack(n)
      BY <1>0, <2>1, <3>3 DEF DeviceGone, DeviceBack, HashFine
    <3> QED
      BY <1>4, <3>1, <3>2, <3>3 DEF Moves
  <2> QED
    BY <1>1, <2>1, <2>2, <2>3, <2>4
<1> QED
  BY <1>2, <1>3, <1>4 DEF NodeEvents, Moves

LEMMA Arrived ==
  ASSUME MailFine, NEW kind, Received(kind)
  PROVE  /\ Head(fromAM) \in Reply /\ Head(fromAM).m = kind
         /\ fromAM # <<>> /\ fromAM' = Tail(fromAM) /\ fromAM' \in Seq(Reply)
BY MailAt DEF Received

(* What was not in the mail stays, and so do the types.                    *)
LEMMA UpNode ==
  ASSUME NodesFine, NEW j \in DOMAIN nodes
  PROVE  LET node == [nodes[j] EXCEPT !.amid = None, !.withheld = ~Announced(j)]
         IN  /\ node \in Node /\ node.key = nodes[j].key /\ node.living = nodes[j].living
             /\ node.available = nodes[j].available /\ node.amid = None
             /\ ~node.withheld <=> Announced(j)
<1> DEFINE w == ~Announced(j)
<1>1. w \in BOOLEAN
  OBVIOUS
<1>2. nodes[j] \in Node
  BY NodesAt
<1>3. /\ [nodes[j] EXCEPT !.amid = None, !.withheld = w] \in Node
      /\ [nodes[j] EXCEPT !.amid = None, !.withheld = w].key = nodes[j].key
      /\ [nodes[j] EXCEPT !.amid = None, !.withheld = w].living = nodes[j].living
      /\ [nodes[j] EXCEPT !.amid = None, !.withheld = w].available = nodes[j].available
      /\ [nodes[j] EXCEPT !.amid = None, !.withheld = w].amid = None
      /\ [nodes[j] EXCEPT !.amid = None, !.withheld = w].withheld = w
  <2> HIDE DEF w
  <2> QED
    BY <1>1, <1>2 DEF Node
<1> QED
  BY <1>3

LEMMA TypeDomainMessages ==
  ASSUME TypeOK, HandleUp \/ HandleGone \/ DomainRegistered
  PROVE  TypeOK'
<1>0. /\ NodesFine /\ HashFine /\ RoutesFine /\ ModuleFine /\ MailFine /\ OutsideFine
      /\ nodes \in Seq(Node) /\ toAM \in Seq(Call) /\ fromAM \in Seq(Reply)
  BY Parts DEF NodesFine, MailFine
<1>1. ASSUME nodes' \in Seq(Node), HashFine', RoutesFine', ModuleFine',
             toAM' \in Seq(Call), fromAM' \in Seq(Reply), UNCHANGED <<am, events>>
      PROVE  TypeOK'
  BY <1>0, <1>1, PartsNext DEF NodesFine, MailFine, OutsideFine
<1>2. CASE HandleUp
  <2>1. fromAM' \in Seq(Reply)
    BY <1>0, <1>2, Arrived DEF HandleUp
  <2>2. toAM' \in Seq(Call)
    BY <1>0, <1>2, CallTypes, AppendAt DEF HandleUp
  <2>3. UNCHANGED <<nodes, hash, domain, amisup, routes, am, events>>
    BY <1>2 DEF HandleUp, module
  <2>4. HashFine' /\ RoutesFine'
    BY <1>0, <2>3, PlacesStay
  <2> QED
    BY <1>0, <1>1, <2>1, <2>2, <2>3, <2>4 DEF ModuleFine
<1>3. CASE HandleGone
  <2>1. fromAM' \in Seq(Reply)
    BY <1>0, <1>3, Arrived DEF HandleGone
  <2>2. UNCHANGED <<routes, toAM, am, events>> /\ amisup' = FALSE
    BY <1>3 DEF HandleGone
  <2>3. CASE amisup
    <3>1. UnregisterDomain
      BY <1>3, <2>3 DEF HandleGone
    <3>2. /\ DOMAIN nodes' = DOMAIN nodes /\ nodes' = [j \in DOMAIN nodes |-> nodes'[j]]
          /\ \A j \in DOMAIN nodes : nodes'[j] = [nodes[j] EXCEPT !.amid = None]
                                     \/ nodes'[j] = nodes[j]
          /\ hash' = <<>> /\ domain' = None
      BY <3>1 DEF UnregisterDomain
    <3>3. \A j \in DOMAIN nodes : nodes'[j] \in Node
      BY <1>0, <3>2, NodesAt DEF Node
    <3>4. nodes' \in Seq(Node)
      BY <1>0, <3>2, <3>3, EachAt
    <3>5. RoutesFine'
      BY <1>0, <2>2, <3>2, RoutesStay
    <3>6. HashFine' /\ ModuleFine'
      <4>1. \A T : <<>> \in [DOMAIN <<>> -> T]
        OBVIOUS
      <4>2. DOMAIN <<>> = {}
        OBVIOUS
      <4>3. HashFine'
        BY <3>2, <4>1, <4>2 DEF HashFine
      <4> QED
        BY <2>2, <3>2, <4>3 DEF ModuleFine
    <3> QED
      BY <1>0, <1>1, <2>1, <2>2, <3>4, <3>5, <3>6
  <2>4. CASE ~amisup
    <3>1. UNCHANGED <<nodes, hash, domain>>
      BY <1>3, <2>4 DEF HandleGone
    <3>2. HashFine' /\ RoutesFine' /\ ModuleFine'
      BY <1>0, <2>2, <3>1, PlacesStay DEF ModuleFine
    <3> QED
      BY <1>0, <1>1, <2>1, <2>2, <3>1, <3>2
  <2> QED
    BY <2>3, <2>4
<1>4. CASE DomainRegistered
  <2> DEFINE dom == Head(fromAM).id
             announced == {n \in Living : nodes[n].available \/ nodes[n].key \in Gateway}
  <2>1. fromAM' \in Seq(Reply) /\ dom \in Nat
    BY <1>0, <1>4, Arrived, ReplySays DEF DomainRegistered
  <2>2. /\ UNCHANGED <<hash, routes, am, events>> /\ amisup' = TRUE
        /\ domain' = dom /\ DomainUp(dom)
    BY <1>4 DEF DomainRegistered, DomainIs
  <2>3. /\ DOMAIN nodes' = DOMAIN nodes /\ nodes' = [j \in DOMAIN nodes |-> nodes'[j]]
        /\ \A j \in DOMAIN nodes :
             nodes'[j] = IF j \in Living
                         THEN [nodes[j] EXCEPT !.amid = None, !.withheld = ~Announced(j)]
                         ELSE nodes[j]
    BY <2>2 DEF DomainUp
  <2>4. \A j \in DOMAIN nodes : nodes'[j] \in Node
    BY <1>0, <2>3, UpNode, NodesAt
  <2>5. nodes' \in Seq(Node)
    BY <1>0, <2>3, <2>4, EachAt
  <2>6. HashFine' /\ RoutesFine'
    BY <1>0, <2>2, <2>3, PlacesStay
  <2>7. ModuleFine'
    BY <2>1, <2>2 DEF ModuleFine
  <2>8. toAM' \in Seq(Call)
    <3>1. PICK order \in SetToSeqs({nodes[n].key : n \in announced}) :
            toAM' = toAM \o Append(Registrations(order, dom), [m |-> "complete"])
      BY <2>2 DEF DomainUp, Announced
    <3>2. announced \in SUBSET DOMAIN nodes /\ \A n \in announced : nodes[n].key \in Key
      BY <1>0, NodesAt
    <3> HIDE DEF announced
    <3>3. order \in Seq(Key)
      BY <1>0, <3>2, OrderType
    <3>4. Append(Registrations(order, dom), [m |-> "complete"]) \in Seq(Call)
      BY <2>1, <3>3, RegistrationsType, CallTypes, AppendAt
    <3> QED
      BY <1>0, <3>1, <3>4, ConcatAt
  <2> QED
    BY <1>1, <2>1, <2>2, <2>5, <2>6, <2>7, <2>8
<1> QED
  BY <1>2, <1>3, <1>4

LEMMA TypeNodeRegistered ==
  ASSUME TypeOK, NodeRegistered
  PROVE  TypeOK'
<1>0. /\ NodesFine /\ HashFine /\ RoutesFine /\ ModuleFine /\ MailFine /\ OutsideFine
      /\ nodes \in Seq(Node)
  BY Parts DEF NodesFine
<1> DEFINE reply == Head(fromAM)
           found == {n \in Living : nodes[n].key = reply.key}
           key == <<DirOf[reply.key], reply.id>>
           node == CHOOSE n \in found : TRUE
<1>1. fromAM' \in Seq(Reply) /\ reply.key \in Key /\ reply.id \in Nat
  BY <1>0, Arrived, ReplySays DEF NodeRegistered
<1>2. /\ UNCHANGED <<domain, amisup, routes, toAM, am, events>>
      /\ DOMAIN nodes' = DOMAIN nodes /\ nodes' = [j \in DOMAIN nodes |-> nodes'[j]]
      /\ \A j \in DOMAIN nodes : nodes'[j] = [nodes[j] EXCEPT !.amid = reply.id]
                                 \/ nodes'[j] = nodes[j]
      /\ hash' = IF found = {} THEN hash ELSE Put(hash, key, node)
  BY DEF NodeRegistered
<1>3. \A j \in DOMAIN nodes : nodes'[j] \in Node
  BY <1>0, <1>1, <1>2, NodesAt DEF Node
<1>4. nodes' \in Seq(Node)
  BY <1>0, <1>2, <1>3, EachAt
<1>5. RoutesFine'
  BY <1>0, <1>2, RoutesStay
<1>6. key \in Dir \X Nat /\ (found # {} => node \in DOMAIN nodes)
  BY <1>0, <1>1, NodesAt, AudioManagerConfig
<1>7. hash \in [DOMAIN hash -> DOMAIN nodes] /\ DOMAIN hash \subseteq Dir \X Nat
  BY <1>0 DEF HashFine
<1> HIDE DEF found, key, node
<1>8. HashFine'
  <2>1. CASE found = {}
    BY <1>2, <1>7, <2>1 DEF HashFine
  <2>2. CASE found # {}
    <3>1. /\ Put(hash, key, node) \in [DOMAIN hash \cup {key} -> DOMAIN nodes]
          /\ DOMAIN Put(hash, key, node) = DOMAIN hash \cup {key}
      <4>1. node \in DOMAIN nodes /\ hash \in [DOMAIN hash -> DOMAIN nodes]
        BY <1>6, <1>7, <2>2
      <4> QED
        BY <4>1 DEF Put
    <3> QED
      BY <1>2, <1>6, <1>7, <2>2, <3>1 DEF HashFine
  <2> QED
    BY <2>1, <2>2
<1> QED
  BY <1>0, <1>1, <1>2, <1>4, <1>5, <1>8, PartsNext
  DEF NodesFine, MailFine, ModuleFine, OutsideFine

-----------------------------------------------------------------------------
(* Routes come and go in the list and in the hash maps together.           *)

(* What is left of a list is what there was, but for the one removed.      *)
LEMMA RemovedFrom ==
  ASSUME NEW T, NEW list \in Seq(T), NEW k \in DOMAIN list
  PROVE  /\ RemoveAt(list, k) \in Seq(T)
         /\ \A i \in DOMAIN list \ {k} :
              \E j \in DOMAIN RemoveAt(list, k) : RemoveAt(list, k)[j] = list[i]
         /\ \A j \in DOMAIN RemoveAt(list, k) :
              \E i \in DOMAIN list \ {k} :
                /\ i = (IF j < k THEN j ELSE j + 1)
                /\ RemoveAt(list, k)[j] = list[i]
<1> DEFINE left == RemoveAt(list, k)
<1>1. /\ left \in Seq(T) /\ DOMAIN left = 1 .. Len(list) - 1
      /\ \A j \in 1 .. Len(list) - 1 : left[j] = IF j < k THEN list[j] ELSE list[j + 1]
  BY RemoveAtAt
<1>2. Len(list) \in Nat /\ DOMAIN list = 1 .. Len(list)
  BY ListAt
<1> HIDE DEF left
<1>3. ASSUME NEW i \in DOMAIN list \ {k} PROVE \E j \in DOMAIN left : left[j] = list[i]
  <2>1. CASE i < k
    <3>1. i \in 1 .. Len(list) - 1
      BY <1>2, <2>1
    <3> QED
      BY <1>1, <2>1, <3>1
  <2>2. CASE ~(i < k)
    <3>1. i - 1 \in 1 .. Len(list) - 1 /\ ~(i - 1 < k) /\ (i - 1) + 1 = i
      BY <1>2, <2>2
    <3>2. left[i - 1] = list[i]
      BY <1>1, <3>1
    <3> QED
      BY <1>1, <3>1, <3>2
  <2> QED
    BY <2>1, <2>2
<1>4. ASSUME NEW j \in DOMAIN left
      PROVE  \E i \in DOMAIN list \ {k} :
               i = (IF j < k THEN j ELSE j + 1) /\ left[j] = list[i]
  <2>1. CASE j < k
    <3>1. j \in DOMAIN list \ {k} /\ left[j] = list[j]
      BY <1>1, <1>2, <2>1
    <3> QED
      BY <2>1, <3>1
  <2>2. CASE ~(j < k)
    <3>1. j + 1 \in DOMAIN list \ {k} /\ left[j] = list[j + 1]
      BY <1>1, <1>2, <2>2
    <3> QED
      BY <2>2, <3>1
  <2> QED
    BY <2>1, <2>2
<1> QED
  BY <1>1, <1>3, <1>4 DEF left

LEMMA RoutesAt ==
  ASSUME RoutesFine
  PROVE  /\ Len(connlist) \in Nat /\ DOMAIN connlist = 1 .. Len(connlist)
         /\ \A i \in DOMAIN connlist :
              /\ connlist[i] \in Route /\ connlist[i].ptr \in Nat
              /\ connlist[i].owner \in Owner /\ connlist[i].amid \in Nat
         /\ DOMAIN conns = Owner
         /\ \A o \in Owner : conns[o] \in [DOMAIN conns[o] -> Nat] /\ DOMAIN conns[o] \subseteq Nat
<1>1. \A i \in DOMAIN connlist : connlist[i] \in Route
  BY ListAt DEF RoutesFine
<1> QED
  BY <1>1, ListAt DEF RoutesFine, ConnsFine, Route

LEMMA AmidType ==
  ASSUME NEW owner, NEW id \in Nat
  PROVE  AmidOf(owner, id) \in Nat
BY AudioManagerConfig DEF AmidOf

LEMMA AddRouteKeeps ==
  ASSUME RoutesFine, ConnsFaithful, NEW owner \in Owner, NEW id \in Nat,
         NEW f \in DOMAIN nodes, NEW t \in DOMAIN nodes, AddRoute(owner, id, f, t),
         UNCHANGED nodes, extid' \in Nat
  PROVE  RoutesFine' /\ ConnsFaithful'
<1> DEFINE ptr == NewPointer
           route == [ptr |-> ptr, owner |-> owner, amid |-> AmidOf(owner, id),
                     from |-> f, to |-> t]
<1>0. /\ connlist \in Seq(Route) /\ Len(connlist) \in Nat
      /\ DOMAIN connlist = 1 .. Len(connlist)
      /\ \A i \in DOMAIN connlist : connlist[i] \in Route
      /\ DOMAIN conns = Owner
      /\ \A o \in Owner : conns[o] \in [DOMAIN conns[o] -> Nat] /\ DOMAIN conns[o] \subseteq Nat
  BY RoutesAt DEF RoutesFine
<1>1. /\ ptr \in Nat /\ \A i \in DOMAIN connlist : connlist[i].ptr # ptr
  BY <1>0, PointerFree DEF Pointers
<1>2. connlist' = Append(connlist, route) /\ conns' = [conns EXCEPT ![owner] = Put(@, id, ptr)]
  BY DEF AddRoute
<1> HIDE DEF ptr
<1>3. route \in Route
  BY <1>1, AmidType DEF Route
<1>4. /\ connlist' \in Seq(Route) /\ DOMAIN connlist' = 1 .. Len(connlist) + 1
      /\ \A i \in DOMAIN connlist : connlist'[i] = connlist[i]
      /\ connlist'[Len(connlist) + 1] = route
  BY <1>0, <1>2, <1>3, AppendAt
<1>5. /\ DOMAIN conns' = Owner
      /\ \A o \in Owner : o # owner => conns'[o] = conns[o]
      /\ conns'[owner] = Put(conns[owner], id, ptr)
  BY <1>0, <1>2
<1>6. /\ conns'[owner] \in [DOMAIN conns[owner] \cup {id} -> Nat]
      /\ \A k \in DOMAIN conns[owner] : conns'[owner][k] = conns[owner][k]
      /\ id \notin DOMAIN conns[owner] => conns'[owner][id] = ptr
  <2>1. conns[owner] \in [DOMAIN conns[owner] -> Nat]
    BY <1>0
  <2> QED
    BY <1>1, <1>5, <2>1 DEF Put
<1>7. RoutesFine'
  <2>1. (connlist \in Seq(Route))'
    BY <1>4 DEF Route
  <2>2. ConnsFine'
    BY <1>0, <1>5, <1>6 DEF ConnsFine
  <2> QED
    BY <2>1, <2>2 DEF RoutesFine
<1>8. ASSUME NEW o \in Owner, NEW k \in DOMAIN conns'[o]
      PROVE  \E i \in DOMAIN connlist' :
               /\ connlist'[i].ptr = conns'[o][k]
               /\ connlist'[i].owner = o /\ connlist'[i].amid = AmidOf(o, k)
  <2>1. CASE k \in DOMAIN conns[o]
    <3>1. conns'[o][k] = conns[o][k]
      BY <1>5, <1>6, <2>1
    <3>2. PICK i \in DOMAIN connlist : /\ connlist[i].ptr = conns[o][k]
                                       /\ connlist[i].owner = o /\ connlist[i].amid = AmidOf(o, k)
      BY <1>0, <2>1 DEF ConnsFaithful
    <3> QED
      BY <1>0, <1>4, <3>1, <3>2
  <2>2. CASE k \notin DOMAIN conns[o]
    <3>1. o = owner /\ k = id /\ conns'[o][k] = ptr
      BY <1>5, <1>6, <2>2
    <3>2. Len(connlist) + 1 \in DOMAIN connlist'
      BY <1>0, <1>4
    <3> QED
      BY <1>4, <3>1, <3>2
  <2> QED
    BY <2>1, <2>2
<1>9. ASSUME NEW i \in DOMAIN connlist', NEW j \in DOMAIN connlist',
             connlist'[i].ptr = connlist'[j].ptr
      PROVE  i = j
  <2>1. \A n \in DOMAIN connlist' : n \in DOMAIN connlist \/ n = Len(connlist) + 1
    BY <1>0, <1>4
  <2>2. route.ptr = ptr
    OBVIOUS
  <2> HIDE DEF route
  <2> QED
    BY <1>1, <1>4, <1>9, <2>1, <2>2 DEF ConnsFaithful
<1>10. ASSUME NEW o \in Owner, NEW x \in DOMAIN conns'[o], NEW y \in DOMAIN conns'[o],
              conns'[o][x] = conns'[o][y]
       PROVE  x = y
  <2>1. \A k \in DOMAIN conns[o] : conns'[o][k] = conns[o][k] /\ conns[o][k] # ptr
    <3>1. ASSUME NEW k \in DOMAIN conns[o] PROVE conns[o][k] # ptr
      BY <1>0, <1>1 DEF ConnsFaithful
    <3> QED
      BY <1>5, <1>6, <3>1
  <2>2. \A k \in DOMAIN conns'[o] : k \in DOMAIN conns[o] \/ (k = id /\ conns'[o][k] = ptr)
    BY <1>5, <1>6
  <2>3. \A k, l \in DOMAIN conns[o] : conns[o][k] = conns[o][l] => k = l
    BY <1>0 DEF ConnsFaithful
  <2> QED
    BY <1>10, <2>1, <2>2, <2>3
<1>11. ConnsFaithful'
  BY <1>5, <1>8, <1>9, <1>10 DEF ConnsFaithful
<1> QED
  BY <1>7, <1>11

(* What is removed is the connection that was asked for.                   *)
LEMMA Removed ==
  ASSUME RoutesFine, ConnsFaithful, NEW owner \in Owner, NEW id \in DOMAIN conns[owner],
         RemoveRoute(owner, id)
  PROVE  \E k \in DOMAIN connlist :
           /\ connlist[k].ptr = conns[owner][id] /\ connlist[k].owner = owner /\ connlist[k].amid = AmidOf(owner, id)
           /\ connlist' = RemoveAt(connlist, k)
<1>1. PICK k \in DOMAIN connlist : /\ connlist[k].ptr = conns[owner][id]
                                   /\ connlist[k].owner = owner /\ connlist[k].amid = AmidOf(owner, id)
  BY RoutesAt DEF ConnsFaithful
<1>2. ASSUME NEW i \in DOMAIN connlist, connlist[i].ptr = conns[owner][id] PROVE i = k
  BY <1>1, <1>2 DEF ConnsFaithful
<1>3. (CHOOSE i \in DOMAIN connlist : connlist[i].ptr = conns[owner][id]) = k
  BY <1>1, <1>2
<1>4. connlist' = RemoveAt(connlist, k)
  BY <1>3 DEF RemoveRoute, Unlinked
<1> QED
  BY <1>1, <1>4

LEMMA RemoveRouteKeeps ==
  ASSUME RoutesFine, ConnsFaithful, NEW owner \in Owner, NEW id \in DOMAIN conns[owner],
         RemoveRoute(owner, id), UNCHANGED <<nodes, extid>>
  PROVE  RoutesFine' /\ ConnsFaithful'
<1>0. /\ connlist \in Seq(Route) /\ Len(connlist) \in Nat
      /\ DOMAIN connlist = 1 .. Len(connlist)
      /\ DOMAIN conns = Owner
      /\ \A o \in Owner : conns[o] \in [DOMAIN conns[o] -> Nat] /\ DOMAIN conns[o] \subseteq Nat
  BY RoutesAt DEF RoutesFine
<1>1. PICK k \in DOMAIN connlist : /\ connlist[k].ptr = conns[owner][id]
                                   /\ connlist[k].owner = owner /\ connlist[k].amid = AmidOf(owner, id)
                                   /\ connlist' = RemoveAt(connlist, k)
  BY Removed
<1>2. /\ connlist' \in Seq(Route)
      /\ \A i \in DOMAIN connlist \ {k} : \E j \in DOMAIN connlist' : connlist'[j] = connlist[i]
      /\ \A j \in DOMAIN connlist' :
           \E i \in DOMAIN connlist \ {k} :
             i = (IF j < k THEN j ELSE j + 1) /\ connlist'[j] = connlist[i]
  <2>0. connlist \in Seq(Route) /\ k \in DOMAIN connlist
    BY <1>0, <1>1
  <2>1. /\ RemoveAt(connlist, k) \in Seq(Route)
        /\ \A i \in DOMAIN connlist \ {k} :
             \E j \in DOMAIN RemoveAt(connlist, k) : RemoveAt(connlist, k)[j] = connlist[i]
        /\ \A j \in DOMAIN RemoveAt(connlist, k) :
             \E i \in DOMAIN connlist \ {k} :
               /\ i = (IF j < k THEN j ELSE j + 1)
               /\ RemoveAt(connlist, k)[j] = connlist[i]
    BY <2>0, RemovedFrom
  <2> QED
    BY <1>1, <2>1
<1>3. /\ DOMAIN conns' = Owner
      /\ \A o \in Owner : o # owner => conns'[o] = conns[o]
      /\ conns'[owner] = Drop(conns[owner], id)
  BY <1>0 DEF RemoveRoute
<1>4. /\ conns'[owner] \in [DOMAIN conns[owner] \ {id} -> Nat]
      /\ \A j \in DOMAIN conns[owner] \ {id} : conns'[owner][j] = conns[owner][j]
  <2>1. conns[owner] \in [DOMAIN conns[owner] -> Nat]
    BY <1>0
  <2> QED
    BY <1>3, <2>1 DEF Drop, Restrict
<1>5. RoutesFine'
  <2>1. (connlist \in Seq(Route))'
    BY <1>2 DEF Route
  <2>2. ConnsFine'
    BY <1>0, <1>3, <1>4 DEF ConnsFine
  <2> QED
    BY <2>1, <2>2 DEF RoutesFine
<1>6. ASSUME NEW o \in Owner, NEW j \in DOMAIN conns'[o]
      PROVE  \E i \in DOMAIN connlist' :
               /\ connlist'[i].ptr = conns'[o][j]
               /\ connlist'[i].owner = o /\ connlist'[i].amid = AmidOf(o, j)
  <2>1. j \in DOMAIN conns[o] /\ conns'[o][j] = conns[o][j] /\ ~(o = owner /\ j = id)
    BY <1>3, <1>4
  <2>2. PICK i \in DOMAIN connlist : /\ connlist[i].ptr = conns[o][j]
                                     /\ connlist[i].owner = o /\ connlist[i].amid = AmidOf(o, j)
    BY <1>0, <2>1 DEF ConnsFaithful
  <2>3. i # k
    <3>1. CASE o = owner
      <4>1. conns[o][j] # conns[o][id]
        BY <1>0, <2>1, <3>1 DEF ConnsFaithful
      <4> QED
        BY <1>1, <2>2, <3>1, <4>1
    <3>2. CASE o # owner
      BY <1>1, <2>2, <3>2
    <3> QED
      BY <3>1, <3>2
  <2> QED
    BY <1>2, <2>1, <2>2, <2>3
<1>7. ASSUME NEW i \in DOMAIN connlist', NEW j \in DOMAIN connlist',
             connlist'[i].ptr = connlist'[j].ptr
      PROVE  i = j
  <2>0. i \in Nat /\ j \in Nat /\ k \in Nat
    <3>1. DOMAIN connlist' = 1 .. Len(connlist')
      BY <1>2, ListAt
    <3> QED
      BY <1>0, <3>1
  <2>1. PICK m \in DOMAIN connlist : m = (IF i < k THEN i ELSE i + 1) /\ connlist'[i] = connlist[m]
    BY <1>2
  <2>2. PICK n \in DOMAIN connlist : n = (IF j < k THEN j ELSE j + 1) /\ connlist'[j] = connlist[n]
    BY <1>2
  <2>3. m = n
    BY <1>7, <2>1, <2>2 DEF ConnsFaithful
  <2> QED
    BY <2>0, <2>1, <2>2, <2>3
<1>8. ASSUME NEW o \in Owner, NEW x \in DOMAIN conns'[o], NEW y \in DOMAIN conns'[o],
             conns'[o][x] = conns'[o][y]
      PROVE  x = y
  <2>1. /\ x \in DOMAIN conns[o] /\ conns'[o][x] = conns[o][x]
        /\ y \in DOMAIN conns[o] /\ conns'[o][y] = conns[o][y]
    BY <1>3, <1>4
  <2>2. conns[o][x] = conns[o][y]
    BY <1>8, <2>1
  <2>3. \A a, b \in DOMAIN conns[o] : conns[o][a] = conns[o][b] => a = b
    BY <1>0 DEF ConnsFaithful
  <2> QED
    BY <2>1, <2>2, <2>3
<1> QED
  BY <1>3, <1>5, <1>6, <1>7, <1>8 DEF ConnsFaithful

LEMMA RouteActions ==
  ASSUME TypeOK, ConnsFaithful,
         Connect \/ Disconnect \/ ExtConnect \/ ExtConnectFails \/ ExtDisconnect
  PROVE  TypeOK' /\ ConnsFaithful'
<1>0. /\ NodesFine /\ HashFine /\ RoutesFine /\ ModuleFine /\ MailFine /\ OutsideFine
      /\ toAM \in Seq(Call) /\ fromAM \in Seq(Reply) /\ events \in 0 .. MaxEvents
      /\ extid \in Nat
  BY Parts DEF MailFine, OutsideFine, RoutesFine
<1>1. ASSUME RoutesFine', UNCHANGED <<module, am>>, toAM' \in Seq(Call),
             fromAM' \in Seq(Reply), events' \in 0 .. MaxEvents
      PROVE  TypeOK'
  <2>1. UNCHANGED <<nodes, hash, domain, amisup>>
    BY <1>1 DEF module
  <2>2. (NodesFine /\ HashFine /\ ModuleFine)'
    BY <1>0, <2>1 DEF NodesFine, HashFine, ModuleFine
  <2> QED
    BY <1>0, <1>1, <2>2, PartsNext DEF MailFine, OutsideFine
<1>2. ASSUME UNCHANGED <<nodes, routes>> PROVE RoutesFine' /\ ConnsFaithful'
  <2>1. UNCHANGED <<connlist, conns, extid>>
    BY <1>2 DEF routes
  <2> QED
    BY <1>0, <1>2, <2>1, RoutesStay DEF ConnsFaithful
<1>3. CASE Connect
  <2> DEFINE cd == Head(fromAM)
             from == <<"input", cd.source>>
             to == <<"output", cd.sink>>
             ok == {from, to} \subseteq DOMAIN hash
  <2>1. fromAM' \in Seq(Reply) /\ cd.conn \in Nat /\ cd.auto \in BOOLEAN
    BY <1>0, <1>3, Arrived, ReplySays DEF Connect
  <2>2. /\ UNCHANGED <<nodes, module, extid, am, events>>
        /\ toAM' = Append(toAM, ConnectAck(cd.conn, ok \/ cd.auto))
    BY <1>3 DEF Connect, module
  <2>3. toAM' \in Seq(Call)
    <3>1. ConnectAck(cd.conn, ok \/ cd.auto) \in Call
      <4> DEFINE answer == ok \/ cd.auto
      <4>1. answer \in BOOLEAN
        OBVIOUS
      <4> HIDE DEF answer
      <4>2. ConnectAck(cd.conn, answer) \in Call
        BY <2>1, <4>1, CallTypes
      <4> QED
        BY <4>2 DEF answer
    <3> QED
      BY <1>0, <2>2, <3>1, AppendAt
  <2>4. RoutesFine' /\ ConnsFaithful'
    <3>1. CASE ok /\ ~cd.auto
      <4>1. PICK f \in IndexOf(hash[from]), t \in IndexOf(hash[to]) :
              AddRoute("am", cd.conn, f, t)
        BY <1>3, <3>1 DEF Connect
      <4>2. hash[from] \in DOMAIN nodes /\ hash[to] \in DOMAIN nodes
        BY <1>0, <3>1 DEF HashFine
      <4>3. f \in DOMAIN nodes /\ t \in DOMAIN nodes
        BY <4>1, <4>2 DEF IndexOf
      <4>4. "am" \in Owner
        BY DEF Owner
      <4>5. extid' \in Nat
        BY <1>0, <2>2
      <4> QED
        BY <1>0, <2>1, <2>2, <4>1, <4>3, <4>4, <4>5, AddRouteKeeps
    <3>2. CASE ~(ok /\ ~cd.auto)
      <4>1. UNCHANGED <<connlist, conns>>
        BY <1>3, <3>2 DEF Connect
      <4> QED
        BY <1>2, <2>2, <4>1 DEF routes
    <3> QED
      BY <3>1, <3>2
  <2> QED
    BY <1>0, <1>1, <2>1, <2>2, <2>3, <2>4
<1>4. CASE Disconnect
  <2> DEFINE cid == Head(fromAM).conn
  <2>1. fromAM' \in Seq(Reply)
    BY <1>0, <1>4, Arrived DEF Disconnect
  <2>2. UNCHANGED <<nodes, module, extid, toAM, am, events>>
    BY <1>4 DEF Disconnect, module
  <2>3. RoutesFine' /\ ConnsFaithful'
    <3>1. CASE cid \in DOMAIN conns["am"]
      <4>1. RemoveRoute("am", cid) /\ "am" \in Owner
        BY <1>4, <3>1 DEF Disconnect, Owner
      <4> QED
        BY <1>0, <2>2, <3>1, <4>1, RemoveRouteKeeps
    <3>2. CASE cid \notin DOMAIN conns["am"]
      <4>1. UNCHANGED <<connlist, conns>>
        BY <1>4, <3>2 DEF Disconnect
      <4> QED
        BY <1>2, <2>2, <4>1 DEF routes
    <3> QED
      BY <3>1, <3>2
  <2> QED
    BY <1>0, <1>1, <2>1, <2>2, <2>3
<1>5. CASE ExtConnect
  <2>1. PICK f \in Living, t \in Living : AddRoute("ext", extid, f, t)
    BY <1>5 DEF ExtConnect
  <2>2. f \in DOMAIN nodes /\ t \in DOMAIN nodes /\ "ext" \in Owner
    BY DEF Living, Owner
  <2>3. UNCHANGED <<nodes, module, toAM, fromAM, am>> /\ extid' \in Nat
    BY <1>0, <1>5 DEF ExtConnect, module
  <2>4. RoutesFine' /\ ConnsFaithful'
    BY <1>0, <2>1, <2>2, <2>3, AddRouteKeeps
  <2>5. events' \in 0 .. MaxEvents
    BY <1>0, <1>5, EventCounted DEF ExtConnect
  <2> QED
    BY <1>0, <1>1, <2>3, <2>4, <2>5
<1>7. CASE ExtConnectFails
  <2>1. UNCHANGED <<nodes, module, connlist, conns, toAM, fromAM, am>> /\ extid' \in Nat
    BY <1>0, <1>7 DEF ExtConnectFails, module
  <2>2. events' \in 0 .. MaxEvents
    BY <1>0, <1>7, EventCounted DEF ExtConnectFails
  <2>3. RoutesFine' /\ ConnsFaithful'
    <3>1. (ConnsFine /\ connlist \in Seq(Route))'
      BY <1>0, <2>1 DEF RoutesFine, ConnsFine, Route
    <3> QED
      BY <2>1, <3>1 DEF RoutesFine, ConnsFaithful
  <2> QED
    BY <1>0, <1>1, <2>1, <2>2, <2>3
<1>6. CASE ExtDisconnect
  <2>1. PICK id \in DOMAIN conns["ext"] : RemoveRoute("ext", id)
    BY <1>6 DEF ExtDisconnect
  <2>2. UNCHANGED <<nodes, module, extid, toAM, fromAM, am>>
    BY <1>6 DEF ExtDisconnect, module
  <2>3. RoutesFine' /\ ConnsFaithful'
    <3>1. "ext" \in Owner
      BY DEF Owner
    <3> QED
      BY <1>0, <2>1, <2>2, <3>1, RemoveRouteKeeps
  <2>4. events' \in 0 .. MaxEvents
    BY <1>0, <1>6, EventCounted DEF ExtDisconnect
  <2> QED
    BY <1>0, <1>1, <2>2, <2>3, <2>4
<1> QED
  BY <1>3, <1>4, <1>5, <1>6, <1>7

LEMMA TypeInit ==
  ASSUME Init
  PROVE  TypeOK /\ ConnsFaithful
<1>0. /\ <<>> \in Seq(Node) /\ <<>> \in Seq(Route) /\ <<>> \in Seq(Reply)
      /\ DOMAIN <<>> = {} /\ \A T : <<>> \in [DOMAIN <<>> -> T]
  OBVIOUS
<1>1. NodesFine /\ HashFine
  BY <1>0 DEF Init, NodesFine, HashFine
<1>2. RoutesFine /\ ConnsFaithful
  BY <1>0 DEF Init, RoutesFine, ConnsFine, ConnsFaithful
<1>3. toAM \in Seq(Call)
  BY CallTypes DEF Init
<1>4. am \in ManagerState
  BY ManagerTypes DEF Init
<1>5. events \in 0 .. MaxEvents
  BY AudioManagerConfig DEF Init
<1>6. ModuleFine /\ MailFine /\ OutsideFine
  BY <1>0, <1>3, <1>4, <1>5 DEF Init, ModuleFine, MailFine, OutsideFine
<1> QED
  BY <1>1, <1>2, <1>6, Parts

LEMMA TypeNext ==
  ASSUME TypeOK, ConnsFaithful, [Next]_vars
  PROVE  TypeOK' /\ ConnsFaithful'
<1>1. ASSUME UNCHANGED routes PROVE ConnsFaithful'
  BY <1>1 DEF routes, ConnsFaithful
<1>2. CASE Manager \/ AmStarts \/ AmStops \/ AmConnects \/ AmDisconnects
  <2>1. UNCHANGED routes
    BY <1>2 DEF Manager, AmTakesDomain, AmTakesComplete, AmTakesNode, AmDropsNode,
       AmTakesAck, BusRefuses, AmStarts, AmStops, AmConnects, AmDisconnects
  <2> QED
    BY <1>1, <1>2, <2>1, TypeManager
<1>3. CASE NodeEvents
  <2>1. UNCHANGED routes
    BY <1>3 DEF NodeEvents, CreateNode, DestroyNode, UpdateNodeAvailability, DeviceGone,
    DeviceBack
  <2> QED
    BY <1>1, <1>3, <2>1, TypeNodeEvents
<1>4. CASE HandleUp \/ HandleGone \/ DomainRegistered
  <2>1. UNCHANGED routes
    BY <1>4 DEF HandleUp, HandleGone, DomainRegistered
  <2> QED
    BY <1>1, <1>4, <2>1, TypeDomainMessages
<1>5. CASE NodeRegistered
  <2>1. UNCHANGED routes
    BY <1>5 DEF NodeRegistered
  <2> QED
    BY <1>1, <1>5, <2>1, TypeNodeRegistered
<1>6. CASE Connect \/ Disconnect \/ ExtConnect \/ ExtConnectFails \/ ExtDisconnect
  BY <1>6, RouteActions
<1>7. CASE UNCHANGED vars
  BY <1>7 DEF vars, TypeOK, ConnsFaithful, Living, Node, Call, Reply, Route
<1> QED
  BY <1>2, <1>3, <1>4, <1>5, <1>6, <1>7 DEF Next, Messages

(* The audio manager's side and ours only ever hold nodes, ids and calls   *)
(* of the kinds they should: the explicit routes join nodes that were      *)
(* made, the messages are those of the interface.                          *)
THEOREM TypeCorrect == Spec => []TypeOK
<1>1. Init => TypeOK /\ ConnsFaithful
  BY TypeInit
<1>2. TypeOK /\ ConnsFaithful /\ [Next]_vars => (TypeOK /\ ConnsFaithful)'
  BY TypeNext
<1> QED
  BY <1>1, <1>2, PTL DEF Spec

(* mir_router_remove_explicit_route frees exactly the connection it is     *)
(* asked to: whatever the order in which the audio manager and the clients *)
(* connect and disconnect, and wherever malloc puts the connections, an id *)
(* in a hash map leads to a connection in the list that carries this id    *)
(* and owner, and to no other's memory.                                    *)
THEOREM ConnectionsStayFaithful == Spec => []ConnsFaithful
<1>1. Init => TypeOK /\ ConnsFaithful
  BY TypeInit
<1>2. TypeOK /\ ConnsFaithful /\ [Next]_vars => (TypeOK /\ ConnsFaithful)'
  BY TypeNext
<1> QED
  BY <1>1, <1>2, PTL DEF Spec

-----------------------------------------------------------------------------
(* Of the messages before the i-th, the last one about the domain says     *)
(* that it is up, or there is none and it is up.                           *)
AnnouncedIn(list, dom, i) ==
  \/ dom # None /\ \A k \in 1 .. i - 1 : list[k].m # "gone"
  \/ \E j \in 1 .. i - 1 : /\ list[j].m = "domainIs"
                           /\ \A k \in j + 1 .. i - 1 : list[k].m # "gone"

NodesFollow == \A i \in DOMAIN fromAM :
                 fromAM[i].m = "nodeIs" => AnnouncedIn(fromAM, domain, i)
ManagerFollows ==
  am.up /\ am.domains > 0 => AnnouncedIn(fromAM, domain, Len(fromAM) + 1)
ManagerForgets == ~am.up => am.domains = 0 /\ am.conn = <<>>

(* The answers about nodes come after the one about the domain, and the    *)
(* end of the audio manager after them all: when a node's answer is        *)
(* handled, the domain is up.                                              *)
DownInv ==
  /\ amisup <=> domain # None
  /\ domain = None => hash = <<>>
  /\ NodesFollow /\ ManagerFollows /\ ManagerForgets

LEMMA AppendAnnounced ==
  ASSUME NEW list \in Seq(Reply), NEW e \in Reply, NEW dom
  PROVE  /\ \A i \in 1 .. Len(list) + 1 :
              AnnouncedIn(list, dom, i) => AnnouncedIn(Append(list, e), dom, i)
         /\ AnnouncedIn(list, dom, Len(list) + 1) /\ e.m # "gone" =>
              AnnouncedIn(Append(list, e), dom, Len(list) + 2)
         /\ e.m = "domainIs" => AnnouncedIn(Append(list, e), dom, Len(list) + 2)
<1> DEFINE new == Append(list, e)
<1>1. /\ Len(list) \in Nat /\ \A k \in 1 .. Len(list) : new[k] = list[k]
      /\ new[Len(list) + 1] = e
  BY AppendAt
<1> HIDE DEF new
<1>2. ASSUME NEW i \in 1 .. Len(list) + 1, AnnouncedIn(list, dom, i)
      PROVE  AnnouncedIn(new, dom, i)
  <2>1. \A k \in 1 .. i - 1 : k \in 1 .. Len(list)
    BY <1>1
  <2>2. \A j \in 1 .. i - 1 : \A k \in j + 1 .. i - 1 : k \in 1 .. i - 1
    BY <1>1
  <2> QED
    BY <1>1, <1>2, <2>1, <2>2 DEF AnnouncedIn
<1>3. \A k \in 1 .. Len(list) + 1 : k = Len(list) + 1 \/ k \in 1 .. Len(list)
  BY <1>1
<1>4. /\ (Len(list) + 2) - 1 = Len(list) + 1 /\ (Len(list) + 1) - 1 = Len(list)
      /\ Len(list) + 1 \in 1 .. Len(list) + 1
  BY <1>1
<1>5. ASSUME AnnouncedIn(list, dom, Len(list) + 1), e.m # "gone"
      PROVE  AnnouncedIn(new, dom, Len(list) + 2)
  <2>1. CASE dom # None /\ \A k \in 1 .. Len(list) : list[k].m # "gone"
    <3>1. \A k \in 1 .. Len(list) + 1 : new[k].m # "gone"
      BY <1>1, <1>3, <1>5, <2>1
    <3> QED
      BY <1>4, <2>1, <3>1 DEF AnnouncedIn
  <2>2. CASE \E j \in 1 .. Len(list) : /\ list[j].m = "domainIs"
                                       /\ \A k \in j + 1 .. Len(list) : list[k].m # "gone"
    <3>1. PICK j \in 1 .. Len(list) : /\ list[j].m = "domainIs"
                                      /\ \A k \in j + 1 .. Len(list) : list[k].m # "gone"
      BY <2>2
    <3>2. j \in 1 .. Len(list) + 1 /\ new[j].m = "domainIs"
      BY <1>1, <3>1
    <3>3. ASSUME NEW k \in j + 1 .. Len(list) + 1 PROVE new[k].m # "gone"
      <4>1. k = Len(list) + 1 \/ (k \in j + 1 .. Len(list) /\ k \in 1 .. Len(list))
        BY <1>1
      <4> QED
        BY <1>1, <1>5, <3>1, <4>1
    <3> QED
      BY <1>4, <3>2, <3>3 DEF AnnouncedIn
  <2> QED
    BY <1>4, <1>5, <2>1, <2>2 DEF AnnouncedIn
<1>6. ASSUME e.m = "domainIs" PROVE AnnouncedIn(new, dom, Len(list) + 2)
  <2>1. \A k \in (Len(list) + 1) + 1 .. Len(list) + 1 : FALSE
    BY <1>1
  <2> QED
    BY <1>1, <1>4, <1>6, <2>1 DEF AnnouncedIn
<1> QED
  BY <1>2, <1>5, <1>6 DEF new

(* The first message is handled, and the domain is what it says.           *)
LEMMA TailAnnounced ==
  ASSUME NEW list \in Seq(Reply), list # <<>>, NEW dom, NEW dom2,
         dom # None /\ Head(list).m # "gone" => dom2 # None,
         Head(list).m = "domainIs" => dom2 # None,
         NEW i \in 2 .. Len(list) + 1, AnnouncedIn(list, dom, i)
  PROVE  AnnouncedIn(Tail(list), dom2, i - 1)
<1> DEFINE new == Tail(list)
<1>1. /\ Len(list) \in Nat \ {0} /\ Head(list) = list[1]
      /\ \A k \in 1 .. Len(list) - 1 : new[k] = list[k + 1]
  BY TailAt
<1> HIDE DEF new
<1>2. \A k \in 1 .. (i - 1) - 1 : new[k] = list[k + 1] /\ k + 1 \in 1 .. i - 1
  BY <1>1
<1>3. 1 \in 1 .. i - 1
  BY <1>1
<1>4. CASE dom # None /\ \A k \in 1 .. i - 1 : list[k].m # "gone"
  <2>1. dom2 # None
    BY <1>1, <1>3, <1>4
  <2>2. \A k \in 1 .. (i - 1) - 1 : new[k].m # "gone"
    BY <1>2, <1>4
  <2> QED
    BY <2>1, <2>2 DEF AnnouncedIn, new
<1>5. ASSUME NEW j \in 1 .. i - 1, list[j].m = "domainIs",
             \A k \in j + 1 .. i - 1 : list[k].m # "gone"
      PROVE  AnnouncedIn(new, dom2, i - 1)
  <2>1. CASE j = 1
    <3>1. dom2 # None
      BY <1>1, <1>5, <2>1
    <3>2. \A k \in 1 .. (i - 1) - 1 : k + 1 \in j + 1 .. i - 1
      BY <1>1, <2>1
    <3>3. \A k \in 1 .. (i - 1) - 1 : new[k].m # "gone"
      BY <1>2, <1>5, <3>2
    <3> QED
      BY <3>1, <3>3 DEF AnnouncedIn
  <2>2. CASE j # 1
    <3>1. j - 1 \in 1 .. (i - 1) - 1 /\ (j - 1) + 1 = j
      BY <1>1, <2>2
    <3>2. new[j - 1].m = "domainIs"
      BY <1>2, <1>5, <3>1
    <3>3. ASSUME NEW k \in (j - 1) + 1 .. (i - 1) - 1 PROVE new[k].m # "gone"
      <4>1. k \in 1 .. (i - 1) - 1 /\ k + 1 \in j + 1 .. i - 1
        BY <1>1, <2>2
      <4> QED
        BY <1>2, <1>5, <4>1
    <3> QED
      BY <3>1, <3>2, <3>3 DEF AnnouncedIn
  <2> QED
    BY <2>1, <2>2
<1> QED
  BY <1>4, <1>5 DEF AnnouncedIn, new

(* What the steps of DownInv need to know of the types.                    *)
LEMMA MailTypes ==
  ASSUME TypeOK
  PROVE  /\ fromAM \in Seq(Reply) /\ Len(fromAM) \in Nat
         /\ DOMAIN fromAM = 1 .. Len(fromAM)
         /\ am \in ManagerState /\ am.domains \in Nat
         /\ domain \in Nat \cup {None}
         /\ \A i \in DOMAIN fromAM : fromAM[i] \in Reply
<1>1. fromAM \in Seq(Reply) /\ am \in ManagerState /\ domain \in Nat \cup {None}
  BY DEF TypeOK
<1>2. am.domains \in Nat
  BY <1>1 DEF ManagerState
<1> QED
  BY <1>1, <1>2, ListAt

(* A message more from the audio manager.                                  *)
LEMMA DownAppend ==
  ASSUME TypeOK, DownInv, NEW e \in Reply, fromAM' = Append(fromAM, e),
         UNCHANGED <<domain, amisup, hash>>,
         e.m = "nodeIs" => am.up /\ am.domains > 0,
         am'.up /\ am'.domains > 0 =>
           e.m = "domainIs" \/ (am.up /\ am.domains > 0 /\ e.m # "gone"),
         ManagerForgets'
  PROVE  DownInv'
<1>1. /\ fromAM \in Seq(Reply) /\ Len(fromAM) \in Nat /\ DOMAIN fromAM = 1 .. Len(fromAM)
  BY MailTypes
<1>2. /\ DOMAIN fromAM' = 1 .. Len(fromAM) + 1 /\ Len(fromAM') = Len(fromAM) + 1
      /\ \A i \in 1 .. Len(fromAM) : fromAM'[i] = fromAM[i]
      /\ fromAM'[Len(fromAM) + 1] = e
  BY <1>1, AppendAt
<1>3. /\ \A i \in 1 .. Len(fromAM) + 1 :
           AnnouncedIn(fromAM, domain, i) => AnnouncedIn(fromAM', domain, i)
      /\ AnnouncedIn(fromAM, domain, Len(fromAM) + 1) /\ e.m # "gone" =>
           AnnouncedIn(fromAM', domain, Len(fromAM) + 2)
      /\ e.m = "domainIs" => AnnouncedIn(fromAM', domain, Len(fromAM) + 2)
  BY <1>1, AppendAnnounced
<1>4. NodesFollow'
  <2>1. ASSUME NEW i \in 1 .. Len(fromAM) + 1, fromAM'[i].m = "nodeIs"
        PROVE  AnnouncedIn(fromAM', domain, i)
    <3>1. CASE i \in 1 .. Len(fromAM)
      <4>1. AnnouncedIn(fromAM, domain, i)
        BY <1>1, <1>2, <2>1, <3>1 DEF DownInv, NodesFollow
      <4> QED
        BY <1>3, <4>1
    <3>2. CASE i \notin 1 .. Len(fromAM)
      <4>1. i = Len(fromAM) + 1
        BY <1>1, <3>2
      <4>2. AnnouncedIn(fromAM, domain, Len(fromAM) + 1)
        BY <1>2, <2>1, <4>1 DEF DownInv, ManagerFollows
      <4> QED
        BY <1>3, <4>1, <4>2
    <3> QED
      BY <3>1, <3>2
  <2> QED
    BY <1>2, <2>1 DEF NodesFollow
<1>5. ManagerFollows'
  <2>1. ASSUME am'.up, am'.domains > 0 PROVE AnnouncedIn(fromAM', domain, Len(fromAM) + 2)
    BY <1>3, <2>1 DEF DownInv, ManagerFollows
  <2>2. Len(fromAM') + 1 = Len(fromAM) + 2
    BY <1>1, <1>2
  <2> QED
    BY <2>1, <2>2 DEF ManagerFollows
<1> QED
  BY <1>4, <1>5 DEF DownInv

(* The module has handled the first message.                               *)
LEMMA DownTail ==
  ASSUME TypeOK, DownInv, NEW kind, Received(kind), UNCHANGED am,
         domain # None /\ kind # "gone" => domain' # None,
         kind = "domainIs" => domain' # None,
         amisup' <=> domain' # None, domain' = None => hash' = <<>>
  PROVE  DownInv'
<1>1. /\ fromAM \in Seq(Reply) /\ Len(fromAM) \in Nat /\ DOMAIN fromAM = 1 .. Len(fromAM)
  BY MailTypes
<1>2. fromAM # <<>> /\ Head(fromAM).m = kind /\ fromAM' = Tail(fromAM)
  BY DEF Received
<1>3. /\ DOMAIN fromAM' = 1 .. Len(fromAM) - 1 /\ Len(fromAM') = Len(fromAM) - 1
      /\ \A i \in 1 .. Len(fromAM) - 1 : fromAM'[i] = fromAM[i + 1]
      /\ Len(fromAM) \in Nat \ {0}
  BY <1>1, <1>2, TailAt
<1>4. \A i \in 2 .. Len(fromAM) + 1 :
        AnnouncedIn(fromAM, domain, i) => AnnouncedIn(fromAM', domain', i - 1)
  BY <1>1, <1>2, TailAnnounced
<1>5. NodesFollow'
  <2>1. ASSUME NEW i \in 1 .. Len(fromAM) - 1, fromAM'[i].m = "nodeIs"
        PROVE  AnnouncedIn(fromAM', domain', i)
    <3>1. i + 1 \in 2 .. Len(fromAM) + 1 /\ i + 1 \in 1 .. Len(fromAM) /\ (i + 1) - 1 = i
      BY <1>1
    <3>2. AnnouncedIn(fromAM, domain, i + 1)
      BY <1>1, <1>3, <2>1, <3>1 DEF DownInv, NodesFollow
    <3> QED
      BY <1>4, <3>1, <3>2
  <2> QED
    BY <1>3, <2>1 DEF NodesFollow
<1>6. ManagerFollows'
  <2>1. /\ Len(fromAM) + 1 \in 2 .. Len(fromAM) + 1
        /\ (Len(fromAM) + 1) - 1 = Len(fromAM') + 1
    BY <1>3
  <2>2. ASSUME am.up, am.domains > 0 PROVE AnnouncedIn(fromAM', domain', Len(fromAM') + 1)
    <3>1. AnnouncedIn(fromAM, domain, Len(fromAM) + 1)
      BY <2>2 DEF DownInv, ManagerFollows
    <3> QED
      BY <1>4, <2>1, <3>1
  <2> QED
    BY <2>2 DEF ManagerFollows
<1>7. ManagerForgets'
  BY DEF DownInv, ManagerForgets
<1> QED
  BY <1>5, <1>6, <1>7 DEF DownInv

(* Nothing the invariant speaks of changes, or an id less leads to a node. *)
LEMMA DownStays ==
  ASSUME DownInv, UNCHANGED <<domain, amisup, fromAM>>, hash = <<>> => hash' = <<>>,
         am'.up = am.up, am'.domains = am.domains, am'.conn = am.conn \/ am.up
  PROVE  DownInv'
BY DEF DownInv, NodesFollow, ManagerFollows, ManagerForgets, AnnouncedIn

LEMMA DownManager ==
  ASSUME TypeOK, DownInv,
         Manager \/ AmStarts \/ AmStops \/ AmConnects \/ AmDisconnects
  PROVE  DownInv'
<1>0. /\ UNCHANGED <<domain, amisup, hash>> /\ am \in ManagerState /\ am.domains \in Nat
  BY MailTypes DEF Manager, AmTakesDomain, AmTakesComplete, AmTakesNode, AmDropsNode,
     AmTakesAck, BusRefuses, AmStarts, AmStops, AmConnects, AmDisconnects, module
<1>1. CASE AmTakesDomain
  <2> DEFINE reply == [m |-> "domainIs", id |-> am.domains + 1]
  <2>1. am.up /\ UNCHANGED <<domain, amisup, hash>>
    BY <1>0, <1>1 DEF AmTakesDomain, Asked
  <2>2. CASE am.domains = 0 \/ AcceptsTwice
    <3>1. am' = [am EXCEPT !.domains = @ + 1] /\ fromAM' = Append(fromAM, reply)
      BY <1>1, <2>2 DEF AmTakesDomain
    <3>2. reply \in Reply /\ reply.m = "domainIs"
      BY <1>0, ReplyTypes
    <3>3. am'.up = am.up
      BY <1>0, <3>1 DEF ManagerState
    <3>4. ManagerForgets'
      BY <2>1, <3>3 DEF ManagerForgets
    <3> HIDE DEF reply
    <3> QED
      BY <2>1, <3>1, <3>2, <3>4, DownAppend
  <2>3. CASE ~(am.domains = 0 \/ AcceptsTwice)
    <3>1. UNCHANGED <<am, fromAM>>
      BY <1>1, <2>3 DEF AmTakesDomain
    <3> QED
      BY <2>1, <3>1, DownStays
  <2> QED
    BY <2>2, <2>3
<1>2. CASE AmTakesComplete
  <2> DEFINE has == am.domains > 0
  <2>1. am' = [am EXCEPT !.complete = has] /\ UNCHANGED fromAM
    BY <1>2 DEF AmTakesComplete
  <2> HIDE DEF has
  <2>2. am'.up = am.up /\ am'.domains = am.domains /\ am'.conn = am.conn
    BY <1>0, <2>1 DEF ManagerState
  <2> QED
    BY <1>0, <2>1, <2>2, DownStays
<1>3. CASE AmTakesNode
  <2> DEFINE call == Head(toAM)
             d == DirOf[call.key]
             reply == [m |-> "nodeIs", key |-> call.key, id |-> Len(am.reg[d]) + 1]
             list == Append(am.reg[d], call.key)
  <2>1. am.up
    BY <1>3 DEF AmTakesNode, Asked
  <2>2. CASE call.domain \in 1 .. am.domains
    <3>1. am' = [am EXCEPT !.reg[d] = list] /\ fromAM' = Append(fromAM, reply)
      BY <1>3, <2>2 DEF AmTakesNode
    <3>2. reply \in Reply
      <4>1. call \in Call /\ call.m = "register"
        BY <1>3, MailAt, Parts DEF AmTakesNode, Asked
      <4>2. call.key \in Key /\ d \in Dir
        BY <4>1, CallSays, AudioManagerConfig
      <4>3. am.reg[d] \in Seq(Key \cup {None})
        BY <1>0, <4>2 DEF ManagerState
      <4>4. Len(am.reg[d]) + 1 \in Nat
        BY <4>3, ListAt
      <4> QED
        BY <4>2, <4>4, ReplyTypes
    <3>3. reply.m = "nodeIs"
      OBVIOUS
    <3> HIDE DEF reply, list
    <3>4. am'.up = am.up /\ am'.domains = am.domains /\ am'.conn = am.conn
      BY <1>0, <3>1 DEF ManagerState
    <3>5. am.domains > 0
      BY <1>0, <2>2
    <3>6. ManagerForgets'
      BY <2>1, <3>4 DEF ManagerForgets
    <3> QED
      BY <1>0, <2>1, <3>1, <3>2, <3>3, <3>4, <3>5, <3>6, DownAppend
  <2>3. CASE call.domain \notin 1 .. am.domains
    <3>1. am' = am /\ fromAM' = fromAM
      BY <1>3, <2>3 DEF AmTakesNode
    <3> QED
      BY <1>0, <3>1, DownStays
  <2> QED
    BY <2>2, <2>3
<1>4. CASE AmDropsNode
  <2>1. /\ am'.up = am.up /\ am'.domains = am.domains /\ am'.conn = am.conn
        /\ UNCHANGED fromAM
    BY <1>0, <1>4 DEF AmDropsNode, ManagerState
  <2> QED
    BY <1>0, <2>1, DownStays
<1>5. CASE AmTakesAck
  <2>1. am'.up = am.up /\ am'.domains = am.domains /\ am.up /\ UNCHANGED fromAM
    BY <1>0, <1>5 DEF AmTakesAck, Asked, ManagerState
  <2> QED
    BY <1>0, <2>1, DownStays
<1>6. CASE BusRefuses
  <2>1. UNCHANGED <<fromAM, am>>
    BY <1>6 DEF BusRefuses
  <2> QED
    BY <1>0, <2>1, DownStays
<1>7. CASE AmStarts
  <2>1. /\ am' = NewManager /\ fromAM' = Append(fromAM, [m |-> "up"])
        /\ [m |-> "up"] \in Reply
    BY <1>7, ReplyTypes DEF AmStarts
  <2>2. am'.up = TRUE /\ am'.domains = 0
    BY <2>1 DEF NewManager
  <2>3. ManagerForgets'
    BY <2>2 DEF ManagerForgets
  <2> QED
    BY <1>0, <2>1, <2>2, <2>3, DownAppend
<1>8. CASE AmStops
  <2>1. /\ am' = NoManager /\ fromAM' = Append(fromAM, [m |-> "gone"])
        /\ [m |-> "gone"] \in Reply
    BY <1>8, ReplyTypes DEF AmStops
  <2>2. am'.up = FALSE /\ am'.domains = 0 /\ am'.conn = <<>>
    BY <2>1 DEF NoManager, NewManager
  <2>3. ManagerForgets'
    BY <2>2 DEF ManagerForgets
  <2> QED
    BY <1>0, <2>1, <2>2, <2>3, DownAppend
<1>9. CASE AmConnects
  <2>1. PICK e : fromAM' = Append(fromAM, e) /\ e.m = "connect" /\ e \in Reply
    <3>1. PICK s \in DOMAIN am.reg["input"], t \in DOMAIN am.reg["output"],
               auto \in BOOLEAN :
            fromAM' = Append(fromAM, [m |-> "connect", conn |-> Len(am.conn) + 1,
                                      source |-> s, sink |-> t, auto |-> auto])
      BY <1>9 DEF AmConnects
    <3>2. /\ am.reg["input"] \in Seq(Key \cup {None}) /\ am.conn \in Seq(Connection)
          /\ am.reg["output"] \in Seq(Key \cup {None})
      BY <1>0 DEF ManagerState, Dir
    <3>3. s \in Nat /\ t \in Nat /\ Len(am.conn) + 1 \in Nat
      BY <3>2, ListAt
    <3> QED
      BY <3>1, <3>3, ReplyTypes
  <2>2. am.up /\ am'.up = am.up /\ am'.domains = am.domains
    BY <1>0, <1>9 DEF AmConnects, ManagerState
  <2>3. ManagerForgets'
    BY <2>2 DEF ManagerForgets
  <2> QED
    BY <1>0, <2>1, <2>2, <2>3, DownAppend
<1>10. CASE AmDisconnects
  <2>1. PICK e : fromAM' = Append(fromAM, e) /\ e.m = "disconnect" /\ e \in Reply
    <3>1. PICK cid \in DOMAIN am.conn : fromAM' = Append(fromAM, [m |-> "disconnect", conn |-> cid])
      BY <1>10 DEF AmDisconnects
    <3>2. am.conn \in Seq(Connection)
      BY <1>0 DEF ManagerState
    <3>3. cid \in Nat
      BY <3>2, ListAt
    <3> QED
      BY <3>1, <3>3, ReplyTypes
  <2>2. am.up /\ am'.up = am.up /\ am'.domains = am.domains
    BY <1>0, <1>10 DEF AmDisconnects, ManagerState
  <2>3. ManagerForgets'
    BY <2>2 DEF ManagerForgets
  <2> QED
    BY <1>0, <2>1, <2>2, <2>3, DownAppend
<1> QED
  BY <1>1, <1>2, <1>3, <1>4, <1>5, <1>6, <1>7, <1>8, <1>9, <1>10 DEF Manager

LEMMA DownModule ==
  ASSUME TypeOK, DownInv,
         \/ Messages \/ NodeEvents
         \/ ExtConnect \/ ExtConnectFails \/ ExtDisconnect \/ UNCHANGED vars
  PROVE  DownInv'
<1>1. CASE HandleUp
  BY <1>1, DownTail DEF HandleUp, module, DownInv
<1>2. CASE HandleGone
  <2>1. CASE amisup
    <3>1. Received("gone") /\ UNCHANGED am /\ domain' = None /\ hash' = <<>> /\ amisup' = FALSE
      BY <1>2, <2>1 DEF HandleGone, UnregisterDomain
    <3> QED
      BY <3>1, DownTail
  <2>2. CASE ~amisup
    <3>1. /\ Received("gone") /\ UNCHANGED <<am, domain, hash>> /\ amisup' = FALSE
          /\ domain = None /\ hash = <<>>
      BY <1>2, <2>2 DEF HandleGone, DownInv
    <3> QED
      BY <3>1, DownTail
  <2> QED
    BY <2>1, <2>2
<1>3. CASE DomainRegistered
  <2>1. Head(fromAM).id \in Nat
    BY <1>3, Arrived, ReplySays, Parts DEF DomainRegistered
  <2>2. /\ Received("domainIs") /\ UNCHANGED am /\ domain' = Head(fromAM).id
        /\ domain' # None /\ amisup' = TRUE
    BY <1>3, <2>1, AudioManagerConfig DEF DomainRegistered, DomainIs
  <2> QED
    BY <2>2, DownTail
<1>4. CASE NodeRegistered
  <2>1. Received("nodeIs") /\ UNCHANGED <<am, domain, amisup>>
    BY <1>4 DEF NodeRegistered
  <2>2. domain # None
    <3>1. fromAM # <<>> /\ Head(fromAM).m = "nodeIs" /\ fromAM \in Seq(Reply)
      BY <2>1, MailTypes DEF Received
    <3>2. 1 \in DOMAIN fromAM /\ fromAM[1].m = "nodeIs"
      BY <3>1, TailAt
    <3>3. AnnouncedIn(fromAM, domain, 1)
      BY <3>2 DEF DownInv, NodesFollow
    <3> QED
      BY <3>3 DEF AnnouncedIn
  <2>3. amisup' <=> domain' # None
    BY <2>1 DEF DownInv
  <2> QED
    BY <2>1, <2>2, <2>3, DownTail
<1>5. CASE Connect
  <2>1. Received("connect") /\ UNCHANGED <<am, domain, hash, amisup>>
    BY <1>5 DEF Connect, module
  <2>2. (amisup' <=> domain' # None) /\ (domain' = None => hash' = <<>>)
    BY <2>1 DEF DownInv
  <2> QED
    BY <2>1, <2>2, DownTail
<1>6. CASE Disconnect
  <2>1. Received("disconnect") /\ UNCHANGED <<am, domain, hash, amisup>>
    BY <1>6 DEF Disconnect, module
  <2>2. (amisup' <=> domain' # None) /\ (domain' = None => hash' = <<>>)
    BY <2>1 DEF DownInv
  <2> QED
    BY <2>1, <2>2, DownTail
<1>7. ASSUME NodeEvents \/ ExtConnect \/ ExtConnectFails \/ ExtDisconnect \/ UNCHANGED vars
      PROVE  DownInv'
  <2>1. UNCHANGED <<domain, amisup, fromAM, am>>
    BY <1>7 DEF NodeEvents, CreateNode, DestroyNode, UpdateNodeAvailability, DeviceGone,
    DeviceBack, ExtConnect, ExtConnectFails,
       ExtDisconnect, vars, module
  <2>2. UNCHANGED hash \/ domain # None
    BY <1>7 DEF NodeEvents, CreateNode, DestroyNode, UpdateNodeAvailability, DeviceGone,
    DeviceBack, UnregisterNode,
       ExtConnect, ExtConnectFails, ExtDisconnect, vars, module
  <2> QED
    BY <2>1, <2>2 DEF DownInv, NodesFollow, ManagerFollows, ManagerForgets
<1> QED
  BY <1>1, <1>2, <1>3, <1>4, <1>5, <1>6, <1>7 DEF Messages

LEMMA DownInit ==
  ASSUME Init
  PROVE  DownInv
<1>1. DOMAIN fromAM = {} /\ domain = None /\ amisup = FALSE /\ hash = <<>>
  BY DEF Init
<1>2. am.domains = 0 /\ am.conn = <<>>
  BY DEF Init, NewManager, NoManager
<1> QED
  BY <1>1, <1>2 DEF DownInv, NodesFollow, ManagerFollows, ManagerForgets

LEMMA DownNext ==
  ASSUME TypeOK, DownInv, [Next]_vars
  PROVE  DownInv'
BY DownManager, DownModule DEF Next

(* handle_admin_message and the callbacks of the registrations: while the  *)
(* domain is down no id of the audio manager leads to a node, wherever in  *)
(* the answers of the old audio manager its end was announced, and however *)
(* many of its answers are still to come.                                  *)
THEOREM DownForgetsAll == Spec => []DownForgets
<1>1. Init => TypeOK /\ ConnsFaithful /\ DownInv
  BY TypeInit, DownInit
<1>2. TypeOK /\ ConnsFaithful /\ DownInv /\ [Next]_vars => (TypeOK /\ ConnsFaithful /\ DownInv)'
  BY TypeNext, DownNext
<1>3. DownInv => DownForgets
  BY DEF DownInv, DownForgets
<1> QED
  BY <1>1, <1>2, <1>3, PTL DEF Spec

-----------------------------------------------------------------------------
(* The calls on their way for a connection, and the answers to them.       *)

AsksIn(list, i, cid) == list[i].m = "connect" /\ list[i].conn = cid
LastAskIn(list, i, cid) ==
  AsksIn(list, i, cid) /\ ~list[i].auto /\ \A j \in DOMAIN list : j > i => ~AsksIn(list, j, cid)
EndsIn(list, i, cid) == list[i].m = "disconnect" /\ list[i].conn = cid

(* The last call that is still to be handled for it asks for its route.    *)
Pending(list, cid) == \E i \in DOMAIN list : LastAskIn(list, i, cid)
NotAsked(list, cid) == \A i \in DOMAIN list : ~AsksIn(list, i, cid)
EndsBefore(list, cid) ==
  \A i \in DOMAIN list : EndsIn(list, i, cid) =>
    \E k \in DOMAIN list : k > i /\ LastAskIn(list, k, cid)

(* The last answer on its way refuses it.                                  *)
Refusal(list, cid) ==
  \E i \in DOMAIN list : /\ list[i] = ConnectAck(cid, FALSE)
                         /\ \A j \in DOMAIN list : j > i => list[j] # ConnectAck(cid, TRUE)
NoGrant(list, cid) == \A j \in DOMAIN list : list[j] # ConnectAck(cid, TRUE)

Waits(cid) == ~am.conn[cid].auto /\ am.conn[cid].state # "ended"
IsRouted(cid) == \E i \in DOMAIN connlist : connlist[i].owner = "am" /\ connlist[i].amid = cid
Settled(cid) == \/ IsRouted(cid) \/ Refusal(toAM, cid)
                \/ am.conn[cid].state = "off" /\ NoGrant(toAM, cid)
RoutedAt(cid) == /\ \/ Pending(fromAM, cid)
                    \/ NotAsked(fromAM, cid) /\ Settled(cid)
                 /\ EndsBefore(fromAM, cid)

(* A connection the audio manager has not ended has its call still to be   *)
(* handled, or has a route, or is refused; and what an audio manager       *)
(* before this one still says of its id comes before that call.            *)
RoutedInv == \A cid \in DOMAIN am.conn : Waits(cid) => RoutedAt(cid)

LEMMA TailAsks ==
  ASSUME NEW list \in Seq(Reply), list # <<>>, NEW cid
  PROVE  /\ Pending(list, cid) =>
              Pending(Tail(list), cid) \/ (LastAskIn(list, 1, cid) /\ NotAsked(Tail(list), cid))
         /\ NotAsked(list, cid) => NotAsked(Tail(list), cid) /\ ~AsksIn(list, 1, cid)
         /\ EndsBefore(list, cid) => EndsBefore(Tail(list), cid)
         /\ EndsBefore(list, cid) /\ EndsIn(list, 1, cid) => Pending(Tail(list), cid)
<1> DEFINE new == Tail(list)
<1>1. /\ Len(list) \in Nat \ {0} /\ DOMAIN list = 1 .. Len(list)
      /\ DOMAIN new = 1 .. Len(list) - 1
      /\ \A j \in 1 .. Len(list) - 1 : new[j] = list[j + 1]
  BY TailAt
<1> HIDE DEF new
<1>2. /\ \A j \in DOMAIN new : new[j] = list[j + 1] /\ j + 1 \in DOMAIN list
      /\ \A i \in DOMAIN list : i > 1 => i - 1 \in DOMAIN new /\ new[i - 1] = list[i]
      /\ 1 \in DOMAIN list
  <2>1. \A i \in DOMAIN list : i > 1 => i - 1 \in 1 .. Len(list) - 1 /\ (i - 1) + 1 = i
    BY <1>1
  <2> QED
    BY <1>1, <2>1
<1>3. ASSUME NEW i \in DOMAIN list, i > 1, LastAskIn(list, i, cid)
      PROVE  LastAskIn(new, i - 1, cid)
  <2>1. AsksIn(new, i - 1, cid) /\ ~new[i - 1].auto
    BY <1>2, <1>3 DEF LastAskIn, AsksIn
  <2>2. ASSUME NEW j \in DOMAIN new, j > i - 1 PROVE ~AsksIn(new, j, cid)
    <3>1. j + 1 \in DOMAIN list /\ j + 1 > i
      BY <1>1, <2>2
    <3>2. ~AsksIn(list, j + 1, cid)
      BY <1>3, <3>1 DEF LastAskIn
    <3> QED
      BY <1>2, <3>2 DEF AsksIn
  <2> QED
    BY <2>1, <2>2 DEF LastAskIn
<1>4. ASSUME Pending(list, cid)
      PROVE  Pending(new, cid) \/ (LastAskIn(list, 1, cid) /\ NotAsked(new, cid))
  <2>1. PICK i \in DOMAIN list : LastAskIn(list, i, cid)
    BY <1>4 DEF Pending
  <2>2. CASE i > 1
    BY <1>2, <1>3, <2>1, <2>2 DEF Pending
  <2>3. CASE ~(i > 1)
    <3>1. i = 1
      BY <1>1, <2>3
    <3>2. ASSUME NEW j \in DOMAIN new PROVE ~AsksIn(new, j, cid)
      <4>1. j + 1 \in DOMAIN list /\ j + 1 > 1
        BY <1>1
      <4>2. ~AsksIn(list, j + 1, cid)
        BY <2>1, <3>1, <4>1 DEF LastAskIn
      <4> QED
        BY <1>2, <4>2 DEF AsksIn
    <3> QED
      BY <2>1, <3>1, <3>2 DEF NotAsked
  <2> QED
    BY <2>2, <2>3
<1>5. NotAsked(list, cid) => NotAsked(new, cid) /\ ~AsksIn(list, 1, cid)
  BY <1>2 DEF NotAsked, AsksIn
<1>6. ASSUME EndsBefore(list, cid) PROVE EndsBefore(new, cid)
  <2>1. ASSUME NEW i \in DOMAIN new, EndsIn(new, i, cid)
        PROVE  \E k \in DOMAIN new : k > i /\ LastAskIn(new, k, cid)
    <3>1. i + 1 \in DOMAIN list /\ EndsIn(list, i + 1, cid)
      BY <1>2, <2>1 DEF EndsIn
    <3>2. PICK k \in DOMAIN list : k > i + 1 /\ LastAskIn(list, k, cid)
      BY <1>6, <3>1 DEF EndsBefore
    <3>3. k > 1 /\ k - 1 > i
      BY <1>1, <3>2
    <3> QED
      BY <1>2, <1>3, <3>2, <3>3
  <2> QED
    BY <2>1 DEF EndsBefore
<1>7. ASSUME EndsBefore(list, cid), EndsIn(list, 1, cid) PROVE Pending(new, cid)
  <2>1. PICK k \in DOMAIN list : k > 1 /\ LastAskIn(list, k, cid)
    BY <1>2, <1>7 DEF EndsBefore
  <2> QED
    BY <1>2, <1>3, <2>1 DEF Pending
<1> QED
  BY <1>4, <1>5, <1>6, <1>7 DEF new

LEMMA AppendAsks ==
  ASSUME NEW list \in Seq(Reply), NEW e \in Reply, NEW cid
  PROVE  /\ e.m \notin {"connect", "disconnect"} \/ e.conn # cid =>
              /\ Pending(list, cid) => Pending(Append(list, e), cid)
              /\ NotAsked(list, cid) => NotAsked(Append(list, e), cid)
              /\ EndsBefore(list, cid) => EndsBefore(Append(list, e), cid)
         /\ e.m = "connect" /\ e.conn = cid /\ ~e.auto =>
              Pending(Append(list, e), cid) /\ EndsBefore(Append(list, e), cid)
<1> DEFINE new == Append(list, e)
           last == Len(list) + 1
<1>1. /\ Len(list) \in Nat /\ DOMAIN list = 1 .. Len(list) /\ DOMAIN new = 1 .. Len(list) + 1
      /\ \A j \in 1 .. Len(list) : new[j] = list[j]
      /\ new[Len(list) + 1] = e
  BY AppendAt
<1> HIDE DEF new
<1>2. /\ \A j \in DOMAIN new : j = last \/ (j \in DOMAIN list /\ j < last)
      /\ DOMAIN list \subseteq DOMAIN new /\ last \in DOMAIN new /\ last \in Nat
      /\ \A j \in DOMAIN list : new[j] = list[j]
      /\ new[last] = e
      /\ \A j \in DOMAIN new : j \in Nat /\ j <= last
  BY <1>1
<1> HIDE DEF last
<1>3. ASSUME e.m \notin {"connect", "disconnect"} \/ e.conn # cid
      PROVE  /\ Pending(list, cid) => Pending(new, cid)
             /\ NotAsked(list, cid) => NotAsked(new, cid)
             /\ EndsBefore(list, cid) => EndsBefore(new, cid)
  <2>1. ~AsksIn(new, last, cid) /\ ~EndsIn(new, last, cid)
    BY <1>2, <1>3 DEF AsksIn, EndsIn
  <2>2. ASSUME NEW i \in DOMAIN list, LastAskIn(list, i, cid)
        PROVE  LastAskIn(new, i, cid)
    <3>1. AsksIn(new, i, cid) /\ ~new[i].auto
      BY <1>2, <2>2 DEF LastAskIn, AsksIn
    <3>2. ASSUME NEW j \in DOMAIN new, j > i PROVE ~AsksIn(new, j, cid)
      <4>1. CASE j = last
        BY <2>1, <4>1
      <4>2. CASE j # last
        <5>1. j \in DOMAIN list /\ new[j] = list[j]
          BY <1>2, <4>2
        <5> QED
          BY <2>2, <3>2, <5>1 DEF LastAskIn, AsksIn
      <4> QED
        BY <4>1, <4>2
    <3> QED
      BY <3>1, <3>2 DEF LastAskIn
  <2>3. Pending(list, cid) => Pending(new, cid)
    BY <1>2, <2>2 DEF Pending
  <2>4. NotAsked(list, cid) => NotAsked(new, cid)
    <3>1. ASSUME NotAsked(list, cid), NEW j \in DOMAIN new PROVE ~AsksIn(new, j, cid)
      <4>1. CASE j = last
        BY <2>1, <4>1
      <4>2. CASE j # last
        <5>1. j \in DOMAIN list /\ new[j] = list[j]
          BY <1>2, <4>2
        <5> QED
          BY <3>1, <5>1 DEF NotAsked, AsksIn
      <4> QED
        BY <4>1, <4>2
    <3> QED
      BY <3>1 DEF NotAsked
  <2>5. EndsBefore(list, cid) => EndsBefore(new, cid)
    <3>1. ASSUME EndsBefore(list, cid), NEW i \in DOMAIN new, EndsIn(new, i, cid)
          PROVE  \E k \in DOMAIN new : k > i /\ LastAskIn(new, k, cid)
      <4>1. i # last
        BY <2>1, <3>1
      <4>2. i \in DOMAIN list /\ EndsIn(list, i, cid)
        BY <1>2, <3>1, <4>1 DEF EndsIn
      <4>3. PICK k \in DOMAIN list : k > i /\ LastAskIn(list, k, cid)
        BY <3>1, <4>2 DEF EndsBefore
      <4> QED
        BY <1>2, <2>2, <4>3
    <3> QED
      BY <3>1 DEF EndsBefore
  <2> QED
    BY <2>3, <2>4, <2>5
<1>4. ASSUME e.m = "connect", e.conn = cid, ~e.auto
      PROVE  Pending(new, cid) /\ EndsBefore(new, cid)
  <2>1. LastAskIn(new, last, cid)
    BY <1>2, <1>4 DEF LastAskIn, AsksIn
  <2>2. ASSUME NEW i \in DOMAIN new, EndsIn(new, i, cid) PROVE last > i
    <3>1. i # last
      BY <1>2, <1>4, <2>2 DEF EndsIn
    <3> QED
      BY <1>2, <3>1
  <2> QED
    BY <1>2, <2>1, <2>2 DEF Pending, EndsBefore
<1> QED
  BY <1>3, <1>4 DEF new

(* Calls that grant nothing are added after the others.                    *)
LEMMA MoreCalls ==
  ASSUME NEW list, NEW new, NEW cid, DOMAIN list \subseteq DOMAIN new,
         \A j \in DOMAIN list : new[j] = list[j],
         \A j \in DOMAIN new \ DOMAIN list : new[j] # ConnectAck(cid, TRUE)
  PROVE  /\ Refusal(list, cid) => Refusal(new, cid)
         /\ NoGrant(list, cid) => NoGrant(new, cid)
BY DEF Refusal, NoGrant

LEMMA FewerCalls ==
  ASSUME NEW list \in Seq(Call), list # <<>>, NEW cid
  PROVE  /\ Refusal(list, cid) =>
              \/ Refusal(Tail(list), cid)
              \/ Head(list) = ConnectAck(cid, FALSE) /\ NoGrant(Tail(list), cid)
         /\ NoGrant(list, cid) =>
              NoGrant(Tail(list), cid) /\ Head(list) # ConnectAck(cid, TRUE)
<1> DEFINE new == Tail(list)
<1>1. /\ Len(list) \in Nat \ {0} /\ DOMAIN list = 1 .. Len(list) /\ Head(list) = list[1]
      /\ DOMAIN new = 1 .. Len(list) - 1
      /\ \A j \in 1 .. Len(list) - 1 : new[j] = list[j + 1]
  BY TailAt
<1> HIDE DEF new
<1>2. /\ \A j \in DOMAIN new : new[j] = list[j + 1] /\ j + 1 \in DOMAIN list
      /\ \A i \in DOMAIN list : i > 1 => i - 1 \in DOMAIN new /\ new[i - 1] = list[i]
      /\ 1 \in DOMAIN list
  <2>1. \A i \in DOMAIN list : i > 1 => i - 1 \in 1 .. Len(list) - 1 /\ (i - 1) + 1 = i
    BY <1>1
  <2> QED
    BY <1>1, <2>1
<1>3. ASSUME Refusal(list, cid)
      PROVE  Refusal(new, cid) \/ (Head(list) = ConnectAck(cid, FALSE) /\ NoGrant(new, cid))
  <2>1. PICK i \in DOMAIN list :
          /\ list[i] = ConnectAck(cid, FALSE)
          /\ \A j \in DOMAIN list : j > i => list[j] # ConnectAck(cid, TRUE)
    BY <1>3 DEF Refusal
  <2>2. ASSUME NEW j \in DOMAIN new, j > i - 1 PROVE new[j] # ConnectAck(cid, TRUE)
    <3>1. j + 1 \in DOMAIN list /\ j + 1 > i
      BY <1>1, <2>2
    <3> QED
      BY <1>2, <2>1, <3>1
  <2>3. CASE i > 1
    BY <1>2, <2>1, <2>2, <2>3 DEF Refusal
  <2>4. CASE ~(i > 1)
    <3>1. i = 1 /\ \A j \in DOMAIN new : j > i - 1
      BY <1>1, <2>4
    <3> QED
      BY <1>1, <2>1, <2>2, <3>1 DEF NoGrant
  <2> QED
    BY <2>3, <2>4
<1>4. NoGrant(list, cid) => NoGrant(new, cid) /\ Head(list) # ConnectAck(cid, TRUE)
  BY <1>1, <1>2 DEF NoGrant
<1> QED
  BY <1>3, <1>4 DEF new

LEMMA AckSays ==
  /\ \A c, d \in Nat, a, b \in BOOLEAN :
       ConnectAck(c, a) = ConnectAck(d, b) => c = d /\ (a <=> b)
  /\ \A c \in Nat, a \in BOOLEAN : ConnectAck(c, a).m = "connect_ack"
BY DEF ConnectAck

LEMMA ConnAt ==
  ASSUME TypeOK
  PROVE  /\ am \in ManagerState /\ am.conn \in Seq(Connection) /\ Len(am.conn) \in Nat
         /\ DOMAIN am.conn = 1 .. Len(am.conn) /\ DOMAIN am.conn \subseteq Nat
         /\ \A c \in DOMAIN am.conn : /\ am.conn[c] \in Connection
                                      /\ am.conn[c].auto \in BOOLEAN
         /\ toAM \in Seq(Call) /\ fromAM \in Seq(Reply)
<1>1. /\ am \in ManagerState /\ toAM \in Seq(Call) /\ fromAM \in Seq(Reply)
      /\ am.conn \in Seq(Connection)
  BY DEF TypeOK, ManagerState
<1>2. Len(am.conn) \in Nat /\ DOMAIN am.conn = 1 .. Len(am.conn)
      /\ \A c \in DOMAIN am.conn : am.conn[c] \in Connection
  BY <1>1, ListAt
<1> QED
  BY <1>1, <1>2 DEF Connection

(* Calls that are no acknowledgements.                                     *)
Plain(list, new) ==
  /\ DOMAIN list \subseteq DOMAIN new
  /\ \A j \in DOMAIN list : new[j] = list[j]
  /\ \A j \in DOMAIN new \ DOMAIN list : new[j].m # "connect_ack"

LEMMA PlainAppend ==
  ASSUME NEW list \in Seq(Call), NEW e \in Call, e.m # "connect_ack"
  PROVE  Plain(list, Append(list, e))
<1>1. /\ DOMAIN list = 1 .. Len(list) /\ DOMAIN Append(list, e) = 1 .. Len(list) + 1
      /\ \A j \in 1 .. Len(list) : Append(list, e)[j] = list[j]
      /\ Append(list, e)[Len(list) + 1] = e /\ Len(list) \in Nat
  BY AppendAt
<1>2. \A j \in 1 .. Len(list) + 1 : j \in 1 .. Len(list) \/ j = Len(list) + 1
  BY <1>1
<1>3. 1 .. Len(list) \subseteq 1 .. Len(list) + 1
  BY <1>1
<1> QED
  BY <1>1, <1>2, <1>3 DEF Plain

LEMMA PlainConcat ==
  ASSUME NEW list \in Seq(Call), NEW more \in Seq(Call),
         \A j \in DOMAIN more : more[j].m # "connect_ack"
  PROVE  Plain(list, list \o more)
<1> DEFINE all == list \o more
<1>1. /\ Len(list) \in Nat /\ Len(more) \in Nat
      /\ DOMAIN list = 1 .. Len(list) /\ DOMAIN more = 1 .. Len(more)
      /\ DOMAIN all = 1 .. Len(list) + Len(more)
      /\ \A j \in 1 .. Len(list) + Len(more) :
           all[j] = IF j <= Len(list) THEN list[j] ELSE more[j - Len(list)]
  BY ConcatAt
<1> HIDE DEF all
<1>2. \A j \in 1 .. Len(list) : j \in 1 .. Len(list) + Len(more) /\ j <= Len(list)
  BY <1>1
<1>3. ASSUME NEW j \in DOMAIN all \ DOMAIN list PROVE all[j].m # "connect_ack"
  <2>1. ~(j <= Len(list)) /\ j - Len(list) \in 1 .. Len(more)
    BY <1>1
  <2> QED
    BY <1>1, <2>1
<1> QED
  BY <1>1, <1>2, <1>3 DEF Plain, all

LEMMA PlainCalls ==
  ASSUME NEW list, NEW new, NEW cid \in Nat, Plain(list, new)
  PROVE  /\ Refusal(list, cid) => Refusal(new, cid)
         /\ NoGrant(list, cid) => NoGrant(new, cid)
<1>1. ConnectAck(cid, TRUE).m = "connect_ack"
  BY AckSays
<1>2. \A j \in DOMAIN new \ DOMAIN list : new[j] # ConnectAck(cid, TRUE)
  BY <1>1 DEF Plain
<1> QED
  BY <1>2, MoreCalls DEF Plain

(* Registrations of nodes acknowledge nothing.                             *)
LEMMA RegistrationsPlain ==
  ASSUME NEW ns, NEW dom, NEW j \in DOMAIN Registrations(ns, dom)
  PROVE  Registrations(ns, dom)[j].m # "connect_ack"
BY DEF Registrations, RegisterCall

LEMMA RegisterNodePlain ==
  ASSUME TypeOK, NEW k \in Key, RegisterNode(k)
  PROVE  Plain(toAM, toAM')
<1>1. toAM \in Seq(Call) /\ domain \in Nat \cup {None}
  BY DEF TypeOK
<1>2. CASE domain # None
  <2>1. toAM' = toAM \o Registrations(<<k>>, domain) /\ domain \in Nat
    BY <1>1, <1>2 DEF RegisterNode
  <2>2. <<k>> \in Seq(Key)
    OBVIOUS
  <2>3. Registrations(<<k>>, domain) \in Seq(Call)
    BY <2>1, <2>2, RegistrationsType
  <2> QED
    BY <1>1, <2>1, <2>3, RegistrationsPlain, PlainConcat
<1>3. CASE domain = None
  BY <1>3 DEF RegisterNode, Plain
<1> QED
  BY <1>2, <1>3

LEMMA UnregisterNodePlain ==
  ASSUME TypeOK, NEW n \in Living, UnregisterNode(n)
  PROVE  Plain(toAM, toAM')
<1>1. toAM \in Seq(Call)
  BY DEF TypeOK
<1>2. CASE domain = None \/ nodes[n].amid = None
  BY <1>2 DEF UnregisterNode, Plain
<1>3. CASE ~(domain = None \/ nodes[n].amid = None)
  <2> DEFINE call == DeregisterCall(Direction(n), nodes[n].amid)
  <2>1. toAM' = Append(toAM, call)
    BY <1>3 DEF UnregisterNode
  <2>2. call \in Call /\ call.m # "connect_ack"
    BY <1>3, NodesAt, Parts, CallTypes DEF DeregisterCall
  <2> HIDE DEF call
  <2> QED
    BY <1>1, <2>1, <2>2, PlainAppend
<1> QED
  BY <1>2, <1>3

-----------------------------------------------------------------------------
(* RoutedInv, action by action.                                            *)

LEMMA RoutedParts ==
  ASSUME NEW cid
  PROVE  RoutedAt(cid)' <=>
           /\ \/ Pending(fromAM', cid)
              \/ /\ NotAsked(fromAM', cid)
                 /\ \/ IsRouted(cid)' \/ Refusal(toAM', cid)
                    \/ am'.conn[cid].state = "off" /\ NoGrant(toAM', cid)
           /\ EndsBefore(fromAM', cid)
BY DEF RoutedAt, Settled, Pending, NotAsked, EndsBefore, Refusal, NoGrant, LastAskIn,
       AsksIn, EndsIn

(* Nothing changes but for calls that acknowledge nothing, and routes.     *)
LEMMA RoutedPlain ==
  ASSUME TypeOK, RoutedInv, fromAM' = fromAM, am'.conn = am.conn, Plain(toAM, toAM'),
         \A cid \in Nat : IsRouted(cid) => IsRouted(cid)'
  PROVE  RoutedInv'
<1>1. ASSUME NEW cid \in DOMAIN am.conn, Waits(cid) PROVE RoutedAt(cid)'
  <2>1. RoutedAt(cid) /\ cid \in Nat
    BY <1>1, ConnAt DEF RoutedInv
  <2>2. /\ Refusal(toAM, cid) => Refusal(toAM', cid)
        /\ NoGrant(toAM, cid) => NoGrant(toAM', cid)
    BY <2>1, PlainCalls
  <2> QED
    BY <2>1, <2>2, RoutedParts DEF RoutedAt, Settled
<1> QED
  BY <1>1 DEF RoutedInv, Waits

(* The audio manager takes a call that is no acknowledgement.              *)
LEMMA RoutedTakes ==
  ASSUME TypeOK, RoutedInv, NEW kind, Asked(kind), kind # "connect_ack",
         am'.conn = am.conn, UNCHANGED connlist,
         fromAM' = fromAM \/ \E e \in Reply : /\ fromAM' = Append(fromAM, e)
                                              /\ e.m \notin {"connect", "disconnect"}
  PROVE  RoutedInv'
<1>1. ASSUME NEW cid \in DOMAIN am.conn, Waits(cid) PROVE RoutedAt(cid)'
  <2>1. RoutedAt(cid) /\ cid \in Nat
    BY <1>1, ConnAt DEF RoutedInv
  <2>2. toAM # <<>> /\ Head(toAM).m # "connect_ack" /\ toAM' = Tail(toAM) /\ toAM \in Seq(Call)
    BY ConnAt DEF Asked
  <2>3. Head(toAM) # ConnectAck(cid, FALSE)
    BY <2>1, <2>2, AckSays
  <2>4. /\ Refusal(toAM, cid) => Refusal(toAM', cid)
        /\ NoGrant(toAM, cid) => NoGrant(toAM', cid)
    BY <2>2, <2>3, FewerCalls
  <2>5. /\ Pending(fromAM, cid) => Pending(fromAM', cid)
        /\ NotAsked(fromAM, cid) => NotAsked(fromAM', cid)
        /\ EndsBefore(fromAM, cid) => EndsBefore(fromAM', cid)
    <3>1. CASE fromAM' = fromAM
      BY <3>1
    <3>2. CASE fromAM' # fromAM
      <4>1. PICK e \in Reply : fromAM' = Append(fromAM, e) /\ e.m \notin {"connect", "disconnect"}
        BY <3>2
      <4> QED
        BY <4>1, ConnAt, AppendAsks
    <3> QED
      BY <3>1, <3>2
  <2>6. IsRouted(cid) => IsRouted(cid)'
    BY DEF IsRouted
  <2> QED
    BY <2>1, <2>4, <2>5, <2>6, RoutedParts DEF RoutedAt, Settled
<1> QED
  BY <1>1 DEF RoutedInv, Waits

(* The module handles a message that is about no connection.               *)
LEMMA RoutedTail ==
  ASSUME TypeOK, RoutedInv, NEW kind, Received(kind), kind \notin {"connect", "disconnect"},
         UNCHANGED <<am, connlist>>, Plain(toAM, toAM')
  PROVE  RoutedInv'
<1>1. ASSUME NEW cid \in DOMAIN am.conn, Waits(cid) PROVE RoutedAt(cid)'
  <2>1. RoutedAt(cid) /\ cid \in Nat
    BY <1>1, ConnAt DEF RoutedInv
  <2>2. /\ Refusal(toAM, cid) => Refusal(toAM', cid)
        /\ NoGrant(toAM, cid) => NoGrant(toAM', cid)
    BY <2>1, PlainCalls
  <2>3. fromAM \in Seq(Reply) /\ fromAM # <<>> /\ fromAM' = Tail(fromAM) /\ Head(fromAM).m = kind
    BY ConnAt DEF Received
  <2>4. ~AsksIn(fromAM, 1, cid)
    BY <2>3, TailAt DEF AsksIn
  <2>5. /\ Pending(fromAM, cid) => Pending(fromAM', cid)
        /\ NotAsked(fromAM, cid) => NotAsked(fromAM', cid)
        /\ EndsBefore(fromAM, cid) => EndsBefore(fromAM', cid)
    BY <2>3, <2>4, TailAsks DEF LastAskIn
  <2>6. IsRouted(cid) => IsRouted(cid)'
    BY DEF IsRouted
  <2> QED
    BY <2>1, <2>2, <2>5, <2>6, RoutedParts DEF RoutedAt, Settled
<1> QED
  BY <1>1 DEF RoutedInv, Waits

LEMMA RoutedAck ==
  ASSUME TypeOK, RoutedInv, AmTakesAck
  PROVE  RoutedInv'
<1> DEFINE call == Head(toAM)
           live == call.conn \in DOMAIN am.conn /\ am.conn[call.conn].state # "ended"
           answer == IF call.ok THEN "on" ELSE "off"
<1>1. /\ toAM # <<>> /\ toAM \in Seq(Call) /\ toAM' = Tail(toAM) /\ call \in Call
      /\ call.m = "connect_ack" /\ call.conn \in Nat /\ call.ok \in BOOLEAN
      /\ call = ConnectAck(call.conn, call.ok)
  <2>1. /\ toAM # <<>> /\ toAM \in Seq(Call) /\ toAM' = Tail(toAM) /\ call.m = "connect_ack"
    BY ConnAt DEF AmTakesAck, Asked
  <2> QED
    BY <2>1, TailAt, CallSays
<1>2. /\ fromAM' = fromAM /\ connlist' = connlist
      /\ am' = IF live THEN [am EXCEPT !.conn[call.conn].state = answer] ELSE am
  BY DEF AmTakesAck, routes
<1>3. /\ DOMAIN am'.conn = DOMAIN am.conn
      /\ \A c \in DOMAIN am.conn :
           /\ am'.conn[c].auto = am.conn[c].auto
           /\ c # call.conn \/ ~live => am'.conn[c].state = am.conn[c].state
           /\ c = call.conn /\ live => am'.conn[c].state = answer
  BY <1>2, ConnAt DEF ManagerState, Connection
<1>4. ASSUME NEW cid \in DOMAIN am'.conn, Waits(cid)' PROVE RoutedAt(cid)'
  <2>1. cid \in DOMAIN am.conn /\ cid \in Nat /\ Waits(cid)
    BY <1>3, <1>4, ConnAt DEF Waits
  <2>2. RoutedAt(cid)
    BY <2>1 DEF RoutedInv
  <2>3. IsRouted(cid) => IsRouted(cid)'
    BY <1>2 DEF IsRouted
  <2>4. Refusal(toAM, cid) => \/ Refusal(toAM', cid)
                              \/ am'.conn[cid].state = "off" /\ NoGrant(toAM', cid)
    <3>1. CASE call = ConnectAck(cid, FALSE)
      <4>1. call.conn = cid /\ ~call.ok
        BY <3>1 DEF ConnectAck
      <4>2. live
        BY <2>1, <4>1 DEF Waits
      <4>3. am'.conn[cid].state = "off"
        BY <1>3, <2>1, <4>1, <4>2
      <4> QED
        BY <1>1, <4>3, FewerCalls
    <3>2. CASE call # ConnectAck(cid, FALSE)
      BY <1>1, <3>2, FewerCalls
    <3> QED
      BY <3>1, <3>2
  <2>5. am.conn[cid].state = "off" /\ NoGrant(toAM, cid) =>
          am'.conn[cid].state = "off" /\ NoGrant(toAM', cid)
    <3>1. ASSUME am.conn[cid].state = "off", NoGrant(toAM, cid)
          PROVE  am'.conn[cid].state = "off" /\ NoGrant(toAM', cid)
      <4>1. NoGrant(toAM', cid) /\ call # ConnectAck(cid, TRUE)
        BY <1>1, <3>1, FewerCalls
      <4>2. cid # call.conn \/ ~call.ok
        BY <1>1, <4>1
      <4>3. am'.conn[cid].state = "off"
        BY <1>3, <2>1, <3>1, <4>2
      <4> QED
        BY <4>1, <4>3
    <3> QED
      BY <3>1
  <2> QED
    BY <1>2, <2>2, <2>3, <2>4, <2>5, RoutedParts DEF RoutedAt, Settled
<1> QED
  BY <1>4 DEF RoutedInv

(* A new connection is asked for; one is ended.                            *)
LEMMA RoutedConnects ==
  ASSUME TypeOK, RoutedInv, AmConnects
  PROVE  RoutedInv'
<1>1. PICK s \in DOMAIN am.reg["input"], t \in DOMAIN am.reg["output"], auto \in BOOLEAN :
        /\ am' = [am EXCEPT !.conn = Append(@, [auto |-> auto, state |-> "asked"])]
        /\ fromAM' = Append(fromAM, [m |-> "connect", conn |-> Len(am.conn) + 1,
                                     source |-> s, sink |-> t, auto |-> auto])
  BY DEF AmConnects
<1> DEFINE new == Len(am.conn) + 1
           e == [m |-> "connect", conn |-> new, source |-> s, sink |-> t, auto |-> auto]
           made == [auto |-> auto, state |-> "asked"]
<1>2. e \in Reply /\ e.m = "connect" /\ e.conn = new /\ (e.auto <=> auto)
  <2>1. am.reg["input"] \in Seq(Key \cup {None}) /\ am.reg["output"] \in Seq(Key \cup {None})
    BY ConnAt DEF ManagerState, Dir
  <2>2. s \in Nat /\ t \in Nat
    BY <1>1, <2>1, ListAt
  <2>3. new \in Nat
    BY ConnAt
  <2> QED
    BY <1>1, <2>2, <2>3, ReplyTypes
<1>3. /\ am'.conn = Append(am.conn, made) /\ fromAM' = Append(fromAM, e)
      /\ UNCHANGED <<connlist, toAM>>
  BY <1>1, ConnAt DEF ManagerState, AmConnects, routes
<1>4. /\ DOMAIN am'.conn = 1 .. new /\ DOMAIN am.conn = 1 .. Len(am.conn)
      /\ \A c \in DOMAIN am.conn : am'.conn[c] = am.conn[c]
      /\ am'.conn[new] = made /\ Len(am.conn) \in Nat
  <2>1. made \in Connection
    BY DEF Connection
  <2> HIDE DEF made
  <2> QED
    BY <1>3, <2>1, ConnAt, AppendAt
<1>5. ASSUME NEW cid \in DOMAIN am'.conn, Waits(cid)' PROVE RoutedAt(cid)'
  <2>1. CASE cid = new
    <3>1. ~auto
      BY <1>4, <1>5, <2>1 DEF Waits
    <3>2. Pending(fromAM', cid) /\ EndsBefore(fromAM', cid)
      BY <1>2, <1>3, <2>1, <3>1, ConnAt, AppendAsks
    <3> QED
      BY <3>2, RoutedParts
  <2>2. CASE cid # new
    <3>1. cid \in DOMAIN am.conn
      BY <1>4, <2>2
    <3>2. Waits(cid) /\ am'.conn[cid] = am.conn[cid]
      BY <1>4, <1>5, <3>1 DEF Waits
    <3>3. RoutedAt(cid)
      BY <3>1, <3>2 DEF RoutedInv
    <3> HIDE DEF e
    <3>4. /\ Pending(fromAM, cid) => Pending(fromAM', cid)
          /\ NotAsked(fromAM, cid) => NotAsked(fromAM', cid)
          /\ EndsBefore(fromAM, cid) => EndsBefore(fromAM', cid)
      BY <1>2, <1>3, <2>2, ConnAt, AppendAsks
    <3>5. IsRouted(cid) => IsRouted(cid)'
      BY <1>3 DEF IsRouted
    <3> QED
      BY <1>3, <3>2, <3>3, <3>4, <3>5, RoutedParts DEF RoutedAt, Settled
  <2> QED
    BY <2>1, <2>2
<1> QED
  BY <1>5 DEF RoutedInv

LEMMA RoutedDisconnects ==
  ASSUME TypeOK, RoutedInv, AmDisconnects
  PROVE  RoutedInv'
<1>1. PICK c \in DOMAIN am.conn :
        /\ am' = [am EXCEPT !.conn[c].state = "ended"]
        /\ fromAM' = Append(fromAM, [m |-> "disconnect", conn |-> c])
  BY DEF AmDisconnects
<1> DEFINE e == [m |-> "disconnect", conn |-> c]
<1>2. e \in Reply /\ e.conn = c
  BY <1>1, ConnAt, ReplyTypes
<1>3. /\ fromAM' = Append(fromAM, e) /\ UNCHANGED <<connlist, toAM>>
      /\ DOMAIN am'.conn = DOMAIN am.conn
      /\ am'.conn[c].state = "ended"
      /\ \A d \in DOMAIN am.conn : d # c => am'.conn[d] = am.conn[d]
  BY <1>1, ConnAt DEF ManagerState, AmDisconnects, routes, Connection
<1> HIDE DEF e
<1>4. ASSUME NEW cid \in DOMAIN am'.conn, Waits(cid)' PROVE RoutedAt(cid)'
  <2>1. cid # c
    BY <1>3, <1>4 DEF Waits
  <2>2. am'.conn[cid] = am.conn[cid] /\ Waits(cid) /\ cid \in DOMAIN am.conn
    BY <1>3, <1>4, <2>1 DEF Waits
  <2>3. RoutedAt(cid)
    BY <2>2 DEF RoutedInv
  <2>4. /\ Pending(fromAM, cid) => Pending(fromAM', cid)
        /\ NotAsked(fromAM, cid) => NotAsked(fromAM', cid)
        /\ EndsBefore(fromAM, cid) => EndsBefore(fromAM', cid)
    BY <1>2, <1>3, <2>1, ConnAt, AppendAsks
  <2>5. IsRouted(cid) => IsRouted(cid)'
    BY <1>3 DEF IsRouted
  <2> QED
    BY <1>3, <2>2, <2>3, <2>4, <2>5, RoutedParts DEF RoutedAt, Settled
<1> QED
  BY <1>4 DEF RoutedInv

(* Routes of others come and go.                                           *)
LEMMA RouteAdded ==
  ASSUME RoutesFine, NEW owner \in Owner, NEW id \in Nat, NEW f \in DOMAIN nodes,
         NEW t \in DOMAIN nodes, AddRoute(owner, id, f, t)
  PROVE  /\ \A cid \in Nat : IsRouted(cid) => IsRouted(cid)'
         /\ owner = "am" => IsRouted(id)'
<1> DEFINE route == [ptr |-> NewPointer, owner |-> owner, amid |-> AmidOf(owner, id),
                     from |-> f, to |-> t]
<1>1. connlist \in Seq(Route) /\ connlist' = Append(connlist, route)
  BY DEF RoutesFine, AddRoute
<1>2. route \in Route
  BY <1>1, PointerFree, AmidType DEF Route
<1>3. route.owner = owner /\ (owner = "am" => route.amid = id)
  BY DEF AmidOf
<1> HIDE DEF route
<1>4. /\ DOMAIN connlist = 1 .. Len(connlist) /\ Len(connlist) \in Nat
      /\ DOMAIN connlist' = 1 .. Len(connlist) + 1
      /\ \A i \in 1 .. Len(connlist) : connlist'[i] = connlist[i]
      /\ connlist'[Len(connlist) + 1] = route
  BY <1>1, <1>2, AppendAt
<1>5. ASSUME NEW cid, IsRouted(cid) PROVE IsRouted(cid)'
  <2>1. PICK i \in DOMAIN connlist : connlist[i].owner = "am" /\ connlist[i].amid = cid
    BY <1>5 DEF IsRouted
  <2>2. i \in DOMAIN connlist' /\ connlist'[i] = connlist[i]
    BY <1>4, <2>1
  <2> QED
    BY <2>1, <2>2 DEF IsRouted
<1>6. ASSUME owner = "am" PROVE IsRouted(id)'
  <2>1. Len(connlist) + 1 \in DOMAIN connlist'
    BY <1>4
  <2> QED
    BY <1>3, <1>4, <1>6, <2>1 DEF IsRouted
<1> QED
  BY <1>5, <1>6

LEMMA RouteRemoved ==
  ASSUME RoutesFine, ConnsFaithful, NEW owner \in Owner, NEW id \in DOMAIN conns[owner],
         RemoveRoute(owner, id)
  PROVE  \A cid \in Nat : (owner # "am" \/ cid # id) /\ IsRouted(cid) => IsRouted(cid)'
<1>1. PICK k \in DOMAIN connlist : /\ connlist[k].owner = owner
                                   /\ connlist[k].amid = AmidOf(owner, id)
                                   /\ connlist' = RemoveAt(connlist, k)
  BY Removed
<1>2. connlist \in Seq(Route) /\ k \in DOMAIN connlist
  BY <1>1 DEF RoutesFine
<1>3. \A i \in DOMAIN connlist \ {k} :
        \E j \in DOMAIN RemoveAt(connlist, k) : RemoveAt(connlist, k)[j] = connlist[i]
  BY <1>2, RemovedFrom
<1>4. ASSUME NEW cid \in Nat, owner # "am" \/ cid # id, IsRouted(cid) PROVE IsRouted(cid)'
  <2>1. PICK i \in DOMAIN connlist : connlist[i].owner = "am" /\ connlist[i].amid = cid
    BY <1>4 DEF IsRouted
  <2>2. i # k
    BY <1>1, <1>4, <2>1 DEF AmidOf
  <2>3. PICK j \in DOMAIN RemoveAt(connlist, k) : RemoveAt(connlist, k)[j] = connlist[i]
    BY <1>3, <2>2
  <2> QED
    BY <1>1, <2>1, <2>3 DEF IsRouted
<1> QED
  BY <1>4

LEMMA RoutedConnect ==
  ASSUME TypeOK, RoutedInv, Connect
  PROVE  RoutedInv'
<1> DEFINE cd == Head(fromAM)
           from == <<"input", cd.source>>
           to == <<"output", cd.sink>>
           ok == {from, to} \subseteq DOMAIN hash
           answer == ok \/ cd.auto
           ack == ConnectAck(cd.conn, answer)
<1>1. /\ fromAM \in Seq(Reply) /\ fromAM # <<>> /\ fromAM' = Tail(fromAM)
      /\ cd \in Reply /\ cd.m = "connect" /\ cd.conn \in Nat /\ cd.auto \in BOOLEAN
      /\ fromAM[1] = cd
  <2>1. /\ fromAM \in Seq(Reply) /\ fromAM # <<>> /\ fromAM' = Tail(fromAM) /\ cd.m = "connect"
    BY ConnAt DEF Connect, Received
  <2> QED
    BY <2>1, TailAt, ReplySays
<1>2. UNCHANGED am /\ toAM' = Append(toAM, ack)
  BY DEF Connect
<1>0. PICK c \in Nat : c = cd.conn
  BY <1>1
<1>3. /\ \A cid \in Nat : IsRouted(cid) => IsRouted(cid)'
      /\ ok /\ ~cd.auto => IsRouted(c)'
  <2>1. CASE ok /\ ~cd.auto
    <3>1. PICK f \in IndexOf(hash[from]), t \in IndexOf(hash[to]) :
            AddRoute("am", c, f, t)
      BY <1>0, <2>1 DEF Connect
    <3>2. hash[from] \in DOMAIN nodes /\ hash[to] \in DOMAIN nodes
      BY <2>1 DEF TypeOK
    <3>3. f \in DOMAIN nodes /\ t \in DOMAIN nodes /\ "am" \in Owner /\ RoutesFine
      BY <3>1, <3>2, Parts DEF IndexOf, Owner
    <3> QED
      BY <1>0, <3>1, <3>3, RouteAdded
  <2>2. CASE ~(ok /\ ~cd.auto)
    <3>1. UNCHANGED connlist
      BY <2>2 DEF Connect
    <3> QED
      BY <2>2, <3>1 DEF IsRouted
  <2> QED
    BY <2>1, <2>2
<1>4. answer \in BOOLEAN
  OBVIOUS
<1>5. ~answer \/ cd.auto \/ (ok /\ ~cd.auto)
  OBVIOUS
<1> HIDE DEF ok, from, to, answer
<1>6. ack \in Call
  BY <1>1, <1>4, CallTypes
<1>7. /\ DOMAIN toAM = 1 .. Len(toAM) /\ Len(toAM) \in Nat
      /\ DOMAIN toAM' = 1 .. Len(toAM) + 1
      /\ \A i \in 1 .. Len(toAM) : toAM'[i] = toAM[i]
      /\ toAM'[Len(toAM) + 1] = ack
  BY <1>2, <1>6, ConnAt, AppendAt
<1>8. ASSUME NEW cid \in DOMAIN am'.conn, Waits(cid)' PROVE RoutedAt(cid)'
  <2>1. /\ cid \in DOMAIN am.conn /\ cid \in Nat /\ RoutedAt(cid)
        /\ am'.conn[cid] = am.conn[cid]
    BY <1>2, <1>8, ConnAt DEF Waits, RoutedInv
  <2>2. EndsBefore(fromAM', cid)
    BY <1>1, <2>1, TailAsks DEF RoutedAt
  <2>3. CASE cid # cd.conn
    <3>1. ~AsksIn(fromAM, 1, cid)
      BY <1>1, <2>3 DEF AsksIn
    <3>2. /\ Pending(fromAM, cid) => Pending(fromAM', cid)
          /\ NotAsked(fromAM, cid) => NotAsked(fromAM', cid)
      BY <1>1, <3>1, TailAsks DEF LastAskIn
    <3>3. ack # ConnectAck(cid, TRUE)
      BY <1>1, <1>4, <2>1, <2>3, AckSays
    <3>4. /\ Refusal(toAM, cid) => Refusal(toAM', cid)
          /\ NoGrant(toAM, cid) => NoGrant(toAM', cid)
      <4>1. DOMAIN toAM \subseteq DOMAIN toAM'
        BY <1>7
      <4>2. \A j \in DOMAIN toAM' \ DOMAIN toAM : toAM'[j] # ConnectAck(cid, TRUE)
        <5>1. ASSUME NEW j \in DOMAIN toAM' \ DOMAIN toAM PROVE j = Len(toAM) + 1
          BY <1>7
        <5> QED
          BY <1>7, <3>3, <5>1
      <4> QED
        BY <1>7, <4>1, <4>2, MoreCalls
    <3> QED
      BY <1>3, <2>1, <2>2, <3>2, <3>4, RoutedParts DEF RoutedAt, Settled
  <2>4. CASE cid = cd.conn
    <3>1. AsksIn(fromAM, 1, cid)
      BY <1>1, <2>4 DEF AsksIn
    <3>2. Pending(fromAM', cid) \/ (LastAskIn(fromAM, 1, cid) /\ NotAsked(fromAM', cid))
      BY <1>1, <2>1, <3>1, TailAsks DEF RoutedAt
    <3>3. ASSUME LastAskIn(fromAM, 1, cid), NotAsked(fromAM', cid)
          PROVE  IsRouted(cid)' \/ Refusal(toAM', cid)
      <4>1. ~cd.auto
        BY <1>1, <3>3 DEF LastAskIn
      <4>2. CASE ok
        <5>1. IsRouted(c)' /\ c = cid
          BY <1>0, <1>3, <2>4, <4>1, <4>2
        <5> QED
          BY <5>1
      <4>3. CASE ~ok
        <5>1. ~answer
          BY <1>5, <4>1, <4>3
        <5>2. ack = ConnectAck(cid, FALSE)
          BY <1>4, <2>4, <5>1
        <5>3. Len(toAM) + 1 \in DOMAIN toAM' /\ \A j \in DOMAIN toAM' : ~(j > Len(toAM) + 1)
          BY <1>7
        <5> QED
          BY <1>7, <5>2, <5>3 DEF Refusal
      <4> QED
        BY <4>2, <4>3
    <3> QED
      BY <2>2, <3>2, <3>3, RoutedParts
  <2> QED
    BY <2>3, <2>4
<1> QED
  BY <1>8 DEF RoutedInv

LEMMA RoutedDisconnect ==
  ASSUME TypeOK, ConnsFaithful, RoutedInv, Disconnect
  PROVE  RoutedInv'
<1> DEFINE c == Head(fromAM).conn
<1>1. /\ fromAM \in Seq(Reply) /\ fromAM # <<>> /\ fromAM' = Tail(fromAM)
      /\ fromAM[1].m = "disconnect" /\ fromAM[1].conn = c
  <2>1. /\ fromAM \in Seq(Reply) /\ fromAM # <<>> /\ fromAM' = Tail(fromAM)
        /\ Head(fromAM).m = "disconnect"
    BY ConnAt DEF Disconnect, Received
  <2> QED
    BY <2>1, TailAt
<1>2. UNCHANGED <<am, toAM>>
  BY DEF Disconnect
<1>3. \A cid \in Nat : cid # c /\ IsRouted(cid) => IsRouted(cid)'
  <2>1. CASE c \in DOMAIN conns["am"]
    <3>1. RemoveRoute("am", c) /\ "am" \in Owner /\ RoutesFine
      BY <2>1, Parts DEF Disconnect, Owner
    <3> QED
      BY <2>1, <3>1, RouteRemoved
  <2>2. CASE c \notin DOMAIN conns["am"]
    <3>1. UNCHANGED connlist
      BY <2>2 DEF Disconnect
    <3> QED
      BY <3>1 DEF IsRouted
  <2> QED
    BY <2>1, <2>2
<1> HIDE DEF c
<1>4. ASSUME NEW cid \in DOMAIN am'.conn, Waits(cid)' PROVE RoutedAt(cid)'
  <2>1. /\ cid \in DOMAIN am.conn /\ cid \in Nat /\ RoutedAt(cid)
        /\ am'.conn[cid] = am.conn[cid]
    BY <1>2, <1>4, ConnAt DEF Waits, RoutedInv
  <2>2. EndsBefore(fromAM', cid)
    BY <1>1, <2>1, TailAsks DEF RoutedAt
  <2>3. CASE cid = c
    <3>1. EndsIn(fromAM, 1, cid)
      BY <1>1, <2>3 DEF EndsIn
    <3>2. Pending(fromAM', cid)
      BY <1>1, <2>1, <3>1, TailAsks DEF RoutedAt
    <3> QED
      BY <2>2, <3>2, RoutedParts
  <2>4. CASE cid # c
    <3>1. ~AsksIn(fromAM, 1, cid)
      BY <1>1 DEF AsksIn
    <3>2. /\ Pending(fromAM, cid) => Pending(fromAM', cid)
          /\ NotAsked(fromAM, cid) => NotAsked(fromAM', cid)
      BY <1>1, <3>1, TailAsks DEF LastAskIn
    <3> QED
      BY <1>2, <1>3, <2>1, <2>2, <2>4, <3>2, RoutedParts DEF RoutedAt, Settled
  <2> QED
    BY <2>3, <2>4
<1> QED
  BY <1>4 DEF RoutedInv

LEMMA RoutedManager ==
  ASSUME TypeOK, DownInv, RoutedInv,
         Manager \/ AmStarts \/ AmStops \/ AmConnects \/ AmDisconnects
  PROVE  RoutedInv'
<1>1. CASE AmTakesDomain
  <2> DEFINE reply == [m |-> "domainIs", id |-> am.domains + 1]
  <2>1. Asked("domain") /\ UNCHANGED connlist
    BY <1>1 DEF AmTakesDomain, routes
  <2>2. am'.conn = am.conn /\ (fromAM' = fromAM \/ fromAM' = Append(fromAM, reply))
    BY <1>1, ConnAt DEF AmTakesDomain, ManagerState
  <2>3. reply \in Reply /\ reply.m \notin {"connect", "disconnect"}
    BY MailTypes, ReplyTypes
  <2> HIDE DEF reply
  <2> QED
    BY <2>1, <2>2, <2>3, RoutedTakes
<1>2. CASE AmTakesComplete
  <2> DEFINE has == am.domains > 0
  <2>1. /\ Asked("complete") /\ UNCHANGED <<connlist, fromAM>>
        /\ am' = [am EXCEPT !.complete = has]
    BY <1>2 DEF AmTakesComplete, routes
  <2> HIDE DEF has
  <2>2. am'.conn = am.conn
    BY <2>1, ConnAt DEF ManagerState
  <2> QED
    BY <2>1, <2>2, RoutedTakes
<1>3. CASE AmTakesNode
  <2> DEFINE call == Head(toAM)
             d == DirOf[call.key]
             reply == [m |-> "nodeIs", key |-> call.key, id |-> Len(am.reg[d]) + 1]
             list == Append(am.reg[d], call.key)
  <2>1. Asked("register") /\ UNCHANGED connlist
    BY <1>3 DEF AmTakesNode, routes
  <2>2. \/ am' = [am EXCEPT !.reg[d] = list] /\ fromAM' = Append(fromAM, reply)
        \/ am' = am /\ fromAM' = fromAM
    BY <1>3 DEF AmTakesNode
  <2>3. reply \in Reply /\ reply.m \notin {"connect", "disconnect"}
    <3>1. call \in Call /\ call.m = "register"
      BY <2>1, MailAt, Parts DEF Asked
    <3>2. call.key \in Key /\ d \in Dir
      BY <3>1, CallSays, AudioManagerConfig
    <3>3. am.reg[d] \in Seq(Key \cup {None})
      BY <3>2, ConnAt DEF ManagerState
    <3>4. Len(am.reg[d]) + 1 \in Nat
      BY <3>3, ListAt
    <3> QED
      BY <3>2, <3>4, ReplyTypes
  <2> HIDE DEF reply, list
  <2>4. am'.conn = am.conn
    BY <2>2, ConnAt DEF ManagerState
  <2> QED
    BY <2>1, <2>2, <2>3, <2>4, RoutedTakes
<1>4. CASE AmDropsNode
  <2>1. Asked("deregister") /\ UNCHANGED <<connlist, fromAM>>
    BY <1>4 DEF AmDropsNode, routes
  <2>2. am'.conn = am.conn
    BY <1>4, ConnAt DEF AmDropsNode, ManagerState
  <2> QED
    BY <2>1, <2>2, RoutedTakes
<1>5. CASE AmTakesAck
  BY <1>5, RoutedAck
<1>6. CASE BusRefuses
  <2>1. DOMAIN am'.conn = {}
    BY <1>6 DEF BusRefuses, DownInv, ManagerForgets
  <2> QED
    BY <2>1 DEF RoutedInv
<1>7. CASE AmStarts \/ AmStops
  <2>1. DOMAIN am'.conn = {}
    BY <1>7 DEF AmStarts, AmStops, NoManager, NewManager
  <2> QED
    BY <2>1 DEF RoutedInv
<1>8. CASE AmConnects
  BY <1>8, RoutedConnects
<1>9. CASE AmDisconnects
  BY <1>9, RoutedDisconnects
<1> QED
  BY <1>1, <1>2, <1>3, <1>4, <1>5, <1>6, <1>7, <1>8, <1>9 DEF Manager

LEMMA RoutedNodeEvents ==
  ASSUME TypeOK, RoutedInv, NodeEvents
  PROVE  RoutedInv'
<1>1. UNCHANGED <<connlist, fromAM, am>>
  BY DEF NodeEvents, CreateNode, DestroyNode, UpdateNodeAvailability, DeviceGone,
    DeviceBack, routes
<1>2. Plain(toAM, toAM')
  <2>1. ASSUME NEW k \in Key, NEW available \in BOOLEAN, CreateNode(k, available)
        PROVE  Plain(toAM, toAM')
    BY <2>1, RegisterNodePlain DEF CreateNode, Plain
  <2>2. ASSUME NEW n \in Living, DestroyNode(n) \/ Moves(n)
        PROVE  Plain(toAM, toAM')
    <3>1. CASE UnregisterNode(n)
      BY <3>1, UnregisterNodePlain
    <3>2. CASE RegisterNode(nodes[n].key)
      <4>1. nodes[n].key \in Key
        BY NodesAt, Parts
      <4> QED
        BY <3>2, <4>1, RegisterNodePlain
    <3> QED
      BY <2>2, <3>1, <3>2 DEF DestroyNode, UpdateNodeAvailability, Moves, DeviceGone,
         DeviceBack, Plain
  <2> QED
    BY <2>1, <2>2 DEF NodeEvents, Moves
<1>3. \A cid \in Nat : IsRouted(cid) => IsRouted(cid)'
  BY <1>1 DEF IsRouted
<1> QED
  BY <1>1, <1>2, <1>3, RoutedPlain

LEMMA RoutedExt ==
  ASSUME TypeOK, ConnsFaithful, RoutedInv,
         ExtConnect \/ ExtConnectFails \/ ExtDisconnect \/ UNCHANGED vars
  PROVE  RoutedInv'
<1>1. UNCHANGED <<fromAM, am, toAM>>
  BY DEF ExtConnect, ExtConnectFails, ExtDisconnect, vars
<1>2. Plain(toAM, toAM')
  BY <1>1 DEF Plain
<1>3. \A cid \in Nat : IsRouted(cid) => IsRouted(cid)'
  <2>1. CASE ExtConnect
    <3>1. PICK f \in Living, t \in Living : AddRoute("ext", extid, f, t)
      BY <2>1 DEF ExtConnect
    <3>2. f \in DOMAIN nodes /\ t \in DOMAIN nodes /\ "ext" \in Owner
      BY DEF Living, Owner
    <3>3. PICK id \in Nat : id = extid
      BY DEF TypeOK
    <3> QED
      BY <3>1, <3>2, <3>3, RouteAdded, Parts
  <2>2. CASE ExtDisconnect
    <3>1. PICK id \in DOMAIN conns["ext"] : RemoveRoute("ext", id)
      BY <2>2 DEF ExtDisconnect
    <3>2. "ext" \in Owner /\ RoutesFine
      BY Parts DEF Owner
    <3> QED
      BY <3>1, <3>2, RouteRemoved
  <2>3. CASE ExtConnectFails \/ UNCHANGED vars
    BY <2>3 DEF ExtConnectFails, vars, IsRouted
  <2> QED
    BY <2>1, <2>2, <2>3
<1> QED
  BY <1>1, <1>2, <1>3, RoutedPlain

LEMMA RoutedMessages ==
  ASSUME TypeOK, ConnsFaithful, RoutedInv, Messages
  PROVE  RoutedInv'
<1>0. toAM \in Seq(Call) /\ Plain(toAM, toAM)
  BY ConnAt DEF Plain
<1>1. CASE HandleUp
  <2>1. Received("up") /\ UNCHANGED <<am, connlist>>
    BY <1>1 DEF HandleUp, routes
  <2>2. Plain(toAM, toAM')
    <3>1. DomainCall \in Call /\ DomainCall.m # "connect_ack"
      BY CallTypes DEF DomainCall
    <3> QED
      BY <1>0, <1>1, <3>1, PlainAppend DEF HandleUp
  <2> QED
    BY <2>1, <2>2, RoutedTail
<1>2. CASE HandleGone
  <2>1. Received("gone") /\ UNCHANGED <<am, connlist, toAM>>
    BY <1>2 DEF HandleGone, routes
  <2> QED
    BY <1>0, <2>1, RoutedTail
<1>3. CASE DomainRegistered
  <2> DEFINE dom == Head(fromAM).id
             announced == {n \in Living : nodes[n].available \/ nodes[n].key \in Gateway}
  <2>1. Received("domainIs") /\ UNCHANGED <<am, connlist>> /\ dom \in Nat
    BY <1>3, Arrived, ReplySays, Parts DEF DomainRegistered, routes
  <2>2. Plain(toAM, toAM')
    <3>1. PICK order \in SetToSeqs({nodes[n].key : n \in announced}) :
            toAM' = toAM \o Append(Registrations(order, dom), [m |-> "complete"])
      BY <1>3 DEF DomainRegistered, DomainIs, DomainUp, Announced
    <3>2. /\ announced \in SUBSET DOMAIN nodes /\ \A n \in announced : nodes[n].key \in Key
          /\ nodes \in Seq(Node)
      BY NodesAt, Parts DEF NodesFine
    <3> HIDE DEF announced
    <3>3. order \in Seq(Key)
      BY <3>2, OrderType
    <3> DEFINE more == Registrations(order, dom)
    <3>4. more \in Seq(Call) /\ [m |-> "complete"] \in Call
      BY <2>1, <3>3, RegistrationsType, CallTypes
    <3>5. \A j \in DOMAIN more : more[j].m # "connect_ack"
      BY RegistrationsPlain
    <3> HIDE DEF more
    <3>6. /\ Append(more, [m |-> "complete"]) \in Seq(Call)
          /\ DOMAIN Append(more, [m |-> "complete"]) = 1 .. Len(more) + 1
          /\ DOMAIN more = 1 .. Len(more) /\ Len(more) \in Nat
          /\ \A j \in 1 .. Len(more) : Append(more, [m |-> "complete"])[j] = more[j]
          /\ Append(more, [m |-> "complete"])[Len(more) + 1] = [m |-> "complete"]
      BY <3>4, AppendAt
    <3>7. \A j \in 1 .. Len(more) + 1 : j \in 1 .. Len(more) \/ j = Len(more) + 1
      BY <3>6
    <3>8. [m |-> "complete"].m # "connect_ack"
      OBVIOUS
    <3>9. \A j \in DOMAIN Append(more, [m |-> "complete"]) :
            Append(more, [m |-> "complete"])[j].m # "connect_ack"
      BY <3>5, <3>6, <3>7, <3>8
    <3>10. toAM' = toAM \o Append(more, [m |-> "complete"])
      BY <3>1 DEF more
    <3> QED
      BY <1>0, <3>6, <3>9, <3>10, PlainConcat
  <2> QED
    BY <2>1, <2>2, RoutedTail
<1>4. CASE NodeRegistered
  <2>1. Received("nodeIs") /\ UNCHANGED <<am, connlist, toAM>>
    BY <1>4 DEF NodeRegistered, routes
  <2> QED
    BY <1>0, <2>1, RoutedTail
<1>5. CASE Connect
  BY <1>5, RoutedConnect
<1>6. CASE Disconnect
  BY <1>6, RoutedDisconnect
<1> QED
  BY <1>1, <1>2, <1>3, <1>4, <1>5, <1>6 DEF Messages

-----------------------------------------------------------------------------
IInv == TypeOK /\ ConnsFaithful /\ DownInv /\ RoutedInv

LEMMA Inductive ==
  ASSUME IInv, [Next]_vars
  PROVE  IInv'
<1>1. TypeOK' /\ ConnsFaithful' /\ DownInv'
  BY TypeNext, DownNext DEF IInv
<1>2. RoutedInv'
  BY RoutedManager, RoutedNodeEvents, RoutedExt, RoutedMessages DEF IInv, Next
<1> QED
  BY <1>1, <1>2 DEF IInv

LEMMA Initial ==
  ASSUME Init
  PROVE  IInv
<1>1. DOMAIN am.conn = {}
  BY DEF Init, NewManager, NoManager
<1> QED
  BY <1>1, TypeInit, DownInit DEF IInv, RoutedInv

LEMMA ConnectedRouted ==
  ASSUME IInv
  PROVE  ConnectedIsRouted
<1>1. ASSUME NEW cid \in DOMAIN am.conn, am.conn[cid].state = "on", ~am.conn[cid].auto
      PROVE  \/ \E i \in DOMAIN connlist : connlist[i].owner = "am" /\ connlist[i].amid = cid
             \/ \E i \in DOMAIN fromAM : Asks(i, cid)
             \/ ConnectAck(cid, FALSE) \in ToSet(toAM)
  <2>1. RoutedAt(cid)
    BY <1>1 DEF IInv, RoutedInv, Waits
  <2>2. CASE Pending(fromAM, cid)
    BY <2>2 DEF Pending, LastAskIn, AsksIn, Asks
  <2>3. CASE IsRouted(cid)
    BY <2>3 DEF IsRouted
  <2>4. CASE Refusal(toAM, cid)
    BY <2>4 DEF Refusal, ToSet
  <2> QED
    BY <1>1, <2>1, <2>2, <2>3, <2>4 DEF RoutedAt, Settled
<1> QED
  BY <1>1 DEF ConnectedIsRouted

(* routerif_connect, audiomgr_connect and the acknowledgement: a           *)
(* connection that the audio manager believes is on is a route in          *)
(* connlist, or its own connect is still to be handled, or its refusal is  *)
(* on its way: no acknowledgement is ever the last word on a connection    *)
(* that has no route, across any number of restarts, and with any number   *)
(* of messages under way.                                                  *)
THEOREM ConnectedAreRouted == Spec => []ConnectedIsRouted
<1>1. Init => IInv
  BY Initial
<1>2. IInv /\ [Next]_vars => IInv'
  BY Inductive
<1>3. IInv => ConnectedIsRouted
  BY ConnectedRouted
<1> QED
  BY <1>1, <1>2, <1>3, PTL DEF Spec

-----------------------------------------------------------------------------
(* Nodes that are available get known to the audio manager.                *)

(* An audio manager that runs and has no domain is asked for one, or will  *)
(* be when its start is noticed: only an end comes before a start, and     *)
(* after an end nothing comes but a start.                                 *)
AskInv ==
  /\ \A i \in DOMAIN fromAM :
       fromAM[i].m = "up" => IF i = 1 THEN ~amisup ELSE fromAM[i - 1].m = "gone"
  /\ ~am.up => IF fromAM = <<>> THEN ~amisup ELSE fromAM[Len(fromAM)].m = "gone"
  /\ am.up /\ am.domains = 0 =>
       \/ \E i \in DOMAIN toAM : toAM[i] = DomainCall
       \/ \E i \in DOMAIN fromAM : fromAM[i].m = "up"

(* What comes from the audio manager that runs now; what it says of        *)
(* domains and nodes is still so, and its ids grow.                        *)
Fresh(i) == \A j \in DOMAIN fromAM : j >= i => fromAM[j].m # "gone"
OneWay(i, j) == /\ fromAM[i].m = "nodeIs" /\ fromAM[j].m = "nodeIs"
                /\ DirOf[fromAM[i].key] = DirOf[fromAM[j].key]
RepliesRight ==
  \A i \in DOMAIN fromAM : Fresh(i) =>
    /\ fromAM[i].m = "domainIs" => fromAM[i].id \in 1 .. am.domains
    /\ fromAM[i].m = "nodeIs" => fromAM[i].id \in DOMAIN am.reg[DirOf[fromAM[i].key]]
    /\ \A j \in DOMAIN fromAM : i < j /\ OneWay(i, j) => fromAM[i].id < fromAM[j].id

(* The domain is that of the audio manager that runs now.                  *)
Current == domain # None /\ \A i \in DOMAIN fromAM : fromAM[i].m # "gone"

(* Then the ids that are known are its ids, and older than those to come.  *)
Older(d, id) ==
  /\ id \in DOMAIN am.reg[d]
  /\ \A i \in DOMAIN fromAM :
       fromAM[i].m = "nodeIs" /\ DirOf[fromAM[i].key] = d => id < fromAM[i].id
IdsRight ==
  /\ domain \in 1 .. am.domains
  /\ \A n \in Living : nodes[n].amid # None => Older(Direction(n), nodes[n].amid)
  /\ \A m, n \in Living :
       Direction(m) = Direction(n) /\ nodes[m].amid = nodes[n].amid =>
         nodes[m].amid = None \/ m = n
  /\ \A k \in DOMAIN hash : Older(k[1], k[2])

OneNodePerKey == \A m, n \in Living : nodes[m].key = nodes[n].key => m = n

(* No call after the p-th drops a node that is not registered yet, as one  *)
(* meant for an audio manager before this might.                           *)
NoStale(p) ==
  \A q \in DOMAIN toAM :
    q > p /\ toAM[q].m = "deregister" => toAM[q].id \in DOMAIN am.reg[toAM[q].dir]

(* The audio manager has k by this id, and no call under way drops it.     *)
Stands(k, id) ==
  /\ NoStale(0)
  /\ id \in DOMAIN am.reg[DirOf[k]] /\ am.reg[DirOf[k]][id] = k
  /\ \A q \in DOMAIN toAM : toAM[q] # DeregisterCall(DirOf[k], id)

AskedFor(p, k) == /\ toAM[p].m = "register" /\ toAM[p].key = k
                  /\ toAM[p].domain \in 1 .. am.domains
OnWay(k) == \E p \in DOMAIN toAM : AskedFor(p, k) /\ NoStale(p)
Says(i, k) == fromAM[i].m = "nodeIs" /\ fromAM[i].key = k
Answered(k) ==
  \E i \in DOMAIN fromAM : /\ Says(i, k) /\ Stands(k, fromAM[i].id)
                           /\ \A j \in DOMAIN fromAM : j > i => ~Says(j, k)
Known(n) ==
  /\ nodes[n].amid # None /\ Stands(nodes[n].key, nodes[n].amid)
  /\ \A j \in DOMAIN fromAM : ~Says(j, nodes[n].key)
  /\ <<Direction(n), nodes[n].amid>> \in DOMAIN hash
  /\ hash[<<Direction(n), nodes[n].amid>>] = n
Served(n) == OnWay(nodes[n].key) \/ Answered(nodes[n].key) \/ Known(n)

(* Every node that is not withheld is known, or a registration of it is on *)
(* its way there, or the answer on its way back is the last about its key. *)
NodesServed ==
  (\A i \in DOMAIN fromAM : fromAM[i].m # "domainIs") =>
    \A n \in Living : ~nodes[n].withheld => Served(n)

KnownInv == /\ AskInv /\ RepliesRight /\ OneNodePerKey
            /\ Current => IdsRight /\ NodesServed

-----------------------------------------------------------------------------
LEMMA KnownTypes ==
  ASSUME TypeOK
  PROVE  /\ toAM \in Seq(Call) /\ Len(toAM) \in Nat /\ DOMAIN toAM = 1 .. Len(toAM)
         /\ fromAM \in Seq(Reply) /\ Len(fromAM) \in Nat /\ DOMAIN fromAM = 1 .. Len(fromAM)
         /\ \A i \in DOMAIN toAM : toAM[i] \in Call
         /\ \A i \in DOMAIN fromAM : /\ fromAM[i] \in Reply
                                     /\ fromAM[i].m = "nodeIs" =>
                                          fromAM[i].key \in Key /\ fromAM[i].id \in Nat
                                     /\ fromAM[i].m = "domainIs" => fromAM[i].id \in Nat
         /\ am \in ManagerState /\ am.domains \in Nat
         /\ \A d \in Dir : /\ am.reg[d] \in Seq(Key \cup {None}) /\ Len(am.reg[d]) \in Nat
                           /\ DOMAIN am.reg[d] = 1 .. Len(am.reg[d])
         /\ domain \in Nat \cup {None} /\ amisup \in BOOLEAN
         /\ \A k \in Key : DirOf[k] \in Dir
<1>1. /\ toAM \in Seq(Call) /\ fromAM \in Seq(Reply) /\ am \in ManagerState
      /\ domain \in Nat \cup {None} /\ amisup \in BOOLEAN
  BY DEF TypeOK
<1>2. am.domains \in Nat /\ \A d \in Dir : am.reg[d] \in Seq(Key \cup {None})
  BY <1>1 DEF ManagerState
<1>3. \A d \in Dir : Len(am.reg[d]) \in Nat /\ DOMAIN am.reg[d] = 1 .. Len(am.reg[d])
  BY <1>2, ListAt
<1>4. /\ Len(toAM) \in Nat /\ DOMAIN toAM = 1 .. Len(toAM)
      /\ \A i \in DOMAIN toAM : toAM[i] \in Call
      /\ Len(fromAM) \in Nat /\ DOMAIN fromAM = 1 .. Len(fromAM)
      /\ \A i \in DOMAIN fromAM : fromAM[i] \in Reply
  BY <1>1, ListAt
<1>5. \A i \in DOMAIN fromAM :
        /\ fromAM[i].m = "nodeIs" => fromAM[i].key \in Key /\ fromAM[i].id \in Nat
        /\ fromAM[i].m = "domainIs" => fromAM[i].id \in Nat
  BY <1>4, ReplySays
<1> QED
  BY <1>1, <1>2, <1>3, <1>4, <1>5, AudioManagerConfig

(* A list gets longer.                                                     *)
Continues(list, new) ==
  /\ DOMAIN list \subseteq DOMAIN new
  /\ \A j \in DOMAIN list : new[j] = list[j]
  /\ \A j \in DOMAIN new \ DOMAIN list : \A i \in DOMAIN list : i < j

LEMMA ContinuesAppend ==
  ASSUME NEW T, NEW list \in Seq(T), NEW e \in T
  PROVE  /\ Continues(list, Append(list, e))
         /\ \A j \in DOMAIN Append(list, e) \ DOMAIN list :
              j = Len(list) + 1 /\ Append(list, e)[j] = e
         /\ Len(list) + 1 \in DOMAIN Append(list, e) \ DOMAIN list
         /\ Len(Append(list, e)) = Len(list) + 1
<1> DEFINE new == Append(list, e)
<1>1. /\ Len(list) \in Nat /\ DOMAIN list = 1 .. Len(list)
      /\ DOMAIN new = 1 .. Len(list) + 1 /\ Len(new) = Len(list) + 1
      /\ \A j \in 1 .. Len(list) : new[j] = list[j]
      /\ new[Len(list) + 1] = e
  BY AppendAt
<1> HIDE DEF new
<1>2. \A j \in (1 .. Len(list) + 1) \ (1 .. Len(list)) : j = Len(list) + 1
  BY <1>1
<1>3. \A i \in 1 .. Len(list) : i < Len(list) + 1
  BY <1>1
<1>4. 1 .. Len(list) \subseteq 1 .. Len(list) + 1
      /\ Len(list) + 1 \in (1 .. Len(list) + 1) \ (1 .. Len(list))
  BY <1>1
<1> QED
  BY <1>1, <1>2, <1>3, <1>4 DEF Continues, new

LEMMA ContinuesConcat ==
  ASSUME NEW T, NEW list \in Seq(T), NEW more \in Seq(T)
  PROVE  /\ Continues(list, list \o more)
         /\ \A j \in DOMAIN (list \o more) \ DOMAIN list :
              \E i \in DOMAIN more : (list \o more)[j] = more[i] /\ j = Len(list) + i
         /\ \A i \in DOMAIN more : /\ Len(list) + i \in DOMAIN (list \o more) \ DOMAIN list
                                   /\ (list \o more)[Len(list) + i] = more[i]
<1> DEFINE all == list \o more
<1>1. /\ Len(list) \in Nat /\ Len(more) \in Nat
      /\ DOMAIN list = 1 .. Len(list) /\ DOMAIN more = 1 .. Len(more)
      /\ DOMAIN all = 1 .. Len(list) + Len(more)
      /\ \A j \in 1 .. Len(list) + Len(more) :
           all[j] = IF j <= Len(list) THEN list[j] ELSE more[j - Len(list)]
  BY ConcatAt
<1> HIDE DEF all
<1>2. \A j \in 1 .. Len(list) : j \in 1 .. Len(list) + Len(more) /\ j <= Len(list)
  BY <1>1
<1>3. \A j \in DOMAIN all \ DOMAIN list :
        /\ \A i \in DOMAIN list : i < j
        /\ j - Len(list) \in 1 .. Len(more) /\ all[j] = more[j - Len(list)]
        /\ j = Len(list) + (j - Len(list))
  BY <1>1
<1>4. \A i \in DOMAIN more : /\ Len(list) + i \in DOMAIN all \ DOMAIN list
                             /\ all[Len(list) + i] = more[i]
  BY <1>1
<1> QED
  BY <1>1, <1>2, <1>3, <1>4 DEF Continues, all

LEMMA TailPlaces ==
  ASSUME NEW T, NEW list \in Seq(T), list # <<>>
  PROVE  /\ \A j \in DOMAIN Tail(list) : /\ j + 1 \in DOMAIN list /\ Tail(list)[j] = list[j + 1]
                                         /\ j \in DOMAIN list /\ j \in Nat
         /\ \A i \in DOMAIN list : /\ i \in Nat /\ i >= 1
                                   /\ i = 1 \/ /\ i - 1 \in DOMAIN Tail(list) /\ i - 1 >= 1
                                               /\ Tail(list)[i - 1] = list[i]
         /\ 1 \in DOMAIN list /\ Head(list) = list[1]
<1> DEFINE new == Tail(list)
<1>1. /\ Len(list) \in Nat \ {0} /\ DOMAIN list = 1 .. Len(list) /\ Head(list) = list[1]
      /\ DOMAIN new = 1 .. Len(list) - 1
      /\ \A j \in 1 .. Len(list) - 1 : new[j] = list[j + 1]
  BY TailAt
<1> HIDE DEF new
<1>2. \A i \in DOMAIN list : i > 1 => i - 1 \in 1 .. Len(list) - 1 /\ (i - 1) + 1 = i
  BY <1>1
<1>3. \A i \in DOMAIN list : i > 1 => i - 1 \in DOMAIN new /\ i - 1 >= 1 /\ new[i - 1] = list[i]
  BY <1>1, <1>2
<1> QED
  BY <1>1, <1>3 DEF new

-----------------------------------------------------------------------------
(* The audio manager is asked for a domain.                                *)

UpsFollow == \A i \in DOMAIN fromAM :
  fromAM[i].m = "up" => IF i = 1 THEN ~amisup ELSE fromAM[i - 1].m = "gone"
EndsLast == ~am.up => IF fromAM = <<>> THEN ~amisup ELSE fromAM[Len(fromAM)].m = "gone"
Wanted == \/ \E i \in DOMAIN toAM : toAM[i] = DomainCall
          \/ \E i \in DOMAIN fromAM : fromAM[i].m = "up"

LEMMA AskParts ==
  /\ AskInv <=> UpsFollow /\ EndsLast /\ (am.up /\ am.domains = 0 => Wanted)
  /\ AskInv' <=> (UpsFollow /\ EndsLast /\ (am.up /\ am.domains = 0 => Wanted))'
BY DEF AskInv, UpsFollow, EndsLast, Wanted

(* A message more from the audio manager.                                  *)
LEMMA AskAppend ==
  ASSUME TypeOK, AskInv, NEW e \in Reply, fromAM' = Append(fromAM, e), UNCHANGED amisup,
         e.m = "up" => ~am.up, ~am'.up => e.m = "gone"
  PROVE  UpsFollow' /\ EndsLast'
<1>1. fromAM \in Seq(Reply) /\ Len(fromAM) \in Nat /\ DOMAIN fromAM = 1 .. Len(fromAM)
  BY KnownTypes
<1>2. /\ DOMAIN fromAM' = 1 .. Len(fromAM) + 1 /\ Len(fromAM') = Len(fromAM) + 1
      /\ \A j \in 1 .. Len(fromAM) : fromAM'[j] = fromAM[j]
      /\ fromAM'[Len(fromAM) + 1] = e
  BY <1>1, AppendAt
<1>3. EndsLast'
  <2>1. fromAM' # <<>>
    BY <1>1, <1>2
  <2> QED
    BY <1>2, <2>1 DEF EndsLast
<1>4. ASSUME NEW i \in 1 .. Len(fromAM) + 1, fromAM'[i].m = "up"
      PROVE  IF i = 1 THEN ~amisup' ELSE fromAM'[i - 1].m = "gone"
  <2>1. CASE i \in 1 .. Len(fromAM)
    <3>1. IF i = 1 THEN ~amisup ELSE fromAM[i - 1].m = "gone"
      BY <1>1, <1>2, <1>4, <2>1, AskParts DEF UpsFollow
    <3>2. i # 1 => i - 1 \in 1 .. Len(fromAM)
      BY <1>1, <2>1
    <3> QED
      BY <1>2, <3>1, <3>2
  <2>2. CASE i \notin 1 .. Len(fromAM)
    <3>1. i = Len(fromAM) + 1 /\ i - 1 = Len(fromAM)
      BY <1>1, <2>2
    <3>2. IF fromAM = <<>> THEN ~amisup ELSE fromAM[Len(fromAM)].m = "gone"
      BY <1>2, <1>4, <3>1, AskParts DEF EndsLast
    <3>3. CASE fromAM = <<>>
      BY <1>1, <3>1, <3>2, <3>3
    <3>4. CASE fromAM # <<>>
      <4>1. Len(fromAM) \in 1 .. Len(fromAM) /\ i # 1
        BY <1>1, <3>1, <3>4, EmptySeq
      <4> QED
        BY <1>2, <3>1, <3>2, <3>4, <4>1
    <3> QED
      BY <3>3, <3>4
  <2> QED
    BY <2>1, <2>2
<1> QED
  BY <1>2, <1>3, <1>4 DEF UpsFollow

(* The module handles the first message.                                   *)
LEMMA AskTail ==
  ASSUME TypeOK, AskInv, NEW kind, Received(kind), UNCHANGED am, kind = "gone" => ~amisup'
  PROVE  /\ UpsFollow' /\ EndsLast'
         /\ kind # "up" /\ (\E i \in DOMAIN fromAM : fromAM[i].m = "up") =>
              \E i \in DOMAIN fromAM' : fromAM'[i].m = "up"
         /\ kind = "up" => ~amisup
<1>1. /\ fromAM \in Seq(Reply) /\ Len(fromAM) \in Nat /\ DOMAIN fromAM = 1 .. Len(fromAM)
      /\ fromAM # <<>> /\ fromAM' = Tail(fromAM) /\ Head(fromAM).m = kind
  BY KnownTypes DEF Received
<1>2. /\ DOMAIN fromAM' = 1 .. Len(fromAM) - 1 /\ Len(fromAM') = Len(fromAM) - 1
      /\ \A j \in 1 .. Len(fromAM) - 1 : fromAM'[j] = fromAM[j + 1]
      /\ Head(fromAM) = fromAM[1] /\ Len(fromAM) \in Nat \ {0}
      /\ fromAM' \in Seq(Reply)
  BY <1>1, TailAt
<1>3. ASSUME NEW i \in 1 .. Len(fromAM) - 1, fromAM'[i].m = "up"
      PROVE  IF i = 1 THEN ~amisup' ELSE fromAM'[i - 1].m = "gone"
  <2>1. /\ i + 1 \in 1 .. Len(fromAM) /\ i + 1 # 1 /\ (i + 1) - 1 = i
        /\ i # 1 => i - 1 \in 1 .. Len(fromAM) - 1 /\ (i - 1) + 1 = i
    BY <1>2
  <2>2. fromAM[i].m = "gone"
    BY <1>1, <1>2, <1>3, <2>1, AskParts DEF UpsFollow
  <2>3. CASE i = 1
    BY <1>1, <1>2, <2>2, <2>3
  <2>4. CASE i # 1
    BY <1>2, <2>1, <2>2, <2>4
  <2> QED
    BY <2>3, <2>4
<1>4. EndsLast'
  <2> SUFFICES ASSUME ~am.up
               PROVE  IF fromAM' = <<>> THEN ~amisup' ELSE fromAM'[Len(fromAM')].m = "gone"
    BY DEF EndsLast
  <2>1. fromAM[Len(fromAM)].m = "gone"
    BY <1>1, AskParts DEF EndsLast
  <2>2. CASE fromAM' = <<>>
    <3>1. Len(fromAM) = 1
      BY <1>2, <2>2
    <3> QED
      BY <1>1, <1>2, <2>1, <2>2, <3>1
  <2>3. CASE fromAM' # <<>>
    <3>1. Len(fromAM') # 0
      BY <1>2, <2>3, EmptySeq
    <3>2. Len(fromAM) - 1 \in 1 .. Len(fromAM) - 1 /\ (Len(fromAM) - 1) + 1 = Len(fromAM)
      BY <1>2, <3>1
    <3> QED
      BY <1>2, <2>1, <2>3, <3>2
  <2> QED
    BY <2>2, <2>3
<1>5. ASSUME kind # "up", NEW i \in DOMAIN fromAM, fromAM[i].m = "up"
      PROVE  \E j \in DOMAIN fromAM' : fromAM'[j].m = "up"
  <2>1. i # 1
    BY <1>1, <1>2, <1>5
  <2>2. i - 1 \in 1 .. Len(fromAM) - 1 /\ (i - 1) + 1 = i
    BY <1>1, <2>1
  <2> QED
    BY <1>2, <1>5, <2>2
<1>6. kind = "up" => ~amisup
  <2>1. 1 \in DOMAIN fromAM
    BY <1>1, <1>2
  <2> QED
    BY <1>1, <1>2, <2>1, AskParts DEF UpsFollow
<1> QED
  BY <1>2, <1>3, <1>4, <1>5, <1>6 DEF UpsFollow

(* A call that asks for no domain is taken, or calls are added.            *)
LEMMA WantedTail ==
  ASSUME TypeOK, NEW kind, Asked(kind), kind # "domain",
         \E i \in DOMAIN toAM : toAM[i] = DomainCall
  PROVE  \E i \in DOMAIN toAM' : toAM'[i] = DomainCall
<1>1. toAM \in Seq(Call) /\ toAM # <<>> /\ toAM' = Tail(toAM) /\ Head(toAM).m = kind
  BY KnownTypes DEF Asked
<1>2. PICK i \in DOMAIN toAM : toAM[i] = DomainCall
  OBVIOUS
<1>3. Head(toAM) # DomainCall
  BY <1>1 DEF DomainCall
<1>4. /\ \A j \in DOMAIN toAM : j = 1 \/ (j - 1 \in DOMAIN toAM' /\ toAM'[j - 1] = toAM[j])
      /\ Head(toAM) = toAM[1]
  BY <1>1, TailPlaces
<1> QED
  BY <1>2, <1>3, <1>4

LEMMA AskStays ==
  ASSUME AskInv, UNCHANGED <<fromAM, amisup>>, am'.up = am.up,
         am.up /\ am'.domains = 0 => am.domains = 0,
         am.up /\ am'.domains = 0 /\ (\E i \in DOMAIN toAM : toAM[i] = DomainCall) =>
           \E i \in DOMAIN toAM' : toAM'[i] = DomainCall
  PROVE  AskInv'
BY AskParts DEF UpsFollow, EndsLast, Wanted

-----------------------------------------------------------------------------
(* What the audio manager does while it runs: it forgets no id, and its    *)
(* answers tell of what it has now.                                        *)
Grows == /\ am.domains <= am'.domains
         /\ \A d \in Dir : DOMAIN am.reg[d] \subseteq DOMAIN am'.reg[d]
Answers(e) ==
  /\ e \in Reply /\ fromAM' = Append(fromAM, e)
  /\ e.m \in {"domainIs", "nodeIs", "connect", "disconnect"}
  /\ e.m = "domainIs" => e.id \in 1 .. am'.domains
  /\ e.m = "nodeIs" => /\ e.id = Len(am.reg[DirOf[e.key]]) + 1
                       /\ e.id \in DOMAIN am'.reg[DirOf[e.key]]
Works == /\ UNCHANGED module /\ am.up = TRUE /\ am'.up = TRUE /\ Grows
         /\ fromAM' = fromAM \/ \E e : Answers(e)

LEMMA WorksTakes ==
  ASSUME TypeOK, AmTakesDomain \/ AmTakesComplete \/ AmTakesAck \/ AmDropsNode
  PROVE  /\ Works
         /\ am'.reg = am.reg \/ AmDropsNode
         /\ fromAM' = fromAM \/ \E e : Answers(e) /\ e.m = "domainIs"
         /\ toAM # <<>> /\ toAM' = Tail(toAM) /\ Head(toAM).m # "register"
         /\ ~AmTakesDomain => am'.domains = am.domains /\ Head(toAM).m # "domain"
         /\ AmTakesDomain => am'.domains > 0
<1>0. am \in ManagerState /\ am.domains \in Nat /\ am.up \in BOOLEAN /\ fromAM \in Seq(Reply)
  BY KnownTypes DEF ManagerState
<1>1. CASE AmTakesDomain
  <2> DEFINE reply == [m |-> "domainIs", id |-> am.domains + 1]
  <2>1. /\ UNCHANGED module /\ am.up = TRUE /\ toAM # <<>> /\ Head(toAM).m = "domain"
        /\ toAM' = Tail(toAM)
    BY <1>0, <1>1 DEF AmTakesDomain, Asked
  <2>2. CASE am.domains = 0 \/ AcceptsTwice
    <3>1. am' = [am EXCEPT !.domains = @ + 1] /\ fromAM' = Append(fromAM, reply)
      BY <1>1, <2>2 DEF AmTakesDomain
    <3>2. am'.up = am.up /\ am'.domains = am.domains + 1 /\ am'.reg = am.reg
      BY <1>0, <3>1 DEF ManagerState
    <3>3. reply \in Reply /\ reply.m = "domainIs" /\ reply.id = am.domains + 1
      BY <1>0, ReplyTypes
    <3> HIDE DEF reply
    <3>4. Answers(reply) /\ Grows /\ am'.domains > 0
      BY <1>0, <3>1, <3>2, <3>3 DEF Answers, Grows
    <3> QED
      BY <1>1, <2>1, <3>2, <3>3, <3>4 DEF Works
  <2>3. CASE ~(am.domains = 0 \/ AcceptsTwice)
    <3>1. UNCHANGED <<am, fromAM>>
      BY <1>1, <2>3 DEF AmTakesDomain
    <3>2. am'.domains > 0 /\ am'.reg = am.reg /\ Grows
      BY <1>0, <2>3, <3>1 DEF Grows
    <3> QED
      BY <1>1, <2>1, <3>1, <3>2 DEF Works
  <2> QED
    BY <2>2, <2>3
<1>2. CASE AmTakesComplete
  <2> DEFINE has == am.domains > 0
  <2>1. /\ am' = [am EXCEPT !.complete = has] /\ UNCHANGED <<module, fromAM>> /\ am.up = TRUE
        /\ toAM # <<>> /\ Head(toAM).m = "complete" /\ toAM' = Tail(toAM)
    BY <1>0, <1>2 DEF AmTakesComplete, Asked
  <2> HIDE DEF has
  <2>2. am'.up = am.up /\ am'.domains = am.domains /\ am'.reg = am.reg
    BY <1>0, <2>1 DEF ManagerState
  <2>3. Grows
    BY <1>0, <2>2 DEF Grows
  <2>4. ~AmTakesDomain
    BY <2>1 DEF AmTakesDomain, Asked
  <2> QED
    BY <2>1, <2>2, <2>3, <2>4 DEF Works
<1>3. CASE AmTakesAck
  <2> DEFINE call == Head(toAM)
             live == call.conn \in DOMAIN am.conn /\ am.conn[call.conn].state # "ended"
             new == [am.conn EXCEPT ![call.conn].state = IF call.ok THEN "on" ELSE "off"]
  <2>1. /\ am' = IF live THEN [am EXCEPT !.conn = new] ELSE am
        /\ UNCHANGED <<module, fromAM>> /\ am.up = TRUE
        /\ toAM # <<>> /\ Head(toAM).m = "connect_ack" /\ toAM' = Tail(toAM)
    BY <1>0, <1>3 DEF AmTakesAck, Asked
  <2> HIDE DEF new, live
  <2>2. am'.up = am.up /\ am'.domains = am.domains /\ am'.reg = am.reg
    BY <1>0, <2>1 DEF ManagerState
  <2>3. Grows
    BY <1>0, <2>2 DEF Grows
  <2>4. ~AmTakesDomain
    BY <2>1 DEF AmTakesDomain, Asked
  <2> QED
    BY <2>1, <2>2, <2>3, <2>4 DEF Works
<1>4. CASE AmDropsNode
  <2> DEFINE call == Head(toAM)
             new == [am.reg EXCEPT ![call.dir][call.id] = None]
             has == call.id \in DOMAIN am.reg[call.dir]
  <2>1. /\ am' = IF has THEN [am EXCEPT !.reg = new] ELSE am
        /\ UNCHANGED <<module, fromAM>> /\ am.up = TRUE
        /\ toAM # <<>> /\ Head(toAM).m = "deregister" /\ toAM' = Tail(toAM)
    BY <1>0, <1>4 DEF AmDropsNode, Asked
  <2>2. \A d \in Dir : DOMAIN new[d] = DOMAIN am.reg[d]
    BY <1>0 DEF ManagerState
  <2> HIDE DEF new, has
  <2>3. am'.up = am.up /\ am'.domains = am.domains /\ am'.reg \in {am.reg, new}
    BY <1>0, <2>1 DEF ManagerState
  <2>4. Grows
    BY <1>0, <2>2, <2>3 DEF Grows
  <2>5. ~AmTakesDomain
    BY <2>1 DEF AmTakesDomain, Asked
  <2> QED
    BY <1>4, <2>1, <2>3, <2>4, <2>5 DEF Works
<1> QED
  BY <1>1, <1>2, <1>3, <1>4

(* What it drops is what the call names.                                   *)
LEMMA DropsAt ==
  ASSUME TypeOK, AmDropsNode, NEW d \in Dir, NEW id \in DOMAIN am.reg[d],
         Head(toAM) # DeregisterCall(d, id)
  PROVE  am'.reg[d][id] = am.reg[d][id]
<1> DEFINE call == Head(toAM)
<1>1. am \in ManagerState /\ toAM \in Seq(Call) /\ toAM # <<>> /\ call.m = "deregister"
  BY KnownTypes DEF AmDropsNode, Asked
<1>2. call \in Call
  BY <1>1, TailAt
<1>3. call = DeregisterCall(call.dir, call.id) /\ call.dir \in Dir
  BY <1>1, <1>2 DEF Call, DomainCall, DeregisterCall
<1>4. ~(call.dir = d /\ call.id = id)
  BY <1>3
<1>5. am' = IF call.id \in DOMAIN am.reg[call.dir]
            THEN [am EXCEPT !.reg[call.dir][call.id] = None] ELSE am
  BY DEF AmDropsNode
<1> QED
  BY <1>1, <1>4, <1>5 DEF ManagerState

(* A node is registered, or it is not.                                     *)
Registers(call) ==
  /\ call = Head(toAM) /\ call.m = "register" /\ call.key \in Key
  /\ call.domain \in 1 .. am.domains
  /\ am'.domains = am.domains
  /\ \A d \in Dir \ {DirOf[call.key]} : am'.reg[d] = am.reg[d]
  /\ am'.reg[DirOf[call.key]] = Append(am.reg[DirOf[call.key]], call.key)
  /\ fromAM' = Append(fromAM, [m |-> "nodeIs", key |-> call.key,
                               id |-> Len(am.reg[DirOf[call.key]]) + 1])

LEMMA WorksRegisters ==
  ASSUME TypeOK, AmTakesNode
  PROVE  /\ Works
         /\ toAM # <<>> /\ toAM' = Tail(toAM) /\ Head(toAM).m = "register"
         /\ am'.domains = am.domains
         /\ \/ Registers(Head(toAM))
            \/ UNCHANGED <<am, fromAM>> /\ Head(toAM).domain \notin 1 .. am.domains
<1> DEFINE call == Head(toAM)
           d == DirOf[call.key]
           reply == [m |-> "nodeIs", key |-> call.key, id |-> Len(am.reg[d]) + 1]
           list == Append(am.reg[d], call.key)
<1>0. am \in ManagerState /\ am.domains \in Nat /\ am.up \in BOOLEAN /\ toAM \in Seq(Call)
  BY KnownTypes DEF ManagerState
<1>1. /\ UNCHANGED module /\ am.up = TRUE /\ toAM # <<>> /\ toAM' = Tail(toAM)
      /\ call.m = "register"
  BY <1>0 DEF AmTakesNode, Asked
<1>2. call \in Call /\ call.key \in Key /\ d \in Dir
  <2>1. call \in Call
    BY <1>0, <1>1, TailAt
  <2> QED
    BY <1>1, <2>1, CallSays, AudioManagerConfig
<1>3. CASE call.domain \in 1 .. am.domains
  <2>1. am' = [am EXCEPT !.reg[d] = list] /\ fromAM' = Append(fromAM, reply)
    BY <1>3 DEF AmTakesNode
  <2>2. am.reg[d] \in Seq(Key \cup {None}) /\ Len(am.reg[d]) \in Nat
        /\ DOMAIN am.reg[d] = 1 .. Len(am.reg[d])
    BY <1>2, KnownTypes
  <2>3. /\ DOMAIN list = 1 .. Len(am.reg[d]) + 1
        /\ Len(am.reg[d]) + 1 \in DOMAIN list
        /\ DOMAIN am.reg[d] \subseteq DOMAIN list
    <3>1. call.key \in Key \cup {None}
      BY <1>2
    <3>2. DOMAIN list = 1 .. Len(am.reg[d]) + 1
      BY <2>2, <3>1, AppendAt
    <3> QED
      BY <2>2, <3>2
  <2>4. reply \in Reply /\ reply.m = "nodeIs" /\ reply.key = call.key
        /\ reply.id = Len(am.reg[d]) + 1
    BY <1>2, <2>2, ReplyTypes
  <2> HIDE DEF list
  <2>5. /\ am'.up = am.up /\ am'.domains = am.domains /\ am'.reg[d] = list
        /\ \A x \in Dir \ {d} : am'.reg[x] = am.reg[x]
    BY <1>0, <1>2, <2>1 DEF ManagerState
  <2>6. Grows
    BY <1>0, <2>3, <2>5 DEF Grows
  <2>7. Registers(call)
    BY <1>1, <1>2, <1>3, <2>1, <2>5 DEF Registers, list
  <2> HIDE DEF reply
  <2>8. Answers(reply)
    BY <2>1, <2>3, <2>4, <2>5 DEF Answers
  <2> QED
    BY <1>1, <2>5, <2>6, <2>7, <2>8 DEF Works
<1>4. CASE call.domain \notin 1 .. am.domains
  <2>1. am' = am /\ fromAM' = fromAM
    BY <1>4 DEF AmTakesNode
  <2>2. Grows
    BY <1>0, <2>1 DEF Grows
  <2> QED
    BY <1>1, <1>4, <2>1, <2>2 DEF Works
<1> QED
  BY <1>3, <1>4

LEMMA WorksConnections ==
  ASSUME TypeOK, AmConnects \/ AmDisconnects
  PROVE  /\ Works
         /\ UNCHANGED toAM /\ am'.reg = am.reg /\ am'.domains = am.domains
         /\ \E e : Answers(e) /\ e.m \in {"connect", "disconnect"}
<1>0. am \in ManagerState /\ am.domains \in Nat /\ am.up \in BOOLEAN
  BY KnownTypes DEF ManagerState
<1>1. am.up = TRUE /\ UNCHANGED <<module, toAM>>
  BY <1>0 DEF AmConnects, AmDisconnects
<1>2. am'.up = am.up /\ am'.reg = am.reg /\ am'.domains = am.domains
  BY <1>0 DEF AmConnects, AmDisconnects, ManagerState
<1>3. Grows
  BY <1>0, <1>2 DEF Grows
<1>4. PICK e \in Reply : fromAM' = Append(fromAM, e) /\ e.m \in {"connect", "disconnect"}
  <2>1. am.conn \in Seq(Connection)
    BY <1>0 DEF ManagerState
  <2>2. CASE AmConnects
    <3>1. PICK s \in DOMAIN am.reg["input"], t \in DOMAIN am.reg["output"],
               auto \in BOOLEAN :
            fromAM' = Append(fromAM, [m |-> "connect", conn |-> Len(am.conn) + 1,
                                      source |-> s, sink |-> t, auto |-> auto])
      BY <2>2 DEF AmConnects
    <3>2. s \in Nat /\ t \in Nat /\ Len(am.conn) + 1 \in Nat
      <4>1. "input" \in Dir /\ "output" \in Dir
        BY DEF Dir
      <4> QED
        BY <2>1, <4>1, KnownTypes, ListAt
    <3> QED
      BY <3>1, <3>2, ReplyTypes
  <2>3. CASE AmDisconnects
    <3>1. PICK cid \in DOMAIN am.conn :
            fromAM' = Append(fromAM, [m |-> "disconnect", conn |-> cid])
      BY <2>3 DEF AmDisconnects
    <3>2. cid \in Nat
      BY <2>1, ListAt
    <3> QED
      BY <3>1, <3>2, ReplyTypes
  <2> QED
    BY <2>2, <2>3
<1>5. Answers(e)
  BY <1>4 DEF Answers
<1> QED
  BY <1>1, <1>2, <1>3, <1>4, <1>5 DEF Works

LEMMA AskWorks ==
  ASSUME TypeOK, AskInv, Works,
         am'.domains = 0 /\ (\E i \in DOMAIN toAM : toAM[i] = DomainCall) =>
           \E i \in DOMAIN toAM' : toAM'[i] = DomainCall
  PROVE  AskInv'
<1>1. /\ fromAM \in Seq(Reply) /\ am.domains \in Nat /\ UNCHANGED amisup
      /\ am.up = TRUE /\ am'.up = TRUE /\ am.domains <= am'.domains
  BY KnownTypes DEF Works, module, Grows
<1>2. am'.domains = 0 => am.domains = 0
  <2>1. SUFFICES ASSUME am'.domains = 0 PROVE am.domains = 0
    OBVIOUS
  <2> QED
    BY <1>1, <2>1
<1>3. CASE fromAM' = fromAM
  BY <1>1, <1>2, <1>3, AskStays
<1>4. ASSUME NEW e, Answers(e) PROVE AskInv'
  <2>1. e \in Reply /\ fromAM' = Append(fromAM, e) /\ e.m # "up"
    BY <1>4 DEF Answers
  <2>2. UpsFollow' /\ EndsLast'
    BY <1>1, <2>1, AskAppend
  <2>3. Continues(fromAM, fromAM')
    BY <1>1, <2>1, ContinuesAppend
  <2>4. Wanted => Wanted' \/ am'.domains # 0
    BY <2>3 DEF Wanted, Continues
  <2> QED
    BY <1>1, <1>2, <2>2, <2>4, AskParts
<1> QED
  BY <1>3, <1>4 DEF Works

LEMMA AskRestarts ==
  ASSUME TypeOK, AskInv, AmStarts \/ AmStops \/ BusRefuses
  PROVE  AskInv'
<1>1. fromAM \in Seq(Reply) /\ am.up \in BOOLEAN
  BY KnownTypes DEF ManagerState
<1>2. CASE AmStarts
  <2> DEFINE e == [m |-> "up"]
  <2>1. /\ fromAM' = Append(fromAM, e) /\ e \in Reply /\ am' = NewManager /\ ~am.up
        /\ UNCHANGED amisup
    BY <1>2, ReplyTypes DEF AmStarts, module
  <2>2. am'.up = TRUE
    BY <2>1 DEF NewManager
  <2>3. UpsFollow' /\ EndsLast'
    BY <2>1, <2>2, AskAppend
  <2>4. \E i \in DOMAIN fromAM' : fromAM'[i] = e
    BY <1>1, <2>1, ContinuesAppend
  <2>5. Wanted'
    BY <2>4 DEF Wanted
  <2> QED
    BY <2>3, <2>5, AskParts
<1>3. CASE AmStops
  <2> DEFINE e == [m |-> "gone"]
  <2>1. /\ fromAM' = Append(fromAM, e) /\ e \in Reply /\ e.m = "gone" /\ am' = NoManager
        /\ UNCHANGED amisup
    BY <1>3, ReplyTypes DEF AmStops, module
  <2>2. am'.up = FALSE
    BY <2>1 DEF NoManager, NewManager
  <2> HIDE DEF e
  <2>3. UpsFollow' /\ EndsLast'
    BY <2>1, <2>2, AskAppend
  <2> QED
    BY <2>2, <2>3, AskParts
<1>4. CASE BusRefuses
  <2>1. ~am.up /\ UNCHANGED <<am, fromAM, amisup>>
    BY <1>4 DEF BusRefuses, module
  <2> QED
    BY <2>1, AskStays
<1> QED
  BY <1>2, <1>3, <1>4

LEMMA AskManager ==
  ASSUME TypeOK, AskInv,
         Manager \/ AmStarts \/ AmStops \/ AmConnects \/ AmDisconnects
  PROVE  AskInv'
<1>1. am.domains \in Nat
  BY KnownTypes
<1>2. ASSUME AmTakesDomain \/ AmTakesComplete \/ AmTakesAck \/ AmDropsNode \/ AmTakesNode
      PROVE  AskInv'
  <2>1. CASE AmTakesDomain
    <3>1. Works /\ am'.domains > 0
      BY <2>1, WorksTakes
    <3>2. am'.domains # 0
      BY <3>1
    <3> QED
      BY <3>1, <3>2, AskWorks
  <2>2. CASE ~AmTakesDomain
    <3>1. Works /\ Head(toAM).m # "domain"
      BY <1>2, <2>2, WorksTakes, WorksRegisters
    <3>2. PICK kind : Asked(kind)
      BY <1>2 DEF AmTakesDomain, AmTakesComplete, AmTakesAck, AmDropsNode, AmTakesNode
    <3>3. kind # "domain"
      BY <3>1, <3>2 DEF Asked
    <3> QED
      BY <3>1, <3>2, <3>3, WantedTail, AskWorks
  <2> QED
    BY <2>1, <2>2
<1>3. CASE AmConnects \/ AmDisconnects
  BY <1>3, WorksConnections, AskWorks
<1> QED
  BY <1>2, <1>3, AskRestarts DEF Manager

(* Each node that is announced is in the order.                            *)
LEMMA OrderAll ==
  ASSUME NEW T, nodes \in Seq(T), NEW which \in SUBSET DOMAIN nodes,
         NEW order \in SetToSeqs({nodes[n].key : n \in which})
  PROVE  \A k \in {nodes[n].key : n \in which} : \E i \in DOMAIN order : order[i] = k
<1> DEFINE known == {nodes[n].key : n \in which}
           KeyAt == [n \in which |-> nodes[n].key]
           D == 1 .. Cardinality(known)
<1>1. Len(nodes) \in Nat /\ DOMAIN nodes = 1 .. Len(nodes)
  BY ListAt
<1>2. IsFiniteSet(which)
  <2>1. IsFiniteSet(1 .. Len(nodes)) /\ which \in SUBSET (1 .. Len(nodes))
    BY <1>1, FS_Interval
  <2> QED
    BY <2>1, FS_Subset
<1>3. KeyAt \in Surjection(which, known)
  BY DEF Surjection
<1>4. IsFiniteSet(known)
  BY <1>2, <1>3, FS_Surjection
<1>5. Cardinality(known) \in Nat
  BY <1>4, FS_CardinalityType
<1>6. order \in [D -> known] /\ \A i, j \in D : i # j => order[i] # order[j]
  BY DEF SetToSeqs
<1> HIDE DEF known
<1>7. IsFiniteSet(D) /\ Cardinality(D) = Cardinality(known)
  BY <1>5, FS_Interval
<1> HIDE DEF D
<1> DEFINE said == {order[i] : i \in D}
<1>8. said \in SUBSET known
  BY <1>6
<1>9. order \in [D -> said] /\ \A i, j \in D : order[i] = order[j] => i = j
  BY <1>6
<1>10. order \in Injection(D, said)
  BY <1>9 DEF Injection, IsInjective
<1>11. IsFiniteSet(said)
  BY <1>4, <1>8, FS_Subset
<1> HIDE DEF said
<1>12. Cardinality(D) <= Cardinality(said)
  BY <1>10, <1>11, FS_Injection
<1>13. said = known
  BY <1>4, <1>7, <1>8, <1>11, <1>12, FS_Subset, FS_CardinalityType
<1> QED
  BY <1>6, <1>13 DEF said, known

(* The calls of the module.                                                *)
LEMMA DomainCalls ==
  ASSUME TypeOK, DomainRegistered
  PROVE  /\ Continues(toAM, toAM')
         /\ \A j \in DOMAIN toAM' \ DOMAIN toAM : toAM'[j].m \in {"register", "complete"}
         /\ \A n \in Living : Announced(n) =>
              \E j \in DOMAIN toAM' \ DOMAIN toAM :
                toAM'[j] = RegisterCall(nodes[n].key, Head(fromAM).id)
<1> DEFINE dom == Head(fromAM).id
           announced == {n \in Living : nodes[n].available \/ nodes[n].key \in Gateway}
           known == {nodes[n].key : n \in announced}
<1>1. toAM \in Seq(Call) /\ nodes \in Seq(Node) /\ dom \in Nat
  BY Arrived, ReplySays, Parts DEF DomainRegistered, TypeOK
<1>2. PICK order \in SetToSeqs(known) :
        toAM' = toAM \o Append(Registrations(order, dom), [m |-> "complete"])
  BY DEF DomainRegistered, DomainIs, DomainUp, Announced
<1>3. /\ announced \in SUBSET DOMAIN nodes /\ \A n \in announced : nodes[n].key \in Key
      /\ \A n \in Living : Announced(n) => nodes[n].key \in known
  BY NodesAt, Parts DEF Announced
<1> HIDE DEF announced
<1>4. order \in Seq(Key)
  BY <1>1, <1>2, <1>3, OrderType
<1>5. \A k \in known : \E i \in DOMAIN order : order[i] = k
  BY <1>1, <1>2, <1>3, OrderAll
<1> DEFINE regs == Registrations(order, dom)
           more == Append(regs, [m |-> "complete"])
<1>6. regs \in Seq(Call) /\ [m |-> "complete"] \in Call
  BY <1>1, <1>4, RegistrationsType, CallTypes
<1>7. DOMAIN regs = DOMAIN order /\ \A i \in DOMAIN order : regs[i] = RegisterCall(order[i], dom)
  BY DEF Registrations
<1> HIDE DEF regs
<1>8. /\ more \in Seq(Call) /\ DOMAIN more = 1 .. Len(regs) + 1 /\ Len(regs) \in Nat
      /\ DOMAIN regs = 1 .. Len(regs)
      /\ \A j \in 1 .. Len(regs) : more[j] = regs[j]
      /\ more[Len(regs) + 1] = [m |-> "complete"]
  BY <1>6, AppendAt
<1>9. \A i \in DOMAIN order : RegisterCall(order[i], dom).m = "register"
  BY DEF RegisterCall
<1>10. \A j \in DOMAIN more : more[j].m \in {"register", "complete"}
  <2>1. [m |-> "complete"].m = "complete"
    OBVIOUS
  <2>2. \A j \in DOMAIN more : j \in 1 .. Len(regs) \/ j = Len(regs) + 1
    BY <1>8
  <2> QED
    BY <1>7, <1>8, <1>9, <2>1, <2>2
<1>11. \A i \in DOMAIN order : i \in DOMAIN more /\ more[i] = RegisterCall(order[i], dom)
  BY <1>7, <1>8
<1> HIDE DEF more
<1>12. toAM' = toAM \o more
  BY <1>2 DEF more, regs
<1>13. more \in Seq(Call) /\ toAM \in Seq(Call)
  BY <1>1, <1>8
<1>14. /\ Continues(toAM, toAM')
       /\ \A j \in DOMAIN toAM' \ DOMAIN toAM :
            \E i \in DOMAIN more : toAM'[j] = more[i] /\ j = Len(toAM) + i
       /\ \A i \in DOMAIN more : /\ Len(toAM) + i \in DOMAIN toAM' \ DOMAIN toAM
                                 /\ toAM'[Len(toAM) + i] = more[i]
  BY <1>12, <1>13, ContinuesConcat
<1>15. \A j \in DOMAIN toAM' \ DOMAIN toAM : toAM'[j].m \in {"register", "complete"}
  BY <1>10, <1>14
<1>16. ASSUME NEW n \in Living, Announced(n)
       PROVE  \E j \in DOMAIN toAM' \ DOMAIN toAM :
                toAM'[j] = RegisterCall(nodes[n].key, dom)
  <2>1. PICK i \in DOMAIN order : order[i] = nodes[n].key
    BY <1>3, <1>5, <1>16
  <2> QED
    BY <1>11, <1>14, <2>1
<1> QED
  BY <1>14, <1>15, <1>16

LEMMA ConnectCalls ==
  ASSUME TypeOK, Connect
  PROVE  \E call \in Call : toAM' = Append(toAM, call) /\ call.m = "connect_ack"
<1> DEFINE cd == Head(fromAM)
           ok == {<<"input", cd.source>>, <<"output", cd.sink>>} \subseteq DOMAIN hash
<1>1. cd.conn \in Nat /\ cd.auto \in BOOLEAN
  BY Arrived, ReplySays, Parts DEF Connect
<1>2. toAM' = Append(toAM, ConnectAck(cd.conn, ok \/ cd.auto))
  BY DEF Connect
<1>3. (ok \/ cd.auto) \in BOOLEAN
  OBVIOUS
<1> HIDE DEF ok
<1> DEFINE said == ok \/ cd.auto
<1>4. said \in BOOLEAN /\ toAM' = Append(toAM, ConnectAck(cd.conn, said))
  BY <1>2, <1>3
<1> HIDE DEF said
<1> QED
  BY <1>1, <1>4, CallTypes, AckSays

LEMMA EventCalls ==
  ASSUME TypeOK, NodeEvents
  PROVE  Plain(toAM, toAM')
<1>1. ASSUME NEW k \in Key, NEW available \in BOOLEAN, CreateNode(k, available)
      PROVE  Plain(toAM, toAM')
  BY <1>1, RegisterNodePlain DEF CreateNode, Plain
<1>2. ASSUME NEW n \in Living, DestroyNode(n) \/ Moves(n)
      PROVE  Plain(toAM, toAM')
  <2>1. CASE UnregisterNode(n)
    BY <2>1, UnregisterNodePlain
  <2>2. CASE RegisterNode(nodes[n].key)
    <3>1. nodes[n].key \in Key
      BY NodesAt, Parts
    <3> QED
      BY <2>2, <3>1, RegisterNodePlain
  <2> QED
    BY <1>2, <2>1, <2>2 DEF DestroyNode, UpdateNodeAvailability, Moves, DeviceGone, DeviceBack,
       Plain
<1> QED
  BY <1>1, <1>2 DEF NodeEvents, Moves

LEMMA AskModule ==
  ASSUME TypeOK, DownInv, AskInv,
         \/ Messages \/ NodeEvents
         \/ ExtConnect \/ ExtConnectFails \/ ExtDisconnect \/ UNCHANGED vars
  PROVE  AskInv'
<1>0. toAM \in Seq(Call)
  BY KnownTypes
<1>1. ASSUME NEW kind, Received(kind), UNCHANGED am, kind = "gone" => ~amisup',
             DOMAIN toAM \subseteq DOMAIN toAM', \A j \in DOMAIN toAM : toAM'[j] = toAM[j],
             kind = "up" => \E i \in DOMAIN toAM' : toAM'[i] = DomainCall
      PROVE  AskInv'
  <2>1. /\ UpsFollow' /\ EndsLast'
        /\ kind # "up" /\ (\E i \in DOMAIN fromAM : fromAM[i].m = "up") =>
             \E i \in DOMAIN fromAM' : fromAM'[i].m = "up"
    BY <1>1, AskTail
  <2>2. Wanted => Wanted'
    BY <1>1, <2>1 DEF Wanted
  <2> QED
    BY <1>1, <2>1, <2>2, AskParts
<1>2. CASE HandleUp
  <2>1. Received("up") /\ UNCHANGED <<am, amisup>>
    BY <1>2 DEF HandleUp, module
  <2>2. ~amisup
    BY <2>1, AskTail
  <2>3. toAM' = Append(toAM, DomainCall) /\ DomainCall \in Call
    BY <1>2, <2>2, CallTypes DEF HandleUp
  <2>4. /\ Continues(toAM, toAM') /\ Len(toAM) + 1 \in DOMAIN toAM'
        /\ toAM'[Len(toAM) + 1] = DomainCall
    BY <1>0, <2>3, ContinuesAppend
  <2> QED
    BY <1>1, <2>1, <2>4 DEF Continues
<1>3. CASE HandleGone
  BY <1>1, <1>3 DEF HandleGone
<1>4. CASE DomainRegistered
  <2>1. Received("domainIs") /\ UNCHANGED am
    BY <1>4 DEF DomainRegistered
  <2>2. DOMAIN toAM \subseteq DOMAIN toAM' /\ \A j \in DOMAIN toAM : toAM'[j] = toAM[j]
    BY <1>4, DomainCalls DEF Continues
  <2> QED
    BY <1>1, <2>1, <2>2
<1>5. CASE NodeRegistered
  BY <1>1, <1>5 DEF NodeRegistered
<1>6. CASE Connect
  <2>1. Received("connect") /\ UNCHANGED am
    BY <1>6 DEF Connect
  <2>2. PICK call \in Call : toAM' = Append(toAM, call)
    BY <1>6, ConnectCalls
  <2>3. DOMAIN toAM \subseteq DOMAIN toAM' /\ \A j \in DOMAIN toAM : toAM'[j] = toAM[j]
    BY <1>0, <2>2, ContinuesAppend DEF Continues
  <2> QED
    BY <1>1, <2>1, <2>3
<1>7. CASE Disconnect
  BY <1>1, <1>7 DEF Disconnect
<1>8. CASE NodeEvents
  <2>1. UNCHANGED <<fromAM, amisup, am>>
    BY <1>8 DEF NodeEvents, CreateNode, DestroyNode, UpdateNodeAvailability, DeviceGone,
    DeviceBack
  <2>2. DOMAIN toAM \subseteq DOMAIN toAM' /\ \A j \in DOMAIN toAM : toAM'[j] = toAM[j]
    BY <1>8, EventCalls DEF Plain
  <2> QED
    BY <2>1, <2>2, AskStays
<1>9. CASE ExtConnect \/ ExtConnectFails \/ ExtDisconnect \/ UNCHANGED vars
  <2>1. UNCHANGED <<fromAM, amisup, am, toAM>>
    BY <1>9 DEF ExtConnect, ExtConnectFails, ExtDisconnect, vars, module
  <2> QED
    BY <2>1, AskStays
<1> QED
  BY <1>2, <1>3, <1>4, <1>5, <1>6, <1>7, <1>8, <1>9 DEF Messages

-----------------------------------------------------------------------------
(* What the audio manager says stays right.                                *)

LEMMA RepliesWorks ==
  ASSUME TypeOK, TypeOK', RepliesRight, Works
  PROVE  RepliesRight'
<1>0. /\ fromAM \in Seq(Reply) /\ am.domains \in Nat /\ am'.domains \in Nat
      /\ Len(fromAM) \in Nat /\ DOMAIN fromAM = 1 .. Len(fromAM)
      /\ am.domains <= am'.domains
      /\ \A d \in Dir : DOMAIN am.reg[d] \subseteq DOMAIN am'.reg[d]
      /\ \A d \in Dir : Len(am.reg[d]) \in Nat /\ DOMAIN am.reg[d] = 1 .. Len(am.reg[d])
  BY KnownTypes DEF Works, Grows, TypeOK, ManagerState
<1>1. \A i \in DOMAIN fromAM : fromAM[i].m = "nodeIs" => DirOf[fromAM[i].key] \in Dir
  BY KnownTypes
<1>2. CASE fromAM' = fromAM
  <2> SUFFICES ASSUME NEW i \in DOMAIN fromAM, Fresh(i)
               PROVE  /\ fromAM[i].m = "domainIs" => fromAM[i].id \in 1 .. am'.domains
                      /\ fromAM[i].m = "nodeIs" =>
                           fromAM[i].id \in DOMAIN am'.reg[DirOf[fromAM[i].key]]
                      /\ \A j \in DOMAIN fromAM :
                           i < j /\ OneWay(i, j) => fromAM[i].id < fromAM[j].id
    BY <1>2 DEF RepliesRight, Fresh, OneWay
  <2>1. /\ fromAM[i].m = "domainIs" => fromAM[i].id \in 1 .. am.domains
        /\ fromAM[i].m = "nodeIs" => fromAM[i].id \in DOMAIN am.reg[DirOf[fromAM[i].key]]
        /\ \A j \in DOMAIN fromAM : i < j /\ OneWay(i, j) => fromAM[i].id < fromAM[j].id
    BY DEF RepliesRight
  <2>2. 1 .. am.domains \subseteq 1 .. am'.domains
    BY <1>0
  <2> QED
    BY <1>0, <1>1, <2>1, <2>2
<1>3. ASSUME NEW e, Answers(e) PROVE RepliesRight'
  <2> DEFINE new == Len(fromAM) + 1
  <2>1. /\ e \in Reply /\ fromAM' = Append(fromAM, e)
        /\ e.m = "domainIs" => e.id \in 1 .. am'.domains
        /\ e.m = "nodeIs" => /\ e.id = Len(am.reg[DirOf[e.key]]) + 1
                             /\ e.id \in DOMAIN am'.reg[DirOf[e.key]]
    BY <1>3 DEF Answers
  <2>2. /\ DOMAIN fromAM' = 1 .. Len(fromAM) + 1
        /\ \A j \in 1 .. Len(fromAM) : fromAM'[j] = fromAM[j]
        /\ fromAM'[new] = e
    BY <1>0, <2>1, AppendAt
  <2>3. e.m = "nodeIs" => DirOf[e.key] \in Dir
    BY <2>1, ReplySays, AudioManagerConfig
  <2>4. ASSUME NEW i \in 1 .. Len(fromAM), Fresh(i)'
        PROVE  /\ fromAM'[i].m = "domainIs" => fromAM'[i].id \in 1 .. am'.domains
               /\ fromAM'[i].m = "nodeIs" =>
                    fromAM'[i].id \in DOMAIN am'.reg[DirOf[fromAM'[i].key]]
               /\ \A j \in DOMAIN fromAM' :
                    i < j /\ OneWay(i, j)' => fromAM'[i].id < fromAM'[j].id
    <3>1. Fresh(i)
      <4>1. \A j \in DOMAIN fromAM : j \in DOMAIN fromAM' /\ fromAM'[j] = fromAM[j]
        BY <1>0, <2>2
      <4> QED
        BY <2>4, <4>1 DEF Fresh
    <3>2. /\ fromAM[i].m = "domainIs" => fromAM[i].id \in 1 .. am.domains
          /\ fromAM[i].m = "nodeIs" => fromAM[i].id \in DOMAIN am.reg[DirOf[fromAM[i].key]]
          /\ \A j \in DOMAIN fromAM : i < j /\ OneWay(i, j) => fromAM[i].id < fromAM[j].id
      BY <1>0, <3>1 DEF RepliesRight
    <3>3. 1 .. am.domains \subseteq 1 .. am'.domains
      BY <1>0
    <3>4. ASSUME NEW j \in DOMAIN fromAM', i < j, OneWay(i, j)'
          PROVE  fromAM'[i].id < fromAM'[j].id
      <4>1. CASE j \in 1 .. Len(fromAM)
        BY <1>0, <2>2, <3>2, <3>4, <4>1 DEF OneWay
      <4>2. CASE j \notin 1 .. Len(fromAM)
        <5>1. j = new
          BY <1>0, <2>2, <4>2
        <5>2. /\ e.m = "nodeIs" /\ fromAM[i].m = "nodeIs"
              /\ DirOf[fromAM[i].key] = DirOf[e.key]
          BY <2>2, <3>4, <5>1 DEF OneWay
        <5>3. fromAM[i].id \in 1 .. Len(am.reg[DirOf[e.key]])
          BY <1>0, <2>3, <3>2, <5>2
        <5>4. Len(am.reg[DirOf[e.key]]) \in Nat
          BY <1>0, <2>3, <5>2
        <5> QED
          BY <2>1, <2>2, <5>1, <5>2, <5>3, <5>4
      <4> QED
        BY <4>1, <4>2
    <3>5. fromAM[i].m = "nodeIs" => DirOf[fromAM[i].key] \in Dir
      BY <1>0, <1>1
    <3> QED
      BY <1>0, <2>2, <3>2, <3>3, <3>4, <3>5
  <2>5. /\ fromAM'[new].m = "domainIs" => fromAM'[new].id \in 1 .. am'.domains
        /\ fromAM'[new].m = "nodeIs" =>
             fromAM'[new].id \in DOMAIN am'.reg[DirOf[fromAM'[new].key]]
        /\ \A j \in DOMAIN fromAM' : ~(new < j)
    BY <1>0, <2>1, <2>2
  <2>6. \A i \in DOMAIN fromAM' : i \in 1 .. Len(fromAM) \/ i = new
    BY <1>0, <2>2
  <2> HIDE DEF new
  <2> QED
    BY <2>4, <2>5, <2>6 DEF RepliesRight
<1> QED
  BY <1>2, <1>3 DEF Works

(* What an audio manager said before its end is no more held to be so.     *)
LEMMA RepliesRestarts ==
  ASSUME TypeOK, AskInv, RepliesRight, AmStarts \/ AmStops \/ BusRefuses
  PROVE  RepliesRight'
<1>0. fromAM \in Seq(Reply) /\ Len(fromAM) \in Nat /\ DOMAIN fromAM = 1 .. Len(fromAM)
  BY KnownTypes
<1>1. CASE BusRefuses
  BY <1>1 DEF BusRefuses, RepliesRight, Fresh, OneWay
<1>2. ASSUME NEW e \in Reply, fromAM' = Append(fromAM, e)
      PROVE  /\ DOMAIN fromAM' = 1 .. Len(fromAM) + 1
             /\ \A j \in 1 .. Len(fromAM) : fromAM'[j] = fromAM[j]
             /\ fromAM'[Len(fromAM) + 1] = e
  BY <1>0, <1>2, AppendAt
<1>3. CASE AmStops
  <2> DEFINE e == [m |-> "gone"]
  <2>1. e \in Reply /\ fromAM' = Append(fromAM, e) /\ e.m = "gone"
    BY <1>3, ReplyTypes DEF AmStops
  <2> HIDE DEF e
  <2>2. \A i \in DOMAIN fromAM' : /\ Len(fromAM) + 1 \in DOMAIN fromAM'
                                  /\ Len(fromAM) + 1 >= i
                                  /\ fromAM'[Len(fromAM) + 1].m = "gone"
    BY <1>0, <1>2, <2>1
  <2>3. \A i \in DOMAIN fromAM' : ~Fresh(i)'
    BY <2>2 DEF Fresh
  <2> QED
    BY <2>3 DEF RepliesRight
<1>4. CASE AmStarts
  <2> DEFINE e == [m |-> "up"]
             new == Len(fromAM) + 1
  <2>1. e \in Reply /\ fromAM' = Append(fromAM, e) /\ e.m = "up" /\ ~am.up
    BY <1>4, ReplyTypes DEF AmStarts
  <2> HIDE DEF e
  <2>2. /\ DOMAIN fromAM' = 1 .. Len(fromAM) + 1
        /\ \A j \in 1 .. Len(fromAM) : fromAM'[j] = fromAM[j]
        /\ fromAM'[new] = e
    BY <1>2, <2>1
  <2>3. ASSUME NEW i \in 1 .. Len(fromAM) PROVE ~Fresh(i)'
    <3>1. fromAM # <<>>
      BY <1>0
    <3>2. fromAM[Len(fromAM)].m = "gone"
      BY <2>1, <3>1, AskParts DEF EndsLast
    <3>3. Len(fromAM) \in 1 .. Len(fromAM) /\ Len(fromAM) >= i /\ Len(fromAM) \in DOMAIN fromAM'
      BY <1>0, <2>2
    <3>4. fromAM'[Len(fromAM)].m = "gone"
      BY <2>2, <3>2, <3>3
    <3> QED
      BY <3>3, <3>4 DEF Fresh
  <2>4. /\ fromAM'[new].m \notin {"domainIs", "nodeIs"}
        /\ \A j \in DOMAIN fromAM' : ~(new < j)
    BY <1>0, <2>1, <2>2
  <2>5. \A i \in DOMAIN fromAM' : i \in 1 .. Len(fromAM) \/ i = new
    BY <1>0, <2>2
  <2> HIDE DEF new
  <2> QED
    BY <2>3, <2>4, <2>5 DEF RepliesRight
<1> QED
  BY <1>1, <1>3, <1>4

LEMMA RepliesModule ==
  ASSUME TypeOK, RepliesRight, UNCHANGED am,
         fromAM' = fromAM \/ \E kind : Received(kind)
  PROVE  RepliesRight'
<1>0. fromAM \in Seq(Reply) /\ Len(fromAM) \in Nat /\ DOMAIN fromAM = 1 .. Len(fromAM)
  BY KnownTypes
<1>1. CASE fromAM' = fromAM
  BY <1>1 DEF RepliesRight, Fresh, OneWay
<1>2. ASSUME NEW kind, Received(kind) PROVE RepliesRight'
  <2>1. fromAM # <<>> /\ fromAM' = Tail(fromAM)
    BY <1>2 DEF Received
  <2>2. /\ \A j \in DOMAIN fromAM' : /\ j + 1 \in DOMAIN fromAM /\ fromAM'[j] = fromAM[j + 1]
                                     /\ j \in Nat /\ j \in DOMAIN fromAM
        /\ \A i \in DOMAIN fromAM : /\ i \in Nat
                                    /\ i = 1 \/ /\ i - 1 \in DOMAIN fromAM'
                                                /\ fromAM'[i - 1] = fromAM[i]
    BY <1>0, <2>1, TailPlaces
  <2>3. ASSUME NEW i \in DOMAIN fromAM', Fresh(i)' PROVE Fresh(i + 1)
    <3>1. ASSUME NEW j \in DOMAIN fromAM, j >= i + 1 PROVE fromAM[j].m # "gone"
      <4>1. i >= 1
        BY <1>0, <2>2
      <4>2. j # 1 /\ j - 1 >= i
        BY <2>2, <3>1, <4>1
      <4> QED
        BY <2>2, <2>3, <4>2 DEF Fresh
    <3> QED
      BY <3>1 DEF Fresh
  <2>4. \A i, j \in DOMAIN fromAM' : /\ i < j => i + 1 < j + 1
                                     /\ OneWay(i, j)' => OneWay(i + 1, j + 1)
    BY <2>2 DEF OneWay
  <2>5. \A i \in DOMAIN fromAM' : Fresh(i)' =>
          /\ fromAM[i + 1].m = "domainIs" => fromAM[i + 1].id \in 1 .. am.domains
          /\ fromAM[i + 1].m = "nodeIs" =>
               fromAM[i + 1].id \in DOMAIN am.reg[DirOf[fromAM[i + 1].key]]
          /\ \A j \in DOMAIN fromAM :
               i + 1 < j /\ OneWay(i + 1, j) => fromAM[i + 1].id < fromAM[j].id
    BY <2>2, <2>3 DEF RepliesRight
  <2> QED
    BY <2>2, <2>4, <2>5 DEF RepliesRight
<1> QED
  BY <1>1, <1>2

-----------------------------------------------------------------------------
(* Two nodes with one key never exist together.                            *)

KeepsNodes ==
  /\ DOMAIN nodes' = DOMAIN nodes
  /\ \A n \in DOMAIN nodes : /\ nodes'[n].key = nodes[n].key
                             /\ nodes'[n].living => nodes[n].living

LEMMA KeepsLiving ==
  ASSUME KeepsNodes
  PROVE  \A n \in Living' : n \in Living /\ n \in DOMAIN nodes /\ Direction(n)' = Direction(n)
BY DEF KeepsNodes, Living, Direction

LEMMA CreatedNode ==
  ASSUME TypeOK, NEW k, NEW available, CreateNode(k, available)
  PROVE  /\ Len(nodes) + 1 \in Living' /\ Len(nodes) + 1 \notin DOMAIN nodes
         /\ nodes'[Len(nodes) + 1] = [key |-> k, living |-> TRUE, available |-> available,
                                      withheld |-> ~available, amid |-> None]
         /\ \A n \in Living' :
              n = Len(nodes) + 1 \/ (n \in Living /\ nodes'[n] = nodes[n])
         /\ \A n \in Living : nodes[n].key # k
<1> DEFINE new == [key |-> k, living |-> TRUE, available |-> available,
                        withheld |-> ~available, amid |-> None]
<1>1. nodes \in Seq(Node) /\ nodes' = Append(nodes, new)
  BY DEF TypeOK, CreateNode
<1>2. nodes \in Seq(Node \cup {new}) /\ new \in Node \cup {new} /\ new.living = TRUE
  BY <1>1
<1> HIDE DEF new
<1>3. /\ DOMAIN nodes = 1 .. Len(nodes) /\ DOMAIN nodes' = 1 .. Len(nodes) + 1
      /\ Len(nodes) \in Nat
      /\ \A j \in 1 .. Len(nodes) : nodes'[j] = nodes[j]
      /\ nodes'[Len(nodes) + 1] = new
  BY <1>1, <1>2, AppendAt
<1>4. \A n \in DOMAIN nodes' : n = Len(nodes) + 1 \/ n \in DOMAIN nodes
  BY <1>3
<1>5. Len(nodes) + 1 \in DOMAIN nodes' /\ Len(nodes) + 1 \notin DOMAIN nodes
  BY <1>3
<1>6. \A n \in Living : nodes[n].key # k
  BY DEF CreateNode
<1>7. Len(nodes) + 1 \in Living'
  BY <1>2, <1>3, <1>5 DEF Living
<1>8. ASSUME NEW n \in Living' PROVE n = Len(nodes) + 1 \/ (n \in Living /\ nodes'[n] = nodes[n])
  <2>1. n \in DOMAIN nodes' /\ nodes'[n].living
    BY DEF Living
  <2>2. ASSUME n \in DOMAIN nodes PROVE n \in Living /\ nodes'[n] = nodes[n]
    <3>1. nodes'[n] = nodes[n]
      BY <1>3, <2>2
    <3> QED
      BY <2>1, <2>2, <3>1 DEF Living
  <2> QED
    BY <1>4, <2>1, <2>2
<1>9. nodes'[Len(nodes) + 1] = [key |-> k, living |-> TRUE, available |-> available,
                                withheld |-> ~available, amid |-> None]
  BY <1>3 DEF new
<1> QED
  BY <1>5, <1>6, <1>7, <1>8, <1>9

LEMMA KeptNodes ==
  ASSUME TypeOK, [Next]_vars, ~\E k \in Key, available \in BOOLEAN : CreateNode(k, available)
  PROVE  KeepsNodes
<1>0. /\ \A n \in DOMAIN nodes : nodes[n] \in Node
      /\ Living \subseteq DOMAIN nodes
  BY NodesAt, Parts
<1>1. UNCHANGED nodes => KeepsNodes
  BY DEF KeepsNodes
<1>2. ASSUME NEW n \in Living, DestroyNode(n) \/ Moves(n)
      PROVE  KeepsNodes
  <2>1. CASE DestroyNode(n)
    <3>1. nodes' = [nodes EXCEPT ![n].living = FALSE]
      BY <2>1 DEF DestroyNode
    <3> QED
      BY <1>0, <3>1 DEF KeepsNodes, Node
  <2>2. CASE Moves(n)
    BY <2>2, MovedNode, Parts DEF KeepsNodes
  <2> QED
    BY <1>2, <2>1, <2>2
<1>3. CASE HandleGone
  <2>1. CASE amisup
    BY <1>0, <1>3, <2>1 DEF HandleGone, UnregisterDomain, KeepsNodes, Node
  <2>2. CASE ~amisup
    BY <1>1, <1>3, <2>2 DEF HandleGone
  <2> QED
    BY <2>1, <2>2
<1>4. CASE DomainRegistered
  <2>1. /\ DOMAIN nodes' = DOMAIN nodes
        /\ \A j \in DOMAIN nodes :
             nodes'[j] = IF j \in Living
                         THEN [nodes[j] EXCEPT !.amid = None, !.withheld = ~Announced(j)]
                         ELSE nodes[j]
    BY <1>4 DEF DomainRegistered, DomainIs, DomainUp
  <2> QED
    BY <2>1, UpNode, Parts DEF KeepsNodes
<1>5. CASE NodeRegistered
  BY <1>0, <1>5 DEF NodeRegistered, KeepsNodes, Node
<1>6. CASE NodeEvents
  BY <1>2, <1>6 DEF NodeEvents, Moves
<1>7. CASE Manager \/ AmStarts \/ AmStops \/ AmConnects \/ AmDisconnects
  <2>1. UNCHANGED nodes
    BY <1>7 DEF Manager, AmTakesDomain, AmTakesComplete, AmTakesNode, AmDropsNode, AmTakesAck,
       BusRefuses, AmStarts, AmStops, AmConnects, AmDisconnects, module
  <2> QED
    BY <1>1, <2>1
<1>8. CASE \/ HandleUp \/ Connect \/ Disconnect
           \/ ExtConnect \/ ExtConnectFails \/ ExtDisconnect \/ UNCHANGED vars
  <2>1. UNCHANGED nodes
    BY <1>8 DEF HandleUp, Connect, Disconnect, ExtConnect, ExtConnectFails, ExtDisconnect,
       vars, module
  <2> QED
    BY <1>1, <2>1
<1> QED
  BY <1>3, <1>4, <1>5, <1>6, <1>7, <1>8 DEF Next, Messages

LEMMA KeysStep ==
  ASSUME TypeOK, OneNodePerKey, [Next]_vars
  PROVE  OneNodePerKey'
<1>1. ASSUME NEW k \in Key, NEW available \in BOOLEAN, CreateNode(k, available)
      PROVE  OneNodePerKey'
  <2> DEFINE new == Len(nodes) + 1
  <2>1. /\ nodes'[new] = [key |-> k, living |-> TRUE, available |-> available,
                        withheld |-> ~available, amid |-> None]
        /\ \A n \in Living' : n = new \/ (n \in Living /\ nodes'[n] = nodes[n])
        /\ \A n \in Living : nodes[n].key # k
    BY <1>1, CreatedNode
  <2> HIDE DEF new
  <2>2. nodes'[new].key = k
    BY <2>1
  <2> QED
    BY <2>1, <2>2 DEF OneNodePerKey
<1>2. ASSUME ~\E k \in Key, available \in BOOLEAN : CreateNode(k, available)
      PROVE  OneNodePerKey'
  <2>1. KeepsNodes
    BY <1>2, KeptNodes
  <2>2. \A n \in Living' : n \in Living /\ nodes'[n].key = nodes[n].key
    BY <2>1, KeepsLiving DEF KeepsNodes
  <2> QED
    BY <2>2 DEF OneNodePerKey
<1> QED
  BY <1>1, <1>2

-----------------------------------------------------------------------------
(* When the domain is that of the audio manager that runs.                 *)

LEMMA CurrentTail ==
  ASSUME TypeOK, NEW kind, Received(kind), Current', UNCHANGED domain, kind # "gone"
  PROVE  Current
<1>1. fromAM \in Seq(Reply) /\ fromAM # <<>> /\ fromAM' = Tail(fromAM) /\ Head(fromAM).m = kind
  BY KnownTypes DEF Received
<1>2. /\ \A i \in DOMAIN fromAM : \/ i = 1
                                  \/ i - 1 \in DOMAIN fromAM' /\ fromAM'[i - 1] = fromAM[i]
      /\ Head(fromAM) = fromAM[1]
  BY <1>1, TailPlaces
<1>3. ASSUME NEW i \in DOMAIN fromAM PROVE fromAM[i].m # "gone"
  <2>1. CASE i = 1
    BY <1>1, <1>2, <2>1
  <2>2. CASE i # 1
    BY <1>2, <2>2 DEF Current
  <2> QED
    BY <2>1, <2>2
<1> QED
  BY <1>3 DEF Current

LEMMA CurrentWorks ==
  ASSUME TypeOK, Works, Current'
  PROVE  Current
<1>1. Continues(fromAM, fromAM')
  <2>1. ASSUME NEW e, Answers(e) PROVE Continues(fromAM, fromAM')
    <3>1. e \in Reply /\ fromAM' = Append(fromAM, e) /\ fromAM \in Seq(Reply)
      BY <2>1, KnownTypes DEF Answers
    <3> QED
      BY <3>1, ContinuesAppend
  <2> QED
    BY <2>1 DEF Works, Continues
<1>2. UNCHANGED domain
  BY DEF Works, module
<1> QED
  BY <1>1, <1>2 DEF Current, Continues

(* Between a start or an end of the audio manager and the handling of the  *)
(* end that is announced, the domain is not that of the one that runs.     *)
LEMMA CurrentEnds ==
  ASSUME TypeOK, DownInv, AskInv,
         AmStarts \/ AmStops \/ BusRefuses \/ HandleUp \/ HandleGone
  PROVE  ~Current'
<1>0. fromAM \in Seq(Reply) /\ Len(fromAM) \in Nat /\ DOMAIN fromAM = 1 .. Len(fromAM)
  BY KnownTypes
<1>1. ASSUME ~am.up, UNCHANGED domain, Continues(fromAM, fromAM')
      PROVE  ~Current'
  <2>1. CASE fromAM = <<>>
    BY <1>1, <2>1, AskParts DEF EndsLast, DownInv, Current
  <2>2. CASE fromAM # <<>>
    <3>1. Len(fromAM) \in DOMAIN fromAM
      BY <1>0, <2>2, EmptySeq
    <3>2. fromAM[Len(fromAM)].m = "gone"
      BY <1>1, <2>2, AskParts DEF EndsLast
    <3> QED
      BY <1>1, <3>1, <3>2 DEF Current, Continues
  <2> QED
    BY <2>1, <2>2
<1>2. CASE AmStarts
  <2> DEFINE e == [m |-> "up"]
  <2>1. e \in Reply /\ fromAM' = Append(fromAM, e) /\ ~am.up /\ UNCHANGED domain
    BY <1>2, ReplyTypes DEF AmStarts, module
  <2> HIDE DEF e
  <2>2. Continues(fromAM, fromAM')
    BY <1>0, <2>1, ContinuesAppend
  <2> QED
    BY <1>1, <2>1, <2>2
<1>3. CASE BusRefuses
  <2>1. ~am.up /\ UNCHANGED <<domain, fromAM>>
    BY <1>3 DEF BusRefuses, module
  <2> QED
    BY <1>1, <2>1 DEF Continues
<1>4. CASE AmStops
  <2> DEFINE e == [m |-> "gone"]
  <2>1. e \in Reply /\ fromAM' = Append(fromAM, e) /\ e.m = "gone"
    BY <1>4, ReplyTypes DEF AmStops
  <2> HIDE DEF e
  <2>2. /\ Len(fromAM) + 1 \in DOMAIN fromAM'
        /\ fromAM'[Len(fromAM) + 1] = e
    BY <1>0, <2>1, ContinuesAppend
  <2> QED
    BY <2>1, <2>2 DEF Current
<1>5. CASE HandleUp
  <2>1. Received("up") /\ UNCHANGED <<am, amisup, domain>>
    BY <1>5 DEF HandleUp, module
  <2>2. ~amisup
    BY <2>1, AskTail
  <2> QED
    BY <2>1, <2>2 DEF DownInv, Current
<1>6. CASE HandleGone
  BY <1>6 DEF HandleGone, UnregisterDomain, DownInv, Current
<1> QED
  BY <1>2, <1>3, <1>4, <1>5, <1>6

-----------------------------------------------------------------------------
(* The ids that are known stay right.                                      *)

LEMMA OlderStays ==
  ASSUME TypeOK, NEW d \in Dir, NEW id, Older(d, id), Grows,
         \/ fromAM' = fromAM
         \/ \E kind : Received(kind)
         \/ \E e : Answers(e)
  PROVE  Older(d, id)'
<1>0. /\ fromAM \in Seq(Reply) /\ id \in DOMAIN am'.reg[d]
      /\ id \in 1 .. Len(am.reg[d]) /\ Len(am.reg[d]) \in Nat
  BY KnownTypes DEF Grows, Older
<1>1. CASE fromAM' = fromAM
  BY <1>0, <1>1 DEF Older
<1>2. ASSUME NEW kind, Received(kind) PROVE Older(d, id)'
  <2>1. \A j \in DOMAIN fromAM' : j + 1 \in DOMAIN fromAM /\ fromAM'[j] = fromAM[j + 1]
    BY <1>0, <1>2, TailPlaces DEF Received
  <2> QED
    BY <1>0, <2>1 DEF Older
<1>3. ASSUME NEW e, Answers(e) PROVE Older(d, id)'
  <2>1. e \in Reply /\ fromAM' = Append(fromAM, e)
    BY <1>3 DEF Answers
  <2>2. /\ \A j \in DOMAIN fromAM : fromAM'[j] = fromAM[j]
        /\ \A j \in DOMAIN fromAM' : j \in DOMAIN fromAM \/ fromAM'[j] = e
    BY <1>0, <2>1, ContinuesAppend DEF Continues
  <2>3. e.m = "nodeIs" /\ DirOf[e.key] = d => id < e.id
    <3>1. SUFFICES ASSUME e.m = "nodeIs", DirOf[e.key] = d PROVE id < e.id
      OBVIOUS
    <3>2. e.id = Len(am.reg[d]) + 1
      BY <1>3, <3>1 DEF Answers
    <3> QED
      BY <1>0, <3>2
  <2> QED
    BY <1>0, <2>2, <2>3 DEF Older
<1> QED
  BY <1>1, <1>2, <1>3

LEMMA HashKeys ==
  ASSUME TypeOK
  PROVE  \A k \in DOMAIN hash : k[1] \in Dir /\ k[2] \in Nat
BY DEF TypeOK

LEMMA IdsStay ==
  ASSUME TypeOK, TypeOK', IdsRight, UNCHANGED domain, Grows,
         \/ fromAM' = fromAM
         \/ \E kind : Received(kind)
         \/ \E e : Answers(e),
         \A n \in Living' : \/ nodes'[n].amid = None
                            \/ /\ n \in Living /\ Direction(n)' = Direction(n)
                               /\ nodes'[n].amid = nodes[n].amid,
         DOMAIN hash' \subseteq DOMAIN hash
  PROVE  IdsRight'
<1>1. domain' \in 1 .. am'.domains
  <2>1. domain \in 1 .. am.domains
    BY DEF IdsRight
  <2>2. am.domains <= am'.domains /\ am.domains \in Nat /\ UNCHANGED domain
    BY KnownTypes DEF Grows
  <2>3. am'.domains \in Nat
    BY DEF TypeOK, ManagerState
  <2> QED
    BY <2>1, <2>2, <2>3
<1>2. \A d \in Dir : \A id : Older(d, id) => Older(d, id)'
  BY OlderStays
<1>3. \A n \in Living : Direction(n) \in Dir
  BY NodesAt, Parts
<1>4. ASSUME NEW n \in Living', nodes'[n].amid # None
      PROVE  Older(Direction(n), nodes[n].amid)'
  <2>1. /\ n \in Living /\ Direction(n)' = Direction(n)
        /\ nodes'[n].amid = nodes[n].amid
    BY <1>4
  <2>2. Older(Direction(n), nodes[n].amid)
    BY <1>4, <2>1 DEF IdsRight
  <2> QED
    BY <1>2, <1>3, <2>1, <2>2 DEF Older
<1>5. ASSUME NEW m \in Living', NEW n \in Living', Direction(m)' = Direction(n)',
             nodes'[m].amid = nodes'[n].amid, nodes'[m].amid # None
      PROVE  m = n
  BY <1>5 DEF IdsRight
<1>6. \A k \in DOMAIN hash' : Older(k[1], k[2])'
  BY <1>2, HashKeys DEF IdsRight
<1> QED
  BY <1>1, <1>4, <1>5, <1>6 DEF IdsRight

(* The domain is registered: the nodes have no ids yet.                    *)
LEMMA IdsDomain ==
  ASSUME TypeOK, DownInv, RepliesRight, Current => IdsRight, DomainRegistered, Current'
  PROVE  IdsRight' /\ Head(fromAM).id \in 1 .. am.domains
<1> DEFINE dom == Head(fromAM).id
<1>0. /\ fromAM \in Seq(Reply) /\ fromAM # <<>> /\ Head(fromAM).m = "domainIs"
      /\ fromAM' = Tail(fromAM) /\ domain' = dom /\ UNCHANGED <<hash, am>>
      /\ Received("domainIs")
  BY KnownTypes DEF DomainRegistered, DomainIs, Received
<1>1. /\ 1 \in DOMAIN fromAM /\ fromAM[1] = Head(fromAM)
      /\ \A i \in DOMAIN fromAM : \/ i = 1
                                  \/ i - 1 \in DOMAIN fromAM' /\ fromAM'[i - 1] = fromAM[i]
  BY <1>0, TailPlaces
<1>2. \A i \in DOMAIN fromAM : fromAM[i].m # "gone"
  <2>1. ASSUME NEW i \in DOMAIN fromAM PROVE fromAM[i].m # "gone"
    <3>1. CASE i = 1
      BY <1>0, <1>1, <3>1
    <3>2. CASE i # 1
      BY <1>1, <3>2 DEF Current
    <3> QED
      BY <3>1, <3>2
  <2> QED
    BY <2>1
<1>3. dom \in 1 .. am.domains
  <2>1. Fresh(1)
    BY <1>2 DEF Fresh
  <2> QED
    BY <1>0, <1>1, <2>1 DEF RepliesRight
<1>4. \A n \in Living' : nodes'[n].amid = None
  <2>1. KeepsNodes /\ Living \subseteq DOMAIN nodes
    <3>1. [Next]_vars
      BY DEF Next, Messages
    <3>2. ~\E k \in Key, available \in BOOLEAN : CreateNode(k, available)
      <4>1. \A k, available : CreateNode(k, available) => UNCHANGED fromAM
        BY DEF CreateNode
      <4>2. fromAM' # fromAM
        <5>1. Len(fromAM') = Len(fromAM) - 1 /\ Len(fromAM) \in Nat
          BY <1>0, TailAt
        <5> QED
          BY <5>1
      <4> QED
        BY <4>1, <4>2
    <3> QED
      BY <3>1, <3>2, KeptNodes, NodesAt, Parts
  <2>2. \A n \in DOMAIN nodes : n \in Living =>
          nodes'[n] = [nodes[n] EXCEPT !.amid = None, !.withheld = ~Announced(n)]
    BY DEF DomainRegistered, DomainIs, DomainUp
  <2>3. \A n \in Living : nodes'[n].amid = None
    BY <2>1, <2>2, UpNode, Parts
  <2> QED
    BY <2>1, <2>3, KeepsLiving
<1>5. \A k \in DOMAIN hash : Older(k[1], k[2])'
  <2>1. CASE domain = None
    BY <2>1 DEF DownInv
  <2>2. CASE domain # None
    <3>1. IdsRight
      BY <1>2, <2>2 DEF Current
    <3>2. Grows
      BY <1>0, KnownTypes DEF Grows
    <3> QED
      BY <1>0, <3>1, <3>2, HashKeys, OlderStays DEF IdsRight
  <2> QED
    BY <2>1, <2>2
<1> QED
  BY <1>0, <1>3, <1>4, <1>5 DEF IdsRight

(* A node gets its id, which is newer than all that are known and older    *)
(* than all that are still to be told.                                     *)
LEMMA RegisteredNode ==
  ASSUME TypeOK, OneNodePerKey, RepliesRight, Current, IdsRight, NodeRegistered,
         NEW reply, reply = Head(fromAM),
         NEW key, key = <<DirOf[reply.key], reply.id>>
  PROVE  /\ reply.key \in Key /\ reply.id \in Nat
         /\ Older(DirOf[reply.key], reply.id)'
         /\ \A d \in Dir : \A id : Older(d, id) => Older(d, id)'
         /\ \A d \in Dir : \A id : Older(d, id) => <<d, id>> # key
         /\ key \notin DOMAIN hash /\ DOMAIN hash' \subseteq DOMAIN hash \cup {key}
         /\ \A k \in DOMAIN hash : k \in DOMAIN hash' /\ hash'[k] = hash[k]
         /\ DOMAIN nodes' = DOMAIN nodes /\ Living' = Living
         /\ \A n \in Living :
              IF nodes[n].key = reply.key
              THEN /\ nodes'[n] = [nodes[n] EXCEPT !.amid = reply.id]
                   /\ key \in DOMAIN hash' /\ hash'[key] = n
              ELSE nodes'[n] = nodes[n]
<1> DEFINE d0 == DirOf[reply.key]
           found == {n \in Living : nodes[n].key = reply.key}
           node == CHOOSE n \in found : TRUE
<1>0. /\ fromAM \in Seq(Reply) /\ fromAM # <<>> /\ reply.m = "nodeIs" /\ reply \in Reply
      /\ fromAM' = Tail(fromAM) /\ UNCHANGED am
      /\ Received("nodeIs")
  BY KnownTypes, Arrived, Parts DEF NodeRegistered, Received
<1>1. /\ 1 \in DOMAIN fromAM /\ fromAM[1] = reply
      /\ \A j \in DOMAIN fromAM' : /\ j + 1 \in DOMAIN fromAM /\ fromAM'[j] = fromAM[j + 1]
                                   /\ j \in DOMAIN fromAM
  BY <1>0, TailPlaces
<1>2. reply.key \in Key /\ reply.id \in Nat /\ d0 \in Dir
  BY <1>0, ReplySays, AudioManagerConfig
<1>3. /\ nodes' = [n \in DOMAIN nodes |->
                     IF n \in found THEN [nodes[n] EXCEPT !.amid = reply.id] ELSE nodes[n]]
      /\ hash' = IF found = {} THEN hash ELSE Put(hash, key, node)
  BY DEF NodeRegistered
<1>4. DOMAIN fromAM = 1 .. Len(fromAM) /\ Len(fromAM) \in Nat
  BY KnownTypes
<1>5. Fresh(1)
  BY DEF Fresh, Current
<1>6. reply.id \in DOMAIN am.reg[d0]
  BY <1>0, <1>1, <1>5 DEF RepliesRight
<1>7. \A j \in DOMAIN fromAM' : fromAM'[j].m = "nodeIs" /\ DirOf[fromAM'[j].key] = d0 =>
        reply.id < fromAM'[j].id
  <2>1. ASSUME NEW j \in DOMAIN fromAM', fromAM'[j].m = "nodeIs", DirOf[fromAM'[j].key] = d0
        PROVE  reply.id < fromAM'[j].id
    <3>1. j + 1 \in DOMAIN fromAM /\ fromAM'[j] = fromAM[j + 1] /\ 1 < j + 1
      BY <1>1, <1>4
    <3>2. OneWay(1, j + 1)
      BY <1>0, <1>1, <2>1, <3>1 DEF OneWay
    <3> QED
      BY <1>1, <1>5, <3>1, <3>2 DEF RepliesRight
  <2> QED
    BY <2>1
<1>8. Older(d0, reply.id)'
  BY <1>0, <1>6, <1>7 DEF Older
<1>9. \A d \in Dir : \A id : Older(d, id) => Older(d, id)'
  <2>1. Grows
    BY <1>0, KnownTypes DEF Grows
  <2> QED
    BY <1>0, <2>1, OlderStays
<1>10. ASSUME NEW d \in Dir, NEW id, Older(d, id) PROVE <<d, id>> # key
  <2>1. SUFFICES ASSUME d = d0, id = reply.id PROVE FALSE
    OBVIOUS
  <2>2. reply.id < reply.id
    BY <1>0, <1>1, <1>10, <2>1 DEF Older
  <2> QED
    BY <1>2, <2>2
<1>11. key \notin DOMAIN hash
  <2>1. ASSUME key \in DOMAIN hash PROVE FALSE
    <3>1. Older(key[1], key[2])
      BY <2>1 DEF IdsRight
    <3>2. key[1] = d0 /\ key[2] = reply.id
      OBVIOUS
    <3> QED
      BY <1>2, <1>10, <3>1, <3>2
  <2> QED
    BY <2>1
<1>12. hash \in [DOMAIN hash -> DOMAIN nodes]
  BY DEF TypeOK
<1>13. /\ DOMAIN hash' \subseteq DOMAIN hash \cup {key}
       /\ \A k \in DOMAIN hash : k \in DOMAIN hash' /\ hash'[k] = hash[k]
       /\ found # {} => key \in DOMAIN hash' /\ hash'[key] = node
  <2>1. CASE found = {}
    BY <1>3, <2>1
  <2>2. CASE found # {}
    BY <1>3, <1>11, <2>2 DEF Put
  <2> QED
    BY <2>1, <2>2
<1>14. \A n \in DOMAIN nodes : nodes[n] \in Node
  BY NodesAt, Parts
<1>15. DOMAIN nodes' = DOMAIN nodes /\ Living' = Living
  BY <1>3, <1>14 DEF Living, Node
<1>16. ASSUME NEW n \in Living
       PROVE  IF nodes[n].key = reply.key
              THEN /\ nodes'[n] = [nodes[n] EXCEPT !.amid = reply.id]
                   /\ key \in DOMAIN hash' /\ hash'[key] = n
              ELSE nodes'[n] = nodes[n]
  <2>1. n \in DOMAIN nodes
    BY DEF Living
  <2>2. CASE nodes[n].key = reply.key
    <3>1. n \in found /\ \A m \in found : m = n
      BY <2>2 DEF OneNodePerKey
    <3>2. node = n
      BY <3>1
    <3> QED
      BY <1>3, <1>13, <2>1, <2>2, <3>1, <3>2
  <2>3. CASE nodes[n].key # reply.key
    BY <1>3, <2>1, <2>3
  <2> QED
    BY <2>2, <2>3
<1> QED
  BY <1>2, <1>8, <1>9, <1>10, <1>11, <1>13, <1>15, <1>16

LEMMA IdsRegistered ==
  ASSUME TypeOK, OneNodePerKey, RepliesRight, Current, IdsRight, NodeRegistered
  PROVE  IdsRight'
<1>0. PICK reply, key : reply = Head(fromAM) /\ key = <<DirOf[reply.key], reply.id>>
  OBVIOUS
<1> DEFINE d0 == DirOf[reply.key]
<1>1. /\ reply.key \in Key /\ reply.id \in Nat
      /\ Older(d0, reply.id)'
      /\ \A d \in Dir : \A id : Older(d, id) => Older(d, id)'
      /\ \A d \in Dir : \A id : Older(d, id) => <<d, id>> # key
      /\ DOMAIN hash' \subseteq DOMAIN hash \cup {key}
      /\ Living' = Living
      /\ \A n \in Living : IF nodes[n].key = reply.key
                           THEN nodes'[n] = [nodes[n] EXCEPT !.amid = reply.id]
                           ELSE nodes'[n] = nodes[n]
  BY <1>0, RegisteredNode
<1>2. UNCHANGED <<am, domain>>
  BY DEF NodeRegistered
<1>3. \A n \in Living : nodes[n] \in Node /\ Direction(n) \in Dir
  BY NodesAt, Parts
<1>4. ASSUME NEW n \in Living
      PROVE  /\ nodes'[n].key = nodes[n].key /\ Direction(n)' = Direction(n)
             /\ nodes[n].key = reply.key => nodes'[n].amid = reply.id /\ Direction(n) = d0
             /\ nodes[n].key # reply.key => nodes'[n].amid = nodes[n].amid
  <2>1. nodes'[n].key = nodes[n].key
    BY <1>1, <1>3 DEF Node
  <2> QED
    BY <1>1, <1>3, <2>1 DEF Node, Direction
<1>5. ASSUME NEW n \in Living, nodes'[n].amid # None
      PROVE  Older(Direction(n), nodes[n].amid)'
  <2>1. CASE nodes[n].key = reply.key
    BY <1>1, <1>4, <2>1 DEF Older
  <2>2. CASE nodes[n].key # reply.key
    <3>1. Older(Direction(n), nodes[n].amid)
      BY <1>4, <1>5, <2>2 DEF IdsRight
    <3> QED
      BY <1>1, <1>3, <1>4, <2>2, <3>1 DEF Older
  <2> QED
    BY <2>1, <2>2
<1>6. ASSUME NEW m \in Living, NEW n \in Living, nodes[m].key = reply.key,
             nodes[n].key # reply.key, Direction(m) = Direction(n),
             nodes'[m].amid = nodes'[n].amid
      PROVE  FALSE
  <2>1. nodes[n].amid = reply.id /\ reply.id # None /\ Direction(n) = d0
    BY <1>1, <1>4, <1>6, AudioManagerConfig
  <2>2. Older(Direction(n), nodes[n].amid)
    BY <2>1 DEF IdsRight
  <2> QED
    BY <1>0, <1>1, <1>3, <2>1, <2>2
<1>7. ASSUME NEW m \in Living, NEW n \in Living, Direction(m)' = Direction(n)',
             nodes'[m].amid = nodes'[n].amid
      PROVE  nodes'[m].amid = None \/ m = n
  <2>0. Direction(m) = Direction(n)
    BY <1>4, <1>7
  <2>1. CASE nodes[m].key = reply.key /\ nodes[n].key = reply.key
    BY <2>1 DEF OneNodePerKey
  <2>2. CASE nodes[m].key # reply.key /\ nodes[n].key # reply.key
    BY <1>4, <1>7, <2>0, <2>2 DEF IdsRight
  <2> QED
    BY <1>6, <1>7, <2>0, <2>1, <2>2
<1>8. \A k \in DOMAIN hash' : Older(k[1], k[2])'
  <2>1. key[1] = d0 /\ key[2] = reply.id
    BY <1>0
  <2>2. \A k \in DOMAIN hash : Older(k[1], k[2])'
    BY <1>1, HashKeys DEF IdsRight
  <2> QED
    BY <1>1, <2>1, <2>2
<1>9. domain' \in 1 .. am'.domains
  BY <1>2 DEF IdsRight
<1> QED
  BY <1>1, <1>5, <1>7, <1>8, <1>9 DEF IdsRight

-----------------------------------------------------------------------------
(* Calls are added, of which none drops a node that is not registered.     *)

AddsCalls ==
  /\ Continues(toAM, toAM') /\ UNCHANGED am
  /\ \A q \in DOMAIN toAM' \ DOMAIN toAM :
       toAM'[q].m = "deregister" => toAM'[q].id \in DOMAIN am.reg[toAM'[q].dir]

LEMMA StaleMore ==
  ASSUME AddsCalls, NEW p, NoStale(p)
  PROVE  NoStale(p)'
BY DEF AddsCalls, Continues, NoStale

LEMMA OnWayMore ==
  ASSUME AddsCalls, NEW k, OnWay(k)
  PROVE  OnWay(k)'
<1>1. PICK p \in DOMAIN toAM : AskedFor(p, k) /\ NoStale(p)
  BY DEF OnWay
<1>2. NoStale(p)'
  BY <1>1, StaleMore
<1>3. p \in DOMAIN toAM' /\ AskedFor(p, k)'
  BY <1>1 DEF AddsCalls, Continues, AskedFor
<1> QED
  BY <1>2, <1>3 DEF OnWay

LEMMA StandsMore ==
  ASSUME AddsCalls, NEW k, NEW id, Stands(k, id),
         \A q \in DOMAIN toAM' \ DOMAIN toAM : toAM'[q] # DeregisterCall(DirOf[k], id)
  PROVE  Stands(k, id)'
<1>1. NoStale(0)'
  BY StaleMore DEF Stands
<1>2. \A q \in DOMAIN toAM' : toAM'[q] # DeregisterCall(DirOf[k], id)
  BY DEF AddsCalls, Continues, Stands
<1>3. id \in DOMAIN am'.reg[DirOf[k]] /\ am'.reg[DirOf[k]][id] = k
  BY DEF AddsCalls, Stands
<1> QED
  BY <1>1, <1>2, <1>3 DEF Stands, DeregisterCall

(* The audio manager takes the first call.                                 *)
TakesCall == /\ toAM # <<>> /\ toAM' = Tail(toAM) /\ Grows

LEMMA StaleTail ==
  ASSUME TypeOK, TakesCall, NEW p \in Nat, NoStale(p), NEW r \in Nat, r + 1 >= p
  PROVE  NoStale(r)'
<1>1. \A j \in DOMAIN toAM' : /\ j + 1 \in DOMAIN toAM /\ toAM'[j] = toAM[j + 1]
                              /\ j \in Nat
  BY KnownTypes, TailPlaces DEF TakesCall
<1>2. \A q \in DOMAIN toAM : toAM[q].m = "deregister" => toAM[q].dir \in Dir
  BY KnownTypes, CallSays
<1>3. ASSUME NEW q \in DOMAIN toAM', q > r, toAM'[q].m = "deregister"
      PROVE  toAM'[q].id \in DOMAIN am'.reg[toAM'[q].dir]
  <2>1. q + 1 \in DOMAIN toAM /\ q + 1 > p /\ toAM'[q] = toAM[q + 1]
    BY <1>1, <1>3
  <2>2. toAM[q + 1].id \in DOMAIN am.reg[toAM[q + 1].dir] /\ toAM[q + 1].dir \in Dir
    BY <1>2, <1>3, <2>1 DEF NoStale
  <2> QED
    BY <2>1, <2>2 DEF TakesCall, Grows
<1> QED
  BY <1>3 DEF NoStale

LEMMA OnWayTail ==
  ASSUME TypeOK, TakesCall, NEW k, NEW p \in DOMAIN toAM, p # 1, AskedFor(p, k), NoStale(p),
         am'.domains \in Nat
  PROVE  OnWay(k)'
<1>1. /\ p \in Nat /\ p >= 1 /\ p - 1 \in DOMAIN toAM' /\ p - 1 >= 1
      /\ toAM'[p - 1] = toAM[p]
  BY KnownTypes, TailPlaces DEF TakesCall
<1>2. p - 1 \in Nat /\ (p - 1) + 1 >= p
  BY <1>1
<1>3. \A r \in Nat : r + 1 >= p => NoStale(r)'
  BY <1>1, StaleTail
<1>4. \A r : r = p - 1 => NoStale(r)'
  BY <1>2, <1>3
<1>5. \A r : r = p - 1 => AskedFor(r, k)'
  <2>1. am.domains <= am'.domains /\ am.domains \in Nat
    BY KnownTypes DEF TakesCall, Grows
  <2>2. 1 .. am.domains \subseteq 1 .. am'.domains
    BY <2>1
  <2> QED
    BY <1>1, <2>2 DEF AskedFor
<1> QED
  BY <1>1, <1>4, <1>5 DEF OnWay

LEMMA StandsTail ==
  ASSUME TypeOK, TakesCall, NEW k \in Key, NEW id, Stands(k, id),
         am'.reg[DirOf[k]][id] = am.reg[DirOf[k]][id]
  PROVE  Stands(k, id)'
<1>1. NoStale(0)'
  BY StaleTail DEF Stands
<1>2. \A q \in DOMAIN toAM' : q + 1 \in DOMAIN toAM /\ toAM'[q] = toAM[q + 1]
  BY KnownTypes, TailPlaces DEF TakesCall
<1>3. \A q \in DOMAIN toAM' : toAM'[q] # DeregisterCall(DirOf[k], id)
  BY <1>2 DEF Stands
<1>4. id \in DOMAIN am'.reg[DirOf[k]] /\ am'.reg[DirOf[k]][id] = k
  BY AudioManagerConfig DEF Stands, TakesCall, Grows
<1> QED
  BY <1>1, <1>3, <1>4 DEF Stands, DeregisterCall

(* Nothing is said or heard about the key.                                 *)
Unsaid(k) ==
  \/ fromAM' = fromAM
  \/ /\ fromAM # <<>> /\ fromAM' = Tail(fromAM)
     /\ ~(Head(fromAM).m = "nodeIs" /\ Head(fromAM).key = k)
  \/ \E e \in Reply : /\ fromAM' = Append(fromAM, e)
                      /\ ~(e.m = "nodeIs" /\ e.key = k)
SaysIn(list, i, k) == list[i].m = "nodeIs" /\ list[i].key = k
LastIn(list, i, k) == /\ i \in DOMAIN list /\ SaysIn(list, i, k)
                      /\ \A j \in DOMAIN list : j > i => ~SaysIn(list, j, k)

LEMMA UnsaidPlaces ==
  ASSUME TypeOK, NEW k, Unsaid(k)
  PROVE  /\ \A i : LastIn(fromAM, i, k) =>
              \E x : LastIn(fromAM', x, k) /\ fromAM'[x] = fromAM[i]
         /\ (\A j \in DOMAIN fromAM : ~SaysIn(fromAM, j, k)) =>
              \A j \in DOMAIN fromAM' : ~SaysIn(fromAM', j, k)
<1>0. fromAM \in Seq(Reply)
  BY KnownTypes
<1>1. CASE fromAM' = fromAM
  BY <1>1
<1>2. CASE /\ fromAM # <<>> /\ fromAM' = Tail(fromAM)
           /\ ~(Head(fromAM).m = "nodeIs" /\ Head(fromAM).key = k)
  <2>1. /\ \A j \in DOMAIN fromAM' : /\ j + 1 \in DOMAIN fromAM /\ fromAM'[j] = fromAM[j + 1]
                                     /\ j \in Nat
        /\ \A i \in DOMAIN fromAM : /\ i \in Nat /\ i >= 1
                                    /\ i = 1 \/ /\ i - 1 \in DOMAIN fromAM'
                                                /\ fromAM'[i - 1] = fromAM[i]
        /\ Head(fromAM) = fromAM[1]
    BY <1>0, <1>2, TailPlaces
  <2>2. ASSUME NEW i, LastIn(fromAM, i, k)
        PROVE  LastIn(fromAM', i - 1, k) /\ fromAM'[i - 1] = fromAM[i]
    <3>1. i \in DOMAIN fromAM /\ i # 1 /\ i \in Nat
      BY <1>2, <2>1, <2>2 DEF LastIn, SaysIn
    <3>2. i - 1 \in DOMAIN fromAM' /\ fromAM'[i - 1] = fromAM[i]
      BY <2>1, <3>1
    <3>3. ASSUME NEW j \in DOMAIN fromAM', j > i - 1 PROVE ~SaysIn(fromAM', j, k)
      <4>1. j + 1 \in DOMAIN fromAM /\ fromAM'[j] = fromAM[j + 1] /\ j + 1 > i
        BY <2>1, <3>1, <3>3
      <4> QED
        BY <2>2, <4>1 DEF LastIn, SaysIn
    <3> QED
      BY <2>2, <3>2, <3>3 DEF LastIn, SaysIn
  <2> QED
    BY <2>1, <2>2 DEF SaysIn
<1>3. ASSUME NEW e \in Reply, fromAM' = Append(fromAM, e), ~(e.m = "nodeIs" /\ e.key = k)
      PROVE  /\ \A i : LastIn(fromAM, i, k) => LastIn(fromAM', i, k) /\ fromAM'[i] = fromAM[i]
             /\ (\A j \in DOMAIN fromAM : ~SaysIn(fromAM, j, k)) =>
                  \A j \in DOMAIN fromAM' : ~SaysIn(fromAM', j, k)
  <2>1. /\ \A j \in DOMAIN fromAM : j \in DOMAIN fromAM' /\ fromAM'[j] = fromAM[j]
        /\ \A j \in DOMAIN fromAM' : j \in DOMAIN fromAM \/ fromAM'[j] = e
    BY <1>0, <1>3, ContinuesAppend DEF Continues
  <2> QED
    BY <1>3, <2>1 DEF LastIn, SaysIn
<1> QED
  BY <1>1, <1>2, <1>3 DEF Unsaid

LEMMA ServedParts ==
  ASSUME NEW k
  PROVE  /\ Answered(k) <=> \E i : LastIn(fromAM, i, k) /\ Stands(k, fromAM[i].id)
         /\ Answered(k)' <=> \E i : LastIn(fromAM', i, k) /\ Stands(k, fromAM[i].id)'
BY DEF Answered, LastIn, SaysIn, Says, Stands

(* A node stays known, or stays to be known, when its own answers, its id  *)
(* and what the audio manager has under it are left alone.                 *)
LEMMA ServedStays ==
  ASSUME TypeOK, NEW n \in Living, NEW k \in Key, k = nodes[n].key,
         NEW amid, amid = nodes[n].amid,
         nodes'[n].key = k, nodes'[n].amid = amid, Unsaid(k),
         OnWay(k) => OnWay(k)',
         \A id : /\ Stands(k, id)
                 /\ id = amid \/ \E i \in DOMAIN fromAM : SaysIn(fromAM, i, k) /\ fromAM[i].id = id
                 => Stands(k, id)',
         \A x \in DOMAIN hash : x = <<DirOf[k], amid>> => x \in DOMAIN hash' /\ hash'[x] = hash[x],
         Served(n)
  PROVE  Served(n)'
<1>1. ASSUME Answered(k) PROVE Answered(k)'
  <2>1. PICK i : LastIn(fromAM, i, k) /\ Stands(k, fromAM[i].id)
    BY <1>1, ServedParts
  <2>2. PICK x : LastIn(fromAM', x, k) /\ fromAM'[x] = fromAM[i]
    BY <2>1, UnsaidPlaces
  <2>3. PICK id : id = fromAM[i].id
    OBVIOUS
  <2>4. i \in DOMAIN fromAM /\ SaysIn(fromAM, i, k)
    BY <2>1 DEF LastIn
  <2>5. Stands(k, id)'
    BY <2>1, <2>3, <2>4
  <2>6. id = fromAM'[x].id
    BY <2>2, <2>3
  <2>7. Stands(k, fromAM[x].id)'
    BY <2>5, <2>6 DEF Stands, DeregisterCall
  <2> QED
    BY <2>2, <2>7, ServedParts
<1>2. ASSUME Known(n) PROVE Known(n)'
  <2>1. /\ amid # None /\ Stands(k, amid) /\ \A j \in DOMAIN fromAM : ~SaysIn(fromAM, j, k)
        /\ <<DirOf[k], amid>> \in DOMAIN hash /\ hash[<<DirOf[k], amid>>] = n
    BY <1>2 DEF Known, Says, SaysIn, Direction
  <2>2. \A j \in DOMAIN fromAM' : ~SaysIn(fromAM', j, k)
    BY <2>1, UnsaidPlaces
  <2>3. Stands(k, amid)'
    BY <2>1
  <2>4. Stands(nodes[n].key, nodes[n].amid)'
    BY <2>3 DEF Stands, DeregisterCall
  <2>5. <<DirOf[k], amid>> \in DOMAIN hash' /\ hash'[<<DirOf[k], amid>>] = n
    BY <2>1
  <2> QED
    BY <2>1, <2>2, <2>4, <2>5 DEF Known, Says, SaysIn, Direction
<1>3. OnWay(k) \/ Answered(k) \/ Known(n)
  BY DEF Served
<1>4. OnWay(k)' \/ Answered(k)' \/ Known(n)'
  BY <1>1, <1>2, <1>3
<1>5. CASE OnWay(k)'
  <2>1. OnWay(nodes[n].key)'
    BY <1>5 DEF OnWay, AskedFor
  <2> QED
    BY <2>1 DEF Served
<1>6. CASE Answered(k)'
  <2>1. Answered(nodes[n].key)'
    <3>1. nodes'[n].key = k
      OBVIOUS
    <3>2. PICK i : LastIn(fromAM', i, k) /\ Stands(k, fromAM[i].id)'
      BY <1>6, ServedParts
    <3>3. Stands(nodes[n].key, fromAM[i].id)'
      BY <3>1, <3>2 DEF Stands, DeregisterCall
    <3> QED
      BY <3>1, <3>2, <3>3 DEF Answered, Says, LastIn, SaysIn
  <2> QED
    BY <2>1 DEF Served
<1> QED
  BY <1>4, <1>5, <1>6 DEF Served

(* When the audio manager takes the registration of k, its answer is the   *)
(* last about k, and no call under way drops the id that it gives.         *)
LEMMA RegisteredStands ==
  ASSUME TypeOK, NEW k \in Key, Registers(Head(toAM)), Head(toAM).key = k, TakesCall,
         NoStale(1)
  PROVE  Answered(k)'
<1>1. /\ fromAM \in Seq(Reply) /\ am.reg[DirOf[k]] \in Seq(Key \cup {None})
      /\ Len(am.reg[DirOf[k]]) \in Nat
      /\ DOMAIN am.reg[DirOf[k]] = 1 .. Len(am.reg[DirOf[k]])
      /\ Len(fromAM) \in Nat /\ DOMAIN fromAM = 1 .. Len(fromAM)
      /\ DirOf[k] \in Dir
  BY KnownTypes
<1>2. PICK d, id, e : /\ d = DirOf[k] /\ id = Len(am.reg[d]) + 1
                      /\ e = [m |-> "nodeIs", key |-> k, id |-> id]
  OBVIOUS
<1>3. am'.reg[d] = Append(am.reg[d], k) /\ fromAM' = Append(fromAM, e)
  BY <1>2 DEF Registers
<1>4. id \in DOMAIN am'.reg[d] /\ am'.reg[d][id] = k
  <2>1. k \in Key \cup {None}
    OBVIOUS
  <2> QED
    BY <1>1, <1>2, <1>3, <2>1, AppendAt
<1>5. NoStale(0)'
  BY StaleTail
<1>6. \A q \in DOMAIN toAM' : toAM'[q] # DeregisterCall(d, id)
  <2>1. ASSUME NEW q \in DOMAIN toAM', toAM'[q] = DeregisterCall(d, id) PROVE FALSE
    <3>1. q + 1 \in DOMAIN toAM /\ toAM'[q] = toAM[q + 1] /\ q + 1 > 1
      <4>1. q + 1 \in DOMAIN toAM /\ toAM'[q] = toAM[q + 1] /\ q \in DOMAIN toAM
        BY KnownTypes, TailPlaces DEF TakesCall
      <4>2. q \in 1 .. Len(toAM) /\ Len(toAM) \in Nat
        BY <4>1, KnownTypes
      <4> QED
        BY <4>1, <4>2
    <3>2. toAM[q + 1].m = "deregister" /\ toAM[q + 1].dir = d /\ toAM[q + 1].id = id
      BY <2>1, <3>1 DEF DeregisterCall
    <3>3. id \in DOMAIN am.reg[d]
      BY <3>1, <3>2 DEF NoStale
    <3> QED
      BY <1>1, <1>2, <3>3
  <2> QED
    BY <2>1
<1>7. Stands(k, id)'
  BY <1>2, <1>4, <1>5, <1>6 DEF Stands, DeregisterCall
<1>8. e \in Reply
  BY <1>1, <1>2, ReplyTypes
<1>9. LastIn(fromAM', Len(fromAM) + 1, k) /\ fromAM'[Len(fromAM) + 1].id = id
  <2>1. /\ DOMAIN fromAM' = 1 .. Len(fromAM) + 1
        /\ fromAM'[Len(fromAM) + 1] = e
    BY <1>1, <1>3, <1>8, AppendAt
  <2>2. SaysIn(fromAM', Len(fromAM) + 1, k) /\ e.id = id
    BY <1>2, <2>1 DEF SaysIn
  <2> QED
    BY <1>1, <2>1, <2>2 DEF LastIn
<1>10. PICK x : x = Len(fromAM) + 1
  OBVIOUS
<1>11. Stands(k, fromAM[x].id)'
  BY <1>7, <1>9, <1>10 DEF Stands, DeregisterCall
<1> QED
  BY <1>9, <1>10, <1>11, ServedParts

-----------------------------------------------------------------------------
(* Served, action by action.                                               *)

LEMMA NodeKeys ==
  ASSUME TypeOK
  PROVE  \A n \in Living : /\ nodes[n].key \in Key /\ Direction(n) \in Dir
                           /\ Direction(n) = DirOf[nodes[n].key]
                           /\ nodes[n] \in Node /\ n \in DOMAIN nodes
BY NodesAt, Parts DEF Direction

LEMMA ServedTakes ==
  ASSUME TypeOK, TypeOK', AmTakesDomain \/ AmTakesComplete \/ AmTakesAck \/ AmDropsNode,
         NEW n \in Living, Served(n), \A i \in DOMAIN fromAM' : fromAM'[i].m # "domainIs"
  PROVE  Served(n)'
<1>1. /\ Works /\ toAM # <<>> /\ toAM' = Tail(toAM) /\ Head(toAM).m # "register"
      /\ am'.reg = am.reg \/ AmDropsNode
      /\ fromAM' = fromAM \/ \E e : Answers(e) /\ e.m = "domainIs"
  BY WorksTakes
<1>2. fromAM' = fromAM
  <2>1. ASSUME NEW e, Answers(e), e.m = "domainIs" PROVE FALSE
    <3>1. fromAM \in Seq(Reply) /\ e \in Reply /\ fromAM' = Append(fromAM, e)
      BY <2>1, KnownTypes DEF Answers
    <3>2. /\ Len(fromAM) + 1 \in DOMAIN fromAM'
          /\ fromAM'[Len(fromAM) + 1] = e
      BY <3>1, ContinuesAppend
    <3> QED
      BY <2>1, <3>2
  <2> QED
    BY <1>1, <2>1
<1>3. TakesCall /\ UNCHANGED <<nodes, hash>>
  BY <1>1 DEF TakesCall, Works, module
<1>4. PICK k, amid : k = nodes[n].key /\ amid = nodes[n].amid
  OBVIOUS
<1>5. k \in Key
  BY <1>4, NodeKeys
<1>6. 1 \in DOMAIN toAM /\ toAM[1] = Head(toAM)
  BY <1>1, KnownTypes, TailPlaces
<1>7. am'.domains \in Nat
  BY DEF TypeOK, ManagerState
<1>8. OnWay(k) => OnWay(k)'
  <2>1. ASSUME NEW p \in DOMAIN toAM, AskedFor(p, k), NoStale(p) PROVE OnWay(k)'
    <3>1. p # 1
      BY <1>1, <1>6, <2>1 DEF AskedFor
    <3> QED
      BY <1>3, <1>7, <2>1, <3>1, OnWayTail
  <2> QED
    BY <2>1 DEF OnWay
<1>9. ASSUME NEW id, Stands(k, id) PROVE Stands(k, id)'
  <2>1. am'.reg[DirOf[k]][id] = am.reg[DirOf[k]][id]
    <3>1. CASE am'.reg = am.reg
      BY <3>1
    <3>2. CASE AmDropsNode
      <4>1. Head(toAM) # DeregisterCall(DirOf[k], id) /\ id \in DOMAIN am.reg[DirOf[k]]
        BY <1>6, <1>9 DEF Stands
      <4>2. DirOf[k] \in Dir
        BY <1>5, AudioManagerConfig
      <4> QED
        BY <3>2, <4>1, <4>2, DropsAt
    <3> QED
      BY <1>1, <3>1, <3>2
  <2> QED
    BY <1>3, <1>5, <1>9, <2>1, StandsTail
<1>10. Unsaid(k)
  BY <1>2 DEF Unsaid
<1> QED
  BY <1>3, <1>4, <1>5, <1>8, <1>9, <1>10, ServedStays

LEMMA ServedTakesNode ==
  ASSUME TypeOK, TypeOK', AmTakesNode, NEW n \in Living, Served(n)
  PROVE  Served(n)'
<1>1. /\ Works /\ toAM # <<>> /\ toAM' = Tail(toAM) /\ Head(toAM).m = "register"
      /\ \/ Registers(Head(toAM))
         \/ UNCHANGED <<am, fromAM>> /\ Head(toAM).domain \notin 1 .. am.domains
  BY WorksRegisters
<1>3. TakesCall /\ UNCHANGED <<nodes, hash>>
  BY <1>1 DEF TakesCall, Works, module
<1>4. PICK k, amid : k = nodes[n].key /\ amid = nodes[n].amid
  OBVIOUS
<1>5. k \in Key /\ DirOf[k] \in Dir
  BY <1>4, NodeKeys
<1>6. 1 \in DOMAIN toAM /\ toAM[1] = Head(toAM) /\ 1 \in Nat
  BY <1>1, KnownTypes, TailPlaces
<1>7. am'.domains \in Nat
  BY DEF TypeOK, ManagerState
<1>8. ASSUME NEW p \in DOMAIN toAM, p # 1, AskedFor(p, k), NoStale(p) PROVE OnWay(k)'
  BY <1>3, <1>7, <1>8, OnWayTail
<1>9. ASSUME am'.reg[DirOf[k]] = am.reg[DirOf[k]], ~AskedFor(1, k), Unsaid(k)
      PROVE  Served(n)'
  <2>1. OnWay(k) => OnWay(k)'
    BY <1>8, <1>9 DEF OnWay
  <2>2. ASSUME NEW id, Stands(k, id) PROVE Stands(k, id)'
    BY <1>3, <1>5, <1>9, <2>2, StandsTail
  <2> QED
    BY <1>3, <1>4, <1>5, <1>9, <2>1, <2>2, ServedStays
<1>10. CASE UNCHANGED <<am, fromAM>> /\ Head(toAM).domain \notin 1 .. am.domains
  <2>1. ~AskedFor(1, k)
    BY <1>6, <1>10 DEF AskedFor
  <2> QED
    BY <1>9, <1>10, <2>1 DEF Unsaid
<1>11. CASE Registers(Head(toAM)) /\ Head(toAM).key = k
  <2>1. CASE \E p \in DOMAIN toAM : p # 1 /\ AskedFor(p, k) /\ NoStale(p)
    <3>1. OnWay(k)'
      BY <1>8, <2>1
    <3>2. OnWay(nodes[n].key)'
      BY <1>3, <1>4, <3>1 DEF OnWay, AskedFor
    <3> QED
      BY <3>2 DEF Served
  <2>2. CASE ~\E p \in DOMAIN toAM : p # 1 /\ AskedFor(p, k) /\ NoStale(p)
    <3>1. NoStale(1)
      <4>1. OnWay(k) => NoStale(1)
        BY <2>2 DEF OnWay
      <4>2. NoStale(0) => NoStale(1)
        <5>1. \A q \in DOMAIN toAM : q > 1 => q > 0
          BY KnownTypes
        <5> QED
          BY <5>1 DEF NoStale
      <4>3. Answered(k) \/ Known(n) => NoStale(0)
        BY DEF Answered, Known, Stands
      <4> QED
        BY <1>4, <4>1, <4>2, <4>3 DEF Served
    <3>2. Answered(k)'
      BY <1>3, <1>5, <1>11, <3>1, RegisteredStands
    <3>3. Answered(nodes[n].key)'
      BY <1>3, <1>4, <3>2 DEF Answered, Says, Stands, DeregisterCall
    <3> QED
      BY <3>3 DEF Served
  <2> QED
    BY <2>1, <2>2
<1>12. CASE Registers(Head(toAM)) /\ Head(toAM).key # k
  <2>1. ~AskedFor(1, k)
    BY <1>6, <1>12 DEF AskedFor
  <2> DEFINE call == Head(toAM)
             d == DirOf[call.key]
             e == [m |-> "nodeIs", key |-> call.key, id |-> Len(am.reg[d]) + 1]
  <2>2. fromAM' = Append(fromAM, e) /\ call.key \in Key
    BY <1>12 DEF Registers
  <2>3. Len(am.reg[d]) \in Nat
    BY <2>2, KnownTypes
  <2>4. e \in Reply /\ e.key # k
    BY <1>12, <2>2, <2>3, ReplyTypes
  <2>5. Unsaid(k)
    BY <2>2, <2>4 DEF Unsaid
  <2>6. CASE d = DirOf[k]
    <3>1. PICK list, key : list = am.reg[DirOf[k]] /\ key = call.key
      OBVIOUS
    <3>2. /\ am'.reg[DirOf[k]] = Append(list, key)
          /\ list \in Seq(Key \cup {None}) /\ key \in Key \cup {None}
      BY <1>5, <1>12, <2>2, <2>6, <3>1, KnownTypes DEF Registers
    <3>3. \A id \in DOMAIN list : Append(list, key)[id] = list[id]
      BY <3>2, ContinuesAppend DEF Continues
    <3>4. ASSUME NEW id, Stands(k, id) PROVE Stands(k, id)'
      <4>1. am'.reg[DirOf[k]][id] = am.reg[DirOf[k]][id]
        BY <3>1, <3>2, <3>3, <3>4 DEF Stands
      <4> QED
        BY <1>3, <1>5, <3>4, <4>1, StandsTail
    <3>5. OnWay(k) => OnWay(k)'
      BY <1>8, <2>1 DEF OnWay
    <3> QED
      BY <1>3, <1>4, <1>5, <2>5, <3>4, <3>5, ServedStays
  <2>7. CASE d # DirOf[k]
    <3>1. am'.reg[DirOf[k]] = am.reg[DirOf[k]]
      BY <1>5, <1>12, <2>7 DEF Registers
    <3> QED
      BY <1>9, <2>1, <2>5, <3>1
  <2> QED
    BY <2>6, <2>7
<1> QED
  BY <1>1, <1>10, <1>11, <1>12

LEMMA ServedConnections ==
  ASSUME TypeOK, AmConnects \/ AmDisconnects, NEW n \in Living, Served(n)
  PROVE  Served(n)'
<1>1. /\ UNCHANGED <<toAM, nodes, hash>> /\ am'.reg = am.reg /\ am'.domains = am.domains
      /\ \E e : Answers(e) /\ e.m \in {"connect", "disconnect"}
  BY WorksConnections DEF Works, module
<1>2. PICK k, amid : k = nodes[n].key /\ amid = nodes[n].amid
  OBVIOUS
<1>3. k \in Key
  BY <1>2, NodeKeys
<1>4. Unsaid(k)
  BY <1>1 DEF Unsaid, Answers
<1>5. OnWay(k) => OnWay(k)'
  BY <1>1 DEF OnWay, AskedFor, NoStale
<1>6. \A id : Stands(k, id) => Stands(k, id)'
  BY <1>1 DEF Stands, NoStale, DeregisterCall
<1> QED
  BY <1>1, <1>2, <1>3, <1>4, <1>5, <1>6, ServedStays

LEMMA ServedConnects ==
  ASSUME TypeOK, Connect \/ Disconnect, NEW n \in Living, Served(n)
  PROVE  Served(n)'
<1>1. PICK k, amid : k = nodes[n].key /\ amid = nodes[n].amid
  OBVIOUS
<1>2. k \in Key /\ toAM \in Seq(Call)
  BY <1>1, NodeKeys, KnownTypes
<1>3. UNCHANGED <<nodes, hash, am>> /\ (Received("connect") \/ Received("disconnect"))
  BY DEF Connect, Disconnect, module
<1>4. Unsaid(k)
  BY <1>3 DEF Unsaid, Received
<1>5. /\ AddsCalls
      /\ \A q \in DOMAIN toAM' \ DOMAIN toAM : toAM'[q].m # "deregister"
  <2>1. CASE Connect
    <3>1. PICK call \in Call : toAM' = Append(toAM, call) /\ call.m = "connect_ack"
      BY <2>1, ConnectCalls
    <3>2. /\ Continues(toAM, toAM')
          /\ \A q \in DOMAIN toAM' \ DOMAIN toAM : toAM'[q] = call
      BY <1>2, <3>1, ContinuesAppend
    <3> QED
      BY <1>3, <3>1, <3>2 DEF AddsCalls
  <2>2. CASE Disconnect
    <3>1. UNCHANGED toAM
      BY <2>2 DEF Disconnect
    <3> QED
      BY <1>3, <3>1 DEF AddsCalls, Continues
  <2> QED
    BY <2>1, <2>2
<1>6. ASSUME NEW id, Stands(k, id) PROVE Stands(k, id)'
  <2>1. DeregisterCall(DirOf[k], id).m = "deregister"
    BY DEF DeregisterCall
  <2> QED
    BY <1>5, <1>6, <2>1, StandsMore
<1>7. OnWay(k) => OnWay(k)'
  BY <1>5, OnWayMore
<1> QED
  BY <1>1, <1>2, <1>3, <1>4, <1>6, <1>7, ServedStays

(* The domain is registered: the nodes that are available are announced.   *)
LEMMA ServedDomain ==
  ASSUME TypeOK, TypeOK', DomainRegistered, Head(fromAM).id \in 1 .. am.domains,
         NEW n \in Living, Announced(n), NEW k, k = nodes[n].key
  PROVE  OnWay(k)'
<1>1. /\ Continues(toAM, toAM')
      /\ \A j \in DOMAIN toAM' \ DOMAIN toAM : toAM'[j].m \in {"register", "complete"}
  BY DomainCalls
<1>2. PICK p \in DOMAIN toAM' \ DOMAIN toAM :
        toAM'[p] = RegisterCall(nodes[n].key, Head(fromAM).id)
  BY DomainCalls
<1>3. UNCHANGED am
  BY DEF DomainRegistered
<1>4. AskedFor(p, k)'
  BY <1>2, <1>3 DEF AskedFor, RegisterCall
<1>5. p \in Nat /\ \A q \in DOMAIN toAM : q \in Nat /\ q < p
  <2>1. toAM' \in Seq(Call)
    BY DEF TypeOK
  <2>2. DOMAIN toAM' = 1 .. Len(toAM') /\ Len(toAM') \in Nat
    BY <2>1, ListAt
  <2> QED
    BY <1>1, <1>2, <2>2, KnownTypes DEF Continues
<1>6. ASSUME NEW q \in DOMAIN toAM', q > p PROVE toAM'[q].m # "deregister"
  <2>1. q \notin DOMAIN toAM
    BY <1>5, <1>6
  <2> QED
    BY <1>1, <2>1
<1>7. NoStale(p)'
  BY <1>6 DEF NoStale
<1> QED
  BY <1>2, <1>4, <1>7 DEF OnWay

(* A node is registered: its last answer has come, or another one's.       *)
LEMMA ServedRegistered ==
  ASSUME TypeOK, OneNodePerKey, RepliesRight, Current, IdsRight, NodeRegistered,
         NEW n \in Living, Served(n)
  PROVE  Served(n)'
<1>1. PICK reply, key : reply = Head(fromAM) /\ key = <<DirOf[reply.key], reply.id>>
  OBVIOUS
<1>2. /\ reply.key \in Key /\ reply.id \in Nat
      /\ \A x \in DOMAIN hash : x \in DOMAIN hash' /\ hash'[x] = hash[x]
      /\ IF nodes[n].key = reply.key
         THEN /\ nodes'[n] = [nodes[n] EXCEPT !.amid = reply.id]
              /\ key \in DOMAIN hash' /\ hash'[key] = n
         ELSE nodes'[n] = nodes[n]
  BY <1>1, RegisteredNode
<1>3. PICK k, amid : k = nodes[n].key /\ amid = nodes[n].amid
  OBVIOUS
<1>4. k \in Key /\ nodes[n] \in Node
  BY <1>3, NodeKeys
<1>5. /\ fromAM \in Seq(Reply) /\ fromAM # <<>> /\ fromAM' = Tail(fromAM)
      /\ Head(fromAM).m = "nodeIs" /\ UNCHANGED <<toAM, am>>
  BY KnownTypes DEF NodeRegistered, Received
<1>6. OnWay(k) => OnWay(k)'
  BY <1>5 DEF OnWay, AskedFor, NoStale
<1>7. \A id : Stands(k, id) => Stands(k, id)'
  BY <1>5 DEF Stands, NoStale, DeregisterCall
<1>8. CASE reply.key # k
  <2>1. nodes'[n] = nodes[n]
    BY <1>2, <1>3, <1>8
  <2>2. Unsaid(k)
    BY <1>1, <1>5, <1>8 DEF Unsaid
  <2> QED
    BY <1>2, <1>3, <1>4, <1>6, <1>7, <2>1, <2>2, ServedStays
<1>9. CASE reply.key = k
  <2>1. /\ nodes'[n].key = k /\ nodes'[n].amid = reply.id
        /\ key \in DOMAIN hash' /\ hash'[key] = n
    BY <1>2, <1>3, <1>4, <1>9 DEF Node
  <2>2. /\ 1 \in DOMAIN fromAM /\ fromAM[1] = reply
        /\ \A j \in DOMAIN fromAM' : /\ j + 1 \in DOMAIN fromAM /\ fromAM'[j] = fromAM[j + 1]
                                     /\ j \in Nat /\ j \in DOMAIN fromAM
        /\ \A i \in DOMAIN fromAM : /\ i \in Nat /\ i >= 1
                                    /\ i = 1 \/ /\ i - 1 \in DOMAIN fromAM'
                                                /\ fromAM'[i - 1] = fromAM[i]
    BY <1>1, <1>5, TailPlaces
  <2>3. SaysIn(fromAM, 1, k)
    BY <1>1, <1>5, <1>9, <2>2 DEF SaysIn
  <2>4. CASE OnWay(k)
    <3>1. OnWay(nodes[n].key)'
      BY <1>6, <2>1, <2>4 DEF OnWay, AskedFor
    <3> QED
      BY <3>1 DEF Served
  <2>5. CASE Known(n)
    BY <1>3, <2>2, <2>3, <2>5 DEF Known, Says, SaysIn
  <2>6. ASSUME NEW i, LastIn(fromAM, i, k), Stands(k, fromAM[i].id), i = 1
        PROVE  Known(n)'
    <3>1. \A j \in DOMAIN fromAM' : ~SaysIn(fromAM', j, k)
      <4>1. ASSUME NEW j \in DOMAIN fromAM' PROVE ~SaysIn(fromAM', j, k)
        <5>1. j + 1 \in DOMAIN fromAM /\ fromAM'[j] = fromAM[j + 1] /\ j + 1 > 1
          <6>1. j \in Nat /\ j >= 1
            BY <2>2
          <6> QED
            BY <2>2, <6>1
        <5> QED
          BY <2>6, <5>1 DEF LastIn, SaysIn
      <4> QED
        BY <4>1
    <3>2. PICK id : id = reply.id
      OBVIOUS
    <3>3. Stands(k, id)'
      BY <1>7, <2>2, <2>6, <3>2
    <3>4. Stands(nodes[n].key, nodes[n].amid)'
      BY <2>1, <3>2, <3>3 DEF Stands, DeregisterCall
    <3>5. <<DirOf[k], reply.id>> \in DOMAIN hash' /\ hash'[<<DirOf[k], reply.id>>] = n
      BY <1>1, <1>9, <2>1
    <3>6. nodes'[n].amid # None
      BY <1>2, <2>1, AudioManagerConfig
    <3> QED
      BY <2>1, <3>1, <3>4, <3>5, <3>6 DEF Known, Says, SaysIn, Direction
  <2>7. ASSUME NEW i, LastIn(fromAM, i, k), Stands(k, fromAM[i].id), i # 1
        PROVE  Answered(k)'
    <3>1. PICK x, id : x = i - 1 /\ id = fromAM[i].id
      OBVIOUS
    <3>2. i \in Nat /\ x + 1 = i /\ x \in DOMAIN fromAM' /\ fromAM'[x] = fromAM[i]
      BY <2>2, <2>7, <3>1 DEF LastIn
    <3>3. ASSUME NEW j \in DOMAIN fromAM', j > x PROVE ~SaysIn(fromAM', j, k)
      <4>1. j + 1 \in DOMAIN fromAM /\ fromAM'[j] = fromAM[j + 1] /\ j + 1 > i
        BY <2>2, <3>2, <3>3
      <4> QED
        BY <2>7, <4>1 DEF LastIn, SaysIn
    <3>4. LastIn(fromAM', x, k)
      BY <2>7, <3>2, <3>3 DEF LastIn, SaysIn
    <3>5. Stands(k, id)'
      BY <1>7, <2>7, <3>1
    <3>6. id = fromAM'[x].id
      BY <3>1, <3>2
    <3>7. Stands(k, fromAM[x].id)'
      BY <3>5, <3>6 DEF Stands, DeregisterCall
    <3> QED
      BY <3>4, <3>7, ServedParts
  <2>8. CASE Answered(k)
    <3>1. PICK i : LastIn(fromAM, i, k) /\ Stands(k, fromAM[i].id)
      BY <2>8, ServedParts
    <3>2. CASE i = 1
      BY <2>6, <3>1, <3>2 DEF Served
    <3>3. CASE i # 1
      <4>1. Answered(k)'
        BY <2>7, <3>1, <3>3
      <4>2. Answered(nodes[n].key)'
        BY <2>1, <4>1 DEF Answered, Says, Stands, DeregisterCall
      <4> QED
        BY <4>2 DEF Served
    <3> QED
      BY <3>2, <3>3
  <2> QED
    BY <1>3, <2>4, <2>5, <2>8 DEF Served
<1> QED
  BY <1>8, <1>9

(* A node is dropped, by an id that no other node has or is to get.        *)
LEMMA ServedUnregister ==
  ASSUME TypeOK, IdsRight, domain # None, UNCHANGED <<fromAM, am>>,
         NEW m \in Living, UnregisterNode(m),
         NEW n \in Living, n # m, nodes'[n].key = nodes[n].key, nodes'[n].amid = nodes[n].amid,
         Served(n)
  PROVE  Served(n)'
<1>1. PICK k, amid : k = nodes[n].key /\ amid = nodes[n].amid
  OBVIOUS
<1>2. /\ k \in Key /\ toAM \in Seq(Call) /\ nodes[m].amid \in Nat \cup {None}
      /\ Direction(m) \in Dir /\ Direction(n) = DirOf[k]
  BY <1>1, NodeKeys, KnownTypes, NodesAt, Parts
<1>3. Unsaid(k)
  BY DEF Unsaid
<1>4. CASE nodes[m].amid = None
  <2>1. UNCHANGED <<hash, toAM>>
    BY <1>4 DEF UnregisterNode
  <2>2. OnWay(k) => OnWay(k)'
    BY <2>1 DEF OnWay, AskedFor, NoStale
  <2>3. \A id : Stands(k, id) => Stands(k, id)'
    BY <2>1 DEF Stands, NoStale, DeregisterCall
  <2> QED
    BY <1>1, <1>2, <1>3, <2>1, <2>2, <2>3, ServedStays
<1>5. CASE nodes[m].amid # None
  <2>1. PICK d, old : d = Direction(m) /\ old = nodes[m].amid
    OBVIOUS
  <2>2. /\ hash' = Drop(hash, <<d, old>>) /\ toAM' = Append(toAM, DeregisterCall(d, old))
        /\ d \in Dir /\ old \in Nat
    BY <1>2, <1>5, <2>1 DEF UnregisterNode
  <2>3. Older(d, old)
    BY <1>5, <2>1 DEF IdsRight
  <2>4. DeregisterCall(d, old) \in Call
    BY <2>2, CallTypes
  <2>5. /\ Continues(toAM, toAM')
        /\ \A q \in DOMAIN toAM' \ DOMAIN toAM : toAM'[q] = DeregisterCall(d, old)
    BY <1>2, <2>2, <2>4, ContinuesAppend
  <2>6. AddsCalls
    <3>1. DeregisterCall(d, old).id = old /\ DeregisterCall(d, old).dir = d
      BY DEF DeregisterCall
    <3> QED
      BY <2>3, <2>5, <3>1 DEF AddsCalls, Older
  <2>7. ~(DirOf[k] = d /\ amid = old)
    BY <1>1, <1>2, <1>5, <2>1 DEF IdsRight
  <2>8. ASSUME NEW id, Stands(k, id),
               id = amid \/ \E i \in DOMAIN fromAM : SaysIn(fromAM, i, k) /\ fromAM[i].id = id
        PROVE  Stands(k, id)'
    <3>1. DirOf[k] = d => id # old
      <4>1. ASSUME NEW i \in DOMAIN fromAM, SaysIn(fromAM, i, k), fromAM[i].id = old,
                   DirOf[k] = d
            PROVE  FALSE
        <5>1. old < old
          BY <2>3, <4>1 DEF Older, SaysIn
        <5> QED
          BY <2>2, <5>1
      <4> QED
        BY <2>7, <2>8, <4>1
    <3>2. DeregisterCall(d, old) # DeregisterCall(DirOf[k], id)
      BY <3>1 DEF DeregisterCall
    <3> QED
      BY <2>5, <2>6, <2>8, <3>2, StandsMore
  <2>9. OnWay(k) => OnWay(k)'
    BY <2>6, OnWayMore
  <2>10. \A x \in DOMAIN hash : x = <<DirOf[k], amid>> => x \in DOMAIN hash' /\ hash'[x] = hash[x]
    <3>1. hash \in [DOMAIN hash -> DOMAIN nodes]
      BY DEF TypeOK
    <3>2. \A x \in DOMAIN hash \ {<<d, old>>} : x \in DOMAIN hash' /\ hash'[x] = hash[x]
      BY <2>2, <3>1 DEF Drop, Restrict
    <3>3. <<DirOf[k], amid>> # <<d, old>>
      BY <2>7
    <3> QED
      BY <3>2, <3>3
  <2> QED
    BY <1>1, <1>2, <1>3, <2>8, <2>9, <2>10, ServedStays
<1> QED
  BY <1>4, <1>5

LEMMA RegisterCalls ==
  ASSUME TypeOK, TypeOK', IdsRight, UNCHANGED am, NEW k \in Key, RegisterNode(k)
  PROVE  /\ OnWay(k)' /\ AddsCalls
         /\ \A q \in DOMAIN toAM' \ DOMAIN toAM : toAM'[q].m # "deregister"
<1> DEFINE call == RegisterCall(k, domain)
           more == Registrations(<<k>>, domain)
<1>1. domain \in 1 .. am.domains /\ am.domains \in Nat /\ domain \in Nat /\ toAM \in Seq(Call)
  <2>1. domain \in 1 .. am.domains /\ am.domains \in Nat
    BY KnownTypes DEF IdsRight
  <2> QED
    BY <2>1, KnownTypes
<1>2. toAM' = toAM \o more
  BY <1>1, AudioManagerConfig DEF RegisterNode
<1>3. <<k>> \in Seq(Key) /\ DOMAIN <<k>> = {1} /\ <<k>>[1] = k
  OBVIOUS
<1>4. more \in Seq(Call)
  BY <1>1, <1>3, RegistrationsType
<1>5. DOMAIN more = {1} /\ more[1] = call
  BY <1>3 DEF Registrations
<1>6. call.m = "register" /\ call.key = k /\ call.domain = domain
  BY DEF RegisterCall
<1> HIDE DEF more, call
<1>7. PICK p : p = Len(toAM) + 1
  OBVIOUS
<1>8. /\ Continues(toAM, toAM')
      /\ \A q \in DOMAIN toAM' \ DOMAIN toAM : toAM'[q] = call /\ q = p
      /\ p \in DOMAIN toAM' \ DOMAIN toAM /\ toAM'[p] = call
  <2>1. /\ Continues(toAM, toAM')
        /\ \A j \in DOMAIN toAM' \ DOMAIN toAM :
             \E i \in DOMAIN more : toAM'[j] = more[i] /\ j = Len(toAM) + i
        /\ \A i \in DOMAIN more : /\ Len(toAM) + i \in DOMAIN toAM' \ DOMAIN toAM
                                  /\ toAM'[Len(toAM) + i] = more[i]
    BY <1>1, <1>2, <1>4, ContinuesConcat
  <2> QED
    BY <1>5, <1>7, <2>1
<1>9. AddsCalls /\ \A q \in DOMAIN toAM' \ DOMAIN toAM : toAM'[q].m # "deregister"
  BY <1>6, <1>8 DEF AddsCalls
<1>10. AskedFor(p, k)'
  BY <1>1, <1>6, <1>8 DEF AskedFor
<1>11. NoStale(p)'
  <2>1. p \in Nat /\ \A q \in DOMAIN toAM : q \in Nat /\ q < p
    BY <1>7, KnownTypes
  <2>2. ASSUME NEW q \in DOMAIN toAM', q > p PROVE FALSE
    <3>1. q \notin DOMAIN toAM
      BY <2>1, <2>2
    <3>2. q = p
      BY <1>8, <3>1
    <3> QED
      BY <2>1, <2>2, <3>2
  <2> QED
    BY <2>2 DEF NoStale
<1> QED
  BY <1>8, <1>9, <1>10, <1>11 DEF OnWay

(* Calls that drop nothing leave a node as it is.                          *)
LEMMA ServedOthers ==
  ASSUME TypeOK, UNCHANGED <<fromAM, am, hash>>, AddsCalls,
         \A q \in DOMAIN toAM' \ DOMAIN toAM : toAM'[q].m # "deregister",
         NEW n \in Living, nodes'[n].key = nodes[n].key, nodes'[n].amid = nodes[n].amid,
         Served(n)
  PROVE  Served(n)'
<1>1. PICK k, amid : k = nodes[n].key /\ amid = nodes[n].amid
  OBVIOUS
<1>2. k \in Key
  BY <1>1, NodeKeys
<1>3. Unsaid(k)
  BY DEF Unsaid
<1>4. ASSUME NEW id, Stands(k, id) PROVE Stands(k, id)'
  <2>1. DeregisterCall(DirOf[k], id).m = "deregister"
    BY DEF DeregisterCall
  <2> QED
    BY <1>4, <2>1, StandsMore
<1>5. OnWay(k) => OnWay(k)'
  BY OnWayMore
<1> QED
  BY <1>1, <1>2, <1>3, <1>4, <1>5, ServedStays

LEMMA EventIds ==
  ASSUME TypeOK, TypeOK', IdsRight, NodeEvents
  PROVE  IdsRight'
<1>1. UNCHANGED <<domain, fromAM, am>>
  BY DEF NodeEvents, CreateNode, DestroyNode, UpdateNodeAvailability, DeviceGone,
    DeviceBack
<1>2. Grows
  BY <1>1, KnownTypes DEF Grows
<1>3. DOMAIN hash' \subseteq DOMAIN hash
  <2>1. ASSUME NEW n \in Living, UnregisterNode(n) PROVE DOMAIN hash' \subseteq DOMAIN hash
    <3>1. hash \in [DOMAIN hash -> DOMAIN nodes]
      BY DEF TypeOK
    <3>2. UNCHANGED hash \/ \E key : hash' = Drop(hash, key)
      BY <2>1 DEF UnregisterNode
    <3> QED
      BY <3>1, <3>2 DEF Drop, Restrict
  <2> QED
    BY <2>1 DEF NodeEvents, CreateNode, DestroyNode, UpdateNodeAvailability, DeviceGone,
    DeviceBack
<1>4. ASSUME NEW k \in Key, NEW available \in BOOLEAN, CreateNode(k, available)
      PROVE  \A n \in Living' : \/ nodes'[n].amid = None
                                \/ /\ n \in Living /\ Direction(n)' = Direction(n)
                                   /\ nodes'[n].amid = nodes[n].amid
  <2>1. PICK new : new = Len(nodes) + 1
    OBVIOUS
  <2>2. /\ nodes'[new] = [key |-> k, living |-> TRUE, available |-> available,
                        withheld |-> ~available, amid |-> None]
        /\ \A n \in Living' : n = new \/ (n \in Living /\ nodes'[n] = nodes[n])
    BY <1>4, <2>1, CreatedNode
  <2>3. nodes'[new].amid = None
    BY <2>2
  <2> QED
    BY <2>2, <2>3 DEF Direction
<1>5. ASSUME NEW m \in Living, DestroyNode(m) \/ Moves(m)
      PROVE  \A n \in Living' : /\ n \in Living /\ Direction(n)' = Direction(n)
                                /\ nodes'[n].amid = nodes[n].amid
  <2>1. CASE DestroyNode(m)
    <3>1. nodes' = [nodes EXCEPT ![m].living = FALSE]
      BY <2>1 DEF DestroyNode
    <3> QED
      BY <3>1, NodeKeys, NodesAt, Parts DEF Living, Direction, Node
  <2>2. CASE Moves(m)
    BY <2>2, MovedNode, Parts DEF Living, Direction
  <2> QED
    BY <1>5, <2>1, <2>2
<1>6. \A n \in Living' : \/ nodes'[n].amid = None
                         \/ /\ n \in Living /\ Direction(n)' = Direction(n)
                            /\ nodes'[n].amid = nodes[n].amid
  BY <1>4, <1>5 DEF NodeEvents, Moves
<1> QED
  BY <1>1, <1>2, <1>3, <1>6, IdsStay

LEMMA EventServed ==
  ASSUME TypeOK, TypeOK', Current, IdsRight, NodeEvents,
         \A n \in Living : ~nodes[n].withheld => Served(n),
         NEW n \in Living', ~nodes'[n].withheld
  PROVE  Served(n)'
<1>0. UNCHANGED <<domain, fromAM, am>> /\ domain # None
  BY DEF NodeEvents, CreateNode, DestroyNode, UpdateNodeAvailability, DeviceGone,
    DeviceBack, Current
<1>1. ASSUME NEW k \in Key, NEW available \in BOOLEAN, CreateNode(k, available)
      PROVE  Served(n)'
  <2>1. PICK new : new = Len(nodes) + 1
    OBVIOUS
  <2>2. /\ nodes'[new] = [key |-> k, living |-> TRUE, available |-> available,
                        withheld |-> ~available, amid |-> None]
        /\ n = new \/ (n \in Living /\ nodes'[n] = nodes[n])
    BY <1>1, <2>1, CreatedNode
  <2>3. nodes'[new].key = k /\ (available <=> ~nodes'[new].withheld)
    <3>1. nodes'[new].key = k /\ nodes'[new].withheld = ~available
      BY <2>2
    <3> QED
      BY <3>1, Zenon
  <2>4. /\ AddsCalls
        /\ \A q \in DOMAIN toAM' \ DOMAIN toAM : toAM'[q].m # "deregister"
        /\ available => OnWay(k)'
    <3>1. CASE available
      BY <1>0, <1>1, <3>1, RegisterCalls DEF CreateNode
    <3>2. CASE ~available
      BY <1>0, <1>1, <3>2 DEF CreateNode, AddsCalls, Continues
    <3> QED
      BY <3>1, <3>2
  <2>5. CASE n = new
    <3>1. OnWay(k)'
      BY <2>3, <2>4, <2>5
    <3>2. OnWay(nodes[n].key)'
      BY <2>3, <2>5, <3>1 DEF OnWay, AskedFor
    <3> QED
      BY <3>2 DEF Served
  <2>6. CASE n \in Living /\ nodes'[n] = nodes[n]
    <3>1. Served(n) /\ UNCHANGED hash
      BY <1>1, <2>6 DEF CreateNode
    <3> QED
      BY <1>0, <2>4, <2>6, <3>1, ServedOthers
  <2> QED
    BY <2>2, <2>5, <2>6
<1>2. ASSUME NEW m \in Living, DestroyNode(m) PROVE Served(n)'
  <2>1. nodes' = [nodes EXCEPT ![m].living = FALSE] /\ UnregisterNode(m)
    BY <1>2 DEF DestroyNode
  <2>2. n \in Living /\ n # m /\ nodes'[n] = nodes[n]
    BY <2>1, NodeKeys DEF Living, Node
  <2> QED
    BY <1>0, <2>1, <2>2, ServedUnregister
<1>3. ASSUME NEW m \in Living, Moves(m) PROVE Served(n)'
  <2>1. /\ n \in Living /\ nodes'[n].key = nodes[n].key /\ nodes'[n].amid = nodes[n].amid
        /\ n # m => nodes'[n] = nodes[n]
        /\ nodes'[m].withheld = IF UpdateNodeAvailability(m) THEN nodes[m].available
                                                              ELSE nodes[m].withheld
    BY <1>3, MovedNode, Parts DEF Living
  <2>2. nodes[m].key \in Key
    BY NodeKeys
  <2>3. CASE UpdateNodeAvailability(m) /\ nodes[m].available
    <3>1. n # m /\ UnregisterNode(m) /\ nodes'[n] = nodes[n]
      BY <2>1, <2>3 DEF UpdateNodeAvailability
    <3> QED
      BY <1>0, <2>1, <3>1, ServedUnregister
  <2>4. CASE UpdateNodeAvailability(m) /\ ~nodes[m].available
    <3>1. RegisterNode(nodes[m].key) /\ UNCHANGED hash
      BY <2>4 DEF UpdateNodeAvailability
    <3>2. PICK k : k = nodes[m].key
      OBVIOUS
    <3>3. /\ OnWay(k)' /\ AddsCalls
          /\ \A q \in DOMAIN toAM' \ DOMAIN toAM : toAM'[q].m # "deregister"
      BY <1>0, <2>2, <3>1, <3>2, RegisterCalls
    <3>4. CASE n = m
      <4>1. OnWay(nodes[n].key)'
        BY <2>1, <3>2, <3>3, <3>4 DEF OnWay, AskedFor
      <4> QED
        BY <4>1 DEF Served
    <3>5. CASE n # m
      BY <1>0, <2>1, <3>1, <3>3, <3>5, ServedOthers
    <3> QED
      BY <3>4, <3>5
  <2>5. CASE ~UpdateNodeAvailability(m)
    <3>1. UNCHANGED <<hash, toAM, fromAM, am>>
      BY <1>3, <2>5 DEF Moves, DeviceGone, DeviceBack
    <3>2. AddsCalls
      BY <3>1 DEF AddsCalls, Continues
    <3>3. Served(n)
      BY <2>1, <2>5
    <3> QED
      BY <2>1, <3>1, <3>2, <3>3, ServedOthers
  <2> QED
    BY <2>3, <2>4, <2>5
<1> QED
  BY <1>1, <1>2, <1>3 DEF NodeEvents, Moves

-----------------------------------------------------------------------------
(* The ids and the nodes, over every step.                                 *)

LEMMA NoDomainBefore ==
  ASSUME TypeOK,
         \/ Works
         \/ \E kind : Received(kind) /\ kind # "domainIs",
         \A i \in DOMAIN fromAM' : fromAM'[i].m # "domainIs"
  PROVE  \A i \in DOMAIN fromAM : fromAM[i].m # "domainIs"
<1>0. fromAM \in Seq(Reply)
  BY KnownTypes
<1>1. ASSUME NEW kind, Received(kind), kind # "domainIs"
      PROVE  \A i \in DOMAIN fromAM : fromAM[i].m # "domainIs"
  <2>1. /\ \A i \in DOMAIN fromAM : \/ i = 1
                                    \/ i - 1 \in DOMAIN fromAM' /\ fromAM'[i - 1] = fromAM[i]
        /\ Head(fromAM) = fromAM[1] /\ Head(fromAM).m = kind
    BY <1>0, <1>1, TailPlaces DEF Received
  <2> QED
    BY <1>1, <2>1
<1>2. ASSUME NEW e, Answers(e)
      PROVE  \A i \in DOMAIN fromAM : fromAM[i].m # "domainIs"
  <2>1. e \in Reply /\ fromAM' = Append(fromAM, e)
    BY <1>2 DEF Answers
  <2>2. \A j \in DOMAIN fromAM : j \in DOMAIN fromAM' /\ fromAM'[j] = fromAM[j]
    BY <1>0, <2>1, ContinuesAppend DEF Continues
  <2> QED
    BY <2>2
<1> QED
  BY <1>1, <1>2 DEF Works

LEMMA CurrentManager ==
  ASSUME TypeOK, TypeOK', Current => IdsRight /\ NodesServed, Current',
         \/ AmTakesDomain \/ AmTakesComplete \/ AmTakesAck \/ AmDropsNode
         \/ AmTakesNode \/ AmConnects \/ AmDisconnects
  PROVE  IdsRight' /\ NodesServed'
<1>1. Works
  BY WorksTakes, WorksRegisters, WorksConnections
<1>2. IdsRight /\ NodesServed
  BY <1>1, CurrentWorks
<1>3. /\ UNCHANGED <<nodes, hash, domain>> /\ Grows
      /\ fromAM' = fromAM \/ \E e : Answers(e)
  BY <1>1 DEF Works, module
<1>4. IdsRight'
  BY <1>2, <1>3, IdsStay DEF Living, Direction
<1>5. ASSUME \A i \in DOMAIN fromAM' : fromAM'[i].m # "domainIs",
             NEW n \in Living', ~nodes'[n].withheld
      PROVE  Served(n)'
  <2>1. n \in Living /\ ~nodes[n].withheld
    BY <1>3, <1>5 DEF Living
  <2>2. Served(n)
    BY <1>1, <1>2, <1>5, <2>1, NoDomainBefore DEF NodesServed
  <2> QED
    BY <1>5, <2>1, <2>2, ServedTakes, ServedTakesNode, ServedConnections
<1> QED
  BY <1>4, <1>5 DEF NodesServed

LEMMA CurrentMessages ==
  ASSUME TypeOK, TypeOK', DownInv, KnownInv, Current',
         DomainRegistered \/ NodeRegistered \/ Connect \/ Disconnect
  PROVE  IdsRight' /\ NodesServed'
<1>0. /\ RepliesRight /\ OneNodePerKey /\ (Current => IdsRight /\ NodesServed)
  BY DEF KnownInv
<1>1. CASE DomainRegistered
  <2>1. IdsRight' /\ Head(fromAM).id \in 1 .. am.domains
    BY <1>0, <1>1, IdsDomain
  <2>2. ASSUME NEW n \in Living', ~nodes'[n].withheld PROVE Served(n)'
    <3>1. /\ DOMAIN nodes' = DOMAIN nodes
          /\ \A i \in DOMAIN nodes :
               nodes'[i] = IF i \in Living
                           THEN [nodes[i] EXCEPT !.amid = None, !.withheld = ~Announced(i)]
                           ELSE nodes[i]
      BY <1>1 DEF DomainRegistered, DomainIs, DomainUp
    <3>2. n \in Living /\ Announced(n) /\ nodes'[n].key = nodes[n].key
      <4>1. n \in Living /\ n \in DOMAIN nodes
        BY <2>2, <3>1 DEF Living
      <4> QED
        BY <2>2, <3>1, <4>1, UpNode, Parts
    <3>3. PICK k : k = nodes[n].key
      OBVIOUS
    <3>4. OnWay(k)'
      BY <1>1, <2>1, <3>1, <3>2, <3>3, ServedDomain
    <3>5. OnWay(nodes[n].key)'
      BY <3>2, <3>3, <3>4 DEF OnWay, AskedFor
    <3> QED
      BY <3>5 DEF Served
  <2> QED
    BY <2>1, <2>2 DEF NodesServed
<1>2. CASE NodeRegistered
  <2>1. Received("nodeIs") /\ UNCHANGED domain
    BY <1>2 DEF NodeRegistered
  <2>2. Current
    BY <2>1, CurrentTail
  <2>3. IdsRight'
    BY <1>0, <1>2, <2>2, IdsRegistered
  <2>4. PICK reply, key : reply = Head(fromAM) /\ key = <<DirOf[reply.key], reply.id>>
    OBVIOUS
  <2>5. ASSUME NEW n \in Living', ~nodes'[n].withheld PROVE n \in Living /\ ~nodes[n].withheld
    <3>1. /\ Living' = Living
          /\ IF nodes[n].key = reply.key
             THEN nodes'[n] = [nodes[n] EXCEPT !.amid = reply.id]
             ELSE nodes'[n] = nodes[n]
      BY <1>0, <1>2, <2>2, <2>4, <2>5, RegisteredNode
    <3>2. n \in Living /\ nodes[n] \in Node
      BY <2>5, <3>1, NodeKeys
    <3> QED
      BY <2>5, <3>1, <3>2 DEF Node
  <2>6. ASSUME \A i \in DOMAIN fromAM' : fromAM'[i].m # "domainIs",
               NEW n \in Living', ~nodes'[n].withheld
        PROVE  Served(n)'
    <3>1. \A i \in DOMAIN fromAM : fromAM[i].m # "domainIs"
      BY <2>1, <2>6, NoDomainBefore
    <3>2. n \in Living /\ Served(n)
      BY <1>0, <2>2, <2>5, <2>6, <3>1 DEF NodesServed
    <3> QED
      BY <1>0, <1>2, <2>2, <3>2, ServedRegistered
  <2> QED
    BY <2>3, <2>6 DEF NodesServed
<1>3. CASE Connect \/ Disconnect
  <2>1. PICK kind \in {"connect", "disconnect"} : Received(kind)
    BY <1>3 DEF Connect, Disconnect
  <2>2. UNCHANGED <<nodes, hash, domain, am>>
    BY <1>3 DEF Connect, Disconnect, module
  <2>3. Current
    BY <2>1, <2>2, CurrentTail
  <2>4. Grows
    BY <2>2, KnownTypes DEF Grows
  <2>5. IdsRight'
    BY <1>0, <2>1, <2>2, <2>3, <2>4, IdsStay DEF Living, Direction
  <2>6. ASSUME \A i \in DOMAIN fromAM' : fromAM'[i].m # "domainIs",
               NEW n \in Living', ~nodes'[n].withheld
        PROVE  Served(n)'
    <3>1. \A i \in DOMAIN fromAM : fromAM[i].m # "domainIs"
      BY <2>1, <2>6, NoDomainBefore
    <3>2. n \in Living /\ ~nodes[n].withheld
      BY <2>2, <2>6 DEF Living
    <3>3. Served(n)
      BY <1>0, <2>3, <3>1, <3>2 DEF NodesServed
    <3> QED
      BY <1>3, <3>2, <3>3, ServedConnects
  <2> QED
    BY <2>5, <2>6 DEF NodesServed
<1> QED
  BY <1>1, <1>2, <1>3

LEMMA CurrentStep ==
  ASSUME TypeOK, TypeOK', DownInv, KnownInv, [Next]_vars, Current'
  PROVE  IdsRight' /\ NodesServed'
<1>0. AskInv /\ (Current => IdsRight /\ NodesServed)
  BY DEF KnownInv
<1>1. CASE Manager \/ AmConnects \/ AmDisconnects \/ AmStarts \/ AmStops
  BY <1>0, <1>1, CurrentManager, CurrentEnds DEF Manager
<1>2. CASE Messages
  BY <1>0, <1>2, CurrentMessages, CurrentEnds DEF Messages
<1>3. CASE NodeEvents
  <2>1. UNCHANGED <<domain, fromAM>>
    BY <1>3 DEF NodeEvents, CreateNode, DestroyNode, UpdateNodeAvailability, DeviceGone,
    DeviceBack
  <2>2. Current /\ IdsRight /\ NodesServed
    BY <1>0, <2>1 DEF Current
  <2>3. IdsRight'
    BY <1>3, <2>2, EventIds
  <2>4. ASSUME \A i \in DOMAIN fromAM' : fromAM'[i].m # "domainIs",
               NEW n \in Living', ~nodes'[n].withheld
        PROVE  Served(n)'
    <3>1. \A x \in Living : ~nodes[x].withheld => Served(x)
      BY <2>1, <2>2, <2>4 DEF NodesServed
    <3> QED
      BY <1>3, <2>2, <2>4, <3>1, EventServed
  <2> QED
    BY <2>3, <2>4 DEF NodesServed
<1>4. CASE ExtConnect \/ ExtConnectFails \/ ExtDisconnect \/ UNCHANGED vars
  <2>1. UNCHANGED <<nodes, hash, domain, toAM, fromAM, am>>
    BY <1>4 DEF ExtConnect, ExtConnectFails, ExtDisconnect, vars, module
  <2>2. Current /\ IdsRight /\ NodesServed
    BY <1>0, <2>1 DEF Current
  <2>3. IdsRight'
    BY <2>1, <2>2 DEF IdsRight, Older, Living, Direction
  <2>4. NodesServed'
    <3>1. ASSUME NEW n \in Living, Served(n) PROVE Served(n)'
      <4>1. AddsCalls
        BY <2>1 DEF AddsCalls, Continues
      <4> QED
        BY <2>1, <3>1, <4>1, ServedOthers
    <3>2. Living' = Living
      BY <2>1 DEF Living
    <3> QED
      BY <2>1, <2>2, <3>1, <3>2 DEF NodesServed
  <2> QED
    BY <2>3, <2>4
<1> QED
  BY <1>1, <1>2, <1>3, <1>4 DEF Next

LEMMA RepliesStep ==
  ASSUME TypeOK, TypeOK', AskInv, RepliesRight, [Next]_vars
  PROVE  RepliesRight'
<1>1. CASE Manager \/ AmConnects \/ AmDisconnects \/ AmStarts \/ AmStops
  <2>1. CASE \/ AmTakesDomain \/ AmTakesComplete \/ AmTakesAck \/ AmDropsNode
             \/ AmTakesNode \/ AmConnects \/ AmDisconnects
    <3>1. Works
      BY <2>1, WorksTakes, WorksRegisters, WorksConnections
    <3> QED
      BY <3>1, RepliesWorks
  <2>2. CASE AmStarts \/ AmStops \/ BusRefuses
    BY <2>2, RepliesRestarts
  <2> QED
    BY <1>1, <2>1, <2>2 DEF Manager
<1>2. CASE Messages
  <2>1. UNCHANGED am /\ \E kind : Received(kind)
    BY <1>2 DEF Messages, HandleUp, HandleGone, DomainRegistered, NodeRegistered, Connect,
       Disconnect
  <2> QED
    BY <2>1, RepliesModule
<1>3. CASE NodeEvents \/ ExtConnect \/ ExtConnectFails \/ ExtDisconnect \/ UNCHANGED vars
  <2>1. UNCHANGED <<am, fromAM>>
    BY <1>3 DEF NodeEvents, CreateNode, DestroyNode, UpdateNodeAvailability, DeviceGone,
    DeviceBack, ExtConnect, ExtConnectFails,
       ExtDisconnect, vars
  <2> QED
    BY <2>1, RepliesModule
<1> QED
  BY <1>1, <1>2, <1>3 DEF Next

LEMMA KnownStep ==
  ASSUME TypeOK, TypeOK', DownInv, KnownInv, [Next]_vars
  PROVE  KnownInv'
<1>1. AskInv /\ RepliesRight /\ OneNodePerKey
  BY DEF KnownInv
<1>2. AskInv'
  BY <1>1, AskManager, AskModule DEF Next
<1>3. RepliesRight' /\ OneNodePerKey'
  BY <1>1, RepliesStep, KeysStep
<1>4. Current' => IdsRight' /\ NodesServed'
  BY CurrentStep
<1> QED
  BY <1>2, <1>3, <1>4 DEF KnownInv

LEMMA KnownInit ==
  ASSUME Init
  PROVE  KnownInv
<1>1. /\ DOMAIN fromAM = {} /\ fromAM = <<>> /\ domain = None /\ amisup = FALSE
      /\ DOMAIN nodes = {} /\ toAM = <<DomainCall>> /\ ~Current
  BY DEF Init, Current
<1>2. AskInv
  <2>1. 1 \in DOMAIN toAM /\ toAM[1] = DomainCall
    BY <1>1
  <2> QED
    BY <1>1, <2>1 DEF AskInv
<1> QED
  BY <1>1, <1>2 DEF KnownInv, RepliesRight, OneNodePerKey, Living

(* When nothing is under way, to be known is all that is left.             *)
LEMMA KnownAtRest ==
  ASSUME TypeOK, DownInv, KnownInv
  PROVE  AvailableKnown
<1> SUFFICES ASSUME Quiet, am.up, NEW n \in Living, ~nodes[n].withheld
             PROVE  LET id == nodes[n].amid
                        d == Direction(n)
                    IN  /\ id # None /\ <<d, id>> \in DOMAIN hash /\ hash[<<d, id>>] = n
                        /\ am.reg[d][id] = nodes[n].key
  BY DEF AvailableKnown, Due
<1>1. toAM = <<>> /\ fromAM = <<>> /\ DOMAIN toAM = {} /\ DOMAIN fromAM = {} /\ Len(fromAM) = 0
  BY DEF Quiet
<1>2. am.domains # 0
  BY <1>1 DEF KnownInv, AskInv
<1>3. domain # None
  <2>1. AnnouncedIn(fromAM, domain, 1)
    <3>1. am.domains > 0 /\ Len(fromAM) + 1 = 1
      BY <1>1, <1>2, KnownTypes
    <3> QED
      BY <3>1 DEF DownInv, ManagerFollows
  <2> QED
    BY <2>1 DEF AnnouncedIn
<1>4. Served(n)
  BY <1>1, <1>3 DEF KnownInv, Current, NodesServed
<1>5. Known(n)
  BY <1>1, <1>4 DEF Served, OnWay, Answered
<1> QED
  BY <1>5 DEF Known, Stands, Direction

(* audiomgr_register_node_cb, pa_audiomgr_unregister_node and              *)
(* pa_discover_domain_up: whenever nothing is under way, every node that   *)
(* was available when the domain came up or it was made, or whose port     *)
(* came back, has an id that leads to it, and the audio manager that runs  *)
(* has this node under it.  However often that was restarted, however      *)
(* often sinks and sources went and came back without a word to it, and    *)
(* whatever came and went while the registrations were under way, no such  *)
(* node is left out, and none is known by another's id.                    *)
THEOREM AvailableAreKnown == Spec => []AvailableKnown
<1> DEFINE Inv == TypeOK /\ ConnsFaithful /\ DownInv /\ KnownInv
<1>1. Init => Inv
  BY TypeInit, DownInit, KnownInit
<1>2. Inv /\ [Next]_vars => Inv'
  BY TypeNext, DownNext, KnownStep
<1>3. Inv => AvailableKnown
  BY KnownAtRest
<1> QED
  BY <1>1, <1>2, <1>3, PTL DEF Spec

=============================================================================
