---------------------------- MODULE CardsProofs ----------------------------
(***************************************************************************)
(* Proofs about Cards, for any cards, profiles and ports, and whatever is  *)
(* plugged, changed and routed while a profile is being changed.           *)
(*                                                                         *)
(* A handler takes the record of the nodes through several steps, and a    *)
(* pass may follow: the invariant is therefore stated of that record, of   *)
(* the cards that are plugged, their active profiles and the changes that  *)
(* are not done, and each operator is shown to preserve its parts.         *)
(***************************************************************************)
EXTENDS Cards, SequenceTheorems, TLAPS

-----------------------------------------------------------------------------
(* The invariant.                                                          *)

Directions == {"sink", "source"}

State == [nodes : [Key -> Node \cup {None}], byptr : [Dev -> Key \cup {None}],
          live : SUBSET Dev, port : [Dev -> Port \cup {None}],
          late : [Directions -> Dev \cup {None}]]

(* LinksMutual, of a record.                                               *)
Linked(s) ==
  /\ \A d \in Dev : s.byptr[d] # None => /\ d \in s.live /\ s.byptr[d][1] = d
                                         /\ s.nodes[s.byptr[d]] # None
                                         /\ s.nodes[s.byptr[d]].linked
  /\ \A k \in Key : s.nodes[k] # None /\ s.nodes[k].linked => s.byptr[k[1]] = k

(* What was kept for later is there, and has no node unless setting its    *)
(* port has given it the one that it will be added to.                     *)
OwnNode(s, d) == CardOf[d] \in Alsa /\ s.byptr[d] = <<d, s.port[d], None>>
LateFree(s) ==
  \A dir \in Directions : s.late[dir] # None =>
    /\ s.late[dir] \in s.live /\ Direction(s.late[dir]) = dir
    /\ s.byptr[s.late[dir]] = None \/ OwnNode(s, s.late[dir])

Sound(s) == s \in State /\ Linked(s) /\ LateFree(s)

(* At most one change waits for another, and only for one that a pass      *)
(* makes, of another card.                                                 *)
StackOK(ch) ==
  /\ ch \in Seq(CardChange) /\ Len(ch) <= 2
  /\ Len(ch) = 2 => /\ ch[1].card # ch[2].card
                    /\ ch[1].kind # "route" /\ ch[2].kind = "route"

(* A change is of a card that is there; what will be left of its old sinks *)
(* and sources is what the new profile has, too.                           *)
ChangeOK(s, P, A, x) ==
  /\ x.card \in P /\ x.to \in ProfilesOf(x.card) /\ x.left \subseteq DevsOn(x.card)
  /\ x.kind = "route" => x.card \in Bluetooth
  /\ x.kind = "unplug" => x.to = Off
  /\ x.kind = "plug" => /\ A[x.card] = x.to
                        /\ x.card \in Alsa => \A k \in AlsaKeys(x.card, x.to) : s.nodes[k] # None
  /\ x.changed => /\ x.kind \in {"change", "route"} /\ x.left = {} /\ A[x.card] = x.to
                   /\ DevsOf[x.card][x.to] \subseteq s.live
  /\ \A d \in s.live : CardOf[d] = x.card => d \in x.left \/ d \in DevsOf[x.card][x.to]

(* A sink of an ALSA card that can have a node, as those of profiles with  *)
(* more than two channels cannot, waits for it only while others change    *)
(* the profile.                                                            *)
HasKey(d) == \E k \in Key : k[1] = d
OfAlsa(d) == CardOf[d] \in Alsa /\ HasKey(d)
LateAlsa(s, ch) ==
  \A dir \in Directions : s.late[dir] # None /\ OfAlsa(s.late[dir]) =>
    /\ ch # <<>> /\ ch[1].kind = "change"
    /\ dir = "sink" => ~ch[1].changed

(* The sinks, sources and nodes are of cards that are plugged, and a       *)
(* bluetooth card has all its nodes as long as it is.                      *)
Fits(s, P, A, ch) ==
  /\ P \subseteq Card /\ A \in [Card -> Profile] /\ \A c \in Card : A[c] \in ProfilesOf(c)
  /\ \A d \in s.live : CardOf[d] \in P
  /\ \A k \in Key : s.nodes[k] # None => CardOf[k[1]] \in P
  /\ \A c \in Bluetooth \cap P : \A k \in KeysOf[c] : s.nodes[k] # None
  /\ StackOK(ch)
  /\ \A i \in DOMAIN ch : ChangeOK(s, P, A, ch[i])
  /\ LateAlsa(s, ch)

Available3 == avail \in [Port -> {"yes", "no", "unknown"}]

IInv == Sound(Nodes) /\ Fits(Nodes, plugged, active, changes) /\ Available3

(* Unless others are hasty: an ALSA card that is not being changed, or has *)
(* just been plugged, has the nodes of its profile; while the profile is   *)
(* changed the nodes it has are not fresh.                                 *)
ProfileNodes(s, P, A, ch) ==
  \A c \in Alsa \cap P :
    /\ (\A i \in DOMAIN ch : ch[i].card = c => ch[i].kind = "plug")
         => \A k \in KeysOf[c] : s.nodes[k] # None <=> k \in AlsaKeys(c, A[c])
    /\ (\E i \in DOMAIN ch : ch[i].card = c /\ ch[i].kind = "change")
         => \A k \in KeysOf[c] : s.nodes[k] # None => ~s.nodes[k].fresh

ProfileInv == ProfileNodes(Nodes, plugged, active, changes)

(* The sinks and sources that have come in a change that the module made   *)
(* are linked, with nodes of the new profile.                              *)
ComeLinked(s, ch) ==
  \A i \in DOMAIN ch : ch[i].kind \in {"plug", "route"} =>
    \A d \in s.live \ ch[i].left : CardOf[d] = ch[i].card /\ HasKey(d) =>
      s.byptr[d] # None /\ (ch[i].card \in Bluetooth => s.byptr[d][3] = ch[i].to)

ComeInv == ComeLinked(Nodes, changes)

-----------------------------------------------------------------------------
(* Cards, their sinks and sources, and the keys of their nodes.            *)

LEMMA CardOfDev ==
  ASSUME NEW d \in Dev
  PROVE  CardOf[d] \in Card /\ d \in DevsOn(CardOf[d])
BY DEF Dev, CardOf

LEMMA DevOfCard ==
  ASSUME NEW c \in Card, NEW d \in DevsOn(c)
  PROVE  d \in Dev /\ CardOf[d] = c
<1>1. d \in Dev
  BY DEF Dev
<1>2. CardOf[d] \in Card /\ d \in DevsOn(CardOf[d])
  BY <1>1, CardOfDev
<1> QED
  BY <1>1, <1>2, CardsConfig DEF CardsConfig

LEMMA DevOfProfile ==
  ASSUME NEW c \in Card, NEW p \in ProfilesOf(c), NEW d \in DevsOf[c][p]
  PROVE  d \in Dev /\ CardOf[d] = c /\ d \in DevsOn(c) /\ p \in Profile
<1>1. d \in DevsOn(c) /\ p \in Profile
  BY DEF DevsOn, Profile
<1> QED
  BY <1>1, DevOfCard

LEMMA AlsaKeyForm ==
  ASSUME NEW c \in Alsa, NEW p \in ProfilesOf(c), NEW k \in AlsaKeys(c, p)
  PROVE  /\ k = <<k[1], k[2], k[3]>> /\ k[1] \in DevsOf[c][p] /\ CardOf[k[1]] = c
         /\ k[3] = None /\ k[2] \in Port \cup {None}
<1>1. c \in Card
  BY DEF Card
<1>2. PICK d \in DevsOf[c][p] :
        \/ PortsFor[d][p] = {} /\ k = <<d, None, None>>
        \/ \E q \in PortsFor[d][p] : k = <<d, q, None>>
  BY DEF AlsaKeys, Considered
<1>3. d \in Dev /\ CardOf[d] = c
  BY <1>1, <1>2, DevOfProfile
<1>4. PortsFor[d][p] \subseteq Port
  <2>1. PortsOf[c][p] \subseteq Port
    BY <1>1, CardsConfig DEF CardsConfig
  <2>2. PortsFor[d][p] \subseteq PortsOf[c][p]
    BY <1>3 DEF PortsFor
  <2> QED
    BY <2>1, <2>2
<1> QED
  BY <1>2, <1>3, <1>4

LEMMA BluetoothKeyForm ==
  ASSUME NEW c \in Bluetooth, NEW k \in BluetoothKeys(c)
  PROVE  /\ k = <<k[1], k[2], k[3]>> /\ CardOf[k[1]] = c /\ k[1] \in Dev
         /\ k[3] \in ProfilesOf(c) /\ k[1] \in DevsOf[c][k[3]] /\ k[2] \in PortsFor[k[1]][k[3]]
         /\ k[2] \in Port
<1>1. c \in Card
  BY DEF Card
<1>2. PICK p \in ProfilesOf(c) :
        \E d \in DevsOf[c][p] : \E q \in PortsFor[d][p] : k = <<d, q, p>>
  BY DEF BluetoothKeys
<1>5. PICK d \in DevsOf[c][p] : \E q \in PortsFor[d][p] : k = <<d, q, p>>
  BY <1>2
<1>6. PICK q \in PortsFor[d][p] : k = <<d, q, p>>
  BY <1>5
<1>3. d \in Dev /\ CardOf[d] = c
  BY <1>1, <1>2, <1>5, DevOfProfile
<1>4. PortsFor[d][p] \subseteq Port
  <2>1. PortsOf[c][p] \subseteq Port
    BY <1>1, <1>2, CardsConfig DEF CardsConfig
  <2>2. PortsFor[d][p] \subseteq PortsOf[c][p]
    BY <1>2, <1>3 DEF PortsFor
  <2> QED
    BY <2>1, <2>2
<1> QED
  BY <1>2, <1>3, <1>4, <1>5, <1>6

LEMMA NotBoth ==
  ASSUME NEW c \in Card
  PROVE  c \in Bluetooth <=> c \notin Alsa
BY CardsConfig DEF CardsConfig, Card

LEMMA KeyOfCard ==
  ASSUME NEW c \in Card, NEW k \in KeysOf[c]
  PROVE  /\ k \in Key /\ k = <<k[1], k[2], k[3]>> /\ k[1] \in Dev /\ CardOf[k[1]] = c
         /\ k[2] \in Port \cup {None} /\ (k[3] = None <=> c \in Alsa)
         /\ c \in Bluetooth => k \in BluetoothKeys(c)
<1>1. k \in Key
  BY DEF Key
<1>2. CASE c \in Alsa
  <2>1. PICK p \in ProfilesOf(c) : k \in AlsaKeys(c, p)
    BY <1>2 DEF KeysOf
  <2>2. /\ k = <<k[1], k[2], k[3]>> /\ k[1] \in DevsOf[c][p] /\ CardOf[k[1]] = c
        /\ k[3] = None /\ k[2] \in Port \cup {None}
    BY <1>2, <2>1, AlsaKeyForm
  <2>3. k[1] \in Dev
    BY <2>1, <2>2, DevOfProfile
  <2> QED
    BY <1>1, <1>2, <2>2, <2>3, NotBoth
<1>3. CASE c \notin Alsa
  <2>1. c \in Bluetooth /\ k \in BluetoothKeys(c)
    BY <1>3, NotBoth DEF KeysOf
  <2>2. /\ k = <<k[1], k[2], k[3]>> /\ CardOf[k[1]] = c /\ k[1] \in Dev
        /\ k[3] \in ProfilesOf(c) /\ k[2] \in Port
    BY <2>1, BluetoothKeyForm
  <2>3. k[3] # None
    BY <2>2, NoneConfig DEF NoneConfig, Profile
  <2> QED
    BY <1>1, <1>3, <2>1, <2>2, <2>3
<1> QED
  BY <1>2, <1>3

LEMMA KeyForm ==
  ASSUME NEW k \in Key
  PROVE  /\ k = <<k[1], k[2], k[3]>> /\ k[1] \in Dev /\ k \in KeysOf[CardOf[k[1]]]
         /\ CardOf[k[1]] \in Card /\ (k[3] = None <=> CardOf[k[1]] \in Alsa)
         /\ k[2] \in Port \cup {None} /\ k # None
<1>1. PICK c \in Card : k \in KeysOf[c]
  BY DEF Key
<1> QED
  BY <1>1, KeyOfCard, NoneConfig DEF NoneConfig

(* PulseAudio gives a port to all profiles of a card that have the device. *)
LEMMA AlsaKeyStays ==
  ASSUME NEW c \in Alsa, NEW p \in ProfilesOf(c), NEW k \in KeysOf[c], k[1] \in DevsOf[c][p]
  PROVE  k \in AlsaKeys(c, p)
<1>1. c \in Card
  BY DEF Card
<1>2. PICK r \in ProfilesOf(c) : k \in AlsaKeys(c, r)
  BY <1>1 DEF KeysOf
<1>3. PICK d \in DevsOf[c][r] :
        /\ r \notin Wide
        /\ \/ PortsFor[d][r] = {} /\ k = <<d, None, None>>
           \/ \E q \in PortsFor[d][r] : k = <<d, q, None>>
  BY <1>2 DEF AlsaKeys, Considered
<1>4. k[1] = d
  BY <1>3
<1>5. d \in Dev /\ CardOf[d] = c
  BY <1>1, <1>2, <1>3, DevOfProfile
<1>6. PortsFor[d][p] = PortsFor[d][r]
  <2>1. d \in DevsOf[CardOf[d]][p] \cap DevsOf[CardOf[d]][r] /\ p \in ProfilesOf(CardOf[d])
        /\ r \in ProfilesOf(CardOf[d]) /\ CardOf[d] \in Alsa
    BY <1>2, <1>3, <1>4, <1>5
  <2> QED
    BY <1>5, <2>1, CardsConfig DEF CardsConfig
<1>7. p \notin Wide
  BY <1>2, <1>3, <1>4, WideApart DEF WideApart
<1> QED
  BY <1>3, <1>4, <1>6, <1>7 DEF AlsaKeys, Considered

(* Sinks and sources of profiles that are left out have no node.           *)
LEMMA Narrow ==
  ASSUME NEW c \in Alsa, NEW p \in ProfilesOf(c), NEW d \in DevsOf[c][p], HasKey(d)
  PROVE  p \notin Wide
<1>1. PICK k \in Key : k[1] = d
  BY DEF HasKey
<1>2. CardOf[d] = c /\ k \in KeysOf[c]
  BY <1>1, DevOfProfile, KeyForm DEF Card
<1>3. k \in AlsaKeys(c, p)
  BY <1>1, <1>2, AlsaKeyStays
<1> QED
  BY <1>3 DEF AlsaKeys, Considered

(* A link is evidence.                                                     *)
LEMMA LinkedHasKey ==
  ASSUME NEW s \in State, Linked(s), NEW d \in Dev, s.byptr[d] # None
  PROVE  HasKey(d)
<1>1. s.byptr[d] \in Key /\ s.byptr[d][1] = d
  BY DEF State, Linked
<1> QED
  BY <1>1 DEF HasKey

LEMMA AlsaKeyKnown ==
  ASSUME NEW c \in Alsa, NEW p \in ProfilesOf(c)
  PROVE  AlsaKeys(c, p) \subseteq KeysOf[c]
BY DEF KeysOf, Card

LEMMA AvailableType ==
  ASSUME NEW k \in Key
  PROVE  Available(k) \in BOOLEAN
BY DEF Available, PortThere

-----------------------------------------------------------------------------
(* What the operators on the record of the nodes do.                       *)

LEMMA StateFields ==
  ASSUME NEW s \in State
  PROVE  /\ s.nodes \in [Key -> Node \cup {None}] /\ s.byptr \in [Dev -> Key \cup {None}]
         /\ s.live \subseteq Dev /\ s.port \in [Dev -> Port \cup {None}]
         /\ s.late \in [Directions -> Dev \cup {None}]
         /\ s = [nodes |-> s.nodes, byptr |-> s.byptr, live |-> s.live,
                 port |-> s.port, late |-> s.late]
BY DEF State

LEMMA DirectionType ==
  ASSUME NEW d
  PROVE  Direction(d) \in Directions
BY DEF Direction, Directions

LEMMA NodeFields ==
  ASSUME NEW n \in Node
  PROVE  /\ n # None /\ n.available \in BOOLEAN /\ n.linked \in BOOLEAN /\ n.fresh \in BOOLEAN
         /\ \A b \in BOOLEAN : /\ [n EXCEPT !.linked = b] \in Node
                               /\ [n EXCEPT !.linked = b].linked = b
                               /\ [n EXCEPT !.linked = b].fresh = n.fresh
                               /\ [n EXCEPT !.available = b] \in Node
                               /\ [n EXCEPT !.available = b].linked = n.linked
                               /\ [n EXCEPT !.available = b].fresh = n.fresh
                               /\ [n EXCEPT !.fresh = b] \in Node
                               /\ [n EXCEPT !.fresh = b].linked = n.linked
                               /\ [n EXCEPT !.fresh = b].fresh = b
<1>1. n # None
  BY NoneConfig DEF NoneConfig
<1> QED
  BY <1>1 DEF Node

(* The same nodes are there, and none has become fresh.                    *)
SameNodes(s, r) ==
  \A k \in Key : /\ r.nodes[k] = None <=> s.nodes[k] = None
                 /\ s.nodes[k] # None /\ r.nodes[k].fresh => s.nodes[k].fresh

(* Adding d to s, with the key k of its node, comes to r.                  *)
Added(s, r, d, k, held) ==
  /\ r \in State /\ Linked(r) /\ r.live = s.live /\ r.port = s.port /\ SameNodes(s, r)
  /\ \A e \in Dev \ {d} : r.byptr[e] = s.byptr[e]
  /\ Found(s, k) => r.late = s.late /\ r.byptr[d] = k
  /\ ~Found(s, k) => /\ r.byptr = s.byptr
                     /\ r.late = IF held # None THEN s.late ELSE [s.late EXCEPT ![Direction(d)] = d]

LEMMA AddDoes ==
  ASSUME NEW s \in State, Linked(s), NEW d \in Dev, d \in s.live, NEW p, NEW held,
         s.byptr[d] = None \/ s.byptr[d] = NodeKey(d, p, held, s.port[d])
  PROVE  Added(s, AddDevice(s, d, p, held), d, NodeKey(d, p, held, s.port[d]), held)
<1> DEFINE k == NodeKey(d, p, held, s.port[d])
           r == AddDevice(s, d, p, held)
<1>1. /\ s.nodes \in [Key -> Node \cup {None}] /\ s.byptr \in [Dev -> Key \cup {None}]
      /\ s.live \subseteq Dev /\ s.port \in [Dev -> Port \cup {None}]
      /\ s.late \in [Directions -> Dev \cup {None}]
  BY StateFields
<1>2. CASE ~Found(s, k)
  <2>1. r = IF held # None THEN s ELSE [s EXCEPT !.late[Direction(d)] = d]
    BY <1>2 DEF AddDevice
  <2>2. /\ r.nodes = s.nodes /\ r.byptr = s.byptr /\ r.live = s.live /\ r.port = s.port
        /\ r.late = IF held # None THEN s.late ELSE [s.late EXCEPT ![Direction(d)] = d]
        /\ r \in State
    BY <2>1, <1>1, DirectionType DEF State
  <2> HIDE DEF r
  <2>3. Linked(r) /\ SameNodes(s, r)
    BY <2>2, <1>1 DEF Linked, SameNodes
  <2>4. Added(s, r, d, k, held)
    <3> HIDE DEF k
    <3> QED
      BY <1>2, <2>2, <2>3 DEF Added
  <2> QED
    BY <2>4 DEF r
<1>3. CASE Found(s, k)
  <2>1. k \in Key /\ s.nodes[k] \in Node /\ k[1] = d
    BY <1>1, <1>3 DEF Found, NodeKey
  <2>2. r = [s EXCEPT !.nodes[k] = [@ EXCEPT !.linked = TRUE, !.available = TRUE],
                      !.byptr[d] = IF @ = None THEN k ELSE @]
    BY <1>3 DEF AddDevice
  <2> HIDE DEF k
  <2>3. /\ r.live = s.live /\ r.port = s.port /\ r.late = s.late
        /\ r.byptr = [s.byptr EXCEPT ![d] = k]
        /\ r.nodes = [s.nodes EXCEPT ![k] = [[s.nodes[k] EXCEPT !.linked = TRUE] EXCEPT !.available = TRUE]]
        /\ r = [nodes |-> r.nodes, byptr |-> r.byptr, live |-> r.live, port |-> r.port, late |-> r.late]
    <3>1. /\ r.live = s.live /\ r.port = s.port /\ r.late = s.late
          /\ r = [nodes |-> r.nodes, byptr |-> r.byptr, live |-> r.live, port |-> r.port, late |-> r.late]
      BY <2>2, StateFields
    <3>2. r.byptr = [s.byptr EXCEPT ![d] = IF s.byptr[d] = None THEN k ELSE s.byptr[d]]
      BY <2>2, StateFields
    <3>3. r.byptr = [s.byptr EXCEPT ![d] = k]
      BY <3>2 DEF k
    <3>4. r.nodes = [s.nodes EXCEPT ![k] = [s.nodes[k] EXCEPT !.linked = TRUE, !.available = TRUE]]
      BY <2>1, <2>2, <1>1, StateFields
    <3> QED
      BY <3>1, <3>3, <3>4, <2>1 DEF Node
  <2> DEFINE n == [[s.nodes[k] EXCEPT !.linked = TRUE] EXCEPT !.available = TRUE]
  <2>4. n \in Node /\ n.linked /\ n.fresh = s.nodes[k].fresh /\ n # None
    <3> DEFINE m == [s.nodes[k] EXCEPT !.linked = TRUE]
    <3>1. m \in Node /\ m.linked = TRUE /\ m.fresh = s.nodes[k].fresh
      BY <2>1, NodeFields
    <3> HIDE DEF m
    <3>2. /\ [m EXCEPT !.available = TRUE] \in Node
          /\ [m EXCEPT !.available = TRUE].linked = m.linked
          /\ [m EXCEPT !.available = TRUE].fresh = m.fresh
      BY <3>1, NodeFields
    <3>3. [m EXCEPT !.available = TRUE] # None
      BY <3>2, NodeFields
    <3> QED
      BY <3>1, <3>2, <3>3 DEF m
  <2> HIDE DEF n, r
  <2>5. r.nodes \in [Key -> Node \cup {None}] /\ r.byptr \in [Dev -> Key \cup {None}]
    BY <2>1, <2>3, <2>4, <1>1 DEF n
  <2>6. r \in State
    BY <2>3, <2>5, <1>1 DEF State
  <2>7. \A l \in Key : r.nodes[l] = IF l = k THEN n ELSE s.nodes[l]
    BY <2>3, <1>1 DEF n
  <2>8. \A e \in Dev : r.byptr[e] = IF e = d THEN k ELSE s.byptr[e]
    BY <2>3, <1>1
  <2>9. SameNodes(s, r)
    BY <2>7, <2>4, <2>1, NodeFields DEF SameNodes
  <2>10. Linked(r)
    <3>1. ASSUME NEW e \in Dev, r.byptr[e] # None
          PROVE  /\ e \in r.live /\ r.byptr[e][1] = e
                 /\ r.nodes[r.byptr[e]] # None /\ r.nodes[r.byptr[e]].linked
      <4>1. CASE e = d
        BY <4>1, <2>1, <2>3, <2>4, <2>7, <2>8
      <4>2. CASE e # d
        <5>1. r.byptr[e] = s.byptr[e] /\ s.byptr[e] \in Key
          BY <4>2, <2>8, <3>1, <1>1
        <5>2. /\ e \in s.live /\ s.byptr[e][1] = e
              /\ s.nodes[s.byptr[e]] # None /\ s.nodes[s.byptr[e]].linked
          BY <5>1, <3>1 DEF Linked
        <5>3. s.byptr[e] # k
          BY <5>2, <4>2, <2>1
        <5> QED
          BY <5>1, <5>2, <5>3, <2>3, <2>7
      <4> QED
        BY <4>1, <4>2
    <3>2. ASSUME NEW l \in Key, r.nodes[l] # None, r.nodes[l].linked
          PROVE  r.byptr[l[1]] = l
      <4>1. CASE l = k
        BY <4>1, <2>1, <2>8
      <4>2. CASE l # k
        <5>1. s.nodes[l] # None /\ s.nodes[l].linked
          BY <4>2, <2>7, <3>2
        <5>2. s.byptr[l[1]] = l /\ l[1] \in Dev /\ l # None
          BY <5>1, KeyForm DEF Linked
        <5>3. l[1] # d
          BY <5>2, <4>2 DEF k
        <5> QED
          BY <5>2, <5>3, <2>8
      <4> QED
        BY <4>1, <4>2
    <3> QED
      BY <3>1, <3>2 DEF Linked
  <2>11. Added(s, r, d, k, held)
    BY <1>3, <2>3, <2>6, <2>8, <2>9, <2>10 DEF Added
  <2> QED
    BY <2>11 DEF r, k
<1> QED
  BY <1>2, <1>3

LEMMA RemoveDoes ==
  ASSUME NEW s \in State, Linked(s), NEW d \in Dev
  PROVE  /\ RemoveDevice(s, d) \in State /\ Linked(RemoveDevice(s, d))
         /\ RemoveDevice(s, d).live = s.live \ {d}
         /\ SameNodes(s, RemoveDevice(s, d))
         /\ \A e \in Dev \ {d} : /\ RemoveDevice(s, d).byptr[e] = s.byptr[e]
                                 /\ RemoveDevice(s, d).port[e] = s.port[e]
         /\ RemoveDevice(s, d).late =
              [s.late EXCEPT ![Direction(d)] = IF @ = d THEN None ELSE @]
<1> DEFINE k == s.byptr[d]
           r == RemoveDevice(s, d)
           gone == [s EXCEPT !.live = @ \ {d}, !.port[d] = None, !.byptr[d] = None,
                             !.late[Direction(d)] = IF @ = d THEN None ELSE @]
<1>1. /\ s.nodes \in [Key -> Node \cup {None}] /\ s.byptr \in [Dev -> Key \cup {None}]
      /\ s.live \subseteq Dev /\ s.port \in [Dev -> Port \cup {None}]
      /\ s.late \in [Directions -> Dev \cup {None}]
  BY StateFields
<1>2. /\ gone \in State /\ gone.nodes = s.nodes /\ gone.live = s.live \ {d}
      /\ gone.port = [s.port EXCEPT ![d] = None]
      /\ gone.byptr = [s.byptr EXCEPT ![d] = None]
      /\ gone.late = [s.late EXCEPT ![Direction(d)] = IF @ = d THEN None ELSE @]
  BY <1>1, DirectionType DEF State
<1>3. /\ r.live = gone.live /\ r.port = gone.port /\ r.byptr = gone.byptr /\ r.late = gone.late
      /\ r \in State /\ SameNodes(s, r)
      /\ k = None => r.nodes = s.nodes
      /\ k # None => /\ ~r.nodes[k].linked
                     /\ \A l \in Key \ {k} : r.nodes[l] = s.nodes[l]
  <2>1. CASE k = None
    <3>1. r = gone
      BY <2>1 DEF RemoveDevice
    <3> HIDE DEF r, gone
    <3> QED
      BY <2>1, <3>1, <1>2 DEF SameNodes
  <2>2. CASE k # None
    <3>1. k \in Key /\ s.nodes[k] \in Node
      BY <2>2, <1>1 DEF Linked
    <3>2. r = [gone EXCEPT !.nodes[k] = [available |-> @.available /\ k[3] \in Headset,
                                         linked |-> FALSE, fresh |-> @.fresh]]
      BY <2>2 DEF RemoveDevice
    <3> DEFINE b == s.nodes[k].available /\ k[3] \in Headset
               n == [available |-> b, linked |-> FALSE, fresh |-> s.nodes[k].fresh]
    <3>3. b \in BOOLEAN
      OBVIOUS
    <3>4. s.nodes[k].available \in BOOLEAN
      BY <3>1, NodeFields
    <3>5. n \in Node /\ ~n.linked /\ n.fresh = s.nodes[k].fresh /\ n # None
      <4> HIDE DEF b
      <4>1. s.nodes[k].fresh \in BOOLEAN
        BY <3>1, NodeFields
      <4>2. n \in Node
        BY <4>1, <3>3 DEF Node
      <4> QED
        BY <4>2, NodeFields
    <3> HIDE DEF gone, k
    <3>13. /\ r.live = gone.live /\ r.port = gone.port /\ r.byptr = gone.byptr /\ r.late = gone.late
           /\ r = [nodes |-> r.nodes, byptr |-> r.byptr, live |-> r.live, port |-> r.port, late |-> r.late]
      BY <3>2, <1>2 DEF State
    <3>14. r.nodes = [s.nodes EXCEPT ![k] = n]
      <4>1. gone.nodes = s.nodes /\ gone.nodes[k] = s.nodes[k]
        BY <1>2
      <4> QED
        BY <3>2, <4>1, <1>2 DEF State
    <3>6. /\ r.live = gone.live /\ r.port = gone.port /\ r.byptr = gone.byptr /\ r.late = gone.late
          /\ r = [nodes |-> r.nodes, byptr |-> r.byptr, live |-> r.live, port |-> r.port, late |-> r.late]
          /\ r.nodes = [s.nodes EXCEPT ![k] = n]
      BY <3>13, <3>14
    <3> HIDE DEF n, r
    <3>7. \A l \in Key : r.nodes[l] = IF l = k THEN n ELSE s.nodes[l]
      BY <3>6, <1>1
    <3>8. r.nodes \in [Key -> Node \cup {None}]
      BY <3>6, <3>5, <1>1
    <3>9. r \in State
      BY <3>6, <3>8, <1>2 DEF State
    <3>10. SameNodes(s, r)
      BY <3>7, <3>5, <3>1, NodeFields DEF SameNodes
    <3> QED
      BY <3>1, <3>5, <3>6, <3>7, <3>9, <3>10, <2>2
  <2> QED
    BY <2>1, <2>2
<1> HIDE DEF r, gone
<1>4. \A e \in Dev : /\ r.byptr[e] = IF e = d THEN None ELSE s.byptr[e]
                     /\ r.port[e] = IF e = d THEN None ELSE s.port[e]
  BY <1>1, <1>2, <1>3
<1>5. Linked(r)
  <2>1. ASSUME NEW e \in Dev, r.byptr[e] # None
        PROVE  /\ e \in r.live /\ r.byptr[e][1] = e
               /\ r.nodes[r.byptr[e]] # None /\ r.nodes[r.byptr[e]].linked
    <3>1. e # d /\ r.byptr[e] = s.byptr[e] /\ s.byptr[e] \in Key
      BY <2>1, <1>4, <1>1
    <3>2. /\ e \in s.live /\ s.byptr[e][1] = e
          /\ s.nodes[s.byptr[e]] # None /\ s.nodes[s.byptr[e]].linked
      BY <3>1, <2>1 DEF Linked
    <3>3. s.byptr[e] # k
      <4>1. s.byptr[e] # None
        BY <3>1, KeyForm
      <4>2. k # None => k[1] = d
        BY DEF Linked
      <4> QED
        BY <3>1, <3>2, <4>1, <4>2
    <3>4. r.nodes[s.byptr[e]] = s.nodes[s.byptr[e]]
      BY <3>1, <3>3, <1>3
    <3> QED
      BY <3>1, <3>2, <3>4, <1>2, <1>3
  <2>2. ASSUME NEW l \in Key, r.nodes[l] # None, r.nodes[l].linked
        PROVE  r.byptr[l[1]] = l
    <3>1. r.nodes[l] = s.nodes[l] /\ (k # None => l # k)
      BY <2>2, <1>3
    <3>2. s.byptr[l[1]] = l /\ l[1] \in Dev /\ l # None
      BY <3>1, <2>2, KeyForm DEF Linked
    <3>3. l[1] # d
      BY <3>1, <3>2
    <3> QED
      BY <3>2, <3>3, <1>4
  <2> QED
    BY <2>1, <2>2 DEF Linked
<1> QED
  BY <1>2, <1>3, <1>4, <1>5 DEF r

LEMMA CreateDoes ==
  ASSUME NEW s \in State, Linked(s), NEW keys
  PROVE  /\ CreateNodes(s, keys) \in State /\ Linked(CreateNodes(s, keys))
         /\ CreateNodes(s, keys).live = s.live /\ CreateNodes(s, keys).port = s.port
         /\ CreateNodes(s, keys).byptr = s.byptr /\ CreateNodes(s, keys).late = s.late
         /\ \A k \in Key : IF k \in keys
                           THEN CreateNodes(s, keys).nodes[k] # None /\ CreateNodes(s, keys).nodes[k].fresh
                           ELSE CreateNodes(s, keys).nodes[k] = s.nodes[k]
<1> DEFINE r == CreateNodes(s, keys)
<1>1. /\ s.nodes \in [Key -> Node \cup {None}] /\ s.byptr \in [Dev -> Key \cup {None}]
      /\ s.live \subseteq Dev /\ s.port \in [Dev -> Port \cup {None}]
      /\ s.late \in [Directions -> Dev \cup {None}]
  BY StateFields
<1>2. /\ r.live = s.live /\ r.port = s.port /\ r.byptr = s.byptr /\ r.late = s.late
      /\ r.nodes = [k \in Key |-> IF k \notin keys THEN s.nodes[k]
                                  ELSE IF s.nodes[k] = None THEN NewNode(k)
                                  ELSE [s.nodes[k] EXCEPT !.fresh = TRUE]]
      /\ r = [nodes |-> r.nodes, byptr |-> r.byptr, live |-> r.live, port |-> r.port, late |-> r.late]
  <2> DEFINE f == [k \in Key |-> IF k \notin keys THEN s.nodes[k]
                               ELSE IF s.nodes[k] = None THEN NewNode(k)
                               ELSE [s.nodes[k] EXCEPT !.fresh = TRUE]]
  <2>1. r = [s EXCEPT !.nodes = f]
    BY DEF CreateNodes
  <2> HIDE DEF f, r
  <2>2. /\ r.live = s.live /\ r.port = s.port /\ r.byptr = s.byptr /\ r.late = s.late
        /\ r.nodes = f
        /\ r = [nodes |-> r.nodes, byptr |-> r.byptr, live |-> r.live, port |-> r.port, late |-> r.late]
    BY <2>1 DEF State
  <2> QED
    BY <2>2 DEF f
<1>3. \A k \in Key : r.nodes[k] = IF k \notin keys THEN s.nodes[k]
                                  ELSE IF s.nodes[k] = None THEN NewNode(k)
                                  ELSE [s.nodes[k] EXCEPT !.fresh = TRUE]
  BY <1>2
<1>4. \A k \in Key : NewNode(k) \in Node /\ NewNode(k).fresh /\ ~NewNode(k).linked
  BY AvailableType DEF NewNode, Node
<1> HIDE DEF r
<1>5. ASSUME NEW k \in Key
      PROVE  /\ r.nodes[k] \in Node \cup {None}
             /\ k \in keys => r.nodes[k] # None /\ r.nodes[k].fresh
             /\ k \notin keys => r.nodes[k] = s.nodes[k]
             /\ r.nodes[k] # None /\ r.nodes[k].linked => s.nodes[k] # None /\ s.nodes[k].linked
             /\ s.nodes[k] # None /\ s.nodes[k].linked => r.nodes[k] # None /\ r.nodes[k].linked
  <2>1. CASE k \notin keys
    BY <2>1, <1>1, <1>3
  <2>2. CASE k \in keys /\ s.nodes[k] = None
    <3>1. r.nodes[k] = NewNode(k)
      BY <2>2, <1>3
    <3>2. r.nodes[k] \in Node /\ r.nodes[k].fresh /\ ~r.nodes[k].linked
      BY <3>1, <1>4
    <3> QED
      BY <2>2, <3>2, NodeFields
  <2>3. CASE k \in keys /\ s.nodes[k] # None
    <3>1. r.nodes[k] = [s.nodes[k] EXCEPT !.fresh = TRUE] /\ s.nodes[k] \in Node
      BY <2>3, <1>1, <1>3
    <3> DEFINE m == [s.nodes[k] EXCEPT !.fresh = TRUE]
    <3>2. m \in Node /\ m.fresh = TRUE /\ m.linked = s.nodes[k].linked
      BY <3>1, NodeFields
    <3>3. r.nodes[k] = m
      BY <3>1
    <3> HIDE DEF m
    <3> QED
      BY <2>3, <3>2, <3>3, NodeFields
  <2> QED
    BY <2>1, <2>2, <2>3
<1>6. r.nodes \in [Key -> Node \cup {None}]
  BY <1>2, <1>5
<1>7. r \in State
  BY <1>1, <1>2, <1>6 DEF State
<1>8. Linked(r)
  <2>1. ASSUME NEW d \in Dev, r.byptr[d] # None
        PROVE  /\ d \in r.live /\ r.byptr[d][1] = d
               /\ r.nodes[r.byptr[d]] # None /\ r.nodes[r.byptr[d]].linked
    <3>1. /\ d \in s.live /\ s.byptr[d][1] = d /\ s.byptr[d] \in Key
          /\ s.nodes[s.byptr[d]] # None /\ s.nodes[s.byptr[d]].linked
      BY <2>1, <1>1, <1>2 DEF Linked
    <3> QED
      BY <3>1, <1>2, <1>5
  <2>2. ASSUME NEW k \in Key, r.nodes[k] # None, r.nodes[k].linked
        PROVE  r.byptr[k[1]] = k
    <3>1. s.nodes[k] # None /\ s.nodes[k].linked
      BY <2>2, <1>5
    <3>2. s.byptr[k[1]] = k
      BY <3>1 DEF Linked
    <3> QED
      BY <3>2, <1>2
  <2> QED
    BY <2>1, <2>2 DEF Linked
<1> QED
  BY <1>2, <1>5, <1>7, <1>8 DEF r

(* destroy_node does not look at byptr.                                    *)
LEMMA DestroyDoes ==
  ASSUME NEW s \in State, Linked(s), NEW keys, \A d \in Dev : s.byptr[d] # None => s.byptr[d] \notin keys
  PROVE  /\ DestroyNodes(s, keys) \in State /\ Linked(DestroyNodes(s, keys))
         /\ DestroyNodes(s, keys).live = s.live /\ DestroyNodes(s, keys).port = s.port
         /\ DestroyNodes(s, keys).byptr = s.byptr /\ DestroyNodes(s, keys).late = s.late
         /\ \A k \in Key : DestroyNodes(s, keys).nodes[k] = IF k \in keys THEN None ELSE s.nodes[k]
<1> DEFINE r == DestroyNodes(s, keys)
<1>1. /\ s.nodes \in [Key -> Node \cup {None}] /\ s.byptr \in [Dev -> Key \cup {None}]
      /\ s.live \subseteq Dev /\ s.port \in [Dev -> Port \cup {None}]
      /\ s.late \in [Directions -> Dev \cup {None}]
  BY StateFields
<1>2. /\ r.live = s.live /\ r.port = s.port /\ r.byptr = s.byptr /\ r.late = s.late
      /\ r.nodes = [k \in Key |-> IF k \in keys THEN None ELSE s.nodes[k]]
      /\ r = [nodes |-> r.nodes, byptr |-> r.byptr, live |-> r.live, port |-> r.port, late |-> r.late]
  BY DEF DestroyNodes, State
<1>3. \A k \in Key : r.nodes[k] = IF k \in keys THEN None ELSE s.nodes[k]
  BY <1>2
<1>4. r \in State
  BY <1>1, <1>2 DEF State
<1> HIDE DEF r
<1>5. Linked(r)
  BY <1>1, <1>2, <1>3 DEF Linked
<1> QED
  BY <1>2, <1>3, <1>4, <1>5 DEF r

LEMMA StampDoes ==
  ASSUME NEW s \in State, Linked(s)
  PROVE  /\ Stamped(s) \in State /\ Linked(Stamped(s)) /\ SameNodes(s, Stamped(s))
         /\ Stamped(s).live = s.live /\ Stamped(s).port = s.port
         /\ Stamped(s).byptr = s.byptr /\ Stamped(s).late = s.late
<1> DEFINE r == Stamped(s)
<1>1. /\ s.nodes \in [Key -> Node \cup {None}] /\ s.byptr \in [Dev -> Key \cup {None}]
      /\ s.live \subseteq Dev /\ s.port \in [Dev -> Port \cup {None}]
      /\ s.late \in [Directions -> Dev \cup {None}]
  BY StateFields
<1>2. /\ r.live = s.live /\ r.port = s.port /\ r.byptr = s.byptr /\ r.late = s.late
      /\ r.nodes = [k \in Key |-> IF s.nodes[k] = None THEN None
                                  ELSE [s.nodes[k] EXCEPT !.fresh = FALSE]]
      /\ r = [nodes |-> r.nodes, byptr |-> r.byptr, live |-> r.live, port |-> r.port, late |-> r.late]
  <2> DEFINE f == [k \in Key |-> IF s.nodes[k] = None THEN None
                               ELSE [s.nodes[k] EXCEPT !.fresh = FALSE]]
  <2>1. r = [s EXCEPT !.nodes = f]
    BY DEF Stamped
  <2> HIDE DEF f, r
  <2>2. /\ r.live = s.live /\ r.port = s.port /\ r.byptr = s.byptr /\ r.late = s.late
        /\ r.nodes = f
        /\ r = [nodes |-> r.nodes, byptr |-> r.byptr, live |-> r.live, port |-> r.port, late |-> r.late]
    BY <2>1 DEF State
  <2> QED
    BY <2>2 DEF f
<1>3. \A k \in Key : r.nodes[k] = IF s.nodes[k] = None THEN None
                                  ELSE [s.nodes[k] EXCEPT !.fresh = FALSE]
  BY <1>2
<1> HIDE DEF r
<1>4. ASSUME NEW k \in Key
      PROVE  /\ r.nodes[k] \in Node \cup {None}
             /\ s.nodes[k] = None => r.nodes[k] = None
             /\ s.nodes[k] # None => /\ r.nodes[k] # None /\ r.nodes[k].linked = s.nodes[k].linked
                                     /\ ~r.nodes[k].fresh
  <2>1. CASE s.nodes[k] = None
    BY <2>1, <1>3
  <2>2. CASE s.nodes[k] # None
    <3>1. s.nodes[k] \in Node /\ r.nodes[k] = [s.nodes[k] EXCEPT !.fresh = FALSE]
      BY <2>2, <1>1, <1>3
    <3> DEFINE m == [s.nodes[k] EXCEPT !.fresh = FALSE]
    <3>2. m \in Node /\ m.fresh = FALSE /\ m.linked = s.nodes[k].linked
      BY <3>1, NodeFields
    <3>3. r.nodes[k] = m
      BY <3>1
    <3> HIDE DEF m
    <3> QED
      BY <2>2, <3>2, <3>3, NodeFields
  <2> QED
    BY <2>1, <2>2
<1>5. r.nodes \in [Key -> Node \cup {None}]
  BY <1>2, <1>4
<1>6. r \in State
  BY <1>1, <1>2, <1>5 DEF State
<1>7. Linked(r)
  BY <1>1, <1>2, <1>4 DEF Linked
<1>8. SameNodes(s, r)
  BY <1>4 DEF SameNodes
<1> QED
  BY <1>2, <1>6, <1>7, <1>8 DEF r

(* What a pass may do to the sink of a node: nothing, or set its port and  *)
(* give it to the node of that port.                                       *)
Ported(s, r) ==
  \A d \in Dev : \/ r.byptr[d] = s.byptr[d] /\ r.port[d] = s.port[d]
                 \/ OwnNode(r, d) /\ r.byptr[d] \in Key

LEMMA PortsDo ==
  ASSUME NEW s \in State, Linked(s), NEW K \in PortChoices(s)
  PROVE  /\ SetPorts(s, K) \in State /\ Linked(SetPorts(s, K)) /\ SameNodes(s, SetPorts(s, K))
         /\ SetPorts(s, K).live = s.live /\ SetPorts(s, K).late = s.late
         /\ Ported(s, SetPorts(s, K))
<1> DEFINE moving == Moving(s, K)
           For == [d \in {k[1] : k \in moving} |-> CHOOSE k \in moving : k[1] = d]
           Left(k) == \E d \in DOMAIN For : s.byptr[d] = k
           r == SetPorts(s, K)
<1>1. /\ s.nodes \in [Key -> Node \cup {None}] /\ s.byptr \in [Dev -> Key \cup {None}]
      /\ s.live \subseteq Dev /\ s.port \in [Dev -> Port \cup {None}]
      /\ s.late \in [Directions -> Dev \cup {None}]
  BY StateFields
<1>2. /\ r.live = s.live /\ r.late = s.late
      /\ r.port = [d \in Dev |-> IF d \in DOMAIN For THEN For[d][2] ELSE s.port[d]]
      /\ r.byptr = [d \in Dev |-> IF d \in DOMAIN For THEN For[d] ELSE s.byptr[d]]
      /\ r.nodes = [k \in Key |->
           IF k \in moving THEN [s.nodes[k] EXCEPT !.linked = TRUE]
           ELSE IF s.nodes[k] # None /\ Left(k) THEN [s.nodes[k] EXCEPT !.linked = FALSE]
           ELSE s.nodes[k]]
      /\ r = [nodes |-> r.nodes, byptr |-> r.byptr, live |-> r.live, port |-> r.port, late |-> r.late]
  <2> DEFINE f == [k \in Key |->
                    IF k \in moving THEN [s.nodes[k] EXCEPT !.linked = TRUE]
                    ELSE IF s.nodes[k] # None /\ Left(k) THEN [s.nodes[k] EXCEPT !.linked = FALSE]
                    ELSE s.nodes[k]]
             g == [d \in Dev |-> IF d \in DOMAIN For THEN For[d][2] ELSE s.port[d]]
             h == [d \in Dev |-> IF d \in DOMAIN For THEN For[d] ELSE s.byptr[d]]
  <2>1. r = [s EXCEPT !.port = g, !.byptr = h, !.nodes = f]
    BY DEF SetPorts
  <2> HIDE DEF f, g, h, r
  <2>2. /\ r.live = s.live /\ r.port = g /\ r.byptr = h /\ r.late = s.late
        /\ r.nodes = f
        /\ r = [nodes |-> r.nodes, byptr |-> r.byptr, live |-> r.live, port |-> r.port, late |-> r.late]
    BY <2>1 DEF State
  <2> QED
    BY <2>2 DEF f, g, h
<1>3. \A k \in moving : /\ k \in Key /\ s.nodes[k] # None /\ s.nodes[k] \in Node
                        /\ k[3] = None /\ k[1] \in s.live
                        /\ \A l \in moving : k[1] = l[1] => k = l
  BY <1>1 DEF Moving, PortChoices, Candidates
<1>4. \A d \in DOMAIN For : /\ For[d] \in moving /\ For[d][1] = d
                            /\ \A k \in moving : k[1] = d => For[d] = k
  BY <1>3
<1>5. \A k \in moving : k[1] \in DOMAIN For /\ For[k[1]] = k
  BY <1>4
<1> HIDE DEF r, moving, For
<1>6. \A d \in Dev : /\ r.port[d] = IF d \in DOMAIN For THEN For[d][2] ELSE s.port[d]
                     /\ r.byptr[d] = IF d \in DOMAIN For THEN For[d] ELSE s.byptr[d]
  BY <1>2
<1>7. \A d \in DOMAIN For : For[d] \in Key /\ d \in s.live /\ d \in Dev /\ For[d][2] \in Port \cup {None}
                            /\ For[d] = <<d, For[d][2], None>> /\ CardOf[d] \in Alsa
  <2>1. SUFFICES ASSUME NEW d \in DOMAIN For
                 PROVE  For[d] \in Key /\ d \in s.live /\ d \in Dev /\ For[d][2] \in Port \cup {None}
                        /\ For[d] = <<d, For[d][2], None>> /\ CardOf[d] \in Alsa
    OBVIOUS
  <2>2. For[d] \in Key /\ For[d][1] = d /\ For[d][3] = None /\ d \in s.live
    BY <1>3, <1>4
  <2> QED
    BY <2>2, KeyForm, <1>1
<1>8. ASSUME NEW k \in Key
      PROVE  /\ r.nodes[k] \in Node \cup {None}
             /\ s.nodes[k] = None => r.nodes[k] = None
             /\ s.nodes[k] # None => r.nodes[k] # None /\ r.nodes[k].fresh = s.nodes[k].fresh
             /\ k \in moving => r.nodes[k].linked
             /\ k \notin moving /\ s.nodes[k] # None =>
                  r.nodes[k].linked = IF Left(k) THEN FALSE ELSE s.nodes[k].linked
  <2>1. r.nodes[k] = IF k \in moving THEN [s.nodes[k] EXCEPT !.linked = TRUE]
                     ELSE IF s.nodes[k] # None /\ Left(k) THEN [s.nodes[k] EXCEPT !.linked = FALSE]
                     ELSE s.nodes[k]
    BY <1>2
  <2> HIDE DEF Left
  <2>2. CASE s.nodes[k] = None
    BY <2>1, <2>2, <1>3
  <2>3. CASE s.nodes[k] # None
    <3>1. s.nodes[k] \in Node
      BY <2>3, <1>1
    <3> DEFINE m == [s.nodes[k] EXCEPT !.linked = TRUE]
               n == [s.nodes[k] EXCEPT !.linked = FALSE]
    <3>5. m \in Node /\ m.linked = TRUE /\ m.fresh = s.nodes[k].fresh
      BY <3>1, NodeFields
    <3>6. n \in Node /\ n.linked = FALSE /\ n.fresh = s.nodes[k].fresh
      BY <3>1, NodeFields
    <3>7. r.nodes[k] = IF k \in moving THEN m ELSE IF Left(k) THEN n ELSE s.nodes[k]
      BY <2>1, <2>3
    <3> HIDE DEF m, n
    <3>2. r.nodes[k] \in Node /\ r.nodes[k].fresh = s.nodes[k].fresh
      BY <3>1, <3>5, <3>6, <3>7
    <3>3. k \in moving => r.nodes[k].linked
      BY <3>5, <3>7
    <3>4. k \notin moving => r.nodes[k].linked = IF Left(k) THEN FALSE ELSE s.nodes[k].linked
      BY <3>6, <3>7
    <3> QED
      BY <2>3, <3>2, <3>3, <3>4, NodeFields
  <2> QED
    BY <2>2, <2>3
<1>9. r \in State
  <2>1. r.nodes \in [Key -> Node \cup {None}]
    <3>1. DOMAIN r.nodes = Key /\ r.nodes = [k \in Key |-> r.nodes[k]]
      BY <1>2
    <3> QED
      BY <3>1, <1>8
  <2>2. r.byptr \in [Dev -> Key \cup {None}]
    BY <1>1, <1>2, <1>7
  <2>3. r.port \in [Dev -> Port \cup {None}]
    BY <1>1, <1>2, <1>7
  <2> QED
    BY <1>1, <1>2, <2>1, <2>2, <2>3 DEF State
<1>10. SameNodes(s, r)
  BY <1>8 DEF SameNodes
<1>11. Ported(s, r)
  BY <1>6, <1>7 DEF Ported, OwnNode
<1>12. Linked(r)
  <2>1. ASSUME NEW d \in Dev, r.byptr[d] # None
        PROVE  /\ d \in r.live /\ r.byptr[d][1] = d
               /\ r.nodes[r.byptr[d]] # None /\ r.nodes[r.byptr[d]].linked
    <3>1. CASE d \in DOMAIN For
      <4>1. r.byptr[d] = For[d] /\ For[d] \in moving /\ For[d] \in Key /\ For[d][1] = d /\ d \in s.live
        BY <3>1, <1>4, <1>6, <1>7
      <4>2. s.nodes[For[d]] # None
        BY <4>1, <1>3
      <4> QED
        <5>1. r.nodes[For[d]] # None /\ r.nodes[For[d]].linked
          <6> HIDE DEF Left
          <6> QED
            BY <4>1, <4>2, <1>8
        <5> QED
          BY <4>1, <5>1, <1>2
    <3>2. CASE d \notin DOMAIN For
      <4>1. r.byptr[d] = s.byptr[d] /\ s.byptr[d] \in Key
        BY <3>2, <2>1, <1>1, <1>6
      <4>2. d \in s.live /\ s.byptr[d][1] = d /\ s.nodes[s.byptr[d]] # None /\ s.nodes[s.byptr[d]].linked
        BY <4>1, <2>1 DEF Linked
      <4>3. ~Left(s.byptr[d])
        <5>1. ASSUME NEW e \in DOMAIN For, s.byptr[e] = s.byptr[d]
              PROVE  FALSE
          <6>1. e \in Dev /\ s.byptr[e] # None
            BY <5>1, <4>1, <1>7, KeyForm
          <6>2. s.byptr[e][1] = e
            BY <6>1 DEF Linked
          <6> QED
            BY <5>1, <6>2, <4>2, <3>2
        <5> QED
          BY <5>1
      <4> HIDE DEF Left
      <4> QED
        <5>1. s.byptr[d] \notin moving
          BY <3>2, <4>2, <1>5
        <5>2. r.nodes[s.byptr[d]] # None /\ r.nodes[s.byptr[d]].linked
          BY <4>1, <4>2, <4>3, <5>1, <1>8
        <5> QED
          BY <4>1, <4>2, <5>2, <1>2
    <3> QED
      BY <3>1, <3>2
  <2>2. ASSUME NEW k \in Key, r.nodes[k] # None, r.nodes[k].linked
        PROVE  r.byptr[k[1]] = k
    <3>1. k[1] \in Dev
      BY KeyForm
    <3>2. CASE k \in moving
      BY <3>1, <3>2, <1>5, <1>6
    <3>3. CASE k \notin moving
      <4>1. s.nodes[k] # None
        BY <2>2, <1>8
      <4>2. ~Left(k) /\ s.nodes[k].linked
        <5> HIDE DEF Left
        <5> QED
          BY <4>1, <2>2, <3>3, <1>8
      <4>3. s.byptr[k[1]] = k
        BY <4>1, <4>2 DEF Linked
      <4>4. k[1] \notin DOMAIN For
        BY <4>2, <4>3
      <4> QED
        BY <3>1, <4>3, <4>4, <1>6
    <3> QED
      BY <3>2, <3>3
  <2> QED
    BY <2>1, <2>2 DEF Linked
<1> QED
  BY <1>2, <1>9, <1>10, <1>11, <1>12 DEF r

-----------------------------------------------------------------------------
(* A pass keeps the invariant, whatever it chooses.                        *)

LEMMA AppendAt ==
  ASSUME NEW T, NEW list \in Seq(T), NEW e \in T
  PROVE  /\ Append(list, e) \in Seq(T)
         /\ Len(list) \in Nat /\ DOMAIN list = 1 .. Len(list)
         /\ Len(Append(list, e)) = Len(list) + 1
         /\ DOMAIN Append(list, e) = 1 .. Len(list) + 1
         /\ \A j \in 1 .. Len(list) : Append(list, e)[j] = list[j]
         /\ Append(list, e)[Len(list) + 1] = e
<1> DEFINE longer == Append(list, e)
<1>1. /\ longer \in Seq(T) /\ Len(longer) = Len(list) + 1
      /\ \A j \in 1 .. Len(list) : longer[j] = list[j]
      /\ longer[Len(list) + 1] = e
  BY AppendProperties
<1>2. DOMAIN longer = 1 .. Len(longer) /\ DOMAIN list = 1 .. Len(list) /\ Len(list) \in Nat
  BY <1>1, LenProperties
<1> HIDE DEF longer
<1> QED
  BY <1>1, <1>2 DEF longer

LEMMA NodesBecome ==
  ASSUME NEW s \in State, Becomes(s)
  PROVE  Nodes' = s
BY StateFields DEF Becomes, Nodes

LEMMA SameTwice ==
  ASSUME NEW s, NEW t, NEW r, SameNodes(s, t), SameNodes(t, r)
  PROVE  SameNodes(s, r)
BY DEF SameNodes

LEMMA SameSelf ==
  ASSUME NEW s
  PROVE  SameNodes(s, s) /\ Ported(s, s)
BY DEF SameNodes, Ported

(* From the record s, with "pending" to be done, a pass comes to r and ch. *)
Passed(s, r, pending, ch) ==
  /\ r \in State /\ Linked(r) /\ SameNodes(s, r) /\ Ported(s, r)
  /\ r.live = s.live /\ r.late = s.late
  /\ \/ ch = pending
     \/ /\ \A i \in DOMAIN pending : pending[i].kind # "route"
        /\ \E c \in Bluetooth : \E p \in ProfilesOf(c) :
             /\ \E k \in KeysOf[c] : s.nodes[k] # None
             /\ \A i \in DOMAIN pending : pending[i].card # c
             /\ ch = Append(pending, Change(c, p, "route", s.live \cap DevsOn(c), FALSE))

LEMMA NoPass ==
  ASSUME NEW s \in State, Linked(s), NEW pending
  PROVE  Passed(s, s, pending, pending)
BY SameSelf DEF Passed

LEMMA PassDoes ==
  ASSUME NEW s \in State, Linked(s), NEW pending, Pass(s, pending),
         StateProfile = None => \A i \in DOMAIN pending : pending[i].kind # "route"
  PROVE  Passed(s, Nodes', pending, changes')
<1>1. CASE StateProfile # None
  <2>1. Becomes(s) /\ changes' = pending
    BY <1>1 DEF Pass
  <2>2. Nodes' = s
    BY <2>1, NodesBecome
  <2> QED
    BY <2>1, <2>2, NoPass
<1>2. CASE StateProfile = None
  <2>1. PICK K \in PortChoices(s) : Becomes(SetPorts(Stamped(s), K))
    BY <1>2 DEF Pass
  <2> DEFINE t == Stamped(s)
             r == SetPorts(t, K)
  <2>2. /\ t \in State /\ Linked(t) /\ SameNodes(s, t)
        /\ t.live = s.live /\ t.port = s.port /\ t.byptr = s.byptr /\ t.late = s.late
    BY StampDoes
  <2>3. K \in PortChoices(t)
    <3>1. Candidates(s) \subseteq Candidates(t)
      <4>1. ASSUME NEW k \in Candidates(s)
            PROVE  k \in Candidates(t)
        <5>1. k \in Key /\ s.nodes[k] # None
          BY DEF Candidates
        <5> DEFINE f == [l \in Key |-> IF s.nodes[l] = None THEN None
                                       ELSE [s.nodes[l] EXCEPT !.fresh = FALSE]]
        <5>2. t = [s EXCEPT !.nodes = f]
          BY DEF Stamped
        <5>3. f[k] = [s.nodes[k] EXCEPT !.fresh = FALSE] /\ s.nodes[k] \in Node
          BY <5>1, StateFields
        <5> HIDE DEF f, t
        <5>4. t.nodes = f
          BY <5>2, StateFields
        <5>5. t.nodes[k] \in Node
          BY <5>3, <5>4 DEF Node
        <5>6. t.nodes[k] # None
          BY <5>5, NodeFields
        <5> QED
          BY <5>1, <5>6 DEF Candidates
      <4> QED
        BY <4>1
    <3> HIDE DEF t
    <3> QED
      BY <3>1 DEF PortChoices
  <2> HIDE DEF t
  <2>4. /\ r \in State /\ Linked(r) /\ SameNodes(t, r)
        /\ r.live = t.live /\ r.late = t.late /\ Ported(t, r)
    BY <2>2, <2>3, PortsDo
  <2>5. Nodes' = r
    <3> HIDE DEF r
    <3> QED
      BY <2>1, <2>4, NodesBecome DEF r, t
  <2> HIDE DEF r
  <2>6. SameNodes(s, r)
    BY <2>2, <2>4, SameTwice
  <2>7. Ported(s, r)
    BY <2>2, <2>4 DEF Ported
  <2>8. \/ changes' = pending
        \/ \E c \in Bluetooth \cap plugged : \E p \in SetProfile(s, c) :
             /\ \A k \in DOMAIN pending : pending[k].card # c
             /\ changes' = Append(pending, Change(c, p, "route", s.live \cap DevsOn(c), FALSE))
    BY <1>2 DEF Pass
  <2>9. \A c : \A p \in SetProfile(s, c) :
          p \in ProfilesOf(c) /\ \E k \in KeysOf[c] : s.nodes[k] # None
    BY DEF SetProfile, Candidates
  <2>10. \A i \in DOMAIN pending : pending[i].kind # "route"
    BY <1>2
  <2> QED
    BY <2>2, <2>4, <2>5, <2>6, <2>7, <2>8, <2>9, <2>10 DEF Passed
<1> QED
  BY <1>1, <1>2

LEMMA PassIfDoes ==
  ASSUME NEW needed, NEW s \in State, Linked(s), NEW pending, PassIf(needed, s, pending),
         StateProfile = None => \A i \in DOMAIN pending : pending[i].kind # "route"
  PROVE  Passed(s, Nodes', pending, changes')
<1>1. CASE needed
  BY <1>1, PassDoes DEF PassIf
<1>2. CASE ~needed
  <2>1. Becomes(s) /\ changes' = pending
    BY <1>2 DEF PassIf
  <2>2. Nodes' = s
    BY <2>1, NodesBecome
  <2> QED
    BY <2>1, <2>2, NoPass
<1> QED
  BY <1>1, <1>2

LEMMA PassedLateFree ==
  ASSUME NEW s, NEW r, s.live \subseteq Dev, LateFree(s),
         r.live = s.live, r.late = s.late, Ported(s, r)
  PROVE  LateFree(r)
<1>1. ASSUME NEW dir \in Directions, r.late[dir] # None
      PROVE  /\ r.late[dir] \in r.live /\ Direction(r.late[dir]) = dir
             /\ r.byptr[r.late[dir]] = None \/ OwnNode(r, r.late[dir])
  <2> DEFINE d == r.late[dir]
  <2>1. /\ d \in s.live /\ Direction(d) = dir /\ d \in Dev
        /\ s.byptr[d] = None \/ OwnNode(s, d)
    BY <1>1 DEF LateFree
  <2> HIDE DEF d
  <2>2. r.byptr[d] = None \/ OwnNode(r, d)
    BY <2>1 DEF Ported, OwnNode
  <2> QED
    BY <2>1, <2>2 DEF d
<1> QED
  BY <1>1 DEF LateFree

LEMMA ChangeFits ==
  ASSUME NEW s, NEW r, NEW P, NEW A, NEW x \in CardChange, ChangeOK(s, P, A, x),
         SameNodes(s, r), r.live \subseteq s.live,
         x.changed => \A d \in s.live : CardOf[d] = x.card => d \in r.live
  PROVE  ChangeOK(r, P, A, x)
<1>1. x.kind = "plug" /\ x.card \in Alsa => \A k \in AlsaKeys(x.card, x.to) : r.nodes[k] # None
  <2>1. ASSUME x.kind = "plug", x.card \in Alsa, NEW k \in AlsaKeys(x.card, x.to)
        PROVE  r.nodes[k] # None
    <3>1. s.nodes[k] # None
      BY <2>1 DEF ChangeOK
    <3>2. k \in Key
      <4>1. x.card \in Card /\ x.to \in ProfilesOf(x.card)
        BY DEF CardChange, ChangeOK
      <4>2. k \in KeysOf[x.card]
        BY <2>1, <4>1, AlsaKeyKnown
      <4> QED
        BY <4>1, <4>2, KeyOfCard
    <3> QED
      BY <3>1, <3>2 DEF SameNodes
  <2> QED
    BY <2>1
<1>2. ASSUME x.changed
      PROVE  DevsOf[x.card][x.to] \subseteq r.live
  <2>1. x.card \in Card /\ x.to \in ProfilesOf(x.card) /\ DevsOf[x.card][x.to] \subseteq s.live
    BY <1>2 DEF CardChange, ChangeOK
  <2>2. \A d \in DevsOf[x.card][x.to] : CardOf[d] = x.card
    BY <2>1, DevOfProfile
  <2> QED
    BY <1>2, <2>1, <2>2
<1> QED
  BY <1>1, <1>2 DEF ChangeOK

LEMMA PassedFits ==
  ASSUME NEW s, NEW r, NEW P, NEW A, NEW pending, NEW ch,
         Sound(s), Fits(s, P, A, pending), Passed(s, r, pending, ch)
  PROVE  Sound(r) /\ Fits(r, P, A, ch)
<1>1. Sound(r)
  <2>1. LateFree(r)
    BY PassedLateFree, StateFields DEF Sound, Passed
  <2> QED
    BY <2>1 DEF Sound, Passed
<1>2. pending \in Seq(CardChange) /\ Len(pending) <= 2
  BY DEF Fits, StackOK
<1>3. /\ Len(pending) \in Nat /\ DOMAIN pending = 1 .. Len(pending)
      /\ \A i \in DOMAIN pending : pending[i] \in CardChange
  BY <1>2, LenProperties, ElementOfSeq
<1>4. SameNodes(s, r) /\ r.live = s.live /\ r.late = s.late
  BY DEF Passed
<1>5. \A i \in DOMAIN pending : ChangeOK(r, P, A, pending[i])
  BY <1>3, <1>4, ChangeFits DEF Fits
<1>6. /\ P \subseteq Card /\ A \in [Card -> Profile] /\ \A c \in Card : A[c] \in ProfilesOf(c)
      /\ \A d \in r.live : CardOf[d] \in P
      /\ \A k \in Key : r.nodes[k] # None => CardOf[k[1]] \in P
  BY <1>4 DEF Fits, SameNodes
<1>7. \A c \in Bluetooth \cap P : \A k \in KeysOf[c] : r.nodes[k] # None
  <2>1. ASSUME NEW c \in Bluetooth \cap P, NEW k \in KeysOf[c]
        PROVE  r.nodes[k] # None
    <3>1. k \in Key
      BY KeyOfCard DEF Card
    <3> QED
      BY <3>1, <1>4 DEF Fits, SameNodes
  <2> QED
    BY <2>1
<1>8. CASE ch = pending
  <2>1. LateAlsa(r, ch)
    BY <1>4, <1>8 DEF Fits, LateAlsa
  <2>2. StackOK(ch)
    BY <1>8 DEF Fits
  <2> QED
    BY <1>1, <1>5, <1>6, <1>7, <1>8, <2>1, <2>2 DEF Fits
<1>9. CASE ch # pending
  <2>1. /\ \A i \in DOMAIN pending : pending[i].kind # "route"
        /\ \E c \in Bluetooth : \E p \in ProfilesOf(c) :
             /\ \E k \in KeysOf[c] : s.nodes[k] # None
             /\ \A i \in DOMAIN pending : pending[i].card # c
             /\ ch = Append(pending, Change(c, p, "route", s.live \cap DevsOn(c), FALSE))
    BY <1>9 DEF Passed
  <2>2. PICK c \in Bluetooth : \E p \in ProfilesOf(c) :
             /\ \E k \in KeysOf[c] : s.nodes[k] # None
             /\ \A i \in DOMAIN pending : pending[i].card # c
             /\ ch = Append(pending, Change(c, p, "route", s.live \cap DevsOn(c), FALSE))
    BY <2>1
  <2>3. PICK p \in ProfilesOf(c) :
             /\ \E k \in KeysOf[c] : s.nodes[k] # None
             /\ \A i \in DOMAIN pending : pending[i].card # c
             /\ ch = Append(pending, Change(c, p, "route", s.live \cap DevsOn(c), FALSE))
    BY <2>2
  <2> DEFINE x == Change(c, p, "route", s.live \cap DevsOn(c), FALSE)
  <2>4. c \in Card /\ c \in P
    <3>1. c \in Card
      BY DEF Card
    <3>2. PICK k \in KeysOf[c] : s.nodes[k] # None
      BY <2>3
    <3>3. k \in Key /\ CardOf[k[1]] = c
      BY <3>1, <3>2, KeyOfCard
    <3> QED
      BY <3>1, <3>2, <3>3 DEF Fits
  <2>5. s.live \subseteq Dev
    BY StateFields DEF Sound
  <2>6. x \in CardChange
    BY <2>3, <2>4, <2>5 DEF Change, CardChange, Profile
  <2>7. ChangeOK(r, P, A, x)
    <3>1. \A d \in r.live : CardOf[d] = c => d \in s.live \cap DevsOn(c)
      BY <1>4, <2>5, CardOfDev
    <3>2. /\ x.card = c /\ x.to = p /\ x.kind = "route" /\ x.left = s.live \cap DevsOn(c) /\ ~x.changed
      BY DEF Change
    <3> HIDE DEF x
    <3> QED
      BY <3>1, <3>2, <2>3, <2>4 DEF ChangeOK
  <2> HIDE DEF x
  <2>8. /\ ch \in Seq(CardChange) /\ Len(ch) = Len(pending) + 1
        /\ DOMAIN ch = 1 .. Len(pending) + 1
        /\ \A j \in 1 .. Len(pending) : ch[j] = pending[j]
        /\ ch[Len(pending) + 1] = x
    <3>1. ch = Append(pending, x)
      BY <2>3 DEF x
    <3> QED
      BY <1>2, <2>6, <3>1, AppendAt
  <2>9. Len(pending) # 2
    BY <2>1, <1>3 DEF Fits, StackOK
  <2>10. StackOK(ch)
    <3>1. x.kind = "route" /\ x.card = c
      BY DEF x, Change
    <3>2. Len(pending) = 1 => pending[1].kind # "route" /\ pending[1].card # c
      BY <2>1, <2>3, <1>3
    <3> QED
      BY <2>8, <2>9, <3>1, <3>2, <1>2, <1>3 DEF StackOK
  <2>11. \A i \in DOMAIN ch : ChangeOK(r, P, A, ch[i])
    BY <2>7, <2>8, <1>3, <1>5
  <2>12. LateAlsa(r, ch)
    <3>1. LateAlsa(s, pending)
      BY DEF Fits
    <3>2. pending # <<>> => ch # <<>> /\ ch[1] = pending[1]
      <4>1. pending # <<>> => Len(pending) >= 1
        BY <1>2, <1>3, EmptySeq
      <4>2. ch # <<>>
        BY <2>8, <1>3, EmptySeq
      <4> QED
        BY <4>1, <4>2, <2>8, <1>3
    <3> QED
      BY <3>1, <3>2, <1>4 DEF LateAlsa
  <2> QED
    BY <1>1, <1>6, <1>7, <2>10, <2>11, <2>12 DEF Fits
<1> QED
  BY <1>8, <1>9

LEMMA PassedStack ==
  ASSUME NEW s, NEW r, NEW pending, NEW ch, pending \in Seq(CardChange), Passed(s, r, pending, ch)
  PROVE  /\ \A i \in DOMAIN pending : i \in DOMAIN ch /\ ch[i] = pending[i]
         /\ \A i \in DOMAIN ch : i \notin DOMAIN pending =>
              /\ ch[i].kind = "route" /\ ch[i].card \in Bluetooth
              /\ ch[i].left = s.live \cap DevsOn(ch[i].card)
<1>1. CASE ch = pending
  BY <1>1
<1>2. CASE ch # pending
  <2>1. PICK b \in Bluetooth : \E p \in ProfilesOf(b) :
          ch = Append(pending, Change(b, p, "route", s.live \cap DevsOn(b), FALSE))
    BY <1>2 DEF Passed
  <2>2. PICK p \in ProfilesOf(b) :
          ch = Append(pending, Change(b, p, "route", s.live \cap DevsOn(b), FALSE))
    BY <2>1
  <2> DEFINE x == Change(b, p, "route", s.live \cap DevsOn(b), FALSE)
             T == CardChange \cup {x}
  <2>3. x.card = b /\ x.kind = "route" /\ x.left = s.live \cap DevsOn(b)
    BY DEF Change
  <2>4. ch = Append(pending, x)
    BY <2>2
  <2> HIDE DEF x
  <2>5. pending \in Seq(T) /\ x \in T
    OBVIOUS
  <2> HIDE DEF T
  <2>6. /\ DOMAIN ch = 1 .. Len(pending) + 1 /\ Len(pending) \in Nat
        /\ DOMAIN pending = 1 .. Len(pending)
        /\ \A j \in 1 .. Len(pending) : ch[j] = pending[j]
        /\ ch[Len(pending) + 1] = x
    BY <2>4, <2>5, AppendAt
  <2> QED
    <3>1. \A i \in DOMAIN pending : i \in DOMAIN ch /\ ch[i] = pending[i]
      BY <2>6
    <3>2. \A i \in DOMAIN ch : i \notin DOMAIN pending => ch[i] = x
      BY <2>6
    <3> QED
      BY <2>1, <2>3, <3>1, <3>2
<1> QED
  BY <1>1, <1>2

LEMMA PassedProfile ==
  ASSUME NEW s, NEW r, NEW P, NEW A, NEW pending, NEW ch, pending \in Seq(CardChange),
         Passed(s, r, pending, ch), ProfileNodes(s, P, A, pending)
  PROVE  ProfileNodes(r, P, A, ch)
<1>1. ASSUME NEW c \in Alsa \cap P, \E i \in DOMAIN ch : ch[i].card = c /\ ch[i].kind = "change"
      PROVE  \E i \in DOMAIN pending : pending[i].card = c /\ pending[i].kind = "change"
  BY <1>1, PassedStack
<1>2. \A i \in DOMAIN pending : i \in DOMAIN ch /\ ch[i] = pending[i]
  BY PassedStack
<1>3. ASSUME NEW c \in Alsa \cap P, \A i \in DOMAIN ch : ch[i].card = c => ch[i].kind = "plug",
             NEW k \in KeysOf[c]
      PROVE  r.nodes[k] # None <=> k \in AlsaKeys(c, A[c])
  <2>1. \A i \in DOMAIN pending : pending[i].card = c => pending[i].kind = "plug"
    BY <1>2, <1>3
  <2>2. s.nodes[k] # None <=> k \in AlsaKeys(c, A[c])
    BY <2>1 DEF ProfileNodes
  <2>3. k \in Key
    BY KeyOfCard DEF Card
  <2> QED
    BY <2>2, <2>3 DEF Passed, SameNodes
<1>4. ASSUME NEW c \in Alsa \cap P, \E i \in DOMAIN ch : ch[i].card = c /\ ch[i].kind = "change",
             NEW k \in KeysOf[c], r.nodes[k] # None
      PROVE  ~r.nodes[k].fresh
  <2>1. \E i \in DOMAIN pending : pending[i].card = c /\ pending[i].kind = "change"
    BY <1>1, <1>4
  <2>2. k \in Key
    BY KeyOfCard DEF Card
  <2>3. s.nodes[k] # None /\ (r.nodes[k].fresh => s.nodes[k].fresh)
    BY <1>4, <2>2 DEF Passed, SameNodes
  <2>4. ~s.nodes[k].fresh
    BY <2>1, <2>3 DEF ProfileNodes
  <2> QED
    BY <2>3, <2>4
<1> QED
  BY <1>3, <1>4 DEF ProfileNodes

LEMMA PortedLinks ==
  ASSUME NEW s, NEW r, NEW d \in Dev, Ported(s, r), s.byptr[d] # None
  PROVE  r.byptr[d] # None /\ (CardOf[d] \in Bluetooth => r.byptr[d] = s.byptr[d])
<1>1. CASE r.byptr[d] = s.byptr[d]
  BY <1>1
<1>2. CASE OwnNode(r, d) /\ r.byptr[d] \in Key
  <2>1. CardOf[d] \notin Bluetooth
    BY <1>2, CardOfDev, NotBoth DEF OwnNode
  <2>2. r.byptr[d] # None
    BY <1>2, KeyForm
  <2> QED
    BY <2>1, <2>2
<1> QED
  BY <1>1, <1>2 DEF Ported

LEMMA PassedCome ==
  ASSUME NEW s, NEW r, NEW pending, NEW ch, pending \in Seq(CardChange), s.live \subseteq Dev,
         Passed(s, r, pending, ch), ComeLinked(s, pending)
  PROVE  ComeLinked(r, ch)
<1>1. ASSUME NEW i \in DOMAIN ch, ch[i].kind \in {"plug", "route"},
             NEW d \in r.live \ ch[i].left, CardOf[d] = ch[i].card, HasKey(d)
      PROVE  r.byptr[d] # None /\ (ch[i].card \in Bluetooth => r.byptr[d][3] = ch[i].to)
  <2>1. d \in Dev /\ d \in s.live
    BY DEF Passed
  <2>2. i \in DOMAIN pending
    <3>1. d \in DevsOn(ch[i].card)
      BY <1>1, <2>1, CardOfDev
    <3> QED
      BY <2>1, <3>1, PassedStack
  <2>3. ch[i] = pending[i]
    BY <2>2, PassedStack
  <2>4. s.byptr[d] # None /\ (ch[i].card \in Bluetooth => s.byptr[d][3] = ch[i].to)
    BY <1>1, <2>1, <2>2, <2>3 DEF ComeLinked
  <2>5. Ported(s, r)
    BY DEF Passed
  <2>6. r.byptr[d] # None /\ (CardOf[d] \in Bluetooth => r.byptr[d] = s.byptr[d])
    BY <2>1, <2>4, <2>5, PortedLinks
  <2> QED
    BY <1>1, <2>4, <2>6
<1> QED
  BY <1>1 DEF ComeLinked

-----------------------------------------------------------------------------
(* The actions.                                                            *)

LEMMA InvNext ==
  ASSUME Sound(Nodes'), Fits(Nodes', plugged', active', changes'), Available3'
  PROVE  IInv'
BY DEF IInv

LEMMA InvParts ==
  ASSUME IInv
  PROVE  /\ Nodes \in State /\ Linked(Nodes) /\ LateFree(Nodes)
         /\ Nodes.nodes = nodes /\ Nodes.byptr = byptr /\ Nodes.live = live
         /\ Nodes.port = port /\ Nodes.late = late
         /\ nodes \in [Key -> Node \cup {None}] /\ byptr \in [Dev -> Key \cup {None}]
         /\ live \subseteq Dev /\ port \in [Dev -> Port \cup {None}]
         /\ late \in [Directions -> Dev \cup {None}]
         /\ plugged \subseteq Card /\ active \in [Card -> Profile]
         /\ \A c \in Card : active[c] \in ProfilesOf(c)
         /\ changes \in Seq(CardChange) /\ Len(changes) \in {0, 1, 2}
         /\ DOMAIN changes = 1 .. Len(changes)
         /\ \A i \in DOMAIN changes : /\ changes[i] \in CardChange
                                      /\ ChangeOK(Nodes, plugged, active, changes[i])
         /\ Available3
<1>1. Nodes \in State /\ Linked(Nodes) /\ LateFree(Nodes)
  BY DEF IInv, Sound
<1>2. /\ Nodes.nodes = nodes /\ Nodes.byptr = byptr /\ Nodes.live = live
      /\ Nodes.port = port /\ Nodes.late = late
  BY DEF Nodes
<1>3. /\ nodes \in [Key -> Node \cup {None}] /\ byptr \in [Dev -> Key \cup {None}]
      /\ live \subseteq Dev /\ port \in [Dev -> Port \cup {None}]
      /\ late \in [Directions -> Dev \cup {None}]
  BY <1>1, <1>2, StateFields
<1>4. /\ plugged \subseteq Card /\ active \in [Card -> Profile]
      /\ \A c \in Card : active[c] \in ProfilesOf(c)
      /\ changes \in Seq(CardChange) /\ Len(changes) <= 2
      /\ \A i \in DOMAIN changes : ChangeOK(Nodes, plugged, active, changes[i])
      /\ Available3
  BY DEF IInv, Fits, StackOK
<1>5. /\ DOMAIN changes = 1 .. Len(changes) /\ Len(changes) \in Nat
      /\ \A i \in DOMAIN changes : changes[i] \in CardChange
  BY <1>4, LenProperties, ElementOfSeq
<1>6. Len(changes) \in {0, 1, 2}
  BY <1>4, <1>5
<1> QED
  BY <1>1, <1>2, <1>3, <1>4, <1>5, <1>6

(* Nothing is being changed.                                               *)
LEMMA WhenIdle ==
  ASSUME IInv, Idle
  PROVE  /\ changes = <<>> /\ DOMAIN changes = {} /\ StateProfile = None
         /\ \A dir \in Directions : late[dir] # None => ~OfAlsa(late[dir])
<1>1. changes = <<>> /\ DOMAIN changes = {}
  BY DEF Idle
<1>2. StateProfile = None
  BY <1>1 DEF StateProfile
<1>3. LateAlsa(Nodes, changes) /\ Nodes.late = late
  BY InvParts DEF IInv, Fits
<1> QED
  BY <1>1, <1>2, <1>3 DEF LateAlsa

(* The innermost change and those that wait for it.                        *)
LEMMA WhenChanging ==
  ASSUME IInv, ~Idle
  PROVE  /\ Len(changes) \in {1, 2} /\ Current = changes[Len(changes)]
         /\ Current \in CardChange /\ ChangeOK(Nodes, plugged, active, Current)
         /\ Current.card \in Card
         /\ Rest \in Seq(CardChange) /\ Len(Rest) = Len(changes) - 1
         /\ DOMAIN Rest = 1 .. Len(changes) - 1
         /\ \A i \in DOMAIN Rest : /\ i = 1 /\ Rest[i] = changes[i] /\ Rest[i] \in CardChange
                                   /\ ChangeOK(Nodes, plugged, active, Rest[i])
                                   /\ Rest[i].kind # "route" /\ Current.kind = "route"
                                   /\ Rest[i].card # Current.card
<1>1. /\ changes \in Seq(CardChange) /\ Len(changes) \in {0, 1, 2}
      /\ DOMAIN changes = 1 .. Len(changes)
      /\ \A i \in DOMAIN changes : /\ changes[i] \in CardChange
                                   /\ ChangeOK(Nodes, plugged, active, changes[i])
  BY InvParts
<1>2. Len(changes) \in {1, 2}
  BY <1>1, EmptySeq DEF Idle
<1>3. Current = changes[Len(changes)]
  BY DEF Current, Last
<1>4. /\ Rest \in Seq(CardChange) /\ Len(Rest) = Len(changes) - 1
      /\ \A i \in 1 .. Len(changes) - 1 : Rest[i] = changes[i]
  <2>1. Rest = SubSeq(changes, 1, Len(changes) - 1)
    BY DEF Rest, Front
  <2> QED
    BY <1>1, <1>2, <2>1, SubSeqProperties
<1>5. DOMAIN Rest = 1 .. Len(changes) - 1
  BY <1>4, LenProperties
<1>6. StackOK(changes)
  BY DEF IInv, Fits
<1>7. ASSUME NEW i \in DOMAIN Rest
      PROVE  /\ i = 1 /\ Rest[i] = changes[i] /\ Rest[i] \in CardChange
             /\ ChangeOK(Nodes, plugged, active, Rest[i])
             /\ Rest[i].kind # "route" /\ Current.kind = "route"
             /\ Rest[i].card # Current.card
  <2>1. i = 1 /\ Len(changes) = 2 /\ Rest[i] = changes[1]
    BY <1>2, <1>4, <1>5
  <2> QED
    BY <2>1, <1>1, <1>3, <1>6 DEF StackOK
<1>8. Current \in CardChange /\ ChangeOK(Nodes, plugged, active, Current)
  BY <1>1, <1>2, <1>3
<1>9. Current.card \in Card
  BY <1>8 DEF CardChange
<1> QED
  BY <1>2, <1>3, <1>4, <1>5, <1>7, <1>8, <1>9

(* Only a routing pass sets u->state.profile.                              *)
LEMMA Held ==
  ASSUME IInv, ~Idle
  PROVE  /\ Current.kind = "route" => StateProfile = Current.to
         /\ Current.kind # "route" => StateProfile = None
<1>1. /\ Len(changes) \in {1, 2} /\ Current = changes[Len(changes)]
      /\ Len(changes) = 2 => changes[1].kind # "route" /\ changes[2].kind = "route"
      /\ DOMAIN changes = 1 .. Len(changes)
  BY WhenChanging, InvParts DEF IInv, Fits, StackOK
<1> DEFINE routed == {k \in DOMAIN changes : changes[k].kind = "route"}
<1>2. StateProfile = IF routed = {} THEN None ELSE changes[CHOOSE k \in routed : TRUE].to
  BY DEF StateProfile
<1>3. CASE Current.kind = "route"
  <2>1. routed = {Len(changes)}
    BY <1>1, <1>3
  <2> HIDE DEF routed
  <2> QED
    BY <1>1, <1>2, <1>3, <2>1
<1>4. CASE Current.kind # "route"
  <2>1. routed = {}
    BY <1>1, <1>4
  <2> QED
    BY <1>2, <1>4, <2>1
<1> QED
  BY <1>3, <1>4

LEMMA OneChange ==
  ASSUME NEW x \in CardChange
  PROVE  /\ <<x>> \in Seq(CardChange) /\ Len(<<x>>) = 1 /\ DOMAIN <<x>> = {1} /\ <<x>>[1] = x
         /\ StackOK(<<x>>) /\ <<x>> # <<>>
<1>1. <<x>> \in Seq(CardChange) /\ Len(<<x>>) = 1 /\ <<x>>[1] = x /\ <<x>> # <<>>
  OBVIOUS
<1>2. DOMAIN <<x>> = {1}
  OBVIOUS
<1>3. StackOK(<<x>>)
  BY <1>1 DEF StackOK
<1> QED
  BY <1>1, <1>2, <1>3

LEMMA NoChange ==
  /\ <<>> \in Seq(CardChange) /\ DOMAIN <<>> = {} /\ StackOK(<<>>)
<1>1. <<>> \in Seq(CardChange) /\ Len(<<>>) = 0
  OBVIOUS
<1>2. DOMAIN <<>> = {}
  OBVIOUS
<1> QED
  BY <1>1, <1>2 DEF StackOK

(* What is done next of a handler that started idle.                       *)
LEMMA BeginFits ==
  ASSUME IInv, Idle, NEW x \in CardChange, ChangeOK(Nodes, plugged, active, x)
  PROVE  Fits(Nodes, plugged, active, <<x>>)
<1>1. \A dir \in Directions : late[dir] # None => ~OfAlsa(late[dir])
  BY WhenIdle
<1>2. LateAlsa(Nodes, <<x>>)
  BY <1>1, InvParts DEF LateAlsa
<1>3. /\ plugged \subseteq Card /\ active \in [Card -> Profile]
      /\ \A c \in Card : active[c] \in ProfilesOf(c)
      /\ \A d \in Nodes.live : CardOf[d] \in plugged
      /\ \A k \in Key : Nodes.nodes[k] # None => CardOf[k[1]] \in plugged
      /\ \A c \in Bluetooth \cap plugged : \A k \in KeysOf[c] : Nodes.nodes[k] # None
  BY DEF IInv, Fits
<1>4. StackOK(<<x>>) /\ \A i \in DOMAIN <<x>> : <<x>>[i] = x
  BY OneChange
<1> HIDE DEF Nodes
<1> QED
  BY <1>2, <1>3, <1>4 DEF Fits

LEMMA BeginProfile ==
  ASSUME IInv, Idle, NEW x \in CardChange, ProfileInv,
         \/ x.kind = "unplug"
         \/ x.card \notin Alsa
         \/ x.kind = "change" /\ \A k \in KeysOf[x.card] : nodes[k] # None => ~nodes[k].fresh
  PROVE  ProfileNodes(Nodes, plugged, active, <<x>>)
<1>1. DOMAIN changes = {}
  BY WhenIdle
<1>2. DOMAIN <<x>> = {1} /\ <<x>>[1] = x
  BY OneChange
<1>3. Nodes.nodes = nodes
  BY InvParts
<1> QED
  BY <1>1, <1>2, <1>3 DEF ProfileInv, ProfileNodes

LEMMA BeginCome ==
  ASSUME NEW x \in CardChange, x.kind \notin {"plug", "route"}
  PROVE  ComeLinked(Nodes, <<x>>)
BY OneChange DEF ComeLinked

LEMMA SameNodesKept ==
  ASSUME UNCHANGED <<live, port, nodes, byptr, late>>
  PROVE  Nodes' = Nodes
BY DEF Nodes

LEMMA UnplugCardKeeps ==
  ASSUME IInv, NEW c \in Card, UnplugCard(c)
  PROVE  IInv' /\ (ProfileInv => ProfileInv') /\ ComeInv'
<1> DEFINE x == Change(c, Off, "unplug", live \cap DevsOn(c), TRUE)
<1>1. /\ Idle /\ c \in plugged /\ changes' = <<x>>
      /\ plugged' = plugged /\ active' = active /\ avail' = avail
  BY DEF UnplugCard
<1>2. Nodes' = Nodes
  BY SameNodesKept DEF UnplugCard
<1>3. Off \in ProfilesOf(c)
  BY CardsConfig DEF CardsConfig
<1>4. /\ x.card = c /\ x.to = Off /\ x.kind = "unplug" /\ x.left = live \cap DevsOn(c)
      /\ ~x.changed
  BY DEF Change
<1>5. x \in CardChange
  BY <1>3, InvParts DEF Change, CardChange, Profile
<1> HIDE DEF x
<1>6. ChangeOK(Nodes, plugged, active, x)
  <2>1. \A d \in live : CardOf[d] = c => d \in live \cap DevsOn(c)
    BY CardOfDev, InvParts
  <2> QED
    BY <1>1, <1>3, <1>4, <2>1, InvParts DEF ChangeOK
<1>7. Fits(Nodes, plugged, active, <<x>>)
  BY <1>1, <1>5, <1>6, BeginFits
<1>8. Sound(Nodes) /\ Available3
  BY DEF IInv
<1>9. IInv'
  <2>1. Sound(Nodes') /\ Fits(Nodes', plugged', active', changes')
    BY <1>1, <1>2, <1>7, <1>8
  <2>2. Available3'
    BY <1>1, <1>8 DEF Available3
  <2> QED
    BY <2>1, <2>2, InvNext
<1>10. ProfileInv => ProfileInv'
  <2>1. ProfileInv => ProfileNodes(Nodes, plugged, active, <<x>>)
    BY <1>1, <1>4, <1>5, BeginProfile
  <2> QED
    BY <1>1, <1>2, <2>1 DEF ProfileInv
<1>11. ComeInv'
  <2>1. ComeLinked(Nodes, <<x>>)
    BY <1>4, <1>5, BeginCome
  <2> QED
    BY <1>1, <1>2, <2>1 DEF ComeInv
<1> QED
  BY <1>9, <1>10, <1>11

LEMMA ChangeProfileKeeps ==
  ASSUME IInv, NEW c \in Card, NEW p \in ProfilesOf(c), ChangeProfile(c, p)
  PROVE  IInv' /\ (ProfileInv /\ ~Hasty => ProfileInv') /\ ComeInv'
<1> DEFINE x == Change(c, p, "change", Leaving(c, p), FALSE)
<1>1. /\ Idle /\ c \in plugged /\ changes' = <<x>>
      /\ plugged' = plugged /\ active' = active /\ avail' = avail
      /\ Hasty \/ \A k \in KeysOf[c] : nodes[k] # None => ~nodes[k].fresh
  BY DEF ChangeProfile
<1>2. Nodes' = Nodes
  BY SameNodesKept DEF ChangeProfile
<1>4. /\ x.card = c /\ x.to = p /\ x.kind = "change" /\ x.left = Leaving(c, p)
      /\ ~x.changed
  BY DEF Change
<1>3. Leaving(c, p) \subseteq live \cap DevsOn(c)
  BY DEF Leaving
<1>5. x \in CardChange
  BY <1>3, InvParts DEF Change, CardChange, Profile
<1> HIDE DEF x
<1>6. ChangeOK(Nodes, plugged, active, x)
  <2>1. \A d \in live : CardOf[d] = c => d \in Leaving(c, p) \/ d \in DevsOf[c][p]
    BY CardOfDev, InvParts DEF Leaving
  <2> QED
    BY <1>1, <1>3, <1>4, <2>1, InvParts DEF ChangeOK
<1>7. Fits(Nodes, plugged, active, <<x>>)
  BY <1>1, <1>5, <1>6, BeginFits
<1>8. Sound(Nodes) /\ Available3
  BY DEF IInv
<1>9. IInv'
  <2>1. Sound(Nodes') /\ Fits(Nodes', plugged', active', changes')
    BY <1>1, <1>2, <1>7, <1>8
  <2>2. Available3'
    BY <1>1, <1>8 DEF Available3
  <2> QED
    BY <2>1, <2>2, InvNext
<1>10. ProfileInv /\ ~Hasty => ProfileInv'
  <2>1. ProfileInv /\ ~Hasty => ProfileNodes(Nodes, plugged, active, <<x>>)
    BY <1>1, <1>4, <1>5, BeginProfile
  <2> QED
    BY <1>1, <1>2, <2>1 DEF ProfileInv
<1>11. ComeInv'
  <2>1. ComeLinked(Nodes, <<x>>)
    BY <1>4, <1>5, BeginCome
  <2> QED
    BY <1>1, <1>2, <2>1 DEF ComeInv
<1> QED
  BY <1>9, <1>10, <1>11

LEMMA PlugCardKeeps ==
  ASSUME IInv, NEW c \in Card, NEW p \in ProfilesOf(c), PlugCard(c, p)
  PROVE  IInv' /\ (ProfileInv => ProfileInv') /\ ComeInv'
<1> DEFINE x == Change(c, p, "plug", {}, FALSE)
           keys == IF c \in Alsa THEN AlsaKeys(c, p) ELSE BluetoothKeys(c)
           s == CreateNodes(Nodes, keys)
           P == plugged \cup {c}
           A == [active EXCEPT ![c] = p]
<1>1. /\ Idle /\ c \notin plugged /\ changes' = <<x>>
      /\ plugged' = P /\ active' = A /\ avail' = avail /\ Becomes(s)
  BY DEF PlugCard
<1>2. /\ s \in State /\ Linked(s) /\ s.live = live /\ s.port = port /\ s.byptr = byptr /\ s.late = late
      /\ \A k \in Key : IF k \in keys THEN s.nodes[k] # None ELSE s.nodes[k] = nodes[k]
  <2>1. Nodes \in State /\ Linked(Nodes)
    BY InvParts
  <2>2. /\ Nodes.live = live /\ Nodes.port = port /\ Nodes.byptr = byptr /\ Nodes.late = late
        /\ Nodes.nodes = nodes
    BY InvParts
  <2> HIDE DEF keys
  <2> QED
    BY <2>1, <2>2, CreateDoes
<1>3. keys \subseteq KeysOf[c] /\ (c \in Bluetooth => keys = KeysOf[c]) /\ (c \in Alsa => keys = AlsaKeys(c, p))
  <2>1. CASE c \in Alsa
    <3>1. c \notin Bluetooth
      BY <2>1, NotBoth
    <3> QED
      BY <2>1, <3>1, AlsaKeyKnown
  <2>2. CASE c \notin Alsa
    BY <2>2 DEF KeysOf
  <2> QED
    BY <2>1, <2>2
<1>4. /\ x.card = c /\ x.to = p /\ x.kind = "plug" /\ x.left = {}
      /\ ~x.changed
  BY DEF Change
<1>5. x \in CardChange
  BY DEF Change, CardChange, Profile
<1>6. /\ P \subseteq Card /\ A \in [Card -> Profile] /\ \A e \in Card : A[e] \in ProfilesOf(e)
      /\ A[c] = p /\ \A e \in Card \ {c} : A[e] = active[e]
  BY InvParts DEF Profile
<1>7. \A k \in Key : k \in KeysOf[c] <=> CardOf[k[1]] = c
  BY KeyForm, KeyOfCard
<1>8. /\ \A d \in live : CardOf[d] \in plugged
      /\ \A k \in Key : nodes[k] # None => CardOf[k[1]] \in plugged
      /\ \A e \in Bluetooth \cap plugged : \A k \in KeysOf[e] : nodes[k] # None
  BY InvParts DEF IInv, Fits
<1> HIDE DEF x, keys, s, P, A
<1>9. Nodes' = s
  BY <1>1, <1>2, NodesBecome
<1>10. Sound(s)
  <2>1. LateFree(Nodes) /\ Nodes.late = late /\ Nodes.live = live /\ Nodes.byptr = byptr
        /\ Nodes.port = port
    BY InvParts
  <2>2. LateFree(s)
    BY <2>1, <1>2 DEF LateFree, OwnNode
  <2> QED
    BY <1>2, <2>2 DEF Sound
<1>11. \A e \in Bluetooth \cap P : \A k \in KeysOf[e] : s.nodes[k] # None
  <2>1. ASSUME NEW e \in Bluetooth \cap P, NEW k \in KeysOf[e]
        PROVE  s.nodes[k] # None
    <3>1. k \in Key
      BY KeyOfCard DEF Card
    <3>2. CASE e = c
      BY <3>1, <3>2, <1>2, <1>3
    <3>3. CASE e # c
      BY <3>1, <3>3, <1>2, <1>8 DEF P
    <3> QED
      BY <3>2, <3>3
  <2> QED
    BY <2>1
<1>12. ChangeOK(s, P, A, x)
  <2>1. c \in Alsa => \A k \in AlsaKeys(c, p) : s.nodes[k] # None
    <3>1. ASSUME c \in Alsa, NEW k \in AlsaKeys(c, p)
          PROVE  s.nodes[k] # None
      <4>1. k \in keys /\ k \in Key
        BY <3>1, <1>3, KeyOfCard
      <4> QED
        BY <4>1, <1>2
    <3> QED
      BY <3>1
  <2>2. \A d \in s.live : CardOf[d] # c
    BY <1>1, <1>2, <1>8
  <2> QED
    BY <2>1, <2>2, <1>4, <1>6 DEF ChangeOK, P
<1>13. Fits(s, P, A, <<x>>)
  <2>1. LateAlsa(s, <<x>>)
    BY <1>1, <1>2, WhenIdle DEF LateAlsa
  <2>2. \A d \in s.live : CardOf[d] \in P
    BY <1>2, <1>8 DEF P
  <2>3. \A k \in Key : s.nodes[k] # None => CardOf[k[1]] \in P
    BY <1>2, <1>3, <1>7, <1>8 DEF P
  <2>4. StackOK(<<x>>) /\ \A i \in DOMAIN <<x>> : <<x>>[i] = x
    BY <1>5, OneChange
  <2> QED
    BY <1>6, <1>11, <1>12, <2>1, <2>2, <2>3, <2>4 DEF Fits
<1>14. IInv'
  <2>1. Sound(Nodes') /\ Fits(Nodes', plugged', active', changes')
    BY <1>1, <1>9, <1>10, <1>13
  <2>2. Available3'
    BY <1>1, InvParts DEF Available3
  <2> QED
    BY <2>1, <2>2, InvNext
<1>15. ProfileInv => ProfileInv'
  <2>1. ASSUME ProfileInv
        PROVE  ProfileNodes(s, P, A, <<x>>)
    <3>1. DOMAIN changes = {}
      BY <1>1, WhenIdle
    <3>2. DOMAIN <<x>> = {1} /\ <<x>>[1] = x
      BY <1>5, OneChange
    <3>3. ASSUME NEW e \in Alsa \cap P, NEW k \in KeysOf[e]
          PROVE  s.nodes[k] # None <=> k \in AlsaKeys(e, A[e])
      <4>1. k \in Key /\ CardOf[k[1]] = e /\ e \in Card
        BY <3>3, KeyOfCard, <1>6
      <4>2. CASE e = c
        BY <3>3, <4>1, <4>2, <1>1, <1>2, <1>3, <1>6, <1>8
      <4>3. CASE e # c
        <5>1. e \in plugged /\ Nodes.nodes = nodes
          BY <3>3, <4>3, InvParts DEF P
        <5>2. nodes[k] # None <=> k \in AlsaKeys(e, active[e])
          BY <2>1, <3>1, <3>3, <5>1 DEF ProfileInv, ProfileNodes
        <5>3. k \notin keys
          BY <4>1, <4>3, <1>3, <1>7
        <5> QED
          BY <4>1, <4>3, <5>2, <5>3, <1>2, <1>6
      <4> QED
        BY <4>2, <4>3
    <3> QED
      BY <3>2, <3>3, <1>4 DEF ProfileNodes
  <2> QED
    BY <1>1, <1>9, <2>1 DEF ProfileInv
<1>16. ComeInv'
  <2>1. \A d \in s.live : CardOf[d] # c
    BY <1>1, <1>2, <1>8
  <2>2. DOMAIN <<x>> = {1} /\ <<x>>[1] = x
    BY <1>5, OneChange
  <2>3. ComeLinked(s, <<x>>)
    BY <2>1, <2>2, <1>4 DEF ComeLinked
  <2> QED
    BY <1>1, <1>9, <2>3 DEF ComeInv
<1> QED
  BY <1>14, <1>15, <1>16

LEMMA ChangePortKeeps ==
  ASSUME IInv, NEW d \in Dev, NEW q \in Port, ChangePort(d, q)
  PROVE  IInv' /\ (ProfileInv => ProfileInv') /\ ComeInv'
<1> DEFINE s == [Nodes EXCEPT !.port = [port EXCEPT ![d] = q]]
<1>1. /\ Idle /\ changes' = changes /\ plugged' = plugged /\ active' = active /\ avail' = avail
      /\ port' = [port EXCEPT ![d] = q] /\ nodes' = nodes /\ byptr' = byptr
      /\ live' = live /\ late' = late
  BY DEF ChangePort
<1>2. Nodes' = s
  BY <1>1 DEF Nodes
<1>3. /\ s.nodes = nodes /\ s.byptr = byptr /\ s.live = live /\ s.late = late
      /\ s.port = [port EXCEPT ![d] = q] /\ s \in State
  BY InvParts DEF Nodes, State
<1>4. /\ Nodes.nodes = nodes /\ Nodes.byptr = byptr /\ Nodes.live = live /\ Nodes.late = late
      /\ Linked(Nodes) /\ LateFree(Nodes)
  BY InvParts
<1> HIDE DEF s
<1>5. changes = <<>> /\ DOMAIN changes = {}
      /\ \A dir \in Directions : late[dir] # None => ~OfAlsa(late[dir])
  BY <1>1, WhenIdle
<1>6. Linked(s)
  BY <1>3, <1>4 DEF Linked
<1>7. LateFree(s)
  <2>1. ASSUME NEW dir \in Directions, late[dir] # None
        PROVE  /\ late[dir] \in live /\ Direction(late[dir]) = dir
               /\ byptr[late[dir]] = None
    <3> DEFINE e == late[dir]
    <3>1. /\ e \in live /\ Direction(e) = dir
          /\ byptr[e] = None \/ OwnNode(Nodes, e)
      BY <2>1, <1>4 DEF LateFree
    <3>2. e \in Dev /\ ~OfAlsa(e)
      BY <2>1, <3>1, <1>5, InvParts
    <3> HIDE DEF e
    <3>3. byptr[e] # None => HasKey(e)
      BY <3>2, <1>4, InvParts, LinkedHasKey
    <3>4. byptr[e] = None
      BY <3>1, <3>2, <3>3 DEF OwnNode, OfAlsa
    <3> QED
      BY <3>1, <3>4 DEF e
  <2> QED
    BY <2>1, <1>3 DEF LateFree
<1>8. Fits(s, plugged, active, changes)
  <2>1. Fits(Nodes, plugged, active, changes)
    BY DEF IInv
  <2>2. LateAlsa(s, changes)
    BY <1>3, <1>5 DEF LateAlsa
  <2> QED
    BY <2>1, <2>2, <1>3, <1>4, <1>5 DEF Fits
<1>9. IInv'
  <2>1. Sound(Nodes') /\ Fits(Nodes', plugged', active', changes')
    BY <1>1, <1>2, <1>3, <1>6, <1>7, <1>8 DEF Sound
  <2>2. Available3'
    BY <1>1, InvParts DEF Available3
  <2> QED
    BY <2>1, <2>2, InvNext
<1>10. ProfileInv => ProfileInv'
  <2>1. ProfileInv => ProfileNodes(s, plugged, active, changes)
    BY <1>3, <1>4, <1>5 DEF ProfileInv, ProfileNodes
  <2> QED
    BY <1>1, <1>2, <2>1 DEF ProfileInv
<1>11. ComeInv'
  <2>1. ComeLinked(s, changes)
    BY <1>5 DEF ComeLinked
  <2> QED
    BY <1>1, <1>2, <2>1 DEF ComeInv
<1> QED
  BY <1>9, <1>10, <1>11

(* An idle handler that ends in a pass, or in none.                        *)
LEMMA EndsInPass ==
  ASSUME IInv, Idle, NEW needed, NEW s, Passed(Nodes, s, <<>>, <<>>), PassIf(needed, s, <<>>),
         UNCHANGED <<plugged, active>>, Available3'
  PROVE  IInv' /\ (ProfileInv => ProfileInv') /\ ComeInv'
<1>1. changes = <<>> /\ StateProfile = None
  BY WhenIdle
<1>2. <<>> \in Seq(CardChange) /\ DOMAIN <<>> = {}
  BY NoChange
<1>3. Sound(Nodes) /\ Fits(Nodes, plugged, active, <<>>)
  BY <1>1 DEF IInv
<1>4. Sound(s) /\ Fits(s, plugged, active, <<>>)
  BY <1>3, PassedFits
<1>5. Passed(s, Nodes', <<>>, changes')
  <2>1. s \in State /\ Linked(s)
    BY <1>4 DEF Sound
  <2> QED
    BY <1>2, <2>1, PassIfDoes
<1>6. Sound(Nodes') /\ Fits(Nodes', plugged, active, changes')
  BY <1>4, <1>5, PassedFits
<1>7. IInv'
  BY <1>6, InvNext
<1>8. ProfileInv => ProfileInv'
  <2>1. ASSUME ProfileInv
        PROVE  ProfileNodes(Nodes', plugged, active, changes')
    <3>1. ProfileNodes(Nodes, plugged, active, <<>>)
      BY <1>1, <2>1 DEF ProfileInv
    <3>2. ProfileNodes(s, plugged, active, <<>>)
      BY <1>2, <3>1, PassedProfile
    <3> QED
      BY <1>2, <1>5, <3>2, PassedProfile
  <2> QED
    BY <2>1 DEF ProfileInv
<1>9. ComeInv'
  <2>1. ComeLinked(s, <<>>)
    BY <1>2 DEF ComeLinked
  <2>2. s.live \subseteq Dev
    BY <1>4, StateFields DEF Sound
  <2>3. ComeLinked(Nodes', changes')
    BY <1>2, <1>5, <2>1, <2>2, PassedCome
  <2> QED
    BY <2>3 DEF ComeInv
<1> QED
  BY <1>7, <1>8, <1>9

LEMMA MakeRoutingKeeps ==
  ASSUME IInv, MakeRouting
  PROVE  IInv' /\ (ProfileInv => ProfileInv') /\ ComeInv'
<1>1. Idle /\ Pass(Nodes, <<>>) /\ UNCHANGED <<plugged, active>> /\ avail' = avail
  BY DEF MakeRouting
<1>2. Passed(Nodes, Nodes, <<>>, <<>>)
  BY InvParts, NoPass
<1>3. PassIf(TRUE, Nodes, <<>>)
  BY <1>1 DEF PassIf
<1>4. Available3'
  BY <1>1, InvParts DEF Available3
<1> QED
  BY <1>1, <1>2, <1>3, <1>4, EndsInPass

LEMMA Labelled ==
  ASSUME NEW n \in Node, NEW b \in BOOLEAN, NEW m, m = [n EXCEPT !.available = b]
  PROVE  m \in Node /\ m.linked = n.linked /\ m.fresh = n.fresh
BY DEF Node

(* Nodes whose availability changes.                                       *)
LEMMA Relabelled ==
  ASSUME NEW s \in State, Linked(s), NEW f \in [Key -> Node \cup {None}], NEW pending,
         \A k \in Key : /\ f[k] = None <=> s.nodes[k] = None
                        /\ s.nodes[k] # None => /\ f[k].linked = s.nodes[k].linked
                                                /\ f[k].fresh = s.nodes[k].fresh
  PROVE  Passed(s, [s EXCEPT !.nodes = f], pending, pending)
<1> DEFINE r == [s EXCEPT !.nodes = f]
<1>1. /\ r.live = s.live /\ r.port = s.port /\ r.byptr = s.byptr /\ r.late = s.late /\ r.nodes = f
      /\ r \in State
  BY DEF State
<1> HIDE DEF r
<1>2. s.byptr \in [Dev -> Key \cup {None}]
  BY StateFields
<1>3. Linked(r)
  BY <1>1, <1>2 DEF Linked
<1>4. SameNodes(s, r) /\ Ported(s, r)
  BY <1>1 DEF SameNodes, Ported
<1> QED
  BY <1>1, <1>3, <1>4 DEF Passed, r

LEMMA AlsaPortKeeps ==
  ASSUME IInv, NEW c \in Card, NEW q \in Port, NEW v \in {"yes", "no", "unknown"},
         AlsaPortChanges(c, q, v)
  PROVE  IInv' /\ (ProfileInv => ProfileInv') /\ ComeInv'
<1> DEFINE of == {k \in KeysOf[c] : k[2] = q /\ nodes[k] # None /\ k[1] \in live
                                    /\ v # "unknown" /\ nodes[k].available # (v = "yes")}
           b == v = "yes"
           f == [k \in Key |-> IF k \in of THEN [nodes[k] EXCEPT !.available = (v = "yes")]
                               ELSE nodes[k]]
           s == [Nodes EXCEPT !.nodes = f]
<1>1. /\ Idle /\ UNCHANGED <<plugged, active>> /\ avail' = [avail EXCEPT ![q] = v]
      /\ PassIf(of # {}, s, <<>>)
  BY DEF AlsaPortChanges
<1>2. /\ Nodes \in State /\ Linked(Nodes) /\ Nodes.nodes = nodes
      /\ nodes \in [Key -> Node \cup {None}]
  BY InvParts
<1>3. \A k \in of : nodes[k] # None
  OBVIOUS
<1>4. b \in BOOLEAN
  OBVIOUS
<1>5. f = [k \in Key |-> IF k \in of THEN [nodes[k] EXCEPT !.available = b] ELSE nodes[k]]
  OBVIOUS
<1> DEFINE changed == of # {}
<1>6. PassIf(changed, s, <<>>)
  BY <1>1
<1> HIDE DEF of, b, f, changed
<1>7. ASSUME NEW k \in Key
      PROVE  /\ f[k] \in Node \cup {None} /\ (f[k] = None <=> nodes[k] = None)
             /\ nodes[k] # None => f[k].linked = nodes[k].linked /\ f[k].fresh = nodes[k].fresh
  <2>1. CASE k \in of
    <3>1. nodes[k] \in Node
      BY <2>1, <1>2, <1>3
    <3>4. PICK e \in BOOLEAN : e = b
      BY <1>4
    <3> DEFINE m == [nodes[k] EXCEPT !.available = e]
    <3>2. m \in Node /\ m.linked = nodes[k].linked /\ m.fresh = nodes[k].fresh
      BY <3>1, <3>4, Labelled
    <3>3. f[k] = m
      BY <2>1, <3>4, <1>5
    <3> HIDE DEF m
    <3> QED
      BY <3>1, <3>2, <3>3, NodeFields
  <2>2. CASE k \notin of
    BY <2>2, <1>2, <1>5
  <2> QED
    BY <2>1, <2>2
<1>8. f \in [Key -> Node \cup {None}]
  <2>1. f = [k \in Key |-> f[k]]
    BY <1>5
  <2> QED
    BY <2>1, <1>7
<1>9. Passed(Nodes, s, <<>>, <<>>)
  BY <1>2, <1>7, <1>8, Relabelled
<1>10. Available3'
  BY <1>1, InvParts DEF Available3
<1> HIDE DEF s
<1> QED
  BY <1>1, <1>6, <1>9, <1>10, EndsInPass

LEMMA BluetoothPortKeeps ==
  ASSUME IInv, NEW c \in Card, NEW q \in Port, NEW v \in {"yes", "no", "unknown"},
         BluetoothPortChanges(c, q, v)
  PROVE  IInv' /\ (ProfileInv => ProfileInv') /\ ComeInv'
<1> DEFINE of == {k \in KeysOf[c] : k[2] = q}
           There(k) == IF k[3] \in ByPort THEN v # "no" ELSE TRUE
           changed == \E k \in of : nodes[k].available # There(k)
           f == [k \in Key |-> IF k \in of THEN [nodes[k] EXCEPT !.available = There(k)] ELSE nodes[k]]
           s == [Nodes EXCEPT !.nodes = f]
           same == {r \in Port : r \in OutPort <=> q \in OutPort}
<1>1. /\ Idle /\ c \in plugged \cap Bluetooth
      /\ UNCHANGED <<plugged, active>> /\ avail' = [avail EXCEPT ![q] = v]
      /\ \E p \in BluetoothProfile(c, same, avail') :
           IF p = active[c] THEN PassIf(changed, s, <<>>)
           ELSE /\ Becomes(s)
                /\ changes' = <<Change(c, p, "change", live \cap DevsOn(c), changed)>>
  BY DEF BluetoothPortChanges
<1>2. /\ Nodes \in State /\ Linked(Nodes) /\ Nodes.nodes = nodes /\ Nodes.live = live
      /\ nodes \in [Key -> Node \cup {None}] /\ live \subseteq Dev
  BY InvParts
<1>3. \A k \in of : nodes[k] # None
  BY <1>1, <1>2 DEF IInv, Fits
<1>4. changed \in BOOLEAN /\ \A k \in Key : There(k) \in BOOLEAN
  OBVIOUS
<1>5. f = [k \in Key |-> IF k \in of THEN [nodes[k] EXCEPT !.available = There(k)] ELSE nodes[k]]
  OBVIOUS
<1>6. PICK p \in BluetoothProfile(c, same, avail') :
           IF p = active[c] THEN PassIf(changed, s, <<>>)
           ELSE /\ Becomes(s)
                /\ changes' = <<Change(c, p, "change", live \cap DevsOn(c), changed)>>
  BY <1>1
<1>7. p \in ProfilesOf(c)
  <2>1. Off \in ProfilesOf(c) /\ active[c] \in ProfilesOf(c)
    BY CardsConfig, InvParts DEF CardsConfig
  <2> HIDE DEF same
  <2> QED
    BY <1>6, <2>1 DEF BluetoothProfile
<1> HIDE DEF of, There, f, changed, same
<1>8. ASSUME NEW k \in Key
      PROVE  /\ f[k] \in Node \cup {None} /\ (f[k] = None <=> nodes[k] = None)
             /\ nodes[k] # None => f[k].linked = nodes[k].linked /\ f[k].fresh = nodes[k].fresh
  <2>1. CASE k \in of
    <3>1. nodes[k] \in Node
      BY <2>1, <1>2, <1>3
    <3>4. PICK e \in BOOLEAN : e = There(k)
      BY <1>4
    <3> DEFINE m == [nodes[k] EXCEPT !.available = e]
    <3>2. m \in Node /\ m.linked = nodes[k].linked /\ m.fresh = nodes[k].fresh
      BY <3>1, <3>4, Labelled
    <3>3. f[k] = m
      BY <2>1, <3>4, <1>5
    <3> HIDE DEF m
    <3> QED
      BY <3>1, <3>2, <3>3, NodeFields
  <2>2. CASE k \notin of
    BY <2>2, <1>2, <1>5
  <2> QED
    BY <2>1, <2>2
<1>9. f \in [Key -> Node \cup {None}]
  <2>1. f = [k \in Key |-> f[k]]
    BY <1>5
  <2> QED
    BY <2>1, <1>8
<1>10. \A pending : Passed(Nodes, s, pending, pending)
  BY <1>2, <1>8, <1>9, Relabelled
<1>11. Available3'
  BY <1>1, InvParts DEF Available3
<1> HIDE DEF s
<1>12. CASE p = active[c]
  <2>1. PassIf(changed, s, <<>>)
    BY <1>6, <1>12
  <2> QED
    BY <1>1, <1>10, <1>11, <2>1, EndsInPass
<1>13. CASE p # active[c]
  <2> DEFINE x == Change(c, p, "change", live \cap DevsOn(c), changed)
  <2>1. Becomes(s) /\ changes' = <<x>>
    BY <1>6, <1>13
  <2>2. /\ x.card = c /\ x.to = p /\ x.kind = "change" /\ x.left = live \cap DevsOn(c)
        /\ ~x.changed
    BY DEF Change
  <2>3. x \in CardChange
    BY <1>2, <1>4, <1>7 DEF Change, CardChange, Profile
  <2> HIDE DEF x
  <2>4. ChangeOK(Nodes, plugged, active, x)
    <3>1. \A d \in live : CardOf[d] = c => d \in live \cap DevsOn(c)
      BY <1>2, CardOfDev
    <3> QED
      BY <1>1, <1>2, <1>7, <2>2, <3>1 DEF ChangeOK
  <2>5. Fits(Nodes, plugged, active, <<x>>) /\ Sound(Nodes)
    BY <1>1, <2>3, <2>4, BeginFits DEF IInv
  <2>6. Passed(Nodes, s, <<x>>, <<x>>)
    BY <1>10
  <2>7. Sound(s) /\ Fits(s, plugged, active, <<x>>)
    BY <2>5, <2>6, PassedFits
  <2>8. Nodes' = s
    BY <2>1, <2>7, NodesBecome DEF Sound
  <2>9. IInv'
    BY <1>1, <1>11, <2>1, <2>7, <2>8, InvNext
  <2>10. ProfileInv => ProfileInv'
    <3>1. ASSUME ProfileInv
          PROVE  ProfileNodes(s, plugged, active, <<x>>)
      <4>1. c \notin Alsa
        BY <1>1, NotBoth
      <4>2. ProfileNodes(Nodes, plugged, active, <<x>>)
        BY <1>1, <2>2, <2>3, <3>1, <4>1, BeginProfile
      <4>3. <<x>> \in Seq(CardChange)
        BY <2>3, OneChange
      <4> QED
        BY <2>6, <4>2, <4>3, PassedProfile
    <3> QED
      BY <1>1, <2>1, <2>8, <3>1 DEF ProfileInv
  <2>11. ComeInv'
    <3>1. ComeLinked(s, <<x>>)
      BY <2>2, <2>3, OneChange DEF ComeLinked
    <3> QED
      BY <2>1, <2>8, <3>1 DEF ComeInv
  <2> QED
    BY <2>9, <2>10, <2>11
<1> QED
  BY <1>12, <1>13

-----------------------------------------------------------------------------
(* The steps of a change.                                                  *)

(* The innermost change becomes x.                                         *)
LEMMA TopStack ==
  ASSUME IInv, ~Idle, NEW x \in CardChange, x.card = Current.card, x.kind = Current.kind
  PROVE  /\ StackOK(Append(Rest, x)) /\ Append(Rest, x) \in Seq(CardChange) /\ Append(Rest, x) # <<>>
         /\ DOMAIN Append(Rest, x) = DOMAIN changes /\ Len(Append(Rest, x)) = Len(changes)
         /\ Append(Rest, x)[Len(changes)] = x /\ Len(changes) \in {1, 2}
         /\ \A i \in DOMAIN changes : Append(Rest, x)[i] = IF i = Len(changes) THEN x ELSE changes[i]
         /\ \A i \in DOMAIN changes : i # Len(changes) => i \in DOMAIN Rest /\ changes[i] = Rest[i]
         /\ 1 \in DOMAIN changes /\ changes[Len(changes)] = Current
<1> DEFINE ch == Append(Rest, x)
<1>1. /\ Len(changes) \in {1, 2} /\ Current = changes[Len(changes)]
      /\ Rest \in Seq(CardChange) /\ Len(Rest) = Len(changes) - 1
      /\ DOMAIN Rest = 1 .. Len(changes) - 1
      /\ \A i \in DOMAIN Rest : Rest[i] = changes[i]
  BY WhenChanging
<1>2. /\ ch \in Seq(CardChange)
      /\ Len(ch) = Len(Rest) + 1
      /\ DOMAIN ch = 1 .. Len(Rest) + 1
      /\ \A j \in 1 .. Len(Rest) : ch[j] = Rest[j]
      /\ ch[Len(Rest) + 1] = x
  BY <1>1, AppendAt
<1>3. DOMAIN changes = 1 .. Len(changes) /\ StackOK(changes)
  BY InvParts DEF IInv, Fits
<1> HIDE DEF ch
<1>4. ch # <<>>
  BY <1>1, <1>2, EmptySeq
<1>5. StackOK(ch)
  BY <1>1, <1>2, <1>3 DEF StackOK
<1> QED
  BY <1>1, <1>2, <1>3, <1>4, <1>5 DEF ch

CardsOK(s, P, A) ==
  /\ P \subseteq Card /\ A \in [Card -> Profile] /\ \A c \in Card : A[c] \in ProfilesOf(c)
  /\ \A d \in s.live : CardOf[d] \in P
  /\ \A k \in Key : s.nodes[k] # None => CardOf[k[1]] \in P
  /\ \A c \in Bluetooth \cap P : \A k \in KeysOf[c] : s.nodes[k] # None

LEMMA TopFits ==
  ASSUME IInv, ~Idle, NEW x \in CardChange, x.card = Current.card, x.kind = Current.kind,
         NEW s, NEW P, NEW A, CardsOK(s, P, A), ChangeOK(s, P, A, x),
         \A i \in DOMAIN Rest : ChangeOK(s, P, A, Rest[i]),
         LateAlsa(s, Append(Rest, x))
  PROVE  Fits(s, P, A, Append(Rest, x))
<1> DEFINE ch == Append(Rest, x)
<1>1. /\ StackOK(ch) /\ DOMAIN ch = DOMAIN changes
      /\ \A i \in DOMAIN changes : ch[i] = IF i = Len(changes) THEN x ELSE changes[i]
      /\ \A i \in DOMAIN changes : i # Len(changes) => i \in DOMAIN Rest /\ changes[i] = Rest[i]
  BY TopStack
<1>2. LateAlsa(s, ch)
  OBVIOUS
<1> HIDE DEF ch
<1>3. \A i \in DOMAIN ch : ChangeOK(s, P, A, ch[i])
  BY <1>1
<1>4. Fits(s, P, A, ch)
  BY <1>1, <1>2, <1>3 DEF Fits, CardsOK
<1> QED
  BY <1>4 DEF ch

LEMMA TopProfile ==
  ASSUME IInv, ~Idle, NEW x \in CardChange, x.card = Current.card, x.kind = Current.kind,
         NEW s, SameNodes(Nodes, s), NEW A, \A c \in Card : c = Current.card \/ A[c] = active[c],
         A[Current.card] = active[Current.card] \/ x.kind # "plug", ProfileInv
  PROVE  ProfileNodes(s, plugged, A, Append(Rest, x))
<1> DEFINE ch == Append(Rest, x)
<1>1. /\ DOMAIN ch = DOMAIN changes /\ Len(changes) \in DOMAIN changes
      /\ \A i \in DOMAIN changes : ch[i].card = changes[i].card /\ ch[i].kind = changes[i].kind
      /\ changes[Len(changes)] = Current
  <2>1. /\ DOMAIN ch = DOMAIN changes /\ Len(changes) \in {1, 2} /\ DOMAIN changes = 1 .. Len(changes)
        /\ \A i \in DOMAIN changes : ch[i] = IF i = Len(changes) THEN x ELSE changes[i]
        /\ changes[Len(changes)] = Current
    BY TopStack, InvParts
  <2> HIDE DEF ch
  <2> QED
    BY <2>1
<1> HIDE DEF ch
<1>2. Nodes.nodes = nodes /\ plugged \subseteq Card
  BY InvParts
<1>3. ASSUME NEW c \in Alsa \cap plugged, \A i \in DOMAIN ch : ch[i].card = c => ch[i].kind = "plug",
             NEW k \in KeysOf[c]
      PROVE  s.nodes[k] # None <=> k \in AlsaKeys(c, A[c])
  <2>1. \A i \in DOMAIN changes : changes[i].card = c => changes[i].kind = "plug"
    BY <1>1, <1>3
  <2>2. A[c] = active[c]
    BY <2>1, <1>1, <1>2
  <2>3. Nodes.nodes[k] # None <=> k \in AlsaKeys(c, active[c])
    BY <2>1 DEF ProfileInv, ProfileNodes
  <2>4. k \in Key
    BY <1>2, KeyOfCard
  <2> QED
    BY <2>2, <2>3, <2>4 DEF SameNodes
<1>4. ASSUME NEW c \in Alsa \cap plugged, \E i \in DOMAIN ch : ch[i].card = c /\ ch[i].kind = "change",
             NEW k \in KeysOf[c], s.nodes[k] # None
      PROVE  ~s.nodes[k].fresh
  <2>1. \E i \in DOMAIN changes : changes[i].card = c /\ changes[i].kind = "change"
    BY <1>1, <1>4
  <2>2. k \in Key
    BY <1>2, KeyOfCard
  <2>3. Nodes.nodes[k] # None /\ (s.nodes[k].fresh => Nodes.nodes[k].fresh)
    BY <1>4, <2>2 DEF SameNodes
  <2>4. ~Nodes.nodes[k].fresh
    BY <2>1, <2>3 DEF ProfileInv, ProfileNodes
  <2> QED
    BY <2>3, <2>4
<1>5. ProfileNodes(s, plugged, A, ch)
  BY <1>3, <1>4 DEF ProfileNodes
<1> QED
  BY <1>5 DEF ch

LEMMA DeviceGoesKeeps ==
  ASSUME IInv, NEW d \in Dev, DeviceGoes(d)
  PROVE  IInv' /\ (ProfileInv => ProfileInv') /\ (ComeInv => ComeInv')
<1> DEFINE x == [Current EXCEPT !.left = @ \ {d}]
           s == RemoveDevice(Nodes, d)
           ch == Append(Rest, x)
<1>1. /\ ~Idle /\ d \in Current.left /\ Becomes(s) /\ changes' = ch
      /\ plugged' = plugged /\ active' = active /\ avail' = avail
  BY DEF DeviceGoes
<1>2. /\ Nodes \in State /\ Linked(Nodes) /\ LateFree(Nodes) /\ Nodes.nodes = nodes
      /\ Nodes.byptr = byptr /\ Nodes.live = live /\ Nodes.port = port /\ Nodes.late = late
      /\ late \in [Directions -> Dev \cup {None}] /\ live \subseteq Dev
  BY InvParts
<1>3. /\ s \in State /\ Linked(s) /\ SameNodes(Nodes, s) /\ s.live = live \ {d}
      /\ \A e \in Dev \ {d} : s.byptr[e] = byptr[e] /\ s.port[e] = port[e]
      /\ s.late = [late EXCEPT ![Direction(d)] = IF @ = d THEN None ELSE @]
  <2>1. /\ s \in State /\ Linked(s) /\ s.live = Nodes.live \ {d} /\ SameNodes(Nodes, s)
        /\ \A e \in Dev \ {d} : /\ s.byptr[e] = Nodes.byptr[e]
                                /\ s.port[e] = Nodes.port[e]
        /\ s.late = [Nodes.late EXCEPT ![Direction(d)] = IF @ = d THEN None ELSE @]
    <3>1. Nodes \in State /\ Linked(Nodes) /\ d \in Dev
      BY <1>2
    <3> QED
      BY <3>1, RemoveDoes
  <2> HIDE DEF s
  <2> QED
    BY <2>1, <1>2
<1> HIDE DEF s
<1>4. /\ Current \in CardChange /\ ChangeOK(Nodes, plugged, active, Current)
      /\ Current.card \in Card
      /\ \A i \in DOMAIN Rest : /\ Rest[i] \in CardChange /\ ChangeOK(Nodes, plugged, active, Rest[i])
                                /\ Rest[i].card # Current.card
  BY <1>1, WhenChanging
<1>5. /\ x \in CardChange /\ x.card = Current.card /\ x.kind = Current.kind /\ x.to = Current.to
      /\ x.changed = Current.changed /\ x.left = Current.left \ {d}
  BY <1>4 DEF CardChange
<1> HIDE DEF x
<1>6. /\ StackOK(ch) /\ DOMAIN ch = DOMAIN changes /\ ch # <<>>
      /\ \A i \in DOMAIN changes : ch[i] = IF i = Len(changes) THEN x ELSE changes[i]
      /\ \A i \in DOMAIN changes : i # Len(changes) => i \in DOMAIN Rest /\ changes[i] = Rest[i]
      /\ 1 \in DOMAIN changes /\ changes[Len(changes)] = Current
  BY <1>1, <1>5, TopStack
<1>7. \A dir \in Directions : s.late[dir] # None => s.late[dir] = late[dir] /\ late[dir] # d
  BY <1>2, <1>3, DirectionType DEF LateFree
<1>8. LateFree(s)
  <2>1. ASSUME NEW dir \in Directions, s.late[dir] # None
        PROVE  /\ s.late[dir] \in s.live /\ Direction(s.late[dir]) = dir
               /\ s.byptr[s.late[dir]] = None \/ OwnNode(s, s.late[dir])
    <3> DEFINE e == s.late[dir]
    <3>1. e = late[dir] /\ e # d /\ e # None
      BY <2>1, <1>7
    <3>2. /\ e \in live /\ Direction(e) = dir
          /\ byptr[e] = None \/ (CardOf[e] \in Alsa /\ byptr[e] = <<e, port[e], None>>)
      <4> HIDE DEF e
      <4> QED
        BY <3>1, <1>2 DEF LateFree, OwnNode
    <3> HIDE DEF e
    <3>3. s.byptr[e] = byptr[e] /\ s.port[e] = port[e]
      BY <3>1, <3>2, <1>2, <1>3
    <3>4. s.byptr[e] = None \/ OwnNode(s, e)
      BY <3>2, <3>3 DEF OwnNode
    <3> QED
      BY <3>1, <3>2, <3>4, <1>3 DEF e
  <2> QED
    BY <2>1 DEF LateFree
<1>9. CardsOK(s, plugged, active)
  <2>1. ASSUME NEW c \in Bluetooth \cap plugged, NEW k \in KeysOf[c]
        PROVE  s.nodes[k] # None
    <3>1. k \in Key
      BY KeyOfCard DEF Card
    <3> QED
      BY <3>1, <1>3 DEF IInv, Fits, SameNodes
  <2> QED
    BY <2>1, <1>2, <1>3 DEF IInv, Fits, CardsOK, SameNodes
<1>20. ~Current.changed /\ CardOf[d] = Current.card
  <2>1. Current.left \subseteq DevsOn(Current.card) /\ (Current.changed => Current.left = {})
    BY <1>4 DEF ChangeOK
  <2> QED
    BY <2>1, <1>1, <1>4, DevOfCard
<1>10. \A i \in DOMAIN Rest : ChangeOK(s, plugged, active, Rest[i])
  <2>1. ASSUME NEW i \in DOMAIN Rest
        PROVE  ChangeOK(s, plugged, active, Rest[i])
    <3> DEFINE y == Rest[i]
    <3>1. y \in CardChange /\ ChangeOK(Nodes, plugged, active, y) /\ y.card # Current.card
      BY <1>4
    <3>2. SameNodes(Nodes, s) /\ s.live \subseteq Nodes.live
      BY <1>2, <1>3
    <3> HIDE DEF y
    <3>3. \A e \in Nodes.live : CardOf[e] = y.card => e \in s.live
      BY <3>1, <1>2, <1>3, <1>20
    <3>4. ChangeOK(s, plugged, active, y)
      BY <3>1, <3>2, <3>3, ChangeFits
    <3> QED
      BY <3>4 DEF y
  <2> QED
    BY <2>1
<1>11. ChangeOK(s, plugged, active, x)
  <2>1. ChangeOK(s, plugged, active, Current)
    <3>1. SameNodes(Nodes, s) /\ s.live \subseteq Nodes.live
      BY <1>2, <1>3
    <3> QED
      BY <3>1, <1>4, <1>20, ChangeFits
  <2>2. /\ Current.kind = "plug" => /\ active[Current.card] = Current.to
                                    /\ Current.card \in Alsa =>
                                         \A k \in AlsaKeys(Current.card, Current.to) : s.nodes[k] # None
        /\ Current.card \in plugged /\ Current.to \in ProfilesOf(Current.card)
        /\ Current.left \subseteq DevsOn(Current.card)
        /\ Current.kind = "route" => Current.card \in Bluetooth
        /\ Current.kind = "unplug" => Current.to = Off
        /\ Current.changed => /\ Current.kind \in {"change", "route"} /\ Current.left = {}
                              /\ active[Current.card] = Current.to
        /\ \A e \in s.live : CardOf[e] = Current.card =>
             e \in Current.left \/ e \in DevsOf[Current.card][Current.to]
    BY <2>1 DEF ChangeOK
  <2>3. x.changed => x.left = {}
    BY <2>2, <1>5
  <2>4. \A e \in s.live : CardOf[e] = x.card => e \in x.left \/ e \in DevsOf[x.card][x.to]
    BY <2>2, <1>3, <1>5
  <2>5. x.card \in plugged /\ x.to \in ProfilesOf(x.card) /\ x.left \subseteq DevsOn(x.card)
    BY <2>2, <1>5
  <2>6. ~x.changed
    BY <1>1, <2>2, <1>5
  <2>7. /\ x.kind = "plug" => /\ active[x.card] = x.to
                              /\ x.card \in Alsa => \A k \in AlsaKeys(x.card, x.to) : s.nodes[k] # None
        /\ x.kind = "route" => x.card \in Bluetooth
        /\ x.kind = "unplug" => x.to = Off
    BY <2>2, <1>5
  <2> QED
    BY <2>3, <2>4, <2>5, <2>6, <2>7 DEF ChangeOK
<1>12. LateAlsa(s, ch)
  <2>1. ch[1].kind = changes[1].kind /\ ch[1].changed = changes[1].changed
    BY <1>5, <1>6
  <2>2. LateAlsa(Nodes, changes)
    BY DEF IInv, Fits
  <2> HIDE DEF ch
  <2> QED
    BY <2>1, <2>2, <1>2, <1>6, <1>7 DEF LateAlsa
<1>13. Fits(s, plugged, active, ch)
  BY <1>1, <1>5, <1>9, <1>10, <1>11, <1>12, TopFits
<1>14. Nodes' = s
  BY <1>1, <1>3, NodesBecome
<1>15. IInv'
  <2>1. Sound(Nodes') /\ Fits(Nodes', plugged', active', changes')
    BY <1>1, <1>3, <1>8, <1>13, <1>14 DEF Sound
  <2>2. Available3'
    BY <1>1, InvParts DEF Available3
  <2> QED
    BY <2>1, <2>2, InvNext
<1>16. ProfileInv => ProfileInv'
  <2>1. ProfileInv => ProfileNodes(s, plugged, active, ch)
    BY <1>1, <1>3, <1>5, TopProfile
  <2> QED
    BY <1>1, <1>14, <2>1 DEF ProfileInv
<1>17. ComeInv => ComeInv'
  <2>1. ASSUME ComeInv, NEW i \in DOMAIN ch, ch[i].kind \in {"plug", "route"},
               NEW e \in s.live \ ch[i].left, CardOf[e] = ch[i].card, HasKey(e)
        PROVE  s.byptr[e] # None /\ (ch[i].card \in Bluetooth => s.byptr[e][3] = ch[i].to)
    <3>1. e \in live /\ e # d /\ e \in Dev /\ s.byptr[e] = byptr[e]
      BY <1>2, <1>3
    <3>2. /\ i \in DOMAIN changes /\ ch[i].kind = changes[i].kind /\ ch[i].card = changes[i].card
          /\ ch[i].to = changes[i].to /\ changes[i].left \subseteq ch[i].left \cup {d}
      <4> HIDE DEF ch
      <4> QED
        BY <1>5, <1>6
    <3>3. byptr[e] # None /\ (changes[i].card \in Bluetooth => byptr[e][3] = changes[i].to)
      BY <2>1, <3>1, <3>2, <1>2 DEF ComeInv, ComeLinked
    <3> QED
      BY <3>1, <3>2, <3>3
  <2>2. ComeInv => ComeLinked(s, ch)
    BY <2>1 DEF ComeLinked
  <2> QED
    BY <1>1, <1>14, <2>2 DEF ComeInv
<1> QED
  BY <1>15, <1>16, <1>17

(* PulseAudio gives every sink and source of a bluetooth card a port.      *)
BluetoothPorts ==
  \A c \in Bluetooth : \A p \in ProfilesOf(c) : \A d \in DevsOf[c][p] : PortsFor[d][p] # {}

LEMMA KeyThere ==
  ASSUME NEW c \in Card, NEW p \in ProfilesOf(c), NEW d \in DevsOf[c][p], NEW q,
         q \in IF PortsFor[d][p] = {} THEN {None} ELSE PortsFor[d][p]
  PROVE  /\ q \in Port \cup {None}
         /\ c \in Alsa /\ HasKey(d) => <<d, q, None>> \in AlsaKeys(c, p)
         /\ c \in Bluetooth /\ BluetoothPorts => <<d, q, p>> \in KeysOf[c]
<1>1. d \in Dev /\ CardOf[d] = c
  BY DevOfProfile
<1>2. PortsFor[d][p] \subseteq Port
  <2>1. PortsOf[c][p] \subseteq Port
    BY CardsConfig DEF CardsConfig
  <2>2. PortsFor[d][p] \subseteq PortsOf[c][p]
    BY <1>1 DEF PortsFor
  <2> QED
    BY <2>1, <2>2
<1>3. ASSUME c \in Alsa, HasKey(d)
      PROVE  <<d, q, None>> \in AlsaKeys(c, p)
  <2>1. d \in Considered(c, p)
    BY <1>3, Narrow DEF Considered
  <2>2. CASE PortsFor[d][p] = {}
    BY <2>1, <2>2 DEF AlsaKeys
  <2>3. CASE PortsFor[d][p] # {}
    BY <2>1, <2>3 DEF AlsaKeys
  <2> QED
    BY <2>2, <2>3
<1>4. c \in Bluetooth /\ BluetoothPorts => <<d, q, p>> \in KeysOf[c]
  <2>1. ASSUME c \in Bluetooth, BluetoothPorts
        PROVE  <<d, q, p>> \in BluetoothKeys(c)
    <3>1. q \in PortsFor[d][p]
      BY <2>1 DEF BluetoothPorts
    <3> QED
      BY <3>1 DEF BluetoothKeys
  <2>2. c \in Bluetooth => KeysOf[c] = BluetoothKeys(c)
    BY NotBoth DEF KeysOf
  <2> QED
    BY <2>1, <2>2
<1> QED
  BY <1>2, <1>3, <1>4

LEMMA DeviceComesKeeps ==
  ASSUME IInv, NEW d \in Dev, DeviceComes(d)
  PROVE  IInv' /\ (ProfileInv => ProfileInv') /\ (ComeInv /\ BluetoothPorts => ComeInv')
<1> DEFINE c == Current.card
           to == Current.to
           p == active[c]
           held == StateProfile
<1>1. /\ ~Idle /\ Current.left = {} /\ ~Current.changed /\ d \in DevsOf[c][to] /\ d \notin live
      /\ plugged' = plugged /\ active' = active /\ avail' = avail
  BY DEF DeviceComes
<1>2. PICK q \in IF PortsFor[d][to] = {} THEN {None} ELSE PortsFor[d][to] :
        LET s == [Nodes EXCEPT !.live = @ \cup {d}, !.port[d] = q]
        IN  PassIf(Routes(s, d, p, held), AddDevice(s, d, p, held), changes)
  BY DEF DeviceComes
<1> DEFINE s == [Nodes EXCEPT !.live = @ \cup {d}, !.port[d] = q]
           r == AddDevice(s, d, p, held)
           k == NodeKey(d, p, held, s.port[d])
           needed == Routes(s, d, p, held)
<1>3. PassIf(needed, r, changes)
  BY <1>2
<1>4. /\ Current \in CardChange /\ ChangeOK(Nodes, plugged, active, Current)
      /\ c \in Card /\ Len(changes) \in {1, 2} /\ Current = changes[Len(changes)]
      /\ DOMAIN Rest = 1 .. Len(changes) - 1
      /\ \A i \in DOMAIN Rest : /\ Rest[i] \in CardChange /\ ChangeOK(Nodes, plugged, active, Rest[i])
                                /\ Rest[i].card # c /\ Rest[i] = changes[i]
                                /\ Rest[i].kind # "route" /\ Current.kind = "route"
  BY <1>1, WhenChanging
<1>5. /\ c \in plugged /\ to \in ProfilesOf(c) /\ Current.kind \in {"plug", "unplug", "change", "route"}
      /\ Current.kind = "route" => c \in Bluetooth
      /\ Current.kind = "unplug" => to = Off
      /\ Current.kind = "plug" => p = to
      /\ Current.kind = "plug" /\ c \in Alsa => \A l \in AlsaKeys(c, to) : Nodes.nodes[l] # None
  BY <1>4 DEF ChangeOK, CardChange
<1>6. Current.kind # "unplug"
  BY <1>1, <1>4, <1>5, CardsConfig DEF CardsConfig
<1>7. /\ Current.kind = "route" => held = to
      /\ Current.kind # "route" => held = None
  BY <1>1, Held
<1> HIDE DEF c, to, p, held
<1>8. d \in Dev /\ CardOf[d] = c
  BY <1>1, <1>4, <1>5, DevOfProfile
<1>9. /\ q \in Port \cup {None}
      /\ c \in Alsa /\ HasKey(d) => <<d, q, None>> \in AlsaKeys(c, to)
      /\ c \in Bluetooth /\ BluetoothPorts => <<d, q, to>> \in KeysOf[c]
  BY <1>1, <1>2, <1>4, <1>5, KeyThere
<1>10. /\ Nodes \in State /\ Linked(Nodes) /\ LateFree(Nodes) /\ Nodes.nodes = nodes
       /\ Nodes.byptr = byptr /\ Nodes.live = live /\ Nodes.port = port /\ Nodes.late = late
       /\ late \in [Directions -> Dev \cup {None}] /\ live \subseteq Dev
       /\ port \in [Dev -> Port \cup {None}]
       /\ changes \in Seq(CardChange) /\ DOMAIN changes = 1 .. Len(changes)
       /\ \A i \in DOMAIN changes : changes[i] \in CardChange /\ ChangeOK(Nodes, plugged, active, changes[i])
  BY InvParts
<1>11. /\ s \in State /\ s.nodes = nodes /\ s.byptr = byptr /\ s.late = late
       /\ s.live = live \cup {d} /\ s.port = [port EXCEPT ![d] = q]
  BY <1>8, <1>9, <1>10 DEF State
<1> HIDE DEF s
<1>12. Linked(s)
  BY <1>10, <1>11 DEF Linked
<1>13. byptr[d] = None /\ s.port[d] = q
  BY <1>1, <1>8, <1>10, <1>11 DEF Linked
<1>14. \A dir \in Directions : late[dir] # None => late[dir] # d /\ late[dir] \in live
  BY <1>1, <1>10 DEF LateFree
<1>15. LateFree(s)
  <2>1. ASSUME NEW dir \in Directions, s.late[dir] # None
        PROVE  /\ s.late[dir] \in s.live /\ Direction(s.late[dir]) = dir
               /\ s.byptr[s.late[dir]] = None \/ OwnNode(s, s.late[dir])
    <3> DEFINE e == s.late[dir]
    <3>1. e = late[dir] /\ e # d /\ e \in live /\ e \in Dev
      BY <2>1, <1>10, <1>11, <1>14
    <3>2. Direction(e) = dir /\ (byptr[e] = None \/ (CardOf[e] \in Alsa /\ byptr[e] = <<e, port[e], None>>))
      BY <2>1, <1>10, <1>11 DEF LateFree, OwnNode
    <3> HIDE DEF e
    <3>3. s.port[e] = port[e]
      BY <3>1, <1>10, <1>11
    <3>4. s.byptr[e] = None \/ OwnNode(s, e)
      BY <3>2, <3>3, <1>11 DEF OwnNode
    <3> QED
      BY <3>1, <3>2, <3>4, <1>11 DEF e
  <2> QED
    BY <2>1 DEF LateFree
<1>16. /\ r \in State /\ Linked(r) /\ r.live = s.live /\ r.port = s.port /\ SameNodes(s, r)
       /\ \A e \in Dev \ {d} : r.byptr[e] = s.byptr[e]
       /\ Found(s, k) => r.late = s.late /\ r.byptr[d] = k
       /\ ~Found(s, k) => /\ r.byptr = s.byptr
                          /\ r.late = IF held # None THEN s.late ELSE [s.late EXCEPT ![Direction(d)] = d]
  <2>1. d \in s.live /\ s.byptr[d] = None
    BY <1>11, <1>13
  <2> HIDE DEF k, r
  <2>2. Added(s, AddDevice(s, d, p, held), d, NodeKey(d, p, held, s.port[d]), held)
    BY <2>1, <1>8, <1>11, <1>12, AddDoes
  <2>3. Added(s, r, d, k, held)
    BY <2>2 DEF k, r
  <2> QED
    BY <2>3 DEF Added
<1> HIDE DEF r, needed
<1>17. k = IF c \in Alsa THEN <<d, q, None>> ELSE <<d, q, IF held = None THEN p ELSE held>>
  BY <1>8, <1>13 DEF NodeKey
<1> HIDE DEF k
<1>18. ASSUME NEW dir \in Directions, r.late[dir] # None
       PROVE  \/ r.late[dir] = late[dir]
              \/ /\ r.late[dir] = d /\ dir = Direction(d) /\ held = None /\ ~Found(s, k)
                 /\ r.byptr[d] = None
  <2>1. CASE Found(s, k) \/ held # None
    <3>1. r.late = late
      BY <2>1, <1>11, <1>16
    <3> QED
      BY <3>1
  <2>2. CASE ~Found(s, k) /\ held = None
    <3>1. r.late = [late EXCEPT ![Direction(d)] = d] /\ r.byptr[d] = None
      BY <2>2, <1>11, <1>13, <1>16
    <3> QED
      BY <2>2, <3>1, <1>10, <1>18, DirectionType
  <2> QED
    BY <2>1, <2>2
<1>19. LateFree(r)
  <2>1. ASSUME NEW dir \in Directions, r.late[dir] # None
        PROVE  /\ r.late[dir] \in r.live /\ Direction(r.late[dir]) = dir
               /\ r.byptr[r.late[dir]] = None \/ OwnNode(r, r.late[dir])
    <3>1. CASE r.late[dir] = late[dir]
      <4> DEFINE e == late[dir]
      <4>1. e # d /\ e \in live /\ e \in Dev /\ Direction(e) = dir
            /\ (s.byptr[e] = None \/ (CardOf[e] \in Alsa /\ s.byptr[e] = <<e, s.port[e], None>>))
        BY <2>1, <3>1, <1>10, <1>11, <1>14, <1>15 DEF LateFree, OwnNode
      <4> HIDE DEF e
      <4>2. r.byptr[e] = s.byptr[e] /\ r.port[e] = s.port[e] /\ e \in r.live
        BY <4>1, <1>11, <1>16
      <4>3. r.byptr[e] = None \/ OwnNode(r, e)
        BY <4>1, <4>2 DEF OwnNode
      <4> QED
        BY <3>1, <4>1, <4>2, <4>3 DEF e
    <3>2. CASE r.late[dir] # late[dir]
      BY <2>1, <3>2, <1>11, <1>16, <1>18
    <3> QED
      BY <3>1, <3>2
  <2> QED
    BY <2>1 DEF LateFree
<1>20. SameNodes(Nodes, r)
  BY <1>10, <1>11, <1>16 DEF SameNodes
<1>21. \A i \in DOMAIN changes : ChangeOK(r, plugged, active, changes[i])
  <2>1. ASSUME NEW i \in DOMAIN changes
        PROVE  ChangeOK(r, plugged, active, changes[i])
    <3> DEFINE x == changes[i]
               t == [r EXCEPT !.live = live]
    <3>1. t.nodes = r.nodes /\ t.live = live
      BY <1>16 DEF State
    <3>2. x \in CardChange /\ ChangeOK(Nodes, plugged, active, x)
      BY <1>10
    <3> HIDE DEF x, t
    <3>3. SameNodes(Nodes, t)
      BY <3>1, <1>20 DEF SameNodes
    <3>4. ChangeOK(t, plugged, active, x)
      BY <3>1, <3>2, <3>3, <1>10, ChangeFits
    <3>5. CardOf[d] = x.card => d \in DevsOf[x.card][x.to]
      <4>1. CASE i = Len(changes)
        <5>1. x = Current
          BY <4>1, <1>4 DEF x
        <5> QED
          BY <5>1, <1>1, <1>4 DEF c, to
      <4>2. CASE i # Len(changes)
        <5>1. i \in DOMAIN Rest /\ x = Rest[i]
          BY <2>1, <4>2, <1>4, <1>10 DEF x
        <5> QED
          BY <5>1, <1>4, <1>8
      <4> QED
        BY <4>1, <4>2
    <3>6. ChangeOK(r, plugged, active, x)
      BY <3>1, <3>4, <3>5, <1>11, <1>16 DEF ChangeOK
    <3> QED
      BY <3>6 DEF x
  <2> QED
    BY <2>1
<1>22. LateAlsa(r, changes)
  <2>1. LateAlsa(Nodes, changes)
    BY DEF IInv, Fits
  <2>2. ASSUME NEW dir \in Directions, r.late[dir] # None, OfAlsa(r.late[dir])
        PROVE  /\ changes # <<>> /\ changes[1].kind = "change"
               /\ dir = "sink" => ~changes[1].changed
    <3>1. CASE r.late[dir] = late[dir]
      BY <2>1, <2>2, <3>1, <1>10 DEF LateAlsa
    <3>2. CASE r.late[dir] # late[dir]
      <4>1. r.late[dir] = d /\ held = None /\ ~Found(s, k)
        BY <2>2, <3>2, <1>18
      <4>2. c \in Alsa /\ HasKey(d) /\ Current.kind # "route"
        BY <2>2, <4>1, <1>4, <1>5, <1>8, NotBoth DEF OfAlsa
      <4>3. Current.kind # "plug"
        <5>1. SUFFICES ASSUME Current.kind = "plug"
                       PROVE  FALSE
          OBVIOUS
        <5>2. k \in AlsaKeys(c, to) /\ k \in Key
          BY <4>2, <1>4, <1>5, <1>9, <1>17, AlsaKeyKnown, KeyOfCard
        <5>3. Nodes.nodes[k] # None
          BY <5>1, <5>2, <4>2, <1>5
        <5> QED
          BY <5>2, <5>3, <4>1, <1>10, <1>11 DEF Found
      <4>4. Current.kind = "change"
        BY <4>2, <4>3, <1>5, <1>6
      <4>5. Len(changes) # 2
        <5>1. DOMAIN Rest = 1 .. Len(changes) - 1 /\ \A i \in DOMAIN Rest : Current.kind = "route"
          BY <1>4
        <5>2. Len(changes) = 2 => 1 \in DOMAIN Rest
          BY <5>1
        <5> QED
          BY <5>1, <5>2, <4>2
      <4>6. Len(changes) = 1 /\ changes[1] = Current
        BY <4>5, <1>4
      <4>7. changes # <<>>
        BY <1>1 DEF Idle
      <4> QED
        BY <4>4, <4>6, <4>7, <1>1
    <3> QED
      BY <3>1, <3>2
  <2> QED
    BY <2>2 DEF LateAlsa
<1>23. Fits(r, plugged, active, changes)
  <2>1. ASSUME NEW b \in Bluetooth \cap plugged, NEW l \in KeysOf[b]
        PROVE  r.nodes[l] # None
    <3>1. l \in Key
      BY KeyOfCard DEF Card
    <3> QED
      BY <3>1, <1>20 DEF IInv, Fits, SameNodes
  <2>2. \A e \in r.live : CardOf[e] \in plugged
    BY <1>5, <1>8, <1>10, <1>11, <1>16 DEF IInv, Fits
  <2>3. \A l \in Key : r.nodes[l] # None => CardOf[l[1]] \in plugged
    BY <1>20 DEF IInv, Fits, SameNodes
  <2> QED
    BY <2>1, <2>2, <2>3, <1>21, <1>22 DEF IInv, Fits
<1>24. held = None => \A i \in DOMAIN changes : changes[i].kind # "route"
  <2>1. ASSUME held = None, NEW i \in DOMAIN changes
        PROVE  changes[i].kind # "route"
    <3>1. Current.kind # "route"
      <4>1. to \in Profile
        BY <1>4, <1>5 DEF Profile
      <4> QED
        BY <2>1, <4>1, <1>7, NoneConfig DEF NoneConfig
    <3>2. CASE i = Len(changes)
      BY <3>1, <3>2, <1>4
    <3>3. CASE i # Len(changes)
      BY <2>1, <3>3, <1>4, <1>10
    <3> QED
      BY <3>2, <3>3
  <2> QED
    BY <2>1
<1>25. Passed(r, Nodes', changes, changes')
  BY <1>3, <1>16, <1>24, PassIfDoes DEF held
<1>26. Sound(Nodes') /\ Fits(Nodes', plugged, active, changes')
  BY <1>16, <1>19, <1>23, <1>25, PassedFits DEF Sound
<1>27. IInv'
  <2>1. Available3'
    BY <1>1, InvParts DEF Available3
  <2> QED
    BY <2>1, <1>1, <1>26, InvNext
<1>28. ProfileInv => ProfileInv'
  <2>1. ASSUME ProfileInv
        PROVE  ProfileNodes(r, plugged, active, changes)
    <3>1. \A b \in Alsa \cap plugged : \A l \in KeysOf[b] : l \in Key
      BY KeyOfCard DEF Card
    <3> QED
      BY <2>1, <3>1, <1>20 DEF ProfileInv, ProfileNodes, SameNodes
  <2>2. ProfileInv => ProfileNodes(Nodes', plugged, active, changes')
    BY <2>1, <1>10, <1>25, PassedProfile
  <2> QED
    BY <1>1, <2>2 DEF ProfileInv
<1>29. ComeInv /\ BluetoothPorts => ComeInv'
  <2>1. ASSUME ComeInv, BluetoothPorts, NEW i \in DOMAIN changes, changes[i].kind \in {"plug", "route"},
               NEW e \in r.live \ changes[i].left, CardOf[e] = changes[i].card, HasKey(e)
        PROVE  r.byptr[e] # None /\ (changes[i].card \in Bluetooth => r.byptr[e][3] = changes[i].to)
    <3>1. CASE e = d
      <4>1. i = Len(changes)
        BY <2>1, <3>1, <1>4, <1>8, <1>10
      <4>2. changes[i] = Current /\ Current.kind \in {"plug", "route"}
        BY <2>1, <4>1, <1>4
      <4>3. k = IF c \in Alsa THEN <<d, q, None>> ELSE <<d, q, to>>
        <5>1. to # None
          BY <1>4, <1>5, NoneConfig DEF NoneConfig, Profile
        <5> QED
          BY <4>2, <5>1, <1>5, <1>7, <1>17
      <4>4. k \in Key /\ Nodes.nodes[k] # None
        <5>1. CASE c \in Alsa
          <6>1. k \in AlsaKeys(c, to) /\ k \in Key
            BY <2>1, <3>1, <4>3, <5>1, <1>4, <1>5, <1>9, AlsaKeyKnown, KeyOfCard
          <6>2. Current.kind = "plug"
            BY <4>2, <5>1, <1>5, NotBoth, <1>4
          <6> QED
            BY <5>1, <6>1, <6>2, <1>5
        <5>2. CASE c \notin Alsa
          <6>1. c \in Bluetooth /\ k \in KeysOf[c] /\ k \in Key
            BY <2>1, <4>3, <5>2, <1>4, <1>9, NotBoth, KeyOfCard
          <6> QED
            BY <6>1, <1>5 DEF IInv, Fits
        <5> QED
          BY <5>1, <5>2
      <4>5. r.byptr[d] = k /\ k # None
        <5>1. Found(s, k)
          BY <4>4, <1>10, <1>11 DEF Found
        <5> QED
          BY <4>4, <5>1, <1>16, KeyForm
      <4>6. c \in Bluetooth => k[3] = to
        BY <4>3, <1>4, NotBoth
      <4> QED
        BY <3>1, <4>2, <4>5, <4>6 DEF c, to
    <3>2. CASE e # d
      <4>1. e \in live /\ e \in Dev /\ r.byptr[e] = byptr[e]
        BY <2>1, <3>2, <1>10, <1>11, <1>16
      <4>2. byptr[e] # None /\ (changes[i].card \in Bluetooth => byptr[e][3] = changes[i].to)
        BY <2>1, <4>1, <1>10 DEF ComeInv, ComeLinked
      <4> QED
        BY <4>1, <4>2
    <3> QED
      BY <3>1, <3>2
  <2>2. ComeInv /\ BluetoothPorts => ComeLinked(r, changes)
    BY <2>1 DEF ComeLinked
  <2>3. r.live \subseteq Dev
    BY <1>16, StateFields
  <2>4. ComeInv /\ BluetoothPorts => ComeLinked(Nodes', changes')
    BY <2>2, <2>3, <1>10, <1>25, PassedCome
  <2> QED
    BY <2>4 DEF ComeInv
<1> QED
  BY <1>27, <1>28, <1>29

LEMMA RestStack ==
  ASSUME IInv, ~Idle
  PROVE  /\ StackOK(Rest) /\ Rest \in Seq(CardChange)
         /\ Current.kind # "route" => Rest = <<>> /\ DOMAIN Rest = {} /\ Len(changes) = 1
         /\ \A i \in DOMAIN Rest : Rest[i].kind # "route"
         /\ \A i \in DOMAIN changes : i \in DOMAIN Rest \/ changes[i] = Current
         /\ \A i \in DOMAIN Rest : i = 1 /\ i \in DOMAIN changes /\ Rest[i] = changes[i]
         /\ Len(changes) \in DOMAIN changes /\ changes[Len(changes)] = Current
         /\ Rest = <<>> => changes[1] = Current
<1>1. /\ Len(changes) \in {1, 2} /\ Current = changes[Len(changes)]
      /\ Rest \in Seq(CardChange) /\ Len(Rest) = Len(changes) - 1
      /\ DOMAIN Rest = 1 .. Len(changes) - 1
      /\ \A i \in DOMAIN Rest : i = 1 /\ Rest[i] = changes[i] /\ Rest[i].kind # "route" /\ Current.kind = "route"
  BY WhenChanging
<1>2. DOMAIN changes = 1 .. Len(changes)
  BY InvParts
<1>3. StackOK(Rest)
  BY <1>1 DEF StackOK
<1>4. Current.kind # "route" => Rest = <<>> /\ DOMAIN Rest = {} /\ Len(changes) = 1
  <2>1. ASSUME Current.kind # "route"
        PROVE  Rest = <<>> /\ DOMAIN Rest = {} /\ Len(changes) = 1
    <3>1. Len(changes) = 2 => 1 \in DOMAIN Rest
      BY <1>1
    <3>2. Len(changes) = 1
      BY <2>1, <3>1, <1>1
    <3>3. Len(Rest) = 0 /\ DOMAIN Rest = {}
      BY <3>2, <1>1
    <3> QED
      BY <3>2, <3>3, <1>1, EmptySeq
  <2> QED
    BY <2>1
<1>5. Rest = <<>> => changes[1] = Current
  <2>1. Rest = <<>> => Len(Rest) = 0
    BY <1>1, EmptySeq
  <2> QED
    BY <2>1, <1>1
<1> QED
  BY <1>1, <1>2, <1>3, <1>4, <1>5

LEMMA PlugDoneKeeps ==
  ASSUME IInv, PlugDone
  PROVE  IInv' /\ (ProfileInv => ProfileInv') /\ ComeInv'
<1>1. /\ ~Idle /\ Current.kind = "plug" /\ changes' = Rest
      /\ plugged' = plugged /\ active' = active /\ avail' = avail
  BY DEF PlugDone, Moved
<1>2. Nodes' = Nodes
  BY SameNodesKept DEF PlugDone
<1>3. Rest = <<>> /\ DOMAIN Rest = {} /\ changes[1] = Current
      /\ \A i \in DOMAIN changes : changes[i] = Current
  BY <1>1, RestStack
<1>4. Fits(Nodes, plugged, active, <<>>)
  <2>1. Fits(Nodes, plugged, active, changes)
    BY DEF IInv
  <2>2. LateAlsa(Nodes, <<>>)
    BY <2>1, <1>1, <1>3 DEF Fits, LateAlsa
  <2> QED
    BY <2>1, <2>2, NoChange DEF Fits
<1>5. IInv'
  <2>1. Sound(Nodes') /\ Fits(Nodes', plugged', active', changes')
    BY <1>1, <1>2, <1>3, <1>4 DEF IInv
  <2>2. Available3'
    BY <1>1, InvParts DEF Available3
  <2> QED
    BY <2>1, <2>2, InvNext
<1>6. ProfileInv => ProfileInv'
  <2>1. ProfileInv => ProfileNodes(Nodes, plugged, active, <<>>)
    BY <1>1, <1>3, NoChange DEF ProfileInv, ProfileNodes
  <2> QED
    BY <1>1, <1>2, <1>3, <2>1 DEF ProfileInv
<1>7. ComeInv'
  <2>1. ComeLinked(Nodes, <<>>)
    BY NoChange DEF ComeLinked
  <2> QED
    BY <1>1, <1>2, <1>3, <2>1 DEF ComeInv
<1> QED
  BY <1>5, <1>6, <1>7

LEMMA UnplugDoneKeeps ==
  ASSUME IInv, UnplugDone
  PROVE  IInv' /\ (ProfileInv => ProfileInv') /\ ComeInv'
<1> DEFINE c == Current.card
           P == plugged \ {c}
           A == [active EXCEPT ![c] = Off]
           s == DestroyNodes(Nodes, KeysOf[c])
<1>1. /\ ~Idle /\ Current.kind = "unplug" /\ Current.left = {}
      /\ plugged' = P /\ active' = A /\ avail' = avail /\ Pass(s, Rest)
  BY DEF UnplugDone, Moved
<1>2. Rest = <<>> /\ DOMAIN Rest = {} /\ changes[1] = Current
      /\ \A i \in DOMAIN changes : changes[i] = Current
  BY <1>1, RestStack
<1>3. /\ Nodes \in State /\ Linked(Nodes) /\ LateFree(Nodes) /\ Nodes.nodes = nodes
      /\ Nodes.byptr = byptr /\ Nodes.live = live /\ Nodes.port = port /\ Nodes.late = late
      /\ live \subseteq Dev /\ plugged \subseteq Card /\ active \in [Card -> Profile]
      /\ \A e \in Card : active[e] \in ProfilesOf(e)
      /\ byptr \in [Dev -> Key \cup {None}]
  BY InvParts
<1>4. c \in Card /\ ChangeOK(Nodes, plugged, active, Current)
  BY <1>1, WhenChanging
<1>5. \A d \in live : CardOf[d] # c
  <2>1. /\ Current.to = Off
        /\ \A d \in live : CardOf[d] = c => d \in DevsOf[c][Off]
    BY <1>1, <1>3, <1>4 DEF ChangeOK
  <2>2. DevsOf[c][Off] = {}
    BY <1>4, CardsConfig DEF CardsConfig
  <2> QED
    BY <2>1, <2>2
<1> HIDE DEF c
<1>6. \A d \in Dev : Nodes.byptr[d] # None => Nodes.byptr[d] \notin KeysOf[c]
  <2>1. ASSUME NEW d \in Dev, byptr[d] # None, byptr[d] \in KeysOf[c]
        PROVE  FALSE
    <3>1. d \in live /\ byptr[d][1] = d
      BY <2>1, <1>3 DEF Linked
    <3>2. CardOf[byptr[d][1]] = c
      BY <2>1, <1>4, KeyOfCard
    <3> QED
      BY <3>1, <3>2, <1>5
  <2> QED
    BY <2>1, <1>3
<1>7. /\ s \in State /\ Linked(s) /\ s.live = live /\ s.port = port /\ s.byptr = byptr /\ s.late = late
      /\ \A k \in Key : s.nodes[k] = IF k \in KeysOf[c] THEN None ELSE nodes[k]
  <2>1. /\ s \in State /\ Linked(s) /\ s.live = Nodes.live /\ s.port = Nodes.port
        /\ s.byptr = Nodes.byptr /\ s.late = Nodes.late
        /\ \A k \in Key : s.nodes[k] = IF k \in KeysOf[c] THEN None ELSE Nodes.nodes[k]
    BY <1>3, <1>6, DestroyDoes
  <2> HIDE DEF s
  <2> QED
    BY <2>1, <1>3
<1> HIDE DEF s
<1>8. Sound(s)
  BY <1>3, <1>7 DEF Sound, LateFree, OwnNode
<1>9. /\ A \in [Card -> Profile] /\ \A e \in Card : A[e] \in ProfilesOf(e)
      /\ \A e \in Card \ {c} : A[e] = active[e]
  <2>1. Off \in ProfilesOf(c) /\ Off \in Profile
    BY <1>4, CardsConfig DEF CardsConfig, Profile
  <2> QED
    BY <2>1, <1>3, <1>4
<1>10. \A k \in Key : k \in KeysOf[c] <=> CardOf[k[1]] = c
  BY <1>4, KeyForm, KeyOfCard
<1>11. Fits(s, P, A, <<>>)
  <2>1. Fits(Nodes, plugged, active, changes)
    BY DEF IInv
  <2>2. LateAlsa(s, <<>>)
    BY <2>1, <1>1, <1>2, <1>3, <1>7 DEF Fits, LateAlsa
  <2>3. \A d \in s.live : CardOf[d] \in P
    BY <2>1, <1>3, <1>5, <1>7 DEF Fits
  <2>4. \A k \in Key : s.nodes[k] # None => CardOf[k[1]] \in P
    BY <2>1, <1>3, <1>7, <1>10 DEF Fits
  <2>5. \A b \in Bluetooth \cap P : \A k \in KeysOf[b] : s.nodes[k] # None
    <3>1. ASSUME NEW b \in Bluetooth \cap P, NEW k \in KeysOf[b]
          PROVE  s.nodes[k] # None
      <4>1. k \in Key /\ CardOf[k[1]] = b /\ b # c
        BY <1>3, KeyOfCard
      <4>2. nodes[k] # None
        BY <2>1, <1>3 DEF Fits
      <4> QED
        BY <4>1, <4>2, <1>7, <1>10
    <3> QED
      BY <3>1
  <2> HIDE DEF P, A
  <2>6. P \subseteq Card
    BY <1>3 DEF P
  <2> QED
    BY <2>2, <2>3, <2>4, <2>5, <2>6, <1>9, NoChange DEF Fits
<1>12. Passed(s, Nodes', <<>>, changes')
  <2>1. Pass(s, <<>>)
    BY <1>1, <1>2
  <2> QED
    BY <2>1, <1>7, NoChange, PassDoes
<1> HIDE DEF P, A
<1>13. IInv'
  <2>1. Sound(Nodes') /\ Fits(Nodes', P, A, changes')
    BY <1>8, <1>11, <1>12, PassedFits
  <2>2. Available3'
    BY <1>1, InvParts DEF Available3
  <2> QED
    BY <2>1, <2>2, <1>1, InvNext
<1>14. ProfileInv => ProfileInv'
  <2>1. ASSUME ProfileInv
        PROVE  ProfileNodes(s, P, A, <<>>)
    <3>1. ASSUME NEW e \in Alsa \cap P, NEW k \in KeysOf[e]
          PROVE  s.nodes[k] # None <=> k \in AlsaKeys(e, A[e])
      <4>1. e \in plugged /\ e # c /\ e \in Card
        BY <1>3 DEF P
      <4>2. k \in Key /\ CardOf[k[1]] = e
        BY <4>1, KeyOfCard
      <4>3. \A i \in DOMAIN changes : changes[i].card # e
        BY <4>1, <1>2 DEF c
      <4>4. nodes[k] # None <=> k \in AlsaKeys(e, active[e])
        BY <2>1, <4>1, <4>3, <1>3 DEF ProfileInv, ProfileNodes
      <4> QED
        BY <4>1, <4>2, <4>4, <1>7, <1>9, <1>10
    <3> QED
      BY <3>1, NoChange DEF ProfileNodes
  <2>2. ProfileInv => ProfileNodes(Nodes', P, A, changes')
    BY <2>1, <1>12, NoChange, PassedProfile
  <2> QED
    BY <1>1, <2>2 DEF ProfileInv
<1>15. ComeInv'
  <2>1. ComeLinked(s, <<>>)
    BY NoChange DEF ComeLinked
  <2>2. ComeLinked(Nodes', changes')
    BY <2>1, <1>3, <1>7, <1>12, NoChange, PassedCome
  <2> QED
    BY <2>2 DEF ComeInv
<1> QED
  BY <1>13, <1>14, <1>15

(* What was kept for later is added.                                       *)
Later(dir, p, held) ==
  [IF late[dir] = None THEN Nodes ELSE AddDevice(Nodes, late[dir], p, held) EXCEPT !.late[dir] = None]

LEMMA LaterDoes ==
  ASSUME IInv, NEW dir \in Directions, NEW p, NEW held
  PROVE  LET s == Later(dir, p, held)
         IN  /\ s \in State /\ Linked(s) /\ LateFree(s) /\ SameNodes(Nodes, s)
             /\ s.live = live /\ s.late = [late EXCEPT ![dir] = None]
             /\ \A e \in Dev : byptr[e] # None =>
                  s.byptr[e] # None /\ (CardOf[e] \in Bluetooth => s.byptr[e] = byptr[e])
<1> DEFINE d == late[dir]
           t == IF d = None THEN Nodes ELSE AddDevice(Nodes, d, p, held)
           s == Later(dir, p, held)
           k == NodeKey(d, p, held, Nodes.port[d])
<1>1. /\ Nodes \in State /\ Linked(Nodes) /\ LateFree(Nodes) /\ Nodes.nodes = nodes
      /\ Nodes.byptr = byptr /\ Nodes.live = live /\ Nodes.port = port /\ Nodes.late = late
      /\ live \subseteq Dev /\ late \in [Directions -> Dev \cup {None}]
      /\ byptr \in [Dev -> Key \cup {None}]
  BY InvParts
<1>2. ASSUME d # None
      PROVE  /\ d \in live /\ d \in Dev /\ Direction(d) = dir
             /\ byptr[d] = None \/ OwnNode(Nodes, d)
             /\ byptr[d] = None \/ (byptr[d] = k /\ Found(Nodes, k))
  <2>1. /\ d \in live /\ d \in Dev /\ Direction(d) = dir
        /\ byptr[d] = None \/ OwnNode(Nodes, d)
    BY <1>1, <1>2 DEF LateFree
  <2> HIDE DEF d
  <2>2. OwnNode(Nodes, d) => byptr[d] = k
    BY <1>1 DEF OwnNode, NodeKey
  <2>3. byptr[d] # None => byptr[d] \in Key /\ nodes[byptr[d]] # None
    BY <2>1, <1>1 DEF Linked
  <2> QED
    BY <2>1, <2>2, <2>3, <1>1 DEF Found
<1>3. d # None => Added(Nodes, AddDevice(Nodes, d, p, held), d, k, held)
  <2>1. ASSUME d # None
        PROVE  Added(Nodes, AddDevice(Nodes, d, p, held), d, k, held)
    <3>1. d \in Dev /\ d \in Nodes.live /\ (Nodes.byptr[d] = None \/ Nodes.byptr[d] = k)
      BY <2>1, <1>1, <1>2
    <3> HIDE DEF d
    <3> QED
      BY <3>1, <1>1, AddDoes
  <2> QED
    BY <2>1
<1>4. s = [t EXCEPT !.late[dir] = None]
  BY DEF Later
<1> HIDE DEF d, k, s
<1>5. /\ t \in State /\ Linked(t) /\ t.live = live /\ t.port = port /\ SameNodes(Nodes, t)
      /\ \A e \in Dev : e # d => t.byptr[e] = byptr[e]
      /\ \A x \in Directions : x # dir => t.late[x] = late[x]
      /\ d # None => t.byptr[d] = byptr[d] \/ t.byptr[d] = k
      /\ d # None /\ byptr[d] # None => t.byptr[d] = byptr[d]
  <2>1. CASE d = None
    BY <2>1, <1>1, SameSelf
  <2>2. CASE d # None
    <3>1. t = AddDevice(Nodes, d, p, held)
      BY <2>2
    <3> HIDE DEF t
    <3>2. Added(Nodes, t, d, k, held)
      BY <2>2, <3>1, <1>3
    <3>3. /\ t \in State /\ Linked(t) /\ t.live = live /\ t.port = port /\ SameNodes(Nodes, t)
          /\ \A e \in Dev : e # d => t.byptr[e] = byptr[e]
          /\ Found(Nodes, k) => t.late = late /\ t.byptr[d] = k
          /\ ~Found(Nodes, k) => /\ t.byptr = byptr
                                 /\ t.late = IF held # None THEN late ELSE [late EXCEPT ![dir] = d]
      BY <2>2, <3>2, <1>1, <1>2 DEF Added
    <3>4. \A x \in Directions : x # dir => t.late[x] = late[x]
      BY <3>3, <1>1
    <3>5. t.byptr[d] = byptr[d] \/ t.byptr[d] = k
      BY <3>3
    <3>6. byptr[d] # None => t.byptr[d] = byptr[d]
      BY <2>2, <3>3, <1>2
    <3> QED
      BY <3>3, <3>4, <3>5, <3>6
  <2> QED
    BY <2>1, <2>2
<1> HIDE DEF t
<1>6. /\ s.nodes = t.nodes /\ s.byptr = t.byptr /\ s.live = live /\ s.port = port
      /\ s.late = [t.late EXCEPT ![dir] = None] /\ s \in State
  BY <1>4, <1>5 DEF State
<1>7. s.late = [late EXCEPT ![dir] = None]
  <2>1. t.late \in [Directions -> Dev \cup {None}]
    BY <1>5, StateFields
  <2> QED
    BY <2>1, <1>1, <1>5, <1>6
<1>8. Linked(s) /\ SameNodes(Nodes, s)
  BY <1>1, <1>5, <1>6 DEF Linked, SameNodes
<1>9. \A e \in Dev : e # d \/ byptr[e] # None => s.byptr[e] = byptr[e]
  <2>1. \A e \in Dev : e # None
    BY NoneConfig DEF NoneConfig
  <2> QED
    BY <2>1, <1>5, <1>6
<1>10. LateFree(s)
  <2>1. ASSUME NEW x \in Directions, s.late[x] # None
        PROVE  /\ s.late[x] \in s.live /\ Direction(s.late[x]) = x
               /\ s.byptr[s.late[x]] = None \/ OwnNode(s, s.late[x])
    <3> DEFINE e == late[x]
    <3>1. x # dir /\ s.late[x] = e /\ e # None
      BY <2>1, <1>1, <1>7
    <3>2. /\ e \in live /\ e \in Dev /\ Direction(e) = x
          /\ byptr[e] = None \/ (CardOf[e] \in Alsa /\ byptr[e] = <<e, port[e], None>>)
      BY <3>1, <1>1 DEF LateFree, OwnNode
    <3> HIDE DEF e
    <3>3. e # d
      BY <3>1, <3>2, <1>2
    <3>4. s.byptr[e] = byptr[e]
      BY <3>2, <3>3, <1>9
    <3>5. s.byptr[e] = None \/ OwnNode(s, e)
      BY <3>2, <3>4, <1>6 DEF OwnNode
    <3> QED
      BY <3>1, <3>2, <3>5, <1>6
  <2> QED
    BY <2>1 DEF LateFree
<1>11. \A e \in Dev : byptr[e] # None =>
         s.byptr[e] # None /\ (CardOf[e] \in Bluetooth => s.byptr[e] = byptr[e])
  BY <1>9
<1> QED
  BY <1>6, <1>7, <1>8, <1>10, <1>11 DEF s

LEMMA ProfileChangesKeeps ==
  ASSUME IInv, ProfileChanges
  PROVE  IInv' /\ (ProfileInv => ProfileInv') /\ (ComeInv => ComeInv')
<1> DEFINE c == Current.card
           x == [Current EXCEPT !.changed = TRUE]
           pending == Append(Rest, x)
           A == [active EXCEPT ![c] = Current.to]
           d == late["sink"]
           held == StateProfile
<1>1. /\ ~Idle /\ Current.left = {} /\ Current.kind \in {"change", "route"}
      /\ DevsOf[Current.card][Current.to] \subseteq live
      /\ plugged' = plugged /\ active' = A /\ avail' = avail
      /\ d = None => Becomes(Nodes) /\ changes' = pending
      /\ d # None => PassIf(Routes(Nodes, d, A[CardOf[d]], held),
                            [AddDevice(Nodes, d, A[CardOf[d]], held) EXCEPT !.late["sink"] = None], pending)
  BY DEF ProfileChanges, Moved
<1>2. /\ Nodes \in State /\ Linked(Nodes) /\ LateFree(Nodes) /\ Nodes.nodes = nodes
      /\ Nodes.byptr = byptr /\ Nodes.live = live /\ Nodes.port = port /\ Nodes.late = late
      /\ live \subseteq Dev /\ plugged \subseteq Card /\ active \in [Card -> Profile]
      /\ \A e \in Card : active[e] \in ProfilesOf(e)
      /\ late \in [Directions -> Dev \cup {None}]
      /\ DOMAIN changes = 1 .. Len(changes)
  BY InvParts
<1>3. /\ Current \in CardChange /\ ChangeOK(Nodes, plugged, active, Current) /\ c \in Card
      /\ \A i \in DOMAIN Rest : /\ Rest[i] \in CardChange /\ ChangeOK(Nodes, plugged, active, Rest[i])
                                /\ Rest[i].card # c
  BY <1>1, WhenChanging
<1>4. /\ x \in CardChange /\ x.card = c /\ x.kind = Current.kind /\ x.to = Current.to
      /\ x.left = Current.left /\ x.changed
  BY <1>3 DEF CardChange
<1> HIDE DEF x
<1>5. /\ StackOK(pending) /\ pending \in Seq(CardChange) /\ pending # <<>>
      /\ DOMAIN pending = DOMAIN changes
      /\ \A i \in DOMAIN changes : pending[i] = IF i = Len(changes) THEN x ELSE changes[i]
      /\ \A i \in DOMAIN changes : i # Len(changes) => i \in DOMAIN Rest /\ changes[i] = Rest[i]
      /\ 1 \in DOMAIN changes /\ changes[Len(changes)] = Current
  BY <1>1, <1>4, TopStack
<1>6. /\ Current.to \in ProfilesOf(c) /\ c \in plugged
      /\ \A e \in Nodes.live : CardOf[e] = c => e \in DevsOf[c][Current.to]
      /\ Current.kind = "route" => c \in Bluetooth
  BY <1>1, <1>3 DEF ChangeOK
<1>7. /\ A \in [Card -> Profile] /\ \A e \in Card : A[e] \in ProfilesOf(e)
      /\ A[c] = Current.to /\ \A e \in Card \ {c} : A[e] = active[e]
  BY <1>2, <1>3, <1>6 DEF Profile
<1>8. "sink" \in Directions /\ "source" \in Directions
  BY DEF Directions
<1>9. held = None => \A i \in DOMAIN pending : pending[i].kind # "route"
  <2>1. Current.kind = "route" => held # None
    <3>1. Current.to \in Profile
      BY <1>3, <1>6 DEF Profile
    <3> QED
      BY <3>1, <1>1, Held, NoneConfig DEF NoneConfig
  <2>2. \A i \in DOMAIN Rest : Rest[i].kind # "route"
    BY <1>1, RestStack
  <2> HIDE DEF pending, held
  <2> QED
    BY <2>1, <2>2, <1>4, <1>5
<1> HIDE DEF A, pending, c
<1>10. \E s : /\ s \in State /\ Linked(s) /\ LateFree(s) /\ SameNodes(Nodes, s)
              /\ s.live = live /\ s.late = [late EXCEPT !["sink"] = None]
              /\ \A e \in Dev : byptr[e] # None =>
                   s.byptr[e] # None /\ (CardOf[e] \in Bluetooth => s.byptr[e] = byptr[e])
              /\ Passed(s, Nodes', pending, changes')
  <2>1. CASE d = None
    <3>1. Nodes' = Nodes /\ changes' = pending
      BY <2>1, <1>1, <1>2, NodesBecome
    <3>2. Passed(Nodes, Nodes', pending, changes')
      BY <3>1, <1>2, NoPass
    <3>3. late = [late EXCEPT !["sink"] = None]
      BY <2>1, <1>2, <1>8
    <3> QED
      BY <3>2, <3>3, <1>2, SameSelf
  <2>2. CASE d # None
    <3> DEFINE p == A[CardOf[d]]
               s == Later("sink", p, held)
               needed == Routes(Nodes, d, p, held)
    <3>1. /\ s \in State /\ Linked(s) /\ LateFree(s) /\ SameNodes(Nodes, s)
          /\ s.live = live /\ s.late = [late EXCEPT !["sink"] = None]
          /\ \A e \in Dev : byptr[e] # None =>
               s.byptr[e] # None /\ (CardOf[e] \in Bluetooth => s.byptr[e] = byptr[e])
      <4> HIDE DEF p, held
      <4> QED
        BY <1>8, LaterDoes
    <3>2. s = [AddDevice(Nodes, d, p, held) EXCEPT !.late["sink"] = None]
      BY <2>2 DEF Later
    <3>3. PassIf(needed, s, pending)
      BY <2>2, <3>2, <1>1
    <3> HIDE DEF s, needed
    <3>4. Passed(s, Nodes', pending, changes')
      BY <3>1, <3>3, <1>9, PassIfDoes
    <3> QED
      BY <3>1, <3>4
  <2> QED
    BY <2>1, <2>2
<1>11. PICK s : /\ s \in State /\ Linked(s) /\ LateFree(s) /\ SameNodes(Nodes, s)
                /\ s.live = live /\ s.late = [late EXCEPT !["sink"] = None]
                /\ \A e \in Dev : byptr[e] # None =>
                     s.byptr[e] # None /\ (CardOf[e] \in Bluetooth => s.byptr[e] = byptr[e])
                /\ Passed(s, Nodes', pending, changes')
  BY <1>10
<1>12. CardsOK(s, plugged, A)
  <2>1. ASSUME NEW b \in Bluetooth \cap plugged, NEW k \in KeysOf[b]
        PROVE  s.nodes[k] # None
    <3>1. k \in Key
      BY KeyOfCard DEF Card
    <3> QED
      BY <3>1, <1>11 DEF IInv, Fits, SameNodes
  <2>2. \A e \in s.live : CardOf[e] \in plugged
    BY <1>2, <1>11 DEF IInv, Fits
  <2>3. \A k \in Key : s.nodes[k] # None => CardOf[k[1]] \in plugged
    BY <1>11 DEF IInv, Fits, SameNodes
  <2> QED
    BY <2>1, <2>2, <2>3, <1>2, <1>7 DEF CardsOK
<1>13. ChangeOK(s, plugged, A, x)
  <2>1. /\ \A e \in s.live : CardOf[e] = x.card => e \in DevsOf[x.card][x.to]
        /\ DevsOf[x.card][x.to] \subseteq s.live
    BY <1>1, <1>2, <1>4, <1>6, <1>11 DEF c
  <2>2. x.left = {} /\ x.kind \in {"change", "route"} /\ x.card = c /\ x.to = Current.to
    BY <1>1, <1>4
  <2> QED
    BY <2>1, <2>2, <1>4, <1>6, <1>7 DEF ChangeOK
<1>14. \A i \in DOMAIN Rest : ChangeOK(s, plugged, A, Rest[i])
  <2>1. ASSUME NEW i \in DOMAIN Rest
        PROVE  ChangeOK(s, plugged, A, Rest[i])
    <3> DEFINE y == Rest[i]
    <3>1. y \in CardChange /\ ChangeOK(Nodes, plugged, active, y) /\ y.card # c
      BY <1>3
    <3> HIDE DEF y
    <3>2. ChangeOK(s, plugged, active, y)
      BY <3>1, <1>2, <1>11, ChangeFits
    <3>3. A[y.card] = active[y.card]
      BY <3>1, <1>7 DEF CardChange
    <3>4. ChangeOK(s, plugged, A, y)
      BY <3>2, <3>3 DEF ChangeOK
    <3> QED
      BY <3>4 DEF y
  <2> QED
    BY <2>1
<1>15. LateAlsa(s, pending)
  <2>1. LateAlsa(Nodes, changes)
    BY DEF IInv, Fits
  <2>2. pending[1].kind = changes[1].kind
    BY <1>4, <1>5
  <2>3. \A dir \in Directions : s.late[dir] # None => dir # "sink" /\ s.late[dir] = late[dir]
    BY <1>2, <1>8, <1>11
  <2> QED
    BY <2>1, <2>2, <2>3, <1>2, <1>5 DEF LateAlsa
<1>16. Fits(s, plugged, A, pending)
  BY <1>1, <1>4, <1>12, <1>13, <1>14, <1>15, TopFits DEF pending, c
<1>21. Passed(s, Nodes', pending, changes')
  BY <1>11
<1>22. pending \in Seq(CardChange)
  BY <1>5
<1>23. s.live \subseteq Dev
  BY <1>2, <1>11
<1>17. Sound(Nodes') /\ Fits(Nodes', plugged, A, changes')
  <2>1. Sound(s)
    BY <1>11 DEF Sound
  <2> QED
    BY <2>1, <1>16, <1>21, PassedFits
<1>18. IInv'
  <2>1. Available3'
    BY <1>1, InvParts DEF Available3
  <2> QED
    BY <2>1, <1>1, <1>17, InvNext
<1>19. ProfileInv => ProfileInv'
  <2>1. ProfileInv => ProfileNodes(s, plugged, A, pending)
    BY <1>1, <1>4, <1>7, <1>11, TopProfile DEF pending, c
  <2>2. ProfileInv => ProfileNodes(Nodes', plugged, A, changes')
    BY <2>1, <1>21, <1>22, PassedProfile
  <2> QED
    BY <1>1, <2>2 DEF ProfileInv
<1>20. ComeInv => ComeInv'
  <2>1. ASSUME ComeInv, NEW i \in DOMAIN pending, pending[i].kind \in {"plug", "route"},
               NEW e \in s.live \ pending[i].left, CardOf[e] = pending[i].card, HasKey(e)
        PROVE  s.byptr[e] # None /\ (pending[i].card \in Bluetooth => s.byptr[e][3] = pending[i].to)
    <3>1. /\ i \in DOMAIN changes /\ pending[i].kind = changes[i].kind /\ pending[i].card = changes[i].card
          /\ pending[i].to = changes[i].to /\ pending[i].left = changes[i].left
      <4>1. i \in DOMAIN changes
        BY <2>1, <1>5
      <4>2. CASE i = Len(changes)
        <5>1. pending[i] = x /\ changes[i] = Current
          BY <4>1, <4>2, <1>5
        <5> QED
          BY <4>1, <5>1, <1>4 DEF c
      <4>3. CASE i # Len(changes)
        <5>1. pending[i] = changes[i]
          BY <4>1, <4>3, <1>5
        <5> QED
          BY <4>1, <5>1
      <4> QED
        BY <4>2, <4>3
    <3>2. e \in live /\ e \in Dev
      BY <1>2, <1>11
    <3>3. byptr[e] # None /\ (changes[i].card \in Bluetooth => byptr[e][3] = changes[i].to)
      BY <2>1, <3>1, <3>2, <1>2 DEF ComeInv, ComeLinked
    <3>4. s.byptr[e] # None /\ (CardOf[e] \in Bluetooth => s.byptr[e] = byptr[e])
      BY <3>2, <3>3, <1>11
    <3> QED
      BY <2>1, <3>1, <3>3, <3>4
  <2>2. ComeInv => ComeLinked(s, pending)
    BY <2>1 DEF ComeLinked
  <2>3. ComeInv => ComeLinked(Nodes', changes')
    BY <2>2, <1>21, <1>22, <1>23, PassedCome
  <2> QED
    BY <2>3 DEF ComeInv
<1> QED
  BY <1>18, <1>19, <1>20

LEMMA ProfileChangedKeeps ==
  ASSUME IInv, ProfileChanged
  PROVE  /\ IInv' /\ (ProfileInv => ProfileInv') /\ (ComeInv => ComeInv')
         /\ active' = active
         /\ \A e \in Dev : byptr[e] # None =>
              byptr'[e] # None /\ (CardOf[e] \in Bluetooth => byptr'[e] = byptr[e])
<1> DEFINE c == Current.card
           to == Current.to
           held == StateProfile
           d == late["source"]
           t == Later("source", active[CardOf[d]], held)
           made == CreateNodes(t, AlsaKeys(c, to))
           f == [k \in Key |-> IF k \in KeysOf[c] /\ t.nodes[k] # None /\ k[3] \notin Headset
                               THEN [t.nodes[k] EXCEPT !.available = FALSE] ELSE t.nodes[k]]
           off == [t EXCEPT !.nodes = f]
           old == {k \in KeysOf[c] : made.nodes[k] # None /\ ~made.nodes[k].fresh}
           s == CASE c \in Alsa -> DestroyNodes(made, old)
                  [] c \in Bluetooth /\ to = Off -> off
                  [] OTHER -> t
           routing == Current.routing
<1>1. /\ ~Idle /\ Current.changed /\ plugged' = plugged /\ active' = active /\ avail' = avail
      /\ PassIf(routing, s, Rest)
  BY DEF ProfileChanged, Later
<1>2. /\ Nodes \in State /\ Linked(Nodes) /\ LateFree(Nodes) /\ Nodes.nodes = nodes
      /\ Nodes.byptr = byptr /\ Nodes.live = live /\ Nodes.port = port /\ Nodes.late = late
      /\ live \subseteq Dev /\ plugged \subseteq Card /\ active \in [Card -> Profile]
      /\ \A e \in Card : active[e] \in ProfilesOf(e)
      /\ late \in [Directions -> Dev \cup {None}]
  BY InvParts
<1>3. /\ Current \in CardChange /\ ChangeOK(Nodes, plugged, active, Current) /\ c \in Card
      /\ \A i \in DOMAIN Rest : /\ Rest[i] \in CardChange /\ ChangeOK(Nodes, plugged, active, Rest[i])
                                /\ Rest[i].card # c
  BY <1>1, WhenChanging
<1>4. /\ to \in ProfilesOf(c) /\ c \in plugged /\ active[c] = to
      /\ \A e \in Nodes.live : CardOf[e] = c => e \in DevsOf[c][to]
      /\ Current.kind \in {"change", "route"} /\ (Current.kind = "route" => c \in Bluetooth)
  BY <1>1, <1>3 DEF ChangeOK
<1>5. /\ StackOK(Rest) /\ Rest \in Seq(CardChange)
      /\ \A i \in DOMAIN Rest : Rest[i].kind # "route"
      /\ \A i \in DOMAIN changes : i \in DOMAIN Rest \/ changes[i] = Current
      /\ \A i \in DOMAIN Rest : i = 1 /\ i \in DOMAIN changes /\ Rest[i] = changes[i]
      /\ Rest = <<>> => changes[1] = Current
  BY <1>1, RestStack
<1> HIDE DEF c, to, held, routing
<1>6. "sink" \in Directions /\ "source" \in Directions
  BY DEF Directions
<1>7. /\ t \in State /\ Linked(t) /\ LateFree(t) /\ SameNodes(Nodes, t)
      /\ t.live = live /\ t.late = [late EXCEPT !["source"] = None]
      /\ \A e \in Dev : byptr[e] # None =>
           t.byptr[e] # None /\ (CardOf[e] \in Bluetooth => t.byptr[e] = byptr[e])
  <2> DEFINE p == active[CardOf[d]]
  <2> HIDE DEF p
  <2>1. LET r == Later("source", p, held)
        IN  /\ r \in State /\ Linked(r) /\ LateFree(r) /\ SameNodes(Nodes, r)
            /\ r.live = live /\ r.late = [late EXCEPT !["source"] = None]
            /\ \A e \in Dev : byptr[e] # None =>
                 r.byptr[e] # None /\ (CardOf[e] \in Bluetooth => r.byptr[e] = byptr[e])
    BY <1>6, LaterDoes
  <2> QED
    BY <2>1 DEF p
<1> HIDE DEF t
<1>8. /\ made \in State /\ Linked(made) /\ made.live = t.live /\ made.port = t.port
      /\ made.byptr = t.byptr /\ made.late = t.late
      /\ \A k \in Key : IF k \in AlsaKeys(c, to) THEN made.nodes[k] # None /\ made.nodes[k].fresh
                        ELSE made.nodes[k] = t.nodes[k]
  BY <1>7, CreateDoes
<1> HIDE DEF made
<1>9. \A k \in Key : k \in KeysOf[c] <=> CardOf[k[1]] = c
  BY <1>3, KeyForm, KeyOfCard
<1>10. ASSUME c \in Alsa, NEW e \in Dev, made.byptr[e] # None, made.byptr[e] \in KeysOf[c]
       PROVE  made.byptr[e] \in AlsaKeys(c, to)
  <2> DEFINE k == made.byptr[e]
  <2>1. e \in live /\ k[1] = e
    BY <1>10, <1>7, <1>8 DEF Linked
  <2>2. CardOf[k[1]] = c
    BY <1>3, <1>10, KeyOfCard
  <2>3. e \in DevsOf[c][to]
    BY <2>1, <2>2, <1>2, <1>4
  <2> HIDE DEF k
  <2>4. k \in KeysOf[c]
    BY <1>10 DEF k
  <2>5. k \in AlsaKeys(c, to)
    BY <2>1, <2>3, <2>4, <1>4, <1>10, AlsaKeyStays
  <2> QED
    BY <2>5 DEF k
<1>11. c \in Alsa => /\ AlsaKeys(c, to) \subseteq KeysOf[c] /\ AlsaKeys(c, to) \subseteq Key
                     /\ c \notin Bluetooth /\ Current.kind = "change"
  BY <1>3, <1>4, AlsaKeyKnown, KeyOfCard, NotBoth
<1>12. /\ s \in State /\ Linked(s) /\ s.live = live /\ s.port = t.port
       /\ s.byptr = t.byptr /\ s.late = t.late
       /\ c \notin Alsa => SameNodes(t, s)
       /\ c \in Alsa => \A k \in Key : s.nodes[k] = IF k \in old THEN None ELSE made.nodes[k]
  <2>1. CASE c \in Alsa
    <3> DEFINE r == DestroyNodes(made, old)
    <3>1. s = r
      BY <2>1, <1>11
    <3>2. \A e \in Dev : made.byptr[e] # None => made.byptr[e] \notin old
      <4>1. ASSUME NEW e \in Dev, made.byptr[e] # None, made.byptr[e] \in old
            PROVE  FALSE
        <5>1. made.byptr[e] \in AlsaKeys(c, to)
          BY <2>1, <4>1, <1>10
        <5> QED
          BY <4>1, <5>1, <2>1, <1>8, <1>11
      <4> QED
        BY <4>1
    <3> HIDE DEF old, s
    <3>3. /\ r \in State /\ Linked(r) /\ r.live = made.live /\ r.port = made.port
          /\ r.byptr = made.byptr /\ r.late = made.late
          /\ \A k \in Key : r.nodes[k] = IF k \in old THEN None ELSE made.nodes[k]
      BY <3>2, <1>8, DestroyDoes
    <3> HIDE DEF r
    <3> QED
      BY <2>1, <3>1, <3>3, <1>7, <1>8
  <2>2. CASE c \notin Alsa /\ c \in Bluetooth /\ to = Off
    <3>1. s = off
      BY <2>2
    <3>2. t.nodes \in [Key -> Node \cup {None}]
      BY <1>7, StateFields
    <3>3. ASSUME NEW k \in Key
          PROVE  /\ f[k] \in Node \cup {None} /\ (f[k] = None <=> t.nodes[k] = None)
                 /\ t.nodes[k] # None => f[k].linked = t.nodes[k].linked /\ f[k].fresh = t.nodes[k].fresh
      <4>1. CASE k \in KeysOf[c] /\ t.nodes[k] # None /\ k[3] \notin Headset
        <5> DEFINE m == [t.nodes[k] EXCEPT !.available = FALSE]
        <5>1. f[k] = m
          BY <4>1
        <5>2. t.nodes[k] \in Node
          BY <4>1, <3>2
        <5>3. m \in Node /\ m.linked = t.nodes[k].linked /\ m.fresh = t.nodes[k].fresh
          BY <5>2, Labelled
        <5> HIDE DEF m, f
        <5> QED
          BY <4>1, <5>1, <5>3, NodeFields
      <4>2. CASE ~(k \in KeysOf[c] /\ t.nodes[k] # None /\ k[3] \notin Headset)
        <5>1. f[k] = t.nodes[k]
          BY <4>2
        <5> HIDE DEF f
        <5> QED
          BY <5>1, <3>2
      <4> QED
        BY <4>1, <4>2
    <3>4. f \in [Key -> Node \cup {None}]
      BY <3>3
    <3>5. off.live = t.live /\ off.port = t.port /\ off.byptr = t.byptr /\ off.late = t.late
      BY <1>7 DEF State
    <3> HIDE DEF f
    <3>6. Passed(t, off, Rest, Rest)
      BY <3>3, <3>4, <1>7, Relabelled
    <3> HIDE DEF off, s
    <3> QED
      BY <2>2, <3>1, <3>5, <3>6, <1>7 DEF Passed
  <2>3. CASE c \notin Alsa /\ ~(c \in Bluetooth /\ to = Off)
    <3>1. s = t
      BY <2>3
    <3> HIDE DEF s
    <3> QED
      BY <2>3, <3>1, <1>7, SameSelf
  <2> QED
    BY <2>1, <2>2, <2>3
<1> HIDE DEF s
<1>13. ASSUME NEW k \in Key, c \notin Alsa \/ k \notin KeysOf[c]
       PROVE  (s.nodes[k] = None <=> nodes[k] = None)
              /\ (nodes[k] # None /\ s.nodes[k].fresh => nodes[k].fresh)
  <2>1. (t.nodes[k] = None <=> nodes[k] = None) /\ (nodes[k] # None /\ t.nodes[k].fresh => nodes[k].fresh)
    BY <1>2, <1>7 DEF SameNodes
  <2>2. CASE c \notin Alsa
    BY <2>1, <2>2, <1>12 DEF SameNodes
  <2>3. CASE c \in Alsa
    <3>1. k \notin old /\ k \notin AlsaKeys(c, to)
      BY <1>13, <2>3, <1>11
    <3>2. s.nodes[k] = t.nodes[k]
      BY <2>3, <3>1, <1>8, <1>12
    <3> QED
      BY <2>1, <3>2
  <2> QED
    BY <2>2, <2>3
<1>14. LateFree(s)
  BY <1>7, <1>12 DEF LateFree, OwnNode
<1>15. CardsOK(s, plugged, active)
  <2>1. Fits(Nodes, plugged, active, changes)
    BY DEF IInv
  <2>2. \A e \in s.live : CardOf[e] \in plugged
    BY <2>1, <1>2, <1>12 DEF Fits
  <2>3. \A k \in Key : s.nodes[k] # None => CardOf[k[1]] \in plugged
    BY <2>1, <1>2, <1>4, <1>9, <1>13 DEF Fits
  <2>4. ASSUME NEW b \in Bluetooth \cap plugged, NEW k \in KeysOf[b]
        PROVE  s.nodes[k] # None
    <3>1. k \in Key /\ CardOf[k[1]] = b /\ b \in Card
      BY KeyOfCard DEF Card
    <3>2. nodes[k] # None
      BY <2>1, <1>2 DEF Fits
    <3>3. c \notin Alsa \/ k \notin KeysOf[c]
      BY <3>1, <1>9, NotBoth
    <3> QED
      BY <3>1, <3>2, <3>3, <1>13
  <2> QED
    BY <2>2, <2>3, <2>4, <1>2 DEF CardsOK
<1>16. \A i \in DOMAIN Rest : ChangeOK(s, plugged, active, Rest[i])
  <2>1. ASSUME NEW i \in DOMAIN Rest
        PROVE  ChangeOK(s, plugged, active, Rest[i])
    <3> DEFINE y == Rest[i]
    <3>1. y \in CardChange /\ ChangeOK(Nodes, plugged, active, y) /\ y.card # c
      BY <1>3
    <3> HIDE DEF y
    <3>2. y.kind = "plug" /\ y.card \in Alsa => \A k \in AlsaKeys(y.card, y.to) : s.nodes[k] # None
      <4>1. ASSUME y.kind = "plug", y.card \in Alsa, NEW k \in AlsaKeys(y.card, y.to)
            PROVE  s.nodes[k] # None
        <5>1. y.card \in Card /\ y.to \in ProfilesOf(y.card)
          BY <3>1 DEF CardChange, ChangeOK
        <5>2. k \in KeysOf[y.card]
          BY <4>1, <5>1, AlsaKeyKnown
        <5>3. k \in Key /\ CardOf[k[1]] = y.card
          BY <5>1, <5>2, KeyOfCard
        <5>4. nodes[k] # None
          BY <3>1, <4>1, <1>2 DEF ChangeOK
        <5> QED
          BY <3>1, <5>3, <5>4, <1>9, <1>13
      <4> QED
        BY <4>1
    <3>3. ChangeOK(s, plugged, active, y)
      BY <3>1, <3>2, <1>2, <1>12 DEF ChangeOK
    <3> QED
      BY <3>3 DEF y
  <2> QED
    BY <2>1
<1>17. LateAlsa(s, Rest)
  <2>1. LateAlsa(Nodes, changes)
    BY DEF IInv, Fits
  <2>2. \A dir \in Directions : s.late[dir] # None => dir = "sink" /\ s.late[dir] = late[dir]
    BY <1>2, <1>7, <1>12 DEF Directions
  <2>3. ASSUME NEW dir \in Directions, s.late[dir] # None, OfAlsa(s.late[dir])
        PROVE  /\ Rest # <<>> /\ Rest[1].kind = "change"
               /\ dir = "sink" => ~Rest[1].changed
    <3>1. changes[1].kind = "change" /\ ~changes[1].changed
      BY <2>1, <2>2, <2>3, <1>2 DEF LateAlsa
    <3>2. Rest # <<>>
      BY <3>1, <1>1, <1>5
    <3>3. 1 \in DOMAIN Rest
      <4>1. Len(Rest) # 0 /\ Len(Rest) \in Nat /\ DOMAIN Rest = 1 .. Len(Rest)
        BY <3>2, <1>5, EmptySeq, LenProperties
      <4> QED
        BY <4>1
    <3> QED
      BY <3>1, <3>2, <3>3, <1>5
  <2> QED
    BY <2>3 DEF LateAlsa
<1>18. Fits(s, plugged, active, Rest)
  BY <1>5, <1>15, <1>16, <1>17 DEF Fits, CardsOK
<1>19. Passed(s, Nodes', Rest, changes')
  BY <1>1, <1>5, <1>12, PassIfDoes
<1>20. Sound(Nodes') /\ Fits(Nodes', plugged, active, changes')
  BY <1>12, <1>14, <1>18, <1>19, PassedFits DEF Sound
<1>21. IInv'
  <2>1. Available3'
    BY <1>1, InvParts DEF Available3
  <2> QED
    BY <2>1, <1>1, <1>20, InvNext
<1>22. ProfileInv => ProfileInv'
  <2>1. ASSUME ProfileInv
        PROVE  ProfileNodes(s, plugged, active, Rest)
    <3>1. ASSUME NEW e \in Alsa \cap plugged, \A i \in DOMAIN Rest : Rest[i].card = e => Rest[i].kind = "plug",
                 NEW k \in KeysOf[e]
          PROVE  s.nodes[k] # None <=> k \in AlsaKeys(e, active[e])
      <4>1. k \in Key /\ CardOf[k[1]] = e
        BY <1>2, KeyOfCard
      <4>2. CASE e = c
        <5>1. c \in Alsa /\ Current.kind = "change" /\ k \in KeysOf[c]
          BY <3>1, <4>2, <1>11
        <5>2. \E i \in DOMAIN changes : changes[i].card = c /\ changes[i].kind = "change"
          <6>1. Len(changes) \in DOMAIN changes /\ changes[Len(changes)] = Current
            BY <1>1, RestStack
          <6> QED
            BY <5>1, <6>1 DEF c
        <5>3. nodes[k] # None => ~nodes[k].fresh
          BY <2>1, <5>1, <5>2, <1>2, <1>4 DEF ProfileInv, ProfileNodes
        <5>4. CASE k \in AlsaKeys(c, to)
          <6>1. made.nodes[k] # None /\ made.nodes[k].fresh
            BY <4>1, <5>4, <1>8
          <6>2. s.nodes[k] # None
            BY <4>1, <5>1, <6>1, <1>12
          <6> QED
            BY <4>2, <5>4, <6>2, <1>4
        <5>5. CASE k \notin AlsaKeys(c, to)
          <6>1. made.nodes[k] = t.nodes[k]
            BY <4>1, <5>5, <1>8
          <6>2. t.nodes[k] # None => ~t.nodes[k].fresh
            BY <4>1, <5>3, <1>2, <1>7 DEF SameNodes
          <6>3. s.nodes[k] = None
            BY <4>1, <5>1, <6>1, <6>2, <1>12
          <6> QED
            BY <4>2, <5>5, <6>3, <1>4
        <5> QED
          BY <5>4, <5>5
      <4>3. CASE e # c
        <5>1. \A i \in DOMAIN changes : changes[i].card = e => changes[i].kind = "plug"
          BY <3>1, <4>3, <1>5 DEF c
        <5>2. nodes[k] # None <=> k \in AlsaKeys(e, active[e])
          BY <2>1, <3>1, <5>1, <1>2 DEF ProfileInv, ProfileNodes
        <5> QED
          BY <4>1, <4>3, <5>2, <1>9, <1>13
      <4> QED
        BY <4>2, <4>3
    <3>2. ASSUME NEW e \in Alsa \cap plugged, \E i \in DOMAIN Rest : Rest[i].card = e /\ Rest[i].kind = "change",
                 NEW k \in KeysOf[e], s.nodes[k] # None
          PROVE  ~s.nodes[k].fresh
      <4>1. e # c
        BY <3>2, <1>3
      <4>2. k \in Key /\ CardOf[k[1]] = e
        BY <1>2, KeyOfCard
      <4>3. \E i \in DOMAIN changes : changes[i].card = e /\ changes[i].kind = "change"
        BY <3>2, <1>5
      <4>4. nodes[k] # None /\ (s.nodes[k].fresh => nodes[k].fresh)
        BY <3>2, <4>1, <4>2, <1>9, <1>13
      <4>5. ~nodes[k].fresh
        BY <2>1, <4>3, <4>4, <1>2 DEF ProfileInv, ProfileNodes
      <4> QED
        BY <4>4, <4>5
    <3> QED
      BY <3>1, <3>2 DEF ProfileNodes
  <2>2. ProfileInv => ProfileNodes(Nodes', plugged, active, changes')
    BY <2>1, <1>5, <1>19, PassedProfile
  <2> QED
    BY <1>1, <2>2 DEF ProfileInv
<1>23. ComeInv => ComeInv'
  <2>1. ASSUME ComeInv, NEW i \in DOMAIN Rest, Rest[i].kind \in {"plug", "route"},
               NEW e \in s.live \ Rest[i].left, CardOf[e] = Rest[i].card, HasKey(e)
        PROVE  s.byptr[e] # None /\ (Rest[i].card \in Bluetooth => s.byptr[e][3] = Rest[i].to)
    <3>1. e \in live /\ e \in Dev /\ i \in DOMAIN changes /\ Rest[i] = changes[i]
      BY <1>2, <1>5, <1>12
    <3>2. byptr[e] # None /\ (Rest[i].card \in Bluetooth => byptr[e][3] = Rest[i].to)
      BY <2>1, <3>1, <1>2 DEF ComeInv, ComeLinked
    <3>3. s.byptr[e] # None /\ (CardOf[e] \in Bluetooth => s.byptr[e] = byptr[e])
      BY <3>1, <3>2, <1>7, <1>12
    <3> QED
      BY <2>1, <3>2, <3>3
  <2>2. ComeInv => ComeLinked(s, Rest)
    BY <2>1 DEF ComeLinked
  <2>3. ComeInv => ComeLinked(Nodes', changes')
    BY <2>2, <1>2, <1>5, <1>12, <1>19, PassedCome
  <2> QED
    BY <2>3 DEF ComeInv
<1>24. ASSUME NEW e \in Dev, byptr[e] # None
       PROVE  byptr'[e] # None /\ (CardOf[e] \in Bluetooth => byptr'[e] = byptr[e])
  <2>1. s.byptr[e] # None /\ (CardOf[e] \in Bluetooth => s.byptr[e] = byptr[e])
    BY <1>24, <1>7, <1>12
  <2>2. Ported(s, Nodes')
    BY <1>19 DEF Passed
  <2>3. /\ Nodes'.byptr[e] # None
        /\ CardOf[e] \in Bluetooth => Nodes'.byptr[e] = s.byptr[e]
    BY <2>1, <2>2, PortedLinks
  <2>4. Nodes'.byptr = byptr'
    BY DEF Nodes
  <2> QED
    BY <2>1, <2>3, <2>4
<1> QED
  BY <1>1, <1>21, <1>22, <1>23, <1>24

-----------------------------------------------------------------------------
(* The invariants hold.                                                    *)

LEMMA Initial ==
  ASSUME Init
  PROVE  IInv /\ ProfileInv /\ ComeInv
<1>1. /\ plugged = {} /\ live = {} /\ changes = <<>> /\ active = [c \in Card |-> Off]
      /\ port = [d \in Dev |-> None] /\ avail = [q \in Port |-> "unknown"]
      /\ nodes = [k \in Key |-> None] /\ byptr = [d \in Dev |-> None]
      /\ late = [dir \in Directions |-> None]
  BY DEF Init, Directions
<1>2. /\ Nodes.nodes = nodes /\ Nodes.byptr = byptr /\ Nodes.live = live /\ Nodes.port = port
      /\ Nodes.late = late /\ Nodes \in State
  BY <1>1 DEF Nodes, State
<1>3. Sound(Nodes)
  BY <1>1, <1>2 DEF Sound, Linked, LateFree
<1>4. \A c \in Card : Off \in ProfilesOf(c) /\ Off \in Profile
  BY CardsConfig DEF CardsConfig, Profile
<1>5. active \in [Card -> Profile] /\ \A c \in Card : active[c] \in ProfilesOf(c)
  BY <1>1, <1>4
<1>6. LateAlsa(Nodes, changes)
  BY <1>1, <1>2 DEF LateAlsa
<1>7. StackOK(changes) /\ DOMAIN changes = {}
  BY <1>1, NoChange
<1>8. Fits(Nodes, plugged, active, changes)
  BY <1>1, <1>2, <1>5, <1>6, <1>7 DEF Fits
<1>9. Available3
  BY <1>1 DEF Available3
<1>10. ProfileInv /\ ComeInv
  BY <1>1, <1>7 DEF ProfileInv, ProfileNodes, ComeInv, ComeLinked
<1> QED
  BY <1>3, <1>8, <1>9, <1>10 DEF IInv

LEMMA StepKeeps ==
  ASSUME IInv, Next
  PROVE  /\ IInv' /\ (ProfileInv /\ ~Hasty => ProfileInv')
         /\ ComeInv /\ BluetoothPorts => ComeInv'
<1>1. ASSUME NEW c \in Card, NEW p \in ProfilesOf(c), PlugCard(c, p) \/ ChangeProfile(c, p)
      PROVE  IInv' /\ (ProfileInv /\ ~Hasty => ProfileInv') /\ ComeInv'
  BY <1>1, PlugCardKeeps, ChangeProfileKeeps
<1>2. ASSUME NEW c \in Card, NEW q \in Changing, NEW v \in {"yes", "no", "unknown"},
             BluetoothPortChanges(c, q, v) \/ AlsaPortChanges(c, q, v)
      PROVE  IInv' /\ (ProfileInv => ProfileInv') /\ ComeInv'
  <2>1. \E p \in ProfilesOf(c) : q \in PortsOf[c][p]
    BY <1>2 DEF BluetoothPortChanges, AlsaPortChanges
  <2>2. q \in Port
    BY <2>1, CardsConfig DEF CardsConfig
  <2> QED
    BY <1>2, <2>2, BluetoothPortKeeps, AlsaPortKeeps
<1>3. ASSUME NEW c \in Card, UnplugCard(c)
      PROVE  IInv' /\ (ProfileInv => ProfileInv') /\ ComeInv'
  BY <1>3, UnplugCardKeeps
<1>4. ASSUME NEW d \in Dev, DeviceGoes(d)
      PROVE  IInv' /\ (ProfileInv => ProfileInv') /\ (ComeInv => ComeInv')
  BY <1>4, DeviceGoesKeeps
<1>5. ASSUME NEW d \in Dev, DeviceComes(d)
      PROVE  IInv' /\ (ProfileInv => ProfileInv') /\ (ComeInv /\ BluetoothPorts => ComeInv')
  BY <1>5, DeviceComesKeeps
<1>6. ASSUME NEW d \in Dev, NEW q \in Port, ChangePort(d, q)
      PROVE  IInv' /\ (ProfileInv => ProfileInv') /\ ComeInv'
  BY <1>6, ChangePortKeeps
<1>7. CASE PlugDone
  BY <1>7, PlugDoneKeeps
<1>8. CASE UnplugDone
  BY <1>8, UnplugDoneKeeps
<1>9. CASE ProfileChanges
  BY <1>9, ProfileChangesKeeps
<1>10. CASE ProfileChanged
  BY <1>10, ProfileChangedKeeps
<1>11. CASE MakeRouting
  BY <1>11, MakeRoutingKeeps
<1> QED
  BY <1>1, <1>2, <1>3, <1>4, <1>5, <1>6, <1>7, <1>8, <1>9, <1>10, <1>11 DEF Next

LEMMA Inductive ==
  ASSUME IInv, [Next]_vars
  PROVE  /\ IInv' /\ (ProfileInv /\ ~Hasty => ProfileInv')
         /\ ComeInv /\ BluetoothPorts => ComeInv'
<1>1. CASE Next
  BY <1>1, StepKeeps
<1>2. CASE UNCHANGED vars
  BY <1>2 DEF vars, IInv, Sound, Fits, Available3, ProfileInv, ProfileNodes, ComeInv, ComeLinked,
              Nodes, Linked, LateFree, OwnNode, CardsOK, ChangeOK, LateAlsa
<1> QED
  BY <1>1, <1>2

LEMMA InvType ==
  ASSUME IInv
  PROVE  TypeOK /\ LinksMutual
<1>1. /\ Nodes \in State /\ Linked(Nodes) /\ LateFree(Nodes)
      /\ Nodes.nodes = nodes /\ Nodes.byptr = byptr /\ Nodes.live = live
      /\ Nodes.port = port /\ Nodes.late = late
      /\ nodes \in [Key -> Node \cup {None}] /\ byptr \in [Dev -> Key \cup {None}]
      /\ live \subseteq Dev /\ port \in [Dev -> Port \cup {None}]
      /\ late \in [Directions -> Dev \cup {None}]
      /\ plugged \subseteq Card /\ active \in [Card -> Profile]
      /\ \A c \in Card : active[c] \in ProfilesOf(c)
      /\ changes \in Seq(CardChange) /\ Available3
  BY InvParts
<1>2. late \in [Directions -> live \cup {None}]
  BY <1>1 DEF LateFree
<1>3. \A k \in Key : nodes[k] # None => CardOf[k[1]] \in plugged
  BY <1>1 DEF IInv, Fits
<1>4. TypeOK
  BY <1>1, <1>2, <1>3 DEF TypeOK, Available3, Directions
<1>5. LinksMutual
  BY <1>1 DEF Linked, LinksMutual
<1> QED
  BY <1>4, <1>5

(* discover.c and switch.c: cards, sinks and sources, their ports and the  *)
(* nodes keep their form in every state, nodes are of cards that are       *)
(* plugged, and a sink that is kept for later is there.                    *)
THEOREM TypeCorrect == Spec => []TypeOK
<1>1. Init => IInv
  BY Initial
<1>2. IInv /\ [Next]_vars => IInv'
  BY Inductive
<1>3. IInv => TypeOK
  BY InvType
<1> QED
  BY <1>1, <1>2, <1>3, PTL DEF Spec

(* pa_discover_add_sink and its likes, set_port, destroy_node: a node and  *)
(* the sink or source it is linked with find each other, with any cards    *)
(* and whatever profile or port is changed while a pass is being made.     *)
THEOREM LinksStayMutual == Spec => []LinksMutual
<1>1. Init => IInv
  BY Initial
<1>2. IInv /\ [Next]_vars => IInv'
  BY Inductive
<1>3. IInv => LinksMutual
  BY InvType
<1> QED
  BY <1>1, <1>2, <1>3, PTL DEF Spec

(* handle_udev_loaded_card and pa_discover_profile_changed: when the       *)
(* profile of an ALSA card is not being changed the card has the nodes of  *)
(* its active profile and no others, if nobody changes it twice without a  *)
(* pass in between, as the stamps demand.                                  *)
THEOREM NodesAreOfProfile ==
  ASSUME ~Hasty
  PROVE  Spec => []NodesOfProfile
<1>1. Init => IInv /\ ProfileInv
  BY Initial
<1>2. (IInv /\ ProfileInv) /\ [Next]_vars => (IInv /\ ProfileInv)'
  BY Inductive
<1>3. IInv /\ ProfileInv => NodesOfProfile
  <2>1. ASSUME IInv, ProfileInv, NEW c \in Alsa \cap plugged,
               \A k \in DOMAIN changes : changes[k].card # c
        PROVE  {k \in KeysOf[c] : nodes[k] # None} = AlsaKeys(c, active[c])
    <3>1. c \in Card /\ active[c] \in ProfilesOf(c) /\ Nodes.nodes = nodes
      BY <2>1, InvParts DEF Card
    <3>2. AlsaKeys(c, active[c]) \subseteq KeysOf[c]
      BY <3>1, AlsaKeyKnown
    <3>3. \A k \in KeysOf[c] : nodes[k] # None <=> k \in AlsaKeys(c, active[c])
      BY <2>1, <3>1 DEF ProfileInv, ProfileNodes
    <3> QED
      BY <3>2, <3>3
  <2> QED
    BY <2>1 DEF NodesOfProfile
<1> QED
  BY <1>1, <1>2, <1>3, PTL DEF Spec

-----------------------------------------------------------------------------
(* What a change that the module made leaves behind.                       *)

(* Routing passes take no change away.                                     *)
LEMMA PassAdds ==
  ASSUME NEW needed, NEW s, NEW pending, pending \in Seq(CardChange), PassIf(needed, s, pending)
  PROVE  Len(changes') >= Len(pending)
<1>1. \A y : Len(Append(pending, y)) = Len(pending) + 1
  OBVIOUS
<1>2. changes' = pending \/ \E y : changes' = Append(pending, y)
  BY DEF PassIf, Pass
<1> QED
  BY <1>1, <1>2, LenProperties

(* Of the changes only those that are done go.                             *)
LEMMA OnlyDone ==
  ASSUME IInv, Next, ~Idle, Len(changes') < Len(changes)
  PROVE  PlugDone \/ UnplugDone \/ ProfileChanged
<1>1. /\ changes \in Seq(CardChange) /\ Len(changes) \in Nat
      /\ Rest \in Seq(CardChange) /\ Len(Rest) = Len(changes) - 1
  BY InvParts, WhenChanging, LenProperties
<1>2. ASSUME NEW x
      PROVE  Len(Append(Rest, x)) = Len(changes)
  BY <1>1
<1>3. ASSUME NEW d \in Dev, DeviceGoes(d)
      PROVE  FALSE
  BY <1>2, <1>3, <1>1 DEF DeviceGoes
<1>4. ASSUME NEW d \in Dev, DeviceComes(d)
      PROVE  FALSE
  <2>1. \E needed, s : PassIf(needed, s, changes)
    BY <1>4 DEF DeviceComes
  <2>2. Len(changes') >= Len(changes)
    BY <2>1, <1>1, PassAdds
  <2> QED
    BY <2>2, <1>1
<1>5. ~ProfileChanges
  <2>1. SUFFICES ASSUME ProfileChanges PROVE FALSE
    OBVIOUS
  <2> DEFINE x == [Current EXCEPT !.changed = TRUE]
             pending == Append(Rest, x)
  <2>2. changes' = pending \/ \E needed, s : PassIf(needed, s, pending)
    BY <2>1 DEF ProfileChanges
  <2>3. Current \in CardChange
    BY WhenChanging
  <2>4. x \in CardChange
    BY <2>3 DEF CardChange
  <2> HIDE DEF x
  <2>5. pending \in Seq(CardChange) /\ Len(pending) = Len(changes)
    BY <2>4, <1>1, <1>2
  <2> HIDE DEF pending
  <2>6. Len(changes') >= Len(changes)
    BY <2>2, <2>5, <1>1, PassAdds
  <2> QED
    BY <2>6, <1>1
<1>6. ASSUME NEW c \in Card
      PROVE  /\ ~UnplugCard(c)
             /\ \A p \in ProfilesOf(c) : ~PlugCard(c, p) /\ ~ChangeProfile(c, p)
             /\ \A q, v : ~BluetoothPortChanges(c, q, v) /\ ~AlsaPortChanges(c, q, v)
  <2>1. ~UnplugCard(c)
    BY DEF UnplugCard
  <2>2. \A p \in ProfilesOf(c) : ~PlugCard(c, p) /\ ~ChangeProfile(c, p)
    BY DEF PlugCard, ChangeProfile
  <2>3. \A q, v : ~BluetoothPortChanges(c, q, v) /\ ~AlsaPortChanges(c, q, v)
    BY DEF BluetoothPortChanges, AlsaPortChanges
  <2> QED
    BY <2>1, <2>2, <2>3
<1>7. \A d \in Dev, q \in Port : ~ChangePort(d, q)
  BY DEF ChangePort
<1>8. ~MakeRouting
  BY DEF MakeRouting
<1> QED
  BY <1>3, <1>4, <1>5, <1>6, <1>7, <1>8 DEF Next

LEMMA ConsideredHasKey ==
  ASSUME NEW c \in Card, NEW p \in ProfilesOf(c), NEW d \in Considered(c, p), BluetoothPorts
  PROVE  HasKey(d)
<1>1. d \in DevsOf[c][p]
  BY DEF Considered
<1>2. CASE c \in Alsa
  <2>1. <<d, None, None>> \in AlsaKeys(c, p) \/ \E q : <<d, q, None>> \in AlsaKeys(c, p)
    <3>1. CASE PortsFor[d][p] = {}
      BY <3>1 DEF AlsaKeys
    <3>2. CASE PortsFor[d][p] # {}
      <4>1. PICK q : q \in PortsFor[d][p]
        BY <3>2
      <4>2. <<d, q, None>> \in AlsaKeys(c, p)
        BY <3>2, <4>1 DEF AlsaKeys
      <4> QED
        BY <4>2
    <3> QED
      BY <3>1, <3>2
  <2>2. AlsaKeys(c, p) \subseteq Key
    BY <1>2, AlsaKeyKnown DEF Key
  <2>3. \E q : <<d, q, None>> \in Key
    BY <2>1, <2>2
  <2> QED
    BY <2>3 DEF HasKey
<1>3. CASE c \notin Alsa
  <2>1. PICK q : q \in PortsFor[d][p]
    BY <1>1, <1>3, NotBoth DEF BluetoothPorts
  <2>2. <<d, q, p>> \in KeysOf[c]
    <3>1. q \in IF PortsFor[d][p] = {} THEN {None} ELSE PortsFor[d][p]
      BY <2>1
    <3>2. c \in Bluetooth
      BY <1>3, NotBoth
    <3> QED
      BY <1>1, <3>1, <3>2, KeyThere
  <2>3. <<d, q, p>> \in Key
    BY <2>2 DEF Key
  <2> QED
    BY <2>3 DEF HasKey
<1> QED
  BY <1>2, <1>3

LEMMA ComeKept ==
  ASSUME IInv, ComeInv, BluetoothPorts, Next, ~Idle, Len(changes') < Len(changes), NEW c \in Card,
         Current.card = c, Current.kind \in {"plug", "route"}, NEW d \in Considered(c, active'[c])
  PROVE  byptr'[d] # None /\ (c \in Bluetooth => byptr'[d][3] = active'[c])
<1>1. /\ Current = changes[Len(changes)] /\ Len(changes) \in DOMAIN changes
      /\ Current \in CardChange /\ ChangeOK(Nodes, plugged, active, Current)
      /\ Nodes.live = live /\ Nodes.byptr = byptr
  <2>1. DOMAIN changes = 1 .. Len(changes) /\ Nodes.live = live /\ Nodes.byptr = byptr
    BY InvParts
  <2>2. /\ Len(changes) \in {1, 2} /\ Current = changes[Len(changes)]
        /\ Current \in CardChange /\ ChangeOK(Nodes, plugged, active, Current)
    BY WhenChanging
  <2> QED
    BY <2>1, <2>2
<1>2. ASSUME Current.left = {}, active[c] = Current.to, DevsOf[c][Current.to] \subseteq live,
             d \in Considered(c, Current.to)
      PROVE  d \in Dev /\ CardOf[d] = c
             /\ byptr[d] # None /\ (c \in Bluetooth => byptr[d][3] = Current.to)
  <2>1. Current.to \in ProfilesOf(c)
    BY <1>1 DEF ChangeOK
  <2>2. d \in DevsOf[c][Current.to] /\ HasKey(d)
    BY <1>2, <2>1, ConsideredHasKey DEF Considered
  <2>3. d \in Dev /\ CardOf[d] = c
    BY <2>1, <2>2, DevOfProfile
  <2>4. d \in Nodes.live \ Current.left
    BY <1>1, <1>2, <2>2
  <2> QED
    BY <1>1, <2>2, <2>3, <2>4 DEF ComeInv, ComeLinked
<1>3. CASE PlugDone
  <2>1. /\ Current.left = {} /\ Current.kind = "plug" /\ DevsOf[c][Current.to] \subseteq live
        /\ active' = active /\ byptr' = byptr
    BY <1>3 DEF PlugDone, Moved
  <2>2. active[c] = Current.to
    BY <1>1, <2>1 DEF ChangeOK
  <2> QED
    BY <1>2, <2>1, <2>2
<1>4. CASE ProfileChanged
  <2>1. Current.changed
    BY <1>4 DEF ProfileChanged
  <2>2. Current.left = {} /\ active[c] = Current.to /\ DevsOf[c][Current.to] \subseteq live
    BY <1>1, <2>1 DEF ChangeOK
  <2>3. /\ active' = active
        /\ \A e \in Dev : byptr[e] # None =>
             byptr'[e] # None /\ (CardOf[e] \in Bluetooth => byptr'[e] = byptr[e])
    BY <1>4, ProfileChangedKeeps
  <2>4. /\ d \in Dev /\ CardOf[d] = c
        /\ byptr[d] # None /\ (c \in Bluetooth => byptr[d][3] = Current.to)
    BY <1>2, <2>2, <2>3
  <2> QED
    BY <2>2, <2>3, <2>4
<1>5. CASE UnplugDone
  BY <1>5 DEF UnplugDone
<1> QED
  BY <1>3, <1>4, <1>5, OnlyDone

(* switch.c, set_profile, and what tracker.c tells discover.c: a profile   *)
(* that the module sets brings the sinks and sources it was set for, and   *)
(* they are linked with the nodes of that profile when it is done.  Every  *)
(* sink and source of a bluetooth card must have a port, as handle_        *)
(* bluetooth_card makes nodes for ports only.                              *)
THEOREM ComesAreLinked ==
  ASSUME BluetoothPorts
  PROVE  Spec => ComesLinked
<1> DEFINE Goal == \A c \in Card :
                     /\ ~Idle /\ Len(changes') < Len(changes)
                     /\ Current.card = c /\ Current.kind \in {"plug", "route"}
                     => \A d \in Considered(c, active'[c]) :
                          /\ byptr'[d] # None
                          /\ c \in Bluetooth => byptr'[d][3] = active'[c]
<1>1. Init => IInv /\ ComeInv
  BY Initial
<1>2. (IInv /\ ComeInv) /\ [Next]_vars => (IInv /\ ComeInv)'
  BY Inductive
<1>3. (IInv /\ ComeInv) /\ [Next]_vars => [Goal]_vars
  BY ComeKept
<1>4. Spec => [][Goal]_vars
  <2> HIDE DEF Goal
  <2> QED
    BY <1>1, <1>2, <1>3, PTL DEF Spec
<1> QED
  BY <1>4 DEF ComesLinked

=============================================================================
