---------------------------- MODULE RouterProofs ----------------------------
(***************************************************************************)
(* Proofs about Router, for every set of streams, devices and units, every *)
(* configuration of the routing groups, any number of connections and any  *)
(* choice of what can fail.                                                *)
(***************************************************************************)
EXTENDS Router, SequenceTheorems, WellFoundedInduction, TLAPS

-----------------------------------------------------------------------------
(* Sequences: what the two list operations return.                         *)

(* A non-empty set of naturals has a least element.                        *)
LEMMA LeastNat ==
  ASSUME NEW T, T \subseteq Nat, T # {}
  PROVE  \E x \in T : \A y \in T : x <= y
<1>1. \E x \in T : \A y \in T : <<y, x>> \notin OpToRel(<, Nat)
  BY NatLessThanWellFounded, WFMin
<1>2. PICK x \in T : \A y \in T : <<y, x>> \notin OpToRel(<, Nat)
  BY <1>1
<1>3. ASSUME NEW y \in T PROVE x <= y
  <2>1. ~(y < x)
    BY <1>2, <1>3, x \in Nat, y \in Nat DEF OpToRel
  <2> QED
    BY <2>1, x \in Nat, y \in Nat
<1> QED
  BY <1>2, <1>3

(* A non-empty set of naturals with an upper bound has a greatest element. *)
LEMMA GreatestNat ==
  ASSUME NEW b \in Nat, NEW T, T \subseteq 0 .. b, T # {}
  PROVE  \E x \in T : \A y \in T : y <= x
<1> DEFINE U == {b - y : y \in T}
<1>1. U \subseteq Nat
  BY \A y \in T : y \in 0 .. b
<1>2. U # {}
  <2>1. PICK y \in T : TRUE
    OBVIOUS
  <2> QED
    BY <2>1
<1>3. PICK u \in U : \A v \in U : u <= v
  BY <1>1, <1>2, LeastNat
<1>4. PICK x \in T : u = b - x
  BY <1>3
<1>5. ASSUME NEW y \in T PROVE y <= x
  <2>1. b - x <= b - y
    BY <1>3, <1>4
  <2> QED
    BY <2>1, x \in 0 .. b, y \in 0 .. b
<1> QED
  BY <1>5

LEMMA InsertAtType ==
  ASSUME NEW S, NEW list \in Seq(S), NEW k \in DOMAIN list, NEW x \in S
  PROVE  InsertAt(list, k, x) \in Seq(S)
<1>1. SubSeq(list, 1, k - 1) \in Seq(S)
  BY SubSeqProperties, \A j \in 1 .. k - 1 : list[j] \in S
<1>2. SubSeq(list, k, Len(list)) \in Seq(S)
  BY SubSeqProperties, \A j \in k .. Len(list) : list[j] \in S
<1>3. <<x>> \in Seq(S)
  OBVIOUS
<1> QED
  BY <1>1, <1>2, <1>3, ConcatProperties DEF InsertAt

LEMMA RemoveAtType ==
  ASSUME NEW S, NEW list \in Seq(S), NEW k \in DOMAIN list
  PROVE  RemoveAt(list, k) \in Seq(S)
<1>1. SubSeq(list, 1, k - 1) \in Seq(S)
  BY SubSeqProperties, \A j \in 1 .. k - 1 : list[j] \in S
<1>2. SubSeq(list, k + 1, Len(list)) \in Seq(S)
  BY SubSeqProperties, \A j \in k + 1 .. Len(list) : list[j] \in S
<1> QED
  BY <1>1, <1>2, ConcatProperties DEF RemoveAt

LEMMA InsertByRankType ==
  ASSUME NEW S, NEW list \in Seq(S), NEW x \in S, NEW rank
  PROVE  InsertByRank(list, x, rank) \in Seq(S)
<1> DEFINE Above == {k \in DOMAIN list : rank[x] < rank[list[k]]}
           k == CHOOSE j \in Above : \A l \in Above : j <= l
<1>1. CASE Above = {}
  BY <1>1 DEF InsertByRank
<1>2. CASE Above # {}
  <2>1. k \in DOMAIN list
    BY <1>2, LeastNat, Above \subseteq Nat
  <2>2. InsertByRank(list, x, rank) = InsertAt(list, k, x)
    BY <1>2 DEF InsertByRank
  <2> HIDE DEF k
  <2> QED
    BY <2>1, <2>2, InsertAtType
<1> QED
  BY <1>1, <1>2

LEMMA UnlinkType ==
  ASSUME NEW S, NEW list \in Seq(S), NEW x
  PROVE  Unlink(list, x) \in Seq(S)
<1> DEFINE k == CHOOSE j \in DOMAIN list : list[j] = x
<1>1. CASE x \in ToSet(list)
  <2>1. k \in DOMAIN list
    BY <1>1 DEF ToSet
  <2>2. Unlink(list, x) = RemoveAt(list, k)
    BY <1>1 DEF Unlink
  <2> HIDE DEF k
  <2> QED
    BY <2>1, <2>2, RemoveAtType
<1>2. CASE x \notin ToSet(list)
  BY <1>2 DEF Unlink
<1> QED
  BY <1>1, <1>2

-----------------------------------------------------------------------------
(* The results of switches and links, and of find_default_route.           *)

(* What a switch can leave behind.                                         *)
RType == [mode : [Unit -> Mode], attached : SUBSET Device, available : SUBSET registered,
          at : [Start -> Unit \cup {None}]]

(* The loops stay inside the lists they walk, a stream is prerouted only   *)
(* if there is one, and only nodes that exist are available.               *)
LoopsInside ==
  /\ available \subseteq registered
  /\ phase = "explicit" => i <= Len(connlist)
  /\ phase \in {"data", "start"} => i <= Len(nodlist)
  /\ phase = "data" => data # None

TInv == TypeOK /\ LoopsInside

LEMMA HereType == TInv => Here \in RType
BY DEF TInv, TypeOK, LoopsInside, Here, RType

LEMMA ProfileWithType ==
  ASSUME TInv, NEW u, NEW m \in Mode, NEW new \in SUBSET registered
  PROVE  ProfileWith(u, m, new) \in RType
<1>1. /\ [mode EXCEPT ![u] = m] \in [Unit -> Mode]
      /\ (attached \ DevicesOn(u)) \cup new \in SUBSET Device
      /\ available \cup new \in SUBSET registered
  BY DEF TInv, TypeOK, LoopsInside
<1>2. [s \in Start |-> IF at[s] = u THEN NullUnit ELSE at[s]] \in [Start -> Unit \cup {None}]
  BY RouterConfig DEF TInv, TypeOK, PlainUnit
<1> QED
  BY <1>1, <1>2 DEF ProfileWith, RType

LEMMA ProfileSwitchedType ==
  ASSUME TInv, NEW u, NEW m \in Mode
  PROVE  ProfileSwitched(u, m) \in RType
BY ProfileWithType DEF ProfileSwitched, NodesFor

LEMMA ProfileForcedType ==
  ASSUME TInv, NEW u, NEW m \in Mode
  PROVE  ProfileForced(u, m) \in RType
<1> DEFINE Old(d) == NodesFound(d, mode[u])
           new == UNION {IF Old(d) = {} THEN {d} ELSE Old(d) : d \in NodesFor(u, m)}
<1>1. new \subseteq registered
  BY DEF NodesFound, NodesFor
<1>2. ProfileForced(u, m) = ProfileWith(u, m, new)
  BY DEF ProfileForced
<1> HIDE DEF new
<1> QED
  BY <1>1, <1>2, ProfileWithType

LEMMA SwitchResultsType ==
  ASSUME TInv, NEW d \in Device, NEW r \in SwitchResults(d)
  PROVE  r \in RType
<1>1. UnitOf[d] \in Unit /\ ModeOf[d] \in Mode
  BY RouterConfig
<1>2. PortSwitched(d) \in RType
  BY <1>1 DEF TInv, TypeOK, LoopsInside, RType, PortSwitched, DevicesOn, Here
<1>3. ProfileSwitched(UnitOf[d], ModeOf[d]) \in RType
  BY <1>1, ProfileSwitchedType
<1> QED
  BY <1>2, <1>3, HereType DEF SwitchResults

LEMMA LinkResultsType ==
  ASSUME TInv, NEW n \in Start, NEW d \in Device, NEW l \in LinkResults(n, d)
  PROVE  l.r \in RType
<1>1. PICK r \in SwitchResults(d) :
        l.r \in {r, [r EXCEPT !.at[n] = UnitOf[d]]}
  BY DEF LinkResults
<1>2. r \in RType
  BY SwitchResultsType
<1>3. [r EXCEPT !.at[n] = UnitOf[d]] \in RType
  BY <1>2, RouterConfig DEF RType
<1> QED
  BY <1>1, <1>2, <1>3

LEMMA BecomesType ==
  ASSUME NEW r \in RType, Becomes(r)
  PROVE  /\ mode' \in [Unit -> Mode] /\ attached' \subseteq Device
         /\ available' \subseteq registered /\ at' \in [Start -> Unit \cup {None}]
BY DEF RType, Becomes

LEMMA FoundType ==
  ASSUME TInv, NEW n \in Start
  PROVE  /\ Found(n) \in Device \cup {None}
         /\ Found(n) # None => Open(Found(n))
<1> DEFINE g == GroupOf[n]
           K == {k \in DOMAIN entries[g] : Open(entries[g][k])}
           last == CHOOSE k \in K : \A l \in K : l <= k
<1>1. CASE g = None \/ K = {}
  BY <1>1 DEF Found
<1>2. CASE g # None /\ K # {}
  <2>1. g \in RtGroup
    BY <1>2, RouterConfig
  <2>2. entries[g] \in Seq(Device)
    BY <2>1 DEF TInv, TypeOK
  <2>3. K \subseteq 0 .. Len(entries[g]) /\ Len(entries[g]) \in Nat
    BY <2>2
  <2>4. last \in K
    BY <1>2, <2>3, GreatestNat
  <2>5. Found(n) = entries[g][last]
    BY <1>2 DEF Found
  <2> HIDE DEF last
  <2>6. last \in DOMAIN entries[g] /\ Open(entries[g][last])
    BY <2>4
  <2> QED
    BY <2>2, <2>5, <2>6
<1> QED
  BY <1>1, <1>2

-----------------------------------------------------------------------------
(* Type correctness: one lemma per group of actions.                       *)

USE DEF vars, nodeVars, switchVars, passVars

LEMMA ExplicitRouteType == ASSUME TInv, ExplicitRoute PROVE TInv'
<1> DEFINE c == connlist[i]
<1>1. i \in 1 .. Len(connlist)
  BY DEF TInv, TypeOK, LoopsInside, ExplicitRoute
<1>2. c.from \in Stream \cup {None} /\ c.to \in Device \cup {None}
  <2>1. c \in [from : Stream \cup {None}, to : Device \cup {None}, blocked : BOOLEAN]
    BY <1>1, ElementOfSeq DEF TInv, TypeOK
  <2> HIDE DEF c
  <2> QED
    BY <2>1
<1>3. CASE UNCHANGED <<switchVars, stamped>>
  BY <1>1, <1>3 DEF TInv, TypeOK, LoopsInside, ExplicitRoute
<1>4. CASE c.from # None /\ c.to # None /\
           \E l \in LinkResults(c.from, c.to) :
              Becomes(l.r) /\ stamped' \in {stamped \cup {c.from}, stamped}
  <2>1. c.from \in Start /\ c.to \in Device
    BY <1>2, <1>4 DEF Start
  <2>2. PICK l \in LinkResults(c.from, c.to) :
               Becomes(l.r) /\ stamped' \in {stamped \cup {c.from}, stamped}
    BY <1>4
  <2>3. l.r \in RType
    BY <2>1, <2>2, LinkResultsType
  <2>4. /\ mode' \in [Unit -> Mode] /\ attached' \subseteq Device
        /\ available' \subseteq registered /\ at' \in [Start -> Unit \cup {None}]
    BY <2>2, <2>3, BecomesType
  <2>5. stamped' \subseteq Start
    BY <2>1, <2>2 DEF TInv, TypeOK
  <2> HIDE DEF c
  <2> QED
    BY <1>1, <2>4, <2>5 DEF TInv, TypeOK, LoopsInside, ExplicitRoute
<1> QED
  BY <1>3, <1>4 DEF ExplicitRoute

LEMMA ExplicitDoneType == ASSUME TInv, ExplicitDone PROVE TInv'
BY DEF TInv, TypeOK, LoopsInside, ExplicitDone

(* A pass touches nothing else when a route is made for n.                 *)
RouteTyped ==
  /\ mode' \in [Unit -> Mode] /\ attached' \subseteq Device
  /\ available' \subseteq registered /\ at' \in [Start -> Unit \cup {None}]
  /\ marked' \subseteq Device /\ blocked' \subseteq Device
  /\ target' \in [Start -> Device \cup {None}]

LEMMA ConstrainApplyType ==
  ASSUME TInv, NEW d \in Device, ConstrainApply(d)
  PROVE  marked' \subseteq Device /\ blocked' \subseteq Device
BY DEF TInv, TypeOK, ConstrainApply, Peers, DevicesOn

LEMMA RouteUnchangedType ==
  ASSUME TInv, UNCHANGED <<switchVars, marked, blocked, target>>
  PROVE  RouteTyped
BY DEF TInv, TypeOK, LoopsInside, RouteTyped

LEMMA RouteStartType ==
  ASSUME TInv, NEW n \in Start, RouteStart(n)
  PROVE  RouteTyped
<1>1. CASE Found(n) = None
  BY <1>1, RouteUnchangedType DEF RouteStart
<1>2. CASE Found(n) # None
  <2>1. Found(n) \in Device
    BY <1>2, FoundType
  <2>2. PICK l \in LinkResults(n, Found(n)) : Becomes(l.r)
    BY <1>2 DEF RouteStart
  <2>3. l.r \in RType
    BY <2>1, LinkResultsType
  <2>4. marked' \subseteq Device /\ blocked' \subseteq Device
    BY <1>2, <2>1, ConstrainApplyType DEF RouteStart
  <2>5. target' \in [Start -> Device \cup {None}]
    BY <1>2, <2>1 DEF RouteStart, TInv, TypeOK
  <2> QED
    BY <2>2, <2>3, <2>4, <2>5, BecomesType DEF RouteTyped
<1> QED
  BY <1>1, <1>2

LEMMA RouteDataType ==
  ASSUME TInv, data # None, RouteData
  PROVE  RouteTyped
<1>0. data \in Start
  BY DEF TInv, TypeOK
<1>1. CASE Found(data) = None
  BY <1>1, RouteUnchangedType DEF RouteData
<1>2. CASE Found(data) # None
  <2>1. Found(data) \in Device
    BY <1>0, <1>2, FoundType
  <2>2. PICK r \in SwitchResults(Found(data)) : Becomes(r)
    BY <1>2 DEF RouteData
  <2>3. r \in RType
    BY <2>1, SwitchResultsType
  <2>4. marked' \subseteq Device /\ blocked' \subseteq Device
    BY <1>2, <2>1, ConstrainApplyType DEF RouteData
  <2>5. target' \in [Start -> Device \cup {None}]
    BY <1>2, <2>1 DEF RouteData, TInv, TypeOK
  <2> QED
    BY <2>2, <2>3, <2>4, <2>5, BecomesType DEF RouteTyped
<1> QED
  BY <1>1, <1>2

LEMMA DataTurnType == ASSUME TInv, DataTurn PROVE TInv'
<1>1. RouteTyped
  BY RouteUnchangedType, RouteDataType DEF TInv, LoopsInside, DataTurn
<1>2. i' \in Nat /\ i' <= i /\ phase' \in {"data", "start"} /\ done' \in BOOLEAN
  <2>1. i \in Nat /\ i > 0 /\ done \in BOOLEAN
    BY DEF TInv, TypeOK, DataTurn
  <2>2. CASE Skipped(nodlist[i])
    BY <2>1, <2>2 DEF DataTurn
  <2>3. CASE ~Skipped(nodlist[i])
    <3>1. i' = i /\ phase' = "start"
      BY <2>3 DEF DataTurn
    <3>2. done' \in {TRUE, done}
      BY <2>3 DEF DataTurn
    <3>3. done' \in BOOLEAN
      BY <2>1, <3>2, Zenon
    <3> QED
      BY <2>1, <3>1, <3>3
  <2> QED
    BY <2>2, <2>3
<1>3. /\ UNCHANGED <<nodeVars, data, stamped, unrouted, connlist, job, deferred>>
      /\ phase = "data"
  BY DEF DataTurn
<1> QED
  BY <1>1, <1>2, <1>3 DEF TInv, TypeOK, LoopsInside, RouteTyped

LEMMA StartTurnType == ASSUME TInv, StartTurn PROVE TInv'
<1>1. i \in 1 .. Len(nodlist) /\ nodlist[i] \in Start
  BY DEF TInv, TypeOK, LoopsInside, StartTurn
<1>2. RouteTyped
  BY <1>1, RouteUnchangedType, RouteStartType DEF StartTurn
<1>3. /\ UNCHANGED <<nodeVars, data, done, stamped, unrouted, connlist, job, deferred>>
      /\ i' = i - 1 /\ phase' \in {"data", "start"} /\ (phase' = "data" => data # None)
  BY DEF StartTurn
<1>4. i' \in Nat /\ i' <= Len(nodlist')
  BY <1>1, <1>3 DEF TInv, TypeOK
<1>5. TypeOK'
  BY <1>2, <1>3, <1>4 DEF TInv, TypeOK, RouteTyped
<1> QED
  BY <1>2, <1>3, <1>4, <1>5 DEF TInv, TypeOK, LoopsInside, RouteTyped

LEMMA PassDoneType == ASSUME TInv, PassDone PROVE TInv'
BY DEF TInv, TypeOK, LoopsInside, PassDone

LEMMA DataLastType == ASSUME TInv, DataLast PROVE TInv'
<1>1. RouteTyped
  BY RouteDataType DEF TInv, LoopsInside, DataLast
<1> QED
  BY <1>1 DEF TInv, TypeOK, LoopsInside, RouteTyped, DataLast

LEMMA DataDoneType == ASSUME TInv, DataDone PROVE TInv'
<1>1. data \in Start
  BY DEF TInv, TypeOK, LoopsInside, DataDone
<1>2. at' \in [Start -> Unit \cup {None}]
  BY <1>1, RouterConfig DEF TInv, TypeOK, DataDone, Placements, PlainUnit
<1>3. nodlist' \in Seq(Start) /\ looped' \subseteq Gateway
  BY <1>1, InsertByRankType DEF TInv, TypeOK, DataDone, NodlistWith, Start
<1> QED
  BY <1>2, <1>3 DEF TInv, TypeOK, LoopsInside, DataDone

(* A pass begins at the newest connection.                                 *)
LEMMA BeginPassType ==
  ASSUME TInv, NEW n \in Start \cup {None}, BeginPass(n), job' \in Unit \cup {None},
         available' \subseteq registered', registered' \subseteq Device,
         attached' \subseteq Device,
         mode' \in [Unit -> Mode], at' \in [Start -> Unit \cup {None}],
         entries' \in [RtGroup -> Seq(Device)],
         nodlist' \in Seq(Start), looped' \subseteq Gateway,
         target' \in [Start -> Device \cup {None}], deferred' \in BOOLEAN,
         connlist' \in Seq([from : Stream \cup {None}, to : Device \cup {None},
                            blocked : BOOLEAN])
  PROVE  TInv'
<1>1. /\ i' = Len(connlist') /\ i' \in Nat /\ phase' = "explicit"
      /\ data' = n /\ stamped' = {} /\ marked' = {} /\ blocked' = blocked /\ unrouted' = {}
  BY DEF BeginPass
<1>2. done' \in BOOLEAN
  BY DEF BeginPass
<1>3. blocked' \subseteq Device
  BY <1>1 DEF TInv, TypeOK
<1>4. LoopsInside'
  BY <1>1 DEF LoopsInside
<1> QED
  BY <1>1, <1>2, <1>3, <1>4 DEF TInv, TypeOK, LoopsInside

LEMMA PlugUnitType == ASSUME TInv, NEW u \in Unit, PlugUnit(u) PROVE TInv'
BY DEF TInv, TypeOK, LoopsInside, PlugUnit

LEMMA CreateNodeType ==
  ASSUME TInv, NEW d \in Device, NEW avail \in BOOLEAN, CreateNode(d, avail)
  PROVE  TInv'
<1>1. entries' \in [RtGroup -> Seq(Device)]
  <2>1. ASSUME NEW g \in RtGroup
        PROVE  InsertByRank(entries[g], d, Rank[g]) \in Seq(Device) /\ entries[g] \in Seq(Device)
    BY InsertByRankType DEF TInv, TypeOK
  <2> QED
    BY <2>1 DEF CreateNode
<1> QED
  BY <1>1 DEF TInv, TypeOK, LoopsInside, CreateNode

LEMMA PlugDoneType == ASSUME TInv, NEW m \in Mode, PlugDone(m) PROVE TInv'
<1>1. /\ mode' \in [Unit -> Mode] /\ attached' \subseteq Device
      /\ available' \subseteq registered /\ at' \in [Start -> Unit \cup {None}]
      /\ deferred' \in BOOLEAN
  <2>1. CASE job \in PlainUnit
    BY <2>1, RouterConfig DEF PlugDone, TInv, TypeOK, LoopsInside, PlainUnit, DevicesOn
  <2>2. CASE job \in PortUnit
    <3>1. job \notin PlainUnit /\ job \notin ProfileUnit
      BY <2>2, RouterConfig DEF PlainUnit
    <3>2. PICK d \in DevicesOn(job) :
               attached' = attached \cup {d} /\ available' = available \cup {d}
      BY <3>1 DEF PlugDone
    <3>3. d \in Device /\ d \in registered
      BY <3>2 DEF PlugDone, DevicesOn
    <3>4. mode' = [mode EXCEPT ![job] = m] /\ UNCHANGED <<at, deferred>>
      BY <3>1 DEF PlugDone
    <3> QED
      BY <3>2, <3>3, <3>4 DEF TInv, TypeOK, LoopsInside
  <2>3. CASE job \in ProfileUnit
    <3>1. Becomes(ProfileSwitched(job, m)) /\ deferred' = TRUE
      BY <2>3, RouterConfig DEF PlugDone, PlainUnit
    <3> QED
      BY <3>1, ProfileSwitchedType, BecomesType
  <2> QED
    BY <2>1, <2>2, <2>3 DEF PlugDone
<1>2. UNCHANGED <<nodeVars, connlist, target>> /\ job' = None
  BY DEF PlugDone
<1>3. CASE /\ phase' = "idle" /\ unrouted' \in {unrouted, unrouted \cup DevicesOn(job)}
           /\ UNCHANGED <<i, data, done, stamped, marked, blocked, target>>
  <2>1. unrouted' \subseteq Start \cup Device
    BY <1>3 DEF TInv, TypeOK, DevicesOn
  <2> QED
    BY <1>1, <1>2, <1>3, <2>1 DEF TInv, TypeOK, LoopsInside
<1>4. CASE BeginPass(None)
  BY <1>1, <1>2, <1>4, BeginPassType DEF TInv, TypeOK
<1> QED
  BY <1>3, <1>4 DEF PlugDone

LEMMA UnplugUnitType == ASSUME TInv, NEW u \in Unit, UnplugUnit(u) PROVE TInv'
<1>1. /\ mode' \in [Unit -> Mode] /\ attached' \subseteq Device
      /\ available' \subseteq registered /\ at' \in [Start -> Unit \cup {None}]
  BY RouterConfig DEF UnplugUnit, TInv, TypeOK, LoopsInside, PlainUnit
<1>2. deferred' \in BOOLEAN
  BY DEF UnplugUnit
<1> QED
  BY <1>1, <1>2 DEF TInv, TypeOK, LoopsInside, UnplugUnit

LEMMA DestroyNodeType == ASSUME TInv, NEW d \in Device, DestroyNode(d) PROVE TInv'
<1>1. entries' \in [RtGroup -> Seq(Device)]
  <2>1. ASSUME NEW g \in RtGroup PROVE Unlink(entries[g], d) \in Seq(Device)
    BY UnlinkType DEF TInv, TypeOK
  <2> QED
    BY <2>1 DEF DestroyNode
<1> DEFINE C == [from : Stream \cup {None}, to : Device \cup {None}, blocked : BOOLEAN]
<1>2. connlist \in Seq(C)
  BY DEF TInv, TypeOK
<1>3. ASSUME NEW k \in DOMAIN connlist
      PROVE  connlist[k] \in C /\ [connlist[k] EXCEPT !.to = None] \in C
  <2>1. ASSUME NEW c \in C PROVE [c EXCEPT !.to = None] \in C
    OBVIOUS
  <2> HIDE DEF C
  <2> QED
    BY <1>2, <2>1
<1>4. connlist' \in Seq(C)
  BY <1>2, <1>3 DEF DestroyNode
<1> QED
  BY <1>1, <1>4 DEF TInv, TypeOK, LoopsInside, DestroyNode

LEMMA UnplugDoneType == ASSUME TInv, UnplugDone PROVE TInv'
BY BeginPassType DEF TInv, TypeOK, LoopsInside, UnplugDone

LEMMA PortAvailableType == ASSUME TInv, NEW d \in Device, PortAvailable(d) PROVE TInv'
<1>1. available' \subseteq registered
  BY DEF PortAvailable, TInv, LoopsInside
<1> QED
  BY <1>1, BeginPassType DEF TInv, TypeOK, PortAvailable

LEMMA ProfileChangedType ==
  ASSUME TInv, NEW u \in Unit, NEW m \in Mode, ProfileChanged(u, m)
  PROVE  TInv'
<1>1. /\ mode' \in [Unit -> Mode] /\ attached' \subseteq Device
      /\ available' \subseteq registered /\ at' \in [Start -> Unit \cup {None}]
  BY ProfileForcedType, BecomesType DEF ProfileChanged
<1> QED
  BY <1>1 DEF TInv, TypeOK, LoopsInside, ProfileChanged

LEMMA PortChangedType == ASSUME TInv, NEW d \in Device, PortChanged(d) PROVE TInv'
BY RouterConfig DEF TInv, TypeOK, LoopsInside, PortChanged

LEMMA DeferredRoutingType == ASSUME TInv, DeferredRouting PROVE TInv'
BY BeginPassType DEF TInv, TypeOK, LoopsInside, DeferredRouting

LEMMA NewStreamType == ASSUME TInv, NEW s \in Stream, NewStream(s) PROVE TInv'
BY BeginPassType DEF TInv, TypeOK, LoopsInside, NewStream, Start

LEMMA RemoveStreamType == ASSUME TInv, NEW s \in Stream, RemoveStream(s) PROVE TInv'
<1>1. nodlist' \in Seq(Start)
  BY UnlinkType DEF TInv, TypeOK, RemoveStream
<1> DEFINE C == [from : Stream \cup {None}, to : Device \cup {None}, blocked : BOOLEAN]
<1>2. connlist \in Seq(C)
  BY DEF TInv, TypeOK
<1>3. ASSUME NEW k \in DOMAIN connlist
      PROVE  connlist[k] \in C /\ [connlist[k] EXCEPT !.from = None] \in C
  <2>1. ASSUME NEW c \in C PROVE [c EXCEPT !.from = None] \in C
    OBVIOUS
  <2> HIDE DEF C
  <2> QED
    BY <1>2, <2>1
<1>4. connlist' \in Seq(C)
  BY <1>2, <1>3 DEF RemoveStream
<1>5. /\ at' \in [Start -> Unit \cup {None}]
      /\ target' \in [Start -> Device \cup {None}]
  BY DEF TInv, TypeOK, RemoveStream
<1> QED
  BY <1>1, <1>4, <1>5, BeginPassType DEF TInv, TypeOK, LoopsInside, RemoveStream

LEMMA NewChosenType == ASSUME TInv, NEW s \in Chooser, NewChosen(s) PROVE TInv'
<1>1. s \in Start
  BY RouterConfig DEF Start
<1>2. nodlist' \in Seq(Start)
  BY <1>1, InsertByRankType DEF TInv, TypeOK, NewChosen, NodlistWith
<1>3. at' \in [Start -> Unit \cup {None}]
  BY <1>1, RouterConfig DEF TInv, TypeOK, NewChosen
<1> QED
  BY <1>2, <1>3 DEF TInv, TypeOK, LoopsInside, NewChosen

LEMMA NewRecordingType ==
  ASSUME TInv, NEW s \in Recorder, NewRecording(s)
  PROVE  TInv'
BY BeginPassType DEF TInv, TypeOK, LoopsInside, NewRecording, Start

LEMMA RemoveRecordingType ==
  ASSUME TInv, NEW s \in Recorder, RemoveRecording(s)
  PROVE  TInv'
<1>1. /\ at' \in [Start -> Unit \cup {None}]
      /\ target' \in [Start -> Device \cup {None}]
  BY DEF TInv, TypeOK, RemoveRecording
<1> QED
  BY <1>1, BeginPassType DEF TInv, TypeOK, LoopsInside, RemoveRecording

LEMMA AddGatewayType == ASSUME TInv, NEW g \in Gateway, AddGateway(g) PROVE TInv'
<1>1. nodlist' \in Seq(Start)
  BY InsertByRankType DEF TInv, TypeOK, AddGateway, Start
<1> QED
  BY <1>1 DEF TInv, TypeOK, LoopsInside, AddGateway

LEMMA GatewaySourceType == ASSUME TInv, NEW g \in Gateway, GatewaySource(g) PROVE TInv'
BY BeginPassType DEF TInv, TypeOK, LoopsInside, GatewaySource, Start

LEMMA GatewaySourceGoneType ==
  ASSUME TInv, NEW g \in Gateway, GatewaySourceGone(g)
  PROVE  TInv'
BY DEF TInv, TypeOK, LoopsInside, GatewaySourceGone

LEMMA RemoveGatewayType == ASSUME TInv, NEW g \in Gateway, RemoveGateway(g) PROVE TInv'
<1>1. nodlist' \in Seq(Start)
  BY UnlinkType DEF TInv, TypeOK, RemoveGateway
<1> QED
  BY <1>1, BeginPassType DEF TInv, TypeOK, LoopsInside, RemoveGateway

LEMMA AddExplicitRouteType ==
  ASSUME TInv, NEW s \in Stream, NEW d \in Device, AddExplicitRoute(s, d)
  PROVE  TInv'
<1> DEFINE C == [from : Stream \cup {None}, to : Device \cup {None}, blocked : BOOLEAN]
<1>1. connlist' \in Seq(C)
  BY AppendProperties, [from |-> s, to |-> d, blocked |-> FALSE] \in C
  DEF TInv, TypeOK, AddExplicitRoute
<1> QED
  BY <1>1, BeginPassType DEF TInv, TypeOK, LoopsInside, AddExplicitRoute

LEMMA RemoveExplicitRouteType ==
  ASSUME TInv, NEW k, RemoveExplicitRoute(k)
  PROVE  TInv'
<1> DEFINE C == [from : Stream \cup {None}, to : Device \cup {None}, blocked : BOOLEAN]
<1>1. connlist' \in Seq(C)
  BY RemoveAtType DEF TInv, TypeOK, RemoveExplicitRoute
<1>2. at' \in [Start -> Unit \cup {None}]
  <2>1. at' = [at EXCEPT ![connlist[k].from] = NullUnit] \/ at' = at
    BY DEF RemoveExplicitRoute
  <2>2. NullUnit \in Unit
    BY RouterConfig DEF PlainUnit
  <2>3. at \in [Start -> Unit \cup {None}]
    BY DEF TInv, TypeOK
  <2> QED
    BY <2>1, <2>2, <2>3
<1>3. CASE BeginPass(None)
  BY <1>1, <1>2, <1>3, BeginPassType DEF TInv, TypeOK, LoopsInside, RemoveExplicitRoute
<1>4. CASE UNCHANGED <<phase, i, data, done, stamped, marked, blocked>>
           /\ unrouted' \in {unrouted, unrouted \cup {connlist[k].from}}
           /\ (unrouted' # unrouted => connlist[k].from # None)
  <2>1. phase = "idle" /\ phase' = "idle"
    BY <1>4 DEF RemoveExplicitRoute
  <2>2. connlist[k] \in C
    <3>1. connlist \in Seq(C) /\ k \in DOMAIN connlist
      BY DEF TInv, TypeOK, RemoveExplicitRoute
    <3> HIDE DEF C
    <3> QED
      BY <3>1
  <2>3. unrouted' \subseteq Start \cup Device
    BY <1>4, <2>2 DEF TInv, TypeOK, Start
  <2> QED
    BY <1>1, <1>2, <1>4, <2>1, <2>3
    DEF TInv, TypeOK, LoopsInside, RemoveExplicitRoute
<1> QED
  BY <1>3, <1>4 DEF RemoveExplicitRoute, passState, Live

LEMMA InitType == Init => TInv
<1> SUFFICES ASSUME Init PROVE TInv
  OBVIOUS
<1>1. /\ mode \in [Unit -> Mode] /\ at \in [Start -> Unit \cup {None}]
      /\ entries \in [RtGroup -> Seq(Device)] /\ job \in Unit
      /\ target \in [Start -> Device \cup {None}]
  BY RouterConfig DEF Init, PlainUnit
<1>2. nodlist \in Seq(Start) /\ Len(nodlist) = 0
  BY DEF Init
<1>3. connlist \in Seq([from : Stream \cup {None}, to : Device \cup {None},
                        blocked : BOOLEAN])
  BY DEF Init
<1>4. done \in BOOLEAN /\ deferred \in BOOLEAN
  BY DEF Init
<1>5. LoopsInside
  BY DEF Init, LoopsInside
<1> QED
  BY <1>1, <1>2, <1>3, <1>4, <1>5 DEF Init, TInv, TypeOK

LEMMA NextType == TInv /\ [Next]_vars => TInv'
<1> SUFFICES ASSUME TInv, [Next]_vars PROVE TInv'
  OBVIOUS
<1>1. CASE UNCHANGED vars
  BY <1>1 DEF TInv, TypeOK, LoopsInside
<1>2. CASE PassStep
  BY <1>2, ExplicitRouteType, ExplicitDoneType, DataTurnType, StartTurnType, PassDoneType,
     DataLastType, DataDoneType DEF PassStep
<1>3. ASSUME NEW u \in Unit, PlugUnit(u) \/ UnplugUnit(u) PROVE TInv'
  BY <1>3, PlugUnitType, UnplugUnitType
<1>4. ASSUME NEW d \in Device, NEW avail \in BOOLEAN, CreateNode(d, avail) PROVE TInv'
  BY <1>4, CreateNodeType
<1>5. ASSUME NEW d \in Device, DestroyNode(d) \/ PortAvailable(d) \/ PortChanged(d)
      PROVE  TInv'
  BY <1>5, DestroyNodeType, PortAvailableType, PortChangedType
<1>6. ASSUME NEW m \in Mode, PlugDone(m) PROVE TInv'
  BY <1>6, PlugDoneType
<1>7. CASE UnplugDone
  BY <1>7, UnplugDoneType
<1>8. ASSUME NEW u \in Unit, NEW m \in Mode, ProfileChanged(u, m) PROVE TInv'
  BY <1>8, ProfileChangedType
<1>9. CASE DeferredRouting
  BY <1>9, DeferredRoutingType
<1>10. ASSUME NEW s \in Stream, NewStream(s) \/ RemoveStream(s) PROVE TInv'
  BY <1>10, NewStreamType, RemoveStreamType
<1>11. ASSUME NEW g \in Gateway, AddGateway(g) \/ GatewaySource(g) \/ GatewaySourceGone(g)
                                   \/ RemoveGateway(g)
       PROVE  TInv'
  BY <1>11, AddGatewayType, GatewaySourceType, GatewaySourceGoneType, RemoveGatewayType
<1>12. ASSUME NEW s \in Stream, NEW d \in Device, AddExplicitRoute(s, d) PROVE TInv'
  BY <1>12, AddExplicitRouteType
<1>13. ASSUME NEW k \in 1 .. MaxConn, RemoveExplicitRoute(k) PROVE TInv'
  BY <1>13, RemoveExplicitRouteType
<1>14. ASSUME NEW s \in Recorder, NewRecording(s) \/ RemoveRecording(s) PROVE TInv'
  BY <1>14, NewRecordingType, RemoveRecordingType
<1>15. ASSUME NEW s \in Chooser, NewChosen(s) PROVE TInv'
  BY <1>15, NewChosenType
<1> HIDE DEF vars
<1> QED
  BY <1>1, <1>2, <1>3, <1>4, <1>5, <1>6, <1>7, <1>8, <1>9, <1>10, <1>11, <1>12, <1>13,
     <1>14, <1>15
  DEF Next

(* The state of the router has its types in every reachable state, and its *)
(* loops never leave the lists they walk: make_explicit_routes and the     *)
(* walks of router.c over the node list read linked elements only.         *)
THEOREM TypeCorrect == Spec => []TypeOK
<1>1. TInv => TypeOK
  BY DEF TInv
<1> QED
  BY InitType, NextType, <1>1, PTL DEF Spec

-----------------------------------------------------------------------------
(* Default routes never conflict.  NoConflictingRoutes is not inductive: a *)
(* route may be chosen because its entry is not blocked, so the stamps and *)
(* blocked flags have to say of every route of the pass what it excludes.  *)

(* The entries of d's unit carry the stamp, and those are blocked that     *)
(* need another mode than d.                                               *)
Exact(d) ==
  /\ Peers(d) \subseteq marked
  /\ \A e \in Peers(d) : e \in blocked <=> ModeOf[e] # ModeOf[d]

(* Stamps are given to all entries of a unit at once, an entry that is not *)
(* blocked has blocked its rivals, and so has the target of every route.   *)
BlockedRight ==
  /\ \A d \in marked : /\ d \in registered /\ UnitOf[d] \notin PlainUnit
                       /\ Peers(d) \subseteq marked
  /\ \A d \in marked \ blocked : Exact(d)
  /\ \A s \in Start : target[s] # None => target[s] \in registered /\ Exact(target[s])

PassInv ==
  /\ phase = "explicit" => marked = {}
  /\ phase \in {"data", "start"} => BlockedRight

IInv == TInv /\ PassInv /\ NoConflictingRoutes

(* One route: d is open, so no route of the pass excludes it, and after    *)
(* mir_constrain_apply its rivals are blocked.                             *)
LEMMA RouteKeepsBlocked ==
  ASSUME TInv, BlockedRight, NoConflictingRoutes, NEW n \in Start, Found(n) # None,
         target' = [target EXCEPT ![n] = Found(n)], ConstrainApply(Found(n)),
         UNCHANGED registered
  PROVE  BlockedRight' /\ NoConflictingRoutes'
<1> DEFINE d == Found(n)
<1>1. d \in Device /\ d \in registered /\ ~(d \in marked /\ d \in blocked)
  BY FoundType DEF TInv, LoopsInside, Open, Candidate
<1>2. target' = [target EXCEPT ![n] = d] /\ ConstrainApply(d)
  OBVIOUS
<1> HIDE DEF d
<1>3. \A e : Peers(e)' = Peers(e)
  BY DEF Peers
<1>4. ASSUME NEW s \in Start, target[s] # None PROVE ~Conflict(target[s], d)
  <2>1. target[s] \in registered /\ Exact(target[s]) /\ target[s] \in Device
    BY <1>4 DEF BlockedRight, TInv, TypeOK
  <2>2. CASE UnitOf[target[s]] = UnitOf[d] /\ UnitOf[d] \notin PlainUnit
    <3>1. d \in Peers(target[s])
      BY <1>1, <2>2 DEF Peers, DevicesOn
    <3> QED
      BY <1>1, <2>1, <3>1 DEF Exact, Conflict
  <2> QED
    BY <2>2 DEF Conflict
<1>5. NoConflictingRoutes'
  BY <1>2, <1>4 DEF NoConflictingRoutes, Conflict, TInv, TypeOK
<1>6. CASE d \in marked
  <2>1. UNCHANGED <<marked, blocked>>
    BY <1>2, <1>6 DEF ConstrainApply
  <2>2. \A e : Exact(e)' <=> Exact(e)
    BY <1>3, <2>1 DEF Exact
  <2>3. Exact(d)
    BY <1>1, <1>6 DEF BlockedRight
  <2>4. ASSUME NEW s \in Start, target'[s] # None
        PROVE  target'[s] \in registered /\ Exact(target'[s])
    BY <1>1, <1>2, <2>3, <2>4 DEF BlockedRight, TInv, TypeOK
  <2> QED
    BY <1>3, <1>5, <2>1, <2>2, <2>4 DEF BlockedRight
<1>7. CASE d \notin marked
  <2>1. /\ marked' = marked \cup Peers(d)
        /\ blocked' = (blocked \ Peers(d)) \cup {e \in Peers(d) : ModeOf[e] # ModeOf[d]}
    BY <1>2, <1>7 DEF ConstrainApply
  <2>2. \A e \in Peers(d) : /\ e \in registered /\ UnitOf[e] \notin PlainUnit
                            /\ Peers(e) = Peers(d)
    BY DEF Peers, DevicesOn
  <2>3. Peers(d) \cap marked = {}
    <3>1. ASSUME NEW e \in Peers(d), e \in marked PROVE FALSE
      <4>1. d \in Peers(d)
        BY <1>1 DEF Peers, DevicesOn
      <4> QED
        BY <1>7, <2>2, <3>1, <4>1 DEF BlockedRight
    <3> QED
      BY <3>1
  <2>4. ASSUME NEW e, ModeOf[e] = ModeOf[d], Peers(e) = Peers(d) PROVE Exact(e)'
    BY <1>3, <2>1, <2>4 DEF Exact
  <2>5. ASSUME NEW e, Exact(e) PROVE Exact(e)'
    <3>1. Peers(e) \cap Peers(d) = {}
      BY <2>3, <2>5 DEF Exact
    <3> QED
      BY <1>3, <2>1, <2>5, <3>1 DEF Exact
  <2>6. ASSUME NEW e \in marked'
        PROVE  e \in registered /\ UnitOf[e] \notin PlainUnit /\ Peers(e) \subseteq marked'
    BY <2>1, <2>2 DEF BlockedRight
  <2>7. ASSUME NEW e \in marked' \ blocked' PROVE Exact(e)'
    <3>1. CASE e \in Peers(d)
      BY <2>1, <2>2, <2>4, <3>1
    <3>2. CASE e \notin Peers(d)
      BY <2>1, <2>5, <3>2 DEF BlockedRight
    <3> QED
      BY <3>1, <3>2
  <2>8. ASSUME NEW s \in Start, NEW e, e = target'[s], e # None
        PROVE  e \in registered /\ Exact(e)'
    <3>1. CASE s = n
      <4>1. e = d
        BY <1>2, <2>8, <3>1 DEF TInv, TypeOK
      <4> QED
        BY <1>1, <2>4, <4>1
    <3>2. CASE s # n
      <4>1. e = target[s]
        BY <1>2, <2>8, <3>2 DEF TInv, TypeOK
      <4> QED
        BY <2>5, <2>8, <4>1 DEF BlockedRight
    <3> QED
      BY <3>1, <3>2
  <2>9. ASSUME NEW s \in Start, target'[s] # None
        PROVE  target'[s] \in registered /\ Exact(target[s])'
    BY <2>8, <2>9 DEF Exact
  <2> QED
    BY <1>3, <1>5, <2>6, <2>7, <2>9 DEF BlockedRight
<1> QED
  BY <1>6, <1>7

(* Steps that make no route, and are no step of a walk over the node list. *)
LEMMA NoRouteMade ==
  ASSUME NoConflictingRoutes, \A s \in Start : target'[s] \in {target[s], None},
         phase' \in {"idle", "plug", "unplug"} \/ (phase' = "explicit" /\ marked' = {})
  PROVE  PassInv' /\ NoConflictingRoutes'
BY DEF NoConflictingRoutes, PassInv, Conflict

LEMMA UnchangedKeepsBlocked ==
  ASSUME BlockedRight, NoConflictingRoutes,
         UNCHANGED <<registered, marked, blocked, target>>
  PROVE  BlockedRight' /\ NoConflictingRoutes'
BY DEF BlockedRight, Exact, Peers, NoConflictingRoutes

LEMMA RouteStartSafe ==
  ASSUME IInv, BlockedRight, NEW n \in Start, RouteStart(n), UNCHANGED registered
  PROVE  BlockedRight' /\ NoConflictingRoutes'
<1>1. CASE Found(n) = None
  BY <1>1, UnchangedKeepsBlocked DEF IInv, RouteStart
<1>2. CASE Found(n) # None
  BY <1>2, RouteKeepsBlocked DEF IInv, RouteStart
<1> QED
  BY <1>1, <1>2

LEMMA RouteDataSafe ==
  ASSUME IInv, BlockedRight, data # None, RouteData, UNCHANGED registered
  PROVE  BlockedRight' /\ NoConflictingRoutes'
<1>0. data \in Start
  BY DEF IInv, TInv, TypeOK
<1>1. CASE Found(data) = None
  BY <1>1, UnchangedKeepsBlocked DEF IInv, RouteData
<1>2. CASE Found(data) # None
  BY <1>0, <1>2, RouteKeepsBlocked DEF IInv, RouteData
<1> QED
  BY <1>1, <1>2

LEMMA PassStepSafe ==
  ASSUME IInv, PassStep
  PROVE  PassInv' /\ NoConflictingRoutes'
<1>1. CASE ExplicitRoute
  <2>1. phase' = "explicit" /\ UNCHANGED <<marked, target>>
    BY <1>1 DEF ExplicitRoute
  <2>2. marked' = {}
    BY <1>1, <2>1 DEF ExplicitRoute, IInv, PassInv
  <2> QED
    BY <2>1, <2>2, NoRouteMade DEF IInv
<1>2. CASE ExplicitDone
  <2>1. marked' = {} /\ phase' # "explicit" /\ \A s \in Start : target'[s] = None
    BY <1>2 DEF ExplicitDone, IInv, PassInv
  <2> QED
    BY <2>1 DEF PassInv, BlockedRight, NoConflictingRoutes
<1>3. CASE DataTurn
  <2>1. phase = "data" /\ BlockedRight /\ UNCHANGED registered /\ data # None
    BY <1>3 DEF DataTurn, IInv, PassInv, TInv, LoopsInside
  <2>2. RouteData \/ UNCHANGED <<marked, blocked, target>>
    BY <1>3 DEF DataTurn
  <2>3. BlockedRight' /\ NoConflictingRoutes'
    BY <2>1, <2>2, RouteDataSafe, UnchangedKeepsBlocked DEF IInv
  <2>4. phase' # "explicit"
    BY <1>3 DEF DataTurn
  <2> QED
    BY <2>3, <2>4 DEF PassInv
<1>4. CASE StartTurn
  <2>1. BlockedRight /\ UNCHANGED registered
    BY <1>4 DEF StartTurn, IInv, PassInv
  <2>2. nodlist[i] \in Start
    BY <1>4 DEF StartTurn, IInv, TInv, TypeOK, LoopsInside
  <2>3. RouteStart(nodlist[i]) \/ UNCHANGED <<marked, blocked, target>>
    BY <1>4 DEF StartTurn
  <2>4. BlockedRight' /\ NoConflictingRoutes'
    BY <2>1, <2>2, <2>3, RouteStartSafe, UnchangedKeepsBlocked DEF IInv
  <2>5. phase' # "explicit"
    BY <1>4 DEF StartTurn
  <2> QED
    BY <2>4, <2>5 DEF PassInv
<1>5. CASE PassDone
  BY <1>5, NoRouteMade DEF PassDone, IInv
<1>6. CASE DataLast
  <2>1. BlockedRight /\ UNCHANGED registered /\ data # None /\ RouteData /\ phase' = "data"
    BY <1>6 DEF DataLast, IInv, PassInv, TInv, LoopsInside
  <2>2. BlockedRight' /\ NoConflictingRoutes'
    BY <2>1, RouteDataSafe
  <2> QED
    BY <2>1, <2>2 DEF PassInv
<1>7. CASE DataDone
  BY <1>7, NoRouteMade DEF DataDone, IInv
<1> QED
  BY <1>1, <1>2, <1>3, <1>4, <1>5, <1>6, <1>7 DEF PassStep

LEMMA NextSafe ==
  ASSUME IInv, [Next]_vars
  PROVE  PassInv' /\ NoConflictingRoutes'
<1>1. CASE UNCHANGED vars
  BY <1>1, UnchangedKeepsBlocked DEF IInv, PassInv, NoConflictingRoutes
<1>2. CASE PassStep
  BY <1>2, PassStepSafe
<1>3. ASSUME NEW u \in Unit, PlugUnit(u) \/ UnplugUnit(u)
      PROVE  PassInv' /\ NoConflictingRoutes'
  BY <1>3, NoRouteMade DEF IInv, PlugUnit, UnplugUnit
<1>4. ASSUME NEW d \in Device, NEW avail \in BOOLEAN, CreateNode(d, avail)
      PROVE  PassInv' /\ NoConflictingRoutes'
  BY <1>4, NoRouteMade DEF IInv, CreateNode
<1>5. ASSUME NEW d \in Device, DestroyNode(d) \/ PortAvailable(d) \/ PortChanged(d)
      PROVE  PassInv' /\ NoConflictingRoutes'
  BY <1>5, NoRouteMade DEF IInv, DestroyNode, PortAvailable, PortChanged, BeginPass
<1>6. ASSUME NEW m \in Mode, PlugDone(m)
      PROVE  PassInv' /\ NoConflictingRoutes'
  BY <1>6, NoRouteMade DEF IInv, PlugDone, BeginPass
<1>7. CASE UnplugDone
  BY <1>7, NoRouteMade DEF IInv, UnplugDone, BeginPass
<1>8. ASSUME NEW u \in Unit, NEW m \in Mode, ProfileChanged(u, m)
      PROVE  PassInv' /\ NoConflictingRoutes'
  BY <1>8, NoRouteMade DEF IInv, ProfileChanged
<1>9. CASE DeferredRouting
  BY <1>9, NoRouteMade DEF IInv, DeferredRouting, BeginPass
<1>10. ASSUME NEW s \in Stream, NewStream(s) \/ RemoveStream(s)
       PROVE  PassInv' /\ NoConflictingRoutes'
  <2>1. target' = target \/ target' = [target EXCEPT ![s] = None]
    BY <1>10 DEF NewStream, RemoveStream
  <2>2. phase' = "explicit" /\ marked' = {}
    BY <1>10 DEF NewStream, RemoveStream, BeginPass
  <2> QED
    BY <2>1, <2>2, NoRouteMade DEF IInv, TInv, TypeOK
<1>11. ASSUME NEW g \in Gateway, AddGateway(g) \/ GatewaySource(g) \/ GatewaySourceGone(g)
                                   \/ RemoveGateway(g)
       PROVE  PassInv' /\ NoConflictingRoutes'
  <2>1. target' = target \/ target' = [target EXCEPT ![g] = None]
    BY <1>11 DEF AddGateway, GatewaySource, GatewaySourceGone, RemoveGateway
  <2>2. phase' = "idle" \/ (phase' = "explicit" /\ marked' = {})
    BY <1>11 DEF AddGateway, GatewaySource, GatewaySourceGone, RemoveGateway, BeginPass
  <2> QED
    BY <2>1, <2>2, NoRouteMade DEF IInv, TInv, TypeOK
<1>12. ASSUME NEW s \in Stream, NEW d \in Device, AddExplicitRoute(s, d)
       PROVE  PassInv' /\ NoConflictingRoutes'
  BY <1>12, NoRouteMade DEF IInv, AddExplicitRoute, BeginPass
<1>13. ASSUME NEW k \in 1 .. MaxConn, RemoveExplicitRoute(k)
       PROVE  PassInv' /\ NoConflictingRoutes'
  BY <1>13, NoRouteMade DEF IInv, RemoveExplicitRoute, BeginPass, passState
<1>14. ASSUME NEW s \in Recorder, NewRecording(s) \/ RemoveRecording(s)
       PROVE  PassInv' /\ NoConflictingRoutes'
  <2>1. target' = target \/ target' = [target EXCEPT ![s] = None]
    BY <1>14 DEF NewRecording, RemoveRecording
  <2>2. phase' = "explicit" /\ marked' = {}
    BY <1>14 DEF NewRecording, RemoveRecording, BeginPass
  <2> QED
    BY <2>1, <2>2, NoRouteMade DEF IInv, TInv, TypeOK
<1>15. ASSUME NEW s \in Chooser, NewChosen(s)
       PROVE  PassInv' /\ NoConflictingRoutes'
  BY <1>15, NoRouteMade DEF IInv, NewChosen
<1> HIDE DEF vars
<1> QED
  BY <1>1, <1>2, <1>3, <1>4, <1>5, <1>6, <1>7, <1>8, <1>9, <1>10, <1>11, <1>12, <1>13,
     <1>14, <1>15
  DEF Next

(* Two default routes never need different ports of one sink or different  *)
(* profiles of one card, at no step of any pass (find_default_route,       *)
(* mir_constrain_apply), however many groups, constraints and devices      *)
(* there are, and even if PulseAudio refuses switches and moves or         *)
(* somebody else changes ports and profiles.                               *)
THEOREM RoutesNeverConflict == Spec => []NoConflictingRoutes
<1>1. Init => IInv
  <2> SUFFICES ASSUME Init PROVE PassInv /\ NoConflictingRoutes
    BY InitType DEF IInv
  <2>1. phase = "plug" /\ \A s \in Start : target[s] = None
    BY DEF Init
  <2> QED
    BY <2>1 DEF PassInv, NoConflictingRoutes
<1>2. IInv /\ [Next]_vars => IInv'
  BY NextType, NextSafe DEF IInv
<1>3. IInv => NoConflictingRoutes
  BY DEF IInv
<1> QED
  BY <1>1, <1>2, <1>3, PTL DEF Spec
=============================================================================
