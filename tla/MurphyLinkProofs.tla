-------------------------- MODULE MurphyLinkProofs --------------------------
(***************************************************************************)
(* Proofs about MurphyLink, for any number of streams and devices and any  *)
(* number of breaks of the connection, whether or not Murphy refuses sets: *)
(* its safety invariants, and that it implements OneSet.                   *)
(***************************************************************************)
EXTENDS MurphyLink, SequenceTheorems, FiniteSetTheorems, TLAPS

-----------------------------------------------------------------------------
(* Sequences of messages, which are numbered in their order.               *)

Ordered(list) == \A a, b \in DOMAIN list : a < b => list[a].seqno < list[b].seqno

LEMMA MessagesIn == ASSUME NEW T, NEW list \in Seq(T) PROVE ToSet(list) \subseteq T
BY ElementOfSeq, LenProperties DEF ToSet

LEMMA AppendMessage ==
  ASSUME NEW T, NEW list \in Seq(T), NEW e \in T
  PROVE  /\ Append(list, e) \in Seq(T)
         /\ ToSet(Append(list, e)) = ToSet(list) \cup {e}
         /\ Ordered(list) /\ (\A x \in ToSet(list) : x.seqno < e.seqno) => Ordered(Append(list, e))
<1> DEFINE longer == Append(list, e)
<1>1. /\ longer \in Seq(T) /\ Len(longer) = Len(list) + 1
      /\ \A j \in 1 .. Len(list) : longer[j] = list[j]
      /\ longer[Len(list) + 1] = e
  BY AppendProperties
<1>2. DOMAIN longer = DOMAIN list \cup {Len(list) + 1} /\ DOMAIN list = 1 .. Len(list)
  BY <1>1, LenProperties
<1> HIDE DEF longer
<1>3. ToSet(longer) = ToSet(list) \cup {e}
  BY <1>1, <1>2 DEF ToSet
<1>4. ASSUME Ordered(list), \A x \in ToSet(list) : x.seqno < e.seqno
      PROVE  Ordered(longer)
  <2>1. \A j \in DOMAIN list : list[j].seqno < e.seqno
    BY <1>4 DEF ToSet
  <2>2. Len(list) \in Nat
    BY LenProperties
  <2> QED
    BY <1>1, <1>2, <1>4, <2>1, <2>2 DEF Ordered
<1> QED
  BY <1>1, <1>3, <1>4 DEF longer

LEMMA TakeMessage ==
  ASSUME NEW T, NEW list \in Seq(T), list # << >>
  PROVE  /\ Head(list) \in T /\ Tail(list) \in Seq(T)
         /\ ToSet(list) = ToSet(Tail(list)) \cup {Head(list)}
         /\ Ordered(list) => /\ Ordered(Tail(list))
                             /\ \A x \in ToSet(Tail(list)) : Head(list).seqno < x.seqno
<1>1. /\ Head(list) \in T /\ Tail(list) \in Seq(T)
      /\ Len(Tail(list)) = Len(list) - 1
      /\ \A j \in 1 .. Len(Tail(list)) : Tail(list)[j] = list[j + 1]
  BY HeadTailProperties
<1>2. /\ DOMAIN list = 1 .. Len(list) /\ DOMAIN Tail(list) = 1 .. Len(list) - 1
      /\ Len(list) \in Nat \ {0}
  BY <1>1, LenProperties, EmptySeq
<1>3. Head(list) = list[1]
  OBVIOUS
<1>4. ToSet(list) = ToSet(Tail(list)) \cup {Head(list)}
  <2>1. \A j \in DOMAIN list : j = 1 \/ j - 1 \in 1 .. Len(list) - 1
    BY <1>2
  <2>2. \A j \in DOMAIN list : j # 1 => Tail(list)[j - 1] = list[j]
    BY <1>1, <1>2
  <2>3. ToSet(list) \subseteq ToSet(Tail(list)) \cup {Head(list)}
    BY <1>2, <1>3, <2>1, <2>2 DEF ToSet
  <2>4. ToSet(Tail(list)) \cup {Head(list)} \subseteq ToSet(list)
    BY <1>1, <1>2, <1>3 DEF ToSet
  <2> QED
    BY <2>3, <2>4
<1>5. ASSUME Ordered(list)
      PROVE  Ordered(Tail(list)) /\ \A x \in ToSet(Tail(list)) : Head(list).seqno < x.seqno
  <2>1. \A j \in DOMAIN Tail(list) : j + 1 \in DOMAIN list /\ Tail(list)[j] = list[j + 1]
    BY <1>1, <1>2
  <2>2. Ordered(Tail(list))
    BY <1>2, <1>5, <2>1 DEF Ordered
  <2>3. \A j \in DOMAIN Tail(list) : list[1].seqno < Tail(list)[j].seqno
    BY <1>2, <1>5, <2>1 DEF Ordered
  <2> QED
    BY <1>3, <2>2, <2>3 DEF ToSet
<1> QED
  BY <1>1, <1>4, <1>5

LEMMA FirstMessages ==
  ASSUME NEW T, NEW list \in Seq(T), NEW k \in 0 .. Len(list)
  PROVE  /\ SubSeq(list, 1, k) \in Seq(T)
         /\ ToSet(SubSeq(list, 1, k)) \subseteq ToSet(list)
         /\ Ordered(list) => Ordered(SubSeq(list, 1, k))
<1> DEFINE first == SubSeq(list, 1, k)
<1>1. \A j \in 1 .. k : j \in DOMAIN list /\ list[j] \in T
  BY LenProperties, ElementOfSeq
<1>2. first \in Seq(T) /\ DOMAIN first = 1 .. k /\ \A j \in 1 .. k : first[j] = list[j]
  BY <1>1, SubSeqProperties, LenProperties
<1> HIDE DEF first
<1>3. ToSet(first) \subseteq ToSet(list)
  BY <1>1, <1>2 DEF ToSet
<1>4. Ordered(list) => Ordered(first)
  BY <1>1, <1>2 DEF Ordered
<1> QED
  BY <1>2, <1>3, <1>4 DEF first

(* A finite set can be listed, each element once.                          *)
LEMMA ListOfSet ==
  ASSUME NEW S, IsFiniteSet(S)
  PROVE  /\ SetToSeq(S) \in Seq(S)
         /\ ToSet(SetToSeq(S)) = S
         /\ \A a, b \in DOMAIN SetToSeq(S) : SetToSeq(S)[a] = SetToSeq(S)[b] => a = b
<1> DEFINE D == 1 .. Cardinality(S)
           ns == SetToSeq(S)
<1>1. Cardinality(S) \in Nat /\ ExistsBijection(D, S)
  BY FS_CardinalityType
<1>2. \E f \in [D -> S] : IsInjective(f)
  BY <1>1 DEF ExistsBijection, Bijection, Injection
<1>3. ns \in [D -> S] /\ IsInjective(ns)
  BY <1>2 DEF SetToSeq
<1> HIDE DEF ns
<1>4. ns \in Seq(S)
  BY <1>1, <1>3, IsASeq
<1>5. ToSet(ns) = S
  <2>1. IsFiniteSet(D) /\ Cardinality(D) = Cardinality(S)
    BY <1>1, FS_Interval
  <2>2. ns \in Injection(D, S)
    BY <1>3 DEF Injection
  <2>3. ns \in Surjection(D, S)
    BY <2>1, <2>2, FS_Injection
  <2> QED
    BY <1>3, <2>3 DEF Surjection, ToSet
<1> QED
  BY <1>3, <1>4, <1>5 DEF ns, IsInjective

-----------------------------------------------------------------------------
(* The inductive invariant.                                                *)

(* What is under way over the connection, without its order.               *)
Calls == ToSet(toMurphy)
Replies == ToSet(toPulse)
Brings(r) == r.kind = "CREATE" /\ r.ok

(* Murphy will answer the request for a set of n, or has answered it.      *)
Asks(q, n) ==
  /\ q.kind = "CREATE" /\ q.node = n
  /\ (\E c \in Calls : c.seqno = q.seqno) \/ (\E r \in Replies : r.seqno = q.seqno)

(* Requests are answered in their order, and what is under way belongs to  *)
(* a listed request.                                                       *)
InOrder ==
  /\ Ordered(toMurphy) /\ Ordered(toPulse)
  /\ \A c \in Calls, r \in Replies : r.seqno < c.seqno
  /\ \A q \in reqs : q.seqno < seqno
  /\ \A q \in reqs : q.node \in IF q.kind = "CREATE" THEN Node ELSE {NoNode}
  /\ \A p, q \in reqs : p.seqno = q.seqno => p = q
  /\ \A c \in Calls : Listed(c.kind, c.node, c.seqno) \in reqs
  /\ \A r \in Replies : \E q \in reqs : q.seqno = r.seqno /\ q.kind = r.kind

(* Only a working connection has sets and takes requests.                  *)
ByLink ==
  /\ link # "up" => sets = {} /\ toMurphy = <<>>
  /\ link = "down" => toPulse = <<>>

(* A stream asks for a set at most once per connection: before it comes    *)
(* nothing knows of it, and as long as it waits it holds none.             *)
StreamInv(n) ==
  /\ ~loop[n]
  /\ life[n] = "new" => /\ rsetid[n] = 0 /\ \A q \in reqs : q.node # n
                        /\ \A s \in sets : s.node # n
  /\ rsetid[n] # 0 => /\ life[n] = "live" /\ localrset[n] /\ link # "down"
                      /\ \A q \in reqs : ~Asks(q, n)
  /\ life[n] = "live" => \A q \in reqs : Asks(q, n) => localrset[n]
  /\ \A p, q \in reqs : Asks(p, n) /\ Asks(q, n) => p = q
  /\ \A s, t \in sets : s.node = n /\ t.node = n => s = t
  /\ \A c \in Calls, s \in sets : c.kind = "CREATE" /\ c.node = n => s.node # n
  /\ link = "up" /\ rsetid[n] # 0 => [id |-> rsetid[n], node |-> n] \in sets

(* The id of a set is in one place: in the response that brings it, with   *)
(* the node that holds it, or in the request that destroys it.             *)
IdsHeld ==
  /\ \A n \in Node : rsetid[n] < nextId
  /\ \A m, n \in Node : rsetid[m] = rsetid[n] /\ rsetid[n] # 0 => m = n
  /\ \A s \in sets : s.id # 0 /\ s.id < nextId /\ s.node \in Node
  /\ \A s, t \in sets : s.id = t.id => s = t
  /\ \A n \in Node, s \in sets : s.id = rsetid[n] => s.node = n

IdsBrought ==
  /\ \A r \in Replies : Brings(r) =>
       /\ r.id # 0 /\ r.id < nextId
       /\ \A n \in Node : rsetid[n] # r.id
       /\ link = "up" =>
            \A q \in reqs : q.seqno = r.seqno => [id |-> r.id, node |-> q.node] \in sets
  /\ \A r, t \in Replies : Brings(r) /\ Brings(t) /\ r.id = t.id => r = t

IdsDestroyed ==
  \A c \in Calls : c.kind = "DESTROY" =>
    /\ c.id # 0 /\ c.id < nextId
    /\ \A n \in Node : rsetid[n] # c.id
    /\ \A r \in Replies : Brings(r) => r.id # c.id
    /\ \A s \in sets : s.id = c.id /\ s.node \in Stream => life[s.node] = "gone"

LinkInv == InOrder /\ ByLink /\ (\A n \in Stream : StreamInv(n))
             /\ IdsHeld /\ IdsBrought /\ IdsDestroyed /\ NoSetForgotten
IInv == TypeOK /\ nextId # 0 /\ LinkInv

CallType == [kind : Kinds, node : Node \cup {NoNode}, id : Nat, seqno : Nat]
ReplyType == [kind : Kinds, seqno : Nat, ok : BOOLEAN, id : Nat]

LEMMA MessageTypes ==
  TypeOK => Calls \subseteq CallType /\ Replies \subseteq ReplyType
BY MessagesIn DEF TypeOK, Calls, Replies, CallType, ReplyType

LEMMA InvInit == Init => IInv
<1> SUFFICES ASSUME Init PROVE IInv
  OBVIOUS
<1>1. TypeOK
  <2>1. connected \in BOOLEAN /\ timer = ~connected /\ (connected => transp)
    BY DEF Init
  <2>2. /\ link \in {"down", "up", "broken"}
        /\ connected = (link # "down")
    BY <2>1 DEF Init
  <2>3. /\ toMurphy \in Seq([kind : Kinds, node : Node \cup {NoNode}, id : Nat, seqno : Nat])
        /\ toPulse \in Seq([kind : Kinds, seqno : Nat, ok : BOOLEAN, id : Nat])
    BY DEF Init
  <2>4. /\ life \in [Node -> {"new", "live", "gone"}] /\ loop \in [Node -> BOOLEAN]
        /\ rsetid \in [Node -> Nat] /\ localrset \in [Node -> BOOLEAN]
        /\ known \in [Node -> Nat]
    BY DEF Init
  <2>5. /\ seqno \in Nat /\ nextId \in Nat /\ breaks \in Nat /\ refused \subseteq Node
        /\ reqs \subseteq [kind : Kinds, node : Node \cup {NoNode}, seqno : Nat]
        /\ sets \subseteq [id : Nat, node : Node \cup {NoNode}]
    BY DEF Init
  <2>6. transp \in BOOLEAN /\ murphy \in BOOLEAN /\ aborted \in BOOLEAN /\ timer \in BOOLEAN
        /\ (~connected => timer)
    BY <2>1 DEF Init
  <2> QED
    BY <2>1, <2>2, <2>3, <2>4, <2>5, <2>6 DEF TypeOK
<1>2. Calls = {} /\ Replies = {}
  BY DEF Init, Calls, Replies, ToSet
<1>3. InOrder
  BY <1>2 DEF Init, InOrder, Ordered
<1>4. ByLink /\ \A n \in Stream : StreamInv(n)
  BY <1>2 DEF Init, ByLink, StreamInv, Node
<1>5. IdsHeld /\ IdsBrought /\ IdsDestroyed /\ NoSetForgotten
  BY <1>2 DEF Init, IdsHeld, IdsBrought, IdsDestroyed, NoSetForgotten
<1> QED
  BY <1>1, <1>3, <1>4, <1>5 DEF Init, IInv, LinkInv

-----------------------------------------------------------------------------
(* A request is sent: what that does to the list and the connection.       *)

Sends(kind, n, id, old) ==
  /\ seqno' = seqno + 1
  /\ toMurphy' \in Seq(CallType) /\ Ordered(toMurphy')
  /\ link = "up" => /\ reqs' = old \cup {Listed(kind, n, seqno)}
                    /\ Calls' = Calls \cup {Request(kind, n, id, seqno)}
  /\ link # "up" => /\ reqs' = old \/ reqs' = old \cup {Listed(kind, n, seqno)}
                    /\ toMurphy' = toMurphy

LEMMA SendEffect ==
  ASSUME TypeOK, InOrder, ByLink, NEW kind \in Kinds, NEW n \in Node \cup {NoNode},
         NEW id \in Nat, NEW old, NEW success \in Outcomes, Send(kind, n, id, success, old)
  PROVE  Sends(kind, n, id, old)
<1>1. Request(kind, n, id, seqno) \in CallType /\ Request(kind, n, id, seqno).seqno = seqno
  BY DEF Request, CallType, TypeOK
<1>2. toMurphy \in Seq(CallType) /\ Ordered(toMurphy)
  BY DEF TypeOK, InOrder, CallType
<1>3. \A c \in Calls : c.seqno < seqno
  BY DEF InOrder, Listed
<1>4. CASE link = "up"
  <2>1. success = TRUE
    BY <1>4 DEF Outcomes
  <2>2. toMurphy' = Append(toMurphy, Request(kind, n, id, seqno))
    BY <1>4, <2>1 DEF Send
  <2>3. toMurphy' \in Seq(CallType) /\ Ordered(toMurphy')
        /\ Calls' = Calls \cup {Request(kind, n, id, seqno)}
    BY <1>1, <1>2, <1>3, <2>2, AppendMessage DEF Calls
  <2> QED
    BY <1>4, <2>1, <2>3 DEF Sends, Send
<1>5. CASE link # "up"
  BY <1>2, <1>5 DEF Sends, Send
<1> QED
  BY <1>4, <1>5

(* old are the requests still listed, which those under way belong to.     *)
LEMMA SendInOrder ==
  ASSUME TypeOK, InOrder, ByLink, NEW kind \in Kinds, NEW id \in Nat,
         NEW n \in IF kind = "CREATE" THEN Node ELSE {NoNode},
         NEW old \in SUBSET reqs, Sends(kind, n, id, old),
         \A c \in Calls : Listed(c.kind, c.node, c.seqno) \in old,
         \A r \in Replies : r \in Replies' => \E q \in old : q.seqno = r.seqno /\ q.kind = r.kind,
         Replies' \subseteq Replies, Ordered(toPulse')
  PROVE  /\ InOrder'
         /\ reqs' \subseteq [kind : Kinds, node : Node \cup {NoNode}, seqno : Nat]
<1> DEFINE ask == Listed(kind, n, seqno)
           call == Request(kind, n, id, seqno)
<1>1. /\ ask.seqno = seqno /\ ask.kind = kind /\ ask.node = n
      /\ call.seqno = seqno /\ call.kind = kind /\ call.node = n
      /\ Listed(call.kind, call.node, call.seqno) = ask
      /\ ask \in [kind : Kinds, node : Node \cup {NoNode}, seqno : Nat]
  BY DEF Listed, Request, TypeOK
<1> HIDE DEF ask, call
<1>2. /\ reqs' = old \/ reqs' = old \cup {ask}
      /\ Calls' = Calls \/ (Calls' = Calls \cup {call} /\ reqs' = old \cup {ask})
      /\ seqno' = seqno + 1 /\ Ordered(toMurphy')
  BY DEF Sends, ask, call, TypeOK, Calls
<1>3. /\ Calls \subseteq CallType /\ Replies \subseteq ReplyType
      /\ seqno \in Nat /\ \A q \in old : q.seqno \in Nat /\ q.seqno < seqno
  BY MessageTypes DEF TypeOK, InOrder
<1>4. \A q \in reqs' : q = ask \/ q \in old
  BY <1>2
<1>5. \A c \in Calls' : c = call \/ c \in Calls
  BY <1>2
<1>6. \A q \in reqs' : q.seqno < seqno'
  BY <1>1, <1>2, <1>3, <1>4
<1>7. \A q \in reqs' : q.node \in IF q.kind = "CREATE" THEN Node ELSE {NoNode}
  BY <1>1, <1>4 DEF InOrder
<1>8. \A p, q \in reqs' : p.seqno = q.seqno => p = q
  BY <1>1, <1>3, <1>4 DEF InOrder
<1>9. \A c \in Calls' : Listed(c.kind, c.node, c.seqno) \in reqs'
  BY <1>1, <1>2, <1>5
<1>10. \A r \in Replies' : \E q \in reqs' : q.seqno = r.seqno /\ q.kind = r.kind
  BY <1>2
<1>11. \A c \in Calls', r \in Replies' : r.seqno < c.seqno
  <2>1. \A r \in Replies : r.seqno < seqno
    BY <1>3 DEF InOrder
  <2> QED
    BY <1>1, <1>5, <2>1 DEF InOrder
<1>12. reqs' \subseteq [kind : Kinds, node : Node \cup {NoNode}, seqno : Nat]
  BY <1>1, <1>4 DEF TypeOK
<1> QED
  BY <1>2, <1>6, <1>7, <1>8, <1>9, <1>10, <1>11, <1>12 DEF InOrder

(* pa_murphyif_destroy_resource_set, for a stream that ends or a node that *)
(* is not looped back any more.                                            *)
LEMMA DestroyEffect ==
  ASSUME IInv, NEW n \in Node, DestroyResourceSet(n)
  PROVE  \/ /\ rsetid[n] # 0 => ~localrset[n]
            /\ UNCHANGED <<known, localrset, rsetid, requestVars>>
         \/ /\ rsetid[n] # 0
            /\ Sends("DESTROY", NoNode, rsetid[n], reqs)
            /\ known' = [known EXCEPT ![n] = 0]
            /\ localrset' = [localrset EXCEPT ![n] = FALSE]
            /\ rsetid' = [rsetid EXCEPT ![n] = 0]
<1>1. rsetid[n] \in Nat
  BY DEF IInv, TypeOK
<1>2. ASSUME NEW success \in Outcomes, Send("DESTROY", NoNode, rsetid[n], success, reqs)
      PROVE  Sends("DESTROY", NoNode, rsetid[n], reqs)
  BY <1>1, <1>2, SendEffect DEF IInv, LinkInv, Kinds
<1>3. CASE localrset[n] /\ rsetid[n] # 0
  BY <1>2, <1>3 DEF DestroyResourceSet, DestroySet
<1>4. CASE ~(localrset[n] /\ rsetid[n] # 0)
  BY <1>4 DEF DestroyResourceSet
<1> QED
  BY <1>3, <1>4

(* A node's set is given back: a stream only does so when it ends.         *)
LEMMA DestroyInv ==
  ASSUME IInv, NEW n \in Node, DestroyResourceSet(n),
         UNCHANGED <<rifVars, murphyVars, aborted, link, toPulse>>,
         n \in Stream => life[n] = "live" /\ life' = [life EXCEPT ![n] = "gone"],
         n \notin Stream => life' = life,
         loop' \in [Node -> BOOLEAN], \A m \in Node : loop'[m] => loop[m]
  PROVE  IInv'
<1> USE DEF IInv, LinkInv
<1>0. Replies' = Replies /\ Ordered(toPulse')
  BY DEF Replies, InOrder
<1>1. CASE /\ rsetid[n] # 0 => ~localrset[n]
           /\ UNCHANGED <<known, localrset, rsetid, requestVars>>
  <2>1. Calls' = Calls
    BY <1>1 DEF Calls, requestVars
  <2>2. TypeOK'
    BY <1>1 DEF TypeOK, requestVars, rifVars, murphyVars
  <2>3. InOrder' /\ ByLink'
    BY <1>0, <1>1, <2>1 DEF InOrder, ByLink, requestVars, murphyVars
  <2>4. ASSUME NEW m \in Stream PROVE StreamInv(m)'
    <3>1. \A q \in reqs : Asks(q, m)' <=> Asks(q, m)
      BY <1>0, <2>1 DEF Asks
    <3>2. rsetid[n] # 0 => n \notin Stream
      BY <1>1 DEF StreamInv
    <3> QED
      BY <1>1, <2>1, <3>1, <3>2 DEF StreamInv, requestVars, murphyVars, Node, TypeOK
  <2>5. IdsHeld' /\ IdsBrought' /\ IdsDestroyed' /\ NoSetForgotten'
    <3>1. \A m \in Node : life[m] = "gone" => life'[m] = "gone"
      BY DEF TypeOK
    <3>2. IdsHeld' /\ IdsBrought'
      BY <1>0, <1>1 DEF IdsHeld, IdsBrought, requestVars, murphyVars
    <3>3. IdsDestroyed'
      BY <1>0, <1>1, <2>1, <3>1 DEF IdsDestroyed, IdsHeld, murphyVars, Node
    <3>4. NoSetForgotten'
      BY <1>1 DEF NoSetForgotten, requestVars, murphyVars
    <3> QED
      BY <3>2, <3>3, <3>4
  <2> QED
    BY <2>2, <2>3, <2>4, <2>5 DEF murphyVars
<1>2. CASE /\ rsetid[n] # 0
           /\ Sends("DESTROY", NoNode, rsetid[n], reqs)
           /\ known' = [known EXCEPT ![n] = 0]
           /\ localrset' = [localrset EXCEPT ![n] = FALSE]
           /\ rsetid' = [rsetid EXCEPT ![n] = 0]
  <2>1. /\ Calls' = Calls \/ Calls' = Calls \cup {Request("DESTROY", NoNode, rsetid[n], seqno)}
        /\ reqs' = reqs \/ reqs' = reqs \cup {Listed("DESTROY", NoNode, seqno)}
        /\ link = "up" => Calls' = Calls \cup {Request("DESTROY", NoNode, rsetid[n], seqno)}
    BY <1>2 DEF Sends, Calls, TypeOK
  <2>2. InOrder' /\ reqs' \subseteq [kind : Kinds, node : Node \cup {NoNode}, seqno : Nat]
    <3>1. rsetid[n] \in Nat /\ "DESTROY" \in Kinds /\ reqs \in SUBSET reqs
          /\ NoNode \in IF "DESTROY" = "CREATE" THEN Node ELSE {NoNode}
      BY DEF Kinds, TypeOK
    <3>2. /\ \A c \in Calls : Listed(c.kind, c.node, c.seqno) \in reqs
          /\ \A r \in Replies : r \in Replies' => \E q \in reqs : q.seqno = r.seqno /\ q.kind = r.kind
          /\ Replies' \subseteq Replies
      BY <1>0 DEF InOrder
    <3> QED
      BY <1>0, <1>2, <3>1, <3>2, SendInOrder
  <2>3. TypeOK'
    <3>1. toMurphy' \in Seq([kind : Kinds, node : Node \cup {NoNode}, id : Nat, seqno : Nat])
      BY <1>2 DEF Sends, CallType
    <3>2. life' \in [Node -> {"new", "live", "gone"}]
      BY DEF TypeOK
    <3>3. /\ rsetid' \in [Node -> Nat] /\ localrset' \in [Node -> BOOLEAN] /\ known' \in [Node -> Nat]
      BY <1>2 DEF TypeOK
    <3>4. seqno' \in Nat
      BY <1>2 DEF TypeOK, Sends
    <3> QED
      BY <2>2, <3>1, <3>2, <3>3, <3>4 DEF TypeOK, rifVars, murphyVars
  <2>4. ByLink'
    BY <1>2 DEF ByLink, Sends, murphyVars
  <2>5. ASSUME NEW m \in Stream PROVE StreamInv(m)'
    <3>1. \A q \in reqs' : Asks(q, m)' => q \in reqs /\ Asks(q, m)
      <4>1. \A q \in reqs' : q.kind = "CREATE" => q \in reqs /\ q.seqno # seqno
        BY <2>1 DEF Listed, InOrder, TypeOK
      <4>2. \A c \in Calls' : c \in Calls \/ c.seqno = seqno
        BY <2>1 DEF Request
      <4> QED
        BY <1>0, <4>1, <4>2 DEF Asks
    <3>2. \A q \in reqs' : q.node = m => q \in reqs
      BY <2>1, LinkConfig DEF Listed, Node
    <3>3. \A c \in Calls' : c.kind = "CREATE" => c \in Calls
      BY <2>1 DEF Request
    <3>4. m # n => life'[m] = life[m] /\ rsetid'[m] = rsetid[m] /\ localrset'[m] = localrset[m]
      BY <1>2 DEF TypeOK, Node
    <3>5. m = n => life'[m] = "gone" /\ rsetid'[m] = 0
      BY <1>2 DEF TypeOK, Node
    <3>6. CASE m = n
      <4>1. ~loop'[m] /\ life'[m] = "gone" /\ rsetid'[m] = 0
        BY <3>5, <3>6 DEF StreamInv
      <4>2. /\ \A p, q \in reqs' : Asks(p, m)' /\ Asks(q, m)' => p = q
            /\ \A s, t \in sets' : s.node = m /\ t.node = m => s = t
            /\ \A c \in Calls', s \in sets' : c.kind = "CREATE" /\ c.node = m => s.node # m
        BY <3>1, <3>3 DEF StreamInv, murphyVars
      <4> QED
        BY <4>1, <4>2 DEF StreamInv
    <3>7. CASE m # n
      BY <3>1, <3>2, <3>3, <3>4, <3>7 DEF StreamInv, murphyVars, Node
    <3> QED
      BY <3>6, <3>7
  <2>6. IdsHeld'
    BY <1>2 DEF IdsHeld, TypeOK, murphyVars
  <2>7. IdsBrought'
    <3>1. \A q \in reqs', r \in Replies : q.seqno = r.seqno => q \in reqs
      BY <2>1 DEF Listed, InOrder, TypeOK
    <3>2. \A m \in Node : rsetid'[m] = rsetid[m] \/ rsetid'[m] = 0
      BY <1>2 DEF TypeOK
    <3> QED
      BY <1>0, <3>1, <3>2 DEF IdsBrought, murphyVars
  <2>8. IdsDestroyed'
    <3>1. \A m \in Node : life[m] = "gone" => life'[m] = "gone"
      BY DEF TypeOK
    <3>2. \A m \in Node : rsetid'[m] # 0 => m # n /\ rsetid'[m] = rsetid[m]
      BY <1>2 DEF TypeOK
    <3>3. ASSUME NEW c \in Calls', c.kind = "DESTROY", c \notin Calls
          PROVE  /\ c.id = rsetid[n]
      BY <2>1, <3>3 DEF Request
    <3>4. \A s \in sets : s.id = rsetid[n] /\ s.node \in Stream => life'[s.node] = "gone"
      BY DEF IdsHeld, TypeOK
    <3>5. /\ rsetid[n] # 0 /\ rsetid[n] < nextId
          /\ \A r \in Replies : Brings(r) => r.id # rsetid[n]
          /\ \A m \in Node : rsetid'[m] # rsetid[n]
      BY <1>2, <3>2 DEF IdsHeld, IdsBrought
    <3> QED
      BY <1>0, <3>1, <3>2, <3>3, <3>4, <3>5 DEF IdsDestroyed, murphyVars, Node
  <2>9. NoSetForgotten'
    <3>1. SUFFICES ASSUME link = "up", NEW s \in sets, s.node \in Stream
                   PROVE  \/ rsetid'[s.node] = s.id
                          \/ \E r \in Replies' : r.kind = "CREATE" /\ r.ok /\ r.id = s.id
                          \/ \E q \in Calls' : q.kind = "DESTROY" /\ q.id = s.id
      BY DEF NoSetForgotten, murphyVars, Calls, Replies
    <3>2. \/ rsetid[s.node] = s.id
          \/ \E r \in Replies : r.kind = "CREATE" /\ r.ok /\ r.id = s.id
          \/ \E q \in Calls : q.kind = "DESTROY" /\ q.id = s.id
      BY <3>1 DEF NoSetForgotten, Calls, Replies
    <3>3. Request("DESTROY", NoNode, rsetid[n], seqno) \in Calls'
      BY <2>1, <3>1
    <3> QED
      BY <1>0, <1>2, <2>1, <3>1, <3>2, <3>3 DEF Request, TypeOK, Node
  <2> QED
    BY <2>2, <2>3, <2>4, <2>5, <2>6, <2>7, <2>8, <2>9 DEF murphyVars
<1> QED
  BY <1>1, <1>2, DestroyEffect

(* resource_set_create_all, over a connection just made; life' are the     *)
(* nodes when it runs.                                                     *)
LEMMA CreateAllInv ==
  ASSUME IInv, link = "down", NEW alive, NEW looped, CreateAll(alive, looped), Connected,
         transp' = TRUE, timer' \in BOOLEAN, aborted' \in BOOLEAN,
         UNCHANGED <<rsetid, known, murphyVars>>,
         life' \in [Node -> {"new", "live", "gone"}],
         alive = {n \in Node : life'[n] = "live"},
         \A n \in Stream : life'[n] = "new" => life[n] = "new",
         loop' \in [Node -> BOOLEAN], \A n \in Stream : ~loop'[n]
  PROVE  IInv'
<1> DEFINE S == {n \in alive : (n \in Stream \/ looped[n]) /\ rsetid[n] = 0}
           ns == SetToSeq(S)
           ask(k) == Listed("CREATE", ns[k], seqno + k - 1)
           call(k) == Request("CREATE", ns[k], 0, seqno + k - 1)
<1> USE DEF IInv, LinkInv
<1>1. /\ ns \in Seq(S) /\ ToSet(ns) = S
      /\ \A k, l \in DOMAIN ns : ns[k] = ns[l] => k = l
  <2>1. IsFiniteSet(S)
    BY FS_Subset, LinkConfig
  <2> QED
    BY <2>1, ListOfSet
<1>2. /\ seqno' = seqno + Len(ns)
      /\ reqs' = reqs \cup {ask(k) : k \in DOMAIN ns}
      /\ toMurphy' = [k \in DOMAIN ns |-> call(k)]
      /\ localrset' = [n \in Node |-> n \in ToSet(ns) \/ localrset[n]]
  BY DEF CreateAll
<1>3. Len(ns) \in Nat /\ DOMAIN ns = 1 .. Len(ns) /\ \A k \in DOMAIN ns : ns[k] \in S
  <2> HIDE DEF ns, S
  <2> QED
    BY <1>1, LenProperties DEF ToSet
<1> HIDE DEF ns
<1>4. /\ seqno \in Nat /\ S \subseteq Node
      /\ \A k \in DOMAIN ns : /\ k \in Nat /\ 1 <= k /\ k <= Len(ns)
                              /\ seqno + k - 1 \in Nat /\ ns[k] \in Node
  BY <1>3 DEF TypeOK
<1>5. \A k \in DOMAIN ns :
        /\ ask(k).seqno = seqno + k - 1 /\ ask(k).kind = "CREATE" /\ ask(k).node = ns[k]
        /\ call(k).seqno = seqno + k - 1 /\ call(k).kind = "CREATE" /\ call(k).node = ns[k]
        /\ Listed(call(k).kind, call(k).node, call(k).seqno) = ask(k)
        /\ ask(k) \in [kind : Kinds, node : Node \cup {NoNode}, seqno : Nat]
        /\ call(k) \in CallType
  BY <1>4 DEF Listed, Request, CallType, Kinds
<1> HIDE DEF ask, call, S
<1>6. Calls' = {call(k) : k \in DOMAIN ns} /\ Replies' = {}
  <2>1. Calls' = {call(k) : k \in DOMAIN ns}
    BY <1>2 DEF Calls, ToSet
  <2>2. Replies' = {}
    BY DEF Connected, Replies, ToSet
  <2> QED
    BY <2>1, <2>2
<1>7. toMurphy' \in Seq(CallType) /\ Ordered(toMurphy')
  <2>1. toMurphy' \in [1 .. Len(ns) -> CallType]
    BY <1>2, <1>3, <1>5
  <2>2. toMurphy' \in Seq(CallType)
    BY <1>3, <2>1, IsASeq
  <2>3. \A k, l \in DOMAIN ns : k < l => call(k).seqno < call(l).seqno
    BY <1>4, <1>5
  <2> QED
    BY <1>2, <2>2, <2>3 DEF Ordered
<1>8. \A q \in reqs' : q \in reqs \/ \E k \in DOMAIN ns : q = ask(k)
  BY <1>2
<1>9. \A q \in reqs : q.seqno \in Nat /\ q.seqno < seqno
  BY DEF InOrder, TypeOK
<1>10. reqs' \subseteq [kind : Kinds, node : Node \cup {NoNode}, seqno : Nat]
  BY <1>5, <1>8 DEF TypeOK
<1>11. TypeOK'
  <2>1. /\ rsetid' \in [Node -> Nat] /\ known' \in [Node -> Nat]
        /\ localrset' \in [Node -> BOOLEAN]
    BY <1>2 DEF TypeOK
  <2>2. toMurphy' \in Seq([kind : Kinds, node : Node \cup {NoNode}, id : Nat, seqno : Nat])
    BY <1>7 DEF CallType
  <2>3. /\ connected' = TRUE /\ link' = "up"
        /\ toPulse' \in Seq([kind : Kinds, seqno : Nat, ok : BOOLEAN, id : Nat])
    BY DEF Connected
  <2>4. seqno' \in Nat
    BY <1>2, <1>3, <1>4
  <2> QED
    BY <1>10, <2>1, <2>2, <2>3, <2>4 DEF TypeOK, murphyVars
<1>12. InOrder'
  <2>1. \A q \in reqs' : q.seqno < seqno'
    BY <1>2, <1>3, <1>4, <1>5, <1>8, <1>9
  <2>2. \A q \in reqs' : q.node \in IF q.kind = "CREATE" THEN Node ELSE {NoNode}
    BY <1>4, <1>5, <1>8 DEF InOrder
  <2>3. \A p, q \in reqs' : p.seqno = q.seqno => p = q
    <3>1. \A k, l \in DOMAIN ns : ask(k).seqno = ask(l).seqno => k = l
      BY <1>4, <1>5
    <3>2. \A k \in DOMAIN ns, q \in reqs : ask(k).seqno # q.seqno
      BY <1>4, <1>5, <1>9
    <3> QED
      BY <1>8, <3>1, <3>2 DEF InOrder
  <2>4. \A c \in Calls' : Listed(c.kind, c.node, c.seqno) \in reqs'
    BY <1>2, <1>5, <1>6
  <2> QED
    BY <1>6, <1>7, <2>1, <2>2, <2>3, <2>4 DEF InOrder, Connected, Ordered
<1>13. ByLink'
  BY DEF ByLink, Connected
<1>14. sets' = {}
  BY DEF ByLink, murphyVars
<1>15. ASSUME NEW m \in Stream PROVE StreamInv(m)'
  <2>1. m \in Node /\ rsetid'[m] = 0
    BY DEF StreamInv, Node
  <2>2. \A q \in reqs' : Asks(q, m)' => \E k \in DOMAIN ns : q = ask(k) /\ ns[k] = m
    <3>1. \A c \in Calls' : \E k \in DOMAIN ns : c = call(k) /\ c.seqno = seqno + k - 1
      BY <1>5, <1>6
    <3>2. \A q \in reqs, c \in Calls' : c.seqno # q.seqno
      BY <1>4, <1>9, <3>1
    <3>3. \A q \in reqs' : Asks(q, m)' => q \notin reqs /\ q.node = m
      BY <1>6, <3>2 DEF Asks
    <3> QED
      BY <1>5, <1>8, <3>3
  <2>3. \A q \in reqs' : Asks(q, m)' => localrset'[m]
    BY <1>1, <1>2, <2>1, <2>2 DEF ToSet
  <2>4. \A p, q \in reqs' : Asks(p, m)' /\ Asks(q, m)' => p = q
    BY <1>1, <2>2
  <2>5. ASSUME life'[m] = "new", NEW q \in reqs' PROVE q.node # m
    <3>1. \A k \in DOMAIN ns : life'[ns[k]] = "live"
      BY <1>3 DEF S
    <3> QED
      BY <1>5, <1>8, <2>5, <3>1 DEF StreamInv
  <2> QED
    BY <1>14, <2>1, <2>3, <2>4, <2>5 DEF StreamInv
<1>16. IdsHeld' /\ IdsBrought'
  BY <1>6, <1>14 DEF IdsHeld, IdsBrought, murphyVars
<1>17. IdsDestroyed' /\ NoSetForgotten'
  BY <1>5, <1>6, <1>14 DEF IdsDestroyed, NoSetForgotten
<1> QED
  BY <1>11, <1>12, <1>13, <1>15, <1>16, <1>17 DEF murphyVars

(* A stream can come without anything being sent.                          *)
LEMMA QuietInv ==
  ASSUME IInv, TypeOK', UNCHANGED <<rsetid, localrset, link, toPulse, requestVars, sets, nextId>>,
         \A m \in Stream : life'[m] = life[m] \/ (life[m] = "new" /\ life'[m] = "live"),
         \A m \in Stream : ~loop'[m]
  PROVE  IInv'
<1> USE DEF IInv, LinkInv, requestVars
<1>1. Calls' = Calls /\ Replies' = Replies
  BY DEF Calls, Replies
<1>2. InOrder' /\ ByLink'
  BY <1>1 DEF InOrder, ByLink
<1>3. ASSUME NEW m \in Stream PROVE StreamInv(m)'
  <2>1. \A q \in reqs : Asks(q, m)' <=> Asks(q, m)
    BY <1>1 DEF Asks
  <2>2. rsetid[m] # 0 => life'[m] = "live"
    BY DEF StreamInv
  <2>3. life'[m] = "new" => life[m] = "new"
    OBVIOUS
  <2>4. life'[m] = "live" => \A q \in reqs : Asks(q, m) => localrset[m]
    BY DEF StreamInv, Asks
  <2>5. \A p, q \in reqs' : Asks(p, m)' /\ Asks(q, m)' => p = q
    BY <2>1 DEF StreamInv
  <2> QED
    BY <1>1, <2>1, <2>2, <2>3, <2>4, <2>5 DEF StreamInv
<1>4. IdsHeld' /\ IdsBrought'
  BY <1>1 DEF IdsHeld, IdsBrought
<1>5. IdsDestroyed'
  BY <1>1 DEF IdsDestroyed
<1>6. NoSetForgotten'
  BY DEF NoSetForgotten
<1> QED
  BY <1>2, <1>3, <1>4, <1>5, <1>6

(* pa_murphyif_create_resource_set over a connection.                      *)
LEMMA SendCreateInv ==
  ASSUME IInv, TypeOK, NEW n \in Node, NEW success \in Outcomes,
         Send("CREATE", n, 0, success, reqs),
         localrset' = [localrset EXCEPT ![n] = success],
         UNCHANGED <<rsetid, known, rifVars, link, toPulse, murphyVars>>,
         aborted' \in BOOLEAN, life' \in [Node -> {"new", "live", "gone"}],
         n \in Stream => life[n] = "new" /\ life'[n] = "live",
         \A m \in Stream : m # n => life'[m] = life[m],
         loop' \in [Node -> BOOLEAN], \A m \in Stream : ~loop'[m]
  PROVE  IInv'
<1> USE DEF IInv, LinkInv
<1>1. Sends("CREATE", n, 0, reqs)
  BY SendEffect DEF Kinds
<1>2. Replies' = Replies /\ Ordered(toPulse')
  BY DEF Replies, InOrder
<1>3. InOrder' /\ reqs' \subseteq [kind : Kinds, node : Node \cup {NoNode}, seqno : Nat]
  <2>1. "CREATE" \in Kinds /\ reqs \in SUBSET reqs
        /\ n \in IF "CREATE" = "CREATE" THEN Node ELSE {NoNode}
    BY DEF Kinds
  <2>2. /\ \A c \in Calls : Listed(c.kind, c.node, c.seqno) \in reqs
        /\ \A r \in Replies : r \in Replies' => \E q \in reqs : q.seqno = r.seqno /\ q.kind = r.kind
        /\ Replies' \subseteq Replies
    BY <1>2 DEF InOrder
  <2> QED
    BY <1>1, <1>2, <2>1, <2>2, SendInOrder
<1>4. /\ Calls' = Calls \/ Calls' = Calls \cup {Request("CREATE", n, 0, seqno)}
      /\ reqs' = reqs \/ reqs' = reqs \cup {Listed("CREATE", n, seqno)}
      /\ Calls' # Calls => success = TRUE
      /\ seqno \in Nat /\ success \in BOOLEAN
  BY <1>1 DEF Sends, Calls, TypeOK, Outcomes
<1>5. TypeOK'
  <2>1. toMurphy' \in Seq([kind : Kinds, node : Node \cup {NoNode}, id : Nat, seqno : Nat])
    BY <1>1 DEF Sends, CallType
  <2>2. localrset' \in [Node -> BOOLEAN]
    BY <1>4 DEF TypeOK
  <2>3. seqno' \in Nat
    BY <1>1, <1>4 DEF Sends
  <2> QED
    BY <1>3, <2>1, <2>2, <2>3 DEF TypeOK, rifVars, murphyVars
<1>6. ByLink'
  BY <1>1 DEF ByLink, Sends, murphyVars
<1>7. /\ \A q \in reqs' : q \in reqs \/ (q.node = n /\ q.seqno = seqno)
      /\ \A q \in reqs : q.seqno # seqno
  BY <1>4 DEF Listed, InOrder, TypeOK
<1>8. \A c \in Calls' : c \in Calls \/ (c.kind = "CREATE" /\ c.node = n /\ c.seqno = seqno)
  BY <1>4 DEF Request
<1>9. /\ \A r \in Replies : r.seqno # seqno
      /\ \A c \in Calls : c.seqno # seqno
  <2>1. \A c \in Calls : \E q \in reqs : q.seqno = c.seqno
    BY DEF InOrder, Listed
  <2>2. \A r \in Replies : \E q \in reqs : q.seqno = r.seqno
    BY DEF InOrder
  <2> QED
    BY <1>7, <2>1, <2>2
<1>10. \A m \in Node, q \in reqs : Asks(q, m)' <=> Asks(q, m)
  <2>1. Calls \subseteq Calls'
    BY <1>4
  <2> QED
    BY <1>2, <1>7, <1>8, <2>1 DEF Asks
<1>11. ASSUME NEW m \in Stream PROVE StreamInv(m)'
  <2>1. m \in Node
    BY DEF Node
  <2>2. CASE m = n
    <3>1. life'[m] = "live" /\ rsetid'[m] = 0 /\ \A q \in reqs : q.node # n
      BY <2>2 DEF StreamInv
    <3>2. \A q \in reqs' : Asks(q, m)' => q \notin reqs /\ q = Listed("CREATE", n, seqno)
      BY <1>4, <2>2, <3>1 DEF Asks
    <3>3. \A q \in reqs' : Asks(q, m)' => localrset'[m]
      <4>1. \A q \in reqs' : Asks(q, m)' => Calls' # Calls
        BY <1>2, <1>9, <3>2 DEF Asks, Listed
      <4> QED
        BY <1>4, <2>1, <2>2, <4>1 DEF TypeOK
    <3>4. \A s \in sets : s.node # m
      BY <2>2 DEF StreamInv
    <3> QED
      BY <3>1, <3>2, <3>3, <3>4 DEF StreamInv, murphyVars
  <2>3. CASE m # n
    <3>1. /\ life'[m] = life[m] /\ rsetid'[m] = rsetid[m] /\ localrset'[m] = localrset[m]
          /\ \A q \in reqs' : q.node = m => q \in reqs
          /\ \A c \in Calls' : c.node = m => c \in Calls
      BY <1>7, <1>8, <2>1, <2>3 DEF TypeOK
    <3>2. \A q \in reqs' : Asks(q, m)' => q \in reqs /\ Asks(q, m)
      BY <1>10, <2>1, <3>1 DEF Asks
    <3> QED
      BY <3>1, <3>2 DEF StreamInv, murphyVars
  <2> QED
    BY <2>2, <2>3
<1>12. IdsHeld'
  BY DEF IdsHeld, murphyVars
<1>13. IdsBrought'
  <2>1. \A q \in reqs', r \in Replies : q.seqno = r.seqno => q \in reqs
    BY <1>7, <1>9
  <2> QED
    BY <1>2, <2>1 DEF IdsBrought, murphyVars
<1>14. IdsDestroyed'
  <2>1. \A c \in Calls' : c.kind = "DESTROY" => c \in Calls
    BY <1>4 DEF Request
  <2>2. \A m \in Stream : life[m] = "gone" => life'[m] = "gone"
    OBVIOUS
  <2> QED
    BY <1>2, <2>1, <2>2 DEF IdsDestroyed, murphyVars
<1>15. NoSetForgotten'
  <2>1. Calls \subseteq Calls'
    BY <1>4
  <2> QED
    BY <1>2, <2>1 DEF NoSetForgotten, murphyVars, Calls, Replies
<1> QED
  BY <1>3, <1>5, <1>6, <1>11, <1>12, <1>13, <1>14, <1>15 DEF murphyVars

(* pa_murphyif_create_resource_set, or nothing, when a stream comes or a   *)
(* device is looped back.                                                  *)
LEMMA CreateInv ==
  ASSUME IInv, TypeOK, NEW n \in Node, NEW looped,
         \/ CreateResourceSet(n, looped)
         \/ UNCHANGED <<localrset, connected, link, toPulse, requestVars>>,
         UNCHANGED <<rsetid, known, transp, timer, murphyVars>>,
         aborted' \in BOOLEAN, life' \in [Node -> {"new", "live", "gone"}],
         n \in Stream => life[n] = "new", life'[n] = "live",
         \A m \in Node : m # n => life'[m] = life[m],
         loop' \in [Node -> BOOLEAN], \A m \in Stream : ~loop'[m]
  PROVE  IInv'
<1>1. CASE UNCHANGED <<localrset, connected, link, toPulse, requestVars>>
  <2>1. TypeOK'
    BY <1>1 DEF IInv, TypeOK, murphyVars, requestVars
  <2>2. \A m \in Stream : life'[m] = life[m] \/ (life[m] = "new" /\ life'[m] = "live")
    BY DEF Node
  <2> QED
    BY <1>1, <2>1, <2>2, QuietInv DEF murphyVars
<1>2. CASE /\ connected
           /\ \E success \in Outcomes : /\ Send("CREATE", n, 0, success, reqs)
                                        /\ localrset' = [localrset EXCEPT ![n] = success]
           /\ UNCHANGED <<connected, link, toPulse>>
  <2>1. \A m \in Stream : m # n => life'[m] = life[m]
    BY DEF Node
  <2> QED
    BY <1>2, <2>1, SendCreateInv DEF rifVars
<1>3. CASE CanConnect /\ Connected /\ CreateAll(Live \cup {n}, looped)
  <2>1. link = "down" /\ transp' = TRUE /\ timer' \in BOOLEAN
    BY <1>3 DEF CanConnect, TypeOK
  <2>2. Live \cup {n} = {m \in Node : life'[m] = "live"}
    BY DEF Live
  <2>3. \A m \in Stream : life'[m] = "new" => life[m] = "new"
    BY DEF Node
  <2> HIDE DEF Node
  <2> QED
    BY <1>3, <2>1, <2>2, <2>3, CreateAllInv
<1> QED
  BY <1>1, <1>2, <1>3 DEF CreateResourceSet

-----------------------------------------------------------------------------
(* The actions.                                                            *)

LEMMA NewStreamInv == ASSUME IInv, NEW n \in Node, NewStream(n) PROVE IInv'
<1>1. /\ life' = [life EXCEPT ![n] = "live"] /\ life[n] = "new"
      /\ CreateResourceSet(n, loop) \/ UNCHANGED <<localrset, connected, link, toPulse, requestVars>>
      /\ UNCHANGED <<loop, rsetid, known, transp, timer, murphyVars, aborted>>
  BY DEF NewStream
<1>2. /\ aborted' \in BOOLEAN /\ life' \in [Node -> {"new", "live", "gone"}]
      /\ life'[n] = "live" /\ \A m \in Node : m # n => life'[m] = life[m]
      /\ loop' \in [Node -> BOOLEAN] /\ TypeOK
  BY <1>1 DEF IInv, TypeOK
<1>3. \A m \in Stream : ~loop'[m]
  BY <1>1 DEF IInv, LinkInv, StreamInv
<1> QED
  BY <1>1, <1>2, <1>3, CreateInv

LEMMA LoopAppearsInv == ASSUME IInv, NEW n \in Node, LoopAppears(n) PROVE IInv'
<1> DEFINE looped == [loop EXCEPT ![n] = TRUE]
<1>1. /\ life' = [life EXCEPT ![n] = "live"] /\ n \in Device /\ loop' = looped
      /\ aborted' = (n \in Wants /\ rsetid[n] # 0)
      /\ CreateResourceSet(n, looped) \/ UNCHANGED <<localrset, connected, link, toPulse, requestVars>>
      /\ UNCHANGED <<rsetid, known, transp, timer, murphyVars>>
  BY DEF LoopAppears
<1>2. n \notin Stream
  BY <1>1, LinkConfig
<1>3. /\ aborted' \in BOOLEAN /\ life' \in [Node -> {"new", "live", "gone"}]
      /\ life'[n] = "live" /\ \A m \in Node : m # n => life'[m] = life[m]
      /\ loop' \in [Node -> BOOLEAN] /\ TypeOK
  BY <1>1 DEF IInv, TypeOK
<1>4. \A m \in Stream : ~loop'[m]
  BY <1>1, <1>2 DEF IInv, LinkInv, StreamInv, TypeOK, Node
<1> HIDE DEF looped
<1> QED
  BY <1>1, <1>2, <1>3, <1>4, CreateInv

LEMMA RemoveStreamInv == ASSUME IInv, NEW n \in Node, RemoveStream(n) PROVE IInv'
<1>1. /\ n \in Stream /\ life[n] = "live" /\ life' = [life EXCEPT ![n] = "gone"]
      /\ DestroyResourceSet(n)
      /\ UNCHANGED <<loop, rifVars, murphyVars, aborted, link, toPulse>>
  BY DEF RemoveStream
<1>2. loop' \in [Node -> BOOLEAN] /\ \A m \in Node : loop'[m] => loop[m]
  BY <1>1 DEF IInv, TypeOK
<1> QED
  BY <1>1, <1>2, DestroyInv

LEMMA LoopGoneInv == ASSUME IInv, NEW n \in Node, LoopGone(n) PROVE IInv'
<1>1. /\ loop[n] /\ loop' = [loop EXCEPT ![n] = FALSE]
      /\ DestroyResourceSet(n)
      /\ UNCHANGED <<life, rifVars, murphyVars, aborted, link, toPulse>>
  BY DEF LoopGone
<1>2. n \notin Stream
  BY <1>1 DEF IInv, LinkInv, StreamInv
<1>3. loop' \in [Node -> BOOLEAN] /\ \A m \in Node : loop'[m] => loop[m]
  BY <1>1 DEF IInv, TypeOK
<1> QED
  BY <1>1, <1>2, <1>3, DestroyInv

LEMMA DeviceGoneInv == ASSUME IInv, NEW n \in Node, DeviceGone(n) PROVE IInv'
<1>1. /\ n \notin Stream /\ life' = [life EXCEPT ![n] = "gone"]
      /\ UNCHANGED <<loop, rsetid, localrset, known, rifVars, requestVars, murphyVars,
                     aborted, link, toPulse>>
  BY LinkConfig DEF DeviceGone
<1>2. TypeOK'
  BY <1>1 DEF IInv, TypeOK, rifVars, requestVars, murphyVars
<1>3. \A m \in Stream : life'[m] = life[m] /\ ~loop'[m]
  BY <1>1 DEF IInv, LinkInv, StreamInv, TypeOK, Node
<1> QED
  BY <1>1, <1>2, <1>3, QuietInv DEF murphyVars

LEMMA ConnectAttemptInv == ASSUME IInv, ConnectAttempt PROVE IInv'
<1>1. /\ transp' = TRUE /\ timer' = (~connected /\ ~murphy)
      /\ UNCHANGED <<life, loop, rsetid, known, murphyVars, aborted>>
  BY DEF ConnectAttempt
<1>2. timer' \in BOOLEAN /\ TypeOK /\ \A m \in Stream : ~loop'[m]
  BY <1>1 DEF IInv, TypeOK, LinkInv, StreamInv
<1>3. CASE ~connected /\ murphy
  <2>1. Connected /\ CreateAll(Live, loop)
    BY <1>3 DEF ConnectAttempt
  <2>2. link = "down" /\ Live = {m \in Node : life'[m] = "live"}
    BY <1>1, <1>2, <1>3 DEF TypeOK, Live
  <2>3. /\ aborted' \in BOOLEAN /\ life' \in [Node -> {"new", "live", "gone"}]
        /\ loop' \in [Node -> BOOLEAN]
    BY <1>1, <1>2 DEF TypeOK
  <2> QED
    BY <1>1, <1>2, <2>1, <2>2, <2>3, CreateAllInv
<1>4. CASE ~(~connected /\ murphy)
  <2>1. UNCHANGED <<connected, link, toPulse, localrset, requestVars>>
    BY <1>4 DEF ConnectAttempt
  <2>2. TypeOK'
    <3>1. ~connected' => timer'
      BY <1>1, <1>4, <2>1
    <3> QED
      BY <1>1, <1>2, <2>1, <3>1 DEF TypeOK, requestVars, murphyVars
  <2> QED
    BY <1>1, <1>2, <2>1, <2>2, QuietInv DEF murphyVars
<1> QED
  BY <1>3, <1>4

LEMMA MurphyStartsInv == ASSUME IInv, MurphyStarts PROVE IInv'
<1>1. TypeOK' /\ \A m \in Stream : ~loop'[m]
  BY DEF MurphyStarts, IInv, TypeOK, LinkInv, StreamInv, nodeVars, rifVars, requestVars
<1> QED
  BY <1>1, QuietInv DEF MurphyStarts, nodeVars

LEMMA ConnectionClosedInv == ASSUME IInv, ConnectionClosed PROVE IInv'
<1> DEFINE lost == {n \in Live \cap Stream : localrset[n]}
<1> USE DEF IInv, LinkInv
<1>1. /\ link = "broken" /\ toPulse = <<>> /\ link' = "down"
      /\ transp' = FALSE /\ connected' = FALSE /\ timer' = TRUE
      /\ rsetid' = [n \in Node |-> IF n \in lost THEN 0 ELSE rsetid[n]]
      /\ localrset' = [n \in Node |-> n \notin lost /\ localrset[n]]
      /\ UNCHANGED <<life, loop, known, requestVars, murphyVars, aborted, toPulse>>
  BY DEF ConnectionClosed, DestroyAll
<1>2. TypeOK'
  <2>1. rsetid' \in [Node -> Nat] /\ localrset' \in [Node -> BOOLEAN]
    BY <1>1 DEF TypeOK
  <2> HIDE DEF lost
  <2> QED
    BY <1>1, <2>1 DEF TypeOK, requestVars, murphyVars
<1>3. Calls = {} /\ Replies = {} /\ sets = {} /\ Calls' = {} /\ Replies' = {} /\ sets' = {}
  BY <1>1 DEF Calls, Replies, ByLink, ToSet, requestVars, murphyVars
<1>4. InOrder' /\ ByLink'
  BY <1>1, <1>3 DEF InOrder, ByLink, requestVars, murphyVars
<1>5. \A n \in Node : rsetid'[n] # 0 => n \notin lost /\ rsetid'[n] = rsetid[n]
  BY <1>1
<1>6. ASSUME NEW m \in Stream PROVE StreamInv(m)'
  <2>1. rsetid'[m] = 0
    BY <1>1, <1>5 DEF StreamInv, Live, Node
  <2>2. \A q \in reqs' : ~Asks(q, m)'
    BY <1>3 DEF Asks
  <2> QED
    BY <1>1, <1>3, <2>1, <2>2 DEF StreamInv, requestVars
<1>7. IdsHeld'
  <2>1. \A n \in Node : rsetid'[n] < nextId
    BY <1>1, <1>5 DEF IdsHeld, TypeOK
  <2>2. \A m, n \in Node : rsetid'[m] = rsetid'[n] /\ rsetid'[n] # 0 => m = n
    BY <1>5 DEF IdsHeld
  <2> QED
    BY <1>1, <1>3, <2>1, <2>2 DEF IdsHeld, murphyVars
<1>8. IdsBrought' /\ IdsDestroyed' /\ NoSetForgotten'
  BY <1>3 DEF IdsBrought, IdsDestroyed, NoSetForgotten
<1> QED
  BY <1>1, <1>2, <1>4, <1>6, <1>7, <1>8 DEF murphyVars

LEMMA MurphyCreatesInv == ASSUME IInv, MurphyCreates PROVE IInv'
<1> DEFINE c == Head(toMurphy)
           new == [id |-> nextId, node |-> c.node]
<1> USE DEF IInv, LinkInv
<1>1. /\ toMurphy # <<>> /\ c.kind = "CREATE" /\ toMurphy' = Tail(toMurphy)
      /\ UNCHANGED <<nodeVars, rifVars, seqno, reqs, murphy, breaks, aborted, link>>
  BY DEF MurphyCreates
<1>2. \/ /\ sets' = sets \cup {new} /\ nextId' = nextId + 1
         /\ toPulse' = Append(toPulse, Response(c, TRUE, nextId))
         /\ refused' = refused
      \/ /\ sets' = sets /\ nextId' = nextId
         /\ toPulse' = Append(toPulse, Response(c, FALSE, 0))
         /\ refused' = refused \cup {c.node}
  BY DEF MurphyCreates
<1>3. /\ c \in CallType /\ Tail(toMurphy) \in Seq(CallType)
      /\ Calls = Calls' \cup {c} /\ Ordered(toMurphy')
      /\ \A d \in Calls' : c.seqno < d.seqno
  BY <1>1, TakeMessage DEF TypeOK, Calls, CallType, InOrder
<1>4. PICK r \in ReplyType :
        /\ r.kind = "CREATE" /\ r.seqno = c.seqno
        /\ toPulse' = Append(toPulse, r)
        /\ \/ /\ sets' = sets \cup {new} /\ nextId' = nextId + 1 /\ r.ok /\ r.id = nextId
           \/ /\ sets' = sets /\ nextId' = nextId /\ ~r.ok
  <2>1. /\ Response(c, TRUE, nextId) \in ReplyType /\ Response(c, FALSE, 0) \in ReplyType
        /\ Response(c, TRUE, nextId).seqno = c.seqno /\ Response(c, FALSE, 0).seqno = c.seqno
        /\ Response(c, TRUE, nextId).kind = "CREATE" /\ Response(c, FALSE, 0).kind = "CREATE"
        /\ Response(c, TRUE, nextId).ok = TRUE /\ Response(c, FALSE, 0).ok = FALSE
        /\ Response(c, TRUE, nextId).id = nextId
    BY <1>1, <1>3 DEF Response, ReplyType, CallType, TypeOK
  <2> QED
    BY <1>2, <2>1
<1> HIDE DEF c
<1>5. c \in Calls /\ \A t \in Replies : t.seqno < c.seqno
  BY <1>3 DEF InOrder
<1>6. toPulse' \in Seq(ReplyType) /\ Replies' = Replies \cup {r} /\ Ordered(toPulse')
  <2>1. toPulse \in Seq(ReplyType) /\ Ordered(toPulse)
    BY DEF TypeOK, ReplyType, InOrder
  <2>2. \A x \in ToSet(toPulse) : x.seqno < r.seqno
    BY <1>4, <1>5 DEF Replies
  <2> QED
    BY <1>4, <2>1, <2>2, AppendMessage DEF Replies
<1>7. /\ Listed("CREATE", c.node, c.seqno) \in reqs
      /\ c.node \in Node /\ c.seqno \in Nat
  BY <1>1, <1>3, <1>5 DEF InOrder, CallType, Listed
<1>8. PICK own \in reqs : own.kind = "CREATE" /\ own.node = c.node /\ own.seqno = c.seqno
  BY <1>7 DEF Listed
<1>9. link = "up"
  BY <1>1 DEF ByLink
<1>10. TypeOK'
  <2>1. sets' \subseteq [id : Nat, node : Node \cup {NoNode}] /\ nextId' \in Nat /\ nextId' # 0
    BY <1>4, <1>7 DEF TypeOK
  <2>2. /\ toMurphy' \in Seq([kind : Kinds, node : Node \cup {NoNode}, id : Nat, seqno : Nat])
        /\ toPulse' \in Seq([kind : Kinds, seqno : Nat, ok : BOOLEAN, id : Nat])
    BY <1>1, <1>3, <1>6 DEF CallType, ReplyType
  <2>3. refused' \subseteq Node
    BY <1>2, <1>7 DEF TypeOK
  <2> QED
    BY <1>1, <2>1, <2>2, <2>3 DEF TypeOK, nodeVars, rifVars
<1>11. InOrder'
  <2>1. \A d \in Calls', t \in Replies' : t.seqno < d.seqno
    BY <1>3, <1>4, <1>6 DEF InOrder
  <2>2. \A t \in Replies' : \E q \in reqs : q.seqno = t.seqno /\ q.kind = t.kind
    BY <1>4, <1>6, <1>8 DEF InOrder
  <2> QED
    BY <1>1, <1>3, <1>6, <2>1, <2>2 DEF InOrder
<1>12. ByLink'
  BY <1>1, <1>9 DEF ByLink
<1>13. \A q, m : Asks(q, m)' <=> Asks(q, m)
  BY <1>3, <1>4, <1>6 DEF Asks
<1>14. \A s \in sets' : s \in sets \/ s = new
  BY <1>4
<1>15. ASSUME NEW m \in Stream PROVE StreamInv(m)'
  <2>0. /\ new.node = c.node
        /\ c.node = m => life[m] # "new" /\ \A s \in sets : s.node # m
    <3>1. life[m] = "new" => own.node # m
      BY <1>8 DEF StreamInv
    <3>2. \A d \in Calls, s \in sets : d.kind = "CREATE" /\ d.node = m => s.node # m
      BY DEF StreamInv
    <3> QED
      BY <1>1, <1>5, <1>8, <3>1, <3>2
  <2> HIDE DEF new
  <2>1. life'[m] = "new" => \A s \in sets' : s.node # m
    BY <1>1, <1>14, <2>0 DEF StreamInv, nodeVars
  <2>2. \A s, t \in sets' : s.node = m /\ t.node = m => s = t
    BY <1>14, <2>0 DEF StreamInv
  <2>3. \A d \in Calls', s \in sets' : d.kind = "CREATE" /\ d.node = m => s.node # m
    <3>1. ASSUME NEW d \in Calls', d.kind = "CREATE", d.node = m, c.node = m PROVE FALSE
      <4>1. Listed("CREATE", m, d.seqno) \in reqs
        BY <1>3, <3>1 DEF InOrder
      <4>2. PICK p \in reqs : p.kind = "CREATE" /\ p.node = m /\ p.seqno = d.seqno
        BY <4>1 DEF Listed
      <4>3. Asks(p, m) /\ Asks(own, m)
        BY <1>3, <1>5, <1>8, <3>1, <4>2 DEF Asks
      <4>4. p = own
        BY <4>3 DEF StreamInv
      <4>5. c.seqno < d.seqno /\ c.seqno = d.seqno
        BY <1>3, <1>8, <3>1, <4>2, <4>4
      <4> QED
        BY <1>7, <4>5
    <3>2. \A d \in Calls' : d \in Calls
      BY <1>3
    <3>3. \A d \in Calls, s \in sets : d.kind = "CREATE" /\ d.node = m => s.node # m
      BY DEF StreamInv
    <3> QED
      BY <1>14, <2>0, <3>1, <3>2, <3>3
  <2>4. rsetid'[m] # 0 => [id |-> rsetid'[m], node |-> m] \in sets'
    BY <1>1, <1>4, <1>9 DEF StreamInv, nodeVars
  <2> QED
    BY <1>1, <1>9, <1>13, <2>1, <2>2, <2>3, <2>4 DEF StreamInv, nodeVars
<1>16. IdsHeld'
  <2>1. /\ new.id = nextId /\ new.node \in Node
        /\ \A s \in sets : s.id # nextId
        /\ nextId \in Nat /\ nextId' \in Nat /\ nextId <= nextId'
        /\ new \in sets' => nextId < nextId'
    <3>1. \A s \in sets : s.id \in Nat /\ s.id < nextId
      BY DEF IdsHeld, TypeOK
    <3>2. new.id = nextId /\ new.node \in Node /\ nextId \in Nat
      BY <1>7 DEF TypeOK
    <3> QED
      BY <1>4, <3>1, <3>2
  <2>2. /\ \A n \in Node : rsetid[n] \in Nat /\ rsetid[n] < nextId
        /\ \A s \in sets : s.id \in Nat /\ s.id < nextId /\ s.id # 0 /\ s.node \in Node
    BY DEF IdsHeld, TypeOK
  <2>3. \A s \in sets' : s.id # 0 /\ s.id < nextId' /\ s.node \in Node
    BY <1>14, <2>1, <2>2
  <2>4. \A s, t \in sets' : s.id = t.id => s = t
    BY <1>14, <2>1 DEF IdsHeld
  <2>5. \A n \in Node, s \in sets' : s.id = rsetid[n] => s.node = n
    BY <1>14, <2>1, <2>2 DEF IdsHeld
  <2>6. \A n \in Node : rsetid[n] < nextId'
    BY <2>1, <2>2
  <2> HIDE DEF new
  <2> QED
    BY <1>1, <2>3, <2>4, <2>5, <2>6 DEF IdsHeld, nodeVars
<1>17. IdsBrought'
  <2>1. Brings(r) => /\ new \in sets' /\ nextId' = nextId + 1 /\ r.id = nextId
    BY <1>4 DEF Brings
  <2>2. \A t \in Replies : Brings(t) => t.id # 0 /\ t.id < nextId /\ t.id < nextId' /\ t.id # nextId
    <3>1. \A t \in Replies : t.id \in Nat
      BY MessageTypes DEF ReplyType
    <3> QED
      BY <1>4, <3>1 DEF IdsBrought, TypeOK
  <2>3. \A t \in Replies' : Brings(t) => t.id # 0 /\ t.id < nextId'
    BY <1>6, <2>1, <2>2 DEF TypeOK
  <2>4. \A t \in Replies' : Brings(t) => \A n \in Node : rsetid'[n] # t.id
    <3>1. \A n \in Node : rsetid[n] # nextId
      BY DEF IdsHeld, TypeOK
    <3> QED
      BY <1>1, <1>6, <2>1, <3>1 DEF IdsBrought, nodeVars
  <2>5. \A t \in Replies' : Brings(t) =>
          \A q \in reqs : q.seqno = t.seqno => [id |-> t.id, node |-> q.node] \in sets'
    <3>1. \A q \in reqs : q.seqno = r.seqno => q = own
      BY <1>4, <1>8 DEF InOrder
    <3>2. Brings(r) => [id |-> r.id, node |-> own.node] \in sets'
      BY <1>8, <2>1
    <3>3. sets \subseteq sets'
      BY <1>4
    <3> QED
      BY <1>6, <1>9, <3>1, <3>2, <3>3 DEF IdsBrought
  <2>6. \A t, u \in Replies' : Brings(t) /\ Brings(u) /\ t.id = u.id => t = u
    BY <1>6, <2>1, <2>2 DEF IdsBrought
  <2> QED
    BY <1>1, <2>3, <2>4, <2>5, <2>6 DEF IdsBrought, Brings
<1>18. IdsDestroyed'
  <2>1. \A d \in Calls' : d \in Calls /\ d.id \in Nat
    BY <1>3, MessageTypes DEF CallType
  <2>2. \A d \in Calls' : d.kind = "DESTROY" => d.id # 0 /\ d.id < nextId /\ d.id < nextId' /\ d.id # nextId
    BY <1>4, <2>1 DEF IdsDestroyed, TypeOK
  <2>3. \A d \in Calls' : d.kind = "DESTROY" => \A t \in Replies' : Brings(t) => t.id # d.id
    BY <1>4, <1>6, <2>1, <2>2 DEF IdsDestroyed, Brings
  <2>4. \A d \in Calls' : d.kind = "DESTROY" =>
          \A s \in sets' : s.id = d.id /\ s.node \in Stream => life'[s.node] = "gone"
    BY <1>1, <1>14, <2>1, <2>2 DEF IdsDestroyed, nodeVars
  <2> QED
    BY <1>1, <2>1, <2>2, <2>3, <2>4 DEF IdsDestroyed, nodeVars, Brings
<1>19. NoSetForgotten'
  <2>1. ASSUME NEW s \in sets', s.node \in Stream
        PROVE  \/ rsetid[s.node] = s.id
               \/ \E t \in Replies' : t.kind = "CREATE" /\ t.ok /\ t.id = s.id
               \/ \E q \in Calls' : q.kind = "DESTROY" /\ q.id = s.id
    <3>1. CASE s \in sets
      BY <1>1, <1>3, <1>6, <1>9, <2>1, <3>1 DEF NoSetForgotten, Calls, Replies
    <3>2. CASE s \notin sets
      BY <1>4, <1>6, <3>2
    <3> QED
      BY <3>1, <3>2
  <2> QED
    BY <1>1, <2>1 DEF NoSetForgotten, Calls, Replies, nodeVars
<1> QED
  BY <1>4, <1>10, <1>11, <1>12, <1>15, <1>16, <1>17, <1>18, <1>19 DEF TypeOK

LEMMA MurphyDestroysInv == ASSUME IInv, MurphyDestroys PROVE IInv'
<1> DEFINE c == Head(toMurphy)
           r == Response(c, sets' # sets, 0)
<1> USE DEF IInv, LinkInv
<1>1. /\ toMurphy # <<>> /\ c.kind = "DESTROY" /\ toMurphy' = Tail(toMurphy)
      /\ sets' = {s \in sets : s.id # c.id}
      /\ toPulse' = Append(toPulse, r)
      /\ UNCHANGED <<nodeVars, rifVars, seqno, reqs, murphy, nextId, refused, breaks, aborted, link>>
  BY DEF MurphyDestroys
<1>2. /\ c \in CallType /\ Tail(toMurphy) \in Seq(CallType)
      /\ Calls = Calls' \cup {c} /\ Ordered(toMurphy')
      /\ \A d \in Calls' : c.seqno < d.seqno
  BY <1>1, TakeMessage DEF TypeOK, Calls, CallType, InOrder
<1>3. r \in ReplyType /\ r.kind = "DESTROY" /\ r.seqno = c.seqno
  BY <1>1, <1>2 DEF Response, ReplyType, CallType
<1> HIDE DEF c, r
<1>4. c \in Calls /\ \A t \in Replies : t.seqno < c.seqno
  BY <1>2 DEF InOrder
<1>5. toPulse' \in Seq(ReplyType) /\ Replies' = Replies \cup {r} /\ Ordered(toPulse')
  <2>1. toPulse \in Seq(ReplyType) /\ Ordered(toPulse)
    BY DEF TypeOK, ReplyType, InOrder
  <2>2. \A x \in ToSet(toPulse) : x.seqno < r.seqno
    BY <1>3, <1>4 DEF Replies
  <2> QED
    BY <1>1, <1>3, <2>1, <2>2, AppendMessage DEF Replies
<1>6. Listed("DESTROY", c.node, c.seqno) \in reqs
  BY <1>1, <1>4 DEF InOrder
<1>7. PICK own \in reqs : own.kind = "DESTROY" /\ own.seqno = c.seqno
  BY <1>6 DEF Listed
<1>8. link = "up" /\ sets' \subseteq sets
  BY <1>1 DEF ByLink
<1>9. TypeOK'
  <2>1. /\ toMurphy' \in Seq([kind : Kinds, node : Node \cup {NoNode}, id : Nat, seqno : Nat])
        /\ toPulse' \in Seq([kind : Kinds, seqno : Nat, ok : BOOLEAN, id : Nat])
    BY <1>1, <1>2, <1>5 DEF CallType, ReplyType
  <2>2. sets' \subseteq [id : Nat, node : Node \cup {NoNode}]
    BY <1>8 DEF TypeOK
  <2> QED
    BY <1>1, <2>1, <2>2 DEF TypeOK, nodeVars, rifVars
<1>10. InOrder'
  <2>1. \A d \in Calls', t \in Replies' : t.seqno < d.seqno
    BY <1>2, <1>3, <1>5 DEF InOrder
  <2>2. \A t \in Replies' : \E q \in reqs : q.seqno = t.seqno /\ q.kind = t.kind
    BY <1>3, <1>5, <1>7 DEF InOrder
  <2> QED
    BY <1>1, <1>2, <1>5, <2>1, <2>2 DEF InOrder
<1>11. ByLink'
  BY <1>1, <1>8 DEF ByLink
<1>12. \A q, m : Asks(q, m)' <=> Asks(q, m)
  BY <1>2, <1>3, <1>5 DEF Asks
<1>13. /\ \A n \in Node : rsetid[n] # c.id
       /\ \A t \in Replies' : Brings(t) => t \in Replies /\ t.id # c.id
  BY <1>1, <1>3, <1>4, <1>5 DEF IdsDestroyed, Brings
<1>14. ASSUME NEW m \in Stream PROVE StreamInv(m)'
  <2>1. m \in Node
    BY DEF Node
  <2>2. rsetid[m] # 0 => [id |-> rsetid[m], node |-> m] \in sets'
    <3>1. rsetid[m] # 0 => [id |-> rsetid[m], node |-> m] \in sets
      BY <1>8 DEF StreamInv
    <3> QED
      BY <1>1, <1>13, <2>1, <3>1
  <2>3. \A d \in Calls', s \in sets' : d.kind = "CREATE" /\ d.node = m => s.node # m
    <3>1. \A d \in Calls, s \in sets : d.kind = "CREATE" /\ d.node = m => s.node # m
      BY DEF StreamInv
    <3> QED
      BY <1>2, <1>8, <3>1
  <2>4. \A p, q \in reqs : Asks(p, m)' /\ Asks(q, m)' => p = q
    BY <1>12 DEF StreamInv
  <2>5. life[m] = "live" => \A q \in reqs : Asks(q, m)' => localrset[m]
    BY <1>12 DEF StreamInv
  <2>6. rsetid[m] # 0 => \A q \in reqs : ~Asks(q, m)'
    BY <1>12 DEF StreamInv
  <2> QED
    BY <1>1, <1>8, <2>2, <2>3, <2>4, <2>5, <2>6 DEF StreamInv, nodeVars
<1>15. IdsHeld'
  BY <1>1, <1>8 DEF IdsHeld, nodeVars
<1>16. IdsBrought'
  <2>1. \A t \in Replies', q \in reqs : Brings(t) /\ q.seqno = t.seqno =>
           [id |-> t.id, node |-> q.node] \in sets'
    <3>1. \A t \in Replies, q \in reqs : Brings(t) /\ q.seqno = t.seqno =>
             [id |-> t.id, node |-> q.node] \in sets
      BY <1>8 DEF IdsBrought
    <3> QED
      BY <1>1, <1>13, <3>1
  <2> QED
    BY <1>1, <1>13, <2>1 DEF IdsBrought, nodeVars, Brings
<1>17. IdsDestroyed'
  <2>1. \A d \in Calls' : d \in Calls
    BY <1>2
  <2> QED
    BY <1>1, <1>8, <1>13, <2>1 DEF IdsDestroyed, nodeVars, Brings
<1>18. NoSetForgotten'
  <2>1. ASSUME NEW s \in sets', s.node \in Stream
        PROVE  \/ rsetid[s.node] = s.id
               \/ \E t \in Replies' : t.kind = "CREATE" /\ t.ok /\ t.id = s.id
               \/ \E q \in Calls' : q.kind = "DESTROY" /\ q.id = s.id
    <3>1. s \in sets /\ s.id # c.id
      BY <1>1
    <3>2. \/ rsetid[s.node] = s.id
          \/ \E t \in Replies : t.kind = "CREATE" /\ t.ok /\ t.id = s.id
          \/ \E q \in Calls : q.kind = "DESTROY" /\ q.id = s.id
      BY <1>8, <2>1, <3>1 DEF NoSetForgotten, Calls, Replies
    <3> QED
      BY <1>2, <1>5, <3>1, <3>2
  <2> QED
    BY <1>1, <2>1 DEF NoSetForgotten, Calls, Replies, nodeVars
<1> QED
  BY <1>1, <1>9, <1>10, <1>11, <1>14, <1>15, <1>16, <1>17, <1>18

LEMMA BreakInv == ASSUME IInv, Break PROVE IInv'
<1> USE DEF IInv, LinkInv
<1>1. /\ link' = "broken" /\ murphy' = FALSE /\ sets' = {} /\ toMurphy' = <<>>
      /\ breaks' = breaks + 1 /\ link = "up"
      /\ UNCHANGED <<nodeVars, rifVars, seqno, reqs, nextId, refused, aborted>>
  BY DEF Break
<1>2. PICK k \in 0 .. Len(toPulse) : toPulse' = SubSeq(toPulse, 1, k)
  BY DEF Break
<1>3. /\ toPulse' \in Seq(ReplyType) /\ Replies' \subseteq Replies /\ Ordered(toPulse')
      /\ Calls' = {}
  <2>1. toPulse \in Seq(ReplyType) /\ Ordered(toPulse)
    BY DEF TypeOK, ReplyType, InOrder
  <2>2. Calls' = {}
    BY <1>1 DEF Calls, ToSet
  <2> QED
    BY <1>2, <2>1, <2>2, FirstMessages DEF Replies
<1>4. TypeOK'
  <2>1. /\ toMurphy' \in Seq([kind : Kinds, node : Node \cup {NoNode}, id : Nat, seqno : Nat])
        /\ toPulse' \in Seq([kind : Kinds, seqno : Nat, ok : BOOLEAN, id : Nat])
    BY <1>1, <1>3 DEF CallType, ReplyType
  <2>2. connected /\ connected' /\ (link' # "down")
    BY <1>1 DEF TypeOK, rifVars
  <2>3. breaks' \in Nat
    BY <1>1 DEF TypeOK
  <2>5. /\ link' \in {"down", "up", "broken"}
        /\ murphy' \in BOOLEAN /\ sets' \subseteq [id : Nat, node : Node \cup {NoNode}]
    BY <1>1
  <2>4. connected' \in BOOLEAN /\ connected' = (link' # "down")
    BY <1>1, <2>2 DEF TypeOK, rifVars
  <2> QED
    BY <1>1, <2>1, <2>2, <2>3, <2>4, <2>5 DEF TypeOK, nodeVars, rifVars
<1>5. InOrder' /\ ByLink'
  BY <1>1, <1>3 DEF InOrder, ByLink, Ordered
<1>6. ASSUME NEW m \in Stream PROVE StreamInv(m)'
  <2>1. \A q \in reqs : Asks(q, m)' => Asks(q, m)
    BY <1>3 DEF Asks
  <2>2. \A p, q \in reqs : Asks(p, m)' /\ Asks(q, m)' => p = q
    BY <2>1 DEF StreamInv
  <2> QED
    BY <1>1, <1>3, <2>1, <2>2 DEF StreamInv, nodeVars
<1>7. IdsHeld' /\ IdsBrought'
  BY <1>1, <1>3 DEF IdsHeld, IdsBrought, nodeVars
<1>8. IdsDestroyed' /\ NoSetForgotten'
  BY <1>1, <1>3 DEF IdsDestroyed, NoSetForgotten
<1> QED
  BY <1>1, <1>4, <1>5, <1>6, <1>7, <1>8

(* resource_recvfrom_msg finds the request that the response answers,      *)
(* among all that are still listed.                                        *)
LEMMA FirstReaderOwn ==
  ASSUME IInv, NEW r \in Replies, NEW own \in reqs, own.seqno = r.seqno
  PROVE  Readers(r) # {} /\ FirstReader(r) = own
<1> USE DEF IInv, LinkInv
<1>1. /\ r.seqno \in Nat /\ own.seqno \in Nat
      /\ \A q \in reqs : q.seqno \in Nat
  BY MessageTypes DEF TypeOK, ReplyType
<1>2. own \in Readers(r) /\ \A p \in Readers(r) : p \in reqs /\ p.seqno <= own.seqno
  BY <1>1 DEF Readers
<1>3. \A q \in Readers(r) : (\A p \in Readers(r) : p.seqno <= q.seqno) => q = own
  <2>1. ASSUME NEW q \in Readers(r), own.seqno <= q.seqno PROVE q = own
    <3>1. q \in reqs /\ q.seqno = own.seqno
      BY <1>1, <1>2, <2>1
    <3> QED
      BY <3>1 DEF InOrder
  <2> QED
    BY <1>2, <2>1
<1> QED
  BY <1>2, <1>3 DEF FirstReader

LEMMA ReceiveResponseInv == ASSUME IInv, ReceiveResponse PROVE IInv'
<1> DEFINE r == Head(toPulse)
           left == {q \in reqs : q.seqno > r.seqno \/ q.kind # r.kind}
           n == FirstReader(r).node
<1> USE DEF IInv, LinkInv
<1>1. /\ toPulse # <<>> /\ toPulse' = Tail(toPulse)
      /\ UNCHANGED <<life, loop, localrset, rifVars, murphyVars, aborted, link>>
  BY DEF ReceiveResponse
<1>2. \/ /\ r.kind = "CREATE" /\ r.ok /\ Readers(r) # {} /\ n \in Live
         /\ CreateResponse(n, r.id, left)
      \/ /\ r.kind = "CREATE" /\ r.ok /\ Readers(r) # {} /\ n \notin Live
         /\ CreateResponseAbort(r.id, left)
      \/ /\ ~(r.kind = "CREATE" /\ r.ok /\ Readers(r) # {})
         /\ reqs' = left
         /\ UNCHANGED <<rsetid, known, seqno, toMurphy>>
  BY DEF ReceiveResponse, Respond
<1>3. /\ r \in ReplyType /\ Tail(toPulse) \in Seq(ReplyType)
      /\ Replies = Replies' \cup {r} /\ Ordered(toPulse')
      /\ \A t \in Replies' : r.seqno < t.seqno
  BY <1>1, TakeMessage DEF TypeOK, Replies, ReplyType, InOrder
<1> HIDE DEF r
<1>4. r \in Replies /\ r \notin Replies' /\ r.seqno \in Nat /\ r.id \in Nat
  BY <1>3 DEF ReplyType
<1>5. PICK own \in reqs : own.seqno = r.seqno /\ own.kind = r.kind
  BY <1>4 DEF InOrder
<1>6. Readers(r) # {} /\ n = own.node
  BY <1>4, <1>5, FirstReaderOwn
<1> HIDE DEF n
<1>7. left \in SUBSET reqs /\ \A q \in reqs : q.seqno > r.seqno => q \in left
  OBVIOUS
<1>8. \A c \in Calls : Listed(c.kind, c.node, c.seqno) \in left
  <2>1. \A c \in Calls : Listed(c.kind, c.node, c.seqno).seqno > r.seqno
    BY <1>4 DEF InOrder, Listed
  <2> QED
    BY <1>7, <2>1 DEF InOrder
<1>9. \A t \in Replies' : \E q \in left : q.seqno = t.seqno /\ q.kind = t.kind
  <2>1. \A t \in Replies' : t.seqno > r.seqno
    BY <1>3, MessageTypes DEF ReplyType
  <2> QED
    BY <1>3, <1>7, <2>1 DEF InOrder
<1>10. own \notin left
  BY <1>4, <1>5
<1> HIDE DEF left
<1>11. ASSUME reqs' = left, UNCHANGED <<seqno, toMurphy>>
       PROVE  InOrder' /\ ByLink' /\ Calls' = Calls
  <2>1. Calls' = Calls
    BY <1>11 DEF Calls
  <2>2. ByLink'
    BY <1>1, <1>11 DEF ByLink, murphyVars
  <2>3. InOrder'
    BY <1>3, <1>7, <1>8, <1>9, <1>11, <2>1 DEF InOrder
  <2> QED
    BY <2>1, <2>2, <2>3
<1>12. \A q \in left : \A m :
         ((\E c \in Calls : c.seqno = q.seqno) \/ (\E t \in Replies' : t.seqno = q.seqno))
           /\ q.kind = "CREATE" /\ q.node = m
         => Asks(q, m)
  BY <1>3 DEF Asks
<1>13. Brings(r) => Asks(own, own.node) /\ own.node \in Node
  BY <1>4, <1>5 DEF Asks, Brings, InOrder
<1>14. own.kind = "CREATE" => \A m \in Stream : own.node = m => life[m] # "new"
  BY DEF StreamInv
<1>15. \/ /\ r.id # 0 /\ r.id < nextId /\ (\A m \in Node : rsetid[m] # r.id)
          /\ \A t \in Replies' : Brings(t) => t.id # r.id
          /\ link = "up" => [id |-> r.id, node |-> own.node] \in sets
       \/ ~Brings(r)
  BY <1>3, <1>4, <1>5 DEF IdsBrought
<1>16. \A q \in left : q \in reqs
  BY <1>7
<1>17. CASE Brings(r) /\ n \in Live
  <2>1. /\ rsetid' = [rsetid EXCEPT ![n] = r.id]
        /\ known' = [known EXCEPT ![n] = IF @ = 0 THEN r.id ELSE @]
        /\ reqs' = left /\ UNCHANGED <<seqno, toMurphy>>
    BY <1>2, <1>6, <1>17 DEF Brings, CreateResponse
  <2>2. InOrder' /\ ByLink' /\ Calls' = Calls
    BY <1>11, <2>1
  <2>3. TypeOK'
    <3>1. rsetid' \in [Node -> Nat] /\ known' \in [Node -> Nat]
      BY <1>4, <2>1 DEF TypeOK
    <3>2. toPulse' \in Seq([kind : Kinds, seqno : Nat, ok : BOOLEAN, id : Nat])
      BY <1>1, <1>3 DEF ReplyType
    <3>3. reqs' \subseteq [kind : Kinds, node : Node \cup {NoNode}, seqno : Nat]
      BY <1>7, <2>1 DEF TypeOK
    <3> QED
      BY <1>1, <2>1, <3>1, <3>2, <3>3 DEF TypeOK, rifVars, murphyVars
  <2>4. n \in Node /\ life[n] = "live" /\ Asks(own, n)
    BY <1>6, <1>13, <1>17 DEF Live
  <2>5. ASSUME NEW m \in Stream PROVE StreamInv(m)'
    <3>1. \A q \in reqs' : Asks(q, m)' => q \in reqs /\ Asks(q, m) /\ q # own
      BY <1>1, <1>3, <1>10, <1>16, <2>1, <2>2 DEF Asks
    <3>2. m \in Node
      BY DEF Node
    <3>3. CASE m = n
      <4>1. rsetid'[m] = r.id /\ localrset'[m] /\ link # "down"
        <5>1. toPulse # <<>> => link # "down"
          BY DEF ByLink
        <5> QED
          BY <1>1, <2>1, <2>4, <3>2, <3>3, <5>1 DEF StreamInv, TypeOK
      <4>2. \A q \in reqs' : ~Asks(q, m)'
        BY <2>4, <3>1, <3>3 DEF StreamInv
      <4>3. link = "up" => [id |-> rsetid'[m], node |-> m] \in sets
        BY <1>6, <1>15, <1>17, <3>3, <4>1
      <4>4. \A c \in Calls, s \in sets : c.kind = "CREATE" /\ c.node = m => s.node # m
        BY DEF StreamInv
      <4>5. /\ ~loop[m] /\ \A s, t \in sets : s.node = m /\ t.node = m => s = t
        BY DEF StreamInv
      <4> QED
        BY <1>1, <2>2, <2>4, <3>3, <4>1, <4>2, <4>3, <4>4, <4>5 DEF StreamInv, murphyVars
    <3>4. CASE m # n
      <4>1. rsetid'[m] = rsetid[m] /\ \A q \in reqs' : q \in reqs
        BY <1>16, <2>1, <3>2, <3>4 DEF TypeOK
      <4>2. \A p, q \in reqs' : Asks(p, m)' /\ Asks(q, m)' => p = q
        BY <3>1 DEF StreamInv
      <4> QED
        BY <1>1, <2>2, <3>1, <4>1, <4>2 DEF StreamInv, murphyVars
    <3> QED
      BY <3>3, <3>4
  <2>6. \A m \in Node : rsetid'[m] = IF m = n THEN r.id ELSE rsetid[m]
    BY <2>1 DEF TypeOK
  <2>7. IdsHeld'
    <3>1. \A s \in sets : s.id = r.id => s.node = n
      <4>1. CASE link = "up"
        BY <1>6, <1>15, <1>17, <4>1 DEF IdsHeld
      <4>2. CASE link # "up"
        BY <4>2 DEF ByLink
      <4> QED
        BY <4>1, <4>2
    <3> QED
      BY <1>1, <1>15, <1>17, <2>4, <2>6, <3>1 DEF IdsHeld, murphyVars
  <2>8. IdsBrought'
    <3>1. \A t \in Replies' : Brings(t) => \A m \in Node : rsetid'[m] # t.id
      BY <1>3, <1>15, <1>17, <2>6 DEF IdsBrought
    <3> QED
      BY <1>1, <1>3, <1>16, <2>1, <3>1 DEF IdsBrought, Brings, murphyVars
  <2>9. IdsDestroyed'
    <3>1. \A c \in Calls : c.kind = "DESTROY" => \A m \in Node : rsetid'[m] # c.id
      BY <1>4, <1>17, <2>6 DEF IdsDestroyed
    <3> QED
      BY <1>1, <1>3, <2>2, <3>1 DEF IdsDestroyed, Brings, murphyVars
  <2>10. NoSetForgotten'
    <3>1. ASSUME link = "up", NEW s \in sets, s.node \in Stream
          PROVE  \/ rsetid'[s.node] = s.id
                 \/ \E t \in Replies' : t.kind = "CREATE" /\ t.ok /\ t.id = s.id
                 \/ \E q \in Calls : q.kind = "DESTROY" /\ q.id = s.id
      <4>1. \/ rsetid[s.node] = s.id
            \/ \E t \in Replies : t.kind = "CREATE" /\ t.ok /\ t.id = s.id
            \/ \E q \in Calls : q.kind = "DESTROY" /\ q.id = s.id
        BY <3>1 DEF NoSetForgotten, Calls, Replies
      <4>2. s.id = r.id => s.node = n
        BY <1>6, <1>15, <1>17, <3>1 DEF IdsHeld
      <4>3. n \in Stream => rsetid[n] = 0
        BY <1>5, <2>4 DEF StreamInv
      <4>4. s.id # 0
        BY DEF IdsHeld
      <4> QED
        BY <1>3, <2>4, <2>6, <3>1, <4>1, <4>2, <4>3, <4>4 DEF Node
    <3> QED
      BY <1>1, <2>2, <3>1 DEF NoSetForgotten, Calls, Replies, murphyVars
  <2> QED
    BY <1>1, <2>2, <2>3, <2>5, <2>7, <2>8, <2>9, <2>10 DEF murphyVars
<1>18. CASE Brings(r) /\ n \notin Live
  <2>1. DestroySet(r.id, left) /\ UNCHANGED <<rsetid, known>>
    BY <1>2, <1>6, <1>18 DEF Brings, CreateResponseAbort
  <2>2. Sends("DESTROY", NoNode, r.id, left)
    BY <1>4, <2>1, SendEffect DEF DestroySet, Kinds
  <2>3. InOrder' /\ reqs' \subseteq [kind : Kinds, node : Node \cup {NoNode}, seqno : Nat]
    <3>1. "DESTROY" \in Kinds /\ NoNode \in IF "DESTROY" = "CREATE" THEN Node ELSE {NoNode}
      BY DEF Kinds
    <3>2. \A t \in Replies : t \in Replies' => \E q \in left : q.seqno = t.seqno /\ q.kind = t.kind
      BY <1>9
    <3>3. Replies' \subseteq Replies
      BY <1>3
    <3> QED
      BY <1>3, <1>4, <1>7, <1>8, <2>2, <3>1, <3>2, <3>3, SendInOrder
  <2>4. TypeOK'
    <3>1. /\ toMurphy' \in Seq([kind : Kinds, node : Node \cup {NoNode}, id : Nat, seqno : Nat])
          /\ toPulse' \in Seq([kind : Kinds, seqno : Nat, ok : BOOLEAN, id : Nat])
      BY <1>1, <1>3, <2>2 DEF Sends, CallType, ReplyType
    <3>2. seqno' \in Nat
      BY <2>2 DEF Sends, TypeOK
    <3> QED
      BY <1>1, <2>1, <2>3, <3>1, <3>2 DEF TypeOK, rifVars, murphyVars
  <2>5. ByLink'
    BY <1>1, <2>2 DEF ByLink, Sends, murphyVars
  <2>6. /\ Calls' = Calls \/ Calls' = Calls \cup {Request("DESTROY", NoNode, r.id, seqno)}
        /\ reqs' = left \/ reqs' = left \cup {Listed("DESTROY", NoNode, seqno)}
        /\ link = "up" => Calls' = Calls \cup {Request("DESTROY", NoNode, r.id, seqno)}
        /\ seqno \in Nat
    BY <2>2 DEF Sends, Calls, TypeOK
  <2>7. \A c \in Calls' : c \in Calls \/ (c.kind = "DESTROY" /\ c.id = r.id /\ c.seqno = seqno)
    BY <2>6 DEF Request
  <2>8. \A q \in reqs' : q \in left \/ (q.kind = "DESTROY" /\ q.node = NoNode /\ q.seqno = seqno)
    BY <2>6 DEF Listed
  <2>9. \A q \in reqs : q.seqno # seqno
    BY DEF InOrder, TypeOK
  <2>10. ASSUME NEW m \in Stream PROVE StreamInv(m)'
    <3>1. m \in Node /\ m # NoNode
      BY LinkConfig DEF Node
    <3>2. \A q \in reqs' : Asks(q, m)' => q \in reqs /\ Asks(q, m)
      BY <1>3, <1>16, <2>7, <2>8, <2>9 DEF Asks
    <3>3. \A q \in reqs' : q.node = m => q \in reqs
      BY <1>16, <2>8, <3>1
    <3>4. \A c \in Calls' : c.kind = "CREATE" => c \in Calls
      BY <2>7
    <3>5. \A p, q \in reqs' : Asks(p, m)' /\ Asks(q, m)' => p = q
      BY <3>2 DEF StreamInv
    <3> QED
      BY <1>1, <2>1, <3>2, <3>3, <3>4, <3>5 DEF StreamInv, murphyVars
  <2>11. IdsHeld'
    BY <1>1, <2>1 DEF IdsHeld, murphyVars
  <2>12. IdsBrought'
    <3>1. \A q \in reqs', t \in Replies' : q.seqno = t.seqno => q \in reqs
      <4>1. \A t \in Replies : t.seqno # seqno
        BY <2>9 DEF InOrder
      <4> QED
        BY <1>3, <1>16, <2>8, <4>1
    <3> QED
      BY <1>1, <1>3, <2>1, <3>1 DEF IdsBrought, Brings, murphyVars
  <2>13. IdsDestroyed'
    <3>1. \A s \in sets : s.id = r.id /\ s.node \in Stream => life[s.node] = "gone"
      <4>1. SUFFICES ASSUME NEW s \in sets, s.id = r.id, s.node \in Stream
                     PROVE  life[s.node] = "gone"
        OBVIOUS
      <4>2. link = "up"
        BY DEF ByLink
      <4>3. s.node = own.node
        BY <1>15, <1>18, <4>1, <4>2 DEF IdsHeld
      <4>4. life[s.node] # "new"
        BY <1>5, <1>14, <1>18, <4>1, <4>3 DEF Brings
      <4>5. life[s.node] # "live"
        BY <1>6, <1>13, <1>18, <4>3 DEF Live
      <4> QED
        BY <1>13, <1>18, <4>3, <4>4, <4>5 DEF TypeOK
    <3> QED
      BY <1>1, <1>3, <1>15, <1>18, <2>1, <2>7, <3>1 DEF IdsDestroyed, Brings, murphyVars
  <2>14. NoSetForgotten'
    <3>1. ASSUME link = "up", NEW s \in sets, s.node \in Stream
          PROVE  \/ rsetid[s.node] = s.id
                 \/ \E t \in Replies' : t.kind = "CREATE" /\ t.ok /\ t.id = s.id
                 \/ \E q \in Calls' : q.kind = "DESTROY" /\ q.id = s.id
      <4>1. \/ rsetid[s.node] = s.id
            \/ \E t \in Replies : t.kind = "CREATE" /\ t.ok /\ t.id = s.id
            \/ \E q \in Calls : q.kind = "DESTROY" /\ q.id = s.id
        BY <3>1 DEF NoSetForgotten, Calls, Replies
      <4>2. /\ Request("DESTROY", NoNode, r.id, seqno) \in Calls' /\ Calls \subseteq Calls'
            /\ Request("DESTROY", NoNode, r.id, seqno).id = r.id
            /\ Request("DESTROY", NoNode, r.id, seqno).kind = "DESTROY"
        BY <2>6, <3>1 DEF Request
      <4> QED
        BY <1>3, <4>1, <4>2
    <3> QED
      BY <1>1, <2>1, <3>1 DEF NoSetForgotten, Calls, Replies, murphyVars
  <2> QED
    BY <1>1, <2>3, <2>4, <2>5, <2>10, <2>11, <2>12, <2>13, <2>14 DEF murphyVars
<1>19. CASE ~Brings(r)
  <2>1. reqs' = left /\ UNCHANGED <<rsetid, known, seqno, toMurphy>>
    BY <1>2, <1>19 DEF Brings
  <2>2. InOrder' /\ ByLink' /\ Calls' = Calls
    BY <1>11, <2>1
  <2>3. TypeOK'
    <3>1. toPulse' \in Seq([kind : Kinds, seqno : Nat, ok : BOOLEAN, id : Nat])
      BY <1>1, <1>3 DEF ReplyType
    <3>2. reqs' \subseteq [kind : Kinds, node : Node \cup {NoNode}, seqno : Nat]
      BY <1>7, <2>1 DEF TypeOK
    <3> QED
      BY <1>1, <2>1, <3>1, <3>2 DEF TypeOK, rifVars, murphyVars
  <2>4. ASSUME NEW m \in Stream PROVE StreamInv(m)'
    <3>1. \A q \in reqs' : q \in reqs /\ (Asks(q, m)' => Asks(q, m))
      BY <1>3, <1>16, <2>1, <2>2 DEF Asks
    <3>2. \A p, q \in reqs' : Asks(p, m)' /\ Asks(q, m)' => p = q
      BY <3>1 DEF StreamInv
    <3> QED
      BY <1>1, <2>1, <2>2, <3>1, <3>2 DEF StreamInv, murphyVars
  <2>5. IdsHeld' /\ IdsBrought'
    BY <1>1, <1>3, <1>16, <2>1 DEF IdsHeld, IdsBrought, Brings, murphyVars
  <2>6. IdsDestroyed'
    BY <1>1, <1>3, <2>1, <2>2 DEF IdsDestroyed, Brings, murphyVars
  <2>7. NoSetForgotten'
    <3>1. \A t \in Replies : Brings(t) => t \in Replies'
      BY <1>3, <1>19
    <3> QED
      BY <1>1, <2>1, <2>2, <3>1 DEF NoSetForgotten, Brings, Calls, Replies, murphyVars
  <2> QED
    BY <1>1, <2>2, <2>3, <2>4, <2>5, <2>6, <2>7 DEF murphyVars
<1> QED
  BY <1>6, <1>17, <1>18, <1>19

-----------------------------------------------------------------------------
(* The theorems.                                                           *)

LEMMA InvStep == IInv /\ [Next]_vars => IInv'
<1> SUFFICES ASSUME IInv, [Next]_vars PROVE IInv'
  OBVIOUS
<1>1. ASSUME NEW n \in Node,
             NewStream(n) \/ RemoveStream(n) \/ LoopAppears(n) \/ LoopGone(n) \/ DeviceGone(n)
      PROVE  IInv'
  BY <1>1, NewStreamInv, RemoveStreamInv, LoopAppearsInv, LoopGoneInv, DeviceGoneInv
<1>2. CASE UNCHANGED vars
  <2>1. TypeOK'
    BY <1>2 DEF IInv, TypeOK, vars, nodeVars, rifVars, requestVars, murphyVars
  <2>2. \A m \in Stream : life'[m] = life[m] /\ ~loop'[m]
    BY <1>2 DEF IInv, LinkInv, StreamInv, vars, nodeVars
  <2> QED
    BY <1>2, <2>1, <2>2, QuietInv DEF vars, nodeVars, murphyVars
<1> QED
  BY <1>1, <1>2, ConnectAttemptInv, ConnectionClosedInv, ReceiveResponseInv, MurphyStartsInv,
     MurphyCreatesInv, MurphyDestroysInv, BreakInv DEF Next

LEMMA Invariant == Spec => []IInv
BY InvInit, InvStep, PTL DEF Spec

(* Whatever comes over the connection and whenever it breaks, the          *)
(* variables are what they should be, and without a connection an attempt  *)
(* to connect is scheduled (connect_attempt, resource_xport_closed_evt).   *)
THEOREM TypeCorrect == Spec => []TypeOK
<1>1. IInv => TypeOK
  BY DEF IInv
<1> QED
  BY <1>1, Invariant, PTL

(* A response reaches the stream whose request it answers: the set that a  *)
(* stream holds over a working connection was created for it, and is the   *)
(* only one (resource_recvfrom_msg, resource_set_create_response).         *)
THEOREM OneSetForEach == Spec => []OneSetEach
<1>1. IInv => OneSetEach
  BY DEF IInv, LinkInv, StreamInv, OneSetEach
<1> QED
  BY <1>1, Invariant, PTL

(* However streams end while responses are awaited, the set of a stream is *)
(* held by it, is about to be brought to it, or is about to be destroyed   *)
(* (resource_set_create_response_abort, pa_murphyif_destroy_resource_set). *)
THEOREM NothingForgotten == Spec => []NoSetForgotten
<1>1. IInv => NoSetForgotten
  BY DEF IInv, LinkInv
<1> QED
  BY <1>1, Invariant, PTL

(* No set is destroyed that a node holds or will hold                      *)
(* (resource_set_destroy_node).                                            *)
THEOREM OnlyUnneededDestroyed == Spec => []DestroysUnneeded
<1>1. IInv => DestroysUnneeded
  BY DEF IInv, LinkInv, IdsDestroyed, DestroysUnneeded, Live, Calls
<1> QED
  BY <1>1, Invariant, PTL

-----------------------------------------------------------------------------
(* The refinement of OneSet.                                               *)

LEMMA PromiseInit == Init => Promise!OneSetInit
BY DEF Init, Promise!OneSetInit, Node

(* A response brings at most one node its set, under an id nobody has.     *)
LEMMA ResponseEffect ==
  ASSUME IInv, ReceiveResponse, rsetid' # rsetid
  PROVE  \E n \in Node, id \in Nat :
           /\ life[n] = "live" /\ rsetid' = [rsetid EXCEPT ![n] = id]
           /\ n \in Stream => rsetid[n] = 0
           /\ id # 0 /\ \A m \in Node : rsetid[m] # id
<1> DEFINE r == Head(toPulse)
           n == FirstReader(r).node
<1> USE DEF IInv, LinkInv
<1>1. /\ r.kind = "CREATE" /\ r.ok /\ n \in Live
      /\ rsetid' = [rsetid EXCEPT ![n] = r.id]
  BY DEF ReceiveResponse, Respond, CreateResponse, CreateResponseAbort
<1>2. r \in Replies /\ r \in ReplyType
  <2>1. toPulse # <<>> /\ toPulse \in Seq(ReplyType)
    BY DEF ReceiveResponse, TypeOK, ReplyType
  <2> QED
    BY <2>1, TakeMessage DEF Replies
<1> HIDE DEF r
<1>3. PICK own \in reqs : own.seqno = r.seqno /\ own.kind = r.kind
  BY <1>2 DEF InOrder
<1>4. n = own.node
  BY <1>2, <1>3, FirstReaderOwn
<1>5. Asks(own, n)
  BY <1>1, <1>2, <1>3, <1>4 DEF Asks
<1> HIDE DEF n
<1>6. n \in Stream => rsetid[n] = 0
  BY <1>3, <1>5 DEF StreamInv
<1>7. r.id \in Nat /\ r.id # 0 /\ \A m \in Node : rsetid[m] # r.id
  BY <1>1, <1>2 DEF IdsBrought, Brings, ReplyType
<1> QED
  BY <1>1, <1>6, <1>7 DEF Live

(* What the promise sees of a step is what it does to the streams.         *)
LEMMA PromiseUnmoved ==
  ASSUME \A m \in Stream : life'[m] = life[m] /\ rsetid'[m] = rsetid[m]
  PROVE  UNCHANGED Promise!oneSetVars
BY DEF Promise!oneSetVars

LEMMA PromiseStep == IInv /\ [Next]_vars => [Promise!OneSetNext]_(Promise!oneSetVars)
<1> SUFFICES ASSUME IInv, [Next]_vars
             PROVE  [Promise!OneSetNext]_(Promise!oneSetVars)
  OBVIOUS
<1> USE DEF IInv, LinkInv
<1> HIDE DEF Node
<1>0. Stream \subseteq Node
  BY DEF Node
<1>1. ASSUME NEW n \in Node, NewStream(n) PROVE Promise!OneSetNext
  <2>1. /\ n \in Stream /\ life[n] = "new" /\ life' = [life EXCEPT ![n] = "live"]
        /\ rsetid' = rsetid
    BY <1>1 DEF NewStream
  <2>2. Promise!Come(n)
    BY <1>0, <2>1 DEF Promise!Come, TypeOK
  <2> QED
    BY <2>1, <2>2 DEF Promise!OneSetNext
<1>2. ASSUME NEW n \in Node, RemoveStream(n) PROVE Promise!OneSetNext
  <2>1. /\ n \in Stream /\ life[n] = "live" /\ life' = [life EXCEPT ![n] = "gone"]
        /\ DestroyResourceSet(n)
    BY <1>2 DEF RemoveStream
  <2>2. rsetid' = [rsetid EXCEPT ![n] = 0]
    <3>1. rsetid[n] # 0 => localrset[n]
      BY <2>1 DEF StreamInv
    <3> QED
      BY <2>1, <3>1, DestroyEffect DEF TypeOK
  <2>3. Promise!Leave(n)
    BY <1>0, <2>1, <2>2 DEF Promise!Leave, TypeOK
  <2> QED
    BY <2>1, <2>3 DEF Promise!OneSetNext
<1>3. ASSUME NEW n \in Node, LoopAppears(n) \/ LoopGone(n) \/ DeviceGone(n)
      PROVE  UNCHANGED Promise!oneSetVars
  <2>1. n \notin Stream
    BY <1>3, LinkConfig DEF LoopAppears, LoopGone, DeviceGone, StreamInv
  <2>2. \A m \in Node : m # n => life'[m] = life[m]
    BY <1>3 DEF LoopAppears, LoopGone, DeviceGone, TypeOK
  <2>3. \A m \in Node : m # n => rsetid'[m] = rsetid[m]
    <3>1. ASSUME LoopGone(n) PROVE rsetid' = rsetid \/ rsetid' = [rsetid EXCEPT ![n] = 0]
      BY <3>1, DestroyEffect DEF LoopGone
    <3> QED
      BY <1>3, <3>1 DEF LoopAppears, DeviceGone, TypeOK
  <2> QED
    BY <1>0, <2>1, <2>2, <2>3, PromiseUnmoved
<1>4. ASSUME ConnectionClosed PROVE Promise!OneSetNext
  <2>1. /\ life' = life
        /\ rsetid' = [n \in Node |-> IF n \in Live \cap Stream /\ localrset[n] THEN 0 ELSE rsetid[n]]
    BY <1>4 DEF ConnectionClosed, DestroyAll
  <2>2. \A n \in Stream : rsetid'[n] = 0
    BY <1>0, <2>1 DEF StreamInv, Live
  <2>3. Promise!LoseAll
    BY <2>1, <2>2 DEF Promise!LoseAll
  <2> QED
    BY <2>3 DEF Promise!OneSetNext
<1>5. ASSUME ReceiveResponse PROVE [Promise!OneSetNext]_(Promise!oneSetVars)
  <2>1. life' = life
    BY <1>5 DEF ReceiveResponse
  <2>2. CASE rsetid' = rsetid
    BY <2>1, <2>2, PromiseUnmoved
  <2>3. CASE rsetid' # rsetid
    <3>1. PICK n \in Node, id \in Nat :
            /\ life[n] = "live" /\ rsetid' = [rsetid EXCEPT ![n] = id]
            /\ n \in Stream => rsetid[n] = 0
            /\ id # 0 /\ \A m \in Node : rsetid[m] # id
      BY <1>5, <2>3, ResponseEffect
    <3>2. CASE n \in Stream
      <4>1. Promise!Obtain(n)
        BY <1>0, <2>1, <3>1, <3>2 DEF Promise!Obtain, TypeOK
      <4> QED
        BY <3>2, <4>1 DEF Promise!OneSetNext
    <3>3. CASE n \notin Stream
      BY <1>0, <2>1, <3>1, <3>3, PromiseUnmoved DEF TypeOK
    <3> QED
      BY <3>2, <3>3
  <2> QED
    BY <2>2, <2>3
<1>6. ASSUME \/ ConnectAttempt \/ MurphyStarts \/ MurphyCreates \/ MurphyDestroys \/ Break
             \/ UNCHANGED vars
      PROVE  UNCHANGED Promise!oneSetVars
  <2>1. life' = life /\ rsetid' = rsetid
    BY <1>6 DEF ConnectAttempt, MurphyStarts, MurphyCreates, MurphyDestroys, Break, vars, nodeVars
  <2> QED
    BY <2>1, PromiseUnmoved
<1> QED
  BY <1>1, <1>2, <1>3, <1>4, <1>5, <1>6 DEF Next

(* What the Murphy interface promises the streams: each holds at most one  *)
(* set, nobody else holds the same, and it loses it only when it ends or   *)
(* when all lose theirs with the connection (murphyif.c as a whole).       *)
THEOREM LinkKeepsPromise == Spec => PromiseKept
BY Invariant, PromiseInit, PromiseStep, PTL DEF Spec, PromiseKept, Promise!OneSetSpec
=============================================================================
