-------------------------- MODULE MultiplexProofs --------------------------
(***************************************************************************)
(* Proofs about Multiplex.  A routing pass goes through the stream's       *)
(* connections by a recursive function.  What it computes is proved by an  *)
(* induction on a set of numbers (Climb), which rests on the fact that the *)
(* natural numbers are well-founded and needs no operator as a parameter:  *)
(* CourseExists shows that the recursion defines a function, and           *)
(* ServedStep carries what is true of the outputs from one connection to   *)
(* the next.                                                               *)
(*                                                                         *)
(* The types and that routes are not interrupted hold in every state.  The *)
(* rest says nothing of a combine sink that was suspended while its stream *)
(* had explicit routes, which collects outputs, until the stream ends.     *)
(***************************************************************************)
EXTENDS Multiplex, TLAPS, WellFoundedInduction, FiniteSetTheorems, SequenceTheorems

(* Every nonempty set of natural numbers has a least member.               *)
LEMMA LeastNatural ==
  ASSUME NEW S \in SUBSET Nat, NEW n \in S
  PROVE  \E least \in S : \A k \in S : least <= k
<1>1. IsWellFoundedOn(OpToRel(<, Nat), Nat)
  BY NatLessThanWellFounded
<1>2. PICK least \in S : \A k \in S : ~(<<k, least>> \in OpToRel(<, Nat))
  BY <1>1, WFMin
<1>3. ASSUME NEW k \in S, k < least
      PROVE  FALSE
  <2>1. <<k, least>> \in OpToRel(<, Nat)
    BY <1>3 DEF OpToRel
  <2> QED BY <2>1, <1>2
<1> QED BY <1>3

(* What holds at the start and is kept by each step holds at the end: an   *)
(* induction whose claim is a set, of the numbers for which it is true.    *)
LEMMA Climb ==
  ASSUME NEW N \in Nat, NEW G, 0 \in G,
         \A i \in 1..N : i - 1 \in G => i \in G
  PROVE  \A i \in 0..N : i \in G
<1> DEFINE S == {i \in 0..N : i \notin G}
<1> SUFFICES ASSUME NEW n \in S PROVE FALSE OBVIOUS
<1>1. PICK least \in S : \A k \in S : least <= k
  <2>1. S \in SUBSET Nat OBVIOUS
  <2> QED BY <2>1, LeastNatural
<1>2. least \in 1..N /\ least - 1 \in 0..N
  <2>1. least # 0 OBVIOUS
  <2> QED BY <2>1
<1>3. least - 1 \in G
  <2>1. CASE least - 1 \notin G
    <3>1. least - 1 \in S BY <2>1, <1>2
    <3> QED BY <3>1, <1>1, <1>2
  <2> QED BY <2>1
<1> QED BY <1>2, <1>3

-----------------------------------------------------------------------------
(* The multiplexer's state, apart from the default stream.                 *)
IsMux(m) ==
  /\ m = [outputs |-> m.outputs, def |-> m.def]
  /\ m.outputs \in Seq(Output)
  /\ \A k, l \in DOMAIN m.outputs : m.outputs[k].id = m.outputs[l].id => k = l
  /\ \A k \in DOMAIN m.outputs : m.outputs[k].on <=> m.outputs[k].method # None

(* The default stream is one that plays.                                   *)
DefaultPlays(m) ==
  m.def = None \/ \E k \in DOMAIN m.outputs : m.outputs[k].on /\ m.outputs[k].id = m.def

OnePerSink(m) ==
  \A k, l \in DOMAIN m.outputs : m.outputs[k].sink = m.outputs[l].sink => k = l

AllOn(m) == \A k \in DOMAIN m.outputs : m.outputs[k].on

(* The outputs of m are in n, with their streams; the default stream is    *)
(* the same, none, or that of a new output.                                *)
Grown(m, n) ==
  /\ DOMAIN m.outputs \subseteq DOMAIN n.outputs
  /\ \A k \in DOMAIN m.outputs : /\ n.outputs[k].id = m.outputs[k].id
                                 /\ n.outputs[k].on = m.outputs[k].on
  /\ \/ n.def \in {m.def, None}
     \/ \E k \in DOMAIN n.outputs \ DOMAIN m.outputs : n.outputs[k].id = n.def

(* There is a number for a new output, even after 1, 2, ..., Len.          *)
LEMMA NewIdIsNew ==
  ASSUME NEW m, IsMux(m)
  PROVE  /\ NewId(m) \in Nat \ {0}
         /\ \A k \in DOMAIN m.outputs : m.outputs[k].id # NewId(m)
<1> DEFINE Ids == {m.outputs[k].id : k \in DOMAIN m.outputs}
           Unused == (1..(Len(m.outputs) + 1)) \ Ids
<1>0. Len(m.outputs) \in Nat /\ DOMAIN m.outputs = 1..Len(m.outputs)
  BY DEF IsMux
<1>1. Unused # {}
  <2> SUFFICES ASSUME 1..(Len(m.outputs) + 1) \subseteq Ids PROVE FALSE OBVIOUS
  <2> DEFINE n == Len(m.outputs)
             At == [i \in 1..(n + 1) |-> CHOOSE k \in DOMAIN m.outputs : m.outputs[k].id = i]
  <2>1. \A i \in 1..(n + 1) : At[i] \in 1..n /\ m.outputs[At[i]].id = i
    BY <1>0
  <2>2. At \in [1..(n + 1) -> 1..n] BY <2>1
  <2>3. IsFiniteSet(1..(n + 1)) /\ Cardinality(1..(n + 1)) = n + 1
        /\ IsFiniteSet(1..n) /\ Cardinality(1..n) = n
    <3>1. n + 1 \in Int /\ n \in Int /\ 1 \in Int /\ n \in Nat BY <1>0
    <3>2. IsFiniteSet(1..(n + 1)) /\ Cardinality(1..(n + 1)) = IF 1 > n + 1 THEN 0 ELSE (n + 1) - 1 + 1
      BY <3>1, FS_Interval
    <3>3. IsFiniteSet(1..n) /\ Cardinality(1..n) = IF 1 > n THEN 0 ELSE n - 1 + 1
      BY <3>1, FS_Interval
    <3> HIDE DEF n
    <3> QED BY <3>1, <3>2, <3>3
  <2>4. \E x, y \in 1..(n + 1) : x # y /\ At[x] = At[y]
    <3> HIDE DEF At
    <3>1. Cardinality(1..n) < Cardinality(1..(n + 1)) BY <2>3, <1>0
    <3> QED BY <2>2, <2>3, <3>1, FS_PigeonHole
  <2> QED BY <2>1, <2>4
<1>2. PICK least \in Unused : \A k \in Unused : least <= k
  <2>1. Unused \in SUBSET Nat BY <1>0
  <2> QED BY <1>1, <2>1, LeastNatural
<1>3. \A j \in 1..(least - 1) : j \in Ids
  BY <1>2, <1>0
<1>4. \E n \in 1..(Len(m.outputs) + 1) :
        /\ \A k \in DOMAIN m.outputs : m.outputs[k].id # n
        /\ \A j \in 1..(n - 1) : \E k \in DOMAIN m.outputs : m.outputs[k].id = j
  <2> WITNESS least \in 1..(Len(m.outputs) + 1)
  <2> QED BY <1>2, <1>3
<1>5. NewId(m) \in 1..(Len(m.outputs) + 1)
      /\ \A k \in DOMAIN m.outputs : m.outputs[k].id # NewId(m)
  BY <1>4, Zenon DEF NewId
<1> QED BY <1>5, <1>0

LEMMA AddSlaveGrows ==
  ASSUME NEW m, IsMux(m), DefaultPlays(m), NEW d \in Device, NEW opened \in BOOLEAN,
         NEW method \in {"default", "explicit"}
  PROVE  LET n == AddSlave(m, d, opened, method) IN
         /\ IsMux(n) /\ DefaultPlays(n) /\ Grown(m, n)
         /\ Len(n.outputs) = Len(m.outputs) + 1
         /\ \A k \in DOMAIN m.outputs : n.outputs[k] = m.outputs[k]
         /\ n.outputs[Len(n.outputs)].sink = d
         /\ n.outputs[Len(n.outputs)].on = opened
         /\ n.def = IF opened /\ m.def = None THEN n.outputs[Len(n.outputs)].id ELSE m.def
<1> DEFINE o == [id |-> NewId(m), sink |-> d, on |-> opened,
                 method |-> IF opened THEN method ELSE None]
           n == AddSlave(m, d, opened, method)
<1>1. n = [outputs |-> Append(m.outputs, o),
           def |-> IF opened /\ m.def = None THEN o.id ELSE m.def]
  BY DEF AddSlave
<1>2. o \in Output /\ (o.on <=> o.method # None)
      /\ \A k \in DOMAIN m.outputs : m.outputs[k].id # o.id
  BY NewIdIsNew, MultiplexConfig DEF Output
<1> HIDE DEF o, n
<1>3. /\ n.outputs \in Seq(Output) /\ Len(n.outputs) = Len(m.outputs) + 1
      /\ \A k \in DOMAIN m.outputs : n.outputs[k] = m.outputs[k]
      /\ n.outputs[Len(m.outputs) + 1] = o
      /\ DOMAIN m.outputs = 1..Len(m.outputs)
      /\ DOMAIN n.outputs = 1..(Len(m.outputs) + 1)
      /\ Len(m.outputs) \in Nat
  BY <1>1, <1>2 DEF IsMux
<1>4. IsMux(n)
  BY <1>1, <1>2, <1>3 DEF IsMux
<1>5. n.def = IF opened /\ m.def = None THEN o.id ELSE m.def
  BY <1>1
<1>6. o.sink = d /\ o.on = opened BY DEF o
<1>7. DefaultPlays(n)
  <2>1. CASE opened /\ m.def = None
    <3>1. Len(m.outputs) + 1 \in DOMAIN n.outputs BY <1>3
    <3>2. n.outputs[Len(m.outputs) + 1].on /\ n.outputs[Len(m.outputs) + 1].id = n.def
      BY <2>1, <1>3, <1>5, <1>6
    <3> QED BY <3>1, <3>2 DEF DefaultPlays
  <2>2. CASE ~(opened /\ m.def = None)
    BY <2>2, <1>3, <1>5 DEF DefaultPlays
  <2> QED BY <2>1, <2>2
<1>8. Grown(m, n)
  BY <1>3, <1>5 DEF Grown
<1> QED BY <1>3, <1>4, <1>5, <1>6, <1>7, <1>8 DEF n

(* The sinks of the outputs of m are the same in n.                        *)
SameSinks(m, n) == \A k \in DOMAIN m.outputs : n.outputs[k].sink = m.outputs[k].sink

LEMMA MapOutputs ==
  ASSUME NEW s \in Seq(Output), NEW t, DOMAIN t = DOMAIN s,
         t = [k \in DOMAIN s |-> t[k]], \A k \in DOMAIN s : t[k] \in Output
  PROVE  t \in Seq(Output) /\ Len(t) = Len(s)
<1>1. DOMAIN s = 1..Len(s) /\ Len(s) \in Nat OBVIOUS
<1>2. t \in [1..Len(s) -> Output] BY <1>1
<1> QED BY <1>1, <1>2, SeqDef, LenProperties

LEMMA TransferGrows ==
  ASSUME NEW m, IsMux(m), DefaultPlays(m)
  PROVE  LET n == TransferDefault(m) IN
         /\ IsMux(n) /\ n.def = None /\ Grown(m, n) /\ SameSinks(m, n)
         /\ DOMAIN n.outputs = DOMAIN m.outputs
<1> DEFINE n == TransferDefault(m)
<1>1. /\ n = [outputs |-> n.outputs, def |-> None]
      /\ n.outputs = [k \in DOMAIN m.outputs |-> n.outputs[k]]
      /\ \A k \in DOMAIN m.outputs :
           n.outputs[k] = IF IsDefault(m, k) THEN [m.outputs[k] EXCEPT !.method = "explicit"]
                                             ELSE m.outputs[k]
  BY DEF TransferDefault
<1> HIDE DEF n
<1>2. DOMAIN n.outputs = DOMAIN m.outputs BY <1>1
<1>3. \A k \in DOMAIN m.outputs : m.outputs[k] \in Output BY DEF IsMux
<1>4. \A k \in DOMAIN m.outputs :
        /\ n.outputs[k] \in Output
        /\ n.outputs[k].id = m.outputs[k].id /\ n.outputs[k].on = m.outputs[k].on
        /\ n.outputs[k].sink = m.outputs[k].sink
        /\ n.outputs[k].on <=> n.outputs[k].method # None
  <2> SUFFICES ASSUME NEW k \in DOMAIN m.outputs
               PROVE  /\ n.outputs[k] \in Output
                      /\ n.outputs[k].id = m.outputs[k].id /\ n.outputs[k].on = m.outputs[k].on
                      /\ n.outputs[k].sink = m.outputs[k].sink
                      /\ n.outputs[k].on <=> n.outputs[k].method # None
    OBVIOUS
  <2>1. CASE IsDefault(m, k)
    <3>1. n.outputs[k] = [m.outputs[k] EXCEPT !.method = "explicit"] BY <1>1, <2>1
    <3>2. m.outputs[k].on BY <2>1 DEF IsDefault
    <3> QED BY <3>1, <3>2, <1>3, MultiplexConfig DEF Output
  <2>2. CASE ~IsDefault(m, k)
    BY <1>1, <1>3, <2>2 DEF IsMux
  <2> QED BY <2>1, <2>2
<1>5. n.outputs \in Seq(Output)
  <2>1. m.outputs \in Seq(Output) BY DEF IsMux
  <2> QED BY <1>1, <1>2, <1>4, <2>1, MapOutputs
<1>6. IsMux(n)
  BY <1>1, <1>2, <1>4, <1>5 DEF IsMux
<1>7. n.def = None BY <1>1
<1> QED BY <1>2, <1>4, <1>6, <1>7 DEF Grown, SameSinks, n

(* A stream of m plays on the device.                                      *)
PlaysOn(m, d) == \E k \in DOMAIN m.outputs : m.outputs[k].on /\ m.outputs[k].sink = d

(* What setup_explicit_stream2dev_link makes of m: the stream plays on the *)
(* device then, unless the combine sink is suspended.                      *)
PutOn(s, m, d, opened) ==
  /\ s.ok \in BOOLEAN
  /\ IsMux(s.mux) /\ DefaultPlays(s.mux) /\ Grown(m, s.mux) /\ SameSinks(m, s.mux)
  /\ \A k \in DOMAIN s.mux.outputs \ DOMAIN m.outputs :
       s.mux.outputs[k].sink = d /\ s.mux.outputs[k].on = opened
  /\ \A k \in DOMAIN m.outputs :
       IsDefault(m, k) => IsDefault(s.mux, k) \/ m.outputs[k].sink = d
  /\ opened => PlaysOn(s.mux, d) /\ s.ok
  /\ PlaysOn(m, d) => s.ok
  /\ AllOn(m) /\ OnePerSink(m) /\ opened => OnePerSink(s.mux)

LEMMA SetupExplicitServes ==
  ASSUME NEW m, IsMux(m), DefaultPlays(m), NEW d \in Device, NEW opened \in BOOLEAN
  PROVE  PutOn(SetupExplicit(m, d, opened), m, d, opened)
<1> DEFINE s == SetupExplicit(m, d, opened)
<1> SUFFICES PutOn(s, m, d, opened) OBVIOUS
<1> HIDE DEF s
<1>1. CASE \E k \in OutputsOn(m, d) : IsDefault(m, k)
  <2> DEFINE t == TransferDefault(m)
  <2>1. s.mux = t /\ s.ok = TRUE BY <1>1 DEF s, SetupExplicit
  <2>2. PICK k \in OutputsOn(m, d) : IsDefault(m, k) BY <1>1
  <2>3. k \in DOMAIN m.outputs /\ m.outputs[k].sink = d /\ m.outputs[k].on
        /\ m.outputs[k].id = m.def
    BY <2>2 DEF OutputsOn, IsDefault
  <2>4. IsMux(t) /\ t.def = None /\ Grown(m, t) /\ SameSinks(m, t)
        /\ DOMAIN t.outputs = DOMAIN m.outputs
    BY TransferGrows
  <2> HIDE DEF t
  <2>5. DefaultPlays(t) BY <2>4 DEF DefaultPlays
  <2>6. \A l \in DOMAIN m.outputs : IsDefault(m, l) => m.outputs[l].sink = d
    BY <2>3 DEF IsDefault, IsMux
  <2>7. t.outputs[k].on /\ t.outputs[k].sink = d BY <2>3, <2>4 DEF Grown, SameSinks
  <2>8. OnePerSink(m) => OnePerSink(t) BY <2>4 DEF OnePerSink, SameSinks
  <2> QED BY <2>1, <2>3, <2>4, <2>5, <2>6, <2>7, <2>8 DEF PutOn, PlaysOn
<1>2. CASE DuplicateRoute(m, d) /\ ~\E k \in OutputsOn(m, d) : IsDefault(m, k)
  <2>1. s.mux = m /\ s.ok = TRUE BY <1>2 DEF s, SetupExplicit
  <2>2. \E k \in DOMAIN m.outputs : m.outputs[k].on /\ m.outputs[k].sink = d
    BY <1>2 DEF DuplicateRoute, OutputsOn
  <2>3. Grown(m, m) /\ SameSinks(m, m) BY DEF Grown, SameSinks
  <2> QED BY <2>1, <2>2, <2>3 DEF PutOn, PlaysOn
<1>3. CASE /\ ~DuplicateRoute(m, d)
           /\ ~\E k \in OutputsOn(m, d) : IsDefault(m, k)
  <2> DEFINE a == AddSlave(m, d, opened, "explicit")
             z == Len(a.outputs)
  <2>1. s.mux = a /\ s.ok = opened BY <1>3 DEF s, SetupExplicit
  <2>2. /\ IsMux(a) /\ DefaultPlays(a) /\ Grown(m, a) /\ z = Len(m.outputs) + 1
        /\ \A k \in DOMAIN m.outputs : a.outputs[k] = m.outputs[k]
        /\ a.outputs[z].sink = d /\ a.outputs[z].on = opened
        /\ a.def = IF opened /\ m.def = None THEN a.outputs[z].id ELSE m.def
    <3>1. "explicit" \in {"default", "explicit"} OBVIOUS
    <3> QED BY <3>1, AddSlaveGrows
  <2>3. \A k \in DOMAIN m.outputs : m.outputs[k].on => m.outputs[k].sink # d
    BY <1>3 DEF DuplicateRoute, OutputsOn
  <2> HIDE DEF a
  <2>4. /\ Len(m.outputs) \in Nat /\ DOMAIN m.outputs = 1..Len(m.outputs)
        /\ Len(a.outputs) \in Nat /\ DOMAIN a.outputs = 1..Len(a.outputs)
    BY <2>2 DEF IsMux
  <2>5. SameSinks(m, a) BY <2>2 DEF SameSinks
  <2>6. \A k \in DOMAIN a.outputs \ DOMAIN m.outputs : k = z BY <2>2, <2>4
  <2>7. z \in DOMAIN a.outputs BY <2>2, <2>4
  <2>8. \A k \in DOMAIN m.outputs : IsDefault(m, k) => IsDefault(a, k)
    <3> SUFFICES ASSUME NEW k \in DOMAIN m.outputs, IsDefault(m, k) PROVE IsDefault(a, k) OBVIOUS
    <3>1. m.outputs[k].id = m.def /\ m.outputs[k].on BY DEF IsDefault
    <3>0. m.outputs[k] \in Output BY DEF IsMux
    <3>2. m.outputs[k].id \in Nat BY <3>0 DEF Output
    <3>3. a.def = m.def BY <2>2, <3>1, <3>2, MultiplexConfig
    <3> QED BY <2>2, <3>1, <3>3 DEF IsDefault
  <2>9. AllOn(m) /\ OnePerSink(m) => OnePerSink(a)
    BY <2>2, <2>3, <2>4, <2>6 DEF AllOn, OnePerSink
  <2>10. opened => \E k \in DOMAIN a.outputs : a.outputs[k].on /\ a.outputs[k].sink = d
    BY <2>2, <2>7
  <2>11. ~\E k \in DOMAIN m.outputs : m.outputs[k].on /\ m.outputs[k].sink = d
    BY <2>3
  <2> HIDE DEF z
  <2>12. \A k \in DOMAIN a.outputs \ DOMAIN m.outputs :
                  a.outputs[k].sink = d /\ a.outputs[k].on = opened
    BY <2>2, <2>6
  <2> QED BY <2>1, <2>2, <2>5, <2>8, <2>9, <2>10, <2>11, <2>12 DEF PutOn, PlaysOn
<1> QED BY <1>1, <1>2, <1>3

(* The i-th newest connection, and what setting it up makes of done.       *)
Newest(cs, i) == cs[Len(cs) + 1 - i]
Routes(before, d, up, opened) ==
  LET s == SetupExplicit(before.mux, d, opened)
  IN  IF d \notin up THEN before ELSE [mux |-> s.mux, ok |-> before.ok \/ s.ok]

(* The recursive function of MakeExplicit up to n.                         *)
IsCourse(f, n, m, cs, up, opened) ==
  f = [i \in 0..n |-> IF i = 0 THEN [mux |-> m, ok |-> FALSE]
                      ELSE Routes(f[i - 1], Newest(cs, i), up, opened)]

(* The recursion is well-founded: there is such a function, step by step.  *)
LEMMA CourseExists ==
  ASSUME NEW m, NEW cs, Len(cs) \in Nat, NEW up, NEW opened
  PROVE  \E f : IsCourse(f, Len(cs), m, cs, up, opened)
<1> DEFINE Done == {n \in 0..Len(cs) : \E f : IsCourse(f, n, m, cs, up, opened)}
<1>1. 0 \in Done
  <2>1. IsCourse([i \in 0..0 |-> [mux |-> m, ok |-> FALSE]], 0, m, cs, up, opened)
    BY DEF IsCourse
  <2> QED BY <2>1
<1>2. ASSUME NEW n \in 1..Len(cs), n - 1 \in Done
      PROVE  n \in Done
  <2>1. PICK f : IsCourse(f, n - 1, m, cs, up, opened) BY <1>2
  <2> DEFINE g == [i \in 0..n |-> IF i = n THEN Routes(f[n - 1], Newest(cs, n), up, opened)
                                  ELSE f[i]]
  <2>2. \A i \in 0..(n - 1) :
          f[i] = IF i = 0 THEN [mux |-> m, ok |-> FALSE]
                 ELSE Routes(f[i - 1], Newest(cs, i), up, opened)
    BY <2>1 DEF IsCourse
  <2>3. \A i \in 0..n :
          g[i] = IF i = 0 THEN [mux |-> m, ok |-> FALSE]
                 ELSE Routes(g[i - 1], Newest(cs, i), up, opened)
    <3> SUFFICES ASSUME NEW i \in 0..n
                 PROVE  g[i] = IF i = 0 THEN [mux |-> m, ok |-> FALSE]
                               ELSE Routes(g[i - 1], Newest(cs, i), up, opened)
      OBVIOUS
    <3>1. CASE i = n
      <4>1. g[i] = Routes(f[n - 1], Newest(cs, n), up, opened) BY <3>1
      <4>2. g[n - 1] = f[n - 1] /\ n # 0 OBVIOUS
      <4> QED BY <3>1, <4>1, <4>2
    <3>2. CASE i # n
      <4>1. g[i] = f[i] /\ i \in 0..(n - 1) BY <3>2
      <4>2. i # 0 => g[i - 1] = f[i - 1] BY <3>2
      <4> HIDE DEF g
      <4> QED BY <4>1, <4>2, <2>2
    <3> QED BY <3>1, <3>2
  <2>4. g = [i \in 0..n |-> g[i]] OBVIOUS
  <2> HIDE DEF g
  <2>5. IsCourse(g, n, m, cs, up, opened)
    BY <2>3, <2>4 DEF IsCourse
  <2> QED BY <2>5
<1> HIDE DEF Done
<1>3. \A n \in 0..Len(cs) : n \in Done
  BY <1>1, <1>2, Climb
<1>4. Len(cs) \in Done BY <1>3
<1> QED BY <1>4 DEF Done

(* So MakeExplicit takes the connections one after the other.              *)
LEMMA MakeExplicitSteps ==
  ASSUME NEW m, NEW cs, Len(cs) \in Nat, NEW up, NEW opened
  PROVE  \E f : /\ f[0] = [mux |-> m, ok |-> FALSE]
                /\ \A i \in 1..Len(cs) : f[i] = Routes(f[i - 1], Newest(cs, i), up, opened)
                /\ MakeExplicit(m, cs, up, opened) = f[Len(cs)]
<1> DEFINE F == CHOOSE f : IsCourse(f, Len(cs), m, cs, up, opened)
<1>1. IsCourse(F, Len(cs), m, cs, up, opened)
  BY CourseExists
<1>2. MakeExplicit(m, cs, up, opened) = F[Len(cs)]
  BY DEF MakeExplicit, IsCourse, Routes, Newest
<1> HIDE DEF F
<1>3. \A i \in 0..Len(cs) :
        F[i] = IF i = 0 THEN [mux |-> m, ok |-> FALSE]
               ELSE Routes(F[i - 1], Newest(cs, i), up, opened)
  BY <1>1 DEF IsCourse
<1>4. F[0] = [mux |-> m, ok |-> FALSE]
  <2>1. 0 \in 0..Len(cs) OBVIOUS
  <2>2. F[0] = IF 0 = 0 THEN [mux |-> m, ok |-> FALSE]
               ELSE Routes(F[0 - 1], Newest(cs, 0), up, opened)
    BY <1>3, <2>1, Zenon
  <2> QED BY <2>2
<1>5. \A i \in 1..Len(cs) : F[i] = Routes(F[i - 1], Newest(cs, i), up, opened)
  BY <1>3
<1> QED BY <1>2, <1>4, <1>5

LEMMA GrownAgain ==
  ASSUME NEW m, NEW n, NEW p, IsMux(m), IsMux(n), IsMux(p), Grown(m, n), Grown(n, p)
  PROVE  Grown(m, p)
<1>1. DOMAIN m.outputs \subseteq DOMAIN p.outputs BY DEF Grown
<1>2. \A k \in DOMAIN m.outputs : p.outputs[k].id = m.outputs[k].id
                                  /\ p.outputs[k].on = m.outputs[k].on
  BY DEF Grown
<1>3. \/ p.def \in {m.def, None}
      \/ \E k \in DOMAIN p.outputs \ DOMAIN m.outputs : p.outputs[k].id = p.def
  <2>1. CASE p.def \in {n.def, None}
    <3>1. CASE \E k \in DOMAIN n.outputs \ DOMAIN m.outputs : n.outputs[k].id = n.def
      <4>1. PICK k \in DOMAIN n.outputs \ DOMAIN m.outputs : n.outputs[k].id = n.def BY <3>1
      <4>2. k \in DOMAIN p.outputs \ DOMAIN m.outputs /\ p.outputs[k].id = n.def
        BY <4>1 DEF Grown
      <4> QED BY <2>1, <4>2
    <3>2. CASE n.def \in {m.def, None} BY <2>1, <3>2
    <3> QED BY <3>1, <3>2 DEF Grown
  <2>2. CASE \E k \in DOMAIN p.outputs \ DOMAIN n.outputs : p.outputs[k].id = p.def
    BY <2>2 DEF Grown
  <2> QED BY <2>1, <2>2 DEF Grown
<1> QED BY <1>1, <1>2, <1>3 DEF Grown

(* What make_explicit_routes has come to after the i newest connections.   *)
ServedSoFar(e, i, m, cs, up, opened) ==
  /\ e.ok \in BOOLEAN
  /\ IsMux(e.mux) /\ DefaultPlays(e.mux) /\ Grown(m, e.mux) /\ SameSinks(m, e.mux)
  /\ \A k \in DOMAIN e.mux.outputs \ DOMAIN m.outputs :
       e.mux.outputs[k].sink \in ToSet(cs) \cap up /\ e.mux.outputs[k].on = opened
  /\ \A k \in DOMAIN m.outputs :
       IsDefault(m, k) => IsDefault(e.mux, k) \/ m.outputs[k].sink \in ToSet(cs)
  /\ \A j \in 1..i : Newest(cs, j) \in up =>
       /\ opened => e.ok /\ PlaysOn(e.mux, Newest(cs, j))
       /\ PlaysOn(m, Newest(cs, j)) => e.ok
  /\ (\A j \in 1..i : Newest(cs, j) \notin up) => e.mux = m /\ e.ok = FALSE
  /\ AllOn(m) /\ OnePerSink(m) /\ opened => OnePerSink(e.mux)

LEMMA NewestIs ==
  ASSUME NEW cs \in Seq(Device)
  PROVE  /\ Len(cs) \in Nat
         /\ \A i \in 1..Len(cs) : Newest(cs, i) \in Device /\ Newest(cs, i) \in ToSet(cs)
         /\ \A d \in ToSet(cs) : d \in Device /\ \E i \in 1..Len(cs) : Newest(cs, i) = d
<1>1. Len(cs) \in Nat /\ DOMAIN cs = 1..Len(cs) /\ \A i \in 1..Len(cs) : cs[i] \in Device
  OBVIOUS
<1>2. \A i \in 1..Len(cs) : Len(cs) + 1 - i \in 1..Len(cs) BY <1>1
<1>3. \A i \in 1..Len(cs) : cs[i] \in ToSet(cs) BY <1>1 DEF ToSet
<1>4. ASSUME NEW d \in ToSet(cs)
      PROVE  d \in Device /\ \E i \in 1..Len(cs) : Newest(cs, i) = d
  <2>1. PICK i \in 1..Len(cs) : cs[i] = d BY <1>1 DEF ToSet
  <2>2. Newest(cs, Len(cs) + 1 - i) = d BY <2>1, <1>1 DEF Newest
  <2> QED BY <2>1, <2>2, <1>1, <1>2
<1> QED BY <1>1, <1>2, <1>3, <1>4 DEF Newest

LEMMA ServedStep ==
  ASSUME NEW m, IsMux(m), NEW cs \in Seq(Device), NEW up, NEW opened \in BOOLEAN,
         NEW e, NEW i \in 1..Len(cs), ServedSoFar(e, i - 1, m, cs, up, opened)
  PROVE  ServedSoFar(Routes(e, Newest(cs, i), up, opened), i, m, cs, up, opened)
<1>0. PICK d : d = Newest(cs, i) OBVIOUS
<1>1. d \in Device /\ d \in ToSet(cs) /\ Len(cs) \in Nat BY <1>0, NewestIs
<1>2. \A j \in 1..i : j \in 1..(i - 1) \/ j = i BY <1>1
<1>a. i \in 1..i /\ 1..(i - 1) \subseteq 1..i BY <1>1
<1>3. CASE d \notin up
  <2>1. Routes(e, d, up, opened) = e BY <1>3 DEF Routes
  <2>2. \A j \in 1..i : Newest(cs, j) \in up => j \in 1..(i - 1) BY <1>0, <1>2, <1>3
  <2> QED BY <1>0, <1>a, <2>1, <2>2 DEF ServedSoFar
<1>4. CASE d \in up
  <2>1. PICK s : s = SetupExplicit(e.mux, d, opened) OBVIOUS
  <2>2. PICK r : r = Routes(e, d, up, opened) OBVIOUS
  <2>3. r.mux = s.mux /\ r.ok = (e.ok \/ s.ok) BY <2>1, <2>2, <1>4 DEF Routes
  <2>4. PICK n : n = s.mux OBVIOUS
  <2>5. /\ e.ok \in BOOLEAN
        /\ IsMux(e.mux) /\ DefaultPlays(e.mux) /\ Grown(m, e.mux) /\ SameSinks(m, e.mux)
    BY DEF ServedSoFar
  <2>6. /\ s.ok \in BOOLEAN
        /\ IsMux(n) /\ DefaultPlays(n) /\ Grown(e.mux, n) /\ SameSinks(e.mux, n)
        /\ \A k \in DOMAIN n.outputs \ DOMAIN e.mux.outputs :
             n.outputs[k].sink = d /\ n.outputs[k].on = opened
        /\ \A k \in DOMAIN e.mux.outputs :
             IsDefault(e.mux, k) => IsDefault(n, k) \/ e.mux.outputs[k].sink = d
        /\ opened => PlaysOn(n, d)
        /\ opened => s.ok
        /\ PlaysOn(e.mux, d) => s.ok
        /\ AllOn(e.mux) /\ OnePerSink(e.mux) /\ opened => OnePerSink(n)
    <3>1. PICK q : q = e.mux OBVIOUS
    <3>2. IsMux(q) /\ DefaultPlays(q) /\ s = SetupExplicit(q, d, opened) BY <2>1, <2>5, <3>1
    <3>3. PutOn(s, q, d, opened) BY <1>1, <3>2, SetupExplicitServes
    <3> QED BY <2>4, <3>1, <3>3 DEF PutOn
  <2>8. Grown(m, n) BY <2>5, <2>6, GrownAgain
  <2>9. SameSinks(m, n) BY <2>5, <2>6 DEF SameSinks, Grown
  <2>10. \A k \in DOMAIN n.outputs \ DOMAIN m.outputs :
           n.outputs[k].sink \in ToSet(cs) \cap up /\ n.outputs[k].on = opened
    <3> SUFFICES ASSUME NEW k \in DOMAIN n.outputs \ DOMAIN m.outputs
                 PROVE  n.outputs[k].sink \in ToSet(cs) \cap up /\ n.outputs[k].on = opened
      OBVIOUS
    <3>1. CASE k \in DOMAIN e.mux.outputs
      <4>1. e.mux.outputs[k].sink \in ToSet(cs) \cap up /\ e.mux.outputs[k].on = opened
        BY <3>1 DEF ServedSoFar
      <4> QED BY <3>1, <4>1, <2>6 DEF SameSinks, Grown
    <3>2. CASE k \notin DOMAIN e.mux.outputs BY <3>2, <2>6, <1>1, <1>4
    <3> QED BY <3>1, <3>2
  <2>11. \A k \in DOMAIN m.outputs :
           IsDefault(m, k) => IsDefault(n, k) \/ m.outputs[k].sink \in ToSet(cs)
    <3> SUFFICES ASSUME NEW k \in DOMAIN m.outputs, IsDefault(m, k)
                 PROVE  IsDefault(n, k) \/ m.outputs[k].sink \in ToSet(cs)
      OBVIOUS
    <3>1. k \in DOMAIN e.mux.outputs /\ e.mux.outputs[k].sink = m.outputs[k].sink
      BY <2>5 DEF Grown, SameSinks
    <3>2. IsDefault(e.mux, k) \/ m.outputs[k].sink \in ToSet(cs) BY DEF ServedSoFar
    <3> QED BY <3>1, <3>2, <2>6, <1>1
  <2>12. \A c : PlaysOn(e.mux, c) => PlaysOn(n, c)
    BY <2>6 DEF PlaysOn, Grown, SameSinks
  <2>13. \A c : PlaysOn(m, c) => PlaysOn(e.mux, c)
    BY <2>5 DEF PlaysOn, Grown, SameSinks
  <2>14. \A j \in 1..i : Newest(cs, j) \in up =>
           /\ opened => r.ok /\ PlaysOn(n, Newest(cs, j))
           /\ PlaysOn(m, Newest(cs, j)) => r.ok
    <3> SUFFICES ASSUME NEW j \in 1..i, Newest(cs, j) \in up
                 PROVE  /\ opened => r.ok /\ PlaysOn(n, Newest(cs, j))
                        /\ PlaysOn(m, Newest(cs, j)) => r.ok
      OBVIOUS
    <3>1. CASE j = i BY <3>1, <1>0, <2>3, <2>6, <2>13
    <3>2. CASE j \in 1..(i - 1)
      <4>1. /\ opened => e.ok /\ PlaysOn(e.mux, Newest(cs, j))
            /\ PlaysOn(m, Newest(cs, j)) => e.ok
        BY <3>2 DEF ServedSoFar
      <4> QED BY <4>1, <2>3, <2>12
    <3> QED BY <3>1, <3>2, <1>2
  <2>15. ~\A j \in 1..i : Newest(cs, j) \notin up BY <1>0, <1>4, <1>a
  <2>16. AllOn(m) /\ OnePerSink(m) /\ opened => OnePerSink(n)
    <3> SUFFICES ASSUME AllOn(m), OnePerSink(m), opened PROVE OnePerSink(n) OBVIOUS
    <3>1. OnePerSink(e.mux) BY DEF ServedSoFar
    <3>2. AllOn(e.mux)
      <4> SUFFICES ASSUME NEW k \in DOMAIN e.mux.outputs PROVE e.mux.outputs[k].on BY DEF AllOn
      <4>1. CASE k \in DOMAIN m.outputs BY <4>1, <2>5 DEF AllOn, Grown
      <4>2. CASE k \notin DOMAIN m.outputs BY <4>2 DEF ServedSoFar
      <4> QED BY <4>1, <4>2
    <3> QED BY <3>1, <3>2, <2>6
  <2>17. r.ok \in BOOLEAN /\ r.mux = n BY <2>3, <2>4, <2>5, <2>6
  <2>18. ServedSoFar(r, i, m, cs, up, opened)
    BY <2>6, <2>8, <2>9, <2>10, <2>11, <2>14, <2>15, <2>16, <2>17 DEF ServedSoFar
  <2> QED BY <1>0, <2>2, <2>18
<1> QED BY <1>3, <1>4

(* What make_explicit_routes does.                                         *)
Served(e, m, cs, up, opened) ==
  /\ e.ok \in BOOLEAN
  /\ IsMux(e.mux) /\ DefaultPlays(e.mux) /\ Grown(m, e.mux) /\ SameSinks(m, e.mux)
  /\ \A k \in DOMAIN e.mux.outputs \ DOMAIN m.outputs :
       e.mux.outputs[k].sink \in ToSet(cs) \cap up /\ e.mux.outputs[k].on = opened
  /\ \A k \in DOMAIN m.outputs :
       IsDefault(m, k) => IsDefault(e.mux, k) \/ m.outputs[k].sink \in ToSet(cs)
  /\ \A d \in ToSet(cs) \cap up :
       /\ opened => e.ok /\ PlaysOn(e.mux, d)
       /\ PlaysOn(m, d) => e.ok
  /\ ToSet(cs) \cap up = {} => e.mux = m /\ e.ok = FALSE
  /\ AllOn(m) /\ OnePerSink(m) /\ opened => OnePerSink(e.mux)

LEMMA MakeExplicitServes ==
  ASSUME NEW m, IsMux(m), DefaultPlays(m), NEW cs \in Seq(Device), NEW up,
         NEW opened \in BOOLEAN
  PROVE  Served(MakeExplicit(m, cs, up, opened), m, cs, up, opened)
<1>0. Len(cs) \in Nat BY NewestIs
<1>1. PICK f : /\ f[0] = [mux |-> m, ok |-> FALSE]
               /\ \A i \in 1..Len(cs) : f[i] = Routes(f[i - 1], Newest(cs, i), up, opened)
               /\ MakeExplicit(m, cs, up, opened) = f[Len(cs)]
  BY <1>0, MakeExplicitSteps
<1> DEFINE G == {i \in 0..Len(cs) : ServedSoFar(f[i], i, m, cs, up, opened)}
<1>2. 0 \in G
  <2>1. f[0].mux = m /\ f[0].ok = FALSE BY <1>1
  <2>2. Grown(m, m) /\ SameSinks(m, m) BY DEF Grown, SameSinks
  <2>3. PICK e : e = f[0] OBVIOUS
  <2>4. ServedSoFar(e, 0, m, cs, up, opened)
    <3>1. ~\E j : j \in 1..0 OBVIOUS
    <3> QED BY <2>1, <2>2, <2>3, <3>1 DEF ServedSoFar
  <2> QED BY <2>3, <2>4, <1>0
<1>3. ASSUME NEW i \in 1..Len(cs), i - 1 \in G
      PROVE  i \in G
  <2>1. PICK e : e = f[i - 1] OBVIOUS
  <2>2. ServedSoFar(e, i - 1, m, cs, up, opened) BY <1>3, <2>1
  <2>3. ServedSoFar(Routes(e, Newest(cs, i), up, opened), i, m, cs, up, opened)
    BY <2>2, ServedStep
  <2> QED BY <1>1, <2>1, <2>3
<1> HIDE DEF G
<1>4. \A i \in 0..Len(cs) : i \in G BY <1>0, <1>2, <1>3, Climb
<1>5. PICK e : e = MakeExplicit(m, cs, up, opened) OBVIOUS
<1>6. ServedSoFar(e, Len(cs), m, cs, up, opened)
  <2>1. Len(cs) \in G BY <1>0, <1>4
  <2> QED BY <2>1, <1>1, <1>5 DEF G
<1>7. \A d \in ToSet(cs) : \E i \in 1..Len(cs) : Newest(cs, i) = d BY NewestIs
<1>8. \A i \in 1..Len(cs) : Newest(cs, i) \in ToSet(cs) BY NewestIs
<1>9. \A d \in ToSet(cs) \cap up :
        /\ opened => e.ok /\ PlaysOn(e.mux, d)
        /\ PlaysOn(m, d) => e.ok
  <2> SUFFICES ASSUME NEW d \in ToSet(cs) \cap up
               PROVE  /\ opened => e.ok /\ PlaysOn(e.mux, d)
                      /\ PlaysOn(m, d) => e.ok
    OBVIOUS
  <2>1. PICK i \in 1..Len(cs) : Newest(cs, i) = d BY <1>7
  <2> QED BY <2>1, <1>6 DEF ServedSoFar
<1>10. ToSet(cs) \cap up = {} => e.mux = m /\ e.ok = FALSE
  BY <1>6, <1>8 DEF ServedSoFar
<1>11. Served(e, m, cs, up, opened)
  BY <1>6, <1>9, <1>10 DEF ServedSoFar, Served
<1> QED BY <1>5, <1>11

(* The default stream is the only output with its id.                      *)
LEMMA OneDefault ==
  ASSUME NEW m, IsMux(m), NEW k \in DOMAIN m.outputs, NEW l \in DOMAIN m.outputs,
         IsDefault(m, k), IsDefault(m, l)
  PROVE  k = l
BY DEF IsMux, IsDefault

(* What setup_default_stream2dev_link makes of m.                          *)
Follows(n, m, t, opened, refuse) ==
  /\ IsMux(n) /\ DefaultPlays(n) /\ Grown(m, n)
  /\ \A k \in DOMAIN n.outputs \ DOMAIN m.outputs :
       /\ n.outputs[k].sink = t /\ n.outputs[k].on = opened
       /\ opened => n.outputs[k].id = n.def
  /\ \A k \in DOMAIN m.outputs :
       \/ n.outputs[k].sink = m.outputs[k].sink
       \/ IsDefault(m, k) /\ n.outputs[k].sink = t
  /\ \A k \in DOMAIN m.outputs : IsDefault(m, k) => IsDefault(n, k)
  /\ AllOn(m) /\ OnePerSink(m) => OnePerSink(n)
  /\ m.outputs # <<>> => DOMAIN n.outputs = DOMAIN m.outputs /\ n.def = m.def
  /\ m.outputs # <<>> /\ m.def = None => n = m
  /\ m.outputs = <<>> => Len(n.outputs) = 1 /\ n.outputs[1].sink = t
  /\ m.outputs = <<>> /\ opened => n.outputs[1].id = n.def
  /\ m.def # None /\ ~DuplicateRoute(m, t) /\ ~refuse =>
       \A k \in DOMAIN m.outputs : IsDefault(m, k) => n.outputs[k].sink = t

LEMMA SetupDefaultFollows ==
  ASSUME NEW m, IsMux(m), DefaultPlays(m), NEW t \in Device, NEW opened \in BOOLEAN,
         NEW refuse \in BOOLEAN
  PROVE  Follows(SetupDefault(m, t, opened, refuse), m, t, opened, refuse)
<1>0. /\ Len(m.outputs) \in Nat /\ DOMAIN m.outputs = 1..Len(m.outputs)
      /\ m.outputs \in Seq(Output)
      /\ \A k \in DOMAIN m.outputs : m.outputs[k] \in Output
  BY DEF IsMux
<1>1. CASE m.def = None /\ m.outputs = <<>>
  <2>1. PICK n : n = AddSlave(m, t, opened, "default") OBVIOUS
  <2>2. SetupDefault(m, t, opened, refuse) = n BY <1>1, <2>1 DEF SetupDefault
  <2>3. /\ IsMux(n) /\ DefaultPlays(n) /\ Grown(m, n) /\ Len(n.outputs) = Len(m.outputs) + 1
        /\ n.outputs[Len(n.outputs)].sink = t
        /\ n.outputs[Len(n.outputs)].on = opened
        /\ n.def = IF opened /\ m.def = None THEN n.outputs[Len(n.outputs)].id ELSE m.def
    <3>1. "default" \in {"default", "explicit"} OBVIOUS
    <3> QED BY <3>1, <2>1, AddSlaveGrows
  <2>4. DOMAIN m.outputs = {} /\ Len(m.outputs) = 0 BY <1>1
  <2>5. Len(n.outputs) = 1 /\ DOMAIN n.outputs = {1} BY <2>3, <2>4 DEF IsMux
  <2>6. OnePerSink(n) BY <2>5 DEF OnePerSink
  <2>7. Follows(n, m, t, opened, refuse)
    BY <1>1, <2>3, <2>4, <2>5, <2>6 DEF Follows
  <2> QED BY <2>2, <2>7
<1>2. CASE m.def # None /\ ~DuplicateRoute(m, t)
  <2>1. PICK n : n = ChangeDefault(m, t, refuse) OBVIOUS
  <2>2. SetupDefault(m, t, opened, refuse) = n BY <1>2, <2>1 DEF SetupDefault
  <2>3. /\ n = [outputs |-> n.outputs, def |-> m.def]
        /\ n.outputs = [k \in DOMAIN m.outputs |-> n.outputs[k]]
        /\ \A k \in DOMAIN m.outputs :
             n.outputs[k] = IF IsDefault(m, k) /\ ~refuse
                            THEN [m.outputs[k] EXCEPT !.sink = t] ELSE m.outputs[k]
    <3>1. m = [outputs |-> m.outputs, def |-> m.def] BY DEF IsMux
    <3> QED BY <2>1, <3>1 DEF ChangeDefault
  <2>4. DOMAIN n.outputs = DOMAIN m.outputs /\ n.def = m.def BY <2>3
  <2>5. \A k \in DOMAIN m.outputs :
          /\ n.outputs[k] \in Output
          /\ n.outputs[k].id = m.outputs[k].id /\ n.outputs[k].on = m.outputs[k].on
          /\ n.outputs[k].method = m.outputs[k].method
          /\ n.outputs[k].sink = IF IsDefault(m, k) /\ ~refuse THEN t ELSE m.outputs[k].sink
    <3> SUFFICES ASSUME NEW k \in DOMAIN m.outputs
                 PROVE  /\ n.outputs[k] \in Output
                        /\ n.outputs[k].id = m.outputs[k].id /\ n.outputs[k].on = m.outputs[k].on
                        /\ n.outputs[k].method = m.outputs[k].method
                        /\ n.outputs[k].sink = IF IsDefault(m, k) /\ ~refuse THEN t
                                               ELSE m.outputs[k].sink
      OBVIOUS
    <3>1. CASE IsDefault(m, k) /\ ~refuse
      <4>1. n.outputs[k] = [m.outputs[k] EXCEPT !.sink = t] BY <2>3, <3>1
      <4> QED BY <3>1, <4>1, <1>0 DEF Output
    <3>2. CASE ~(IsDefault(m, k) /\ ~refuse)
      <4>1. n.outputs[k] = m.outputs[k] BY <2>3, <3>2
      <4> QED BY <3>2, <4>1, <1>0
    <3> QED BY <3>1, <3>2
  <2>6. n.outputs \in Seq(Output) /\ Len(n.outputs) = Len(m.outputs)
    BY <1>0, <2>3, <2>4, <2>5, MapOutputs
  <2>7. IsMux(n) BY <2>3, <2>4, <2>5, <2>6 DEF IsMux
  <2>8. DefaultPlays(n) BY <2>4, <2>5 DEF DefaultPlays
  <2>9. Grown(m, n) BY <2>4, <2>5 DEF Grown
  <2>10. \A k \in DOMAIN m.outputs : IsDefault(m, k) => IsDefault(n, k)
    BY <2>4, <2>5 DEF IsDefault
  <2>11. AllOn(m) /\ OnePerSink(m) => OnePerSink(n)
    <3> SUFFICES ASSUME AllOn(m), OnePerSink(m), NEW k \in DOMAIN m.outputs,
                        NEW l \in DOMAIN m.outputs, n.outputs[k].sink = n.outputs[l].sink
                 PROVE  k = l
      BY <2>4 DEF OnePerSink
    <3>1. \A j \in DOMAIN m.outputs : m.outputs[j].sink = t => IsDefault(m, j)
      BY <1>2 DEF DuplicateRoute, OutputsOn, AllOn
    <3>2. CASE IsDefault(m, k) /\ IsDefault(m, l) BY <3>2, OneDefault
    <3>3. CASE ~IsDefault(m, k) \/ ~IsDefault(m, l)
      <4>1. m.outputs[k].sink = m.outputs[l].sink BY <3>1, <3>3, <2>5
      <4> QED BY <4>1 DEF OnePerSink
    <3> QED BY <3>2, <3>3
  <2>12. m.outputs # <<>>
    <3>1. \E k \in DOMAIN m.outputs : TRUE BY <1>2 DEF DefaultPlays
    <3> QED BY <3>1
  <2>13. Follows(n, m, t, opened, refuse)
    BY <1>2, <2>4, <2>5, <2>7, <2>8, <2>9, <2>10, <2>11, <2>12 DEF Follows
  <2> QED BY <2>2, <2>13
<1>3. CASE ~(m.def = None /\ m.outputs = <<>>) /\ ~(m.def # None /\ ~DuplicateRoute(m, t))
  <2>1. SetupDefault(m, t, opened, refuse) = m BY <1>3 DEF SetupDefault
  <2>2. Grown(m, m) BY DEF Grown
  <2>3. m.outputs # <<>>
    <3>1. CASE m.def # None
      <4>1. \E k \in DOMAIN m.outputs : TRUE BY <3>1 DEF DefaultPlays
      <4> QED BY <4>1
    <3> QED BY <3>1, <1>3
  <2>4. Follows(m, m, t, opened, refuse)
    BY <1>3, <2>2, <2>3 DEF Follows
  <2> QED BY <2>1, <2>4
<1> QED BY <1>1, <1>2, <1>3

-----------------------------------------------------------------------------
(* What a routing pass makes of m.                                         *)
Passed(n, m, cs, up, t, opened, refuse) ==
  /\ IsMux(n) /\ DefaultPlays(n) /\ Grown(m, n)
  /\ \A k \in DOMAIN n.outputs \ DOMAIN m.outputs :
       /\ n.outputs[k].on = opened /\ n.outputs[k].sink \in up
       /\ opened => n.outputs[k].sink \in ToSet(cs) \/ n.outputs[k].id = n.def
  /\ \A k \in DOMAIN m.outputs :
       \/ n.outputs[k].sink = m.outputs[k].sink
       \/ IsDefault(m, k) /\ n.outputs[k].sink = t /\ t \in up
  /\ \A k \in DOMAIN m.outputs :
       m.outputs[k].on /\ m.outputs[k].sink \in ToSet(cs) \cap up =>
         n.outputs[k].sink = m.outputs[k].sink
  /\ \A k \in DOMAIN m.outputs :
       IsDefault(m, k) => IsDefault(n, k) \/ n.outputs[k].sink \in ToSet(cs)
  /\ AllOn(m) /\ OnePerSink(m) /\ opened => OnePerSink(n)
  /\ opened => \A d \in ToSet(cs) \cap up : PlaysOn(n, d)
  /\ ToSet(cs) \cap up = {} =>
       IF t \in up THEN Follows(n, m, t, opened, refuse) ELSE n = m

LEMMA PassPasses ==
  ASSUME NEW m, IsMux(m), DefaultPlays(m), NEW cs \in Seq(Device),
         NEW up \in SUBSET Device, NEW t, NEW opened \in BOOLEAN, NEW refuse \in BOOLEAN
  PROVE  Passed(Pass(m, cs, up, t, opened, refuse), m, cs, up, t, opened, refuse)
<1>1. PICK e : e = MakeExplicit(m, cs, up, opened) OBVIOUS
<1>2. Served(e, m, cs, up, opened) BY <1>1, MakeExplicitServes
<1>3. PICK x : x = e.mux OBVIOUS
<1>4. /\ e.ok \in BOOLEAN
      /\ IsMux(x) /\ DefaultPlays(x) /\ Grown(m, x) /\ SameSinks(m, x)
      /\ \A k \in DOMAIN x.outputs \ DOMAIN m.outputs :
           x.outputs[k].sink \in ToSet(cs) \cap up /\ x.outputs[k].on = opened
      /\ \A k \in DOMAIN m.outputs :
           IsDefault(m, k) => IsDefault(x, k) \/ m.outputs[k].sink \in ToSet(cs)
      /\ \A d \in ToSet(cs) \cap up :
           /\ opened => e.ok /\ PlaysOn(x, d)
           /\ PlaysOn(m, d) => e.ok
      /\ ToSet(cs) \cap up = {} => x = m /\ e.ok = FALSE
      /\ AllOn(m) /\ OnePerSink(m) /\ opened => OnePerSink(x)
  BY <1>2, <1>3 DEF Served
<1>5. \A k \in DOMAIN m.outputs : x.outputs[k].sink = m.outputs[k].sink
  BY <1>4 DEF SameSinks
<1>6. CASE e.ok \/ t \notin up
  <2>1. Pass(m, cs, up, t, opened, refuse) = x BY <1>1, <1>3, <1>6 DEF Pass
  <2>2. ToSet(cs) \cap up = {} => t \notin up /\ x = m BY <1>4, <1>6
  <2>3. Passed(x, m, cs, up, t, opened, refuse)
    BY <1>4, <1>5, <2>2 DEF Passed
  <2> QED BY <2>1, <2>3
<1>7. CASE ~e.ok /\ t \in up
  <2>1. PICK n : n = SetupDefault(x, t, opened, refuse) OBVIOUS
  <2>2. Pass(m, cs, up, t, opened, refuse) = n BY <1>1, <1>3, <1>7, <2>1 DEF Pass
  <2>3. Follows(n, x, t, opened, refuse)
    <3>1. t \in Device BY <1>7
    <3> QED BY <3>1, <1>4, <2>1, SetupDefaultFollows
  <2>4. IsMux(n) /\ DefaultPlays(n) /\ Grown(x, n) BY <2>3 DEF Follows
  <2>5. Grown(m, n) BY <1>4, <2>4, GrownAgain
  <2>6. \A k \in DOMAIN n.outputs \ DOMAIN m.outputs :
          /\ n.outputs[k].on = opened /\ n.outputs[k].sink \in up
          /\ opened => n.outputs[k].sink \in ToSet(cs) \/ n.outputs[k].id = n.def
    <3> SUFFICES ASSUME NEW k \in DOMAIN n.outputs \ DOMAIN m.outputs
                 PROVE  /\ n.outputs[k].on = opened /\ n.outputs[k].sink \in up
                        /\ opened => n.outputs[k].sink \in ToSet(cs) \/ n.outputs[k].id = n.def
      OBVIOUS
    <3>1. CASE k \in DOMAIN x.outputs
      <4>1. x.outputs[k].sink \in ToSet(cs) \cap up /\ x.outputs[k].on = opened BY <3>1, <1>4
      <4>2. n.outputs[k].on = opened BY <3>1, <4>1, <2>4 DEF Grown
      <4>3. \/ n.outputs[k].sink = x.outputs[k].sink
            \/ IsDefault(x, k) /\ n.outputs[k].sink = t /\ IsDefault(n, k)
        BY <3>1, <2>3 DEF Follows
      <4> QED BY <4>1, <4>2, <4>3, <1>7 DEF IsDefault
    <3>2. CASE k \notin DOMAIN x.outputs
      BY <3>2, <2>3, <1>7 DEF Follows
    <3> QED BY <3>1, <3>2
  <2>7. \A k \in DOMAIN m.outputs :
          \/ n.outputs[k].sink = m.outputs[k].sink
          \/ IsDefault(m, k) /\ n.outputs[k].sink = t /\ t \in up
    <3> SUFFICES ASSUME NEW k \in DOMAIN m.outputs
                 PROVE  \/ n.outputs[k].sink = m.outputs[k].sink
                        \/ IsDefault(m, k) /\ n.outputs[k].sink = t /\ t \in up
      OBVIOUS
    <3>1. k \in DOMAIN x.outputs BY <1>4 DEF Grown
    <3>2. \/ n.outputs[k].sink = x.outputs[k].sink
          \/ IsDefault(x, k) /\ n.outputs[k].sink = t
      BY <3>1, <2>3 DEF Follows
    <3>3. IsDefault(x, k) => IsDefault(m, k)
      <4> SUFFICES ASSUME IsDefault(x, k) PROVE IsDefault(m, k) OBVIOUS
      <4>1. x.outputs[k].on /\ x.outputs[k].id = x.def BY DEF IsDefault
      <4>2. x.outputs[k].id \in Nat
        <5>1. x.outputs[k] \in Output BY <3>1, <1>4 DEF IsMux
        <5> QED BY <5>1 DEF Output
      <4>3. x.def # None BY <4>1, <4>2, MultiplexConfig
      <4>4. \A l \in DOMAIN x.outputs : x.outputs[l].id = x.def => l = k
        BY <3>1, <4>1, <1>4 DEF IsMux
      <4>5. x.def = m.def BY <4>3, <4>4, <1>4 DEF Grown
      <4> QED BY <4>1, <4>5, <1>4 DEF IsDefault, Grown
    <3> QED BY <3>2, <3>3, <1>5, <1>7
  <2>8. \A k \in DOMAIN m.outputs :
          m.outputs[k].on /\ m.outputs[k].sink \in ToSet(cs) \cap up => FALSE
    BY <1>4, <1>7 DEF PlaysOn
  <2>9. \A k \in DOMAIN m.outputs :
          IsDefault(m, k) => IsDefault(n, k) \/ n.outputs[k].sink \in ToSet(cs)
    <3> SUFFICES ASSUME NEW k \in DOMAIN m.outputs, IsDefault(m, k)
                 PROVE  IsDefault(n, k) \/ n.outputs[k].sink \in ToSet(cs)
      OBVIOUS
    <3>1. k \in DOMAIN x.outputs BY <1>4 DEF Grown
    <3>2. CASE IsDefault(x, k) BY <3>1, <3>2, <2>3 DEF Follows
    <3>3. CASE ~IsDefault(x, k)
      <4>1. x.outputs[k].sink \in ToSet(cs) BY <3>3, <1>4, <1>5
      <4>2. n.outputs[k].sink = x.outputs[k].sink BY <3>1, <3>3, <2>3 DEF Follows
      <4> QED BY <4>1, <4>2
    <3> QED BY <3>2, <3>3
  <2>10. AllOn(m) /\ OnePerSink(m) /\ opened => OnePerSink(n)
    <3> SUFFICES ASSUME AllOn(m), OnePerSink(m), opened PROVE OnePerSink(n) OBVIOUS
    <3>1. OnePerSink(x) BY <1>4
    <3>2. AllOn(x)
      <4> SUFFICES ASSUME NEW k \in DOMAIN x.outputs PROVE x.outputs[k].on BY DEF AllOn
      <4>1. CASE k \in DOMAIN m.outputs BY <4>1, <1>4 DEF AllOn, Grown
      <4>2. CASE k \notin DOMAIN m.outputs BY <4>2, <1>4
      <4> QED BY <4>1, <4>2
    <3> QED BY <3>1, <3>2, <2>3 DEF Follows
  <2>11. opened => ToSet(cs) \cap up = {} BY <1>4, <1>7
  <2>12. ToSet(cs) \cap up = {} => Follows(n, m, t, opened, refuse)
    BY <1>4, <2>3
  <2>13. Passed(n, m, cs, up, t, opened, refuse)
    BY <1>7, <2>4, <2>5, <2>6, <2>7, <2>8, <2>9, <2>10, <2>11, <2>12 DEF Passed
  <2> QED BY <2>2, <2>13
<1> QED BY <1>4, <1>6, <1>7

(* RemoveAt closes the gap.                                                *)
Skip(j, k) == IF j < k THEN j ELSE j + 1

Closes(r, s, k) ==
  /\ Len(r) = Len(s) - 1
  /\ \A j \in 1..Len(r) : r[j] = s[Skip(j, k)] /\ Skip(j, k) \in DOMAIN s /\ Skip(j, k) # k
  /\ \A j \in DOMAIN s : j # k => \E l \in 1..Len(r) : Skip(l, k) = j
  /\ \A i, j \in 1..Len(r) : Skip(i, k) = Skip(j, k) => i = j

LEMMA RemoveAtCloses ==
  ASSUME NEW S, NEW s \in Seq(S), NEW k \in DOMAIN s
  PROVE  RemoveAt(s, k) \in Seq(S) /\ Closes(RemoveAt(s, k), s, k)
<1> DEFINE r == RemoveAt(s, k)
<1>1. Len(s) \in Nat /\ DOMAIN s = 1..Len(s) /\ k \in 1..Len(s) OBVIOUS
<1>2. r = SubSeq(s, 1, k - 1) \o SubSeq(s, k + 1, Len(s)) BY DEF RemoveAt
<1>3. PICK a : a = SubSeq(s, 1, k - 1) OBVIOUS
<1>4. PICK b : b = SubSeq(s, k + 1, Len(s)) OBVIOUS
<1>5. a \in Seq(S) /\ Len(a) = k - 1 /\ \A j \in 1..(k - 1) : a[j] = s[j] BY <1>1, <1>3
<1>6. b \in Seq(S) /\ Len(b) = Len(s) - k /\ \A j \in 1..(Len(s) - k) : b[j] = s[k + j]
  BY <1>1, <1>4
<1>7. r = a \o b BY <1>2, <1>3, <1>4
<1> HIDE DEF r
<1>8. /\ r \in Seq(S) /\ Len(r) = Len(s) - 1
      /\ \A j \in 1..(Len(s) - 1) : r[j] = IF j <= k - 1 THEN a[j] ELSE b[j - (k - 1)]
  <2>1. /\ r \in Seq(S) /\ Len(r) = (k - 1) + (Len(s) - k)
        /\ \A j \in 1..((k - 1) + (Len(s) - k)) :
             r[j] = IF j <= k - 1 THEN a[j] ELSE b[j - (k - 1)]
    BY <1>5, <1>6, <1>7, ConcatProperties
  <2>2. (k - 1) + (Len(s) - k) = Len(s) - 1 BY <1>1
  <2> QED BY <2>1, <2>2
<1>9. \A j \in 1..Len(r) : r[j] = s[Skip(j, k)] /\ Skip(j, k) \in DOMAIN s /\ Skip(j, k) # k
  <2> SUFFICES ASSUME NEW j \in 1..Len(r)
               PROVE  r[j] = s[Skip(j, k)] /\ Skip(j, k) \in DOMAIN s /\ Skip(j, k) # k
    OBVIOUS
  <2>0. j \in 1..(Len(s) - 1) BY <1>8
  <2>1. CASE j < k
    <3>1. j \in 1..(k - 1) BY <2>0, <2>1, <1>1
    <3> QED BY <3>1, <2>0, <1>1, <1>5, <1>8 DEF Skip
  <2>2. CASE ~(j < k)
    <3>1. j - (k - 1) \in 1..(Len(s) - k) /\ k + (j - (k - 1)) = j + 1 BY <2>0, <2>2, <1>1
    <3>2. r[j] = b[j - (k - 1)] BY <2>0, <2>2, <1>1, <1>8
    <3>3. b[j - (k - 1)] = s[j + 1] BY <3>1, <1>6
    <3> QED BY <3>2, <3>3, <2>0, <2>2, <1>1 DEF Skip
  <2> QED BY <2>1, <2>2
<1>10. ASSUME NEW j \in DOMAIN s, j # k
       PROVE  \E l \in 1..Len(r) : Skip(l, k) = j
  <2>1. CASE j < k
    <3>1. j \in 1..Len(r) /\ Skip(j, k) = j BY <2>1, <1>1, <1>8 DEF Skip
    <3> QED BY <3>1
  <2>2. CASE j > k
    <3>1. j - 1 \in 1..Len(r) /\ Skip(j - 1, k) = j BY <2>2, <1>1, <1>8 DEF Skip
    <3> QED BY <3>1
  <2> QED BY <2>1, <2>2, <1>10, <1>1
<1>11. \A i, j \in 1..Len(r) : Skip(i, k) = Skip(j, k) => i = j
  BY <1>1, <1>8 DEF Skip
<1>12. r \in Seq(S) /\ Closes(r, s, k) BY <1>8, <1>9, <1>10, <1>11 DEF Closes
<1> QED BY <1>12 DEF r

(* The stream of output k is unlinked.                                     *)
Unlinked(m, k) == [m EXCEPT !.def = IF IsDefault(m, k) THEN None ELSE @]

LEMMA UnlinkedIsMux ==
  ASSUME NEW m, IsMux(m), DefaultPlays(m), NEW k \in DOMAIN m.outputs
  PROVE  LET u == Unlinked(m, k) IN
         /\ IsMux(u) /\ DefaultPlays(u) /\ u.outputs = m.outputs
         /\ u.def \in {m.def, None} /\ u.def # m.outputs[k].id
         /\ \A j \in DOMAIN m.outputs : j # k /\ IsDefault(m, j) => IsDefault(u, j)
<1>1. PICK u : u = Unlinked(m, k) OBVIOUS
<1>2. /\ u = [outputs |-> m.outputs, def |-> u.def]
      /\ u.def = IF IsDefault(m, k) THEN None ELSE m.def
  <2>1. m = [outputs |-> m.outputs, def |-> m.def] BY DEF IsMux
  <2> QED BY <1>1, <2>1 DEF Unlinked
<1>3. u.outputs = m.outputs BY <1>2
<1>4. IsMux(u) BY <1>2, <1>3 DEF IsMux
<1>5. u.def # m.outputs[k].id
  <2>1. m.outputs[k].id \in Nat
    <3>1. m.outputs[k] \in Output BY DEF IsMux
    <3> QED BY <3>1 DEF Output
  <2>2. CASE IsDefault(m, k) BY <2>1, <2>2, <1>2, MultiplexConfig
  <2>3. CASE ~IsDefault(m, k)
    <3> SUFFICES ASSUME m.def = m.outputs[k].id PROVE FALSE BY <2>3, <1>2
    <3>1. m.def # None BY <2>1, MultiplexConfig
    <3>2. PICK j \in DOMAIN m.outputs : m.outputs[j].on /\ m.outputs[j].id = m.def
      BY <3>1 DEF DefaultPlays
    <3>3. j = k BY <3>2 DEF IsMux
    <3> QED BY <2>3, <3>2, <3>3 DEF IsDefault
  <2> QED BY <2>2, <2>3
<1>6. DefaultPlays(u) BY <1>2, <1>3 DEF DefaultPlays
<1>7. \A j \in DOMAIN m.outputs : j # k /\ IsDefault(m, j) => IsDefault(u, j)
  <2> SUFFICES ASSUME NEW j \in DOMAIN m.outputs, j # k, IsDefault(m, j) PROVE IsDefault(u, j)
    OBVIOUS
  <2>1. ~IsDefault(m, k) BY OneDefault
  <2> QED BY <2>1, <1>2, <1>3 DEF IsDefault
<1> QED BY <1>1, <1>2, <1>3, <1>4, <1>5, <1>6, <1>7

(* Output k of n has lost the stream it had in m; nothing else changed.    *)
Silenced(n, m, k) ==
  /\ IsMux(n) /\ n.def = m.def /\ DOMAIN n.outputs = DOMAIN m.outputs
  /\ \A j \in DOMAIN m.outputs : j # k => n.outputs[j] = m.outputs[j]
  /\ n.outputs[k].id = m.outputs[k].id /\ n.outputs[k].sink = m.outputs[k].sink
  /\ ~n.outputs[k].on

LEMMA SilencedIsMux ==
  ASSUME NEW m, IsMux(m), NEW k \in DOMAIN m.outputs
  PROVE  Silenced([m EXCEPT !.outputs[k].on = FALSE, !.outputs[k].method = None], m, k)
<1>1. PICK n : n = [m EXCEPT !.outputs[k].on = FALSE, !.outputs[k].method = None] OBVIOUS
<1>2. /\ n = [outputs |-> n.outputs, def |-> m.def]
      /\ n.outputs = [j \in DOMAIN m.outputs |-> n.outputs[j]]
      /\ \A j \in DOMAIN m.outputs :
           n.outputs[j] = IF j = k
             THEN [[m.outputs[j] EXCEPT !.on = FALSE] EXCEPT !.method = None]
             ELSE m.outputs[j]
  <2>1. m = [outputs |-> m.outputs, def |-> m.def] BY DEF IsMux
  <2>2. m.outputs = [j \in DOMAIN m.outputs |-> m.outputs[j]] BY DEF IsMux
  <2> QED BY <1>1, <2>1, <2>2
<1>3. DOMAIN n.outputs = DOMAIN m.outputs /\ n.def = m.def
  <2>1. PICK o : o = n.outputs OBVIOUS
  <2>2. DOMAIN o = DOMAIN m.outputs BY <1>2, <2>1
  <2>3. n = [outputs |-> o, def |-> m.def] BY <1>2, <2>1
  <2> QED BY <2>1, <2>2, <2>3
<1>4. m.outputs \in Seq(Output) /\ \A j \in DOMAIN m.outputs : m.outputs[j] \in Output
  BY DEF IsMux
<1>5. /\ n.outputs[k] \in Output /\ n.outputs[k].id = m.outputs[k].id
      /\ n.outputs[k].sink = m.outputs[k].sink
      /\ n.outputs[k].on = FALSE /\ n.outputs[k].method = None
  <2>1. n.outputs[k] = [[m.outputs[k] EXCEPT !.on = FALSE] EXCEPT !.method = None] BY <1>2
  <2> QED BY <2>1, <1>4 DEF Output
<1>6. \A j \in DOMAIN m.outputs : j # k => n.outputs[j] = m.outputs[j] BY <1>2
<1>7. \A j \in DOMAIN m.outputs : n.outputs[j] \in Output /\ n.outputs[j].id = m.outputs[j].id
  BY <1>4, <1>5, <1>6
<1>8. n.outputs \in Seq(Output) BY <1>2, <1>3, <1>4, <1>7, MapOutputs
<1>9. \A j \in DOMAIN n.outputs : n.outputs[j].on <=> n.outputs[j].method # None
  BY <1>3, <1>5, <1>6 DEF IsMux
<1>a. n = [outputs |-> n.outputs, def |-> n.def] BY <1>2, <1>3
<1>b. \A j, l \in DOMAIN n.outputs : n.outputs[j].id = n.outputs[l].id => j = l
  BY <1>3, <1>7 DEF IsMux
<1>10. IsMux(n) BY <1>a, <1>b, <1>3, <1>7, <1>8, <1>9 DEF IsMux
<1> QED BY <1>1, <1>3, <1>5, <1>6, <1>10 DEF Silenced

(* output_disable: a pass in the middle, with the stream still there but   *)
(* not the default one.                                                    *)
Disabled(n, m, k, cs, up, t, opened, refuse) ==
  /\ IsMux(n) /\ DefaultPlays(n)
  /\ k \in DOMAIN n.outputs /\ n.outputs[k].id = m.outputs[k].id /\ ~n.outputs[k].on
  /\ n.def # n.outputs[k].id
  /\ IF m.outputs[k].on
     THEN \E p : /\ Passed(p, Unlinked(m, k), cs, up, t, opened, refuse)
                 /\ Silenced(n, p, k)
     ELSE n = m

Fitting(p) ==
  /\ attached \in SUBSET Device /\ open \in BOOLEAN /\ p.refuse \in BOOLEAN

LEMMA DisableDisables ==
  ASSUME NEW m, IsMux(m), DefaultPlays(m), NEW k \in DOMAIN m.outputs,
         NEW cs \in Seq(Device), NEW p, Fitting(p)
  PROVE  Disabled(Disable(m, k, cs, p), m, k, cs, attached, p.target, open, p.refuse)
<1>0. attached \in SUBSET Device /\ open \in BOOLEAN /\ p.refuse \in BOOLEAN BY DEF Fitting
<1>a. m.outputs[k].on \in BOOLEAN /\ m.outputs[k].id \in Nat
  <2>1. m.outputs[k] \in Output BY DEF IsMux
  <2> QED BY <2>1 DEF Output
<1>1. CASE ~m.outputs[k].on
  <2>1. Disable(m, k, cs, p) = m BY <1>1 DEF Disable
  <2>2. m.def # m.outputs[k].id
    <3> SUFFICES ASSUME m.def = m.outputs[k].id PROVE FALSE OBVIOUS
    <3>1. m.def # None BY <1>a, MultiplexConfig
    <3>2. PICK j \in DOMAIN m.outputs : m.outputs[j].on /\ m.outputs[j].id = m.def
      BY <3>1 DEF DefaultPlays
    <3>3. j = k BY <3>2 DEF IsMux
    <3> QED BY <1>1, <3>2, <3>3
  <2>3. Disabled(m, m, k, cs, attached, p.target, open, p.refuse)
    BY <1>1, <2>2 DEF Disabled
  <2> QED BY <2>1, <2>3
<1>2. CASE m.outputs[k].on
  <2>1. PICK u : u = Unlinked(m, k) OBVIOUS
  <2>2. PICK q : q = Pass(u, cs, attached, p.target, open, p.refuse) OBVIOUS
  <2>3. PICK n : n = [q EXCEPT !.outputs[k].on = FALSE, !.outputs[k].method = None] OBVIOUS
  <2>4. Disable(m, k, cs, p) = n
    BY <1>2, <2>1, <2>2, <2>3 DEF Disable, Routed, Unlinked
  <2>5. /\ IsMux(u) /\ DefaultPlays(u) /\ u.outputs = m.outputs
        /\ u.def # m.outputs[k].id
    BY <2>1, UnlinkedIsMux
  <2>6. Passed(q, u, cs, attached, p.target, open, p.refuse)
    BY <1>0, <2>2, <2>5, PassPasses
  <2>7. IsMux(q) /\ DefaultPlays(q) /\ Grown(u, q) BY <2>6 DEF Passed
  <2>8. k \in DOMAIN q.outputs /\ q.outputs[k].id = m.outputs[k].id
    BY <2>5, <2>7 DEF Grown
  <2>9. Silenced(n, q, k) BY <2>3, <2>7, <2>8, SilencedIsMux
  <2>10. q.def # q.outputs[k].id
    <3>1. CASE q.def \in {u.def, None} BY <3>1, <2>5, <2>8, <1>a, MultiplexConfig
    <3>2. CASE \E j \in DOMAIN q.outputs \ DOMAIN u.outputs : q.outputs[j].id = q.def
      <4>1. PICK j \in DOMAIN q.outputs \ DOMAIN u.outputs : q.outputs[j].id = q.def BY <3>2
      <4>2. j # k BY <4>1, <2>5
      <4> QED BY <4>1, <4>2, <2>7, <2>8 DEF IsMux
    <3> QED BY <3>1, <3>2, <2>7 DEF Grown
  <2>11. DefaultPlays(n)
    <3>1. CASE q.def = None BY <3>1, <2>9 DEF DefaultPlays, Silenced
    <3>2. CASE q.def # None
      <4>1. PICK j \in DOMAIN q.outputs : q.outputs[j].on /\ q.outputs[j].id = q.def
        BY <3>2, <2>7 DEF DefaultPlays
      <4>2. j # k BY <4>1, <2>10
      <4>3. j \in DOMAIN n.outputs /\ n.outputs[j] = q.outputs[j] /\ n.def = q.def
        BY <4>1, <4>2, <2>9 DEF Silenced
      <4> QED BY <4>1, <4>3 DEF DefaultPlays
    <3> QED BY <3>1, <3>2
  <2>12. /\ IsMux(n) /\ k \in DOMAIN n.outputs /\ n.outputs[k].id = m.outputs[k].id
         /\ ~n.outputs[k].on /\ n.def # n.outputs[k].id
    BY <2>8, <2>9, <2>10 DEF Silenced
  <2>13. \E x : /\ Passed(x, Unlinked(m, k), cs, attached, p.target, open, p.refuse)
                /\ Silenced(n, x, k)
    BY <2>1, <2>6, <2>9
  <2>14. Disabled(n, m, k, cs, attached, p.target, open, p.refuse)
    BY <1>2, <2>11, <2>12, <2>13 DEF Disabled
  <2> QED BY <2>4, <2>14
<1> QED BY <1>1, <1>2

(* Output k of n has got a stream; nothing else changed.                   *)
Voiced(n, m, k) ==
  /\ IsMux(n) /\ n.def = m.def /\ DOMAIN n.outputs = DOMAIN m.outputs
  /\ \A j \in DOMAIN m.outputs : j # k => n.outputs[j] = m.outputs[j]
  /\ n.outputs[k].id = m.outputs[k].id /\ n.outputs[k].sink = m.outputs[k].sink
  /\ n.outputs[k].on

LEMMA VoicedIsMux ==
  ASSUME NEW m, IsMux(m), NEW k \in DOMAIN m.outputs
  PROVE  Voiced([m EXCEPT !.outputs[k].on = TRUE, !.outputs[k].method = "default"], m, k)
<1>1. PICK n : n = [m EXCEPT !.outputs[k].on = TRUE, !.outputs[k].method = "default"] OBVIOUS
<1>2. /\ n = [outputs |-> n.outputs, def |-> m.def]
      /\ n.outputs = [j \in DOMAIN m.outputs |-> n.outputs[j]]
      /\ \A j \in DOMAIN m.outputs :
           n.outputs[j] = IF j = k
             THEN [[m.outputs[j] EXCEPT !.on = TRUE] EXCEPT !.method = "default"]
             ELSE m.outputs[j]
  <2>1. m = [outputs |-> m.outputs, def |-> m.def] BY DEF IsMux
  <2>2. m.outputs = [j \in DOMAIN m.outputs |-> m.outputs[j]] BY DEF IsMux
  <2> QED BY <1>1, <2>1, <2>2
<1>3. DOMAIN n.outputs = DOMAIN m.outputs /\ n.def = m.def
  <2>1. PICK o : o = n.outputs OBVIOUS
  <2>2. DOMAIN o = DOMAIN m.outputs BY <1>2, <2>1
  <2>3. n = [outputs |-> o, def |-> m.def] BY <1>2, <2>1
  <2> QED BY <2>1, <2>2, <2>3
<1>4. m.outputs \in Seq(Output) /\ \A j \in DOMAIN m.outputs : m.outputs[j] \in Output
  BY DEF IsMux
<1>5. /\ n.outputs[k] \in Output /\ n.outputs[k].id = m.outputs[k].id
      /\ n.outputs[k].sink = m.outputs[k].sink
      /\ n.outputs[k].on = TRUE /\ n.outputs[k].method = "default"
  <2>1. n.outputs[k] = [[m.outputs[k] EXCEPT !.on = TRUE] EXCEPT !.method = "default"] BY <1>2
  <2> QED BY <2>1, <1>4 DEF Output
<1>6. \A j \in DOMAIN m.outputs : j # k => n.outputs[j] = m.outputs[j] BY <1>2
<1>7. \A j \in DOMAIN m.outputs : n.outputs[j] \in Output /\ n.outputs[j].id = m.outputs[j].id
  BY <1>4, <1>5, <1>6
<1>8. n.outputs \in Seq(Output) BY <1>2, <1>3, <1>4, <1>7, MapOutputs
<1>9. \A j \in DOMAIN n.outputs : n.outputs[j].on <=> n.outputs[j].method # None
  BY <1>3, <1>5, <1>6, MultiplexConfig DEF IsMux
<1>a. n = [outputs |-> n.outputs, def |-> n.def] BY <1>2, <1>3
<1>b. \A j, l \in DOMAIN n.outputs : n.outputs[j].id = n.outputs[l].id => j = l
  BY <1>3, <1>7 DEF IsMux
<1>10. IsMux(n) BY <1>a, <1>b, <1>3, <1>7, <1>8, <1>9 DEF IsMux
<1> QED BY <1>1, <1>3, <1>5, <1>6, <1>10 DEF Voiced

LEMMA OneOutput ==
  ASSUME NEW m, IsMux(m), DOMAIN m.outputs = {1}
  PROVE  Len(m.outputs) = 1
<1>a. m.outputs \in Seq(Output) BY DEF IsMux
<1>0. Len(m.outputs) \in Nat /\ DOMAIN m.outputs = 1..Len(m.outputs) BY <1>a, LenProperties
<1>1. 1..Len(m.outputs) = {1} BY <1>0
<1>2. 1 \in 1..Len(m.outputs) BY <1>1
<1>3. Len(m.outputs) \in 1..Len(m.outputs) BY <1>0, <1>2
<1> QED BY <1>1, <1>3

(* output_enable.  The only output of a stream without explicit routes     *)
(* becomes its default stream, and follows the default route.              *)
Woken(n, m, k, cs, up, t, refuse) ==
  /\ IsMux(n) /\ DefaultPlays(n)
  /\ m.outputs[k].on => n = m
  /\ ~m.outputs[k].on /\ m.def = None /\ cs = <<>> /\ Len(m.outputs) = 1 =>
       /\ Len(n.outputs) = 1 /\ n.outputs[1].on /\ n.outputs[1].id = n.def
       /\ t \in up /\ ~refuse => n.outputs[1].sink = t
       /\ n.outputs[1].sink \in up \cup {m.outputs[1].sink}

LEMMA EnableEnables ==
  ASSUME NEW m, IsMux(m), DefaultPlays(m), NEW k \in DOMAIN m.outputs,
         NEW cs \in Seq(Device), NEW p, Fitting(p)
  PROVE  Woken(Enable(m, k, cs, p), m, k, cs, attached, p.target, p.refuse)
<1>0. attached \in SUBSET Device /\ open \in BOOLEAN /\ p.refuse \in BOOLEAN BY DEF Fitting
<1>1. CASE m.outputs[k].on
  <2>1. Enable(m, k, cs, p) = m BY <1>1 DEF Enable
  <2> QED BY <1>1, <2>1 DEF Woken
<1>2. CASE ~m.outputs[k].on
  <2>1. PICK v : v = [m EXCEPT !.outputs[k].on = TRUE, !.outputs[k].method = "default"] OBVIOUS
  <2>2. Voiced(v, m, k) BY <2>1, VoicedIsMux
  <2>3. CASE m.def # None
    <3>1. Enable(m, k, cs, p) = v BY <1>2, <2>1, <2>3 DEF Enable
    <3>2. PICK j \in DOMAIN m.outputs : m.outputs[j].on /\ m.outputs[j].id = m.def
      BY <2>3 DEF DefaultPlays
    <3>3. j # k BY <1>2, <3>2
    <3>4. DefaultPlays(v) BY <2>2, <3>2, <3>3 DEF DefaultPlays, Voiced
    <3> QED BY <1>2, <2>2, <2>3, <3>1, <3>4 DEF Woken, Voiced
  <2>4. CASE m.def = None
    <3>1. PICK w : w = [v EXCEPT !.def = m.outputs[k].id] OBVIOUS
    <3>2. PICK n : n = Pass(w, cs, attached, p.target, open, p.refuse) OBVIOUS
    <3>3. Enable(m, k, cs, p) = n
      BY <1>2, <2>1, <2>4, <3>1, <3>2 DEF Enable, Routed
    <3>4. w = [outputs |-> v.outputs, def |-> m.outputs[k].id]
      <4>1. v = [outputs |-> v.outputs, def |-> v.def] BY <2>2 DEF Voiced, IsMux
      <4> QED BY <3>1, <4>1
    <3>5. w.outputs = v.outputs /\ w.def = m.outputs[k].id BY <3>4
    <3>6. IsMux(w) BY <2>2, <3>4, <3>5 DEF Voiced, IsMux
    <3>7. IsDefault(w, k) BY <2>2, <3>5 DEF Voiced, IsDefault
    <3>8. DefaultPlays(w) BY <2>2, <3>5 DEF DefaultPlays, Voiced
    <3>9. Passed(n, w, cs, attached, p.target, open, p.refuse)
      BY <1>0, <3>2, <3>6, <3>8, PassPasses
    <3>10. ASSUME cs = <<>>, Len(m.outputs) = 1
           PROVE  /\ Len(n.outputs) = 1 /\ n.outputs[1].on /\ n.outputs[1].id = n.def
                  /\ p.target \in attached /\ ~p.refuse => n.outputs[1].sink = p.target
                  /\ n.outputs[1].sink \in attached \cup {m.outputs[1].sink}
      <4>1. ToSet(cs) = {} BY <3>10 DEF ToSet
      <4>2. DOMAIN m.outputs = {1} /\ k = 1 BY <3>10 DEF IsMux
      <4>3. DOMAIN w.outputs = {1} /\ w.outputs[1].sink = m.outputs[1].sink
        BY <2>2, <3>5, <4>2 DEF Voiced
      <4>4. w.outputs # <<>> BY <4>3
      <4>5. ~DuplicateRoute(w, p.target)
        BY <3>7, <4>2, <4>3 DEF DuplicateRoute, OutputsOn
      <4>6. w.def # None
        <5>1. m.outputs[k] \in Output BY DEF IsMux
        <5> QED BY <5>1, <3>5, MultiplexConfig DEF Output
      <4>7. CASE p.target \in attached
        <5>1. Follows(n, w, p.target, open, p.refuse) BY <3>9, <4>1, <4>7 DEF Passed
        <5>2. IsMux(n) /\ DOMAIN n.outputs = {1} /\ IsDefault(n, 1)
          BY <5>1, <3>7, <4>2, <4>3, <4>4 DEF Follows
        <5>3. Len(n.outputs) = 1 BY <5>2, OneOutput
        <5>4. ~p.refuse => n.outputs[1].sink = p.target
          BY <5>1, <3>7, <4>2, <4>3, <4>5, <4>6 DEF Follows
        <5>5. n.outputs[1].sink \in {m.outputs[1].sink, p.target}
          BY <5>1, <4>3 DEF Follows
        <5> QED BY <5>2, <5>3, <5>4, <5>5, <4>7 DEF IsDefault
      <4>8. CASE p.target \notin attached
        <5>1. n = w BY <3>9, <4>1, <4>8 DEF Passed
        <5>2. Len(n.outputs) = 1 BY <5>1, <4>3, <3>6, OneOutput
        <5> QED BY <5>1, <5>2, <3>7, <4>2, <4>3, <4>8 DEF IsDefault
      <4> QED BY <4>7, <4>8
    <3>11. IsMux(n) /\ DefaultPlays(n) BY <3>9 DEF Passed
    <3> QED BY <1>2, <3>3, <3>10, <3>11 DEF Woken
  <2> QED BY <2>3, <2>4
<1> QED BY <1>1, <1>2

-----------------------------------------------------------------------------
(* Output k of m is not in n; the others are.                              *)
Dropped(n, m, k) ==
  /\ IsMux(n) /\ DefaultPlays(n) /\ n.def = m.def
  /\ Len(n.outputs) = Len(m.outputs) - 1
  /\ \A j \in DOMAIN n.outputs : \E i \in DOMAIN m.outputs :
       i # k /\ n.outputs[j] = m.outputs[i]
  /\ \A i \in DOMAIN m.outputs : i # k =>
       \E j \in DOMAIN n.outputs : n.outputs[j] = m.outputs[i]

LEMMA FreeDrops ==
  ASSUME NEW m, IsMux(m), DefaultPlays(m), NEW k \in DOMAIN m.outputs,
         m.def # m.outputs[k].id
  PROVE  Dropped(Free(m, k), m, k)
<1>1. PICK n : n = Free(m, k) OBVIOUS
<1>2. PICK r : r = RemoveAt(m.outputs, k) OBVIOUS
<1>3. n = [outputs |-> r, def |-> m.def]
  <2>1. m = [outputs |-> m.outputs, def |-> m.def] BY DEF IsMux
  <2> QED BY <1>1, <1>2, <2>1 DEF Free
<1>4. r \in Seq(Output) /\ Closes(r, m.outputs, k)
  <2>1. PICK s : s = m.outputs OBVIOUS
  <2>2. s \in Seq(Output) /\ k \in DOMAIN s BY <2>1 DEF IsMux
  <2> QED BY <1>2, <2>1, <2>2, RemoveAtCloses
<1>5. /\ DOMAIN r = 1..Len(r) /\ Len(r) = Len(m.outputs) - 1
      /\ \A j \in DOMAIN r : /\ r[j] = m.outputs[Skip(j, k)]
                            /\ Skip(j, k) \in DOMAIN m.outputs /\ Skip(j, k) # k
      /\ \A j \in DOMAIN m.outputs : j # k => \E l \in DOMAIN r : Skip(l, k) = j
      /\ \A i, j \in DOMAIN r : Skip(i, k) = Skip(j, k) => i = j
  <2>1. DOMAIN r = 1..Len(r) BY <1>4
  <2> QED BY <1>4, <2>1 DEF Closes
<1>6. n.outputs = r /\ n.def = m.def BY <1>3
<1>7. \A j \in DOMAIN n.outputs : n.outputs[j].on <=> n.outputs[j].method # None
  BY <1>4, <1>5, <1>6 DEF IsMux
<1>8. \A i, j \in DOMAIN n.outputs : n.outputs[i].id = n.outputs[j].id => i = j
  BY <1>4, <1>5, <1>6 DEF IsMux
<1>9. IsMux(n) BY <1>3, <1>4, <1>6, <1>7, <1>8 DEF IsMux
<1>10. \A i \in DOMAIN m.outputs : i # k =>
         \E j \in DOMAIN n.outputs : n.outputs[j] = m.outputs[i]
  <2> SUFFICES ASSUME NEW i \in DOMAIN m.outputs, i # k
               PROVE  \E j \in DOMAIN n.outputs : n.outputs[j] = m.outputs[i]
    OBVIOUS
  <2>1. PICK j \in DOMAIN r : Skip(j, k) = i BY <1>5
  <2> QED BY <2>1, <1>5, <1>6
<1>11. DefaultPlays(n)
  <2>1. CASE m.def = None BY <2>1, <1>6 DEF DefaultPlays
  <2>2. CASE m.def # None
    <3>1. PICK i \in DOMAIN m.outputs : m.outputs[i].on /\ m.outputs[i].id = m.def
      BY <2>2 DEF DefaultPlays
    <3>2. i # k BY <3>1
    <3>3. PICK j \in DOMAIN n.outputs : n.outputs[j] = m.outputs[i] BY <3>2, <1>10
    <3> QED BY <3>1, <3>3, <1>6 DEF DefaultPlays
  <2> QED BY <2>1, <2>2
<1>12. \A j \in DOMAIN n.outputs : \E i \in DOMAIN m.outputs :
         i # k /\ n.outputs[j] = m.outputs[i]
  BY <1>5, <1>6
<1>13. Dropped(n, m, k) BY <1>5, <1>6, <1>9, <1>10, <1>11, <1>12 DEF Dropped
<1> QED BY <1>1, <1>13

LEMMA FindOutputFinds ==
  ASSUME NEW m, IsMux(m), NEW d, OutputsOn(m, d) # {}
  PROVE  FindOutput(m, d) \in OutputsOn(m, d)
<1>1. OutputsOn(m, d) \in SUBSET Nat BY DEF OutputsOn, IsMux
<1>2. \E k \in OutputsOn(m, d) : \A l \in OutputsOn(m, d) : k <= l
  BY <1>1, LeastNatural
<1> QED BY <1>2, Zenon DEF FindOutput

(* The outputs of a combine sink that is in use: all play, each on a sink  *)
(* of its own that is there, and each that is not the default stream plays *)
(* on one of the devices in D.                                             *)
UsedFor(m, D, up) ==
  /\ AllOn(m) /\ OnePerSink(m)
  /\ \A k \in DOMAIN m.outputs :
       m.outputs[k].sink \in up /\ (m.outputs[k].id = m.def \/ m.outputs[k].sink \in D)

(* The output i of m is in n, and its stream goes on where it was.         *)
Goes(n, m, i) ==
  \E j \in DOMAIN n.outputs : /\ n.outputs[j].id = m.outputs[i].id
                              /\ n.outputs[j].sink = m.outputs[i].sink
                              /\ n.outputs[j].on = m.outputs[i].on

(* What remove_slave makes of m.                                           *)
SlaveGone(n, m, d, cs, up, opened) ==
  /\ IsMux(n) /\ DefaultPlays(n)
  /\ OutputsOn(m, d) = {} => n = m
  /\ UsedFor(m, ToSet(cs) \cup {d}, up) /\ opened => UsedFor(n, ToSet(cs), up \ {d})
  /\ \A i \in DOMAIN m.outputs :
       m.outputs[i].on /\ m.outputs[i].sink \in (ToSet(cs) \cap up) \ {d} => Goes(n, m, i)
  /\ Len(m.outputs) = 1 /\ OutputsOn(m, d) # {} /\ ~m.outputs[1].on => n.outputs = <<>>

LEMMA RemoveSlaveRemoves ==
  ASSUME NEW m, IsMux(m), DefaultPlays(m), NEW d \in Device,
         NEW cs \in Seq(Device), NEW p, Fitting(p)
  PROVE  SlaveGone(RemoveSlave(m, d, cs, p), m, d, cs, attached, open)
<1>1. CASE OutputsOn(m, d) = {}
  <2>1. RemoveSlave(m, d, cs, p) = m BY <1>1 DEF RemoveSlave
  <2>2. \A k \in DOMAIN m.outputs : m.outputs[k].sink # d BY <1>1 DEF OutputsOn
  <2>3. UsedFor(m, ToSet(cs) \cup {d}, attached) => UsedFor(m, ToSet(cs), attached \ {d})
    BY <2>2 DEF UsedFor
  <2>4. \A i \in DOMAIN m.outputs : Goes(m, m, i) BY DEF Goes
  <2>5. SlaveGone(m, m, d, cs, attached, open) BY <1>1, <2>3, <2>4 DEF SlaveGone
  <2> QED BY <2>1, <2>5
<1>2. CASE OutputsOn(m, d) # {}
  <2>1. PICK k \in OutputsOn(m, d) : k = FindOutput(m, d) BY <1>2, FindOutputFinds
  <2>2. k \in DOMAIN m.outputs /\ m.outputs[k].sink = d BY <2>1 DEF OutputsOn
  <2>3. PICK q : q = Disable(m, k, cs, p) OBVIOUS
  <2>4. PICK n : n = Free(q, k) OBVIOUS
  <2>5. RemoveSlave(m, d, cs, p) = n BY <1>2, <2>1, <2>3, <2>4 DEF RemoveSlave
  <2>6. Disabled(q, m, k, cs, attached, p.target, open, p.refuse)
    BY <2>2, <2>3, DisableDisables
  <2>7. /\ IsMux(q) /\ DefaultPlays(q) /\ k \in DOMAIN q.outputs
        /\ q.outputs[k].id = m.outputs[k].id /\ q.def # q.outputs[k].id
    BY <2>6 DEF Disabled
  <2>8. Dropped(n, q, k) BY <2>4, <2>7, FreeDrops
  <2>9. IsMux(n) /\ DefaultPlays(n) BY <2>8 DEF Dropped
  <2>10. ASSUME UsedFor(m, ToSet(cs) \cup {d}, attached), open = TRUE
         PROVE  UsedFor(n, ToSet(cs), attached \ {d})
    <3>1. m.outputs[k].on BY <2>2, <2>10 DEF UsedFor, AllOn
    <3>2. PICK u : u = Unlinked(m, k) OBVIOUS
    <3>3. PICK x : /\ Passed(x, u, cs, attached, p.target, open, p.refuse)
                   /\ Silenced(q, x, k)
      BY <2>6, <3>1, <3>2 DEF Disabled
    <3>4. /\ IsMux(u) /\ u.outputs = m.outputs /\ u.def \in {m.def, None}
          /\ u.def # m.outputs[k].id
          /\ \A j \in DOMAIN m.outputs : j # k /\ IsDefault(m, j) => IsDefault(u, j)
      BY <2>2, <3>2, UnlinkedIsMux
    <3>5. AllOn(u) /\ OnePerSink(u) BY <2>10, <3>4 DEF UsedFor, AllOn, OnePerSink
    <3>6. OnePerSink(x) BY <2>10, <3>3, <3>5 DEF Passed
    <3>7. ~IsDefault(u, k) BY <3>4 DEF IsDefault
    <3>8. k \in DOMAIN x.outputs /\ x.outputs[k].sink = d
      BY <2>2, <3>3, <3>4, <3>7 DEF Passed, Grown
    <3>9. \A j \in DOMAIN x.outputs \ {k} :
            /\ x.outputs[j].on /\ x.outputs[j].sink \in attached \ {d}
            /\ x.outputs[j].id = x.def \/ x.outputs[j].sink \in ToSet(cs)
      <4> SUFFICES ASSUME NEW j \in DOMAIN x.outputs, j # k
                   PROVE  /\ x.outputs[j].on /\ x.outputs[j].sink \in attached
                          /\ x.outputs[j].id = x.def \/ x.outputs[j].sink \in ToSet(cs)
        BY <3>6, <3>8 DEF OnePerSink
      <4>1. CASE j \in DOMAIN m.outputs
        <5>1. x.outputs[j].on BY <4>1, <3>3, <3>4, <3>5 DEF Passed, Grown, AllOn
        <5>2. x.outputs[j].sink \in attached
          BY <4>1, <2>10, <3>3, <3>4 DEF Passed, UsedFor
        <5>3. x.outputs[j].id = x.def \/ x.outputs[j].sink \in ToSet(cs)
          <6>1. CASE IsDefault(m, j)
            <7>1. IsDefault(u, j) BY <4>1, <6>1, <3>4
            <7> QED BY <4>1, <7>1, <3>3, <3>4 DEF Passed, IsDefault
          <6>2. CASE ~IsDefault(m, j)
            <7>1. m.outputs[j].on BY <4>1, <2>10 DEF UsedFor, AllOn
            <7>2. m.outputs[j].id # m.def BY <6>2, <7>1 DEF IsDefault
            <7>3. m.outputs[j].sink \in ToSet(cs) \cup {d} BY <4>1, <7>2, <2>10 DEF UsedFor
            <7>4. m.outputs[j].sink # d BY <4>1, <2>2, <2>10 DEF UsedFor, OnePerSink
            <7>5. ~IsDefault(u, j)
              <8>1. m.outputs[j].id \in Nat
                <9>1. m.outputs[j] \in Output BY <4>1 DEF IsMux
                <9> QED BY <9>1 DEF Output
              <8> QED BY <7>2, <8>1, <3>4, MultiplexConfig DEF IsDefault
            <7> QED BY <4>1, <7>3, <7>4, <7>5, <3>3, <3>4 DEF Passed
          <6> QED BY <6>1, <6>2
        <5> QED BY <5>1, <5>2, <5>3
      <4>2. CASE j \notin DOMAIN m.outputs
        BY <4>2, <2>10, <3>3, <3>4 DEF Passed
      <4> QED BY <4>1, <4>2
    <3>10. \A j \in DOMAIN n.outputs : \E i \in DOMAIN x.outputs \ {k} :
             n.outputs[j] = x.outputs[i]
      BY <2>8, <3>3 DEF Dropped, Silenced
    <3>11. n.def = x.def BY <2>8, <3>3 DEF Dropped, Silenced
    <3>12. OnePerSink(n)
      <4> SUFFICES ASSUME NEW i \in DOMAIN n.outputs, NEW j \in DOMAIN n.outputs,
                          n.outputs[i].sink = n.outputs[j].sink
                   PROVE  i = j
        BY DEF OnePerSink
      <4>1. PICK a \in DOMAIN x.outputs \ {k} : n.outputs[i] = x.outputs[a] BY <3>10
      <4>2. PICK b \in DOMAIN x.outputs \ {k} : n.outputs[j] = x.outputs[b] BY <3>10
      <4>3. a = b BY <4>1, <4>2, <3>6 DEF OnePerSink
      <4> QED BY <4>1, <4>2, <4>3, <2>9 DEF IsMux
    <3>13. AllOn(n) BY <3>9, <3>10 DEF AllOn
    <3> QED BY <3>9, <3>10, <3>11, <3>12, <3>13 DEF UsedFor
  <2>11. ASSUME NEW i \in DOMAIN m.outputs, m.outputs[i].on,
                m.outputs[i].sink \in (ToSet(cs) \cap attached) \ {d}
         PROVE  Goes(n, m, i)
    <3>1. i # k BY <2>2, <2>11
    <3>2. i \in DOMAIN q.outputs /\ q.outputs[i].id = m.outputs[i].id
          /\ q.outputs[i].sink = m.outputs[i].sink /\ q.outputs[i].on = m.outputs[i].on
      <4>1. CASE m.outputs[k].on
        <5>1. PICK u : u = Unlinked(m, k) OBVIOUS
        <5>2. PICK x : /\ Passed(x, u, cs, attached, p.target, open, p.refuse)
                       /\ Silenced(q, x, k)
          BY <2>6, <4>1, <5>1 DEF Disabled
        <5>3. u.outputs = m.outputs BY <2>2, <5>1, UnlinkedIsMux
        <5>4. x.outputs[i].sink = m.outputs[i].sink BY <2>11, <5>2, <5>3 DEF Passed
        <5>5. i \in DOMAIN x.outputs /\ x.outputs[i].id = m.outputs[i].id
              /\ x.outputs[i].on = m.outputs[i].on
          BY <2>11, <5>2, <5>3 DEF Passed, Grown
        <5> QED BY <3>1, <5>2, <5>4, <5>5 DEF Silenced
      <4>2. CASE ~m.outputs[k].on
        <5>1. q = m BY <4>2, <2>6 DEF Disabled
        <5> QED BY <5>1, <2>11
      <4> QED BY <4>1, <4>2
    <3>3. PICK j \in DOMAIN n.outputs : n.outputs[j] = q.outputs[i]
      BY <2>8, <3>1, <3>2 DEF Dropped
    <3> QED BY <3>2, <3>3 DEF Goes
  <2>12. ASSUME Len(m.outputs) = 1, ~m.outputs[1].on
         PROVE  n.outputs = <<>>
    <3>1. k = 1 BY <2>2, <2>12 DEF IsMux
    <3>2. q = m BY <2>6, <2>12, <3>1 DEF Disabled
    <3>3. Len(n.outputs) = 0 BY <2>8, <2>12, <3>2 DEF Dropped
    <3>4. n.outputs \in Seq(Output) BY <2>9 DEF IsMux
    <3> QED BY <3>3, <3>4
  <2>13. SlaveGone(n, m, d, cs, attached, open)
    <3>1. open \in BOOLEAN BY DEF Fitting
    <3> QED BY <1>2, <2>9, <2>10, <2>11, <2>12, <3>1 DEF SlaveGone
  <2> QED BY <2>5, <2>13
<1> QED BY <1>1, <1>2

LEMMA RemoveSlaveQuietRemoves ==
  ASSUME NEW m, IsMux(m), DefaultPlays(m), NEW d \in Device,
         NEW cs \in Seq(Device), NEW up, NEW opened \in BOOLEAN
  PROVE  SlaveGone(RemoveSlaveQuiet(m, d), m, d, cs, up, opened)
<1>1. CASE OutputsOn(m, d) = {}
  <2>1. RemoveSlaveQuiet(m, d) = m BY <1>1 DEF RemoveSlaveQuiet
  <2>2. \A k \in DOMAIN m.outputs : m.outputs[k].sink # d BY <1>1 DEF OutputsOn
  <2>3. UsedFor(m, ToSet(cs) \cup {d}, up) => UsedFor(m, ToSet(cs), up \ {d})
    BY <2>2 DEF UsedFor
  <2>4. \A i \in DOMAIN m.outputs : Goes(m, m, i) BY DEF Goes
  <2>5. SlaveGone(m, m, d, cs, up, opened) BY <1>1, <2>3, <2>4 DEF SlaveGone
  <2> QED BY <2>1, <2>5
<1>2. CASE OutputsOn(m, d) # {}
  <2>1. PICK k \in OutputsOn(m, d) : k = FindOutput(m, d) BY <1>2, FindOutputFinds
  <2>2. k \in DOMAIN m.outputs /\ m.outputs[k].sink = d BY <2>1 DEF OutputsOn
  <2>3. PICK u : u = Unlinked(m, k) OBVIOUS
  <2>4. PICK n : n = Free(u, k) OBVIOUS
  <2>5. RemoveSlaveQuiet(m, d) = n
    BY <1>2, <2>1, <2>3, <2>4 DEF RemoveSlaveQuiet, Unlinked
  <2>6. /\ IsMux(u) /\ DefaultPlays(u) /\ u.outputs = m.outputs /\ u.def \in {m.def, None}
        /\ u.def # m.outputs[k].id
        /\ \A j \in DOMAIN m.outputs : j # k /\ IsDefault(m, j) => IsDefault(u, j)
    BY <2>2, <2>3, UnlinkedIsMux
  <2>7. Dropped(n, u, k) BY <2>2, <2>4, <2>6, FreeDrops
  <2>8. IsMux(n) /\ DefaultPlays(n) /\ n.def = u.def BY <2>7 DEF Dropped
  <2>9. \A j \in DOMAIN n.outputs : \E i \in DOMAIN m.outputs :
          i # k /\ n.outputs[j] = m.outputs[i]
    BY <2>6, <2>7 DEF Dropped
  <2>10. ASSUME UsedFor(m, ToSet(cs) \cup {d}, up)
         PROVE  UsedFor(n, ToSet(cs), up \ {d})
    <3>1. AllOn(m) /\ OnePerSink(m) BY <2>10 DEF UsedFor
    <3>2. AllOn(n) BY <2>9, <3>1 DEF AllOn
    <3>3. OnePerSink(n)
      <4> SUFFICES ASSUME NEW i \in DOMAIN n.outputs, NEW j \in DOMAIN n.outputs,
                          n.outputs[i].sink = n.outputs[j].sink
                   PROVE  i = j
        BY DEF OnePerSink
      <4>1. PICK a \in DOMAIN m.outputs : n.outputs[i] = m.outputs[a] BY <2>9
      <4>2. PICK b \in DOMAIN m.outputs : n.outputs[j] = m.outputs[b] BY <2>9
      <4>3. a = b BY <4>1, <4>2, <3>1 DEF OnePerSink
      <4> QED BY <4>1, <4>2, <4>3, <2>8 DEF IsMux
    <3>4. \A j \in DOMAIN n.outputs :
            /\ n.outputs[j].sink \in up \ {d}
            /\ n.outputs[j].id = n.def \/ n.outputs[j].sink \in ToSet(cs)
      <4> SUFFICES ASSUME NEW j \in DOMAIN n.outputs
                   PROVE  /\ n.outputs[j].sink \in up \ {d}
                          /\ n.outputs[j].id = n.def \/ n.outputs[j].sink \in ToSet(cs)
        OBVIOUS
      <4>1. PICK i \in DOMAIN m.outputs : i # k /\ n.outputs[j] = m.outputs[i] BY <2>9
      <4>2. m.outputs[i].sink # d BY <2>2, <3>1, <4>1 DEF OnePerSink
      <4>3. m.outputs[i].sink \in up
            /\ (m.outputs[i].id = m.def \/ m.outputs[i].sink \in ToSet(cs) \cup {d})
        BY <4>1, <2>10 DEF UsedFor
      <4>4. m.outputs[i].id = m.def => n.def = m.outputs[i].id
        BY <4>1, <3>1, <2>6, <2>8 DEF IsDefault, AllOn
      <4> QED BY <4>1, <4>2, <4>3, <4>4
    <3> QED BY <3>2, <3>3, <3>4 DEF UsedFor
  <2>11. ASSUME NEW i \in DOMAIN m.outputs, m.outputs[i].sink # d
         PROVE  Goes(n, m, i)
    <3>1. i # k BY <2>2, <2>11
    <3>2. PICK j \in DOMAIN n.outputs : n.outputs[j] = m.outputs[i]
      BY <2>6, <2>7, <3>1 DEF Dropped
    <3> QED BY <3>2 DEF Goes
  <2>12. ASSUME Len(m.outputs) = 1 PROVE n.outputs = <<>>
    <3>1. Len(n.outputs) = 0 BY <2>6, <2>7, <2>12 DEF Dropped
    <3>2. n.outputs \in Seq(Output) BY <2>8 DEF IsMux
    <3> QED BY <3>1, <3>2
  <2>13. SlaveGone(n, m, d, cs, up, opened)
    BY <1>2, <2>8, <2>10, <2>11, <2>12 DEF SlaveGone
  <2> QED BY <2>5, <2>13
<1> QED BY <1>1, <1>2

(* The types, without those of the multiplexer's state.                    *)
Plain ==
  /\ attached \in SUBSET Device /\ target \in Device \cup {None}
  /\ alive \in BOOLEAN /\ open \in BOOLEAN /\ deferred \in BOOLEAN /\ refused \in BOOLEAN
  /\ routedAsleep \in BOOLEAN
  /\ conns \in Seq(Device)
  /\ sweep \in {"suspend", "resume", None} /\ cursor \in Nat \ {0}

LEMMA TypesApart == TypeOK <=> Plain /\ IsMux(Mux) /\ DefaultPlays(Mux)
<1>1. Mux = [outputs |-> Mux.outputs, def |-> Mux.def]
      /\ Mux.outputs = outputs /\ Mux.def = defstream
  BY DEF Mux
<1> QED BY <1>1 DEF TypeOK, Plain, IsMux, DefaultPlays, Playing

LEMMA TypesApartAfter == TypeOK' <=> Plain' /\ IsMux(Mux') /\ DefaultPlays(Mux')
<1>1. Mux' = [outputs |-> Mux'.outputs, def |-> Mux'.def]
      /\ Mux'.outputs = outputs' /\ Mux'.def = defstream'
  BY DEF Mux
<1> QED BY <1>1 DEF TypeOK, Plain, IsMux, DefaultPlays, Playing

LEMMA BecomesIt ==
  ASSUME NEW n, IsMux(n), Becomes(n)
  PROVE  Mux' = n
BY DEF Becomes, Mux, IsMux

LEMMA OutcomeFits ==
  ASSUME Plain, NEW p \in Outcome
  PROVE  Fitting(p) /\ (Noted(p) => target' \in Device \cup {None} /\ refused' \in BOOLEAN)
BY MultiplexConfig DEF Plain, Outcome, Fitting, Noted

(* A routing pass about this stream.                                       *)
LEMMA RoutedPasses ==
  ASSUME Plain, NEW m, IsMux(m), DefaultPlays(m), NEW cs \in Seq(Device), NEW p \in Outcome
  PROVE  Passed(Routed(m, cs, p), m, cs, attached, p.target, open, p.refuse)
<1>1. attached \in SUBSET Device /\ open \in BOOLEAN /\ p.refuse \in BOOLEAN
  BY OutcomeFits DEF Fitting
<1>2. PICK t : t = p.target OBVIOUS
<1>3. PICK r \in BOOLEAN : r = p.refuse BY <1>1
<1>4. Passed(Pass(m, cs, attached, t, open, r), m, cs, attached, t, open, r)
  BY <1>1, PassPasses
<1> QED BY <1>2, <1>3, <1>4 DEF Routed

(* The stream begins and ends.                                             *)
NoMux == [outputs |-> <<>>, def |-> None]

LEMMA NoMuxIsMux == IsMux(NoMux) /\ DefaultPlays(NoMux)
BY DEF NoMux, IsMux, DefaultPlays

(* The multiplexer's state after each action, with the intermediate ones   *)
(* it comes from.                                                          *)
LEMMA CreateMux ==
  ASSUME TypeOK, Create
  PROVE  \E d \in attached :
           /\ target' = d
           /\ IsMux(Mux') /\ DefaultPlays(Mux')
           /\ Len(outputs') = 1 /\ outputs'[1].sink = d /\ outputs'[1].on
           /\ outputs'[1].id = defstream'
<1>1. PICK d \in attached : target' = d /\ Becomes(AddSlave(NoMux, d, TRUE, "default"))
  BY DEF Create, NoMux
<1>2. d \in Device BY TypesApart DEF Plain
<1>3. PICK n : n = AddSlave(NoMux, d, TRUE, "default") OBVIOUS
<1>4. PICK z : z = NoMux OBVIOUS
<1>a. /\ IsMux(n) /\ DefaultPlays(n)
      /\ Len(n.outputs) = Len(z.outputs) + 1
      /\ n.outputs[Len(n.outputs)].sink = d
      /\ n.outputs[Len(n.outputs)].on = TRUE
      /\ n.def = IF TRUE /\ z.def = None THEN n.outputs[Len(n.outputs)].id ELSE z.def
  <2>1. "default" \in {"default", "explicit"} /\ TRUE \in BOOLEAN OBVIOUS
  <2>2. PICK o \in BOOLEAN : o = TRUE OBVIOUS
  <2>3. IsMux(z) /\ DefaultPlays(z) /\ n = AddSlave(z, d, o, "default")
    BY <1>3, <1>4, <2>2, NoMuxIsMux
  <2>4. /\ IsMux(n) /\ DefaultPlays(n)
        /\ Len(n.outputs) = Len(z.outputs) + 1
        /\ n.outputs[Len(n.outputs)].sink = d
        /\ n.outputs[Len(n.outputs)].on = o
        /\ n.def = IF o /\ z.def = None THEN n.outputs[Len(n.outputs)].id ELSE z.def
    BY <1>2, <2>1, <2>3, AddSlaveGrows
  <2> QED BY <2>2, <2>4
<1>5. Len(z.outputs) = 0 /\ z.def = None BY <1>4 DEF NoMux
<1>6. Mux' = n BY <1>1, <1>3, <1>a, BecomesIt
<1>7. outputs' = n.outputs /\ defstream' = n.def BY <1>6 DEF Mux
<1> QED BY <1>1, <1>a, <1>5, <1>6, <1>7

LEMMA DestroyMux ==
  ASSUME Destroy
  PROVE  Mux' = NoMux /\ IsMux(Mux') /\ DefaultPlays(Mux')
<1>1. Becomes(NoMux) BY DEF Destroy, NoMux
<1> QED BY <1>1, NoMuxIsMux, BecomesIt

LEMMA PassMux ==
  ASSUME TypeOK, NEW m, IsMux(m), DefaultPlays(m), NEW cs \in Seq(Device),
         NEW p \in Outcome, Becomes(Routed(m, cs, p))
  PROVE  /\ Passed(Mux', m, cs, attached, p.target, open, p.refuse)
         /\ IsMux(Mux') /\ DefaultPlays(Mux')
<1>1. PICK n : n = Routed(m, cs, p) OBVIOUS
<1>2. Passed(n, m, cs, attached, p.target, open, p.refuse)
  BY <1>1, TypesApart, RoutedPasses
<1>3. IsMux(n) /\ DefaultPlays(n) BY <1>2 DEF Passed
<1>4. Mux' = n BY <1>1, <1>3, BecomesIt
<1> QED BY <1>2, <1>3, <1>4

LEMMA MakeRoutingMux ==
  ASSUME TypeOK, MakeRouting
  PROVE  /\ IsMux(Mux') /\ DefaultPlays(Mux')
         /\ \E p \in Outcome :
              /\ Noted(p)
              /\ IF alive THEN Passed(Mux', Mux, conns, attached, p.target, open, p.refuse)
                          ELSE Mux' = Mux
<1>1. PICK p \in Outcome :
        Noted(p) /\ IF alive THEN Becomes(Routed(Mux, conns, p)) ELSE UNCHANGED muxVars
  BY DEF MakeRouting
<1>2. IsMux(Mux) /\ DefaultPlays(Mux) /\ conns \in Seq(Device) BY TypesApart DEF Plain
<1>3. CASE alive
  <2>1. Becomes(Routed(Mux, conns, p)) BY <1>1, <1>3
  <2>2. PICK m : m = Mux OBVIOUS
  <2>3. PICK cs \in Seq(Device) : cs = conns BY <1>2
  <2>4. IsMux(m) /\ DefaultPlays(m) /\ Becomes(Routed(m, cs, p)) BY <1>2, <2>1, <2>2, <2>3
  <2>5. /\ Passed(Mux', m, cs, attached, p.target, open, p.refuse)
        /\ IsMux(Mux') /\ DefaultPlays(Mux')
    BY <2>4, PassMux
  <2> QED BY <1>1, <1>3, <2>2, <2>3, <2>5
<1>4. CASE ~alive
  <2>1. Mux' = Mux BY <1>1, <1>4 DEF muxVars, Mux
  <2> QED BY <1>1, <1>2, <1>4, <2>1
<1> QED BY <1>3, <1>4

LEMMA AddMux ==
  ASSUME TypeOK, NEW d \in Device, AddExplicitRoute(d)
  PROVE  /\ IsMux(Mux') /\ DefaultPlays(Mux') /\ conns' \in Seq(Device)
         /\ ToSet(conns') = ToSet(conns) \cup {d}
         /\ \E p \in Outcome :
              Noted(p) /\ Passed(Mux', Mux, conns', attached, p.target, open, p.refuse)
<1>1. PICK cs : cs = Append(conns, d) OBVIOUS
<1>2. IsMux(Mux) /\ DefaultPlays(Mux) /\ conns \in Seq(Device) BY TypesApart DEF Plain
<1>3. cs \in Seq(Device) /\ conns' = cs BY <1>1, <1>2 DEF AddExplicitRoute
<1>4. PICK p \in Outcome : Noted(p) /\ Becomes(Routed(Mux, cs, p))
  BY <1>3 DEF AddExplicitRoute
<1>5. PICK m : m = Mux OBVIOUS
<1>6. /\ Passed(Mux', m, cs, attached, p.target, open, p.refuse)
      /\ IsMux(Mux') /\ DefaultPlays(Mux')
  BY <1>2, <1>3, <1>4, <1>5, PassMux
<1>7. ToSet(cs) = ToSet(conns) \cup {d}
  <2>1. PICK c \in Seq(Device) : c = conns BY <1>2
  <2>2. /\ Len(cs) = Len(c) + 1 /\ DOMAIN c = 1..Len(c) /\ Len(c) \in Nat
        /\ DOMAIN cs = 1..(Len(c) + 1)
        /\ \A i \in 1..Len(c) : cs[i] = c[i]
        /\ cs[Len(c) + 1] = d
    BY <1>1, <2>1
  <2>3. DOMAIN cs = DOMAIN c \cup {Len(c) + 1} BY <2>2
  <2> QED BY <2>1, <2>2, <2>3 DEF ToSet
<1> QED BY <1>3, <1>4, <1>5, <1>6, <1>7

LEMMA RemoveMux ==
  ASSUME TypeOK, NEW k \in DOMAIN conns, RemoveExplicitRoute(k)
  PROVE  /\ IsMux(Mux') /\ DefaultPlays(Mux') /\ conns' \in Seq(Device)
         /\ conns[k] \in Device
         /\ ToSet(conns) = ToSet(conns') \cup {conns[k]}
         /\ IF conns[k] \in attached
            THEN \E p \in Outcome : \E n :
                   /\ Noted(p) /\ deferred' = FALSE
                   /\ SlaveGone(n, Mux, conns[k], conns', attached, open)
                   /\ Passed(Mux', n, conns', attached, p.target, open, p.refuse)
            ELSE UNCHANGED <<target, refused, muxVars, deferred>>
<1>1. PICK cs : cs = RemoveAt(conns, k) OBVIOUS
<1>2. IsMux(Mux) /\ DefaultPlays(Mux) /\ conns \in Seq(Device) /\ Plain
  BY TypesApart DEF Plain
<1>3. PICK c \in Seq(Device) : c = conns BY <1>2
<1>4. cs \in Seq(Device) /\ Closes(cs, c, k) BY <1>1, <1>3, RemoveAtCloses
<1>5. conns' = cs BY <1>1 DEF RemoveExplicitRoute
<1>6. PICK d \in Device : d = conns[k] BY <1>2
<1>7. ToSet(c) = ToSet(cs) \cup {d}
  <2>1. DOMAIN cs = 1..Len(cs) BY <1>4
  <2>2. /\ \A j \in DOMAIN cs : cs[j] = c[Skip(j, k)] /\ Skip(j, k) \in DOMAIN c
        /\ \A j \in DOMAIN c : j # k => \E l \in DOMAIN cs : Skip(l, k) = j
    BY <1>4, <2>1 DEF Closes
  <2>3. \A j \in DOMAIN c : j # k => \E l \in DOMAIN cs : cs[l] = c[j] BY <2>2
  <2> QED BY <1>3, <1>6, <2>2, <2>3 DEF ToSet
<1>8. CASE d \in attached
  <2>1. PICK p \in Outcome :
          /\ Noted(p)
          /\ Becomes(Routed(RemoveSlave(Mux, d, cs, p), cs, p))
          /\ deferred' = FALSE
    BY <1>5, <1>6, <1>8 DEF RemoveExplicitRoute
  <2>2. PICK m : m = Mux OBVIOUS
  <2>3. PICK n : n = RemoveSlave(m, d, cs, p) OBVIOUS
  <2>4. Fitting(p) BY <1>2, OutcomeFits
  <2>5. SlaveGone(n, m, d, cs, attached, open)
    BY <1>2, <1>4, <2>2, <2>3, <2>4, RemoveSlaveRemoves
  <2>6. IsMux(n) /\ DefaultPlays(n) BY <2>5 DEF SlaveGone
  <2>7. Becomes(Routed(n, cs, p)) BY <2>1, <2>2, <2>3
  <2>8. /\ Passed(Mux', n, cs, attached, p.target, open, p.refuse)
        /\ IsMux(Mux') /\ DefaultPlays(Mux')
    BY <1>4, <2>6, <2>7, PassMux
  <2> QED BY <1>3, <1>4, <1>5, <1>6, <1>7, <1>8, <2>1, <2>2, <2>5, <2>8
<1>9. CASE d \notin attached
  <2>1. UNCHANGED <<target, refused, muxVars, deferred>>
    BY <1>6, <1>9 DEF RemoveExplicitRoute
  <2>2. Mux' = Mux BY <2>1 DEF muxVars, Mux
  <2> QED BY <1>2, <1>3, <1>4, <1>5, <1>6, <1>7, <1>9, <2>1, <2>2
<1> QED BY <1>8, <1>9

LEMMA UnlinkMux ==
  ASSUME TypeOK, NEW d \in Device, SinkUnlink(d)
  PROVE  /\ IsMux(Mux') /\ DefaultPlays(Mux')
         /\ SlaveGone(Mux', Mux, d, conns, attached, open)
         /\ target' \in Device \cup {None} /\ refused' \in BOOLEAN
<1>2. IsMux(Mux) /\ DefaultPlays(Mux) /\ conns \in Seq(Device) /\ Plain
  BY TypesApart DEF Plain
<1>3. PICK m : m = Mux OBVIOUS
<1>4. PICK cs \in Seq(Device) : cs = conns BY <1>2
<1>5. CASE \E p \in Outcome : Noted(p) /\ Becomes(RemoveSlave(Mux, d, conns, p))
  <2>1. PICK p \in Outcome : Noted(p) /\ Becomes(RemoveSlave(m, d, cs, p)) BY <1>3, <1>4, <1>5
  <2>2. Fitting(p) /\ target' \in Device \cup {None} /\ refused' \in BOOLEAN
    BY <1>2, <2>1, OutcomeFits
  <2>3. PICK n : n = RemoveSlave(m, d, cs, p) OBVIOUS
  <2>4. SlaveGone(n, m, d, cs, attached, open)
    BY <1>2, <1>3, <2>2, <2>3, RemoveSlaveRemoves
  <2>5. IsMux(n) /\ DefaultPlays(n) BY <2>4 DEF SlaveGone
  <2>6. Mux' = n BY <2>1, <2>3, <2>5, BecomesIt
  <2> QED BY <1>3, <1>4, <2>2, <2>4, <2>5, <2>6
<1>6. CASE Becomes(RemoveSlaveQuiet(Mux, d)) /\ UNCHANGED <<target, refused>>
  <2>1. PICK n : n = RemoveSlaveQuiet(m, d) OBVIOUS
  <2>2. PICK up : up = attached OBVIOUS
  <2>3. PICK o \in BOOLEAN : o = open BY <1>2 DEF Plain
  <2>4. SlaveGone(n, m, d, cs, up, o)
    BY <1>2, <1>3, <2>1, RemoveSlaveQuietRemoves
  <2>5. IsMux(n) /\ DefaultPlays(n) BY <2>4 DEF SlaveGone
  <2>6. Mux' = n BY <1>3, <1>6, <2>1, <2>5, BecomesIt
  <2>7. target' \in Device \cup {None} /\ refused' \in BOOLEAN BY <1>2, <1>6 DEF Plain
  <2> QED BY <1>3, <1>4, <2>2, <2>3, <2>4, <2>5, <2>6, <2>7
<1> QED BY <1>5, <1>6 DEF SinkUnlink

LEMMA SweepMux ==
  ASSUME TypeOK, SweepOutput
  PROVE  /\ IsMux(Mux') /\ DefaultPlays(Mux') /\ cursor \in DOMAIN outputs
         /\ \E p \in Outcome :
              /\ Noted(p)
              /\ IF sweep = "suspend"
                 THEN Disabled(Mux', Mux, cursor, conns, attached, p.target, open, p.refuse)
                 ELSE Woken(Mux', Mux, cursor, conns, attached, p.target, p.refuse)
<1>1. IsMux(Mux) /\ DefaultPlays(Mux) /\ conns \in Seq(Device) /\ Plain
  BY TypesApart DEF Plain
<1>2. PICK m : m = Mux OBVIOUS
<1>3. PICK cs \in Seq(Device) : cs = conns BY <1>1
<1>4. PICK k : k = cursor OBVIOUS
<1>5. k \in DOMAIN m.outputs /\ cursor \in DOMAIN outputs
  <2>1. outputs \in Seq(Output) BY DEF TypeOK
  <2>2. DOMAIN outputs = 1..Len(outputs) /\ Len(outputs) \in Nat BY <2>1, LenProperties
  <2>3. cursor \in 1..Len(outputs) BY <1>1, <2>2 DEF SweepOutput, Plain
  <2> QED BY <1>2, <1>4, <2>2, <2>3 DEF Mux
<1>6. PICK p \in Outcome :
        /\ Noted(p)
        /\ Becomes(IF sweep = "suspend" THEN Disable(m, k, cs, p) ELSE Enable(m, k, cs, p))
  BY <1>2, <1>3, <1>4 DEF SweepOutput
<1>7. Fitting(p) BY <1>1, OutcomeFits
<1>8. CASE sweep = "suspend"
  <2>1. PICK n : n = Disable(m, k, cs, p) OBVIOUS
  <2>2. Disabled(n, m, k, cs, attached, p.target, open, p.refuse)
    BY <1>1, <1>2, <1>5, <1>7, <2>1, DisableDisables
  <2>3. IsMux(n) /\ DefaultPlays(n) BY <2>2 DEF Disabled
  <2>4. Mux' = n BY <1>6, <1>8, <2>1, <2>3, BecomesIt
  <2> QED BY <1>2, <1>3, <1>4, <1>5, <1>6, <1>8, <2>2, <2>3, <2>4
<1>9. CASE sweep # "suspend"
  <2>1. PICK n : n = Enable(m, k, cs, p) OBVIOUS
  <2>2. Woken(n, m, k, cs, attached, p.target, p.refuse)
    BY <1>1, <1>2, <1>5, <1>7, <2>1, EnableEnables
  <2>3. IsMux(n) /\ DefaultPlays(n) BY <2>2 DEF Woken
  <2>4. Mux' = n BY <1>6, <1>9, <2>1, <2>3, BecomesIt
  <2> QED BY <1>2, <1>3, <1>4, <1>5, <1>6, <1>9, <2>2, <2>3, <2>4
<1> QED BY <1>8, <1>9

LEMMA TypeStep == TypeOK /\ [Next]_vars => TypeOK'
<1> SUFFICES ASSUME TypeOK, [Next]_vars PROVE TypeOK' OBVIOUS
<1> USE TypesApart
<1>0. Plain /\ IsMux(Mux) /\ DefaultPlays(Mux) BY DEF Plain
<1>1. ASSUME UNCHANGED muxVars PROVE IsMux(Mux') /\ DefaultPlays(Mux')
  <2>1. Mux' = Mux BY <1>1 DEF muxVars, Mux
  <2> QED BY <1>0, <2>1
<1>2. CASE Create
  <2>1. PICK d \in attached : target' = d /\ IsMux(Mux') /\ DefaultPlays(Mux')
    BY <1>2, CreateMux
  <2>2. Plain' BY <1>0, <1>2, <2>1 DEF Plain, Create, sweepVars
  <2> QED BY <2>1, <2>2, TypesApartAfter
<1>3. CASE Destroy
  <2>1. IsMux(Mux') /\ DefaultPlays(Mux') BY <1>3, DestroyMux
  <2>2. PICK p \in Outcome : Noted(p) BY <1>3 DEF Destroy
  <2>a. <<>> \in Seq(Device) OBVIOUS
  <2>b. target' \in Device \cup {None} /\ refused' \in BOOLEAN BY <1>0, <2>2, OutcomeFits
  <2>3. Plain' BY <1>0, <1>3, <2>a, <2>b DEF Plain, Destroy, sweepVars
  <2> QED BY <2>1, <2>3, TypesApartAfter
<1>4. CASE MakeRouting
  <2>1. IsMux(Mux') /\ DefaultPlays(Mux') /\ \E p \in Outcome : Noted(p)
    BY <1>4, MakeRoutingMux
  <2>2. PICK p \in Outcome : Noted(p) BY <2>1
  <2>3. Plain' BY <1>0, <1>4, <2>2, OutcomeFits DEF Plain, MakeRouting, sweepVars
  <2> QED BY <2>1, <2>3, TypesApartAfter
<1>5. ASSUME NEW d \in Device, AddExplicitRoute(d) PROVE TypeOK'
  <2>1. IsMux(Mux') /\ DefaultPlays(Mux') /\ conns' \in Seq(Device)
        /\ \E p \in Outcome : Noted(p)
    BY <1>5, AddMux
  <2>2. PICK p \in Outcome : Noted(p) BY <2>1
  <2>3. Plain' BY <1>0, <1>5, <2>1, <2>2, OutcomeFits DEF Plain, AddExplicitRoute, sweepVars
  <2> QED BY <2>1, <2>3, TypesApartAfter
<1>6. ASSUME NEW k \in DOMAIN conns, RemoveExplicitRoute(k) PROVE TypeOK'
  <2>1. IsMux(Mux') /\ DefaultPlays(Mux') /\ conns' \in Seq(Device)
    BY <1>6, RemoveMux
  <2>2. target' \in Device \cup {None} /\ refused' \in BOOLEAN /\ deferred' \in BOOLEAN
    <3>1. CASE conns[k] \in attached
      <4>1. PICK p \in Outcome : Noted(p) /\ deferred' = FALSE
        BY <1>6, <3>1 DEF RemoveExplicitRoute
      <4> QED BY <1>0, <4>1, OutcomeFits
    <3>2. CASE conns[k] \notin attached
      BY <1>0, <1>6, <3>2 DEF RemoveExplicitRoute, Plain
    <3> QED BY <3>1, <3>2
  <2>3. Plain' BY <1>0, <1>6, <2>1, <2>2 DEF Plain, RemoveExplicitRoute, sweepVars
  <2> QED BY <2>1, <2>3, TypesApartAfter
<1>7. ASSUME NEW d \in Device, SinkPut(d) PROVE TypeOK'
  <2>1. IsMux(Mux') /\ DefaultPlays(Mux') BY <1>1, <1>7 DEF SinkPut
  <2>2. Plain' BY <1>0, <1>7 DEF Plain, SinkPut, sweepVars
  <2> QED BY <2>1, <2>2, TypesApartAfter
<1>8. ASSUME NEW d \in Device, SinkUnlink(d) PROVE TypeOK'
  <2>1. IsMux(Mux') /\ DefaultPlays(Mux')
        /\ target' \in Device \cup {None} /\ refused' \in BOOLEAN
    BY <1>8, UnlinkMux
  <2>2. Plain' BY <1>0, <1>8, <2>1 DEF Plain, SinkUnlink, sweepVars
  <2> QED BY <2>1, <2>2, TypesApartAfter
<1>9. CASE Suspend
  <2>1. IsMux(Mux') /\ DefaultPlays(Mux') BY <1>1, <1>9 DEF Suspend
  <2>2. Plain' BY <1>0, <1>9 DEF Plain, Suspend
  <2> QED BY <2>1, <2>2, TypesApartAfter
<1>10. CASE Resume
  <2>1. IsMux(Mux') /\ DefaultPlays(Mux') BY <1>1, <1>10 DEF Resume
  <2>2. Plain' BY <1>0, <1>10 DEF Plain, Resume
  <2> QED BY <2>1, <2>2, TypesApartAfter
<1>11. CASE SweepOutput
  <2>1. IsMux(Mux') /\ DefaultPlays(Mux') /\ \E p \in Outcome : Noted(p)
    BY <1>11, SweepMux
  <2>2. PICK p \in Outcome : Noted(p) BY <2>1
  <2>3. Plain' BY <1>0, <1>11, <2>2, OutcomeFits DEF Plain, SweepOutput
  <2> QED BY <2>1, <2>3, TypesApartAfter
<1>12. CASE SweepDone
  <2>1. IsMux(Mux') /\ DefaultPlays(Mux') BY <1>1, <1>12 DEF SweepDone
  <2>2. Plain' BY <1>0, <1>12 DEF Plain, SweepDone
  <2> QED BY <2>1, <2>2, TypesApartAfter
<1>13. CASE UNCHANGED vars
  <2>1. IsMux(Mux') /\ DefaultPlays(Mux') BY <1>1, <1>13 DEF vars
  <2>2. Plain' BY <1>0, <1>13 DEF Plain, vars, sweepVars
  <2> QED BY <2>1, <2>2, TypesApartAfter
<1> QED
  BY <1>2, <1>3, <1>4, <1>5, <1>6, <1>7, <1>8, <1>9, <1>10, <1>11, <1>12, <1>13 DEF Next

LEMMA TypeStart == Init => TypeOK
<1> SUFFICES ASSUME Init PROVE TypeOK OBVIOUS
<1>1. Mux = NoMux BY DEF Init, Mux, NoMux
<1>a. <<>> \in Seq(Device) OBVIOUS
<1>b. attached \in SUBSET Device /\ target \in Device \cup {None} BY DEF Init
<1>c. /\ alive \in BOOLEAN /\ open \in BOOLEAN /\ deferred \in BOOLEAN /\ refused \in BOOLEAN
      /\ routedAsleep \in BOOLEAN
  BY DEF Init
<1>d. conns \in Seq(Device) BY <1>a DEF Init
<1>e. sweep \in {"suspend", "resume", None} /\ cursor \in Nat \ {0} BY DEF Init
<1>2. Plain BY <1>b, <1>c, <1>d, <1>e DEF Plain
<1> QED BY <1>1, <1>2, NoMuxIsMux, TypesApart

(* Whatever passes, sinks, connections and suspending do to the outputs,   *)
(* ids are not given twice, an output has a routing method exactly while   *)
(* it has a stream, and the default stream is one that plays.              *)
THEOREM TypeCorrect == Spec => []TypeOK
<1>1. Init => TypeOK BY TypeStart
<1>2. TypeOK /\ [Next]_vars => TypeOK' BY TypeStep
<1> QED BY <1>1, <1>2, PTL DEF Spec

-----------------------------------------------------------------------------
(* What plays on a device the stream is connected to goes on playing.      *)

(* Where the stream was to go on and does.                                 *)
LEMMA PassGoesOn ==
  ASSUME NEW n, NEW m, NEW cs, NEW up, NEW t, NEW o, NEW r, Passed(n, m, cs, up, t, o, r),
         NEW k \in DOMAIN m.outputs, m.outputs[k].on,
         m.outputs[k].sink \in ToSet(cs) \cap up
  PROVE  Goes(n, m, k)
<1>1. k \in DOMAIN n.outputs /\ n.outputs[k].id = m.outputs[k].id
      /\ n.outputs[k].on = m.outputs[k].on
  BY DEF Passed, Grown
<1>2. n.outputs[k].sink = m.outputs[k].sink BY DEF Passed
<1> QED BY <1>1, <1>2 DEF Goes

(* A stream that does not exist has no outputs and no connections.         *)
Idle == ~alive => outputs = <<>> /\ conns = <<>> /\ open /\ sweep = None

LEMMA IdleStep == TypeOK /\ Idle /\ [Next]_vars => Idle'
<1> SUFFICES ASSUME TypeOK, Idle, [Next]_vars PROVE Idle' OBVIOUS
<1>2. CASE Create BY <1>2 DEF Create, Idle
<1>3. CASE Destroy
  <2>1. outputs' = <<>> BY <1>3 DEF Destroy, Becomes
  <2> QED BY <1>3, <2>1 DEF Destroy, Idle, sweepVars
<1>4. CASE MakeRouting BY <1>4 DEF MakeRouting, muxVars, sweepVars, Idle
<1>5. ASSUME NEW d \in Device, AddExplicitRoute(d) PROVE Idle'
  BY <1>5 DEF AddExplicitRoute, Idle
<1>6. ASSUME NEW k \in DOMAIN conns, RemoveExplicitRoute(k) PROVE Idle'
  <2>1. alive
    <3> SUFFICES ASSUME ~alive PROVE FALSE OBVIOUS
    <3>1. conns = <<>> BY DEF Idle
    <3> QED BY <3>1
  <2> QED BY <1>6, <2>1 DEF RemoveExplicitRoute, Idle
<1>7. ASSUME NEW d \in Device, SinkPut(d) PROVE Idle'
  BY <1>7 DEF SinkPut, Idle, muxVars, sweepVars
<1>8. ASSUME NEW d \in Device, SinkUnlink(d) PROVE Idle'
  <2>1. SlaveGone(Mux', Mux, d, conns, attached, open) BY <1>8, UnlinkMux
  <2>2. outputs = <<>> => OutputsOn(Mux, d) = {} BY DEF OutputsOn, Mux
  <2>3. outputs = <<>> => Mux' = Mux BY <2>1, <2>2 DEF SlaveGone
  <2>4. outputs = <<>> => outputs' = <<>> BY <2>3 DEF Mux
  <2> QED BY <1>8, <2>4 DEF SinkUnlink, Idle, sweepVars
<1>9. CASE Suspend BY <1>9 DEF Suspend, Idle
<1>10. CASE Resume BY <1>10 DEF Resume, Idle
<1>11. CASE SweepOutput BY <1>11 DEF SweepOutput, Idle
<1>12. CASE SweepDone BY <1>12 DEF SweepDone, Idle
<1>13. CASE UNCHANGED vars BY <1>13 DEF vars, Idle, muxVars, sweepVars
<1> QED
  BY <1>2, <1>3, <1>4, <1>5, <1>6, <1>7, <1>8, <1>9, <1>10, <1>11, <1>12, <1>13 DEF Next

(* The body of Uninterrupted, for the output k.                            *)
GoesOnAt(k) ==
  LET d == outputs[k].sink
      kept == \A j \in DOMAIN conns : conns[j] = d => ~RemoveExplicitRoute(j)
  IN  /\ d \in ToSet(conns') \cap attached' /\ kept
      /\ alive' /\ sweep = None
      => \E l \in DOMAIN outputs' : outputs'[l].id = outputs[k].id
                                    /\ outputs'[l].sink = d /\ outputs'[l].on

LEMMA GoesOnStep ==
  ASSUME TypeOK, Idle, [Next]_vars, NEW k \in Playing
  PROVE  GoesOnAt(k)
<1> DEFINE d == outputs[k].sink
<1> SUFFICES ASSUME d \in ToSet(conns') \cap attached',
                    \A j \in DOMAIN conns : conns[j] = d => ~RemoveExplicitRoute(j),
                    alive', sweep = None
             PROVE  \E l \in DOMAIN outputs' : outputs'[l].id = outputs[k].id
                                    /\ outputs'[l].sink = d /\ outputs'[l].on
  BY DEF GoesOnAt
<1>0. Mux.outputs = outputs /\ Mux'.outputs = outputs' BY DEF Mux
<1>1. k \in DOMAIN outputs /\ outputs[k].on BY DEF Playing
<1> HIDE DEF d
<1>a. d = outputs[k].sink BY DEF d
<1>b. PICK m : m = Mux OBVIOUS
<1>c. m.outputs = outputs BY <1>0, <1>b
<1>d. PICK n : n = Mux' OBVIOUS
<1>e. n.outputs = outputs' BY <1>0, <1>d
<1>f. SUFFICES Goes(n, m, k) BY <1>1, <1>a, <1>c, <1>e DEF Goes
<1>g. ASSUME UNCHANGED muxVars PROVE Goes(n, m, k)
  <2>1. n.outputs = m.outputs BY <1>g, <1>c, <1>e DEF muxVars
  <2> QED BY <2>1, <1>1, <1>c DEF Goes
<1>2. CASE Create BY <1>1, <1>2 DEF Create, Idle
<1>3. CASE Destroy BY <1>3 DEF Destroy
<1>4. CASE MakeRouting
  <2>1. alive /\ conns' = conns /\ attached' = attached BY <1>4 DEF MakeRouting
  <2>2. PICK p \in Outcome : Passed(n, m, conns, attached, p.target, open, p.refuse)
    BY <1>4, <1>b, <1>d, <2>1, MakeRoutingMux
  <2> QED BY <2>1, <2>2, <1>1, <1>a, <1>c, PassGoesOn
<1>5. ASSUME NEW e \in Device, AddExplicitRoute(e) PROVE Goes(n, m, k)
  <2>1. attached' = attached BY <1>5 DEF AddExplicitRoute
  <2>2. PICK p \in Outcome : Passed(n, m, conns', attached, p.target, open, p.refuse)
    BY <1>5, <1>b, <1>d, AddMux
  <2>3. PICK cs : cs = conns' OBVIOUS
  <2>4. d \in ToSet(cs) \cap attached BY <2>1, <2>3
  <2> QED BY <2>2, <2>3, <2>4, <1>1, <1>a, <1>c, PassGoesOn
<1>6. ASSUME NEW j \in DOMAIN conns, RemoveExplicitRoute(j) PROVE Goes(n, m, k)
  <2>1. attached' = attached BY <1>6 DEF RemoveExplicitRoute
  <2>2. conns[j] # d BY <1>6
  <2>3. PICK cs : cs = conns' OBVIOUS
  <2>4. d \in ToSet(cs) \cap attached BY <2>1, <2>3
  <2>5. CASE conns[j] \in attached
    <3>1. PICK p \in Outcome : \E x :
            /\ SlaveGone(x, m, conns[j], cs, attached, open)
            /\ Passed(n, x, cs, attached, p.target, open, p.refuse)
      BY <1>6, <1>b, <1>d, <2>3, <2>5, RemoveMux
    <3>2. PICK x : /\ SlaveGone(x, m, conns[j], cs, attached, open)
                   /\ Passed(n, x, cs, attached, p.target, open, p.refuse)
      BY <3>1
    <3>3. Goes(x, m, k) BY <2>2, <2>4, <3>2, <1>1, <1>a, <1>c DEF SlaveGone
    <3>4. PICK i \in DOMAIN x.outputs : /\ x.outputs[i].id = m.outputs[k].id
                                        /\ x.outputs[i].sink = m.outputs[k].sink
                                        /\ x.outputs[i].on = m.outputs[k].on
      BY <3>3 DEF Goes
    <3>5. Goes(n, x, i) BY <2>4, <3>2, <3>4, <1>1, <1>a, <1>c, PassGoesOn
    <3> QED BY <3>4, <3>5 DEF Goes
  <2>6. CASE conns[j] \notin attached
    <3>1. UNCHANGED muxVars BY <1>6, <2>6 DEF RemoveExplicitRoute
    <3> QED BY <3>1, <1>g
  <2> QED BY <2>5, <2>6
<1>7. ASSUME NEW e \in Device, SinkPut(e) PROVE Goes(n, m, k) BY <1>7, <1>g DEF SinkPut
<1>8. ASSUME NEW e \in Device, SinkUnlink(e) PROVE Goes(n, m, k)
  <2>1. SlaveGone(n, m, e, conns, attached, open) BY <1>8, <1>b, <1>d, UnlinkMux
  <2>2. attached' = attached \ {e} /\ conns' = conns BY <1>8 DEF SinkUnlink
  <2>3. d \in (ToSet(conns) \cap attached) \ {e} BY <2>2
  <2> QED BY <2>1, <2>3, <1>1, <1>a, <1>c DEF SlaveGone
<1>9. CASE Suspend BY <1>9, <1>g DEF Suspend
<1>10. CASE Resume BY <1>10, <1>g DEF Resume
<1>11. CASE SweepOutput BY <1>11 DEF SweepOutput
<1>12. CASE SweepDone BY <1>12 DEF SweepDone
<1>13. CASE UNCHANGED vars BY <1>13, <1>g DEF vars
<1> QED
  BY <1>2, <1>3, <1>4, <1>5, <1>6, <1>7, <1>8, <1>9, <1>10, <1>11, <1>12, <1>13 DEF Next

(* Routes are set up without a gap: what plays on a device the stream is   *)
(* connected to goes on playing there, whatever else is connected, ends,   *)
(* comes or goes.                                                          *)
THEOREM RoutesUninterrupted == Spec => Uninterrupted
<1>1. Init => TypeOK /\ Idle
  BY TypeStart DEF Init, Idle
<1>2. TypeOK /\ Idle /\ [Next]_vars => (TypeOK /\ Idle)'
  BY TypeStep, IdleStep
<1>3. TypeOK /\ Idle /\ [Next]_vars => \A k \in Playing : GoesOnAt(k)
  BY GoesOnStep
<1> QED BY <1>1, <1>2, <1>3, PTL DEF Spec, Uninterrupted, GoesOnAt

(* The stream is heard where it should be: on each connected device, or    *)
(* else by the default stream on the target.                               *)
HeardBy(m, D, t) ==
  /\ \A d \in D : PlaysOn(m, d)
  /\ D = {} /\ t # None =>
       \E k \in DOMAIN m.outputs :
         m.outputs[k].on /\ m.outputs[k].sink = t /\ m.outputs[k].id = m.def

(* A pass while the combine sink is in use.                                *)
LEMMA PassKeepsUse ==
  ASSUME NEW m, IsMux(m), DefaultPlays(m), NEW cs \in Seq(Device), NEW up,
         None \notin up, NEW t \in up \cup {None}, NEW r \in BOOLEAN,
         UsedFor(m, ToSet(cs), up),
         NEW n, Passed(n, m, cs, up, t, TRUE, r)
  PROVE  /\ UsedFor(n, ToSet(cs), up)
         /\ ~r => HeardBy(n, ToSet(cs) \cap up, t)
         /\ ToSet(cs) \cap up = {} /\ n.outputs = <<>> => t = None
<1>0. IsMux(n) /\ DefaultPlays(n) /\ Grown(m, n) BY DEF Passed
<1>1. OnePerSink(n) BY DEF Passed, UsedFor
<1>2. AllOn(n)
  <2> SUFFICES ASSUME NEW k \in DOMAIN n.outputs PROVE n.outputs[k].on BY DEF AllOn
  <2>1. CASE k \in DOMAIN m.outputs BY <2>1, <1>0 DEF UsedFor, AllOn, Grown
  <2>2. CASE k \notin DOMAIN m.outputs BY <2>2 DEF Passed
  <2> QED BY <2>1, <2>2
<1>3. ASSUME NEW k \in DOMAIN n.outputs
      PROVE  n.outputs[k].sink \in up /\ (n.outputs[k].id = n.def \/ n.outputs[k].sink \in ToSet(cs))
  <2>1. CASE k \in DOMAIN m.outputs
    <3>1. /\ m.outputs[k].sink \in up /\ m.outputs[k].on
          /\ m.outputs[k].id = m.def \/ m.outputs[k].sink \in ToSet(cs)
      BY <2>1 DEF UsedFor, AllOn
    <3>2. \/ n.outputs[k].sink = m.outputs[k].sink
          \/ IsDefault(m, k) /\ n.outputs[k].sink = t /\ t \in up
      BY <2>1 DEF Passed
    <3>3. IsDefault(m, k) => IsDefault(n, k) \/ n.outputs[k].sink \in ToSet(cs)
      BY <2>1 DEF Passed
    <3> QED BY <3>1, <3>2, <3>3 DEF IsDefault
  <2>2. CASE k \notin DOMAIN m.outputs BY <2>2 DEF Passed
  <2> QED BY <2>1, <2>2
<1>4. UsedFor(n, ToSet(cs), up) BY <1>1, <1>2, <1>3 DEF UsedFor
<1>5. \A d \in ToSet(cs) \cap up : PlaysOn(n, d) BY DEF Passed
<1>6. ASSUME ToSet(cs) \cap up = {}
      PROVE  /\ ~r /\ t # None =>
                  \E k \in DOMAIN n.outputs :
                    n.outputs[k].on /\ n.outputs[k].sink = t /\ n.outputs[k].id = n.def
             /\ n.outputs = <<>> => t = None
  <2>1. \A k \in DOMAIN m.outputs : m.outputs[k].id = m.def BY <1>6 DEF UsedFor
  <2>2. CASE t = None BY <2>2
  <2>3. CASE t # None
    <3>1. t \in up BY <2>3
    <3>2. Follows(n, m, t, TRUE, r) BY <1>6, <3>1 DEF Passed
    <3>3. CASE m.outputs = <<>>
      <4>1. Len(n.outputs) = 1 /\ n.outputs[1].sink = t /\ n.outputs[1].id = n.def
        BY <3>2, <3>3 DEF Follows
      <4>2. 1 \in DOMAIN n.outputs
        <5>1. n.outputs \in Seq(Output) BY <1>0 DEF IsMux
        <5> QED BY <4>1, <5>1, LenProperties
      <4>3. n.outputs[1].on BY <4>2, <1>2 DEF AllOn
      <4>4. n.outputs # <<>> BY <4>2
      <4> QED BY <4>1, <4>2, <4>3, <4>4
    <3>4. CASE m.outputs # <<>>
      <4>1. PICK k \in DOMAIN m.outputs : TRUE
        <5>1. m.outputs \in Seq(Output) BY DEF IsMux
        <5>2. DOMAIN m.outputs = 1..Len(m.outputs) /\ Len(m.outputs) \in Nat BY <5>1, LenProperties
        <5>3. Len(m.outputs) # 0 BY <3>4, <5>1, EmptySeq
        <5>4. 1 \in DOMAIN m.outputs BY <5>2, <5>3
        <5> QED BY <5>4
      <4>2. IsDefault(m, k) BY <2>1, <4>1 DEF IsDefault, UsedFor, AllOn
      <4>3. m.def # None
        <5>1. m.outputs[k] \in Output BY DEF IsMux
        <5> QED BY <2>1, <5>1, MultiplexConfig DEF Output
      <4>4. ~DuplicateRoute(m, t)
        BY <2>1 DEF DuplicateRoute, OutputsOn, IsDefault
      <4>5. IsDefault(n, k) /\ (~r => n.outputs[k].sink = t)
        BY <3>2, <4>2, <4>3, <4>4 DEF Follows
      <4>6. k \in DOMAIN n.outputs BY <1>0 DEF Grown
      <4>7. n.outputs # <<>> BY <4>6
      <4> QED BY <4>5, <4>6, <4>7 DEF IsDefault
    <3> QED BY <3>3, <3>4
  <2> QED BY <2>2, <2>3
<1> QED BY <1>4, <1>5, <1>6 DEF HeardBy

(* The combine sink is not in use: no explicit routes and no output that   *)
(* plays.                                                                  *)
AsleepMux(m, up) ==
  /\ Len(m.outputs) <= 1
  /\ \A k \in DOMAIN m.outputs : ~m.outputs[k].on /\ m.outputs[k].sink \in up

LEMMA PassKeepsAsleep ==
  ASSUME NEW m, IsMux(m), DefaultPlays(m), NEW up,
         None \notin up, NEW t \in up \cup {None}, NEW r,
         AsleepMux(m, up), NEW n, NEW cs, cs = <<>>, Passed(n, m, cs, up, t, FALSE, r)
  PROVE  AsleepMux(n, up) /\ (n.outputs = <<>> => t = None)
<1>1. ToSet(cs) = {} BY DEF ToSet
<1>2. m.def = None BY DEF DefaultPlays, AsleepMux
<1>3. CASE t = None
  <2>1. n = m BY <1>1, <1>3 DEF Passed
  <2> QED BY <1>3, <2>1
<1>4. CASE t # None
  <2>1. Follows(n, m, t, FALSE, r) /\ t \in up BY <1>1, <1>4 DEF Passed
  <2>2. CASE m.outputs = <<>>
    <3>1. Len(n.outputs) = 1 /\ n.outputs[1].sink = t BY <2>1, <2>2 DEF Follows
    <3>2. n.outputs \in Seq(Output) BY <2>1 DEF Follows, IsMux
    <3>3. DOMAIN n.outputs = {1} BY <3>1, <3>2, LenProperties
    <3>4. ~n.outputs[1].on BY <2>1, <2>2, <3>3 DEF Follows
    <3>5. n.outputs # <<>> BY <3>3
    <3> QED BY <2>1, <3>1, <3>3, <3>4, <3>5 DEF AsleepMux
  <2>3. CASE m.outputs # <<>>
    <3>1. n = m BY <1>2, <2>1, <2>3 DEF Follows
    <3> QED BY <2>3, <3>1
  <2> QED BY <2>2, <2>3
<1> QED BY <1>3, <1>4

(* Suspending the only output.                                             *)
LEMMA DisableOnly ==
  ASSUME NEW m, IsMux(m), DefaultPlays(m), NEW k \in DOMAIN m.outputs, Len(m.outputs) <= 1,
         NEW up, NEW t, NEW o, NEW r,
         NEW n, NEW cs, cs = <<>>, Disabled(n, m, k, cs, up, t, o, r)
  PROVE  /\ Len(n.outputs) = 1 /\ k = 1 /\ ~n.outputs[1].on
         /\ n.outputs[1].sink = m.outputs[1].sink
<1>0. m.outputs \in Seq(Output) BY DEF IsMux
<1>1. DOMAIN m.outputs = {1} /\ k = 1 /\ Len(m.outputs) = 1
  <2>1. DOMAIN m.outputs = 1..Len(m.outputs) /\ Len(m.outputs) \in Nat BY <1>0, LenProperties
  <2>2. PICK l \in Nat : l = Len(m.outputs) BY <2>1
  <2>3. k \in 1..l /\ l <= 1 BY <2>1, <2>2
  <2>4. l = 1 /\ k = 1 BY <2>3
  <2>5. 1..l = {1} BY <2>4
  <2> QED BY <2>1, <2>2, <2>4, <2>5
<1>2. CASE m.outputs[k].on
  <2>1. PICK u : u = Unlinked(m, k) OBVIOUS
  <2>2. PICK p : Passed(p, u, cs, up, t, o, r) /\ Silenced(n, p, k)
    BY <1>2, <2>1 DEF Disabled
  <2>3. DefaultPlays(u) /\ u.outputs = m.outputs /\ u.def # m.outputs[k].id
    BY <2>1, UnlinkedIsMux
  <2>4. u.def = None BY <1>1, <2>3 DEF DefaultPlays
  <2>5. u.outputs # <<>> BY <1>1, <2>3
  <2>6. ToSet(cs) = {} BY DEF ToSet
  <2>7. p = u
    <3>1. CASE t \in up
      <4>1. Follows(p, u, t, o, r) BY <2>2, <2>6, <3>1 DEF Passed
      <4> QED BY <4>1, <2>4, <2>5 DEF Follows
    <3>2. CASE t \notin up BY <2>2, <2>6, <3>2 DEF Passed
    <3> QED BY <3>1, <3>2
  <2>8. IsMux(n) /\ DOMAIN n.outputs = {1} /\ ~n.outputs[1].on
        /\ n.outputs[1].sink = m.outputs[1].sink
    BY <1>1, <2>2, <2>3, <2>7 DEF Silenced
  <2> QED BY <1>1, <2>8, OneOutput
<1>3. CASE ~m.outputs[k].on
  <2>1. n = m BY <1>3 DEF Disabled
  <2> QED BY <1>1, <1>3, <2>1
<1> QED BY <1>2, <1>3

-----------------------------------------------------------------------------
(* The invariant of a combine sink that was suspended only while its       *)
(* stream had no explicit routes.                                          *)

InUse == open /\ sweep = None => UsedFor(Mux, ToSet(conns), attached)

NotInUse ==
  ~open \/ sweep # None =>
    /\ conns = <<>> /\ Len(outputs) <= 1
    /\ \A k \in DOMAIN outputs : outputs[k].sink \in attached

Asleep == ~open /\ sweep = None => AsleepMux(Mux, attached)

Suspending ==
  sweep = "suspend" => open /\ \A k \in DOMAIN outputs : k < cursor => ~outputs[k].on

Resuming ==
  sweep = "resume" =>
    /\ ~open
    /\ \A k \in DOMAIN outputs :
         /\ outputs[k].on <=> k < cursor
         /\ outputs[k].on => outputs[k].id = defstream
         /\ outputs[k].on /\ ~refused /\ target # None => outputs[k].sink = target

Waiting == alive /\ ~deferred /\ Connected = {} /\ outputs = <<>> => target = None

HeardInv == Settled => HeardBy(Mux, Connected, target)

MuxInv ==
  /\ TypeOK /\ Idle /\ InUse /\ NotInUse /\ Asleep /\ Suspending /\ Resuming
  /\ Waiting /\ HeardInv

LEMMA MuxInvStart == Init => MuxInv
<1> SUFFICES ASSUME Init PROVE MuxInv OBVIOUS
<1>1. TypeOK BY TypeStart
<1>2. Mux = NoMux /\ DOMAIN Mux.outputs = {} BY DEF Init, Mux, NoMux
<1>3. UsedFor(Mux, ToSet(conns), attached) BY <1>2 DEF UsedFor, AllOn, OnePerSink
<1>4. sweep = None /\ open = TRUE /\ alive = FALSE /\ outputs = <<>> /\ conns = <<>> BY DEF Init
<1>5. None # "suspend" /\ None # "resume" BY MultiplexConfig
<1> QED BY <1>1, <1>3, <1>4, <1>5
        DEF MuxInv, Idle, InUse, NotInUse, Asleep, Suspending, Resuming, Waiting, HeardInv, Settled

Kept == TypeOK /\ Idle /\ (~routedAsleep => MuxInv)

LEMMA KeptShows == Kept => OneStreamPerSink /\ Heard /\ NoOrphans
<1>a. CASE routedAsleep BY <1>a DEF OneStreamPerSink, Heard, NoOrphans, Settled
<1> SUFFICES ASSUME MuxInv PROVE OneStreamPerSink /\ Heard /\ NoOrphans
  BY <1>a DEF Kept
<1>0. Mux.outputs = outputs /\ Mux.def = defstream BY DEF Mux
<1>1. OneStreamPerSink
  <2>1. CASE open /\ sweep = None
    <3>1. OnePerSink(Mux) BY <2>1 DEF MuxInv, InUse, UsedFor
    <3> QED BY <3>1, <1>0 DEF OnePerSink, OneStreamPerSink
  <2>2. CASE ~(open /\ sweep = None)
    <3>1. Len(outputs) <= 1 BY <2>2 DEF MuxInv, NotInUse
    <3>2. outputs \in Seq(Output) BY DEF MuxInv, TypeOK
    <3>3. \A k \in DOMAIN outputs : k = 1 BY <3>1, <3>2, LenProperties
    <3> QED BY <3>3 DEF OneStreamPerSink
  <2> QED BY <2>1, <2>2
<1>2. Heard
  <2> SUFFICES ASSUME Settled
               PROVE  /\ \A d \in Connected : \E k \in Playing : outputs[k].sink = d
                      /\ Connected = {} /\ target # None =>
                           \E k \in Playing : /\ outputs[k].sink = target
                                              /\ outputs[k].id = defstream
    BY DEF Heard
  <2>1. HeardBy(Mux, Connected, target) BY DEF MuxInv, HeardInv
  <2> QED BY <2>1, <1>0 DEF HeardBy, PlaysOn, Playing
<1>3. NoOrphans
  <2> SUFFICES ASSUME Settled, NEW k \in DOMAIN outputs
               PROVE  outputs[k].id = defstream \/ outputs[k].sink \in ToSet(conns)
    BY DEF NoOrphans
  <2>1. UsedFor(Mux, ToSet(conns), attached) BY DEF MuxInv, InUse, Settled
  <2> QED BY <2>1, <1>0 DEF UsedFor
<1> QED BY <1>1, <1>2, <1>3

(* The two states in which no loop over the outputs runs.                  *)
LEMMA UseAfter ==
  ASSUME TypeOK', Idle', open', sweep' = None,
         UsedFor(Mux', ToSet(conns'), attached'), Waiting', HeardInv'
  PROVE  MuxInv'
BY MultiplexConfig DEF MuxInv, InUse, NotInUse, Asleep, Suspending, Resuming

LEMMA SleepAfter ==
  ASSUME TypeOK', Idle', ~open', sweep' = None, conns' = <<>>,
         AsleepMux(Mux', attached'), Waiting'
  PROVE  MuxInv'
<1>1. Mux'.outputs = outputs' BY DEF Mux
<1>2. Len(outputs') <= 1 /\ \A k \in DOMAIN outputs' : outputs'[k].sink \in attached'
  BY <1>1 DEF AsleepMux
<1> QED BY <1>2, MultiplexConfig
           DEF MuxInv, InUse, NotInUse, Asleep, Suspending, Resuming, HeardInv, Settled

LEMMA UsedForMore ==
  ASSUME NEW m, NEW D, NEW up, UsedFor(m, D, up),
         NEW E, D \subseteq E, NEW wide, up \subseteq wide
  PROVE  UsedFor(m, E, wide)
BY DEF UsedFor

LEMMA CreateKeeps == MuxInv /\ Create /\ TypeOK' /\ Idle' => MuxInv'
<1> SUFFICES ASSUME MuxInv, Create, TypeOK', Idle' PROVE MuxInv' OBVIOUS
<1>1. PICK d \in attached :
        /\ target' = d /\ IsMux(Mux')
        /\ Len(outputs') = 1 /\ outputs'[1].sink = d /\ outputs'[1].on
        /\ outputs'[1].id = defstream'
  BY CreateMux DEF MuxInv
<1>2. conns' = <<>> /\ open' = TRUE /\ sweep' = None /\ attached' = attached /\ alive' = TRUE
  BY DEF Create, MuxInv, Idle, sweepVars
<1>3. Mux'.outputs = outputs' /\ Mux'.def = defstream' BY DEF Mux
<1>4. DOMAIN outputs' = {1}
  <2>1. outputs' \in Seq(Output) BY <1>1, <1>3 DEF IsMux
  <2> QED BY <1>1, <2>1, LenProperties
<1>5. UsedFor(Mux', ToSet(conns'), attached')
  BY <1>1, <1>2, <1>3, <1>4 DEF UsedFor, AllOn, OnePerSink
<1>6. ToSet(conns') = {} BY <1>2 DEF ToSet
<1>7. Waiting' BY <1>4 DEF Waiting
<1>8. HeardInv' BY <1>1, <1>3, <1>4, <1>6 DEF HeardInv, HeardBy, Connected
<1> QED BY <1>2, <1>5, <1>7, <1>8, UseAfter

LEMMA DestroyKeeps == Destroy /\ TypeOK' /\ Idle' => MuxInv'
<1> SUFFICES ASSUME Destroy, TypeOK', Idle' PROVE MuxInv' OBVIOUS
<1>1. Mux' = NoMux BY DestroyMux
<1>2. DOMAIN Mux'.outputs = {} BY <1>1 DEF NoMux
<1>3. open' = TRUE /\ sweep' = None /\ alive' = FALSE BY DEF Destroy, sweepVars
<1>4. UsedFor(Mux', ToSet(conns'), attached') BY <1>2 DEF UsedFor, AllOn, OnePerSink
<1>5. Waiting' /\ HeardInv' BY <1>3 DEF Waiting, HeardInv, Settled
<1> QED BY <1>3, <1>4, <1>5, UseAfter

(* A pass at the end of a step, while the combine sink is in use.          *)
LEMMA PassEndsInUse ==
  ASSUME TypeOK, TypeOK', Idle', open = TRUE, open' = TRUE, sweep' = None, attached' = attached,
         NEW m, IsMux(m), DefaultPlays(m), NEW cs \in Seq(Device), conns' = cs,
         UsedFor(m, ToSet(cs), attached), NEW p \in Outcome, Noted(p),
         Passed(Mux', m, cs, attached, p.target, open, p.refuse)
  PROVE  MuxInv'
<1>1. None \notin attached /\ p.target \in attached \cup {None} /\ p.refuse \in BOOLEAN
  BY MultiplexConfig DEF TypeOK, Outcome
<1>2. target' = p.target /\ refused' = p.refuse BY DEF Noted
<1>3. PICK t \in attached \cup {None} : t = p.target BY <1>1
<1>4. PICK r \in BOOLEAN : r = p.refuse BY <1>1
<1>5. PICK n : n = Mux' OBVIOUS
<1>6. Passed(n, m, cs, attached, t, TRUE, r) BY <1>3, <1>4, <1>5
<1>7. /\ UsedFor(n, ToSet(cs), attached)
      /\ ~r => HeardBy(n, ToSet(cs) \cap attached, t)
      /\ ToSet(cs) \cap attached = {} /\ n.outputs = <<>> => t = None
  BY <1>1, <1>6, PassKeepsUse
<1>8. Connected' = ToSet(cs) \cap attached BY DEF Connected
<1>9. n.outputs = outputs' BY <1>5 DEF Mux
<1>10. Waiting' BY <1>2, <1>3, <1>7, <1>8, <1>9 DEF Waiting
<1>11. HeardInv'
  <2>1. Settled' => ~refused' BY DEF Settled
  <2> QED BY <1>2, <1>3, <1>4, <1>5, <1>7, <1>8, <2>1 DEF HeardInv
<1> QED BY <1>5, <1>7, <1>10, <1>11, UseAfter

LEMMA MakeRoutingKeeps == MuxInv /\ MakeRouting /\ TypeOK' /\ Idle' => MuxInv'
<1> SUFFICES ASSUME MuxInv, MakeRouting, TypeOK', Idle' PROVE MuxInv' OBVIOUS
<1>1. /\ sweep = None /\ sweep' = None /\ open' = open /\ conns' = conns
      /\ attached' = attached /\ alive' = alive
  BY DEF MakeRouting, sweepVars
<1>2. PICK p \in Outcome :
        /\ Noted(p)
        /\ IF alive THEN Passed(Mux', Mux, conns, attached, p.target, open, p.refuse)
                    ELSE Mux' = Mux
  BY MakeRoutingMux DEF MuxInv
<1>3. Plain /\ IsMux(Mux) /\ DefaultPlays(Mux) BY TypesApart DEF MuxInv
<1>4. CASE ~alive
  <2>1. open /\ Mux' = Mux BY <1>2, <1>4 DEF MuxInv, Idle
  <2>2. UsedFor(Mux', ToSet(conns'), attached') BY <1>1, <2>1 DEF MuxInv, InUse
  <2>3. Waiting' /\ HeardInv' BY <1>1, <1>4 DEF Waiting, HeardInv, Settled
  <2> QED BY <1>1, <2>1, <2>2, <2>3, UseAfter
<1>5. CASE alive /\ open
  <2>1. PICK m : m = Mux OBVIOUS
  <2>2. PICK cs \in Seq(Device) : cs = conns BY <1>3 DEF Plain
  <2>3. Passed(Mux', m, cs, attached, p.target, open, p.refuse) BY <1>2, <1>5, <2>1, <2>2
  <2>4. UsedFor(m, ToSet(cs), attached) BY <1>1, <1>5, <2>1, <2>2 DEF MuxInv, InUse
  <2>5. open = TRUE /\ open' = TRUE BY <1>1, <1>3, <1>5 DEF Plain
  <2>6. TypeOK BY DEF MuxInv
  <2> QED BY <1>1, <1>2, <1>3, <2>1, <2>2, <2>3, <2>4, <2>5, <2>6, PassEndsInUse
<1>6. CASE alive /\ ~open
  <2>1. PICK m : m = Mux OBVIOUS
  <2>2. PICK n : n = Mux' OBVIOUS
  <2>3. conns = <<>> /\ AsleepMux(m, attached) BY <1>1, <1>6, <2>1 DEF MuxInv, NotInUse, Asleep
  <2>4. open = FALSE BY <1>3, <1>6 DEF Plain
  <2>5. Passed(n, m, conns, attached, p.target, FALSE, p.refuse) BY <1>2, <1>6, <2>1, <2>2, <2>4
  <2>6. None \notin attached /\ p.target \in attached \cup {None}
    BY <1>3, MultiplexConfig DEF Plain, Outcome
  <2>7. PICK t \in attached \cup {None} : t = p.target BY <2>6
  <2>8. PICK cs : cs = conns OBVIOUS
  <2>9. AsleepMux(n, attached) /\ (n.outputs = <<>> => t = None)
    BY <1>3, <2>1, <2>3, <2>5, <2>6, <2>7, <2>8, PassKeepsAsleep
  <2>10. Waiting' BY <1>2, <2>2, <2>7, <2>9 DEF Waiting, Noted, Mux
  <2> QED BY <1>1, <1>6, <2>2, <2>3, <2>9, <2>10, SleepAfter
<1> QED BY <1>4, <1>5, <1>6

LEMMA AddKeeps ==
  ASSUME MuxInv, TypeOK', Idle', NEW d \in Device, AddExplicitRoute(d), ~routedAsleep'
  PROVE  MuxInv'
<1>1. /\ sweep = None /\ sweep' = None /\ open' = open /\ attached' = attached
  BY DEF AddExplicitRoute, sweepVars
<1>2. TypeOK /\ Plain /\ IsMux(Mux) /\ DefaultPlays(Mux) BY TypesApart DEF MuxInv
<1>3. open = TRUE BY <1>2 DEF AddExplicitRoute, Plain
<1>4. conns' \in Seq(Device) /\ ToSet(conns') = ToSet(conns) \cup {d} BY <1>2, AddMux
<1>5. PICK p \in Outcome :
        Noted(p) /\ Passed(Mux', Mux, conns', attached, p.target, open, p.refuse)
  BY <1>2, AddMux
<1>6. PICK m : m = Mux OBVIOUS
<1>7. PICK cs \in Seq(Device) : cs = conns' BY <1>4
<1>8. UsedFor(m, ToSet(conns), attached) BY <1>1, <1>3, <1>6 DEF MuxInv, InUse
<1>9. UsedFor(m, ToSet(cs), attached)
  <2>1. PICK D : D = ToSet(conns) OBVIOUS
  <2> QED BY <1>4, <1>7, <1>8, <2>1, UsedForMore
<1> QED BY <1>1, <1>2, <1>3, <1>5, <1>6, <1>7, <1>9, PassEndsInUse

LEMMA RemoveKeeps ==
  ASSUME MuxInv, TypeOK', Idle', NEW k \in DOMAIN conns, RemoveExplicitRoute(k)
  PROVE  MuxInv'
<1>1. /\ sweep = None /\ sweep' = None /\ open' = open /\ attached' = attached
      /\ alive' = alive /\ routedAsleep' = routedAsleep
  BY DEF RemoveExplicitRoute, sweepVars
<1>2. TypeOK /\ Plain /\ IsMux(Mux) /\ DefaultPlays(Mux) BY TypesApart DEF MuxInv
<1>3. open = TRUE
  <2>1. conns # <<>> OBVIOUS
  <2> QED BY <1>1, <1>2, <2>1 DEF MuxInv, NotInUse, Plain
<1>4. PICK cs \in Seq(Device) : cs = conns' BY <1>2, RemoveMux
<1>5. PICK d \in Device : d = conns[k] BY <1>2, RemoveMux
<1>6. ToSet(conns) = ToSet(cs) \cup {d} BY <1>2, <1>4, <1>5, RemoveMux
<1>7. UsedFor(Mux, ToSet(cs) \cup {d}, attached) BY <1>1, <1>3, <1>6 DEF MuxInv, InUse
<1>8. CASE d \in attached
  <2>1. PICK p \in Outcome : \E x :
          /\ Noted(p)
          /\ SlaveGone(x, Mux, d, cs, attached, open)
          /\ Passed(Mux', x, cs, attached, p.target, open, p.refuse)
    BY <1>2, <1>4, <1>5, <1>8, RemoveMux
  <2>2. PICK x : /\ Noted(p)
                 /\ SlaveGone(x, Mux, d, cs, attached, open)
                 /\ Passed(Mux', x, cs, attached, p.target, open, p.refuse)
    BY <2>1
  <2>3. IsMux(x) /\ DefaultPlays(x) BY <2>2 DEF SlaveGone
  <2>4. UsedFor(x, ToSet(cs), attached \ {d}) BY <1>3, <1>7, <2>2 DEF SlaveGone
  <2>5. UsedFor(x, ToSet(cs), attached) BY <2>4 DEF UsedFor
  <2> QED BY <1>1, <1>2, <1>3, <1>4, <2>2, <2>3, <2>5, PassEndsInUse
<1>9. CASE d \notin attached
  <2>1. UNCHANGED <<target, refused, muxVars, deferred>> BY <1>2, <1>5, <1>9, RemoveMux
  <2>2. Mux' = Mux /\ outputs' = outputs BY <2>1 DEF muxVars, Mux
  <2>3. UsedFor(Mux, ToSet(cs), attached) BY <1>7, <1>9 DEF UsedFor
  <2>4. Connected' = Connected BY <1>1, <1>4, <1>6, <1>9 DEF Connected
  <2>5. Waiting' BY <1>1, <2>1, <2>2, <2>4 DEF MuxInv, Waiting
  <2>6. Settled' => Settled BY <1>1, <2>1 DEF Settled
  <2>7. HeardInv' BY <2>1, <2>2, <2>4, <2>6 DEF MuxInv, HeardInv
  <2> QED BY <1>1, <1>3, <1>4, <2>2, <2>3, <2>5, <2>7, UseAfter
<1> QED BY <1>8, <1>9

LEMMA PutKeeps ==
  ASSUME MuxInv, TypeOK', Idle', NEW d \in Device, SinkPut(d)
  PROVE  MuxInv'
<1>1. /\ sweep = None /\ sweep' = None /\ open' = open /\ attached' = attached \cup {d}
      /\ conns' = conns /\ deferred' = TRUE
  BY DEF SinkPut, sweepVars
<1>2. Mux' = Mux BY DEF SinkPut, muxVars, Mux
<1>3. Waiting' /\ HeardInv' BY <1>1 DEF Waiting, HeardInv, Settled
<1>4. CASE open
  <2>1. UsedFor(Mux, ToSet(conns), attached) BY <1>1, <1>4 DEF MuxInv, InUse
  <2>2. UsedFor(Mux, ToSet(conns), attached \cup {d}) BY <2>1 DEF UsedFor
  <2> QED BY <1>1, <1>2, <1>3, <1>4, <2>2, UseAfter
<1>5. CASE ~open
  <2>1. AsleepMux(Mux, attached) /\ conns = <<>> BY <1>1, <1>5 DEF MuxInv, Asleep, NotInUse
  <2>2. AsleepMux(Mux, attached \cup {d}) BY <2>1 DEF AsleepMux
  <2> QED BY <1>1, <1>2, <1>3, <1>5, <2>1, <2>2, SleepAfter
<1> QED BY <1>4, <1>5

LEMMA UnlinkKeeps ==
  ASSUME MuxInv, TypeOK', Idle', NEW d \in Device, SinkUnlink(d)
  PROVE  MuxInv'
<1>1. /\ sweep = None /\ sweep' = None /\ open' = open /\ attached' = attached \ {d}
      /\ conns' = conns /\ deferred' = TRUE
  BY DEF SinkUnlink, sweepVars
<1>2. TypeOK /\ Plain /\ IsMux(Mux) /\ DefaultPlays(Mux) BY TypesApart DEF MuxInv
<1>3. Waiting' /\ HeardInv' BY <1>1 DEF Waiting, HeardInv, Settled
<1>4. SlaveGone(Mux', Mux, d, conns, attached, open) BY <1>2, UnlinkMux
<1>5. CASE open
  <2>1. UsedFor(Mux, ToSet(conns), attached) BY <1>1, <1>5 DEF MuxInv, InUse
  <2>2. UsedFor(Mux, ToSet(conns) \cup {d}, attached) BY <2>1 DEF UsedFor
  <2>3. UsedFor(Mux', ToSet(conns), attached \ {d}) BY <1>4, <1>5, <2>2 DEF SlaveGone
  <2> QED BY <1>1, <1>3, <1>5, <2>3, UseAfter
<1>6. CASE ~open
  <2>1. AsleepMux(Mux, attached) /\ conns = <<>> BY <1>1, <1>6 DEF MuxInv, Asleep, NotInUse
  <2>2. PICK n : n = Mux' OBVIOUS
  <2>3. PICK m : m = Mux OBVIOUS
  <2>4. AsleepMux(n, attached \ {d})
    <3>1. CASE OutputsOn(m, d) = {}
      <4>1. n = m BY <1>4, <2>2, <2>3, <3>1 DEF SlaveGone
      <4> QED BY <2>1, <2>3, <3>1, <4>1 DEF AsleepMux, OutputsOn
    <3>2. CASE OutputsOn(m, d) # {}
      <4>1. PICK k \in DOMAIN m.outputs : TRUE BY <3>2 DEF OutputsOn
      <4>2. m.outputs \in Seq(Output) BY <1>2, <2>3 DEF IsMux
      <4>3. DOMAIN m.outputs = 1..Len(m.outputs) /\ Len(m.outputs) \in Nat BY <4>2, LenProperties
      <4>4. Len(m.outputs) <= 1 BY <2>1, <2>3 DEF AsleepMux
      <4>a. PICK l \in Nat : l = Len(m.outputs) BY <4>3
      <4>b. k \in 1..l /\ l <= 1 BY <4>1, <4>3, <4>4, <4>a
      <4>c. l = 1 BY <4>b
      <4>d. 1 \in 1..l BY <4>c
      <4>5. Len(m.outputs) = 1 /\ 1 \in DOMAIN m.outputs BY <4>3, <4>a, <4>c, <4>d
      <4>6. ~m.outputs[1].on BY <2>1, <2>3, <4>5 DEF AsleepMux
      <4>7. n.outputs = <<>> BY <1>4, <2>2, <2>3, <3>2, <4>5, <4>6 DEF SlaveGone
      <4> QED BY <4>7 DEF AsleepMux
    <3> QED BY <3>1, <3>2
  <2> QED BY <1>1, <1>3, <1>6, <2>1, <2>2, <2>4, SleepAfter
<1> QED BY <1>5, <1>6

LEMMA SuspendKeeps ==
  ASSUME MuxInv, TypeOK', Idle', Suspend, ~routedAsleep'
  PROVE  MuxInv'
<1>1. /\ sweep = None /\ sweep' = "suspend" /\ open /\ open' = open /\ attached' = attached
      /\ conns' = conns /\ deferred' = deferred /\ cursor' = 1 /\ target' = target
      /\ alive' = alive
  BY DEF Suspend
<1>2. TypeOK /\ Plain /\ IsMux(Mux) BY TypesApart DEF MuxInv
<1>3. Mux' = Mux /\ outputs' = outputs /\ Mux.outputs = outputs /\ Mux.def = defstream
  BY DEF Suspend, muxVars, Mux
<1>4. conns = <<>> BY DEF Suspend
<1>5. UsedFor(Mux, {}, attached)
  <2>1. ToSet(conns) = {} BY <1>4 DEF ToSet
  <2> QED BY <1>1, <2>1 DEF MuxInv, InUse
<1>6. \A k, l \in DOMAIN outputs : k = l
  BY <1>2, <1>3, <1>5 DEF UsedFor, IsMux
<1>7. Len(outputs) <= 1
  <2>1. outputs \in Seq(Output) BY <1>2, <1>3 DEF IsMux
  <2>2. DOMAIN outputs = 1..Len(outputs) /\ Len(outputs) \in Nat BY <2>1, LenProperties
  <2> SUFFICES ASSUME Len(outputs) > 1 PROVE FALSE BY <2>2
  <2>3. 1 \in DOMAIN outputs /\ 2 \in DOMAIN outputs BY <2>2
  <2> QED BY <2>3, <1>6
<1>8. NotInUse' BY <1>1, <1>3, <1>4, <1>5, <1>7 DEF NotInUse, UsedFor
<1>9. Suspending'
  <2>1. outputs \in Seq(Output) BY <1>2, <1>3 DEF IsMux
  <2>2. \A k \in DOMAIN outputs : ~(k < 1) BY <2>1, LenProperties
  <2> QED BY <1>1, <1>3, <2>2 DEF Suspending
<1>10. Waiting' BY <1>1, <1>3 DEF MuxInv, Waiting, Connected
<1>11. sweep' # None /\ sweep' # "resume" BY <1>1, MultiplexConfig
<1> QED BY <1>8, <1>9, <1>10, <1>11 DEF MuxInv, InUse, Asleep, Resuming, HeardInv, Settled

LEMMA ResumeKeeps == MuxInv /\ Resume /\ TypeOK' /\ Idle' => MuxInv'
<1> SUFFICES ASSUME MuxInv, Resume, TypeOK', Idle' PROVE MuxInv' OBVIOUS
<1>1. /\ sweep = None /\ sweep' = "resume" /\ ~open /\ open' = open /\ attached' = attached
      /\ conns' = conns /\ deferred' = deferred /\ cursor' = 1 /\ target' = target
      /\ alive' = alive /\ refused' = refused
  BY DEF Resume
<1>2. IsMux(Mux) BY TypesApart DEF MuxInv
<1>3. outputs' = outputs /\ defstream' = defstream /\ Mux.outputs = outputs
  BY DEF Resume, muxVars, Mux
<1>4. AsleepMux(Mux, attached) BY <1>1 DEF MuxInv, Asleep
<1>5. NotInUse' BY <1>1, <1>3 DEF MuxInv, NotInUse
<1>6. Resuming'
  <2>1. outputs \in Seq(Output) BY <1>2, <1>3 DEF IsMux
  <2>2. \A k \in DOMAIN outputs : ~(k < 1) BY <2>1, LenProperties
  <2> QED BY <1>1, <1>3, <1>4, <2>2 DEF Resuming, AsleepMux
<1>7. Waiting' BY <1>1, <1>3 DEF MuxInv, Waiting, Connected
<1>8. sweep' # None /\ sweep' # "suspend" BY <1>1, MultiplexConfig
<1> QED BY <1>5, <1>6, <1>7, <1>8 DEF MuxInv, InUse, Asleep, Suspending, HeardInv, Settled

LEMMA SweepKeeps == MuxInv /\ SweepOutput /\ TypeOK' /\ Idle' => MuxInv'
<1> SUFFICES ASSUME MuxInv, SweepOutput, TypeOK', Idle' PROVE MuxInv' OBVIOUS
<1>1. /\ sweep # None /\ sweep' = sweep /\ open' = open /\ attached' = attached
      /\ conns' = conns /\ cursor' = cursor + 1
  BY DEF SweepOutput
<1>2. TypeOK /\ Plain /\ IsMux(Mux) /\ DefaultPlays(Mux) BY TypesApart DEF MuxInv
<1>3. conns = <<>> /\ Len(outputs) <= 1 /\ \A k \in DOMAIN outputs : outputs[k].sink \in attached
  BY <1>1 DEF MuxInv, NotInUse
<1>4. IsMux(Mux') /\ cursor \in DOMAIN outputs BY <1>2, SweepMux
<1>5. PICK p \in Outcome :
        /\ Noted(p)
        /\ IF sweep = "suspend"
           THEN Disabled(Mux', Mux, cursor, conns, attached, p.target, open, p.refuse)
           ELSE Woken(Mux', Mux, cursor, conns, attached, p.target, p.refuse)
  BY <1>2, SweepMux
<1>6. PICK m : m = Mux OBVIOUS
<1>7. PICK n : n = Mux' OBVIOUS
<1>8. /\ m.outputs = outputs /\ m.def = defstream
      /\ n.outputs = outputs' /\ n.def = defstream'
  BY <1>6, <1>7 DEF Mux
<1>9. PICK k : k = cursor OBVIOUS
<1>10. m.outputs \in Seq(Output) /\ n.outputs \in Seq(Output)
  BY <1>2, <1>4, <1>6, <1>7 DEF IsMux
<1>11. k = 1 /\ Len(m.outputs) = 1
  <2>1. DOMAIN m.outputs = 1..Len(m.outputs) /\ Len(m.outputs) \in Nat BY <1>10, LenProperties
  <2> QED BY <2>1, <1>3, <1>4, <1>8, <1>9
<1>12. 1 \in DOMAIN m.outputs BY <1>4, <1>8, <1>9, <1>11
<1>13. CASE sweep = "suspend"
  <2>1. PICK cs : cs = conns OBVIOUS
  <2>2. Disabled(n, m, k, cs, attached, p.target, open, p.refuse)
    BY <1>5, <1>6, <1>7, <1>9, <1>13, <2>1
  <2>3. /\ Len(n.outputs) = 1 /\ ~n.outputs[1].on
        /\ n.outputs[1].sink = m.outputs[1].sink
    <3>1. PICK t : t = p.target OBVIOUS
    <3>2. PICK r : r = p.refuse OBVIOUS
    <3>3. Len(m.outputs) <= 1 /\ k \in DOMAIN m.outputs BY <1>11, <1>12
    <3> QED BY <1>2, <1>3, <1>6, <2>1, <2>2, <3>1, <3>2, <3>3, DisableOnly
  <2>4. DOMAIN n.outputs = {1} BY <1>10, <2>3, LenProperties
  <2>5. NotInUse' BY <1>1, <1>3, <1>8, <1>12, <2>3, <2>4 DEF NotInUse
  <2>6. Suspending'
    BY <1>1, <1>8, <1>13, <2>3, <2>4 DEF MuxInv, Suspending
  <2>7. Waiting' BY <1>8, <2>4 DEF Waiting
  <2>8. sweep' # None /\ sweep' # "resume" BY <1>1, <1>13
  <2> QED BY <2>5, <2>6, <2>7, <2>8 DEF MuxInv, InUse, Asleep, Resuming, HeardInv, Settled
<1>14. CASE sweep # "suspend"
  <2>1. sweep = "resume" BY <1>1, <1>2, <1>14 DEF Plain
  <2>2. ~m.outputs[1].on
    <3>1. m.outputs[1].on <=> 1 < cursor BY <1>8, <1>12, <2>1 DEF MuxInv, Resuming
    <3> QED BY <3>1, <1>9, <1>11
  <2>3. m.def = None
    <3>1. DOMAIN m.outputs = {1} BY <1>10, <1>11, LenProperties
    <3> QED BY <1>2, <1>6, <2>2, <3>1 DEF DefaultPlays
  <2>4. Woken(n, m, 1, conns, attached, p.target, p.refuse)
    BY <1>5, <1>6, <1>7, <1>9, <1>11, <1>14
  <2>5. /\ Len(n.outputs) = 1 /\ n.outputs[1].on /\ n.outputs[1].id = n.def
        /\ p.target \in attached /\ ~p.refuse => n.outputs[1].sink = p.target
        /\ n.outputs[1].sink \in attached \cup {m.outputs[1].sink}
    BY <1>3, <1>11, <2>2, <2>3, <2>4 DEF Woken
  <2>6. DOMAIN n.outputs = {1} BY <1>10, <2>5, LenProperties
  <2>7. NotInUse' BY <1>1, <1>3, <1>8, <1>12, <2>5, <2>6 DEF NotInUse
  <2>8. target' = p.target /\ refused' = p.refuse BY <1>5 DEF Noted
  <2>9. p.target \in attached \cup {None} BY DEF Outcome
  <2>10. Resuming'
    <3>1. cursor' = 2 BY <1>1, <1>9, <1>11
    <3>2. ~open' BY <1>1, <2>1 DEF MuxInv, Resuming
    <3> QED BY <1>8, <2>5, <2>6, <2>8, <2>9, <3>1, <3>2 DEF Resuming
  <2>11. Waiting' BY <1>8, <2>6 DEF Waiting
  <2>12. sweep' # None /\ sweep' # "suspend" BY <1>1, <1>14
  <2> QED BY <2>7, <2>10, <2>11, <2>12 DEF MuxInv, InUse, Asleep, Suspending, HeardInv, Settled
<1> QED BY <1>13, <1>14

LEMMA DoneKeeps == MuxInv /\ SweepDone /\ TypeOK' /\ Idle' => MuxInv'
<1> SUFFICES ASSUME MuxInv, SweepDone, TypeOK', Idle' PROVE MuxInv' OBVIOUS
<1>1. /\ sweep # None /\ sweep' = None /\ open' = (sweep = "resume") /\ attached' = attached
      /\ conns' = conns /\ deferred' = deferred /\ target' = target
      /\ alive' = alive /\ refused' = refused /\ cursor > Len(outputs)
  BY DEF SweepDone
<1>2. TypeOK /\ Plain /\ IsMux(Mux) BY TypesApart DEF MuxInv
<1>3. conns = <<>> /\ Len(outputs) <= 1 /\ \A k \in DOMAIN outputs : outputs[k].sink \in attached
  BY <1>1 DEF MuxInv, NotInUse
<1>4. /\ Mux' = Mux /\ outputs' = outputs
      /\ Mux.outputs = outputs /\ Mux.def = defstream
  BY DEF SweepDone, muxVars, Mux
<1>5. Waiting' BY <1>1, <1>4 DEF MuxInv, Waiting, Connected
<1>6. outputs \in Seq(Output) BY <1>2, <1>4 DEF IsMux
<1>7. \A k \in DOMAIN outputs : k < cursor
  <2>1. DOMAIN outputs = 1..Len(outputs) /\ Len(outputs) \in Nat BY <1>6, LenProperties
  <2> QED BY <1>1, <1>2, <2>1 DEF Plain
<1>8. CASE sweep = "suspend"
  <2>1. \A k \in DOMAIN outputs : ~outputs[k].on BY <1>7, <1>8 DEF MuxInv, Suspending
  <2>2. AsleepMux(Mux, attached) BY <1>3, <1>4, <2>1 DEF AsleepMux
  <2>3. ~open' BY <1>1, <1>8
  <2> QED BY <1>1, <1>3, <1>4, <1>5, <2>2, <2>3, SleepAfter
<1>9. CASE sweep = "resume"
  <2>1. \A k \in DOMAIN outputs :
          /\ outputs[k].on /\ outputs[k].id = defstream
          /\ ~refused /\ target # None => outputs[k].sink = target
    BY <1>7, <1>9 DEF MuxInv, Resuming
  <2>2. UsedFor(Mux, ToSet(conns), attached)
    BY <1>2, <1>3, <1>4, <2>1 DEF UsedFor, AllOn, OnePerSink, IsMux
  <2>3. ToSet(conns) = {} BY <1>3 DEF ToSet
  <2>4. HeardInv'
    <3> SUFFICES ASSUME Settled' PROVE HeardBy(Mux', Connected', target') BY DEF HeardInv
    <3>1. Connected = {} /\ Connected' = {} BY <1>1, <2>3 DEF Connected
    <3>2. ASSUME target # None
          PROVE  \E k \in DOMAIN outputs :
                   outputs[k].on /\ outputs[k].sink = target /\ outputs[k].id = defstream
      <4>1. outputs # <<>> BY <1>1, <3>1, <3>2 DEF MuxInv, Waiting, Settled
      <4>2. 1 \in DOMAIN outputs
        <5>1. Len(outputs) \in Nat \ {0} BY <1>6, <4>1, EmptySeq
        <5> QED BY <1>6, <5>1, LenProperties
      <4>3. ~refused BY <1>1 DEF Settled
      <4> QED BY <2>1, <3>2, <4>2, <4>3
    <3> QED BY <1>1, <1>4, <3>1, <3>2 DEF HeardBy
  <2>5. open' = TRUE BY <1>1, <1>9
  <2> QED BY <1>1, <1>4, <1>5, <2>2, <2>4, <2>5, UseAfter
<1> QED BY <1>1, <1>2, <1>8, <1>9 DEF Plain

(* Only the end of the stream makes up for having been suspended.          *)
LEMMA AsleepStays ==
  ASSUME [Next]_vars, ~Destroy, ~routedAsleep'
  PROVE  ~routedAsleep
BY DEF Next, vars, Create, MakeRouting, AddExplicitRoute, RemoveExplicitRoute, SinkPut, SinkUnlink,
       Suspend, Resume, SweepOutput, SweepDone

LEMMA MuxInvStep ==
  ASSUME MuxInv, [Next]_vars, TypeOK', Idle', ~routedAsleep'
  PROVE  MuxInv'
<1>1. CASE UNCHANGED vars
  BY <1>1 DEF MuxInv, InUse, NotInUse, Asleep, Suspending, Resuming, Waiting, HeardInv,
     Settled, Connected, Mux, vars, muxVars, sweepVars
<1> QED
  BY <1>1, CreateKeeps, DestroyKeeps, MakeRoutingKeeps, AddKeeps, RemoveKeeps, PutKeeps,
     UnlinkKeeps, SuspendKeeps, ResumeKeeps, SweepKeeps, DoneKeeps DEF Next

LEMMA KeptHolds == Spec => []Kept
<1>1. Init => Kept BY MuxInvStart DEF Kept, MuxInv
<1>2. Kept /\ [Next]_vars => Kept'
  <2> SUFFICES ASSUME Kept, [Next]_vars PROVE Kept' OBVIOUS
  <2>1. TypeOK' /\ Idle' BY TypeStep, IdleStep DEF Kept
  <2>2. ASSUME ~routedAsleep' PROVE MuxInv'
    <3>1. CASE Destroy BY <2>1, <3>1, DestroyKeeps
    <3>2. CASE ~Destroy
      <4>1. MuxInv BY <2>2, <3>2, AsleepStays DEF Kept
      <4> QED BY <2>1, <2>2, <4>1, MuxInvStep
    <3> QED BY <3>1, <3>2
  <2> QED BY <2>1, <2>2 DEF Kept
<1> QED BY <1>1, <1>2, PTL DEF Spec

(* Unless its combine sink was suspended with explicit routes, a stream is *)
(* never mixed twice into the sound of one device, however often a device  *)
(* is connected, and whether its output comes from the default route, an   *)
(* explicit one, or one that turned into the other.                        *)
THEOREM OneStreamEach == Spec => []OneStreamPerSink
BY KeptHolds, KeptShows, PTL

(* When nothing is under way, the stream plays on every device it is       *)
(* connected to that is there, and on the default route's if there is      *)
(* none, even if the combine sink was suspended meanwhile, provided that   *)
(* it had no explicit routes then.                                         *)
THEOREM AreHeard == Spec => []Heard
BY KeptHolds, KeptShows, PTL

(* No output is left behind by a connection that ended, a sink that went,  *)
(* a default route that became an explicit one, or a combine sink that was *)
(* suspended while its stream had no explicit routes.                      *)
THEOREM OutputsHaveReasons == Spec => []NoOrphans
BY KeptHolds, KeptShows, PTL
=============================================================================
