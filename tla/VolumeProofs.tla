---------------------------- MODULE VolumeProofs ----------------------------
(***************************************************************************)
(* Proofs about Volume, for any streams, devices and classes, any finite   *)
(* table of limits and whatever Murphy decides.                            *)
(***************************************************************************)
EXTENDS Volume, FiniteSetTheorems, TLAPS

-----------------------------------------------------------------------------
(* Limits.                                                                 *)

(* Numbers given to the elements of a finite set have a greatest one.      *)
LEMMA FiniteMost ==
  ASSUME NEW S, IsFiniteSet(S), S # {}, NEW f \in [S -> Nat]
  PROVE  \E m \in S : \A x \in S : f[m] >= f[x]
<1> DEFINE Unbounded == {T \in SUBSET S : T # {} /\ \A x \in T : \E y \in T : f[y] > f[x]}
<1>1. SUFFICES ASSUME \A x \in S : \E y \in S : f[y] > f[x]
               PROVE  FALSE
  <2>1. PICK m \in S : \A y \in S : ~(f[y] > f[m])
    BY <1>1
  <2> QED
    BY <2>1
<1>2. S \in Unbounded
  BY <1>1
<1>3. Unbounded \subseteq FiniteSubsetsOf(S)
  BY FS_FiniteSubsetsOfFinite
<1>4. PICK T \in Unbounded : \A U \in Unbounded : <<U, T>> \notin StrictSubsetOrdering(S)
  <2> HIDE DEF Unbounded
  <2>1. IsWellFoundedOn(StrictSubsetOrdering(S), FiniteSubsetsOf(S))
    BY FS_StrictSubsetOrderingWellFounded
  <2> QED
    BY <1>2, <1>3, <2>1, WFMin
<1>5. T \subseteq S /\ T # {} /\ \A x \in T : \E y \in T : f[y] > f[x]
  OBVIOUS
<1>6. PICK x \in T : TRUE
  BY <1>5
<1> DEFINE U == T \ {x}
<1>7. U \subseteq S /\ U \subseteq T /\ U # T
  BY <1>5, <1>6
<1>8. U \notin Unbounded
  <2> HIDE DEF Unbounded, U
  <2> QED
    BY <1>4, <1>5, <1>7 DEF StrictSubsetOrdering
<1>9. CASE U = {}
  BY <1>5, <1>9
<1>10. CASE U # {}
  <2>1. PICK m \in U : \A y \in U : ~(f[y] > f[m])
    BY <1>7, <1>8, <1>10
  <2>2. PICK y \in T : f[y] > f[m]
    BY <1>5, <2>1
  <2>3. y = x
    BY <2>1, <2>2
  <2>4. PICK z \in T : f[z] > f[x]
    BY <1>5, <1>6
  <2>5. f[x] \in Nat /\ f[z] \in Nat /\ f[m] \in Nat
    BY <1>5, <1>6, <2>1, <2>4
  <2>6. f[z] > f[m]
    BY <2>2, <2>3, <2>4, <2>5
  <2>7. z \in U
    BY <2>4, <2>5
  <2> QED
    BY <2>1, <2>6, <2>7
<1> QED
  BY <1>9, <1>10

LEMMA MaxIs ==
  ASSUME NEW T, T \subseteq Nat, NEW m \in T, \A x \in T : m >= x
  PROVE  Max(T) = m
<1>1. PICK y \in T : y = Max(T) /\ \A x \in T : y >= x
  BY DEF Max
<1> QED
  BY <1>1, y \in Nat, m \in Nat

LEMMA MinOfTwo ==
  ASSUME NEW a \in Nat, NEW b \in Nat
  PROVE  Min({a, b}) \in Nat /\ Min({a, b}) <= a /\ (a = 0 => Min({a, b}) = 0)
<1>1. \E x \in {a, b} : \A y \in {a, b} : x =< y
  OBVIOUS
<1>2. PICK x \in {a, b} : x = Min({a, b}) /\ \A y \in {a, b} : x =< y
  BY <1>1 DEF Min
<1> QED
  BY <1>2

(* What apply_table finds is what the limits in force take at most.        *)
LEMMA TableMost ==
  ASSUME NEW c \in Class, NEW mask \in SUBSET Class
  PROVE  LET by == {e.by : e \in {x \in Suppressor : c \notin x.trigger /\ x.trigger \cap mask # {}}}
             most == ApplyTable(c, mask, LimitsOf(c))
         IN  /\ most \in Nat
             /\ by = {} => most = 0
             /\ by # {} => most = Max(by)
<1> DEFINE force == {e \in Suppressor : c \notin e.trigger /\ e.trigger \cap mask # {}}
           by == {e.by : e \in force}
           all == {0} \cup {Suppress(c, mask, e) : e \in LimitsOf(c)}
           most == Max(all)
<1>1. ApplyTable(c, mask, LimitsOf(c)) = most
  BY DEF ApplyTable
<1>2. by \subseteq Nat
  BY VolumeConfig
<1>3. all \subseteq by \cup {0} /\ by \subseteq all /\ 0 \in all
  BY DEF LimitsOf, Suppress
<1>4. CASE by = {}
  <2>1. all = {0}
    BY <1>3, <1>4
  <2>2. most = 0
    <3> HIDE DEF all
    <3> QED
      BY <2>1, MaxIs
  <2>3. most \in Nat
    BY <2>2
  <2> HIDE DEF by, all
  <2> QED
    BY <1>1, <1>4, <2>2, <2>3 DEF by
<1>5. CASE by # {}
  <2>1. IsFiniteSet(force) /\ force # {}
    BY <1>5, VolumeConfig, FS_Subset
  <2> DEFINE f == [e \in force |-> e.by]
  <2>2. f \in [force -> Nat] /\ \A e \in force : f[e] = e.by
    BY VolumeConfig
  <2>3. PICK m \in force : \A e \in force : m.by >= e.by
    <3> HIDE DEF force, f
    <3>1. PICK m \in force : \A e \in force : f[m] >= f[e]
      BY <2>1, <2>2, FiniteMost
    <3> QED
      BY <2>2, <3>1
  <2>4. m.by \in by /\ \A n \in by : m.by >= n
    BY <2>3
  <2> HIDE DEF by, all
  <2>5. Max(by) = m.by
    BY <1>2, <2>4, MaxIs
  <2>6. most = m.by
    <3>1. m.by \in all /\ m.by \in Nat
      BY <1>2, <1>3, <2>4
    <3>3. all \subseteq Nat
      BY <1>2, <1>3
    <3>2. \A n \in all : m.by >= n
      <4>1. ASSUME NEW n \in all PROVE m.by >= n
        <5>1. CASE n \in by
          BY <2>4, <5>1
        <5>2. CASE n = 0
          BY <3>1, <5>2
        <5> QED
          BY <1>3, <5>1, <5>2
      <4> QED
        BY <4>1
    <3> QED
      BY <3>1, <3>2, <3>3, MaxIs
  <2>7. most \in Nat /\ most = Max(by)
    BY <1>2, <2>4, <2>5, <2>6
  <2> QED
    BY <1>1, <1>5, <2>7 DEF by
<1> QED
  BY <1>4, <1>5

LEMMA ClassLimitIsDue ==
  ASSUME NEW c \in Class, NEW mask \in SUBSET Class
  PROVE  ClassLimit[c][mask] \in Nat /\ ClassLimit[c][mask] = Due[c][mask]
<1> DEFINE by == {e.by : e \in {x \in Suppressor : c \notin x.trigger /\ x.trigger \cap mask # {}}}
           most == ApplyTable(c, mask, LimitsOf(c))
<1>1. most \in Nat /\ (by = {} => most = 0) /\ (by # {} => most = Max(by))
  BY TableMost
<1>2. ClassLimit[c][mask] = IF most >= Norm THEN Norm ELSE Min({most, MaxAttenuation[c]})
  BY DEF ClassLimit
<1>3. Due[c][mask] = CASE by = {} -> 0
                       [] by # {} /\ Max(by) >= Norm -> Norm
                       [] OTHER -> Min({Max(by), MaxAttenuation[c]})
  BY DEF Due
<1> HIDE DEF by, most
<1>4. MaxAttenuation[c] \in Nat /\ Norm \in Nat \ {0}
  BY VolumeConfig
<1>5. /\ Min({most, MaxAttenuation[c]}) \in Nat
      /\ most = 0 => Min({most, MaxAttenuation[c]}) = 0
  BY <1>1, <1>4, MinOfTwo
<1>6. CASE by = {}
  <2>1. ClassLimit[c][mask] = 0
    BY <1>1, <1>2, <1>4, <1>5, <1>6
  <2>2. Due[c][mask] = 0
    BY <1>3, <1>6
  <2> QED
    BY <2>1, <2>2
<1>7. CASE by # {}
  BY <1>1, <1>2, <1>3, <1>4, <1>5, <1>7
<1> QED
  BY <1>6, <1>7

LEMMA LimitType ==
  ASSUME NEW d \in Device, NEW c \in Class, NEW mask \in SUBSET Class, NEW k \in Correction
  PROVE  Limit(d, c, mask, k) \in 0 .. Norm
<1>1. ClassLimit[c][mask] \in Nat
  BY ClassLimitIsDue
<1>2. Corrected(d, k) \in Nat /\ Norm \in Nat
  BY VolumeConfig DEF Corrected
<1> QED
  BY <1>1, <1>2 DEF Limit

-----------------------------------------------------------------------------
(* What a pass, a request and a new stream do to the state of a stream.    *)

Places == [Stream -> Device \cup {Null, None}]

SameFlags(y, x) ==
  y.muted = x.muted /\ y.internal = x.internal /\ y.corked = x.corked

(* The volume vol is set, which leaves the other one alone.                *)
VolumeSet(y, x, vol) ==
  /\ Fading => y.target = vol /\ y.factor = x.factor
  /\ ~Fading => y.factor = vol /\ y.target = x.target

LEMMA SetLimitFields ==
  ASSUME NEW x \in StreamState, NEW vol \in 0 .. Norm
  PROVE  /\ SetLimit(x, vol) \in StreamState
         /\ SameFlags(SetLimit(x, vol), x) /\ VolumeSet(SetLimit(x, vol), x, vol)
<1>1. CASE Fading
  BY <1>1 DEF SetLimit, StreamState, SameFlags, VolumeSet
<1>2. CASE ~Fading
  BY <1>2 DEF SetLimit, StreamState, SameFlags, VolumeSet
<1> QED
  BY <1>1, <1>2

LEMMA MaskType ==
  ASSUME NEW w, NEW x, NEW v, NEW d
  PROVE  Mask(w, x, v, d) \in SUBSET Class
BY VolumeConfig DEF Mask

Placed(w, s) == w[s] \in Device /\ ClassOf[s] # NoClass

LEMMA PassFields ==
  ASSUME NEW w \in Places, NEW x \in [Stream -> StreamState], NEW v,
         NEW k \in Correction, NEW s \in Stream
  PROVE  /\ Pass(w, x, v, k)[s] \in StreamState
         /\ SameFlags(Pass(w, x, v, k)[s], x[s])
         /\ ~Placed(w, s) => Pass(w, x, v, k)[s] = x[s]
         /\ Placed(w, s) =>
              /\ Limit(w[s], ClassOf[s], Mask(w, x, v, w[s]), k) \in 0 .. Norm
              /\ VolumeSet(Pass(w, x, v, k)[s], x[s],
                           Limit(w[s], ClassOf[s], Mask(w, x, v, w[s]), k))
<1>1. CASE ~Placed(w, s)
  <2>1. Pass(w, x, v, k)[s] = x[s]
    BY <1>1 DEF Pass, Placed
  <2> QED
    BY <1>1, <2>1 DEF SameFlags
<1>2. CASE Placed(w, s)
  <2> DEFINE vol == Limit(w[s], ClassOf[s], Mask(w, x, v, w[s]), k)
  <2>1. Pass(w, x, v, k)[s] = SetLimit(x[s], vol)
    BY <1>2 DEF Pass, Placed
  <2>2. w[s] \in Device /\ ClassOf[s] \in Class
    BY <1>2, VolumeConfig DEF Placed
  <2>3. vol \in 0 .. Norm
    BY <2>2, MaskType, LimitType
  <2> HIDE DEF vol
  <2>4. /\ SetLimit(x[s], vol) \in StreamState
        /\ SameFlags(SetLimit(x[s], vol), x[s]) /\ VolumeSet(SetLimit(x[s], vol), x[s], vol)
    BY <2>3, SetLimitFields
  <2> QED
    BY <1>2, <2>1, <2>3, <2>4 DEF vol
<1> QED
  BY <1>1, <1>2

LEMMA PassType ==
  ASSUME NEW w \in Places, NEW x \in [Stream -> StreamState], NEW v, NEW k \in Correction
  PROVE  Pass(w, x, v, k) \in [Stream -> StreamState]
<1>1. \A s \in Stream : Pass(w, x, v, k)[s] \in StreamState
  BY PassFields
<1>2. Pass(w, x, v, k) = [s \in Stream |-> Pass(w, x, v, k)[s]]
  BY DEF Pass
<1> QED
  BY <1>1, <1>2

(* What a request may do to a stream that is not a looped back device.     *)
Obeyed(y, x, req) ==
  /\ req = "RUN" => ~y.corked /\ (~x.corked \/ ~x.internal => ~y.internal)
  /\ req # "RUN" => /\ y.corked \/ y.internal
                    /\ ~x.corked \/ ~x.internal => ~y.corked \/ ~y.internal

(* With transition times the volume factor is that of the internal mute.   *)
Mutes(y) == y.factor = IF y.internal THEN 0 ELSE Norm

Asked(y, x, s, req) ==
  /\ Mutes(x) => Mutes(y)
  /\ Fading => y.target = x.target
  /\ Kind[s] # "loop" => Obeyed(y, x, req)

LEMMA StateChangeFields ==
  ASSUME NEW s \in Stream, NEW x \in StreamState, NEW req
  PROVE  StateChange(s, x, req) \in StreamState /\ Asked(StateChange(s, x, req), x, s, req)
<1>0. 0 \in 0 .. Norm /\ Norm \in 0 .. Norm
  BY VolumeConfig
<1>1. FadedIn(x) \in StreamState /\ ~FadedIn(x).internal /\ FadedIn(x).factor = Norm
      /\ FadedIn(x).corked = x.corked /\ (Fading => FadedIn(x).target = x.target)
  BY <1>0 DEF FadedIn, StreamState
<1>2. CASE req = "RUN"
  <2>1. StateChange(s, x, req) = Run(s, x)
    BY <1>2 DEF StateChange
  <2>2. CASE Kind[s] = "loop"
    BY <1>2, <2>1, <2>2 DEF Run, StreamState, Asked, Obeyed, Mutes
  <2>3. CASE Kind[s] # "loop" /\ x.corked
    BY <1>2, <2>1, <2>3 DEF Run, StreamState, Asked, Obeyed, Mutes
  <2>4. CASE Kind[s] # "loop" /\ ~x.corked /\ x.internal
    BY <1>1, <1>2, <2>1, <2>4 DEF Run, Asked, Obeyed, Mutes
  <2>5. CASE Kind[s] # "loop" /\ ~x.corked /\ ~x.internal
    BY <1>2, <2>1, <2>5 DEF Run, StreamState, Asked, Obeyed, Mutes
  <2> QED
    BY <2>2, <2>3, <2>4, <2>5
<1>3. CASE req # "RUN"
  <2>1. StateChange(s, x, req) = Block(s, x)
    BY <1>3 DEF StateChange
  <2> QED
    BY <1>0, <1>3, <2>1 DEF Block, StreamState, Asked, Obeyed, Mutes
<1> QED
  BY <1>2, <1>3

LEMMA EnforcedFields ==
  ASSUME NEW x \in [Stream -> StreamState], NEW v, NEW s \in Stream
  PROVE  /\ Enforced(x, v)[s] \in StreamState
         /\ v[s] = None => Enforced(x, v)[s] = x[s]
         /\ v[s] # None => Asked(Enforced(x, v)[s], x[s], s, v[s].req)
BY StateChangeFields DEF Enforced

LEMMA EnforcedType ==
  ASSUME NEW x \in [Stream -> StreamState], NEW v
  PROVE  Enforced(x, v) \in [Stream -> StreamState]
<1>1. \A s \in Stream : Enforced(x, v)[s] \in StreamState
  BY EnforcedFields
<1>2. Enforced(x, v) = [s \in Stream |-> Enforced(x, v)[s]]
  BY DEF Enforced
<1> QED
  BY <1>1, <1>2

LEMMA FreshFields ==
  ASSUME NEW s \in Stream
  PROVE  /\ Absent \in StreamState /\ Fresh(s) \in StreamState
         /\ ~Fresh(s).internal /\ (Fresh(s).corked <=> Kind[s] = "resdef")
         /\ Fresh(s).factor = Norm /\ (ClassOf[s] = NoClass => Fresh(s).target = Norm)
<1>1. Absent \in StreamState /\ 0 \in 0 .. Norm /\ Norm \in 0 .. Norm
  BY VolumeConfig DEF Absent, StreamState
<1>2. ClassOf[s] = NoClass => s \notin Ramps
  BY VolumeConfig
<1> QED
  BY <1>1, <1>2 DEF Fresh, Absent, StreamState

-----------------------------------------------------------------------------
(* The inductive invariant, one stream at a time.                          *)

(* A stream that Murphy has to allow is corked or muted by the module      *)
(* until it is allowed, and never both, so that one request to run is      *)
(* enough.                                                                 *)
ObeysAt(y, said, s) ==
  /\ said # None => Kind[s] # "free"
  /\ Kind[s] # "loop" =>
       /\ ~y.corked \/ ~y.internal
       /\ Kind[s] = "free" \/ (said # None /\ said.req = "RUN") => ~y.corked /\ ~y.internal
       /\ Kind[s] # "free" /\ (said = None \/ said.req # "RUN") => y.corked \/ y.internal

(* There is time for a ramp, and the limits leave something to hear.       *)
Audible ==
  /\ Fading
  /\ \A c \in Class, mask \in SUBSET Class, k \in Correction : ClassLimit[c][mask] + k < Norm

(* A stream may be at 0, to be faded in, only while it is on no device.    *)
Ready(y, s) == ClassOf[s] = NoClass => y.target # 0
LevelAt(d, y, s) == Ready(y, s) /\ (d \in Device => y.target # 0)

Absence(w, x, v, s) == w[s] = None => v[s] = None /\ x[s] = Absent

FineAt(w, x, v, s) ==
  /\ Absence(w, x, v, s)
  /\ w[s] # None => ObeysAt(x[s], v[s], s)
  /\ Fading => Mutes(x[s])
  /\ Audible => LevelAt(w[s], x[s], s)

IInv ==
  /\ where \in Places /\ st \in [Stream -> StreamState]
  /\ verdict \in [Stream -> Verdict \cup {None}] /\ correction \in Correction
  /\ \A s \in Stream : FineAt(where, st, verdict, s)

(* What is true before a pass and before the verdicts are enforced.        *)
HalfAt(w, x, v, s) ==
  /\ Absence(w, x, v, s)
  /\ w[s] # None => ObeysAt(x[s], v[s], s)
  /\ Fading => Mutes(x[s])
  /\ Audible => Ready(x[s], s)

BeforeAt(w, x, v, s) ==
  /\ Absence(w, x, v, s)
  /\ w[s] # None =>
       /\ v[s] # None => Kind[s] # "free"
       /\ v[s] # None /\ Kind[s] # "loop" => ~x[s].corked \/ ~x[s].internal
       /\ v[s] = None => ObeysAt(x[s], None, s)
  /\ Fading => Mutes(x[s])
  /\ Audible => Ready(x[s], s)

LEMMA FineIsHalf ==
  ASSUME NEW w, NEW x, NEW v, NEW s, FineAt(w, x, v, s)
  PROVE  HalfAt(w, x, v, s)
BY DEF FineAt, HalfAt, LevelAt

LEMMA PassFine ==
  ASSUME NEW w \in Places, NEW x \in [Stream -> StreamState], NEW v,
         NEW k \in Correction, NEW s \in Stream, HalfAt(w, x, v, s)
  PROVE  FineAt(w, Pass(w, x, v, k), v, s)
<1> DEFINE y == Pass(w, x, v, k)[s]
           vol == Limit(w[s], ClassOf[s], Mask(w, x, v, w[s]), k)
<1>1. /\ SameFlags(y, x[s])
      /\ ~Placed(w, s) => y = x[s]
      /\ Placed(w, s) => VolumeSet(y, x[s], vol)
  BY PassFields
<1>2. Audible /\ Placed(w, s) => vol # 0
  <2> SUFFICES ASSUME Audible, Placed(w, s) PROVE vol # 0
    OBVIOUS
  <2> DEFINE mask == Mask(w, x, v, w[s])
             limit == ClassLimit[ClassOf[s]][mask]
             by == Corrected(w[s], k)
  <2>1. w[s] \in Device /\ ClassOf[s] \in Class /\ mask \in SUBSET Class
    BY VolumeConfig, MaskType DEF Placed
  <2>2. limit \in Nat /\ \A n \in Correction : limit + n < Norm
    <3> HIDE DEF mask
    <3>1. limit \in Nat
      BY <2>1, ClassLimitIsDue
    <3> QED
      BY <2>1, <3>1 DEF Audible
  <2>3. by \in Correction /\ Correction \subseteq 0 .. Norm /\ Norm \in Nat
    BY VolumeConfig DEF Corrected
  <2>4. vol = LET left == Norm - limit - by IN IF left > 0 THEN left ELSE 0
    BY DEF Limit
  <2> HIDE DEF mask, limit, by, vol
  <2>5. limit + by < Norm /\ by \in Nat
    BY <2>2, <2>3
  <2>6. Norm - limit - by > 0
    BY <2>2, <2>3, <2>5
  <2> QED
    BY <2>4, <2>6
<1>3. w[s] = None => ~Placed(w, s)
  BY VolumeConfig DEF Placed
<1> HIDE DEF y, vol
<1>4. w[s] = None => v[s] = None /\ y = Absent
  BY <1>1, <1>3 DEF HalfAt, Absence
<1>5. w[s] # None => ObeysAt(y, v[s], s)
  BY <1>1 DEF HalfAt, ObeysAt, SameFlags
<1>6. Audible => LevelAt(w[s], y, s)
  <2>1. CASE Placed(w, s)
    BY <1>1, <1>2, <2>1 DEF HalfAt, VolumeSet, LevelAt, Ready, Audible, Placed
  <2>2. CASE ~Placed(w, s)
    BY <1>1, <2>2 DEF HalfAt, LevelAt, Ready, Placed
  <2> QED
    BY <2>1, <2>2
<1>7. Fading => Mutes(y)
  <2>1. CASE Placed(w, s)
    BY <1>1, <2>1 DEF HalfAt, VolumeSet, SameFlags, Mutes
  <2>2. CASE ~Placed(w, s)
    BY <1>1, <2>2 DEF HalfAt
  <2> QED
    BY <2>1, <2>2
<1> QED
  BY <1>4, <1>5, <1>6, <1>7 DEF FineAt, Absence, y

LEMMA EnforcedHalf ==
  ASSUME NEW w, NEW x \in [Stream -> StreamState], NEW v, NEW s \in Stream,
         BeforeAt(w, x, v, s)
  PROVE  /\ HalfAt(w, Enforced(x, v), v, s)
         /\ Fading => Enforced(x, v)[s].target = x[s].target
<1> DEFINE y == Enforced(x, v)[s]
<1>1. /\ v[s] = None => y = x[s]
      /\ v[s] # None => Asked(y, x[s], s, v[s].req)
  BY EnforcedFields
<1> HIDE DEF y
<1>2. Fading => Mutes(y) /\ y.target = x[s].target
  <2>1. Mutes(x[s]) => Mutes(y)
    BY <1>1 DEF Asked
  <2> QED
    BY <1>1, <2>1 DEF Asked, BeforeAt
<1>3. w[s] = None => v[s] = None /\ y = Absent
  BY <1>1 DEF BeforeAt, Absence
<1>4. w[s] # None => ObeysAt(y, v[s], s)
  <2>1. CASE v[s] = None
    BY <1>1, <2>1 DEF BeforeAt
  <2>2. CASE v[s] # None
    BY <1>1, <2>2 DEF BeforeAt, ObeysAt, Asked, Obeyed
  <2> QED
    BY <2>1, <2>2
<1>5. Audible => Ready(y, s)
  BY <1>2 DEF BeforeAt, Ready, Audible
<1> QED
  BY <1>2, <1>3, <1>4, <1>5 DEF HalfAt, Absence, y

LEMMA HalfIsBefore ==
  ASSUME NEW w, NEW x, NEW v, NEW s, HalfAt(w, x, v, s)
  PROVE  BeforeAt(w, x, v, s)
BY DEF HalfAt, BeforeAt, ObeysAt

LEMMA InitFine == Init => IInv
<1> SUFFICES ASSUME Init PROVE IInv
  OBVIOUS
<1>1. ASSUME NEW s \in Stream PROVE FineAt(where, st, verdict, s)
  <2>1. where[s] = None /\ verdict[s] = None /\ st[s] = Absent
    BY DEF Init
  <2>2. Mutes(Absent) /\ Absent.target # 0
    BY VolumeConfig DEF Absent, Mutes
  <2>3. None \notin Device
    BY VolumeConfig
  <2> QED
    BY <2>1, <2>2, <2>3 DEF FineAt, Absence, LevelAt, Ready
<1>2. st \in [Stream -> StreamState] /\ correction \in Correction
  BY VolumeConfig, FreshFields DEF Init, Absent, StreamState
<1>3. where \in Places /\ verdict \in [Stream -> Verdict \cup {None}]
  BY DEF Init, Places
<1> QED
  BY <1>1, <1>2, <1>3 DEF IInv

LEMMA NewStreamFine ==
  ASSUME IInv, NEW s \in Stream, NEW d \in Device \cup {Null}, NEW seen \in VerdictsOn(s),
         NewStream(s, d, seen)
  PROVE  IInv'
<1> DEFINE new == [st EXCEPT ![s] = Fresh(s)]
           asked == IF Kind[s] = "named" THEN Enforced(new, verdict') ELSE new
<1>1. /\ where[s] = None /\ where' = [where EXCEPT ![s] = d] /\ correction' = correction
      /\ verdict' = IF Kind[s] = "named" THEN [verdict EXCEPT ![s] = seen] ELSE verdict
      /\ st' = IF ClassOf[s] = NoClass \/ (d = Null /\ Kind[s] # "loop") THEN asked
               ELSE Pass(where', asked, verdict', correction)
  BY DEF NewStream
<1>2. /\ where \in Places /\ st \in [Stream -> StreamState]
      /\ verdict \in [Stream -> Verdict \cup {None}] /\ correction \in Correction
      /\ \A r \in Stream : FineAt(where, st, verdict, r)
  BY DEF IInv
<1>3. seen \in Verdict /\ Verdict \subseteq Verdict \cup {None} /\ seen # None
  BY VolumeConfig DEF VerdictsOn
<1>4. /\ where' \in Places /\ verdict' \in [Stream -> Verdict \cup {None}]
      /\ where'[s] = d /\ \A r \in Stream \ {s} : where'[r] = where[r] /\ verdict'[r] = verdict[r]
  BY <1>1, <1>2, <1>3 DEF Places
<1>5. verdict[s] = None
  BY <1>1, <1>2 DEF FineAt, Absence
<1>6. verdict'[s] = IF Kind[s] = "named" THEN seen ELSE None
  BY <1>1, <1>2, <1>5
<1>7. new \in [Stream -> StreamState] /\ new[s] = Fresh(s) /\ \A r \in Stream \ {s} : new[r] = st[r]
  BY <1>2, FreshFields
<1>8. d # None /\ (d \in Device => d # Null)
  BY VolumeConfig
<1> HIDE DEF new
<1>9. ASSUME NEW r \in Stream
      PROVE  /\ BeforeAt(where', new, verdict', r)
             /\ Kind[s] # "named" => HalfAt(where', new, verdict', r)
  <2>1. CASE r # s
    <3>1. HalfAt(where, st, verdict, r)
      BY <1>2, FineIsHalf
    <3>2. HalfAt(where', new, verdict', r)
      BY <1>4, <1>7, <2>1, <3>1 DEF HalfAt, Absence
    <3> QED
      BY <3>2, HalfIsBefore
  <2>2. CASE r = s
    <3>1. /\ where'[r] = d /\ new[r] = Fresh(s) /\ ~new[r].internal
          /\ (new[r].corked <=> Kind[s] = "resdef")
          /\ new[r].factor = Norm /\ (ClassOf[s] = NoClass => new[r].target = Norm)
      BY <1>4, <1>7, <2>2, FreshFields
    <3>2. Ready(new[r], r)
      BY <2>2, <3>1, VolumeConfig DEF Ready
    <3>m. Mutes(new[r])
      BY <3>1 DEF Mutes
    <3>3. CASE Kind[s] = "named"
      BY <1>3, <1>6, <1>8, <2>2, <3>1, <3>2, <3>m, <3>3 DEF BeforeAt, Absence
    <3>4. CASE Kind[s] # "named"
      <4>1. Kind[s] \in {"free", "resdef", "loop"}
        BY <3>4, VolumeConfig
      <4>2. HalfAt(where', new, verdict', r)
        BY <1>6, <1>8, <2>2, <3>1, <3>2, <3>m, <3>4, <4>1 DEF HalfAt, Absence, ObeysAt
      <4> QED
        BY <4>2, HalfIsBefore
    <3> QED
      BY <3>3, <3>4
  <2> QED
    BY <2>1, <2>2
<1>10. asked \in [Stream -> StreamState]
  BY <1>7, EnforcedType
<1>11. ASSUME NEW r \in Stream
       PROVE  /\ HalfAt(where', asked, verdict', r)
              /\ Fading => asked[r].target = new[r].target
  <2>1. CASE Kind[s] = "named"
    <3>1. /\ HalfAt(where', Enforced(new, verdict'), verdict', r)
          /\ Fading => Enforced(new, verdict')[r].target = new[r].target
      BY <1>7, <1>9, EnforcedHalf
    <3> QED
      BY <2>1, <3>1
  <2>2. CASE Kind[s] # "named"
    BY <1>9, <2>2
  <2> QED
    BY <2>1, <2>2
<1> HIDE DEF asked
<1>12. CASE ClassOf[s] = NoClass \/ (d = Null /\ Kind[s] # "loop")
  <2>1. st' = asked
    BY <1>1, <1>12
  <2>2. ASSUME NEW r \in Stream PROVE FineAt(where', asked, verdict', r)
    <3>1. HalfAt(where', asked, verdict', r) /\ (Fading => asked[r].target = new[r].target)
      BY <1>11
    <3>2. Audible => (where'[r] \in Device => asked[r].target # 0)
      <4>1. CASE r = s
        BY <1>4, <1>8, <1>12, <3>1, <4>1 DEF HalfAt, Ready
      <4>2. CASE r # s
        <5>1. Audible => LevelAt(where[r], st[r], r)
          BY <1>2 DEF FineAt
        <5> QED
          BY <1>4, <1>7, <3>1, <4>2, <5>1 DEF LevelAt, Audible
      <4> QED
        BY <4>1, <4>2
    <3> QED
      BY <3>1, <3>2 DEF HalfAt, FineAt, LevelAt
  <2> QED
    BY <1>1, <1>2, <1>4, <1>10, <2>1, <2>2 DEF IInv
<1>13. CASE ~(ClassOf[s] = NoClass \/ (d = Null /\ Kind[s] # "loop"))
  <2>1. st' = Pass(where', asked, verdict', correction)
    BY <1>1, <1>13
  <2>2. st' \in [Stream -> StreamState]
    BY <1>2, <1>4, <1>10, <2>1, PassType
  <2>3. \A r \in Stream : FineAt(where', st', verdict', r)
    BY <1>2, <1>4, <1>10, <1>11, <2>1, PassFine
  <2> QED
    BY <1>1, <1>2, <1>4, <2>2, <2>3 DEF IInv
<1> QED
  BY <1>12, <1>13

LEMMA RemoveStreamFine ==
  ASSUME IInv, NEW s \in Stream, RemoveStream(s)
  PROVE  IInv'
<1> DEFINE passed == Pass(where', st, verdict', correction)
<1>1. /\ where' = [where EXCEPT ![s] = None] /\ verdict' = [verdict EXCEPT ![s] = None]
      /\ st' = Without(passed, {s}, Absent) /\ correction' = correction
  BY DEF RemoveStream
<1>2. /\ where \in Places /\ st \in [Stream -> StreamState]
      /\ verdict \in [Stream -> Verdict \cup {None}] /\ correction \in Correction
      /\ \A r \in Stream : FineAt(where, st, verdict, r)
  BY DEF IInv
<1>3. /\ where' \in Places /\ verdict' \in [Stream -> Verdict \cup {None}]
      /\ where'[s] = None /\ verdict'[s] = None
      /\ \A r \in Stream \ {s} : where'[r] = where[r] /\ verdict'[r] = verdict[r]
  BY <1>1, <1>2 DEF Places
<1>4. passed \in [Stream -> StreamState]
  BY <1>2, <1>3, PassType
<1>5. ASSUME NEW r \in Stream \ {s} PROVE FineAt(where', passed, verdict', r)
  <2>1. HalfAt(where, st, verdict, r)
    BY <1>2, FineIsHalf
  <2>2. HalfAt(where', st, verdict', r)
    BY <1>3, <2>1 DEF HalfAt, Absence
  <2> QED
    BY <1>2, <1>3, <2>2, PassFine
<1> HIDE DEF passed
<1>6. st' \in [Stream -> StreamState] /\ st'[s] = Absent /\ \A r \in Stream \ {s} : st'[r] = passed[r]
  BY <1>1, <1>4, FreshFields DEF Without
<1>7. ASSUME NEW r \in Stream PROVE FineAt(where', st', verdict', r)
  <2>1. CASE r = s
    <3>1. None \notin Device /\ Mutes(Absent) /\ Absent.target # 0
      BY VolumeConfig DEF Absent, Mutes
    <3> QED
      BY <1>3, <1>6, <2>1, <3>1 DEF FineAt, Absence, LevelAt, Ready
  <2>2. CASE r # s
    BY <1>5, <1>6, <2>2 DEF FineAt, Absence
  <2> QED
    BY <2>1, <2>2
<1> QED
  BY <1>1, <1>2, <1>3, <1>6, <1>7 DEF IInv

LEMMA NotificationFine ==
  ASSUME IInv, Notification
  PROVE  IInv'
<1>1. PICK v \in Verdicts(Known) :
        LET gone == {s \in Known : v[s].req = "KILL" /\ Kind[s] # "loop"}
        IN  /\ verdict' = [s \in Stream |-> IF s \in Known \ gone THEN v[s] ELSE None]
            /\ where' = Without(where, gone, None)
            /\ st' = Pass(where', Enforced(Without(st, gone, Absent), verdict'),
                          verdict', correction)
  BY DEF Notification
<1> DEFINE gone == {s \in Known : v[s].req = "KILL" /\ Kind[s] # "loop"}
           left == Without(st, gone, Absent)
           asked == Enforced(left, verdict')
<1>2. /\ where \in Places /\ st \in [Stream -> StreamState]
      /\ verdict \in [Stream -> Verdict \cup {None}] /\ correction \in Correction
      /\ \A r \in Stream : FineAt(where, st, verdict, r)
  BY DEF IInv
<1>3. \A r \in Known : v[r] \in Verdict /\ v[r] # None
  BY VolumeConfig DEF Verdicts, VerdictsOn
<1>4. \A r \in Stream : verdict'[r] = IF r \in Known \ gone THEN v[r] ELSE None
  BY <1>1
<1>5. verdict' \in [Stream -> Verdict \cup {None}]
  <2>1. verdict' = [s \in Stream |-> IF s \in Known \ gone THEN v[s] ELSE None]
    BY <1>1
  <2> HIDE DEF gone
  <2> QED
    BY <1>3, <2>1
<1>6. /\ where' \in Places
      /\ \A r \in Stream : where'[r] = IF r \in gone THEN None ELSE where[r]
  BY <1>1, <1>2 DEF Without, Places
<1>7. /\ left \in [Stream -> StreamState]
      /\ \A r \in Stream : left[r] = IF r \in gone THEN Absent ELSE st[r]
  BY <1>2, FreshFields DEF Without
<1>8. st' = Pass(where', asked, verdict', correction) /\ correction' = correction
  BY <1>1 DEF Notification
<1> HIDE DEF gone, left
<1>9. ASSUME NEW r \in Stream PROVE BeforeAt(where', left, verdict', r)
  <2>1. FineAt(where, st, verdict, r)
    BY <1>2
  <2>2. CASE r \in gone
    <3>1. where'[r] = None /\ left[r] = Absent /\ verdict'[r] = None
      BY <1>4, <1>6, <1>7, <2>2
    <3>2. Mutes(Absent) /\ Absent.target # 0
      BY VolumeConfig DEF Absent, Mutes
    <3> QED
      BY <3>1, <3>2 DEF BeforeAt, Absence, Ready
  <2>3. CASE r \notin gone
    <3>1. where'[r] = where[r] /\ left[r] = st[r] /\ (verdict'[r] = None <=> verdict[r] = None)
      BY <1>3, <1>4, <1>6, <1>7, <2>3 DEF Known
    <3> QED
      BY <2>1, <3>1 DEF FineAt, LevelAt, BeforeAt, Absence, ObeysAt
  <2> QED
    BY <2>2, <2>3
<1>10. asked \in [Stream -> StreamState]
  BY <1>7, EnforcedType
<1>11. \A r \in Stream : HalfAt(where', asked, verdict', r)
  BY <1>7, <1>9, EnforcedHalf
<1> HIDE DEF asked
<1>12. st' \in [Stream -> StreamState]
  BY <1>2, <1>6, <1>8, <1>10, PassType
<1>13. \A r \in Stream : FineAt(where', st', verdict', r)
  BY <1>2, <1>6, <1>8, <1>10, <1>11, PassFine
<1> QED
  BY <1>2, <1>5, <1>6, <1>8, <1>12, <1>13 DEF IInv

LEMMA ResponseFine ==
  ASSUME IInv, NEW s \in Stream, Response(s)
  PROVE  IInv'
<1>1. PICK seen \in VerdictsOn(s) : verdict' = [verdict EXCEPT ![s] = seen]
  BY DEF Response
<1>2. /\ s \in Living \ Known /\ Kind[s] \in {"resdef", "loop"}
      /\ st' = Enforced(st, verdict') /\ where' = where /\ correction' = correction
  BY DEF Response
<1>3. /\ where \in Places /\ st \in [Stream -> StreamState]
      /\ verdict \in [Stream -> Verdict \cup {None}] /\ correction \in Correction
      /\ \A r \in Stream : FineAt(where, st, verdict, r)
  BY DEF IInv
<1>4. seen \in Verdict
  BY DEF VerdictsOn
<1>5. /\ verdict' \in [Stream -> Verdict \cup {None}]
      /\ \A r \in Stream \ {s} : verdict'[r] = verdict[r]
  BY <1>1, <1>3, <1>4
<1>6. ASSUME NEW r \in Stream PROVE BeforeAt(where', st, verdict', r)
  <2>1. HalfAt(where, st, verdict, r)
    BY <1>3, FineIsHalf
  <2>2. CASE r = s
    <3>1. /\ where[r] # None /\ where'[r] # None /\ verdict[r] = None
          /\ Kind[r] # "free"
      BY <1>2, <2>2 DEF Living, Known
    <3>2. /\ ObeysAt(st[r], None, r) /\ (Audible => Ready(st[r], r))
          /\ Fading => Mutes(st[r])
      BY <2>1, <3>1 DEF HalfAt
    <3>3. Kind[r] # "loop" => ~st[r].corked \/ ~st[r].internal
      BY <3>2 DEF ObeysAt
    <3> QED
      BY <3>1, <3>2, <3>3 DEF BeforeAt, Absence
  <2>3. CASE r # s
    <3>1. verdict'[r] = verdict[r]
      BY <1>5, <2>3
    <3>2. HalfAt(where', st, verdict', r)
      BY <1>2, <2>1, <3>1 DEF HalfAt, Absence
    <3> QED
      BY <3>2, HalfIsBefore
  <2> QED
    BY <2>2, <2>3
<1>7. ASSUME NEW r \in Stream PROVE FineAt(where', st', verdict', r)
  <2>1. HalfAt(where', st', verdict', r) /\ (Fading => st'[r].target = st[r].target)
    BY <1>2, <1>3, <1>6, EnforcedHalf
  <2>2. Audible => LevelAt(where[r], st[r], r)
    BY <1>3 DEF FineAt
  <2> QED
    BY <1>2, <2>1, <2>2 DEF FineAt, HalfAt, LevelAt, Audible
<1>8. st' \in [Stream -> StreamState]
  BY <1>2, <1>3, EnforcedType
<1> QED
  BY <1>2, <1>3, <1>5, <1>7, <1>8 DEF IInv

LEMMA MakeRoutingFine ==
  ASSUME IInv, MakeRouting
  PROVE  IInv'
<1>1. PICK w \in [Living -> Device \cup {Null}] :
        where' = [s \in Stream |-> IF s \in Living THEN w[s] ELSE None]
  BY DEF MakeRouting
<1>2. st' = Pass(where', st, verdict, correction) /\ verdict' = verdict /\ correction' = correction
  BY DEF MakeRouting
<1>3. /\ where \in Places /\ st \in [Stream -> StreamState]
      /\ verdict \in [Stream -> Verdict \cup {None}] /\ correction \in Correction
      /\ \A r \in Stream : FineAt(where, st, verdict, r)
  BY DEF IInv
<1>4. where' \in Places
  BY <1>1 DEF Places
<1>5. ASSUME NEW r \in Stream PROVE HalfAt(where', st, verdict', r)
  <2>1. HalfAt(where, st, verdict, r)
    BY <1>3, FineIsHalf
  <2>2. where'[r] = None <=> where[r] = None
    BY <1>1, VolumeConfig DEF Living
  <2> QED
    BY <1>2, <2>1, <2>2 DEF HalfAt, Absence
<1>6. \A r \in Stream : FineAt(where', st', verdict', r)
  BY <1>2, <1>3, <1>4, <1>5, PassFine
<1>7. st' \in [Stream -> StreamState]
  BY <1>2, <1>3, <1>4, PassType
<1> QED
  BY <1>2, <1>3, <1>4, <1>6, <1>7 DEF IInv

LEMMA MakeLimitingFine ==
  ASSUME IInv, MakeLimiting
  PROVE  IInv'
<1>1. /\ where \in Places /\ st \in [Stream -> StreamState]
      /\ verdict \in [Stream -> Verdict \cup {None}]
      /\ \A r \in Stream : FineAt(where, st, verdict, r)
  BY DEF IInv
<1>2. /\ correction' \in Correction /\ st' = Pass(where, st, verdict, correction')
      /\ where' = where /\ verdict' = verdict
  BY DEF MakeLimiting
<1>3. \A r \in Stream : FineAt(where', st', verdict', r)
  BY <1>1, <1>2, FineIsHalf, PassFine
<1>4. st' \in [Stream -> StreamState]
  BY <1>1, <1>2, PassType
<1> QED
  BY <1>1, <1>2, <1>3, <1>4 DEF IInv

LEMMA UserMuteFine ==
  ASSUME IInv, NEW s \in Stream, UserMute(s)
  PROVE  IInv'
<1>1. /\ where \in Places /\ st \in [Stream -> StreamState] /\ correction \in Correction
      /\ verdict \in [Stream -> Verdict \cup {None}]
      /\ \A r \in Stream : FineAt(where, st, verdict, r)
  BY DEF IInv
<1>2. /\ where[s] # None /\ where' = where /\ verdict' = verdict /\ correction' = correction
      /\ st' = [st EXCEPT ![s] = [st[s] EXCEPT !.muted = ~st[s].muted]]
  BY DEF UserMute
<1> DEFINE y == [st[s] EXCEPT !.muted = ~st[s].muted]
<1>3. /\ y \in StreamState /\ y.internal = st[s].internal /\ y.corked = st[s].corked
      /\ y.target = st[s].target /\ y.factor = st[s].factor
  BY <1>1 DEF StreamState
<1> HIDE DEF y
<1>4. st' \in [Stream -> StreamState] /\ st'[s] = y /\ \A r \in Stream \ {s} : st'[r] = st[r]
  BY <1>1, <1>2, <1>3 DEF y
<1>5. ASSUME NEW r \in Stream PROVE FineAt(where', st', verdict', r)
  <2>1. FineAt(where, st, verdict, r)
    BY <1>1
  <2>2. CASE r = s
    BY <1>2, <1>3, <1>4, <2>1, <2>2 DEF FineAt, Absence, ObeysAt, LevelAt, Ready, Mutes
  <2>3. CASE r # s
    BY <1>2, <1>4, <2>1, <2>3 DEF FineAt, Absence
  <2> QED
    BY <2>2, <2>3
<1> QED
  BY <1>1, <1>2, <1>4, <1>5 DEF IInv

LEMMA Inductive == IInv /\ [Next]_vars => IInv'
<1> SUFFICES ASSUME IInv, [Next]_vars PROVE IInv'
  OBVIOUS
<1>1. ASSUME NEW s \in Stream, NEW d \in Device \cup {Null}, NEW seen \in VerdictsOn(s),
             NewStream(s, d, seen)
      PROVE  IInv'
  BY <1>1, NewStreamFine
<1>2. ASSUME NEW s \in Stream, RemoveStream(s) \/ Response(s) \/ UserMute(s)
      PROVE  IInv'
  BY <1>2, RemoveStreamFine, ResponseFine, UserMuteFine
<1>3. CASE Notification
  BY <1>3, NotificationFine
<1>4. CASE MakeRouting
  BY <1>4, MakeRoutingFine
<1>5. CASE MakeLimiting
  BY <1>5, MakeLimitingFine
<1>6. CASE UNCHANGED vars
  BY <1>6 DEF vars, IInv, FineAt, Absence
<1> QED
  BY <1>1, <1>2, <1>3, <1>4, <1>5, <1>6 DEF Next

LEMMA Invariance == Spec => []IInv
BY InitFine, Inductive, PTL DEF Spec

-----------------------------------------------------------------------------
(* Where the streams are, what is said of them and how loud they play      *)
(* always have their types; what is gone leaves nothing behind.            *)
THEOREM TypeCorrect == Spec => []TypeOK
<1>1. IInv => TypeOK
  BY DEF IInv, TypeOK, Places, FineAt, Absence
<1> QED
  BY <1>1, Invariance, PTL

(* Where the transitions take time, whatever Murphy says and whenever it   *)
(* says it, whatever the user mutes and wherever streams move: one that    *)
(* needs to be allowed is corked or muted by the module unless the last    *)
(* verdict about it is to run.                                             *)
THEOREM UngrantedStaySilent ==
  ASSUME Fading
  PROVE  Spec => []UngrantedSilent
<1>1. IInv => UngrantedSilent
  <2> SUFFICES ASSUME IInv, NEW s \in Living, Kind[s] \in {"resdef", "named"}, ~Silent(s)
               PROVE  s \in Known /\ verdict[s].req = "RUN"
    BY DEF UngrantedSilent
  <2>1. s \in Stream /\ where[s] # None
    BY DEF Living
  <2>2. ObeysAt(st[s], verdict[s], s)
    BY <2>1 DEF IInv, FineAt
  <2>3. ~st[s].corked /\ ~st[s].internal
    BY <2>1 DEF Silent, IInv, FineAt, Mutes
  <2> QED
    BY <2>1, <2>2, <2>3 DEF ObeysAt, Known
<1> QED
  BY <1>1, Invariance, PTL

(* Where the transitions take time and the limits of no class take all     *)
(* there is, a stream that may run is heard on its device unless the user  *)
(* has muted it, however it was blocked and unblocked before.              *)
THEOREM AllowedAreHeard ==
  ASSUME Audible
  PROVE  Spec => []AllowedHeard
<1>1. IInv => AllowedHeard
  <2> SUFFICES ASSUME IInv, NEW s \in Living,
                      where[s] \in Device, ~st[s].muted, Kind[s] # "loop",
                      Kind[s] = "free" \/ (s \in Known /\ verdict[s].req = "RUN")
               PROVE  ~Silent(s)
    BY DEF AllowedHeard
  <2>1. s \in Stream /\ where[s] # None
    BY DEF Living
  <2>2. ObeysAt(st[s], verdict[s], s) /\ LevelAt(where[s], st[s], s)
    BY <2>1, Audible DEF IInv, FineAt
  <2>m. Mutes(st[s])
    BY <2>1, Audible DEF IInv, FineAt, Audible
  <2>3. ~st[s].corked /\ ~st[s].internal
    BY <2>2 DEF ObeysAt, Known
  <2>4. st[s].target # 0 /\ st[s].factor # 0
    BY <2>2, <2>3, <2>m, VolumeConfig DEF LevelAt, Mutes
  <2> QED
    BY <2>3, <2>4 DEF Silent
<1> QED
  BY <1>1, Invariance, PTL

-----------------------------------------------------------------------------
(* What a pass leaves is what is due.                                      *)

Acts(y, v, r) ==
  /\ ClassOf[r] # NoClass /\ ~y[r].muted /\ ~y[r].internal
  /\ Kind[r] \in {"resdef", "named"} => v[r] # None /\ v[r].grant

ActiveOn(w, y, v, d) == {ClassOf[r] : r \in {t \in Stream : w[t] = d /\ Acts(y, v, t)}}

DueOn(w, y, v, k, s) ==
  LET due == Norm - Due[ClassOf[s]][ActiveOn(w, y, v, w[s])]
                  - IF w[s] \in Public THEN k ELSE 0
  IN  IF due > 0 THEN due ELSE 0

Level(y) == IF Fading THEN y.target ELSE y.factor

RightAt(w, y, v, k) ==
  \A s \in Stream : Placed(w, s) => Level(y[s]) = DueOn(w, y, v, k, s)

LEMMA PassRight ==
  ASSUME NEW w \in Places, NEW x \in [Stream -> StreamState], NEW v,
         NEW k \in Correction, NEW y,
         \A s \in Stream : w[s] # None => y[s] = Pass(w, x, v, k)[s]
  PROVE  RightAt(w, y, v, k)
<1> SUFFICES ASSUME NEW s \in Stream, Placed(w, s)
             PROVE  Level(y[s]) = DueOn(w, y, v, k, s)
  BY DEF RightAt
<1> DEFINE d == w[s]
           c == ClassOf[s]
           mask == Mask(w, x, v, d)
<1>1. d \in Device /\ c \in Class /\ d # None /\ mask \in SUBSET Class
  BY VolumeConfig, MaskType DEF Placed
<1>2. mask = ActiveOn(w, y, v, d)
  <2>1. ASSUME NEW t \in Stream, w[t] = d
        PROVE  Acts(y, v, t) <=> /\ ClassOf[t] # NoClass /\ Granted(v, t)
                                 /\ ~x[t].muted /\ ~x[t].internal
    <3>1. y[t].muted = x[t].muted /\ y[t].internal = x[t].internal
      BY <1>1, <2>1, PassFields DEF SameFlags
    <3>2. Kind[t] \in {"free", "resdef", "named", "loop"}
      BY VolumeConfig
    <3> QED
      BY <3>1, <3>2 DEF Acts, Granted
  <2> HIDE DEF d
  <2> QED
    BY <2>1 DEF Mask, ActiveOn
<1>3. Level(y[s]) = Limit(d, c, mask, k)
  <2>1. y[s] = Pass(w, x, v, k)[s]
    BY <1>1
  <2>2. VolumeSet(Pass(w, x, v, k)[s], x[s], Limit(d, c, mask, k))
    BY PassFields
  <2> HIDE DEF mask
  <2> QED
    BY <2>1, <2>2, VolumeConfig DEF Level, VolumeSet
<1>4. ClassLimit[c][mask] = Due[c][mask]
  <2> HIDE DEF mask, c
  <2> QED
    BY <1>1, ClassLimitIsDue
<1> QED
  BY <1>2, <1>3, <1>4 DEF DueOn, Limit, Corrected

LEMMA RightAfter ==
  ASSUME RightAt(where', st', verdict', correction')
  PROVE  LimitsRight'
<1>1. \A s \in Stream :
        Placed(where', s) =>
          {ClassOf[r] : r \in {t \in Stream :
             /\ where'[t] = where'[s]
             /\ ClassOf[t] # NoClass /\ ~st'[t].muted /\ ~st'[t].internal
             /\ Kind[t] \in {"resdef", "named"} => t \in Known' /\ verdict'[t].grant}}
          = ActiveOn(where', st', verdict', where'[s])
  BY DEF ActiveOn, Acts, Known
<1> QED
  BY <1>1 DEF RightAt, LimitsRight, Placed, DueOn, Level

(* Every step that makes a pass leaves what is due on every device; the    *)
(* steps that make none are the exceptions the property names.             *)
LEMMA StepRight ==
  ASSUME IInv, IInv', Next
  PROVE  \/ LimitsRight'
         \/ \E s \in Stream : UserMute(s) \/ Response(s)
         \/ \E s \in Stream : /\ where[s] = None /\ where'[s] # None
                              /\ ClassOf[s] = NoClass \/ where'[s] = Null
<1>1. /\ where \in Places /\ st \in [Stream -> StreamState] /\ correction \in Correction
      /\ where' \in Places /\ correction' \in Correction
  BY DEF IInv
<1>2. ASSUME NEW s \in Stream, NEW d \in Device \cup {Null}, NEW seen \in VerdictsOn(s),
             NewStream(s, d, seen), ClassOf[s] # NoClass, where'[s] # Null
      PROVE  LimitsRight'
  <2> DEFINE new == [st EXCEPT ![s] = Fresh(s)]
             asked == IF Kind[s] = "named" THEN Enforced(new, verdict') ELSE new
  <2>1. d # Null
    BY <1>1, <1>2 DEF NewStream, Places
  <2>2. st' = Pass(where', asked, verdict', correction') /\ correction' = correction
    BY <1>2, <2>1 DEF NewStream
  <2>3. asked \in [Stream -> StreamState]
    <3>1. new \in [Stream -> StreamState]
      BY <1>1, FreshFields
    <3> HIDE DEF new
    <3> QED
      BY <3>1, EnforcedType
  <2> HIDE DEF asked
  <2> QED
    BY <1>1, <2>2, <2>3, PassRight, RightAfter
<1>3. ASSUME NEW s \in Stream, RemoveStream(s)
      PROVE  LimitsRight'
  <2>1. /\ where' = [where EXCEPT ![s] = None] /\ correction' = correction
        /\ st' = Without(Pass(where', st, verdict', correction'), {s}, Absent)
    BY <1>3 DEF RemoveStream
  <2>2. ASSUME NEW r \in Stream, where'[r] # None
        PROVE  st'[r] = Pass(where', st, verdict', correction')[r]
    BY <1>1, <2>1, <2>2 DEF Without, Places
  <2> QED
    BY <1>1, <2>2, PassRight, RightAfter
<1>4. ASSUME Notification PROVE LimitsRight'
  <2>1. PICK v \in Verdicts(Known) :
          LET gone == {s \in Known : v[s].req = "KILL" /\ Kind[s] # "loop"}
          IN  st' = Pass(where', Enforced(Without(st, gone, Absent), verdict'), verdict', correction)
    BY <1>4 DEF Notification
  <2> DEFINE gone == {s \in Known : v[s].req = "KILL" /\ Kind[s] # "loop"}
             asked == Enforced(Without(st, gone, Absent), verdict')
  <2>2. Without(st, gone, Absent) \in [Stream -> StreamState]
    BY <1>1, FreshFields DEF Without
  <2>3. asked \in [Stream -> StreamState]
    BY <2>2, EnforcedType
  <2>4. st' = Pass(where', asked, verdict', correction')
    BY <1>4, <2>1 DEF Notification
  <2> HIDE DEF asked
  <2> QED
    BY <1>1, <2>3, <2>4, PassRight, RightAfter
<1>5. ASSUME MakeRouting PROVE LimitsRight'
  <2>1. st' = Pass(where', st, verdict', correction')
    BY <1>5 DEF MakeRouting
  <2> QED
    BY <1>1, <2>1, PassRight, RightAfter
<1>6. ASSUME MakeLimiting PROVE LimitsRight'
  <2>1. st' = Pass(where', st, verdict', correction')
    BY <1>6 DEF MakeLimiting
  <2> QED
    BY <1>1, <2>1, PassRight, RightAfter
<1> DEFINE Excepted == \E r \in Stream : /\ where[r] = None /\ where'[r] # None
                                         /\ ClassOf[r] = NoClass \/ where'[r] = Null
<1>7. ASSUME NEW s \in Stream, NEW d \in Device \cup {Null}, NEW seen \in VerdictsOn(s),
             NewStream(s, d, seen), ClassOf[s] = NoClass \/ where'[s] = Null
      PROVE  Excepted
  <2>1. where[s] = None /\ where'[s] = d
    BY <1>1, <1>7 DEF NewStream, Places
  <2>2. d # None
    BY VolumeConfig
  <2> QED
    BY <1>7, <2>1, <2>2
<1>8. ASSUME NEW s \in Stream, NEW d \in Device \cup {Null}, NEW seen \in VerdictsOn(s),
             NewStream(s, d, seen)
      PROVE  LimitsRight' \/ Excepted
  <2>1. CASE ClassOf[s] # NoClass /\ where'[s] # Null
    BY <1>2, <1>8, <2>1
  <2>2. CASE ~(ClassOf[s] # NoClass /\ where'[s] # Null)
    <3> HIDE DEF Excepted
    <3> QED
      BY <1>7, <1>8, <2>2
  <2> QED
    BY <2>1, <2>2
<1> HIDE DEF Excepted
<1> DEFINE Seen == \E s \in Stream, d \in Device \cup {Null} : \E seen \in VerdictsOn(s) :
                     NewStream(s, d, seen)
<1>9. Seen => LimitsRight' \/ Excepted
  BY <1>8
<1> DEFINE Late == \E s \in Stream : UserMute(s) \/ Response(s)
<1>10. (\E s \in Stream : RemoveStream(s) \/ Response(s) \/ UserMute(s)) => LimitsRight' \/ Late
  BY <1>3
<1>11. Seen \/ (\E s \in Stream : RemoveStream(s) \/ Response(s) \/ UserMute(s))
       \/ Notification \/ MakeRouting \/ MakeLimiting
  BY DEF Next
<1> HIDE DEF Seen, Excepted, Late
<1>12. LimitsRight' \/ Late \/ Excepted
  BY <1>4, <1>5, <1>6, <1>9, <1>10, <1>11
<1> QED
  BY <1>12 DEF Excepted, Late

(* Whatever happens, and however far an earlier pass was behind: after     *)
(* each thing the module does, unless it is one of the exceptions, what is *)
(* set on every device is exactly what the limits say for the classes that *)
(* are active there.                                                       *)
THEOREM LimitsAreApplied == Spec => LimitsApplied
<1>1. IInv /\ IInv' /\ [Next]_vars =>
        [\/ LimitsRight'
         \/ \E s \in Stream : UserMute(s) \/ Response(s)
         \/ \E s \in Stream : /\ where[s] = None /\ where'[s] # None
                              /\ ClassOf[s] = NoClass \/ where'[s] = Null]_vars
  BY StepRight
<1> QED
  BY <1>1, Invariance, PTL DEF Spec, LimitsApplied

=============================================================================
