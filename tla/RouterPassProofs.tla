-------------------------- MODULE RouterPassProofs --------------------------
(***************************************************************************)
(* What routing passes and the handlers between them come to, on top of    *)
(* RouterProofs.  No endpoint is passed over without reason (BestRoute):   *)
(* the priority lists stay ordered whatever is inserted and removed, and   *)
(* one pass over them gives every stream the best endpoint that more       *)
(* important streams leave open.  Routes are implemented                   *)
(* (RoutesImplemented): what a switch attaches and detaches, and that only *)
(* a conflicting route could undo it.  Explicit routes are honoured        *)
(* (ExplicitRouteHonoured): the stamps keep them from the default routes.  *)
(***************************************************************************)
EXTENDS RouterProofs

USE DEF vars, nodeVars, switchVars, passVars

-----------------------------------------------------------------------------
(* Priority lists.                                                         *)

LEMMA ListAt ==
  ASSUME NEW T, NEW list \in Seq(T)
  PROVE  /\ Len(list) \in Nat /\ DOMAIN list = 1 .. Len(list)
         /\ \A j \in 1 .. Len(list) : list[j] \in T
OBVIOUS

LEMMA ConcatAt ==
  ASSUME NEW T, NEW a \in Seq(T), NEW b \in Seq(T)
  PROVE  /\ a \o b \in Seq(T) /\ DOMAIN (a \o b) = 1 .. Len(a) + Len(b)
         /\ \A j \in 1 .. Len(a) + Len(b) :
              (a \o b)[j] = IF j <= Len(a) THEN a[j] ELSE b[j - Len(a)]
BY ConcatProperties, a \o b \in Seq(T), Len(a \o b) = Len(a) + Len(b)

LEMMA PieceAt ==
  ASSUME NEW T, NEW list \in Seq(T), NEW m \in 1 .. Len(list) + 1, NEW n \in 0 .. Len(list),
         m <= n + 1
  PROVE  /\ SubSeq(list, m, n) \in Seq(T) /\ Len(SubSeq(list, m, n)) = n - m + 1
         /\ \A j \in 1 .. n - m + 1 : SubSeq(list, m, n)[j] = list[m + j - 1]
<1>1. \A j \in m .. n : list[j] \in T
  BY ListAt
<1>2. m \in Int /\ n \in Int
  OBVIOUS
<1>3. /\ SubSeq(list, m, n) \in Seq(T)
      /\ Len(SubSeq(list, m, n)) = IF m <= n THEN n - m + 1 ELSE 0
      /\ \A j \in 1 .. n - m + 1 : SubSeq(list, m, n)[j] = list[m + j - 1]
  BY <1>1, <1>2, SubSeqProperties
<1> QED
  BY <1>2, <1>3

(* What stands where after an insertion.                                   *)
LEMMA InsertAtAt ==
  ASSUME NEW T, NEW list \in Seq(T), NEW k \in DOMAIN list, NEW x \in T
  PROVE  /\ DOMAIN InsertAt(list, k, x) = 1 .. Len(list) + 1
         /\ \A j \in 1 .. Len(list) + 1 :
              InsertAt(list, k, x)[j] = IF j < k THEN list[j]
                                        ELSE IF j = k THEN x ELSE list[j - 1]
<1> DEFINE before == SubSeq(list, 1, k - 1)
           after == SubSeq(list, k, Len(list))
           front == before \o <<x>>
<1>1. Len(list) \in Nat /\ DOMAIN list = 1 .. Len(list) /\ k \in 1 .. Len(list)
  BY ListAt
<1>2. /\ before \in Seq(T) /\ Len(before) = k - 1
      /\ \A j \in 1 .. k - 1 : before[j] = list[j]
  <2>1. /\ before \in Seq(T) /\ Len(before) = (k - 1) - 1 + 1
        /\ \A j \in 1 .. (k - 1) - 1 + 1 : before[j] = list[1 + j - 1]
    BY <1>1, PieceAt
  <2> HIDE DEF before
  <2> QED
    BY <1>1, <2>1
<1>3. /\ after \in Seq(T) /\ Len(after) = Len(list) - k + 1
      /\ \A j \in 1 .. Len(list) - k + 1 : after[j] = list[k + j - 1]
  BY <1>1, PieceAt
<1>4. InsertAt(list, k, x) = front \o after
  BY DEF InsertAt
<1> HIDE DEF before, after
<1>5. <<x>> \in Seq(T) /\ Len(<<x>>) = 1 /\ <<x>>[1] = x
  OBVIOUS
<1>6. /\ front \in Seq(T) /\ DOMAIN front = 1 .. (k - 1) + 1
      /\ \A j \in 1 .. (k - 1) + 1 :
           front[j] = IF j <= k - 1 THEN before[j] ELSE <<x>>[j - (k - 1)]
  <2>1. /\ before \o <<x>> \in Seq(T) /\ DOMAIN (before \o <<x>>) = 1 .. Len(before) + Len(<<x>>)
        /\ \A j \in 1 .. Len(before) + Len(<<x>>) :
             (before \o <<x>>)[j] = IF j <= Len(before) THEN before[j]
                                   ELSE <<x>>[j - Len(before)]
    BY <1>2, <1>5, ConcatAt
  <2>2. Len(before) = k - 1 /\ Len(<<x>>) = 1
    BY <1>2, <1>5
  <2> QED
    BY <2>1, <2>2
<1> HIDE DEF front
<1>7. Len(front) = k /\ \A j \in 1 .. k : front[j] = IF j < k THEN list[j] ELSE x
  <2>1. (k - 1) + 1 = k
    BY <1>1
  <2>2. Len(front) = k
    BY <1>1, <1>6, <2>1, ListAt
  <2>3. ASSUME NEW j \in 1 .. k PROVE front[j] = IF j < k THEN list[j] ELSE x
    <3>1. CASE j < k
      BY <1>1, <1>2, <1>6, <2>1, <3>1
    <3>2. CASE j = k
      BY <1>1, <1>5, <1>6, <2>1, <3>2
    <3> QED
      BY <1>1, <3>1, <3>2
  <2> QED
    BY <2>2, <2>3
<1>8. /\ DOMAIN (front \o after) = 1 .. k + (Len(list) - k + 1)
      /\ \A j \in 1 .. k + (Len(list) - k + 1) :
           (front \o after)[j] = IF j <= k THEN front[j] ELSE after[j - k]
  <2>1. /\ DOMAIN (front \o after) = 1 .. Len(front) + Len(after)
        /\ \A j \in 1 .. Len(front) + Len(after) :
             (front \o after)[j] = IF j <= Len(front) THEN front[j] ELSE after[j - Len(front)]
    <3>1. front \in Seq(T) /\ after \in Seq(T)
      BY <1>3, <1>6
    <3> QED
      BY <3>1, ConcatAt
  <2>2. Len(front) = k /\ Len(after) = Len(list) - k + 1
    BY <1>3, <1>7
  <2> QED
    BY <2>1, <2>2
<1>9. k + (Len(list) - k + 1) = Len(list) + 1
  BY <1>1
<1>10. ASSUME NEW j \in 1 .. Len(list) + 1
       PROVE  (front \o after)[j] = IF j < k THEN list[j] ELSE IF j = k THEN x ELSE list[j - 1]
  <2>1. CASE j <= k
    BY <1>1, <1>7, <1>8, <1>9, <2>1
  <2>2. CASE k < j
    <3>1. /\ j - k \in 1 .. Len(list) - k + 1 /\ k + (j - k) - 1 = j - 1
          /\ j \in 1 .. k + (Len(list) - k + 1) /\ ~(j <= k) /\ ~(j < k) /\ j # k
      BY <1>1, <2>2
    <3>2. (front \o after)[j] = after[j - k]
      BY <1>8, <3>1
    <3>3. after[j - k] = list[j - 1]
      BY <1>3, <3>1
    <3> QED
      BY <3>1, <3>2, <3>3
  <2>3. j <= k \/ k < j
    BY <1>1
  <2> QED
    BY <2>1, <2>2, <2>3
<1> QED
  BY <1>4, <1>8, <1>9, <1>10

(* What stands where after a removal.                                      *)
LEMMA RemoveAtAt ==
  ASSUME NEW T, NEW list \in Seq(T), NEW k \in DOMAIN list
  PROVE  /\ DOMAIN RemoveAt(list, k) = 1 .. Len(list) - 1
         /\ \A j \in 1 .. Len(list) - 1 :
              RemoveAt(list, k)[j] = IF j < k THEN list[j] ELSE list[j + 1]
<1> DEFINE before == SubSeq(list, 1, k - 1)
           after == SubSeq(list, k + 1, Len(list))
<1>1. Len(list) \in Nat /\ DOMAIN list = 1 .. Len(list) /\ k \in 1 .. Len(list)
  BY ListAt
<1>2. /\ before \in Seq(T) /\ Len(before) = k - 1
      /\ \A j \in 1 .. k - 1 : before[j] = list[j]
  <2>1. /\ before \in Seq(T) /\ Len(before) = (k - 1) - 1 + 1
        /\ \A j \in 1 .. (k - 1) - 1 + 1 : before[j] = list[1 + j - 1]
    BY <1>1, PieceAt
  <2> HIDE DEF before
  <2> QED
    BY <1>1, <2>1
<1>3. /\ after \in Seq(T) /\ Len(after) = Len(list) - k
      /\ \A j \in 1 .. Len(list) - k : after[j] = list[k + j]
  <2>1. /\ after \in Seq(T) /\ Len(after) = Len(list) - (k + 1) + 1
        /\ \A j \in 1 .. Len(list) - (k + 1) + 1 : after[j] = list[k + 1 + j - 1]
    BY <1>1, PieceAt
  <2> HIDE DEF after
  <2> QED
    BY <1>1, <2>1
<1>4. RemoveAt(list, k) = before \o after
  BY DEF RemoveAt
<1> HIDE DEF before, after
<1>5. /\ DOMAIN (before \o after) = 1 .. (k - 1) + (Len(list) - k)
      /\ \A j \in 1 .. (k - 1) + (Len(list) - k) :
           (before \o after)[j] = IF j <= k - 1 THEN before[j] ELSE after[j - (k - 1)]
  BY <1>2, <1>3, ConcatAt
<1>6. (k - 1) + (Len(list) - k) = Len(list) - 1
  BY <1>1
<1>7. ASSUME NEW j \in 1 .. Len(list) - 1
      PROVE  (before \o after)[j] = IF j < k THEN list[j] ELSE list[j + 1]
  <2>1. CASE j < k
    BY <1>1, <1>2, <1>5, <1>6, <2>1
  <2>2. CASE k <= j
    <3>1. /\ j - (k - 1) \in 1 .. Len(list) - k /\ k + (j - (k - 1)) = j + 1
          /\ j \in 1 .. (k - 1) + (Len(list) - k) /\ ~(j <= k - 1) /\ ~(j < k)
      BY <1>1, <2>2
    <3>2. (before \o after)[j] = after[j - (k - 1)]
      BY <1>5, <3>1
    <3>3. after[j - (k - 1)] = list[j + 1]
      BY <1>3, <3>1
    <3> QED
      BY <3>1, <3>2, <3>3
  <2>3. j < k \/ k <= j
    BY <1>1
  <2> QED
    BY <2>1, <2>2, <2>3
<1> QED
  BY <1>4, <1>5, <1>6, <1>7

(* A list without repetition in which nothing stands above what ranks      *)
(* higher.                                                                 *)
Ordered(list, rank) ==
  \A j, k \in DOMAIN list : j < k => list[j] # list[k] /\ rank[list[j]] <= rank[list[k]]

LEMMA EmptyOrdered == ASSUME NEW rank PROVE Ordered(<<>>, rank) /\ ToSet(<<>>) = {}
BY DEF Ordered, ToSet

LEMMA InsertAtOrdered ==
  ASSUME NEW T, NEW list \in Seq(T), NEW x \in T, NEW rank, rank \in [T -> Int],
         Ordered(list, rank), x \notin ToSet(list), NEW k \in DOMAIN list,
         rank[x] < rank[list[k]], \A j \in DOMAIN list : j < k => ~(rank[x] < rank[list[j]])
  PROVE  /\ Ordered(InsertAt(list, k, x), rank)
         /\ ToSet(InsertAt(list, k, x)) = ToSet(list) \cup {x}
<1> DEFINE new == InsertAt(list, k, x)
<1>1. Len(list) \in Nat /\ DOMAIN list = 1 .. Len(list) /\ k \in 1 .. Len(list)
  BY ListAt
<1>2. /\ DOMAIN new = 1 .. Len(list) + 1
      /\ \A j \in 1 .. Len(list) + 1 :
           new[j] = IF j < k THEN list[j] ELSE IF j = k THEN x ELSE list[j - 1]
  BY InsertAtAt
<1> HIDE DEF new
<1>3. \A j \in 1 .. Len(list) : list[j] \in T /\ list[j] # x
  BY <1>1, ListAt DEF ToSet
<1>4. ASSUME NEW y \in T PROVE rank[y] \in Int
  OBVIOUS
<1>5. ASSUME NEW j \in 1 .. Len(list) + 1, NEW l \in 1 .. Len(list) + 1, j < l
      PROVE  new[j] # new[l] /\ rank[new[j]] <= rank[new[l]]
  <2>1. CASE l < k
    <3>1. j \in DOMAIN list /\ l \in DOMAIN list /\ new[j] = list[j] /\ new[l] = list[l]
      BY <1>1, <1>2, <1>5, <2>1
    <3> QED
      BY <1>5, <3>1 DEF Ordered
  <2>2. CASE l = k
    <3>1. j \in DOMAIN list /\ j < k /\ new[j] = list[j] /\ new[l] = x
      BY <1>1, <1>2, <1>5, <2>2
    <3>2. rank[list[j]] \in Int /\ rank[x] \in Int /\ ~(rank[x] < rank[list[j]])
      BY <1>1, <1>3, <1>4, <3>1
    <3> QED
      BY <1>1, <1>3, <3>1, <3>2
  <2>3. CASE k < l /\ j = k
    <3>1. l - 1 \in DOMAIN list /\ k <= l - 1 /\ new[j] = x /\ new[l] = list[l - 1]
      BY <1>1, <1>2, <1>5, <2>3
    <3>2. /\ rank[list[k]] \in Int /\ rank[x] \in Int /\ rank[list[l - 1]] \in Int
          /\ list[l - 1] # x
      BY <1>1, <1>3, <1>4, <3>1
    <3>3. rank[list[k]] <= rank[list[l - 1]]
      <4>1. CASE k = l - 1
        BY <3>2, <4>1
      <4>2. CASE k < l - 1
        BY <3>1, <4>2 DEF Ordered
      <4> QED
        BY <1>1, <3>1, <4>1, <4>2
    <3> QED
      BY <3>1, <3>2, <3>3
  <2>4. CASE k < l /\ j < k
    <3>1. /\ l - 1 \in DOMAIN list /\ j \in DOMAIN list /\ j < l - 1
          /\ new[j] = list[j] /\ new[l] = list[l - 1]
      BY <1>1, <1>2, <1>5, <2>4
    <3> QED
      BY <3>1 DEF Ordered
  <2>5. CASE k < l /\ k < j
    <3>1. /\ l - 1 \in DOMAIN list /\ j - 1 \in DOMAIN list /\ j - 1 < l - 1
          /\ new[j] = list[j - 1] /\ new[l] = list[l - 1]
      BY <1>1, <1>2, <1>5, <2>5
    <3> QED
      BY <3>1 DEF Ordered
  <2> QED
    BY <1>1, <2>1, <2>2, <2>3, <2>4, <2>5
<1>6. Ordered(new, rank)
  BY <1>2, <1>5 DEF Ordered
<1>7. ToSet(new) \subseteq ToSet(list) \cup {x}
  <2> SUFFICES ASSUME NEW j \in 1 .. Len(list) + 1 PROVE new[j] \in ToSet(list) \cup {x}
    BY <1>2 DEF ToSet
  <2>1. j < k => j \in DOMAIN list
    BY <1>1
  <2>2. k < j => j - 1 \in DOMAIN list
    BY <1>1
  <2> QED
    BY <1>1, <1>2, <2>1, <2>2 DEF ToSet
<1>8. ToSet(list) \cup {x} \subseteq ToSet(new)
  <2>1. k \in DOMAIN new /\ new[k] = x
    BY <1>1, <1>2
  <2>2. ASSUME NEW j \in DOMAIN list PROVE \E l \in DOMAIN new : new[l] = list[j]
    <3>1. CASE j < k
      <4>1. j \in DOMAIN new /\ new[j] = list[j]
        BY <1>1, <1>2, <3>1
      <4> QED
        BY <4>1
    <3>2. CASE k <= j
      <4>1. j + 1 \in DOMAIN new /\ new[j + 1] = list[(j + 1) - 1] /\ (j + 1) - 1 = j
        BY <1>1, <1>2, <3>2
      <4> QED
        BY <4>1
    <3> QED
      BY <1>1, <3>1, <3>2
  <2> QED
    BY <2>1, <2>2 DEF ToSet
<1> QED
  BY <1>6, <1>7, <1>8 DEF new

LEMMA AppendOrdered ==
  ASSUME NEW T, NEW list \in Seq(T), NEW x \in T, NEW rank, rank \in [T -> Int],
         Ordered(list, rank), x \notin ToSet(list),
         \A j \in DOMAIN list : ~(rank[x] < rank[list[j]])
  PROVE  /\ Ordered(Append(list, x), rank)
         /\ ToSet(Append(list, x)) = ToSet(list) \cup {x}
<1> DEFINE new == Append(list, x)
<1>1. Len(list) \in Nat /\ DOMAIN list = 1 .. Len(list)
      /\ \A j \in 1 .. Len(list) : list[j] \in T
  BY ListAt
<1>2. /\ DOMAIN new = 1 .. Len(list) + 1 /\ new[Len(list) + 1] = x
      /\ \A j \in 1 .. Len(list) : new[j] = list[j]
  OBVIOUS
<1> HIDE DEF new
<1>3. ASSUME NEW y \in T PROVE rank[y] \in Int
  OBVIOUS
<1>4. ASSUME NEW j \in DOMAIN list
      PROVE  list[j] # x /\ rank[list[j]] <= rank[x]
  <2>1. rank[list[j]] \in Int /\ rank[x] \in Int
    BY <1>1, <1>3
  <2> QED
    BY <2>1 DEF ToSet
<1>5. ASSUME NEW j \in DOMAIN new, NEW l \in DOMAIN new, j < l
      PROVE  new[j] # new[l] /\ rank[new[j]] <= rank[new[l]]
  <2>1. j \in DOMAIN list /\ new[j] = list[j]
    BY <1>1, <1>2, <1>5
  <2>2. CASE l \in DOMAIN list
    BY <1>1, <1>2, <1>5, <2>1, <2>2 DEF Ordered
  <2>3. CASE l = Len(list) + 1
    BY <1>2, <1>4, <2>1, <2>3
  <2> QED
    BY <1>1, <1>2, <2>2, <2>3
<1>6. ToSet(new) = ToSet(list) \cup {x}
  <2>1. Len(list) + 1 \in DOMAIN new /\ DOMAIN list \subseteq DOMAIN new
    BY <1>1, <1>2
  <2>2. \A j \in DOMAIN new : j \in DOMAIN list \/ j = Len(list) + 1
    BY <1>1, <1>2
  <2> QED
    BY <1>1, <1>2, <2>1, <2>2 DEF ToSet
<1> QED
  BY <1>5, <1>6 DEF Ordered, new

(* MIR_DLIST_INSERT_BEFORE in front of the first element that ranks higher *)
(* keeps the list ordered.                                                 *)
LEMMA InsertByRankOrdered ==
  ASSUME NEW T, NEW list \in Seq(T), NEW x \in T, NEW rank, rank \in [T -> Int],
         Ordered(list, rank), x \notin ToSet(list)
  PROVE  /\ Ordered(InsertByRank(list, x, rank), rank)
         /\ ToSet(InsertByRank(list, x, rank)) = ToSet(list) \cup {x}
<1> DEFINE Above == {k \in DOMAIN list : rank[x] < rank[list[k]]}
           k == CHOOSE j \in Above : \A l \in Above : j <= l
<1>1. CASE Above = {}
  <2>1. InsertByRank(list, x, rank) = Append(list, x)
    BY <1>1 DEF InsertByRank
  <2>2. \A j \in DOMAIN list : ~(rank[x] < rank[list[j]])
    BY <1>1
  <2> QED
    BY <2>1, <2>2, AppendOrdered
<1>2. CASE Above # {}
  <2>1. k \in Above /\ \A l \in Above : k <= l
    BY <1>2, LeastNat, Above \subseteq Nat
  <2>2. InsertByRank(list, x, rank) = InsertAt(list, k, x)
    BY <1>2 DEF InsertByRank
  <2> HIDE DEF k
  <2>3. k \in DOMAIN list /\ rank[x] < rank[list[k]]
    BY <2>1
  <2>4. \A j \in DOMAIN list : j < k => ~(rank[x] < rank[list[j]])
    <3> SUFFICES ASSUME NEW j \in DOMAIN list, j < k, rank[x] < rank[list[j]] PROVE FALSE
      OBVIOUS
    <3>1. k <= j
      BY <2>1
    <3> QED
      BY <2>3, <3>1, ListAt
  <2> QED
    BY <2>2, <2>3, <2>4, InsertAtOrdered
<1> QED
  BY <1>1, <1>2

LEMMA UnlinkOrdered ==
  ASSUME NEW T, NEW list \in Seq(T), NEW x, NEW rank, Ordered(list, rank)
  PROVE  /\ Ordered(Unlink(list, x), rank)
         /\ ToSet(Unlink(list, x)) = ToSet(list) \ {x}
<1>1. CASE x \notin ToSet(list)
  BY <1>1 DEF Unlink
<1>2. CASE x \in ToSet(list)
  <2> DEFINE k == CHOOSE j \in DOMAIN list : list[j] = x
             new == RemoveAt(list, k)
  <2>1. k \in DOMAIN list /\ list[k] = x
    BY <1>2 DEF ToSet
  <2>2. Unlink(list, x) = new
    BY <1>2 DEF Unlink
  <2> HIDE DEF k
  <2>3. Len(list) \in Nat /\ DOMAIN list = 1 .. Len(list) /\ k \in 1 .. Len(list)
    BY <2>1, ListAt
  <2>4. /\ DOMAIN new = 1 .. Len(list) - 1
        /\ \A j \in 1 .. Len(list) - 1 : new[j] = IF j < k THEN list[j] ELSE list[j + 1]
    BY <2>1, RemoveAtAt
  <2> HIDE DEF new
  <2>5. ASSUME NEW j \in DOMAIN new
        PROVE  \E l \in DOMAIN list : l # k /\ new[j] = list[l] /\ l = IF j < k THEN j ELSE j + 1
    <3>1. CASE j < k
      <4>1. j \in DOMAIN list /\ j # k /\ new[j] = list[j]
        BY <2>3, <2>4, <3>1
      <4> QED
        BY <3>1, <4>1
    <3>2. CASE k <= j
      <4>1. j + 1 \in DOMAIN list /\ j + 1 # k /\ new[j] = list[j + 1] /\ ~(j < k)
        BY <2>3, <2>4, <3>2
      <4> QED
        BY <4>1
    <3> QED
      BY <2>3, <2>4, <3>1, <3>2
  <2>6. Ordered(new, rank)
    <3> SUFFICES ASSUME NEW j \in DOMAIN new, NEW l \in DOMAIN new, j < l
                 PROVE  new[j] # new[l] /\ rank[new[j]] <= rank[new[l]]
      BY DEF Ordered
    <3>1. PICK a \in DOMAIN list : new[j] = list[a] /\ a = IF j < k THEN j ELSE j + 1
      BY <2>5
    <3>2. PICK b \in DOMAIN list : new[l] = list[b] /\ b = IF l < k THEN l ELSE l + 1
      BY <2>5
    <3>3. a < b
      BY <2>3, <2>4, <3>1, <3>2
    <3> QED
      BY <3>1, <3>2, <3>3 DEF Ordered
  <2>7. ToSet(new) \subseteq ToSet(list) \ {x}
    <3> SUFFICES ASSUME NEW j \in DOMAIN new PROVE new[j] \in ToSet(list) /\ new[j] # x
      BY DEF ToSet
    <3>1. PICK l \in DOMAIN list : l # k /\ new[j] = list[l]
      BY <2>5
    <3>2. list[l] # list[k]
      BY <2>1, <2>3, <3>1 DEF Ordered
    <3> QED
      BY <2>1, <3>1, <3>2 DEF ToSet
  <2>8. ToSet(list) \ {x} \subseteq ToSet(new)
    <3> SUFFICES ASSUME NEW l \in DOMAIN list, list[l] # x
                 PROVE  \E j \in DOMAIN new : new[j] = list[l]
      BY DEF ToSet
    <3>1. CASE l < k
      <4>1. l \in DOMAIN new /\ new[l] = list[l]
        BY <2>3, <2>4, <3>1
      <4> QED
        BY <4>1
    <3>2. CASE k < l
      <4>1. l - 1 \in DOMAIN new /\ new[l - 1] = list[(l - 1) + 1] /\ (l - 1) + 1 = l
        BY <2>3, <2>4, <3>2
      <4> QED
        BY <4>1
    <3> QED
      BY <2>1, <2>3, <3>1, <3>2
  <2> QED
    BY <2>2, <2>6, <2>7, <2>8
<1> QED
  BY <1>1, <1>2

-----------------------------------------------------------------------------
(* The inductive invariant.                                                *)

(* The lists hold what they should, each element once and in order.  Only  *)
(* streams and gateways are on the node list, every gateway with a         *)
(* loopback is.                                                            *)
ListsRight ==
  /\ \A g \in RtGroup : /\ Ordered(entries[g], Rank[g])
                        /\ ToSet(entries[g]) = Accept[g] \cap registered
  /\ Ordered(nodlist, Prio)
  /\ ToSet(nodlist) \cap Recorder = {}
  /\ looped \subseteq ToSet(nodlist)

(* Nodes of profiles are available as long as they exist; a stream on the  *)
(* node list plays somewhere; no connection is blocked.                    *)
NodesRight ==
  /\ \A d \in registered : UnitOf[d] \in ProfileUnit => d \in available
  /\ \A s \in Stream \cap ToSet(nodlist) : at[s] # None
  /\ \A k \in DOMAIN connlist : connlist[k].blocked = FALSE

(* What is prerouted is not routed by the walk too, and only explicit      *)
(* routes are stamped.                                                     *)
DataRight ==
  /\ phase \in {"idle", "plug", "unplug"} => data = None
  /\ phase = "explicit" => done = FALSE
  /\ data \in ToSet(nodlist) => Skipped(data)
  /\ data \in Gateway => data \in ToSet(nodlist)
  /\ \A s \in Stream : target[s] # None => s \in ToSet(nodlist) \/ s = data
  /\ phase \in {"explicit", "data", "start"} => \A s \in stamped : Explicit(s)

(* The conclusion of Ranked for s.                                        *)
Best(s) ==
  GroupOf[s] # None =>
    \A d \in Accept[GroupOf[s]] \cap registered :
      Candidate(d) =>
        \/ Outranked(s, d)
        \/ target[s] # None /\ Rank[GroupOf[s]][d] <= Rank[GroupOf[s]][target[s]]

(* A blocked entry has a rival that is the target of a default route.      *)
Blockers ==
  \A d \in marked \cap blocked : \E t \in Start : target[t] # None /\ Conflict(target[t], d)

(* Only what the walk has passed, and the stream that is prerouted, have   *)
(* default routes.                                                         *)
Routed ==
  \A t \in Start : target[t] # None =>
    \/ t = data /\ done = TRUE
    \/ \E j \in DOMAIN nodlist : j > i /\ t = nodlist[j] /\ ~Skipped(t)

(* The stream is prerouted before what is less important and after what is *)
(* more important, and prerouting it again changes nothing.                *)
DataBefore ==
  data # None =>
    /\ done = TRUE => /\ \A j \in 1 .. i : Prio[nodlist[j]] <= Prio[data]
                      /\ target[data] = Found(data)
                      /\ Best(data)
    /\ done = FALSE =>
         \A j \in DOMAIN nodlist :
           j > i \/ (phase = "start" /\ j = i) =>
             Skipped(nodlist[j]) \/ Prio[data] < Prio[nodlist[j]]

(* What the walk has passed has its best route.                            *)
Passed ==
  \A j \in DOMAIN nodlist :
    j > i => Skipped(nodlist[j]) \/ nodlist[j] \in stamped \/ Best(nodlist[j])

WalkInv == phase \in {"data", "start"} => Blockers /\ Routed /\ DataBefore /\ Passed

(* BestRoute for the targets of the last pass, whether they are still      *)
(* there or not.                                                           *)
Ranked ==
  Settled =>
    \A s \in ToSet(nodlist) \ unrouted :
      GroupOf[s] # None /\ ~Skipped(s) /\ ~Explicit(s) =>
        \A d \in (Accept[GroupOf[s]] \cap registered) \ unrouted :
          Candidate(d) =>
            \/ Outranked(s, d)
            \/ target[s] # None /\ Rank[GroupOf[s]][d] <= Rank[GroupOf[s]][target[s]]

(* While a static sink appears, nobody is passed over but for its nodes.   *)
PlugBest ==
  phase = "plug" /\ job \in PlainUnit \ {NullUnit} /\ ~deferred =>
    \A s \in ToSet(nodlist) \ unrouted :
      GroupOf[s] # None /\ ~Skipped(s) /\ ~Explicit(s) =>
        \A d \in (Accept[GroupOf[s]] \cap registered) \ (unrouted \cup DevicesOn(job)) :
          Candidate(d) =>
            \/ Outranked(s, d)
            \/ target[s] # None /\ Rank[GroupOf[s]][d] <= Rank[GroupOf[s]][target[s]]

BInv == /\ IInv /\ ListsRight /\ NodesRight /\ DataRight /\ WalkInv
        /\ Ranked /\ PlugBest

-----------------------------------------------------------------------------
(* What a switch leaves as it was.                                         *)

(* The switches of a pass make no node a candidate, and none no candidate; *)
(* no stream is left without a sink.                                       *)
Gentle(r) ==
  /\ r.available = available
  /\ \A d \in Device : UnitOf[d] \in PlainUnit => (d \in r.attached <=> d \in attached)
  /\ \A s \in Start : at[s] # None => r.at[s] # None

LEMMA ConfigFacts ==
  /\ None \notin Start /\ None \notin Device /\ None \notin Unit /\ None \notin RtGroup
  /\ NullUnit \in Unit /\ NullUnit \in PlainUnit /\ None \notin Stream /\ None \notin Gateway
  /\ Stream \subseteq Start /\ Gateway \subseteq Start /\ Recorder \subseteq Start
  /\ \A d \in Device : UnitOf[d] \in Unit /\ ModeOf[d] \in Mode
  /\ \A u \in Unit : u \in PlainUnit \/ u \in PortUnit \/ u \in ProfileUnit
  /\ \A s \in Start : GroupOf[s] # None => GroupOf[s] \in RtGroup
  /\ \A g \in RtGroup : Accept[g] \subseteq Device /\ Rank[g] \in [Device -> Int]
  /\ Prio \in [Start -> Int]
  /\ Stream \cap Gateway = {} /\ Recorder \cap Stream = {} /\ Recorder \cap Gateway = {}
  /\ PortUnit \cap ProfileUnit = {} /\ PlainUnit \cap (PortUnit \cup ProfileUnit) = {}
<1>1. /\ None \notin Start /\ None \notin Device /\ None \notin Unit /\ None \notin RtGroup
      /\ Stream \subseteq Start /\ Gateway \subseteq Start /\ Recorder \subseteq Start
  BY RouterConfig DEF Start
<1>2. /\ NullUnit \in PlainUnit /\ NullUnit \in Unit
      /\ PortUnit \cap ProfileUnit = {} /\ PlainUnit \cap (PortUnit \cup ProfileUnit) = {}
      /\ \A u \in Unit : u \in PlainUnit \/ u \in PortUnit \/ u \in ProfileUnit
  BY RouterConfig DEF PlainUnit
<1>3. /\ \A d \in Device : UnitOf[d] \in Unit /\ ModeOf[d] \in Mode
      /\ \A s \in Start : GroupOf[s] # None => GroupOf[s] \in RtGroup
      /\ Prio \in [Start -> Int]
      /\ Stream \cap Gateway = {} /\ Recorder \cap Stream = {} /\ Recorder \cap Gateway = {}
  BY RouterConfig
<1>4. \A g \in RtGroup : Accept[g] \subseteq Device /\ Rank[g] \in [Device -> Int]
  BY RouterConfig
<1> QED
  BY <1>1, <1>2, <1>3, <1>4

LEMMA ProfileSwitchedGentle ==
  ASSUME TInv, NodesRight, NEW u \in ProfileUnit, NEW m
  PROVE  Gentle(ProfileSwitched(u, m))
<1> DEFINE r == ProfileSwitched(u, m)
           gone == DevicesOn(u)
           new == {d \in DevicesOn(u) \cap registered : ModeOf[d] = m}
<1>1. /\ r.available = available \cup new /\ r.attached = (attached \ gone) \cup new
      /\ r.at = [s \in Start |-> IF at[s] = u THEN NullUnit ELSE at[s]]
  BY DEF ProfileSwitched, ProfileWith, NodesFor
<1>2. new \subseteq available
  BY DEF NodesRight, DevicesOn
<1>3. \A d \in gone \cup new : UnitOf[d] \notin PlainUnit
  BY ConfigFacts DEF DevicesOn
<1> HIDE DEF r, gone, new
<1>4. \A s \in Start : at[s] # None => r.at[s] # None
  BY <1>1, ConfigFacts
<1> QED
  BY <1>1, <1>2, <1>3, <1>4 DEF Gentle, r

LEMMA SwitchGentle ==
  ASSUME TInv, NodesRight, NEW d \in Device, NEW r \in SwitchResults(d)
  PROVE  Gentle(r)
<1>1. Gentle(Here)
  BY DEF Gentle, Here
<1>2. CASE UnitOf[d] \in PortUnit /\ r = PortSwitched(d)
  <2>1. /\ r.available = available /\ r.at = at
        /\ r.attached = (attached \ DevicesOn(UnitOf[d])) \cup {d}
    BY <1>2 DEF PortSwitched, Here
  <2> QED
    BY <1>2, <2>1, ConfigFacts DEF Gentle, DevicesOn
<1>3. CASE UnitOf[d] \in ProfileUnit /\ r = ProfileSwitched(UnitOf[d], ModeOf[d])
  BY <1>3, ProfileSwitchedGentle
<1> QED
  BY <1>1, <1>2, <1>3, ConfigFacts DEF SwitchResults

LEMMA LinkGentle ==
  ASSUME TInv, NodesRight, NEW n \in Start, NEW d \in Device, NEW l \in LinkResults(n, d)
  PROVE  Gentle(l.r)
<1>1. PICK r \in SwitchResults(d) :
        l.r \in {r, [r EXCEPT !.at[n] = UnitOf[d]]}
  BY DEF LinkResults
<1>2. Gentle(r) /\ r \in RType
  BY SwitchGentle, SwitchResultsType
<1>3. CASE l.r = [r EXCEPT !.at[n] = UnitOf[d]]
  <2>1. l.r.available = r.available /\ l.r.attached = r.attached
    BY <1>2, <1>3 DEF RType
  <2>2. \A s \in Start : l.r.at[s] = IF s = n THEN UnitOf[d] ELSE r.at[s]
    BY <1>2, <1>3 DEF RType
  <2> QED
    BY <1>2, <2>1, <2>2, ConfigFacts DEF Gentle
<1> QED
  BY <1>1, <1>2, <1>3

SwitchKeeps ==
  /\ available' = available
  /\ \A d \in Device : UnitOf[d] \in PlainUnit => (d \in attached' <=> d \in attached)
  /\ \A s \in Start : at[s] # None => at'[s] # None

LEMMA GentleKeeps == ASSUME NEW r, Gentle(r), Becomes(r) PROVE SwitchKeeps
BY DEF Gentle, Becomes, SwitchKeeps

LEMMA NothingKeeps == ASSUME UNCHANGED switchVars PROVE SwitchKeeps
BY DEF SwitchKeeps

LEMMA CandidateStays ==
  ASSUME SwitchKeeps, NEW d \in Device
  PROVE  Candidate(d)' <=> Candidate(d)
BY DEF SwitchKeeps, Candidate

LEMMA RouteStartKeeps ==
  ASSUME TInv, NodesRight, NEW n \in Start, RouteStart(n)
  PROVE  SwitchKeeps
<1>1. CASE Found(n) = None
  BY <1>1, NothingKeeps DEF RouteStart
<1>2. CASE Found(n) # None
  <2>1. Found(n) \in Device
    BY <1>2, FoundType
  <2>2. PICK l \in LinkResults(n, Found(n)) : Becomes(l.r)
    BY <1>2 DEF RouteStart
  <2> QED
    BY <2>1, <2>2, LinkGentle, GentleKeeps
<1> QED
  BY <1>1, <1>2

LEMMA RouteDataKeeps ==
  ASSUME TInv, NodesRight, data \in Start, RouteData
  PROVE  SwitchKeeps
<1>1. CASE Found(data) = None
  BY <1>1, NothingKeeps DEF RouteData
<1>2. CASE Found(data) # None
  <2>1. Found(data) \in Device
    BY <1>2, FoundType
  <2>2. PICK r \in SwitchResults(Found(data)) : Becomes(r)
    BY <1>2 DEF RouteData
  <2> QED
    BY <2>1, <2>2, SwitchGentle, GentleKeeps
<1> QED
  BY <1>1, <1>2

-----------------------------------------------------------------------------
(* find_default_route and mir_constrain_apply.                             *)

(* The walk over the group's entries stops at an open entry that no other  *)
(* open entry outranks.                                                    *)
LEMMA FoundBest ==
  ASSUME TInv, ListsRight, NEW n \in Start, GroupOf[n] # None,
         NEW e \in Accept[GroupOf[n]] \cap registered, Open(e)
  PROVE  /\ Found(n) # None
         /\ Rank[GroupOf[n]][e] <= Rank[GroupOf[n]][Found(n)]
<1> DEFINE g == GroupOf[n]
           K == {k \in DOMAIN entries[g] : Open(entries[g][k])}
           last == CHOOSE k \in K : \A l \in K : l <= k
<1>1. g \in RtGroup /\ Rank[g] \in [Device -> Int]
  BY ConfigFacts
<1>2. entries[g] \in Seq(Device)
  BY <1>1 DEF TInv, TypeOK
<1>3. Ordered(entries[g], Rank[g]) /\ e \in ToSet(entries[g])
  BY <1>1 DEF ListsRight
<1>4. PICK k \in DOMAIN entries[g] : entries[g][k] = e
  BY <1>3 DEF ToSet
<1>5. k \in K
  BY <1>4
<1>6. K \subseteq 0 .. Len(entries[g]) /\ Len(entries[g]) \in Nat
  BY <1>2
<1>7. last \in K /\ \A l \in K : l <= last
  BY <1>5, <1>6, GreatestNat
<1>8. Found(n) = entries[g][last]
  BY <1>5 DEF Found
<1> HIDE DEF last
<1>9. last \in DOMAIN entries[g] /\ k <= last
  BY <1>5, <1>7
<1>10. entries[g][last] \in Device /\ e \in Device
  BY <1>2, <1>4, <1>9
<1>11. Rank[g][entries[g][last]] \in Int
  BY <1>1, <1>10
<1>12. Rank[g][e] <= Rank[g][entries[g][last]]
  <2>1. CASE k = last
    BY <1>4, <1>11, <2>1
  <2>2. CASE k < last
    BY <1>3, <1>4, <1>9, <2>2 DEF Ordered
  <2> QED
    BY <1>2, <1>6, <1>7, <1>5, <1>9, <2>1, <2>2
<1> QED
  BY <1>8, <1>10, <1>12, ConfigFacts

(* May the walk stop at d in the next state?                               *)
OpenNext(d) ==
  /\ d \in available'
  /\ d \in attached' \/ UnitOf[d] \notin PlainUnit
  /\ ~(d \in marked' /\ d \in blocked')

(* If fewer entries are open, but the one that was found still is, it is   *)
(* found again.                                                            *)
LEMMA FoundAgain ==
  ASSUME TInv, NEW n \in Start, UNCHANGED entries,
         \A e \in Device : OpenNext(e) => Open(e),
         Found(n) # None => OpenNext(Found(n))
  PROVE  Found(n)' = Found(n)
<1> DEFINE g == GroupOf[n]
           K == {k \in DOMAIN entries[g] : Open(entries[g][k])}
           last == CHOOSE k \in K : \A l \in K : l <= k
           L == {k \in DOMAIN entries[g] : OpenNext(entries[g][k])}
           first == CHOOSE k \in L : \A l \in L : l <= k
<1>1. CASE g = None
  BY <1>1 DEF Found
<1>2. CASE g # None
  <2>1. g \in RtGroup /\ entries[g] \in Seq(Device)
    BY <1>2, ConfigFacts DEF TInv, TypeOK
  <2>2. K \subseteq 0 .. Len(entries[g]) /\ Len(entries[g]) \in Nat
    BY <2>1
  <2>3. L \subseteq K
    BY <2>1
  <2>4. Found(n) = IF K = {} THEN None ELSE entries[g][last]
    BY <1>2 DEF Found
  <2>5. Found(n)' = IF L = {} THEN None ELSE entries[g][first]
    <3>1. \A e : Open(e)' <=> OpenNext(e)
      BY DEF Open, Candidate, OpenNext
    <3>2. K' = L
      BY <3>1
    <3>3. Found(n)' = IF K' = {} THEN None
                      ELSE entries'[g][CHOOSE k \in K' : \A l \in K' : l <= k]
      BY <1>2 DEF Found
    <3> HIDE DEF K, L
    <3> QED
      BY <3>2, <3>3
  <2>6. CASE K = {}
    BY <2>3, <2>4, <2>5, <2>6
  <2>7. CASE K # {}
    <3>1. last \in K /\ \A l \in K : l <= last
      BY <2>2, <2>7, GreatestNat
    <3>2. last \in DOMAIN entries[g] /\ entries[g][last] # None
      <4> HIDE DEF last
      <4>1. last \in DOMAIN entries[g]
        BY <3>1
      <4> QED
        BY <2>1, <4>1, ConfigFacts
    <3>3. last \in L
      <4> HIDE DEF K, last
      <4>1. Found(n) = entries[g][last]
        BY <2>4, <2>7
      <4>2. OpenNext(entries[g][last])
        BY <3>2, <4>1
      <4> QED
        BY <3>2, <4>2
    <3>4. first \in L /\ \A l \in L : l <= first
      <4>1. L \subseteq 0 .. Len(entries[g]) /\ L # {}
        BY <2>2, <2>3, <3>3
      <4> HIDE DEF L
      <4> QED
        BY <2>2, <4>1, GreatestNat
    <3>5. last <= first /\ first <= last /\ last \in Nat /\ first \in Nat
      <4> HIDE DEF K, L, last, first
      <4>1. last \in K /\ last \in L /\ first \in L /\ first \in K
        BY <2>3, <3>1, <3>3, <3>4
      <4>2. last \in Nat /\ first \in Nat
        BY <2>2, <4>1
      <4> QED
        BY <3>1, <3>4, <4>1, <4>2
    <3> HIDE DEF last, first
    <3>6. first = last
      BY <3>5
    <3> QED
      BY <2>4, <2>5, <2>7, <3>3, <3>6
  <2> QED
    BY <2>6, <2>7
<1> QED
  BY <1>1, <1>2

(* A target of the pass is never blocked.                                  *)
LEMMA TargetOpen ==
  ASSUME TypeOK', BlockedRight', NEW s \in Start, target'[s] # None
  PROVE  ~(target'[s] \in marked' /\ target'[s] \in blocked')
<1> DEFINE d == target'[s]
<1>1. d \in Device /\ d \in registered' /\ Peers(target[s])' \subseteq marked'
      /\ \A e \in Peers(target[s])' : e \in blocked' <=> ModeOf[e] # ModeOf[d]
  BY DEF TypeOK, BlockedRight, Exact
<1> HIDE DEF d
<1>2. CASE UnitOf[d] \in PlainUnit
  BY <1>2 DEF BlockedRight, d
<1>3. CASE UnitOf[d] \notin PlainUnit
  <2>1. d \in Peers(target[s])'
    BY <1>1, <1>3 DEF Peers, DevicesOn, d
  <2> QED
    BY <1>1, <2>1 DEF d
<1> QED
  BY <1>2, <1>3

(* mir_constrain_apply takes no blocked entry out, and the new ones are    *)
(* rivals of d.                                                            *)
LEMMA ConstrainGrows ==
  ASSUME TInv, BlockedRight, NEW d \in registered, ConstrainApply(d)
  PROVE  /\ marked \cap blocked \subseteq marked' \cap blocked'
         /\ \A e \in marked' \cap blocked' : e \in marked \cap blocked \/ Conflict(d, e)
<1>1. CASE d \in marked
  BY <1>1 DEF ConstrainApply
<1>2. CASE d \notin marked
  <2>1. /\ marked' = marked \cup Peers(d)
        /\ blocked' = (blocked \ Peers(d)) \cup {e \in Peers(d) : ModeOf[e] # ModeOf[d]}
    BY <1>2 DEF ConstrainApply
  <2>2. ASSUME NEW e \in Peers(d)
        PROVE  UnitOf[d] \notin PlainUnit /\ UnitOf[e] = UnitOf[d] /\ d \in Peers(e)
    BY DEF Peers, DevicesOn, TInv, TypeOK
  <2>3. Peers(d) \cap marked = {}
    BY <1>2, <2>2 DEF BlockedRight
  <2> QED
    BY <2>1, <2>2, <2>3 DEF Conflict
<1> QED
  BY <1>1, <1>2

(* One default route, for n: what it leaves in force.                      *)
RouteKept(n) ==
  /\ Blockers'
  /\ \A s \in Start : Best(s) => Best(s)'
  /\ \A s \in Start : target[s] = Found(s) => target'[s] = Found(s)'
  /\ target' = [target EXCEPT ![n] = IF Found(n) = None THEN target[n] ELSE Found(n)]

(* Nothing that is more important than n had to wait for n.                *)
First(n) == target[n] = None /\ \A t \in Start : target[t] # None => Prio[t] >= Prio[n]

LEMMA QuietKeeps ==
  ASSUME UNCHANGED <<registered, entries, available, attached, marked, blocked, target>>
  PROVE  /\ Blockers' <=> Blockers
         /\ \A s : Best(s)' <=> Best(s)
         /\ \A s : Found(s)' = Found(s)
BY DEF Blockers, Conflict, Best, Candidate, Outranked, Found, Open

LEMMA BestStays ==
  ASSUME SwitchKeeps, UNCHANGED registered,
         \A t \in Start : target[t] # None => target'[t] = target[t],
         NEW s \in Start, Best(s)
  PROVE  Best(s)'
<1>1. CASE GroupOf[s] = None
  BY <1>1 DEF Best
<1>2. ASSUME NEW d \in Accept[GroupOf[s]] \cap registered, Candidate(d)', GroupOf[s] # None
      PROVE  \/ Outranked(s, d)'
             \/ target'[s] # None /\ Rank[GroupOf[s]][d] <= Rank[GroupOf[s]][target'[s]]
  <2>1. d \in Device /\ Candidate(d)
    BY <1>2, CandidateStays, ConfigFacts
  <2>2. CASE Outranked(s, d)
    <3>1. PICK t \in Start \ {s} :
               target[t] # None /\ Prio[t] >= Prio[s] /\ Conflict(target[t], d)
      BY <2>2 DEF Outranked
    <3> QED
      BY <3>1 DEF Outranked, Conflict
  <2>3. CASE target[s] # None /\ Rank[GroupOf[s]][d] <= Rank[GroupOf[s]][target[s]]
    BY <2>3
  <2> QED
    BY <1>2, <2>1, <2>2, <2>3 DEF Best
<1> QED
  BY <1>1, <1>2 DEF Best

(* If nothing is found, every candidate is blocked by what came before.    *)
LEMMA NothingFound ==
  ASSUME TInv, ListsRight, Blockers, NEW n \in Start, Found(n) = None, First(n)
  PROVE  Best(n)
<1> SUFFICES ASSUME GroupOf[n] # None, NEW d \in Accept[GroupOf[n]] \cap registered, Candidate(d)
             PROVE  Outranked(n, d)
  BY DEF Best
<1>1. d \in marked \cap blocked
  BY FoundBest DEF Open
<1>2. PICK t \in Start : target[t] # None /\ Conflict(target[t], d)
  BY <1>1 DEF Blockers
<1> QED
  BY <1>2 DEF First, Outranked

LEMMA RouteMade ==
  ASSUME TInv, ListsRight, BlockedRight, NoConflictingRoutes, Blockers, NEW n \in Start,
         Found(n) # None, target[n] \in {None, Found(n)},
         target' = [target EXCEPT ![n] = Found(n)], ConstrainApply(Found(n)),
         SwitchKeeps, UNCHANGED <<registered, entries>>, TypeOK', LoopsInside'
  PROVE  RouteKept(n) /\ target'[n] = Found(n)' /\ (First(n) => Best(n)')
<1> DEFINE d == Found(n)
<1>1. d \in Device /\ Open(d) /\ d \in registered
  BY FoundType DEF TInv, LoopsInside, Open, Candidate
<1>2. BlockedRight'
  BY RouteKeepsBlocked
<1>3. /\ target'[n] = d
      /\ \A t \in Start : t # n => target'[t] = target[t]
      /\ \A t \in Start : target[t] # None => target'[t] = target[t]
  BY DEF TInv, TypeOK
<1>4. d # None /\ ConstrainApply(d)
  OBVIOUS
<1>5. target' = [target EXCEPT ![n] = IF Found(n) = None THEN target[n] ELSE Found(n)]
  OBVIOUS
<1>6. /\ marked \cap blocked \subseteq marked' \cap blocked'
      /\ \A e \in marked' \cap blocked' : e \in marked \cap blocked \/ Conflict(d, e)
  <2> HIDE DEF d
  <2> QED
    BY <1>1, <1>4, ConstrainGrows
<1>7. \A e \in Device : OpenNext(e) => Open(e)
  BY <1>6 DEF Open, OpenNext, Candidate, SwitchKeeps
<1>8. ASSUME NEW s \in Start, target'[s] # None, target'[s] \in Device, Candidate(target'[s])
      PROVE  OpenNext(target'[s])
  <2>1. ~(target'[s] \in marked' /\ target'[s] \in blocked')
    BY <1>2, <1>8, TargetOpen
  <2> QED
    BY <1>8, <2>1 DEF OpenNext, Candidate, SwitchKeeps
<1>9. ASSUME NEW s \in Start, target[s] = Found(s) PROVE target'[s] = Found(s)'
  <2>1. target'[s] = Found(s)
    BY <1>3, <1>9
  <2>2. Found(s) # None => OpenNext(Found(s))
    <3> SUFFICES ASSUME Found(s) # None PROVE OpenNext(Found(s))
      OBVIOUS
    <3>1. Found(s) \in Device /\ Candidate(Found(s))
      BY FoundType DEF Open
    <3>2. OpenNext(target'[s])
      BY <1>8, <2>1, <3>1
    <3> QED
      BY <2>1, <3>2
  <2> QED
    BY <1>7, <2>1, <2>2, FoundAgain
<1>10. \A s \in Start : Best(s) => Best(s)'
  BY <1>3, BestStays
<1>13. target'[n] = Found(n)'
  <2>1. OpenNext(d)
    BY <1>1, <1>3, <1>4, <1>8 DEF Open
  <2>2. Found(n)' = Found(n)
    BY <1>7, <2>1, FoundAgain
  <2> QED
    BY <1>3, <2>2
<1>11. Blockers'
  <2> SUFFICES ASSUME NEW e \in marked' \cap blocked'
               PROVE  \E t \in Start : target'[t] # None /\ Conflict(target'[t], e)
    BY DEF Blockers, Conflict
  <2>1. CASE Conflict(d, e)
    BY <1>3, <1>4, <2>1
  <2>2. CASE e \in marked \cap blocked
    <3>1. PICK t \in Start : target[t] # None /\ Conflict(target[t], e)
      BY <2>2 DEF Blockers
    <3> QED
      BY <1>3, <3>1
  <2> QED
    BY <1>6, <2>1, <2>2
<1>12. ASSUME First(n) PROVE Best(n)'
  <2> SUFFICES ASSUME GroupOf[n] # None, NEW e \in Accept[GroupOf[n]] \cap registered,
                      Candidate(e)'
               PROVE  \/ Outranked(n, e)'
                      \/ target'[n] # None
                         /\ Rank[GroupOf[n]][e] <= Rank[GroupOf[n]][target'[n]]
    BY DEF Best
  <2>1. e \in Device /\ Candidate(e)
    BY CandidateStays, ConfigFacts
  <2>2. CASE Open(e)
    BY <1>3, <1>4, <2>2, FoundBest
  <2>3. CASE e \in marked \cap blocked
    <3>1. PICK t \in Start : target[t] # None /\ Conflict(target[t], e)
      BY <2>3 DEF Blockers
    <3>2. target'[t] = target[t] /\ Prio[t] >= Prio[n] /\ t # n
      BY <1>3, <1>12, <3>1 DEF First
    <3> QED
      BY <3>1, <3>2 DEF Outranked, Conflict
  <2> QED
    BY <2>1, <2>2, <2>3 DEF Open
<1> QED
  BY <1>5, <1>9, <1>10, <1>11, <1>12, <1>13 DEF RouteKept

LEMMA NothingRouted ==
  ASSUME TInv, Blockers, NEW n \in Start, Found(n) = None,
         UNCHANGED <<switchVars, marked, blocked, target, registered, entries>>
  PROVE  RouteKept(n)
<1>1. target = [target EXCEPT ![n] = target[n]]
  BY DEF TInv, TypeOK
<1> QED
  BY <1>1, QuietKeeps DEF RouteKept

LEMMA StartRouted ==
  ASSUME TInv, TInv', ListsRight, NodesRight, BlockedRight, NoConflictingRoutes, Blockers,
         NEW n \in Start, RouteStart(n), First(n), UNCHANGED <<registered, entries>>
  PROVE  RouteKept(n) /\ Best(n)' /\ SwitchKeeps
<1>1. SwitchKeeps
  BY RouteStartKeeps
<1>2. CASE Found(n) = None
  <2>1. UNCHANGED <<switchVars, marked, blocked, target>>
    BY <1>2 DEF RouteStart
  <2> QED
    BY <1>1, <1>2, <2>1, NothingRouted, NothingFound, QuietKeeps
<1>3. CASE Found(n) # None
  <2>1. target' = [target EXCEPT ![n] = Found(n)] /\ ConstrainApply(Found(n))
    BY <1>3 DEF RouteStart
  <2>2. target[n] = None
    BY DEF First
  <2> QED
    BY <1>1, <1>3, <2>1, <2>2, RouteMade DEF TInv
<1> QED
  BY <1>2, <1>3

LEMMA DataRouted ==
  ASSUME TInv, TInv', ListsRight, NodesRight, BlockedRight, NoConflictingRoutes, Blockers,
         data \in Start, RouteData, First(data) \/ (target[data] = Found(data) /\ Best(data)),
         UNCHANGED <<registered, entries, data>>
  PROVE  RouteKept(data) /\ Best(data)' /\ target'[data] = Found(data)' /\ SwitchKeeps
<1>0. PICK n \in Start : n = data
  OBVIOUS
<1>1. SwitchKeeps
  BY RouteDataKeeps
<1>2. CASE Found(n) = None
  <2>1. UNCHANGED <<switchVars, marked, blocked, target>>
    BY <1>0, <1>2 DEF RouteData
  <2>2. RouteKept(n)
    BY <1>2, <2>1, NothingRouted
  <2>3. Best(n) /\ target[n] = None
    BY <1>0, <1>2, NothingFound DEF First
  <2>4. Best(n)' /\ target'[n] = Found(n)'
    BY <1>2, <2>1, <2>3, QuietKeeps
  <2> QED
    BY <1>0, <1>1, <2>2, <2>4
<1>3. CASE Found(n) # None
  <2>1. target' = [target EXCEPT ![n] = Found(n)] /\ ConstrainApply(Found(n))
    BY <1>0, <1>3 DEF RouteData
  <2>2. target[n] \in {None, Found(n)}
    BY <1>0 DEF First
  <2>3. RouteKept(n) /\ target'[n] = Found(n)' /\ (First(n) => Best(n)')
    BY <1>1, <1>3, <2>1, <2>2, RouteMade DEF TInv
  <2>4. Best(n)'
    BY <1>0, <2>3 DEF RouteKept
  <2> QED
    BY <1>0, <1>1, <2>3, <2>4
<1> QED
  BY <1>2, <1>3

-----------------------------------------------------------------------------
(* The steps of a pass.                                                    *)

Keeps == /\ ListsRight' /\ NodesRight' /\ DataRight' /\ WalkInv'
         /\ Ranked' /\ PlugBest'

LEMMA DuringPass ==
  ASSUME BInv, UNCHANGED <<registered, entries, nodlist, looped, connlist, data>>, SwitchKeeps,
         phase \in {"explicit", "data", "start"}, phase' \in {"explicit", "data", "start"},
         phase' = "explicit" => done' = FALSE,
         \A s \in Stream : target'[s] # None => s \in ToSet(nodlist) \/ s = data,
         \A s \in stamped' : Explicit(s), WalkInv'
  PROVE  Keeps
<1>1. ListsRight'
  BY DEF BInv, ListsRight
<1>2. NodesRight'
  <2>1. \A s \in Stream \cap ToSet(nodlist) : at'[s] # None
    BY ConfigFacts DEF BInv, NodesRight, SwitchKeeps
  <2>2. available' = available
    BY DEF SwitchKeeps
  <2>3. phase' # "plug"
    OBVIOUS
  <2> QED
    BY <2>1, <2>2, <2>3 DEF BInv, NodesRight
<1>3. DataRight'
  <2>1. \A s : Explicit(s)' <=> Explicit(s)
    BY DEF Explicit
  <2>2. Skipped(data)' <=> Skipped(data)
    BY DEF Skipped
  <2> QED
    BY <2>1, <2>2 DEF BInv, DataRight
<1>4. Ranked' /\ PlugBest'
  BY DEF Ranked, PlugBest, Settled
<1> QED
  BY <1>1, <1>2, <1>3, <1>4 DEF Keeps

LEMMA ExplicitRouteKeeps == ASSUME BInv, ExplicitRoute PROVE Keeps
<1> DEFINE c == connlist[i]
<1>1. i \in 1 .. Len(connlist) /\ phase = "explicit" /\ phase' = "explicit"
  BY DEF BInv, IInv, TInv, TypeOK, LoopsInside, ExplicitRoute
<1>2. c.from \in Stream \cup {None} /\ c.to \in Device \cup {None}
  <2>1. c \in [from : Stream \cup {None}, to : Device \cup {None}, blocked : BOOLEAN]
    BY <1>1, ElementOfSeq DEF BInv, IInv, TInv, TypeOK
  <2> HIDE DEF c
  <2> QED
    BY <2>1
<1>3. SwitchKeeps /\ \A s \in stamped' : s \in stamped \/ Explicit(s)
  <2>1. CASE UNCHANGED <<switchVars, stamped>>
    BY <2>1, NothingKeeps
  <2>2. CASE /\ c.from # None /\ c.to # None
             /\ \E l \in LinkResults(c.from, c.to) :
                  Becomes(l.r) /\ stamped' \in {stamped \cup {c.from}, stamped}
    <3>1. c.from \in Start /\ c.to \in Device
      BY <1>2, <2>2, ConfigFacts
    <3>2. PICK l \in LinkResults(c.from, c.to) :
               Becomes(l.r) /\ stamped' \in {stamped \cup {c.from}, stamped}
      BY <2>2
    <3>3. Gentle(l.r)
      BY <3>1, <3>2, LinkGentle DEF BInv, IInv
    <3>4. Explicit(c.from)
      BY <1>1, <2>2 DEF Explicit, BInv, IInv, TInv, TypeOK
    <3> QED
      BY <3>2, <3>3, <3>4, GentleKeeps
  <2> QED
    BY <2>1, <2>2 DEF ExplicitRoute
<1>4. WalkInv'
  BY <1>1 DEF WalkInv
<1>5. UNCHANGED <<registered, entries, nodlist, looped, connlist, data, done, target>>
  BY DEF ExplicitRoute
<1> QED
  BY <1>1, <1>3, <1>4, <1>5, DuringPass DEF BInv, DataRight

LEMMA ExplicitDoneKeeps == ASSUME BInv, ExplicitDone PROVE Keeps
<1>1. /\ phase = "explicit" /\ phase' \in {"data", "start"}
      /\ phase' = "start" => data = None
      /\ UNCHANGED <<nodeVars, switchVars, data, done, stamped, marked, blocked, connlist>>
      /\ i' = Len(nodlist) /\ \A s \in Start : target'[s] = None
  BY DEF ExplicitDone
<1>2. marked' = {} /\ done' = FALSE
  BY <1>1 DEF BInv, IInv, PassInv, DataRight
<1>3. ~\E j \in DOMAIN nodlist : j > i'
  BY <1>1 DEF BInv, IInv, TInv, TypeOK
<1>4. WalkInv'
  <2>1. Blockers' /\ Routed'
    BY <1>1, <1>2 DEF Blockers, Routed
  <2>2. DataBefore'
    BY <1>1, <1>2, <1>3 DEF DataBefore
  <2>3. Passed'
    BY <1>1, <1>3 DEF Passed
  <2> QED
    BY <2>1, <2>2, <2>3 DEF WalkInv
<1> QED
  BY <1>1, <1>2, <1>4, DuringPass, NothingKeeps, ConfigFacts DEF BInv, DataRight

(* The walk passes position i: nothing is routed there.                    *)
LEMMA WalkSkips ==
  ASSUME BInv, phase \in {"data", "start"}, i > 0, i' = i - 1,
         Skipped(nodlist[i]) \/ (phase = "start" /\ nodlist[i] \in stamped),
         phase' = IF data = None THEN "start" ELSE "data",
         UNCHANGED <<nodeVars, switchVars, data, done, stamped, marked, blocked, target>>
  PROVE  WalkInv'
<1>1. /\ Blockers /\ Routed /\ DataBefore /\ Passed
      /\ i \in Nat /\ i \in DOMAIN nodlist /\ DOMAIN nodlist = 1 .. Len(nodlist)
  BY DEF BInv, WalkInv, IInv, TInv, TypeOK, LoopsInside
<1>2. Blockers' /\ (\A s : Best(s)' <=> Best(s)) /\ (\A s : Found(s)' = Found(s))
  BY <1>1, QuietKeeps
<1>3. \A s : Skipped(s)' <=> Skipped(s)
  BY DEF Skipped
<1>4. \A j \in DOMAIN nodlist : j > i - 1 <=> j > i \/ j = i
  BY <1>1
<1>5. Routed'
  BY <1>1, <1>3, <1>4 DEF Routed
<1>6. DataBefore'
  <2> SUFFICES ASSUME data # None PROVE DataBefore'
    BY DEF DataBefore
  <2>1. CASE done = TRUE
    <3>1. \A j \in 1 .. i - 1 : j \in 1 .. i
      BY <1>1
    <3> QED
      BY <1>1, <1>2, <2>1, <3>1 DEF DataBefore
  <2>2. CASE done # TRUE
    <3>1. done = FALSE /\ phase' = "data"
      BY <2>2 DEF BInv, IInv, TInv, TypeOK
    <3>2. \A j \in DOMAIN nodlist : j > i => Skipped(nodlist[j]) \/ Prio[data] < Prio[nodlist[j]]
      BY <1>1, <3>1 DEF DataBefore
    <3>3. Skipped(nodlist[i]) \/ Prio[data] < Prio[nodlist[i]]
      BY <1>1, <3>1 DEF DataBefore
    <3> QED
      BY <1>3, <1>4, <3>1, <3>2, <3>3 DEF DataBefore
  <2> QED
    BY <2>1, <2>2
<1>7. Passed'
  BY <1>1, <1>2, <1>3, <1>4 DEF Passed
<1> QED
  BY <1>2, <1>5, <1>6, <1>7 DEF WalkInv

(* What is routed in a step was not routed before.                         *)
LEMMA WalkFirst ==
  ASSUME BInv, phase = "start", i > 0, ~Skipped(nodlist[i])
  PROVE  First(nodlist[i])
<1> DEFINE n == nodlist[i]
<1>1. /\ Routed /\ DataBefore /\ i \in Nat /\ i \in DOMAIN nodlist /\ i \in 1 .. i /\ n \in Start
  BY DEF BInv, WalkInv, IInv, TInv, TypeOK, LoopsInside
<1>2. n # data
  BY <1>1 DEF BInv, DataRight, ToSet
<1>3. \A j \in DOMAIN nodlist : j > i => nodlist[j] # n /\ Prio[n] <= Prio[nodlist[j]]
  BY <1>1 DEF BInv, ListsRight, Ordered
<1>4. \A t \in Start : Prio[t] \in Int
  BY ConfigFacts
<1> HIDE DEF n
<1>5. target[n] = None
  BY <1>1, <1>2, <1>3 DEF Routed
<1>6. ASSUME NEW t \in Start, target[t] # None PROVE Prio[t] >= Prio[n]
  <2>1. CASE t = data /\ done = TRUE
    <3>1. Prio[n] <= Prio[data]
      BY <1>1, <2>1, ConfigFacts DEF DataBefore, n
    <3> QED
      BY <1>1, <1>4, <2>1, <3>1
  <2>2. CASE \E j \in DOMAIN nodlist : j > i /\ t = nodlist[j]
    BY <1>1, <1>3, <1>4, <2>2
  <2> QED
    BY <1>1, <1>6, <2>1, <2>2 DEF Routed
<1> QED
  BY <1>5, <1>6 DEF First, n

LEMMA StartTurnKeeps == ASSUME BInv, TInv', StartTurn PROVE Keeps
<1>0. PICK n \in Start : n = nodlist[i]
  BY DEF BInv, IInv, TInv, TypeOK, LoopsInside, StartTurn
<1>1. /\ phase = "start" /\ i > 0 /\ i' = i - 1
      /\ phase' = IF data = None THEN "start" ELSE "data"
      /\ UNCHANGED <<nodeVars, data, done, stamped, connlist, job, deferred>>
  BY DEF StartTurn
<1>2. /\ Blockers /\ Routed /\ DataBefore /\ Passed /\ BlockedRight
      /\ i \in Nat /\ i \in DOMAIN nodlist /\ n \in Start /\ n \in ToSet(nodlist)
  BY <1>0, <1>1, ElementOfSeq DEF BInv, WalkInv, IInv, PassInv, TInv, TypeOK, LoopsInside, ToSet
<1>3. phase' \in {"data", "start"}
  BY <1>1
<1>4. CASE Skipped(n) \/ n \in stamped
  <2>1. UNCHANGED <<switchVars, marked, blocked, target>>
    BY <1>0, <1>4 DEF StartTurn
  <2>2. WalkInv'
    BY <1>0, <1>1, <1>4, <2>1, WalkSkips
  <2> QED
    BY <1>1, <1>3, <2>1, <2>2, NothingKeeps, DuringPass DEF BInv, DataRight
<1>5. CASE ~(Skipped(n) \/ n \in stamped)
  <2>1. RouteStart(n)
    BY <1>0, <1>5 DEF StartTurn
  <2>2. First(n)
    BY <1>0, <1>1, <1>5, WalkFirst
  <2>3. RouteKept(n) /\ Best(n)' /\ SwitchKeeps
    BY <1>1, <1>2, <2>1, <2>2, StartRouted DEF BInv, IInv
  <2>4. \A s : Skipped(s)' <=> Skipped(s)
    BY <1>1 DEF Skipped
  <2>5. \A j \in DOMAIN nodlist : (j > i - 1 <=> j > i \/ j = i) /\ nodlist[j] \in Start
    BY <1>2 DEF BInv, IInv, TInv, TypeOK
  <2>6. \A t \in Start : t # n => target'[t] = target[t]
    BY <2>3 DEF RouteKept
  <2>7. Routed'
    <3> SUFFICES ASSUME NEW t \in Start, target'[t] # None
                 PROVE  \/ t = data /\ done = TRUE
                        \/ \E j \in DOMAIN nodlist : j > i - 1 /\ t = nodlist[j] /\ ~Skipped(t)
      BY <1>1, <2>4 DEF Routed
    <3>1. CASE t = n
      BY <1>0, <1>2, <1>5, <2>5, <3>1
    <3>2. CASE t # n
      BY <1>2, <2>5, <2>6, <3>2 DEF Routed
    <3> QED
      BY <3>1, <3>2
  <2>8. DataBefore'
    <3> SUFFICES ASSUME data # None PROVE DataBefore'
      BY <1>1 DEF DataBefore
    <3>0. data \in Start
      BY DEF BInv, IInv, TInv, TypeOK
    <3>1. CASE done = TRUE
      <4>1. target'[data] = Found(data)'
        BY <1>1, <1>2, <2>3, <3>0, <3>1 DEF DataBefore, RouteKept
      <4>2. Best(data)'
        BY <1>1, <1>2, <2>3, <3>0, <3>1 DEF DataBefore, RouteKept
      <4>3. \A j \in 1 .. i - 1 : j \in 1 .. i
        BY <1>2
      <4>4. \A j \in 1 .. i' : Prio[nodlist'[j]] <= Prio[data']
        BY <1>1, <1>2, <3>1, <4>3 DEF DataBefore
      <4> QED
        BY <1>1, <3>1, <4>1, <4>2, <4>4 DEF DataBefore
    <3>2. CASE done # TRUE
      <4>1. done = FALSE /\ phase' = "data"
        BY <1>1, <3>2 DEF BInv, IInv, TInv, TypeOK
      <4>2. \A j \in DOMAIN nodlist :
              j > i \/ j = i => Skipped(nodlist[j]) \/ Prio[data] < Prio[nodlist[j]]
        BY <1>1, <1>2, <4>1 DEF DataBefore
      <4> QED
        BY <1>1, <2>4, <2>5, <4>1, <4>2 DEF DataBefore
    <3> QED
      BY <3>1, <3>2
  <2>9. Passed'
    <3> SUFFICES ASSUME NEW j \in DOMAIN nodlist, j > i - 1
                 PROVE  Skipped(nodlist[j]) \/ nodlist[j] \in stamped \/ Best(nodlist[j])'
      BY <1>1, <2>4 DEF Passed
    <3>1. CASE j = i
      BY <1>0, <1>1, <2>3, <3>1
    <3>2. CASE j > i
      BY <1>1, <1>2, <2>3, <2>5, <3>2 DEF Passed, RouteKept
    <3> QED
      BY <2>5, <3>1, <3>2
  <2>10. WalkInv'
    BY <2>3, <2>7, <2>8, <2>9 DEF WalkInv, RouteKept
  <2>11. \A s \in Stream : target'[s] # None => s \in ToSet(nodlist) \/ s = data
    <3>1. \A s \in Stream : target[s] # None => s \in ToSet(nodlist) \/ s = data
      BY DEF BInv, DataRight
    <3> QED
      BY <1>2, <2>6, <3>1, ConfigFacts
  <2> QED
    BY <1>1, <1>3, <2>3, <2>10, <2>11, DuringPass DEF BInv, DataRight
<1> QED
  BY <1>4, <1>5

(* Whoever is prerouted has no default route yet, or the one it would get. *)
LEMMA PrerouteFirst ==
  ASSUME BInv, phase = "data", NEW n \in Start, n = data
  PROVE  First(n) \/ (target[n] = Found(n) /\ Best(n))
<1>0. Routed /\ DataBefore /\ n # None
  BY ConfigFacts DEF BInv, WalkInv
<1>1. CASE done = TRUE
  BY <1>0, <1>1 DEF DataBefore
<1>2. CASE done # TRUE
  <2>1. done = FALSE
    BY <1>2 DEF BInv, IInv, TInv, TypeOK
  <2>2. \A t \in Start : target[t] # None =>
          \E j \in DOMAIN nodlist : j > i /\ t = nodlist[j] /\ ~Skipped(t)
    BY <1>0, <2>1 DEF Routed
  <2>3. \A j \in DOMAIN nodlist : j > i => Skipped(nodlist[j]) \/ Prio[n] < Prio[nodlist[j]]
    BY <1>0, <2>1 DEF DataBefore
  <2>4. target[n] = None
    <3>1. n \in ToSet(nodlist) => Skipped(n)
      BY DEF BInv, DataRight
    <3> QED
      BY <2>2, <3>1 DEF ToSet
  <2>5. ASSUME NEW t \in Start, target[t] # None PROVE Prio[t] >= Prio[n]
    <3>1. Prio[n] < Prio[t]
      BY <2>2, <2>3, <2>5
    <3>2. Prio[n] \in Int /\ Prio[t] \in Int
      BY ConfigFacts
    <3> QED
      BY <3>1, <3>2
  <2> QED
    BY <2>4, <2>5 DEF First
<1> QED
  BY <1>1, <1>2

(* A route is looked for the new stream, before everything that is not     *)
(* more important.                                                         *)
LEMMA PrerouteKeeps ==
  ASSUME BInv, TInv', phase = "data", RouteData, done' = TRUE, i' = i,
         phase' \in {"data", "start"}, UNCHANGED <<nodeVars, data, stamped, connlist>>,
         \A j \in 1 .. i : Prio[nodlist[j]] <= Prio[data]
  PROVE  Keeps
<1>0. PICK n \in Start : n = data /\ n # None
  BY ConfigFacts DEF BInv, IInv, TInv, TypeOK, LoopsInside
<1>1. /\ Blockers /\ Routed /\ DataBefore /\ Passed /\ BlockedRight
      /\ i \in Nat /\ DOMAIN nodlist = 1 .. Len(nodlist)
      /\ \A j \in DOMAIN nodlist : nodlist[j] \in Start
  BY DEF BInv, WalkInv, IInv, PassInv, TInv, TypeOK, LoopsInside
<1>2. First(n) \/ (target[n] = Found(n) /\ Best(n))
  BY <1>0, PrerouteFirst
<1>3. RouteKept(n) /\ Best(n)' /\ target'[n] = Found(n)' /\ SwitchKeeps
  <2>1. RouteKept(data) /\ Best(data)' /\ target'[data] = Found(data)' /\ SwitchKeeps
    BY <1>0, <1>1, <1>2, DataRouted DEF BInv, IInv
  <2>2. data' = data
    OBVIOUS
  <2> QED
    BY <1>0, <2>1, <2>2
<1>4. \A s : Skipped(s)' <=> Skipped(s)
  BY DEF Skipped
<1>5. \A t \in Start : t # n => target'[t] = target[t]
  BY <1>3 DEF RouteKept
<1>6. Routed'
  <2> SUFFICES ASSUME NEW t \in Start, target'[t] # None, t # n
               PROVE  \E j \in DOMAIN nodlist : j > i /\ t = nodlist[j] /\ ~Skipped(t)
    BY <1>0, <1>4 DEF Routed
  <2> QED
    BY <1>0, <1>1, <1>5 DEF Routed
<1>7. DataBefore'
  <2>1. /\ target'[data'] = Found(data)' /\ Best(data)'
        /\ \A j \in 1 .. i' : Prio[nodlist'[j]] <= Prio[data']
    BY <1>0, <1>3
  <2> QED
    BY <2>1 DEF DataBefore
<1>8. Passed'
  <2> SUFFICES ASSUME NEW j \in DOMAIN nodlist, j > i
               PROVE  Skipped(nodlist[j]) \/ nodlist[j] \in stamped \/ Best(nodlist[j])'
    BY <1>4 DEF Passed
  <2> QED
    BY <1>1, <1>3 DEF Passed, RouteKept
<1>9. WalkInv'
  BY <1>3, <1>6, <1>7, <1>8 DEF WalkInv, RouteKept
<1>10. \A s \in Stream : target'[s] # None => s \in ToSet(nodlist) \/ s = data
  <2>1. \A s \in Stream : target[s] # None => s \in ToSet(nodlist) \/ s = data
    BY DEF BInv, DataRight
  <2> QED
    BY <1>0, <1>5, <2>1, ConfigFacts
<1> QED
  BY <1>3, <1>9, <1>10, DuringPass DEF BInv, DataRight

LEMMA DataTurnKeeps == ASSUME BInv, TInv', DataTurn PROVE Keeps
<1>0. PICK n \in Start : n = nodlist[i]
  BY DEF BInv, IInv, TInv, TypeOK, LoopsInside, DataTurn
<1>1. /\ phase = "data" /\ i > 0 /\ data # None /\ data \in Start
      /\ UNCHANGED <<nodeVars, data, stamped, connlist>>
  BY DEF DataTurn, BInv, IInv, TInv, TypeOK, LoopsInside
<1>2. /\ Blockers /\ Routed /\ DataBefore /\ Passed
      /\ i \in Nat /\ i \in DOMAIN nodlist /\ DOMAIN nodlist = 1 .. Len(nodlist)
  BY <1>1 DEF BInv, WalkInv, IInv, TInv, TypeOK, LoopsInside
<1>3. Prio[data] \in Int /\ Prio[n] \in Int /\ \A j \in DOMAIN nodlist : Prio[nodlist[j]] \in Int
  BY <1>1, ConfigFacts DEF BInv, IInv, TInv, TypeOK
<1>4. CASE Skipped(n)
  <2>1. i' = i - 1 /\ UNCHANGED <<switchVars, marked, blocked, target, done, phase>>
    BY <1>0, <1>4 DEF DataTurn
  <2>2. WalkInv'
    BY <1>0, <1>1, <1>4, <2>1, WalkSkips
  <2> QED
    BY <1>1, <2>1, <2>2, NothingKeeps, DuringPass DEF BInv, DataRight
<1>5. CASE ~Skipped(n) /\ Prio[data] >= Prio[n]
  <2>1. phase' = "start" /\ i' = i /\ RouteData /\ done' = TRUE
    BY <1>0, <1>5 DEF DataTurn
  <2>2. \A j \in 1 .. i : Prio[nodlist[j]] <= Prio[data]
    <3>1. \A j \in 1 .. i : j \in DOMAIN nodlist /\ (j < i \/ j = i)
      BY <1>2
    <3>2. \A j \in 1 .. i : Prio[nodlist[j]] <= Prio[n]
      BY <1>0, <1>2, <1>3, <3>1 DEF BInv, ListsRight, Ordered
    <3> QED
      BY <1>0, <1>2, <1>3, <1>5, <3>1, <3>2
  <2> QED
    BY <1>1, <2>1, <2>2, PrerouteKeeps
<1>6. CASE ~Skipped(n) /\ ~(Prio[data] >= Prio[n])
  <2>1. /\ phase' = "start" /\ i' = i
        /\ UNCHANGED <<switchVars, marked, blocked, target, done>>
    BY <1>0, <1>6 DEF DataTurn
  <2>2. Prio[data] < Prio[n]
    BY <1>0, <1>2, <1>3, <1>6
  <2>3. done = FALSE
    <3>1. done = TRUE => Prio[n] <= Prio[data]
      BY <1>0, <1>1, <1>2 DEF DataBefore
    <3>2. done # TRUE
      <4> SUFFICES ASSUME done = TRUE PROVE FALSE
        OBVIOUS
      <4>1. Prio[n] <= Prio[data]
        BY <3>1
      <4> QED
        BY <1>3, <2>2, <4>1
    <3> QED
      BY <3>2 DEF BInv, IInv, TInv, TypeOK
  <2>4. Blockers' /\ (\A s : Best(s)' <=> Best(s)) /\ \A s : Skipped(s)' <=> Skipped(s)
    BY <1>1, <1>2, <2>1, QuietKeeps DEF Skipped
  <2>5. Routed' /\ Passed'
    BY <1>1, <1>2, <2>1, <2>4 DEF Routed, Passed
  <2>6. DataBefore'
    <3>1. \A j \in DOMAIN nodlist : j > i => Skipped(nodlist[j]) \/ Prio[data] < Prio[nodlist[j]]
      BY <1>1, <1>2, <2>3 DEF DataBefore
    <3> QED
      BY <1>0, <1>1, <2>1, <2>2, <2>3, <2>4, <3>1 DEF DataBefore
  <2>7. WalkInv'
    BY <2>4, <2>5, <2>6 DEF WalkInv
  <2> QED
    BY <1>1, <2>1, <2>7, NothingKeeps, DuringPass DEF BInv, DataRight
<1> QED
  BY <1>4, <1>5, <1>6

LEMMA DataLastKeeps == ASSUME BInv, TInv', DataLast PROVE Keeps
<1>1. /\ phase = "data" /\ phase' = "data" /\ RouteData /\ done' = TRUE /\ i' = i
      /\ UNCHANGED <<nodeVars, data, stamped, connlist>> /\ i = 0
  BY DEF DataLast
<1> QED
  BY <1>1, PrerouteKeeps

(* After the walk, Ranked is what the invariant says of its end.           *)
LEMMA PassDoneKeeps == ASSUME BInv, PassDone PROVE Keeps
<1>1. /\ phase = "start" /\ i = 0 /\ data = None /\ phase' = "idle"
      /\ UNCHANGED <<nodeVars, switchVars, passVars, connlist, job, deferred>>
  BY DEF PassDone
<1>2. ListsRight' /\ WalkInv'
  BY <1>1 DEF BInv, ListsRight, WalkInv
<1>3. NodesRight'
  BY <1>1 DEF BInv, NodesRight
<1>4. DataRight'
  BY <1>1 DEF BInv, DataRight, Skipped
<1>5. Ranked'
  <2>1. Passed /\ \A s \in stamped : Explicit(s)
    BY <1>1 DEF BInv, WalkInv, DataRight
  <2>2. \A j \in DOMAIN nodlist : j > i
    BY <1>1 DEF BInv, IInv, TInv, TypeOK
  <2>3. \A s \in ToSet(nodlist) : ~Skipped(s) /\ ~Explicit(s) => Best(s)
    BY <2>1, <2>2 DEF Passed, ToSet
  <2> QED
    BY <1>1, <2>3 DEF Ranked, Best, Skipped, Explicit, Candidate, Outranked
<1> QED
  BY <1>1, <1>2, <1>3, <1>4, <1>5 DEF Keeps, PlugBest

LEMMA DataDoneKeeps == ASSUME BInv, DataDone PROVE Keeps
<1>0. PICK n \in Start : n = data /\ n # None
  BY ConfigFacts DEF BInv, IInv, TInv, TypeOK, LoopsInside, DataDone
<1>1. /\ phase = "data" /\ i = 0 /\ done = TRUE /\ phase' = "idle" /\ data' = None
      /\ nodlist' = NodlistWith(n) /\ looped' = looped \cup ({n} \cap Gateway)
      /\ UNCHANGED <<registered, entries, available, attached, mode, i, stamped, marked,
                     blocked, target, unrouted, connlist, job, deferred>>
  BY <1>0 DEF DataDone, BInv, IInv, TInv, TypeOK
<1>2. PICK u \in Unit : at' = [at EXCEPT ![n] = u]
  <2>1. PICK u \in Placements(data) : at' = [at EXCEPT ![data] = u]
    BY DEF DataDone
  <2>2. target[n] \in Device \cup {None} /\ attached \subseteq Device
    BY DEF BInv, IInv, TInv, TypeOK
  <2>3. u \in Unit
    BY <1>0, <2>1, <2>2, ConfigFacts DEF Placements
  <2> QED
    BY <1>0, <2>1, <2>3
<1>3. /\ n \in ToSet(nodlist) => n \in Gateway
      /\ n \in Gateway => n \in ToSet(nodlist)
      /\ \A s \in Stream : target[s] # None => s \in ToSet(nodlist) \/ s = n
      /\ \A s \in stamped : Explicit(s)
  BY <1>0, <1>1 DEF BInv, DataRight, Skipped
<1>4. /\ Ordered(nodlist', Prio)
      /\ ToSet(nodlist') = ToSet(nodlist) \cup ({n} \cap Stream)
  <2>1. CASE n \in Stream
    <3>1. n \notin ToSet(nodlist) /\ nodlist' = InsertByRank(nodlist, n, Prio)
      BY <1>1, <1>3, <2>1, ConfigFacts DEF NodlistWith
    <3>2. nodlist \in Seq(Start) /\ Ordered(nodlist, Prio)
      BY DEF BInv, ListsRight, IInv, TInv, TypeOK
    <3>3. n \in Start /\ Prio \in [Start -> Int]
      BY ConfigFacts
    <3>4. /\ Ordered(nodlist', Prio)
          /\ ToSet(nodlist') = ToSet(nodlist) \cup {n}
      BY <3>1, <3>2, <3>3, InsertByRankOrdered
    <3> QED
      BY <2>1, <3>4
  <2>2. CASE n \notin Stream
    BY <1>1, <2>2 DEF NodlistWith, BInv, ListsRight
  <2> QED
    BY <2>1, <2>2
<1>5. ListsRight'
  BY <1>1, <1>3, <1>4, ConfigFacts DEF BInv, ListsRight
<1>6. NodesRight'
  <2>1. \A s \in Stream \cap ToSet(nodlist') : at'[s] # None
    BY <1>2, <1>4, ConfigFacts DEF BInv, NodesRight, IInv, TInv, TypeOK
  <2> QED
    BY <1>1, <2>1 DEF BInv, NodesRight
<1>7. DataRight'
  <2>1. None \notin ToSet(nodlist')
    BY <1>4, ConfigFacts, ElementOfSeq DEF ToSet, BInv, IInv, TInv, TypeOK
  <2> QED
    BY <1>0, <1>1, <1>3, <1>4, <2>1, ConfigFacts DEF DataRight
<1>8. Ranked'
  <2>1. Passed /\ DataBefore
    BY <1>1 DEF BInv, WalkInv
  <2>2. \A j \in DOMAIN nodlist : j > i
    BY <1>1 DEF BInv, IInv, TInv, TypeOK
  <2>3. Best(n)
    BY <1>0, <1>1, <2>1 DEF DataBefore
  <2>4. \A s \in ToSet(nodlist) : ~Skipped(s) /\ ~Explicit(s) => Best(s)
    BY <1>3, <2>1, <2>2 DEF Passed, ToSet
  <2>5. ASSUME NEW s \in ToSet(nodlist'), ~(s \in Gateway /\ s \notin looped'), ~Explicit(s)
        PROVE  Best(s)
    BY <1>1, <1>4, <2>3, <2>4, <2>5 DEF Skipped
  <2> QED
    BY <1>1, <2>5 DEF Ranked, Best, Skipped, Explicit, Candidate, Outranked
<1> QED
  BY <1>1, <1>5, <1>6, <1>7, <1>8 DEF Keeps, WalkInv, PlugBest

-----------------------------------------------------------------------------
(* The handlers.                                                           *)

LEMMA ListElems ==
  ASSUME TypeOK
  PROVE  /\ ToSet(nodlist) \subseteq Start /\ None \notin ToSet(nodlist)
         /\ \A g \in RtGroup : entries[g] \in Seq(Device)
BY ElementOfSeq, ConfigFacts DEF ToSet, TypeOK

(* Between the passes no stream without a node has a target.               *)
LEMMA AtRest ==
  ASSUME BInv, phase \in {"idle", "plug", "unplug"}
  PROVE  data = None /\ \A s \in Stream : target[s] # None => s \in ToSet(nodlist)
BY ConfigFacts DEF BInv, DataRight

LEMMA NoPass ==
  ASSUME data = None, data' = None, TypeOK', phase' \in {"idle", "plug", "unplug"},
         \A s \in Stream : target'[s] # None => s \in ToSet(nodlist'),
         phase' = "idle" => deferred' = TRUE \/ Ranked',
         phase' = "plug" => PlugBest'
  PROVE  DataRight' /\ WalkInv' /\ Ranked' /\ PlugBest'
<1>1. None \notin ToSet(nodlist')
  BY ElementOfSeq, ConfigFacts DEF ToSet, TypeOK
<1>2. DataRight' /\ WalkInv'
  BY <1>1, ConfigFacts DEF DataRight, WalkInv
<1>3. Ranked' /\ PlugBest'
  BY DEF Ranked, PlugBest, Settled
<1> QED
  BY <1>2, <1>3

LEMMA PassBegins ==
  ASSUME NEW n, BeginPass(n), \A s \in Stream : target'[s] # None => s \in ToSet(nodlist'),
         n \in ToSet(nodlist') => n \in Gateway /\ n \notin looped',
         n \in Gateway => n \in ToSet(nodlist')
  PROVE  DataRight' /\ WalkInv' /\ Ranked' /\ PlugBest'
<1>1. phase' = "explicit" /\ data' = n /\ done' = FALSE /\ stamped' = {}
  BY DEF BeginPass
<1> QED
  BY <1>1 DEF DataRight, WalkInv, Ranked, PlugBest, Settled, Skipped

LEMMA PassBeginsForNone ==
  ASSUME BeginPass(None), \A s \in Stream : target'[s] # None => s \in ToSet(nodlist'), TypeOK'
  PROVE  DataRight' /\ WalkInv' /\ Ranked' /\ PlugBest'
<1>1. None \notin ToSet(nodlist') /\ None \notin Gateway
  BY ElementOfSeq, ConfigFacts DEF ToSet, TypeOK
<1> QED
  BY <1>1, PassBegins

LEMMA SameLists ==
  ASSUME ListsRight, UNCHANGED nodeVars
  PROVE  ListsRight'
BY DEF ListsRight

LEMMA ConnTyped ==
  ASSUME TypeOK, NEW k \in DOMAIN connlist
  PROVE  connlist[k] \in [from : Stream \cup {None}, to : Device \cup {None}, blocked : BOOLEAN]
<1> DEFINE C == [from : Stream \cup {None}, to : Device \cup {None}, blocked : BOOLEAN]
<1>1. connlist \in Seq(C)
  BY DEF TypeOK
<1> HIDE DEF C
<1>2. connlist[k] \in C
  BY <1>1, ElementOfSeq
<1> QED
  BY <1>2 DEF C

(* A stream or a gateway enters the node list.                             *)
LEMMA NodlistGrows ==
  ASSUME TypeOK, ListsRight, NEW s \in Start, s \notin ToSet(nodlist)
  PROVE  /\ Ordered(InsertByRank(nodlist, s, Prio), Prio)
         /\ ToSet(InsertByRank(nodlist, s, Prio)) = ToSet(nodlist) \cup {s}
<1>1. nodlist \in Seq(Start) /\ Ordered(nodlist, Prio) /\ Prio \in [Start -> Int]
  BY ConfigFacts DEF TypeOK, ListsRight
<1> QED
  BY <1>1, InsertByRankOrdered

LEMMA PlugUnitKeeps ==
  ASSUME BInv, TInv', NEW u \in Unit, PlugUnit(u)
  PROVE  Keeps
<1>1. /\ phase = "idle" /\ phase' = "plug" /\ job' = u
      /\ UNCHANGED <<nodeVars, switchVars, passVars, connlist, deferred>>
  BY DEF PlugUnit
<1>2. NodesRight'
  BY <1>1 DEF BInv, NodesRight
<1>3. PlugBest'
  BY <1>1 DEF BInv, PlugBest, Ranked, Settled, Skipped, Explicit, Candidate, Outranked
<1> QED
  BY <1>1, <1>2, <1>3, AtRest, NoPass, SameLists DEF Keeps, BInv, TInv

LEMMA CreateNodeKeeps ==
  ASSUME BInv, TInv', NEW d \in Device, NEW avail \in BOOLEAN, CreateNode(d, avail)
  PROVE  Keeps
<1>1. /\ phase = "plug" /\ d \notin registered /\ registered' = registered \cup {d}
      /\ UnitOf[d] \in ProfileUnit => d \in available'
      /\ available \subseteq available'
      /\ UNCHANGED <<nodlist, looped, at, data, target, unrouted, connlist, phase, job,
                     deferred>>
  BY DEF CreateNode
<1>2. ASSUME NEW g \in RtGroup
      PROVE  /\ Ordered(entries'[g], Rank[g])
             /\ ToSet(entries'[g]) = Accept[g] \cap registered'
  <2>1. /\ Ordered(entries[g], Rank[g]) /\ ToSet(entries[g]) = Accept[g] \cap registered
        /\ entries[g] \in Seq(Device) /\ Rank[g] \in [Device -> Int]
    BY ConfigFacts DEF BInv, ListsRight, IInv, TInv, TypeOK
  <2>2. CASE d \in Accept[g]
    <3>1. entries'[g] = InsertByRank(entries[g], d, Rank[g])
      BY <2>2 DEF CreateNode
    <3>2. d \notin ToSet(entries[g])
      BY <1>1, <2>1
    <3>3. /\ Ordered(InsertByRank(entries[g], d, Rank[g]), Rank[g])
          /\ ToSet(InsertByRank(entries[g], d, Rank[g])) = ToSet(entries[g]) \cup {d}
      BY <2>1, <3>2, InsertByRankOrdered
    <3> QED
      BY <1>1, <2>1, <2>2, <3>1, <3>3
  <2>3. CASE d \notin Accept[g]
    <3>1. entries'[g] = entries[g]
      BY <2>3 DEF CreateNode
    <3> QED
      BY <1>1, <2>1, <2>3, <3>1
  <2> QED
    BY <2>2, <2>3
<1>3. ListsRight'
  BY <1>1, <1>2 DEF BInv, ListsRight
<1>4. NodesRight'
  BY <1>1 DEF BInv, NodesRight
<1>5. PlugBest'
  <2>1. /\ d \in DevicesOn(job) /\ attached' = attached
        /\ \A e : e # d => (e \in available' <=> e \in available)
    BY DEF CreateNode, DevicesOn
  <2> QED
    BY <1>1, <2>1 DEF BInv, PlugBest, Skipped, Explicit, Candidate, Outranked
<1> QED
  BY <1>1, <1>3, <1>4, <1>5, AtRest, NoPass DEF Keeps, TInv

LEMMA ProfileStays ==
  ASSUME NEW u \in ProfileUnit, NEW m, TInv,
         Becomes(ProfileSwitched(u, m)) \/ Becomes(ProfileForced(u, m))
  PROVE  /\ available \subseteq available'
         /\ \A s \in Start : at[s] # None => at'[s] # None
<1>1. /\ available \subseteq available'
      /\ at' = [s \in Start |-> IF at[s] = u THEN NullUnit ELSE at[s]]
  BY DEF Becomes, ProfileSwitched, ProfileForced, ProfileWith
<1> QED
  BY <1>1, ConfigFacts

LEMMA PlugDoneKeeps ==
  ASSUME BInv, TInv', NEW m \in Mode, PlugDone(m)
  PROVE  Keeps
<1>1. phase = "plug" /\ UNCHANGED <<nodeVars, connlist, target>>
  BY DEF PlugDone
<1>2. phase' # "plug" /\ available \subseteq available' /\ \A s \in Start : at[s] # None => at'[s] # None
  <2>1. phase' # "plug"
    BY DEF PlugDone, BeginPass
  <2>2. CASE job \in ProfileUnit
    <3>1. Becomes(ProfileSwitched(job, m))
      BY <2>2, ConfigFacts DEF PlugDone
    <3> QED
      BY <2>1, <2>2, <3>1, ProfileStays DEF BInv, IInv
  <2>3. CASE job \notin ProfileUnit
    BY <2>1, <2>3 DEF PlugDone
  <2> QED
    BY <2>2, <2>3
<1>3. ListsRight' /\ NodesRight'
  BY <1>1, <1>2, ConfigFacts DEF BInv, ListsRight, NodesRight
<1>4. CASE job \in PortUnit \cup {NullUnit}
  <2>1. BeginPass(None)
    BY <1>4 DEF PlugDone
  <2> QED
    BY <1>1, <1>3, <2>1, AtRest, PassBeginsForNone DEF Keeps, TInv
<1>5. CASE job \notin PortUnit \cup {NullUnit}
  <2>1. phase' = "idle" /\ UNCHANGED <<i, data, done, stamped, marked, blocked>>
    BY <1>5 DEF PlugDone
  <2>2. deferred' = TRUE \/ Ranked'
    <3>1. CASE job \in ProfileUnit
      BY <3>1, ConfigFacts DEF PlugDone
    <3>2. CASE job \in PlainUnit \ {NullUnit}
      <4>1. /\ attached' = attached \cup DevicesOn(job)
            /\ available' = available \cup DevicesOn(job)
            /\ unrouted' = unrouted \cup DevicesOn(job) /\ deferred' = deferred
        BY <1>5, <3>2, ConfigFacts DEF PlugDone
      <4> QED
        BY <1>1, <2>1, <3>2, <4>1
        DEF BInv, PlugBest, Ranked, Settled, Skipped, Explicit, Candidate, Outranked
    <3> QED
      BY <1>5, <3>1, <3>2 DEF PlugDone
  <2> QED
    BY <1>1, <1>3, <2>1, <2>2, AtRest, NoPass DEF Keeps, TInv
<1> QED
  BY <1>4, <1>5

LEMMA UnplugUnitKeeps ==
  ASSUME BInv, TInv', NEW u \in Unit, UnplugUnit(u)
  PROVE  Keeps
<1>1. /\ phase = "idle" /\ phase' = "unplug" /\ UNCHANGED <<nodeVars, passVars, connlist>>
      /\ at' = [s \in Start |-> IF at[s] = u THEN NullUnit ELSE at[s]]
  BY DEF UnplugUnit
<1>2. \A d \in registered : UnitOf[d] \in ProfileUnit => d \in available'
  <2>1. \A d \in DevicesOn(u) : UnitOf[d] = u
    BY DEF DevicesOn
  <2> QED
    BY <2>1, ConfigFacts DEF UnplugUnit, BInv, NodesRight
<1>3. NodesRight'
  BY <1>1, <1>2, ConfigFacts DEF BInv, NodesRight
<1> QED
  BY <1>1, <1>3, AtRest, NoPass, SameLists DEF Keeps, BInv, TInv

LEMMA DestroyNodeKeeps ==
  ASSUME BInv, TInv', NEW d \in Device, DestroyNode(d)
  PROVE  Keeps
<1>1. /\ phase = "unplug" /\ registered' = registered \ {d} /\ available' = available \ {d}
      /\ entries' = [g \in RtGroup |-> Unlink(entries[g], d)]
      /\ connlist' = [k \in DOMAIN connlist |->
                       IF connlist[k].to = d THEN [connlist[k] EXCEPT !.to = None]
                       ELSE connlist[k]]
      /\ UNCHANGED <<nodlist, looped, at, data, target, phase, job>>
  BY DEF DestroyNode
<1>2. ASSUME NEW g \in RtGroup
      PROVE  /\ Ordered(entries'[g], Rank[g])
             /\ ToSet(entries'[g]) = Accept[g] \cap registered'
  <2>1. /\ Ordered(entries[g], Rank[g]) /\ ToSet(entries[g]) = Accept[g] \cap registered
        /\ entries[g] \in Seq(Device)
    BY DEF BInv, ListsRight, IInv, TInv, TypeOK
  <2>2. entries'[g] = Unlink(entries[g], d)
    BY <1>1
  <2>3. /\ Ordered(Unlink(entries[g], d), Rank[g])
        /\ ToSet(Unlink(entries[g], d)) = ToSet(entries[g]) \ {d}
    BY <2>1, UnlinkOrdered
  <2> QED
    BY <1>1, <2>1, <2>2, <2>3
<1>3. ListsRight'
  BY <1>1, <1>2 DEF BInv, ListsRight
<1>4. \A k \in DOMAIN connlist' : connlist'[k].blocked = FALSE
  <2> SUFFICES ASSUME NEW k \in DOMAIN connlist PROVE connlist'[k].blocked = FALSE
    BY <1>1
  <2>1. connlist[k].blocked = FALSE
    BY DEF BInv, NodesRight
  <2>2. connlist'[k] = connlist[k] \/ connlist'[k] = [connlist[k] EXCEPT !.to = None]
    BY <1>1
  <2>3. connlist[k] \in [from : Stream \cup {None}, to : Device \cup {None}, blocked : BOOLEAN]
    BY ConnTyped DEF BInv, IInv, TInv
  <2> QED
    BY <2>1, <2>2, <2>3
<1>5. NodesRight'
  BY <1>1, <1>4 DEF BInv, NodesRight
<1> QED
  BY <1>1, <1>3, <1>5, AtRest, NoPass DEF Keeps, TInv

LEMMA UnplugDoneKeeps == ASSUME BInv, TInv', UnplugDone PROVE Keeps
<1>1. /\ phase = "unplug" /\ phase' = "explicit" /\ BeginPass(None)
      /\ UNCHANGED <<nodeVars, switchVars, target, connlist>>
  BY DEF UnplugDone, BeginPass
<1>2. NodesRight'
  BY <1>1 DEF BInv, NodesRight
<1> QED
  BY <1>1, <1>2, AtRest, PassBeginsForNone, SameLists DEF Keeps, BInv, TInv

LEMMA PortAvailableKeeps ==
  ASSUME BInv, TInv', NEW d \in Device, PortAvailable(d)
  PROVE  Keeps
<1>1. /\ phase = "idle" /\ phase' = "explicit" /\ BeginPass(None) /\ UnitOf[d] \in PortUnit
      /\ \A e \in available : e # d => e \in available'
      /\ UNCHANGED <<nodeVars, at, target, connlist>>
  BY DEF PortAvailable, BeginPass
<1>2. NodesRight'
  BY <1>1, ConfigFacts DEF BInv, NodesRight
<1> QED
  BY <1>1, <1>2, AtRest, PassBeginsForNone, SameLists DEF Keeps, BInv, TInv

LEMMA ProfileChangedKeeps ==
  ASSUME BInv, TInv', NEW u \in Unit, NEW m \in Mode, ProfileChanged(u, m)
  PROVE  Keeps
<1>1. /\ phase = "idle" /\ u \in ProfileUnit /\ Becomes(ProfileForced(u, m))
      /\ deferred' = TRUE /\ UNCHANGED <<nodeVars, passVars, connlist, phase, job>>
  BY DEF ProfileChanged
<1>2. available \subseteq available' /\ \A s \in Start : at[s] # None => at'[s] # None
  BY <1>1, ProfileStays DEF BInv, IInv
<1>3. NodesRight'
  BY <1>1, <1>2, ConfigFacts DEF BInv, NodesRight
<1> QED
  BY <1>1, <1>3, AtRest, NoPass, SameLists DEF Keeps, BInv, TInv

LEMMA PortChangedKeeps ==
  ASSUME BInv, TInv', NEW d \in Device, PortChanged(d)
  PROVE  Keeps
<1>1. /\ phase = "idle" /\ phase' = "idle"
      /\ UNCHANGED <<nodeVars, available, attached, at, passVars, connlist, job, deferred>>
  BY DEF PortChanged
<1>2. NodesRight'
  BY <1>1 DEF BInv, NodesRight
<1>3. Ranked'
  BY <1>1 DEF BInv, Ranked, Settled, Skipped, Explicit, Candidate, Outranked
<1> QED
  BY <1>1, <1>2, <1>3, AtRest, NoPass, SameLists DEF Keeps, BInv, TInv

LEMMA DeferredRoutingKeeps == ASSUME BInv, TInv', DeferredRouting PROVE Keeps
<1>1. /\ phase = "idle" /\ phase' = "explicit" /\ BeginPass(None)
      /\ UNCHANGED <<nodeVars, switchVars, target, connlist>>
  BY DEF DeferredRouting, BeginPass
<1>2. NodesRight'
  BY <1>1 DEF BInv, NodesRight
<1> QED
  BY <1>1, <1>2, AtRest, PassBeginsForNone, SameLists DEF Keeps, BInv, TInv

LEMMA NewStreamKeeps == ASSUME BInv, TInv', NEW s \in Stream, NewStream(s) PROVE Keeps
<1>1. /\ phase = "idle" /\ phase' = "explicit" /\ BeginPass(s) /\ s \notin ToSet(nodlist)
      /\ UNCHANGED <<nodeVars, switchVars, target, connlist>>
  BY DEF NewStream, BeginPass
<1>2. NodesRight'
  BY <1>1 DEF BInv, NodesRight
<1>3. s \notin Gateway
  BY ConfigFacts
<1> QED
  BY <1>1, <1>2, <1>3, AtRest, PassBegins, SameLists DEF Keeps, BInv

LEMMA NewChosenKeeps == ASSUME BInv, TInv', NEW s \in Chooser, NewChosen(s) PROVE Keeps
<1>1. /\ phase = "idle" /\ phase' = "idle" /\ at[s] = None /\ nodlist' = NodlistWith(s)
      /\ unrouted' = unrouted \cup {s}
      /\ UNCHANGED <<registered, entries, looped, available, attached, mode, data, target,
                     connlist, job, deferred>>
  BY DEF NewChosen
<1>2. s \in Start /\ s \notin Gateway
  BY RouterConfig, ConfigFacts
<1>3. PICK u \in Unit : at' = [at EXCEPT ![s] = u]
  BY ConfigFacts DEF NewChosen, BInv, IInv, TInv, TypeOK
<1>4. s \in Stream => s \notin ToSet(nodlist) /\ target[s] = None
  BY <1>1, AtRest DEF BInv, NodesRight
<1>5. /\ Ordered(nodlist', Prio)
      /\ ToSet(nodlist') = ToSet(nodlist) \cup ({s} \cap Stream)
  <2>1. CASE s \in Stream
    <3>1. s \notin ToSet(nodlist) /\ nodlist' = InsertByRank(nodlist, s, Prio)
      BY <1>1, <1>4, <2>1 DEF NodlistWith
    <3> QED
      BY <1>2, <2>1, <3>1, NodlistGrows DEF BInv, IInv, TInv
  <2>2. CASE s \notin Stream
    BY <1>1, <2>2 DEF NodlistWith, BInv, ListsRight
  <2> QED
    BY <2>1, <2>2
<1>6. ListsRight'
  BY <1>1, <1>5, ConfigFacts DEF BInv, ListsRight
<1>7. NodesRight'
  <2>1. \A x \in Stream \cap ToSet(nodlist') : at'[x] # None
    BY <1>2, <1>3, <1>5, ConfigFacts DEF BInv, NodesRight, IInv, TInv, TypeOK
  <2> QED
    BY <1>1, <2>1 DEF BInv, NodesRight
<1>8. Ranked'
  BY <1>1, <1>4, <1>5 DEF BInv, Ranked, Settled, Skipped, Explicit, Candidate, Outranked
<1> QED
  BY <1>1, <1>5, <1>6, <1>7, <1>8, AtRest, NoPass DEF Keeps, TInv

LEMMA RemoveStreamKeeps == ASSUME BInv, TInv', NEW s \in Stream, RemoveStream(s) PROVE Keeps
<1>1. /\ phase = "idle" /\ phase' = "explicit" /\ BeginPass(None)
      /\ nodlist' = Unlink(nodlist, s) /\ at' = [at EXCEPT ![s] = None]
      /\ target' = [target EXCEPT ![s] = None]
      /\ connlist' = [k \in DOMAIN connlist |->
                       IF connlist[k].from = s THEN [connlist[k] EXCEPT !.from = None]
                       ELSE connlist[k]]
      /\ UNCHANGED <<registered, entries, looped, available, attached>>
  BY DEF RemoveStream, BeginPass
<1>2. Ordered(nodlist', Prio) /\ ToSet(nodlist') = ToSet(nodlist) \ {s}
  <2>1. nodlist \in Seq(Start) /\ Ordered(nodlist, Prio)
    BY DEF BInv, ListsRight, IInv, TInv, TypeOK
  <2>2. Ordered(Unlink(nodlist, s), Prio) /\ ToSet(Unlink(nodlist, s)) = ToSet(nodlist) \ {s}
    BY <2>1, UnlinkOrdered
  <2> QED
    BY <1>1, <2>2
<1>3. ListsRight'
  <2>1. s \notin looped
    BY ConfigFacts DEF BInv, IInv, TInv, TypeOK
  <2> QED
    BY <1>1, <1>2, <2>1 DEF BInv, ListsRight
<1>4. \A k \in DOMAIN connlist' : connlist'[k].blocked = FALSE
  <2> SUFFICES ASSUME NEW k \in DOMAIN connlist PROVE connlist'[k].blocked = FALSE
    BY <1>1
  <2>1. connlist[k].blocked = FALSE
    BY DEF BInv, NodesRight
  <2>2. connlist'[k] = connlist[k] \/ connlist'[k] = [connlist[k] EXCEPT !.from = None]
    BY <1>1
  <2>3. connlist[k] \in [from : Stream \cup {None}, to : Device \cup {None}, blocked : BOOLEAN]
    BY ConnTyped DEF BInv, IInv, TInv
  <2> QED
    BY <2>1, <2>2, <2>3
<1>5. NodesRight'
  <2>1. \A x \in Stream \cap ToSet(nodlist') : at'[x] # None
    BY <1>1, <1>2, ConfigFacts DEF BInv, NodesRight, IInv, TInv, TypeOK
  <2> QED
    BY <1>1, <1>4, <2>1 DEF BInv, NodesRight
<1>6. \A x \in Stream : target'[x] # None => x \in ToSet(nodlist')
  BY <1>1, <1>2, AtRest, ConfigFacts DEF BInv, IInv, TInv, TypeOK
<1> QED
  BY <1>1, <1>3, <1>5, <1>6, PassBeginsForNone DEF Keeps, TInv

LEMMA NewRecordingKeeps ==
  ASSUME BInv, TInv', NEW s \in Recorder, NewRecording(s)
  PROVE  Keeps
<1>1. /\ phase = "idle" /\ phase' = "explicit" /\ BeginPass(s)
      /\ UNCHANGED <<nodeVars, switchVars, target, connlist>>
  BY DEF NewRecording, BeginPass
<1>2. NodesRight'
  BY <1>1 DEF BInv, NodesRight
<1>3. s \notin Gateway /\ s \notin ToSet(nodlist)
  BY ConfigFacts DEF BInv, ListsRight
<1> QED
  BY <1>1, <1>2, <1>3, AtRest, PassBegins, SameLists DEF Keeps, BInv

LEMMA RemoveRecordingKeeps ==
  ASSUME BInv, TInv', NEW s \in Recorder, RemoveRecording(s)
  PROVE  Keeps
<1>1. /\ phase = "idle" /\ phase' = "explicit" /\ BeginPass(None)
      /\ at' = [at EXCEPT ![s] = None] /\ target' = [target EXCEPT ![s] = None]
      /\ UNCHANGED <<nodeVars, available, attached, connlist>>
  BY DEF RemoveRecording, BeginPass
<1>2. \A x \in Stream : at'[x] = at[x] /\ target'[x] = target[x]
  BY <1>1, ConfigFacts DEF BInv, IInv, TInv, TypeOK
<1>3. NodesRight'
  BY <1>1, <1>2 DEF BInv, NodesRight
<1> QED
  BY <1>1, <1>2, <1>3, AtRest, PassBeginsForNone, SameLists DEF Keeps, BInv, TInv

LEMMA AddGatewayKeeps == ASSUME BInv, TInv', NEW g \in Gateway, AddGateway(g) PROVE Keeps
<1>1. /\ phase = "idle" /\ phase' = "idle" /\ g \notin ToSet(nodlist)
      /\ nodlist' = InsertByRank(nodlist, g, Prio) /\ deferred' \in {deferred, TRUE}
      /\ UNCHANGED <<registered, entries, looped, switchVars, passVars, connlist, job>>
  BY DEF AddGateway
<1>2. /\ Ordered(nodlist', Prio)
      /\ ToSet(nodlist') = ToSet(nodlist) \cup {g}
  BY <1>1, NodlistGrows, ConfigFacts DEF BInv, IInv, TInv
<1>3. g \notin Recorder /\ g \notin Stream /\ g \notin looped
  BY <1>1, ConfigFacts DEF BInv, ListsRight
<1>4. ListsRight'
  BY <1>1, <1>2, <1>3 DEF BInv, ListsRight
<1>5. NodesRight'
  BY <1>1, <1>2, <1>3 DEF BInv, NodesRight
<1>6. Ranked'
  <2> SUFFICES ASSUME ~deferred' PROVE Ranked'
    BY DEF Ranked, Settled
  <2>1. ~deferred
    BY <1>1
  <2> QED
    BY <1>1, <1>2, <1>3, <2>1
    DEF BInv, Ranked, Settled, Skipped, Explicit, Candidate, Outranked
<1> QED
  BY <1>1, <1>2, <1>4, <1>5, <1>6, AtRest, NoPass DEF Keeps, TInv

LEMMA GatewaySourceKeeps ==
  ASSUME BInv, TInv', NEW g \in Gateway, GatewaySource(g)
  PROVE  Keeps
<1>1. /\ phase = "idle" /\ phase' = "explicit" /\ BeginPass(g) /\ g \in ToSet(nodlist) \ looped
      /\ UNCHANGED <<nodeVars, switchVars, target, connlist>>
  BY DEF GatewaySource, BeginPass
<1>2. NodesRight'
  BY <1>1 DEF BInv, NodesRight
<1> QED
  BY <1>1, <1>2, AtRest, PassBegins, SameLists DEF Keeps, BInv

LEMMA GatewaySourceGoneKeeps ==
  ASSUME BInv, TInv', NEW g \in Gateway, GatewaySourceGone(g)
  PROVE  Keeps
<1>1. /\ phase = "idle" /\ phase' = "idle" /\ looped' = looped \ {g}
      /\ at' = [at EXCEPT ![g] = None] /\ target' = [target EXCEPT ![g] = None]
      /\ deferred' = TRUE
      /\ UNCHANGED <<registered, entries, nodlist, available, attached, data, connlist>>
  BY DEF GatewaySourceGone
<1>2. \A x \in Stream : at'[x] = at[x] /\ target'[x] = target[x]
  BY <1>1, ConfigFacts DEF BInv, IInv, TInv, TypeOK
<1>3. ListsRight' /\ NodesRight'
  BY <1>1, <1>2 DEF BInv, ListsRight, NodesRight
<1> QED
  BY <1>1, <1>2, <1>3, AtRest, NoPass DEF Keeps, TInv

LEMMA RemoveGatewayKeeps ==
  ASSUME BInv, TInv', NEW g \in Gateway, RemoveGateway(g)
  PROVE  Keeps
<1>1. /\ phase = "idle" /\ phase' = "explicit" /\ BeginPass(None) /\ g \notin looped
      /\ nodlist' = Unlink(nodlist, g)
      /\ UNCHANGED <<registered, entries, looped, switchVars, target, connlist>>
  BY DEF RemoveGateway, BeginPass
<1>2. Ordered(nodlist', Prio) /\ ToSet(nodlist') = ToSet(nodlist) \ {g}
  <2>1. nodlist \in Seq(Start) /\ Ordered(nodlist, Prio)
    BY DEF BInv, ListsRight, IInv, TInv, TypeOK
  <2>2. Ordered(Unlink(nodlist, g), Prio) /\ ToSet(Unlink(nodlist, g)) = ToSet(nodlist) \ {g}
    BY <2>1, UnlinkOrdered
  <2> QED
    BY <1>1, <2>2
<1>3. ListsRight' /\ NodesRight'
  BY <1>1, <1>2 DEF BInv, ListsRight, NodesRight
<1>4. \A x \in Stream : target'[x] # None => x \in ToSet(nodlist')
  BY <1>1, <1>2, AtRest, ConfigFacts
<1> QED
  BY <1>1, <1>3, <1>4, PassBeginsForNone DEF Keeps, TInv

LEMMA AddExplicitRouteKeeps ==
  ASSUME BInv, TInv', NEW s \in Stream, NEW d \in Device, AddExplicitRoute(s, d)
  PROVE  Keeps
<1>1. /\ phase = "idle" /\ phase' = "explicit" /\ BeginPass(None)
      /\ connlist' = Append(connlist, [from |-> s, to |-> d, blocked |-> FALSE])
      /\ UNCHANGED <<nodeVars, switchVars, target>>
  BY DEF AddExplicitRoute, BeginPass
<1>2. \A k \in DOMAIN connlist' : connlist'[k].blocked = FALSE
  <2>1. connlist \in Seq([from : Stream \cup {None}, to : Device \cup {None},
                          blocked : BOOLEAN])
    BY DEF BInv, IInv, TInv, TypeOK
  <2> QED
    BY <1>1, <2>1 DEF BInv, NodesRight
<1>3. NodesRight'
  BY <1>1, <1>2 DEF BInv, NodesRight
<1> QED
  BY <1>1, <1>3, AtRest, PassBeginsForNone, SameLists DEF Keeps, BInv, TInv

LEMMA RemoveExplicitRouteKeeps ==
  ASSUME BInv, TInv', NEW k \in 1 .. MaxConn, RemoveExplicitRoute(k)
  PROVE  Keeps
<1> DEFINE C == [from : Stream \cup {None}, to : Device \cup {None}, blocked : BOOLEAN]
<1>1. /\ phase = "idle" /\ k \in DOMAIN connlist /\ connlist' = RemoveAt(connlist, k)
      /\ UNCHANGED <<nodeVars, available, attached, target, deferred>>
  BY DEF RemoveExplicitRoute
<1>2. /\ connlist \in Seq(C) /\ connlist[k] \in C /\ connlist[k].blocked = FALSE
  <2>1. connlist \in Seq(C)
    BY DEF BInv, IInv, TInv, TypeOK
  <2> HIDE DEF C
  <2> QED
    BY <1>1, <2>1, ElementOfSeq DEF BInv, NodesRight
<1>3. /\ DOMAIN connlist' = 1 .. Len(connlist) - 1 /\ DOMAIN connlist = 1 .. Len(connlist)
      /\ Len(connlist) \in Nat
      /\ \A j \in 1 .. Len(connlist) - 1 :
           connlist'[j] = IF j < k THEN connlist[j] ELSE connlist[j + 1]
  <2> HIDE DEF C
  <2> QED
    BY <1>1, <1>2, RemoveAtAt, ListAt
<1>4. \A j \in DOMAIN connlist' : connlist'[j].blocked = FALSE
  <2> SUFFICES ASSUME NEW j \in DOMAIN connlist' PROVE connlist'[j].blocked = FALSE
    OBVIOUS
  <2>1. j \in DOMAIN connlist /\ j + 1 \in DOMAIN connlist
    BY <1>3
  <2> QED
    BY <1>3, <2>1 DEF BInv, NodesRight
<1>5. ASSUME NEW s \in Start, s # connlist[k].from \/ ~Live(connlist[k]), Explicit(s)
      PROVE  Explicit(s)'
  <2>1. PICK j \in DOMAIN connlist : connlist[j].from = s /\ connlist[j].to # None
    BY <1>5 DEF Explicit
  <2>2. j # k
    BY <1>5, <2>1, ConfigFacts DEF Live
  <2>3. CASE j < k
    <3>1. j \in DOMAIN connlist' /\ connlist'[j] = connlist[j]
      BY <1>1, <1>3, <2>3
    <3> QED
      BY <2>1, <3>1 DEF Explicit
  <2>4. CASE k < j
    <3>1. /\ j - 1 \in DOMAIN connlist' /\ (j - 1) + 1 = j
          /\ connlist'[j - 1] = connlist[(j - 1) + 1]
      BY <1>1, <1>3, <2>4
    <3> QED
      BY <2>1, <3>1 DEF Explicit
  <2> QED
    BY <1>1, <1>3, <2>2, <2>3, <2>4
<1>6. CASE BeginPass(None) /\ at' = [at EXCEPT ![connlist[k].from] = NullUnit]
  <2>1. \A s \in Start : at[s] # None => at'[s] # None
    BY <1>6, ConfigFacts DEF BInv, IInv, TInv, TypeOK
  <2>2. phase' = "explicit"
    BY <1>6 DEF BeginPass
  <2>3. NodesRight'
    BY <1>1, <1>4, <2>1, <2>2, ConfigFacts DEF BInv, NodesRight
  <2> QED
    BY <1>1, <1>6, <2>3, AtRest, PassBeginsForNone, SameLists DEF Keeps, BInv, TInv
<1>7. CASE /\ UNCHANGED <<at, phase, i, data, done, stamped, marked, blocked>>
           /\ \/ ~Live(connlist[k]) /\ unrouted' = unrouted
              \/ unrouted' = unrouted \cup {connlist[k].from}
  <2>1. NodesRight'
    BY <1>1, <1>4, <1>7 DEF BInv, NodesRight
  <2>2. Ranked'
    <3>1. ASSUME NEW s \in ToSet(nodlist) \ unrouted', ~Explicit(s)' PROVE ~Explicit(s)
      BY <1>5, <1>7, <3>1, ListElems DEF BInv, IInv, TInv
    <3>2. unrouted \subseteq unrouted'
      BY <1>7
    <3> QED
      BY <1>1, <1>7, <3>1, <3>2 DEF BInv, Ranked, Settled, Skipped, Candidate, Outranked
  <2> QED
    BY <1>1, <1>7, <2>1, <2>2, AtRest, NoPass, SameLists DEF Keeps, BInv, TInv
<1> QED
  BY <1>2, <1>6, <1>7 DEF RemoveExplicitRoute, passState

LEMMA InitSafe == Init => IInv
<1> SUFFICES ASSUME Init PROVE PassInv /\ NoConflictingRoutes
  BY InitType DEF IInv
<1>1. phase = "plug" /\ \A s \in Start : target[s] = None
  BY DEF Init
<1> QED
  BY <1>1 DEF PassInv, NoConflictingRoutes

LEMMA InitBest ==
  Init => ListsRight /\ NodesRight /\ DataRight /\ WalkInv /\ Ranked /\ PlugBest
<1> SUFFICES ASSUME Init
             PROVE  ListsRight /\ NodesRight /\ DataRight /\ WalkInv /\ Ranked /\ PlugBest
  OBVIOUS
<1>1. /\ registered = {} /\ nodlist = <<>> /\ looped = {} /\ connlist = <<>>
      /\ \A g \in RtGroup : entries[g] = <<>>
      /\ phase = "plug" /\ job = NullUnit /\ data = None /\ stamped = {}
      /\ \A s \in Start : target[s] = None
  BY DEF Init
<1>2. ToSet(nodlist) = {} /\ Ordered(nodlist, Prio)
  BY <1>1, EmptyOrdered
<1>3. ListsRight
  BY <1>1, <1>2, EmptyOrdered DEF ListsRight
<1>4. NodesRight
  BY <1>1, <1>2 DEF NodesRight
<1>5. DataRight
  BY <1>1, <1>2, ConfigFacts DEF DataRight
<1> QED
  BY <1>1, <1>3, <1>4, <1>5 DEF WalkInv, Ranked, PlugBest, Settled

LEMMA NextBest ==
  ASSUME BInv, TInv', [Next]_vars
  PROVE  Keeps
<1>1. CASE UNCHANGED vars
  BY <1>1
  DEF BInv, Keeps, ListsRight, NodesRight, DataRight, WalkInv, Ranked, PlugBest, Settled,
      Skipped, Explicit, Candidate, Outranked, Blockers, Routed, DataBefore, Passed, Best, Found, Open,
      Conflict
<1>2. CASE PassStep
  BY <1>2, ExplicitRouteKeeps, ExplicitDoneKeeps, DataTurnKeeps, StartTurnKeeps,
     PassDoneKeeps, DataLastKeeps, DataDoneKeeps DEF PassStep
<1>3. ASSUME NEW u \in Unit, PlugUnit(u) \/ UnplugUnit(u) PROVE Keeps
  BY <1>3, PlugUnitKeeps, UnplugUnitKeeps
<1>4. ASSUME NEW d \in Device, NEW avail \in BOOLEAN, CreateNode(d, avail) PROVE Keeps
  BY <1>4, CreateNodeKeeps
<1>5. ASSUME NEW d \in Device, DestroyNode(d) \/ PortAvailable(d) \/ PortChanged(d) PROVE Keeps
  BY <1>5, DestroyNodeKeeps, PortAvailableKeeps, PortChangedKeeps
<1>6. ASSUME NEW m \in Mode, PlugDone(m) PROVE Keeps
  BY <1>6, PlugDoneKeeps
<1>7. CASE UnplugDone
  BY <1>7, UnplugDoneKeeps
<1>8. ASSUME NEW u \in Unit, NEW m \in Mode, ProfileChanged(u, m) PROVE Keeps
  BY <1>8, ProfileChangedKeeps
<1>9. CASE DeferredRouting
  BY <1>9, DeferredRoutingKeeps
<1>10. ASSUME NEW s \in Stream, NewStream(s) \/ RemoveStream(s) PROVE Keeps
  BY <1>10, NewStreamKeeps, RemoveStreamKeeps
<1>11. ASSUME NEW g \in Gateway, AddGateway(g) \/ GatewaySource(g) \/ GatewaySourceGone(g)
                                   \/ RemoveGateway(g)
       PROVE  Keeps
  BY <1>11, AddGatewayKeeps, GatewaySourceKeeps, GatewaySourceGoneKeeps, RemoveGatewayKeeps
<1>12. ASSUME NEW s \in Stream, NEW d \in Device, AddExplicitRoute(s, d) PROVE Keeps
  BY <1>12, AddExplicitRouteKeeps
<1>13. ASSUME NEW k \in 1 .. MaxConn, RemoveExplicitRoute(k) PROVE Keeps
  BY <1>13, RemoveExplicitRouteKeeps
<1>14. ASSUME NEW s \in Recorder, NewRecording(s) \/ RemoveRecording(s) PROVE Keeps
  BY <1>14, NewRecordingKeeps, RemoveRecordingKeeps
<1>15. ASSUME NEW s \in Chooser, NewChosen(s) PROVE Keeps
  BY <1>15, NewChosenKeeps
<1> HIDE DEF vars
<1> QED
  BY <1>1, <1>2, <1>3, <1>4, <1>5, <1>6, <1>7, <1>8, <1>9, <1>10, <1>11, <1>12, <1>13,
     <1>14, <1>15
  DEF Next

(* Between two passes the target of each stream is still there: only the   *)
(* handler of a card that goes destroys nodes, and it ends with a pass.    *)
TargetsThere ==
  phase \notin {"unplug", "explicit"} =>
    \A s \in Start : target[s] # None => target[s] \in registered

LEMMA FoundThere ==
  ASSUME TInv, ListsRight, NEW n \in Start, Found(n) # None
  PROVE  Found(n) \in registered
<1> DEFINE g == GroupOf[n]
           K == {k \in DOMAIN entries[g] : Open(entries[g][k])}
           last == CHOOSE k \in K : \A l \in K : l <= k
<1>1. g \in RtGroup /\ K # {} /\ Found(n) = entries[g][last]
  BY ConfigFacts DEF Found
<1>2. entries[g] \in Seq(Device)
  BY <1>1 DEF TInv, TypeOK
<1>3. K \subseteq 0 .. Len(entries[g]) /\ Len(entries[g]) \in Nat
  BY <1>2
<1>4. last \in K
  BY <1>1, <1>3, GreatestNat
<1> HIDE DEF last
<1>5. last \in DOMAIN entries[g]
  BY <1>4
<1>6. entries[g][last] \in ToSet(entries[g])
  BY <1>5 DEF ToSet
<1> QED
  BY <1>1, <1>6 DEF ListsRight

(* A route that is made leads to a node that is there.                     *)
LEMMA TargetsStayRouted ==
  ASSUME TInv, ListsRight, NEW n \in Start,
         RouteStart(n) \/ (n = data /\ RouteData),
         \A s \in Start : target[s] # None => target[s] \in registered
  PROVE  \A s \in Start : target'[s] # None => target'[s] \in registered
<1>1. target' = target \/ (Found(n) # None /\ target' = [target EXCEPT ![n] = Found(n)])
  BY DEF RouteStart, RouteData
<1>2. target \in [Start -> Device \cup {None}]
  BY DEF TInv, TypeOK
<1> QED
  BY <1>1, <1>2, FoundThere

LEMMA TargetsStay ==
  ASSUME BInv, TargetsThere, [Next]_vars
  PROVE  TargetsThere'
<1>0. TInv /\ ListsRight
  BY DEF BInv, IInv
<1>1. CASE UNCHANGED vars
  BY <1>1 DEF TargetsThere
<1>2. CASE PassStep
  <2>1. CASE ExplicitRoute
    BY <2>1 DEF ExplicitRoute, TargetsThere
  <2>2. CASE ExplicitDone
    BY <2>2 DEF ExplicitDone, TargetsThere
  <2>3. CASE DataTurn
    BY <2>3, TargetsStayRouted, <1>0 DEF DataTurn, TargetsThere, TInv, TypeOK, LoopsInside
  <2>4. CASE StartTurn
    BY <2>4, TargetsStayRouted, <1>0 DEF StartTurn, TargetsThere, TInv, TypeOK, LoopsInside
  <2>5. CASE DataLast
    BY <2>5, TargetsStayRouted, <1>0 DEF DataLast, TargetsThere, TInv, TypeOK, LoopsInside
  <2>6. CASE PassDone \/ DataDone
    BY <2>6 DEF PassDone, DataDone, TargetsThere
  <2> QED
    BY <1>2, <2>1, <2>2, <2>3, <2>4, <2>5, <2>6 DEF PassStep
<1>3. CASE ~PassStep /\ Next
  <2>1. phase' \in {"unplug", "explicit"}
        \/ /\ registered \subseteq registered'
           /\ phase \notin {"unplug", "explicit"}
           /\ \A s \in Start : target'[s] \in {target[s], None}
    BY <1>3, <1>0
    DEF Next, PlugUnit, UnplugUnit, CreateNode, DestroyNode, PortAvailable, PortChanged, PlugDone,
        UnplugDone, ProfileChanged, DeferredRouting, NewStream, RemoveStream, NewRecording,
        RemoveRecording, NewChosen, AddGateway, GatewaySource, GatewaySourceGone,
        RemoveGateway, AddExplicitRoute, RemoveExplicitRoute, passState, BeginPass, TInv, TypeOK
  <2> QED
    BY <2>1 DEF TargetsThere
<1> QED
  BY <1>1, <1>2, <1>3

(* Whatever a routing group prefers and can use is given to a stream,      *)
(* unless the default route of a node at least as important stands in the  *)
(* way (make_routing, make_prerouting, find_default_route): for every      *)
(* configuration of groups, priorities, ports and profiles, whatever       *)
(* PulseAudio refuses, whichever static sinks come and whoever else        *)
(* changes ports and profiles.                                             *)
THEOREM NoneIsPassedOver == Spec => []BestRoute
<1>1. Init => BInv /\ TargetsThere
  BY InitSafe, InitBest DEF BInv, Init, TargetsThere
<1>2. BInv /\ [Next]_vars => BInv'
  <2> SUFFICES ASSUME BInv, [Next]_vars PROVE BInv'
    OBVIOUS
  <2>1. TInv' /\ IInv'
    BY NextType, NextSafe DEF BInv, IInv
  <2> QED
    BY <2>1, NextBest DEF BInv, Keeps
<1>3. BInv /\ TargetsThere /\ [Next]_vars => TargetsThere'
  BY TargetsStay
<1>4. BInv /\ TargetsThere => BestRoute
  <2> SUFFICES ASSUME BInv, TargetsThere, Settled, NEW s \in ToSet(nodlist) \ unrouted,
                      target[s] # None
               PROVE  target[s] \in registered
    BY DEF BInv, Ranked, BestRoute
  <2>1. s \in Start
    BY ListElems DEF BInv, IInv, TInv, TypeOK
  <2> QED
    BY <2>1 DEF TargetsThere, Settled
<1> QED
  BY <1>1, <1>2, <1>3, <1>4, PTL DEF Spec

-----------------------------------------------------------------------------
(* Routes are implemented.                                                 *)

(* d has a sink of A, or its sink is linked to the node of another profile *)
(* (Elsewhere).                                                            *)
LinkedIn(A, d) ==
  \/ d \in A
  \/ /\ UnitOf[d] \in ProfileUnit
     /\ \E e \in A \ {d} : UnitOf[e] = UnitOf[d] /\ SameDirection(d, e)

(* For who can use the active port or profile there is a sink; static      *)
(* sinks are there from the end of their handler on; units without nodes   *)
(* are off.                                                                *)
AttachedRight ==
  /\ \A d \in registered :
       \/ LinkedIn(attached, d)
       \/ IF UnitOf[d] \in PlainUnit THEN phase = "plug" /\ job = UnitOf[d]
          ELSE mode[UnitOf[d]] # ModeOf[d]
  /\ \A u \in PortUnit \cup ProfileUnit :
       DevicesOn(u) \cap registered = {} \/ (phase \in {"plug", "unplug"} /\ job = u) =>
         mode[u] = OffMode

ConnsReach ==
  \A k \in DOMAIN connlist :
    /\ connlist[k].blocked = FALSE
    /\ connlist[k].to # None => connlist[k].to \in registered

(* There is a sink for d, in the right mode.                               *)
Active(d) ==
  LinkedIn(attached, d) /\ (UnitOf[d] \in PlainUnit \/ mode[UnitOf[d]] = ModeOf[d])
Ready(d) == d \in registered /\ Active(d)

Implemented(s) ==
  target[s] # None => /\ Ready(target[s])
                      /\ target[s] \in attached => at[s] = UnitOf[target[s]]

(* During a pass every route made so far is implemented, save that there   *)
(* is no sink-input of the new stream to move yet.                         *)
TargetsImplemented ==
  /\ phase \in {"idle", "plug"} /\ ~deferred => \A s \in Start : Implemented(s)
  /\ phase \in {"data", "start"} =>
       /\ \A s \in Start : s # data => Implemented(s)
       /\ data # None /\ target[data] # None => Ready(target[data])

RInv == IInv /\ ConnsReach /\ AttachedRight /\ TargetsImplemented

(* A sink has one node per port.                                           *)
OneNodePerPort ==
  \A d, e \in Device :
    UnitOf[d] = UnitOf[e] /\ UnitOf[d] \in PortUnit /\ ModeOf[d] = ModeOf[e] => d = e

(* What setup_device_output leaves behind if PulseAudio refuses nothing: d *)
(* is active and so is everything that was and does not conflict with it.  *)
SwitchedTo(r, d) ==
  /\ r \in RType /\ LinkedIn(r.attached, d)
  /\ UnitOf[d] \notin PlainUnit => r.mode[UnitOf[d]] = ModeOf[d]
  /\ \A e \in registered : Active(e) /\ ~Conflict(d, e) =>
       /\ LinkedIn(r.attached, e) /\ (e \in r.attached <=> e \in attached)
       /\ UnitOf[e] \in PlainUnit \/ r.mode[UnitOf[e]] = ModeOf[e]
  /\ \A e \in registered :
       \/ LinkedIn(r.attached, e)
       \/ UnitOf[e] \notin PlainUnit /\ r.mode[UnitOf[e]] # ModeOf[e]
  /\ \A u \in Unit : u # UnitOf[d] => r.mode[u] = mode[u]

(* Only a stream on d's unit is moved away, and only by a switch.          *)
Stayed(s, now, d) ==
  \/ now = at[s]
  \/ at[s] = UnitOf[d] /\ UnitOf[d] \notin PlainUnit /\ mode[UnitOf[d]] # ModeOf[d]

AtWork == phase \notin {"plug", "unplug"}

(* Only the nodes of its unit matter to a node's sink.                     *)
LEMMA LinkedOnUnit ==
  ASSUME NEW e \in Device, NEW A \in SUBSET Device, NEW B \in SUBSET Device,
         \A x \in Device : UnitOf[x] = UnitOf[e] => (x \in A <=> x \in B)
  PROVE  LinkedIn(A, e) <=> LinkedIn(B, e)
BY DEF LinkedIn

LEMMA LinkedPlain ==
  ASSUME NEW A, NEW d \in Device, UnitOf[d] \notin ProfileUnit
  PROVE  LinkedIn(A, d) <=> d \in A
BY DEF LinkedIn

(* The node's unit is left alone.                                          *)
LEMMA OtherUnit ==
  ASSUME TInv, AttachedRight, AtWork, NEW r \in RType, NEW u \in Unit, NEW m,
         \A v \in Unit : r.mode[v] = IF v = u THEN m ELSE mode[v],
         \A x \in Device : UnitOf[x] # u => (x \in r.attached <=> x \in attached),
         NEW e \in registered, UnitOf[e] # u
  PROVE  /\ Active(e) => /\ LinkedIn(r.attached, e) /\ (e \in r.attached <=> e \in attached)
                         /\ UnitOf[e] \in PlainUnit \/ r.mode[UnitOf[e]] = ModeOf[e]
         /\ \/ LinkedIn(r.attached, e)
            \/ UnitOf[e] \notin PlainUnit /\ r.mode[UnitOf[e]] # ModeOf[e]
<1>1. e \in Device /\ UnitOf[e] \in Unit
  BY ConfigFacts DEF TInv, TypeOK
<1>2. r.attached \in SUBSET Device /\ attached \in SUBSET Device
  BY DEF RType, TInv, TypeOK
<1>3. LinkedIn(r.attached, e) <=> LinkedIn(attached, e)
  BY <1>1, <1>2, LinkedOnUnit
<1>4. r.mode[UnitOf[e]] = mode[UnitOf[e]]
  BY <1>1
<1> QED
  BY <1>1, <1>3, <1>4 DEF Active, AttachedRight, AtWork

LEMMA SwitchWorks ==
  ASSUME TInv, AttachedRight, AtWork, OneNodePerPort, MayFail = {},
         NEW d \in registered, NEW r \in SwitchResults(d)
  PROVE  SwitchedTo(r, d) /\ \A s \in Start : Stayed(s, r.at[s], d)
<1>0. d \in Device /\ UnitOf[d] \in Unit /\ ModeOf[d] \in Mode /\ registered \subseteq Device
  BY ConfigFacts DEF TInv, TypeOK
<1>1. \A e \in registered :
        LinkedIn(attached, e) \/ (UnitOf[e] \notin PlainUnit /\ mode[UnitOf[e]] # ModeOf[e])
  BY DEF AttachedRight, AtWork
<1>2. r \in RType
  BY <1>0, SwitchResultsType
<1>3. CASE UnitOf[d] \in PlainUnit \/ mode[UnitOf[d]] = ModeOf[d]
  <2>1. r = Here
    BY <1>3 DEF SwitchResults
  <2>2. r.mode = mode /\ r.attached = attached /\ r.at = at
    BY <2>1 DEF Here
  <2> QED
    BY <1>1, <1>2, <1>3, <2>2 DEF SwitchedTo, Stayed, Active
<1>4. ASSUME UnitOf[d] \notin PlainUnit, mode[UnitOf[d]] # ModeOf[d],
             \A v \in Unit : r.mode[v] = IF v = UnitOf[d] THEN ModeOf[d] ELSE mode[v],
             \A x \in Device : UnitOf[x] # UnitOf[d] => (x \in r.attached <=> x \in attached),
             \A e \in registered :
               UnitOf[e] = UnitOf[d] /\ ModeOf[e] = ModeOf[d] => e \in r.attached
      PROVE  SwitchedTo(r, d)
  <2>1. r.mode[UnitOf[d]] = ModeOf[d] /\ LinkedIn(r.attached, d)
    BY <1>0, <1>4 DEF LinkedIn
  <2>2. ASSUME NEW e \in registered, Active(e), ~Conflict(d, e)
        PROVE  UnitOf[e] # UnitOf[d]
    BY <1>4, <2>2 DEF Active, Conflict
  <2>3. ASSUME NEW e \in registered, UnitOf[e] # UnitOf[d]
        PROVE  /\ Active(e) =>
                    /\ LinkedIn(r.attached, e) /\ (e \in r.attached <=> e \in attached)
                    /\ UnitOf[e] \in PlainUnit \/ r.mode[UnitOf[e]] = ModeOf[e]
               /\ \/ LinkedIn(r.attached, e)
                  \/ UnitOf[e] \notin PlainUnit /\ r.mode[UnitOf[e]] # ModeOf[e]
    <3> DEFINE u == UnitOf[d]
               m == ModeOf[d]
    <3>1. /\ u \in Unit /\ UnitOf[e] # u
          /\ \A v \in Unit : r.mode[v] = IF v = u THEN m ELSE mode[v]
          /\ \A x \in Device : UnitOf[x] # u => (x \in r.attached <=> x \in attached)
      BY <1>0, <1>4, <2>3
    <3> HIDE DEF u, m
    <3> QED
      BY <1>2, <3>1, OtherUnit
  <2>4. ASSUME NEW e \in registered, UnitOf[e] = UnitOf[d]
        PROVE  \/ LinkedIn(r.attached, e)
               \/ UnitOf[e] \notin PlainUnit /\ r.mode[UnitOf[e]] # ModeOf[e]
    BY <1>4, <2>1, <2>4 DEF LinkedIn
  <2>5. \A u \in Unit : u # UnitOf[d] => r.mode[u] = mode[u]
    BY <1>4
  <2> QED
    BY <1>2, <2>1, <2>2, <2>3, <2>4, <2>5 DEF SwitchedTo
<1>5. CASE UnitOf[d] \in PortUnit /\ mode[UnitOf[d]] # ModeOf[d]
  <2>1. r = PortSwitched(d)
    BY <1>5, ConfigFacts DEF SwitchResults
  <2>2. /\ r.mode = [mode EXCEPT ![UnitOf[d]] = ModeOf[d]] /\ r.at = at
        /\ r.attached = (attached \ DevicesOn(UnitOf[d])) \cup {d}
    BY <2>1 DEF PortSwitched, Here
  <2>3. \A u \in Unit : r.mode[u] = IF u = UnitOf[d] THEN ModeOf[d] ELSE mode[u]
    BY <1>0, <2>2 DEF TInv, TypeOK
  <2>4. UnitOf[d] \notin PlainUnit
    BY <1>5, ConfigFacts
  <2>5. \A x \in Device : UnitOf[x] # UnitOf[d] => (x \in r.attached <=> x \in attached)
    BY <1>0, <2>2 DEF DevicesOn
  <2>6. \A e \in registered : UnitOf[e] = UnitOf[d] /\ ModeOf[e] = ModeOf[d] => e \in r.attached
    BY <1>0, <1>5, <2>2 DEF OneNodePerPort
  <2>7. SwitchedTo(r, d)
    BY <1>4, <1>5, <2>3, <2>4, <2>5, <2>6
  <2> QED
    BY <2>2, <2>7 DEF Stayed
<1>6. CASE UnitOf[d] \in ProfileUnit /\ mode[UnitOf[d]] # ModeOf[d]
  <2> DEFINE new == {e \in DevicesOn(UnitOf[d]) \cap registered : ModeOf[e] = ModeOf[d]}
  <2>1. r = ProfileSwitched(UnitOf[d], ModeOf[d])
    BY <1>6, ConfigFacts DEF SwitchResults
  <2>2. /\ r.mode = [mode EXCEPT ![UnitOf[d]] = ModeOf[d]]
        /\ r.attached = (attached \ DevicesOn(UnitOf[d])) \cup new
        /\ r.at = [s \in Start |-> IF at[s] = UnitOf[d] THEN NullUnit ELSE at[s]]
    BY <2>1 DEF ProfileSwitched, ProfileWith, NodesFor
  <2>3. \A u \in Unit : r.mode[u] = IF u = UnitOf[d] THEN ModeOf[d] ELSE mode[u]
    BY <1>0, <2>2 DEF TInv, TypeOK
  <2>4. UnitOf[d] \notin PlainUnit
    BY <1>6, ConfigFacts
  <2>5. \A x \in Device : UnitOf[x] # UnitOf[d] => (x \in r.attached <=> x \in attached)
    BY <1>0, <2>2 DEF DevicesOn
  <2>6. \A e \in registered : UnitOf[e] = UnitOf[d] /\ ModeOf[e] = ModeOf[d] => e \in r.attached
    BY <1>0, <2>2 DEF DevicesOn
  <2>7. SwitchedTo(r, d)
    BY <1>4, <1>6, <2>3, <2>4, <2>5, <2>6
  <2>8. \A s \in Start : Stayed(s, r.at[s], d)
    BY <1>6, <2>2, <2>4 DEF Stayed
  <2> QED
    BY <2>7, <2>8
<1> QED
  BY <1>0, <1>3, <1>5, <1>6, ConfigFacts

LEMMA LinkWorks ==
  ASSUME TInv, AttachedRight, AtWork, OneNodePerPort, MayFail = {},
         NEW n \in Start, NEW d \in registered, NEW l \in LinkResults(n, d)
  PROVE  /\ SwitchedTo(l.r, d)
         /\ d \in l.r.attached => l.ok = TRUE /\ l.r.at[n] = UnitOf[d]
         /\ \A s \in Start : s # n => Stayed(s, l.r.at[s], d)
<1>1. PICK r \in SwitchResults(d) :
        l \in (IF Usable(r, d)
               THEN {[ok |-> TRUE, r |-> [r EXCEPT !.at[n] = UnitOf[d]]]}
                      \cup (IF "move" \in MayFail /\ r.at[n] # UnitOf[d]
                            THEN {[ok |-> FALSE, r |-> r]} ELSE {})
               ELSE {[ok |-> FALSE, r |-> r]})
  BY DEF LinkResults
<1>2. SwitchedTo(r, d) /\ \A s \in Start : Stayed(s, r.at[s], d)
  BY SwitchWorks
<1>3. d \in r.attached => Usable(r, d)
  BY <1>2, ConfigFacts DEF Usable, SwitchedTo
<1>4. CASE d \notin r.attached
  <2>1. l = [ok |-> FALSE, r |-> r]
    BY <1>1, <1>4 DEF Usable
  <2> QED
    BY <1>2, <1>4, <2>1
<1>5. CASE d \in r.attached
  <2>1. l = [ok |-> TRUE, r |-> [r EXCEPT !.at[n] = UnitOf[d]]]
    BY <1>1, <1>3, <1>5
  <2>2. l.ok = TRUE /\ l.r = [r EXCEPT !.at[n] = UnitOf[d]]
    BY <2>1
  <2>3. r \in RType /\ UnitOf[d] \in Unit
    BY <1>2, ConfigFacts DEF SwitchedTo, TInv, TypeOK
  <2>4. /\ l.r.mode = r.mode /\ l.r.attached = r.attached /\ l.r \in RType
        /\ \A s \in Start : l.r.at[s] = IF s = n THEN UnitOf[d] ELSE r.at[s]
    BY <2>2, <2>3 DEF RType
  <2> QED
    BY <1>2, <2>2, <2>4 DEF SwitchedTo
<1> QED
  BY <1>4, <1>5

LEMMA ActiveNext ==
  ASSUME NEW d
  PROVE  /\ LinkedIn(attached, d)' <=> LinkedIn(attached', d)
         /\ Active(d)' <=> /\ LinkedIn(attached', d)
                           /\ UnitOf[d] \in PlainUnit \/ mode'[UnitOf[d]] = ModeOf[d]
BY DEF Active, LinkedIn

(* The same of a step that takes the result over.                          *)
Switches(d) ==
  /\ Active(d)'
  /\ \A e \in registered :
       Active(e) /\ ~Conflict(d, e) => Active(e)' /\ (e \in attached' <=> e \in attached)
  /\ \A e \in registered :
       \/ LinkedIn(attached', e)
       \/ UnitOf[e] \notin PlainUnit /\ mode'[UnitOf[e]] # ModeOf[e]
  /\ \A u \in Unit : u # UnitOf[d] => mode'[u] = mode[u]

LEMMA SwitchedSwitches ==
  ASSUME NEW d, NEW r, SwitchedTo(r, d), Becomes(r)
  PROVE  Switches(d)
BY ActiveNext DEF SwitchedTo, Becomes, Switches

LEMMA SwitchesKeepsAttached ==
  ASSUME AttachedRight, AtWork, phase' \notin {"plug", "unplug"}, NEW d \in registered, Switches(d),
         TypeOK, UNCHANGED registered
  PROVE  AttachedRight'
<1>1. d \in DevicesOn(UnitOf[d]) \cap registered
  BY DEF DevicesOn, TypeOK
<1>2. ASSUME NEW u \in PortUnit \cup ProfileUnit, DevicesOn(u) \cap registered = {}
      PROVE  mode'[u] = OffMode
  <2>1. u \in Unit /\ u # UnitOf[d]
    BY <1>1, <1>2, RouterConfig
  <2> QED
    BY <1>2, <2>1 DEF AttachedRight, Switches
<1> QED
  BY <1>2, ActiveNext DEF AttachedRight, Switches

(* A stream that plays on an active node stays there if nothing conflicts  *)
(* with the node.                                                          *)
LEMMA StaysThere ==
  ASSUME NEW s \in Start, NEW d, NEW e \in registered, Active(e), at[s] = UnitOf[e],
         ~Conflict(d, e), Stayed(s, at'[s], d)
  PROVE  at'[s] = UnitOf[e]
BY DEF Stayed, Active, Conflict

LEMMA StartWorks ==
  ASSUME RInv, AtWork, OneNodePerPort, MayFail = {}, NEW n \in Start, RouteStart(n)
  PROVE  \/ UNCHANGED <<switchVars, target>>
         \/ \E d \in registered :
              /\ Switches(d) /\ (d \in attached' => at'[n] = UnitOf[d])
              /\ target' = [target EXCEPT ![n] = d]
              /\ \A s \in Start : s # n => Stayed(s, at'[s], d)
<1>1. CASE Found(n) = None
  BY <1>1 DEF RouteStart
<1>2. CASE Found(n) # None
  <2>1. PICK d \in registered : d = Found(n)
    BY <1>2, FoundType DEF RInv, IInv, TInv, LoopsInside, Open, Candidate
  <2>2. target' = [target EXCEPT ![n] = d]
    BY <1>2, <2>1 DEF RouteStart
  <2>3. PICK l \in LinkResults(n, d) : Becomes(l.r)
    BY <1>2, <2>1 DEF RouteStart
  <2>4. /\ SwitchedTo(l.r, d) /\ (d \in l.r.attached => l.r.at[n] = UnitOf[d])
        /\ \A s \in Start : s # n => Stayed(s, l.r.at[s], d)
    BY LinkWorks DEF RInv, IInv
  <2>5. Switches(d) /\ at' = l.r.at /\ attached' = l.r.attached
    BY <2>3, <2>4, SwitchedSwitches DEF Becomes
  <2> QED
    BY <2>2, <2>4, <2>5
<1> QED
  BY <1>1, <1>2

LEMMA DataWorks ==
  ASSUME RInv, AtWork, OneNodePerPort, MayFail = {}, NEW n \in Start, n = data, RouteData
  PROVE  \/ UNCHANGED <<switchVars, target>>
         \/ \E d \in registered :
              /\ Switches(d) /\ target' = [target EXCEPT ![n] = d]
              /\ \A s \in Start : Stayed(s, at'[s], d)
<1>1. CASE Found(n) = None
  BY <1>1 DEF RouteData
<1>2. CASE Found(n) # None
  <2>1. PICK d \in registered : d = Found(n)
    BY <1>2, FoundType DEF RInv, IInv, TInv, LoopsInside, Open, Candidate
  <2>2. target' = [target EXCEPT ![n] = d]
    BY <1>2, <2>1 DEF RouteData
  <2>3. PICK r \in SwitchResults(d) : Becomes(r)
    BY <1>2, <2>1 DEF RouteData
  <2>4. SwitchedTo(r, d) /\ \A s \in Start : Stayed(s, r.at[s], d)
    BY SwitchWorks DEF RInv, IInv
  <2>5. Switches(d) /\ at' = r.at
    BY <2>3, <2>4, SwitchedSwitches DEF Becomes
  <2> QED
    BY <2>2, <2>4, <2>5
<1> QED
  BY <1>1, <1>2

(* A route for n leaves the others' routes implemented.                    *)
LEMMA OthersImplemented ==
  ASSUME TInv, NoConflictingRoutes', NEW n \in Start, NEW d \in registered, Switches(d),
         target' = [target EXCEPT ![n] = d], UNCHANGED registered,
         \A s \in Start : s # n => Stayed(s, at'[s], d)
  PROVE  /\ target'[n] = d /\ Active(d)'
         /\ \A t \in Start : t # n /\ Implemented(t) => Implemented(t)'
         /\ \A t \in Start : t # n /\ target[t] # None /\ Ready(target[t]) => Ready(target[t])'
<1>1. /\ target'[n] = d /\ d # None
      /\ \A t \in Start : t # n => target'[t] = target[t]
  BY ConfigFacts DEF TInv, TypeOK
<1>2. ASSUME NEW t \in Start, t # n, target[t] # None, Ready(target[t])
      PROVE  /\ Ready(target[t])' /\ (target[t] \in attached' <=> target[t] \in attached)
             /\ at[t] = UnitOf[target[t]] => at'[t] = UnitOf[target[t]]
  <2>1. PICK e \in registered : e = target[t] /\ Active(e)
    BY <1>2 DEF Ready
  <2>2. ~Conflict(d, e)
    BY <1>1, <1>2, <2>1 DEF NoConflictingRoutes, Conflict
  <2>3. Active(e)' /\ (e \in attached' <=> e \in attached)
    BY <2>1, <2>2 DEF Switches
  <2>4. at[t] = UnitOf[e] => at'[t] = UnitOf[e]
    BY <1>2, <2>1, <2>2, StaysThere
  <2>5. target'[t] = e
    BY <1>1, <1>2, <2>1
  <2> QED
    BY <2>1, <2>3, <2>4, <2>5, ActiveNext DEF Ready
<1>3. ASSUME NEW t \in Start, t # n, Implemented(t) PROVE Implemented(t)'
  <2>1. target'[t] = target[t]
    BY <1>1, <1>3
  <2>2. CASE target[t] = None
    BY <2>1, <2>2 DEF Implemented
  <2>3. CASE target[t] # None
    BY <1>2, <1>3, <2>1, <2>3 DEF Implemented
  <2> QED
    BY <2>2, <2>3
<1> QED
  BY <1>1, <1>2, <1>3 DEF Switches

RKeeps == ConnsReach' /\ AttachedRight' /\ TargetsImplemented'

(* A step that changes neither devices nor routes.                         *)
LEMMA QuietImplemented ==
  ASSUME UNCHANGED <<registered, attached, mode, at, target>>
  PROVE  \A s : /\ Implemented(s)' <=> Implemented(s)
                /\ Ready(target[s])' <=> Ready(target[s])
BY ActiveNext DEF Implemented, Ready, Active

LEMMA QuietAttached ==
  ASSUME AttachedRight, AtWork, phase' \notin {"plug", "unplug"},
         UNCHANGED <<registered, attached, mode>>
  PROVE  AttachedRight'
BY ActiveNext DEF AttachedRight, AtWork

(* Another profile: its nodes are attached, or nodes that play the same    *)
(* way and need other profiles are in their place.                         *)
LEMMA ProfileAttached ==
  ASSUME TInv, AttachedRight, NEW u \in ProfileUnit, u \in Unit, NEW m \in Mode, NEW new,
         Becomes(ProfileWith(u, m, new)), UNCHANGED registered, new \subseteq DevicesOn(u),
         \A d \in NodesFor(u, m) : LinkedIn(new, d),
         phase' \notin {"plug", "unplug"}, phase = "plug" => job = u,
         DevicesOn(u) \cap registered = {} => m = OffMode
  PROVE  AttachedRight'
<1>1. mode' = [mode EXCEPT ![u] = m] /\ attached' = (attached \ DevicesOn(u)) \cup new
  BY DEF Becomes, ProfileWith
<1>2. \A v \in Unit : mode'[v] = IF v = u THEN m ELSE mode[v]
  BY <1>1 DEF TInv, TypeOK
<1>3. u \notin PlainUnit
  BY ConfigFacts
<1>4. ASSUME NEW d \in registered
      PROVE  LinkedIn(attached', d) \/ (UnitOf[d] \notin PlainUnit /\ mode'[UnitOf[d]] # ModeOf[d])
  <2>1. d \in Device /\ UnitOf[d] \in Unit
    BY ConfigFacts DEF TInv, TypeOK
  <2>2. CASE UnitOf[d] = u /\ ModeOf[d] = m
    <3>1. LinkedIn(new, d)
      BY <2>1, <2>2 DEF NodesFor, DevicesOn
    <3> QED
      BY <1>1, <3>1 DEF LinkedIn
  <2>3. CASE UnitOf[d] = u /\ ModeOf[d] # m
    BY <1>2, <1>3, <2>1, <2>3
  <2>4. CASE UnitOf[d] # u
    <3>1. \A x \in Device : UnitOf[x] = UnitOf[d] => (x \in attached' <=> x \in attached)
      BY <1>1, <2>4 DEF DevicesOn
    <3>2. attached \in SUBSET Device /\ attached' \in SUBSET Device
      BY <1>1 DEF DevicesOn, TInv, TypeOK
    <3>3. LinkedIn(attached', d) <=> LinkedIn(attached, d)
      BY <2>1, <3>1, <3>2, LinkedOnUnit
    <3> QED
      BY <1>2, <2>1, <2>4, <3>3 DEF AttachedRight
  <2> QED
    BY <2>2, <2>3, <2>4
<1>5. ASSUME NEW v \in PortUnit \cup ProfileUnit, DevicesOn(v) \cap registered = {}
      PROVE  mode'[v] = OffMode
  <2>1. v \in Unit
    BY RouterConfig
  <2> QED
    BY <1>2, <1>5, <2>1 DEF AttachedRight
<1> QED
  BY <1>4, <1>5, ActiveNext DEF AttachedRight

LEMMA SwitchedLinked ==
  ASSUME NEW u \in ProfileUnit, NEW m \in Mode
  PROVE  /\ NodesFor(u, m) \subseteq DevicesOn(u)
         /\ \A d \in NodesFor(u, m) : LinkedIn(NodesFor(u, m), d)
BY DEF NodesFor, LinkedIn

(* What a profile that somebody else sets attaches.                        *)
ForcedNodes(u, m) ==
  UNION {IF NodesFound(d, mode[u]) = {} THEN {d} ELSE NodesFound(d, mode[u]) : d \in NodesFor(u, m)}

LEMMA ForcedLinked ==
  ASSUME NEW u \in ProfileUnit, NEW m \in Mode, mode[u] # m
  PROVE  /\ ProfileForced(u, m) = ProfileWith(u, m, ForcedNodes(u, m))
         /\ ForcedNodes(u, m) \subseteq DevicesOn(u)
         /\ \A d \in NodesFor(u, m) : LinkedIn(ForcedNodes(u, m), d)
<1>1. ProfileForced(u, m) = ProfileWith(u, m, ForcedNodes(u, m))
  BY DEF ProfileForced, ForcedNodes
<1>2. ASSUME NEW d \in NodesFor(u, m), NEW e \in NodesFound(d, mode[u])
      PROVE  e \in DevicesOn(u) /\ e # d /\ UnitOf[e] = UnitOf[d] /\ SameDirection(d, e)
  <2>1. UnitOf[d] = u /\ ModeOf[d] = m
    BY DEF NodesFor, DevicesOn
  <2>2. e \in NodesFor(u, mode[u]) /\ SameDirection(d, e)
    BY <2>1 DEF NodesFound
  <2> QED
    BY <2>1, <2>2 DEF NodesFor, DevicesOn
<1>3. ForcedNodes(u, m) \subseteq DevicesOn(u)
  BY <1>2 DEF ForcedNodes, NodesFor
<1>4. ASSUME NEW d \in NodesFor(u, m) PROVE LinkedIn(ForcedNodes(u, m), d)
  <2>1. CASE NodesFound(d, mode[u]) = {}
    BY <2>1 DEF ForcedNodes, LinkedIn
  <2>2. CASE NodesFound(d, mode[u]) # {}
    <3>1. PICK e \in NodesFound(d, mode[u]) : TRUE
      BY <2>2
    <3>2. e \in ForcedNodes(u, m)
      BY <2>2, <3>1 DEF ForcedNodes
    <3>3. UnitOf[d] = u
      BY DEF NodesFor, DevicesOn
    <3> QED
      BY <1>2, <3>2, <3>3 DEF LinkedIn
  <2> QED
    BY <2>1, <2>2
<1> QED
  BY <1>1, <1>3, <1>4

LEMMA PassStepImplements ==
  ASSUME RInv, IInv', OneNodePerPort, MayFail = {}, PassStep
  PROVE  RKeeps
<1>1. CASE ExplicitRoute
  <2>1. /\ phase = "explicit" /\ phase' = "explicit" /\ i \in DOMAIN connlist
        /\ UNCHANGED <<registered, connlist>>
    BY <1>1 DEF ExplicitRoute, RInv, IInv, TInv, TypeOK, LoopsInside
  <2>2. AttachedRight'
    <3>1. CASE UNCHANGED switchVars
      BY <2>1, <3>1, QuietAttached DEF RInv, AtWork
    <3>2. CASE /\ connlist[i].from # None /\ connlist[i].to # None
               /\ \E l \in LinkResults(connlist[i].from, connlist[i].to) : Becomes(l.r)
      <4>1. PICK n \in Start, d \in registered : n = connlist[i].from /\ d = connlist[i].to
        BY <2>1, <3>2, ConnTyped, ConfigFacts DEF RInv, IInv, TInv, ConnsReach
      <4>2. PICK l \in LinkResults(n, d) : Becomes(l.r)
        BY <3>2, <4>1
      <4>3. SwitchedTo(l.r, d)
        BY <2>1, LinkWorks DEF RInv, IInv, AtWork
      <4> QED
        BY <2>1, <4>2, <4>3, SwitchedSwitches, SwitchesKeepsAttached
        DEF RInv, IInv, TInv, AtWork
    <3> QED
      BY <1>1, <3>1, <3>2 DEF ExplicitRoute
  <2> QED
    BY <2>1, <2>2 DEF RKeeps, RInv, ConnsReach, TargetsImplemented
<1>2. CASE ExplicitDone
  <2>1. /\ phase = "explicit" /\ phase' \in {"data", "start"}
        /\ UNCHANGED <<nodeVars, switchVars, data, connlist>>
        /\ \A s \in Start : target'[s] = None
    BY <1>2 DEF ExplicitDone
  <2>2. AttachedRight'
    BY <2>1, QuietAttached DEF RInv, AtWork
  <2>3. data \in Start \cup {None}
    BY DEF RInv, IInv, TInv, TypeOK
  <2> QED
    BY <2>1, <2>2, <2>3 DEF RKeeps, RInv, ConnsReach, TargetsImplemented, Implemented
<1>3. ASSUME phase \in {"data", "start"}, phase' \in {"data", "start"},
             UNCHANGED <<switchVars, target, registered, data, connlist>>
      PROVE  RKeeps
  <2>1. AttachedRight'
    BY <1>3, QuietAttached DEF RInv, AtWork
  <2>2. TargetsImplemented'
    BY <1>3, QuietImplemented DEF RInv, TargetsImplemented
  <2> QED
    BY <1>3, <2>1, <2>2 DEF RKeeps, RInv, ConnsReach
<1>4. ASSUME phase = "data", phase' \in {"data", "start"}, RouteData,
             UNCHANGED <<registered, data, connlist>>
      PROVE  RKeeps
  <2>1. PICK n \in Start : n = data
    BY <1>4 DEF RInv, IInv, TInv, TypeOK, LoopsInside
  <2>2. CASE UNCHANGED <<switchVars, target>>
    BY <1>3, <1>4, <2>2
  <2>3. ASSUME NEW d \in registered, Switches(d), target' = [target EXCEPT ![n] = d],
               \A s \in Start : Stayed(s, at'[s], d)
        PROVE  RKeeps
    <3>1. AttachedRight'
      BY <1>4, <2>3, SwitchesKeepsAttached DEF RInv, IInv, TInv, AtWork
    <3>2. /\ target'[n] = d /\ Active(d)'
          /\ \A t \in Start : t # n /\ Implemented(t) => Implemented(t)'
      BY <1>4, <2>3, OthersImplemented DEF RInv, IInv
    <3>3. TargetsImplemented'
      <4>1. \A s \in Start : s # n => Implemented(s)'
        BY <1>4, <2>1, <3>2 DEF RInv, TargetsImplemented
      <4>2. Ready(target[data])'
        BY <1>4, <2>1, <3>2 DEF Ready
      <4> QED
        BY <1>4, <2>1, <4>1, <4>2 DEF TargetsImplemented
    <3> QED
      BY <1>4, <3>1, <3>3 DEF RKeeps, RInv, ConnsReach
  <2> QED
    BY <1>4, <2>1, <2>2, <2>3, DataWorks DEF AtWork
<1>5. CASE DataTurn
  <2>1. /\ phase = "data" /\ phase' \in {"data", "start"}
        /\ UNCHANGED <<registered, data, connlist>>
        /\ RouteData \/ UNCHANGED <<switchVars, target>>
    BY <1>5 DEF DataTurn
  <2> QED
    BY <1>3, <1>4, <2>1
<1>6. CASE DataLast
  <2>1. phase = "data" /\ phase' = "data" /\ RouteData /\ UNCHANGED <<registered, data, connlist>>
    BY <1>6 DEF DataLast
  <2> QED
    BY <1>4, <2>1
<1>7. CASE StartTurn
  <2>1. /\ phase = "start" /\ phase' \in {"data", "start"}
        /\ UNCHANGED <<registered, data, connlist>>
    BY <1>7 DEF StartTurn
  <2>2. PICK n \in Start : n = nodlist[i]
    BY <1>7 DEF StartTurn, RInv, IInv, TInv, TypeOK, LoopsInside
  <2>3. CASE UNCHANGED <<switchVars, target>>
    BY <1>3, <2>1, <2>3
  <2>4. ASSUME NEW d \in registered, Switches(d), d \in attached' => at'[n] = UnitOf[d],
               target' = [target EXCEPT ![n] = d],
               \A s \in Start : s # n => Stayed(s, at'[s], d)
        PROVE  RKeeps
    <3>1. AttachedRight'
      BY <2>1, <2>4, SwitchesKeepsAttached DEF RInv, IInv, TInv, AtWork
    <3>2. /\ target'[n] = d /\ Active(d)'
          /\ \A t \in Start : t # n /\ Implemented(t) => Implemented(t)'
          /\ \A t \in Start : t # n /\ target[t] # None /\ Ready(target[t]) => Ready(target[t])'
      BY <2>1, <2>4, OthersImplemented DEF RInv, IInv
    <3>3. Ready(target[n])'
      BY <2>1, <3>2, ActiveNext DEF Ready
    <3>4. Implemented(n)'
      BY <2>4, <3>2, <3>3 DEF Implemented
    <3>5. \A s \in Start : s # data => Implemented(s)'
      BY <2>1, <3>2, <3>4 DEF RInv, TargetsImplemented
    <3>6. data # None /\ target'[data] # None => Ready(target[data])'
      <4> SUFFICES ASSUME data # None, target'[data] # None PROVE Ready(target[data])'
        OBVIOUS
      <4>1. PICK x \in Start : x = data
        BY DEF RInv, IInv, TInv, TypeOK
      <4>2. CASE x = n
        BY <2>1, <3>3, <4>1, <4>2
      <4>3. CASE x # n
        <5>1. target'[x] = target[x]
          BY <2>4, <4>3 DEF RInv, IInv, TInv, TypeOK
        <5>2. Ready(target[x])'
          BY <2>1, <3>2, <4>1, <4>3, <5>1 DEF RInv, TargetsImplemented
        <5> QED
          BY <2>1, <4>1, <5>2
      <4> QED
        BY <4>2, <4>3
    <3>7. TargetsImplemented'
      BY <2>1, <3>5, <3>6 DEF TargetsImplemented
    <3> QED
      BY <2>1, <3>1, <3>7 DEF RKeeps, RInv, ConnsReach
  <2>5. RouteStart(n) \/ UNCHANGED <<switchVars, target>>
    BY <1>7, <2>2 DEF StartTurn
  <2> QED
    BY <2>1, <2>3, <2>4, <2>5, StartWorks DEF AtWork
<1>8. CASE PassDone
  <2>1. /\ phase = "start" /\ phase' = "idle" /\ data = None
        /\ UNCHANGED <<nodeVars, switchVars, passVars, connlist>>
    BY <1>8 DEF PassDone
  <2>2. AttachedRight'
    BY <2>1, QuietAttached DEF RInv, AtWork
  <2>3. \A s \in Start : Implemented(s)'
    BY <2>1, QuietImplemented, ConfigFacts DEF RInv, TargetsImplemented
  <2> QED
    BY <2>1, <2>2, <2>3 DEF RKeeps, RInv, ConnsReach, TargetsImplemented
<1>9. CASE DataDone
  <2>1. /\ phase = "data" /\ phase' = "idle"
        /\ UNCHANGED <<registered, attached, mode, target, connlist>>
    BY <1>9 DEF DataDone
  <2>2. PICK n \in Start : n = data /\ n # None
    BY <2>1, ConfigFacts DEF RInv, IInv, TInv, TypeOK, LoopsInside
  <2>3. PICK u \in Placements(n) : at' = [at EXCEPT ![n] = u]
    BY <1>9, <2>2 DEF DataDone
  <2>4. AttachedRight'
    BY <2>1, QuietAttached DEF RInv, AtWork
  <2>5. \A s \in Start : at'[s] = IF s = n THEN u ELSE at[s]
    BY <2>3 DEF RInv, IInv, TInv, TypeOK
  <2>6. ASSUME NEW s \in Start, s # n PROVE Implemented(s)'
    <3>1. Implemented(s)
      BY <2>1, <2>2, <2>6 DEF RInv, TargetsImplemented
    <3> QED
      BY <2>1, <2>5, <2>6, <3>1, ActiveNext DEF Implemented, Ready, Active
  <2>7. Implemented(n)'
    <3> SUFFICES ASSUME target[n] # None PROVE Implemented(n)'
      BY <2>1 DEF Implemented
    <3>1. Ready(target[n])
      BY <2>1, <2>2 DEF RInv, TargetsImplemented
    <3>2. target[n] \in attached => u = UnitOf[target[n]]
      BY <2>3, <3>1 DEF Placements
    <3> QED
      BY <2>1, <2>5, <3>1, <3>2, ActiveNext DEF Implemented, Ready, Active
  <2> QED
    BY <2>1, <2>4, <2>6, <2>7 DEF RKeeps, RInv, ConnsReach, TargetsImplemented
<1> QED
  BY <1>1, <1>2, <1>5, <1>6, <1>7, <1>8, <1>9 DEF PassStep

-----------------------------------------------------------------------------
(* The handlers leave routes implemented or end in a pass.                 *)

(* A handler that ends in a routing pass.                                  *)
LEMMA PassBeginsImplemented ==
  ASSUME AttachedRight, AtWork, ConnsReach', NEW n, BeginPass(n),
         UNCHANGED <<registered, attached, mode>>
  PROVE  RKeeps
<1>1. phase' = "explicit"
  BY DEF BeginPass
<1>2. AttachedRight'
  BY <1>1, QuietAttached
<1>3. TargetsImplemented'
  BY <1>1 DEF TargetsImplemented
<1> QED
  BY <1>2, <1>3 DEF RKeeps

LEMMA SameConns ==
  ASSUME ConnsReach, UNCHANGED connlist, registered \subseteq registered'
  PROVE  ConnsReach'
BY DEF ConnsReach

LEMMA PlugUnitImplements == ASSUME RInv, NEW u \in Unit, PlugUnit(u) PROVE RKeeps
<1>1. /\ phase = "idle" /\ phase' = "plug" /\ job' = u /\ DevicesOn(u) \cap registered = {}
      /\ UNCHANGED <<registered, attached, mode, at, target, connlist, deferred>>
  BY DEF PlugUnit
<1>2. AttachedRight'
  BY <1>1, ActiveNext DEF RInv, AttachedRight
<1>3. TargetsImplemented'
  BY <1>1, QuietImplemented DEF RInv, TargetsImplemented
<1> QED
  BY <1>1, <1>2, <1>3, SameConns DEF RKeeps, RInv

LEMMA CreateNodeImplements ==
  ASSUME RInv, NEW d \in Device, NEW avail \in BOOLEAN, CreateNode(d, avail)
  PROVE  RKeeps
<1>1. /\ phase = "plug" /\ phase' = "plug" /\ UnitOf[d] = job
      /\ registered' = registered \cup {d}
      /\ UNCHANGED <<attached, mode, at, target, connlist, job, deferred>>
  BY DEF CreateNode
<1>2. UnitOf[d] \notin PlainUnit => mode[UnitOf[d]] # ModeOf[d]
  <2> SUFFICES ASSUME UnitOf[d] \notin PlainUnit PROVE mode[UnitOf[d]] # ModeOf[d]
    OBVIOUS
  <2>1. UnitOf[d] \in PortUnit \cup ProfileUnit
    BY ConfigFacts
  <2>2. mode[UnitOf[d]] = OffMode
    BY <1>1, <2>1 DEF RInv, AttachedRight
  <2> QED
    BY <2>2, RouterConfig
<1>3. \A e \in registered' :
        \/ LinkedIn(attached, e)
        \/ IF UnitOf[e] \in PlainUnit THEN phase = "plug" /\ job = UnitOf[e]
           ELSE mode[UnitOf[e]] # ModeOf[e]
  BY <1>1, <1>2 DEF RInv, AttachedRight
<1>4. AttachedRight'
  BY <1>1, <1>3, ActiveNext DEF RInv, AttachedRight
<1>5. TargetsImplemented'
  BY <1>1, ActiveNext DEF RInv, TargetsImplemented, Implemented, Ready, Active
<1> QED
  BY <1>1, <1>4, <1>5, SameConns DEF RKeeps, RInv

LEMMA PlugDoneImplements ==
  ASSUME RInv, OneNodePerPort, NEW m \in Mode, PlugDone(m)
  PROVE  RKeeps
<1>1. /\ phase = "plug" /\ phase' \in {"idle", "explicit"} /\ DevicesOn(job) \subseteq registered
      /\ UNCHANGED <<registered, connlist, target>>
  BY DEF PlugDone, BeginPass
<1>2. ConnsReach'
  BY <1>1, SameConns DEF RInv
<1>3. CASE job \in PlainUnit
  <2>1. /\ attached' = attached \cup DevicesOn(job) /\ UNCHANGED <<mode, at, deferred>>
    BY <1>3, ConfigFacts DEF PlugDone
  <2>2. /\ \A d \in registered : UnitOf[d] = job => LinkedIn(attached', d)
        /\ \A d : LinkedIn(attached, d) => LinkedIn(attached', d)
    BY <2>1 DEF DevicesOn, LinkedIn, RInv, IInv, TInv, TypeOK
  <2>3. AttachedRight'
    BY <1>1, <2>1, <2>2, ActiveNext DEF RInv, AttachedRight
  <2>4. ASSUME NEW s \in Start, Implemented(s) PROVE Implemented(s)'
    <3> SUFFICES ASSUME target[s] # None PROVE Implemented(s)'
      BY <1>1 DEF Implemented
    <3>1. Ready(target[s]) /\ (target[s] \in attached => at[s] = UnitOf[target[s]])
      BY <2>4 DEF Implemented
    <3>2. target[s] \in Device /\ LinkedIn(attached, target[s])
      BY <3>1 DEF Ready, Active, RInv, IInv, TInv, TypeOK
    <3>3. target[s] \in attached' => target[s] \in attached
      <4> SUFFICES ASSUME target[s] \in DevicesOn(job) PROVE target[s] \in attached
        BY <2>1
      <4>1. UnitOf[target[s]] \notin ProfileUnit
        BY <1>3, ConfigFacts DEF DevicesOn
      <4> QED
        BY <3>2, <4>1, LinkedPlain
    <3>4. Ready(target[s])'
      BY <1>1, <2>1, <2>2, <3>1, ActiveNext DEF Ready, Active
    <3> QED
      BY <1>1, <2>1, <3>1, <3>3, <3>4 DEF Implemented
  <2>5. TargetsImplemented'
    BY <1>1, <2>1, <2>4 DEF RInv, TargetsImplemented
  <2> QED
    BY <1>2, <2>3, <2>5 DEF RKeeps
<1>4. CASE job \in PortUnit
  <2>1. PICK d \in DevicesOn(job) :
          /\ ModeOf[d] = m /\ attached' = attached \cup {d}
          /\ mode' = [mode EXCEPT ![job] = m]
    BY <1>4, ConfigFacts DEF PlugDone
  <2>2. job \in Unit /\ job \notin PlainUnit
    BY <1>4, ConfigFacts, RouterConfig
  <2>3. \A u \in Unit : mode'[u] = IF u = job THEN m ELSE mode[u]
    BY <2>1, <2>2 DEF RInv, IInv, TInv, TypeOK
  <2>4. d \in Device /\ UnitOf[d] = job /\ d \in registered /\ registered \subseteq Device
    BY <1>1 DEF DevicesOn, RInv, IInv, TInv, TypeOK
  <2>5. phase' = "explicit"
    BY <1>4 DEF PlugDone, BeginPass
  <2>6. ASSUME NEW e \in registered
        PROVE  LinkedIn(attached', e) \/ (UnitOf[e] \notin PlainUnit /\ mode'[UnitOf[e]] # ModeOf[e])
    <3>1. UnitOf[e] \in Unit /\ e \in Device
      BY <2>4, ConfigFacts
    <3>2. CASE UnitOf[e] = job
      <4>1. ModeOf[e] = m => e = d
        BY <1>4, <2>1, <2>4, <3>1, <3>2 DEF OneNodePerPort
      <4> QED
        BY <2>1, <2>2, <2>3, <3>2, <4>1 DEF LinkedIn
    <3>3. CASE UnitOf[e] # job
      <4>1. LinkedIn(attached, e) => LinkedIn(attached', e)
        BY <2>1 DEF LinkedIn
      <4> QED
        BY <2>3, <3>1, <3>3, <4>1 DEF RInv, AttachedRight
    <3> QED
      BY <3>2, <3>3
  <2>7. ASSUME NEW u \in PortUnit \cup ProfileUnit, DevicesOn(u) \cap registered = {}
        PROVE  mode'[u] = OffMode
    <3>1. u # job /\ u \in Unit
      BY <2>1, <2>4, <2>7, RouterConfig
    <3> QED
      BY <2>3, <2>7, <3>1 DEF RInv, AttachedRight
  <2>8. AttachedRight'
    BY <1>1, <2>5, <2>6, <2>7, ActiveNext DEF AttachedRight
  <2> QED
    BY <1>2, <2>5, <2>8 DEF RKeeps, TargetsImplemented
<1>5. CASE job \in ProfileUnit
  <2>1. /\ Becomes(ProfileSwitched(job, m)) /\ ModeFor(job, m) /\ deferred' = TRUE
        /\ phase' = "idle"
    BY <1>5, ConfigFacts DEF PlugDone
  <2>2. DevicesOn(job) \cap registered = {} => m = OffMode
    BY <1>1, <2>1 DEF ModeFor
  <2>3. AttachedRight'
    <3>1. Becomes(ProfileWith(job, m, NodesFor(job, m)))
      BY <2>1 DEF ProfileSwitched
    <3>2. job \in Unit
      BY <1>5, RouterConfig
    <3> QED
      BY <1>1, <1>5, <2>1, <2>2, <3>1, <3>2, ProfileAttached, SwitchedLinked DEF RInv, IInv
  <2> QED
    BY <1>2, <2>1, <2>3 DEF RKeeps, TargetsImplemented
<1>6. job \in PlainUnit \/ job \in PortUnit \/ job \in ProfileUnit
  BY DEF PlugDone
<1> QED
  BY <1>3, <1>4, <1>5, <1>6

LEMMA UnplugUnitImplements == ASSUME RInv, NEW u \in Unit, UnplugUnit(u) PROVE RKeeps
<1>1. /\ phase = "idle" /\ phase' = "unplug" /\ job' = u /\ u \in PortUnit \cup ProfileUnit
      /\ attached' = attached \ DevicesOn(u) /\ mode' = [mode EXCEPT ![u] = OffMode]
      /\ UNCHANGED <<registered, connlist>>
  BY DEF UnplugUnit
<1>2. \A v \in Unit : mode'[v] = IF v = u THEN OffMode ELSE mode[v]
  BY <1>1 DEF RInv, IInv, TInv, TypeOK
<1>3. u \notin PlainUnit
  BY <1>1, ConfigFacts
<1>4. ASSUME NEW d \in registered
      PROVE  LinkedIn(attached', d) \/ (UnitOf[d] \notin PlainUnit /\ mode'[UnitOf[d]] # ModeOf[d])
  <2>1. d \in Device /\ UnitOf[d] \in Unit /\ ModeOf[d] # OffMode
    BY RouterConfig DEF RInv, IInv, TInv, TypeOK
  <2>2. CASE UnitOf[d] = u
    BY <1>2, <1>3, <2>1, <2>2
  <2>3. CASE UnitOf[d] # u
    <3>1. attached \in SUBSET Device /\ attached' \in SUBSET Device
      BY <1>1 DEF RInv, IInv, TInv, TypeOK
    <3>2. \A x \in Device : UnitOf[x] = UnitOf[d] => (x \in attached' <=> x \in attached)
      BY <1>1, <2>3 DEF DevicesOn
    <3>3. LinkedIn(attached', d) <=> LinkedIn(attached, d)
      BY <2>1, <3>1, <3>2, LinkedOnUnit
    <3> QED
      BY <1>1, <1>2, <2>1, <2>3, <3>3 DEF RInv, AttachedRight
  <2> QED
    BY <2>2, <2>3
<1>5. \A v \in PortUnit \cup ProfileUnit : v \in Unit
  BY RouterConfig
<1>6. AttachedRight'
  BY <1>1, <1>2, <1>4, <1>5, ActiveNext DEF RInv, AttachedRight
<1> QED
  BY <1>1, <1>6, SameConns DEF RKeeps, RInv, TargetsImplemented

LEMMA DestroyNodeImplements == ASSUME RInv, NEW d \in Device, DestroyNode(d) PROVE RKeeps
<1>1. /\ phase = "unplug" /\ UnitOf[d] = job /\ registered' = registered \ {d}
      /\ connlist' = [k \in DOMAIN connlist |->
                       IF connlist[k].to = d THEN [connlist[k] EXCEPT !.to = None]
                       ELSE connlist[k]]
      /\ UNCHANGED <<attached, mode, phase, job>>
  BY DEF DestroyNode
<1>2. ConnsReach'
  <2> SUFFICES ASSUME NEW k \in DOMAIN connlist
               PROVE  /\ connlist'[k].blocked = FALSE
                      /\ connlist'[k].to # None => connlist'[k].to \in registered'
    BY <1>1 DEF ConnsReach
  <2>1. /\ connlist[k].blocked = FALSE
        /\ connlist[k].to # None => connlist[k].to \in registered
    BY DEF RInv, ConnsReach
  <2>2. connlist[k] \in [from : Stream \cup {None}, to : Device \cup {None}, blocked : BOOLEAN]
    BY ConnTyped DEF RInv, IInv, TInv
  <2>3. connlist'[k] = IF connlist[k].to = d THEN [connlist[k] EXCEPT !.to = None]
                       ELSE connlist[k]
    BY <1>1
  <2> QED
    BY <1>1, <2>1, <2>2, <2>3
<1>3. ASSUME NEW u \in PortUnit \cup ProfileUnit, DevicesOn(u) \cap registered' = {}
      PROVE  mode[u] = OffMode
  <2>1. CASE DevicesOn(u) \cap registered = {}
    BY <2>1 DEF RInv, AttachedRight
  <2>2. CASE DevicesOn(u) \cap registered # {}
    <3>1. d \in DevicesOn(u)
      BY <1>1, <1>3, <2>2
    <3>2. u = job
      BY <1>1, <3>1 DEF DevicesOn
    <3> QED
      BY <1>1, <3>2 DEF RInv, AttachedRight
  <2> QED
    BY <2>1, <2>2
<1>4. AttachedRight'
  BY <1>1, <1>3, ActiveNext DEF RInv, AttachedRight
<1> QED
  BY <1>1, <1>2, <1>4 DEF RKeeps, TargetsImplemented

LEMMA UnplugDoneImplements == ASSUME RInv, UnplugDone PROVE RKeeps
<1>1. /\ phase = "unplug" /\ phase' = "explicit"
      /\ UNCHANGED <<registered, attached, mode, connlist>>
  BY DEF UnplugDone, BeginPass
<1>2. AttachedRight'
  BY <1>1, ActiveNext DEF RInv, AttachedRight
<1> QED
  BY <1>1, <1>2, SameConns DEF RKeeps, RInv, TargetsImplemented

LEMMA ProfileChangedImplements ==
  ASSUME RInv, NEW u \in Unit, NEW m \in Mode, ProfileChanged(u, m)
  PROVE  RKeeps
<1>1. /\ phase = "idle" /\ phase' = "idle" /\ deferred' = TRUE /\ u \in ProfileUnit
      /\ DevicesOn(u) \cap registered # {} /\ Becomes(ProfileForced(u, m)) /\ mode[u] # m
      /\ UNCHANGED <<registered, connlist>>
  BY DEF ProfileChanged
<1>2. AttachedRight'
  <2>1. /\ Becomes(ProfileWith(u, m, ForcedNodes(u, m)))
        /\ ForcedNodes(u, m) \subseteq DevicesOn(u)
        /\ \A d \in NodesFor(u, m) : LinkedIn(ForcedNodes(u, m), d)
    BY <1>1, ForcedLinked
  <2> HIDE DEF ForcedNodes
  <2> QED
    BY <1>1, <2>1, ProfileAttached DEF RInv, IInv
<1> QED
  BY <1>1, <1>2, SameConns DEF RKeeps, RInv, TargetsImplemented

LEMMA NewChosenImplements == ASSUME RInv, NEW s \in Chooser, NewChosen(s) PROVE RKeeps
<1>1. /\ phase = "idle" /\ phase' = "idle" /\ at[s] = None
      /\ UNCHANGED <<registered, attached, mode, target, connlist, deferred>>
  BY DEF NewChosen, NodlistWith
<1>2. s \in Start
  BY RouterConfig, ConfigFacts
<1>3. PICK u \in Unit : at' = [at EXCEPT ![s] = u]
  BY ConfigFacts DEF NewChosen, RInv, IInv, TInv, TypeOK
<1>4. \A t \in Start : at'[t] = IF t = s THEN u ELSE at[t]
  BY <1>3 DEF RInv, IInv, TInv, TypeOK
<1>5. AttachedRight'
  BY <1>1, QuietAttached DEF RInv, AtWork
<1>6. ASSUME NEW t \in Start, Implemented(t) PROVE Implemented(t)'
  <2>1. CASE target[t] = None
    BY <1>1, <2>1 DEF Implemented
  <2>2. CASE target[t] # None
    <3>1. /\ Ready(target[t]) /\ target[t] \in Device
          /\ target[t] \in attached => at[t] = UnitOf[target[t]]
      BY <1>6, <2>2 DEF Implemented, RInv, IInv, TInv, TypeOK
    <3>2. target[t] \in attached => t # s
      BY <1>1, <3>1, ConfigFacts
    <3> QED
      BY <1>1, <1>4, <3>1, <3>2, ActiveNext DEF Implemented, Ready, Active
  <2> QED
    BY <2>1, <2>2
<1>7. TargetsImplemented'
  BY <1>1, <1>6 DEF RInv, TargetsImplemented
<1> QED
  BY <1>1, <1>5, <1>7, SameConns DEF RKeeps, RInv

LEMMA RemoveStreamImplements == ASSUME RInv, NEW s \in Stream, RemoveStream(s) PROVE RKeeps
<1>1. /\ phase = "idle" /\ BeginPass(None) /\ UNCHANGED <<registered, attached, mode>>
      /\ connlist' = [k \in DOMAIN connlist |->
                       IF connlist[k].from = s THEN [connlist[k] EXCEPT !.from = None]
                       ELSE connlist[k]]
  BY DEF RemoveStream
<1>2. ConnsReach'
  <2> SUFFICES ASSUME NEW k \in DOMAIN connlist
               PROVE  /\ connlist'[k].blocked = FALSE
                      /\ connlist'[k].to # None => connlist'[k].to \in registered'
    BY <1>1 DEF ConnsReach
  <2>1. /\ connlist[k].blocked = FALSE
        /\ connlist[k].to # None => connlist[k].to \in registered
    BY DEF RInv, ConnsReach
  <2>2. connlist[k] \in [from : Stream \cup {None}, to : Device \cup {None}, blocked : BOOLEAN]
    BY ConnTyped DEF RInv, IInv, TInv
  <2>3. connlist'[k] = connlist[k] \/ connlist'[k] = [connlist[k] EXCEPT !.from = None]
    BY <1>1
  <2> QED
    BY <1>1, <2>1, <2>2, <2>3
<1> QED
  BY <1>1, <1>2, PassBeginsImplemented DEF RInv, AtWork

LEMMA AddGatewayImplements == ASSUME RInv, NEW g \in Gateway, AddGateway(g) PROVE RKeeps
<1>1. /\ phase = "idle" /\ phase' = "idle" /\ deferred' \in {deferred, TRUE}
      /\ UNCHANGED <<registered, attached, mode, at, target, connlist>>
  BY DEF AddGateway
<1>2. AttachedRight'
  BY <1>1, QuietAttached DEF RInv, AtWork
<1>3. TargetsImplemented'
  BY <1>1, QuietImplemented DEF RInv, TargetsImplemented
<1> QED
  BY <1>1, <1>2, <1>3, SameConns DEF RKeeps, RInv

LEMMA GatewaySourceGoneImplements ==
  ASSUME RInv, NEW g \in Gateway, GatewaySourceGone(g)
  PROVE  RKeeps
<1>1. /\ phase = "idle" /\ phase' = "idle" /\ deferred' = TRUE
      /\ UNCHANGED <<registered, attached, mode, connlist>>
  BY DEF GatewaySourceGone
<1>2. AttachedRight'
  BY <1>1, QuietAttached DEF RInv, AtWork
<1> QED
  BY <1>1, <1>2, SameConns DEF RKeeps, RInv, TargetsImplemented

LEMMA AddExplicitRouteImplements ==
  ASSUME RInv, NEW s \in Stream, NEW d \in Device, AddExplicitRoute(s, d)
  PROVE  RKeeps
<1> DEFINE C == [from : Stream \cup {None}, to : Device \cup {None}, blocked : BOOLEAN]
           c == [from |-> s, to |-> d, blocked |-> FALSE]
<1>1. /\ phase = "idle" /\ BeginPass(None) /\ UNCHANGED <<registered, attached, mode>>
      /\ connlist' = Append(connlist, c) /\ d \in registered
  BY DEF AddExplicitRoute
<1>2. connlist \in Seq(C) /\ c \in C /\ c.to = d /\ c.blocked = FALSE
  BY DEF RInv, IInv, TInv, TypeOK
<1> HIDE DEF C, c
<1>3. \A k \in DOMAIN connlist' : connlist'[k] = c \/ (k \in DOMAIN connlist /\ connlist'[k] = connlist[k])
  BY <1>1, <1>2
<1>4. ConnsReach'
  BY <1>1, <1>2, <1>3 DEF RInv, ConnsReach
<1> QED
  BY <1>1, <1>4, PassBeginsImplemented DEF RInv, AtWork

LEMMA RemoveExplicitRouteImplements ==
  ASSUME RInv, MayFail = {}, NEW k \in 1 .. MaxConn, RemoveExplicitRoute(k)
  PROVE  RKeeps
<1> DEFINE C == [from : Stream \cup {None}, to : Device \cup {None}, blocked : BOOLEAN]
<1>1. /\ phase = "idle" /\ k \in DOMAIN connlist /\ connlist' = RemoveAt(connlist, k)
      /\ UNCHANGED <<registered, attached, mode, target, deferred>>
  BY DEF RemoveExplicitRoute
<1>2. connlist \in Seq(C)
  BY DEF RInv, IInv, TInv, TypeOK
<1> HIDE DEF C
<1>3. /\ DOMAIN connlist' = 1 .. Len(connlist) - 1 /\ DOMAIN connlist = 1 .. Len(connlist)
      /\ Len(connlist) \in Nat
      /\ \A j \in 1 .. Len(connlist) - 1 :
           connlist'[j] = IF j < k THEN connlist[j] ELSE connlist[j + 1]
  BY <1>1, <1>2, RemoveAtAt, ListAt
<1>4. ConnsReach'
  <2> SUFFICES ASSUME NEW j \in DOMAIN connlist'
               PROVE  /\ connlist'[j].blocked = FALSE
                      /\ connlist'[j].to # None => connlist'[j].to \in registered'
    BY DEF ConnsReach
  <2>1. j \in DOMAIN connlist /\ j + 1 \in DOMAIN connlist
    BY <1>3
  <2>2. connlist'[j] = connlist[j] \/ connlist'[j] = connlist[j + 1]
    BY <1>3
  <2> QED
    BY <1>1, <2>1, <2>2 DEF RInv, ConnsReach
<1>5. CASE Live(connlist[k])
  <2>1. BeginPass(None)
    BY <1>1, <1>5 DEF RemoveExplicitRoute, RInv, ConnsReach
  <2> QED
    BY <1>1, <1>4, <2>1, PassBeginsImplemented DEF RInv, AtWork
<1>6. CASE ~Live(connlist[k])
  <2>1. UNCHANGED <<at, phase>>
    BY <1>6 DEF RemoveExplicitRoute, passState
  <2>2. AttachedRight'
    BY <1>1, <2>1, QuietAttached DEF RInv, AtWork
  <2>3. TargetsImplemented'
    BY <1>1, <2>1, QuietImplemented DEF RInv, TargetsImplemented
  <2> QED
    BY <1>4, <2>2, <2>3 DEF RKeeps
<1> QED
  BY <1>5, <1>6

(* The other handlers only start a pass.                                   *)
LEMMA PassStartersImplement ==
  ASSUME RInv, phase = "idle", NEW n, BeginPass(n),
         UNCHANGED <<registered, attached, mode, connlist>>
  PROVE  RKeeps
BY SameConns, PassBeginsImplemented DEF RInv, AtWork

LEMMA InitImplemented == Init => ConnsReach /\ AttachedRight /\ TargetsImplemented
<1> SUFFICES ASSUME Init PROVE ConnsReach /\ AttachedRight /\ TargetsImplemented
  OBVIOUS
<1>1. /\ registered = {} /\ connlist = <<>> /\ DOMAIN connlist = {}
      /\ \A u \in Unit : mode[u] = OffMode
      /\ \A s \in Start : target[s] = None /\ phase = "plug" /\ data = None
  BY DEF Init
<1>2. \A u \in PortUnit \cup ProfileUnit : u \in Unit
  BY RouterConfig
<1> QED
  BY <1>1, <1>2 DEF Init, ConnsReach, AttachedRight, TargetsImplemented, Implemented

LEMMA NextImplements ==
  ASSUME MayFail = {}, ~Meddling, OneNodePerPort, RInv, IInv', [Next]_vars
  PROVE  RKeeps
<1>1. CASE UNCHANGED vars
  BY <1>1, ActiveNext
  DEF RInv, RKeeps, ConnsReach, AttachedRight, TargetsImplemented, Implemented, Ready, Active
<1>2. CASE PassStep
  BY <1>2, PassStepImplements
<1>3. ASSUME NEW u \in Unit, PlugUnit(u) \/ UnplugUnit(u) PROVE RKeeps
  BY <1>3, PlugUnitImplements, UnplugUnitImplements
<1>4. ASSUME NEW d \in Device, NEW avail \in BOOLEAN, CreateNode(d, avail) PROVE RKeeps
  BY <1>4, CreateNodeImplements
<1>5. ASSUME NEW d \in Device, DestroyNode(d) \/ PortAvailable(d) \/ PortChanged(d) PROVE RKeeps
  <2>1. CASE DestroyNode(d)
    BY <2>1, DestroyNodeImplements
  <2>2. CASE PortAvailable(d)
    BY <2>2, PassStartersImplement DEF PortAvailable
  <2> QED
    BY <1>5, <2>1, <2>2 DEF PortChanged
<1>6. ASSUME NEW m \in Mode, PlugDone(m) PROVE RKeeps
  BY <1>6, PlugDoneImplements
<1>7. CASE UnplugDone
  BY <1>7, UnplugDoneImplements
<1>8. ASSUME NEW u \in Unit, NEW m \in Mode, ProfileChanged(u, m) PROVE RKeeps
  BY <1>8, ProfileChangedImplements
<1>9. CASE DeferredRouting
  BY <1>9, PassStartersImplement DEF DeferredRouting
<1>10. ASSUME NEW s \in Stream, NewStream(s) \/ RemoveStream(s) PROVE RKeeps
  <2>1. CASE NewStream(s)
    BY <2>1, PassStartersImplement DEF NewStream
  <2> QED
    BY <1>10, <2>1, RemoveStreamImplements
<1>11. ASSUME NEW g \in Gateway, AddGateway(g) \/ GatewaySource(g) \/ GatewaySourceGone(g)
                                   \/ RemoveGateway(g)
       PROVE  RKeeps
  <2>1. CASE GatewaySource(g)
    BY <2>1, PassStartersImplement DEF GatewaySource
  <2>2. CASE RemoveGateway(g)
    BY <2>2, PassStartersImplement DEF RemoveGateway
  <2> QED
    BY <1>11, <2>1, <2>2, AddGatewayImplements, GatewaySourceGoneImplements
<1>12. ASSUME NEW s \in Stream, NEW d \in Device, AddExplicitRoute(s, d) PROVE RKeeps
  BY <1>12, AddExplicitRouteImplements
<1>13. ASSUME NEW k \in 1 .. MaxConn, RemoveExplicitRoute(k) PROVE RKeeps
  BY <1>13, RemoveExplicitRouteImplements
<1>14. ASSUME NEW s \in Recorder, NewRecording(s) \/ RemoveRecording(s) PROVE RKeeps
  <2>1. CASE NewRecording(s)
    BY <2>1, PassStartersImplement DEF NewRecording
  <2>2. CASE RemoveRecording(s)
    BY <2>2, PassStartersImplement DEF RemoveRecording
  <2> QED
    BY <1>14, <2>1, <2>2
<1>15. ASSUME NEW s \in Chooser, NewChosen(s) PROVE RKeeps
  BY <1>15, NewChosenImplements
<1> HIDE DEF vars
<1> QED
  BY <1>1, <1>2, <1>3, <1>4, <1>5, <1>6, <1>7, <1>8, <1>9, <1>10, <1>11, <1>12, <1>13,
     <1>14, <1>15
  DEF Next

(* A stream for which a pass found a default route plays on its sink, with *)
(* the right port or profile, whenever the main loop is idle and nothing   *)
(* is scheduled (implement_default_route, mir_switch_setup_link, and the   *)
(* hooks of discover.c that route again or schedule it): for every         *)
(* configuration, static sinks included, in which a sink has one node per  *)
(* port, if PulseAudio refuses no switch, move or teardown and nobody else *)
(* sets ports.  Where somebody else has set a bluetooth profile, the sink  *)
(* may be linked to the node of the profile before (RoutesImplemented).    *)
THEOREM RoutesAreImplemented ==
  ASSUME MayFail = {}, ~Meddling, OneNodePerPort
  PROVE  Spec => []RoutesImplemented
<1>1. Init => RInv
  <2>1. Init => IInv
    BY InitSafe
  <2> QED
    BY <2>1, InitImplemented DEF RInv
<1>2. RInv /\ [Next]_vars => RInv'
  <2> SUFFICES ASSUME RInv, [Next]_vars PROVE RInv'
    OBVIOUS
  <2>1. IInv'
    BY NextType, NextSafe DEF RInv, IInv
  <2> QED
    BY <2>1, NextImplements DEF RInv, RKeeps
<1>3. RInv => RoutesImplemented
  <2> SUFFICES ASSUME RInv, Settled, NEW s \in ToSet(nodlist), target[s] # None
               PROVE  /\ target[s] \in registered
                      /\ mode[UnitOf[target[s]]] = ModeOf[target[s]] \/ UnitOf[target[s]] \in PlainUnit
                      /\ IF target[s] \in attached THEN at[s] = UnitOf[target[s]]
                         ELSE Elsewhere(target[s])
    BY DEF RoutesImplemented
  <2>1. s \in Start
    BY ListElems DEF RInv, IInv, TInv
  <2>2. Implemented(s)
    BY <2>1 DEF RInv, TargetsImplemented, Settled
  <2> QED
    BY <2>2 DEF Implemented, Ready, Active, LinkedIn, Elsewhere
<1> QED
  BY <1>1, <1>2, <1>3, PTL DEF Spec

-----------------------------------------------------------------------------
(* Explicit routes are honoured.                                           *)

(* A connection that no other one overrules or conflicts with.             *)
Lone(k) ==
  /\ Live(connlist[k])
  /\ \A l \in DOMAIN connlist \ {k} :
       Live(connlist[l]) => /\ ~Conflict(connlist[l].to, connlist[k].to)
                            /\ connlist[l].from = connlist[k].from => k < l

(* No default route conflicts with it.                                     *)
Free(k) == \A t \in Start : target[t] # None => ~Conflict(target[t], connlist[k].to)

(* The stream has been moved if the device has a sink.                     *)
Honoured(k) ==
  /\ Ready(connlist[k].to)
  /\ connlist[k].to \in attached => at[connlist[k].from] = UnitOf[connlist[k].to]

Marked(k) == connlist[k].to \in attached => connlist[k].from \in stamped
Reserved(k) == connlist[k].to \in attached => target[connlist[k].from] = None

ConnsKnown ==
  \A k \in DOMAIN connlist : connlist[k].from # None => connlist[k].from \in ToSet(nodlist)

(* The connections the walk has passed are honoured and their streams are  *)
(* stamped; stamped streams get no default route; and the default routes   *)
(* of the pass undo only those they conflict with.                         *)
ConnsHonoured ==
  /\ phase = "explicit" => \A k \in DOMAIN connlist : k > i /\ Lone(k) => Honoured(k) /\ Marked(k)
  /\ phase \in {"data", "start"} =>
       /\ \A k \in DOMAIN connlist : Lone(k) /\ Free(k) => Honoured(k) /\ Marked(k)
       /\ \A s \in stamped : target[s] = None
  /\ phase \in {"idle", "plug"} /\ ~deferred =>
       \A k \in DOMAIN connlist : Lone(k) /\ Free(k) => Honoured(k) /\ Reserved(k)

HInv == BInv /\ RInv /\ ConnsKnown /\ ConnsHonoured
HKeeps == ConnsKnown' /\ ConnsHonoured'

LEMMA HonouredStays ==
  ASSUME TInv, NEW k \in DOMAIN connlist, Live(connlist[k]), Honoured(k),
         NEW d \in registered, Switches(d), ~Conflict(d, connlist[k].to),
         connlist[k].to \in attached => Stayed(connlist[k].from, at'[connlist[k].from], d),
         UNCHANGED <<connlist, registered>>
  PROVE  Honoured(k)' /\ (connlist[k].to \in attached' <=> connlist[k].to \in attached)
<1>1. PICK n \in Start, e \in registered : n = connlist[k].from /\ e = connlist[k].to
  BY ConnTyped, ConfigFacts DEF TInv, Live, Honoured, Ready
<1>2. Active(e) /\ (e \in attached => at[n] = UnitOf[e])
  BY <1>1 DEF Honoured, Ready
<1>3. Active(e)' /\ (e \in attached' <=> e \in attached)
  BY <1>1, <1>2 DEF Switches
<1>4. e \in attached => at'[n] = UnitOf[e]
  BY <1>1, <1>2, StaysThere
<1> QED
  BY <1>1, <1>3, <1>4, ActiveNext DEF Honoured, Ready

LEMMA SameHonoured ==
  ASSUME UNCHANGED <<connlist, registered, attached, mode, at, target>>
  PROVE  \A k : /\ Lone(k)' <=> Lone(k)
                /\ Free(k)' <=> Free(k)
                /\ Honoured(k)' <=> Honoured(k)
                /\ Reserved(k)' <=> Reserved(k)
                /\ stamped' = stamped => (Marked(k)' <=> Marked(k))
BY ActiveNext DEF Lone, Live, Conflict, Free, Honoured, Ready, Active, Reserved, Marked

(* A stream that is prerouted has no connections yet.                      *)
LEMMA DataUnstamped ==
  ASSUME HInv, phase \in {"explicit", "data", "start"}
  PROVE  data \notin stamped
<1> SUFFICES ASSUME data \in stamped PROVE FALSE
  OBVIOUS
<1>1. PICK k \in DOMAIN connlist : connlist[k].from = data
  BY DEF HInv, BInv, DataRight, Explicit
<1>2. data # None /\ data \in Stream
  BY <1>1, ConnTyped, ConfigFacts DEF HInv, BInv, IInv, TInv, TypeOK
<1>3. data \in ToSet(nodlist)
  BY <1>1, <1>2 DEF HInv, ConnsKnown
<1> QED
  BY <1>2, <1>3, ConfigFacts DEF HInv, BInv, DataRight, Skipped

(* A default route of the pass.                                            *)
LEMMA RouteHonours ==
  ASSUME HInv, TInv', phase \in {"data", "start"}, phase' \in {"data", "start"},
         NEW n \in Start, n \notin stamped, NEW d \in registered, Switches(d),
         target' = [target EXCEPT ![n] = d], target[n] \in {None, d},
         \A s \in Start : s # n => Stayed(s, at'[s], d),
         UNCHANGED <<registered, nodlist, connlist, stamped>>
  PROVE  HKeeps
<1>1. /\ target'[n] = d /\ \A t \in Start : t # n => target'[t] = target[t]
      /\ stamped \subseteq Start /\ d # None
  BY ConfigFacts DEF HInv, RInv, IInv, TInv, TypeOK
<1>2. ASSUME NEW k \in DOMAIN connlist, Lone(k)', Free(k)'
      PROVE  Honoured(k)' /\ Marked(k)'
  <2>1. Lone(k)
    BY <1>2 DEF Lone, Live, Conflict
  <2>2. Free(k)
    BY <1>1, <1>2 DEF Free, Conflict
  <2>3. Honoured(k) /\ Marked(k)
    BY <2>1, <2>2 DEF HInv, ConnsHonoured
  <2>4. ~Conflict(d, connlist[k].to)
    BY <1>1, <1>2 DEF Free, Conflict
  <2>5. Stayed(connlist[k].from, at'[connlist[k].from], d) \/ connlist[k].to \notin attached
    BY <1>1, <2>3, ConnTyped, ConfigFacts DEF Marked
  <2>6. Honoured(k)' /\ (connlist[k].to \in attached' <=> connlist[k].to \in attached)
    BY <2>1, <2>3, <2>4, <2>5, HonouredStays DEF Lone, HInv, RInv, IInv
  <2> QED
    BY <2>3, <2>6 DEF Marked
<1>3. \A s \in stamped : target'[s] = None
  BY <1>1 DEF HInv, ConnsHonoured
<1>4. ConnsHonoured'
  BY <1>2, <1>3 DEF ConnsHonoured
<1> QED
  BY <1>4 DEF HKeeps, HInv, ConnsKnown

LEMMA NoRouteHonours ==
  ASSUME HInv, phase \in {"data", "start"}, phase' \in {"data", "start"},
         UNCHANGED <<switchVars, target, registered, nodlist, connlist, stamped>>
  PROVE  HKeeps
<1>1. ConnsHonoured'
  BY SameHonoured DEF HInv, ConnsHonoured
<1> QED
  BY <1>1 DEF HKeeps, HInv, ConnsKnown

LEMMA ExplicitRouteHonours ==
  ASSUME HInv, TInv', OneNodePerPort, MayFail = {}, ExplicitRoute
  PROVE  HKeeps
<1>1. /\ phase = "explicit" /\ phase' = "explicit" /\ i \in DOMAIN connlist /\ i \in Nat
      /\ i' = i - 1 /\ UNCHANGED <<registered, nodlist, connlist, target>>
      /\ DOMAIN connlist \subseteq Nat
  BY DEF ExplicitRoute, HInv, RInv, IInv, TInv, TypeOK, LoopsInside
<1>2. \A k \in DOMAIN connlist : k > i - 1 => k > i \/ k = i
  BY <1>1
<1>3. ConnsHonoured'
  <2>1. CASE ~Live(connlist[i])
    <3>1. UNCHANGED <<switchVars, stamped>>
      BY <1>1, <2>1 DEF ExplicitRoute, Live
    <3>2. ~Lone(i)
      BY <2>1 DEF Lone
    <3> QED
      BY <1>1, <1>2, <3>1, <3>2, SameHonoured DEF HInv, ConnsHonoured
  <2>2. CASE Live(connlist[i])
    <3>1. connlist[i].blocked = FALSE
      BY <1>1 DEF HInv, RInv, ConnsReach
    <3>2. PICK n \in Start, d \in registered : n = connlist[i].from /\ d = connlist[i].to
      BY <1>1, <2>2, ConnTyped, ConfigFacts DEF Live, HInv, RInv, IInv, TInv, ConnsReach
    <3>3. PICK l \in LinkResults(n, d) :
            Becomes(l.r) /\ stamped' = IF l.ok THEN stamped \cup {n} ELSE stamped
      BY <1>1, <2>2, <3>1, <3>2 DEF ExplicitRoute, Live
    <3>4. /\ SwitchedTo(l.r, d)
          /\ d \in l.r.attached => l.ok = TRUE /\ l.r.at[n] = UnitOf[d]
          /\ \A s \in Start : s # n => Stayed(s, l.r.at[s], d)
      BY <1>1, LinkWorks DEF HInv, RInv, IInv, AtWork
    <3>5. /\ Switches(d) /\ stamped \subseteq stamped'
          /\ d \in attached' => at'[n] = UnitOf[d] /\ n \in stamped'
          /\ \A s \in Start : s # n => Stayed(s, at'[s], d)
      BY <3>3, <3>4, SwitchedSwitches DEF Becomes
    <3>6. ASSUME NEW k \in DOMAIN connlist, k > i - 1, Lone(k)'
          PROVE  Honoured(k)' /\ Marked(k)'
      <4>1. Lone(k)
        BY <1>1, <3>6 DEF Lone, Live, Conflict
      <4>2. CASE k = i
        BY <1>1, <3>2, <3>5, <4>2, ActiveNext DEF Honoured, Marked, Ready, Switches
      <4>3. CASE k > i
        <5>1. Honoured(k) /\ Marked(k)
          BY <1>1, <4>1, <4>3 DEF HInv, ConnsHonoured
        <5>2. ~Conflict(d, connlist[k].to) /\ connlist[k].from # n
          BY <1>1, <2>2, <3>2, <4>1, <4>3 DEF Lone
        <5>3. connlist[k].from \in Start
          BY <4>1, ConnTyped, ConfigFacts DEF Lone, Live, HInv, RInv, IInv, TInv
        <5>4. Honoured(k)' /\ (connlist[k].to \in attached' <=> connlist[k].to \in attached)
          BY <1>1, <3>5, <4>1, <5>1, <5>2, <5>3, HonouredStays DEF Lone, HInv, RInv, IInv
        <5> QED
          BY <1>1, <3>5, <5>1, <5>4 DEF Marked
      <4> QED
        BY <1>2, <3>6, <4>2, <4>3
    <3> QED
      BY <1>1, <3>6 DEF ConnsHonoured
  <2> QED
    BY <2>1, <2>2
<1> QED
  BY <1>1, <1>3 DEF HKeeps, HInv, ConnsKnown

LEMMA ExplicitDoneHonours == ASSUME HInv, ExplicitDone PROVE HKeeps
<1>1. /\ phase = "explicit" /\ i = 0 /\ phase' \in {"data", "start"}
      /\ UNCHANGED <<registered, nodlist, switchVars, stamped, connlist>>
      /\ \A s \in Start : target'[s] = None
      /\ DOMAIN connlist \subseteq Nat /\ 0 \notin DOMAIN connlist /\ stamped \subseteq Start
  BY DEF ExplicitDone, HInv, RInv, IInv, TInv, TypeOK
<1>2. ASSUME NEW k \in DOMAIN connlist, Lone(k)'
      PROVE  Honoured(k)' /\ Marked(k)'
  <2>1. k > i
    BY <1>1, <1>2
  <2>2. Lone(k)
    BY <1>1, <1>2 DEF Lone, Live, Conflict
  <2>3. Honoured(k) /\ Marked(k)
    BY <1>1, <2>1, <2>2 DEF HInv, ConnsHonoured
  <2> QED
    BY <1>1, <2>3, ActiveNext DEF Honoured, Marked, Ready, Active
<1>3. ConnsHonoured'
  BY <1>1, <1>2 DEF ConnsHonoured
<1> QED
  BY <1>1, <1>3 DEF HKeeps, HInv, ConnsKnown

LEMMA DataHonours ==
  ASSUME HInv, TInv', OneNodePerPort, MayFail = {}, phase = "data", RouteData,
         phase' \in {"data", "start"}, UNCHANGED <<registered, nodlist, connlist, stamped>>
  PROVE  HKeeps
<1>1. PICK n \in Start : n = data
  BY DEF HInv, RInv, IInv, TInv, TypeOK, LoopsInside
<1>2. n \notin stamped
  BY <1>1, DataUnstamped
<1>3. target[n] = None \/ target[n] = Found(n)
  BY <1>1, PrerouteFirst DEF HInv, First
<1>4. CASE UNCHANGED <<switchVars, target>>
  BY <1>4, NoRouteHonours
<1>5. ASSUME NEW d \in registered, Switches(d), target' = [target EXCEPT ![n] = d],
             \A s \in Start : Stayed(s, at'[s], d)
      PROVE  HKeeps
  <2>1. target'[n] = d
    BY <1>5 DEF HInv, RInv, IInv, TInv, TypeOK
  <2>2. target' = target \/ target'[n] = Found(n)
    BY <1>1 DEF RouteData, HInv, RInv, IInv, TInv, TypeOK
  <2>3. target[n] \in {None, d}
    BY <1>3, <2>1, <2>2
  <2> QED
    BY <1>2, <1>5, <2>3, RouteHonours
<1> QED
  BY <1>1, <1>4, <1>5, DataWorks DEF HInv, AtWork

LEMMA StartTurnHonours ==
  ASSUME HInv, TInv', OneNodePerPort, MayFail = {}, StartTurn
  PROVE  HKeeps
<1>1. /\ phase = "start" /\ i > 0 /\ phase' \in {"data", "start"}
      /\ UNCHANGED <<registered, nodlist, connlist, stamped>>
  BY DEF StartTurn
<1>2. PICK n \in Start : n = nodlist[i]
  BY DEF StartTurn, HInv, RInv, IInv, TInv, TypeOK, LoopsInside
<1>3. CASE Skipped(n) \/ n \in stamped
  <2>1. UNCHANGED <<switchVars, target>>
    BY <1>2, <1>3 DEF StartTurn
  <2> QED
    BY <1>1, <2>1, NoRouteHonours
<1>4. CASE ~Skipped(n) /\ n \notin stamped
  <2>1. RouteStart(n)
    BY <1>2, <1>4 DEF StartTurn
  <2>2. target[n] = None
    BY <1>1, <1>2, <1>4, WalkFirst DEF HInv, First
  <2>3. CASE UNCHANGED <<switchVars, target>>
    BY <1>1, <2>3, NoRouteHonours
  <2>4. ASSUME NEW d \in registered, Switches(d), target' = [target EXCEPT ![n] = d],
               \A s \in Start : s # n => Stayed(s, at'[s], d)
        PROVE  HKeeps
    BY <1>1, <1>4, <2>2, <2>4, RouteHonours
  <2> QED
    BY <1>1, <2>1, <2>3, <2>4, StartWorks DEF HInv, AtWork
<1> QED
  BY <1>3, <1>4

LEMMA DataDoneHonours == ASSUME HInv, DataDone PROVE HKeeps
<1>1. /\ phase = "data" /\ phase' = "idle" /\ nodlist' = NodlistWith(data)
      /\ UNCHANGED <<registered, attached, mode, target, connlist>>
  BY DEF DataDone
<1>2. PICK n \in Start : n = data /\ n # None
  BY <1>1, ConfigFacts DEF HInv, RInv, IInv, TInv, TypeOK, LoopsInside
<1>3. PICK u : at' = [at EXCEPT ![n] = u]
  BY <1>2 DEF DataDone
<1>4. \A s \in Start : s # n => at'[s] = at[s]
  BY <1>3 DEF HInv, RInv, IInv, TInv, TypeOK
<1>5. n \notin stamped /\ stamped \subseteq Start
  BY <1>1, <1>2, DataUnstamped DEF HInv, RInv, IInv, TInv, TypeOK
<1>6. ASSUME NEW k \in DOMAIN connlist, Lone(k)', Free(k)'
      PROVE  Honoured(k)' /\ Reserved(k)'
  <2>1. Lone(k) /\ Free(k)
    BY <1>1, <1>6 DEF Lone, Live, Free, Conflict
  <2>2. Honoured(k) /\ Marked(k) /\ Reserved(k)
    BY <1>1, <2>1 DEF HInv, ConnsHonoured, Marked, Reserved
  <2>3. connlist[k].to \in attached => at'[connlist[k].from] = at[connlist[k].from]
    BY <1>4, <1>5, <2>2 DEF Marked
  <2> QED
    BY <1>1, <2>2, <2>3, ActiveNext DEF Honoured, Reserved, Ready, Active
<1>7. ConnsHonoured'
  BY <1>1, <1>6 DEF ConnsHonoured
<1>8. ToSet(nodlist) \subseteq ToSet(nodlist')
  <2>1. CASE n \in Stream
    <3>1. n \notin ToSet(nodlist)
      BY <1>2, <2>1, ConfigFacts DEF HInv, BInv, DataRight, Skipped
    <3> QED
      BY <1>1, <1>2, <2>1, <3>1, NodlistGrows DEF NodlistWith, HInv, BInv, IInv, TInv
  <2>2. CASE n \notin Stream
    BY <1>1, <1>2, <2>2 DEF NodlistWith
  <2> QED
    BY <2>1, <2>2
<1> QED
  BY <1>1, <1>7, <1>8 DEF HKeeps, HInv, ConnsKnown

LEMMA PassStepHonours ==
  ASSUME HInv, TInv', OneNodePerPort, MayFail = {}, PassStep
  PROVE  HKeeps
<1>1. CASE DataTurn
  <2>1. /\ phase = "data" /\ phase' \in {"data", "start"}
        /\ UNCHANGED <<registered, nodlist, connlist, stamped>>
        /\ RouteData \/ UNCHANGED <<switchVars, target>>
    BY <1>1 DEF DataTurn
  <2> QED
    BY <2>1, DataHonours, NoRouteHonours
<1>2. CASE DataLast
  <2>1. /\ phase = "data" /\ phase' = "data" /\ RouteData
        /\ UNCHANGED <<registered, nodlist, connlist, stamped>>
    BY <1>2 DEF DataLast
  <2> QED
    BY <2>1, DataHonours
<1>3. CASE PassDone
  <2>1. /\ phase = "start" /\ phase' = "idle"
        /\ UNCHANGED <<nodeVars, switchVars, passVars, connlist>>
    BY <1>3 DEF PassDone
  <2>2. \A k \in DOMAIN connlist : Marked(k) => Reserved(k)
    BY <2>1 DEF HInv, ConnsHonoured, Marked, Reserved
  <2>3. ConnsHonoured'
    BY <2>1, <2>2, SameHonoured DEF HInv, ConnsHonoured
  <2> QED
    BY <2>1, <2>3 DEF HKeeps, HInv, ConnsKnown
<1> QED
  BY <1>1, <1>2, <1>3, ExplicitRouteHonours, ExplicitDoneHonours, StartTurnHonours,
     DataDoneHonours DEF PassStep

-----------------------------------------------------------------------------
(* The handlers and explicit routes.                                       *)

(* A handler that ends in a pass or a scheduled one.                       *)
LEMMA LaterHonoured ==
  ASSUME TInv', ConnsKnown',
         \/ phase' = "unplug"
         \/ phase' = "idle" /\ deferred' = TRUE
         \/ phase' = "explicit" /\ i' = Len(connlist')
  PROVE  HKeeps
<1>1. \A k \in DOMAIN connlist' : ~(k > Len(connlist'))
  BY DEF TInv, TypeOK
<1> QED
  BY <1>1 DEF HKeeps, ConnsHonoured

LEMMA SameKnown ==
  ASSUME ConnsKnown, UNCHANGED connlist, ToSet(nodlist) \subseteq ToSet(nodlist')
  PROVE  ConnsKnown'
BY DEF ConnsKnown

(* One that leaves the routes alone.                                       *)
LEMMA QuietHonours ==
  ASSUME HInv, phase \in {"idle", "plug"}, phase' \in {"idle", "plug"},
         deferred' \in BOOLEAN, deferred' = FALSE => ~deferred,
         UNCHANGED <<connlist, mode, target>>,
         registered \subseteq registered', attached \subseteq attached',
         \A d \in Device : UnitOf[d] \notin PlainUnit => (d \in attached' <=> d \in attached),
         \A s \in Stream \cap ToSet(nodlist) : at'[s] = at[s],
         ToSet(nodlist) \subseteq ToSet(nodlist')
  PROVE  HKeeps
<1>1. ASSUME NEW k \in DOMAIN connlist, ~deferred, Lone(k)', Free(k)'
      PROVE  Honoured(k)' /\ Reserved(k)'
  <2>1. Lone(k) /\ Free(k)
    BY <1>1 DEF Lone, Live, Free, Conflict
  <2>2. Honoured(k) /\ Reserved(k)
    BY <1>1, <2>1 DEF HInv, ConnsHonoured
  <2>3. connlist[k].from \in Stream \cap ToSet(nodlist)
    BY <2>1, ConnTyped DEF Lone, Live, HInv, ConnsKnown, RInv, IInv, TInv
  <2>4. PICK e \in registered : e = connlist[k].to /\ Active(e)
    BY <2>2 DEF Honoured, Ready
  <2>5. e \in Device /\ LinkedIn(attached, e)
    BY <2>4 DEF Active, HInv, RInv, IInv, TInv, TypeOK
  <2>6. e \in attached' <=> e \in attached
    <3>1. CASE UnitOf[e] \in PlainUnit
      BY <2>5, <3>1, LinkedPlain, ConfigFacts
    <3>2. CASE UnitOf[e] \notin PlainUnit
      BY <2>5, <3>2
    <3> QED
      BY <3>1, <3>2
  <2>7. Active(e)'
    <3>1. LinkedIn(attached', e)
      BY <2>5 DEF LinkedIn
    <3> QED
      BY <2>4, <3>1, ActiveNext DEF Active
  <2> QED
    BY <2>2, <2>3, <2>4, <2>6, <2>7, ActiveNext DEF Honoured, Reserved, Ready
<1>2. ConnsHonoured'
  BY <1>1 DEF ConnsHonoured
<1> QED
  BY <1>2, SameKnown DEF HKeeps, HInv

LEMMA NewChosenHonours == ASSUME HInv, NEW s \in Chooser, NewChosen(s) PROVE HKeeps
<1>1. /\ phase = "idle" /\ phase' = "idle" /\ at[s] = None /\ nodlist' = NodlistWith(s)
      /\ UNCHANGED <<registered, attached, mode, target, connlist, deferred>>
  BY DEF NewChosen
<1>2. s \in Start
  BY RouterConfig, ConfigFacts
<1>3. PICK u : at' = [at EXCEPT ![s] = u]
  BY DEF NewChosen
<1>4. \A t \in Start : t # s => at'[t] = at[t]
  BY <1>3 DEF HInv, RInv, IInv, TInv, TypeOK
<1>5. s \in Stream => s \notin ToSet(nodlist)
  BY <1>1 DEF HInv, BInv, NodesRight
<1>6. \A t \in Stream \cap ToSet(nodlist) : at'[t] = at[t]
  BY <1>4, <1>5, ConfigFacts
<1>7. ToSet(nodlist) \subseteq ToSet(nodlist')
  <2>1. CASE s \in Stream
    BY <1>1, <1>2, <1>5, <2>1, NodlistGrows DEF NodlistWith, HInv, BInv, IInv, TInv
  <2>2. CASE s \notin Stream
    BY <1>1, <2>2 DEF NodlistWith
  <2> QED
    BY <2>1, <2>2
<1>8. deferred \in BOOLEAN
  BY DEF HInv, RInv, IInv, TInv, TypeOK
<1> QED
  BY <1>1, <1>6, <1>7, <1>8, QuietHonours

LEMMA PlugHonours ==
  ASSUME HInv, TInv', NEW m \in Mode, PlugDone(m)
  PROVE  HKeeps
<1>1. /\ phase = "plug" /\ UNCHANGED <<registered, nodlist, connlist, target>>
  BY DEF PlugDone
<1>2. CASE job \in PortUnit \cup {NullUnit}
  <2>1. phase' = "explicit" /\ i' = Len(connlist')
    BY <1>2 DEF PlugDone, BeginPass
  <2> QED
    BY <1>1, <2>1, LaterHonoured, SameKnown DEF HInv
<1>3. CASE job \in PlainUnit /\ job # NullUnit
  <2>1. /\ phase' = "idle" /\ attached \subseteq attached' /\ UNCHANGED <<mode, at, deferred>>
        /\ \A d \in Device : UnitOf[d] \notin PlainUnit => (d \in attached' <=> d \in attached)
    BY <1>3, ConfigFacts DEF PlugDone, DevicesOn
  <2>2. deferred' \in BOOLEAN
    BY DEF TInv, TypeOK
  <2> QED
    BY <1>1, <2>1, <2>2, QuietHonours
<1>4. CASE job \in ProfileUnit
  <2>1. phase' = "idle" /\ deferred' = TRUE
    BY <1>4, ConfigFacts DEF PlugDone
  <2> QED
    BY <1>1, <2>1, LaterHonoured, SameKnown DEF HInv
<1>5. job \in PlainUnit \/ job \in PortUnit \/ job \in ProfileUnit
  BY DEF PlugDone
<1> QED
  BY <1>2, <1>3, <1>4, <1>5

LEMMA DestroyNodeHonours == ASSUME HInv, TInv', NEW d \in Device, DestroyNode(d) PROVE HKeeps
<1>1. /\ phase' = "unplug" /\ UNCHANGED nodlist
      /\ connlist' = [k \in DOMAIN connlist |->
                       IF connlist[k].to = d THEN [connlist[k] EXCEPT !.to = None]
                       ELSE connlist[k]]
  BY DEF DestroyNode
<1>2. ConnsKnown'
  <2> SUFFICES ASSUME NEW k \in DOMAIN connlist, connlist'[k].from # None
               PROVE  connlist'[k].from \in ToSet(nodlist)
    BY <1>1 DEF ConnsKnown
  <2>1. connlist[k] \in [from : Stream \cup {None}, to : Device \cup {None}, blocked : BOOLEAN]
    BY ConnTyped DEF HInv, RInv, IInv, TInv
  <2>2. connlist'[k] = connlist[k] \/ connlist'[k] = [connlist[k] EXCEPT !.to = None]
    BY <1>1
  <2>3. connlist'[k].from = connlist[k].from
    BY <2>1, <2>2
  <2> QED
    BY <2>3 DEF HInv, ConnsKnown
<1> QED
  BY <1>1, <1>2, LaterHonoured

LEMMA RemoveStreamHonours ==
  ASSUME HInv, TInv', NEW s \in Stream, RemoveStream(s)
  PROVE  HKeeps
<1>1. /\ phase' = "explicit" /\ i' = Len(connlist') /\ nodlist' = Unlink(nodlist, s)
      /\ connlist' = [k \in DOMAIN connlist |->
                       IF connlist[k].from = s THEN [connlist[k] EXCEPT !.from = None]
                       ELSE connlist[k]]
  BY DEF RemoveStream, BeginPass
<1>2. ToSet(nodlist') = ToSet(nodlist) \ {s}
  BY <1>1, UnlinkOrdered, ConfigFacts DEF HInv, BInv, ListsRight, IInv, TInv, TypeOK
<1>3. ConnsKnown'
  <2> SUFFICES ASSUME NEW k \in DOMAIN connlist, connlist'[k].from # None
               PROVE  connlist'[k].from \in ToSet(nodlist')
    BY <1>1 DEF ConnsKnown
  <2>1. connlist[k] \in [from : Stream \cup {None}, to : Device \cup {None}, blocked : BOOLEAN]
    BY ConnTyped DEF HInv, RInv, IInv, TInv
  <2>2. connlist'[k] = IF connlist[k].from = s THEN [connlist[k] EXCEPT !.from = None]
                       ELSE connlist[k]
    BY <1>1
  <2>3. connlist'[k].from = connlist[k].from /\ connlist[k].from # s
    BY <2>1, <2>2
  <2> QED
    BY <1>2, <2>3 DEF HInv, ConnsKnown
<1> QED
  BY <1>1, <1>3, LaterHonoured

LEMMA RemoveGatewayHonours ==
  ASSUME HInv, TInv', NEW g \in Gateway, RemoveGateway(g)
  PROVE  HKeeps
<1>1. /\ phase' = "explicit" /\ i' = Len(connlist') /\ nodlist' = Unlink(nodlist, g)
      /\ UNCHANGED connlist
  BY DEF RemoveGateway, BeginPass
<1>2. ToSet(nodlist') = ToSet(nodlist) \ {g}
  BY <1>1, UnlinkOrdered, ConfigFacts DEF HInv, BInv, ListsRight, IInv, TInv, TypeOK
<1>3. ConnsKnown'
  <2> SUFFICES ASSUME NEW k \in DOMAIN connlist, connlist[k].from # None
               PROVE  connlist[k].from \in ToSet(nodlist')
    BY <1>1 DEF ConnsKnown
  <2>1. connlist[k].from \in Stream
    BY ConnTyped DEF HInv, RInv, IInv, TInv
  <2> QED
    BY <1>2, <2>1, ConfigFacts DEF HInv, ConnsKnown
<1> QED
  BY <1>1, <1>3, LaterHonoured

LEMMA AddExplicitRouteHonours ==
  ASSUME HInv, TInv', NEW s \in Stream, NEW d \in Device, AddExplicitRoute(s, d)
  PROVE  HKeeps
<1> DEFINE C == [from : Stream \cup {None}, to : Device \cup {None}, blocked : BOOLEAN]
           c == [from |-> s, to |-> d, blocked |-> FALSE]
<1>1. /\ phase' = "explicit" /\ i' = Len(connlist') /\ UNCHANGED nodlist
      /\ connlist' = Append(connlist, c) /\ s \in ToSet(nodlist)
  BY DEF AddExplicitRoute, BeginPass
<1>2. connlist \in Seq(C) /\ c \in C /\ c.from = s
  BY DEF HInv, RInv, IInv, TInv, TypeOK
<1> HIDE DEF C, c
<1>3. \A k \in DOMAIN connlist' : connlist'[k] = c \/ (k \in DOMAIN connlist /\ connlist'[k] = connlist[k])
  BY <1>1, <1>2
<1>4. ConnsKnown'
  BY <1>1, <1>2, <1>3 DEF HInv, ConnsKnown
<1> QED
  BY <1>1, <1>4, LaterHonoured

LEMMA RemoveExplicitRouteHonours ==
  ASSUME HInv, TInv', MayFail = {}, NEW k \in 1 .. MaxConn, RemoveExplicitRoute(k)
  PROVE  HKeeps
<1> DEFINE C == [from : Stream \cup {None}, to : Device \cup {None}, blocked : BOOLEAN]
           Old(j) == IF j < k THEN j ELSE j + 1
<1>1. /\ phase = "idle" /\ k \in DOMAIN connlist /\ connlist' = RemoveAt(connlist, k)
      /\ UNCHANGED <<registered, nodlist, attached, mode, target, deferred>>
  BY DEF RemoveExplicitRoute
<1>2. connlist \in Seq(C)
  BY DEF HInv, RInv, IInv, TInv, TypeOK
<1> HIDE DEF C
<1>3. /\ DOMAIN connlist' = 1 .. Len(connlist) - 1 /\ DOMAIN connlist = 1 .. Len(connlist)
      /\ Len(connlist) \in Nat
      /\ \A j \in DOMAIN connlist' : connlist'[j] = connlist[Old(j)] /\ Old(j) \in DOMAIN connlist
  BY <1>1, <1>2, RemoveAtAt, ListAt
<1>4. ConnsKnown'
  BY <1>1, <1>3 DEF HInv, ConnsKnown
<1>5. CASE Live(connlist[k])
  <2>1. phase' = "explicit" /\ i' = Len(connlist')
    BY <1>1, <1>5 DEF RemoveExplicitRoute, BeginPass, HInv, RInv, ConnsReach
  <2> QED
    BY <1>4, <2>1, LaterHonoured
<1>6. CASE ~Live(connlist[k])
  <2>1. UNCHANGED <<at, phase>>
    BY <1>6 DEF RemoveExplicitRoute, passState
  <2>2. ASSUME NEW j \in DOMAIN connlist', ~deferred, Lone(j)', Free(j)'
        PROVE  Honoured(j)' /\ Reserved(j)'
    <3>1. Lone(Old(j))
      <4> SUFFICES ASSUME NEW o \in DOMAIN connlist \ {Old(j)}, Live(connlist[o])
                   PROVE  /\ ~Conflict(connlist[o].to, connlist[Old(j)].to)
                          /\ connlist[o].from = connlist[Old(j)].from => Old(j) < o
        BY <1>3, <2>2 DEF Lone, Live
      <4>1. o # k
        BY <1>6
      <4>2. PICK l \in DOMAIN connlist' \ {j} : o = Old(l)
        <5>1. CASE o < k
          BY <1>1, <1>3, <5>1
        <5>2. CASE k < o
          <6>1. o - 1 \in DOMAIN connlist' /\ Old(o - 1) = o
            BY <1>1, <1>3, <5>2
          <6> QED
            BY <6>1
        <5> QED
          BY <1>1, <1>3, <4>1, <5>1, <5>2
      <4>3. connlist'[l] = connlist[o] /\ connlist'[j] = connlist[Old(j)]
        BY <1>3, <4>2
      <4>4. j < l => Old(j) < Old(l)
        BY <1>1, <1>3, <4>2
      <4> QED
        BY <2>2, <4>2, <4>3, <4>4 DEF Lone, Live, Conflict
    <3>2. Free(Old(j))
      BY <1>1, <1>3, <2>2 DEF Free, Conflict
    <3>3. Honoured(Old(j)) /\ Reserved(Old(j))
      BY <1>1, <1>3, <2>2, <3>1, <3>2 DEF HInv, ConnsHonoured
    <3> QED
      BY <1>1, <1>3, <2>1, <3>3, ActiveNext DEF Honoured, Reserved, Ready, Active
  <2>3. ConnsHonoured'
    BY <1>1, <2>1, <2>2 DEF ConnsHonoured
  <2> QED
    BY <1>4, <2>3 DEF HKeeps
<1> QED
  BY <1>5, <1>6

LEMMA NextHonours ==
  ASSUME MayFail = {}, ~Meddling, OneNodePerPort, HInv, TInv', [Next]_vars
  PROVE  HKeeps
<1>0. deferred \in BOOLEAN /\ deferred' \in BOOLEAN
  BY DEF HInv, RInv, IInv, TInv, TypeOK
<1>1. CASE UNCHANGED vars
  <2>1. ConnsHonoured'
    BY <1>1, SameHonoured DEF HInv, ConnsHonoured
  <2> QED
    BY <1>1, <2>1 DEF HKeeps, HInv, ConnsKnown
<1>2. CASE PassStep
  BY <1>2, PassStepHonours
<1>3. ASSUME NEW u \in Unit, PlugUnit(u) \/ UnplugUnit(u) PROVE HKeeps
  <2>1. CASE PlugUnit(u)
    BY <1>0, <2>1, QuietHonours DEF PlugUnit
  <2>2. CASE UnplugUnit(u)
    BY <2>2, LaterHonoured, SameKnown DEF UnplugUnit, HInv
  <2> QED
    BY <1>3, <2>1, <2>2
<1>4. ASSUME NEW d \in Device, NEW avail \in BOOLEAN, CreateNode(d, avail) PROVE HKeeps
  BY <1>0, <1>4, QuietHonours DEF CreateNode
<1>5. ASSUME NEW d \in Device, DestroyNode(d) \/ PortAvailable(d) \/ PortChanged(d) PROVE HKeeps
  <2>1. CASE PortAvailable(d)
    BY <2>1, LaterHonoured, SameKnown DEF PortAvailable, BeginPass, HInv
  <2> QED
    BY <1>5, <2>1, DestroyNodeHonours DEF PortChanged
<1>6. ASSUME NEW m \in Mode, PlugDone(m) PROVE HKeeps
  BY <1>6, PlugHonours
<1>7. CASE UnplugDone
  BY <1>7, LaterHonoured, SameKnown DEF UnplugDone, BeginPass, HInv
<1>8. ASSUME NEW u \in Unit, NEW m \in Mode, ProfileChanged(u, m) PROVE HKeeps
  BY <1>8, LaterHonoured, SameKnown DEF ProfileChanged, HInv
<1>9. CASE DeferredRouting
  BY <1>9, LaterHonoured, SameKnown DEF DeferredRouting, BeginPass, HInv
<1>10. ASSUME NEW s \in Stream, NewStream(s) \/ RemoveStream(s) PROVE HKeeps
  <2>1. CASE NewStream(s)
    BY <2>1, LaterHonoured, SameKnown DEF NewStream, BeginPass, HInv
  <2> QED
    BY <1>10, <2>1, RemoveStreamHonours
<1>11. ASSUME NEW g \in Gateway, AddGateway(g) PROVE HKeeps
  <2>1. ToSet(nodlist) \subseteq ToSet(nodlist')
    BY <1>11, NodlistGrows, ConfigFacts DEF AddGateway, HInv, BInv, IInv, TInv
  <2>2. /\ phase = "idle" /\ phase' = "idle" /\ deferred' \in {deferred, TRUE}
        /\ UNCHANGED <<registered, attached, mode, at, connlist, target>>
    BY <1>11 DEF AddGateway
  <2>3. deferred' \in BOOLEAN /\ (deferred' = FALSE => ~deferred)
    BY <1>0, <2>2
  <2> QED
    BY <2>1, <2>2, <2>3, QuietHonours
<1>12. ASSUME NEW g \in Gateway, GatewaySource(g) \/ GatewaySourceGone(g) \/ RemoveGateway(g)
       PROVE  HKeeps
  <2>1. CASE GatewaySource(g)
    BY <2>1, LaterHonoured, SameKnown DEF GatewaySource, BeginPass, HInv
  <2>2. CASE GatewaySourceGone(g)
    BY <2>2, LaterHonoured, SameKnown DEF GatewaySourceGone, HInv
  <2> QED
    BY <1>12, <2>1, <2>2, RemoveGatewayHonours
<1>13. ASSUME NEW s \in Stream, NEW d \in Device, AddExplicitRoute(s, d) PROVE HKeeps
  BY <1>13, AddExplicitRouteHonours
<1>14. ASSUME NEW k \in 1 .. MaxConn, RemoveExplicitRoute(k) PROVE HKeeps
  BY <1>14, RemoveExplicitRouteHonours
<1>15. ASSUME NEW s \in Recorder, NewRecording(s) \/ RemoveRecording(s) PROVE HKeeps
  BY <1>15, LaterHonoured, SameKnown DEF NewRecording, RemoveRecording, BeginPass, HInv
<1>16. ASSUME NEW s \in Chooser, NewChosen(s) PROVE HKeeps
  BY <1>16, NewChosenHonours
<1> HIDE DEF vars
<1> QED
  BY <1>1, <1>2, <1>3, <1>4, <1>5, <1>6, <1>7, <1>8, <1>9, <1>10, <1>11, <1>12, <1>13,
     <1>14, <1>15, <1>16
  DEF Next

(* A connection of the audio manager that nothing contradicts is kept: the *)
(* stream plays on its device and no default route is made for it          *)
(* (make_explicit_routes before make_routing, the stamps, the walk from    *)
(* the newest connection to the oldest), however many connections there    *)
(* are and in whatever order nodes and connections come and go.  The       *)
(* assumptions are those of RoutesAreImplemented.                          *)
THEOREM ExplicitRoutesAreHonoured ==
  ASSUME MayFail = {}, ~Meddling, OneNodePerPort
  PROVE  Spec => []ExplicitRouteHonoured
<1>1. Init => HInv
  <2> SUFFICES ASSUME Init PROVE HInv
    OBVIOUS
  <2>1. BInv /\ RInv
    BY InitSafe, InitBest, InitImplemented DEF BInv, RInv
  <2>2. DOMAIN connlist = {} /\ phase = "plug"
    BY DEF Init
  <2> QED
    BY <2>1, <2>2 DEF HInv, ConnsKnown, ConnsHonoured
<1>2. HInv /\ [Next]_vars => HInv'
  <2> SUFFICES ASSUME HInv, [Next]_vars PROVE HInv'
    OBVIOUS
  <2>1. TInv' /\ IInv'
    BY NextType, NextSafe DEF HInv, RInv, IInv
  <2>2. BInv'
    BY <2>1, NextBest DEF HInv, BInv, Keeps
  <2>3. RInv'
    BY <2>1, NextImplements DEF HInv, RInv, RKeeps
  <2>4. HKeeps
    BY <2>1, NextHonours
  <2> QED
    BY <2>2, <2>3, <2>4 DEF HInv, HKeeps
<1>3. HInv => ExplicitRouteHonoured
  <2> SUFFICES ASSUME HInv, Settled, NEW k \in DOMAIN connlist,
                      Live(connlist[k]), connlist[k].to \in attached,
                      \A l \in DOMAIN connlist \ {k} :
                        Live(connlist[l]) =>
                          /\ ~Conflict(connlist[l].to, connlist[k].to)
                          /\ connlist[l].from = connlist[k].from => k < l,
                      \A t \in Start : target[t] # None => ~Conflict(target[t], connlist[k].to)
               PROVE  /\ at[connlist[k].from] = UnitOf[connlist[k].to]
                      /\ target[connlist[k].from] = None
    BY DEF ExplicitRouteHonoured
  <2>1. Lone(k) /\ Free(k)
    BY DEF Lone, Free
  <2> QED
    BY <2>1 DEF HInv, ConnsHonoured, Settled, Honoured, Reserved
<1> QED
  BY <1>1, <1>2, <1>3, PTL DEF Spec
=============================================================================
