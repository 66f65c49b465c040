--------------------------- MODULE ResourceProofs ---------------------------
(***************************************************************************)
(* Proofs about Resource, for any sets of nodes, names and ids, whatever   *)
(* tables Murphy sends and whether or not ids come back.                   *)
(***************************************************************************)
EXTENDS Resource, SequenceTheorems, FiniteSetTheorems, TLAPS

-----------------------------------------------------------------------------
(* Lists without duplicates.                                               *)

LEMMA AppendOnce ==
  ASSUME NEW T, NEW list \in Seq(T), NEW e \in T
  PROVE  /\ Append(list, e) \in Seq(T) /\ Append(list, e) # <<>>
         /\ ToSet(Append(list, e)) = ToSet(list) \cup {e}
         /\ IsInjective(list) /\ e \notin ToSet(list) => IsInjective(Append(list, e))
<1> DEFINE longer == Append(list, e)
<1>1. /\ longer \in Seq(T) /\ Len(longer) = Len(list) + 1
      /\ \A j \in 1 .. Len(list) : longer[j] = list[j]
      /\ longer[Len(list) + 1] = e
  BY AppendProperties
<1>2. /\ DOMAIN longer = DOMAIN list \cup {Len(list) + 1} /\ DOMAIN list = 1 .. Len(list)
      /\ Len(list) \in Nat /\ longer # <<>>
  BY <1>1, LenProperties
<1> HIDE DEF longer
<1>3. ToSet(longer) = ToSet(list) \cup {e}
  BY <1>1, <1>2 DEF ToSet
<1>4. IsInjective(list) /\ e \notin ToSet(list) => IsInjective(longer)
  BY <1>1, <1>2 DEF IsInjective, ToSet
<1> QED
  BY <1>1, <1>2, <1>3, <1>4 DEF longer

LEMMA WithoutOne ==
  ASSUME NEW T, NEW list \in Seq(T), NEW x \in ToSet(list), IsInjective(list)
  PROVE  /\ Without(list, x) \in Seq(T)
         /\ ToSet(Without(list, x)) = ToSet(list) \ {x}
         /\ IsInjective(Without(list, x))
         /\ Len(list) > 1 => Without(list, x) # <<>>
<1> DEFINE k == CHOOSE j \in DOMAIN list : list[j] = x
           rest == RemoveAt(list, k)
<1>1. k \in DOMAIN list /\ list[k] = x
  BY DEF ToSet
<1> HIDE DEF k
<1>2. /\ Len(list) \in Nat /\ DOMAIN list = 1 .. Len(list) /\ k \in Nat /\ 1 <= k /\ k <= Len(list)
      /\ \A j \in DOMAIN list : list[j] \in T
  BY <1>1, LenProperties, ElementOfSeq
<1>3. /\ SubSeq(list, 1, k - 1) \in Seq(T) /\ Len(SubSeq(list, 1, k - 1)) = k - 1
      /\ \A j \in 1 .. k - 1 : SubSeq(list, 1, k - 1)[j] = list[j]
  BY <1>2, SubSeqProperties, \A j \in 1 .. k - 1 : list[j] \in T
<1>4. /\ SubSeq(list, k + 1, Len(list)) \in Seq(T)
      /\ Len(SubSeq(list, k + 1, Len(list))) = Len(list) - k
      /\ \A j \in 1 .. Len(list) - k : SubSeq(list, k + 1, Len(list))[j] = list[k + j]
  <2>1. \A j \in k + 1 .. Len(list) : list[j] \in T
    BY <1>2
  <2>2. /\ SubSeq(list, k + 1, Len(list)) \in Seq(T)
        /\ Len(SubSeq(list, k + 1, Len(list))) =
             IF k + 1 <= Len(list) THEN Len(list) - (k + 1) + 1 ELSE 0
        /\ \A j \in 1 .. Len(list) - (k + 1) + 1 :
             SubSeq(list, k + 1, Len(list))[j] = list[k + 1 + j - 1]
    BY <1>2, <2>1, SubSeqProperties
  <2>3. Len(SubSeq(list, k + 1, Len(list))) = Len(list) - k
    <3>1. /\ k + 1 <= Len(list) => Len(SubSeq(list, k + 1, Len(list))) = Len(list) - (k + 1) + 1
          /\ ~(k + 1 <= Len(list)) => Len(SubSeq(list, k + 1, Len(list))) = 0
      BY <2>2
    <3>2. Len(list) \in Nat /\ k \in Nat /\ k <= Len(list)
      BY <1>2
    <3> QED
      BY <3>1, <3>2
  <2>4. ASSUME NEW j \in 1 .. Len(list) - k
        PROVE  SubSeq(list, k + 1, Len(list))[j] = list[k + j]
    <3>1. j \in 1 .. Len(list) - (k + 1) + 1 /\ k + 1 + j - 1 = k + j
      BY <1>2
    <3> QED
      BY <2>2, <3>1
  <2> QED
    BY <2>2, <2>3, <2>4
<1>5. /\ rest \in Seq(T) /\ Len(rest) = Len(list) - 1
      /\ \A j \in 1 .. Len(rest) : rest[j] = IF j < k THEN list[j] ELSE list[j + 1]
  <2> DEFINE before == SubSeq(list, 1, k - 1)
             after == SubSeq(list, k + 1, Len(list))
  <2>1. rest = before \o after
    BY DEF RemoveAt
  <2> HIDE DEF rest, before, after
  <2>2. /\ rest \in Seq(T) /\ Len(rest) = Len(before) + Len(after)
        /\ \A j \in 1 .. Len(before) + Len(after) :
             rest[j] = IF j <= Len(before) THEN before[j] ELSE after[j - Len(before)]
    BY <1>3, <1>4, <2>1, ConcatProperties DEF before, after
  <2>3. Len(before) = k - 1 /\ Len(after) = Len(list) - k
    BY <1>3, <1>4 DEF before, after
  <2>4. ASSUME NEW j \in 1 .. Len(list) - 1
        PROVE  rest[j] = IF j < k THEN list[j] ELSE list[j + 1]
    <3>1. CASE j < k
      BY <1>2, <1>3, <2>2, <2>3, <3>1 DEF before
    <3>2. CASE ~(j < k)
      <4>1. j - (k - 1) \in 1 .. Len(list) - k /\ k + (j - (k - 1)) = j + 1
        BY <1>2, <3>2
      <4>2. rest[j] = after[j - (k - 1)]
        BY <1>2, <2>2, <2>3, <3>2
      <4>3. after[j - (k - 1)] = list[k + (j - (k - 1))]
        BY <1>4, <4>1 DEF after
      <4> QED
        BY <3>2, <4>1, <4>2, <4>3
    <3> QED
      BY <3>1, <3>2
  <2> QED
    BY <1>2, <2>2, <2>3, <2>4
<1>6. DOMAIN rest = 1 .. Len(list) - 1
  BY <1>5, LenProperties
<1> HIDE DEF rest
<1>7. ToSet(rest) = ToSet(list) \ {x}
  <2>1. \A j \in DOMAIN list : list[j] = x => j = k
    BY <1>1 DEF IsInjective
  <2>2. ASSUME NEW j \in DOMAIN rest PROVE rest[j] \in ToSet(list) \ {x}
    <3>1. CASE j < k
      BY <1>2, <1>5, <1>6, <2>1, <3>1 DEF ToSet
    <3>2. CASE ~(j < k)
      BY <1>2, <1>5, <1>6, <2>1, <3>2 DEF ToSet
    <3> QED
      BY <3>1, <3>2
  <2>3. ASSUME NEW j \in DOMAIN list, list[j] # x PROVE list[j] \in ToSet(rest)
    <3>1. CASE j < k
      BY <1>2, <1>5, <1>6, <3>1 DEF ToSet
    <3>2. CASE j > k
      <4>1. j - 1 \in DOMAIN rest /\ rest[j - 1] = list[j]
        BY <1>2, <1>5, <1>6, <3>2
      <4> QED
        BY <4>1 DEF ToSet
    <3> QED
      BY <1>1, <1>2, <2>3, <3>1, <3>2
  <2> QED
    BY <2>2, <2>3 DEF ToSet
<1>8. IsInjective(rest)
  <2> DEFINE p(j) == IF j < k THEN j ELSE j + 1
  <2>1. \A j \in DOMAIN rest : p(j) \in DOMAIN list /\ rest[j] = list[p(j)]
    BY <1>2, <1>5, <1>6
  <2>2. \A i, j \in DOMAIN rest : p(i) = p(j) => i = j
    BY <1>2, <1>6
  <2> HIDE DEF p
  <2> QED
    BY <2>1, <2>2 DEF IsInjective
<1>9. Len(list) > 1 => rest # <<>>
  BY <1>2, <1>5
<1> QED
  BY <1>5, <1>7, <1>8, <1>9 DEF rest, k, Without

LEMMA FirstOfList ==
  ASSUME NEW T, NEW list \in Seq(T), list # <<>>
  PROVE  /\ Head(list) \in ToSet(list) /\ Len(list) \in Nat /\ Len(list) # 0
         /\ Len(list) = 1 => ToSet(list) = {Head(list)}
<1>1. Len(list) \in Nat \ {0} /\ DOMAIN list = 1 .. Len(list) /\ Head(list) = list[1]
  BY LenProperties, EmptySeq
<1> QED
  BY <1>1 DEF ToSet

LEMMA ElementsOfList == ASSUME NEW T, NEW list \in Seq(T) PROVE ToSet(list) \subseteq T
BY ElementOfSeq, LenProperties DEF ToSet

LEMMA SingleList ==
  ASSUME NEW e
  PROVE  Append(<<>>, e) = <<e>> /\ ToSet(<<e>>) = {e} /\ <<e>> # <<>> /\ IsInjective(<<e>>)
BY DEF ToSet, IsInjective

-----------------------------------------------------------------------------
(* The entries of resource.c: what the operations on one entry do.         *)

NameOrNone == Name \cup {Empty, None}
IdOrNone == Id \cup {None}

DbType == [rset : [RsetObj -> RsetType \cup {None}],
           stream : [StreamObj -> StreamType \cup {None}],
           rid : [Id -> RsetObj \cup {None}], sid : [Id -> StreamObj \cup {None}],
           rname : [Name \cup {Empty} -> RsetObj \cup {None}],
           sname : [Name \cup {Empty} -> StreamObj \cup {None}],
           snode : [Node -> StreamObj \cup {None}], nres : [Type -> Nat]]

FreshRset(name, id) ==
  [name |-> name, id |-> id, streams |-> <<>>, type |-> {}, updated |-> FALSE, dead |-> FALSE,
   data |-> None, policy |-> [t \in Type |-> "unknown"], grant |-> {}, over |-> FALSE]

FreshStream(name, id, node) == [name |-> name, id |-> id, node |-> node, rsets |-> <<>>]

LEMMA Constants ==
  /\ None \notin RsetType /\ None \notin StreamType /\ None \notin Node
  /\ None \notin RsetObj /\ None \notin StreamObj
  /\ None \notin Id /\ None \notin Name \cup {Empty} /\ IsFiniteSet(RsetObj)
BY ResourceConfig

LEMMA Entries ==
  ASSUME NEW d \in DbType
  PROVE  /\ Rsets(d) \subseteq RsetObj /\ Streams(d) \subseteq StreamObj
         /\ \A r \in RsetObj : r \in Rsets(d) <=> d.rset[r] # None
         /\ \A s \in StreamObj : s \in Streams(d) <=> d.stream[s] # None
         /\ \A r \in Rsets(d) : d.rset[r] \in RsetType
         /\ \A s \in Streams(d) : d.stream[s] \in StreamType
BY DEF Rsets, Streams, DbType

LEMMA RsetEntryFields ==
  ASSUME NEW d \in DbType, Rsets(d) # RsetObj, NEW name \in NameOrNone, NEW id \in IdOrNone,
         NEW e, e = RsetEntry(d, name, id), NEW r, r = NewRset(d)
  PROVE  /\ r \in RsetObj /\ d.rset[r] = None
         /\ e \in DbType
         /\ e.rset = [d.rset EXCEPT ![r] = FreshRset(name, id)]
         /\ e.stream = d.stream /\ e.nres = d.nres
         /\ e.rname = Put(d.rname, name, r) /\ e.rid = Put(d.rid, id, r)
         /\ e.sname = d.sname /\ e.sid = d.sid /\ e.snode = d.snode
<1>1. r \in RsetObj /\ d.rset[r] = None
  <2>1. \E o \in RsetObj : d.rset[o] = None
    BY DEF Rsets
  <2> QED
    BY <2>1 DEF NewRset
<1>2. FreshRset(name, id) \in RsetType
  BY DEF FreshRset, RsetType, NameOrNone, IdOrNone, Policy
<1>3. /\ e.rset = [d.rset EXCEPT ![r] = FreshRset(name, id)]
      /\ e.stream = d.stream /\ e.nres = d.nres
      /\ e.rname = Put(d.rname, name, r) /\ e.rid = Put(d.rid, id, r)
      /\ e.sname = d.sname /\ e.sid = d.sid /\ e.snode = d.snode
      /\ e = [rset |-> e.rset, stream |-> e.stream, rid |-> e.rid, sid |-> e.sid,
              rname |-> e.rname, sname |-> e.sname, snode |-> e.snode, nres |-> e.nres]
  BY DEF RsetEntry, FreshRset, DbType
<1>4. e.rset \in [RsetObj -> RsetType \cup {None}]
  BY <1>2, <1>3 DEF DbType
<1>5. /\ e.rname \in [Name \cup {Empty} -> RsetObj \cup {None}]
      /\ e.rid \in [Id -> RsetObj \cup {None}]
  BY <1>1, <1>3 DEF DbType, NameOrNone, IdOrNone, Put
<1>6. e \in DbType
  BY <1>3, <1>4, <1>5 DEF DbType
<1> QED
  BY <1>1, <1>3, <1>6

LEMMA RsetEntryFreeFields ==
  ASSUME NEW d \in DbType, NEW r \in Rsets(d), NEW e, e = RsetEntryFree(d, r)
  PROVE  /\ e \in DbType
         /\ e.rset = [d.rset EXCEPT ![r] = None]
         /\ e.stream = d.stream /\ e.nres = d.nres
         /\ e.rname = Drop(d.rname, d.rset[r].name) /\ e.rid = Drop(d.rid, d.rset[r].id)
         /\ e.sname = d.sname /\ e.sid = d.sid /\ e.snode = d.snode
<1>1. /\ e.rset = [d.rset EXCEPT ![r] = None]
      /\ e.stream = d.stream /\ e.nres = d.nres
      /\ e.rname = Drop(d.rname, d.rset[r].name) /\ e.rid = Drop(d.rid, d.rset[r].id)
      /\ e.sname = d.sname /\ e.sid = d.sid /\ e.snode = d.snode
      /\ e = [rset |-> e.rset, stream |-> e.stream, rid |-> e.rid, sid |-> e.sid,
              rname |-> e.rname, sname |-> e.sname, snode |-> e.snode, nres |-> e.nres]
  BY DEF RsetEntryFree, DbType
<1>2. e \in DbType
  BY <1>1 DEF DbType, Drop, Put
<1> QED
  BY <1>1, <1>2

LEMMA StreamEntryFields ==
  ASSUME NEW d \in DbType, Streams(d) # StreamObj, NEW name \in NameOrNone, NEW id \in IdOrNone,
         NEW n \in Node \cup {None},
         NEW e, e = StreamEntry(d, name, id, n), NEW s, s = NewStream(d)
  PROVE  /\ s \in StreamObj /\ d.stream[s] = None
         /\ e \in DbType
         /\ e.stream = [d.stream EXCEPT ![s] = FreshStream(name, id, n)]
         /\ e.rset = d.rset /\ e.nres = d.nres
         /\ e.sname = Put(d.sname, name, s) /\ e.sid = Put(d.sid, id, s)
         /\ e.snode = Put(d.snode, n, s)
         /\ e.rname = d.rname /\ e.rid = d.rid
<1>1. s \in StreamObj /\ d.stream[s] = None
  <2>1. \E o \in StreamObj : d.stream[o] = None
    BY DEF Streams
  <2> QED
    BY <2>1 DEF NewStream
<1>2. FreshStream(name, id, n) \in StreamType
  BY DEF FreshStream, StreamType, NameOrNone, IdOrNone
<1>3. /\ e.stream = [d.stream EXCEPT ![s] = FreshStream(name, id, n)]
      /\ e.rset = d.rset /\ e.nres = d.nres
      /\ e.sname = Put(d.sname, name, s) /\ e.sid = Put(d.sid, id, s)
      /\ e.snode = Put(d.snode, n, s)
      /\ e.rname = d.rname /\ e.rid = d.rid
      /\ e = [rset |-> e.rset, stream |-> e.stream, rid |-> e.rid, sid |-> e.sid,
              rname |-> e.rname, sname |-> e.sname, snode |-> e.snode, nres |-> e.nres]
  BY DEF StreamEntry, FreshStream, DbType
<1>4. e.stream \in [StreamObj -> StreamType \cup {None}]
  BY <1>2, <1>3 DEF DbType
<1>5. /\ e.sname \in [Name \cup {Empty} -> StreamObj \cup {None}]
      /\ e.sid \in [Id -> StreamObj \cup {None}]
      /\ e.snode \in [Node -> StreamObj \cup {None}]
  BY <1>1, <1>3 DEF DbType, NameOrNone, IdOrNone, Put
<1>6. e \in DbType
  BY <1>3, <1>4, <1>5 DEF DbType
<1> QED
  BY <1>1, <1>3, <1>6

LEMMA StreamEntryFailedFields ==
  ASSUME NEW d \in DbType, NEW name \in NameOrNone, NEW id \in IdOrNone,
         NEW e, e = StreamEntryFailed(d, name, id)
  PROVE  /\ e \in DbType
         /\ e.stream = d.stream /\ e.rset = d.rset /\ e.nres = d.nres
         /\ e.sname = Drop(d.sname, name)
         /\ e.sid = d.sid \/ e.sid = Drop(d.sid, id)
         /\ e.snode = d.snode /\ e.rname = d.rname /\ e.rid = d.rid
<1>1. /\ e.stream = d.stream /\ e.rset = d.rset /\ e.nres = d.nres
      /\ e.sname = Drop(d.sname, name)
      /\ e.sid = d.sid \/ e.sid = Drop(d.sid, id)
      /\ e.snode = d.snode /\ e.rname = d.rname /\ e.rid = d.rid
      /\ e = [rset |-> e.rset, stream |-> e.stream, rid |-> e.rid, sid |-> e.sid,
              rname |-> e.rname, sname |-> e.sname, snode |-> e.snode, nres |-> e.nres]
  BY DEF StreamEntryFailed, DbType
<1>2. e \in DbType
  BY <1>1 DEF DbType, Drop, Put
<1> QED
  BY <1>1, <1>2

LEMMA StreamEntryFreeFields ==
  ASSUME NEW d \in DbType, NEW s \in Streams(d), NEW e, e = StreamEntryFree(d, s)
  PROVE  /\ e \in DbType
         /\ e.stream = [d.stream EXCEPT ![s] = None]
         /\ e.rset = d.rset /\ e.nres = d.nres
         /\ e.sname = Drop(d.sname, d.stream[s].name) /\ e.sid = Drop(d.sid, d.stream[s].id)
         /\ e.snode = Drop(d.snode, d.stream[s].node)
         /\ e.rname = d.rname /\ e.rid = d.rid
<1>1. /\ e.stream = [d.stream EXCEPT ![s] = None]
      /\ e.rset = d.rset /\ e.nres = d.nres
      /\ e.sname = Drop(d.sname, d.stream[s].name) /\ e.sid = Drop(d.sid, d.stream[s].id)
      /\ e.snode = Drop(d.snode, d.stream[s].node)
      /\ e.rname = d.rname /\ e.rid = d.rid
      /\ e = [rset |-> e.rset, stream |-> e.stream, rid |-> e.rid, sid |-> e.sid,
              rname |-> e.rname, sname |-> e.sname, snode |-> e.snode, nres |-> e.nres]
  BY DEF StreamEntryFree, DbType
<1>2. e \in DbType
  BY <1>1 DEF DbType, Drop, Put
<1> QED
  BY <1>1, <1>2

LEMMA LinkedFields ==
  ASSUME NEW d \in DbType, NEW r \in Rsets(d), NEW s \in Streams(d), NEW e, e = Linked(d, r, s)
  PROVE  /\ e \in DbType
         /\ e.rset = [d.rset EXCEPT ![r].streams = Append(d.rset[r].streams, s)]
         /\ e.stream = [d.stream EXCEPT ![s].rsets = Append(d.stream[s].rsets, r)]
         /\ e.nres = d.nres /\ e.rid = d.rid /\ e.sid = d.sid
         /\ e.rname = d.rname /\ e.sname = d.sname /\ e.snode = d.snode
<1>1. /\ e.rset = [d.rset EXCEPT ![r].streams = Append(d.rset[r].streams, s)]
      /\ e.stream = [d.stream EXCEPT ![s].rsets = Append(d.stream[s].rsets, r)]
      /\ e.nres = d.nres /\ e.rid = d.rid /\ e.sid = d.sid
      /\ e.rname = d.rname /\ e.sname = d.sname /\ e.snode = d.snode
      /\ e = [rset |-> e.rset, stream |-> e.stream, rid |-> e.rid, sid |-> e.sid,
              rname |-> e.rname, sname |-> e.sname, snode |-> e.snode, nres |-> e.nres]
  BY DEF Linked, DbType
<1>2. /\ r \in RsetObj /\ s \in StreamObj
      /\ d.rset[r] \in RsetType /\ d.stream[s] \in StreamType
  BY Entries
<1>3. /\ Append(d.rset[r].streams, s) \in Seq(StreamObj)
      /\ Append(d.stream[s].rsets, r) \in Seq(RsetObj)
  BY <1>2, AppendOnce DEF RsetType, StreamType
<1>4. /\ [d.rset[r] EXCEPT !.streams = Append(d.rset[r].streams, s)] \in RsetType
      /\ [d.stream[s] EXCEPT !.rsets = Append(d.stream[s].rsets, r)] \in StreamType
  BY <1>2, <1>3 DEF RsetType, StreamType
<1>5. /\ e.rset \in [RsetObj -> RsetType \cup {None}]
      /\ e.stream \in [StreamObj -> StreamType \cup {None}]
  <2> DEFINE x == [d.rset[r] EXCEPT !.streams = Append(d.rset[r].streams, s)]
             y == [d.stream[s] EXCEPT !.rsets = Append(d.stream[s].rsets, r)]
  <2>1. e.rset = [d.rset EXCEPT ![r] = x] /\ e.stream = [d.stream EXCEPT ![s] = y]
    BY <1>1
  <2>2. x \in RsetType /\ y \in StreamType
    BY <1>4
  <2> HIDE DEF x, y
  <2> QED
    BY <2>1, <2>2 DEF DbType
<1>6. e \in DbType
  BY <1>1, <1>5 DEF DbType
<1> QED
  BY <1>1, <1>6

LEMMA UnlinkedFields ==
  ASSUME NEW d \in DbType, NEW r \in Rsets(d), NEW s \in Streams(d), NEW e, e = Unlinked(d, r, s),
         s \in ToSet(d.rset[r].streams), IsInjective(d.rset[r].streams),
         r \in ToSet(d.stream[s].rsets), IsInjective(d.stream[s].rsets)
  PROVE  /\ e \in DbType
         /\ e.rset = [d.rset EXCEPT ![r].streams = Without(d.rset[r].streams, s)]
         /\ e.stream = [d.stream EXCEPT ![s].rsets = Without(d.stream[s].rsets, r)]
         /\ e.nres = d.nres /\ e.rid = d.rid /\ e.sid = d.sid
         /\ e.rname = d.rname /\ e.sname = d.sname /\ e.snode = d.snode
<1>1. /\ e.rset = [d.rset EXCEPT ![r].streams = Without(d.rset[r].streams, s)]
      /\ e.stream = [d.stream EXCEPT ![s].rsets = Without(d.stream[s].rsets, r)]
      /\ e.nres = d.nres /\ e.rid = d.rid /\ e.sid = d.sid
      /\ e.rname = d.rname /\ e.sname = d.sname /\ e.snode = d.snode
      /\ e = [rset |-> e.rset, stream |-> e.stream, rid |-> e.rid, sid |-> e.sid,
              rname |-> e.rname, sname |-> e.sname, snode |-> e.snode, nres |-> e.nres]
  BY DEF Unlinked, DbType
<1>2. /\ r \in RsetObj /\ s \in StreamObj
      /\ d.rset[r] \in RsetType /\ d.stream[s] \in StreamType
  BY Entries
<1>3. /\ Without(d.rset[r].streams, s) \in Seq(StreamObj)
      /\ Without(d.stream[s].rsets, r) \in Seq(RsetObj)
  BY <1>2, WithoutOne DEF RsetType, StreamType
<1>4. /\ [d.rset[r] EXCEPT !.streams = Without(d.rset[r].streams, s)] \in RsetType
      /\ [d.stream[s] EXCEPT !.rsets = Without(d.stream[s].rsets, r)] \in StreamType
  BY <1>2, <1>3 DEF RsetType, StreamType
<1>5. e \in DbType
  BY <1>1, <1>4 DEF DbType
<1> QED
  BY <1>1, <1>5

-----------------------------------------------------------------------------
(* What holds of the entries between any two steps, as the properties say  *)
(* it of db.                                                               *)

Mutual(d) ==
  /\ \A r \in Rsets(d), s \in StreamObj :
       s \in ToSet(d.rset[r].streams) => s \in Streams(d) /\ r \in ToSet(d.stream[s].rsets)
  /\ \A s \in Streams(d), r \in RsetObj :
       r \in ToSet(d.stream[s].rsets) => r \in Rsets(d) /\ s \in ToSet(d.rset[r].streams)
  /\ \A r \in Rsets(d) : d.rset[r].streams # <<>> /\ IsInjective(d.rset[r].streams)
  /\ \A s \in Streams(d) : d.stream[s].rsets # <<>> /\ IsInjective(d.stream[s].rsets)

RsetsFaithful(d) ==
  /\ \A k \in Id : d.rid[k] # None => d.rid[k] \in Rsets(d) /\ d.rset[d.rid[k]].id = k
  /\ \A k \in Name \cup {Empty} :
       d.rname[k] # None => d.rname[k] \in Rsets(d) /\ d.rset[d.rname[k]].name = k

StreamsFaithful(d) ==
  /\ \A k \in Id : d.sid[k] # None => d.sid[k] \in Streams(d) /\ d.stream[d.sid[k]].id = k
  /\ \A k \in Name \cup {Empty} :
       d.sname[k] # None => d.sname[k] \in Streams(d) /\ d.stream[d.sname[k]].name = k
  /\ \A n \in Node : d.snode[n] # None => d.snode[n] \in Streams(d) /\ d.stream[d.snode[n]].node = n
  /\ \A s \in Streams(d) : d.stream[s].node # None => d.snode[d.stream[s].node] = s

Faithful(d) == RsetsFaithful(d) /\ StreamsFaithful(d)

Alive(d, t) == {r \in Rsets(d) : t \in d.rset[r].type /\ ~d.rset[r].dead}
Counted(d) == \A t \in Type : d.nres[t] = Cardinality(Alive(d, t))

Good(d) == d \in DbType /\ Mutual(d) /\ Faithful(d) /\ Counted(d)

(* An rset entry that does not change keeps what is said of it.            *)
LEMMA SameRsets ==
  ASSUME NEW d \in DbType, NEW e \in DbType, e.rset = d.rset, e.rid = d.rid, e.rname = d.rname
  PROVE  /\ Rsets(e) = Rsets(d)
         /\ RsetsFaithful(d) => RsetsFaithful(e)
         /\ e.nres = d.nres /\ Counted(d) => Counted(e)
BY DEF Rsets, RsetsFaithful, Counted, Alive

LEMMA SameStreams ==
  ASSUME NEW d \in DbType, NEW e \in DbType, e.stream = d.stream, e.sid = d.sid,
         e.sname = d.sname, e.snode = d.snode
  PROVE  /\ Streams(e) = Streams(d)
         /\ StreamsFaithful(d) => StreamsFaithful(e)
BY DEF Streams, StreamsFaithful

LEMMA RsetEntryKeeps ==
  ASSUME NEW d \in DbType, Rsets(d) # RsetObj, NEW name \in NameOrNone, NEW id \in IdOrNone,
         NEW e, e = RsetEntry(d, name, id), Faithful(d), Counted(d)
  PROVE  Faithful(e) /\ Counted(e) /\ Rsets(e) = Rsets(d) \cup {NewRset(d)} /\ Streams(e) = Streams(d)
<1> DEFINE r == NewRset(d)
<1>1. /\ r \in RsetObj /\ d.rset[r] = None /\ e \in DbType
      /\ e.rset = [d.rset EXCEPT ![r] = FreshRset(name, id)]
      /\ e.stream = d.stream /\ e.nres = d.nres
      /\ e.rname = Put(d.rname, name, r) /\ e.rid = Put(d.rid, id, r)
      /\ e.sname = d.sname /\ e.sid = d.sid /\ e.snode = d.snode
  BY RsetEntryFields
<1> HIDE DEF r
<1>2. FreshRset(name, id).name = name /\ FreshRset(name, id).id = id /\ FreshRset(name, id).type = {}
      /\ FreshRset(name, id) # None
  <2>1. FreshRset(name, id) \in RsetType
    BY DEF FreshRset, RsetType, NameOrNone, IdOrNone, Policy
  <2> QED
    BY <2>1, Constants DEF FreshRset
<1>3. /\ \A q \in RsetObj : e.rset[q] = IF q = r THEN FreshRset(name, id) ELSE d.rset[q]
  BY <1>1 DEF DbType
<1>4. Rsets(e) = Rsets(d) \cup {r} /\ r \notin Rsets(d)
  BY <1>1, <1>2, <1>3 DEF Rsets
<1>5. /\ \A k \in Id : e.rid[k] = IF k = id THEN r ELSE d.rid[k]
      /\ \A k \in Name \cup {Empty} : e.rname[k] = IF k = name THEN r ELSE d.rname[k]
  BY <1>1, Constants DEF DbType, Put
<1>6. RsetsFaithful(e)
  BY <1>1, <1>2, <1>3, <1>4, <1>5 DEF RsetsFaithful, Faithful
<1>7. StreamsFaithful(e) /\ Streams(e) = Streams(d)
  BY <1>1, SameStreams DEF Faithful
<1>8. Counted(e)
  <2>1. \A t \in Type : Alive(e, t) = Alive(d, t)
    BY <1>1, <1>2, <1>3, <1>4 DEF Alive, Rsets
  <2> QED
    BY <1>1, <2>1 DEF Counted
<1> QED
  BY <1>4, <1>6, <1>7, <1>8 DEF Faithful, r

LEMMA RsetEntryFreeKeeps ==
  ASSUME NEW d \in DbType, NEW r \in Rsets(d), NEW e, e = RsetEntryFree(d, r), Faithful(d)
  PROVE  /\ Faithful(e) /\ Rsets(e) = Rsets(d) \ {r} /\ Streams(e) = Streams(d)
         /\ \A t \in Type : Alive(e, t) = Alive(d, t) \ {r}
<1>1. /\ e \in DbType
      /\ e.rset = [d.rset EXCEPT ![r] = None]
      /\ e.stream = d.stream /\ e.nres = d.nres
      /\ e.rname = Drop(d.rname, d.rset[r].name) /\ e.rid = Drop(d.rid, d.rset[r].id)
      /\ e.sname = d.sname /\ e.sid = d.sid /\ e.snode = d.snode
  BY RsetEntryFreeFields
<1>2. /\ r \in RsetObj
      /\ \A q \in RsetObj : e.rset[q] = IF q = r THEN None ELSE d.rset[q]
  BY <1>1, Entries DEF DbType
<1>3. Rsets(e) = Rsets(d) \ {r}
  BY <1>2 DEF Rsets
<1>4. /\ \A k \in Id : e.rid[k] = IF k = d.rset[r].id THEN None ELSE d.rid[k]
      /\ \A k \in Name \cup {Empty} : e.rname[k] = IF k = d.rset[r].name THEN None ELSE d.rname[k]
  BY <1>1, Constants DEF DbType, Drop, Put
<1>5. RsetsFaithful(e)
  BY <1>2, <1>3, <1>4, Entries DEF RsetsFaithful, Faithful
<1>6. StreamsFaithful(e) /\ Streams(e) = Streams(d)
  BY <1>1, SameStreams DEF Faithful
<1>7. \A t \in Type : Alive(e, t) = Alive(d, t) \ {r}
  BY <1>2, <1>3 DEF Alive, Rsets
<1> QED
  BY <1>3, <1>5, <1>6, <1>7 DEF Faithful

LEMMA StreamEntryKeeps ==
  ASSUME NEW d \in DbType, Streams(d) # StreamObj, NEW name \in NameOrNone, NEW id \in IdOrNone,
         NEW n \in Node \cup {None}, n # None => d.snode[n] = None,
         NEW e, e = StreamEntry(d, name, id, n), Faithful(d), Counted(d)
  PROVE  /\ Faithful(e) /\ Counted(e)
         /\ Streams(e) = Streams(d) \cup {NewStream(d)} /\ Rsets(e) = Rsets(d)
<1> DEFINE s == NewStream(d)
<1>1. /\ s \in StreamObj /\ d.stream[s] = None /\ e \in DbType
      /\ e.stream = [d.stream EXCEPT ![s] = FreshStream(name, id, n)]
      /\ e.rset = d.rset /\ e.nres = d.nres
      /\ e.sname = Put(d.sname, name, s) /\ e.sid = Put(d.sid, id, s)
      /\ e.snode = Put(d.snode, n, s)
      /\ e.rname = d.rname /\ e.rid = d.rid
  BY StreamEntryFields
<1> HIDE DEF s
<1>2. /\ FreshStream(name, id, n).name = name /\ FreshStream(name, id, n).id = id
      /\ FreshStream(name, id, n).node = n /\ FreshStream(name, id, n) # None
  <2>1. FreshStream(name, id, n) \in StreamType
    BY DEF FreshStream, StreamType, NameOrNone, IdOrNone
  <2> QED
    BY <2>1, Constants DEF FreshStream
<1>3. \A q \in StreamObj : e.stream[q] = IF q = s THEN FreshStream(name, id, n) ELSE d.stream[q]
  BY <1>1 DEF DbType
<1>4. Streams(e) = Streams(d) \cup {s} /\ s \notin Streams(d)
  BY <1>1, <1>2, <1>3 DEF Streams
<1>5. /\ \A k \in Id : e.sid[k] = IF k = id THEN s ELSE d.sid[k]
      /\ \A k \in Name \cup {Empty} : e.sname[k] = IF k = name THEN s ELSE d.sname[k]
      /\ \A k \in Node : e.snode[k] = IF k = n THEN s ELSE d.snode[k]
  BY <1>1, Constants DEF DbType, Put
<1>6. StreamsFaithful(e)
  <2>1. /\ \A k \in Id : e.sid[k] # None => e.sid[k] \in Streams(e) /\ e.stream[e.sid[k]].id = k
        /\ \A k \in Name \cup {Empty} :
             e.sname[k] # None => e.sname[k] \in Streams(e) /\ e.stream[e.sname[k]].name = k
    BY <1>1, <1>2, <1>3, <1>4, <1>5, Entries DEF StreamsFaithful, Faithful
  <2>2. \A k \in Node : e.snode[k] # None => e.snode[k] \in Streams(e) /\ e.stream[e.snode[k]].node = k
    BY <1>1, <1>2, <1>3, <1>4, <1>5, Entries DEF StreamsFaithful, Faithful
  <2>3. ASSUME NEW q \in Streams(e), e.stream[q].node # None
        PROVE  e.snode[e.stream[q].node] = q
    <3>1. CASE q = s
      BY <1>1, <1>2, <1>3, <1>5, <2>3, <3>1
    <3>2. CASE q # s
      <4>1. q \in Streams(d) /\ e.stream[q] = d.stream[q] /\ d.stream[q].node \in Node
        BY <1>3, <1>4, <2>3, <3>2, Entries DEF StreamType
      <4>2. d.snode[d.stream[q].node] = q /\ d.stream[q].node # n
        BY <2>3, <4>1, Entries, Constants DEF StreamsFaithful, Faithful
      <4> QED
        BY <1>5, <4>1, <4>2
    <3> QED
      BY <3>1, <3>2
  <2> QED
    BY <2>1, <2>2, <2>3 DEF StreamsFaithful
<1>7. RsetsFaithful(e) /\ Rsets(e) = Rsets(d) /\ Counted(e)
  BY <1>1, SameRsets DEF Faithful
<1> QED
  BY <1>4, <1>6, <1>7 DEF Faithful, s

LEMMA StreamEntryFailedKeeps ==
  ASSUME NEW d \in DbType, NEW name \in NameOrNone, NEW id \in IdOrNone,
         NEW e, e = StreamEntryFailed(d, name, id), Faithful(d), Counted(d)
  PROVE  Faithful(e) /\ Counted(e) /\ Rsets(e) = Rsets(d) /\ Streams(e) = Streams(d)
<1>1. /\ e \in DbType
      /\ e.stream = d.stream /\ e.rset = d.rset /\ e.nres = d.nres
      /\ e.sname = Drop(d.sname, name)
      /\ e.sid = d.sid \/ e.sid = Drop(d.sid, id)
      /\ e.snode = d.snode /\ e.rname = d.rname /\ e.rid = d.rid
  BY StreamEntryFailedFields
<1>2. /\ \A k \in Id : e.sid[k] \in {None, d.sid[k]}
      /\ \A k \in Name \cup {Empty} : e.sname[k] \in {None, d.sname[k]}
  BY <1>1, Constants DEF DbType, Drop, Put
<1>3. Streams(e) = Streams(d) /\ StreamsFaithful(e)
  BY <1>1, <1>2 DEF Streams, StreamsFaithful, Faithful
<1> QED
  BY <1>1, <1>3, SameRsets DEF Faithful

LEMMA StreamEntryFreeKeeps ==
  ASSUME NEW d \in DbType, NEW s \in Streams(d), NEW e, e = StreamEntryFree(d, s),
         Faithful(d), Counted(d)
  PROVE  Faithful(e) /\ Counted(e) /\ Rsets(e) = Rsets(d) /\ Streams(e) = Streams(d) \ {s}
<1>1. /\ e \in DbType
      /\ e.stream = [d.stream EXCEPT ![s] = None]
      /\ e.rset = d.rset /\ e.nres = d.nres
      /\ e.sname = Drop(d.sname, d.stream[s].name) /\ e.sid = Drop(d.sid, d.stream[s].id)
      /\ e.snode = Drop(d.snode, d.stream[s].node)
      /\ e.rname = d.rname /\ e.rid = d.rid
  BY StreamEntryFreeFields
<1>2. /\ s \in StreamObj
      /\ \A q \in StreamObj : e.stream[q] = IF q = s THEN None ELSE d.stream[q]
  BY <1>1, Entries DEF DbType
<1>3. Streams(e) = Streams(d) \ {s}
  BY <1>2 DEF Streams
<1>4. /\ \A k \in Id : e.sid[k] = IF k = d.stream[s].id THEN None ELSE d.sid[k]
      /\ \A k \in Name \cup {Empty} : e.sname[k] = IF k = d.stream[s].name THEN None ELSE d.sname[k]
      /\ \A k \in Node : e.snode[k] = IF k = d.stream[s].node THEN None ELSE d.snode[k]
  BY <1>1, Constants DEF DbType, Drop, Put
<1>5. StreamsFaithful(e)
  <2>1. \A q \in Streams(e) : q # s /\ q \in Streams(d) /\ e.stream[q] = d.stream[q]
                              /\ (d.stream[q].node # None => d.stream[q].node \in Node)
    BY <1>2, <1>3, Entries DEF StreamType
  <2>2. \A q \in Streams(e) : e.stream[q].node # None => e.snode[e.stream[q].node] = q
    BY <1>4, <2>1 DEF StreamsFaithful, Faithful
  <2> QED
    BY <1>2, <1>3, <1>4, <2>2, Entries DEF StreamsFaithful, Faithful
<1>6. RsetsFaithful(e) /\ Rsets(e) = Rsets(d) /\ Counted(e)
  BY <1>1, SameRsets DEF Faithful
<1> QED
  BY <1>3, <1>5, <1>6 DEF Faithful

-----------------------------------------------------------------------------
(* The links, and which entries have any.                                  *)

LinksOk(d) ==
  /\ \A r \in Rsets(d), s \in StreamObj :
       s \in ToSet(d.rset[r].streams) => s \in Streams(d) /\ r \in ToSet(d.stream[s].rsets)
  /\ \A s \in Streams(d), r \in RsetObj :
       r \in ToSet(d.stream[s].rsets) => r \in Rsets(d) /\ s \in ToSet(d.rset[r].streams)
  /\ \A r \in Rsets(d) : IsInjective(d.rset[r].streams)
  /\ \A s \in Streams(d) : IsInjective(d.stream[s].rsets)

Partnered(d, R, S) ==
  /\ \A r \in Rsets(d) \ R : d.rset[r].streams # <<>>
  /\ \A s \in Streams(d) \ S : d.stream[s].rsets # <<>>

Whole(d) == d \in DbType /\ LinksOk(d) /\ Faithful(d) /\ Counted(d)

LEMMA GoodIsWhole == \A d : Good(d) <=> Whole(d) /\ Partnered(d, {}, {})
BY DEF Good, Whole, Mutual, LinksOk, Partnered

LEMMA EmptyList == ToSet(<<>>) = {} /\ IsInjective(<<>>)
BY DEF ToSet, IsInjective

(* What a new entry brings.                                                *)
RsetAdded(d, e, name, id, S) ==
  /\ Whole(e) /\ Partnered(e, {NewRset(d)}, S)
  /\ NewRset(d) \in RsetObj /\ NewRset(d) \notin Rsets(d)
  /\ Rsets(e) = Rsets(d) \cup {NewRset(d)} /\ Streams(e) = Streams(d)
  /\ e.rset[NewRset(d)] = FreshRset(name, id) /\ \A q \in Rsets(d) : e.rset[q] = d.rset[q]
  /\ e.stream = d.stream /\ e.rname = Put(d.rname, name, NewRset(d))
  /\ e.rid = Put(d.rid, id, NewRset(d))
  /\ e.sname = d.sname /\ e.sid = d.sid /\ e.snode = d.snode

StreamAdded(d, e, name, id, n, R) ==
  /\ Whole(e) /\ Partnered(e, R, {NewStream(d)})
  /\ NewStream(d) \in StreamObj /\ NewStream(d) \notin Streams(d)
  /\ Streams(e) = Streams(d) \cup {NewStream(d)} /\ Rsets(e) = Rsets(d)
  /\ e.stream[NewStream(d)] = FreshStream(name, id, n)
  /\ \A q \in Streams(d) : e.stream[q] = d.stream[q]
  /\ e.rset = d.rset /\ e.rname = d.rname /\ e.rid = d.rid
  /\ e.sname = Put(d.sname, name, NewStream(d)) /\ e.sid = Put(d.sid, id, NewStream(d))
  /\ e.snode = Put(d.snode, n, NewStream(d)) /\ e.nres = d.nres

LEMMA RsetEntryWhole ==
  ASSUME NEW d, Whole(d), Rsets(d) # RsetObj, NEW name \in NameOrNone, NEW id \in IdOrNone,
         NEW e, e = RsetEntry(d, name, id), NEW S, Partnered(d, {}, S)
  PROVE  RsetAdded(d, e, name, id, S)
<1> DEFINE r == NewRset(d)
<1>1. /\ r \in RsetObj /\ d.rset[r] = None /\ e \in DbType
      /\ e.rset = [d.rset EXCEPT ![r] = FreshRset(name, id)]
      /\ e.stream = d.stream /\ e.rname = Put(d.rname, name, r)
      /\ e.rid = Put(d.rid, id, r) /\ e.snode = d.snode
      /\ e.sname = d.sname /\ e.sid = d.sid
  BY RsetEntryFields DEF Whole
<1>2. Faithful(e) /\ Counted(e) /\ Rsets(e) = Rsets(d) \cup {r} /\ Streams(e) = Streams(d)
  BY RsetEntryKeeps DEF Whole
<1> HIDE DEF r
<1>3. /\ r \notin Rsets(d) /\ d \in DbType
      /\ FreshRset(name, id).streams = <<>>
      /\ \A q \in Rsets(d) : e.rset[q] = d.rset[q]
      /\ e.rset[r] = FreshRset(name, id)
  BY <1>1 DEF Rsets, FreshRset, Whole, DbType
<1>4. LinksOk(e)
  BY <1>1, <1>2, <1>3, EmptyList DEF LinksOk, Whole
<1>5. Partnered(e, {r}, S)
  BY <1>1, <1>2, <1>3 DEF Partnered
<1> QED
  BY <1>1, <1>2, <1>3, <1>4, <1>5 DEF Whole, RsetAdded, r

LEMMA StreamEntryWhole ==
  ASSUME NEW d, Whole(d), Streams(d) # StreamObj, NEW name \in NameOrNone, NEW id \in IdOrNone,
         NEW n \in Node \cup {None}, n # None => d.snode[n] = None,
         NEW R, Partnered(d, R, {}), NEW e, e = StreamEntry(d, name, id, n)
  PROVE  StreamAdded(d, e, name, id, n, R)
<1> DEFINE s == NewStream(d)
<1>1. /\ s \in StreamObj /\ d.stream[s] = None /\ e \in DbType
      /\ e.stream = [d.stream EXCEPT ![s] = FreshStream(name, id, n)]
      /\ e.rset = d.rset /\ e.rname = d.rname /\ e.rid = d.rid
      /\ e.sname = Put(d.sname, name, s) /\ e.sid = Put(d.sid, id, s)
      /\ e.snode = Put(d.snode, n, s) /\ e.nres = d.nres
  BY StreamEntryFields DEF Whole
<1>2. Faithful(e) /\ Counted(e) /\ Streams(e) = Streams(d) \cup {s} /\ Rsets(e) = Rsets(d)
  BY StreamEntryKeeps DEF Whole
<1> HIDE DEF s
<1>3. /\ s \notin Streams(d) /\ d \in DbType
      /\ FreshStream(name, id, n).rsets = <<>>
      /\ \A q \in Streams(d) : e.stream[q] = d.stream[q]
      /\ e.stream[s] = FreshStream(name, id, n)
  BY <1>1 DEF Streams, FreshStream, Whole, DbType
<1>4. LinksOk(e)
  BY <1>1, <1>2, <1>3, EmptyList DEF LinksOk, Whole
<1>5. Partnered(e, R, {s})
  BY <1>1, <1>2, <1>3 DEF Partnered
<1> QED
  BY <1>1, <1>2, <1>3, <1>4, <1>5 DEF Whole, StreamAdded, s

(* Entries that keep their keys, their type and their life stay faithful   *)
(* and counted.                                                            *)
LEMMA SameKeys ==
  ASSUME NEW d \in DbType, NEW e \in DbType, Rsets(e) = Rsets(d), Streams(e) = Streams(d),
         \A r \in Rsets(d) : /\ e.rset[r].name = d.rset[r].name /\ e.rset[r].id = d.rset[r].id
                             /\ e.rset[r].type = d.rset[r].type /\ e.rset[r].dead = d.rset[r].dead,
         \A s \in Streams(d) : /\ e.stream[s].name = d.stream[s].name
                               /\ e.stream[s].id = d.stream[s].id
                               /\ e.stream[s].node = d.stream[s].node,
         e.rid = d.rid, e.sid = d.sid, e.rname = d.rname, e.sname = d.sname, e.snode = d.snode,
         e.nres = d.nres
  PROVE  (Faithful(d) => Faithful(e)) /\ (Counted(d) => Counted(e))
<1>1. Faithful(d) => Faithful(e)
  BY DEF Faithful, RsetsFaithful, StreamsFaithful
<1>2. \A t \in Type : Alive(e, t) = Alive(d, t)
  BY DEF Alive
<1> QED
  BY <1>1, <1>2 DEF Counted

LEMMA LinkedWhole ==
  ASSUME NEW d, Whole(d), NEW r \in Rsets(d), NEW s \in Streams(d),
         s \notin ToSet(d.rset[r].streams), NEW R, NEW S, Partnered(d, R, S),
         NEW e, e = Linked(d, r, s)
  PROVE  /\ Whole(e) /\ Partnered(e, R \ {r}, S \ {s})
         /\ Rsets(e) = Rsets(d) /\ Streams(e) = Streams(d)
<1>1. /\ e \in DbType
      /\ e.rset = [d.rset EXCEPT ![r].streams = Append(d.rset[r].streams, s)]
      /\ e.stream = [d.stream EXCEPT ![s].rsets = Append(d.stream[s].rsets, r)]
      /\ e.nres = d.nres /\ e.rid = d.rid /\ e.sid = d.sid
      /\ e.rname = d.rname /\ e.sname = d.sname /\ e.snode = d.snode
  BY LinkedFields DEF Whole
<1>2. /\ d \in DbType /\ r \in RsetObj /\ s \in StreamObj
      /\ d.rset[r] \in RsetType /\ d.stream[s] \in StreamType
  BY Entries DEF Whole
<1>3. /\ e.rset[r] = [d.rset[r] EXCEPT !.streams = Append(d.rset[r].streams, s)]
      /\ \A q \in RsetObj : q # r => e.rset[q] = d.rset[q]
      /\ e.stream[s] = [d.stream[s] EXCEPT !.rsets = Append(d.stream[s].rsets, r)]
      /\ \A q \in StreamObj : q # s => e.stream[q] = d.stream[q]
  BY <1>1, <1>2 DEF DbType
<1>4. /\ e.rset[r].streams = Append(d.rset[r].streams, s)
      /\ e.rset[r].name = d.rset[r].name /\ e.rset[r].id = d.rset[r].id
      /\ e.rset[r].type = d.rset[r].type /\ e.rset[r].dead = d.rset[r].dead
      /\ e.stream[s].rsets = Append(d.stream[s].rsets, r)
      /\ e.stream[s].name = d.stream[s].name /\ e.stream[s].id = d.stream[s].id
      /\ e.stream[s].node = d.stream[s].node
      /\ e.rset[r] \in RsetType /\ e.stream[s] \in StreamType
  <2>1. /\ Append(d.rset[r].streams, s) \in Seq(StreamObj)
        /\ Append(d.stream[s].rsets, r) \in Seq(RsetObj)
    BY <1>2, AppendOnce DEF RsetType, StreamType
  <2> QED
    BY <1>2, <1>3, <2>1 DEF RsetType, StreamType
<1>5. Rsets(e) = Rsets(d) /\ Streams(e) = Streams(d)
  BY <1>2, <1>3, <1>4, Constants DEF Rsets, Streams
<1>6. Faithful(e) /\ Counted(e)
  <2>1. /\ \A q \in Rsets(d) : /\ e.rset[q].name = d.rset[q].name /\ e.rset[q].id = d.rset[q].id
                               /\ e.rset[q].type = d.rset[q].type /\ e.rset[q].dead = d.rset[q].dead
        /\ \A q \in Streams(d) : /\ e.stream[q].name = d.stream[q].name
                                 /\ e.stream[q].id = d.stream[q].id
                                 /\ e.stream[q].node = d.stream[q].node
    BY <1>2, <1>3, <1>4, Entries
  <2> QED
    BY <1>1, <1>2, <1>5, <2>1, SameKeys DEF Whole
<1>7. /\ ToSet(e.rset[r].streams) = ToSet(d.rset[r].streams) \cup {s}
      /\ ToSet(e.stream[s].rsets) = ToSet(d.stream[s].rsets) \cup {r}
      /\ e.rset[r].streams # <<>> /\ e.stream[s].rsets # <<>>
      /\ IsInjective(e.rset[r].streams) /\ IsInjective(e.stream[s].rsets)
  <2>1. r \notin ToSet(d.stream[s].rsets)
    BY <1>2 DEF LinksOk, Whole
  <2>2. d.rset[r].streams \in Seq(StreamObj) /\ d.stream[s].rsets \in Seq(RsetObj)
    BY <1>2 DEF RsetType, StreamType
  <2>3. IsInjective(d.rset[r].streams) /\ IsInjective(d.stream[s].rsets)
    BY DEF LinksOk, Whole
  <2>4. /\ ToSet(Append(d.rset[r].streams, s)) = ToSet(d.rset[r].streams) \cup {s}
        /\ Append(d.rset[r].streams, s) # <<>> /\ IsInjective(Append(d.rset[r].streams, s))
    BY <1>2, <2>2, <2>3, AppendOnce
  <2>5. /\ ToSet(Append(d.stream[s].rsets, r)) = ToSet(d.stream[s].rsets) \cup {r}
        /\ Append(d.stream[s].rsets, r) # <<>> /\ IsInjective(Append(d.stream[s].rsets, r))
    BY <1>2, <2>1, <2>2, <2>3, AppendOnce
  <2> QED
    BY <1>4, <2>4, <2>5
<1>8. LinksOk(e)
  <2>1. LinksOk(d) /\ Rsets(d) \subseteq RsetObj /\ Streams(d) \subseteq StreamObj
    BY <1>2, Entries DEF Whole
  <2>2. ASSUME NEW q \in Rsets(e), NEW p \in StreamObj, p \in ToSet(e.rset[q].streams)
        PROVE  p \in Streams(e) /\ q \in ToSet(e.stream[p].rsets)
    <3>1. p \in ToSet(d.rset[q].streams) \/ (q = r /\ p = s)
      BY <1>3, <1>5, <1>7, <2>1, <2>2
    <3>2. p \in ToSet(d.rset[q].streams) => p \in Streams(d) /\ q \in ToSet(d.stream[p].rsets)
      BY <1>5, <2>1 DEF LinksOk
    <3> QED
      BY <1>3, <1>5, <1>7, <3>1, <3>2
  <2>3. ASSUME NEW p \in Streams(e), NEW q \in RsetObj, q \in ToSet(e.stream[p].rsets)
        PROVE  q \in Rsets(e) /\ p \in ToSet(e.rset[q].streams)
    <3>1. q \in ToSet(d.stream[p].rsets) \/ (q = r /\ p = s)
      BY <1>3, <1>5, <1>7, <2>1, <2>3
    <3>2. q \in ToSet(d.stream[p].rsets) => q \in Rsets(d) /\ p \in ToSet(d.rset[q].streams)
      BY <1>5, <2>1 DEF LinksOk
    <3> QED
      BY <1>3, <1>5, <1>7, <3>1, <3>2
  <2>4. /\ \A q \in Rsets(e) : IsInjective(e.rset[q].streams)
        /\ \A p \in Streams(e) : IsInjective(e.stream[p].rsets)
    BY <1>3, <1>5, <1>7, <2>1 DEF LinksOk
  <2> QED
    BY <2>2, <2>3, <2>4 DEF LinksOk
<1>9. Partnered(e, R \ {r}, S \ {s})
  <2>1. ASSUME NEW q \in Rsets(e) \ (R \ {r}) PROVE e.rset[q].streams # <<>>
    <3>1. q # r => q \in RsetObj /\ q \in Rsets(d) \ R
      BY <1>2, <1>5, Entries
    <3>2. q # r => d.rset[q].streams # <<>>
      BY <3>1 DEF Partnered
    <3> QED
      BY <1>3, <1>7, <3>1, <3>2
  <2>2. \A q \in Streams(e) \ (S \ {s}) : e.stream[q].rsets # <<>>
    BY <1>2, <1>3, <1>5, <1>7, Entries DEF Partnered
  <2> QED
    BY <2>1, <2>2 DEF Partnered
<1> QED
  BY <1>1, <1>5, <1>6, <1>8, <1>9 DEF Whole

UnlinkedFrom(d, e, r, s) ==
  /\ Whole(e) /\ Rsets(e) = Rsets(d) /\ Streams(e) = Streams(d)
  /\ e.nres = d.nres
  /\ \A q \in Rsets(d) : e.rset[q].type = d.rset[q].type /\ e.rset[q].dead = d.rset[q].dead
  /\ \A q \in Rsets(d) : q # r => e.rset[q] = d.rset[q]
  /\ \A q \in Streams(d) : q # s => e.stream[q] = d.stream[q]
  /\ ToSet(e.rset[r].streams) = ToSet(d.rset[r].streams) \ {s}
  /\ ToSet(e.stream[s].rsets) = ToSet(d.stream[s].rsets) \ {r}
  /\ Len(d.rset[r].streams) > 1 => e.rset[r].streams # <<>>
  /\ Len(d.stream[s].rsets) > 1 => e.stream[s].rsets # <<>>

LEMMA UnlinkedWhole ==
  ASSUME NEW d, Whole(d), NEW r \in Rsets(d), NEW s \in Streams(d),
         s \in ToSet(d.rset[r].streams), NEW e, e = Unlinked(d, r, s)
  PROVE  UnlinkedFrom(d, e, r, s)
<1>0. /\ r \in ToSet(d.stream[s].rsets)
      /\ IsInjective(d.rset[r].streams) /\ IsInjective(d.stream[s].rsets)
  BY Entries DEF LinksOk, Whole
<1>1. /\ e \in DbType
      /\ e.rset = [d.rset EXCEPT ![r].streams = Without(d.rset[r].streams, s)]
      /\ e.stream = [d.stream EXCEPT ![s].rsets = Without(d.stream[s].rsets, r)]
      /\ e.nres = d.nres /\ e.rid = d.rid /\ e.sid = d.sid
      /\ e.rname = d.rname /\ e.sname = d.sname /\ e.snode = d.snode
  BY <1>0, UnlinkedFields DEF Whole
<1>2. /\ d \in DbType /\ r \in RsetObj /\ s \in StreamObj
      /\ d.rset[r] \in RsetType /\ d.stream[s] \in StreamType
  BY Entries DEF Whole
<1>3. /\ e.rset[r] = [d.rset[r] EXCEPT !.streams = Without(d.rset[r].streams, s)]
      /\ \A q \in RsetObj : q # r => e.rset[q] = d.rset[q]
      /\ e.stream[s] = [d.stream[s] EXCEPT !.rsets = Without(d.stream[s].rsets, r)]
      /\ \A q \in StreamObj : q # s => e.stream[q] = d.stream[q]
  BY <1>1, <1>2 DEF DbType
<1>4. /\ ToSet(Without(d.rset[r].streams, s)) = ToSet(d.rset[r].streams) \ {s}
      /\ ToSet(Without(d.stream[s].rsets, r)) = ToSet(d.stream[s].rsets) \ {r}
      /\ Len(d.rset[r].streams) > 1 => Without(d.rset[r].streams, s) # <<>>
      /\ Len(d.stream[s].rsets) > 1 => Without(d.stream[s].rsets, r) # <<>>
      /\ Without(d.rset[r].streams, s) \in Seq(StreamObj)
      /\ Without(d.stream[s].rsets, r) \in Seq(RsetObj)
      /\ IsInjective(Without(d.rset[r].streams, s))
      /\ IsInjective(Without(d.stream[s].rsets, r))
  <2>1. d.rset[r].streams \in Seq(StreamObj) /\ d.stream[s].rsets \in Seq(RsetObj)
    BY <1>2 DEF RsetType, StreamType
  <2> QED
    BY <1>0, <2>1, WithoutOne
<1>5. /\ e.rset[r].streams = Without(d.rset[r].streams, s)
      /\ e.rset[r].name = d.rset[r].name /\ e.rset[r].id = d.rset[r].id
      /\ e.rset[r].type = d.rset[r].type /\ e.rset[r].dead = d.rset[r].dead
      /\ e.stream[s].rsets = Without(d.stream[s].rsets, r)
      /\ e.stream[s].name = d.stream[s].name /\ e.stream[s].id = d.stream[s].id
      /\ e.stream[s].node = d.stream[s].node
      /\ e.rset[r] \in RsetType /\ e.stream[s] \in StreamType
  BY <1>2, <1>3, <1>4 DEF RsetType, StreamType
<1>6. Rsets(e) = Rsets(d) /\ Streams(e) = Streams(d)
  BY <1>2, <1>3, <1>5, Constants DEF Rsets, Streams
<1>7. /\ \A q \in Rsets(d) : /\ e.rset[q].name = d.rset[q].name /\ e.rset[q].id = d.rset[q].id
                             /\ e.rset[q].type = d.rset[q].type /\ e.rset[q].dead = d.rset[q].dead
      /\ \A q \in Streams(d) : /\ e.stream[q].name = d.stream[q].name
                               /\ e.stream[q].id = d.stream[q].id
                               /\ e.stream[q].node = d.stream[q].node
  BY <1>2, <1>3, <1>5, Entries
<1>8. Faithful(e) /\ Counted(e)
  BY <1>1, <1>2, <1>6, <1>7, SameKeys DEF Whole
<1>9. LinksOk(e)
  <2>1. LinksOk(d) /\ Rsets(d) \subseteq RsetObj /\ Streams(d) \subseteq StreamObj
    BY <1>2, Entries DEF Whole
  <2>2. ASSUME NEW q \in Rsets(e), NEW p \in StreamObj, p \in ToSet(e.rset[q].streams)
        PROVE  p \in Streams(e) /\ q \in ToSet(e.stream[p].rsets)
    <3>1. p \in ToSet(d.rset[q].streams) /\ ~(q = r /\ p = s)
      <4>1. CASE q = r
        BY <1>4, <1>5, <2>2, <4>1
      <4>2. CASE q # r
        BY <1>3, <1>6, <2>1, <2>2, <4>2
      <4> QED
        BY <4>1, <4>2
    <3>2. p \in Streams(d) /\ q \in ToSet(d.stream[p].rsets)
      BY <1>6, <2>1, <3>1 DEF LinksOk
    <3> QED
      BY <1>3, <1>4, <1>5, <1>6, <3>1, <3>2
  <2>3. ASSUME NEW p \in Streams(e), NEW q \in RsetObj, q \in ToSet(e.stream[p].rsets)
        PROVE  q \in Rsets(e) /\ p \in ToSet(e.rset[q].streams)
    <3>1. q \in ToSet(d.stream[p].rsets) /\ ~(q = r /\ p = s)
      BY <1>3, <1>4, <1>5, <1>6, <2>1, <2>3
    <3>2. q \in Rsets(d) /\ p \in ToSet(d.rset[q].streams)
      BY <1>6, <2>1, <3>1 DEF LinksOk
    <3> QED
      BY <1>3, <1>4, <1>5, <1>6, <3>1, <3>2
  <2>4. /\ \A q \in Rsets(e) : IsInjective(e.rset[q].streams)
        /\ \A p \in Streams(e) : IsInjective(e.stream[p].rsets)
    BY <1>3, <1>4, <1>5, <1>6, <2>1 DEF LinksOk
  <2> QED
    BY <2>2, <2>3, <2>4 DEF LinksOk
<1> QED
  BY <1>1, <1>2, <1>3, <1>4, <1>5, <1>6, <1>7, <1>8, <1>9, Entries DEF Whole, UnlinkedFrom

(* An entry without partners may go.                                       *)
LEMMA RsetEntryFreeWhole ==
  ASSUME NEW d, Whole(d), NEW r \in Rsets(d), ToSet(d.rset[r].streams) = {},
         NEW e, e = RsetEntryFree(d, r)
  PROVE  /\ e \in DbType /\ LinksOk(e) /\ Faithful(e) /\ e.nres = d.nres
         /\ Rsets(e) = Rsets(d) \ {r} /\ Streams(e) = Streams(d)
         /\ e.stream = d.stream /\ \A q \in Rsets(e) : e.rset[q] = d.rset[q]
         /\ \A t \in Type : Alive(e, t) = Alive(d, t) \ {r}
<1>1. /\ e \in DbType /\ e.rset = [d.rset EXCEPT ![r] = None]
      /\ e.stream = d.stream /\ e.nres = d.nres
  BY RsetEntryFreeFields DEF Whole
<1>2. /\ Faithful(e) /\ Rsets(e) = Rsets(d) \ {r} /\ Streams(e) = Streams(d)
      /\ \A t \in Type : Alive(e, t) = Alive(d, t) \ {r}
  BY RsetEntryFreeKeeps DEF Whole
<1>3. \A q \in Rsets(e) : e.rset[q] = d.rset[q]
  BY <1>1, <1>2, Entries DEF DbType, Whole
<1>4. LinksOk(d) /\ Rsets(d) \subseteq RsetObj /\ Streams(d) \subseteq StreamObj
  BY Entries DEF Whole
<1>5. LinksOk(e)
  BY <1>1, <1>2, <1>3, <1>4 DEF LinksOk
<1> QED
  BY <1>1, <1>2, <1>3, <1>5

LEMMA StreamEntryFreeWhole ==
  ASSUME NEW d, Whole(d), NEW s \in Streams(d), ToSet(d.stream[s].rsets) = {},
         NEW e, e = StreamEntryFree(d, s)
  PROVE  /\ Whole(e) /\ Rsets(e) = Rsets(d) /\ Streams(e) = Streams(d) \ {s}
         /\ e.rset = d.rset /\ \A q \in Streams(e) : e.stream[q] = d.stream[q]
<1>1. e \in DbType /\ e.stream = [d.stream EXCEPT ![s] = None] /\ e.rset = d.rset
  BY StreamEntryFreeFields DEF Whole
<1>2. /\ Faithful(e) /\ Counted(e) /\ Streams(e) = Streams(d) \ {s} /\ Rsets(e) = Rsets(d)
  BY StreamEntryFreeKeeps DEF Whole
<1>3. \A q \in Streams(e) : e.stream[q] = d.stream[q]
  BY <1>1, <1>2, Entries DEF DbType, Whole
<1>4. LinksOk(d) /\ Rsets(d) \subseteq RsetObj /\ Streams(d) \subseteq StreamObj
  BY Entries DEF Whole
<1>5. LinksOk(e)
  BY <1>1, <1>2, <1>3, <1>4 DEF LinksOk
<1> QED
  BY <1>1, <1>2, <1>3, <1>5 DEF Whole

(* Entries that keep their partners stay linked.                           *)
LEMMA SameLinks ==
  ASSUME NEW d \in DbType, NEW e \in DbType, Rsets(e) = Rsets(d), Streams(e) = Streams(d),
         \A r \in Rsets(d) : e.rset[r].streams = d.rset[r].streams,
         \A s \in Streams(d) : e.stream[s].rsets = d.stream[s].rsets
  PROVE  /\ LinksOk(d) => LinksOk(e)
         /\ \A R, S : Partnered(d, R, S) => Partnered(e, R, S)
<1>1. Rsets(d) \subseteq RsetObj /\ Streams(d) \subseteq StreamObj
  BY Entries
<1>2. LinksOk(d) => LinksOk(e)
  BY <1>1 DEF LinksOk
<1>3. \A R, S : Partnered(d, R, S) => Partnered(e, R, S)
  BY <1>1 DEF Partnered
<1> QED
  BY <1>2, <1>3

LEMMA SameLives ==
  ASSUME NEW d \in DbType, NEW e \in DbType, Rsets(e) = Rsets(d), e.nres = d.nres,
         \A r \in Rsets(d) : e.rset[r].type = d.rset[r].type /\ e.rset[r].dead = d.rset[r].dead
  PROVE  Counted(d) => Counted(e)
<1>1. \A t \in Type : Alive(e, t) = Alive(d, t)
  BY DEF Alive
<1> QED
  BY <1>1 DEF Counted

(* Both entries of a pair go.                                              *)
LEMMA PairFreed ==
  ASSUME NEW d, Good(d), NEW r \in Rsets(d), NEW s \in Streams(d), d.rset[r].dead,
         ToSet(d.rset[r].streams) = {s}, ToSet(d.stream[s].rsets) = {r},
         NEW e, e = RsetEntryFree(StreamEntryFree(d, s), r)
  PROVE  Good(e)
<1> DEFINE f == StreamEntryFree(d, s)
<1>0. d \in DbType /\ Whole(d) /\ Partnered(d, {}, {})
  BY GoodIsWhole DEF Whole
<1>1. f \in DbType /\ f.stream = [d.stream EXCEPT ![s] = None] /\ f.rset = d.rset
  BY <1>0, StreamEntryFreeFields
<1>2. /\ Faithful(f) /\ Counted(f) /\ Streams(f) = Streams(d) \ {s} /\ Rsets(f) = Rsets(d)
  BY <1>0, StreamEntryFreeKeeps DEF Whole
<1> HIDE DEF f
<1>3. e = RsetEntryFree(f, r)
  BY DEF f
<1>4. /\ e \in DbType /\ e.rset = [f.rset EXCEPT ![r] = None]
      /\ e.stream = f.stream /\ e.nres = f.nres
  BY <1>1, <1>2, <1>3, RsetEntryFreeFields
<1>5. /\ Faithful(e) /\ Rsets(e) = Rsets(d) \ {r} /\ Streams(e) = Streams(d) \ {s}
      /\ \A t \in Type : Alive(e, t) = Alive(f, t) \ {r}
  BY <1>1, <1>2, <1>3, RsetEntryFreeKeeps
<1>6. /\ \A q \in Rsets(e) : q # r /\ q \in Rsets(d) /\ e.rset[q] = d.rset[q]
      /\ \A q \in Streams(e) : q # s /\ q \in Streams(d) /\ e.stream[q] = d.stream[q]
  BY <1>0, <1>1, <1>4, <1>5, Entries DEF DbType
<1>7. LinksOk(d) /\ Rsets(d) \subseteq RsetObj /\ Streams(d) \subseteq StreamObj
  BY <1>0, Entries DEF Whole
<1>8. LinksOk(e)
  BY <1>5, <1>6, <1>7 DEF LinksOk
<1>9. Partnered(e, {}, {})
  BY <1>0, <1>5, <1>6 DEF Partnered
<1>10. Counted(e)
  <2>1. \A t \in Type : Alive(e, t) = Alive(f, t)
    BY <1>1, <1>5 DEF Alive
  <2> QED
    BY <1>2, <1>4, <2>1 DEF Counted
<1> QED
  BY <1>4, <1>5, <1>8, <1>9, <1>10, GoodIsWhole DEF Whole

-----------------------------------------------------------------------------
(* pa_resource_rset_update.                                                *)

LEMMA RowFields ==
  ASSUME NEW row \in Row
  PROVE  /\ row.id \in Id /\ row.id \in IdOrNone /\ row.name \in Name \cup {Empty}
         /\ row.name \in NameOrNone /\ row.policy \in Policy /\ row.over \in BOOLEAN
         /\ row.grant \in BOOLEAN
BY DEF Row, IdOrNone, NameOrNone

LEMMA WithId ==
  ASSUME NEW x \in RsetType, NEW id \in Id, NEW y, y = [x EXCEPT !.id = id]
  PROVE  /\ y \in RsetType /\ y.id = id /\ y.name = x.name /\ y.streams = x.streams
         /\ y.type = x.type /\ y.dead = x.dead
<1>1. y \in RsetType /\ y.id = id /\ y.name = x.name /\ y.streams = x.streams /\ y.type = x.type
  BY DEF RsetType
<1>2. y.dead = x.dead
  BY DEF RsetType
<1> QED
  BY <1>1, <1>2

CompletedFrom(d, e, r, id) ==
  /\ r \in Rsets(d) /\ Rsets(e) = Rsets(d) /\ Streams(e) = Streams(d)
  /\ e.rset[r] = [d.rset[r] EXCEPT !.id = id] /\ \A q \in Rsets(d) : q # r => e.rset[q] = d.rset[q]
  /\ e.rid = [d.rid EXCEPT ![id] = r] /\ e.stream = d.stream /\ e.snode = d.snode

LEMMA RsetCompletedGood ==
  ASSUME NEW d, Good(d), NEW row \in Row, NEW r, r = d.rname[row.name], r # None,
         d.rset[r].id = None, d.rid[row.id] = None, NEW e, e = RsetCompleted(d, row)
  PROVE  Good(e) /\ CompletedFrom(d, e, r, row.id)
<1>0. d \in DbType /\ Whole(d) /\ Partnered(d, {}, {}) /\ Faithful(d)
  BY GoodIsWhole DEF Whole
<1>1. row.id \in Id /\ row.name \in Name \cup {Empty}
  BY RowFields
<1>2. r \in Rsets(d) /\ r \in RsetObj /\ d.rset[r] \in RsetType
  BY <1>0, <1>1, Entries DEF Faithful, RsetsFaithful
<1>3. /\ e.rset = [d.rset EXCEPT ![r].id = row.id] /\ e.rid = [d.rid EXCEPT ![row.id] = r]
      /\ e.stream = d.stream /\ e.nres = d.nres /\ e.rname = d.rname
      /\ e.sname = d.sname /\ e.sid = d.sid /\ e.snode = d.snode
      /\ e = [rset |-> e.rset, stream |-> e.stream, rid |-> e.rid, sid |-> e.sid,
              rname |-> e.rname, sname |-> e.sname, snode |-> e.snode, nres |-> e.nres]
  BY <1>0 DEF RsetCompleted, DbType
<1>4. /\ e.rset[r] = [d.rset[r] EXCEPT !.id = row.id] /\ e.rset[r] \in RsetType
      /\ \A q \in RsetObj : q # r => e.rset[q] = d.rset[q]
  <2>1. e.rset[r] = [d.rset[r] EXCEPT !.id = row.id]
    BY <1>0, <1>2, <1>3 DEF DbType
  <2> QED
    BY <1>0, <1>1, <1>2, <1>3, <2>1 DEF DbType, RsetType
<1>5. e \in DbType
  BY <1>0, <1>2, <1>3, <1>4 DEF DbType
<1>6. /\ e.rset[r].id = row.id /\ e.rset[r].name = d.rset[r].name
      /\ e.rset[r].streams = d.rset[r].streams /\ e.rset[r].type = d.rset[r].type
      /\ e.rset[r].dead = d.rset[r].dead
  BY <1>1, <1>2, <1>4, WithId
<1>7. Rsets(e) = Rsets(d) /\ Streams(e) = Streams(d) /\ StreamsFaithful(e)
  <2>1. /\ e.rset[r] # None /\ d.rset[r] # None
        /\ \A q \in RsetObj : q # r => e.rset[q] = d.rset[q]
    BY <1>2, <1>4, Constants
  <2>2. Rsets(e) = Rsets(d)
    BY <2>1 DEF Rsets
  <2>3. Streams(e) = Streams(d) /\ StreamsFaithful(e)
    BY <1>0, <1>3, <1>5, SameStreams DEF Faithful
  <2> QED
    BY <2>2, <2>3
<1>8. RsetsFaithful(e)
  <2>1. \A k \in Id : e.rid[k] # None => e.rid[k] \in Rsets(e) /\ e.rset[e.rid[k]].id = k
    <3>1. \A k \in Id : e.rid[k] = IF k = row.id THEN r ELSE d.rid[k]
      BY <1>0, <1>3 DEF DbType
    <3>2. \A k \in Id : d.rid[k] # None =>
            d.rid[k] \in Rsets(d) /\ d.rset[d.rid[k]].id = k /\ d.rid[k] # r /\ d.rid[k] \in RsetObj
      BY <1>0, Constants, Entries DEF Faithful, RsetsFaithful
    <3>3. \A k \in Id : k # row.id /\ d.rid[k] # None => e.rset[d.rid[k]].id = k
      BY <1>4, <3>2
    <3> TAKE k \in Id
    <3>4. CASE k = row.id
      BY <1>2, <1>6, <1>7, <3>1, <3>4
    <3>5. CASE k # row.id
      BY <1>7, <3>1, <3>2, <3>3, <3>5
    <3> QED
      BY <3>4, <3>5
  <2>2. \A k \in Name \cup {Empty} :
          e.rname[k] # None => e.rname[k] \in Rsets(e) /\ e.rset[e.rname[k]].name = k
    <3>1. \A q \in Rsets(d) : e.rset[q].name = d.rset[q].name
      BY <1>0, <1>4, <1>6, Entries
    <3> QED
      BY <1>0, <1>3, <1>7, <3>1 DEF Faithful, RsetsFaithful
  <2> QED
    BY <2>1, <2>2 DEF RsetsFaithful
<1>9. LinksOk(e) /\ Partnered(e, {}, {}) /\ Counted(e)
  <2>1. \A q \in Rsets(d) : /\ e.rset[q].streams = d.rset[q].streams
                            /\ e.rset[q].type = d.rset[q].type /\ e.rset[q].dead = d.rset[q].dead
    BY <1>0, <1>4, <1>6, Entries
  <2>2. (LinksOk(d) => LinksOk(e)) /\ (Partnered(d, {}, {}) => Partnered(e, {}, {}))
    BY <1>0, <1>3, <1>5, <1>7, <2>1, SameLinks
  <2>3. Counted(d) => Counted(e)
    BY <1>0, <1>3, <1>5, <1>7, <2>1, SameLives
  <2> QED
    BY <1>0, <2>2, <2>3 DEF Whole
<1>10. Good(e)
  BY <1>5, <1>7, <1>8, <1>9, GoodIsWhole DEF Whole, Faithful
<1> QED
  BY <1>0, <1>2, <1>3, <1>4, <1>7, <1>10, Entries DEF CompletedFrom

(* An rset whose name is taken away is not found by it any more.           *)
Unnamed(d, k, f) == [d EXCEPT !.rname[k] = None, !.rset[f].name = None]

UnnamedFrom(d, e, f) ==
  /\ e.rset[f] = [d.rset[f] EXCEPT !.name = None] /\ \A q \in Rsets(d) : q # f => e.rset[q] = d.rset[q]
  /\ e.stream = d.stream /\ e.rid = d.rid /\ e.snode = d.snode

LEMMA RsetUnnamed ==
  ASSUME NEW d, Whole(d), NEW k \in Name \cup {Empty}, NEW f, f = d.rname[k], f # None,
         NEW R, NEW S, Partnered(d, R, S),
         NEW e, e = Unnamed(d, k, f)
  PROVE  /\ Whole(e) /\ Partnered(e, R, S) /\ Rsets(e) = Rsets(d) /\ Streams(e) = Streams(d)
         /\ e.stream = d.stream /\ f \in Rsets(d)
         /\ \A q \in Rsets(d) : e.rset[q].streams = d.rset[q].streams
         /\ UnnamedFrom(d, e, f)
<1>0. d \in DbType /\ Faithful(d)
  BY DEF Whole
<1>2. f \in Rsets(d) /\ f \in RsetObj /\ d.rset[f] \in RsetType /\ d.rset[f].name = k
  BY <1>0, Entries DEF Faithful, RsetsFaithful
<1>3. /\ e.rset = [d.rset EXCEPT ![f].name = None] /\ e.rname = [d.rname EXCEPT ![k] = None]
      /\ e.stream = d.stream /\ e.nres = d.nres /\ e.rid = d.rid
      /\ e.sname = d.sname /\ e.sid = d.sid /\ e.snode = d.snode
      /\ e = [rset |-> e.rset, stream |-> e.stream, rid |-> e.rid, sid |-> e.sid,
              rname |-> e.rname, sname |-> e.sname, snode |-> e.snode, nres |-> e.nres]
  BY <1>0 DEF DbType, Unnamed
<1>4. /\ e.rset[f] = [d.rset[f] EXCEPT !.name = None] /\ e.rset[f] \in RsetType
      /\ \A q \in RsetObj : q # f => e.rset[q] = d.rset[q]
  <2>1. e.rset[f] = [d.rset[f] EXCEPT !.name = None]
    BY <1>0, <1>2, <1>3 DEF DbType
  <2> QED
    BY <1>0, <1>2, <1>3, <2>1 DEF DbType, RsetType
<1>5. e \in DbType
  BY <1>0, <1>2, <1>3, <1>4 DEF DbType
<1>6. /\ e.rset[f].id = d.rset[f].id
      /\ e.rset[f].streams = d.rset[f].streams /\ e.rset[f].type = d.rset[f].type
      /\ e.rset[f].dead = d.rset[f].dead
  BY <1>2, <1>4 DEF RsetType
<1>7. Rsets(e) = Rsets(d) /\ Streams(e) = Streams(d) /\ StreamsFaithful(e)
  BY <1>0, <1>2, <1>3, <1>4, <1>5, Constants, SameStreams DEF Rsets, Faithful
<1>8. RsetsFaithful(e)
  <2>1. \A q \in Id : e.rid[q] # None => e.rid[q] \in Rsets(e) /\ e.rset[e.rid[q]].id = q
    BY <1>0, <1>3, <1>4, <1>6, <1>7, Entries DEF Faithful, RsetsFaithful
  <2>2. \A q \in Name \cup {Empty} :
          e.rname[q] # None => e.rname[q] \in Rsets(e) /\ e.rset[e.rname[q]].name = q
    <3>1. \A q \in Name \cup {Empty} : e.rname[q] = IF q = k THEN None ELSE d.rname[q]
      BY <1>0, <1>3 DEF DbType
    <3>2. \A q \in Name \cup {Empty} : q # k /\ d.rname[q] # None =>
            d.rname[q] \in Rsets(d) /\ d.rset[d.rname[q]].name = q /\ d.rname[q] # f
              /\ d.rname[q] \in RsetObj
      BY <1>0, <1>2, Entries DEF Faithful, RsetsFaithful
    <3> QED
      BY <1>4, <1>7, <3>1, <3>2
  <2> QED
    BY <2>1, <2>2 DEF RsetsFaithful
<1>9. \A q \in Rsets(d) : /\ e.rset[q].streams = d.rset[q].streams
                          /\ e.rset[q].type = d.rset[q].type /\ e.rset[q].dead = d.rset[q].dead
  BY <1>0, <1>4, <1>6, Entries
<1>10. LinksOk(e) /\ Partnered(e, R, S) /\ Counted(e)
  <2>1. /\ \A q \in Rsets(d) : e.rset[q].streams = d.rset[q].streams
        /\ \A q \in Rsets(d) : e.rset[q].type = d.rset[q].type /\ e.rset[q].dead = d.rset[q].dead
        /\ \A q \in Streams(d) : e.stream[q].rsets = d.stream[q].rsets
        /\ e.nres = d.nres
    BY <1>3, <1>9
  <2>2. (LinksOk(d) => LinksOk(e)) /\ (Partnered(d, R, S) => Partnered(e, R, S))
    BY <1>0, <1>5, <1>7, <2>1, SameLinks
  <2>3. Counted(d) => Counted(e)
    BY <1>0, <1>5, <1>7, <2>1, SameLives
  <2> QED
    BY <1>0, <2>2, <2>3 DEF Whole
<1>11. UnnamedFrom(d, e, f)
  BY <1>0, <1>3, <1>4, Entries DEF UnnamedFrom
<1> QED
  BY <1>2, <1>3, <1>4, <1>5, <1>7, <1>8, <1>9, <1>10, <1>11 DEF Whole, Faithful

LEMMA RsetJoinsGood ==
  ASSUME NEW d, Good(d), Room(d), NEW row \in Row, NEW s \in Streams(d),
         NEW e, e = RsetJoins(d, row, s)
  PROVE  Good(e)
<1> DEFINE r == NewRset(d)
           fresh == RsetEntry(d, None, row.id)
           f == d.rname[row.name]
           named == HasName(row.name) /\ f # None
           g == IF named THEN [fresh EXCEPT !.rname[row.name] = None, !.rset[f].name = None]
                ELSE fresh
<1>0. d \in DbType /\ Whole(d) /\ Partnered(d, {}, {}) /\ Rsets(d) # RsetObj
  BY GoodIsWhole DEF Whole, Room
<1>1. row.id \in IdOrNone /\ row.name \in Name \cup {Empty} /\ None \in NameOrNone
  BY RowFields DEF NameOrNone
<1>2. /\ Whole(fresh) /\ Partnered(fresh, {r}, {}) /\ r \in RsetObj /\ r \notin Rsets(d)
      /\ Rsets(fresh) = Rsets(d) \cup {r} /\ Streams(fresh) = Streams(d)
      /\ fresh.rset[r] = FreshRset(None, row.id)
      /\ fresh.rname = Put(d.rname, None, r)
  <2> DEFINE id == row.id
  <2>1. fresh = RsetEntry(d, None, id) /\ id \in IdOrNone
    BY <1>1
  <2> HIDE DEF fresh, id
  <2>2. RsetAdded(d, fresh, None, id, {})
    BY <1>0, <1>1, <2>1, RsetEntryWhole
  <2> QED
    BY <2>2 DEF RsetAdded, id
<1>3. e = Linked(g, r, s)
  BY DEF RsetJoins
<1> HIDE DEF r, fresh
<1>4. /\ Whole(g) /\ Partnered(g, {r}, {}) /\ Rsets(g) = Rsets(d) \cup {r}
      /\ Streams(g) = Streams(d) /\ g.rset[r].streams = <<>>
  <2>1. fresh.rset[r].streams = <<>>
    BY <1>0, <1>2 DEF FreshRset, DbType
  <2>2. CASE named
    <3>1. f = fresh.rname[row.name] /\ f # None
      BY <1>2, <2>2 DEF Put
    <3> DEFINE k == row.name
    <3> HIDE DEF f
    <3>2. g = Unnamed(fresh, row.name, f)
      BY <2>2 DEF Unnamed
    <3> HIDE DEF g
    <3>3. /\ Whole(g) /\ Partnered(g, {r}, {}) /\ Rsets(g) = Rsets(fresh)
          /\ Streams(g) = Streams(fresh)
          /\ \A q \in Rsets(fresh) : g.rset[q].streams = fresh.rset[q].streams
      <4>1. /\ k \in Name \cup {Empty} /\ f = fresh.rname[k]
            /\ g = Unnamed(fresh, k, f)
        BY <1>1, <3>1, <3>2
      <4> HIDE DEF k
      <4> QED
        BY <1>2, <3>1, <4>1, RsetUnnamed
    <3> QED
      BY <1>2, <2>1, <3>3
  <2>3. CASE ~named
    BY <1>2, <2>1, <2>3
  <2> QED
    BY <2>2, <2>3
<1> HIDE DEF g
<1>5. Whole(e) /\ Partnered(e, {r} \ {r}, {} \ {s})
  BY <1>3, <1>4, EmptyList, LinkedWhole
<1> QED
  BY <1>5, GoodIsWhole, {r} \ {r} = {}, {} \ {s} = {}

LEMMA StreamEntryFailedWhole ==
  ASSUME NEW d, Whole(d), NEW name \in NameOrNone, NEW id \in IdOrNone, NEW R, NEW S,
         Partnered(d, R, S), NEW e, e = StreamEntryFailed(d, name, id)
  PROVE  /\ Whole(e) /\ Partnered(e, R, S) /\ e.rset = d.rset /\ e.stream = d.stream
         /\ Rsets(e) = Rsets(d) /\ Streams(e) = Streams(d)
<1>1. e \in DbType /\ e.stream = d.stream /\ e.rset = d.rset /\ d \in DbType
  BY StreamEntryFailedFields DEF Whole
<1>2. Faithful(e) /\ Counted(e) /\ Rsets(e) = Rsets(d) /\ Streams(e) = Streams(d)
  BY StreamEntryFailedKeeps DEF Whole
<1>3. LinksOk(e) /\ Partnered(e, R, S)
  BY <1>1, <1>2, SameLinks DEF Whole
<1> QED
  BY <1>1, <1>2, <1>3 DEF Whole

(* An rset that is not found by name any more.                             *)
LEMMA RnameDropped ==
  ASSUME NEW d, Good(d), NEW k \in Name \cup {Empty}, NEW e, e = [d EXCEPT !.rname = Drop(@, k)]
  PROVE  Good(e)
<1>0. d \in DbType /\ Whole(d) /\ Partnered(d, {}, {})
  BY GoodIsWhole DEF Whole
<1>1. /\ e.rset = d.rset /\ e.stream = d.stream /\ e.nres = d.nres /\ e.rid = d.rid
      /\ e.rname = Drop(d.rname, k) /\ e.sname = d.sname /\ e.sid = d.sid /\ e.snode = d.snode
      /\ e = [rset |-> e.rset, stream |-> e.stream, rid |-> e.rid, sid |-> e.sid,
              rname |-> e.rname, sname |-> e.sname, snode |-> e.snode, nres |-> e.nres]
  BY <1>0 DEF DbType
<1>2. e \in DbType
  BY <1>0, <1>1 DEF DbType, Drop, Put
<1>3. Rsets(e) = Rsets(d) /\ Streams(e) = Streams(d) /\ StreamsFaithful(e)
  BY <1>0, <1>1, <1>2, SameStreams DEF Rsets, Whole, Faithful
<1>4. RsetsFaithful(e)
  <2>1. \A q \in Name \cup {Empty} : e.rname[q] \in {None, d.rname[q]}
    BY <1>0, <1>1, Constants DEF DbType, Drop, Put
  <2> QED
    BY <1>0, <1>1, <1>3, <2>1 DEF RsetsFaithful, Whole, Faithful
<1>5. LinksOk(e) /\ Partnered(e, {}, {})
  BY <1>0, <1>1, <1>2, <1>3, SameLinks DEF Whole
<1>6. Counted(e)
  BY <1>0, <1>1, <1>2, <1>3, SameLives DEF Whole
<1> QED
  BY <1>2, <1>3, <1>4, <1>5, <1>6, GoodIsWhole DEF Whole, Faithful

LEMMA RsetWithStreamGood ==
  ASSUME NEW d, Good(d), Room(d), NEW row \in Row, NEW e, e = RsetWithStream(d, row)
  PROVE  Good(e)
<1> DEFINE name == row.name
           id == row.id
           r == NewRset(d)
           f == RsetEntry(d, name, id)
           g == StreamEntryFailed(f, name, id)
           h == StreamEntry(f, name, id, None)
           s == NewStream(f)
<1>0. /\ d \in DbType /\ Whole(d) /\ Partnered(d, {}, {})
      /\ Rsets(d) # RsetObj /\ Streams(d) # StreamObj
  BY GoodIsWhole DEF Whole, Room
<1>1. name \in Name \cup {Empty} /\ name \in NameOrNone /\ id \in IdOrNone
  BY RowFields
<1>2. /\ e = [d EXCEPT !.rname = Drop(@, name)] \/ e = RsetEntryFree(g, r)
         \/ e = Linked(h, r, NewStream(d))
  BY DEF RsetWithStream
<1> HIDE DEF name, id
<1>3. RsetAdded(d, f, name, id, {})
  BY <1>0, <1>1, RsetEntryWhole
<1>4. CASE e = [d EXCEPT !.rname = Drop(@, name)]
  BY <1>1, <1>4, RnameDropped
<1>5. CASE e = RsetEntryFree(g, r)
  <2>1. /\ Whole(f) /\ Partnered(f, {r}, {}) /\ r \in Rsets(f)
        /\ f.rset[r].streams = <<>> /\ f.rset[r].type = {}
    BY <1>3 DEF RsetAdded, FreshRset
  <2> HIDE DEF f, r
  <2>2. /\ Whole(g) /\ Partnered(g, {r}, {}) /\ g.rset = f.rset
        /\ Rsets(g) = Rsets(f)
    BY <1>1, <2>1, StreamEntryFailedWhole
  <2> HIDE DEF g
  <2>3. /\ e \in DbType /\ LinksOk(e) /\ Faithful(e) /\ e.nres = g.nres
        /\ Rsets(e) = Rsets(g) \ {r} /\ Streams(e) = Streams(g)
        /\ e.stream = g.stream /\ \A q \in Rsets(e) : e.rset[q] = g.rset[q]
        /\ \A t \in Type : Alive(e, t) = Alive(g, t) \ {r}
    BY <1>5, <2>1, <2>2, EmptyList, RsetEntryFreeWhole
  <2>4. \A t \in Type : Alive(e, t) = Alive(g, t)
    BY <2>1, <2>2, <2>3 DEF Alive
  <2>5. Counted(e)
    BY <2>2, <2>3, <2>4 DEF Counted, Whole
  <2>6. Partnered(e, {}, {})
    BY <2>2, <2>3 DEF Partnered
  <2> QED
    BY <2>3, <2>5, <2>6, GoodIsWhole DEF Whole
<1>6. CASE e = Linked(h, r, NewStream(d))
  <2>1. /\ Whole(f) /\ Partnered(f, {r}, {}) /\ r \in Rsets(f) /\ f.rset[r].streams = <<>>
        /\ f.stream = d.stream /\ Streams(f) = Streams(d)
    BY <1>3 DEF RsetAdded, FreshRset
  <2>2. s = NewStream(d)
    BY <2>1 DEF NewStream
  <2> HIDE DEF f, r
  <2>3. StreamAdded(f, h, name, id, None, {r})
    BY <1>0, <1>1, <2>1, StreamEntryWhole
  <2>4. /\ Whole(h) /\ Partnered(h, {r}, {s}) /\ s \in Streams(h) /\ r \in Rsets(h)
        /\ h.rset[r].streams = <<>>
    BY <2>1, <2>3 DEF StreamAdded
  <2> HIDE DEF h, s
  <2>5. Whole(e) /\ Partnered(e, {r} \ {r}, {s} \ {s})
    BY <1>6, <2>2, <2>4, EmptyList, LinkedWhole
  <2> QED
    BY <2>5, GoodIsWhole, {r} \ {r} = {}, {s} \ {s} = {}
<1> QED
  BY <1>2, <1>4, <1>5, <1>6

LEMMA RsetFoundGood ==
  ASSUME NEW d, Good(d), Room(d), NEW row \in Row, NEW e, e = RsetFound(d, row)
  PROVE  Good(e)
<1> DEFINE s == IF HasName(row.name) /\ d.sname[row.name] # None THEN d.sname[row.name]
                ELSE d.sid[row.id]
           r == d.rname[row.name]
<1>1. \/ e = d
      \/ d.rid[row.id] = None /\ r # None /\ d.rset[r].id = None /\ e = RsetCompleted(d, row)
      \/ s # None /\ e = RsetJoins(d, row, s)
      \/ e = RsetWithStream(d, row)
  <2> DEFINE c == HasName(row.name) /\ r # None /\ d.rset[r].id = None
             completed == RsetCompleted(d, row)
             joined == RsetJoins(d, row, s)
             paired == RsetWithStream(d, row)
  <2>1. e = IF d.rid[row.id] # None THEN d
            ELSE IF c THEN completed ELSE IF s # None THEN joined ELSE paired
    BY DEF RsetFound
  <2>2. c => r # None /\ d.rset[r].id = None
    OBVIOUS
  <2> HIDE DEF c, s, completed, joined, paired
  <2>3. \/ e = d
        \/ d.rid[row.id] = None /\ c /\ e = completed
        \/ s # None /\ e = joined
        \/ e = paired
    BY <2>1
  <2> QED
    BY <2>2, <2>3 DEF completed, joined, paired
<1>2. s # None => s \in Streams(d)
  <2>1. StreamsFaithful(d)
    BY DEF Good, Faithful
  <2> QED
    BY <2>1, RowFields DEF StreamsFaithful
<1> QED
  BY <1>1, <1>2, RsetCompletedGood, RsetJoinsGood, RsetWithStreamGood

(* An rset that keeps its keys and its streams, and is counted right.      *)
RsetSet(d, r, entry, nres) == [d EXCEPT !.rset[r] = entry, !.nres = nres]
NowAlive(d, r, entry, t) ==
  IF t \in entry.type /\ ~entry.dead THEN Alive(d, t) \cup {r} ELSE Alive(d, t) \ {r}

LEMMA AliveFinite ==
  ASSUME NEW d \in DbType, NEW t
  PROVE  /\ IsFiniteSet(Alive(d, t)) /\ Cardinality(Alive(d, t)) \in Nat
         /\ \A r : r \notin Alive(d, t) =>
              Cardinality(Alive(d, t) \cup {r}) = Cardinality(Alive(d, t)) + 1
         /\ \A r : r \in Alive(d, t) =>
              Cardinality(Alive(d, t) \ {r}) = Cardinality(Alive(d, t)) - 1
              /\ Cardinality(Alive(d, t)) - 1 \in Nat
<1>1. IsFiniteSet(Alive(d, t))
  <2>1. Alive(d, t) \subseteq RsetObj
    BY Entries DEF Alive
  <2> QED
    BY <2>1, Constants, FS_Subset
<1> DEFINE A == Alive(d, t)
<1> HIDE DEF A
<1>2. IsFiniteSet(A) /\ Cardinality(A) \in Nat
  BY <1>1, FS_CardinalityType DEF A
<1>3. ASSUME NEW r, r \notin A PROVE Cardinality(A \cup {r}) = Cardinality(A) + 1
  BY <1>2, <1>3, FS_AddElement
<1>4. ASSUME NEW r, r \in A
      PROVE  Cardinality(A \ {r}) = Cardinality(A) - 1 /\ Cardinality(A) - 1 \in Nat
  <2>1. IsFiniteSet(A \ {r}) /\ Cardinality(A \ {r}) = Cardinality(A) - 1
    BY <1>2, <1>4, FS_RemoveElement
  <2>2. Cardinality(A \ {r}) \in Nat
    BY <2>1, FS_CardinalityType
  <2> QED
    BY <2>1, <2>2
<1> QED
  BY <1>1, <1>2, <1>3, <1>4 DEF A

LEMMA RsetSetGood ==
  ASSUME NEW d, Good(d), NEW r \in Rsets(d), NEW x \in RsetType, x.name = d.rset[r].name,
         x.id = d.rset[r].id, x.streams = d.rset[r].streams, NEW nres \in [Type -> Nat],
         NEW e, e = RsetSet(d, r, x, nres),
         \A t \in Type : nres[t] = Cardinality(NowAlive(d, r, x, t))
  PROVE  Good(e)
<1>0. d \in DbType /\ Whole(d) /\ Partnered(d, {}, {}) /\ r \in RsetObj
  BY GoodIsWhole, Entries DEF Whole
<1>1. /\ e.rset = [d.rset EXCEPT ![r] = x] /\ e.nres = nres
      /\ e.stream = d.stream /\ e.rid = d.rid
      /\ e.rname = d.rname /\ e.sname = d.sname /\ e.sid = d.sid /\ e.snode = d.snode
      /\ e = [rset |-> e.rset, stream |-> e.stream, rid |-> e.rid, sid |-> e.sid,
              rname |-> e.rname, sname |-> e.sname, snode |-> e.snode, nres |-> e.nres]
  BY <1>0 DEF DbType, RsetSet
<1>2. e \in DbType
  BY <1>0, <1>1 DEF DbType
<1>3. e.rset[r] = x /\ \A q \in RsetObj : q # r => e.rset[q] = d.rset[q]
  BY <1>0, <1>1 DEF DbType
<1>4. Rsets(e) = Rsets(d) /\ Streams(e) = Streams(d) /\ StreamsFaithful(e)
  BY <1>0, <1>1, <1>2, <1>3, SameStreams, Constants DEF Rsets, Whole, Faithful
<1>5. \A q \in Rsets(d) : /\ e.rset[q].name = d.rset[q].name /\ e.rset[q].id = d.rset[q].id
                          /\ e.rset[q].streams = d.rset[q].streams
  BY <1>0, <1>3, Entries
<1>6. RsetsFaithful(e)
  BY <1>0, <1>1, <1>4, <1>5 DEF RsetsFaithful, Whole, Faithful
<1>7. LinksOk(e) /\ Partnered(e, {}, {})
  <2>1. /\ \A q \in Rsets(d) : e.rset[q].streams = d.rset[q].streams
        /\ \A q \in Streams(d) : e.stream[q].rsets = d.stream[q].rsets
    BY <1>1, <1>5
  <2> QED
    BY <1>0, <1>2, <1>4, <2>1, SameLinks DEF Whole
<1>8. Counted(e)
  <2> SUFFICES ASSUME NEW t \in Type PROVE e.nres[t] = Cardinality(Alive(e, t))
    BY DEF Counted
  <2>1. \A q \in Rsets(d) : q \in RsetObj
    BY <1>0, Entries
  <2>2. Alive(e, t) = NowAlive(d, r, x, t)
    <3>1. CASE t \in x.type /\ ~x.dead
      BY <1>3, <1>4, <2>1, <3>1 DEF Alive, NowAlive
    <3>2. CASE ~(t \in x.type /\ ~x.dead)
      BY <1>3, <1>4, <2>1, <3>2 DEF Alive, NowAlive
    <3> QED
      BY <3>1, <3>2
  <2> QED
    BY <1>1, <2>2
<1> QED
  BY <1>2, <1>4, <1>6, <1>7, <1>8, GoodIsWhole DEF Whole, Faithful

(* What an update makes of the entry, and of the counters.                 *)
CountedEntry(entry, t) == [entry EXCEPT !.type = @ \cup {t}, !.updated = TRUE]
CopiedEntry(entry, row, t) ==
  [entry EXCEPT !.data = row.name, !.policy[t] = row.policy, !.over = row.over,
                !.grant = IF row.grant THEN @ \cup {t} ELSE @ \ {t}]
CountedIn(nres, entry, t) == [nres EXCEPT ![t] = IF t \in entry.type THEN @ ELSE @ + 1]

CountedDb(e, r, t) ==
  [e EXCEPT !.rset[r].type = @ \cup {t}, !.rset[r].updated = TRUE,
            !.nres[t] = IF t \in e.rset[r].type THEN @ ELSE @ + 1]
CopiedDb(c, r, row, t) ==
  [c EXCEPT !.rset[r].data = row.name, !.rset[r].policy[t] = row.policy,
            !.rset[r].over = row.over,
            !.rset[r].grant = IF row.grant THEN @ \cup {t} ELSE @ \ {t}]

LEMMA CountedEntrySet ==
  ASSUME NEW e \in DbType, NEW r \in Rsets(e), NEW t \in Type, NEW c, c = CountedDb(e, r, t)
  PROVE  c = RsetSet(e, r, CountedEntry(e.rset[r], t), CountedIn(e.nres, e.rset[r], t))
<1>1. r \in RsetObj /\ e.rset[r] \in RsetType
  BY Entries
<1>2. /\ c.rset = [e.rset EXCEPT ![r] = CountedEntry(e.rset[r], t)]
      /\ c.nres = CountedIn(e.nres, e.rset[r], t)
      /\ c.stream = e.stream /\ c.rid = e.rid
      /\ c.rname = e.rname /\ c.sname = e.sname /\ c.sid = e.sid /\ c.snode = e.snode
      /\ c = [rset |-> c.rset, stream |-> c.stream, rid |-> c.rid, sid |-> c.sid,
              rname |-> c.rname, sname |-> c.sname, snode |-> c.snode, nres |-> c.nres]
  BY <1>1 DEF DbType, CountedEntry, CountedIn, CountedDb
<1> QED
  BY <1>2 DEF RsetSet, DbType

LEMMA CopiedEntrySet ==
  ASSUME NEW c \in DbType, NEW r \in Rsets(c), NEW t \in Type, NEW row \in Row,
         NEW f, f = CopiedDb(c, r, row, t)
  PROVE  f = RsetSet(c, r, CopiedEntry(c.rset[r], row, t), c.nres)
<1>1. r \in RsetObj /\ c.rset[r] \in RsetType
  BY Entries
<1>2. f.rset = [c.rset EXCEPT ![r] = CopiedEntry(c.rset[r], row, t)]
  <2> DEFINE R1 == [c.rset EXCEPT ![r].data = row.name]
             R2 == [R1 EXCEPT ![r].policy[t] = row.policy]
             R3 == [R2 EXCEPT ![r].over = row.over]
             R4 == [R3 EXCEPT ![r].grant = IF row.grant THEN @ \cup {t} ELSE @ \ {t}]
             x0 == c.rset[r]
             x1 == [x0 EXCEPT !.data = row.name]
             x2 == [x1 EXCEPT !.policy[t] = row.policy]
             x3 == [x2 EXCEPT !.over = row.over]
             x4 == [x3 EXCEPT !.grant = IF row.grant THEN @ \cup {t} ELSE @ \ {t}]
  <2>1. f.rset = R4
    BY DEF CopiedDb, DbType
  <2>2. R1 = [c.rset EXCEPT ![r] = x1] /\ R1[r] = x1
    BY <1>1 DEF DbType
  <2> HIDE DEF x1, R1
  <2>3. R2 = [c.rset EXCEPT ![r] = x2] /\ R2[r] = x2
    BY <1>1, <2>2 DEF DbType
  <2> HIDE DEF x2, R2
  <2>4. R3 = [c.rset EXCEPT ![r] = x3] /\ R3[r] = x3
    BY <1>1, <2>3 DEF DbType
  <2> HIDE DEF x3, R3
  <2>5. R4 = [c.rset EXCEPT ![r] = x4]
    BY <1>1, <2>4 DEF DbType
  <2>6. x4 = CopiedEntry(c.rset[r], row, t)
    BY DEF x3, x2, x1, CopiedEntry
  <2> QED
    BY <2>1, <2>5, <2>6
<1>3. /\ f.nres = c.nres
      /\ f.stream = c.stream /\ f.rid = c.rid
      /\ f.rname = c.rname /\ f.sname = c.sname /\ f.sid = c.sid /\ f.snode = c.snode
      /\ f = [rset |-> f.rset, stream |-> f.stream, rid |-> f.rid, sid |-> f.sid,
              rname |-> f.rname, sname |-> f.sname, snode |-> f.snode, nres |-> f.nres]
  BY DEF DbType, CopiedDb
<1> QED
  BY <1>2, <1>3 DEF RsetSet, DbType

LEMMA CountedFields ==
  ASSUME NEW entry \in RsetType, NEW t \in Type, NEW x, x = CountedEntry(entry, t)
  PROVE  /\ x \in RsetType /\ x.name = entry.name /\ x.id = entry.id
         /\ x.streams = entry.streams /\ x.type = entry.type \cup {t} /\ x.dead = entry.dead
<1>1. x \in RsetType
  BY DEF CountedEntry, RsetType
<1>2. x.name = entry.name /\ x.id = entry.id
  BY DEF CountedEntry, RsetType
<1>3. x.streams = entry.streams /\ x.type = entry.type \cup {t}
  BY DEF CountedEntry, RsetType
<1>4. x.dead = entry.dead
  BY DEF CountedEntry, RsetType
<1> QED
  BY <1>1, <1>2, <1>3, <1>4

LEMMA CopiedFields ==
  ASSUME NEW entry \in RsetType, NEW t \in Type, NEW row \in Row,
         NEW x, x = CopiedEntry(entry, row, t)
  PROVE  /\ x \in RsetType /\ x.name = entry.name /\ x.id = entry.id
         /\ x.streams = entry.streams /\ x.type = entry.type /\ x.dead = entry.dead
<1>1. x \in RsetType
  <2>1. [entry.policy EXCEPT ![t] = row.policy] \in [Type -> Policy]
    BY RowFields DEF RsetType
  <2>2. row.name \in Name \cup {Empty, None} /\ row.over \in BOOLEAN
    BY RowFields
  <2> QED
    BY <2>1, <2>2 DEF CopiedEntry, RsetType
<1>2. x.name = entry.name /\ x.id = entry.id
  BY DEF CopiedEntry, RsetType
<1>3. x.streams = entry.streams /\ x.type = entry.type
  BY DEF CopiedEntry, RsetType
<1>4. x.dead = entry.dead
  BY DEF CopiedEntry, RsetType
<1> QED
  BY <1>1, <1>2, <1>3, <1>4

LEMMA CountedDbGood ==
  ASSUME NEW e, Good(e), NEW r \in Rsets(e), ~e.rset[r].dead, NEW t \in Type,
         NEW c, c = CountedDb(e, r, t)
  PROVE  Good(c) /\ r \in Rsets(c) /\ ~c.rset[r].dead
<1> DEFINE entry == e.rset[r]
           x == CountedEntry(entry, t)
           n == CountedIn(e.nres, entry, t)
<1>1. e \in DbType /\ entry \in RsetType /\ Counted(e) /\ r \in RsetObj
  BY Entries DEF Good
<1>2. c = RsetSet(e, r, x, n)
  BY <1>1, CountedEntrySet
<1>3. /\ x \in RsetType /\ x.name = entry.name /\ x.id = entry.id
      /\ x.streams = entry.streams /\ x.type = entry.type \cup {t} /\ x.dead = entry.dead
  BY <1>1, CountedFields
<1> HIDE DEF x
<1>4. ASSUME NEW u \in Type PROVE n[u] = Cardinality(NowAlive(e, r, x, u))
  <2>1. r \in Alive(e, u) <=> u \in entry.type
    BY DEF Alive
  <2>2. e.nres[u] = Cardinality(Alive(e, u)) /\ Cardinality(Alive(e, u)) \in Nat
    BY <1>1, AliveFinite DEF Counted
  <2>3. n[u] = IF u = t /\ t \notin entry.type THEN e.nres[u] + 1 ELSE e.nres[u]
    BY <1>1 DEF CountedIn, DbType
  <2>4. CASE u \in entry.type
    <3>1. NowAlive(e, r, x, u) = Alive(e, u)
      BY <1>3, <2>1, <2>4 DEF NowAlive
    <3> QED
      BY <2>2, <2>3, <2>4, <3>1
  <2>5. CASE u \notin entry.type /\ u = t
    <3>1. NowAlive(e, r, x, u) = Alive(e, u) \cup {r}
      BY <1>3, <2>5 DEF NowAlive
    <3>2. Cardinality(Alive(e, u) \cup {r}) = Cardinality(Alive(e, u)) + 1
      BY <1>1, <2>1, <2>5, AliveFinite
    <3> QED
      BY <2>2, <2>3, <2>5, <3>1, <3>2
  <2>6. CASE u \notin entry.type /\ u # t
    <3>1. NowAlive(e, r, x, u) = Alive(e, u)
      BY <1>3, <2>1, <2>6 DEF NowAlive
    <3> QED
      BY <2>2, <2>3, <2>6, <3>1
  <2> QED
    BY <2>4, <2>5, <2>6
<1>5. n \in [Type -> Nat]
  BY <1>1 DEF CountedIn, DbType
<1> HIDE DEF n
<1>6. Good(c)
  BY <1>2, <1>3, <1>4, <1>5, RsetSetGood
<1>7. c.rset[r] = x
  BY <1>1, <1>2 DEF RsetSet, DbType
<1> QED
  BY <1>1, <1>3, <1>6, <1>7, Constants DEF Rsets

LEMMA CopiedDbGood ==
  ASSUME NEW c, Good(c), NEW r \in Rsets(c), ~c.rset[r].dead, NEW t \in Type, NEW row \in Row,
         NEW f, f = CopiedDb(c, r, row, t)
  PROVE  Good(f)
<1> DEFINE entry == c.rset[r]
           x == CopiedEntry(entry, row, t)
<1>1. c \in DbType /\ entry \in RsetType /\ Counted(c) /\ c.nres \in [Type -> Nat]
  BY Entries DEF Good, DbType
<1>2. f = RsetSet(c, r, x, c.nres)
  BY <1>1, CopiedEntrySet
<1>3. /\ x \in RsetType /\ x.name = entry.name /\ x.id = entry.id
      /\ x.streams = entry.streams /\ x.type = entry.type /\ x.dead = entry.dead
  BY <1>1, CopiedFields
<1> HIDE DEF x
<1>4. ASSUME NEW u \in Type PROVE c.nres[u] = Cardinality(NowAlive(c, r, x, u))
  <2>1. NowAlive(c, r, x, u) = Alive(c, u)
    BY <1>3 DEF NowAlive, Alive
  <2> QED
    BY <1>1, <2>1 DEF Counted
<1> QED
  BY <1>1, <1>2, <1>3, <1>4, RsetSetGood

LEMMA RsetUpdatedGood ==
  ASSUME NEW d, Good(d), Room(d), NEW row \in Row, NEW t \in Type,
         NEW f, f = RsetUpdated(d, row, t)
  PROVE  Good(f)
<1> DEFINE e == RsetFound(d, row)
           r == e.rid[row.id]
           c == CountedDb(e, r, t)
<1>1. Good(e)
  BY RsetFoundGood
<1>2. f = e \/ (r # None /\ ~e.rset[r].dead /\ f \in {c, CopiedDb(c, r, row, t)})
  BY DEF RsetUpdated, CountedDb, CopiedDb
<1>3. CASE r # None /\ ~e.rset[r].dead /\ f \in {c, CopiedDb(c, r, row, t)}
  <2>1. r \in Rsets(e)
    BY <1>1, <1>3, RowFields DEF Good, Faithful, RsetsFaithful
  <2> HIDE DEF e, r
  <2>2. Good(c) /\ r \in Rsets(c) /\ ~c.rset[r].dead
    BY <1>1, <1>3, <2>1, CountedDbGood
  <2> HIDE DEF c
  <2> QED
    BY <1>3, <2>2, CopiedDbGood
<1> QED
  BY <1>1, <1>2, <1>3

-----------------------------------------------------------------------------
(* rset_entry_is_dead.                                                     *)

Recounted(d, nres) == [d EXCEPT !.nres = nres]
LessOne(nres, entry) == [t \in Type |-> IF t \in entry.type THEN nres[t] - 1 ELSE nres[t]]
DeadEntry(entry) == [entry EXCEPT !.dead = TRUE, !.grant = {}]

LEMMA DeadFields ==
  ASSUME NEW entry \in RsetType, NEW x, x = DeadEntry(entry)
  PROVE  /\ x \in RsetType /\ x.name = entry.name /\ x.id = entry.id
         /\ x.streams = entry.streams /\ x.type = entry.type /\ x.dead
<1>1. x \in RsetType
  BY DEF DeadEntry, RsetType
<1>2. x.name = entry.name /\ x.id = entry.id
  BY DEF DeadEntry, RsetType
<1>3. x.streams = entry.streams /\ x.type = entry.type
  BY DEF DeadEntry, RsetType
<1>4. x.dead
  BY DEF DeadEntry, RsetType
<1> QED
  BY <1>1, <1>2, <1>3, <1>4

LEMMA CounterLess ==
  ASSUME NEW d, Good(d), NEW r \in Rsets(d), ~d.rset[r].dead,
         NEW n, n = LessOne(d.nres, d.rset[r])
  PROVE  /\ n \in [Type -> Nat]
         /\ \A t \in Type : n[t] = Cardinality(Alive(d, t) \ {r})
<1>1. d \in DbType /\ Counted(d)
  BY DEF Good
<1>2. ASSUME NEW t \in Type PROVE n[t] \in Nat /\ n[t] = Cardinality(Alive(d, t) \ {r})
  <2>1. r \in Alive(d, t) <=> t \in d.rset[r].type
    BY DEF Alive
  <2>2. d.nres[t] = Cardinality(Alive(d, t)) /\ Cardinality(Alive(d, t)) \in Nat
    BY <1>1, AliveFinite DEF Counted
  <2>3. n[t] = IF t \in d.rset[r].type THEN d.nres[t] - 1 ELSE d.nres[t]
    BY DEF LessOne
  <2>4. CASE t \in d.rset[r].type
    <3>1. Cardinality(Alive(d, t) \ {r}) = Cardinality(Alive(d, t)) - 1
          /\ Cardinality(Alive(d, t)) - 1 \in Nat
      BY <1>1, <2>1, <2>4, AliveFinite
    <3> QED
      BY <2>2, <2>3, <2>4, <3>1
  <2>5. CASE t \notin d.rset[r].type
    <3>1. Alive(d, t) \ {r} = Alive(d, t)
      BY <2>1, <2>5
    <3> QED
      BY <2>2, <2>3, <2>5, <3>1
  <2> QED
    BY <2>4, <2>5
<1>3. n = [t \in Type |-> n[t]]
  BY DEF LessOne
<1> QED
  BY <1>2, <1>3

LEMMA RsetLastGood ==
  ASSUME NEW d, Good(d), NEW r \in Rsets(d), ~d.rset[r].dead,
         NEW e, e = RsetSet(d, r, DeadEntry(d.rset[r]), LessOne(d.nres, d.rset[r]))
  PROVE  Good(e)
<1> DEFINE entry == d.rset[r]
           x == DeadEntry(entry)
           n == LessOne(d.nres, entry)
<1>1. entry \in RsetType
  BY Entries DEF Good
<1>2. /\ x \in RsetType /\ x.name = entry.name /\ x.id = entry.id
      /\ x.streams = entry.streams /\ x.type = entry.type /\ x.dead
  BY <1>1, DeadFields
<1>3. n \in [Type -> Nat] /\ \A t \in Type : n[t] = Cardinality(Alive(d, t) \ {r})
  BY CounterLess
<1> HIDE DEF x, n
<1>4. \A t \in Type : NowAlive(d, r, x, t) = Alive(d, t) \ {r}
  BY <1>2 DEF NowAlive
<1>5. e = RsetSet(d, r, x, n)
  BY DEF x, n
<1> QED
  BY <1>2, <1>3, <1>4, <1>5, RsetSetGood

LEMMA RecountedGood ==
  ASSUME NEW d, d \in DbType, LinksOk(d), Faithful(d), Partnered(d, {}, {}),
         NEW nres \in [Type -> Nat], \A t \in Type : nres[t] = Cardinality(Alive(d, t)),
         NEW e, e = Recounted(d, nres)
  PROVE  Good(e)
<1>1. /\ e.rset = d.rset /\ e.stream = d.stream /\ e.nres = nres /\ e.rid = d.rid
      /\ e.rname = d.rname /\ e.sname = d.sname /\ e.sid = d.sid /\ e.snode = d.snode
      /\ e = [rset |-> e.rset, stream |-> e.stream, rid |-> e.rid, sid |-> e.sid,
              rname |-> e.rname, sname |-> e.sname, snode |-> e.snode, nres |-> e.nres]
  BY DEF DbType, Recounted
<1>2. e \in DbType
  BY <1>1 DEF DbType
<1>3. Rsets(e) = Rsets(d) /\ Streams(e) = Streams(d)
  BY <1>1 DEF Rsets, Streams
<1>4. RsetsFaithful(e) /\ StreamsFaithful(e)
  BY <1>1, <1>2, SameRsets, SameStreams DEF Faithful
<1>5. LinksOk(e) /\ Partnered(e, {}, {})
  BY <1>1, <1>2, <1>3, SameLinks
<1>6. Counted(e)
  <2>1. \A t \in Type : Alive(e, t) = Alive(d, t)
    BY <1>1, <1>3 DEF Alive
  <2> QED
    BY <1>1, <2>1 DEF Counted
<1> QED
  BY <1>2, <1>4, <1>5, <1>6, GoodIsWhole DEF Whole, Faithful

(* The count may be corrected before or after the entry goes.              *)
LEMMA RecountedEarly ==
  ASSUME NEW d \in DbType, NEW r \in Rsets(d), NEW s \in Streams(d), NEW nres \in [Type -> Nat]
  PROVE  RsetEntryFree(Unlinked(Recounted(d, nres), r, s), r) =
           Recounted(RsetEntryFree(Unlinked(d, r, s), r), nres)
<1> DEFINE e == Unlinked(d, r, s)
           f == Unlinked(Recounted(d, nres), r, s)
<1>1. f = Recounted(e, nres)
  BY DEF Unlinked, Recounted, DbType
<1>2. ASSUME NEW u, u = Unlinked(d, r, s)
      PROVE  u = [rset |-> u.rset, stream |-> u.stream, rid |-> u.rid, sid |-> u.sid,
                  rname |-> u.rname, sname |-> u.sname, snode |-> u.snode, nres |-> u.nres]
  BY <1>2 DEF Unlinked, DbType
<1> HIDE DEF f
<1> HIDE DEF e
<1>3. RsetEntryFree(f, r) = Recounted(RsetEntryFree(e, r), nres)
  <2>1. e = [rset |-> e.rset, stream |-> e.stream, rid |-> e.rid, sid |-> e.sid,
             rname |-> e.rname, sname |-> e.sname, snode |-> e.snode, nres |-> e.nres]
    BY <1>2 DEF e
  <2> QED
    BY <1>1, <2>1 DEF RsetEntryFree, Recounted
<1> QED
  BY <1>3 DEF e, f

LEMMA RsetLeavesGood ==
  ASSUME NEW d, Good(d), NEW r \in Rsets(d), ~d.rset[r].dead,
         NEW s, s = Head(d.rset[r].streams), ~(Len(d.rset[r].streams) > 1),
         ~(Len(d.stream[s].rsets) = 1),
         NEW e, e = RsetEntryFree(Unlinked(Recounted(d, LessOne(d.nres, d.rset[r])), r, s), r)
  PROVE  Good(e)
<1> DEFINE n == LessOne(d.nres, d.rset[r])
           u == Unlinked(d, r, s)
           f == RsetEntryFree(u, r)
<1>0. d \in DbType /\ Whole(d) /\ Partnered(d, {}, {})
  BY GoodIsWhole DEF Whole
<1>1. /\ d.rset[r] \in RsetType /\ d.rset[r].streams \in Seq(StreamObj)
      /\ d.rset[r].streams # <<>> /\ r \in RsetObj
  BY <1>0, Entries DEF RsetType, Partnered
<1>2. s \in ToSet(d.rset[r].streams) /\ ToSet(d.rset[r].streams) = {s}
  <2> DEFINE k == Len(d.rset[r].streams)
  <2>1. /\ s \in ToSet(d.rset[r].streams) /\ k \in Nat /\ k # 0 /\ ~(k > 1)
        /\ k = 1 => ToSet(d.rset[r].streams) = {s}
    BY <1>1, FirstOfList
  <2> HIDE DEF k
  <2> QED
    BY <2>1
<1>3. s \in StreamObj /\ s \in Streams(d) /\ r \in ToSet(d.stream[s].rsets)
  BY <1>0, <1>1, <1>2, ElementsOfList DEF LinksOk, Whole
<1>4. Len(d.stream[s].rsets) > 1
  <2>1. d.stream[s].rsets \in Seq(RsetObj) /\ d.stream[s].rsets # <<>>
    BY <1>0, <1>3, Entries DEF StreamType, Partnered
  <2> DEFINE k == Len(d.stream[s].rsets)
  <2>2. k \in Nat /\ k # 0 /\ k # 1
    BY <2>1, FirstOfList
  <2> HIDE DEF k
  <2>3. k > 1
    BY <2>2
  <2> QED
    BY <2>3 DEF k
<1>5. n \in [Type -> Nat] /\ \A t \in Type : n[t] = Cardinality(Alive(d, t) \ {r})
  BY CounterLess
<1>6. e = Recounted(f, n)
  BY <1>0, <1>3, <1>5, RecountedEarly
<1> HIDE DEF n, f, u
<1>7. /\ Whole(u) /\ Rsets(u) = Rsets(d) /\ Streams(u) = Streams(d)
      /\ \A q \in Rsets(d) : u.rset[q].type = d.rset[q].type /\ u.rset[q].dead = d.rset[q].dead
      /\ \A q \in Rsets(d) : q # r => u.rset[q] = d.rset[q]
      /\ \A q \in Streams(d) : q # s => u.stream[q] = d.stream[q]
      /\ ToSet(u.rset[r].streams) = ToSet(d.rset[r].streams) \ {s}
      /\ u.stream[s].rsets # <<>>
  <2>1. UnlinkedFrom(d, u, r, s)
    BY <1>0, <1>2, <1>3, UnlinkedWhole DEF u
  <2> QED
    BY <1>4, <2>1 DEF UnlinkedFrom
<1>8. /\ f \in DbType /\ LinksOk(f) /\ Faithful(f)
      /\ Rsets(f) = Rsets(u) \ {r} /\ Streams(f) = Streams(u)
      /\ f.stream = u.stream /\ \A q \in Rsets(f) : f.rset[q] = u.rset[q]
      /\ \A t \in Type : Alive(f, t) = Alive(u, t) \ {r}
  BY <1>2, <1>7, RsetEntryFreeWhole DEF f
<1>9. \A t \in Type : Alive(u, t) = Alive(d, t)
  BY <1>7 DEF Alive
<1>10. Partnered(f, {}, {})
  BY <1>0, <1>7, <1>8 DEF Partnered
<1>11. \A t \in Type : n[t] = Cardinality(Alive(f, t))
  BY <1>5, <1>8, <1>9
<1> QED
  BY <1>5, <1>6, <1>8, <1>10, <1>11, RecountedGood

LastDb(f, r) == [f EXCEPT !.rset[r].dead = TRUE, !.rset[r].grant = {}]

LEMMA LastEntrySet ==
  ASSUME NEW d \in DbType, NEW r \in Rsets(d), NEW n \in [Type -> Nat],
         NEW e, e = LastDb(Recounted(d, n), r)
  PROVE  e = RsetSet(d, r, DeadEntry(d.rset[r]), n)
<1>1. r \in RsetObj /\ d.rset[r] \in RsetType
  BY Entries
<1>2. /\ e.rset = [d.rset EXCEPT ![r] = DeadEntry(d.rset[r])] /\ e.nres = n
      /\ e.stream = d.stream /\ e.rid = d.rid
      /\ e.rname = d.rname /\ e.sname = d.sname /\ e.sid = d.sid /\ e.snode = d.snode
      /\ e = [rset |-> e.rset, stream |-> e.stream, rid |-> e.rid, sid |-> e.sid,
              rname |-> e.rname, sname |-> e.sname, snode |-> e.snode, nres |-> e.nres]
  <2> DEFINE f == Recounted(d, n)
  <2>1. /\ f \in DbType /\ f.rset = d.rset /\ f.nres = n /\ f.stream = d.stream
        /\ f.rid = d.rid /\ f.rname = d.rname /\ f.sname = d.sname /\ f.sid = d.sid
        /\ f.snode = d.snode
    BY DEF DbType, Recounted
  <2>2. e = LastDb(f, r)
    OBVIOUS
  <2> HIDE DEF f
  <2>3. e.rset = [f.rset EXCEPT ![r] = DeadEntry(f.rset[r])]
    <3> DEFINE x == [f.rset[r] EXCEPT !.dead = TRUE]
               R == [f.rset EXCEPT ![r].dead = TRUE]
    <3>1. R = [f.rset EXCEPT ![r] = x] /\ R[r] = x
      BY <1>1, <2>1 DEF DbType
    <3>2. e.rset = [R EXCEPT ![r].grant = {}]
      BY <2>1, <2>2 DEF DbType, LastDb
    <3>3. [x EXCEPT !.grant = {}] = DeadEntry(f.rset[r])
      BY DEF DeadEntry
    <3> HIDE DEF x, R
    <3> QED
      BY <1>1, <2>1, <3>1, <3>2, <3>3 DEF DbType
  <2>4. /\ e.nres = f.nres /\ e.stream = f.stream /\ e.rid = f.rid
        /\ e.rname = f.rname /\ e.sname = f.sname /\ e.sid = f.sid /\ e.snode = f.snode
        /\ e = [rset |-> e.rset, stream |-> e.stream, rid |-> e.rid, sid |-> e.sid,
                rname |-> e.rname, sname |-> e.sname, snode |-> e.snode, nres |-> e.nres]
    BY <2>1, <2>2 DEF DbType, LastDb
  <2> QED
    BY <2>1, <2>3, <2>4
<1> QED
  BY <1>2 DEF RsetSet, DbType

LEMMA RsetDeadGood ==
  ASSUME NEW d, Good(d), NEW r \in Rsets(d), NEW e, e = RsetDead(d, r)
  PROVE  Good(e)
<1> DEFINE s == Head(d.rset[r].streams)
           n == LessOne(d.nres, d.rset[r])
           last == LastDb(Recounted(d, n), r)
           left == RsetEntryFree(Unlinked(Recounted(d, n), r, s), r)
           c == Len(d.rset[r].streams) > 1 \/ Len(d.stream[s].rsets) = 1
<1>0. d \in DbType /\ r \in RsetObj /\ d.rset[r] \in RsetType
  BY Entries DEF Good
<1>1. e = IF d.rset[r].dead THEN d ELSE IF c THEN last ELSE left
  <2>1. Recounted(d, n) =
          [d EXCEPT !.nres = [t \in Type |-> IF t \in d.rset[r].type THEN @[t] - 1 ELSE @[t]]]
    BY <1>0 DEF Recounted, LessOne, DbType
  <2> QED
    BY <2>1 DEF RsetDead, LastDb
<1>2. CASE ~d.rset[r].dead /\ c
  <2>1. n \in [Type -> Nat]
    BY <1>2, CounterLess
  <2>2. last = RsetSet(d, r, DeadEntry(d.rset[r]), n)
    BY <1>0, <2>1, LastEntrySet
  <2> QED
    BY <1>1, <1>2, <2>2, RsetLastGood
<1>3. CASE ~d.rset[r].dead /\ ~c
  <2>1. e = left
    BY <1>1, <1>3
  <2>2. ~(Len(d.rset[r].streams) > 1) /\ ~(Len(d.stream[s].rsets) = 1)
    BY <1>3
  <2> QED
    BY <1>3, <2>1, <2>2, RsetLeavesGood
<1> QED
  BY <1>1, <1>2, <1>3

-----------------------------------------------------------------------------
(* pa_resource_stream_update and pa_resource_stream_remove.                *)

(* A stream gets a node, or loses it.                                      *)
NodeSet(d, s, m, n, v) == [d EXCEPT !.stream[s].node = m, !.snode[n] = v]

LEMMA NodeSetGood ==
  ASSUME NEW d, Good(d), NEW s \in Streams(d), NEW n \in Node,
         NEW m, NEW v, \/ m = n /\ v = s /\ d.stream[s].node = None /\ d.snode[n] = None
                       \/ m = None /\ v = None /\ d.snode[n] = s,
         NEW e, e = NodeSet(d, s, m, n, v)
  PROVE  /\ Good(e) /\ Rsets(e) = Rsets(d) /\ Streams(e) = Streams(d) /\ e.rset = d.rset
         /\ \A q \in Streams(d) : e.stream[q].rsets = d.stream[q].rsets
         /\ \A q \in Streams(d) : /\ e.stream[q].name = d.stream[q].name
                                  /\ e.stream[q].id = d.stream[q].id
                                  /\ e.stream[q].node = IF q = s THEN m ELSE d.stream[q].node
         /\ e.rid = d.rid /\ \A k \in Node : e.snode[k] = IF k = n THEN v ELSE d.snode[k]
<1>0. d \in DbType /\ Whole(d) /\ Partnered(d, {}, {}) /\ StreamsFaithful(d)
  BY GoodIsWhole DEF Whole, Faithful
<1> DEFINE x == [d.stream[s] EXCEPT !.node = m]
<1>1. /\ e.stream = [d.stream EXCEPT ![s] = x] /\ e.snode = [d.snode EXCEPT ![n] = v]
      /\ e.rset = d.rset /\ e.nres = d.nres /\ e.rid = d.rid
      /\ e.rname = d.rname /\ e.sname = d.sname /\ e.sid = d.sid
      /\ e = [rset |-> e.rset, stream |-> e.stream, rid |-> e.rid, sid |-> e.sid,
              rname |-> e.rname, sname |-> e.sname, snode |-> e.snode, nres |-> e.nres]
  BY <1>0 DEF DbType, NodeSet
<1>2. /\ s \in StreamObj /\ d.stream[s] \in StreamType /\ m \in Node \cup {None}
      /\ v \in StreamObj \cup {None}
  BY <1>0, Entries
<1>3. /\ x \in StreamType /\ x.name = d.stream[s].name /\ x.id = d.stream[s].id /\ x.node = m
      /\ x.rsets = d.stream[s].rsets
  BY <1>2 DEF StreamType
<1> HIDE DEF x
<1>4. e.stream[s] = x /\ \A q \in StreamObj : q # s => e.stream[q] = d.stream[q]
  BY <1>0, <1>1, <1>2 DEF DbType
<1>5. e \in DbType
  <2>1. /\ e.stream \in [StreamObj -> StreamType \cup {None}]
        /\ e.snode \in [Node -> StreamObj \cup {None}]
    BY <1>0, <1>1, <1>2, <1>3 DEF DbType
  <2> QED
    BY <1>0, <1>1, <2>1 DEF DbType
<1>6. Streams(e) = Streams(d) /\ Rsets(e) = Rsets(d)
  BY <1>1, <1>2, <1>3, <1>4, Constants DEF Streams, Rsets
<1>7. \A q \in Streams(d) : /\ e.stream[q].name = d.stream[q].name
                            /\ e.stream[q].id = d.stream[q].id
                            /\ e.stream[q].rsets = d.stream[q].rsets
                            /\ e.stream[q].node = IF q = s THEN m ELSE d.stream[q].node
  BY <1>0, <1>3, <1>4, Entries
<1>8. \A k \in Node : e.snode[k] = IF k = n THEN v ELSE d.snode[k]
  BY <1>0, <1>1 DEF DbType
<1>9. StreamsFaithful(e)
  <2>1. /\ \A k \in Id : e.sid[k] # None => e.sid[k] \in Streams(e) /\ e.stream[e.sid[k]].id = k
        /\ \A k \in Name \cup {Empty} :
             e.sname[k] # None => e.sname[k] \in Streams(e) /\ e.stream[e.sname[k]].name = k
    BY <1>0, <1>1, <1>6, <1>7 DEF StreamsFaithful
  <2>2. ASSUME NEW k \in Node, e.snode[k] # None
        PROVE  e.snode[k] \in Streams(e) /\ e.stream[e.snode[k]].node = k
    <3>1. CASE k = n
      BY <1>2, <1>6, <1>7, <1>8, <2>2, <3>1
    <3>2. CASE k # n
      <4>1. e.snode[k] = d.snode[k] /\ d.snode[k] \in Streams(d) /\ d.stream[d.snode[k]].node = k
        BY <1>0, <1>8, <2>2, <3>2 DEF StreamsFaithful
      <4>2. d.snode[k] # s
        <5>1. s # None /\ k # None
          BY <1>2, Constants
        <5>2. d.stream[s].node \in {None, n}
          BY <1>0, <5>1 DEF StreamsFaithful
        <5> QED
          BY <3>2, <4>1, <5>1, <5>2
      <4> QED
        BY <1>6, <1>7, <4>1, <4>2
    <3> QED
      BY <3>1, <3>2
  <2>3. ASSUME NEW q \in Streams(e), e.stream[q].node # None
        PROVE  e.snode[e.stream[q].node] = q
    <3>1. CASE q = s
      BY <1>6, <1>7, <1>8, <2>3, <3>1
    <3>2. CASE q # s
      <4>1. q \in Streams(d) /\ e.stream[q].node = d.stream[q].node
            /\ d.snode[d.stream[q].node] = q /\ d.stream[q].node \in Node
        BY <1>0, <1>6, <1>7, <2>3, <3>2, Entries DEF StreamsFaithful, StreamType
      <4>2. d.stream[q].node # n
        BY <2>3, <3>2, <4>1, Constants, <1>2, <1>0, Entries
      <4> QED
        BY <1>8, <4>1, <4>2
    <3> QED
      BY <3>1, <3>2
  <2> QED
    BY <2>1, <2>2, <2>3 DEF StreamsFaithful
<1>10. RsetsFaithful(e) /\ Counted(e)
  BY <1>0, <1>1, <1>5, SameRsets DEF Whole, Faithful
<1>11. LinksOk(e) /\ Partnered(e, {}, {})
  <2>1. /\ \A q \in Rsets(d) : e.rset[q].streams = d.rset[q].streams
        /\ \A q \in Streams(d) : e.stream[q].rsets = d.stream[q].rsets
    BY <1>1, <1>7
  <2> QED
    BY <1>0, <1>5, <1>6, <2>1, SameLinks DEF Whole
<1>12. Good(e)
  BY <1>5, <1>9, <1>10, <1>11, GoodIsWhole DEF Whole, Faithful
<1> QED
  BY <1>1, <1>6, <1>7, <1>8, <1>12

(* A stream is not found by its key any more.                              *)
Loosened(d, s, byId, id, name) ==
  [d EXCEPT !.sid = Drop(@, id), !.sname = Drop(@, name),
            !.stream = [o \in StreamObj |-> IF o = s THEN WithoutKey(@[o], byId) ELSE @[o]]]

LEMMA LoosenedWhole ==
  ASSUME NEW d, Whole(d), NEW S, Partnered(d, {}, S),
         NEW id \in IdOrNone, NEW name \in Name \cup {None},
         NEW s, s = IF id # None THEN d.sid[id] ELSE d.sname[name], id # None \/ name # None,
         NEW byId \in BOOLEAN, byId <=> id # None, NEW e, e = Loosened(d, s, byId, id, name)
  PROVE  /\ Whole(e) /\ Partnered(e, {}, S)
         /\ Rsets(e) = Rsets(d) /\ Streams(e) = Streams(d) /\ e.rset = d.rset
         /\ \A q \in Streams(d) : e.stream[q].rsets = d.stream[q].rsets
         /\ \A q \in Streams(d) : /\ e.stream[q].name \in {None, d.stream[q].name}
                                  /\ e.stream[q].id \in {None, d.stream[q].id}
                                  /\ e.stream[q].node = d.stream[q].node
         /\ e.rid = d.rid /\ e.snode = d.snode
<1>0. d \in DbType /\ StreamsFaithful(d)
  BY DEF Whole, Faithful
<1> DEFINE x == WithoutKey(d.stream[s], byId)
<1>1. /\ e.stream = [o \in StreamObj |-> IF o = s THEN x ELSE d.stream[o]]
      /\ e.sid = Drop(d.sid, id) /\ e.sname = Drop(d.sname, name) /\ e.snode = d.snode
      /\ e.rset = d.rset /\ e.nres = d.nres /\ e.rid = d.rid /\ e.rname = d.rname
      /\ e = [rset |-> e.rset, stream |-> e.stream, rid |-> e.rid, sid |-> e.sid,
              rname |-> e.rname, sname |-> e.sname, snode |-> e.snode, nres |-> e.nres]
  <2>1. e.stream = [o \in StreamObj |-> IF o = s THEN x ELSE d.stream[o]]
    BY <1>0 DEF DbType, Loosened
  <2>2. /\ e.sid = Drop(d.sid, id) /\ e.sname = Drop(d.sname, name) /\ e.snode = d.snode
        /\ e.rset = d.rset /\ e.nres = d.nres /\ e.rid = d.rid /\ e.rname = d.rname
    BY <1>0 DEF DbType, Loosened
  <2>3. e = [rset |-> e.rset, stream |-> e.stream, rid |-> e.rid, sid |-> e.sid,
             rname |-> e.rname, sname |-> e.sname, snode |-> e.snode, nres |-> e.nres]
    BY <1>0 DEF DbType, Loosened
  <2> QED
    BY <2>1, <2>2, <2>3
<1>2. /\ s # None => s \in Streams(d) /\ s \in StreamObj /\ d.stream[s] \in StreamType
      /\ s # None /\ id # None => d.stream[s].id = id
      /\ s # None /\ id = None => d.stream[s].name = name
  BY <1>0, Entries DEF StreamsFaithful, IdOrNone
<1>3. s # None =>
        /\ x \in StreamType /\ x.id = (IF id # None THEN None ELSE d.stream[s].id)
        /\ x.name = (IF id # None THEN d.stream[s].name ELSE None)
        /\ x.node = d.stream[s].node /\ x.rsets = d.stream[s].rsets
  BY <1>2 DEF StreamType, WithoutKey
<1> HIDE DEF x
<1>4. /\ s # None => e.stream[s] = x
      /\ \A q \in StreamObj : q # s => e.stream[q] = d.stream[q]
  BY <1>1, <1>2
<1>5. e \in DbType
  <2>1. e.stream \in [StreamObj -> StreamType \cup {None}]
    BY <1>0, <1>1, <1>3, Constants DEF DbType
  <2>2. /\ e.sid \in [Id -> StreamObj \cup {None}]
        /\ e.sname \in [Name \cup {Empty} -> StreamObj \cup {None}]
    BY <1>0, <1>1 DEF DbType, Drop, Put
  <2> QED
    BY <1>0, <1>1, <2>1, <2>2 DEF DbType
<1>6. Streams(e) = Streams(d) /\ Rsets(e) = Rsets(d)
  BY <1>1, <1>2, <1>3, <1>4, Constants DEF Streams, Rsets
<1>7. \A q \in Streams(d) :
        /\ e.stream[q].node = d.stream[q].node /\ e.stream[q].rsets = d.stream[q].rsets
        /\ e.stream[q].id = IF q = s /\ id # None THEN None ELSE d.stream[q].id
        /\ e.stream[q].name = IF q = s /\ id = None THEN None ELSE d.stream[q].name
  <2> TAKE q \in Streams(d)
  <2>1. q \in StreamObj /\ q # None
    BY <1>0, Entries, Constants
  <2>2. CASE q = s
    BY <1>3, <1>4, <2>1, <2>2
  <2>3. CASE q # s
    BY <1>4, <2>1, <2>3
  <2> QED
    BY <2>2, <2>3
<1>8. StreamsFaithful(e)
  <2>1. ASSUME NEW k \in Id, e.sid[k] # None
        PROVE  e.sid[k] \in Streams(e) /\ e.stream[e.sid[k]].id = k
    <3>1. e.sid[k] = d.sid[k] /\ k # id
      BY <1>0, <1>1, <2>1, Constants DEF DbType, Drop, Put
    <3>2. d.sid[k] \in Streams(d) /\ d.stream[d.sid[k]].id = k
      BY <1>0, <2>1, <3>1 DEF StreamsFaithful
    <3>3. ~(d.sid[k] = s /\ id # None)
      BY <1>2, <2>1, <3>1, <3>2
    <3> QED
      BY <1>6, <1>7, <3>1, <3>2, <3>3
  <2>2. ASSUME NEW k \in Name \cup {Empty}, e.sname[k] # None
        PROVE  e.sname[k] \in Streams(e) /\ e.stream[e.sname[k]].name = k
    <3>1. e.sname[k] = d.sname[k] /\ k # name
      BY <1>0, <1>1, <2>2, Constants DEF DbType, Drop, Put
    <3>2. d.sname[k] \in Streams(d) /\ d.stream[d.sname[k]].name = k
      BY <1>0, <2>2, <3>1 DEF StreamsFaithful
    <3>3. ~(d.sname[k] = s /\ id = None)
      BY <1>2, <2>2, <3>1, <3>2
    <3> QED
      BY <1>6, <1>7, <3>1, <3>2, <3>3
  <2>0. \A q \in Streams(d) : e.stream[q].node = d.stream[q].node
    BY <1>7
  <2>3. \A q \in Node : e.snode[q] # None =>
          e.snode[q] \in Streams(e) /\ e.stream[e.snode[q]].node = q
    <3>1. \A q \in Node : d.snode[q] # None =>
            d.snode[q] \in Streams(d) /\ d.stream[d.snode[q]].node = q
      BY <1>0 DEF StreamsFaithful
    <3> QED
      BY <1>1, <1>6, <2>0, <3>1
  <2>4. \A q \in Streams(e) : e.stream[q].node # None => e.snode[e.stream[q].node] = q
    <3>1. \A q \in Streams(d) : d.stream[q].node # None => d.snode[d.stream[q].node] = q
      BY <1>0 DEF StreamsFaithful
    <3> QED
      BY <1>1, <1>6, <2>0, <3>1
  <2> QED
    BY <2>1, <2>2, <2>3, <2>4 DEF StreamsFaithful
<1>9. RsetsFaithful(e) /\ Counted(e)
  BY <1>0, <1>1, <1>5, SameRsets DEF Whole, Faithful
<1>10. LinksOk(e) /\ Partnered(e, {}, S)
  <2>1. /\ \A q \in Rsets(d) : e.rset[q].streams = d.rset[q].streams
        /\ \A q \in Streams(d) : e.stream[q].rsets = d.stream[q].rsets
    BY <1>1, <1>7
  <2> QED
    BY <1>0, <1>5, <1>6, <2>1, SameLinks DEF Whole
<1> QED
  BY <1>1, <1>5, <1>6, <1>7, <1>8, <1>9, <1>10 DEF Whole, Faithful

LEMMA StreamFoundGood ==
  ASSUME NEW d, Good(d), Room(d), NEW n \in Node, NEW e, e = StreamFound(d, n)
  PROVE  Good(e)
<1> DEFINE k == KeyOf[n]
           name == IF k \in Name THEN k ELSE None
           id == IF k \in Id THEN k ELSE None
           s == IF k \in Id THEN d.sid[k] ELSE d.sname[k]
           r == IF k \in Id THEN d.rid[k] ELSE d.rname[k]
           new == NewStream(d)
           bare == StreamEntry(d, None, None, n)
           alone == Loosened(bare, s, k \in Id, id, name)
           node == NodeSet(d, s, n, n, s)
           joined == Linked(alone, r, new)
           failed == StreamEntryFailed(d, name, id)
           f == StreamEntry(d, name, id, n)
           g == RsetEntry(f, name, id)
           paired == Linked(g, NewRset(d), new)
<1>0. /\ d \in DbType /\ Whole(d) /\ Partnered(d, {}, {}) /\ Faithful(d)
      /\ Rsets(d) # RsetObj /\ Streams(d) # StreamObj
  BY GoodIsWhole DEF Whole, Room
<1>1. /\ k \in Name \cup Id /\ (k \in Id => k \notin Name)
      /\ name \in NameOrNone /\ id \in IdOrNone /\ name \in Name \cup {None}
      /\ (id # None \/ name # None) /\ (k \in Id <=> id # None)
      /\ None \in NameOrNone /\ None \in IdOrNone /\ k # None
  BY ResourceConfig, Constants DEF NameOrNone, IdOrNone
<1>2. e = IF d.snode[n] # None THEN d
          ELSE IF s # None /\ d.stream[s].node = None THEN node
          ELSE IF r # None THEN joined
          ELSE IF s # None THEN failed
          ELSE paired
  <2> DEFINE loose == [bare EXCEPT
                         !.sid = Drop(@, id), !.sname = Drop(@, name),
                         !.stream = [o \in StreamObj |->
                                       IF o = s THEN WithoutKey(@[o], k \in Id) ELSE @[o]]]
  <2>1. e = IF d.snode[n] # None THEN d
            ELSE IF s # None /\ d.stream[s].node = None
                 THEN [d EXCEPT !.stream[s].node = n, !.snode[n] = s]
            ELSE IF r # None THEN Linked(loose, r, new)
            ELSE IF s # None THEN failed
            ELSE paired
    BY DEF StreamFound
  <2>3. loose = alone
    BY DEF Loosened
  <2>4. node = [d EXCEPT !.stream[s].node = n, !.snode[n] = s]
    BY DEF NodeSet
  <2> HIDE DEF node, loose, alone, failed, paired
  <2> QED
    BY <2>1, <2>3, <2>4
<1>3. (s # None => s \in Streams(d)) /\ (r # None => r \in Rsets(d))
  BY <1>0, <1>1 DEF Faithful, RsetsFaithful, StreamsFaithful
<1>4. CASE d.snode[n] = None /\ s # None /\ d.stream[s].node = None /\ e = node
  <2> HIDE DEF s
  <2> QED
    BY <1>3, <1>4, NodeSetGood
<1>5. CASE d.snode[n] = None /\ r # None /\ e = joined
  <2>1. StreamAdded(d, bare, None, None, n, {})
    BY <1>0, <1>1, <1>5, StreamEntryWhole
  <2>2. s = IF id # None THEN bare.sid[id] ELSE bare.sname[name]
    <3>1. bare.sid = d.sid /\ bare.sname = d.sname
      BY <2>1 DEF StreamAdded, Put
    <3> QED
      BY <1>1, <3>1
  <2> HIDE DEF s, bare, name, id, new, r, k
  <2>3. /\ Whole(bare) /\ Partnered(bare, {}, {NewStream(d)}) /\ NewStream(d) \in Streams(bare)
        /\ Rsets(bare) = Rsets(d) /\ bare.rset = d.rset
        /\ NewStream(d) \notin Streams(d)
    BY <2>1 DEF StreamAdded
  <2>4. /\ Whole(alone) /\ Partnered(alone, {}, {NewStream(d)})
        /\ Rsets(alone) = Rsets(bare) /\ Streams(alone) = Streams(bare)
        /\ alone.rset = bare.rset
    <3> DEFINE byId == k \in Id
    <3>1. byId \in BOOLEAN /\ (byId <=> id # None)
      BY <1>1
    <3> HIDE DEF byId
    <3>2. alone = Loosened(bare, s, byId, id, name)
      BY DEF byId
    <3> HIDE DEF alone
    <3> QED
      BY <1>1, <2>2, <2>3, <3>1, <3>2, LoosenedWhole
  <2> HIDE DEF alone
  <2>5. NewStream(d) \notin ToSet(alone.rset[r].streams)
    <3>1. d.rset[r] \in RsetType
      BY <1>0, <1>3, <1>5, Entries
    <3>2. ToSet(d.rset[r].streams) \subseteq StreamObj
      BY <3>1, ElementsOfList DEF RsetType
    <3>3. ToSet(d.rset[r].streams) \subseteq Streams(d)
      BY <1>0, <1>3, <1>5, <3>2 DEF Whole, LinksOk
    <3> QED
      BY <2>3, <2>4, <3>3
  <2>6. Whole(e) /\ Partnered(e, {} \ {r}, {NewStream(d)} \ {NewStream(d)})
    BY <1>3, <1>5, <2>3, <2>4, <2>5, LinkedWhole DEF new
  <2> QED
    BY <2>6, GoodIsWhole, {} \ {r} = {}, {NewStream(d)} \ {NewStream(d)} = {}
<1>6. CASE e = failed
  <2>1. Whole(failed) /\ Partnered(failed, {}, {})
    BY <1>0, <1>1, StreamEntryFailedWhole
  <2> QED
    BY <1>6, <2>1, GoodIsWhole
<1>7. CASE d.snode[n] = None /\ e = paired
  <2>1. StreamAdded(d, f, name, id, n, {})
    BY <1>0, <1>1, <1>7, StreamEntryWhole
  <2>2. Whole(f) /\ Partnered(f, {}, {NewStream(d)}) /\ f.rset = d.rset /\ Rsets(f) = Rsets(d)
        /\ NewStream(d) \in Streams(f)
    BY <2>1 DEF StreamAdded
  <2>3. NewRset(f) = NewRset(d)
    BY <2>2 DEF NewRset
  <2> HIDE DEF f, name, id
  <2>4. RsetAdded(f, g, name, id, {NewStream(d)})
    BY <1>0, <1>1, <2>2, RsetEntryWhole
  <2> DEFINE q == NewRset(f)
  <2>5. /\ Whole(g) /\ Partnered(g, {q}, {NewStream(d)}) /\ q \in Rsets(g)
        /\ NewStream(d) \in Streams(g) /\ g.rset[q].streams = <<>>
    BY <2>2, <2>4 DEF RsetAdded, FreshRset
  <2> HIDE DEF g, q
  <2>6. Whole(e) /\ Partnered(e, {q} \ {q}, {NewStream(d)} \ {NewStream(d)})
    BY <1>7, <2>3, <2>5, EmptyList, LinkedWhole DEF q, new
  <2> QED
    BY <2>6, GoodIsWhole, {q} \ {q} = {}, {NewStream(d)} \ {NewStream(d)} = {}
<1> HIDE DEF node, joined, failed, paired, s, r
<1> QED
  BY <1>2, <1>4, <1>5, <1>6, <1>7

LEMMA StreamGoneGood ==
  ASSUME NEW d, Good(d), NEW n \in Node, NEW f, f = StreamGone(d, n)
  PROVE  Good(f)
<1> DEFINE s == d.snode[n]
           e == NodeSet(d, s, None, n, None)
           r == Head(d.stream[s].rsets)
           left == StreamEntryFree(Unlinked(e, r, s), s)
           both == RsetEntryFree(StreamEntryFree(e, s), r)
           shared == Len(d.stream[s].rsets) > 1
           busy == Len(d.rset[r].streams) > 1
<1>0. d \in DbType /\ Whole(d) /\ Partnered(d, {}, {}) /\ Faithful(d)
  BY GoodIsWhole DEF Whole
<1>1. f = IF s = None THEN d ELSE IF shared THEN e ELSE IF busy THEN left
          ELSE IF d.rset[r].dead THEN both ELSE e
  <2> DEFINE b == [d EXCEPT !.snode[n] = None, !.stream[s].node = None]
  <2>1. b = e
    BY <1>0 DEF NodeSet, DbType
  <2>2. f = IF s = None THEN d ELSE IF shared THEN b
            ELSE IF busy THEN StreamEntryFree(Unlinked(b, r, s), s)
            ELSE IF d.rset[r].dead THEN RsetEntryFree(StreamEntryFree(b, s), r) ELSE b
    BY DEF StreamGone
  <2> HIDE DEF b, e, s, r, shared, busy
  <2> QED
    BY <2>1, <2>2
<1>2. CASE s # None
  <2>1. s \in Streams(d)
    BY <1>0, <1>2 DEF Faithful, StreamsFaithful
  <2>2. /\ d.stream[s].rsets \in Seq(RsetObj) /\ d.stream[s].rsets # <<>>
    BY <1>0, <2>1, Entries DEF StreamType, Partnered
  <2>3. r \in ToSet(d.stream[s].rsets) /\ r \in RsetObj /\ (~shared => ToSet(d.stream[s].rsets) = {r})
    <3> DEFINE k == Len(d.stream[s].rsets)
    <3>1. /\ r \in ToSet(d.stream[s].rsets) /\ k \in Nat /\ k # 0
          /\ k = 1 => ToSet(d.stream[s].rsets) = {r}
      BY <2>2, FirstOfList
    <3>2. r \in RsetObj
      BY <2>2, <3>1, ElementsOfList
    <3>3. shared <=> k > 1
      OBVIOUS
    <3> HIDE DEF k, shared
    <3> QED
      BY <3>1, <3>2, <3>3
  <2>4. r \in Rsets(d) /\ s \in ToSet(d.rset[r].streams)
    BY <1>0, <2>1, <2>3 DEF Whole, LinksOk
  <2>5. ~busy => ToSet(d.rset[r].streams) = {s}
    <3>1. d.rset[r].streams \in Seq(StreamObj)
      BY <1>0, <2>4, Entries DEF RsetType
    <3>2. d.rset[r].streams # <<>>
      BY <2>4, EmptyList
    <3> DEFINE k == Len(d.rset[r].streams)
    <3>3. k \in Nat /\ k # 0 /\ (k = 1 => ToSet(d.rset[r].streams) = {Head(d.rset[r].streams)})
      BY <3>1, <3>2, FirstOfList
    <3>4. busy <=> k > 1
      OBVIOUS
    <3>5. Head(d.rset[r].streams) = s \/ k # 1
      BY <2>4, <3>3
    <3>6. k \in Nat /\ k # 0
      BY <3>3
    <3> HIDE DEF k, busy
    <3>7. ~busy => k = 1
      BY ONLY <3>4, <3>6
    <3> QED
      BY <3>3, <3>5, <3>7
  <2> HIDE DEF s, r, shared
  <2>6. /\ Good(e) /\ Rsets(e) = Rsets(d) /\ Streams(e) = Streams(d) /\ e.rset = d.rset
        /\ \A q \in Streams(d) : e.stream[q].rsets = d.stream[q].rsets
    <3>1. d.snode[n] = s
      BY DEF s
    <3> QED
      BY <2>1, <3>1, NodeSetGood
  <2> HIDE DEF e
  <2>7. CASE ~shared /\ busy
    <3> DEFINE u == Unlinked(e, r, s)
    <3>1. Whole(e) /\ Partnered(e, {}, {})
      BY <2>6, GoodIsWhole
    <3>2. UnlinkedFrom(e, u, r, s)
      BY <2>1, <2>4, <2>6, <3>1, UnlinkedWhole
    <3>3. /\ Whole(u) /\ Rsets(u) = Rsets(e) /\ Streams(u) = Streams(e)
          /\ ToSet(u.stream[s].rsets) = ToSet(e.stream[s].rsets) \ {r}
          /\ (Len(e.rset[r].streams) > 1 => u.rset[r].streams # <<>>)
          /\ \A q \in Rsets(e) : q # r => u.rset[q] = e.rset[q]
          /\ \A q \in Streams(e) : q # s => u.stream[q] = e.stream[q]
      BY <3>2 DEF UnlinkedFrom
    <3>4. ToSet(u.stream[s].rsets) = {}
      BY <2>1, <2>3, <2>6, <2>7, <3>3
    <3>5. u.rset[r].streams # <<>>
      BY <2>6, <2>7, <3>3
    <3> HIDE DEF u, busy
    <3>6. f = StreamEntryFree(u, s)
      BY <1>1, <1>2, <2>7 DEF u
    <3>7. /\ Whole(f) /\ Rsets(f) = Rsets(u) /\ Streams(f) = Streams(u) \ {s}
          /\ f.rset = u.rset /\ \A q \in Streams(f) : f.stream[q] = u.stream[q]
      BY <2>1, <2>6, <3>3, <3>4, <3>6, StreamEntryFreeWhole
    <3>8. Partnered(f, {}, {})
      <4>1. \A q \in Rsets(f) : f.rset[q].streams # <<>>
        BY <3>1, <3>3, <3>5, <3>7 DEF Partnered
      <4>2. \A q \in Streams(f) : f.stream[q].rsets # <<>>
        BY <3>1, <3>3, <3>7 DEF Partnered
      <4> QED
        BY <4>1, <4>2 DEF Partnered
    <3> QED
      BY <3>7, <3>8, GoodIsWhole
  <2>8. CASE ~shared /\ ~busy /\ d.rset[r].dead
    <3>1. ToSet(e.rset[r].streams) = {s} /\ ToSet(e.stream[s].rsets) = {r} /\ e.rset[r].dead
      BY <2>1, <2>3, <2>5, <2>6, <2>8
    <3> HIDE DEF busy
    <3>2. f = RsetEntryFree(StreamEntryFree(e, s), r)
      BY <1>1, <1>2, <2>8
    <3> QED
      BY <2>1, <2>4, <2>6, <3>1, <3>2, PairFreed
  <2> HIDE DEF busy
  <2> QED
    BY <1>1, <1>2, <2>6, <2>7, <2>8
<1> HIDE DEF s
<1> QED
  BY <1>1, <1>2

-----------------------------------------------------------------------------
(* A notification makes every entry stale before its rows are processed.   *)

StaleEntry(entry) == [entry EXCEPT !.updated = FALSE]
Stale(d) ==
  [d EXCEPT !.rset = [o \in RsetObj |-> IF @[o] = None THEN None ELSE StaleEntry(@[o])]]

LEMMA StaleFields ==
  ASSUME NEW entry \in RsetType, NEW x, x = StaleEntry(entry)
  PROVE  /\ x \in RsetType /\ x.name = entry.name /\ x.id = entry.id
         /\ x.streams = entry.streams /\ x.type = entry.type /\ x.dead = entry.dead
<1>1. x \in RsetType
  BY DEF StaleEntry, RsetType
<1>2. x.name = entry.name /\ x.id = entry.id
  BY DEF StaleEntry, RsetType
<1>3. x.streams = entry.streams /\ x.type = entry.type
  BY DEF StaleEntry, RsetType
<1>4. x.dead = entry.dead
  BY DEF StaleEntry, RsetType
<1> QED
  BY <1>1, <1>2, <1>3, <1>4

LEMMA StaleGood ==
  ASSUME NEW d, Good(d), NEW e, e = Stale(d)
  PROVE  /\ Good(e) /\ Rsets(e) = Rsets(d) /\ e.stream = d.stream
         /\ e.rid = d.rid /\ e.snode = d.snode
         /\ \A q \in Rsets(d) : e.rset[q] = StaleEntry(d.rset[q])
<1>0. d \in DbType /\ Whole(d) /\ Partnered(d, {}, {}) /\ Faithful(d)
  BY GoodIsWhole DEF Whole
<1>1. /\ e.rset = [o \in RsetObj |-> IF d.rset[o] = None THEN None ELSE StaleEntry(d.rset[o])]
      /\ e.stream = d.stream /\ e.nres = d.nres /\ e.rid = d.rid
      /\ e.rname = d.rname /\ e.sname = d.sname /\ e.sid = d.sid /\ e.snode = d.snode
      /\ e = [rset |-> e.rset, stream |-> e.stream, rid |-> e.rid, sid |-> e.sid,
              rname |-> e.rname, sname |-> e.sname, snode |-> e.snode, nres |-> e.nres]
  BY <1>0 DEF DbType, Stale
<1>2. ASSUME NEW o \in RsetObj
      PROVE  IF d.rset[o] = None THEN e.rset[o] = None
             ELSE /\ e.rset[o] \in RsetType
                  /\ e.rset[o].name = d.rset[o].name /\ e.rset[o].id = d.rset[o].id
                  /\ e.rset[o].streams = d.rset[o].streams /\ e.rset[o].type = d.rset[o].type
                  /\ e.rset[o].dead = d.rset[o].dead
  <2>1. CASE d.rset[o] = None
    BY <1>1, <2>1
  <2>2. CASE d.rset[o] # None
    <3>1. d.rset[o] \in RsetType /\ e.rset[o] = StaleEntry(d.rset[o])
      BY <1>0, <1>1, <2>2 DEF DbType
    <3> QED
      BY <2>2, <3>1, StaleFields
  <2> QED
    BY <2>1, <2>2
<1>3. e \in DbType
  <2>1. e.rset \in [RsetObj -> RsetType \cup {None}]
    <3>1. e.rset = [o \in RsetObj |-> e.rset[o]]
      BY <1>1
    <3> QED
      BY <1>2, <3>1
  <2> QED
    BY <1>0, <1>1, <2>1 DEF DbType
<1>4. Rsets(e) = Rsets(d) /\ Streams(e) = Streams(d) /\ StreamsFaithful(e)
  <2>1. \A o \in RsetObj : e.rset[o] = None <=> d.rset[o] = None
    BY <1>2, Constants
  <2> QED
    BY <1>0, <1>1, <1>3, <2>1, SameStreams DEF Rsets, Faithful
<1>5. \A q \in Rsets(d) : /\ e.rset[q].name = d.rset[q].name /\ e.rset[q].id = d.rset[q].id
                          /\ e.rset[q].streams = d.rset[q].streams
                          /\ e.rset[q].type = d.rset[q].type /\ e.rset[q].dead = d.rset[q].dead
  BY <1>0, <1>2, Entries
<1>6. Faithful(e) /\ Counted(e)
  <2>1. /\ \A q \in Rsets(d) : /\ e.rset[q].name = d.rset[q].name /\ e.rset[q].id = d.rset[q].id
                               /\ e.rset[q].type = d.rset[q].type /\ e.rset[q].dead = d.rset[q].dead
        /\ \A q \in Streams(d) : /\ e.stream[q].name = d.stream[q].name
                                 /\ e.stream[q].id = d.stream[q].id
                                 /\ e.stream[q].node = d.stream[q].node
    BY <1>1, <1>5
  <2> QED
    BY <1>0, <1>1, <1>3, <1>4, <2>1, SameKeys DEF Whole
<1>7. LinksOk(e) /\ Partnered(e, {}, {})
  <2>1. /\ \A q \in Rsets(d) : e.rset[q].streams = d.rset[q].streams
        /\ \A q \in Streams(d) : e.stream[q].rsets = d.stream[q].rsets
    BY <1>1, <1>5
  <2> QED
    BY <1>0, <1>3, <1>4, <2>1, SameLinks DEF Whole
<1>8. \A q \in Rsets(d) : e.rset[q] = StaleEntry(d.rset[q])
  BY <1>0, <1>1, Entries
<1> QED
  BY <1>1, <1>3, <1>4, <1>6, <1>7, <1>8, GoodIsWhole DEF Whole

-----------------------------------------------------------------------------
(* The inductive invariant: between any two steps, those inside a          *)
(* notification included, the entries are good.  LinksMutual,              *)
(* HashesFaithful and CountersRight are not inductive each on its own: an  *)
(* entry is found through the hash maps before it is linked, and the       *)
(* counter of a dead entry goes down with the links that are cut.          *)
Others ==
  /\ nodes \subseteq Node /\ req \in [Node -> {"none", "RUN", "BLOCK", "KILL"}]
  /\ table \in [Type -> SUBSET Row] /\ todo \subseteq Row /\ kind \in Type
  /\ phase \in {"idle", "rows", "purge"} /\ gone \subseteq Id

IInv == Good(db) /\ Others

LEMMA InitGood == ASSUME NEW d, d = InitDb PROVE Good(d)
<1>1. d \in DbType
  BY DEF InitDb, DbType
<1>2. Rsets(d) = {} /\ Streams(d) = {}
  BY DEF InitDb, Rsets, Streams
<1>3. Mutual(d) /\ Faithful(d)
  BY <1>2, Constants DEF Mutual, Faithful, RsetsFaithful, StreamsFaithful, InitDb
<1>4. Counted(d)
  <2>1. \A t \in Type : d.nres[t] = 0
    BY DEF InitDb
  <2>2. \A t \in Type : Alive(d, t) = {}
    BY <1>2 DEF Alive
  <2> QED
    BY <2>1, <2>2, FS_EmptySet DEF Counted
<1> QED
  BY <1>1, <1>3, <1>4 DEF Good

LEMMA EnforcedType ==
  ASSUME NEW d, NEW t \in Type, req \in [Node -> {"none", "RUN", "BLOCK", "KILL"}]
  PROVE  Enforced(d, t) \in [Node -> {"none", "RUN", "BLOCK", "KILL"}]
<1>1. \A n \in Node : Request(d, n, t) \in {"RUN", "BLOCK", "KILL"}
  BY DEF Request
<1> QED
  BY <1>1 DEF Enforced

LEMMA Inductive == ASSUME IInv, [Next]_vars PROVE IInv'
<1> USE DEF IInv
<1>1. ASSUME NEW t \in Type, NEW rows \in Tables[t], Notification(t, rows) PROVE IInv'
  <2>1. db' = Stale(db)
    BY <1>1 DEF Notification, Stale, StaleEntry
  <2>2. Good(db')
    BY <2>1, StaleGood
  <2>3. rows \subseteq Row
    BY ResourceConfig
  <2>4. Ids(table[t]) \subseteq Id
    BY RowFields DEF Ids, Others
  <2> QED
    BY <1>1, <2>2, <2>3, <2>4 DEF Notification, Others
<1>2. ASSUME NEW row \in todo, RsetUpdate(row) PROVE IInv'
  <2>1. Good(db')
    BY <1>2, RsetUpdatedGood DEF RsetUpdate, Others
  <2> QED
    BY <1>2, <2>1 DEF RsetUpdate, Others
<1>3. CASE RowsDone
  BY <1>3 DEF RowsDone, Others
<1>4. ASSUME NEW r \in RsetObj, Purge(r) PROVE IInv'
  <2>1. r \in Rsets(db)
    BY <1>4 DEF Purge, Purgeable
  <2>2. Good(db')
    BY <1>4, <2>1, RsetDeadGood DEF Purge
  <2> QED
    BY <1>4, <2>2 DEF Purge, Others
<1>5. CASE PurgeDone
  <2>1. req' \in [Node -> {"none", "RUN", "BLOCK", "KILL"}]
    BY <1>5, EnforcedType DEF PurgeDone, Others
  <2> QED
    BY <1>5, <2>1 DEF PurgeDone, Others
<1>6. ASSUME NEW n \in Node, AddNode(n) PROVE IInv'
  <2>1. Good(db')
    BY <1>6, StreamFoundGood DEF AddNode
  <2>2. req' \in [Node -> {"none", "RUN", "BLOCK", "KILL"}]
    <3>1. TypeOfNode[n] \in Type
      BY ResourceConfig
    <3> QED
      BY <1>6, <3>1, EnforcedType DEF AddNode, Others
  <2> QED
    BY <1>6, <2>1, <2>2 DEF AddNode, Others
<1>7. ASSUME NEW n \in Node, DeleteNode(n) PROVE IInv'
  <2>1. Good(db')
    BY <1>7, StreamGoneGood DEF DeleteNode
  <2> QED
    BY <1>7, <2>1 DEF DeleteNode, Others
<1>8. CASE UNCHANGED vars
  BY <1>8 DEF vars, Others
<1> QED
  BY <1>1, <1>2, <1>3, <1>4, <1>5, <1>6, <1>7, <1>8 DEF Next

LEMMA Invariant == Spec => []IInv
<1>1. Init => IInv
  <2> SUFFICES ASSUME Init PROVE IInv
    OBVIOUS
  <2>1. Good(db)
    BY InitGood DEF Init
  <2> QED
    BY <2>1 DEF Init, IInv, Others
<1> QED
  BY <1>1, Inductive, PTL DEF Spec

(* Whatever tables Murphy sends and whatever streams come and go, the      *)
(* entries, their lists and the hash maps hold what resource.c declares,   *)
(* and the counters of the resource types never become negative.           *)
THEOREM TypeCorrect == Spec => []TypeOK
<1>1. IInv => TypeOK
  BY DEF IInv, Others, Good, DbType, TypeOK
<1> QED
  BY <1>1, Invariant, PTL

(* rset_entry_new and stream_entry_new, the links made and cut by          *)
(* pa_resource_rset_update, pa_resource_stream_update and their inverses:  *)
(* no entry ever lists a partner that was freed, that does not list it     *)
(* back, or twice, and none is left without a partner, so rsets[0] and     *)
(* streams[0] are always there to be read.                                 *)
THEOREM LinksStayMutual == Spec => []LinksMutual
<1>1. IInv => LinksMutual
  BY DEF IInv, Good, Mutual, LinksMutual
<1> QED
  BY <1>1, Invariant, PTL

(* The six hash maps of resource.c never lead to an entry that was freed   *)
(* or that has another key by now, and a stream with a node is found by    *)
(* it: although duplicates are refused, names are taken away from shared   *)
(* entries and incomplete entries are completed in either order.           *)
THEOREM HashesStayFaithful == Spec => []HashesFaithful
<1>1. IInv => HashesFaithful
  <2> SUFFICES ASSUME IInv PROVE HashesFaithful
    OBVIOUS
  <2>1. DOMAIN db.rname = Name \cup {Empty} /\ DOMAIN db.sname = Name \cup {Empty}
    BY DEF IInv, Good, DbType
  <2> QED
    BY <2>1 DEF IInv, Good, Faithful, RsetsFaithful, StreamsFaithful, HashesFaithful
<1> QED
  BY <1>1, Invariant, PTL

(* rsets.nres counts every rset of a type once from the update that gives  *)
(* it the type until it dies, by rset_entry_is_dead, whether it is kept    *)
(* for its stream or freed at once.                                        *)
THEOREM CountersStayRight == Spec => []CountersRight
<1>1. IInv => CountersRight
  BY DEF IInv, Good, Counted, Alive, CountersRight
<1> QED
  BY <1>1, Invariant, PTL
-----------------------------------------------------------------------------
(* Grants.  What follows is about tables whose rows keep their names       *)
(* (NamesSteady) and name the rsets of numbered streams apart              *)
(* (NumberedAlone): under these a stream is linked only to rsets whose     *)
(* rows it may be controlled by.  Both are hypotheses of the lemmas that   *)
(* need them.                                                              *)

(* Murphy sends rows with this id and name.                                *)
Named(id, name) == \E row \in Sent : row.id = id /\ row.name = name

Wanted == {KeyOf[n] : n \in Node}

(* The keys by which streams found the entry, or may still find it.        *)
KeysOf(y) == ({y.name, y.id} \cap Wanted) \cup {KeyOf[n] : n \in {y.node} \ {None}}

Serves(x, k) == IF x.id # None THEN k = x.id \/ Named(x.id, k) ELSE k = x.name
ServesAll(x, y) == \A k \in KeysOf(y) : Serves(x, k)

RsetKin(x) ==
  /\ x.id # None /\ x.name # None => Named(x.id, x.name)
  /\ x.data # None => x.id # None /\ Named(x.id, x.data)
  /\ \A t \in Type : t \in x.grant \/ x.policy[t] = "relaxed" => t \in x.type
  /\ x.type # {} => x.id # None
  /\ x.dead => x.grant = {}

StreamKin(y) ==
  /\ y.name # None /\ y.id # None => Named(y.id, y.name)
  /\ y.node # None =>
       /\ y.name # None => KeyOf[y.node] = y.name \/ Named(KeyOf[y.node], y.name)
       /\ y.id # None => KeyOf[y.node] = y.id \/ Named(y.id, KeyOf[y.node])

(* Entries, keys and links belong together; and an rset with an id is      *)
(* found by it.                                                            *)
Kin(d) ==
  /\ \A r \in Rsets(d) : RsetKin(d.rset[r])
  /\ \A r \in Rsets(d) : d.rset[r].id # None => d.rid[d.rset[r].id] = r
  /\ \A s \in Streams(d) : StreamKin(d.stream[s])
  /\ \A s \in Streams(d), r \in Rsets(d) :
       r \in ToSet(d.stream[s].rsets) => ServesAll(d.rset[r], d.stream[s])

(* No grant appears from nowhere: what the dead are still granted is       *)
(* followed by DeadKept.                                                   *)
Powerless(x) == x.dead \/ (x.grant = {} /\ \A t \in Type : x.policy[t] # "relaxed")
SamePower(x, y) ==
  /\ x.id = y.id /\ x.type = y.type /\ x.updated = y.updated /\ x.dead = y.dead
  /\ x.policy = y.policy /\ x.grant = y.grant
PowersKept(d, e) ==
  \A r \in Rsets(e) :
    Powerless(e.rset[r]) \/ (r \in Rsets(d) /\ SamePower(e.rset[r], d.rset[r]))

(* The dead stay with their streams, and streams with their nodes, except  *)
(* for the streams in S.                                                   *)
DeadKept(d, e, S) ==
  /\ \A r \in Rsets(d) : d.rset[r].dead =>
       \A s \in ToSet(d.rset[r].streams) \ S :
         /\ r \in Rsets(e) /\ e.rset[r].dead /\ e.rset[r].policy = d.rset[r].policy
         /\ s \in ToSet(e.rset[r].streams)
  /\ \A n \in Node : d.snode[n] # None /\ d.snode[n] \notin S => e.snode[n] = d.snode[n]

Carried(d, e, S) == PowersKept(d, e) /\ DeadKept(d, e, S)

LEMMA SamePowerAs ==
  /\ \A x : SamePower(x, x)
  /\ \A x, y : SamePower(x, y) /\ Powerless(y) => Powerless(x)
  /\ \A x, y, z : SamePower(x, y) /\ SamePower(y, z) => SamePower(x, z)
BY DEF SamePower, Powerless

LEMMA CarriedOn ==
  ASSUME NEW d, NEW e, NEW f, NEW S, NEW T, Carried(d, e, S), Carried(e, f, T)
  PROVE  Carried(d, f, S \cup T)
<1>1. PowersKept(d, f)
  <2> SUFFICES ASSUME NEW r \in Rsets(f)
               PROVE  Powerless(f.rset[r]) \/ (r \in Rsets(d) /\ SamePower(f.rset[r], d.rset[r]))
    BY DEF PowersKept
  <2>1. Powerless(f.rset[r]) \/ (r \in Rsets(e) /\ SamePower(f.rset[r], e.rset[r]))
    BY DEF Carried, PowersKept
  <2>2. r \in Rsets(e) => Powerless(e.rset[r]) \/ (r \in Rsets(d) /\ SamePower(e.rset[r], d.rset[r]))
    BY DEF Carried, PowersKept
  <2> QED
    BY <2>1, <2>2 DEF SamePower, Powerless
<1>2. DeadKept(d, f, S \cup T)
  BY DEF Carried, DeadKept
<1> QED
  BY <1>1, <1>2 DEF Carried

LEMMA CarriedSame ==
  ASSUME NEW d, NEW e, e.rset = d.rset, e.stream = d.stream, e.rid = d.rid, e.snode = d.snode
  PROVE  (Kin(d) => Kin(e)) /\ Carried(d, e, {})
<1>1. Rsets(e) = Rsets(d) /\ Streams(e) = Streams(d)
  BY DEF Rsets, Streams
<1> QED
  BY <1>1, SamePowerAs DEF Kin, Carried, PowersKept, DeadKept

LEMMA NoneIsNoKey == None \notin Wanted /\ Empty \notin Wanted /\ None \notin Node
BY ResourceConfig DEF Wanted

(* A new rset entry.                                                       *)
LEMMA RsetEntryKin ==
  ASSUME NEW d, Kin(d), d \in DbType, NEW name \in NameOrNone, NEW id \in IdOrNone, NEW S,
         id # None => d.rid[id] = None, id # None /\ name # None => Named(id, name),
         NEW e, RsetAdded(d, e, name, id, S)
  PROVE  Kin(e) /\ Carried(d, e, {})
<1> DEFINE r == NewRset(d)
<1>1. /\ r \in RsetObj /\ r \notin Rsets(d) /\ r # None
      /\ Rsets(e) = Rsets(d) \cup {r} /\ Streams(e) = Streams(d)
      /\ e.rset[r] = FreshRset(name, id) /\ \A q \in Rsets(d) : e.rset[q] = d.rset[q]
      /\ e.stream = d.stream /\ e.rid = Put(d.rid, id, r) /\ e.snode = d.snode
      /\ LinksOk(e)
  BY Constants DEF RsetAdded, Whole
<1>2. RsetKin(FreshRset(name, id)) /\ Powerless(FreshRset(name, id))
      /\ FreshRset(name, id).id = id /\ FreshRset(name, id).streams = <<>>
  BY DEF RsetKin, Powerless, FreshRset
<1> HIDE DEF r
<1>3. \A q \in Rsets(e) : e.rset[q].id # None => e.rid[e.rset[q].id] = q
  <2>1. \A q \in Rsets(d) : d.rset[q].id # None =>
          d.rset[q].id \in Id /\ d.rid[d.rset[q].id] = q /\ q # None
    BY Entries, Constants DEF Kin, RsetType
  <2>2. \A k \in Id : e.rid[k] = IF k = id THEN r ELSE d.rid[k]
    BY <1>1, Constants DEF Put, DbType
  <2> QED
    BY <1>1, <1>2, <2>1, <2>2 DEF IdOrNone
<1>4. \A s \in Streams(e) : r \notin ToSet(e.stream[s].rsets)
  BY <1>1, <1>2, EmptyList DEF LinksOk
<1>5. Kin(e)
  BY <1>1, <1>2, <1>3, <1>4 DEF Kin
<1>6. \A q \in Rsets(d) : SamePower(e.rset[q], d.rset[q])
  BY <1>1 DEF SamePower
<1>7. PowersKept(d, e)
  BY <1>1, <1>2, <1>6 DEF PowersKept
<1>8. DeadKept(d, e, {})
  BY <1>1 DEF DeadKept
<1> QED
  BY <1>5, <1>7, <1>8 DEF Carried

(* A new stream entry.                                                     *)
LEMMA StreamEntryKin ==
  ASSUME NEW d, Kin(d), d \in DbType, NEW name \in NameOrNone, NEW id \in IdOrNone, NEW R,
         NEW n \in Node \cup {None}, n # None => d.snode[n] = None,
         id # None /\ name # None => Named(id, name),
         n # None /\ name # None => KeyOf[n] = name,
         n # None /\ id # None => KeyOf[n] = id,
         NEW e, StreamAdded(d, e, name, id, n, R)
  PROVE  Kin(e) /\ Carried(d, e, {})
<1> DEFINE s == NewStream(d)
<1>1. /\ s \in StreamObj /\ s \notin Streams(d) /\ s # None
      /\ Streams(e) = Streams(d) \cup {s} /\ Rsets(e) = Rsets(d)
      /\ e.stream[s] = FreshStream(name, id, n) /\ \A q \in Streams(d) : e.stream[q] = d.stream[q]
      /\ e.rset = d.rset /\ e.rid = d.rid /\ e.snode = Put(d.snode, n, s)
  BY Constants DEF StreamAdded
<1>2. StreamKin(FreshStream(name, id, n)) /\ FreshStream(name, id, n).rsets = <<>>
  BY DEF StreamKin, FreshStream
<1> HIDE DEF s
<1>3. \A k \in Node : d.snode[k] # None => e.snode[k] = d.snode[k]
  BY <1>1 DEF Put, DbType
<1>4. Kin(e)
  BY <1>1, <1>2, EmptyList DEF Kin
<1>5. Carried(d, e, {})
  BY <1>1, <1>3, SamePowerAs DEF Carried, PowersKept, DeadKept
<1> QED
  BY <1>4, <1>5

(* Entries that lose keys and links, and entries that go.                  *)
Fades(d, e) ==
  /\ Rsets(e) \subseteq Rsets(d) /\ Streams(e) \subseteq Streams(d)
  /\ \A r \in Rsets(e) :
       /\ e.rset[r].id = d.rset[r].id /\ e.rset[r].data = d.rset[r].data
       /\ e.rset[r].type = d.rset[r].type /\ e.rset[r].dead = d.rset[r].dead
       /\ e.rset[r].policy = d.rset[r].policy /\ e.rset[r].grant = d.rset[r].grant
       /\ \/ e.rset[r].name = d.rset[r].name
          \/ e.rset[r].name = None /\ d.rset[r].id # None
       /\ e.rset[r].id # None => e.rid[e.rset[r].id] = d.rid[d.rset[r].id]
  /\ \A s \in Streams(e) :
       /\ e.stream[s].name \in {None, d.stream[s].name}
       /\ e.stream[s].id \in {None, d.stream[s].id}
       /\ e.stream[s].node \in {None, d.stream[s].node}
       /\ ToSet(e.stream[s].rsets) \subseteq ToSet(d.stream[s].rsets)

LEMMA FadesKin ==
  ASSUME NEW d, NEW e, Kin(d), Fades(d, e)
  PROVE  /\ Kin(e)
         /\ (\A r \in Rsets(e) : e.rset[r].updated = d.rset[r].updated) => PowersKept(d, e)
<1>1. \A r \in Rsets(e) : RsetKin(e.rset[r])
  <2> SUFFICES ASSUME NEW r \in Rsets(e) PROVE RsetKin(e.rset[r])
    OBVIOUS
  <2>1. r \in Rsets(d) /\ RsetKin(d.rset[r])
    BY DEF Kin, Fades
  <2> QED
    BY <2>1 DEF RsetKin, Fades
<1>2. \A s \in Streams(e) : StreamKin(e.stream[s]) /\ KeysOf(e.stream[s]) \subseteq KeysOf(d.stream[s])
  <2> SUFFICES ASSUME NEW s \in Streams(e)
               PROVE  StreamKin(e.stream[s]) /\ KeysOf(e.stream[s]) \subseteq KeysOf(d.stream[s])
    OBVIOUS
  <2>1. s \in Streams(d) /\ StreamKin(d.stream[s])
    BY DEF Kin, Fades
  <2>2. StreamKin(e.stream[s])
    BY <2>1 DEF StreamKin, Fades
  <2>3. KeysOf(e.stream[s]) \subseteq KeysOf(d.stream[s])
    BY <2>1, NoneIsNoKey DEF KeysOf, Fades
  <2> QED
    BY <2>2, <2>3
<1>3. \A r \in Rsets(e) : \A k : Serves(d.rset[r], k) => Serves(e.rset[r], k)
  BY DEF Serves, Fades
<1>4. \A s \in Streams(e), r \in Rsets(e) :
        r \in ToSet(e.stream[s].rsets) => ServesAll(e.rset[r], e.stream[s])
  <2> SUFFICES ASSUME NEW s \in Streams(e), NEW r \in Rsets(e), r \in ToSet(e.stream[s].rsets)
               PROVE  ServesAll(e.rset[r], e.stream[s])
    OBVIOUS
  <2>1. ServesAll(d.rset[r], d.stream[s])
    BY DEF Kin, Fades
  <2> QED
    BY <1>2, <1>3, <2>1 DEF ServesAll
<1>5. \A r \in Rsets(e) : e.rset[r].id # None => e.rid[e.rset[r].id] = r
  BY DEF Kin, Fades
<1>6. (\A r \in Rsets(e) : e.rset[r].updated = d.rset[r].updated) => PowersKept(d, e)
  BY DEF PowersKept, SamePower, Fades
<1> QED
  BY <1>1, <1>2, <1>4, <1>5, <1>6 DEF Kin

(* Only the links differ, or what is said of the entry's power too.        *)
SameRset(x, y) == x.name = y.name /\ x.data = y.data /\ SamePower(x, y)

LEMMA SameRsetServes ==
  ASSUME NEW x, NEW y, SameRset(x, y)
  PROVE  /\ RsetKin(y) => RsetKin(x)
         /\ \A k : Serves(y, k) => Serves(x, k)
BY DEF SameRset, SamePower, RsetKin, Serves

LEMMA WithStreams ==
  ASSUME NEW x \in RsetType, NEW v, NEW y, y = [x EXCEPT !.streams = v]
  PROVE  SameRset(y, x) /\ y.streams = v
<1>1. y.name = x.name /\ y.id = x.id /\ y.data = x.data /\ y.type = x.type /\ y.streams = v
  BY DEF RsetType
<1>2. y.policy = x.policy /\ y.grant = x.grant
  BY DEF RsetType
<1>3. y.updated = x.updated
  BY DEF RsetType
<1>4. y.dead = x.dead
  BY DEF RsetType
<1> QED
  BY <1>1, <1>2, <1>3, <1>4 DEF SameRset, SamePower

LEMMA LinkedKin ==
  ASSUME NEW d, Whole(d), Kin(d), NEW r \in Rsets(d), NEW s \in Streams(d),
         ServesAll(d.rset[r], d.stream[s]), NEW e, e = Linked(d, r, s),
         Rsets(e) = Rsets(d), Streams(e) = Streams(d)
  PROVE  Kin(e) /\ Carried(d, e, {})
<1>1. /\ e.rset = [d.rset EXCEPT ![r].streams = Append(d.rset[r].streams, s)]
      /\ e.stream = [d.stream EXCEPT ![s].rsets = Append(d.stream[s].rsets, r)]
      /\ e.rid = d.rid /\ e.snode = d.snode
  BY LinkedFields DEF Whole
<1>2. /\ d \in DbType /\ r \in RsetObj /\ s \in StreamObj
      /\ d.rset[r] \in RsetType /\ d.stream[s] \in StreamType
      /\ Rsets(d) \subseteq RsetObj /\ Streams(d) \subseteq StreamObj
  BY Entries DEF Whole
<1>3. /\ e.rset[r] = [d.rset[r] EXCEPT !.streams = Append(d.rset[r].streams, s)]
      /\ \A q \in RsetObj : q # r => e.rset[q] = d.rset[q]
      /\ e.stream[s] = [d.stream[s] EXCEPT !.rsets = Append(d.stream[s].rsets, r)]
      /\ \A q \in StreamObj : q # s => e.stream[q] = d.stream[q]
  BY <1>1, <1>2 DEF DbType
<1>4. /\ \A q \in Rsets(d) : SameRset(e.rset[q], d.rset[q])
      /\ e.rset[r].streams = Append(d.rset[r].streams, s)
  <2>1. SameRset(e.rset[r], d.rset[r]) /\ e.rset[r].streams = Append(d.rset[r].streams, s)
    <3> DEFINE x == d.rset[r]
               v == Append(d.rset[r].streams, s)
    <3>1. e.rset[r] = [x EXCEPT !.streams = v] /\ x \in RsetType
      BY <1>2, <1>3
    <3> HIDE DEF x, v
    <3>2. SameRset(e.rset[r], x) /\ e.rset[r].streams = v
      BY <3>1, WithStreams
    <3> QED
      BY <3>2 DEF x, v
  <2> QED
    BY <1>2, <1>3, <2>1 DEF SameRset, SamePower
<1>5. /\ e.stream[s].name = d.stream[s].name /\ e.stream[s].id = d.stream[s].id
      /\ e.stream[s].node = d.stream[s].node
      /\ e.stream[s].rsets = Append(d.stream[s].rsets, r)
  BY <1>2, <1>3 DEF StreamType
<1>6. \A q \in Streams(d) : /\ e.stream[q].name = d.stream[q].name
                            /\ e.stream[q].id = d.stream[q].id
                            /\ e.stream[q].node = d.stream[q].node
  BY <1>2, <1>3, <1>5
<1>7. /\ ToSet(e.stream[s].rsets) = ToSet(d.stream[s].rsets) \cup {r}
      /\ ToSet(e.rset[r].streams) = ToSet(d.rset[r].streams) \cup {s}
  <2>1. d.rset[r].streams \in Seq(StreamObj) /\ d.stream[s].rsets \in Seq(RsetObj)
    BY <1>2 DEF RsetType, StreamType
  <2>2. ToSet(Append(d.rset[r].streams, s)) = ToSet(d.rset[r].streams) \cup {s}
    BY <1>2, <2>1, AppendOnce
  <2>3. ToSet(Append(d.stream[s].rsets, r)) = ToSet(d.stream[s].rsets) \cup {r}
    BY <1>2, <2>1, AppendOnce
  <2> QED
    BY <1>4, <1>5, <2>2, <2>3
<1>8. Kin(e)
  <2>1. \A q \in Rsets(e) : RsetKin(e.rset[q]) /\ e.rset[q].id = d.rset[q].id
    BY <1>4, SameRsetServes DEF Kin, SameRset, SamePower
  <2>2. \A q \in Streams(e) : StreamKin(e.stream[q])
    BY <1>6 DEF Kin, StreamKin
  <2>3. ASSUME NEW p \in Streams(e), NEW q \in Rsets(e), q \in ToSet(e.stream[p].rsets)
        PROVE  ServesAll(e.rset[q], e.stream[p])
    <3>1. ServesAll(d.rset[q], d.stream[p])
      <4>1. q \in ToSet(d.stream[p].rsets) \/ (q = r /\ p = s)
        BY <1>2, <1>3, <1>7, <2>3
      <4> QED
        BY <4>1 DEF Kin
    <3>2. KeysOf(e.stream[p]) = KeysOf(d.stream[p])
      BY <1>6 DEF KeysOf
    <3>3. \A k : Serves(d.rset[q], k) => Serves(e.rset[q], k)
      BY <1>4, SameRsetServes
    <3> QED
      BY <3>1, <3>2, <3>3 DEF ServesAll
  <2> QED
    BY <1>1, <2>1, <2>2, <2>3 DEF Kin
<1>9. PowersKept(d, e)
  BY <1>4 DEF PowersKept, SameRset
<1>10. DeadKept(d, e, {})
  <2>1. \A q \in Rsets(d) : /\ ToSet(d.rset[q].streams) \subseteq ToSet(e.rset[q].streams)
                            /\ e.rset[q].dead = d.rset[q].dead /\ e.rset[q].policy = d.rset[q].policy
    BY <1>2, <1>3, <1>4, <1>7 DEF SameRset, SamePower
  <2> QED
    BY <1>1, <2>1 DEF DeadKept
<1> QED
  BY <1>8, <1>9, <1>10 DEF Carried

(* Links cut, names and keys taken away, entries freed.                    *)
LEMMA UnlinkedKin ==
  ASSUME NEW d, Whole(d), Kin(d), NEW r \in Rsets(d), NEW s \in Streams(d),
         s \in ToSet(d.rset[r].streams), NEW S, d.rset[r].dead => s \in S,
         NEW e, e = Unlinked(d, r, s), Rsets(e) = Rsets(d), Streams(e) = Streams(d)
  PROVE  Kin(e) /\ Carried(d, e, S) /\ e.stream[s].node = d.stream[s].node
<1>0. /\ r \in ToSet(d.stream[s].rsets)
      /\ IsInjective(d.rset[r].streams) /\ IsInjective(d.stream[s].rsets)
  BY Entries DEF LinksOk, Whole
<1>1. /\ e.rset = [d.rset EXCEPT ![r].streams = Without(d.rset[r].streams, s)]
      /\ e.stream = [d.stream EXCEPT ![s].rsets = Without(d.stream[s].rsets, r)]
      /\ e.rid = d.rid /\ e.snode = d.snode
  BY <1>0, UnlinkedFields DEF Whole
<1>2. /\ d \in DbType /\ r \in RsetObj /\ s \in StreamObj
      /\ d.rset[r] \in RsetType /\ d.stream[s] \in StreamType
      /\ Rsets(d) \subseteq RsetObj /\ Streams(d) \subseteq StreamObj
  BY Entries DEF Whole
<1> DEFINE v == Without(d.rset[r].streams, s)
           w == Without(d.stream[s].rsets, r)
<1>3. ToSet(v) = ToSet(d.rset[r].streams) \ {s} /\ ToSet(w) = ToSet(d.stream[s].rsets) \ {r}
  <2>1. d.rset[r].streams \in Seq(StreamObj) /\ d.stream[s].rsets \in Seq(RsetObj)
    BY <1>2 DEF RsetType, StreamType
  <2> QED
    BY <1>0, <2>1, WithoutOne
<1> HIDE DEF v, w
<1>4. /\ e.rset[r] = [d.rset[r] EXCEPT !.streams = v]
      /\ \A q \in RsetObj : q # r => e.rset[q] = d.rset[q]
      /\ e.stream[s] = [d.stream[s] EXCEPT !.rsets = w]
      /\ \A q \in StreamObj : q # s => e.stream[q] = d.stream[q]
  BY <1>1, <1>2 DEF DbType, v, w
<1>5. SameRset(e.rset[r], d.rset[r]) /\ e.rset[r].streams = v
  BY <1>2, <1>4, WithStreams
<1>6. /\ e.stream[s].name = d.stream[s].name /\ e.stream[s].id = d.stream[s].id
      /\ e.stream[s].node = d.stream[s].node /\ e.stream[s].rsets = w
  BY <1>2, <1>4 DEF StreamType
<1>7. Fades(d, e) /\ \A q \in Rsets(e) : e.rset[q].updated = d.rset[q].updated
  <2>1. \A q \in Rsets(e) : SameRset(e.rset[q], d.rset[q])
    BY <1>2, <1>4, <1>5 DEF SameRset, SamePower
  <2>2. \A q \in Streams(e) :
          /\ e.stream[q].name = d.stream[q].name /\ e.stream[q].id = d.stream[q].id
          /\ e.stream[q].node = d.stream[q].node
          /\ ToSet(e.stream[q].rsets) \subseteq ToSet(d.stream[q].rsets)
    BY <1>2, <1>3, <1>4, <1>6
  <2> QED
    BY <1>1, <2>1, <2>2 DEF Fades, SameRset, SamePower
<1>8. DeadKept(d, e, S)
  <2>1. \A q \in Rsets(d) : d.rset[q].dead => ToSet(d.rset[q].streams) \ S \subseteq ToSet(e.rset[q].streams)
    BY <1>2, <1>3, <1>4, <1>5
  <2>2. \A q \in Rsets(d) : e.rset[q].dead = d.rset[q].dead /\ e.rset[q].policy = d.rset[q].policy
    BY <1>7 DEF Fades
  <2> QED
    BY <1>1, <2>1, <2>2 DEF DeadKept
<1> QED
  BY <1>6, <1>7, <1>8, FadesKin DEF Carried

LEMMA UnnamedKin ==
  ASSUME NEW d, d \in DbType, Kin(d), NEW f \in Rsets(d), d.rset[f].id # None,
         NEW e, UnnamedFrom(d, e, f), Rsets(e) = Rsets(d), Streams(e) = Streams(d)
  PROVE  Kin(e) /\ Carried(d, e, {})
<1>1. d.rset[f] \in RsetType
  BY Entries
<1>2. /\ e.rset[f].id = d.rset[f].id /\ e.rset[f].data = d.rset[f].data
      /\ e.rset[f].type = d.rset[f].type /\ e.rset[f].policy = d.rset[f].policy
      /\ e.rset[f].grant = d.rset[f].grant /\ e.rset[f].name = None
      /\ e.rset[f].streams = d.rset[f].streams
  BY <1>1 DEF UnnamedFrom, RsetType
<1>3. e.rset[f].dead = d.rset[f].dead
  BY <1>1 DEF UnnamedFrom, RsetType
<1>4. e.rset[f].updated = d.rset[f].updated
  BY <1>1 DEF UnnamedFrom, RsetType
<1>5. \A q \in Rsets(e) :
        /\ e.rset[q].id = d.rset[q].id /\ e.rset[q].data = d.rset[q].data
        /\ e.rset[q].type = d.rset[q].type /\ e.rset[q].policy = d.rset[q].policy
        /\ e.rset[q].grant = d.rset[q].grant /\ e.rset[q].streams = d.rset[q].streams
        /\ e.rset[q].dead = d.rset[q].dead /\ e.rset[q].updated = d.rset[q].updated
        /\ \/ e.rset[q].name = d.rset[q].name
           \/ e.rset[q].name = None /\ d.rset[q].id # None
  BY <1>2, <1>3, <1>4 DEF UnnamedFrom
<1>6. Fades(d, e)
  BY <1>5 DEF Fades, UnnamedFrom
<1>7. DeadKept(d, e, {})
  BY <1>5 DEF DeadKept, UnnamedFrom
<1> QED
  BY <1>5, <1>6, <1>7, FadesKin DEF Carried

LEMMA RsetEntryFreeKin ==
  ASSUME NEW d, d \in DbType, Kin(d), NEW r \in Rsets(d), NEW S,
         d.rset[r].dead => ToSet(d.rset[r].streams) \subseteq S,
         NEW e, e = RsetEntryFree(d, r)
  PROVE  Kin(e) /\ Carried(d, e, S)
<1>1. /\ e.rset = [d.rset EXCEPT ![r] = None] /\ e.stream = d.stream
      /\ e.rid = Drop(d.rid, d.rset[r].id) /\ e.snode = d.snode
  BY RsetEntryFreeFields
<1>2. \A q \in Rsets(d) : q \in RsetObj /\ (d.rset[q].id # None => d.rset[q].id \in Id)
  BY Entries DEF RsetType
<1>3. /\ Rsets(e) = Rsets(d) \ {r} /\ Streams(e) = Streams(d)
      /\ \A q \in Rsets(e) : e.rset[q] = d.rset[q]
  BY <1>1, <1>2 DEF Rsets, Streams, DbType
<1>4. \A q \in Rsets(e) : d.rset[q].id # None => e.rid[d.rset[q].id] = d.rid[d.rset[q].id]
  <2> SUFFICES ASSUME NEW q \in Rsets(e), d.rset[q].id # None
               PROVE  e.rid[d.rset[q].id] = d.rid[d.rset[q].id]
    OBVIOUS
  <2>1. q \in Rsets(d) /\ q # r /\ d.rid[d.rset[q].id] = q
    BY <1>3 DEF Kin
  <2>2. d.rset[r].id # d.rset[q].id
    BY <2>1 DEF Kin
  <2> QED
    BY <1>1, <1>2, <2>1, <2>2 DEF Drop, Put, DbType
<1>5. Fades(d, e)
  BY <1>1, <1>3, <1>4 DEF Fades
<1>6. DeadKept(d, e, S)
  BY <1>1, <1>3 DEF DeadKept
<1> QED
  BY <1>3, <1>5, <1>6, FadesKin DEF Carried

LEMMA StreamEntryFreeKin ==
  ASSUME NEW d, d \in DbType, Kin(d), NEW s \in Streams(d), d.stream[s].node = None,
         NEW e, e = StreamEntryFree(d, s)
  PROVE  Kin(e) /\ Carried(d, e, {})
<1>1. /\ e.stream = [d.stream EXCEPT ![s] = None] /\ e.rset = d.rset
      /\ e.rid = d.rid /\ e.snode = d.snode
  <2>1. /\ e.stream = [d.stream EXCEPT ![s] = None] /\ e.rset = d.rset
        /\ e.rid = d.rid /\ e.snode = Drop(d.snode, None)
    BY StreamEntryFreeFields
  <2> QED
    BY <2>1 DEF Drop, Put
<1>2. /\ Streams(e) = Streams(d) \ {s} /\ Rsets(e) = Rsets(d)
      /\ \A q \in Streams(e) : e.stream[q] = d.stream[q]
  BY <1>1, Entries DEF Rsets, Streams, DbType
<1>3. Fades(d, e) /\ \A q \in Rsets(e) : e.rset[q].updated = d.rset[q].updated
  BY <1>1, <1>2 DEF Fades
<1>4. DeadKept(d, e, {})
  BY <1>1, <1>2 DEF DeadKept
<1> QED
  BY <1>3, <1>4, FadesKin DEF Carried

(* A stream gets the node that finds it, or loses it, or a key is taken    *)
(* away.                                                                   *)
LEMMA NodeSetKin ==
  ASSUME NEW d, Good(d), Kin(d), NEW s \in Streams(d), NEW n \in Node,
         NEW m, NEW v, \/ m = n /\ v = s /\ d.stream[s].node = None /\ d.snode[n] = None
                       \/ m = None /\ v = None /\ d.snode[n] = s,
         m = n => KeyOf[n] \in {d.stream[s].name, d.stream[s].id},
         NEW e, e = NodeSet(d, s, m, n, v)
  PROVE  Kin(e) /\ Carried(d, e, IF m = n THEN {} ELSE {s})
<1>1. /\ Rsets(e) = Rsets(d) /\ Streams(e) = Streams(d) /\ e.rset = d.rset
      /\ \A q \in Streams(d) : /\ e.stream[q].rsets = d.stream[q].rsets
                               /\ e.stream[q].name = d.stream[q].name
                               /\ e.stream[q].id = d.stream[q].id
                               /\ e.stream[q].node = IF q = s THEN m ELSE d.stream[q].node
      /\ e.rid = d.rid /\ \A k \in Node : e.snode[k] = IF k = n THEN v ELSE d.snode[k]
  <2> DEFINE P == \/ m = n /\ v = s /\ d.stream[s].node = None /\ d.snode[n] = None
                  \/ m = None /\ v = None /\ d.snode[n] = s
  <2>1. P
    OBVIOUS
  <2> QED
    BY <2>1, NodeSetGood
<1>2. PowersKept(d, e)
  BY <1>1 DEF PowersKept, SamePower
<1>3. CASE m = n
  <2>1. StreamKin(d.stream[s]) /\ KeyOf[n] # None /\ n # None
    BY NoneIsNoKey DEF Kin, Wanted
  <2>2. StreamKin(e.stream[s])
    <3> DEFINE x == d.stream[s]
               y == e.stream[s]
    <3>1. y.name = x.name /\ y.id = x.id /\ y.node = n /\ KeyOf[n] \in {x.name, x.id}
      BY <1>1, <1>3
    <3>2. StreamKin(x)
      BY <2>1
    <3> DEFINE a == x.name
               b == x.id
               k == KeyOf[n]
    <3>3. /\ a # None /\ b # None => Named(b, a)
          /\ k \in {a, b} /\ y.name = a /\ y.id = b /\ y.node = n /\ k # None
      BY <2>1, <3>1, <3>2 DEF StreamKin
    <3> HIDE DEF a, b, y
    <3>4. /\ a # None => k = a \/ Named(k, a)
          /\ b # None => k = b \/ Named(b, k)
      <4> HIDE DEF k
      <4>1. CASE k = a
        BY <3>3, <4>1
      <4>2. CASE k = b
        BY <3>3, <4>2
      <4> QED
        BY <3>3, <4>1, <4>2
    <3>5. StreamKin(y)
      BY <3>3, <3>4 DEF StreamKin
    <3> QED
      BY <3>5 DEF y
  <2>3. KeysOf(e.stream[s]) = KeysOf(d.stream[s])
    <3>1. KeyOf[n] \in Wanted
      BY DEF Wanted
    <3> QED
      BY <1>1, <1>3, <3>1, NoneIsNoKey DEF KeysOf
  <2>4. \A q \in Streams(e) : StreamKin(e.stream[q]) /\ KeysOf(e.stream[q]) = KeysOf(d.stream[q])
    BY <1>1, <2>2, <2>3 DEF Kin, StreamKin, KeysOf
  <2>5. Kin(e)
    BY <1>1, <2>4 DEF Kin, ServesAll
  <2>6. DeadKept(d, e, {})
    BY <1>1, <1>3, Constants DEF DeadKept
  <2> QED
    BY <1>2, <1>3, <2>5, <2>6 DEF Carried
<1>4. CASE m # n
  <2>1. Fades(d, e)
    BY <1>1, <1>4 DEF Fades
  <2>2. DeadKept(d, e, {s})
    BY <1>1, <1>4 DEF DeadKept
  <2> QED
    BY <1>2, <1>4, <2>1, <2>2, FadesKin DEF Carried
<1> QED
  BY <1>3, <1>4

LEMMA LoosenedKin ==
  ASSUME NEW d, Kin(d), NEW e, Rsets(e) = Rsets(d), Streams(e) = Streams(d), e.rset = d.rset,
         \A q \in Streams(d) : e.stream[q].rsets = d.stream[q].rsets,
         \A q \in Streams(d) : /\ e.stream[q].name \in {None, d.stream[q].name}
                               /\ e.stream[q].id \in {None, d.stream[q].id}
                               /\ e.stream[q].node = d.stream[q].node,
         e.rid = d.rid, e.snode = d.snode
  PROVE  Kin(e) /\ Carried(d, e, {})
<1>1. Fades(d, e) /\ \A q \in Rsets(e) : e.rset[q].updated = d.rset[q].updated
  BY DEF Fades
<1>2. DeadKept(d, e, {})
  BY DEF DeadKept
<1> QED
  BY <1>1, <1>2, FadesKin DEF Carried

(* An rset that the stream created gets the id of its row.                 *)
LEMMA RsetCompletedKin ==
  ASSUME NEW d, d \in DbType, Kin(d), NEW id \in Id, NEW r \in Rsets(d), d.rset[r].id = None,
         d.rid[id] = None, Named(id, d.rset[r].name), NEW e, CompletedFrom(d, e, r, id)
  PROVE  Kin(e) /\ Carried(d, e, {})
<1>0. /\ Rsets(e) = Rsets(d) /\ Streams(e) = Streams(d)
      /\ e.rset[r] = [d.rset[r] EXCEPT !.id = id] /\ \A q \in Rsets(d) : q # r => e.rset[q] = d.rset[q]
      /\ e.rid = [d.rid EXCEPT ![id] = r] /\ e.stream = d.stream /\ e.snode = d.snode
  BY DEF CompletedFrom
<1>1. d.rset[r] \in RsetType /\ id # None /\ RsetKin(d.rset[r])
  BY Entries, Constants DEF Kin
<1>2. /\ e.rset[r].id = id /\ e.rset[r].data = d.rset[r].data
      /\ e.rset[r].type = d.rset[r].type /\ e.rset[r].policy = d.rset[r].policy
      /\ e.rset[r].grant = d.rset[r].grant /\ e.rset[r].name = d.rset[r].name
      /\ e.rset[r].streams = d.rset[r].streams
  BY <1>0, <1>1 DEF RsetType
<1>3. e.rset[r].dead = d.rset[r].dead
  BY <1>0, <1>1 DEF RsetType
<1>4. /\ d.rset[r].type = {} /\ d.rset[r].data = None
      /\ d.rset[r].grant = {} /\ \A t \in Type : d.rset[r].policy[t] # "relaxed"
  <2>1. d.rset[r].grant \subseteq Type
    BY <1>1 DEF RsetType
  <2> QED
    BY <1>1, <2>1 DEF RsetKin
<1>5. RsetKin(e.rset[r]) /\ Powerless(e.rset[r])
  BY <1>1, <1>2, <1>4 DEF RsetKin, Powerless
<1>6. \A k : Serves(d.rset[r], k) => Serves(e.rset[r], k)
  BY <1>1, <1>2 DEF Serves
<1>7. \A q \in Rsets(e) : e.rset[q].id # None => e.rid[e.rset[q].id] = q
  <2>1. \A k \in Id : e.rid[k] = IF k = id THEN r ELSE d.rid[k]
    BY <1>0 DEF DbType
  <2>2. \A q \in Rsets(d) : q # None /\ (d.rset[q].id # None =>
          d.rset[q].id \in Id /\ d.rid[d.rset[q].id] = q /\ d.rset[q].id # id)
    BY Entries, Constants DEF Kin, RsetType
  <2>3. ASSUME NEW q \in Rsets(d), q # r, e.rset[q].id # None PROVE e.rid[e.rset[q].id] = q
    <3>1. e.rset[q].id = d.rset[q].id
      BY <1>0, <2>3
    <3> QED
      BY <2>1, <2>2, <2>3, <3>1
  <2>4. e.rid[e.rset[r].id] = r
    BY <1>2, <2>1
  <2> QED
    BY <1>0, <2>3, <2>4
<1>8. Kin(e)
  BY <1>0, <1>5, <1>6, <1>7 DEF Kin, ServesAll
<1>9. PowersKept(d, e)
  BY <1>0, <1>5 DEF PowersKept, SamePower
<1>10. DeadKept(d, e, {})
  BY <1>0, <1>2, <1>3 DEF DeadKept
<1> QED
  BY <1>8, <1>9, <1>10 DEF Carried

(* The maps of names, of streams and the counters are not looked at.       *)
LEMMA StreamEntryFailedKin ==
  ASSUME NEW d, d \in DbType, Kin(d), NEW name \in NameOrNone, NEW id \in IdOrNone,
         NEW e, e = StreamEntryFailed(d, name, id)
  PROVE  Kin(e) /\ Carried(d, e, {})
BY StreamEntryFailedFields, CarriedSame

LEMMA RnameDroppedKin ==
  ASSUME NEW d, d \in DbType, Kin(d), NEW k, NEW e, e = [d EXCEPT !.rname = Drop(@, k)]
  PROVE  Kin(e) /\ Carried(d, e, {})
BY CarriedSame DEF DbType

LEMMA RecountedKin ==
  ASSUME NEW d, d \in DbType, Kin(d), NEW n, NEW e, e = Recounted(d, n)
  PROVE  Kin(e) /\ Carried(d, e, {})
BY CarriedSame DEF DbType, Recounted

-----------------------------------------------------------------------------
(* pa_resource_rset_update: the row finds an entry that belongs to it.     *)

LEMMA FreshServes ==
  ASSUME NEW name, NEW id, NEW k, id # None => k = id \/ Named(id, k), id = None => k = name
  PROVE  Serves(FreshRset(name, id), k)
BY DEF Serves, FreshRset

(* A stream found by the name or the id of a row wants the row's rset.     *)
LEMMA FoundServes ==
  ASSUME NumberedAlone, NEW row \in Sent, row.id \in Id, NEW y, StreamKin(y),
         y.node \in Node \cup {None}, NEW name,
         \/ y.id = row.id
         \/ y.name = row.name /\ row.name \notin {Empty, None}
  PROVE  ServesAll(FreshRset(name, row.id), y)
<1>0. Named(row.id, row.name) /\ row.id # None
  BY Constants DEF Named
<1> SUFFICES ASSUME NEW k \in KeysOf(y) PROVE k = row.id \/ Named(row.id, k)
  BY <1>0, FreshServes DEF ServesAll
<1>1. k # None /\ \/ k = y.name \/ k = y.id
                  \/ y.node \in Node /\ k = KeyOf[y.node]
  BY NoneIsNoKey DEF KeysOf, Wanted
<1>2. \E n \in Node : k = KeyOf[n]
  BY <1>1, NoneIsNoKey DEF KeysOf, Wanted
<1>3. CASE y.id = row.id
  BY <1>0, <1>1, <1>3, Constants DEF StreamKin
<1>4. CASE y.name = row.name /\ row.name \notin {Empty, None}
  <2>1. ASSUME Named(k, row.name) PROVE k = row.id
    <3>1. PICK x \in Sent : x.id = k /\ x.name = row.name
      BY <2>1 DEF Named
    <3>2. PICK n \in Node : k = KeyOf[n]
      BY <1>2
    <3> QED
      BY <1>4, <3>1, <3>2 DEF NumberedAlone
  <2>2. k = row.name \/ Named(k, row.name)
    BY <1>1, <1>4, Constants DEF StreamKin
  <2> QED
    BY <1>0, <2>1, <2>2
<1> QED
  BY <1>3, <1>4

LEMMA RsetJoinsKin ==
  ASSUME NumberedAlone, NEW d, Good(d), Kin(d), Room(d), NEW row \in Row, row \in Sent,
         NEW s \in Streams(d), d.rid[row.id] = None,
         \/ d.stream[s].id = row.id
         \/ d.stream[s].name = row.name /\ HasName(row.name),
         ~(HasName(row.name) /\ d.rname[row.name] # None /\ d.rset[d.rname[row.name]].id = None),
         NEW e, e = RsetJoins(d, row, s)
  PROVE  Kin(e) /\ Carried(d, e, {})
<1> DEFINE r == NewRset(d)
           fresh == RsetEntry(d, None, row.id)
           f == d.rname[row.name]
           named == HasName(row.name) /\ f # None
           g == IF named THEN [fresh EXCEPT !.rname[row.name] = None, !.rset[f].name = None]
                ELSE fresh
<1>0. d \in DbType /\ Whole(d) /\ Partnered(d, {}, {}) /\ Rsets(d) # RsetObj /\ Faithful(d)
  BY GoodIsWhole DEF Whole, Room
<1>1. /\ row.id \in IdOrNone /\ row.id \in Id /\ row.name \in Name \cup {Empty}
      /\ None \in NameOrNone
  BY RowFields DEF NameOrNone
<1>2. RsetAdded(d, fresh, None, row.id, {}) /\ Kin(fresh) /\ Carried(d, fresh, {})
  <2> DEFINE id == row.id
  <2>1. fresh = RsetEntry(d, None, id) /\ id \in IdOrNone /\ d.rid[id] = None
    BY <1>1
  <2> HIDE DEF fresh, id
  <2>2. RsetAdded(d, fresh, None, id, {})
    BY <1>0, <1>1, <2>1, RsetEntryWhole
  <2>3. Kin(fresh) /\ Carried(d, fresh, {})
    BY <1>0, <1>1, <2>1, <2>2, RsetEntryKin
  <2> QED
    BY <2>2, <2>3 DEF id
<1>3. e = Linked(g, r, s)
  BY DEF RsetJoins
<1> HIDE DEF fresh
<1>4. /\ Whole(fresh) /\ Partnered(fresh, {r}, {}) /\ r \in RsetObj /\ r \notin Rsets(d)
      /\ Rsets(fresh) = Rsets(d) \cup {r} /\ Streams(fresh) = Streams(d)
      /\ fresh.rset[r] = FreshRset(None, row.id) /\ fresh.stream = d.stream
      /\ fresh.rname = d.rname /\ \A q \in Rsets(d) : fresh.rset[q] = d.rset[q]
  BY <1>2 DEF RsetAdded, Put
<1> HIDE DEF r
<1>5. /\ Whole(g) /\ Partnered(g, {r}, {}) /\ Rsets(g) = Rsets(d) \cup {r}
      /\ Streams(g) = Streams(d) /\ g.rset[r] = FreshRset(None, row.id) /\ g.stream = d.stream
      /\ Kin(g) /\ Carried(d, g, {})
  <2>1. CASE named
    <3> DEFINE k == row.name
    <3>0. f \in Rsets(d) /\ d.rset[f].id # None /\ f # None /\ k \in Name \cup {Empty}
          /\ f = fresh.rname[k] /\ f # r
      BY <1>0, <1>1, <1>4, <2>1 DEF Faithful, RsetsFaithful
    <3>1. g = Unnamed(fresh, k, f)
      BY <2>1 DEF Unnamed
    <3> HIDE DEF g, f, k, named
    <3>2. /\ Whole(g) /\ Partnered(g, {r}, {}) /\ Rsets(g) = Rsets(fresh)
          /\ Streams(g) = Streams(fresh) /\ UnnamedFrom(fresh, g, f)
      BY <1>4, <3>0, <3>1, RsetUnnamed
    <3>3. fresh \in DbType /\ f \in Rsets(fresh) /\ fresh.rset[f].id # None
      BY <1>4, <3>0 DEF Whole
    <3>4. Kin(g) /\ Carried(fresh, g, {})
      BY <1>2, <3>2, <3>3, UnnamedKin
    <3>5. Carried(d, g, {} \cup {})
      BY <1>2, <3>4, CarriedOn
    <3>6. g.rset[r] = fresh.rset[r] /\ g.stream = fresh.stream
      BY <1>4, <3>0, <3>2 DEF UnnamedFrom
    <3> QED
      BY <1>4, <3>2, <3>4, <3>5, <3>6, {} \cup {} = {}
  <2>2. CASE ~named
    BY <1>2, <1>4, <2>2
  <2> QED
    BY <2>1, <2>2
<1> HIDE DEF g
<1>6. ServesAll(g.rset[r], g.stream[s])
  <2>1. StreamKin(d.stream[s]) /\ d.stream[s].node \in Node \cup {None}
    BY <1>0, Entries DEF Kin, StreamType
  <2>2. ServesAll(FreshRset(None, row.id), d.stream[s])
    BY <1>1, <2>1, FoundServes DEF HasName
  <2> QED
    BY <1>5, <2>2
<1>7. /\ Rsets(e) = Rsets(g) /\ Streams(e) = Streams(g)
      /\ Partnered(e, {r} \ {r}, {} \ {s})
  <2>1. g.rset[r].streams = <<>>
    BY <1>5 DEF FreshRset
  <2>2. Whole(g) /\ Partnered(g, {r}, {}) /\ r \in Rsets(g) /\ s \in Streams(g)
        /\ s \notin ToSet(g.rset[r].streams)
    BY <1>5, <2>1, EmptyList
  <2> QED
    BY <1>3, <2>2, LinkedWhole
<1>8. Kin(e) /\ Carried(g, e, {})
  BY <1>3, <1>5, <1>6, <1>7, LinkedKin
<1>9. Carried(d, e, {} \cup {})
  BY <1>5, <1>8, CarriedOn
<1> QED
  BY <1>8, <1>9, {} \cup {} = {}

LEMMA RsetWithStreamKin ==
  ASSUME NEW d, Good(d), Kin(d), Room(d), NEW row \in Row, row \in Sent, d.rid[row.id] = None,
         NEW e, e = RsetWithStream(d, row)
  PROVE  Kin(e) /\ Carried(d, e, {})
<1> DEFINE name == row.name
           id == row.id
           r == NewRset(d)
           f == RsetEntry(d, name, id)
           g == StreamEntryFailed(f, name, id)
           h == StreamEntry(f, name, id, None)
           s == NewStream(f)
<1>0. /\ d \in DbType /\ Whole(d) /\ Partnered(d, {}, {})
      /\ Rsets(d) # RsetObj /\ Streams(d) # StreamObj
  BY GoodIsWhole DEF Whole, Room
<1>1. /\ name \in Name \cup {Empty} /\ name \in NameOrNone /\ id \in IdOrNone
      /\ Named(id, name) /\ id # None /\ d.rid[id] = None
  BY RowFields, Constants DEF Named
<1>2. /\ e = [d EXCEPT !.rname = Drop(@, name)] \/ e = RsetEntryFree(g, r)
         \/ e = Linked(h, r, NewStream(d))
  BY DEF RsetWithStream
<1> HIDE DEF name, id
<1>3. RsetAdded(d, f, name, id, {})
  BY <1>0, <1>1, RsetEntryWhole
<1>4. Kin(f) /\ Carried(d, f, {})
  BY <1>0, <1>1, <1>3, RsetEntryKin
<1>5. /\ Whole(f) /\ Partnered(f, {r}, {}) /\ r \in Rsets(f) /\ f \in DbType
      /\ f.rset[r] = FreshRset(name, id) /\ f.stream = d.stream /\ Streams(f) = Streams(d)
  BY <1>3 DEF RsetAdded, Whole
<1>6. CASE e = [d EXCEPT !.rname = Drop(@, name)]
  BY <1>0, <1>6, RnameDroppedKin
<1>7. CASE e = RsetEntryFree(g, r)
  <2> HIDE DEF f, r
  <2>1. g \in DbType /\ Rsets(g) = Rsets(f) /\ g.rset = f.rset /\ Kin(g) /\ Carried(f, g, {})
    <3>1. g \in DbType /\ g.rset = f.rset
      BY <1>1, <1>5, StreamEntryFailedFields
    <3>2. Kin(g) /\ Carried(f, g, {})
      BY <1>1, <1>4, <1>5, StreamEntryFailedKin
    <3> QED
      BY <3>1, <3>2 DEF Rsets
  <2> HIDE DEF g
  <2>2. r \in Rsets(g) /\ ~g.rset[r].dead
    BY <1>5, <2>1 DEF FreshRset
  <2>3. Kin(e) /\ Carried(g, e, {})
    BY <1>7, <2>1, <2>2, RsetEntryFreeKin
  <2>4. Carried(d, g, {} \cup {})
    BY <1>4, <2>1, CarriedOn
  <2>5. Carried(d, e, ({} \cup {}) \cup {})
    BY <2>3, <2>4, CarriedOn
  <2> QED
    BY <2>3, <2>5, ({} \cup {}) \cup {} = {}
<1>8. CASE e = Linked(h, r, NewStream(d))
  <2>2. s = NewStream(d)
    BY <1>5 DEF NewStream
  <2> HIDE DEF f, r
  <2>3. StreamAdded(f, h, name, id, None, {r})
    BY <1>0, <1>1, <1>5, StreamEntryWhole
  <2>4. Kin(h) /\ Carried(f, h, {})
    <3>1. None \in Node \cup {None}
      OBVIOUS
    <3> QED
      BY <1>1, <1>4, <1>5, <2>3, <3>1, StreamEntryKin
  <2>5. /\ Whole(h) /\ Partnered(h, {r}, {s}) /\ s \in Streams(h) /\ r \in Rsets(h)
        /\ h.rset[r] = FreshRset(name, id) /\ h.stream[s] = FreshStream(name, id, None)
        /\ s \notin ToSet(h.rset[r].streams)
    <3>1. /\ Whole(h) /\ Partnered(h, {r}, {s}) /\ s \in Streams(h) /\ r \in Rsets(h)
          /\ h.rset[r] = FreshRset(name, id) /\ h.stream[s] = FreshStream(name, id, None)
      BY <1>5, <2>3 DEF StreamAdded
    <3> QED
      BY <3>1, EmptyList DEF FreshRset
  <2> HIDE DEF h, s
  <2>6. ServesAll(h.rset[r], h.stream[s])
    <3>1. KeysOf(FreshStream(name, id, None)) \subseteq {name, id}
      BY DEF KeysOf, FreshStream
    <3>2. \A k \in {name, id} : Serves(FreshRset(name, id), k)
      BY <1>1, FreshServes
    <3> QED
      BY <2>5, <3>1, <3>2 DEF ServesAll
  <2>7. /\ Rsets(e) = Rsets(h) /\ Streams(e) = Streams(h)
        /\ Partnered(e, {r} \ {r}, {s} \ {s})
    BY <1>8, <2>2, <2>5, LinkedWhole
  <2>8. Kin(e) /\ Carried(h, e, {})
    BY <1>8, <2>2, <2>4, <2>5, <2>6, <2>7, LinkedKin
  <2>9. Carried(d, h, {} \cup {})
    BY <1>4, <2>4, CarriedOn
  <2>10. Carried(d, e, ({} \cup {}) \cup {})
    BY <2>8, <2>9, CarriedOn
  <2> QED
    BY <2>8, <2>10, ({} \cup {}) \cup {} = {}
<1> QED
  BY <1>2, <1>6, <1>7, <1>8

LEMMA RsetFoundKin ==
  ASSUME NumberedAlone, NEW d, Good(d), Kin(d), Room(d), NEW row \in Row, row \in Sent,
         NEW e, e = RsetFound(d, row)
  PROVE  Kin(e) /\ Carried(d, e, {})
<1> DEFINE s == IF HasName(row.name) /\ d.sname[row.name] # None THEN d.sname[row.name]
                ELSE d.sid[row.id]
           r == d.rname[row.name]
           c == HasName(row.name) /\ r # None /\ d.rset[r].id = None
           completed == RsetCompleted(d, row)
           joined == RsetJoins(d, row, s)
           paired == RsetWithStream(d, row)
<1>1. e = IF d.rid[row.id] # None THEN d
          ELSE IF c THEN completed ELSE IF s # None THEN joined ELSE paired
  BY DEF RsetFound
<1>2. d \in DbType /\ RsetsFaithful(d) /\ StreamsFaithful(d)
  BY DEF Good, Faithful
<1>3. row.id \in Id /\ row.name \in Name \cup {Empty} /\ Named(row.id, row.name)
  BY RowFields DEF Named
<1>4. CASE d.rid[row.id] # None
  BY <1>1, <1>4, CarriedSame
<1>5. CASE d.rid[row.id] = None /\ c
  <2>1. r \in Rsets(d) /\ d.rset[r].name = row.name /\ r # None /\ d.rset[r].id = None
    BY <1>2, <1>3, <1>5 DEF RsetsFaithful
  <2>2. CompletedFrom(d, completed, r, row.id)
    BY <1>5, <2>1, RsetCompletedGood
  <2>3. e = completed
    BY <1>1, <1>5
  <2> HIDE DEF completed, r, c
  <2> QED
    BY <1>2, <1>3, <1>5, <2>1, <2>2, <2>3, RsetCompletedKin
<1>6. CASE d.rid[row.id] = None /\ ~c /\ s # None
  <2>1. /\ s \in Streams(d)
        /\ \/ d.stream[s].id = row.id
           \/ d.stream[s].name = row.name /\ HasName(row.name)
    BY <1>2, <1>3, <1>6 DEF StreamsFaithful
  <2>2. e = joined
    BY <1>1, <1>6
  <2>3. ~(HasName(row.name) /\ d.rname[row.name] # None /\ d.rset[d.rname[row.name]].id = None)
    BY <1>6
  <2> HIDE DEF s, c
  <2> QED
    BY <1>6, <2>1, <2>2, <2>3, RsetJoinsKin
<1>7. CASE d.rid[row.id] = None /\ ~c /\ s = None
  <2>1. e = paired
    BY <1>1, <1>7
  <2> QED
    BY <1>7, <2>1, RsetWithStreamKin
<1> QED
  BY <1>4, <1>5, <1>6, <1>7

(* Every grant and every relaxed policy that is alive comes from a row of  *)
(* the table.  Those of the types in Open are only so once updated.        *)
BackedIn(x, t, rows) ==
  \E row \in rows : /\ row.id = x.id /\ (t \in x.grant => row.grant)
                    /\ x.policy[t] = "relaxed" => row.policy = "relaxed"
AllBacked(d, tab, Open) ==
  \A r \in Rsets(d), t \in Type :
    /\ ~d.rset[r].dead /\ (t \in Open => d.rset[r].updated)
    /\ t \in d.rset[r].grant \/ d.rset[r].policy[t] = "relaxed"
    => BackedIn(d.rset[r], t, tab[t])

LEMMA CarriedBacked ==
  ASSUME NEW d, NEW e, PowersKept(d, e), NEW tab, NEW Open, AllBacked(d, tab, Open)
  PROVE  AllBacked(e, tab, Open)
<1> SUFFICES ASSUME NEW r \in Rsets(e), NEW t \in Type, ~e.rset[r].dead,
                    t \in Open => e.rset[r].updated,
                    t \in e.rset[r].grant \/ e.rset[r].policy[t] = "relaxed"
             PROVE  BackedIn(e.rset[r], t, tab[t])
  BY DEF AllBacked
<1>1. r \in Rsets(d) /\ SamePower(e.rset[r], d.rset[r])
  BY DEF PowersKept, Powerless
<1>2. BackedIn(d.rset[r], t, tab[t])
  BY <1>1 DEF SamePower, AllBacked
<1> QED
  BY <1>1, <1>2 DEF SamePower, BackedIn

(* An entry that keeps its keys and its streams.                           *)
LEMMA RsetSetKin ==
  ASSUME NEW d, d \in DbType, Kin(d), NEW r \in Rsets(d), NEW x, x # None, RsetKin(x),
         x.name = d.rset[r].name, x.id = d.rset[r].id, x.streams = d.rset[r].streams,
         d.rset[r].dead => x.dead /\ x.policy = d.rset[r].policy,
         NEW n, NEW e, e = RsetSet(d, r, x, n)
  PROVE  /\ Kin(e) /\ DeadKept(d, e, {}) /\ Rsets(e) = Rsets(d)
         /\ e.rset[r] = x /\ \A q \in Rsets(d) : q # r => e.rset[q] = d.rset[q]
<1>1. /\ e.rset = [d.rset EXCEPT ![r] = x] /\ e.stream = d.stream /\ e.rid = d.rid
      /\ e.snode = d.snode /\ r \in RsetObj /\ Rsets(d) \subseteq RsetObj
  BY Entries DEF DbType, RsetSet
<1>2. e.rset[r] = x /\ \A q \in RsetObj : q # r => e.rset[q] = d.rset[q]
  BY <1>1 DEF DbType
<1>3. Rsets(e) = Rsets(d) /\ Streams(e) = Streams(d)
  BY <1>1, <1>2 DEF Rsets, Streams
<1>4. \A q \in Rsets(e) : /\ RsetKin(e.rset[q]) /\ e.rset[q].id = d.rset[q].id
                          /\ e.rset[q].name = d.rset[q].name
                          /\ e.rset[q].streams = d.rset[q].streams
  BY <1>1, <1>2, <1>3 DEF Kin
<1>5. Kin(e)
  BY <1>1, <1>3, <1>4 DEF Kin, ServesAll, Serves
<1>6. DeadKept(d, e, {})
  BY <1>1, <1>2, <1>3, <1>4 DEF DeadKept
<1> QED
  BY <1>1, <1>2, <1>3, <1>5, <1>6

LEMMA CountedPower ==
  ASSUME NEW entry \in RsetType, NEW t \in Type, NEW x, x = CountedEntry(entry, t)
  PROVE  /\ x.data = entry.data /\ x.policy = entry.policy /\ x.grant = entry.grant
         /\ x.updated
<1>1. x.data = entry.data /\ x.policy = entry.policy /\ x.grant = entry.grant
  BY DEF CountedEntry, RsetType
<1>2. x.updated
  BY DEF CountedEntry, RsetType
<1> QED
  BY <1>1, <1>2

LEMMA CopiedPower ==
  ASSUME NEW entry \in RsetType, NEW t \in Type, NEW row \in Row,
         NEW x, x = CopiedEntry(entry, row, t)
  PROVE  /\ x.data = row.name /\ x.policy[t] = row.policy /\ (t \in x.grant => row.grant)
         /\ \A u \in Type : u # t => /\ x.policy[u] = entry.policy[u]
                                     /\ u \in x.grant <=> u \in entry.grant
<1>1. x.data = row.name
  BY DEF CopiedEntry, RsetType
<1>2. x.policy = [entry.policy EXCEPT ![t] = row.policy]
  BY DEF CopiedEntry, RsetType
<1>3. x.grant = IF row.grant THEN entry.grant \cup {t} ELSE entry.grant \ {t}
  BY DEF CopiedEntry, RsetType
<1>4. entry.policy \in [Type -> Policy]
  BY DEF RsetType
<1>5. x.policy[t] = row.policy /\ \A u \in Type : u # t => x.policy[u] = entry.policy[u]
  BY <1>2, <1>4
<1>6. /\ t \in x.grant => row.grant
      /\ \A u \in Type : u # t => (u \in x.grant <=> u \in entry.grant)
  <2>1. CASE row.grant
    BY <1>3, <2>1
  <2>2. CASE ~row.grant
    BY <1>3, <2>2
  <2> QED
    BY <2>1, <2>2
<1> QED
  BY <1>1, <1>5, <1>6

LEMMA CountedDbKin ==
  ASSUME NEW e, Good(e), Kin(e), NEW r \in Rsets(e), ~e.rset[r].dead, e.rset[r].id # None,
         NEW t \in Type, NEW c, c = CountedDb(e, r, t)
  PROVE  /\ Good(c) /\ Kin(c) /\ DeadKept(e, c, {}) /\ Rsets(c) = Rsets(e)
         /\ c.rset[r] = CountedEntry(e.rset[r], t)
         /\ \A q \in Rsets(e) : q # r => c.rset[q] = e.rset[q]
<1> DEFINE entry == e.rset[r]
           x == CountedEntry(entry, t)
<1>1. e \in DbType /\ entry \in RsetType /\ r \in RsetObj /\ RsetKin(entry)
  BY Entries DEF Good, Kin
<1>2. c = RsetSet(e, r, x, CountedIn(e.nres, entry, t))
  BY <1>1, CountedEntrySet
<1>3. /\ x \in RsetType /\ x.name = entry.name /\ x.id = entry.id
      /\ x.streams = entry.streams /\ x.type = entry.type \cup {t} /\ x.dead = entry.dead
      /\ x.data = entry.data /\ x.policy = entry.policy /\ x.grant = entry.grant
  BY <1>1, CountedFields, CountedPower
<1> HIDE DEF x
<1>4. RsetKin(x) /\ x # None
  BY <1>1, <1>3, Constants DEF RsetKin
<1>5. Good(c)
  BY CountedDbGood
<1> QED
  BY <1>1, <1>2, <1>3, <1>4, <1>5, RsetSetKin DEF x

LEMMA CopiedDbKin ==
  ASSUME NEW c, Good(c), Kin(c), NEW r \in Rsets(c), ~c.rset[r].dead, NEW t \in Type,
         t \in c.rset[r].type, NEW row \in Row, row \in Sent, c.rset[r].id = row.id,
         NEW f, f = CopiedDb(c, r, row, t)
  PROVE  /\ Kin(f) /\ DeadKept(c, f, {}) /\ Rsets(f) = Rsets(c)
         /\ f.rset[r] = CopiedEntry(c.rset[r], row, t)
         /\ \A q \in Rsets(c) : q # r => f.rset[q] = c.rset[q]
<1> DEFINE entry == c.rset[r]
           x == CopiedEntry(entry, row, t)
<1>1. c \in DbType /\ entry \in RsetType /\ r \in RsetObj /\ RsetKin(entry)
  BY Entries DEF Good, Kin
<1>2. f = RsetSet(c, r, x, c.nres)
  BY <1>1, CopiedEntrySet
<1>3. /\ x \in RsetType /\ x.name = entry.name /\ x.id = entry.id
      /\ x.streams = entry.streams /\ x.type = entry.type /\ x.dead = entry.dead
      /\ x.data = row.name
      /\ \A u \in Type : u # t => /\ x.policy[u] = entry.policy[u]
                                  /\ u \in x.grant <=> u \in entry.grant
  <2>1. /\ x \in RsetType /\ x.name = entry.name /\ x.id = entry.id
        /\ x.streams = entry.streams /\ x.type = entry.type /\ x.dead = entry.dead
    BY <1>1, CopiedFields
  <2>2. /\ x.data = row.name
        /\ \A u \in Type : u # t => /\ x.policy[u] = entry.policy[u]
                                    /\ u \in x.grant <=> u \in entry.grant
    BY <1>1, CopiedPower
  <2> QED
    BY <2>1, <2>2
<1>4. Named(row.id, row.name) /\ row.id # None
  BY RowFields, Constants DEF Named
<1> HIDE DEF x
<1>5. RsetKin(x) /\ x # None
  BY <1>1, <1>3, <1>4, Constants DEF RsetKin
<1> QED
  BY <1>1, <1>2, <1>3, <1>5, RsetSetKin DEF x

(* What the rows give is backed by them; rset_data_copy never refuses.     *)
LEMMA RsetUpdatedKin ==
  ASSUME NamesSteady, NumberedAlone, NEW d, Good(d), Kin(d), Room(d), NEW row \in Row,
         row \in Sent, NEW t \in Type, NEW tab, AllBacked(d, tab, {t}), row \in tab[t],
         NEW f, f = RsetUpdated(d, row, t)
  PROVE  Kin(f) /\ AllBacked(f, tab, {t}) /\ DeadKept(d, f, {})
<1> DEFINE e == RsetFound(d, row)
           r == e.rid[row.id]
           c == CountedDb(e, r, t)
           g == CopiedDb(c, r, row, t)
<1>1. Good(e) /\ Kin(e) /\ Carried(d, e, {})
  BY RsetFoundGood, RsetFoundKin
<1>2. AllBacked(e, tab, {t})
  BY <1>1, CarriedBacked DEF Carried
<1>3. f = IF r = None \/ e.rset[r].dead THEN e
          ELSE IF e.rset[r].data \notin {None, row.name} THEN c ELSE g
  BY DEF RsetUpdated, CountedDb, CopiedDb
<1>4. CASE f = e
  BY <1>1, <1>2, <1>4 DEF Carried
<1>5. CASE ~(r = None \/ e.rset[r].dead)
  <2>0. row.id \in Id /\ row.id # None
    BY RowFields, Constants
  <2>1. r \in Rsets(e) /\ e.rset[r].id = row.id /\ ~e.rset[r].dead
    BY <1>1, <1>5, <2>0 DEF Good, Faithful, RsetsFaithful
  <2>2. e.rset[r].data \in {None, row.name}
    <3>1. RsetKin(e.rset[r])
      BY <1>1, <2>1 DEF Kin
    <3>2. ASSUME e.rset[r].data # None PROVE e.rset[r].data = row.name
      <4>1. Named(row.id, e.rset[r].data)
        BY <2>1, <3>1, <3>2 DEF RsetKin
      <4> QED
        BY <4>1 DEF Named, NamesSteady
    <3> QED
      BY <3>2
  <2>3. f = g
    BY <1>3, <1>5, <2>2
  <2> HIDE DEF e, r
  <2>4. e \in DbType /\ e.rset[r] \in RsetType
    BY <1>1, <2>1, Entries DEF Good
  <2> DEFINE x == CountedEntry(e.rset[r], t)
             y == CopiedEntry(x, row, t)
  <2>5. /\ Good(c) /\ Kin(c) /\ DeadKept(e, c, {}) /\ Rsets(c) = Rsets(e)
        /\ c.rset[r] = x /\ \A q \in Rsets(e) : q # r => c.rset[q] = e.rset[q]
    BY <1>1, <2>0, <2>1, CountedDbKin
  <2>6. /\ x \in RsetType /\ x.id = row.id /\ t \in x.type /\ ~x.dead
    BY <2>1, <2>4, CountedFields
  <2>7. x.policy = e.rset[r].policy /\ x.grant = e.rset[r].grant /\ x.updated
    BY <2>4, CountedPower
  <2> HIDE DEF c, x
  <2>8. /\ Kin(g) /\ DeadKept(c, g, {}) /\ Rsets(g) = Rsets(c)
        /\ g.rset[r] = y /\ \A q \in Rsets(c) : q # r => g.rset[q] = c.rset[q]
    BY <2>1, <2>5, <2>6, CopiedDbKin
  <2>9. y.id = row.id
    BY <2>6, CopiedFields
  <2>10. /\ y.policy[t] = row.policy /\ (t \in y.grant => row.grant)
         /\ \A u \in Type : u # t => /\ y.policy[u] = x.policy[u]
                                     /\ u \in y.grant <=> u \in x.grant
    BY <2>6, CopiedPower
  <2> HIDE DEF g, y
  <2>11. AllBacked(g, tab, {t})
    <3> SUFFICES ASSUME NEW q \in Rsets(g), NEW u \in Type, ~g.rset[q].dead,
                        u \in {t} => g.rset[q].updated,
                        u \in g.rset[q].grant \/ g.rset[q].policy[u] = "relaxed"
                 PROVE  BackedIn(g.rset[q], u, tab[u])
      BY DEF AllBacked
    <3>1. CASE q # r
      <4>1. q \in Rsets(e) /\ g.rset[q] = e.rset[q]
        BY <2>5, <2>8, <3>1
      <4> QED
        BY <1>2, <4>1 DEF AllBacked
    <3>2. CASE q = r /\ u = t
      <4>1. g.rset[q] = y
        BY <2>8, <3>2
      <4> QED
        BY <2>9, <2>10, <3>2, <4>1 DEF BackedIn
    <3>3. CASE q = r /\ u # t
      <4>1. y.policy[u] = e.rset[r].policy[u] /\ (u \in y.grant <=> u \in e.rset[r].grant)
        BY <2>7, <2>10, <3>3
      <4>2. g.rset[q] = y
        BY <2>8, <3>3
      <4>3. BackedIn(e.rset[r], u, tab[u])
        BY <1>2, <2>1, <3>3, <4>1, <4>2 DEF AllBacked
      <4> QED
        BY <2>1, <2>9, <4>1, <4>2, <4>3 DEF BackedIn
    <3> QED
      BY <3>1, <3>2, <3>3
  <2>12. DeadKept(d, g, {})
    <3>1. DeadKept(d, e, {})
      BY <1>1 DEF Carried
    <3> QED
      BY <2>5, <2>8, <3>1 DEF DeadKept
  <2> QED
    BY <2>3, <2>8, <2>11, <2>12
<1> QED
  BY <1>3, <1>4, <1>5

(* rset_entry_is_dead.                                                     *)
LEMMA RsetLastKin ==
  ASSUME NEW d, Good(d), Kin(d), NEW r \in Rsets(d), ~d.rset[r].dead, NEW n,
         NEW e, e = RsetSet(d, r, DeadEntry(d.rset[r]), n)
  PROVE  Kin(e) /\ Carried(d, e, {})
<1> DEFINE entry == d.rset[r]
           x == DeadEntry(entry)
<1>1. d \in DbType /\ entry \in RsetType /\ RsetKin(entry)
  BY Entries DEF Good, Kin
<1>2. /\ x \in RsetType /\ x.name = entry.name /\ x.id = entry.id
      /\ x.streams = entry.streams /\ x.type = entry.type /\ x.dead
  BY <1>1, DeadFields
<1>3. x.data = entry.data /\ x.policy = entry.policy /\ x.grant = {}
  BY <1>1 DEF DeadEntry, RsetType
<1> HIDE DEF x
<1>4. RsetKin(x) /\ x # None
  BY <1>1, <1>2, <1>3, Constants DEF RsetKin
<1>5. /\ Kin(e) /\ DeadKept(d, e, {}) /\ Rsets(e) = Rsets(d)
      /\ e.rset[r] = x /\ \A q \in Rsets(d) : q # r => e.rset[q] = d.rset[q]
  <2>1. e = RsetSet(d, r, x, n)
    BY DEF x
  <2> QED
    BY <1>1, <1>2, <1>4, <2>1, RsetSetKin
<1>6. PowersKept(d, e)
  BY <1>2, <1>5 DEF PowersKept, Powerless, SamePower
<1> QED
  BY <1>5, <1>6 DEF Carried

LEMMA RsetLeavesKin ==
  ASSUME NEW d, Good(d), Kin(d), NEW r \in Rsets(d), ~d.rset[r].dead,
         NEW s \in Streams(d), s \in ToSet(d.rset[r].streams), NEW n \in [Type -> Nat],
         NEW e, e = RsetEntryFree(Unlinked(Recounted(d, n), r, s), r)
  PROVE  Kin(e) /\ Carried(d, e, {})
<1> DEFINE u == Unlinked(d, r, s)
           f == RsetEntryFree(u, r)
<1>0. d \in DbType /\ Whole(d)
  BY GoodIsWhole DEF Whole
<1>1. e = Recounted(f, n)
  BY <1>0, RecountedEarly
<1>2. Whole(u) /\ Rsets(u) = Rsets(d) /\ Streams(u) = Streams(d)
      /\ u.rset[r].dead = d.rset[r].dead /\ u \in DbType
  BY <1>0, UnlinkedWhole DEF UnlinkedFrom, Whole
<1>3. Kin(u) /\ Carried(d, u, {})
  BY <1>0, <1>2, UnlinkedKin
<1> HIDE DEF u
<1>4. Kin(f) /\ Carried(u, f, {})
  BY <1>2, <1>3, RsetEntryFreeKin
<1>5. f \in DbType
  BY <1>2, RsetEntryFreeFields
<1> HIDE DEF f
<1>6. Kin(e) /\ Carried(f, e, {})
  BY <1>1, <1>4, <1>5, RecountedKin
<1>7. Carried(d, f, {} \cup {})
  BY <1>3, <1>4, CarriedOn
<1>8. Carried(d, e, ({} \cup {}) \cup {})
  BY <1>6, <1>7, CarriedOn
<1> QED
  BY <1>6, <1>8, ({} \cup {}) \cup {} = {}

LEMMA RsetDeadKin ==
  ASSUME NEW d, Good(d), Kin(d), NEW r \in Rsets(d), NEW e, e = RsetDead(d, r)
  PROVE  Kin(e) /\ Carried(d, e, {})
<1> DEFINE s == Head(d.rset[r].streams)
           n == LessOne(d.nres, d.rset[r])
           last == LastDb(Recounted(d, n), r)
           left == RsetEntryFree(Unlinked(Recounted(d, n), r, s), r)
           c == Len(d.rset[r].streams) > 1 \/ Len(d.stream[s].rsets) = 1
<1>0. /\ d \in DbType /\ r \in RsetObj /\ d.rset[r] \in RsetType
      /\ LinksOk(d) /\ Partnered(d, {}, {})
  BY Entries, GoodIsWhole DEF Good, Whole
<1>1. e = IF d.rset[r].dead THEN d ELSE IF c THEN last ELSE left
  <2>1. Recounted(d, n) =
          [d EXCEPT !.nres = [t \in Type |-> IF t \in d.rset[r].type THEN @[t] - 1 ELSE @[t]]]
    BY <1>0 DEF Recounted, LessOne, DbType
  <2> QED
    BY <2>1 DEF RsetDead, LastDb
<1>2. CASE d.rset[r].dead
  BY <1>1, <1>2, CarriedSame
<1>3. CASE ~d.rset[r].dead /\ c
  <2>1. n \in [Type -> Nat]
    BY <1>3, CounterLess
  <2>2. last = RsetSet(d, r, DeadEntry(d.rset[r]), n)
    BY <1>0, <2>1, LastEntrySet
  <2>3. e = last
    BY <1>1, <1>3
  <2> HIDE DEF last, n, c
  <2> QED
    BY <1>3, <2>2, <2>3, RsetLastKin
<1>4. CASE ~d.rset[r].dead /\ ~c
  <2>1. e = left
    BY <1>1, <1>4
  <2>2. n \in [Type -> Nat]
    BY <1>4, CounterLess
  <2>3. s \in ToSet(d.rset[r].streams) /\ s \in StreamObj
    <3>1. d.rset[r].streams \in Seq(StreamObj) /\ d.rset[r].streams # <<>>
      BY <1>0 DEF RsetType, Partnered
    <3> QED
      BY <3>1, FirstOfList, ElementsOfList
  <2>4. s \in Streams(d)
    BY <1>0, <2>3 DEF LinksOk
  <2> HIDE DEF c, s, n
  <2> QED
    BY <1>4, <2>1, <2>2, <2>3, <2>4, RsetLeavesKin
<1> QED
  BY <1>2, <1>3, <1>4

-----------------------------------------------------------------------------
(* A notification: its table is the one that counts from now on, and the   *)
(* entries of its type are not backed by it before they are updated.       *)
LEMMA StaleKin ==
  ASSUME NEW d, Good(d), Kin(d), NEW e, e = Stale(d), NEW t \in Type,
         NEW tab, AllBacked(d, tab, {}), NEW new, \A u \in Type : u # t => new[u] = tab[u]
  PROVE  Kin(e) /\ DeadKept(d, e, {}) /\ AllBacked(e, new, {t})
<1>1. /\ Good(e) /\ Rsets(e) = Rsets(d) /\ e.stream = d.stream
      /\ e.rid = d.rid /\ e.snode = d.snode
      /\ \A q \in Rsets(d) : e.rset[q] = StaleEntry(d.rset[q])
  BY StaleGood
<1>2. ASSUME NEW q \in Rsets(d)
      PROVE  /\ e.rset[q].name = d.rset[q].name /\ e.rset[q].id = d.rset[q].id
             /\ e.rset[q].data = d.rset[q].data /\ e.rset[q].type = d.rset[q].type
             /\ e.rset[q].dead = d.rset[q].dead /\ e.rset[q].policy = d.rset[q].policy
             /\ e.rset[q].grant = d.rset[q].grant /\ e.rset[q].streams = d.rset[q].streams
             /\ ~e.rset[q].updated
  <2> DEFINE x == d.rset[q]
             y == e.rset[q]
  <2>1. x \in RsetType /\ y = StaleEntry(x)
    BY <1>1, Entries DEF Good
  <2> HIDE DEF x, y
  <2>2. y.name = x.name /\ y.id = x.id /\ y.streams = x.streams /\ y.type = x.type /\ y.dead = x.dead
    BY <2>1, StaleFields
  <2>3. y.data = x.data /\ y.policy = x.policy
    BY <2>1 DEF StaleEntry, RsetType
  <2>4. y.grant = x.grant
    BY <2>1 DEF StaleEntry, RsetType
  <2>5. ~y.updated
    BY <2>1 DEF StaleEntry, RsetType
  <2> QED
    BY <2>2, <2>3, <2>4, <2>5 DEF x, y
<1>3. Streams(e) = Streams(d)
  BY <1>1 DEF Streams
<1>4. Kin(e)
  BY <1>1, <1>2, <1>3 DEF Kin, RsetKin, ServesAll, Serves
<1>5. DeadKept(d, e, {})
  BY <1>1, <1>2 DEF DeadKept
<1>6. AllBacked(e, new, {t})
  BY <1>1, <1>2 DEF AllBacked, BackedIn
<1> QED
  BY <1>4, <1>5, <1>6

-----------------------------------------------------------------------------
(* pa_resource_stream_update and pa_resource_stream_remove.                *)
LEMMA StreamFoundKin ==
  ASSUME NEW d, Good(d), Kin(d), Room(d), NEW n \in Node, NEW e, e = StreamFound(d, n)
  PROVE  Kin(e) /\ Carried(d, e, {})
<1> DEFINE k == KeyOf[n]
           name == IF k \in Name THEN k ELSE None
           id == IF k \in Id THEN k ELSE None
           s == IF k \in Id THEN d.sid[k] ELSE d.sname[k]
           r == IF k \in Id THEN d.rid[k] ELSE d.rname[k]
           new == NewStream(d)
           bare == StreamEntry(d, None, None, n)
           alone == Loosened(bare, s, k \in Id, id, name)
           node == NodeSet(d, s, n, n, s)
           joined == Linked(alone, r, new)
           failed == StreamEntryFailed(d, name, id)
           f == StreamEntry(d, name, id, n)
           g == RsetEntry(f, name, id)
           paired == Linked(g, NewRset(d), new)
<1>0. /\ d \in DbType /\ Whole(d) /\ Partnered(d, {}, {}) /\ Faithful(d)
      /\ Rsets(d) # RsetObj /\ Streams(d) # StreamObj
  BY GoodIsWhole DEF Whole, Room
<1>1. /\ k \in Name \cup Id /\ (k \in Id => k \notin Name)
      /\ name \in NameOrNone /\ id \in IdOrNone /\ name \in Name \cup {None}
      /\ (id # None \/ name # None) /\ (k \in Id <=> id # None)
      /\ None \in NameOrNone /\ None \in IdOrNone /\ k # None /\ n # None
      /\ (id # None => id = k /\ name = None) /\ (name # None => name = k /\ id = None)
  BY ResourceConfig, Constants DEF NameOrNone, IdOrNone
<1>2. e = IF d.snode[n] # None THEN d
          ELSE IF s # None /\ d.stream[s].node = None THEN node
          ELSE IF r # None THEN joined
          ELSE IF s # None THEN failed
          ELSE paired
  <2> DEFINE loose == [bare EXCEPT
                         !.sid = Drop(@, id), !.sname = Drop(@, name),
                         !.stream = [o \in StreamObj |->
                                       IF o = s THEN WithoutKey(@[o], k \in Id) ELSE @[o]]]
  <2>1. e = IF d.snode[n] # None THEN d
            ELSE IF s # None /\ d.stream[s].node = None
                 THEN [d EXCEPT !.stream[s].node = n, !.snode[n] = s]
            ELSE IF r # None THEN Linked(loose, r, new)
            ELSE IF s # None THEN failed
            ELSE paired
    BY DEF StreamFound
  <2>3. loose = alone
    BY DEF Loosened
  <2>4. node = [d EXCEPT !.stream[s].node = n, !.snode[n] = s]
    BY DEF NodeSet
  <2> HIDE DEF node, loose, alone, failed, paired
  <2> QED
    BY <2>1, <2>3, <2>4
<1>3. /\ s # None => s \in Streams(d) /\ k \in {d.stream[s].name, d.stream[s].id}
      /\ r # None => /\ r \in Rsets(d)
                     /\ IF k \in Id THEN d.rset[r].id = k ELSE d.rset[r].name = k
  BY <1>0, <1>1 DEF Faithful, RsetsFaithful, StreamsFaithful
<1>4. CASE d.snode[n] = None /\ s # None /\ d.stream[s].node = None /\ e = node
  <2> HIDE DEF s
  <2> DEFINE S == IF n = n THEN {} ELSE {s}
  <2>1. Kin(e) /\ Carried(d, e, S)
    BY <1>3, <1>4, NodeSetKin
  <2>2. S = {}
    OBVIOUS
  <2> HIDE DEF S, node
  <2> QED
    BY <2>1, <2>2
<1>5. CASE d.snode[n] = None /\ r # None /\ e = joined
  <2>1. StreamAdded(d, bare, None, None, n, {}) /\ Kin(bare) /\ Carried(d, bare, {})
    <3>1. StreamAdded(d, bare, None, None, n, {})
      BY <1>0, <1>1, <1>5, StreamEntryWhole
    <3> HIDE DEF bare
    <3>2. Kin(bare) /\ Carried(d, bare, {})
      BY <1>0, <1>1, <1>5, <3>1, StreamEntryKin
    <3> QED
      BY <3>1, <3>2
  <2>2. s = IF id # None THEN bare.sid[id] ELSE bare.sname[name]
    <3>1. bare.sid = d.sid /\ bare.sname = d.sname
      BY <2>1 DEF StreamAdded, Put
    <3> QED
      BY <1>1, <3>1
  <2>9. Serves(d.rset[r], k)
    <3>1. RsetKin(d.rset[r])
      BY <1>3, <1>5 DEF Kin
    <3> QED
      BY <1>1, <1>3, <1>5, <3>1 DEF Serves, RsetKin
  <2> HIDE DEF s, bare, name, id, new, r
  <2>3. /\ Whole(bare) /\ Partnered(bare, {}, {NewStream(d)}) /\ NewStream(d) \in Streams(bare)
        /\ Rsets(bare) = Rsets(d) /\ bare.rset = d.rset
        /\ NewStream(d) \notin Streams(d)
        /\ bare.stream[NewStream(d)] = FreshStream(None, None, n)
    BY <2>1 DEF StreamAdded
  <2>4. /\ Whole(alone) /\ Partnered(alone, {}, {NewStream(d)})
        /\ Rsets(alone) = Rsets(bare) /\ Streams(alone) = Streams(bare)
        /\ alone.rset = bare.rset /\ Kin(alone) /\ Carried(bare, alone, {})
        /\ alone.stream[NewStream(d)].name = None /\ alone.stream[NewStream(d)].id = None
        /\ alone.stream[NewStream(d)].node = n
    <3> DEFINE byId == k \in Id
    <3>1. byId \in BOOLEAN /\ (byId <=> id # None)
      BY <1>1
    <3> HIDE DEF byId
    <3>2. alone = Loosened(bare, s, byId, id, name)
      BY DEF byId
    <3> HIDE DEF alone, k
    <3>3. /\ Whole(alone) /\ Partnered(alone, {}, {NewStream(d)})
          /\ Rsets(alone) = Rsets(bare) /\ Streams(alone) = Streams(bare) /\ alone.rset = bare.rset
          /\ \A q \in Streams(bare) : alone.stream[q].rsets = bare.stream[q].rsets
          /\ \A q \in Streams(bare) : /\ alone.stream[q].name \in {None, bare.stream[q].name}
                                      /\ alone.stream[q].id \in {None, bare.stream[q].id}
                                      /\ alone.stream[q].node = bare.stream[q].node
          /\ alone.rid = bare.rid /\ alone.snode = bare.snode
      BY <1>1, <2>2, <2>3, <3>1, <3>2, LoosenedWhole
    <3>4. Kin(alone) /\ Carried(bare, alone, {})
      BY <2>1, <3>3, LoosenedKin
    <3>5. /\ alone.stream[NewStream(d)].name = None /\ alone.stream[NewStream(d)].id = None
          /\ alone.stream[NewStream(d)].node = n
      BY <2>3, <3>3 DEF FreshStream
    <3> QED
      BY <3>3, <3>4, <3>5
  <2> HIDE DEF alone
  <2>5. NewStream(d) \notin ToSet(alone.rset[r].streams)
    <3>1. d.rset[r] \in RsetType
      BY <1>0, <1>3, <1>5, Entries
    <3>2. ToSet(d.rset[r].streams) \subseteq StreamObj
      BY <3>1, ElementsOfList DEF RsetType
    <3>3. ToSet(d.rset[r].streams) \subseteq Streams(d)
      BY <1>0, <1>3, <1>5, <3>2 DEF Whole, LinksOk
    <3> QED
      BY <2>3, <2>4, <3>3
  <2>6. /\ Rsets(e) = Rsets(alone) /\ Streams(e) = Streams(alone)
        /\ Partnered(e, {} \ {r}, {NewStream(d)} \ {NewStream(d)})
    BY <1>3, <1>5, <2>3, <2>4, <2>5, LinkedWhole DEF new
  <2>7. ServesAll(alone.rset[r], alone.stream[NewStream(d)])
    <3>1. KeysOf(alone.stream[NewStream(d)]) = {k}
      BY <1>1, <2>4, NoneIsNoKey DEF KeysOf
    <3> QED
      BY <2>3, <2>4, <2>9, <3>1 DEF ServesAll
  <2>8. Kin(e) /\ Carried(alone, e, {})
    BY <1>3, <1>5, <2>3, <2>4, <2>6, <2>7, LinkedKin DEF new
  <2>10. Carried(d, alone, {} \cup {})
    BY <2>1, <2>4, CarriedOn
  <2>11. Carried(d, e, ({} \cup {}) \cup {})
    BY <2>8, <2>10, CarriedOn
  <2> QED
    BY <2>8, <2>11, ({} \cup {}) \cup {} = {}
<1>6. CASE e = failed
  BY <1>0, <1>1, <1>6, StreamEntryFailedKin
<1>7. CASE d.snode[n] = None /\ r = None /\ e = paired
  <2>0. id # None => d.rid[id] = None
    BY <1>1, <1>7
  <2>1. StreamAdded(d, f, name, id, n, {}) /\ Kin(f) /\ Carried(d, f, {})
    <3>1. StreamAdded(d, f, name, id, n, {})
      BY <1>0, <1>1, <1>7, StreamEntryWhole
    <3> HIDE DEF f, name, id, k
    <3>2. Kin(f) /\ Carried(d, f, {})
      BY <1>0, <1>1, <1>7, <3>1, StreamEntryKin DEF k
    <3> QED
      BY <3>1, <3>2
  <2>2. Whole(f) /\ Partnered(f, {}, {NewStream(d)}) /\ f.rset = d.rset /\ Rsets(f) = Rsets(d)
        /\ NewStream(d) \in Streams(f) /\ f.rid = d.rid /\ f \in DbType
        /\ f.stream[NewStream(d)] = FreshStream(name, id, n)
    BY <2>1 DEF StreamAdded, Whole
  <2>3. NewRset(f) = NewRset(d)
    BY <2>2 DEF NewRset
  <2> HIDE DEF f, name, id, r
  <2>4. RsetAdded(f, g, name, id, {NewStream(d)}) /\ Kin(g) /\ Carried(f, g, {})
    <3>1. RsetAdded(f, g, name, id, {NewStream(d)})
      BY <1>0, <1>1, <2>2, RsetEntryWhole
    <3> HIDE DEF g
    <3>2. Kin(g) /\ Carried(f, g, {})
      BY <1>1, <2>0, <2>1, <2>2, <3>1, RsetEntryKin
    <3> QED
      BY <3>1, <3>2
  <2> DEFINE q == NewRset(f)
  <2>5. /\ Whole(g) /\ Partnered(g, {q}, {NewStream(d)}) /\ q \in Rsets(g)
        /\ NewStream(d) \in Streams(g) /\ g.rset[q] = FreshRset(name, id)
        /\ g.rset[q].streams = <<>> /\ g.stream[NewStream(d)] = FreshStream(name, id, n)
    BY <2>2, <2>4 DEF RsetAdded, FreshRset
  <2> HIDE DEF g, q
  <2>6. /\ Rsets(e) = Rsets(g) /\ Streams(e) = Streams(g)
        /\ Partnered(e, {q} \ {q}, {NewStream(d)} \ {NewStream(d)})
    BY <1>7, <2>3, <2>5, EmptyList, LinkedWhole DEF q, new
  <2>7. ServesAll(g.rset[q], g.stream[NewStream(d)])
    <3> HIDE DEF k
    <3>1. KeysOf(FreshStream(name, id, n)) \subseteq {k}
      BY <1>1, NoneIsNoKey DEF KeysOf, FreshStream, k
    <3>2. Serves(FreshRset(name, id), k)
      BY <1>1, FreshServes
    <3> QED
      BY <2>5, <3>1, <3>2 DEF ServesAll
  <2>8. Kin(e) /\ Carried(g, e, {})
    BY <1>7, <2>3, <2>4, <2>5, <2>6, <2>7, LinkedKin DEF q, new
  <2>9. Carried(d, g, {} \cup {})
    BY <2>1, <2>4, CarriedOn
  <2>10. Carried(d, e, ({} \cup {}) \cup {})
    BY <2>8, <2>9, CarriedOn
  <2> QED
    BY <2>8, <2>10, ({} \cup {}) \cup {} = {}
<1>8. CASE e = d
  BY <1>8, CarriedSame
<1> HIDE DEF node, joined, failed, paired, s, r
<1> QED
  BY <1>2, <1>4, <1>5, <1>6, <1>7, <1>8

LEMMA StreamGoneKin ==
  ASSUME NEW d, Good(d), Kin(d), NEW n \in Node, NEW f, f = StreamGone(d, n)
  PROVE  Kin(f) /\ Carried(d, f, {d.snode[n]})
<1> DEFINE s == d.snode[n]
           e == NodeSet(d, s, None, n, None)
           r == Head(d.stream[s].rsets)
           left == StreamEntryFree(Unlinked(e, r, s), s)
           both == RsetEntryFree(StreamEntryFree(e, s), r)
           shared == Len(d.stream[s].rsets) > 1
           busy == Len(d.rset[r].streams) > 1
<1>0. d \in DbType /\ Whole(d) /\ Partnered(d, {}, {}) /\ Faithful(d)
  BY GoodIsWhole DEF Whole
<1>1. f = IF s = None THEN d ELSE IF shared THEN e ELSE IF busy THEN left
          ELSE IF d.rset[r].dead THEN both ELSE e
  <2> DEFINE b == [d EXCEPT !.snode[n] = None, !.stream[s].node = None]
  <2>1. b = e
    BY <1>0 DEF NodeSet, DbType
  <2>2. f = IF s = None THEN d ELSE IF shared THEN b
            ELSE IF busy THEN StreamEntryFree(Unlinked(b, r, s), s)
            ELSE IF d.rset[r].dead THEN RsetEntryFree(StreamEntryFree(b, s), r) ELSE b
    BY DEF StreamGone
  <2> HIDE DEF b, e, s, r, shared, busy
  <2> QED
    BY <2>1, <2>2
<1>2. CASE s # None
  <2>1. s \in Streams(d)
    BY <1>0, <1>2 DEF Faithful, StreamsFaithful
  <2>2. /\ d.stream[s].rsets \in Seq(RsetObj) /\ d.stream[s].rsets # <<>>
    BY <1>0, <2>1, Entries DEF StreamType, Partnered
  <2>3. r \in ToSet(d.stream[s].rsets) /\ r \in RsetObj /\ (~shared => ToSet(d.stream[s].rsets) = {r})
    <3> DEFINE k == Len(d.stream[s].rsets)
    <3>1. /\ r \in ToSet(d.stream[s].rsets) /\ k \in Nat /\ k # 0
          /\ k = 1 => ToSet(d.stream[s].rsets) = {r}
      BY <2>2, FirstOfList
    <3>2. r \in RsetObj
      BY <2>2, <3>1, ElementsOfList
    <3>3. shared <=> k > 1
      OBVIOUS
    <3> HIDE DEF k, shared
    <3> QED
      BY <3>1, <3>2, <3>3
  <2>4. r \in Rsets(d) /\ s \in ToSet(d.rset[r].streams)
    BY <1>0, <2>1, <2>3 DEF Whole, LinksOk
  <2>5. ~busy => ToSet(d.rset[r].streams) = {s}
    <3>1. d.rset[r].streams \in Seq(StreamObj)
      BY <1>0, <2>4, Entries DEF RsetType
    <3>2. d.rset[r].streams # <<>>
      BY <2>4, EmptyList
    <3> DEFINE k == Len(d.rset[r].streams)
    <3>3. k \in Nat /\ k # 0 /\ (k = 1 => ToSet(d.rset[r].streams) = {Head(d.rset[r].streams)})
      BY <3>1, <3>2, FirstOfList
    <3>4. busy <=> k > 1
      OBVIOUS
    <3>5. Head(d.rset[r].streams) = s \/ k # 1
      BY <2>4, <3>3
    <3>6. k \in Nat /\ k # 0
      BY <3>3
    <3> HIDE DEF k, busy
    <3>7. ~busy => k = 1
      BY ONLY <3>4, <3>6
    <3> QED
      BY <3>3, <3>5, <3>7
  <2> HIDE DEF s, r, shared, busy
  <2>6. /\ Good(e) /\ Rsets(e) = Rsets(d) /\ Streams(e) = Streams(d) /\ e.rset = d.rset
        /\ \A q \in Streams(d) : e.stream[q].rsets = d.stream[q].rsets
        /\ e.stream[s].node = None /\ Kin(e) /\ Carried(d, e, {s})
    <3>1. d.snode[n] = s
      BY DEF s
    <3>2. /\ Good(e) /\ Rsets(e) = Rsets(d) /\ Streams(e) = Streams(d) /\ e.rset = d.rset
          /\ \A q \in Streams(d) : e.stream[q].rsets = d.stream[q].rsets
          /\ \A q \in Streams(d) : /\ e.stream[q].name = d.stream[q].name
                                   /\ e.stream[q].id = d.stream[q].id
                                   /\ e.stream[q].node = IF q = s THEN None ELSE d.stream[q].node
          /\ e.rid = d.rid /\ \A k \in Node : e.snode[k] = IF k = n THEN None ELSE d.snode[k]
      BY <2>1, <3>1, NodeSetGood
    <3> DEFINE S == IF None = n THEN {} ELSE {s}
    <3>3. S = {s}
      BY NoneIsNoKey
    <3>4. None = n => KeyOf[n] \in {d.stream[s].name, d.stream[s].id}
      BY NoneIsNoKey
    <3> HIDE DEF e
    <3>5. Kin(e) /\ Carried(d, e, S)
      BY <2>1, <3>1, <3>4, NodeSetKin DEF e
    <3> HIDE DEF S
    <3> QED
      BY <2>1, <3>2, <3>3, <3>5
  <2> HIDE DEF e
  <2>7. CASE ~shared /\ busy
    <3> DEFINE u == Unlinked(e, r, s)
    <3>1. Whole(e) /\ Partnered(e, {}, {}) /\ r \in Rsets(e) /\ s \in Streams(e)
          /\ s \in ToSet(e.rset[r].streams)
      BY <2>1, <2>4, <2>6, GoodIsWhole
    <3>2. /\ Whole(u) /\ Rsets(u) = Rsets(e) /\ Streams(u) = Streams(e)
      BY <3>1, UnlinkedWhole DEF UnlinkedFrom
    <3>3. Kin(u) /\ Carried(e, u, {s}) /\ u.stream[s].node = e.stream[s].node
      BY <2>6, <3>1, <3>2, UnlinkedKin
    <3>4. u.stream[s].node = None
      BY <2>6, <3>3
    <3>5. f = StreamEntryFree(u, s)
      BY <1>1, <1>2, <2>7
    <3>6. u \in DbType /\ s \in Streams(u)
      BY <3>1, <3>2 DEF Whole
    <3> HIDE DEF u
    <3>7. Kin(f) /\ Carried(u, f, {})
      BY <3>3, <3>4, <3>5, <3>6, StreamEntryFreeKin
    <3>8. Carried(d, u, {s} \cup {s})
      BY <2>6, <3>3, CarriedOn
    <3>9. Carried(d, f, ({s} \cup {s}) \cup {})
      BY <3>7, <3>8, CarriedOn
    <3> QED
      BY <3>7, <3>9, ({s} \cup {s}) \cup {} = {s} DEF s
  <2>8. CASE ~shared /\ ~busy /\ d.rset[r].dead
    <3> DEFINE u == StreamEntryFree(e, s)
    <3>1. f = RsetEntryFree(u, r)
      BY <1>1, <1>2, <2>8
    <3>2. e \in DbType /\ s \in Streams(e)
      BY <2>1, <2>6 DEF Good
    <3>3. u \in DbType /\ u.rset = e.rset
      BY <3>2, StreamEntryFreeFields
    <3>4. Kin(u) /\ Carried(e, u, {})
      BY <2>6, <3>2, StreamEntryFreeKin
    <3> HIDE DEF u
    <3>5. r \in Rsets(u) /\ ToSet(u.rset[r].streams) = {s}
      BY <2>4, <2>5, <2>6, <2>8, <3>3 DEF Rsets
    <3>6. Kin(f) /\ Carried(u, f, {s})
      BY <3>1, <3>3, <3>4, <3>5, RsetEntryFreeKin
    <3>7. Carried(d, u, {s} \cup {})
      BY <2>6, <3>4, CarriedOn
    <3>8. Carried(d, f, ({s} \cup {}) \cup {s})
      BY <3>6, <3>7, CarriedOn
    <3> QED
      BY <3>6, <3>8, ({s} \cup {}) \cup {s} = {s} DEF s
  <2>9. CASE f = e
    BY <2>6, <2>9 DEF s
  <2> QED
    BY <1>1, <1>2, <2>7, <2>8, <2>9
<1>3. CASE s = None
  <2>1. f = d
    BY <1>1, <1>3
  <2>2. Kin(f) /\ Carried(d, f, {})
    BY <2>1, CarriedSame
  <2> QED
    BY <2>2 DEF Carried, DeadKept
<1> HIDE DEF s
<1> QED
  BY <1>2, <1>3

-----------------------------------------------------------------------------
(* What lets a stream run: a row of the table, or an rset that was relaxed *)
(* when it left it.                                                        *)
MayRunIn(d, tab, n) ==
  \/ \E row \in tab[TypeOfNode[n]] : Controls(row, n) /\ (row.grant \/ row.policy = "relaxed")
  \/ \E r \in Rsets(d) : /\ d.rset[r].dead /\ d.rset[r].policy[TypeOfNode[n]] = "relaxed"
                         /\ d.snode[n] \in ToSet(d.rset[r].streams)

LEMMA MayStillRun ==
  ASSUME NEW d, NEW e, NEW S, DeadKept(d, e, S), NEW n \in Node,
         d.snode[n] # None, d.snode[n] \notin S, NEW tab, MayRunIn(d, tab, n),
         NEW new, new[TypeOfNode[n]] = tab[TypeOfNode[n]]
  PROVE  e.snode[n] # None /\ MayRunIn(e, new, n)
BY DEF DeadKept, MayRunIn

(* The rsets of a stream that is found by its node have the rows that its  *)
(* key asks for, so whatever makes it run is one of them.                  *)
LEMMA EnforcedRight ==
  ASSUME NamesSteady, NEW d, Good(d), Kin(d), NEW tab, AllBacked(d, tab, {}),
         NEW n \in Node, d.snode[n] # None, NEW t, t = TypeOfNode[n],
         tab[t] \subseteq Sent, Request(d, n, t) = "RUN"
  PROVE  MayRunIn(d, tab, n)
<1> DEFINE s == d.snode[n]
           y == d.stream[s]
           rs == y.rsets
<1>1. s \in Streams(d) /\ y.node = n /\ d \in DbType /\ t \in Type
  BY ResourceConfig DEF Good, Faithful, StreamsFaithful
<1>2. y \in StreamType /\ rs \in Seq(RsetObj) /\ rs # <<>>
  BY <1>1, Entries, GoodIsWhole DEF StreamType, Partnered
<1>3. rs[1] \in ToSet(rs)
  <2>1. Head(rs) \in ToSet(rs) /\ Head(rs) = rs[1]
    BY <1>2, FirstOfList
  <2> QED
    BY <2>1
<1>4. ASSUME NEW r \in ToSet(rs)
      PROVE  /\ r \in Rsets(d) /\ s \in ToSet(d.rset[r].streams)
             /\ RsetKin(d.rset[r]) /\ Serves(d.rset[r], KeyOf[n])
  <2>1. r \in RsetObj
    BY <1>2, ElementsOfList
  <2>2. r \in Rsets(d) /\ s \in ToSet(d.rset[r].streams)
    BY <1>1, <2>1 DEF Good, Mutual
  <2>3. ServesAll(d.rset[r], y) /\ RsetKin(d.rset[r])
    BY <1>1, <2>2 DEF Kin
  <2>4. KeyOf[n] \in KeysOf(y)
    BY <1>1, NoneIsNoKey DEF KeysOf
  <2> QED
    BY <2>2, <2>3, <2>4 DEF ServesAll
<1>5. PICK r \in ToSet(rs) : t \in d.rset[r].grant \/ d.rset[r].policy[t] = "relaxed"
  BY <1>3 DEF Request
<1> HIDE DEF rs
<1>6. RsetKin(d.rset[r]) /\ d.rset[r].id # None
  <2>1. t \in d.rset[r].type
    BY <1>1, <1>4, <1>5 DEF RsetKin
  <2> QED
    BY <1>4, <2>1 DEF RsetKin
<1>7. CASE d.rset[r].dead
  BY <1>4, <1>5, <1>6, <1>7 DEF MayRunIn, RsetKin
<1>8. CASE ~d.rset[r].dead
  <2>1. PICK row \in tab[t] : /\ row.id = d.rset[r].id /\ (t \in d.rset[r].grant => row.grant)
                              /\ d.rset[r].policy[t] = "relaxed" => row.policy = "relaxed"
    BY <1>1, <1>4, <1>5, <1>8 DEF AllBacked, BackedIn
  <2>2. KeyOf[n] = row.id \/ Named(row.id, KeyOf[n])
    BY <1>4, <1>6, <2>1 DEF Serves
  <2>3. Named(row.id, KeyOf[n]) => KeyOf[n] = row.name
    BY <2>1 DEF Named, NamesSteady
  <2>4. Controls(row, n)
    BY <2>2, <2>3 DEF Controls
  <2> QED
    BY <1>5, <2>1, <2>4 DEF MayRunIn
<1> QED
  BY <1>7, <1>8

-----------------------------------------------------------------------------
(* The inductive invariant of the grants.  While a notification is worked  *)
(* on, the entries of its kind answer to the new table only as far as they *)
(* are updated, and the streams of its kind are not yet told.              *)
TablesSent ==
  /\ \A t \in Type : table[t] \subseteq Sent
  /\ todo \subseteq table[kind] /\ (phase # "rows" => todo = {})

PowersBacked ==
  /\ phase = "idle" => AllBacked(db, table, {})
  /\ phase # "idle" => AllBacked(db, table, {kind})

RunsAllowed ==
  \A n \in Node : req[n] = "RUN" =>
    db.snode[n] # None /\ (phase = "idle" \/ TypeOfNode[n] # kind => MayRunIn(db, table, n))

GInv == Kin(db) /\ TablesSent /\ PowersBacked /\ RunsAllowed

LEMMA StillAllowed ==
  ASSUME RunsAllowed, DeadKept(db, db', {}), UNCHANGED <<req, table, phase, kind>>
  PROVE  RunsAllowed'
<1> SUFFICES ASSUME NEW n \in Node, req[n] = "RUN"
             PROVE  /\ db'.snode[n] # None
                    /\ phase = "idle" \/ TypeOfNode[n] # kind => MayRunIn(db', table, n)
  BY DEF RunsAllowed, MayRunIn
<1>1. db.snode[n] # None /\ db'.snode[n] = db.snode[n]
  BY DEF RunsAllowed, DeadKept
<1>2. CASE phase = "idle" \/ TypeOfNode[n] # kind
  <2>1. MayRunIn(db, table, n)
    BY <1>2 DEF RunsAllowed
  <2> QED
    BY <1>1, <2>1, MayStillRun
<1> QED
  BY <1>1, <1>2

LEMMA GrantsInductive ==
  ASSUME NamesSteady, NumberedAlone, IInv, GInv, [Next]_vars
  PROVE  GInv'
<1>0. /\ Good(db) /\ Kin(db) /\ kind \in Type /\ TypeOfNode \in [Node -> Type]
      /\ table \in [Type -> SUBSET Row] /\ req \in [Node -> {"none", "RUN", "BLOCK", "KILL"}]
  BY ResourceConfig DEF IInv, Others, GInv
<1>1. ASSUME NEW t \in Type, NEW rows \in Tables[t], Notification(t, rows) PROVE GInv'
  <2>1. db' = Stale(db)
    BY <1>1 DEF Notification, Stale, StaleEntry
  <2>2. /\ table' = [table EXCEPT ![t] = rows] /\ req' = req /\ todo' = rows
        /\ phase = "idle" /\ phase' = "rows" /\ kind' = t
    BY <1>1 DEF Notification
  <2>3. table'[t] = rows /\ \A u \in Type : u # t => table'[u] = table[u]
    BY <1>0, <2>2
  <2>4. Kin(db') /\ DeadKept(db, db', {}) /\ AllBacked(db', table', {t})
    <3>1. AllBacked(db, table, {})
      BY <2>2 DEF GInv, PowersBacked
    <3> QED
      BY <1>0, <2>1, <2>3, <3>1, StaleKin
  <2>5. TablesSent'
    <3>1. rows \subseteq Sent
      BY DEF Sent
    <3> QED
      BY <2>2, <2>3, <3>1 DEF GInv, TablesSent
  <2>6. RunsAllowed'
    <3> SUFFICES ASSUME NEW n \in Node, req[n] = "RUN"
                 PROVE  db'.snode[n] # None /\ (TypeOfNode[n] # t => MayRunIn(db', table', n))
      BY <2>2 DEF RunsAllowed, MayRunIn
    <3>1. db.snode[n] # None /\ MayRunIn(db, table, n)
      BY <2>2 DEF GInv, RunsAllowed
    <3>2. db'.snode[n] # None
      BY <2>4, <3>1 DEF DeadKept
    <3>3. CASE TypeOfNode[n] # t
      <4>1. table'[TypeOfNode[n]] = table[TypeOfNode[n]]
        BY <1>0, <2>3, <3>3
      <4> QED
        BY <2>4, <3>1, <4>1, MayStillRun
    <3> QED
      BY <3>2, <3>3
  <2> QED
    BY <2>2, <2>4, <2>5, <2>6 DEF GInv, PowersBacked
<1>2. ASSUME NEW row \in todo, RsetUpdate(row) PROVE GInv'
  <2>1. /\ db' = RsetUpdated(db, row, kind) /\ Room(db) /\ phase = "rows" /\ todo' = todo \ {row}
        /\ UNCHANGED <<req, table, phase, kind>>
    BY <1>2 DEF RsetUpdate
  <2>2. row \in table[kind] /\ row \in Sent /\ row \in Row
    BY <1>0 DEF GInv, TablesSent
  <2>3. Kin(db') /\ AllBacked(db', table, {kind}) /\ DeadKept(db, db', {})
    <3>1. AllBacked(db, table, {kind})
      BY <2>1 DEF GInv, PowersBacked
    <3> QED
      BY <1>0, <2>1, <2>2, <3>1, RsetUpdatedKin
  <2>4. RunsAllowed'
    BY <2>1, <2>3, StillAllowed DEF GInv
  <2> QED
    BY <2>1, <2>3, <2>4 DEF GInv, TablesSent, PowersBacked
<1>3. CASE RowsDone
  BY <1>3 DEF RowsDone, GInv, TablesSent, PowersBacked, RunsAllowed, MayRunIn
<1>4. ASSUME NEW r \in RsetObj, Purge(r) PROVE GInv'
  <2>1. /\ db' = RsetDead(db, r) /\ r \in Rsets(db) /\ phase = "purge"
        /\ UNCHANGED <<req, table, phase, kind, todo>>
    BY <1>4 DEF Purge, Purgeable
  <2>2. Kin(db') /\ Carried(db, db', {})
    BY <1>0, <2>1, RsetDeadKin
  <2>3. AllBacked(db', table, {kind})
    BY <2>1, <2>2, CarriedBacked DEF GInv, PowersBacked, Carried
  <2>4. RunsAllowed'
    BY <2>1, <2>2, StillAllowed DEF GInv, Carried
  <2> QED
    BY <2>1, <2>2, <2>3, <2>4 DEF GInv, TablesSent, PowersBacked
<1>5. CASE PurgeDone
  <2>1. /\ Purgeable = {} /\ phase = "purge" /\ phase' = "idle" /\ req' = Enforced(db, kind)
        /\ UNCHANGED <<db, table, kind, todo>>
    BY <1>5 DEF PurgeDone
  <2>2. AllBacked(db, table, {})
    <3> SUFFICES ASSUME NEW r \in Rsets(db), NEW t \in Type, ~db.rset[r].dead,
                        t \in db.rset[r].grant \/ db.rset[r].policy[t] = "relaxed"
                 PROVE  t = kind => db.rset[r].updated
      BY <2>1 DEF GInv, PowersBacked, AllBacked
    <3>1. t \in db.rset[r].type /\ db.rset[r].id # None /\ db.rid[db.rset[r].id] = r
      BY <1>0 DEF Kin, RsetKin
    <3>2. db.rset[r].id \in Id
      BY <1>0, <3>1, Entries DEF Good, RsetType
    <3> QED
      BY <2>1, <3>1, <3>2 DEF Purgeable
  <2>3. RunsAllowed'
    <3> SUFFICES ASSUME NEW n \in Node, req'[n] = "RUN"
                 PROVE  db.snode[n] # None /\ MayRunIn(db, table, n)
      BY <2>1 DEF RunsAllowed, MayRunIn
    <3>1. CASE db.snode[n] # None /\ TypeOfNode[n] = kind
      <4>1. Request(db, n, kind) = "RUN"
        BY <2>1, <3>1 DEF Enforced
      <4>2. table[kind] \subseteq Sent
        BY <1>0 DEF GInv, TablesSent
      <4> QED
        BY <1>0, <2>2, <3>1, <4>1, <4>2, EnforcedRight
    <3>2. CASE ~(db.snode[n] # None /\ TypeOfNode[n] = kind)
      <4>1. req[n] = "RUN"
        BY <2>1, <3>2 DEF Enforced
      <4> QED
        BY <3>2, <4>1 DEF GInv, RunsAllowed
    <3> QED
      BY <3>1, <3>2
  <2> QED
    BY <2>1, <2>2, <2>3 DEF GInv, TablesSent, PowersBacked
<1>6. ASSUME NEW n \in Node, AddNode(n) PROVE GInv'
  <2> DEFINE t == TypeOfNode[n]
  <2>1. /\ db' = StreamFound(db, n) /\ Room(db) /\ phase = "idle"
        /\ req' = IF db'.snode[n] # None THEN Enforced(db', t) ELSE req
        /\ UNCHANGED <<table, phase, kind, todo>>
    BY <1>6 DEF AddNode
  <2>2. Good(db') /\ Kin(db') /\ Carried(db, db', {})
    BY <1>0, <2>1, StreamFoundGood, StreamFoundKin
  <2>3. AllBacked(db', table, {})
    BY <2>1, <2>2, CarriedBacked DEF GInv, PowersBacked, Carried
  <2>4. RunsAllowed'
    <3> SUFFICES ASSUME NEW m \in Node, req'[m] = "RUN"
                 PROVE  db'.snode[m] # None /\ MayRunIn(db', table, m)
      BY <2>1 DEF RunsAllowed, MayRunIn
    <3>1. CASE db'.snode[n] # None /\ db'.snode[m] # None /\ TypeOfNode[m] = t
      <4>1. Request(db', m, t) = "RUN"
        BY <2>1, <3>1 DEF Enforced
      <4>2. table[t] \subseteq Sent
        BY <1>0 DEF GInv, TablesSent
      <4> QED
        BY <2>2, <2>3, <3>1, <4>1, <4>2, EnforcedRight
    <3>2. CASE ~(db'.snode[n] # None /\ db'.snode[m] # None /\ TypeOfNode[m] = t)
      <4>1. req[m] = "RUN"
        BY <2>1, <3>2 DEF Enforced
      <4>2. db.snode[m] # None /\ MayRunIn(db, table, m)
        BY <2>1, <4>1 DEF GInv, RunsAllowed
      <4> QED
        BY <2>2, <4>2, MayStillRun DEF Carried
    <3> QED
      BY <3>1, <3>2
  <2> QED
    BY <2>1, <2>2, <2>3, <2>4 DEF GInv, TablesSent, PowersBacked
<1>7. ASSUME NEW n \in Node, DeleteNode(n) PROVE GInv'
  <2>1. /\ db' = StreamGone(db, n) /\ phase = "idle" /\ req' = [req EXCEPT ![n] = "none"]
        /\ UNCHANGED <<table, phase, kind, todo>>
    BY <1>7 DEF DeleteNode
  <2>2. Kin(db') /\ Carried(db, db', {db.snode[n]})
    BY <1>0, <2>1, StreamGoneKin
  <2>3. AllBacked(db', table, {})
    BY <2>1, <2>2, CarriedBacked DEF GInv, PowersBacked, Carried
  <2>4. RunsAllowed'
    <3> SUFFICES ASSUME NEW m \in Node, req'[m] = "RUN"
                 PROVE  db'.snode[m] # None /\ MayRunIn(db', table, m)
      BY <2>1 DEF RunsAllowed, MayRunIn
    <3>1. m # n /\ req[m] = "RUN"
      BY <1>0, <2>1
    <3>2. db.snode[m] # None /\ MayRunIn(db, table, m)
      BY <2>1, <3>1 DEF GInv, RunsAllowed
    <3>3. db.snode[m] # db.snode[n]
      BY <1>0, <3>1, <3>2 DEF Good, Faithful, StreamsFaithful
    <3> QED
      BY <2>2, <3>2, <3>3, MayStillRun DEF Carried
  <2> QED
    BY <2>1, <2>2, <2>3, <2>4 DEF GInv, TablesSent, PowersBacked
<1>8. CASE UNCHANGED vars
  BY <1>8 DEF vars, GInv, TablesSent, PowersBacked, RunsAllowed, MayRunIn
<1> QED
  BY <1>1, <1>2, <1>3, <1>4, <1>5, <1>6, <1>7, <1>8 DEF Next

(* pa_resource_enforce_policies: whatever rsets and streams come and go,   *)
(* in either order and with any number on either side, the grants of a     *)
(* stream's rsets are those of the rows it asked for.  So no stream runs   *)
(* that neither its rows in Murphy's table nor an rset that was relaxed    *)
(* when it left the table let run, provided that an id keeps its name in   *)
(* Murphy's tables and that the rset of a stream that asked by number      *)
(* shares its name with no other.                                          *)
THEOREM UngrantedNeverRun ==
  ASSUME NamesSteady, NumberedAlone
  PROVE  Spec => []NothingRunsUngranted
<1>1. Init => GInv
  <2> SUFFICES ASSUME Init PROVE GInv
    OBVIOUS
  <2>1. Rsets(db) = {} /\ Streams(db) = {}
    BY DEF Init, InitDb, Rsets, Streams
  <2>2. Kin(db) /\ AllBacked(db, table, {})
    BY <2>1 DEF Kin, AllBacked
  <2>3. TablesSent /\ RunsAllowed
    BY DEF Init, TablesSent, RunsAllowed
  <2> QED
    BY <2>2, <2>3 DEF Init, GInv, PowersBacked
<1>2. IInv /\ GInv /\ [Next]_vars => GInv'
  BY GrantsInductive
<1>3. IInv /\ GInv => NothingRunsUngranted
  BY DEF IInv, Others, GInv, RunsAllowed, MayRunIn, NothingRunsUngranted, Controllers
<1> QED
  BY <1>1, <1>2, <1>3, Invariant, PTL DEF Spec
=============================================================================
