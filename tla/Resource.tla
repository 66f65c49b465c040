------------------------------ MODULE Resource ------------------------------
(***************************************************************************)
(* resource.c: which of Murphy's resource sets ("rsets") controls which    *)
(* stream.  An rset comes as a row of Murphy's resource table (murphyif.c, *)
(* resource_set_notification) and a stream as a node with a resource set   *)
(* id (pa_murphyif_add_node), in either order and with any number on       *)
(* either side: whoever is first gets an incomplete partner that the other *)
(* one completes.  After every change the policy of the rsets is enforced  *)
(* on the streams (stream-state.c).                                        *)
(*                                                                         *)
(* Everything runs in the main loop.  The rows of a notification and the   *)
(* entries to purge are handled one per step, in any order, for neither    *)
(* Murphy's table nor the hash maps promise one.                           *)
(***************************************************************************)
EXTENDS Naturals, Sequences, SequencesExt, FiniteSets, FiniteSetsExt

CONSTANTS
  Type,        \* PA_RESOURCE_PLAYBACK and PA_RESOURCE_RECORDING
  Node,        \* nodes of streams with a resource set id
  TypeOfNode,  \* [Node -> Type]: playback for input nodes, recording for output nodes
  KeyOf,       \* [Node -> Name \cup Id]: "#name" or the number of an rset
  Name,        \* names of rsets
  Id,          \* ids of rsets
  Tables,      \* [Type -> tables Murphy can send: sets of rows]
  IdsReturn,   \* can an id that has left Murphy's tables come back in another one?
  RsetObj,     \* bound: rset entries that exist at one time
  StreamObj,   \* bound: stream entries that exist at one time
  Empty,       \* the empty string: the name of a row without a name
  None         \* NULL, or no entry in a hash map

Policy == {"relaxed", "strict", "unknown"}

(* "over" stands for state == PA_RESOURCE_RELEASE with autorelease.        *)
Row == [id : Id, name : Name \cup {Empty}, policy : Policy, grant : BOOLEAN, over : BOOLEAN]

(* The entries of resource.c, struct rset_entry and struct stream_entry.    *)
RsetType == [name : Name \cup {Empty, None}, id : Id \cup {None},
             streams : Seq(StreamObj), type : SUBSET Type, updated : BOOLEAN,
             dead : BOOLEAN, data : Name \cup {Empty, None},
             policy : [Type -> Policy], grant : SUBSET Type, over : BOOLEAN]

StreamType == [name : Name \cup {Empty, None}, id : Id \cup {None},
               node : Node \cup {None}, rsets : Seq(RsetObj)]

ASSUME ResourceConfig ==
  /\ TypeOfNode \in [Node -> Type] /\ KeyOf \in [Node -> Name \cup Id]
  /\ Name \cap Id = {} /\ Empty \notin Name \cup Id
  /\ None \notin Name \cup Id \cup {Empty} \cup RsetObj \cup StreamObj \cup Node
  /\ None \notin RsetType /\ None \notin StreamType
  /\ IsFiniteSet(RsetObj)
  /\ \A t \in Type : \A rows \in Tables[t] :
       rows \subseteq Row /\ \A x, y \in rows : x.id = y.id => x = y
  /\ IdsReturn \in BOOLEAN

VARIABLES
  db,      \* struct pa_resource, see InitDb
  nodes,   \* nodes that have been added and not yet deleted
  req,     \* [Node -> request last made with pa_stream_state_change]
  table,   \* [Type -> set of rows]: the last table received from Murphy
  phase,   \* "idle", or the loop of resource_set_notification that runs
  kind,    \* the type of resource the notification is about
  gone,    \* ids that were in a table and are not any more
  todo     \* rows of the notification that are not processed yet

vars == <<db, nodes, req, table, gone, phase, kind, todo>>

-----------------------------------------------------------------------------
(* The hash maps are functions to an entry or None.                        *)

Put(map, key, entry) == IF key = None THEN map ELSE [map EXCEPT ![key] = entry]
Drop(map, key) == Put(map, key, None)
Taken(map, key) == key # None /\ map[key] # None

InitDb ==
  [rset   |-> [o \in RsetObj |-> None],          \* the rset entries
   stream |-> [o \in StreamObj |-> None],        \* the stream entries
   rid    |-> [k \in Id |-> None],               \* rsets.id
   rname  |-> [k \in Name \cup {Empty} |-> None],\* rsets.name
   sid    |-> [k \in Id |-> None],               \* streams.id
   sname  |-> [k \in Name \cup {Empty} |-> None],\* streams.name
   snode  |-> [n \in Node |-> None],             \* streams.node
   nres   |-> [t \in Type |-> 0]]                \* rsets.nres

Rsets(d) == {o \in RsetObj : d.rset[o] # None}
Streams(d) == {o \in StreamObj : d.stream[o] # None}
NewRset(d) == CHOOSE o \in RsetObj : d.rset[o] = None
NewStream(d) == CHOOSE o \in StreamObj : d.stream[o] = None

(* Bound: no entry is made when RsetObj or StreamObj is used up.           *)
Room(d) == Rsets(d) # RsetObj /\ Streams(d) # StreamObj

(* rset_entry_new without a duplicate.                                     *)
RsetEntry(d, name, id) ==
  LET r == NewRset(d)
  IN  [d EXCEPT !.rset[r] = [name |-> name, id |-> id, streams |-> <<>>, type |-> {},
                             updated |-> FALSE, dead |-> FALSE, data |-> None,
                             policy |-> [t \in Type |-> "unknown"], grant |-> {},
                             over |-> FALSE],
                !.rname = Put(@, name, r), !.rid = Put(@, id, r)]

(* Mutant: the name of the entry stays in the hash map.                    *)
RsetEntryFreeNamed(d, r) ==
  [d EXCEPT !.rset[r] = None, !.rid = Drop(@, d.rset[r].id)]

(* rset_entry_free.                                                        *)
RsetEntryFree(d, r) ==
  [d EXCEPT !.rset[r] = None,
            !.rname = Drop(@, d.rset[r].name), !.rid = Drop(@, d.rset[r].id)]

(* stream_entry_new without a duplicate.                                   *)
StreamEntry(d, name, id, node) ==
  LET s == NewStream(d)
  IN  [d EXCEPT !.stream[s] = [name |-> name, id |-> id, node |-> node, rsets |-> <<>>],
                !.sname = Put(@, name, s), !.sid = Put(@, id, s),
                !.snode = Put(@, node, s)]

(* stream_entry_new with a duplicate: the new entry is freed again, and    *)
(* with its keys the other entry's place in the hash map.                  *)
StreamEntryFailed(d, name, id) ==
  [d EXCEPT !.sname = Drop(@, name),
            !.sid = IF Taken(d.sname, name) THEN @ ELSE Drop(@, id)]

(* stream_entry_free.                                                      *)
StreamEntryFree(d, s) ==
  [d EXCEPT !.stream[s] = None,
            !.sname = Drop(@, d.stream[s].name), !.sid = Drop(@, d.stream[s].id),
            !.snode = Drop(@, d.stream[s].node)]

Linked(d, r, s) ==
  [d EXCEPT !.rset[r].streams = Append(@, s), !.stream[s].rsets = Append(@, r)]

Without(list, x) == RemoveAt(list, CHOOSE k \in DOMAIN list : list[k] = x)
Unlinked(d, r, s) ==
  [d EXCEPT !.rset[r].streams = Without(@, s), !.stream[s].rsets = Without(@, r)]

-----------------------------------------------------------------------------
(* pa_resource_rset_update: the entry of a row.                            *)

HasName(name) == name \notin {None, Empty}

(* Mutant: the completed entry is not added to the id hash.                *)
RsetCompletedUnhashed(d, row) == [d EXCEPT !.rset[d.rname[row.name]].id = row.id]

(* The stream created an incomplete rset with this name: it gets its id.   *)
RsetCompleted(d, row) ==
  LET r == d.rname[row.name]
  IN  [d EXCEPT !.rset[r].id = row.id, !.rid[row.id] = r]

(* Mutant: the new rset replaces the stream's other rsets.                 *)
RsetJoinsAlone(d, row, s) ==
  LET e == RsetEntry(d, None, row.id)
      r == NewRset(d)
  IN  [e EXCEPT !.rset[r].streams = <<s>>, !.stream[s].rsets = <<r>>]

(* A stream is controlled by several rsets: none of them is found by name. *)
RsetJoins(d, row, s) ==
  LET e == RsetEntry(d, None, row.id)
      f == d.rname[row.name]
      g == IF HasName(row.name) /\ f # None
           THEN [e EXCEPT !.rname[row.name] = None, !.rset[f].name = None]
           ELSE e
  IN  Linked(g, NewRset(d), s)

(* The rset comes first, with an incomplete stream as its partner.  The    *)
(* name is entered in the hash maps even if it is empty; a duplicate is    *)
(* refused, and then the older entry is not found by that name any more.   *)
RsetWithStream(d, row) ==
  LET e == RsetEntry(d, row.name, row.id)
  IN  IF Taken(d.rname, row.name) THEN [d EXCEPT !.rname = Drop(@, row.name)]
      ELSE IF Taken(d.sname, row.name) \/ Taken(d.sid, row.id)
           THEN RsetEntryFree(StreamEntryFailed(e, row.name, row.id), NewRset(d))
           ELSE Linked(StreamEntry(e, row.name, row.id, None), NewRset(d), NewStream(d))

RsetFound(d, row) ==
  LET s == IF HasName(row.name) /\ d.sname[row.name] # None THEN d.sname[row.name]
           ELSE d.sid[row.id]
      r == d.rname[row.name]
  IN  IF d.rid[row.id] # None THEN d
      ELSE IF HasName(row.name) /\ r # None /\ d.rset[r].id = None
           THEN RsetCompleted(d, row)
      ELSE IF s # None THEN RsetJoins(d, row, s)
      ELSE RsetWithStream(d, row)

(* Mutant: the rset is counted at every update.                            *)
RsetUpdatedRecounted(d, row, t) ==
  LET e == RsetFound(d, row)
      r == e.rid[row.id]
  IN  IF r = None \/ e.rset[r].dead THEN e
      ELSE [e EXCEPT !.rset[r].type = @ \cup {t}, !.rset[r].updated = TRUE,
                     !.nres[t] = @ + 1,
                     !.rset[r].data = row.name,
                     !.rset[r].policy[t] = row.policy,
                     !.rset[r].over = row.over,
                     !.rset[r].grant = IF row.grant THEN @ \cup {t} ELSE @ \ {t}]

(* Mutant: the rset is not counted.                                        *)
RsetUpdatedUncounted(d, row, t) ==
  LET e == RsetFound(d, row)
      r == e.rid[row.id]
  IN  IF r = None \/ e.rset[r].dead THEN e
      ELSE [e EXCEPT !.rset[r].type = @ \cup {t}, !.rset[r].updated = TRUE,
                     !.rset[r].data = row.name,
                     !.rset[r].policy[t] = row.policy,
                     !.rset[r].over = row.over,
                     !.rset[r].grant = IF row.grant THEN @ \cup {t} ELSE @ \ {t}]

(* The rest of pa_resource_rset_update and rset_data_copy, which refuses a *)
(* row whose name is not the one the rset had before.                      *)
RsetUpdated(d, row, t) ==
  LET e == RsetFound(d, row)
      r == e.rid[row.id]
      counted == [e EXCEPT !.rset[r].type = @ \cup {t}, !.rset[r].updated = TRUE,
                           !.nres[t] = IF t \in e.rset[r].type THEN @ ELSE @ + 1]
  IN  IF r = None \/ e.rset[r].dead THEN e
      ELSE IF e.rset[r].data \notin {None, row.name} THEN counted
      ELSE [counted EXCEPT !.rset[r].data = row.name,
                           !.rset[r].policy[t] = row.policy,
                           !.rset[r].over = row.over,
                           !.rset[r].grant = IF row.grant THEN @ \cup {t} ELSE @ \ {t}]

(* Mutant: a dead rset keeps what it was granted.                          *)
RsetDeadGranted(d, r) ==
  LET s == Head(d.rset[r].streams)
      e == [d EXCEPT !.nres = [t \in Type |-> IF t \in d.rset[r].type THEN @[t] - 1
                                              ELSE @[t]]]
  IN  IF d.rset[r].dead THEN d
      ELSE IF Len(d.rset[r].streams) > 1 \/ Len(d.stream[s].rsets) = 1
           THEN [e EXCEPT !.rset[r].dead = TRUE]
      ELSE RsetEntryFree(Unlinked(e, r, s), r)

(* rset_entry_is_dead.                                                     *)
RsetDead(d, r) ==
  LET s == Head(d.rset[r].streams)
      e == [d EXCEPT !.nres = [t \in Type |-> IF t \in d.rset[r].type THEN @[t] - 1
                                              ELSE @[t]]]
  IN  IF d.rset[r].dead THEN d
      ELSE IF Len(d.rset[r].streams) > 1 \/ Len(d.stream[s].rsets) = 1
           THEN [e EXCEPT !.rset[r].dead = TRUE, !.rset[r].grant = {}]
      ELSE RsetEntryFree(Unlinked(e, r, s), r)

-----------------------------------------------------------------------------
(* pa_resource_stream_update: the entry of a node, by name or by id.       *)

WithoutKey(entry, byId) == [entry EXCEPT !.id = IF byId THEN None ELSE @,
                                         !.name = IF byId THEN @ ELSE None]

StreamFound(d, n) ==
  LET k == KeyOf[n]
      name == IF k \in Name THEN k ELSE None
      id == IF k \in Id THEN k ELSE None
      s == IF k \in Id THEN d.sid[k] ELSE d.sname[k]
      r == IF k \in Id THEN d.rid[k] ELSE d.rname[k]
      (* an rset controls several streams: none of them is found by key    *)
      alone == [StreamEntry(d, None, None, n) EXCEPT
                  !.sid = Drop(@, id), !.sname = Drop(@, name),
                  !.stream = [o \in StreamObj |->
                                IF o = s THEN WithoutKey(@[o], k \in Id) ELSE @[o]]]
  IN  IF d.snode[n] # None THEN d
      ELSE IF s # None /\ d.stream[s].node = None
           THEN [d EXCEPT !.stream[s].node = n, !.snode[n] = s]
      ELSE IF r # None THEN Linked(alone, r, NewStream(d))
      ELSE IF s # None THEN StreamEntryFailed(d, name, id)
      ELSE Linked(RsetEntry(StreamEntry(d, name, id, n), name, id), NewRset(d), NewStream(d))

(* Mutant: the entry is freed while the rset still refers to it.           *)
StreamGoneLinked(d, n) ==
  LET s == d.snode[n]
      e == [d EXCEPT !.snode[n] = None, !.stream[s].node = None]
      r == Head(d.stream[s].rsets)
  IN  IF s = None THEN d
      ELSE IF Len(d.stream[s].rsets) > 1 THEN e
      ELSE IF Len(d.rset[r].streams) > 1 THEN StreamEntryFree(e, s)
      ELSE IF d.rset[r].dead THEN RsetEntryFree(StreamEntryFree(e, s), r)
      ELSE e

(* pa_resource_stream_remove.                                              *)
StreamGone(d, n) ==
  LET s == d.snode[n]
      e == [d EXCEPT !.snode[n] = None, !.stream[s].node = None]
      r == Head(d.stream[s].rsets)
  IN  IF s = None THEN d
      ELSE IF Len(d.stream[s].rsets) > 1 THEN e
      ELSE IF Len(d.rset[r].streams) > 1 THEN StreamEntryFree(Unlinked(e, r, s), s)
      ELSE IF d.rset[r].dead THEN RsetEntryFree(StreamEntryFree(e, s), r)
      ELSE e

-----------------------------------------------------------------------------
(* pa_resource_enforce_policies and enforce_policy, for one node.          *)
Request(d, n, t) ==
  LET rs == d.stream[d.snode[n]].rsets
      first == d.rset[rs[1]]
      same == \A r \in ToSet(rs) : d.rset[r].policy[t] = first.policy[t]
      policy == IF same THEN first.policy[t] ELSE "strict"
      grant == \E r \in ToSet(rs) : t \in d.rset[r].grant
  IN  CASE policy = "relaxed" -> "RUN"
        [] policy = "strict" /\ first.over -> "KILL"
        [] policy = "strict" /\ ~first.over /\ grant -> "RUN"
        [] OTHER -> "BLOCK"

Enforced(d, t) ==
  [n \in Node |-> IF d.snode[n] # None /\ TypeOfNode[n] = t THEN Request(d, n, t) ELSE req[n]]

-----------------------------------------------------------------------------
Init ==
  /\ db = InitDb
  /\ nodes = {} /\ req = [n \in Node |-> "none"]
  /\ table = [t \in Type |-> {}]
  /\ gone = {}
  /\ phase = "idle" /\ todo = {}
  /\ kind \in Type

Ids(rows) == {row.id : row \in rows}

(* Murphy sends a table.  It numbers rsets consecutively, so an id can     *)
(* only come back when Murphy was restarted.                               *)
Notification(t, rows) ==
  /\ phase = "idle"
  /\ IdsReturn \/ Ids(rows) \cap gone = {}
  /\ gone' = gone \cup (Ids(table[t]) \ Ids(rows))
  /\ phase' = "rows" /\ kind' = t /\ todo' = rows
  /\ table' = [table EXCEPT ![t] = rows]
  /\ db' = [db EXCEPT !.rset = [o \in RsetObj |-> IF @[o] = None THEN None
                                                   ELSE [@[o] EXCEPT !.updated = FALSE]]]
  /\ UNCHANGED <<nodes, req>>

RsetUpdate(row) ==
  /\ phase = "rows" /\ row \in todo /\ Room(db)
  /\ db' = RsetUpdated(db, row, kind)
  /\ todo' = todo \ {row}
  /\ UNCHANGED <<nodes, req, table, gone, phase, kind>>

RowsDone ==
  /\ phase = "rows" /\ todo = {}
  /\ phase' = "purge"
  /\ UNCHANGED <<db, nodes, req, table, gone, kind, todo>>

Purgeable ==
  {r \in Rsets(db) : /\ \E id \in Id : db.rid[id] = r
                     /\ kind \in db.rset[r].type
                     /\ ~db.rset[r].updated /\ ~db.rset[r].dead}

(* pa_resource_purge, one entry of the id hash.                            *)
Purge(r) ==
  /\ phase = "purge" /\ r \in Purgeable
  /\ db' = RsetDead(db, r)
  /\ UNCHANGED <<nodes, req, table, gone, phase, kind, todo>>

(* The policies are enforced at the end of the notification.               *)
PurgeDone ==
  /\ phase = "purge" /\ Purgeable = {}
  /\ req' = Enforced(db, kind)
  /\ phase' = "idle"
  /\ UNCHANGED <<db, nodes, table, gone, kind, todo>>

(* pa_murphyif_add_node for a new stream.                                  *)
AddNode(n) ==
  /\ phase = "idle" /\ n \notin nodes /\ Room(db)
  /\ nodes' = nodes \cup {n}
  /\ db' = StreamFound(db, n)
  /\ req' = IF db'.snode[n] # None THEN Enforced(db', TypeOfNode[n]) ELSE req
  /\ UNCHANGED <<table, gone, phase, kind, todo>>

(* pa_murphyif_delete_node when the stream ends or was killed.             *)
DeleteNode(n) ==
  /\ phase = "idle" /\ n \in nodes
  /\ nodes' = nodes \ {n}
  /\ db' = StreamGone(db, n)
  /\ req' = [req EXCEPT ![n] = "none"]
  /\ UNCHANGED <<table, gone, phase, kind, todo>>

Next ==
  \/ \E t \in Type : \E rows \in Tables[t] : Notification(t, rows)
  \/ \E row \in todo : RsetUpdate(row)
  \/ RowsDone
  \/ \E r \in RsetObj : Purge(r)
  \/ PurgeDone
  \/ \E n \in Node : AddNode(n) \/ DeleteNode(n)

Spec == Init /\ [][Next]_vars

-----------------------------------------------------------------------------
TypeOK ==
  /\ db \in [rset : [RsetObj -> RsetType \cup {None}],
             stream : [StreamObj -> StreamType \cup {None}],
             rid : [Id -> RsetObj \cup {None}], sid : [Id -> StreamObj \cup {None}],
             rname : [Name \cup {Empty} -> RsetObj \cup {None}],
             sname : [Name \cup {Empty} -> StreamObj \cup {None}],
             snode : [Node -> StreamObj \cup {None}], nres : [Type -> Nat]]
  /\ nodes \subseteq Node /\ req \in [Node -> {"none", "RUN", "BLOCK", "KILL"}]
  /\ table \in [Type -> SUBSET Row] /\ todo \subseteq Row /\ kind \in Type
  /\ phase \in {"idle", "rows", "purge"} /\ gone \subseteq Id

(* The links between rsets and streams are mutual and lead to entries that *)
(* exist, and no entry is without a partner: what the pa_asserts on nrset, *)
(* nstream, rsets[0] and streams[0] rely on.                               *)
LinksMutual ==
  /\ \A r \in Rsets(db), s \in StreamObj :
       s \in ToSet(db.rset[r].streams) =>
         s \in Streams(db) /\ r \in ToSet(db.stream[s].rsets)
  /\ \A s \in Streams(db), r \in RsetObj :
       r \in ToSet(db.stream[s].rsets) =>
         r \in Rsets(db) /\ s \in ToSet(db.rset[r].streams)
  /\ \A r \in Rsets(db) : db.rset[r].streams # <<>> /\ IsInjective(db.rset[r].streams)
  /\ \A s \in Streams(db) : db.stream[s].rsets # <<>> /\ IsInjective(db.stream[s].rsets)

(* A hash map never leads to an entry that was freed, or to one that has   *)
(* another key by now: entries are found by what they are.                 *)
HashesFaithful ==
  /\ \A k \in Id : db.rid[k] # None => db.rid[k] \in Rsets(db) /\ db.rset[db.rid[k]].id = k
  /\ \A k \in DOMAIN db.rname :
       db.rname[k] # None => db.rname[k] \in Rsets(db) /\ db.rset[db.rname[k]].name = k
  /\ \A k \in Id : db.sid[k] # None => db.sid[k] \in Streams(db) /\ db.stream[db.sid[k]].id = k
  /\ \A k \in DOMAIN db.sname :
       db.sname[k] # None => db.sname[k] \in Streams(db) /\ db.stream[db.sname[k]].name = k
  /\ \A n \in Node :
       db.snode[n] # None => db.snode[n] \in Streams(db) /\ db.stream[db.snode[n]].node = n
  /\ \A s \in Streams(db) :
       db.stream[s].node # None => db.snode[db.stream[s].node] = s

(* nres is the number of rsets of a type that are alive: every entry is    *)
(* counted once when its type becomes known and once when it dies.         *)
CountersRight ==
  \A t \in Type :
    db.nres[t] = Cardinality({r \in Rsets(db) : t \in db.rset[r].type /\ ~db.rset[r].dead})

Controls(row, n) == KeyOf[n] \in {row.id, row.name}
Controllers(n) == {row \in table[TypeOfNode[n]] : Controls(row, n)}

(* What NothingRunsUngranted asks of Murphy: an rset keeps its name, and a *)
(* stream that wants an rset by its number wants one that shares its name  *)
(* with no other: it would be joined by the others, and share their grants.*)
Sent == UNION {UNION Tables[t] : t \in Type}
NamesSteady == \A x, y \in Sent : x.id = y.id => x.name = y.name
NumberedAlone ==
  \A n \in Node : \A x, y \in Sent :
    KeyOf[n] = x.id /\ x.name # Empty /\ x.name = y.name => x.id = y.id

(* Between notifications no stream runs that Murphy's table does not let   *)
(* run: one of the rows with the stream's name or id grants the resource   *)
(* or has a relaxed policy.  Only an rset that was relaxed when it left    *)
(* the table still lets its stream run, for death resets the grant only.   *)
NothingRunsUngranted ==
  phase = "idle" =>
    \A n \in nodes : req[n] = "RUN" =>
      \/ \E row \in Controllers(n) : row.grant \/ row.policy = "relaxed"
      \/ \E r \in Rsets(db) : /\ db.rset[r].dead
                             /\ db.rset[r].policy[TypeOfNode[n]] = "relaxed"
                             /\ db.snode[n] \in ToSet(db.rset[r].streams)

(* And every stream that Murphy's table grants the resource does run.      *)
GrantedStreamsRun ==
  phase = "idle" =>
    \A n \in nodes :
      (\E row \in Controllers(n) : row.grant /\ ~row.over) => req[n] = "RUN"
=============================================================================
