----------------------------- MODULE MCResource -----------------------------
(* Instances of Resource for TLC.                                          *)
EXTENDS Resource, TLC

CONSTANTS play, rec, s1, s2, s3, n1, i1, i2, i3, i4

MCTypeOfNode == [n \in Node |-> IF n = s3 THEN rec ELSE play]
Keys == (s1 :> n1) @@ (s2 :> n1) @@ (s3 :> i3)
MCKeyOf == [n \in Node |-> Keys[n]]

(* i1 and i2 belong to applications that give their rsets the name n1; i3  *)
(* and i4 have no name.                                                    *)
RowOf(i, policy, grant, over) ==
  [id |-> i, name |-> IF i \in {i1, i2} THEN n1 ELSE Empty, policy |-> policy,
   grant |-> grant, over |-> over]
RowsOf(i) ==
  IF i \in {i1, i2} THEN {RowOf(i, "strict", TRUE, FALSE), RowOf(i, "strict", FALSE, FALSE)}
  ELSE {RowOf(i, "strict", TRUE, FALSE), RowOf(i, "strict", FALSE, TRUE),
        RowOf(i, "relaxed", FALSE, FALSE)}
TablesOver(ids) == {rows \in SUBSET UNION {RowsOf(i) : i \in ids} :
                      \A x, y \in rows : x.id = y.id => x = y}
MCTables == [t \in Type |-> TablesOver(Id \cap IF t = rec THEN {i3, i4} ELSE {i1, i2})]

(* What the theorem about grants asks of the tables.                       *)
ASSUME TablesAsProved == NamesSteady /\ NumberedAlone
=============================================================================
