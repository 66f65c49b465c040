SPECIFICATION Spec
CONSTANTS
  play = play rec = rec
  s1 = s1 s2 = s2 s3 = s3
  n1 = n1
  i1 = i1 i2 = i2 i3 = i3 i4 = i4
  Type = {play, rec}
  Node = {s1, s3}
  TypeOfNode <- MCTypeOfNode
  KeyOf <- MCKeyOf
  Name = {n1}
  Id = {i1, i2, i3}
  Tables <- MCTables
  IdsReturn = FALSE
  RsetObj = {r1, r2, r3, r4}
  StreamObj = {t1, t2, t3, t4}
  Empty = Empty
  None = None
INVARIANTS
  TypeOK
  LinksMutual
  HashesFaithful
  CountersRight
  NothingRunsUngranted
  GrantedStreamsRun
CHECK_DEADLOCK FALSE
