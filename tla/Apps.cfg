SPECIFICATION FairSpec
CONSTANTS
  c1 = c1
  c2 = c2
  l1 = l1
  bound = bound
  bond = bond
  moved = moved
  Worker = {c1, c2, l1}
  AppOf <- MCAppOf
  Intent = {bound, moved, bond}
  Wants <- MCWants
  Via <- MCVia
  Absent = absent
  Torn = torn
  None = none
  MaxFailures = 1
  MaxRepeats = 1
CHECK_DEADLOCK FALSE
INVARIANTS
  TypeOK
  SignedWithKeptKey
  AnsweredWhole
  LinesAccountedFor
  LastIsRecorded
PROPERTY EventuallyServed
