SPECIFICATION FairSpec
CONSTANTS
  Tab = {t1, t2}
  Memory = {m1, m2}
  Binding = {b1}
  None = none
  MaxFetches = 3
  MaxFailures = 1
CHECK_DEADLOCK FALSE
INVARIANTS
  TypeOK
  SelectionIsTitle
  MismatchNeedsLateAnswer
  UrlNamesOpenMemory
PROPERTY LoadingEnds
