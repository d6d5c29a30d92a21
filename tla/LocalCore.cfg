SPECIFICATION Spec
CONSTANTS
  Worker = {w1, w2}
  plain = plain
  marked = marked
  inOwn = inOwn
  inOther = inOther
  inNone = inNone
  inBad = inBad
  otherKey = otherKey
  ServerKey = serverKey
  Key = {serverKey, otherKey}
  Content = {plain, marked}
  Torn = torn
  Input = {inOwn, inNone, inBad}
  ValidInput = {inOwn, inNone}
  KeyRef <- MCKeyRef
  Decode <- MCDecode
  ForeignBundle <- MCForeignBundle
  None = none
  Garbled = garbled
  MaxRequests = 4
  MaxFailures = 1
SYMMETRY Symmetry
CHECK_DEADLOCK FALSE
INVARIANTS
  TypeOK
  ContentBeforeRecord
  AckedReadable
  AnswersStable
  NoFalseAlarm
  DamageNeedsFailure
PROPERTY ImplementsArchive
