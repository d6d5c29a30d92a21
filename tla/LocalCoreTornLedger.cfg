SPECIFICATION Spec
CONSTANTS
  Worker = {w1}
  plain = plain
  marked = marked
  inOwn = inOwn
  inOther = inOther
  inNone = inNone
  inBad = inBad
  otherKey = otherKey
  ServerKey = serverKey
  Key = {serverKey, otherKey}
  Content = {plain}
  Torn = torn
  Input = {inOwn}
  ValidInput = {inOwn}
  KeyRef <- MCKeyRef
  Decode <- MCDecode
  ForeignBundle <- NoForeignBundle
  None = none
  Garbled = garbled
  MaxRequests = 2
  MaxFailures = 1
CHECK_DEADLOCK FALSE
INVARIANT AckedDurable
