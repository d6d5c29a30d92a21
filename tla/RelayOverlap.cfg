SPECIFICATION Spec
CONSTANTS
  a1 = a1
  a2 = a2
  b1 = b1
  a = a
  b = b
  Relayer = {r1, r2}
  Envelope = {a1, a2, b1}
  MemoryId = {a, b}
  IdOf <- MCIdOf
  Garbled = garbled
  MaxSource = 2
  MaxSink = 3
  MaxCrashes = 1
CHECK_DEADLOCK FALSE
SYMMETRY Symmetry
INVARIANTS
  TypeOK
  WrittenFirst
