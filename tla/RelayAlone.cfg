SPECIFICATION FairSpec
CONSTANTS
  a1 = a1
  a2 = a2
  b1 = b1
  a = a
  b = b
  Relayer = {r1}
  Envelope = {a1, a2, b1}
  MemoryId = {a, b}
  IdOf <- MCIdOf
  Garbled = garbled
  MaxSource = 2
  MaxSink = 5
  MaxCrashes = 2
INVARIANTS
  ReplaySafeAlone
  CrashCostsOneLine
PROPERTY MirroredUnlessTorn
