SPECIFICATION FairSpec
CONSTANTS
  a1 = a1
  a2 = a2
  b1 = b1
  c1 = c1
  a = a
  b = b
  c = c
  Relayer = {r1}
  Envelope = {a1, a2, b1, c1}
  MemoryId = {a, b, c}
  IdOf <- MCIdOf
  Malformed = {}
  Undecodable = {c1}
  Account = {m1}
  Status = {1}
  None = none
  Garbled = garbled
  StartBlock = 2
  CountLimit = 2
  MaxBlocks = 3
  MaxSink = 2
  MaxCrashes = 1
  MaxRetries = 1
CHECK_DEADLOCK FALSE
INVARIANTS
  TypeOK
  CountAgrees
  MirrorFaithful
  WatchedIsRelayed
  OutboxFirst
  StatusLostNeedsRepeat
PROPERTY AwaitedIsRelayed
