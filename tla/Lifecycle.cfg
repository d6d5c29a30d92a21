SPECIFICATION Spec
CONSTANTS
  Worker = {w1, w2}
  given = given
  GivenName = {given}
  Draft <- MCDraft
  ForeignBundle <- MCForeignBundle
  Torn = torn
  None = none
  Garbled = garbled
  MaxRequests = 3
  MaxFailures = 1
SYMMETRY Symmetry
CHECK_DEADLOCK FALSE
INVARIANTS
  TypeOK
  RecordedIsLegal
  ContentBeforeRecord
  IndexAgrees
  AckedFound
  DamageStaysInKind
PROPERTY ImplementsArchives
