SPECIFICATION Spec

CONSTANTS
  Value <- MCValue
  Object <- MCObject
  ServiceKey <- MCServiceKey
  None = None
  Canonical <- CanonicalOf
  Inside <- InsideOf
  Leaves <- LeavesOf

INVARIANT CanonicalForm
INVARIANT BuiltVerifies
INVARIANT SubmitterAgrees
