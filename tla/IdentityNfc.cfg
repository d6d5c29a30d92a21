SPECIFICATION Spec

CONSTANTS
  Value <- MCValue
  Object <- MCObject
  ServiceKey <- MCServiceKey
  None = None
  Canonical <- CanonicalOf
  Inside <- InsideOf
  Leaves <- LeavesOf

INVARIANT RustNormalizes
