SPECIFICATION Spec
CONSTANTS
  Worker = {w1, w2}
  given = given
  GivenName = {given}
  Draft <- MCDraft
  ForeignBundle <- MCForeignBundle
  Torn = torn
  None = none
  Garbled = garbled
  MaxRequests = 3
  MaxFailures = 1
CHECK_DEADLOCK FALSE
INVARIANT TransitionTakesEffect
