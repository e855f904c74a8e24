CONSTANTS
  Streams = {s1, s2}
  FreeFound = TRUE
SPECIFICATION Spec
INVARIANTS NeverFreedTwice OrderlyUseIsSafe
PROPERTY ForgottenIsFreed
\* Once everything is collected nothing is left to do.
CHECK_DEADLOCK FALSE
