CONSTANTS
  Streams = {s1}
  FreeFound = TRUE
SPECIFICATION Spec
INVARIANT BackstopsSuffice
CHECK_DEADLOCK FALSE
