\* Nothing fails; the user taps twice.
CONSTANTS
  MaxSessions = 2
  MaxStops = 2
  MaxChunks = 1
  WorkerFails = FALSE
  PluginFails = FALSE
  Patient = FALSE
SPECIFICATION Spec
INVARIANT PipelineSerialized
CHECK_DEADLOCK FALSE
