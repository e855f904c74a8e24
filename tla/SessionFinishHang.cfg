\* One failure of the worker, everything else as it should be.
CONSTANTS
  MaxSessions = 2
  MaxStops = 2
  MaxChunks = 1
  WorkerFails = TRUE
  PluginFails = FALSE
  Patient = TRUE
SPECIFICATION Spec
PROPERTY FinishAlwaysCompletes
CHECK_DEADLOCK FALSE
