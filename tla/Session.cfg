\* Two sessions one after the other; anything may fail, but the user does not
\* tap twice while a handler is running.
CONSTANTS
  MaxSessions = 2
  MaxStops = 2
  MaxChunks = 3
  WorkerFails = TRUE
  PluginFails = TRUE
  Patient = TRUE
SPECIFICATION Spec
INVARIANTS TranscriptInOrder OnlyStopWhileStreaming PipelineSerialized
PROPERTIES TranscriptComplete FinishCompletes
\* A stuck or an unmounted app does nothing more.
CHECK_DEADLOCK FALSE
