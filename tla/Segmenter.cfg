\* The sizes keep the order of the real ones:
\*   frame 512 < minimum 16000 < preroll 24000 < silence 40000 < cap 480000
CONSTANTS
  ChunkCap = 17
  MinSegment = 5
  EouSilence = 9
  PrerollMax = 7
  OnsetFrames = 2
  VadFrame = 2
  VadLoaded = TRUE
  PushSizes = {2}
  MemoryFails = FALSE
  MaxSamples = 36
SPECIFICATION HSpec
INVARIANTS TypeOK BufferedAudioContiguous CountersMatchState
PROPERTIES NoSilentLoss ImplementsSegmentedAudio EveryLineHasSpeech ClosesOnlyAfterPause
