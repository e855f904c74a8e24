\* Frames of 3 samples; chunks of no sample, of less and of more than a frame,
\* and of an odd number of bytes.
CONSTANTS
  FrameSamples = 3
  ChunkBytes = {1, 2, 11}
  ChunkCap = 14
  MinSegment = 5
  EouSilence = 7
  PrerollMax = 6
  OnsetFrames = 2
  MaxSamples = 20
SPECIFICATION RSpec
INVARIANTS CarryIsPartial NothingLostOrRepeated
PROPERTIES LinesFollowTheRecording BreaksOnlyAtFinish StampsLagByDrops
\* A closed stream does nothing more.
CHECK_DEADLOCK FALSE
