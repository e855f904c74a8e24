\* Sizes against the order of the real ones, pushes of any size, no memory,
\* and a table that is soon full: what remains true of the handlers
\* themselves.  Similarities: 0 is -1.0, 1 is 0.0, 2 and more a match.
CONSTANTS
  ChunkCap = 4
  MinSegment = 2
  EouSilence = 1
  PrerollMax = 4
  OnsetFrames = 1
  VadFrame = 1
  VadLoaded = TRUE
  PushSizes = {1, 3, 5}
  MemoryFails = TRUE
  MaxSamples = 5
  SpeakerLoaded = TRUE
  MaxSpeakers = 2
  Scores = {0, 2}
  Worst = 0
  Unrelated = 1
  Threshold = 2
SPECIFICATION SSpec
INVARIANT StreamTypeOK
PROPERTIES JudgedInContext NamesClosestSpeaker FailedVoiceNeverMatches NumberedInOrder
