\* Data of less than a frame, of whole frames, and with a part of a frame and
\* an odd byte; formats without, with an odd and with an even extension; other
\* chunks of even and of odd size.
CONSTANTS
  Frame = 3
  FormatSizes = {16, 17, 18}
  DataSizes = {4, 12, 15}
  OtherSizes = {5, 8}
  MaxChunks = 4
  FirstCap = 4
  LineLengths = {1, 3}
  MemoryFails = TRUE
SPECIFICATION Spec
INVARIANTS HearsExactlyTheData TranscriptFits ClosesWhatItOpened
PROPERTY FindsTheAudio
\* A call that has returned does nothing more.
CHECK_DEADLOCK FALSE
