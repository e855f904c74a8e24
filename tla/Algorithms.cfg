\* 2 has order 8 modulo 17.  Windows longer than most of the audio, of odd
\* and even length.
CONSTANTS
  Prime = 17
  Root = 2
  MaxN = 8
  Lengths = {1, 2, 3, 4, 6, 8}
  MaxAudio = 12
  Windows = {4, 7, 10}
  Hops = {1, 3}
  Letters = {"a", "b"}
  LineBuffer = 7
  MaxText = 6
  MaxTokens = 2
SPECIFICATION Spec
INVARIANTS FftIsTransform FramesReadTheAudio NormalizedIsWords VocabIsTokens
\* One input is one behaviour.
CHECK_DEADLOCK FALSE
