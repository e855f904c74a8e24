\* Frames, MaxSame and Durations are scaled down from the encoder's
\* time_steps, 10 and 0..4; the order blank > 1 > 0 of durations is kept.
CONSTANTS
  Frames = 2
  Tokens = {0, 1}
  VocabSize = 1
  MaxSame = 2
  Durations = {0, 1, 2}
  TokLens = {0, 8, 9}
  Slack = 1
SPECIFICATION Spec
INVARIANTS StateMatchesHypothesis TextFits NothingElseLeaks
PROPERTIES ImplementsTransducer Returns
