-------------------------- MODULE SegmenterHistory --------------------------
(***************************************************************************)
(* The segmenter together with what the VAD told it: history variables     *)
(* recorded beside the handlers' own counters, so that the counters can be *)
(* compared with the speech and the silence they are meant to measure.     *)
(***************************************************************************)
EXTENDS Segmenter

VARIABLES
  confident,  \* position of the last confident frame, -1 before the first
  speechEnd   \* end of the last frame taken for speech, 0 before the first

history == <<confident, speechEnd>>

(* The push of n samples is about to be handled with verdict v.            *)
Remember(n, v) ==
  /\ confident' = IF Judged(n, v) /\ v = "confident" THEN offset ELSE confident
  /\ speechEnd' = IF Judged(n, v) /\ Speech(n, v) THEN offset + n ELSE speechEnd

HInit == Init /\ confident = -1 /\ speechEnd = 0

HNext ==
  \/ StreamInit /\ confident' = -1 /\ speechEnd' = 0
  \/ \E n \in PushSizes, v \in Verdicts, o \in Outcomes :
       Push(n, v, o) /\ Remember(n, v)
  \/ /\ \/ \E o \in Outcomes : PushFlush(o) \/ Flush(o)
        \/ Close
     /\ UNCHANGED history

HSpec == HInit /\ [][HNext]_<<vars, history>>

(* Every line returned contains a frame the VAD was confident about: noise *)
(* and soft sounds alone never become text.                                *)
EveryLineHasSpeech ==
  [][IsLine(out') => out'.from <= confident']_<<vars, history>>

(* A segment the handler closes by itself, before the cap, ends with at    *)
(* least END_OF_UTTERANCE_SILENCE_SAMPLES in which no frame was speech:    *)
(* silence from before the segment, or of a pause already over, does not   *)
(* count.                                                                  *)
ClosesOnlyAfterPause ==
  [][IsLine(out') /\ out'.to = offset' /\ offset' # offset =>
       offset' - speechEnd' >= EouSilence]_<<vars, history>>
=============================================================================
