--------------------------- MODULE SegmentedAudio ---------------------------
(***************************************************************************)
(* What a transcription stream promises its caller, whatever the VAD says  *)
(* and however the audio is framed: each line it returns was decoded from  *)
(* a stretch of consecutive samples the stream has heard, its timestamps   *)
(* are that stretch, and the stretches of successive lines are disjoint    *)
(* and in order.  vaani_stream.c is shown to implement this.               *)
(***************************************************************************)
EXTENDS Integers

VARIABLES
  heard,     \* samples received since the stream was opened
  covered,   \* end of the last stretch reported
  out        \* what the last call returned

vars == <<heard, covered, out>>

Stretch(a, b) == [i \in 1 .. b - a |-> a + i - 1]
IsLine(r) == r.kind = "line"

Init == heard = 0 /\ covered = 0 /\ ~IsLine(out)

(* A stream is opened, or opened again after it was closed.                *)
Open == heard' = 0 /\ covered' = 0 /\ ~IsLine(out')

(* Audio arrives, or not, and no line is due.                              *)
Listen == heard' >= heard /\ covered' = covered /\ ~IsLine(out')

(* A line about audio later than everything reported before.               *)
Emit ==
  /\ heard' >= heard
  /\ IsLine(out')
  /\ covered <= out'.from /\ out'.from < out'.to /\ out'.to <= heard'
  /\ out'.audio = Stretch(out'.from, out'.to)
  /\ covered' = out'.to

Next == Open \/ Listen \/ Emit

Spec == Init /\ [][Next]_vars
=============================================================================
