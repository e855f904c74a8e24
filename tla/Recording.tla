------------------------------- MODULE Recording -------------------------------
(***************************************************************************)
(* A recording on its way to text: the Dart VaaniStream (Framer) driving   *)
(* the native stream (Segmenter).  Each frame the one hands over is a push *)
(* of the other; finish drops the carry and flushes, close closes both.    *)
(*                                                                         *)
(* The two sides count samples differently: the Dart side by their place   *)
(* in the recording, the native side by how many it was given.  sent maps  *)
(* the one to the other: native sample p is recording sample sent[p + 1].  *)
(***************************************************************************)
EXTENDS Framer, FiniteSets

CONSTANTS ChunkCap, MinSegment, EouSilence, PrerollMax, OnsetFrames

(* As in the code: a frame is far shorter than chunk_buffer.               *)
ASSUME RecordingAssumption ==
  /\ {ChunkCap, MinSegment, PrerollMax} \subseteq Nat
  /\ {EouSilence, OnsetFrames} \subseteq Nat \ {0}
  /\ FrameSamples <= ChunkCap

VARIABLES alive, chunk, preroll, silence, onset, offset, segStart,
          wavOpen, written, out, covered,
          told          \* history: the recording up to here is in lines

Native == INSTANCE Segmenter WITH
            VadFrame <- FrameSamples, VadLoaded <- TRUE,
            PushSizes <- {FrameSamples}, MemoryFails <- FALSE

framer == vars
native == <<alive, chunk, preroll, silence, onset, offset, segStart,
            wavOpen, written, out, covered>>
all    == <<framer, native, told>>

(* Where the samples of a line lie in the recording.                       *)
Places(line) == [i \in DOMAIN line.audio |-> sent'[line.audio[i] + 1]]

(* What a native call hands back is appended to the text, or returned.     *)
Hear ==
  told' = IF Native!IsLine(out') THEN Places(out')[Len(out'.audio)] + 1 ELSE told

RInit == Init /\ Native!Init /\ told = 0

Open ==
  /\ ~alive /\ ~closed
  /\ Native!StreamInit
  /\ UNCHANGED <<framer, told>>

(* _sendFrame, for every frame the framer completes.                       *)
SendFrame ==
  \E v \in Native!Verdicts, o \in Native!Outcomes :
    Native!Push(FrameSamples, v, o) /\ Hear

RPushChunk ==
  /\ alive
  /\ (\E b \in ChunkBytes : PushChunk(b)) \/ Stash
  /\ UNCHANGED <<native, told>>

RTopUp ==
  /\ alive
  /\ TopUp
  /\ IF sent' = sent THEN UNCHANGED <<native, told>> ELSE SendFrame

RSendWhole == alive /\ SendWhole /\ SendFrame

MutantRFinish == alive /\ Finish /\ UNCHANGED <<native, told>>
RFinish ==
  /\ alive
  /\ Finish
  /\ \E o \in Native!Outcomes : Native!Flush(o)
  /\ Hear

RClose == alive /\ Close /\ Native!Close /\ UNCHANGED told

RNext == Open \/ RPushChunk \/ RTopUp \/ RSendWhole \/ RFinish \/ RClose

RSpec == RInit /\ [][RNext]_all

-----------------------------------------------------------------------------
(* The lines of a recording follow each other in it: none goes back to     *)
(* audio an earlier one already told, however the audio was cut into       *)
(* chunks and wherever finish was called.                                  *)
LinesFollowTheRecording ==
  [][told' # told => Places(out')[1] >= told]_all

(* The audio of a line is one stretch of the recording, decoded from its   *)
(* samples in order, except that a finish while nobody spoke leaves its    *)
(* mark: the preroll collected before it is kept, the carry is not, so the *)
(* line that opens next may jump, within its preroll, over what was        *)
(* dropped there.                                                          *)
BreaksOnlyAtFinish ==
  [][Native!IsLine(out') =>
       LET place == Places(out')
       IN  \A i \in 1 .. Len(place) - 1 :
             place[i + 1] # place[i] + 1 =>
               /\ place[i + 1] > place[i]
               /\ (place[i] + 1) .. (place[i + 1] - 1) \subseteq dropped
               /\ i <= PrerollMax]_all

(* The native clock only stops for what the Dart side discards: a line's   *)
(* first timestamp is the place of its first sample in the recording, less *)
(* the samples finish dropped before it.                                   *)
StampsLagByDrops ==
  [][Native!IsLine(out') =>
       out'.from + Cardinality({p \in dropped : p < Places(out')[1]})
         = Places(out')[1]]_all
=============================================================================
