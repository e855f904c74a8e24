------------------------------ MODULE Segmenter ------------------------------
(***************************************************************************)
(* The segmentation state of one transcription stream: struct              *)
(* VaaniStreamState and the handlers of src/src/vaani_stream.c that cut    *)
(* incoming PCM into speech segments.                                      *)
(*                                                                         *)
(* A sample is modelled by its position in the stream, so that a buffer is *)
(* the sequence of the positions it holds and "the right audio" is a       *)
(* statement about contents, not about lengths.  The amplitude of a sample *)
(* is not kept: gain control, the VAD network and the decoder are reduced  *)
(* to the verdict or the outcome the handler branches on.                  *)
(***************************************************************************)
EXTENDS Runs

CONSTANTS
  ChunkCap,      \* chunk_cap: capacity of chunk_buffer (30 s)
  MinSegment,    \* MIN_SEGMENT_SAMPLES
  EouSilence,    \* END_OF_UTTERANCE_SILENCE_SAMPLES
  PrerollMax,    \* PREROLL_MAX_SAMPLES
  OnsetFrames,   \* VAD_ONSET_FRAMES
  VadFrame,      \* VAD_AUDIO_SAMPLES: the only frame size the VAD accepts
  VadLoaded,     \* pipeline->vad # NULL
  PushSizes,     \* the positive sample counts callers push
  MemoryFails,   \* whether the allocations of process_speech_segment can fail
  MaxSamples     \* bound: a stream is pushed at most this many samples

ASSUME SegmenterAssumption ==
  /\ {ChunkCap, MinSegment, PrerollMax, VadFrame, MaxSamples} \subseteq Nat
  /\ {EouSilence, OnsetFrames} \subseteq Nat \ {0}
  /\ {VadLoaded, MemoryFails} \subseteq BOOLEAN
  /\ PushSizes \subseteq Nat \ {0}

(* What run_silero_vad says of a frame: a probability at or above the      *)
(* onset threshold, between the two thresholds, below the sustain          *)
(* threshold, or -1 (the call failed).                                     *)
Verdicts == {"confident", "soft", "quiet", "failed"}

(* How the work on a closed segment ends: a transcript; a decode error     *)
(* (decode_audio_buffer then returns "", which is formatted all the same); *)
(* out of memory, reported as ""; or no memory even for the "".            *)
Outcomes == {"text", "decodeError"}
              \cup (IF MemoryFails THEN {"noMemory", "noMemoryAtAll"} ELSE {})

VARIABLES
  alive,      \* the handle is open: after vaani_stream_init, before close
  chunk,      \* chunk_buffer[0 .. chunk_len-1], as sample positions
  preroll,    \* preroll_buffer[0 .. preroll_len-1], as sample positions
  silence,    \* silence_samples
  onset,      \* vad_onset_count
  offset,     \* global_sample_offset
  segStart,   \* segment_start_sample
  wavOpen,    \* wav_out_file # NULL
  written,    \* total_samples_written
  out,        \* what the last call returned to the caller
  covered     \* history: global_sample_offset when the last line was closed

counters == <<silence, onset>>
buffers  == <<chunk, preroll>>
wav      == <<wavOpen, written>>
vars     == <<alive, chunk, preroll, silence, onset, offset, segStart,
              wavOpen, written, out, covered>>

(* The three results of a call: NULL, "", and a line                       *)
(* "[from - to] [Speaker n]: transcript" decoded from the audio given.     *)
NullText  == [kind |-> "null"]
EmptyText == [kind |-> "empty"]
Line(from, pcm, o) == [kind  |-> "line", from |-> from,
                       to    |-> from + Len(pcm),
                       audio |-> pcm, decoded |-> o = "text"]

(* process_speech_segment on the buffered audio, as its caller sees it.    *)
SegmentText(from, pcm, o) ==
  CASE o = "noMemory"      -> EmptyText
    [] o = "noMemoryAtAll" -> NullText
    [] OTHER               -> Line(from, pcm, o)

IsLine(r) == r.kind = "line"

(* What a call hands back, and the end of the audio reported so far.       *)
Report(r) ==
  /\ out'     = r
  /\ covered' = IF IsLine(r) THEN r.to ELSE covered

(* reset_segment_state.  (Definitions named Mutant... are faulty variants  *)
(* of the definition they precede; no specification uses them.)            *)
MutantResetKeepsOnset ==
  chunk' = <<>> /\ preroll' = <<>> /\ silence' = 0 /\ UNCHANGED onset
ResetSegment ==
  /\ chunk'   = <<>>
  /\ preroll' = <<>>
  /\ onset'   = 0
  /\ silence' = 0

-----------------------------------------------------------------------------
(* Opening a stream.  calloc zeroes every field; out_wav_path is optional  *)
(* and fopen may fail, so either value of wavOpen is possible.             *)

Init ==
  /\ alive = FALSE /\ wavOpen = FALSE
  /\ chunk = <<>> /\ preroll = <<>>
  /\ silence = 0 /\ onset = 0
  /\ offset = 0 /\ segStart = 0 /\ written = 0
  /\ out = NullText /\ covered = 0

StreamInit ==
  /\ ~alive
  /\ alive' = TRUE
  /\ wavOpen' \in BOOLEAN
  /\ ResetSegment
  /\ offset' = 0 /\ segStart' = 0 /\ written' = 0
  /\ out' = NullText /\ covered' = 0

-----------------------------------------------------------------------------
(* vaani_stream_push_chunk, one action per way through it.                 *)

(* A larger push would not even fit an empty chunk_buffer: its samples are *)
(* counted and dropped, before the WAV file sees them.                     *)
Oversize(n) ==
  /\ alive /\ n > ChunkCap /\ offset + n <= MaxSamples
  /\ offset' = offset + n
  /\ Report(NullText)
  /\ UNCHANGED <<alive, buffers, counters, segStart, wav>>

(* A push of no samples emits the open segment, whatever its length.       *)
PushFlush(o) ==
  /\ alive
  /\ IF chunk = <<>>
       THEN Report(NullText) /\ UNCHANGED <<buffers, counters>>
       ELSE Report(SegmentText(segStart, chunk, o)) /\ ResetSegment
  /\ UNCHANGED <<alive, offset, segStart, wav>>

(* The 30 s cap: n more samples do not fit, so the segment is closed (or,  *)
(* too short, discarded) before they are looked at.                        *)
Overflows(n) == Len(chunk) + n > ChunkCap
MutantCapResult(n, o) ==
  IF Overflows(n) /\ Len(chunk) < MinSegment
    THEN SegmentText(segStart, chunk, o) ELSE NullText
CapResult(n, o) ==
  IF Overflows(n) /\ Len(chunk) > MinSegment
    THEN SegmentText(segStart, chunk, o)
    ELSE NullText

(* WAITING or IN-SEG, and the other fields, as the rest of the call finds  *)
(* them after the cap.                                                     *)
Waiting(n)     == chunk = <<>> \/ Overflows(n)
PrerollNow(n)  == IF Overflows(n) THEN <<>> ELSE preroll
SilenceNow(n)  == IF Overflows(n) THEN 0 ELSE silence
OnsetNow(n)    == IF Overflows(n) THEN 0 ELSE onset
SegStartNow(n) == IF Overflows(n) THEN offset ELSE segStart

(* Hysteresis: the onset threshold applies while waiting, the lower        *)
(* sustain threshold inside a segment.  A frame the VAD has no reliable    *)
(* opinion of leaves both counters as they are.                            *)
Judged(n, v) == VadLoaded /\ n = VadFrame /\ v # "failed"
Speech(n, v) == v = "confident" \/ (v = "soft" /\ ~Waiting(n))
MutantOnsetCount(n, v) ==
  IF ~Judged(n, v) \/ Speech(n, v) THEN OnsetNow(n) + 1 ELSE 0
OnsetCount(n, v) ==
  IF ~Judged(n, v)  THEN OnsetNow(n)
  ELSE IF Speech(n, v) THEN OnsetNow(n) + 1
  ELSE 0
MutantSilenceCount(n, v) ==
  IF ~Judged(n, v) \/ Speech(n, v) THEN SilenceNow(n) ELSE SilenceNow(n) + n
SilenceCount(n, v) ==
  IF ~Judged(n, v)  THEN SilenceNow(n)
  ELSE IF Speech(n, v) THEN 0
  ELSE SilenceNow(n) + n

(* What every accepted push does: the debug WAV gets the raw samples, the  *)
(* stream position moves past them.                                        *)
Accept(n) ==
  /\ alive /\ n <= ChunkCap /\ offset + n <= MaxSamples
  /\ offset' = offset + n
  /\ written' = IF wavOpen THEN written + n ELSE written
  /\ UNCHANGED <<alive, wavOpen>>

(* The n samples being pushed, and the preroll ring after taking them: it  *)
(* keeps the last PrerollMax samples it was given.                         *)
Incoming(n) == Run(offset, offset + n)
MutantSlideLate(ring, n) ==
  SubSeq(ring, IF Len(ring) > PrerollMax THEN n + 1 ELSE 1, Len(ring))
    \o Incoming(n)
MutantSlideDropsNewest(ring, n) ==
  LET shift == Len(ring) + n - PrerollMax
  IN  SubSeq(ring, 1, IF shift > 0 THEN Len(ring) - shift ELSE Len(ring))
        \o Incoming(n)
Slide(ring, n) ==
  LET keep  == IF n > PrerollMax THEN PrerollMax ELSE n
      shift == Len(ring) + keep - PrerollMax
  IN  SubSeq(ring, IF shift > 0 THEN shift + 1 ELSE 1, Len(ring))
        \o SubSeq(Incoming(n), n - keep + 1, n)

KeepWaiting(n, v, o) ==
  /\ Accept(n)
  /\ Waiting(n) /\ OnsetCount(n, v) < OnsetFrames
  /\ chunk'    = <<>>
  /\ preroll'  = Slide(PrerollNow(n), n)
  /\ onset'    = OnsetCount(n, v)
  /\ silence'  = SilenceCount(n, v)
  /\ segStart' = SegStartNow(n)
  /\ Report(CapResult(n, o))

(* The preroll goes in front of the new samples unless both do not fit.    *)
Lead(n) == IF Len(PrerollNow(n)) + n > ChunkCap THEN <<>> ELSE PrerollNow(n)
MutantOpenAt(n) == offset
OpenAt(n) == IF offset >= Len(Lead(n)) THEN offset - Len(Lead(n)) ELSE 0
OpenSegment(n, v, o) ==
  /\ Accept(n)
  /\ Waiting(n) /\ OnsetCount(n, v) >= OnsetFrames
  /\ chunk'    = Lead(n) \o Incoming(n)
  /\ preroll'  = <<>>
  /\ onset'    = OnsetCount(n, v)
  /\ silence'  = 0
  /\ segStart' = OpenAt(n)
  /\ Report(CapResult(n, o))

Grow(n, v) ==
  /\ Accept(n)
  /\ ~Waiting(n) /\ SilenceCount(n, v) < EouSilence
  /\ chunk'   = chunk \o Incoming(n)
  /\ onset'   = OnsetCount(n, v)
  /\ silence' = SilenceCount(n, v)
  /\ Report(NullText)
  /\ UNCHANGED <<preroll, segStart>>

(* End of utterance: enough silence, and enough audio to be worth decoding *)
(* or not.                                                                 *)
CloseOnSilence(n, v, o) ==
  /\ Accept(n)
  /\ ~Waiting(n) /\ SilenceCount(n, v) >= EouSilence
  /\ Len(chunk) + n > MinSegment
  /\ Report(SegmentText(segStart, chunk \o Incoming(n), o))
  /\ ResetSegment
  /\ UNCHANGED segStart

DiscardShort(n, v) ==
  /\ Accept(n)
  /\ ~Waiting(n) /\ SilenceCount(n, v) >= EouSilence
  /\ Len(chunk) + n <= MinSegment
  /\ ResetSegment
  /\ segStart' = offset + n
  /\ Report(NullText)

Push(n, v, o) ==
  \/ KeepWaiting(n, v, o)
  \/ OpenSegment(n, v, o)
  \/ Grow(n, v)
  \/ CloseOnSilence(n, v, o)
  \/ DiscardShort(n, v)

-----------------------------------------------------------------------------
(* vaani_stream_flush: "" is collapsed to NULL.                            *)
MutantFlush(o) ==
  /\ alive
  /\ IF Len(chunk) > MinSegment
       THEN Report(SegmentText(segStart, chunk, o))
       ELSE Report(NullText)
  /\ UNCHANGED <<alive, buffers, counters, offset, segStart, wav>>
Flush(o) ==
  /\ alive
  /\ IF Len(chunk) > MinSegment
       THEN LET r == SegmentText(segStart, chunk, o)
            IN  Report(IF r = EmptyText THEN NullText ELSE r)
       ELSE Report(NullText)
  /\ IF chunk = <<>> THEN UNCHANGED <<buffers, counters>> ELSE ResetSegment
  /\ UNCHANGED <<alive, offset, segStart, wav>>

(* vaani_stream_close: the text of a segment still open only reaches the   *)
(* log; the handle and everything in it is gone.                           *)
Close ==
  /\ alive
  /\ alive' = FALSE
  /\ ResetSegment
  /\ Report(NullText)
  /\ UNCHANGED <<offset, segStart, wav>>

Next ==
  \/ StreamInit
  \/ \E n \in PushSizes : Oversize(n)
  \/ \E n \in PushSizes, v \in Verdicts, o \in Outcomes : Push(n, v, o)
  \/ \E o \in Outcomes : PushFlush(o) \/ Flush(o)
  \/ Close

Spec == Init /\ [][Next]_vars

-----------------------------------------------------------------------------
(* Properties.  FramesFit holds of every caller in the repository: all of  *)
(* them push frames of VAD_AUDIO_SAMPLES.                                  *)
FramesFit == \A n \in PushSizes : n <= ChunkCap

Positions == Seq(0 .. MaxSamples)
Results ==
  [kind : {"null", "empty"}]
    \cup [kind : {"line"}, from : 0 .. MaxSamples, to : Nat,
          audio : Positions, decoded : BOOLEAN]

(* The type of each field; the two buffers never outgrow their storage.    *)
TypeOK ==
  /\ alive \in BOOLEAN /\ wavOpen \in BOOLEAN
  /\ chunk \in Positions /\ Len(chunk) <= ChunkCap
  /\ preroll \in Positions /\ Len(preroll) <= PrerollMax
  /\ {silence, onset, written, covered} \subseteq Nat
  /\ {offset, segStart} \subseteq 0 .. MaxSamples
  /\ out \in Results

(* An open segment holds exactly the samples from segment_start_sample to  *)
(* the current position, and the preroll the latest ones; only one of the  *)
(* two is in use.  Every line's timestamps rest on this.                   *)
BufferedAudioContiguous ==
  /\ chunk # <<>> => chunk = Run(segStart, offset) /\ preroll = <<>>
  /\ preroll = Run(offset - Len(preroll), offset)

(* The counters agree with WAITING and IN-SEG between calls: waiting, the  *)
(* onset is not confirmed; in a segment, the silence counted is silence in *)
(* that segment, and not yet enough to close it.                           *)
CountersMatchState ==
  IF chunk = <<>> THEN onset < OnsetFrames
                  ELSE silence <= Len(chunk) /\ silence < EouSilence

(* The debug WAV holds the stream from its first sample to the last.       *)
WavAligned == wavOpen => written = offset

(* Nothing that is still buffered was already reported: the next line      *)
(* starts at or after the end of the last one.                             *)
BufferedAudioUnreported ==
  /\ covered <= offset - Len(preroll)
  /\ chunk # <<>> => covered <= segStart

(* The invariant the proofs use.                                           *)
IInv ==
  /\ TypeOK
  /\ BufferedAudioContiguous
  /\ CountersMatchState
  /\ WavAligned
  /\ BufferedAudioUnreported

(* A segment long enough to be decoded never disappears without its text:  *)
(* until the stream is closed it stays buffered or is the beginning of the *)
(* line just returned.  (For a build where malloc does not fail.)          *)
Keeps(s, pcm) == Len(s) >= Len(pcm) /\ SubSeq(s, 1, Len(pcm)) = pcm
NoSilentLoss ==
  [][alive' /\ Len(chunk) > MinSegment =>
       Keeps(chunk', chunk) \/ (IsLine(out') /\ Keeps(out'.audio, chunk))]_vars

(* A frame of which the VAD has no opinion neither opens a segment nor     *)
(* closes one (the 30 s cap aside), as the comment above the state machine *)
(* says.                                                                   *)
UnknownFrameIsNeutral ==
  [][\A n \in PushSizes, o \in Outcomes :
       Push(n, "failed", o) /\ ~Overflows(n) =>
         (chunk' = <<>>) = (chunk = <<>>)]_vars

(* With an end-of-utterance silence longer than the minimum segment, as in *)
(* the code, the branch that discards a short segment is never taken: the  *)
(* silence that closes a cough already makes it long enough.               *)
NoShortSegmentOnSilence ==
  [][EouSilence > MinSegment =>
       \A n \in PushSizes, v \in Verdicts : ~DiscardShort(n, v)]_vars

(* The segmenter implements SegmentedAudio.                                *)
Abstract == INSTANCE SegmentedAudio WITH heard <- offset
ImplementsSegmentedAudio == Abstract!Spec
=============================================================================
