-------------------------------- MODULE Framer --------------------------------
(***************************************************************************)
(* VaaniStream (lib/src/vaani_stream.dart): the Dart side of a stream. It  *)
(* accepts PCM in pieces of any size and hands the native side frames of   *)
(* FrameSamples samples, carrying the rest over to the next call.          *)
(*                                                                         *)
(* A sample is its position in the recording, so that the native side's    *)
(* input can be compared with what was recorded.  pushChunk is followed    *)
(* from one frame sent to the next.  The texts the native side answers are *)
(* passed on in order and touch no state; they are left out.               *)
(***************************************************************************)
EXTENDS Runs

CONSTANTS
  FrameSamples,  \* _frameSamples, the VAD's frame (512)
  ChunkBytes,    \* lengthInBytes of the buffers callers push
  MaxSamples     \* bound: a recording has at most this many samples

ASSUME FramerAssumption ==
  /\ FrameSamples \in Nat \ {0}
  /\ ChunkBytes \subseteq Nat /\ MaxSamples \in Nat

VARIABLES
  pc,        \* "idle", or inside pushChunk: "top" (the carry) or "send"
  closed,    \* _closed
  carry,     \* _carry[0 .. _carryLen-1]
  end,       \* history: samples received, up to the end of the current pcmData
  srcLen,    \* pcmData.length of the current call
  srcOffset, \* srcOffset of the current call
  sent,      \* history: the samples handed to the native side, in order
  dropped    \* history: the samples finish and close discarded

call == <<srcLen, srcOffset>>
vars == <<pc, closed, carry, end, srcLen, srcOffset, sent, dropped>>

Init ==
  /\ pc = "idle" /\ closed = FALSE /\ carry = <<>>
  /\ end = 0 /\ srcLen = 0 /\ srcOffset = 0
  /\ sent = <<>> /\ dropped = {}

(* pcmData[i .. j-1] of the current call.                                  *)
Source(i, j) == Run(end - srcLen + i, end - srcLen + j)

(* pushChunkBytes: two bytes a sample, a last odd byte left out.  An empty *)
(* chunk changes nothing, and a closed stream throws.                      *)
PushChunk(bytes) ==
  LET n == bytes \div 2 IN
  /\ pc = "idle" /\ ~closed /\ n > 0 /\ end + n <= MaxSamples
  /\ pc' = IF carry = <<>> THEN "send" ELSE "top"
  /\ end' = end + n /\ srcLen' = n /\ srcOffset' = 0
  /\ UNCHANGED <<closed, carry, sent, dropped>>

(* A partial frame waiting is topped up first, and sent once full.         *)
MutantTaken == srcLen
Taken == IF FrameSamples - Len(carry) < srcLen
           THEN FrameSamples - Len(carry) ELSE srcLen

TopUp ==
  LET topped == carry \o Source(0, Taken) IN
  /\ pc = "top"
  /\ srcOffset' = Taken
  /\ IF Len(topped) = FrameSamples
       THEN sent' = sent \o topped /\ carry' = <<>>
       ELSE UNCHANGED sent /\ carry' = topped
  /\ pc' = "send"
  /\ UNCHANGED <<closed, end, srcLen, dropped>>

(* Then as many whole frames as the chunk still has.                       *)
WholeFrameLeft == srcOffset + FrameSamples <= srcLen

SendWhole ==
  /\ pc = "send" /\ WholeFrameLeft
  /\ sent' = sent \o Source(srcOffset, srcOffset + FrameSamples)
  /\ srcOffset' = srcOffset + FrameSamples
  /\ UNCHANGED <<pc, closed, carry, end, srcLen, dropped>>

(* What is left over becomes the carry; if nothing is, the carry stays.    *)
MutantLeftOver == Source(srcOffset, srcLen)
LeftOver ==
  IF srcOffset < srcLen THEN Source(srcOffset, srcLen) ELSE carry

Stash ==
  /\ pc = "send" /\ ~WholeFrameLeft
  /\ carry' = LeftOver
  /\ pc' = "idle" /\ srcLen' = 0 /\ srcOffset' = 0
  /\ UNCHANGED <<closed, end, sent, dropped>>

(* finish drops the carry and lets the native side emit its open segment.  *)
(* It may be called again, and pushing may go on after it.                 *)
Drop == carry' = <<>> /\ dropped' = dropped \cup Samples(carry)

Finish ==
  /\ pc = "idle" /\ ~closed
  /\ Drop
  /\ UNCHANGED <<pc, closed, end, call, sent>>

Close ==
  /\ pc = "idle" /\ ~closed
  /\ closed' = TRUE
  /\ Drop
  /\ UNCHANGED <<pc, end, call, sent>>

Next ==
  \/ \E b \in ChunkBytes : PushChunk(b)
  \/ TopUp \/ SendWhole \/ Stash
  \/ Finish \/ Close

Spec == Init /\ [][Next]_vars

-----------------------------------------------------------------------------
(* The type of each variable; inside a call the offsets stay in the chunk. *)
TypeOK ==
  /\ pc \in {"idle", "top", "send"} /\ closed \in BOOLEAN
  /\ end \in 0 .. MaxSamples
  /\ srcLen \in 0 .. end /\ srcOffset \in 0 .. srcLen
  /\ carry \in Seq(Nat) /\ sent \in Seq(Nat) /\ dropped \subseteq Nat

(* _carry never fills up (lines 22-23): a frame complete is a frame sent,  *)
(* so the native side only sees whole frames and never trails the recorder *)
(* by a frame; and the leftover of a chunk never overwrites a carry that   *)
(* is still waiting.                                                       *)
CarryIsPartial ==
  /\ Len(carry) < FrameSamples
  /\ \E k \in 0 .. Len(sent) : Len(sent) = k * FrameSamples
  /\ pc = "send" /\ srcOffset < srcLen => carry = <<>>

(* However the recording is cut into chunks, the frames sent, the carry    *)
(* and the rest of the current chunk are together the recording, in order: *)
(* no sample is lost or repeated, but those a finish or a close discards.  *)
Unsent == carry \o Source(srcOffset, srcLen)
NothingLostOrRepeated ==
  LET kept == sent \o Unsent
  IN  Increasing(kept) /\ Samples(kept) = (0 .. end - 1) \ dropped

(* What a finish or a close discards is less than a frame, and the very    *)
(* end of the recording so far.                                            *)
DropsOnlyTheTail ==
  [][dropped' # dropped =>
       \E p \in 0 .. end :
         /\ dropped' \ dropped = p .. (end - 1)
         /\ end - p < FrameSamples]_vars
=============================================================================
