-------------------------------- MODULE Stream --------------------------------
(***************************************************************************)
(* A whole transcription stream: the segmenter together with the two       *)
(* memories a stream keeps across its segments, what the VAD network       *)
(* remembers from frame to frame (vaani_vad.c) and the table of speakers   *)
(* heard so far (process_speech_segment, vaani_speaker.c).                 *)
(*                                                                         *)
(* Audio is again its position in the stream.  An embedding is what can    *)
(* later go wrong with it: a voice, the zeros of a failed extraction, or   *)
(* numbers that compare with nothing (a network that answers infinities).  *)
(***************************************************************************)
EXTENDS Segmenter, FiniteSets

CONSTANTS
  SpeakerLoaded, \* pipeline->speaker # NULL
  MaxSpeakers,   \* MAX_SPEAKERS
  Scores,        \* cosine similarities of two voices, from Worst upwards
  Worst,         \* -1.0: the score the search for the best starts from
  Unrelated,     \* 0.0: the similarity of zeros to anything
  Threshold      \* SIMILARITY_THRESHOLD

ASSUME StreamAssumption ==
  /\ SpeakerLoaded \in BOOLEAN /\ MaxSpeakers \in Nat \ {0}
  /\ Scores \subseteq Nat /\ {Worst, Unrelated, Threshold} \subseteq Nat
  /\ Worst < Unrelated /\ Unrelated < Threshold

VARIABLES
  vadContext,    \* vad_context: the end of the audio it was taken from
  absorbed,      \* vad_state: the frame last taken in, and its context
  speakers,      \* speakers[0 .. num_speakers-1]: their embeddings
  speaker,       \* the speaker of the line this call returned
  nearest,       \* history: the entries that scored best for it, above Worst
  bypassed,      \* history: the last push did not reach the VAD network
  named,         \* history: how many speakers lines have named
  textLost       \* history: memory ran out on the text of a segment

streamVars == <<vars, vadContext, absorbed, speakers, speaker,
                nearest, bypassed, named, textLost>>

(* A fresh vad_state: the first frame follows on nothing.                  *)
Nothing == [context |-> 0, frame |-> -VadFrame]

Embeddings == {"voice", "zeros", "incomparable"}
Nobody == -1

-----------------------------------------------------------------------------
(* run_silero_vad.  A call fails before the network is reached, or the     *)
(* network runs and each of its two outputs can be read or not.            *)
Calls ==
  {[reached |-> FALSE, answer |-> "failed", kept |-> FALSE]}
    \cup [reached : {TRUE}, answer : Verdicts, kept : BOOLEAN]

(* The frame goes in behind the context; the context of the next frame is  *)
(* saved whether the network answered or not, its state only when it did.  *)
Reaches(n, c) == VadLoaded /\ n = VadFrame /\ c.reached
MutantContextKeptOnFailure(n, c) ==
  IF Reaches(n, c) /\ c.kept THEN offset + n ELSE vadContext
ContextAfter(n, c) == IF Reaches(n, c) THEN offset + n ELSE vadContext
VadCall(n, c) ==
  /\ vadContext' = ContextAfter(n, c)
  /\ absorbed'   = IF c.kept /\ Reaches(n, c)
                     THEN [context |-> vadContext, frame |-> offset]
                     ELSE absorbed
  /\ bypassed'   = ~Reaches(n, c)

-----------------------------------------------------------------------------
(* Who speaks in the segment: the entry of the table with the best score.  *)
(* Zeros score 0 with everything; what compares with nothing has no score. *)
Enrolled == DOMAIN speakers

(* Every way embedding e can score against the entries it compares with.   *)
Comparison(e) ==
  LET comparable == {i \in Enrolled : "incomparable" \notin {e, speakers[i]}}
  IN  {score \in [comparable -> Scores \cup {Unrelated}] :
         \A i \in comparable :
           IF "zeros" \in {e, speakers[i]} THEN score[i] = Unrelated
                                          ELSE score[i] \in Scores}

(* The first of the best, if any is better than the initial best_score.    *)
Best(score) ==
  {i \in DOMAIN score :
     /\ score[i] > Worst
     /\ \A j \in DOMAIN score :
          score[j] <= score[i] /\ (j < i => score[j] < score[i])}

Closest(score) ==
  IF Best(score) = {} THEN Nobody ELSE (CHOOSE i \in Best(score) : TRUE) - 1
MutantRecognised(score) == Best(score) # {}
Recognised(score) == \E i \in Best(score) : score[i] >= Threshold
MutantRoom == Len(speakers) <= MaxSpeakers
Room == Len(speakers) < MaxSpeakers

(* A match nudges the stored embedding towards the new one, which leaves a *)
(* voice a voice; without one the speaker is enrolled while there is room, *)
(* and else taken for the closest.  Speakers are numbered from 0.          *)
MutantIdentifyUnmatched(e, score) ==
  IF Recognised(score)
    THEN speaker' = Closest(score) /\ UNCHANGED speakers
    ELSE IF Room
           THEN speaker' = Len(speakers) /\ speakers' = Append(speakers, e)
           ELSE speaker' = Nobody /\ UNCHANGED speakers
MutantIdentifyLate(e, score) ==
  IF ~Recognised(score) /\ Room
    THEN speakers' = Append(speakers, e) /\ speaker' = Len(speakers')
    ELSE UNCHANGED speakers /\ speaker' = Closest(score)
Identify(e, score) ==
  IF ~Recognised(score) /\ Room
    THEN speaker' = Len(speakers) /\ speakers' = Append(speakers, e)
    ELSE speaker' = Closest(score) /\ UNCHANGED speakers

(* Those no entry scores better than, if they score at all.                *)
Nearest(score) ==
  {i \in DOMAIN score :
     score[i] > Worst /\ \A j \in DOMAIN score : score[j] <= score[i]}

(* process_speech_segment identifies the speaker before it decodes, so the *)
(* table keeps a speaker whose text is then lost.  Without a speaker model *)
(* everyone is speaker 0.                                                  *)
Speaks(processed) ==
  IF ~processed
    THEN speaker' = Nobody /\ nearest' = {} /\ UNCHANGED <<speakers, textLost>>
    ELSE /\ IF SpeakerLoaded
              THEN \E e \in Embeddings : \E score \in Comparison(e) :
                     Identify(e, score) /\ nearest' = Nearest(score)
              ELSE speaker' = 0 /\ nearest' = {} /\ UNCHANGED speakers
         /\ textLost' = (textLost \/ ~IsLine(out'))

(* A speaker is named by the line it appears in (not followed any more     *)
(* once a text was lost).                                                  *)
Name == named' = IF textLost' THEN 0
                 ELSE IF IsLine(out') /\ speaker' >= named THEN speaker' + 1
                 ELSE named

-----------------------------------------------------------------------------
StreamVarsInit ==
  /\ vadContext = 0 /\ absorbed = Nothing
  /\ speakers = <<>> /\ speaker = Nobody
  /\ nearest = {} /\ bypassed = FALSE /\ named = 0 /\ textLost = FALSE

SInit == Init /\ StreamVarsInit

(* calloc zeroes both memories.                                            *)
SStreamInit ==
  /\ StreamInit
  /\ vadContext' = 0 /\ absorbed' = Nothing
  /\ speakers' = <<>> /\ speaker' = Nobody
  /\ nearest' = {} /\ bypassed' = FALSE /\ named' = 0 /\ textLost' = FALSE

(* A push is judged, and may close a segment at the cap or on silence.     *)
PushProcesses(n, v) ==
  IF Overflows(n)
    THEN Len(chunk) > MinSegment
    ELSE /\ chunk # <<>> /\ SilenceCount(n, v) >= EouSilence
         /\ Len(chunk) + n > MinSegment

SPush(n, c, o) ==
  /\ Push(n, c.answer, o)
  /\ VadCall(n, c)
  /\ Speaks(PushProcesses(n, c.answer))
  /\ Name

SOversize(n) ==
  /\ Oversize(n)
  /\ bypassed' = TRUE /\ speaker' = Nobody /\ nearest' = {}
  /\ UNCHANGED <<vadContext, absorbed, speakers, named, textLost>>

SPushFlush(o) ==
  /\ PushFlush(o) /\ Speaks(chunk # <<>>) /\ Name
  /\ UNCHANGED <<vadContext, absorbed, bypassed>>

SFlush(o) ==
  /\ Flush(o) /\ Speaks(Len(chunk) > MinSegment) /\ Name
  /\ UNCHANGED <<vadContext, absorbed, bypassed>>

(* The table and the VAD's memory are freed with the stream.               *)
SClose ==
  /\ Close
  /\ vadContext' = 0 /\ absorbed' = Nothing
  /\ speakers' = <<>> /\ speaker' = Nobody
  /\ nearest' = {} /\ bypassed' = FALSE /\ named' = 0 /\ textLost' = FALSE

SNext ==
  \/ SStreamInit
  \/ \E n \in PushSizes : SOversize(n)
  \/ \E n \in PushSizes, c \in Calls, o \in Outcomes : SPush(n, c, o)
  \/ \E o \in Outcomes : SPushFlush(o) \/ SFlush(o)
  \/ SClose

SSpec == SInit /\ [][SNext]_streamVars

-----------------------------------------------------------------------------
(* The segmenter's types with those of the two memories; the table never   *)
(* outgrows its storage.                                                   *)
StreamTypeOK ==
  /\ TypeOK
  /\ vadContext \in 0 .. MaxSamples
  /\ absorbed \in [context : 0 .. MaxSamples, frame : -VadFrame .. MaxSamples]
  /\ speakers \in Seq(Embeddings) /\ Len(speakers) <= MaxSpeakers
  /\ speaker \in Nobody .. MaxSpeakers - 1
  /\ nearest \subseteq Enrolled
  /\ named \in 0 .. MaxSpeakers
  /\ {bypassed, textLost} \subseteq BOOLEAN

(* The network hears the stream in order: a frame it keeps in its state    *)
(* comes after the last one it kept, with a context from between the two   *)
(* (vaani_vad.c lines 6-12).  One call that fails before the network, or   *)
(* one push the VAD is not asked about, spoils the context of the next     *)
(* frame and of no other: each other frame is judged after the very        *)
(* samples that precede it.                                                *)
JudgedInContext ==
  [][alive' /\ absorbed' # absorbed =>
       /\ absorbed.frame + VadFrame <= absorbed'.context
       /\ absorbed'.context <= absorbed'.frame
       /\ absorbed'.context = absorbed'.frame \/ bypassed]_streamVars

(* A line names either the speaker it enrolled, the next of the table, or  *)
(* an entry no other scored better than for the voice of the segment, and  *)
(* so vaani_stream.c:114 has it when the table is full ("assign to closest  *)
(* existing speaker").  Only where it is full and no entry scores above -1 *)
(* with the voice, as with the embedding of a network gone astray, there   *)
(* is no closest one and the line names -1.                                *)
NamesClosestSpeaker ==
  [][SpeakerLoaded /\ IsLine(out') =>
       \/ speaker' = Len(speakers) /\ Len(speakers') = Len(speakers) + 1
       \/ speaker' + 1 \in nearest' /\ speaker' \in 0 .. Len(speakers) - 1
       \/ /\ speaker' = Nobody /\ nearest' = {}
          /\ Len(speakers) = MaxSpeakers]_streamVars

(* Someone enrolled from a failed embedding is never recognised again: as  *)
(* long as there is room in the table no line is taken for theirs.  (Once  *)
(* it is full anyone may be.)                                              *)
FailedVoiceNeverMatches ==
  [][IsLine(out') /\ Len(speakers) < MaxSpeakers =>
       \A i \in Enrolled : speaker' = i - 1 => speakers[i] = "voice"]_streamVars

(* Speakers appear in the transcript in the order of their numbers: the    *)
(* first line of a new one carries the lowest number not used yet, unless  *)
(* a segment's text was lost after its speaker had been enrolled.          *)
NumberedInOrder ==
  [][IsLine(out') => textLost \/ speaker' <= named]_streamVars
=============================================================================
