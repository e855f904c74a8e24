----------------------------- MODULE StreamProofs -----------------------------
(***************************************************************************)
(* Proofs about one whole stream, for pushes and buffers of any size: what *)
(* the lines say of the VAD's verdicts (SegmenterHistory), and the memory  *)
(* of the VAD and the table of speakers (Stream), for a table of any size  *)
(* and any similarity scores.                                              *)
(***************************************************************************)
EXTENDS Stream, SegmenterHistory, SegmenterProofs, WellFoundedInduction

-----------------------------------------------------------------------------
(* The segmenter with its history.                                         *)

(* An open segment begins no later than the last confident frame, and the  *)
(* silence counted in it is silence since the last speech.                 *)
HistoryInv ==
  /\ confident \in Int /\ speechEnd \in Int
  /\ chunk # <<>> => segStart <= confident /\ speechEnd + silence <= offset

(* The two properties, of a single step.                                   *)
LineHasSpeech == IsLine(out') => out'.from <= confident'
ClosedByPause ==
  IsLine(out') /\ out'.to = offset' /\ offset' # offset =>
    offset' - speechEnd' >= EouSilence
HistoryGood == HistoryInv' /\ LineHasSpeech /\ ClosedByPause

(* A line about the open segment has its bounds.                           *)
LEMMA SegmentLine ==
  ASSUME NEW pcm, NEW o \in Outcomes, NEW r,
         r \in {NullText, EmptyText, SegmentText(segStart, pcm, o)}, IsLine(r)
  PROVE  r.from = segStart /\ r.to = segStart + Len(pcm)
BY DEF NullText, EmptyText, SegmentText, Line, IsLine

(* A push that is about to open a segment was confident.                   *)
LEMMA OpenedByVoice ==
  ASSUME IInv, NEW n \in PushSizes, NEW v \in Verdicts, Waiting(n),
         OnsetCount(n, v) >= OnsetFrames
  PROVE  Judged(n, v) /\ v = "confident"
<1>1. onset \in Nat /\ OnsetFrames \in Nat /\ OnsetFrames > 0
  BY ConstantFacts, FieldFacts
<1>2. OnsetNow(n) < OnsetFrames
  BY <1>1 DEF OnsetNow, Waiting, IInv, CountersMatchState
<1>3. OnsetNow(n) \in Nat
  BY <1>1 DEF OnsetNow
<1> QED
  BY <1>1, <1>2, <1>3 DEF OnsetCount, Speech

LEMMA HistoryPush ==
  ASSUME IInv, HistoryInv, NEW n \in PushSizes, NEW v \in Verdicts, NEW o \in Outcomes,
         Push(n, v, o), Remember(n, v)
  PROVE  HistoryGood
<1>0. Accept(n)
  BY DEF Push, KeepWaiting, OpenSegment, Grow, CloseOnSilence, DiscardShort
<1>1. /\ n \in Nat /\ n > 0 /\ offset \in Nat /\ offset' = offset + n
      /\ segStart \in Nat /\ silence \in Nat /\ EouSilence \in Nat
      /\ SilenceCount(n, v) \in Nat /\ Len(Incoming(n)) = n
  BY <1>0, PushFacts, BufferFacts, FieldFacts, ConstantFacts
<1>2. /\ confident' = IF Judged(n, v) /\ v = "confident" THEN offset ELSE confident
      /\ speechEnd' = IF Judged(n, v) /\ Speech(n, v) THEN offset + n ELSE speechEnd
      /\ confident \in Int /\ speechEnd \in Int
      /\ confident' \in Int /\ speechEnd' \in Int
  BY <1>1 DEF Remember, HistoryInv
<1>3. chunk # <<>> =>
        /\ segStart < offset /\ Len(chunk) = offset - segStart
        /\ segStart <= confident'
        /\ speechEnd + silence <= offset /\ silence < EouSilence
  BY <1>1, <1>2, BufferFacts DEF HistoryInv, IInv, CountersMatchState
<1>4. CASE Waiting(n) /\ Report(CapResult(n, o))
  <2>1. LineHasSpeech /\ ClosedByPause
    <3> SUFFICES ASSUME IsLine(out')
                 PROVE  out'.from <= confident' /\ out'.to # offset'
      BY DEF LineHasSpeech, ClosedByPause
    <3>1. Overflows(n) /\ out' = SegmentText(segStart, chunk, o)
      BY <1>4 DEF CapResult, Report, IsLine, NullText
    <3>2. chunk # <<>>
      BY <1>0, <3>1, PushFacts
    <3>3. out'.from = segStart /\ out'.to = segStart + Len(chunk)
      BY <3>1, SegmentLine
    <3> QED
      BY <1>1, <1>3, <3>2, <3>3
  <2>2. CASE KeepWaiting(n, v, o)
    <3>1. chunk' = <<>>
      BY <2>2 DEF KeepWaiting
    <3> QED
      BY <1>2, <2>1, <3>1 DEF HistoryGood, HistoryInv
  <2>3. CASE OpenSegment(n, v, o)
    <3>1. Judged(n, v) /\ v = "confident" /\ silence' = 0 /\ segStart' = OpenAt(n)
      BY <2>3, OpenedByVoice DEF OpenSegment
    <3>2. confident' = offset /\ speechEnd' = offset + n
      BY <1>2, <3>1 DEF Speech
    <3>3. segStart' <= offset
      <4>1. Len(Lead(n)) \in Nat
        BY BufferFacts DEF Lead, PrerollNow
      <4> HIDE DEF Lead
      <4> QED
        BY <1>1, <3>1, <4>1 DEF OpenAt
    <3> QED
      BY <1>1, <1>2, <2>1, <3>1, <3>2, <3>3 DEF HistoryGood, HistoryInv
  <2> QED
    BY <1>4, <2>2, <2>3 DEF Push, Grow, CloseOnSilence, DiscardShort
<1>5. CASE ~Waiting(n)
  <2>1. /\ chunk # <<>> /\ SilenceNow(n) = silence
        /\ Judged(n, v) /\ Speech(n, v) => SilenceCount(n, v) = 0
        /\ Judged(n, v) /\ ~Speech(n, v) => SilenceCount(n, v) = silence + n
        /\ ~Judged(n, v) => SilenceCount(n, v) = silence
    BY <1>5 DEF Waiting, SilenceCount, SilenceNow
  <2>2. speechEnd' + SilenceCount(n, v) <= offset'
    BY <1>1, <1>2, <1>3, <2>1
  <2>3. CASE Grow(n, v)
    BY <1>2, <1>3, <2>1, <2>2, <2>3
    DEF Grow, Report, NullText, IsLine, HistoryGood, HistoryInv, LineHasSpeech, ClosedByPause
  <2>4. CASE DiscardShort(n, v)
    BY <1>2, <2>4
    DEF DiscardShort, ResetSegment, Report, NullText, IsLine, HistoryGood, HistoryInv,
        LineHasSpeech, ClosedByPause
  <2>5. CASE CloseOnSilence(n, v, o)
    <3>1. chunk' = <<>> /\ out' = SegmentText(segStart, chunk \o Incoming(n), o)
      BY <2>5 DEF CloseOnSilence, ResetSegment, Report
    <3>2. IsLine(out') => out'.from <= confident'
      BY <1>3, <2>1, <3>1, SegmentLine
    <3>3. offset' - speechEnd' >= EouSilence
      BY <1>1, <1>2, <2>2, <2>5 DEF CloseOnSilence
    <3> QED
      BY <1>2, <3>1, <3>2, <3>3 DEF HistoryGood, HistoryInv, LineHasSpeech, ClosedByPause
  <2> QED
    BY <1>5, <2>3, <2>4, <2>5 DEF Push, KeepWaiting, OpenSegment
<1> QED
  BY <1>4, <1>5 DEF Push, KeepWaiting, OpenSegment, Grow, CloseOnSilence, DiscardShort

LEMMA HistoryFlush ==
  ASSUME IInv, HistoryInv, UNCHANGED history,
         \/ \E o \in Outcomes : PushFlush(o) \/ Flush(o)
         \/ Close
  PROVE  HistoryGood
<1>1. offset' = offset
  BY DEF PushFlush, Flush, Close
<1>2. chunk' = <<>>
  BY DEF PushFlush, Flush, Close, ResetSegment, buffers
<1>3. IsLine(out') => chunk # <<>> /\ out'.from = segStart
  <2>1. Len(chunk) > MinSegment => chunk # <<>>
    BY BufferFacts, ConstantFacts
  <2>2. ASSUME NEW o \in Outcomes, PushFlush(o) \/ Flush(o), IsLine(out')
        PROVE  chunk # <<>> /\ out'.from = segStart
    <3>1. out' \in {NullText, SegmentText(segStart, chunk, o)}
      BY <2>2 DEF PushFlush, Flush, Report
    <3>2. chunk # <<>>
      BY <2>1, <2>2 DEF PushFlush, Flush, Report, IsLine, NullText
    <3> QED
      BY <2>2, <3>1, <3>2, SegmentLine
  <2>3. Close => ~IsLine(out')
    BY DEF Close, Report, IsLine, NullText
  <2> QED
    BY <2>2, <2>3
<1> QED
  BY <1>1, <1>2, <1>3 DEF HistoryGood, HistoryInv, LineHasSpeech, ClosedByPause, history

LEMMA HistoryStep ==
  ASSUME IInv, HistoryInv, [HNext]_<<vars, history>>
  PROVE  /\ HistoryInv'
         /\ UNCHANGED <<vars, history>> \/ HistoryGood
<1>1. CASE UNCHANGED <<vars, history>>
  BY <1>1 DEF HistoryInv, vars, history
<1>2. CASE StreamInit /\ confident' = -1 /\ speechEnd' = 0
  BY <1>2 DEF StreamInit, ResetSegment, IsLine, NullText, HistoryGood, HistoryInv,
     LineHasSpeech, ClosedByPause
<1> QED
  BY <1>1, <1>2, HistoryPush, HistoryFlush DEF HNext, HistoryGood

(* Remembering changes nothing of what the segmenter does.                 *)
LEMMA HistoryIsSegmenter == HSpec => Spec
<1>1. HInit => Init
  BY DEF HInit
<1>2. [HNext]_<<vars, history>> => [Next]_vars
  BY DEF HNext, Next
<1> QED
  BY <1>1, <1>2, PTL DEF HSpec, Spec

LEMMA HistoryInvariance == ASSUME FramesFit PROVE HSpec => [](IInv /\ HistoryInv)
<1>1. HInit => HistoryInv
  BY DEF HInit, Init, HistoryInv
<1>2. IInv /\ HistoryInv /\ [HNext]_<<vars, history>> => HistoryInv'
  BY HistoryStep
<1> QED
  BY <1>1, <1>2, Invariance, HistoryIsSegmenter, PTL DEF HSpec

(* Noise and soft sounds alone never become text.                          *)
THEOREM LinesHaveSpeech == ASSUME FramesFit PROVE HSpec => EveryLineHasSpeech
<1>1. IInv /\ HistoryInv /\ [HNext]_<<vars, history>> => [LineHasSpeech]_<<vars, history>>
  BY HistoryStep DEF HistoryGood
<1> QED
  BY <1>1, HistoryInvariance, PTL DEF HSpec, EveryLineHasSpeech, LineHasSpeech

(* A segment is closed only after a pause in the segment itself.           *)
THEOREM PausesClose == ASSUME FramesFit PROVE HSpec => ClosesOnlyAfterPause
<1>1. IInv /\ HistoryInv /\ [HNext]_<<vars, history>> => [ClosedByPause]_<<vars, history>>
  BY HistoryStep DEF HistoryGood
<1> QED
  BY <1>1, HistoryInvariance, PTL DEF HSpec, ClosesOnlyAfterPause, ClosedByPause

-----------------------------------------------------------------------------
(* The speaker table fits its storage; as long as no text was lost, its    *)
(* speakers are the ones lines have named.                                 *)
TableInv ==
  /\ speakers \in Seq(Embeddings) /\ Len(speakers) <= MaxSpeakers
  /\ ~SpeakerLoaded => speakers = <<>>
  /\ named \in Nat
  /\ ~textLost /\ SpeakerLoaded => named = Len(speakers)

(* The VAD's context is the end of the audio pushed so far unless the last *)
(* push did not reach the network, and never from before the frame its     *)
(* state took in last.                                                     *)
VadInv ==
  /\ offset \in Nat /\ vadContext \in Nat /\ absorbed.frame \in Int
  /\ ~alive => absorbed = Nothing
  /\ alive => /\ absorbed.frame + VadFrame <= vadContext
              /\ vadContext <= offset
              /\ vadContext = offset \/ bypassed

StreamInv == TableInv /\ VadInv

(* The four properties, of a single step.                                  *)
HeardInContext ==
  alive' /\ absorbed' # absorbed =>
    /\ absorbed.frame + VadFrame <= absorbed'.context
    /\ absorbed'.context <= absorbed'.frame
    /\ absorbed'.context = absorbed'.frame \/ bypassed
NamesClosest ==
  SpeakerLoaded /\ IsLine(out') =>
    \/ speaker' = Len(speakers) /\ Len(speakers') = Len(speakers) + 1
    \/ speaker' + 1 \in nearest' /\ speaker' \in 0 .. Len(speakers) - 1
    \/ /\ speaker' = Nobody /\ nearest' = {}
       /\ Len(speakers) = MaxSpeakers
MatchesVoices ==
  IsLine(out') /\ Len(speakers) < MaxSpeakers =>
    \A i \in Enrolled : speaker' = i - 1 => speakers[i] = "voice"
NamesInOrder == IsLine(out') => textLost \/ speaker' <= named

-----------------------------------------------------------------------------
(* Of the entries that score best one comes first.                         *)
LEMMA FirstOf ==
  ASSUME NEW T, T \subseteq Nat, T # {}
  PROVE  \E i \in T : \A j \in T : i <= j
<1> DEFINE R == OpToRel(<, Nat)
<1>1. IsWellFoundedOn(R, Nat)
  BY NatLessThanWellFounded
<1>2. \A i, j \in Nat : j < i => <<j, i>> \in R
  BY DEF OpToRel
<1> HIDE DEF R
<1>3. PICK i \in T : \A j \in T : <<j, i>> \notin R
  BY <1>1, WFMin
<1>4. ASSUME NEW j \in T PROVE i <= j
  <2>1. i \in Nat /\ j \in Nat
    OBVIOUS
  <2>2. ~(j < i)
    BY <1>2, <1>3, <1>4, <2>1
  <2> QED
    BY <2>1, <2>2
<1> QED
  BY <1>4

(* The closest speaker is one of the table, and the only best; there is    *)
(* one as soon as any entry scores above the worst.                        *)
LEMMA ClosestFacts ==
  ASSUME speakers \in Seq(Embeddings), NEW e \in Embeddings,
         NEW score \in Comparison(e)
  PROVE  /\ Closest(score) \in Nobody .. Len(speakers) - 1
         /\ Closest(score) = Nobody => ~Recognised(score)
         /\ Closest(score) = Nobody => Nearest(score) = {}
         /\ Closest(score) # Nobody => Closest(score) + 1 \in Nearest(score)
         /\ Nearest(score) \subseteq Enrolled
         /\ Recognised(score) =>
              \A i \in Enrolled : Closest(score) = i - 1 => speakers[i] = "voice"
<1> DEFINE comparable ==
             {i \in Enrolled : "incomparable" \notin {e, speakers[i]}}
<1>1. /\ score \in [comparable -> Scores \cup {Unrelated}]
      /\ \A i \in comparable :
           IF "zeros" \in {e, speakers[i]} THEN score[i] = Unrelated
                                          ELSE score[i] \in Scores
  BY DEF Comparison
<1>2. /\ DOMAIN score = comparable
      /\ Enrolled = 1 .. Len(speakers) /\ Len(speakers) \in Nat
      /\ \A i \in comparable : i \in Nat /\ score[i] \in Nat
      /\ \A i \in Enrolled : speakers[i] \in Embeddings
  <2>1. Enrolled = 1 .. Len(speakers) /\ Len(speakers) \in Nat
    BY DEF Enrolled
  <2>2. \A i \in Enrolled : speakers[i] \in Embeddings
    BY <2>1
  <2>3. Scores \cup {Unrelated} \subseteq Nat
    BY StreamAssumption
  <2>4. \A i \in comparable : i \in Enrolled
    OBVIOUS
  <2> HIDE DEF comparable
  <2>5. DOMAIN score = comparable /\ \A i \in comparable : score[i] \in Nat
    BY <1>1, <2>3
  <2> QED
    BY <2>1, <2>2, <2>4, <2>5
<1>3. Best(score) \subseteq comparable
  BY <1>2 DEF Best
<1> HIDE DEF comparable
<1>4. \A i, j \in Best(score) : i = j
  <2> SUFFICES ASSUME NEW i \in Best(score), NEW j \in Best(score), i # j
               PROVE  FALSE
    OBVIOUS
  <2>1. i \in comparable /\ j \in comparable
    BY <1>3
  <2>2. /\ score[i] <= score[j] /\ (i < j => score[i] < score[j])
        /\ score[j] <= score[i] /\ (j < i => score[j] < score[i])
    BY <1>2, <2>1 DEF Best
  <2>3. i \in Nat /\ j \in Nat /\ score[i] \in Nat /\ score[j] \in Nat
    BY <1>2, <2>1
  <2> QED
    BY <2>2, <2>3
<1>7. /\ Nearest(score) \subseteq comparable
      /\ Best(score) \subseteq Nearest(score)
  BY <1>2 DEF Nearest, Best
<1>8. Nearest(score) \subseteq Enrolled
  BY <1>7 DEF comparable
<1>5. CASE Best(score) = {}
  <2>1. Closest(score) = -1 /\ ~Recognised(score)
    BY <1>5 DEF Closest, Recognised, Nobody
  <2>2. ASSUME Nearest(score) # {} PROVE FALSE
    <3>1. PICK i \in Nearest(score) : \A j \in Nearest(score) : i <= j
      BY <1>2, <1>7, <2>2, FirstOf
    <3>2. i \in comparable /\ score[i] \in Nat /\ score[i] > Worst /\ i \in Nat
      BY <1>2, <1>7 DEF Nearest
    <3>3. ASSUME NEW j \in comparable
          PROVE  score[j] <= score[i] /\ (j < i => score[j] < score[i])
      <4>1. score[j] <= score[i] /\ score[j] \in Nat /\ j \in Nat
        BY <1>2, <3>3 DEF Nearest
      <4>2. ASSUME score[j] = score[i] PROVE j \in Nearest(score)
        BY <1>2, <3>2, <3>3, <4>2 DEF Nearest
      <4>3. j \in Nearest(score) => i <= j
        BY <3>1
      <4> QED
        BY <3>2, <4>1, <4>2, <4>3
    <3>4. i \in Best(score)
      BY <1>2, <3>2, <3>3 DEF Best
    <3> QED
      BY <1>5, <3>4
  <2> QED
    BY <1>2, <1>8, <2>1, <2>2 DEF Nobody
<1>6. CASE Best(score) # {}
  <2>1. PICK b \in Best(score) : Closest(score) = b - 1
    <3>1. (CHOOSE i \in Best(score) : TRUE) \in Best(score)
      BY <1>6
    <3> QED
      BY <1>6, <3>1 DEF Closest
  <2>2. b \in comparable /\ b \in 1 .. Len(speakers)
    BY <1>2, <1>3 DEF comparable
  <2>3. ASSUME Recognised(score), NEW i \in Enrolled, Closest(score) = i - 1
        PROVE  speakers[i] = "voice"
    <3>1. i = b
      BY <1>2, <2>1, <2>2, <2>3
    <3>2. score[b] >= Threshold
      BY <1>4, <2>3 DEF Recognised
    <3>3. score[b] # Unrelated
      BY <1>2, <2>2, <3>2, StreamAssumption
    <3>4. "zeros" \notin {e, speakers[b]}
      BY <1>1, <2>2, <3>3
    <3>5. "incomparable" \notin {e, speakers[b]}
      BY <2>2 DEF comparable
    <3> QED
      BY <1>2, <2>3, <3>1, <3>4, <3>5 DEF Embeddings
  <2>4. Closest(score) + 1 \in Nearest(score)
    <3>1. b - 1 + 1 = b
      BY <2>2
    <3> QED
      BY <1>7, <2>1, <3>1
  <2> QED
    BY <1>2, <1>8, <2>1, <2>2, <2>3, <2>4 DEF Nobody
<1> QED
  BY <1>5, <1>6

(* A call that processes a segment whenever it returns a line: what it     *)
(* does to the table, and whom the line names.                             *)
LEMMA SpeaksFacts ==
  ASSUME TableInv, NEW processed, Speaks(processed), Name,
         IsLine(out') => processed
  PROVE  TableInv' /\ NamesClosest /\ MatchesVoices /\ NamesInOrder
<1>1. /\ speakers \in Seq(Embeddings) /\ Len(speakers) \in Nat
      /\ Len(speakers) <= MaxSpeakers /\ named \in Nat
      /\ ~SpeakerLoaded => speakers = <<>>
      /\ ~textLost /\ SpeakerLoaded => named = Len(speakers)
  BY DEF TableInv
<1>2. Enrolled = 1 .. Len(speakers) /\ MaxSpeakers \in Nat \ {0}
  BY <1>1, StreamAssumption DEF Enrolled
<1>0. /\ textLost' => named' = 0
      /\ ~textLost' /\ IsLine(out') /\ speaker' >= named => named' = speaker' + 1
      /\ ~textLost' /\ ~(IsLine(out') /\ speaker' >= named) => named' = named
  BY Zenon DEF Name
<1>3. CASE ~processed
  <2>1. /\ speaker' = -1 /\ speakers' = speakers /\ textLost' = textLost
        /\ ~IsLine(out')
    BY <1>3 DEF Speaks, Nobody
  <2>2. named' = IF textLost THEN 0 ELSE named
    BY <1>0, <2>1
  <2> QED
    BY <1>1, <2>1, <2>2
       DEF TableInv, NamesClosest, MatchesVoices, NamesInOrder
<1>4. CASE processed /\ ~SpeakerLoaded
  <2>1. speaker' = 0 /\ speakers' = speakers
    BY <1>4 DEF Speaks
  <2>2. named' \in Nat
    BY <1>0, <1>1, <2>1
  <2> QED
    BY <1>1, <1>4, <2>1, <2>2
       DEF TableInv, NamesClosest, MatchesVoices, NamesInOrder, Enrolled
<1>5. CASE processed /\ SpeakerLoaded
  <2>1. PICK e \in Embeddings :
          \E score \in Comparison(e) :
            Identify(e, score) /\ nearest' = Nearest(score)
    BY <1>5 DEF Speaks
  <2>2. PICK score \in Comparison(e) :
          Identify(e, score) /\ nearest' = Nearest(score)
    BY <2>1
  <2>3. ~textLost' => ~textLost /\ IsLine(out')
    BY <1>5 DEF Speaks
  <2>4. CASE ~Recognised(score) /\ Room
    <3>1. speaker' = Len(speakers) /\ speakers' = Append(speakers, e)
      BY <2>2, <2>4 DEF Identify
    <3>2. /\ speakers' \in Seq(Embeddings) /\ Len(speakers') = Len(speakers) + 1
          /\ Len(speakers) < MaxSpeakers
      BY <1>1, <2>4, <3>1 DEF Room
    <3>3. named' \in Nat
      BY <1>0, <1>1, <3>1
    <3>4. ~textLost' => named' = Len(speakers')
      BY <1>0, <1>1, <1>5, <2>3, <3>1, <3>2
    <3>5. TableInv'
      BY <1>1, <1>2, <1>5, <3>2, <3>3, <3>4 DEF TableInv
    <3>6. NamesClosest /\ MatchesVoices /\ NamesInOrder
      BY <1>1, <1>2, <1>5, <3>1, <3>2
         DEF NamesClosest, MatchesVoices, NamesInOrder
    <3> QED
      BY <3>5, <3>6
  <2>5. CASE Recognised(score) \/ ~Room
    <3>1. speaker' = Closest(score) /\ speakers' = speakers
      BY <2>2, <2>5 DEF Identify
    <3>2. /\ speaker' \in -1 .. Len(speakers) - 1
          /\ speaker' = -1 => ~Recognised(score)
      BY <1>1, <3>1, ClosestFacts DEF Nobody
    <3>3. ~Recognised(score) => Len(speakers) = MaxSpeakers
      BY <1>1, <1>2, <2>5 DEF Room
    <3>4. named' \in Nat
      BY <1>0, <1>1, <3>2
    <3>5. ~textLost' => named' = Len(speakers')
      BY <1>0, <1>1, <1>5, <2>3, <3>1, <3>2
    <3>6. TableInv'
      BY <1>1, <3>1, <3>4, <3>5 DEF TableInv
    <3>7. NamesClosest
      <4>1. /\ Closest(score) = -1 => Nearest(score) = {}
            /\ Closest(score) # -1 => Closest(score) + 1 \in Nearest(score)
        BY <1>1, ClosestFacts DEF Nobody
      <4> QED
        BY <1>1, <2>2, <3>1, <3>2, <3>3, <4>1 DEF NamesClosest, Nobody
    <3>8. MatchesVoices
      <4>1. Len(speakers) < MaxSpeakers => Recognised(score)
        BY <1>1, <1>2, <3>3
      <4> QED
        BY <1>1, <3>1, <4>1, ClosestFacts DEF MatchesVoices
    <3>9. NamesInOrder
      BY <1>1, <1>5, <3>2 DEF NamesInOrder
    <3> QED
      BY <3>6, <3>7, <3>8, <3>9
  <2> QED
    BY <2>4, <2>5
<1> QED
  BY <1>3, <1>4, <1>5

-----------------------------------------------------------------------------
(* A push returns a line only if it processed a segment.                   *)
LEMMA PushProcessed ==
  ASSUME NEW n \in PushSizes, NEW v \in Verdicts, NEW o \in Outcomes,
         Push(n, v, o), IsLine(out')
  PROVE  PushProcesses(n, v)
<1>1. ~IsLine(NullText)
  BY DEF IsLine, NullText
<1>2. CASE KeepWaiting(n, v, o) \/ OpenSegment(n, v, o)
  <2>1. out' = CapResult(n, o)
    BY <1>2 DEF KeepWaiting, OpenSegment, Report
  <2> QED
    BY <1>1, <2>1 DEF CapResult, PushProcesses
<1>3. CASE Grow(n, v) \/ DiscardShort(n, v)
  BY <1>1, <1>3 DEF Grow, DiscardShort, Report
<1>4. CASE CloseOnSilence(n, v, o)
  BY <1>4 DEF CloseOnSilence, Waiting, PushProcesses
<1> QED
  BY <1>2, <1>3, <1>4 DEF Push

LEMMA FlushesProcessed ==
  ASSUME NEW o \in Outcomes, IsLine(out')
  PROVE  /\ PushFlush(o) => chunk # <<>>
         /\ Flush(o) => Len(chunk) > MinSegment
BY DEF PushFlush, Flush, Report, IsLine, NullText

(* What the position does, and the handle.                                 *)
LEMMA PushMoves ==
  ASSUME NEW n \in PushSizes, NEW v \in Verdicts, NEW o \in Outcomes,
         Push(n, v, o)
  PROVE  n \in Nat /\ alive /\ alive' = alive /\ offset' = offset + n
BY SegmenterAssumption
   DEF Push, KeepWaiting, OpenSegment, Grow, CloseOnSilence, DiscardShort, Accept

-----------------------------------------------------------------------------
LEMMA InitStreamInv == SInit => StreamInv
<1> SUFFICES ASSUME SInit PROVE StreamInv
  OBVIOUS
<1>1. TableInv
  BY StreamAssumption DEF SInit, StreamVarsInit, TableInv
<1>2. VadInv
  BY SegmenterAssumption DEF SInit, Init, StreamVarsInit, VadInv, Nothing
<1> QED
  BY <1>1, <1>2 DEF StreamInv

(* Every step keeps the invariant and has the four properties.             *)
Good == StreamInv' /\ HeardInContext /\ NamesClosest /\ MatchesVoices /\ NamesInOrder

(* What a call of run_silero_vad answers is a verdict.                     *)
LEMMA AnswerIsVerdict == \A c \in Calls : c.answer \in Verdicts
<1> SUFFICES ASSUME NEW c \in Calls PROVE c.answer \in Verdicts
  OBVIOUS
<1>1. CASE c \in [reached : {TRUE}, answer : Verdicts, kept : BOOLEAN]
  BY <1>1
<1>2. CASE c = [reached |-> FALSE, answer |-> "failed", kept |-> FALSE]
  BY <1>2 DEF Verdicts
<1> QED
  BY <1>1, <1>2 DEF Calls

LEMMA PushStep ==
  ASSUME StreamInv, NEW n \in PushSizes, NEW c \in Calls, NEW o \in Outcomes,
         SPush(n, c, o)
  PROVE  Good
<1> DEFINE v == c.answer
<1>1. Push(n, v, o) /\ VadCall(n, c) /\ Speaks(PushProcesses(n, v)) /\ Name
  BY DEF SPush
<1>2. v \in Verdicts
  BY AnswerIsVerdict
<1>3. IsLine(out') => PushProcesses(n, v)
  BY <1>1, <1>2, PushProcessed
<1>4. TableInv' /\ NamesClosest /\ MatchesVoices /\ NamesInOrder
  BY <1>1, <1>3, SpeaksFacts DEF StreamInv
<1>5. n \in Nat /\ alive /\ alive' = alive /\ offset' = offset + n
  BY <1>1, <1>2, PushMoves
<1>6. /\ offset \in Nat /\ vadContext \in Nat /\ absorbed.frame \in Int
      /\ absorbed.frame + VadFrame <= vadContext
      /\ vadContext <= offset
      /\ vadContext = offset \/ bypassed
  BY <1>5 DEF StreamInv, VadInv
<1>7. VadFrame \in Nat
  BY SegmenterAssumption
<1>8. VadInv' /\ HeardInContext
  <2>1. CASE ~Reaches(n, c)
    <3>1. absorbed' = absorbed /\ vadContext' = vadContext /\ bypassed'
      BY <1>1, <2>1 DEF VadCall, ContextAfter
    <3> QED
      BY <1>5, <1>6, <3>1 DEF VadInv, HeardInContext
  <2>2. CASE Reaches(n, c)
    <3>1. n = VadFrame /\ vadContext' = offset + n
      BY <1>1, <2>2 DEF Reaches, VadCall, ContextAfter
    <3>2. CASE absorbed' = absorbed
      BY <1>5, <1>6, <1>7, <3>1, <3>2 DEF VadInv, HeardInContext
    <3>3. CASE absorbed' = [context |-> vadContext, frame |-> offset]
      <4>1. absorbed'.context = vadContext /\ absorbed'.frame = offset
        BY <3>3
      <4>2. VadInv'
        BY <1>5, <1>6, <1>7, <3>1, <4>1 DEF VadInv
      <4>3. HeardInContext
        BY <1>6, <4>1 DEF HeardInContext
      <4> QED
        BY <4>2, <4>3
    <3> QED
      BY <1>1, <3>2, <3>3 DEF VadCall
  <2> QED
    BY <2>1, <2>2
<1> QED
  BY <1>4, <1>8 DEF Good, StreamInv

LEMMA FlushSteps ==
  ASSUME StreamInv, NEW o \in Outcomes, SPushFlush(o) \/ SFlush(o)
  PROVE  Good
<1>1. \E processed \in BOOLEAN :
        Speaks(processed) /\ Name /\ (IsLine(out') => processed)
  <2>1. CASE SPushFlush(o)
    BY <2>1, FlushesProcessed DEF SPushFlush
  <2>2. CASE SFlush(o)
    <3>1. (Len(chunk) > MinSegment) \in BOOLEAN
      OBVIOUS
    <3> QED
      BY <2>2, <3>1, FlushesProcessed DEF SFlush
  <2> QED
    BY <2>1, <2>2
<1>2. TableInv' /\ NamesClosest /\ MatchesVoices /\ NamesInOrder
  BY <1>1, SpeaksFacts DEF StreamInv
<1>3. UNCHANGED <<alive, offset, vadContext, absorbed, bypassed>>
  BY DEF SPushFlush, SFlush, PushFlush, Flush
<1>4. VadInv' /\ HeardInContext
  BY <1>3 DEF StreamInv, VadInv, HeardInContext
<1> QED
  BY <1>2, <1>4 DEF Good, StreamInv

(* The steps that return no line and enrol no one.                         *)
LEMMA OtherSteps ==
  ASSUME StreamInv,
         SStreamInit \/ SClose \/ \E n \in PushSizes : SOversize(n)
  PROVE  Good
<1>1. ~IsLine(out')
  BY DEF SStreamInit, StreamInit, SClose, Close, SOversize, Oversize, Report,
     IsLine, NullText
<1>2. NamesClosest /\ MatchesVoices /\ NamesInOrder
  BY <1>1 DEF NamesClosest, MatchesVoices, NamesInOrder
<1>3. TableInv'
  <2>1. UNCHANGED <<speakers, named, textLost>> \/ (speakers' = <<>> /\ named' = 0)
    BY DEF SStreamInit, SClose, SOversize
  <2> QED
    <3>1. CASE UNCHANGED <<speakers, named, textLost>>
      BY <3>1 DEF StreamInv, TableInv
    <3>2. CASE speakers' = <<>> /\ named' = 0
      BY <3>2, StreamAssumption DEF TableInv
    <3> QED
      BY <2>1, <3>1, <3>2
<1>4. VadInv' /\ HeardInContext
  <2>1. CASE SStreamInit
    BY <2>1, SegmenterAssumption
       DEF SStreamInit, StreamInit, StreamInv, VadInv, HeardInContext, Nothing
  <2>2. CASE SClose
    BY <2>2, SegmenterAssumption
       DEF SClose, Close, StreamInv, VadInv, HeardInContext, Nothing
  <2>3. CASE \E n \in PushSizes : SOversize(n)
    BY <2>3, SegmenterAssumption
       DEF SOversize, Oversize, StreamInv, VadInv, HeardInContext
  <2> QED
    BY <2>1, <2>2, <2>3
<1> QED
  BY <1>2, <1>3, <1>4 DEF Good, StreamInv

LEMMA StreamStep ==
  ASSUME StreamInv, [SNext]_streamVars
  PROVE  /\ StreamInv'
         /\ UNCHANGED streamVars \/ Good
<1>1. CASE SNext
  BY <1>1, PushStep, FlushSteps, OtherSteps DEF SNext, Good
<1>2. CASE UNCHANGED streamVars
  BY <1>2 DEF StreamInv, TableInv, VadInv, streamVars, vars
<1> QED
  BY <1>1, <1>2

LEMMA StreamInvariance == SSpec => []StreamInv
BY InitStreamInv, StreamStep, PTL DEF SSpec

-----------------------------------------------------------------------------
(* The two memories never change what the segmenter does, so that whatever *)
(* is proved of the segmenter holds of the whole stream.                   *)
THEOREM StreamIsSegmenter == SSpec => Spec
<1>1. SInit => Init
  BY DEF SInit
<1>2. [SNext]_streamVars => [Next]_vars
  <2> SUFFICES ASSUME [SNext]_streamVars PROVE [Next]_vars
    OBVIOUS
  <2>1. CASE UNCHANGED streamVars
    BY <2>1 DEF streamVars
  <2>2. CASE SStreamInit \/ SClose \/ \E n \in PushSizes : SOversize(n)
    BY <2>2 DEF SStreamInit, SClose, SOversize, Next
  <2>3. ASSUME NEW n \in PushSizes, NEW c \in Calls, NEW o \in Outcomes,
               SPush(n, c, o)
        PROVE  Next
    BY <2>3, AnswerIsVerdict DEF SPush, Next
  <2>4. CASE \E o \in Outcomes : SPushFlush(o) \/ SFlush(o)
    BY <2>4 DEF SPushFlush, SFlush, Next
  <2> QED
    BY <2>1, <2>2, <2>3, <2>4 DEF SNext
<1> QED
  BY <1>1, <1>2, PTL DEF SSpec, Spec

(* The VAD network hears the frames in order, each after the samples that  *)
(* precede it unless the push before did not reach the network.            *)
THEOREM ContextKept == SSpec => JudgedInContext
<1>1. StreamInv /\ [SNext]_streamVars => [HeardInContext]_streamVars
  BY StreamStep DEF Good
<1> QED
  BY <1>1, StreamInvariance, PTL DEF SSpec, JudgedInContext, HeardInContext

(* Every line names the speaker it enrolled or the closest one of the      *)
(* table; -1 only where the table is full and no score is above -1.        *)
THEOREM LineNamesClosest == SSpec => NamesClosestSpeaker
<1>1. StreamInv /\ [SNext]_streamVars => [NamesClosest]_streamVars
  BY StreamStep DEF Good
<1> QED
  BY <1>1, StreamInvariance, PTL DEF SSpec, NamesClosestSpeaker, NamesClosest

(* While there is room, no line goes to someone enrolled from a failed     *)
(* embedding, whatever the scores.                                         *)
THEOREM OnlyVoicesMatch == SSpec => FailedVoiceNeverMatches
<1>1. StreamInv /\ [SNext]_streamVars => [MatchesVoices]_streamVars
  BY StreamStep DEF Good
<1> QED
  BY <1>1, StreamInvariance, PTL DEF SSpec, FailedVoiceNeverMatches, MatchesVoices

(* Speakers enter the transcript in the order of their numbers.            *)
THEOREM SpeakersInOrder == SSpec => NumberedInOrder
<1>1. StreamInv /\ [SNext]_streamVars => [NamesInOrder]_streamVars
  BY StreamStep DEF Good
<1> QED
  BY <1>1, StreamInvariance, PTL DEF SSpec, NumberedInOrder, NamesInOrder

-----------------------------------------------------------------------------
(* The types of a whole stream, for pushes of any size.                    *)

(* Whoever a line names has or had a place in the table.                   *)
LEMMA SpeaksTypes ==
  ASSUME StreamTypeOK, NEW processed \in BOOLEAN, Speaks(processed), Name
  PROVE  /\ speakers' \in Seq(Embeddings) /\ Len(speakers') <= MaxSpeakers
         /\ speaker' \in Nobody .. MaxSpeakers - 1
         /\ nearest' \subseteq DOMAIN speakers'
         /\ named' \in 0 .. MaxSpeakers
         /\ textLost' \in BOOLEAN
<1>1. /\ speakers \in Seq(Embeddings) /\ Len(speakers) \in Nat
      /\ Len(speakers) <= MaxSpeakers
      /\ named \in 0 .. MaxSpeakers /\ textLost \in BOOLEAN
      /\ MaxSpeakers \in Nat /\ MaxSpeakers > 0
  BY StreamAssumption DEF StreamTypeOK
<1>2. /\ speakers' \in Seq(Embeddings) /\ Len(speakers') <= MaxSpeakers
      /\ speaker' \in Nobody .. MaxSpeakers - 1
      /\ nearest' \subseteq DOMAIN speakers'
  <2>1. CASE ~processed
    BY <1>1, <2>1 DEF Speaks, Nobody
  <2>2. CASE processed /\ ~SpeakerLoaded
    BY <1>1, <2>2 DEF Speaks, Nobody
  <2>3. CASE processed /\ SpeakerLoaded
    <3>1. PICK e \in Embeddings :
            \E s \in Comparison(e) : Identify(e, s) /\ nearest' = Nearest(s)
      BY <2>3 DEF Speaks
    <3>2. PICK score \in Comparison(e) :
            Identify(e, score) /\ nearest' = Nearest(score)
      BY <3>1
    <3>5. nearest' \subseteq 1 .. Len(speakers)
      BY <1>1, <3>2, ClosestFacts DEF Enrolled
    <3>3. CASE ~Recognised(score) /\ Room
      <4>1. speaker' = Len(speakers) /\ speakers' = Append(speakers, e)
        BY <3>2, <3>3 DEF Identify
      <4>2. /\ speakers' \in Seq(Embeddings)
            /\ Len(speakers') = Len(speakers) + 1
            /\ DOMAIN speakers' = 1 .. Len(speakers) + 1
        BY <1>1, <4>1
      <4>3. nearest' \subseteq DOMAIN speakers'
        BY <1>1, <3>5, <4>2
      <4> QED
        BY <1>1, <3>3, <4>1, <4>2, <4>3 DEF Room, Nobody
    <3>4. CASE Recognised(score) \/ ~Room
      <4>1. speaker' = Closest(score) /\ speakers' = speakers
        BY <3>2, <3>4 DEF Identify
      <4>2. Closest(score) \in -1 .. Len(speakers) - 1
        BY <1>1, ClosestFacts DEF Nobody
      <4> QED
        BY <1>1, <3>5, <4>1, <4>2 DEF Nobody
    <3> QED
      BY <3>3, <3>4
  <2> QED
    BY <2>1, <2>2, <2>3
<1>3. textLost' \in BOOLEAN
  <2>1. textLost' = textLost \/ textLost' = (textLost \/ ~IsLine(out'))
    BY Zenon DEF Speaks
  <2> QED
    BY <1>1, <2>1
<1>4. \/ named' = 0
      \/ speaker' >= named /\ named' = speaker' + 1
      \/ named' = named
  BY Zenon DEF Name
<1>5. named' \in 0 .. MaxSpeakers
  BY <1>1, <1>2, <1>4 DEF Nobody
<1> QED
  BY <1>2, <1>3, <1>5

LEMMA VadCallTypes ==
  ASSUME StreamTypeOK, NEW n \in PushSizes, NEW c \in Calls,
         offset + n \in 0 .. MaxSamples, VadCall(n, c)
  PROVE  /\ vadContext' \in 0 .. MaxSamples
         /\ absorbed' \in [context : 0 .. MaxSamples, frame : -VadFrame .. MaxSamples]
         /\ bypassed' \in BOOLEAN
<1>1. /\ vadContext \in 0 .. MaxSamples /\ offset \in 0 .. MaxSamples
      /\ absorbed \in [context : 0 .. MaxSamples, frame : -VadFrame .. MaxSamples]
  BY DEF StreamTypeOK, TypeOK
<1>2. offset \in -VadFrame .. MaxSamples
  BY <1>1, SegmenterAssumption
<1>3. vadContext' \in 0 .. MaxSamples
  BY <1>1 DEF VadCall, ContextAfter
<1>4. \/ absorbed' = [context |-> vadContext, frame |-> offset]
      \/ absorbed' = absorbed
  BY DEF VadCall
<1>5. [context |-> vadContext, frame |-> offset]
        \in [context : 0 .. MaxSamples, frame : -VadFrame .. MaxSamples]
  BY <1>1, <1>2
<1>6. bypassed' \in BOOLEAN
  BY DEF VadCall
<1> QED
  BY <1>1, <1>3, <1>4, <1>5, <1>6

LEMMA StreamTypeStep ==
  ASSUME StreamTypeOK, TypeOK', [SNext]_streamVars
  PROVE  StreamTypeOK'
<1>1. /\ <<>> \in Seq(Embeddings) /\ Len(<<>>) = 0
      /\ 0 \in 0 .. MaxSamples /\ 0 \in 0 .. MaxSpeakers /\ 0 <= MaxSpeakers
      /\ Nobody \in Nobody .. MaxSpeakers - 1
      /\ Nothing \in [context : 0 .. MaxSamples, frame : -VadFrame .. MaxSamples]
  BY SegmenterAssumption, StreamAssumption DEF Nobody, Nothing
<1>2. ASSUME NEW n \in PushSizes, NEW c \in Calls, NEW o \in Outcomes,
             SPush(n, c, o)
      PROVE  StreamTypeOK'
  <2>1. offset + n \in 0 .. MaxSamples
    <3>1. Push(n, c.answer, o) /\ c.answer \in Verdicts
      BY <1>2, AnswerIsVerdict DEF SPush
    <3>2. offset' = offset + n
      BY <3>1, PushMoves
    <3> QED
      BY <3>2 DEF TypeOK
  <2>2. VadCall(n, c) /\ Speaks(PushProcesses(n, c.answer)) /\ Name
    BY <1>2 DEF SPush
  <2>3. /\ vadContext' \in 0 .. MaxSamples
        /\ absorbed' \in [context : 0 .. MaxSamples, frame : -VadFrame .. MaxSamples]
        /\ bypassed' \in BOOLEAN
    BY <2>1, <2>2, VadCallTypes
  <2>4. PushProcesses(n, c.answer) \in BOOLEAN
    <3>1. CASE Overflows(n)
      <4>1. PushProcesses(n, c.answer) = (Len(chunk) > MinSegment)
        BY <3>1 DEF PushProcesses
      <4> QED
        BY <4>1
    <3>2. CASE ~Overflows(n)
      <4>1. PushProcesses(n, c.answer)
              = (/\ chunk # <<>> /\ SilenceCount(n, c.answer) >= EouSilence
                 /\ Len(chunk) + n > MinSegment)
        BY <3>2 DEF PushProcesses
      <4> QED
        BY <4>1
    <3> QED
      BY <3>1, <3>2
  <2> QED
    BY <2>2, <2>3, <2>4, SpeaksTypes DEF StreamTypeOK, Enrolled
<1>3. ASSUME NEW o \in Outcomes, SPushFlush(o) \/ SFlush(o)
      PROVE  StreamTypeOK'
  <2>1. PICK processed \in BOOLEAN : Speaks(processed) /\ Name
    <3>1. (chunk # <<>>) \in BOOLEAN /\ (Len(chunk) > MinSegment) \in BOOLEAN
      OBVIOUS
    <3> QED
      BY <1>3, <3>1 DEF SPushFlush, SFlush
  <2>2. UNCHANGED <<vadContext, absorbed, bypassed>>
    BY <1>3 DEF SPushFlush, SFlush
  <2> QED
    BY <2>1, <2>2, SpeaksTypes DEF StreamTypeOK, Enrolled
<1>4. ASSUME NEW n \in PushSizes, SOversize(n)
      PROVE  StreamTypeOK'
  BY <1>1, <1>4 DEF SOversize, StreamTypeOK, Enrolled
<1>5. CASE SStreamInit \/ SClose
  BY <1>1, <1>5 DEF SStreamInit, SClose, StreamTypeOK, Enrolled
<1>6. CASE UNCHANGED streamVars
  BY <1>6 DEF streamVars, StreamTypeOK, Enrolled
<1> QED
  BY <1>2, <1>3, <1>4, <1>5, <1>6 DEF SNext

(* Every field of the stream keeps its type, and the table of speakers is  *)
(* never written past its end, for pushes of any size and a table of any.  *)
THEOREM StreamTypesCorrect == SSpec => []StreamTypeOK
<1>1. SInit => StreamTypeOK
  <2> SUFFICES ASSUME SInit PROVE StreamTypeOK
    OBVIOUS
  <2>1. TypeOK
    BY InitIInv DEF SInit, IInv
  <2>2. Nothing \in [context : 0 .. MaxSamples, frame : -VadFrame .. MaxSamples]
    BY SegmenterAssumption DEF Nothing
  <2>3. /\ 0 \in 0 .. MaxSamples /\ 0 \in 0 .. MaxSpeakers /\ 0 <= MaxSpeakers
        /\ Nobody \in Nobody .. MaxSpeakers - 1
        /\ <<>> \in Seq(Embeddings) /\ Len(<<>>) = 0
    BY SegmenterAssumption, StreamAssumption DEF Nobody
  <2> QED
    BY <2>1, <2>2, <2>3 DEF SInit, StreamVarsInit, StreamTypeOK, Enrolled
<1>2. StreamTypeOK /\ TypeOK' /\ [SNext]_streamVars => StreamTypeOK'
  BY StreamTypeStep
<1> QED
  BY <1>1, <1>2, TypeCorrect, StreamIsSegmenter, PTL DEF SSpec
=============================================================================
