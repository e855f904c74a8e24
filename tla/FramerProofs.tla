----------------------------- MODULE FramerProofs -----------------------------
(***************************************************************************)
(* Proofs about Framer and about Recording, which drives the segmenter     *)
(* with it: for frames, chunks and recordings of any length, and every     *)
(* capacity and threshold RecordingAssumption allows.  What is proved of   *)
(* the segmenter in SegmenterProofs is used here as it stands.             *)
(***************************************************************************)
EXTENDS Recording, SequenceTheorems, FunctionTheorems, FiniteSetTheorems, TLAPS

Segments == INSTANCE SegmenterProofs WITH
              VadFrame <- FrameSamples, VadLoaded <- TRUE,
              PushSizes <- {FrameSamples}, MemoryFails <- FALSE

-----------------------------------------------------------------------------
(* What SegmenterProofs assumes of its constants holds of these.           *)
LEMMA Assumed == Segments!SegmenterAssumption /\ Segments!FramesFit
BY FramerAssumption, RecordingAssumption
   DEF Segments!SegmenterAssumption, Segments!FramesFit

(* Its runs are these runs.                                                *)
LEMMA SameRuns ==
  /\ \A a, b : Segments!Run(a, b) = Run(a, b)
  /\ \A s : Segments!Samples(s) = Samples(s)
  /\ \A s : Segments!Increasing(s) <=> Increasing(s)
BY DEF Segments!Run, Run, Segments!Samples, Samples,
   Segments!Increasing, Increasing

LEMMA RunFacts ==
  ASSUME NEW a \in Nat, NEW b \in Nat, a <= b
  PROVE  /\ Run(a, b) \in Seq(Nat) /\ Len(Run(a, b)) = b - a
         /\ \A i \in 1 .. b - a : Run(a, b)[i] = a + i - 1
<1>1. /\ Segments!Run(a, b) \in Seq(Nat) /\ Len(Segments!Run(a, b)) = b - a
      /\ \A i \in 1 .. b - a : Segments!Run(a, b)[i] = a + i - 1
  BY Assumed, Segments!RunFacts
<1>2. Segments!Run(a, b) = Run(a, b)
  BY SameRuns
<1> QED
  BY <1>1, <1>2

LEMMA RunConcat ==
  ASSUME NEW a \in Nat, NEW b \in Nat, NEW c \in Nat, a <= b, b <= c
  PROVE  Run(a, b) \o Run(b, c) = Run(a, c)
<1>1. Segments!Run(a, b) \o Segments!Run(b, c) = Segments!Run(a, c)
  BY Assumed, Segments!RunConcat
<1> QED
  BY <1>1, SameRuns

LEMMA RunOfNothing ==
  ASSUME NEW a \in Nat, NEW b \in Nat, b <= a
  PROVE  Run(a, b) = <<>>
<1>1. Segments!Run(a, b) = <<>>
  BY Assumed, Segments!RunOfNothing
<1> QED
  BY <1>1, SameRuns

LEMMA RunAppended ==
  ASSUME NEW s \in Seq(Nat), NEW a \in Nat, NEW b \in Nat, a <= b,
         Increasing(s), Samples(s) \subseteq 0 .. a - 1
  PROVE  /\ s \o Run(a, b) \in Seq(Nat)
         /\ Len(s \o Run(a, b)) = Len(s) + (b - a)
         /\ Increasing(s \o Run(a, b))
         /\ Samples(s \o Run(a, b)) = Samples(s) \cup (a .. b - 1)
<1>1. Segments!Increasing(s) /\ Segments!Samples(s) \subseteq 0 .. a - 1
  BY SameRuns
<1>2. /\ s \o Segments!Run(a, b) \in Seq(Nat)
      /\ Len(s \o Segments!Run(a, b)) = Len(s) + (b - a)
      /\ Segments!Increasing(s \o Segments!Run(a, b))
      /\ Segments!Samples(s \o Segments!Run(a, b))
           = Segments!Samples(s) \cup (a .. b - 1)
  BY <1>1, Assumed, Segments!RunAppended
<1>3. Segments!Run(a, b) = Run(a, b)
  BY SameRuns
<1>4. /\ Segments!Increasing(s \o Run(a, b)) <=> Increasing(s \o Run(a, b))
      /\ Segments!Samples(s \o Run(a, b)) = Samples(s \o Run(a, b))
      /\ Segments!Samples(s) = Samples(s)
  BY SameRuns
<1> QED
  BY <1>2, <1>3, <1>4

-----------------------------------------------------------------------------
(* The framer.                                                             *)

(* The sample of the recording pushChunk looks at next, and the first one  *)
(* not handed over.                                                        *)
From   == end - srcLen + srcOffset
SentTo == From - Len(carry)

(* What waits in the carry is the audio just before the one looked at; all *)
(* before that has been handed over, in order, or discarded.               *)
HandedOver ==
  /\ SentTo \in Nat /\ carry = Run(SentTo, From)
  /\ Increasing(sent) /\ Samples(sent) = (0 .. SentTo - 1) \ dropped
  /\ dropped \subseteq 0 .. SentTo - 1

(* Between calls there is no chunk; the carry is topped up first.          *)
CallInv ==
  /\ pc = "idle" => srcLen = 0 /\ srcOffset = 0
  /\ pc = "top" => srcOffset = 0

FInv == TypeOK /\ CarryIsPartial /\ HandedOver /\ CallInv

(* A step of a call hands nothing over, or the next frame.                 *)
Waits == UNCHANGED <<sent, dropped>> /\ SentTo' = SentTo
Sends ==
  /\ sent' = sent \o Run(SentTo, SentTo + FrameSamples)
  /\ SentTo' = SentTo + FrameSamples
  /\ UNCHANGED dropped

-----------------------------------------------------------------------------
LEMMA FieldFacts ==
  ASSUME FInv
  PROVE  /\ end \in Nat /\ srcLen \in Nat /\ srcOffset \in Nat
         /\ srcLen <= end /\ srcOffset <= srcLen /\ end <= MaxSamples
         /\ carry \in Seq(Nat) /\ sent \in Seq(Nat)
         /\ Len(carry) \in Nat /\ Len(sent) \in Nat /\ Len(carry) < FrameSamples
         /\ FrameSamples \in Nat /\ FrameSamples > 0 /\ MaxSamples \in Nat
         /\ From \in Nat /\ SentTo \in Nat /\ SentTo + Len(carry) = From
         /\ From <= end
<1>1. /\ end \in Nat /\ srcLen \in Nat /\ srcOffset \in Nat
      /\ srcLen <= end /\ srcOffset <= srcLen /\ end <= MaxSamples
      /\ carry \in Seq(Nat) /\ sent \in Seq(Nat)
      /\ FrameSamples \in Nat /\ FrameSamples > 0 /\ MaxSamples \in Nat
  BY FramerAssumption DEF FInv, TypeOK
<1>2. Len(carry) \in Nat /\ Len(sent) \in Nat /\ Len(carry) < FrameSamples
  BY <1>1 DEF FInv, CarryIsPartial
<1>3. From \in Nat /\ From <= end
  BY <1>1 DEF From
<1>4. SentTo \in Nat /\ SentTo + Len(carry) = From
  BY <1>2, <1>3 DEF SentTo, FInv, HandedOver
<1> QED
  BY <1>1, <1>2, <1>3, <1>4

(* A frame more is still a whole number of frames.                         *)
LEMMA WholeFrames ==
  ASSUME NEW x \in Nat, NEW f \in Nat \ {0}, \E k \in 0 .. x : x = k * f
  PROVE  \E k \in 0 .. x + f : x + f = k * f
<1>1. PICK k \in 0 .. x : x = k * f
  OBVIOUS
<1>2. k + 1 \in 0 .. x + f /\ x + f = (k + 1) * f
  BY <1>1
<1> QED
  BY <1>2

(* The samples between two places of the current chunk.                    *)
LEMMA SourceFacts ==
  ASSUME FInv, NEW j \in Nat, srcOffset <= j, j <= srcLen,
         NEW b \in Nat, b = From + (j - srcOffset)
  PROVE  /\ Source(srcOffset, j) = Run(From, b)
         /\ Source(srcOffset, j) \in Seq(Nat)
         /\ Len(Source(srcOffset, j)) = j - srcOffset
         /\ carry \o Source(srcOffset, j) = Run(SentTo, b)
<1>1. /\ From \in Nat /\ b \in Nat /\ From <= b /\ SentTo \in Nat
      /\ SentTo <= From /\ b - From = j - srcOffset
  <2>1. /\ From \in Nat /\ SentTo \in Nat /\ SentTo <= From /\ srcOffset \in Nat
        /\ j \in Nat /\ b \in Nat /\ srcOffset <= j
    BY FieldFacts
  <2>2. b = From + (j - srcOffset)
    OBVIOUS
  <2> QED
    BY ONLY <2>1, <2>2
<1>2. Source(srcOffset, j) = Run(From, b)
  <2>1. end - srcLen + srcOffset = From /\ end - srcLen + j = b
    BY FieldFacts DEF From
  <2> QED
    BY <2>1 DEF Source
<1>3. Run(From, b) \in Seq(Nat) /\ Len(Run(From, b)) = b - From
  BY ONLY <1>1, RunFacts
<1>4. carry = Run(SentTo, From)
  BY DEF FInv, HandedOver
<1>5. Run(SentTo, From) \o Run(From, b) = Run(SentTo, b)
  BY ONLY <1>1, RunConcat
<1> QED
  BY <1>1, <1>2, <1>3, <1>4, <1>5

(* Handing over all the samples up to place b.                             *)
LEMMA HandOver ==
  ASSUME FInv, NEW b \in Nat, SentTo <= b
  PROVE  LET more == sent \o Run(SentTo, b)
         IN  /\ more \in Seq(Nat) /\ Len(more) = Len(sent) + (b - SentTo)
             /\ Increasing(more)
             /\ Samples(more) = (0 .. b - 1) \ dropped
<1>1. SentTo \in Nat /\ sent \in Seq(Nat)
  BY FieldFacts
<1>2. /\ Increasing(sent) /\ Samples(sent) = (0 .. SentTo - 1) \ dropped
      /\ dropped \subseteq 0 .. SentTo - 1
  BY DEF FInv, HandedOver
<1>3. b \in Nat /\ SentTo <= b
  OBVIOUS
<1>4. Samples(sent) \subseteq 0 .. SentTo - 1
  BY ONLY <1>2
<1>5. /\ sent \o Run(SentTo, b) \in Seq(Nat)
      /\ Len(sent \o Run(SentTo, b)) = Len(sent) + (b - SentTo)
      /\ Increasing(sent \o Run(SentTo, b))
      /\ Samples(sent \o Run(SentTo, b)) = Samples(sent) \cup (SentTo .. b - 1)
  BY ONLY <1>1, <1>2, <1>3, <1>4, RunAppended
<1>6. Samples(sent) \cup (SentTo .. b - 1) = (0 .. b - 1) \ dropped
  BY ONLY <1>1, <1>2, <1>3
<1> QED
  BY <1>5, <1>6

(* After it, the carry is empty.                                           *)
LEMMA NothingCarried ==
  ASSUME FInv, NEW b \in Nat, SentTo <= b, From' = b,
         carry' = <<>>, dropped' = dropped,
         Increasing(sent'), Samples(sent') = (0 .. b - 1) \ dropped
  PROVE  HandedOver'
<1>1. SentTo' = b
  <2>1. SentTo' = From' - Len(carry')
    BY DEF SentTo
  <2>2. Len(carry') = 0
    OBVIOUS
  <2> QED
    BY <2>1, <2>2
<1>2. Run(b, b) = <<>>
  BY RunOfNothing
<1>3. dropped \subseteq 0 .. b - 1
  <2>1. dropped \subseteq 0 .. SentTo - 1 /\ SentTo \in Nat
    BY FieldFacts DEF FInv, HandedOver
  <2>2. b \in Nat /\ SentTo <= b
    OBVIOUS
  <2> QED
    BY ONLY <2>1, <2>2
<1> QED
  BY <1>1, <1>2, <1>3 DEF HandedOver

(* A frame handed over whole leaves only whole ones.                       *)
LEMMA WholeStays ==
  ASSUME FInv, Len(sent') = Len(sent) + FrameSamples, carry' = <<>>
  PROVE  CarryIsPartial'
<1>1. \E k \in 0 .. Len(sent') : Len(sent') = k * FrameSamples
  <2>1. \E k \in 0 .. Len(sent) : Len(sent) = k * FrameSamples
    BY DEF FInv, CarryIsPartial
  <2>2. Len(sent) \in Nat /\ FrameSamples \in Nat \ {0}
    BY FieldFacts
  <2>3. \E k \in 0 .. Len(sent) + FrameSamples :
          Len(sent) + FrameSamples = k * FrameSamples
    BY ONLY <2>1, <2>2, WholeFrames
  <2> QED
    BY <2>3
<1>2. Len(carry') < FrameSamples
  <2>1. Len(carry') = 0
    OBVIOUS
  <2> QED
    BY <2>1, FieldFacts
<1> QED
  BY <1>1, <1>2 DEF CarryIsPartial

-----------------------------------------------------------------------------
LEMMA InitFInv == Init => FInv
<1> SUFFICES ASSUME Init PROVE FInv
  OBVIOUS
<1>1. TypeOK /\ CallInv
  <2>1. /\ pc = "idle" /\ closed = FALSE /\ end = 0 /\ srcLen = 0 /\ srcOffset = 0
        /\ carry = <<>> /\ sent = <<>> /\ dropped = {}
    BY DEF Init
  <2>2. 0 \in 0 .. MaxSamples /\ 0 \in 0 .. 0
    BY FramerAssumption
  <2> QED
    <3>1. pc \in {"idle", "top", "send"} /\ closed \in BOOLEAN
      BY <2>1
    <3>2. end \in 0 .. MaxSamples /\ srcLen \in 0 .. end /\ srcOffset \in 0 .. srcLen
      BY <2>1, <2>2
    <3>3. carry \in Seq(Nat) /\ sent \in Seq(Nat) /\ dropped \subseteq Nat
      BY <2>1
    <3> QED
      BY <2>1, <3>1, <3>2, <3>3 DEF TypeOK, CallInv
<1>2. CarryIsPartial
  BY FramerAssumption DEF Init, CarryIsPartial
<1>3. From = 0 /\ SentTo = 0
  <2>1. end = 0 /\ srcLen = 0 /\ srcOffset = 0 /\ Len(carry) = 0
    BY DEF Init
  <2> QED
    BY <2>1 DEF From, SentTo
<1>4. Run(0, 0) = <<>>
  BY RunOfNothing
<1>5. HandedOver
  BY <1>3, <1>4 DEF Init, HandedOver, Increasing, Samples
<1> QED
  BY <1>1, <1>2, <1>5 DEF FInv

LEMMA PushChunkStep ==
  ASSUME FInv, NEW bytes \in ChunkBytes, PushChunk(bytes)
  PROVE  FInv' /\ Waits
<1> USE FieldFacts
<1> DEFINE n == bytes \div 2
<1>1. /\ pc = "idle" /\ n \in Nat /\ n > 0 /\ end + n <= MaxSamples
      /\ pc' = IF carry = <<>> THEN "send" ELSE "top"
      /\ end' = end + n /\ srcLen' = n /\ srcOffset' = 0
      /\ UNCHANGED <<closed, carry, sent, dropped>>
  BY FramerAssumption DEF PushChunk
<1> HIDE DEF n
<1>2. From' = From /\ SentTo' = SentTo
  BY <1>1 DEF From, SentTo, FInv, CallInv
<1>3. TypeOK'
  BY <1>1 DEF FInv, TypeOK
<1>4. CarryIsPartial' /\ CallInv'
  BY <1>1 DEF FInv, CarryIsPartial, CallInv
<1>5. HandedOver'
  BY <1>1, <1>2 DEF FInv, HandedOver
<1> QED
  BY <1>1, <1>2, <1>3, <1>4, <1>5 DEF FInv, Waits

LEMMA TopUpStep ==
  ASSUME FInv, TopUp
  PROVE  FInv' /\ (Waits \/ Sends)
<1> USE FieldFacts
<1> DEFINE topped == carry \o Source(0, Taken)
<1>1. /\ pc = "top" /\ srcOffset = 0
      /\ srcOffset' = Taken /\ pc' = "send"
      /\ UNCHANGED <<closed, end, srcLen, dropped>>
      /\ IF Len(topped) = FrameSamples
           THEN sent' = sent \o topped /\ carry' = <<>>
           ELSE UNCHANGED sent /\ carry' = topped
  BY DEF TopUp, FInv, CallInv
<1>2. /\ Taken \in Nat /\ Taken <= srcLen /\ Len(carry) + Taken <= FrameSamples
      /\ Len(carry) + Taken < FrameSamples => Taken = srcLen
  BY DEF Taken
<1>3. PICK b \in Nat : b = From + Taken
  BY <1>2
<1>4. /\ topped = Run(SentTo, b) /\ topped \in Seq(Nat)
      /\ Len(topped) = Len(carry) + Taken
  <2>1. /\ Taken \in Nat /\ srcOffset <= Taken /\ Taken <= srcLen
        /\ b = From + (Taken - srcOffset) /\ Taken - srcOffset = Taken
    BY <1>1, <1>2, <1>3
  <2>2. /\ Source(srcOffset, Taken) \in Seq(Nat)
        /\ Len(Source(srcOffset, Taken)) = Taken - srcOffset
        /\ carry \o Source(srcOffset, Taken) = Run(SentTo, b)
    BY ONLY FInv, <1>3, <2>1, SourceFacts
  <2>3. topped = carry \o Source(srcOffset, Taken)
    BY <1>1
  <2>4. topped = Run(SentTo, b)
    BY <2>2, <2>3
  <2>5. topped \in Seq(Nat) /\ Len(topped) = Len(carry) + Len(Source(srcOffset, Taken))
    <3>1. carry \in Seq(Nat)
      OBVIOUS
    <3> HIDE DEF topped
    <3> QED
      BY ONLY <2>2, <2>3, <3>1, ConcatProperties
  <2> QED
    BY <2>1, <2>2, <2>4, <2>5
<1> HIDE DEF topped
<1>5. From' = b /\ CallInv'
  <2>1. From' = From + Taken
    BY <1>1, <1>2 DEF From
  <2> QED
    BY <1>1, <1>3, <2>1 DEF CallInv
<1>6. CASE Len(topped) = FrameSamples
  <2>1. sent' = sent \o Run(SentTo, b) /\ carry' = <<>> /\ dropped' = dropped
    BY <1>1, <1>4, <1>6
  <2>2. SentTo <= b /\ b - SentTo = FrameSamples
    <3>1. /\ Len(carry) + Taken = FrameSamples /\ SentTo + Len(carry) = From
          /\ SentTo \in Nat /\ From \in Nat /\ Taken \in Nat /\ Len(carry) \in Nat
      BY <1>2, <1>4, <1>6
    <3> QED
      BY ONLY <1>3, <3>1
  <2>3. /\ sent' \in Seq(Nat) /\ Len(sent') = Len(sent) + (b - SentTo)
        /\ Increasing(sent') /\ Samples(sent') = (0 .. b - 1) \ dropped
    BY ONLY FInv, <1>3, <2>1, <2>2, HandOver
  <2>4. HandedOver'
    BY ONLY FInv, <1>3, <1>5, <2>1, <2>2, <2>3, NothingCarried
  <2>5. TypeOK'
    BY <1>1, <1>2, <2>1, <2>3 DEF FInv, TypeOK
  <2>6. CarryIsPartial'
    BY <2>1, <2>2, <2>3, WholeStays
  <2>7. Sends
    <3>1. b = SentTo + FrameSamples
      BY <1>3, <2>2
    <3>2. SentTo' = b
      BY <1>5, <2>1 DEF SentTo
    <3> QED
      BY <2>1, <3>1, <3>2 DEF Sends
  <2> QED
    BY <1>5, <2>4, <2>5, <2>6, <2>7 DEF FInv
<1>7. CASE Len(topped) # FrameSamples
  <2>1. sent' = sent /\ carry' = topped
    BY <1>1, <1>7
  <2>2. Taken = srcLen /\ Len(topped) < FrameSamples
    BY <1>2, <1>4, <1>7
  <2>3. SentTo' = SentTo
    <3>1. SentTo' = From' - Len(carry')
      BY DEF SentTo
    <3>2. From' = From + Taken /\ Len(carry') = Len(carry) + Taken
      BY <1>3, <1>4, <1>5, <2>1
    <3> QED
      BY <1>2, <3>1, <3>2
  <2>4. HandedOver'
    BY <1>1, <1>4, <1>5, <2>1, <2>3 DEF FInv, HandedOver
  <2>5. TypeOK'
    BY <1>1, <1>2, <1>4, <2>1 DEF FInv, TypeOK
  <2>6. CarryIsPartial'
    BY <1>1, <2>1, <2>2 DEF FInv, CarryIsPartial
  <2>7. Waits
    BY <1>1, <2>1, <2>3 DEF Waits
  <2> QED
    BY <1>5, <2>4, <2>5, <2>6, <2>7 DEF FInv
<1> QED
  BY <1>6, <1>7

LEMMA SendWholeStep ==
  ASSUME FInv, SendWhole
  PROVE  FInv' /\ Sends
<1> USE FieldFacts
<1> DEFINE next == srcOffset + FrameSamples
<1>1. /\ pc = "send" /\ next <= srcLen /\ next \in Nat /\ srcOffset < srcLen
      /\ sent' = sent \o Source(srcOffset, next) /\ srcOffset' = next
      /\ UNCHANGED <<pc, closed, carry, end, srcLen, dropped>>
  BY DEF SendWhole, WholeFrameLeft
<1>2. carry = <<>> /\ SentTo = From
  <2>1. carry = <<>>
    BY <1>1 DEF FInv, CarryIsPartial
  <2>2. Len(carry) = 0
    BY <2>1
  <2> QED
    BY <2>1, <2>2
<1>3. PICK b \in Nat : b = From + FrameSamples
  OBVIOUS
<1>4. SentTo <= b /\ b - SentTo = FrameSamples /\ From' = b
  BY <1>1, <1>2, <1>3 DEF From
<1>5. Source(srcOffset, next) = Run(SentTo, b)
  <2>1. /\ next \in Nat /\ srcOffset <= next /\ next <= srcLen
        /\ b = From + (next - srcOffset)
    BY <1>1, <1>3
  <2> HIDE DEF next
  <2>2. Source(srcOffset, next) = Run(From, b)
    BY ONLY FInv, <1>3, <2>1, SourceFacts
  <2> QED
    BY <1>2, <2>2
<1> HIDE DEF next
<1>6. /\ sent' \in Seq(Nat) /\ Len(sent') = Len(sent) + FrameSamples
      /\ Increasing(sent') /\ Samples(sent') = (0 .. b - 1) \ dropped
  <2>1. sent' = sent \o Run(SentTo, b)
    BY <1>1, <1>5
  <2>2. /\ sent' \in Seq(Nat) /\ Len(sent') = Len(sent) + (b - SentTo)
        /\ Increasing(sent') /\ Samples(sent') = (0 .. b - 1) \ dropped
    BY ONLY FInv, <1>3, <1>4, <2>1, HandOver
  <2> QED
    BY <1>4, <2>2
<1>7. HandedOver'
  <2>1. carry' = <<>> /\ dropped' = dropped
    BY <1>1, <1>2
  <2> QED
    BY ONLY FInv, <1>3, <1>4, <1>6, <2>1, NothingCarried
<1>8. TypeOK'
  BY <1>1, <1>6 DEF FInv, TypeOK
<1>9. CarryIsPartial' /\ CallInv'
  <2>1. CarryIsPartial'
    BY <1>1, <1>2, <1>6, WholeStays
  <2>2. CallInv'
    BY <1>1 DEF FInv, CallInv
  <2> QED
    BY <2>1, <2>2
<1>10. Sends
  <2>1. b = SentTo + FrameSamples
    BY <1>3, <1>4
  <2>2. SentTo' = b
    BY <1>1, <1>2, <1>4 DEF SentTo
  <2> QED
    BY <1>1, <1>5, <2>1, <2>2 DEF Sends
<1> QED
  BY <1>7, <1>8, <1>9, <1>10 DEF FInv

LEMMA StashStep ==
  ASSUME FInv, Stash
  PROVE  FInv' /\ Waits
<1> USE FieldFacts
<1>1. /\ pc = "send" /\ srcLen < srcOffset + FrameSamples
      /\ carry' = LeftOver
      /\ pc' = "idle" /\ srcLen' = 0 /\ srcOffset' = 0
      /\ UNCHANGED <<closed, end, sent, dropped>>
  BY DEF Stash, WholeFrameLeft
<1>2. From' = end
  BY <1>1 DEF From
<1>3. /\ carry' = Run(SentTo, end) /\ carry' \in Seq(Nat)
      /\ Len(carry') = end - SentTo /\ Len(carry') < FrameSamples
  <2>1. CASE srcOffset < srcLen
    <3>1. carry = <<>> /\ SentTo = From
      <4>1. carry = <<>>
        BY <1>1, <2>1 DEF FInv, CarryIsPartial
      <4>2. Len(carry) = 0
        BY <4>1
      <4> QED
        BY <4>1, <4>2
    <3>2. /\ srcLen \in Nat /\ srcOffset <= srcLen /\ srcLen <= srcLen
          /\ end \in Nat /\ end = From + (srcLen - srcOffset)
      BY DEF From
    <3>3. /\ Source(srcOffset, srcLen) = Run(From, end)
          /\ Source(srcOffset, srcLen) \in Seq(Nat)
          /\ Len(Source(srcOffset, srcLen)) = srcLen - srcOffset
      BY ONLY FInv, <3>2, SourceFacts
    <3> QED
      BY <1>1, <2>1, <3>1, <3>2, <3>3 DEF LeftOver
  <2>2. CASE ~(srcOffset < srcLen)
    <3>1. From = end /\ carry' = carry
      BY <1>1, <2>2 DEF From, LeftOver
    <3> QED
      BY <3>1 DEF FInv, HandedOver
  <2> QED
    BY <2>1, <2>2
<1>4. SentTo' = SentTo
  BY <1>2, <1>3 DEF SentTo
<1>5. HandedOver'
  BY <1>1, <1>2, <1>3, <1>4 DEF FInv, HandedOver
<1>6. TypeOK'
  BY <1>1, <1>3 DEF FInv, TypeOK
<1>7. CarryIsPartial' /\ CallInv'
  BY <1>1, <1>3 DEF FInv, CarryIsPartial, CallInv
<1> QED
  BY <1>1, <1>4, <1>5, <1>6, <1>7 DEF FInv, Waits

(* finish and close discard the carry, the end of the recording so far.    *)
LEMMA DropFacts ==
  ASSUME FInv, pc = "idle", Drop, UNCHANGED <<pc, end, call, sent>>
  PROVE  /\ FInv' \/ closed' \notin BOOLEAN
         /\ dropped' \ dropped = SentTo .. end - 1
<1> USE FieldFacts
<1>1. /\ carry' = <<>> /\ dropped' = dropped \cup Samples(carry)
      /\ UNCHANGED <<pc, end, srcLen, srcOffset, sent>>
  BY DEF Drop, call
<1>2. From = end /\ From' = end /\ SentTo' = end
  BY <1>1 DEF FInv, CallInv, From, SentTo
<1>3. Samples(carry) = SentTo .. end - 1
  <2>1. carry = Run(SentTo, end) /\ SentTo <= end
    BY <1>2 DEF FInv, HandedOver
  <2>2. /\ Run(SentTo, end) \in Seq(Nat)
        /\ Len(Run(SentTo, end)) = end - SentTo
        /\ \A i \in 1 .. end - SentTo : Run(SentTo, end)[i] = SentTo + i - 1
    <3>1. SentTo \in Nat /\ end \in Nat
      OBVIOUS
    <3> QED
      BY ONLY <2>1, <3>1, RunFacts
  <2>3. DOMAIN carry = 1 .. end - SentTo
        /\ \A i \in 1 .. end - SentTo : carry[i] = SentTo + i - 1
    BY <2>1, <2>2
  <2>4. ASSUME NEW p \in SentTo .. end - 1 PROVE p \in Samples(carry)
    <3> DEFINE i == p - SentTo + 1
    <3>1. i \in 1 .. end - SentTo /\ SentTo + i - 1 = p
      BY <2>1, <2>4
    <3>2. i \in DOMAIN carry /\ carry[i] = p
      <4> HIDE DEF i
      <4> QED
        BY <2>3, <3>1
    <3> QED
      BY <3>2 DEF Samples
  <2>5. ASSUME NEW p \in Samples(carry) PROVE p \in SentTo .. end - 1
    <3>1. PICK i \in 1 .. end - SentTo : p = carry[i]
      BY <2>3 DEF Samples
    <3> QED
      BY <2>1, <2>3, <3>1
  <2> QED
    BY <2>4, <2>5
<1>4. dropped \subseteq 0 .. SentTo - 1 /\ SentTo \in Nat /\ SentTo <= end
  BY <1>2 DEF FInv, HandedOver
<1>5. dropped' \ dropped = SentTo .. end - 1
  BY <1>1, <1>3, <1>4
<1>9. end \in Nat
  OBVIOUS
<1>6. HandedOver'
  <2>1. Run(end, end) = <<>>
    BY RunOfNothing
  <2>2. dropped' \subseteq 0 .. end - 1
    BY ONLY <1>1, <1>3, <1>4, <1>9
  <2>3. Samples(sent) = (0 .. end - 1) \ dropped'
    <3>1. Samples(sent) = (0 .. SentTo - 1) \ dropped
      BY DEF FInv, HandedOver
    <3> QED
      BY <1>1, <1>2, <1>3, <3>1
  <2> QED
    BY <1>1, <1>2, <2>1, <2>2, <2>3 DEF FInv, HandedOver
<1>7. closed' \in BOOLEAN => TypeOK'
  <2>1. dropped' \subseteq Nat
    BY ONLY <1>1, <1>3, <1>4, <1>9
  <2> QED
    BY <1>1, <2>1 DEF FInv, TypeOK
<1>8. CarryIsPartial' /\ CallInv'
  BY <1>1 DEF FInv, CarryIsPartial, CallInv
<1> QED
  BY <1>5, <1>6, <1>7, <1>8 DEF FInv

LEMMA DropStep ==
  ASSUME FInv, Finish \/ Close
  PROVE  FInv' /\ dropped' \ dropped = SentTo .. end - 1
<1>1. pc = "idle" /\ Drop /\ UNCHANGED <<pc, end, call, sent>>
  BY DEF Finish, Close
<1>2. closed' \in BOOLEAN
  BY DEF Finish, Close, FInv, TypeOK
<1> QED
  BY <1>1, <1>2, DropFacts

LEMMA FramerStep == FInv /\ [Next]_vars => FInv'
<1> SUFFICES ASSUME FInv, [Next]_vars PROVE FInv'
  OBVIOUS
<1>1. CASE UNCHANGED vars
  BY <1>1 DEF FInv, TypeOK, CarryIsPartial, HandedOver, CallInv, From, SentTo,
     vars, call
<1>2. CASE Next
  BY <1>2, PushChunkStep, TopUpStep, SendWholeStep, StashStep, DropStep DEF Next
<1> QED
  BY <1>1, <1>2

LEMMA FramerInvariance == Spec => []FInv
BY InitFInv, FramerStep, PTL DEF Spec

-----------------------------------------------------------------------------
(* The native side is only ever given whole frames, and a partial one      *)
(* waits in the carry, for chunks of any length.                           *)
THEOREM FramesWhole == Spec => []CarryIsPartial
<1>1. FInv => CarryIsPartial
  BY DEF FInv
<1> QED
  BY <1>1, FramerInvariance, PTL

(* However a recording is cut into chunks, what was handed over, the carry *)
(* and the rest of the chunk are the recording, in order, but for what     *)
(* finish and close discarded.                                             *)
THEOREM RecordingKept == Spec => []NothingLostOrRepeated
<1>1. FInv => NothingLostOrRepeated
  <2> SUFFICES ASSUME FInv PROVE NothingLostOrRepeated
    OBVIOUS
  <2> USE FieldFacts
  <2>1. Unsent = Run(SentTo, end)
    <3>1. /\ srcLen \in Nat /\ srcOffset <= srcLen /\ srcLen <= srcLen
          /\ end \in Nat /\ end = From + (srcLen - srcOffset)
      BY DEF From
    <3>2. carry \o Source(srcOffset, srcLen) = Run(SentTo, end)
      BY ONLY FInv, <3>1, SourceFacts
    <3> QED
      BY <3>2 DEF Unsent
  <2>2. SentTo <= end
    OBVIOUS
  <2> QED
    BY <2>1, <2>2, HandOver DEF NothingLostOrRepeated
<1> QED
  BY <1>1, FramerInvariance, PTL

(* finish and close discard less than a frame, at the end of the recording.*)
THEOREM TailDropped == Spec => DropsOnlyTheTail
<1> DEFINE OnlyTail ==
             dropped' # dropped =>
               \E p \in 0 .. end :
                 /\ dropped' \ dropped = p .. (end - 1)
                 /\ end - p < FrameSamples
<1>1. FInv /\ [Next]_vars => [OnlyTail]_vars
  <2> SUFFICES ASSUME FInv, Next, dropped' # dropped
               PROVE  \E p \in 0 .. end :
                        /\ dropped' \ dropped = p .. (end - 1)
                        /\ end - p < FrameSamples
    OBVIOUS
  <2>1. Finish \/ Close
    BY DEF Next, PushChunk, TopUp, SendWhole, Stash
  <2>2. dropped' \ dropped = SentTo .. end - 1
    BY <2>1, DropStep
  <2>3. From = end
    BY <2>1, FieldFacts DEF Finish, Close, FInv, CallInv, From
  <2>4. SentTo \in 0 .. end /\ end - SentTo < FrameSamples
    BY <2>3, FieldFacts
  <2> QED
    BY <2>2, <2>4
<1> QED
  BY <1>1, FramerInvariance, PTL DEF Spec, DropsOnlyTheTail

-----------------------------------------------------------------------------
(* Sequences in order with some places left out: what is handed over of a  *)
(* recording of which the samples in d are discarded.                      *)

(* An element is as far down the sequence as its place in the recording,   *)
(* less what was left out before it.                                       *)
LEMMA Rank ==
  ASSUME NEW s \in Seq(Nat), Increasing(s), NEW m \in Nat, NEW d,
         d \subseteq 0 .. m - 1, Samples(s) = (0 .. m - 1) \ d,
         NEW i \in 1 .. Len(s)
  PROVE  i - 1 + Cardinality({p \in d : p < s[i]}) = s[i]
<1> DEFINE front == 1 .. i - 1
           f == [j \in front |-> s[j]]
           S == {s[j] : j \in front}
           D == {p \in d : p < s[i]}
<1>1. /\ Len(s) \in Nat /\ DOMAIN s = 1 .. Len(s) /\ i \in Nat /\ i >= 1
      /\ \A j \in 1 .. Len(s) : s[j] \in Nat
      /\ \A j, k \in 1 .. Len(s) : j < k => s[j] < s[k]
      /\ front \subseteq 1 .. Len(s) /\ \A j \in front : j < i
  BY DEF Increasing
<1>2. \A j \in 1 .. Len(s) : s[j] \in Samples(s)
  BY <1>1 DEF Samples
<1>3. \A p \in Samples(s) : \E j \in 1 .. Len(s) : p = s[j]
  BY <1>1 DEF Samples
<1>4. S \cup D = 0 .. s[i] - 1
  <2>1. ASSUME NEW p \in S PROVE p \in 0 .. s[i] - 1
    <3>1. PICK j \in front : p = s[j]
      OBVIOUS
    <3> QED
      BY <1>1, <3>1
  <2>2. ASSUME NEW p \in D PROVE p \in 0 .. s[i] - 1
    BY <1>1
  <2>3. ASSUME NEW p \in 0 .. s[i] - 1, p \notin D PROVE p \in S
    <3>1. s[i] \in 0 .. m - 1
      BY <1>2
    <3>2. p \in 0 .. m - 1 /\ p < s[i] /\ p \notin d
      BY <1>1, <2>3, <3>1
    <3>3. PICK j \in 1 .. Len(s) : p = s[j]
      BY <1>3, <3>2
    <3>4. j \in front
      <4>1. s[j] < s[i] /\ s[j] \in Nat /\ s[i] \in Nat /\ j \in Nat
        BY <1>1, <3>2, <3>3
      <4>2. ~(i < j) /\ j # i
        BY <1>1, <3>3, <4>1
      <4> QED
        BY <1>1, <3>3, <4>1, <4>2
    <3> QED
      BY <3>3, <3>4
  <2> HIDE DEF S, D
  <2> QED
    BY <2>1, <2>2, <2>3
<1>5. S \cap D = {}
  <2> SUFFICES ASSUME NEW p \in S, p \in D PROVE FALSE
    OBVIOUS
  <2>1. p \in Samples(s)
    BY <1>1, <1>2
  <2> QED
    BY <2>1
<1>6. Cardinality(S) = i - 1
  <2>1. f \in [front -> S] /\ \A t \in S : \E j \in front : f[j] = t
    OBVIOUS
  <2>2. \A j, k \in front : f[j] = f[k] => j = k
    <3> SUFFICES ASSUME NEW j \in front, NEW k \in front, s[j] = s[k]
                 PROVE  j = k
      OBVIOUS
    <3>1. j \in 1 .. Len(s) /\ k \in 1 .. Len(s) /\ s[j] \in Nat
      BY <1>1
    <3> QED
      BY <1>1, <3>1
  <2> HIDE DEF f, S, front
  <2>3. f \in Bijection(front, S)
    BY <2>1, <2>2, Fun_IsBij
  <2>4. ExistsBijection(front, S)
    BY <2>3, Fun_ExistsBij
  <2>5. PICK n \in Nat : n = i - 1
    BY <1>1
  <2>6. ExistsBijection(1 .. n, S)
    BY <2>4, <2>5 DEF front
  <2> QED
    BY ONLY <2>5, <2>6, FS_CountingElements
<1>7. IsFiniteSet(S) /\ IsFiniteSet(D) /\ Cardinality(0 .. s[i] - 1) = s[i]
  <2>1. PICK n \in Int : n = s[i] - 1
    BY <1>1
  <2>2. IsFiniteSet(0 .. n) /\ Cardinality(0 .. n) = IF 0 > n THEN 0 ELSE n - 0 + 1
    BY ONLY 0 \in Int, FS_Interval
  <2>3. IsFiniteSet(0 .. s[i] - 1) /\ Cardinality(0 .. s[i] - 1) = s[i]
    BY <1>1, <2>1, <2>2
  <2>4. S \subseteq 0 .. s[i] - 1 /\ D \subseteq 0 .. s[i] - 1
    BY <1>4
  <2> HIDE DEF S, D
  <2> QED
    BY <2>3, <2>4, FS_Subset
<1> HIDE DEF S, D
<1>8. Cardinality(S \cup D) = Cardinality(S) + Cardinality(D) - Cardinality(S \cap D)
  BY <1>7, FS_Union
<1>9. Cardinality(S \cap D) = 0 /\ Cardinality(D) \in Nat
  BY <1>5, <1>7, FS_EmptySet, FS_CardinalityType
<1>10. s[i] \in Nat
  BY <1>1
<1>11. Cardinality(S \cup D) = s[i]
  BY <1>4, <1>7
<1>12. i - 1 + Cardinality(D) = s[i]
  BY <1>1, <1>6, <1>8, <1>9, <1>10, <1>11
<1> QED
  BY <1>12 DEF D

(* Between two elements there is nothing but what was left out.            *)
LEMMA Gap ==
  ASSUME NEW s \in Seq(Nat), Increasing(s), NEW m \in Nat, NEW d,
         Samples(s) = (0 .. m - 1) \ d, NEW i \in 1 .. Len(s) - 1
  PROVE  /\ s[i] \in Nat /\ s[i + 1] \in Nat /\ s[i] < s[i + 1]
         /\ (s[i] + 1) .. (s[i + 1] - 1) \subseteq d
<1>1. /\ Len(s) \in Nat /\ DOMAIN s = 1 .. Len(s) /\ i \in Nat /\ i >= 1
      /\ \A j \in 1 .. Len(s) : s[j] \in Nat
      /\ \A j, k \in 1 .. Len(s) : j < k => s[j] < s[k]
      /\ i \in 1 .. Len(s) /\ i + 1 \in 1 .. Len(s)
  BY DEF Increasing
<1>2. s[i + 1] \in 0 .. m - 1
  <2>1. s[i + 1] \in Samples(s)
    BY <1>1 DEF Samples
  <2> QED
    BY <2>1
<1>3. ASSUME NEW p \in (s[i] + 1) .. (s[i + 1] - 1), p \notin d
      PROVE  FALSE
  <2>1. p \in Samples(s)
    BY <1>1, <1>2, <1>3
  <2>2. PICK k \in 1 .. Len(s) : p = s[k]
    BY <1>1, <2>1 DEF Samples
  <2>3. s[i] < s[k] /\ s[k] < s[i + 1]
    BY <1>1, <1>3, <2>2
  <2>4. ~(k < i) /\ k # i /\ ~(i + 1 < k) /\ k # i + 1
    BY <1>1, <2>2, <2>3
  <2> QED
    BY <1>1, <2>2, <2>4
<1> QED
  BY <1>1, <1>3

-----------------------------------------------------------------------------
(* The segmenter a recording drives is the one SegmenterProofs is about.   *)
LEMMA SameLine == \A r : Native!IsLine(r) <=> Segments!IsLine(r)
BY DEF Native!IsLine, Segments!IsLine

LEMMA SameInputs ==
  Native!Verdicts = Segments!Verdicts /\ Native!Outcomes = Segments!Outcomes
BY DEF Native!Verdicts, Segments!Verdicts, Native!Outcomes, Segments!Outcomes

LEMMA SameInit == Native!Init => Segments!Init
BY Zenon DEF Native!Init, Segments!Init, Native!NullText, Segments!NullText

LEMMA SameReport ==
  /\ \A r : Native!Report(r) <=> Segments!Report(r)
  /\ Native!NullText = Segments!NullText
  /\ Native!EmptyText = Segments!EmptyText
  /\ \A from, pcm, o : Native!SegmentText(from, pcm, o) = Segments!SegmentText(from, pcm, o)
  /\ Native!ResetSegment <=> Segments!ResetSegment
BY DEF Native!Report, Segments!Report, Native!IsLine, Segments!IsLine,
   Native!NullText, Segments!NullText, Native!EmptyText, Segments!EmptyText,
   Native!SegmentText, Segments!SegmentText, Native!Line, Segments!Line,
   Native!ResetSegment, Segments!ResetSegment

LEMMA SameOpen == Native!StreamInit => Segments!StreamInit
BY Zenon, SameReport DEF Native!StreamInit, Segments!StreamInit

LEMMA SameClose == Native!Close => Segments!Close
BY Zenon, SameReport DEF Native!Close, Segments!Close, Native!wav, Segments!wav

LEMMA SameFlush == \A o : Native!Flush(o) => Segments!Flush(o)
BY Zenon, SameReport
   DEF Native!Flush, Segments!Flush, Native!buffers, Segments!buffers,
   Native!counters, Segments!counters, Native!wav, Segments!wav

LEMMA SameCounts ==
  ASSUME NEW v
  PROVE  /\ Native!Overflows(FrameSamples) <=> Segments!Overflows(FrameSamples)
         /\ Native!Waiting(FrameSamples) <=> Segments!Waiting(FrameSamples)
         /\ Native!OnsetCount(FrameSamples, v) = Segments!OnsetCount(FrameSamples, v)
         /\ Native!SilenceCount(FrameSamples, v) = Segments!SilenceCount(FrameSamples, v)
         /\ Native!SegStartNow(FrameSamples) = Segments!SegStartNow(FrameSamples)
         /\ Native!PrerollNow(FrameSamples) = Segments!PrerollNow(FrameSamples)
         /\ Native!Incoming(FrameSamples) = Segments!Incoming(FrameSamples)
BY Zenon
   DEF Native!Overflows, Segments!Overflows, Native!Waiting, Segments!Waiting,
   Native!OnsetCount, Segments!OnsetCount, Native!OnsetNow, Segments!OnsetNow,
   Native!SilenceCount, Segments!SilenceCount,
   Native!SilenceNow, Segments!SilenceNow,
   Native!Judged, Segments!Judged, Native!Speech, Segments!Speech,
   Native!SegStartNow, Segments!SegStartNow,
   Native!PrerollNow, Segments!PrerollNow,
   Native!Incoming, Segments!Incoming, Native!Run, Segments!Run

LEMMA SamePush ==
  ASSUME NEW v, NEW o, Native!Push(FrameSamples, v, o)
  PROVE  Segments!Push(FrameSamples, v, o)
<1> USE SameCounts, SameReport
<1>1. Native!Accept(FrameSamples) => Segments!Accept(FrameSamples)
  BY Zenon DEF Native!Accept, Segments!Accept
<1>2. Native!CapResult(FrameSamples, o) = Segments!CapResult(FrameSamples, o)
  BY Zenon DEF Native!CapResult, Segments!CapResult
<1>3. \A ring : Native!Slide(ring, FrameSamples) = Segments!Slide(ring, FrameSamples)
  BY Zenon DEF Native!Slide, Segments!Slide
<1>4. /\ Native!Lead(FrameSamples) = Segments!Lead(FrameSamples)
      /\ Native!OpenAt(FrameSamples) = Segments!OpenAt(FrameSamples)
  BY Zenon DEF Native!Lead, Segments!Lead, Native!OpenAt, Segments!OpenAt
<1>5. CASE Native!KeepWaiting(FrameSamples, v, o)
  BY Zenon, <1>1, <1>2, <1>3, <1>5
     DEF Native!KeepWaiting, Segments!KeepWaiting, Segments!Push
<1>6. CASE Native!OpenSegment(FrameSamples, v, o)
  BY Zenon, <1>1, <1>2, <1>4, <1>6
     DEF Native!OpenSegment, Segments!OpenSegment, Segments!Push
<1>7. CASE Native!Grow(FrameSamples, v)
  BY Zenon, <1>1, <1>7 DEF Native!Grow, Segments!Grow, Segments!Push
<1>8. CASE Native!CloseOnSilence(FrameSamples, v, o)
  BY Zenon, <1>1, <1>8
     DEF Native!CloseOnSilence, Segments!CloseOnSilence, Segments!Push
<1>9. CASE Native!DiscardShort(FrameSamples, v)
  BY Zenon, <1>1, <1>9
     DEF Native!DiscardShort, Segments!DiscardShort, Segments!Push
<1> QED
  BY <1>5, <1>6, <1>7, <1>8, <1>9 DEF Native!Push

-----------------------------------------------------------------------------
(* A recording: both sides keep their invariants, and agree on what was    *)
(* handed over and on what of it is in lines.  Only before an open segment *)
(* and in its preroll may something have been left out.                    *)
Unbroken(s, k) == \A i \in k + 1 .. Len(s) - 1 : s[i + 1] = s[i] + 1
ToldUpTo(s, c) == IF c = 0 THEN 0 ELSE s[c] + 1

(* A line about samples at their places in s, of a recording that lacks d. *)
Place(line, s) == [i \in DOMAIN line.audio |-> s[line.audio[i] + 1]]
BreaksAtDrops(place, d) ==
  \A i \in 1 .. Len(place) - 1 :
    place[i + 1] # place[i] + 1 =>
      /\ place[i + 1] > place[i]
      /\ (place[i] + 1) .. (place[i + 1] - 1) \subseteq d
      /\ i <= PrerollMax
LagsByDrops(from, place, d) ==
  from + Cardinality({p \in d : p < place[1]}) = place[1]
LineHolds(line, s, d) ==
  /\ BreaksAtDrops(Place(line, s), d)
  /\ LagsByDrops(line.from, Place(line, s), d)

Heard ==
  /\ Len(sent) = offset
  /\ ~alive => closed \/ offset = 0
  /\ told = ToldUpTo(sent, covered)
  /\ chunk # <<>> =>
       Unbroken(sent, segStart + PrerollMax) /\ sent[offset] + 1 = SentTo
  /\ Native!IsLine(out) => LineHolds(out, sent, dropped)

RInv == FInv /\ Segments!IInv /\ Heard

(* The three properties, of a single step.                                 *)
Follows == told' # told => Places(out')[1] >= told
LineGoesOut == Native!IsLine(out') => LineHolds(out', sent', dropped)
RGood == Follows /\ LineGoesOut

LEMMA NativeFacts ==
  ASSUME Segments!IInv
  PROVE  /\ offset \in Nat /\ segStart \in Nat /\ covered \in Nat
         /\ covered <= offset /\ PrerollMax \in Nat
         /\ chunk = <<>> <=> Len(chunk) = 0
         /\ chunk # <<>> => segStart < offset /\ covered <= segStart
BY Assumed, Segments!BufferFacts, RecordingAssumption

(* What an orderly report says of a line.                                  *)
LEMMA NativeReport ==
  ASSUME Segments!OrderlyReport
  PROVE  IF Native!IsLine(out')
           THEN /\ covered <= out'.from /\ out'.from < out'.to /\ out'.to <= offset'
                /\ out'.audio = Run(out'.from, out'.to)
                /\ covered' = out'.to
           ELSE covered' = covered
BY SameLine, SameRuns DEF Segments!OrderlyReport

(* A line reported in order about samples handed over in order.            *)
LEMMA LineGood ==
  ASSUME RInv, Segments!OrderlyReport, Hear, covered' \in Nat, covered' <= Len(sent'),
         NEW m \in Nat, NEW d, d \subseteq 0 .. m - 1,
         sent' \in Seq(Nat), Increasing(sent'), Samples(sent') = (0 .. m - 1) \ d,
         Len(sent) <= Len(sent'), \A i \in 1 .. Len(sent) : sent'[i] = sent[i],
         Native!IsLine(out') =>
           /\ chunk # <<>> /\ out'.from = segStart
           /\ Unbroken(sent', segStart + PrerollMax)
  PROVE  /\ Follows /\ told' = ToldUpTo(sent', covered')
         /\ Native!IsLine(out') => LineHolds(out', sent', d)
<1>1. /\ offset \in Nat /\ segStart \in Nat /\ covered \in Nat /\ PrerollMax \in Nat
      /\ covered <= offset /\ Len(sent) = offset /\ Len(sent') \in Nat
      /\ told = ToldUpTo(sent, covered)
  BY NativeFacts DEF RInv, Heard
<1>2. \A i \in 1 .. Len(sent') : sent'[i] \in Nat
  OBVIOUS
<1>3. told = ToldUpTo(sent', covered)
  BY <1>1 DEF ToldUpTo
<1>4. CASE ~Native!IsLine(out')
  <2>1. covered' = covered /\ told' = told
    BY <1>4, NativeReport DEF Hear
  <2> QED
    BY <1>3, <1>4, <2>1 DEF Follows
<1>5. CASE Native!IsLine(out')
  <2>1. PICK t \in Nat : t = covered'
    OBVIOUS
  <2>2. /\ covered <= segStart /\ segStart < t /\ t <= Len(sent')
        /\ out'.from = segStart /\ out'.audio = Run(segStart, t)
        /\ chunk # <<>> /\ Unbroken(sent', segStart + PrerollMax)
    BY <1>5, <2>1, NativeReport
  <2>3. PICK place : place = Place(out', sent') /\ place = Places(out')
    BY DEF Place, Places
  <2>4. /\ DOMAIN out'.audio = 1 .. t - segStart /\ Len(out'.audio) = t - segStart
        /\ \A i \in 1 .. t - segStart : out'.audio[i] = segStart + i - 1
    <3>1. /\ Run(segStart, t) \in Seq(Nat) /\ Len(Run(segStart, t)) = t - segStart
          /\ \A i \in 1 .. t - segStart : Run(segStart, t)[i] = segStart + i - 1
      <4>1. segStart \in Nat /\ t \in Nat /\ segStart <= t
        BY <1>1, <2>2
      <4> QED
        BY ONLY <4>1, RunFacts
    <3> QED
      BY <2>2, <3>1
  <2>5. \A i \in 1 .. t - segStart : place[i] = sent'[segStart + i]
    <3> SUFFICES ASSUME NEW i \in 1 .. t - segStart
                 PROVE  place[i] = sent'[segStart + i]
      OBVIOUS
    <3>1. place[i] = sent'[out'.audio[i] + 1]
      BY <2>3, <2>4 DEF Places
    <3>2. out'.audio[i] + 1 = segStart + i
      BY <1>1, <2>4
    <3> QED
      BY <3>1, <3>2
  <2>6. Len(place) = t - segStart
    <3>1. place = [i \in 1 .. t - segStart |-> sent'[out'.audio[i] + 1]]
      BY <2>3, <2>4 DEF Places
    <3>2. t - segStart \in Nat
      BY <1>1, <2>2
    <3> QED
      BY <3>1, <3>2
  <2>7. place[1] = sent'[segStart + 1] /\ segStart + 1 \in 1 .. Len(sent')
    BY <1>1, <2>2, <2>5
  <2>8. told' = ToldUpTo(sent', t)
    <3>1. told' = Places(out')[Len(out'.audio)] + 1
      BY <1>5 DEF Hear
    <3>2. place[t - segStart] = sent'[t]
      <4>1. t - segStart \in 1 .. t - segStart /\ segStart + (t - segStart) = t
        BY <1>1, <2>2
      <4> QED
        BY <2>5, <4>1
    <3>3. t # 0
      BY <1>1, <2>2
    <3> QED
      BY <2>3, <2>4, <3>1, <3>2, <3>3 DEF ToldUpTo
  <2>9. Follows
    <3>1. CASE covered = 0
      <4>1. told = 0 /\ place[1] \in Nat
        BY <1>1, <1>2, <2>7, <3>1 DEF ToldUpTo
      <4> QED
        BY <2>3, <4>1 DEF Follows
    <3>2. CASE covered # 0
      <4>1. covered \in 1 .. Len(sent') /\ covered < segStart + 1
        BY <1>1, <2>2, <3>2
      <4>2. sent'[covered] < sent'[segStart + 1]
        BY <2>7, <4>1 DEF Increasing
      <4>3. told = sent'[covered] + 1
        BY <1>3, <3>2 DEF ToldUpTo
      <4>4. sent'[covered] \in Nat /\ sent'[segStart + 1] \in Nat
        BY <1>2, <2>7, <4>1
      <4>5. place[1] >= told
        BY <2>7, <4>2, <4>3, <4>4
      <4> QED
        BY <2>3, <4>5 DEF Follows
    <3> QED
      BY <3>1, <3>2
  <2>10. BreaksAtDrops(place, d)
    <3> SUFFICES ASSUME NEW i \in 1 .. Len(place) - 1, place[i + 1] # place[i] + 1
                 PROVE  /\ place[i + 1] > place[i]
                        /\ (place[i] + 1) .. (place[i + 1] - 1) \subseteq d
                        /\ i <= PrerollMax
      BY DEF BreaksAtDrops
    <3>0. i \in Nat /\ i >= 1 /\ i <= t - segStart - 1
      <4>1. Len(place) - 1 \in Int /\ Len(place) - 1 = t - segStart - 1
        BY <1>1, <2>6
      <4> QED
        BY ONLY <4>1, i \in 1 .. Len(place) - 1
    <3>1. PICK k \in Nat : k = segStart + i
      BY <1>1, <3>0
    <3>2. k \in 1 .. Len(sent') - 1
      BY <1>1, <2>2, <3>0, <3>1
    <3>3. place[i] = sent'[k] /\ place[i + 1] = sent'[k + 1]
      <4>1. /\ i \in 1 .. t - segStart /\ i + 1 \in 1 .. t - segStart
            /\ segStart + (i + 1) = k + 1
        BY <1>1, <2>2, <2>6, <3>1
      <4> QED
        BY <2>5, <3>1, <4>1
    <3>4. PICK s : s = sent'
      OBVIOUS
    <3>5. /\ s \in Seq(Nat) /\ Increasing(s) /\ Samples(s) = (0 .. m - 1) \ d
          /\ k \in 1 .. Len(s) - 1
      BY <3>2, <3>4
    <3>6. /\ s[k] \in Nat /\ s[k + 1] \in Nat /\ s[k] < s[k + 1]
          /\ (s[k] + 1) .. (s[k + 1] - 1) \subseteq d
      BY ONLY m \in Nat, <3>5, Gap
    <3>7. i <= PrerollMax
      <4>1. sent'[k + 1] # sent'[k] + 1
        BY <3>3
      <4>2. k \notin segStart + PrerollMax + 1 .. Len(sent') - 1
        BY <2>2, <4>1 DEF Unbroken
      <4> QED
        BY <1>1, <3>1, <3>2, <4>2
    <3> QED
      BY <3>3, <3>4, <3>6, <3>7
  <2>11. LagsByDrops(segStart, place, d)
    <3>1. PICK s : s = sent'
      OBVIOUS
    <3>2. PICK i \in Nat : i = segStart + 1
      BY <1>1
    <3>3. /\ s \in Seq(Nat) /\ Increasing(s) /\ Samples(s) = (0 .. m - 1) \ d
          /\ d \subseteq 0 .. m - 1 /\ i \in 1 .. Len(s)
      BY <2>7, <3>1, <3>2
    <3>4. i - 1 + Cardinality({p \in d : p < s[i]}) = s[i]
      BY ONLY m \in Nat, <3>3, Rank
    <3>5. s[i] = place[1] /\ i - 1 = segStart
      BY <1>1, <2>7, <3>1, <3>2
    <3>6. segStart + Cardinality({p \in d : p < place[1]}) = place[1]
      BY <3>4, <3>5
    <3> QED
      BY <3>6 DEF LagsByDrops
  <2> QED
    BY <2>1, <2>2, <2>3, <2>8, <2>9, <2>10, <2>11 DEF LineHolds
<1> QED
  BY <1>4, <1>5

LEMMA NativeFactsAfter ==
  ASSUME Segments!IInv'
  PROVE  covered' \in Nat /\ offset' \in Nat /\ covered' <= offset' /\ segStart' \in Nat
<1>1. /\ covered' \in Nat /\ offset' \in 0 .. MaxSamples /\ segStart' \in 0 .. MaxSamples
      /\ preroll' \in Seq(0 .. MaxSamples) /\ covered' <= offset' - Len(preroll')
  BY DEF Segments!IInv, Segments!TypeOK, Segments!Positions,
     Segments!BufferedAudioUnreported
<1>2. Len(preroll') \in Nat
  BY <1>1
<1> QED
  BY <1>1, <1>2, FramerAssumption

(* What a frame adds to the samples handed over.                           *)
LEMMA FrameAdded ==
  ASSUME FInv, FInv', Sends
  PROVE  /\ Len(sent') = Len(sent) + FrameSamples
         /\ \A i \in 1 .. Len(sent) : sent'[i] = sent[i]
         /\ \A i \in Len(sent) + 1 .. Len(sent') :
              sent'[i] = SentTo + (i - Len(sent)) - 1
<1>1. /\ sent \in Seq(Nat) /\ Len(sent) \in Nat /\ SentTo \in Nat
      /\ FrameSamples \in Nat /\ SentTo + FrameSamples \in Nat
      /\ SentTo <= SentTo + FrameSamples
  BY FieldFacts
<1>2. PICK t : t = Run(SentTo, SentTo + FrameSamples)
  OBVIOUS
<1>3. /\ t \in Seq(Nat) /\ Len(t) = FrameSamples
      /\ \A i \in 1 .. FrameSamples : t[i] = SentTo + i - 1
  <2>1. PICK b \in Nat : b = SentTo + FrameSamples
    BY <1>1
  <2>2. /\ Run(SentTo, b) \in Seq(Nat) /\ Len(Run(SentTo, b)) = b - SentTo
        /\ \A i \in 1 .. b - SentTo : Run(SentTo, b)[i] = SentTo + i - 1
    BY ONLY <1>1, <2>1, RunFacts
  <2>3. b - SentTo = FrameSamples /\ t = Run(SentTo, b)
    BY <1>1, <1>2, <2>1
  <2> QED
    BY <2>2, <2>3
<1>4. sent' = sent \o t
  BY <1>2 DEF Sends
<1>5. /\ Len(sent') = Len(sent) + Len(t)
      /\ \A i \in 1 .. Len(sent) + Len(t) :
           sent'[i] = IF i <= Len(sent) THEN sent[i] ELSE t[i - Len(sent)]
  BY ONLY <1>1, <1>3, <1>4, ConcatProperties
<1>6. ASSUME NEW i \in 1 .. Len(sent) PROVE sent'[i] = sent[i]
  BY <1>1, <1>3, <1>5
<1>7. ASSUME NEW i \in Len(sent) + 1 .. Len(sent')
      PROVE  sent'[i] = SentTo + (i - Len(sent)) - 1
  <2>1. /\ i \in 1 .. Len(sent) + Len(t) /\ ~(i <= Len(sent))
        /\ i - Len(sent) \in 1 .. FrameSamples
    BY <1>1, <1>3, <1>5
  <2> QED
    BY <1>3, <1>5, <2>1
<1> QED
  BY <1>3, <1>5, <1>6, <1>7

LEMMA SendFrameStep ==
  ASSUME RInv, FInv', Sends, SendFrame
  PROVE  RInv' /\ RGood
<1>1. PICK v \in Segments!Verdicts, o \in Segments!Outcomes :
        Segments!Push(FrameSamples, v, o) /\ Hear
  BY SameInputs, SamePush DEF SendFrame
<1>2. /\ Segments!IInv' /\ Segments!OrderlyReport
      /\ offset' = offset + FrameSamples /\ alive /\ alive'
      /\ Segments!IsLine(out') => chunk # <<>> /\ out'.from = segStart
      /\ chunk' # <<>> => \/ chunk # <<>> /\ segStart' = segStart
                          \/ segStart' + PrerollMax >= offset
  BY <1>1, Assumed, Segments!PushSegment DEF RInv
<1>3. /\ Len(sent) = offset /\ told = ToldUpTo(sent, covered)
      /\ chunk # <<>> => /\ Unbroken(sent, segStart + PrerollMax)
                         /\ sent[offset] + 1 = SentTo
  BY DEF RInv, Heard
<1>4. /\ offset \in Nat /\ segStart \in Nat /\ PrerollMax \in Nat
      /\ FrameSamples \in Nat /\ FrameSamples > 0 /\ SentTo \in Nat
      /\ chunk # <<>> => segStart < offset
      /\ covered' \in Nat /\ covered' <= offset' /\ segStart' \in Nat
  BY <1>2, NativeFacts, NativeFactsAfter, FieldFacts DEF RInv
<1>5. /\ Len(sent') = offset + FrameSamples
      /\ \A i \in 1 .. offset : sent'[i] = sent[i]
      /\ \A i \in offset + 1 .. offset + FrameSamples :
           sent'[i] = SentTo + (i - offset) - 1
  BY <1>3, FrameAdded DEF RInv
<1>6. \A i \in offset + 1 .. Len(sent') - 1 : sent'[i + 1] = sent'[i] + 1
  <2> SUFFICES ASSUME NEW i \in offset + 1 .. Len(sent') - 1
               PROVE  sent'[i + 1] = sent'[i] + 1
    OBVIOUS
  <2>1. /\ i \in offset + 1 .. offset + FrameSamples
        /\ i + 1 \in offset + 1 .. offset + FrameSamples
    BY <1>4, <1>5
  <2>2. /\ sent'[i] = SentTo + (i - offset) - 1
        /\ sent'[i + 1] = SentTo + (i + 1 - offset) - 1
    <3>1. PICK j \in Nat : j = i + 1
      BY <1>4, <2>1
    <3>2. sent'[j] = SentTo + (j - offset) - 1
      BY <1>5, <2>1, <3>1
    <3>3. sent'[i] = SentTo + (i - offset) - 1
      BY <1>5, <2>1
    <3>4. i \in Int /\ i + 1 - offset = j - offset
      BY <1>4, <2>1, <3>1
    <3>5. sent'[i + 1] = SentTo + (i + 1 - offset) - 1
      BY <3>1, <3>2, <3>4
    <3> QED
      BY <3>3, <3>5
  <2> QED
    BY <1>4, <2>1, <2>2
<1>7. ASSUME chunk # <<>> PROVE Unbroken(sent', segStart + PrerollMax)
  <2> SUFFICES ASSUME NEW i \in segStart + PrerollMax + 1 .. Len(sent') - 1
               PROVE  sent'[i + 1] = sent'[i] + 1
    BY DEF Unbroken
  <2>1. i \in Nat /\ i >= 1 /\ i <= Len(sent') - 1
    BY <1>4, <1>5
  <2>2. CASE i < offset
    <3>1. i \in segStart + PrerollMax + 1 .. Len(sent) - 1
      BY <1>3, <1>4, <2>1, <2>2
    <3>2. sent[i + 1] = sent[i] + 1
      BY <1>3, <1>7, <3>1 DEF Unbroken
    <3>3. i \in 1 .. offset /\ i + 1 \in 1 .. offset
      BY <1>4, <2>1, <2>2
    <3> QED
      BY <1>5, <3>2, <3>3
  <2>3. CASE i = offset
    <3>1. sent[offset] + 1 = SentTo /\ offset \in 1 .. offset
      BY <1>3, <1>4, <1>7
    <3>2. sent'[offset] = sent[offset]
      BY <1>5, <3>1
    <3>3. PICK k : k = offset + 1
      OBVIOUS
    <3>4. /\ k \in offset + 1 .. offset + FrameSamples
          /\ SentTo + (k - offset) - 1 = SentTo
      BY <1>4, <3>3
    <3>5. sent'[k] = SentTo
      BY <1>5, <3>4
    <3> QED
      BY <2>3, <3>1, <3>2, <3>3, <3>5
  <2>4. CASE i > offset
    <3>1. i \in offset + 1 .. Len(sent') - 1
      BY <1>4, <2>1, <2>4
    <3> QED
      BY <1>6, <3>1
  <2> QED
    BY <1>4, <2>1, <2>2, <2>3, <2>4
<1>8. PICK m \in Nat : m = SentTo'
  BY DEF FInv, HandedOver
<1>9. /\ sent' \in Seq(Nat) /\ Increasing(sent')
      /\ Samples(sent') = (0 .. m - 1) \ dropped
      /\ dropped \subseteq 0 .. m - 1 /\ dropped' = dropped
  <2>1. dropped' = dropped
    BY DEF Sends
  <2> QED
    BY <1>8, <2>1 DEF FInv, HandedOver, TypeOK
<1>10. /\ Follows /\ told' = ToldUpTo(sent', covered')
       /\ Native!IsLine(out') => LineHolds(out', sent', dropped)
  <2>1. /\ Len(sent) <= Len(sent') /\ covered' <= Len(sent')
        /\ \A i \in 1 .. Len(sent) : sent'[i] = sent[i]
    BY <1>2, <1>3, <1>4, <1>5
  <2>2. Native!IsLine(out') =>
          /\ chunk # <<>> /\ out'.from = segStart
          /\ Unbroken(sent', segStart + PrerollMax)
    BY <1>2, <1>7, SameLine
  <2>3. PICK d : d = dropped
    OBVIOUS
  <2>4. Samples(sent') = (0 .. m - 1) \ d /\ d \subseteq 0 .. m - 1
    BY <1>9, <2>3
  <2>5. /\ Follows /\ told' = ToldUpTo(sent', covered')
        /\ Native!IsLine(out') => LineHolds(out', sent', d)
    BY ONLY RInv, <1>1, <1>2, <1>4, <1>8, <1>9, <2>1, <2>2, <2>4, LineGood
  <2> QED
    BY <2>3, <2>5
<1>11. ASSUME chunk' # <<>>
       PROVE  Unbroken(sent', segStart' + PrerollMax) /\ sent'[offset'] + 1 = SentTo'
  <2>1. sent'[offset'] + 1 = SentTo'
    <3>1. /\ offset' \in offset + 1 .. offset + FrameSamples
          /\ SentTo + (offset' - offset) - 1 + 1 = SentTo + FrameSamples
      BY <1>2, <1>4
    <3>2. sent'[offset'] = SentTo + (offset' - offset) - 1
      BY <1>5, <3>1
    <3> QED
      BY <3>1, <3>2 DEF Sends
  <2>2. CASE chunk # <<>> /\ segStart' = segStart
    BY <1>7, <2>1, <2>2
  <2>3. CASE segStart' + PrerollMax >= offset
    <3>1. Unbroken(sent', segStart' + PrerollMax)
      <4>1. PICK a \in Nat : a = segStart'
        BY <1>4
      <4>2. a + PrerollMax >= offset
        BY <2>3, <4>1
      <4>3. PICK n \in Nat : n = Len(sent')
        BY <1>4, <1>5
      <4> SUFFICES ASSUME NEW i \in a + PrerollMax + 1 .. n - 1
                   PROVE  sent'[i + 1] = sent'[i] + 1
        BY <4>1, <4>3 DEF Unbroken
      <4>4. i \in offset + 1 .. n - 1
        BY <1>4, <4>2
      <4> QED
        BY <1>6, <4>3, <4>4
    <3> QED
      BY <2>1, <3>1
  <2> QED
    BY <1>2, <1>11, <2>2, <2>3
<1>12. Heard'
  <2>1. Len(sent') = offset' /\ alive'
    BY <1>2, <1>5
  <2> QED
    BY <1>9, <1>10, <1>11, <2>1 DEF Heard
<1> QED
  BY <1>2, <1>10, <1>12 DEF RInv, RGood, LineGoesOut


LEMMA FinishStep ==
  ASSUME RInv, RFinish
  PROVE  RInv' /\ RGood
<1>1. PICK o \in Segments!Outcomes : Segments!Flush(o)
  BY SameInputs, SameFlush DEF RFinish
<1>2. /\ Segments!IInv' /\ Segments!OrderlyReport /\ chunk' = <<>>
      /\ UNCHANGED <<alive, offset>>
      /\ Segments!IsLine(out') => chunk # <<>> /\ out'.from = segStart
  BY <1>1, Assumed, Segments!FlushSegment DEF RInv
<1>3. Hear /\ Finish /\ alive /\ sent' = sent
  BY DEF RFinish, Finish
<1>4. FInv'
  BY <1>3, DropStep DEF RInv
<1>5. /\ Len(sent) = offset
      /\ chunk # <<>> => Unbroken(sent, segStart + PrerollMax)
  BY DEF RInv, Heard
<1>6. covered' \in Nat /\ covered' <= Len(sent')
  BY <1>2, <1>3, <1>5, NativeFactsAfter
<1>7. /\ Len(sent) <= Len(sent') /\ \A i \in 1 .. Len(sent) : sent'[i] = sent[i]
      /\ Native!IsLine(out') =>
           /\ chunk # <<>> /\ out'.from = segStart
           /\ Unbroken(sent', segStart + PrerollMax)
  <2>1. Len(sent) \in Nat
    BY FieldFacts DEF RInv
  <2> QED
    BY <1>2, <1>3, <1>5, <2>1, SameLine
<1>8. /\ Follows /\ told' = ToldUpTo(sent', covered')
      /\ Native!IsLine(out') => LineHolds(out', sent', dropped)
  <2>1. PICK m, d : m = SentTo /\ d = dropped
    OBVIOUS
  <2>2. /\ m \in Nat /\ d \subseteq 0 .. m - 1 /\ sent' \in Seq(Nat)
        /\ Increasing(sent') /\ Samples(sent') = (0 .. m - 1) \ d
    BY <1>3, <2>1 DEF RInv, FInv, HandedOver, TypeOK
  <2>3. /\ Follows /\ told' = ToldUpTo(sent', covered')
        /\ Native!IsLine(out') => LineHolds(out', sent', d)
    BY ONLY RInv, <1>2, <1>3, <1>6, <1>7, <2>2, LineGood
  <2> QED
    BY <2>1, <2>3
<1>9. Native!IsLine(out') => LineHolds(out', sent', dropped')
  <2>1. PICK m, d : m = SentTo' /\ d = dropped'
    OBVIOUS
  <2>2. /\ m \in Nat /\ d \subseteq 0 .. m - 1 /\ sent' \in Seq(Nat)
        /\ Increasing(sent') /\ Samples(sent') = (0 .. m - 1) \ d
    BY <1>4, <2>1 DEF FInv, HandedOver, TypeOK
  <2>3. Native!IsLine(out') => LineHolds(out', sent', d)
    BY ONLY RInv, <1>2, <1>3, <1>6, <1>7, <2>2, LineGood
  <2> QED
    BY <2>1, <2>3
<1>10. Heard'
  BY <1>2, <1>3, <1>5, <1>8, <1>9 DEF Heard
<1> QED
  BY <1>2, <1>4, <1>8, <1>10 DEF RInv, RGood, LineGoesOut

LEMMA CloseStep ==
  ASSUME RInv, RClose
  PROVE  RInv' /\ RGood
<1>1. /\ Segments!Close /\ Close /\ told' = told
      /\ closed' /\ sent' = sent
  BY SameClose DEF RClose, Close
<1>2. Segments!IInv' /\ Segments!OrderlyReport
  BY <1>1, Assumed, Segments!CloseStep DEF RInv
<1>3. /\ chunk' = <<>> /\ offset' = offset /\ out' = Segments!NullText
  BY <1>1 DEF Segments!Close, Segments!ResetSegment, Segments!Report
<1>4. ~Native!IsLine(out')
  BY <1>3 DEF Native!IsLine, Segments!NullText
<1>5. covered' = covered
  BY <1>2, <1>4, NativeReport
<1>6. FInv'
  BY <1>1, DropStep DEF RInv
<1>7. Heard'
  BY <1>1, <1>3, <1>4, <1>5 DEF RInv, Heard
<1> QED
  BY <1>1, <1>2, <1>4, <1>6, <1>7 DEF RInv, RGood, Follows, LineGoesOut

LEMMA OpenStep ==
  ASSUME RInv, Open
  PROVE  RInv' /\ RGood
<1>1. /\ ~alive /\ ~closed /\ Segments!StreamInit /\ UNCHANGED framer /\ told' = told
  BY SameOpen DEF Open
<1>2. Segments!IInv' /\ offset' = 0 /\ covered' = 0 /\ ~Segments!IsLine(out')
  BY <1>1, Assumed, Segments!StreamInitStep DEF RInv
<1>3. chunk' = <<>> /\ alive'
  BY <1>1 DEF Segments!StreamInit, Segments!ResetSegment
<1>4. offset = 0 /\ told = 0 /\ Len(sent) = 0
  <2>1. offset = 0 /\ Len(sent) = offset /\ told = ToldUpTo(sent, covered)
    BY <1>1 DEF RInv, Heard
  <2>2. covered = 0
    BY <2>1, NativeFacts DEF RInv
  <2> QED
    BY <2>1, <2>2 DEF ToldUpTo
<1>5. FInv'
  BY <1>1, FramerStep DEF RInv, framer
<1>6. Heard'
  BY <1>1, <1>2, <1>3, <1>4, SameLine DEF Heard, ToldUpTo, framer, vars
<1> QED
  BY <1>1, <1>2, <1>5, <1>6, SameLine DEF RInv, RGood, Follows, LineGoesOut

(* While the native side is not called, nothing it knows of changes.       *)
LEMMA QuietStep ==
  ASSUME RInv, FInv', Waits, UNCHANGED <<native, told, closed>>
  PROVE  RInv' /\ RGood
<1>1. /\ UNCHANGED <<alive, chunk, preroll, silence, onset, offset, segStart>>
      /\ UNCHANGED <<wavOpen, written, out, covered, told, closed>>
      /\ UNCHANGED <<sent, dropped>> /\ SentTo' = SentTo
  BY DEF native, Waits
<1>2. Segments!IInv'
  BY <1>1
     DEF RInv, Segments!IInv, Segments!TypeOK, Segments!BufferedAudioContiguous,
     Segments!CountersMatchState, Segments!WavAligned,
     Segments!BufferedAudioUnreported, Segments!Positions
<1>3. Heard' /\ LineGoesOut
  BY <1>1 DEF RInv, Heard, LineGoesOut
<1> QED
  BY <1>1, <1>2, <1>3 DEF RInv, RGood, Follows

LEMMA RStep == RInv /\ RNext => RInv' /\ RGood
<1> SUFFICES ASSUME RInv, RNext PROVE RInv' /\ RGood
  OBVIOUS
<1>1. FInv
  BY DEF RInv
<1>2. CASE Open
  BY <1>2, OpenStep
<1>3. CASE RPushChunk
  <2>1. FInv' /\ Waits
    BY <1>1, <1>3, PushChunkStep, StashStep DEF RPushChunk
  <2>2. UNCHANGED <<native, told, closed>>
    BY <1>3 DEF RPushChunk, PushChunk, Stash
  <2> QED
    BY <2>1, <2>2, QuietStep
<1>4. CASE RTopUp
  <2>1. FInv' /\ (Waits \/ Sends) /\ closed' = closed
    BY <1>1, <1>4, TopUpStep DEF RTopUp, TopUp
  <2>2. CASE sent' = sent
    <3>1. ~Sends
      <4>1. ASSUME Sends PROVE FALSE
        <5>1. Len(sent') = Len(sent) + FrameSamples
          BY <1>1, <2>1, <4>1, FrameAdded
        <5> QED
          BY <1>1, <2>2, <5>1, FieldFacts
      <4> QED
        BY <4>1
    <3>2. UNCHANGED <<native, told>>
      BY <1>4, <2>2 DEF RTopUp
    <3> QED
      BY <2>1, <3>1, <3>2, QuietStep
  <2>3. CASE sent' # sent
    <3>1. ~Waits /\ SendFrame
      BY <1>4, <2>3 DEF RTopUp, Waits
    <3> QED
      BY <2>1, <3>1, SendFrameStep
  <2> QED
    BY <2>2, <2>3
<1>5. CASE RSendWhole
  BY <1>1, <1>5, SendWholeStep, SendFrameStep DEF RSendWhole
<1>6. CASE RFinish
  BY <1>6, FinishStep
<1>7. CASE RClose
  BY <1>7, CloseStep
<1> QED
  BY <1>2, <1>3, <1>4, <1>5, <1>6, <1>7 DEF RNext

LEMMA InitRInv == RInit => RInv
<1> SUFFICES ASSUME RInit PROVE RInv
  OBVIOUS
<1>1. Init /\ Segments!Init /\ told = 0
  BY SameInit DEF RInit
<1>2. FInv /\ Segments!IInv
  BY <1>1, InitFInv, Assumed, Segments!InitIInv
<1>3. Heard
  <2>1. /\ Len(sent) = 0 /\ offset = 0 /\ covered = 0 /\ chunk = <<>>
        /\ out = Segments!NullText
    BY <1>1 DEF Init, Segments!Init
  <2> QED
    BY <1>1, <2>1 DEF Heard, ToldUpTo, Native!IsLine, Segments!NullText
<1> QED
  BY <1>2, <1>3 DEF RInv

LEMMA Unmoved == RInv /\ UNCHANGED all => RInv'
<1> SUFFICES ASSUME RInv, UNCHANGED all PROVE RInv'
  OBVIOUS
<1>1. UNCHANGED framer /\ UNCHANGED <<native, told>>
  BY DEF all
<1>2. FInv'
  BY <1>1, FramerStep DEF RInv, framer
<1>3. Waits /\ closed' = closed
  BY <1>1 DEF Waits, SentTo, From, framer, vars
<1> QED
  BY <1>1, <1>2, <1>3, QuietStep

LEMMA RInvariance == RSpec => []RInv
<1>1. RInv /\ [RNext]_all => RInv'
  BY RStep, Unmoved
<1> QED
  BY <1>1, InitRInv, PTL DEF RSpec

-----------------------------------------------------------------------------
(* The two sides of a recording run as their own specifications say, so    *)
(* what is proved of each alone holds of them together.                    *)
THEOREM FramerRunsAsSpecified == RSpec => Spec
<1>1. RInit => Init
  BY DEF RInit
<1>2. [RNext]_all => [Next]_vars
  BY DEF RNext, Open, RPushChunk, RTopUp, RSendWhole, RFinish, RClose, Next,
     all, framer
<1> QED
  BY <1>1, <1>2, PTL DEF RSpec, Spec

THEOREM SegmenterRunsAsSpecified == RSpec => Native!Spec
<1>1. RInit => Native!Init
  BY DEF RInit
<1>2. [RNext]_all => [Native!Next]_(Native!vars)
  <2> SUFFICES ASSUME [RNext]_all PROVE [Native!Next]_(Native!vars)
    OBVIOUS
  <2>1. CASE UNCHANGED native
    BY <2>1 DEF native, Native!vars
  <2>2. CASE SendFrame
    <3>1. FrameSamples \in {FrameSamples}
      OBVIOUS
    <3> QED
      BY <2>2, <3>1 DEF SendFrame, Native!Next
  <2>3. CASE Open \/ RFinish \/ RClose
    BY <2>3 DEF Open, RFinish, RClose, Native!Next
  <2> QED
    BY <2>1, <2>2, <2>3 DEF RNext, RPushChunk, RTopUp, RSendWhole, all
<1> QED
  BY <1>1, <1>2, PTL DEF RSpec, Native!Spec

(* So the native side of a recording is handed whole frames, which are all *)
(* of the recording but what finish and close discarded.                   *)
COROLLARY RecordingKeptWhole ==
  RSpec => []CarryIsPartial /\ []NothingLostOrRepeated
BY FramesWhole, RecordingKept, FramerRunsAsSpecified, PTL

(* However the audio is cut into chunks and wherever finish is called, no  *)
(* line goes back to audio an earlier one already told.                    *)
THEOREM LinesFollow == RSpec => LinesFollowTheRecording
<1>1. RInv /\ [RNext]_all => [told' # told => Places(out')[1] >= told]_all
  BY RStep DEF RGood, Follows
<1> QED
  BY <1>1, RInvariance, PTL DEF RSpec, LinesFollowTheRecording

(* The audio of a line is one stretch of the recording, but for what a     *)
(* finish dropped before it opened, within its preroll.                    *)
THEOREM BreaksOnly == RSpec => BreaksOnlyAtFinish
<1> DEFINE Breaks ==
             Native!IsLine(out') =>
               LET place == Places(out')
               IN  \A i \in 1 .. Len(place) - 1 :
                     place[i + 1] # place[i] + 1 =>
                       /\ place[i + 1] > place[i]
                       /\ (place[i] + 1) .. (place[i + 1] - 1) \subseteq dropped
                       /\ i <= PrerollMax
<1>1. RInv /\ [RNext]_all => [Breaks]_all
  <2>1. Places(out') = Place(out', sent')
    BY DEF Places, Place
  <2> QED
    BY <2>1, RStep DEF RGood, LineGoesOut, LineHolds, BreaksAtDrops
<1> QED
  BY <1>1, RInvariance, PTL DEF RSpec, BreaksOnlyAtFinish

(* A line's first timestamp is the place of its first sample in the        *)
(* recording, less what finish dropped before it.                          *)
THEOREM StampsLag == RSpec => StampsLagByDrops
<1> DEFINE Lags ==
             Native!IsLine(out') =>
               out'.from + Cardinality({p \in dropped : p < Places(out')[1]})
                 = Places(out')[1]
<1>1. RInv /\ [RNext]_all => [Lags]_all
  <2>1. Places(out') = Place(out', sent')
    BY DEF Places, Place
  <2> QED
    BY <2>1, RStep DEF RGood, LineGoesOut, LineHolds, LagsByDrops
<1> QED
  BY <1>1, RInvariance, PTL DEF RSpec, StampsLagByDrops
=============================================================================
