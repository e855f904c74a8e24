--------------------------- MODULE SegmenterProofs ---------------------------
(***************************************************************************)
(* Proofs about Segmenter, for every capacity, threshold and frame size    *)
(* that satisfies SegmenterAssumption, and the lemmas about Runs they and  *)
(* other proofs rest on.                                                   *)
(***************************************************************************)
EXTENDS Segmenter, SequenceTheorems, TLAPS

-----------------------------------------------------------------------------
(* What the copy loops of the handlers compute.                            *)

(* A run is a sequence of the expected length, and says which sample is at *)
(* each index: what the copy loops of the handlers compute.                *)
LEMMA RunType ==
  ASSUME NEW a \in Nat, NEW b \in Nat, a <= b, NEW m \in Nat, b <= m
  PROVE  /\ Run(a, b) \in Seq(0 .. m)
         /\ Len(Run(a, b)) = b - a
         /\ \A i \in 1 .. b - a : Run(a, b)[i] = a + i - 1
<1>1. \A i \in 1 .. b - a : a + i - 1 \in 0 .. m
  OBVIOUS
<1>2. Run(a, b) \in [1 .. b - a -> 0 .. m]
  BY <1>1 DEF Run
<1>3. b - a \in Nat
  OBVIOUS
<1>4. Run(a, b) \in Seq(0 .. m)
  BY <1>2, <1>3, SeqDef
<1>5. Len(Run(a, b)) = b - a
  BY <1>3, <1>4, LenProperties DEF Run
<1> QED
  BY <1>4, <1>5 DEF Run

LEMMA RunFacts ==
  ASSUME NEW a \in Nat, NEW b \in Nat, a <= b
  PROVE  /\ Run(a, b) \in Seq(Nat) /\ Len(Run(a, b)) = b - a
         /\ \A i \in 1 .. b - a : Run(a, b)[i] = a + i - 1
<1>1. b <= b
  OBVIOUS
<1>2. /\ Run(a, b) \in Seq(0 .. b) /\ Len(Run(a, b)) = b - a
      /\ \A i \in 1 .. b - a : Run(a, b)[i] = a + i - 1
  BY <1>1, RunType
<1> QED
  BY <1>2

(* Appending the next samples to a run (the growth of chunk_buffer).       *)
LEMMA RunConcat ==
  ASSUME NEW a \in Nat, NEW b \in Nat, NEW c \in Nat, a <= b, b <= c
  PROVE  Run(a, b) \o Run(b, c) = Run(a, c)
<1> DEFINE s == Run(a, b)
           t == Run(b, c)
           u == Run(a, c)
<1>0. a <= c
  OBVIOUS
<1>1. /\ s \in Seq(0 .. c) /\ Len(s) = b - a
      /\ \A i \in 1 .. b - a : s[i] = a + i - 1
  BY RunType
<1>2. /\ t \in Seq(0 .. c) /\ Len(t) = c - b
      /\ \A i \in 1 .. c - b : t[i] = b + i - 1
  BY RunType
<1>3. /\ u \in Seq(0 .. c) /\ Len(u) = c - a
      /\ \A i \in 1 .. c - a : u[i] = a + i - 1
  BY <1>0, RunType
<1> HIDE DEF s, t, u
<1>4. /\ s \o t \in Seq(0 .. c)
      /\ Len(s \o t) = Len(s) + Len(t)
      /\ \A i \in 1 .. Len(s) + Len(t) :
           (s \o t)[i] = IF i <= Len(s) THEN s[i] ELSE t[i - Len(s)]
  BY <1>1, <1>2, ConcatProperties
<1>5. Len(s \o t) = Len(u)
  BY <1>1, <1>2, <1>3, <1>4
<1>6. ASSUME NEW i \in 1 .. c - a
      PROVE  (s \o t)[i] = u[i]
  <2>0. /\ i \in Int /\ (i <= b - a \/ i > b - a)
        /\ i \in 1 .. Len(s) + Len(t)
    BY <1>0, <1>1, <1>2
  <2>1. CASE i <= b - a
    BY <2>1, <1>1, <1>2, <1>3, <1>4
  <2>2. CASE i > b - a
    <3>1. /\ i - (b - a) \in 1 .. c - b
          /\ b + (i - (b - a)) - 1 = a + i - 1
      BY <2>2, <1>3, <1>0
    <3>2. t[i - (b - a)] = b + (i - (b - a)) - 1
      BY <3>1, <1>2
    <3>3. (s \o t)[i] = t[i - (b - a)]
      <4>1. ~(i <= Len(s)) /\ i - Len(s) = i - (b - a)
        BY <2>0, <2>2, <1>1
      <4> QED
        BY <4>1, <2>0, <1>4
    <3> QED
      BY <3>1, <3>2, <3>3, <1>3
  <2> QED
    BY <2>0, <2>1, <2>2
<1>7. s \o t = u
  BY <1>0, <1>1, <1>2, <1>3, <1>4, <1>5, <1>6, SeqEqual
<1> QED
  BY <1>7 DEF s, t, u

(* Dropping the oldest samples of a run (the shift of the preroll ring).   *)
LEMMA RunSuffix ==
  ASSUME NEW a \in Nat, NEW b \in Nat, NEW k \in Nat, a + k <= b
  PROVE  SubSeq(Run(a, b), k + 1, b - a) = Run(a + k, b)
<1> DEFINE s == Run(a, b)
           u == Run(a + k, b)
           d == SubSeq(s, k + 1, b - a)
<1>0. a <= b /\ a + k \in Nat
  OBVIOUS
<1>1. /\ s \in Seq(0 .. b) /\ Len(s) = b - a
      /\ \A i \in 1 .. b - a : s[i] = a + i - 1
  BY <1>0, RunType
<1>2. /\ u \in Seq(0 .. b) /\ Len(u) = b - a - k
      /\ \A i \in 1 .. b - a - k : u[i] = a + k + i - 1
  <2>1. b - (a + k) = b - a - k
    OBVIOUS
  <2> QED
    BY <1>0, <2>1, RunType
<1>3. \A i \in k + 1 .. b - a : s[i] \in 0 .. b
  BY <1>1
<1> HIDE DEF s, u
<1>4. /\ d \in Seq(0 .. b)
      /\ Len(d) = b - a - k
      /\ \A i \in 1 .. b - a - k : d[i] = s[k + i]
  BY <1>1, <1>3
<1>5. \A i \in 1 .. b - a - k : d[i] = u[i]
  BY <1>1, <1>2, <1>4
<1>6. d = u
  BY <1>2, <1>4, <1>5, SeqEqual
<1> QED
  BY <1>6 DEF s, u

(* A run that ends where it starts, or before, is empty.                   *)
LEMMA RunOfNothing ==
  ASSUME NEW a \in Nat, NEW b \in Nat, b <= a
  PROVE  Run(a, b) = <<>>
<1>1. 1 .. b - a = {}
  OBVIOUS
<1>2. Run(a, b) = [i \in {} |-> a + i - 1]
  BY <1>1 DEF Run
<1>3. Run(a, b) \in Seq({}) /\ Len(Run(a, b)) = 0
  <2>1. Run(a, b) \in [1 .. 0 -> {}]
    BY <1>1 DEF Run
  <2>2. Run(a, b) \in Seq({})
    BY <2>1, SeqDef
  <2> QED
    BY <2>1, <2>2
<1> QED
  BY <1>3

(* Handing on later samples: what was in order stays in order.             *)
LEMMA RunAppended ==
  ASSUME NEW s \in Seq(Nat), NEW a \in Nat, NEW b \in Nat, a <= b,
         Increasing(s), Samples(s) \subseteq 0 .. a - 1
  PROVE  /\ s \o Run(a, b) \in Seq(Nat)
         /\ Len(s \o Run(a, b)) = Len(s) + (b - a)
         /\ Increasing(s \o Run(a, b))
         /\ Samples(s \o Run(a, b)) = Samples(s) \cup (a .. b - 1)
<1> DEFINE t == Run(a, b)
           u == s \o t
<1>1. /\ t \in Seq(0 .. b) /\ Len(t) = b - a
      /\ \A i \in 1 .. b - a : t[i] = a + i - 1
  <2>1. a \in Nat /\ b \in Nat /\ a <= b /\ b <= b
    OBVIOUS
  <2> QED
    BY ONLY <2>1, RunType
<1>2. t \in Seq(Nat)
  BY <1>1
<1> HIDE DEF t
<1>3. /\ u \in Seq(Nat) /\ Len(u) = Len(s) + Len(t)
      /\ \A i \in 1 .. Len(s) + Len(t) :
           u[i] = IF i <= Len(s) THEN s[i] ELSE t[i - Len(s)]
  BY <1>2, ConcatProperties
<1>4. /\ DOMAIN s = 1 .. Len(s) /\ Len(s) \in Nat
      /\ DOMAIN u = 1 .. Len(s) + (b - a)
  BY <1>1, <1>3
<1>5. \A i \in 1 .. Len(s) : u[i] = s[i] /\ s[i] \in 0 .. a - 1
  <2> SUFFICES ASSUME NEW i \in 1 .. Len(s)
               PROVE  u[i] = s[i] /\ s[i] \in 0 .. a - 1
    OBVIOUS
  <2>1. s[i] \in Samples(s)
    BY <1>4 DEF Samples
  <2>2. i \in 1 .. Len(s) + Len(t) /\ i <= Len(s)
    BY <1>1, <1>4
  <2> QED
    BY <1>3, <2>1, <2>2
<1>6. \A i \in Len(s) + 1 .. Len(s) + (b - a) : u[i] = a + (i - Len(s)) - 1
  <2> SUFFICES ASSUME NEW i \in Len(s) + 1 .. Len(s) + (b - a)
               PROVE  u[i] = a + (i - Len(s)) - 1
    OBVIOUS
  <2>1. /\ i \in 1 .. Len(s) + Len(t) /\ ~(i <= Len(s))
        /\ i - Len(s) \in 1 .. b - a
    BY <1>1, <1>4
  <2> QED
    BY <1>1, <1>3, <2>1
<1> HIDE DEF u
<1>7. Increasing(u)
  <2> SUFFICES ASSUME NEW i \in DOMAIN u, NEW j \in DOMAIN u, i < j
               PROVE  u[i] < u[j]
    BY DEF Increasing
  <2>1. CASE j <= Len(s)
    <3>1. i \in 1 .. Len(s) /\ j \in 1 .. Len(s)
      BY <1>4, <2>1
    <3> QED
      BY <1>4, <1>5, <3>1 DEF Increasing
  <2>2. CASE i > Len(s)
    <3>1. /\ i \in Len(s) + 1 .. Len(s) + (b - a)
          /\ j \in Len(s) + 1 .. Len(s) + (b - a)
      BY <1>4, <2>2
    <3>2. u[i] = a + (i - Len(s)) - 1 /\ u[j] = a + (j - Len(s)) - 1
      BY <1>6, <3>1
    <3> QED
      BY <1>4, <3>1, <3>2
  <2>3. CASE i <= Len(s) /\ j > Len(s)
    <3>1. i \in 1 .. Len(s) /\ j \in Len(s) + 1 .. Len(s) + (b - a)
      BY <1>4, <2>3
    <3>2. u[i] \in 0 .. a - 1 /\ u[j] = a + (j - Len(s)) - 1
      BY <1>5, <1>6, <3>1
    <3> QED
      BY <1>4, <3>1, <3>2
  <2> QED
    BY <1>4, <2>1, <2>2, <2>3
<1>8. Samples(u) = Samples(s) \cup (a .. b - 1)
  <2>1. ASSUME NEW p \in Samples(u) PROVE p \in Samples(s) \cup (a .. b - 1)
    <3>1. PICK i \in DOMAIN u : p = u[i]
      BY <2>1 DEF Samples
    <3>2. CASE i <= Len(s)
      <4>1. i \in DOMAIN s /\ p = s[i]
        BY <1>4, <1>5, <3>1, <3>2
      <4>2. p \in Samples(s)
        BY <4>1 DEF Samples
      <4> QED
        BY <4>2
    <3>3. CASE i > Len(s)
      <4>1. i \in Len(s) + 1 .. Len(s) + (b - a)
        BY <1>4, <3>3
      <4>2. p = a + (i - Len(s)) - 1
        BY <1>6, <3>1, <4>1
      <4>3. p \in a .. b - 1
        BY <1>4, <4>1, <4>2
      <4> QED
        BY <4>3
    <3> QED
      BY <1>4, <3>2, <3>3
  <2>2. ASSUME NEW p \in Samples(s) PROVE p \in Samples(u)
    <3>1. PICK i \in DOMAIN s : p = s[i]
      BY <2>2 DEF Samples
    <3>2. i \in DOMAIN u /\ u[i] = p
      BY <1>4, <1>5, <3>1
    <3> QED
      BY <3>2 DEF Samples
  <2>3. ASSUME NEW p \in a .. b - 1 PROVE p \in Samples(u)
    <3> DEFINE i == Len(s) + (p - a) + 1
    <3>1. i \in Len(s) + 1 .. Len(s) + (b - a)
      BY <1>4, <2>3
    <3>2. u[i] = a + (i - Len(s)) - 1
      BY <1>6, <3>1
    <3>3. a + (i - Len(s)) - 1 = p
      BY <1>4, <2>3
    <3>4. i \in 1 .. Len(s) + (b - a)
      BY <1>4, <3>1
    <3>5. i \in DOMAIN u /\ u[i] = p
      BY <1>4, <3>2, <3>3, <3>4
    <3> QED
      BY <3>5 DEF Samples
  <2> QED
    BY <2>1, <2>2, <2>3
<1> QED
  BY <1>1, <1>3, <1>7, <1>8 DEF t, u

-----------------------------------------------------------------------------
(* The inductive invariant.                                                *)

(* The constants, in the form the steps below use.                         *)
LEMMA ConstantFacts ==
  /\ ChunkCap \in Nat /\ MinSegment \in Nat /\ PrerollMax \in Nat
  /\ VadFrame \in Nat /\ MaxSamples \in Nat
  /\ EouSilence \in Nat /\ EouSilence > 0
  /\ OnsetFrames \in Nat /\ OnsetFrames > 0
  /\ \A n \in PushSizes : n \in Nat /\ n > 0
BY SegmenterAssumption

(* The preroll ring: given the latest samples, it still holds the latest   *)
(* samples, and no more than it has room for.                              *)
LEMMA SlideRun ==
  ASSUME NEW k \in Nat, k <= PrerollMax, k <= offset, offset \in Nat,
         NEW n \in PushSizes
  PROVE  \E l \in 0 .. PrerollMax :
           /\ l <= k + n
           /\ Slide(Run(offset - k, offset), n) = Run(offset + n - l, offset + n)
<1> DEFINE keep == IF n > PrerollMax THEN PrerollMax ELSE n
           shift == k + keep - PrerollMax
           drop == IF shift > 0 THEN shift ELSE 0
           ring == Run(offset - k, offset)
           l == k - drop + keep
<1>1. /\ n \in Nat /\ n > 0 /\ PrerollMax \in Nat
      /\ keep \in Nat /\ keep <= n /\ keep <= PrerollMax
      /\ drop \in Nat /\ drop <= k /\ l \in 0 .. PrerollMax /\ l <= k + n
      /\ offset - k \in Nat
  BY ConstantFacts
<1>2. Len(ring) = k
  <2>1. offset - k <= offset
    BY <1>1
  <2>2. Len(ring) = offset - (offset - k)
    BY <1>1, <2>1, RunType
  <2> QED
    BY <2>2, <1>1
<1>3. CASE keep < n
  <2>1. keep = PrerollMax /\ drop = k /\ l = keep
    BY <1>3, <1>1
  <2>2. SubSeq(ring, (IF shift > 0 THEN shift + 1 ELSE 1), Len(ring)) = <<>>
    <3>1. (IF shift > 0 THEN shift + 1 ELSE 1) = k + 1
      BY <2>1, <1>1
    <3> HIDE DEF shift, ring
    <3>2. SubSeq(ring, k + 1, k) = <<>>
      BY SubSeqEmpty
    <3> QED
      BY <3>1, <3>2, <1>2
  <2>3. SubSeq(Incoming(n), n - keep + 1, n) = Run(offset + n - l, offset + n)
    <3>1. /\ n - keep \in Nat /\ offset + n \in Nat
          /\ offset + (n - keep) <= offset + n
          /\ (offset + n) - offset = n
          /\ offset + (n - keep) = offset + n - l
      BY <2>1, <1>1
    <3> HIDE DEF keep, l
    <3>2. SubSeq(Run(offset, offset + n), (n - keep) + 1, (offset + n) - offset)
            = Run(offset + (n - keep), offset + n)
      BY <3>1, RunSuffix
    <3> QED
      BY <3>1, <3>2 DEF Incoming
  <2>4. Run(offset + n - l, offset + n) \in Seq(0 .. offset + n)
    <3>1. /\ offset + n - l \in Nat /\ offset + n \in Nat
          /\ offset + n - l <= offset + n /\ offset + n <= offset + n
      BY <1>1, <2>1
    <3> HIDE DEF l
    <3> QED
      BY <3>1, RunType
  <2>5. Slide(ring, n) = <<>> \o Run(offset + n - l, offset + n)
    BY <2>2, <2>3, <1>2 DEF Slide
  <2>6. Slide(ring, n) = Run(offset + n - l, offset + n)
    <3> HIDE DEF l, ring
    <3> QED
      BY <2>4, <2>5, ConcatEmptySeq
  <2> QED
    BY <2>6, <1>1
<1>4. CASE keep = n
  <2>1. SubSeq(ring, (IF shift > 0 THEN shift + 1 ELSE 1), Len(ring))
          = Run(offset - (k - drop), offset)
    <3>1. (IF shift > 0 THEN shift + 1 ELSE 1) = drop + 1
      BY <1>1
    <3>2. /\ (offset - k) + drop <= offset
          /\ offset - (offset - k) = k
          /\ (offset - k) + drop = offset - (k - drop)
      BY <1>1
    <3> HIDE DEF drop, shift
    <3>3. SubSeq(ring, drop + 1, k) = Run((offset - k) + drop, offset)
      BY <3>2, <1>1, RunSuffix
    <3> QED
      BY <3>1, <3>2, <3>3, <1>2
  <2>2. SubSeq(Incoming(n), n - keep + 1, n) = Run(offset, offset + n)
    <3>1. /\ n - keep + 1 = 0 + 1 /\ (offset + n) - offset = n
          /\ offset + 0 = offset /\ offset + 0 <= offset + n
          /\ offset + n \in Nat
      BY <1>1, <1>4
    <3> QED
      BY <3>1, RunSuffix DEF Incoming
  <2>3. /\ offset - (k - drop) \in Nat /\ offset + n \in Nat
        /\ offset - (k - drop) <= offset /\ offset <= offset + n
        /\ offset - (k - drop) = offset + n - l
    BY <1>1, <1>4
  <2>4. Slide(ring, n) = Run(offset - (k - drop), offset) \o Run(offset, offset + n)
    BY <2>1, <2>2, <1>2 DEF Slide
  <2>5. Slide(ring, n) = Run(offset + n - l, offset + n)
    <3> HIDE DEF l, ring, drop
    <3>1. Run(offset - (k - drop), offset) \o Run(offset, offset + n)
            = Run(offset - (k - drop), offset + n)
      BY <2>3, RunConcat
    <3> QED
      BY <2>3, <2>4, <3>1
  <2> QED
    BY <2>5, <1>1
<1> QED
  BY <1>1, <1>3, <1>4

(* What a call that closes the segment [a, b) may report, and what that    *)
(* makes of covered.                                                       *)
LEMMA ReportStretch ==
  ASSUME NEW a \in Nat, NEW b \in Nat, a < b, b <= MaxSamples,
         covered \in Nat, covered <= a, NEW o \in Outcomes,
         NEW r \in {NullText, EmptyText, SegmentText(a, Run(a, b), o)},
         Report(r)
  PROVE  /\ out' \in Results /\ covered' \in Nat
         /\ covered <= covered' /\ covered' <= b
         /\ IF IsLine(out')
              THEN out'.from = a /\ out'.to = b /\ out'.audio = Run(a, b)
                   /\ covered' = b
              ELSE covered' = covered
<1>1. /\ Run(a, b) \in Positions /\ Len(Run(a, b)) = b - a
      /\ MaxSamples \in Nat
  BY ConstantFacts, RunType DEF Positions
<1>2. CASE r = NullText \/ r = EmptyText
  BY <1>2 DEF Report, NullText, EmptyText, IsLine, Results
<1>3. CASE r = Line(a, Run(a, b), o)
  <2>1. a + (b - a) = b /\ a \in 0 .. MaxSamples /\ (o = "text") \in BOOLEAN
    BY <1>1
  <2>2. r = [kind |-> "line", from |-> a, to |-> b, audio |-> Run(a, b),
             decoded |-> o = "text"]
    BY <1>1, <1>3, <2>1 DEF Line
  <2>3. r \in Results
    BY <1>1, <2>1, <2>2 DEF Results
  <2> QED
    BY <2>2, <2>3 DEF Report, IsLine
<1> QED
  BY <1>2, <1>3 DEF SegmentText

(* What IInv says of the two buffers.                                      *)
LEMMA BufferFacts ==
  ASSUME IInv
  PROVE  /\ offset \in Nat /\ segStart \in Nat /\ covered \in Nat
         /\ offset <= MaxSamples /\ covered <= offset
         /\ Len(preroll) \in Nat /\ Len(preroll) <= PrerollMax
         /\ Len(preroll) <= offset /\ covered <= offset - Len(preroll)
         /\ preroll = Run(offset - Len(preroll), offset)
         /\ Len(chunk) \in Nat
         /\ chunk = <<>> <=> Len(chunk) = 0
         /\ chunk # <<>> => /\ chunk = Run(segStart, offset)
                            /\ segStart < offset /\ covered <= segStart
                            /\ Len(chunk) = offset - segStart
                            /\ preroll = <<>>
<1>1. /\ offset \in Nat /\ segStart \in Nat /\ covered \in Nat
      /\ offset <= MaxSamples
      /\ Len(preroll) \in Nat /\ Len(preroll) <= PrerollMax
      /\ covered <= offset - Len(preroll)
      /\ Len(chunk) \in Nat /\ chunk \in Positions
      /\ preroll = Run(offset - Len(preroll), offset)
  <2>1. /\ chunk \in Seq(0 .. MaxSamples) /\ preroll \in Seq(0 .. MaxSamples)
        /\ covered \in Nat /\ offset \in 0 .. MaxSamples
        /\ segStart \in 0 .. MaxSamples
        /\ Len(preroll) <= PrerollMax
    BY DEF IInv, TypeOK, Positions
  <2>2. covered <= offset - Len(preroll)
    BY DEF IInv, BufferedAudioUnreported
  <2>3. preroll = Run(offset - Len(preroll), offset)
    BY DEF IInv, BufferedAudioContiguous
  <2> QED
    BY <2>1, <2>2, <2>3, ConstantFacts DEF Positions
<1>2. Len(preroll) <= offset /\ covered <= offset
  BY <1>1
<1>3. chunk = <<>> <=> Len(chunk) = 0
  BY <1>1 DEF Positions
<1>4. ASSUME chunk # <<>>
      PROVE  /\ chunk = Run(segStart, offset) /\ covered <= segStart
             /\ segStart < offset /\ Len(chunk) = offset - segStart
             /\ preroll = <<>>
  <2>1. /\ chunk = Run(segStart, offset) /\ covered <= segStart
        /\ preroll = <<>>
    BY <1>4 DEF IInv, BufferedAudioContiguous, BufferedAudioUnreported
  <2>2. segStart < offset
    <3>1. CASE offset <= segStart
      BY <1>1, <1>4, <2>1, <3>1, RunOfNothing
    <3> QED
      BY <1>1, <3>1
  <2>3. Len(Run(segStart, offset)) = offset - segStart
    BY <1>1, <2>2, RunType
  <2> QED
    BY <2>1, <2>2, <2>3
<1> QED
  BY <1>1, <1>2, <1>3, <1>4

(* A step seen from outside: it reports a line about audio after all the   *)
(* audio reported before, or no line.                                      *)
OrderlyReport ==
  IF IsLine(out')
    THEN /\ covered <= out'.from /\ out'.from < out'.to /\ out'.to <= offset'
         /\ out'.audio = Run(out'.from, out'.to)
         /\ covered' = out'.to
    ELSE covered' = covered


(* Whatever closes a segment ends in reset_segment_state, and the empty    *)
(* buffers it leaves satisfy the invariant.                                *)
LEMMA AfterReset ==
  ASSUME ResetSegment,
         alive' \in BOOLEAN, wavOpen' \in BOOLEAN,
         NEW h \in 0 .. MaxSamples, offset' = h,
         segStart' \in 0 .. MaxSamples,
         written' \in Nat, wavOpen' => written' = h,
         out' \in Results,
         NEW c \in Nat, covered' = c, c <= h
  PROVE  IInv'
<1>1. /\ chunk' = <<>> /\ preroll' = <<>> /\ Len(<<>>) = 0
      /\ <<>> \in Positions
      /\ onset' = 0 /\ silence' = 0
  BY DEF ResetSegment, Positions
<1>2. h \in Nat /\ h - 0 = h
  BY ConstantFacts
<1>3. TypeOK'
  BY <1>1, <1>2, ConstantFacts DEF TypeOK
<1>4. BufferedAudioContiguous'
  <2>1. Run(h - Len(<<>>), h) = <<>>
    BY <1>1, <1>2, RunOfNothing
  <2>2. (chunk = <<>>)' /\ (preroll = Run(offset - Len(preroll), offset))'
    BY <1>1, <2>1
  <2> QED
    BY <2>2 DEF BufferedAudioContiguous
<1>5. CountersMatchState'
  BY <1>1, ConstantFacts DEF CountersMatchState
<1>6. WavAligned'
  BY DEF WavAligned
<1>7. BufferedAudioUnreported'
  <2>1. c <= h - Len(<<>>)
    BY <1>1, <1>2
  <2>2. (chunk = <<>>)' /\ (covered <= offset - Len(preroll))'
    BY <1>1, <2>1
  <2> QED
    BY <2>2 DEF BufferedAudioUnreported
<1> QED
  BY <1>3, <1>4, <1>5, <1>6, <1>7 DEF IInv

(* The facts about the other fields that the steps share.                  *)
LEMMA FieldFacts ==
  ASSUME IInv
  PROVE  /\ alive \in BOOLEAN /\ wavOpen \in BOOLEAN
         /\ written \in Nat /\ (wavOpen => written = offset)
         /\ silence \in Nat /\ onset \in Nat
         /\ offset \in 0 .. MaxSamples /\ segStart \in 0 .. MaxSamples
         /\ Len(chunk) <= ChunkCap /\ out \in Results
BY DEF IInv, TypeOK, WavAligned

(* NULL, or a line about the open segment.                                 *)
LEMMA ReportOpenSegment ==
  ASSUME IInv, NEW o \in Outcomes, NEW r, Report(r), offset' >= offset,
         offset' \in Nat,
         \/ r = NullText
         \/ chunk # <<>> /\ r \in {NullText, EmptyText, SegmentText(segStart, chunk, o)}
  PROVE  /\ out' \in Results /\ covered' \in Nat /\ covered' <= offset
         /\ chunk = <<>> => covered' = covered
         /\ OrderlyReport
<1> USE BufferFacts
<1>1. CASE r = NullText
  BY <1>1 DEF Report, NullText, IsLine, Results, OrderlyReport
<1>2. CASE chunk # <<>> /\ r \in {NullText, EmptyText, SegmentText(segStart, chunk, o)}
  <2>1. /\ chunk = Run(segStart, offset) /\ segStart < offset
        /\ covered <= segStart
    BY <1>2
  <2>2. /\ out' \in Results /\ covered' \in Nat
        /\ covered <= covered' /\ covered' <= offset
        /\ IF IsLine(out')
             THEN out'.from = segStart /\ out'.to = offset
                  /\ out'.audio = Run(segStart, offset) /\ covered' = offset
             ELSE covered' = covered
    BY <1>2, <2>1, ReportStretch
  <2> QED
    BY <1>2, <2>1, <2>2 DEF OrderlyReport
<1> QED
  BY <1>1, <1>2

-----------------------------------------------------------------------------
(* One lemma per action.                                                   *)

LEMMA PushFlushStep ==
  ASSUME IInv, NEW o \in Outcomes, PushFlush(o)
  PROVE  IInv' /\ OrderlyReport
<1> USE BufferFacts, FieldFacts
<1>0. /\ UNCHANGED <<alive, offset, segStart, wavOpen, written>>
      /\ offset' >= offset /\ offset' \in Nat
  BY DEF PushFlush, wav
<1>1. CASE chunk = <<>>
  <2>1. /\ Report(NullText)
        /\ UNCHANGED <<chunk, preroll, silence, onset>>
    BY <1>1 DEF PushFlush, buffers, counters
  <2>2. out' \in Results /\ covered' = covered /\ OrderlyReport
    BY <1>0, <1>1, <2>1, ReportOpenSegment
  <2>3. IInv'
    BY <1>0, <2>1, <2>2 DEF IInv, TypeOK, BufferedAudioContiguous,
       CountersMatchState, WavAligned, BufferedAudioUnreported
  <2> QED
    BY <2>2, <2>3
<1>2. CASE chunk # <<>>
  <2>1. Report(SegmentText(segStart, chunk, o)) /\ ResetSegment
    BY <1>2 DEF PushFlush
  <2>2. out' \in Results /\ covered' \in Nat /\ covered' <= offset /\ OrderlyReport
    BY <1>0, <1>2, <2>1, ReportOpenSegment
  <2>3. IInv'
    BY <1>0, <2>1, <2>2, AfterReset
  <2> QED
    BY <2>2, <2>3
<1> QED
  BY <1>1, <1>2

LEMMA FlushStep ==
  ASSUME IInv, NEW o \in Outcomes, Flush(o)
  PROVE  IInv' /\ OrderlyReport
<1> USE BufferFacts, FieldFacts
<1>0. /\ UNCHANGED <<alive, offset, segStart, wavOpen, written>>
      /\ offset' >= offset /\ offset' \in Nat
  BY DEF Flush, wav
<1>1. PICK r : /\ Report(r)
               /\ \/ r = NullText
                  \/ /\ chunk # <<>>
                     /\ r \in {NullText, EmptyText, SegmentText(segStart, chunk, o)}
  <2>1. CASE Len(chunk) > MinSegment
    <3>1. chunk # <<>>
      BY <2>1, ConstantFacts
    <3> QED
      BY <2>1, <3>1 DEF Flush
  <2>2. CASE ~(Len(chunk) > MinSegment)
    BY <2>2 DEF Flush
  <2> QED
    BY <2>1, <2>2
<1>2. /\ out' \in Results /\ covered' \in Nat /\ covered' <= offset
      /\ chunk = <<>> => covered' = covered
      /\ OrderlyReport
  BY <1>0, <1>1, ReportOpenSegment
<1>3. CASE chunk = <<>>
  <2>1. UNCHANGED <<chunk, preroll, silence, onset>>
    BY <1>3 DEF Flush, buffers, counters
  <2>2. IInv'
    BY <1>0, <1>2, <1>3, <2>1 DEF IInv, TypeOK, BufferedAudioContiguous,
       CountersMatchState, WavAligned, BufferedAudioUnreported
  <2> QED
    BY <1>2, <2>2
<1>4. CASE chunk # <<>>
  <2>1. ResetSegment
    BY <1>4 DEF Flush
  <2>2. IInv'
    BY <1>0, <1>2, <2>1, AfterReset
  <2> QED
    BY <1>2, <2>2
<1> QED
  BY <1>3, <1>4

LEMMA CloseStep ==
  ASSUME IInv, Close
  PROVE  IInv' /\ OrderlyReport
<1> USE BufferFacts, FieldFacts
<1>1. /\ ResetSegment /\ Report(NullText) /\ alive' = FALSE
      /\ UNCHANGED <<offset, segStart, wavOpen, written>>
  BY DEF Close, wav
<1>2. out' \in Results /\ covered' = covered /\ OrderlyReport
  BY <1>1 DEF Report, NullText, IsLine, Results, OrderlyReport
<1>3. IInv'
  BY <1>1, <1>2, AfterReset
<1> QED
  BY <1>2, <1>3

LEMMA StreamInitStep ==
  ASSUME IInv, StreamInit
  PROVE  IInv' /\ offset' = 0 /\ covered' = 0 /\ ~IsLine(out')
<1>1. /\ ResetSegment /\ alive' = TRUE /\ wavOpen' \in BOOLEAN
      /\ offset' = 0 /\ segStart' = 0 /\ written' = 0 /\ covered' = 0
      /\ out' = NullText
  BY DEF StreamInit
<1>2. out' \in Results /\ ~IsLine(out')
  BY <1>1 DEF NullText, IsLine, Results
<1>3. 0 \in 0 .. MaxSamples
  BY ConstantFacts
<1>4. IInv'
  BY <1>1, <1>2, <1>3, AfterReset
<1> QED
  BY <1>1, <1>2, <1>4

(* What every accepted push of n samples does, whatever becomes of them,   *)
(* and what the handler works with after the cap.                          *)
LEMMA PushFacts ==
  ASSUME IInv, NEW n \in PushSizes, NEW v \in Verdicts, Accept(n)
  PROVE  /\ n \in Nat /\ n > 0 /\ n <= ChunkCap
         /\ offset + n \in 0 .. MaxSamples /\ offset + n \in Nat
         /\ offset' = offset + n
         /\ alive' \in BOOLEAN /\ wavOpen' \in BOOLEAN
         /\ \E w \in Nat : written' = w /\ (wavOpen' => w = offset + n)
         /\ Incoming(n) = Run(offset, offset + n)
         /\ Len(Incoming(n)) = n
         /\ Overflows(n) => chunk # <<>>
         /\ OnsetCount(n, v) \in Nat
         /\ SilenceCount(n, v) \in Nat /\ SilenceCount(n, v) <= SilenceNow(n) + n
<1> USE BufferFacts, FieldFacts
<1>1. /\ n \in Nat /\ n > 0 /\ n <= ChunkCap /\ offset + n <= MaxSamples
      /\ offset' = offset + n /\ alive' = alive /\ wavOpen' = wavOpen
      /\ written' = IF wavOpen THEN written + n ELSE written
      /\ ChunkCap \in Nat /\ MaxSamples \in Nat
  BY ConstantFacts DEF Accept
<1>2. \E w \in Nat : written' = w /\ (wavOpen' => w = offset + n)
  BY <1>1
<1>3. Incoming(n) = Run(offset, offset + n) /\ Len(Incoming(n)) = n
  <2>1. offset <= offset + n /\ offset + n \in Nat /\ (offset + n) - offset = n
    BY <1>1
  <2>2. Len(Run(offset, offset + n)) = (offset + n) - offset
    <3>1. offset + n <= offset + n
      BY <2>1
    <3> QED
      BY <2>1, <3>1, RunType
  <2> QED
    BY <2>1, <2>2 DEF Incoming
<1>4. Overflows(n) => chunk # <<>>
  BY <1>1 DEF Overflows
<1>5. OnsetNow(n) \in Nat /\ SilenceNow(n) \in Nat
  BY DEF OnsetNow, SilenceNow
<1>6. OnsetCount(n, v) \in Nat
  BY <1>5 DEF OnsetCount
<1>7. SilenceCount(n, v) \in Nat /\ SilenceCount(n, v) <= SilenceNow(n) + n
  BY <1>1, <1>5 DEF SilenceCount
<1> QED
  BY <1>1, <1>2, <1>3, <1>4, <1>6, <1>7

(* A push that closes a segment of the samples up to and including its own.*)
LEMMA CloseOnSilenceStep ==
  ASSUME IInv, NEW n \in PushSizes, NEW v \in Verdicts, NEW o \in Outcomes,
         CloseOnSilence(n, v, o)
  PROVE  IInv' /\ OrderlyReport
<1> USE BufferFacts, FieldFacts
<1>1. Accept(n) /\ ~Waiting(n) /\ chunk # <<>> /\ ResetSegment
      /\ segStart' = segStart
      /\ Report(SegmentText(segStart, chunk \o Incoming(n), o))
  BY DEF CloseOnSilence, Waiting
<1>2. /\ n \in Nat /\ n > 0 /\ offset + n \in 0 .. MaxSamples
      /\ offset + n \in Nat
      /\ offset' = offset + n /\ alive' \in BOOLEAN /\ wavOpen' \in BOOLEAN
      /\ \E w \in Nat : written' = w /\ (wavOpen' => w = offset + n)
      /\ Incoming(n) = Run(offset, offset + n)
  BY <1>1, PushFacts
<1>3. /\ chunk \o Incoming(n) = Run(segStart, offset + n)
      /\ segStart < offset + n /\ offset + n <= MaxSamples
  <2>1. /\ segStart < offset + n /\ offset + n <= MaxSamples
        /\ segStart <= offset /\ offset <= offset + n
        /\ segStart \in Nat /\ offset \in Nat /\ offset + n \in Nat
    BY <1>1, <1>2, ConstantFacts
  <2>2. Run(segStart, offset) \o Run(offset, offset + n) = Run(segStart, offset + n)
    BY ONLY <2>1, RunConcat
  <2> QED
    BY <1>1, <1>2, <2>1, <2>2
<1>4. PICK c \in Nat :
        /\ out' \in Results /\ covered' = c /\ c <= offset + n
        /\ IF IsLine(out')
             THEN out'.from = segStart /\ out'.to = offset + n
                  /\ out'.audio = Run(segStart, offset + n)
                  /\ c = offset + n
             ELSE c = covered
  BY <1>1, <1>2, <1>3, ReportStretch
<1>5. OrderlyReport
  BY <1>1, <1>2, <1>3, <1>4 DEF OrderlyReport
<1>6. IInv'
  BY <1>1, <1>2, <1>4, AfterReset
<1> QED
  BY <1>5, <1>6

LEMMA DiscardShortStep ==
  ASSUME IInv, NEW n \in PushSizes, NEW v \in Verdicts, DiscardShort(n, v)
  PROVE  IInv' /\ OrderlyReport
<1> USE BufferFacts, FieldFacts
<1>1. Accept(n) /\ ResetSegment /\ segStart' = offset + n /\ Report(NullText)
  BY DEF DiscardShort
<1>2. /\ n \in Nat /\ offset + n \in 0 .. MaxSamples
      /\ offset' = offset + n /\ alive' \in BOOLEAN /\ wavOpen' \in BOOLEAN
      /\ \E w \in Nat : written' = w /\ (wavOpen' => w = offset + n)
  BY <1>1, PushFacts
<1>3. out' \in Results /\ covered' = covered /\ OrderlyReport
  BY <1>1 DEF Report, NullText, IsLine, Results, OrderlyReport
<1>4. covered <= offset + n
  BY <1>2
<1>5. IInv'
  BY <1>1, <1>2, <1>3, <1>4, AfterReset
<1> QED
  BY <1>3, <1>5

(* A push that leaves a segment open: it holds the samples [a, offset').   *)
LEMMA OpenAfterPush ==
  ASSUME IInv, NEW n \in PushSizes, NEW v \in Verdicts, Accept(n),
         NEW a \in Nat, a <= offset, NEW c \in Nat, c <= a, covered' = c,
         offset + n - a <= ChunkCap,
         chunk' = Run(a, offset + n), preroll' = <<>>, segStart' = a,
         onset' \in Nat,
         NEW s \in Nat, silence' = s, s < EouSilence, s <= offset + n - a,
         out' \in Results
  PROVE  IInv'
<1> DEFINE h == offset + n
<1>1. /\ h \in 0 .. MaxSamples /\ h \in Nat /\ a < h /\ a \in 0 .. MaxSamples
      /\ a <= h /\ h <= MaxSamples /\ MaxSamples \in Nat
      /\ c <= h /\ h - 0 = h /\ h <= h
  <2>1. n \in Nat /\ n > 0 /\ offset + n \in 0 .. MaxSamples
    BY PushFacts
  <2>2. offset \in Nat /\ MaxSamples \in Nat
    BY BufferFacts, ConstantFacts
  <2> QED
    BY <2>1, <2>2
<1>5. chunk' = Run(a, h) /\ h - a <= ChunkCap /\ s <= h - a
  <2>1. chunk' = Run(a, h)
    OBVIOUS
  <2>2. offset \in Nat /\ n \in Nat
    BY BufferFacts, ConstantFacts
  <2>3. h - a <= ChunkCap /\ s <= h - a
    BY <2>2
  <2> QED
    BY <2>1, <2>3
<1>2. /\ offset' = h /\ alive' \in BOOLEAN /\ wavOpen' \in BOOLEAN
      /\ \E w \in Nat : written' = w /\ (wavOpen' => w = h)
  BY PushFacts
<1> HIDE DEF h
<1>3. Run(a, h) \in Positions /\ Len(Run(a, h)) = h - a
  BY <1>1, RunType DEF Positions
<1>4. Run(a, h) # <<>>
  <2>1. h - a # 0
    BY <1>1
  <2> QED
    BY <1>3, <2>1
<1>6. <<>> \in Positions /\ Len(<<>>) = 0
  BY DEF Positions
<1>7. TypeOK'
  BY <1>1, <1>2, <1>3, <1>5, <1>6, ConstantFacts DEF TypeOK
<1>8. BufferedAudioContiguous'
  <2>1. Run(h - Len(<<>>), h) = <<>>
    BY <1>1, <1>6, RunOfNothing
  <2>2. (preroll = Run(offset - Len(preroll), offset))'
    BY <1>2, <2>1
  <2>3. (chunk = Run(segStart, offset) /\ preroll = <<>>)'
    BY <1>2, <1>5
  <2> QED
    BY <2>2, <2>3 DEF BufferedAudioContiguous
<1>9. CountersMatchState'
  BY <1>3, <1>4, <1>5 DEF CountersMatchState
<1>10. WavAligned'
  BY <1>2 DEF WavAligned
<1>11. BufferedAudioUnreported'
  <2>1. c <= h - Len(<<>>)
    BY <1>1, <1>6
  <2>2. (covered <= offset - Len(preroll))' /\ (covered <= segStart)'
    BY <1>2, <2>1
  <2> QED
    BY <2>2 DEF BufferedAudioUnreported
<1> QED
  BY <1>7, <1>8, <1>9, <1>10, <1>11 DEF IInv

LEMMA GrowStep ==
  ASSUME IInv, NEW n \in PushSizes, NEW v \in Verdicts, Grow(n, v)
  PROVE  IInv' /\ OrderlyReport
<1> USE BufferFacts, FieldFacts
<1>1. /\ Accept(n) /\ ~Waiting(n) /\ chunk # <<>> /\ ~Overflows(n)
      /\ SilenceCount(n, v) < EouSilence
      /\ chunk' = chunk \o Incoming(n) /\ preroll' = <<>> /\ segStart' = segStart
      /\ onset' = OnsetCount(n, v) /\ silence' = SilenceCount(n, v)
      /\ Report(NullText)
  BY DEF Grow, Waiting
<1>2. /\ n \in Nat /\ offset + n \in Nat
      /\ Incoming(n) = Run(offset, offset + n)
      /\ OnsetCount(n, v) \in Nat /\ SilenceCount(n, v) \in Nat
      /\ SilenceCount(n, v) <= SilenceNow(n) + n
  BY <1>1, PushFacts
<1>3. chunk' = Run(segStart, offset + n)
  <2>1. /\ segStart <= offset /\ offset <= offset + n
        /\ segStart \in Nat /\ offset \in Nat /\ offset + n \in Nat
    BY <1>1, <1>2
  <2>2. Run(segStart, offset) \o Run(offset, offset + n) = Run(segStart, offset + n)
    BY ONLY <2>1, RunConcat
  <2> QED
    BY <1>1, <1>2, <2>2
<1>4. offset + n - segStart <= ChunkCap
  <2>1. ~(Len(chunk) + n > ChunkCap)
    BY <1>1 DEF Overflows
  <2>2. Len(chunk) = offset - segStart /\ offset \in Nat /\ segStart \in Nat
    BY <1>1
  <2>3. ChunkCap \in Nat /\ n \in Nat
    BY <1>2, ConstantFacts
  <2> QED
    BY ONLY <2>1, <2>2, <2>3
<1>5. SilenceCount(n, v) <= offset + n - segStart
  <2>1. SilenceNow(n) = silence /\ silence <= Len(chunk)
    BY <1>1 DEF SilenceNow, IInv, CountersMatchState
  <2> QED
    BY <1>1, <1>2, <2>1
<1>6. out' \in Results /\ covered' = covered /\ OrderlyReport
  BY <1>1 DEF Report, NullText, IsLine, Results, OrderlyReport
<1>7. IInv'
  <2>1. /\ segStart \in Nat /\ segStart <= offset /\ covered \in Nat
        /\ covered <= segStart
    BY <1>1
  <2> QED
    BY <1>1, <1>2, <1>3, <1>4, <1>5, <1>6, <2>1, OpenAfterPush
<1> QED
  BY <1>6, <1>7

(* The result of the cap, and the preroll it leaves.                       *)
LEMMA CapFacts ==
  ASSUME IInv, NEW n \in PushSizes, NEW v \in Verdicts, NEW o \in Outcomes,
         Accept(n), Waiting(n), Report(CapResult(n, o))
  PROVE  /\ out' \in Results /\ OrderlyReport
         /\ \E c \in Nat, k \in Nat :
              /\ covered' = c /\ c <= offset - k
              /\ k <= offset /\ k <= PrerollMax
              /\ PrerollNow(n) = Run(offset - k, offset)
              /\ Len(PrerollNow(n)) = k
<1> USE BufferFacts, FieldFacts
<1>1. /\ n \in Nat /\ offset' = offset + n /\ (Overflows(n) => chunk # <<>>)
      /\ offset' >= offset /\ offset' \in Nat
  <2>1. n \in Nat /\ offset + n >= offset /\ offset + n \in Nat
    BY PushFacts
  <2>2. offset' = offset + n /\ (Overflows(n) => chunk # <<>>)
    BY PushFacts
  <2> QED
    BY <2>1, <2>2
<1>2. \/ CapResult(n, o) = NullText
      \/ /\ chunk # <<>>
         /\ CapResult(n, o) \in {NullText, EmptyText, SegmentText(segStart, chunk, o)}
  BY <1>1 DEF CapResult
<1>3. /\ out' \in Results /\ OrderlyReport
      /\ covered' \in Nat /\ covered' <= offset
      /\ chunk = <<>> => covered' = covered
  BY <1>1, <1>2, ReportOpenSegment
<1>4. CASE Overflows(n)
  <2>1. PrerollNow(n) = <<>> /\ Len(<<>>) = 0
    BY <1>4 DEF PrerollNow
  <2>2. Run(offset - 0, offset) = <<>> /\ offset - 0 = offset
    BY RunOfNothing
  <2>3. 0 \in Nat /\ 0 <= offset /\ 0 <= PrerollMax
    BY ConstantFacts
  <2>4. PICK c \in Nat : c = covered' /\ c <= offset
    BY <1>3
  <2> QED
    BY <1>3, <2>1, <2>2, <2>3, <2>4
<1>5. CASE ~Overflows(n)
  <2>1. chunk = <<>> /\ PrerollNow(n) = preroll /\ covered' = covered
    BY <1>3, <1>5 DEF Waiting, PrerollNow
  <2> QED
    BY <1>3, <2>1
<1> QED
  BY <1>4, <1>5

LEMMA KeepWaitingStep ==
  ASSUME IInv, NEW n \in PushSizes, NEW v \in Verdicts, NEW o \in Outcomes,
         KeepWaiting(n, v, o)
  PROVE  IInv' /\ OrderlyReport
<1> DEFINE h == offset + n
<1>1. /\ Accept(n) /\ Waiting(n) /\ OnsetCount(n, v) < OnsetFrames
      /\ chunk' = <<>> /\ preroll' = Slide(PrerollNow(n), n)
      /\ onset' = OnsetCount(n, v) /\ silence' = SilenceCount(n, v)
      /\ segStart' = SegStartNow(n)
      /\ Report(CapResult(n, o))
  BY DEF KeepWaiting
<1>2. /\ h \in 0 .. MaxSamples /\ h \in Nat /\ offset' = h
      /\ n \in Nat /\ offset \in Nat /\ PrerollMax \in Nat /\ MaxSamples \in Nat
      /\ alive' \in BOOLEAN /\ wavOpen' \in BOOLEAN
      /\ \E w \in Nat : written' = w /\ (wavOpen' => w = h)
      /\ OnsetCount(n, v) \in Nat /\ SilenceCount(n, v) \in Nat
  BY <1>1, PushFacts, BufferFacts, ConstantFacts
<1>3. SegStartNow(n) \in 0 .. MaxSamples
  BY FieldFacts DEF SegStartNow
<1>4. out' \in Results /\ OrderlyReport
  BY <1>1, CapFacts
<1>5. PICK c \in Nat, k \in Nat :
        /\ covered' = c /\ c <= offset - k
        /\ k <= offset /\ k <= PrerollMax
        /\ PrerollNow(n) = Run(offset - k, offset)
        /\ Len(PrerollNow(n)) = k
  BY <1>1, CapFacts
<1>6. PICK l \in 0 .. PrerollMax :
        /\ l <= k + n
        /\ preroll' = Run(h - l, h)
  BY <1>1, <1>2, <1>5, SlideRun
<1>7. /\ h - l \in Nat /\ h - l <= h /\ h <= MaxSamples /\ c <= h - l
      /\ h - (h - l) = l /\ l <= PrerollMax
  BY <1>2, <1>5, <1>6
<1> HIDE DEF h
<1>9. Run(h - l, h) \in Positions /\ Len(Run(h - l, h)) = l
  BY <1>2, <1>7, RunType DEF Positions
<1>10. Len(<<>>) = 0 /\ <<>> \in Positions
  BY DEF Positions
<1>11. TypeOK'
  BY <1>1, <1>2, <1>3, <1>4, <1>5, <1>7, <1>6, <1>9, <1>10, ConstantFacts
     DEF TypeOK
<1>12. BufferedAudioContiguous'
  <2>1. (chunk = <<>>)' /\ (preroll = Run(offset - Len(preroll), offset))'
    BY <1>1, <1>2, <1>6, <1>9
  <2> QED
    BY <2>1 DEF BufferedAudioContiguous
<1>13. CountersMatchState'
  BY <1>1 DEF CountersMatchState
<1>14. WavAligned'
  BY <1>2 DEF WavAligned
<1>15. BufferedAudioUnreported'
  <2>1. (chunk = <<>>)' /\ (covered <= offset - Len(preroll))'
    BY <1>1, <1>2, <1>5, <1>7, <1>6, <1>9
  <2> QED
    BY <2>1 DEF BufferedAudioUnreported
<1> QED
  BY <1>4, <1>11, <1>12, <1>13, <1>14, <1>15 DEF IInv

LEMMA OpenSegmentStep ==
  ASSUME IInv, NEW n \in PushSizes, NEW v \in Verdicts, NEW o \in Outcomes,
         OpenSegment(n, v, o)
  PROVE  IInv' /\ OrderlyReport
<1>1. /\ Accept(n) /\ Waiting(n)
      /\ chunk' = Lead(n) \o Incoming(n) /\ preroll' = <<>>
      /\ onset' = OnsetCount(n, v) /\ silence' = 0
      /\ segStart' = OpenAt(n)
      /\ Report(CapResult(n, o))
  BY DEF OpenSegment
<1>2. /\ n \in Nat /\ n > 0 /\ n <= ChunkCap /\ offset \in Nat /\ ChunkCap \in Nat
      /\ offset + n \in Nat /\ offset <= offset + n
      /\ Incoming(n) = Run(offset, offset + n)
      /\ OnsetCount(n, v) \in Nat
  BY <1>1, PushFacts, BufferFacts, ConstantFacts
<1>3. out' \in Results /\ OrderlyReport
  BY <1>1, CapFacts
<1>4. PICK c \in Nat, k \in Nat :
        /\ covered' = c /\ c <= offset - k
        /\ k <= offset
        /\ PrerollNow(n) = Run(offset - k, offset)
        /\ Len(PrerollNow(n)) = k
  BY <1>1, CapFacts
<1>5. PICK j \in Nat :
        /\ j <= k /\ j + n <= ChunkCap
        /\ Lead(n) = Run(offset - j, offset) /\ Len(Lead(n)) = j
  <2>1. CASE k + n <= ChunkCap
    BY <2>1, <1>2, <1>4 DEF Lead
  <2>2. CASE k + n > ChunkCap
    <3>1. Lead(n) = <<>> /\ Len(<<>>) = 0
      BY <2>2, <1>4 DEF Lead
    <3>2. Run(offset - 0, offset) = <<>>
      BY <1>2, RunOfNothing
    <3>3. 0 \in Nat /\ 0 <= k /\ 0 + n <= ChunkCap
      BY <1>2
    <3> QED
      BY <3>1, <3>2, <3>3
  <2> QED
    BY <2>1, <2>2, <1>2
<1> DEFINE a == offset - j
<1>6. /\ a \in Nat /\ a <= offset /\ c <= a /\ offset + n - a <= ChunkCap
      /\ OpenAt(n) = a
      /\ 0 < EouSilence /\ 0 \in Nat /\ 0 <= offset + n - a
  BY <1>2, <1>4, <1>5, ConstantFacts DEF OpenAt
<1>7. Lead(n) = Run(a, offset)
  BY <1>5
<1> HIDE DEF a
<1>8. chunk' = Run(a, offset + n)
  <2>1. /\ a \in Nat /\ offset \in Nat /\ offset + n \in Nat
        /\ a <= offset /\ offset <= offset + n
    BY <1>2, <1>6
  <2>2. Run(a, offset) \o Run(offset, offset + n) = Run(a, offset + n)
    BY ONLY <2>1, RunConcat
  <2> QED
    BY <1>1, <1>2, <1>7, <2>2
<1>9. IInv'
  <2>1. segStart' = a /\ onset' \in Nat
    BY <1>1, <1>2, <1>6
  <2> QED
    BY <1>1, <1>3, <1>4, <1>6, <1>8, <2>1, OpenAfterPush
<1> QED
  BY <1>3, <1>9

-----------------------------------------------------------------------------
(* The theorems.  FramesFit is what all callers in the repository ensure.  *)

LEMMA InitIInv == Init => IInv
<1> SUFFICES ASSUME Init
             PROVE  IInv
  OBVIOUS
<1>1. /\ <<>> \in Positions /\ Len(<<>>) = 0 /\ 0 \in 0 .. MaxSamples /\ 0 \in Nat
      /\ NullText \in Results
  BY ConstantFacts DEF Positions, Results, NullText
<1>2. Run(0, 0) = <<>> /\ 0 - 0 = 0
  BY RunOfNothing
<1>3. TypeOK
  <2>1. chunk \in Positions /\ Len(chunk) <= ChunkCap
        /\ preroll \in Positions /\ Len(preroll) <= PrerollMax
    BY <1>1, ConstantFacts DEF Init
  <2>2. /\ alive \in BOOLEAN /\ wavOpen \in BOOLEAN
        /\ {silence, onset, written, covered} \subseteq Nat
        /\ {offset, segStart} \subseteq 0 .. MaxSamples
    BY <1>1 DEF Init
  <2>3. out \in Results
    BY <1>1 DEF Init
  <2> QED
    BY <2>1, <2>2, <2>3 DEF TypeOK
<1>4. BufferedAudioContiguous /\ CountersMatchState /\ WavAligned
      /\ BufferedAudioUnreported
  BY <1>1, <1>2, ConstantFacts DEF Init, BufferedAudioContiguous,
     CountersMatchState, WavAligned, BufferedAudioUnreported
<1> QED
  BY <1>3, <1>4 DEF IInv

(* A push keeps the invariant.                                             *)
LEMMA PushStepIInv ==
  ASSUME IInv, NEW n \in PushSizes, NEW v \in Verdicts, NEW o \in Outcomes,
         Push(n, v, o)
  PROVE  IInv' /\ OrderlyReport /\ offset' = offset + n
<1>1. Accept(n)
  BY DEF Push, KeepWaiting, OpenSegment, Grow, CloseOnSilence, DiscardShort
<1>2. IInv' /\ OrderlyReport
  BY KeepWaitingStep, OpenSegmentStep, GrowStep, CloseOnSilenceStep,
     DiscardShortStep DEF Push
<1> QED
  BY <1>1, <1>2 DEF Accept

(* A step keeps the invariant, and either reports in order or reopens.     *)
LEMMA NextIInv ==
  ASSUME FramesFit, IInv, [Next]_vars
  PROVE  /\ IInv'
         /\ \/ UNCHANGED vars
            \/ OrderlyReport /\ offset' >= offset
            \/ offset' = 0 /\ covered' = 0 /\ ~IsLine(out')
<1>1. CASE StreamInit
  BY <1>1, StreamInitStep
<1>2. ASSUME NEW n \in PushSizes, Oversize(n)
      PROVE  FALSE
  BY <1>2, ConstantFacts DEF FramesFit, Oversize
<1>3. ASSUME NEW n \in PushSizes, NEW v \in Verdicts, NEW o \in Outcomes,
             Push(n, v, o)
      PROVE  IInv' /\ OrderlyReport /\ offset' >= offset
  <2>1. IInv' /\ OrderlyReport /\ offset' = offset + n
    BY <1>3, PushStepIInv
  <2> QED
    BY <2>1, BufferFacts, ConstantFacts
<1>4. ASSUME NEW o \in Outcomes, PushFlush(o) \/ Flush(o)
      PROVE  IInv' /\ OrderlyReport /\ offset' >= offset
  <2>1. offset' >= offset
    BY <1>4, BufferFacts DEF PushFlush, Flush
  <2> QED
    BY <1>4, <2>1, PushFlushStep, FlushStep
<1>5. CASE Close
  <2>1. offset' >= offset
    BY <1>5, BufferFacts DEF Close
  <2> QED
    BY <1>5, <2>1, CloseStep
<1>6. CASE UNCHANGED vars
  BY <1>6 DEF IInv, TypeOK, BufferedAudioContiguous, CountersMatchState,
     WavAligned, BufferedAudioUnreported, vars, buffers, counters, wav
<1> QED
  BY <1>1, <1>2, <1>3, <1>4, <1>5, <1>6 DEF Next

(* Every reachable state satisfies the invariant.                          *)
THEOREM Invariance ==
  ASSUME FramesFit
  PROVE  Spec => []IInv
<1>1. Init => IInv
  BY InitIInv
<1>2. IInv /\ [Next]_vars => IInv'
  BY NextIInv
<1> QED
  BY <1>1, <1>2, PTL DEF Spec

(* chunk_buffer and the preroll always hold the samples their timestamps   *)
(* say they hold: memmove, memcpy and the offset arithmetic agree.         *)
THEOREM Contiguous ==
  ASSUME FramesFit
  PROVE  Spec => []BufferedAudioContiguous
<1>1. IInv => BufferedAudioContiguous
  BY DEF IInv
<1> QED
  BY <1>1, Invariance, PTL

(* silence_samples and vad_onset_count agree with WAITING and IN-SEG.      *)
THEOREM CountersAgree ==
  ASSUME FramesFit
  PROVE  Spec => []CountersMatchState
<1>1. IInv => CountersMatchState
  BY DEF IInv
<1> QED
  BY <1>1, Invariance, PTL

(* Nothing still buffered was reported before: no audio is transcribed     *)
(* twice, whichever of the four ways its segment was closed.               *)
THEOREM NothingReportedTwice ==
  ASSUME FramesFit
  PROVE  Spec => []BufferedAudioUnreported
<1>1. IInv => BufferedAudioUnreported
  BY DEF IInv
<1> QED
  BY <1>1, Invariance, PTL

(* The debug WAV, when there is one, never falls behind the stream.        *)
THEOREM WavComplete ==
  ASSUME FramesFit
  PROVE  Spec => []WavAligned
<1>1. IInv => WavAligned
  BY DEF IInv
<1> QED
  BY <1>1, Invariance, PTL

(* The segmenter implements its promise: lines in order, disjoint, and     *)
(* each about the consecutive samples its timestamps name.                 *)
THEOREM Refinement ==
  ASSUME FramesFit
  PROVE  Spec => ImplementsSegmentedAudio
<1>1. Init => Abstract!Init
  BY DEF Init, Abstract!Init, Abstract!IsLine, NullText
<1>2. IInv /\ [Next]_vars => [Abstract!Next]_(Abstract!vars)
  <2> SUFFICES ASSUME IInv, [Next]_vars
               PROVE  [Abstract!Next]_(Abstract!vars)
    OBVIOUS
  <2>1. CASE UNCHANGED vars
    BY <2>1 DEF vars, Abstract!vars
  <2>2. CASE OrderlyReport /\ offset' >= offset
    <3>1. CASE IsLine(out')
      BY <2>2, <3>1 DEF OrderlyReport, IsLine, Run, Abstract!Next,
         Abstract!Emit, Abstract!IsLine, Abstract!Stretch
    <3>2. CASE ~IsLine(out')
      BY <2>2, <3>2 DEF OrderlyReport, IsLine, Abstract!Next,
         Abstract!Listen, Abstract!IsLine
    <3> QED
      BY <3>1, <3>2
  <2>3. CASE offset' = 0 /\ covered' = 0 /\ ~IsLine(out')
    BY <2>3 DEF IsLine, Abstract!Next, Abstract!Open, Abstract!IsLine
  <2> QED
    BY <2>1, <2>2, <2>3, NextIInv
<1> QED
  BY <1>1, <1>2, Invariance, PTL
     DEF Spec, ImplementsSegmentedAudio, Abstract!Spec

(* The branch that discards a short segment at the end of an utterance is  *)
(* dead whenever the closing silence is longer than the minimum segment.   *)
THEOREM DiscardIsDead ==
  ASSUME FramesFit
  PROVE  Spec => NoShortSegmentOnSilence
<1>1. ASSUME IInv, EouSilence > MinSegment,
             NEW n \in PushSizes, NEW v \in Verdicts, DiscardShort(n, v)
      PROVE  FALSE
  <2>1. /\ Accept(n) /\ chunk # <<>> /\ ~Overflows(n)
        /\ SilenceCount(n, v) >= EouSilence /\ Len(chunk) + n <= MinSegment
    BY <1>1 DEF DiscardShort, Waiting
  <2>2. /\ SilenceCount(n, v) \in Nat /\ SilenceCount(n, v) <= silence + n
        /\ n \in Nat
    <3>1. SilenceNow(n) = silence
      BY <2>1 DEF SilenceNow
    <3> QED
      BY <1>1, <2>1, <3>1, PushFacts
  <2>3. silence \in Nat /\ silence <= Len(chunk) /\ Len(chunk) \in Nat
    BY <1>1, <2>1, FieldFacts, BufferFacts DEF IInv, CountersMatchState
  <2> QED
    BY <1>1, <2>1, <2>2, <2>3, ConstantFacts
<1>2. IInv /\ [Next]_vars
        => [EouSilence > MinSegment =>
              \A n \in PushSizes, v \in Verdicts : ~DiscardShort(n, v)]_vars
  BY <1>1
<1> QED
  BY <1>2, Invariance, PTL DEF Spec, NoShortSegmentOnSilence

(* What is added at the end of an open segment leaves it the beginning of  *)
(* the result.                                                             *)
LEMMA Prefix ==
  ASSUME IInv, chunk # <<>>
  PROVE  /\ Keeps(chunk, chunk)
         /\ \A n \in PushSizes : /\ Keeps(chunk \o Incoming(n), chunk)
                                 /\ chunk \o Incoming(n) # <<>>
<1>1. chunk \in Seq(Nat) /\ Len(chunk) \in Nat /\ Len(chunk) > 0
  <2>1. 0 .. MaxSamples \subseteq Nat /\ chunk \in Seq(0 .. MaxSamples)
    BY ConstantFacts DEF IInv, TypeOK, Positions
  <2>2. chunk \in Seq(Nat)
    BY <2>1, SeqMonotonic
  <2> QED
    BY <2>2
<1>2. Keeps(chunk, chunk)
  BY <1>1 DEF Keeps
<1>3. ASSUME NEW n \in PushSizes
      PROVE  Keeps(chunk \o Incoming(n), chunk) /\ chunk \o Incoming(n) # <<>>
  <2>1. offset \in Nat /\ n \in Nat /\ offset <= offset + n /\ offset + n \in Nat
    BY BufferFacts, ConstantFacts
  <2>2. Incoming(n) \in Seq(0 .. offset + n)
    BY <2>1, RunType DEF Incoming
  <2>3. Incoming(n) \in Seq(Nat)
    BY <2>1, <2>2, SeqMonotonic
  <2> HIDE DEF Incoming
  <2>4. ASSUME NEW s \in Seq(Nat), NEW u \in Seq(Nat), s # <<>>
        PROVE  /\ Len(s \o u) >= Len(s) /\ SubSeq(s \o u, 1, Len(s)) = s
               /\ s \o u # <<>>
    BY <2>4
  <2> QED
    BY <1>1, <2>3, <2>4 DEF Keeps
<1> QED
  BY <1>2, <1>3

(* A closed stream has nothing buffered.                                   *)
ClosedEmpty == ~alive => chunk = <<>>
LEMMA ClosedIsEmpty == Spec => []ClosedEmpty
<1>1. Init => ClosedEmpty
  BY DEF Init, ClosedEmpty
<1>2. ClosedEmpty /\ [Next]_vars => ClosedEmpty'
  BY DEF ClosedEmpty, Next, vars, StreamInit, Oversize, Push, KeepWaiting,
     OpenSegment, Grow, CloseOnSilence, DiscardShort, Accept, PushFlush,
     Flush, Close, ResetSegment, buffers
<1> QED
  BY <1>1, <1>2, PTL DEF Spec

(* A frame the VAD has no opinion of leaves the two counters as they are,  *)
(* and the invariant says they are on the right side of their thresholds:  *)
(* so it neither opens a segment nor closes one.                           *)
THEOREM UnknownIsNeutral ==
  ASSUME FramesFit
  PROVE  Spec => UnknownFrameIsNeutral
<1>1. ASSUME IInv, NEW n \in PushSizes, NEW o \in Outcomes,
             Push(n, "failed", o), ~Overflows(n)
      PROVE  (chunk' = <<>>) = (chunk = <<>>)
  <2>1. /\ OnsetCount(n, "failed") = onset
        /\ SilenceCount(n, "failed") = silence
    BY <1>1 DEF OnsetCount, SilenceCount, Judged, OnsetNow, SilenceNow
  <2>2. /\ chunk = <<>> => onset < OnsetFrames
        /\ chunk # <<>> => silence < EouSilence
    BY <1>1 DEF IInv, CountersMatchState
  <2>3. CASE chunk = <<>>
    <3>1. onset \in Nat /\ OnsetFrames \in Nat
      BY <1>1, FieldFacts, ConstantFacts
    <3>2. ~OpenSegment(n, "failed", o)
      BY <2>1, <2>2, <2>3, <3>1 DEF OpenSegment
    <3>3. KeepWaiting(n, "failed", o)
      BY <1>1, <2>3, <3>2 DEF Push, Grow, CloseOnSilence, DiscardShort, Waiting
    <3> QED
      BY <2>3, <3>3 DEF KeepWaiting
  <2>4. CASE chunk # <<>>
    <3>1. silence \in Nat /\ EouSilence \in Nat
      BY <1>1, FieldFacts, ConstantFacts
    <3>2. ~CloseOnSilence(n, "failed", o) /\ ~DiscardShort(n, "failed")
      BY <2>1, <2>2, <2>4, <3>1 DEF CloseOnSilence, DiscardShort
    <3>3. Grow(n, "failed")
      BY <1>1, <2>4, <3>2 DEF Push, KeepWaiting, OpenSegment, Waiting
    <3>4. chunk \o Incoming(n) # <<>>
      BY <1>1, <2>4, Prefix
    <3> QED
      BY <2>4, <3>3, <3>4 DEF Grow
  <2> QED
    BY <2>3, <2>4
<1>2. IInv /\ [Next]_vars
        => [\A n \in PushSizes, o \in Outcomes :
              Push(n, "failed", o) /\ ~Overflows(n) =>
                (chunk' = <<>>) = (chunk = <<>>)]_vars
  BY <1>1
<1> QED
  BY <1>2, Invariance, PTL DEF Spec, UnknownFrameIsNeutral

(* Where memory does not run out, audio long enough to be decoded is never *)
(* forgotten while the stream is open: each way of clearing the buffer has *)
(* the whole of it in the line it returns.                                 *)
THEOREM NothingLostSilently ==
  ASSUME FramesFit, MemoryFails = FALSE
  PROVE  Spec => NoSilentLoss
<1>1. ASSUME IInv, ClosedEmpty, Next, alive', Len(chunk) > MinSegment
      PROVE  Keeps(chunk', chunk) \/ (IsLine(out') /\ Keeps(out'.audio, chunk))
  <2> DEFINE Goal == Keeps(chunk', chunk)
                       \/ (IsLine(out') /\ Keeps(out'.audio, chunk))
  <2>1. /\ chunk # <<>> /\ Keeps(chunk, chunk)
        /\ \A n \in PushSizes : Keeps(chunk \o Incoming(n), chunk)
    <3>1. chunk # <<>>
      BY <1>1, ConstantFacts
    <3> QED
      BY <1>1, <3>1, Prefix
  <2>2. ASSUME NEW o \in Outcomes, NEW pcm, Keeps(pcm, chunk),
               Report(SegmentText(segStart, pcm, o))
        PROVE  Goal
    BY <2>2, MemoryFails = FALSE
       DEF Outcomes, Report, SegmentText, Line, IsLine
  <2>3. CASE StreamInit
    BY <1>1, <2>1, <2>3 DEF StreamInit, ClosedEmpty
  <2>4. CASE \E n \in PushSizes : Oversize(n)
    BY <2>1, <2>4 DEF Oversize, buffers
  <2>5. ASSUME NEW n \in PushSizes, NEW v \in Verdicts, NEW o \in Outcomes,
               Push(n, v, o)
        PROVE  Goal
    <3>1. CASE Waiting(n) /\ Report(CapResult(n, o))
      <4>1. Overflows(n)
        BY <2>1, <3>1 DEF Waiting
      <4>2. Report(SegmentText(segStart, chunk, o))
        BY <1>1, <3>1, <4>1 DEF CapResult
      <4> QED
        BY <2>1, <2>2, <4>2
    <3>2. CASE Grow(n, v)
      BY <2>1, <3>2 DEF Grow
    <3>3. CASE CloseOnSilence(n, v, o)
      BY <2>1, <2>2, <3>3 DEF CloseOnSilence
    <3>4. CASE DiscardShort(n, v)
      <4>1. n \in Nat /\ Len(chunk) \in Nat /\ MinSegment \in Nat
        BY <1>1, BufferFacts, ConstantFacts
      <4> QED
        BY <1>1, <3>4, <4>1 DEF DiscardShort
    <3> QED
      BY <2>5, <3>1, <3>2, <3>3, <3>4 DEF Push, KeepWaiting, OpenSegment
  <2>6. ASSUME NEW o \in Outcomes, PushFlush(o)
        PROVE  Goal
    BY <2>1, <2>2, <2>6 DEF PushFlush
  <2>7. ASSUME NEW o \in Outcomes, Flush(o)
        PROVE  Goal
    <3>1. SegmentText(segStart, chunk, o) # EmptyText
      BY MemoryFails = FALSE DEF Outcomes, SegmentText, Line, EmptyText
    <3> QED
      BY <1>1, <2>1, <2>2, <2>7, <3>1 DEF Flush
  <2>8. CASE Close
    BY <1>1, <2>8 DEF Close
  <2> QED
    BY <1>1, <2>3, <2>4, <2>5, <2>6, <2>7, <2>8 DEF Next
<1>2. IInv /\ ClosedEmpty /\ [Next]_vars
        => [alive' /\ Len(chunk) > MinSegment =>
              Keeps(chunk', chunk)
                \/ (IsLine(out') /\ Keeps(out'.audio, chunk))]_vars
  BY <1>1
<1> QED
  BY <1>2, Invariance, ClosedIsEmpty, PTL DEF Spec, NoSilentLoss

-----------------------------------------------------------------------------
(* Whoever drives the segmenter: which audio a push or a flush makes a     *)
(* line of, and where a segment it leaves open begins.                     *)

LEMMA PushSegment ==
  ASSUME IInv, NEW n \in PushSizes, NEW v \in Verdicts, NEW o \in Outcomes,
         Push(n, v, o)
  PROVE  /\ IInv' /\ OrderlyReport /\ offset' = offset + n /\ alive /\ alive'
         /\ IsLine(out') => chunk # <<>> /\ out'.from = segStart
         /\ chunk' # <<>> => \/ chunk # <<>> /\ segStart' = segStart
                             \/ segStart' + PrerollMax >= offset
<1>1. IInv' /\ OrderlyReport /\ offset' = offset + n
  BY PushStepIInv
<1>2. alive /\ alive'
  BY DEF Push, KeepWaiting, OpenSegment, Grow, CloseOnSilence, DiscardShort, Accept
<1>3. ASSUME IsLine(out') PROVE chunk # <<>> /\ out'.from = segStart
  <2>1. ~IsLine(NullText) /\ ~IsLine(EmptyText)
    BY DEF IsLine, NullText, EmptyText
  <2>2. \A pcm : IsLine(SegmentText(segStart, pcm, o))
                 => SegmentText(segStart, pcm, o).from = segStart
    BY <2>1 DEF SegmentText, Line
  <2>3. CASE KeepWaiting(n, v, o) \/ OpenSegment(n, v, o)
    <3>1. out' = CapResult(n, o)
      BY <2>3 DEF KeepWaiting, OpenSegment, Report
    <3>2. Len(chunk) > MinSegment /\ out' = SegmentText(segStart, chunk, o)
      BY <1>3, <2>1, <3>1 DEF CapResult
    <3>3. chunk # <<>>
      BY <3>2, ConstantFacts
    <3> QED
      BY <1>3, <2>2, <3>2, <3>3
  <2>4. CASE Grow(n, v) \/ DiscardShort(n, v)
    BY <1>3, <2>1, <2>4 DEF Grow, DiscardShort, Report
  <2>5. CASE CloseOnSilence(n, v, o)
    BY <1>3, <2>2, <2>5 DEF CloseOnSilence, Waiting, Report
  <2> QED
    BY <2>3, <2>4, <2>5 DEF Push
<1>4. ASSUME chunk' # <<>>
      PROVE  \/ chunk # <<>> /\ segStart' = segStart
             \/ segStart' + PrerollMax >= offset
  <2>1. CASE OpenSegment(n, v, o)
    <3>1. PrerollNow(n) \in Positions /\ Len(PrerollNow(n)) <= PrerollMax
      <4>1. /\ preroll \in Positions /\ Len(preroll) <= PrerollMax
            /\ <<>> \in Positions /\ Len(<<>>) = 0 /\ 0 <= PrerollMax
        BY ConstantFacts DEF IInv, TypeOK, Positions
      <4> QED
        BY <4>1 DEF PrerollNow
    <3>2. Len(Lead(n)) \in Nat /\ Len(Lead(n)) <= PrerollMax
      BY <3>1, ConstantFacts DEF Lead, Positions
    <3>3. segStart' = OpenAt(n) /\ offset \in Nat
      BY <2>1, BufferFacts DEF OpenSegment
    <3> HIDE DEF Lead
    <3> QED
      BY <3>2, <3>3, ConstantFacts DEF OpenAt
  <2>2. CASE Grow(n, v)
    BY <2>2 DEF Grow, Waiting
  <2>3. CASE KeepWaiting(n, v, o) \/ CloseOnSilence(n, v, o) \/ DiscardShort(n, v)
    BY <1>4, <2>3 DEF KeepWaiting, CloseOnSilence, DiscardShort, ResetSegment
  <2> QED
    BY <2>1, <2>2, <2>3 DEF Push
<1> QED
  BY <1>1, <1>2, <1>3, <1>4

LEMMA FlushSegment ==
  ASSUME IInv, NEW o \in Outcomes, Flush(o)
  PROVE  /\ IInv' /\ OrderlyReport /\ chunk' = <<>>
         /\ UNCHANGED <<alive, offset>>
         /\ IsLine(out') => chunk # <<>> /\ out'.from = segStart
<1>1. IInv' /\ OrderlyReport
  BY FlushStep
<1>2. chunk' = <<>> /\ UNCHANGED <<alive, offset>>
  BY DEF Flush, ResetSegment, buffers
<1>3. ASSUME IsLine(out') PROVE chunk # <<>> /\ out'.from = segStart
  <2>1. ~IsLine(NullText) /\ ~IsLine(EmptyText)
    BY DEF IsLine, NullText, EmptyText
  <2>2. Len(chunk) > MinSegment /\ out' = SegmentText(segStart, chunk, o)
    BY <1>3, <2>1 DEF Flush, Report
  <2>3. chunk # <<>>
    BY <2>2, ConstantFacts
  <2>4. out'.from = segStart
    BY <1>3, <2>1, <2>2 DEF SegmentText, Line
  <2> QED
    BY <2>3, <2>4
<1> QED
  BY <1>1, <1>2, <1>3

-----------------------------------------------------------------------------
(* Types alone, for pushes of any size: what the buffers hold need not be  *)
(* known for that.                                                         *)

LEMMA PositionsJoined ==
  ASSUME NEW p \in Positions, NEW q \in Positions
  PROVE  p \o q \in Positions /\ Len(p \o q) = Len(p) + Len(q)
BY ConcatProperties DEF Positions

LEMMA PushTypes ==
  ASSUME TypeOK, NEW n \in PushSizes, NEW v \in Verdicts, Accept(n)
  PROVE  /\ n \in Nat /\ n > 0 /\ n <= ChunkCap
         /\ alive' \in BOOLEAN /\ wavOpen' \in BOOLEAN /\ written' \in Nat
         /\ offset \in Nat /\ segStart \in 0 .. MaxSamples
         /\ offset + n \in Nat /\ offset + n <= MaxSamples /\ offset' \in 0 .. MaxSamples
         /\ Incoming(n) \in Positions /\ Len(Incoming(n)) = n
         /\ OnsetCount(n, v) \in Nat /\ SilenceCount(n, v) \in Nat
         /\ PrerollNow(n) \in Positions /\ Len(PrerollNow(n)) <= PrerollMax
         /\ Lead(n) \in Positions /\ Len(Lead(n)) + n <= ChunkCap
<1>1. /\ n \in Nat /\ n > 0 /\ n <= ChunkCap /\ offset \in Nat /\ written \in Nat
      /\ offset + n <= MaxSamples /\ offset' = offset + n
      /\ silence \in Nat /\ onset \in Nat /\ segStart \in 0 .. MaxSamples
      /\ MaxSamples \in Nat /\ ChunkCap \in Nat /\ PrerollMax \in Nat
  BY ConstantFacts DEF TypeOK, Accept
<1>2. alive' \in BOOLEAN /\ wavOpen' \in BOOLEAN /\ written' \in Nat
  BY <1>1 DEF TypeOK, Accept
<1>3. Incoming(n) \in Positions /\ Len(Incoming(n)) = n
  <2>1. /\ offset \in Nat /\ offset + n \in Nat /\ offset <= offset + n
        /\ MaxSamples \in Nat /\ (offset + n) - offset = n
    BY <1>1
  <2> QED
    BY <1>1, <2>1, RunType DEF Incoming, Positions
<1>4. OnsetNow(n) \in Nat /\ SilenceNow(n) \in Nat
  BY <1>1 DEF OnsetNow, SilenceNow
<1>5. OnsetCount(n, v) \in Nat /\ SilenceCount(n, v) \in Nat
  BY <1>1, <1>4 DEF OnsetCount, SilenceCount
<1>6. <<>> \in Positions /\ Len(<<>>) = 0
  BY DEF Positions
<1>7. PrerollNow(n) \in Positions /\ Len(PrerollNow(n)) <= PrerollMax
  BY <1>1, <1>6 DEF PrerollNow, TypeOK
<1>8. Lead(n) \in Positions /\ Len(Lead(n)) + n <= ChunkCap
  <2>1. Len(PrerollNow(n)) \in Nat
    BY <1>7 DEF Positions
  <2> QED
    BY <1>1, <1>6, <1>7, <2>1 DEF Lead
<1> QED
  BY <1>1, <1>2, <1>3, <1>5, <1>7, <1>8

(* The preroll ring never has more than it has room for.                   *)
LEMMA SlideType ==
  ASSUME NEW ring \in Positions, Len(ring) <= PrerollMax, NEW n \in PushSizes,
         Incoming(n) \in Positions, Len(Incoming(n)) = n
  PROVE  Slide(ring, n) \in Positions /\ Len(Slide(ring, n)) <= PrerollMax
<1> DEFINE keep == IF n > PrerollMax THEN PrerollMax ELSE n
           shift == Len(ring) + keep - PrerollMax
           from == IF shift > 0 THEN shift + 1 ELSE 1
           old == SubSeq(ring, from, Len(ring))
           new == SubSeq(Incoming(n), n - keep + 1, n)
<1>1. /\ n \in Nat /\ PrerollMax \in Nat /\ Len(ring) \in Nat
      /\ keep \in Nat /\ keep <= n /\ keep <= PrerollMax
      /\ from \in Nat /\ from >= 1 /\ n - keep + 1 \in Nat /\ n - keep + 1 >= 1
      /\ n - (n - keep + 1) + 1 = keep
      /\ from <= Len(ring) => Len(ring) - from + 1 + keep <= PrerollMax
  <2>1. n \in Nat /\ PrerollMax \in Nat /\ Len(ring) \in Nat
    BY ConstantFacts, LenProperties DEF Positions
  <2>2. keep \in Nat /\ keep <= n /\ keep <= PrerollMax
    BY <2>1
  <2> HIDE DEF keep
  <2>3. /\ from \in Nat /\ from >= 1
        /\ from <= Len(ring) => Len(ring) - from + 1 + keep <= PrerollMax
    BY <2>1, <2>2
  <2> QED
    BY <2>1, <2>2, <2>3
<1>2. /\ old \in Positions
      /\ Len(old) = IF from <= Len(ring) THEN Len(ring) - from + 1 ELSE 0
  <2>1. \A i \in from .. Len(ring) : ring[i] \in 0 .. MaxSamples
    <3>1. \A i \in from .. Len(ring) : i \in 1 .. Len(ring)
      BY <1>1
    <3> HIDE DEF from
    <3> QED
      BY <3>1, ElementOfSeq DEF Positions
  <2>2. from \in Int /\ Len(ring) \in Int
    BY <1>1
  <2> HIDE DEF from
  <2> QED
    BY <2>1, <2>2, SubSeqProperties DEF Positions
<1>3. /\ new \in Positions
      /\ Len(new) = IF n - keep + 1 <= n THEN n - (n - keep + 1) + 1 ELSE 0
  <2> PICK a \in Nat : a = n - keep + 1
    BY <1>1
  <2>1. \A i \in a .. n : Incoming(n)[i] \in 0 .. MaxSamples
    <3>1. \A i \in a .. n : i \in 1 .. n
      BY <1>1
    <3> QED
      BY <3>1, ElementOfSeq DEF Positions
  <2>2. a \in Int /\ n \in Int
    BY <1>1
  <2>3. /\ SubSeq(Incoming(n), a, n) \in Positions
        /\ Len(SubSeq(Incoming(n), a, n)) = IF a <= n THEN n - a + 1 ELSE 0
    BY <2>1, <2>2, SubSeqProperties DEF Positions
  <2> QED
    BY <2>3
<1>4. Slide(ring, n) = old \o new
  BY DEF Slide
<1> HIDE DEF old, new
<1>5. old \o new \in Positions /\ Len(old \o new) = Len(old) + Len(new)
  BY <1>2, <1>3, PositionsJoined
<1>6. Len(new) <= keep /\ Len(new) \in Nat
  BY <1>1, <1>3
<1> QED
  BY <1>1, <1>2, <1>4, <1>5, <1>6

(* Whatever a call reports is a result.                                    *)
LEMMA ReportTypes ==
  ASSUME TypeOK, NEW pcm \in Positions, NEW o \in Outcomes,
         NEW r \in {NullText, EmptyText, SegmentText(segStart, pcm, o)}, Report(r)
  PROVE  out' \in Results /\ covered' \in Nat
<1>1. segStart \in 0 .. MaxSamples /\ segStart \in Nat /\ Len(pcm) \in Nat /\ covered \in Nat
  BY ConstantFacts DEF TypeOK, Positions
<1>2. CASE r = NullText \/ r = EmptyText
  BY <1>1, <1>2 DEF Report, NullText, EmptyText, IsLine, Results
<1>3. CASE r = Line(segStart, pcm, o)
  <2>1. r = [kind |-> "line", from |-> segStart, to |-> segStart + Len(pcm),
             audio |-> pcm, decoded |-> o = "text"]
    BY <1>3 DEF Line
  <2>2. segStart + Len(pcm) \in Nat /\ (o = "text") \in BOOLEAN
    BY <1>1
  <2>3. r \in Results
    BY <1>1, <2>1, <2>2 DEF Results
  <2> QED
    BY <2>1, <2>2, <2>3 DEF Report, IsLine
<1> QED
  BY <1>2, <1>3 DEF SegmentText

LEMMA TypePush ==
  ASSUME TypeOK, NEW n \in PushSizes, NEW v \in Verdicts, NEW o \in Outcomes, Push(n, v, o)
  PROVE  TypeOK'
<1>0. Accept(n)
  BY DEF Push, KeepWaiting, OpenSegment, Grow, CloseOnSilence, DiscardShort
<1> USE <1>0, PushTypes
<1>1. /\ chunk \in Positions /\ Len(chunk) <= ChunkCap /\ Len(chunk) \in Nat
      /\ preroll \in Positions /\ Len(preroll) <= PrerollMax
      /\ <<>> \in Positions /\ Len(<<>>) = 0
      /\ ChunkCap \in Nat /\ PrerollMax \in Nat /\ MaxSamples \in Nat
  BY ConstantFacts DEF TypeOK, Positions
<1>2. /\ alive' \in BOOLEAN /\ wavOpen' \in BOOLEAN /\ written' \in Nat
      /\ offset' \in 0 .. MaxSamples
  OBVIOUS
<1>3. /\ chunk \o Incoming(n) \in Positions
      /\ Len(chunk \o Incoming(n)) = Len(chunk) + n
      /\ Lead(n) \o Incoming(n) \in Positions
      /\ Len(Lead(n) \o Incoming(n)) <= ChunkCap
  <2>1. /\ Incoming(n) \in Positions /\ Len(Incoming(n)) = n
        /\ Lead(n) \in Positions /\ Len(Lead(n)) + n <= ChunkCap
    OBVIOUS
  <2> QED
    BY ONLY <1>1, <2>1, PositionsJoined
<1>4. out' \in Results /\ covered' \in Nat
  <2>1. CapResult(n, o) \in {NullText, EmptyText, SegmentText(segStart, chunk, o)}
    BY DEF CapResult
  <2>2. CASE Report(CapResult(n, o))
    BY <1>1, <2>1, <2>2, ReportTypes
  <2>3. CASE Report(NullText)
    BY <1>1, <2>3, ReportTypes
  <2>4. CASE Report(SegmentText(segStart, chunk \o Incoming(n), o))
    BY <1>3, <2>4, ReportTypes
  <2> QED
    BY <2>2, <2>3, <2>4
    DEF Push, KeepWaiting, OpenSegment, Grow, CloseOnSilence, DiscardShort
<1>5. chunk' \in Positions /\ Len(chunk') <= ChunkCap
  <2>1. ~Waiting(n) => Len(chunk) + n <= ChunkCap
    <3>1. n \in Nat
      OBVIOUS
    <3> QED
      BY ONLY <1>1, <3>1 DEF Waiting, Overflows
  <2>2. \/ chunk' = <<>>
        \/ chunk' = Lead(n) \o Incoming(n)
        \/ ~Waiting(n) /\ chunk' = chunk \o Incoming(n)
    BY DEF Push, KeepWaiting, OpenSegment, Grow, CloseOnSilence, DiscardShort,
       ResetSegment
  <2>3. CASE chunk' = <<>>
    BY ONLY <1>1, <2>3
  <2>4. CASE chunk' = Lead(n) \o Incoming(n)
    BY ONLY <1>3, <2>4
  <2>5. CASE ~Waiting(n) /\ chunk' = chunk \o Incoming(n)
    <3>1. Len(chunk) + n <= ChunkCap
      BY ONLY <2>1, <2>5
    <3>2. Len(chunk') = Len(chunk) + n /\ chunk' \in Positions
      BY ONLY <1>3, <2>5
    <3> QED
      BY ONLY <3>1, <3>2
  <2> QED
    BY ONLY <2>2, <2>3, <2>4, <2>5
<1>6. preroll' \in Positions /\ Len(preroll') <= PrerollMax
  <2>1. Slide(PrerollNow(n), n) \in Positions /\ Len(Slide(PrerollNow(n), n)) <= PrerollMax
    BY SlideType
  <2> QED
    BY <1>1, <2>1
    DEF Push, KeepWaiting, OpenSegment, Grow, CloseOnSilence, DiscardShort, ResetSegment
<1>7. silence' \in Nat /\ onset' \in Nat
  BY DEF Push, KeepWaiting, OpenSegment, Grow, CloseOnSilence, DiscardShort, ResetSegment
<1>8. segStart' \in 0 .. MaxSamples
  <2>1. SegStartNow(n) \in 0 .. MaxSamples /\ offset + n \in 0 .. MaxSamples
    BY <1>1 DEF SegStartNow
  <2>2. OpenAt(n) \in 0 .. MaxSamples
    <3>1. Len(Lead(n)) \in Nat
      BY DEF Positions
    <3> HIDE DEF Lead
    <3> QED
      BY <1>1, <3>1 DEF OpenAt
  <2> QED
    BY <2>1, <2>2 DEF Push, KeepWaiting, OpenSegment, Grow, CloseOnSilence, DiscardShort
<1> QED
  BY <1>2, <1>4, <1>5, <1>6, <1>7, <1>8 DEF TypeOK

LEMMA TypeStep == TypeOK /\ [Next]_vars => TypeOK'
<1> SUFFICES ASSUME TypeOK, [Next]_vars PROVE TypeOK'
  OBVIOUS
<1>1. /\ <<>> \in Positions /\ Len(<<>>) = 0 /\ 0 \in Nat /\ 0 \in 0 .. MaxSamples
      /\ 0 <= ChunkCap /\ 0 <= PrerollMax /\ chunk \in Positions
      /\ NullText \in Results
  BY ConstantFacts DEF Positions, TypeOK, NullText, Results
<1>2. CASE StreamInit
  BY <1>1, <1>2 DEF StreamInit, ResetSegment, TypeOK
<1>3. ASSUME NEW n \in PushSizes, Oversize(n) PROVE TypeOK'
  <2>1. out' \in Results /\ covered' \in Nat
    BY <1>1, <1>3 DEF Oversize, Report, IsLine, NullText, TypeOK
  <2>2. offset' \in 0 .. MaxSamples
    BY <1>3, ConstantFacts DEF Oversize, TypeOK
  <2> QED
    BY <1>3, <2>1, <2>2 DEF Oversize, TypeOK, buffers, counters, wav
<1>4. ASSUME NEW o \in Outcomes, PushFlush(o) \/ Flush(o) PROVE TypeOK'
  <2>1. out' \in Results /\ covered' \in Nat
    <3>1. PICK r \in {NullText, EmptyText, SegmentText(segStart, chunk, o)} : Report(r)
      BY <1>4 DEF PushFlush, Flush
    <3> QED
      BY <1>1, <3>1, ReportTypes
  <2> QED
    BY <1>1, <1>4, <2>1
    DEF PushFlush, Flush, ResetSegment, TypeOK, buffers, counters, wav
<1>5. CASE Close
  BY <1>1, <1>5 DEF Close, ResetSegment, Report, IsLine, NullText, TypeOK, wav
<1>6. CASE UNCHANGED vars
  BY <1>6 DEF TypeOK, vars
<1> QED
  BY <1>2, <1>3, <1>4, <1>5, <1>6, TypePush DEF Next

(* No buffer of the stream is ever written past its end, and every field   *)
(* keeps its type, for pushes and buffers of any size.                     *)
THEOREM TypeCorrect == Spec => []TypeOK
<1>1. Init => TypeOK
  BY InitIInv DEF IInv
<1> QED
  BY <1>1, TypeStep, PTL DEF Spec
=============================================================================
