--------------------------- MODULE TranscribeProofs ---------------------------
(***************************************************************************)
(* Proofs about Transcribe, for files of any number of chunks of any size, *)
(* any frame, any first buffer and lines of any length.                    *)
(***************************************************************************)
EXTENDS Transcribe, SequenceTheorems, TLAPS

(* The walk stays in the file, and stops at the data it found; whoever got *)
(* as far as reading has found some.                                       *)
WalkInv ==
  /\ at \in 1 .. Len(file.chunks) + 1
  /\ dataSize > 0 => at <= Len(file.chunks) /\ dataSize = Chunk.size
  /\ pc \in {"open", "header", "walk"} => dataSize = 0
  /\ pc \in {"allocate", "read", "ended", "flush"} => dataSize > 0
  /\ result = "transcript" => dataSize > 0 /\ pc = "done"

(* total_data_bytes counts what was read, twice over, until a frame was    *)
(* padded with zeros: then everything there is has been read.              *)
Before == {"open", "header", "walk", "check", "allocate"}
AllHeard == heard = Least(dataSize, Behind) \div 2
AudioInv ==
  /\ pc \in Before => counted = 0 /\ heard = 0
  /\ 2 * heard <= counted /\ 2 * heard <= dataSize
  /\ dataSize > 0 => heard <= Behind \div 2
  /\ pc = "read" => counted = 2 * heard \/ AllHeard
  /\ (pc \in {"ended", "flush"} \/ result = "transcript") /\ ~starved =>
       AllHeard

(* The transcript is empty until it has memory, and has it while the       *)
(* stream answers.                                                         *)
BufferInv ==
  /\ pc \in Before => len = 0
  /\ pc \in {"read", "ended", "flush"} /\ ~starved => room > 0
  /\ TranscriptFits

(* What is obtained and not given back, at each place of the call.         *)
FileIsOpen == {"header", "walk", "check", "allocate", "read", "ended"}
StreamIsOpen == {"allocate", "read", "ended", "flush"}
HasTranscript == pc \in {"read", "ended", "flush"} \/ result = "transcript"
OwnedInv ==
  /\ owned["file"] = IF pc \in FileIsOpen THEN 1 ELSE 0
  /\ owned["stream"] = IF pc \in StreamIsOpen THEN 1 ELSE 0
  /\ owned["transcript"] = IF HasTranscript THEN 1 ELSE 0

TInv == TypeOK /\ WalkInv /\ AudioInv /\ BufferInv /\ OwnedInv

-----------------------------------------------------------------------------
(* A file is a finite sequence of chunks, each of a size.                  *)
LEMMA FileFacts ==
  ASSUME file \in Files
  PROVE  /\ Len(file.chunks) \in 0 .. MaxChunks
         /\ \A i \in 1 .. Len(file.chunks) : file.chunks[i] \in Chunks
<1>1. file.chunks \in UNION {[1 .. k -> Chunks] : k \in 0 .. MaxChunks}
  <2>1. file \in [chunks : UNION {[1 .. k -> Chunks] : k \in 0 .. MaxChunks},
                  cut : BOOLEAN, header : Headers]
    BY DEF Files
  <2> QED
    BY <2>1
<1>2. PICK k \in 0 .. MaxChunks : file.chunks \in [1 .. k -> Chunks]
  BY <1>1
<1>3. k \in Nat /\ k <= MaxChunks
  BY <1>2, TranscribeAssumption
<1>4. file.chunks \in Seq(Chunks) /\ Len(file.chunks) = k
  BY <1>2, <1>3, SeqDef
<1> QED
  BY <1>2, <1>3, <1>4, TranscribeAssumption

LEMMA SizesAreNat == \A c \in Chunks : c.size \in Nat
<1> SUFFICES ASSUME NEW c \in Chunks PROVE c.size \in Nat
  OBVIOUS
<1>1. CASE c \in [id : {"fmt"}, size : FormatSizes, supported : BOOLEAN]
  BY <1>1, TranscribeAssumption
<1>2. CASE c \in [id : {"data"}, size : DataSizes]
  BY <1>2, TranscribeAssumption
<1>3. CASE c \in [id : {"other"}, size : OtherSizes]
  BY <1>3, TranscribeAssumption
<1> QED
  BY <1>1, <1>2, <1>3 DEF Chunks

LEMMA BehindIsNat ==
  ASSUME file \in Files, at \in 1 .. Len(file.chunks)
  PROVE  Behind \in Nat /\ Chunk.size \in Nat
<1>1. Chunk.size \in Nat
  BY FileFacts, SizesAreNat DEF Chunk
<1>2. CASE at < Len(file.chunks)
  <2>1. at + 1 \in 1 .. Len(file.chunks)
    BY <1>2, FileFacts, TranscribeAssumption
  <2>2. file.chunks[at + 1].size \in Nat
    BY <2>1, FileFacts, SizesAreNat
  <2> QED
    BY <1>1, <1>2, <2>2 DEF Behind
<1>3. CASE ~(at < Len(file.chunks))
  BY <1>1, <1>3 DEF Behind
<1> QED
  BY <1>1, <1>2, <1>3

(* What a frame adds to what was heard, and what it means to find no more. *)
LEMMA FrameFacts ==
  ASSUME TInv, pc = "read"
  PROVE  /\ Behind \in Nat /\ SamplesRead \in Int
         /\ dataSize \in Nat /\ counted \in Nat /\ heard \in Nat
         /\ ~MoreToRead => AllHeard
         /\ MoreToRead =>
              LET more == heard + SamplesRead
              IN  /\ more \in Nat /\ 2 * more <= counted + 2 * Frame
                  /\ 2 * more <= dataSize /\ more <= Behind \div 2
                  /\ \/ counted + 2 * Frame = 2 * more
                     \/ more = Least(dataSize, Behind) \div 2
<1>1. Behind \in Nat /\ dataSize \in Nat /\ counted \in Nat /\ heard \in Nat
  BY BehindIsNat, FileFacts DEF TInv, TypeOK, WalkInv
<1>2. /\ 2 * heard <= counted /\ 2 * heard <= dataSize
      /\ heard <= Behind \div 2
      /\ counted = 2 * heard \/ AllHeard
  BY DEF TInv, WalkInv, AudioInv
<1>3. Frame \in Nat \ {0}
  BY TranscribeAssumption
<1> HIDE DEF Behind
<1>4. SamplesRead \in Int
  BY <1>1, <1>3 DEF SamplesRead, Least
<1>5. ASSUME ~MoreToRead PROVE AllHeard
  BY <1>1, <1>2, <1>3, <1>5 DEF MoreToRead, SamplesRead, AllHeard, Least
<1>6. ASSUME MoreToRead
      PROVE  LET more == heard + SamplesRead
             IN  /\ more \in Nat /\ 2 * more <= counted + 2 * Frame
                 /\ 2 * more <= dataSize /\ more <= Behind \div 2
                 /\ \/ counted + 2 * Frame = 2 * more
                    \/ more = Least(dataSize, Behind) \div 2
  BY <1>1, <1>2, <1>3, <1>6 DEF MoreToRead, SamplesRead, AllHeard, Least
<1> QED
  BY <1>1, <1>4, <1>5, <1>6

(* A line taken in, or not, leaves the transcript within its memory.       *)
LEMMA AnswerFacts ==
  ASSUME TInv, pc \in {"read", "ended", "flush"},
         UNCHANGED buffer \/ \E n \in LineLengths : AppendLine(n)
  PROVE  /\ {room', cap', len'} \subseteq Nat /\ starved' \in BOOLEAN
         /\ text' \in Seq(Nat) /\ answers' \in Seq(Nat)
         /\ starved => starved'
         /\ ~starved' => room' > 0 /\ TranscriptFits'
<1>1. /\ {room, cap, len} \subseteq Nat /\ starved \in BOOLEAN
      /\ text \in Seq(Nat) /\ answers \in Seq(Nat)
      /\ ~starved => text = answers /\ len + 1 <= room /\ cap = room /\ room > 0
  BY DEF TInv, TypeOK, BufferInv, TranscriptFits
<1>2. CASE UNCHANGED buffer
  BY <1>1, <1>2 DEF buffer, TranscriptFits
<1>3. ASSUME NEW n \in LineLengths, AppendLine(n)
      PROVE  /\ {room', cap', len'} \subseteq Nat /\ starved' \in BOOLEAN
             /\ text' \in Seq(Nat) /\ answers' \in Seq(Nat)
             /\ starved => starved'
             /\ ~starved' => room' > 0 /\ TranscriptFits'
  <2>1. n \in Nat \ {0} /\ answers' = Append(answers, n)
    BY <1>3, TranscribeAssumption DEF AppendLine
  <2>2. CASE Fits(n) /\ Take(n) /\ UNCHANGED <<room, cap, starved>>
    BY <1>1, <2>1, <2>2 DEF Fits, Take, TranscriptFits
  <2>3. CASE /\ cap' = (len + n + 1) * 2 /\ room' = cap'
             /\ Take(n) /\ UNCHANGED starved
    <3>1. len' = len + n /\ text' = Append(text, n)
      BY <2>3 DEF Take
    <3>2. {room', cap', len'} \subseteq Nat /\ room' > 0 /\ cap' = room'
          /\ len' + 1 <= room'
      BY <1>1, <2>1, <2>3, <3>1
    <3>3. text' \in Seq(Nat) /\ answers' \in Seq(Nat) /\ starved' = starved
          /\ (~starved' => text' = answers')
      BY <1>1, <2>1, <2>3, <3>1
    <3> QED
      BY <1>1, <3>2, <3>3 DEF TranscriptFits
  <2>4. CASE /\ cap' = (len + n + 1) * 2 /\ starved' = TRUE
             /\ UNCHANGED <<room, len, text>>
    BY <1>1, <2>1, <2>4
  <2> QED
    BY <1>3, <2>2, <2>3, <2>4 DEF AppendLine
<1> QED
  BY <1>2, <1>3

-----------------------------------------------------------------------------
LEMMA InitTInv == Init => TInv
<1> SUFFICES ASSUME Init PROVE TInv
  OBVIOUS
<1>1. file \in Files /\ Len(file.chunks) \in 0 .. MaxChunks
  BY FileFacts DEF Init
<1>2. TypeOK
  <2>1. at \in 1 .. MaxChunks + 2
    BY TranscribeAssumption DEF Init
  <2>2. text \in Seq(Nat) /\ answers \in Seq(Nat)
    BY DEF Init
  <2>3. /\ {format, starved} \subseteq BOOLEAN /\ owned \in [Resources -> Int]
        /\ {dataSize, counted, heard, room, cap, len} \subseteq Nat
    <3>1. format = FALSE /\ starved = FALSE
      BY DEF Init
    <3>2. /\ dataSize = 0 /\ counted = 0 /\ heard = 0
          /\ room = 0 /\ cap = 0 /\ len = 0
      BY DEF Init
    <3>3. {format, starved} \subseteq BOOLEAN
      BY <3>1, Zenon
    <3>5. owned \in [Resources -> Int]
      BY DEF Init
    <3>4. {dataSize, counted, heard, room, cap, len} \subseteq Nat
      BY <3>2
    <3> QED
      BY <3>3, <3>4, <3>5
  <2> QED
    BY <1>1, <2>1, <2>2, <2>3 DEF Init, TypeOK
<1>3. WalkInv
  BY <1>1, TranscribeAssumption DEF Init, WalkInv
<1>4. AudioInv /\ BufferInv
  BY DEF Init, AudioInv, BufferInv, TranscriptFits
<1>5. OwnedInv
  BY DEF Init, OwnedInv, FileIsOpen, StreamIsOpen, HasTranscript, Resources
<1> QED
  BY <1>2, <1>3, <1>4, <1>5 DEF TInv

(* What an exit closes is what is open where it is taken.                  *)
LEMMA OwnedKept ==
  ASSUME TInv, Next
  PROVE  OwnedInv' /\ owned' \in [Resources -> Int]
<1> USE DEF TInv
<1>1. /\ owned \in [Resources -> Int]
      /\ result \in {"none", "empty", "null", "transcript"}
      /\ result = "transcript" => pc = "done"
      /\ file.header \in Headers
  BY DEF TypeOK, WalkInv, Files
<1>2. ASSUME NEW r \in Resources, Obtain(r)
      PROVE  /\ owned' \in [Resources -> Int] /\ owned'[r] = owned[r] + 1
             /\ \A q \in Resources \ {r} : owned'[q] = owned[q]
  BY <1>1, <1>2 DEF Obtain
<1>3. ASSUME NEW closed, Release(closed)
      PROVE  /\ owned' \in [Resources -> Int]
             /\ \A q \in Resources :
                  owned'[q] = IF q \in closed THEN owned[q] - 1 ELSE owned[q]
  BY <1>1, <1>3 DEF Release
<1>4. ASSUME NEW why, Refuse(why),
             \/ why = "no file" /\ pc = "open"
             \/ why \in {"no RIFF", "no WAVE"} /\ pc = "header"
             \/ why \in {"short format"} \cup FormatChecks /\ pc = "walk"
             \/ /\ why \in {"no format", "no data", "too short", "no stream"}
                /\ pc = "check"
             \/ why = "no transcript" /\ pc = "allocate"
      PROVE  OwnedInv' /\ owned' \in [Resources -> Int]
  <2>1. pc' = "done" /\ result' # "transcript" /\ Release(ClosesOnExit(why))
    BY <1>4 DEF Refuse
  <2>2. ClosesOnExit(why) = IF pc = "open" THEN {}
                            ELSE IF pc = "allocate" THEN {"stream", "file"}
                            ELSE {"file"}
    BY <1>4 DEF ClosesOnExit, FormatChecks
  <2>3. pc \in {"open", "header", "walk", "check", "allocate"}
    BY <1>4
  <2> QED
    BY <1>1, <1>3, <2>1, <2>2, <2>3
       DEF OwnedInv, FileIsOpen, StreamIsOpen, HasTranscript, Resources
<1> USE DEF OwnedInv, FileIsOpen, StreamIsOpen, HasTranscript, Resources
<1>5. CASE Open
  <2>1. CASE pc' = "header" /\ Obtain("file") /\ UNCHANGED result
    <3>1. /\ owned' \in [Resources -> Int] /\ owned'["file"] = owned["file"] + 1
          /\ owned'["stream"] = owned["stream"]
          /\ owned'["transcript"] = owned["transcript"]
      BY <1>2, <2>1
    <3>2. pc = "open" /\ pc' = "header" /\ result' = result
      BY <1>5, <2>1 DEF Open
    <3> QED
      BY <1>1, <3>1, <3>2
  <2>2. CASE Refuse("no file")
    BY <1>4, <1>5, <2>2 DEF Open
  <2> QED
    BY <1>5, <2>1, <2>2 DEF Open
<1>6. CASE Header
  BY <1>1, <1>4, <1>6 DEF Header, Headers
<1>7. CASE WalkFormat \/ WalkOther \/ WalkEnds
  BY <1>1, <1>7 DEF WalkFormat, WalkOther, WalkEnds
<1>8. CASE FormatRefused
  BY <1>4, <1>8 DEF FormatRefused
<1>9. CASE Reject
  BY <1>4, <1>9 DEF Reject
<1>10. CASE OpenStream \/ Allocate
  BY <1>1, <1>2, <1>10 DEF OpenStream, Allocate
<1>11. CASE ReadFrame
  BY <1>1, <1>11 DEF ReadFrame
<1>12. CASE ReadEnds \/ FlushAndReturn
  BY <1>1, <1>3, <1>12 DEF ReadEnds, FlushAndReturn
<1> QED
  BY <1>5, <1>6, <1>7, <1>8, <1>9, <1>10, <1>11, <1>12 DEF Next

(* The steps up to the first frame touch neither audio nor lines.          *)
Opening == Open \/ Header \/ WalkFormat \/ FormatRefused \/ WalkOther
             \/ WalkEnds \/ OpenStream \/ Allocate \/ Reject

LEMMA OpeningSteps ==
  ASSUME TInv, Opening
  PROVE  TInv'
<1> USE DEF TInv, Before
<1>1. /\ Len(file.chunks) \in 0 .. MaxChunks /\ MaxChunks \in Nat
      /\ file' = file
  BY FileFacts, TranscribeAssumption
     DEF TypeOK, Opening, Open, Header, WalkFormat, FormatRefused, WalkOther,
         WalkEnds, OpenStream, Allocate, Reject, parse
<1>2. at \in 1 .. Len(file.chunks) + 1 /\ at \in Nat
  BY <1>1 DEF WalkInv
<1>3. /\ at' \in 1 .. Len(file.chunks) + 1 /\ at' \in 1 .. MaxChunks + 2
      /\ at' # at => pc = "walk" /\ UNCHANGED <<pc, dataSize>>
  <2>1. CASE WalkFormat \/ WalkOther
    BY <1>1, <1>2, <2>1
       DEF WalkFormat, WalkOther, AfterFormat, AfterSeek, AtEnd
  <2>2. CASE at' = at
    BY <1>1, <1>2, <2>2
  <2> QED
    BY <2>1, <2>2 DEF Opening, Open, Header, FormatRefused, WalkEnds,
       OpenStream, Allocate, Reject, parse
<1>4. pc \in Before /\ UNCHANGED audio
  BY DEF Opening, Open, Header, WalkFormat, FormatRefused, WalkOther,
         WalkEnds, OpenStream, Allocate, Reject
<1>5. dataSize' = dataSize \/ (pc = "walk" /\ ~AtEnd /\ dataSize' = Chunk.size)
  BY DEF Opening, Open, Header, WalkFormat, FormatRefused, WalkOther,
         WalkEnds, OpenStream, Allocate, Reject, parse
<1>6. dataSize' \in Nat
  <2>1. ~AtEnd => Chunk.size \in Nat
    BY <1>1, <1>2, BehindIsNat DEF AtEnd, TypeOK
  <2> QED
    BY <1>5, <2>1 DEF TypeOK
<1>7. /\ pc' \in {"header", "walk", "check", "allocate", "read", "done"}
      /\ result' \in {"none", "empty", "null"}
      /\ pc' = "allocate" => OpenStream
      /\ pc' = "read" => Allocate
      /\ pc' \in {"open", "header", "walk"} => UNCHANGED dataSize
      /\ pc' = "header" => pc = "open"
      /\ pc' = "walk" => pc \in {"header", "walk"}
  BY DEF WalkInv, TypeOK, Opening, Open, Header, WalkFormat, FormatRefused,
     WalkOther, WalkEnds, OpenStream, Allocate, Reject, Refuse, parse
<1>8. format' \in BOOLEAN
  <2>1. CASE WalkFormat
    BY <2>1 DEF WalkFormat
  <2>2. CASE format' = format
    BY <2>2, Zenon DEF TypeOK
  <2> QED
    BY <2>1, <2>2 DEF Opening, Open, Header, FormatRefused, WalkOther, WalkEnds,
       OpenStream, Allocate, Reject, parse
<1>9. /\ {room', cap', len'} \subseteq Nat /\ text' = text
      /\ UNCHANGED <<len, answers, starved>>
      /\ ~Allocate => UNCHANGED <<room, cap>>
      /\ Allocate => room' = FirstCap /\ cap' = FirstCap
  BY TranscribeAssumption
     DEF TypeOK, Opening, Open, Header, WalkFormat, FormatRefused, WalkOther,
         WalkEnds, OpenStream, Allocate, Reject, buffer
<1>10. TypeOK'
  BY <1>1, <1>3, <1>4, <1>6, <1>7, <1>8, <1>9, OwnedKept
     DEF TypeOK, Opening, Next, audio
<1>11. WalkInv'
  <2>1. dataSize' > 0 =>
          at' <= Len(file.chunks) /\ dataSize' = file.chunks[at'].size
    <3>1. CASE dataSize' = dataSize
      BY <1>1, <1>3, <1>4, <3>1 DEF WalkInv, Chunk
    <3>2. CASE ~AtEnd /\ dataSize' = Chunk.size /\ at' = at
      BY <1>1, <1>2, <3>2 DEF AtEnd, Chunk
    <3> QED
      BY <1>3, <1>5, <3>1, <3>2
  <2>2. pc' \in {"open", "header", "walk"} => dataSize' = 0
    BY <1>7 DEF WalkInv
  <2>3. pc' \in {"allocate", "read", "ended", "flush"} => dataSize' > 0
    <3>1. CASE OpenStream
      BY <3>1, TranscribeAssumption DEF OpenStream, Acceptable, TypeOK, parse
    <3>2. CASE Allocate
      BY <3>2 DEF WalkInv, Allocate, parse
    <3> QED
      BY <1>7, <3>1, <3>2
  <2> QED
    BY <1>1, <1>3, <1>7, <2>1, <2>2, <2>3 DEF WalkInv, Chunk
<1>12. AudioInv'
  <2>1. heard = 0 /\ counted = 0 /\ heard' = 0 /\ counted' = 0
    BY <1>4 DEF AudioInv, audio
  <2>2. dataSize' > 0 => at' = at
    BY <1>3, <1>4 DEF WalkInv
  <2>3. dataSize' > 0 => Behind' \in Nat
    <3>1. dataSize' > 0 => at \in 1 .. Len(file.chunks) /\ Behind' = Behind
      BY <1>1, <1>2, <1>5, <2>2 DEF WalkInv, AtEnd, Behind, Chunk
    <3> QED
      BY <3>1, BehindIsNat DEF TypeOK
  <2>4. pc' \notin {"ended", "flush"} /\ result' # "transcript"
    BY <1>7
  <2> HIDE DEF Behind
  <2> QED
    BY <1>6, <2>1, <2>3, <2>4 DEF AudioInv
<1>13. BufferInv'
  BY <1>4, <1>7, <1>9, TranscribeAssumption
     DEF BufferInv, TranscriptFits, TypeOK
<1>14. OwnedInv' /\ owned' \in [Resources -> Int]
  BY OwnedKept DEF Opening, Next
<1> QED
  BY <1>10, <1>11, <1>12, <1>13, <1>14

(* The steps that read, and the last one.                                  *)
LEMMA ReadingSteps ==
  ASSUME TInv, ReadFrame \/ ReadEnds \/ FlushAndReturn
  PROVE  TInv'
<1> USE DEF TInv, Before
<1>1. UNCHANGED parse /\ pc \in {"read", "ended", "flush"}
  BY DEF ReadFrame, ReadEnds, FlushAndReturn
<1>2. Behind' = Behind /\ Chunk' = Chunk
  BY <1>1 DEF parse, Behind, Chunk, Least
<1>3. UNCHANGED buffer \/ \E n \in LineLengths : AppendLine(n)
  BY DEF ReadFrame, ReadEnds, FlushAndReturn
<1>4. /\ {room', cap', len'} \subseteq Nat /\ starved' \in BOOLEAN
      /\ text' \in Seq(Nat) /\ answers' \in Seq(Nat)
      /\ starved => starved'
      /\ ~starved' => room' > 0 /\ TranscriptFits'
  BY <1>1, <1>3, AnswerFacts
<1>5. /\ pc' \in {"read", "ended", "flush", "done"}
      /\ pc' = "done" <=> FlushAndReturn
      /\ result' = "transcript" <=> pc' = "done"
      /\ result' \in {result, "transcript"}
  BY DEF ReadFrame, ReadEnds, FlushAndReturn, WalkInv
<1>6. TypeOK'
  <2>1. {counted', heard'} \subseteq Nat
    <3>1. CASE ReadFrame
      BY <3>1, FrameFacts, TranscribeAssumption DEF ReadFrame
    <3>2. CASE ~ReadFrame
      BY <3>2 DEF ReadEnds, FlushAndReturn, audio, TypeOK
    <3> QED
      BY <3>1, <3>2
  <2> QED
    BY <1>1, <1>4, <1>5, <2>1, OwnedKept DEF TypeOK, parse, Next
<1>7. WalkInv'
  BY <1>1, <1>2, <1>5 DEF WalkInv, parse
<1>8. AudioInv'
  <2>1. CASE ReadFrame
    <3>1. /\ heard' = heard + SamplesRead /\ counted' = counted + 2 * Frame
          /\ pc = "read" /\ MoreToRead
          /\ pc' = IF starved' THEN "ended" ELSE "read"
      BY <2>1 DEF ReadFrame
    <3>2. /\ 2 * heard' <= counted' /\ 2 * heard' <= dataSize
          /\ heard' <= Behind \div 2
          /\ counted' = 2 * heard' \/ heard' = Least(dataSize, Behind) \div 2
      BY <3>1, FrameFacts
    <3>3. dataSize' = dataSize
      BY <1>1 DEF parse
    <3> QED
      BY <1>2, <1>5, <3>1, <3>2, <3>3 DEF AudioInv, AllHeard, Least
  <2>2. CASE ReadEnds
    <3>1. ~starved => AllHeard
      BY <2>2, FrameFacts DEF ReadEnds, AudioInv
    <3> QED
      BY <1>1, <1>2, <1>5, <2>2, <3>1
         DEF ReadEnds, AudioInv, AllHeard, Least, audio, parse, buffer
  <2>3. CASE FlushAndReturn
    BY <1>1, <1>2, <1>4, <2>3
       DEF FlushAndReturn, AudioInv, AllHeard, Least, audio, parse
  <2> QED
    BY <2>1, <2>2, <2>3
<1>9. BufferInv'
  BY <1>4, <1>5 DEF BufferInv, TranscriptFits
<1>10. OwnedInv'
  BY OwnedKept DEF Next
<1> QED
  BY <1>6, <1>7, <1>8, <1>9, <1>10

LEMMA TranscribeInvariance == Spec => []TInv
<1>1. TInv /\ [Next]_vars => TInv'
  <2> SUFFICES ASSUME TInv, [Next]_vars PROVE TInv'
    OBVIOUS
  <2>1. CASE UNCHANGED vars
    BY <2>1 DEF TInv, TypeOK, WalkInv, AudioInv, AllHeard, BufferInv,
       TranscriptFits, OwnedInv, FileIsOpen,
       StreamIsOpen, HasTranscript, Behind, Chunk, Least, vars, parse,
       audio, buffer
  <2>2. CASE Next
    BY <2>2, OpeningSteps, ReadingSteps DEF Next, Opening
  <2> QED
    BY <2>1, <2>2
<1> QED
  BY <1>1, InitTInv, PTL DEF Spec

-----------------------------------------------------------------------------
(* Every variable keeps its type.                                          *)
THEOREM TypeCorrect == Spec => []TypeOK
<1>1. TInv => TypeOK
  BY DEF TInv
<1> QED
  BY <1>1, TranscribeInvariance, PTL

(* However long the file, whatever surrounds its data, the stream hears    *)
(* the data chunk, nothing else, and all of it.                            *)
THEOREM DataHeard == Spec => []HearsExactlyTheData
<1>1. TInv => HearsExactlyTheData
  BY DEF TInv, AudioInv, AllHeard, HearsExactlyTheData
<1> QED
  BY <1>1, TranscribeInvariance, PTL

(* The transcript buffer is never overrun, and holds every answer, until   *)
(* memory for it runs out.                                                 *)
THEOREM TranscriptKept == Spec => []TranscriptFits
<1>1. TInv => TranscriptFits
  BY DEF TInv, BufferInv
<1> QED
  BY <1>1, TranscribeInvariance, PTL

(* At each of its exits the call has closed the file and the stream once   *)
(* if it opened them, never before it was through with them, and has made  *)
(* no transcript but the one it returns.                                   *)
THEOREM ExitsCloseEverything == Spec => []ClosesWhatItOpened
<1>1. TInv => ClosesWhatItOpened
  BY DEF TInv, OwnedInv, FileIsOpen, StreamIsOpen, HasTranscript,
     ClosesWhatItOpened
<1> QED
  BY <1>1, TranscribeInvariance, PTL
=============================================================================
