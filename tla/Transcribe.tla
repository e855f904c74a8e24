------------------------------ MODULE Transcribe ------------------------------
(***************************************************************************)
(* vaani_pipeline_transcribe (src/src/stat_ort_plugin.c): the walk through *)
(* the chunks of a WAV file, the loop that feeds its audio to a stream in  *)
(* frames, and the transcript that grows by what the stream answers.       *)
(*                                                                         *)
(* A file is its sequence of RIFF chunks, as the format defines them: a    *)
(* chunk of odd size is followed by a pad byte.  What is said in it is     *)
(* left out; the stream may answer any frame with nothing or with a line.  *)
(***************************************************************************)
EXTENDS Integers, Sequences

CONSTANTS
  Frame,        \* 512, the samples of a push
  FormatSizes,  \* sizes of "fmt " chunks: 16 bytes, and any extension
  DataSizes,    \* sizes of data chunks, in bytes
  OtherSizes,   \* sizes of the chunks that are neither "fmt " nor "data"
  MaxChunks,    \* bound: a file has at most this many chunks
  FirstCap,     \* 4096, the first size of the transcript buffer
  LineLengths,  \* strlen of the lines the stream may answer
  MemoryFails   \* whether allocations can fail

ASSUME TranscribeAssumption ==
  /\ {Frame, FirstCap} \subseteq Nat \ {0} /\ MaxChunks \in Nat
  /\ FormatSizes \subseteq {n \in Nat : n >= 16}
  /\ DataSizes \subseteq Nat /\ OtherSizes \subseteq Nat
  /\ LineLengths \subseteq Nat \ {0} /\ MemoryFails \in BOOLEAN

(* A format is the one supported (PCM, mono, 16 kHz, 16 bit) or is not.    *)
Chunks ==
  [id : {"fmt"}, size : FormatSizes, supported : BOOLEAN]
    \cup [id : {"data"}, size : DataSizes]
    \cup [id : {"other"}, size : OtherSizes]

(* A file cut short ends in the middle of its last chunk.  The chunks of   *)
(* one that does not say RIFF and WAVE are never looked at, and left out.  *)
Headers == {"RIFF WAVE", "no RIFF", "no WAVE"}
Files ==
  {f \in [chunks : UNION {[1 .. k -> Chunks] : k \in 0 .. MaxChunks},
          cut    : BOOLEAN, header : Headers] :
     f.header = "RIFF WAVE" \/ (f.chunks = <<>> /\ ~f.cut)}

(* What the call obtains and has to give back.                             *)
Resources == {"file", "stream", "transcript"}

VARIABLES
  pc,          \* where the call is
  file,        \* the file it was given
  at,          \* the chunk whose header is read next
  format,      \* audio_format # 0: a "fmt " chunk was read and accepted
  dataSize,    \* data_size
  counted,     \* total_data_bytes
  heard,       \* history: samples read from the file
  owned,       \* for each resource, how often obtained less how often released
  room,        \* the bytes malloc gave to full_transcript, 0 for none
  cap,         \* full_cap
  len,         \* full_len
  text,        \* the lines in full_transcript
  answers,     \* history: the lines the stream answered
  starved,     \* history: the transcript could not be enlarged
  result       \* what the call returned

parse == <<file, at, format, dataSize>>
audio == <<counted, heard>>
buffer == <<room, cap, len, text, answers, starved>>
vars == <<pc, parse, audio, owned, buffer, result>>

Init ==
  /\ pc = "open" /\ file \in Files
  /\ at = 1 /\ format = FALSE /\ dataSize = 0
  /\ counted = 0 /\ heard = 0
  /\ owned = [r \in Resources |-> 0]
  /\ room = 0 /\ cap = 0 /\ len = 0 /\ text = <<>> /\ answers = <<>>
  /\ starved = FALSE /\ result = "none"

Obtain(r) == owned' = [owned EXCEPT ![r] = @ + 1]
Release(closed) ==
  owned' = [r \in Resources |-> IF r \in closed THEN owned[r] - 1 ELSE owned[r]]

(* What each refusal, in the order of the code, closes before it returns.  *)
FormatChecks == {"encoding", "channels", "rate", "depth"}
MutantClosesOnExit(why) == IF why = "no file" THEN {} ELSE {"file"}
ClosesOnExit(why) ==
  CASE why = "no file"       -> {}
    [] why = "no RIFF"       -> {"file"}
    [] why = "no WAVE"       -> {"file"}
    [] why = "short format"  -> {"file"}
    [] why \in FormatChecks  -> {"file"}
    [] why = "no format"     -> {"file"}
    [] why = "no data"       -> {"file"}
    [] why = "too short"     -> {"file"}
    [] why = "no stream"     -> {"file"}
    [] why = "no transcript" -> {"stream", "file"}

(* They return "", or NULL where there is no memory even for that.         *)
Refuse(why) ==
  /\ pc' = "done" /\ Release(ClosesOnExit(why))
  /\ result' \in {"empty"} \cup (IF MemoryFails THEN {"null"} ELSE {})

-----------------------------------------------------------------------------
Open ==
  /\ pc = "open"
  /\ \/ pc' = "header" /\ Obtain("file") /\ UNCHANGED result
     \/ Refuse("no file")
  /\ UNCHANGED <<parse, audio, buffer>>

Header ==
  /\ pc = "header"
  /\ IF file.header = "RIFF WAVE"
       THEN pc' = "walk" /\ UNCHANGED <<owned, result>>
       ELSE Refuse(file.header)
  /\ UNCHANGED <<parse, audio, buffer>>

Chunk == file.chunks[at]
CutShort == file.cut /\ at = Len(file.chunks)
AtEnd == at > Len(file.chunks)

(* fseek by the chunk's size.  A pad byte is not skipped: behind an odd    *)
(* chunk the walk is off by one, and what it meets there is taken for      *)
(* chunks of some kind and size.  The model has it run to the end of the   *)
(* file without finding any audio.                                         *)
MutantAfterSeek == Len(file.chunks) + 1
AfterSeek == IF Chunk.size % 2 = 0 THEN at + 1 ELSE Len(file.chunks) + 1

(* Of a format chunk 16 bytes are read and looked at; what it has beyond   *)
(* them is skipped, its pad byte again not.  Cut short, a longer one may   *)
(* still have the 16.                                                      *)
MutantAfterFormat == IF Chunk.size = 16 THEN at + 1 ELSE Len(file.chunks) + 1
AfterFormat == IF Chunk.size > 16 THEN AfterSeek ELSE at + 1
FormatIsRead == CutShort => Chunk.size > 16

WalkFormat ==
  /\ pc = "walk" /\ ~AtEnd /\ Chunk.id = "fmt"
  /\ Chunk.supported /\ FormatIsRead
  /\ format' = TRUE /\ at' = AfterFormat
  /\ UNCHANGED <<pc, file, dataSize, audio, owned, buffer, result>>

FormatRefused ==
  /\ pc = "walk" /\ ~AtEnd /\ Chunk.id = "fmt"
  /\ \/ CutShort /\ Refuse("short format")
     \/ /\ ~Chunk.supported /\ FormatIsRead
        /\ \E why \in FormatChecks : Refuse(why)
  /\ UNCHANGED <<parse, audio, buffer>>

WalkOther ==
  /\ pc = "walk" /\ ~AtEnd /\ Chunk.id = "other"
  /\ at' = AfterSeek
  /\ UNCHANGED <<pc, file, format, dataSize, audio, owned, buffer, result>>

WalkEnds ==
  /\ pc = "walk"
  /\ \/ ~AtEnd /\ Chunk.id = "data" /\ dataSize' = Chunk.size
     \/ AtEnd /\ UNCHANGED dataSize
  /\ pc' = "check"
  /\ UNCHANGED <<file, at, format, audio, owned, buffer, result>>

(* A format before the data, and at least a frame of it; then the stream   *)
(* and the transcript buffer, either of which may find no memory.          *)
Acceptable == format /\ dataSize \div 2 >= Frame

Reject ==
  /\ \/ pc = "check" /\ ~format /\ Refuse("no format")
     \/ pc = "check" /\ format /\ dataSize = 0 /\ Refuse("no data")
     \/ /\ pc = "check" /\ format /\ dataSize > 0 /\ dataSize \div 2 < Frame
        /\ Refuse("too short")
     \/ pc = "check" /\ Acceptable /\ MemoryFails /\ Refuse("no stream")
     \/ pc = "allocate" /\ MemoryFails /\ Refuse("no transcript")
  /\ UNCHANGED <<parse, audio, buffer>>

OpenStream ==
  /\ pc = "check" /\ Acceptable
  /\ pc' = "allocate" /\ Obtain("stream")
  /\ UNCHANGED <<parse, audio, buffer, result>>

Allocate ==
  /\ pc = "allocate"
  /\ pc' = "read" /\ Obtain("transcript")
  /\ room' = FirstCap /\ cap' = FirstCap
  /\ UNCHANGED <<parse, audio, len, text, answers, starved, result>>

-----------------------------------------------------------------------------
(* The samples of the file behind the data header: more than the chunk     *)
(* has when other chunks follow, fewer when the file is cut short.         *)
Behind ==
  IF at < Len(file.chunks) THEN Chunk.size + 8 + file.chunks[at + 1].size
  ELSE IF file.cut THEN Chunk.size \div 2
  ELSE Chunk.size
Least(a, b) == IF a < b THEN a ELSE b

(* What fread gives: at most a frame, and nothing of what follows the data.*)
MutantSamplesRead == Least(Frame, Behind \div 2 - heard)
SamplesRead ==
  LET remaining == (dataSize - counted) \div 2
  IN  Least(Least(Frame, remaining), Behind \div 2 - heard)

(* The transcript takes a line in, growing to twice what is needed.  The   *)
(* new full_cap is stored before realloc is known to have succeeded.       *)
MutantFits(n) == len + n <= cap
Fits(n) == len + n + 1 <= cap
Take(n) == len' = len + n /\ text' = Append(text, n)
AppendLine(n) ==
  /\ answers' = Append(answers, n)
  /\ \/ Fits(n) /\ Take(n) /\ UNCHANGED <<room, cap, starved>>
     \/ /\ ~Fits(n) /\ cap' = (len + n + 1) * 2
        /\ \/ room' = cap' /\ Take(n) /\ UNCHANGED starved
           \/ /\ MemoryFails /\ starved' = TRUE
              /\ UNCHANGED <<room, len, text>>

(* A frame, the last one padded with zeros (which count as read), and the  *)
(* answer to it.  A transcript that cannot be enlarged ends the loop.      *)
MoreToRead == counted < dataSize /\ SamplesRead > 0
ReadFrame ==
  /\ pc = "read" /\ MoreToRead
  /\ heard' = heard + SamplesRead
  /\ counted' = counted + 2 * Frame
  /\ \/ UNCHANGED buffer
     \/ \E n \in LineLengths : AppendLine(n)
  /\ pc' = IF starved' THEN "ended" ELSE "read"
  /\ UNCHANGED <<parse, owned, result>>

(* Behind the loop the file is closed.                                     *)
ReadEnds ==
  /\ pc = "ended" \/ (pc = "read" /\ ~MoreToRead)
  /\ pc' = "flush" /\ Release({"file"})
  /\ UNCHANGED <<parse, audio, buffer, result>>

(* An empty push yields the trailing segment, the stream is closed, and    *)
(* the caller gets the transcript.                                         *)
FlushAndReturn ==
  /\ pc = "flush"
  /\ \/ UNCHANGED buffer
     \/ \E n \in LineLengths : AppendLine(n)
  /\ pc' = "done" /\ Release({"stream"})
  /\ result' = "transcript"
  /\ UNCHANGED <<parse, audio>>

Next ==
  \/ Open \/ Header
  \/ WalkFormat \/ FormatRefused \/ WalkOther \/ WalkEnds
  \/ Reject \/ OpenStream \/ Allocate
  \/ ReadFrame \/ ReadEnds \/ FlushAndReturn

Spec == Init /\ [][Next]_vars /\ WF_vars(Next)

-----------------------------------------------------------------------------
(* The type of each variable.                                              *)
TypeOK ==
  /\ pc \in {"open", "header", "walk", "check", "allocate", "read", "ended",
             "flush", "done"}
  /\ file \in Files /\ at \in 1 .. MaxChunks + 2
  /\ {format, starved} \subseteq BOOLEAN
  /\ owned \in [Resources -> Int]
  /\ {dataSize, counted, heard, room, cap, len} \subseteq Nat
  /\ text \in Seq(Nat) /\ answers \in Seq(Nat)
  /\ result \in {"none", "empty", "null", "transcript"}

(* The stream hears the data chunk and nothing else: not the chunks behind *)
(* it, and all of it when the loop ends, but for what a file cut short     *)
(* does not have (or a transcript that could not grow left unread).        *)
HearsExactlyTheData ==
  /\ 2 * heard <= dataSize
  /\ result = "transcript" /\ ~starved =>
       heard = Least(dataSize, Behind) \div 2

(* The transcript is every line the stream answered, in order, and with    *)
(* its NUL stays within the memory it was given, whatever the lengths and  *)
(* the number of the lines, until an enlargement fails.                    *)
TranscriptFits ==
  ~starved => /\ text = answers
              /\ room > 0 => len + 1 <= room /\ cap = room

(* Whichever of its exits the call takes, with whatever obtained by then:  *)
(* the file and the stream are closed exactly once and not while they are  *)
(* still read or pushed to, and the transcript is the caller's where it is *)
(* what is returned, and was never allocated where it is not.              *)
ClosesWhatItOpened ==
  /\ pc \in {"header", "walk", "read"} => owned["file"] = 1
  /\ pc \in {"read", "flush"} => owned["stream"] = 1 /\ owned["transcript"] = 1
  /\ pc = "done" =>
       /\ owned["file"] = 0 /\ owned["stream"] = 0
       /\ owned["transcript"] = IF result = "transcript" THEN 1 ELSE 0

(* src/src/stat_ort_plugin.h:62: a 16 kHz mono int16 WAV file is           *)
(* transcribed.  The walk gets to the audio of every such file, over       *)
(* whatever other chunks come before it and whatever extension its format  *)
(* has, unless a chunk before the audio, the format or another, is of odd  *)
(* size: behind it the code looks for the next header a byte too early.    *)
(* (A speech file has its format before its data, as the format demands,   *)
(* and at least a frame of audio.)                                         *)
Is(i, id) == file.chunks[i].id = id
IsSpeechWav(f, d) ==
  /\ file.header = "RIFF WAVE" /\ ~file.cut
  /\ f < d /\ Is(f, "fmt") /\ file.chunks[f].supported
  /\ Is(d, "data") /\ file.chunks[d].size >= 2 * Frame
  /\ \A i \in 1 .. d - 1 : i = f \/ Is(i, "other")
StaysOnHeaders(d) == \A i \in 1 .. d - 1 : file.chunks[i].size % 2 = 0
FindsTheAudio ==
  (pc = "walk" /\ \E f, d \in DOMAIN file.chunks :
                     IsSpeechWav(f, d) /\ StaysOnHeaders(d))
    ~> (pc = "check" /\ Acceptable /\ Is(at, "data") /\ dataSize = Chunk.size)
=============================================================================
