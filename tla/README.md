# Verification of stat_ort_plugin (Vaani on-device ASR)

stat_ort_plugin is a Flutter FFI plugin: a C library that turns 16 kHz PCM into
transcript lines with ONNX Runtime models (`src/src/`), the Dart classes `Vaani`
and `VaaniStream` that wrap it (`src/lib/`), and an example app that drives a
stream from a microphone on a background isolate (`src/example/lib/`). This
directory holds TLA+ models of its logic, TLC configurations that check them on
small instances, and TLAPS proofs for all instances.

* `tlc -config X.cfg M` checks module `M`; `PROJECT.json` lists the runs.
* `tlapm M.tla` checks the proofs of module `M`, for the eight modules whose
  names end in `Proofs`.

## 1. The system

| Part | State it keeps | Operations |
| --- | --- | --- |
| Stream segmenter, `src/src/vaani_stream.c` | `VaaniStreamState`: chunk and preroll buffers, silence and onset counters, stream position, segment start, debug WAV | `vaani_stream_init`, `_push_chunk`, `_flush`, `_close` |
| TDT decoder, `src/src/vaani_decode.c` | locals of one call: frame index, last token, two pairs of recurrent-state buffers, a growing text buffer, everything allocated | `decode_audio_buffer` |
| Silero VAD call, `src/src/vaani_vad.c` | recurrent state and 64-sample context of a stream | `run_silero_vad` |
| Speaker table, `vaani_stream.c:61-118`, `vaani_speaker.c` | up to `MAX_SPEAKERS` embeddings of a stream | match, nudge, enrol |
| Gain control, `vaani_stream.c:210-236` | one smoothed gain | applied to each frame |
| Mel features and FFT, `mel.c`, `compute_fft.c` | read-only tables | `mel_processor_extract` |
| Vocabulary, white space, `load_vocab.c`, `normalize_white_space.c` | none | pure functions |
| Pipeline, `src/src/vaani_core.c` | ORT sessions, vocabulary, mel processors | `vaani_pipeline_init`, `_free` |
| File transcription, `src/src/stat_ort_plugin.c` | locals of one call: file position, transcript buffer | `vaani_pipeline_transcribe` |
| Dart stream wrapper, `src/lib/src/vaani_stream.dart` | carry of a partial frame, `_closed`, scratch buffer | `pushChunk(Bytes)`, `finish`, `close` |
| Dart pipeline wrapper, `src/lib/src/vaani.dart`, `native_library.dart` | `_disposed`, `_owns`, three `NativeFinalizer`s | `create`, `transcribe`, `createStream`, `dispose`, GC |
| Streaming session, `src/example/lib/` | two isolates, their ports, UI flags | `start`, `pushBytes`, `finish`, `abort` |

**How they interact.** The app's recorder hands byte chunks to the session,
which sends them to a worker isolate. There `VaaniStream` cuts them into
512-sample frames and calls `vaani_stream_push_chunk` for each. The segmenter
amplifies the frame, asks the VAD about it, and when a segment closes runs the
speaker model and the decoder on the buffered audio, returning a line. The
stream's native state points to a pipeline owned by a `Vaani` on another isolate.
Everything native is freed explicitly or, failing that, by finalizers.

**What is hard here.** The hazards are listed in `PROJECT.json`, each at its
line. In short: counters shared by the two states of the segmenter; five ways of
emptying its buffer, each with its own idea of where the next segment starts;
the swap of state buffers that must happen on tokens and not on blanks; sixteen
failing calls before one cleanup label; three places that copy parts of a chunk;
and the freeing of objects by whichever of several isolates, finalizers and
explicit calls comes first. Nothing is persisted and no messages are lost, so
there is no crash recovery to model; the failures are those of allocations and
of ORT.

**What makes each part correct.**

* Segmenter: a line is about exactly the audio its timestamps name; lines are
  disjoint and in order; audio worth decoding is not lost silently; segments open
  on confirmed speech only and close on real pauses only.
* VAD call: each frame is judged after the samples that precede it, also after a
  call that failed.
* Speaker table: a line names the speaker it enrolled or the closest one there
  is; numbers appear in order; a failed embedding is nobody.
* Decoder: the network is always asked in the context of the tokens found; the
  loop ends; the text fits; every exit releases what was obtained.
* Stream wrapper: the native side gets the recording, in whole frames.
* Both together: what the lines of a recording are about, and what their times mean.
* File transcription: the data chunk is found and heard, nothing else; the
  transcript is the lines in order, inside its buffer; each exit closes what was
  opened by then.
* Construction: whatever call fails, what was made is given back, once, in order.
* Handles: nothing used after it is freed, nothing freed twice, nothing forgotten.
* Session: a stop ends, after the last line of its session; one user of the
  pipeline at a time.
* Pure functions: they compute their mathematical definitions.

## 2. The modules

| Module | Models | Composes or uses |
| --- | --- | --- |
| `Runs` | audio as positions: runs, the samples of a buffer, their order | |
| `SegmentedAudio` | what a stream promises its caller (abstract) | |
| `Segmenter` | `VaaniStreamState` and its handlers | implements `SegmentedAudio` |
| `SegmenterHistory` | the segmenter with a memory of what the VAD said | extends `Segmenter` |
| `Stream` | the segmenter with its VAD memory and its speaker table | extends `Segmenter`, implements it |
| `Transducer` | greedy token-and-duration search (abstract) | |
| `TdtDecoder` | `decode_audio_buffer` | implements `Transducer` |
| `Framer` | `VaaniStream`'s framing and carry | |
| `Recording` | `VaaniStream` driving a native stream | `Framer` composed with an instance of `Segmenter` |
| `Transcribe` | `vaani_pipeline_transcribe` | |
| `Construction` | `vaani_pipeline_init`, its constructors, `vaani_pipeline_free` | |
| `Handles` | ownership and lifetime of pipeline, streams and scratch buffers over two isolates | |
| `Session` | the example app: its handlers and flags, the worker isolate, the messages between them | |
| `Fft` | `compute_fft` | |
| `MelFrames` | the index arithmetic of `mel_processor_extract` | |
| `Text` | `normalize_whitespace`, `load_vocab` | |
| `MCAlgorithms` | enumerates inputs for the last three | |
| `SegmenterProofs` | the proofs about `Runs` and `Segmenter` | |
| `StreamProofs` | about `Stream` and `SegmenterHistory` | extends `SegmenterProofs` |
| `FramerProofs` | about `Framer` and `Recording` | uses an instance of `SegmenterProofs` |
| `AlgorithmProofs` | about `Text`, `MelFrames` and `Fft`, and the properties of them in `MCAlgorithms` | |
| `HandlesProofs` | about `Handles` and `Construction` | |
| `TdtDecoderProofs`, `TranscribeProofs`, `SessionProofs` | about the module of that name | |

Only the pure functions need an `MC` module, to enumerate their inputs. The
constants of the others are numbers and small sets, which the `.cfg` files give
directly. Definitions named `Mutant...` stand before the definition they are a
faulty variant of; no specification uses them. Each property is shown to be
sensitive to one of them (`PROJECT.json`, "mutants").

### Segmenter

A sample is its *position in the stream*, so `chunk` and `preroll` are sequences
of positions and "the right audio" is about contents, not lengths. Fields map
one to one: `chunk` is `chunk_buffer[0..chunk_len-1]`, `preroll` likewise,
`silence`, `onset`, `offset`, `segStart`, `wavOpen`, `written` are the fields of
the same meaning; `out` is what the last call returned and `covered` is a history
variable. Amplitudes are not kept: the VAD's answer is one of four verdicts
(at or above the onset threshold, between the thresholds, below the sustain
threshold, -1), the work on a closed segment one of four outcomes. Both are
chosen freely at each push, which covers every network and every gain.

`vaani_stream_push_chunk` is split by the way taken through it: `Oversize`,
`PushFlush`, and `Push` = `KeepWaiting`, `OpenSegment`, `Grow`, `CloseOnSilence`,
`DiscardShort`. The 30 s cap is not an action of its own: it precedes the rest
of the same call, and `Waiting(n)`, `PrerollNow(n)`, `SilenceNow(n)`,
`OnsetNow(n)` and `SegStartNow(n)` are the fields as the code after it finds
them. Null arguments and negative counts return before anything is done and are
left out. `SegmenterHistory` adds what a caller remembers of the verdicts, to
say what a segment must contain and how it may end.

### Stream

The segmenter's actions, each together with what the call does to the two
memories of a stream. `VadCall` is `run_silero_vad`: it fails before the network
is reached, or the network runs and each of its two outputs can be read or not;
`vadContext` is the end of the audio the context was taken from, and `absorbed`
the frame the recurrent state took in last, with the context it was given.
`Identify` is the matching of `process_speech_segment`: scores are drawn from a
small set in every way the embeddings allow, an embedding being a voice, the
zeros of a failed extraction, or numbers that compare with nothing (NaN).
`nearest` remembers which entries scored best for the line, to say what "the
closest existing speaker" of line 114 is without the search that finds it. The
nudge of a matched embedding leaves a voice a voice and is left out.

### TdtDecoder

`pc` follows the function: setup, the four points of the loop where it can
leave, cleanup, done. `Setup` lists the sixteen acquisitions before the loop in
the order of the code, with what is released after each, and `SetupFails` may
strike at any of them. `counted` says whether the size of the logits is known;
until then the two calls that ask for it may fail, and `Uncounted` is what is lost
when they do: the code compares their `OrtStatus` with NULL and keeps no
pointer to it (`vaani_decode.c:191`, `:193`). Everywhere else a status is released
where it is logged, and left out. The content of a pair of recurrent-state buffers is the
sequence of targets the network consumed to produce it, so `RunDecoder` writes
`Append(buf[hIn], last)` to the other pair and "the right state" is an equation.
Which token and which duration win, and how long a token's text is, is chosen
freely each time. The white-space pass and the trimming realloc do not change
what is held and are part of `Finish`. An input rejected at the first `if`
returns a new empty string and touches nothing; it is left out.

### Framer and Recording

One `pushChunk` is several steps, one for each frame sent, because that is where
the native side is called. A sample is its place in the recording.
`pushChunkBytes` halves the number of bytes and drops an odd one. The texts
returned touch no state of the wrapper.

`Recording` composes it with an instance of `Segmenter`: a step of the framer
that hands over a frame is a `Push` of the other in the same step, `finish` is
a drop of the carry and a `Flush`, `close` closes both. The two count samples
differently (the framer by their place in the recording, the segmenter by how
many it was given), and `sent` maps one to the other; the properties are about
places in the recording, which is what a user of the transcript sees.

### Transcribe

A file is its sequence of RIFF chunks, cut short or not; `at` is the chunk whose
header is read next. `pc` follows the function: `open`, the `header`, the `walk`
over the chunks, the `check`, the stream and the transcript buffer (`allocate`),
the `read` loop (`ended` when an enlargement failed), the `flush`, `done`. A format
chunk has 16 bytes or an extension, which line 87 skips (`AfterFormat`). Behind a
chunk of odd size, the format included, the code continues one byte too early; what
it takes the bytes there for is beyond the model, which has it find nothing more.

There are ten reasons to give up before the loop, the four kinds of format counted
as one, each with a return statement of its own; `ClosesOnExit` is a table of what
each of them closes, line by line. `owned` counts, for the file, the stream and the
transcript, how often it was obtained less how often released, so that a close too
many shows as well as one that is missing.

`counted` is `total_data_bytes`, which a padded frame makes larger than what was
read (`heard`). `room` is what `malloc` gave and `cap` what the code takes it
to be, which differ after a `realloc` that failed. A line is its length, and
the stream may answer anything.

### Construction

A stage is a call in `vaani_pipeline_init` with the calls inside it:
`mel_processor_new` takes six things, `create_ort_session` two, `load_vocab` a
file, an array and a string per line. `CallFails` may strike at each; the stage
then gives back `whenFailed`, and `vaani_pipeline_free` goes through the fields
in its own order (`FreeOrder`). Between its options and its session
`create_ort_session` makes four calls whose `OrtStatus` it never looks at
(`vaani_core.c:39-43`): when one of them fails the stage goes on (`GoesOn`) and
the status stays in `live` for good (`Leaves`, `Unread`). Other statuses are
released where they are logged, and left out. `live` is what is allocated or
open, and `misused` records a release of what is not live, or of an ORT object
whose environment is gone. VAD and speaker model may be asked for or not. A
vocabulary has a line at least: an empty one ends like one that cannot be opened.
`CInit`, `CNext` and `CSpec` are its specification; the letter keeps the names
apart from those of `Handles`, whose "create" and "dispose" it looks into.

### Handles

One pipeline and its owning `Vaani` on the main isolate, two streams that may be
created on the main or on the worker isolate (there through
`Vaani.fromNativeAddress`, which cannot see `_disposed`). Wrappers are held, then
dropped, then gone; an isolate that ends takes its wrappers along. A native call
is two steps, so that freeing can come between. Using or freeing freed memory is
recorded in `wrong`.

Nothing in the code ties a stream to its pipeline: a Vaani disposed (or
collected) under a stream that still holds a segment, a handle rebuilt on another
isolate, or a `transcribe` under way are all left to the program. `orderly` fixes
at the start whether the program has the discipline that avoids them, and
`MayGiveUp` says what that discipline is: before it gives up the pipeline its
native calls have returned, and each stream is closed, or let go of with no
segment left to decode (`StreamsSettled`), whether or not the collector has come
by yet. To let go of a stream in the middle of a segment is not enough, since its
finalizer decodes the segment and may run after the pipeline is freed. The code
is also run without any discipline. The collector, the isolates and the guarantee
of `NativeFinalizer` are the Dart VM's: they are modelled from how `src/lib`
relies on them.

### Session

The main isolate and each worker are event loops, so an action is one turn: from
an event, or from the end of an await, to the next await. `startPc[s]` says at
which await the start of session `s` is, `stopPc[i]` the same of the `i`-th stop,
and `stopping[i]` is its local `session`. The awaits on the recorder in
`stopStream` touch nothing the model keeps and are one. `inbox` and `outbox` are
the two ports; `open[s]` stands for a `_fromWorker` that listens and a `_done`
that is not completed, which `_finishUp` ends together. A chunk is a number, a
line the sequence of chunks it was made from; the worker's stream is reduced to
the chunks of its open segment, and where a segment closes is free. (What the
stream does is `Segmenter`; that short or silent audio gives no line is left out
here, since what matters is that no line is lost on the way.) `pipeline` is
"freed" once `State.dispose` has disposed of `vaani` (`main.dart:51`), which
waits for nobody. Exceptions may strike on the worker (which ends it: uncaught
errors are fatal to an isolate), in the app's plugins, and in `setState` after
`dispose`. `Patient` says whether the user waits for a handler to end before
tapping again.

### Fft, MelFrames, Text

`compute_fft` adds, subtracts and multiplies, and uses nothing of the complex
root exp(-2 pi i / n) but that its power n / 2 is -1. So it is followed exactly in
the integers modulo a number with such a root: the incremental bit reversal, the
swaps, the stages. (`compute_fft` takes a new root for each length; here all are
powers of one of order `MaxN`, as `FftAssumption` says, and the buffer is no longer
than that.) `MelFrames` keeps of the features which sample each entry of the padded
buffer is a copy of and which entries each frame reads. `Text` says what `normalize_whitespace`
has written after each number of characters (`Scanned`), and what `load_vocab` has
found after each number of rounds of its loop through the 256-byte line buffer
(`ReadLines`). Their reference definitions stand beside them: the sum that defines
the transform, the mirrored margins, the words of a string, the tokens a file
was made from.

## 3. The runs

| Run | Question and answer |
| --- | --- |
| `segmenter` | With the real order of the sizes: storage bounds, contiguous buffers, counters in step with the state, nothing worth decoding lost silently, `SegmentedAudio` implemented; every line contains a confident frame, and a segment closed before the cap ends in a full pause of its own. Holds. |
| `stream` | Sizes the other way round, pushes of any size, failing calls and allocations: each frame is judged after the samples before it (but after a push that did not reach the network); a line names the speaker it enrolled or the closest of the table, in the order of their numbers (until a text is lost), and never one enrolled from a failed embedding; -1 only where the table is full and nobody scores above -1. Reaches `DiscardShort`, `Oversize`, the clipped and the dropped preroll, the full table. Holds. |
| `tdt_decoder` | State, text, termination, release on every exit, and `Transducer` implemented. Holds, with three leaks named in the property (`vaani_decode.c:70`, `:191`, `:193`), of which an execution has at most one. |
| `recording` | However a recording is cut and wherever `finish` is called: the native side hears it in whole frames, nothing lost or repeated; lines follow each other in it; a line jumps only over what a `finish` dropped while nobody spoke; a line's time lags its place by exactly what was dropped before it. Holds. |
| `transcribe` | Every small WAV file with any call failing: the audio is found and exactly the data is heard, the transcript has every line and fits, each exit closes once what was opened by then. Holds, but for files with a chunk of odd size (a format included) before the data and for a buffer whose `realloc` failed, which the properties name. |
| `construction` | Whichever call fails, everything is given back, once, sessions before their environment. Holds, but for the statuses that `create_ort_session` drops, which the property names. |
| `algorithms` | The pure functions equal their reference definitions on every small input. Holds; a vocabulary line that does not fit the line buffer is excluded by name (`LinesFit`). |
| `handles` | Nothing is freed twice in any order; a program that settles its streams before it gives up their pipeline uses nothing freed, however late the collector runs; what is forgotten is freed in the end. Holds. |
| `handles_forgotten` | *Violation.* The finalizers are documented as backstops for programs that forget `close` and `dispose`; a stream in use does not keep its `Vaani`, whose finalizer frees the pipeline under it. |
| `session` | A patient user, anything may fail, the widget may go at any time: transcripts are one session's audio in order and complete when a stop returns; only Stop is offered while a session is open; one isolate drives the pipeline; `finish` completes unless the worker died or the widget's `dispose` freed the pipeline under it. Holds. |
| `session_finish_hang` | *Violation.* `finish` is documented to complete once the worker has exited; if it exits by an exception `finish` waits for ever. |
| `session_double_tap` | *Violation.* The flags that serialize the use of the pipeline are set after the first await of `startMicStream`; a second tap before that gets a file transcribed beside the stream. |

**Bounds.** *Segmenter*: frame 2, minimum 5, preroll 7, silence 9, cap 17 keep
the order 512 < 16000 < 24000 < 40000 < 480000, and no size is a multiple of the
frame, so neither the ring nor the cap is hit exactly. A stream of 36 samples
(18 frames) is longer than two segments at the cap, or a segment, a pause and
another segment; it may be closed and opened again at any point.
*Stream*: frame 1, minimum 2, preroll and cap 4, silence 1, pushes of 1, 3 and 5
samples: a frame, a size the VAD refuses, and more than the buffer. Five samples
are enough for three segments, and three speakers are more than a table of two.
*Decoder*: two frames, two tokens of which one has no text, limit 2
instead of 10, durations 0, 1, 2 (the code only tells 0, at most 1 and more
apart); token texts of 0, 8 and 9 bytes against 8 bytes a frame hit the growth
test below, at and above its boundary.
*Recording*: frames of 3 samples and chunks of 0, 1 and 5 samples, one of them
an odd number of bytes, meet the carry at each of its lengths; 20 samples hold a
segment, a `finish` anywhere and the segment after it. The properties relate one
`finish` to the next line, so more of them add nothing but size.
*Transcribe*: frame 3, up to four chunks; formats of 16 bytes, with an odd and with
an even extension, other chunks of odd and of even size, data of less than a frame,
of whole frames, of a part of a frame and an odd byte; a first buffer of 4 bytes and lines
of 1 and 3 hit the growth test at its boundary and grow it twice.
*Construction*: three vocabulary lines, the first of which is allocated
differently from the rest. *Algorithms*: the transform of all 0-1 buffers of
length 1, 2, 4, 8 (it is linear, so that these contain a basis) and of 3 and 6,
which it must leave alone; audio of up to 12 samples against windows of 4, 7 and
10, so longer and shorter than the margin; strings of up to six characters over
two letters, space and marker.
*Handles*: two streams are the fewest with an order among finalizers; each
object is created once, which is enough as objects share nothing but the
pipeline. *Session*: two sessions are the fewest of which one can disturb the
next, two stops the fewest to end both or to race; three chunks give a session
two segments and a tail, or each session some. The two violations need one chunk.

**Fairness.** The decoder and the file transcription have `WF(Next)`: a function
that is running goes on until it returns. `Returns` and `FindsTheAudio` need
nothing else: network, failures and files are free.
In `Handles` native calls return, and what is unreachable is finalized sooner or
later; the latter is not a property of the garbage collector but of
`NativeFinalizer`, which runs at the latest when the isolate group shuts down.
Nobody is assumed to call `close` or `dispose`, nor to push.
In `Session` the event loops go on: what is in a port is handled, what is
awaited from a plugin returns or throws, and a native call returns. Taps, chunks
and `dispose` are not assumed to happen.
The segmenter and the framer are driven by their callers and have no liveness of
their own.

**Deadlock** is checked, except in `recording`, `transcribe`, `construction`,
`handles` and `session`, where a closed stream, a call that has returned, a
pipeline that is gone, a fully collected program and an app whose widget is gone
(or whose stop hangs) do nothing more, and in `algorithms`, where a behaviour is
one input. The decoder's end is an explicit stutter.

## 4. The proofs

TLAPS proves, for every value of the constants allowed by the assumptions of the
modules:

* **Segmenter** (`SegmenterProofs`). The first lemmas say what the copy loops
  compute: `RunConcat` (append), `RunSuffix` (shift), `RunAppended` (handing on
  later audio keeps the order). `IInv`, five invariants together, is
  inductive: the bounds on the buffers need contiguity (the preroll prepended is
  as long as the positions say), contiguity needs the cap, and
  `BufferedAudioUnreported` needs both. One lemma for each action shows that it
  preserves `IInv` and that what it returns continues the report
  (`OrderlyReport`), from which `Refinement` follows step by step.
  `NothingLostSilently` needs in addition that a closed stream has nothing
  buffered, and that allocations succeed. All of it assumes `FramesFit`: no push
  is larger than the chunk buffer. That is the case of all callers in the
  repository, which push 512 samples; without it an oversized push breaks
  contiguity (it moves the position and not the buffer). Types do not need it:
  `TypeCorrect` follows without contiguity, so neither buffer is overrun whatever
  is pushed. `NothingReportedTwice`, `WavComplete`, `DiscardIsDead` and
  `UnknownIsNeutral` are properties no run checks: they hold for every instance.
* **What the VAD said** (`StreamProofs`). `LinesHaveSpeech` and `PausesClose`:
  while a segment is open, a confident frame lies in it, and the silence counted
  is at most the distance to the end of the last speech (`HistoryInv`, with
  `IInv`, hence for frames that fit).
* **Stream** (`StreamProofs`). `StreamIsSegmenter` shows that the memories never
  change what the segmenter does, so that everything above holds of a whole
  stream. `StreamInv` relates the context to the position in the stream and the
  speakers named to the table; the four properties of the run follow, for a
  table of any size and scores of any kind (`ClosestFacts`: who is recognised is
  a voice, and the search finds one of those nobody scores better than whenever
  there are any; finite scores have a greatest, by well-founded induction), and the types (`StreamTypesCorrect`). None needs `FramesFit`.
* **Decoder** (`TdtDecoderProofs`). `SearchInv` says what each pair of buffers
  holds at each point of the loop, relates the query to the tokens, and bounds
  the tokens; with it every step maps to a step of `Transducer` or to a stutter
  (`DecoderRefines`). `HeldInv` says which of the things obtained can be held at
  each point, `StatusInv` that a status is lost only before the size of the
  logits is known, hence before any token; what every exit releases, and the one
  thing it may forget, follows (`OnlyForgottenLeaks`).
  `TextHasRoom` is about the growth test, for any token lengths; `TextIsTokens`
  adds that the text is the known tokens in order. That order is stated by
  counting (the place of a token is the number of known ones up to it), not by a
  recursive filter, so that a token more is one more element of a finite set.
* **Framer** (`FramerProofs`). `FInv`: the carry is the audio just before the
  place looked at, and all before the carry has been handed over, in order, or
  discarded. `FramesWhole` and `RecordingKept` follow for chunks of any length;
  `TailDropped` says what `finish` and `close` discard.
* **Recording** (`FramerProofs`). Each side runs as its own module specifies
  (`FramerRunsAsSpecified`, `SegmenterRunsAsSpecified`), so the invariants and
  step lemmas of both are used as they stand, those of the segmenter through an
  instance of `SegmenterProofs`; `RecordingAssumption` (a frame fits the chunk
  buffer) gives its `FramesFit`. Neither invariant mentions the other side. `RInv`
  adds what ties them (`Heard`): the native position is the number of samples
  handed over, what is told is the place of the last sample in a line, and of an
  open segment only the first `PrerollMax` samples may have a break between them,
  the last being next to the carry. `Rank` counts what was dropped before a sample
  handed over, `Gap` says that nothing else lies between two of them; with these,
  `LineGood` gives the three properties for whatever step returns a line.
* **Session** (`SessionProofs`). The types hold for any user. The rest assumes
  `Patient`, without which `session_double_tap` refutes it. `Control`: one
  handler runs at a time; an open session belongs to the handler that starts it,
  to the app, or to the handler that stops it; while the widget is there the
  flags say which; a `done` message is the last on its way. `Transcript`: what is
  on the screen, on its way in the ports, in the worker's open segment and among
  the chunks not yet pushed to it are, in this order and without gap, what was
  recorded. `StopIsOffered`, `OneDriver`, `AllOnScreen` and `ScreenInOrder`
  follow for any number of sessions, stops and chunks, whatever fails (the last
  one says "of some session", so there must be one: `MaxSessions > 0`).
* **Handles** (`HandlesProofs`). `HInv`: an object is freed exactly when its
  wrapper was closed (disposed) or collected, and an orderly program has, once
  its pipeline cannot be used, no call under way and no stream but such as are out
  of its reach and hold no segment (`NothingOutlivesPipeline`). These may still be
  finalized later, which then needs no pipeline. Both safety properties
  (`FreedOnce`, `SettledFirstIsSafe`) follow for any number of streams.
* **Construction** (`HandlesProofs`). Every stage is sound by itself (`StageGood`):
  what its calls take is what its field will hold and what it gives back when it
  ends, and a call that fails gives back all that was taken, where it is looked at. A plan of sound
  stages sets each field once, the pipeline first and the environment before what
  needs it (`PlanGood`), whichever models are asked for and however long the
  vocabulary is. `BInv` then says what is live: what the fields set hold, and what
  the present stage has taken so far; while a pipeline is freed, what the fields
  hold that come later in `FreeOrder`. All this is about what is
  live but for dropped statuses (`Owned`), which nothing ever touches again.
  `OnlyUnreadLeaks` and `EnvironmentGoesLast` follow.
* **File transcription** (`TranscribeProofs`). `TInv`: the walk stops at the data
  it found; the bytes counted are twice the samples heard until a frame was
  padded, and then all has been heard; the transcript has memory while the stream
  answers; what is owned at each place of the call (`OwnedInv`), from which
  `ExitsCloseEverything` follows exit by exit. The three safety properties of the run follow for files of any length
  and sizes of any kind.
* **White space** (`AlgorithmProofs`). After each number of characters, what is
  written are the words begun so far with a space between them, and a space
  behind them when the last character was blank (`Progress`). A character more
  begins a word, makes the last one longer or changes none (`MoreWords`), which
  is what one `Write` does. `NormalizedText` is the case of the whole string.
* **Vocabulary** (`AlgorithmProofs`). A line that fits the buffer is read whole
  and gives its token, also one with spaces in it (`LineIsRead`); so after each
  round one token more has been found and what remains of the file are the lines
  of the others (`VocabularyIsLoaded`).
* **Induction.** The library's induction theorems take an operator, which no
  prover here can instantiate. The first lemmas of `AlgorithmProofs` put a *set of
  numbers* in its place: a set of natural numbers has a least element
  (`LeastElement`, from the library's theorem that < is well-founded), hence a set
  that contains 0 and with n also n + 1 contains all (`Induction`), hence a
  function defined by its first value and a step exists and is the only one
  (`Recursion`, `SameRecursion`). With these what a recursive function computes
  can be proved; `FlattenAppend` does it for `FlattenSeq` of the library.
* **Mel frames** (`AlgorithmProofs`). Frames read within the padded buffer and
  copies of the audio only, and the margins mirror it, for every audio length,
  window and hop (`FramesStayInside`, `MarginsMirror`); hence
  `EveryFrameReadsTheAudio`.
* **Transform** (`AlgorithmProofs`). First the laws of remainders and powers.
  Then the order: bit reversal is a function with a law for the lowest bit of its
  argument, from which the one for the highest follows (`ReversalTop`) and that it
  undoes itself (`ReversalTwice`); the counter of the first loop runs through it
  (`NextReversedIs`, whose invariant `Counting` says what the carry still has to do),
  so that swapping each pair once reverses the whole buffer (`PermutedIs`). Then the
  stages: after stage e, block b of the buffer is the transform of those elements of
  the input that lie n / 2^e apart, from the reversed b on (`BlockAt`). A sum is that
  of its even and that of its odd elements, and half way round the root is -1, so a
  butterfly makes of two blocks one of twice the length (`BlockSplits`,
  `ButterflyIs`). The last block is the whole transform (`TransformIsDft`), for any
  buffer, any power of two up to `MaxN` and any modulus with a root of that order.

**Only model-checked:** liveness (`Returns`, `FindsTheAudio`, `ForgottenIsFreed`,
`FinishCompletes`), which these provers cannot reach. Every safety invariant and
action property of the runs that hold is proved.

## 5. Known divergences

Three are violations that runs exhibit (section 3). Others came up while
modelling; the models do what the code does, and the properties name the case:

* `vaani_stream.c:187-188`, `:291` say the chunk at the 30 s cap starts the next
  segment. It goes to the preroll, and the next segment opens when an onset is
  confirmed again (`:347-348`). No audio is lost: `NoSilentLoss` and the
  refinement hold.
* `stat_ort_plugin.h:92-94` says a flush returns NULL if decoding failed; it
  returns a line with an empty transcript (`vaani_stream.c:439-441`): outcome
  `decodeError` is a line.
* `stat_ort_plugin.c:95` seeks over a chunk by its size, not over the pad byte of
  an odd one, and so does line 87 over the extension of a format: a valid WAV file
  with a chunk of odd size, of whatever kind, before its audio is refused.
  `StaysOnHeaders` excludes such files from `FindsTheAudio`.
* `stat_ort_plugin.c:186` and `:218` store the new size before `realloc` is known
  to have succeeded. `TranscriptFits` claims nothing after such a failure
  (`starved`).
* `vaani_decode.c:70` returns without releasing the shape info when the
  dimensions cannot be read; `:191` and `:193` compare the status of a failed call
  with NULL and drop it. `NothingElseLeaks` names all three.
* `vaani_core.c:39-43` ignores the status of the four calls that set a session's
  options: the session is created without the option, and the status is never
  released. `NothingLeaks` names them (`Unread`).
* `vaani_stream.c:114` says that at full capacity the closest existing speaker is
  assigned. The search starts from a score of -1.0 and a speaker of -1, so where
  no entry scores above -1 (an embedding that compares with nothing) the line names
  -1, a speaker nobody has. `NamesClosestSpeaker` names the case.
* After a VAD call that fails before the network (`vaani_vad.c:40`), or a push the
  VAD is not asked about, the context is not the 64 samples before the next frame.
  `JudgedInContext` allows that one frame (`bypassed`).
* A segment whose text is lost for want of memory (`vaani_stream.c:138`) has
  enrolled its speaker all the same; `NumberedInOrder` claims nothing once that
  happened (`textLost`).
* A stream let go of in the middle of a segment is finalized by
  `vaani_stream_close`, which decodes that segment (`native_library.dart:64`,
  `vaani_stream.c:459-467`), also on a pipeline that was disposed in the meantime.
  That, a handle rebuilt on another isolate and a `dispose` during `transcribe`
  are outside what `OrderlyUseIsSafe` claims: it states which use is safe.
* The app's `State.dispose` frees the pipeline (`main.dart:51`) without waiting for
  a stop that awaits `finish`, whose worker goes on with it. `FinishCompletes`
  claims nothing from then on (`DrivesFreed`).
* A `finish` while nobody speaks drops the carry of the Dart side but not the
  preroll of the native one, so the next line may jump over what was dropped
  (`BreaksOnlyAtFinish`), and native time lags from then on (`StampsLagByDrops`).

## 6. Not modelled, and why

* Sample values, and with them gain control, windows and filters of the mel
  features, the networks and cosine scores: floating point, reduced to the
  outcomes control depends on. The printed form of timestamps, which loses
  precision after about 17 minutes.
* 32-bit widths: `silence_samples` grows while a stream waits and overflows after
  37 hours of silence; chunk sizes of 2^31 bytes and more. Far beyond any bound
  TLC reaches, and the sizes of the models are natural numbers.
* ORT's own behaviour beyond success and failure; the one `pthread_once` that
  looks up its API.
* Data races between native calls on one pipeline from several threads, which
  `src/README.md` forbids (that the app keeps to it is a property of `Session`).
* Model loading in the app, and an `Isolate.spawn` that fails; logging, build
  files, generated bindings, widgets.
* The vendored headers of ONNX Runtime under `src/android/src/include/`: about
  21 700 of the repository's 24 000 lines of C and Dart, declarations of a
  third-party library without any code of this system. What the system uses of
  it appears in the models as calls that succeed or fail. Of the remaining lines
  the models map about two thirds; the rest are declarations, logging, argument
  checks that return at once, widgets and floating-point arithmetic.

What could follow: bounds on what the printed timestamps lose.
