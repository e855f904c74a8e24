------------------------------- MODULE Session -------------------------------
(***************************************************************************)
(* The example app's streaming session: class StreamingSession and its     *)
(* worker (example/lib/streaming_session.dart), driven by the handlers of  *)
(* _MyAppState (example/lib/main.dart).                                    *)
(*                                                                         *)
(* The main isolate and each worker are event loops: an action is one turn *)
(* of one of them, from an event to the next await.  Ports deliver in      *)
(* order.  A chunk of audio is a number, a text the sequence of the chunks *)
(* it was made from.  The models are loaded and the app shows its buttons. *)
(***************************************************************************)
EXTENDS Integers, Sequences, SequencesExt, FiniteSets

CONSTANTS
  MaxSessions,   \* bound: taps on Start
  MaxStops,      \* bound: taps on Stop
  MaxChunks,     \* bound: chunks the recorder delivers
  WorkerFails,   \* whether the worker's Dart code may throw
  PluginFails,   \* whether the calls of the app's plugins may throw
  Patient        \* the user waits for a handler to end before the next tap

ASSUME SessionAssumption ==
  /\ {MaxSessions, MaxStops, MaxChunks} \subseteq Nat
  /\ {WorkerFails, PluginFails, Patient} \subseteq BOOLEAN

Sessions == 1 .. MaxSessions
Stops    == 1 .. MaxStops
None     == 0    \* _session = null
Finish   == 0    \* the _Finish message; chunks are numbered from 1

VARIABLES
  mounted, streaming, starting, transcribing,   \* _MyAppState's flags
  shown,        \* transcript
  current,      \* _session
  subscribed,   \* _recordSub # null
  pipeline,     \* the native pipeline of vaani: "live" or "freed"
  startPc,      \* where each startMicStream is
  stopPc,       \* where each stopStream is
  stopping,     \* its local session
  open,         \* each session's _fromWorker is open and _done not completed
  ready,        \* its worker's port has arrived
  inbox,        \* what is on its way to the worker
  outbox,       \* what is on its way from the worker
  worker,       \* "none", "spawned", "idle" or "dead"
  pending,      \* the chunks in the worker stream's open segment
  failed,       \* history: sessions whose worker died of an exception
  pushed        \* history: the chunks forwarded to each session

flags    == <<mounted, streaming, starting, transcribing>>
handlers == <<startPc, stopPc, stopping>>
link     == <<current, subscribed, pipeline>>
ports    == <<open, ready, inbox, outbox>>
work     == <<worker, pending, failed>>
vars == <<flags, shown, link, handlers, ports, work, pushed>>

Init ==
  /\ mounted = TRUE /\ streaming = FALSE /\ starting = FALSE
  /\ transcribing = FALSE /\ shown = <<>>
  /\ current = None /\ subscribed = FALSE /\ pipeline = "live"
  /\ startPc = [s \in Sessions |-> "none"]
  /\ stopPc = [i \in Stops |-> "none"] /\ stopping = [i \in Stops |-> None]
  /\ open = [s \in Sessions |-> FALSE] /\ ready = [s \in Sessions |-> FALSE]
  /\ inbox = [s \in Sessions |-> <<>>] /\ outbox = [s \in Sessions |-> <<>>]
  /\ worker = [s \in Sessions |-> "none"]
  /\ pending = [s \in Sessions |-> <<>>]
  /\ failed = {} /\ pushed = [s \in Sessions |-> <<>>]

-----------------------------------------------------------------------------
(* Taps.  The buttons are enabled by build().                              *)
MutantIdle == ~streaming
Idle == ~transcribing /\ ~streaming

HandlerRunning ==
  \/ \E s \in Sessions : startPc[s] \notin {"none", "over"}
  \/ \E i \in Stops : stopPc[i] \notin {"none", "over"}
MayTap == mounted /\ (Patient => ~HandlerRunning)

TapTranscribe ==
  /\ MayTap /\ Idle
  /\ transcribing' = TRUE /\ shown' = <<>>
  /\ UNCHANGED <<mounted, streaming, starting, link, handlers, ports, work,
                 pushed>>

(* What a file or an error puts on the screen is no chunk of a stream.     *)
Cleared == IF mounted THEN <<>> ELSE shown
TranscribeReturns ==
  /\ transcribing /\ transcribing' = FALSE
  /\ shown' = Cleared
  /\ UNCHANGED <<mounted, streaming, starting, link, handlers, ports, work,
                 pushed>>

TapStart(s) ==
  /\ MayTap /\ Idle
  /\ startPc[s] = "none" /\ \A r \in 1 .. s - 1 : startPc[r] # "none"
  /\ startPc' = [startPc EXCEPT ![s] = "permission"]
  /\ UNCHANGED <<flags, shown, link, stopPc, stopping, ports, work, pushed>>

-----------------------------------------------------------------------------
(* startMicStream, from await to await.                                    *)

PermissionDenied(s) ==
  /\ startPc[s] = "permission"
  /\ shown'   = Cleared
  /\ startPc' = [startPc EXCEPT ![s] = "over"]
  /\ UNCHANGED <<flags, link, stopPc, stopping, ports, work, pushed>>

(* The flags are set only now.                                             *)
PermissionGranted(s) ==
  /\ startPc[s] = "permission" /\ mounted
  /\ streaming' = TRUE /\ starting' = TRUE /\ shown' = <<>>
  /\ startPc' = [startPc EXCEPT ![s] = "directory"]
  /\ UNCHANGED <<mounted, transcribing, link, stopPc, stopping, ports, work,
                 pushed>>

SpawnWorker(s) ==
  /\ startPc[s] = "directory"
  /\ startPc' = [startPc EXCEPT ![s] = "spawn"]
  /\ open'    = [open EXCEPT ![s] = TRUE]
  /\ worker'  = [worker EXCEPT ![s] = "spawned"]
  /\ UNCHANGED <<flags, shown, link, stopPc, stopping, ready, inbox, outbox,
                 pending, failed, pushed>>

Spawned(s) == startPc[s] = "spawn" /\ ready[s]
SessionReady(s) ==
  /\ Spawned(s)
  /\ current' = s
  /\ startPc' = [startPc EXCEPT ![s] = "mic"]
  /\ UNCHANGED <<flags, shown, subscribed, pipeline, stopPc, stopping, ports,
                 work, pushed>>

MicStarts(s) ==
  /\ startPc[s] = "mic" /\ mounted
  /\ subscribed' = TRUE /\ starting' = FALSE
  /\ startPc' = [startPc EXCEPT ![s] = "over"]
  /\ UNCHANGED <<mounted, streaming, transcribing, shown, current, pipeline,
                 stopPc, stopping, ports, work, pushed>>

(* An exception leaves the flags as they are.  Once the widget is disposed *)
(* setState throws and the recorder starts no stream.                      *)
StartThrows(s) ==
  /\ \/ startPc[s] \in {"permission", "directory", "mic"} /\ PluginFails
     \/ startPc[s] \in {"permission", "mic"} /\ ~mounted
  /\ startPc' = [startPc EXCEPT ![s] = "over"]
  /\ UNCHANGED <<flags, shown, link, stopPc, stopping, ports, work, pushed>>

(* A message to a worker that is gone is dropped.                          *)
Sent(s, m) ==
  IF worker[s] = "dead" THEN inbox ELSE [inbox EXCEPT ![s] = Append(@, m)]

Chunks == UNION {ToSet(pushed[s]) : s \in Sessions}
RecorderDelivers ==
  LET n == Cardinality(Chunks) + 1 IN
  /\ subscribed /\ current # None /\ n <= MaxChunks
  /\ inbox'  = Sent(current, n)
  /\ pushed' = [pushed EXCEPT ![current] = Append(@, n)]
  /\ UNCHANGED <<flags, shown, link, handlers, open, ready, outbox, work>>

-----------------------------------------------------------------------------
(* The worker isolate.  An exception it does not catch ends it.            *)
Text(kind, chunks) == [kind |-> kind, text |-> chunks]

WorkerStarts(s) ==
  /\ worker[s] = "spawned"
  /\ outbox' = [outbox EXCEPT ![s] = Append(@, Text("port", <<>>))]
  /\ \/ worker' = [worker EXCEPT ![s] = "idle"] /\ UNCHANGED failed
     \/ /\ WorkerFails
        /\ worker' = [worker EXCEPT ![s] = "dead"]
        /\ failed' = failed \cup {s}
  /\ UNCHANGED <<flags, shown, link, handlers, open, ready, inbox, pending,
                 pushed>>

Receives(s) ==
  /\ worker[s] = "idle" /\ inbox[s] # <<>>
  /\ inbox' = [inbox EXCEPT ![s] = Tail(@)]
  /\ UNCHANGED <<flags, shown, link, handlers, open, ready, pushed>>

MutantRest(heard) == heard
Rest(heard) == <<>>
WorkerPushes(s) ==
  LET heard == Append(pending[s], Head(inbox[s])) IN
  /\ Receives(s) /\ Head(inbox[s]) # Finish
  /\ \/ pending' = [pending EXCEPT ![s] = heard] /\ UNCHANGED outbox
     \/ /\ outbox'  = [outbox EXCEPT ![s] = Append(@, Text("segment", heard))]
        /\ pending' = [pending EXCEPT ![s] = Rest(heard)]
  /\ UNCHANGED <<worker, failed>>

MutantTrailing(s) == <<>>
Trailing(s) == pending[s]
WorkerFinishes(s) ==
  /\ Receives(s) /\ Head(inbox[s]) = Finish
  /\ outbox'  = [outbox EXCEPT ![s] = Append(@, Text("done", Trailing(s)))]
  /\ pending' = [pending EXCEPT ![s] = <<>>]
  /\ worker'  = [worker EXCEPT ![s] = "dead"]
  /\ UNCHANGED failed

WorkerThrows(s) ==
  /\ WorkerFails /\ Receives(s)
  /\ worker' = [worker EXCEPT ![s] = "dead"]
  /\ failed' = failed \cup {s}
  /\ UNCHANGED <<outbox, pending>>

(* The session's listener on the main isolate.  _Done, which comes last,   *)
(* also ends the session.                                                  *)
MutantStillOpen(m) == m.kind # "done" \/ m.text = <<>>
StillOpen(m) == m.kind # "done"
MainReceives(s) ==
  LET m == Head(outbox[s]) IN
  /\ open[s] /\ outbox[s] # <<>>
  /\ outbox' = [outbox EXCEPT ![s] = Tail(@)]
  /\ ready'  = [ready EXCEPT ![s] = @ \/ m.kind = "port"]
  /\ shown'  = IF mounted THEN shown \o m.text ELSE shown
  /\ open'   = [open EXCEPT ![s] = StillOpen(m)]
  /\ UNCHANGED <<flags, link, handlers, inbox, work, pushed>>

-----------------------------------------------------------------------------
(* stopStream.                                                             *)
TapStop(i) ==
  /\ MayTap /\ streaming /\ ~starting
  /\ stopPc[i] = "none" /\ \A j \in 1 .. i - 1 : stopPc[j] # "none"
  /\ stopPc' = [stopPc EXCEPT ![i] = "recorder"]
  /\ UNCHANGED <<flags, shown, link, startPc, stopping, ports, work, pushed>>

StopEnds(i) ==
  /\ stopPc' = [stopPc EXCEPT ![i] = "over"]
  /\ streaming' = (streaming /\ ~mounted) /\ starting' = (starting /\ ~mounted)
  /\ UNCHANGED <<mounted, transcribing>>

(* The recorder has stopped and its subscription is cancelled; a second    *)
(* stopStream finds no session and is done.                                *)
MutantAwaitsFinish == FALSE
AwaitsFinish == current # None
RecorderStopped(i) ==
  /\ stopPc[i] = "recorder"
  /\ subscribed' = FALSE /\ current' = None
  /\ stopping' = [stopping EXCEPT ![i] = current]
  /\ inbox' = IF current = None THEN inbox ELSE Sent(current, Finish)
  /\ IF AwaitsFinish
       THEN stopPc' = [stopPc EXCEPT ![i] = "finish"] /\ UNCHANGED flags
       ELSE StopEnds(i)
  /\ UNCHANGED <<shown, pipeline, startPc, open, ready, outbox, work, pushed>>

(* The recorder's calls throw; Stop can be tapped again.                   *)
StopThrows(i) ==
  /\ stopPc[i] = "recorder" /\ (PluginFails \/ ~mounted)
  /\ stopPc' = [stopPc EXCEPT ![i] = "over"]
  /\ UNCHANGED <<flags, shown, link, startPc, stopping, ports, work, pushed>>

FinishReturns(i) ==
  /\ stopPc[i] = "finish" /\ ~open[stopping[i]]
  /\ StopEnds(i)
  /\ UNCHANGED <<shown, link, startPc, stopping, ports, work, pushed>>

(* State.dispose aborts the session it knows of, whose worker is killed    *)
(* between two events, and disposes of vaani without waiting for anyone:   *)
(* the call that worker is in, the worker of a stop that awaits finish and *)
(* a file being transcribed all go on, on a pipeline that is freed.        *)
Dispose ==
  /\ mounted /\ mounted' = FALSE
  /\ pipeline' = "freed"
  /\ subscribed' = FALSE
  /\ IF current = None
       THEN UNCHANGED <<open, worker>>
       ELSE /\ open'   = [open EXCEPT ![current] = FALSE]
            /\ worker' = [worker EXCEPT ![current] = "dead"]
  /\ UNCHANGED <<streaming, starting, transcribing, shown, current, handlers,
                 ready, inbox, outbox, pending, failed, pushed>>

WorkerTurn(s) ==
  WorkerStarts(s) \/ WorkerPushes(s) \/ WorkerFinishes(s) \/ WorkerThrows(s)
StartTurn(s) ==
  \/ PermissionDenied(s) \/ PermissionGranted(s) \/ SpawnWorker(s)
  \/ SessionReady(s) \/ MicStarts(s) \/ StartThrows(s)
StopTurn(i) == RecorderStopped(i) \/ StopThrows(i) \/ FinishReturns(i)

Next ==
  \/ TapTranscribe \/ TranscribeReturns \/ RecorderDelivers \/ Dispose
  \/ \E s \in Sessions :
       TapStart(s) \/ StartTurn(s) \/ WorkerTurn(s) \/ MainReceives(s)
  \/ \E i \in Stops : TapStop(i) \/ StopTurn(i)

(* Event loops go on, plugins and native calls return.                     *)
Fairness ==
  /\ \A s \in Sessions : /\ WF_vars(StartTurn(s)) /\ WF_vars(WorkerTurn(s))
                         /\ WF_vars(MainReceives(s))
  /\ \A i \in Stops : WF_vars(StopTurn(i))
  /\ WF_vars(TranscribeReturns)

Spec == Init /\ [][Next]_vars /\ Fairness

-----------------------------------------------------------------------------
(* The type of each variable; an open session has a worker, and the        *)
(* session the app knows of has answered with its port.                    *)
TypeOK ==
  /\ {mounted, streaming, starting, transcribing, subscribed} \subseteq BOOLEAN
  /\ shown \in Seq(1 .. MaxChunks)
  /\ current \in Sessions \cup {None} /\ pipeline \in {"live", "freed"}
  /\ startPc \in [Sessions ->
       {"none", "permission", "directory", "spawn", "mic", "over"}]
  /\ stopPc \in [Stops -> {"none", "recorder", "finish", "over"}]
  /\ stopping \in [Stops -> Sessions \cup {None}]
  /\ open \in [Sessions -> BOOLEAN] /\ ready \in [Sessions -> BOOLEAN]
  /\ inbox \in [Sessions -> Seq(0 .. MaxChunks)]
  /\ worker \in [Sessions -> {"none", "spawned", "idle", "dead"}]
  /\ \A s \in Sessions : open[s] => worker[s] # "none"
  /\ current # None => ready[current]

(* The transcript on the screen is, at every moment, made from the first   *)
(* chunks the recorder delivered to one session, in order and once each.   *)
TranscriptInOrder == \E s \in Sessions : IsPrefix(shown, pushed[s])

(* When a stop has waited for finish and the worker did not die, all of    *)
(* what the recorder delivered is on the screen: the trailing segment too  *)
(* is delivered before finish completes (main.dart:156-157).               *)
TranscriptComplete ==
  [][\A i \in Stops :
       /\ mounted /\ stopPc[i] = "finish" /\ stopPc'[i] = "over"
       /\ stopping[i] \notin failed
       => shown = pushed[stopping[i]]]_vars

(* While a session is open the only action the app offers is Stop          *)
(* (main.dart:191-192).                                                    *)
OnlyStopWhileStreaming == mounted /\ Idle => \A s \in Sessions : ~open[s]

(* The pipeline's inference is never driven from two isolates at once: the *)
(* flags are the serialization README.md:106-108 asks for.                 *)
Driving == {s \in Sessions : worker[s] = "idle" /\ inbox[s] # <<>>}
PipelineSerialized ==
  Cardinality(Driving) + (IF transcribing THEN 1 ELSE 0) <= 1

(* Once a worker runs inference on the freed pipeline (main.dart:51) the   *)
(* program's behaviour is undefined.                                       *)
DrivesFreed == pipeline = "freed" /\ Driving # {}

(* finish completes, or the worker has died of an exception; but nothing   *)
(* is said of a widget that is disposed while a worker has chunks, or the  *)
(* _Finish, still to work off.                                             *)
FinishCompletes ==
  \A i \in Stops :
    stopPc[i] = "finish" ~>
      stopPc[i] = "over" \/ stopping[i] \in failed \/ DrivesFreed

(* streaming_session.dart:69-70: finish completes once the worker has      *)
(* exited.                                                                 *)
FinishAlwaysCompletes ==
  \A i \in Stops : stopPc[i] = "finish" ~> stopPc[i] = "over"
=============================================================================
