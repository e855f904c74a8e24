---------------------------- MODULE SessionProofs ----------------------------
(***************************************************************************)
(* Proofs about Session, for any number of sessions, stops and chunks,     *)
(* whatever fails; all but the types for a user who waits for a handler.   *)
(***************************************************************************)
EXTENDS Session, SequenceTheorems, FiniteSetTheorems, TLAPS

-----------------------------------------------------------------------------
(* The inductive invariant.                                                *)

ChunkSeqs == Seq(1 .. MaxChunks)
Messages  == [kind : {"port", "segment", "done"}, text : ChunkSeqs]

Typed ==
  /\ TypeOK
  /\ outbox \in [Sessions -> Seq(Messages)]
  /\ pending \in [Sessions -> ChunkSeqs] /\ pushed \in [Sessions -> ChunkSeqs]
  /\ failed \subseteq Sessions

Starts(s)   == startPc[s] \notin {"none", "over"}
Stopping(i) == stopPc[i] \notin {"none", "over"}
Stopped(s)  == \E i \in Stops : stopping[i] = s
Finishing(i, s) == stopPc[i] = "finish" /\ stopping[i] = s

(* An open session is someone's: of the handler that starts it, of the     *)
(* app, or of the handler that stops it.                                   *)
Known(s) == startPc[s] = "spawn" \/ current = s \/ \E i \in Stops : Finishing(i, s)

OneHandler ==
  /\ \A s, t \in Sessions : Starts(s) /\ Starts(t) => s = t
  /\ \A i, j \in Stops : Stopping(i) /\ Stopping(j) => i = j
  /\ \A s \in Sessions, i \in Stops : ~(Starts(s) /\ Stopping(i))
  /\ transcribing => ~HandlerRunning /\ ~streaming /\ current = None

(* A session is started, known to the app and stopped at most once, in     *)
(* this order.                                                             *)
OneSession ==
  /\ \A s \in Sessions :
       /\ startPc[s] \in {"permission", "directory", "spawn"} => current = None
       /\ startPc[s] \in {"none", "permission", "directory"} =>
            worker[s] = "none"
       /\ open[s] => Known(s)
       /\ worker[s] \in {"spawned", "idle"} => open[s]
       /\ current = s \/ Stopped(s) => startPc[s] \in {"mic", "over"}
  /\ \A i \in Stops :
       /\ stopPc[i] \in {"none", "recorder"} => stopping[i] = None
       /\ stopPc[i] = "finish" => current = None /\ stopping[i] # None
  /\ current # None => ~Stopped(current)

(* While the widget is there its flags tell what is going on.              *)
FlagsFollow ==
  /\ subscribed => mounted
  /\ mounted =>
       /\ current # None => open[current] /\ streaming
       /\ \A s \in Sessions :
            /\ startPc[s] \in {"directory", "spawn", "mic"} => streaming
            /\ startPc[s] = "directory" => shown = <<>>
            /\ startPc[s] = "spawn" => open[s]
       /\ \A i \in Stops : Stopping(i) => streaming

(* Nothing is in the queues of a session that has not begun.               *)
Fresh ==
  \A s \in Sessions :
    /\ worker[s] = "none" => outbox[s] = <<>>
    /\ startPc[s] \in {"none", "permission", "directory", "spawn"} =>
         pushed[s] = <<>> /\ inbox[s] = <<>> /\ pending[s] = <<>>
    /\ s \in failed => worker[s] = "dead"

(* Only a session that is being stopped is told to finish, and a worker    *)
(* that has finished says nothing more.                                    *)
DoneIsLast ==
  \A s \in Sessions :
    /\ \A k \in 1 .. Len(inbox[s]) : inbox[s][k] = Finish => Stopped(s)
    /\ \A k \in 1 .. Len(outbox[s]) :
         outbox[s][k].kind = "done" =>
           /\ k = Len(outbox[s])
           /\ worker[s] = "dead" /\ s \notin failed /\ Stopped(s)

Control == OneHandler /\ OneSession /\ FlagsFollow /\ Fresh /\ DoneIsLast

-----------------------------------------------------------------------------
(* Constants and types.                                                    *)

LEMMA ConstantFacts ==
  /\ Sessions \subseteq Nat /\ Stops \subseteq Nat /\ MaxChunks \in Nat
  /\ None \notin Sessions
  /\ Finish \in 0 .. MaxChunks /\ Finish \notin 1 .. MaxChunks
BY SessionAssumption DEF Sessions, Stops, None, Finish

LEMMA FlagTypes ==
  ASSUME Typed
  PROVE  /\ mounted \in BOOLEAN /\ streaming \in BOOLEAN
         /\ starting \in BOOLEAN /\ transcribing \in BOOLEAN
         /\ subscribed \in BOOLEAN
BY DEF Typed, TypeOK

(* The next chunk is a chunk.                                              *)
LEMMA NextChunk ==
  ASSUME Typed, Cardinality(Chunks) + 1 <= MaxChunks
  PROVE  Cardinality(Chunks) + 1 \in 1 .. MaxChunks
<1>1. Chunks \subseteq 1 .. MaxChunks
  <2>1. \A s \in Sessions : pushed[s] \in ChunkSeqs
    BY DEF Typed
  <2>2. \A q \in ChunkSeqs : ToSet(q) \subseteq 1 .. MaxChunks
    <3> SUFFICES ASSUME NEW q \in ChunkSeqs PROVE ToSet(q) \subseteq 1 .. MaxChunks
      OBVIOUS
    <3>1. q \in [1 .. Len(q) -> 1 .. MaxChunks] /\ DOMAIN q = 1 .. Len(q)
      BY LenProperties DEF ChunkSeqs
    <3> QED
      BY <3>1 DEF ToSet
  <2> QED
    BY <2>1, <2>2 DEF Chunks
<1>2. IsFiniteSet(1 .. MaxChunks)
  <2>1. 1 \in Int /\ MaxChunks \in Int
    BY ConstantFacts
  <2> QED
    BY <2>1, FS_Interval
<1>3. IsFiniteSet(Chunks)
  BY <1>1, <1>2, FS_Subset
<1>4. Cardinality(Chunks) \in Nat
  BY <1>3, FS_CardinalityType
<1> QED
  BY <1>4, ConstantFacts

LEMMA InitTyped == Init => Typed
<1> SUFFICES ASSUME Init PROVE Typed
  OBVIOUS
<1>1. <<>> \in ChunkSeqs /\ <<>> \in Seq(0 .. MaxChunks) /\ <<>> \in Seq(Messages)
  BY EmptySeq DEF ChunkSeqs
<1> QED
  BY <1>1 DEF Init, Typed, TypeOK, ChunkSeqs

(* Messages are taken from and added to the ends of the ports.             *)
LEMMA PortTypes ==
  ASSUME Typed, NEW s \in Sessions
  PROVE  /\ inbox[s] # <<>> => /\ Head(inbox[s]) \in 0 .. MaxChunks
                               /\ Tail(inbox[s]) \in Seq(0 .. MaxChunks)
         /\ outbox[s] # <<>> => /\ Head(outbox[s]) \in Messages
                                /\ Tail(outbox[s]) \in Seq(Messages)
         /\ \A m \in 0 .. MaxChunks :
              /\ Append(inbox[s], m) \in Seq(0 .. MaxChunks)
              /\ Sent(s, m) \in [Sessions -> Seq(0 .. MaxChunks)]
         /\ \A m \in Messages : Append(outbox[s], m) \in Seq(Messages)
<1>1. /\ inbox \in [Sessions -> Seq(0 .. MaxChunks)]
      /\ inbox[s] \in Seq(0 .. MaxChunks) /\ outbox[s] \in Seq(Messages)
  BY DEF Typed, TypeOK
<1>2. inbox[s] # <<>> => /\ Head(inbox[s]) \in 0 .. MaxChunks
                         /\ Tail(inbox[s]) \in Seq(0 .. MaxChunks)
  BY <1>1, HeadTailProperties
<1>3. outbox[s] # <<>> => /\ Head(outbox[s]) \in Messages
                          /\ Tail(outbox[s]) \in Seq(Messages)
  BY <1>1, HeadTailProperties
<1>4. \A m \in 0 .. MaxChunks : Append(inbox[s], m) \in Seq(0 .. MaxChunks)
  BY <1>1, AppendProperties
<1>5. \A m \in 0 .. MaxChunks : Sent(s, m) \in [Sessions -> Seq(0 .. MaxChunks)]
  BY <1>1, <1>4 DEF Sent
<1>6. \A m \in Messages : Append(outbox[s], m) \in Seq(Messages)
  BY <1>1, AppendProperties
<1> QED
  BY <1>2, <1>3, <1>4, <1>5, <1>6

(* What the main isolate does to itself keeps the types.                   *)
LEMMA TypedAppSteps ==
  ASSUME Typed,
         \/ TapTranscribe \/ TranscribeReturns \/ Dispose
         \/ \E s \in Sessions : TapStart(s) \/ StartTurn(s)
         \/ \E i \in Stops : TapStop(i) \/ StopThrows(i) \/ FinishReturns(i)
  PROVE  Typed'
<1>0. /\ <<>> \in ChunkSeqs /\ None \notin Sessions
      /\ mounted \in BOOLEAN /\ streaming \in BOOLEAN
      /\ starting \in BOOLEAN
  BY EmptySeq, FlagTypes, ConstantFacts DEF ChunkSeqs
<1>1. CASE TapTranscribe \/ TranscribeReturns
  BY <1>0, <1>1 DEF Typed, TypeOK, ChunkSeqs, TapTranscribe, TranscribeReturns,
     Cleared, link, handlers, ports, work
<1>2. CASE Dispose
  BY <1>0, <1>2 DEF Typed, TypeOK, Dispose, handlers
<1>3. ASSUME NEW s \in Sessions, TapStart(s) \/ StartTurn(s)
      PROVE  Typed'
  <2>1. CASE TapStart(s)
    BY <2>1 DEF Typed, TypeOK, TapStart, flags, link, ports, work
  <2>2. CASE PermissionDenied(s) \/ PermissionGranted(s)
    BY <1>0, <2>2 DEF Typed, TypeOK, ChunkSeqs, PermissionDenied,
       PermissionGranted, Cleared, flags, link, ports, work
  <2>3. CASE SpawnWorker(s)
    BY <2>3 DEF Typed, TypeOK, SpawnWorker, flags, link
  <2>4. CASE SessionReady(s)
    BY <2>4 DEF Typed, TypeOK, SessionReady, Spawned, flags, ports, work
  <2>5. CASE MicStarts(s)
    BY <2>5 DEF Typed, TypeOK, MicStarts, ports, work
  <2>6. CASE StartThrows(s)
    BY <2>6 DEF Typed, TypeOK, StartThrows, flags, link, ports, work
  <2> QED
    BY <1>3, <2>1, <2>2, <2>3, <2>4, <2>5, <2>6 DEF StartTurn
<1>4. ASSUME NEW i \in Stops, TapStop(i) \/ StopThrows(i) \/ FinishReturns(i)
      PROVE  Typed'
  <2>1. CASE TapStop(i) \/ StopThrows(i)
    BY <2>1 DEF Typed, TypeOK, TapStop, StopThrows, flags, link, ports, work
  <2>2. CASE FinishReturns(i)
    BY <1>0, <2>2 DEF Typed, TypeOK, FinishReturns, StopEnds, link, ports, work
  <2> QED
    BY <1>4, <2>1, <2>2
<1> QED
  BY <1>1, <1>2, <1>3, <1>4

LEMMA TypedMessageSteps ==
  ASSUME Typed,
         \/ RecorderDelivers
         \/ \E s \in Sessions : WorkerTurn(s) \/ MainReceives(s)
         \/ \E i \in Stops : RecorderStopped(i)
  PROVE  Typed'
<1>1. CASE RecorderDelivers
  <2> DEFINE n == Cardinality(Chunks) + 1
  <2>1. /\ current \in Sessions /\ n <= MaxChunks
        /\ inbox' = Sent(current, n)
        /\ pushed' = [pushed EXCEPT ![current] = Append(@, n)]
    BY <1>1 DEF RecorderDelivers, Typed, TypeOK
  <2>2. n \in 1 .. MaxChunks /\ n \in 0 .. MaxChunks
    BY <2>1, NextChunk
  <2> HIDE DEF n
  <2>3. inbox' \in [Sessions -> Seq(0 .. MaxChunks)]
    BY <2>1, <2>2, PortTypes
  <2>4. pushed[current] \in Seq(1 .. MaxChunks)
    BY <2>1 DEF Typed, ChunkSeqs
  <2>5. Append(pushed[current], n) \in Seq(1 .. MaxChunks)
    BY <2>2, <2>4, AppendProperties
  <2>6. pushed' \in [Sessions -> ChunkSeqs]
    BY <2>1, <2>5 DEF Typed, ChunkSeqs
  <2> QED
    BY <1>1, <2>3, <2>6
    DEF RecorderDelivers, Typed, TypeOK, flags, link, handlers, work
<1>2. ASSUME NEW s \in Sessions, WorkerTurn(s) PROVE Typed'
  <2>0. /\ pending[s] \in ChunkSeqs /\ <<>> \in ChunkSeqs
        /\ "port" \in {"port", "segment", "done"}
    BY EmptySeq DEF Typed, ChunkSeqs
  <2>1. \A q \in ChunkSeqs, k \in {"port", "segment", "done"} :
          Text(k, q) \in Messages
    BY DEF Text, Messages
  <2>2. CASE WorkerStarts(s)
    <3>1. Text("port", <<>>) \in Messages
      BY <2>0, <2>1
    <3>2. outbox' \in [Sessions -> Seq(Messages)]
      BY <2>2, <3>1, PortTypes DEF WorkerStarts, Typed
    <3> QED
      BY <2>2, <3>2 DEF WorkerStarts, Typed, TypeOK, flags, link, handlers
  <2>3. CASE WorkerPushes(s)
    <3> DEFINE heard == Append(pending[s], Head(inbox[s]))
    <3>1. inbox[s] # <<>> /\ Head(inbox[s]) # Finish
      BY <2>3 DEF WorkerPushes, Receives
    <3>2. Head(inbox[s]) \in 1 .. MaxChunks
      <4>1. Head(inbox[s]) \in 0 .. MaxChunks
        BY <3>1, PortTypes
      <4> QED
        BY <3>1, <4>1 DEF Finish
    <3>3. heard \in ChunkSeqs
      BY <2>0, <3>2, AppendProperties DEF ChunkSeqs
    <3>4. /\ Tail(inbox[s]) \in Seq(0 .. MaxChunks)
          /\ Append(outbox[s], Text("segment", heard)) \in Seq(Messages)
      BY <2>1, <3>1, <3>3, PortTypes
    <3> HIDE DEF heard
    <3>5. /\ inbox' = [inbox EXCEPT ![s] = Tail(@)]
          /\ \/ pending' = [pending EXCEPT ![s] = heard] /\ outbox' = outbox
             \/ /\ outbox'  = [outbox EXCEPT ![s] = Append(@, Text("segment", heard))]
                /\ pending' = [pending EXCEPT ![s] = <<>>]
      BY <2>3 DEF WorkerPushes, Receives, Rest, heard
    <3>6. /\ outbox' \in [Sessions -> Seq(Messages)]
          /\ pending' \in [Sessions -> ChunkSeqs]
          /\ inbox' \in [Sessions -> Seq(0 .. MaxChunks)]
      <4>1. /\ outbox \in [Sessions -> Seq(Messages)]
            /\ pending \in [Sessions -> ChunkSeqs]
            /\ inbox \in [Sessions -> Seq(0 .. MaxChunks)]
        BY DEF Typed, TypeOK
      <4>2. /\ inbox' \in [Sessions -> Seq(0 .. MaxChunks)]
            /\ pending' \in [Sessions -> ChunkSeqs]
        BY <2>0, <3>3, <3>4, <3>5, <4>1
      <4>3. outbox' \in [Sessions -> Seq(Messages)]
        BY <3>4, <3>5, <4>1
      <4> QED
        BY <4>2, <4>3
    <3> QED
      BY <2>3, <3>6
      DEF WorkerPushes, Receives, Typed, TypeOK, flags, link, handlers
  <2>4. CASE WorkerFinishes(s) \/ WorkerThrows(s)
    <3>1. inbox[s] # <<>> /\ inbox' = [inbox EXCEPT ![s] = Tail(@)]
      BY <2>4 DEF WorkerFinishes, WorkerThrows, Receives
    <3>2. Append(outbox[s], Text("done", pending[s])) \in Seq(Messages)
      BY <2>0, <2>1, PortTypes
    <3>3. inbox' \in [Sessions -> Seq(0 .. MaxChunks)]
      BY <3>1, PortTypes DEF Typed, TypeOK
    <3>4. /\ outbox' \in [Sessions -> Seq(Messages)]
          /\ pending' \in [Sessions -> ChunkSeqs]
      BY <2>0, <2>4, <3>2 DEF WorkerFinishes, WorkerThrows, Trailing, Typed
    <3> QED
      BY <2>4, <3>3, <3>4 DEF WorkerFinishes, WorkerThrows, Receives, Typed,
         TypeOK, flags, link, handlers
  <2> QED
    BY <1>2, <2>2, <2>3, <2>4 DEF WorkerTurn
<1>3. ASSUME NEW s \in Sessions, MainReceives(s) PROVE Typed'
  <2> DEFINE m == Head(outbox[s])
  <2>1. m \in Messages /\ Tail(outbox[s]) \in Seq(Messages)
    BY <1>3, PortTypes DEF MainReceives
  <2>2. shown \o m.text \in Seq(1 .. MaxChunks)
    <3>1. m.text \in Seq(1 .. MaxChunks) /\ shown \in Seq(1 .. MaxChunks)
      BY <2>1 DEF Messages, ChunkSeqs, Typed, TypeOK
    <3> QED
      BY <3>1, ConcatProperties
  <2>3. shown' \in Seq(1 .. MaxChunks)
    BY <1>3, <2>2 DEF MainReceives, Typed, TypeOK
  <2>4. outbox' \in [Sessions -> Seq(Messages)]
    BY <1>3, <2>1 DEF MainReceives, Typed
  <2>5. ready' \in [Sessions -> BOOLEAN]
    BY <1>3 DEF MainReceives, Typed, TypeOK
  <2>6. open' \in [Sessions -> BOOLEAN]
    BY <1>3 DEF MainReceives, Typed, TypeOK, StillOpen
  <2>7. current' # None => ready'[current']
    <3>1. current' = current /\ current \in Sessions \cup {None}
      BY <1>3 DEF MainReceives, link, Typed, TypeOK
    <3> QED
      BY <1>3, <3>1 DEF MainReceives, Typed, TypeOK
  <2>8. \A t \in Sessions : open'[t] => worker'[t] # "none"
    BY <1>3 DEF MainReceives, work, Typed, TypeOK
  <2> QED
    BY <1>3, <2>3, <2>4, <2>5, <2>6, <2>7, <2>8
    DEF MainReceives, Typed, TypeOK, flags, link, handlers, work
<1>4. ASSUME NEW i \in Stops, RecorderStopped(i) PROVE Typed'
  <2>1. inbox' \in [Sessions -> Seq(0 .. MaxChunks)]
    <3>1. current # None => Sent(current, Finish) \in [Sessions -> Seq(0 .. MaxChunks)]
      BY PortTypes, ConstantFacts DEF Typed, TypeOK
    <3> QED
      BY <1>4, <3>1 DEF RecorderStopped, Typed, TypeOK
  <2>2. /\ {mounted, streaming, starting, transcribing, subscribed}' \subseteq BOOLEAN
        /\ stopPc' \in [Stops -> {"none", "recorder", "finish", "over"}]
    BY <1>4, FlagTypes DEF RecorderStopped, StopEnds, flags, Typed, TypeOK
  <2> QED
    BY <1>4, <2>1, <2>2 DEF RecorderStopped, Typed, TypeOK, work
<1> QED
  BY <1>1, <1>2, <1>3, <1>4

LEMMA TypedStep == Typed /\ [Next]_vars => Typed'
<1> SUFFICES ASSUME Typed, [Next]_vars PROVE Typed'
  OBVIOUS
<1>1. CASE UNCHANGED vars
  BY <1>1 DEF vars, flags, link, handlers, ports, work, Typed, TypeOK
<1>2. CASE Next
  BY <1>2, TypedAppSteps, TypedMessageSteps DEF Next, StopTurn
<1> QED
  BY <1>1, <1>2

(* Every variable has its type, an open session a worker, and the session  *)
(* the app knows of has answered, even if the user does not wait.          *)
THEOREM TypeCorrect == Spec => []TypeOK
<1>1. Typed => TypeOK
  BY DEF Typed
<1> QED
  BY <1>1, InitTyped, TypedStep, PTL DEF Spec

-----------------------------------------------------------------------------
(* Who may act: the handlers, the sessions and the flags.                  *)

(* The steps by which workers and messages move, and those of the handlers *)
(* and the widget.                                                         *)
MessageStep ==
  \/ RecorderDelivers
  \/ \E s \in Sessions : WorkerTurn(s) \/ MainReceives(s)
AppStep ==
  \/ TapTranscribe \/ TranscribeReturns \/ Dispose
  \/ \E s \in Sessions : TapStart(s) \/ StartTurn(s)
  \/ \E i \in Stops : TapStop(i) \/ StopTurn(i)

LEMMA StepKinds == Next => MessageStep \/ AppStep
BY DEF Next, MessageStep, AppStep

(* While the file is transcribed nothing else goes on; whoever taps finds  *)
(* no handler running, and whoever starts finds no session.                *)
LEMMA TapFacts ==
  ASSUME Patient, Typed, Control, MayTap
  PROVE  /\ mounted /\ \A s \in Sessions : ~Starts(s)
         /\ \A i \in Stops : ~Stopping(i)
         /\ Idle => current = None /\ \A s \in Sessions : ~open[s]
<1>1. /\ mounted /\ \A s \in Sessions : ~Starts(s)
      /\ \A i \in Stops : ~Stopping(i)
  BY DEF MayTap, HandlerRunning, Starts, Stopping
<1>2. Idle => current = None
  BY <1>1 DEF Control, FlagsFollow, Idle
<1>3. ASSUME current = None, NEW s \in Sessions PROVE ~open[s]
  <2>1. ~Known(s)
    BY <1>1, <1>3, ConstantFacts DEF Known, Finishing, Starts, Stopping
  <2> QED
    BY <2>1 DEF Control, OneSession
<1> QED
  BY <1>1, <1>2, <1>3

LEMMA OneHandlerTaps ==
  ASSUME Patient, Typed, Control,
         \/ TapTranscribe \/ \E s \in Sessions : TapStart(s)
         \/ \E i \in Stops : TapStop(i)
  PROVE  OneHandler'
<1>1. /\ \A s \in Sessions : ~Starts(s)
      /\ \A i \in Stops : ~Stopping(i)
      /\ Idle => current = None
      /\ startPc \in [Sessions ->
           {"none", "permission", "directory", "spawn", "mic", "over"}]
      /\ stopPc \in [Stops -> {"none", "recorder", "finish", "over"}]
  BY TapFacts DEF TapTranscribe, TapStart, TapStop, Typed, TypeOK
<1>2. CASE TapTranscribe
  BY <1>1, <1>2
  DEF TapTranscribe, Idle, OneHandler, Starts, Stopping, HandlerRunning, handlers, link
<1>3. ASSUME NEW s \in Sessions, TapStart(s) PROVE OneHandler'
  BY <1>1, <1>3
  DEF TapStart, Idle, OneHandler, Starts, Stopping, HandlerRunning, flags, link
<1>4. ASSUME NEW i \in Stops, TapStop(i) PROVE OneHandler'
  <2>1. ~transcribing
    BY <1>4 DEF TapStop, Control, OneHandler
  <2> QED
    BY <1>1, <1>4, <2>1
    DEF TapStop, Idle, OneHandler, Starts, Stopping, HandlerRunning, flags, link
<1> QED
  BY <1>2, <1>3, <1>4

LEMMA OneHandlerStep == Patient /\ Typed /\ Control /\ [Next]_vars => OneHandler'
<1> SUFFICES ASSUME Patient, Typed, Control, [Next]_vars PROVE OneHandler'
  OBVIOUS
<1>0. /\ OneHandler
      /\ startPc \in [Sessions ->
           {"none", "permission", "directory", "spawn", "mic", "over"}]
      /\ stopPc \in [Stops -> {"none", "recorder", "finish", "over"}]
  BY DEF Typed, TypeOK, Control
<1>1. CASE UNCHANGED vars
  BY <1>0, <1>1
  DEF OneHandler, Starts, Stopping, HandlerRunning, vars, flags, link, handlers
<1>2. CASE MessageStep
  BY <1>0, <1>2
  DEF OneHandler, Starts, Stopping, HandlerRunning, flags, link, handlers, MessageStep,
      RecorderDelivers, WorkerTurn, WorkerStarts, WorkerPushes, WorkerFinishes,
      WorkerThrows, Receives, MainReceives
<1>3. CASE TranscribeReturns \/ Dispose
  BY <1>0, <1>3 DEF OneHandler, Starts, Stopping, HandlerRunning, link, handlers,
     TranscribeReturns, Dispose
<1>4. ASSUME NEW s \in Sessions, StartTurn(s) PROVE OneHandler'
  <2>1. Starts(s) /\ ~transcribing
    BY <1>0, <1>4 DEF OneHandler, HandlerRunning, Starts, StartTurn, PermissionDenied,
       PermissionGranted, SpawnWorker, SessionReady, Spawned, MicStarts, StartThrows
  <2>2. /\ transcribing' = transcribing /\ stopPc' = stopPc
        /\ \E pc \in {"directory", "spawn", "mic", "over"} :
             startPc' = [startPc EXCEPT ![s] = pc]
    BY <1>4 DEF StartTurn, PermissionDenied, PermissionGranted, SpawnWorker,
       SessionReady, MicStarts, StartThrows, flags
  <2> QED
    BY <1>0, <2>1, <2>2 DEF OneHandler, Starts, Stopping
<1>5. ASSUME NEW i \in Stops, StopTurn(i) PROVE OneHandler'
  <2>1. Stopping(i) /\ ~transcribing
    BY <1>0, <1>5 DEF OneHandler, HandlerRunning, Stopping, StopTurn,
       RecorderStopped, StopThrows, FinishReturns
  <2>2. /\ transcribing' = transcribing /\ startPc' = startPc
        /\ \E pc \in {"finish", "over"} : stopPc' = [stopPc EXCEPT ![i] = pc]
    BY <1>5 DEF StopTurn, RecorderStopped, StopThrows, FinishReturns, StopEnds, flags
  <2> QED
    BY <1>0, <2>1, <2>2 DEF OneHandler, Starts, Stopping
<1> QED
  BY <1>1, <1>2, <1>3, <1>4, <1>5, StepKinds, OneHandlerTaps DEF AppStep

LEMMA OneSessionTaps ==
  ASSUME Patient, Typed, Control,
         \/ TapTranscribe \/ \E s \in Sessions : TapStart(s)
         \/ \E i \in Stops : TapStop(i)
  PROVE  OneSession' /\ FlagsFollow'
<1>1. /\ \A s \in Sessions : ~Starts(s)
      /\ \A i \in Stops : ~Stopping(i)
      /\ Idle => current = None /\ \A s \in Sessions : ~open[s]
      /\ startPc \in [Sessions ->
           {"none", "permission", "directory", "spawn", "mic", "over"}]
      /\ stopPc \in [Stops -> {"none", "recorder", "finish", "over"}]
      /\ OneSession /\ FlagsFollow
  BY TapFacts DEF TapTranscribe, TapStart, TapStop, Typed, TypeOK, Control
<1>2. CASE TapTranscribe
  BY <1>1, <1>2
  DEF TapTranscribe, Idle, OneSession, FlagsFollow, Known, Finishing, Starts, Stopping,
      Stopped, handlers, link, ports, work
<1>3. ASSUME NEW s \in Sessions, TapStart(s) PROVE OneSession' /\ FlagsFollow'
  BY <1>1, <1>3
  DEF TapStart, Idle, OneSession, FlagsFollow, Known, Finishing, Starts, Stopping,
      Stopped, flags, link, ports, work
<1>4. ASSUME NEW i \in Stops, TapStop(i) PROVE OneSession' /\ FlagsFollow'
  BY <1>1, <1>4
  DEF TapStop, OneSession, FlagsFollow, Known, Finishing, Starts, Stopping, Stopped,
      flags, link, ports, work
<1> QED
  BY <1>2, <1>3, <1>4

LEMMA OneSessionMessages ==
  ASSUME Typed, Control, MessageStep \/ TranscribeReturns \/ UNCHANGED vars
  PROVE  OneSession' /\ FlagsFollow'
<1>0. /\ OneSession /\ FlagsFollow
      /\ open \in [Sessions -> BOOLEAN]
      /\ worker \in [Sessions -> {"none", "spawned", "idle", "dead"}]
  BY DEF Typed, TypeOK, Control
<1>1. CASE TranscribeReturns \/ RecorderDelivers \/ UNCHANGED vars
  BY <1>0, <1>1 DEF OneSession, FlagsFollow, Known, Finishing, Stopping, Stopped,
     TranscribeReturns, Cleared, RecorderDelivers, vars, flags, handlers, link, ports, work
<1>2. ASSUME NEW s \in Sessions, WorkerTurn(s) PROVE OneSession' /\ FlagsFollow'
  <2>1. /\ UNCHANGED <<flags, shown, link, handlers, open>>
        /\ worker[s] \in {"spawned", "idle"}
        /\ \E w \in {"idle", "dead"} : worker' = [worker EXCEPT ![s] = w]
    BY <1>0, <1>2 DEF WorkerTurn, WorkerStarts, WorkerPushes, WorkerFinishes,
       WorkerThrows, Receives
  <2> QED
    BY <1>0, <2>1 DEF OneSession, FlagsFollow, Known, Finishing, Stopping, Stopped,
       flags, handlers, link
<1>3. ASSUME NEW s \in Sessions, MainReceives(s) PROVE OneSession' /\ FlagsFollow'
  <2> DEFINE m == Head(outbox[s])
  <2>1. /\ UNCHANGED <<flags, link, handlers, worker>>
        /\ open[s] /\ open' = [open EXCEPT ![s] = m.kind # "done"]
        /\ shown' # shown => mounted
    BY <1>3 DEF MainReceives, StillOpen, work
  <2>2. m.kind = "done" => worker[s] = "dead" /\ Stopped(s)
    <3>1. outbox[s] \in Seq(Messages) /\ outbox[s] # <<>>
      BY <1>3 DEF MainReceives, Typed
    <3>2. m = outbox[s][1] /\ 1 \in 1 .. Len(outbox[s])
      BY <3>1
    <3> QED
      BY <3>2 DEF Control, DoneIsLast
  <2>3. \A t \in Sessions : startPc[t] # "directory"
    <3>1. Known(s)
      BY <1>0, <2>1 DEF OneSession
    <3>2. ASSUME NEW t \in Sessions, startPc[t] = "directory" PROVE FALSE
      <4>1. current = None /\ Starts(t) /\ (startPc[s] = "spawn" => Starts(s))
        BY <1>0, <3>2 DEF OneSession, Starts
      <4>2. PICK i \in Stops : Finishing(i, s)
        BY <3>1, <3>2, <4>1, ConstantFacts DEF Known, Control, OneHandler
      <4>3. Stopping(i)
        BY <4>2 DEF Finishing, Stopping
      <4> QED
        BY <4>1, <4>3 DEF Control, OneHandler
    <3> QED
      BY <3>2
  <2> HIDE DEF m
  <2>4. OneSession'
    BY <1>0, <2>1, <2>2
    DEF OneSession, Known, Finishing, Stopped, handlers, link
  <2>5. FlagsFollow'
    BY <1>0, <2>1, <2>2, <2>3
    DEF OneSession, FlagsFollow, Stopping, Stopped, flags, handlers, link
  <2> QED
    BY <2>4, <2>5
<1> QED
  BY <1>1, <1>2, <1>3 DEF MessageStep

LEMMA OneSessionStarts ==
  ASSUME Typed, Control, NEW s \in Sessions, StartTurn(s)
  PROVE  OneSession' /\ FlagsFollow'
<1>0. /\ OneSession /\ FlagsFollow
      /\ open \in [Sessions -> BOOLEAN]
      /\ worker \in [Sessions -> {"none", "spawned", "idle", "dead"}]
      /\ startPc \in [Sessions ->
           {"none", "permission", "directory", "spawn", "mic", "over"}]
      /\ None \notin Sessions
  BY ConstantFacts DEF Typed, TypeOK, Control
<1>1. /\ \A t \in Sessions : Starts(t) => t = s
      /\ \A i \in Stops : ~Stopping(i)
  <2>1. Starts(s)
    BY DEF StartTurn, PermissionDenied, PermissionGranted, SpawnWorker,
       SessionReady, Spawned, MicStarts, StartThrows, Starts
  <2> QED
    BY <2>1 DEF Control, OneHandler
<1>2. CASE PermissionDenied(s) \/ StartThrows(s)
  BY <1>0, <1>1, <1>2 DEF PermissionDenied, StartThrows, Cleared, OneSession, FlagsFollow,
     Known, Finishing, Starts, Stopping, Stopped, flags, link, ports, work
<1>3. CASE PermissionGranted(s)
  BY <1>0, <1>1, <1>3 DEF PermissionGranted, OneSession, FlagsFollow,
     Known, Finishing, Starts, Stopping, Stopped, link, ports, work
<1>4. CASE SpawnWorker(s)
  BY <1>0, <1>1, <1>4 DEF SpawnWorker, OneSession, FlagsFollow,
     Known, Finishing, Starts, Stopping, Stopped, flags, link
<1>5. CASE SessionReady(s)
  <2>1. \A t \in Sessions : open[t] => t = s
    BY <1>0, <1>1, <1>5 DEF SessionReady, Spawned, OneSession, Known, Finishing, Starts,
       Stopping
  <2>2. OneSession'
    BY <1>0, <1>1, <1>5, <2>1 DEF SessionReady, Spawned, OneSession,
       Known, Finishing, Starts, Stopping, Stopped, flags, ports, work
  <2>3. FlagsFollow'
    BY <1>0, <1>1, <1>5 DEF SessionReady, Spawned, FlagsFollow, Starts, Stopping,
       flags, ports, work
  <2> QED
    BY <2>2, <2>3
<1>6. CASE MicStarts(s)
  BY <1>0, <1>1, <1>6 DEF MicStarts, OneSession, FlagsFollow,
     Known, Finishing, Starts, Stopping, Stopped, ports, work
<1> QED
  BY <1>2, <1>3, <1>4, <1>5, <1>6 DEF StartTurn

LEMMA OneSessionStops ==
  ASSUME Typed, Control, NEW i \in Stops, StopTurn(i)
  PROVE  OneSession' /\ FlagsFollow'
<1>0. /\ OneSession /\ FlagsFollow
      /\ open \in [Sessions -> BOOLEAN]
      /\ stopPc \in [Stops -> {"none", "recorder", "finish", "over"}]
      /\ stopping \in [Stops -> Sessions \cup {None}]
      /\ None \notin Sessions
  BY ConstantFacts DEF Typed, TypeOK, Control
<1>1. /\ \A j \in Stops : Stopping(j) => j = i
      /\ \A s \in Sessions : ~Starts(s)
  <2>1. Stopping(i)
    BY DEF StopTurn, RecorderStopped, StopThrows, FinishReturns, Stopping
  <2> QED
    BY <2>1 DEF Control, OneHandler
<1>2. CASE RecorderStopped(i)
  BY <1>0, <1>1, <1>2 DEF RecorderStopped, AwaitsFinish, StopEnds, OneSession, FlagsFollow,
     Known, Finishing, Starts, Stopping, Stopped, flags, work
<1>3. CASE StopThrows(i)
  BY <1>0, <1>1, <1>3 DEF StopThrows, OneSession, FlagsFollow,
     Known, Finishing, Starts, Stopping, Stopped, flags, link, ports, work
<1>4. CASE FinishReturns(i)
  BY <1>0, <1>1, <1>4 DEF FinishReturns, StopEnds, OneSession, FlagsFollow,
     Known, Finishing, Starts, Stopping, Stopped, link, ports, work
<1> QED
  BY <1>2, <1>3, <1>4 DEF StopTurn

LEMMA OneSessionDispose ==
  ASSUME Typed, Control, Dispose
  PROVE  OneSession' /\ FlagsFollow'
<1>0. /\ OneSession /\ FlagsFollow
      /\ open \in [Sessions -> BOOLEAN]
      /\ worker \in [Sessions -> {"none", "spawned", "idle", "dead"}]
      /\ None \notin Sessions /\ current \in Sessions \cup {None}
  BY ConstantFacts DEF Typed, TypeOK, Control
<1> QED
  BY <1>0 DEF Dispose, OneSession, FlagsFollow, Known, Finishing, Stopped, handlers

LEMMA OneSessionStep ==
  Patient /\ Typed /\ Control /\ [Next]_vars => OneSession' /\ FlagsFollow'
BY OneSessionTaps, OneSessionMessages, OneSessionStarts, OneSessionStops,
   OneSessionDispose, StepKinds DEF AppStep

-----------------------------------------------------------------------------
(* What is in the queues.                                                  *)

LEMMA FreshStep == Typed /\ Control /\ [Next]_vars => Fresh'
<1> SUFFICES ASSUME Typed, Control, [Next]_vars PROVE Fresh'
  OBVIOUS
<1>0. /\ Fresh /\ OneSession
      /\ worker \in [Sessions -> {"none", "spawned", "idle", "dead"}]
      /\ startPc \in [Sessions ->
           {"none", "permission", "directory", "spawn", "mic", "over"}]
      /\ outbox \in [Sessions -> Seq(Messages)]
      /\ inbox \in [Sessions -> Seq(0 .. MaxChunks)]
      /\ pending \in [Sessions -> ChunkSeqs] /\ pushed \in [Sessions -> ChunkSeqs]
      /\ None \notin Sessions /\ current \in Sessions \cup {None}
  BY ConstantFacts DEF Typed, TypeOK, Control
<1>1. CASE \/ TapTranscribe \/ TranscribeReturns \/ UNCHANGED vars
           \/ \E i \in Stops : TapStop(i) \/ StopThrows(i) \/ FinishReturns(i)
  BY <1>0, <1>1 DEF Fresh, TapTranscribe, TranscribeReturns, TapStop, StopThrows,
     FinishReturns, vars, handlers, ports, work
<1>2. CASE Dispose
  BY <1>0, <1>2 DEF Fresh, OneSession, Dispose, handlers
<1>3. CASE RecorderDelivers
  BY <1>0, <1>3 DEF Fresh, OneSession, RecorderDelivers, Sent, handlers, work
<1>4. ASSUME NEW i \in Stops, RecorderStopped(i) PROVE Fresh'
  BY <1>0, <1>4 DEF Fresh, OneSession, RecorderStopped, Sent, work
<1>5. ASSUME NEW s \in Sessions, TapStart(s) \/ StartTurn(s) PROVE Fresh'
  BY <1>0, <1>5 DEF Fresh, OneSession, TapStart, StartTurn, PermissionDenied,
     PermissionGranted, SpawnWorker, SessionReady, Spawned, MicStarts, StartThrows,
     ports, work
<1>6. ASSUME NEW s \in Sessions, WorkerStarts(s) PROVE Fresh'
  BY <1>0, <1>6 DEF Fresh, OneSession, WorkerStarts, handlers
<1>7. ASSUME NEW s \in Sessions, Receives(s) PROVE s \notin failed /\ inbox[s] # <<>>
  BY <1>0, <1>7 DEF Fresh, Receives
<1>8. ASSUME NEW s \in Sessions, WorkerPushes(s) \/ WorkerFinishes(s) \/ WorkerThrows(s)
      PROVE  Fresh'
  BY <1>0, <1>7, <1>8 DEF Fresh, OneSession, WorkerPushes, WorkerFinishes, WorkerThrows,
     Receives, handlers
<1>9. ASSUME NEW s \in Sessions, MainReceives(s) PROVE Fresh'
  BY <1>0, <1>9 DEF Fresh, OneSession, MainReceives, handlers, work
<1> QED
  BY <1>1, <1>2, <1>3, <1>4, <1>5, <1>6, <1>8, <1>9
  DEF Next, StopTurn, WorkerTurn

LEMMA AppendIndexes ==
  ASSUME NEW S, NEW q \in Seq(S), NEW e
  PROVE  \A k \in 1 .. Len(Append(q, e)) :
           \/ k \in 1 .. Len(q) /\ Append(q, e)[k] = q[k]
           \/ k = Len(q) + 1 /\ Append(q, e)[k] = e
OBVIOUS

LEMMA DoneIsLastStep == Typed /\ Control /\ [Next]_vars => DoneIsLast'
<1> SUFFICES ASSUME Typed, Control, [Next]_vars PROVE DoneIsLast'
  OBVIOUS
<1>0. /\ DoneIsLast /\ Fresh /\ OneSession
      /\ worker \in [Sessions -> {"none", "spawned", "idle", "dead"}]
      /\ outbox \in [Sessions -> Seq(Messages)]
      /\ inbox \in [Sessions -> Seq(0 .. MaxChunks)]
      /\ stopping \in [Stops -> Sessions \cup {None}]
      /\ None \notin Sessions /\ current \in Sessions \cup {None}
  BY ConstantFacts DEF Typed, TypeOK, Control
<1>1. CASE \/ TapTranscribe \/ TranscribeReturns \/ UNCHANGED vars
           \/ \E i \in Stops : TapStop(i) \/ StopThrows(i) \/ FinishReturns(i)
           \/ \E s \in Sessions : TapStart(s)
  BY <1>0, <1>1 DEF DoneIsLast, Stopped, TapTranscribe, TranscribeReturns, TapStop,
     StopThrows, FinishReturns, TapStart, vars, handlers, ports, work
<1>2. CASE Dispose
  BY <1>0, <1>2 DEF DoneIsLast, Stopped, Dispose, handlers
<1>3. ASSUME NEW s \in Sessions, StartTurn(s) PROVE DoneIsLast'
  BY <1>0, <1>3 DEF DoneIsLast, Stopped, OneSession, Fresh, StartTurn, PermissionDenied,
     PermissionGranted, SpawnWorker, SessionReady, Spawned, MicStarts, StartThrows,
     ports, work
<1>4. CASE RecorderDelivers
  <2> DEFINE n == Cardinality(Chunks) + 1
  <2>1. /\ UNCHANGED <<handlers, outbox, work>> /\ current \in Sessions
        /\ inbox' = Sent(current, n) /\ n \in 1 .. MaxChunks
    BY <1>0, <1>4, NextChunk DEF RecorderDelivers
  <2> HIDE DEF n
  <2>2. n # Finish /\ n \in 0 .. MaxChunks
    BY <2>1 DEF Finish
  <2>3. \/ inbox' = inbox
        \/ inbox' = [inbox EXCEPT ![current] = Append(@, n)]
    BY <2>1 DEF Sent
  <2>4. \A t \in Sessions : \A k \in 1 .. Len(inbox'[t]) :
          inbox'[t][k] = Finish => k \in 1 .. Len(inbox[t]) /\ inbox[t][k] = Finish
    <3>1. \A t \in Sessions :
            inbox'[t] = inbox[t] \/ inbox'[t] = Append(inbox[t], n)
      BY <1>0, <2>3
    <3>2. ASSUME NEW t \in Sessions, NEW k \in 1 .. Len(Append(inbox[t], n)),
                 Append(inbox[t], n)[k] = Finish
          PROVE  k \in 1 .. Len(inbox[t]) /\ inbox[t][k] = Finish
      <4>1. inbox[t] \in Seq(0 .. MaxChunks)
        BY <1>0
      <4> QED
        BY <2>2, <3>2, <4>1, AppendIndexes
    <3> QED
      BY <3>1, <3>2
  <2> QED
    BY <1>0, <2>1, <2>4 DEF DoneIsLast, Stopped, handlers, work
<1>5. ASSUME NEW i \in Stops, RecorderStopped(i) PROVE DoneIsLast'
  <2>1. \A t \in Sessions : Stopped(t) \/ current = t => Stopped(t)'
    BY <1>0, <1>5 DEF RecorderStopped, OneSession, Stopped
  <2>2. \/ inbox' = inbox
        \/ current # None /\ inbox' = [inbox EXCEPT ![current] = Append(@, Finish)]
    BY <1>5 DEF RecorderStopped, Sent
  <2>3. \A t \in Sessions : \A k \in 1 .. Len(inbox'[t]) :
          inbox'[t][k] = Finish =>
            \/ current = t
            \/ k \in 1 .. Len(inbox[t]) /\ inbox[t][k] = Finish
    <3>1. \A t \in Sessions : current # t => inbox'[t] = inbox[t]
      BY <1>0, <2>2
    <3> QED
      BY <3>1
  <2>4. UNCHANGED <<outbox, worker, failed>>
    BY <1>5 DEF RecorderStopped, work
  <2> QED
    BY <1>0, <2>1, <2>3, <2>4 DEF DoneIsLast
<1>6. ASSUME NEW s \in Sessions, WorkerStarts(s) PROVE DoneIsLast'
  <2>1. /\ UNCHANGED <<handlers, inbox>> /\ worker[s] = "spawned"
        /\ outbox' = [outbox EXCEPT ![s] = Append(@, Text("port", <<>>))]
        /\ \A t \in Sessions \ {s} : worker'[t] = worker[t] /\ (t \in failed' <=> t \in failed)
    BY <1>0, <1>6 DEF WorkerStarts
  <2>2. \A t \in Sessions : \A k \in 1 .. Len(outbox'[t]) :
          outbox'[t][k].kind = "done" =>
            t # s /\ k \in 1 .. Len(outbox[t]) /\ outbox[t][k].kind = "done"
    <3> DEFINE m == Text("port", <<>>)
    <3>1. m.kind # "done" /\ \A k \in 1 .. Len(outbox[s]) : outbox[s][k].kind # "done"
      BY <1>0, <2>1 DEF DoneIsLast, Text
    <3>2. outbox'[s] = Append(outbox[s], m) /\ outbox[s] \in Seq(Messages)
      BY <1>0, <2>1
    <3> HIDE DEF m
    <3>3. \A k \in 1 .. Len(outbox'[s]) : outbox'[s][k].kind # "done"
      BY <3>1, <3>2, AppendIndexes
    <3>4. \A t \in Sessions : t # s => outbox'[t] = outbox[t]
      BY <1>0, <2>1
    <3> QED
      BY <3>3, <3>4
  <2>3. \A t \in Sessions : Stopped(t)' <=> Stopped(t)
    BY <2>1 DEF Stopped, handlers
  <2>4. \A t \in Sessions : \A k \in 1 .. Len(inbox'[t]) :
          inbox'[t][k] = Finish => Stopped(t)'
    BY <1>0, <2>1, <2>3 DEF DoneIsLast
  <2>5. \A t \in Sessions : \A k \in 1 .. Len(outbox'[t]) :
          outbox'[t][k].kind = "done" =>
            /\ k = Len(outbox'[t])
            /\ worker'[t] = "dead" /\ t \notin failed' /\ Stopped(t)'
    <3>1. \A t \in Sessions : t # s => outbox'[t] = outbox[t]
      BY <1>0, <2>1
    <3> QED
      BY <1>0, <2>1, <2>2, <2>3, <3>1 DEF DoneIsLast
  <2> QED
    BY <2>4, <2>5 DEF DoneIsLast
<1>7. ASSUME NEW s \in Sessions, Receives(s)
      PROVE  /\ UNCHANGED handlers /\ worker[s] = "idle" /\ inbox[s] # <<>>
             /\ inbox' = [inbox EXCEPT ![s] = Tail(@)]
             /\ Head(inbox[s]) = Finish => Stopped(s)
             /\ \A t \in Sessions : \A k \in 1 .. Len(inbox'[t]) :
                  inbox'[t][k] = Finish =>
                    \E l \in 1 .. Len(inbox[t]) : inbox[t][l] = Finish
             /\ \A k \in 1 .. Len(outbox[s]) : outbox[s][k].kind # "done"
  <2>1. /\ UNCHANGED handlers /\ worker[s] = "idle" /\ inbox[s] # <<>>
        /\ inbox' = [inbox EXCEPT ![s] = Tail(@)]
    BY <1>7 DEF Receives
  <2>2. Head(inbox[s]) = inbox[s][1] /\ 1 \in 1 .. Len(inbox[s])
    BY <1>0, <2>1
  <2>3. \A k \in 1 .. Len(Tail(inbox[s])) :
          /\ Tail(inbox[s])[k] = inbox[s][k + 1]
          /\ k + 1 \in 1 .. Len(inbox[s])
    BY <1>0, <2>1
  <2>4. \A t \in Sessions : \A k \in 1 .. Len(inbox'[t]) :
          inbox'[t][k] = Finish =>
            \E l \in 1 .. Len(inbox[t]) : inbox[t][l] = Finish
    BY <1>0, <2>1, <2>3
  <2>5. \A k \in 1 .. Len(outbox[s]) : outbox[s][k].kind # "done"
    BY <1>0, <2>1 DEF DoneIsLast
  <2>6. Head(inbox[s]) = Finish => Stopped(s)
    BY <1>0, <2>2 DEF DoneIsLast
  <2> QED
    BY <2>1, <2>4, <2>5, <2>6
<1>8. ASSUME NEW s \in Sessions, WorkerPushes(s) \/ WorkerThrows(s) PROVE DoneIsLast'
  <2>1. Receives(s)
    BY <1>8 DEF WorkerPushes, WorkerThrows
  <2>2. /\ \A t \in Sessions : t # s =>
             /\ outbox'[t] = outbox[t] /\ worker'[t] = worker[t]
             /\ t \in failed' <=> t \in failed
        /\ \/ outbox'[s] = outbox[s]
           \/ outbox'[s] =
                Append(outbox[s], Text("segment", Append(pending[s], Head(inbox[s]))))
    BY <1>0, <1>8 DEF WorkerPushes, WorkerThrows
  <2>3. \A k \in 1 .. Len(outbox'[s]) : outbox'[s][k].kind # "done"
    <3>1. \A c : Text("segment", c).kind # "done"
      BY DEF Text
    <3> DEFINE m == Text("segment", Append(pending[s], Head(inbox[s])))
    <3>2. /\ outbox[s] \in Seq(Messages) /\ m.kind # "done"
          /\ \A k \in 1 .. Len(outbox[s]) : outbox[s][k].kind # "done"
          /\ outbox'[s] \in {outbox[s], Append(outbox[s], m)}
      BY <1>0, <1>7, <2>1, <2>2, <3>1
    <3> HIDE DEF m
    <3> QED
      BY <3>2, AppendIndexes
  <2> QED
    BY <1>0, <1>7, <2>1, <2>2, <2>3 DEF DoneIsLast, Stopped, handlers
<1>9. ASSUME NEW s \in Sessions, WorkerFinishes(s) PROVE DoneIsLast'
  <2>1. Receives(s) /\ Head(inbox[s]) = Finish
    BY <1>9 DEF WorkerFinishes
  <2>2. /\ \A t \in Sessions : t # s =>
             outbox'[t] = outbox[t] /\ worker'[t] = worker[t]
        /\ failed' = failed /\ worker'[s] = "dead"
        /\ outbox'[s] = Append(outbox[s], Text("done", Trailing(s)))
    BY <1>0, <1>9 DEF WorkerFinishes
  <2>3. \A k \in 1 .. Len(outbox'[s]) :
          outbox'[s][k].kind = "done" => k = Len(outbox'[s])
    <3> DEFINE m == Text("done", Trailing(s))
    <3>1. /\ outbox'[s] = Append(outbox[s], m) /\ outbox[s] \in Seq(Messages)
          /\ \A k \in 1 .. Len(outbox[s]) : outbox[s][k].kind # "done"
      BY <1>0, <1>7, <2>1, <2>2
    <3> HIDE DEF m
    <3>2. Len(outbox'[s]) = Len(outbox[s]) + 1
      BY <3>1
    <3> QED
      BY <3>1, <3>2, AppendIndexes
  <2>4. s \notin failed /\ Stopped(s)
    BY <1>0, <1>7, <2>1 DEF Fresh
  <2>5. \A t \in Sessions : Stopped(t)' <=> Stopped(t)
    BY <1>7, <2>1 DEF Stopped, handlers
  <2>6. \A t \in Sessions : \A k \in 1 .. Len(inbox'[t]) :
          inbox'[t][k] = Finish => Stopped(t)'
    BY <1>0, <1>7, <2>1, <2>5 DEF DoneIsLast
  <2>7. \A t \in Sessions : \A k \in 1 .. Len(outbox'[t]) :
          outbox'[t][k].kind = "done" =>
            /\ k = Len(outbox'[t])
            /\ worker'[t] = "dead" /\ t \notin failed' /\ Stopped(t)'
    BY <1>0, <2>2, <2>3, <2>4, <2>5 DEF DoneIsLast
  <2> QED
    BY <2>6, <2>7 DEF DoneIsLast
<1>10. ASSUME NEW s \in Sessions, MainReceives(s) PROVE DoneIsLast'
  <2>1. /\ UNCHANGED <<handlers, inbox, worker, failed>> /\ outbox[s] # <<>>
        /\ outbox' = [outbox EXCEPT ![s] = Tail(@)]
    BY <1>10 DEF MainReceives, work
  <2>2. /\ Len(outbox'[s]) = Len(outbox[s]) - 1
        /\ \A k \in 1 .. Len(outbox'[s]) :
             outbox'[s][k] = outbox[s][k + 1] /\ k + 1 \in 1 .. Len(outbox[s])
    BY <1>0, <2>1
  <2>3. \A k \in 1 .. Len(outbox'[s]) :
          outbox'[s][k].kind = "done" =>
            /\ k = Len(outbox'[s])
            /\ worker[s] = "dead" /\ s \notin failed /\ Stopped(s)
    <3> SUFFICES ASSUME NEW k \in 1 .. Len(outbox'[s]), outbox'[s][k].kind = "done"
                 PROVE  /\ k = Len(outbox'[s])
                        /\ worker[s] = "dead" /\ s \notin failed /\ Stopped(s)
      OBVIOUS
    <3> DEFINE l == k + 1
    <3>1. outbox[s][l].kind = "done" /\ l \in 1 .. Len(outbox[s])
      BY <2>2
    <3>2. /\ l = Len(outbox[s])
          /\ worker[s] = "dead" /\ s \notin failed /\ Stopped(s)
      <4> HIDE DEF l
      <4> QED
        BY <1>0, <3>1 DEF DoneIsLast
    <3>3. k = Len(outbox[s]) - 1
      BY <3>2
    <3> QED
      BY <2>2, <3>2, <3>3
  <2>4. \A t \in Sessions : t # s => outbox'[t] = outbox[t]
    BY <1>0, <2>1
  <2> QED
    BY <1>0, <2>1, <2>3, <2>4 DEF DoneIsLast, Stopped, handlers
<1> QED
  BY <1>1, <1>2, <1>3, <1>4, <1>5, <1>6, <1>8, <1>9, <1>10
  DEF Next, StopTurn, WorkerTurn

LEMMA InitControl == Init => Control
<1> SUFFICES ASSUME Init PROVE Control
  OBVIOUS
<1>1. None \notin Sessions
  BY ConstantFacts
<1>2. OneHandler /\ OneSession /\ FlagsFollow
  BY <1>1 DEF Init, OneHandler, HandlerRunning, OneSession, FlagsFollow, Starts, Stopping, Stopped
<1>3. Fresh /\ DoneIsLast
  BY DEF Init, Fresh, DoneIsLast
<1> QED
  BY <1>2, <1>3 DEF Control

LEMMA ControlInvariance == ASSUME Patient PROVE Spec => [](Typed /\ Control)
<1>1. Typed /\ Control /\ [Next]_vars => (Typed /\ Control)'
  BY TypedStep, OneHandlerStep, OneSessionStep, FreshStep, DoneIsLastStep DEF Control
<1> QED
  BY <1>1, InitTyped, InitControl, PTL DEF Spec

-----------------------------------------------------------------------------
(* Where the chunks are.                                                   *)

(* The text t on the screen and the texts of the messages q are, one after *)
(* the other, the first chunks of p, as many as have been sent.            *)
Conveys(p, q, t, sent) ==
  \E cut \in [1 .. Len(q) + 1 -> 0 .. Len(p)] :
    /\ t = SubSeq(p, 1, cut[1]) /\ cut[Len(q) + 1] = sent
    /\ \A k \in 1 .. Len(q) :
         /\ cut[k] <= cut[k + 1]
         /\ q[k].text = SubSeq(p, cut[k] + 1, cut[k + 1])

LEMMA PieceType ==
  ASSUME NEW S, NEW p \in Seq(S), NEW a \in Nat, NEW b \in 0 .. Len(p)
  PROVE  SubSeq(p, a + 1, b) \in Seq(S)
<1>1. \A i \in a + 1 .. b : p[i] \in S
  BY ElementOfSeq
<1> QED
  BY <1>1, SubSeqProperties

(* A piece is not changed by what is appended later, and the last piece    *)
(* grows by it.                                                            *)
LEMMA PieceKept ==
  ASSUME NEW S, NEW p \in Seq(S), NEW e \in S,
         NEW a \in Nat, NEW b \in 0 .. Len(p)
  PROVE  SubSeq(Append(p, e), a + 1, b) = SubSeq(p, a + 1, b)
<1> DEFINE q == Append(p, e)
<1>1. /\ q \in Seq(S) /\ Len(q) = Len(p) + 1
      /\ \A i \in 1 .. Len(p) : q[i] = p[i]
  BY AppendProperties
<1>2. b \in 0 .. Len(q)
  BY <1>1
<1> HIDE DEF q
<1>3. SubSeq(q, a + 1, b) \in Seq(S) /\ SubSeq(p, a + 1, b) \in Seq(S)
  BY <1>1, <1>2, PieceType
<1>4. /\ \A i \in a + 1 .. b : q[i] \in S /\ p[i] \in S /\ q[i] = p[i]
      /\ a + 1 \in Int /\ b \in Int
  BY <1>1, <1>2, ElementOfSeq
<1>5. /\ Len(SubSeq(q, a + 1, b)) = IF a + 1 <= b THEN b - (a + 1) + 1 ELSE 0
      /\ \A i \in 1 .. b - (a + 1) + 1 : SubSeq(q, a + 1, b)[i] = q[(a + 1) + i - 1]
  BY <1>4, SubSeqProperties
<1>6. /\ Len(SubSeq(p, a + 1, b)) = IF a + 1 <= b THEN b - (a + 1) + 1 ELSE 0
      /\ \A i \in 1 .. b - (a + 1) + 1 : SubSeq(p, a + 1, b)[i] = p[(a + 1) + i - 1]
  BY <1>4, SubSeqProperties
<1>7. \A i \in 1 .. Len(SubSeq(q, a + 1, b)) : SubSeq(q, a + 1, b)[i] = SubSeq(p, a + 1, b)[i]
  <2> SUFFICES ASSUME NEW i \in 1 .. Len(SubSeq(q, a + 1, b))
               PROVE  SubSeq(q, a + 1, b)[i] = SubSeq(p, a + 1, b)[i]
    OBVIOUS
  <2>1. i \in 1 .. b - (a + 1) + 1 /\ (a + 1) + i - 1 \in a + 1 .. b
    BY <1>5
  <2> QED
    BY <1>4, <1>5, <1>6, <2>1
<1>8. SubSeq(q, a + 1, b) = SubSeq(p, a + 1, b)
  BY <1>3, <1>5, <1>6, <1>7, SeqEqual
<1> QED
  BY <1>8 DEF q

LEMMA LastPieceGrows ==
  ASSUME NEW S, NEW p \in Seq(S), NEW e \in S, NEW a \in 0 .. Len(p)
  PROVE  SubSeq(Append(p, e), a + 1, Len(p) + 1) = Append(SubSeq(p, a + 1, Len(p)), e)
<1> DEFINE q == Append(p, e)
<1>1. /\ q \in Seq(S) /\ Len(q) = Len(p) + 1 /\ q[Len(p) + 1] = e
  BY AppendProperties
<1>2. /\ a + 1 \in 1 .. Len(q) /\ Len(q) \in a + 1 .. Len(q)
      /\ a \in Nat /\ Len(p) \in 0 .. Len(p)
  BY <1>1
<1> HIDE DEF q
<1>3. SubSeq(q, a + 1, Len(q)) = SubSeq(q, a + 1, Len(q) - 1) \o <<q[Len(q)]>>
  BY ONLY <1>1, <1>2, SubSeqRecursiveSecond
<1>4. SubSeq(q, a + 1, Len(p)) = SubSeq(p, a + 1, Len(p))
  BY <1>2, PieceKept DEF q
<1>5. SubSeq(p, a + 1, Len(p)) \in Seq(S)
  BY <1>2, PieceType
<1>6. Append(SubSeq(p, a + 1, Len(p)), e) = SubSeq(p, a + 1, Len(p)) \o <<e>>
  BY <1>5, AppendIsConcat
<1>7. Len(q) - 1 = Len(p)
  BY <1>1
<1> QED
  BY <1>1, <1>3, <1>4, <1>6, <1>7 DEF q

(* The next chunk of what is left moves to the piece before it.            *)
LEMMA NextOfPiece ==
  ASSUME NEW S, NEW p \in Seq(S), NEW a \in 0 .. Len(p), NEW b \in a .. Len(p) - 1
  PROVE  /\ SubSeq(p, b + 1, Len(p)) # <<>>
         /\ Head(SubSeq(p, b + 1, Len(p))) = p[b + 1]
         /\ Tail(SubSeq(p, b + 1, Len(p))) = SubSeq(p, (b + 1) + 1, Len(p))
         /\ Append(SubSeq(p, a + 1, b), p[b + 1]) = SubSeq(p, a + 1, b + 1)
<1> PICK c \in 1 .. Len(p) : c = b + 1
  OBVIOUS
<1>1. /\ Len(p) \in c .. Len(p) /\ c \in a + 1 .. Len(p) /\ a + 1 \in 1 .. Len(p)
      /\ c - 1 = b /\ p[c] \in S /\ b \in 0 .. Len(p) /\ a \in Nat
      /\ c \in Int /\ Len(p) \in Int /\ c <= Len(p)
  BY ElementOfSeq
<1>2. /\ Head(SubSeq(p, c, Len(p))) = p[c]
      /\ Tail(SubSeq(p, c, Len(p))) = SubSeq(p, c + 1, Len(p))
  BY ONLY <1>1, HeadTailOfSubSeq, p \in Seq(S), c \in 1 .. Len(p)
<1>3. SubSeq(p, c, Len(p)) # <<>>
  <2>1. \A i \in c .. Len(p) : p[i] \in S
    BY <1>1, ElementOfSeq
  <2>2. Len(SubSeq(p, c, Len(p))) = IF c <= Len(p) THEN Len(p) - c + 1 ELSE 0
    BY ONLY <1>1, <2>1, SubSeqProperties
  <2>3. Len(SubSeq(p, c, Len(p))) # 0
    BY <1>1, <2>2
  <2>4. Len(<<>>) = 0
    OBVIOUS
  <2> QED
    BY <2>3, <2>4
<1>4. SubSeq(p, a + 1, c) = SubSeq(p, a + 1, c - 1) \o <<p[c]>>
  BY ONLY <1>1, SubSeqRecursiveSecond, p \in Seq(S)
<1>5. SubSeq(p, a + 1, b) \in Seq(S)
  BY <1>1, PieceType
<1>6. Append(SubSeq(p, a + 1, b), p[c]) = SubSeq(p, a + 1, b) \o <<p[c]>>
  BY <1>1, <1>5, AppendIsConcat
<1> QED
  BY <1>1, <1>2, <1>3, <1>4, <1>6

(* What is before a mark is received before it.                            *)
LEMMA HeadTailOfConcat ==
  ASSUME NEW S, NEW p \in Seq(S), p # <<>>, NEW q \in Seq(S)
  PROVE  Head(p \o q) = Head(p) /\ Tail(p \o q) = Tail(p) \o q
<1>1. /\ p \o q \in Seq(S) /\ Len(p \o q) = Len(p) + Len(q)
      /\ \A i \in 1 .. Len(p) + Len(q) : (p \o q)[i] =
           IF i <= Len(p) THEN p[i] ELSE q[i - Len(p)]
  BY ConcatProperties
<1>2. Len(p) \in Nat /\ Len(p) > 0 /\ Len(q) \in Nat
  OBVIOUS
<1>3. p \o q # <<>>
  BY <1>1, <1>2
<1>4. Head(p \o q) = Head(p)
  BY <1>1, <1>2, <1>3
<1> DEFINE r == p \o q
           u == Tail(p)
<1>5. /\ Tail(r) \in Seq(S) /\ Len(Tail(r)) = Len(r) - 1
      /\ \A i \in 1 .. Len(Tail(r)) : Tail(r)[i] = r[i + 1]
  BY <1>1, <1>3, HeadTailProperties
<1>6. /\ u \in Seq(S) /\ Len(u) = Len(p) - 1
      /\ \A i \in 1 .. Len(u) : u[i] = p[i + 1]
  BY HeadTailProperties
<1> HIDE DEF r, u
<1>7. /\ u \o q \in Seq(S) /\ Len(u \o q) = Len(u) + Len(q)
      /\ \A i \in 1 .. Len(u) + Len(q) : (u \o q)[i] =
           IF i <= Len(u) THEN u[i] ELSE q[i - Len(u)]
  BY <1>6, ConcatProperties
<1>8. /\ Len(r) = Len(p) + Len(q)
      /\ \A i \in 1 .. Len(p) + Len(q) :
           r[i] = IF i <= Len(p) THEN p[i] ELSE q[i - Len(p)]
  BY <1>1 DEF r
<1>9. ASSUME NEW i \in 1 .. Len(Tail(r)) PROVE Tail(r)[i] = (u \o q)[i]
  <2>1. /\ i \in 1 .. Len(u) + Len(q) /\ i + 1 \in 1 .. Len(p) + Len(q)
        /\ (i <= Len(u) => i \in 1 .. Len(u) /\ i + 1 <= Len(p))
        /\ (~(i <= Len(u)) => ~(i + 1 <= Len(p)))
        /\ (i + 1) - Len(p) = i - Len(u)
    BY <1>2, <1>5, <1>6, <1>8
  <2> QED
    BY <1>5, <1>6, <1>7, <1>8, <2>1
<1>10. Tail(r) = u \o q
  <2>1. Len(Tail(r)) = Len(u \o q)
    BY <1>2, <1>5, <1>6, <1>7, <1>8
  <2> QED
    BY <1>5, <1>7, <1>9, <2>1, SeqEqual
<1> QED
  BY <1>4, <1>10 DEF r, u

LEMMA ConveysNothing ==
  ASSUME NEW S, NEW p \in Seq(S)
  PROVE  Conveys(p, <<>>, <<>>, 0)
<1> DEFINE cut == [k \in 1 .. 1 |-> 0]
<1>1. Len(<<>>) + 1 = 1
  OBVIOUS
<1>2. cut \in [1 .. 1 -> 0 .. Len(p)]
  OBVIOUS
<1>3. SubSeq(p, 1, 0) = <<>>
  BY SubSeqEmpty
<1>4. cut[1] = 0 /\ \A k \in 1 .. Len(<<>>) : FALSE
  OBVIOUS
<1> HIDE DEF cut
<1>5. /\ cut \in [1 .. Len(<<>>) + 1 -> 0 .. Len(p)]
      /\ <<>> = SubSeq(p, 1, cut[1]) /\ cut[Len(<<>>) + 1] = 0
  BY <1>1, <1>2, <1>3, <1>4
<1> QED
  BY <1>4, <1>5 DEF Conveys

LEMMA ConveysShown ==
  ASSUME NEW S, NEW p \in Seq(S), NEW q \in Seq(Messages), NEW t, NEW sent,
         Conveys(p, q, t, sent)
  PROVE  /\ \E a \in 0 .. Len(p) : t = SubSeq(p, 1, a)
         /\ q = <<>> => t = SubSeq(p, 1, sent)
<1> PICK cut \in [1 .. Len(q) + 1 -> 0 .. Len(p)] :
      t = SubSeq(p, 1, cut[1]) /\ cut[Len(q) + 1] = sent
  BY DEF Conveys
<1>1. Len(q) \in Nat /\ 1 \in 1 .. Len(q) + 1 /\ (q = <<>> => Len(q) + 1 = 1)
  BY LenProperties
<1>2. cut[1] \in 0 .. Len(p)
  BY <1>1
<1>3. q = <<>> => cut[1] = sent
  BY <1>1
<1> QED
  BY <1>2, <1>3

LEMMA ConveysMore ==
  ASSUME NEW S, NEW p \in Seq(S), NEW q \in Seq(Messages), NEW t, NEW sent \in 0 .. Len(p),
         Conveys(p, q, t, sent),
         NEW m \in Messages, NEW b \in sent .. Len(p), m.text = SubSeq(p, sent + 1, b)
  PROVE  Conveys(p, Append(q, m), t, b)
<1> PICK cut \in [1 .. Len(q) + 1 -> 0 .. Len(p)] :
      /\ t = SubSeq(p, 1, cut[1]) /\ cut[Len(q) + 1] = sent
      /\ \A k \in 1 .. Len(q) :
           /\ cut[k] <= cut[k + 1]
           /\ q[k].text = SubSeq(p, cut[k] + 1, cut[k + 1])
  BY DEF Conveys
<1> DEFINE r == Append(q, m)
           new == [k \in 1 .. Len(r) + 1 |-> IF k = Len(r) + 1 THEN b ELSE cut[k]]
<1>1. /\ r \in Seq(Messages) /\ Len(r) = Len(q) + 1 /\ r[Len(q) + 1] = m
      /\ \A k \in 1 .. Len(q) : r[k] = q[k]
  BY AppendProperties
<1>2. new \in [1 .. Len(r) + 1 -> 0 .. Len(p)]
  BY <1>1
<1>3. new[1] = cut[1] /\ new[Len(r) + 1] = b
  BY <1>1
<1>4. ASSUME NEW k \in 1 .. Len(r)
      PROVE  /\ new[k] <= new[k + 1]
             /\ r[k].text = SubSeq(p, new[k] + 1, new[k + 1])
  <2>1. CASE k = Len(r)
    <3>1. new[k] = sent /\ new[k + 1] = b /\ r[k] = m
      BY <1>1, <2>1
    <3> QED
      BY <3>1
  <2>2. CASE k # Len(r)
    <3>1. k \in 1 .. Len(q) /\ new[k] = cut[k] /\ new[k + 1] = cut[k + 1] /\ r[k] = q[k]
      BY <1>1, <2>2
    <3> QED
      BY <3>1
  <2> QED
    BY <2>1, <2>2
<1> HIDE DEF new, r
<1>5. Conveys(p, r, t, b)
  BY <1>2, <1>3, <1>4 DEF Conveys
<1> QED
  BY <1>5 DEF r

LEMMA ConveysGrown ==
  ASSUME NEW S, NEW p \in Seq(S), NEW q \in Seq(Messages), NEW t, NEW sent \in 0 .. Len(p),
         Conveys(p, q, t, sent), NEW e \in S
  PROVE  Conveys(Append(p, e), q, t, sent)
<1> PICK cut \in [1 .. Len(q) + 1 -> 0 .. Len(p)] :
      /\ t = SubSeq(p, 1, cut[1]) /\ cut[Len(q) + 1] = sent
      /\ \A k \in 1 .. Len(q) :
           /\ cut[k] <= cut[k + 1]
           /\ q[k].text = SubSeq(p, cut[k] + 1, cut[k + 1])
  BY DEF Conveys
<1> DEFINE r == Append(p, e)
<1>1. Len(r) = Len(p) + 1 /\ Len(q) \in Nat
  BY AppendProperties
<1>2. cut \in [1 .. Len(q) + 1 -> 0 .. Len(r)]
  BY <1>1
<1>3. \A a \in Nat, b \in 0 .. Len(p) : SubSeq(r, a + 1, b) = SubSeq(p, a + 1, b)
  BY PieceKept
<1>4. SubSeq(r, 1, cut[1]) = SubSeq(p, 1, cut[1])
  <2>1. cut[1] \in 0 .. Len(p) /\ 0 \in Nat /\ 0 + 1 = 1
    BY <1>1
  <2> HIDE DEF r
  <2>2. SubSeq(r, 0 + 1, cut[1]) = SubSeq(p, 0 + 1, cut[1])
    BY <1>3, <2>1
  <2> QED
    BY <2>1, <2>2
<1>5. ASSUME NEW k \in 1 .. Len(q)
      PROVE  SubSeq(r, cut[k] + 1, cut[k + 1]) = SubSeq(p, cut[k] + 1, cut[k + 1])
  <2>1. cut[k] \in Nat /\ cut[k + 1] \in 0 .. Len(p)
    <3>1. k \in 1 .. Len(q) + 1 /\ k + 1 \in 1 .. Len(q) + 1 /\ Len(p) \in Nat
      BY <1>1, LenProperties
    <3>2. cut[k] \in 0 .. Len(p) /\ cut[k + 1] \in 0 .. Len(p)
      BY <3>1
    <3> QED
      BY <3>1, <3>2
  <2> HIDE DEF r
  <2> QED
    BY <1>3, <2>1
<1> HIDE DEF r
<1>6. Conveys(r, q, t, sent)
  BY <1>2, <1>4, <1>5 DEF Conveys
<1> QED
  BY <1>6 DEF r

LEMMA ConveysReceived ==
  ASSUME NEW S, NEW p \in Seq(S), NEW q \in Seq(Messages), NEW t, NEW sent \in 0 .. Len(p),
         Conveys(p, q, t, sent), q # <<>>
  PROVE  Conveys(p, Tail(q), t \o Head(q).text, sent)
<1> PICK cut \in [1 .. Len(q) + 1 -> 0 .. Len(p)] :
      /\ t = SubSeq(p, 1, cut[1]) /\ cut[Len(q) + 1] = sent
      /\ \A k \in 1 .. Len(q) :
           /\ cut[k] <= cut[k + 1]
           /\ q[k].text = SubSeq(p, cut[k] + 1, cut[k + 1])
  BY DEF Conveys
<1> DEFINE r == Tail(q)
           new == [k \in 1 .. Len(r) + 1 |-> cut[k + 1]]
<1>1. /\ Len(q) \in Nat /\ Len(q) > 0 /\ Len(r) = Len(q) - 1 /\ Head(q) = q[1]
      /\ \A k \in 1 .. Len(r) : r[k] = q[k + 1]
  BY HeadTailProperties
<1>2. new \in [1 .. Len(r) + 1 -> 0 .. Len(p)]
  BY <1>1
<1>3. new[1] = cut[2] /\ new[Len(r) + 1] = sent
  BY <1>1
<1>4. \A k \in 1 .. Len(r) :
        /\ new[k] <= new[k + 1]
        /\ r[k].text = SubSeq(p, new[k] + 1, new[k + 1])
  <2> SUFFICES ASSUME NEW k \in 1 .. Len(r)
               PROVE  /\ new[k] <= new[k + 1]
                      /\ r[k].text = SubSeq(p, new[k] + 1, new[k + 1])
    OBVIOUS
  <2> PICK l \in 1 .. Len(q) : l = k + 1
    BY <1>1
  <2>1. new[k] = cut[l] /\ new[k + 1] = cut[l + 1] /\ r[k] = q[l]
    BY <1>1
  <2> QED
    BY <2>1
<1>5. t \o Head(q).text = SubSeq(p, 1, cut[2])
  <2>1. /\ q[1].text = SubSeq(p, cut[1] + 1, cut[1 + 1]) /\ cut[1] <= cut[1 + 1]
        /\ 1 + 1 = 2
    BY <1>1
  <2>2. /\ 1 \in 1 .. Len(p) + 1 /\ cut[1] \in 1 - 1 .. Len(p)
        /\ cut[2] \in cut[1] .. Len(p)
    BY <1>1, <2>1
  <2>3. SubSeq(p, 1, cut[1]) \o SubSeq(p, cut[1] + 1, cut[2]) = SubSeq(p, 1, cut[2])
    <3> PICK k, n : k = cut[1] /\ n = cut[2]
      OBVIOUS
    <3>1. /\ 1 \in 1 .. Len(p) + 1 /\ k \in 1 - 1 .. Len(p) /\ n \in k .. Len(p)
      BY <2>2
    <3>2. SubSeq(p, 1, k) \o SubSeq(p, k + 1, n) = SubSeq(p, 1, n)
      BY ONLY <3>1, ConcatAdjacentSubSeq, p \in Seq(S)
    <3> QED
      BY <3>2
  <2> QED
    BY <1>1, <2>1, <2>3
<1> HIDE DEF new, r
<1>6. Conveys(p, r, t \o Head(q).text, sent)
  BY <1>2, <1>3, <1>4, <1>5 DEF Conveys
<1> QED
  BY <1>6 DEF r

(* Of the chunks pushed to a session the first are on the screen or in     *)
(* messages, those up to heard are in the worker's open segment, and the   *)
(* others have not been received, nor has the order to finish.  Nothing is *)
(* known of a worker that failed; one that finished has sent everything.   *)
FinishMark(s) == IF Stopped(s) THEN <<Finish>> ELSE <<>>
Unsent(s, sent) ==
  \E heard \in sent .. Len(pushed[s]) :
    /\ pending[s] = SubSeq(pushed[s], sent + 1, heard)
    /\ inbox[s] = SubSeq(pushed[s], heard + 1, Len(pushed[s])) \o FinishMark(s)
InTransit(s) ==
  \E sent \in 0 .. Len(pushed[s]) :
    /\ Conveys(pushed[s], outbox[s], shown, sent)
    /\ \/ s \in failed
       \/ worker[s] = "dead" /\ sent = Len(pushed[s]) /\ Stopped(s)
       \/ worker[s] # "dead" /\ Unsent(s, sent)

Complete ==
  \A i \in Stops :
    stopPc[i] = "finish" /\ ~open[stopping[i]] /\ stopping[i] \notin failed =>
      shown = pushed[stopping[i]]
Transcript ==
  mounted => Complete /\ \A s \in Sessions : open[s] => InTransit(s)

SessionInv == Typed /\ Control /\ Transcript

LEMMA OpenAlone ==
  ASSUME Typed, Control, NEW s \in Sessions, open[s]
  PROVE  /\ \A t \in Sessions : open[t] => t = s
         /\ \A i \in Stops : stopPc[i] = "finish" => stopping[i] = s
         /\ \A t \in Sessions : startPc[t] \notin {"permission", "directory"}
         /\ ~transcribing
<1>1. \A t \in Sessions : open[t] => Known(t)
  BY DEF Control, OneSession
<1>2. \A t \in Sessions : Known(t) =>
        /\ Known(s) => t = s
        /\ \A i \in Stops : stopPc[i] = "finish" => stopping[i] = t
        /\ \A r \in Sessions : startPc[r] \notin {"permission", "directory"}
        /\ ~transcribing
  BY ConstantFacts DEF Control, OneHandler, OneSession, HandlerRunning, Known,
     Finishing, Starts, Stopping
<1> QED
  BY <1>1, <1>2

LEMMA TransitKept ==
  ASSUME NEW s \in Sessions, InTransit(s), shown' = shown,
         outbox'[s] = outbox[s], pushed'[s] = pushed[s], inbox'[s] = inbox[s],
         pending'[s] = pending[s], worker'[s] = worker[s],
         Stopped(s)' <=> Stopped(s), s \in failed => s \in failed'
  PROVE  InTransit(s)'
<1>1. FinishMark(s)' = FinishMark(s)
  BY DEF FinishMark
<1>2. \A sent : Unsent(s, sent) => Unsent(s, sent)'
  BY <1>1 DEF Unsent
<1> QED
  BY <1>2 DEF InTransit

LEMMA TranscriptQuiet ==
  ASSUME Typed, Transcript,
         \/ UNCHANGED vars
         \/ \E s \in Sessions : \/ TapStart(s) \/ SessionReady(s) \/ MicStarts(s)
                                \/ StartThrows(s)
         \/ \E i \in Stops : TapStop(i) \/ StopThrows(i) \/ FinishReturns(i)
  PROVE  Transcript'
<1>1. /\ UNCHANGED <<mounted, shown, open, outbox, pushed, inbox, pending, worker,
                     failed, stopping>>
      /\ \A i \in Stops : stopPc'[i] = "finish" => stopPc[i] = "finish"
  BY DEF Typed, TypeOK, TapStart, SessionReady, MicStarts, StartThrows, TapStop,
     StopThrows, FinishReturns, StopEnds, vars, flags, handlers, ports, work
<1>2. \A s \in Sessions : InTransit(s) => InTransit(s)'
  BY <1>1, TransitKept DEF Stopped
<1>3. Complete => Complete'
  BY <1>1 DEF Complete
<1> QED
  BY <1>1, <1>2, <1>3 DEF Transcript

LEMMA TranscriptClears ==
  ASSUME Patient, Typed, Control,
         \/ TapTranscribe \/ TranscribeReturns
         \/ \E s \in Sessions : PermissionDenied(s) \/ PermissionGranted(s)
  PROVE  Transcript'
<1>1. UNCHANGED <<open, stopPc, stopping>>
  BY DEF TapTranscribe, TranscribeReturns, PermissionDenied, PermissionGranted,
     handlers, ports
<1>2. /\ \A s \in Sessions : ~open[s]
      /\ \A i \in Stops : stopPc[i] # "finish"
  <2>1. CASE TapTranscribe
    BY <2>1, TapFacts DEF TapTranscribe, Stopping
  <2>2. CASE TranscribeReturns
    BY <2>2, OpenAlone
    DEF TranscribeReturns, Control, OneHandler, HandlerRunning
  <2>3. ASSUME NEW s \in Sessions, PermissionDenied(s) \/ PermissionGranted(s)
        PROVE  /\ \A t \in Sessions : ~open[t]
               /\ \A i \in Stops : stopPc[i] # "finish"
    <3>1. startPc[s] = "permission"
      BY <2>3 DEF PermissionDenied, PermissionGranted
    <3> QED
      BY <3>1, OpenAlone DEF Control, OneHandler, Starts, Stopping
  <2> QED
    BY <2>1, <2>2, <2>3
<1> QED
  BY <1>1, <1>2 DEF Transcript, Complete

LEMMA TranscriptSpawns ==
  ASSUME Typed, Control, Transcript, NEW s \in Sessions, SpawnWorker(s)
  PROVE  Transcript'
<1> SUFFICES ASSUME mounted PROVE Transcript'
  BY DEF SpawnWorker, flags, Transcript
<1>1. /\ startPc[s] = "directory" /\ Starts(s)
      /\ UNCHANGED <<mounted, shown, stopPc, stopping, pushed, inbox, outbox, pending, failed>>
      /\ open' = [open EXCEPT ![s] = TRUE]
      /\ worker' = [worker EXCEPT ![s] = "spawned"]
  BY DEF SpawnWorker, Starts, flags
<1>2. \A t \in Sessions : ~open[t]
  BY <1>1, OpenAlone
<1>3. \A i \in Stops : stopPc[i] # "finish"
  BY <1>1 DEF Control, OneHandler, Stopping
<1>4. /\ worker[s] = "none" /\ outbox[s] = <<>> /\ pushed[s] = <<>>
      /\ inbox[s] = <<>> /\ pending[s] = <<>> /\ shown = <<>> /\ ~Stopped(s)
  BY <1>1 DEF Control, OneSession, FlagsFollow, Fresh
<1>5. InTransit(s)'
  <2>1. /\ Len(<<>>) = 0 /\ 0 \in 0 .. 0 /\ <<>> \in Seq(1 .. MaxChunks)
        /\ SubSeq(<<>>, 0 + 1, 0) = <<>> /\ <<>> \o <<>> = <<>>
    BY EmptySeq, SubSeqEmpty, ConcatEmptySeq
  <2>2. worker'[s] = "spawned" /\ ~Stopped(s)'
    BY <1>1, <1>4 DEF Typed, TypeOK, Stopped
  <2>3. Conveys(<<>>, <<>>, <<>>, 0)
    BY <2>1, ConveysNothing
  <2>4. Unsent(s, 0)'
    BY <1>1, <1>4, <2>1, <2>2 DEF Unsent, FinishMark
  <2> QED
    BY <1>1, <1>4, <2>1, <2>2, <2>3, <2>4 DEF InTransit
<1> QED
  BY <1>1, <1>2, <1>3, <1>5 DEF Transcript, Complete, Typed, TypeOK

LEMMA TranscriptDelivers ==
  ASSUME Typed, Control, Transcript, RecorderDelivers
  PROVE  Transcript'
<1> PICK s \in Sessions : s = current
  BY DEF RecorderDelivers, Typed, TypeOK
<1> DEFINE p == pushed[s]
           n == Cardinality(Chunks) + 1
<1>1. /\ s \in Sessions /\ mounted /\ open[s] /\ s # None /\ n <= MaxChunks
      /\ UNCHANGED <<mounted, shown, handlers, open, outbox, pending, worker, failed>>
      /\ inbox' = Sent(s, n) /\ pushed' = [pushed EXCEPT ![s] = Append(@, n)]
  BY DEF RecorderDelivers, Typed, TypeOK, Control, FlagsFollow, flags, work
<1>2. n \in 1 .. MaxChunks
  BY <1>1, NextChunk
<1>3. p \in Seq(1 .. MaxChunks) /\ outbox[s] \in Seq(Messages)
  BY <1>1 DEF Typed, ChunkSeqs
<1>4. ~Stopped(s) /\ \A i \in Stops : stopPc[i] # "finish"
  BY <1>1 DEF Control, OneSession
<1>5. \A t \in Sessions : open[t] => t = s
  BY <1>1, OpenAlone
<1> HIDE DEF n
<1>6. pushed'[s] = Append(p, n) /\ Len(Append(p, n)) = Len(p) + 1
  BY <1>1, <1>2, <1>3, AppendProperties DEF Typed
<1>7. InTransit(s)'
  <2>1. PICK sent \in 0 .. Len(p) :
          /\ Conveys(p, outbox[s], shown, sent)
          /\ \/ s \in failed
             \/ worker[s] # "dead" /\ Unsent(s, sent)
    BY <1>1, <1>4 DEF Transcript, InTransit
  <2>2. sent \in 0 .. Len(pushed'[s])
    BY <1>3, <1>6
  <2>3. Conveys(Append(p, n), outbox[s], shown, sent)
    BY <1>2, <1>3, <2>1, ConveysGrown
  <2>4. CASE s \in failed
    BY <1>1, <1>6, <2>2, <2>3, <2>4 DEF InTransit
  <2>5. CASE worker[s] # "dead" /\ Unsent(s, sent)
    <3>1. PICK heard \in sent .. Len(p) :
            /\ pending[s] = SubSeq(p, sent + 1, heard)
            /\ inbox[s] = SubSeq(p, heard + 1, Len(p)) \o FinishMark(s)
      BY <2>5 DEF Unsent
    <3>2. /\ heard \in 0 .. Len(p) /\ sent \in Nat /\ heard \in Nat
          /\ heard \in sent .. Len(Append(p, n))
      BY <1>3, <1>6
    <3>3. SubSeq(p, heard + 1, Len(p)) \in Seq(1 .. MaxChunks)
      <4>1. Len(p) \in 0 .. Len(p)
        BY <1>3
      <4> QED
        BY ONLY <1>3, <3>2, <4>1, PieceType
    <3>4. inbox[s] = SubSeq(p, heard + 1, Len(p))
      BY <1>4, <3>1, <3>3, ConcatEmptySeq DEF FinishMark
    <3>5. inbox'[s] = SubSeq(Append(p, n), heard + 1, Len(Append(p, n)))
      <4>1. inbox'[s] = Append(inbox[s], n)
        BY <1>1, <2>5 DEF Sent, Typed, TypeOK
      <4>2. SubSeq(Append(p, n), heard + 1, Len(p) + 1)
              = Append(SubSeq(p, heard + 1, Len(p)), n)
        BY <1>2, <1>3, <3>2, LastPieceGrows
      <4> QED
        BY <1>6, <3>4, <4>1, <4>2
    <3>6. SubSeq(Append(p, n), sent + 1, heard) = SubSeq(p, sent + 1, heard)
      BY <1>2, <1>3, <3>2, PieceKept
    <3>7. FinishMark(s)' = <<>>
      BY <1>1, <1>4 DEF FinishMark, Stopped, handlers
    <3>8. inbox'[s] = inbox'[s] \o <<>>
      <4>1. inbox'[s] \in Seq(0 .. MaxChunks)
        BY <1>1, <1>2, PortTypes
      <4> QED
        BY <4>1, ConcatEmptySeq
    <3>9. Unsent(s, sent)'
      BY <1>1, <1>6, <3>1, <3>2, <3>5, <3>6, <3>7, <3>8 DEF Unsent
    <3> QED
      BY <1>1, <1>6, <2>2, <2>3, <2>5, <3>9 DEF InTransit
  <2> QED
    BY <2>1, <2>4, <2>5
<1> QED
  BY <1>1, <1>4, <1>5, <1>7 DEF Transcript, Complete, handlers

LEMMA TranscriptStops ==
  ASSUME Typed, Control, Transcript, NEW i \in Stops, RecorderStopped(i)
  PROVE  Transcript'
<1> SUFFICES ASSUME mounted PROVE Transcript'
  BY DEF RecorderStopped, StopEnds, flags, Transcript
<1>1. /\ UNCHANGED <<shown, open, outbox, work, pushed>>
      /\ stopping' = [stopping EXCEPT ![i] = current]
      /\ inbox' = IF current = None THEN inbox ELSE Sent(current, Finish)
      /\ stopPc' = [stopPc EXCEPT ![i] = IF current = None THEN "over" ELSE "finish"]
  BY DEF RecorderStopped, AwaitsFinish, StopEnds
<1>2. /\ None \notin Sessions /\ current \in Sessions \cup {None}
      /\ stopping \in [Stops -> Sessions \cup {None}]
      /\ stopping[i] = None /\ Stopping(i)
  BY ConstantFacts
  DEF Typed, TypeOK, Control, OneSession, RecorderStopped, Stopping
<1>3. \A j \in Stops : stopPc[j] # "finish"
  BY <1>2 DEF Control, OneHandler, Stopping, RecorderStopped
<1>4. current # None => open[current]
  BY DEF Control, FlagsFollow
<1>5. Complete'
  BY <1>1, <1>2, <1>3, <1>4 DEF Complete, Typed, TypeOK
<1>6. ASSUME NEW s \in Sessions, s # current, InTransit(s) PROVE InTransit(s)'
  <2>1. Stopped(s)' <=> Stopped(s)
    BY <1>1, <1>2, <1>6 DEF Stopped
  <2>2. inbox'[s] = inbox[s]
    BY <1>1, <1>6 DEF Sent, Typed, TypeOK
  <2> QED
    BY <1>1, <1>6, <2>1, <2>2, TransitKept DEF work
<1>7. ASSUME NEW s \in Sessions, s = current, InTransit(s) PROVE InTransit(s)'
  <2> DEFINE p == pushed[s]
  <2>1. ~Stopped(s) /\ Stopped(s)'
    <3>1. stopping'[i] = s
      BY <1>1, <1>2, <1>7
    <3> QED
      BY <1>2, <1>7, <3>1 DEF Stopped, Control, OneSession
  <2>2. PICK sent \in 0 .. Len(p) :
          /\ Conveys(p, outbox[s], shown, sent)
          /\ \/ s \in failed
             \/ worker[s] # "dead" /\ Unsent(s, sent)
    BY <1>7, <2>1 DEF InTransit
  <2>3. CASE s \in failed
    BY <1>1, <2>2, <2>3 DEF InTransit, work
  <2>4. CASE worker[s] # "dead" /\ Unsent(s, sent)
    <3>1. PICK heard \in sent .. Len(p) :
            /\ pending[s] = SubSeq(p, sent + 1, heard)
            /\ inbox[s] = SubSeq(p, heard + 1, Len(p)) \o FinishMark(s)
      BY <2>4 DEF Unsent
    <3>2. SubSeq(p, heard + 1, Len(p)) \in Seq(1 .. MaxChunks)
      <4>1. /\ p \in Seq(1 .. MaxChunks) /\ heard \in Nat /\ Len(p) \in 0 .. Len(p)
        BY DEF Typed, ChunkSeqs
      <4> QED
        BY ONLY <4>1, PieceType
    <3>3. inbox[s] = SubSeq(p, heard + 1, Len(p)) /\ inbox[s] \in Seq(0 .. MaxChunks)
      BY <2>1, <3>1, <3>2, ConcatEmptySeq DEF FinishMark, Typed, TypeOK
    <3>4. inbox'[s] = Append(inbox[s], Finish)
      BY <1>1, <1>2, <1>7, <2>4 DEF Sent, Typed, TypeOK
    <3>5. Append(inbox[s], Finish) = inbox[s] \o <<Finish>>
      BY <3>3, ConstantFacts, AppendIsConcat
    <3>6. FinishMark(s)' = <<Finish>>
      BY <2>1 DEF FinishMark, Finish
    <3>7. Unsent(s, sent)'
      BY <1>1, <3>1, <3>3, <3>4, <3>5, <3>6 DEF Unsent, work
    <3> QED
      BY <1>1, <2>2, <2>4, <3>7 DEF InTransit, work
  <2> QED
    BY <2>2, <2>3, <2>4
<1> QED
  BY <1>1, <1>5, <1>6, <1>7 DEF Transcript

(* What a worker that receives finds in its port.                          *)
LEMMA ReceivesNext ==
  ASSUME Typed, NEW s \in Sessions, inbox[s] # <<>>,
         NEW sent \in 0 .. Len(pushed[s]), NEW heard \in sent .. Len(pushed[s]),
         inbox[s] = SubSeq(pushed[s], heard + 1, Len(pushed[s])) \o FinishMark(s)
  PROVE  \/ /\ heard < Len(pushed[s]) /\ Head(inbox[s]) = pushed[s][heard + 1]
            /\ Head(inbox[s]) # Finish
            /\ Tail(inbox[s]) =
                 SubSeq(pushed[s], (heard + 1) + 1, Len(pushed[s])) \o FinishMark(s)
         \/ /\ heard = Len(pushed[s]) /\ Stopped(s) /\ Head(inbox[s]) = Finish
<1> DEFINE p == pushed[s]
           rest == SubSeq(p, heard + 1, Len(p))
<1>1. /\ p \in Seq(1 .. MaxChunks) /\ Len(p) \in Nat /\ heard \in Nat
      /\ Len(p) \in 0 .. Len(p)
  BY DEF Typed, ChunkSeqs
<1>2. rest \in Seq(0 .. MaxChunks)
  <2>1. p \in Seq(0 .. MaxChunks)
    <3>1. 1 .. MaxChunks \subseteq 0 .. MaxChunks
      OBVIOUS
    <3> QED
      BY ONLY <1>1, <3>1, SeqMonotonic
  <2> QED
    BY ONLY <1>1, <2>1, PieceType
<1>3. FinishMark(s) \in Seq(0 .. MaxChunks)
  <2>1. <<>> \in Seq(0 .. MaxChunks) /\ <<Finish>> = Append(<<>>, Finish)
    BY EmptySeq
  <2>2. <<Finish>> \in Seq(0 .. MaxChunks)
    BY <2>1, ConstantFacts, AppendProperties
  <2> QED
    BY <2>1, <2>2 DEF FinishMark
<1>4. CASE heard < Len(p)
  <2>1. heard \in sent .. Len(p) - 1
    BY <1>1, <1>4
  <2>2. /\ rest # <<>> /\ Head(rest) = p[heard + 1]
        /\ Tail(rest) = SubSeq(p, (heard + 1) + 1, Len(p))
    BY ONLY <1>1, <2>1, NextOfPiece, sent \in 0 .. Len(pushed[s])
  <2>3. p[heard + 1] \in 1 .. MaxChunks
    <3> PICK b \in 1 .. Len(p) : b = heard + 1
      BY <1>1, <1>4
    <3>1. p[b] \in 1 .. MaxChunks
      BY <1>1, ElementOfSeq
    <3> QED
      BY <3>1
  <2> HIDE DEF rest
  <2>4. Head(rest \o FinishMark(s)) = Head(rest)
        /\ Tail(rest \o FinishMark(s)) = Tail(rest) \o FinishMark(s)
    BY ONLY <1>2, <1>3, <2>2, HeadTailOfConcat
  <2> QED
    BY <1>4, <2>2, <2>3, <2>4, ConstantFacts DEF rest
<1>5. CASE heard = Len(p)
  <2>1. rest = <<>>
    BY <1>1, <1>5, SubSeqEmpty
  <2>2. inbox[s] = FinishMark(s)
    BY <1>3, <2>1, ConcatEmptySeq
  <2>3. Stopped(s) /\ inbox[s] = <<Finish>>
    BY <2>2 DEF FinishMark
  <2> QED
    BY <1>5, <2>3
<1>6. heard < Len(p) \/ heard = Len(p)
  BY <1>1
<1> QED
  BY <1>4, <1>5, <1>6

LEMMA WorkerTransit ==
  ASSUME Typed, Control, NEW s \in Sessions, InTransit(s), WorkerTurn(s)
  PROVE  InTransit(s)'
<1> DEFINE p == pushed[s]
<1>1. /\ UNCHANGED <<shown, handlers, pushed>> /\ worker[s] \in {"spawned", "idle"}
      /\ s \notin failed
  BY DEF WorkerTurn, WorkerStarts, WorkerPushes, WorkerFinishes, WorkerThrows,
     Receives, Control, Fresh
<1>2. PICK sent \in 0 .. Len(p) : Conveys(p, outbox[s], shown, sent) /\ Unsent(s, sent)
  BY <1>1 DEF InTransit
<1>3. PICK heard \in sent .. Len(p) :
        /\ pending[s] = SubSeq(p, sent + 1, heard)
        /\ inbox[s] = SubSeq(p, heard + 1, Len(p)) \o FinishMark(s)
  BY <1>2 DEF Unsent
<1>4. /\ p \in Seq(1 .. MaxChunks) /\ Len(p) \in Nat /\ sent \in Nat /\ heard \in Nat
      /\ heard \in 0 .. Len(p) /\ outbox[s] \in Seq(Messages)
      /\ pending[s] \in ChunkSeqs /\ <<>> \in ChunkSeqs
  <2>1. /\ p \in Seq(1 .. MaxChunks) /\ outbox[s] \in Seq(Messages)
        /\ pending[s] \in ChunkSeqs /\ <<>> \in ChunkSeqs
    BY EmptySeq DEF Typed, ChunkSeqs
  <2>2. Len(p) \in Nat
    BY <2>1, LenProperties
  <2> QED
    BY <2>1, <2>2
<1>5. FinishMark(s)' = FinishMark(s) /\ (Stopped(s)' <=> Stopped(s))
  BY <1>1 DEF FinishMark, Stopped, handlers
<1>6. \A k \in {"port", "segment", "done"}, c \in ChunkSeqs :
        Text(k, c) \in Messages /\ Text(k, c).text = c
  BY DEF Text, Messages
<1>7. CASE WorkerStarts(s)
  <2> DEFINE m == Text("port", <<>>)
  <2>1. m \in Messages /\ m.text = SubSeq(p, sent + 1, sent)
    <3>1. SubSeq(p, sent + 1, sent) = <<>>
      BY <1>4, SubSeqEmpty
    <3> QED
      BY <1>4, <1>6, <3>1
  <2>2. sent \in sent .. Len(p)
    BY <1>4
  <2> HIDE DEF m
  <2>3. Conveys(p, Append(outbox[s], m), shown, sent)
    BY <1>2, <1>4, <2>1, <2>2, ConveysMore
  <2>4. outbox'[s] = Append(outbox[s], m)
    BY <1>7 DEF WorkerStarts, Typed, m
  <2>5. s \in failed' \/ worker'[s] # "dead"
    BY <1>7 DEF WorkerStarts, Typed, TypeOK
  <2>6. Unsent(s, sent)'
    BY <1>1, <1>2, <1>3, <1>5, <1>7 DEF Unsent, WorkerStarts
  <2> QED
    BY <1>1, <1>2, <2>3, <2>4, <2>5, <2>6 DEF InTransit
<1>8. CASE WorkerPushes(s)
  <2> DEFINE e == Head(inbox[s])
             more == Append(pending[s], e)
             m == Text("segment", more)
  <2>1. /\ inbox[s] # <<>> /\ e # Finish /\ inbox'[s] = Tail(inbox[s])
        /\ worker' = worker /\ worker[s] = "idle"
    BY <1>8 DEF WorkerPushes, Receives, Typed, TypeOK
  <2>2. /\ heard < Len(p) /\ e = p[heard + 1]
        /\ Tail(inbox[s]) = SubSeq(p, (heard + 1) + 1, Len(p)) \o FinishMark(s)
    BY <1>2, <1>3, <2>1, ReceivesNext
  <2>3. more = SubSeq(p, sent + 1, heard + 1)
    <3>1. heard \in sent .. Len(p) - 1
      BY <1>4, <2>2
    <3> QED
      BY <1>2, <1>3, <1>4, <2>2, <3>1, NextOfPiece
  <2> PICK b \in Nat : b = heard + 1
    BY <1>4
  <2>4. b \in sent .. Len(p) /\ b \in 0 .. Len(p) /\ b \in b .. Len(p)
    BY <1>4, <2>2
  <2>5. more \in ChunkSeqs
    <3>1. SubSeq(p, sent + 1, b) \in Seq(1 .. MaxChunks)
      BY ONLY <1>4, <2>4, PieceType
    <3> QED
      BY <2>3, <3>1 DEF ChunkSeqs
  <2> HIDE DEF more, e
  <2>6. m \in Messages /\ m.text = SubSeq(p, sent + 1, b)
    BY <1>6, <2>3, <2>5
  <2>7. \/ pending'[s] = more /\ outbox'[s] = outbox[s]
        \/ pending'[s] = <<>> /\ outbox'[s] = Append(outbox[s], m)
    BY <1>8 DEF WorkerPushes, Rest, Typed, more, e
  <2> HIDE DEF m
  <2>8. CASE pending'[s] = more /\ outbox'[s] = outbox[s]
    <3>1. Unsent(s, sent)'
      BY <1>1, <1>5, <2>1, <2>2, <2>3, <2>4, <2>8 DEF Unsent
    <3> QED
      BY <1>1, <1>2, <2>1, <2>8, <3>1 DEF InTransit
  <2>9. CASE pending'[s] = <<>> /\ outbox'[s] = Append(outbox[s], m)
    <3>1. Conveys(p, Append(outbox[s], m), shown, b)
      BY <1>2, <1>4, <2>4, <2>6, ConveysMore
    <3>2. SubSeq(p, b + 1, b) = <<>>
      BY SubSeqEmpty
    <3>3. Unsent(s, b)'
      BY <1>1, <1>5, <2>1, <2>2, <2>4, <2>9, <3>2 DEF Unsent
    <3> QED
      BY <1>1, <2>1, <2>4, <2>9, <3>1, <3>3 DEF InTransit
  <2> QED
    BY <2>7, <2>8, <2>9
<1>9. CASE WorkerFinishes(s)
  <2> DEFINE m == Text("done", pending[s])
  <2>1. /\ inbox[s] # <<>> /\ Head(inbox[s]) = Finish /\ worker'[s] = "dead"
        /\ outbox'[s] = Append(outbox[s], m)
    BY <1>9 DEF WorkerFinishes, Receives, Trailing, Typed, TypeOK
  <2>2. heard = Len(p) /\ Stopped(s)
    BY <1>2, <1>3, <2>1, ReceivesNext
  <2>3. m \in Messages /\ m.text = SubSeq(p, sent + 1, heard)
    BY <1>3, <1>4, <1>6
  <2> HIDE DEF m
  <2>4. Conveys(p, Append(outbox[s], m), shown, heard)
    BY <1>2, <1>3, <1>4, <2>3, ConveysMore
  <2> QED
    BY <1>1, <1>4, <1>5, <2>1, <2>2, <2>4 DEF InTransit
<1>10. CASE WorkerThrows(s)
  <2>1. s \in failed' /\ outbox' = outbox
    BY <1>10 DEF WorkerThrows
  <2> QED
    BY <1>1, <1>2, <2>1 DEF InTransit
<1> QED
  BY <1>7, <1>8, <1>9, <1>10 DEF WorkerTurn

LEMMA TranscriptWorks ==
  ASSUME Typed, Control, Transcript, NEW s \in Sessions, WorkerTurn(s)
  PROVE  Transcript'
<1>1. /\ UNCHANGED <<flags, handlers, open>> /\ open[s]
      /\ failed \subseteq failed'
  BY DEF WorkerTurn, WorkerStarts, WorkerPushes, WorkerFinishes, WorkerThrows,
     Receives, Control, OneSession
<1>2. /\ \A t \in Sessions : open[t] => t = s
      /\ \A i \in Stops : stopPc[i] = "finish" => stopping[i] = s
  BY <1>1, OpenAlone
<1>3. mounted => InTransit(s)'
  BY <1>1, WorkerTransit DEF Transcript
<1> QED
  BY <1>1, <1>2, <1>3 DEF Transcript, Complete, flags, handlers

(* The text of the oldest message follows what is on the screen.           *)
LEMMA ReceivedFollows ==
  ASSUME Typed, mounted, NEW s \in Sessions, InTransit(s), MainReceives(s)
  PROVE  \E sent \in 0 .. Len(pushed[s]) :
           /\ Conveys(pushed[s], outbox'[s], shown', sent)
           /\ \/ s \in failed
              \/ worker[s] = "dead" /\ sent = Len(pushed[s]) /\ Stopped(s)
              \/ worker[s] # "dead" /\ Unsent(s, sent)
<1>1. PICK sent \in 0 .. Len(pushed[s]) :
        /\ Conveys(pushed[s], outbox[s], shown, sent)
        /\ \/ s \in failed
           \/ worker[s] = "dead" /\ sent = Len(pushed[s]) /\ Stopped(s)
           \/ worker[s] # "dead" /\ Unsent(s, sent)
  BY DEF InTransit
<1>2. /\ outbox[s] # <<>> /\ outbox'[s] = Tail(outbox[s])
      /\ shown' = shown \o Head(outbox[s]).text
  BY DEF MainReceives, Typed
<1>3. outbox[s] \in Seq(Messages) /\ pushed[s] \in Seq(1 .. MaxChunks)
  BY DEF Typed, ChunkSeqs
<1>4. Conveys(pushed[s], Tail(outbox[s]), shown \o Head(outbox[s]).text, sent)
  BY <1>1, <1>2, <1>3, ConveysReceived
<1> QED
  BY <1>1, <1>2, <1>4

LEMMA TranscriptReceives ==
  ASSUME Typed, Control, Transcript, NEW s \in Sessions, MainReceives(s)
  PROVE  Transcript'
<1> SUFFICES ASSUME mounted PROVE Transcript'
  BY DEF MainReceives, flags, Transcript
<1> DEFINE m == Head(outbox[s])
           p == pushed[s]
<1>1. /\ UNCHANGED <<handlers, inbox, work, pushed>> /\ open[s]
      /\ open' = [open EXCEPT ![s] = m.kind # "done"]
      /\ outbox[s] # <<>> /\ outbox'[s] = Tail(outbox[s])
  BY DEF MainReceives, StillOpen, Typed
<1>2. /\ \A t \in Sessions : open[t] => t = s
      /\ \A i \in Stops : stopPc[i] = "finish" => stopping[i] = s
  BY <1>1, OpenAlone
<1>3. PICK sent \in 0 .. Len(p) :
        /\ Conveys(p, outbox'[s], shown', sent)
        /\ \/ s \in failed
           \/ worker[s] = "dead" /\ sent = Len(p) /\ Stopped(s)
           \/ worker[s] # "dead" /\ Unsent(s, sent)
  BY <1>1, ReceivedFollows DEF Transcript
<1>4. InTransit(s)'
  <2>1. Stopped(s)' = Stopped(s) /\ FinishMark(s)' = FinishMark(s)
    BY <1>1 DEF Stopped, FinishMark, handlers
  <2>2. Unsent(s, sent) => Unsent(s, sent)'
    BY <1>1, <2>1 DEF Unsent, work
  <2> QED
    BY <1>1, <1>3, <2>1, <2>2 DEF InTransit, work
<1>5. ASSUME m.kind = "done", s \notin failed PROVE shown' = p
  <2>1. outbox[s] \in Seq(Messages) /\ p \in Seq(1 .. MaxChunks)
    BY DEF Typed, ChunkSeqs
  <2>2. m = outbox[s][1] /\ 1 \in 1 .. Len(outbox[s])
    BY <1>1, <2>1
  <2>3. Len(outbox[s]) = 1 /\ worker[s] = "dead"
    BY <1>5, <2>2 DEF Control, DoneIsLast
  <2>4. outbox'[s] = <<>>
    <3>1. outbox'[s] \in Seq(Messages) /\ Len(outbox'[s]) = 0
      BY <1>1, <2>1, <2>3, HeadTailProperties
    <3> QED
      BY <3>1, EmptySeq
  <2>5. sent = Len(p)
    BY <1>3, <1>5, <2>3
  <2>6. shown' = SubSeq(p, 1, Len(p))
    <3>1. <<>> \in Seq(Messages) /\ Conveys(p, <<>>, shown', sent)
      BY <1>3, <2>4, EmptySeq
    <3> QED
      BY <2>1, <2>5, <3>1, ConveysShown
  <2> QED
    BY <2>1, <2>6, SubSeqFull
<1>6. Complete'
  <2> SUFFICES ASSUME NEW i \in Stops, stopPc[i] = "finish",
                      ~open'[stopping[i]], stopping[i] \notin failed
               PROVE  shown' = pushed[stopping[i]]
    BY <1>1 DEF Complete, handlers, work
  <2>1. stopping[i] = s
    BY <1>2
  <2>2. m.kind = "done"
    BY <1>1, <2>1 DEF Typed, TypeOK
  <2> QED
    BY <1>5, <2>1, <2>2
<1>7. \A t \in Sessions : open'[t] => t = s
  BY <1>1, <1>2 DEF Typed, TypeOK
<1> QED
  BY <1>4, <1>6, <1>7 DEF Transcript

LEMMA InitTranscript == Init => Transcript
BY DEF Init, Transcript, Complete

LEMMA SessionInvariance == ASSUME Patient PROVE Spec => []SessionInv
<1>1. SessionInv /\ [Next]_vars => Transcript'
  <2> SUFFICES ASSUME Typed, Control, Transcript, [Next]_vars PROVE Transcript'
    BY DEF SessionInv
  <2>1. CASE UNCHANGED vars
    BY <2>1, TranscriptQuiet
  <2>2. CASE Dispose
    BY <2>2 DEF Dispose, Transcript
  <2>3. CASE MessageStep
    BY <2>3, TranscriptDelivers, TranscriptWorks, TranscriptReceives DEF MessageStep
  <2>4. CASE AppStep /\ ~Dispose
    BY <2>4, TranscriptQuiet, TranscriptClears, TranscriptSpawns, TranscriptStops
    DEF AppStep, StartTurn, StopTurn
  <2> QED
    BY <2>1, <2>2, <2>3, <2>4, StepKinds
<1>2. Init => SessionInv
  BY InitTyped, InitControl, InitTranscript DEF SessionInv
<1>3. SessionInv /\ [Next]_vars => SessionInv'
  BY <1>1, TypedStep, OneHandlerStep, OneSessionStep, FreshStep, DoneIsLastStep
  DEF SessionInv, Control
<1> QED
  BY <1>2, <1>3, PTL DEF Spec

-----------------------------------------------------------------------------
(* The results.                                                            *)

(* While a session is open the app offers no other action than Stop.       *)
THEOREM StopIsOffered == ASSUME Patient PROVE Spec => []OnlyStopWhileStreaming
<1>1. SessionInv => OnlyStopWhileStreaming
  <2> SUFFICES ASSUME Typed, Control, mounted, Idle, NEW s \in Sessions, open[s]
               PROVE  FALSE
    BY DEF SessionInv, OnlyStopWhileStreaming
  <2>1. Known(s)
    BY DEF Control, OneSession
  <2> QED
    BY <2>1, ConstantFacts DEF Known, Finishing, Idle, Control, FlagsFollow, Stopping
<1> QED
  BY <1>1, SessionInvariance, PTL

(* One isolate at most drives the inference.                               *)
THEOREM OneDriver == ASSUME Patient PROVE Spec => []PipelineSerialized
<1>1. SessionInv => PipelineSerialized
  <2> SUFFICES ASSUME Typed, Control PROVE PipelineSerialized
    BY DEF SessionInv
  <2>1. \A s \in Driving : s \in Sessions /\ open[s]
    BY DEF Driving, Control, OneSession
  <2>2. CASE \E s \in Sessions : open[s]
    <3> PICK s \in Sessions : open[s]
      BY <2>2
    <3>1. ~transcribing /\ Driving \subseteq {s}
      BY <2>1, OpenAlone
    <3>2. IsFiniteSet({s}) /\ Cardinality({s}) = 1
      BY FS_Singleton
    <3>3. Cardinality(Driving) <= 1 /\ Cardinality(Driving) \in Nat
      BY <3>1, <3>2, FS_Subset, FS_CardinalityType
    <3> QED
      BY <3>1, <3>3 DEF PipelineSerialized
  <2>3. CASE \A s \in Sessions : ~open[s]
    <3>1. Driving = {}
      BY <2>1, <2>3
    <3>2. Cardinality(Driving) = 0
      BY <3>1, FS_EmptySet
    <3> QED
      BY <3>2 DEF PipelineSerialized
  <2> QED
    BY <2>2, <2>3
<1> QED
  BY <1>1, SessionInvariance, PTL

(* TranscriptComplete, of a single step.                                   *)
StopsComplete ==
  \A i \in Stops :
    /\ mounted /\ stopPc[i] = "finish" /\ stopPc'[i] = "over"
    /\ stopping[i] \notin failed
    => shown = pushed[stopping[i]]

(* When a stop has waited for finish and the worker did not die of an      *)
(* exception, everything that was recorded is on the screen.               *)
THEOREM AllOnScreen == ASSUME Patient PROVE Spec => TranscriptComplete
<1>1. SessionInv /\ [Next]_vars => [StopsComplete]_vars
  <2> SUFFICES ASSUME Typed, Transcript, Next, NEW i \in Stops, mounted,
                      stopPc[i] = "finish", stopPc'[i] = "over", stopping[i] \notin failed
               PROVE  shown = pushed[stopping[i]]
    BY DEF SessionInv, StopsComplete
  <2>1. /\ Complete
        /\ stopPc \in [Stops -> {"none", "recorder", "finish", "over"}]
    BY DEF Transcript, Typed, TypeOK
  <2>2. ~MessageStep
    BY DEF MessageStep, RecorderDelivers, WorkerTurn, WorkerStarts, WorkerPushes,
       WorkerFinishes, WorkerThrows, Receives, MainReceives, handlers
  <2>3. \E j \in Stops : TapStop(j) \/ StopTurn(j)
    BY <2>2, StepKinds DEF AppStep, TapTranscribe, TranscribeReturns, Dispose, TapStart,
       StartTurn, PermissionDenied, PermissionGranted, SpawnWorker, SessionReady,
       MicStarts, StartThrows, handlers
  <2>4. FinishReturns(i)
    BY <2>1, <2>3 DEF TapStop, StopTurn, RecorderStopped, StopEnds, StopThrows,
       FinishReturns
  <2> QED
    BY <2>1, <2>4 DEF FinishReturns, Complete
<1> QED
  BY <1>1, SessionInvariance, PTL DEF Spec, TranscriptComplete, StopsComplete

-----------------------------------------------------------------------------
(* The transcript is in order also when nothing is open: it stays the      *)
(* prefix it was while what was recorded can only grow.                    *)

LEMMA PrefixKept ==
  ASSUME NEW S, NEW t \in Seq(S), NEW p \in Seq(S), IsPrefix(t, p), NEW e \in S
  PROVE  IsPrefix(t, Append(p, e))
<1>1. /\ Len(t) \in Nat /\ Len(t) <= Len(p) /\ Len(p) \in Nat
      /\ Len(Append(p, e)) = Len(p) + 1
      /\ SubSeq(t, 1, Len(t)) = SubSeq(p, 1, Len(t))
  BY LenProperties, AppendProperties DEF IsPrefix
<1>2. SubSeq(Append(p, e), 0 + 1, Len(t)) = SubSeq(p, 0 + 1, Len(t))
  BY <1>1, PieceKept
<1> QED
  BY <1>1, <1>2 DEF IsPrefix

LEMMA PieceIsPrefix ==
  ASSUME NEW S, NEW p \in Seq(S), NEW a \in 0 .. Len(p)
  PROVE  IsPrefix(SubSeq(p, 1, a), p)
<1> DEFINE t == SubSeq(p, 1, a)
<1>1. a \in Nat /\ Len(p) \in Nat /\ a <= Len(p) /\ \A i \in 1 .. a : p[i] \in S
  BY LenProperties, ElementOfSeq
<1>2. t \in Seq(S) /\ Len(t) = IF 1 <= a THEN a - 1 + 1 ELSE 0
  BY ONLY <1>1, SubSeqProperties
<1>3. Len(t) = a
  BY <1>1, <1>2
<1>4. SubSeq(t, 1, Len(t)) = t
  BY <1>2, SubSeqFull
<1> HIDE DEF t
<1>5. SubSeq(t, 1, Len(t)) = SubSeq(p, 1, Len(t))
  BY <1>3, <1>4 DEF t
<1> QED
  BY <1>1, <1>3, <1>5 DEF IsPrefix, t

LEMMA InOrderStep ==
  SessionInv /\ TranscriptInOrder /\ [Next]_vars => TranscriptInOrder'
<1> SUFFICES ASSUME SessionInv, TranscriptInOrder, [Next]_vars PROVE TranscriptInOrder'
  OBVIOUS
<1>0. /\ shown \in Seq(1 .. MaxChunks) /\ shown' \in Seq(1 .. MaxChunks)
      /\ pushed \in [Sessions -> Seq(1 .. MaxChunks)]
      /\ pushed' \in [Sessions -> Seq(1 .. MaxChunks)]
  BY TypedStep DEF SessionInv, Typed, TypeOK, ChunkSeqs
<1> PICK s \in Sessions : IsPrefix(shown, pushed[s])
  BY DEF TranscriptInOrder
<1>1. CASE shown' = shown /\ pushed' = pushed
  BY <1>1 DEF TranscriptInOrder
<1>2. CASE shown' = <<>>
  <2>1. IsPrefix(<<>>, pushed'[s])
    <3>1. pushed'[s] \in Seq(1 .. MaxChunks) /\ Len(pushed'[s]) \in Nat /\ Len(<<>>) = 0
      BY <1>0, LenProperties
    <3>2. SubSeq(<<>>, 1, 0) = <<>> /\ SubSeq(pushed'[s], 1, 0) = <<>>
      BY SubSeqEmpty
    <3> QED
      BY <3>1, <3>2 DEF IsPrefix
  <2> QED
    BY <1>2, <2>1 DEF TranscriptInOrder
<1>3. CASE RecorderDelivers
  <2> DEFINE n == Cardinality(Chunks) + 1
  <2>1. /\ shown' = shown /\ n <= MaxChunks
        /\ pushed' = [pushed EXCEPT ![current] = Append(@, n)]
    BY <1>3 DEF RecorderDelivers
  <2>2. n \in 1 .. MaxChunks
    BY <2>1, NextChunk DEF SessionInv
  <2> HIDE DEF n
  <2>3. pushed[s] \in Seq(1 .. MaxChunks) /\ pushed'[s] \in {pushed[s], Append(pushed[s], n)}
    BY <1>0, <2>1
  <2>4. IsPrefix(shown, pushed'[s])
    BY <1>0, <2>2, <2>3, PrefixKept
  <2> QED
    BY <2>1, <2>4 DEF TranscriptInOrder
<1>4. ASSUME NEW r \in Sessions, MainReceives(r), mounted PROVE TranscriptInOrder'
  <2>1. open[r] /\ pushed' = pushed /\ outbox' \in [Sessions -> Seq(Messages)]
    BY <1>4, TypedStep DEF MainReceives, SessionInv, Typed
  <2>2. PICK sent \in 0 .. Len(pushed[r]) : Conveys(pushed[r], outbox'[r], shown', sent)
    BY <1>4, <2>1, ReceivedFollows DEF SessionInv, Transcript
  <2>3. pushed[r] \in Seq(1 .. MaxChunks) /\ outbox'[r] \in Seq(Messages)
    BY <1>0, <2>1
  <2>4. PICK a \in 0 .. Len(pushed[r]) : shown' = SubSeq(pushed[r], 1, a)
    BY <2>2, <2>3, ConveysShown
  <2>5. IsPrefix(shown', pushed[r])
    BY <2>3, <2>4, PieceIsPrefix
  <2> QED
    BY <2>1, <2>5 DEF TranscriptInOrder
<1>5. CASE UNCHANGED vars
  BY <1>1, <1>5 DEF vars
<1>6. ASSUME NEW r \in Sessions, WorkerTurn(r) \/ (MainReceives(r) /\ ~mounted)
      PROVE  shown' = shown /\ pushed' = pushed
  BY <1>6 DEF WorkerTurn, WorkerStarts, WorkerPushes, WorkerFinishes, WorkerThrows,
     Receives, MainReceives
<1>7. CASE AppStep
  BY <1>1, <1>2, <1>7 DEF AppStep, TapTranscribe, TranscribeReturns, Cleared, Dispose,
     TapStart, StartTurn, PermissionDenied, PermissionGranted, SpawnWorker, SessionReady,
     MicStarts, StartThrows, TapStop, StopTurn, RecorderStopped, StopThrows, FinishReturns
<1> QED
  BY <1>1, <1>3, <1>4, <1>5, <1>6, <1>7, StepKinds DEF MessageStep

(* What is on the screen is always made from the first chunks of one       *)
(* session's recording, in order and once each.                            *)
THEOREM ScreenInOrder ==
  ASSUME Patient, MaxSessions > 0 PROVE Spec => []TranscriptInOrder
<1>1. Init => TranscriptInOrder
  <2> SUFFICES ASSUME Init PROVE TranscriptInOrder
    OBVIOUS
  <2>1. 1 \in Sessions
    BY SessionAssumption DEF Sessions
  <2>2. shown = <<>> /\ pushed[1] = <<>>
    BY <2>1 DEF Init
  <2>3. IsPrefix(<<>>, <<>>)
    BY DEF IsPrefix
  <2> QED
    BY <2>1, <2>2, <2>3 DEF TranscriptInOrder
<1> QED
  BY <1>1, InOrderStep, SessionInvariance, PTL DEF Spec
=============================================================================
