------------------------------- MODULE Handles -------------------------------
(***************************************************************************)
(* Who frees the native objects, and when: class Vaani (lib/src/vaani.dart),*)
(* class VaaniStream (lib/src/vaani_stream.dart) and the GC finalizers of  *)
(* lib/src/native_library.dart.                                            *)
(*                                                                         *)
(* One native pipeline, owned by one Vaani on the main isolate and lent to *)
(* a worker isolate by its address, and several streams on it.  A Dart     *)
(* wrapper is "held" by the program, "dropped" once nothing refers to it,  *)
(* and "gone" once collected.  A VaaniStream does not refer to its Vaani.  *)
(***************************************************************************)
EXTENDS Integers, FiniteSets

CONSTANTS
  Streams,     \* the streams that can be created
  FreeFound    \* _callocFinalizer # null: the process's free was found

ASSUME HandlesAssumption ==
  /\ FreeFound \in BOOLEAN /\ IsFiniteSet(Streams)
  /\ "transcribe" \notin Streams

Isolates == {"main", "worker"}

VARIABLES
  orderly,    \* the program settles its streams before their pipeline
  running,    \* isolates not yet gone
  owner,      \* the owning Vaani: "none", "held", "dropped" or "gone"
  disposed,   \* its _disposed
  pipeline,   \* the native pipeline: "none", "live" or "freed"
  wrapper,    \* each VaaniStream: "none", "held", "dropped" or "gone"
  home,       \* the isolate each was created on
  closed,     \* its _closed
  native,     \* each native stream state: "none", "live" or "freed"
  segment,    \* whether it holds a segment long enough to be decoded
  scratch,    \* each _frameBuf: "none", "live" or "freed"
  inside,     \* native calls under way: "transcribe" and pushing streams
  wrong       \* history: "used freed" or "freed twice" happened

objects == <<owner, disposed, wrapper, home, closed>>
natives == <<pipeline, native, segment, scratch>>
vars == <<orderly, running, objects, natives, inside, wrong>>

Init ==
  /\ orderly \in BOOLEAN
  /\ running = Isolates
  /\ owner = "none" /\ disposed = FALSE /\ pipeline = "none"
  /\ wrapper = [s \in Streams |-> "none"]
  /\ home    = [s \in Streams |-> "main"]
  /\ closed  = [s \in Streams |-> FALSE]
  /\ native  = [s \in Streams |-> "none"]
  /\ segment = [s \in Streams |-> FALSE]
  /\ scratch = [s \in Streams |-> "none"]
  /\ inside = {} /\ wrong = {}

(* Using memory, or freeing it, when it is no longer there.                *)
Using(mem)   == IF mem = "freed" THEN {"used freed"} ELSE {}
Freeing(mem) == IF mem = "freed" THEN {"freed twice"} ELSE {}

-----------------------------------------------------------------------------
(* Vaani.create: the pipeline is built on an isolate of its own; when that *)
(* fails, nothing is left behind.                                          *)
Create ==
  /\ owner = "none" /\ "main" \in running
  /\ owner' = "held" /\ pipeline' = "live"
  /\ UNCHANGED <<orderly, running, disposed, wrapper, home, closed, native,
                 segment, scratch, inside, wrong>>

Usable == owner = "held" /\ ~disposed /\ "main" \in running

(* Nothing refers to a wrapper any more, on a running isolate.             *)
Unreachable(state, i) ==
  state = "dropped" \/ (state = "held" /\ i \notin running)

(* Nothing in the code ties a stream to its pipeline: that the streams go  *)
(* first is up to the program.  An orderly one gives up the pipeline when  *)
(* no native call is under way and it has closed each stream, or let go of *)
(* it with no segment left to decode (after a flush, say).  Letting go of  *)
(* one with a segment is not enough: its finalizer decodes the segment,    *)
(* and may do so after the pipeline was freed (native_library.dart:64).    *)
StreamsSettled ==
  \A s \in Streams :
    native[s] = "live" => Unreachable(wrapper[s], home[s]) /\ ~segment[s]
MayGiveUp == orderly => StreamsSettled /\ inside = {}

FreePipeline ==
  /\ pipeline' = "freed"
  /\ wrong' = wrong \cup Freeing(pipeline)

(* dispose: a second call, or one on a borrowed handle, does nothing.      *)
Dispose ==
  /\ Usable /\ MayGiveUp
  /\ disposed' = TRUE
  /\ FreePipeline
  /\ UNCHANGED <<orderly, running, owner, wrapper, home, closed, native,
                 segment, scratch, inside>>

(* transcribe: throws once disposed; otherwise an isolate of its own is    *)
(* given the address.  The native call returns some time later.            *)
TranscribeBegins ==
  /\ Usable /\ "transcribe" \notin inside
  /\ inside' = inside \cup {"transcribe"}
  /\ wrong' = wrong \cup Using(pipeline)
  /\ UNCHANGED <<orderly, running, objects, natives>>

TranscribeEnds ==
  /\ "transcribe" \in inside
  /\ inside' = inside \ {"transcribe"}
  /\ wrong' = wrong \cup Using(pipeline)
  /\ UNCHANGED <<orderly, running, objects, natives>>

(* createStream, on the owner (which throws once disposed) or, on the      *)
(* worker, on a handle rebuilt from the address, which cannot know.  An    *)
(* orderly program rebuilds no handle of a pipeline it has given up.       *)
CreateStream(s, i) ==
  /\ wrapper[s] = "none" /\ i \in running /\ pipeline # "none"
  /\ (i = "main" \/ orderly) => Usable
  /\ wrapper' = [wrapper EXCEPT ![s] = "held"]
  /\ home'    = [home EXCEPT ![s] = i]
  /\ native'  = [native EXCEPT ![s] = "live"]
  /\ scratch' = [scratch EXCEPT ![s] = "live"]
  /\ UNCHANGED <<orderly, running, owner, disposed, closed, pipeline, segment,
                 inside, wrong>>

(* A push runs VAD, and at times a decode, on the pipeline; an isolate is  *)
(* in one native call at a time.                                           *)
Quiet(i) == \A s \in inside \ {"transcribe"} : home[s] # i
PushBegins(s) ==
  /\ wrapper[s] = "held" /\ ~closed[s] /\ home[s] \in running
  /\ Quiet(home[s])
  /\ inside' = inside \cup {s}
  /\ wrong' = wrong \cup Using(native[s]) \cup Using(pipeline)
  /\ UNCHANGED <<orderly, running, objects, natives>>

PushEnds(s) ==
  /\ s \in inside
  /\ inside' = inside \ {s}
  /\ segment' \in {[segment EXCEPT ![s] = b] : b \in BOOLEAN}
  /\ wrong' = wrong \cup Using(native[s]) \cup Using(pipeline)
  /\ UNCHANGED <<orderly, running, objects, pipeline, native, scratch>>

(* vaani_stream_close decodes, for the log, a segment still open.          *)
StreamCloseUses(s) ==
  Using(native[s]) \cup IF segment[s] THEN Using(pipeline) ELSE {}

(* close: both finalizers are detached before anything is freed.           *)
MutantCloseAgain(s) == TRUE
CloseAgain(s) == ~closed[s]
Close(s) ==
  /\ wrapper[s] = "held" /\ home[s] \in running /\ Quiet(home[s])
  /\ CloseAgain(s)
  /\ closed'  = [closed EXCEPT ![s] = TRUE]
  /\ native'  = [native EXCEPT ![s] = "freed"]
  /\ segment' = [segment EXCEPT ![s] = FALSE]
  /\ scratch' = [scratch EXCEPT ![s] = "freed"]
  /\ wrong' = wrong \cup StreamCloseUses(s)
                    \cup Freeing(native[s]) \cup Freeing(scratch[s])
  /\ UNCHANGED <<orderly, running, owner, disposed, wrapper, home, pipeline,
                 inside>>

-----------------------------------------------------------------------------
(* The program loses its last reference.  A Finalizable object stays alive *)
(* while one of its methods is under way, awaits included.                 *)
DropOwner ==
  /\ owner = "held" /\ "transcribe" \notin inside /\ (disposed \/ MayGiveUp)
  /\ owner' = "dropped"
  /\ UNCHANGED <<orderly, running, disposed, wrapper, home, closed, natives,
                 inside, wrong>>

DropStream(s) ==
  /\ wrapper[s] = "held" /\ s \notin inside
  /\ wrapper' = [wrapper EXCEPT ![s] = "dropped"]
  /\ UNCHANGED <<orderly, running, owner, disposed, home, closed, natives,
                 inside, wrong>>

(* The collector, or the end of the isolate, takes the wrapper and runs    *)
(* the finalizers still attached; an isolate ends between native calls,    *)
(* and what it leaves is finalized in no particular order.                 *)
MutantOwnerAttached == TRUE
OwnerAttached == ~disposed
CollectOwner ==
  /\ Unreachable(owner, "main")
  /\ owner' = "gone"
  /\ IF OwnerAttached THEN FreePipeline ELSE UNCHANGED <<pipeline, wrong>>
  /\ UNCHANGED <<orderly, running, disposed, wrapper, home, closed, native,
                 segment, scratch, inside>>

MutantFinalizeStream(s) ==
  /\ native'  = [native EXCEPT ![s] = "freed"]
  /\ wrong' = wrong \cup StreamCloseUses(s) \cup Freeing(native[s])
  /\ UNCHANGED <<segment, scratch>>
FinalizeStream(s) ==
  /\ native'  = [native EXCEPT ![s] = "freed"]
  /\ segment' = [segment EXCEPT ![s] = FALSE]
  /\ scratch' = IF FreeFound THEN [scratch EXCEPT ![s] = "freed"] ELSE scratch
  /\ wrong' = wrong \cup StreamCloseUses(s) \cup Freeing(native[s])
                    \cup IF FreeFound THEN Freeing(scratch[s]) ELSE {}

CollectStream(s) ==
  /\ Unreachable(wrapper[s], home[s])
  /\ wrapper' = [wrapper EXCEPT ![s] = "gone"]
  /\ IF closed[s] THEN UNCHANGED <<native, segment, scratch, wrong>>
                  ELSE FinalizeStream(s)
  /\ UNCHANGED <<orderly, running, owner, disposed, home, closed, pipeline,
                 inside>>

IsolateEnds(i) ==
  /\ i \in running /\ Quiet(i)
  /\ i = "main" => MayGiveUp
  /\ running' = running \ {i}
  /\ UNCHANGED <<orderly, objects, natives, inside, wrong>>

Next ==
  \/ Create \/ Dispose \/ TranscribeBegins \/ TranscribeEnds
  \/ \E s \in Streams : \/ \E i \in Isolates : CreateStream(s, i)
                        \/ PushBegins(s) \/ PushEnds(s) \/ Close(s)
                        \/ DropStream(s) \/ CollectStream(s)
  \/ DropOwner \/ CollectOwner
  \/ \E i \in Isolates : IsolateEnds(i)

(* Native calls return.  What is unreachable is finalized at last when its *)
(* isolate ends: that is what NativeFinalizer guarantees.                  *)
Fairness ==
  /\ WF_vars(TranscribeEnds) /\ WF_vars(CollectOwner)
  /\ \A s \in Streams : WF_vars(PushEnds(s)) /\ WF_vars(CollectStream(s))

Spec == Init /\ [][Next]_vars /\ Fairness

-----------------------------------------------------------------------------
Lives == {"none", "live", "freed"}
Reach == {"none", "held", "dropped", "gone"}

(* The type of each variable; a stream inside a native call is neither     *)
(* closed nor collected until the call returns.                            *)
TypeOK ==
  /\ orderly \in BOOLEAN /\ running \subseteq Isolates
  /\ owner \in Reach /\ disposed \in BOOLEAN /\ pipeline \in Lives
  /\ wrapper \in [Streams -> Reach] /\ home \in [Streams -> Isolates]
  /\ closed \in [Streams -> BOOLEAN] /\ segment \in [Streams -> BOOLEAN]
  /\ native \in [Streams -> Lives] /\ scratch \in [Streams -> Lives]
  /\ inside \subseteq Streams \cup {"transcribe"}
  /\ wrong \subseteq {"used freed", "freed twice"}
  /\ \A s \in inside \ {"transcribe"} : ~closed[s] /\ wrapper[s] = "held"

(* Explicit dispose and close detach the finalizers first, so the resource *)
(* is never freed twice (native_library.dart:53-54), whatever the order of *)
(* close, dispose, collection and isolate exit.                            *)
NeverFreedTwice == "freed twice" \notin wrong

(* The discipline of MayGiveUp suffices, whenever the collector runs: a    *)
(* program that closes its streams, or flushes and then lets go of them,   *)
(* and awaits transcribe, before it gives up the pipeline never makes      *)
(* native code use freed memory: what it does later to a closed stream or  *)
(* a disposed Vaani stops at their guards, and the finalizers of streams   *)
(* not collected yet do not need the pipeline.                             *)
OrderlyUseIsSafe == orderly => "used freed" \notin wrong

(* Whatever the program forgets is freed in the end: a dropped pipeline, a *)
(* dropped stream and, where the process's free was found, its scratch     *)
(* buffer (native_library.dart:50-51).                                     *)
ForgottenIsFreed ==
  /\ owner = "dropped" ~> pipeline = "freed"
  /\ \A s \in Streams :
       wrapper[s] = "dropped" ~>
         native[s] = "freed" /\ (FreeFound => scratch[s] = "freed")

(* vaani_stream.dart:30-31 and native_library.dart:50-51: the finalizers   *)
(* are backstops, enough for a program that never calls close or dispose.  *)
ExplicitUse == disposed \/ \E s \in Streams : closed[s]
BackstopsSuffice ==
  "main" \in running /\ ~ExplicitUse => "used freed" \notin wrong
=============================================================================
