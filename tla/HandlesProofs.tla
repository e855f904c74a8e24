---------------------------- MODULE HandlesProofs ----------------------------
(***************************************************************************)
(* Proofs about the lifetime of native objects: about Handles, for any     *)
(* number of streams, and whether or not the process's free was found; and *)
(* about Construction, which is what creating and freeing the pipeline of  *)
(* Handles are in detail, for a vocabulary of any length.                  *)
(***************************************************************************)
EXTENDS Handles, Construction, TLAPS

(* What the native objects owe to their wrappers: the pipeline is freed    *)
(* exactly when its Vaani was disposed or collected, a stream exactly when *)
(* its VaaniStream was closed or collected.                                *)
PipelineFollowsOwner ==
  /\ owner = "none" <=> pipeline = "none"
  /\ pipeline = "freed" <=> disposed \/ owner = "gone"
  /\ disposed => owner # "none"

StreamsFollowWrappers ==
  \A s \in Streams :
    /\ wrapper[s] = "none" <=> native[s] = "none"
    /\ native[s] = "freed" <=> closed[s] \/ wrapper[s] = "gone"
    /\ closed[s] => wrapper[s] # "none"
    /\ scratch[s] = "freed" => closed[s] \/ wrapper[s] = "gone"

(* Once the pipeline of an orderly program can no longer be used, no call  *)
(* is under way and no stream left needs it.                               *)
NothingOutlivesPipeline == orderly /\ ~Usable => StreamsSettled /\ inside = {}

(* An isolate does not end while one of its streams is being pushed to.    *)
CallsRun == \A s \in inside \ {"transcribe"} : home[s] \in running

HInv ==
  /\ TypeOK /\ CallsRun
  /\ PipelineFollowsOwner /\ StreamsFollowWrappers /\ NothingOutlivesPipeline
  /\ NeverFreedTwice /\ OrderlyUseIsSafe

-----------------------------------------------------------------------------
LEMMA InitHInv == Init => HInv
<1> SUFFICES ASSUME Init PROVE HInv
  OBVIOUS
<1>1. TypeOK
  BY DEF Init, TypeOK, Isolates, Reach, Lives
<1>2. PipelineFollowsOwner /\ StreamsFollowWrappers
  BY DEF Init, PipelineFollowsOwner, StreamsFollowWrappers
<1>3. NothingOutlivesPipeline
  BY DEF Init, NothingOutlivesPipeline, StreamsSettled
<1>4. NeverFreedTwice /\ OrderlyUseIsSafe /\ CallsRun
  BY DEF Init, NeverFreedTwice, OrderlyUseIsSafe, CallsRun
<1> QED
  BY <1>1, <1>2, <1>3, <1>4 DEF HInv

(* What is in use while a native call is under way.                        *)
LEMMA InsideFacts ==
  ASSUME HInv, NEW s \in Streams, s \in inside
  PROVE  /\ native[s] = "live" /\ ~closed[s] /\ wrapper[s] = "held"
         /\ home[s] \in running
<1>1. ~closed[s] /\ wrapper[s] = "held" /\ home[s] \in running
  BY HandlesAssumption DEF HInv, TypeOK, CallsRun
<1> QED
  BY <1>1 DEF HInv, TypeOK, StreamsFollowWrappers, Lives

(* A stream whose wrapper is there and not closed is live.                 *)
LEMMA OpenFacts ==
  ASSUME HInv, NEW s \in Streams, ~closed[s], wrapper[s] \in {"held", "dropped"}
  PROVE  native[s] = "live" /\ scratch[s] # "freed"
BY DEF HInv, TypeOK, StreamsFollowWrappers, Lives

(* While an orderly program has a stream open or a call under way the      *)
(* pipeline is there.                                                      *)
LEMMA PipelineThere ==
  ASSUME HInv, orderly, ~StreamsSettled \/ inside # {}
  PROVE  Usable /\ pipeline = "live"
BY DEF HInv, TypeOK, NothingOutlivesPipeline, PipelineFollowsOwner, Usable, Lives

(* A step of the program, or of the collector, keeps every part.           *)
LEMMA OwnerSteps ==
  ASSUME HInv, Create \/ Dispose \/ DropOwner \/ CollectOwner
  PROVE  HInv'
<1> USE DEF HInv
<1>0. orderly' = orderly
  BY DEF Create, Dispose, DropOwner, CollectOwner
<1>1. TypeOK'
  <2>1. CASE Create
    BY <2>1 DEF Create, TypeOK, Reach, Lives
  <2>2. CASE Dispose
    BY <2>2 DEF Dispose, FreePipeline, Freeing, TypeOK, Lives
  <2>3. CASE DropOwner
    BY <2>3 DEF DropOwner, TypeOK, Reach, natives
  <2>4. CASE CollectOwner
    <3>1. pipeline' \in Lives /\ wrong' \subseteq {"used freed", "freed twice"}
      BY <2>4 DEF CollectOwner, FreePipeline, Freeing, TypeOK, Lives
    <3> QED
      BY <2>4, <3>1 DEF CollectOwner, TypeOK, Reach
  <2> QED
    BY <2>1, <2>2, <2>3, <2>4
<1>2. PipelineFollowsOwner'
  BY DEF Create, Dispose, DropOwner, CollectOwner, FreePipeline, Usable,
     Unreachable, OwnerAttached, PipelineFollowsOwner, objects, natives
<1>3. StreamsFollowWrappers'
  BY DEF Create, Dispose, DropOwner, CollectOwner, StreamsFollowWrappers,
     objects, natives
<1>4. NothingOutlivesPipeline'
  BY DEF Create, Dispose, DropOwner, CollectOwner, Usable, MayGiveUp,
     Unreachable, NothingOutlivesPipeline, StreamsSettled, PipelineFollowsOwner,
     objects, natives
<1>5. pipeline = "freed" => ~Dispose /\ (CollectOwner => ~OwnerAttached)
  BY DEF Dispose, CollectOwner, Usable, OwnerAttached, Unreachable,
     PipelineFollowsOwner
<1>6. wrong' = wrong
  BY <1>5 DEF Create, Dispose, DropOwner, CollectOwner, FreePipeline, Freeing,
     objects, natives
<1>7. NeverFreedTwice' /\ OrderlyUseIsSafe'
  BY <1>0, <1>6 DEF NeverFreedTwice, OrderlyUseIsSafe
<1>8. CallsRun'
  BY DEF Create, Dispose, DropOwner, CollectOwner, CallsRun, objects
<1> QED
  BY <1>1, <1>2, <1>3, <1>4, <1>7, <1>8

(* A file is transcribed: the pipeline is there from begin to end.         *)
LEMMA TranscribeSteps ==
  ASSUME HInv, TranscribeBegins \/ TranscribeEnds
  PROVE  HInv'
<1> USE DEF HInv
<1>1. UNCHANGED <<orderly, running, objects, natives>>
  BY DEF TranscribeBegins, TranscribeEnds
<1>2. orderly => Usable /\ pipeline = "live" /\ StreamsSettled' = StreamsSettled
  BY <1>1, PipelineThere DEF TranscribeBegins, TranscribeEnds, Usable, TypeOK,
     PipelineFollowsOwner, Lives, StreamsSettled, Unreachable, objects, natives
<1>3. wrong' \subseteq {"used freed", "freed twice"}
      /\ (orderly => wrong' = wrong) /\ "freed twice" \notin wrong'
  BY <1>2 DEF TranscribeBegins, TranscribeEnds, Using, TypeOK, NeverFreedTwice
<1>4. TypeOK'
  BY <1>1, <1>3 DEF TypeOK, objects, natives, TranscribeBegins, TranscribeEnds
<1>5. PipelineFollowsOwner' /\ StreamsFollowWrappers'
  BY <1>1 DEF PipelineFollowsOwner, StreamsFollowWrappers, objects, natives
<1>6. NothingOutlivesPipeline'
  BY <1>1, <1>2 DEF NothingOutlivesPipeline, Usable, objects
<1>7. CallsRun'
  BY <1>1 DEF TranscribeBegins, TranscribeEnds, CallsRun, objects
<1> QED
  BY <1>1, <1>3, <1>4, <1>5, <1>6, <1>7 DEF NeverFreedTwice, OrderlyUseIsSafe

(* A stream is created, pushed to, and closed or lost.                     *)
LEMMA CreateStreamStep ==
  ASSUME HInv, NEW s \in Streams, NEW i \in Isolates, CreateStream(s, i)
  PROVE  HInv'
<1> USE DEF HInv
<1>1. TypeOK'
  BY HandlesAssumption DEF CreateStream, TypeOK, Reach, Lives
<1>2. PipelineFollowsOwner'
  BY DEF CreateStream, PipelineFollowsOwner
<1>3. StreamsFollowWrappers'
  <2> SUFFICES ASSUME NEW t \in Streams
               PROVE  /\ wrapper'[t] = "none" <=> native'[t] = "none"
                      /\ native'[t] = "freed" <=> closed'[t] \/ wrapper'[t] = "gone"
                      /\ closed'[t] => wrapper'[t] # "none"
                      /\ scratch'[t] = "freed" => closed'[t] \/ wrapper'[t] = "gone"
    BY DEF StreamsFollowWrappers
  <2>1. CASE t = s
    <3>1. ~closed[s]
      BY DEF CreateStream, StreamsFollowWrappers
    <3> QED
      BY <2>1, <3>1 DEF CreateStream, TypeOK
  <2>2. CASE t # s
    <3>1. /\ wrapper'[t] = wrapper[t] /\ native'[t] = native[t]
          /\ closed'[t] = closed[t] /\ scratch'[t] = scratch[t]
      BY <2>2 DEF CreateStream, TypeOK
    <3> QED
      BY <3>1 DEF StreamsFollowWrappers
  <2> QED
    BY <2>1, <2>2
<1>4. NothingOutlivesPipeline'
  BY DEF CreateStream, NothingOutlivesPipeline, Usable
<1>5. CallsRun'
  <2>1. s \notin inside
    BY InsideFacts DEF CreateStream
  <2> QED
    BY <2>1 DEF CreateStream, CallsRun, TypeOK
<1> QED
  BY <1>1, <1>2, <1>3, <1>4, <1>5
     DEF CreateStream, NeverFreedTwice, OrderlyUseIsSafe

LEMMA PushSteps ==
  ASSUME HInv, NEW s \in Streams, PushBegins(s) \/ PushEnds(s)
  PROVE  HInv'
<1> USE DEF HInv
<1>1. native[s] = "live" /\ ~closed[s] /\ wrapper[s] = "held"
  BY InsideFacts, OpenFacts DEF PushBegins, PushEnds
<1>2. /\ UNCHANGED <<orderly, running, objects, pipeline, native, scratch>>
      /\ segment' \in [Streams -> BOOLEAN]
  BY DEF PushBegins, PushEnds, natives, TypeOK
<1>3. orderly => Usable /\ pipeline = "live"
  <2>1. home[s] \in running
    BY InsideFacts DEF PushBegins, PushEnds
  <2>2. ~StreamsSettled
    BY <1>1, <2>1 DEF StreamsSettled, Unreachable
  <2> QED
    BY <2>2, PipelineThere
<1>4. wrong' = wrong \cup Using(pipeline)
  BY <1>1 DEF PushBegins, PushEnds, Using
<1>5. wrong' \subseteq {"used freed", "freed twice"}
      /\ (orderly => wrong' = wrong) /\ "freed twice" \notin wrong'
  BY <1>3, <1>4 DEF Using, TypeOK, NeverFreedTwice
<1>6. TypeOK'
  <2>1. inside' \subseteq inside \cup {s}
    BY DEF PushBegins, PushEnds
  <2> QED
    BY <1>1, <1>2, <1>5, <2>1 DEF TypeOK, objects
<1>7. PipelineFollowsOwner' /\ StreamsFollowWrappers'
  BY <1>2 DEF PipelineFollowsOwner, StreamsFollowWrappers, objects
<1>8. NothingOutlivesPipeline'
  BY <1>2, <1>3 DEF NothingOutlivesPipeline, Usable, objects
<1>9. CallsRun'
  <2>1. inside' \subseteq inside \cup {s} /\ (PushBegins(s) => home[s] \in running)
        /\ (PushEnds(s) => inside' \subseteq inside)
    BY DEF PushBegins, PushEnds
  <2> QED
    BY <1>2, <2>1 DEF CallsRun, objects
<1> QED
  BY <1>2, <1>5, <1>6, <1>7, <1>8, <1>9 DEF NeverFreedTwice, OrderlyUseIsSafe

(* Closing and collecting free what is live; a segment still open is       *)
(* decoded on a pipeline that, in an orderly program, is there.            *)
LEMMA StreamCloseFacts ==
  ASSUME HInv, NEW s \in Streams, native[s] = "live", scratch[s] # "freed"
  PROVE  /\ StreamCloseUses(s) \subseteq {"used freed"}
         /\ orderly => StreamCloseUses(s) = {}
         /\ Freeing(native[s]) = {} /\ Freeing(scratch[s]) = {}
<1>1. orderly /\ segment[s] => pipeline = "live"
  BY PipelineThere DEF StreamsSettled
<1> QED
  BY <1>1 DEF StreamCloseUses, Using, Freeing

LEMMA CloseStep ==
  ASSUME HInv, NEW s \in Streams, Close(s)
  PROVE  HInv'
<1> USE DEF HInv
<1>1. native[s] = "live" /\ scratch[s] # "freed" /\ s \notin inside
  BY OpenFacts, HandlesAssumption DEF Close, CloseAgain, Quiet
<1>2. wrong' \subseteq {"used freed", "freed twice"}
      /\ (orderly => wrong' = wrong) /\ "freed twice" \notin wrong'
  BY <1>1, StreamCloseFacts DEF Close, TypeOK, NeverFreedTwice
<1>3. TypeOK'
  BY <1>1, <1>2 DEF Close, TypeOK, Lives
<1>4. PipelineFollowsOwner'
  BY DEF Close, PipelineFollowsOwner
<1>5. StreamsFollowWrappers'
  BY DEF Close, TypeOK, StreamsFollowWrappers
<1>6. NothingOutlivesPipeline'
  BY DEF Close, TypeOK, NothingOutlivesPipeline, StreamsSettled, Unreachable, Usable
<1>7. orderly' = orderly /\ CallsRun'
  BY DEF Close, CallsRun
<1> QED
  BY <1>2, <1>3, <1>4, <1>5, <1>6, <1>7 DEF NeverFreedTwice, OrderlyUseIsSafe

LEMMA DropStreamStep ==
  ASSUME HInv, NEW s \in Streams, DropStream(s)
  PROVE  HInv'
<1> USE DEF HInv
<1>1. TypeOK'
  BY DEF DropStream, TypeOK, Reach, natives
<1>2. PipelineFollowsOwner'
  BY DEF DropStream, PipelineFollowsOwner, natives
<1>3. StreamsFollowWrappers'
  BY DEF DropStream, TypeOK, StreamsFollowWrappers, natives
<1>4. NothingOutlivesPipeline'
  BY DEF DropStream, TypeOK, NothingOutlivesPipeline, StreamsSettled, Unreachable,
     Usable, natives
<1> QED
  BY <1>1, <1>2, <1>3, <1>4
     DEF DropStream, CallsRun, NeverFreedTwice, OrderlyUseIsSafe

LEMMA CollectStreamStep ==
  ASSUME HInv, NEW s \in Streams, CollectStream(s)
  PROVE  HInv'
<1> USE DEF HInv
<1>1. wrapper[s] \in {"held", "dropped"}
  BY DEF CollectStream, Unreachable
<1>2. ~closed[s] => native[s] = "live" /\ scratch[s] # "freed"
  BY <1>1, OpenFacts
<1>3. wrong' \subseteq {"used freed", "freed twice"}
      /\ (orderly => wrong' = wrong) /\ "freed twice" \notin wrong'
  <2>1. CASE closed[s]
    BY <2>1 DEF CollectStream, TypeOK, NeverFreedTwice
  <2>2. CASE ~closed[s]
    <3>1. wrong' = wrong \cup StreamCloseUses(s)
      BY <1>2, <2>2, StreamCloseFacts DEF CollectStream, FinalizeStream
    <3>2. /\ StreamCloseUses(s) \subseteq {"used freed"}
          /\ orderly => StreamCloseUses(s) = {}
      BY <1>2, <2>2, StreamCloseFacts
    <3> QED
      BY <3>1, <3>2 DEF TypeOK, NeverFreedTwice
  <2> QED
    BY <2>1, <2>2
<1>4. /\ wrapper' = [wrapper EXCEPT ![s] = "gone"]
      /\ UNCHANGED <<orderly, running, owner, disposed, home, closed,
                     pipeline, inside>>
  BY DEF CollectStream
<1>5. closed[s] => UNCHANGED <<native, segment, scratch>>
  BY DEF CollectStream
<1>6. ~closed[s] => /\ native' = [native EXCEPT ![s] = "freed"]
                    /\ segment' = [segment EXCEPT ![s] = FALSE]
                    /\ \/ scratch' = scratch
                       \/ scratch' = [scratch EXCEPT ![s] = "freed"]
  BY DEF CollectStream, FinalizeStream
<1>7. s \notin inside
  BY <1>1, InsideFacts DEF CollectStream, Unreachable
<1>8. TypeOK'
  <2>1. /\ native' \in [Streams -> Lives] /\ scratch' \in [Streams -> Lives]
        /\ segment' \in [Streams -> BOOLEAN] /\ wrapper' \in [Streams -> Reach]
    <3>1. CASE closed[s]
      BY <1>4, <1>5, <3>1 DEF TypeOK, Reach
    <3>2. CASE ~closed[s]
      <4>1. native \in [Streams -> Lives] /\ scratch \in [Streams -> Lives]
            /\ segment \in [Streams -> BOOLEAN] /\ wrapper \in [Streams -> Reach]
        BY DEF TypeOK
      <4>2. native' \in [Streams -> Lives] /\ segment' \in [Streams -> BOOLEAN]
        BY <1>6, <3>2, <4>1 DEF Lives
      <4>3. scratch' \in [Streams -> Lives]
        BY <1>6, <3>2, <4>1 DEF Lives
      <4>4. wrapper' \in [Streams -> Reach]
        BY <1>4, <4>1 DEF Reach
      <4> QED
        BY <4>2, <4>3, <4>4
    <3> QED
      BY <3>1, <3>2
  <2>2. \A t \in inside' \ {"transcribe"} : ~closed'[t] /\ wrapper'[t] = "held"
    BY <1>4, <1>7 DEF TypeOK
  <2> QED
    BY <1>3, <1>4, <2>1, <2>2 DEF TypeOK
<1>9. PipelineFollowsOwner'
  BY <1>4 DEF PipelineFollowsOwner
<1>10. StreamsFollowWrappers'
  <2> SUFFICES ASSUME NEW t \in Streams
               PROVE  /\ wrapper'[t] = "none" <=> native'[t] = "none"
                      /\ native'[t] = "freed" <=> closed'[t] \/ wrapper'[t] = "gone"
                      /\ closed'[t] => wrapper'[t] # "none"
                      /\ scratch'[t] = "freed" => closed'[t] \/ wrapper'[t] = "gone"
    BY DEF StreamsFollowWrappers
  <2>1. CASE t = s
    <3>1. wrapper'[s] = "gone"
      BY <1>4 DEF TypeOK
    <3>2. closed[s] => native'[s] = "freed"
      BY <1>5 DEF StreamsFollowWrappers
    <3>3. ~closed[s] => native'[s] = "freed"
      BY <1>6 DEF TypeOK
    <3> QED
      BY <2>1, <3>1, <3>2, <3>3
  <2>2. CASE t # s
    <3>1. /\ wrapper'[t] = wrapper[t] /\ closed'[t] = closed[t]
      BY <1>4, <2>2 DEF TypeOK
    <3>2. native'[t] = native[t] /\ scratch'[t] = scratch[t]
      <4>1. CASE closed[s]
        BY <1>5, <4>1
      <4>2. CASE ~closed[s]
        <5>1. native'[t] = native[t]
          BY <1>6, <2>2, <4>2 DEF TypeOK
        <5>2. scratch'[t] = scratch[t]
          <6>1. scratch \in [Streams -> Lives]
            BY DEF TypeOK
          <6>2. CASE scratch' = scratch
            BY <6>2
          <6>3. CASE scratch' = [scratch EXCEPT ![s] = "freed"]
            BY <2>2, <6>1, <6>3
          <6> QED
            BY <1>6, <4>2, <6>2, <6>3
        <5> QED
          BY <5>1, <5>2
      <4> QED
        BY <4>1, <4>2
    <3> QED
      BY <3>1, <3>2 DEF StreamsFollowWrappers
  <2> QED
    BY <2>1, <2>2
<1>11. NothingOutlivesPipeline'
  <2>1. ASSUME StreamsSettled PROVE StreamsSettled'
    <3> SUFFICES ASSUME NEW t \in Streams, native'[t] = "live"
                 PROVE  Unreachable(wrapper[t], home[t])' /\ ~segment'[t]
      BY DEF StreamsSettled
    <3>1. t # s
      <4>1. CASE closed[s]
        BY <1>5, <4>1 DEF StreamsFollowWrappers
      <4>2. CASE ~closed[s]
        <5>1. native'[s] = "freed"
          BY <1>6, <4>2 DEF TypeOK
        <5> QED
          BY <5>1
      <4> QED
        BY <4>1, <4>2
    <3>2. wrapper'[t] = wrapper[t] /\ home' = home /\ running' = running
      BY <1>4, <3>1 DEF TypeOK
    <3>3. native'[t] = native[t] /\ segment'[t] = segment[t]
      BY <1>5, <1>6, <3>1 DEF TypeOK
    <3> QED
      BY <2>1, <3>2, <3>3 DEF StreamsSettled, Unreachable
  <2>2. Usable' = Usable
    BY <1>4 DEF Usable
  <2> QED
    BY <1>4, <2>1, <2>2 DEF NothingOutlivesPipeline
<1>12. CallsRun'
  BY <1>4 DEF CallsRun
<1> QED
  BY <1>3, <1>4, <1>8, <1>9, <1>10, <1>11, <1>12
     DEF NeverFreedTwice, OrderlyUseIsSafe

LEMMA IsolateEndsStep ==
  ASSUME HInv, NEW i \in Isolates, IsolateEnds(i)
  PROVE  HInv'
<1> USE DEF HInv
<1>1. UNCHANGED <<orderly, objects, natives, inside, wrong>>
  BY DEF IsolateEnds
<1>2. TypeOK'
  BY <1>1 DEF IsolateEnds, TypeOK, objects, natives
<1>3. PipelineFollowsOwner' /\ StreamsFollowWrappers'
  BY <1>1 DEF PipelineFollowsOwner, StreamsFollowWrappers, objects, natives
<1>4. NothingOutlivesPipeline'
  <2>1. running' = running \ {i}
    BY DEF IsolateEnds
  <2>2. StreamsSettled => StreamsSettled'
    BY <1>1, <2>1 DEF StreamsSettled, Unreachable, objects, natives
  <2>3. CASE i = "main"
    <3>1. orderly => StreamsSettled /\ inside = {}
      BY <2>3 DEF IsolateEnds, MayGiveUp
    <3> QED
      BY <1>1, <2>2, <3>1 DEF NothingOutlivesPipeline
  <2>4. CASE i # "main"
    <3>1. Usable' = Usable
      BY <1>1, <2>1, <2>4 DEF Usable, objects
    <3> QED
      BY <1>1, <2>2, <3>1 DEF NothingOutlivesPipeline
  <2> QED
    BY <2>3, <2>4
<1>5. CallsRun'
  BY <1>1 DEF IsolateEnds, Quiet, CallsRun, TypeOK, objects
<1> QED
  BY <1>1, <1>2, <1>3, <1>4, <1>5 DEF NeverFreedTwice, OrderlyUseIsSafe

-----------------------------------------------------------------------------
(* Every reachable state satisfies the invariant.                          *)
LEMMA HandlesInvariance == Spec => []HInv
<1>1. HInv /\ [Next]_vars => HInv'
  <2> SUFFICES ASSUME HInv, [Next]_vars PROVE HInv'
    OBVIOUS
  <2>1. CASE UNCHANGED vars
    BY <2>1 DEF HInv, TypeOK, CallsRun, PipelineFollowsOwner, StreamsFollowWrappers,
       NothingOutlivesPipeline, NeverFreedTwice, OrderlyUseIsSafe, StreamsSettled,
       Unreachable, Usable, vars, objects, natives
  <2>2. CASE Next
    BY <2>2, OwnerSteps, TranscribeSteps, CreateStreamStep, PushSteps, CloseStep,
       DropStreamStep, CollectStreamStep, IsolateEndsStep DEF Next
  <2> QED
    BY <2>1, <2>2
<1> QED
  BY <1>1, InitHInv, PTL DEF Spec

(* No native object is ever freed twice, whatever the order of close,      *)
(* dispose, collection and isolate exit.                                   *)
THEOREM FreedOnce == Spec => []NeverFreedTwice
<1>1. HInv => NeverFreedTwice
  BY DEF HInv
<1> QED
  BY <1>1, HandlesInvariance, PTL

(* A program that settles its streams, by closing them or by letting go of *)
(* them once they hold no segment, and awaits its calls before it gives up *)
(* the pipeline, uses nothing freed, however late the collector runs.      *)
THEOREM SettledFirstIsSafe == Spec => []OrderlyUseIsSafe
<1>1. HInv => OrderlyUseIsSafe
  BY DEF HInv
<1> QED
  BY <1>1, HandlesInvariance, PTL

-----------------------------------------------------------------------------
(* What a pipeline is made of.                                             *)

(* The fields, and by the first component of its name whose a resource is. *)
EnvUsers == {"runOptions", "memoryInfo", "encoder", "decoder", "vad", "speaker"}
Fields == {FreeOrder[k] : k \in 1 .. 11}
Tags(field) ==
  IF field = "vocab" THEN {"vocab", "vocabFile", "token"} ELSE {field}
BelongsTo(r, field) == r[1] \in Tags(field)

(* What a stage leaves in its field.  Its calls take that and what it      *)
(* gives back when it ends, not counting the statuses nobody reads;        *)
(* whichever of them fails, what the earlier ones took is given back; and  *)
(* nothing of it belongs to another field.                                 *)
Kept(s) == IF s.field = "check" THEN {} ELSE Holds(s.field)
TakesNothing == {Check} \cup Unread
Taken(r) == {r} \ TakesNothing
TakenBy(s, k) == {s.calls[j] : j \in 1 .. k} \ TakesNothing
StageGood(s) ==
  /\ s.field \in Fields \cup {"check"}
  /\ Len(s.calls) \in Nat \ {0}
  /\ TakenBy(s, Len(s.calls)) \ s.whenBuilt = Kept(s)
  /\ TakenBy(s, Len(s.calls) - 1) \subseteq s.whenFailed
  /\ \A k \in 1 .. Len(s.calls) :
       s.calls[k] = <<s.field, "mels">> => s.calls[k + 1] \in s.whenFailed
  /\ \A r \in s.whenBuilt \cup s.whenFailed : BelongsTo(r, s.field)

(* The fields are set one by one, the pipeline first, and the environment  *)
(* before whatever needs it.                                               *)
PlanGood(p) ==
  /\ Len(p) \in Nat \ {0}
  /\ p[1] = OneCall("pipeline")
  /\ \A k \in 1 .. Len(p) : StageGood(p[k])
  /\ \A j, k \in 1 .. Len(p) : p[j].field = p[k].field => j = k
  /\ \A k \in 1 .. Len(p) :
       p[k].field \in EnvUsers => \E j \in 1 .. k - 1 : p[j].field = "env"

(* What the fields hold, and those vaani_pipeline_free did not get to.     *)
HeldBy(fs) == UNION {Holds(field) : field \in fs}
SetUpTo(n) == {plan[k].field : k \in 1 .. n} \ {"check"}
Owned == live \ Unread
Left(n) == {field \in fields : \E k \in n .. 11 : field = FreeOrder[k]}

BInv ==
  /\ PlanGood(plan)
  /\ pc \in {"build", "ready", "free", "gone"}
  /\ stage \in 1 .. Len(plan) /\ call \in 1 .. Len(plan[stage].calls)
  /\ freeing \in 1 .. 11
  /\ misused = {}
  /\ fields \subseteq Fields
  /\ fields \cap EnvUsers # {} => "env" \in fields
  /\ pc = "build" => /\ fields = SetUpTo(stage - 1) /\ freeing = 1
                     /\ Owned = HeldBy(fields) \cup TakenBy(plan[stage], call - 1)
  /\ pc = "ready" => Owned = HeldBy(fields) /\ freeing = 1
  /\ pc = "free" => Owned = HeldBy(Left(freeing))
  /\ pc = "gone" => Owned = {}

(* The order of vaani_pipeline_free names every field once, and the        *)
(* environment after its users.                                            *)
LEMMA OrderOfFields ==
  /\ Fields = {"vocab", "asr", "speakerMel", "runOptions", "memoryInfo",
               "encoder", "decoder", "vad", "speaker", "env", "pipeline"}
  /\ Len(FreeOrder) = 11
  /\ \A j, k \in 1 .. 11 : FreeOrder[j] = FreeOrder[k] => j = k
  /\ \A k \in 1 .. 11 : FreeOrder[k] \in EnvUsers => k < 10
  /\ FreeOrder[10] = "env"
<1>1. 1 .. 11 = {1, 2, 3, 4, 5, 6, 7, 8, 9, 10, 11}
  OBVIOUS
<1>2. /\ FreeOrder[1] = "vocab" /\ FreeOrder[2] = "asr"
      /\ FreeOrder[3] = "speakerMel" /\ FreeOrder[4] = "runOptions"
      /\ FreeOrder[5] = "memoryInfo" /\ FreeOrder[6] = "encoder"
      /\ FreeOrder[7] = "decoder" /\ FreeOrder[8] = "vad"
      /\ FreeOrder[9] = "speaker" /\ FreeOrder[10] = "env"
      /\ FreeOrder[11] = "pipeline" /\ Len(FreeOrder) = 11
  BY DEF FreeOrder
<1>3. Fields = {"vocab", "asr", "speakerMel", "runOptions", "memoryInfo",
               "encoder", "decoder", "vad", "speaker", "env", "pipeline"}
  BY <1>1, <1>2 DEF Fields
<1>4. \A k \in 1 .. 11 : FreeOrder[k] \in EnvUsers => k < 10
  BY <1>1, <1>2 DEF EnvUsers
<1>5. \A j, k \in 1 .. 11 : FreeOrder[j] = FreeOrder[k] => j = k
  BY <1>1, <1>2
<1> QED
  BY <1>2, <1>3, <1>4, <1>5

(* What belongs to one field belongs to no other, and each field holds     *)
(* what belongs to it.                                                     *)
LEMMA FieldsApart ==
  /\ \A f, g \in Fields \cup {"check"} :
       \A r : BelongsTo(r, f) /\ BelongsTo(r, g) => f = g
  /\ \A f \in Fields : \A r \in Holds(f) : BelongsTo(r, f)
<1>1. \A f, g \in Fields \cup {"check"} :
        \A r : BelongsTo(r, f) /\ BelongsTo(r, g) => f = g
  BY OrderOfFields DEF BelongsTo, Tags
<1>2. ASSUME NEW f \in Fields, NEW r \in Holds(f) PROVE BelongsTo(r, f)
  <2>1. CASE f = "vocab"
    BY <1>2, <2>1 DEF Holds, BelongsTo, Tags, Alone, Tokens, Token, Sessions
  <2>2. CASE f \in {"asr", "speakerMel"}
    BY <1>2, <2>2 DEF Holds, BelongsTo, Tags, Mel, Sessions
  <2>3. CASE f \in {"encoder", "decoder", "vad", "speaker"}
    BY <1>2, <2>3 DEF Holds, BelongsTo, Tags, Session, Sessions
  <2>4. CASE f \in {"runOptions", "memoryInfo", "env", "pipeline"}
    BY <1>2, <2>4 DEF Holds, BelongsTo, Tags, Alone, Sessions
  <2> QED
    BY <2>1, <2>2, <2>3, <2>4, OrderOfFields
<1> QED
  BY <1>1, <1>2

(* What takes nothing is known by its name.                                *)
LEMMA NothingTaken == \A r \in TakesNothing : r[1] \in {"check", "status"}
BY DEF TakesNothing, Check, Alone, Unread, Status

(* A stage of one call.                                                    *)
LEMMA OneCallGood ==
  \A x \in {"pipeline", "env", "memoryInfo", "runOptions", "check"} :
    StageGood(OneCall(x))
<1> SUFFICES ASSUME NEW x \in {"pipeline", "env", "memoryInfo", "runOptions", "check"}
             PROVE  StageGood(OneCall(x))
  OBVIOUS
<1> DEFINE s == OneCall(x)
<1>1. /\ s.field = x /\ s.calls = << <<x>> >> /\ Len(s.calls) = 1
      /\ s.whenBuilt = {} /\ s.whenFailed = {}
  BY DEF OneCall, Stage, Alone
<1> HIDE DEF s
<1>2. TakenBy(s, 1) = Kept(s) /\ TakenBy(s, 0) = {}
  <2>1. CASE x = "check"
    BY <1>1, <2>1 DEF TakenBy, TakesNothing, Kept, Check, Alone
  <2>2. CASE x # "check"
    <3>1. <<x>> \notin TakesNothing
      <4>1. <<x>>[1] = x
        OBVIOUS
      <4> QED
        BY <2>2, <4>1, NothingTaken
    <3>2. Holds(x) = {<<x>>}
      BY <2>2 DEF Holds, Alone, Sessions
    <3> QED
      BY <1>1, <2>2, <3>1, <3>2 DEF TakenBy, Kept
  <2> QED
    BY <2>1, <2>2
<1>3. s.field \in Fields \cup {"check"}
  BY <1>1, OrderOfFields
<1>4. \A k \in 1 .. 1 : s.calls[k] # <<x, "mels">>
  BY <1>1
<1>5. StageGood(s)
  BY <1>1, <1>2, <1>3, <1>4 DEF StageGood
<1> QED
  BY <1>5 DEF s

(* mel_processor_new: three blocks to keep and three to work with, of which *)
(* the last two are asked for together.                                    *)
LEMMA MelStageGood == \A x \in {"asr", "speakerMel"} : StageGood(MelStage(x))
<1> SUFFICES ASSUME NEW x \in {"asr", "speakerMel"}
             PROVE  StageGood(MelStage(x))
  OBVIOUS
<1> DEFINE s == MelStage(x)
           c == MelCalls(x)
<1>1. /\ s.field = x /\ s.calls = c
      /\ s.whenBuilt = MelTemp(x)
      /\ s.whenFailed = Mel(x) \cup MelTemp(x)
  BY DEF MelStage, Stage
<1>2. /\ Len(c) = 6
      /\ c[1] = <<x, "processor">> /\ c[2] = <<x, "window">> /\ c[3] = <<x, "filters">>
      /\ c[4] = <<x, "mels">> /\ c[5] = <<x, "hertz">> /\ c[6] = <<x, "bins">>
  BY DEF MelCalls
<1> HIDE DEF s, c
<1>3. /\ Mel(x) = {c[1], c[2], c[3]} /\ MelTemp(x) = {c[4], c[5], c[6]}
      /\ Holds(x) = Mel(x)
  BY <1>2 DEF Mel, MelTemp, Holds, Sessions
<1>4. 1 .. 6 = {1, 2, 3, 4, 5, 6} /\ 1 .. 5 = {1, 2, 3, 4, 5}
  OBVIOUS
<1>5. \A k \in 1 .. 6 : c[k] \notin TakesNothing
  <2>2. \A k \in 1 .. 6 : c[k][1] = x
    BY <1>2, <1>4
  <2> QED
    BY <2>2, NothingTaken
<1>6. TakenBy(s, 6) = {c[1], c[2], c[3], c[4], c[5], c[6]}
  BY <1>1, <1>4, <1>5 DEF TakenBy
<1>7. TakenBy(s, 5) \subseteq s.whenFailed
  BY <1>1, <1>3, <1>4 DEF TakenBy
<1>8. c[4][2] = "mels" /\ c[5][2] = "hertz" /\ c[6][2] = "bins"
      /\ c[1][2] = "processor" /\ c[2][2] = "window" /\ c[3][2] = "filters"
  BY <1>2
<1>9. TakenBy(s, 6) \ s.whenBuilt = Kept(s)
  BY <1>1, <1>3, <1>6, <1>8 DEF Kept
<1>10. \A k \in 1 .. 6 : c[k] = <<x, "mels">> => c[k + 1] \in s.whenFailed
  <2>1. \A k \in 1 .. 6 : c[k] = <<x, "mels">> => k = 4
    BY <1>2, <1>4, <1>8
  <2>2. c[4 + 1] \in s.whenFailed
    BY <1>1, <1>3
  <2> QED
    BY <2>1, <2>2
<1>11. \A r \in s.whenBuilt \cup s.whenFailed : BelongsTo(r, x)
  BY <1>1 DEF Mel, MelTemp, BelongsTo, Tags
<1>12. StageGood(s)
  BY <1>1, <1>2, <1>7, <1>9, <1>10, <1>11, OrderOfFields DEF StageGood
<1> QED
  BY <1>12 DEF s

(* create_ort_session: options that are released either way, and a session. *)
LEMMA SessionStageGood ==
  \A x \in Sessions : StageGood(SessionStage(x))
<1> SUFFICES ASSUME NEW x \in Sessions
             PROVE  StageGood(SessionStage(x))
  OBVIOUS
<1> DEFINE s == SessionStage(x)
           c == SessionCalls(x)
<1>1. /\ s.field = x /\ s.calls = c
      /\ s.whenBuilt = {Options(x)} /\ s.whenFailed = {Options(x)}
  BY DEF SessionStage, Stage
<1>2. /\ Len(c) = 6 /\ c[1] = <<x, "options">> /\ c[6] = <<x, "session">>
      /\ \A k \in {2, 3, 4, 5} : c[k] = Status(x)
  BY DEF SessionCalls, Options, Session
<1> HIDE DEF s, c
<1>3. Options(x) = c[1] /\ Holds(x) = {c[6]}
  BY <1>2 DEF Options, Session, Holds, Sessions
<1>4. /\ c[1] \notin TakesNothing /\ c[6] \notin TakesNothing /\ c[1] # c[6]
      /\ \A k \in {2, 3, 4, 5} : c[k] \in TakesNothing
  <2>1. c[1][1] = x /\ c[6][1] = x /\ c[1][2] = "options" /\ c[6][2] = "session"
    BY <1>2
  <2>2. x \notin {"check", "status"}
    BY DEF Sessions
  <2> QED
    BY <1>2, <2>1, <2>2, NothingTaken DEF TakesNothing, Unread
<1>5. TakenBy(s, 6) = {c[1], c[6]} /\ TakenBy(s, 5) = {c[1]}
  <2>1. 1 .. 6 = {1, 2, 3, 4, 5, 6} /\ 1 .. 5 = {1, 2, 3, 4, 5}
    OBVIOUS
  <2> QED
    BY <1>1, <1>4, <2>1 DEF TakenBy
<1>6. TakenBy(s, 6) \ s.whenBuilt = Kept(s) /\ TakenBy(s, 5) \subseteq s.whenFailed
  <2>1. x # "check"
    BY DEF Sessions
  <2> QED
    BY <1>1, <1>3, <1>4, <1>5, <2>1 DEF Kept
<1>7. \A k \in 1 .. 6 : c[k] # <<x, "mels">>
  <2>1. Status(x) # <<x, "mels">>
    <3>1. Status(x)[2] = x /\ <<x, "mels">>[2] = "mels" /\ x # "mels"
      BY DEF Status, Sessions
    <3> QED
      BY <3>1
  <2>2. \A k \in 1 .. 6 : k = 1 \/ k = 6 \/ k \in {2, 3, 4, 5}
    OBVIOUS
  <2> QED
    BY <1>2, <2>1, <2>2
<1>8. \A r \in s.whenBuilt \cup s.whenFailed : BelongsTo(r, x)
  BY <1>1 DEF Options, BelongsTo, Tags, Sessions
<1>10. x \in Fields
  BY OrderOfFields DEF Sessions
<1>9. StageGood(s)
  BY <1>1, <1>2, <1>6, <1>7, <1>8, <1>10 DEF StageGood
<1> QED
  BY <1>9 DEF s

(* A line of the vocabulary takes two calls, after that which opens the    *)
(* file: an odd call copies a token.                                       *)
LEMMA VocabStageGood == StageGood(VocabStage)
<1> DEFINE s == VocabStage
           n == 2 * Lines + 1
           c == VocabCalls
<1>1. /\ s.field = "vocab" /\ s.calls = c
      /\ s.whenBuilt = {Alone("vocabFile")}
      /\ s.whenFailed = {Alone("vocabFile"), Alone("vocab")} \cup Tokens
  BY DEF VocabStage, Stage
<1>2. n \in Nat \ {0} /\ n >= 3 /\ Lines \in Nat
  BY ConstructionAssumption
<1>3. c = [i \in 1 .. n |-> IF i = 1 THEN Alone("vocabFile")
                           ELSE IF i = 2 THEN Alone("vocab")
                           ELSE IF i % 2 = 1 THEN Token(i \div 2) ELSE Check]
  BY DEF VocabCalls
<1> HIDE DEF s, c
<1>4. Len(c) = n
  BY <1>2, <1>3
<1>5. /\ c[1] = Alone("vocabFile") /\ c[2] = Alone("vocab")
      /\ \A k \in 1 .. n : c[k] \in s.whenFailed \cup TakesNothing
  <2>1. ASSUME NEW k \in 1 .. n, k > 2, k % 2 = 1 PROVE k \div 2 \in 1 .. Lines
    BY <1>2, <2>1
  <2>2. Check \in TakesNothing
    BY DEF TakesNothing
  <2> QED
    BY <1>1, <1>2, <1>3, <2>1, <2>2 DEF Tokens
<1>6. ASSUME NEW i \in 1 .. Lines
      PROVE  2 * i + 1 \in 1 .. n /\ c[2 * i + 1] = Token(i)
  <2>1. PICK k \in Nat : k = 2 * i + 1
    OBVIOUS
  <2>2. k \in 1 .. n /\ k > 2 /\ k % 2 = 1 /\ k \div 2 = i
    BY <1>2, <2>1
  <2> QED
    BY <1>3, <2>1, <2>2
<1>7. /\ TakesNothing \cap s.whenFailed = {}
      /\ Alone("vocabFile") \notin {Alone("vocab")} \cup Tokens
  <2>1. /\ Alone("vocabFile")[1] = "vocabFile" /\ Alone("vocab")[1] = "vocab"
        /\ \A r \in Tokens : r[1] = "token"
    BY DEF Alone, Tokens, Token
  <2> QED
    BY <1>1, <2>1, NothingTaken
<1>8. TakenBy(s, n) = s.whenFailed
  <2>1. TakenBy(s, n) \subseteq s.whenFailed
    BY <1>1, <1>5 DEF TakenBy
  <2>2. ASSUME NEW r \in s.whenFailed PROVE \E k \in 1 .. n : c[k] = r
    <3>1. CASE r \in {Alone("vocabFile"), Alone("vocab")}
      BY <1>2, <1>5, <3>1
    <3>2. CASE r \in Tokens
      BY <1>6, <3>2 DEF Tokens
    <3> QED
      BY <1>1, <3>1, <3>2
  <2> QED
    BY <1>1, <1>7, <2>1, <2>2 DEF TakenBy
<1>9. TakenBy(s, n - 1) \subseteq s.whenFailed
  BY <1>1, <1>2, <1>5 DEF TakenBy
<1>10. TakenBy(s, n) \ s.whenBuilt = Kept(s)
  BY <1>1, <1>7, <1>8 DEF Kept, Holds, Sessions
<1>11. \A k \in 1 .. n : c[k] # <<"vocab", "mels">>
  <2>1. <<"vocab", "mels">> \notin s.whenFailed
    BY <1>1 DEF Alone, Tokens, Token
  <2>2. <<"vocab", "mels">>[1] = "vocab"
    OBVIOUS
  <2> QED
    BY <1>5, <2>1, <2>2, NothingTaken
<1>12. \A r \in s.whenBuilt \cup s.whenFailed : BelongsTo(r, "vocab")
  BY <1>1 DEF Alone, Tokens, Token, BelongsTo, Tags
<1> HIDE DEF n
<1>13. StageGood(s)
  BY <1>1, <1>2, <1>4, <1>9, <1>10, <1>11, <1>12, OrderOfFields DEF StageGood
<1> QED
  BY <1>13 DEF s

(* Whatever models were asked for, the stages are in order.                *)
LEMMA PlansGood ==
  \A vad, speaker \in BOOLEAN : PlanGood(Stages(vad, speaker))
<1> SUFFICES ASSUME NEW vad \in BOOLEAN, NEW speaker \in BOOLEAN
             PROVE  PlanGood(Stages(vad, speaker))
  OBVIOUS
<1> DEFINE p == Stages(vad, speaker)
           s == IF speaker THEN 1 ELSE 0
           v == IF vad THEN 1 ELSE 0
           n == 9 + 2 * s + v
<1>1. s \in {0, 1} /\ v \in {0, 1} /\ n \in Nat \ {0}
  OBVIOUS
<1>2. /\ Len(p) = n
      /\ p[1] = OneCall("pipeline") /\ p[2] = MelStage("asr")
      /\ s = 1 => p[3] = MelStage("speakerMel")
      /\ p[3 + s] = OneCall("env") /\ p[4 + s] = OneCall("memoryInfo")
      /\ p[5 + s] = SessionStage("encoder") /\ p[6 + s] = SessionStage("decoder")
      /\ v = 1 => p[7 + s] = SessionStage("vad")
      /\ s = 1 => p[7 + s + v] = SessionStage("speaker")
      /\ p[n - 2] = OneCall("runOptions")
      /\ p[n - 1] = OneCall("check") /\ p[n] = VocabStage
  <2>1. CASE vad /\ speaker
    BY <2>1 DEF Stages, Optional
  <2>2. CASE vad /\ ~speaker
    BY <2>2 DEF Stages, Optional
  <2>3. CASE ~vad /\ speaker
    BY <2>3 DEF Stages, Optional
  <2>4. CASE ~vad /\ ~speaker
    BY <2>4 DEF Stages, Optional
  <2> QED
    BY <2>1, <2>2, <2>3, <2>4
<1> HIDE DEF p
<1>3. \A k \in 1 .. n :
        \/ k \in {1, 2, 3 + s, 4 + s, 5 + s, 6 + s, n - 2, n - 1, n}
        \/ s = 1 /\ k \in {3, 7 + s + v}
        \/ v = 1 /\ k = 7 + s
  <2> HIDE DEF s, v
  <2>1. CASE s = 0 /\ v = 0
    BY <2>1
  <2>2. CASE s = 0 /\ v = 1
    BY <2>2
  <2>3. CASE s = 1 /\ v = 0
    BY <2>3
  <2>4. CASE s = 1 /\ v = 1
    BY <2>4
  <2> QED
    BY <1>1, <2>1, <2>2, <2>3, <2>4
<1>4. \A x : /\ OneCall(x).field = x /\ MelStage(x).field = x
             /\ SessionStage(x).field = x
  BY DEF OneCall, MelStage, SessionStage, Stage
<1>5. VocabStage.field = "vocab"
  BY DEF VocabStage, Stage
<1> DEFINE Place(f) ==
      CASE f = "pipeline" -> 1 [] f = "asr" -> 2 [] f = "speakerMel" -> 3
        [] f = "env" -> 3 + s [] f = "memoryInfo" -> 4 + s [] f = "encoder" -> 5 + s
        [] f = "decoder" -> 6 + s [] f = "vad" -> 7 + s [] f = "speaker" -> 7 + s + v
        [] f = "runOptions" -> n - 2 [] f = "check" -> n - 1 [] OTHER -> n
<1>6. ASSUME NEW k \in 1 .. n
      PROVE  StageGood(p[k]) /\ k = Place(p[k].field)
  <2>1. CASE k \in {1, 3 + s, 4 + s, n - 2, n - 1}
    BY <1>2, <1>4, <2>1, OneCallGood
  <2>2. CASE k = 2 \/ (s = 1 /\ k = 3)
    BY <1>2, <1>4, <2>2, MelStageGood
  <2>3. CASE k \in {5 + s, 6 + s} \/ (v = 1 /\ k = 7 + s) \/ (s = 1 /\ k = 7 + s + v)
    BY <1>2, <1>4, <2>3, SessionStageGood DEF Sessions
  <2>4. CASE k = n
    BY <1>2, <1>5, <2>4, VocabStageGood
  <2> QED
    BY <1>3, <2>1, <2>2, <2>3, <2>4
<1>7. \A j, k \in 1 .. n : p[j].field = p[k].field => j = k
  BY <1>6
<1>8. ASSUME NEW k \in 1 .. n, p[k].field \in EnvUsers
      PROVE  \E j \in 1 .. k - 1 : p[j].field = "env"
  <2>1. k > 3 + s
    BY <1>6, <1>8 DEF EnvUsers
  <2>2. p[3 + s].field = "env"
    BY <1>2, <1>4
  <2>3. 3 + s \in 1 .. k - 1
    BY <1>1, <2>1
  <2> QED
    BY <2>2, <2>3
<1> HIDE DEF n
<1>9. PlanGood(p)
  BY <1>1, <1>2, <1>6, <1>7, <1>8 DEF PlanGood
<1> QED
  BY <1>9 DEF p

-----------------------------------------------------------------------------
(* What the fields hold, one field at a time.                              *)
LEMMA HeldByOneMore ==
  ASSUME NEW fs, NEW f
  PROVE  HeldBy(fs \cup {f}) = HeldBy(fs) \cup Holds(f)
BY DEF HeldBy

(* Nothing that belongs to a field that is not set is held by those that   *)
(* are.                                                                    *)
LEMMA HeldApart ==
  ASSUME NEW fs \in SUBSET Fields, NEW f \in (Fields \cup {"check"}) \ fs,
         NEW rs, \A r \in rs : BelongsTo(r, f)
  PROVE  HeldBy(fs) \cap rs = {}
BY FieldsApart DEF HeldBy

(* Before the first call nothing is held.                                  *)
LEMMA BuildStarts ==
  ASSUME CInit
  PROVE  BInv
<1>1. PlanGood(plan)
  BY PlansGood DEF CInit
<1>2. stage = 1 /\ call = 1 /\ pc = "build" /\ freeing = 1 /\ fields = {} /\ live = {}
      /\ misused = {}
  BY DEF CInit
<1>3. 1 \in 1 .. Len(plan) /\ 1 \in 1 .. Len(plan[1].calls)
  BY <1>1 DEF PlanGood, StageGood
<1>4. SetUpTo(0) = {} /\ TakenBy(plan[1], 0) = {} /\ HeldBy({}) = {} /\ Owned = {}
  BY <1>2 DEF SetUpTo, TakenBy, HeldBy, Owned
<1> QED
  BY <1>1, <1>2, <1>3, <1>4 DEF BInv

(* The invariant through a call that succeeds, a call that fails, the end  *)
(* of the life of a pipeline, and each line of vaani_pipeline_free.        *)
LEMMA BuildGoesOn == BInv /\ GoesOn => BInv'
<1> SUFFICES ASSUME BInv, GoesOn PROVE BInv'
  OBVIOUS
<1> DEFINE s == plan[stage]
           n == Len(s.calls)
<1>1. /\ StageGood(s) /\ s.field \in Fields \cup {"check"}
      /\ n \in Nat \ {0} /\ stage \in 1 .. Len(plan) /\ call \in 1 .. n
      /\ Len(plan) \in Nat \ {0}
  BY DEF BInv, PlanGood, StageGood
<1>2. /\ pc = "build" /\ plan' = plan /\ freeing' = freeing /\ misused' = misused
      /\ fields = SetUpTo(stage - 1)
      /\ Owned = HeldBy(fields) \cup TakenBy(s, call - 1)
  BY DEF BInv, GoesOn
<1>6. PICK left \in Leaves(s.calls[call]) :
        IF call = n
          THEN /\ live' = (live \cup left) \ s.whenBuilt
               /\ fields' = fields \cup ({s.field} \ {"check"})
               /\ call' = 1
               /\ stage' = IF stage = Len(plan) THEN stage ELSE stage + 1
               /\ pc' = IF stage = Len(plan) THEN "ready" ELSE "build"
          ELSE /\ live' = live \cup left /\ call' = call + 1
               /\ UNCHANGED <<fields, stage, pc>>
  BY DEF GoesOn, LastCall, Now, LastStage
<1>7. left \ Unread = Taken(s.calls[call])
  BY <1>6 DEF Leaves, Taken, TakesNothing
<1>3. Owned \cup Taken(s.calls[call]) = HeldBy(fields) \cup TakenBy(s, call)
  <2>1. TakenBy(s, call) = TakenBy(s, call - 1) \cup Taken(s.calls[call])
    BY <1>1 DEF TakenBy, Taken
  <2> QED
    BY <1>2, <2>1
<1>4. CASE call # n
  <2>1. /\ Owned' = Owned \cup Taken(s.calls[call]) /\ call' = call + 1
        /\ fields' = fields /\ stage' = stage /\ pc' = pc
    BY <1>4, <1>6, <1>7 DEF Owned
  <2>2. call' \in 1 .. n /\ call' - 1 = call
    BY <1>1, <1>4, <2>1
  <2> QED
    BY <1>2, <1>3, <2>1, <2>2 DEF BInv, SetUpTo
<1>5. CASE call = n
  <2>1. /\ Owned' = (Owned \cup Taken(s.calls[call])) \ s.whenBuilt
        /\ fields' = fields \cup ({s.field} \ {"check"}) /\ call' = 1
        /\ stage' = IF stage = Len(plan) THEN stage ELSE stage + 1
        /\ pc' = IF stage = Len(plan) THEN "ready" ELSE "build"
    BY <1>5, <1>6, <1>7 DEF Owned
  <2>2. s.field \notin fields
    BY <1>1, <1>2 DEF SetUpTo, BInv, PlanGood
  <2>3. HeldBy(fields) \cap s.whenBuilt = {}
    BY <1>1, <2>2, HeldApart DEF BInv, StageGood
  <2>4. TakenBy(s, n) \ s.whenBuilt = Kept(s)
    BY <1>1 DEF StageGood
  <2>5. Owned' = HeldBy(fields')
    <3>1. Owned' = HeldBy(fields) \cup Kept(s)
      BY <1>3, <1>5, <2>1, <2>3, <2>4
    <3>2. CASE s.field = "check"
      BY <2>1, <3>1, <3>2 DEF Kept
    <3>3. CASE s.field # "check"
      BY <2>1, <3>1, <3>3, HeldByOneMore DEF Kept
    <3> QED
      BY <3>2, <3>3
  <2>6. fields' = SetUpTo(stage)
    BY <1>1, <1>2, <2>1 DEF SetUpTo
  <2>7. /\ fields' \subseteq Fields
        /\ fields' \cap EnvUsers # {} => "env" \in fields'
    <3>1. fields' \subseteq Fields
      BY <1>1, <2>1 DEF BInv
    <3>2. ASSUME s.field \in EnvUsers PROVE "env" \in fields
      BY <1>1, <1>2, <3>2 DEF BInv, PlanGood, SetUpTo
    <3> QED
      BY <2>1, <3>1, <3>2 DEF BInv
  <2>8. CASE stage = Len(plan)
    <3>1. call' \in 1 .. n /\ stage' = stage /\ pc' = "ready"
      BY <1>1, <2>1, <2>8
    <3> QED
      BY <1>2, <2>5, <2>7, <3>1 DEF BInv
  <2>9. CASE stage # Len(plan)
    <3>1. /\ stage' = stage + 1 /\ stage' - 1 = stage /\ stage' \in 1 .. Len(plan)
          /\ pc' = "build" /\ call' = 1
      BY <1>1, <2>1, <2>9
    <3>2. StageGood(plan[stage'])
      BY <3>1 DEF BInv, PlanGood
    <3>3. 1 \in 1 .. Len(plan[stage'].calls) /\ TakenBy(plan[stage'], 0) = {}
      BY <3>2 DEF StageGood, TakenBy
    <3> QED
      BY <1>2, <2>5, <2>6, <2>7, <3>1, <3>3 DEF BInv, SetUpTo
  <2> QED
    BY <2>8, <2>9
<1> QED
  BY <1>4, <1>5

LEMMA BuildFails == BInv /\ CallFails => BInv'
<1> SUFFICES ASSUME BInv, CallFails PROVE BInv'
  OBVIOUS
<1> DEFINE s == plan[stage]
           n == Len(s.calls)
<1>1. /\ StageGood(s) /\ s.field \in Fields \cup {"check"}
      /\ n \in Nat \ {0} /\ stage \in 1 .. Len(plan) /\ call \in 1 .. n
      /\ Len(plan) \in Nat \ {0}
  BY DEF BInv, PlanGood, StageGood
<1>2. /\ pc = "build" /\ freeing = 1 /\ misused = {}
      /\ UNCHANGED <<plan, stage, call, fields, freeing, misused>>
      /\ pc' = IF stage = 1 THEN "gone" ELSE "free"
      /\ fields = SetUpTo(stage - 1)
      /\ Owned = HeldBy(fields) \cup TakenBy(s, call - 1)
  BY DEF BInv, CallFails
<1>3. PICK also : /\ also \subseteq s.whenFailed
                  /\ live' = (live \cup also) \ s.whenFailed
  <2>1. PICK also \in IF s.calls[call] = <<s.field, "mels">>
                        THEN {{}, {s.calls[call + 1]}} ELSE {{}} :
          live' = (live \cup also) \ s.whenFailed
    BY DEF CallFails, Now
  <2>2. s.calls[call] = <<s.field, "mels">> => s.calls[call + 1] \in s.whenFailed
    BY <1>1 DEF StageGood
  <2> QED
    BY <2>1, <2>2
<1>4. TakenBy(s, call - 1) \subseteq s.whenFailed
  BY <1>1 DEF StageGood, TakenBy
<1>5. s.field \notin fields
  BY <1>1, <1>2 DEF SetUpTo, BInv, PlanGood
<1>6. HeldBy(fields) \cap s.whenFailed = {}
  BY <1>1, <1>5, HeldApart DEF BInv, StageGood
<1>7. Owned' = HeldBy(fields)
  <2>1. Owned' = Owned \ s.whenFailed
    BY <1>3 DEF Owned
  <2> QED
    BY <1>2, <1>4, <1>6, <2>1
<1>8. CASE stage = 1
  <2>1. fields = {} /\ HeldBy(fields) = {}
    BY <1>2, <1>8 DEF SetUpTo, HeldBy
  <2> QED
    BY <1>2, <1>7, <1>8, <2>1 DEF BInv
<1>9. CASE stage # 1
  <2>1. Left(1) = fields
    BY DEF BInv, Left, Fields
  <2>2. Left(freeing)' = fields
    BY <1>2, <2>1 DEF Left
  <2> QED
    BY <1>2, <1>7, <1>9, <2>2 DEF BInv
<1> QED
  BY <1>8, <1>9

LEMMA BuildDisposed == BInv /\ FreeBegins => BInv'
<1> SUFFICES ASSUME BInv, FreeBegins PROVE BInv'
  OBVIOUS
<1>1. /\ pc = "ready" /\ pc' = "free" /\ freeing = 1 /\ Owned = HeldBy(fields)
      /\ UNCHANGED <<plan, stage, call, fields, freeing, misused>>
      /\ Owned' = Owned
  BY DEF BInv, FreeBegins, Owned
<1>2. Left(1) = fields
  BY DEF BInv, Left, Fields
<1>3. Left(freeing)' = fields
  BY <1>1, <1>2 DEF Left
<1> QED
  BY <1>1, <1>3 DEF BInv

LEMMA FieldFreed == BInv /\ FreeField => BInv'
<1> SUFFICES ASSUME BInv, FreeField PROVE BInv'
  OBVIOUS
<1> DEFINE field == FreeOrder[freeing]
           released == IF field \in fields THEN Holds(field) ELSE {}
<1>1. /\ pc = "free" /\ Owned = HeldBy(Left(freeing)) /\ freeing \in 1 .. 11
      /\ fields \subseteq Fields /\ misused = {} /\ field \in Fields
      /\ fields \cap EnvUsers # {} => "env" \in fields
  <2>1. pc = "free" /\ freeing \in 1 .. 11
    BY DEF BInv, FreeField
  <2>2. field \in Fields
    BY <2>1 DEF Fields
  <2> QED
    BY <2>1, <2>2 DEF BInv
<1>2. /\ Owned' = Owned \ released
      /\ misused' = misused \cup (released \ live)
           \cup {r \in released : NeedsEnv(r) /\ Alone("env") \notin live}
      /\ UNCHANGED <<plan, stage, call, fields>>
      /\ freeing < 11 => freeing' = freeing + 1 /\ pc' = pc
      /\ freeing = 11 => freeing' = freeing /\ pc' = "gone"
  BY <1>1, OrderOfFields DEF FreeField, Owned
<1>3. /\ Left(freeing) = Left(freeing + 1) \cup ({field} \cap fields)
      /\ field \notin Left(freeing + 1)
      /\ Left(freeing + 1) \subseteq Fields
  <2>1. PICK m \in Nat : m = freeing + 1
    BY <1>1
  <2>2. \A k : k \in freeing .. 11 <=> k = freeing \/ k \in m .. 11
    BY <1>1, <2>1
  <2>3. freeing \notin m .. 11 /\ m .. 11 \subseteq 1 .. 11
    BY <1>1, <2>1
  <2>4. Left(freeing) = Left(m) \cup ({field} \cap fields)
    BY <2>2 DEF Left
  <2>5. field \notin Left(m)
    BY <1>1, <2>3, OrderOfFields DEF Left
  <2> QED
    BY <1>1, <2>1, <2>4, <2>5 DEF Left
<1>4. released \subseteq live
  BY <1>1, <1>3 DEF HeldBy, Owned
<1>5. Owned' = HeldBy(Left(freeing + 1))
  <2>1. CASE field \in fields
    <3>1. Owned = HeldBy(Left(freeing + 1)) \cup Holds(field)
      <4>1. Left(freeing) = Left(freeing + 1) \cup {field}
        BY <1>3, <2>1
      <4> QED
        BY <1>1, <4>1, HeldByOneMore
    <3>2. HeldBy(Left(freeing + 1)) \cap Holds(field) = {}
      BY <1>1, <1>3, HeldApart, FieldsApart
    <3> QED
      BY <1>2, <2>1, <3>1, <3>2
  <2>2. CASE field \notin fields
    BY <1>1, <1>2, <1>3, <2>2
  <2> QED
    BY <2>1, <2>2
<1>6. misused' = {}
  <2>1. ASSUME NEW r \in released, NeedsEnv(r) PROVE Alone("env") \in live
    <3>1. field \in fields /\ r \in Holds(field)
      BY <2>1
    <3>2. PICK user \in EnvUsers : BelongsTo(r, user)
      BY <2>1 DEF NeedsEnv, EnvUsers, BelongsTo, Tags, Alone, Session, Sessions
    <3>3. user \in Fields /\ BelongsTo(r, field)
      BY <1>1, <3>1, <3>2, FieldsApart, OrderOfFields DEF EnvUsers
    <3>4. field \in EnvUsers
      BY <1>1, <3>2, <3>3, FieldsApart
    <3>5. "env" \in fields /\ freeing < 10
      BY <1>1, <3>1, <3>4, OrderOfFields
    <3>6. "env" \in Left(freeing)
      <4>1. 10 \in freeing .. 11
        BY <1>1, <3>5
      <4> QED
        BY <3>5, <4>1, OrderOfFields DEF Left
    <3>7. Alone("env") \in Holds("env")
      BY DEF Holds, Sessions
    <3> QED
      BY <1>1, <3>6, <3>7 DEF HeldBy, Owned
  <2> QED
    BY <1>1, <1>2, <1>4, <2>1
<1>7. CASE freeing < 11
  <2>1. freeing' \in 1 .. 11 /\ pc' = "free"
    BY <1>1, <1>2, <1>7
  <2>2. Owned' = HeldBy(Left(freeing))'
    BY <1>2, <1>5, <1>7 DEF HeldBy, Left
  <2> QED
    BY <1>2, <1>6, <2>1, <2>2 DEF BInv
<1>8. CASE freeing = 11
  <2>1. Left(freeing + 1) = {} /\ HeldBy({}) = {}
    BY <1>8 DEF Left, HeldBy
  <2> QED
    BY <1>1, <1>2, <1>5, <1>6, <1>8, <2>1 DEF BInv
<1> QED
  BY <1>1, <1>7, <1>8

LEMMA BuildStep == BInv /\ [CNext]_pipelineVars => BInv'
<1>1. CASE UNCHANGED pipelineVars
  BY <1>1 DEF BInv, PlanGood, SetUpTo, Left, Owned, pipelineVars
<1> QED
  BY <1>1, BuildGoesOn, BuildFails, BuildDisposed, FieldFreed DEF CNext

(* At every moment what is live is what the fields set so far hold, what   *)
(* the calls of the present stage took, and statuses that nobody read.     *)
LEMMA BuildInvariance == CSpec => []BInv
<1>1. CInit => BInv
  BY BuildStarts
<1> QED
  BY <1>1, BuildStep, PTL DEF CSpec

(* However many lines the vocabulary has, and whichever of its calls fails:*)
(* a pipeline that is ready holds what its fields say, and after a failure *)
(* of vaani_pipeline_init, or after vaani_pipeline_free, nothing is left   *)
(* but the statuses that create_ort_session drops.                         *)
THEOREM OnlyUnreadLeaks == CSpec => []NothingLeaks
<1>1. BInv => NothingLeaks
  BY DEF BInv, NothingLeaks, HeldBy, Owned
<1> QED
  BY <1>1, BuildInvariance, PTL

(* vaani_pipeline_free releases only what is there, also of a pipeline half*)
(* built, and the environment after all that was created in it.            *)
THEOREM EnvironmentGoesLast == CSpec => []ReleasedInOrder
<1>1. BInv => ReleasedInOrder
  BY DEF BInv, ReleasedInOrder
<1> QED
  BY <1>1, BuildInvariance, PTL
=============================================================================
