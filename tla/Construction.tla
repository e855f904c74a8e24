----------------------------- MODULE Construction -----------------------------
(***************************************************************************)
(* vaani_pipeline_init and vaani_pipeline_free (src/src/vaani_core.c) with *)
(* the constructors they call: mel_processor_new, create_ort_session and   *)
(* load_vocab.  A pipeline is built stage by stage, each stage taking      *)
(* memory, files and ORT objects; any call may fail, and what was built    *)
(* until then is taken down by the stage and by vaani_pipeline_free.  The  *)
(* OrtStatus of a call that fails is released where it is logged and is    *)
(* left out; not so those that create_ort_session never looks at.          *)
(***************************************************************************)
EXTENDS Integers, Sequences

CONSTANT Lines        \* the lines of the vocabulary file

(* With none of them load_vocab answers as without a file: it has nothing. *)
ASSUME ConstructionAssumption == Lines \in Nat \ {0}

Mel(x)     == {<<x, part>> : part \in {"processor", "window", "filters"}}
MelTemp(x) == {<<x, part>> : part \in {"mels", "hertz", "bins"}}
Options(x) == <<x, "options">>
Session(x) == <<x, "session">>
Status(x)  == <<"status", x>>
Token(i)   == <<"token", i>>
Alone(x)   == <<x>>
Check      == Alone("check")
Tokens     == {Token(i) : i \in 1 .. Lines}
Sessions   == {"encoder", "decoder", "vad", "speaker"}
Unread     == {Status(x) : x \in Sessions}

(* The calls of mel_processor_new, create_ort_session and load_vocab, in   *)
(* order.  A call that takes nothing new is a Check.  load_vocab makes the *)
(* table longer and copies the token, for each line.  Between the options  *)
(* and the session create_ort_session sets four options, with calls that   *)
(* answer an OrtStatus when they fail: one name stands for those of x.     *)
MelCalls(x) ==
  << <<x, "processor">>, <<x, "window">>, <<x, "filters">>,
     <<x, "mels">>, <<x, "hertz">>, <<x, "bins">> >>
SessionCalls(x) ==
  << Options(x), Status(x), Status(x), Status(x), Status(x), Session(x) >>
VocabCalls ==
  [i \in 1 .. 2 * Lines + 1 |->
     IF i = 1 THEN Alone("vocabFile")
     ELSE IF i = 2 THEN Alone("vocab")
     ELSE IF i % 2 = 1 THEN Token(i \div 2) ELSE Check]

(* A stage: the calls it makes, and what it gives back by the time it ends,*)
(* when all went well or when one of its calls failed.                     *)
Stage(field, calls, whenBuilt, whenFailed) ==
  [field |-> field, calls |-> calls,
   whenBuilt |-> whenBuilt, whenFailed |-> whenFailed]
MutantMelStage(x) ==
  Stage(x, MelCalls(x), MelTemp(x), Mel(x) \cup (MelTemp(x) \ {<<x, "hertz">>}))
MelStage(x) == Stage(x, MelCalls(x), MelTemp(x), Mel(x) \cup MelTemp(x))
MutantSessionStage(x) == Stage(x, SessionCalls(x), {Options(x)}, {})
SessionStage(x) == Stage(x, SessionCalls(x), {Options(x)}, {Options(x)})
VocabStage ==
  Stage("vocab", VocabCalls, {Alone("vocabFile")},
        {Alone("vocabFile"), Alone("vocab")} \cup Tokens)
OneCall(x) == Stage(x, << Alone(x) >>, {}, {})

(* vaani_pipeline_init, with the models the caller asked for.              *)
Optional(asked, stage) == IF asked THEN <<stage>> ELSE <<>>
Stages(vad, speaker) ==
  << OneCall("pipeline"), MelStage("asr") >>
    \o Optional(speaker, MelStage("speakerMel"))
    \o << OneCall("env"), OneCall("memoryInfo"),
          SessionStage("encoder"), SessionStage("decoder") >>
    \o Optional(vad, SessionStage("vad"))
    \o Optional(speaker, SessionStage("speaker"))
    \o << OneCall("runOptions"), OneCall("check"), VocabStage >>

(* vaani_pipeline_free: the fields in the order it looks at them, and what *)
(* it releases for each that is not NULL.                                  *)
MutantFreeOrder ==
  << "vocab", "asr", "speakerMel", "runOptions", "memoryInfo",
     "env", "encoder", "decoder", "vad", "speaker", "pipeline" >>
FreeOrder ==
  << "vocab", "asr", "speakerMel", "runOptions", "memoryInfo",
     "encoder", "decoder", "vad", "speaker", "env", "pipeline" >>
Holds(field) ==
  CASE field = "vocab" -> {Alone("vocab")} \cup Tokens
    [] field \in {"asr", "speakerMel"} -> Mel(field)
    [] field \in Sessions -> {Session(field)}
    [] OTHER -> {Alone(field)}

VARIABLES
  pc,         \* "build", "free", or the call has ended: "ready", "gone"
  plan,       \* the stages of this pipeline
  stage,      \* the stage being built
  call,       \* the call of the stage made next
  fields,     \* the fields of the pipeline that are not NULL
  live,       \* what is allocated or open
  freeing,    \* the field vaani_pipeline_free looks at next
  misused     \* history: released, or needed, when it was not live

pipelineVars == <<pc, plan, stage, call, fields, live, freeing, misused>>

CInit ==
  /\ pc = "build"
  /\ \E vad, speaker \in BOOLEAN : plan = Stages(vad, speaker)
  /\ stage = 1 /\ call = 1 /\ freeing = 1
  /\ fields = {} /\ live = {} /\ misused = {}

Now == plan[stage]
LastCall == call = Len(Now.calls)
LastStage == stage = Len(plan)

(* What a call leaves behind when the stage goes on after it: what it was  *)
(* to take, and of one that sets an option the status, if it was refused.  *)
Leaves(r) == IF r \in Unread THEN {{}, {r}} ELSE {{r} \ {Check}}

(* The stage goes on: its call succeeded, or nobody looks whether it did.  *)
(* After the last call of a stage its field is set.                        *)
GoesOn ==
  /\ pc = "build"
  /\ \E left \in Leaves(Now.calls[call]) :
       IF LastCall
         THEN /\ live' = (live \cup left) \ Now.whenBuilt
              /\ fields' = fields \cup ({Now.field} \ {"check"})
              /\ call' = 1 /\ stage' = IF LastStage THEN stage ELSE stage + 1
              /\ pc' = IF LastStage THEN "ready" ELSE "build"
         ELSE /\ live' = live \cup left /\ call' = call + 1
              /\ UNCHANGED <<fields, stage, pc>>
  /\ UNCHANGED <<plan, freeing, misused>>

(* A call whose failure is seen fails, and the stage takes itself down.    *)
(* mel_processor_new makes two allocations before it looks at the first.   *)
(* Without memory for the pipeline there is nothing to free.               *)
CallFails ==
  /\ pc = "build" /\ Now.calls[call] \notin Unread
  /\ \E also \in IF Now.calls[call] = <<Now.field, "mels">>
                   THEN {{}, {Now.calls[call + 1]}} ELSE {{}} :
       live' = (live \cup also) \ Now.whenFailed
  /\ pc' = IF stage = 1 THEN "gone" ELSE "free"
  /\ UNCHANGED <<plan, stage, call, fields, freeing, misused>>

(* The caller is done with a pipeline that was built.                      *)
FreeBegins ==
  /\ pc = "ready" /\ pc' = "free"
  /\ UNCHANGED <<plan, stage, call, fields, live, freeing, misused>>

(* One line of vaani_pipeline_free.  ORT objects need their environment.   *)
NeedsEnv(r) == r \in {Alone("runOptions"), Alone("memoryInfo")}
                 \cup {Session(x) : x \in Sessions}
FreeField ==
  LET field    == FreeOrder[freeing]
      released == IF field \in fields THEN Holds(field) ELSE {}
  IN  /\ pc = "free"
      /\ live' = live \ released
      /\ misused' = misused \cup (released \ live)
           \cup {r \in released : NeedsEnv(r) /\ Alone("env") \notin live}
      /\ IF freeing < Len(FreeOrder)
           THEN freeing' = freeing + 1 /\ UNCHANGED pc
           ELSE pc' = "gone" /\ UNCHANGED freeing
      /\ UNCHANGED <<plan, stage, call, fields>>

CNext == GoesOn \/ CallFails \/ FreeBegins \/ FreeField

CSpec == CInit /\ [][CNext]_pipelineVars

-----------------------------------------------------------------------------
(* Whichever call fails, and whichever models were asked for, all that the *)
(* construction took is given back but the statuses of the calls that set  *)
(* a session's options (vaani_core.c:39-43), which nobody reads and        *)
(* nothing releases; a pipeline that is ready holds what its fields hold   *)
(* and, beside such statuses, nothing else, and nothing of it outlives it. *)
NothingLeaks ==
  /\ pc = "gone" => live \subseteq Unread
  /\ pc = "ready" => live \ Unread = UNION {Holds(field) : field \in fields}

(* Nothing is released that was not taken, or twice; and no ORT object is  *)
(* released after the environment it was created in.                       *)
ReleasedInOrder == misused = {}
=============================================================================
