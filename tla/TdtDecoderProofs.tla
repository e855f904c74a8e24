--------------------------- MODULE TdtDecoderProofs ---------------------------
(***************************************************************************)
(* Proofs about TdtDecoder, for every number of frames, every vocabulary,  *)
(* every set of durations and every limit of tokens at a frame.            *)
(***************************************************************************)
EXTENDS TdtDecoder, SequenceTheorems, FiniteSetTheorems, TLAPS

Busy == {"setup", "frame", "run", "read"}

(* The invariant: the loop variables, and the two facts the search rests   *)
(* on, from before the first round to the jump to cleanup.                 *)
LoopType ==
  /\ pc \in PCs /\ hIn \in Sides
  /\ t \in Nat /\ same \in 0 .. MaxSame /\ last \in Nat
  /\ buf \in [Sides -> Seq(Nat)] /\ hyp \in Seq(Tokens)
  /\ pc \in {"run", "read"} => t < Frames

StateFollows ==
  /\ pc \in Busy => Append(buf[hIn], last) = <<Start>> \o hyp
  /\ pc = "read" => buf[Other(hIn)] = <<Start>> \o hyp

SearchInv == LoopType /\ StateFollows /\ BoundedTokens

-----------------------------------------------------------------------------
LEMMA SidesDiffer == \A s \in Sides : Other(s) \in Sides /\ Other(s) # s
  BY DEF Sides, Other

(* A frame left behind leaves room for MaxSame + 1 tokens more.            *)
LEMMA RoomGrows ==
  ASSUME NEW m \in Nat, NEW a \in Nat, NEW d \in Nat, d > 0
  PROVE  (m + 1) * (a + d) >= (m + 1) * a + (m + 1)
<1>1. (m + 1) * (a + d) = (m + 1) * a + (m + 1) * d
  OBVIOUS
<1>2. d - 1 \in Nat /\ (m + 1) * d = (m + 1) * (d - 1) + (m + 1)
  OBVIOUS
<1>3. (m + 1) * (d - 1) \in Nat
  BY <1>2
<1>4. (m + 1) * a \in Nat /\ (m + 1) * d \in Nat
  OBVIOUS
<1> QED BY <1>1, <1>2, <1>3, <1>4

LEMMA InitSearch == Init => SearchInv
<1> SUFFICES ASSUME Init PROVE SearchInv
  OBVIOUS
<1> USE DecoderAssumption
<1>1. LoopType
  BY DEF Init, LoopType, PCs, Sides, Start
<1>2. StateFollows
  <2>1. Append(buf[hIn], last) = <<Start>> \o hyp
    BY DEF Init, Sides, Start
  <2> QED BY <2>1 DEF Init, StateFollows
<1>3. BoundedTokens
  BY DEF Init, BoundedTokens
<1> QED BY <1>1, <1>2, <1>3 DEF SearchInv

(* The steps that leave the search where it is.                            *)
SearchVars == <<t, same, last, hIn, buf, hyp>>

LEMMA SearchUntouched ==
  ASSUME SearchInv, UNCHANGED SearchVars, pc' \in PCs \ {"read"},
         pc' \in Busy => pc \in Busy, pc' = "run" => t < Frames
  PROVE  SearchInv'
  BY DEF SearchInv, SearchVars, LoopType, StateFollows, BoundedTokens

LEMMA OtherSteps ==
  ASSUME SearchInv,
         \/ SetupStep \/ SetupFails \/ FrameTensor \/ FrameTensorFails
         \/ RunDecoderFails \/ LogitsUnreadable \/ LogitsUnusable
           \/ Finish \/ Cleanup
         \/ \E k \in Tokens, n \in TokLens : TokenFails(k, n)
  PROVE  SearchInv'
<1> USE DEF SearchVars, loop, PCs, Busy
<1>1. CASE SetupStep
  BY <1>1, SearchUntouched DEF SetupStep
<1>2. CASE SetupFails
  BY <1>2, SearchUntouched DEF SetupFails, GotoCleanup
<1>3. CASE FrameTensor
  BY <1>3, SearchUntouched DEF FrameTensor
<1>4. CASE FrameTensorFails
  BY <1>4, SearchUntouched DEF FrameTensorFails, GotoCleanup
<1>5. CASE RunDecoderFails
  BY <1>5, SearchUntouched DEF RunDecoderFails, GotoCleanup
<1>6. CASE LogitsUnreadable \/ LogitsUnusable
  BY <1>6, SearchUntouched DEF LogitsUnreadable, LogitsUnusable, GotoCleanup
<1>7. CASE Finish
  BY <1>7, SearchUntouched DEF Finish
<1>8. CASE Cleanup
  BY <1>8, SearchUntouched DEF Cleanup
<1>9. CASE \E k \in Tokens, n \in TokLens : TokenFails(k, n)
  BY <1>9, SearchUntouched DEF TokenFails, GotoCleanup
<1> QED BY <1>1, <1>2, <1>3, <1>4, <1>5, <1>6, <1>7, <1>8, <1>9

(* The network run writes the pair that is not read, and what it writes is *)
(* the state after every token found.                                      *)
LEMMA RunStep ==
  ASSUME SearchInv, RunDecoder
  PROVE  SearchInv'
<1> USE DEF SearchInv, RunDecoder, loop
<1>1. Other(hIn) \in Sides /\ Other(hIn) # hIn /\ hIn \in Sides
  BY SidesDiffer DEF LoopType
<1>2. /\ buf[hIn] \in Seq(Nat) /\ Append(buf[hIn], last) \in Seq(Nat)
      /\ buf \in [Sides -> Seq(Nat)]
  BY <1>1 DEF LoopType
<1>3. /\ buf'[hIn] = buf[hIn] /\ buf' \in [Sides -> Seq(Nat)]
      /\ buf'[Other(hIn)] = Append(buf[hIn], last)
  BY <1>1, <1>2 DEF OutSide
<1>4. Append(buf[hIn], last) = <<Start>> \o hyp
  BY DEF StateFollows, Busy
<1>5. LoopType'
  BY <1>3 DEF LoopType, PCs
<1>6. hIn' = hIn /\ last' = last /\ hyp' = hyp
  OBVIOUS
<1>7. StateFollows'
  BY <1>3, <1>4, <1>6 DEF StateFollows, Other
<1>8. BoundedTokens'
  BY DEF BoundedTokens
<1> QED BY <1>5, <1>7, <1>8

(* A blank moves on and drops the state just written, unswapped.           *)
LEMMA BlankStepKeeps ==
  ASSUME SearchInv, NEW d \in Durations, Blank(d)
  PROVE  SearchInv'
<1> USE DecoderAssumption DEF SearchInv, Blank, NextRound
<1>1. BlankStep(d) \in Nat /\ BlankStep(d) > 0
  BY DEF BlankStep
<1>2. LoopType'
  BY <1>1 DEF LoopType, PCs
<1>3. StateFollows'
  BY DEF StateFollows, Busy
<1>4. BoundedTokens'
  <2> DEFINE e == BlankStep(d)
  <2>1. /\ MaxSame \in Nat /\ t \in Nat /\ same \in 0 .. MaxSame /\ e \in Nat /\ e > 0
        /\ Len(hyp) \in Nat /\ Len(hyp) <= (MaxSame + 1) * t + same
    BY <1>1 DEF LoopType, BoundedTokens
  <2>2. t' = t + e /\ same' = 0 /\ hyp' = hyp
    OBVIOUS
  <2> HIDE DEF e
  <2>3. (MaxSame + 1) * (t + e) >= (MaxSame + 1) * t + (MaxSame + 1)
    BY <2>1, RoomGrows
  <2>4. (MaxSame + 1) * (t + e) \in Nat /\ (MaxSame + 1) * t \in Nat
    BY <2>1
  <2>5. Len(hyp) <= (MaxSame + 1) * (t + e) + 0
    BY ONLY <2>1, <2>3, <2>4
  <2> QED BY <2>2, <2>5 DEF BoundedTokens
<1> QED BY <1>2, <1>3, <1>4

(* A token either stays, one more at this frame, or moves on.              *)
LEMMA StayOrMove ==
  ASSUME NEW d \in Nat, MaxSame \in Nat, same \in 0 .. MaxSame
  PROVE  \/ Advance(d) = 0 /\ SameCount(d) = same + 1 /\ same + 1 <= MaxSame
         \/ Advance(d) \in Nat /\ Advance(d) > 0 /\ SameCount(d) = 0
  BY DEF Advance, SameCount

LEMMA TokenStepKeeps ==
  ASSUME SearchInv, NEW k \in Tokens, NEW d \in Durations, NEW n \in TokLens,
         Token(k, d, n)
  PROVE  SearchInv'
<1> USE DecoderAssumption
<1>1. /\ t' = t + Advance(d) /\ same' = SameCount(d) /\ last' = k
      /\ hyp' = Append(hyp, k) /\ hIn' = Other(hIn) /\ buf' = buf
      /\ pc = "read" /\ pc' = "frame"
  BY DEF Token, NextSide, NextRound
<1>2. /\ t \in Nat /\ MaxSame \in Nat /\ same \in 0 .. MaxSame /\ k \in Nat
      /\ hyp \in Seq(Tokens) /\ d \in Nat /\ Other(hIn) \in Sides
      /\ buf \in [Sides -> Seq(Nat)]
  BY SidesDiffer DEF SearchInv, LoopType
<1>3. \/ Advance(d) = 0 /\ SameCount(d) = same + 1 /\ same + 1 <= MaxSame
      \/ Advance(d) \in Nat /\ Advance(d) > 0 /\ SameCount(d) = 0
  BY <1>2, StayOrMove
<1>4. LoopType'
  <2>1. t + Advance(d) \in Nat /\ SameCount(d) \in 0 .. MaxSame
    BY <1>2, <1>3
  <2>2. Append(hyp, k) \in Seq(Tokens)
    BY <1>2
  <2> QED BY <1>1, <1>2, <2>1, <2>2 DEF LoopType, PCs
<1>5. StateFollows'
  <2>1. buf[Other(hIn)] = <<Start>> \o hyp
    BY <1>1 DEF SearchInv, StateFollows
  <2>2. Append(<<Start>> \o hyp, k) = <<Start>> \o Append(hyp, k)
    BY <1>2 DEF Start
  <2> QED BY <1>1, <2>1, <2>2 DEF StateFollows, Busy
<1>6. BoundedTokens'
  <2> DEFINE a == Advance(d)
             h == Len(hyp)
  <2>1. h \in Nat /\ h <= (MaxSame + 1) * t + same
    BY <1>2 DEF SearchInv, BoundedTokens
  <2>2. Len(hyp') = h + 1
    BY <1>1, <1>2
  <2> HIDE DEF a, h
  <2>3. CASE a = 0 /\ SameCount(d) = same + 1
    <3>1. t' = t /\ same' = same + 1
      BY <1>1, <1>2, <2>3 DEF a
    <3>2. h + 1 <= (MaxSame + 1) * t + (same + 1)
      BY <1>2, <2>1
    <3> QED BY <2>2, <3>1, <3>2 DEF BoundedTokens
  <2>4. CASE a \in Nat /\ a > 0 /\ SameCount(d) = 0
    <3>1. (MaxSame + 1) * (t + a) >= (MaxSame + 1) * t + (MaxSame + 1)
      BY <1>2, <2>4, RoomGrows
    <3>2. (MaxSame + 1) * (t + a) \in Nat /\ (MaxSame + 1) * t \in Nat
      <4>1. t + a \in Nat /\ MaxSame + 1 \in Nat
        BY <1>2, <2>4
      <4>2. \A x, y \in Nat : x * y \in Nat
        OBVIOUS
      <4> QED BY ONLY <1>2, <4>1, <4>2
    <3>3. h + 1 <= (MaxSame + 1) * (t + a) + 0
      BY ONLY <1>2, <2>1, <3>1, <3>2
    <3>4. t' = t + a /\ same' = 0
      BY <1>1, <2>4 DEF a
    <3> QED BY <2>2, <3>3, <3>4 DEF BoundedTokens
  <2> QED BY <1>3, <2>3, <2>4 DEF a
<1> QED BY <1>4, <1>5, <1>6 DEF SearchInv

LEMMA NextSearch == SearchInv /\ [Next]_vars => SearchInv'
<1> SUFFICES ASSUME SearchInv, [Next]_vars PROVE SearchInv'
  OBVIOUS
<1>1. CASE RunDecoder
  BY <1>1, RunStep
<1>2. ASSUME NEW d \in Durations, Blank(d) PROVE SearchInv'
  BY <1>2, BlankStepKeeps
<1>3. ASSUME NEW k \in Tokens, NEW d \in Durations, NEW n \in TokLens,
             Token(k, d, n)
      PROVE  SearchInv'
  BY <1>3, TokenStepKeeps
<1>4. CASE \/ SetupStep \/ SetupFails \/ FrameTensor \/ FrameTensorFails
           \/ RunDecoderFails \/ LogitsUnreadable \/ LogitsUnusable
           \/ Finish \/ Cleanup
           \/ \E k \in Tokens, n \in TokLens : TokenFails(k, n)
  BY <1>4, OtherSteps
<1>5. CASE UNCHANGED vars
  BY <1>5 DEF SearchInv, LoopType, StateFollows, BoundedTokens, vars, loop
<1> QED BY <1>1, <1>2, <1>3, <1>4, <1>5 DEF Next, Done

(* The search invariant holds always.                                      *)
THEOREM SearchInvariance == Spec => []SearchInv
<1>1. Init => SearchInv
  BY InitSearch
<1>2. SearchInv /\ [Next]_vars => SearchInv'
  BY NextSearch
<1> QED BY <1>1, <1>2, PTL DEF Spec

(* Before each run of the network, and after it, the states it reads are   *)
(* those that follow every token found but the last.                       *)
THEOREM StatesFollowTokens == Spec => []StateMatchesHypothesis
<1>1. SearchInv => StateMatchesHypothesis
  BY DEF SearchInv, StateFollows, StateMatchesHypothesis, InLoop, Busy
<1> QED BY <1>1, SearchInvariance, PTL

(* The tokens, and with them the work and the text, are bounded by the     *)
(* frames left behind, whatever the network answers.                       *)
THEOREM TokensBounded == Spec => []BoundedTokens
<1>1. SearchInv => BoundedTokens
  BY DEF SearchInv
<1> QED BY <1>1, SearchInvariance, PTL

-----------------------------------------------------------------------------
(* The text buffer.                                                        *)
TextInv == len \in Nat /\ cap \in Nat /\ len < cap

(* The NUL always fits behind the text: the capacity is above the length   *)
(* before and after every reallocation.                                    *)
THEOREM TextHasRoom == Spec => [](len \in Nat /\ cap \in Nat /\ len < cap)
<1> USE DecoderAssumption
<1>1. Init => TextInv
  BY DEF Init, TextInv
<1>2. TextInv /\ [Next]_vars => TextInv'
  <2> SUFFICES ASSUME TextInv, [Next]_vars PROVE TextInv'
    OBVIOUS
  <2>1. ASSUME NEW k \in Tokens, NEW d \in Durations, NEW n \in TokLens,
               Token(k, d, n)
        PROVE  TextInv'
    BY <2>1 DEF Token, Room, TextInv
  <2>2. CASE UNCHANGED <<len, cap>>
    BY <2>2 DEF TextInv
  <2>3. CASE \/ SetupStep \/ SetupFails \/ FrameTensor \/ FrameTensorFails
             \/ RunDecoder \/ RunDecoderFails \/ LogitsUnreadable
             \/ LogitsUnusable \/ Finish \/ Cleanup \/ UNCHANGED vars
             \/ \E d \in Durations : Blank(d)
             \/ \E k \in Tokens, n \in TokLens : TokenFails(k, n)
    BY <2>2, <2>3 DEF SetupStep, SetupFails, FrameTensor, FrameTensorFails,
         RunDecoder, RunDecoderFails, LogitsUnreadable, LogitsUnusable, Finish,
         Cleanup, Blank, TokenFails, GotoCleanup, vars
  <2> QED BY <2>1, <2>3 DEF Next, Done
<1>3. TextInv => len \in Nat /\ cap \in Nat /\ len < cap
  BY DEF TextInv
<1> QED BY <1>1, <1>2, <1>3, PTL DEF Spec

-----------------------------------------------------------------------------
(* Refinement: each round of the loop is a step of the greedy search.      *)
LEMMA InitMapped == Init => Abstract!Init
  BY DEF Init, Abstract!Init

LEMMA QuestionMapped == SearchInv /\ RunDecoder => Abstract!Ask
<1> SUFFICES ASSUME SearchInv, RunDecoder PROVE Abstract!Ask
  OBVIOUS
<1>1. t < Frames /\ Append(buf[hIn], last) = <<Start>> \o hyp
  BY DEF SearchInv, LoopType, StateFollows, RunDecoder, Busy
<1> QED BY <1>1 DEF RunDecoder, loop, Abstract!Ask

LEMMA BlankMapped ==
  ASSUME SearchInv, NEW d \in Durations, Blank(d)
  PROVE  Abstract!Blank
<1>1. BlankStep(d) \in Nat /\ BlankStep(d) > 0 /\ t \in Nat
  BY DecoderAssumption DEF BlankStep, SearchInv, LoopType
<1>2. t + BlankStep(d) > t
  BY <1>1
<1> QED BY <1>2 DEF Blank, NextRound, Abstract!Blank

LEMMA TokenMapped ==
  ASSUME SearchInv, NEW k \in Tokens, NEW d \in Durations, NEW n \in TokLens,
         Token(k, d, n)
  PROVE  Abstract!Token
<1>1. /\ t' = t + Advance(d) /\ same' = SameCount(d)
      /\ hyp' = Append(hyp, k) /\ query' = query
  BY DEF Token, NextRound
<1>2. t \in Nat /\ MaxSame \in Nat /\ same \in 0 .. MaxSame /\ d \in Nat
  BY DecoderAssumption DEF SearchInv, LoopType
<1>3. \/ Advance(d) = 0 /\ SameCount(d) = same + 1 /\ same + 1 <= MaxSame
      \/ Advance(d) \in Nat /\ Advance(d) > 0 /\ SameCount(d) = 0
  BY <1>2, StayOrMove
<1>4. \/ t' = t /\ same' = same + 1 /\ same' < MaxSame + 1
      \/ t' > t /\ same' = 0
  BY <1>1, <1>2, <1>3
<1> QED BY <1>1, <1>4 DEF Abstract!Token

LEMMA StepMapped ==
  SearchInv /\ [Next]_vars => [Abstract!Next]_(Abstract!vars)
<1> SUFFICES ASSUME SearchInv, [Next]_vars
             PROVE  [Abstract!Next]_(Abstract!vars)
  OBVIOUS
<1>1. CASE RunDecoder
  BY <1>1, QuestionMapped DEF Abstract!Next
<1>2. ASSUME NEW d \in Durations, Blank(d) PROVE Abstract!Next
  BY <1>2, BlankMapped DEF Abstract!Next
<1>3. ASSUME NEW k \in Tokens, NEW d \in Durations, NEW n \in TokLens,
             Token(k, d, n)
      PROVE  Abstract!Next
  BY <1>3, TokenMapped DEF Abstract!Next
<1>4. CASE \/ SetupStep \/ SetupFails \/ FrameTensor \/ FrameTensorFails
           \/ RunDecoderFails \/ LogitsUnreadable \/ LogitsUnusable
           \/ Finish \/ Cleanup \/ UNCHANGED vars
           \/ \E k \in Tokens, n \in TokLens : TokenFails(k, n)
  BY <1>4 DEF SetupStep, SetupFails, FrameTensor, FrameTensorFails,
       RunDecoderFails, LogitsUnreadable, LogitsUnusable, Finish, Cleanup,
       TokenFails, GotoCleanup, vars, loop, Abstract!vars
<1> QED BY <1>1, <1>2, <1>3, <1>4 DEF Next, Done

(* decode_audio_buffer performs the greedy search of Transducer.           *)
THEOREM DecoderRefines == Spec => ImplementsTransducer
<1>1. Init => Abstract!Init
  BY InitMapped
<1>2. SearchInv /\ [Next]_vars => [Abstract!Next]_(Abstract!vars)
  BY StepMapped
<1> QED BY <1>1, <1>2, SearchInvariance, PTL
        DEF Spec, ImplementsTransducer, Abstract!Spec

-----------------------------------------------------------------------------
(* What the function holds.                                                *)
Statuses == {"shape_status", "count_status"}
HeldInv ==
  /\ pc \in PCs /\ step \in 1 .. 17
  /\ pc = "setup" => step <= 16
  /\ held \subseteq Freed \cup InRound \cup {"result_str"} \cup Forgotten
  /\ pc = "done" => held \cap Freed = {}
  /\ "t_frame" \in held => pc \in {"run", "read"}
  /\ "dec_outputs" \in held => pc = "read"
  /\ "enc_out_info" \in held => step = 7
  /\ step > 9 => "result_str" \in held
  /\ pc \in {"frame", "run", "read"} => step = 17
  /\ result = "complete" => "result_str" \in held
  /\ pc # "done" => result \in {"none", "complete"}
  /\ pc = "done" =>
       (result \in {"complete", "partial"} <=> "result_str" \in held)

(* A status is lost when the size of the logits is asked for the first     *)
(* time, before any token, and ends the decoding.                          *)
StatusInv ==
  /\ counted \in BOOLEAN
  /\ ~counted => hyp = <<>>
  /\ held \cap Statuses # {} =>
       ~counted /\ pc \in {"cleanup", "done"} /\ step = 17
  /\ ~(Statuses \subseteq held)

LEMMA SetupFacts ==
  /\ Len(Setup) = 16
  /\ \A i \in 1 .. 16 :
       /\ Setup[i].gets \subseteq Freed \cup {"result_str", "enc_out_info"}
       /\ "enc_out_info" \in Setup[i].gets => i = 6
       /\ "result_str" \notin Setup[i].drops
  /\ "enc_out_info" \in Setup[7].drops
  /\ "result_str" \in Setup[9].gets
  BY DEF Setup, Gets, Freed

LEMMA SetupHeld ==
  ASSUME HeldInv, SetupStep
  PROVE  HeldInv'
<1>1. /\ pc = "setup" /\ step \in 1 .. 16 /\ step' = step + 1
      /\ held' = (held \cup Setup[step].gets) \ Setup[step].drops
      /\ pc' = IF step = 16 THEN "frame" ELSE "setup"
      /\ result' = result
  BY SetupFacts DEF HeldInv, SetupStep
<1>2. /\ Setup[step].gets \subseteq Freed \cup {"result_str", "enc_out_info"}
      /\ "enc_out_info" \in Setup[step].gets => step = 6
      /\ "result_str" \notin Setup[step].drops
      /\ step = 7 => "enc_out_info" \in Setup[step].drops
      /\ step = 9 => "result_str" \in Setup[step].gets
  BY <1>1, SetupFacts
<1>3. {"t_frame", "dec_outputs"} \cap held = {}
  BY <1>1 DEF HeldInv
<1>4. {"t_frame", "dec_outputs"} \cap held' = {}
  BY <1>1, <1>2, <1>3 DEF Freed
<1>5. "enc_out_info" \in held' => step' = 7
  BY <1>1, <1>2 DEF HeldInv
<1>6. step' > 9 => "result_str" \in held'
  BY <1>1, <1>2 DEF HeldInv
<1> QED BY <1>1, <1>2, <1>4, <1>5, <1>6 DEF HeldInv, PCs, InRound, Forgotten

LEMMA HeldKept == HeldInv /\ [Next]_vars => HeldInv'
<1> SUFFICES ASSUME HeldInv, [Next]_vars PROVE HeldInv'
  OBVIOUS
<1> USE DEF HeldInv, PCs, InRound, Forgotten
<1>1. CASE SetupStep
  BY <1>1, SetupHeld
<1>2. CASE SetupFails
  BY <1>2 DEF SetupFails, GotoCleanup
<1>3. CASE FrameTensor
  BY <1>3 DEF FrameTensor
<1>4. CASE FrameTensorFails
  BY <1>4 DEF FrameTensorFails, GotoCleanup
<1>5. CASE RunDecoder
  BY <1>5 DEF RunDecoder
<1>6. CASE RunDecoderFails
  BY <1>6 DEF RunDecoderFails, GotoCleanup
<1>7. CASE LogitsUnreadable \/ LogitsUnusable
  BY <1>7 DEF LogitsUnreadable, LogitsUnusable, Uncounted, GotoCleanup, Freed
<1>8. ASSUME NEW d \in Durations, Blank(d) PROVE HeldInv'
  BY <1>8 DEF Blank, NextRound
<1>9. ASSUME NEW k \in Tokens, NEW d \in Durations, NEW n \in TokLens,
             Token(k, d, n) \/ TokenFails(k, n)
      PROVE  HeldInv'
  BY <1>9 DEF Token, TokenFails, NextRound, GotoCleanup
<1>10. CASE Finish
  BY <1>10 DEF Finish
<1>11. CASE Cleanup
  BY <1>11 DEF Cleanup, Freed
<1>12. CASE UNCHANGED vars
  BY <1>12 DEF vars
<1> QED BY <1>1, <1>2, <1>3, <1>4, <1>5, <1>6, <1>7, <1>8, <1>9, <1>10,
           <1>11, <1>12 DEF Next, Done

LEMMA StatusInit == Init => StatusInv
<1> SUFFICES ASSUME Init PROVE StatusInv
  OBVIOUS
<1>1. counted \in BOOLEAN
  BY Zenon DEF Init
<1> QED BY <1>1 DEF Init, StatusInv, Statuses

LEMMA StatusKept == HeldInv /\ StatusInv /\ [Next]_vars => StatusInv'
<1> SUFFICES ASSUME HeldInv, StatusInv, [Next]_vars PROVE StatusInv'
  OBVIOUS
<1> USE DEF StatusInv, Statuses
<1>1. CASE SetupStep
  <2>1. pc = "setup" /\ step \in 1 .. 16
    BY <1>1, SetupFacts DEF HeldInv, SetupStep
  <2>2. Setup[step].gets \cap Statuses = {}
    BY <2>1, SetupFacts DEF Freed
  <2>3. held' \cap Statuses = {}
    BY <1>1, <2>1, <2>2 DEF SetupStep
  <2> QED BY <1>1, <2>3 DEF SetupStep
<1>2. CASE \/ SetupFails \/ FrameTensor \/ FrameTensorFails \/ RunDecoder
           \/ RunDecoderFails \/ LogitsUnreadable \/ Finish \/ Cleanup
           \/ \E k \in Tokens, n \in TokLens : TokenFails(k, n)
           \/ UNCHANGED vars
  BY <1>2 DEF SetupFails, FrameTensor, FrameTensorFails, RunDecoder,
       RunDecoderFails, LogitsUnreadable, Finish, Cleanup, TokenFails,
       GotoCleanup, InRound, vars
<1>3. CASE LogitsUnusable
  BY <1>3 DEF LogitsUnusable, Uncounted, GotoCleanup, InRound, HeldInv
<1>4. ASSUME NEW d \in Durations, Blank(d) PROVE StatusInv'
  BY <1>4 DEF Blank, NextRound, InRound
<1>5. ASSUME NEW k \in Tokens, NEW d \in Durations, NEW n \in TokLens,
             Token(k, d, n)
      PROVE  StatusInv'
  BY <1>5 DEF Token, NextRound, InRound
<1> QED BY <1>1, <1>2, <1>3, <1>4, <1>5 DEF Next, Done

(* At the return, after any failure or none, the string returned is held,  *)
(* and at most one thing forgotten: the shape info of line 70, or the      *)
(* status of line 191 or 193, before the first token.                      *)
THEOREM OnlyForgottenLeaks == Spec => []NothingElseLeaks
<1>1. Init => HeldInv /\ StatusInv
  BY StatusInit DEF Init, HeldInv, PCs
<1>2. HeldInv /\ StatusInv /\ [Next]_vars => HeldInv' /\ StatusInv'
  BY HeldKept, StatusKept
<1>3. HeldInv /\ StatusInv => NothingElseLeaks
  BY DEF HeldInv, InRound, StatusInv, Statuses, Forgotten, NothingElseLeaks
<1> QED BY <1>1, <1>2, <1>3, PTL DEF Spec

-----------------------------------------------------------------------------
(* Type correctness: what the other invariants leave of TypeOK.            *)
RestInv ==
  /\ text \in Seq(Tokens) /\ held \subseteq Obtained
  /\ result \in {"none", "complete", "partial", "empty"}

LEMMA RestKept == HeldInv /\ RestInv /\ [Next]_vars => RestInv'
<1> SUFFICES ASSUME HeldInv, RestInv, [Next]_vars PROVE RestInv'
  OBVIOUS
<1> USE DEF RestInv
<1>1. CASE SetupStep
  <2>1. step \in DOMAIN Setup
    BY <1>1, SetupFacts DEF SetupStep, HeldInv, Setup
  <2>2. Setup[step].gets \subseteq Obtained
    <3>1. Setup[step].gets \in {Setup[i].gets : i \in DOMAIN Setup}
      BY ONLY <2>1
    <3> QED BY <3>1, Zenon DEF Obtained
  <2> QED BY <1>1, <2>2 DEF SetupStep
<1>2. /\ InRound \subseteq Obtained
      /\ \A lost \in Uncounted : lost \subseteq Obtained
  BY Zenon DEF Obtained
<1>3. CASE \/ SetupFails \/ FrameTensor \/ FrameTensorFails \/ RunDecoder
           \/ RunDecoderFails \/ LogitsUnreadable \/ LogitsUnusable
           \/ Finish \/ Cleanup \/ UNCHANGED vars
  BY <1>2, <1>3 DEF SetupFails, FrameTensor, FrameTensorFails, RunDecoder,
       RunDecoderFails, LogitsUnreadable, LogitsUnusable, Finish, Cleanup,
       GotoCleanup, InRound, vars
<1>4. ASSUME NEW d \in Durations, Blank(d) PROVE RestInv'
  BY <1>4 DEF Blank, NextRound
<1>5. ASSUME NEW k \in Tokens, NEW d \in Durations, NEW n \in TokLens,
             Token(k, d, n)
      PROVE  RestInv'
  <2>1. held' \subseteq Obtained /\ result' = result
    BY <1>5 DEF Token, NextRound
  <2>2. text' = text \/ text' = Append(text, k)
    BY <1>5 DEF Token
  <2> QED BY <2>1, <2>2
<1>6. ASSUME NEW k \in Tokens, NEW n \in TokLens, TokenFails(k, n)
      PROVE  RestInv'
  BY <1>6 DEF TokenFails, GotoCleanup
<1> QED BY <1>1, <1>3, <1>4, <1>5, <1>6 DEF Next, Done

(* The decoder's variables keep their types; in particular the count of    *)
(* tokens taken at one frame never passes its limit.                       *)
THEOREM TypeCorrect == Spec => []TypeOK
<1>1. Init => HeldInv /\ StatusInv /\ RestInv
  BY StatusInit DEF Init, HeldInv, PCs, RestInv
<1>2. HeldInv /\ StatusInv /\ RestInv /\ [Next]_vars
        => HeldInv' /\ StatusInv' /\ RestInv'
  BY HeldKept, StatusKept, RestKept
<1>3. SearchInv /\ HeldInv /\ StatusInv /\ RestInv /\ len \in Nat /\ cap \in Nat
        => TypeOK
  <2>1. StatusInv => counted \in BOOLEAN
    BY Zenon DEF StatusInv
  <2> QED
    BY SetupFacts, <2>1 DEF SearchInv, LoopType, HeldInv, RestInv, TypeOK
<1> QED BY <1>1, <1>2, <1>3, SearchInvariance, TextHasRoom, PTL DEF Spec

-----------------------------------------------------------------------------
(* What the text holds: tokens written where the count of the known ones   *)
(* says.                                                                   *)
Written(txt, s) ==
  /\ Len(txt) = Cardinality(Known(s, Len(s)))
  /\ \A i \in Known(s, Len(s)) : txt[Cardinality(Known(s, i))] = s[i]

(* Places known are finite in number, and so many at each of them.         *)
LEMMA KnownFacts ==
  ASSUME NEW s, NEW n \in Nat
  PROVE  /\ IsFiniteSet(Known(s, n)) /\ Cardinality(Known(s, n)) \in Nat
         /\ \A i \in Known(s, n) :
              Cardinality(Known(s, i)) \in 1 .. Cardinality(Known(s, n))
<1>1. \A i \in Nat : /\ IsFiniteSet(Known(s, i))
                     /\ Cardinality(Known(s, i)) \in Nat
  <2> SUFFICES ASSUME NEW i \in Nat
               PROVE  /\ IsFiniteSet(Known(s, i))
                      /\ Cardinality(Known(s, i)) \in Nat
    OBVIOUS
  <2>1. IsFiniteSet(1 .. i)
    BY FS_Interval
  <2>2. Known(s, i) \in SUBSET (1 .. i)
    BY DEF Known
  <2>3. IsFiniteSet(Known(s, i))
    BY ONLY <2>1, <2>2, FS_Subset
  <2> QED BY <2>3, FS_CardinalityType
<1>2. ASSUME NEW i \in Known(s, n)
      PROVE  Cardinality(Known(s, i)) \in 1 .. Cardinality(Known(s, n))
  <2>1. /\ i \in Nat /\ i \in Known(s, i)
        /\ Known(s, i) \in SUBSET Known(s, n)
    BY DEF Known
  <2>2. Cardinality(Known(s, i)) # 0
    BY <1>1, <2>1, FS_EmptySet
  <2>3. Cardinality(Known(s, i)) <= Cardinality(Known(s, n))
    BY <1>1, <2>1, FS_Subset
  <2> QED BY <1>1, <2>1, <2>2, <2>3
<1> QED BY <1>1, <1>2

(* A token more leaves the places before it as they were.                  *)
LEMMA TokenWritten ==
  ASSUME NEW s \in Seq(Nat), NEW txt \in Seq(Nat), NEW k \in Nat,
         Written(txt, s)
  PROVE  Written(IF k < VocabSize THEN Append(txt, k) ELSE txt, Append(s, k))
<1>1. PICK n \in Nat : n = Len(s)
  OBVIOUS
<1>2. PICK m \in Nat : m = n + 1
  OBVIOUS
<1>3. PICK r \in Seq(Nat) : r = Append(s, k)
  BY AppendProperties
<1>4. PICK c \in Nat : c = Cardinality(Known(s, n))
  BY KnownFacts
<1>5. /\ \A i \in 0 .. n : Known(r, i) = Known(s, i)
      /\ k < VocabSize => Known(r, m) = Known(s, n) \cup {m}
      /\ ~(k < VocabSize) => Known(r, m) = Known(s, n)
      /\ m \notin Known(s, n) /\ Len(r) = m /\ r[m] = k
      /\ \A i \in 1 .. n : r[i] = s[i]
  <2>1. Len(r) = m /\ r[m] = k /\ \A i \in 1 .. n : r[i] = s[i]
    BY <1>1, <1>2, <1>3, AppendProperties
  <2>2. \A i \in 0 .. n : Known(r, i) = Known(s, i)
    BY <2>1 DEF Known
  <2>3. m \notin Known(s, n)
    BY <1>2 DEF Known
  <2>4. 1 .. m = (1 .. n) \cup {m}
    BY <1>2
  <2>5. /\ k < VocabSize => Known(r, m) = Known(s, n) \cup {m}
        /\ ~(k < VocabSize) => Known(r, m) = Known(s, n)
    BY <2>1, <2>4 DEF Known
  <2> QED BY <2>1, <2>2, <2>3, <2>5
<1>6. /\ Len(txt) = c
      /\ \A i \in Known(s, n) : txt[Cardinality(Known(s, i))] = s[i]
      /\ \A i \in Known(s, n) : Cardinality(Known(s, i)) \in 1 .. c
      /\ \A i \in Known(s, n) : i \in 1 .. n
      /\ IsFiniteSet(Known(s, n))
  BY <1>1, <1>4, KnownFacts DEF Written, Known
<1>7. CASE k < VocabSize
  <2>1. PICK e : e = Append(txt, k)
    OBVIOUS
  <2>2. /\ Len(e) = c + 1 /\ e[c + 1] = k
        /\ \A i \in 1 .. c : e[i] = txt[i]
    BY <1>6, <2>1, AppendProperties
  <2>3. /\ Known(r, m) = Known(s, n) \cup {m}
        /\ Cardinality(Known(r, m)) = c + 1
    <3>1. Known(r, m) = Known(s, n) \cup {m}
      BY <1>5, <1>7
    <3>2. Cardinality(Known(s, n) \cup {m}) = c + 1
      BY <1>4, <1>5, <1>6, FS_AddElement
    <3> QED BY <3>1, <3>2
  <2>4. ASSUME NEW i \in Known(r, m)
        PROVE  e[Cardinality(Known(r, i))] = r[i]
    <3>1. CASE i = m
      BY <1>5, <2>2, <2>3, <3>1
    <3>2. CASE i \in Known(s, n)
      <4>1. Known(r, i) = Known(s, i) /\ r[i] = s[i]
        BY <1>5, <1>6, <3>2
      <4>2. e[Cardinality(Known(s, i))] = txt[Cardinality(Known(s, i))]
        BY <1>6, <2>2, <3>2
      <4> QED BY <1>6, <3>2, <4>1, <4>2
    <3> QED BY <2>3, <3>1, <3>2
  <2> QED BY <1>3, <1>5, <1>7, <2>1, <2>2, <2>3, <2>4 DEF Written
<1>8. CASE ~(k < VocabSize)
  <2>1. Known(r, m) = Known(s, n)
    BY <1>5, <1>8
  <2>2. ASSUME NEW i \in Known(r, m)
        PROVE  txt[Cardinality(Known(r, i))] = r[i]
    <3>1. Known(r, i) = Known(s, i) /\ r[i] = s[i]
      BY <1>5, <1>6, <2>1
    <3> QED BY <1>6, <2>1, <3>1
  <2> QED BY <1>3, <1>4, <1>5, <1>6, <1>8, <2>1, <2>2 DEF Written
<1> QED BY <1>7, <1>8

(* The NUL always fits, and the text is the known tokens taken, in order,  *)
(* whatever mixture of blanks, known and unknown tokens came.              *)
THEOREM TextIsTokens == Spec => []TextFits
<1>1. Init => Written(text, hyp)
  <2> SUFFICES ASSUME Init PROVE Written(text, hyp)
    OBVIOUS
  <2>1. text = <<>> /\ hyp = <<>> /\ Len(<<>>) = 0
    BY DEF Init
  <2>2. Known(<<>>, 0) = {}
    BY DEF Known
  <2> QED BY <2>1, <2>2, FS_EmptySet DEF Written
<1>2. Written(text, hyp) /\ TypeOK /\ [Next]_vars => Written(text, hyp)'
  <2> SUFFICES ASSUME Written(text, hyp), TypeOK, [Next]_vars
               PROVE  Written(text, hyp)'
    OBVIOUS
  <2>1. ASSUME NEW k \in Tokens, NEW d \in Durations, NEW n \in TokLens,
               Token(k, d, n)
        PROVE  Written(text, hyp)'
    <3>1. /\ hyp \in Seq(Nat) /\ text \in Seq(Nat) /\ k \in Nat
      <4>1. hyp \in Seq(Tokens) /\ text \in Seq(Tokens) /\ Tokens \subseteq Nat
        BY DecoderAssumption DEF TypeOK
      <4> QED BY ONLY <4>1, k \in Tokens, SeqMonotonic
    <3>2. Written(IF k < VocabSize THEN Append(text, k) ELSE text, Append(hyp, k))
      BY <3>1, TokenWritten
    <3>3. /\ hyp' = Append(hyp, k)
          /\ text' = IF k < VocabSize THEN Append(text, k) ELSE text
      BY <2>1 DEF Token
    <3>4. Written(text', hyp')
      BY <3>2, <3>3
    <3> QED BY <3>4 DEF Written, Known
  <2>2. CASE UNCHANGED <<text, hyp>>
    BY <2>2 DEF Written, Known
  <2>3. CASE \/ SetupStep \/ SetupFails \/ FrameTensor \/ FrameTensorFails
             \/ RunDecoder \/ RunDecoderFails \/ LogitsUnreadable
             \/ LogitsUnusable \/ Finish \/ Cleanup \/ UNCHANGED vars
             \/ \E d \in Durations : Blank(d)
             \/ \E k \in Tokens, n \in TokLens : TokenFails(k, n)
    BY <2>2, <2>3 DEF SetupStep, SetupFails, FrameTensor, FrameTensorFails,
         RunDecoder, RunDecoderFails, LogitsUnreadable, LogitsUnusable, Finish,
         Cleanup, Blank, TokenFails, GotoCleanup, vars
  <2> QED BY <2>1, <2>3 DEF Next, Done
<1>3. Written(text, hyp) /\ len < cap => TextFits
  BY DEF Written, TextFits
<1> QED BY <1>1, <1>2, <1>3, TextHasRoom, TypeCorrect, PTL DEF Spec
=============================================================================
