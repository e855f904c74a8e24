------------------------------ MODULE TdtDecoder ------------------------------
(***************************************************************************)
(* decode_audio_buffer (src/src/vaani_decode.c): the encoder pass and the  *)
(* greedy TDT decoding loop, with the two pairs of recurrent-state buffers *)
(* it swaps, the growing text buffer, and the single cleanup label every   *)
(* failure jumps to.                                                       *)
(*                                                                         *)
(* The content of a recurrent-state buffer is modelled by the targets the  *)
(* network has consumed to produce it, so that "the network is given the   *)
(* right state" can be stated.  Both states of a pair (h1, h2) are always  *)
(* swapped together and are one buffer here.                               *)
(***************************************************************************)
EXTENDS Integers, Sequences, FiniteSets

CONSTANTS
  Frames,        \* time_steps of the encoder output
  Tokens,        \* token ids below the blank
  VocabSize,     \* p->vocab_size: ids from here on have no text
  MaxSame,       \* same_frame_count limit (10)
  Durations,     \* durations[] of the duration head
  TokLens,       \* possible strlen of a token's text
  Slack          \* the 64 spare bytes of each (re)allocation

ASSUME DecoderAssumption ==
  /\ {Frames, VocabSize, MaxSame} \subseteq Nat
  /\ Slack \in Nat \ {0}
  /\ Tokens \subseteq Nat /\ Durations \subseteq Nat /\ TokLens \subseteq Nat

Start == 0   \* last_token before the first token

Sides == {"A", "B"}
Other(s) == IF s = "A" THEN "B" ELSE "A"

(* The allocations and ORT calls up to the loop, in order: what each one   *)
(* obtains, and what is released once it has succeeded.                    *)
Gets(x) == [gets |-> {x}, drops |-> {}]
Setup == <<
  Gets("mel"),
  [gets |-> {"mel_t"}, drops |-> {"mel"}],
  Gets("enc_inputs0"), Gets("enc_inputs1"),
  Gets("enc_out"),
  Gets("enc_out_info"),
  [gets |-> {}, drops |-> {"enc_out_info"}],
  [gets  |-> {"transposed_enc"},
   drops |-> {"enc_inputs0", "enc_inputs1", "enc_out", "mel_t"}],
  Gets("result_str"), Gets("state_block"),
  Gets("t_last_token"), Gets("t_target_len"),
  Gets("t_h1_A"), Gets("t_h2_A"), Gets("t_h1_B"), Gets("t_h2_B") >>

VARIABLES
  pc,        \* "setup", "frame", "run", "read", "cleanup" or "done"
  step,      \* index in Setup of the next call
  held,      \* what the function has obtained and not released
  counted,   \* logits_count >= 0: the size of the logits is known, and enough
  t, same,   \* t, same_frame_count
  last,      \* last_token
  hIn,       \* which pair cur_h1_in / cur_h2_in is
  buf,       \* content of the two pairs
  len, cap,  \* out_buf_len, out_buf_cap
  text,      \* the tokens written to result_str
  hyp,       \* history: the tokens taken
  query,     \* history: the last frame and context the network was run on
  result     \* "none" before the return; then "complete", "partial", "empty"

loop == <<t, same, last, hIn>>
vars ==
  <<pc, step, held, counted, loop, buf, len, cap, text, hyp, query, result>>

Init ==
  /\ pc = "setup" /\ step = 1 /\ held = {} /\ counted = FALSE
  /\ t = 0 /\ same = 0 /\ last = Start /\ hIn = "A"
  /\ buf = [s \in Sides |-> <<>>]
  /\ len = 0 /\ cap = Frames * 8 + Slack
  /\ text = <<>> /\ hyp = <<>> /\ query = <<>> /\ result = "none"

(* goto cleanup.                                                           *)
GotoCleanup(kept) ==
  /\ pc' = "cleanup" /\ held' = kept
  /\ UNCHANGED <<step, counted, loop, buf, len, cap, text, hyp, query, result>>

SetupStep ==
  /\ pc = "setup" /\ step <= Len(Setup)
  /\ held' = (held \cup Setup[step].gets) \ Setup[step].drops
  /\ step' = step + 1
  /\ pc' = IF step = Len(Setup) THEN "frame" ELSE "setup"
  /\ UNCHANGED <<counted, loop, buf, len, cap, text, hyp, query, result>>

SetupFails == pc = "setup" /\ GotoCleanup(held)

(* One round of the loop: wrap frame t, run the network on it, look at the *)
(* logits, act on them.                                                    *)
FrameTensor ==
  /\ pc = "frame" /\ t < Frames
  /\ pc' = "run" /\ held' = held \cup {"t_frame"}
  /\ UNCHANGED <<step, counted, loop, buf, len, cap, text, hyp, query, result>>

FrameTensorFails == pc = "frame" /\ t < Frames /\ GotoCleanup(held)

(* The network writes the state after consuming last_token to the pair     *)
(* that is not being read.                                                 *)
MutantOutSide == hIn
OutSide == Other(hIn)

RunDecoder ==
  /\ pc = "run"
  /\ query' = [frame |-> t, context |-> Append(buf[hIn], last)]
  /\ buf' = [buf EXCEPT ![OutSide] = Append(buf[hIn], last)]
  /\ pc' = "read" /\ held' = held \cup {"dec_outputs"}
  /\ UNCHANGED <<step, counted, loop, len, cap, text, hyp, result>>

RunDecoderFails == pc = "run" /\ GotoCleanup(held \ {"t_frame"})

(* The logits cannot be read.                                              *)
InRound == {"t_frame", "dec_outputs"}
LogitsUnreadable == pc = "read" /\ GotoCleanup(held \ InRound)

(* The first time there are any, their size is looked at: too few of them, *)
(* or no answer, end the decoding.  The OrtStatus of a call that gives no  *)
(* answer is compared with NULL and dropped where it stands.               *)
MutantUncounted == {{}, {"shape_status"}, {"shape_info", "count_status"}}
Uncounted == {{}, {"shape_status"}, {"count_status"}}
LogitsUnusable ==
  /\ pc = "read" /\ ~counted
  /\ \E lost \in Uncounted : GotoCleanup((held \ InRound) \cup lost)

(* The next round, the outputs of this one having been released.           *)
NextRound ==
  /\ pc' = "frame" /\ held' = held \ InRound /\ counted' = TRUE
  /\ UNCHANGED <<step, query, result>>

MutantBlankStep(d) == d
BlankStep(d) == IF d > 1 THEN d ELSE 1

Blank(d) ==
  /\ pc = "read"
  /\ t' = t + BlankStep(d) /\ same' = 0
  /\ NextRound
  /\ UNCHANGED <<last, hIn, buf, len, cap, text, hyp>>

(* A token of duration 0 keeps the loop on this frame, unless it already   *)
(* did so MaxSame times.                                                   *)
Advance(d)   == IF d = 0 /\ same + 1 > MaxSame THEN 1 ELSE d
SameCount(d) == IF d = 0 /\ same + 1 <= MaxSame THEN same + 1 ELSE 0

(* The text buffer with room for n more bytes and the final NUL.           *)
MutantRoom(n) == IF len + n > cap THEN (len + n + Slack) * 2 ELSE cap
Room(n) == IF len + n >= cap THEN (len + n + Slack) * 2 ELSE cap

(* A token makes the state just written the one to read from.             *)
MutantNextSide == hIn
NextSide == Other(hIn)

Token(k, d, n) ==
  /\ pc = "read"
  /\ same' = SameCount(d)
  /\ IF k < VocabSize
       THEN /\ cap' = Room(n) /\ len' = len + n
            /\ text' = Append(text, k)
       ELSE UNCHANGED <<cap, len, text>>
  /\ last' = k /\ hyp' = Append(hyp, k)
  /\ hIn' = NextSide
  /\ t' = t + Advance(d)
  /\ NextRound
  /\ UNCHANGED buf

(* realloc fails.  out_buf_cap and same_frame_count are already assigned, *)
(* but nothing reads them any more and they are left alone here.           *)
TokenFails(k, n) ==
  /\ pc = "read" /\ k < VocabSize /\ len + n >= cap
  /\ GotoCleanup(held \ InRound)

(* After the loop: trim, normalize the white space, fall into cleanup.     *)
Finish ==
  /\ pc = "frame" /\ t >= Frames
  /\ pc' = "cleanup" /\ result' = "complete"
  /\ UNCHANGED <<step, held, counted, loop, buf, len, cap, text, hyp, query>>

(* The cleanup label frees what it has a variable for; the caller gets the *)
(* text so far or, without one, a new empty string.                        *)
Freed == {"mel", "mel_t", "transposed_enc", "state_block", "enc_inputs0",
          "enc_inputs1", "enc_out", "t_last_token", "t_target_len",
          "t_h1_A", "t_h2_A", "t_h1_B", "t_h2_B"}
Cleanup ==
  /\ pc = "cleanup"
  /\ held' = held \ Freed
  /\ result' = IF "result_str" \notin held THEN "empty"
               ELSE IF result = "complete" THEN "complete" ELSE "partial"
  /\ pc' = "done"
  /\ UNCHANGED <<step, counted, loop, buf, len, cap, text, hyp, query>>

Done == pc = "done" /\ UNCHANGED vars

Next ==
  \/ SetupStep \/ SetupFails
  \/ FrameTensor \/ FrameTensorFails
  \/ RunDecoder \/ RunDecoderFails
  \/ LogitsUnreadable \/ LogitsUnusable
  \/ \E d \in Durations : Blank(d)
  \/ \E k \in Tokens, d \in Durations, n \in TokLens :
       Token(k, d, n) \/ TokenFails(k, n)
  \/ Finish \/ Cleanup \/ Done

(* The function runs until it returns.                                     *)
Spec == Init /\ [][Next]_vars /\ WF_vars(Next)

-----------------------------------------------------------------------------
PCs == {"setup", "frame", "run", "read", "cleanup", "done"}
Obtained == (UNION {Setup[i].gets : i \in DOMAIN Setup})
              \cup InRound \cup UNION Uncounted
InLoop == pc \in {"frame", "run", "read"}

(* Every variable keeps its type; in particular the count of tokens taken  *)
(* at one frame never passes its limit.                                    *)
TypeOK ==
  /\ pc \in PCs /\ step \in 1..(Len(Setup) + 1) /\ held \subseteq Obtained
  /\ counted \in BOOLEAN
  /\ t \in Nat /\ same \in 0..MaxSame /\ last \in Nat /\ hIn \in Sides
  /\ buf \in [Sides -> Seq(Nat)]
  /\ len \in Nat /\ cap \in Nat
  /\ text \in Seq(Tokens) /\ hyp \in Seq(Tokens)
  /\ result \in {"none", "complete", "partial", "empty"}

(* Whatever mixture of blanks and tokens came before, the pair about to be *)
(* read holds the state of the network after all tokens taken but the      *)
(* last, which is the target it is given next; a blank, which leaves the   *)
(* pairs unswapped, lets the other pair be overwritten with no harm.       *)
StateMatchesHypothesis ==
  /\ InLoop => Append(buf[hIn], last) = <<Start>> \o hyp
  /\ pc = "read" => buf[Other(hIn)] = <<Start>> \o hyp

(* The decoder takes at most MaxSame + 1 tokens for each frame it has left *)
(* behind, and at most MaxSame for the one it is on, however the network   *)
(* answers: the forced advance bounds the loop and the text.               *)
BoundedTokens == Len(hyp) <= (MaxSame + 1) * t + same

(* The places in s, up to the i-th, of tokens the vocabulary has text for. *)
Known(s, i) == {j \in 1 .. i : s[j] < VocabSize}

(* The text buffer always has room for the terminating NUL, and the text   *)
(* is the tokens taken that the vocabulary knows, in order: the i-th token *)
(* taken, if known, is written behind the known ones before it.            *)
TextFits ==
  /\ len < cap
  /\ Len(text) = Cardinality(Known(hyp, Len(hyp)))
  /\ \A i \in Known(hyp, Len(hyp)) : text[Cardinality(Known(hyp, i))] = hyp[i]

(* On every path to the return, early or late, the function has released   *)
(* all it obtained but the string it returns and at most one thing more,   *)
(* each lost on a path of its own: the shape info of the encoder's output, *)
(* when its dimensions cannot be read (vaani_decode.c:70), or, before any  *)
(* token, the status of a failed call for the size of the logits (:191 the *)
(* one, :193 the other).                                                   *)
Forgotten == {"enc_out_info", "shape_status", "count_status"}
NothingElseLeaks ==
  pc = "done" =>
    /\ held \subseteq {"result_str"} \cup Forgotten
    /\ \A x, y \in held \cap Forgotten : x = y
    /\ "enc_out_info" \in held => step = 7
    /\ held \cap {"shape_status", "count_status"} # {} => ~counted /\ hyp = <<>>
    /\ result \in {"complete", "partial"} <=> "result_str" \in held

(* The decoder performs the greedy search of Transducer: the network is    *)
(* always asked about the right frame in the context of exactly the tokens *)
(* found so far.                                                           *)
Abstract == INSTANCE Transducer
              WITH pos <- t, here <- same, PerFrame <- MaxSame + 1
ImplementsTransducer == Abstract!Spec

(* The function returns: no answers of the network keep it in the loop.    *)
Returns == <>(pc = "done")
=============================================================================
