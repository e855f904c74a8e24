----------------------------- MODULE MCAlgorithms -----------------------------
(***************************************************************************)
(* The pure functions of the native side on every small input: a behaviour *)
(* picks a function and an input for it, and the properties compare what   *)
(* the function makes of the input with its reference definition.          *)
(***************************************************************************)
EXTENDS Fft, MelFrames, Text

CONSTANTS
  Lengths,     \* bound: the lengths of buffers to transform
  MaxAudio,    \* bound: the longest audio for features, in samples
  Windows, Hops,
  MaxText,     \* bound: the longest string
  MaxTokens    \* bound: the most lines of a vocabulary

(* As in the code: the window and the hop are not empty.  The root of Fft  *)
(* serves buffers up to MaxN.                                              *)
ASSUME InputAssumption ==
  /\ Lengths \subseteq 0 .. MaxN
  /\ {MaxAudio, MaxText, MaxTokens} \subseteq Nat
  /\ {Windows, Hops} \subseteq SUBSET (Nat \ {0})

VARIABLE input
None == [of |-> "none"]

Init == input = None

Transforms ==
  /\ input = None
  /\ \E n \in Lengths : \E x \in [0 .. n - 1 -> {0, 1}] :
       input' = [of |-> "fft", x |-> x, n |-> n]

Extracts ==
  /\ input = None
  /\ \E num \in 1 .. MaxAudio, win \in Windows, hop \in Hops :
       input' = [of |-> "mel", num |-> num, win |-> win, hop |-> hop]

Strings(n) == UNION {[1 .. k -> Letters \cup {Space, Marker}] : k \in 0 .. n}
Normalizes ==
  /\ input = None
  /\ \E str \in Strings(MaxText) : input' = [of |-> "text", str |-> str]

(* A token may hold a space itself; lines may be longer than the buffer.   *)
Loads ==
  /\ input = None
  /\ \E k \in 0 .. MaxTokens : \E tokens \in [1 .. k -> Strings(2)] :
     \E ending \in {<<Newline>>, <<Return, Newline>>}, number \in Letters :
       input' = [of |-> "vocab", tokens |-> tokens,
                 number |-> number, ending |-> ending]

Next == Transforms \/ Extracts \/ Normalizes \/ Loads
Spec == Init /\ [][Next]_input

-----------------------------------------------------------------------------
(* compute_fft computes the discrete Fourier transform, for every power of *)
(* two; other buffers it leaves alone.                                     *)
FftIsTransform ==
  input.of = "fft" =>
    Transform(input.x, input.n) =
      IF IsPowerOfTwo(input.n) THEN Dft(input.x, input.n) ELSE input.x

(* The frames of mel_processor_extract read nothing but copies of samples  *)
(* of the audio, which is mirrored at both ends.                           *)
FramesReadTheAudio ==
  input.of = "mel" =>
    /\ ReadsInBounds(input.num, input.win, input.hop)
    /\ Reflected(input.num, input.win)

(* normalize_whitespace leaves the words of a string, in order, separated  *)
(* by one space.                                                           *)
NormalizedIsWords ==
  input.of = "text" => Normalized(input.str) = Joined(Words(input.str))

(* load_vocab finds the tokens of a vocabulary file, each at its number,   *)
(* as long as its lines fit the buffer (LinesFit).                         *)
LinesFit ==
  \A i \in DOMAIN input.tokens :
    Len(VocabLine(input.tokens[i], input.number, input.ending)) < LineBuffer
VocabIsTokens ==
  input.of = "vocab" /\ LinesFit =>
    LoadVocab(VocabFile(input.tokens, input.number, input.ending))
      = input.tokens
=============================================================================
