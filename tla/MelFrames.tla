------------------------------- MODULE MelFrames -------------------------------
(***************************************************************************)
(* The index arithmetic of mel_processor_extract (src/src/mel.c): half a   *)
(* window of reflected samples on either side of the audio, and windows    *)
(* that advance by a hop.  The numbers themselves (window, power spectrum, *)
(* filters, normalisation) are floating point and left out: an array is    *)
(* the samples its entries are copied from.                                *)
(***************************************************************************)
EXTENDS Integers

(* int arithmetic: / truncates towards zero, which for the code's operands *)
(* is \div as long as the dividend is not negative.                        *)
Pad(win) == win \div 2
PaddedLength(num, win) == num + 2 * Pad(win)
NumFrames(num, win, hop) == (PaddedLength(num, win) - win) \div hop + 1

Lesser(a, b)  == IF a < b THEN a ELSE b
Greater(a, b) == IF a > b THEN a ELSE b

(* The i-th sample of each margin, clamped when the audio is shorter than  *)
(* the margin.                                                             *)
LeftSource(num, i) == Lesser(i + 1, num - 1)
MutantRightSource(num, i) == Greater(num - 1 - i, 0)
RightSource(num, i) == Greater(num - 2 - i, 0)

(* padded[p] is a copy of this sample.                                     *)
PaddedSource(num, win, p) ==
  IF p < Pad(win) THEN LeftSource(num, Pad(win) - 1 - p)
  ELSE IF p < Pad(win) + num THEN p - Pad(win)
  ELSE RightSource(num, p - num - Pad(win))

(* Frame f reads padded[start + j] for every j of the window.              *)
Reads(win, hop, f) == f * hop .. f * hop + win - 1

-----------------------------------------------------------------------------
(* Every entry of the padded buffer a frame reads exists and is a copy of  *)
(* a sample of the audio, however short the audio is.                      *)
ReadsInBounds(num, win, hop) ==
  \A f \in 0 .. NumFrames(num, win, hop) - 1 : \A p \in Reads(win, hop, f) :
    /\ p \in 0 .. PaddedLength(num, win) - 1
    /\ PaddedSource(num, win, p) \in 0 .. num - 1

(* Audio longer than the margin is reflected: entry p and its mirror image *)
(* in the first, or in the last, sample are the same.                      *)
Reflected(num, win) ==
  num > Pad(win) =>
    \A i \in 1 .. Pad(win) :
      LET first == Pad(win)  last == Pad(win) + num - 1
      IN  /\ PaddedSource(num, win, first - i) = PaddedSource(num, win, first + i)
          /\ PaddedSource(num, win, last + i) = PaddedSource(num, win, last - i)
=============================================================================
