---------------------------------- MODULE Fft ----------------------------------
(***************************************************************************)
(* compute_fft (src/src/compute_fft.c): the radix-2 transform, in place.   *)
(*                                                                         *)
(* The algorithm only adds, subtracts and multiplies, and of the complex   *)
(* root exp(-2 pi i / n) it uses nothing but that its power n / 2 is -1.   *)
(* So it is followed exactly where there is such a root: in the integers   *)
(* modulo Prime, with Root of order MaxN.  A buffer is a function on       *)
(* 0 .. n-1, as in the code.                                               *)
(***************************************************************************)
EXTENDS Integers

CONSTANTS Prime, Root, MaxN

Power(b, e) == LET p[k \in 0 .. e] == IF k = 0 THEN 1 ELSE (p[k - 1] * b) % Prime
               IN  p[e]

(* The length after e doublings, and the test at the start.                *)
TwoTo(e) == LET d[k \in 0 .. e] == IF k = 0 THEN 1 ELSE 2 * d[k - 1] IN d[e]
IsPowerOfTwo(n) == \E e \in 0 .. n : TwoTo(e) = n

ASSUME FftAssumption ==
  /\ Prime \in Nat /\ Prime > 1 /\ Root \in Nat
  /\ MaxN \in Nat /\ IsPowerOfTwo(MaxN)
  /\ MaxN > 1 => Power(Root, MaxN \div 2) = Prime - 1

(* The n-th root, n a power of two up to MaxN.                             *)
RootOf(n) == Power(Root, MaxN \div n)

(* The counter j runs bit-reversed beside i: the carry goes to the right.  *)
Carry(s) == IF s.bit > 0 /\ (s.j \div s.bit) % 2 = 1
              THEN [j |-> s.j - s.bit, bit |-> s.bit \div 2] ELSE s
NextReversed(j, n) ==
  LET round[r \in 0 .. n] ==
        IF r = 0 THEN [j |-> j, bit |-> n \div 2] ELSE Carry(round[r - 1])
  IN  round[n].j + round[n].bit

Swap(x, i, j) == [x EXCEPT ![i] = x[j], ![j] = x[i]]

(* The first loop: for each i the counter moves on, and a pair is swapped  *)
(* when it is met from its lower end.                                      *)
MutantPermute(s, i, n) ==
  LET j == NextReversed(s.j, n) IN [j |-> j, x |-> Swap(s.x, i, j)]
Permute(s, i, n) ==
  LET j == NextReversed(s.j, n)
  IN  [j |-> j, x |-> IF i < j THEN Swap(s.x, i, j) ELSE s.x]
Permuted(x, n) ==
  LET loop[i \in 0 .. n - 1] ==
        IF i = 0 THEN [j |-> 0, x |-> x] ELSE Permute(loop[i - 1], i, n)
  IN  loop[n - 1].x

(* The butterflies of one stage, blocks of length len: they touch disjoint *)
(* pairs, so that their order does not matter.                             *)
Butterflies(x, n, len) ==
  LET half == len \div 2
  IN  [k \in 0 .. n - 1 |->
         LET j == k % len
             w == Power(RootOf(len), j % half)
         IN  IF j < half THEN (x[k] + x[k + half] * w) % Prime
                         ELSE (x[k - half] - x[k] * w) % Prime]

(* The stages double their length.  A length that is no power of two is    *)
(* refused, and the buffer left as it is.                                  *)
Staged(x, n, last) ==
  LET stage[e \in 0 .. last] ==
        IF e = 0 THEN Permuted(x, n) ELSE Butterflies(stage[e - 1], n, TwoTo(e))
  IN  stage[last]
Transform(x, n) ==
  IF IsPowerOfTwo(n) THEN Staged(x, n, CHOOSE e \in 0 .. n : TwoTo(e) = n) ELSE x

(* What it is to compute: output k is the sum of x[t] * root^(k*t).        *)
Total(f, n) ==
  LET sum[k \in 0 .. n] == IF k = 0 THEN 0 ELSE (sum[k - 1] + f[k - 1]) % Prime
  IN  sum[n]
Dft(x, n) ==
  [k \in 0 .. n - 1 |->
     Total([t \in 0 .. n - 1 |-> x[t] * Power(RootOf(n), k * t)], n)]
=============================================================================
