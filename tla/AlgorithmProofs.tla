--------------------------- MODULE AlgorithmProofs ---------------------------
(***************************************************************************)
(* Proofs about the pure functions of MCAlgorithms, for input of any       *)
(* length: the two functions of Text, the frames of MelFrames, and Fft.    *)
(***************************************************************************)
EXTENDS MCAlgorithms, FiniteSetTheorems, SequenceTheorems,
        WellFoundedInduction, TLAPS

-----------------------------------------------------------------------------
(* Induction and recursion.  The library's induction theorems have an      *)
(* operator for what is to be shown; here it is the set of numbers for     *)
(* which it has been shown.                                                *)

(* A set of natural numbers has a least element,                           *)
LEMMA LeastElement ==
  ASSUME NEW T, T \subseteq Nat, T # {}
  PROVE  \E x \in T : \A y \in T : x <= y
<1> DEFINE R == OpToRel(<, Nat)
<1>1. IsWellFoundedOn(R, Nat)
  BY NatLessThanWellFounded
<1>2. \A x, y \in Nat : y < x => <<y, x>> \in R
  BY DEF OpToRel
<1> HIDE DEF R
<1>3. PICK x \in T : \A y \in T : <<y, x>> \notin R
  BY <1>1, WFMin
<1>4. ASSUME NEW y \in T PROVE x <= y
  <2>1. x \in Nat /\ y \in Nat
    OBVIOUS
  <2>2. ~(y < x)
    BY <1>2, <1>3, <1>4, <2>1
  <2> QED
    BY <2>1, <2>2
<1> QED
  BY <1>4

(* and a greatest one if there is a bound to it.                           *)
LEMMA GreatestElement ==
  ASSUME NEW n \in Nat, NEW T, T \subseteq 0 .. n, T # {}
  PROVE  \E x \in T : \A y \in T : y <= x
<1> DEFINE U == {y \in Nat : \E x \in T : y = n - x}
<1>1. U \subseteq Nat /\ U # {}
  <2>1. PICK x \in T : x \in 0 .. n
    OBVIOUS
  <2>2. n - x \in Nat
    BY <2>1
  <2>3. n - x \in U
    BY <2>1, <2>2
  <2> QED
    BY <2>3
<1>2. PICK u \in U : \A y \in U : u <= y
  BY <1>1, LeastElement
<1>3. PICK x \in T : u = n - x
  BY <1>2
<1>4. ASSUME NEW y \in T PROVE y <= x
  <2>1. PICK k \in Nat : k = n - y
    BY <1>4
  <2>2. u <= k
    BY <1>2, <1>4, <2>1
  <2> QED
    BY <1>3, <1>4, <2>1, <2>2
<1> QED
  BY <1>3, <1>4

(* Induction from a number on.                                             *)
LEMMA Induction ==
  ASSUME NEW m \in Nat, NEW T, m \in T,
         \A n \in Nat : n >= m /\ n \in T => n + 1 \in T
  PROVE  \A n \in Nat : n >= m => n \in T
<1> DEFINE U == {n \in Nat : n >= m /\ n \notin T}
<1> SUFFICES ASSUME U # {} PROVE FALSE
  OBVIOUS
<1>1. PICK x \in U : \A y \in U : x <= y
  BY LeastElement
<1>2. x \in Nat /\ x > m
  BY <1>1
<1>3. PICK y \in Nat : y = x - 1
  BY <1>2
<1>4. y >= m /\ y + 1 = x /\ y \in T
  BY <1>1, <1>2, <1>3
<1> QED
  BY <1>1, <1>4

(* A function can be defined by its first value and by what each of the    *)
(* others is made of: the one before it.                                   *)
Recursive(m, k, S, base, F) ==
  {g \in [m .. k -> S] : /\ g[m] = base
                         /\ \A i \in m .. k : i # m => g[i] = F[<<g[i - 1], i>>]}
LEMMA Recursion ==
  ASSUME NEW m \in Nat, NEW k \in Nat, m <= k, NEW S, NEW base \in S,
         NEW F \in [S \X (m .. k) -> S]
  PROVE  Recursive(m, k, S, base, F) # {}
<1> DEFINE T == {n \in Nat : n <= k => Recursive(m, n, S, base, F) # {}}
<1>1. m \in T
  <2> DEFINE g == [i \in m .. m |-> base]
  <2>1. g \in [m .. m -> S] /\ g[m] = base
    OBVIOUS
  <2>2. \A i \in m .. m : i # m => g[i] = F[<<g[i - 1], i>>]
    OBVIOUS
  <2> HIDE DEF g
  <2> QED
    BY <2>1, <2>2 DEF Recursive
<1>2. ASSUME NEW n \in Nat, n >= m, n \in T PROVE n + 1 \in T
  <2>1. PICK p \in Nat : p = n + 1
    OBVIOUS
  <2> SUFFICES ASSUME p <= k PROVE Recursive(m, p, S, base, F) # {}
    BY <2>1
  <2>2. PICK g \in [m .. n -> S] :
          /\ g[m] = base
          /\ \A i \in m .. n : i # m => g[i] = F[<<g[i - 1], i>>]
    BY <1>2, <2>1 DEF Recursive
  <2> DEFINE h == [i \in m .. p |-> IF i = p THEN F[<<g[n], p>>] ELSE g[i]]
  <2>3. p \in m .. k /\ n \in m .. n
    BY <1>2, <2>1
  <2>4. F[<<g[n], p>>] \in S
    BY <2>3
  <2>5. \A i \in m .. p : i # p => i \in m .. n
    BY <1>2, <2>1
  <2>6. h \in [m .. p -> S]
    BY <2>4, <2>5
  <2>7. h[m] = base
    BY <1>2, <2>1, <2>2
  <2>8. ASSUME NEW i \in m .. p, i # m PROVE h[i] = F[<<h[i - 1], i>>]
    <3>1. i - 1 \in m .. p /\ i - 1 # p /\ i \in m .. p
      BY <2>8, <2>1, <1>2
    <3>2. h[i - 1] = g[i - 1]
      BY <3>1
    <3>3. CASE i = p
      <4>1. i - 1 = n
        BY <2>1, <3>3
      <4> QED
        BY <3>1, <3>2, <3>3, <4>1
    <3>4. CASE i # p
      <4>1. i \in m .. n /\ i # m
        BY <2>1, <2>8, <3>4
      <4> QED
        BY <2>2, <3>1, <3>2, <3>4, <4>1
    <3> QED
      BY <3>3, <3>4
  <2> HIDE DEF h
  <2> QED
    BY <2>6, <2>7, <2>8 DEF Recursive
<1> HIDE DEF T
<1>3. k \in T
  BY <1>1, <1>2, Induction
<1> QED
  BY <1>3 DEF T

(* Two functions that start alike and go on alike are alike.               *)
GoAlike(m, k, g, h) ==
  /\ g[m] = h[m]
  /\ \A i \in m .. k : i # m => (g[i - 1] = h[i - 1] => g[i] = h[i])
LEMMA SameRecursion ==
  ASSUME NEW m \in Nat, NEW k \in Nat, NEW g, NEW h, GoAlike(m, k, g, h)
  PROVE  \A i \in m .. k : g[i] = h[i]
<1> DEFINE T == {i \in Nat : i <= k => g[i] = h[i]}
<1>1. m \in T
  BY DEF GoAlike
<1>2. ASSUME NEW n \in Nat, n >= m, n \in T PROVE n + 1 \in T
  <2>1. PICK p \in Nat : p = n + 1
    OBVIOUS
  <2>2. p <= k => p \in m .. k /\ p # m /\ p - 1 = n
    BY <1>2, <2>1
  <2> QED
    BY <1>2, <2>1, <2>2 DEF GoAlike
<1> HIDE DEF T
<1>3. \A n \in Nat : n >= m => n \in T
  BY <1>1, <1>2, Induction
<1> QED
  BY <1>3 DEF T

-----------------------------------------------------------------------------
(* Flattening a sequence of sequences.                                     *)

(* FlattenSeq concatenates from the left.                                  *)
LEMMA Flattening ==
  ASSUME NEW S, NEW ps \in Seq(Seq(S)), ps # <<>>
  PROVE  \E f \in [1 .. Len(ps) -> Seq(S)] :
           /\ f[1] = ps[1]
           /\ \A i \in 1 .. Len(ps) : i # 1 => f[i] = f[i - 1] \o ps[i]
           /\ FlattenSeq(ps) = f[Len(ps)]
<1>1. PICK n \in Nat : n = Len(ps)
  OBVIOUS
<1>2. PICK m \in Nat : m = 1
  OBVIOUS
<1>3. m <= n /\ \A i \in m .. n : ps[i] \in Seq(S)
  BY <1>1, <1>2
<1> DEFINE Part(f, i) == IF i = 1 THEN ps[i] ELSE f[i - 1] \o ps[i]
           G == CHOOSE f : f = [i \in 1 .. n |-> Part(f, i)]
           F == [x \in Seq(S) \X (m .. n) |-> x[1] \o ps[x[2]]]
<1>4. FlattenSeq(ps) = G[n]
  BY <1>1 DEF FlattenSeq
<1>5. F \in [Seq(S) \X (m .. n) -> Seq(S)]
  BY <1>3
<1>6. \A a \in Seq(S), i \in m .. n : F[<<a, i>>] = a \o ps[i]
  OBVIOUS
<1> HIDE DEF F
<1>7. PICK base \in Seq(S) : base = ps[m]
  BY <1>2, <1>3
<1>8. PICK g \in [m .. n -> Seq(S)] :
        g[m] = base /\ \A i \in m .. n : i # m => g[i] = F[<<g[i - 1], i>>]
  <2>1. Recursive(m, n, Seq(S), base, F) # {}
    BY <1>3, <1>5, <1>7, Recursion
  <2> QED
    BY <2>1 DEF Recursive
<1>9. \A i \in m .. n : i # m => g[i] = g[i - 1] \o ps[i]
  <2> SUFFICES ASSUME NEW i \in m .. n, i # m PROVE g[i] = g[i - 1] \o ps[i]
    OBVIOUS
  <2>1. i - 1 \in m .. n
    BY <1>3
  <2>2. g[i - 1] \in Seq(S)
    BY <1>8, <2>1
  <2> QED
    BY <1>6, <1>8, <2>2
<1>10. \A i \in 1 .. n : g[i] = Part(g, i)
  BY <1>2, <1>7, <1>8, <1>9
<1> HIDE DEF Part
<1>11. g = [i \in 1 .. n |-> Part(g, i)]
  BY <1>2, <1>8, <1>10
<1>12. G = [i \in 1 .. n |-> Part(G, i)]
  BY <1>11
<1> HIDE DEF G
<1>13. \A i \in m .. n : G[i] = Part(G, i)
  <2> SUFFICES ASSUME NEW i \in 1 .. n PROVE G[i] = Part(G, i)
    BY <1>2
  <2> QED
    BY <1>12, Zenon
<1>14. \A i \in m .. n : G[i] = g[i]
  <2>1. G[m] = g[m]
    <3>1. m \in m .. n
      BY <1>3
    <3>2. G[m] = ps[m]
      BY <1>2, <1>13, <3>1 DEF Part
    <3> QED
      BY <1>7, <1>8, <3>2
  <2>2. ASSUME NEW i \in m .. n, i # m, G[i - 1] = g[i - 1] PROVE G[i] = g[i]
    <3>1. i # 1 /\ G[i] = G[i - 1] \o ps[i]
      BY <1>2, <1>13, <2>2 DEF Part
    <3>2. g[i] = g[i - 1] \o ps[i]
      BY <1>9, <2>2
    <3> QED
      BY <2>2, <3>1, <3>2
  <2>3. GoAlike(m, n, G, g)
    BY <2>1, <2>2 DEF GoAlike
  <2> QED
    BY <2>3, SameRecursion
<1>15. g[1] = ps[1] /\ FlattenSeq(ps) = g[Len(ps)]
  BY <1>1, <1>2, <1>3, <1>4, <1>7, <1>8, <1>14
<1>16. g \in [1 .. Len(ps) -> Seq(S)]
  BY <1>1, <1>2
<1>17. \A i \in 1 .. Len(ps) : i # 1 => g[i] = g[i - 1] \o ps[i]
  BY <1>1, <1>2, <1>9
<1> QED
  BY <1>15, <1>16, <1>17

(* One sequence more is appended.                                          *)
LEMMA FlattenAppend ==
  ASSUME NEW S, NEW ps \in Seq(Seq(S)), NEW p \in Seq(S)
  PROVE  /\ FlattenSeq(ps) \in Seq(S)
         /\ FlattenSeq(Append(ps, p)) = FlattenSeq(ps) \o p
         /\ FlattenSeq(<<>>) = <<>>
<1>1. FlattenSeq(<<>>) = <<>>
  BY DEF FlattenSeq
<1>2. PICK qs \in Seq(Seq(S)) : qs = Append(ps, p)
  BY AppendProperties, Zenon
<1>3. PICK n \in Nat : n = Len(ps)
  OBVIOUS
<1>4. PICK l \in Nat : l = n + 1
  OBVIOUS
<1>5. qs # <<>> /\ Len(qs) = l /\ qs[l] = p /\ \A i \in 1 .. n : qs[i] = ps[i]
  BY <1>2, <1>3, <1>4
<1>6. PICK h :
        /\ h[1] = qs[1]
        /\ \A i \in 1 .. l : i # 1 => h[i] = h[i - 1] \o qs[i]
        /\ FlattenSeq(qs) = h[l]
  <2>1. qs \in Seq(Seq(S)) /\ qs # <<>>
    BY <1>5
  <2>2. \E h \in [1 .. Len(qs) -> Seq(S)] :
          /\ h[1] = qs[1]
          /\ \A i \in 1 .. Len(qs) : i # 1 => h[i] = h[i - 1] \o qs[i]
          /\ FlattenSeq(qs) = h[Len(qs)]
    BY ONLY <2>1, Flattening
  <2> QED
    BY <1>5, <2>2
<1>7. CASE ps = <<>>
  <2>1. n = 0 /\ l = 1
    BY <1>3, <1>4, <1>7
  <2>2. FlattenSeq(qs) = p
    BY <1>5, <1>6, <2>1
  <2>3. <<>> \o p = p /\ <<>> \in Seq(S)
    BY ConcatEmptySeq
  <2> QED
    BY <1>1, <1>2, <1>7, <2>2, <2>3
<1>8. CASE ps # <<>>
  <2>1. n >= 1
    BY <1>3, <1>8
  <2>2. PICK f :
          /\ f \in [1 .. n -> Seq(S)]
          /\ f[1] = ps[1]
          /\ \A i \in 1 .. n : i # 1 => f[i] = f[i - 1] \o ps[i]
          /\ FlattenSeq(ps) = f[n]
    <3>1. \E f \in [1 .. Len(ps) -> Seq(S)] :
            /\ f[1] = ps[1]
            /\ \A i \in 1 .. Len(ps) : i # 1 => f[i] = f[i - 1] \o ps[i]
            /\ FlattenSeq(ps) = f[Len(ps)]
      BY <1>8, Flattening
    <3> QED
      BY <1>3, <3>1
  <2>3. PICK m \in Nat : m = 1
    OBVIOUS
  <2>4. h[m] = f[m]
    BY <1>5, <1>6, <2>1, <2>2, <2>3
  <2>5. \A i \in m .. n : i # m /\ h[i - 1] = f[i - 1] => h[i] = f[i]
    <3> SUFFICES ASSUME NEW i \in m .. n, i # m, h[i - 1] = f[i - 1]
                 PROVE  h[i] = f[i]
      OBVIOUS
    <3>1. i \in 1 .. n /\ i \in 1 .. l /\ i # 1
      BY <1>4, <2>3
    <3>2. h[i] = h[i - 1] \o qs[i] /\ f[i] = f[i - 1] \o ps[i]
      BY <1>6, <2>2, <3>1
    <3> QED
      BY <1>5, <3>1, <3>2
  <2>6. \A i \in m .. n : h[i] = f[i]
    <3>1. GoAlike(m, n, h, f)
      BY <2>4, <2>5 DEF GoAlike
    <3>2. m \in Nat /\ n \in Nat
      OBVIOUS
    <3> QED
      BY ONLY <3>1, <3>2, SameRecursion
  <2>7. h[n] = f[n]
    BY <2>1, <2>3, <2>6
  <2>8. l \in 1 .. l /\ l # 1 /\ l - 1 = n
    BY <1>4, <2>1
  <2>9. h[l] = h[n] \o p
    BY <1>5, <1>6, <2>8
  <2>10. f[n] \in Seq(S)
    BY <2>1, <2>2
  <2> QED
    BY <1>1, <1>2, <1>6, <2>2, <2>7, <2>9, <2>10
<1> QED
  BY <1>7, <1>8

(* What is appended to a sequence is its last element.                     *)
LEMMA Appended ==
  ASSUME NEW C, NEW s \in Seq(C), NEW c \in C
  PROVE  /\ Append(s, c) \in Seq(C) /\ Append(s, c) # <<>>
         /\ Last(Append(s, c)) = c /\ Front(Append(s, c)) = s
<1>1. PICK t \in Seq(C) : t = Append(s, c)
  BY AppendProperties, Zenon
<1>2. PICK n \in Nat : n = Len(s)
  OBVIOUS
<1>3. t # <<>> /\ Last(t) = c /\ Len(t) - 1 = n /\ \A i \in 1 .. n : t[i] = s[i]
  BY <1>1, <1>2 DEF Last
<1>4. \A i \in 1 .. n : t[i] \in C
  BY <1>2, <1>3
<1>5. PICK u \in Seq(C) : u = SubSeq(t, 1, n)
  <2>1. SubSeq(t, 1, n) \in Seq(C)
    BY <1>4, SubSeqProperties
  <2> QED
    BY <2>1
<1>6. Len(u) = n /\ \A i \in 1 .. n : u[i] = s[i]
  BY <1>1, <1>2, <1>5
<1>7. u = s
  BY <1>2, <1>6, SeqEqual
<1> QED
  BY <1>1, <1>3, <1>5, <1>7 DEF Front

(* Sequences are the functions on the numbers up to their length.          *)
LEMMA FunctionIsSeq ==
  ASSUME NEW S, NEW n \in Nat, NEW f, f \in [1 .. n -> S]
  PROVE  f \in Seq(S) /\ Len(f) = n
OBVIOUS

(* One word more is joined with a space before it, unless it is the first. *)
JoinsOn(C, ws, w) ==
  /\ Joined(<<>>) = <<>> /\ Joined(ws) \in Seq(C)
  /\ Joined(Append(ws, w)) =
       IF ws = <<>> THEN w ELSE Joined(ws) \o (<<Space>> \o w)
LEMMA JoinedAppend ==
  ASSUME NEW C, Space \in C, NEW ws \in Seq(Seq(C)), NEW w \in Seq(C)
  PROVE  JoinsOn(C, ws, w)
<1> DEFINE Part(i, u) == IF i = 1 THEN u ELSE <<Space>> \o u
           Parts(us) == [i \in DOMAIN us |-> Part(i, us[i])]
<1>1. \A us : Joined(us) = FlattenSeq(Parts(us))
  BY DEF Joined
<1>2. \A i \in Nat, u \in Seq(C) : Part(i, u) \in Seq(C)
  OBVIOUS
<1>3. PICK n \in Nat : n = Len(ws)
  OBVIOUS
<1>4. PICK l \in Nat : l = n + 1
  OBVIOUS
<1>5. PICK p \in Seq(C) : p = Part(l, w)
  BY <1>2
<1>6. PICK ps \in Seq(Seq(C)) : ps = Parts(ws)
  <2>1. \A i \in 1 .. n : Part(i, ws[i]) \in Seq(C)
    BY <1>2, <1>3
  <2> HIDE DEF Part
  <2>2. Parts(ws) = [i \in 1 .. n |-> Part(i, ws[i])]
    BY <1>3
  <2> HIDE DEF Parts
  <2>3. Parts(ws) \in [1 .. n -> Seq(C)]
    BY <2>1, <2>2
  <2>4. Parts(ws) \in Seq(Seq(C))
    BY <2>3, FunctionIsSeq
  <2> QED
    BY <2>4
<1> HIDE DEF Part
<1>7. Parts(Append(ws, w)) = Append(ps, p)
  <2>1. PICK us \in Seq(Seq(C)) : us = Append(ws, w)
    BY AppendProperties, Zenon
  <2>2. Len(us) = l /\ us[l] = w /\ \A i \in 1 .. n : us[i] = ws[i]
    BY <1>3, <1>4, <2>1
  <2>3. PICK qs \in Seq(Seq(C)) : qs = Append(ps, p)
    BY AppendProperties, Zenon
  <2>4. Len(ps) = n /\ \A i \in 1 .. n : ps[i] = Part(i, ws[i])
    BY <1>3, <1>6
  <2>5. Len(qs) = l /\ qs[l] = p /\ \A i \in 1 .. n : qs[i] = ps[i]
    BY <1>4, <2>3, <2>4
  <2>6. \A i \in 1 .. l : qs[i] = Part(i, us[i])
    <3> SUFFICES ASSUME NEW i \in 1 .. l PROVE qs[i] = Part(i, us[i])
      OBVIOUS
    <3>1. i = l \/ i \in 1 .. n
      BY <1>4
    <3> QED
      BY <1>5, <2>2, <2>4, <2>5, <3>1
  <2>7. qs = [i \in 1 .. l |-> Part(i, us[i])]
    BY <2>5, <2>6
  <2>8. DOMAIN us = 1 .. l
    BY <2>2
  <2> QED
    BY <2>1, <2>3, <2>7, <2>8
<1>8. Parts(<<>>) = <<>>
  OBVIOUS
<1> HIDE DEF Parts
<1>9. /\ FlattenSeq(ps) \in Seq(C)
      /\ FlattenSeq(Append(ps, p)) = FlattenSeq(ps) \o p
      /\ FlattenSeq(<<>>) = <<>>
  BY ONLY <1>5, <1>6, FlattenAppend
<1>10. Joined(<<>>) = <<>> /\ Joined(ws) \in Seq(C)
  BY <1>1, <1>6, <1>8, <1>9
<1>11. Joined(Append(ws, w)) = Joined(ws) \o p
  BY <1>1, <1>6, <1>7, <1>9
<1>12. CASE ws = <<>>
  <2>1. l = 1 /\ p = w
    BY <1>3, <1>4, <1>5, <1>12 DEF Part
  <2>2. <<>> \o w = w
    OBVIOUS
  <2> QED
    BY <1>10, <1>11, <1>12, <2>1, <2>2 DEF JoinsOn
<1>13. CASE ws # <<>>
  <2>1. l # 1
    BY <1>3, <1>4, <1>13
  <2> QED
    BY <1>5, <1>10, <1>11, <1>13, <2>1 DEF Part, JoinsOn
<1> QED
  BY <1>12, <1>13

-----------------------------------------------------------------------------
(* Words.                                                                  *)

(* A string after which a word would begin.                                *)
EndsBlank(s) == s = <<>> \/ Blank(s[Len(s)])

(* As many words have begun up to a place as up to the end, or fewer.      *)
LEMMA Beginnings ==
  ASSUME NEW C, NEW s \in Seq(C)
  PROVE  /\ Len(s) \in Nat /\ DOMAIN s = 1 .. Len(s)
         /\ Begins(s) \subseteq 1 .. Len(s)
         /\ IsFiniteSet(Begins(s)) /\ Cardinality(Begins(s)) \in Nat
         /\ \A p \in Nat : /\ Nth(s, p) \in 0 .. Cardinality(Begins(s))
                           /\ p >= Len(s) => Nth(s, p) = Cardinality(Begins(s))
<1>1. Len(s) \in Nat /\ DOMAIN s = 1 .. Len(s) /\ Begins(s) \subseteq 1 .. Len(s)
  BY DEF Begins
<1>2. IsFiniteSet(1 .. Len(s))
  BY <1>1, FS_Interval
<1>3. IsFiniteSet(Begins(s)) /\ Cardinality(Begins(s)) \in Nat
  BY <1>1, <1>2, FS_Subset, FS_CardinalityType
<1>4. ASSUME NEW p \in Nat
      PROVE  /\ Nth(s, p) \in 0 .. Cardinality(Begins(s))
             /\ p >= Len(s) => Nth(s, p) = Cardinality(Begins(s))
  <2> DEFINE upto == {a \in Begins(s) : a <= p}
  <2>1. upto \subseteq Begins(s)
    OBVIOUS
  <2>2. p >= Len(s) => upto = Begins(s)
    BY <1>1
  <2>3. Nth(s, p) = Cardinality(upto)
    BY DEF Nth
  <2> HIDE DEF upto
  <2>4. IsFiniteSet(upto) /\ Cardinality(upto) \in Nat
          /\ Cardinality(upto) <= Cardinality(Begins(s))
    BY <1>3, <2>1, FS_Subset, FS_CardinalityType
  <2> QED
    BY <1>3, <2>2, <2>3, <2>4
<1> QED
  BY <1>1, <1>3, <1>4

(* One character more begins a word if it is not blank and follows a blank *)
(* or nothing; if not blank, it belongs to the last word.                  *)
OneMore(C, s, c, t, l) ==
  /\ s \in Seq(C) /\ c \in C /\ t \in Seq(C) /\ l \in Nat
  /\ t = Append(s, c) /\ l = Len(s) + 1
MoreBegun(s, c, t, l) ==
  /\ Len(t) = l /\ t[l] = c /\ \A p \in 1 .. Len(s) : t[p] = s[p]
  /\ IF ~Blank(c) /\ EndsBlank(s)
     THEN Cardinality(Begins(t)) = Cardinality(Begins(s)) + 1
     ELSE Cardinality(Begins(t)) = Cardinality(Begins(s))
  /\ \A p \in 1 .. Len(s) : Nth(t, p) = Nth(s, p)
  /\ Nth(t, l) = Cardinality(Begins(t))
  /\ \A i : Word(t, i) = IF ~Blank(c) /\ i = Cardinality(Begins(t))
                         THEN Word(s, i) \cup {l} ELSE Word(s, i)
LEMMA MoreBeginnings ==
  ASSUME NEW C, NEW s, NEW c, NEW t, NEW l, OneMore(C, s, c, t, l)
  PROVE  MoreBegun(s, c, t, l)
<1>0. /\ s \in Seq(C) /\ c \in C /\ t \in Seq(C) /\ l \in Nat
      /\ t = Append(s, c) /\ l = Len(s) + 1
  BY DEF OneMore
<1> USE <1>0
<1>1. Len(t) = l /\ t[l] = c /\ \A p \in 1 .. Len(s) : t[p] = s[p]
  BY <1>0
<1>2. /\ Len(s) \in Nat /\ DOMAIN s = 1 .. Len(s) /\ DOMAIN t = 1 .. l
      /\ Begins(s) \subseteq 1 .. Len(s) /\ IsFiniteSet(Begins(s))
      /\ Cardinality(Begins(s)) \in Nat
  <2>1. Len(s) \in Nat /\ DOMAIN s = 1 .. Len(s) /\ Begins(s) \subseteq 1 .. Len(s)
          /\ IsFiniteSet(Begins(s)) /\ Cardinality(Begins(s)) \in Nat
    BY <1>0, Beginnings
  <2> QED
    BY <1>1, <2>1
<1>3. \A a \in 1 .. Len(s) : a \in 1 .. l /\ (a \in Begins(t) <=> a \in Begins(s))
  <2> SUFFICES ASSUME NEW a \in 1 .. Len(s)
               PROVE  a \in 1 .. l /\ (a \in Begins(t) <=> a \in Begins(s))
    OBVIOUS
  <2>1. a \in 1 .. l /\ t[a] = s[a]
    BY <1>0, <1>1, <1>2
  <2>2. a > 1 => t[a - 1] = s[a - 1]
    BY <1>1, <1>2
  <2> QED
    BY <1>2, <2>1, <2>2 DEF Begins
<1>4. l \in Begins(t) <=> ~Blank(c) /\ EndsBlank(s)
  <2>1. CASE s = <<>>
    <3>1. l = 1
      BY <2>1
    <3> QED
      BY <1>1, <1>2, <2>1, <3>1 DEF Begins, EndsBlank
  <2>2. CASE s # <<>>
    <3>1. Len(s) \in 1 .. Len(s) /\ l > 1 /\ l - 1 = Len(s) /\ l \in 1 .. l
      BY <1>2, <2>2
    <3>2. t[l - 1] = s[Len(s)]
      BY <1>1, <3>1
    <3> QED
      BY <1>1, <1>2, <2>2, <3>1, <3>2 DEF Begins, EndsBlank
  <2> QED
    BY <2>1, <2>2
<1>5. \A a \in Begins(t) : a \in 1 .. Len(s) \/ a = l
  <2>1. Begins(t) \subseteq 1 .. l
    BY <1>2 DEF Begins
  <2> QED
    BY <1>2, <2>1
<1>6. l \notin Begins(s)
  BY <1>2
<1>7. IF ~Blank(c) /\ EndsBlank(s)
      THEN Cardinality(Begins(t)) = Cardinality(Begins(s)) + 1
      ELSE Cardinality(Begins(t)) = Cardinality(Begins(s))
  <2>1. CASE ~Blank(c) /\ EndsBlank(s)
    <3>1. Begins(t) = Begins(s) \cup {l}
      BY <1>2, <1>3, <1>4, <1>5, <2>1
    <3>2. Cardinality(Begins(s) \cup {l}) = Cardinality(Begins(s)) + 1
      BY <1>2, <1>6, FS_AddElement
    <3> QED
      BY <2>1, <3>1, <3>2
  <2>2. CASE ~(~Blank(c) /\ EndsBlank(s))
    <3>1. Begins(t) = Begins(s)
      BY <1>2, <1>3, <1>4, <1>5, <2>2
    <3> QED
      BY <2>2, <3>1
  <2> QED
    BY <2>1, <2>2
<1>8. \A p \in 1 .. Len(s) : Nth(t, p) = Nth(s, p)
  <2> SUFFICES ASSUME NEW p \in 1 .. Len(s) PROVE Nth(t, p) = Nth(s, p)
    OBVIOUS
  <2>1. {a \in Begins(t) : a <= p} = {a \in Begins(s) : a <= p}
    <3>1. ~(l <= p) /\ p \in Int
      BY <1>2
    <3> QED
      BY <1>2, <1>3, <1>5, <3>1
  <2> QED
    BY <2>1 DEF Nth
<1>9. Nth(t, l) = Cardinality(Begins(t))
  <2>1. \A p \in Nat : p >= Len(t) => Nth(t, p) = Cardinality(Begins(t))
    BY Beginnings
  <2> QED
    BY <1>1, <2>1
<1>10. ASSUME NEW i
       PROVE  Word(t, i) = IF ~Blank(c) /\ i = Cardinality(Begins(t))
                           THEN Word(s, i) \cup {l} ELSE Word(s, i)
  <2>1. \A p \in 1 .. Len(s) : p \in Word(t, i) <=> p \in Word(s, i)
    BY <1>1, <1>2, <1>3, <1>8 DEF Word
  <2>2. l \in Word(t, i) <=> ~Blank(c) /\ i = Cardinality(Begins(t))
    <3>1. l \in 1 .. l
      BY <1>2
    <3> QED
      BY <1>1, <1>2, <1>9, <3>1 DEF Word
  <2>3. \A p \in Word(t, i) : p \in 1 .. Len(s) \/ p = l
    BY <1>2 DEF Word
  <2>4. \A p \in Word(s, i) : p \in 1 .. Len(s)
    BY <1>2 DEF Word
  <2> DEFINE more == IF ~Blank(c) /\ i = Cardinality(Begins(t)) THEN {l} ELSE {}
  <2>5. \A p : p \in Word(t, i) <=> p \in Word(s, i) \cup more
    BY <1>2, <2>1, <2>2, <2>3, <2>4
  <2>6. Word(t, i) = Word(s, i) \cup more
    BY <2>5
  <2> QED
    BY <2>6
<1> QED
  BY <1>1, <1>7, <1>8, <1>9, <1>10 DEF MoreBegun

(* The first and the last place of a word.                                 *)
LEMMA Ends ==
  ASSUME NEW n \in Nat, NEW T, T \subseteq 1 .. n, T # {}
  PROVE  /\ Min(T) \in T /\ Max(T) \in T
         /\ \A y \in T : Min(T) <= y /\ y <= Max(T)
<1>1. T \subseteq Nat /\ T \subseteq 0 .. n
  OBVIOUS
<1>2. \E x \in T : \A y \in T : x <= y
  BY <1>1, LeastElement
<1>3. \E x \in T : \A y \in T : x >= y
  <2>1. PICK x \in T : \A y \in T : y <= x
    BY <1>1, GreatestElement
  <2> QED
    BY <1>1, <2>1
<1>4. Min(T) \in T /\ \A y \in T : Min(T) <= y
  BY <1>2 DEF Min
<1>5. Max(T) \in T /\ \A y \in T : Max(T) >= y
  BY <1>3 DEF Max
<1> QED
  BY <1>1, <1>4, <1>5

(* Every word has a letter, and every letter is in a word.                 *)
WellWorded(s) ==
  /\ \A i \in 1 .. Cardinality(Begins(s)) : Word(s, i) # {}
  /\ \A p \in 1 .. Len(s) : ~Blank(s[p]) => Nth(s, p) >= 1

(* Then the words are strings.                                             *)
LEMMA WordsAreWords ==
  ASSUME NEW C, NEW s \in Seq(C), WellWorded(s)
  PROVE  /\ Words(s) \in Seq(Seq(C)) /\ Len(Words(s)) = Cardinality(Begins(s))
         /\ \A i \in 1 .. Cardinality(Begins(s)) :
              /\ Min(Word(s, i)) \in 1 .. Len(s) /\ Max(Word(s, i)) \in 1 .. Len(s)
              /\ Words(s)[i] = SubSeq(s, Min(Word(s, i)), Max(Word(s, i)))
              /\ Words(s)[i] \in Seq(C)
<1>1. PICK k \in Nat : k = Cardinality(Begins(s))
  BY Beginnings
<1>2. PICK n \in Nat : n = Len(s)
  OBVIOUS
<1>3. ASSUME NEW i \in 1 .. k
      PROVE  /\ Min(Word(s, i)) \in 1 .. n /\ Max(Word(s, i)) \in 1 .. n
             /\ Words(s)[i] = SubSeq(s, Min(Word(s, i)), Max(Word(s, i)))
             /\ Words(s)[i] \in Seq(C)
  <2>1. Word(s, i) \subseteq 1 .. n /\ Word(s, i) # {}
    BY <1>1, <1>2 DEF Word, WellWorded
  <2>2. Min(Word(s, i)) \in 1 .. n /\ Max(Word(s, i)) \in 1 .. n
    BY <2>1, Ends
  <2>3. Words(s)[i] = SubSeq(s, Min(Word(s, i)), Max(Word(s, i)))
    BY <1>1 DEF Words
  <2>4. ASSUME NEW a \in 1 .. n, NEW b \in 1 .. n PROVE SubSeq(s, a, b) \in Seq(C)
    BY <1>2
  <2> QED
    BY <2>2, <2>3, <2>4
<1>4. Words(s) \in [1 .. k -> Seq(C)]
  <2> DEFINE W(i) == SubSeq(s, Min(Word(s, i)), Max(Word(s, i)))
  <2>1. Words(s) = [i \in 1 .. k |-> W(i)]
    BY <1>1 DEF Words
  <2>2. \A i \in 1 .. k : W(i) \in Seq(C)
    BY <1>3
  <2> HIDE DEF W
  <2> QED
    BY <2>1, <2>2
<1>5. Words(s) \in Seq(Seq(C)) /\ Len(Words(s)) = k
  BY <1>4, FunctionIsSeq
<1> QED
  BY <1>1, <1>2, <1>3, <1>5

(* What one character more makes of the words: nothing, one word more, or  *)
(* a last word that is longer.                                             *)
WordsGrow(C, s, c, t) ==
  /\ WellWorded(t)
  /\ Blank(c) => Words(t) = Words(s)
  /\ ~Blank(c) /\ EndsBlank(s) => Words(t) = Append(Words(s), <<c>>)
  /\ ~Blank(c) /\ ~EndsBlank(s) =>
       \E us \in Seq(Seq(C)), w \in Seq(C) :
         Words(s) = Append(us, w) /\ Words(t) = Append(us, Append(w, c))
LEMMA MoreWords ==
  ASSUME NEW C, NEW s \in Seq(C), NEW c \in C,
         NEW t \in Seq(C), t = Append(s, c), WellWorded(s)
  PROVE  WordsGrow(C, s, c, t)
<1>1. PICK n \in Nat : n = Len(s)
  OBVIOUS
<1>2. PICK l \in Nat : l = n + 1
  OBVIOUS
<1>3. PICK k \in Nat : k = Cardinality(Begins(s))
  BY Beginnings
<1>4. PICK m \in Nat : m = Cardinality(Begins(t))
  BY Beginnings
<1>5. /\ Len(t) = l /\ t[l] = c /\ \A p \in 1 .. n : t[p] = s[p]
      /\ IF ~Blank(c) /\ EndsBlank(s) THEN m = k + 1 ELSE m = k
      /\ \A p \in 1 .. n : Nth(t, p) = Nth(s, p)
      /\ Nth(t, l) = m
      /\ \A i : Word(t, i) = IF ~Blank(c) /\ i = m
                             THEN Word(s, i) \cup {l} ELSE Word(s, i)
  <2>1. OneMore(C, s, c, t, l)
    BY <1>1, <1>2 DEF OneMore
  <2>2. MoreBegun(s, c, t, l)
    BY <2>1, MoreBeginnings
  <2> QED
    BY <1>1, <1>3, <1>4, <2>2 DEF MoreBegun
<1>6. \A p \in 1 .. n : Nth(s, p) \in 0 .. k /\ Nth(s, n) = k
  BY <1>1, <1>3, Beginnings
<1>7. \A i \in 1 .. k : Word(s, i) # {}
  BY <1>3 DEF WellWorded
<1>8. \A i : Word(s, i) \subseteq 1 .. n
  BY <1>1 DEF Word
<1>9. ~EndsBlank(s) => n \in 1 .. n /\ n \in Word(s, k) /\ k >= 1
  <2> SUFFICES ASSUME ~EndsBlank(s)
               PROVE  n \in 1 .. n /\ n \in Word(s, k) /\ k >= 1
    OBVIOUS
  <2>1. n \in 1 .. n /\ ~Blank(s[n])
    BY <1>1 DEF EndsBlank
  <2>2. Nth(s, n) = k /\ Nth(s, n) >= 1
    BY <1>1, <1>6, <2>1 DEF WellWorded
  <2> QED
    BY <1>1, <2>1, <2>2 DEF Word
<1>10. WellWorded(t)
  <2>1. ASSUME NEW i \in 1 .. m PROVE Word(t, i) # {}
    <3>1. CASE i \in 1 .. k
      <4>1. Word(s, i) \subseteq Word(t, i)
        BY <1>5
      <4> QED
        BY <1>7, <3>1, <4>1
    <3>2. CASE i \notin 1 .. k
      <4>1. ~Blank(c) /\ i = m
        BY <1>5, <3>2
      <4> QED
        BY <1>5, <4>1
    <3> QED
      BY <3>1, <3>2
  <2>2. ASSUME NEW p \in 1 .. l, ~Blank(t[p]) PROVE Nth(t, p) >= 1
    <3>1. CASE p \in 1 .. n
      <4>1. ~Blank(s[p]) /\ Nth(t, p) = Nth(s, p)
        BY <1>5, <2>2, <3>1
      <4> QED
        BY <1>1, <3>1, <4>1 DEF WellWorded
    <3>2. CASE p = l
      <4>1. ~Blank(c) /\ Nth(t, p) = m
        BY <1>5, <2>2, <3>2
      <4>2. m >= 1
        BY <1>5, <1>9, <4>1
      <4> QED
        BY <4>1, <4>2
    <3> QED
      BY <1>2, <3>1, <3>2
  <2> QED
    BY <1>4, <1>5, <2>1, <2>2 DEF WellWorded
<1>11. /\ Words(s) \in Seq(Seq(C)) /\ Len(Words(s)) = k
       /\ Words(t) \in Seq(Seq(C)) /\ Len(Words(t)) = m
  BY <1>3, <1>4, <1>10, WordsAreWords
<1>12. ASSUME NEW i \in 1 .. k, Word(t, i) = Word(s, i)
       PROVE  Words(t)[i] = Words(s)[i]
  <2>1. i \in 1 .. m
    BY <1>5
  <2>2. /\ Min(Word(s, i)) \in 1 .. n /\ Max(Word(s, i)) \in 1 .. n
        /\ Words(s)[i] = SubSeq(s, Min(Word(s, i)), Max(Word(s, i)))
    BY <1>1, <1>3, WordsAreWords
  <2>3. Words(t)[i] = SubSeq(t, Min(Word(t, i)), Max(Word(t, i)))
    BY <1>4, <1>10, <2>1, WordsAreWords
  <2>4. PICK a \in 1 .. n, b \in 1 .. n : a = Min(Word(s, i)) /\ b = Max(Word(s, i))
    BY <2>2
  <2>5. SubSeq(t, a, b) = SubSeq(s, a, b)
    BY <1>1, <1>2, <1>5
  <2> QED
    BY <1>12, <2>2, <2>3, <2>4, <2>5
<1>13. CASE Blank(c)
  <2>1. m = k /\ \A i \in 1 .. k : Word(t, i) = Word(s, i)
    BY <1>5, <1>13
  <2>2. \A i \in 1 .. k : Words(t)[i] = Words(s)[i]
    BY <1>12, <2>1
  <2>3. Words(t) = Words(s)
    BY <1>11, <2>1, <2>2, SeqEqual
  <2> QED
    BY <1>10, <1>13, <2>3 DEF WordsGrow
<1>14. CASE ~Blank(c) /\ EndsBlank(s)
  <2>1. m = k + 1 /\ \A i \in 1 .. k : Word(t, i) = Word(s, i)
    BY <1>5, <1>14
  <2>2. \A i \in 1 .. k : Words(t)[i] = Words(s)[i]
    BY <1>12, <2>1
  <2>3. Word(t, m) = {l}
    <3>1. Word(s, m) = {}
      <4>1. \A p \in Word(s, m) : p \in 1 .. n /\ Nth(s, p) = m
        BY <1>1 DEF Word
      <4> QED
        BY <1>6, <2>1, <4>1
    <3> QED
      BY <1>5, <1>14, <3>1
  <2>4. Min({l}) = l /\ Max({l}) = l
    BY DEF Min, Max
  <2>5. Words(t)[m] = SubSeq(t, l, l)
    <3>1. m \in 1 .. Cardinality(Begins(t))
      BY <1>4, <2>1
    <3>2. Words(t)[m] = SubSeq(t, Min(Word(t, m)), Max(Word(t, m)))
      BY <1>10, <3>1, WordsAreWords
    <3> QED
      BY <2>3, <2>4, <3>2
  <2>7. PICK x \in Seq(C) : x = <<c>>
    <3>1. <<c>> \in Seq(C)
      OBVIOUS
    <3> QED
      BY <3>1
  <2>6. SubSeq(t, l, l) = x
    <3>1. l \in 1 .. Len(t) /\ t[l] = c
      BY <1>2, <1>5
    <3>2. PICK y \in Seq(C) : y = SubSeq(t, l, l)
      <4>1. \A i \in l .. l : t[i] \in C
        BY <3>1
      <4>2. l \in Int
        OBVIOUS
      <4>3. SubSeq(t, l, l) \in Seq(C)
        BY ONLY <4>1, <4>2, SubSeqProperties
      <4> QED
        BY <4>3
    <3>3. Len(y) = 1 /\ y[1] = c
      BY <3>1, <3>2
    <3>4. Len(x) = 1 /\ x[1] = c
      BY <2>7
    <3>5. \A i \in 1 .. Len(y) : y[i] = x[i]
      BY <3>3, <3>4
    <3>6. Len(x) = Len(y)
      BY <3>3, <3>4
    <3> QED
      BY <3>2, <3>5, <3>6, SeqEqual
  <2>8. PICK ws \in Seq(Seq(C)) : ws = Append(Words(s), x)
    BY <1>11, AppendProperties, Zenon
  <2>10. Len(ws) = m /\ \A i \in 1 .. m : ws[i] = Words(t)[i]
    <3>1. Len(ws) = m /\ ws[m] = x /\ \A i \in 1 .. k : ws[i] = Words(s)[i]
      BY <1>11, <2>1, <2>8
    <3>2. \A i \in 1 .. m : i = m \/ i \in 1 .. k
      BY <2>1
    <3> QED
      BY <2>2, <2>5, <2>6, <2>7, <3>1, <3>2
  <2>11. Words(t) = ws
    BY <1>11, <2>10, SeqEqual
  <2> QED
    BY <1>10, <1>14, <2>7, <2>8, <2>11 DEF WordsGrow
<1>15. CASE ~Blank(c) /\ ~EndsBlank(s)
  <2>1. m = k /\ k >= 1 /\ \A i \in 1 .. k : i # k => Word(t, i) = Word(s, i)
    BY <1>5, <1>9, <1>15
  <2>2. \A i \in 1 .. k : i # k => Words(t)[i] = Words(s)[i]
    BY <1>12, <2>1
  <2>3. PICK j \in Nat : k = j + 1
    <3>1. k - 1 \in Nat /\ k = (k - 1) + 1
      BY <2>1
    <3> QED
      BY <3>1
  <2>4. PICK us \in Seq(Seq(C)) : us = SubSeq(Words(s), 1, j)
    <3>1. \A i \in 1 .. j : Words(s)[i] \in Seq(C)
      BY <1>11, <2>3
    <3>2. SubSeq(Words(s), 1, j) \in Seq(Seq(C))
      BY <3>1, SubSeqProperties
    <3> QED
      BY <3>2
  <2>5. Len(us) = j /\ \A i \in 1 .. j : us[i] = Words(s)[i]
    BY <1>11, <2>3, <2>4
  <2>6. PICK w \in Seq(C) : w = Words(s)[k]
    BY <1>11, <2>1
  <2>7. Word(t, k) = Word(s, k) \cup {l} /\ n \in Word(s, k)
    BY <1>5, <1>9, <1>15, <2>1
  <2>8. PICK a \in 1 .. n : a \in Word(s, k) /\ \A y \in Word(s, k) : a <= y
    <3>1. Word(s, k) \subseteq Nat /\ Word(s, k) # {}
      BY <1>8, <2>7
    <3> QED
      BY <1>8, <3>1, LeastElement
  <2>9. Min(Word(s, k)) = a /\ Max(Word(s, k)) = n
    <3>1. /\ Min(Word(s, k)) \in Word(s, k) /\ Max(Word(s, k)) \in Word(s, k)
          /\ \A y \in Word(s, k) : Min(Word(s, k)) <= y /\ y <= Max(Word(s, k))
      BY <1>8, <2>7, Ends
    <3>2. Min(Word(s, k)) \in 1 .. n /\ Max(Word(s, k)) \in 1 .. n
      BY <1>8, <3>1
    <3> QED
      BY <2>7, <2>8, <3>1, <3>2
  <2>10. Min(Word(t, k)) = a /\ Max(Word(t, k)) = l
    <3>1. Word(t, k) \subseteq 1 .. l /\ Word(t, k) # {}
      BY <1>2, <1>8, <2>7
    <3>2. /\ Min(Word(t, k)) \in Word(t, k) /\ Max(Word(t, k)) \in Word(t, k)
          /\ \A y \in Word(t, k) : Min(Word(t, k)) <= y /\ y <= Max(Word(t, k))
      BY <3>1, Ends
    <3>3. Min(Word(t, k)) \in 1 .. l /\ Max(Word(t, k)) \in 1 .. l
      BY <3>1, <3>2
    <3>4. Max(Word(t, k)) = l
      <4>1. l <= Max(Word(t, k))
        BY <2>7, <3>2
      <4> QED
        BY <3>3, <4>1
    <3>5. Min(Word(t, k)) <= a /\ Min(Word(t, k)) # l
      <4>1. Min(Word(t, k)) <= a
        BY <2>7, <2>8, <3>2
      <4> QED
        BY <1>2, <3>3, <4>1
    <3>6. a <= Min(Word(t, k))
      BY <2>7, <2>8, <3>2, <3>5
    <3> QED
      BY <3>3, <3>4, <3>5, <3>6
  <2>11. w = SubSeq(s, a, n) /\ Words(t)[k] = SubSeq(t, a, l)
    <3>1. k \in 1 .. Cardinality(Begins(s)) /\ k \in 1 .. Cardinality(Begins(t))
      BY <1>3, <1>4, <2>1
    <3>2. Words(s)[k] = SubSeq(s, Min(Word(s, k)), Max(Word(s, k)))
      BY <3>1, WordsAreWords
    <3>3. Words(t)[k] = SubSeq(t, Min(Word(t, k)), Max(Word(t, k)))
      BY <1>10, <3>1, WordsAreWords
    <3> QED
      BY <2>6, <2>9, <2>10, <3>2, <3>3
  <2>12. SubSeq(t, a, l) = Append(SubSeq(s, a, n), c)
    BY <1>1, <1>2, <1>5
  <2>13. Words(s) = Append(us, w)
    <3>1. PICK vs \in Seq(Seq(C)) : vs = Append(us, w)
      BY AppendProperties, Zenon
    <3>2. Len(vs) = k /\ \A i \in 1 .. k : vs[i] = Words(s)[i]
      BY <2>3, <2>5, <2>6, <3>1
    <3> QED
      BY <1>11, <3>1, <3>2, SeqEqual
  <2>14. Words(t) = Append(us, Append(w, c))
    <3>1. PICK x \in Seq(C) : x = Append(w, c)
      BY AppendProperties, Zenon
    <3>2. PICK vs \in Seq(Seq(C)) : vs = Append(us, x)
      BY AppendProperties, Zenon
    <3>3. Words(t)[k] = x
      BY <2>11, <2>12, <3>1
    <3>4. Len(vs) = k /\ vs[k] = x /\ \A i \in 1 .. j : vs[i] = us[i]
      BY <2>3, <2>5, <3>2
    <3>5. \A i \in 1 .. j : i \in 1 .. k /\ i # k
      BY <2>3
    <3>6. \A i \in 1 .. k : i = k \/ i \in 1 .. j
      BY <2>3
    <3>7. \A i \in 1 .. k : vs[i] = Words(t)[i]
      BY <2>2, <2>5, <3>3, <3>4, <3>5, <3>6
    <3> QED
      BY <1>11, <2>1, <3>1, <3>2, <3>4, <3>7, SeqEqual
  <2> QED
    BY <1>10, <1>15, <2>13, <2>14 DEF WordsGrow
<1> QED
  BY <1>13, <1>14, <1>15

-----------------------------------------------------------------------------
(* normalize_whitespace.                                                   *)

(* What is written is a string again.                                      *)
LEMMA WriteWrites ==
  ASSUME NEW C, Space \in C, NEW c \in C,
         NEW done \in [text : Seq(C), inSpace : BOOLEAN]
  PROVE  Write(done, c) \in [text : Seq(C), inSpace : BOOLEAN]
<1>1. done.text \in Seq(C) /\ done.inSpace \in BOOLEAN
  OBVIOUS
<1>2. Append(done.text, c) \in Seq(C) /\ Append(done.text, Space) \in Seq(C)
  BY <1>1
<1>3. CASE ~Blank(c)
  BY <1>2, <1>3 DEF Write
<1>4. CASE Blank(c) /\ done.inSpace
  BY <1>4 DEF Write
<1>5. CASE Blank(c) /\ ~done.inSpace
  BY <1>2, <1>5 DEF Write
<1> QED
  BY <1>3, <1>4, <1>5

(* The loop of normalize_whitespace, round by round.                       *)
LEMMA ScannedSteps ==
  ASSUME NEW C, Space \in C, NEW str \in Seq(C)
  PROVE  /\ Scanned(str)[0] = [text |-> <<>>, inSpace |-> TRUE]
         /\ \A i \in 1 .. Len(str) :
              Scanned(str)[i] = Write(Scanned(str)[i - 1], str[i])
<1>1. PICK n \in Nat : n = Len(str)
  OBVIOUS
<1> DEFINE S == [text : Seq(C), inSpace : BOOLEAN]
           start == [text |-> <<>>, inSpace |-> TRUE]
           Part(f, i) == IF i = 0 THEN start ELSE Write(f[i - 1], str[i])
           G == CHOOSE f : f = [i \in 0 .. n |-> Part(f, i)]
           F == [x \in S \X (0 .. n) |->
                   IF x[2] = 0 THEN start ELSE Write(x[1], str[x[2]])]
<1>2. Scanned(str) = G
  BY <1>1 DEF Scanned
<1>3. start \in S
  OBVIOUS
<1>4. \A d \in S, i \in 1 .. n : Write(d, str[i]) \in S
  <2> SUFFICES ASSUME NEW d \in S, NEW i \in 1 .. n PROVE Write(d, str[i]) \in S
    OBVIOUS
  <2>1. PICK c \in C : c = str[i]
    BY <1>1
  <2>2. Write(d, c) \in S
    BY WriteWrites
  <2> QED
    BY <2>1, <2>2
<1> HIDE DEF S, start
<1>5. F \in [S \X (0 .. n) -> S]
  <2> SUFFICES ASSUME NEW d \in S, NEW i \in 0 .. n
               PROVE  (IF i = 0 THEN start ELSE Write(d, str[i])) \in S
    OBVIOUS
  <2>1. i # 0 => i \in 1 .. n
    OBVIOUS
  <2> QED
    BY <1>3, <1>4, <2>1
<1>6. \A d \in S, i \in 0 .. n : i # 0 => F[<<d, i>>] = Write(d, str[i])
  OBVIOUS
<1> HIDE DEF F
<1>7. PICK m \in Nat : m = 0
  OBVIOUS
<1>8. PICK g : /\ g \in [0 .. n -> S] /\ g[0] = start
               /\ \A i \in 0 .. n : i # 0 => g[i] = F[<<g[i - 1], i>>]
  <2>1. F \in [S \X (m .. n) -> S]
    BY <1>5, <1>7
  <2>2. m <= n
    BY <1>7
  <2>3. Recursive(m, n, S, start, F) # {}
    BY <1>3, <2>1, <2>2, Recursion
  <2> QED
    BY <1>7, <2>3 DEF Recursive
<1>9. \A i \in 0 .. n : g[i] = Part(g, i)
  <2> SUFFICES ASSUME NEW i \in 0 .. n, i # 0 PROVE g[i] = Write(g[i - 1], str[i])
    BY <1>8
  <2>1. g[i - 1] \in S
    BY <1>8
  <2> QED
    BY <1>6, <1>8, <2>1
<1> HIDE DEF Part
<1>10. g = [i \in 0 .. n |-> Part(g, i)]
  BY <1>8, <1>9
<1>11. G = [i \in 0 .. n |-> Part(G, i)]
  BY <1>10
<1> HIDE DEF G
<1>12. \A i \in 0 .. n : G[i] = Part(G, i)
  <2> SUFFICES ASSUME NEW i \in 0 .. n PROVE G[i] = Part(G, i)
    OBVIOUS
  <2> QED
    BY <1>11, Zenon
<1>13. G[0] = start
  BY <1>12 DEF Part
<1>14. \A i \in 1 .. n : G[i] = Write(G[i - 1], str[i])
  <2>1. \A i \in 1 .. n : i \in 0 .. n /\ i # 0
    OBVIOUS
  <2> QED
    BY <1>12, <2>1 DEF Part
<1> QED
  BY <1>1, <1>2, <1>13, <1>14 DEF start

(* What the loop has written after a string: its words with a space between*)
(* them, and one more if there are words and a blank after them.           *)
Progress(s) ==
  [text |-> IF EndsBlank(s) /\ Words(s) # <<>> THEN Append(Joined(Words(s)), Space)
                                              ELSE Joined(Words(s)),
   inSpace |-> EndsBlank(s)]
(* If no blank comes last, what has been written ends like the string.     *)
EndsAlike(s) ==
  EndsBlank(s) \/ (Joined(Words(s)) # <<>> /\ Last(Joined(Words(s))) = s[Len(s)])

(* So it is before the first character,                                    *)
LEMMA NothingWritten ==
  WellWorded(<<>>) /\ EndsAlike(<<>>) /\ Words(<<>>) = <<>> /\ Joined(Words(<<>>)) = <<>>
    /\ Progress(<<>>) = [text |-> <<>>, inSpace |-> TRUE]
<1>1. Begins(<<>>) = {} /\ Len(<<>>) = 0 /\ EndsBlank(<<>>)
  BY DEF Begins, EndsBlank
<1>2. Cardinality({}) = 0
  BY FS_EmptySet
<1>3. Words(<<>>) = <<>>
  <2> DEFINE W(i) == SubSeq(<<>>, Min(Word(<<>>, i)), Max(Word(<<>>, i)))
  <2>1. Words(<<>>) = [i \in 1 .. 0 |-> W(i)]
    BY <1>1, <1>2 DEF Words
  <2> HIDE DEF W
  <2> QED
    BY <2>1
<1>4. Joined(<<>>) = <<>>
  <2>1. PICK C : C = {Space}
    OBVIOUS
  <2>2. Space \in C /\ <<>> \in Seq(Seq(C)) /\ <<>> \in Seq(C)
    BY <2>1
  <2> QED
    BY ONLY <2>2, JoinedAppend DEF JoinsOn
<1>5. WellWorded(<<>>) /\ EndsAlike(<<>>)
  BY <1>1, <1>2 DEF WellWorded, EndsAlike
<1>6. EndsBlank(<<>>) = TRUE
  BY DEF EndsBlank
<1>7. Progress(<<>>) = [text |-> <<>>, inSpace |-> TRUE]
  BY <1>3, <1>4, <1>6 DEF Progress
<1> QED
  BY <1>3, <1>4, <1>5, <1>7

(* and each character keeps it so,                                         *)
Progresses(s, c, t) ==
  WellWorded(t) /\ EndsAlike(t) /\ Progress(t) = Write(Progress(s), c)
LEMMA Progressing ==
  ASSUME NEW C, Space \in C, NEW s \in Seq(C), NEW c \in C,
         NEW t \in Seq(C), t = Append(s, c), WellWorded(s), EndsAlike(s)
  PROVE  Progresses(s, c, t)
<1> SUFFICES WellWorded(t) /\ EndsAlike(t) /\ Progress(t) = Write(Progress(s), c)
  BY DEF Progresses
<1>1. /\ WellWorded(t)
      /\ Blank(c) => Words(t) = Words(s)
      /\ ~Blank(c) /\ EndsBlank(s) => Words(t) = Append(Words(s), <<c>>)
      /\ ~Blank(c) /\ ~EndsBlank(s) =>
           \E us \in Seq(Seq(C)), w \in Seq(C) :
             Words(s) = Append(us, w) /\ Words(t) = Append(us, Append(w, c))
  <2>1. WordsGrow(C, s, c, t)
    BY MoreWords
  <2> QED
    BY <2>1 DEF WordsGrow
<1>2. PICK ws \in Seq(Seq(C)) : ws = Words(s)
  BY WordsAreWords
<1>3. /\ Blank(c) => EndsBlank(t) = TRUE
      /\ ~Blank(c) => EndsBlank(t) = FALSE
  BY DEF EndsBlank
<1>4. t[Len(t)] = c /\ Blank(Space)
  BY DEF Blank
<1>5. PICK x \in Seq(C) : x = <<c>>
  <2>1. <<c>> \in Seq(C)
    OBVIOUS
  <2> QED
    BY <2>1
<1>6. /\ Joined(<<>>) = <<>> /\ Joined(ws) \in Seq(C)
      /\ Joined(Append(ws, x)) =
           IF ws = <<>> THEN x ELSE Joined(ws) \o (<<Space>> \o x)
  <2>1. JoinsOn(C, ws, x)
    BY JoinedAppend
  <2> QED
    BY <2>1 DEF JoinsOn
<1>7. PICK text \in Seq(C) : text = Joined(ws)
  BY <1>6
<1>8. /\ Progress(s).inSpace = EndsBlank(s)
      /\ Progress(s).text = IF EndsBlank(s) /\ ws # <<>> THEN Append(text, Space)
                            ELSE text
  BY <1>2, <1>7 DEF Progress
<1>9. CASE Blank(c) /\ EndsBlank(s)
  BY <1>1, <1>3, <1>9 DEF Progress, Write, EndsAlike
<1>10. CASE Blank(c) /\ ~EndsBlank(s)
  <2>1. ws # <<>>
    BY <1>2, <1>6, <1>10 DEF EndsAlike
  <2>2. Words(t) = ws
    BY <1>1, <1>2, <1>10
  <2>3. Progress(t) = [text |-> Append(text, Space), inSpace |-> TRUE]
    BY <1>3, <1>7, <1>10, <2>1, <2>2 DEF Progress
  <2>4. Write(Progress(s), c) = [text |-> Append(text, Space), inSpace |-> TRUE]
    BY <1>8, <1>10 DEF Write
  <2> QED
    BY <1>1, <1>3, <1>10, <2>3, <2>4 DEF EndsAlike
<1>11. CASE ~Blank(c) /\ EndsBlank(s)
  <2>1. Words(t) = Append(ws, x)
    BY <1>1, <1>2, <1>5, <1>11
  <2>2. Progress(t) = [text |-> Joined(Append(ws, x)), inSpace |-> FALSE]
    BY <1>3, <1>11, <2>1 DEF Progress
  <2>3. Write(Progress(s), c)
          = [text |-> Append(IF ws # <<>> THEN Append(text, Space) ELSE text, c),
             inSpace |-> FALSE]
    BY <1>8, <1>11 DEF Write
  <2>4. CASE ws = <<>>
    <3>1. text = <<>> /\ Joined(Append(ws, x)) = x
      BY <1>6, <1>7, <2>4
    <3>2. Append(text, c) = x
      BY <1>5, <3>1
    <3>3. x # <<>> /\ Last(x) = c
      BY <1>5 DEF Last
    <3> QED
      BY <1>1, <1>4, <2>1, <2>2, <2>3, <2>4, <3>1, <3>2, <3>3 DEF EndsAlike
  <2>5. CASE ws # <<>>
    <3>0. PICK z \in Seq(C) : z = Append(text, Space)
      BY Appended, Zenon
    <3>1. PICK y \in Seq(C) : y = Append(z, c)
      BY Appended, Zenon
    <3>2. Joined(Append(ws, x)) = text \o (<<Space>> \o <<c>>)
      BY <1>5, <1>6, <1>7, <2>5
    <3>3. text \o (<<Space>> \o <<c>>) = y
      BY <3>0, <3>1
    <3>4. y # <<>> /\ Last(y) = c
      BY <3>1, Appended
    <3> QED
      BY <1>1, <1>4, <2>1, <2>2, <2>3, <2>5, <3>0, <3>1, <3>2, <3>3, <3>4 DEF EndsAlike
  <2> QED
    BY <2>4, <2>5
<1>12. CASE ~Blank(c) /\ ~EndsBlank(s)
  <2>1. PICK us \in Seq(Seq(C)), w \in Seq(C) :
          Words(s) = Append(us, w) /\ Words(t) = Append(us, Append(w, c))
    BY <1>1, <1>12
  <2>2. PICK v \in Seq(C) : v = Append(w, c)
    BY Appended, Zenon
  <2>3. Joined(Append(us, w)) = IF us = <<>> THEN w ELSE Joined(us) \o (<<Space>> \o w)
    <3>1. JoinsOn(C, us, w)
      BY JoinedAppend
    <3> QED
      BY <3>1 DEF JoinsOn
  <2>4. /\ Joined(us) \in Seq(C)
        /\ Joined(Append(us, v)) = IF us = <<>> THEN v ELSE Joined(us) \o (<<Space>> \o v)
    <3>1. JoinsOn(C, us, v)
      BY JoinedAppend
    <3> QED
      BY <3>1 DEF JoinsOn
  <2>5. PICK y \in Seq(C) : y = Append(text, c)
    BY Appended, Zenon
  <2>6. Joined(Words(t)) = y
    <3>1. Joined(us) \o (<<Space>> \o v) = Append(Joined(us) \o (<<Space>> \o w), c)
      <4>1. PICK a \in Seq(C) : a = Joined(us)
        BY <2>4
      <4>2. PICK q \in Seq(C) : q = <<Space>> \o w
        <5>1. <<Space>> \o w \in Seq(C)
          OBVIOUS
        <5> QED
          BY <5>1
      <4>3. <<Space>> \o v = Append(q, c)
        BY <2>2, <4>2
      <4>4. a \o Append(q, c) = Append(a \o q, c)
        OBVIOUS
      <4> QED
        BY <4>1, <4>2, <4>3, <4>4
    <3> QED
      BY <1>2, <1>7, <2>1, <2>2, <2>3, <2>4, <2>5, <3>1
  <2>7. y # <<>> /\ Last(y) = c
    BY <2>5, Appended
  <2>8. Progress(t) = [text |-> y, inSpace |-> FALSE]
    BY <1>3, <1>12, <2>6 DEF Progress
  <2>9. Write(Progress(s), c) = [text |-> y, inSpace |-> FALSE]
    BY <1>8, <1>12, <2>5 DEF Write
  <2> QED
    BY <1>1, <1>4, <2>6, <2>7, <2>8, <2>9 DEF EndsAlike
<1> QED
  BY <1>9, <1>10, <1>11, <1>12

(* up to the last.                                                         *)
LEMMA ScanProgress ==
  ASSUME NEW C, Space \in C, NEW str \in Seq(C)
  PROVE  /\ WellWorded(str) /\ EndsAlike(str)
         /\ Scanned(str)[Len(str)] = Progress(str)
<1>1. PICK k \in Nat : k = Len(str)
  OBVIOUS
<1> DEFINE Upto(n) == SubSeq(str, 1, n)
           T == {n \in Nat : n <= k =>
                   /\ WellWorded(Upto(n)) /\ EndsAlike(Upto(n))
                   /\ Scanned(str)[n] = Progress(Upto(n))}
<1>2. 0 \in T
  <2>1. Upto(0) = <<>>
    BY SubSeqEmpty
  <2>2. Scanned(str)[0] = [text |-> <<>>, inSpace |-> TRUE]
    BY ScannedSteps
  <2> HIDE DEF Upto
  <2> QED
    BY <2>1, <2>2, NothingWritten
<1>3. ASSUME NEW n \in Nat, n >= 0, n \in T PROVE n + 1 \in T
  <2>1. PICK l \in Nat : l = n + 1
    OBVIOUS
  <2> SUFFICES ASSUME l <= k
               PROVE  /\ WellWorded(Upto(l)) /\ EndsAlike(Upto(l))
                      /\ Scanned(str)[l] = Progress(Upto(l))
    BY <2>1
  <2>2. WellWorded(Upto(n)) /\ EndsAlike(Upto(n)) /\ Scanned(str)[n] = Progress(Upto(n))
    BY <1>3, <2>1
  <2>3. l \in 1 .. Len(str) /\ l - 1 = n
    BY <1>1, <2>1
  <2>4. PICK c \in C : c = str[l]
    BY <2>3
  <2>5. PICK s \in Seq(C) : s = Upto(n)
    <3>1. \A i \in 1 .. n : str[i] \in C
      BY <2>3
    <3>2. SubSeq(str, 1, n) \in Seq(C)
      BY <3>1, SubSeqProperties
    <3> QED
      BY <3>2
  <2>6. PICK t \in Seq(C) : t = Upto(l)
    <3>1. \A i \in 1 .. l : str[i] \in C
      BY <2>3
    <3>2. SubSeq(str, 1, l) \in Seq(C)
      BY <3>1, SubSeqProperties
    <3> QED
      BY <3>2
  <2>7. t = Append(s, c)
    BY <2>1, <2>3, <2>4, <2>5, <2>6
  <2>8. Scanned(str)[l] = Write(Scanned(str)[l - 1], str[l])
    BY <2>3, ScannedSteps
  <2> HIDE DEF Upto
  <2>9. WellWorded(s) /\ EndsAlike(s)
    BY <2>2, <2>5
  <2>10. Progresses(s, c, t)
    BY <2>7, <2>9, Progressing
  <2> QED
    BY <2>2, <2>3, <2>4, <2>5, <2>6, <2>8, <2>10 DEF Progresses
<1> HIDE DEF T
<1>4. k \in T
  <2>1. PICK m \in Nat : m = 0
    OBVIOUS
  <2>2. \A n \in Nat : n >= m => n \in T
    BY <1>2, <1>3, <2>1, Induction
  <2> QED
    BY <2>1, <2>2
<1>5. Upto(k) = str
  BY <1>1, SubSeqFull
<1> HIDE DEF Upto
<1> QED
  BY <1>1, <1>4, <1>5 DEF T

(* Whatever the characters, normalize_whitespace leaves the words of a     *)
(* string with one space between them.                                     *)
THEOREM NormalizedText ==
  ASSUME NEW C, Space \in C, NEW str \in Seq(C)
  PROVE  Normalized(str) = Joined(Words(str))
<1>1. /\ WellWorded(str) /\ EndsAlike(str)
      /\ Scanned(str)[Len(str)] = Progress(str)
  BY ScanProgress
<1>2. PICK ws \in Seq(Seq(C)) : ws = Words(str)
  BY <1>1, WordsAreWords
<1>3. PICK text \in Seq(C) : text = Joined(ws)
  <2>1. <<>> \in Seq(C)
    BY EmptySeq
  <2>2. JoinsOn(C, ws, <<>>)
    BY <2>1, JoinedAppend
  <2> QED
    BY <2>2 DEF JoinsOn
<1>4. PICK written : written = Scanned(str)[Len(str)].text
  OBVIOUS
<1>5. Normalized(str) =
        IF written # <<>> /\ Last(written) = Space THEN Front(written) ELSE written
  BY <1>4 DEF Normalized
<1>6. written = IF EndsBlank(str) /\ ws # <<>> THEN Append(text, Space) ELSE text
  BY <1>1, <1>2, <1>3, <1>4 DEF Progress
<1>7. CASE EndsBlank(str) /\ ws # <<>>
  <2>1. written = Append(text, Space)
    BY <1>6, <1>7
  <2>2. written # <<>> /\ Last(written) = Space
    BY <2>1, Appended
  <2>3. Front(written) = text
    BY <2>1, Appended
  <2> QED
    BY <1>2, <1>3, <1>5, <2>2, <2>3
<1>8. CASE EndsBlank(str) /\ ws = <<>>
  <2>1. <<>> \in Seq(C)
    BY EmptySeq
  <2>2. JoinsOn(C, ws, <<>>)
    BY <2>1, JoinedAppend
  <2>3. text = <<>>
    BY <1>3, <1>8, <2>2 DEF JoinsOn
  <2> QED
    BY <1>2, <1>3, <1>5, <1>6, <1>8, <2>3
<1>9. CASE ~EndsBlank(str)
  <2>1. written = text /\ Last(text) = str[Len(str)]
    BY <1>1, <1>2, <1>3, <1>6, <1>9 DEF EndsAlike
  <2>2. Last(text) # Space
    BY <1>9, <2>1 DEF EndsBlank, Blank
  <2> QED
    BY <1>2, <1>3, <1>5, <2>1, <2>2
<1> QED
  BY <1>7, <1>8, <1>9

(* The characters of the strings and tokens that are picked.               *)
Chars == Letters \cup {Space, Marker}

(* Whatever string is picked, normalize_whitespace leaves its words.       *)
THEOREM TextIsNormalized == Spec => []NormalizedIsWords
<1> DEFINE IsText == input.of = "text" => input.str \in Seq(Chars)
<1>1. Init => IsText
  BY DEF Init, None
<1>2. IsText /\ [Next]_input => IsText'
  <2> SUFFICES ASSUME IsText, [Next]_input PROVE IsText'
    OBVIOUS
  <2>1. CASE Normalizes
    <3>1. PICK str \in Strings(MaxText) : input' = [of |-> "text", str |-> str]
      BY <2>1 DEF Normalizes
    <3>2. PICK k \in 0 .. MaxText : str \in [1 .. k -> Chars]
      BY <3>1 DEF Strings, Chars
    <3>3. k \in Nat
      BY InputAssumption
    <3>4. str \in Seq(Chars)
      BY <3>2, <3>3, FunctionIsSeq
    <3> QED
      BY <3>1, <3>4
  <2>2. CASE Transforms \/ Extracts \/ Loads
    <3>1. input'.of # "text"
      BY <2>2 DEF Transforms, Extracts, Loads
    <3> QED
      BY <3>1
  <2>3. CASE UNCHANGED input
    BY <2>3
  <2> QED
    BY <2>1, <2>2, <2>3 DEF Next
<1>3. IsText => NormalizedIsWords
  <2>1. Space \in Chars
    BY DEF Chars
  <2> QED
    BY <2>1, NormalizedText DEF NormalizedIsWords
<1> QED
  BY <1>1, <1>2, <1>3, PTL DEF Spec

-----------------------------------------------------------------------------
(* load_vocab.                                                             *)

(* The ends that Fgets, StripEnd and Token choose.                         *)
Least(T) == CHOOSE i \in T : \A j \in T : i <= j
LEMMA LeastIs ==
  ASSUME NEW T, T \subseteq Nat, NEW i \in T, \A j \in T : i <= j
  PROVE  Least(T) = i
<1>1. Least(T) \in T /\ \A j \in T : Least(T) <= j
  BY DEF Least
<1>2. Least(T) \in Nat /\ i \in Nat /\ Least(T) <= i /\ i <= Least(T)
  BY <1>1
<1> QED
  BY <1>2

Greatest(T) == CHOOSE i \in T : \A j \in T : j <= i
LEMMA GreatestIs ==
  ASSUME NEW T, T \subseteq Nat, NEW i \in T, \A j \in T : j <= i
  PROVE  Greatest(T) = i
<1>1. Greatest(T) \in T /\ \A j \in T : j <= Greatest(T)
  BY DEF Greatest
<1>2. Greatest(T) \in Nat /\ i \in Nat /\ Greatest(T) <= i /\ i <= Greatest(T)
  BY <1>1
<1> QED
  BY <1>2

(* Each part of a line is a string, whatever the line.                     *)
LEMMA PartsOfLine ==
  ASSUME NEW D, NEW line \in Seq(D)
  PROVE  /\ Fgets(line) \in Nat
         /\ StripEnd(line) \in Seq(D) /\ Token(line) \in Seq(D)
<1>1. PICK n \in Nat : n = Len(line)
  OBVIOUS
<1>2. ASSUME NEW i \in 1 .. n PROVE UpTo(line, i) \in Seq(D)
  <2>1. i - 1 \in Int /\ \A j \in 1 .. i - 1 : line[j] \in D
    BY <1>1
  <2> QED
    BY <2>1, SubSeqProperties DEF UpTo
<1>3. StripEnd(line) \in Seq(D)
  <2> DEFINE ends == {i \in DOMAIN line : line[i] \in {Return, Newline}}
  <2>1. StripEnd(line) = IF ends = {} THEN line ELSE UpTo(line, Least(ends))
    BY DEF StripEnd, Least
  <2>2. ends \subseteq 1 .. n /\ ends \subseteq Nat
    BY <1>1
  <2> HIDE DEF ends
  <2>3. ends # {} => Least(ends) \in 1 .. n
    BY <2>2, LeastElement DEF Least
  <2> QED
    BY <1>2, <2>1, <2>3
<1>4. Token(line) \in Seq(D)
  <2> DEFINE spaces == {i \in DOMAIN line : line[i] = Space}
  <2>1. Token(line) = IF spaces = {} THEN line ELSE UpTo(line, Greatest(spaces))
    BY DEF Token, Greatest
  <2>2. spaces \subseteq 1 .. n /\ spaces \subseteq 0 .. n
    BY <1>1
  <2> HIDE DEF spaces
  <2>3. spaces # {} => Greatest(spaces) \in 1 .. n
    BY <2>2, GreatestElement DEF Greatest
  <2> QED
    BY <1>2, <2>1, <2>3
<1>5. Fgets(line) \in Nat
  <2>1. PICK room \in Nat : room = IF Len(line) < LineBuffer - 1 THEN Len(line)
                                   ELSE LineBuffer - 1
    BY TextAssumption
  <2> DEFINE ends == {i \in 1 .. room : line[i] = Newline}
  <2>2. Fgets(line) = IF ends = {} THEN room ELSE Least(ends)
    BY <2>1 DEF Fgets, Least
  <2>3. ends \subseteq Nat
    OBVIOUS
  <2> HIDE DEF ends
  <2>4. ends # {} => Least(ends) \in Nat
    BY <2>3, LeastElement DEF Least
  <2> QED
    BY <2>2, <2>4
<1> QED
  BY <1>3, <1>4, <1>5

(* What is where in a concatenation.                                       *)
Concatenated(a, b, p, r) ==
  /\ Len(a \o b) = p + r
  /\ \A i \in 1 .. p : (a \o b)[i] = a[i]
  /\ \A i \in 1 .. r : (a \o b)[p + i] = b[i]
LEMMA Concatenation ==
  ASSUME NEW D, NEW a \in Seq(D), NEW b \in Seq(D)
  PROVE  a \o b \in Seq(D) /\ Concatenated(a, b, Len(a), Len(b))
<1>1. /\ a \o b \in Seq(D) /\ Len(a \o b) = Len(a) + Len(b)
      /\ \A i \in 1 .. Len(a) + Len(b) :
           (a \o b)[i] = IF i <= Len(a) THEN a[i] ELSE b[i - Len(a)]
  BY ConcatProperties
<1>2. Len(a) \in Nat /\ Len(b) \in Nat
  OBVIOUS
<1>3. ASSUME NEW i \in 1 .. Len(a) PROVE (a \o b)[i] = a[i]
  <2>1. i \in 1 .. Len(a) + Len(b) /\ i <= Len(a)
    BY <1>2
  <2> QED
    BY <1>1, <2>1
<1>4. ASSUME NEW i \in 1 .. Len(b) PROVE (a \o b)[Len(a) + i] = b[i]
  <2>1. PICK j \in 1 .. Len(a) + Len(b) : j = Len(a) + i
    BY <1>2
  <2>2. ~(j <= Len(a)) /\ j - Len(a) = i
    BY <1>2, <2>1
  <2> QED
    BY <1>1, <2>1, <2>2
<1> QED
  BY <1>1, <1>3, <1>4 DEF Concatenated

(* A line of a vocabulary: its last space comes after the token, and only  *)
(* its last character is a newline.                                        *)
FileChars == Chars \cup {Return, Newline}
Endings == {<<Newline>>, <<Return, Newline>>}

ShapeOfLine(token, number, line, q, n) ==
  /\ line \in Seq(FileChars) /\ n >= q + 3
  /\ \A i \in 1 .. q : line[i] = token[i]
  /\ line[q + 1] = Space /\ line[q + 2] = number
  /\ line[q + 3] \in {Return, Newline}
  /\ \A i \in 1 .. n : line[i] = Newline <=> i = n
  /\ \A i \in 1 .. q + 2 : line[i] \notin {Return, Newline}
LEMMA LineOfVocab ==
  ASSUME NEW token \in Seq(Chars), NEW number \in Letters, NEW ending \in Endings,
         NEW line, line = VocabLine(token, number, ending),
         NEW q \in Nat, q = Len(token), NEW n, n = Len(line)
  PROVE  ShapeOfLine(token, number, line, q, n)
<1>1. \A c \in Chars : c # Newline /\ c # Return
  BY TextAssumption DEF Chars, Blank, Newline, Return, Space, Marker
<1>2. Space \in FileChars /\ number \in Chars /\ number \in FileChars
        /\ Newline \in FileChars /\ Return \in FileChars /\ Newline # Return
  BY DEF Chars, FileChars, Newline, Return
<1>3. PICK t \in Seq(FileChars) : t = token
  BY DEF FileChars
<1>4. PICK sn \in Seq(FileChars) : sn = <<Space, number>>
  <2>1. <<Space, number>> \in Seq(FileChars)
    BY <1>2
  <2> QED
    BY <2>1
<1>5. Len(sn) = 2 /\ sn[1] = Space /\ sn[2] = number
  BY <1>4
<1>6. PICK e \in Seq(FileChars) : e = ending
  <2>1. <<Newline>> \in Seq(FileChars) /\ <<Return, Newline>> \in Seq(FileChars)
    BY <1>2
  <2> QED
    BY <2>1 DEF Endings
<1>7. PICK r \in Nat : r = Len(e)
  OBVIOUS
<1>8. r \in {1, 2} /\ e[r] = Newline /\ e[1] \in {Return, Newline} /\ (r = 2 => e[1] = Return)
  <2>1. CASE e = <<Newline>>
    BY <1>7, <2>1
  <2>2. CASE e = <<Return, Newline>>
    BY <1>7, <2>2
  <2> QED
    BY <1>6, <2>1, <2>2 DEF Endings
<1>9. PICK head \in Seq(FileChars) : head = t \o sn
  BY ConcatProperties, Zenon
<1>10. /\ Len(head) = q + 2 /\ head[q + 1] = Space /\ head[q + 2] = number
       /\ \A i \in 1 .. q : head[i] = token[i]
  <2>1. Concatenated(t, sn, q, 2)
    <3>1. Concatenated(t, sn, Len(t), Len(sn))
      BY Concatenation
    <3> QED
      BY <1>3, <1>5, <3>1
  <2>2. 1 \in 1 .. 2 /\ 2 \in 1 .. 2
    OBVIOUS
  <2> QED
    BY <1>3, <1>5, <1>9, <2>1, <2>2 DEF Concatenated
<1>11. line = head \o e
  BY <1>3, <1>4, <1>6, <1>9 DEF VocabLine
<1>12. PICK l \in Seq(FileChars) : l = head \o e
  BY ConcatProperties, Zenon
<1>13. /\ n = q + 2 + r
       /\ \A i \in 1 .. q + 2 : l[i] = head[i]
       /\ \A i \in 1 .. r : l[q + 2 + i] = e[i]
  <2>1. Concatenated(head, e, Len(head), Len(e))
    BY Concatenation
  <2> QED
    BY <1>7, <1>10, <1>11, <1>12, <2>1 DEF Concatenated
<1>14. l[q + 1] = Space /\ l[q + 2] = number /\ \A i \in 1 .. q : l[i] = token[i]
  BY <1>10, <1>13
<1>15. l[q + 3] = e[1] /\ l[n] = Newline
  <2>1. 1 \in 1 .. r /\ r \in 1 .. r /\ q + 2 + 1 = q + 3
    BY <1>8
  <2> QED
    BY <1>8, <1>13, <2>1
<1>16. \A i \in 1 .. q + 2 : l[i] \notin {Return, Newline}
  <2> SUFFICES ASSUME NEW i \in 1 .. q + 2 PROVE l[i] \in Chars
    BY <1>1
  <2>1. i \in 1 .. q \/ i = q + 1 \/ i = q + 2
    OBVIOUS
  <2>2. i \in 1 .. q => token[i] \in Chars
    BY ElementOfSeq
  <2> QED
    BY <1>2, <1>14, <2>1, <2>2 DEF Chars
<1>17. ASSUME NEW i \in 1 .. n, l[i] = Newline PROVE i = n
  <2>1. i \notin 1 .. q + 2
    BY <1>16, <1>17
  <2>2. i = q + 3 \/ i = n
    BY <1>8, <1>13, <2>1
  <2>3. r = 2 => l[q + 3] # Newline
    BY <1>2, <1>8, <1>15
  <2>4. r = 1 => q + 3 = n
    BY <1>13
  <2> QED
    BY <1>8, <1>17, <2>2, <2>3, <2>4
<1>18. n >= q + 3
  BY <1>8, <1>13
<1> QED
  BY <1>8, <1>11, <1>12, <1>13, <1>14, <1>15, <1>16, <1>17, <1>18 DEF ShapeOfLine

(* It is read as a whole if it fits the buffer, and the token found in it. *)
TokenOf(token, number, ending, rest) ==
  LET n == Len(VocabLine(token, number, ending))
  IN  Fgets(rest) = n /\ Token(StripEnd(SubSeq(rest, 1, n))) = token
LEMMA LineIsRead ==
  ASSUME NEW token \in Seq(Chars), NEW number \in Letters, NEW ending \in Endings,
         NEW line, line = VocabLine(token, number, ending), Len(line) < LineBuffer,
         NEW rest \in Seq(FileChars), Len(rest) >= Len(line),
         \A i \in 1 .. Len(line) : rest[i] = line[i]
  PROVE  TokenOf(token, number, ending, rest)
<1>1. PICK q \in Nat : q = Len(token)
  OBVIOUS
<1>2. ShapeOfLine(token, number, line, q, Len(line))
  BY <1>1, LineOfVocab
<1>3. line \in Seq(FileChars) /\ \E n \in Nat : n = Len(line)
  BY <1>2 DEF ShapeOfLine
<1> PICK n \in Nat : n = Len(line)
  BY <1>3
<1>4. /\ n >= q + 3
      /\ \A i \in 1 .. q : line[i] = token[i]
      /\ line[q + 1] = Space /\ line[q + 2] = number
      /\ line[q + 3] \in {Return, Newline}
      /\ \A i \in 1 .. n : line[i] = Newline <=> i = n
      /\ \A i \in 1 .. q + 2 : line[i] \notin {Return, Newline}
  BY <1>2, <1>3 DEF ShapeOfLine
<1>5. Fgets(rest) = n
  <2>1. PICK room \in Nat : room = IF Len(rest) < LineBuffer - 1 THEN Len(rest)
                                   ELSE LineBuffer - 1
    BY TextAssumption
  <2> DEFINE ends == {i \in 1 .. room : rest[i] = Newline}
  <2>2. Fgets(rest) = IF ends = {} THEN room ELSE Least(ends)
    BY <2>1 DEF Fgets, Least
  <2>3. n <= room /\ n \in 1 .. n
    BY <1>3, <1>4, <2>1, TextAssumption
  <2>4. n \in ends
    BY <1>3, <1>4, <2>3
  <2>5. ASSUME NEW j \in ends PROVE n <= j
    <3>1. j \in Nat /\ (j <= n => j \in 1 .. n)
      OBVIOUS
    <3>2. j \in 1 .. n => j = n
      BY <1>3, <1>4
    <3> QED
      BY <3>1, <3>2
  <2>6. ends \subseteq Nat
    OBVIOUS
  <2> HIDE DEF ends
  <2>7. Least(ends) = n
    BY <2>4, <2>5, <2>6, LeastIs
  <2> QED
    BY <2>2, <2>4, <2>7
<1>6. SubSeq(rest, 1, n) = line
  <2>1. \A i \in 1 .. n : rest[i] \in FileChars
    BY <1>3
  <2>2. PICK l \in Seq(FileChars) : l = SubSeq(rest, 1, n)
    <3>1. SubSeq(rest, 1, n) \in Seq(FileChars)
      BY <2>1, SubSeqProperties
    <3> QED
      BY <3>1
  <2>3. Len(l) = n /\ \A i \in 1 .. n : l[i] = rest[i]
    BY <1>3, <2>2
  <2> QED
    BY <1>2, <1>3, <2>2, <2>3, SeqEqual
<1>7. DOMAIN line = 1 .. n
  BY <1>2, <1>3
<1>8. StripEnd(line) = SubSeq(line, 1, q + 2)
  <2> DEFINE ends == {i \in DOMAIN line : line[i] \in {Return, Newline}}
  <2>1. StripEnd(line) = IF ends = {} THEN line ELSE UpTo(line, Least(ends))
    BY DEF StripEnd, Least
  <2>2. PICK e \in Nat : e = q + 3
    OBVIOUS
  <2>3. e \in ends /\ ends \subseteq Nat
    BY <1>4, <1>7, <2>2
  <2>4. ASSUME NEW j \in ends PROVE e <= j
    <3>1. j \in 1 .. n /\ j \notin 1 .. q + 2
      BY <1>4, <1>7
    <3> QED
      BY <2>2, <3>1
  <2> HIDE DEF ends
  <2>5. Least(ends) = e
    BY <2>3, <2>4, LeastIs
  <2>6. e - 1 = q + 2
    BY <2>2
  <2> QED
    BY <2>1, <2>3, <2>5, <2>6 DEF UpTo
<1>9. PICK l \in Seq(FileChars) : l = SubSeq(line, 1, q + 2)
  <2>1. \A i \in 1 .. q + 2 : line[i] \in FileChars
    BY <1>2, <1>3, <1>4
  <2>2. SubSeq(line, 1, q + 2) \in Seq(FileChars)
    BY <2>1, SubSeqProperties
  <2> QED
    BY <2>2
<1>10. Len(l) = q + 2 /\ \A i \in 1 .. q + 2 : l[i] = line[i]
  BY <1>2, <1>3, <1>4, <1>9
<1>11. Token(l) = SubSeq(l, 1, q)
  <2> DEFINE spaces == {i \in DOMAIN l : l[i] = Space}
  <2>1. Token(l) = IF spaces = {} THEN l ELSE UpTo(l, Greatest(spaces))
    BY DEF Token, Greatest
  <2>2. PICK e \in Nat : e = q + 1
    OBVIOUS
  <2>3. DOMAIN l = 1 .. q + 2
    BY <1>10
  <2>4. e \in spaces /\ spaces \subseteq Nat
    BY <1>4, <1>10, <2>2, <2>3
  <2>5. number # Space
    BY TextAssumption DEF Blank
  <2>6. ASSUME NEW j \in spaces PROVE j <= e
    <3>1. j \in 1 .. q + 2 /\ j # q + 2
      BY <1>4, <1>10, <2>3, <2>5
    <3> QED
      BY <2>2, <3>1
  <2> HIDE DEF spaces
  <2>7. Greatest(spaces) = e
    BY <2>4, <2>6, GreatestIs
  <2>8. e - 1 = q
    BY <2>2
  <2> QED
    BY <2>1, <2>4, <2>7, <2>8 DEF UpTo
<1>12. SubSeq(l, 1, q) = token
  <2>1. token \in Seq(FileChars)
    BY DEF FileChars
  <2>2. \A i \in 1 .. q : i \in 1 .. q + 2 /\ l[i] = token[i]
    <3> SUFFICES ASSUME NEW i \in 1 .. q
                 PROVE  i \in 1 .. q + 2 /\ l[i] = token[i]
      OBVIOUS
    <3>1. i \in 1 .. q + 2
      OBVIOUS
    <3> QED
      BY <1>4, <1>10, <3>1
  <2>3. PICK u \in Seq(FileChars) : u = SubSeq(l, 1, q)
    <3>1. \A i \in 1 .. q : l[i] \in FileChars
      BY <1>10
    <3>2. SubSeq(l, 1, q) \in Seq(FileChars)
      BY <3>1, SubSeqProperties
    <3> QED
      BY <3>2
  <2>4. Len(u) = q /\ \A i \in 1 .. q : u[i] = l[i]
    BY <1>10, <2>3
  <2> QED
    BY <1>1, <2>1, <2>2, <2>3, <2>4, SeqEqual
<1> QED
  BY <1>3, <1>5, <1>6, <1>8, <1>9, <1>11, <1>12 DEF TokenOf

(* One round of load_vocab makes tokens of any file.                       *)
LEMMA ReadLineReads ==
  ASSUME NEW D, NEW file \in Seq(D), NEW read \in [at : Nat, vocab : Seq(Seq(D))]
  PROVE  ReadLine(file, read) \in [at : Nat, vocab : Seq(Seq(D))]
<1>1. PICK a \in Nat, v \in Seq(Seq(D)) : a = read.at /\ v = read.vocab
  OBVIOUS
<1>2. PICK n \in Nat : n = Len(file)
  OBVIOUS
<1>3. PICK rest \in Seq(D) : rest = SubSeq(file, a + 1, n)
  <2>1. \A i \in a + 1 .. n : file[i] \in D
    BY <1>2
  <2>2. SubSeq(file, a + 1, n) \in Seq(D)
    BY <2>1, SubSeqProperties
  <2> QED
    BY <2>2
<1>4. PICK len \in Nat : len = Fgets(rest)
  BY PartsOfLine
<1>5. PICK line : line = SubSeq(rest, 1, len)
  OBVIOUS
<1>6. ReadLine(file, read) =
        IF a = n THEN read
        ELSE [at |-> a + len, vocab |-> Append(v, Token(StripEnd(line)))]
  BY <1>1, <1>2, <1>3, <1>4, <1>5 DEF ReadLine
<1>7. len <= Len(rest)
  <2>1. PICK room \in Nat : /\ room = IF Len(rest) < LineBuffer - 1 THEN Len(rest)
                                      ELSE LineBuffer - 1
                            /\ room <= Len(rest)
    BY TextAssumption
  <2> DEFINE ends == {i \in 1 .. room : rest[i] = Newline}
  <2>2. Fgets(rest) = IF ends = {} THEN room ELSE Least(ends)
    BY <2>1 DEF Fgets, Least
  <2>3. ends \subseteq 1 .. room /\ ends \subseteq Nat
    OBVIOUS
  <2> HIDE DEF ends
  <2>4. ends # {} => Least(ends) \in 1 .. room
    BY <2>3, LeastElement DEF Least
  <2> QED
    BY <1>4, <2>1, <2>2, <2>4
<1>8. line \in Seq(D)
  <2>1. \A i \in 1 .. len : rest[i] \in D
    BY <1>7
  <2>2. SubSeq(rest, 1, len) \in Seq(D)
    BY <2>1, SubSeqProperties
  <2> QED
    BY <1>5, <2>2
<1>9. StripEnd(line) \in Seq(D)
  BY <1>8, PartsOfLine
<1>10. Token(StripEnd(line)) \in Seq(D)
  BY <1>9, PartsOfLine
<1>11. Append(v, Token(StripEnd(line))) \in Seq(Seq(D))
  BY <1>10, Appended
<1> QED
  BY <1>6, <1>11

(* Each round works on what the one before it has left.                    *)
Rounds(file) ==
  /\ ReadLines(file)[0] = [at |-> 0, vocab |-> <<>>]
  /\ \A i \in 1 .. Len(file) :
       ReadLines(file)[i] = ReadLine(file, ReadLines(file)[i - 1])
LEMMA ReadLinesSteps ==
  ASSUME NEW D, NEW file \in Seq(D)
  PROVE  Rounds(file)
<1>1. PICK n \in Nat : n = Len(file)
  OBVIOUS
<1> DEFINE S == [at : Nat, vocab : Seq(Seq(D))]
           start == [at |-> 0, vocab |-> <<>>]
           Part(f, i) == IF i = 0 THEN start ELSE ReadLine(file, f[i - 1])
           G == CHOOSE f : f = [i \in 0 .. n |-> Part(f, i)]
           F == [x \in S \X (0 .. n) |->
                   IF x[2] = 0 THEN start ELSE ReadLine(file, x[1])]
<1>2. ReadLines(file) = G
  BY <1>1 DEF ReadLines
<1>3. start \in S
  BY EmptySeq
<1>4. \A d \in S : ReadLine(file, d) \in S
  BY ReadLineReads
<1> HIDE DEF S, start
<1>5. F \in [S \X (0 .. n) -> S]
  BY <1>3, <1>4
<1>6. \A d \in S, i \in 0 .. n : i # 0 => F[<<d, i>>] = ReadLine(file, d)
  OBVIOUS
<1> HIDE DEF F
<1>7. PICK m \in Nat : m = 0
  OBVIOUS
<1>8. PICK g : /\ g \in [0 .. n -> S] /\ g[0] = start
               /\ \A i \in 0 .. n : i # 0 => g[i] = F[<<g[i - 1], i>>]
  <2>1. F \in [S \X (m .. n) -> S]
    BY <1>5, <1>7
  <2>2. m <= n
    BY <1>7
  <2>3. Recursive(m, n, S, start, F) # {}
    BY <1>3, <2>1, <2>2, Recursion
  <2> QED
    BY <1>7, <2>3 DEF Recursive
<1>9. \A i \in 0 .. n : g[i] = Part(g, i)
  <2> SUFFICES ASSUME NEW i \in 0 .. n, i # 0 PROVE g[i] = ReadLine(file, g[i - 1])
    BY <1>8
  <2>1. g[i - 1] \in S
    BY <1>8
  <2> QED
    BY <1>6, <1>8, <2>1
<1> HIDE DEF Part
<1>10. g = [i \in 0 .. n |-> Part(g, i)]
  BY <1>8, <1>9
<1>11. G = [i \in 0 .. n |-> Part(G, i)]
  BY <1>10
<1> HIDE DEF G
<1>12. \A i \in 0 .. n : G[i] = Part(G, i)
  <2> SUFFICES ASSUME NEW i \in 0 .. n PROVE G[i] = Part(G, i)
    OBVIOUS
  <2> QED
    BY <1>11, Zenon
<1>13. G[0] = start
  BY <1>12 DEF Part
<1>14. \A i \in 1 .. n : G[i] = ReadLine(file, G[i - 1])
  <2>1. \A i \in 1 .. n : i \in 0 .. n /\ i # 0
    OBVIOUS
  <2> QED
    BY <1>12, <2>1 DEF Part
<1> QED
  BY <1>1, <1>2, <1>13, <1>14 DEF start, Rounds

(* Where the parts of what has been flattened are in it.                   *)
PartialSums(P, ps, D) ==
  /\ P \in [0 .. Len(ps) -> Seq(D)] /\ P[0] = <<>>
  /\ \A i \in 1 .. Len(ps) : P[i] = P[i - 1] \o ps[i]
  /\ FlattenSeq(ps) = P[Len(ps)]
LEMMA PartsAddUp ==
  ASSUME NEW D, NEW ps \in Seq(Seq(D))
  PROVE  \E P : PartialSums(P, ps, D)
<1>1. PICK n \in Nat : n = Len(ps)
  OBVIOUS
<1>2. <<>> \in Seq(D)
  BY EmptySeq
<1>3. CASE ps = <<>>
  <2>1. PICK P : P = [i \in 0 .. 0 |-> <<>>]
    OBVIOUS
  <2>2. P \in [0 .. 0 -> Seq(D)] /\ P[0] = <<>>
    BY <1>2, <2>1
  <2>3. Len(ps) = 0 /\ FlattenSeq(ps) = <<>>
    BY <1>3 DEF FlattenSeq
  <2> QED
    BY <2>2, <2>3 DEF PartialSums
<1>4. CASE ps # <<>>
  <2>1. PICK f : /\ f \in [1 .. n -> Seq(D)] /\ f[1] = ps[1]
                 /\ \A i \in 1 .. n : i # 1 => f[i] = f[i - 1] \o ps[i]
                 /\ FlattenSeq(ps) = f[n]
    <3>1. \E f \in [1 .. Len(ps) -> Seq(D)] :
            /\ f[1] = ps[1]
            /\ \A i \in 1 .. Len(ps) : i # 1 => f[i] = f[i - 1] \o ps[i]
            /\ FlattenSeq(ps) = f[Len(ps)]
      BY <1>4, Flattening
    <3> QED
      BY <1>1, <3>1
  <2>2. PICK P : P = [i \in 0 .. n |-> IF i = 0 THEN <<>> ELSE f[i]]
    OBVIOUS
  <2>3. n >= 1 /\ \A i \in 1 .. n : i \in 0 .. n /\ i # 0 /\ i - 1 \in 0 .. n
    BY <1>1, <1>4
  <2>4. \A i \in 0 .. n : P[i] \in Seq(D)
    <3> SUFFICES ASSUME NEW i \in 0 .. n PROVE P[i] \in Seq(D)
      OBVIOUS
    <3>1. i # 0 => i \in 1 .. n
      OBVIOUS
    <3> QED
      BY <1>2, <2>1, <2>2, <3>1
  <2>5. P \in [0 .. n -> Seq(D)]
    BY <2>2, <2>4
  <2>6. P[0] = <<>> /\ \A i \in 1 .. n : P[i] = f[i]
    BY <2>2, <2>3
  <2>7. ASSUME NEW i \in 1 .. n PROVE P[i] = P[i - 1] \o ps[i]
    <3>1. CASE i = 1
      <4>1. ps[1] \in Seq(D) /\ P[1] = ps[1]
        BY <1>1, <2>1, <2>3, <2>6
      <4>2. <<>> \o ps[1] = ps[1]
        BY <4>1, ConcatEmptySeq
      <4>3. i - 1 = 0
        BY <3>1
      <4> QED
        BY <2>6, <3>1, <4>1, <4>2, <4>3
    <3>2. CASE i # 1
      <4>1. i - 1 \in 1 .. n
        BY <3>2
      <4> QED
        BY <2>1, <2>6, <3>2, <4>1
    <3> QED
      BY <3>1, <3>2
  <2>8. P[n] = f[n]
    BY <2>3, <2>6
  <2> QED
    BY <1>1, <2>1, <2>5, <2>6, <2>7, <2>8 DEF PartialSums
<1> QED
  BY <1>3, <1>4

(* What has been put together up to any part begins the whole.             *)
Prefix(a, b) == Len(a) <= Len(b) /\ \A i \in 1 .. Len(a) : b[i] = a[i]
LEMMA PrefixOfFlattened ==
  ASSUME NEW D, NEW ps \in Seq(Seq(D)), NEW P, PartialSums(P, ps, D)
  PROVE  \A k \in 0 .. Len(ps) : Prefix(P[k], FlattenSeq(ps))
<1>1. PICK n \in Nat : n = Len(ps)
  OBVIOUS
<1>2. /\ P \in [0 .. n -> Seq(D)] /\ FlattenSeq(ps) = P[n]
      /\ \A i \in 1 .. n : P[i] = P[i - 1] \o ps[i]
  BY <1>1 DEF PartialSums
<1> DEFINE T == {j \in Nat : j <= n => \A k \in 0 .. j : Prefix(P[k], P[j])}
<1>3. \A j \in 0 .. n : Prefix(P[j], P[j])
  BY <1>2 DEF Prefix
<1>4. 0 \in T
  <2>1. \A k \in 0 .. 0 : k = 0
    OBVIOUS
  <2> QED
    BY <1>3, <2>1
<1>5. ASSUME NEW j \in Nat, j >= 0, j \in T PROVE j + 1 \in T
  <2>1. PICK l \in Nat : l = j + 1
    OBVIOUS
  <2> SUFFICES ASSUME l <= n, NEW k \in 0 .. l PROVE Prefix(P[k], P[l])
    BY <2>1
  <2>2. CASE k = l
    BY <1>3, <2>2
  <2>3. CASE k # l
    <3>1. k \in 0 .. j /\ j \in 0 .. n /\ l \in 1 .. n /\ l - 1 = j /\ k \in 0 .. n
      BY <2>1, <2>3
    <3>2. Prefix(P[k], P[j])
      BY <1>5, <2>1, <3>1
    <3>3. PICK a \in Seq(D), b \in Seq(D), p \in Seq(D) :
            a = P[k] /\ b = P[j] /\ p = ps[l]
      <4>1. P[k] \in Seq(D) /\ P[j] \in Seq(D) /\ ps[l] \in Seq(D)
        BY <1>1, <1>2, <3>1, ElementOfSeq
      <4> QED
        BY <4>1
    <3>4. P[l] = b \o p
      BY <1>2, <3>1, <3>3
    <3>5. Concatenated(b, p, Len(b), Len(p))
      BY Concatenation
    <3>6. Len(a) \in Nat /\ Len(b) \in Nat /\ Len(p) \in Nat
      OBVIOUS
    <3>7. Len(a) <= Len(b) /\ \A i \in 1 .. Len(a) : b[i] = a[i]
      BY <3>2, <3>3 DEF Prefix
    <3>8. Len(a) <= Len(b \o p)
      BY <3>5, <3>6, <3>7 DEF Concatenated
    <3>9. ASSUME NEW i \in 1 .. Len(a) PROVE (b \o p)[i] = a[i]
      <4>1. i \in 1 .. Len(b)
        BY <3>6, <3>7
      <4> QED
        BY <3>5, <3>7, <4>1 DEF Concatenated
    <3> QED
      BY <3>3, <3>4, <3>8, <3>9 DEF Prefix
  <2> QED
    BY <2>2, <2>3
<1> HIDE DEF T
<1>6. n \in T
  <2>1. PICK m \in Nat : m = 0
    OBVIOUS
  <2>2. \A j \in Nat : j >= m => j \in T
    BY <1>4, <1>5, <2>1, Induction
  <2> QED
    BY <2>1, <2>2
<1> QED
  BY <1>1, <1>2, <1>6 DEF T

(* Whatever the tokens, load_vocab finds them in their order in a file that*)
(* has a line for each of them, if every line fits the buffer.             *)
THEOREM VocabularyIsLoaded ==
  ASSUME NEW tokens \in Seq(Seq(Chars)), NEW number \in Letters, NEW ending \in Endings,
         \A i \in DOMAIN tokens : Len(VocabLine(tokens[i], number, ending)) < LineBuffer
  PROVE  LoadVocab(VocabFile(tokens, number, ending)) = tokens
<1>1. PICK n \in Nat : n = Len(tokens)
  OBVIOUS
<1> DEFINE Line(i) == VocabLine(tokens[i], number, ending)
<1>2. ASSUME NEW i \in 1 .. n
      PROVE  /\ tokens[i] \in Seq(Chars) /\ Line(i) \in Seq(FileChars)
             /\ Len(Line(i)) \in Nat /\ Len(Line(i)) >= 3 /\ Len(Line(i)) < LineBuffer
  <2>1. PICK token \in Seq(Chars) : token = tokens[i]
    BY <1>1
  <2>2. PICK q \in Nat : q = Len(token)
    OBVIOUS
  <2>3. ShapeOfLine(token, number, Line(i), q, Len(Line(i)))
    BY <2>1, <2>2, LineOfVocab
  <2>4. Line(i) \in Seq(FileChars) /\ Len(Line(i)) >= q + 3
    BY <2>3 DEF ShapeOfLine
  <2>5. Len(Line(i)) < LineBuffer
    <3>1. i \in DOMAIN tokens
      BY <1>1
    <3> QED
      BY <3>1
  <2> HIDE DEF Line
  <2>6. Len(Line(i)) \in Nat
    BY <2>4
  <2> QED
    BY <2>1, <2>4, <2>5, <2>6
<1> HIDE DEF Line
<1>3. PICK ps \in Seq(Seq(FileChars)) : ps = [i \in 1 .. n |-> Line(i)]
  <2>1. [i \in 1 .. n |-> Line(i)] \in [1 .. n -> Seq(FileChars)]
    BY <1>2
  <2>2. [i \in 1 .. n |-> Line(i)] \in Seq(Seq(FileChars))
    BY <2>1, FunctionIsSeq
  <2> QED
    BY <2>2
<1>4. Len(ps) = n /\ \A i \in 1 .. n : ps[i] = Line(i)
  BY <1>3
<1>5. VocabFile(tokens, number, ending) = FlattenSeq(ps)
  <2>1. DOMAIN tokens = 1 .. n
    BY <1>1
  <2> QED
    BY <1>3, <2>1 DEF VocabFile, Line
<1>6. PICK P : PartialSums(P, ps, FileChars)
  BY <1>3, PartsAddUp
<1>7. PICK file \in Seq(FileChars) : file = FlattenSeq(ps) /\ file = P[n]
  <2>1. FlattenSeq(ps) = P[n] /\ P[n] \in Seq(FileChars)
    BY <1>4, <1>6 DEF PartialSums
  <2> QED
    BY <2>1
<1>8. /\ \A i \in 0 .. n : P[i] \in Seq(FileChars)
      /\ P[0] = <<>> /\ \A i \in 1 .. n : P[i] = P[i - 1] \o Line(i)
  BY <1>4, <1>6 DEF PartialSums
<1>9. \A k \in 0 .. n : Prefix(P[k], file)
  BY <1>4, <1>6, <1>7, PrefixOfFlattened
<1>10. Rounds(file)
  BY ReadLinesSteps
<1>11. PICK z \in Nat : z = Len(file)
  OBVIOUS
<1>12. PICK m \in Nat : m = 0
  OBVIOUS
<1> DEFINE Read == ReadLines(file)
           T == {k \in Nat : k <= n =>
                   /\ Len(P[k]) \in Nat /\ k <= Len(P[k])
                   /\ Read[k] = [at |-> Len(P[k]), vocab |-> SubSeq(tokens, 1, k)]}
<1>13. 0 \in T
  <2>1. Len(P[0]) = 0
    BY <1>8, EmptySeq
  <2>2. SubSeq(tokens, 1, 0) = <<>>
    BY SubSeqEmpty
  <2>3. Read[0] = [at |-> 0, vocab |-> <<>>]
    BY <1>10 DEF Rounds
  <2> QED
    BY <2>1, <2>2, <2>3
<1>14. ASSUME NEW k \in Nat, k >= 0, k \in T PROVE k + 1 \in T
  <2>1. PICK l \in Nat : l = k + 1
    OBVIOUS
  <2> SUFFICES ASSUME l <= n
               PROVE  /\ Len(P[l]) \in Nat /\ l <= Len(P[l])
                      /\ Read[l] = [at |-> Len(P[l]), vocab |-> SubSeq(tokens, 1, l)]
    BY <2>1
  <2>2. /\ Len(P[k]) \in Nat /\ k <= Len(P[k])
        /\ Read[k] = [at |-> Len(P[k]), vocab |-> SubSeq(tokens, 1, k)]
    BY <1>14, <2>1
  <2>3. l \in 1 .. n /\ l - 1 = k /\ k \in 0 .. n /\ l \in 0 .. n
    BY <2>1
  <2>4. PICK line \in Seq(FileChars) : line = Line(l)
    BY <1>2, <2>3
  <2>5. PICK w \in Nat : w = Len(line) /\ w >= 3 /\ w < LineBuffer
    BY <1>2, <2>3, <2>4
  <2>6. PICK b \in Seq(FileChars) : b = P[k]
    BY <1>8, <2>3
  <2>7. PICK a \in Nat : a = Len(b) /\ a = Len(P[k])
    BY <2>6
  <2>8. P[l] = b \o line
    BY <1>8, <2>3, <2>4, <2>6
  <2>9. Concatenated(b, line, a, w)
    BY <2>5, <2>7, Concatenation
  <2>10. Len(P[l]) = a + w /\ a + w \in Nat /\ l <= a + w
    BY <2>1, <2>2, <2>5, <2>7, <2>8, <2>9 DEF Concatenated
  <2>11. a + w <= z /\ \A i \in 1 .. a + w : file[i] = P[l][i]
    BY <1>9, <1>11, <2>3, <2>10 DEF Prefix
  <2>12. ASSUME NEW i \in 1 .. w PROVE file[a + i] = line[i]
    <3>1. a + i \in 1 .. a + w
      OBVIOUS
    <3> QED
      BY <2>8, <2>9, <2>11, <3>1 DEF Concatenated
  <2>13. PICK rest \in Seq(FileChars) : rest = SubSeq(file, a + 1, z)
    <3>1. \A i \in a + 1 .. z : file[i] \in FileChars
      BY <1>11
    <3>2. SubSeq(file, a + 1, z) \in Seq(FileChars)
      BY <3>1, SubSeqProperties
    <3> QED
      BY <3>2
  <2>14. Len(rest) = z - a /\ \A i \in 1 .. w : rest[i] = line[i]
    <3>1. Len(rest) = z - a /\ \A i \in 1 .. z - a : rest[i] = file[a + i]
      BY <1>11, <2>5, <2>11, <2>13
    <3>2. \A i \in 1 .. w : i \in 1 .. z - a
      BY <2>11
    <3> QED
      BY <2>12, <3>1, <3>2
  <2>15. PICK token \in Seq(Chars) : token = tokens[l]
    BY <1>2, <2>3
  <2>16. line = VocabLine(token, number, ending)
    BY <2>4, <2>15 DEF Line
  <2>17. TokenOf(token, number, ending, rest)
    <3>1. Len(rest) >= Len(line) /\ Len(line) < LineBuffer
      BY <2>5, <2>11, <2>14
    <3>2. \A i \in 1 .. Len(line) : rest[i] = line[i]
      BY <2>5, <2>14
    <3> QED
      BY <2>16, <3>1, <3>2, LineIsRead
  <2>18. Fgets(rest) = w /\ Token(StripEnd(SubSeq(rest, 1, w))) = token
    BY <2>5, <2>16, <2>17 DEF TokenOf
  <2>19. a # z
    BY <2>5, <2>11
  <2>20. PICK v : v = SubSeq(tokens, 1, k)
    OBVIOUS
  <2>21. Read[k] = [at |-> a, vocab |-> v]
    BY <2>2, <2>7, <2>20
  <2>22. Read[l] = ReadLine(file, Read[k])
    <3>1. l \in 1 .. Len(file)
      BY <1>11, <2>3, <2>10, <2>11
    <3> QED
      BY <1>10, <2>3, <3>1 DEF Rounds
  <2>23. ReadLine(file, [at |-> a, vocab |-> v])
           = [at |-> a + w, vocab |-> Append(v, token)]
    BY <1>11, <2>13, <2>18, <2>19 DEF ReadLine
  <2>24. Append(v, token) = SubSeq(tokens, 1, l)
    BY <1>1, <2>1, <2>15, <2>20
  <2> QED
    BY <2>10, <2>21, <2>22, <2>23, <2>24
<1> HIDE DEF T
<1>15. n \in T
  <2>1. \A k \in Nat : k >= m => k \in T
    BY <1>12, <1>13, <1>14, Induction
  <2> QED
    BY <1>12, <2>1
<1>16. n <= z /\ Read[n] = [at |-> z, vocab |-> tokens]
  <2>1. SubSeq(tokens, 1, n) = tokens
    BY <1>1, SubSeqFull
  <2> QED
    BY <1>7, <1>11, <1>15, <2>1 DEF T
<1> DEFINE U == {k \in Nat : k <= z => Read[k] = [at |-> z, vocab |-> tokens]}
<1>17. n \in U
  BY <1>16
<1>18. ASSUME NEW k \in Nat, k >= n, k \in U PROVE k + 1 \in U
  <2>1. PICK l \in Nat : l = k + 1
    OBVIOUS
  <2> SUFFICES ASSUME l <= z PROVE Read[l] = [at |-> z, vocab |-> tokens]
    BY <2>1
  <2>2. Read[k] = [at |-> z, vocab |-> tokens]
    BY <1>18, <2>1
  <2>3. l \in 1 .. Len(file) /\ l - 1 = k
    BY <1>11, <2>1
  <2>4. Read[l] = ReadLine(file, Read[k])
    BY <1>10, <2>3 DEF Rounds
  <2>5. ReadLine(file, [at |-> z, vocab |-> tokens]) = [at |-> z, vocab |-> tokens]
    BY <1>11 DEF ReadLine
  <2> QED
    BY <2>2, <2>4, <2>5
<1> HIDE DEF U
<1>19. z \in U
  <2>1. \A k \in Nat : k >= n => k \in U
    BY <1>17, <1>18, Induction
  <2> QED
    BY <1>16, <2>1
<1>20. Read[Len(file)].vocab = tokens
  BY <1>11, <1>19 DEF U
<1> QED
  BY <1>5, <1>7, <1>20 DEF LoadVocab

(* Whatever vocabulary is picked, load_vocab finds its tokens.             *)
THEOREM TokensAreLoaded == Spec => []VocabIsTokens
<1> DEFINE IsVocab ==
             input.of = "vocab" => /\ input.tokens \in Seq(Seq(Chars))
                                   /\ input.number \in Letters
                                   /\ input.ending \in Endings
<1>1. Init => IsVocab
  BY DEF Init, None
<1>2. IsVocab /\ [Next]_input => IsVocab'
  <2> SUFFICES ASSUME IsVocab, [Next]_input PROVE IsVocab'
    OBVIOUS
  <2>1. CASE Loads
    <3>1. PICK k \in 0 .. MaxTokens : \E tokens \in [1 .. k -> Strings(2)] :
          \E ending \in Endings, number \in Letters :
            input' = [of |-> "vocab", tokens |-> tokens,
                      number |-> number, ending |-> ending]
      BY <2>1 DEF Loads, Endings
    <3>2. PICK tokens \in [1 .. k -> Strings(2)] :
          \E ending \in Endings, number \in Letters :
            input' = [of |-> "vocab", tokens |-> tokens,
                      number |-> number, ending |-> ending]
      BY <3>1
    <3>3. k \in Nat
      BY InputAssumption
    <3>4. \A str \in Strings(2) : str \in Seq(Chars)
      <4> SUFFICES ASSUME NEW str \in Strings(2) PROVE str \in Seq(Chars)
        OBVIOUS
      <4>1. PICK j \in 0 .. 2 : str \in [1 .. j -> Chars]
        BY DEF Strings, Chars
      <4>2. j \in Nat
        OBVIOUS
      <4> QED
        BY <4>1, <4>2, FunctionIsSeq
    <3>5. tokens \in [1 .. k -> Seq(Chars)]
      BY <3>4
    <3>6. tokens \in Seq(Seq(Chars))
      BY <3>3, <3>5, FunctionIsSeq
    <3> QED
      BY <3>2, <3>6
  <2>2. CASE Transforms \/ Extracts \/ Normalizes
    <3>1. input'.of # "vocab"
      BY <2>2 DEF Transforms, Extracts, Normalizes
    <3> QED
      BY <3>1
  <2>3. CASE UNCHANGED input
    BY <2>3
  <2> QED
    BY <2>1, <2>2, <2>3 DEF Next
<1>3. IsVocab => VocabIsTokens
  BY VocabularyIsLoaded DEF VocabIsTokens, LinesFit
<1> QED
  BY <1>1, <1>2, <1>3, PTL DEF Spec

-----------------------------------------------------------------------------
(* Frames.                                                                 *)

(* The margins make the padded audio as long as a window, or longer.       *)
LEMMA WindowFits ==
  ASSUME NEW num \in Nat \ {0}, NEW win \in Nat \ {0}
  PROVE  /\ Pad(win) \in Nat /\ PaddedLength(num, win) \in Nat
         /\ PaddedLength(num, win) - win \in Nat
BY DEF Pad, PaddedLength

(* Truncating division: as many hops as the quotient says do fit.          *)
LEMMA HopsFit ==
  ASSUME NEW x \in Nat, NEW hop \in Nat \ {0}, NEW f \in 0 .. x \div hop
  PROVE  f * hop \in Nat /\ f * hop <= x
<1>1. x \div hop \in Nat /\ (x \div hop) * hop <= x
  BY Z3
<1>2. f \in Nat /\ f <= x \div hop
  BY <1>1
<1>3. \A q \in Nat : f <= q => f * hop <= q * hop
  BY <1>2
<1>4. f * hop <= (x \div hop) * hop
  BY <1>1, <1>2, <1>3
<1>5. f * hop \in Nat /\ (x \div hop) * hop \in Nat
  BY <1>1, <1>2
<1> QED
  BY <1>1, <1>4, <1>5

(* Wherever a frame reads, it reads a copy of a sample of the audio.       *)
LEMMA CopiesOfTheAudio ==
  ASSUME NEW num \in Nat \ {0}, NEW win \in Nat \ {0},
         NEW p \in 0 .. PaddedLength(num, win) - 1
  PROVE  PaddedSource(num, win, p) \in 0 .. num - 1
BY DEF PaddedSource, PaddedLength, Pad, LeftSource, RightSource, Lesser, Greater

(* The last frame ends inside the padded buffer, and no entry of it is     *)
(* taken from outside the audio, however short the audio is: what          *)
(* mel_processor_extract reads was all written.                            *)
THEOREM FramesStayInside ==
  \A num, win, hop \in Nat \ {0} : ReadsInBounds(num, win, hop)
<1> SUFFICES ASSUME NEW num \in Nat \ {0}, NEW win \in Nat \ {0},
                    NEW hop \in Nat \ {0},
                    NEW f \in 0 .. NumFrames(num, win, hop) - 1,
                    NEW p \in Reads(win, hop, f)
             PROVE  /\ p \in 0 .. PaddedLength(num, win) - 1
                    /\ PaddedSource(num, win, p) \in 0 .. num - 1
  BY DEF ReadsInBounds
<1> DEFINE x == PaddedLength(num, win) - win
<1>1. x \in Nat /\ PaddedLength(num, win) \in Nat
  BY WindowFits
<1>2. f \in 0 .. x \div hop
  BY <1>1 DEF NumFrames
<1> HIDE DEF x
<1>3. f * hop \in Nat /\ f * hop <= x
  BY <1>1, <1>2, HopsFit
<1>4. p \in 0 .. PaddedLength(num, win) - 1
  BY <1>1, <1>3 DEF Reads, x
<1> QED
  BY <1>4, CopiesOfTheAudio

(* The margins are the audio mirrored in its first and its last sample, as *)
(* long as there is more audio than margin.                                *)
THEOREM MarginsMirror ==
  \A num, win \in Nat \ {0} : Reflected(num, win)
<1> SUFFICES ASSUME NEW num \in Nat \ {0}, NEW win \in Nat \ {0},
                    num > Pad(win), NEW i \in 1 .. Pad(win)
             PROVE  LET first == Pad(win)  last == Pad(win) + num - 1
                    IN  /\ PaddedSource(num, win, first - i)
                             = PaddedSource(num, win, first + i)
                        /\ PaddedSource(num, win, last + i)
                             = PaddedSource(num, win, last - i)
  BY DEF Reflected
<1>1. Pad(win) \in Nat
  BY DEF Pad
<1> QED
  BY <1>1 DEF PaddedSource, LeftSource, RightSource, Lesser, Greater

(* Whatever audio, window and hop are picked, the frames read nothing but  *)
(* copies of samples of the audio, mirrored at both ends.                  *)
THEOREM EveryFrameReadsTheAudio == Spec => []FramesReadTheAudio
<1> DEFINE Lengthy ==
             input.of = "mel" => {input.num, input.win, input.hop} \subseteq Nat \ {0}
<1>1. Init => Lengthy
  BY DEF Init, None
<1>2. Lengthy /\ [Next]_input => Lengthy'
  <2> SUFFICES ASSUME Lengthy, [Next]_input PROVE Lengthy'
    OBVIOUS
  <2>1. CASE Extracts
    BY <2>1, InputAssumption DEF Extracts
  <2>2. CASE Transforms \/ Normalizes \/ Loads
    <3>1. input'.of # "mel"
      BY <2>2 DEF Transforms, Normalizes, Loads
    <3> QED
      BY <3>1
  <2>3. CASE UNCHANGED input
    BY <2>3
  <2> QED
    BY <2>1, <2>2, <2>3 DEF Next
<1>3. Lengthy => FramesReadTheAudio
  <2> SUFFICES ASSUME Lengthy, input.of = "mel"
               PROVE  /\ ReadsInBounds(input.num, input.win, input.hop)
                      /\ Reflected(input.num, input.win)
    BY DEF FramesReadTheAudio
  <2>1. PICK num, win, hop \in Nat \ {0} :
          num = input.num /\ win = input.win /\ hop = input.hop
    OBVIOUS
  <2>2. ReadsInBounds(num, win, hop) /\ Reflected(num, win)
    BY FramesStayInside, MarginsMirror
  <2> QED
    BY <2>1, <2>2
<1> QED
  BY <1>1, <1>2, <1>3, PTL DEF Spec

-----------------------------------------------------------------------------
(* The transform.  The powers of two, remainders and powers are first put  *)
(* as laws; nothing is assumed of Prime but that it is more than 1.        *)

(* The powers of two, from one to the next.                               *)
LEMMA TwoToSteps ==
  /\ TwoTo(0) = 1
  /\ \A e \in Nat : TwoTo(e) \in Nat /\ TwoTo(e + 1) = 2 * TwoTo(e)
<1> SUFFICES ASSUME NEW e \in Nat
             PROVE  /\ TwoTo(0) = 1 /\ TwoTo(e) \in Nat
                    /\ TwoTo(e + 1) = 2 * TwoTo(e)
  OBVIOUS
<1>1. PICK N \in Nat : N = e + 1
  OBVIOUS
<1>2. PICK m \in Nat : m = 0
  OBVIOUS
<1>3. PICK s \in Nat : s = 1
  OBVIOUS
<1> DEFINE F == [d \in Nat \X (m .. N) |-> 2 * d[1]]
           Part(f, k) == IF k = 0 THEN 1 ELSE 2 * f[k - 1]
           G(n) == CHOOSE f : f = [k \in 0 .. n |-> Part(f, k)]
<1>4. F \in [Nat \X (m .. N) -> Nat]
  OBVIOUS
<1>5. \A d \in Nat, i \in m .. N : F[<<d, i>>] = 2 * d
  OBVIOUS
<1> HIDE DEF F
<1>6. Recursive(m, N, Nat, s, F) # {}
  BY ONLY <1>2, <1>1, <1>3, <1>4, m <= N, Recursion
<1>7. PICK g : /\ g \in [0 .. N -> Nat] /\ g[0] = 1
               /\ \A i \in 0 .. N : i # 0 => g[i] = 2 * g[i - 1]
  <2>1. PICK g : g \in Recursive(m, N, Nat, s, F)
    BY <1>6
  <2>2. /\ g \in [0 .. N -> Nat] /\ g[0] = 1
        /\ \A i \in 0 .. N : i # 0 => g[i] = F[<<g[i - 1], i>>]
    BY <1>2, <1>3, <2>1 DEF Recursive
  <2>3. ASSUME NEW i \in 0 .. N, i # 0 PROVE g[i] = 2 * g[i - 1]
    <3>1. i - 1 \in 0 .. N /\ i \in m .. N
      BY <1>2, <2>3
    <3>2. g[i - 1] \in Nat
      BY <2>2, <3>1
    <3> QED
      BY <1>5, <2>2, <2>3, <3>1, <3>2
  <2> QED
    BY <2>2, <2>3
<1>8. ASSUME NEW n \in 0 .. N PROVE TwoTo(n) = g[n]
  <2> DEFINE h == [k \in 0 .. n |-> g[k]]
  <2>1. h = [k \in 0 .. n |-> Part(h, k)]
    BY <1>7
  <2>2. G(n) = [k \in 0 .. n |-> Part(G(n), k)]
    BY <2>1
  <2>3. PICK t : t = G(n)
    OBVIOUS
  <2> HIDE DEF G
  <2>4. \A k \in 0 .. n : t[k] = Part(t, k)
    BY <2>2, <2>3
  <2>5. GoAlike(m, n, t, g)
    BY <1>2, <1>7, <2>4 DEF GoAlike
  <2>6. t[n] = g[n]
    BY <1>2, <2>5, SameRecursion
  <2> USE DEF G
  <2> QED
    BY <2>3, <2>6 DEF TwoTo
<1> QED
  BY <1>1, <1>7, <1>8

Mod(a) == a % Prime
Residues == 0 .. Prime - 1

(* A number and its remainder differ by a multiple of Prime, and between   *)
(* two residues there is none.                                             *)
LEMMA Remainder ==
  \A a \in Int : Mod(a) \in Residues /\ \E q \in Int : a = q * Prime + Mod(a)
<1> SUFFICES ASSUME NEW a \in Int
             PROVE  Mod(a) \in Residues /\ \E q \in Int : a = q * Prime + Mod(a)
  OBVIOUS
<1>1. Prime \in Nat /\ Prime > 1
  BY FftAssumption
<1>2. a \div Prime \in Int /\ a = (a \div Prime) * Prime + (a % Prime) /\ a % Prime \in 0 .. Prime - 1
  BY <1>1
<1> QED
  BY <1>2 DEF Mod, Residues

(* Two residues a multiple apart are the same.                             *)
LEMMA OneRemainder ==
  ASSUME NEW r \in Residues, NEW s \in Residues, NEW q \in Int, r = q * Prime + s
  PROVE  r = s
<1>1. Prime \in Nat /\ Prime > 1
  BY FftAssumption
<1>2. CASE q >= 1
  <2>1. q * Prime >= Prime
    BY <1>1, <1>2
  <2> QED
    BY <1>1, <2>1 DEF Residues
<1>3. CASE q <= -1
  <2>1. q * Prime <= - Prime
    BY <1>1, <1>3
  <2> QED
    BY <1>1, <2>1 DEF Residues
<1>4. CASE q = 0
  BY <1>1, <1>4 DEF Residues
<1> QED
  BY <1>2, <1>3, <1>4

(* So numbers that differ by a multiple have the same remainder,           *)
LEMMA ModOf ==
  ASSUME NEW a \in Int, NEW b \in Int, NEW q \in Int, a = q * Prime + b
  PROVE  Mod(a) = Mod(b)
<1>1. PICK u \in Int, r \in Residues : r = Mod(a) /\ a = u * Prime + r
  BY Remainder
<1>2. PICK v \in Int, s \in Residues : s = Mod(b) /\ b = v * Prime + s
  BY Remainder
<1>3. Prime \in Int /\ r \in Int /\ s \in Int
  BY FftAssumption DEF Residues
<1>4. PICK d \in Int : d = q + v - u
  OBVIOUS
<1>5. r = d * Prime + s
  BY <1>1, <1>2, <1>3, <1>4
<1> QED
  BY <1>1, <1>2, <1>5, OneRemainder

(* and a multiple of Prime stays one when it is multiplied,                *)
LEMMA Distributes ==
  ASSUME NEW a \in Int, NEW b \in Int, NEW q \in Int, NEW p \in Int, NEW r \in Int,
         a = q * p + r
  PROVE  /\ a * b = (q * b) * p + r * b
         /\ a + b = q * p + (r + b)
  OBVIOUS

(* and remainders can be taken at any time.                                *)
LEMMA ModLaws ==
  /\ \A a \in Residues : Mod(a) = a
  /\ \A a, b \in Int : Mod(Mod(a) + b) = Mod(a + b)
  /\ \A a, b \in Int : Mod(Mod(a) * b) = Mod(a * b)
<1>1. ASSUME NEW a \in Residues PROVE Mod(a) = a
  <2>1. a \in Int
    BY FftAssumption DEF Residues
  <2>2. PICK q \in Int, r \in Residues : r = Mod(a) /\ a = q * Prime + r
    BY <2>1, Remainder
  <2> QED
    BY <2>2, OneRemainder
<1>2. ASSUME NEW a \in Int, NEW b \in Int
      PROVE  Mod(Mod(a) + b) = Mod(a + b) /\ Mod(Mod(a) * b) = Mod(a * b)
  <2>1. PICK q \in Int, r \in Residues : r = Mod(a) /\ a = q * Prime + r
    BY Remainder
  <2>2. Prime \in Int /\ r \in Int
    BY FftAssumption DEF Residues
  <2>3. /\ a * b = (q * b) * Prime + r * b
        /\ a + b = q * Prime + (r + b)
    BY ONLY <2>1, <2>2, a \in Int, b \in Int, q \in Int, Distributes
  <2>4. PICK s \in Int, t \in Int : s = a + b /\ t = r + b
    BY <2>2
  <2>5. PICK u \in Int, v \in Int, p \in Int : u = a * b /\ v = r * b /\ p = q * b
    BY <2>2
  <2>6. Mod(s) = Mod(t) /\ Mod(u) = Mod(v)
    <3>1. s = q * Prime + t /\ u = p * Prime + v
      BY <2>3, <2>4, <2>5
    <3>2. Mod(s) = Mod(t)
      BY ONLY <3>1, q \in Int, s \in Int, t \in Int, ModOf
    <3>3. Mod(u) = Mod(v)
      BY ONLY <3>1, p \in Int, u \in Int, v \in Int, ModOf
    <3> QED
      BY <3>2, <3>3
  <2> QED
    BY <2>1, <2>4, <2>5, <2>6
<1> QED
  BY <1>1, <1>2

(* The powers of a number,                                                 *)
LEMMA PowerSteps ==
  ASSUME NEW b \in Nat
  PROVE  /\ Power(b, 0) = 1
         /\ \A e \in Nat : /\ Power(b, e) \in Residues
                           /\ Power(b, e + 1) = Mod(Power(b, e) * b)
<1> SUFFICES ASSUME NEW e \in Nat
             PROVE  /\ Power(b, 0) = 1 /\ Power(b, e) \in Residues
                    /\ Power(b, e + 1) = Mod(Power(b, e) * b)
  OBVIOUS
<1>1. PICK N \in Nat : N = e + 1
  OBVIOUS
<1>2. PICK m \in Nat : m = 0
  OBVIOUS
<1>3. PICK s \in Residues : s = 1
  BY FftAssumption DEF Residues
<1> DEFINE F == [d \in Residues \X (m .. N) |-> Mod(d[1] * b)]
           Part(f, k) == IF k = 0 THEN 1 ELSE (f[k - 1] * b) % Prime
           G(n) == CHOOSE f : f = [k \in 0 .. n |-> Part(f, k)]
<1>4. F \in [Residues \X (m .. N) -> Residues]
  <2>1. \A d \in Residues : d * b \in Int
    BY FftAssumption DEF Residues
  <2> QED
    BY <2>1, Remainder
<1>5. \A d \in Residues, i \in m .. N : F[<<d, i>>] = Mod(d * b)
  OBVIOUS
<1> HIDE DEF F
<1>6. Recursive(m, N, Residues, s, F) # {}
  BY ONLY <1>2, <1>1, <1>3, <1>4, m <= N, Recursion
<1>7. PICK g : /\ g \in [0 .. N -> Residues] /\ g[0] = 1
               /\ \A i \in 0 .. N : i # 0 => g[i] = Mod(g[i - 1] * b)
  <2>1. PICK g : g \in Recursive(m, N, Residues, s, F)
    BY <1>6
  <2>2. /\ g \in [0 .. N -> Residues] /\ g[0] = 1
        /\ \A i \in 0 .. N : i # 0 => g[i] = F[<<g[i - 1], i>>]
    BY <1>2, <1>3, <2>1 DEF Recursive
  <2>3. ASSUME NEW i \in 0 .. N, i # 0 PROVE g[i] = Mod(g[i - 1] * b)
    <3>1. i - 1 \in 0 .. N /\ i \in m .. N
      BY <1>2, <2>3
    <3>2. g[i - 1] \in Residues
      BY <2>2, <3>1
    <3> QED
      BY <1>5, <2>2, <2>3, <3>1, <3>2
  <2> QED
    BY <2>2, <2>3
<1>8. ASSUME NEW n \in 0 .. N PROVE Power(b, n) = g[n]
  <2> DEFINE h == [k \in 0 .. n |-> g[k]]
  <2>1. h = [k \in 0 .. n |-> Part(h, k)]
    BY <1>7 DEF Mod
  <2>2. G(n) = [k \in 0 .. n |-> Part(G(n), k)]
    BY <2>1
  <2>3. PICK t : t = G(n)
    OBVIOUS
  <2> HIDE DEF G
  <2>4. \A k \in 0 .. n : t[k] = Part(t, k)
    BY <2>2, <2>3
  <2>5. GoAlike(m, n, t, g)
    BY <1>2, <1>7, <2>4 DEF GoAlike, Mod
  <2>6. t[n] = g[n]
    BY <1>2, <2>5, SameRecursion
  <2> USE DEF G
  <2> QED
    BY <2>3, <2>6 DEF Power
<1> QED
  BY <1>1, <1>7, <1>8

(* Remainders and powers are numbers to count with.                        *)
LEMMA ResiduesAreNumbers == Residues \subseteq Nat /\ 0 \in Residues /\ 1 \in Residues
  BY FftAssumption DEF Residues

(* A remainder is a residue.                                               *)
LEMMA ModIsNumber ==
  ASSUME NEW a \in Int
  PROVE  Mod(a) \in Residues /\ Mod(a) \in Nat /\ Mod(a) \in Int
<1>1. Mod(a) \in Residues
  BY Remainder
<1>2. Mod(a) \in Nat
  BY <1>1, ResiduesAreNumbers
<1> QED
  BY <1>1, <1>2

(* A power is a residue.                                                   *)
LEMMA PowersAreResidues ==
  \A b, e \in Nat : Power(b, e) \in Residues /\ Power(b, e) \in Nat
  BY PowerSteps, ResiduesAreNumbers

(* A remainder may be taken anywhere in a product of three.                *)
LEMMA ModProduct ==
  ASSUME NEW a \in Int, NEW b \in Int, NEW c \in Int
  PROVE  /\ Mod(Mod(a * b) * c) = Mod(a * Mod(b * c))
         /\ Mod(a * Mod(b)) = Mod(a * b)
<1>1. \A k \in Int : Mod(k) \in Int
  BY ModIsNumber
<1>2. ASSUME NEW x \in Int, NEW y \in Int PROVE Mod(x * Mod(y)) = Mod(x * y)
  <2>1. Mod(Mod(y) * x) = Mod(y * x)
    BY ModLaws
  <2>2. Mod(y) * x = x * Mod(y) /\ y * x = x * y
    BY <1>1
  <2> QED
    BY <2>1, <2>2
<1>3. PICK u \in Int, v \in Int : u = a * b /\ v = b * c
  OBVIOUS
<1>4. u * c = a * v
  BY <1>3
<1>5. Mod(Mod(u) * c) = Mod(u * c)
  BY ModLaws
<1>6. Mod(a * Mod(v)) = Mod(a * v) /\ Mod(a * Mod(b)) = Mod(a * b)
  BY <1>2
<1> QED
  BY ONLY <1>3, <1>4, <1>5, <1>6

(* The exponent of a product is a sum,                                     *)
LEMMA PowerAdds ==
  ASSUME NEW b \in Nat, NEW a \in Nat
  PROVE  \A c \in Nat : Power(b, a + c) = Mod(Power(b, a) * Power(b, c))
<1> DEFINE T == {c \in Nat : Power(b, a + c) = Mod(Power(b, a) * Power(b, c))}
<1>1. PICK m \in Nat : m = 0
  OBVIOUS
<1>2. \A e \in Nat : Power(b, e) \in Residues /\ Power(b, e) \in Int
  BY PowersAreResidues
<1>3. m \in T
  <2>1. Power(b, a) * 1 = Power(b, a) /\ a + 0 = a
    BY <1>2
  <2> QED
    BY <1>1, <1>2, <2>1, PowerSteps, ModLaws
<1>4. ASSUME NEW c \in Nat, c >= m, c \in T PROVE c + 1 \in T
  <2>1. PICK d \in Nat, s \in Nat : d = c + 1 /\ s = a + c
    OBVIOUS
  <2>2. a + d = s + 1
    BY <2>1
  <2>3. Power(b, a + d) = Mod(Power(b, s) * b)
    BY <2>2, PowerSteps
  <2>4. Power(b, d) = Mod(Power(b, c) * b)
    BY <2>1, PowerSteps
  <2>5. Power(b, s) = Mod(Power(b, a) * Power(b, c))
    BY <1>4, <2>1
  <2>6. Mod(Mod(Power(b, a) * Power(b, c)) * b) = Mod(Power(b, a) * Mod(Power(b, c) * b))
    <3>1. PICK x \in Int, y \in Int : x = Power(b, a) /\ y = Power(b, c)
      BY <1>2
    <3>2. b \in Int
      OBVIOUS
    <3>3. Mod(Mod(x * y) * b) = Mod(x * Mod(y * b))
      BY ONLY <3>1, <3>2, ModProduct
    <3> QED
      BY <3>1, <3>3
  <2> QED
    BY <2>1, <2>3, <2>4, <2>5, <2>6
<1> HIDE DEF T
<1>5. \A c \in Nat : c >= m => c \in T
  BY <1>3, <1>4, Induction
<1> QED
  BY <1>1, <1>5 DEF T

(* that of a power is a product,                                           *)
LEMMA PowerMultiplies ==
  ASSUME NEW b \in Nat, NEW a \in Nat
  PROVE  \A c \in Nat : Power(Power(b, a), c) = Power(b, a * c)
<1> DEFINE T == {c \in Nat : Power(Power(b, a), c) = Power(b, a * c)}
<1>1. PICK m \in Nat : m = 0
  OBVIOUS
<1>2. PICK r \in Nat : r = Power(b, a)
  BY PowersAreResidues
<1>3. m \in T
  <2>1. a * 0 = 0
    OBVIOUS
  <2> QED
    BY <1>1, <1>2, <2>1, PowerSteps
<1>4. ASSUME NEW c \in Nat, c >= m, c \in T PROVE c + 1 \in T
  <2>1. PICK d \in Nat, s \in Nat : d = c + 1 /\ s = a * c
    OBVIOUS
  <2>2. a * d = s + a
    BY <2>1
  <2>3. Power(r, d) = Mod(Power(r, c) * r)
    BY <2>1, PowerSteps
  <2>4. Power(b, s + a) = Mod(Power(b, s) * Power(b, a))
    BY PowerAdds
  <2> QED
    BY <1>2, <1>4, <2>1, <2>2, <2>3, <2>4
<1> HIDE DEF T
<1>5. \A c \in Nat : c >= m => c \in T
  BY <1>3, <1>4, Induction
<1> QED
  BY <1>1, <1>5 DEF T

(* and one that has the power 1 adds nothing.                              *)
LEMMA PowerRepeats ==
  ASSUME NEW b \in Nat, NEW p \in Nat, Power(b, p) = 1, NEW a \in Nat
  PROVE  \A c \in Nat : Power(b, a + p * c) = Power(b, a)
<1> DEFINE T == {c \in Nat : Power(b, a + p * c) = Power(b, a)}
<1>1. PICK m \in Nat : m = 0
  OBVIOUS
<1>2. m \in T
  <2>1. a + p * 0 = a
    OBVIOUS
  <2> QED
    BY <1>1, <2>1
<1>3. ASSUME NEW c \in Nat, c >= m, c \in T PROVE c + 1 \in T
  <2>1. PICK d \in Nat, s \in Nat : d = c + 1 /\ s = a + p * c
    OBVIOUS
  <2>2. a + p * d = s + p
    BY <2>1
  <2>3. Power(b, s + p) = Mod(Power(b, s) * Power(b, p))
    BY PowerAdds
  <2>4. Power(b, s) \in Residues /\ Power(b, s) * 1 = Power(b, s)
    <3>1. PICK x \in Nat : x \in Residues /\ x = Power(b, s)
      BY PowersAreResidues
    <3> QED
      BY <3>1
  <2>5. Mod(Power(b, s)) = Power(b, s)
    BY <2>4, ModLaws
  <2> QED
    BY <1>3, <2>1, <2>2, <2>3, <2>4, <2>5
<1> HIDE DEF T
<1>4. \A c \in Nat : c >= m => c \in T
  BY <1>2, <1>3, Induction
<1> QED
  BY <1>1, <1>4 DEF T

(* The powers of two grow; their product is one.                           *)
LEMMA TwoToGrows ==
  \A e \in Nat : /\ TwoTo(e) \in Nat /\ TwoTo(e) > e /\ TwoTo(e + 1) = 2 * TwoTo(e)
                 /\ TwoTo(e + 1) \div 2 = TwoTo(e)
<1> DEFINE T == {e \in Nat : TwoTo(e) > e}
<1>1. PICK m \in Nat : m = 0
  OBVIOUS
<1>2. m \in T
  BY <1>1, TwoToSteps
<1>3. ASSUME NEW e \in Nat, e >= m, e \in T PROVE e + 1 \in T
  <2>1. TwoTo(e) \in Nat /\ TwoTo(e) > e /\ TwoTo(e + 1) = 2 * TwoTo(e)
    BY <1>3, TwoToSteps
  <2> QED
    BY <2>1
<1> HIDE DEF T
<1>4. \A e \in Nat : e >= m => e \in T
  BY <1>2, <1>3, Induction
<1>5. ASSUME NEW e \in Nat
      PROVE  /\ TwoTo(e) \in Nat /\ TwoTo(e) > e /\ TwoTo(e + 1) = 2 * TwoTo(e)
             /\ TwoTo(e + 1) \div 2 = TwoTo(e)
  <2>1. TwoTo(e) \in Nat /\ TwoTo(e) > e /\ TwoTo(e + 1) = 2 * TwoTo(e)
    BY <1>1, <1>4, TwoToSteps DEF T
  <2>2. PICK k \in Nat : k = TwoTo(e)
    BY <2>1
  <2>3. (2 * k) \div 2 = k
    OBVIOUS
  <2> QED
    BY <2>1, <2>2, <2>3
<1> QED
  BY <1>5

(* The product of two of them is one.                                      *)
LEMMA TwoToAdds ==
  ASSUME NEW a \in Nat
  PROVE  \A c \in Nat : TwoTo(a + c) = TwoTo(a) * TwoTo(c)
<1> DEFINE T == {c \in Nat : TwoTo(a + c) = TwoTo(a) * TwoTo(c)}
<1>1. PICK m \in Nat : m = 0
  OBVIOUS
<1>2. m \in T
  <2>1. a + 0 = a /\ TwoTo(a) \in Nat /\ TwoTo(a) * 1 = TwoTo(a)
    BY TwoToSteps
  <2> QED
    BY <1>1, <2>1, TwoToSteps
<1>3. ASSUME NEW c \in Nat, c >= m, c \in T PROVE c + 1 \in T
  <2>1. PICK d \in Nat, s \in Nat : d = c + 1 /\ s = a + c
    OBVIOUS
  <2>2. a + d = s + 1
    BY <2>1
  <2>3. TwoTo(s + 1) = 2 * TwoTo(s) /\ TwoTo(d) = 2 * TwoTo(c)
    BY <2>1, TwoToSteps
  <2>4. PICK x \in Nat, y \in Nat : x = TwoTo(a) /\ y = TwoTo(c)
    BY TwoToSteps
  <2>5. x * (2 * y) = 2 * (x * y)
    OBVIOUS
  <2> QED
    BY <1>3, <2>1, <2>2, <2>3, <2>4, <2>5
<1> HIDE DEF T
<1>4. \A c \in Nat : c >= m => c \in T
  BY <1>2, <1>3, Induction
<1> QED
  BY <1>1, <1>4 DEF T

SumsAgree(a, b, x, y) ==
  Mod(Mod(Mod(a + b) + x) + y) = Mod(Mod(a + x) + Mod(b + y))
(* Sums of four, and of two, remainders.                                   *)
LEMMA ModSums ==
  ASSUME NEW a \in Int, NEW b \in Int, NEW x \in Int, NEW y \in Int
  PROVE  SumsAgree(a, b, x, y) /\ Mod(a + Mod(b)) = Mod(a + b)
<1>1. \A j, k \in Int : Mod(Mod(j) + k) = Mod(j + k)
  BY ModLaws
<1>2. \A j \in Int : Mod(j) \in Int
  BY ModIsNumber
<1>3. ASSUME NEW j \in Int, NEW k \in Int PROVE Mod(j + Mod(k)) = Mod(j + k)
  <2>1. Mod(Mod(k) + j) = Mod(k + j)
    BY <1>1
  <2>2. Mod(k) + j = j + Mod(k) /\ k + j = j + k
    BY <1>2
  <2> QED
    BY <2>1, <2>2
<1>4. PICK s \in Int, t \in Int, u \in Int : s = a + b /\ t = a + x /\ u = b + y
  OBVIOUS
<1>5. Mod(Mod(Mod(s) + x) + y) = Mod((s + x) + y)
  <2>1. Mod(Mod(s) + x) = Mod(s + x)
    BY <1>1
  <2>2. Mod(Mod(s + x) + y) = Mod((s + x) + y)
    BY <1>1
  <2> QED
    BY <2>1, <2>2
<1>6. Mod(Mod(t) + Mod(u)) = Mod(t + u)
  <2>1. Mod(Mod(t) + Mod(u)) = Mod(Mod(t) + u)
    BY <1>2, <1>3
  <2> QED
    BY <1>1, <2>1
<1>7. (s + x) + y = t + u
  BY <1>4
<1> QED
  BY ONLY <1>3, <1>4, <1>5, <1>6, <1>7, a \in Int, b \in Int DEF SumsAgree

(* The sums of the first elements of a buffer.                             *)
LEMMA TotalSteps ==
  ASSUME NEW n \in Nat, NEW x \in [0 .. n - 1 -> Nat]
  PROVE  /\ Total(x, 0) = 0
         /\ \A k \in 0 .. n : Total(x, k) \in Residues
         /\ \A k \in 0 .. n - 1 : Total(x, k + 1) = Mod(Total(x, k) + x[k])
<1>2. PICK m \in Nat : m = 0
  OBVIOUS
<1>3. PICK s \in Residues : s = 0
  BY ResiduesAreNumbers
<1> DEFINE F == [d \in Residues \X (m .. n) |->
                   IF d[2] = 0 THEN d[1] ELSE Mod(d[1] + x[d[2] - 1])]
           Part(f, k) == IF k = 0 THEN 0 ELSE (f[k - 1] + x[k - 1]) % Prime
           G(k) == CHOOSE f : f = [i \in 0 .. k |-> Part(f, i)]
<1>4. F \in [Residues \X (m .. n) -> Residues]
  <2> SUFFICES ASSUME NEW d \in Residues, NEW i \in m .. n, i # 0
               PROVE  Mod(d + x[i - 1]) \in Residues
    OBVIOUS
  <2>1. i - 1 \in 0 .. n - 1
    BY <1>2
  <2>2. x[i - 1] \in Nat
    BY <2>1
  <2>3. d + x[i - 1] \in Int
    BY <2>2, ResiduesAreNumbers
  <2> QED
    BY <2>3, Remainder
<1>5. \A d \in Residues, i \in m .. n : i # 0 => F[<<d, i>>] = Mod(d + x[i - 1])
  OBVIOUS
<1> HIDE DEF F
<1>6. Recursive(m, n, Residues, s, F) # {}
  BY ONLY <1>2, n \in Nat, <1>3, <1>4, m <= n, Recursion
<1>7. PICK g : /\ g \in [0 .. n -> Residues] /\ g[0] = 0
               /\ \A i \in 0 .. n : i # 0 => g[i] = Mod(g[i - 1] + x[i - 1])
  <2>1. PICK g : g \in Recursive(m, n, Residues, s, F)
    BY <1>6
  <2>2. /\ g \in [0 .. n -> Residues] /\ g[0] = 0
        /\ \A i \in 0 .. n : i # 0 => g[i] = F[<<g[i - 1], i>>]
    BY <1>2, <1>3, <2>1 DEF Recursive
  <2>3. ASSUME NEW i \in 0 .. n, i # 0 PROVE g[i] = Mod(g[i - 1] + x[i - 1])
    <3>1. i - 1 \in 0 .. n /\ i \in m .. n
      BY <1>2, <2>3
    <3>2. g[i - 1] \in Residues
      BY <2>2, <3>1
    <3> QED
      BY <1>5, <2>2, <2>3, <3>1, <3>2
  <2> QED
    BY <2>2, <2>3
<1>8. ASSUME NEW k \in 0 .. n PROVE Total(x, k) = g[k]
  <2> DEFINE h == [i \in 0 .. k |-> g[i]]
  <2>1. h = [i \in 0 .. k |-> Part(h, i)]
    BY <1>7 DEF Mod
  <2>2. G(k) = [i \in 0 .. k |-> Part(G(k), i)]
    BY <2>1
  <2>3. PICK t : t = G(k)
    OBVIOUS
  <2> HIDE DEF G
  <2>4. \A i \in 0 .. k : t[i] = Part(t, i)
    BY <2>2, <2>3
  <2>5. GoAlike(m, k, t, g)
    BY <1>2, <1>7, <2>4 DEF GoAlike, Mod
  <2>6. k \in Nat
    OBVIOUS
  <2>7. t[k] = g[k]
    BY <1>2, <2>5, <2>6, SameRecursion
  <2> USE DEF G
  <2> QED
    BY <2>3, <2>7 DEF Total
<1> QED
  BY <1>7, <1>8

(* The sums are residues.                                                  *)
LEMMA TotalsAreNumbers ==
  ASSUME NEW n \in Nat, NEW x \in [0 .. n - 1 -> Nat], NEW k \in 0 .. n
  PROVE  Total(x, k) \in Residues /\ Total(x, k) \in Nat /\ Total(x, k) \in Int
<1>1. Total(x, k) \in Residues
  BY TotalSteps
<1>2. Total(x, k) \in Nat
  BY <1>1, ResiduesAreNumbers
<1> QED
  BY <1>1, <1>2

(* A factor of all elements is a factor of the sum.                        *)
Scaled(n, x, y, c) == \A t \in 0 .. n - 1 : Mod(y[t]) = Mod(c * x[t])
LEMMA TotalScales ==
  ASSUME NEW n \in Nat, NEW x \in [0 .. n - 1 -> Nat], NEW y \in [0 .. n - 1 -> Nat],
         NEW c \in Nat, Scaled(n, x, y, c)
  PROVE  Total(y, n) = Mod(c * Total(x, n))
<1> DEFINE T == {k \in Nat : k <= n => Total(y, k) = Mod(c * Total(x, k))}
<1>1. PICK m \in Nat : m = 0
  OBVIOUS
<1>2. m \in T
  <2>1. c * 0 = 0 /\ Mod(0) = 0
    BY ModLaws, ResiduesAreNumbers
  <2> QED
    BY <1>1, <2>1, TotalSteps
<1>3. ASSUME NEW k \in Nat, k >= m, k \in T PROVE k + 1 \in T
  <2>1. PICK l \in Nat : l = k + 1
    OBVIOUS
  <2> SUFFICES ASSUME l <= n PROVE Total(y, l) = Mod(c * Total(x, l))
    BY <2>1
  <2>2. k \in 0 .. n /\ k \in 0 .. n - 1
    BY <2>1
  <2>3. PICK A \in Int, B \in Int, a \in Int, b \in Int :
          A = Total(x, k) /\ B = Total(y, k) /\ a = x[k] /\ b = y[k]
    <3>1. Total(x, k) \in Int /\ Total(y, k) \in Int
      BY <2>2, TotalsAreNumbers
    <3>2. x[k] \in Int /\ y[k] \in Int
      BY <2>2
    <3> QED
      BY <3>1, <3>2
  <2>4. Total(x, l) = Mod(A + a) /\ Total(y, l) = Mod(B + b)
    BY <2>1, <2>2, <2>3, TotalSteps
  <2>5. B = Mod(c * A) /\ Mod(b) = Mod(c * a)
    BY <1>3, <2>1, <2>2, <2>3 DEF Scaled
  <2>6. PICK u \in Int, v \in Int : u = c * A /\ v = c * a
    OBVIOUS
  <2>7. Mod(Mod(u) + b) = Mod(u + b)
    BY ModLaws
  <2>8. Mod(u + Mod(b)) = Mod(u + b) /\ Mod(u + Mod(v)) = Mod(u + v)
    BY ModSums
  <2>9. PICK w \in Int, d \in Int : w = A + a /\ d = c
    OBVIOUS
  <2>10. Mod(d * Mod(w)) = Mod(d * w)
    BY ONLY w \in Int, d \in Int, ModProduct
  <2>11. d * w = u + v
    BY <2>6, <2>9
  <2> QED
    BY ONLY <2>4, <2>5, <2>6, <2>7, <2>8, <2>9, <2>10, <2>11
<1> HIDE DEF T
<1>4. \A k \in Nat : k >= m => k \in T
  BY <1>2, <1>3, Induction
<1> QED
  BY <1>1, <1>4 DEF T

(* A sum is that of its even and that of its odd elements.                 *)
LEMMA TotalSplits ==
  ASSUME NEW h \in Nat, NEW z \in [0 .. 2 * h - 1 -> Nat],
         NEW x \in [0 .. h - 1 -> Nat], NEW y \in [0 .. h - 1 -> Nat],
         \A t \in 0 .. h - 1 : x[t] = z[2 * t] /\ y[t] = z[2 * t + 1]
  PROVE  Total(z, 2 * h) = Mod(Total(x, h) + Total(y, h))
<1> DEFINE T == {k \in Nat : k <= h => Total(z, 2 * k) = Mod(Total(x, k) + Total(y, k))}
<1>1. PICK m \in Nat : m = 0
  OBVIOUS
<1>2. PICK n \in Nat : n = 2 * h
  OBVIOUS
<1>3. z \in [0 .. n - 1 -> Nat]
  BY <1>2
<1>4. m \in T
  <2>1. 2 * 0 = 0 /\ 0 + 0 = 0 /\ Mod(0) = 0
    BY ModLaws, ResiduesAreNumbers
  <2>2. Total(z, 0) = 0
    BY <1>3, TotalSteps
  <2> QED
    BY <1>1, <2>1, <2>2, TotalSteps
<1>5. ASSUME NEW k \in Nat, k >= m, k \in T PROVE k + 1 \in T
  <2>1. PICK l \in Nat, i \in Nat, j \in Nat : l = k + 1 /\ i = 2 * k /\ j = i + 1
    OBVIOUS
  <2> SUFFICES ASSUME l <= h PROVE Total(z, 2 * l) = Mod(Total(x, l) + Total(y, l))
    BY <2>1
  <2>2. k \in 0 .. h /\ k \in 0 .. h - 1
    BY <2>1
  <2>3. i \in 0 .. n - 1 /\ j \in 0 .. n - 1 /\ 2 * l = j + 1
    BY <1>2, <2>1
  <2>4. PICK A \in Int, B \in Int, a \in Int, b \in Int :
          A = Total(x, k) /\ B = Total(y, k) /\ a = x[k] /\ b = y[k]
    <3>1. Total(x, k) \in Int /\ Total(y, k) \in Int
      BY <2>2, TotalsAreNumbers
    <3>2. x[k] \in Int /\ y[k] \in Int
      BY <2>2
    <3> QED
      BY <3>1, <3>2
  <2>5. Total(x, l) = Mod(A + a) /\ Total(y, l) = Mod(B + b)
    BY <2>1, <2>2, <2>4, TotalSteps
  <2>6. z[i] = a /\ z[j] = b
    BY <2>1, <2>2, <2>4
  <2>7. Total(z, i) = Mod(A + B)
    BY <1>5, <2>1, <2>2, <2>4
  <2>8. Total(z, j) = Mod(Total(z, i) + z[i]) /\ Total(z, 2 * l) = Mod(Total(z, j) + z[j])
    <3>1. \A t \in 0 .. n - 1 : Total(z, t + 1) = Mod(Total(z, t) + z[t])
      BY <1>3, TotalSteps
    <3>2. Total(z, i + 1) = Mod(Total(z, i) + z[i])
      BY <2>3, <3>1
    <3>3. Total(z, j + 1) = Mod(Total(z, j) + z[j])
      BY <2>3, <3>1
    <3> QED
      BY <2>1, <2>3, <3>2, <3>3
  <2>9. Mod(Mod(Mod(A + B) + a) + b) = Mod(Mod(A + a) + Mod(B + b))
    <3>1. SumsAgree(A, B, a, b)
      BY ModSums
    <3> QED
      BY <3>1 DEF SumsAgree
  <2> QED
    BY ONLY <2>5, <2>6, <2>7, <2>8, <2>9
<1> HIDE DEF T
<1>6. \A k \in Nat : k >= m => k \in T
  BY <1>4, <1>5, Induction
<1> QED
  BY <1>1, <1>6 DEF T

-----------------------------------------------------------------------------
(* The order of compute_fft: bit-reversed numbers, and the counter that    *)
(* runs through them.                                                      *)

(* Reversing the bits of a number: a number of i + 1 bits is that of its   *)
(* upper i bits and its lowest, which the reversed number has on top.      *)
Bit(i, q) == IF q = 1 THEN TwoTo(i) ELSE 0
LowestBit(R, i, j, b, c, q) ==
  j = i + 1 /\ b = 2 * c + q => R[j][b] = R[i][c] + Bit(i, q)
IsReversal(R, E) ==
  /\ R \in [0 .. E -> [Nat -> Nat]]
  /\ \A b \in Nat : R[0][b] = 0
  /\ \A i, j \in 0 .. E, b, c \in Nat, q \in {0, 1} : LowestBit(R, i, j, b, c, q)

(* A number is even or odd.                                                *)
LEMMA Halves == \A b \in Nat : \E c \in Nat, q \in {0, 1} : b = 2 * c + q
<1> SUFFICES ASSUME NEW b \in Nat PROVE \E c \in Nat, q \in {0, 1} : b = 2 * c + q
  OBVIOUS
<1>1. b \div 2 \in Nat /\ b % 2 \in {0, 1} /\ b = 2 * (b \div 2) + (b % 2)
  OBVIOUS
<1> QED
  BY <1>1

(* A bit is worth a number.                                                *)
LEMMA BitIsNumber == \A i \in Nat, q \in {0, 1} : Bit(i, q) \in Nat
  BY TwoToGrows DEF Bit

(* There is such a reversal, for any number of bits.                       *)
LEMMA ReversalExists ==
  ASSUME NEW E \in Nat
  PROVE  \E R : IsReversal(R, E)
<1>1. PICK m \in Nat : m = 0
  OBVIOUS
<1> DEFINE S == [Nat -> Nat]
           Longer(d, i) == [b \in Nat |-> d[b \div 2] + Bit(i, b % 2)]
           F == [d \in S \X (m .. E) |-> IF d[2] = 0 THEN d[1] ELSE Longer(d[1], d[2] - 1)]
<1>2. PICK z \in S : z = [b \in Nat |-> 0]
  OBVIOUS
<1>3. \A b \in Nat : b \div 2 \in Nat /\ b % 2 \in {0, 1}
  OBVIOUS
<1>4. ASSUME NEW d \in S, NEW i \in Nat PROVE Longer(d, i) \in S
  <2>1. \A b \in Nat : d[b \div 2] \in Nat /\ Bit(i, b % 2) \in Nat
    BY <1>3, BitIsNumber
  <2> QED
    BY <2>1
<1>5. ASSUME NEW d \in S, NEW i \in Nat, NEW b \in Nat, NEW c \in Nat, NEW q \in {0, 1},
             b = 2 * c + q
      PROVE  Longer(d, i)[b] = d[c] + Bit(i, q)
  <2>1. b \div 2 = c /\ b % 2 = q
    BY <1>5
  <2> QED
    BY <2>1
<1> HIDE DEF Longer, S
<1>6. F \in [S \X (m .. E) -> S]
  <2> SUFFICES ASSUME NEW d \in S, NEW i \in m .. E, i # 0
               PROVE  Longer(d, i - 1) \in S
    OBVIOUS
  <2>1. i - 1 \in Nat
    BY <1>1
  <2> QED
    BY <1>4, <2>1
<1>7. \A d \in S, i \in m .. E : i # 0 => F[<<d, i>>] = Longer(d, i - 1)
  OBVIOUS
<1> HIDE DEF F
<1>8. Recursive(m, E, S, z, F) # {}
  BY ONLY <1>1, E \in Nat, <1>2, <1>6, m <= E, Recursion
<1>9. PICK R : R \in Recursive(m, E, S, z, F)
  BY <1>8
<1>10. /\ R \in [0 .. E -> S] /\ R[0] = z
       /\ \A i \in 0 .. E : i # 0 => R[i] = F[<<R[i - 1], i>>]
  BY <1>1, <1>9 DEF Recursive
<1>11. ASSUME NEW i \in 0 .. E, NEW j \in 0 .. E, NEW b \in Nat, NEW c \in Nat, NEW q \in {0, 1},
              j = i + 1, b = 2 * c + q
       PROVE  R[j][b] = R[i][c] + Bit(i, q)
  <2>1. j # 0 /\ j - 1 = i /\ i \in Nat /\ j \in m .. E /\ R[i] \in S
    BY <1>1, <1>10, <1>11
  <2>2. R[j] = F[<<R[i], j>>]
    BY <1>10, <2>1
  <2>3. R[j] = Longer(R[i], i)
    BY <1>7, <2>1, <2>2
  <2> QED
    BY <1>5, <1>11, <2>1, <2>3
<1>12. \A b \in Nat : R[0][b] = 0
  BY <1>2, <1>10
<1>13. IsReversal(R, E)
  BY <1>10, <1>11, <1>12 DEF IsReversal, LowestBit, S
<1> QED
  BY <1>13

(* The reversed number has as many bits.                                   *)
LEMMA ReversalRange ==
  ASSUME NEW E \in Nat, NEW R, IsReversal(R, E)
  PROVE  \A m \in 0 .. E : \A b \in 0 .. TwoTo(m) - 1 : R[m][b] \in 0 .. TwoTo(m) - 1
<1> DEFINE T == {m \in Nat : m <= E =>
                   \A b \in 0 .. TwoTo(m) - 1 : R[m][b] \in 0 .. TwoTo(m) - 1}
<1>1. PICK z \in Nat : z = 0
  OBVIOUS
<1>2. z \in T
  <2> SUFFICES ASSUME NEW b \in 0 .. TwoTo(0) - 1
               PROVE  R[0][b] \in 0 .. TwoTo(0) - 1
    BY <1>1
  <2>1. TwoTo(0) = 1 /\ b = 0
    BY TwoToSteps
  <2>2. R[0][0] = 0
    BY DEF IsReversal
  <2> QED
    BY <2>1, <2>2
<1>3. ASSUME NEW i \in Nat, i >= z, i \in T PROVE i + 1 \in T
  <2>1. PICK j \in Nat : j = i + 1
    OBVIOUS
  <2> SUFFICES ASSUME j <= E, NEW b \in 0 .. TwoTo(j) - 1
               PROVE  R[j][b] \in 0 .. TwoTo(j) - 1
    BY <2>1
  <2>2. PICK h \in Nat : h = TwoTo(i) /\ TwoTo(j) = 2 * h
    BY <2>1, TwoToGrows
  <2>3. b \in Nat /\ i \in 0 .. E /\ j \in 0 .. E
    BY <2>1, <2>2
  <2>4. PICK c \in Nat, q \in {0, 1} : b = 2 * c + q
    BY <2>3, Halves
  <2>5. c \in 0 .. h - 1
    BY <2>2, <2>4
  <2>6. R[i][c] \in 0 .. h - 1
    BY <1>3, <2>1, <2>2, <2>5
  <2>7. LowestBit(R, i, j, b, c, q)
    BY <2>3 DEF IsReversal
  <2>8. R[j][b] = R[i][c] + Bit(i, q)
    BY <2>1, <2>4, <2>7 DEF LowestBit
  <2>9. Bit(i, q) \in {0, h}
    BY <2>2 DEF Bit
  <2> QED
    BY <2>2, <2>6, <2>8, <2>9
<1> HIDE DEF T
<1>4. \A m \in Nat : m >= z => m \in T
  BY <1>2, <1>3, Induction
<1> QED
  BY <1>1, <1>4 DEF T

(* The highest bit of a number becomes the lowest one.                     *)
HighestBit(R, i, j, b, c, q) == 
  j = i + 1 /\ b = c + Bit(i, q) => R[j][b] = 2 * R[i][c] + q
LEMMA ReversalTop ==
  ASSUME NEW E \in Nat, NEW R, IsReversal(R, E)
  PROVE  \A i, j \in 0 .. E : \A c \in 0 .. TwoTo(i) - 1, b \in Nat, q \in {0, 1} :
           HighestBit(R, i, j, b, c, q)
<1> DEFINE Top(i, j) == \A c \in 0 .. TwoTo(i) - 1, b \in Nat, q \in {0, 1} :
                          HighestBit(R, i, j, b, c, q)
           T == {i \in Nat : \A j \in 0 .. E : j = i + 1 => Top(i, j)}
<1>1. PICK z \in Nat : z = 0
  OBVIOUS
<1>2. z \in T
  <2> SUFFICES ASSUME NEW j \in 0 .. E, j = 1, NEW c \in 0 .. TwoTo(0) - 1,
                      NEW b \in Nat, NEW q \in {0, 1}, b = c + Bit(0, q)
               PROVE  R[j][b] = 2 * R[0][c] + q
    BY <1>1 DEF HighestBit
  <2>1. c = 0 /\ Bit(0, q) = q /\ b = q
    BY TwoToSteps DEF Bit
  <2>2. PICK i \in 0 .. E, d \in Nat : i = 0 /\ d = 0
    OBVIOUS
  <2>3. LowestBit(R, i, j, b, d, q)
    BY <2>2 DEF IsReversal
  <2>4. R[0][0] = 0
    BY DEF IsReversal
  <2> QED
    BY <2>1, <2>2, <2>3, <2>4 DEF LowestBit
<1>3. ASSUME NEW i \in Nat, i >= z, i \in T PROVE i + 1 \in T
  <2>1. PICK j \in Nat : j = i + 1
    OBVIOUS
  <2> SUFFICES ASSUME NEW k \in 0 .. E, k = j + 1, NEW c \in 0 .. TwoTo(j) - 1,
                      NEW b \in Nat, NEW q \in {0, 1}, b = c + Bit(j, q)
               PROVE  R[k][b] = 2 * R[j][c] + q
    BY <2>1 DEF HighestBit
  <2>2. PICK h \in Nat : h = TwoTo(i) /\ TwoTo(j) = 2 * h
    BY <2>1, TwoToGrows
  <2>3. c \in Nat /\ i \in 0 .. E /\ j \in 0 .. E
    BY <2>1, <2>2
  <2>4. PICK d \in Nat, p \in {0, 1} : c = 2 * d + p
    BY <2>3, Halves
  <2>5. d \in 0 .. TwoTo(i) - 1
    BY <2>2, <2>4
  <2>6. Bit(j, q) = 2 * Bit(i, q) /\ Bit(i, q) \in Nat /\ Bit(j, p) = 2 * Bit(i, p)
        /\ Bit(i, p) \in Nat
    BY <2>2 DEF Bit
  <2>7. PICK e \in Nat : e = d + Bit(i, q)
    BY <2>6
  <2>8. b = 2 * e + p
    BY <2>4, <2>6, <2>7
  <2>9. HighestBit(R, i, j, e, d, q)
    <3>1. Top(i, j)
      BY <1>3, <2>1, <2>3
    <3> QED
      BY <2>5, <3>1
  <2>10. R[j][e] = 2 * R[i][d] + q
    BY <2>1, <2>7, <2>9 DEF HighestBit
  <2>11. LowestBit(R, j, k, b, e, p) /\ LowestBit(R, i, j, c, d, p)
    BY <2>3 DEF IsReversal
  <2>12. R[k][b] = R[j][e] + Bit(j, p) /\ R[j][c] = R[i][d] + Bit(i, p)
    BY <2>1, <2>4, <2>8, <2>11 DEF LowestBit
  <2>13. R[i][d] \in Nat
    BY <2>3 DEF IsReversal
  <2> QED
    BY <2>6, <2>10, <2>12, <2>13
<1> HIDE DEF T
<1>4. \A i \in Nat : i >= z => i \in T
  BY <1>2, <1>3, Induction
<1>5. ASSUME NEW i \in 0 .. E, NEW j \in 0 .. E, j = i + 1 PROVE Top(i, j)
  BY <1>1, <1>4, <1>5 DEF T
<1> QED
  BY <1>5 DEF HighestBit

(* Reversed twice, a number is itself again.                               *)
LEMMA ReversalTwice ==
  ASSUME NEW E \in Nat, NEW R, IsReversal(R, E)
  PROVE  \A m \in 0 .. E : \A b \in 0 .. TwoTo(m) - 1 : R[m][R[m][b]] = b
<1> DEFINE T == {m \in Nat : m <= E =>
                   \A b \in 0 .. TwoTo(m) - 1 : R[m][R[m][b]] = b}
<1>1. PICK z \in Nat : z = 0
  OBVIOUS
<1>2. z \in T
  <2> SUFFICES ASSUME NEW b \in 0 .. TwoTo(0) - 1
               PROVE  R[0][R[0][b]] = b
    BY <1>1
  <2>1. TwoTo(0) = 1 /\ b = 0
    BY TwoToSteps
  <2>2. R[0][0] = 0
    BY DEF IsReversal
  <2> QED
    BY <2>1, <2>2
<1>3. ASSUME NEW i \in Nat, i >= z, i \in T PROVE i + 1 \in T
  <2>1. PICK j \in Nat : j = i + 1
    OBVIOUS
  <2> SUFFICES ASSUME j <= E, NEW b \in 0 .. TwoTo(j) - 1 PROVE R[j][R[j][b]] = b
    BY <2>1
  <2>2. PICK h \in Nat : h = TwoTo(i) /\ TwoTo(j) = 2 * h
    BY <2>1, TwoToGrows
  <2>3. b \in Nat /\ i \in 0 .. E /\ j \in 0 .. E
    BY <2>1, <2>2
  <2>4. PICK c \in Nat, q \in {0, 1} : b = 2 * c + q
    BY <2>3, Halves
  <2>5. c \in 0 .. TwoTo(i) - 1
    BY <2>2, <2>4
  <2>6. LowestBit(R, i, j, b, c, q)
    BY <2>3 DEF IsReversal
  <2>7. R[j][b] = R[i][c] + Bit(i, q)
    BY <2>1, <2>4, <2>6 DEF LowestBit
  <2>8. PICK r \in 0 .. TwoTo(i) - 1 : r = R[i][c]
    BY <2>3, <2>5, ReversalRange
  <2>9. PICK s \in Nat : s = R[j][b]
    BY <2>3 DEF IsReversal
  <2>10. HighestBit(R, i, j, s, r, q)
    BY <2>3, ReversalTop
  <2>11. R[j][s] = 2 * R[i][r] + q
    BY <2>1, <2>7, <2>8, <2>9, <2>10 DEF HighestBit
  <2>12. R[i][r] = c
    BY <1>3, <2>1, <2>3, <2>5, <2>8
  <2> QED
    BY <2>4, <2>9, <2>11, <2>12
<1> HIDE DEF T
<1>4. \A m \in Nat : m >= z => m \in T
  BY <1>2, <1>3, Induction
<1> QED
  BY <1>1, <1>4 DEF T

(* The inner loop of the reversal, round by round.                         *)
CarryRounds(round, j, n) ==
  /\ round[0] = [j |-> j, bit |-> n \div 2]
  /\ \A r \in 1 .. n : round[r] = Carry(round[r - 1])
  /\ NextReversed(j, n) = round[n].j + round[n].bit
(* The rounds are there to speak of.                                       *)
LEMMA CarryRoundsExist ==
  ASSUME NEW n \in Nat, NEW j \in Nat
  PROVE  \E round : CarryRounds(round, j, n)
<1> DEFINE S == [j : Int, bit : Nat]
<1>1. PICK m \in Nat : m = 0
  OBVIOUS
<1>2. PICK s \in S : s = [j |-> j, bit |-> n \div 2]
  <2>1. n \div 2 \in Nat
    OBVIOUS
  <2>2. [j |-> j, bit |-> n \div 2] \in S
    BY <2>1
  <2> QED
    BY <2>2
<1> DEFINE F == [d \in S \X (m .. n) |-> Carry(d[1])]
           Part(f, k) == IF k = 0 THEN [j |-> j, bit |-> n \div 2] ELSE Carry(f[k - 1])
           G == CHOOSE f : f = [k \in 0 .. n |-> Part(f, k)]
<1>3. ASSUME NEW d \in S PROVE Carry(d) \in S
  <2>1. d.j - d.bit \in Int /\ d.bit \div 2 \in Nat
    OBVIOUS
  <2> QED
    BY <2>1 DEF Carry
<1>4. F \in [S \X (m .. n) -> S]
  BY <1>3
<1>5. \A d \in S, i \in m .. n : F[<<d, i>>] = Carry(d)
  OBVIOUS
<1> HIDE DEF F, S
<1>6. Recursive(m, n, S, s, F) # {}
  BY ONLY <1>1, n \in Nat, <1>2, <1>4, m <= n, Recursion
<1>7. PICK g : /\ g \in [0 .. n -> S] /\ g[0] = s
               /\ \A i \in 0 .. n : i # 0 => g[i] = Carry(g[i - 1])
  <2>1. PICK g : g \in Recursive(m, n, S, s, F)
    BY <1>6
  <2>2. /\ g \in [0 .. n -> S] /\ g[0] = s
        /\ \A i \in 0 .. n : i # 0 => g[i] = F[<<g[i - 1], i>>]
    BY <1>1, <2>1 DEF Recursive
  <2>3. ASSUME NEW i \in 0 .. n, i # 0 PROVE g[i] = Carry(g[i - 1])
    <3>1. i - 1 \in 0 .. n /\ i \in m .. n
      BY <1>1, <2>3
    <3>2. g[i - 1] \in S
      BY <2>2, <3>1
    <3> QED
      BY <1>5, <2>2, <2>3, <3>1, <3>2
  <2> QED
    BY <2>2, <2>3
<1>8. g = [k \in 0 .. n |-> Part(g, k)]
  BY <1>2, <1>7
<1>9. PICK t : t = G
  OBVIOUS
<1>10. t = [k \in 0 .. n |-> Part(t, k)]
  BY <1>8, <1>9
<1>11. \A k \in 0 .. n : t[k] = Part(t, k)
  BY <1>10
<1>12. NextReversed(j, n) = t[n].j + t[n].bit
  BY <1>9 DEF NextReversed
<1>13. CarryRounds(t, j, n)
  <2>1. \A r \in 1 .. n : r \in 0 .. n /\ r # 0
    OBVIOUS
  <2> QED
    BY <1>11, <1>12, <2>1 DEF CarryRounds
<1> QED
  BY <1>13

(* The counter in the middle of it: its upper m bits are still to be       *)
(* looked at, and they become what all of it is to become.                 *)
CountingWith(R, E, target, s, r, m, b) ==
  /\ b + 1 < TwoTo(m) /\ R[m][b + 1] = target
  /\ s = [j |-> R[m][b], bit |-> TwoTo(m - 1)]
  /\ (\E c \in Nat : b = 2 * c) \/ m + r <= E
Counting(R, E, target, s, r) ==
  \E m \in 1 .. E, b \in Nat : CountingWith(R, E, target, s, r, m, b)

(* A round keeps it so.                                                    *)
LEMMA CarryCounts ==
  ASSUME NEW E \in Nat, NEW R, IsReversal(R, E), NEW target, NEW s, NEW r \in Nat,
         Counting(R, E, target, s, r)
  PROVE  Counting(R, E, target, Carry(s), r + 1)
<1>1. PICK m \in 1 .. E, b \in Nat : CountingWith(R, E, target, s, r, m, b)
  BY DEF Counting
<1>2. PICK c \in Nat, q \in {0, 1} : b = 2 * c + q
  BY Halves
<1>3. PICK k \in Nat : m = k + 1
  <2>1. m - 1 \in Nat /\ m = (m - 1) + 1
    OBVIOUS
  <2> QED
    BY <2>1
<1>4. PICK h \in Nat : h = TwoTo(k) /\ TwoTo(m) = 2 * h /\ h > 0
  BY <1>3, TwoToGrows
<1>5. b + 1 < 2 * h /\ R[m][b + 1] = target /\ s = [j |-> R[m][b], bit |-> h]
  BY <1>1, <1>3, <1>4 DEF CountingWith
<1>6. k \in 0 .. E /\ m \in 0 .. E
  BY <1>3
<1>7. PICK v \in 0 .. h - 1 : v = R[k][c]
  <2>1. c \in 0 .. TwoTo(k) - 1
    BY <1>2, <1>4, <1>5
  <2> QED
    BY <1>4, <1>6, <2>1, ReversalRange
<1>8. R[m][b] = v + Bit(k, q)
  <2>1. LowestBit(R, k, m, b, c, q)
    BY <1>6 DEF IsReversal
  <2> QED
    BY <1>2, <1>3, <1>7, <2>1 DEF LowestBit
<1>9. CASE q = 0
  <2>1. s.j = v /\ s.bit = h /\ v \div h = 0
    BY <1>4, <1>5, <1>7, <1>8, <1>9 DEF Bit
  <2>2. Carry(s) = s
    BY <2>1 DEF Carry
  <2>3. \E d \in Nat : b = 2 * d
    BY <1>2, <1>9
  <2>4. CountingWith(R, E, target, s, r + 1, m, b)
    BY <1>1, <2>3 DEF CountingWith
  <2> QED
    BY <2>2, <2>4 DEF Counting
<1>10. CASE q = 1
  <2>1. s.j = v + h /\ s.bit = h
    BY <1>4, <1>5, <1>7, <1>8, <1>10 DEF Bit
  <2>2. (v + h) \div h = 1 /\ 1 % 2 = 1 /\ (v + h) - h = v
    <3>1. v + h >= h /\ v + h < 2 * h
      BY <1>4, <1>7
    <3> QED
      BY <1>4, <1>7, <3>1
  <2>3. Carry(s) = [j |-> v, bit |-> h \div 2]
    BY <1>4, <2>1, <2>2 DEF Carry
  <2>4. PICK l \in Nat : k = l + 1
    <3>1. k # 0
      BY <1>2, <1>4, <1>5, <1>10, TwoToSteps
    <3>2. k - 1 \in Nat /\ k = (k - 1) + 1
      BY <3>1
    <3> QED
      BY <3>2
  <2>5. h \div 2 = TwoTo(k - 1)
    BY <1>4, <2>4, TwoToGrows
  <2>6. PICK d \in Nat, e \in Nat : d = c + 1 /\ e = b + 1
    OBVIOUS
  <2>7. R[k][c + 1] = target
    <3>1. LowestBit(R, k, m, e, d, 0)
      BY <1>6 DEF IsReversal
    <3>2. e = 2 * d + 0
      BY <1>2, <1>10, <2>6
    <3>3. Bit(k, 0) = 0 /\ R[k][d] \in Nat
      BY <1>6 DEF IsReversal, Bit
    <3> QED
      BY <1>3, <1>5, <2>6, <3>1, <3>2, <3>3 DEF LowestBit
  <2>8. c + 1 < h
    BY <1>2, <1>5, <1>10
  <2>9. k + (r + 1) <= E
    <3>1. ~ \E f \in Nat : b = 2 * f
      BY <1>2, <1>10
    <3>2. m + r <= E
      BY <1>1, <3>1 DEF CountingWith
    <3> QED
      BY <1>3, <3>2
  <2>10. CountingWith(R, E, target, Carry(s), r + 1, k, c)
    BY <1>4, <1>7, <2>3, <2>5, <2>7, <2>8, <2>9 DEF CountingWith
  <2>11. k \in 1 .. E
    BY <1>6, <2>4
  <2> QED
    BY <2>10, <2>11 DEF Counting
<1> QED
  BY <1>9, <1>10

(* So the counter runs through the reversed numbers.                       *)
LEMMA NextReversedIs ==
  ASSUME NEW E \in Nat, NEW R, IsReversal(R, E), NEW i \in Nat, i + 1 < TwoTo(E)
  PROVE  NextReversed(R[E][i], TwoTo(E)) = R[E][i + 1]
<1>1. PICK n \in Nat : n = TwoTo(E) /\ n > E
  BY TwoToGrows
<1>2. E # 0
  BY TwoToSteps
<1>3. PICK j \in Nat : j = R[E][i]
  BY DEF IsReversal
<1>4. PICK round : CarryRounds(round, j, n)
  BY CarryRoundsExist
<1>5. PICK target : target = R[E][i + 1]
  OBVIOUS
<1> DEFINE T == {r \in Nat : r <= n => Counting(R, E, target, round[r], r)}
<1>6. PICK z \in Nat : z = 0
  OBVIOUS
<1>7. z \in T
  <2>1. PICK k \in Nat : E = k + 1
    <3>1. E - 1 \in Nat /\ E = (E - 1) + 1
      BY <1>2
    <3> QED
      BY <3>1
  <2>2. n \div 2 = TwoTo(E - 1)
    BY <1>1, <2>1, TwoToGrows
  <2>3. round[0] = [j |-> R[E][i], bit |-> TwoTo(E - 1)]
    BY <1>3, <1>4, <2>2 DEF CarryRounds
  <2>4. CountingWith(R, E, target, round[0], 0, E, i)
    BY <1>5, <2>3 DEF CountingWith
  <2>5. E \in 1 .. E
    BY <1>2
  <2> QED
    BY <1>6, <2>4, <2>5 DEF Counting
<1>8. ASSUME NEW r \in Nat, r >= z, r \in T PROVE r + 1 \in T
  <2>1. PICK p \in Nat : p = r + 1
    OBVIOUS
  <2> SUFFICES ASSUME p <= n PROVE Counting(R, E, target, round[p], p)
    BY <2>1
  <2>2. Counting(R, E, target, round[r], r)
    BY <1>8, <2>1
  <2>3. round[p] = Carry(round[r])
    <3>1. p \in 1 .. n /\ p - 1 = r
      BY <2>1
    <3> QED
      BY <1>4, <3>1 DEF CarryRounds
  <2>4. Counting(R, E, target, Carry(round[r]), r + 1)
    BY <2>2, CarryCounts
  <2> QED
    BY <2>1, <2>3, <2>4
<1> HIDE DEF T
<1>9. \A r \in Nat : r >= z => r \in T
  BY <1>7, <1>8, Induction
<1>10. PICK m \in 1 .. E, b \in Nat : CountingWith(R, E, target, round[n], n, m, b)
  BY <1>6, <1>9 DEF T, Counting
<1>11. PICK c \in Nat : b = 2 * c
  <2>1. ~(m + n <= E)
    BY <1>1
  <2> QED
    BY <1>10, <2>1 DEF CountingWith
<1>12. PICK k \in Nat : m = k + 1
  <2>1. m - 1 \in Nat /\ m = (m - 1) + 1
    OBVIOUS
  <2> QED
    BY <2>1
<1>13. k \in 0 .. E /\ m \in 0 .. E /\ m - 1 = k
  BY <1>12
<1>14. round[n].j = R[m][b] /\ round[n].bit = TwoTo(k) /\ R[m][b + 1] = target
  BY <1>10, <1>13 DEF CountingWith
<1>15. R[m][b] = R[k][c] /\ R[k][c] \in Nat
  <2>1. LowestBit(R, k, m, b, c, 0)
    BY <1>13 DEF IsReversal
  <2>2. b = 2 * c + 0 /\ Bit(k, 0) = 0 /\ R[k][c] \in Nat
    BY <1>11, <1>13 DEF IsReversal, Bit
  <2> QED
    BY <1>12, <2>1, <2>2 DEF LowestBit
<1>16. R[m][b + 1] = R[k][c] + TwoTo(k)
  <2>1. PICK e \in Nat : e = b + 1
    OBVIOUS
  <2>2. LowestBit(R, k, m, e, c, 1)
    BY <1>13 DEF IsReversal
  <2>3. e = 2 * c + 1 /\ Bit(k, 1) = TwoTo(k)
    BY <1>11, <2>1 DEF Bit
  <2> QED
    BY <1>12, <2>1, <2>2, <2>3 DEF LowestBit
<1> QED
  BY <1>1, <1>3, <1>4, <1>5, <1>14, <1>15, <1>16 DEF CarryRounds

(* Zero reversed is zero.                                                  *)
LEMMA ReversalOfZero ==
  ASSUME NEW E \in Nat, NEW R, IsReversal(R, E)
  PROVE  \A m \in 0 .. E : R[m][0] = 0
<1> DEFINE T == {m \in Nat : m <= E => R[m][0] = 0}
<1>1. PICK z \in Nat : z = 0
  OBVIOUS
<1>2. z \in T
  BY <1>1 DEF IsReversal
<1>3. ASSUME NEW i \in Nat, i >= z, i \in T PROVE i + 1 \in T
  <2>1. PICK j \in Nat : j = i + 1
    OBVIOUS
  <2> SUFFICES ASSUME j <= E PROVE R[j][0] = 0
    BY <2>1
  <2>2. i \in 0 .. E /\ j \in 0 .. E
    BY <2>1
  <2>3. LowestBit(R, i, j, 0, 0, 0)
    BY <2>2 DEF IsReversal
  <2>4. R[i][0] = 0 /\ Bit(i, 0) = 0
    BY <1>3, <2>1 DEF Bit
  <2> QED
    BY <2>1, <2>3, <2>4 DEF LowestBit
<1> HIDE DEF T
<1>4. \A m \in Nat : m >= z => m \in T
  BY <1>2, <1>3, Induction
<1> QED
  BY <1>1, <1>4 DEF T

(* After i rounds of the first loop of compute_fft, those pairs have been  *)
(* swapped of which one is up to i.                                        *)
PairsSwapped(x, r, n, i) ==
  [k \in 0 .. n - 1 |-> IF k <= i \/ r[k] <= i THEN x[r[k]] ELSE x[k]]
(* So a round of the loop swaps its pair, or has done so before.           *)
LEMMA SwapsPair ==
  ASSUME NEW n \in Nat, NEW x, NEW r \in [0 .. n - 1 -> 0 .. n - 1],
         \A k \in 0 .. n - 1 : r[r[k]] = k,
         NEW i \in 1 .. n - 1
  PROVE  PairsSwapped(x, r, n, i) =
           IF i < r[i] THEN Swap(PairsSwapped(x, r, n, i - 1), i, r[i])
                       ELSE PairsSwapped(x, r, n, i - 1)
<1>1. PICK h \in Nat, j \in 0 .. n - 1 : i = h + 1 /\ j = r[i]
  <2>1. i - 1 \in Nat /\ i = (i - 1) + 1 /\ r[i] \in 0 .. n - 1
    OBVIOUS
  <2> QED
    BY <2>1
<1>2. PICK a, b : a = PairsSwapped(x, r, n, h) /\ b = PairsSwapped(x, r, n, i)
  OBVIOUS
<1>3. /\ a = [k \in 0 .. n - 1 |-> IF k <= h \/ r[k] <= h THEN x[r[k]] ELSE x[k]]
      /\ b = [k \in 0 .. n - 1 |-> IF k <= i \/ r[k] <= i THEN x[r[k]] ELSE x[k]]
  BY <1>2 DEF PairsSwapped
<1>4. ASSUME NEW k \in 0 .. n - 1, k # i, k # j PROVE a[k] = b[k]
  <2>1. r[k] \in 0 .. n - 1 /\ r[k] # i
    BY <1>1, <1>4
  <2>2. (k <= i <=> k <= h) /\ (r[k] <= i <=> r[k] <= h)
    BY <1>1, <1>4, <2>1
  <2> QED
    BY <1>3, <2>2
<1>5. i \in 0 .. n - 1 /\ r[j] = i
  BY <1>1
<1>6. CASE i < j
  <2>1. a[i] = x[i] /\ a[j] = x[j]
    BY <1>1, <1>3, <1>5, <1>6
  <2>2. b[i] = x[j] /\ b[j] = x[i]
    BY <1>1, <1>3, <1>5, <1>6
  <2>3. Swap(a, i, j) = [k \in 0 .. n - 1 |-> IF k = i THEN x[j] ELSE IF k = j THEN x[i] ELSE a[k]]
    BY <1>3, <1>5, <1>6, <2>1 DEF Swap
  <2>4. \A k \in 0 .. n - 1 : b[k] = IF k = i THEN x[j] ELSE IF k = j THEN x[i] ELSE a[k]
    BY <1>4, <2>2
  <2>5. b = [k \in 0 .. n - 1 |-> b[k]]
    BY <1>3
  <2>6. b = Swap(a, i, j)
    BY <2>3, <2>4, <2>5
  <2> QED
    BY <1>1, <1>2, <1>6, <2>6
<1>7. CASE ~(i < j)
  <2>1. a[i] = b[i] /\ a[j] = b[j]
    BY <1>1, <1>3, <1>5, <1>7
  <2>2. \A k \in 0 .. n - 1 : a[k] = b[k]
    BY <1>4, <2>1
  <2>3. a = [k \in 0 .. n - 1 |-> a[k]] /\ b = [k \in 0 .. n - 1 |-> b[k]]
    BY <1>3
  <2>4. a = b
    BY <2>2, <2>3
  <2>5. i - 1 = h /\ ~(i < r[i])
    BY <1>1, <1>7
  <2> QED
    BY <1>2, <2>4, <2>5
<1> QED
  BY <1>6, <1>7

(* and so the whole loop reverses the buffer.                              *)
Reversed(x, R, E) == [k \in 0 .. TwoTo(E) - 1 |-> x[R[E][k]]]
LEMMA PermutedIs ==
  ASSUME NEW E \in Nat, NEW R, IsReversal(R, E),
         NEW S, NEW x \in [0 .. TwoTo(E) - 1 -> S]
  PROVE  Permuted(x, TwoTo(E)) = Reversed(x, R, E)
<1>1. PICK n \in Nat : n = TwoTo(E) /\ n > 0
  BY TwoToGrows
<1>2. PICK r : r = [k \in 0 .. n - 1 |-> R[E][k]]
  OBVIOUS
<1>3. E \in 0 .. E
  OBVIOUS
<1>4. r \in [0 .. n - 1 -> 0 .. n - 1] /\ (\A k \in 0 .. n - 1 : r[r[k]] = k) /\ r[0] = 0
  <2>1. \A k \in 0 .. n - 1 : r[k] \in 0 .. n - 1 /\ r[k] = R[E][k]
    BY <1>1, <1>2, <1>3, ReversalRange
  <2>2. \A k \in 0 .. n - 1 : R[E][R[E][k]] = k
    BY <1>1, <1>3, ReversalTwice
  <2>3. 0 \in 0 .. n - 1 /\ R[E][0] = 0
    BY <1>1, <1>3, ReversalOfZero
  <2> QED
    BY <1>2, <2>1, <2>2, <2>3
<1> DEFINE At(i) == PairsSwapped(x, r, n, i)
           g == [i \in 0 .. n - 1 |-> [j |-> r[i], x |-> At(i)]]
           Part(f, i) == IF i = 0 THEN [j |-> 0, x |-> x] ELSE Permute(f[i - 1], i, n)
           G == CHOOSE f : f = [i \in 0 .. n - 1 |-> Part(f, i)]
<1>5. At(0) = x
  <2>1. ASSUME NEW k \in 0 .. n - 1 PROVE (IF k <= 0 \/ r[k] <= 0 THEN x[r[k]] ELSE x[k]) = x[k]
    BY <1>4
  <2>2. x = [k \in 0 .. n - 1 |-> x[k]]
    BY <1>1
  <2> QED
    BY <2>1, <2>2 DEF PairsSwapped
<1>6. ASSUME NEW i \in 1 .. n - 1
      PROVE  Permute([j |-> r[i - 1], x |-> At(i - 1)], i, n) = [j |-> r[i], x |-> At(i)]
  <2>1. PICK h \in Nat : h = i - 1 /\ h + 1 = i /\ h + 1 < n
    BY <1>6
  <2>2. NextReversed(R[E][h], n) = R[E][h + 1]
    BY <1>1, <2>1, NextReversedIs
  <2>3. NextReversed(r[h], n) = r[i]
    BY <1>2, <2>1, <2>2
  <2>4. At(i) = IF i < r[i] THEN Swap(At(i - 1), i, r[i]) ELSE At(i - 1)
    BY <1>4, SwapsPair
  <2> HIDE DEF At
  <2> QED
    BY <2>1, <2>3, <2>4 DEF Permute
<1> HIDE DEF At
<1>7. g = [i \in 0 .. n - 1 |-> Part(g, i)]
  <2>1. ASSUME NEW i \in 0 .. n - 1 PROVE g[i] = Part(g, i)
    <3>1. CASE i = 0
      BY <1>4, <1>5, <3>1
    <3>2. CASE i # 0
      <4>1. i \in 1 .. n - 1 /\ i - 1 \in 0 .. n - 1
        BY <3>2
      <4> QED
        BY <1>6, <3>2, <4>1
    <3> QED
      BY <3>1, <3>2
  <2>2. g = [i \in 0 .. n - 1 |-> g[i]]
    OBVIOUS
  <2> HIDE DEF g
  <2> QED
    BY <2>1, <2>2
<1>8. PICK t : t = G
  OBVIOUS
<1>9. t = [i \in 0 .. n - 1 |-> Part(t, i)]
  BY <1>7, <1>8
<1>10. Permuted(x, n) = t[n - 1].x
  BY <1>8 DEF Permuted
<1>11. PICK m \in Nat, l \in Nat : m = 0 /\ l = n - 1
  BY <1>1
<1>12. GoAlike(m, l, t, g)
  <2>1. \A i \in m .. l : t[i] = Part(t, i) /\ g[i] = Part(g, i)
    BY <1>7, <1>9, <1>11
  <2> HIDE DEF g
  <2> QED
    BY <1>11, <2>1 DEF GoAlike
<1>13. t[l] = g[l]
  <2>1. l \in m .. l
    BY <1>11
  <2> QED
    BY <1>12, <2>1, SameRecursion
<1>14. At(n - 1) = [k \in 0 .. n - 1 |-> x[r[k]]]
  BY <1>4 DEF At, PairsSwapped
<1>15. Permuted(x, n) = [k \in 0 .. n - 1 |-> x[r[k]]]
  BY <1>10, <1>11, <1>13, <1>14
<1> QED
  BY <1>1, <1>2, <1>15 DEF Reversed

-----------------------------------------------------------------------------
(* The stages of compute_fft: what the buffer is to be after each.         *)

(* The roots: their squares are those of the stage before, and half way    *)
(* round they are -1.                                                      *)
LEMMA Product ==
  ASSUME NEW a \in Nat, NEW b \in Nat, a > 0
  PROVE  (a * b) \div a = b
<1>1. a * b \in Nat
  OBVIOUS
<1>2. PICK q \in Int, r \in 0 .. a - 1 : q = (a * b) \div a /\ a * b = a * q + r
  <2>1. (a * b) \div a \in Int /\ (a * b) % a \in 0 .. a - 1
        /\ a * b = a * ((a * b) \div a) + ((a * b) % a)
    BY <1>1
  <2> QED
    BY <2>1
<1>3. CASE q >= b + 1
  <2>1. a * q >= a * (b + 1)
    BY <1>3
  <2> QED
    BY <1>2, <2>1
<1>4. CASE q <= b - 1
  <2>1. a * q <= a * (b - 1)
    BY <1>4
  <2> QED
    BY <1>2, <2>1
<1> QED
  BY <1>2, <1>3, <1>4

(* The root of a length, a power of two,                                   *)
LEMMA RootIs ==
  ASSUME NEW M \in Nat, TwoTo(M) = MaxN, NEW e \in Nat, NEW s \in Nat, e + s = M
  PROVE  RootOf(TwoTo(e)) = Power(Root, TwoTo(s)) /\ TwoTo(e) * TwoTo(s) = MaxN
<1>1. MaxN = TwoTo(e) * TwoTo(s)
  BY TwoToAdds
<1>2. TwoTo(e) \in Nat /\ TwoTo(e) > 0 /\ TwoTo(s) \in Nat
  BY TwoToGrows
<1>3. MaxN \div TwoTo(e) = TwoTo(s)
  BY <1>1, <1>2, Product
<1> QED
  BY <1>1, <1>3 DEF RootOf

(* and -1 half way round.                                                  *)
LEMMA HalfWayRound ==
  ASSUME MaxN > 1, NEW h \in Nat, MaxN = 2 * h
  PROVE  Power(Root, h) = Prime - 1 /\ Power(Root, MaxN) = 1
<1>1. Root \in Nat /\ Prime \in Nat /\ Prime > 1
  BY FftAssumption
<1>2. MaxN \div 2 = h
  OBVIOUS
<1>3. Power(Root, h) = Prime - 1
  BY <1>2, FftAssumption
<1>4. Power(Root, h + h) = Mod((Prime - 1) * (Prime - 1))
  <2>1. Power(Root, h + h) = Mod(Power(Root, h) * Power(Root, h))
    BY ONLY <1>1, h \in Nat, PowerAdds
  <2> QED
    BY ONLY <1>3, <2>1
<1>5. PICK p \in Int : p = Prime
  BY <1>1
<1>6. PICK a \in Int, b \in Int, q \in Int : a = (p - 1) * (p - 1) /\ b = 1 /\ q = p - 2
  OBVIOUS
<1>7. a = q * p + b
  BY <1>6
<1>8. Mod(a) = Mod(b)
  BY <1>5, <1>7, ModOf
<1>9. Mod(1) = 1
  BY ModLaws, ResiduesAreNumbers
<1> QED
  BY <1>3, <1>4, <1>5, <1>6, <1>8, <1>9

(* What a block of a stage has become: block b, of length h, is the        *)
(* transform of the elements that lie TwoTo(m) apart from the reversed b   *)
(* on, with the root of that length, which is Root ^ TwoTo(s).             *)
Place(R, m, b, t) == R[m][b] + t * TwoTo(m)
Terms(x, R, m, s, h, b, j) ==
  [t \in 0 .. h - 1 |-> x[Place(R, m, b, t)] * Power(Root, TwoTo(s) * (j * t))]
BlockAt(x, R, m, s, h, b, j) == Total(Terms(x, R, m, s, h, b, j), h)

Span(h, m) == 0 .. h * TwoTo(m) - 1    \* TwoTo(m) blocks of length h
(* The elements and powers in a block are numbers.                         *)
LEMMA TermsAreNumbers ==
  ASSUME NEW E \in Nat, NEW R, IsReversal(R, E), NEW m \in 0 .. E,
         NEW h \in Nat, NEW x \in [Span(h, m) -> Residues],
         NEW b \in 0 .. TwoTo(m) - 1, NEW s \in Nat, NEW j \in Nat
  PROVE  /\ \A t \in 0 .. h - 1 : Place(R, m, b, t) \in Span(h, m)
         /\ \A t \in 0 .. h - 1 : /\ x[Place(R, m, b, t)] \in Nat
                                  /\ Power(Root, TwoTo(s) * (j * t)) \in Nat
         /\ Terms(x, R, m, s, h, b, j) \in [0 .. h - 1 -> Nat]
<1>1. PICK g \in Nat : g = TwoTo(m) /\ g > 0
  BY TwoToGrows
<1>2. PICK v \in 0 .. g - 1 : v = R[m][b]
  BY <1>1, ReversalRange
<1>3. ASSUME NEW t \in 0 .. h - 1 PROVE Place(R, m, b, t) \in Span(h, m)
  <2>1. PICK l \in Nat, w \in Nat : h = l + 1 /\ l = t + w
    <3>1. h - 1 \in Nat /\ h = (h - 1) + 1 /\ (h - 1) - t \in Nat
          /\ h - 1 = t + ((h - 1) - t)
      OBVIOUS
    <3> QED
      BY <3>1
  <2>2. h * g = t * g + w * g + g /\ t * g \in Nat /\ w * g \in Nat
    BY <2>1
  <2>3. PICK y \in Nat, z \in Nat : y = t * g /\ z = w * g
    BY <2>2
  <2>4. h * g = y + z + g /\ Place(R, m, b, t) = v + y
    BY <1>1, <1>2, <2>2, <2>3 DEF Place
  <2>5. v \in Int /\ 0 <= v /\ v <= g - 1
    OBVIOUS
  <2>6. v + y \in 0 .. y + z + g - 1
    BY ONLY <2>5, g \in Nat, y \in Nat, z \in Nat
  <2> QED
    BY <1>1, <2>4, <2>6 DEF Span
<1>4. ASSUME NEW t \in 0 .. h - 1
      PROVE  /\ x[Place(R, m, b, t)] \in Nat /\ Power(Root, TwoTo(s) * (j * t)) \in Nat
  <2>1. x[Place(R, m, b, t)] \in Residues
    BY <1>3
  <2>2. PICK f \in Nat : f = TwoTo(s)
    BY TwoToGrows
  <2>3. f * (j * t) \in Nat
    OBVIOUS
  <2>4. Root \in Nat
    BY FftAssumption
  <2> QED
    BY <2>1, <2>2, <2>3, <2>4, ResiduesAreNumbers, PowersAreResidues
<1>5. \A t \in 0 .. h - 1 :
        x[Place(R, m, b, t)] * Power(Root, TwoTo(s) * (j * t)) \in Nat
  <2>1. \A c, d \in Nat : c * d \in Nat
    OBVIOUS
  <2> QED
    BY <1>4, <2>1
<1> QED
  BY <1>3, <1>4, <1>5 DEF Terms

(* The exponents of a butterfly.                                           *)
FullCircle(u, h) == MaxN > 1 /\ 2 * (u * h) = MaxN
Apart(i, j, h, d) == j = IF d = 1 THEN i + h ELSE i
EvenAndOdd(u, i, j, t) ==
  /\ Power(Root, u * (j * (2 * t))) = Power(Root, (2 * u) * (i * t))
  /\ Power(Root, u * (j * (2 * t + 1))) =
       Mod(Power(Root, (2 * u) * (i * t)) * Power(Root, u * j))
Opposite(u, i, j) == Power(Root, u * j) = Mod(Power(Root, u * i) * (Prime - 1))
(* They hold, as the root goes round once in MaxN.                         *)
LEMMA Exponents ==
  ASSUME NEW u \in Nat, NEW h \in Nat, FullCircle(u, h),
         NEW i \in Nat, NEW d \in {0, 1}, NEW j \in Nat, Apart(i, j, h, d), NEW t \in Nat
  PROVE  EvenAndOdd(u, i, j, t) /\ (d = 1 => Opposite(u, i, j))
<1>1. Root \in Nat
  BY FftAssumption
<1>2. PICK k \in Nat : k = u * h /\ MaxN = 2 * k /\ MaxN > 1
  BY DEF FullCircle
<1>3. Power(Root, k) = Prime - 1 /\ Power(Root, MaxN) = 1
  BY <1>2, HalfWayRound
<1>4. PICK a \in Nat, c \in Nat : a = (2 * u) * (i * t) /\ c = d * t
  OBVIOUS
<1>5. u * (j * (2 * t)) = a + MaxN * c
  <2>1. CASE d = 0
    <3>1. j = i /\ c = 0
      BY <1>4, <2>1 DEF Apart
    <3> QED
      BY <1>2, <1>4, <3>1
  <2>2. CASE d = 1
    <3>1. j = i + h /\ c = t
      BY <1>4, <2>2 DEF Apart
    <3>2. u * ((i + h) * (2 * t)) = (2 * u) * (i * t) + (2 * (u * h)) * t
      OBVIOUS
    <3> QED
      BY <1>2, <1>4, <3>1, <3>2
  <2> QED
    BY <2>1, <2>2
<1>6. Power(Root, a + MaxN * c) = Power(Root, a)
  <2>1. PICK p \in Nat : p = MaxN
    BY <1>2
  <2>2. Power(Root, p) = 1
    BY <1>3, <2>1
  <2>3. \A y \in Nat : Power(Root, a + p * y) = Power(Root, a)
    BY ONLY <1>1, <2>2, p \in Nat, a \in Nat, PowerRepeats
  <2> QED
    BY <2>1, <2>3
<1>7. PICK f \in Nat, g \in Nat : f = u * (j * (2 * t)) /\ g = u * j
  OBVIOUS
<1>8. u * (j * (2 * t + 1)) = f + g
  BY <1>7
<1>9. Power(Root, f + g) = Mod(Power(Root, f) * Power(Root, g))
  BY <1>1, PowerAdds
<1>10. ASSUME d = 1 PROVE Opposite(u, i, j)
  <2>1. PICK l \in Nat : l = u * i
    OBVIOUS
  <2>2. u * j = l + k
    BY <1>2, <1>10, <2>1 DEF Apart
  <2>3. Power(Root, l + k) = Mod(Power(Root, l) * Power(Root, k))
    BY <1>1, PowerAdds
  <2> QED
    BY <1>3, <2>1, <2>2, <2>3 DEF Opposite
<1> QED
  BY <1>4, <1>5, <1>6, <1>7, <1>8, <1>9, <1>10 DEF EvenAndOdd

(* A block is made of the two blocks of the stage before.                  *)
LEMMA BlockSplits ==
  ASSUME NEW E \in Nat, NEW R, IsReversal(R, E), NEW m \in 0 .. E, NEW k \in 0 .. E,
         k = m + 1, NEW h \in Nat, NEW l \in Nat, l = 2 * h, NEW x \in [Span(l, m) -> Residues],
         NEW b \in 0 .. TwoTo(m) - 1, NEW b0 \in Nat, NEW b1 \in Nat,
         b0 = 2 * b, b1 = 2 * b + 1,
         NEW s \in Nat, NEW s1 \in Nat, s1 = s + 1, FullCircle(TwoTo(s), h),
         NEW i \in Nat, NEW d \in {0, 1}, NEW j \in Nat, Apart(i, j, h, d)
  PROVE  BlockAt(x, R, m, s, l, b, j) =
           Mod(BlockAt(x, R, k, s1, h, b0, i)
                 + Power(Root, TwoTo(s) * j) * BlockAt(x, R, k, s1, h, b1, i))
<1>1. PICK g \in Nat, u \in Nat :
        /\ g = TwoTo(m) /\ TwoTo(k) = 2 * g
        /\ u = TwoTo(s) /\ TwoTo(s1) = 2 * u
  <2>1. m \in Nat
    OBVIOUS
  <2>2. TwoTo(m) \in Nat /\ TwoTo(m + 1) = 2 * TwoTo(m)
    BY <2>1, TwoToSteps
  <2>3. TwoTo(s) \in Nat /\ TwoTo(s + 1) = 2 * TwoTo(s)
    BY TwoToSteps
  <2> QED
    BY <2>2, <2>3
<1>3. x \in [Span(h, k) -> Residues]
  <2>1. (2 * h) * g = h * (2 * g)
    OBVIOUS
  <2> QED
    BY <1>1, <2>1 DEF Span
<1>4. b0 \in 0 .. TwoTo(k) - 1 /\ b1 \in 0 .. TwoTo(k) - 1 /\ b \in Nat
  BY <1>1
<1>5. PICK z, e, o : /\ z = Terms(x, R, m, s, l, b, j)
                     /\ e = Terms(x, R, k, s1, h, b0, i)
                     /\ o = Terms(x, R, k, s1, h, b1, i)
  OBVIOUS
<1>6. z \in [0 .. l - 1 -> Nat]
  BY <1>3, <1>5, TermsAreNumbers
<1>7. e \in [0 .. h - 1 -> Nat] /\ o \in [0 .. h - 1 -> Nat]
  BY <1>3, <1>4, <1>5, TermsAreNumbers
<1>8. PICK w : w = [t \in 0 .. h - 1 |-> z[2 * t + 1]]
  OBVIOUS
<1>9. w \in [0 .. h - 1 -> Nat]
  <2>1. \A t \in 0 .. h - 1 : 2 * t + 1 \in 0 .. l - 1
    OBVIOUS
  <2> QED
    BY <1>6, <1>8, <2>1
<1>10. PICK c \in Nat : c = Power(Root, u * j)
  BY FftAssumption, PowersAreResidues
<1>11. R[k][b0] = R[m][b] /\ R[k][b1] = R[m][b] + g /\ R[m][b] \in Nat
  <2>1. LowestBit(R, m, k, b0, b, 0) /\ LowestBit(R, m, k, b1, b, 1)
    BY <1>4 DEF IsReversal
  <2>2. Bit(m, 0) = 0 /\ Bit(m, 1) = g
    BY <1>1 DEF Bit
  <2>3. R[m][b] \in Nat
    BY <1>4 DEF IsReversal
  <2> QED
    BY <1>4, <2>1, <2>2, <2>3 DEF LowestBit
<1>12. ASSUME NEW t \in 0 .. h - 1
       PROVE  e[t] = z[2 * t] /\ Mod(w[t]) = Mod(c * o[t])
  <2>1. 2 * t \in 0 .. l - 1 /\ 2 * t + 1 \in 0 .. l - 1 /\ t \in Nat
    OBVIOUS
  <2>2. PICK v \in Nat : v = R[m][b]
    BY <1>11
  <2>3. /\ Place(R, m, b, 2 * t) = Place(R, k, b0, t)
        /\ Place(R, m, b, 2 * t + 1) = Place(R, k, b1, t)
    <3>1. /\ v + (2 * t) * g = v + t * (2 * g)
          /\ v + (2 * t + 1) * g = (v + g) + t * (2 * g)
      BY <2>1
    <3> QED
      BY <1>1, <1>11, <2>2, <3>1 DEF Place
  <2>4. PICK a \in Nat, p \in Nat, q \in Nat :
          /\ a = x[Place(R, k, b0, t)] /\ q = x[Place(R, k, b1, t)]
          /\ p = Power(Root, TwoTo(s1) * (i * t))
    <3>1. x[Place(R, k, b0, t)] \in Nat
      BY <1>3, <1>4, TermsAreNumbers
    <3>2. x[Place(R, k, b1, t)] \in Nat
      BY <1>3, <1>4, TermsAreNumbers
    <3>3. Power(Root, TwoTo(s1) * (i * t)) \in Nat
      <4>1. TwoTo(s1) * (i * t) \in Nat /\ Root \in Nat
        BY <1>1, FftAssumption
      <4> QED
        BY <4>1, PowersAreResidues
    <3> QED
      BY <3>1, <3>2, <3>3
  <2>5. /\ Power(Root, u * (j * (2 * t))) = p
        /\ Power(Root, u * (j * (2 * t + 1))) = Mod(p * c)
    <3>1. FullCircle(u, h)
      BY <1>1
    <3>2. p = Power(Root, (2 * u) * (i * t))
      BY <1>1, <2>4
    <3>3. EvenAndOdd(u, i, j, t)
      BY <2>1, <3>1, Exponents
    <3> QED
      BY <1>10, <3>2, <3>3 DEF EvenAndOdd
  <2>6. e[t] = a * p /\ o[t] = q * p
    BY <1>5, <2>4 DEF Terms
  <2>7. z[2 * t] = a * p /\ z[2 * t + 1] = q * Mod(p * c)
    BY <1>1, <1>5, <2>1, <2>3, <2>4, <2>5 DEF Terms
  <2>8. Mod(q * Mod(p * c)) = Mod(c * (q * p))
    <3>1. PICK y \in Int : y = p * c
      OBVIOUS
    <3>2. Mod(q * Mod(y)) = Mod(q * y)
      BY ModProduct
    <3>3. q * y = c * (q * p)
      BY <3>1
    <3> QED
      BY <3>1, <3>2, <3>3
  <2> QED
    BY <1>8, <2>6, <2>7, <2>8
<1>13. Total(w, h) = Mod(c * Total(o, h))
  <2>1. Scaled(h, o, w, c)
    BY <1>12 DEF Scaled
  <2> QED
    BY ONLY <1>7, <1>9, h \in Nat, c \in Nat, <2>1, TotalScales
<1>14. Total(z, 2 * h) = Mod(Total(e, h) + Total(w, h))
  <2>1. z \in [0 .. 2 * h - 1 -> Nat]
    BY <1>6
  <2>2. \A t \in 0 .. h - 1 : e[t] = z[2 * t] /\ w[t] = z[2 * t + 1]
    BY <1>8, <1>12
  <2> QED
    BY <1>7, <1>9, <2>1, <2>2, TotalSplits
<1>15. PICK y \in Int, f \in Int, n \in Int : y = Total(e, h) /\ n = Total(o, h) /\ f = c * n
  <2>1. h \in 0 .. h
    OBVIOUS
  <2>2. Total(e, h) \in Int /\ Total(o, h) \in Int
    BY <1>7, <2>1, TotalsAreNumbers
  <2> QED
    BY <2>2
<1>16. Mod(y + Mod(f)) = Mod(y + f)
  BY ModSums
<1> QED
  BY <1>1, <1>5, <1>10, <1>13, <1>14, <1>15, <1>16 DEF BlockAt

(* Minus one times a number is taken away.                                 *)
LEMMA MinusOne ==
  ASSUME NEW v0 \in Nat, NEW v1 \in Nat, NEW w \in Nat
  PROVE  Mod(v0 + Mod(w * (Prime - 1)) * v1) = Mod(v0 - v1 * w)
<1>1. PICK p \in Int : p = Prime
  BY FftAssumption
<1>2. PICK a \in Int, f \in Int : a = w * (p - 1) /\ f = a * v1
  OBVIOUS
<1>3. Mod(Mod(a) * v1) = Mod(f)
  BY <1>2, ModLaws
<1>4. PICK c \in Int : c = Mod(a)
  BY ModIsNumber
<1>5. PICK r \in Int : r = c * v1
  OBVIOUS
<1>6. Mod(v0 + Mod(r)) = Mod(v0 + r) /\ Mod(v0 + Mod(f)) = Mod(v0 + f)
  BY ModSums
<1>7. PICK y \in Int, z \in Int, q \in Int : y = v0 + f /\ z = v0 - v1 * w /\ q = w * v1
  OBVIOUS
<1>8. y = q * p + z
  <2>1. (w * (p - 1)) * v1 = (w * v1) * p - v1 * w
    OBVIOUS
  <2> QED
    BY <1>2, <1>7, <2>1
<1>9. Mod(y) = Mod(z)
  BY <1>1, <1>8, ModOf
<1> QED
  BY <1>1, <1>2, <1>3, <1>4, <1>5, <1>6, <1>7, <1>9

(* What a block has become is a residue.                                   *)
LEMMA BlocksAreNumbers ==
  ASSUME NEW E \in Nat, NEW R, IsReversal(R, E), NEW m \in 0 .. E,
         NEW h \in Nat, NEW x \in [Span(h, m) -> Residues],
         NEW b \in 0 .. TwoTo(m) - 1, NEW s \in Nat, NEW j \in Nat
  PROVE  BlockAt(x, R, m, s, h, b, j) \in Residues /\ BlockAt(x, R, m, s, h, b, j) \in Nat
<1>1. PICK y \in [0 .. h - 1 -> Nat] : y = Terms(x, R, m, s, h, b, j)
  BY TermsAreNumbers
<1>2. h \in 0 .. h
  OBVIOUS
<1>3. Total(y, h) \in Residues /\ Total(y, h) \in Nat
  BY <1>2, TotalsAreNumbers
<1> QED
  BY <1>1, <1>3 DEF BlockAt

(* So a butterfly gives the two elements of a block half its length apart. *)
ButterflyGives(x, R, m, k, s, s1, h, l, b, b0, b1, i, j) ==
  /\ BlockAt(x, R, m, s, l, b, i) =
       (BlockAt(x, R, k, s1, h, b0, i)
          + BlockAt(x, R, k, s1, h, b1, i) * Power(Root, TwoTo(s) * i)) % Prime
  /\ BlockAt(x, R, m, s, l, b, j) =
       (BlockAt(x, R, k, s1, h, b0, i)
          - BlockAt(x, R, k, s1, h, b1, i) * Power(Root, TwoTo(s) * i)) % Prime
LEMMA ButterflyIs ==
  ASSUME NEW E \in Nat, NEW R, IsReversal(R, E), NEW m \in 0 .. E, NEW k \in 0 .. E,
         k = m + 1, NEW h \in Nat, NEW l \in Nat, l = 2 * h, NEW x \in [Span(l, m) -> Residues],
         NEW b \in 0 .. TwoTo(m) - 1, NEW b0 \in Nat, NEW b1 \in Nat,
         b0 = 2 * b, b1 = 2 * b + 1,
         NEW s \in Nat, NEW s1 \in Nat, s1 = s + 1, FullCircle(TwoTo(s), h),
         NEW i \in Nat, NEW j \in Nat, j = i + h
  PROVE  ButterflyGives(x, R, m, k, s, s1, h, l, b, b0, b1, i, j)
<1>1. PICK g \in Nat : g = TwoTo(m) /\ TwoTo(k) = 2 * g
  <2>1. m \in Nat
    OBVIOUS
  <2>2. TwoTo(m) \in Nat /\ TwoTo(m + 1) = 2 * TwoTo(m)
    BY <2>1, TwoToSteps
  <2> QED
    BY <2>2
<1>2. PICK u \in Nat : u = TwoTo(s)
  BY TwoToSteps
<1>3. x \in [Span(h, k) -> Residues]
  <2>1. (2 * h) * g = h * (2 * g)
    OBVIOUS
  <2> QED
    BY <1>1, <2>1 DEF Span
<1>4. b0 \in 0 .. TwoTo(k) - 1 /\ b1 \in 0 .. TwoTo(k) - 1
  BY <1>1
<1>5. PICK v0 \in Nat : v0 = BlockAt(x, R, k, s1, h, b0, i)
  BY <1>3, <1>4, BlocksAreNumbers
<1>6. PICK v1 \in Nat : v1 = BlockAt(x, R, k, s1, h, b1, i)
  BY <1>3, <1>4, BlocksAreNumbers
<1>7. PICK w \in Nat : w = Power(Root, u * i)
  <2>1. u * i \in Nat /\ Root \in Nat
    BY FftAssumption
  <2> QED
    BY <2>1, PowersAreResidues
<1>8. BlockAt(x, R, m, s, l, b, i) = Mod(v0 + w * v1)
  <2>1. PICK d \in {0, 1} : d = 0
    OBVIOUS
  <2>2. Apart(i, i, h, d)
    BY <2>1 DEF Apart
  <2>3. BlockAt(x, R, m, s, l, b, i) =
          Mod(BlockAt(x, R, k, s1, h, b0, i)
                + Power(Root, TwoTo(s) * i) * BlockAt(x, R, k, s1, h, b1, i))
    BY <2>2, BlockSplits
  <2> QED
    BY <1>2, <1>5, <1>6, <1>7, <2>3
<1>9. BlockAt(x, R, m, s, l, b, j) = Mod(v0 + Power(Root, u * j) * v1)
  <2>1. PICK d \in {0, 1} : d = 1
    OBVIOUS
  <2>2. Apart(i, j, h, d)
    BY <2>1 DEF Apart
  <2>3. BlockAt(x, R, m, s, l, b, j) =
          Mod(BlockAt(x, R, k, s1, h, b0, i)
                + Power(Root, TwoTo(s) * j) * BlockAt(x, R, k, s1, h, b1, i))
    BY <2>2, BlockSplits
  <2> QED
    BY <1>2, <1>5, <1>6, <2>3
<1>10. Power(Root, u * j) = Mod(w * (Prime - 1))
  <2>1. PICK d \in {0, 1}, t \in Nat : d = 1 /\ t = 0
    OBVIOUS
  <2>2. Apart(i, j, h, d) /\ FullCircle(u, h)
    BY <1>2, <2>1 DEF Apart
  <2>3. Opposite(u, i, j)
    BY <2>1, <2>2, Exponents
  <2> QED
    BY <1>7, <2>3 DEF Opposite
<1>11. BlockAt(x, R, m, s, l, b, j) = Mod(v0 - v1 * w)
  BY <1>9, <1>10, MinusOne
<1>12. w * v1 = v1 * w
  OBVIOUS
<1> QED
  BY ONLY <1>2, <1>5, <1>6, <1>7, <1>8, <1>11, <1>12 DEF Mod, ButterflyGives

(* What is left of h * q + i, and how often h goes into it.                *)
LEMMA QuotientOf ==
  ASSUME NEW h \in Nat, h > 0, NEW q \in Nat, NEW i \in 0 .. h - 1, NEW k \in Nat,
         k = h * q + i
  PROVE  k \div h = q /\ k % h = i
<1>1. PICK p \in Int, r \in 0 .. h - 1 : p = k \div h /\ r = k % h /\ k = h * p + r
  <2>1. k \div h \in Int /\ k % h \in 0 .. h - 1 /\ k = h * (k \div h) + (k % h)
    OBVIOUS
  <2> QED
    BY <2>1
<1>2. h * p + r = h * q + i
  BY <1>1
<1>3. CASE p >= q + 1
  <2>1. PICK d \in Nat : p = q + 1 + d
    <3>1. p - q - 1 \in Nat /\ p = q + 1 + (p - q - 1)
      BY <1>3
    <3> QED
      BY <3>1
  <2>2. h * p = h * q + h + h * d /\ h * d \in Nat /\ h * q \in Nat
    BY <2>1
  <2>3. PICK a \in Nat, c \in Nat : a = h * q /\ c = h * d
    BY <2>2
  <2>4. a + h + c + r = a + i
    BY <1>2, <2>2, <2>3
  <2> QED
    BY ONLY <2>4, h \in Nat, a \in Nat, c \in Nat, r \in 0 .. h - 1, i \in 0 .. h - 1
<1>4. CASE p <= q - 1
  <2>1. PICK d \in Nat : q = p + 1 + d
    <3>1. q - p - 1 \in Nat /\ q = p + 1 + (q - p - 1)
      BY <1>4
    <3> QED
      BY <3>1
  <2>2. h * q = h * p + h + h * d /\ h * d \in Nat /\ h * p \in Int
    BY <2>1
  <2>3. PICK a \in Int, c \in Nat : a = h * p /\ c = h * d
    BY <2>2
  <2>4. a + r = a + h + c + i
    BY <1>2, <2>2, <2>3
  <2> QED
    BY ONLY <2>4, h \in Nat, a \in Int, c \in Nat, r \in 0 .. h - 1, i \in 0 .. h - 1
<1>5. CASE p = q
  BY <1>1, <1>2, <1>5
<1>6. p >= q + 1 \/ p <= q - 1 \/ p = q
  OBVIOUS
<1> QED
  BY <1>1, <1>3, <1>4, <1>5, <1>6

(* An element of a block of twice the length h: which block, where in it,  *)
(* and the blocks of length h that its butterfly takes it from.            *)
Halved(k, h, g, b, i) ==
  /\ b \in 0 .. g - 1 /\ i \in 0 .. h - 1
  /\ \/ /\ k % (2 * h) = i /\ k \div (2 * h) = b
        /\ k % (2 * h) < h /\ k % h = i /\ k \div h = 2 * b
        /\ (k + h) % h = i /\ (k + h) \div h = 2 * b + 1
        /\ k + h < (2 * h) * g /\ (k % (2 * h)) % h = i
     \/ /\ k % (2 * h) = i + h /\ k \div (2 * h) = b
        /\ ~(k % (2 * h) < h) /\ k % h = i /\ k \div h = 2 * b + 1
        /\ (k - h) % h = i /\ (k - h) \div h = 2 * b
        /\ k - h >= 0 /\ (k % (2 * h)) % h = i
LEMMA BlockHalves ==
  ASSUME NEW h \in Nat, h > 0, NEW g \in Nat, NEW k \in 0 .. (2 * h) * g - 1
  PROVE  \E b, i \in Nat : Halved(k, h, g, b, i)
<1>1. PICK l \in Nat : l = 2 * h /\ l > 0
  OBVIOUS
<1>2. k \in Nat
  OBVIOUS
<1>3. PICK b \in Nat, j \in 0 .. l - 1 : b = k \div l /\ j = k % l /\ k = l * b + j
  <2>1. k \div l \in Nat /\ k % l \in 0 .. l - 1 /\ k = l * (k \div l) + (k % l)
    BY <1>1, <1>2
  <2> QED
    BY <2>1
<1>4. b < g /\ (j < h => k + h < (2 * h) * g)
  <2>1. k < l * g
    BY <1>1
  <2>2. CASE b >= g
    <3>1. PICK d \in Nat : b = g + d
      <4>1. b - g \in Nat /\ b = g + (b - g)
        BY <2>2
      <4> QED
        BY <4>1
    <3>2. l * b = l * g + l * d /\ l * d \in Nat /\ l * g \in Nat
      BY <3>1
    <3>3. PICK x \in Nat, y \in Nat : x = l * g /\ y = l * d
      BY <3>2
    <3>4. k = x + y + j /\ k < x
      BY <1>3, <2>1, <3>2, <3>3
    <3> QED
      BY ONLY <3>4, x \in Nat, y \in Nat, j \in 0 .. l - 1, l \in Nat
  <2>3. CASE b < g
    <3>1. PICK d \in Nat : g = b + 1 + d
      <4>1. g - b - 1 \in Nat /\ g = b + 1 + (g - b - 1)
        BY <2>3
      <4> QED
        BY <4>1
    <3>2. l * g = l * b + l + l * d /\ l * d \in Nat /\ l * b \in Nat
      BY <3>1
    <3>3. PICK x \in Nat, y \in Nat : x = l * b /\ y = l * d
      BY <3>2
    <3>4. k = x + j /\ l * g = x + l + y
      BY <1>3, <3>2, <3>3
    <3>5. j < h => k + h < l * g
      BY ONLY <1>1, <3>4, x \in Nat, y \in Nat, j \in 0 .. l - 1, l \in Nat, h \in Nat
    <3> QED
      BY <1>1, <2>3, <3>5
  <2> QED
    BY <2>2, <2>3
<1>5. PICK c \in Nat, d \in Nat : c = 2 * b /\ d = 2 * b + 1
  OBVIOUS
<1>6. l * b = h * c /\ h * d = h * c + h /\ h * c \in Nat
  <2>1. (2 * h) * b = h * (2 * b) /\ h * (2 * b + 1) = h * (2 * b) + h
        /\ h * (2 * b) \in Nat
    OBVIOUS
  <2> QED
    BY <1>1, <1>5, <2>1
<1>7. PICK a \in Nat : a = h * c
  BY <1>6
<1>8. CASE j < h
  <2>1. j \in 0 .. h - 1 /\ k = h * c + j
    BY <1>3, <1>6, <1>8
  <2>2. k \div h = c /\ k % h = j
    BY <1>2, <2>1, QuotientOf
  <2>3. PICK p \in Nat : p = k + h
    BY <1>2
  <2>4. p = h * d + j
    BY <1>6, <1>7, <2>1, <2>3
  <2>5. p \div h = d /\ p % h = j
    BY <2>1, <2>4, QuotientOf
  <2>6. j % h = j
    BY <2>1
  <2>7. Halved(k, h, g, b, j)
    BY <1>1, <1>3, <1>4, <1>5, <1>8, <2>1, <2>2, <2>3, <2>5, <2>6 DEF Halved
  <2> QED
    BY <1>3, <2>7
<1>9. CASE ~(j < h)
  <2>1. PICK i \in Nat : i = j - h
    BY <1>9
  <2>2. i \in 0 .. h - 1 /\ j = i + h
    BY <1>1, <2>1
  <2>3. k = h * d + i
    BY <1>3, <1>6, <1>7, <2>2
  <2>4. k \div h = d /\ k % h = i
    BY <1>2, <2>2, <2>3, QuotientOf
  <2>5. k - h = h * c + i /\ k - h >= 0
    BY <1>6, <1>7, <2>2, <2>3
  <2>6. PICK p \in Nat : p = k - h
    BY <1>2, <2>5
  <2>7. p \div h = c /\ p % h = i
    BY <2>2, <2>5, <2>6, QuotientOf
  <2>8. j % h = i
    <3>1. j = h * 1 + i /\ j \in Nat /\ 1 \in Nat
      BY <2>2
    <3> QED
      BY ONLY <3>1, <2>2, h \in Nat, h > 0, QuotientOf
  <2>9. Halved(k, h, g, b, i)
    BY <1>1, <1>3, <1>4, <1>5, <1>9, <2>2, <2>4, <2>5, <2>6, <2>7, <2>8 DEF Halved
  <2> QED
    BY <2>9
<1> QED
  BY <1>8, <1>9

(* The whole buffer after e stages.                                        *)
Stage(x, R, m, s, n, h) ==
  [k \in 0 .. n - 1 |-> BlockAt(x, R, m, s, h, k \div h, k % h)]

(* Before the first stage a block is one element,                          *)
LEMMA StageOfPermuted ==
  ASSUME NEW E \in Nat, NEW R, IsReversal(R, E), NEW n \in Nat, n = TwoTo(E),
         NEW x \in [0 .. n - 1 -> Residues], NEW s \in Nat
  PROVE  Stage(x, R, E, s, n, 1) = Permuted(x, n)
<1>1. Permuted(x, n) = [k \in 0 .. n - 1 |-> x[R[E][k]]]
  <2>1. PICK S : S = Residues
    OBVIOUS
  <2>2. x \in [0 .. TwoTo(E) - 1 -> S]
    BY <2>1
  <2>3. Permuted(x, TwoTo(E)) = Reversed(x, R, E)
    BY ONLY E \in Nat, IsReversal(R, E), <2>2, PermutedIs
  <2> QED
    BY <2>3 DEF Reversed
<1>2. ASSUME NEW k \in 0 .. n - 1
      PROVE  BlockAt(x, R, E, s, 1, k \div 1, k % 1) = x[R[E][k]]
  <2>1. k \div 1 = k /\ k % 1 = 0 /\ k \in Nat
    OBVIOUS
  <2>2. PICK v \in 0 .. n - 1 : v = R[E][k]
    <3>1. E \in 0 .. E
      OBVIOUS
    <3> QED
      BY <3>1, ReversalRange
  <2>3. PICK a \in Nat : a \in Residues /\ a = x[v]
    BY ResiduesAreNumbers
  <2>4. PICK y : y = Terms(x, R, E, s, 1, k, 0)
    OBVIOUS
  <2>5. y = [t \in 0 .. 0 |-> a]
    <3>1. ASSUME NEW t \in 0 .. 1 - 1
          PROVE  x[Place(R, E, k, t)] * Power(Root, TwoTo(s) * (0 * t)) = a
      <4>1. t = 0 /\ Place(R, E, k, t) = v + 0 * TwoTo(E)
        BY <2>2 DEF Place
      <4>2. PICK f \in Nat : f = TwoTo(s)
        BY TwoToSteps
      <4>3. v + 0 * n = v /\ f * (0 * 0) = 0
        OBVIOUS
      <4>4. Power(Root, 0) = 1
        BY FftAssumption, PowerSteps
      <4> QED
        BY <2>3, <4>1, <4>2, <4>3, <4>4
    <3>2. 1 - 1 = 0
      OBVIOUS
    <3> QED
      BY <2>4, <3>1, <3>2 DEF Terms
  <2>6. PICK p \in Nat : p = 1
    OBVIOUS
  <2>7. y \in [0 .. p - 1 -> Nat]
    BY <2>5, <2>6
  <2>8. Total(y, 0) = 0 /\ Total(y, 0 + 1) = Mod(Total(y, 0) + y[0])
    <3>1. 0 \in 0 .. p - 1
      BY <2>6
    <3> QED
      BY <2>7, <3>1, TotalSteps
  <2>9. y[0] = a /\ 0 + a = a /\ 0 + 1 = 1 /\ Mod(a) = a
    BY <2>3, <2>5, ModLaws
  <2>10. Total(y, 1) = a
    BY <2>8, <2>9
  <2> QED
    BY <2>1, <2>2, <2>3, <2>4, <2>10 DEF BlockAt
<1> QED
  BY <1>1, <1>2 DEF Stage

(* and a stage makes the buffer what it is to be after it.                 *)
LEMMA StageOfStage ==
  ASSUME NEW E \in Nat, NEW R, IsReversal(R, E), NEW M \in Nat, TwoTo(M) = MaxN,
         NEW e \in Nat, NEW e1 \in Nat, e1 = e + 1,
         NEW m \in Nat, NEW m1 \in Nat, m1 = m + 1, m1 + e = E,
         NEW s \in Nat, NEW s1 \in Nat, s1 = s + 1, s1 + e = M,
         NEW n \in Nat, n = TwoTo(E), NEW x \in [0 .. n - 1 -> Residues]
  PROVE  Stage(x, R, m, s, n, TwoTo(e1)) =
           Butterflies(Stage(x, R, m1, s1, n, TwoTo(e)), n, TwoTo(e1))
<1>1. PICK h \in Nat, l \in Nat :
        h = TwoTo(e) /\ l = TwoTo(e1) /\ l = 2 * h /\ h > 0 /\ l \div 2 = h
  <2>1. /\ TwoTo(e) \in Nat /\ TwoTo(e) > e /\ TwoTo(e + 1) = 2 * TwoTo(e)
        /\ TwoTo(e + 1) \div 2 = TwoTo(e)
    BY ONLY e \in Nat, TwoToGrows
  <2> QED
    BY <2>1
<1>2. PICK g \in Nat : g = TwoTo(m) /\ n = l * g
  <2>1. TwoTo(m) \in Nat
    BY TwoToSteps
  <2>2. E = e1 + m
    OBVIOUS
  <2>3. TwoTo(e1 + m) = TwoTo(e1) * TwoTo(m)
    BY TwoToAdds
  <2> QED
    BY <1>1, <2>1, <2>2, <2>3
<1>3. RootOf(l) = Power(Root, TwoTo(s)) /\ l * TwoTo(s) = MaxN
  <2>1. e1 + s = M
    OBVIOUS
  <2>2. RootOf(TwoTo(e1)) = Power(Root, TwoTo(s)) /\ TwoTo(e1) * TwoTo(s) = MaxN
    BY ONLY <2>1, M \in Nat, TwoTo(M) = MaxN, e1 \in Nat, s \in Nat, RootIs
  <2> QED
    BY <1>1, <2>2
<1>4. FullCircle(TwoTo(s), h)
  <2>1. PICK u \in Nat : u = TwoTo(s) /\ u > 0
    <3>1. TwoTo(s) \in Nat /\ TwoTo(s) > s
      BY ONLY s \in Nat, TwoToGrows
    <3> QED
      BY <3>1
  <2>2. 2 * (u * h) = (2 * h) * u
    OBVIOUS
  <2>3. (2 * h) * u > 1
    <3>1. h * u >= 1
      <4>1. PICK a \in Nat, c \in Nat : h = a + 1 /\ u = c + 1
        <5>1. h > 0 /\ u > 0
          BY <1>1, <2>1
        <5>2. h - 1 \in Nat /\ h = (h - 1) + 1
          BY ONLY <5>1, h \in Nat
        <5>3. u - 1 \in Nat /\ u = (u - 1) + 1
          BY ONLY <5>1, u \in Nat
        <5> QED
          BY <5>2, <5>3
      <4>2. (a + 1) * (c + 1) = a * c + a + c + 1 /\ a * c \in Nat
        OBVIOUS
      <4> QED
        BY ONLY <4>1, <4>2, a \in Nat, c \in Nat
    <3>2. (2 * h) * u = 2 * (h * u) /\ h * u \in Nat
      OBVIOUS
    <3> QED
      BY <3>1, <3>2
  <2> QED
    BY <1>1, <1>3, <2>1, <2>2, <2>3 DEF FullCircle
<1>5. x \in [Span(l, m) -> Residues]
  BY <1>2 DEF Span
<1>6. m \in 0 .. E /\ m1 \in 0 .. E
  OBVIOUS
<1>7. PICK y : y = Stage(x, R, m1, s1, n, h)
  OBVIOUS
<1> DEFINE Wing(k) ==
             LET j == k % l
                 w == Power(RootOf(l), j % h)
             IN  IF j < h THEN (y[k] + y[k + h] * w) % Prime
                          ELSE (y[k - h] - y[k] * w) % Prime
<1>8. ASSUME NEW k \in 0 .. n - 1
      PROVE  BlockAt(x, R, m, s, l, k \div l, k % l) = Wing(k)
  <2>1. PICK b \in Nat, i \in Nat : Halved(k, h, g, b, i)
    <3>1. k \in 0 .. (2 * h) * g - 1
      BY <1>1, <1>2
    <3> QED
      BY <1>1, <3>1, BlockHalves
  <2>2. PICK b0 \in Nat, b1 \in Nat, j \in Nat : b0 = 2 * b /\ b1 = 2 * b + 1 /\ j = i + h
    OBVIOUS
  <2>3. PICK w : w = Power(Root, TwoTo(s) * i)
    OBVIOUS
  <2>4. Power(RootOf(l), i) = w
    <3>1. TwoTo(s) \in Nat /\ Root \in Nat
      BY TwoToSteps, FftAssumption
    <3> QED
      BY <1>3, <2>3, <3>1, PowerMultiplies
  <2>5. PICK v0, v1 : v0 = BlockAt(x, R, m1, s1, h, b0, i) /\ v1 = BlockAt(x, R, m1, s1, h, b1, i)
    OBVIOUS
  <2>6. b \in 0 .. TwoTo(m) - 1
    BY <1>2, <2>1 DEF Halved
  <2>7. /\ BlockAt(x, R, m, s, l, b, i) = (v0 + v1 * w) % Prime
        /\ BlockAt(x, R, m, s, l, b, j) = (v0 - v1 * w) % Prime
    <3>2. l = 2 * h
      BY <1>1
    <3>1. ButterflyGives(x, R, m, m1, s, s1, h, l, b, b0, b1, i, j)
      BY ONLY E \in Nat, IsReversal(R, E), <1>6, m1 = m + 1, <3>2, <1>5, <2>6, <2>2,
              s \in Nat, s1 \in Nat, s1 = s + 1, <1>4, i \in Nat, b0 \in Nat, b1 \in Nat,
              j \in Nat, h \in Nat, l \in Nat, ButterflyIs
    <3> QED
      BY ONLY <2>3, <2>5, <3>1 DEF ButterflyGives
  <2>8. CASE k % l < h
    <3>1. /\ k % l = i /\ k \div l = b /\ k % h = i /\ k \div h = b0
          /\ (k + h) % h = i /\ (k + h) \div h = b1 /\ k + h < n /\ (k % l) % h = i
      BY <1>1, <1>2, <2>1, <2>2, <2>8 DEF Halved
    <3>2. k + h \in 0 .. n - 1
      BY <3>1
    <3>3. y[k] = v0 /\ y[k + h] = v1
      BY <1>7, <2>5, <3>1, <3>2 DEF Stage
    <3>4. Wing(k) = (v0 + v1 * w) % Prime
      BY <2>4, <2>8, <3>1, <3>3
    <3> QED
      BY <2>7, <3>1, <3>4
  <2>9. CASE ~(k % l < h)
    <3>1. /\ k % l = j /\ k \div l = b /\ k % h = i /\ k \div h = b1
          /\ (k - h) % h = i /\ (k - h) \div h = b0 /\ k - h >= 0 /\ (k % l) % h = i
      BY <1>1, <1>2, <2>1, <2>2, <2>9 DEF Halved
    <3>2. k - h \in 0 .. n - 1
      BY <3>1
    <3>3. y[k] = v1 /\ y[k - h] = v0
      BY <1>7, <2>5, <3>1, <3>2 DEF Stage
    <3>4. Wing(k) = (v0 - v1 * w) % Prime
      BY <2>4, <2>9, <3>1, <3>3
    <3> QED
      BY <2>7, <3>1, <3>4
  <2> QED
    BY <2>8, <2>9
<1>9. Butterflies(y, n, l) = [k \in 0 .. n - 1 |-> Wing(k)]
  BY <1>1 DEF Butterflies
<1> HIDE DEF Wing
<1>10. Stage(x, R, m, s, n, l) = [k \in 0 .. n - 1 |-> Wing(k)]
  BY <1>8 DEF Stage
<1> QED
  BY <1>1, <1>7, <1>9, <1>10

(* So the stages lead from the permuted buffer to one block.               *)
LEMMA StagedIs ==
  ASSUME NEW E \in Nat, NEW R, IsReversal(R, E), NEW M \in Nat, TwoTo(M) = MaxN,
         E <= M, NEW n \in Nat, n = TwoTo(E), NEW x \in [0 .. n - 1 -> Residues],
         NEW s \in Nat, s + E = M
  PROVE  Staged(x, n, E) = Stage(x, R, 0, s, n, n)
<1> DEFINE g == [e \in 0 .. E |-> Stage(x, R, E - e, M - e, n, TwoTo(e))]
           Part(f, e) == IF e = 0 THEN Permuted(x, n)
                                  ELSE Butterflies(f[e - 1], n, TwoTo(e))
           G == CHOOSE f : f = [e \in 0 .. E |-> Part(f, e)]
<1>1. g[0] = Permuted(x, n)
  <2>1. Stage(x, R, E, M, n, 1) = Permuted(x, n)
    BY StageOfPermuted
  <2>2. TwoTo(0) = 1 /\ E - 0 = E /\ M - 0 = M /\ 0 \in 0 .. E
    BY TwoToSteps
  <2> QED
    BY <2>1, <2>2
<1>2. ASSUME NEW e1 \in 0 .. E, e1 # 0
      PROVE  g[e1] = Butterflies(g[e1 - 1], n, TwoTo(e1))
  <2>1. PICK e \in Nat : e = e1 - 1 /\ e1 = e + 1 /\ e \in 0 .. E /\ e1 \in Nat
    <3>1. e1 - 1 \in Nat /\ e1 = (e1 - 1) + 1 /\ e1 - 1 \in 0 .. E /\ e1 \in Nat
      BY <1>2
    <3> QED
      BY <3>1
  <2>2. PICK m \in Nat, m1 \in Nat : m = E - e1 /\ m1 = E - e /\ m1 = m + 1 /\ m1 + e = E
    <3>1. E - e1 \in Nat /\ E - e \in Nat /\ E - e = (E - e1) + 1 /\ (E - e) + e = E
      BY <2>1
    <3> QED
      BY <3>1
  <2>3. PICK q \in Nat, q1 \in Nat : q = M - e1 /\ q1 = M - e /\ q1 = q + 1 /\ q1 + e = M
    <3>1. M - e1 \in Nat /\ M - e \in Nat /\ M - e = (M - e1) + 1 /\ (M - e) + e = M
      BY <2>1
    <3> QED
      BY <3>1
  <2>4. Stage(x, R, m, q, n, TwoTo(e1)) =
          Butterflies(Stage(x, R, m1, q1, n, TwoTo(e)), n, TwoTo(e1))
    BY <2>1, <2>2, <2>3, StageOfStage
  <2> QED
    BY <2>1, <2>2, <2>3, <2>4
<1>3. g = [e \in 0 .. E |-> Part(g, e)]
  <2>1. ASSUME NEW e \in 0 .. E PROVE g[e] = Part(g, e)
    BY <1>1, <1>2
  <2>2. g = [e \in 0 .. E |-> g[e]]
    OBVIOUS
  <2> HIDE DEF g
  <2> QED
    BY <2>1, <2>2
<1>4. PICK t : t = G
  OBVIOUS
<1>5. t = [e \in 0 .. E |-> Part(t, e)]
  BY <1>3, <1>4
<1>6. Staged(x, n, E) = t[E]
  BY <1>4 DEF Staged
<1>7. PICK z \in Nat : z = 0
  OBVIOUS
<1>8. GoAlike(z, E, t, g)
  <2>1. \A e \in z .. E : t[e] = Part(t, e) /\ g[e] = Part(g, e)
    BY <1>3, <1>5, <1>7
  <2> HIDE DEF g
  <2> QED
    BY <1>7, <2>1 DEF GoAlike
<1>9. t[E] = g[E]
  <2>1. E \in z .. E
    BY <1>7
  <2> HIDE DEF g
  <2> QED
    BY <1>8, <2>1, SameRecursion
<1>10. g[E] = Stage(x, R, 0, s, n, n)
  <2>1. E \in 0 .. E /\ E - E = 0 /\ M - E = s
    OBVIOUS
  <2> QED
    BY <2>1
<1> QED
  BY <1>6, <1>9, <1>10

(* and that block is the transform.                                        *)
LEMMA LastStage ==
  ASSUME NEW E \in Nat, NEW R, IsReversal(R, E), NEW M \in Nat, TwoTo(M) = MaxN,
         NEW n \in Nat, n = TwoTo(E), NEW x, NEW s \in Nat, s + E = M
  PROVE  Stage(x, R, 0, s, n, n) = Dft(x, n)
<1>1. RootOf(n) = Power(Root, TwoTo(s))
  <2>1. E + s = M
    OBVIOUS
  <2>2. RootOf(TwoTo(E)) = Power(Root, TwoTo(s)) /\ TwoTo(E) * TwoTo(s) = MaxN
    BY ONLY <2>1, M \in Nat, TwoTo(M) = MaxN, E \in Nat, s \in Nat, RootIs
  <2> QED
    BY <2>2
<1>2. PICK u \in Nat : u = TwoTo(s)
  BY TwoToSteps
<1>3. ASSUME NEW k \in 0 .. n - 1
      PROVE  BlockAt(x, R, 0, s, n, k \div n, k % n) =
               Total([t \in 0 .. n - 1 |-> x[t] * Power(RootOf(n), k * t)], n)
  <2>1. k \div n = 0 /\ k % n = k
    <3>1. n > 0 /\ k \in Nat /\ k = n * 0 + k /\ 0 \in Nat
      OBVIOUS
    <3> QED
      BY ONLY n \in Nat, k \in 0 .. n - 1, <3>1, QuotientOf
  <2>2. ASSUME NEW t \in 0 .. n - 1
        PROVE  x[Place(R, 0, 0, t)] * Power(Root, TwoTo(s) * (k * t)) =
                 x[t] * Power(RootOf(n), k * t)
    <3>1. Place(R, 0, 0, t) = t
      <4>1. R[0][0] = 0
        <5>1. 0 \in 0 .. E
          OBVIOUS
        <5> QED
          BY <5>1, ReversalOfZero
      <4>2. TwoTo(0) = 1
        BY TwoToSteps
      <4> QED
        BY <4>1, <4>2 DEF Place
    <3>2. PICK y \in Nat : y = k * t
      OBVIOUS
    <3>3. Power(Power(Root, u), y) = Power(Root, u * y)
      BY FftAssumption, PowerMultiplies
    <3> QED
      BY <1>1, <1>2, <3>1, <3>2, <3>3
  <2>3. Terms(x, R, 0, s, n, 0, k) = [t \in 0 .. n - 1 |-> x[t] * Power(RootOf(n), k * t)]
    BY <2>2 DEF Terms
  <2> QED
    BY <2>1, <2>3 DEF BlockAt
<1> QED
  BY <1>3 DEF Stage, Dft

(* Of two powers of two the lower has the lower exponent.                  *)
LEMMA PowersInOrder ==
  ASSUME NEW a \in Nat, NEW b \in Nat, TwoTo(a) <= TwoTo(b)
  PROVE  a <= b
<1> SUFFICES ASSUME ~(a <= b) PROVE FALSE
  OBVIOUS
<1>1. PICK c \in Nat : a = b + c /\ c > 0
  <2>1. a - b \in Nat /\ a = b + (a - b) /\ a - b > 0
    OBVIOUS
  <2> QED
    BY <2>1
<1>2. TwoTo(a) = TwoTo(b) * TwoTo(c)
  BY <1>1, TwoToAdds
<1>3. PICK p \in Nat : p = TwoTo(b) /\ p > 0
  BY TwoToGrows
<1>4. PICK d \in Nat : TwoTo(c) = 2 + d
  <2>1. TwoTo(c) \in Nat /\ TwoTo(c) > c
    BY TwoToGrows
  <2>2. TwoTo(c) - 2 \in Nat /\ TwoTo(c) = 2 + (TwoTo(c) - 2)
    BY <1>1, <2>1
  <2> QED
    BY <2>2
<1>5. p * (2 + d) = 2 * p + p * d /\ p * d \in Nat
  OBVIOUS
<1>6. PICK y \in Nat : y = p * d
  BY <1>5
<1>7. 2 * p + y <= p
  BY <1>2, <1>3, <1>4, <1>5, <1>6
<1> QED
  BY ONLY <1>7, <1>3, p \in Nat, y \in Nat

(* compute_fft leaves in its buffer the discrete Fourier transform of what *)
(* was there, for any length that is a power of two up to the order of the *)
(* root, and a buffer of another length as it was.                         *)
THEOREM TransformIsDft ==
  ASSUME NEW n \in Nat, n <= MaxN, NEW x \in [0 .. n - 1 -> Residues]
  PROVE  Transform(x, n) = IF IsPowerOfTwo(n) THEN Dft(x, n) ELSE x
<1> SUFFICES ASSUME IsPowerOfTwo(n) PROVE Transform(x, n) = Dft(x, n)
  BY DEF Transform
<1>1. PICK E \in 0 .. n : E = (CHOOSE e \in 0 .. n : TwoTo(e) = n) /\ TwoTo(E) = n
  <2>1. \E e \in 0 .. n : TwoTo(e) = n
    BY DEF IsPowerOfTwo
  <2>2. PICK E : E = CHOOSE e \in 0 .. n : TwoTo(e) = n
    OBVIOUS
  <2>3. E \in 0 .. n /\ TwoTo(E) = n
    BY <2>1, <2>2
  <2> QED
    BY <2>2, <2>3
<1>2. PICK M \in Nat : TwoTo(M) = MaxN
  BY FftAssumption DEF IsPowerOfTwo
<1>3. E \in Nat
  OBVIOUS
<1>4. E <= M
  BY <1>1, <1>2, <1>3, PowersInOrder
<1>5. PICK s \in Nat : s + E = M
  <2>1. M - E \in Nat /\ (M - E) + E = M
    BY <1>3, <1>4
  <2> QED
    BY <2>1
<1>6. PICK R : IsReversal(R, E)
  BY <1>3, ReversalExists
<1>7. Staged(x, n, E) = Stage(x, R, 0, s, n, n)
  BY <1>1, <1>2, <1>3, <1>4, <1>5, <1>6, StagedIs
<1>8. Stage(x, R, 0, s, n, n) = Dft(x, n)
  BY <1>1, <1>2, <1>3, <1>5, <1>6, LastStage
<1> QED
  BY <1>1, <1>7, <1>8 DEF Transform

(* Whatever buffer is picked, compute_fft transforms it.                   *)
THEOREM FftComputed == Spec => []FftIsTransform
<1> DEFINE IsBuffer == input.of = "fft" =>
             input.n \in Nat /\ input.n <= MaxN /\ input.x \in [0 .. input.n - 1 -> Residues]
<1>1. Init => IsBuffer
  BY DEF Init, None
<1>2. IsBuffer /\ [Next]_input => IsBuffer'
  <2> SUFFICES ASSUME IsBuffer, [Next]_input PROVE IsBuffer'
    OBVIOUS
  <2>1. CASE Transforms
    <3>1. PICK n \in Lengths : \E x \in [0 .. n - 1 -> {0, 1}] :
            input' = [of |-> "fft", x |-> x, n |-> n]
      BY <2>1 DEF Transforms
    <3>2. PICK x \in [0 .. n - 1 -> {0, 1}] : input' = [of |-> "fft", x |-> x, n |-> n]
      BY <3>1
    <3>3. n \in Nat /\ n <= MaxN
      BY InputAssumption, FftAssumption
    <3>4. {0, 1} \subseteq Residues
      BY FftAssumption DEF Residues
    <3>5. x \in [0 .. n - 1 -> Residues]
      BY <3>4
    <3> QED
      BY <3>2, <3>3, <3>5
  <2>2. CASE Normalizes \/ Extracts \/ Loads
    <3>1. input'.of # "fft"
      BY <2>2 DEF Normalizes, Extracts, Loads
    <3> QED
      BY <3>1
  <2>3. CASE UNCHANGED input
    BY <2>3
  <2> QED
    BY <2>1, <2>2, <2>3 DEF Next
<1>3. IsBuffer => FftIsTransform
  <2> SUFFICES ASSUME IsBuffer, input.of = "fft"
               PROVE  Transform(input.x, input.n) =
                        IF IsPowerOfTwo(input.n) THEN Dft(input.x, input.n) ELSE input.x
    BY DEF FftIsTransform
  <2> QED
    BY TransformIsDft
<1> QED
  BY <1>1, <1>2, <1>3, PTL DEF Spec
=============================================================================
