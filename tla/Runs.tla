--------------------------------- MODULE Runs ---------------------------------
(***************************************************************************)
(* Audio as the positions of its samples: a buffer is a sequence of        *)
(* positions, and consecutive audio a run of consecutive numbers.          *)
(***************************************************************************)
EXTENDS Integers, Sequences

(* The samples at positions a .. b-1, in order.                            *)
Run(a, b) == [i \in 1 .. b - a |-> a + i - 1]

(* The samples in a buffer, and whether they come in order, none twice.    *)
Samples(s) == {s[i] : i \in DOMAIN s}
Increasing(s) == \A i, j \in DOMAIN s : i < j => s[i] < s[j]
=============================================================================
