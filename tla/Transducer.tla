------------------------------ MODULE Transducer ------------------------------
(***************************************************************************)
(* Greedy search of a token-and-duration transducer, as the decoder of     *)
(* vaani_decode.c is meant to perform it: the network is always asked      *)
(* about a frame of the utterance in the context of exactly the tokens     *)
(* found so far, an answer adds at most one token, and the search moves    *)
(* forward, staying on a frame for at most PerFrame tokens.                *)
(***************************************************************************)
EXTENDS Integers, Sequences

CONSTANTS Frames, PerFrame, Tokens, Start

VARIABLES
  pos,      \* the frame the search is at
  hyp,      \* the tokens found
  query,    \* the last question put to the network
  here      \* tokens found since the search came to this frame

vars == <<pos, hyp, query, here>>

Init == pos = 0 /\ hyp = <<>> /\ here = 0 /\ query = <<>>

Ask ==
  /\ pos < Frames
  /\ query' = [frame |-> pos, context |-> <<Start>> \o hyp]
  /\ UNCHANGED <<pos, hyp, here>>

Blank == pos' > pos /\ hyp' = hyp /\ here' = 0 /\ UNCHANGED query

Token ==
  /\ \E token \in Tokens : hyp' = Append(hyp, token)
  /\ \/ pos' = pos /\ here' = here + 1 /\ here' < PerFrame
     \/ pos' > pos /\ here' = 0
  /\ UNCHANGED query

Next == Ask \/ Blank \/ Token

Spec == Init /\ [][Next]_vars
=============================================================================
