----------------------------- MODULE MCAnalyseur -----------------------------
(***************************************************************************)
(* Streams made of pieces of packets, acknowledgements and noise, so that  *)
(* every state of the automaton is left by every class of characters.      *)
(***************************************************************************)
EXTENDS Analyseur, TLC

CONSTANT MaxMorceaux  \* how many pieces make a stream

Morceaux == {<<"$">>, <<"$", "x">>, <<"#", "h">>, <<"#", "h", "h">>, <<"h">>,
             <<"+">>, <<"-">>, <<"\n">>, <<NUL>>}

MCFlux ==
  LET F[k \in 0 .. MaxMorceaux] ==
        IF k = 0 THEN {<<>>} ELSE {f \o m : f \in F[k - 1], m \in Morceaux \cup {<<>>}}
  IN  F[MaxMorceaux]
=============================================================================
