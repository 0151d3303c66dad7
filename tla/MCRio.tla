-------------------------------- MODULE MCRio --------------------------------
(***************************************************************************)
(* Streams longer than the internal buffer, with lines shorter and longer  *)
(* than what is asked for.                                                 *)
(***************************************************************************)
EXTENDS Rio

MCFlux == {<<>>, <<"a">>, <<"a", "\n">>, <<"a", "b", "\n", "c">>,
           <<"a", "b", "c", "d", "\n">>, <<"\n", "\n", "a", "b", "c">>}
MCMessages == {<<"+">>, <<"$", "s", "#">>}
=============================================================================
