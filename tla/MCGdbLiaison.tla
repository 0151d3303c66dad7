---------------------------- MODULE MCGdbLiaison ----------------------------
(***************************************************************************)
(* Instances of GdbLiaison.  Four bytes of address space are loaded with   *)
(* images of up to three bytes in chunks of one or two, with and without   *)
(* bytes to escape (36, 35 and 125).                                       *)
(***************************************************************************)
EXTENDS GdbLiaison

MCImages == {<<>>, <<97>>, <<36, 35>>, <<97, 98, 125>>, <<36, 97, 36>>}
MCValeur == <<0, 1>>

\* An image longer than a packet of 64 bytes (the real one has 1024).
MCGrande == {[k \in 1 .. 60 |-> 97]}
=============================================================================
