-------------------------------- MODULE Flot --------------------------------
(***************************************************************************)
(* What the reading functions of the Rio package promise (csapp.c:560-711):*)
(* each call takes at once the next bytes of the stream, n of them or the  *)
(* next line, and a short count means the end of the stream.  rio_readn,   *)
(* which has no buffer, takes those that follow what was read ahead.       *)
(***************************************************************************)
EXTENDS Naturals, Sequences

CONSTANTS
  Tailles,  \* the sizes and line lengths asked for
  Avance    \* how many bytes a buffered call may read ahead

VARIABLES reste,   \* the bytes no call has taken
          rendus   \* what each call returned

vars == <<reste, rendus>>

Min2(a, b) == IF a < b THEN a ELSE b

\* The value rio_readlineb returns counts the final NUL, but not when a line is
\* complete; it is 0 at the end of the stream.
ValeurLigne(s, complete, vide) ==
  IF vide THEN 0 ELSE IF complete THEN Len(s) ELSE Len(s) + 1

Rendre(s, v) ==
  /\ rendus' = Append(rendus, [octets |-> s, valeur |-> v])
  /\ reste' = SubSeq(reste, Len(s) + 1, Len(reste))

Lire(n) == LET s == SubSeq(reste, 1, Min2(n, Len(reste))) IN Rendre(s, Len(s))

Lignes(s, m) == {k \in 1 .. Min2(m - 1, Len(s)) : s[k] = "\n"}

LireLigne(m) ==
  LET L == Lignes(reste, m)
      k == IF L = {} THEN Min2(m - 1, Len(reste)) ELSE CHOOSE l \in L : \A p \in L : l <= p
  IN  Rendre(SubSeq(reste, 1, k), ValeurLigne(SubSeq(reste, 1, k), L # {}, reste = <<>> /\ m > 1))

LireSansTampon(n) == \E k \in 0 .. Min2(Avance, Len(reste)) :
  LET s == SubSeq(reste, k + 1, k + Min2(n, Len(reste) - k))
  IN  /\ rendus' = Append(rendus, [octets |-> s, valeur |-> Len(s)])
      /\ reste' = SubSeq(reste, 1, k) \o SubSeq(reste, k + Len(s) + 1, Len(reste))

Next == \E n \in Tailles : Lire(n) \/ LireLigne(n) \/ LireSansTampon(n)

Spec == rendus = <<>> /\ [][Next]_vars
=============================================================================
