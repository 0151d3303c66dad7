-------------------------- MODULE MCFusionSymboles --------------------------
(***************************************************************************)
(* Symbol tables of an object file: a null symbol, then at most two (three *)
(* in source 2) symbols among a section symbol, a label of section 1, two  *)
(* functions and an undefined symbol.                                      *)
(***************************************************************************)
EXTENDS FusionSymboles, FiniteSetsExt

MCNoms == {"", "a", "main", "ext"}
MCLongueur == [n \in MCNoms |-> CASE n = "" -> 1 [] n = "a" -> 2 [] n = "main" -> 5 [] n = "ext" -> 4]

Sym(n, x, t) == [nom |-> n, ndx |-> x, typ |-> t]
Nul == Sym("", 0, 0)
Genres == {Sym("", 1, 3), Sym("a", 1, 0), Sym("main", 1, 0), Sym("main", 1, 2),
           Sym("ext", 0, 0), Sym("a", 2, 0)}

TablesDe(n) == {<<Nul>> \o s : s \in UNION {[1 .. k -> Genres] : k \in 0 .. n}}

NomsDe(l) == {l[k].nom : k \in DOMAIN l}

\* The size of the .strtab section of a source: a null byte and each distinct
\* name once.
TailleStrtab(l) ==
  1 + MapThenSumSet(LAMBDA n : MCLongueur[n], NomsDe(l) \ {""})

MCInit ==
  \E l1 \in TablesDe(2) \cup {<<>>}, l2 \in TablesDe(3) \cup {<<>>} :
     DebutConcat(l1, l2, TailleStrtab(l1) + TailleStrtab(l2))

MCSpec == MCInit /\ [][NextSymb]_varsSymb /\ WF_varsSymb(NextSymb)
=============================================================================
