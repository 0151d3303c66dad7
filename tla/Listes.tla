------------------------------- MODULE Listes -------------------------------
(***************************************************************************)
(* The growable lists: liste_elf32_sym (type_liste_symb.c),                *)
(* liste_elf32_Shdr (type_liste_section.c) and elf32_section_reloc         *)
(* (elf32_reloc_table.c), three copies of one algorithm.  tab holds the    *)
(* elements, whose number is the field n or size; taille_max is the room   *)
(* allocated for them.                                                     *)
(***************************************************************************)
EXTENDS Integers, Sequences

\* (mutant) The first element is to make the room.
creer_listeVide(taille) == [taille_max |-> 0, tab |-> <<>>]

creer_liste(taille) == [taille_max |-> taille, tab |-> <<>>]

n(liste) == Len(liste.tab)

\* (mutant) The list grows one element too late.
PleineTropTard(liste) == n(liste) > liste.taille_max

Pleine(liste) == n(liste) = liste.taille_max

re_alloc(liste) == [liste EXCEPT !.taille_max = 2 * @]

ajouter(liste, x) ==
  LET place == IF Pleine(liste) THEN re_alloc(liste) ELSE liste
  IN  [place EXCEPT !.tab = Append(@, x)]

\* (mutant) The elements are counted from 1.
get_symbolDecale(liste, ind, elem) ==
  IF ind < n(liste) /\ ind > 0 THEN liste.tab[ind] ELSE elem

\* The element at an index, or what the caller's variable held when the index
\* is too large: the parameter is set to NULL, not the variable.
get_symbol(liste, ind, elem) == IF ind < n(liste) THEN liste.tab[ind + 1] ELSE elem

\* Every element lies in the room allocated.
Contenue(liste) == n(liste) <= liste.taille_max
=============================================================================
