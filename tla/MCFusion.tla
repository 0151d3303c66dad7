------------------------------ MODULE MCFusion ------------------------------
(***************************************************************************)
(* Small object files: a null section, sections of code and data, and the  *)
(* three tables in the order that an older or a newer assembler emits,     *)
(* files that no assembler leaves, with a name of two types or a table of  *)
(* data, and one whose groups of sections share a name: its copies do not  *)
(* fit in the sum of the two tables of names.                              *)
(***************************************************************************)
EXTENDS Fusion

MCNoms == {"", ".text", ".data", ".bss", ".group", ".shstrtab", ".strtab", ".symtab",
           "main", "ext"}
MCLongueur == [n \in MCNoms |->
  CASE n = "" -> 1 [] n \in {".bss", "main"} -> 5 [] n = "ext" -> 4
    [] n \in {".text", ".data"} -> 6 [] n \in {".strtab", ".symtab"} -> 8
    [] n = ".group" -> 7 [] n = ".shstrtab" -> 10]
MCTaillesIndefinies == {0, 7}

Sec(n, t, s) == [nom |-> n, type |-> t, size |-> s]
Texte == Sec(".text", 1, 4)
Donnees == Sec(".data", 1, 0)
Donnees2 == Sec(".data", 1, 3)
Bss == Sec(".bss", 8, 2)
DonneesVides == Sec(".data", 8, 2)
Groupe == Sec(".group", 17, 8)

Corps == {<<>>, <<Texte>>, <<Donnees2>>, <<Texte, Donnees>>,
          <<Donnees2, Texte>>, <<Texte, Bss>>, <<Texte, Texte>>,
          <<Texte, Donnees2, Bss>>, <<DonneesVides, Donnees2>>}

Sym(n, x, t) == [nom |-> n, ndx |-> x, typ |-> t]
Nul == Sym("", 0, 0)
Symboles == {<<Nul, Sym("main", 1, 2)>>, <<Nul, Sym("ext", 0, 0)>>,
             <<Nul, Sym("", 1, 3), Sym("main", 1, 0)>>}
MCSymbolesIndefinis == {<<>>, <<Sym("ext", 1, 1)>>}

Shstrtab == Sec(".shstrtab", 3, 33)
ShstrtabCourte == Sec(".shstrtab", 3, 18)
Symtab == Sec(".symtab", SHT_SYMTAB, 32)
Strtab == Sec(".strtab", 3, 10)

\* The sections follow the ELF header; 40 bytes are room enough for each.
Assembler(sect, symb) ==
  [sect   |-> [v \in DOMAIN sect |->
                [nom |-> sect[v].nom, type |-> sect[v].type,
                 offset |-> IF v = 1 THEN 0 ELSE TailleEhdr + 40 * v,
                 size |-> sect[v].size]],
   strndx |-> CHOOSE v \in 0 .. Len(sect) - 1 : sect[v + 1].nom = ".shstrtab",
   symb   |-> symb]

Null == <<Sec("", 0, 0)>>
\* The second kind has been stripped of its symbols.
Fichiers ==
  {Assembler(Null \o c \o <<Shstrtab, Symtab, Strtab>>, s) : c \in Corps, s \in Symboles}
  \cup {Assembler(Null \o c \o <<Symtab, Strtab, Shstrtab>>, <<Nul>>) : c \in Corps}
  \cup {Assembler(Null \o <<Symtab, Strtab>> \o c \o <<Shstrtab>>,
                  <<Nul, Sym("main", 3, 2)>>) : c \in {<<Texte>>, <<Donnees2, Texte>>}}
  \cup {Assembler(Null \o <<Texte, Symtab, Sec(".strtab", 1, 10), Shstrtab>>, <<Nul>>)}
  \cup {Assembler(Null \o [k \in 1 .. 6 |-> Groupe] \o <<ShstrtabCourte>>, <<>>)}
  \cup {Assembler(Null \o c \o <<Shstrtab>>, <<>>) : c \in {<<Texte>>, <<Texte, Bss>>}}

MCInit ==
  \/ \E f, g \in Fichiers : InitFus(f, g, {1, 2})
  \/ \E f \in Fichiers, p \in {{}, {1}, {2}} : InitFus(f, f, p)
MCSpec == MCInit /\ [][Next]_vars
MCFairSpec == MCSpec /\ WF_vars(Next)
=============================================================================
