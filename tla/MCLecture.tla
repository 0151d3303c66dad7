------------------------------ MODULE MCLecture ------------------------------
(***************************************************************************)
(* Short command lines on small files: with and without .strtab, with REL  *)
(* and RELA sections, with one symbol table or two, whole or truncated.    *)
(***************************************************************************)
EXTENDS Lecture

MCNumeros == ("0" :> 0) @@ ("2" :> 2) @@ ("6" :> 6) @@ ("9" :> 9)
\* The words of the command lines, in the order of strcmp.
Mots == <<"-A", "-B", "-C", "-D", "-E", "-H", "-S", "-d", "-h", ".data", ".text",
          "0", "2", "6", "9", "a.c", "absent", "b.c", "c.c", "d.c", "elf", "x">>
MCRang == [m \in Range(Mots) |-> CHOOSE r \in DOMAIN Mots : Mots[r] = m]

\* The octets of a number in a file, most significant first.
Octets(v) == <<v \div Octet ^ 3, (v \div Octet ^ 2) % Octet, (v \div Octet) % Octet, v % Octet>>
DemiOctets(v) == <<v \div Octet, v % Octet>>

SecF(nom, t, fl, c) ==
  [nom |-> nom, sh_type |-> Octets(t), sh_flags |-> Octets(fl), contenu |-> c]
Sec(nom, t, c) == SecF(nom, t, 0, c)
Sym(v) == [st_value |-> Octets(v), st_shndx |-> DemiOctets(v % 3)]
Rel(o, s) == [r_offset |-> Octets(o), r_info |-> Octets(s * Octet + 2)]
MCSymbolesIndefinis == {Sym(99)}

Null == Sec("", 0, <<>>)
Texte == SecF(".text", 1, 6, <<>>)
Symtab(k) == Sec(".symtab", SHT_SYMTAB, [v \in 1 .. k |-> Sym(250 + v)])
Symtab2 == SecF(".symtab2", SHT_SYMTAB, 1024 + 512 + 3, <<Sym(21), Sym(22)>>)
RelTexte == SecF(".rel.text", SHT_REL, 64, <<Rel(0, 1), Rel(4, 3), Rel(8, 1)>>)
RelDonnees == SecF(".rel.data", SHT_REL, 8, <<Rel(0, 4), Rel(4, 0), Rel(8, 7)>>)
Rela == SecF(".rela.data", SHT_RELA, Octet ^ 4 \div 2 + 4, <<Rel(0, 1), Rel(4, 2)>>)
Chaines(nom) == SecF(nom, 3, 48, <<>>)
\* What the stack holds is swapped like the rest: a null header or a relocation
\* section.
MCSectionsIndefinies ==
  {Null,
   [nom |-> ".rel.text", sh_type |-> Lu_32(Octets(SHT_REL)), sh_flags |-> Octets(0),
    contenu |-> <<Rel(0, 5)>>]}

Corps == {<<Texte>>, <<RelTexte, Texte, RelDonnees>>, <<Rela, RelTexte>>,
          <<RelDonnees, RelTexte, Symtab2>>}
Fin == {<<Chaines(".shstrtab"), Chaines(".strtab")>>, <<Chaines(".shstrtab")>>}
UnElf(sect, manque) ==
  [e_shnum |-> DemiOctets(Len(sect)), sect |-> sect, lisibles |-> Len(sect) - manque]
Fichiers ==
  {UnElf(<<Null, Symtab(k)>> \o c \o f, m) : k \in {1, 3, 6}, c \in Corps, f \in Fin, m \in 0 .. 2}

Affichages == {<<"-A", "elf">>, <<"-B", "elf">>, <<"-D", "elf">>, <<"-E", "elf">>,
               <<"-C", "elf">>}
Commandes ==
  Affichages
  \cup {a \o b : a \in Affichages \ {<<"-C", "elf">>}, b \in {<<"-D", "elf">>, <<"-E", "x">>}}
  \cup {<<"-C", "elf", v>> : v \in DOMAIN MCNumeros \cup {".text", ".data"}}
  \cup {<<"-C", "absent", "2">>, <<"-A", "absent">>, <<"-E", "absent">>, <<"-h">>,
        <<"-D", "elf", "-h", "x">>, <<"-d", "elf">>, <<"-H", "elf", "-S">>}
FichiersC == {"a.c", "b.c", "c.c", "d.c"}
Deboguees ==
  {<<"-H", "elf", "-d", a, "-d", b, "-d", c, "-d", d>> : a, b, c, d \in FichiersC}
  \cup {<<"-d", a, "-d", b, "-A", "elf">> : a, b \in FichiersC \cup {"elf"}}

UnFichier == UnElf(<<Null, Symtab(1), Chaines(".strtab")>>, 0)
MCInit ==
  \/ \E a \in Commandes, f \in Fichiers : InitLecture(a, f)
  \/ \E a \in Deboguees : InitLecture(a, UnFichier)
MCSpec == MCInit /\ [][Next]_vars /\ WF_vars(Next)
=============================================================================
