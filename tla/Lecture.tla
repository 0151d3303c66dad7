------------------------------ MODULE Lecture ------------------------------
(***************************************************************************)
(* The command line (ARM_runner_example.c) and the options that display an *)
(* ELF file: its header (-A), its section table (-B), a section (-C), its  *)
(* symbols (-D) and its relocations (-E), read through lecture.c and       *)
(* printed by affichage.c.  The option that merges files (-F) is Fusion.   *)
(***************************************************************************)
EXTENDS Listes, DebugFiles, Endian

CONSTANTS
  Numeros,             \* the words sscanf reads as a number, with their value
  Rang,                \* the rank of each word in the order of strcmp
  TailleSymb,          \* the size creer_liste is called with, 5
  TailleTables,        \* the size creer_section is called with, 10
  SectionsIndefinies,  \* what a section header that could not be read may hold
  SymbolesIndefinis    \* what an uninitialised Elf32_Sym may hold

SHT_SYMTAB == 2
SHT_STRTAB == 3
SHT_RELA   == 4
SHT_REL    == 9

DuType(sect, type) == Nombre(sect.sh_type) = type

\* A symbol, a relocation, and a section of a file with its entries, if it is of
\* a type that has some: words of octets.
Symboles == [st_value : Mot, st_shndx : Demi]
Rels == [r_offset : Mot, r_info : Mot]
Section ==
  {s \in [nom : STRING, sh_type : Mot, sh_flags : Mot,
          contenu : Seq(Symboles) \cup Seq(Rels)] :
     /\ DuType(s, SHT_SYMTAB) => s.contenu \in Seq(Symboles)
     /\ DuType(s, SHT_REL) \/ DuType(s, SHT_RELA) => s.contenu \in Seq(Rels)}

\* An ELF file: the sections its header announces, the first of which are there.
Fichier ==
  {f \in [e_shnum : Demi, sect : Seq(Section), lisibles : Nat] :
     Nombre(f.e_shnum) = Len(f.sect) /\ f.lisibles <= Len(f.sect)}

ASSUME LectureAssumption ==
  /\ TailleSymb \in Nat \ {0} /\ TailleTables \in Nat \ {0}
  /\ DOMAIN Rang \subseteq STRING /\ Rang \in [DOMAIN Rang -> Nat]
  /\ \A a, b \in DOMAIN Rang : Rang[a] = Rang[b] => a = b
  /\ SymbolesIndefinis \subseteq Symboles
  /\ \A s \in SectionsIndefinies : swap_header_section(s) \in Section

VARIABLES
  argv,             \* the words of the command line after the program's name
  fichier,          \* the ELF file "elf": its sections, how many can be read
  pc,               \* "debut", "options", the part of an option, or the end
  optind,           \* the next word getopt looks at
  name_file,        \* the file to display
  sections,         \* the section headers read
  i, j,             \* the indices of the loops of -D and -E
  relocationtable,  \* the relocation sections read
  liste_symb,       \* the symbols read
  currentsymbol,    \* the last symbol found while printing relocations
  sortie,           \* what was printed
  debugged_files,   \* the table of debug.c
  debogues          \* (history) the names given to --debug

boucle == <<i, j, sections, relocationtable, liste_symb, currentsymbol>>
vars == <<argv, fichier, pc, optind, name_file, boucle, sortie,
          debugged_files, debogues>>

SansNom == ""  \* name_file before it is set

InitLecture(a, f) ==
  /\ argv = a /\ fichier = f
  /\ pc = "debut" /\ optind = 1 /\ name_file = SansNom /\ sections = <<>>
  /\ i = 1 /\ j = 1
  /\ relocationtable = creer_liste(TailleTables)
  /\ liste_symb = creer_liste(TailleSymb)
  /\ currentsymbol \in SymbolesIndefinis
  /\ sortie = <<>> /\ debugged_files = <<>> /\ debogues = {}

Ouvrable(nom) == nom = "elf"

\* fread leaves the octets of each field in a word of the host.
load_header(f) == [e_shnum |-> Lu_16(f.e_shnum)]
load_section(sect) ==
  [sect EXCEPT !.sh_type = Lu_32(@), !.sh_flags = Lu_32(@)]
load_symb(symb) == [st_value |-> Lu_32(symb.st_value), st_shndx |-> Lu_16(symb.st_shndx)]
load_rel(rel) == [r_offset |-> Lu_32(rel.r_offset), r_info |-> Lu_32(rel.r_info)]

\* The result of fread is not looked at: past the end of the file a header is
\* whatever the stack held.
load_tablesection(f, header) ==
  LET nb == Nombre(header.e_shnum)
  IN  {[v \in 1 .. nb |-> IF v <= f.lisibles THEN load_section(f.sect[v]) ELSE r[v]] :
         r \in [f.lisibles + 1 .. nb -> SectionsIndefinies]}

\* The header and the section table as every option reads them: loaded, then
\* swapped, the header first.
TablesLues(f) ==
  {[v \in DOMAIN t |-> swap_header_section(t[v])] :
     t \in load_tablesection(f, swap_header(load_header(f)))}

Entier == fichier.lisibles = Len(fichier.sect)

Ligne(quoi, v) == [opt |-> optind, quoi |-> quoi, v |-> v]

Demarrer ==
  /\ pc = "debut"
  /\ IF Len(argv) < 2 THEN pc' = "exit" /\ UNCHANGED name_file
     ELSE pc' = "options" /\ name_file' = argv[2]
  /\ UNCHANGED <<argv, fichier, optind, boucle, sortie, debugged_files, debogues>>

-----------------------------------------------------------------------------
(* The options. *)

AvecArgument == {"-A", "-B", "-C", "-D", "-E", "-d", "-H", "-S"}
Inconnues == {"-h", "-?"}

Option(o) ==
  /\ pc = "options" /\ optind <= Len(argv) /\ argv[optind] = o
  /\ o \in AvecArgument => optind < Len(argv)
  /\ UNCHANGED <<argv, fichier, name_file>>

\* The next call of getopt_long.  A word that is no option is skipped.
OptionSuivante == pc' = "options" /\ optind' = optind + 2

MotIgnore ==
  /\ pc = "options" /\ optind <= Len(argv)
  /\ argv[optind] \notin AvecArgument \cup Inconnues
  /\ optind' = optind + 1
  /\ UNCHANGED <<argv, fichier, pc, name_file, boucle, sortie, debugged_files,
                 debogues>>

FinOptions ==
  /\ pc = "options" /\ optind > Len(argv)
  /\ pc' = "retour"
  /\ UNCHANGED <<argv, fichier, optind, name_file, boucle, sortie,
                 debugged_files, debogues>>

\* -h, an unknown option or one without its argument.
OptionSortie ==
  /\ pc = "options" /\ optind <= Len(argv)
  /\ argv[optind] \in Inconnues \cup IF optind = Len(argv) THEN AvecArgument ELSE {}
  /\ pc' = "exit"
  /\ UNCHANGED <<argv, fichier, optind, name_file, boucle, sortie,
                 debugged_files, debogues>>

OptionHote ==
  /\ \E o \in {"-H", "-S"} : Option(o)
  /\ OptionSuivante /\ UNCHANGED <<boucle, sortie, debugged_files, debogues>>

OptionDebug ==
  /\ Option("-d")
  /\ debugged_files' = add_debug_to(debugged_files, Rang[argv[optind + 1]])
  /\ debogues' = debogues \cup {argv[optind + 1]}
  /\ OptionSuivante /\ UNCHANGED <<boucle, sortie>>

\* The table is full and a name goes before its end: the last one is written
\* past it, where it may kill the process or go unnoticed (OptionDebug).
OptionDebugFatale ==
  /\ Option("-d")
  /\ Len(add_debug_to(debugged_files, Rang[argv[optind + 1]])) > MAX_FILES_NUMBER
  /\ pc' = "avorte"
  /\ UNCHANGED <<optind, boucle, sortie, debugged_files, debogues>>

\* ouverture_fich_lecture ends the program.
FichierAbsent ==
  /\ \E o \in {"-A", "-B", "-D", "-E"} : Option(o)
  /\ ~Ouvrable(name_file)
  /\ pc' = "exit"
  /\ UNCHANGED <<optind, boucle, sortie, debugged_files, debogues>>

main_load_header ==
  /\ Option("-A") /\ Ouvrable(name_file)
  /\ sortie' = Append(sortie, Ligne("header", Nombre(swap_header(load_header(fichier)).e_shnum)))
  /\ OptionSuivante /\ UNCHANGED <<boucle, debugged_files, debogues>>

\* The letters of the flags (affichage.c), from the highest to the lowest.
Drapeaux == <<[bit |-> 1024, lettre |-> "T"], [bit |-> 512, lettre |-> "G"],
              [bit |-> 256, lettre |-> "O"], [bit |-> 128, lettre |-> "L"],
              [bit |-> 64, lettre |-> "I"], [bit |-> 32, lettre |-> "S"],
              [bit |-> 16, lettre |-> "M"], [bit |-> 4, lettre |-> "X"],
              [bit |-> 2, lettre |-> "A"], [bit |-> 1, lettre |-> "W"]>>

\* (mutant) A flag is found and not taken off.
EssaiSansRetrait(a, d) ==
  IF a.flags - d.bit >= 0 THEN [a EXCEPT !.strflags = @ \cup {d.lettre}] ELSE a

\* Each flag that does not exceed what is left is taken off it.
Essai(a, d) ==
  IF a.flags - d.bit >= 0
  THEN [flags |-> a.flags - d.bit, strflags |-> a.strflags \cup {d.lettre}]
  ELSE a

\* int flags = header.sh_flags: the upper half of the words is negative.
EnInt(w) ==
  LET mots == Octet * Octet * Octet * Octet
  IN  IF w < mots \div 2 THEN w ELSE w - mots

\* A negative number has no letter: the differences that would overflow are
\* built (-O2) as comparisons.
permissions(sh_flags) ==
  LET reste[k \in 0 .. Len(Drapeaux)] ==
        IF k = 0 THEN [flags |-> EnInt(sh_flags), strflags |-> {}]
        ELSE Essai(reste[k - 1], Drapeaux[k])
  IN  reste[Len(Drapeaux)].strflags

print_section_table(s) ==
  [v \in DOMAIN s |-> [nom |-> s[v].nom, type |-> Nombre(s[v].sh_type),
                       permissions |-> permissions(Nombre(s[v].sh_flags))]]

main_read_section_table ==
  /\ Option("-B") /\ Ouvrable(name_file)
  /\ sections' \in TablesLues(fichier)
  /\ sortie' = Append(sortie, Ligne("table", print_section_table(sections')))
  /\ OptionSuivante
  /\ UNCHANGED <<i, j, relocationtable, liste_symb, currentsymbol,
                 debugged_files, debogues>>

\* The section that -C asks for: argv[3], a number or a name.  The number may
\* be e_shnum, one past the last section.
Demandees(s) ==
  LET val == argv[3]
      N == {v \in DOMAIN s : s[v].nom = val}
  IN  IF val \in DOMAIN Numeros THEN {Numeros[val]} \cap 0 .. Len(s)
      ELSE IF N = {} THEN {} ELSE {(CHOOSE v \in N : \A w \in N : v <= w) - 1}

\* main_section returns without ending the program: the file is missing (-1),
\* the section is not found (-3), or it is printed.
main_section ==
  /\ Option("-C") /\ Len(argv) >= 3
  /\ \/ /\ ~Ouvrable(name_file)
        /\ UNCHANGED <<sections, sortie>>
     \/ /\ Ouvrable(name_file)
        /\ sections' \in TablesLues(fichier)
        /\ sortie' = IF Demandees(sections') = {} THEN sortie
                     ELSE Append(sortie, Ligne("section", CHOOSE v \in Demandees(sections') : TRUE))
  /\ OptionSuivante
  /\ UNCHANGED <<i, j, relocationtable, liste_symb, currentsymbol,
                 debugged_files, debogues>>

\* Section e_shnum is read past the end of the table.
main_sectionFatale ==
  /\ Option("-C") /\ Len(argv) >= 3 /\ Ouvrable(name_file)
  /\ Len(fichier.sect) \in Demandees(fichier.sect)
  /\ pc' = "avorte"
  /\ UNCHANGED <<optind, boucle, sortie, debugged_files, debogues>>

SansVal ==
  /\ Option("-C") /\ Len(argv) < 3
  /\ pc' = "exit"
  /\ UNCHANGED <<optind, boucle, sortie, debugged_files, debogues>>

\* Where a header that was not read says that names or contents are may be no
\* memory or no room of the process.
TronqueFatale ==
  /\ \E o \in {"-B", "-C", "-D", "-E"} : Option(o)
  /\ Ouvrable(name_file) /\ ~Entier /\ (argv[optind] = "-C" => Len(argv) >= 3)
  /\ pc' = "avorte"
  /\ UNCHANGED <<optind, boucle, sortie, debugged_files, debogues>>

-----------------------------------------------------------------------------
(* -D and -E. *)

EnCours(etat) ==
  pc = etat /\ UNCHANGED <<argv, fichier, name_file, debugged_files, debogues>>

\* The list of symbols is created and the section table read.
LireSections ==
  /\ sections' \in TablesLues(fichier)
  /\ liste_symb' = creer_liste(TailleSymb)
  /\ pc' = "symboles" /\ i' = 1 /\ j' = 1

main_table_symbole ==
  /\ Option("-D") /\ Ouvrable(name_file)
  /\ LireSections
  /\ UNCHANGED <<optind, relocationtable, currentsymbol, sortie,
                 debugged_files, debogues>>

main_relocation_table ==
  /\ Option("-E") /\ Ouvrable(name_file)
  /\ relocationtable' = creer_liste(TailleTables)
  /\ sections' \in TablesLues(fichier)
  /\ pc' = "reimplantations" /\ i' = 1 /\ j' = 1
  /\ UNCHANGED <<optind, liste_symb, currentsymbol, sortie, debugged_files,
                 debogues>>

\* The entries of a section are counted as they are read, in the SHT_REL
\* branch only.
TailleComptee(s) == IF DuType(s, SHT_REL) THEN Len(s.contenu) ELSE 0

\* (mutant) The entries are left as they were read.
TableNonInversee(s) ==
  [nom |-> s.nom, size |-> TailleComptee(s),
   tab |-> [k \in DOMAIN s.contenu |-> load_rel(s.contenu[k])]]

Table(s) ==
  [nom |-> s.nom, size |-> TailleComptee(s),
   tab |-> [k \in DOMAIN s.contenu |-> swap_rel(load_rel(s.contenu[k]))]]

\* load_relocation_table
ChargerReimplantation ==
  /\ EnCours("reimplantations") /\ i <= Len(sections)
  /\ relocationtable' = IF DuType(sections[i], SHT_REL) \/ DuType(sections[i], SHT_RELA)
                        THEN ajouter(relocationtable, Table(sections[i]))
                        ELSE relocationtable
  /\ i' = i + 1
  /\ UNCHANGED <<pc, optind, j, sections, liste_symb, currentsymbol, sortie>>

\* print_relocation_table reads the section table again, and has a currentsymbol
\* of its own, not initialised.
FinReimplantations ==
  /\ EnCours("reimplantations") /\ i > Len(sections)
  /\ LireSections
  /\ currentsymbol' \in SymbolesIndefinis
  /\ UNCHANGED <<optind, relocationtable, sortie>>

\* load_tablesymbole: every section of type SHT_SYMTAB.
DansSymtab == /\ i <= Len(sections) /\ DuType(sections[i], SHT_SYMTAB)
              /\ j <= Len(sections[i].contenu)

\* (mutant) The null symbol is left out.
ChargerSymboleUtile ==
  /\ EnCours("symboles") /\ DansSymtab
  /\ liste_symb' = IF j = 1 THEN liste_symb
                   ELSE ajouter(liste_symb, load_symb(sections[i].contenu[j]))
  /\ j' = j + 1
  /\ UNCHANGED <<pc, optind, i, sections, relocationtable, currentsymbol, sortie>>

ChargerSymbole ==
  /\ EnCours("symboles") /\ DansSymtab
  /\ liste_symb' = ajouter(liste_symb, load_symb(sections[i].contenu[j]))
  /\ j' = j + 1
  /\ UNCHANGED <<pc, optind, i, sections, relocationtable, currentsymbol, sortie>>

\* (mutant) The loop does not advance.
SectionBloquee ==
  /\ EnCours("symboles") /\ i <= Len(sections) /\ ~DansSymtab
  /\ j' = 1
  /\ UNCHANGED <<pc, optind, i, sections, relocationtable, liste_symb,
                 currentsymbol, sortie>>

SectionSuivante ==
  /\ EnCours("symboles") /\ i <= Len(sections) /\ ~DansSymtab
  /\ i' = i + 1 /\ j' = 1
  /\ UNCHANGED <<pc, optind, sections, relocationtable, liste_symb,
                 currentsymbol, sortie>>

FinSymboles(o) ==
  EnCours("symboles") /\ i > Len(sections) /\ argv[optind] = o

\* When all are loaded, every symbol is swapped in its place in the list.
Inversee(liste) ==
  [liste EXCEPT !.tab = [k \in DOMAIN @ |-> swap_header_symb(@[k])]]

\* What is printed of a symbol.
Affiche(symb) ==
  [st_value |-> Nombre(symb.st_value), st_shndx |-> Nombre(symb.st_shndx)]

\* load_offset_symb and print_tablesymbol.
print_tablesymbol ==
  /\ FinSymboles("-D")
  /\ liste_symb' = Inversee(liste_symb)
  /\ sortie' = sortie \o [k \in 1 .. n(liste_symb) |->
       Ligne("symbole", Affiche(get_symbol(liste_symb', k - 1, currentsymbol)))]
  /\ OptionSuivante
  /\ UNCHANGED <<i, j, sections, relocationtable, currentsymbol>>

\* load_offset_symb.  Without a .strtab section the names are read from where
\* the ELF header says nothing of the kind.
SansStrtab ==
  /\ FinSymboles("-D")
  /\ \A v \in DOMAIN sections :
       sections[v].nom # ".strtab" \/ ~DuType(sections[v], SHT_STRTAB)
  /\ pc' = "avorte" /\ UNCHANGED <<optind, boucle, sortie>>

print_relocation_table ==
  /\ FinSymboles("-E")
  /\ liste_symb' = Inversee(liste_symb)
  /\ pc' = "impression" /\ i' = 1 /\ j' = 0
  /\ UNCHANGED <<optind, sections, relocationtable, currentsymbol, sortie>>

TableImprimee == relocationtable.tab[i]
Imprimer == EnCours("impression") /\ i <= n(relocationtable)

Titre ==
  /\ Imprimer /\ j = 0
  /\ sortie' = Append(sortie, Ligne("titre",
                 [nom |-> TableImprimee.nom, nb |-> TableImprimee.size]))
  /\ j' = 1
  /\ UNCHANGED <<pc, optind, i, sections, relocationtable, liste_symb,
                 currentsymbol>>

Reimplantation == TableImprimee.tab[j]
Indice == ELF32_R_SYM(Reimplantation.r_info)

ImprimerReimplantation ==
  /\ Imprimer /\ j \in 1 .. TableImprimee.size
  /\ currentsymbol' = get_symbol(liste_symb, Indice, currentsymbol)
  /\ sortie' = Append(sortie, Ligne("rel",
                 [offset |-> Nombre(Reimplantation.r_offset),
                  info |-> Nombre(Reimplantation.r_info), sym |-> Indice,
                  valeur |-> Nombre(currentsymbol'.st_value)]))
  /\ j' = j + 1
  /\ UNCHANGED <<pc, optind, i, sections, relocationtable, liste_symb>>

\* The name printed is that of a section whose index is the symbol's.
NomHorsTable ==
  /\ Imprimer /\ j \in 1 .. TableImprimee.size
  /\ Indice >= Len(sections)
  /\ pc' = "avorte" /\ UNCHANGED <<optind, boucle, sortie>>

\* (mutant) The last relocation section is not printed.
FinImpressionTropTot ==
  /\ EnCours("impression") /\ i >= n(relocationtable)
  /\ OptionSuivante /\ UNCHANGED <<boucle, sortie>>

TableSuivante ==
  /\ Imprimer /\ j > 0 /\ j > TableImprimee.size
  /\ i' = i + 1 /\ j' = 0
  /\ UNCHANGED <<pc, optind, sections, relocationtable, liste_symb,
                 currentsymbol, sortie>>

FinImpression ==
  /\ EnCours("impression") /\ i > n(relocationtable)
  /\ OptionSuivante /\ UNCHANGED <<boucle, sortie>>

-----------------------------------------------------------------------------
Next ==
  \/ Demarrer \/ MotIgnore \/ FinOptions \/ OptionSortie \/ OptionHote
  \/ OptionDebug \/ OptionDebugFatale \/ FichierAbsent
  \/ main_load_header \/ main_read_section_table
  \/ main_section \/ main_sectionFatale \/ SansVal
  \/ TronqueFatale
  \/ main_table_symbole \/ main_relocation_table
  \/ ChargerReimplantation \/ FinReimplantations
  \/ ChargerSymbole \/ SectionSuivante \/ print_tablesymbol \/ SansStrtab
  \/ print_relocation_table \/ Titre \/ ImprimerReimplantation
  \/ NomHorsTable \/ TableSuivante \/ FinImpression

\* Any command line and any file.
Init == \E a \in Seq(DOMAIN Rang), f \in Fichier : InitLecture(a, f)
Spec == Init /\ [][Next]_vars

-----------------------------------------------------------------------------
(***************************************************************************)
(* Properties.                                                             *)
(***************************************************************************)

Finis == {"retour", "exit", "avorte"}
Parcours == {"symboles", "reimplantations", "impression"}
UneTable ==
  {t \in [nom : STRING, tab : Seq(Rels), size : Nat] : t.size <= Len(t.tab)}

\* What is printed.
LigneTable ==
  [nom : STRING, type : Nat, permissions : SUBSET {d.lettre : d \in Range(Drapeaux)}]
LigneRel == [offset : Nat, info : Nat, sym : Nat, valeur : Nat]
Valeurs ==
  [header |-> Nat, section |-> Nat, table |-> Seq(LigneTable),
   symbole |-> [st_value : Nat, st_shndx : Nat],
   titre |-> [nom : STRING, nb : Nat], rel |-> LigneRel]
UneLigne(quoi) == [opt : Nat, quoi : {quoi}, v : Valeurs[quoi]]

MotsLus == argv \in Seq(DOMAIN Rang) /\ name_file \in Range(argv) \cup {SansNom}

ListesLues ==
  /\ sections \in Seq(Section)
  /\ relocationtable \in [taille_max : Nat \ {0}, tab : Seq(UneTable)]
  /\ liste_symb \in [taille_max : Nat \ {0}, tab : Seq(Symboles)]
  /\ currentsymbol \in Symboles

\* The loops stop at the end of what they run through.
Indices ==
  /\ pc \in {"symboles", "reimplantations"} => i \in 1 .. Len(sections) + 1
  /\ pc = "symboles" =>
       j \in 1 .. IF i <= Len(sections) /\ DuType(sections[i], SHT_SYMTAB)
                  THEN Len(sections[i].contenu) + 1 ELSE 1
  /\ pc = "impression" =>
       /\ i \in 1 .. n(relocationtable) + 1
       /\ i <= n(relocationtable) => j \in 0 .. relocationtable.tab[i].size + 1
       /\ currentsymbol \in SymbolesIndefinis \cup Range(liste_symb.tab)

Imprime ==
  \A k \in DOMAIN sortie :
    /\ sortie[k].quoi \in DOMAIN Valeurs /\ sortie[k] \in UneLigne(sortie[k].quoi)
    /\ sortie[k].opt <= optind

\* The variables keep their types; getopt stops at the end of the command line.
TypeOK ==
  /\ MotsLus /\ fichier \in Fichier /\ optind \in 1 .. Len(argv) + 1
  /\ pc \in {"debut", "options"} \cup Parcours \cup Finis
  /\ ListesLues /\ Indices /\ Imprime
  /\ debugged_files \in Seq(Range(Rang)) /\ debogues \subseteq DOMAIN Rang

\* Between the reading of the sections and the end of -D or -E, the option at
\* hand is still the word getopt is at, and a file read whole is as it is.
OptionEnCours ==
  /\ pc \in Parcours =>
       /\ optind < Len(argv)
       /\ argv[optind] = "-E" \/ (argv[optind] = "-D" /\ pc = "symboles")
       /\ Entier => sections = fichier.sect
  /\ pc = "symboles" /\ argv[optind] = "-E" => currentsymbol \in SymbolesIndefinis

\* Every element of the two lists was written in the room allocated for it,
\* however often they grew (type_liste_symb.c:51-63, elf32_reloc_table.c:58-69).
Capacites == Contenue(liste_symb) /\ Contenue(relocationtable)

\* What the file holds, read in its own byte order: the entries of the sections
\* of a type, and the symbols and relocations as numbers.
DeType(s, type) ==
  FlattenSeq([v \in DOMAIN s |-> IF DuType(s[v], type) THEN s[v].contenu ELSE <<>>])

Sens(symboles) == [k \in DOMAIN symboles |-> Affiche(symboles[k])]
SensRel(rels) == [k \in DOMAIN rels |-> [offset |-> Nombre(rels[k].r_offset),
                                         info |-> Nombre(rels[k].r_info)]]

\* The symbols are loaded in the order of the file, each once, through all the
\* sections that hold some, and swapped once before the relocations are printed
\* with them (lecture.c:132-150, affichage.c:466-470).
SymbolesLus ==
  /\ pc = "symboles" =>
       Inversee(liste_symb).tab =
         DeType(SubSeq(sections, 1, i - 1), SHT_SYMTAB)
           \o IF i <= Len(sections) /\ DuType(sections[i], SHT_SYMTAB)
              THEN SubSeq(sections[i].contenu, 1, j - 1) ELSE <<>>
  /\ pc = "impression" => liste_symb.tab = DeType(sections, SHT_SYMTAB)

\* What the option at hand has printed in s.
Imprimees(s, quoi) ==
  FlattenSeq([p \in DOMAIN s |-> IF s[p].opt = optind /\ s[p].quoi = quoi
                                 THEN <<s[p].v>> ELSE <<>>])

\* A relocation printed, without the value of its symbol.
SansValeur(rels) ==
  [p \in DOMAIN rels |-> [offset |-> rels[p].offset, info |-> rels[p].info]]

\* When -D or -E returns it has printed the symbols, or the entries of the
\* SHT_REL sections, of a file read whole: all of them, once and in order, with
\* the numbers the big-endian file means (affichage.c:305-393, 475-509,
\* mains.c:151-153, lecture.c:227).
AffichageComplet ==
  [][Entier /\ pc' = "options" =>
       /\ pc = "symboles" =>
            Imprimees(sortie', "symbole") = Sens(DeType(fichier.sect, SHT_SYMTAB))
       /\ pc = "impression" =>
            SansValeur(Imprimees(sortie', "rel")) = SensRel(DeType(fichier.sect, SHT_REL))]_vars

\* The value printed with a relocation is that of the symbol it names, when the
\* file has it: never that of the relocation before (affichage.c:503-504).
ValeursRel ==
  Entier =>
    LET symboles == Sens(DeType(fichier.sect, SHT_SYMTAB))
    IN  \A k \in DOMAIN sortie :
          LET rel == sortie[k].v
          IN  sortie[k].quoi = "rel" /\ rel.info \div Octet < Len(symboles) =>
                rel.valeur = symboles[rel.info \div Octet + 1].st_value

\* -B prints for each section the letters of the flags it has, whatever the
\* other flags, as long as it has none that the display does not know, the sign
\* bit least of all (affichage.c:158-213).
A(flags, bit) == (flags \div bit) % 2 = 1
Lettres(flags) == {d.lettre : d \in {e \in Range(Drapeaux) : A(flags, e.bit)}}
PermissionsAffichees ==
  Entier =>
    \A k \in DOMAIN sortie : sortie[k].quoi = "table" =>
      /\ DOMAIN sortie[k].v = DOMAIN fichier.sect
      /\ \A v \in DOMAIN fichier.sect :
           LET flags == EnInt(Nombre(fichier.sect[v].sh_flags))
           IN  flags \in 0 .. 2047 /\ ~A(flags, 8) =>
                 sortie[k].v[v].permissions = Lettres(flags)

\* As long as the table of debug.c holds, the binary search finds exactly the
\* files given to --debug, except those that came when it was full of smaller
\* names (debug.c:32-65).
TableDebug ==
  Len(debugged_files) <= MAX_FILES_NUMBER =>
    \A nom \in DOMAIN Rang :
      nom \in debogues <=>
        \/ is_debugged(debugged_files, Rang[nom])
        \/ /\ nom \in debogues /\ Len(debugged_files) = MAX_FILES_NUMBER
           /\ \A f \in Range(debugged_files) : f < Rang[nom]

\* The program ends: it returns, exits or is killed.
Termine == <>(pc \in Finis)

\* "Section de réadressage '%s' contenant %d entrées" (affichage.c:483, 496):
\* the number is that of the entries of the section.
EntreesAnnoncees ==
  Entier =>
    \A k \in DOMAIN sortie :
      sortie[k].quoi = "titre" =>
        \E s \in Range(fichier.sect) :
          s.nom = sortie[k].v.nom /\ Len(s.contenu) = sortie[k].v.nb
=============================================================================
