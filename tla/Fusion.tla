------------------------------- MODULE Fusion -------------------------------
(***************************************************************************)
(* main_fus (mains.c), the -F option: two ELF object files are merged into *)
(* a new one.  The sections of source 1 are copied or merged, then those   *)
(* of source 2 that were not merged are copied, then come the merged       *)
(* symbol table (FusionSymboles), the two string tables, the section table *)
(* and, last, the ELF header at the front.  One action is one iteration of *)
(* a loop of main_fus or one part of the file written after the loops.     *)
(***************************************************************************)
EXTENDS FusionSymboles

CONSTANTS
  TailleEhdr, TailleShdr, TailleSym,  \* sizeof(Elf32_Ehdr, _Shdr, _Sym)
  TaillesIndefinies,  \* what sh_size may hold in a header read out of bounds
  SymbolesIndefinis   \* what a symbol table read from the wrong place may hold

ASSUME TaillesAssumption ==
  /\ TailleEhdr \in Nat \ {0} /\ TailleShdr \in Nat \ {0}
  /\ TailleSym \in Nat \ {0}
  /\ TaillesIndefinies \subseteq Nat /\ SymbolesIndefinis \subseteq Seq(Symbole)
  /\ {".shstrtab", ".strtab", ".symtab"} \subseteq Noms

SHT_PROGBITS == 1
SHT_SYMTAB   == 2

\* A section header of a source with its name resolved, and a source file.
Section == [nom : Noms, type : Nat, offset : Nat, size : Nat]
Fichier ==
  {f \in [sect : Seq(Section), strndx : Nat, symb : Seq(Symbole)] :
     f.strndx < Len(f.sect)}

VARIABLES
  source1, source2,  \* the two source files, their headers as held in memory
  altere,            \* (history) a header of source 2 was overwritten there
  presents,          \* which of them can be opened
  pc,                \* the part of main_fus being executed
  i,                 \* the index of the section loops
  offset,            \* where the next part of the result goes
  tab_bool,          \* tab_bool[v] = 1: section v of source 2 was merged
  table,             \* the section names of the result
  liste_section,     \* the section headers of the result
  new_header,        \* the ELF header of the result
  fres               \* the parts of the result written so far

varsFus == <<source1, source2, presents, altere, pc, i, offset, tab_bool, table,
             liste_section, new_header, fres>>
vars == <<varsFus, varsSymb>>

e_shnum(f) == Len(f.sect)
Sections(f) == 0 .. e_shnum(f) - 1
sect_head(f, v) == f.sect[v + 1]

Premier(S) == CHOOSE v \in S : \A w \in S : v <= w
Dernier(S) == CHOOSE v \in S : \A w \in S : v >= w

AvecNom(f, nom) == {v \in Sections(f) : sect_head(f, v).nom = nom}
AvecType(f, type) == {v \in Sections(f) : sect_head(f, v).type = type}

search_same_name(nom, f) ==
  IF AvecNom(f, nom) = {} THEN -1 ELSE Premier(AvecNom(f, nom))

\* The index of the last section named .strtab; 0 when there is none.
IndiceStrtab(f) ==
  IF AvecNom(f, ".strtab") = {} THEN 0 ELSE Dernier(AvecNom(f, ".strtab"))

TailleStrtab(f) ==
  IF AvecNom(f, ".strtab") = {} THEN 0 ELSE sect_head(f, IndiceStrtab(f)).size

load_tablesymbole(f) == IF AvecType(f, SHT_SYMTAB) = {} THEN <<>> ELSE f.symb

\* creat_table_string: room for the two section name tables.
creat_table_string(f, g) ==
  init_table(sect_head(f, f.strndx).size + sect_head(g, g.strndx).size)

Recalculee(nom) == nom \in {".shstrtab", ".strtab", ".symtab"}

\* (mutant) Empty sections are dropped.
CopieeNonVide(v) == /\ sect_head(source1, v).size # 0
                    /\ sect_head(source1, v).type # SHT_PROGBITS
                    /\ ~Recalculee(sect_head(source1, v).nom)

\* Whether a section of source 1 is merged or, else, copied.
Fusionnee(v) == /\ sect_head(source1, v).type = SHT_PROGBITS
                /\ search_same_name(sect_head(source1, v).nom, source1) # -1
Copiee(v) == /\ ~Fusionnee(v)
             /\ \/ sect_head(source1, v).type = SHT_PROGBITS
                \/ ~Recalculee(sect_head(source1, v).nom)

(***************************************************************************)
(* Writing a part of the result: its header goes to liste_section, its     *)
(* name to table, its content to fres at the given position.               *)
(***************************************************************************)
Segment(src, pos, len) == [src |-> src, pos |-> pos, len |-> len]

\* (mutant) sh_name is not updated.
EnteteSansNom(quoi, at, size, src, idx, avec) ==
  [sh_name |-> 0, sh_offset |-> at, sh_size |-> size,
   quoi |-> quoi, src |-> src, idx |-> idx, avec |-> avec]

Entete(quoi, at, size, src, idx, avec) ==
  [sh_name |-> table.val, sh_offset |-> at, sh_size |-> size,
   quoi |-> quoi, src |-> src, idx |-> idx, avec |-> avec]

\* (mutant) The content is written without the fseek that precedes it.
ApposerSansPlacer(at, len, quoi, contenu) ==
  LET p == Len(fres)
      ici == IF p = 0 THEN 0 ELSE fres[p].at + fres[p].len
  IN  IF len = 0 THEN fres
      ELSE Append(fres, [at |-> ici, len |-> len, quoi |-> quoi, contenu |-> contenu])

Apposer(at, len, quoi, contenu) ==
  IF len = 0 THEN fres
  ELSE Append(fres, [at |-> at, len |-> len, quoi |-> quoi, contenu |-> contenu])

\* (mutant) The end of the file is not moved.
OffsetImmobile(size) == offset

OffsetApres(size) == offset + size

\* (mutant) The list of headers grows at its head.
InsererEnTete(h) == <<h>> \o liste_section

Inserer(h) == Append(liste_section, h)

Ajouter_S(h, nom, contenu) ==
  /\ liste_section' = Inserer(h)
  /\ table' \in Ecritures(table, nom)
  /\ fres' = Apposer(h.sh_offset, h.sh_size, h.quoi, contenu)
  /\ offset' = OffsetApres(h.sh_size)

UneSectionDePlus == new_header' = [new_header EXCEPT !.e_shnum = @ + 1]

\* An empty section keeps the sh_offset it had in its source.
OffsetPose(s) == IF s.size # 0 THEN offset ELSE s.offset

put_sect(f, src, v) ==
  LET s == sect_head(f, v)
  IN  /\ Ajouter_S(Entete("section", OffsetPose(s), s.size, src, v, -1), s.nom,
                   <<Segment(src, s.offset, s.size)>>)
      /\ UneSectionDePlus

\* cont_sect_e: both loops read source 1, the second one on from where the
\* first one stopped.
cont_sect_e(s, size2) ==
  <<Segment(1, s.offset, s.size), Segment(1, s.offset + s.size, size2)>>

cont_sect(v1, v2, size2) ==
  LET s == sect_head(source1, v1)
  IN  /\ Ajouter_S(Entete("section", offset, s.size + size2, 1, v1, v2), s.nom,
                   cont_sect_e(s, size2))
      /\ UneSectionDePlus

-----------------------------------------------------------------------------
Sources == <<source1, source2, presents, altere>>

InitFus(f, g, p) ==
  /\ source1 = f /\ source2 = g /\ presents = p /\ altere = FALSE
  /\ pc = "ouverture" /\ i = 0 /\ offset = TailleEhdr
  /\ tab_bool = <<>>
  /\ table = init_table(0)
  /\ liste_section = <<>>
  /\ new_header = [e_shnum |-> 0, e_shstrndx |-> 0, e_shoff |-> 0]
  /\ fres = <<>>
  /\ list_symb1 = <<>> /\ list_symb2 = <<>> /\ final_list_symb = <<>>
  /\ final_stringtable = init_table(0)
  /\ traiter = [k \in Indices(<<>>) |-> 0]
  /\ boucle = "attente" /\ rang = 0

Init == \E f, g \in Fichier, p \in SUBSET {1, 2} : InitFus(f, g, p)

\* The result was already opened for writing, hence emptied, when the first
\* source that cannot be opened ends the program (exit(0) in lecture.c).
SourceAbsente ==
  /\ pc = "ouverture" /\ presents # {1, 2}
  /\ pc' = "exit"
  /\ UNCHANGED <<Sources, i, offset, tab_bool, table, liste_section,
                 new_header, fres, varsSymb>>

Charger ==
  /\ pc = "ouverture" /\ presents = {1, 2}
  /\ table' = creat_table_string(source1, source2)
  /\ new_header' = [new_header EXCEPT !.e_shstrndx = source1.strndx]
  /\ tab_bool' = [v \in Sections(source2) |-> 0]
  /\ pc' = "sect1"
  /\ UNCHANGED <<Sources, i, offset, liste_section, fres, varsSymb>>

DansSect1 == pc = "sect1" /\ i < e_shnum(source1)
SectionSuivante == i' = i + 1 /\ UNCHANGED <<Sources, pc, varsSymb>>

\* The name is looked up in source 1, where it is always found; the index is
\* then used in source 2.
IndiceFusion == search_same_name(sect_head(source1, i).nom, source1)

\* (mutant) The merges are counted.
FusionsComptees(v) == [tab_bool EXCEPT ![v] = @ + 1]

Traitee(v) == [tab_bool EXCEPT ![v] = 1]

FusionnerSection ==
  /\ DansSect1 /\ Fusionnee(i) /\ IndiceFusion \in Sections(source2)
  /\ tab_bool' = Traitee(IndiceFusion)
  /\ cont_sect(i, IndiceFusion, sect_head(source2, IndiceFusion).size)
  /\ SectionSuivante

\* The index is past the end of tab_bool and sect_head2: the size read is
\* arbitrary and the write to tab_bool lands elsewhere on the stack, which may
\* go unnoticed, change a field of a header of source 2 or kill the process.
HorsTable ==
  DansSect1 /\ Fusionnee(i) /\ IndiceFusion \notin Sections(source2)

FusionnerHorsTable ==
  /\ HorsTable
  /\ \E size \in TaillesIndefinies : cont_sect(i, IndiceFusion, size)
  /\ SectionSuivante /\ UNCHANGED tab_bool

\* A header one of whose fields was set to 1.
Ecrases(s) == {[s EXCEPT !.nom = n] : n \in Noms}
              \cup {[s EXCEPT !.type = 1], [s EXCEPT !.offset = 1], [s EXCEPT !.size = 1]}

\* When it is that of the symbol table, other bytes will be read for symbols.
SymbolesApres(v) ==
  {source2.symb} \cup IF sect_head(source2, v).type = SHT_SYMTAB THEN SymbolesIndefinis ELSE {}

EcraserEntete ==
  /\ HorsTable
  /\ \E size \in TaillesIndefinies : cont_sect(i, IndiceFusion, size)
  /\ \E v \in Sections(source2) :
       \E s \in Ecrases(sect_head(source2, v)), symb \in SymbolesApres(v) :
         source2' = [source2 EXCEPT !.sect[v + 1] = s, !.symb = symb]
  /\ altere' = TRUE /\ i' = i + 1
  /\ UNCHANGED <<source1, presents, pc, tab_bool, varsSymb>>

HorsTableFatal ==
  /\ HorsTable
  /\ pc' = "avorte"
  /\ UNCHANGED <<Sources, i, offset, tab_bool, table, liste_section,
                 new_header, fres, varsSymb>>

PoserSection1 ==
  /\ DansSect1 /\ Copiee(i)
  /\ put_sect(source1, 1, i)
  /\ SectionSuivante /\ UNCHANGED tab_bool

IgnorerSection1 ==
  /\ DansSect1 /\ ~Fusionnee(i) /\ ~Copiee(i)
  /\ SectionSuivante
  /\ UNCHANGED <<offset, tab_bool, table, liste_section, new_header, fres>>

\* (mutant) The index is not reset between the two loops.
FinSections1SansRetour ==
  /\ pc = "sect1" /\ i >= e_shnum(source1)
  /\ pc' = "sect2" /\ i' = i
  /\ UNCHANGED <<Sources, offset, tab_bool, table, liste_section, new_header,
                 fres, varsSymb>>

FinSections1 ==
  /\ pc = "sect1" /\ i >= e_shnum(source1)
  /\ pc' = "sect2" /\ i' = 0
  /\ UNCHANGED <<Sources, offset, tab_bool, table, liste_section, new_header,
                 fres, varsSymb>>

DansSect2 == pc = "sect2" /\ i < e_shnum(source2)
Restante(v) == tab_bool[v] = 0 /\ ~Recalculee(sect_head(source2, v).nom)

PoserSection2 ==
  /\ DansSect2 /\ Restante(i)
  /\ put_sect(source2, 2, i)
  /\ SectionSuivante /\ UNCHANGED tab_bool

\* (mutant) A section is ignored without moving on.
IgnorerSansAvancer == DansSect2 /\ ~Restante(i) /\ UNCHANGED vars

IgnorerSection2 ==
  /\ DansSect2 /\ ~Restante(i)
  /\ SectionSuivante
  /\ UNCHANGED <<offset, tab_bool, table, liste_section, new_header, fres>>

\* After the loops: the symbols are loaded and the room for their names taken.
ChargerSymboles ==
  /\ pc = "sect2" /\ i >= e_shnum(source2)
  /\ pc' = "symboles"
  /\ UNCHANGED <<Sources, i, offset, tab_bool, table, liste_section,
                 new_header, fres>>
  /\ list_symb1' = load_tablesymbole(source1)
  /\ list_symb2' = load_tablesymbole(source2)
  /\ final_list_symb' = <<>>
  /\ final_stringtable' = init_table(TailleStrtab(source1) + TailleStrtab(source2))
  /\ traiter' = [k \in Indices(load_tablesymbole(source2)) |-> 0]
  /\ boucle' = "symb1" /\ rang' = 1

Concatener == pc = "symboles" /\ NextSymb /\ UNCHANGED varsFus

\* concat_table_symb returns nothing: an error is not seen here.
FinSymboles ==
  /\ pc = "symboles" /\ boucle \in {"fini", "erreur"}
  /\ pc' = "symtab"
  /\ UNCHANGED <<Sources, i, offset, tab_bool, table, liste_section,
                 new_header, fres, varsSymb>>

\* The name of the last SYMTAB header of source 1.  Without one the header is
\* an uninitialised variable, whose name leads anywhere or kills the process.
NomsSymtab ==
  LET S == AvecType(source1, SHT_SYMTAB)
  IN  IF S = {} THEN Noms ELSE {sect_head(source1, Dernier(S)).nom}

SymtabFatale ==
  /\ pc = "symtab" /\ AvecType(source1, SHT_SYMTAB) = {}
  /\ pc' = "avorte"
  /\ UNCHANGED <<Sources, i, offset, tab_bool, table, liste_section,
                 new_header, fres, varsSymb>>

EcrireSymtab ==
  /\ pc = "symtab"
  /\ \E nom \in NomsSymtab :
       Ajouter_S(Entete("symtab", offset, TailleSym * Len(final_list_symb),
                        1, 0, -1), nom, <<>>)
  /\ UneSectionDePlus
  /\ pc' = "strtab"
  /\ UNCHANGED <<Sources, i, tab_bool, varsSymb>>

\* (mutant) e_shstrndx is taken before the .strtab header is added.
IndiceTropTot == Len(liste_section)

IndiceShstrtab == Len(liste_section')

\* The header of a string table, copied from that of section v of source 1.
new_string_sect(quoi, v, size) == Entete(quoi, offset, size, 1, v, -1)

\* new_string_sect and write_string_table for the symbol names.  e_shstrndx is
\* the length of the list here: the index of the header added next.
EcrireStrtab ==
  /\ pc = "strtab"
  /\ LET v == IndiceStrtab(source1)
     IN  Ajouter_S(new_string_sect("strtab", v, final_stringtable.val),
                   sect_head(source1, v).nom, <<>>)
  /\ new_header' = [e_shnum    |-> new_header.e_shnum + 1,
                    e_shstrndx |-> IndiceShstrtab,
                    e_shoff    |-> new_header.e_shoff]
  /\ pc' = "shstrtab"
  /\ UNCHANGED <<Sources, i, tab_bool, varsSymb>>

\* The same for the section names: the size is read after the name of this
\* very section was written to the table.
EcrireShstrtab ==
  /\ pc = "shstrtab"
  /\ LET v == source1.strndx
         nom == sect_head(source1, v).nom
     IN  Ajouter_S(new_string_sect("shstrtab", v, Apres(table, nom)), nom, <<>>)
  /\ pc' = "entetes"
  /\ UNCHANGED <<Sources, i, tab_bool, new_header, varsSymb>>

\* (mutant) The section table is not written.
SansEntetes ==
  /\ pc = "entetes"
  /\ pc' = "header"
  /\ UNCHANGED <<Sources, i, offset, tab_bool, table, liste_section,
                 new_header, fres, varsSymb>>

\* The name that the next step copies to the table of section names.
NomsAEcrire ==
  CASE DansSect1 /\ (Fusionnee(i) \/ Copiee(i)) -> {sect_head(source1, i).nom}
    [] DansSect2 /\ Restante(i) -> {sect_head(source2, i).nom}
    [] pc = "symtab" -> NomsSymtab
    [] pc = "strtab" -> {sect_head(source1, IndiceStrtab(source1)).nom}
    [] pc = "shstrtab" -> {sect_head(source1, source1.strndx).nom}
    [] OTHER -> {}

\* Past the buffer that write_table fills without looking at its size, the name
\* may be kept or lost (Ecritures), or the process killed, or the list of headers
\* overwritten, after which nothing more is said of the run.
DebordementNoms ==
  /\ \E nom \in NomsAEcrire : Apres(table, nom) > table.cap
  /\ pc' = "avorte"
  /\ UNCHANGED <<Sources, i, offset, tab_bool, table, liste_section,
                 new_header, fres, varsSymb>>

write_section_table ==
  Apposer(offset, TailleShdr * Len(liste_section), "entetes", <<>>)
write_new_header == Apposer(0, TailleEhdr, "ehdr", <<>>)

\* offset is left at the start of the section table.
EcrireEntetes ==
  /\ pc = "entetes"
  /\ fres' = write_section_table
  /\ pc' = "header"
  /\ UNCHANGED <<Sources, i, offset, tab_bool, table, liste_section,
                 new_header, varsSymb>>

EcrireHeader ==
  /\ pc = "header"
  /\ new_header' = [e_shnum    |-> new_header.e_shnum + 1,
                    e_shstrndx |-> new_header.e_shstrndx,
                    e_shoff    |-> offset]
  /\ fres' = write_new_header
  /\ pc' = "fin"
  /\ UNCHANGED <<Sources, i, offset, tab_bool, table, liste_section, varsSymb>>

Next ==
  \/ SourceAbsente \/ Charger
  \/ FusionnerSection \/ FusionnerHorsTable \/ EcraserEntete \/ HorsTableFatal
  \/ PoserSection1 \/ IgnorerSection1 \/ FinSections1
  \/ PoserSection2 \/ IgnorerSection2
  \/ ChargerSymboles \/ Concatener \/ FinSymboles
  \/ SymtabFatale \/ EcrireSymtab \/ EcrireStrtab \/ EcrireShstrtab
  \/ EcrireEntetes \/ EcrireHeader \/ DebordementNoms

Spec == Init /\ [][Next]_vars

-----------------------------------------------------------------------------
(***************************************************************************)
(* Properties.                                                             *)
(***************************************************************************)
Quoi == {"section", "symtab", "strtab", "shstrtab", "entetes", "ehdr"}
Header == [sh_name : Nat, sh_offset : Nat, sh_size : Nat, quoi : Quoi,
           src : {1, 2}, idx : Nat, avec : Nat \cup {-1}]
Partie == [at : Nat, len : Nat, quoi : Quoi,
           contenu : Seq([src : {1, 2}, pos : Nat, len : Nat])]

\* The type invariant: tab_bool is only written inside the table of source 2
\* (the writes past its end are FusionnerHorsTable and EcraserEntete).
TypeOK ==
  /\ source1 \in Fichier /\ source2 \in Fichier /\ presents \subseteq {1, 2}
  /\ altere \in BOOLEAN
  /\ pc \in {"ouverture", "exit", "sect1", "sect2", "symboles", "symtab",
             "strtab", "shstrtab", "entetes", "header", "fin", "avorte"}
  /\ i \in Nat /\ offset \in Nat
  /\ tab_bool \in IF pc \in {"ouverture", "exit"} THEN {<<>>}
                  ELSE [Sections(source2) -> {0, 1}]
  /\ table \in TableString
  /\ liste_section \in Seq(Header)
  /\ new_header \in [e_shnum : Nat, e_shstrndx : Nat, e_shoff : Nat]
  /\ fres \in Seq(Partie)
  /\ TypeOKSymb

Entetes == {liste_section[p] : p \in DOMAIN liste_section}
Parties == {fres[p] : p \in DOMAIN fres}

Origine(src) == IF src = 1 THEN source1 ELSE source2

\* Each header of the result leads to the bytes that were written for it:
\* nothing written later moves or covers them (ecriture.c:46-60,
\* fusion.c:87-104, mains.c:341-367); unless a header of source 2 was overwritten
\* meanwhile, which leaves nothing to compare the result with.
ContenuDeclare ==
  ~altere => \A h \in Entetes : h.sh_size # 0 =>
    \E b \in Parties :
      /\ b.at = h.sh_offset /\ b.len = h.sh_size /\ b.quoi = h.quoi
      /\ h.quoi = "section" =>
           /\ b.contenu[1].src = h.src
           /\ b.contenu[1].pos = sect_head(Origine(h.src), h.idx).offset

\* Two parts of the result never share a byte, and only the ELF header lies
\* in the space kept for it.
PartiesSeparees ==
  /\ \A p, q \in DOMAIN fres : p # q =>
       \/ fres[p].at + fres[p].len <= fres[q].at
       \/ fres[q].at + fres[q].len <= fres[p].at
  /\ \A b \in Parties : b.at < TailleEhdr => b.quoi = "ehdr"

\* The names a section of the result may have: that of the source section its
\* header was copied from.
NomsAttendus(h) == IF h.quoi = "symtab" THEN NomsSymtab
                   ELSE {sect_head(Origine(h.src), h.idx).nom}

\* The sh_name of every header leads to that name, whatever was written to the
\* table since, as long as the name lies in the buffer and no header of source 2
\* was overwritten; no name is written over another (table_string.c:48-64).
NomsSections ==
  /\ ~altere => \A h \in Entetes : \E nom \in NomsAttendus(h) :
       DansLaTable(table, h.sh_name, nom) => Designe(table, h.sh_name, nom)
  /\ Empilee(table)

Issus(src) ==
  {h.idx : h \in {g \in Entetes : g.quoi = "section" /\ g.src = src}}
Absorbees == {h.avec : h \in {g \in Entetes : g.quoi = "section"}} \ {-1}
APorter(f) == {v \in Sections(f) : ~Recalculee(sect_head(f, v).nom)}
SectionsFaites == pc \notin {"ouverture", "exit", "sect1", "sect2", "avorte"}

\* Once the section loops are over, every section of source 1 is in the result,
\* but for the tables that are recomputed; every section of source 2 too, by a
\* copy or as the one a section of source 1 was merged with, never both.  A
\* header of source 2 overwritten on the way is excluded.
AucuneSectionPerdue ==
  SectionsFaites /\ ~altere =>
    /\ APorter(source1) \subseteq Issus(1)
    /\ APorter(source2) \subseteq Issus(2) \cup Absorbees
    /\ Issus(2) \cap Absorbees = {}

\* The sections come in the order of the sources and none comes twice.
OrdreSections ==
  \A p, q \in DOMAIN liste_section :
    p < q /\ liste_section[p].quoi = "section" /\ liste_section[q].quoi = "section"
      => \/ liste_section[p].src < liste_section[q].src
         \/ /\ liste_section[p].src = liste_section[q].src
            /\ liste_section[p].idx < liste_section[q].idx

\* The header that closes the file agrees with what was written: it counts the
\* headers, locates their table, and e_shstrndx, set before the header it
\* designates was added, leads to the whole table of section names.
EnteteCoherent ==
  pc = "fin" =>
    /\ new_header.e_shnum = Len(liste_section)
    /\ \E b \in Parties : /\ b.quoi = "entetes" /\ b.at = new_header.e_shoff
                          /\ b.len = TailleShdr * new_header.e_shnum
    /\ LET h == liste_section[new_header.e_shstrndx + 1]
       IN  h.quoi = "shstrtab" /\ h.sh_size = table.val

\* Neither st_shndx nor the sh_link and sh_info of the copied headers are
\* translated to the new numbering of the sections (fusion.c:165-167, 204-206,
\* ecriture.c:87-112).  When source 1 is as an assembler leaves it, they are
\* still right when they designate a section that source 1 has and the result
\* keeps, or a section of source 2 that was merged.
TablesEnFin(f) == \A v, w \in Sections(f) :
  Recalculee(sect_head(f, v).nom) /\ ~Recalculee(sect_head(f, w).nom) => w < v

UnTypeParNom(f) == \A v, w \in Sections(f) :
  sect_head(f, v).nom = sect_head(f, w).nom => sect_head(f, v).type = sect_head(f, w).type

\* The recomputed tables come last and hold no program data, and sections of
\* one name have one type.
Assemblee(f) ==
  /\ TablesEnFin(f) /\ UnTypeParNom(f)
  /\ \A v \in Sections(f) :
       Recalculee(sect_head(f, v).nom) => sect_head(f, v).type # SHT_PROGBITS

NumerosStables ==
  SectionsFaites /\ Assemblee(source1) =>
    /\ \A v \in APorter(source1) :
         LET h == liste_section[v + 1] IN h.src = 1 /\ h.idx = v
    /\ \A v \in Absorbees : liste_section[v + 1].avec = v

\* main_fus returns, exits, or memory it does not own was written.
FusionSeTermine ==
  <>(\/ pc \in {"fin", "exit", "avorte"}
     \/ pc = "symboles" /\ boucle = "avorte")

-----------------------------------------------------------------------------
(***************************************************************************)
(* The result is written as EcritureElf promises.                          *)
(***************************************************************************)
\* The end of the file written so far.
Limite == IF pc \in {"header", "fin"}
          THEN offset + TailleShdr * Len(liste_section) ELSE offset

Blocs == {[at |-> b.at, len |-> b.len] : b \in Parties}

EtatFichier ==
  CASE pc = "ouverture" -> "vide"
    [] pc \in {"exit", "avorte"} -> "abandonne"
    [] pc = "fin" -> "clos"
    [] OTHER -> IF boucle = "avorte" THEN "abandonne" ELSE "ecriture"

Elf == INSTANCE EcritureElf WITH blocs  <- Blocs,
                                 limite <- Limite,
                                 etat   <- EtatFichier

EcritElf == Elf!Spec

(***************************************************************************)
(* The inductive invariant behind these properties: what is so at each     *)
(* point of main_fus, how the headers are counted, where the parts lie.    *)
(***************************************************************************)
Deroulement ==
  /\ pc \in {"ouverture", "exit"} =>
       liste_section = <<>> /\ fres = <<>> /\ offset = TailleEhdr
  /\ pc \in {"ouverture", "sect1", "sect2"} => boucle = "attente"
  /\ pc = "symboles" => boucle # "attente"
  /\ pc \in {"symtab", "strtab", "shstrtab", "entetes", "header", "fin"} =>
       boucle \in {"fini", "erreur"}

Compte ==
  /\ pc \in {"ouverture", "sect1", "sect2", "symboles", "symtab", "strtab",
            "shstrtab"} =>
       new_header.e_shnum = Len(liste_section)
  /\ pc = "shstrtab" => new_header.e_shstrndx = Len(liste_section)
  /\ pc \in {"entetes", "header"} => new_header.e_shnum + 1 = Len(liste_section)
  /\ pc = "fin" => /\ new_header.e_shnum = Len(liste_section)
                   /\ new_header.e_shoff = offset
  /\ pc \in {"entetes", "header", "fin"} =>
       LET p == new_header.e_shstrndx + 1
       IN  /\ p \in DOMAIN liste_section
           /\ liste_section[p].quoi = "shstrtab"
           /\ liste_section[p].sh_size = table.val
  /\ pc \in {"header", "fin"} =>
       \E b \in Parties : /\ b.quoi = "entetes" /\ b.at = offset
                          /\ b.len = TailleShdr * Len(liste_section)

Disposition ==
  /\ offset >= TailleEhdr
  /\ \A b \in Parties :
       /\ b.len > 0 /\ b.at + b.len <= Limite
       /\ b.quoi # "ehdr" => b.at >= TailleEhdr
       /\ b.quoi = "ehdr" => pc = "fin"
  /\ PartiesSeparees

\* Where the section loops are: what they have passed is in the result, each
\* section once, or was merged; tab_bool says which.
Passee1(v) == pc = "sect1" => v < i
Passee2(v) == pc # "sect1" /\ (pc = "sect2" => v < i)
EnBoucle == pc \notin {"ouverture", "exit", "avorte"}

AvecQui(v) == IF Fusionnee(v) THEN search_same_name(sect_head(source1, v).nom, source1)
              ELSE -1

DePasses ==
  \A p \in DOMAIN liste_section : liste_section[p].quoi = "section" =>
    LET h == liste_section[p]
    IN  \/ /\ h.src = 1 /\ h.idx \in Sections(source1) /\ Passee1(h.idx)
           /\ h.avec = AvecQui(h.idx)
           /\ h.avec \in Sections(source2) => tab_bool[h.avec] = 1
        \/ /\ h.src = 2 /\ h.idx \in Sections(source2) /\ Passee2(h.idx)
           /\ h.avec = -1 /\ tab_bool[h.idx] = 0

ToutesPassees ==
  EnBoucle =>
    /\ \A v \in APorter(source1) : Passee1(v) => v \in Issus(1)
    /\ ~altere => \A v \in APorter(source2) :
         Passee2(v) => v \in Issus(2) \/ tab_bool[v] = 1
    /\ \A v \in Sections(source2) : tab_bool[v] = 1 => v \in Absorbees

\* The sections of source 1 keep their index as long as none was left out.
Rangees ==
  EnBoucle /\ Assemblee(source1) =>
    /\ pc = "sect1" /\ (\A w \in Sections(source1) : w < i => w \in APorter(source1)) =>
         Len(liste_section) = i
    /\ \A v \in APorter(source1) : Passee1(v) =>
         /\ v + 1 \in DOMAIN liste_section
         /\ liste_section[v + 1].quoi = "section"
         /\ liste_section[v + 1].src = 1 /\ liste_section[v + 1].idx = v
         /\ liste_section[v + 1].avec = AvecQui(v)

AvancementSections ==
  /\ pc = "ouverture" => i = 0
  /\ pc = "sect1" => i <= e_shnum(source1)
  /\ DePasses /\ OrdreSections /\ ToutesPassees /\ Rangees

-----------------------------------------------------------------------------
(***************************************************************************)
(* What the source says and the code does not do (the violation runs).     *)
(***************************************************************************)

\* "le nom de cette section se trouve dans le 2eme fichier / Alors on fusionne"
\* (mains.c:254-255): a section is merged with the one of source 2 that has
\* its name.
FusionDeMemeNom ==
  \A h \in Entetes : h.avec # -1 =>
    /\ h.avec \in Sections(source2)
    /\ sect_head(source2, h.avec).nom = sect_head(source1, h.idx).nom

\* "int v2: L'indice de la section source 2 a fusionner" (ecriture.c:119): the
\* second part of a merged section is the content of that section of source 2.
ContenuDesDeuxSources ==
  \A h \in Entetes, b \in Parties :
    h.avec \in Sections(source2) /\ b.at = h.sh_offset
      /\ sect_head(source2, h.avec).size # 0
    => LET s == sect_head(source2, h.avec)
       IN  Segment(2, s.offset, s.size) \in {b.contenu[k] : k \in DOMAIN b.contenu}
=============================================================================
