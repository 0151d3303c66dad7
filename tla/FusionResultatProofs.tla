------------------------ MODULE FusionResultatProofs ------------------------
(***************************************************************************)
(* The result of main_fus as a file, for all source files: its header      *)
(* agrees with what was written, its parts do not cover one another, it is *)
(* written as EcritureElf promises, and the section loops lose no section, *)
(* keep the order of the sources and, for an assembled source 1, the       *)
(* numbers of its sections.                                                *)
(***************************************************************************)
EXTENDS FusionProofs

-----------------------------------------------------------------------------
(* How the headers are counted.                                            *)

LEMMA UneDePlus ==
  ASSUME TypeOK, UneSection
  PROVE  /\ Len(liste_section') = Len(liste_section) + 1
         /\ Len(liste_section) \in Nat
<1>1. PICK h \in Header, nom \in Noms, contenu \in Seq(Segments) :
         Ecrit(h, nom, contenu)
  BY DEF UneSection
<1>2. liste_section' = Append(liste_section, h)
  BY <1>1, EcritEffet
<1>3. liste_section \in Seq(Header)
  BY DEF TypeOK
<1> QED
  BY <1>2, <1>3, AppendProperties, LenProperties

\* In the loops and for the symbols, every header added is counted.
LEMMA CompteSection ==
  ASSUME TypeOK, Compte, UneSection, UneSectionDePlus,
         pc \in {"sect1", "sect2", "symtab"}
  PROVE  Compte'
<1>1. new_header.e_shnum \in Nat /\ new_header.e_shnum = Len(liste_section)
  BY DEF TypeOK, Compte
<1>2. new_header'.e_shnum = new_header.e_shnum + 1
  BY DEF TypeOK, UneSectionDePlus
<1>3. pc' \in {"sect1", "sect2", "strtab"}
  BY DEF UneSection
<1> QED
  BY <1>1, <1>2, <1>3, UneDePlus DEF Compte

\* The table of section names is designated by e_shstrndx and has its size.
LEMMA CompteShstrtab ==
  ASSUME TypeOK, Compte, EcrireShstrtab
  PROVE  Compte'
<1> DEFINE v == source1.strndx
           nom == sect_head(source1, v).nom
           h == Entete("shstrtab", offset, Apres(table, nom), 1, v, -1)
           n == Len(liste_section)
<1>1. v \in Nat /\ nom \in Noms
  BY Bornes DEF Section, TypeOK
<1>2. Apres(table, nom) \in Nat
  BY <1>1, ApresType DEF TypeOK
<1>3. Ajouter_S(h, nom, <<>>)
  BY DEF EcrireShstrtab, new_string_sect
<1>4. h \in Header
  BY <1>1, <1>2, EnteteType DEF TypeOK, Quoi
<1>12. h.quoi = "shstrtab" /\ h.sh_size = Apres(table, nom)
  BY DEF Entete
<1> HIDE DEF h
<1>5. liste_section' = Append(liste_section, h) /\ table' \in Ecritures(table, nom)
  BY <1>3 DEF Ajouter_S, Inserer
<1>6. table'.val = Apres(table, nom)
  BY <1>1, <1>5, WriteTableType DEF TypeOK
<1>7. /\ n \in Nat /\ Len(liste_section') = n + 1 /\ liste_section'[n + 1] = h
      /\ n + 1 \in DOMAIN liste_section'
  BY <1>4, <1>5, AppendProperties, LenProperties DEF TypeOK
<1>8. /\ pc = "shstrtab" /\ pc' = "entetes" /\ new_header' = new_header
      /\ new_header.e_shnum = n /\ new_header.e_shstrndx = n
  BY DEF EcrireShstrtab, Compte
<1>9. /\ new_header'.e_shstrndx + 1 \in DOMAIN liste_section'
      /\ liste_section'[new_header'.e_shstrndx + 1].quoi = "shstrtab"
      /\ liste_section'[new_header'.e_shstrndx + 1].sh_size = table'.val
  BY <1>12, <1>6, <1>7, <1>8
<1>10. new_header'.e_shnum + 1 = Len(liste_section')
  BY <1>7, <1>8
<1>11. pc' = "entetes"
  BY <1>8
<1> QED
  BY <1>9, <1>10, <1>11 DEF Compte

\* The section table and the ELF header add a part each.
LEMMA PartieEntetes ==
  ASSUME TypeOK, Compte, EcrireEntetes
  PROVE  LET b == [at |-> offset, len |-> TailleShdr * Len(liste_section),
                   quoi |-> "entetes", contenu |-> <<>>]
         IN  /\ b \in Partie /\ b.len > 0
             /\ fres' = Append(fres, b) /\ Parties' = Parties \cup {b}
<1> DEFINE b == [at |-> offset, len |-> TailleShdr * Len(liste_section),
                 quoi |-> "entetes", contenu |-> <<>>]
<1>1. /\ liste_section \in Seq(Header) /\ fres \in Seq(Partie)
      /\ offset \in Nat /\ new_header.e_shnum \in Nat
  BY DEF TypeOK
<1>2. new_header.e_shnum + 1 = Len(liste_section)
  BY DEF EcrireEntetes, Compte
<1>3. TailleShdr * Len(liste_section) \in Nat \ {0}
  <2>1. Len(liste_section) \in Nat \ {0} /\ TailleShdr \in Nat \ {0}
    BY <1>1, <1>2, TaillesAssumption
  <2> QED
    BY <2>1
<1>4. b \in Partie /\ b.len > 0
  BY <1>1, <1>3 DEF Partie, Quoi
<1>5. fres' = Append(fres, b)
  BY <1>3 DEF EcrireEntetes, write_section_table, Apposer
<1> HIDE DEF b
<1>6. {fres'[p] : p \in DOMAIN fres'} = {fres[p] : p \in DOMAIN fres} \cup {b}
  BY <1>1, <1>4, <1>5, PartieDePlus
<1>7. Parties' = Parties \cup {b}
  BY <1>6 DEF Parties
<1> QED
  BY <1>4, <1>5, <1>7 DEF b

LEMMA PartieHeader ==
  ASSUME TypeOK, EcrireHeader
  PROVE  LET b == [at |-> 0, len |-> TailleEhdr, quoi |-> "ehdr",
                   contenu |-> <<>>]
         IN  /\ b \in Partie /\ b.len > 0
             /\ fres' = Append(fres, b) /\ Parties' = Parties \cup {b}
<1> DEFINE b == [at |-> 0, len |-> TailleEhdr, quoi |-> "ehdr",
                 contenu |-> <<>>]
<1>1. fres \in Seq(Partie) /\ TailleEhdr \in Nat \ {0}
  BY TaillesAssumption DEF TypeOK
<1>2. b \in Partie /\ b.len > 0
  BY <1>1 DEF Partie, Quoi
<1>3. fres' = Append(fres, b)
  BY <1>1 DEF EcrireHeader, write_new_header, Apposer
<1> HIDE DEF b
<1>4. {fres'[p] : p \in DOMAIN fres'} = {fres[p] : p \in DOMAIN fres} \cup {b}
  BY <1>1, <1>2, <1>3, PartieDePlus
<1>5. Parties' = Parties \cup {b}
  BY <1>4 DEF Parties
<1> QED
  BY <1>2, <1>3, <1>5 DEF b

LEMMA CompteInit == Init => Compte
<1> SUFFICES ASSUME NEW f \in Fichier, NEW g \in Fichier, NEW p \in SUBSET {1, 2},
                    InitFus(f, g, p)
             PROVE  Compte
  BY DEF Init
<1> QED
  BY DEF InitFus, Compte

\* The steps that write nothing.
LEMMA CompteRien ==
  ASSUME Compte, UNCHANGED <<table, liste_section, new_header>>,
         \/ pc' = pc /\ (offset' = offset /\ Parties' = Parties)
         \/ pc' \in {"exit", "avorte"}
         \/ pc \in {"sect1", "sect2", "symboles"} /\ pc' \in {"sect2", "symboles", "symtab"}
  PROVE  Compte'
BY DEF Compte

LEMMA CompteNext ==
  ASSUME TypeOK, Deroulement, Compte, [Next]_vars
  PROVE  Compte'
<1> USE DEF SectionSuivante
<1>1. CASE SourceAbsente \/ HorsTableFatal \/ SymtabFatale \/ DebordementNoms
  BY <1>1, AEcrire, CompteRien DEF SourceAbsente, HorsTableFatal, SymtabFatale
<1>2. CASE Charger
  <2>1. liste_section' = <<>> /\ liste_section = <<>> /\ pc = "ouverture"
    BY <1>2 DEF Charger, Deroulement
  <2>2. new_header'.e_shnum = new_header.e_shnum /\ pc' = "sect1"
    BY <1>2 DEF Charger, TypeOK
  <2> QED
    BY <2>1, <2>2 DEF Compte
<1>3. CASE FusionnerSection \/ FusionnerHorsTable \/ EcraserEntete
              \/ PoserSection1 \/ PoserSection2 \/ EcrireSymtab
  <2>1. /\ pc \in {"sect1", "sect2", "symtab"}
        /\ UneSectionDePlus
    BY <1>3 DEF FusionnerSection, FusionnerHorsTable, EcraserEntete, HorsTable,
                PoserSection1, PoserSection2, DansSect1, DansSect2, EcrireSymtab,
                cont_sect, put_sect
  <2> QED
    BY <1>3, <2>1, EcritureUneSection, CompteSection DEF Ecriture
<1>4. CASE IgnorerSection1 \/ IgnorerSection2
  BY <1>4, CompteRien DEF IgnorerSection1, IgnorerSection2, Parties
<1>5. CASE FinSections1
  BY <1>5, CompteRien DEF FinSections1
<1>6. CASE ChargerSymboles
  BY <1>6, CompteRien DEF ChargerSymboles
<1>7. CASE Concatener
  BY <1>7, CompteRien DEF Concatener, varsFus, Parties
<1>8. CASE FinSymboles
  BY <1>8, CompteRien DEF FinSymboles
<1>9. CASE EcrireStrtab
  <2>1. /\ pc = "strtab" /\ pc' = "shstrtab"
        /\ new_header'.e_shnum = new_header.e_shnum + 1
        /\ new_header'.e_shstrndx = Len(liste_section')
    BY <1>9 DEF EcrireStrtab, IndiceShstrtab
  <2>2. new_header.e_shnum = Len(liste_section)
    BY <2>1 DEF Compte
  <2>3. Len(liste_section') = Len(liste_section) + 1
    BY <1>9, EcritureUneSection, UneDePlus DEF Ecriture
  <2> QED
    BY <2>1, <2>2, <2>3 DEF Compte
<1>10. CASE EcrireShstrtab
  BY <1>10, CompteShstrtab
<1>11. CASE EcrireEntetes
  <2>1. /\ pc = "entetes" /\ pc' = "header"
        /\ UNCHANGED <<offset, table, liste_section, new_header>>
    BY <1>11 DEF EcrireEntetes
  <2>2. \E b \in Parties' : /\ b.quoi = "entetes" /\ b.at = offset
                            /\ b.len = TailleShdr * Len(liste_section)
    BY <1>11, PartieEntetes
  <2> QED
    BY <2>1, <2>2 DEF Compte
<1>12. CASE EcrireHeader
  <2>1. /\ pc = "header" /\ pc' = "fin"
        /\ UNCHANGED <<offset, table, liste_section>>
        /\ new_header'.e_shnum = new_header.e_shnum + 1
        /\ new_header'.e_shstrndx = new_header.e_shstrndx
        /\ new_header'.e_shoff = offset
    BY <1>12 DEF EcrireHeader
  <2>2. Parties \subseteq Parties'
    BY <1>12, PartieHeader
  <2> QED
    BY <2>1, <2>2 DEF Compte
<1>13. CASE UNCHANGED vars
  BY <1>13, CompteRien DEF vars, varsFus, Parties
<1> QED
  BY <1>1, <1>2, <1>3, <1>4, <1>5, <1>6, <1>7, <1>8, <1>9, <1>10, <1>11,
     <1>12, <1>13 DEF Next

\* The header that closes the result counts its sections, leads to the whole
\* table of their headers and, by e_shstrndx, to the table of their names.
THEOREM EnteteFusion == Spec => []EnteteCoherent
<1>1. Init => TypeOK /\ Deroulement /\ Compte
  BY TypageInit, DeroulementInit, CompteInit
<1>2. TypeOK /\ Deroulement /\ Compte /\ [Next]_vars
        => (TypeOK /\ Deroulement /\ Compte)'
  BY TypageNext, DeroulementNext, CompteNext
<1>3. Compte => EnteteCoherent
  BY DEF Compte, EnteteCoherent
<1> QED
  BY <1>1, <1>2, <1>3, PTL DEF Spec

-----------------------------------------------------------------------------
(* The place of each part.                                                 *)

\* Where every part lies, without their order.
Placee(b, fin) ==
  /\ b.len > 0 /\ b.at + b.len <= fin
  /\ b.quoi # "ehdr" => b.at >= TailleEhdr

Disjoints(b, c) == b.at + b.len <= c.at \/ c.at + c.len <= b.at

\* A part added after or before all the others.
LEMMA PartieSeparee ==
  ASSUME NEW f \in Seq(Partie), NEW b \in Partie,
         \A p, q \in DOMAIN f : p # q => Disjoints(f[p], f[q]),
         \A p \in DOMAIN f : Disjoints(b, f[p]),
         NEW g, g = Append(f, b)
  PROVE  \A p, q \in DOMAIN g : p # q => Disjoints(g[p], g[q])
<1>1. /\ DOMAIN g = DOMAIN f \cup {Len(f) + 1}
      /\ \A p \in DOMAIN f : g[p] = f[p]
      /\ g[Len(f) + 1] = b
  BY PartieDePlus
<1>2. \A x, y : Disjoints(x, y) => Disjoints(y, x)
  BY DEF Disjoints
<1> SUFFICES ASSUME NEW p \in DOMAIN g, NEW q \in DOMAIN g, p # q
             PROVE  Disjoints(g[p], g[q])
  OBVIOUS
<1>3. CASE p \in DOMAIN f /\ q \in DOMAIN f
  BY <1>1, <1>3
<1>4. CASE p = Len(f) + 1
  <2>1. q \in DOMAIN f
    BY <1>1, <1>4
  <2> QED
    BY <1>1, <1>4, <2>1
<1>5. CASE q = Len(f) + 1
  <2>1. p \in DOMAIN f
    BY <1>1, <1>5
  <2> QED
    BY <1>1, <1>2, <1>5, <2>1
<1> QED
  BY <1>1, <1>3, <1>4, <1>5

LEMMA DispositionEquivalente ==
  Disposition <=>
    /\ offset >= TailleEhdr
    /\ \A b \in Parties : Placee(b, Limite)
    /\ \A b \in Parties : b.quoi = "ehdr" => pc = "fin"
    /\ \A p, q \in DOMAIN fres : p # q => Disjoints(fres[p], fres[q])
    /\ \A b \in Parties : b.at < TailleEhdr => b.quoi = "ehdr"
BY DEF Disposition, PartiesSeparees, Placee, Disjoints

\* A part that starts at the end of the file.
LEMMA PartieALaFin ==
  ASSUME TypeOK, Disposition, NEW b \in Partie, b.len > 0, b.at = Limite,
         fres' = Append(fres, b), Parties' = Parties \cup {b},
         pc # "fin", pc' # "fin", b.quoi # "ehdr", Limite = offset,
         Limite' = b.at + b.len, offset' \in Nat, offset' >= offset
  PROVE  Disposition'
<1>1. /\ fres \in Seq(Partie) /\ Parties \subseteq Partie
      /\ offset \in Nat /\ TailleEhdr \in Nat
      /\ \A c \in Partie : c.at \in Nat /\ c.len \in Nat
      /\ \A p \in DOMAIN fres : fres[p] \in Parties
  <2>1. fres \in Seq(Partie) /\ offset \in Nat /\ TailleEhdr \in Nat
    BY TaillesAssumption DEF TypeOK
  <2>2. \A c \in Partie : c.at \in Nat /\ c.len \in Nat
    BY DEF Partie
  <2>3. \A p \in DOMAIN fres : fres[p] \in Partie
    BY <2>1, ElementOfSeq, LenProperties
  <2> QED
    BY <2>1, <2>2, <2>3 DEF Parties
<1>2. /\ offset >= TailleEhdr
      /\ \A c \in Parties : Placee(c, Limite)
      /\ \A c \in Parties : c.quoi # "ehdr"
      /\ \A p, q \in DOMAIN fres : p # q => Disjoints(fres[p], fres[q])
      /\ \A c \in Parties : c.at >= TailleEhdr
  BY DispositionEquivalente DEF Placee
<1>3. Placee(b, Limite')
  BY <1>1, <1>2 DEF Placee
<1>4. \A c \in Parties : Placee(c, Limite')
  BY <1>1, <1>2 DEF Placee
<1>5. \A p \in DOMAIN fres : Disjoints(b, fres[p])
  BY <1>1, <1>2 DEF Placee, Disjoints
<1>6. \A p, q \in DOMAIN fres' : p # q => Disjoints(fres'[p], fres'[q])
  BY <1>1, <1>2, <1>5, PartieSeparee
<1>7. b.at >= TailleEhdr /\ offset' >= TailleEhdr
  BY <1>1, <1>2
<1> QED
  <2>1. /\ offset' >= TailleEhdr
        /\ \A c \in Parties' : Placee(c, Limite')
        /\ \A c \in Parties' : c.quoi # "ehdr" /\ c.at >= TailleEhdr
        /\ \A p, q \in DOMAIN fres' : p # q => Disjoints(fres'[p], fres'[q])
    BY <1>2, <1>3, <1>4, <1>6, <1>7
  <2>2. \A c \in Parties' : ~(c.at < TailleEhdr)
    BY <1>1, <2>1
  <2> QED
    BY <2>1, <2>2 DEF Disposition, PartiesSeparees, Placee, Disjoints

LEMMA DispositionInit == Init => Disposition
<1> SUFFICES ASSUME NEW f \in Fichier, NEW g \in Fichier, NEW p \in SUBSET {1, 2},
                    InitFus(f, g, p)
             PROVE  Disposition
  BY DEF Init
<1>1. /\ fres = <<>> /\ Parties = {} /\ offset = TailleEhdr /\ DOMAIN fres = {}
  BY DEF InitFus, Parties
<1>2. offset >= TailleEhdr
  BY <1>1, TaillesAssumption
<1> QED
  BY <1>1, <1>2 DEF Disposition, PartiesSeparees

\* A section added goes to the end of the file; an empty one adds nothing.
LEMMA DispositionSection ==
  ASSUME TypeOK, Disposition, UneSection
  PROVE  Disposition'
<1>1. PICK h \in Header, nom \in Noms, contenu \in Seq(Segments) :
         Ecrit(h, nom, contenu)
  BY DEF UneSection
<1>2. /\ pc \notin {"header", "fin"} /\ pc' \notin {"header", "fin"}
      /\ Limite = offset /\ Limite' = offset'
  BY DEF UneSection, Limite
<1>3. /\ offset' = offset + h.sh_size /\ offset \in Nat /\ h.sh_size \in Nat
      /\ h.quoi # "ehdr"
  BY <1>1, EcritEffet DEF TypeOK, Header, Ecrit
<1>4. CASE h.sh_size = 0
  <2>1. fres' = fres /\ offset' = offset
    <3>1. fres' = fres
      BY <1>1, <1>4, EcritEffet
    <3>2. offset' = offset
      BY <1>3, <1>4
    <3> QED
      BY <3>1, <3>2
  <2>2. Limite' = Limite /\ Parties' = Parties
    BY <1>2, <2>1 DEF Parties
  <2> QED
    BY <1>2, <2>1, <2>2 DEF Disposition, PartiesSeparees
<1>5. CASE h.sh_size # 0
  <2> DEFINE b == [at |-> offset, len |-> h.sh_size, quoi |-> h.quoi,
                   contenu |-> contenu]
  <2>1. /\ b \in Partie /\ Parties' = Parties \cup {b} /\ fres' = Append(fres, b)
    BY <1>1, <1>5, PartieEcrite, EcritEffet
  <2>2. /\ b.at = offset /\ b.len = h.sh_size /\ b.quoi # "ehdr"
    BY <1>3
  <2> HIDE DEF b
  <2>3. /\ b.len > 0 /\ b.at = Limite /\ Limite' = b.at + b.len
        /\ offset' \in Nat /\ offset' >= offset
    BY <1>2, <1>3, <1>5, <2>2
  <2> QED
    BY <1>2, <2>1, <2>2, <2>3, PartieALaFin
<1> QED
  BY <1>4, <1>5

LEMMA DispositionEntetes ==
  ASSUME TypeOK, Compte, Disposition, EcrireEntetes
  PROVE  Disposition'
<1> DEFINE b == [at |-> offset, len |-> TailleShdr * Len(liste_section),
                 quoi |-> "entetes", contenu |-> <<>>]
<1>1. /\ b \in Partie /\ b.len > 0
      /\ fres' = Append(fres, b) /\ Parties' = Parties \cup {b}
  BY PartieEntetes
<1>2. /\ b.at = offset /\ b.len = TailleShdr * Len(liste_section)
      /\ b.quoi = "entetes"
  OBVIOUS
<1> HIDE DEF b
<1>3. /\ pc = "entetes" /\ pc' = "header"
      /\ UNCHANGED <<offset, liste_section>>
  BY DEF EcrireEntetes
<1>4. Limite = offset /\ Limite' = b.at + b.len
  BY <1>2, <1>3 DEF Limite
<1>5. b.quoi # "ehdr" /\ offset \in Nat /\ offset' \in Nat /\ offset' >= offset
  BY <1>2, <1>3 DEF TypeOK
<1> QED
  BY <1>1, <1>2, <1>3, <1>4, <1>5, PartieALaFin

\* The ELF header goes to the space kept for it.
LEMMA DispositionHeader ==
  ASSUME TypeOK, Disposition, EcrireHeader
  PROVE  Disposition'
<1> DEFINE b == [at |-> 0, len |-> TailleEhdr, quoi |-> "ehdr",
                 contenu |-> <<>>]
<1>1. /\ b \in Partie /\ b.len > 0
      /\ fres' = Append(fres, b) /\ Parties' = Parties \cup {b}
  BY PartieHeader
<1>2. b.at = 0 /\ b.len = TailleEhdr /\ b.quoi = "ehdr"
  OBVIOUS
<1> HIDE DEF b
<1>3. /\ pc = "header" /\ pc' = "fin"
      /\ UNCHANGED <<offset, liste_section>>
  BY DEF EcrireHeader
<1>4. Limite' = Limite
  BY <1>3 DEF Limite
<1>5. /\ fres \in Seq(Partie) /\ Parties \subseteq Partie
      /\ offset \in Nat /\ TailleEhdr \in Nat
      /\ \A c \in Partie : c.at \in Nat /\ c.len \in Nat
      /\ \A p \in DOMAIN fres : fres[p] \in Parties
  <2>1. fres \in Seq(Partie) /\ offset \in Nat /\ TailleEhdr \in Nat
    BY TaillesAssumption DEF TypeOK
  <2>2. \A c \in Partie : c.at \in Nat /\ c.len \in Nat
    BY DEF Partie
  <2>3. \A p \in DOMAIN fres : fres[p] \in Partie
    BY <2>1, ElementOfSeq, LenProperties
  <2> QED
    BY <2>1, <2>2, <2>3 DEF Parties
<1>6. /\ offset >= TailleEhdr
      /\ \A c \in Parties : Placee(c, Limite)
      /\ \A c \in Parties : c.quoi # "ehdr"
      /\ \A p, q \in DOMAIN fres : p # q => Disjoints(fres[p], fres[q])
      /\ \A c \in Parties : c.at >= TailleEhdr
  BY <1>3, DispositionEquivalente DEF Placee
<1>7. \A p \in DOMAIN fres : Disjoints(b, fres[p])
  BY <1>2, <1>5, <1>6 DEF Disjoints
<1>8. \A p, q \in DOMAIN fres' : p # q => Disjoints(fres'[p], fres'[q])
  BY <1>1, <1>5, <1>6, <1>7, PartieSeparee
<1>9. Limite >= TailleEhdr
  <2>1. TailleShdr * Len(liste_section) \in Nat
    BY TaillesAssumption, LenProperties DEF TypeOK
  <2> QED
    BY <1>5, <1>6, <2>1 DEF Limite
<1>10. Limite \in Nat
  <2>1. TailleShdr * Len(liste_section) \in Nat
    BY TaillesAssumption, LenProperties DEF TypeOK
  <2> QED
    BY <1>5, <2>1 DEF Limite
<1>11. Placee(b, Limite)
  BY <1>1, <1>2, <1>5, <1>9, <1>10 DEF Placee
<1>12. \A c \in Parties' : Placee(c, Limite')
  BY <1>1, <1>4, <1>6, <1>11
<1>13. \A c \in Parties' : c.at < TailleEhdr => c.quoi = "ehdr"
  BY <1>1, <1>2, <1>5, <1>6
<1> QED
  BY <1>3, <1>6, <1>8, <1>12, <1>13 DEF Disposition, PartiesSeparees, Placee, Disjoints

\* The actions that write nothing to the file.
LEMMA SansEcriture ==
  ASSUME TypeOK, [Next]_vars, ~Ecriture, ~EcrireEntetes, ~EcrireHeader
  PROVE  /\ UNCHANGED <<offset, fres, liste_section>>
         /\ pc \in {"header", "fin"} \/ pc' \in {"header", "fin"} => pc' = pc
<1> USE DEF SectionSuivante
<1>1. CASE SourceAbsente \/ HorsTableFatal \/ SymtabFatale \/ DebordementNoms
  BY <1>1, AEcrire DEF SourceAbsente, HorsTableFatal, SymtabFatale, HorsTable, DansSect1
<1>2. CASE Charger \/ IgnorerSection1 \/ IgnorerSection2
  BY <1>2 DEF Charger, IgnorerSection1, IgnorerSection2
<1>3. CASE FinSections1 \/ ChargerSymboles \/ FinSymboles
  BY <1>3 DEF FinSections1, ChargerSymboles, FinSymboles
<1>4. CASE Concatener \/ UNCHANGED vars
  BY <1>4 DEF Concatener, vars, varsFus
<1> QED
  BY <1>1, <1>2, <1>3, <1>4 DEF Next, Ecriture

LEMMA DispositionNext ==
  ASSUME TypeOK, Compte, Disposition, [Next]_vars
  PROVE  Disposition'
<1>1. CASE Ecriture
  BY <1>1, EcritureUneSection, DispositionSection
<1>2. CASE EcrireEntetes
  BY <1>2, DispositionEntetes
<1>3. CASE EcrireHeader
  BY <1>3, DispositionHeader
<1>4. CASE ~Ecriture /\ ~EcrireEntetes /\ ~EcrireHeader
  <2>1. /\ UNCHANGED <<offset, fres, liste_section>>
        /\ pc \in {"header", "fin"} \/ pc' \in {"header", "fin"} => pc' = pc
    BY <1>4, SansEcriture
  <2>2. Limite' = Limite /\ Parties' = Parties
    BY <2>1 DEF Limite, Parties
  <2>3. (\A b \in Parties : b.quoi = "ehdr" => pc = "fin")
          => \A b \in Parties : b.quoi = "ehdr" => pc' = "fin"
    BY <2>1
  <2> QED
    BY <2>1, <2>2, <2>3 DEF Disposition, PartiesSeparees
<1> QED
  BY <1>1, <1>2, <1>3, <1>4

\* Nothing written to the result covers what was written before, and the space
\* kept at the front holds the ELF header alone.
THEOREM DispositionFusion == Spec => []PartiesSeparees
<1>1. Init => TypeOK /\ Deroulement /\ Compte /\ Disposition
  BY TypageInit, DeroulementInit, CompteInit, DispositionInit
<1>2. TypeOK /\ Deroulement /\ Compte /\ Disposition /\ [Next]_vars
        => (TypeOK /\ Deroulement /\ Compte /\ Disposition)'
  BY TypageNext, DeroulementNext, CompteNext, DispositionNext
<1>3. Disposition => PartiesSeparees
  BY DEF Disposition
<1> QED
  BY <1>1, <1>2, <1>3, PTL DEF Spec

-----------------------------------------------------------------------------
(* The refinement of EcritureElf.                                          *)

LEMMA BlocDePlus ==
  ASSUME NEW b, Parties' = Parties \cup {b}
  PROVE  Blocs' = Blocs \cup {[at |-> b.at, len |-> b.len]}
BY DEF Blocs

LEMMA EcritElfInit == Init => Elf!Init
<1> SUFFICES ASSUME NEW f \in Fichier, NEW g \in Fichier, NEW p \in SUBSET {1, 2},
                    InitFus(f, g, p)
             PROVE  Elf!Init
  BY DEF Init
<1>1. Parties = {} /\ pc = "ouverture" /\ offset = TailleEhdr
  BY DEF InitFus, Parties
<1> QED
  BY <1>1 DEF Elf!Init, Blocs, Limite, EtatFichier

\* A section added extends the file, or leaves it alone when it is empty.
LEMMA EcritElfSection ==
  ASSUME TypeOK, Deroulement, UneSection
  PROVE  [Elf!Next]_Elf!vars
<1>1. PICK h \in Header, nom \in Noms, contenu \in Seq(Segments) :
         Ecrit(h, nom, contenu)
  BY DEF UneSection
<1>2. /\ pc \in {"sect1", "sect2", "symtab", "strtab", "shstrtab"}
      /\ pc' \in {"sect1", "sect2", "strtab", "shstrtab", "entetes"}
      /\ boucle' = boucle /\ boucle # "avorte"
  BY DEF UneSection, Deroulement, varsSymb
<1>3. /\ EtatFichier = "ecriture" /\ EtatFichier' = "ecriture"
      /\ Limite = offset /\ Limite' = offset'
  BY <1>2 DEF EtatFichier, Limite
<1>4. offset' = offset + h.sh_size /\ offset \in Nat /\ h.sh_size \in Nat
  BY <1>1, EcritEffet DEF TypeOK, Header
<1>5. CASE h.sh_size = 0
  <2>1. Parties' = Parties
    BY <1>1, <1>5, PartieEcrite
  <2>2. Limite' = Limite
    BY <1>3, <1>4, <1>5
  <2> QED
    BY <1>3, <2>1, <2>2 DEF Elf!vars, Blocs
<1>6. CASE h.sh_size # 0
  <2> DEFINE b == [at |-> offset, len |-> h.sh_size, quoi |-> h.quoi,
                   contenu |-> contenu]
  <2>1. Parties' = Parties \cup {b} /\ b.at = offset /\ b.len = h.sh_size
    BY <1>1, <1>6, PartieEcrite
  <2> HIDE DEF b
  <2>2. /\ Limite' \in Nat /\ Limite' > Limite
        /\ b.at = Limite /\ b.len = Limite' - Limite
    BY <1>3, <1>4, <1>6, <2>1
  <2>3. Blocs' = Blocs \cup {[at |-> Limite, len |-> Limite' - Limite]}
    BY <2>1, <2>2, BlocDePlus
  <2> QED
    BY <1>3, <2>2, <2>3 DEF Elf!Next, Elf!Etendre
<1> QED
  BY <1>5, <1>6

\* The section table extends the file; the header closes it once the table is
\* at its end.
LEMMA EcritElfEntetes ==
  ASSUME TypeOK, Deroulement, Compte, EcrireEntetes
  PROVE  Elf!Etendre
<1> DEFINE b == [at |-> offset, len |-> TailleShdr * Len(liste_section),
                 quoi |-> "entetes", contenu |-> <<>>]
<1>1. b \in Partie /\ b.len > 0 /\ Parties' = Parties \cup {b}
  BY PartieEntetes
<1>2. b.at = offset /\ b.len = TailleShdr * Len(liste_section)
  OBVIOUS
<1> HIDE DEF b
<1>3. /\ pc = "entetes" /\ pc' = "header"
      /\ UNCHANGED <<offset, liste_section, boucle>>
      /\ boucle # "avorte" /\ offset \in Nat /\ b.len \in Nat
  BY <1>1 DEF EcrireEntetes, Deroulement, varsSymb, TypeOK, Partie
<1>4. /\ EtatFichier = "ecriture" /\ EtatFichier' = "ecriture"
      /\ Limite = offset /\ Limite' = offset + b.len
  BY <1>2, <1>3 DEF EtatFichier, Limite
<1>5. /\ Limite' \in Nat /\ Limite' > Limite
      /\ b.at = Limite /\ b.len = Limite' - Limite
  BY <1>1, <1>2, <1>3, <1>4
<1>6. Blocs' = Blocs \cup {[at |-> Limite, len |-> Limite' - Limite]}
  BY <1>1, <1>5, BlocDePlus
<1> QED
  BY <1>4, <1>5, <1>6 DEF Elf!Etendre

LEMMA EcritElfHeader ==
  ASSUME TypeOK, Deroulement, Compte, EcrireHeader
  PROVE  Elf!Clore
<1> DEFINE b == [at |-> 0, len |-> TailleEhdr, quoi |-> "ehdr",
                 contenu |-> <<>>]
<1>1. Parties' = Parties \cup {b} /\ b.at = 0 /\ b.len = TailleEhdr
  BY PartieHeader
<1> HIDE DEF b
<1>2. Blocs' = Blocs \cup {[at |-> 0, len |-> TailleEhdr]}
  BY <1>1, BlocDePlus
<1>3. /\ pc = "header" /\ pc' = "fin" /\ boucle # "avorte"
      /\ UNCHANGED <<offset, liste_section>>
  BY DEF EcrireHeader, Deroulement
<1>4. /\ EtatFichier = "ecriture" /\ EtatFichier' = "clos"
      /\ Limite = offset + TailleShdr * Len(liste_section) /\ Limite' = Limite
  BY <1>3 DEF EtatFichier, Limite
<1>5. PICK t \in Parties : t.at = offset /\ t.len = TailleShdr * Len(liste_section)
  BY <1>3 DEF Compte
<1>6. \E c \in Blocs : c.at + c.len = Limite
  <2>1. [at |-> t.at, len |-> t.len] \in Blocs
    BY DEF Blocs
  <2> QED
    BY <1>4, <1>5, <2>1
<1> QED
  BY <1>2, <1>4, <1>6 DEF Elf!Clore

\* The other steps open the file, give it up or leave it alone.
LEMMA EcritElfReste ==
  ASSUME TypeOK, Deroulement, [Next]_vars, ~Ecriture, ~EcrireEntetes, ~EcrireHeader
  PROVE  [Elf!Next]_Elf!vars
<1>1. Blocs' = Blocs /\ Limite' = Limite
  BY SansEcriture DEF Blocs, Parties, Limite
<1>2. CASE SourceAbsente
  BY <1>1, <1>2 DEF SourceAbsente, EtatFichier, Elf!Next, Elf!Abandonner
<1>3. CASE Charger
  <2>1. EtatFichier = "vide" /\ EtatFichier' = "ecriture"
    BY <1>3 DEF Charger, EtatFichier, Deroulement, varsSymb
  <2> QED
    BY <1>1, <2>1 DEF Elf!Next, Elf!Ouvrir
<1>4. CASE HorsTableFatal \/ SymtabFatale \/ DebordementNoms
  <2>1. EtatFichier = "ecriture" /\ EtatFichier' = "abandonne"
    BY <1>4, AEcrire
       DEF HorsTableFatal, HorsTable, SymtabFatale, DansSect1, EtatFichier, Deroulement
  <2> QED
    BY <1>1, <2>1 DEF Elf!Next, Elf!Abandonner
<1>5. CASE Concatener
  <2>1. /\ EtatFichier \in {"ecriture", "abandonne"}
        /\ \/ EtatFichier' = EtatFichier
           \/ EtatFichier = "ecriture" /\ EtatFichier' = "abandonne"
    <3>1. pc = "symboles" /\ pc' = "symboles" /\ boucle # "avorte"
      BY <1>5 DEF Concatener, varsFus, NextSymb, NouvelleEntree, EntreeMarquee,
                  ErreurFusion, PasserTable2, AjouterSymbole2, SauterSymbole2,
                  FinConcat, DebordementFatal, Boucle1, Boucle2
    <3> QED
      BY <3>1 DEF EtatFichier
  <2> QED
    BY <1>1, <2>1 DEF Elf!Next, Elf!Abandonner, Elf!vars
<1>6. CASE IgnorerSection1 \/ IgnorerSection2 \/ UNCHANGED vars
  <2>1. EtatFichier' = EtatFichier
    BY <1>6 DEF IgnorerSection1, IgnorerSection2, SectionSuivante, EtatFichier,
                varsSymb, vars, varsFus
  <2> QED
    BY <1>1, <2>1 DEF Elf!vars
<1>7. CASE FinSections1 \/ ChargerSymboles \/ FinSymboles
  <2>1. EtatFichier' = EtatFichier
    BY <1>7 DEF FinSections1, ChargerSymboles, FinSymboles, EtatFichier,
                varsSymb, Deroulement
  <2> QED
    BY <1>1, <2>1 DEF Elf!vars
<1> QED
  BY <1>2, <1>3, <1>4, <1>5, <1>6, <1>7 DEF Next, Ecriture

\* main_fus writes its result as EcritureElf says: one block after the other,
\* the header last, when the section table is at the end of the file.
THEOREM FusionEcritElf == Spec => EcritElf
<1>1. Init => TypeOK /\ Deroulement /\ Compte
  BY TypageInit, DeroulementInit, CompteInit
<1>2. TypeOK /\ Deroulement /\ Compte /\ [Next]_vars
        => (TypeOK /\ Deroulement /\ Compte)'
  BY TypageNext, DeroulementNext, CompteNext
<1>3. Init => Elf!Init
  BY EcritElfInit
<1>4. TypeOK /\ Deroulement /\ Compte /\ [Next]_vars => [Elf!Next]_Elf!vars
  <2> SUFFICES ASSUME TypeOK, Deroulement, Compte, [Next]_vars
               PROVE  [Elf!Next]_Elf!vars
    OBVIOUS
  <2>1. CASE Ecriture
    BY <2>1, EcritureUneSection, EcritElfSection
  <2>2. CASE EcrireEntetes
    BY <2>2, EcritElfEntetes DEF Elf!Next
  <2>3. CASE EcrireHeader
    BY <2>3, EcritElfHeader DEF Elf!Next
  <2>4. CASE ~Ecriture /\ ~EcrireEntetes /\ ~EcrireHeader
    BY <2>4, EcritElfReste
  <2> QED
    BY <2>1, <2>2, <2>3, <2>4
<1> QED
  BY <1>1, <1>2, <1>3, <1>4, PTL DEF Spec, EcritElf, Elf!Spec

-----------------------------------------------------------------------------
(* The steps of main_fus by what they do to the list of headers.           *)

\* An iteration that adds the header h of section i of source 1, or 2.
DeSource1(h) ==
  /\ pc = "sect1" /\ i \in Sections(source1)
  /\ h.src = 1 /\ h.avec = AvecQui(i)
  /\ Fusionnee(i) \/ Copiee(i)
  /\ \A v \in Sections(source2) :
       tab_bool'[v] = IF v = h.avec THEN 1 ELSE tab_bool[v]

DeSource2(h) ==
  /\ pc = "sect2" /\ i \in Sections(source2)
  /\ h.src = 2 /\ h.avec = -1
  /\ tab_bool[i] = 0 /\ tab_bool' = tab_bool

SectionAjoutee(h) ==
  /\ h.quoi = "section" /\ h.idx = i
  /\ liste_section' = Append(liste_section, h)
  /\ i' = i + 1 /\ pc' = pc
  /\ DeSource1(h) \/ DeSource2(h)

\* An iteration that adds nothing.
SectionIgnoree ==
  /\ UNCHANGED <<liste_section, tab_bool, pc>> /\ i' = i + 1
  /\ \/ pc = "sect1" /\ i \in Sections(source1) \ APorter(source1)
     \/ pc = "sect2" /\ i \in Sections(source2) /\ ~Restante(i)

\* A table is added after the loops.
TableAjoutee(h) ==
  /\ h.quoi # "section"
  /\ liste_section' = Append(liste_section, h)
  /\ UNCHANGED <<i, tab_bool>>
  /\ pc \in {"symtab", "strtab", "shstrtab"}
  /\ pc' \in {"strtab", "shstrtab", "entetes"}

\* The list stays as it is and no section is passed.
ListeInchangee ==
  /\ UNCHANGED <<liste_section, tab_bool>>
  /\ \/ pc = "ouverture" /\ pc' = "exit"
     \/ pc' = "avorte"
     \/ pc = "sect1" /\ i >= e_shnum(source1) /\ pc' = "sect2" /\ i' = 0
     \/ pc = "sect2" /\ i >= e_shnum(source2) /\ pc' = "symboles"
     \/ UNCHANGED <<pc, i>>
     \/ /\ pc \in {"symboles", "symtab", "strtab", "shstrtab", "entetes", "header"}
        /\ pc' \in {"symtab", "strtab", "shstrtab", "entetes", "header", "fin"}

\* The files stay what they are, but for a header of source 2 overwritten; the
\* number of sections of source 2 does not change then.
MemesTables ==
  /\ source1' = source1 /\ Sections(source2)' = Sections(source2)
  /\ altere' \/ (~altere /\ source2' = source2)

LEMMA TablesSuivies ==
  ASSUME TypeOK, Next
  PROVE  MemesTables
<1>1. MemesFichiers
  BY Classement
<1>2. CASE UNCHANGED <<source2, altere>>
  BY <1>1, <1>2 DEF MemesFichiers, MemesTables, Sections, e_shnum, TypeOK
<1>3. CASE EcraserEntete /\ altere'
  BY <1>1, <1>3, EcraserType DEF MemesFichiers, MemesTables
<1> QED
  BY <1>1, <1>2, <1>3 DEF MemesFichiers

LEMMA IndiceDeFusion ==
  ASSUME TypeOK, NEW v \in Sections(source1)
  PROVE  LET w == search_same_name(sect_head(source1, v).nom, source1)
         IN  /\ w \in Sections(source1) /\ w \in Nat
             /\ sect_head(source1, w).nom = sect_head(source1, v).nom
<1>1. source1 \in Fichier
  BY DEF TypeOK
<1>2. v \in AvecNom(source1, sect_head(source1, v).nom)
  BY DEF AvecNom
<1> QED
  BY <1>1, <1>2, IndiceTrouve, Bornes

LEMMA EntetePose ==
  ASSUME NEW quoi, NEW at, NEW size, NEW src, NEW idx, NEW avec
  PROVE  LET h == Entete(quoi, at, size, src, idx, avec)
         IN  h.quoi = quoi /\ h.src = src /\ h.idx = idx /\ h.avec = avec
BY DEF Entete

LEMMA FusionAjoute ==
  ASSUME TypeOK, FusionnerSection \/ FusionnerHorsTable \/ EcraserEntete
  PROVE  \E h \in Header : SectionAjoutee(h)
<1> DEFINE w == IndiceFusion
<1>1. /\ pc = "sect1" /\ i \in Sections(source1) /\ Fusionnee(i)
      /\ i' = i + 1 /\ pc' = pc /\ i \in Nat
  <2>1. i \in Nat /\ source1 \in Fichier
    BY DEF TypeOK
  <2>2. DansSect1 /\ Fusionnee(i) /\ i' = i + 1 /\ pc' = pc
    BY DEF FusionnerSection, FusionnerHorsTable, EcraserEntete, HorsTable, SectionSuivante
  <2> QED
    BY <2>1, <2>2, Bornes DEF DansSect1, Sections
<1>2. w \in Nat /\ w = AvecQui(i)
  BY <1>1, IndiceDeFusion DEF IndiceFusion, AvecQui
<1>3. PICK size \in Nat : cont_sect(i, w, size)
  <2>1. w \in Sections(source2) => sect_head(source2, w).size \in Nat
    BY Bornes DEF TypeOK, Section
  <2> QED
    BY <2>1, TaillesAssumption DEF FusionnerSection, FusionnerHorsTable, EcraserEntete
<1>4. \A v \in Sections(source2) :
        tab_bool'[v] = IF v = w THEN 1 ELSE tab_bool[v]
  <2>1. tab_bool \in [Sections(source2) -> {0, 1}]
    BY <1>1 DEF TypeOK
  <2> QED
    BY <2>1 DEF FusionnerSection, FusionnerHorsTable, EcraserEntete, HorsTable, Traitee
<1> DEFINE s == sect_head(source1, i)
           h == Entete("section", offset, s.size + size, 1, i, w)
<1>5. h.quoi = "section" /\ h.src = 1 /\ h.idx = i /\ h.avec = w
  BY EntetePose
<1>6. h \in Header
  <2>1. s.size \in Nat
    BY <1>1, Bornes DEF TypeOK, Section
  <2>2. /\ offset \in Nat /\ s.size + size \in Nat /\ "section" \in Quoi
        /\ 1 \in {1, 2} /\ w \in Nat \cup {-1}
    BY <1>2, <1>3, <2>1 DEF Quoi, TypeOK
  <2> QED
    BY <1>1, <2>2, EnteteType
<1>7. liste_section' = Append(liste_section, h)
  BY <1>3 DEF cont_sect, Ajouter_S, Inserer
<1> HIDE DEF h, w
<1>8. SectionAjoutee(h)
  BY <1>1, <1>2, <1>4, <1>5, <1>7 DEF SectionAjoutee, DeSource1
<1> QED
  BY <1>6, <1>8

LEMMA PoseAjoute ==
  ASSUME TypeOK, PoserSection1 \/ PoserSection2
  PROVE  \E h \in Header : SectionAjoutee(h)
<1> DEFINE src == IF PoserSection1 THEN 1 ELSE 2
           f == Origine(src)
           s == sect_head(f, i)
           h == Entete("section", OffsetPose(s), s.size, src, i, -1)
<1>0. source1 \in Fichier /\ source2 \in Fichier /\ f \in Fichier
      /\ i \in Nat /\ offset \in Nat
  BY DEF TypeOK, Origine
<1>1. /\ i \in Sections(f) /\ put_sect(f, src, i) /\ src \in {1, 2}
      /\ i' = i + 1 /\ pc' = pc /\ tab_bool' = tab_bool
      /\ src = 1 => pc = "sect1" /\ f = source1 /\ Copiee(i)
      /\ src = 2 => pc = "sect2" /\ f = source2 /\ Restante(i)
  BY <1>0, Bornes DEF PoserSection1, PoserSection2, DansSect1, DansSect2,
                      SectionSuivante, Sections, Origine
<1> HIDE DEF src, f
<1>2. h.quoi = "section" /\ h.src = src /\ h.idx = i /\ h.avec = -1
  BY EntetePose
<1>3. h \in Header
  <2>1. s.size \in Nat /\ s.offset \in Nat
    BY <1>0, <1>1, Bornes DEF Section
  <2>2. OffsetPose(s) \in Nat /\ "section" \in Quoi
    BY <1>0, <2>1 DEF OffsetPose, Quoi
  <2> QED
    BY <1>0, <1>1, <2>1, <2>2, EnteteType
<1>4. liste_section' = Append(liste_section, h)
  BY <1>1 DEF put_sect, Ajouter_S, Inserer
<1> HIDE DEF h
<1>5. CASE src = 1
  <2>1. h.avec = AvecQui(i) /\ h.avec \notin Sections(source2)
    BY <1>0, <1>1, <1>2, <1>5, Bornes DEF AvecQui, Copiee
  <2>2. DeSource1(h)
    BY <1>1, <1>2, <1>5, <2>1 DEF DeSource1
  <2> QED
    BY <1>1, <1>2, <1>3, <1>4, <2>2 DEF SectionAjoutee
<1>6. CASE src = 2
  <2>1. DeSource2(h)
    BY <1>1, <1>2, <1>6 DEF DeSource2, Restante
  <2> QED
    BY <1>1, <1>2, <1>3, <1>4, <2>1 DEF SectionAjoutee
<1> QED
  BY <1>1, <1>5, <1>6

LEMMA EnteteDeTable ==
  ASSUME TypeOK, NEW quoi \in {"symtab", "strtab", "shstrtab"}, NEW size \in Nat,
         NEW idx \in Nat
  PROVE  /\ Entete(quoi, offset, size, 1, idx, -1) \in Header
         /\ Entete(quoi, offset, size, 1, idx, -1).quoi # "section"
<1>1. offset \in Nat /\ quoi \in Quoi
  BY DEF TypeOK, Quoi
<1>2. Entete(quoi, offset, size, 1, idx, -1) \in Header
  BY <1>1, EnteteType
<1> QED
  BY <1>2 DEF Entete

LEMMA TablesAjoutees ==
  ASSUME TypeOK, EcrireSymtab \/ EcrireStrtab \/ EcrireShstrtab
  PROVE  \E h \in Header : TableAjoutee(h)
<1> USE DEF Sources
<1>0. source1 \in Fichier
  BY DEF TypeOK
<1>1. CASE EcrireSymtab
  <2> DEFINE h == Entete("symtab", offset, TailleSym * Len(final_list_symb), 1, 0, -1)
  <2>1. TailleSym * Len(final_list_symb) \in Nat
    BY TaillesAssumption, LenProperties DEF TypeOK, TypeOKSymb
  <2>2. h \in Header /\ h.quoi # "section"
    BY <2>1, EnteteDeTable
  <2>3. liste_section' = Append(liste_section, h)
    BY <1>1 DEF EcrireSymtab, Ajouter_S, Inserer
  <2> HIDE DEF h
  <2> QED
    BY <1>1, <2>2, <2>3 DEF EcrireSymtab, TableAjoutee
<1>2. CASE EcrireStrtab
  <2> DEFINE v == IndiceStrtab(source1)
             h == Entete("strtab", offset, final_stringtable.val, 1, v, -1)
  <2>1. v \in Nat /\ final_stringtable.val \in Nat
    BY <1>0, StrtabTrouvee, Bornes DEF TypeOK, TypeOKSymb, TableString
  <2>2. h \in Header /\ h.quoi # "section"
    BY <2>1, EnteteDeTable
  <2>3. liste_section' = Append(liste_section, h)
    BY <1>2 DEF EcrireStrtab, new_string_sect, Ajouter_S, Inserer
  <2> HIDE DEF h
  <2> QED
    BY <1>2, <2>2, <2>3 DEF EcrireStrtab, TableAjoutee
<1>3. CASE EcrireShstrtab
  <2> DEFINE v == source1.strndx
             nom == sect_head(source1, v).nom
             h == Entete("shstrtab", offset, Apres(table, nom), 1, v, -1)
  <2>1. v \in Nat /\ nom \in Noms
    BY <1>0, Bornes DEF Section
  <2>2. Apres(table, nom) \in Nat
    BY <2>1, ApresType DEF TypeOK
  <2>3. h \in Header /\ h.quoi # "section"
    BY <2>1, <2>2, EnteteDeTable
  <2>4. liste_section' = Append(liste_section, h)
    BY <1>3 DEF EcrireShstrtab, new_string_sect, Ajouter_S, Inserer
  <2> HIDE DEF h
  <2> QED
    BY <1>3, <2>3, <2>4 DEF EcrireShstrtab, TableAjoutee
<1> QED
  BY <1>1, <1>2, <1>3

LEMMA ClassementSections ==
  ASSUME TypeOK, Next
  PROVE  /\ MemesTables
         /\ \/ Charger
            \/ \E h \in Header : SectionAjoutee(h)
            \/ SectionIgnoree
            \/ \E h \in Header : TableAjoutee(h)
            \/ ListeInchangee
<1> USE DEF SectionSuivante, Sources
<1>0. MemesTables /\ source1 \in Fichier /\ source2 \in Fichier /\ i \in Nat
  BY TablesSuivies DEF TypeOK
<1>1. CASE Charger
  BY <1>0, <1>1
<1>2. CASE FusionnerSection \/ FusionnerHorsTable \/ EcraserEntete
              \/ PoserSection1 \/ PoserSection2
  BY <1>0, <1>2, FusionAjoute, PoseAjoute
<1>3. CASE IgnorerSection1
  <2>1. i \in Sections(source1) \ APorter(source1)
    BY <1>0, <1>3, Bornes DEF IgnorerSection1, DansSect1, Copiee, Sections, APorter
  <2> QED
    BY <1>0, <1>3, <2>1 DEF IgnorerSection1, DansSect1, SectionIgnoree
<1>4. CASE IgnorerSection2
  <2>1. i \in Sections(source2)
    BY <1>0, <1>4, Bornes DEF IgnorerSection2, DansSect2, Sections
  <2> QED
    BY <1>0, <1>4, <2>1 DEF IgnorerSection2, DansSect2, SectionIgnoree
<1>5. CASE EcrireSymtab \/ EcrireStrtab \/ EcrireShstrtab
  BY <1>0, <1>5, TablesAjoutees
<1>6. CASE SourceAbsente \/ HorsTableFatal \/ FinSections1 \/ ChargerSymboles
             \/ Concatener \/ FinSymboles \/ SymtabFatale \/ EcrireEntetes \/ EcrireHeader
             \/ DebordementNoms
  <2>1. ListeInchangee
    BY <1>6, AEcrire DEF SourceAbsente, HorsTableFatal, FinSections1, ChargerSymboles,
         Concatener, FinSymboles, SymtabFatale, EcrireEntetes, EcrireHeader,
         varsFus, ListeInchangee
  <2> QED
    BY <1>0, <2>1
<1> QED
  BY <1>1, <1>2, <1>3, <1>4, <1>5, <1>6 DEF Next

\* The list after one more header.
LEMMA ListeAllongee ==
  ASSUME TypeOK, NEW h \in Header, liste_section' = Append(liste_section, h)
  PROVE  LET n == Len(liste_section)
         IN  /\ n \in Nat /\ Len(liste_section') = n + 1
             /\ DOMAIN liste_section = 1 .. n /\ DOMAIN liste_section' = 1 .. n + 1
             /\ \A p \in 1 .. n : liste_section'[p] = liste_section[p]
             /\ liste_section'[n + 1] = h
             /\ Entetes' = Entetes \cup {h}
<1> DEFINE l == liste_section
<1>1. l \in Seq(Header)
  BY DEF TypeOK
<1>2. /\ DOMAIN l = 1 .. Len(l) /\ Len(l) \in Nat /\ Len(l') = Len(l) + 1
      /\ DOMAIN l' = 1 .. Len(l) + 1
      /\ \A p \in 1 .. Len(l) : l'[p] = l[p]
      /\ l'[Len(l) + 1] = h
  BY <1>1, AppendProperties, LenProperties
<1>3. Entetes' = {l'[p] : p \in DOMAIN l'}
  BY DEF Entetes
<1>4. Entetes' = Entetes \cup {h}
  BY <1>2, <1>3 DEF Entetes
<1> QED
  BY <1>2, <1>4

\* What depends on the sources alone does not change.
LEMMA MemesSources ==
  ASSUME MemesTables
  PROVE  /\ Sections(source1)' = Sections(source1) /\ Sections(source2)' = Sections(source2)
         /\ e_shnum(source1)' = e_shnum(source1)
         /\ APorter(source1)' = APorter(source1)
         /\ ~altere' => ~altere /\ APorter(source2)' = APorter(source2)
         /\ Assemblee(source1)' = Assemblee(source1)
         /\ \A v : AvecQui(v)' = AvecQui(v)
BY DEF MemesTables, Sections, e_shnum, APorter, Assemblee, TablesEnFin, UnTypeParNom,
       AvecQui, Fusionnee, search_same_name, AvecNom, sect_head

-----------------------------------------------------------------------------
(* Every header comes from a section the loops have passed.                *)

DePasse(h) ==
  \/ /\ h.src = 1 /\ h.idx \in Sections(source1) /\ Passee1(h.idx)
     /\ h.avec = AvecQui(h.idx)
     /\ h.avec \in Sections(source2) => tab_bool[h.avec] = 1
  \/ /\ h.src = 2 /\ h.idx \in Sections(source2) /\ Passee2(h.idx)
     /\ h.avec = -1 /\ tab_bool[h.idx] = 0

\* The steps of main_fus but Charger, in the terms above.
Passage ==
  /\ MemesTables
  /\ \/ \E g \in Header : SectionAjoutee(g) \/ TableAjoutee(g)
     \/ SectionIgnoree
     \/ ListeInchangee

LEMMA DePasseStable ==
  ASSUME TypeOK, Passage, pc # "ouverture", NEW h, DePasse(h)
  PROVE  DePasse(h)'
<1>1. /\ Sections(source1)' = Sections(source1) /\ Sections(source2)' = Sections(source2)
      /\ AvecQui(h.idx)' = AvecQui(h.idx)
  BY MemesSources DEF Passage
<1>2. /\ \A v \in Sections(source2) : tab_bool[v] = 1 => tab_bool'[v] = 1
      /\ pc # "sect1" => tab_bool' = tab_bool
  BY DEF Passage, SectionAjoutee, DeSource1, DeSource2, TableAjoutee,
         SectionIgnoree, ListeInchangee
<1>3. /\ pc' = "sect1" => pc = "sect1" /\ i' >= i
      /\ pc # "sect1" /\ pc' = "sect2" => pc = "sect2" /\ i' >= i
      /\ i \in Nat /\ (i' \in Nat \/ pc' \notin {"sect1", "sect2"})
  BY DEF TypeOK, Passage, SectionAjoutee, TableAjoutee, SectionIgnoree, ListeInchangee
<1>4. CASE h.src = 1 /\ h.idx \in Sections(source1) /\ Passee1(h.idx)
           /\ h.avec = AvecQui(h.idx)
           /\ (h.avec \in Sections(source2) => tab_bool[h.avec] = 1)
  <2>1. h.idx \in Nat /\ i \in Nat
    BY <1>4, Bornes DEF TypeOK
  <2>2. Passee1(h.idx)'
    BY <1>3, <1>4, <2>1 DEF Passee1
  <2> QED
    BY <1>1, <1>2, <1>4, <2>2 DEF DePasse
<1>5. CASE h.src = 2 /\ h.idx \in Sections(source2) /\ Passee2(h.idx)
           /\ h.avec = -1 /\ tab_bool[h.idx] = 0
  <2>1. h.idx \in Nat /\ i \in Nat
    BY <1>5, Bornes DEF TypeOK
  <2>2. Passee2(h.idx)' /\ tab_bool' = tab_bool
    BY <1>2, <1>3, <1>5, <2>1 DEF Passee2
  <2> QED
    BY <1>1, <1>5, <2>2 DEF DePasse
<1> QED
  BY <1>4, <1>5 DEF DePasse

LEMMA DePassesNext ==
  ASSUME TypeOK, TypeOK', DePasses, Passage, pc # "ouverture"
  PROVE  DePasses'
<1>1. \A p \in DOMAIN liste_section : liste_section[p].quoi = "section" =>
        DePasse(liste_section[p])
  BY DEF DePasses, DePasse
<1>2. SUFFICES \A p \in DOMAIN liste_section' :
        liste_section'[p].quoi = "section" => \E h : h = liste_section'[p] /\ DePasse(h)'
  BY DEF DePasses, DePasse
<1>3. CASE UNCHANGED liste_section
  BY <1>1, <1>3, DePasseStable
<1>4. ASSUME NEW g \in Header, SectionAjoutee(g) \/ TableAjoutee(g)
      PROVE  \A p \in DOMAIN liste_section' :
        liste_section'[p].quoi = "section" => \E h : h = liste_section'[p] /\ DePasse(h)'
  <2> DEFINE n == Len(liste_section)
  <2>1. liste_section' = Append(liste_section, g)
    BY <1>4 DEF SectionAjoutee, TableAjoutee
  <2>2. /\ n \in Nat /\ DOMAIN liste_section = 1 .. n /\ DOMAIN liste_section' = 1 .. n + 1
        /\ \A p \in 1 .. n : liste_section'[p] = liste_section[p]
        /\ liste_section'[n + 1] = g
    BY <2>1, ListeAllongee
  <2> HIDE DEF n
  <2>3. ASSUME NEW p \in 1 .. n, liste_section'[p].quoi = "section"
        PROVE  \E h : h = liste_section'[p] /\ DePasse(h)'
    BY <1>1, <2>2, <2>3, DePasseStable
  <2>4. g.quoi = "section" => DePasse(g)'
    <3>1. SUFFICES ASSUME SectionAjoutee(g) PROVE DePasse(g)'
      BY <1>4 DEF TableAjoutee
    <3>2. /\ Sections(source1)' = Sections(source1) /\ Sections(source2)' = Sections(source2)
          /\ AvecQui(g.idx)' = AvecQui(g.idx)
      BY MemesSources DEF Passage
    <3>3. i \in Nat /\ g.idx = i /\ i' = i + 1 /\ pc' = pc
      BY <3>1 DEF TypeOK, SectionAjoutee
    <3>4. CASE DeSource1(g)
      <4>1. g.avec = AvecQui(g.idx) /\ g.idx \in Sections(source1) /\ g.src = 1
        BY <3>3, <3>4 DEF DeSource1
      <4>2. g.avec \in Sections(source2) => tab_bool'[g.avec] = 1
        BY <3>4 DEF DeSource1
      <4>3. Passee1(g.idx)'
        BY <3>3 DEF Passee1
      <4> QED
        BY <3>2, <4>1, <4>2, <4>3 DEF DePasse
    <3>5. CASE DeSource2(g)
      BY <3>2, <3>3, <3>5 DEF DeSource2, DePasse, Passee2
    <3> QED
      BY <3>1, <3>4, <3>5 DEF SectionAjoutee
  <2> QED
    BY <2>2, <2>3, <2>4
<1> QED
  BY <1>3, <1>4 DEF Passage, SectionIgnoree, ListeInchangee

\* A new header comes after those already there.
LEMMA OrdreNext ==
  ASSUME TypeOK, DePasses, OrdreSections, Passage
  PROVE  OrdreSections'
<1>1. CASE UNCHANGED liste_section
  BY <1>1 DEF OrdreSections
<1>2. ASSUME NEW g \in Header, SectionAjoutee(g) \/ TableAjoutee(g)
      PROVE  OrdreSections'
  <2> DEFINE n == Len(liste_section)
  <2>1. liste_section' = Append(liste_section, g)
    BY <1>2 DEF SectionAjoutee, TableAjoutee
  <2>2. /\ n \in Nat /\ DOMAIN liste_section = 1 .. n /\ DOMAIN liste_section' = 1 .. n + 1
        /\ \A p \in 1 .. n : liste_section'[p] = liste_section[p]
        /\ liste_section'[n + 1] = g
    BY <2>1, ListeAllongee
  <2> HIDE DEF n
  <2>3. ASSUME NEW p \in 1 .. n, liste_section[p].quoi = "section", g.quoi = "section"
        PROVE  \/ liste_section[p].src < g.src
               \/ liste_section[p].src = g.src /\ liste_section[p].idx < g.idx
    <3>1. DePasse(liste_section[p])
      BY <2>2, <2>3 DEF DePasses, DePasse
    <3>2. SectionAjoutee(g)
      BY <1>2, <2>3 DEF TableAjoutee
    <3> QED
      BY <3>1, <3>2 DEF SectionAjoutee, DeSource1, DeSource2, DePasse, Passee1, Passee2
  <2>4. SUFFICES ASSUME NEW p \in 1 .. n + 1, NEW q \in 1 .. n + 1, p < q,
                        liste_section'[p].quoi = "section", liste_section'[q].quoi = "section"
                 PROVE  \/ liste_section'[p].src < liste_section'[q].src
                        \/ /\ liste_section'[p].src = liste_section'[q].src
                           /\ liste_section'[p].idx < liste_section'[q].idx
    BY <2>2 DEF OrdreSections
  <2>5. p \in 1 .. n /\ liste_section'[p] = liste_section[p]
    BY <2>2, <2>4
  <2>6. CASE q = n + 1
    BY <2>2, <2>3, <2>4, <2>5, <2>6
  <2>7. CASE q # n + 1
    <3>1. q \in 1 .. n /\ liste_section'[q] = liste_section[q]
      BY <2>2, <2>7
    <3> QED
      BY <2>2, <2>4, <2>5, <3>1 DEF OrdreSections
  <2> QED
    BY <2>6, <2>7
<1> QED
  BY <1>1, <1>2 DEF Passage, SectionIgnoree, ListeInchangee

-----------------------------------------------------------------------------
(* Every section passed is in the result, or was merged.                   *)

LEMMA IssusCroissent ==
  ASSUME TypeOK, Passage
  PROVE  /\ Issus(1) \subseteq Issus(1)' /\ Issus(2) \subseteq Issus(2)'
         /\ Absorbees \subseteq Absorbees'
         /\ \A g \in Header : SectionAjoutee(g) =>
              /\ g.src = 1 => i \in Issus(1)'
              /\ g.src = 2 => i \in Issus(2)'
              /\ g.avec # -1 => g.avec \in Absorbees'
<1>1. Entetes \subseteq Entetes'
  <2>1. CASE UNCHANGED liste_section
    BY <2>1 DEF Entetes
  <2>2. CASE \E g \in Header : SectionAjoutee(g) \/ TableAjoutee(g)
    BY <2>2, ListeAllongee DEF SectionAjoutee, TableAjoutee
  <2> QED
    BY <2>1, <2>2 DEF Passage, SectionIgnoree, ListeInchangee
<1>2. \A g \in Header : SectionAjoutee(g) => g \in Entetes' /\ g.idx = i /\ g.quoi = "section"
  BY ListeAllongee DEF SectionAjoutee
<1>3. /\ Issus(1)' = {h.idx : h \in {g \in Entetes' : g.quoi = "section" /\ g.src = 1}}
      /\ Issus(2)' = {h.idx : h \in {g \in Entetes' : g.quoi = "section" /\ g.src = 2}}
      /\ Absorbees' = {h.avec : h \in {g \in Entetes' : g.quoi = "section"}} \ {-1}
  BY DEF Issus, Absorbees
<1> QED
  BY <1>1, <1>2, <1>3 DEF Issus, Absorbees

LEMMA ToutesPasseesNext ==
  ASSUME TypeOK, ToutesPassees, Passage, pc # "ouverture"
  PROVE  ToutesPassees'
<1> SUFFICES ASSUME EnBoucle'
             PROVE  (/\ \A v \in APorter(source1) : Passee1(v) => v \in Issus(1)
                     /\ ~altere => \A v \in APorter(source2) :
                          Passee2(v) => v \in Issus(2) \/ tab_bool[v] = 1
                     /\ \A v \in Sections(source2) : tab_bool[v] = 1 => v \in Absorbees)'
  BY DEF ToutesPassees
<1>0. /\ EnBoucle /\ i \in Nat
      /\ source1 \in Fichier /\ source2 \in Fichier
      /\ APorter(source1) \subseteq Sections(source1)
      /\ APorter(source2) \subseteq Sections(source2)
  BY DEF TypeOK, EnBoucle, Passage, SectionAjoutee, TableAjoutee, SectionIgnoree,
         ListeInchangee, DeSource1, DeSource2, APorter
<1>1. /\ Sections(source1)' = Sections(source1) /\ Sections(source2)' = Sections(source2)
      /\ APorter(source1)' = APorter(source1)
      /\ ~altere' => ~altere /\ APorter(source2)' = APorter(source2)
  BY MemesSources DEF Passage
<1>2. ASSUME NEW v \in APorter(source1), Passee1(v)'
      PROVE  v \in Issus(1)'
  <2>1. CASE Passee1(v)
    BY <1>0, <2>1, IssusCroissent DEF ToutesPassees
  <2>2. CASE ~Passee1(v)
    <3>1. pc = "sect1" /\ v >= i /\ v \in Nat /\ v < e_shnum(source1)
      BY <1>0, <2>2, Bornes DEF Passee1, Sections
    <3>2. CASE \E g \in Header : SectionAjoutee(g)
      BY <1>0, <1>2, <3>1, <3>2, IssusCroissent
         DEF SectionAjoutee, DeSource1, DeSource2, Passee1
    <3>3. CASE SectionIgnoree
      BY <1>0, <1>2, <3>1, <3>3 DEF SectionIgnoree, Passee1
    <3>4. CASE ListeInchangee
      <4>1. e_shnum(source1) \in Nat
        BY <1>0, Bornes
      <4> QED
        BY <1>0, <1>2, <3>1, <3>4, <4>1 DEF ListeInchangee, Passee1, EnBoucle
    <3> QED
      BY <3>1, <3>2, <3>3, <3>4 DEF Passage, TableAjoutee
  <2> QED
    BY <2>1, <2>2
<1>3. \A v \in Sections(source2) : tab_bool[v] = 1 => tab_bool'[v] = 1
  BY DEF Passage, SectionAjoutee, DeSource1, DeSource2, TableAjoutee,
         SectionIgnoree, ListeInchangee
<1>4. ASSUME ~altere', NEW v \in APorter(source2), Passee2(v)'
      PROVE  v \in Issus(2)' \/ tab_bool'[v] = 1
  <2>0. v \in Sections(source2) /\ v \in Nat /\ v < e_shnum(source2)
    BY <1>0, Bornes DEF Sections
  <2>1. CASE Passee2(v)
    BY <1>0, <1>1, <1>3, <1>4, <2>0, <2>1, IssusCroissent DEF ToutesPassees
  <2>2. CASE ~Passee2(v)
    <3>1. pc \in {"sect1", "sect2"} /\ (pc = "sect2" => v >= i)
      BY <1>0, <2>0, <2>2 DEF Passee2
    <3>2. CASE \E g \in Header : SectionAjoutee(g)
      BY <1>0, <1>4, <2>0, <3>1, <3>2, IssusCroissent
         DEF SectionAjoutee, DeSource1, DeSource2, Passee2
    <3>3. CASE SectionIgnoree
      <4>1. pc = "sect2" /\ v = i /\ ~Restante(i) /\ tab_bool' = tab_bool
        BY <1>0, <1>4, <2>0, <3>1, <3>3 DEF SectionIgnoree, Passee2
      <4>2. tab_bool \in [Sections(source2) -> {0, 1}]
        BY <4>1 DEF TypeOK
      <4>3. tab_bool[v] \in {0, 1}
        BY <2>0, <4>2
      <4> QED
        BY <4>1, <4>3 DEF Restante, APorter
    <3>4. CASE ListeInchangee
      <4>1. e_shnum(source2) \in Nat
        BY <1>0, Bornes
      <4> QED
        BY <1>0, <1>4, <2>0, <3>1, <3>4, <4>1 DEF ListeInchangee, Passee2, EnBoucle
    <3> QED
      BY <3>1, <3>2, <3>3, <3>4 DEF Passage, TableAjoutee
  <2> QED
    BY <2>1, <2>2
<1>5. ASSUME NEW v \in Sections(source2), tab_bool'[v] = 1
      PROVE  v \in Absorbees'
  <2>1. CASE tab_bool[v] = 1
    BY <1>0, <2>1, IssusCroissent DEF ToutesPassees
  <2>2. CASE tab_bool[v] # 1
    <3>1. PICK g \in Header : SectionAjoutee(g) /\ DeSource1(g)
      BY <1>5, <2>2 DEF Passage, SectionAjoutee, DeSource2, TableAjoutee,
                        SectionIgnoree, ListeInchangee
    <3>2. g.avec = v /\ v # -1
      <4>1. v \in Nat
        BY <1>0, Bornes
      <4> QED
        BY <1>5, <2>2, <3>1, <4>1 DEF DeSource1
    <3> QED
      BY <3>1, <3>2, IssusCroissent
  <2> QED
    BY <2>1, <2>2
<1> QED
  BY <1>1, <1>2, <1>4, <1>5

-----------------------------------------------------------------------------
(* The sections of an assembled source 1 keep their numbers.               *)

LEMMA RangeesNext ==
  ASSUME TypeOK, Rangees, Passage, pc # "ouverture"
  PROVE  Rangees'
<1> SUFFICES ASSUME EnBoucle', Assemblee(source1)'
             PROVE  (/\ pc = "sect1" /\ (\A w \in Sections(source1) : w < i => w \in APorter(source1))
                          => Len(liste_section) = i
                     /\ \A v \in APorter(source1) : Passee1(v) =>
                          /\ v + 1 \in DOMAIN liste_section
                          /\ liste_section[v + 1].quoi = "section"
                          /\ liste_section[v + 1].src = 1 /\ liste_section[v + 1].idx = v
                          /\ liste_section[v + 1].avec = AvecQui(v))'
  BY DEF Rangees
<1>0. /\ EnBoucle /\ i \in Nat /\ source1 \in Fichier
      /\ APorter(source1) \subseteq Sections(source1)
      /\ Sections(source1) \subseteq Nat
  BY Bornes DEF TypeOK, EnBoucle, Passage, SectionAjoutee, TableAjoutee,
                SectionIgnoree, ListeInchangee, DeSource1, DeSource2, APorter
<1>1. /\ Sections(source1)' = Sections(source1)
      /\ APorter(source1)' = APorter(source1)
      /\ Assemblee(source1)' = Assemblee(source1)
      /\ \A v : AvecQui(v)' = AvecQui(v)
  BY MemesSources DEF Passage
<1> DEFINE Place(l, v) ==
             /\ v + 1 \in DOMAIN l
             /\ l[v + 1].quoi = "section" /\ l[v + 1].src = 1 /\ l[v + 1].idx = v
             /\ l[v + 1].avec = AvecQui(v)
           SansTrou(k) == \A w \in Sections(source1) : w < k => w \in APorter(source1)
<1>2. /\ pc = "sect1" /\ SansTrou(i) => Len(liste_section) = i
      /\ \A v \in APorter(source1) : Passee1(v) => Place(liste_section, v)
  BY <1>0, <1>1 DEF Rangees
<1> SUFFICES /\ pc' = "sect1" /\ SansTrou(i') => Len(liste_section') = i'
             /\ \A v \in APorter(source1) : Passee1(v)' => Place(liste_section', v)
  BY <1>1
<1>3. ASSUME NEW g \in Header, liste_section' = Append(liste_section, g),
             NEW v \in APorter(source1), Place(liste_section, v)
      PROVE  Place(liste_section', v)
  <2>1. /\ v + 1 \in DOMAIN liste_section /\ v + 1 \in DOMAIN liste_section'
        /\ liste_section'[v + 1] = liste_section[v + 1]
    BY <1>3, ListeAllongee
  <2> QED
    BY <1>3, <2>1
<1>4. CASE \E g \in Header : SectionAjoutee(g)
  <2>1. PICK g \in Header : SectionAjoutee(g)
    BY <1>4
  <2>2. /\ liste_section' = Append(liste_section, g) /\ i' = i + 1 /\ pc' = pc
        /\ g.quoi = "section" /\ g.idx = i
    BY <2>1 DEF SectionAjoutee
  <2>3. CASE DeSource1(g)
    <3>1. i \in APorter(source1) /\ pc = "sect1" /\ i \in Sections(source1)
      BY <1>1, <2>3 DEF DeSource1, Fusionnee, Copiee, Assemblee, APorter
    <3>2. SansTrou(i)
      BY <1>0, <1>1, <3>1 DEF Assemblee, TablesEnFin, APorter
    <3>3. /\ Len(liste_section) = i /\ Len(liste_section') = i + 1
          /\ i + 1 \in DOMAIN liste_section' /\ liste_section'[i + 1] = g
      BY <1>0, <1>2, <2>2, <3>1, <3>2, ListeAllongee
    <3>4. Place(liste_section', i)
      BY <2>2, <2>3, <3>3 DEF DeSource1
    <3>5. ASSUME NEW v \in APorter(source1), Passee1(v)'
          PROVE  Place(liste_section', v)
      <4>1. v < i \/ v = i
        BY <1>0, <2>2, <3>1, <3>5 DEF Passee1
      <4>2. CASE v < i
        <5>1. Place(liste_section, v)
          BY <1>2, <4>2 DEF Passee1
        <5> HIDE DEF Place
        <5> QED
          BY <1>3, <2>2, <5>1
      <4> QED
        BY <3>4, <4>1, <4>2
    <3> HIDE DEF Place, SansTrou
    <3> QED
      BY <2>2, <3>3, <3>5
  <2>4. CASE DeSource2(g)
    <3>1. pc = "sect2"
      BY <2>4 DEF DeSource2
    <3>2. \A v \in APorter(source1) : Place(liste_section, v)
      BY <1>2, <3>1 DEF Passee1
    <3> HIDE DEF Place, SansTrou
    <3> QED
      BY <1>3, <2>2, <3>1, <3>2
  <2> QED
    BY <2>1, <2>3, <2>4 DEF SectionAjoutee
<1>5. CASE SectionIgnoree
  <2>1. /\ UNCHANGED <<liste_section, pc>> /\ i' = i + 1
        /\ pc = "sect1" => i \in Sections(source1) /\ i \notin APorter(source1)
    BY <1>5 DEF SectionIgnoree
  <2>2. pc = "sect1" => ~SansTrou(i')
    BY <1>0, <2>1
  <2>3. \A v \in APorter(source1) : Passee1(v)' => Passee1(v)
    BY <1>0, <2>1 DEF Passee1
  <2> HIDE DEF Place, SansTrou
  <2> QED
    BY <1>2, <2>1, <2>2, <2>3
<1>6. CASE \E g \in Header : TableAjoutee(g)
  <2>1. PICK g \in Header : TableAjoutee(g)
    BY <1>6
  <2>2. /\ liste_section' = Append(liste_section, g)
        /\ pc # "sect1" /\ pc' # "sect1"
    BY <2>1 DEF TableAjoutee
  <2>3. \A v \in APorter(source1) : Place(liste_section, v)
    BY <1>2, <2>2 DEF Passee1
  <2> HIDE DEF Place, SansTrou
  <2> QED
    BY <1>3, <2>2, <2>3
<1>7. CASE ListeInchangee
  <2>1. \A v \in APorter(source1) : Passee1(v)' => Passee1(v)
    <3>1. e_shnum(source1) \in Nat /\ \A v \in Sections(source1) : v < e_shnum(source1)
      BY <1>0, Bornes DEF Sections
    <3> QED
      BY <1>0, <1>7, <3>1 DEF ListeInchangee, Passee1, EnBoucle
  <2>2. pc' = "sect1" => UNCHANGED <<pc, i, liste_section>>
    BY <1>7 DEF ListeInchangee
  <2>3. UNCHANGED liste_section
    BY <1>7 DEF ListeInchangee
  <2> HIDE DEF Place, SansTrou
  <2> QED
    BY <1>2, <2>1, <2>2, <2>3
<1> HIDE DEF Place, SansTrou
<1> QED
  BY <1>4, <1>5, <1>6, <1>7 DEF Passage

-----------------------------------------------------------------------------
(* The invariant of the loops and what it gives when they are over.        *)

LEMMA AvancementInit == Init => AvancementSections
<1> SUFFICES ASSUME NEW f \in Fichier, NEW g \in Fichier, NEW p \in SUBSET {1, 2},
                    InitFus(f, g, p)
             PROVE  AvancementSections
  BY DEF Init
<1>1. pc = "ouverture" /\ i = 0 /\ liste_section = <<>>
  BY DEF InitFus
<1> QED
  BY <1>1 DEF AvancementSections, DePasses, OrdreSections, ToutesPassees, Rangees,
              EnBoucle

\* Before the first iteration there is nothing in the list and nothing merged.
LEMMA AvancementCharger ==
  ASSUME TypeOK, Deroulement, AvancementSections, Charger
  PROVE  AvancementSections'
<1>1. /\ liste_section' = <<>> /\ pc' = "sect1" /\ i' = 0
      /\ tab_bool' = [v \in Sections(source2) |-> 0]
      /\ MemesTables
  BY TablesSuivies DEF Next, Charger, Sources, Deroulement, AvancementSections
<1>2. /\ APorter(source1)' = APorter(source1)
      /\ Sections(source1)' = Sections(source1) /\ Sections(source2)' = Sections(source2)
      /\ e_shnum(source1)' = e_shnum(source1)
  BY <1>1, MemesSources
<1>3. /\ \A v \in Sections(source1) : ~(v < 0)
      /\ APorter(source1) \subseteq Sections(source1)
      /\ e_shnum(source1) \in Nat
  BY Bornes DEF APorter, TypeOK
<1>4. DePasses' /\ OrdreSections'
  BY <1>1 DEF DePasses, OrdreSections
<1>5. ToutesPassees'
  BY <1>1, <1>2, <1>3 DEF ToutesPassees, Passee1, Passee2
<1>6. Rangees'
  <2>1. /\ Len(liste_section') = i'
        /\ \A v \in APorter(source1)' : ~(Passee1(v)')
    BY <1>1, <1>2, <1>3 DEF Passee1
  <2> QED
    BY <2>1 DEF Rangees
<1> QED
  BY <1>1, <1>2, <1>3, <1>4, <1>5, <1>6 DEF AvancementSections

LEMMA AvancementNext ==
  ASSUME TypeOK, Deroulement, AvancementSections, [Next]_vars
  PROVE  AvancementSections'
<1>t. TypeOK'
  BY TypageNext
<1>1. CASE UNCHANGED vars
  <2>1. Passage
    BY <1>1 DEF vars, varsFus, Passage, MemesTables, Sections, e_shnum, ListeInchangee, TypeOK
  <2>2. CASE pc = "ouverture"
    <3>1. liste_section' = <<>> /\ pc' = "ouverture" /\ i' = 0
      BY <1>1, <2>2 DEF vars, varsFus, Deroulement, AvancementSections
    <3> QED
      BY <3>1 DEF AvancementSections, DePasses, OrdreSections, ToutesPassees,
                  Rangees, EnBoucle
  <2>3. CASE pc # "ouverture"
    <3>1. pc' # "ouverture" /\ (pc' = "sect1" => i' <= e_shnum(source1)')
      BY <1>1, <2>3 DEF vars, varsFus, AvancementSections, e_shnum
    <3> QED
      BY <1>t, <2>1, <2>3, <3>1, DePassesNext, OrdreNext, ToutesPasseesNext,
         RangeesNext DEF AvancementSections
  <2> QED
    BY <2>2, <2>3
<1>2. CASE Charger
  BY <1>2, AvancementCharger
<1>3. CASE Next /\ ~Charger
  <2>1. Passage
    BY <1>3, ClassementSections DEF Passage
  <2>2. CASE pc = "ouverture"
    <3>1. SourceAbsente
      BY <1>3, <2>2, AEcrire DEF Next, FusionnerSection, FusionnerHorsTable, EcraserEntete, HorsTable,
         HorsTableFatal, PoserSection1, IgnorerSection1, FinSections1, PoserSection2,
         IgnorerSection2, ChargerSymboles, Concatener, FinSymboles, SymtabFatale,
         EcrireSymtab, EcrireStrtab, EcrireShstrtab, EcrireEntetes, EcrireHeader,
         DansSect1, DansSect2
    <3>2. pc' = "exit" /\ liste_section' = <<>>
      BY <2>2, <3>1 DEF SourceAbsente, Deroulement
    <3> QED
      BY <3>2 DEF AvancementSections, DePasses, OrdreSections, ToutesPassees,
                  Rangees, EnBoucle
  <2>3. CASE pc # "ouverture"
    <3>1. pc' # "ouverture" /\ (pc' = "sect1" => i' <= e_shnum(source1)')
      <4>1. e_shnum(source1)' = e_shnum(source1) /\ e_shnum(source1) \in Nat /\ i \in Nat
        BY <2>1, MemesSources, Bornes DEF TypeOK, Passage
      <4>2. pc = "sect1" /\ i \in Sections(source1) => i + 1 <= e_shnum(source1)
        BY <4>1 DEF Sections
      <4> QED
        BY <2>1, <2>3, <4>1, <4>2 DEF AvancementSections, Passage, SectionAjoutee,
           DeSource1, DeSource2, TableAjoutee, SectionIgnoree, ListeInchangee
    <3> QED
      BY <1>t, <2>1, <2>3, <3>1, DePassesNext, OrdreNext, ToutesPasseesNext,
         RangeesNext DEF AvancementSections
  <2> QED
    BY <2>2, <2>3
<1> QED
  BY <1>1, <1>2, <1>3

LEMMA AvancementDonne ==
  ASSUME TypeOK, AvancementSections
  PROVE  AucuneSectionPerdue /\ OrdreSections /\ NumerosStables
<1>0. /\ source1 \in Fichier /\ source2 \in Fichier
      /\ APorter(source1) \subseteq Sections(source1)
      /\ APorter(source2) \subseteq Sections(source2)
  BY DEF TypeOK, APorter
<1>1. \A g \in Entetes : g.quoi = "section" => DePasse(g)
  BY DEF AvancementSections, DePasses, DePasse, Entetes
<1>2. ASSUME SectionsFaites
      PROVE  /\ EnBoucle /\ \A v : Passee1(v) /\ Passee2(v)
             /\ tab_bool \in [Sections(source2) -> {0, 1}]
  BY <1>2 DEF SectionsFaites, EnBoucle, Passee1, Passee2, TypeOK
<1>3. AucuneSectionPerdue
  <2> SUFFICES ASSUME SectionsFaites, ~altere
               PROVE  /\ APorter(source1) \subseteq Issus(1)
                      /\ APorter(source2) \subseteq Issus(2) \cup Absorbees
                      /\ Issus(2) \cap Absorbees = {}
    BY DEF AucuneSectionPerdue
  <2>1. /\ APorter(source1) \subseteq Issus(1)
        /\ APorter(source2) \subseteq Issus(2) \cup Absorbees
    BY <1>0, <1>2 DEF AvancementSections, ToutesPassees
  <2>2. ASSUME NEW v \in Issus(2), v \in Absorbees PROVE FALSE
    <3>1. PICK g \in Entetes : g.quoi = "section" /\ g.src = 2 /\ v = g.idx
      BY <2>2 DEF Issus
    <3>2. v \in Sections(source2) /\ tab_bool[v] = 0
      BY <1>1, <3>1 DEF DePasse
    <3>3. PICK h \in Entetes : h.quoi = "section" /\ v = h.avec /\ v # -1
      BY <2>2 DEF Absorbees
    <3>4. tab_bool[v] = 1
      BY <1>1, <3>2, <3>3 DEF DePasse
    <3> QED
      BY <3>2, <3>4
  <2> QED
    BY <2>1, <2>2
<1>4. NumerosStables
  <2> SUFFICES ASSUME SectionsFaites, Assemblee(source1)
               PROVE  /\ \A v \in APorter(source1) :
                           LET h == liste_section[v + 1] IN h.src = 1 /\ h.idx = v
                      /\ \A v \in Absorbees : liste_section[v + 1].avec = v
    BY DEF NumerosStables
  <2>1. \A v \in APorter(source1) :
          /\ liste_section[v + 1].src = 1 /\ liste_section[v + 1].idx = v
          /\ liste_section[v + 1].avec = AvecQui(v)
    BY <1>2 DEF AvancementSections, Rangees
  <2>2. ASSUME NEW v \in Absorbees PROVE v \in APorter(source1) /\ AvecQui(v) = v
    <3>1. PICK h \in Entetes : h.quoi = "section" /\ v = h.avec /\ v # -1
      BY DEF Absorbees
    <3> DEFINE w == h.idx
    <3>2. w \in Sections(source1) /\ v = AvecQui(w)
      BY <1>1, <3>1 DEF DePasse
    <3>3. /\ sect_head(source1, w).type = SHT_PROGBITS
          /\ v = search_same_name(sect_head(source1, w).nom, source1)
      BY <3>1, <3>2 DEF AvecQui, Fusionnee
    <3>4. v \in Sections(source1) /\ sect_head(source1, v).nom = sect_head(source1, w).nom
      BY <3>2, <3>3, IndiceDeFusion
    <3>5. sect_head(source1, v).type = SHT_PROGBITS
      BY <3>2, <3>3, <3>4 DEF Assemblee, UnTypeParNom
    <3>6. v \in APorter(source1)
      BY <3>4, <3>5 DEF Assemblee, APorter
    <3>7. AvecQui(v) = v
      BY <3>1, <3>3, <3>4, <3>5 DEF AvecQui, Fusionnee
    <3> QED
      BY <3>6, <3>7
  <2> QED
    BY <2>1, <2>2
<1> QED
  BY <1>3, <1>4 DEF AvancementSections

LEMMA Avancees == Spec => [](TypeOK /\ Deroulement /\ AvancementSections)
<1>1. Init => TypeOK /\ Deroulement /\ AvancementSections
  BY TypageInit, DeroulementInit, AvancementInit
<1>2. TypeOK /\ Deroulement /\ AvancementSections /\ [Next]_vars
        => (TypeOK /\ Deroulement /\ AvancementSections)'
  BY TypageNext, DeroulementNext, AvancementNext
<1> QED
  BY <1>1, <1>2, PTL DEF Spec

\* When the section loops are over, every section of both sources is in the
\* result or was merged with one that is, and none is there twice.
THEOREM SectionsGardees == Spec => []AucuneSectionPerdue
<1>1. TypeOK /\ AvancementSections => AucuneSectionPerdue
  BY AvancementDonne
<1> QED
  BY <1>1, Avancees, PTL

\* The sections of the result come in the order of the sources.
THEOREM SectionsOrdonnees == Spec => []OrdreSections
<1>1. TypeOK /\ AvancementSections => OrdreSections
  BY AvancementDonne
<1> QED
  BY <1>1, Avancees, PTL

\* For a source 1 as an assembler leaves it, the section numbers its symbols
\* and relocations hold still designate the same sections in the result.
THEOREM NumerosGardes == Spec => []NumerosStables
<1>1. TypeOK /\ AvancementSections => NumerosStables
  BY AvancementDonne
<1> QED
  BY <1>1, Avancees, PTL
=============================================================================
