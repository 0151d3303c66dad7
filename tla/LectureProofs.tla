--------------------------- MODULE LectureProofs ---------------------------
(***************************************************************************)
(* For every command line, every file and every base: the byte order of    *)
(* the words read, and what the display of an ELF file keeps and prints.   *)
(***************************************************************************)
EXTENDS Lecture, RecurrenceProofs

-----------------------------------------------------------------------------
(***************************************************************************)
(* The byte order (Endian).  Inverting a word gives back, on a little-     *)
(* endian host, the octets of the file in their order, and inverting it    *)
(* again gives the word back.                                              *)
(***************************************************************************)

LEMMA Temp32 ==
  ASSUME NEW val \in Mot
  PROVE  /\ temp_32(val, 1) = val[4] /\ temp_32(val, 2) = val[3]
         /\ temp_32(val, 3) = val[2] /\ temp_32(val, 4) = val[1]
BY DEF temp_32, Gauche, Droite, Mot

LEMMA Temp16 ==
  ASSUME NEW val \in Demi
  PROVE  temp_16(val, 1) = val[2] /\ temp_16(val, 2) = val[1]
BY DEF temp_16, Promu, Gauche, Droite, Demi

\* The loop over a word reverses its octets.
LEMMA Renversement32 ==
  ASSUME NEW val \in Mot
  PROVE  invert_endian_32(val) = <<val[4], val[3], val[2], val[1]>>
BY Temp32 DEF invert_endian_32, Pousser_32

LEMMA Renversement16 ==
  ASSUME NEW val \in Demi
  PROVE  invert_endian_16(val) = <<val[2], val[1]>>
BY Temp16 DEF invert_endian_16, Pousser_16

\* A word is the tuple of its octets, and a tuple of octets a word.
LEMMA Tuples ==
  /\ \A w \in Mot : w = <<w[1], w[2], w[3], w[4]>>
  /\ \A w \in Demi : w = <<w[1], w[2]>>
  /\ \A a, b, c, d \in Byte : <<a, b, c, d>> \in Mot /\ <<a, b>> \in Demi
BY DEF Mot, Demi

LEMMA OctetsDe ==
  /\ \A w \in Mot : w[1] \in Byte /\ w[2] \in Byte /\ w[3] \in Byte /\ w[4] \in Byte
  /\ \A w \in Demi : w[1] \in Byte /\ w[2] \in Byte
BY DEF Mot, Demi

\* For every word and half of a file, in every base: swapped once after fread,
\* it is the word whose octets the file has, most significant first
\* (gestion_endian.c:4-24).
THEOREM OrdreDuFichier ==
  /\ \A o \in Mot : invert_endian_32(Lu_32(o)) = o
  /\ \A o \in Demi : invert_endian_16(Lu_16(o)) = o
<1>1. ASSUME NEW o \in Mot
      PROVE  invert_endian_32(Lu_32(o)) = o
  <2>1. Lu_32(o) \in Mot
    BY Tuples, OctetsDe DEF Lu_32
  <2>2. invert_endian_32(Lu_32(o)) = <<o[1], o[2], o[3], o[4]>>
    BY <2>1, Renversement32 DEF Lu_32
  <2> QED
    BY <2>2, Tuples
<1>2. ASSUME NEW o \in Demi
      PROVE  invert_endian_16(Lu_16(o)) = o
  <2>1. Lu_16(o) \in Demi
    BY Tuples, OctetsDe DEF Lu_16
  <2>2. invert_endian_16(Lu_16(o)) = <<o[1], o[2]>>
    BY <2>1, Renversement16 DEF Lu_16
  <2> QED
    BY <2>2, Tuples
<1> QED
  BY <1>1, <1>2

\* A word swapped twice is the word: the copies swapped back before they are
\* stored or written (fusion.c:168-207, ecriture.c:10-15, 84-87) are those read.
THEOREM Involution ==
  /\ \A w \in Mot : invert_endian_32(invert_endian_32(w)) = w
  /\ \A w \in Demi : invert_endian_16(invert_endian_16(w)) = w
<1>1. /\ \A w \in Mot : invert_endian_32(w) = Lu_32(w)
      /\ \A w \in Demi : invert_endian_16(w) = Lu_16(w)
  BY Renversement32, Renversement16 DEF Lu_32, Lu_16
<1> QED
  BY <1>1, OrdreDuFichier

\* The same of the structures the merge swaps back: the header of the file, of
\* a section with its name and contents, a symbol.
THEOREM StructuresRendues ==
  ASSUME NEW N, NEW C
  PROVE  /\ \A h \in [e_shnum : Demi] : swap_header(swap_header(h)) = h
         /\ \A s \in [nom : N, sh_type : Mot, sh_flags : Mot, contenu : C] :
              swap_header_section(swap_header_section(s)) = s
         /\ \A s \in [st_value : Mot, st_shndx : Demi] :
              swap_header_symb(swap_header_symb(s)) = s
<1>1. \A h \in [e_shnum : Demi] : swap_header(swap_header(h)) = h
  BY Involution DEF swap_header
<1>2. ASSUME NEW s \in [nom : N, sh_type : Mot, sh_flags : Mot, contenu : C]
      PROVE  swap_header_section(swap_header_section(s)) = s
  <2>1. s.sh_type \in Mot /\ s.sh_flags \in Mot
    OBVIOUS
  <2> QED
    BY <2>1, Involution DEF swap_header_section
<1>3. ASSUME NEW s \in [st_value : Mot, st_shndx : Demi]
      PROVE  swap_header_symb(swap_header_symb(s)) = s
  <2>1. s.st_value \in Mot /\ s.st_shndx \in Demi
    OBVIOUS
  <2> QED
    BY <2>1, Involution DEF swap_header_symb
<1> QED
  BY <1>1, <1>2, <1>3

\* The number of a word, as the recursive function of Nombre computes it.
NombreDe(g, mot) ==
  g = [k \in 0 .. Len(mot) |-> IF k = 0 THEN 0 ELSE g[k - 1] * Octet + mot[k]]

LEMMA NombreExiste ==
  ASSUME NEW mot \in Seq(Byte)
  PROVE  /\ \E g \in [0 .. Len(mot) -> Nat] : NombreDe(g, mot)
         /\ Nombre(mot) = (CHOOSE g : NombreDe(g, mot))[Len(mot)]
<1> DEFINE f == [p \in Nat \X Byte |-> p[1] * Octet + p[2]]
<1>1. f \in [Nat \X Byte -> Nat] /\ \A a \in Nat, b \in Byte : f[<<a, b>>] = a * Octet + b
  <2>1. \A a \in Nat, b \in Byte : a * Octet \in Nat /\ b \in Nat
    BY OctetAssumption DEF Byte
  <2>2. \A p \in Nat \X Byte : p[1] * Octet + p[2] \in Nat
    BY <2>1
  <2>3. f \in [Nat \X Byte -> Nat]
    BY <2>2
  <2>4. \A a \in Nat, b \in Byte : <<a, b>> \in Nat \X Byte
    OBVIOUS
  <2> QED
    BY <2>3, <2>4
<1> HIDE DEF f
<1>2. PICK g \in [0 .. Len(mot) -> Nat] : Etapes(g, f, 0, mot, Len(mot))
  BY <1>1, EtapesExistent
<1>3. Len(mot) \in Nat /\ \A k \in 1 .. Len(mot) : mot[k] \in Byte
  BY LenProperties, ElementOfSeq
<1>4. \A k \in 1 .. Len(mot) : g[k] = g[k - 1] * Octet + mot[k]
  <2> SUFFICES ASSUME NEW k \in 1 .. Len(mot) PROVE g[k] = g[k - 1] * Octet + mot[k]
    OBVIOUS
  <2>1. g[k - 1] \in Nat /\ mot[k] \in Byte
    BY <1>2, <1>3
  <2>2. g[k] = f[<<g[k - 1], mot[k]>>]
    BY <1>2 DEF Etapes
  <2> QED
    BY <1>1, <2>1, <2>2
<1>5. g[0] = 0
  BY <1>2 DEF Etapes
<1>6. NombreDe(g, mot)
  BY <1>3, <1>4, <1>5 DEF NombreDe
<1>7. Nombre(mot) = (CHOOSE gg : NombreDe(gg, mot))[Len(mot)]
  BY DEF Nombre, NombreDe
<1> QED
  BY <1>2, <1>6, <1>7

LEMMA Horner ==
  ASSUME NEW mot \in Seq(Byte)
  PROVE  \E g : /\ Nombre(mot) = g[Len(mot)] /\ g[0] = 0
                /\ \A k \in 1 .. Len(mot) : g[k] = g[k - 1] * Octet + mot[k]
<1> DEFINE c == CHOOSE g : NombreDe(g, mot)
<1>1. NombreDe(c, mot) /\ Nombre(mot) = c[Len(mot)]
  BY NombreExiste
<1>2. Len(mot) \in Nat
  BY LenProperties
<1> HIDE DEF c
<1>3. \A k \in 0 .. Len(mot) : c[k] = IF k = 0 THEN 0 ELSE c[k - 1] * Octet + mot[k]
  BY <1>1 DEF NombreDe
<1>4. c[0] = 0 /\ \A k \in 1 .. Len(mot) : c[k] = c[k - 1] * Octet + mot[k]
  BY <1>2, <1>3
<1> QED
  BY <1>1, <1>4

LEMMA NombreMot ==
  ASSUME NEW w \in Mot
  PROVE  /\ Nombre(w) = ((w[1] * Octet + w[2]) * Octet + w[3]) * Octet + w[4]
         /\ Nombre(w) \in Nat
<1>1. w \in Seq(Byte) /\ Len(w) = 4
  <2>1. \A a, b, c, d \in Byte : <<a, b, c, d>> \in Seq(Byte) /\ Len(<<a, b, c, d>>) = 4
    OBVIOUS
  <2> QED
    BY <2>1, Tuples, OctetsDe
<1>2. PICK g : /\ Nombre(w) = g[4] /\ g[0] = 0
               /\ \A k \in 1 .. 4 : g[k] = g[k - 1] * Octet + w[k]
  BY <1>1, Horner
<1>3. /\ g[1] = g[0] * Octet + w[1] /\ g[2] = g[1] * Octet + w[2]
      /\ g[3] = g[2] * Octet + w[3] /\ g[4] = g[3] * Octet + w[4]
  BY <1>2
<1>4. w[1] \in Nat /\ w[2] \in Nat /\ w[3] \in Nat /\ w[4] \in Nat /\ Octet \in Nat
  BY OctetsDe, OctetAssumption DEF Byte
<1>5. g[1] = w[1]
  BY <1>2, <1>3, <1>4
<1>6. \A a, b \in Nat : a * Octet + b \in Nat
  BY <1>4
<1> QED
  BY <1>2, <1>3, <1>4, <1>5, <1>6

LEMMA NombreDemi ==
  ASSUME NEW w \in Demi
  PROVE  Nombre(w) = w[1] * Octet + w[2] /\ Nombre(w) \in Nat
<1>1. w \in Seq(Byte) /\ Len(w) = 2
  <2>1. \A a, b \in Byte : <<a, b>> \in Seq(Byte) /\ Len(<<a, b>>) = 2
    OBVIOUS
  <2>2. w = <<w[1], w[2]>> /\ w[1] \in Byte /\ w[2] \in Byte
    BY Tuples, OctetsDe
  <2>3. <<w[1], w[2]>> \in Seq(Byte) /\ Len(<<w[1], w[2]>>) = 2
    BY <2>1, <2>2
  <2> QED
    BY <2>2, <2>3
<1>2. PICK g : /\ Nombre(w) = g[2] /\ g[0] = 0
               /\ \A k \in 1 .. 2 : g[k] = g[k - 1] * Octet + w[k]
  BY <1>1, Horner
<1>3. g[1] = g[0] * Octet + w[1] /\ g[2] = g[1] * Octet + w[2]
  BY <1>2
<1>4. w[1] \in Nat /\ w[2] \in Nat /\ Octet \in Nat
  BY OctetsDe, OctetAssumption DEF Byte
<1>5. g[1] = w[1]
  BY <1>2, <1>3, <1>4
<1>6. \A a, b \in Nat : a * Octet + b \in Nat
  BY <1>4
<1> QED
  BY <1>2, <1>3, <1>4, <1>5, <1>6

LEMMA DivisionOctet ==
  ASSUME NEW a \in Nat, NEW b \in Byte
  PROVE  (a * Octet + b) \div Octet = a
<1>1. Octet \in Nat /\ Octet > 0 /\ b \in Nat /\ b < Octet
  BY OctetAssumption DEF Byte
<1> QED
  BY <1>1

LEMMA Decalage ==
  ASSUME NEW w \in Mot
  PROVE  Nombre(Droite(w, 1)) = Nombre(w) \div Octet /\ Nombre(w) \div Octet \in Nat
<1>1. Droite(w, 1) = <<0, w[1], w[2], w[3]>>
  BY DEF Droite, Mot
<1>2. w[1] \in Byte /\ w[2] \in Byte /\ w[3] \in Byte /\ w[4] \in Byte /\ 0 \in Byte
  BY OctetsDe, OctetAssumption DEF Byte
<1>3. <<0, w[1], w[2], w[3]>> \in Mot
  BY <1>2, Tuples
<1> DEFINE x == (w[1] * Octet + w[2]) * Octet + w[3]
<1>4. Nombre(<<0, w[1], w[2], w[3]>>) = ((0 * Octet + w[1]) * Octet + w[2]) * Octet + w[3]
  BY <1>3, NombreMot
<1>5. 0 * Octet + w[1] = w[1]
  BY <1>2, OctetAssumption DEF Byte
<1>6. x \in Nat
  <2>1. \A a, b \in Nat : a * Octet + b \in Nat
    BY OctetAssumption
  <2>2. w[1] \in Nat /\ w[2] \in Nat /\ w[3] \in Nat
    BY <1>2 DEF Byte
  <2> QED
    BY <2>1, <2>2
<1>7. Nombre(w) = x * Octet + w[4]
  BY NombreMot
<1> HIDE DEF x
<1>8. Nombre(w) \div Octet = x
  BY <1>2, <1>6, <1>7, DivisionOctet
<1> QED
  BY <1>1, <1>4, <1>5, <1>6, <1>8 DEF x

-----------------------------------------------------------------------------
(***************************************************************************)
(* The lists, and what is read from the file.                              *)
(***************************************************************************)

LEMMA ListeCreee ==
  ASSUME NEW taille \in Nat \ {0}, NEW E
  PROVE  /\ creer_liste(taille) \in [taille_max : Nat \ {0}, tab : Seq(E)]
         /\ creer_liste(taille).tab = <<>> /\ Contenue(creer_liste(taille))
BY DEF creer_liste, Contenue, n

\* An element more, in the room the list has or twice that room.
LEMMA ElementAjoute ==
  ASSUME NEW E, NEW liste \in [taille_max : Nat \ {0}, tab : Seq(E)], NEW x \in E
  PROVE  /\ ajouter(liste, x) \in [taille_max : Nat \ {0}, tab : Seq(E)]
         /\ ajouter(liste, x).tab = Append(liste.tab, x)
         /\ Contenue(liste) => Contenue(ajouter(liste, x))
<1> DEFINE place == IF Pleine(liste) THEN re_alloc(liste) ELSE liste
<1>1. liste.taille_max \in Nat \ {0} /\ liste.tab \in Seq(E) /\ Len(liste.tab) \in Nat
  BY LenProperties
<1>2. /\ place \in [taille_max : Nat \ {0}, tab : Seq(E)]
      /\ place.tab = liste.tab
      /\ Contenue(liste) => Len(liste.tab) + 1 <= place.taille_max
  BY <1>1 DEF Pleine, re_alloc, Contenue, n
<1>3. ajouter(liste, x) = [place EXCEPT !.tab = Append(@, x)]
  BY DEF ajouter
<1> HIDE DEF place
<1>4. Append(liste.tab, x) \in Seq(E) /\ Len(Append(liste.tab, x)) = Len(liste.tab) + 1
  BY <1>1, AppendProperties
<1> QED
  BY <1>2, <1>3, <1>4 DEF Contenue, n

\* What a file read whole holds is what it is; in every case what is read is the
\* header and the entries of a section.
LEMMA SectionsLues ==
  ASSUME NEW f \in Fichier, NEW s \in TablesLues(f)
  PROVE  /\ s \in Seq(Section) /\ Len(s) = Len(f.sect)
         /\ f.lisibles = Len(f.sect) => s = f.sect
<1> DEFINE h == swap_header(load_header(f))
           nb == Nombre(h.e_shnum)
<1>1. /\ f.e_shnum \in Demi /\ f.sect \in Seq(Section) /\ f.lisibles \in Nat
      /\ f.lisibles <= Len(f.sect) /\ Nombre(f.e_shnum) = Len(f.sect)
      /\ Len(f.sect) \in Nat
  BY LenProperties DEF Fichier
<1>2. h.e_shnum = f.e_shnum
  BY <1>1, OrdreDuFichier DEF swap_header, load_header
<1>3. nb = Len(f.sect)
  BY <1>1, <1>2
<1>4. PICK t \in load_tablesection(f, h) : s = [v \in DOMAIN t |-> swap_header_section(t[v])]
  BY DEF TablesLues
<1>5. PICK r \in [f.lisibles + 1 .. nb -> SectionsIndefinies] :
        t = [v \in 1 .. nb |-> IF v <= f.lisibles THEN load_section(f.sect[v]) ELSE r[v]]
  BY <1>4 DEF load_tablesection
<1> HIDE DEF h, nb
<1>6. s = [v \in 1 .. nb |-> swap_header_section(
                               IF v <= f.lisibles THEN load_section(f.sect[v]) ELSE r[v])]
  BY <1>4, <1>5
<1>7. ASSUME NEW x \in Section
      PROVE  swap_header_section(load_section(x)) = x
  <2>1. x.sh_type \in Mot /\ x.sh_flags \in Mot
    BY DEF Section
  <2>2. x = [nom |-> x.nom, sh_type |-> x.sh_type, sh_flags |-> x.sh_flags,
             contenu |-> x.contenu]
    BY DEF Section
  <2> QED
    BY <2>1, <2>2, OrdreDuFichier DEF swap_header_section, load_section
<1>8. \A v \in 1 .. nb : v <= f.lisibles => s[v] = f.sect[v] /\ f.sect[v] \in Section
  <2> SUFFICES ASSUME NEW v \in 1 .. nb, v <= f.lisibles
               PROVE  s[v] = f.sect[v] /\ f.sect[v] \in Section
    OBVIOUS
  <2>1. f.sect[v] \in Section
    BY <1>1, <1>3, ElementOfSeq
  <2> QED
    BY <1>6, <1>7, <2>1
<1>9. \A v \in 1 .. nb : v > f.lisibles => s[v] \in Section
  <2> SUFFICES ASSUME NEW v \in 1 .. nb, v > f.lisibles
               PROVE  s[v] \in Section
    OBVIOUS
  <2>1. v \in f.lisibles + 1 .. nb
    BY <1>1, <1>3
  <2>2. r[v] \in SectionsIndefinies
    BY <2>1
  <2>3. s[v] = swap_header_section(r[v])
    BY <1>1, <1>6
  <2> QED
    BY <2>2, <2>3, LectureAssumption
<1>10. \A v \in 1 .. nb : s[v] \in Section
  BY <1>1, <1>3, <1>8, <1>9
<1>11. s \in Seq(Section) /\ Len(s) = nb
  <2>1. DOMAIN s = 1 .. nb /\ s = [v \in 1 .. nb |-> s[v]] /\ nb \in Nat
    BY <1>1, <1>3, <1>6
  <2>2. s \in [1 .. nb -> Section]
    BY <1>10, <2>1
  <2> QED
    BY <2>1, <2>2
<1>12. ASSUME f.lisibles = Len(f.sect)
       PROVE  s = f.sect
  <2>1. \A v \in 1 .. Len(s) : s[v] = f.sect[v]
    BY <1>3, <1>8, <1>11, <1>12
  <2> QED
    BY <1>1, <1>3, <1>11, <2>1, SeqEqual
<1> QED
  BY <1>3, <1>11, <1>12

\* The entries of a relocation section.
LEMMA TableTypee ==
  ASSUME NEW s \in Section, DuType(s, SHT_REL) \/ DuType(s, SHT_RELA)
  PROVE  /\ Table(s) \in UneTable /\ Table(s).tab = s.contenu
         /\ Table(s).nom = s.nom
         /\ Table(s).size = IF DuType(s, SHT_REL) THEN Len(s.contenu) ELSE 0
<1>1. s.contenu \in Seq(Rels) /\ s.nom \in STRING /\ Len(s.contenu) \in Nat
  BY LenProperties DEF Section
<1> DEFINE t == [k \in DOMAIN s.contenu |-> swap_rel(load_rel(s.contenu[k]))]
<1>2. \A x \in Rels : swap_rel(load_rel(x)) = x
  <2> SUFFICES ASSUME NEW x \in Rels PROVE swap_rel(load_rel(x)) = x
    OBVIOUS
  <2>1. x.r_offset \in Mot /\ x.r_info \in Mot /\ x = [r_offset |-> x.r_offset, r_info |-> x.r_info]
    BY DEF Rels
  <2> QED
    BY <2>1, OrdreDuFichier DEF swap_rel, load_rel
<1>3. \A k \in DOMAIN s.contenu : s.contenu[k] \in Rels
  BY <1>1, ElementOfSeq
<1>4. t = s.contenu
  <2>1. s.contenu = [k \in DOMAIN s.contenu |-> s.contenu[k]]
    BY <1>1
  <2> QED
    BY <1>2, <1>3, <2>1
<1>5. Table(s) = [nom |-> s.nom, size |-> TailleComptee(s), tab |-> t]
  BY DEF Table
<1> HIDE DEF t
<1>6. TailleComptee(s) = IF DuType(s, SHT_REL) THEN Len(s.contenu) ELSE 0
  BY DEF TailleComptee
<1> QED
  BY <1>1, <1>4, <1>5, <1>6 DEF UneTable

-----------------------------------------------------------------------------
(***************************************************************************)
(* The letters of the flags.                                               *)
(***************************************************************************)

UnDrapeau == Range(Drapeaux)
EtatDrapeaux == [flags : Int, strflags : SUBSET {d.lettre : d \in UnDrapeau}]

LEMMA BitsConnus ==
  /\ Drapeaux[1].bit = 1024
  /\ Drapeaux[2].bit = 512
  /\ Drapeaux[3].bit = 256
  /\ Drapeaux[4].bit = 128
  /\ Drapeaux[5].bit = 64
  /\ Drapeaux[6].bit = 32
  /\ Drapeaux[7].bit = 16
  /\ Drapeaux[8].bit = 4
  /\ Drapeaux[9].bit = 2
  /\ Drapeaux[10].bit = 1
<1>1. Drapeaux[1].bit = 1024
  BY DEF Drapeaux
<1>2. Drapeaux[2].bit = 512
  BY DEF Drapeaux
<1>3. Drapeaux[3].bit = 256
  BY DEF Drapeaux
<1>4. Drapeaux[4].bit = 128
  BY DEF Drapeaux
<1>5. Drapeaux[5].bit = 64
  BY DEF Drapeaux
<1>6. Drapeaux[6].bit = 32
  BY DEF Drapeaux
<1>7. Drapeaux[7].bit = 16
  BY DEF Drapeaux
<1>8. Drapeaux[8].bit = 4
  BY DEF Drapeaux
<1>9. Drapeaux[9].bit = 2
  BY DEF Drapeaux
<1>10. Drapeaux[10].bit = 1
  BY DEF Drapeaux
<1> QED
  BY <1>1, <1>2, <1>3, <1>4, <1>5, <1>6, <1>7, <1>8, <1>9, <1>10

LEMMA DrapeauxConnus ==
  /\ Drapeaux \in Seq(UnDrapeau) /\ Len(Drapeaux) = 10
  /\ \A k \in 1 .. 10 : Drapeaux[k] \in UnDrapeau
  /\ \A d \in UnDrapeau : d.bit \in Nat /\ \E k \in 1 .. 10 : d = Drapeaux[k]
<1>1. Len(Drapeaux) = 10 /\ DOMAIN Drapeaux = 1 .. 10
  BY DEF Drapeaux
<1>2. Drapeaux = [k \in 1 .. 10 |-> Drapeaux[k]]
  BY DEF Drapeaux
<1>3. \A k \in 1 .. 10 : Drapeaux[k] \in UnDrapeau
  BY <1>1 DEF UnDrapeau, Range
<1>4. \A d \in UnDrapeau : \E k \in 1 .. 10 : d = Drapeaux[k]
  BY <1>1 DEF UnDrapeau, Range
<1>5. Drapeaux \in Seq(UnDrapeau)
  <2>1. Drapeaux \in [1 .. 10 -> UnDrapeau]
    BY <1>2, <1>3
  <2>2. \A m \in Nat : \A s \in [1 .. m -> UnDrapeau] : s \in Seq(UnDrapeau)
    OBVIOUS
  <2> QED
    BY <2>1, <2>2
<1>6. \A k \in 1 .. 10 : Drapeaux[k].bit \in Nat
  <2>1. \A k \in 1 .. 10 : k \in {1, 2, 3, 4, 5, 6, 7, 8, 9, 10}
    OBVIOUS
  <2> QED
    BY <2>1, BitsConnus
<1> QED
  BY <1>1, <1>3, <1>4, <1>5, <1>6

LEMMA EssaiType ==
  ASSUME NEW a \in EtatDrapeaux, NEW d \in UnDrapeau
  PROVE  Essai(a, d) \in EtatDrapeaux
<1>1. CASE a.flags - d.bit >= 0
  <2>1. a.flags - d.bit \in Int
    BY <1>1, DrapeauxConnus DEF EtatDrapeaux
  <2>2. a.strflags \cup {d.lettre} \in SUBSET {e.lettre : e \in UnDrapeau}
    BY DEF EtatDrapeaux
  <2> QED
    BY <1>1, <2>1, <2>2 DEF Essai, EtatDrapeaux
<1>2. CASE ~(a.flags - d.bit >= 0)
  BY <1>2 DEF Essai
<1> QED
  BY <1>1, <1>2

EssaisDe(g, x) ==
  g = [k \in 0 .. Len(Drapeaux) |-> IF k = 0 THEN [flags |-> EnInt(x), strflags |-> {}]
                                    ELSE Essai(g[k - 1], Drapeaux[k])]

LEMMA EnIntType ==
  ASSUME NEW x \in Nat
  PROVE  EnInt(x) \in Int
<1> DEFINE mots == Octet * Octet * Octet * Octet
<1>1. mots \in Int
  <2>1. Octet \in Int
    BY OctetAssumption
  <2> QED
    BY <2>1
<1> HIDE DEF mots
<1>2. EnInt(x) = IF x < mots \div 2 THEN x ELSE x - mots
  BY DEF EnInt, mots
<1>3. x \in Int /\ x - mots \in Int
  BY <1>1
<1> QED
  BY <1>2, <1>3

\* The flags are tried one after the other.
LEMMA Essais ==
  ASSUME NEW x \in Nat
  PROVE  \E g \in [0 .. 10 -> EtatDrapeaux] :
           /\ permissions(x) = g[10].strflags
           /\ g[0] = [flags |-> EnInt(x), strflags |-> {}]
           /\ \A k \in 1 .. 10 : g[k] = Essai(g[k - 1], Drapeaux[k])
<1> DEFINE f == [p \in EtatDrapeaux \X UnDrapeau |-> Essai(p[1], p[2])]
           base == [flags |-> EnInt(x), strflags |-> {}]
<1>1. Drapeaux \in Seq(UnDrapeau) /\ Len(Drapeaux) = 10
  BY DrapeauxConnus
<1>2. /\ f \in [EtatDrapeaux \X UnDrapeau -> EtatDrapeaux]
      /\ \A a \in EtatDrapeaux, d \in UnDrapeau : f[<<a, d>>] = Essai(a, d)
  BY EssaiType
<1>3. base \in EtatDrapeaux
  BY EnIntType DEF EtatDrapeaux
<1> HIDE DEF f, base
<1>4. PICK g \in [0 .. 10 -> EtatDrapeaux] : Etapes(g, f, base, Drapeaux, 10)
  <2>1. \E g \in [0 .. Len(Drapeaux) -> EtatDrapeaux] : Etapes(g, f, base, Drapeaux, Len(Drapeaux))
    BY <1>1, <1>2, <1>3, EtapesExistent
  <2> QED
    BY <1>1, <2>1
<1>5. \A k \in 1 .. 10 : g[k] = Essai(g[k - 1], Drapeaux[k])
  <2> SUFFICES ASSUME NEW k \in 1 .. 10 PROVE g[k] = Essai(g[k - 1], Drapeaux[k])
    OBVIOUS
  <2>1. g[k - 1] \in EtatDrapeaux /\ Drapeaux[k] \in UnDrapeau
    BY <1>4, DrapeauxConnus
  <2>2. g[k] = f[<<g[k - 1], Drapeaux[k]>>]
    BY <1>4 DEF Etapes
  <2> QED
    BY <1>2, <2>1, <2>2
<1>6. g[0] = base
  BY <1>4 DEF Etapes
<1>7. EssaisDe(g, x)
  BY <1>1, <1>4, <1>5, <1>6 DEF EssaisDe, base
<1> DEFINE c == CHOOSE h : EssaisDe(h, x)
<1>8. EssaisDe(c, x)
  BY <1>7
<1>9. permissions(x) = c[10].strflags
  BY <1>1 DEF permissions, EssaisDe
<1> HIDE DEF c
<1>10. c[10] = g[10]
  <2> DEFINE Bons == {k \in 0 .. 10 : c[k] = g[k]}
  <2>0. \A k \in 0 .. 10 : c[k] = IF k = 0 THEN base ELSE Essai(c[k - 1], Drapeaux[k])
    BY <1>1, <1>8 DEF EssaisDe, base
  <2>1. 0 \in Bons
    BY <1>6, <2>0
  <2>2. \A k \in 1 .. 10 : k - 1 \in Bons => k \in Bons
    BY <1>5, <2>0
  <2>3. Bons \in SUBSET (0 .. 10) /\ 10 \in Nat
    OBVIOUS
  <2> HIDE DEF Bons
  <2>4. Bons = 0 .. 10
    BY <2>1, <2>2, <2>3, PremierEchec
  <2> QED
    BY <2>4 DEF Bons
<1>11. permissions(x) = g[10].strflags /\ g[0] = [flags |-> EnInt(x), strflags |-> {}]
  BY <1>6, <1>9, <1>10 DEF base
<1> QED
  BY <1>4, <1>5, <1>11

LEMMA Bit ==
  ASSUME NEW x \in Nat
  PROVE  \A b \in {1, 2, 4, 16, 32, 64, 128, 256, 512, 1024} :
           /\ x % (2 * b) \in Nat
           /\ (x % (2 * b)) - b >= 0 <=> (x \div b) % 2 = 1
           /\ x % b = IF (x % (2 * b)) - b >= 0 THEN (x % (2 * b)) - b ELSE x % (2 * b)
<1>1. /\ x % 2048 \in Nat /\ ((x % 2048) - 1024 >= 0 <=> (x \div 1024) % 2 = 1)
      /\ x % 1024 = IF (x % 2048) - 1024 >= 0 THEN (x % 2048) - 1024 ELSE x % 2048
  OBVIOUS
<1>2. /\ x % 1024 \in Nat /\ ((x % 1024) - 512 >= 0 <=> (x \div 512) % 2 = 1)
      /\ x % 512 = IF (x % 1024) - 512 >= 0 THEN (x % 1024) - 512 ELSE x % 1024
  OBVIOUS
<1>3. /\ x % 512 \in Nat /\ ((x % 512) - 256 >= 0 <=> (x \div 256) % 2 = 1)
      /\ x % 256 = IF (x % 512) - 256 >= 0 THEN (x % 512) - 256 ELSE x % 512
  OBVIOUS
<1>4. /\ x % 256 \in Nat /\ ((x % 256) - 128 >= 0 <=> (x \div 128) % 2 = 1)
      /\ x % 128 = IF (x % 256) - 128 >= 0 THEN (x % 256) - 128 ELSE x % 256
  OBVIOUS
<1>5. /\ x % 128 \in Nat /\ ((x % 128) - 64 >= 0 <=> (x \div 64) % 2 = 1)
      /\ x % 64 = IF (x % 128) - 64 >= 0 THEN (x % 128) - 64 ELSE x % 128
  OBVIOUS
<1>6. /\ x % 64 \in Nat /\ ((x % 64) - 32 >= 0 <=> (x \div 32) % 2 = 1)
      /\ x % 32 = IF (x % 64) - 32 >= 0 THEN (x % 64) - 32 ELSE x % 64
  OBVIOUS
<1>7. /\ x % 32 \in Nat /\ ((x % 32) - 16 >= 0 <=> (x \div 16) % 2 = 1)
      /\ x % 16 = IF (x % 32) - 16 >= 0 THEN (x % 32) - 16 ELSE x % 32
  OBVIOUS
<1>8. /\ x % 8 \in Nat /\ ((x % 8) - 4 >= 0 <=> (x \div 4) % 2 = 1)
      /\ x % 4 = IF (x % 8) - 4 >= 0 THEN (x % 8) - 4 ELSE x % 8
  OBVIOUS
<1>9. /\ x % 4 \in Nat /\ ((x % 4) - 2 >= 0 <=> (x \div 2) % 2 = 1)
      /\ x % 2 = IF (x % 4) - 2 >= 0 THEN (x % 4) - 2 ELSE x % 4
  OBVIOUS
<1>10. /\ x % 2 \in Nat /\ ((x % 2) - 1 >= 0 <=> (x \div 1) % 2 = 1)
      /\ x % 1 = IF (x % 2) - 1 >= 0 THEN (x % 2) - 1 ELSE x % 2
  OBVIOUS
<1> QED
  BY <1>1, <1>2, <1>3, <1>4, <1>5, <1>6, <1>7, <1>8, <1>9, <1>10

\* One flag more: what is left is the number modulo that flag.
LEMMA UnEssai ==
  ASSUME NEW x \in Nat, NEW k \in 1 .. 10, NEW d, d = Drapeaux[k],
         NEW a \in EtatDrapeaux, a.flags = x % (2 * d.bit)
  PROVE  /\ Essai(a, d).flags = x % d.bit
         /\ Essai(a, d).strflags = a.strflags \cup IF A(x, d.bit) THEN {d.lettre} ELSE {}
<1>1. d.bit \in {1, 2, 4, 16, 32, 64, 128, 256, 512, 1024}
  <2>1. \/ k = 1 \/ k = 2 \/ k = 3 \/ k = 4 \/ k = 5
        \/ k = 6 \/ k = 7 \/ k = 8 \/ k = 9 \/ k = 10
    OBVIOUS
  <2> QED
    BY <2>1, BitsConnus
<1>2. /\ a.flags - d.bit >= 0 <=> A(x, d.bit)
      /\ x % d.bit = IF a.flags - d.bit >= 0 THEN a.flags - d.bit ELSE a.flags
  BY <1>1, Bit DEF A
<1>3. a = [flags |-> a.flags, strflags |-> a.strflags]
  BY DEF EtatDrapeaux
<1>4. CASE a.flags - d.bit >= 0
  BY <1>2, <1>4 DEF Essai
<1>5. CASE ~(a.flags - d.bit >= 0)
  BY <1>2, <1>5 DEF Essai
<1> QED
  BY <1>4, <1>5

LEMMA PermissionsType ==
  ASSUME NEW x \in Nat
  PROVE  permissions(x) \in SUBSET {d.lettre : d \in Range(Drapeaux)}
<1>1. PICK g \in [0 .. 10 -> EtatDrapeaux] : permissions(x) = g[10].strflags
  BY Essais
<1>2. g[10] \in EtatDrapeaux
  BY <1>1
<1> QED
  BY <1>1, <1>2 DEF EtatDrapeaux, UnDrapeau

\* Induction on the flags.
LEMMA ParLesDrapeaux ==
  ASSUME NEW Bons \in SUBSET (0 .. 10), 0 \in Bons,
         \A m \in 1 .. 10 : m - 1 \in Bons => m \in Bons
  PROVE  Bons = 0 .. 10
BY PremierEchec

\* The letters are those of the flags, when there is none that is not known.
LEMMA PermissionsLettres ==
  ASSUME NEW w \in Nat, NEW x \in Nat, x <= 2047, x = EnInt(w), ~A(x, 8)
  PROVE  permissions(w) = Lettres(x)
<1>1. PICK g \in [0 .. 10 -> EtatDrapeaux] :
        /\ permissions(w) = g[10].strflags
        /\ g[0] = [flags |-> x, strflags |-> {}]
        /\ \A k \in 1 .. 10 : g[k] = Essai(g[k - 1], Drapeaux[k])
  BY Essais
<1> DEFINE DesPremiers(m) == {Drapeaux[k].lettre : k \in {q \in 1 .. m : A(x, Drapeaux[q].bit)}}
           Bons == {m \in 0 .. 10 :
                      /\ g[m].strflags = DesPremiers(m)
                      /\ m < 10 => g[m].flags = x % (2 * Drapeaux[m + 1].bit)}
<1>2. 0 \in Bons
  <2>1. DesPremiers(0) = {}
    OBVIOUS
  <2>2. x = x % 2048
    OBVIOUS
  <2> QED
    BY <1>1, <2>1, <2>2, BitsConnus
<1>3. \A m \in 1 .. 9 : x % Drapeaux[m].bit = x % (2 * Drapeaux[m + 1].bit)
  <2>0. x % 16 = x % 8
    BY DEF A
  <2>1. x % Drapeaux[1].bit = x % (2 * Drapeaux[2].bit)
    BY <2>0, BitsConnus
  <2>2. x % Drapeaux[2].bit = x % (2 * Drapeaux[3].bit)
    BY <2>0, BitsConnus
  <2>3. x % Drapeaux[3].bit = x % (2 * Drapeaux[4].bit)
    BY <2>0, BitsConnus
  <2>4. x % Drapeaux[4].bit = x % (2 * Drapeaux[5].bit)
    BY <2>0, BitsConnus
  <2>5. x % Drapeaux[5].bit = x % (2 * Drapeaux[6].bit)
    BY <2>0, BitsConnus
  <2>6. x % Drapeaux[6].bit = x % (2 * Drapeaux[7].bit)
    BY <2>0, BitsConnus
  <2>7. x % Drapeaux[7].bit = x % (2 * Drapeaux[8].bit)
    BY <2>0, BitsConnus
  <2>8. x % Drapeaux[8].bit = x % (2 * Drapeaux[9].bit)
    BY <2>0, BitsConnus
  <2>9. x % Drapeaux[9].bit = x % (2 * Drapeaux[10].bit)
    BY <2>0, BitsConnus
  <2>10. \A m \in 1 .. 9 : \/ m = 1 \/ m = 2 \/ m = 3 \/ m = 4 \/ m = 5
                           \/ m = 6 \/ m = 7 \/ m = 8 \/ m = 9
    OBVIOUS
  <2> QED
    BY <2>1, <2>2, <2>3, <2>4, <2>5, <2>6, <2>7, <2>8, <2>9, <2>10
<1>4. ASSUME NEW m \in 1 .. 10, m - 1 \in Bons
      PROVE  m \in Bons
  <2> DEFINE d == Drapeaux[m]
  <2>1. /\ m - 1 \in 0 .. 10 /\ g[m - 1] \in EtatDrapeaux /\ g[m] = Essai(g[m - 1], d)
        /\ g[m - 1].flags = x % (2 * d.bit) /\ g[m - 1].strflags = DesPremiers(m - 1)
    BY <1>1, <1>4
  <2>2. /\ g[m].flags = x % d.bit
        /\ g[m].strflags = DesPremiers(m - 1) \cup IF A(x, d.bit) THEN {d.lettre} ELSE {}
    <3> DEFINE a == g[m - 1]
    <3>1. /\ a \in EtatDrapeaux /\ g[m] = Essai(a, d) /\ d = Drapeaux[m]
          /\ a.flags = x % (2 * d.bit) /\ a.strflags = DesPremiers(m - 1)
      BY <2>1
    <3> HIDE DEF a, d, DesPremiers
    <3>2. /\ Essai(a, d).flags = x % d.bit
          /\ Essai(a, d).strflags = a.strflags \cup IF A(x, d.bit) THEN {d.lettre} ELSE {}
      BY <3>1, UnEssai
    <3> QED
      BY <3>1, <3>2
  <2>3. DesPremiers(m) = DesPremiers(m - 1) \cup IF A(x, d.bit) THEN {d.lettre} ELSE {}
    <3>1. \A q \in 1 .. m : q \in 1 .. m - 1 \/ q = m
      OBVIOUS
    <3>2. \A q \in 1 .. m - 1 : q \in 1 .. m
      OBVIOUS
    <3> QED
      BY <3>1, <3>2
  <2>4. m < 10 => g[m].flags = x % (2 * Drapeaux[m + 1].bit)
    BY <1>3, <2>2
  <2> QED
    BY <2>2, <2>3, <2>4
<1>5. Bons \in SUBSET (0 .. 10) /\ 10 \in Nat
  OBVIOUS
<1> HIDE DEF Bons, DesPremiers
<1>6. Bons = 0 .. 10
  <2>1. \A m \in 1 .. 10 : m - 1 \in Bons => m \in Bons
    BY <1>4
  <2> QED
    BY <1>2, <1>5, <2>1, ParLesDrapeaux
<1>7. g[10].strflags = DesPremiers(10)
  BY <1>6 DEF Bons
<1>8. DesPremiers(10) = Lettres(x)
  <2>1. \A d \in UnDrapeau : \E k \in 1 .. 10 : d = Drapeaux[k]
    BY DrapeauxConnus
  <2>2. \A k \in 1 .. 10 : Drapeaux[k] \in UnDrapeau
    BY DrapeauxConnus
  <2>3. Lettres(x) = {d.lettre : d \in {e \in UnDrapeau : A(x, e.bit)}}
    BY DEF Lettres, UnDrapeau
  <2> QED
    BY <2>1, <2>2, <2>3 DEF DesPremiers
<1> QED
  BY <1>1, <1>7, <1>8

\* What the display takes from a file is typed.
LEMMA HeaderLu ==
  ASSUME NEW f \in Fichier
  PROVE  Nombre(swap_header(load_header(f)).e_shnum) = Len(f.sect) /\ Len(f.sect) \in Nat
<1>1. /\ f.e_shnum \in Demi /\ Nombre(f.e_shnum) = Len(f.sect) /\ Len(f.sect) \in Nat
  BY LenProperties DEF Fichier
<1>2. swap_header(load_header(f)).e_shnum = f.e_shnum
  BY <1>1, OrdreDuFichier DEF swap_header, load_header
<1> QED
  BY <1>1, <1>2

LEMMA MotsInverses ==
  /\ \A w \in Mot : Lu_32(w) \in Mot /\ invert_endian_32(w) \in Mot
  /\ \A w \in Demi : Lu_16(w) \in Demi /\ invert_endian_16(w) \in Demi
<1>1. \A w \in Mot : Lu_32(w) \in Mot /\ invert_endian_32(w) = Lu_32(w)
  BY Tuples, OctetsDe, Renversement32 DEF Lu_32
<1>2. \A w \in Demi : Lu_16(w) \in Demi /\ invert_endian_16(w) = Lu_16(w)
  BY Tuples, OctetsDe, Renversement16 DEF Lu_16
<1> QED
  BY <1>1, <1>2

\* A symbol loaded is a symbol, and swapped it is that of the file.
LEMMA SymboleLu ==
  ASSUME NEW x \in Symboles
  PROVE  /\ load_symb(x) \in Symboles /\ swap_header_symb(x) \in Symboles
         /\ swap_header_symb(load_symb(x)) = x
<1>1. /\ x.st_value \in Mot /\ x.st_shndx \in Demi
      /\ x = [st_value |-> x.st_value, st_shndx |-> x.st_shndx]
  BY DEF Symboles
<1>2. /\ Lu_32(x.st_value) \in Mot /\ Lu_16(x.st_shndx) \in Demi
      /\ invert_endian_32(x.st_value) \in Mot /\ invert_endian_16(x.st_shndx) \in Demi
  BY <1>1, MotsInverses
<1>3. load_symb(x) = [st_value |-> Lu_32(x.st_value), st_shndx |-> Lu_16(x.st_shndx)]
  BY DEF load_symb
<1>4. swap_header_symb(x) = [st_value |-> invert_endian_32(x.st_value),
                            st_shndx |-> invert_endian_16(x.st_shndx)]
  BY <1>1 DEF swap_header_symb
<1>5. swap_header_symb(load_symb(x))
        = [st_value |-> invert_endian_32(Lu_32(x.st_value)),
           st_shndx |-> invert_endian_16(Lu_16(x.st_shndx))]
  BY <1>3 DEF swap_header_symb
<1>6. invert_endian_32(Lu_32(x.st_value)) = x.st_value /\ invert_endian_16(Lu_16(x.st_shndx)) = x.st_shndx
  BY <1>1, OrdreDuFichier
<1> QED
  BY <1>1, <1>2, <1>3, <1>4, <1>5, <1>6 DEF Symboles

LEMMA ListeInversee ==
  ASSUME NEW liste \in [taille_max : Nat \ {0}, tab : Seq(Symboles)]
  PROVE  /\ Inversee(liste) \in [taille_max : Nat \ {0}, tab : Seq(Symboles)]
         /\ Len(Inversee(liste).tab) = Len(liste.tab)
         /\ Inversee(liste).taille_max = liste.taille_max
         /\ \A k \in 1 .. Len(liste.tab) : Inversee(liste).tab[k] = swap_header_symb(liste.tab[k])
<1> DEFINE m == Len(liste.tab)
           t == [k \in DOMAIN liste.tab |-> swap_header_symb(liste.tab[k])]
<1>1. /\ liste.tab \in Seq(Symboles) /\ m \in Nat /\ DOMAIN liste.tab = 1 .. m
      /\ \A k \in 1 .. m : liste.tab[k] \in Symboles
  BY LenProperties, ElementOfSeq
<1>2. t \in [1 .. m -> Symboles] /\ \A k \in 1 .. m : t[k] = swap_header_symb(liste.tab[k])
  BY <1>1, SymboleLu
<1>3. Inversee(liste) = [liste EXCEPT !.tab = t]
  BY DEF Inversee
<1> HIDE DEF m, t
<1>4. t \in Seq(Symboles) /\ Len(t) = m
  BY <1>1, <1>2
<1> QED
  BY <1>2, <1>3, <1>4 DEF m

LEMMA SectionAffichee ==
  ASSUME NEW s \in Seq(Section)
  PROVE  /\ print_section_table(s) \in Seq(LigneTable)
         /\ DOMAIN print_section_table(s) = DOMAIN s
         /\ \A v \in DOMAIN s :
              print_section_table(s)[v].permissions = permissions(Nombre(s[v].sh_flags))
<1> DEFINE f == print_section_table(s)
           m == Len(s)
<1>1. m \in Nat /\ DOMAIN s = 1 .. m /\ \A v \in 1 .. m : s[v] \in Section
  BY LenProperties, ElementOfSeq
<1>2. f = [v \in 1 .. m |-> [nom |-> s[v].nom, type |-> Nombre(s[v].sh_type),
                             permissions |-> permissions(Nombre(s[v].sh_flags))]]
  BY <1>1 DEF print_section_table
<1>3. ASSUME NEW v \in 1 .. m
      PROVE  f[v] \in LigneTable /\ f[v].permissions = permissions(Nombre(s[v].sh_flags))
  <2>1. s[v].nom \in STRING /\ s[v].sh_type \in Mot /\ s[v].sh_flags \in Mot
    BY <1>1 DEF Section
  <2>2. Nombre(s[v].sh_type) \in Nat /\ Nombre(s[v].sh_flags) \in Nat
    BY <2>1, NombreMot
  <2>3. permissions(Nombre(s[v].sh_flags)) \in SUBSET {d.lettre : d \in Range(Drapeaux)}
    BY <2>2, PermissionsType
  <2>4. f[v] = [nom |-> s[v].nom, type |-> Nombre(s[v].sh_type),
                permissions |-> permissions(Nombre(s[v].sh_flags))]
    BY <1>2
  <2> HIDE DEF f
  <2> QED
    BY <2>1, <2>2, <2>3, <2>4 DEF LigneTable
<1>4. DOMAIN f = 1 .. m
  BY <1>2
<1> HIDE DEF f, m
<1>5. f \in [1 .. m -> LigneTable]
  BY <1>2, <1>3
<1>6. f \in Seq(LigneTable)
  BY <1>1, <1>5
<1> QED
  BY <1>1, <1>3, <1>4, <1>6 DEF f

-----------------------------------------------------------------------------
(***************************************************************************)
(* The table of --debug (DebugFiles).                                      *)
(***************************************************************************)

LEMMA PlaceTrouvee ==
  ASSUME NEW files \in Seq(Nat), NEW name \in Nat
  PROVE  /\ Place(files, name) \in 0 .. Len(files)
         /\ \A k \in 0 .. Place(files, name) - 1 : files[k + 1] < name /\ k < MAX_FILES_NUMBER
         /\ \/ Place(files, name) = Len(files) \/ Place(files, name) >= MAX_FILES_NUMBER
            \/ files[Place(files, name) + 1] >= name
<1>1. Len(files) \in Nat /\ \A k \in 1 .. Len(files) : files[k] \in Nat
  BY LenProperties, ElementOfSeq
<1> DEFINE R == {p \in 0 .. Len(files) :
                   p = Len(files) \/ p >= MAX_FILES_NUMBER \/ files[p + 1] >= name}
<1>2. R \subseteq Nat /\ R # {}
  <2>1. Len(files) \in R
    BY <1>1
  <2> QED
    BY <1>1, <2>1
<1> HIDE DEF R
<1>3. PICK p \in R : \A q \in R : p <= q
  BY <1>2, Minimum
<1>4. p \in 0 .. Len(files) /\ (p = Len(files) \/ p >= MAX_FILES_NUMBER \/ files[p + 1] >= name)
  BY <1>3 DEF R
<1>5. ASSUME NEW k \in 0 .. p - 1
      PROVE  files[k + 1] < name /\ k < MAX_FILES_NUMBER
  <2>1. k \in 0 .. Len(files) /\ k < p /\ k + 1 \in 1 .. Len(files) /\ k # Len(files)
    BY <1>1, <1>4
  <2>2. k \notin R
    BY <1>2, <1>3, <2>1
  <2>3. ~(k >= MAX_FILES_NUMBER) /\ ~(files[k + 1] >= name)
    BY <2>1, <2>2 DEF R
  <2>4. files[k + 1] \in Nat
    BY <1>1, <2>1
  <2> QED
    BY <2>1, <2>3, <2>4, DebugAssumption
<1> QED
  BY <1>4, <1>5 DEF Place

\* A name more, at its place, or no change.
LEMMA NomAjoute ==
  ASSUME NEW N, N \subseteq Nat, NEW files \in Seq(N), NEW name \in N
  PROVE  add_debug_to(files, name) \in Seq(N)
<1>1. files \in Seq(Nat) /\ name \in Nat
  <2>1. files \in [1 .. Len(files) -> N] /\ Len(files) \in Nat
    BY LenProperties
  <2>2. files \in [1 .. Len(files) -> Nat]
    BY <2>1
  <2> QED
    BY <2>1, <2>2
<1>2. Place(files, name) \in 0 .. Len(files)
  BY <1>1, PlaceTrouvee
<1>3. InsertAt(files, Place(files, name) + 1, name) \in Seq(N)
  BY <1>2, Insere
<1> QED
  BY <1>3 DEF add_debug_to

-----------------------------------------------------------------------------
(***************************************************************************)
(* The invariant.                                                          *)
(***************************************************************************)

Lignes == UNION {UneLigne(q) : q \in DOMAIN Valeurs}

\* What was printed until word m was reached.
Jusqua(s, m) == s \in Seq(Lignes) /\ \A k \in DOMAIN s : s[k].opt <= m

IInv == TypeOK /\ OptionEnCours /\ sortie \in Seq(Lignes)

LEMMA LignesTypees ==
  \A l \in Lignes : l.quoi \in DOMAIN Valeurs /\ l \in UneLigne(l.quoi) /\ l.opt \in Nat
<1> SUFFICES ASSUME NEW l \in Lignes
             PROVE  l.quoi \in DOMAIN Valeurs /\ l \in UneLigne(l.quoi) /\ l.opt \in Nat
  OBVIOUS
<1>1. PICK q \in DOMAIN Valeurs : l \in UneLigne(q)
  BY DEF Lignes
<1>2. l.quoi = q /\ l.opt \in Nat
  BY <1>1 DEF UneLigne
<1> QED
  BY <1>1, <1>2

LEMMA LigneTypee ==
  ASSUME NEW o \in Nat, NEW q \in DOMAIN Valeurs, NEW x \in Valeurs[q]
  PROVE  [opt |-> o, quoi |-> q, v |-> x] \in Lignes
<1>1. [opt |-> o, quoi |-> q, v |-> x] \in UneLigne(q)
  BY DEF UneLigne
<1> QED
  BY <1>1 DEF Lignes

LEMMA LesValeurs ==
  /\ DOMAIN Valeurs = {"header", "section", "table", "symbole", "titre", "rel"}
  /\ Valeurs["header"] = Nat /\ Valeurs["section"] = Nat
  /\ Valeurs["table"] = Seq(LigneTable)
  /\ Valeurs["symbole"] = [st_value : Nat, st_shndx : Nat]
  /\ Valeurs["titre"] = [nom : STRING, nb : Nat] /\ Valeurs["rel"] = LigneRel
BY DEF Valeurs

LEMMA JusquaPlus ==
  ASSUME NEW s, NEW m \in Nat, NEW p \in Nat, m <= p, Jusqua(s, m)
  PROVE  Jusqua(s, p)
<1>1. \A k \in DOMAIN s : s[k].opt \in Nat
  BY LignesTypees, ElementOfSeq DEF Jusqua
<1> QED
  BY <1>1 DEF Jusqua

LEMMA JusquaEncore ==
  ASSUME NEW s, NEW m \in Nat, Jusqua(s, m), NEW r \in Seq(Lignes),
         \A k \in DOMAIN r : r[k].opt = m
  PROVE  Jusqua(s \o r, m)
<1>1. /\ s \in Seq(Lignes) /\ Len(s) \in Nat /\ Len(r) \in Nat
      /\ DOMAIN s = 1 .. Len(s) /\ DOMAIN r = 1 .. Len(r)
  BY LenProperties DEF Jusqua
<1>2. /\ s \o r \in Seq(Lignes) /\ DOMAIN (s \o r) = 1 .. Len(s) + Len(r)
      /\ \A k \in 1 .. Len(s) + Len(r) :
           (s \o r)[k] = IF k <= Len(s) THEN s[k] ELSE r[k - Len(s)]
  BY <1>1, ConcatProperties
<1>3. ASSUME NEW k \in 1 .. Len(s) + Len(r)
      PROVE  (s \o r)[k].opt <= m
  <2>1. CASE k <= Len(s)
    BY <1>1, <1>2, <2>1 DEF Jusqua
  <2>2. CASE ~(k <= Len(s))
    <3>1. k - Len(s) \in DOMAIN r
      BY <1>1, <2>2
    <3> QED
      BY <1>2, <2>2, <3>1
  <2> QED
    BY <2>1, <2>2
<1> QED
  BY <1>2, <1>3 DEF Jusqua

LEMMA JusquaLigne ==
  ASSUME NEW s, NEW m \in Nat, Jusqua(s, m), NEW l \in Lignes, l.opt = m
  PROVE  Jusqua(Append(s, l), m)
<1>1. s \in Seq(Lignes) /\ Len(s) \in Nat /\ DOMAIN s = 1 .. Len(s)
  BY LenProperties DEF Jusqua
<1>2. /\ Append(s, l) \in Seq(Lignes) /\ DOMAIN Append(s, l) = 1 .. Len(s) + 1
      /\ \A k \in 1 .. Len(s) : Append(s, l)[k] = s[k]
      /\ Append(s, l)[Len(s) + 1] = l
  BY <1>1, AppendProperties
<1>3. \A k \in 1 .. Len(s) + 1 : k \in 1 .. Len(s) \/ k = Len(s) + 1
  BY <1>1
<1> QED
  BY <1>1, <1>2, <1>3 DEF Jusqua

LEMMA JusquaInv ==
  /\ Jusqua(sortie, optind) => Imprime /\ sortie \in Seq(Lignes)
  /\ IInv => Jusqua(sortie, optind) /\ optind \in Nat
<1>1. ASSUME Jusqua(sortie, optind)
      PROVE  Imprime
  <2>1. \A k \in DOMAIN sortie : sortie[k] \in Lignes
    BY <1>1, ElementOfSeq DEF Jusqua
  <2> QED
    BY <1>1, <2>1, LignesTypees DEF Imprime, Jusqua
<1>2. ASSUME IInv
      PROVE  Jusqua(sortie, optind) /\ optind \in Nat
  <2>1. Len(argv) \in Nat
    BY <1>2, LenProperties DEF IInv, TypeOK, MotsLus
  <2> QED
    BY <1>2, <2>1 DEF IInv, TypeOK, Imprime, Jusqua
<1> QED
  BY <1>1, <1>2 DEF Jusqua

\* Out of the parts of -D and -E there is no loop.
LEMMA HorsParcours ==
  pc \notin Parcours => Indices /\ OptionEnCours
BY DEF Indices, OptionEnCours, Parcours

\* The rest of the invariant, put back together.
LEMMA Reste ==
  ASSUME IInv, UNCHANGED <<argv, fichier>>, MotsLus',
         (pc \in {"debut", "options"} \cup Parcours \cup Finis)',
         optind' \in 1 .. Len(argv) + 1,
         ListesLues', Indices', OptionEnCours', Jusqua(sortie', optind'),
         debugged_files' \in Seq(Range(Rang)), debogues' \subseteq DOMAIN Rang
  PROVE  IInv'
<1>1. Imprime' /\ sortie' \in Seq(Lignes)
  <2>1. Jusqua(sortie, optind)'
    BY DEF Jusqua
  <2>2. (Jusqua(sortie, optind) => Imprime /\ sortie \in Seq(Lignes))'
    BY JusquaInv, PTL
  <2> QED
    BY <2>1, <2>2
<1>2. fichier' \in Fichier /\ (optind \in 1 .. Len(argv) + 1)'
  BY DEF IInv, TypeOK
<1> QED
  BY <1>1, <1>2 DEF IInv, TypeOK

\* A step that reads and prints nothing and is not in a loop of -D or -E.
LEMMA Avance ==
  ASSUME IInv, UNCHANGED <<argv, fichier, boucle, sortie, debugged_files, debogues>>,
         pc' \in {"debut", "options"} \cup Finis,
         optind' \in Nat, optind <= optind', optind' <= Len(argv) + 1,
         name_file' \in Range(argv) \cup {SansNom}
  PROVE  IInv'
<1>1. /\ MotsLus' /\ ListesLues' /\ pc' \in {"debut", "options"} \cup Parcours \cup Finis
      /\ debugged_files' \in Seq(Range(Rang)) /\ debogues' \subseteq DOMAIN Rang
  BY DEF IInv, TypeOK, MotsLus, ListesLues, boucle
<1>2. pc' \notin Parcours
  BY DEF Parcours, Finis
<1>3. Indices' /\ OptionEnCours'
  <2>1. (pc \notin Parcours => Indices /\ OptionEnCours)'
    BY HorsParcours, PTL
  <2> QED
    BY <1>2, <2>1
<1>4. optind \in Nat /\ optind' \in Nat /\ optind <= optind' /\ optind' \in 1 .. Len(argv) + 1
  <2>1. optind \in 1 .. Len(argv) + 1 /\ Len(argv) \in Nat
    BY LenProperties DEF IInv, TypeOK, MotsLus
  <2> QED
    BY <2>1
<1>5. Jusqua(sortie', optind')
  BY <1>4, JusquaInv, JusquaPlus
<1> QED
  BY <1>1, <1>3, <1>4, <1>5, Reste

LEMMA Entrees ==
  ASSUME IInv
  PROVE  /\ argv \in Seq(DOMAIN Rang) /\ Len(argv) \in Nat /\ DOMAIN argv = 1 .. Len(argv)
         /\ \A k \in 1 .. Len(argv) : argv[k] \in DOMAIN Rang /\ argv[k] \in Range(argv)
         /\ optind \in 1 .. Len(argv) + 1 /\ name_file \in Range(argv) \cup {SansNom}
<1>1. /\ argv \in Seq(DOMAIN Rang) /\ optind \in 1 .. Len(argv) + 1
      /\ name_file \in Range(argv) \cup {SansNom}
  BY DEF IInv, TypeOK, MotsLus
<1>2. Len(argv) \in Nat /\ DOMAIN argv = 1 .. Len(argv)
  BY <1>1, LenProperties
<1>3. \A k \in 1 .. Len(argv) : argv[k] \in DOMAIN Rang
  BY <1>1, ElementOfSeq
<1> QED
  BY <1>1, <1>2, <1>3 DEF Range

LEMMA OptionLue ==
  ASSUME IInv, NEW o \in AvecArgument, Option(o)
  PROVE  /\ pc = "options" /\ optind < Len(argv) /\ argv[optind] = o
         /\ optind + 2 \in Nat /\ optind <= optind + 2 /\ optind + 2 <= Len(argv) + 1
         /\ name_file' \in Range(argv) \cup {SansNom} /\ UNCHANGED <<argv, fichier, name_file>>
BY Entrees DEF Option

\* The steps that only move through the command line.
LEMMA PasSimple ==
  ASSUME IInv,
         \/ Demarrer \/ MotIgnore \/ FinOptions \/ OptionSortie \/ OptionHote
         \/ OptionDebugFatale \/ FichierAbsent \/ main_sectionFatale \/ SansVal
         \/ TronqueFatale \/ SansStrtab \/ NomHorsTable \/ FinImpression
  PROVE  IInv'
<1>1. /\ Len(argv) \in Nat /\ optind \in 1 .. Len(argv) + 1
      /\ name_file \in Range(argv) \cup {SansNom}
      /\ optind \in Nat /\ optind <= Len(argv) + 1
  BY Entrees
<1>2. CASE Demarrer
  <2>1. pc' \in {"debut", "options"} \cup Finis /\ optind' = optind
        /\ UNCHANGED <<argv, fichier, boucle, sortie, debugged_files, debogues>>
    BY <1>2 DEF Demarrer, Finis
  <2>2. name_file' \in Range(argv) \cup {SansNom}
    <3>1. CASE Len(argv) < 2
      BY <1>1, <1>2, <3>1 DEF Demarrer
    <3>2. CASE ~(Len(argv) < 2)
      <4>1. name_file' = argv[2] /\ 2 \in 1 .. Len(argv)
        BY <1>1, <1>2, <3>2 DEF Demarrer
      <4> QED
        BY <4>1, Entrees
    <3> QED
      BY <3>1, <3>2
  <2> QED
    BY <1>1, <2>1, <2>2, Avance
<1>3. CASE MotIgnore
  <2>1. pc' \in {"debut", "options"} \cup Finis /\ optind' \in Nat /\ optind <= optind' /\ optind' <= Len(argv) + 1
        /\ name_file' = name_file
        /\ UNCHANGED <<argv, fichier, boucle, sortie, debugged_files, debogues>>
    BY <1>1, <1>3 DEF MotIgnore, Finis
  <2> QED
    BY <1>1, <2>1, Avance
<1>4. CASE FinOptions
  <2>1. pc' \in {"debut", "options"} \cup Finis /\ optind' = optind /\ name_file' = name_file
        /\ UNCHANGED <<argv, fichier, boucle, sortie, debugged_files, debogues>>
    BY <1>4 DEF FinOptions, Finis
  <2> QED
    BY <1>1, <2>1, Avance
<1>5. CASE OptionSortie
  <2>1. pc' \in {"debut", "options"} \cup Finis /\ optind' = optind /\ name_file' = name_file
        /\ UNCHANGED <<argv, fichier, boucle, sortie, debugged_files, debogues>>
    BY <1>5 DEF OptionSortie, Finis
  <2> QED
    BY <1>1, <2>1, Avance
<1>6. CASE OptionHote
  <2>1. PICK o \in {"-H", "-S"} : Option(o)
    BY <1>6 DEF OptionHote
  <2>2. o \in AvecArgument
    BY DEF AvecArgument
  <2>3. /\ optind + 2 \in Nat /\ optind <= optind + 2 /\ optind + 2 <= Len(argv) + 1 /\ name_file' \in Range(argv) \cup {SansNom}
        /\ UNCHANGED <<argv, fichier>>
    BY <2>1, <2>2, OptionLue
  <2>4. /\ pc' \in {"debut", "options"} \cup Finis /\ optind' = optind + 2
        /\ UNCHANGED <<boucle, sortie, debugged_files, debogues>>
    BY <1>6 DEF OptionHote, OptionSuivante
  <2> QED
    BY <2>3, <2>4, Avance
<1>7. CASE \/ OptionDebugFatale \/ FichierAbsent \/ main_sectionFatale \/ SansVal
          \/ TronqueFatale \/ SansStrtab \/ NomHorsTable
  <2>1. /\ pc' \in {"debut", "options"} \cup Finis /\ optind' = optind
        /\ UNCHANGED <<argv, fichier, name_file, boucle, sortie, debugged_files, debogues>>
    BY <1>7 DEF OptionDebugFatale, FichierAbsent, main_sectionFatale, SansVal, TronqueFatale,
                SansStrtab, NomHorsTable, Option, FinSymboles, Imprimer, EnCours, Finis
  <2> QED
    BY <1>1, <2>1, Avance
<1>8. CASE FinImpression
  <2>1. pc = "impression" /\ pc' = "options" /\ optind' = optind + 2
        /\ UNCHANGED <<argv, fichier, name_file, boucle, sortie, debugged_files, debogues>>
    BY <1>8 DEF FinImpression, EnCours, OptionSuivante
  <2>2. optind < Len(argv)
    BY <2>1 DEF IInv, OptionEnCours, Parcours
  <2>3. optind' \in Nat /\ optind <= optind' /\ optind' <= Len(argv) + 1
    BY <1>1, <2>1, <2>2
  <2> QED
    BY <1>1, <2>1, <2>3, Avance
<1> QED
  BY <1>2, <1>3, <1>4, <1>5, <1>6, <1>7, <1>8

LEMMA LuesDuFichier ==
  ASSUME IInv, sections' \in TablesLues(fichier)
  PROVE  /\ sections' \in Seq(Section) /\ Len(sections') \in Nat
         /\ Entier => sections' = fichier.sect
<1>1. fichier \in Fichier
  BY DEF IInv, TypeOK
<1>2. /\ sections' \in Seq(Section)
      /\ fichier.lisibles = Len(fichier.sect) => sections' = fichier.sect
  BY <1>1, SectionsLues
<1> QED
  BY <1>2, LenProperties DEF Entier

\* An option that reads and prints at once.
LEMMA PasOption ==
  ASSUME IInv, NEW o \in AvecArgument, Option(o), OptionSuivante,
         ListesLues', Jusqua(sortie', optind),
         debugged_files' \in Seq(Range(Rang)), debogues' \subseteq DOMAIN Rang
  PROVE  IInv'
<1>1. /\ optind + 2 \in Nat /\ optind <= optind + 2 /\ optind + 2 <= Len(argv) + 1
      /\ UNCHANGED <<argv, fichier, name_file>>
  BY OptionLue
<1>2. optind \in Nat /\ optind \in 1 .. Len(argv) + 1 /\ Len(argv) \in Nat
  BY Entrees, JusquaInv
<1>3. pc' = "options" /\ optind' = optind + 2 /\ optind' \in 1 .. Len(argv) + 1
  BY <1>1, <1>2 DEF OptionSuivante
<1>4. MotsLus' /\ pc' \in {"debut", "options"} \cup Parcours \cup Finis
  BY <1>1, <1>3 DEF IInv, TypeOK, MotsLus
<1>5. Indices' /\ OptionEnCours'
  <2>1. (pc \notin Parcours => Indices /\ OptionEnCours)'
    BY HorsParcours, PTL
  <2> QED
    BY <1>3, <2>1 DEF Parcours
<1>6. Jusqua(sortie', optind')
  BY <1>1, <1>2, <1>3, JusquaPlus
<1> QED
  BY <1>1, <1>3, <1>4, <1>5, <1>6, Reste

LEMMA PasOptionDebug ==
  ASSUME IInv, OptionDebug
  PROVE  IInv'
<1>1. "-d" \in AvecArgument /\ Option("-d") /\ OptionSuivante /\ UNCHANGED <<boucle, sortie>>
  BY DEF OptionDebug, AvecArgument
<1>2. optind < Len(argv)
  BY <1>1, OptionLue
<1>3. optind + 1 \in 1 .. Len(argv)
  BY <1>2, Entrees
<1>4. argv[optind + 1] \in DOMAIN Rang /\ Rang[argv[optind + 1]] \in Range(Rang)
  BY <1>3, Entrees DEF Range
<1>5. Range(Rang) \subseteq Nat
  BY LectureAssumption DEF Range
<1>6. debugged_files \in Seq(Range(Rang)) /\ debogues \subseteq DOMAIN Rang
  BY DEF IInv, TypeOK
<1>7. debugged_files' \in Seq(Range(Rang))
  BY <1>4, <1>5, <1>6, NomAjoute DEF OptionDebug
<1>8. debogues' \subseteq DOMAIN Rang
  BY <1>4, <1>6 DEF OptionDebug
<1>9. ListesLues' /\ Jusqua(sortie', optind)
  BY <1>1, JusquaInv DEF IInv, TypeOK, ListesLues, boucle
<1> QED
  BY <1>1, <1>7, <1>8, <1>9, PasOption

LEMMA PasHeader ==
  ASSUME IInv, main_load_header
  PROVE  IInv'
<1> DEFINE x == Nombre(swap_header(load_header(fichier)).e_shnum)
<1>1. /\ "-A" \in AvecArgument /\ Option("-A") /\ OptionSuivante
      /\ UNCHANGED <<boucle, debugged_files, debogues>>
      /\ sortie' = Append(sortie, Ligne("header", x))
  BY DEF main_load_header, AvecArgument
<1>2. fichier \in Fichier
  BY DEF IInv, TypeOK
<1>3. x \in Nat
  BY <1>2, HeaderLu
<1> HIDE DEF x
<1>4. optind \in Nat /\ Jusqua(sortie, optind)
  BY JusquaInv
<1>5. Ligne("header", x) \in Lignes /\ Ligne("header", x).opt = optind
  BY <1>3, <1>4, LigneTypee, LesValeurs DEF Ligne
<1>6. Jusqua(sortie', optind)
  BY <1>1, <1>4, <1>5, JusquaLigne
<1>7. /\ ListesLues' /\ debugged_files' \in Seq(Range(Rang)) /\ debogues' \subseteq DOMAIN Rang
  BY <1>1 DEF IInv, TypeOK, ListesLues, boucle
<1> QED
  BY <1>1, <1>6, <1>7, PasOption

LEMMA PasTable ==
  ASSUME IInv, main_read_section_table
  PROVE  IInv'
<1> DEFINE x == print_section_table(sections')
<1>1. /\ "-B" \in AvecArgument /\ Option("-B") /\ OptionSuivante
      /\ sections' \in TablesLues(fichier)
      /\ UNCHANGED <<i, j, relocationtable, liste_symb, currentsymbol, debugged_files, debogues>>
      /\ sortie' = Append(sortie, Ligne("table", x))
  BY DEF main_read_section_table, AvecArgument
<1>2. sections' \in Seq(Section)
  BY <1>1, LuesDuFichier
<1>3. x \in Seq(LigneTable)
  BY <1>2, SectionAffichee
<1> HIDE DEF x
<1>4. optind \in Nat /\ Jusqua(sortie, optind)
  BY JusquaInv
<1>5. Ligne("table", x) \in Lignes /\ Ligne("table", x).opt = optind
  BY <1>3, <1>4, LigneTypee, LesValeurs DEF Ligne
<1>6. Jusqua(sortie', optind)
  BY <1>1, <1>4, <1>5, JusquaLigne
<1>7. ListesLues'
  BY <1>1, <1>2 DEF IInv, TypeOK, ListesLues
<1>8. debugged_files' \in Seq(Range(Rang)) /\ debogues' \subseteq DOMAIN Rang
  BY <1>1 DEF IInv, TypeOK
<1> QED
  BY <1>1, <1>6, <1>7, <1>8, PasOption

\* The section asked for has a number from 0 to e_shnum.
LEMMA UneSection ==
  ASSUME NEW s \in Seq(Section)
  PROVE  Demandees(s) \subseteq Nat
<1> DEFINE N == {v \in DOMAIN s : s[v].nom = argv[3]}
<1>1. N \subseteq Nat /\ \A v \in N : v >= 1
  BY LenProperties
<1>2. CASE N = {} \/ argv[3] \in DOMAIN Numeros
  BY <1>2, LenProperties DEF Demandees
<1>3. CASE N # {} /\ argv[3] \notin DOMAIN Numeros
  <2>1. Demandees(s) = {(CHOOSE v \in N : \A w \in N : v <= w) - 1}
    BY <1>3 DEF Demandees
  <2> HIDE DEF N
  <2> DEFINE c == CHOOSE v \in N : \A w \in N : v <= w
  <2>2. c \in N
    BY <1>1, <1>3, Minimum
  <2>3. Demandees(s) = {c - 1}
    BY <2>1
  <2> HIDE DEF c
  <2>4. c - 1 \in Nat
    BY <1>1, <2>2
  <2> QED
    BY <2>3, <2>4
<1> QED
  BY <1>2, <1>3

LEMMA PasSection ==
  ASSUME IInv, main_section
  PROVE  IInv'
<1>1. /\ "-C" \in AvecArgument /\ Option("-C") /\ OptionSuivante
      /\ UNCHANGED <<i, j, relocationtable, liste_symb, currentsymbol, debugged_files, debogues>>
  BY DEF main_section, AvecArgument
<1>2. optind \in Nat /\ Jusqua(sortie, optind)
  BY JusquaInv
<1>3. debugged_files' \in Seq(Range(Rang)) /\ debogues' \subseteq DOMAIN Rang
  BY <1>1 DEF IInv, TypeOK
<1>4. sections' \in Seq(Section) /\ Jusqua(sortie', optind)
  <2>1. CASE UNCHANGED <<sections, sortie>>
    BY <1>2, <2>1 DEF IInv, TypeOK, ListesLues
  <2>2. CASE /\ sections' \in TablesLues(fichier)
             /\ sortie' = IF Demandees(sections') = {} THEN sortie
                          ELSE Append(sortie, Ligne("section", CHOOSE v \in Demandees(sections') : TRUE))
    <3>1. sections' \in Seq(Section)
      BY <2>2, LuesDuFichier
    <3>2. CASE Demandees(sections') = {}
      BY <1>2, <2>2, <3>1, <3>2
    <3>3. CASE Demandees(sections') # {}
      <4> DEFINE D == Demandees(sections')
                 x == CHOOSE v \in D : TRUE
      <4>1. D \subseteq Nat /\ D # {}
        BY <3>1, <3>3, UneSection
      <4>2. sortie' = Append(sortie, Ligne("section", x))
        BY <2>2, <3>3
      <4> HIDE DEF D
      <4>3. x \in Nat
        BY <4>1
      <4> HIDE DEF x
      <4>4. Ligne("section", x) \in Lignes /\ Ligne("section", x).opt = optind
        BY <1>2, <4>3, LigneTypee, LesValeurs DEF Ligne
      <4> QED
        BY <1>2, <3>1, <4>2, <4>4, JusquaLigne
    <3> QED
      BY <3>2, <3>3
  <2> QED
    BY <2>1, <2>2 DEF main_section
<1>5. ListesLues'
  BY <1>1, <1>4 DEF IInv, TypeOK, ListesLues
<1> QED
  BY <1>1, <1>3, <1>4, <1>5, PasOption

\* A step inside -D or -E that prints at most lines of its option.
LEMMA PasParcours ==
  ASSUME IInv, UNCHANGED <<argv, fichier, name_file, optind, debugged_files, debogues>>,
         pc' \in Parcours, ListesLues', Indices', OptionEnCours', Jusqua(sortie', optind)
  PROVE  IInv'
<1>1. /\ MotsLus' /\ pc' \in {"debut", "options"} \cup Parcours \cup Finis
      /\ optind' \in 1 .. Len(argv) + 1 /\ Jusqua(sortie', optind')
      /\ debugged_files' \in Seq(Range(Rang)) /\ debogues' \subseteq DOMAIN Rang
  BY DEF IInv, TypeOK, MotsLus
<1> QED
  BY <1>1, Reste

\* The loops of load_tablesymbole start at the first section.
LEMMA DebutSymboles ==
  ASSUME IInv, sections' \in Seq(Section), pc' = "symboles", i' = 1, j' = 1
  PROVE  Indices'
<1>1. /\ Len(sections') \in Nat
      /\ 1 <= Len(sections') => sections'[1] \in Section
  BY LenProperties, ElementOfSeq
<1>2. i' \in 1 .. Len(sections') + 1
  BY <1>1
<1>3. ASSUME 1 <= Len(sections'), DuType(sections'[1], SHT_SYMTAB)
      PROVE  Len(sections'[1].contenu) \in Nat
  <2>1. sections'[1].contenu \in Seq(Symboles)
    BY <1>1, <1>3 DEF Section
  <2> QED
    BY <2>1, LenProperties
<1>4. j' \in 1 .. IF 1 <= Len(sections') /\ DuType(sections'[1], SHT_SYMTAB)
                  THEN Len(sections'[1].contenu) + 1 ELSE 1
  <2>1. CASE 1 <= Len(sections') /\ DuType(sections'[1], SHT_SYMTAB)
    BY <1>3, <2>1
  <2>2. CASE ~(1 <= Len(sections') /\ DuType(sections'[1], SHT_SYMTAB))
    BY <2>2
  <2> QED
    BY <2>1, <2>2
<1>5. (j \in 1 .. IF i <= Len(sections) /\ DuType(sections[i], SHT_SYMTAB)
                  THEN Len(sections[i].contenu) + 1 ELSE 1)'
  BY <1>4 DEF DuType
<1> QED
  BY <1>2, <1>5 DEF Indices

LEMMA PasDebutSymboles ==
  ASSUME IInv, main_table_symbole
  PROVE  IInv'
<1>1. /\ Option("-D") /\ "-D" \in AvecArgument
      /\ sections' \in TablesLues(fichier) /\ liste_symb' = creer_liste(TailleSymb)
      /\ pc' = "symboles" /\ i' = 1 /\ j' = 1
      /\ UNCHANGED <<optind, relocationtable, currentsymbol, sortie, debugged_files, debogues>>
  BY DEF main_table_symbole, LireSections, AvecArgument
<1>2. /\ optind < Len(argv) /\ argv[optind] = "-D" /\ UNCHANGED <<argv, fichier, name_file>>
  BY <1>1, OptionLue
<1>3. sections' \in Seq(Section) /\ (Entier => sections' = fichier.sect)
  BY <1>1, LuesDuFichier
<1>4. liste_symb' \in [taille_max : Nat \ {0}, tab : Seq(Symboles)]
  BY <1>1, LectureAssumption, ListeCreee
<1>5. ListesLues'
  BY <1>1, <1>3, <1>4 DEF IInv, TypeOK, ListesLues
<1>6. Indices'
  BY <1>1, <1>3, DebutSymboles
<1>7. OptionEnCours'
  BY <1>1, <1>2, <1>3 DEF OptionEnCours, Entier
<1>8. Jusqua(sortie', optind) /\ pc' \in Parcours
  BY <1>1, JusquaInv DEF Parcours
<1> QED
  BY <1>1, <1>2, <1>5, <1>6, <1>7, <1>8, PasParcours

LEMMA PasDebutReimplantations ==
  ASSUME IInv, main_relocation_table
  PROVE  IInv'
<1>1. /\ Option("-E") /\ "-E" \in AvecArgument
      /\ sections' \in TablesLues(fichier) /\ relocationtable' = creer_liste(TailleTables)
      /\ pc' = "reimplantations" /\ i' = 1
      /\ UNCHANGED <<optind, liste_symb, currentsymbol, sortie, debugged_files, debogues>>
  BY DEF main_relocation_table, AvecArgument
<1>2. /\ optind < Len(argv) /\ argv[optind] = "-E" /\ UNCHANGED <<argv, fichier, name_file>>
  BY <1>1, OptionLue
<1>3. sections' \in Seq(Section) /\ Len(sections') \in Nat /\ (Entier => sections' = fichier.sect)
  BY <1>1, LuesDuFichier
<1>4. relocationtable' \in [taille_max : Nat \ {0}, tab : Seq(UneTable)]
  BY <1>1, LectureAssumption, ListeCreee
<1>5. ListesLues'
  BY <1>1, <1>3, <1>4 DEF IInv, TypeOK, ListesLues
<1>6. Indices'
  BY <1>1, <1>3 DEF Indices
<1>7. OptionEnCours'
  BY <1>1, <1>2, <1>3 DEF OptionEnCours, Entier
<1>8. Jusqua(sortie', optind) /\ pc' \in Parcours
  BY <1>1, JusquaInv DEF Parcours
<1> QED
  BY <1>1, <1>2, <1>5, <1>6, <1>7, <1>8, PasParcours

\* What is known in the loops.
LEMMA DansParcours ==
  ASSUME IInv, pc \in Parcours
  PROVE  /\ sections \in Seq(Section) /\ Len(sections) \in Nat
         /\ \A v \in 1 .. Len(sections) : sections[v] \in Section
         /\ optind < Len(argv) /\ (Entier => sections = fichier.sect)
         /\ argv[optind] = "-E" \/ (argv[optind] = "-D" /\ pc = "symboles")
<1>1. sections \in Seq(Section)
  BY DEF IInv, TypeOK, ListesLues
<1> QED
  BY <1>1, LenProperties, ElementOfSeq DEF IInv, OptionEnCours

LEMMA PasChargerReimplantation ==
  ASSUME IInv, ChargerReimplantation
  PROVE  IInv'
<1>1. /\ pc = "reimplantations" /\ i <= Len(sections) /\ i' = i + 1
      /\ UNCHANGED <<argv, fichier, name_file, debugged_files, debogues,
                     pc, optind, j, sections, liste_symb, currentsymbol, sortie>>
      /\ relocationtable' = IF DuType(sections[i], SHT_REL) \/ DuType(sections[i], SHT_RELA)
                            THEN ajouter(relocationtable, Table(sections[i])) ELSE relocationtable
  BY DEF ChargerReimplantation, EnCours
<1>2. pc \in Parcours /\ Len(sections) \in Nat /\ \A v \in 1 .. Len(sections) : sections[v] \in Section
  BY <1>1, DansParcours DEF Parcours
<1>3. i \in 1 .. Len(sections) /\ i' \in 1 .. Len(sections') + 1
  <2>1. i \in 1 .. Len(sections) + 1
    BY <1>1 DEF IInv, TypeOK, Indices
  <2> QED
    BY <1>1, <1>2, <2>1
<1>4. relocationtable' \in [taille_max : Nat \ {0}, tab : Seq(UneTable)]
  <2>1. relocationtable \in [taille_max : Nat \ {0}, tab : Seq(UneTable)]
    BY DEF IInv, TypeOK, ListesLues
  <2>2. CASE DuType(sections[i], SHT_REL) \/ DuType(sections[i], SHT_RELA)
    <3>1. Table(sections[i]) \in UneTable
      BY <1>2, <1>3, <2>2, TableTypee
    <3> QED
      BY <1>1, <2>1, <2>2, <3>1, ElementAjoute
  <2>3. CASE ~(DuType(sections[i], SHT_REL) \/ DuType(sections[i], SHT_RELA))
    BY <1>1, <2>1, <2>3
  <2> QED
    BY <2>2, <2>3
<1>5. ListesLues'
  BY <1>1, <1>4 DEF IInv, TypeOK, ListesLues
<1>6. Indices'
  BY <1>1, <1>3 DEF Indices
<1>7. OptionEnCours'
  BY <1>1 DEF IInv, OptionEnCours, Entier
<1>8. Jusqua(sortie', optind) /\ pc' \in Parcours
  BY <1>1, <1>2, JusquaInv
<1> QED
  BY <1>1, <1>5, <1>6, <1>7, <1>8, PasParcours

LEMMA PasFinReimplantations ==
  ASSUME IInv, FinReimplantations
  PROVE  IInv'
<1>1. /\ pc = "reimplantations" /\ pc' = "symboles" /\ i' = 1 /\ j' = 1
      /\ sections' \in TablesLues(fichier) /\ liste_symb' = creer_liste(TailleSymb)
      /\ currentsymbol' \in SymbolesIndefinis
      /\ UNCHANGED <<argv, fichier, name_file, debugged_files, debogues,
                     optind, relocationtable, sortie>>
  BY DEF FinReimplantations, EnCours, LireSections
<1>2. pc \in Parcours /\ optind < Len(argv) /\ argv[optind] = "-E"
  BY <1>1, DansParcours DEF Parcours
<1>3. sections' \in Seq(Section) /\ (Entier => sections' = fichier.sect)
  BY <1>1, LuesDuFichier
<1>4. /\ liste_symb' \in [taille_max : Nat \ {0}, tab : Seq(Symboles)]
      /\ currentsymbol' \in Symboles
  BY <1>1, LectureAssumption, ListeCreee
<1>5. ListesLues'
  BY <1>1, <1>3, <1>4 DEF IInv, TypeOK, ListesLues
<1>6. Indices'
  BY <1>1, <1>3, DebutSymboles
<1>7. OptionEnCours'
  BY <1>1, <1>2, <1>3 DEF OptionEnCours, Entier
<1>8. Jusqua(sortie', optind) /\ pc' \in Parcours
  BY <1>1, JusquaInv DEF Parcours
<1> QED
  BY <1>1, <1>5, <1>6, <1>7, <1>8, PasParcours

\* Where the loops of load_tablesymbole are.
LEMMA DansSymboles ==
  ASSUME IInv, pc = "symboles"
  PROVE  /\ i \in 1 .. Len(sections) + 1 /\ Len(sections) \in Nat
         /\ i <= Len(sections) => sections[i] \in Section
         /\ i <= Len(sections) /\ DuType(sections[i], SHT_SYMTAB) =>
              /\ sections[i].contenu \in Seq(Symboles) /\ Len(sections[i].contenu) \in Nat
              /\ j \in 1 .. Len(sections[i].contenu) + 1
         /\ ~(i <= Len(sections) /\ DuType(sections[i], SHT_SYMTAB)) => j = 1
<1>1. /\ i \in 1 .. Len(sections) + 1
      /\ j \in 1 .. IF i <= Len(sections) /\ DuType(sections[i], SHT_SYMTAB)
                     THEN Len(sections[i].contenu) + 1 ELSE 1
  BY DEF IInv, TypeOK, Indices
<1>2. Len(sections) \in Nat /\ \A v \in 1 .. Len(sections) : sections[v] \in Section
  BY DansParcours DEF Parcours
<1>3. i <= Len(sections) => sections[i] \in Section
  BY <1>1, <1>2
<1>4. i <= Len(sections) /\ DuType(sections[i], SHT_SYMTAB) =>
        sections[i].contenu \in Seq(Symboles) /\ Len(sections[i].contenu) \in Nat
  BY <1>3, LenProperties DEF Section
<1> QED
  BY <1>1, <1>2, <1>3, <1>4

LEMMA PasChargerSymbole ==
  ASSUME IInv, ChargerSymbole
  PROVE  IInv'
<1>1. /\ pc = "symboles" /\ i <= Len(sections) /\ DuType(sections[i], SHT_SYMTAB)
      /\ j <= Len(sections[i].contenu) /\ j' = j + 1
      /\ liste_symb' = ajouter(liste_symb, load_symb(sections[i].contenu[j]))
      /\ UNCHANGED <<argv, fichier, name_file, debugged_files, debogues,
                     pc, optind, i, sections, relocationtable, currentsymbol, sortie>>
  BY DEF ChargerSymbole, EnCours, DansSymtab
<1>2. /\ i \in 1 .. Len(sections) + 1
      /\ sections[i].contenu \in Seq(Symboles) /\ Len(sections[i].contenu) \in Nat
      /\ j \in 1 .. Len(sections[i].contenu)
  BY <1>1, DansSymboles
<1>3. sections[i].contenu[j] \in Symboles
  BY <1>2, ElementOfSeq
<1>4. liste_symb \in [taille_max : Nat \ {0}, tab : Seq(Symboles)]
  BY DEF IInv, TypeOK, ListesLues
<1>5. liste_symb' \in [taille_max : Nat \ {0}, tab : Seq(Symboles)]
  BY <1>1, <1>3, <1>4, SymboleLu, ElementAjoute
<1>6. ListesLues'
  BY <1>1, <1>5 DEF IInv, TypeOK, ListesLues
<1>7. j' \in 1 .. Len(sections[i].contenu) + 1
  BY <1>1, <1>2
<1>8. Indices'
  BY <1>1, <1>2, <1>7 DEF Indices, DuType
<1>9. OptionEnCours'
  BY <1>1 DEF IInv, OptionEnCours, Entier
<1>10. Jusqua(sortie', optind) /\ pc' \in Parcours
  BY <1>1, JusquaInv DEF Parcours
<1> QED
  BY <1>1, <1>6, <1>8, <1>9, <1>10, PasParcours

LEMMA PasSectionSuivante ==
  ASSUME IInv, SectionSuivante
  PROVE  IInv'
<1>1. /\ pc = "symboles" /\ i <= Len(sections) /\ i' = i + 1 /\ j' = 1
      /\ UNCHANGED <<argv, fichier, name_file, debugged_files, debogues,
                     pc, optind, sections, relocationtable, liste_symb, currentsymbol, sortie>>
  BY DEF SectionSuivante, EnCours
<1>2. i' \in 1 .. Len(sections) + 1 /\ Len(sections) \in Nat
  BY <1>1, DansSymboles
<1>3. i' <= Len(sections) /\ DuType(sections[i'], SHT_SYMTAB) => Len(sections[i'].contenu) \in Nat
  <2>1. i' <= Len(sections) => sections[i'] \in Section
    BY <1>1, <1>2, DansParcours DEF Parcours
  <2>2. \A s \in Section : DuType(s, SHT_SYMTAB) => Len(s.contenu) \in Nat
    BY LenProperties DEF Section
  <2> QED
    BY <2>1, <2>2
<1>4. j' \in 1 .. IF i' <= Len(sections) /\ DuType(sections[i'], SHT_SYMTAB)
                  THEN Len(sections[i'].contenu) + 1 ELSE 1
  <2>1. CASE i' <= Len(sections) /\ DuType(sections[i'], SHT_SYMTAB)
    BY <1>1, <1>3, <2>1
  <2>2. CASE ~(i' <= Len(sections) /\ DuType(sections[i'], SHT_SYMTAB))
    BY <1>1, <2>2
  <2> QED
    BY <2>1, <2>2
<1>5. Indices'
  BY <1>1, <1>2, <1>4 DEF Indices, DuType
<1>6. ListesLues' /\ OptionEnCours'
  BY <1>1 DEF IInv, TypeOK, ListesLues, OptionEnCours, Entier
<1>7. Jusqua(sortie', optind) /\ pc' \in Parcours
  BY <1>1, JusquaInv DEF Parcours
<1> QED
  BY <1>1, <1>5, <1>6, <1>7, PasParcours

LEMMA SymboleAffiche ==
  ASSUME NEW x \in Symboles
  PROVE  Affiche(x) \in [st_value : Nat, st_shndx : Nat]
BY NombreMot, NombreDemi DEF Affiche, Symboles

\* The lines that -D prints.
SymbolesEcrits ==
  [k \in 1 .. n(liste_symb) |->
     Ligne("symbole", Affiche(get_symbol(liste_symb', k - 1, currentsymbol)))]

LEMMA SymbolesImprimes ==
  ASSUME IInv, print_tablesymbol
  PROVE  /\ liste_symb' \in [taille_max : Nat \ {0}, tab : Seq(Symboles)]
         /\ sortie' = sortie \o SymbolesEcrits /\ SymbolesEcrits \in Seq(Lignes)
         /\ \A k \in DOMAIN SymbolesEcrits :
              SymbolesEcrits[k].opt = optind /\ SymbolesEcrits[k].quoi = "symbole"
<1>1. liste_symb' = Inversee(liste_symb) /\ sortie' = sortie \o SymbolesEcrits
  BY DEF print_tablesymbol, SymbolesEcrits
<1>2. liste_symb \in [taille_max : Nat \ {0}, tab : Seq(Symboles)] /\ currentsymbol \in Symboles
  BY DEF IInv, TypeOK, ListesLues
<1>3. /\ liste_symb' \in [taille_max : Nat \ {0}, tab : Seq(Symboles)]
      /\ Len(liste_symb'.tab) = Len(liste_symb.tab)
  BY <1>1, <1>2, ListeInversee
<1> DEFINE m == n(liste_symb)
           L(k) == Ligne("symbole", Affiche(get_symbol(liste_symb', k - 1, currentsymbol)))
           r == [k \in 1 .. m |-> L(k)]
<1>4. m \in Nat
  BY <1>2, LenProperties DEF n
<1>5. optind \in Nat
  BY JusquaInv
<1>6. ASSUME NEW k \in 1 .. m
      PROVE  L(k) \in Lignes /\ L(k).opt = optind /\ L(k).quoi = "symbole"
  <2>1. get_symbol(liste_symb', k - 1, currentsymbol) \in Symboles
    <3>1. \A q \in 1 .. Len(liste_symb'.tab) : liste_symb'.tab[q] \in Symboles
      BY <1>3, ElementOfSeq
    <3>2. Len(liste_symb'.tab) \in Nat
      BY <1>3, LenProperties
    <3>3. k - 1 < Len(liste_symb'.tab) => k - 1 + 1 \in 1 .. Len(liste_symb'.tab)
      BY <1>4, <3>2
    <3> QED
      BY <1>2, <3>1, <3>3 DEF get_symbol, n
  <2> DEFINE x == Affiche(get_symbol(liste_symb', k - 1, currentsymbol))
  <2>2. x \in [st_value : Nat, st_shndx : Nat] /\ L(k) = [opt |-> optind, quoi |-> "symbole", v |-> x]
    BY <2>1, SymboleAffiche DEF Ligne
  <2> HIDE DEF x, L
  <2>3. "symbole" \in DOMAIN Valeurs /\ x \in Valeurs["symbole"]
    BY <2>2, LesValeurs
  <2>4. [opt |-> optind, quoi |-> "symbole", v |-> x] \in Lignes
    BY <1>5, <2>3, LigneTypee
  <2> QED
    BY <2>2, <2>4
<1>7. r = SymbolesEcrits
  BY DEF SymbolesEcrits
<1> HIDE DEF L, m
<1>8. r \in [1 .. m -> Lignes] /\ \A k \in DOMAIN r : r[k].opt = optind /\ r[k].quoi = "symbole"
  BY <1>6
<1>9. r \in Seq(Lignes)
  BY <1>4, <1>8
<1> QED
  BY <1>1, <1>3, <1>7, <1>8, <1>9

LEMMA PasSymboles ==
  ASSUME IInv, print_tablesymbol
  PROVE  IInv'
<1>1. /\ pc = "symboles" /\ argv[optind] = "-D" /\ OptionSuivante
      /\ UNCHANGED <<argv, fichier, name_file, debugged_files, debogues,
                     i, j, sections, relocationtable, currentsymbol>>
  BY DEF print_tablesymbol, FinSymboles, EnCours
<1>2. /\ liste_symb' \in [taille_max : Nat \ {0}, tab : Seq(Symboles)]
      /\ sortie' = sortie \o SymbolesEcrits /\ SymbolesEcrits \in Seq(Lignes)
      /\ \A k \in DOMAIN SymbolesEcrits : SymbolesEcrits[k].opt = optind
  BY SymbolesImprimes
<1>4. ListesLues'
  BY <1>1, <1>2 DEF IInv, TypeOK, ListesLues
<1>6. optind \in Nat /\ Jusqua(sortie, optind)
  BY JusquaInv
<1>10. Jusqua(sortie', optind)
  BY <1>2, <1>6, JusquaEncore
<1>11. /\ optind + 2 \in Nat /\ optind <= optind + 2 /\ optind + 2 <= Len(argv) + 1
       /\ Len(argv) \in Nat
  <2>1. optind < Len(argv) /\ Len(argv) \in Nat
    BY <1>1, DansParcours, Entrees DEF Parcours
  <2> QED
    BY <1>6, <2>1
<1>12. pc' = "options" /\ optind' = optind + 2 /\ optind' \in 1 .. Len(argv) + 1
  BY <1>1, <1>6, <1>11, Entrees DEF OptionSuivante
<1>13. /\ MotsLus' /\ pc' \in {"debut", "options"} \cup Parcours \cup Finis
       /\ debugged_files' \in Seq(Range(Rang)) /\ debogues' \subseteq DOMAIN Rang
  BY <1>1, <1>12 DEF IInv, TypeOK, MotsLus
<1>14. Indices' /\ OptionEnCours'
  <2>1. (pc \notin Parcours => Indices /\ OptionEnCours)'
    BY HorsParcours, PTL
  <2> QED
    BY <1>12, <2>1 DEF Parcours
<1>15. Jusqua(sortie', optind')
  BY <1>6, <1>10, <1>11, <1>12, JusquaPlus
<1> QED
  BY <1>1, <1>4, <1>12, <1>13, <1>14, <1>15, Reste

LEMMA PasImpression ==
  ASSUME IInv, print_relocation_table
  PROVE  IInv'
<1>1. /\ pc = "symboles" /\ argv[optind] = "-E" /\ liste_symb' = Inversee(liste_symb)
      /\ pc' = "impression" /\ i' = 1 /\ j' = 0
      /\ UNCHANGED <<argv, fichier, name_file, debugged_files, debogues,
                     optind, sections, relocationtable, currentsymbol, sortie>>
  BY DEF print_relocation_table, FinSymboles, EnCours
<1>2. /\ liste_symb \in [taille_max : Nat \ {0}, tab : Seq(Symboles)]
      /\ relocationtable \in [taille_max : Nat \ {0}, tab : Seq(UneTable)]
      /\ currentsymbol \in SymbolesIndefinis
  BY <1>1 DEF IInv, TypeOK, ListesLues, OptionEnCours
<1>3. liste_symb' \in [taille_max : Nat \ {0}, tab : Seq(Symboles)]
  BY <1>1, <1>2, ListeInversee
<1>4. ListesLues'
  BY <1>1, <1>3 DEF IInv, TypeOK, ListesLues
<1>5. /\ Len(relocationtable.tab) \in Nat
      /\ 1 <= Len(relocationtable.tab) => relocationtable.tab[1].size \in Nat
  BY <1>2, LenProperties, ElementOfSeq DEF UneTable
<1>6. Indices'
  BY <1>1, <1>2, <1>5 DEF Indices, n
<1>7. OptionEnCours'
  BY <1>1 DEF IInv, OptionEnCours, Entier, Parcours
<1>8. Jusqua(sortie', optind) /\ pc' \in Parcours
  BY <1>1, JusquaInv DEF Parcours
<1> QED
  BY <1>1, <1>4, <1>6, <1>7, <1>8, PasParcours

\* What is known while the relocations are printed.
LEMMA DansImpression ==
  ASSUME IInv, Imprimer
  PROVE  /\ pc = "impression" /\ TableImprimee \in UneTable
         /\ i \in 1 .. n(relocationtable) /\ i <= n(relocationtable)
         /\ TableImprimee.size \in Nat /\ j \in 0 .. TableImprimee.size + 1
         /\ currentsymbol \in SymbolesIndefinis \cup Range(liste_symb.tab)
         /\ UNCHANGED <<argv, fichier, name_file, debugged_files, debogues>>
<1>1. /\ pc = "impression" /\ i <= n(relocationtable)
      /\ UNCHANGED <<argv, fichier, name_file, debugged_files, debogues>>
  BY DEF Imprimer, EnCours
<1>2. /\ i \in 1 .. n(relocationtable) + 1
      /\ j \in 0 .. relocationtable.tab[i].size + 1
      /\ currentsymbol \in SymbolesIndefinis \cup Range(liste_symb.tab)
      /\ relocationtable.tab \in Seq(UneTable)
  BY <1>1 DEF IInv, TypeOK, Indices, ListesLues
<1>3. n(relocationtable) = Len(relocationtable.tab) /\ Len(relocationtable.tab) \in Nat
  BY <1>2, LenProperties DEF n
<1>4. i \in 1 .. n(relocationtable)
  BY <1>1, <1>2, <1>3
<1>5. relocationtable.tab[i] \in UneTable
  BY <1>2, <1>3, <1>4, ElementOfSeq
<1> QED
  BY <1>1, <1>2, <1>4, <1>5 DEF TableImprimee, UneTable

LEMMA PasTitre ==
  ASSUME IInv, Titre
  PROVE  IInv'
<1> DEFINE x == [nom |-> TableImprimee.nom, nb |-> TableImprimee.size]
<1>1. /\ Imprimer /\ j' = 1
      /\ UNCHANGED <<pc, optind, i, sections, relocationtable, liste_symb, currentsymbol>>
      /\ sortie' = Append(sortie, Ligne("titre", x))
  BY DEF Titre
<1>2. /\ pc = "impression" /\ TableImprimee \in UneTable
      /\ i \in 1 .. n(relocationtable) /\ i <= n(relocationtable) /\ TableImprimee.size \in Nat
      /\ currentsymbol \in SymbolesIndefinis \cup Range(liste_symb.tab)
      /\ UNCHANGED <<argv, fichier, name_file, debugged_files, debogues>>
  BY <1>1, DansImpression
<1>3. x \in Valeurs["titre"] /\ "titre" \in DOMAIN Valeurs
  BY <1>2, LesValeurs DEF UneTable
<1> HIDE DEF x
<1>4. optind \in Nat /\ Jusqua(sortie, optind)
  BY JusquaInv
<1>5. Ligne("titre", x) \in Lignes /\ Ligne("titre", x).opt = optind
  BY <1>3, <1>4, LigneTypee DEF Ligne
<1>6. Jusqua(sortie', optind)
  BY <1>1, <1>4, <1>5, JusquaLigne
<1>7. ListesLues'
  BY <1>1 DEF IInv, TypeOK, ListesLues
<1>8. Indices'
  <2>1. j' \in 0 .. relocationtable.tab[i].size + 1
    BY <1>1, <1>2 DEF TableImprimee
  <2>2. i \in 1 .. n(relocationtable) + 1
    BY <1>2 DEF IInv, TypeOK, Indices
  <2> QED
    BY <1>1, <1>2, <2>1, <2>2 DEF Indices, n
<1>9. OptionEnCours' /\ pc' \in Parcours
  BY <1>1, <1>2 DEF IInv, OptionEnCours, Entier, Parcours
<1> QED
  BY <1>1, <1>2, <1>6, <1>7, <1>8, <1>9, PasParcours

\* The symbol found is one of the list, or the last one found.
LEMMA SymboleTrouve ==
  ASSUME NEW liste \in [taille_max : Nat \ {0}, tab : Seq(Symboles)], NEW k \in Nat, NEW x
  PROVE  get_symbol(liste, k, x) = x \/ get_symbol(liste, k, x) \in Range(liste.tab)
<1>1. liste.tab \in Seq(Symboles) /\ Len(liste.tab) \in Nat /\ DOMAIN liste.tab = 1 .. Len(liste.tab)
  BY LenProperties
<1>2. k < Len(liste.tab) => k + 1 \in DOMAIN liste.tab
  BY <1>1
<1> QED
  BY <1>2 DEF get_symbol, n, Range

\* The relocation at hand, and what it gives.
LEMMA ReimplantationLue ==
  ASSUME IInv, Imprimer, j \in 1 .. TableImprimee.size
  PROVE  /\ Reimplantation \in Rels /\ Indice \in Nat
         /\ Indice = Nombre(Reimplantation.r_info) \div Octet
<1>1. TableImprimee \in UneTable
  BY DansImpression
<1>2. TableImprimee.tab \in Seq(Rels) /\ TableImprimee.size \in Nat /\ TableImprimee.size <= Len(TableImprimee.tab)
  BY <1>1 DEF UneTable
<1>3. Len(TableImprimee.tab) \in Nat
  BY <1>2, LenProperties
<1>4. j \in 1 .. Len(TableImprimee.tab)
  BY <1>2, <1>3
<1>5. Reimplantation \in Rels
  BY <1>2, <1>4, ElementOfSeq DEF Reimplantation
<1>6. Reimplantation.r_info \in Mot
  BY <1>5 DEF Rels
<1>7. /\ Nombre(Droite(Reimplantation.r_info, 1)) = Nombre(Reimplantation.r_info) \div Octet
      /\ Nombre(Reimplantation.r_info) \div Octet \in Nat
  BY <1>6, Decalage
<1>8. Indice = Nombre(Droite(Reimplantation.r_info, 1))
  BY DEF Indice, ELF32_R_SYM
<1> QED
  BY <1>5, <1>7, <1>8

LEMMA PasReimplantation ==
  ASSUME IInv, ImprimerReimplantation
  PROVE  IInv'
<1> DEFINE x == [offset |-> Nombre(Reimplantation.r_offset),
                 info |-> Nombre(Reimplantation.r_info), sym |-> Indice,
                 valeur |-> Nombre(currentsymbol'.st_value)]
<1>1. /\ Imprimer /\ j \in 1 .. TableImprimee.size /\ j' = j + 1
      /\ UNCHANGED <<pc, optind, i, sections, relocationtable, liste_symb>>
      /\ currentsymbol' = get_symbol(liste_symb, Indice, currentsymbol)
      /\ sortie' = Append(sortie, Ligne("rel", x))
  BY DEF ImprimerReimplantation
<1>2. /\ pc = "impression" /\ i \in 1 .. n(relocationtable) /\ TableImprimee.size \in Nat
      /\ currentsymbol \in SymbolesIndefinis \cup Range(liste_symb.tab)
      /\ UNCHANGED <<argv, fichier, name_file, debugged_files, debogues>>
  BY <1>1, DansImpression
<1>3. Reimplantation \in Rels /\ Indice \in Nat
  BY <1>1, ReimplantationLue
<1>4. liste_symb \in [taille_max : Nat \ {0}, tab : Seq(Symboles)]
  BY DEF IInv, TypeOK, ListesLues
<1>5. currentsymbol' \in SymbolesIndefinis \cup Range(liste_symb.tab)
  BY <1>1, <1>2, <1>3, <1>4, SymboleTrouve
<1>6. currentsymbol' \in Symboles
  <2>1. \A y \in Range(liste_symb.tab) : y \in Symboles
    BY <1>4, ElementOfSeq DEF Range
  <2> QED
    BY <1>5, <2>1, LectureAssumption
<1>7. x \in Valeurs["rel"] /\ "rel" \in DOMAIN Valeurs
  <2>1. Reimplantation.r_offset \in Mot /\ Reimplantation.r_info \in Mot
    BY <1>3 DEF Rels
  <2>2. currentsymbol'.st_value \in Mot
    BY <1>6 DEF Symboles
  <2>3. /\ Nombre(Reimplantation.r_offset) \in Nat /\ Nombre(Reimplantation.r_info) \in Nat
        /\ Nombre(currentsymbol'.st_value) \in Nat
    BY <2>1, <2>2, NombreMot
  <2>4. x \in LigneRel
    BY <1>3, <2>3 DEF LigneRel
  <2> HIDE DEF x
  <2> QED
    BY <2>4, LesValeurs
<1> HIDE DEF x
<1>8. optind \in Nat /\ Jusqua(sortie, optind)
  BY JusquaInv
<1>9. Ligne("rel", x) \in Lignes /\ Ligne("rel", x).opt = optind
  BY <1>7, <1>8, LigneTypee DEF Ligne
<1>10. Jusqua(sortie', optind)
  BY <1>1, <1>8, <1>9, JusquaLigne
<1>11. ListesLues'
  BY <1>1, <1>6 DEF IInv, TypeOK, ListesLues
<1>12. Indices'
  <2>1. j' \in 0 .. relocationtable.tab[i].size + 1
    BY <1>1, <1>2 DEF TableImprimee
  <2>2. i \in 1 .. n(relocationtable) + 1
    BY <1>2 DEF IInv, TypeOK, Indices
  <2> QED
    BY <1>1, <1>2, <1>5, <2>1, <2>2 DEF Indices, n
<1>13. OptionEnCours' /\ pc' \in Parcours
  BY <1>1, <1>2 DEF IInv, OptionEnCours, Entier, Parcours
<1> QED
  BY <1>1, <1>2, <1>10, <1>11, <1>12, <1>13, PasParcours

LEMMA PasTableSuivante ==
  ASSUME IInv, TableSuivante
  PROVE  IInv'
<1>1. /\ Imprimer /\ i' = i + 1 /\ j' = 0
      /\ UNCHANGED <<pc, optind, sections, relocationtable, liste_symb, currentsymbol, sortie>>
  BY DEF TableSuivante
<1>2. /\ pc = "impression" /\ i \in 1 .. n(relocationtable)
      /\ currentsymbol \in SymbolesIndefinis \cup Range(liste_symb.tab)
      /\ UNCHANGED <<argv, fichier, name_file, debugged_files, debogues>>
  BY <1>1, DansImpression
<1>3. relocationtable \in [taille_max : Nat \ {0}, tab : Seq(UneTable)]
  BY DEF IInv, TypeOK, ListesLues
<1>4. /\ n(relocationtable) \in Nat
      /\ \A k \in 1 .. n(relocationtable) : relocationtable.tab[k].size \in Nat
  BY <1>3, LenProperties, ElementOfSeq DEF UneTable, n
<1>5. i' \in 1 .. n(relocationtable) + 1
  BY <1>1, <1>2, <1>4
<1>6. i' <= n(relocationtable) => j' \in 0 .. relocationtable.tab[i'].size + 1
  BY <1>1, <1>4, <1>5
<1>7. Indices'
  BY <1>1, <1>2, <1>5, <1>6 DEF Indices, n
<1>8. ListesLues' /\ OptionEnCours' /\ pc' \in Parcours
  BY <1>1, <1>2 DEF IInv, TypeOK, ListesLues, OptionEnCours, Entier, Parcours
<1>9. Jusqua(sortie', optind)
  BY <1>1, JusquaInv
<1> QED
  BY <1>1, <1>2, <1>7, <1>8, <1>9, PasParcours

-----------------------------------------------------------------------------
LEMMA Depart ==
  ASSUME Init
  PROVE  IInv
<1>1. PICK a \in Seq(DOMAIN Rang), f \in Fichier : InitLecture(a, f)
  BY DEF Init
<1>2. Len(a) \in Nat
  BY LenProperties
<1>3. /\ argv = a /\ fichier = f /\ pc = "debut" /\ optind = 1 /\ name_file = SansNom
      /\ sections = <<>> /\ sortie = <<>> /\ debugged_files = <<>> /\ debogues = {}
      /\ relocationtable = creer_liste(TailleTables) /\ liste_symb = creer_liste(TailleSymb)
      /\ currentsymbol \in SymbolesIndefinis
  BY <1>1 DEF InitLecture
<1>4. /\ relocationtable \in [taille_max : Nat \ {0}, tab : Seq(UneTable)]
      /\ liste_symb \in [taille_max : Nat \ {0}, tab : Seq(Symboles)]
  BY <1>3, LectureAssumption, ListeCreee
<1>5. sections \in Seq(Section) /\ sortie \in Seq(Lignes) /\ debugged_files \in Seq(Range(Rang))
  BY <1>3
<1>6. ListesLues
  BY <1>3, <1>4, <1>5, LectureAssumption DEF ListesLues
<1>7. Imprime
  BY <1>3 DEF Imprime
<1>8. Indices /\ OptionEnCours
  BY <1>3, HorsParcours DEF Parcours
<1>9. MotsLus /\ fichier \in Fichier /\ optind \in 1 .. Len(argv) + 1
  BY <1>2, <1>3 DEF MotsLus
<1> QED
  BY <1>3, <1>5, <1>6, <1>7, <1>8, <1>9 DEF IInv, TypeOK

LEMMA Pas ==
  ASSUME IInv, [Next]_vars
  PROVE  IInv'
<1>1. CASE UNCHANGED vars
  <2>1. UNCHANGED <<argv, fichier, pc, optind, name_file, i, j, sections, relocationtable,
                    liste_symb, currentsymbol, sortie, debugged_files, debogues>>
    BY <1>1 DEF vars, boucle
  <2>2. MotsLus' /\ ListesLues' /\ Indices' /\ Imprime' /\ OptionEnCours'
    BY <2>1 DEF IInv, TypeOK, MotsLus, ListesLues, Indices, Imprime, OptionEnCours, Entier, n
  <2> QED
    BY <2>1, <2>2 DEF IInv, TypeOK
<1>2. CASE Next
  BY <1>2, PasSimple, PasOptionDebug, PasHeader, PasTable, PasSection, PasDebutSymboles,
     PasDebutReimplantations, PasChargerReimplantation, PasFinReimplantations,
     PasChargerSymbole, PasSectionSuivante, PasSymboles, PasImpression, PasTitre,
     PasReimplantation, PasTableSuivante DEF Next
<1> QED
  BY <1>1, <1>2

\* The variables keep their types, for any command line and any file: in
\* particular getopt stops at the end of the command line and no loop reads
\* past what it runs through (ARM_runner_example.c, mains.c, affichage.c).
THEOREM LectureTypee == Spec => []TypeOK
<1>1. Init => IInv
  BY Depart
<1>2. IInv /\ [Next]_vars => IInv'
  BY Pas
<1>3. IInv => TypeOK
  BY DEF IInv
<1> QED
  BY <1>1, <1>2, <1>3, PTL DEF Spec

LEMMA Invariant == Spec => []IInv
BY Depart, Pas, PTL DEF Spec

-----------------------------------------------------------------------------
(***************************************************************************)
(* What the options -B, -D and -E print, and the lists and the table the   *)
(* options keep.                                                           *)
(***************************************************************************)

Symboliques == [taille_max : Nat \ {0}, tab : Seq(Symboles)]

\* The steps on the list of symbols.
Charge == liste_symb' = creer_liste(TailleSymb)
PasListe ==
  \/ UNCHANGED liste_symb \/ Charge \/ ChargerSymbole \/ liste_symb' = Inversee(liste_symb)

LEMMA PasDesListes ==
  ASSUME [Next]_vars
  PROVE  /\ PasListe
         /\ \/ UNCHANGED relocationtable \/ relocationtable' = creer_liste(TailleTables)
            \/ ChargerReimplantation
<1>1. CASE UNCHANGED boucle
  BY <1>1 DEF boucle, PasListe
<1>2. CASE ~UNCHANGED boucle
  <2>1. \/ main_read_section_table \/ main_section \/ main_table_symbole \/ main_relocation_table
        \/ ChargerReimplantation \/ FinReimplantations
        \/ ChargerSymbole \/ SectionSuivante \/ print_tablesymbol
        \/ print_relocation_table \/ Titre \/ ImprimerReimplantation \/ TableSuivante
    BY <1>2 DEF vars, Next, Demarrer, MotIgnore, FinOptions, OptionSortie, OptionHote,
       OptionDebug, OptionDebugFatale, FichierAbsent, main_load_header, main_sectionFatale,
       SansVal, TronqueFatale, SansStrtab, NomHorsTable, FinImpression
  <2> QED
    BY <2>1 DEF PasListe, Charge, LireSections, main_read_section_table, main_section,
       main_table_symbole, main_relocation_table, ChargerReimplantation, FinReimplantations,
       ChargerSymbole, SectionSuivante, print_tablesymbol, print_relocation_table, Titre,
       ImprimerReimplantation, TableSuivante
<1> QED
  BY <1>1, <1>2

\* The symbol and the table that a step adds.
LEMMA SymboleCharge ==
  ASSUME IInv, ChargerSymbole
  PROVE  /\ DuType(sections[i], SHT_SYMTAB) /\ i \in 1 .. Len(sections)
         /\ sections[i].contenu \in Seq(Symboles) /\ j \in 1 .. Len(sections[i].contenu)
         /\ sections[i].contenu[j] \in Symboles /\ load_symb(sections[i].contenu[j]) \in Symboles
         /\ liste_symb \in Symboliques
         /\ liste_symb' = ajouter(liste_symb, load_symb(sections[i].contenu[j]))
<1>1. /\ pc = "symboles" /\ i <= Len(sections) /\ DuType(sections[i], SHT_SYMTAB)
      /\ j <= Len(sections[i].contenu)
      /\ liste_symb' = ajouter(liste_symb, load_symb(sections[i].contenu[j]))
  BY DEF ChargerSymbole, EnCours, DansSymtab
<1>2. /\ i \in 1 .. Len(sections) + 1 /\ Len(sections) \in Nat
      /\ sections[i].contenu \in Seq(Symboles) /\ Len(sections[i].contenu) \in Nat
      /\ j \in 1 .. Len(sections[i].contenu)
  BY <1>1, DansSymboles
<1>3. sections[i].contenu[j] \in Symboles
  BY <1>2, ElementOfSeq
<1>4. liste_symb \in Symboliques
  BY DEF IInv, TypeOK, ListesLues, Symboliques
<1> QED
  BY <1>1, <1>2, <1>3, <1>4, SymboleLu

LEMMA TableChargee ==
  ASSUME IInv, ChargerReimplantation
  PROVE  /\ pc = "reimplantations" /\ i \in 1 .. Len(sections) /\ sections[i] \in Section
         /\ relocationtable \in [taille_max : Nat \ {0}, tab : Seq(UneTable)]
         /\ \/ UNCHANGED relocationtable
            \/ /\ Table(sections[i]) \in UneTable
               /\ relocationtable' = ajouter(relocationtable, Table(sections[i]))
<1>1. /\ pc = "reimplantations" /\ i <= Len(sections)
      /\ relocationtable' = IF DuType(sections[i], SHT_REL) \/ DuType(sections[i], SHT_RELA)
                            THEN ajouter(relocationtable, Table(sections[i])) ELSE relocationtable
  BY DEF ChargerReimplantation, EnCours
<1>2. Len(sections) \in Nat /\ \A v \in 1 .. Len(sections) : sections[v] \in Section
  BY <1>1, DansParcours DEF Parcours
<1>3. i \in 1 .. Len(sections) + 1
  BY <1>1 DEF IInv, TypeOK, Indices
<1>4. i \in 1 .. Len(sections) /\ sections[i] \in Section
  BY <1>1, <1>2, <1>3
<1>5. relocationtable \in [taille_max : Nat \ {0}, tab : Seq(UneTable)]
  BY DEF IInv, TypeOK, ListesLues
<1>6. CASE DuType(sections[i], SHT_REL) \/ DuType(sections[i], SHT_RELA)
  BY <1>1, <1>4, <1>5, <1>6, TableTypee
<1>7. CASE ~(DuType(sections[i], SHT_REL) \/ DuType(sections[i], SHT_RELA))
  BY <1>1, <1>4, <1>5, <1>7
<1> QED
  BY <1>6, <1>7

\* The lists never hold more than was allocated, however many sections and
\* symbols the file has (type_liste_symb.c:51-63, elf32_reloc_table.c:58-69).
THEOREM ListesContenues == Spec => []Capacites
<1>1. Init => Capacites
  <2> SUFFICES ASSUME Init PROVE Capacites
    OBVIOUS
  <2>1. relocationtable = creer_liste(TailleTables) /\ liste_symb = creer_liste(TailleSymb)
    BY DEF Init, InitLecture
  <2> QED
    BY <2>1, LectureAssumption, ListeCreee DEF Capacites
<1>2. IInv /\ Capacites /\ [Next]_vars => Capacites'
  <2> SUFFICES ASSUME IInv, Capacites, [Next]_vars PROVE Capacites'
    OBVIOUS
  <2>1. Contenue(liste_symb)'
    <3>1. CASE UNCHANGED liste_symb
      BY <3>1 DEF Capacites, Contenue, n
    <3>2. CASE Charge
      <4>1. Contenue(creer_liste(TailleSymb))
        BY LectureAssumption, ListeCreee
      <4> QED
        BY <3>2, <4>1 DEF Charge, Contenue, n
    <3>3. CASE ChargerSymbole
      <4>1. Contenue(ajouter(liste_symb, load_symb(sections[i].contenu[j])))
        BY <3>3, SymboleCharge, ElementAjoute DEF Capacites, Symboliques
      <4> QED
        BY <3>3, <4>1, SymboleCharge DEF Contenue, n
    <3>4. CASE liste_symb' = Inversee(liste_symb)
      <4>1. liste_symb \in Symboliques
        BY DEF IInv, TypeOK, ListesLues, Symboliques
      <4>2. /\ Len(liste_symb'.tab) = Len(liste_symb.tab)
            /\ liste_symb'.taille_max = liste_symb.taille_max
        BY <3>4, <4>1, ListeInversee DEF Symboliques
      <4> QED
        BY <4>2 DEF Capacites, Contenue, n
    <3> QED
      BY <3>1, <3>2, <3>3, <3>4, PasDesListes DEF PasListe
  <2>2. Contenue(relocationtable)'
    <3>1. CASE UNCHANGED relocationtable
      BY <3>1 DEF Capacites, Contenue, n
    <3>2. CASE relocationtable' = creer_liste(TailleTables)
      <4>1. Contenue(creer_liste(TailleTables))
        BY LectureAssumption, ListeCreee
      <4> QED
        BY <3>2, <4>1 DEF Contenue, n
    <3>3. CASE ChargerReimplantation
      <4>1. CASE /\ Table(sections[i]) \in UneTable
                 /\ relocationtable' = ajouter(relocationtable, Table(sections[i]))
        <5>1. Contenue(ajouter(relocationtable, Table(sections[i])))
          BY <3>3, <4>1, TableChargee, ElementAjoute DEF Capacites
        <5> QED
          BY <4>1, <5>1 DEF Contenue, n
      <4> QED
        BY <3>1, <3>3, <4>1, TableChargee
    <3> QED
      BY <3>1, <3>2, <3>3, PasDesListes
  <2> QED
    BY <2>1, <2>2 DEF Capacites
<1> QED
  BY <1>1, <1>2, Invariant, PTL DEF Spec

-----------------------------------------------------------------------------
(***************************************************************************)
(* What is printed.                                                        *)
(***************************************************************************)

\* A line that the step prints, for the option at hand: the sections or a
\* relocation only by -B or -E.
Nouvelle(l) ==
  /\ l.opt = optind
  /\ l.quoi = "table" =>
       /\ sections' \in TablesLues(fichier) /\ sections' \in Seq(Section)
       /\ l.v = print_section_table(sections')
  /\ l.quoi = "rel" =>
       /\ ImprimerReimplantation /\ l.v.info = Nombre(Reimplantation.r_info)
       /\ l.v.valeur = Nombre(currentsymbol'.st_value)

LEMMA UneDePlus ==
  ASSUME NEW s \in Seq(Lignes), NEW l, NEW k \in DOMAIN Append(s, l)
  PROVE  (k \in DOMAIN s /\ Append(s, l)[k] = s[k]) \/ Append(s, l)[k] = l
<1>1. Len(s) \in Nat /\ DOMAIN s = 1 .. Len(s)
  BY LenProperties
<1> DEFINE t == Append(s, l)
<1>2. DOMAIN t = 1 .. Len(s) + 1 /\ t[Len(s) + 1] = l /\ \A q \in 1 .. Len(s) : t[q] = s[q]
  BY <1>1
<1> HIDE DEF t
<1>3. k \in 1 .. Len(s) + 1
  BY <1>2 DEF t
<1>4. k \in 1 .. Len(s) \/ k = Len(s) + 1
  BY <1>1, <1>3
<1> QED
  BY <1>1, <1>2, <1>4 DEF t

LEMMA UneSuite ==
  ASSUME NEW s \in Seq(Lignes), NEW m \in Nat, NEW r, DOMAIN r = 1 .. m, r \in Seq(Lignes),
         NEW k \in DOMAIN (s \o r)
  PROVE  (k \in DOMAIN s /\ (s \o r)[k] = s[k]) \/ \E q \in 1 .. m : (s \o r)[k] = r[q]
<1>1. Len(s) \in Nat /\ DOMAIN s = 1 .. Len(s) /\ Len(r) \in Nat /\ DOMAIN r = 1 .. Len(r)
  BY LenProperties
<1> DEFINE t == s \o r
<1>2. /\ DOMAIN t = 1 .. Len(s) + Len(r)
      /\ \A q \in 1 .. Len(s) + Len(r) : t[q] = IF q <= Len(s) THEN s[q] ELSE r[q - Len(s)]
  BY <1>1
<1> HIDE DEF t
<1>3. k \in 1 .. Len(s) + Len(r)
  BY <1>2 DEF t
<1>4. CASE k <= Len(s)
  BY <1>1, <1>2, <1>3, <1>4 DEF t
<1>5. CASE ~(k <= Len(s))
  <2>1. k - Len(s) \in 1 .. Len(r)
    BY <1>1, <1>3, <1>5
  <2> QED
    BY <1>1, <1>2, <1>3, <1>5, <2>1 DEF t
<1> QED
  BY <1>4, <1>5

LEMMA FichierGarde ==
  ASSUME [Next]_vars
  PROVE  fichier' = fichier
BY DEF vars, Next, Demarrer, MotIgnore, FinOptions, OptionSortie, OptionHote, OptionDebug,
   OptionDebugFatale, FichierAbsent, main_load_header, main_read_section_table, main_section,
   main_sectionFatale, SansVal, TronqueFatale, main_table_symbole, main_relocation_table,
   ChargerReimplantation, FinReimplantations, ChargerSymbole, SectionSuivante,
   print_tablesymbol, SansStrtab, print_relocation_table, Titre, ImprimerReimplantation,
   NomHorsTable, TableSuivante, FinImpression, Option, FinSymboles, Imprimer, EnCours

LEMMA LignesImprimees ==
  ASSUME IInv, [Next]_vars, NEW k \in DOMAIN sortie'
  PROVE  (k \in DOMAIN sortie /\ sortie'[k] = sortie[k]) \/ Nouvelle(sortie'[k])
<1>1. sortie \in Seq(Lignes)
  BY DEF IInv
<1>2. CASE UNCHANGED sortie
  BY <1>2
<1>3. CASE main_load_header
  <2> DEFINE x == Nombre(swap_header(load_header(fichier)).e_shnum)
  <2>1. sortie' = Append(sortie, Ligne("header", x))
    BY <1>3 DEF main_load_header
  <2> HIDE DEF x
  <2> DEFINE l == Ligne("header", x)
  <2>2. l.opt = optind /\ l.quoi = "header"
    BY DEF Ligne
  <2> HIDE DEF l
  <2>3. (k \in DOMAIN sortie /\ sortie'[k] = sortie[k]) \/ sortie'[k] = l
    BY <1>1, <2>1, UneDePlus DEF l
  <2> QED
    BY <2>2, <2>3 DEF Nouvelle
<1>4. CASE main_read_section_table
  <2> DEFINE l == Ligne("table", print_section_table(sections'))
  <2>1. sortie' = Append(sortie, l) /\ sections' \in TablesLues(fichier)
    BY <1>4 DEF main_read_section_table
  <2>2. sections' \in Seq(Section)
    BY <2>1, LuesDuFichier
  <2>3. l.opt = optind /\ l.quoi = "table" /\ l.v = print_section_table(sections')
    BY DEF Ligne
  <2> HIDE DEF l
  <2>4. (k \in DOMAIN sortie /\ sortie'[k] = sortie[k]) \/ sortie'[k] = l
    BY <1>1, <2>1, UneDePlus
  <2> QED
    BY <2>1, <2>2, <2>3, <2>4 DEF Nouvelle
<1>5. CASE main_section /\ ~UNCHANGED sortie
  <2> DEFINE x == CHOOSE v \in Demandees(sections') : TRUE
             l == Ligne("section", x)
  <2>1. sortie' = Append(sortie, l)
    BY <1>5 DEF main_section
  <2> HIDE DEF x
  <2>2. l.opt = optind /\ l.quoi = "section"
    BY DEF Ligne
  <2> HIDE DEF l
  <2>3. (k \in DOMAIN sortie /\ sortie'[k] = sortie[k]) \/ sortie'[k] = l
    BY <1>1, <2>1, UneDePlus
  <2> QED
    BY <2>2, <2>3 DEF Nouvelle
<1>6. CASE print_tablesymbol
  <2> DEFINE r == SymbolesEcrits
  <2>1. sortie' = sortie \o r /\ r \in Seq(Lignes) /\ \A q \in DOMAIN r : r[q].opt = optind /\ r[q].quoi = "symbole"
    BY <1>6, SymbolesImprimes
  <2>2. Len(r) \in Nat /\ DOMAIN r = 1 .. Len(r)
    BY <2>1, LenProperties
  <2> HIDE DEF r
  <2>3. (k \in DOMAIN sortie /\ sortie'[k] = sortie[k]) \/ \E q \in 1 .. Len(r) : sortie'[k] = r[q]
    BY <1>1, <2>1, <2>2, UneSuite
  <2> QED
    BY <2>1, <2>2, <2>3 DEF Nouvelle
<1>7. CASE Titre
  <2> DEFINE x == [nom |-> TableImprimee.nom, nb |-> TableImprimee.size]
  <2>1. sortie' = Append(sortie, Ligne("titre", x))
    BY <1>7 DEF Titre
  <2> HIDE DEF x
  <2> DEFINE l == Ligne("titre", x)
  <2>2. l.opt = optind /\ l.quoi = "titre"
    BY DEF Ligne
  <2> HIDE DEF l
  <2>3. (k \in DOMAIN sortie /\ sortie'[k] = sortie[k]) \/ sortie'[k] = l
    BY <1>1, <2>1, UneDePlus DEF l
  <2> QED
    BY <2>2, <2>3 DEF Nouvelle
<1>8. CASE ImprimerReimplantation
  <2> DEFINE x == [offset |-> Nombre(Reimplantation.r_offset),
                   info |-> Nombre(Reimplantation.r_info), sym |-> Indice,
                   valeur |-> Nombre(currentsymbol'.st_value)]
             l == Ligne("rel", x)
  <2>1. sortie' = Append(sortie, l)
    BY <1>8 DEF ImprimerReimplantation
  <2>2. /\ l.opt = optind /\ l.quoi = "rel" /\ l.v.info = Nombre(Reimplantation.r_info)
        /\ l.v.valeur = Nombre(currentsymbol'.st_value)
    BY DEF Ligne
  <2> HIDE DEF l
  <2>3. (k \in DOMAIN sortie /\ sortie'[k] = sortie[k]) \/ sortie'[k] = l
    BY <1>1, <2>1, UneDePlus
  <2> QED
    BY <1>8, <2>2, <2>3 DEF Nouvelle
<1> QED
  <2>1. UNCHANGED sortie \/ main_load_header \/ main_read_section_table \/ main_section
        \/ print_tablesymbol \/ Titre \/ ImprimerReimplantation
    BY DEF vars, Next, Demarrer, MotIgnore, FinOptions, OptionSortie, OptionHote,
       OptionDebug, OptionDebugFatale, FichierAbsent, main_sectionFatale,
       SansVal, TronqueFatale, SansStrtab, NomHorsTable, FinImpression, main_table_symbole,
       main_relocation_table, ChargerReimplantation, FinReimplantations, ChargerSymbole,
       SectionSuivante, print_relocation_table, TableSuivante
  <2> QED
    BY <1>2, <1>3, <1>4, <1>5, <1>6, <1>7, <1>8, <2>1

\* The letters of a line of -B, for the flags that a word of the file stands for.
BonnesLettres(ligne, sh_flags) ==
  LET flags == EnInt(Nombre(sh_flags))
  IN  flags \in 0 .. 2047 /\ ~A(flags, 8) => ligne.permissions = Lettres(flags)

LEMMA LettresBonnes ==
  ASSUME NEW mot, Nombre(mot) \in Nat, NEW ligne,
         ligne.permissions = permissions(Nombre(mot))
  PROVE  BonnesLettres(ligne, mot)
<1>1. PICK w \in Nat : w = Nombre(mot)
  OBVIOUS
<1>2. PICK x : x = EnInt(w)
  OBVIOUS
<1>3. x \in 0 .. 2047 /\ ~A(x, 8) => permissions(w) = Lettres(x)
  <2> SUFFICES ASSUME x \in 0 .. 2047, ~A(x, 8) PROVE permissions(w) = Lettres(x)
    OBVIOUS
  <2>1. w \in Nat
    BY <1>1
  <2>2. x \in Nat /\ x <= 2047
    OBVIOUS
  <2> QED
    BY <1>2, <2>1, <2>2, PermissionsLettres
<1> QED
  BY <1>1, <1>2, <1>3 DEF BonnesLettres

\* -B prints the letters of the flags of every section, for all the flags the
\* display knows (affichage.c:158-213).
THEOREM PermissionsDesSections == Spec => []PermissionsAffichees
<1>1. Init => PermissionsAffichees
  BY DEF Init, InitLecture, PermissionsAffichees
<1>2. IInv /\ PermissionsAffichees /\ [Next]_vars => PermissionsAffichees'
  <2> SUFFICES ASSUME IInv, PermissionsAffichees, [Next]_vars, Entier',
                      NEW k \in DOMAIN sortie', sortie'[k].quoi = "table"
               PROVE  /\ DOMAIN sortie'[k].v = DOMAIN fichier'.sect
                      /\ \A v \in DOMAIN fichier'.sect :
                           BonnesLettres(sortie'[k].v[v], fichier'.sect[v].sh_flags)
    <3>1. PermissionsAffichees' <=>
            (Entier' => \A m \in DOMAIN sortie' : sortie'[m].quoi = "table" =>
               /\ DOMAIN sortie'[m].v = DOMAIN fichier'.sect
               /\ \A v \in DOMAIN fichier'.sect :
                    BonnesLettres(sortie'[m].v[v], fichier'.sect[v].sh_flags))
      BY Zenon DEF PermissionsAffichees, BonnesLettres
    <3> QED
      BY <3>1
  <2>1. fichier' = fichier /\ Entier
    BY FichierGarde DEF Entier
  <2>2. CASE k \in DOMAIN sortie /\ sortie'[k] = sortie[k]
    <3>1. Entier => \A m \in DOMAIN sortie : sortie[m].quoi = "table" =>
            /\ DOMAIN sortie[m].v = DOMAIN fichier.sect
            /\ \A v \in DOMAIN fichier.sect :
                 BonnesLettres(sortie[m].v[v], fichier.sect[v].sh_flags)
      BY Zenon DEF PermissionsAffichees, BonnesLettres
    <3> QED
      BY <2>1, <2>2, <3>1
  <2>3. CASE Nouvelle(sortie'[k])
    <3> DEFINE s == fichier.sect
    <3>1. s \in Seq(Section) /\ sortie'[k].v = print_section_table(s)
      BY <2>1, <2>3, LuesDuFichier DEF Nouvelle
    <3> HIDE DEF s
    <3>2. /\ DOMAIN sortie'[k].v = DOMAIN s
          /\ \A v \in DOMAIN s : sortie'[k].v[v].permissions = permissions(Nombre(s[v].sh_flags))
      BY <3>1, SectionAffichee
    <3>3. \A v \in DOMAIN s : Nombre(s[v].sh_flags) \in Nat
      <4>1. \A v \in DOMAIN s : s[v] \in Section
        BY <3>1, ElementOfSeq, LenProperties
      <4> QED
        BY <4>1, NombreMot DEF Section
    <3>4. \A v \in DOMAIN s : BonnesLettres(sortie'[k].v[v], s[v].sh_flags)
      BY <3>2, <3>3, LettresBonnes
    <3> QED
      BY <2>1, <3>2, <3>4 DEF s
  <2> QED
    BY <2>2, <2>3, LignesImprimees
<1> QED
  BY <1>1, <1>2, Invariant, PTL DEF Spec

-----------------------------------------------------------------------------
(***************************************************************************)
(* The symbols read.                                                       *)
(***************************************************************************)

\* What a section gives, if it is of type SHT_SYMTAB.
DeLaSection(s) == IF DuType(s, SHT_SYMTAB) THEN s.contenu ELSE <<>>

\* What the loops have read when they are at symbol q of section p.
Lus(s, p, q) ==
  DeType(SubSeq(s, 1, p - 1), SHT_SYMTAB)
    \o IF p <= Len(s) /\ DuType(s[p], SHT_SYMTAB)
       THEN SubSeq(s[p].contenu, 1, q - 1) ELSE <<>>

LEMMA Entree ==
  ASSUME NEW x \in Section
  PROVE  DeLaSection(x) \in Seq(Symboles)
BY DEF DeLaSection, Section

\* The symbols of one section more.
LEMMA UneSectionDePlus ==
  ASSUME NEW s \in Seq(Section), NEW x \in Section
  PROVE  /\ DeType(s, SHT_SYMTAB) \in Seq(Symboles)
         /\ DeType(Append(s, x), SHT_SYMTAB) = DeType(s, SHT_SYMTAB) \o DeLaSection(x)
<1> DEFINE m == Len(s)
           u == [v \in DOMAIN s |-> DeLaSection(s[v])]
           t == Append(s, x)
           w == [v \in DOMAIN t |-> DeLaSection(t[v])]
<1>1. m \in Nat /\ DOMAIN s = 1 .. m /\ \A v \in 1 .. m : s[v] \in Section
  BY LenProperties, ElementOfSeq
<1>2. DOMAIN t = 1 .. m + 1 /\ t[m + 1] = x /\ \A v \in 1 .. m : t[v] = s[v]
  BY <1>1
<1> HIDE DEF t
<1>3. DeType(s, SHT_SYMTAB) = FlattenSeq(u) /\ DeType(t, SHT_SYMTAB) = FlattenSeq(w)
  BY DEF DeType, DeLaSection
<1> DEFINE d == DeLaSection(x)
<1>4. d \in Seq(Symboles)
  BY Entree
<1>5. u \in [1 .. m -> Seq(Symboles)]
  BY <1>1, Entree
<1>6. w \in [1 .. m + 1 -> Seq(Symboles)] /\ w[m + 1] = d /\ \A v \in 1 .. m : w[v] = u[v]
  <2>1. \A v \in 1 .. m + 1 : v \in 1 .. m \/ v = m + 1
    BY <1>1
  <2>2. \A v \in 1 .. m + 1 : t[v] \in Section
    BY <1>1, <1>2, <2>1
  <2> QED
    BY <1>1, <1>2, <2>2, Entree
<1> HIDE DEF u, w, d, m
<1>7. u \in Seq(Seq(Symboles)) /\ Len(u) = m
  BY <1>1, <1>5
<1>8. w = Append(u, d)
  <2> DEFINE q == Append(u, d)
  <2>1. /\ q \in Seq(Seq(Symboles)) /\ Len(q) = m + 1
        /\ q[m + 1] = d /\ \A v \in 1 .. m : q[v] = u[v]
    BY <1>4, <1>7, AppendProperties
  <2>2. w \in Seq(Seq(Symboles)) /\ Len(w) = m + 1
    BY <1>1, <1>6
  <2> HIDE DEF q
  <2>3. \A v \in 1 .. m + 1 : w[v] = q[v]
    <3>1. \A v \in 1 .. m + 1 : v \in 1 .. m \/ v = m + 1
      BY <1>1
    <3> QED
      BY <1>6, <2>1, <3>1
  <2> QED
    BY <2>1, <2>2, <2>3, SeqEqual DEF q
<1> QED
  BY <1>3, <1>4, <1>7, <1>8, FlattenAppend DEF t, d

LEMMA AucuneSection ==
  DeType(<<>>, SHT_SYMTAB) = <<>>
<1> DEFINE u == [v \in DOMAIN <<>> |-> IF DuType(<<>>[v], SHT_SYMTAB) THEN <<>>[v].contenu ELSE <<>>]
<1>1. u = <<>> /\ Len(u) = 0
  OBVIOUS
<1>2. DeType(<<>>, SHT_SYMTAB) = FlattenSeq(u)
  BY DEF DeType
<1> HIDE DEF u
<1> QED
  BY <1>1, <1>2, FlattenVide

LEMMA LusAuDebut ==
  ASSUME NEW s \in Seq(Section)
  PROVE  Lus(s, 1, 1) = <<>> /\ Lus(s, Len(s) + 1, 1) = DeType(s, SHT_SYMTAB)
<1>1. Len(s) \in Nat /\ \A v \in 1 .. Len(s) : s[v] \in Section
  BY LenProperties, ElementOfSeq
<1>2. SubSeq(s, 1, 0) = <<>> /\ SubSeq(s, 1, Len(s)) = s
  BY Prefixe
<1>3. \A x \in Section : DuType(x, SHT_SYMTAB) => SubSeq(x.contenu, 1, 0) = <<>>
  BY Prefixe DEF Section
<1>4. DeType(s, SHT_SYMTAB) \in Seq(Symboles)
  <2>1. CASE s = <<>>
    <3>1. DeType(s, SHT_SYMTAB) = <<>>
      BY <2>1, AucuneSection
    <3> QED
      BY <3>1, EmptySeq
  <2>2. CASE s # <<>>
    <3> DEFINE m == Len(s)
               r == SubSeq(s, 1, m - 1)
    <3>1. m \in 1 .. Len(s) /\ m - 1 \in 0 .. Len(s)
      BY <1>1, <2>2
    <3>2. r \in Seq(Section) /\ s[m] \in Section /\ s = Append(r, s[m])
      BY <1>1, <1>2, <3>1, Prefixe
    <3> HIDE DEF r, m
    <3>3. DeType(r, SHT_SYMTAB) \in Seq(Symboles) /\ DeLaSection(s[m]) \in Seq(Symboles)
      BY <3>2, UneSectionDePlus, Entree
    <3>4. DeType(s, SHT_SYMTAB) = DeType(r, SHT_SYMTAB) \o DeLaSection(s[m])
      BY <3>2, UneSectionDePlus
    <3> QED
      BY <3>3, <3>4, ConcatProperties
  <2> QED
    BY <2>1, <2>2
<1>5. Lus(s, 1, 1) = <<>>
  <2>1. DeType(SubSeq(s, 1, 1 - 1), SHT_SYMTAB) = <<>>
    <3>1. SubSeq(s, 1, 1 - 1) = <<>>
      BY <1>2
    <3> QED
      BY <3>1, AucuneSection
  <2>2. CASE 1 <= Len(s) /\ DuType(s[1], SHT_SYMTAB)
    <3>1. SubSeq(s[1].contenu, 1, 1 - 1) = <<>>
      BY <1>1, <1>3, <2>2
    <3> QED
      BY <2>1, <2>2, <3>1 DEF Lus
  <2>3. CASE ~(1 <= Len(s) /\ DuType(s[1], SHT_SYMTAB))
    BY <2>1, <2>3 DEF Lus
  <2> QED
    BY <2>2, <2>3
<1>6. Lus(s, Len(s) + 1, 1) = DeType(s, SHT_SYMTAB)
  <2>1. SubSeq(s, 1, Len(s) + 1 - 1) = s /\ ~(Len(s) + 1 <= Len(s))
    BY <1>1, <1>2
  <2> DEFINE k == Len(s) + 1
             r == SubSeq(s, 1, k - 1)
  <2>2. r = s /\ ~(k <= Len(s))
    BY <2>1
  <2>3. Lus(s, k, 1) = DeType(s, SHT_SYMTAB) \o <<>>
    <3>1. ~(k <= Len(s)) => Lus(s, k, 1) = DeType(r, SHT_SYMTAB) \o <<>>
      <4> HIDE DEF k
      <4> QED
        BY DEF Lus
    <3> HIDE DEF k, r
    <3> QED
      BY <2>2, <3>1
  <2> QED
    BY <1>4, <2>3, ConcatEmptySeq
<1> QED
  BY <1>5, <1>6

\* One symbol more.
LEMMA UnSymboleDePlus ==
  ASSUME NEW s \in Seq(Section), NEW p \in 1 .. Len(s), DuType(s[p], SHT_SYMTAB),
         NEW q \in 1 .. Len(s[p].contenu)
  PROVE  Lus(s, p, q + 1) = Append(Lus(s, p, q), s[p].contenu[q])
<1> DEFINE c == s[p].contenu
           d == DeType(SubSeq(s, 1, p - 1), SHT_SYMTAB)
           a == SubSeq(c, 1, q - 1)
<1>1. Len(s) \in Nat /\ p \in Nat /\ p <= Len(s) /\ s[p] \in Section /\ p - 1 \in 0 .. Len(s)
  BY LenProperties, ElementOfSeq
<1>2. c \in Seq(Symboles) /\ q \in 1 .. Len(c) /\ Len(c) \in Nat /\ c[q] \in Symboles
  <2>1. c \in Seq(Symboles)
    BY <1>1 DEF Section
  <2> HIDE DEF c
  <2>2. q \in 1 .. Len(c)
    BY DEF c
  <2> QED
    BY <2>1, <2>2, LenProperties, ElementOfSeq
<1>3. d \in Seq(Symboles)
  <2> DEFINE r == SubSeq(s, 1, p - 1)
  <2>1. r \in Seq(Section)
    BY <1>1, Prefixe
  <2> HIDE DEF r
  <2>2. DeType(r, SHT_SYMTAB) \in Seq(Symboles)
    BY <1>1, <2>1, UneSectionDePlus
  <2> QED
    BY <2>2 DEF r
<1>4. a \in Seq(Symboles) /\ SubSeq(c, 1, q + 1 - 1) = Append(a, c[q])
  <2> HIDE DEF c
  <2>1. q - 1 \in 0 .. Len(c) /\ q + 1 - 1 = q
    BY <1>2
  <2> QED
    BY <1>2, <2>1, Prefixe
<1>5. Lus(s, p, q) = d \o a /\ Lus(s, p, q + 1) = d \o SubSeq(c, 1, q + 1 - 1)
  BY <1>1 DEF Lus
<1> DEFINE e == c[q]
<1>6. Lus(s, p, q + 1) = d \o Append(a, e)
  BY <1>4, <1>5
<1>7. e \in Symboles
  BY <1>2
<1> HIDE DEF d, a, e, c
<1>8. d \o Append(a, e) = Append(d \o a, e)
  BY <1>3, <1>4, <1>7
<1> QED
  BY <1>5, <1>6, <1>8 DEF c, e

\* A section is done.
LEMMA SectionLue ==
  ASSUME NEW s \in Seq(Section), NEW p \in 1 .. Len(s), NEW q,
         DuType(s[p], SHT_SYMTAB) => q = Len(s[p].contenu) + 1
  PROVE  Lus(s, p + 1, 1) = Lus(s, p, q)
<1> DEFINE r == SubSeq(s, 1, p - 1)
           x == s[p]
           d == DeType(r, SHT_SYMTAB)
<1>1. /\ Len(s) \in Nat /\ p \in Nat /\ p <= Len(s) /\ x \in Section
      /\ p - 1 \in 0 .. Len(s) /\ p + 1 - 1 = p
      /\ p + 1 <= Len(s) => s[p + 1] \in Section
  BY LenProperties, ElementOfSeq
<1>2. r \in Seq(Section) /\ SubSeq(s, 1, p + 1 - 1) = Append(r, x)
  BY <1>1, Prefixe
<1> HIDE DEF r, x
<1>3. /\ d \in Seq(Symboles) /\ DeLaSection(x) \in Seq(Symboles)
      /\ DeType(SubSeq(s, 1, p + 1 - 1), SHT_SYMTAB) = d \o DeLaSection(x)
  BY <1>1, <1>2, UneSectionDePlus, Entree
<1> HIDE DEF d
<1>4. Lus(s, p, q) = d \o DeLaSection(x)
  <2>1. CASE DuType(x, SHT_SYMTAB)
    <3>1. x.contenu \in Seq(Symboles)
      BY <1>1, <2>1 DEF Section
    <3>2. Len(x.contenu) \in Nat
      BY <3>1, LenProperties
    <3>3. q = Len(x.contenu) + 1
      BY <2>1 DEF x
    <3>4. SubSeq(x.contenu, 1, q - 1) = x.contenu
      <4>1. q - 1 = Len(x.contenu)
        BY <3>2, <3>3
      <4> QED
        BY <3>1, <4>1, Prefixe
    <3>5. Lus(s, p, q) = d \o SubSeq(x.contenu, 1, q - 1)
      BY <1>1, <2>1 DEF Lus, d, r, x
    <3> QED
      BY <2>1, <3>4, <3>5 DEF DeLaSection
  <2>2. CASE ~DuType(x, SHT_SYMTAB)
    BY <2>2 DEF Lus, d, r, x, DeLaSection
  <2> QED
    BY <2>1, <2>2
<1>5. Lus(s, p + 1, 1) = (d \o DeLaSection(x)) \o <<>>
  <2>1. CASE p + 1 <= Len(s) /\ DuType(s[p + 1], SHT_SYMTAB)
    <3> DEFINE c == s[p + 1].contenu
    <3>1. c \in Seq(Symboles)
      BY <1>1, <2>1 DEF Section
    <3> HIDE DEF c
    <3>2. SubSeq(c, 1, 1 - 1) = <<>>
      BY <3>1, Prefixe
    <3> QED
      BY <1>3, <2>1, <3>2 DEF Lus, c
  <2>2. CASE ~(p + 1 <= Len(s) /\ DuType(s[p + 1], SHT_SYMTAB))
    BY <1>3, <2>2 DEF Lus
  <2> QED
    BY <2>1, <2>2
<1>6. d \o DeLaSection(x) \in Seq(Symboles)
  BY <1>3, ConcatProperties
<1> QED
  BY <1>4, <1>5, <1>6, ConcatEmptySeq

\* A symbol loaded and swapped is that of the file, the others stay.
LEMMA UnSymboleInverse ==
  ASSUME NEW liste \in Symboliques, NEW x \in Symboles
  PROVE  Inversee(ajouter(liste, load_symb(x))).tab = Append(Inversee(liste).tab, x)
<1> DEFINE l == ajouter(liste, load_symb(x))
           m == Len(liste.tab)
           u == Inversee(liste).tab
           w == Inversee(l).tab
<1>1. liste.tab \in Seq(Symboles) /\ m \in Nat /\ load_symb(x) \in Symboles
  BY SymboleLu, LenProperties DEF Symboliques
<1>2. l \in Symboliques /\ l.tab = Append(liste.tab, load_symb(x))
  BY <1>1, ElementAjoute DEF Symboliques
<1>3. Len(l.tab) = m + 1 /\ l.tab[m + 1] = load_symb(x) /\ \A k \in 1 .. m : l.tab[k] = liste.tab[k]
  BY <1>1, <1>2, AppendProperties
<1>4. /\ u \in Seq(Symboles) /\ Len(u) = m
      /\ \A k \in 1 .. m : u[k] = swap_header_symb(liste.tab[k])
  BY ListeInversee DEF Symboliques
<1> HIDE DEF l
<1>5. /\ w \in Seq(Symboles) /\ Len(w) = m + 1
      /\ \A k \in 1 .. m + 1 : w[k] = swap_header_symb(l.tab[k])
  BY <1>2, <1>3, ListeInversee DEF Symboliques
<1> HIDE DEF u, w, m
<1> DEFINE q == Append(u, x)
<1>6. q \in Seq(Symboles) /\ Len(q) = m + 1 /\ q[m + 1] = x /\ \A k \in 1 .. m : q[k] = u[k]
  BY <1>4, AppendProperties
<1> HIDE DEF q
<1>7. \A k \in 1 .. m + 1 : w[k] = q[k]
  <2>1. \A k \in 1 .. m + 1 : k \in 1 .. m \/ k = m + 1
    BY <1>1
  <2>2. swap_header_symb(load_symb(x)) = x
    BY SymboleLu
  <2>3. m + 1 \in 1 .. m + 1 /\ \A k \in 1 .. m : k \in 1 .. m + 1
    BY <1>1
  <2> QED
    BY <1>3, <1>4, <1>5, <1>6, <2>1, <2>2, <2>3
<1>8. w = q
  BY <1>5, <1>6, <1>7, SeqEqual
<1> QED
  BY <1>8 DEF w, q, l, u

\* The steps into and inside the loops on the symbols, and those that print.
LEMMA PasDesSymboles ==
  ASSUME [Next]_vars
  PROVE  /\ pc' = "symboles" =>
              \/ LireSections \/ ChargerSymbole \/ SectionSuivante
              \/ pc = "symboles" /\ UNCHANGED <<i, j, sections, liste_symb>>
         /\ pc' = "impression" =>
              \/ print_relocation_table
              \/ pc = "impression" /\ UNCHANGED <<sections, liste_symb>>
<1>1. CASE UNCHANGED vars
  BY <1>1 DEF vars, boucle
<1>2. CASE \/ Demarrer \/ MotIgnore \/ FinOptions \/ OptionSortie \/ OptionHote
           \/ OptionDebug \/ OptionDebugFatale \/ FichierAbsent
           \/ main_load_header \/ main_read_section_table
           \/ main_section \/ main_sectionFatale \/ SansVal \/ TronqueFatale
           \/ print_tablesymbol \/ SansStrtab \/ NomHorsTable \/ FinImpression
  BY <1>2 DEF Demarrer, MotIgnore, FinOptions, OptionSortie, OptionHote, OptionDebug,
     OptionDebugFatale, FichierAbsent, main_load_header, main_read_section_table, main_section,
     main_sectionFatale, SansVal, TronqueFatale, print_tablesymbol, SansStrtab, NomHorsTable,
     FinImpression, Option, OptionSuivante
<1>3. CASE \/ main_table_symbole \/ main_relocation_table \/ ChargerReimplantation
           \/ FinReimplantations
  BY <1>3 DEF main_table_symbole, main_relocation_table, ChargerReimplantation,
     FinReimplantations, LireSections, EnCours
<1>4. CASE ChargerSymbole \/ SectionSuivante
  BY <1>4 DEF ChargerSymbole, SectionSuivante, EnCours
<1>5. CASE print_relocation_table \/ Titre \/ ImprimerReimplantation \/ TableSuivante
  BY <1>5 DEF print_relocation_table, Titre, ImprimerReimplantation, TableSuivante, Imprimer, EnCours
<1> QED
  BY <1>1, <1>2, <1>3, <1>4, <1>5 DEF Next

LusJusquIci == Inversee(liste_symb).tab = Lus(sections, i, j)

LEMMA SymbolesLusAutrement ==
  SymbolesLus <=> /\ pc = "symboles" => LusJusquIci
                  /\ pc = "impression" => liste_symb.tab = DeType(sections, SHT_SYMTAB)
BY DEF SymbolesLus, LusJusquIci, Lus

\* The symbols are read once each and in order through all the sections of
\* type SHT_SYMTAB, and swapped once (lecture.c:132-150, affichage.c:466-470).
THEOREM SymbolesDuFichier == Spec => []SymbolesLus
<1>1. Init => SymbolesLus
  BY DEF Init, InitLecture, SymbolesLus
<1>2. IInv /\ SymbolesLus /\ [Next]_vars => SymbolesLus'
  <2> SUFFICES ASSUME IInv, SymbolesLus, [Next]_vars PROVE SymbolesLus'
    OBVIOUS
  <2>1. ASSUME pc' = "symboles" PROVE LusJusquIci'
    <3>1. CASE LireSections
      <4>1. /\ sections' \in Seq(Section) /\ i' = 1 /\ j' = 1
            /\ liste_symb' = creer_liste(TailleSymb)
        BY <3>1, LuesDuFichier DEF LireSections
      <4>2. liste_symb'.tab = <<>> /\ liste_symb' \in Symboliques
        BY <4>1, LectureAssumption, ListeCreee DEF Symboliques
      <4>3. Inversee(liste_symb').tab = <<>>
        BY <4>2 DEF Inversee, Symboliques
      <4>4. Lus(sections', 1, 1) = <<>>
        BY <4>1, LusAuDebut
      <4>5. Lus(sections', i', j') = Lus(sections', 1, 1)
        BY <4>1
      <4> QED
        BY <4>3, <4>4, <4>5 DEF LusJusquIci, Inversee, Lus, DeType, DuType
    <3>2. CASE ChargerSymbole
      <4>1. LusJusquIci /\ j' = j + 1 /\ UNCHANGED <<i, sections>> /\ sections \in Seq(Section)
        BY <3>2, SymbolesLusAutrement DEF ChargerSymbole, EnCours, IInv, TypeOK, ListesLues
      <4> DEFINE x == sections[i].contenu[j]
      <4>2. /\ DuType(sections[i], SHT_SYMTAB) /\ i \in 1 .. Len(sections)
            /\ j \in 1 .. Len(sections[i].contenu) /\ x \in Symboles
            /\ liste_symb \in Symboliques /\ liste_symb' = ajouter(liste_symb, load_symb(x))
        BY <3>2, SymboleCharge
      <4>3. Lus(sections, i, j + 1) = Append(Lus(sections, i, j), x)
        BY <4>1, <4>2, UnSymboleDePlus
      <4> HIDE DEF x
      <4>4. Inversee(liste_symb').tab = Append(Inversee(liste_symb).tab, x)
        BY <4>2, UnSymboleInverse
      <4> QED
        BY <4>1, <4>3, <4>4 DEF LusJusquIci, Lus
    <3>3. CASE SectionSuivante
      <4>1. /\ LusJusquIci /\ i' = i + 1 /\ j' = 1 /\ UNCHANGED <<sections, liste_symb>>
            /\ pc = "symboles" /\ i <= Len(sections) /\ ~DansSymtab /\ sections \in Seq(Section)
        BY <3>3, SymbolesLusAutrement DEF SectionSuivante, EnCours, IInv, TypeOK, ListesLues
      <4>2. /\ i \in 1 .. Len(sections) + 1 /\ Len(sections) \in Nat
            /\ DuType(sections[i], SHT_SYMTAB) => j \in 1 .. Len(sections[i].contenu) + 1
                                                  /\ Len(sections[i].contenu) \in Nat
        BY <4>1, DansSymboles
      <4>3. i \in 1 .. Len(sections)
        BY <4>1, <4>2
      <4>4. DuType(sections[i], SHT_SYMTAB) => j = Len(sections[i].contenu) + 1
        BY <4>1, <4>2 DEF DansSymtab
      <4>5. Lus(sections, i + 1, 1) = Lus(sections, i, j)
        BY <4>1, <4>3, <4>4, SectionLue
      <4> QED
        BY <4>1, <4>5 DEF LusJusquIci, Lus
    <3>4. CASE pc = "symboles" /\ UNCHANGED <<i, j, sections, liste_symb>>
      BY <3>4, SymbolesLusAutrement DEF LusJusquIci, Lus
    <3> QED
      BY <2>1, <3>1, <3>2, <3>3, <3>4, PasDesSymboles
  <2>2. ASSUME pc' = "impression" PROVE liste_symb'.tab = DeType(sections', SHT_SYMTAB)
    <3>1. CASE print_relocation_table
      <4>1. /\ LusJusquIci /\ pc = "symboles" /\ i > Len(sections) /\ sections' = sections
            /\ liste_symb' = Inversee(liste_symb) /\ sections \in Seq(Section)
        BY <3>1, SymbolesLusAutrement DEF print_relocation_table, FinSymboles, EnCours, IInv,
           TypeOK, ListesLues
      <4>2. i = Len(sections) + 1 /\ j = 1
        <5>1. /\ i \in 1 .. Len(sections) + 1 /\ Len(sections) \in Nat
              /\ ~(i <= Len(sections) /\ DuType(sections[i], SHT_SYMTAB)) => j = 1
          BY <4>1, DansSymboles
        <5> QED
          BY <4>1, <5>1
      <4>3. Lus(sections, Len(sections) + 1, 1) = DeType(sections, SHT_SYMTAB)
        BY <4>1, LusAuDebut
      <4> QED
        BY <4>1, <4>2, <4>3 DEF LusJusquIci
    <3>2. CASE pc = "impression" /\ UNCHANGED <<sections, liste_symb>>
      BY <3>2 DEF SymbolesLus
    <3> QED
      BY <2>2, <3>1, <3>2, PasDesSymboles
  <2>3. (SymbolesLus <=> /\ pc = "symboles" => LusJusquIci
                         /\ pc = "impression" => liste_symb.tab = DeType(sections, SHT_SYMTAB))'
    BY SymbolesLusAutrement, PTL
  <2> QED
    BY <2>1, <2>2, <2>3
<1> QED
  BY <1>1, <1>2, Invariant, PTL DEF Spec

\* The value printed with a relocation is that of the symbol whose index the
\* relocation holds (affichage.c:503-504).
THEOREM ValeursDesSymboles == Spec => []ValeursRel
<1>1. Init => ValeursRel
  BY DEF Init, InitLecture, ValeursRel
<1>2. IInv /\ SymbolesLus /\ ValeursRel /\ [Next]_vars => ValeursRel'
  <2> SUFFICES ASSUME IInv, SymbolesLus, ValeursRel, [Next]_vars, Entier',
                      NEW k \in DOMAIN sortie', sortie'[k].quoi = "rel",
                      sortie'[k].v.info \div Octet < Len(Sens(DeType(fichier'.sect, SHT_SYMTAB)))
               PROVE  sortie'[k].v.valeur
                        = Sens(DeType(fichier'.sect, SHT_SYMTAB))[sortie'[k].v.info \div Octet + 1].st_value
    BY DEF ValeursRel
  <2>1. fichier' = fichier /\ Entier
    BY FichierGarde DEF Entier
  <2>2. CASE k \in DOMAIN sortie /\ sortie'[k] = sortie[k]
    BY <2>1, <2>2 DEF ValeursRel
  <2>3. CASE Nouvelle(sortie'[k])
    <3>1. /\ ImprimerReimplantation /\ sortie'[k].v.info = Nombre(Reimplantation.r_info)
          /\ sortie'[k].v.valeur = Nombre(currentsymbol'.st_value)
      BY <2>3 DEF Nouvelle
    <3>2. /\ Imprimer /\ pc = "impression" /\ j \in 1 .. TableImprimee.size
          /\ currentsymbol' = get_symbol(liste_symb, Indice, currentsymbol)
      BY <3>1 DEF ImprimerReimplantation, Imprimer, EnCours
    <3>3. Indice \in Nat /\ sortie'[k].v.info \div Octet = Indice
      BY <3>1, <3>2, ReimplantationLue
    <3> DEFINE t == DeType(fichier.sect, SHT_SYMTAB)
    <3>4. liste_symb.tab = t
      <4>1. sections = fichier.sect
        BY <2>1, <3>2 DEF IInv, OptionEnCours, Parcours
      <4> QED
        BY <3>2, <4>1 DEF SymbolesLus
    <3>5. t \in Seq(Symboles)
      BY <3>4 DEF IInv, TypeOK, ListesLues
    <3> HIDE DEF t
    <3>6. Len(t) \in Nat /\ DOMAIN t = 1 .. Len(t)
      BY <3>5, LenProperties
    <3>7. Len(Sens(t)) = Len(t) /\ \A q \in 1 .. Len(t) : Sens(t)[q].st_value = Nombre(t[q].st_value)
      BY <3>6 DEF Sens, Affiche
    <3>8. Indice < Len(t)
      BY <2>1, <3>3, <3>7 DEF t
    <3> DEFINE p == Indice
    <3>9. currentsymbol' = t[p + 1]
      BY <3>2, <3>4, <3>8 DEF get_symbol, n
    <3>10. p + 1 \in 1 .. Len(t)
      BY <3>3, <3>6, <3>8
    <3> QED
      BY <2>1, <3>1, <3>3, <3>7, <3>9, <3>10 DEF t
  <2> QED
    BY <2>2, <2>3, LignesImprimees
<1> QED
  BY <1>1, <1>2, Invariant, SymbolesDuFichier, PTL DEF Spec

-----------------------------------------------------------------------------
(***************************************************************************)
(* The table of --debug.                                                   *)
(***************************************************************************)

\* The binary search of __is_debugged, as the equation that defines it.
Recherche(d, files, name) ==
  d = [e \in (0 .. Len(files)) \X (-1 .. Len(files) - 1) |->
        LET from == e[1]  to == e[2]  middle == (from + to) \div 2
        IN  IF from >= to
            THEN from = to /\ files[from + 1] = name
            ELSE \/ files[middle + 1] = name
                 \/ files[middle + 1] < name /\ d[<<middle + 1, to>>]
                 \/ files[middle + 1] > name /\ d[<<from, middle - 1>>]]

Trouve(files, name, from, to) == \E k \in from .. to : files[k + 1] = name

Triee(files) == \A a, b \in 1 .. Len(files) : a <= b => files[a] <= files[b]

LEMMA ParRecherche ==
  ASSUME NEW files, NEW name
  PROVE  is_debugged(files, name) = (CHOOSE d : Recherche(d, files, name))[<<0, Len(files) - 1>>]
BY DEF is_debugged, Recherche

LEMMA Moitie ==
  ASSUME NEW files \in Seq(Nat), Triee(files), NEW name \in Nat,
         NEW from \in 0 .. Len(files), NEW to \in -1 .. Len(files) - 1, from < to
  PROVE  LET middle == (from + to) \div 2
         IN  /\ middle \in from .. to - 1
             /\ Trouve(files, name, from, to) <=>
                  \/ files[middle + 1] = name
                  \/ files[middle + 1] < name /\ Trouve(files, name, middle + 1, to)
                  \/ files[middle + 1] > name /\ Trouve(files, name, from, middle - 1)
<1> DEFINE L == Len(files)
           m == (from + to) \div 2
<1>1. L \in Nat /\ \A k \in 1 .. L : files[k] \in Nat
  BY LenProperties, ElementOfSeq
<1> HIDE DEF L
<1>2. from \in Nat /\ to \in Nat /\ to < L
  BY <1>1 DEF L
<1>3. m \in from .. to - 1
  BY <1>2
<1> HIDE DEF m
<1>4. m \in Nat /\ from <= m /\ m < to /\ m + 1 \in 1 .. L
  BY <1>1, <1>2, <1>3
<1>5. \A k \in from .. to : /\ k + 1 \in 1 .. L /\ (k <= m => files[k + 1] <= files[m + 1])
                            /\ (k >= m => files[k + 1] >= files[m + 1])
  BY <1>1, <1>2, <1>4 DEF Triee, L
<1>6. ASSUME NEW k \in from .. to, files[k + 1] = name
      PROVE  \/ files[m + 1] = name
             \/ files[m + 1] < name /\ k \in m + 1 .. to
             \/ files[m + 1] > name /\ k \in from .. m - 1
  <2>1. files[k + 1] \in Nat /\ files[m + 1] \in Nat
    BY <1>1, <1>4, <1>5, <1>6
  <2>2. k < m \/ k = m \/ k > m
    BY <1>2, <1>4
  <2> QED
    BY <1>2, <1>4, <1>5, <1>6, <2>1, <2>2
<1>7. /\ m \in from .. to
      /\ \A k \in m + 1 .. to : k \in from .. to
      /\ \A k \in from .. m - 1 : k \in from .. to
  BY <1>2, <1>4
<1> QED
  BY <1>3, <1>6, <1>7 DEF Trouve, m

LEMMA UneRecherche ==
  ASSUME NEW files \in Seq(Nat), Triee(files), NEW name \in Nat
  PROVE  Recherche([e \in (0 .. Len(files)) \X (-1 .. Len(files) - 1) |->
                      Trouve(files, name, e[1], e[2])], files, name)
<1> DEFINE S == (0 .. Len(files)) \X (-1 .. Len(files) - 1)
           d == [e \in S |-> Trouve(files, name, e[1], e[2])]
           corps(e) == LET from == e[1]  to == e[2]  middle == (from + to) \div 2
                       IN  IF from >= to
                           THEN from = to /\ files[from + 1] = name
                           ELSE \/ files[middle + 1] = name
                                \/ files[middle + 1] < name /\ d[<<middle + 1, to>>]
                                \/ files[middle + 1] > name /\ d[<<from, middle - 1>>]
<1>1. ASSUME NEW e \in S
      PROVE  Trouve(files, name, e[1], e[2]) <=> corps(e)
  <2> DEFINE from == e[1]
             to == e[2]
             m == (from + to) \div 2
  <2>1. from \in 0 .. Len(files) /\ to \in -1 .. Len(files) - 1 /\ Len(files) \in Nat
    BY LenProperties
  <2>2. CASE from >= to
    <3>1. Trouve(files, name, from, to) <=> from = to /\ files[from + 1] = name
      <4> HIDE DEF from, to
      <4> QED
        BY <2>1, <2>2 DEF Trouve
    <3> QED
      BY <2>2, <3>1
  <2>3. CASE ~(from >= to)
    <3>1. from < to
      BY <2>1, <2>3
    <3>2. /\ m \in from .. to - 1
          /\ Trouve(files, name, from, to) <=>
                  \/ files[m + 1] = name
                  \/ files[m + 1] < name /\ Trouve(files, name, m + 1, to)
                  \/ files[m + 1] > name /\ Trouve(files, name, from, m - 1)
      <4> HIDE DEF from, to
      <4> QED
        BY <2>1, <3>1, Moitie
    <3>3. <<m + 1, to>> \in S /\ <<from, m - 1>> \in S
      <4>1. m \in from .. to - 1
        BY <3>2
      <4> HIDE DEF from, to, m, corps, d
      <4>2. m + 1 \in 0 .. Len(files) /\ m - 1 \in -1 .. Len(files) - 1
        BY <2>1, <4>1
      <4> QED
        BY <2>1, <4>2
    <3>4. /\ d[<<m + 1, to>>] <=> Trouve(files, name, m + 1, to)
          /\ d[<<from, m - 1>>] <=> Trouve(files, name, from, m - 1)
      <4> HIDE DEF from, to, m, S
      <4> QED
        BY <3>3
    <3> HIDE DEF d
    <3> QED
      BY <2>3, <3>2, <3>4
  <2> QED
    BY <2>2, <2>3
<1>2. d = [e \in S |-> corps(e)]
  <2>1. \A e \in S : corps(e) \in BOOLEAN
    OBVIOUS
  <2>2. \A e \in S : Trouve(files, name, e[1], e[2]) \in BOOLEAN
    BY DEF Trouve
  <2> HIDE DEF corps, S
  <2>3. \A e \in S : Trouve(files, name, e[1], e[2]) = corps(e)
    BY <1>1, <2>1, <2>2
  <2> QED
    BY <2>3, Zenon
<1> QED
  BY <1>2 DEF Recherche

LEMMA Dichotomie ==
  ASSUME NEW files \in Seq(Nat), Triee(files), NEW name \in Nat
  PROVE  is_debugged(files, name) <=> name \in Range(files)
<1> DEFINE L == Len(files)
           S == (0 .. L) \X (-1 .. L - 1)
           d == CHOOSE c : Recherche(c, files, name)
<1>1. Recherche(d, files, name)
  BY UneRecherche
<1>2. L \in Nat /\ DOMAIN files = 1 .. L
  BY LenProperties
<1> HIDE DEF d
<1>3. ASSUME NEW e \in S
      PROVE  d[e] <=> LET from == e[1]  to == e[2]  middle == (from + to) \div 2
                      IN  IF from >= to
                          THEN from = to /\ files[from + 1] = name
                          ELSE \/ files[middle + 1] = name
                               \/ files[middle + 1] < name /\ d[<<middle + 1, to>>]
                               \/ files[middle + 1] > name /\ d[<<from, middle - 1>>]
  BY <1>1, Zenon DEF Recherche
<1> HIDE DEF L
<1> DEFINE Juste(e) == d[e] <=> Trouve(files, name, e[1], e[2])
           Bons == {k \in 0 .. L : \A e \in S : e[2] - e[1] < k => Juste(e)}
<1>4. ASSUME NEW e \in S, e[1] >= e[2]
      PROVE  Juste(e)
  <2>1. e[1] \in 0 .. L /\ e[2] \in -1 .. L - 1
    OBVIOUS
  <2>2. d[e] <=> e[1] = e[2] /\ files[e[1] + 1] = name
    BY <1>3, <1>4
  <2> QED
    BY <1>4, <2>1, <2>2 DEF Trouve
<1>5. 0 \in Bons
  BY <1>2, <1>4
<1>6. ASSUME NEW k \in 1 .. L, k - 1 \in Bons
      PROVE  k \in Bons
  <2> SUFFICES ASSUME NEW e \in S, e[2] - e[1] < k, e[1] < e[2] PROVE Juste(e)
    <3>1. \A e \in S : e[1] \in Int /\ e[2] \in Int
      BY <1>2
    <3> QED
      BY <1>4, <3>1
  <2> DEFINE from == e[1]
             to == e[2]
             m == (from + to) \div 2
             e1 == <<m + 1, to>>
             e2 == <<from, m - 1>>
  <2>1. from \in 0 .. L /\ to \in -1 .. L - 1 /\ from < to
    OBVIOUS
  <2>2. /\ d[e] <=> \/ files[m + 1] = name
                    \/ files[m + 1] < name /\ d[e1]
                    \/ files[m + 1] > name /\ d[e2]
    <3>1. ~(from >= to)
      BY <1>2, <2>1
    <3> QED
      BY <1>3, <3>1
  <2>3. /\ m \in from .. to - 1
        /\ Trouve(files, name, from, to) <=>
             \/ files[m + 1] = name
             \/ files[m + 1] < name /\ Trouve(files, name, m + 1, to)
             \/ files[m + 1] > name /\ Trouve(files, name, from, m - 1)
    <3> HIDE DEF from, to
    <3> QED
      BY <2>1, Moitie DEF L
  <2>4. e1 \in S /\ e2 \in S /\ e1[2] - e1[1] < k - 1 /\ e2[2] - e2[1] < k - 1
    <3>1. to - from < k
      OBVIOUS
    <3> HIDE DEF from, to, m
    <3>2. /\ m + 1 \in 0 .. L /\ m - 1 \in -1 .. L - 1 /\ to - (m + 1) < k - 1 /\ m - 1 - from < k - 1
      BY <1>2, <2>1, <2>3, <3>1
    <3> QED
      BY <2>1, <3>2
  <2>5. Juste(e1) /\ Juste(e2)
    <3> HIDE DEF e1, e2, Juste
    <3> QED
      BY <1>6, <2>4
  <2>6. /\ d[e1] <=> Trouve(files, name, m + 1, to)
        /\ d[e2] <=> Trouve(files, name, from, m - 1)
    <3> HIDE DEF from, to, m
    <3> QED
      BY <2>5
  <2> HIDE DEF e1, e2, m
  <2> QED
    BY <2>2, <2>3, <2>6
<1>7. Bons = 0 .. L
  <2> HIDE DEF Bons
  <2>1. Bons \in SUBSET (0 .. L)
    BY DEF Bons
  <2> QED
    BY <1>2, <1>5, <1>6, <2>1, PremierEchec
<1> DEFINE e0 == <<0, L - 1>>
<1>8. e0 \in S /\ e0[2] - e0[1] < L /\ L \in Bons
  BY <1>2, <1>7
<1>9. Juste(e0)
  <2> HIDE DEF Juste, e0
  <2> QED
    BY <1>8
<1>10. d[e0] <=> \E k \in 0 .. L - 1 : files[k + 1] = name
  BY <1>9 DEF Trouve
<1>11. (\E k \in 0 .. L - 1 : files[k + 1] = name) <=> name \in Range(files)
  <2>1. ASSUME NEW k \in 0 .. L - 1
        PROVE  k + 1 \in DOMAIN files
    BY <1>2
  <2>2. ASSUME NEW k \in DOMAIN files
        PROVE  k - 1 \in 0 .. L - 1 /\ (k - 1) + 1 = k
    BY <1>2
  <2>3. ASSUME NEW k \in DOMAIN files, name = files[k]
        PROVE  \E q \in 0 .. L - 1 : files[q + 1] = name
    BY <2>2, <2>3
  <2> QED
    BY <2>1, <2>3 DEF Range
<1> QED
  BY <1>10, <1>11, ParRecherche DEF d, L

\* A name more, in order, or a table full of smaller names.
LEMMA NomEnOrdre ==
  ASSUME NEW files \in Seq(Nat), NEW name \in Nat
  PROVE  /\ Len(add_debug_to(files, name)) \in Nat /\ Len(files) <= Len(add_debug_to(files, name))
         /\ Len(files) <= MAX_FILES_NUMBER /\ Triee(files) =>
              \/ /\ add_debug_to(files, name) = files /\ Len(files) = MAX_FILES_NUMBER
                 /\ \A f \in Range(files) : f < name
              \/ /\ Len(add_debug_to(files, name)) = Len(files) + 1
                 /\ Triee(add_debug_to(files, name))
                 /\ Range(add_debug_to(files, name)) = Range(files) \cup {name}
<1> DEFINE L == Len(files)
           p == Place(files, name)
           t == InsertAt(files, p + 1, name)
<1>1. L \in Nat /\ DOMAIN files = 1 .. L /\ \A k \in 1 .. L : files[k] \in Nat
  BY LenProperties, ElementOfSeq
<1>2. /\ p \in 0 .. L /\ \A k \in 0 .. p - 1 : files[k + 1] < name /\ k < MAX_FILES_NUMBER
      /\ p = L \/ p >= MAX_FILES_NUMBER \/ files[p + 1] >= name
  BY PlaceTrouvee
<1>3. \A k \in 1 .. p : files[k] < name
  <2> SUFFICES ASSUME NEW k \in 1 .. p PROVE files[k] < name
    OBVIOUS
  <2>1. k - 1 \in 0 .. p - 1 /\ (k - 1) + 1 = k
    BY <1>1, <1>2
  <2> QED
    BY <1>2, <2>1
<1>4. /\ t \in Seq(Nat) /\ Len(t) = L + 1
      /\ \A k \in 1 .. L + 1 : t[k] = IF k <= p THEN files[k] ELSE IF k = p + 1 THEN name ELSE files[k - 1]
  <2> HIDE DEF p
  <2>1. p \in 0 .. Len(files)
    BY <1>2
  <2>2. /\ InsertAt(files, p + 1, name) \in Seq(Nat)
        /\ Len(InsertAt(files, p + 1, name)) = Len(files) + 1
        /\ \A k \in 1 .. Len(files) + 1 :
             InsertAt(files, p + 1, name)[k]
               = IF k <= p THEN files[k] ELSE IF k = p + 1 THEN name ELSE files[k - 1]
    <3> HIDE DEF t, L
    <3> DEFINE r == InsertAt(files, p + 1, name)
               Bonne(S) == /\ r \in Seq(S) /\ Len(r) = Len(files) + 1
                           /\ \A k \in 1 .. Len(files) + 1 :
                                r[k] = IF k <= p THEN files[k] ELSE IF k = p + 1 THEN name ELSE files[k - 1]
    <3>1. ASSUME NEW S, files \in Seq(S), name \in S
          PROVE  Bonne(S)
      BY <2>1, <3>1, Insere
    <3> HIDE DEF Bonne
    <3>2. Bonne(Nat)
      BY <3>1
    <3> QED
      BY <3>2 DEF Bonne
  <2> QED
    BY <2>2, Zenon
<1>5. add_debug_to(files, name) = IF p >= MAX_FILES_NUMBER THEN files ELSE t
  BY DEF add_debug_to
<1>6. DOMAIN t = 1 .. L + 1
  BY <1>4, LenProperties
<1> HIDE DEF p, t, L
<1>7. CASE p >= MAX_FILES_NUMBER
  <2>1. L <= MAX_FILES_NUMBER => p = L /\ L = MAX_FILES_NUMBER
    BY <1>1, <1>2, <1>7, DebugAssumption
  <2>2. p = L => \A f \in Range(files) : f < name
    BY <1>1, <1>3 DEF Range
  <2> DEFINE r == add_debug_to(files, name)
  <2>3. r = files
    BY <1>5, <1>7
  <2> HIDE DEF r
  <2>4. Len(r) = L
    BY <2>3 DEF L
  <2>5. /\ Len(r) \in Nat /\ L <= Len(r)
        /\ L <= MAX_FILES_NUMBER =>
             r = files /\ L = MAX_FILES_NUMBER /\ \A f \in Range(files) : f < name
    BY <1>1, <2>1, <2>2, <2>3, <2>4
  <2> QED
    BY <2>5, Zenon DEF r, L
<1>8. CASE ~(p >= MAX_FILES_NUMBER)
  <2>1. add_debug_to(files, name) = t
    BY <1>5, <1>8
  <2>2. ASSUME Triee(files) PROVE Triee(t)
    <3>1. \A a, b \in 1 .. L : a <= b => files[a] <= files[b]
      BY <2>2 DEF Triee, L
    <3>2. \A k \in p + 1 .. L : files[k] >= name
      <4> SUFFICES ASSUME NEW k \in p + 1 .. L PROVE files[k] >= name
        OBVIOUS
      <4>1. p + 1 \in 1 .. L /\ k \in 1 .. L /\ p + 1 <= k /\ p # L
        BY <1>1, <1>2
      <4>2. files[p + 1] <= files[k] /\ files[p + 1] \in Nat /\ files[k] \in Nat
        BY <1>1, <3>1, <4>1
      <4>3. files[p + 1] >= name
        BY <1>2, <1>8, <4>1
      <4> QED
        BY <4>2, <4>3
    <3>3. ASSUME NEW a \in 1 .. L + 1, NEW b \in 1 .. L + 1, a <= b
          PROVE  t[a] <= t[b]
      <4>1. /\ t[a] = IF a <= p THEN files[a] ELSE IF a = p + 1 THEN name ELSE files[a - 1]
            /\ t[b] = IF b <= p THEN files[b] ELSE IF b = p + 1 THEN name ELSE files[b - 1]
        BY <1>4
      <4>2. p \in Nat /\ p <= L
        BY <1>1, <1>2
      <4>3. CASE b <= p
        BY <1>1, <3>1, <3>3, <4>1, <4>2, <4>3
      <4>4. CASE b = p + 1
        <5>1. CASE a = p + 1
          BY <4>1, <4>2, <4>4, <5>1
        <5>2. CASE a <= p
          <6>1. files[a] < name /\ files[a] \in Nat
            BY <1>1, <1>3, <4>2, <5>2
          <6> QED
            BY <4>1, <4>2, <4>4, <5>2, <6>1
        <5> QED
          BY <3>3, <4>2, <4>4, <5>1, <5>2
      <4>5. CASE b > p + 1
        <5>1. b - 1 \in p + 1 .. L /\ b - 1 \in 1 .. L /\ t[b] = files[b - 1]
          BY <1>1, <4>1, <4>2, <4>5
        <5>2. files[b - 1] >= name /\ files[b - 1] \in Nat
          BY <1>1, <3>2, <5>1
        <5>3. CASE a <= p
          <6>1. files[a] < name /\ files[a] \in Nat
            BY <1>1, <1>3, <4>2, <5>3
          <6> QED
            BY <4>1, <5>1, <5>2, <5>3, <6>1
        <5>4. CASE a = p + 1
          BY <4>1, <4>2, <5>1, <5>2, <5>4
        <5>5. CASE a > p + 1
          <6>1. a - 1 \in 1 .. L /\ a - 1 <= b - 1 /\ t[a] = files[a - 1]
            BY <1>1, <3>3, <4>1, <4>2, <5>5
          <6> QED
            BY <3>1, <5>1, <6>1
        <5> QED
          BY <4>2, <5>3, <5>4, <5>5
      <4> QED
        BY <4>2, <4>3, <4>4, <4>5
    <3> QED
      BY <1>4, <3>3 DEF Triee
  <2>3. Range(t) = Range(files) \cup {name}
    <3>1. ASSUME NEW k \in 1 .. L + 1
          PROVE  t[k] = name \/ \E q \in 1 .. L : t[k] = files[q]
      <4>1. k <= p => k \in 1 .. L
        BY <1>1, <1>2
      <4>2. k > p + 1 => k - 1 \in 1 .. L
        BY <1>1, <1>2
      <4>3. k <= p \/ k = p + 1 \/ k > p + 1
        BY <1>1, <1>2
      <4> QED
        BY <1>1, <1>2, <1>4, <4>1, <4>2, <4>3
    <3>2. p + 1 \in 1 .. L + 1 /\ t[p + 1] = name
      BY <1>1, <1>2, <1>4
    <3>3. ASSUME NEW q \in 1 .. L
          PROVE  \E k \in 1 .. L + 1 : t[k] = files[q]
      <4>1. CASE q <= p
        BY <1>1, <1>2, <1>4, <4>1
      <4>2. CASE ~(q <= p)
        <5>1. q + 1 \in 1 .. L + 1 /\ ~(q + 1 <= p) /\ q + 1 # p + 1 /\ (q + 1) - 1 = q
          BY <1>1, <1>2, <4>2
        <5> QED
          BY <1>4, <5>1
      <4> QED
        BY <4>1, <4>2
    <3>4. ASSUME NEW y \in Range(t)
          PROVE  y \in Range(files) \cup {name}
      BY <1>1, <1>6, <3>1 DEF Range
    <3>5. name \in Range(t)
      BY <1>6, <3>2 DEF Range
    <3>6. ASSUME NEW y \in Range(files)
          PROVE  y \in Range(t)
      BY <1>1, <1>6, <3>3 DEF Range
    <3> QED
      BY <3>4, <3>5, <3>6
  <2> QED
    BY <1>1, <1>4, <2>1, <2>2, <2>3 DEF L
<1> QED
  BY <1>7, <1>8

\* While the table is not overrun it is in order and holds the names given,
\* but for those that came after all of a full table.
TableJuste ==
  Len(debugged_files) <= MAX_FILES_NUMBER =>
    /\ Triee(debugged_files)
    /\ \A f \in Range(debugged_files) : \E nom \in debogues : Rang[nom] = f
    /\ \A nom \in debogues :
         \/ Rang[nom] \in Range(debugged_files)
         \/ /\ Len(debugged_files) = MAX_FILES_NUMBER
            /\ \A f \in Range(debugged_files) : f < Rang[nom]

LEMMA TableGardee ==
  ASSUME [Next]_vars
  PROVE  OptionDebug \/ UNCHANGED <<debugged_files, debogues>>
BY DEF vars, Next, Demarrer, MotIgnore, FinOptions, OptionSortie, OptionHote,
   OptionDebugFatale, FichierAbsent, main_load_header, main_read_section_table, main_section,
   main_sectionFatale, SansVal, TronqueFatale, main_table_symbole, main_relocation_table,
   ChargerReimplantation, FinReimplantations, ChargerSymbole, SectionSuivante,
   print_tablesymbol, SansStrtab, print_relocation_table, Titre, ImprimerReimplantation,
   NomHorsTable, TableSuivante, FinImpression, FinSymboles, Imprimer, EnCours

\* A table that was never overrun finds the files given to --debug and no
\* other, by the binary search (debug.c:32-65).
THEOREM FichiersDebogues == Spec => []TableDebug
<1>1. Init => TableJuste
  BY DEF Init, InitLecture, TableJuste, Triee, Range
<1>2. ASSUME IInv, TableJuste, [Next]_vars
      PROVE  TableJuste'
  <2>1. debugged_files \in Seq(Nat) /\ Len(debugged_files) \in Nat /\ debogues \subseteq DOMAIN Rang
    <3>1. Range(Rang) \subseteq Nat
      BY LectureAssumption DEF Range
    <3>2. debugged_files \in Seq(Range(Rang)) /\ debogues \subseteq DOMAIN Rang
      BY <1>2 DEF IInv, TypeOK
    <3> QED
      BY <3>1, <3>2, SeqMonotonic, LenProperties
  <2>2. CASE UNCHANGED <<debugged_files, debogues>>
    BY <1>2, <2>2 DEF TableJuste
  <2>3. CASE OptionDebug
    <3> DEFINE nouveau == argv[optind + 1]
               x == Rang[nouveau]
               t == add_debug_to(debugged_files, x)
    <3>1. /\ "-d" \in AvecArgument /\ Option("-d") /\ debugged_files' = t
          /\ debogues' = debogues \cup {nouveau}
      BY <2>3 DEF OptionDebug, AvecArgument
    <3>2. nouveau \in DOMAIN Rang
      <4>1. optind + 1 \in 1 .. Len(argv)
        <5>1. optind < Len(argv)
          BY <1>2, <3>1, OptionLue
        <5> QED
          BY <1>2, <5>1, Entrees
      <4> QED
        BY <1>2, <4>1, Entrees
    <3>3. x \in Nat
      BY <3>2, LectureAssumption
    <3> HIDE DEF x
    <3>4. /\ Len(t) \in Nat /\ Len(debugged_files) <= Len(t)
          /\ Len(debugged_files) <= MAX_FILES_NUMBER /\ Triee(debugged_files) =>
               \/ /\ t = debugged_files /\ Len(debugged_files) = MAX_FILES_NUMBER
                  /\ \A f \in Range(debugged_files) : f < x
               \/ /\ Len(t) = Len(debugged_files) + 1 /\ Triee(t)
                  /\ Range(t) = Range(debugged_files) \cup {x}
      BY <2>1, <3>3, NomEnOrdre
    <3> HIDE DEF t, nouveau
    <3> SUFFICES ASSUME Len(t) <= MAX_FILES_NUMBER PROVE TableJuste'
      BY <3>1 DEF TableJuste
    <3>5. Len(debugged_files) <= MAX_FILES_NUMBER
      BY <2>1, <3>4, DebugAssumption
    <3>6. /\ Triee(debugged_files)
          /\ \A f \in Range(debugged_files) : \E nom \in debogues : Rang[nom] = f
          /\ \A nom \in debogues :
               \/ Rang[nom] \in Range(debugged_files)
               \/ /\ Len(debugged_files) = MAX_FILES_NUMBER
                  /\ \A f \in Range(debugged_files) : f < Rang[nom]
      BY <1>2, <3>5 DEF TableJuste
    <3>7. Rang[nouveau] = x
      BY DEF x
    <3>8. CASE /\ t = debugged_files /\ Len(debugged_files) = MAX_FILES_NUMBER
               /\ \A f \in Range(debugged_files) : f < x
      BY <3>1, <3>6, <3>7, <3>8 DEF TableJuste, Triee
    <3>9. CASE /\ Len(t) = Len(debugged_files) + 1 /\ Triee(t)
               /\ Range(t) = Range(debugged_files) \cup {x}
      <4>1. Len(debugged_files) # MAX_FILES_NUMBER
        BY <2>1, <3>9, DebugAssumption
      <4>2. \A f \in Range(t) : \E nom \in debogues \cup {nouveau} : Rang[nom] = f
        BY <3>6, <3>7, <3>9
      <4>3. \A nom \in debogues \cup {nouveau} : Rang[nom] \in Range(t)
        BY <3>6, <3>7, <3>9, <4>1
      <4> QED
        BY <3>1, <3>9, <4>2, <4>3 DEF TableJuste, Triee
    <3> QED
      BY <3>4, <3>5, <3>6, <3>8, <3>9
  <2> QED
    BY <1>2, <2>2, <2>3, TableGardee
<1>3. ASSUME IInv, TableJuste
      PROVE  TableDebug
  <2> SUFFICES ASSUME Len(debugged_files) <= MAX_FILES_NUMBER, NEW nom \in DOMAIN Rang
               PROVE  nom \in debogues <=>
                        \/ is_debugged(debugged_files, Rang[nom])
                        \/ /\ nom \in debogues /\ Len(debugged_files) = MAX_FILES_NUMBER
                           /\ \A f \in Range(debugged_files) : f < Rang[nom]
    BY DEF TableDebug
  <2>1. debugged_files \in Seq(Nat) /\ Rang[nom] \in Nat
    <3>1. Range(Rang) \subseteq Nat /\ Rang[nom] \in Nat
      BY LectureAssumption DEF Range
    <3>2. debugged_files \in Seq(Range(Rang))
      BY <1>3 DEF IInv, TypeOK
    <3> QED
      BY <3>1, <3>2, SeqMonotonic
  <2>2. is_debugged(debugged_files, Rang[nom]) <=> Rang[nom] \in Range(debugged_files)
    <3>1. Triee(debugged_files)
      BY <1>3 DEF TableJuste
    <3> QED
      BY <2>1, <3>1, Dichotomie
  <2>3. Rang[nom] \in Range(debugged_files) => nom \in debogues
    <3>1. debogues \subseteq DOMAIN Rang
      BY <1>3 DEF IInv, TypeOK
    <3> QED
      BY <1>3, <3>1, LectureAssumption DEF TableJuste
  <2> QED
    BY <1>3, <2>2, <2>3 DEF TableJuste
<1> QED
  BY <1>1, <1>2, <1>3, Invariant, PTL DEF Spec

-----------------------------------------------------------------------------
(***************************************************************************)
(* The relocations read, and all that -D and -E print.                     *)
(***************************************************************************)

\* The relocations a section gives, and those printed of a table.
DesRel == [x \in Section |-> IF DuType(x, SHT_REL) THEN x.contenu ELSE <<>>]
AImprimer == [t \in UneTable |-> SubSeq(t.tab, 1, t.size)]
ARendre(tab) == Enfilees(AImprimer, tab)

\* What a line gives, if it is one of those the option o printed.
Gardees(o, quoi) ==
  [l \in Lignes |-> IF l.opt = o /\ l.quoi = quoi THEN <<l.v>> ELSE <<>>]

LEMMA DesRelType ==
  Donne(DesRel, Section, Rels)
<1>1. \A x \in Section : (IF DuType(x, SHT_REL) THEN x.contenu ELSE <<>>) \in Seq(Rels)
  BY DEF Section
<1> QED
  BY <1>1 DEF DesRel, Donne

LEMMA AImprimerType ==
  Donne(AImprimer, UneTable, Rels)
<1>1. ASSUME NEW t \in UneTable
      PROVE  SubSeq(t.tab, 1, t.size) \in Seq(Rels)
  <2>1. t.tab \in Seq(Rels) /\ t.size \in Nat /\ t.size <= Len(t.tab) /\ Len(t.tab) \in Nat
    BY LenProperties DEF UneTable
  <2>2. t.size \in 0 .. Len(t.tab)
    BY <2>1
  <2> QED
    BY <2>1, <2>2, Prefixe
<1> QED
  BY <1>1 DEF AImprimer, Donne

LEMMA GardeesType ==
  ASSUME NEW o, NEW q
  PROVE  Donne(Gardees(o, q), Lignes, Valeurs[q])
<1> DEFINE E == Valeurs[q]
<1>1. ASSUME NEW l \in Lignes
      PROVE  (IF l.opt = o /\ l.quoi = q THEN <<l.v>> ELSE <<>>) \in Seq(E)
  <2> DEFINE x == l.v
             g == IF l.opt = o /\ l.quoi = q THEN <<x>> ELSE <<>>
  <2>1. CASE l.opt = o /\ l.quoi = q
    <3>1. l \in UneLigne(q)
      BY <2>1, LignesTypees
    <3>2. x \in E
      BY <3>1 DEF UneLigne
    <3>3. g = <<x>>
      BY <2>1
    <3> HIDE DEF x, g, E
    <3>4. <<x>> \in Seq(E)
      BY <3>2
    <3> QED
      BY <3>3, <3>4 DEF g, x
  <2>2. CASE ~(l.opt = o /\ l.quoi = q)
    <3>1. g = <<>>
      BY <2>2
    <3> HIDE DEF x, g, E
    <3>2. <<>> \in Seq(E)
      OBVIOUS
    <3> QED
      BY <3>1, <3>2 DEF g, x
  <2> QED
    BY <2>1, <2>2
<1> QED
  BY <1>1 DEF Gardees, E, Donne

LEMMA RelEnfilees ==
  ASSUME NEW s \in Seq(Section)
  PROVE  DeType(s, SHT_REL) = Enfilees(DesRel, s)
<1>1. \A v \in DOMAIN s : s[v] \in Section
  BY ElementOfSeq
<1>2. \A v \in DOMAIN s : DesRel[s[v]] = IF DuType(s[v], SHT_REL) THEN s[v].contenu ELSE <<>>
  BY <1>1 DEF DesRel
<1> QED
  BY <1>2 DEF DeType, Enfilees

LEMMA ImprimeesEnfilees ==
  ASSUME NEW s \in Seq(Lignes), NEW q
  PROVE  Imprimees(s, q) = Enfilees(Gardees(optind, q), s)
<1>1. \A v \in DOMAIN s : s[v] \in Lignes
  BY ElementOfSeq
<1>2. \A v \in DOMAIN s : Gardees(optind, q)[s[v]]
        = IF s[v].opt = optind /\ s[v].quoi = q THEN <<s[v].v>> ELSE <<>>
  BY <1>1 DEF Gardees
<1> QED
  BY <1>2 DEF Imprimees, Enfilees

\* A line more is printed.
LEMMA ImprimeesPlus ==
  ASSUME NEW s \in Seq(Lignes), NEW l \in Lignes, NEW q
  PROVE  /\ Imprimees(s, q) \in Seq(Valeurs[q])
         /\ l.opt = optind /\ l.quoi = q => Imprimees(Append(s, l), q) = Append(Imprimees(s, q), l.v)
         /\ l.quoi # q => Imprimees(Append(s, l), q) = Imprimees(s, q)
<1> DEFINE F == Gardees(optind, q)
           E == Valeurs[q]
           a == Imprimees(s, q)
<1>1. Donne(F, Lignes, E)
  BY GardeesType
<1>2. Append(s, l) \in Seq(Lignes)
  OBVIOUS
<1>3. a = Enfilees(F, s) /\ Imprimees(Append(s, l), q) = Enfilees(F, Append(s, l))
  BY <1>2, ImprimeesEnfilees
<1>4. F[l] = IF l.opt = optind /\ l.quoi = q THEN <<l.v>> ELSE <<>>
  BY DEF Gardees
<1>8. F[l] \in Seq(E)
  BY <1>1 DEF Donne
<1> HIDE DEF F, E, a
<1>5. a \in Seq(E) /\ Imprimees(Append(s, l), q) = a \o F[l]
  <2>1. Enfilees(F, s) \in Seq(E) /\ Enfilees(F, Append(s, l)) = Enfilees(F, s) \o F[l]
    BY <1>1, EnfileesPlus
  <2> QED
    BY <1>3, <2>1
<1>6. ASSUME l.opt = optind, l.quoi = q
      PROVE  Imprimees(Append(s, l), q) = Append(a, l.v)
  <2> DEFINE x == l.v
  <2>1. F[l] = <<x>>
    BY <1>4, <1>6
  <2>2. <<x>> \in Seq(E)
    BY <1>8, <2>1
  <2> HIDE DEF x
  <2>3. x \in E
    BY <2>2
  <2>4. a \o <<x>> = Append(a, x)
    BY <1>5, <2>3
  <2> QED
    BY <1>5, <2>1, <2>4 DEF x
<1>7. ASSUME l.quoi # q
      PROVE  Imprimees(Append(s, l), q) = a
  <2>1. F[l] = <<>>
    BY <1>4, <1>7
  <2> QED
    BY <1>5, <2>1, ConcatEmptySeq
<1> QED
  BY <1>5, <1>6, <1>7 DEF a, E

\* Nothing was printed yet for the option at hand.
LEMMA RienEncore ==
  ASSUME NEW s \in Seq(Lignes), optind \in Nat, \A k \in DOMAIN s : s[k].opt < optind, NEW q
  PROVE  Imprimees(s, q) = <<>>
<1> DEFINE F == Gardees(optind, q)
           E == Valeurs[q]
<1>1. Donne(F, Lignes, E)
  BY GardeesType
<1>2. Imprimees(s, q) = Enfilees(F, s)
  BY ImprimeesEnfilees
<1>3. \A k \in DOMAIN s : F[s[k]] = <<>>
  <2> SUFFICES ASSUME NEW k \in DOMAIN s PROVE F[s[k]] = <<>>
    OBVIOUS
  <2>1. s[k] \in Lignes
    BY ElementOfSeq
  <2>2. s[k].opt \in Nat
    BY <2>1, LignesTypees
  <2>3. s[k].opt # optind
    BY <2>2
  <2> QED
    BY <2>1, <2>3 DEF Gardees
<1> HIDE DEF F, E
<1>4. Enfilees(F, s) = <<>>
  BY <1>1, <1>3, EnfileesSans
<1> QED
  BY <1>2, <1>4

\* The lines that -D prints all at once.
LEMMA SuiteImprimee ==
  ASSUME NEW s \in Seq(Lignes), NEW r \in Seq(Lignes), NEW q, Imprimees(s, q) = <<>>,
         \A k \in DOMAIN r : r[k].opt = optind /\ r[k].quoi = q
  PROVE  Imprimees(s \o r, q) = [k \in DOMAIN r |-> r[k].v]
<1> DEFINE F == Gardees(optind, q)
           E == Valeurs[q]
           w == [k \in DOMAIN r |-> r[k].v]
<1>1. Donne(F, Lignes, E)
  BY GardeesType
<1>2. s \o r \in Seq(Lignes) /\ Len(r) \in Nat /\ DOMAIN r = 1 .. Len(r)
  BY LenProperties, ConcatProperties
<1>3. Imprimees(s, q) = Enfilees(F, s) /\ Imprimees(s \o r, q) = Enfilees(F, s \o r)
  BY <1>2, ImprimeesEnfilees
<1>4. \A k \in DOMAIN r : r[k].v \in E /\ F[r[k]] = <<r[k].v>>
  <2> SUFFICES ASSUME NEW k \in DOMAIN r PROVE r[k].v \in E /\ F[r[k]] = <<r[k].v>>
    OBVIOUS
  <2>1. r[k] \in Lignes
    BY ElementOfSeq
  <2>2. r[k] \in UneLigne(q)
    BY <2>1, LignesTypees
  <2>3. r[k].v \in Valeurs[q]
    BY <2>2 DEF UneLigne
  <2> QED
    BY <2>1, <2>3 DEF Gardees
<1>5. w \in [1 .. Len(r) -> E] /\ \A k \in DOMAIN r : F[r[k]] = <<w[k]>>
  BY <1>2, <1>4
<1>6. w \in Seq(E) /\ Len(w) = Len(r)
  <2> HIDE DEF w, E
  <2> QED
    BY <1>2, <1>5
<1> HIDE DEF F, E, w
<1>7. Enfilees(F, s \o r) = Enfilees(F, s) \o w
  <2>1. UnParUn(F, r, w)
    BY <1>5, <1>6 DEF UnParUn
  <2> QED
    BY <1>1, <1>6, <2>1, EnfileesUnParUn
<1>8. <<>> \o w = w
  BY <1>6, ConcatEmptySeq
<1> QED
  BY <1>3, <1>7, <1>8 DEF w

\* Before the option at hand prints.
Avant == {"debut", "options", "symboles", "reimplantations"}

\* What the loops on the tables have printed when they
\* are at relocation q of table p.
Rendues(tab, p, q) ==
  ARendre(SubSeq(tab, 1, p - 1))
    \o IF p <= Len(tab) /\ q > 0 THEN SubSeq(tab[p].tab, 1, q - 1) ELSE <<>>

\* Nothing of the option at hand is printed before it prints.
RienDit == pc \in Avant => \A k \in DOMAIN sortie : sortie[k].opt < optind

EntreesChargees ==
  /\ pc = "reimplantations" =>
       ARendre(relocationtable.tab) = DeType(SubSeq(sections, 1, i - 1), SHT_REL)
  /\ Entier /\ (pc = "impression" \/ (pc = "symboles" /\ argv[optind] = "-E")) =>
       ARendre(relocationtable.tab) = DeType(fichier.sect, SHT_REL)

EntreesImprimees ==
  pc = "impression" =>
    SansValeur(Imprimees(sortie, "rel")) = SensRel(Rendues(relocationtable.tab, i, j))

LEMMA ARendrePlus ==
  ASSUME NEW tab \in Seq(UneTable), NEW t \in UneTable
  PROVE  /\ ARendre(tab) \in Seq(Rels)
         /\ ARendre(Append(tab, t)) = ARendre(tab) \o AImprimer[t]
<1>1. Donne(AImprimer, UneTable, Rels)
  BY AImprimerType
<1> QED
  BY <1>1, EnfileesPlus DEF ARendre

LEMMA ARendreRien ==
  ARendre(<<>>) = <<>> /\ DeType(<<>>, SHT_REL) = <<>>
<1>1. DeType(<<>>, SHT_REL) = Enfilees(DesRel, <<>>)
  <2> DEFINE e == <<>>
  <2>1. e \in Seq(Section)
    OBVIOUS
  <2> HIDE DEF e
  <2>2. DeType(e, SHT_REL) = Enfilees(DesRel, e)
    BY <2>1, RelEnfilees
  <2> QED
    BY <2>2 DEF e
<1> QED
  BY <1>1, EnfileesVide DEF ARendre

\* What is printed of a table is what its section gives.
LEMMA TableRendue ==
  ASSUME NEW s \in Section
  PROVE  /\ DuType(s, SHT_REL) \/ DuType(s, SHT_RELA) => AImprimer[Table(s)] = DesRel[s]
         /\ ~(DuType(s, SHT_REL) \/ DuType(s, SHT_RELA)) => DesRel[s] = <<>>
<1>1. ASSUME DuType(s, SHT_REL) \/ DuType(s, SHT_RELA)
      PROVE  AImprimer[Table(s)] = DesRel[s]
  <2> DEFINE t == Table(s)
             c == s.contenu
  <2>1. /\ t \in UneTable /\ t.tab = c
        /\ t.size = IF DuType(s, SHT_REL) THEN Len(c) ELSE 0
    BY <1>1, TableTypee
  <2>2. c \in Seq(Rels)
    BY <1>1 DEF Section
  <2>3. AImprimer[t] = SubSeq(t.tab, 1, t.size)
    BY <2>1 DEF AImprimer
  <2>4. DesRel[s] = IF DuType(s, SHT_REL) THEN c ELSE <<>>
    BY DEF DesRel
  <2> HIDE DEF t, c
  <2>5. SubSeq(c, 1, Len(c)) = c /\ SubSeq(c, 1, 0) = <<>>
    BY <2>2, Prefixe
  <2>6. CASE DuType(s, SHT_REL)
    BY <2>1, <2>3, <2>4, <2>5, <2>6 DEF t
  <2>7. CASE ~DuType(s, SHT_REL)
    BY <2>1, <2>3, <2>4, <2>5, <2>7 DEF t
  <2> QED
    BY <2>6, <2>7
<1>2. ASSUME ~(DuType(s, SHT_REL) \/ DuType(s, SHT_RELA))
      PROVE  DesRel[s] = <<>>
  BY <1>2 DEF DesRel
<1> QED
  BY <1>1, <1>2

\* The relocations of one section more.
LEMMA RelDePlus ==
  ASSUME NEW s \in Seq(Section), NEW p \in 1 .. Len(s)
  PROVE  /\ DeType(SubSeq(s, 1, p - 1), SHT_REL) \in Seq(Rels)
         /\ DeType(SubSeq(s, 1, p), SHT_REL)
              = DeType(SubSeq(s, 1, p - 1), SHT_REL) \o DesRel[s[p]]
<1> DEFINE r == SubSeq(s, 1, p - 1)
           t == SubSeq(s, 1, p)
           x == s[p]
<1>1. r \in Seq(Section) /\ t \in Seq(Section) /\ t = Append(r, x) /\ x \in Section
  <2>1. p - 1 \in 0 .. Len(s) /\ p \in 0 .. Len(s)
    BY LenProperties
  <2> QED
    BY <2>1, Prefixe, ElementOfSeq
<1> HIDE DEF r, t, x
<1>2. DeType(r, SHT_REL) = Enfilees(DesRel, r) /\ DeType(t, SHT_REL) = Enfilees(DesRel, t)
  BY <1>1, RelEnfilees
<1>3. Enfilees(DesRel, r) \in Seq(Rels) /\ Enfilees(DesRel, Append(r, x)) = Enfilees(DesRel, r) \o DesRel[x]
  BY <1>1, DesRelType, EnfileesPlus
<1> QED
  BY <1>1, <1>2, <1>3 DEF r, t, x

\* The steps of the option at hand.
LEMMA PasAvant ==
  ASSUME [Next]_vars
  PROVE  pc' \in Avant =>
           \/ pc \in Avant /\ UNCHANGED <<optind, sortie>>
           \/ optind' = optind + 1 \/ optind' = optind + 2
<1>1. CASE UNCHANGED vars
  BY <1>1 DEF vars, Avant
<1>2. CASE \/ Demarrer \/ MotIgnore \/ FinOptions \/ OptionSortie \/ OptionHote
           \/ OptionDebug \/ OptionDebugFatale \/ FichierAbsent
           \/ main_load_header \/ main_read_section_table
           \/ main_section \/ main_sectionFatale \/ SansVal \/ TronqueFatale
           \/ print_tablesymbol \/ SansStrtab \/ NomHorsTable \/ FinImpression
  BY <1>2 DEF Demarrer, MotIgnore, FinOptions, OptionSortie, OptionHote, OptionDebug,
     OptionDebugFatale, FichierAbsent, main_load_header, main_read_section_table, main_section,
     main_sectionFatale, SansVal, TronqueFatale, print_tablesymbol, SansStrtab, NomHorsTable,
     FinImpression, Option, OptionSuivante, Avant
<1>3. CASE \/ main_table_symbole \/ main_relocation_table \/ ChargerReimplantation
           \/ FinReimplantations \/ ChargerSymbole \/ SectionSuivante
  BY <1>3 DEF main_table_symbole, main_relocation_table, ChargerReimplantation,
     FinReimplantations, LireSections, ChargerSymbole, SectionSuivante, EnCours, Option, Avant
<1>4. CASE print_relocation_table \/ Titre \/ ImprimerReimplantation \/ TableSuivante
  BY <1>4 DEF print_relocation_table, Titre, ImprimerReimplantation, TableSuivante, Imprimer,
     EnCours, Avant
<1> QED
  BY <1>1, <1>2, <1>3, <1>4 DEF Next

LEMMA PasDesReimplantations ==
  ASSUME [Next]_vars
  PROVE  /\ pc' = "reimplantations" =>
              \/ main_relocation_table \/ ChargerReimplantation
              \/ pc = "reimplantations" /\ UNCHANGED <<i, sections, relocationtable>>
         /\ pc' = "symboles" =>
              \/ main_table_symbole \/ FinReimplantations
              \/ pc = "symboles" /\ UNCHANGED <<argv, optind, relocationtable>>
         /\ pc' = "impression" =>
              \/ print_relocation_table \/ Titre \/ ImprimerReimplantation \/ TableSuivante
              \/ pc = "impression" /\ UNCHANGED <<i, j, optind, sortie, relocationtable>>
         /\ pc' = "options" =>
              /\ pc = "symboles" => print_tablesymbol
              /\ pc = "impression" => FinImpression
<1>1. CASE UNCHANGED vars
  BY <1>1 DEF vars, boucle
<1>2. CASE \/ Demarrer \/ MotIgnore \/ FinOptions \/ OptionSortie \/ OptionHote
           \/ OptionDebug \/ OptionDebugFatale \/ FichierAbsent
           \/ main_load_header \/ main_read_section_table
           \/ main_section \/ main_sectionFatale \/ SansVal \/ TronqueFatale
           \/ print_tablesymbol \/ SansStrtab \/ NomHorsTable \/ FinImpression
  BY <1>2 DEF Demarrer, MotIgnore, FinOptions, OptionSortie, OptionHote, OptionDebug,
     OptionDebugFatale, FichierAbsent, main_load_header, main_read_section_table, main_section,
     main_sectionFatale, SansVal, TronqueFatale, print_tablesymbol, SansStrtab, NomHorsTable,
     FinImpression, Option, OptionSuivante, FinSymboles, Imprimer, EnCours
<1>3. CASE \/ main_table_symbole \/ main_relocation_table \/ ChargerReimplantation
           \/ FinReimplantations \/ ChargerSymbole \/ SectionSuivante
  BY <1>3 DEF main_table_symbole, main_relocation_table, ChargerReimplantation,
     FinReimplantations, LireSections, ChargerSymbole, SectionSuivante, EnCours, Option
<1>4. CASE print_relocation_table \/ Titre \/ ImprimerReimplantation \/ TableSuivante
  BY <1>4 DEF print_relocation_table, Titre, ImprimerReimplantation, TableSuivante, Imprimer,
     EnCours
<1> QED
  BY <1>1, <1>2, <1>3, <1>4 DEF Next

LEMMA RienDitGarde ==
  ASSUME IInv, RienDit, [Next]_vars
  PROVE  RienDit'
<1> SUFFICES ASSUME pc' \in Avant, NEW k \in DOMAIN sortie'
             PROVE  sortie'[k].opt < optind'
  BY DEF RienDit
<1>1. optind \in Nat
  BY JusquaInv
<1>2. CASE pc \in Avant /\ UNCHANGED <<optind, sortie>>
  BY <1>2 DEF RienDit
<1>3. CASE optind' = optind + 1 \/ optind' = optind + 2
  <2>1. sortie'[k].opt \in Nat /\ sortie'[k].opt <= optind
    <3>1. CASE k \in DOMAIN sortie /\ sortie'[k] = sortie[k]
      <4>1. sortie[k].opt <= optind
        BY <3>1 DEF IInv, TypeOK, Imprime
      <4>2. sortie[k] \in Lignes
        BY <3>1, ElementOfSeq DEF IInv
      <4> QED
        BY <3>1, <4>1, <4>2, LignesTypees
    <3>2. CASE Nouvelle(sortie'[k])
      BY <1>1, <3>2 DEF Nouvelle
    <3> QED
      BY <3>1, <3>2, LignesImprimees
  <2> QED
    BY <1>1, <1>3, <2>1
<1> QED
  BY <1>2, <1>3, PasAvant

LEMMA EntreesChargeesGardees ==
  ASSUME IInv, EntreesChargees, [Next]_vars
  PROVE  EntreesChargees'
<1>0. fichier' = fichier /\ fichier \in Fichier /\ (Entier' <=> Entier)
  BY FichierGarde DEF Entier, IInv, TypeOK
<1>1. ASSUME pc' = "reimplantations"
      PROVE  ARendre(relocationtable'.tab) = DeType(SubSeq(sections', 1, i' - 1), SHT_REL)
  <2>1. CASE main_relocation_table
    <3>1. relocationtable' = creer_liste(TailleTables) /\ i' = 1 /\ sections' \in Seq(Section)
      BY <2>1, LuesDuFichier DEF main_relocation_table
    <3>2. relocationtable'.tab = <<>> /\ SubSeq(sections', 1, i' - 1) = <<>>
      <4>1. creer_liste(TailleTables).tab = <<>>
        BY LectureAssumption, ListeCreee
      <4>2. SubSeq(sections', 1, 0) = <<>>
        BY <3>1, Prefixe
      <4> QED
        BY <3>1, <4>1, <4>2
    <3> QED
      BY Zenon, <3>2, ARendreRien
  <2>2. CASE ChargerReimplantation
    <3> DEFINE x == sections[i]
               tab == relocationtable.tab
               d == DeType(SubSeq(sections, 1, i - 1), SHT_REL)
    <3>1. /\ pc = "reimplantations" /\ i \in 1 .. Len(sections) /\ x \in Section
          /\ relocationtable \in [taille_max : Nat \ {0}, tab : Seq(UneTable)]
          /\ i' = i + 1 /\ sections' = sections /\ sections \in Seq(Section)
          /\ relocationtable' = IF DuType(x, SHT_REL) \/ DuType(x, SHT_RELA)
                                THEN ajouter(relocationtable, Table(x)) ELSE relocationtable
      BY <2>2, TableChargee DEF ChargerReimplantation, EnCours, IInv, TypeOK, ListesLues
    <3>2. ARendre(tab) = d
      BY <3>1 DEF EntreesChargees
    <3>3. d \in Seq(Rels) /\ DeType(SubSeq(sections, 1, i), SHT_REL) = d \o DesRel[x]
      BY <3>1, RelDePlus
    <3>4. i' - 1 = i
      BY <3>1
    <3>5. ARendre(relocationtable'.tab) = d \o DesRel[x]
      <4>1. CASE DuType(x, SHT_REL) \/ DuType(x, SHT_RELA)
        <5> DEFINE t == Table(x)
        <5>1. t \in UneTable /\ AImprimer[t] = DesRel[x]
          BY <3>1, <4>1, TableTypee, TableRendue
        <5>2. relocationtable' = ajouter(relocationtable, t)
          BY <3>1, <4>1
        <5> HIDE DEF t, d, x
        <5>3. relocationtable'.tab = Append(tab, t)
          BY <3>1, <5>1, <5>2, ElementAjoute
        <5>4. tab \in Seq(UneTable)
          BY <3>1
        <5> HIDE DEF tab
        <5>5. ARendre(Append(tab, t)) = ARendre(tab) \o AImprimer[t]
          BY <5>1, <5>4, ARendrePlus
        <5> QED
          BY <3>2, <5>1, <5>3, <5>5
      <4>2. CASE ~(DuType(x, SHT_REL) \/ DuType(x, SHT_RELA))
        <5>1. relocationtable' = relocationtable /\ DesRel[x] = <<>>
          BY <3>1, <4>2, TableRendue
        <5> HIDE DEF d, x
        <5>2. d \o <<>> = d
          BY <3>3, ConcatEmptySeq
        <5> QED
          BY <3>2, <5>1, <5>2
      <4> QED
        BY <4>1, <4>2
    <3> QED
      BY Zenon, <3>1, <3>3, <3>4, <3>5
  <2>3. CASE pc = "reimplantations" /\ UNCHANGED <<i, sections, relocationtable>>
    BY <2>3 DEF EntreesChargees
  <2> QED
    BY <1>1, <2>1, <2>2, <2>3, PasDesReimplantations
<1>2. ASSUME Entier, pc' = "symboles", argv'[optind'] = "-E"
      PROVE  ARendre(relocationtable'.tab) = DeType(fichier.sect, SHT_REL)
  <2>1. ~main_table_symbole
    BY <1>2 DEF main_table_symbole, Option
  <2>2. CASE FinReimplantations
    <3>1. /\ pc = "reimplantations" /\ i > Len(sections) /\ relocationtable' = relocationtable
          /\ i \in 1 .. Len(sections) + 1 /\ sections \in Seq(Section) /\ Len(sections) \in Nat
      BY <2>2, LenProperties
         DEF FinReimplantations, EnCours, LireSections, IInv, TypeOK, Indices, ListesLues
    <3>2. sections = fichier.sect
      BY <1>2, <3>1 DEF IInv, OptionEnCours, Parcours
    <3>3. i - 1 = Len(sections)
      BY <3>1
    <3>4. SubSeq(sections, 1, i - 1) = sections
      BY <3>1, <3>3, Prefixe
    <3>5. ARendre(relocationtable.tab) = DeType(SubSeq(sections, 1, i - 1), SHT_REL)
      BY <3>1 DEF EntreesChargees
    <3> QED
      BY Zenon, <3>1, <3>2, <3>4, <3>5
  <2>3. CASE pc = "symboles" /\ UNCHANGED <<argv, optind, relocationtable>>
    BY <1>2, <2>3 DEF EntreesChargees
  <2> QED
    BY <1>2, <2>1, <2>2, <2>3, PasDesReimplantations
<1>3. ASSUME Entier, pc' = "impression"
      PROVE  ARendre(relocationtable'.tab) = DeType(fichier.sect, SHT_REL)
  <2>1. CASE print_relocation_table
    BY <1>3, <2>1 DEF print_relocation_table, FinSymboles, EnCours, EntreesChargees
  <2>2. CASE pc = "impression" /\ relocationtable' = relocationtable
    BY <1>3, <2>2 DEF EntreesChargees
  <2>3. Titre \/ ImprimerReimplantation \/ TableSuivante =>
          pc = "impression" /\ relocationtable' = relocationtable
    BY DEF Titre, ImprimerReimplantation, TableSuivante, Imprimer, EnCours
  <2> QED
    BY <1>3, <2>1, <2>2, <2>3, PasDesReimplantations
<1>4. DeType(SubSeq(sections', 1, i' - 1), SHT_REL) = DeType(SubSeq(sections, 1, i - 1), SHT_REL)'
  BY DEF DeType, DuType
<1> QED
  BY <1>0, <1>1, <1>2, <1>3, <1>4 DEF EntreesChargees, ARendre, Enfilees, AImprimer, DeType, DuType

-----------------------------------------------------------------------------
LEMMA RenduesType ==
  ASSUME NEW tab \in Seq(UneTable), NEW p \in 1 .. Len(tab) + 1
  PROVE  /\ SubSeq(tab, 1, p - 1) \in Seq(UneTable)
         /\ ARendre(SubSeq(tab, 1, p - 1)) \in Seq(Rels)
<1> DEFINE r == SubSeq(tab, 1, p - 1)
<1>1. p - 1 \in 0 .. Len(tab)
  BY LenProperties
<1>2. r \in Seq(UneTable)
  BY <1>1, Prefixe
<1> HIDE DEF r
<1>3. ARendre(r) \in Seq(Rels)
  BY <1>2, AImprimerType, EnfileesType DEF ARendre
<1> QED
  BY <1>2, <1>3 DEF r

\* Before the first table, and after the last.
LEMMA RenduesBornes ==
  ASSUME NEW tab \in Seq(UneTable)
  PROVE  /\ Rendues(tab, 1, 0) = <<>>
         /\ \A q : Rendues(tab, Len(tab) + 1, q) = ARendre(tab)
<1>1. Len(tab) \in Nat /\ SubSeq(tab, 1, 0) = <<>> /\ SubSeq(tab, 1, Len(tab)) = tab
  BY Prefixe, LenProperties
<1>2. Rendues(tab, 1, 0) = <<>>
  <2>1. SubSeq(tab, 1, 1 - 1) = <<>>
    BY <1>1
  <2>2. ARendre(SubSeq(tab, 1, 1 - 1)) = <<>>
    BY Zenon, <2>1, ARendreRien
  <2>3. Rendues(tab, 1, 0) = ARendre(SubSeq(tab, 1, 1 - 1)) \o <<>>
    BY DEF Rendues
  <2> QED
    BY <2>2, <2>3
<1>3. ASSUME NEW q
      PROVE  Rendues(tab, Len(tab) + 1, q) = ARendre(tab)
  <2> DEFINE m == Len(tab) + 1
             r == SubSeq(tab, 1, m - 1)
  <2>1. m - 1 = Len(tab) /\ ~(m <= Len(tab)) /\ m \in 1 .. Len(tab) + 1
    BY <1>1
  <2>2. r = tab
    BY <1>1, <2>1
  <2>3. ARendre(tab) \in Seq(Rels)
    BY AImprimerType, EnfileesType DEF ARendre
  <2> HIDE DEF m
  <2>4. Rendues(tab, m, q) = ARendre(r) \o <<>>
    BY <2>1 DEF Rendues
  <2> HIDE DEF r
  <2>5. Rendues(tab, m, q) = ARendre(tab) \o <<>>
    BY <2>2, <2>4
  <2> QED
    BY <2>3, <2>5, ConcatEmptySeq DEF m
<1> QED
  BY <1>2, <1>3

\* A relocation more.
LEMMA RenduesPlus ==
  ASSUME NEW tab \in Seq(UneTable), NEW p \in 1 .. Len(tab), NEW q \in 1 .. tab[p].size
  PROVE  /\ Rendues(tab, p, q) \in Seq(Rels) /\ tab[p].tab[q] \in Rels
         /\ Rendues(tab, p, q + 1) = Append(Rendues(tab, p, q), tab[p].tab[q])
<1> DEFINE a == ARendre(SubSeq(tab, 1, p - 1))
           c == tab[p].tab
           b == SubSeq(c, 1, q - 1)
           x == c[q]
<1>1. Len(tab) \in Nat /\ p <= Len(tab) /\ p \in 1 .. Len(tab) + 1 /\ tab[p] \in UneTable
  BY LenProperties, ElementOfSeq
<1>2. a \in Seq(Rels)
  BY <1>1, RenduesType
<1>3. /\ c \in Seq(Rels) /\ q \in 1 .. Len(c) /\ Len(c) \in Nat
  <2>1. c \in Seq(Rels) /\ tab[p].size \in Nat /\ tab[p].size <= Len(c)
    BY <1>1 DEF UneTable
  <2>2. Len(c) \in Nat
    BY <2>1, LenProperties
  <2> QED
    BY <2>1, <2>2
<1>4. /\ Rendues(tab, p, q) = a \o b
      /\ Rendues(tab, p, q + 1) = a \o SubSeq(c, 1, q + 1 - 1)
  BY <1>1, <1>3 DEF Rendues
<1> HIDE DEF a
<1>5. b \in Seq(Rels) /\ SubSeq(c, 1, q + 1 - 1) = Append(b, x) /\ x \in Rels
  <2> HIDE DEF c
  <2>1. q - 1 \in 0 .. Len(c) /\ q + 1 - 1 = q
    BY <1>3
  <2> QED
    BY <1>3, <2>1, Prefixe, ElementOfSeq
<1> HIDE DEF b, x, c
<1>6. a \o b \in Seq(Rels) /\ a \o Append(b, x) = Append(a \o b, x)
  BY <1>2, <1>5
<1> QED
  BY <1>4, <1>5, <1>6 DEF x, c

\* The title of a table, and the next table.
LEMMA RenduesEgales ==
  ASSUME NEW tab \in Seq(UneTable), NEW p \in 1 .. Len(tab)
  PROVE  /\ Rendues(tab, p, 1) = Rendues(tab, p, 0)
         /\ Rendues(tab, p + 1, 0) = Rendues(tab, p, tab[p].size + 1)
<1> DEFINE r == SubSeq(tab, 1, p - 1)
           a == ARendre(r)
           t == tab[p]
           c == tab[p].tab
<1>1. Len(tab) \in Nat /\ p <= Len(tab) /\ p \in 1 .. Len(tab) + 1 /\ t \in UneTable /\ p + 1 - 1 = p
  BY LenProperties, ElementOfSeq
<1>2. /\ r \in Seq(UneTable) /\ a \in Seq(Rels)
      /\ SubSeq(tab, 1, p + 1 - 1) = Append(r, t)
  <2>1. r \in Seq(UneTable) /\ a \in Seq(Rels)
    BY <1>1, RenduesType
  <2>2. SubSeq(tab, 1, p) = Append(r, t)
    BY <1>1, Prefixe
  <2> QED
    BY <1>1, <2>1, <2>2
<1>3. c \in Seq(Rels) /\ t.size \in Nat
  BY <1>1 DEF UneTable
<1>4. Rendues(tab, p, 1) = Rendues(tab, p, 0)
  <2>1. SubSeq(c, 1, 1 - 1) = <<>>
    BY <1>3, Prefixe
  <2>2. Rendues(tab, p, 1) = a \o SubSeq(c, 1, 1 - 1) /\ Rendues(tab, p, 0) = a \o <<>>
    BY <1>1 DEF Rendues
  <2> QED
    BY <2>1, <2>2
<1>5. Rendues(tab, p + 1, 0) = Rendues(tab, p, t.size + 1)
  <2>1. Rendues(tab, p + 1, 0) = ARendre(SubSeq(tab, 1, p + 1 - 1)) \o <<>>
    BY <1>1 DEF Rendues
  <2>2. Rendues(tab, p, t.size + 1) = a \o SubSeq(c, 1, t.size + 1 - 1)
    BY <1>1, <1>3 DEF Rendues
  <2>3. t.size + 1 - 1 = t.size /\ AImprimer[t] = SubSeq(c, 1, t.size)
    BY <1>1, <1>3 DEF AImprimer
  <2> HIDE DEF r, t, c
  <2>4. ARendre(Append(r, t)) = a \o AImprimer[t] /\ AImprimer[t] \in Seq(Rels)
    BY <1>1, <1>2, ARendrePlus, AImprimerType DEF Donne
  <2> HIDE DEF a
  <2>5. a \o AImprimer[t] \in Seq(Rels)
    BY <1>2, <2>4, ConcatProperties
  <2>6. (a \o AImprimer[t]) \o <<>> = a \o AImprimer[t]
    BY <2>5, ConcatEmptySeq
  <2> QED
    BY <1>2, <2>1, <2>2, <2>3, <2>4, <2>6
<1> QED
  BY <1>4, <1>5 DEF t

\* Two lists with the same positions have the same length.
LEMMA MemesPositions ==
  ASSUME NEW a \in Nat, NEW b \in Nat, 1 .. a = 1 .. b
  PROVE  a = b
<1>1. a = 0 \/ a \in 1 .. a
  OBVIOUS
<1>2. b = 0 \/ b \in 1 .. b
  OBVIOUS
<1>3. a <= b
  <2>1. CASE a = 0
    BY <2>1
  <2>2. CASE a \in 1 .. a
    <3>1. a \in 1 .. b
      BY Zenon, <2>2
    <3> QED
      BY <3>1
  <2> QED
    BY <1>1, <2>1, <2>2
<1>4. b <= a
  <2>1. CASE b = 0
    BY <2>1
  <2>2. CASE b \in 1 .. b
    <3>1. b \in 1 .. a
      BY Zenon, <2>2
    <3> QED
      BY <3>1
  <2> QED
    BY <1>2, <2>1, <2>2
<1> QED
  BY <1>3, <1>4

\* One more on both sides.
LEMMA SensPlus ==
  ASSUME NEW rels \in Seq(Rels), NEW rel \in Rels,
         NEW L \in Seq(LigneRel), NEW l \in LigneRel,
         SansValeur(L) = SensRel(rels),
         l.offset = Nombre(rel.r_offset), l.info = Nombre(rel.r_info)
  PROVE  SansValeur(Append(L, l)) = SensRel(Append(rels, rel))
<1> DEFINE m == Len(L)
           u == Append(L, l)
           w == Append(rels, rel)
           sl == SansValeur(L)
           sr == SensRel(rels)
           su == SansValeur(u)
           sw == SensRel(w)
<1>1. m \in Nat /\ Len(rels) \in Nat /\ DOMAIN L = 1 .. m /\ DOMAIN rels = 1 .. Len(rels)
  BY LenProperties
<1>2. sl = [p \in 1 .. m |-> [offset |-> L[p].offset, info |-> L[p].info]]
  BY <1>1 DEF SansValeur
<1>3. sr = [p \in 1 .. Len(rels) |-> [offset |-> Nombre(rels[p].r_offset), info |-> Nombre(rels[p].r_info)]]
  BY <1>1 DEF SensRel
<1>4. m = Len(rels)
  <2>1. DOMAIN sl = 1 .. m /\ DOMAIN sr = 1 .. Len(rels)
    BY <1>2, <1>3
  <2>2. 1 .. m = 1 .. Len(rels)
    BY <2>1
  <2> HIDE DEF m, sl, sr
  <2> QED
    BY <1>1, <2>2, MemesPositions
<1>5. DOMAIN u = 1 .. m + 1 /\ u[m + 1] = l /\ \A p \in 1 .. m : u[p] = L[p]
  BY <1>1
<1>6. DOMAIN w = 1 .. m + 1 /\ w[m + 1] = rel /\ \A p \in 1 .. m : w[p] = rels[p]
  BY <1>1, <1>4
<1> HIDE DEF u, w
<1>7. su = [p \in 1 .. m + 1 |-> [offset |-> u[p].offset, info |-> u[p].info]]
  BY <1>5 DEF SansValeur
<1>8. sw = [p \in 1 .. m + 1 |-> [offset |-> Nombre(w[p].r_offset), info |-> Nombre(w[p].r_info)]]
  BY <1>6 DEF SensRel
<1>9. \A p \in 1 .. m : sl[p] = sr[p]
  OBVIOUS
<1> HIDE DEF m, sl, sr, su, sw
<1>10. ASSUME NEW p \in 1 .. m + 1
       PROVE  su[p] = sw[p]
  <2>1. CASE p \in 1 .. m
    <3>1. su[p] = sl[p]
      BY <1>2, <1>5, <1>7, <2>1
    <3>2. sw[p] = sr[p]
      BY <1>3, <1>4, <1>6, <1>8, <2>1
    <3> QED
      BY <1>9, <2>1, <3>1, <3>2
  <2>2. CASE p = m + 1
    BY <1>5, <1>6, <1>7, <1>8, <2>2
  <2> QED
    BY <1>1, <2>1, <2>2
<1>11. su = sw
  BY <1>7, <1>8, <1>10
<1> QED
  BY <1>11 DEF su, sw, u, w

LEMMA EntreesImprimeesGardees ==
  ASSUME IInv, RienDit, EntreesImprimees, [Next]_vars
  PROVE  EntreesImprimees'
<1> SUFFICES ASSUME pc' = "impression"
             PROVE  SansValeur(Imprimees(sortie, "rel")')
                      = SensRel(Rendues(relocationtable'.tab, i', j'))
  BY DEF EntreesImprimees, SansValeur, SensRel, Rendues, ARendre, Enfilees, AImprimer
<1> DEFINE tab == relocationtable.tab
           L == Imprimees(sortie, "rel")
<1>1. sortie \in Seq(Lignes) /\ tab \in Seq(UneTable) /\ optind \in Nat
  BY JusquaInv DEF IInv, TypeOK, ListesLues
<1>2. Valeurs["rel"] = LigneRel
  BY LesValeurs
<1>3. Len(tab) \in Nat
  BY <1>1, LenProperties
<1>4. optind' = optind => Imprimees(sortie, "rel")' = Imprimees(sortie', "rel")
  BY DEF Imprimees
<1>5. CASE print_relocation_table
  <2>1. /\ pc = "symboles" /\ UNCHANGED <<optind, relocationtable, sortie>> /\ i' = 1 /\ j' = 0
    BY <1>5 DEF print_relocation_table, FinSymboles, EnCours
  <2>2. \A k \in DOMAIN sortie : sortie[k].opt < optind
    BY <2>1 DEF RienDit, Avant
  <2>3. L = <<>>
    BY <1>1, <2>2, RienEncore
  <2>4. Rendues(tab, 1, 0) = <<>>
    BY <1>1, RenduesBornes
  <2>5. SansValeur(<<>>) = <<>> /\ SensRel(<<>>) = <<>>
    BY DEF SansValeur, SensRel
  <2>6. Imprimees(sortie, "rel")' = <<>> /\ Rendues(relocationtable'.tab, i', j') = <<>>
    BY Zenon, <1>4, <2>1, <2>3, <2>4
  <2> QED
    BY Zenon, <2>5, <2>6
<1>6. CASE Titre
  <2> DEFINE x == [nom |-> TableImprimee.nom, nb |-> TableImprimee.size]
             l == Ligne("titre", x)
  <2>1. /\ Imprimer /\ j = 0 /\ j' = 1 /\ UNCHANGED <<optind, i, relocationtable>>
        /\ sortie' = Append(sortie, l)
    BY <1>6 DEF Titre
  <2>2. /\ pc = "impression" /\ TableImprimee \in UneTable /\ i \in 1 .. n(relocationtable)
        /\ TableImprimee.size \in Nat
    BY <2>1, DansImpression
  <2>3. x \in Valeurs["titre"] /\ "titre" \in DOMAIN Valeurs
    BY <2>2, LesValeurs DEF UneTable
  <2> HIDE DEF x
  <2>4. l \in Lignes /\ l.quoi = "titre"
    BY <1>1, <2>3, LigneTypee DEF Ligne
  <2> HIDE DEF l
  <2>5. Imprimees(sortie', "rel") = L
    BY <1>1, <2>1, <2>4, ImprimeesPlus
  <2>6. i \in 1 .. Len(tab)
    BY <2>2 DEF n
  <2>7. Rendues(tab, i, 1) = Rendues(tab, i, 0)
    BY <1>1, <2>6, RenduesEgales
  <2>8. SansValeur(L) = SensRel(Rendues(tab, i, j))
    BY <2>2 DEF EntreesImprimees
  <2>9. Imprimees(sortie, "rel")' = L /\ Rendues(relocationtable'.tab, i', j') = Rendues(tab, i, j)
    BY Zenon, <1>4, <2>1, <2>5, <2>7
  <2> QED
    BY Zenon, <2>8, <2>9
<1>7. CASE ImprimerReimplantation
  <2> DEFINE x == [offset |-> Nombre(Reimplantation.r_offset),
                   info |-> Nombre(Reimplantation.r_info), sym |-> Indice,
                   valeur |-> Nombre(currentsymbol'.st_value)]
             l == Ligne("rel", x)
             r == tab[i].tab[j]
             R == Rendues(tab, i, j)
  <2>1. /\ Imprimer /\ j \in 1 .. TableImprimee.size /\ j' = j + 1
        /\ UNCHANGED <<optind, i, relocationtable>> /\ sortie' = Append(sortie, l)
    BY <1>7 DEF ImprimerReimplantation
  <2>2. pc = "impression" /\ i \in 1 .. n(relocationtable)
    BY <2>1, DansImpression
  <2>3. i \in 1 .. Len(tab) /\ TableImprimee = tab[i] /\ Reimplantation = r
    BY <2>2 DEF n, TableImprimee, Reimplantation
  <2>4. j \in 1 .. tab[i].size
    BY <2>1, <2>3
  <2>5. l.opt = optind /\ l.quoi = "rel" /\ l.v = x
    BY DEF Ligne
  <2>6. l.v.offset = Nombre(r.r_offset) /\ l.v.info = Nombre(r.r_info)
    BY <2>3, <2>5
  <2>7. l \in Lignes
    <3>1. IInv'
      BY Pas
    <3>2. sortie' \in Seq(Lignes)
      BY <3>1 DEF IInv
    <3> HIDE DEF l
    <3>3. Len(sortie) \in Nat /\ Len(sortie') = Len(sortie) + 1 /\ sortie'[Len(sortie) + 1] = l
      BY <1>1, <2>1, LenProperties, AppendProperties
    <3>4. Len(sortie) + 1 \in 1 .. Len(sortie')
      BY <3>3
    <3> QED
      BY <3>2, <3>3, <3>4, ElementOfSeq
  <2> HIDE DEF x, l
  <2>8. L \in Seq(LigneRel) /\ Imprimees(sortie', "rel") = Append(L, l.v)
    BY <1>1, <1>2, <2>1, <2>5, <2>7, ImprimeesPlus
  <2>9. l.v \in LigneRel
    <3>1. l \in UneLigne("rel")
      BY <2>5, <2>7, LignesTypees
    <3> QED
      BY <1>2, <3>1 DEF UneLigne
  <2>10. /\ R \in Seq(Rels) /\ r \in Rels
         /\ Rendues(tab, i, j + 1) = Append(R, r)
    BY <1>1, <2>3, <2>4, RenduesPlus
  <2>11. SansValeur(L) = SensRel(R)
    BY <2>2 DEF EntreesImprimees
  <2> DEFINE y == l.v
  <2>12. /\ Imprimees(sortie, "rel")' = Append(L, y)
         /\ Rendues(relocationtable'.tab, i', j') = Append(R, r)
    BY Zenon, <1>4, <2>1, <2>8, <2>10
  <2> HIDE DEF y, R, r, L
  <2>13. SansValeur(Append(L, y)) = SensRel(Append(R, r))
    <3>1. y \in LigneRel /\ y.offset = Nombre(r.r_offset) /\ y.info = Nombre(r.r_info)
      BY <2>6, <2>9 DEF y
    <3> QED
      BY <2>8, <2>10, <2>11, <3>1, SensPlus
  <2> QED
    BY Zenon, <2>12, <2>13
<1>8. CASE TableSuivante
  <2>1. /\ Imprimer /\ j > 0 /\ j > TableImprimee.size /\ i' = i + 1 /\ j' = 0
        /\ UNCHANGED <<optind, relocationtable, sortie>>
    BY <1>8 DEF TableSuivante
  <2>2. /\ pc = "impression" /\ i \in 1 .. n(relocationtable)
        /\ TableImprimee.size \in Nat /\ j \in 0 .. TableImprimee.size + 1
    BY <2>1, DansImpression
  <2>3. i \in 1 .. Len(tab) /\ TableImprimee = tab[i]
    BY <2>2 DEF n, TableImprimee
  <2>4. j = tab[i].size + 1
    BY <2>1, <2>2, <2>3
  <2>5. Rendues(tab, i + 1, 0) = Rendues(tab, i, j)
    BY <1>1, <2>3, <2>4, RenduesEgales
  <2>6. SansValeur(L) = SensRel(Rendues(tab, i, j))
    BY <2>2 DEF EntreesImprimees
  <2>7. Imprimees(sortie, "rel")' = L /\ Rendues(relocationtable'.tab, i', j') = Rendues(tab, i, j)
    BY Zenon, <1>4, <2>1, <2>5
  <2> QED
    BY Zenon, <2>6, <2>7
<1>9. CASE pc = "impression" /\ UNCHANGED <<i, j, optind, sortie, relocationtable>>
  <2>1. Imprimees(sortie, "rel")' = L /\ Rendues(relocationtable'.tab, i', j') = Rendues(tab, i, j)
    BY Zenon, <1>4, <1>9
  <2>2. SansValeur(L) = SensRel(Rendues(tab, i, j))
    BY <1>9 DEF EntreesImprimees
  <2> QED
    BY Zenon, <2>1, <2>2
<1> QED
  BY <1>5, <1>6, <1>7, <1>8, <1>9, PasDesReimplantations

\* What is known of all that -D and -E have read and printed.
LEMMA AffichageSuivi == Spec => [](RienDit /\ EntreesChargees /\ EntreesImprimees)
<1>1. Init => RienDit /\ EntreesChargees /\ EntreesImprimees
  BY DEF Init, InitLecture, RienDit, EntreesChargees, EntreesImprimees
<1>2. IInv /\ RienDit /\ EntreesChargees /\ EntreesImprimees /\ [Next]_vars
        => (RienDit /\ EntreesChargees /\ EntreesImprimees)'
  BY RienDitGarde, EntreesChargeesGardees, EntreesImprimeesGardees
<1> QED
  BY <1>1, <1>2, Invariant, PTL DEF Spec

\* -D has printed the symbols of a file read whole.
LEMMA SymbolesTousImprimes ==
  ASSUME IInv, RienDit, SymbolesLus, Entier, print_tablesymbol
  PROVE  Imprimees(sortie', "symbole") = Sens(DeType(fichier.sect, SHT_SYMTAB))
<1> DEFINE r == SymbolesEcrits
           t == DeType(fichier.sect, SHT_SYMTAB)
<1>1. /\ pc = "symboles" /\ i > Len(sections) /\ liste_symb' = Inversee(liste_symb)
  BY DEF print_tablesymbol, FinSymboles, EnCours
<1>2. /\ sections = fichier.sect /\ sections \in Seq(Section) /\ Len(sections) \in Nat
      /\ i = Len(sections) + 1 /\ j = 1
  <2>1. /\ i \in 1 .. Len(sections) + 1 /\ Len(sections) \in Nat
        /\ ~(i <= Len(sections) /\ DuType(sections[i], SHT_SYMTAB)) => j = 1
    BY <1>1, DansSymboles
  <2>2. sections = fichier.sect /\ sections \in Seq(Section)
    BY <1>1, DansParcours DEF Parcours
  <2> QED
    BY <1>1, <2>1, <2>2
<1>3. liste_symb'.tab = t
  <2>1. Inversee(liste_symb).tab = Lus(sections, i, j)
    BY <1>1, SymbolesLusAutrement DEF LusJusquIci
  <2>2. Lus(sections, Len(sections) + 1, 1) = DeType(sections, SHT_SYMTAB)
    BY <1>2, LusAuDebut
  <2> QED
    BY Zenon, <1>1, <1>2, <2>1, <2>2
<1>4. /\ sortie' = sortie \o r /\ r \in Seq(Lignes)
      /\ \A k \in DOMAIN r : r[k].opt = optind /\ r[k].quoi = "symbole"
  BY SymbolesImprimes
<1>5. sortie \in Seq(Lignes) /\ optind \in Nat
  BY JusquaInv DEF IInv
<1>6. Imprimees(sortie, "symbole") = <<>>
  <2>1. \A k \in DOMAIN sortie : sortie[k].opt < optind
    BY <1>1 DEF RienDit, Avant
  <2> QED
    BY <1>5, <2>1, RienEncore
<1>7. Imprimees(sortie \o r, "symbole") = [k \in DOMAIN r |-> r[k].v]
  <2> HIDE DEF r
  <2> QED
    BY <1>4, <1>5, <1>6, SuiteImprimee
<1>8. /\ liste_symb.tab \in Seq(Symboles) /\ Len(liste_symb.tab) \in Nat
      /\ Len(liste_symb'.tab) = Len(liste_symb.tab)
  BY <1>1, ListeInversee, LenProperties DEF IInv, TypeOK, ListesLues
<1>9. t \in Seq(Symboles)
  BY <1>3, SymbolesImprimes
<1> HIDE DEF t
<1> DEFINE m == Len(t)
<1>10. m \in Nat /\ DOMAIN t = 1 .. m /\ n(liste_symb) = m /\ n(liste_symb') = m
  BY <1>3, <1>8, <1>9, LenProperties DEF n
<1>11. DOMAIN r = 1 .. m
  BY <1>10 DEF SymbolesEcrits
<1>12. ASSUME NEW k \in 1 .. m
       PROVE  r[k].v = Affiche(t[k])
  <2> DEFINE x == Affiche(get_symbol(liste_symb', k - 1, currentsymbol))
  <2>1. r[k] = Ligne("symbole", x)
    BY <1>10 DEF SymbolesEcrits
  <2>2. k - 1 < n(liste_symb') /\ k - 1 + 1 = k
    BY <1>10
  <2>3. get_symbol(liste_symb', k - 1, currentsymbol) = t[k]
    BY <1>3, <2>2 DEF get_symbol
  <2> HIDE DEF r
  <2>4. r[k].v = x
    BY <2>1 DEF Ligne
  <2> QED
    BY Zenon, <2>3, <2>4
<1> HIDE DEF r
<1>13. [k \in DOMAIN r |-> r[k].v] = [k \in DOMAIN t |-> Affiche(t[k])]
  BY <1>10, <1>11, <1>12
<1> QED
  BY <1>4, <1>7, <1>13 DEF Sens, t

\* -E has printed the relocations of a file read whole.
LEMMA EntreesToutesImprimees ==
  ASSUME IInv, EntreesChargees, EntreesImprimees, Entier, FinImpression
  PROVE  SansValeur(Imprimees(sortie', "rel")) = SensRel(DeType(fichier.sect, SHT_REL))
<1> DEFINE tab == relocationtable.tab
<1>1. pc = "impression" /\ i > n(relocationtable) /\ sortie' = sortie
  BY DEF FinImpression, EnCours
<1>2. tab \in Seq(UneTable) /\ i \in 1 .. n(relocationtable) + 1
  BY <1>1 DEF IInv, TypeOK, ListesLues, Indices
<1>3. Len(tab) \in Nat /\ n(relocationtable) = Len(tab)
  BY <1>2, LenProperties DEF n
<1>4. i = Len(tab) + 1
  BY <1>1, <1>2, <1>3
<1>5. Rendues(tab, Len(tab) + 1, j) = ARendre(tab)
  BY <1>2, RenduesBornes
<1>6. ARendre(tab) = DeType(fichier.sect, SHT_REL)
  BY <1>1 DEF EntreesChargees
<1>7. SansValeur(Imprimees(sortie, "rel")) = SensRel(Rendues(tab, i, j))
  BY <1>1 DEF EntreesImprimees
<1> QED
  BY Zenon, <1>1, <1>4, <1>5, <1>6, <1>7

\* When -D or -E returns, it has printed all the symbols, or all the relocations
\* of the SHT_REL sections, of a file read whole, once and in their order, with
\* the numbers the file means (affichage.c:305-393, 475-509).
THEOREM ToutEstAffiche == Spec => AffichageComplet
<1>1. IInv /\ RienDit /\ EntreesChargees /\ EntreesImprimees /\ SymbolesLus /\ [Next]_vars =>
        (Entier /\ pc' = "options" =>
           /\ pc = "symboles" =>
                Imprimees(sortie', "symbole") = Sens(DeType(fichier.sect, SHT_SYMTAB))
           /\ pc = "impression" =>
                SansValeur(Imprimees(sortie', "rel")) = SensRel(DeType(fichier.sect, SHT_REL)))
  BY SymbolesTousImprimes, EntreesToutesImprimees, PasDesReimplantations
<1> QED
  BY <1>1, Invariant, AffichageSuivi, SymbolesDuFichier, PTL DEF Spec, AffichageComplet
=============================================================================
