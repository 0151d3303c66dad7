---------------------------- MODULE FusionProofs ----------------------------
(***************************************************************************)
(* The invariants of FusionSymboles, for every pair of symbol tables, every*)
(* set of names and every allocation size; then, of Fusion, its types, the *)
(* names of the sections and the content their headers declare, for all    *)
(* source files.                                                           *)
(***************************************************************************)
EXTENDS Fusion, RecurrenceProofs


-----------------------------------------------------------------------------
(* String tables under construction.                                       *)

\* init_table returns a table (table_string.c:36-39).
LEMMA InitTableType ==
  ASSUME NEW cap \in Nat
  PROVE  /\ init_table(cap) \in TableString
         /\ Empilee(init_table(cap))
BY DEF init_table, TableString, Copie, Empilee

\* Writing a name keeps the type, moves val by the length of the name, leaves
\* every name already written where it was and adds the new one, unless it does
\* not fit and is lost (table_string.c:48-78).
LEMMA WriteTableType ==
  ASSUME NEW t \in TableString, NEW n \in Noms, NEW u \in Ecritures(t, n)
  PROVE  /\ u \in TableString
         /\ Apres(t, n) \in Nat /\ Apres(t, n) > t.val
         /\ u.val = Apres(t, n) /\ u.cap = t.cap
         /\ \/ u.string = t.string \cup {[at |-> t.val, nom |-> n]}
            \/ u.string = t.string /\ Apres(t, n) > t.cap
<1>1. Longueur[n] \in Nat /\ Longueur[n] > 0
  BY LongueurAssumption
<1>2. [at |-> t.val, nom |-> n] \in Copie
  BY DEF TableString, Copie
<1>3. t = [val |-> t.val, cap |-> t.cap, string |-> t.string]
      /\ t.val \in Nat /\ t.cap \in Nat /\ t.string \in SUBSET Copie
  BY DEF TableString
<1>4. Apres(t, n) \in Nat /\ Apres(t, n) > t.val
  BY <1>1, <1>3 DEF Apres
<1>5. \/ u = [val |-> Apres(t, n), cap |-> t.cap,
               string |-> t.string \cup {[at |-> t.val, nom |-> n]}]
      \/ /\ u = [val |-> Apres(t, n), cap |-> t.cap, string |-> t.string]
         /\ Apres(t, n) > t.cap
  BY DEF Ecritures, write_table
<1>6. t.string \cup {[at |-> t.val, nom |-> n]} \in SUBSET Copie
  BY <1>2, <1>3
<1> QED
  BY <1>3, <1>4, <1>5, <1>6 DEF TableString

LEMMA ApresType ==
  ASSUME NEW t \in TableString, NEW n \in Noms
  PROVE  Apres(t, n) \in Nat
BY WriteTableType DEF Ecritures

\* A name that a reader finds is still found after another one is written,
\* and the name just written is found at the old val if it fits.
LEMMA WriteTableDesigne ==
  ASSUME NEW t \in TableString, NEW n \in Noms, NEW u \in Ecritures(t, n)
  PROVE  /\ DansLaTable(u, t.val, n) => Designe(u, t.val, n)
         /\ \A at, m : Designe(t, at, m) => Designe(u, at, m)
         /\ \A at, m : DansLaTable(u, at, m) <=> DansLaTable(t, at, m)
<1>1. /\ Apres(t, n) \in Nat /\ u.cap = t.cap /\ t.cap \in Nat
      /\ \/ u.string = t.string \cup {[at |-> t.val, nom |-> n]}
         \/ u.string = t.string /\ Apres(t, n) > t.cap
  BY WriteTableType DEF TableString
<1>2. DansLaTable(u, t.val, n) => ~(Apres(t, n) > t.cap)
  BY <1>1 DEF DansLaTable, Apres
<1> QED
  BY <1>1, <1>2 DEF Designe, DansLaTable

\* The names stay stacked: the new one starts where the last one ended.
LEMMA WriteTableEmpilee ==
  ASSUME NEW t \in TableString, NEW n \in Noms, NEW u \in Ecritures(t, n), Empilee(t)
  PROVE  Empilee(u)
<1> DEFINE nouveau == [at |-> t.val, nom |-> n]
<1>1. /\ u.val = t.val + Longueur[n] /\ u.string \subseteq t.string \cup {nouveau}
      /\ t.val \in Nat /\ Longueur[n] \in Nat
  BY WriteTableType, LongueurAssumption DEF Apres, TableString
<1>2. \A c \in t.string : c.at \in Nat /\ Longueur[c.nom] \in Nat
  BY LongueurAssumption DEF TableString, Copie
<1>3. \A c \in t.string : c.at + Longueur[c.nom] <= t.val
  BY DEF Empilee
<1>4. \A c \in u.string : c.at + Longueur[c.nom] <= u.val
  BY <1>1, <1>2, <1>3
<1>5. ASSUME NEW c \in u.string, NEW d \in u.string, c # d
      PROVE  c.at + Longueur[c.nom] <= d.at \/ d.at + Longueur[d.nom] <= c.at
  <2>1. CASE c \in t.string /\ d \in t.string
    BY <1>5, <2>1 DEF Empilee
  <2>2. CASE c = nouveau /\ d \in t.string
    BY <1>3, <2>2
  <2>3. CASE c \in t.string /\ d = nouveau
    BY <1>3, <2>3
  <2> QED
    BY <1>1, <1>5, <2>1, <2>2, <2>3
<1> QED
  BY <1>4, <1>5 DEF Empilee

-----------------------------------------------------------------------------
(* The search in source 2.                                                 *)

\* is_define_in_table returns -1 when no symbol is retained, and otherwise the
\* index of a retained symbol (fusion.c:49-62).
LEMMA IndexDefini ==
  ASSUME NEW s, NEW l \in Seq(Symbole)
  PROVE  LET k == is_define_in_table(s, l)
         IN  \/ k = -1 /\ \A v \in Indices(l) : ~Retenu(s, get_symbol(l, v))
             \/ k \in Indices(l) /\ Retenu(s, get_symbol(l, k))
<1> DEFINE R == {v \in Indices(l) : Retenu(s, get_symbol(l, v))}
           k == is_define_in_table(s, l)
<1>1. R \subseteq Nat
  BY DEF Indices, taille
<1>2. CASE R = {}
  <2>1. k = -1
    BY <1>2 DEF is_define_in_table
  <2> QED
    BY <1>2, <2>1
<1>3. CASE R # {}
  <2>1. k = CHOOSE v \in R : \A j \in R : v <= j
    BY <1>3 DEF is_define_in_table
  <2>2. k \in R
    BY <1>1, <1>3, <2>1, Minimum
  <2> QED
    BY <2>2
<1> QED
  BY <1>2, <1>3

LEMMA SymboleDeTable ==
  ASSUME NEW l \in Seq(Symbole), NEW v \in Indices(l)
  PROVE  get_symbol(l, v) \in Symbole
BY ElementOfSeq DEF get_symbol, Indices, taille

-----------------------------------------------------------------------------
(* The type invariant.                                                     *)

\* What adding an entry does to the two tables.
LEMMA AjouterType ==
  ASSUME TypeOKSymb, NEW s \in Symbole, NEW src \in {1, 2}, ajouter(s, src)
  PROVE  /\ Entree(s, src) \in Final
         /\ final_list_symb' \in Seq(Final)
         /\ final_stringtable' \in TableString
<1>1. Entree(s, src) \in Final
  BY DEF TypeOKSymb, Entree, Final, TableString, Symbole
<1>2. final_list_symb' \in Seq(Final)
  BY <1>1, AppendProperties DEF TypeOKSymb, ajouter
<1>3. final_stringtable' \in TableString
  BY WriteTableType DEF TypeOKSymb, ajouter, Symbole
<1> QED
  BY <1>1, <1>2, <1>3

LEMMA TypeInit == InitSymb => TypeOKSymb
BY InitTableType DEF InitSymb, DebutConcat, TypeOKSymb

LEMMA TypeNext == TypeOKSymb /\ [NextSymb]_varsSymb => TypeOKSymb'
<1> SUFFICES ASSUME TypeOKSymb, [NextSymb]_varsSymb
             PROVE  TypeOKSymb'
  OBVIOUS
<1> USE DEF TypeOKSymb
<1>1. ASSUME Boucle1 PROVE Symbole1 \in Symbole
  BY <1>1, SymboleDeTable DEF Boucle1, Symbole1, Indices, taille
<1>2. ASSUME Boucle2 PROVE Symbole2 \in Symbole /\ rang \in Indices(list_symb2)
  BY <1>2, SymboleDeTable DEF Boucle2, Symbole2, Indices, taille
<1>3. CASE NouvelleEntree
  BY <1>1, <1>3, AjouterType DEF NouvelleEntree, Suivant
<1>4. CASE EntreeMarquee
  <2>1. /\ final_list_symb' \in Seq(Final) /\ final_stringtable' \in TableString
    BY <1>1, <1>4, AjouterType DEF EntreeMarquee
  <2>2. traiter' \in [Indices(list_symb2') -> {0, 1}]
    BY <1>4 DEF EntreeMarquee, Marque, Suivant
  <2> QED
    BY <1>4, <2>1, <2>2 DEF EntreeMarquee, Suivant
<1>5. CASE ErreurFusion
  BY <1>5 DEF ErreurFusion
<1>6. CASE PasserTable2
  BY <1>6 DEF PasserTable2
<1>7. CASE AjouterSymbole2
  BY <1>2, <1>7, AjouterType DEF AjouterSymbole2, Suivant
<1>8. CASE SauterSymbole2
  BY <1>8 DEF SauterSymbole2, Suivant
<1>9. CASE FinConcat
  BY <1>9 DEF FinConcat
<1>10. CASE DebordementFatal
  BY <1>10 DEF DebordementFatal
<1>11. CASE UNCHANGED varsSymb
  BY <1>11 DEF varsSymb
<1> QED
  BY <1>3, <1>4, <1>5, <1>6, <1>7, <1>8, <1>9, <1>10, <1>11 DEF NextSymb

\* Every run of concat_table_symb keeps its variables typed, and in particular
\* writes traiter only at the index of a symbol of source 2.
THEOREM TypageSymboles == SpecSymb => []TypeOKSymb
BY TypeInit, TypeNext, PTL DEF SpecSymb

-----------------------------------------------------------------------------
(* The safety invariants.                                                  *)

\* The entries and the indices present after an addition.
LEMMA AjouterEntrees ==
  ASSUME TypeOKSymb, NEW s \in Symbole, NEW src \in {1, 2}, ajouter(s, src)
  PROVE  /\ Entrees' = Entrees \cup {Entree(s, src)}
         /\ Presents(src)' = Presents(src) \cup {rang}
         /\ \A x \in {1, 2} \ {src} : Presents(x)' = Presents(x)
         /\ Len(final_list_symb') = Len(final_list_symb) + 1
         /\ \A p \in DOMAIN final_list_symb :
              final_list_symb'[p] = final_list_symb[p]
         /\ final_list_symb'[Len(final_list_symb) + 1] = Entree(s, src)
<1> DEFINE e == Entree(s, src)
           l == final_list_symb
<1>1. e \in Final /\ l \in Seq(Final) /\ l' = Append(l, e)
  BY AjouterType DEF TypeOKSymb, ajouter
<1>2. /\ Len(l') = Len(l) + 1
      /\ DOMAIN l = 1 .. Len(l)
      /\ DOMAIN l' = 1 .. Len(l) + 1
      /\ \A p \in DOMAIN l : l'[p] = l[p]
      /\ l'[Len(l) + 1] = e
  BY <1>1, AppendProperties, LenProperties
<1>3. Len(l) \in Nat
  BY <1>1, LenProperties
<1>4. \A p \in DOMAIN l' : p \in DOMAIN l \/ p = Len(l) + 1
  BY <1>2, <1>3
<1>5. Entrees' = Entrees \cup {e}
  <2>1. Entrees' = {l'[p] : p \in DOMAIN l'}
    BY DEF Entrees
  <2>2. DOMAIN l' = DOMAIN l \cup {Len(l) + 1}
    BY <1>2, <1>3
  <2> QED
    BY <1>2, <2>1, <2>2 DEF Entrees
<1>6. e.src = src /\ e.idx = rang
  BY DEF Entree
<1>7. Presents(src)' = Presents(src) \cup {rang}
  BY <1>5, <1>6 DEF Presents
<1>8. \A x \in {1, 2} \ {src} : Presents(x)' = Presents(x)
  BY <1>5, <1>6 DEF Presents
<1> HIDE DEF e
<1> QED
  BY <1>2, <1>5, <1>7, <1>8 DEF e

\* An addition keeps the provenance, the names and the order, provided that
\* the new symbol comes from where it says and after the others.
LEMMA AjouterSur ==
  ASSUME InvSymb, NEW s \in Symbole, NEW src \in {1, 2}, ajouter(s, src),
         UNCHANGED <<list_symb1, list_symb2>>,
         src = 1 => s = Symbole1 /\ rang \in Indices(list_symb1) \ {0},
         src = 2 => s = Symbole2 /\ rang \in Indices(list_symb2),
         \A d \in Entrees : Precede(d, Entree(s, src))
  PROVE  /\ Provenance' /\ NomsFinals' /\ NomsEmpiles' /\ OrdreDesSources'
         /\ \A d \in Entrees : Source(d)' = Source(d)
<1> DEFINE e == Entree(s, src)
           l == final_list_symb
<1>1. TypeOKSymb /\ Entrees' = Entrees \cup {e}
  BY AjouterEntrees DEF InvSymb
<1>2. e.src = src /\ e.idx = rang /\ e.st_name = final_stringtable.val
  BY DEF Entree
<1>3. Provenance'
  BY <1>1, <1>2 DEF Provenance, InvSymb
<1>4. \A d : Source(d)' = Source(d)
  BY DEF Source
<1>5. Source(e) = s
  BY <1>2 DEF Source, Symbole1, Symbole2
<1>6. NomsFinals'
  <2>1. /\ final_stringtable \in TableString
        /\ final_stringtable' \in Ecritures(final_stringtable, s.nom)
        /\ s.nom \in Noms
    BY DEF InvSymb, TypeOKSymb, ajouter, Symbole
  <2>2. /\ DansLaTable(final_stringtable', e.st_name, s.nom)
             => Designe(final_stringtable', e.st_name, s.nom)
        /\ \A at, m : Designe(final_stringtable, at, m)
                        => Designe(final_stringtable', at, m)
        /\ \A at, m : DansLaTable(final_stringtable', at, m)
                        <=> DansLaTable(final_stringtable, at, m)
    BY <1>2, <2>1, WriteTableDesigne
  <2>3. \A d \in Entrees : DansLaTable(final_stringtable, d.st_name, Source(d).nom)
          => Designe(final_stringtable, d.st_name, Source(d).nom)
    BY DEF InvSymb, NomsFinals
  <2>4. \A d \in Entrees' : DansLaTable(final_stringtable', d.st_name, Source(d).nom)
          => Designe(final_stringtable', d.st_name, Source(d).nom)
    BY <1>1, <1>5, <2>2, <2>3
  <2> QED
    BY <1>4, <2>4 DEF NomsFinals
<1>7. NomsEmpiles'
  BY WriteTableEmpilee DEF NomsEmpiles, InvSymb, TypeOKSymb, ajouter, Symbole
<1>8. OrdreDesSources'
  <2> SUFFICES ASSUME NEW p \in DOMAIN l', NEW q \in DOMAIN l', p < q
               PROVE  Precede(l'[p], l'[q])
    BY DEF OrdreDesSources, Precede
  <2>1. /\ DOMAIN l = 1 .. Len(l) /\ DOMAIN l' = 1 .. Len(l) + 1 /\ Len(l) \in Nat
        /\ \A r \in DOMAIN l : l'[r] = l[r]
        /\ l'[Len(l) + 1] = e
    BY <1>1, AjouterEntrees, AjouterType, LenProperties DEF InvSymb, TypeOKSymb
  <2>2. p \in DOMAIN l /\ (q \in DOMAIN l \/ q = Len(l) + 1)
    BY <2>1
  <2>3. CASE q \in DOMAIN l
    BY <2>1, <2>2, <2>3 DEF InvSymb, OrdreDesSources
  <2>4. CASE q = Len(l) + 1
    <3>1. l[p] \in Entrees
      BY <2>2 DEF Entrees
    <3> QED
      BY <2>1, <2>2, <2>4, <3>1
  <2> QED
    BY <2>2, <2>3, <2>4
<1> QED
  BY <1>3, <1>4, <1>6, <1>7, <1>8

LEMMA InvInit == InitSymb => InvSymb
<1> SUFFICES ASSUME InitSymb PROVE InvSymb
  OBVIOUS
<1>1. PICK l1 \in Seq(Symbole), l2 \in Seq(Symbole), cap \in Nat :
         DebutConcat(l1, l2, cap)
  BY DEF InitSymb
<1>2. Entrees = {} /\ Presents(1) = {} /\ Presents(2) = {}
  BY <1>1 DEF DebutConcat, Entrees, Presents
<1>3. NomsEmpiles
  BY <1>1, InitTableType DEF DebutConcat, NomsEmpiles
<1>4. MarqueJustifiee
  BY <1>1 DEF DebutConcat, MarqueJustifiee
<1>5. OrdreDesSources
  BY <1>1 DEF DebutConcat, OrdreDesSources
<1>6. Avancement
  BY <1>1, <1>2 DEF DebutConcat, Avancement
<1>7. RienOublie /\ ErreurPartielle
  BY <1>1 DEF DebutConcat, RienOublie, ErreurPartielle
<1> QED
  BY <1>2, <1>3, <1>4, <1>5, <1>6, <1>7, TypeInit
     DEF InvSymb, Provenance, NomsFinals

\* The two branches of the first loop that add the symbol of source 1.
LEMMA InvAjout1 ==
  ASSUME InvSymb, NouvelleEntree \/ EntreeMarquee
  PROVE  InvSymb'
<1>1. /\ TypeOKSymb /\ Boucle1 /\ Suivant /\ ajouter(Symbole1, 1)
      /\ boucle = "symb1" /\ boucle' = "symb1" /\ rang' = rang + 1
      /\ rang \in Nat /\ rang < taille(list_symb1)
      /\ UNCHANGED <<list_symb1, list_symb2>>
  BY DEF NouvelleEntree, EntreeMarquee, InvSymb, TypeOKSymb, Boucle1, Suivant
<1>2. rang >= 1 /\ Presents(1) = 1 .. rang - 1 /\ Presents(2) = {}
  BY <1>1 DEF InvSymb, Avancement
<1>3. taille(list_symb1) \in Nat
  BY LenProperties DEF InvSymb, TypeOKSymb, taille
<1>4. rang \in Indices(list_symb1) \ {0}
  BY <1>1, <1>2, <1>3 DEF Indices
<1>5. Symbole1 \in Symbole
  BY <1>4, SymboleDeTable DEF InvSymb, TypeOKSymb, Symbole1
<1>6. \A d \in Entrees : Precede(d, Entree(Symbole1, 1))
  <2> SUFFICES ASSUME NEW d \in Entrees PROVE d.src = 1 /\ d.idx < rang
    BY DEF Precede, Entree
  <2>1. d.src = 1 \/ d.src = 2
    BY DEF InvSymb, Provenance
  <2>2. d.src # 2
    BY <1>2 DEF Presents
  <2>3. d.idx \in 1 .. rang - 1
    BY <1>2, <2>1, <2>2 DEF Presents
  <2> QED
    BY <1>1, <2>1, <2>2, <2>3
<1>7. /\ Provenance' /\ NomsFinals' /\ NomsEmpiles' /\ OrdreDesSources'
      /\ \A d \in Entrees : Source(d)' = Source(d)
  BY <1>1, <1>4, <1>5, <1>6, AjouterSur
<1>8. /\ Entrees' = Entrees \cup {Entree(Symbole1, 1)}
      /\ Presents(1)' = Presents(1) \cup {rang} /\ Presents(2)' = Presents(2)
  BY <1>1, <1>5, AjouterEntrees
<1>9. TypeOKSymb'
  BY <1>1, TypeNext DEF NextSymb
<1>10. Avancement'
  <2>1. rang' \in 2 .. taille(list_symb1)' /\ rang' - 1 = rang
    BY <1>1, <1>2, <1>3 DEF taille
  <2>2. 1 .. rang = (1 .. rang - 1) \cup {rang}
    BY <1>1, <1>2
  <2>3. Presents(1)' = 1 .. rang' - 1
    BY <1>2, <1>8, <2>1, <2>2
  <2> QED
    BY <1>1, <1>2, <1>8, <2>1, <2>3 DEF Avancement
<1>11. MarqueJustifiee'
  <2>0. PICK e : e = Entree(Symbole1, 1)
    OBVIOUS
  <2>1. e.src = 1 /\ Source(e) = Symbole1 /\ Source(e)' = Source(e)
    BY <1>1, <2>0 DEF Entree, Source, Symbole1
  <2>2. ASSUME NEW k \in DOMAIN traiter, traiter[k] = 1
        PROVE  /\ k # 0
               /\ \E d \in Entrees' :
                    d.src = 1 /\ is_define_in_table(Source(d)', list_symb2') = k
    BY <1>1, <1>7, <1>8, <2>2 DEF InvSymb, MarqueJustifiee
  <2>3. CASE NouvelleEntree
    BY <2>2, <2>3 DEF NouvelleEntree, MarqueJustifiee
  <2>4. CASE EntreeMarquee
    <3>1. e \in Entrees' /\ is_define_in_table(Source(e)', list_symb2') = indexTab2
      BY <1>1, <1>8, <2>0, <2>1 DEF indexTab2
    <3>2. indexTab2 # 0
      BY <2>4 DEF EntreeMarquee
    <3>3. ASSUME NEW k \in DOMAIN traiter', traiter'[k] = 1
          PROVE  k \in DOMAIN traiter /\ (traiter[k] = 1 \/ k = indexTab2)
      BY <2>4, <3>3 DEF EntreeMarquee, Marque, InvSymb, TypeOKSymb
    <3> QED
      BY <2>1, <2>2, <3>1, <3>2, <3>3 DEF MarqueJustifiee
  <2> QED
    BY <2>3, <2>4
<1>12. RienOublie' /\ ErreurPartielle'
  BY <1>1 DEF RienOublie, ErreurPartielle
<1> QED
  BY <1>7, <1>9, <1>10, <1>11, <1>12 DEF InvSymb

\* The branch of the second loop that adds the symbol of source 2.
LEMMA InvAjout2 ==
  ASSUME InvSymb, AjouterSymbole2
  PROVE  InvSymb'
<1>1. /\ TypeOKSymb /\ ajouter(Symbole2, 2)
      /\ boucle = "symb2" /\ boucle' = "symb2" /\ rang' = rang + 1
      /\ rang \in Nat /\ rang < taille(list_symb2) /\ traiter[rang] = 0
      /\ UNCHANGED <<list_symb1, list_symb2, traiter>>
  BY DEF AjouterSymbole2, InvSymb, TypeOKSymb, Boucle2, Suivant
<1>2. /\ Presents(1) = Indices(list_symb1) \ {0}
      /\ Presents(2) = {k \in 0 .. rang - 1 : traiter[k] = 0}
  BY <1>1 DEF InvSymb, Avancement
<1>3. taille(list_symb2) \in Nat
  BY LenProperties DEF InvSymb, TypeOKSymb, taille
<1>4. rang \in Indices(list_symb2)
  BY <1>1, <1>3 DEF Indices
<1>5. Symbole2 \in Symbole
  BY <1>4, SymboleDeTable DEF InvSymb, TypeOKSymb, Symbole2
<1>6. \A d \in Entrees : Precede(d, Entree(Symbole2, 2))
  <2> SUFFICES ASSUME NEW d \in Entrees
               PROVE  d.src = 1 \/ (d.src = 2 /\ d.idx < rang)
    BY DEF Precede, Entree
  <2>1. CASE d.src = 2
    <3>1. d.idx \in Presents(2)
      BY <2>1 DEF Presents
    <3> QED
      BY <1>1, <1>2, <2>1, <3>1
  <2>2. d.src \in {1, 2}
    BY DEF InvSymb, Provenance
  <2> QED
    BY <2>1, <2>2
<1>7. /\ Provenance' /\ NomsFinals' /\ NomsEmpiles' /\ OrdreDesSources'
      /\ \A d \in Entrees : Source(d)' = Source(d)
  BY <1>1, <1>4, <1>5, <1>6, AjouterSur
<1>8. /\ Entrees' = Entrees \cup {Entree(Symbole2, 2)}
      /\ Presents(2)' = Presents(2) \cup {rang} /\ Presents(1)' = Presents(1)
  BY <1>1, <1>5, AjouterEntrees
<1>9. TypeOKSymb'
  BY <1>1, TypeNext DEF NextSymb
<1>10. Avancement'
  <2>1. \A k : k \in 0 .. rang <=> k \in 0 .. rang - 1 \/ k = rang
    BY <1>1
  <2>2. {k \in 0 .. rang : traiter[k] = 0} = Presents(2) \cup {rang}
    BY <1>1, <1>2, <2>1
  <2>3. rang' - 1 = rang
    BY <1>1
  <2>4. Presents(2)' = {k \in 0 .. rang' - 1 : traiter'[k] = 0}
    BY <1>1, <1>8, <2>2, <2>3
  <2>5. rang' <= taille(list_symb2)'
    BY <1>1, <1>3 DEF taille
  <2>6. Presents(1)' = Indices(list_symb1') \ {0}
    BY <1>1, <1>2, <1>8
  <2> QED
    BY <1>1, <2>4, <2>5, <2>6 DEF Avancement
<1>11. MarqueJustifiee'
  <2>1. \A d \in Entrees : d \in Entrees' /\ Source(d)' = Source(d)
    BY <1>7, <1>8
  <2> QED
    BY <1>1, <2>1 DEF InvSymb, MarqueJustifiee
<1>12. RienOublie' /\ ErreurPartielle'
  BY <1>1 DEF RienOublie, ErreurPartielle
<1> QED
  BY <1>7, <1>9, <1>10, <1>11, <1>12 DEF InvSymb

\* The steps that add nothing leave the entries, the names and the marks alone.
LEMMA InvSansAjout ==
  ASSUME InvSymb,
         UNCHANGED <<list_symb1, list_symb2, final_list_symb,
                     final_stringtable, traiter>>
  PROVE  /\ Provenance' /\ NomsFinals' /\ NomsEmpiles' /\ OrdreDesSources'
         /\ MarqueJustifiee'
         /\ Presents(1)' = Presents(1) /\ Presents(2)' = Presents(2)
<1>1. Entrees' = Entrees /\ \A d : Source(d)' = Source(d)
  BY DEF Entrees, Source
<1>2. Provenance' /\ NomsFinals'
  BY <1>1 DEF InvSymb, Provenance, NomsFinals
<1>3. NomsEmpiles' /\ OrdreDesSources'
  BY DEF InvSymb, NomsEmpiles, OrdreDesSources
<1>4. MarqueJustifiee'
  BY <1>1 DEF InvSymb, MarqueJustifiee
<1>5. Presents(1)' = Presents(1) /\ Presents(2)' = Presents(2)
  BY <1>1 DEF Presents
<1> QED
  BY <1>2, <1>3, <1>4, <1>5

LEMMA InvNext == InvSymb /\ [NextSymb]_varsSymb => InvSymb'
<1> SUFFICES ASSUME InvSymb, [NextSymb]_varsSymb
             PROVE  InvSymb'
  OBVIOUS
<1>1. TypeOKSymb /\ TypeOKSymb'
  BY TypeNext DEF InvSymb
<1>2. /\ rang \in Nat
      /\ taille(list_symb1) \in Nat /\ taille(list_symb2) \in Nat
  BY <1>1, LenProperties DEF TypeOKSymb, taille
<1>3. CASE NouvelleEntree \/ EntreeMarquee
  BY <1>3, InvAjout1
<1>4. CASE AjouterSymbole2
  BY <1>4, InvAjout2
<1>5. CASE ErreurFusion
  <2>1. Avancement' /\ RienOublie' /\ ErreurPartielle'
    BY <1>5, InvSansAjout
       DEF ErreurFusion, Boucle1, InvSymb, Avancement, RienOublie, ErreurPartielle
  <2> QED
    BY <1>1, <1>5, <2>1, InvSansAjout DEF ErreurFusion, InvSymb
<1>6. CASE PasserTable2
  <2>1. Presents(1) = Indices(list_symb1) \ {0} /\ Presents(2) = {}
    BY <1>2, <1>6 DEF PasserTable2, InvSymb, Avancement, Indices
  <2>2. Avancement'
    BY <1>2, <1>6, <2>1, InvSansAjout DEF PasserTable2, Avancement, taille
  <2>3. RienOublie' /\ ErreurPartielle'
    BY <1>6 DEF PasserTable2, RienOublie, ErreurPartielle
  <2> QED
    BY <1>1, <1>6, <2>2, <2>3, InvSansAjout DEF PasserTable2, InvSymb
<1>7. CASE SauterSymbole2
  <2>1. /\ boucle = "symb2" /\ boucle' = "symb2" /\ rang' = rang + 1
        /\ rang < taille(list_symb2) /\ traiter[rang] = 1
        /\ UNCHANGED <<list_symb1, list_symb2, traiter>>
    BY <1>7 DEF SauterSymbole2, Boucle2, Suivant
  <2>2. Avancement'
    <3>1. {k \in 0 .. rang - 1 : traiter[k] = 0} = {k \in 0 .. rang : traiter[k] = 0}
      BY <1>2, <2>1
    <3>2. rang' - 1 = rang /\ rang' <= taille(list_symb2)'
      BY <1>2, <2>1 DEF taille
    <3> QED
      BY <1>7, <2>1, <3>1, <3>2, InvSansAjout DEF SauterSymbole2, InvSymb, Avancement
  <2>3. RienOublie' /\ ErreurPartielle'
    BY <2>1 DEF RienOublie, ErreurPartielle
  <2> QED
    BY <1>1, <1>7, <2>1, <2>2, <2>3, InvSansAjout DEF SauterSymbole2, InvSymb
<1>8. CASE FinConcat
  <2>1. 0 .. rang - 1 = Indices(list_symb2)
    BY <1>2, <1>8 DEF FinConcat, InvSymb, Avancement, Indices
  <2>2. RienOublie'
    BY <1>8, <2>1, InvSansAjout DEF FinConcat, InvSymb, Avancement, RienOublie
  <2>3. Avancement' /\ ErreurPartielle'
    BY <1>8 DEF FinConcat, Avancement, ErreurPartielle
  <2> QED
    BY <1>1, <1>8, <2>2, <2>3, InvSansAjout DEF FinConcat, InvSymb
<1>9. CASE DebordementFatal
  <2>1. Avancement' /\ RienOublie' /\ ErreurPartielle'
    BY <1>9 DEF DebordementFatal, Avancement, RienOublie, ErreurPartielle
  <2> QED
    BY <1>1, <1>9, <2>1, InvSansAjout DEF DebordementFatal, InvSymb
<1>10. CASE UNCHANGED varsSymb
  <2>1. Avancement' /\ RienOublie' /\ ErreurPartielle'
    BY <1>10, InvSansAjout
       DEF varsSymb, InvSymb, Avancement, RienOublie, ErreurPartielle
  <2> QED
    BY <1>1, <1>10, <2>1, InvSansAjout DEF varsSymb, InvSymb
<1> QED
  BY <1>3, <1>4, <1>5, <1>6, <1>7, <1>8, <1>9, <1>10 DEF NextSymb

THEOREM InvariantSymboles == SpecSymb => []InvSymb
BY InvInit, InvNext, PTL DEF SpecSymb

\* Every merged symbol keeps its name.
THEOREM NomsConserves == SpecSymb => []NomsFinals
<1>1. InvSymb => NomsFinals
  BY DEF InvSymb
<1> QED
  BY <1>1, InvariantSymboles, PTL

\* No name of the merged table is overwritten by a later one.
THEOREM NomsNonRecouverts == SpecSymb => []NomsEmpiles
<1>1. InvSymb => NomsEmpiles
  BY DEF InvSymb
<1> QED
  BY <1>1, InvariantSymboles, PTL

\* The merged list is in the order of the sources, without repetition.
THEOREM OrdreConserve == SpecSymb => []OrdreDesSources
<1>1. InvSymb => OrdreDesSources
  BY DEF InvSymb
<1> QED
  BY <1>1, InvariantSymboles, PTL

\* A symbol of source 2 is left out only on account of a symbol of source 1.
THEOREM MarquesJustifiees == SpecSymb => []MarqueJustifiee
<1>1. InvSymb => MarqueJustifiee
  BY DEF InvSymb
<1> QED
  BY <1>1, InvariantSymboles, PTL

\* The merged list is complete when the call ends normally.
THEOREM FusionComplete == SpecSymb => []RienOublie
<1>1. InvSymb => RienOublie
  BY DEF InvSymb
<1> QED
  BY <1>1, InvariantSymboles, PTL

\* A call given up on an error leaves exactly the symbols before the error.
THEOREM ArretPartiel == SpecSymb => []ErreurPartielle
<1>1. InvSymb => ErreurPartielle
  BY DEF InvSymb
<1> QED
  BY <1>1, InvariantSymboles, PTL


-----------------------------------------------------------------------------
(* The searches in a section table.                                        *)

LEMMA Bornes ==
  ASSUME NEW f \in Fichier
  PROVE  /\ f.sect \in Seq(Section) /\ f.symb \in Seq(Symbole)
         /\ e_shnum(f) \in Nat /\ f.strndx \in Sections(f) /\ 0 \in Sections(f)
         /\ Sections(f) \subseteq 0 .. e_shnum(f)
         /\ \A v \in Sections(f) : v \in Nat /\ sect_head(f, v) \in Section
<1>1. f.sect \in Seq(Section) /\ f.symb \in Seq(Symbole) /\ f.strndx \in Nat
      /\ f.strndx < Len(f.sect)
  BY DEF Fichier
<1>2. Len(f.sect) \in Nat
  BY <1>1, LenProperties
<1>3. \A v \in Sections(f) : sect_head(f, v) \in Section
  BY <1>1, <1>2, ElementOfSeq DEF Sections, sect_head, e_shnum
<1> QED
  BY <1>1, <1>2, <1>3 DEF Sections, e_shnum

\* search_same_name returns -1 or the index of a section with that name; it
\* cannot miss the section the name was taken from (fusion.c:16-47).
LEMMA IndiceTrouve ==
  ASSUME NEW f \in Fichier, NEW nom
  PROVE  \/ search_same_name(nom, f) = -1 /\ AvecNom(f, nom) = {}
         \/ /\ search_same_name(nom, f) \in Sections(f)
            /\ sect_head(f, search_same_name(nom, f)).nom = nom
<1>1. AvecNom(f, nom) \subseteq Nat
  BY Bornes DEF AvecNom
<1>2. CASE AvecNom(f, nom) = {}
  BY <1>2 DEF search_same_name
<1>3. CASE AvecNom(f, nom) # {}
  <2>1. Premier(AvecNom(f, nom)) \in AvecNom(f, nom)
    BY <1>1, <1>3, Minimum DEF Premier
  <2> QED
    BY <1>3, <2>1 DEF search_same_name, AvecNom
<1> QED
  BY <1>2, <1>3

LEMMA DernierTrouve ==
  ASSUME NEW f \in Fichier, NEW S, S \subseteq Sections(f), S # {}
  PROVE  Dernier(S) \in S
BY Bornes, Maximum DEF Dernier

LEMMA StrtabTrouvee ==
  ASSUME NEW f \in Fichier
  PROVE  IndiceStrtab(f) \in Sections(f) /\ TailleStrtab(f) \in Nat
<1>1. AvecNom(f, ".strtab") \subseteq Sections(f)
  BY DEF AvecNom
<1>2. IndiceStrtab(f) \in Sections(f)
  BY <1>1, Bornes, DernierTrouve DEF IndiceStrtab
<1>3. TailleStrtab(f) \in Nat
  BY <1>2, Bornes DEF TailleStrtab, Section
<1> QED
  BY <1>2, <1>3

LEMMA NomsSymtabType ==
  ASSUME source1 \in Fichier
  PROVE  NomsSymtab \subseteq Noms
<1> DEFINE S == AvecType(source1, SHT_SYMTAB)
<1>1. S \subseteq Sections(source1)
  BY DEF AvecType
<1>2. S # {} => Dernier(S) \in Sections(source1)
  BY <1>1, DernierTrouve
<1>3. S # {} => sect_head(source1, Dernier(S)).nom \in Noms
  BY <1>2, Bornes DEF Section
<1> QED
  BY <1>3 DEF NomsSymtab

-----------------------------------------------------------------------------
(* The type invariant.                                                     *)

Segments == [src : {1, 2}, pos : Nat, len : Nat]

LEMMA ApposerType ==
  ASSUME TypeOK, NEW at \in Nat, NEW len \in Nat, NEW quoi \in Quoi,
         NEW contenu \in Seq(Segments)
  PROVE  Apposer(at, len, quoi, contenu) \in Seq(Partie)
<1>1. [at |-> at, len |-> len, quoi |-> quoi, contenu |-> contenu] \in Partie
  BY DEF Partie, Segments
<1> QED
  BY <1>1, AppendProperties DEF TypeOK, Apposer

LEMMA AjouterSType ==
  ASSUME TypeOK, NEW h \in Header, NEW nom \in Noms,
         NEW contenu \in Seq(Segments), Ajouter_S(h, nom, contenu)
  PROVE  /\ liste_section' \in Seq(Header) /\ table' \in TableString
         /\ fres' \in Seq(Partie) /\ offset' \in Nat
<1>1. h.sh_offset \in Nat /\ h.sh_size \in Nat /\ h.quoi \in Quoi
  BY DEF Header
<1>2. liste_section' \in Seq(Header)
  BY AppendProperties DEF TypeOK, Ajouter_S, Inserer
<1>3. table' \in TableString
  BY WriteTableType DEF TypeOK, Ajouter_S
<1>4. fres' \in Seq(Partie)
  BY <1>1, ApposerType DEF Ajouter_S
<1>5. offset' \in Nat
  BY <1>1 DEF TypeOK, Ajouter_S, OffsetApres
<1> QED
  BY <1>2, <1>3, <1>4, <1>5

LEMMA EnteteType ==
  ASSUME TypeOK, NEW quoi \in Quoi, NEW at \in Nat, NEW size \in Nat,
         NEW src \in {1, 2}, NEW idx \in Nat, NEW avec \in Nat \cup {-1}
  PROVE  /\ Entete(quoi, at, size, src, idx, avec) \in Header
         /\ Entete(quoi, at, size, src, idx, avec).sh_offset = at
         /\ Entete(quoi, at, size, src, idx, avec).sh_size = size
         /\ Entete(quoi, at, size, src, idx, avec).quoi = quoi
BY DEF TypeOK, TableString, Entete, Header

LEMMA CompteType ==
  ASSUME TypeOK, UneSectionDePlus
  PROVE  new_header' \in [e_shnum : Nat, e_shstrndx : Nat, e_shoff : Nat]
BY DEF TypeOK, UneSectionDePlus

Suites ==
  /\ liste_section' \in Seq(Header) /\ table' \in TableString
  /\ fres' \in Seq(Partie) /\ offset' \in Nat

LEMMA PutSectType ==
  ASSUME TypeOK, NEW f \in Fichier, NEW src \in {1, 2}, NEW v \in Sections(f),
         put_sect(f, src, v)
  PROVE  Suites /\ new_header' \in [e_shnum : Nat, e_shstrndx : Nat, e_shoff : Nat]
<1> DEFINE s == sect_head(f, v)
           h == Entete("section", OffsetPose(s), s.size, src, v, -1)
           c == <<Segment(src, s.offset, s.size)>>
<1>1. /\ s \in Section /\ v \in Nat
      /\ s.nom \in Noms /\ s.size \in Nat /\ s.offset \in Nat
  BY Bornes DEF Section
<1>2. OffsetPose(s) \in Nat
  BY <1>1 DEF OffsetPose, TypeOK
<1>3. h \in Header
  BY <1>1, <1>2, EnteteType DEF Quoi
<1>4. Segment(src, s.offset, s.size) \in Segments
  BY <1>1 DEF Segment, Segments
<1>5. c \in Seq(Segments)
  BY <1>4
<1>6. Ajouter_S(h, s.nom, c)
  BY DEF put_sect
<1>7. Suites
  BY <1>1, <1>3, <1>5, <1>6, AjouterSType DEF Suites
<1>8. new_header' \in [e_shnum : Nat, e_shstrndx : Nat, e_shoff : Nat]
  BY CompteType DEF put_sect
<1> QED
  BY <1>7, <1>8

LEMMA ContSectType ==
  ASSUME TypeOK, NEW v1 \in Sections(source1), NEW v2 \in Nat,
         NEW size2 \in Nat, cont_sect(v1, v2, size2)
  PROVE  Suites /\ new_header' \in [e_shnum : Nat, e_shstrndx : Nat, e_shoff : Nat]
<1> DEFINE s == sect_head(source1, v1)
           h == Entete("section", offset, s.size + size2, 1, v1, v2)
           c == cont_sect_e(s, size2)
<1>1. /\ s \in Section /\ v1 \in Nat
      /\ s.nom \in Noms /\ s.size \in Nat /\ s.offset \in Nat
  BY Bornes DEF Section, TypeOK
<1>2. h \in Header
  <2>1. /\ offset \in Nat /\ s.size + size2 \in Nat /\ "section" \in Quoi
        /\ 1 \in {1, 2} /\ v2 \in Nat \cup {-1}
    BY <1>1 DEF Quoi, TypeOK
  <2> QED
    BY <1>1, <2>1, EnteteType
<1>3. /\ Segment(1, s.offset, s.size) \in Segments
      /\ Segment(1, s.offset + s.size, size2) \in Segments
  BY <1>1 DEF Segment, Segments
<1>4. c \in Seq(Segments)
  BY <1>3 DEF cont_sect_e
<1>5. Ajouter_S(h, s.nom, c)
  BY DEF cont_sect
<1>6. Suites
  BY <1>1, <1>2, <1>4, <1>5, AjouterSType DEF Suites
<1>7. new_header' \in [e_shnum : Nat, e_shstrndx : Nat, e_shoff : Nat]
  BY CompteType DEF cont_sect
<1> QED
  BY <1>6, <1>7

LEMMA TypageInit == Init => TypeOK
<1> SUFFICES ASSUME NEW f \in Fichier, NEW g \in Fichier, NEW p \in SUBSET {1, 2},
                    InitFus(f, g, p)
             PROVE  TypeOK
  BY DEF Init
<1>1. TypeOKSymb
  <2>1. init_table(0) \in TableString
    BY InitTableType
  <2> QED
    BY <2>1 DEF InitFus, TypeOKSymb
<1>2. init_table(0) \in TableString
  BY InitTableType
<1>3. /\ presents \subseteq {1, 2} /\ altere \in BOOLEAN /\ offset \in Nat
      /\ pc = "ouverture" /\ tab_bool = <<>> /\ table \in TableString
      /\ source1 \in Fichier /\ source2 \in Fichier /\ i \in Nat
  BY <1>2, TaillesAssumption DEF InitFus
<1>4. liste_section \in Seq(Header) /\ fres \in Seq(Partie)
  BY DEF InitFus
<1>5. new_header \in [e_shnum : Nat, e_shstrndx : Nat, e_shoff : Nat]
  BY DEF InitFus
<1> QED
  BY <1>1, <1>3, <1>4, <1>5 DEF TypeOK

\* The steps that write nothing and only move pc or i.
LEMMA TypageMarche ==
  ASSUME TypeOK, TypeOKSymb', i' \in Nat,
         UNCHANGED <<Sources, offset, tab_bool, table, liste_section,
                     new_header, fres>>,
         \/ pc' = pc
         \/ pc = "ouverture" /\ pc' = "exit"
         \/ /\ pc \notin {"ouverture", "exit"}
            /\ pc' \in {"sect2", "symboles", "symtab", "header", "avorte"}
  PROVE  TypeOK'
BY DEF TypeOK, Sources, Sections, e_shnum

LEMMA TypageTables ==
  ASSUME TypeOK, pc \in {"symtab", "strtab", "shstrtab"},
         NEW quoi \in Quoi, NEW size \in Nat, NEW idx \in Nat, NEW nom \in Noms,
         Ajouter_S(Entete(quoi, offset, size, 1, idx, -1), nom, <<>>),
         pc' \in {"strtab", "shstrtab", "entetes"},
         new_header' \in [e_shnum : Nat, e_shstrndx : Nat, e_shoff : Nat],
         UNCHANGED <<Sources, i, tab_bool, varsSymb>>
  PROVE  TypeOK'
<1>1. Entete(quoi, offset, size, 1, idx, -1) \in Header
  BY EnteteType DEF TypeOK
<1>2. Suites
  <2>1. <<>> \in Seq(Segments)
    OBVIOUS
  <2> QED
    BY <1>1, <2>1, AjouterSType DEF Suites
<1>3. TypeOKSymb'
  BY DEF TypeOK, TypeOKSymb, varsSymb
<1> QED
  BY <1>2, <1>3 DEF Suites, TypeOK, Sources, Sections, e_shnum

\* The steps of the section loops that write a section.
LEMMA TypageSections ==
  ASSUME TypeOK, pc \in {"sect1", "sect2"}, Suites, SectionSuivante,
         new_header' \in [e_shnum : Nat, e_shstrndx : Nat, e_shoff : Nat],
         tab_bool' \in [Sections(source2) -> {0, 1}]
  PROVE  TypeOK'
<1>1. TypeOKSymb'
  BY DEF TypeOK, TypeOKSymb, varsSymb, SectionSuivante
<1>2. i' \in Nat /\ pc' = pc /\ UNCHANGED Sources
  BY DEF TypeOK, SectionSuivante
<1> QED
  BY <1>1, <1>2 DEF Suites, TypeOK, Sources, Sections, e_shnum

\* A field of a header set to another value leaves a file of the same shape.
Ecrase(f, v, s, symb) == [f EXCEPT !.sect[v + 1] = s, !.symb = symb]

LEMMA EcraseType ==
  ASSUME NEW f \in Fichier, NEW v \in Sections(f), NEW s \in Section, NEW symb \in Seq(Symbole)
  PROVE  /\ Ecrase(f, v, s, symb) \in Fichier
         /\ Sections(Ecrase(f, v, s, symb)) = Sections(f)
<1> DEFINE g == Ecrase(f, v, s, symb)
<1>1. /\ f \in [sect : Seq(Section), strndx : Nat, symb : Seq(Symbole)]
      /\ f.sect \in Seq(Section) /\ f.strndx \in Nat /\ f.strndx < Len(f.sect)
  BY DEF Fichier
<1>2. Len(f.sect) \in Nat
  BY <1>1, LenProperties
<1>3. v + 1 \in 1 .. Len(f.sect)
  BY <1>2 DEF Sections, e_shnum
<1>4. PICK sect : sect = [f.sect EXCEPT ![v + 1] = s]
  OBVIOUS
<1>5. sect \in Seq(Section) /\ Len(sect) = Len(f.sect)
  BY <1>1, <1>3, <1>4, ExceptSeq
<1>6. /\ g.sect = sect /\ g.strndx = f.strndx
      /\ g \in [sect : Seq(Section), strndx : Nat, symb : Seq(Symbole)]
  BY <1>1, <1>4, <1>5 DEF Ecrase
<1> QED
  BY <1>1, <1>5, <1>6 DEF Fichier, Sections, e_shnum

LEMMA EcraserType ==
  ASSUME TypeOK, EcraserEntete
  PROVE  source2' \in Fichier /\ Sections(source2)' = Sections(source2)
<1>1. PICK v \in Sections(source2) :
        \E s \in Ecrases(sect_head(source2, v)), symb \in SymbolesApres(v) :
          source2' = [source2 EXCEPT !.sect[v + 1] = s, !.symb = symb]
  BY DEF EcraserEntete
<1>2. PICK s \in Ecrases(sect_head(source2, v)), symb \in SymbolesApres(v) :
        source2' = [source2 EXCEPT !.sect[v + 1] = s, !.symb = symb]
  BY <1>1
<1>3. source2 \in Fichier
  BY DEF TypeOK
<1>4. sect_head(source2, v) \in Section /\ source2.symb \in Seq(Symbole)
  BY <1>3, Bornes
<1>5. s \in Section
  BY <1>4 DEF Ecrases, Section
<1>6. symb \in Seq(Symbole)
  BY <1>4, TaillesAssumption DEF SymbolesApres
<1>7. source2' \in Fichier /\ Sections(source2') = Sections(source2)
  <2>1. source2' = Ecrase(source2, v, s, symb)
    BY <1>2 DEF Ecrase
  <2> QED
    BY <1>3, <1>5, <1>6, <2>1, EcraseType
<1>8. Sections(source2)' = Sections(source2')
  BY DEF Sections, e_shnum
<1> QED
  BY <1>7, <1>8

\* A section merged with one that is past the table of source 2.
LEMMA HorsTableType ==
  ASSUME TypeOK, FusionnerHorsTable \/ EcraserEntete
  PROVE  \E size \in Nat :
           /\ cont_sect(i, IndiceFusion, size) /\ IndiceFusion \in Nat
           /\ i \in Sections(source1) /\ pc = "sect1" /\ i' = i + 1
           /\ UNCHANGED <<source1, pc, tab_bool, varsSymb>>
<1>0. source1 \in Fichier /\ i \in Nat
  BY DEF TypeOK
<1>1. PICK size \in TaillesIndefinies : cont_sect(i, IndiceFusion, size)
  BY DEF FusionnerHorsTable, EcraserEntete
<1>2. /\ HorsTable /\ size \in Nat /\ i' = i + 1
      /\ UNCHANGED <<source1, pc, tab_bool, varsSymb>>
  BY TaillesAssumption DEF FusionnerHorsTable, EcraserEntete, SectionSuivante, Sources
<1>3. i \in Sections(source1) /\ pc = "sect1"
  BY <1>0, <1>2, Bornes DEF HorsTable, DansSect1, Sections
<1>4. IndiceFusion \in Nat
  BY <1>0, <1>2, IndiceTrouve, Bornes DEF HorsTable, Fusionnee, IndiceFusion
<1> QED
  BY <1>1, <1>2, <1>3, <1>4

\* A name remains to be written only where main_fus adds a section.
LEMMA AEcrire ==
  ASSUME DebordementNoms
  PROVE  /\ pc \in {"sect1", "sect2", "symtab", "strtab", "shstrtab"}
         /\ pc' = "avorte"
         /\ UNCHANGED <<Sources, i, offset, tab_bool, table, liste_section,
                        new_header, fres, varsSymb>>
<1>1. NomsAEcrire # {}
  BY DEF DebordementNoms
<1>2. pc \in {"sect1", "sect2", "symtab", "strtab", "shstrtab"}
  BY <1>1 DEF NomsAEcrire, DansSect1, DansSect2
<1> QED
  BY <1>2 DEF DebordementNoms

LEMMA TypageNext == TypeOK /\ [Next]_vars => TypeOK'
<1> SUFFICES ASSUME TypeOK, [Next]_vars PROVE TypeOK'
  OBVIOUS
<1> USE DEF SectionSuivante
<1>0. /\ source1 \in Fichier /\ source2 \in Fichier /\ i \in Nat
      /\ offset \in Nat /\ TypeOKSymb
      /\ pc \notin {"ouverture", "exit"} => tab_bool \in [Sections(source2) -> {0, 1}]
  BY DEF TypeOK
<1>s. UNCHANGED varsSymb => TypeOKSymb'
  BY <1>0 DEF TypeOKSymb, varsSymb
<1>i. /\ DansSect1 => i \in Sections(source1) /\ pc = "sect1"
      /\ DansSect2 => i \in Sections(source2) /\ pc = "sect2"
  BY <1>0, Bornes DEF DansSect1, DansSect2, Sections
<1>1. CASE SourceAbsente
  BY <1>0, <1>1, <1>s, TypageMarche DEF SourceAbsente
<1>2. CASE Charger
  <2>1. table' \in TableString
    <3>1. /\ sect_head(source1, source1.strndx).size \in Nat
          /\ sect_head(source2, source2.strndx).size \in Nat
      BY <1>0, Bornes DEF Section
    <3> QED
      BY <1>2, <3>1, InitTableType DEF Charger, creat_table_string
  <2>2. new_header' \in [e_shnum : Nat, e_shstrndx : Nat, e_shoff : Nat]
    <3>1. source1.strndx \in Nat
      BY <1>0 DEF Fichier
    <3> QED
      BY <1>2, <3>1 DEF Charger, TypeOK
  <2>3. tab_bool' \in [Sections(source2) -> {0, 1}] /\ UNCHANGED Sources
    BY <1>2 DEF Charger
  <2> QED
    BY <1>2, <1>s, <2>1, <2>2, <2>3
       DEF Charger, TypeOK, Sources, Sections, e_shnum
<1>3. CASE FusionnerSection
  <2>1. /\ IndiceFusion \in Nat /\ sect_head(source2, IndiceFusion).size \in Nat
    BY <1>0, <1>3, Bornes DEF FusionnerSection, Section
  <2>2. tab_bool' \in [Sections(source2) -> {0, 1}]
    BY <1>0, <1>3, <1>i DEF FusionnerSection, Traitee
  <2>3. /\ cont_sect(i, IndiceFusion, sect_head(source2, IndiceFusion).size)
        /\ i \in Sections(source1) /\ pc = "sect1" /\ SectionSuivante
    BY <1>3, <1>i DEF FusionnerSection
  <2>4. Suites /\ new_header' \in [e_shnum : Nat, e_shstrndx : Nat, e_shoff : Nat]
    BY <2>1, <2>3, ContSectType
  <2> QED
    BY <2>2, <2>3, <2>4, TypageSections
<1>4. CASE FusionnerHorsTable \/ EcraserEntete
  <2>1. PICK size \in Nat :
          /\ cont_sect(i, IndiceFusion, size) /\ IndiceFusion \in Nat
          /\ i \in Sections(source1) /\ pc = "sect1" /\ i' = i + 1
          /\ UNCHANGED <<source1, pc, tab_bool, varsSymb>>
    BY <1>4, HorsTableType
  <2>2. Suites /\ new_header' \in [e_shnum : Nat, e_shstrndx : Nat, e_shoff : Nat]
    BY <2>1, ContSectType
  <2>3. CASE FusionnerHorsTable
    BY <1>0, <2>1, <2>2, <2>3, TypageSections DEF FusionnerHorsTable
  <2>4. CASE EcraserEntete
    <3>1. source2' \in Fichier /\ Sections(source2)' = Sections(source2)
      BY <2>4, EcraserType
    <3>2. altere' \in BOOLEAN /\ presents' = presents
      BY <2>4 DEF EcraserEntete
    <3> QED
      BY <1>0, <1>s, <2>1, <2>2, <3>1, <3>2 DEF Suites, TypeOK
  <2> QED
    BY <1>4, <2>3, <2>4
<1>5. CASE HorsTableFatal
  BY <1>0, <1>5, <1>i, <1>s, TypageMarche DEF HorsTableFatal, HorsTable
<1>6. CASE PoserSection1
  BY <1>0, <1>6, <1>i, PutSectType, TypageSections DEF PoserSection1
<1>7. CASE IgnorerSection1
  BY <1>0, <1>7, <1>s, TypageMarche DEF IgnorerSection1, Sources
<1>8. CASE FinSections1
  BY <1>8, <1>s, TypageMarche DEF FinSections1
<1>9. CASE PoserSection2
  BY <1>0, <1>9, <1>i, PutSectType, TypageSections DEF PoserSection2
<1>10. CASE IgnorerSection2
  BY <1>0, <1>10, <1>s, TypageMarche DEF IgnorerSection2, Sources
<1>11. CASE ChargerSymboles
  <2>1. /\ load_tablesymbole(source1) \in Seq(Symbole)
        /\ load_tablesymbole(source2) \in Seq(Symbole)
    BY <1>0, Bornes DEF load_tablesymbole
  <2>2. final_stringtable' \in TableString
    <3>1. TailleStrtab(source1) + TailleStrtab(source2) \in Nat
      BY <1>0, StrtabTrouvee
    <3> QED
      BY <1>11, <3>1, InitTableType DEF ChargerSymboles
  <2>3. TypeOKSymb'
    BY <1>11, <2>1, <2>2 DEF ChargerSymboles, TypeOKSymb
  <2> QED
    BY <1>0, <1>11, <2>3, TypageMarche DEF ChargerSymboles
<1>12. CASE Concatener
  <2>1. TypeOKSymb'
    BY <1>0, <1>12, TypeNext DEF Concatener
  <2> QED
    BY <1>0, <1>12, <2>1, TypageMarche DEF Concatener, varsFus, Sources
<1>13. CASE FinSymboles
  BY <1>0, <1>13, <1>s, TypageMarche DEF FinSymboles
<1>14. CASE SymtabFatale
  BY <1>0, <1>14, <1>s, TypageMarche DEF SymtabFatale
<1>15. CASE EcrireSymtab
  <2>1. PICK nom \in NomsSymtab :
           Ajouter_S(Entete("symtab", offset, TailleSym * Len(final_list_symb),
                            1, 0, -1), nom, <<>>)
    BY <1>15 DEF EcrireSymtab
  <2>2. TailleSym * Len(final_list_symb) \in Nat
    BY <1>0, TaillesAssumption, LenProperties DEF TypeOKSymb
  <2>3. nom \in Noms
    BY <1>0, NomsSymtabType
  <2>4. new_header' \in [e_shnum : Nat, e_shstrndx : Nat, e_shoff : Nat]
    BY <1>15, CompteType DEF EcrireSymtab
  <2> QED
    BY <1>15, <2>1, <2>2, <2>3, <2>4, TypageTables DEF EcrireSymtab, Quoi
<1>16. CASE EcrireStrtab
  <2> DEFINE v == IndiceStrtab(source1)
  <2>1. v \in Nat /\ sect_head(source1, v).nom \in Noms
    BY <1>0, StrtabTrouvee, Bornes DEF Section
  <2>2. final_stringtable.val \in Nat
    BY <1>0 DEF TypeOKSymb, TableString
  <2>3. Ajouter_S(Entete("strtab", offset, final_stringtable.val, 1, v, -1),
                  sect_head(source1, v).nom, <<>>)
    BY <1>16 DEF EcrireStrtab, new_string_sect
  <2>4. new_header' \in [e_shnum : Nat, e_shstrndx : Nat, e_shoff : Nat]
    <3>1. liste_section' \in Seq(Header)
      <4>1. <<>> \in Seq(Segments)
        OBVIOUS
      <4>2. Entete("strtab", offset, final_stringtable.val, 1, v, -1) \in Header
        BY <1>0, <2>1, <2>2, EnteteType DEF Quoi
      <4> QED
        BY <2>1, <2>3, <4>1, <4>2, AjouterSType
    <3>2. Len(liste_section') \in Nat
      BY <3>1, LenProperties
    <3> QED
      BY <1>16, <3>2 DEF EcrireStrtab, IndiceShstrtab, TypeOK
  <2> QED
    BY <1>16, <2>1, <2>2, <2>3, <2>4, TypageTables DEF EcrireStrtab, Quoi
<1>17. CASE EcrireShstrtab
  <2> DEFINE v == source1.strndx
             nom == sect_head(source1, v).nom
  <2>1. v \in Nat /\ nom \in Noms
    BY <1>0, Bornes DEF Section
  <2>2. Apres(table, nom) \in Nat
    BY <2>1, ApresType DEF TypeOK
  <2>3. Ajouter_S(Entete("shstrtab", offset, Apres(table, nom), 1, v, -1),
                  nom, <<>>)
    BY <1>17 DEF EcrireShstrtab, new_string_sect
  <2>4. new_header' \in [e_shnum : Nat, e_shstrndx : Nat, e_shoff : Nat]
    BY <1>17 DEF EcrireShstrtab, TypeOK
  <2> QED
    BY <1>17, <2>1, <2>2, <2>3, <2>4, TypageTables DEF EcrireShstrtab, Quoi
<1>18. CASE EcrireEntetes
  <2>1. TailleShdr * Len(liste_section) \in Nat
    BY TaillesAssumption, LenProperties DEF TypeOK
  <2>2. <<>> \in Seq(Segments)
    OBVIOUS
  <2>3. fres' \in Seq(Partie)
    BY <1>0, <1>18, <2>1, <2>2, ApposerType
       DEF EcrireEntetes, write_section_table, Quoi
  <2> QED
    BY <1>18, <1>s, <2>3 DEF EcrireEntetes, TypeOK, Sources, Sections, e_shnum
<1>19. CASE EcrireHeader
  <2>1. <<>> \in Seq(Segments)
    OBVIOUS
  <2>2. fres' \in Seq(Partie)
    BY <1>19, <2>1, TaillesAssumption, ApposerType
       DEF EcrireHeader, write_new_header, Quoi
  <2>3. new_header' \in [e_shnum : Nat, e_shstrndx : Nat, e_shoff : Nat]
    BY <1>19 DEF EcrireHeader, TypeOK
  <2> QED
    BY <1>19, <1>s, <2>2, <2>3
       DEF EcrireHeader, TypeOK, Sources, Sections, e_shnum
<1>20. CASE UNCHANGED vars
  BY <1>0, <1>20, <1>s, TypageMarche DEF vars, varsFus, Sources
<1>21. CASE DebordementNoms
  BY <1>0, <1>21, <1>s, AEcrire, TypageMarche
<1> QED
  BY <1>1, <1>2, <1>3, <1>4, <1>5, <1>6, <1>7, <1>8, <1>9, <1>10, <1>11,
     <1>12, <1>13, <1>14, <1>15, <1>16, <1>17, <1>18, <1>19, <1>20,
     <1>21 DEF Next

\* Whatever the two files hold, main_fus keeps its variables typed: no table is
\* indexed out of its bounds but by FusionnerHorsTable and
\* EcraserEntete.
THEOREM TypageFusion == Spec => []TypeOK
BY TypageInit, TypageNext, PTL DEF Spec

-----------------------------------------------------------------------------
(* The steps of main_fus by what they write.                               *)

\* A section is added: its header h, its name and its content.
Ecrit(h, nom, contenu) ==
  /\ Ajouter_S(h, nom, contenu)
  /\ h.sh_name = table.val
  /\ h.sh_size # 0 => h.sh_offset = offset
  /\ h.quoi \in {"section", "symtab", "strtab", "shstrtab"}
  /\ h.quoi = "section" =>
       /\ contenu[1].src = h.src
       /\ contenu[1].pos = sect_head(Origine(h.src), h.idx).offset
  /\ nom \in NomsAttendus(h)

UneSection ==
  /\ pc \in {"sect1", "sect2", "symtab", "strtab", "shstrtab"}
  /\ pc' = CASE pc = "symtab" -> "strtab" [] pc = "strtab" -> "shstrtab"
             [] pc = "shstrtab" -> "entetes" [] OTHER -> pc
  /\ UNCHANGED varsSymb
  /\ \E h \in Header, nom \in Noms, contenu \in Seq(Segments) : Ecrit(h, nom, contenu)

Rien == UNCHANGED <<table, liste_section, fres, offset>>

LEMMA PutSectEcrit ==
  ASSUME TypeOK, NEW src \in {1, 2}, NEW v \in Sections(Origine(src)),
         put_sect(Origine(src), src, v)
  PROVE  \E h \in Header, nom \in Noms, contenu \in Seq(Segments) : Ecrit(h, nom, contenu)
<1> DEFINE s == sect_head(Origine(src), v)
           h == Entete("section", OffsetPose(s), s.size, src, v, -1)
           c == <<Segment(src, s.offset, s.size)>>
<1>1. Origine(src) \in Fichier
  BY DEF Origine, TypeOK
<1>2. /\ s \in Section /\ v \in Nat
      /\ s.nom \in Noms /\ s.size \in Nat /\ s.offset \in Nat
  BY <1>1, Bornes DEF Section
<1>3. OffsetPose(s) \in Nat
  BY <1>2 DEF OffsetPose, TypeOK
<1>4. h \in Header
  BY <1>2, <1>3, EnteteType DEF Quoi
<1>5. /\ h.sh_name = table.val /\ h.sh_size = s.size /\ h.sh_offset = OffsetPose(s)
      /\ h.quoi = "section" /\ h.src = src /\ h.idx = v
  BY DEF Entete
<1>6. Segment(src, s.offset, s.size) \in Segments
  BY <1>2 DEF Segment, Segments
<1>7. /\ c \in Seq(Segments) /\ c[1].src = src /\ c[1].pos = s.offset
  BY <1>6 DEF Segment
<1>8. Ajouter_S(h, s.nom, c)
  BY DEF put_sect
<1>9. s.nom \in NomsAttendus(h)
  BY <1>5 DEF NomsAttendus
<1>10. h.sh_size # 0 => h.sh_offset = offset
  BY <1>5 DEF OffsetPose
<1> HIDE DEF h, c
<1>11. Ecrit(h, s.nom, c)
  BY <1>5, <1>7, <1>8, <1>9, <1>10 DEF Ecrit
<1> QED
  BY <1>2, <1>4, <1>7, <1>11

LEMMA ContSectEcrit ==
  ASSUME TypeOK, NEW v1 \in Sections(source1), NEW v2 \in Nat,
         NEW size2 \in Nat, cont_sect(v1, v2, size2)
  PROVE  \E h \in Header, nom \in Noms, contenu \in Seq(Segments) : Ecrit(h, nom, contenu)
<1> DEFINE s == sect_head(source1, v1)
           h == Entete("section", offset, s.size + size2, 1, v1, v2)
           c == cont_sect_e(s, size2)
<1>1. Origine(1) = source1
  BY DEF Origine
<1>2. /\ s \in Section /\ v1 \in Nat
      /\ s.nom \in Noms /\ s.size \in Nat /\ s.offset \in Nat
  BY Bornes DEF Section, TypeOK
<1>3. h \in Header
  <2>1. /\ offset \in Nat /\ s.size + size2 \in Nat /\ "section" \in Quoi
        /\ 1 \in {1, 2} /\ v2 \in Nat \cup {-1}
    BY <1>2 DEF Quoi, TypeOK
  <2> QED
    BY <1>2, <2>1, EnteteType
<1>4. /\ h.sh_name = table.val /\ h.sh_offset = offset
      /\ h.quoi = "section" /\ h.src = 1 /\ h.idx = v1
  BY DEF Entete
<1>5. /\ Segment(1, s.offset, s.size) \in Segments
      /\ Segment(1, s.offset + s.size, size2) \in Segments
  BY <1>2 DEF Segment, Segments
<1>6. c \in Seq(Segments) /\ c[1].src = 1 /\ c[1].pos = s.offset
  BY <1>5 DEF cont_sect_e, Segment
<1>7. Ajouter_S(h, s.nom, c)
  BY DEF cont_sect
<1>8. s.nom \in NomsAttendus(h)
  BY <1>1, <1>4 DEF NomsAttendus
<1> HIDE DEF h, c
<1>9. Ecrit(h, s.nom, c)
  BY <1>1, <1>4, <1>6, <1>7, <1>8 DEF Ecrit
<1> QED
  BY <1>2, <1>3, <1>6, <1>9

\* The headers of the recomputed tables.
LEMMA TableEcrite ==
  ASSUME TypeOK, NEW quoi \in {"symtab", "strtab", "shstrtab"}, NEW size \in Nat,
         NEW idx \in Nat, NEW nom \in Noms,
         nom \in IF quoi = "symtab" THEN NomsSymtab ELSE {sect_head(source1, idx).nom},
         Ajouter_S(Entete(quoi, offset, size, 1, idx, -1), nom, <<>>)
  PROVE  \E h \in Header, m \in Noms, contenu \in Seq(Segments) : Ecrit(h, m, contenu)
<1> DEFINE h == Entete(quoi, offset, size, 1, idx, -1)
<1>1. h \in Header
  BY EnteteType DEF TypeOK, Quoi
<1>2. /\ h.sh_name = table.val /\ h.sh_offset = offset
      /\ h.quoi = quoi /\ h.src = 1 /\ h.idx = idx
  BY DEF Entete
<1>3. nom \in NomsAttendus(h)
  BY <1>2 DEF NomsAttendus, Origine
<1>4. Ajouter_S(h, nom, <<>>)
  OBVIOUS
<1> HIDE DEF h
<1>5. Ecrit(h, nom, <<>>)
  BY <1>2, <1>3, <1>4 DEF Ecrit
<1>6. <<>> \in Seq(Segments)
  OBVIOUS
<1> QED
  BY <1>1, <1>5, <1>6

\* The actions that add a section.
Ecriture ==
  \/ FusionnerSection \/ FusionnerHorsTable \/ EcraserEntete
  \/ PoserSection1 \/ PoserSection2
  \/ EcrireSymtab \/ EcrireStrtab \/ EcrireShstrtab

\* The sources stay what they are, or a header of source 2 was overwritten.
MemesFichiers ==
  source1' = source1 /\ (UNCHANGED <<source2, altere>> \/ (EcraserEntete /\ altere'))

LEMMA EcritureUneSection ==
  ASSUME TypeOK, Ecriture
  PROVE  MemesFichiers /\ UneSection
<1> USE DEF SectionSuivante, Sources
<1>0. /\ source1 \in Fichier /\ source2 \in Fichier /\ i \in Nat /\ offset \in Nat
      /\ source1 = Origine(1) /\ source2 = Origine(2)
  BY DEF TypeOK, Origine
<1>i. /\ DansSect1 => i \in Sections(source1) /\ pc = "sect1"
      /\ DansSect2 => i \in Sections(source2) /\ pc = "sect2"
  BY <1>0, Bornes DEF DansSect1, DansSect2, Sections
<1>1. CASE FusionnerSection
  <2>1. IndiceFusion \in Nat /\ sect_head(source2, IndiceFusion).size \in Nat
    BY <1>0, <1>1, Bornes DEF FusionnerSection, Section
  <2>2. /\ cont_sect(i, IndiceFusion, sect_head(source2, IndiceFusion).size)
        /\ i \in Sections(source1) /\ pc = "sect1" /\ SectionSuivante
    BY <1>1, <1>i DEF FusionnerSection
  <2> QED
    BY <2>1, <2>2, ContSectEcrit DEF UneSection, MemesFichiers
<1>2. CASE FusionnerHorsTable \/ EcraserEntete
  <2>1. PICK size \in Nat :
          /\ cont_sect(i, IndiceFusion, size) /\ IndiceFusion \in Nat
          /\ i \in Sections(source1) /\ pc = "sect1" /\ i' = i + 1
          /\ UNCHANGED <<source1, pc, tab_bool, varsSymb>>
    BY <1>2, HorsTableType
  <2>2. MemesFichiers
    <3>1. CASE FusionnerHorsTable
      <4>1. UNCHANGED <<source1, source2, altere>>
        BY <3>1 DEF FusionnerHorsTable
      <4> QED
        BY <4>1 DEF MemesFichiers
    <3>2. CASE EcraserEntete
      <4>1. altere' /\ source1' = source1
        BY <3>2 DEF EcraserEntete
      <4> QED
        BY <3>2, <4>1 DEF MemesFichiers
    <3> QED
      BY <1>2, <3>1, <3>2
  <2> QED
    BY <2>1, <2>2, ContSectEcrit DEF UneSection
<1>3. CASE PoserSection1
  BY <1>0, <1>3, <1>i, PutSectEcrit DEF PoserSection1, UneSection, MemesFichiers
<1>4. CASE PoserSection2
  BY <1>0, <1>4, <1>i, PutSectEcrit DEF PoserSection2, UneSection, MemesFichiers
<1>5. CASE EcrireSymtab
  <2>1. PICK nom \in NomsSymtab :
           Ajouter_S(Entete("symtab", offset, TailleSym * Len(final_list_symb),
                            1, 0, -1), nom, <<>>)
    BY <1>5 DEF EcrireSymtab
  <2>2. TailleSym * Len(final_list_symb) \in Nat
    BY TaillesAssumption, LenProperties DEF TypeOK, TypeOKSymb
  <2>3. nom \in Noms
    BY <1>0, NomsSymtabType
  <2>4. \E h \in Header, m \in Noms, contenu \in Seq(Segments) : Ecrit(h, m, contenu)
    BY <2>1, <2>2, <2>3, TableEcrite
  <2> QED
    BY <1>5, <2>4 DEF EcrireSymtab, UneSection, MemesFichiers
<1>6. CASE EcrireStrtab
  <2> DEFINE v == IndiceStrtab(source1)
  <2>1. v \in Nat /\ sect_head(source1, v).nom \in Noms
    BY <1>0, StrtabTrouvee, Bornes DEF Section
  <2>2. final_stringtable.val \in Nat
    BY DEF TypeOK, TypeOKSymb, TableString
  <2>3. Ajouter_S(Entete("strtab", offset, final_stringtable.val, 1, v, -1),
                  sect_head(source1, v).nom, <<>>)
    BY <1>6 DEF EcrireStrtab, new_string_sect
  <2>4. \E h \in Header, m \in Noms, contenu \in Seq(Segments) : Ecrit(h, m, contenu)
    BY <2>1, <2>2, <2>3, TableEcrite
  <2> QED
    BY <1>6, <2>4 DEF EcrireStrtab, UneSection, MemesFichiers
<1>7. CASE EcrireShstrtab
  <2> DEFINE v == source1.strndx
             nom == sect_head(source1, v).nom
  <2>1. v \in Nat /\ nom \in Noms
    BY <1>0, Bornes DEF Section
  <2>2. Apres(table, nom) \in Nat
    BY <2>1, ApresType DEF TypeOK
  <2>3. Ajouter_S(Entete("shstrtab", offset, Apres(table, nom), 1, v, -1),
                  nom, <<>>)
    BY <1>7 DEF EcrireShstrtab, new_string_sect
  <2>4. \E h \in Header, m \in Noms, contenu \in Seq(Segments) : Ecrit(h, m, contenu)
    BY <2>1, <2>2, <2>3, TableEcrite
  <2> QED
    BY <1>7, <2>4 DEF EcrireShstrtab, UneSection, MemesFichiers
<1> QED
  BY <1>1, <1>2, <1>3, <1>4, <1>5, <1>6, <1>7 DEF Ecriture

LEMMA Classement ==
  ASSUME TypeOK, Next
  PROVE  /\ MemesFichiers
         /\ Rien \/ Charger \/ UneSection \/ EcrireEntetes \/ EcrireHeader
<1> USE DEF SectionSuivante, Sources, Rien, MemesFichiers
<1>0. CASE Ecriture
  BY <1>0, EcritureUneSection
<1>1. CASE SourceAbsente
  BY <1>1 DEF SourceAbsente
<1>2. CASE Charger
  BY <1>2 DEF Charger
<1>3. CASE HorsTableFatal
  BY <1>3 DEF HorsTableFatal
<1>4. CASE IgnorerSection1
  BY <1>4 DEF IgnorerSection1
<1>5. CASE FinSections1
  BY <1>5 DEF FinSections1
<1>6. CASE IgnorerSection2
  BY <1>6 DEF IgnorerSection2
<1>7. CASE ChargerSymboles
  BY <1>7 DEF ChargerSymboles
<1>8. CASE Concatener
  BY <1>8 DEF Concatener, varsFus
<1>9. CASE FinSymboles
  BY <1>9 DEF FinSymboles
<1>10. CASE SymtabFatale
  BY <1>10 DEF SymtabFatale
<1>11. CASE EcrireEntetes
  BY <1>11 DEF EcrireEntetes
<1>12. CASE EcrireHeader
  BY <1>12 DEF EcrireHeader
<1>13. CASE DebordementNoms
  BY <1>13, AEcrire
<1> QED
  BY <1>0, <1>1, <1>2, <1>3, <1>4, <1>5, <1>6, <1>7, <1>8, <1>9, <1>10, <1>11,
     <1>12, <1>13 DEF Next, Ecriture

\* What an addition does to the headers, the names and the file.
LEMMA EcritEffet ==
  ASSUME TypeOK, NEW h \in Header, NEW nom \in Noms,
         NEW contenu \in Seq(Segments), Ecrit(h, nom, contenu)
  PROVE  /\ liste_section' = Append(liste_section, h)
         /\ Entetes' = Entetes \cup {h}
         /\ table' \in Ecritures(table, nom)
         /\ offset' = offset + h.sh_size
         /\ h.sh_size = 0 => fres' = fres
         /\ h.sh_size # 0 =>
              fres' = Append(fres, [at |-> offset, len |-> h.sh_size,
                                    quoi |-> h.quoi, contenu |-> contenu])
<1> DEFINE l == liste_section
<1>1. l \in Seq(Header) /\ l' = Append(l, h)
  BY DEF TypeOK, Ecrit, Ajouter_S, Inserer
<1>2. /\ DOMAIN l = 1 .. Len(l) /\ Len(l) \in Nat
      /\ DOMAIN l' = 1 .. Len(l) + 1
      /\ \A p \in DOMAIN l : l'[p] = l[p]
      /\ l'[Len(l) + 1] = h
  BY <1>1, AppendProperties, LenProperties
<1>3. Entetes' = Entetes \cup {h}
  <2>1. Entetes' = {l'[p] : p \in DOMAIN l'}
    BY DEF Entetes
  <2>2. DOMAIN l' = DOMAIN l \cup {Len(l) + 1}
    BY <1>2
  <2> QED
    BY <1>2, <2>1, <2>2 DEF Entetes
<1>4. table' \in Ecritures(table, nom) /\ offset' = offset + h.sh_size
  BY DEF Ecrit, Ajouter_S, OffsetApres
<1>5. fres' = Apposer(h.sh_offset, h.sh_size, h.quoi, contenu)
  BY DEF Ecrit, Ajouter_S
<1>6. h.sh_size # 0 => h.sh_offset = offset
  BY DEF Ecrit
<1> QED
  BY <1>1, <1>3, <1>4, <1>5, <1>6 DEF Apposer

\* A part written at the end of the list of parts.
LEMMA PartieDePlus ==
  ASSUME NEW f \in Seq(Partie), NEW b \in Partie
  PROVE  LET g == Append(f, b)
         IN  /\ {g[p] : p \in DOMAIN g} = {f[p] : p \in DOMAIN f} \cup {b}
             /\ DOMAIN g = DOMAIN f \cup {Len(f) + 1}
             /\ Len(f) + 1 \notin DOMAIN f
             /\ \A p \in DOMAIN f : g[p] = f[p]
             /\ g[Len(f) + 1] = b
<1> DEFINE g == Append(f, b)
<1>1. /\ DOMAIN f = 1 .. Len(f) /\ Len(f) \in Nat
      /\ DOMAIN g = 1 .. Len(f) + 1
      /\ \A p \in DOMAIN f : g[p] = f[p]
      /\ g[Len(f) + 1] = b
  BY AppendProperties, LenProperties
<1>2. DOMAIN g = DOMAIN f \cup {Len(f) + 1}
  BY <1>1
<1>3. {g[p] : p \in DOMAIN g} = {f[p] : p \in DOMAIN f} \cup {b}
  BY <1>1, <1>2
<1> QED
  BY <1>1, <1>2, <1>3

LEMMA PartieEcrite ==
  ASSUME TypeOK, NEW h \in Header, NEW nom \in Noms,
         NEW contenu \in Seq(Segments), Ecrit(h, nom, contenu)
  PROVE  LET b == [at |-> offset, len |-> h.sh_size, quoi |-> h.quoi,
                   contenu |-> contenu]
         IN  /\ b \in Partie \/ h.sh_size = 0
             /\ Parties' = IF h.sh_size = 0 THEN Parties ELSE Parties \cup {b}
<1> DEFINE b == [at |-> offset, len |-> h.sh_size, quoi |-> h.quoi,
                 contenu |-> contenu]
<1>1. h.sh_size \in Nat /\ h.quoi \in Quoi /\ offset \in Nat /\ fres \in Seq(Partie)
  BY DEF Header, TypeOK
<1>2. b \in Partie
  BY <1>1 DEF Partie, Segments
<1>3. CASE h.sh_size = 0
  BY <1>3, EcritEffet DEF Parties
<1>4. CASE h.sh_size # 0
  <2>1. fres' = Append(fres, b)
    BY <1>4, EcritEffet
  <2> HIDE DEF b
  <2>2. {fres'[p] : p \in DOMAIN fres'} = {fres[p] : p \in DOMAIN fres} \cup {b}
    BY <1>1, <1>2, <2>1, PartieDePlus
  <2>3. Parties' = Parties \cup {b}
    BY <2>2 DEF Parties
  <2> QED
    BY <1>2, <1>4, <2>3 DEF b
<1> QED
  BY <1>2, <1>3, <1>4

-----------------------------------------------------------------------------
(* The course of main_fus.                                                 *)

LEMMA DeroulementInit == Init => Deroulement
<1> SUFFICES ASSUME NEW f \in Fichier, NEW g \in Fichier, NEW p \in SUBSET {1, 2},
                    InitFus(f, g, p)
             PROVE  Deroulement
  BY DEF Init
<1> QED
  BY DEF InitFus, Deroulement

LEMMA SymbolesEnCours ==
  ASSUME boucle # "attente", NextSymb
  PROVE  boucle' # "attente"
BY DEF NextSymb, NouvelleEntree, EntreeMarquee, ErreurFusion, PasserTable2,
       AjouterSymbole2, SauterSymbole2, FinConcat, DebordementFatal, Suivant

LEMMA DeroulementNext ==
  ASSUME Deroulement, [Next]_vars
  PROVE  Deroulement'
<1> USE DEF Deroulement, SectionSuivante, varsSymb
<1>1. CASE SourceAbsente
  BY <1>1 DEF SourceAbsente
<1>2. CASE Charger
  BY <1>2 DEF Charger
<1>3. CASE FusionnerSection \/ FusionnerHorsTable \/ EcraserEntete
  BY <1>3 DEF FusionnerSection, FusionnerHorsTable, EcraserEntete, HorsTable, DansSect1
<1>4. CASE HorsTableFatal \/ DebordementNoms
  BY <1>4, AEcrire DEF HorsTableFatal
<1>5. CASE PoserSection1 \/ IgnorerSection1
  BY <1>5 DEF PoserSection1, IgnorerSection1, DansSect1
<1>6. CASE FinSections1
  BY <1>6 DEF FinSections1
<1>7. CASE PoserSection2 \/ IgnorerSection2
  BY <1>7 DEF PoserSection2, IgnorerSection2, DansSect2
<1>8. CASE ChargerSymboles
  BY <1>8 DEF ChargerSymboles
<1>9. CASE Concatener
  BY <1>9, SymbolesEnCours DEF Concatener, varsFus
<1>10. CASE FinSymboles
  BY <1>10 DEF FinSymboles
<1>11. CASE SymtabFatale
  BY <1>11 DEF SymtabFatale
<1>12. CASE EcrireSymtab
  BY <1>12 DEF EcrireSymtab
<1>13. CASE EcrireStrtab
  BY <1>13 DEF EcrireStrtab
<1>14. CASE EcrireShstrtab
  BY <1>14 DEF EcrireShstrtab
<1>15. CASE EcrireEntetes
  BY <1>15 DEF EcrireEntetes
<1>16. CASE EcrireHeader
  BY <1>16 DEF EcrireHeader
<1>17. CASE UNCHANGED vars
  BY <1>17 DEF vars, varsFus
<1> QED
  BY <1>1, <1>2, <1>3, <1>4, <1>5, <1>6, <1>7, <1>8, <1>9, <1>10, <1>11,
     <1>12, <1>13, <1>14, <1>15, <1>16, <1>17 DEF Next

-----------------------------------------------------------------------------
(* The names of the sections.                                              *)

LEMMA MemesNoms ==
  ASSUME UNCHANGED <<source1, source2>>
  PROVE  /\ \A h : NomsAttendus(h)' = NomsAttendus(h)
         /\ \A src : Origine(src)' = Origine(src)
BY DEF NomsAttendus, NomsSymtab, Origine, AvecType, Sections, e_shnum, sect_head

\* The sh_name of a header leads to an expected name that lies in the table.
BonNom(t, h, noms) ==
  \E nom \in noms : DansLaTable(t, h.sh_name, nom) => Designe(t, h.sh_name, nom)

LEMMA NomsEquivalent ==
  NomsSections <=> /\ ~altere => \A h \in Entetes : BonNom(table, h, NomsAttendus(h))
                   /\ Empilee(table)
BY DEF NomsSections, BonNom

\* A header keeps its name as others are written.
LEMMA BonNomReste ==
  ASSUME NEW t \in TableString, NEW n \in Noms, NEW u \in Ecritures(t, n),
         NEW h, NEW noms, BonNom(t, h, noms)
  PROVE  BonNom(u, h, noms)
<1>1. PICK nom \in noms : DansLaTable(t, h.sh_name, nom) => Designe(t, h.sh_name, nom)
  BY DEF BonNom
<1>2. DansLaTable(u, h.sh_name, nom) => Designe(u, h.sh_name, nom)
  BY <1>1, WriteTableDesigne
<1> QED
  BY <1>2 DEF BonNom

LEMMA NomsNext ==
  ASSUME TypeOK, Deroulement, NomsSections, [Next]_vars
  PROVE  NomsSections'
<1>1. CASE UNCHANGED vars
  BY <1>1, MemesNoms DEF vars, varsFus, NomsSections, Entetes
<1>2. CASE Next
  <2>1. ~altere' => ~altere /\ UNCHANGED <<source1, source2>>
    BY <1>2, Classement DEF MemesFichiers
  <2>2. ~altere' => \A h : NomsAttendus(h)' = NomsAttendus(h)
    BY <2>1, MemesNoms
  <2>3. CASE UNCHANGED <<table, liste_section>>
    BY <2>1, <2>2, <2>3 DEF NomsSections, Entetes
  <2>4. CASE Charger
    <3>1. liste_section' = <<>>
      BY <2>4 DEF Charger, Deroulement
    <3>2. Entetes' = {}
      BY <3>1 DEF Entetes
    <3>3. Empilee(table')
      <4>1. /\ sect_head(source1, source1.strndx).size \in Nat
            /\ sect_head(source2, source2.strndx).size \in Nat
        BY Bornes DEF Section, TypeOK
      <4> QED
        BY <2>4, <4>1, InitTableType DEF Charger, creat_table_string
    <3> QED
      BY <3>2, <3>3 DEF NomsSections
  <2>5. CASE UneSection
    <3>1. PICK h \in Header, nom \in Noms, contenu \in Seq(Segments) :
             Ecrit(h, nom, contenu)
      BY <2>5 DEF UneSection
    <3>2. /\ Entetes' = Entetes \cup {h} /\ table' \in Ecritures(table, nom)
          /\ table \in TableString
      BY <3>1, EcritEffet DEF TypeOK
    <3>3. h.sh_name = table.val /\ nom \in NomsAttendus(h)
      BY <3>1 DEF Ecrit
    <3>4. Empilee(table')
      BY <3>2, WriteTableEmpilee DEF NomsSections
    <3>5. BonNom(table', h, NomsAttendus(h))
      BY <3>2, <3>3, WriteTableDesigne DEF BonNom
    <3>6. ~altere => \A g \in Entetes : BonNom(table', g, NomsAttendus(g))
      BY <3>2, NomsEquivalent, BonNomReste
    <3>7. ~altere' => \A g \in Entetes' : BonNom(table', g, NomsAttendus(g)')
      BY <2>1, <2>2, <3>2, <3>5, <3>6
    <3> QED
      BY <3>4, <3>7 DEF NomsSections, BonNom
  <2> QED
    BY <1>2, <2>3, <2>4, <2>5, Classement DEF Rien, EcrireEntetes, EcrireHeader
<1> QED
  BY <1>1, <1>2

\* Whatever is merged after it, the sh_name of every header of the result leads
\* to the name its section has in the source, if that name lies in the table and
\* no header of source 2 was overwritten; no name overwrites another.
THEOREM NomsFusion == Spec => []NomsSections
<1>1. Init => TypeOK /\ Deroulement /\ NomsSections
  <2>1. Init => NomsSections
    BY InitTableType DEF Init, InitFus, NomsSections, Entetes
  <2> QED
    BY <2>1, TypageInit, DeroulementInit
<1>2. TypeOK /\ Deroulement /\ NomsSections /\ [Next]_vars
        => (TypeOK /\ Deroulement /\ NomsSections)'
  BY TypageNext, DeroulementNext, NomsNext
<1> QED
  BY <1>1, <1>2, PTL DEF Spec

-----------------------------------------------------------------------------
(* The content the headers declare.                                        *)

DeclareDans(h, parties, sect) ==
  \E b \in parties :
    /\ b.at = h.sh_offset /\ b.len = h.sh_size /\ b.quoi = h.quoi
    /\ h.quoi = "section" =>
         /\ b.contenu[1].src = h.src
         /\ b.contenu[1].pos = sect.offset

Declare(h, parties) ==
  DeclareDans(h, parties, sect_head(Origine(h.src), h.idx))

LEMMA ContenuEquivalent ==
  ContenuDeclare <=>
    (~altere => \A h \in Entetes : h.sh_size # 0 => Declare(h, Parties))
BY DEF ContenuDeclare, Declare, DeclareDans

\* A header keeps its content as parts are added.
LEMMA DeclareCroit ==
  ASSUME NEW h, NEW P, NEW Q, P \subseteq Q, Declare(h, P)
  PROVE  Declare(h, Q)
BY DEF Declare, DeclareDans

LEMMA PartiesCroissent ==
  ASSUME TypeOK, Next
  PROVE  Parties \subseteq Parties'
<1>0. fres \in Seq(Partie)
  BY DEF TypeOK
<1>1. CASE UNCHANGED fres
  BY <1>1 DEF Parties
<1>2. CASE UneSection
  <2>1. PICK h \in Header, nom \in Noms, contenu \in Seq(Segments) :
           Ecrit(h, nom, contenu)
    BY <1>2 DEF UneSection
  <2> QED
    BY <2>1, PartieEcrite
<1>3. CASE EcrireEntetes \/ EcrireHeader
  <2>1. /\ offset \in Nat /\ TailleShdr * Len(liste_section) \in Nat
        /\ TailleEhdr \in Nat
    BY TaillesAssumption, LenProperties DEF TypeOK
  <2>2. PICK b : /\ b \in Partie
                 /\ fres' = fres \/ fres' = Append(fres, b)
    <3>1. /\ [at |-> offset, len |-> TailleShdr * Len(liste_section),
              quoi |-> "entetes", contenu |-> <<>>] \in Partie
          /\ [at |-> 0, len |-> TailleEhdr, quoi |-> "ehdr",
              contenu |-> <<>>] \in Partie
      BY <2>1 DEF Partie, Quoi
    <3>2. CASE EcrireEntetes
      BY <3>1, <3>2 DEF EcrireEntetes, write_section_table, Apposer
    <3>3. CASE EcrireHeader
      BY <3>1, <3>3 DEF EcrireHeader, write_new_header, Apposer
    <3> QED
      BY <1>3, <3>2, <3>3
  <2>3. CASE fres' = Append(fres, b)
    <3>1. {fres'[p] : p \in DOMAIN fres'} = {fres[p] : p \in DOMAIN fres} \cup {b}
      BY <1>0, <2>2, <2>3, PartieDePlus
    <3> QED
      BY <3>1 DEF Parties
  <2> QED
    BY <2>2, <2>3 DEF Parties
<1> QED
  BY <1>1, <1>2, <1>3, Classement DEF Rien, Charger

LEMMA ContenuNext ==
  ASSUME TypeOK, Deroulement, ContenuDeclare, [Next]_vars
  PROVE  ContenuDeclare'
<1>1. CASE UNCHANGED vars
  BY <1>1, MemesNoms
     DEF vars, varsFus, ContenuDeclare, Entetes, Parties, sect_head
<1>2. CASE Next
  <2> SUFFICES ASSUME ~altere'
               PROVE  ContenuDeclare'
    BY DEF ContenuDeclare
  <2>1. ~altere /\ UNCHANGED <<source1, source2>> /\ Parties \subseteq Parties'
    BY <1>2, Classement, PartiesCroissent DEF MemesFichiers
  <2>2. \A h \in Entetes : h.sh_size # 0 => Declare(h, Parties')
    BY <2>1, ContenuEquivalent, DeclareCroit
  <2>3. \A h \in Entetes' : h.sh_size # 0 => Declare(h, Parties')
    <3>1. CASE UNCHANGED liste_section
      BY <2>2, <3>1 DEF Entetes
    <3>2. CASE UneSection
      <4>1. PICK h \in Header, nom \in Noms, contenu \in Seq(Segments) :
               Ecrit(h, nom, contenu)
        BY <3>2 DEF UneSection
      <4> DEFINE b == [at |-> offset, len |-> h.sh_size, quoi |-> h.quoi,
                       contenu |-> contenu]
      <4>2. Entetes' = Entetes \cup {h}
        BY <4>1, EcritEffet
      <4>3. h.sh_size # 0 => b \in Parties'
        BY <4>1, PartieEcrite
      <4>4. /\ b.at = offset /\ b.len = h.sh_size /\ b.quoi = h.quoi
            /\ b.contenu = contenu
        OBVIOUS
      <4> HIDE DEF b
      <4>5. h.sh_size # 0 => Declare(h, Parties')
        BY <4>1, <4>3, <4>4 DEF Ecrit, Declare, DeclareDans
      <4> QED
        BY <2>2, <4>2, <4>5
    <3> QED
      BY <1>2, <3>1, <3>2, Classement DEF Rien, Charger, EcrireEntetes, EcrireHeader
  <2>4. \A h : Declare(h, Parties)' <=> Declare(h, Parties')
    BY <2>1, MemesNoms DEF Declare, sect_head
  <2>5. ContenuDeclare' <=>
          (~altere' => \A h \in Entetes' : h.sh_size # 0 => Declare(h, Parties)')
    BY DEF ContenuDeclare, Declare, DeclareDans
  <2> QED
    BY <2>3, <2>4, <2>5
<1> QED
  BY <1>1, <1>2

\* Every header of the result leads to the bytes written for it, which start
\* with those of the section it was copied from, unless a header of source 2 was
\* overwritten.
THEOREM ContenuFusion == Spec => []ContenuDeclare
<1>1. Init => TypeOK /\ Deroulement /\ ContenuDeclare
  <2>1. Init => ContenuDeclare
    BY DEF Init, InitFus, ContenuDeclare, Entetes
  <2> QED
    BY <2>1, TypageInit, DeroulementInit
<1>2. TypeOK /\ Deroulement /\ ContenuDeclare /\ [Next]_vars
        => (TypeOK /\ Deroulement /\ ContenuDeclare)'
  BY TypageNext, DeroulementNext, ContenuNext
<1> QED
  BY <1>1, <1>2, PTL DEF Spec
=============================================================================
