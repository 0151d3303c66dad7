--------------------------- MODULE FusionSymboles ---------------------------
(***************************************************************************)
(* concat_table_symb (fusion.c): the symbol tables of the two sources are  *)
(* concatenated into final_list_symb while their names are copied into     *)
(* final_stringtable.  One action is one iteration of one of the two       *)
(* loops.  A symbol keeps of Elf32_Sym what the code reads (its name,      *)
(* st_shndx and the type in st_info); value, size and binding are carried  *)
(* unchanged and stand as the position the symbol came from.               *)
(***************************************************************************)
EXTENDS TableString, Integers, Sequences

VARIABLES
  list_symb1, list_symb2,  \* the symbols of the two sources
  final_list_symb,         \* the merged list
  final_stringtable,       \* its string table
  traiter,                 \* traiter[k] = 1: symbol k of source 2 is skipped
  boucle,                  \* the loop being executed, or how the call ended
  rang                     \* i, the index of that loop

varsSymb == <<list_symb1, list_symb2, final_list_symb, final_stringtable,
              traiter, boucle, rang>>

STT_NOTYPE == 0
Symbole == [nom : Noms, ndx : Nat, typ : Nat]

taille(liste) == Len(liste)
get_symbol(liste, i) == liste[i + 1]
Indices(liste) == 0 .. taille(liste) - 1

\* The comparison of is_define_in_table.  strcmp(...) != 0: the names DIFFER.
Retenu(s, t) == t.nom # s.nom /\ s.ndx = t.ndx /\ t.typ = STT_NOTYPE

\* The first symbol of the table that is retained, or -1.
is_define_in_table(s, table_symb) ==
  LET R == {i \in Indices(table_symb) : Retenu(s, get_symbol(table_symb, i))}
  IN  IF R = {} THEN -1 ELSE CHOOSE i \in R : \A j \in R : i <= j

(***************************************************************************)
(* The call: l1 and l2 are the two symbol tables, cap the number of bytes  *)
(* allocated for the merged names (the sizes of the two .strtab).  The     *)
(* first loop starts after the null symbol of l1.                          *)
(***************************************************************************)
DebutConcat(l1, l2, cap) ==
  /\ list_symb1 = l1
  /\ list_symb2 = l2
  /\ final_list_symb = <<>>
  /\ final_stringtable = init_table(cap)
  /\ traiter = [k \in Indices(l2) |-> 0]
  /\ boucle = "symb1"
  /\ rang = 1

InitSymb ==
  \E l1, l2 \in Seq(Symbole), cap \in Nat : DebutConcat(l1, l2, cap)

Symbole1 == get_symbol(list_symb1, rang)
Symbole2 == get_symbol(list_symb2, rang)
indexTab2 == is_define_in_table(Symbole1, list_symb2)

\* (mutant) st_name is taken after the name was written.
EntreeApresNom(s, src) ==
  [st_name |-> Apres(final_stringtable, s.nom), ndx |-> s.ndx, typ |-> s.typ,
   src |-> src, idx |-> rang]

\* A new entry: st_name is the current end of the string table, where the
\* name is then copied; the rest of the symbol is unchanged.
Entree(s, src) ==
  [st_name |-> final_stringtable.val, ndx |-> s.ndx, typ |-> s.typ,
   src |-> src, idx |-> rang]

\* (mutant) The list grows at its head.
ajouterEnTete(s, src) ==
  /\ final_list_symb' = <<Entree(s, src)>> \o final_list_symb
  /\ final_stringtable' \in Ecritures(final_stringtable, s.nom)

ajouter(s, src) ==
  /\ final_list_symb' = Append(final_list_symb, Entree(s, src))
  /\ final_stringtable' \in Ecritures(final_stringtable, s.nom)

Suivant == rang' = rang + 1 /\ UNCHANGED <<boucle, list_symb1, list_symb2>>

Boucle1 == boucle = "symb1" /\ rang < taille(list_symb1)
Boucle2 == boucle = "symb2" /\ rang < taille(list_symb2)

\* case -1
NouvelleEntree ==
  /\ Boucle1 /\ indexTab2 = -1
  /\ ajouter(Symbole1, 1)
  /\ Suivant /\ UNCHANGED traiter

\* (mutants) The marks are counted; the mark is off by one.
MarqueCumulee(k) == [traiter EXCEPT ![k] = @ + 1]
MarqueDecalee(k) == [traiter EXCEPT ![k - 1] = 1]

Marque(k) == [traiter EXCEPT ![k] = 1]

\* default
EntreeMarquee ==
  /\ Boucle1 /\ indexTab2 > 0
  /\ ajouter(Symbole1, 1)
  /\ traiter' = Marque(indexTab2)
  /\ Suivant

\* (mutant) The entry is added before the error is seen.
ErreurApresAjout ==
  /\ Boucle1 /\ indexTab2 = 0
  /\ ajouter(Symbole1, 1)
  /\ boucle' = "erreur"
  /\ UNCHANGED <<list_symb1, list_symb2, traiter, rang>>

\* case 0: the message, and a return that tells the caller nothing.
ErreurFusion ==
  /\ Boucle1 /\ indexTab2 = 0
  /\ boucle' = "erreur"
  /\ UNCHANGED <<list_symb1, list_symb2, final_list_symb, final_stringtable,
                 traiter, rang>>

\* (mutant) The second loop starts at 1 like the first one.
PasserTable2SansNul ==
  /\ boucle = "symb1" /\ rang >= taille(list_symb1)
  /\ boucle' = "symb2" /\ rang' = 1
  /\ UNCHANGED <<list_symb1, list_symb2, final_list_symb, final_stringtable,
                 traiter>>

PasserTable2 ==
  /\ boucle = "symb1" /\ rang >= taille(list_symb1)
  /\ boucle' = "symb2" /\ rang' = 0
  /\ UNCHANGED <<list_symb1, list_symb2, final_list_symb, final_stringtable,
                 traiter>>

AjouterSymbole2 ==
  /\ Boucle2 /\ traiter[rang] = 0
  /\ ajouter(Symbole2, 2)
  /\ Suivant /\ UNCHANGED traiter

\* (mutant) A marked symbol is skipped without moving on.
SauterSansAvancer == Boucle2 /\ traiter[rang] = 1 /\ UNCHANGED varsSymb

SauterSymbole2 ==
  /\ Boucle2 /\ traiter[rang] = 1
  /\ Suivant /\ UNCHANGED <<traiter, final_list_symb, final_stringtable>>

FinConcat ==
  /\ boucle = "symb2" /\ rang >= taille(list_symb2)
  /\ boucle' = "fini"
  /\ UNCHANGED <<list_symb1, list_symb2, final_list_symb, final_stringtable,
                 traiter, rang>>

\* Writing past the allocation is undefined: the name may be kept or lost (the
\* actions above), or the process killed, or the lists next to the buffer
\* overwritten, after which nothing more is said of the run.
DebordementFatal ==
  /\ \/ Boucle1 /\ indexTab2 # 0
        /\ Apres(final_stringtable, Symbole1.nom) > final_stringtable.cap
     \/ Boucle2 /\ traiter[rang] = 0
        /\ Apres(final_stringtable, Symbole2.nom) > final_stringtable.cap
  /\ boucle' = "avorte"
  /\ UNCHANGED <<list_symb1, list_symb2, final_list_symb, final_stringtable,
                 traiter, rang>>

NextSymb ==
  \/ NouvelleEntree \/ EntreeMarquee \/ ErreurFusion \/ PasserTable2
  \/ AjouterSymbole2 \/ SauterSymbole2 \/ FinConcat \/ DebordementFatal

SpecSymb == InitSymb /\ [][NextSymb]_varsSymb

-----------------------------------------------------------------------------
(***************************************************************************)
(* Properties.                                                             *)
(***************************************************************************)
Final == [st_name : Nat, ndx : Nat, typ : Nat, src : {1, 2}, idx : Nat]

\* The type invariant: traiter is indexed by the symbols of source 2, so no
\* iteration writes outside it.
TypeOKSymb ==
  /\ list_symb1 \in Seq(Symbole) /\ list_symb2 \in Seq(Symbole)
  /\ final_list_symb \in Seq(Final)
  /\ final_stringtable \in TableString
  /\ traiter \in [Indices(list_symb2) -> {0, 1}]
  /\ boucle \in {"attente", "symb1", "symb2", "fini", "erreur", "avorte"}
  /\ rang \in Nat

\* The symbol of a source that an entry of the merged list stands for.
Source(e) == get_symbol(IF e.src = 1 THEN list_symb1 ELSE list_symb2, e.idx)

Entrees == {final_list_symb[p] : p \in DOMAIN final_list_symb}

\* Whatever was merged after it, past the buffer or not, the st_name of each
\* merged symbol whose name lies in the buffer still leads to the name the symbol
\* had in its source (fusion.c:167-171, 185-191, 204-208).
NomsFinals ==
  \A e \in Entrees : DansLaTable(final_stringtable, e.st_name, Source(e).nom)
    => Designe(final_stringtable, e.st_name, Source(e).nom)

\* No name of the merged table was written over another (table_string.c:66-78).
NomsEmpiles == Empilee(final_stringtable)

\* The merged list keeps the order of the sources, those of source 1 first,
\* and holds no symbol of a source twice (the two loops of fusion.c:158-211).
Precede(d, e) == d.src < e.src \/ (d.src = e.src /\ d.idx < e.idx)
OrdreDesSources ==
  \A p, q \in DOMAIN final_list_symb :
     p < q => Precede(final_list_symb[p], final_list_symb[q])

\* A symbol of source 2 is marked for skipping only on account of a symbol of
\* source 1 already merged, for which it is the first one retained
\* (fusion.c:163, 193); in particular symbol 0 is never marked, because
\* retaining it is the error case.
MarqueJustifiee ==
  \A k \in DOMAIN traiter :
     traiter[k] = 1 =>
       /\ k # 0
       /\ \E e \in Entrees :
            e.src = 1 /\ is_define_in_table(Source(e), list_symb2) = k

Presents(src) == {e.idx : e \in {d \in Entrees : d.src = src}}

\* A call that ends normally merged every symbol of source 1 but its null
\* symbol, and every symbol of source 2 that was not marked: none is forgotten.
RienOublie ==
  boucle = "fini" =>
    /\ Presents(1) = Indices(list_symb1) \ {0}
    /\ Presents(2) = {k \in Indices(list_symb2) : traiter[k] = 0}

\* A call given up on an error leaves the symbols of source 1 that precede the
\* one it stopped at, and none of source 2 (fusion.c:176-180).
ErreurPartielle ==
  boucle = "erreur" =>
    /\ Presents(1) = 1 .. rang - 1
    /\ Presents(2) = {}

\* The inductive invariant behind them: where each entry comes from, and how
\* far the loop has gone.
Provenance ==
  \A e \in Entrees :
     \/ e.src = 1 /\ e.idx \in Indices(list_symb1) \ {0}
     \/ e.src = 2 /\ e.idx \in Indices(list_symb2)

Avancement ==
  /\ boucle = "symb1" => /\ Presents(1) = 1 .. rang - 1
                         /\ Presents(2) = {}
                         /\ rang = 1 \/ rang \in 2 .. taille(list_symb1)
  /\ boucle = "symb2" =>
       /\ Presents(1) = Indices(list_symb1) \ {0}
       /\ Presents(2) = {k \in 0 .. rang - 1 : traiter[k] = 0}
       /\ rang <= taille(list_symb2)

InvSymb ==
  /\ TypeOKSymb /\ Provenance /\ Avancement /\ NomsFinals /\ NomsEmpiles
  /\ OrdreDesSources /\ MarqueJustifiee /\ RienOublie /\ ErreurPartielle

\* The loops end: the list is complete, an error was met or the memory past the
\* buffer was damaged.
FairSymb == SpecSymb /\ WF_varsSymb(NextSymb)
Terminaison == <>(boucle \in {"fini", "erreur", "avorte"})

-----------------------------------------------------------------------------
(***************************************************************************)
(* What the source says and the code does not do (the violation runs).     *)
(***************************************************************************)

\* "int size: taille de la table" (table_string.c:34): the names written fit
\* in the size the table was created with.
TableSuffisante == Tient(final_stringtable)
=============================================================================
