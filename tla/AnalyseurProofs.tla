-------------------------- MODULE AnalyseurProofs --------------------------
(***************************************************************************)
(* For every stream, every size of the buffer and of the reads: the scanner *)
(* For every stream, every size of the buffer and of the reads: the scanner*)
(* for what it does not need.                                              *)
(***************************************************************************)
EXTENDS Analyseur, RecurrenceProofs

-----------------------------------------------------------------------------
(* The tables and the automaton. *)

LEMMA TableBase ==
  /\ yy_base[1] = 0 /\ yy_base[2] = 0 /\ yy_base[3] = 13 /\ yy_base[4] = 14
  /\ yy_base[5] = 14 /\ yy_base[6] = 9 /\ yy_base[7] = 14 /\ yy_base[8] = 14
  /\ yy_base[9] = 8 /\ yy_base[10] = 3 /\ yy_base[11] = 2 /\ yy_base[12] = 14
  /\ yy_base[13] = 14 /\ yy_base[14] = 7
BY DEF yy_base, Table

LEMMA TableAccept ==
  /\ yy_accept[1] = 0 /\ yy_accept[2] = 0 /\ yy_accept[3] = 6 /\ yy_accept[4] = 4
  /\ yy_accept[5] = 5 /\ yy_accept[6] = 4 /\ yy_accept[7] = 1 /\ yy_accept[8] = 2
  /\ yy_accept[9] = 0 /\ yy_accept[10] = 0 /\ yy_accept[11] = 0 /\ yy_accept[12] = 3
  /\ yy_accept[13] = 0
BY DEF yy_accept, Table

LEMMA TableDef ==
  /\ yy_def[1] = 13 /\ yy_def[2] = 1 /\ yy_def[3] = 13 /\ yy_def[4] = 13
  /\ yy_def[5] = 13 /\ yy_def[6] = 14 /\ yy_def[7] = 13 /\ yy_def[8] = 13
  /\ yy_def[9] = 14 /\ yy_def[10] = 13 /\ yy_def[11] = 13 /\ yy_def[12] = 13
  /\ yy_def[14] = 13
BY DEF yy_def, Table

LEMMA TableChk ==
  /\ yy_chk[0] = 0 /\ \A k \in 1 .. 7 : yy_chk[k] = 1
  /\ yy_chk[8] = 14 /\ yy_chk[9] = 11 /\ yy_chk[10] = 10 /\ yy_chk[11] = 9
  /\ yy_chk[12] = 6 /\ yy_chk[13] = 3 /\ \A k \in 14 .. 21 : yy_chk[k] = 13
<1>1. \A k \in 1 .. 7 : yy_chk[k] = 1
  BY DEF yy_chk, Table
<1>2. \A k \in 14 .. 21 : yy_chk[k] = 13
  BY DEF yy_chk, Table
<1> QED
  BY <1>1, <1>2 DEF yy_chk, Table

LEMMA TableNxt ==
  /\ yy_nxt[1] = 4 /\ yy_nxt[2] = 5 /\ yy_nxt[3] = 4 /\ yy_nxt[4] = 6
  /\ yy_nxt[5] = 7 /\ yy_nxt[6] = 8 /\ yy_nxt[7] = 4 /\ yy_nxt[8] = 9
  /\ yy_nxt[9] = 12 /\ yy_nxt[10] = 11 /\ yy_nxt[11] = 10 /\ yy_nxt[12] = 10
  /\ yy_nxt[13] = 13 /\ yy_nxt[14] = 3 /\ \A k \in 15 .. 21 : yy_nxt[k] = 13
<1>1. \A k \in 15 .. 21 : yy_nxt[k] = 13
  BY DEF yy_nxt, Table
<1> QED
  BY <1>1 DEF yy_nxt, Table

LEMMA TableMeta ==
  yy_meta[0] = 0 /\ yy_meta[4] = 2 /\ \A c \in 0 .. 7 : c \notin {0, 4} => yy_meta[c] = 1
BY DEF yy_meta, Table

\* The transitions, without the compression of the tables: those that are the
\* same as in another state are found there.
Vers(s, c) ==
  IF s \in {1, 2}
  THEN IF c = 0 THEN 3 ELSE IF c = 2 THEN 5 ELSE IF c = 4 THEN 6 ELSE IF c = 5 THEN 7
       ELSE IF c = 6 THEN 8 ELSE 4
  ELSE IF s = 3 THEN 13
  ELSE IF s = 14 THEN IF c = 0 THEN 3 ELSE IF c = 1 THEN 9 ELSE 13
  ELSE IF c = 0 THEN 3
  ELSE IF s \in {6, 9} THEN IF c = 3 THEN 10 ELSE IF c = 4 THEN 13 ELSE 9
  ELSE IF s = 10 /\ c = 7 THEN 11
  ELSE IF s = 11 /\ c = 7 THEN 12
  ELSE 13

Suivi(T, s, c) ==
  IF yy_chk[yy_base[s] + c] = s THEN yy_nxt[yy_base[s] + c]
  ELSE T[yy_def[s]][IF yy_def[s] >= 14 THEN yy_meta[c] ELSE c]

LEMMA TransitionExiste ==
  \E T : T = [s \in 1 .. 14 |-> [c \in 0 .. 7 |-> Suivi(T, s, c)]]
<1> DEFINE T == [s \in 1 .. 14 |-> [c \in 0 .. 7 |-> Vers(s, c)]]
<1>0. \A s \in 1 .. 14, c \in 0 .. 7 : T[s][c] = Vers(s, c)
  OBVIOUS
<1> HIDE DEF T
<1> SUFFICES ASSUME NEW s \in 1 .. 14, NEW c \in 0 .. 7 PROVE Vers(s, c) = Suivi(T, s, c)
  <2>1. T = [s_ \in 1 .. 14 |-> [c_ \in 0 .. 7 |-> Suivi(T, s_, c_)]]
    BY DEF T
  <2> QED
    BY <2>1
<1>2. CASE s \in {1, 2, 3}
  BY <1>0, <1>2, TableBase, TableDef, TableChk, TableNxt DEF Vers, Suivi
<1>3. CASE s \in {4, 5, 7, 8}
  BY <1>0, <1>3, TableBase, TableDef, TableChk, TableNxt DEF Vers, Suivi
<1>4. CASE s \in {12, 13}
  BY <1>0, <1>4, TableBase, TableDef, TableChk, TableNxt DEF Vers, Suivi
<1>5. CASE s = 6
  BY <1>0, <1>5, TableBase, TableDef, TableChk, TableNxt, TableMeta DEF Vers, Suivi
<1>6. CASE s = 9
  BY <1>0, <1>6, TableBase, TableDef, TableChk, TableNxt, TableMeta DEF Vers, Suivi
<1>7. CASE s = 10
  BY <1>0, <1>7, TableBase, TableDef, TableChk, TableNxt DEF Vers, Suivi
<1>8. CASE s = 11
  BY <1>0, <1>8, TableBase, TableDef, TableChk, TableNxt DEF Vers, Suivi
<1>9. CASE s = 14
  BY <1>0, <1>9, TableBase, TableDef, TableChk, TableNxt, TableMeta DEF Vers, Suivi
<1> QED
  BY <1>2, <1>3, <1>4, <1>5, <1>6, <1>7, <1>8, <1>9

LEMMA Transitions ==
  ASSUME NEW s \in 1 .. 14, NEW c \in 0 .. 7
  PROVE  Transition[s][c] = Vers(s, c)
<1> DEFINE R(T) == T = [s_ \in 1 .. 14 |-> [c_ \in 0 .. 7 |-> Suivi(T, s_, c_)]]
<1>1. PICK T : R(T)
  BY TransitionExiste
<1>2. R(Transition)
  <2>1. Transition = CHOOSE T_ : R(T_)
    BY DEF Transition, Suivi
  <2> HIDE DEF R
  <2> QED
    BY <1>1, <2>1
<1>3. \A s_ \in 1 .. 14, c_ \in 0 .. 7 : Transition[s_][c_] = Suivi(Transition, s_, c_)
  BY <1>2
<1> HIDE DEF R
<1>4. \A c_ \in 0 .. 7 : Transition[13][c_] = Vers(13, c_)
  BY <1>3, TableBase, TableChk, TableNxt DEF Vers, Suivi
<1>5. \A c_ \in 0 .. 7 : Transition[14][c_] = Vers(14, c_)
  BY <1>3, <1>4, TableBase, TableDef, TableChk, TableNxt, TableMeta DEF Vers, Suivi
<1>6. \A c_ \in 0 .. 7 : Transition[1][c_] = Vers(1, c_)
  BY <1>3, <1>4, TableBase, TableDef, TableChk, TableNxt DEF Vers, Suivi
<1>7. CASE s \in {1, 13, 14}
  BY <1>4, <1>5, <1>6, <1>7
<1>8. CASE s = 2
  BY <1>3, <1>6, <1>8, TableBase, TableDef, TableChk, TableNxt DEF Vers, Suivi
<1>9. CASE s \in {3, 4, 5, 7}
  BY <1>3, <1>4, <1>9, TableBase, TableDef, TableChk, TableNxt DEF Vers, Suivi
<1>10. CASE s \in {8, 12, 10, 11}
  BY <1>3, <1>4, <1>10, TableBase, TableDef, TableChk, TableNxt DEF Vers, Suivi
<1>11. CASE s = 6
  BY <1>3, <1>5, <1>11, TableBase, TableDef, TableChk, TableNxt, TableMeta DEF Vers, Suivi
<1>12. CASE s = 9
  BY <1>3, <1>5, <1>12, TableBase, TableDef, TableChk, TableNxt, TableMeta DEF Vers, Suivi
<1> QED
  BY <1>7, <1>8, <1>9, <1>10, <1>11, <1>12

Etats == 1 .. 13

LEMMA VersEtats ==
  ASSUME NEW s \in Etats, NEW c \in 0 .. 7
  PROVE  Vers(s, c) \in Etats
BY DEF Vers, Etats

\* The states gone through.
LEMMA ParcoursDeplie ==
  ASSUME NEW s \in Etats, NEW cl \in Seq(0 .. 7)
  PROVE  /\ Parcours(s, cl) \in [0 .. Len(cl) -> Etats]
         /\ Parcours(s, cl)[0] = s
         /\ \A k \in 1 .. Len(cl) : Parcours(s, cl)[k] = Vers(Parcours(s, cl)[k - 1], cl[k])
<1> DEFINE f == [x \in Etats \X (0 .. 7) |-> Vers(x[1], x[2])]
           R(P) == P = [k \in 0 .. Len(cl) |-> IF k = 0 THEN s ELSE Transition[P[k - 1]][cl[k]]]
<1>0. Len(cl) \in Nat /\ \A k \in 1 .. Len(cl) : cl[k] \in 0 .. 7
  BY LenProperties, ElementOfSeq
<1>1. f \in [Etats \X (0 .. 7) -> Etats] /\ \A x \in Etats, c \in 0 .. 7 : f[<<x, c>>] = Vers(x, c)
  BY VersEtats
<1> HIDE DEF f
<1>2. PICK g \in [0 .. Len(cl) -> Etats] : Etapes(g, f, s, cl, Len(cl))
  BY <1>1, EtapesExistent
<1>3. \A k \in 1 .. Len(cl) : k - 1 \in 0 .. Len(cl) /\ k # 0
  BY <1>0
<1>4. \A x \in Etats, c \in 0 .. 7 : Transition[x][c] = Vers(x, c)
  <2>1. SUFFICES ASSUME NEW x \in Etats, NEW c \in 0 .. 7 PROVE Transition[x][c] = Vers(x, c)
    OBVIOUS
  <2>2. x \in 1 .. 14
    BY DEF Etats
  <2> QED
    BY <2>2, Transitions
<1>5. R(g)
  <2>1. ASSUME NEW k \in 1 .. Len(cl) PROVE g[k] = Transition[g[k - 1]][cl[k]]
    <3>1. g[k - 1] \in Etats /\ cl[k] \in 0 .. 7
      BY <1>0, <1>2, <1>3
    <3>2. g[k] = f[<<g[k - 1], cl[k]>>]
      BY <1>2 DEF Etapes
    <3> QED
      BY <1>1, <1>4, <3>1, <3>2
  <2>2. \A k \in 0 .. Len(cl) : k = 0 \/ k \in 1 .. Len(cl)
    BY <1>0
  <2>3. g[0] = s
    BY <1>2 DEF Etapes
  <2> QED
    BY <1>2, <2>1, <2>2, <2>3
<1>6. R(Parcours(s, cl))
  <2>1. Parcours(s, cl) = CHOOSE P : R(P)
    BY DEF Parcours
  <2> HIDE DEF R
  <2> QED
    BY <1>5, <2>1
<1>7. PICK P : P = Parcours(s, cl)
  OBVIOUS
<1>8. /\ P = [k \in 0 .. Len(cl) |-> P[k]] /\ P[0] = s
      /\ \A k \in 1 .. Len(cl) : P[k] = Transition[P[k - 1]][cl[k]]
  <2>1. R(P)
    BY <1>6, <1>7
  <2>2. 0 \in 0 .. Len(cl)
    BY <1>0
  <2>3. \A k \in 1 .. Len(cl) : k \in 0 .. Len(cl)
    BY <1>0
  <2> QED
    BY <1>3, <2>1, <2>2, <2>3
<1>9. \A k \in 0 .. Len(cl) : P[k] \in Etats
  <2> DEFINE Bons == {k \in 0 .. Len(cl) : P[k] \in Etats}
  <2>1. 0 \in Bons
    BY <1>0, <1>8
  <2>2. ASSUME NEW k \in 1 .. Len(cl), k - 1 \in Bons PROVE k \in Bons
    <3>1. P[k] = Vers(P[k - 1], cl[k])
      BY <1>0, <1>4, <1>8, <2>2
    <3>2. P[k] \in Etats
      BY <1>0, <2>2, <3>1, VersEtats
    <3> QED
      BY <1>0, <3>2
  <2>3. Bons \in SUBSET (0 .. Len(cl))
    OBVIOUS
  <2> HIDE DEF Bons
  <2>4. Bons = 0 .. Len(cl)
    BY <1>0, <2>1, <2>2, <2>3, PremierEchec
  <2> QED
    BY <2>4 DEF Bons
<1>10. \A k \in 1 .. Len(cl) : P[k] = Vers(P[k - 1], cl[k])
  BY <1>0, <1>3, <1>4, <1>8, <1>9
<1> HIDE DEF R
<1>11. P \in [0 .. Len(cl) -> Etats]
  BY <1>8, <1>9
<1> QED
  BY <1>7, <1>8, <1>10, <1>11

-----------------------------------------------------------------------------
(* Where a text leads the automaton. *)

\* The first q characters of r lead the automaton from INITIAL to s.
Mene(s, r, q) ==
  \/ s = 1 /\ q = 0
  \/ s = 4 /\ q = 1 /\ r[1] \notin {"\n", "$", "+", "-"}
  \/ s = 5 /\ q = 1 /\ r[1] = "\n"
  \/ s = 6 /\ q = 1 /\ r[1] = "$"
  \/ s = 7 /\ q = 1 /\ r[1] = "+"
  \/ s = 8 /\ q = 1 /\ r[1] = "-"
  \/ /\ s = 9 /\ q >= 2 /\ r[1] = "$"
     /\ \A k \in 2 .. q : r[k] \notin {"$", "#"}
  \/ /\ s = 10 /\ q >= 2 /\ r[1] = "$" /\ r[q] = "#"
     /\ \A k \in 2 .. q - 1 : r[k] \notin {"$", "#"}
  \/ /\ s = 11 /\ q >= 3 /\ r[1] = "$" /\ r[q - 1] = "#" /\ r[q] = "h"
     /\ \A k \in 2 .. q - 2 : r[k] \notin {"$", "#"}
  \/ /\ s = 12 /\ q >= 4 /\ r[1] = "$" /\ r[q - 2] = "#" /\ r[q - 1] = "h" /\ r[q] = "h"
     /\ \A k \in 2 .. q - 3 : r[k] \notin {"$", "#"}

\* The states the automaton may be in when it meets a NUL: it stops at once in
\* the others, unless it went through a NUL.
Ouverts == {1, 4, 6, 9, 10, 11}
Ouvert(s, r, q) == s \in Ouverts /\ Mene(s, r, q) /\ (s = 4 => r[1] = NUL)

\* No packet at the head of r.
SansPaquet(r) == \A n \in 4 .. Len(r) : ~D!EstPaquet(SubSeq(r, 1, n))

Reste == TexteEnCours \o flux

-----------------------------------------------------------------------------
(* What leads to a state. *)

LEMMA MeneUnique ==
  ASSUME NEW r, NEW q \in Nat, NEW s, NEW t, Mene(s, r, q), Mene(t, r, q)
  PROVE  s = t
<1>1. CASE q <= 1
  BY <1>1 DEF Mene
<1>2. CASE q >= 2
  <2>1. s \in {9, 10, 11, 12} /\ t \in {9, 10, 11, 12}
    BY <1>2 DEF Mene
  <2>2. q \in 2 .. q /\ (q >= 3 => q - 1 \in 2 .. q) /\ (q >= 4 => q - 2 \in 2 .. q)
    BY <1>2
  <2>3. ~(Mene(9, r, q) /\ \E u \in {10, 11, 12} : Mene(u, r, q))
    BY <2>2 DEF Mene
  <2>4. ~(Mene(10, r, q) /\ (Mene(11, r, q) \/ Mene(12, r, q)))
    BY <2>2 DEF Mene
  <2>5. ~(Mene(11, r, q) /\ Mene(12, r, q))
    BY DEF Mene
  <2> QED
    BY <2>1, <2>3, <2>4, <2>5
<1> QED
  BY <1>1, <1>2

LEMMA MenePrefixe ==
  ASSUME NEW r, NEW r2, NEW q \in Nat, NEW s, Mene(s, r, q), \A k \in 1 .. q : r[k] = r2[k]
  PROVE  Mene(s, r2, q)
<1>1. CASE q <= 1
  BY <1>1 DEF Mene
<1>2. CASE q >= 2
  <2>1. r[1] = r2[1] /\ r[q] = r2[q] /\ (q >= 3 => r[q - 1] = r2[q - 1]) /\ (q >= 4 => r[q - 2] = r2[q - 2])
    BY <1>2
  <2>2. \A k \in 2 .. q : r[k] = r2[k]
    OBVIOUS
  <2>3. CASE s = 9
    BY <1>2, <2>1, <2>2, <2>3 DEF Mene
  <2>4. CASE s = 10
    BY <1>2, <2>1, <2>2, <2>4 DEF Mene
  <2>5. CASE s = 11
    BY <1>2, <2>1, <2>2, <2>5 DEF Mene
  <2>6. CASE s = 12
    BY <1>2, <2>1, <2>2, <2>6 DEF Mene
  <2> QED
    BY <1>2, <2>3, <2>4, <2>5, <2>6 DEF Mene
<1> QED
  BY <1>1, <1>2

LEMMA MeneTypes ==
  ASSUME NEW r, NEW q \in Nat, NEW s, Mene(s, r, q)
  PROVE  /\ s \in {1, 4, 5, 6, 7, 8, 9, 10, 11, 12} /\ s \in Etats
         /\ q = 0 <=> s = 1
         /\ q = 1 <=> s \in {4, 5, 6, 7, 8}
         /\ q >= 2 <=> s \in {9, 10, 11, 12}
         /\ s = 12 => q >= 4
         /\ (q >= 1 /\ r[1] = "$") <=> s \in {6, 9, 10, 11, 12}
BY DEF Mene, Etats

\* The class of a character of the text: a NUL is an ordinary one.
Sorte(c) == IF c = NUL THEN 1 ELSE yy_ec[c]

LEMMA Sortes ==
  ASSUME NEW c \in Caracteres
  PROVE  /\ Sorte(c) \in 1 .. 7 /\ yy_ec[c] \in 0 .. 7 /\ (c # NUL => yy_ec[c] = Sorte(c))
         /\ yy_ec[NUL] = 0
         /\ Sorte(c) = 2 <=> c = "\n"
         /\ Sorte(c) = 3 <=> c = "#"
         /\ Sorte(c) = 4 <=> c = "$"
         /\ Sorte(c) = 5 <=> c = "+"
         /\ Sorte(c) = 6 <=> c = "-"
         /\ Sorte(c) = 7 <=> c = "h"
BY DEF Sorte, yy_ec, NUL, Caracteres

\* A character more.
LEMMA MenePas ==
  ASSUME NEW r, NEW q \in Nat, NEW s, Mene(s, r, q), r[q + 1] \in Caracteres
  PROVE  Vers(s, Sorte(r[q + 1])) = 13 \/ Mene(Vers(s, Sorte(r[q + 1])), r, q + 1)
<1> DEFINE c == r[q + 1]
           t == Vers(s, Sorte(c))
<1> SUFFICES t = 13 \/ Mene(t, r, q + 1)
  OBVIOUS
<1>1. /\ Sorte(c) \in 1 .. 7 /\ (Sorte(c) = 2 <=> c = "\n") /\ (Sorte(c) = 3 <=> c = "#")
      /\ (Sorte(c) = 4 <=> c = "$") /\ (Sorte(c) = 5 <=> c = "+")
      /\ (Sorte(c) = 6 <=> c = "-") /\ (Sorte(c) = 7 <=> c = "h")
  BY Sortes
<1>2. CASE s = 1
  <2>1. q = 0 /\ q + 1 = 1
    BY <1>2, MeneTypes
  <2>2. t = IF c = "\n" THEN 5 ELSE IF c = "$" THEN 6 ELSE IF c = "+" THEN 7 ELSE IF c = "-" THEN 8 ELSE 4
    BY <1>1, <1>2 DEF Vers
  <2> HIDE DEF t
  <2> QED
    BY <2>1, <2>2 DEF Mene
<1>3. CASE s \in {4, 5, 7, 8, 12}
  BY <1>1, <1>3 DEF Vers
<1>4. CASE s \in {6, 9}
  <2>1. t = IF c = "#" THEN 10 ELSE IF c = "$" THEN 13 ELSE 9
    BY <1>1, <1>4 DEF Vers
  <2>2. q >= 1 /\ r[1] = "$" /\ \A k \in 2 .. q : r[k] \notin {"$", "#"}
    BY <1>4 DEF Mene
  <2>3. \A k \in 2 .. q + 1 : k \in 2 .. q \/ k = q + 1
    OBVIOUS
  <2>4. q + 1 >= 2 /\ (q + 1) - 1 = q
    BY <2>2
  <2> HIDE DEF t
  <2>5. CASE c = "#"
    BY <2>1, <2>2, <2>4, <2>5 DEF Mene
  <2>6. CASE c \notin {"#", "$"}
    BY <2>1, <2>2, <2>3, <2>4, <2>6 DEF Mene
  <2> QED
    BY <2>1, <2>5, <2>6
<1>5. CASE s = 10
  <2>1. t = IF c = "h" THEN 11 ELSE 13
    BY <1>1, <1>5 DEF Vers
  <2>2. q >= 2 /\ (q + 1) - 1 = q /\ (q + 1) - 2 = q - 1
    BY <1>5 DEF Mene
  <2> HIDE DEF t
  <2> QED
    BY <1>5, <2>1, <2>2 DEF Mene
<1>6. CASE s = 11
  <2>1. t = IF c = "h" THEN 12 ELSE 13
    BY <1>1, <1>6 DEF Vers
  <2>2. q >= 3 /\ (q + 1) - 1 = q /\ (q + 1) - 2 = q - 1 /\ (q + 1) - 3 = q - 2
    BY <1>6 DEF Mene
  <2> HIDE DEF t
  <2> QED
    BY <1>6, <2>1, <2>2 DEF Mene
<1> QED
  BY <1>2, <1>3, <1>4, <1>5, <1>6, MeneTypes

\* A character less.
LEMMA MeneAvant ==
  ASSUME NEW r, NEW q \in Nat, NEW t, Mene(t, r, q + 1)
  PROVE  \E s : Mene(s, r, q)
<1>1. CASE q = 0
  BY <1>1 DEF Mene
<1>2. CASE q = 1
  <2>1. q + 1 = 2 /\ r[1] = "$"
    BY <1>2 DEF Mene
  <2> QED
    BY <1>2, <2>1 DEF Mene
<1>3. CASE q >= 2
  <2>1. (q + 1) - 1 = q /\ (q + 1) - 2 = q - 1 /\ (q + 1) - 3 = q - 2
    OBVIOUS
  <2>2. CASE t = 9
    <3>1. Mene(9, r, q)
      BY <1>3, <2>2 DEF Mene
    <3> QED
      BY <3>1
  <2>3. CASE t = 10
    <3>1. Mene(9, r, q)
      BY <1>3, <2>1, <2>3 DEF Mene
    <3> QED
      BY <3>1
  <2>4. CASE t = 11
    <3>1. Mene(10, r, q)
      BY <1>3, <2>1, <2>4 DEF Mene
    <3> QED
      BY <3>1
  <2>5. CASE t = 12
    <3>1. Mene(11, r, q)
      BY <1>3, <2>1, <2>5 DEF Mene
    <3> QED
      BY <3>1
  <2>6. t \in {9, 10, 11, 12}
    <3>1. q + 1 \in Nat /\ q + 1 >= 2
      BY <1>3
    <3> QED
      BY <3>1, MeneTypes
  <2> QED
    BY <2>2, <2>3, <2>4, <2>5, <2>6
<1> QED
  BY <1>1, <1>2, <1>3

\* Every shorter text leads somewhere, and on from there.
LEMMA MeneDebut ==
  ASSUME NEW r, NEW m \in Nat, NEW t, Mene(t, r, m), NEW q \in 0 .. m
  PROVE  \E s : Mene(s, r, q)
<1> DEFINE Bons == {k \in 0 .. m : \E s : Mene(s, r, m - k)}
<1>1. 0 \in Bons
  BY DEF Bons
<1>2. ASSUME NEW k \in 1 .. m, k - 1 \in Bons PROVE k \in Bons
  <2>1. m - k \in Nat /\ m - (k - 1) = (m - k) + 1
    OBVIOUS
  <2>2. PICK u : Mene(u, r, (m - k) + 1)
    BY <1>2, <2>1
  <2> QED
    BY <2>1, <2>2, MeneAvant
<1>3. Bons \in SUBSET (0 .. m)
  OBVIOUS
<1> HIDE DEF Bons
<1>4. Bons = 0 .. m
  BY <1>1, <1>2, <1>3, PremierEchec
<1>5. m - q \in 0 .. m /\ m - (m - q) = q
  OBVIOUS
<1> QED
  BY <1>4, <1>5 DEF Bons

LEMMA MeneSuite ==
  ASSUME NEW r, NEW q \in Nat, NEW s, NEW t, Mene(s, r, q), Mene(t, r, q + 1),
         r[q + 1] \in Caracteres
  PROVE  t = Vers(s, Sorte(r[q + 1]))
<1> DEFINE c == r[q + 1]
<1>1. /\ Sorte(c) \in 1 .. 7 /\ (Sorte(c) = 2 <=> c = "\n") /\ (Sorte(c) = 3 <=> c = "#")
      /\ (Sorte(c) = 4 <=> c = "$") /\ (Sorte(c) = 5 <=> c = "+")
      /\ (Sorte(c) = 6 <=> c = "-") /\ (Sorte(c) = 7 <=> c = "h")
  BY Sortes
<1>2. /\ (q + 1) - 1 = q /\ (q + 1) - 2 = q - 1 /\ (q + 1) - 3 = q - 2
      /\ q + 1 \in 2 .. q + 1 \/ q = 0
  OBVIOUS
<1>3. CASE q = 0
  <2>1. q + 1 = 1 /\ s = 1
    BY <1>3, MeneTypes
  <2>2. /\ (t = 5 /\ c = "\n") \/ (t = 6 /\ c = "$") \/ (t = 7 /\ c = "+") \/ (t = 8 /\ c = "-")
           \/ (t = 4 /\ c \notin {"\n", "$", "+", "-"})
    BY <2>1 DEF Mene
  <2> HIDE DEF c
  <2>3. t = Vers(s, Sorte(c))
    BY <1>1, <2>1, <2>2 DEF Vers
  <2> QED
    BY <2>3 DEF c
<1>4. CASE q >= 1
  <2>1. t \in {9, 10, 11, 12}
    <3>1. q + 1 \in Nat /\ q + 1 >= 2
      BY <1>4
    <3> QED
      BY <3>1, MeneTypes
  <2>2. CASE t \in {9, 10}
    <3>1. r[1] = "$" /\ (t = 9 => c \notin {"$", "#"}) /\ (t = 10 => c = "#")
          /\ \A k \in 2 .. q : r[k] \notin {"$", "#"}
      BY <1>2, <1>4, <2>2 DEF Mene
    <3>2. Mene(6, r, q) \/ Mene(9, r, q)
      BY <1>4, <3>1 DEF Mene
    <3>3. s \in {6, 9}
      BY <3>2, MeneUnique
    <3> HIDE DEF c
    <3>4. t = Vers(s, Sorte(c))
      BY <1>1, <2>2, <3>1, <3>3 DEF Vers
    <3> QED
      BY <3>4 DEF c
  <2>3. CASE t = 11
    <3>1. Mene(10, r, q) /\ c = "h"
      BY <1>2, <1>4, <2>3 DEF Mene
    <3>2. s = 10
      BY <3>1, MeneUnique
    <3>3. Vers(10, 7) = 11
      BY DEF Vers
    <3> QED
      BY <1>1, <2>3, <3>1, <3>2, <3>3
  <2>4. CASE t = 12
    <3>1. Mene(11, r, q) /\ c = "h"
      BY <1>2, <1>4, <2>4 DEF Mene
    <3>2. s = 11
      BY <3>1, MeneUnique
    <3>3. Vers(11, 7) = 12
      BY DEF Vers
    <3> QED
      BY <1>1, <2>4, <3>1, <3>2, <3>3
  <2> QED
    BY <2>1, <2>2, <2>3, <2>4
<1> QED
  BY <1>3, <1>4

-----------------------------------------------------------------------------
(* Packets. *)

LEMMA PaquetMene ==
  ASSUME NEW r \in Seq(Caracteres), NEW n \in 4 .. Len(r)
  PROVE  D!EstPaquet(SubSeq(r, 1, n)) <=> Mene(12, r, n)
<1> DEFINE s == SubSeq(r, 1, n)
<1>0. Len(r) \in Nat
  BY LenProperties
<1>1. Len(s) = n /\ \A k \in 1 .. n : s[k] = r[k]
  BY <1>0, SubSeqProperties
<1> HIDE DEF s
<1>2. n \in Nat /\ n >= 4 /\ 1 \in 1 .. n /\ n - 2 \in 1 .. n /\ n - 1 \in 1 .. n /\ n \in 1 .. n
  OBVIOUS
<1>3. \A k \in 2 .. n - 3 : k \in 1 .. n
  BY <1>2
<1>4. s[1] = r[1] /\ s[n - 2] = r[n - 2] /\ s[n - 1] = r[n - 1] /\ s[n] = r[n]
      /\ \A k \in 2 .. n - 3 : s[k] = r[k]
  BY <1>1, <1>2, <1>3
<1>5. D!EstPaquet(s) <=> Mene(12, r, n)
  BY <1>1, <1>2, <1>4 DEF D!EstPaquet, D!EstHex, Mene
<1> QED
  BY <1>5 DEF s

\* No packet is the beginning of another text under way.
LEMMA PaquetBloque ==
  ASSUME NEW r \in Seq(Caracteres), NEW n \in Nat, Mene(12, r, n), NEW q \in Nat, n < q,
         q <= Len(r)
  PROVE  ~ \E s : Mene(s, r, q)
<1> SUFFICES ASSUME NEW s, Mene(s, r, q) PROVE FALSE
  OBVIOUS
<1>0. Len(r) \in Nat
  BY LenProperties
<1>1. n + 1 \in 0 .. q /\ n + 1 \in 1 .. Len(r) /\ n + 1 \in Nat
  BY <1>0
<1>2. PICK u : Mene(u, r, n + 1)
  BY <1>1, MeneDebut
<1>3. r[n + 1] \in Caracteres
  BY <1>1, ElementOfSeq
<1>4. u = Vers(12, Sorte(r[n + 1]))
  BY <1>2, <1>3, MeneSuite
<1>5. Sorte(r[n + 1]) \in 1 .. 7
  BY <1>3, Sortes
<1>6. u = 13
  BY <1>4, <1>5 DEF Vers
<1> QED
  BY <1>1, <1>2, <1>6, MeneTypes

LEMMA SansPaquetMene ==
  ASSUME NEW r \in Seq(Caracteres)
  PROVE  SansPaquet(r) <=> \A n \in 4 .. Len(r) : ~ Mene(12, r, n)
BY PaquetMene DEF SansPaquet

\* The text cannot go on: no packet.
LEMMA SansSuite ==
  ASSUME NEW r \in Seq(Caracteres), NEW q \in Nat, q < Len(r), NEW s, Mene(s, r, q), s # 12,
         Vers(s, Sorte(r[q + 1])) = 13
  PROVE  SansPaquet(r)
<1>0. Len(r) \in Nat
  BY LenProperties
<1> SUFFICES ASSUME NEW n \in 4 .. Len(r), Mene(12, r, n) PROVE FALSE
  BY SansPaquetMene
<1>1. n \in Nat
  BY <1>0
<1>2. CASE n <= q
  <2>1. n # q
    BY <1>1, MeneUnique
  <2>2. n < q /\ q <= Len(r)
    BY <1>0, <1>1, <1>2, <2>1
  <2> QED
    BY <1>1, <2>2, PaquetBloque
<1>3. CASE q < n
  <2>1. q + 1 \in 0 .. n /\ q + 1 \in 1 .. Len(r) /\ q + 1 \in Nat
    BY <1>0, <1>1, <1>3
  <2>2. PICK u : Mene(u, r, q + 1)
    BY <1>1, <2>1, MeneDebut
  <2>3. r[q + 1] \in Caracteres
    BY <2>1, ElementOfSeq
  <2>4. u = 13
    BY <2>2, <2>3, MeneSuite
  <2> QED
    BY <2>1, <2>2, <2>4, MeneTypes
<1> QED
  BY <1>0, <1>1, <1>2, <1>3

\* The text is at its end: no packet.
LEMMA SansReste ==
  ASSUME NEW r \in Seq(Caracteres), NEW s, Mene(s, r, Len(r)), s # 12
  PROVE  SansPaquet(r)
<1>0. Len(r) \in Nat
  BY LenProperties
<1> SUFFICES ASSUME NEW n \in 4 .. Len(r), Mene(12, r, n) PROVE FALSE
  BY SansPaquetMene
<1>1. n \in Nat
  BY <1>0
<1>2. n # Len(r)
  BY <1>0, MeneUnique
<1>3. n < Len(r) /\ Len(r) <= Len(r)
  BY <1>0, <1>2
<1> QED
  BY <1>0, <1>1, <1>3, PaquetBloque

\* A packet begins with a dollar.
LEMMA SansDollar ==
  ASSUME NEW r \in Seq(Caracteres), r[1] # "$"
  PROVE  SansPaquet(r)
<1> SUFFICES ASSUME NEW n \in 4 .. Len(r), Mene(12, r, n) PROVE FALSE
  BY SansPaquetMene
<1> QED
  BY DEF Mene

\* The length of the text at the head of r.
LEMMA LongueurPaquet ==
  ASSUME NEW r \in Seq(Caracteres), NEW n \in Nat, Mene(12, r, n), n <= Len(r)
  PROVE  D!Longueur(r) = n
<1>0. Len(r) \in Nat /\ n \in 4 .. Len(r)
  BY LenProperties, MeneTypes
<1>1. D!EstPaquet(SubSeq(r, 1, n))
  BY <1>0, PaquetMene
<1>2. ASSUME NEW m \in 4 .. Len(r), D!EstPaquet(SubSeq(r, 1, m)) PROVE m = n
  <2>1. Mene(12, r, m) /\ m \in Nat
    BY <1>2, PaquetMene
  <2>2. ~(n < m) /\ ~(m < n)
    BY <1>0, <2>1, PaquetBloque
  <2> QED
    BY <2>1, <2>2
<1>3. (CHOOSE m \in 4 .. Len(r) : D!EstPaquet(SubSeq(r, 1, m))) = n
  BY <1>0, <1>1, <1>2
<1> QED
  BY <1>0, <1>1, <1>3 DEF D!Longueur

LEMMA LongueurSans ==
  ASSUME NEW r, SansPaquet(r)
  PROVE  D!Longueur(r) = 1
BY DEF D!Longueur, SansPaquet

-----------------------------------------------------------------------------
(* Runs of the automaton. *)

\* State j is the last accepting one of the n first.
EstDernier(P, n, j) ==
  /\ j \in 0 .. n - 1 /\ yy_accept[P[j]] # 0
  /\ \A k \in 0 .. n - 1 : k <= j \/ yy_accept[P[k]] = 0

LEMMA DernierSeul ==
  ASSUME NEW P, NEW n \in Nat, NEW p \in Int, NEW d, NEW j \in 0 .. n - 1, EstDernier(P, n, j)
  PROVE  DernierAccepte(P, n, p, d) = [etat |-> P[j], cpos |-> p + j]
<1> DEFINE K == {k \in 0 .. n - 1 : yy_accept[P[k]] # 0}
<1>1. j \in K /\ \A k \in K : k <= j
  BY DEF EstDernier
<1>2. \A k \in K : (\A i \in K : i <= k) => k = j
  <2>1. \A k \in K : k \in Int /\ j \in Int
    OBVIOUS
  <2> HIDE DEF K
  <2>2. \A k, i \in Int : k <= i /\ i <= k => k = i
    OBVIOUS
  <2> QED
    BY <1>1, <2>1, <2>2
<1> HIDE DEF K
<1>3. (CHOOSE k \in K : \A i \in K : i <= k) = j
  BY <1>1, <1>2
<1>4. K # {}
  BY <1>1
<1>5. DernierAccepte(P, n, p, d)
        = IF K = {} THEN d
          ELSE [etat |-> P[CHOOSE k \in K : \A i \in K : i <= k],
                cpos |-> p + (CHOOSE k \in K : \A i \in K : i <= k)]
  BY DEF DernierAccepte, K
<1> QED
  BY <1>3, <1>4, <1>5

LEMMA DernierDernier ==
  ASSUME NEW P, NEW n \in Nat \ {0}, NEW p \in Int, NEW d, yy_accept[P[n - 1]] # 0
  PROVE  DernierAccepte(P, n, p, d) = [etat |-> P[n - 1], cpos |-> p + (n - 1)]
<1> PICK j \in Nat : j = n - 1
  OBVIOUS
<1>1. j \in 0 .. n - 1 /\ \A k \in 0 .. n - 1 : k <= j
  OBVIOUS
<1>2. EstDernier(P, n, j)
  BY <1>1 DEF EstDernier
<1> QED
  BY <1>1, <1>2, DernierSeul

LEMMA DernierRien ==
  ASSUME NEW P, NEW n \in Nat, NEW p, NEW d, \A k \in 0 .. n - 1 : yy_accept[P[k]] = 0
  PROVE  DernierAccepte(P, n, p, d) = d
BY DEF DernierAccepte

LEMMA ArretPremier ==
  ASSUME NEW P, NEW n \in Nat, NEW i \in 1 .. n, yy_base[P[i]] = 14
  PROVE  /\ Arret(P, n) \in 1 .. n /\ yy_base[P[Arret(P, n)]] = 14
         /\ \A j \in 1 .. Arret(P, n) - 1 : yy_base[P[j]] # 14
<1> DEFINE K == {k \in 1 .. n : yy_base[P[k]] = 14}
<1>1. K \subseteq Nat /\ K # {} /\ K \subseteq 1 .. n
  OBVIOUS
<1>2. \A k \in 1 .. n : yy_base[P[k]] = 14 <=> k \in K
  OBVIOUS
<1>3. Arret(P, n) = CHOOSE k \in K : \A j \in K : k <= j
  BY DEF Arret
<1> HIDE DEF K
<1>4. \E k \in K : \A j \in K : k <= j
  BY <1>1, Minimum
<1>5. PICK a : a = Arret(P, n)
  OBVIOUS
<1>6. a \in K /\ \A j \in K : a <= j
  BY <1>3, <1>4, <1>5
<1>7. a \in 1 .. n
  BY <1>1, <1>6
<1>8. \A j \in 1 .. a - 1 : j \in 1 .. n /\ ~(a <= j)
  BY <1>7
<1> QED
  BY <1>2, <1>5, <1>6, <1>7, <1>8

\* The states P are those the text r leads to after q characters, q + 1, ...
Suivent(P, r, q, n) == \A j \in 0 .. n - 1 : Mene(P[j], r, q + j) /\ P[j] # 12

\* The last accepting state of a text that begins as a packet is that of its
\* first character.
LEMMA DernierDollar ==
  ASSUME NEW r, NEW q \in Nat, NEW n \in Nat, NEW P, NEW b \in Nat, NEW p \in Nat, NEW d,
         p = b + q, q + n >= 2,
         Suivent(P, r, q, n), r[1] = "$", q >= 2 => d = [etat |-> 6, cpos |-> b + 1]
  PROVE  DernierAccepte(P, n, p, d) = [etat |-> 6, cpos |-> b + 1]
<1>1. \A j \in 0 .. n - 1 : q + j >= 2 => yy_accept[P[j]] = 0
  <2> SUFFICES ASSUME NEW j \in 0 .. n - 1, q + j >= 2 PROVE yy_accept[P[j]] = 0
    OBVIOUS
  <2>1. q + j \in Nat
    OBVIOUS
  <2>2. P[j] \in {9, 10, 11}
    BY <2>1, MeneTypes DEF Suivent
  <2> QED
    BY <2>2, TableAccept
<1>2. CASE q >= 2
  <2>1. \A j \in 0 .. n - 1 : q + j >= 2
    BY <1>2
  <2> QED
    BY <1>1, <1>2, <2>1, DernierRien
<1>3. CASE q < 2
  <2> PICK i \in Nat : i = 1 - q
    BY <1>3
  <2>1. i \in 0 .. n - 1 /\ q + i = 1 /\ p + i = b + 1
    BY <1>3
  <2>2. Mene(P[i], r, 1)
    BY <2>1 DEF Suivent
  <2>3. P[i] = 6
    BY <2>1, <2>2, MeneTypes DEF Mene
  <2>4. \A k \in 0 .. n - 1 : k <= i \/ q + k >= 2
    BY <1>3
  <2>5. \A k \in 0 .. n - 1 : k <= i \/ yy_accept[P[k]] = 0
    BY <1>1, <2>4
  <2>6. DernierAccepte(P, n, p, d) = [etat |-> P[i], cpos |-> p + i]
    <3>1. yy_accept[P[i]] # 0
      BY <2>3, TableAccept
    <3>2. EstDernier(P, n, i)
      BY <2>1, <2>5, <3>1 DEF EstDernier
    <3> QED
      BY <2>1, <3>2, DernierSeul
  <2> QED
    BY <2>1, <2>3, <2>6
<1> QED
  BY <1>2, <1>3

LEMMA DernierDollarDebut ==
  ASSUME NEW r, NEW n \in Nat, NEW P, NEW b \in Nat, NEW d, n >= 2,
         \A j \in 0 .. n - 1 : Mene(P[j], r, j) /\ P[j] # 12, r[1] = "$"
  PROVE  DernierAccepte(P, n, b, d) = [etat |-> 6, cpos |-> b + 1]
<1>1. 1 \in 0 .. n - 1
  OBVIOUS
<1>2. P[1] = 6
  <2>1. Mene(P[1], r, 1)
    BY <1>1
  <2> QED
    BY <2>1, MeneTypes DEF Mene
<1>3. \A j \in 0 .. n - 1 : j <= 1 \/ yy_accept[P[j]] = 0
  <2> SUFFICES ASSUME NEW j \in 0 .. n - 1, j >= 2 PROVE yy_accept[P[j]] = 0
    OBVIOUS
  <2>1. P[j] \in {9, 10, 11}
    BY MeneTypes
  <2> QED
    BY <2>1, TableAccept
<1>4. EstDernier(P, n, 1)
  BY <1>1, <1>2, <1>3, TableAccept DEF EstDernier
<1> QED
  BY <1>1, <1>2, <1>4, DernierSeul

\* The m first characters of r are in buf, from b on.
Debute(buf, b, r, m) == m <= Len(r) /\ \A k \in 1 .. m : buf[b + k - 1] = r[k]

\* yy_get_previous_state finds the state the text leads to.
LEMMA RepriseMene ==
  ASSUME NEW buf \in Seq(Caracteres), NEW b \in Nat \ {0}, NEW m \in Nat,
         NEW r \in Seq(Caracteres), NEW t, NEW d, Debute(buf, b, r, m), Mene(t, r, m), t # 12
  PROVE  /\ Reprise(buf, b, b + m, d).etat = t
         /\ t \in {9, 10, 11} =>
              Reprise(buf, b, b + m, d).dernier = [etat |-> 6, cpos |-> b + 1]
<1> DEFINE cl == [k \in 1 .. (b + m) - b |-> IF buf[b + k - 1] = NUL THEN 1 ELSE yy_ec[buf[b + k - 1]]]
           P == Parcours(INITIAL, cl)
<1>0. Len(r) \in Nat /\ (b + m) - b = m /\ m <= Len(r) /\ \A k \in 1 .. m : buf[b + k - 1] = r[k]
  BY LenProperties DEF Debute
<1>1. \A k \in 1 .. m : r[k] \in Caracteres /\ cl[k] = Sorte(r[k]) /\ cl[k] \in 0 .. 7
  <2> SUFFICES ASSUME NEW k \in 1 .. m
               PROVE  r[k] \in Caracteres /\ cl[k] = Sorte(r[k]) /\ cl[k] \in 0 .. 7
    OBVIOUS
  <2>1. k \in 1 .. Len(r)
    BY <1>0
  <2>2. r[k] \in Caracteres
    BY <2>1, ElementOfSeq
  <2>3. cl[k] = Sorte(r[k])
    BY <1>0 DEF Sorte
  <2> HIDE DEF cl
  <2> QED
    BY <2>2, <2>3, Sortes
<1>2. Reprise(buf, b, b + m, d) =
        [etat |-> P[Len(cl)], dernier |-> DernierAccepte(P, Len(cl), b, d)]
  BY DEF Reprise
<1>3. cl \in Seq(0 .. 7) /\ Len(cl) = m
  <2>1. cl = [k \in 1 .. m |-> cl[k]]
    BY <1>0
  <2> HIDE DEF cl
  <2>2. cl \in [1 .. m -> 0 .. 7]
    BY <1>1, <2>1
  <2> QED
    BY <2>2, SeqDef, LenProperties
<1> HIDE DEF cl
<1>4. PICK Q : Q = P
  OBVIOUS
<1>5. Q[0] = 1 /\ \A k \in 1 .. m : Q[k] = Vers(Q[k - 1], Sorte(r[k]))
  <2>1. INITIAL \in Etats /\ INITIAL = 1
    BY DEF INITIAL, Etats
  <2> HIDE DEF P
  <2>2. Q = Parcours(INITIAL, cl)
    BY <1>4 DEF P
  <2>3. Q[0] = INITIAL /\ \A k \in 1 .. Len(cl) : Q[k] = Vers(Q[k - 1], cl[k])
    BY <1>3, <2>1, <2>2, ParcoursDeplie
  <2> QED
    BY <1>1, <1>3, <2>1, <2>3
<1>6. \A k \in 0 .. m : Mene(Q[k], r, k)
  <2> DEFINE Bons == {k \in 0 .. m : Mene(Q[k], r, k)}
  <2>1. 0 \in Bons
    BY <1>5 DEF Mene
  <2>2. ASSUME NEW k \in 1 .. m, k - 1 \in Bons PROVE k \in Bons
    <3>1. k - 1 \in Nat /\ (k - 1) + 1 = k /\ k \in 0 .. m
      OBVIOUS
    <3>2. PICK u : Mene(u, r, k)
      BY <3>1, MeneDebut
    <3>3. u = Vers(Q[k - 1], Sorte(r[k]))
      BY <1>1, <2>2, <3>1, <3>2, MeneSuite
    <3> QED
      BY <1>5, <3>1, <3>2, <3>3
  <2>3. Bons \in SUBSET (0 .. m)
    OBVIOUS
  <2> HIDE DEF Bons
  <2>4. Bons = 0 .. m
    BY <2>1, <2>2, <2>3, PremierEchec
  <2> QED
    BY <2>4 DEF Bons
<1>7. Q[m] = t
  BY <1>6, MeneUnique
<1>8. t \in {9, 10, 11} => DernierAccepte(Q, m, b, d) = [etat |-> 6, cpos |-> b + 1]
  <2> SUFFICES ASSUME t \in {9, 10, 11}
               PROVE  DernierAccepte(Q, m, b, d) = [etat |-> 6, cpos |-> b + 1]
    OBVIOUS
  <2>1. m >= 2 /\ r[1] = "$"
    BY MeneTypes
  <2>2. \A j \in 0 .. m - 1 : Mene(Q[j], r, j) /\ Q[j] # 12
    <3> SUFFICES ASSUME NEW j \in 0 .. m - 1 PROVE Mene(Q[j], r, j) /\ Q[j] # 12
      OBVIOUS
    <3>1. Mene(Q[j], r, j) /\ j \in Nat /\ j < m
      BY <1>6
    <3>2. Q[j] # 12
      BY <1>0, <3>1, PaquetBloque
    <3> QED
      BY <3>1, <3>2
  <2> QED
    BY <2>1, <2>2, DernierDollarDebut
<1> QED
  BY <1>2, <1>3, <1>4, <1>7, <1>8

\* Where a text r, that begins at b of a buffer of N characters, is found to end,
\* and in which state: before the NUL at c - 1, or at c, the longest one.
Issue(r, N, b, s, c) ==
  \/ /\ s = 3 /\ c \in b + 1 .. N + 2
     /\ c - 1 <= N => r[c - b] = NUL
     /\ \E t \in Ouverts : Ouvert(t, r, (c - 1) - b)
  \/ /\ s \in {4, 5, 6, 7, 8, 12} /\ c \in b + 1 .. N + 1
     /\ Mene(s, r, c - b)
     /\ s = 12 \/ SansPaquet(r)

\* What is found at the end of a run.
IssueCourse(r, N, b, etat, cp, dernier_) ==
  IF yy_accept[etat] = 0 THEN Issue(r, N, b, dernier_.etat, dernier_.cpos)
  ELSE Issue(r, N, b, etat, cp)

LEMMA EtatsArret ==
  ASSUME NEW x \in {1, 4, 5, 6, 7, 8, 9, 10, 11, 12}, x # 1, yy_base[x] = 14
  PROVE  x \in {4, 5, 7, 8, 12}
BY TableBase

LEMMA ClasseNul == yy_ec[NUL] = 0
BY DEF yy_ec, NUL, Caracteres

LEMMA CourseIssue ==
  ASSUME NEW buf \in Seq(Caracteres), NEW N \in Nat, NEW b \in 1 .. N + 1, NEW p \in b .. N + 1,
         NEW r \in Seq(Caracteres), NEW s, NEW d,
         Len(buf) = N + 2, buf[N + 1] = NUL,
         Len(r) >= (N + 1) - b, \A k \in 1 .. (N + 1) - b : r[k] = buf[b + k - 1],
         Ouvert(s, r, p - b), s \in {9, 10, 11} => d = [etat |-> 6, cpos |-> b + 1]
  PROVE  /\ Course(buf, p, s, d).etat \in Etats
         /\ Course(buf, p, s, d).cp \in p .. N + 3
         /\ IssueCourse(r, N, b, Course(buf, p, s, d).etat, Course(buf, p, s, d).cp,
                        Course(buf, p, s, d).dernier)
<1> DEFINE cl == Classes(buf, p, Len(buf) + 1)
           P == Parcours(s, cl)
<1>q. PICK q \in Nat : q = p - b
  OBVIOUS
<1>M. PICK M \in Nat : M = (N + 3) - p
  OBVIOUS
<1>0. /\ M >= 2 /\ p \in Nat /\ b \in Nat /\ b >= 1 /\ p <= N + 1 /\ p >= b
      /\ Len(r) \in Nat /\ p = b + q /\ M - 1 \in Nat /\ p + (M - 1) - 1 = N + 1
  BY <1>q, <1>M, LenProperties
<1>1. \A k \in 1 .. M : buf[p + k - 1] \in Caracteres
  <2>1. \A k \in 1 .. M : p + k - 1 \in 1 .. Len(buf)
    BY <1>0, <1>M
  <2> QED
    BY <2>1, ElementOfSeq
<1>2. cl \in Seq(0 .. 7) /\ Len(cl) = M /\ \A k \in 1 .. M : cl[k] = yy_ec[buf[p + k - 1]]
  <2>1. cl = [k \in 1 .. M |-> yy_ec[buf[p + k - 1]]]
    <3>1. (Len(buf) + 1) - p = M
      BY <1>0, <1>M
    <3> QED
      BY <3>1 DEF Classes
  <2> HIDE DEF cl
  <2>2. \A k \in 1 .. M : yy_ec[buf[p + k - 1]] \in 0 .. 7
    BY <1>1, Sortes
  <2>3. cl \in [1 .. M -> 0 .. 7]
    BY <2>1, <2>2
  <2>4. cl \in Seq(0 .. 7) /\ Len(cl) = M
    BY <2>3, SeqDef, LenProperties
  <2> QED
    BY <2>1, <2>4
<1>3. \A k \in 1 .. (N + 1) - p : r[q + k] = buf[p + k - 1] /\ q + k \in 1 .. Len(r)
  <2>1. \A k \in 1 .. (N + 1) - p : q + k \in 1 .. (N + 1) - b /\ b + (q + k) - 1 = p + k - 1
    BY <1>0, <1>q
  <2>2. \A k \in 1 .. (N + 1) - b : k \in 1 .. Len(r)
    BY <1>0
  <2> QED
    BY <2>1, <2>2
<1>4. s \in Ouverts /\ s \in Etats /\ Mene(s, r, q) /\ (s = 4 => r[1] = NUL)
  BY <1>q DEF Ouvert, Ouverts, Etats
<1> HIDE DEF cl
<1>5. PICK Q : Q = P
  OBVIOUS
<1>6. Q[0] = s /\ \A k \in 0 .. M : Q[k] \in Etats
  <2>1. Q \in [0 .. Len(cl) -> Etats] /\ Q[0] = s
    BY <1>2, <1>4, <1>5, ParcoursDeplie
  <2> QED
    BY <1>2, <2>1
<1>7. \A k \in 1 .. M : Q[k] = Vers(Q[k - 1], yy_ec[buf[p + k - 1]])
  <2>1. \A k \in 1 .. Len(cl) : Q[k] = Vers(Q[k - 1], cl[k])
    BY <1>2, <1>4, <1>5, ParcoursDeplie
  <2> QED
    BY <1>2, <2>1
\* The first NUL.
<1>10. PICK e \in 1 .. M - 1 : /\ buf[p + e - 1] = NUL
                               /\ \A j \in 1 .. e - 1 : buf[p + j - 1] # NUL
  <2> DEFINE E == {k \in 1 .. M - 1 : buf[p + k - 1] = NUL}
  <2>1. M - 1 \in E
    BY <1>0
  <2>2. E \subseteq Nat /\ E # {} /\ E \subseteq 1 .. M - 1
    <3>1. E \subseteq 1 .. M - 1
      OBVIOUS
    <3> HIDE DEF E
    <3> QED
      BY <2>1, <3>1
  <2>3. \A k \in 1 .. M - 1 : buf[p + k - 1] = NUL <=> k \in E
    OBVIOUS
  <2> HIDE DEF E
  <2>4. PICK e \in E : \A j \in E : e <= j
    BY <2>2, Minimum
  <2>5. e \in 1 .. M - 1
    BY <2>2
  <2>6. \A j \in 1 .. e - 1 : j \in 1 .. M - 1 /\ ~(e <= j)
    BY <1>0, <2>5
  <2> QED
    BY <2>3, <2>4, <2>5, <2>6
<1>11. /\ e \in Nat /\ e >= 1 /\ e + 1 <= M /\ e - 1 \in 0 .. M /\ e \in 1 .. M /\ e + 1 \in 1 .. M
       /\ (e + 1) - 1 = e
  BY <1>0, <1>10
<1>12. Q[e] = Vers(Q[e - 1], 0)
  BY <1>7, <1>10, <1>11, ClasseNul
<1>13. Q[e] = 3 => Q[e + 1] = 13
  <2>1. Q[e + 1] = Vers(Q[e], yy_ec[buf[p + (e + 1) - 1]])
    BY <1>7, <1>11
  <2> QED
    BY <2>1 DEF Vers
<1>8. /\ Arret(Q, M) \in 1 .. M /\ Arret(Q, M) <= e + 1
      /\ yy_base[Q[Arret(Q, M)]] = 14 /\ \A j \in 1 .. Arret(Q, M) - 1 : yy_base[Q[j]] # 14
  <2>1. Q[e - 1] \in Etats
    BY <1>6, <1>11
  <2>2. Q[e] \in {3, 13}
    BY <1>12, <2>1 DEF Vers, Etats
  <2>3. yy_base[Q[e]] = 14 \/ yy_base[Q[e + 1]] = 14
    BY <1>13, <2>2, TableBase
  <2>4. \E i \in {e, e + 1} : i \in 1 .. M /\ yy_base[Q[i]] = 14
    BY <1>11, <2>3
  <2>0. PICK a : a = Arret(Q, M)
    OBVIOUS
  <2>5. a \in 1 .. M /\ yy_base[Q[a]] = 14 /\ \A j \in 1 .. a - 1 : yy_base[Q[j]] # 14
    BY <2>0, <2>4, ArretPremier
  <2>6. e + 1 < a => e \in 1 .. a - 1 /\ e + 1 \in 1 .. a - 1
    BY <1>11, <2>5
  <2>7. ~(e + 1 < a)
    BY <2>3, <2>5, <2>6
  <2> QED
    BY <1>11, <2>0, <2>5, <2>7
<1>a. PICK a \in Nat \ {0} : a = Arret(Q, M)
  BY <1>8
<1>14. /\ a \in 1 .. M /\ a <= e + 1
       /\ yy_base[Q[a]] = 14 /\ \A j \in 1 .. a - 1 : yy_base[Q[j]] # 14
  BY <1>8, <1>a
<1>9. Course(buf, p, s, d) = [etat |-> Q[a], cp |-> p + a, dernier |-> DernierAccepte(Q, a, p, d)]
  BY <1>2, <1>5, <1>a DEF Course, cl
<1> HIDE DEF P
\* Before it, the states the text leads to.
<1>15. \A j \in 0 .. M : (j < a /\ j < e) =>
          Mene(Q[j], r, q + j) /\ Q[j] \in Ouverts /\ (j >= 1 => Q[j] \notin {1, 4})
  <2> DEFINE R(j) == Mene(Q[j], r, q + j) /\ Q[j] \in Ouverts /\ (j >= 1 => Q[j] \notin {1, 4})
             Bons == {j \in 0 .. M : (j < a /\ j < e) => R(j)}
  <2>1. 0 \in Bons
    <3>1. q + 0 = q /\ ~(0 >= 1) /\ 0 \in 0 .. M
      OBVIOUS
    <3>2. R(0)
      BY <1>4, <1>6, <3>1
    <3> HIDE DEF R
    <3> QED
      BY <3>1, <3>2
  <2>2. ASSUME NEW j \in 1 .. M, j - 1 \in Bons PROVE j \in Bons
    <3> SUFFICES ASSUME j < a, j < e PROVE R(j)
      BY <2>2
    <3>1. /\ j - 1 < a /\ j - 1 < e /\ j - 1 \in 0 .. M /\ j \in 1 .. a - 1 /\ j \in 1 .. e - 1
          /\ j >= 1 /\ q + (j - 1) \in Nat /\ (q + (j - 1)) + 1 = q + j /\ j \in 1 .. (N + 1) - p
      BY <1>0, <1>M, <1>11, <1>14
    <3>2. R(j - 1)
      BY <2>2, <3>1
    <3>3. buf[p + j - 1] # NUL /\ buf[p + j - 1] \in Caracteres /\ r[q + j] = buf[p + j - 1]
      BY <1>1, <1>3, <1>10, <3>1
    <3>4. yy_ec[buf[p + j - 1]] = Sorte(r[q + j])
      BY <3>3, Sortes
    <3>5. Q[j] = Vers(Q[j - 1], Sorte(r[q + j]))
      BY <1>7, <3>4
    <3>6. Q[j] = 13 \/ Mene(Q[j], r, q + j)
      BY <3>1, <3>2, <3>3, <3>5, MenePas
    <3>7. yy_base[Q[j]] # 14
      BY <1>14, <3>1
    <3>8. Mene(Q[j], r, q + j)
      BY <3>6, <3>7, TableBase
    <3>9. Q[j] \in {6, 9, 10, 11}
      <4>1. q + j \in Nat /\ q + j # 0
        BY <3>1
      <4>2. Q[j] \in {1, 4, 5, 6, 7, 8, 9, 10, 11, 12} /\ Q[j] # 1
        BY <3>8, <4>1, MeneTypes
      <4> QED
        BY <3>7, <4>2, TableBase
    <3> QED
      BY <3>8, <3>9 DEF Ouverts
  <2>3. Bons \in SUBSET (0 .. M)
    OBVIOUS
  <2> HIDE DEF Bons
  <2>4. Bons = 0 .. M
    BY <2>1, <2>2, <2>3, PremierEchec
  <2> QED
    BY <2>4 DEF Bons
<1>16. Q[a] \in Etats /\ p + a \in p .. N + 3
  BY <1>0, <1>M, <1>6, <1>14
<1>17. SUFFICES IssueCourse(r, N, b, Q[a], p + a, DernierAccepte(Q, a, p, d))
  BY <1>9, <1>16
<1>18. CASE a < e
  <2>1. /\ a - 1 \in 0 .. M /\ a - 1 < a /\ a - 1 < e /\ a \in 1 .. e - 1 /\ a \in 1 .. (N + 1) - p
        /\ q + (a - 1) \in Nat /\ (q + (a - 1)) + 1 = q + a /\ p + a \in b + 1 .. N + 1
        /\ (p + a) - b = q + a /\ q + (a - 1) < Len(r) /\ q + a \in Nat /\ q + a >= 1
        /\ b + 1 \in b + 1 .. N + 1 /\ (b + 1) - b = 1
    BY <1>0, <1>q, <1>M, <1>11, <1>14, <1>18
  <2>2. /\ Mene(Q[a - 1], r, q + (a - 1)) /\ Q[a - 1] \in Ouverts
        /\ (a - 1 >= 1 => Q[a - 1] \notin {1, 4})
    BY <1>15, <2>1
  <2>3. buf[p + a - 1] # NUL /\ buf[p + a - 1] \in Caracteres /\ r[q + a] = buf[p + a - 1]
    BY <1>1, <1>3, <1>10, <1>14, <2>1
  <2>4. yy_ec[buf[p + a - 1]] = Sorte(r[q + a]) /\ Sorte(r[q + a]) \in 1 .. 7
    BY <2>3, Sortes
  <2>5. Q[a] = Vers(Q[a - 1], Sorte(r[q + a]))
    BY <1>7, <1>14, <2>4
  <2>6. Q[a] = 13 \/ Mene(Q[a], r, q + a)
    BY <2>1, <2>2, <2>3, <2>5, MenePas
  <2>7. CASE Q[a] # 13
    <3>1. Mene(Q[a], r, q + a)
      BY <2>6, <2>7
    <3>2. Q[a] \in {1, 4, 5, 6, 7, 8, 9, 10, 11, 12} /\ Q[a] # 1
      BY <2>1, <3>1, MeneTypes
    <3>3. Q[a] \in {4, 5, 7, 8, 12}
      <4>1. yy_base[Q[a]] = 14
        BY <1>14
      <4> QED
        BY <3>2, <4>1, EtatsArret
    <3>4. yy_accept[Q[a]] # 0
      BY <3>3, TableAccept
    <3>5. Q[a] = 12 \/ r[1] # "$"
      BY <2>1, <3>1, <3>3, MeneTypes
    <3>6. Q[a] = 12 \/ SansPaquet(r)
      BY <3>5, SansDollar
    <3>7. Issue(r, N, b, Q[a], p + a)
      BY <2>1, <3>1, <3>3, <3>6 DEF Issue
    <3> QED
      BY <3>4, <3>7 DEF IssueCourse
  <2>8. CASE Q[a] = 13
    <3>1. Q[a - 1] \in {4, 6, 9, 10, 11}
      BY <2>2, <2>4, <2>5, <2>8 DEF Ouverts, Vers
    <3>2. SansPaquet(r)
      <4>1. Q[a - 1] # 12 /\ Vers(Q[a - 1], Sorte(r[(q + (a - 1)) + 1])) = 13
        <5>1. Q[a - 1] # 12
          BY <3>1
        <5>2. Vers(Q[a - 1], Sorte(r[q + a])) = 13
          BY <2>5, <2>8
        <5> QED
          BY <2>1, <5>1, <5>2
      <4> QED
        BY <2>1, <2>2, <4>1, SansSuite
    <3>3. CASE Q[a - 1] = 4
      <4>1. a = 1 /\ a - 1 = 0
        BY <1>14, <2>2, <3>3
      <4>2. Q[0] = 4 /\ Mene(4, r, q)
        BY <1>4, <1>6, <3>3, <4>1
      <4>3. q = 1 /\ p = b + 1
        BY <1>0, <4>2, MeneTypes
      <4>4. yy_accept[Q[a - 1]] # 0
        BY <3>3, TableAccept
      <4>5. DernierAccepte(Q, a, p, d) = [etat |-> Q[a - 1], cpos |-> p + (a - 1)]
        BY <4>4, DernierDernier
      <4>6. p + (a - 1) = b + 1
        BY <1>0, <4>1, <4>3
      <4>7. DernierAccepte(Q, a, p, d) = [etat |-> 4, cpos |-> b + 1]
        BY <3>3, <4>5, <4>6
      <4>8. Issue(r, N, b, 4, b + 1)
        BY <2>1, <3>2, <4>2, <4>3 DEF Issue
      <4> QED
        BY <2>8, <4>7, <4>8, TableAccept DEF IssueCourse
    <3>4. CASE Q[a - 1] \in {6, 9, 10, 11}
      <4>1. r[1] = "$" /\ q + (a - 1) >= 1
        BY <2>1, <2>2, <3>4, MeneTypes
      <4>2. \A j \in 0 .. a - 1 : Mene(Q[j], r, q + j) /\ Q[j] # 12
        <5>1. SUFFICES ASSUME NEW j \in 0 .. a - 1 PROVE Mene(Q[j], r, q + j) /\ Q[j] # 12
          OBVIOUS
        <5>2. j \in 0 .. M /\ j < a /\ j < e
          BY <1>11, <1>14, <1>18
        <5>3. Mene(Q[j], r, q + j) /\ Q[j] \in Ouverts
          BY <1>15, <5>2
        <5> QED
          BY <5>3 DEF Ouverts
      <4>3. q + a >= 2 /\ a \in Nat /\ p = b + q /\ b \in Nat /\ p \in Nat
        BY <1>0, <1>14, <2>1, <4>1
      <4>4. q >= 2 => d = [etat |-> 6, cpos |-> b + 1]
        <5>1. SUFFICES ASSUME q >= 2 PROVE d = [etat |-> 6, cpos |-> b + 1]
          BY <4>3
        <5>2. s \in {9, 10, 11, 12}
          BY <1>4, <5>1, MeneTypes
        <5> QED
          BY <1>4, <5>2 DEF Ouverts
      <4>5. DernierAccepte(Q, a, p, d) = [etat |-> 6, cpos |-> b + 1]
        <5>1. Suivent(Q, r, q, a)
          BY <4>2 DEF Suivent
        <5> QED
          BY <4>1, <4>3, <4>4, <5>1, DernierDollar
      <4>6. Mene(6, r, 1)
        BY <4>1 DEF Mene
      <4>7. Issue(r, N, b, 6, b + 1)
        BY <2>1, <3>2, <4>6 DEF Issue
      <4> QED
        BY <2>8, <4>3, <4>5, <4>7, TableAccept DEF IssueCourse
    <3> QED
      BY <3>1, <3>3, <3>4
  <2> QED
    BY <2>7, <2>8
<1>19. CASE e <= a
  <2>1. /\ e - 1 \in 0 .. M /\ e - 1 < a /\ e - 1 < e /\ q + (e - 1) \in Nat
        /\ p + e \in b + 1 .. N + 2 /\ ((p + e) - 1) - b = q + (e - 1) /\ (p + e) - b = q + e
        /\ ((p + e) - 1 <= N => e \in 1 .. (N + 1) - p) /\ p + e - 1 = (p + e) - 1
    BY <1>0, <1>q, <1>M, <1>11, <1>14, <1>10, <1>19
  <2>2. /\ Mene(Q[e - 1], r, q + (e - 1)) /\ Q[e - 1] \in Ouverts
        /\ (e - 1 >= 1 => Q[e - 1] \notin {1, 4})
    BY <1>15, <2>1
  <2>3. Q[e] = 3 /\ Q[e + 1] = 13
    <3>1. Vers(Q[e - 1], 0) = 3
      BY <2>2 DEF Vers, Ouverts
    <3> QED
      BY <1>12, <1>13, <3>1
  <2>4. a = e + 1
    <3>1. a # e
      BY <1>14, <2>3, TableBase
    <3> QED
      BY <1>11, <1>14, <1>19, <3>1
  <2>5. a - 1 = e /\ yy_accept[Q[a - 1]] # 0
    BY <1>11, <2>3, <2>4, TableAccept
  <2>6. DernierAccepte(Q, a, p, d) = [etat |-> 3, cpos |-> p + e]
    <3>1. DernierAccepte(Q, a, p, d) = [etat |-> Q[a - 1], cpos |-> p + (a - 1)]
      BY <2>5, DernierDernier
    <3> QED
      BY <2>3, <2>5, <3>1
  <2>7. (p + e) - 1 <= N => r[(p + e) - b] = NUL
    BY <1>3, <1>10, <2>1
  <2>8. Ouvert(Q[e - 1], r, ((p + e) - 1) - b)
    <3>1. Q[e - 1] = 4 => r[1] = NUL
      <4>1. SUFFICES ASSUME Q[e - 1] = 4 PROVE r[1] = NUL
        OBVIOUS
      <4>2. e - 1 = 0
        BY <1>11, <2>2, <4>1
      <4> QED
        BY <1>4, <1>6, <4>1, <4>2
    <3> QED
      BY <2>1, <2>2, <3>1 DEF Ouvert
  <2>9. Issue(r, N, b, 3, p + e)
    BY <2>1, <2>2, <2>7, <2>8 DEF Issue
  <2>10. yy_accept[Q[a]] = 0
    BY <2>3, <2>4, TableAccept
  <2> QED
    BY <2>6, <2>9, <2>10 DEF IssueCourse
<1> QED
  BY <1>11, <1>14, <1>18, <1>19

-----------------------------------------------------------------------------
(***************************************************************************)
(* The invariant.                                                          *)
(***************************************************************************)

\* The buffer, its end, the room allocated.
Types ==
  /\ flux \in Seq(Caracteres) /\ yy_buf_size \in Nat \ {0}
  /\ yy_ch_buf \in Seq(Caracteres) /\ yy_n_chars \in 0 .. yy_buf_size
  /\ yy_ch_buf[yy_n_chars + 1] = NUL /\ yy_ch_buf[yy_n_chars + 2] = NUL
  /\ yy_buffer_status \in {"new", "normal", "eof_pending"}
  /\ yy_buffer_status = "eof_pending" => flux = <<>>
  /\ yy_hold_char \in Caracteres
  /\ yytext_ptr \in 1 .. yy_n_chars + 2

\* What is found of the text that begins at yy_bp.
Choix(s, c) == Issue(Reste, yy_n_chars, yy_bp, s, c)

\* Between two texts.
Dehors ==
  /\ yy_c_buf_p \in 1 .. yy_n_chars + 1
  /\ yy_c_buf_p > yy_n_chars => yy_hold_char = NUL

\* Before the automaton runs: it is where the text leads, and its last accepting
\* state is that of the dollar.
Avance ==
  /\ yy_c_buf_p \in 1 .. yy_n_chars + 2
  /\ yy_bp \in 1 .. yy_n_chars + 1 /\ yy_cp \in yy_bp .. yy_n_chars + 1
  /\ Ouvert(yy_current_state, Reste, yy_cp - yy_bp)
  /\ yy_current_state \in {9, 10, 11} => dernier = [etat |-> 6, cpos |-> yy_bp + 1]

\* After it has run.
Arrete ==
  /\ yy_c_buf_p \in 1 .. yy_n_chars + 2
  /\ yy_bp \in 1 .. yy_n_chars + 1 /\ yy_cp \in yy_bp .. yy_n_chars + 3
  /\ yy_current_state \in Etats
  /\ IssueCourse(Reste, yy_n_chars, yy_bp, yy_current_state, yy_cp, dernier)

\* The end of the text is known, a NUL stands there.
Choisi ==
  /\ yy_bp \in 1 .. yy_n_chars + 1
  /\ yytext_ptr = yy_bp /\ yy_c_buf_p = yy_cp
  /\ yy_c_buf_p > yy_n_chars => yy_hold_char = NUL
  /\ yy_act = yy_accept[yy_current_state] /\ Choix(yy_current_state, yy_cp)

\* The whole buffer is the beginning of a text, and there is room to read in.
Vide ==
  /\ yytext_ptr = 1 /\ ~Manque(yy_buf_size, yy_n_chars)
  /\ \E t \in Ouverts : Ouvert(t, Reste, yy_n_chars)

Inv ==
  /\ Types
  /\ \/ pc \in {"boucle", "retour"} /\ Dehors
     \/ pc = "yy_match" /\ Avance
     \/ pc = "yy_find_action" /\ Arrete
     \/ pc = "do_action" /\ Choisi
     \/ pc \in {"lecture", "exit"} /\ Vide

-----------------------------------------------------------------------------
(* What is left of the stream: the text under way, then what is to be read. *)

LEMMA SuiteLue ==
  ASSUME NEW S, NEW buf \in Seq(S), NEW n \in Nat, n <= Len(buf), NEW b \in 1 .. n + 1,
         NEW f \in Seq(S)
  PROVE  /\ SubSeq(buf, b, n) \in Seq(S) /\ Len(SubSeq(buf, b, n)) = (n + 1) - b
         /\ \A k \in 1 .. (n + 1) - b : SubSeq(buf, b, n)[k] = buf[b + k - 1]
         /\ SubSeq(buf, b, n) \o f \in Seq(S)
         /\ Len(SubSeq(buf, b, n) \o f) = ((n + 1) - b) + Len(f)
         /\ \A k \in 1 .. (n + 1) - b : (SubSeq(buf, b, n) \o f)[k] = buf[b + k - 1]
         /\ \A k \in 1 .. Len(f) : (SubSeq(buf, b, n) \o f)[((n + 1) - b) + k] = f[k]
<1> DEFINE t == SubSeq(buf, b, n)
<1>0. Len(buf) \in Nat /\ Len(f) \in Nat /\ b \in Int /\ n \in Int
  BY LenProperties
<1>1. \A i \in b .. n : buf[i] \in S
  BY <1>0, ElementOfSeq
<1>2. t \in Seq(S) /\ Len(t) = (IF b <= n THEN n - b + 1 ELSE 0)
      /\ \A k \in 1 .. n - b + 1 : t[k] = buf[b + k - 1]
  BY <1>0, <1>1, SubSeqProperties
<1> HIDE DEF t
<1>3. Len(t) = (n + 1) - b /\ n - b + 1 = (n + 1) - b /\ (n + 1) - b \in Nat
  BY <1>0, <1>2
<1>4. /\ t \o f \in Seq(S) /\ Len(t \o f) = Len(t) + Len(f)
      /\ \A i \in 1 .. Len(t) + Len(f) : (t \o f)[i] = IF i <= Len(t) THEN t[i] ELSE f[i - Len(t)]
  BY <1>2, ConcatProperties
<1>5. PICK m \in Nat : m = (n + 1) - b
  BY <1>3
<1>6. \A k \in 1 .. m : k \in 1 .. m + Len(f) /\ k <= m
  BY <1>0
<1>7. \A k \in 1 .. Len(f) : m + k \in 1 .. m + Len(f) /\ ~(m + k <= m) /\ (m + k) - m = k
  BY <1>0
<1>8. \A k \in 1 .. m : (t \o f)[k] = buf[b + k - 1]
  BY <1>2, <1>3, <1>4, <1>5, <1>6
<1>9. \A k \in 1 .. Len(f) : (t \o f)[m + k] = f[k]
  BY <1>3, <1>4, <1>5, <1>7
<1> QED
  BY <1>2, <1>3, <1>4, <1>5, <1>8, <1>9 DEF t

\* The buffer without its two end-of-buffer characters.
LEMMA TamponLu ==
  ASSUME Types
  PROVE  /\ yy_n_chars \in Nat /\ Len(yy_ch_buf) = yy_n_chars + 2 /\ yy_n_chars <= Len(yy_ch_buf)
         /\ yy_n_chars <= yy_buf_size /\ yy_n_chars + 1 \in 1 .. Len(yy_ch_buf)
         /\ yy_n_chars + 2 \in 1 .. Len(yy_ch_buf)
<1>1. Len(yy_ch_buf) \in Nat
  BY LenProperties DEF Types
<1>2. yy_n_chars \in Nat /\ yy_n_chars <= yy_buf_size
  BY DEF Types
<1>3. yy_n_chars = Len(yy_ch_buf) - 2
  BY DEF yy_n_chars
<1> QED
  BY <1>1, <1>2, <1>3

LEMMA NulCaractere == NUL \in Caracteres /\ Fin2 \in Seq(Caracteres) /\ Len(Fin2) = 2
                      /\ Fin2[1] = NUL /\ Fin2[2] = NUL
BY DEF Caracteres, Fin2

\* The character that ends yytext put back.
LEMMA Remis ==
  ASSUME Types, NEW p \in 1 .. yy_n_chars + 2, p > yy_n_chars => yy_hold_char = NUL
  PROVE  LET b == [yy_ch_buf EXCEPT ![p] = yy_hold_char]
         IN  /\ b \in Seq(Caracteres) /\ Len(b) = yy_n_chars + 2 /\ Len(b) = Len(yy_ch_buf)
             /\ b[yy_n_chars + 1] = NUL /\ b[yy_n_chars + 2] = NUL
<1> DEFINE b == [yy_ch_buf EXCEPT ![p] = yy_hold_char]
<1>1. /\ yy_n_chars \in Nat /\ Len(yy_ch_buf) = yy_n_chars + 2
      /\ yy_n_chars + 1 \in 1 .. Len(yy_ch_buf) /\ yy_n_chars + 2 \in 1 .. Len(yy_ch_buf)
  BY TamponLu
<1>2. p \in 1 .. Len(yy_ch_buf) /\ yy_ch_buf \in Seq(Caracteres) /\ yy_hold_char \in Caracteres
  BY <1>1 DEF Types
<1>3. /\ b \in Seq(Caracteres) /\ Len(b) = Len(yy_ch_buf)
      /\ \A j \in 1 .. Len(yy_ch_buf) : b[j] = IF j = p THEN yy_hold_char ELSE yy_ch_buf[j]
  BY <1>2, ExceptSeq
<1> HIDE DEF b
<1>4. yy_ch_buf[yy_n_chars + 1] = NUL /\ yy_ch_buf[yy_n_chars + 2] = NUL
  BY DEF Types
<1>5. b[yy_n_chars + 1] = NUL
  <2>1. p = yy_n_chars + 1 => p > yy_n_chars
    BY <1>1
  <2> QED
    BY <1>1, <1>3, <1>4, <2>1
<1>6. b[yy_n_chars + 2] = NUL
  <2>1. p = yy_n_chars + 2 => p > yy_n_chars
    BY <1>1
  <2> QED
    BY <1>1, <1>3, <1>4, <2>1
<1> QED
  BY <1>1, <1>3, <1>5, <1>6 DEF b

\* The text under way, read from a buffer that holds it.
LEMMA ResteLu ==
  ASSUME Types, NEW buf \in Seq(Caracteres), Len(buf) = yy_n_chars + 2,
         NEW b \in 1 .. yy_n_chars + 1, Contenu = buf, DebutTexte = b
  PROVE  /\ TexteEnCours = SubSeq(buf, b, yy_n_chars) /\ Reste = SubSeq(buf, b, yy_n_chars) \o flux
         /\ TexteEnCours \in Seq(Caracteres) /\ Len(TexteEnCours) = (yy_n_chars + 1) - b
         /\ Reste \in Seq(Caracteres) /\ Len(Reste) = ((yy_n_chars + 1) - b) + Len(flux)
         /\ Len(flux) \in Nat /\ Len(Reste) >= (yy_n_chars + 1) - b
         /\ \A k \in 1 .. (yy_n_chars + 1) - b :
              Reste[k] = buf[b + k - 1] /\ TexteEnCours[k] = buf[b + k - 1]
         /\ \A k \in 1 .. Len(flux) : Reste[((yy_n_chars + 1) - b) + k] = flux[k]
<1>1. yy_n_chars \in Nat /\ yy_n_chars <= Len(buf) /\ flux \in Seq(Caracteres)
  BY TamponLu DEF Types
<1>2. TexteEnCours = SubSeq(buf, b, yy_n_chars) /\ Reste = SubSeq(buf, b, yy_n_chars) \o flux
  BY DEF TexteEnCours, Reste
<1>3. Len(flux) \in Nat
  BY <1>1, LenProperties
<1> HIDE DEF yy_n_chars
<1>4. PICK n \in Nat : n = yy_n_chars
  BY <1>1
<1>5. n <= Len(buf) /\ b \in 1 .. n + 1
  BY <1>1, <1>4
<1>6. /\ SubSeq(buf, b, n) \in Seq(Caracteres) /\ Len(SubSeq(buf, b, n)) = (n + 1) - b
      /\ \A k \in 1 .. (n + 1) - b : SubSeq(buf, b, n)[k] = buf[b + k - 1]
      /\ SubSeq(buf, b, n) \o flux \in Seq(Caracteres)
      /\ Len(SubSeq(buf, b, n) \o flux) = ((n + 1) - b) + Len(flux)
      /\ \A k \in 1 .. (n + 1) - b : (SubSeq(buf, b, n) \o flux)[k] = buf[b + k - 1]
      /\ \A k \in 1 .. Len(flux) : (SubSeq(buf, b, n) \o flux)[((n + 1) - b) + k] = flux[k]
  BY <1>1, <1>5, SuiteLue
<1>7. ((n + 1) - b) + Len(flux) >= (n + 1) - b
  BY <1>3
<1> QED
  BY <1>2, <1>3, <1>4, <1>6, <1>7

-----------------------------------------------------------------------------
(* The growth of the buffer. *)

\* The buffer is doubled until there is room.
LEMMA Agrandissement ==
  ASSUME NEW taille \in Nat \ {0}, NEW k \in Nat
  PROVE  /\ Agrandi(taille, k) \in Nat \ {0} /\ ~Manque(Agrandi(taille, k), k)
         /\ k <= Agrandi(taille, k)
<1> DEFINE R(T) == T = [i \in 0 .. k + 1 |-> IF i = 0 THEN taille ELSE 2 * T[i - 1]]
           f == [x \in Nat \X {0} |-> 2 * x[1]]
           s == [i \in 1 .. k + 1 |-> 0]
<1>1. s \in Seq({0}) /\ Len(s) = k + 1 /\ \A i \in 1 .. k + 1 : s[i] = 0
  <2>1. s \in [1 .. k + 1 -> {0}] /\ k + 1 \in Nat
    OBVIOUS
  <2>2. s \in Seq({0})
    BY <2>1, SeqDef
  <2>3. DOMAIN s = 1 .. k + 1 /\ DOMAIN s = 1 .. Len(s) /\ Len(s) \in Nat
    BY <2>1, <2>2, LenProperties
  <2> QED
    BY <2>1, <2>2, <2>3
<1>2. f \in [Nat \X {0} -> Nat] /\ \A x \in Nat : f[<<x, 0>>] = 2 * x
  OBVIOUS
<1>3. taille \in Nat
  OBVIOUS
<1> HIDE DEF f, s
<1>4. PICK g \in [0 .. k + 1 -> Nat] : Etapes(g, f, taille, s, k + 1)
  <2>1. PICK E : E = {0}
    OBVIOUS
  <2>2. s \in Seq(E) /\ f \in [Nat \X E -> Nat]
    BY <1>1, <1>2, <2>1
  <2>3. \E g \in [0 .. Len(s) -> Nat] : Etapes(g, f, taille, s, Len(s))
    BY <1>3, <2>2, EtapesExistent
  <2> QED
    BY <1>1, <2>3
<1>5. R(g)
  <2>1. g[0] = taille /\ \A m \in 1 .. k + 1 : g[m] = f[<<g[m - 1], s[m]>>]
    BY <1>4 DEF Etapes
  <2>2. \A m \in 1 .. k + 1 : g[m] = 2 * g[m - 1]
    <3> SUFFICES ASSUME NEW m \in 1 .. k + 1 PROVE g[m] = 2 * g[m - 1]
      OBVIOUS
    <3>1. m - 1 \in 0 .. k + 1 /\ s[m] = 0
      BY <1>1
    <3> QED
      BY <1>2, <2>1, <3>1
  <2>3. \A m \in 0 .. k + 1 : m = 0 \/ m \in 1 .. k + 1
    OBVIOUS
  <2> QED
    BY <2>1, <2>2, <2>3
<1>6. PICK T : T = CHOOSE T_ : R(T_)
  OBVIOUS
<1>7. R(T)
  <2> HIDE DEF R
  <2> QED
    BY <1>5, <1>6
<1>8. T[0] = taille /\ \A m \in 1 .. k + 1 : T[m] = 2 * T[m - 1]
  <2>1. 0 \in 0 .. k + 1 /\ \A m \in 1 .. k + 1 : m \in 0 .. k + 1 /\ m # 0
    OBVIOUS
  <2> QED
    BY <1>7, <2>1
<1>9. \A m \in 0 .. k + 1 : T[m] \in Nat /\ T[m] >= m + 1
  <2> DEFINE Bons == {m \in 0 .. k + 1 : T[m] \in Nat /\ T[m] >= m + 1}
  <2>1. 0 \in Bons
    BY <1>8
  <2>2. \A m \in 1 .. k + 1 : m - 1 \in Bons => m \in Bons
    <3> SUFFICES ASSUME NEW m \in 1 .. k + 1, m - 1 \in Bons PROVE m \in Bons
      OBVIOUS
    <3>1. T[m - 1] \in Nat /\ T[m - 1] >= (m - 1) + 1 /\ T[m] = 2 * T[m - 1]
      BY <1>8
    <3>2. T[m] \in Nat /\ T[m] >= m + 1
      BY <3>1
    <3> QED
      BY <3>2
  <2>3. Bons \in SUBSET (0 .. k + 1) /\ k + 1 \in Nat
    OBVIOUS
  <2> HIDE DEF Bons
  <2>4. Bons = 0 .. k + 1
    BY <2>1, <2>2, <2>3, PremierEchec
  <2> QED
    BY <2>4 DEF Bons
<1> DEFINE I == {i \in 0 .. k + 1 : ~Manque(T[i], k)}
<1>10. k + 1 \in I
  <2>1. T[k + 1] \in Nat /\ T[k + 1] >= (k + 1) + 1
    BY <1>9
  <2> QED
    BY <2>1 DEF Manque
<1>11. I \subseteq Nat /\ I # {} /\ \A i \in I : i \in 0 .. k + 1 /\ ~Manque(T[i], k)
  BY <1>10
<1>12. Agrandi(taille, k) = T[CHOOSE i \in I : \A j \in I : i <= j]
  <2> HIDE DEF R
  <2>1. Agrandi(taille, k) =
          LET T_ == CHOOSE T_ : R(T_)
              I_ == {i \in 0 .. k + 1 : ~Manque(T_[i], k)}
          IN  T_[CHOOSE i \in I_ : \A j \in I_ : i <= j]
    BY DEF Agrandi, R
  <2> QED
    BY <1>6, <2>1
<1> HIDE DEF I, R
<1>13. \E i \in I : \A j \in I : i <= j
  BY <1>11, Minimum
<1>14. PICK i \in I : Agrandi(taille, k) = T[i]
  BY <1>12, <1>13
<1>15. T[i] \in Nat /\ T[i] >= i + 1 /\ i \in Nat /\ ~Manque(T[i], k)
  BY <1>9, <1>11
<1>16. ~(T[i] - k - 1 <= 0)
  BY <1>15 DEF Manque
<1> QED
  BY <1>14, <1>15, <1>16

-----------------------------------------------------------------------------
(* The text under way at each label. *)

\* The buffer buf, from b on, is the text under way.
Porte(buf, b) ==
  /\ buf \in Seq(Caracteres) /\ Len(buf) = yy_n_chars + 2
  /\ buf[yy_n_chars + 1] = NUL /\ buf[yy_n_chars + 2] = NUL
  /\ b \in 1 .. yy_n_chars + 1
  /\ Contenu = buf /\ DebutTexte = b

LEMMA PorteHors ==
  ASSUME Inv, pc \in {"boucle", "retour"}
  PROVE  Types /\ Dehors /\ Porte([yy_ch_buf EXCEPT ![yy_c_buf_p] = yy_hold_char], yy_c_buf_p)
<1>1. Types /\ Dehors
  BY DEF Inv
<1>2. yy_n_chars \in Nat
  BY <1>1, TamponLu
<1>3. /\ yy_c_buf_p \in 1 .. yy_n_chars + 1 /\ yy_c_buf_p \in 1 .. yy_n_chars + 2
      /\ yy_c_buf_p > yy_n_chars => yy_hold_char = NUL
  BY <1>1, <1>2 DEF Dehors
<1> DEFINE b == [yy_ch_buf EXCEPT ![yy_c_buf_p] = yy_hold_char]
<1>4. b \in Seq(Caracteres) /\ Len(b) = yy_n_chars + 2 /\ b[yy_n_chars + 1] = NUL /\ b[yy_n_chars + 2] = NUL
  BY <1>1, <1>3, Remis
<1>5. Contenu = b /\ DebutTexte = yy_c_buf_p
  BY DEF Contenu, DebutTexte
<1> HIDE DEF b
<1>6. Porte(b, yy_c_buf_p)
  BY <1>3, <1>4, <1>5 DEF Porte
<1> QED
  BY <1>1, <1>6 DEF b

LEMMA PorteCours ==
  ASSUME Inv, pc \in {"yy_match", "yy_find_action"}
  PROVE  /\ Types /\ Porte(yy_ch_buf, yy_bp)
         /\ pc = "yy_match" => Avance
         /\ pc = "yy_find_action" => Arrete
<1>1. Types /\ (pc = "yy_match" => Avance) /\ (pc = "yy_find_action" => Arrete)
  BY DEF Inv
<1>2. Len(yy_ch_buf) = yy_n_chars + 2
  BY <1>1, TamponLu
<1>3. yy_bp \in 1 .. yy_n_chars + 1
  BY <1>1 DEF Avance, Arrete
<1>4. Contenu = yy_ch_buf /\ DebutTexte = yy_bp
  BY DEF Contenu, DebutTexte
<1>5. yy_ch_buf \in Seq(Caracteres) /\ yy_ch_buf[yy_n_chars + 1] = NUL /\ yy_ch_buf[yy_n_chars + 2] = NUL
  BY <1>1 DEF Types
<1> QED
  BY <1>1, <1>2, <1>3, <1>4, <1>5 DEF Porte

LEMMA PorteChoisi ==
  ASSUME Inv, pc = "do_action"
  PROVE  /\ Types /\ Choisi /\ yy_c_buf_p \in 1 .. yy_n_chars + 2
         /\ Porte([yy_ch_buf EXCEPT ![yy_c_buf_p] = yy_hold_char], yy_bp)
         /\ Restaure = [yy_ch_buf EXCEPT ![yy_c_buf_p] = yy_hold_char]
<1>1. Types /\ Choisi
  BY DEF Inv
<1>2. yy_n_chars \in Nat
  BY <1>1, TamponLu
<1>3. /\ yy_bp \in 1 .. yy_n_chars + 1 /\ yytext_ptr = yy_bp /\ yy_c_buf_p = yy_cp
      /\ yy_c_buf_p > yy_n_chars => yy_hold_char = NUL
      /\ Issue(Reste, yy_n_chars, yy_bp, yy_current_state, yy_cp)
  BY <1>1 DEF Choisi, Choix
<1>4. yy_c_buf_p \in 1 .. yy_n_chars + 2
  <2>1. yy_c_buf_p \in yy_bp + 1 .. yy_n_chars + 2 \/ yy_c_buf_p \in yy_bp + 1 .. yy_n_chars + 1
    BY <1>3 DEF Issue
  <2> QED
    BY <1>2, <1>3, <2>1
<1> DEFINE b == [yy_ch_buf EXCEPT ![yy_c_buf_p] = yy_hold_char]
<1>5. b \in Seq(Caracteres) /\ Len(b) = yy_n_chars + 2 /\ b[yy_n_chars + 1] = NUL /\ b[yy_n_chars + 2] = NUL
  BY <1>1, <1>3, <1>4, Remis
<1>6. Contenu = b /\ DebutTexte = yy_bp /\ Restaure = b
  BY <1>3 DEF Contenu, DebutTexte, Restaure
<1> HIDE DEF b
<1>7. Porte(b, yy_bp)
  BY <1>3, <1>5, <1>6 DEF Porte
<1> QED
  BY <1>1, <1>4, <1>6, <1>7 DEF b

LEMMA PorteVide ==
  ASSUME Inv, pc \in {"lecture", "exit"}
  PROVE  Types /\ Vide /\ Porte(yy_ch_buf, 1)
<1>1. Types /\ Vide
  BY DEF Inv
<1>2. Len(yy_ch_buf) = yy_n_chars + 2 /\ yy_n_chars \in Nat
  BY <1>1, TamponLu
<1>3. 1 \in 1 .. yy_n_chars + 1
  BY <1>2
<1>4. Contenu = yy_ch_buf /\ DebutTexte = 1
  BY <1>1 DEF Contenu, DebutTexte, Vide
<1>5. yy_ch_buf \in Seq(Caracteres) /\ yy_ch_buf[yy_n_chars + 1] = NUL /\ yy_ch_buf[yy_n_chars + 2] = NUL
  BY <1>1 DEF Types
<1> QED
  BY <1>1, <1>2, <1>3, <1>4, <1>5 DEF Porte

\* What Porte says of the rest of the stream.
LEMMA ResteDePorte ==
  ASSUME Types, NEW buf, NEW b, Porte(buf, b)
  PROVE  /\ TexteEnCours = SubSeq(buf, b, yy_n_chars) /\ Reste = SubSeq(buf, b, yy_n_chars) \o flux
         /\ TexteEnCours \in Seq(Caracteres) /\ Len(TexteEnCours) = (yy_n_chars + 1) - b
         /\ Reste \in Seq(Caracteres) /\ Len(Reste) = ((yy_n_chars + 1) - b) + Len(flux)
         /\ Len(flux) \in Nat /\ Len(Reste) >= (yy_n_chars + 1) - b
         /\ \A k \in 1 .. (yy_n_chars + 1) - b :
              Reste[k] = buf[b + k - 1] /\ TexteEnCours[k] = buf[b + k - 1]
         /\ \A k \in 1 .. Len(flux) : Reste[((yy_n_chars + 1) - b) + k] = flux[k]
<1>1. /\ buf \in Seq(Caracteres) /\ Len(buf) = yy_n_chars + 2 /\ b \in 1 .. yy_n_chars + 1
      /\ Contenu = buf /\ DebutTexte = b
  BY DEF Porte
<1> QED
  BY <1>1, ResteLu

-----------------------------------------------------------------------------
(* The invariant is kept by every action, and what is left of the stream too, *)
(* but for the text given to a rule.                                          *)

\* The stream is not cut.
Garde == Reste' = Reste /\ UNCHANGED <<livres, rendu>>

LEMMA Debut == Init => Inv
<1> SUFFICES ASSUME Init PROVE Inv
  OBVIOUS
<1>1. PICK f \in Flux : InitAnalyseur(f)
  BY DEF Init
<1>2. f \in Seq(Caracteres) /\ YY_BUF_SIZE \in Nat \ {0}
  BY AnalyseurAssumption
<1>3. /\ pc = "retour" /\ flux = f /\ yy_ch_buf = Fin2 /\ yy_buf_size = YY_BUF_SIZE
      /\ yy_buffer_status = "new" /\ yy_hold_char = Fin2[1] /\ yy_c_buf_p = 1 /\ yytext_ptr = 1
  BY <1>1 DEF InitAnalyseur, yy_create_buffer, yy_flush_buffer, yy_load_buffer_state
<1>4. yy_n_chars = 0
  BY <1>3, NulCaractere DEF yy_n_chars
<1>5. Types
  BY <1>2, <1>3, <1>4, NulCaractere DEF Types
<1>6. Dehors
  BY <1>3, <1>4, NulCaractere DEF Dehors
<1> QED
  BY <1>3, <1>5, <1>6 DEF Inv

LEMMA AppelerInv == Inv /\ Appeler => Inv' /\ Garde
<1> SUFFICES ASSUME Inv, Appeler PROVE Inv' /\ Garde
  OBVIOUS
<1>1. pc = "retour" /\ pc' = "boucle" /\ UNCHANGED <<flux, tampon, texte, automate, livres, rendu>>
  BY DEF Appeler
<1>2. Types' /\ Dehors'
  BY <1>1, PorteHors DEF Types, Dehors, yy_n_chars, tampon, texte
<1>3. Reste' = Reste
  BY <1>1 DEF Reste, TexteEnCours, Contenu, DebutTexte, yy_n_chars, tampon, texte
<1> QED
  BY <1>1, <1>2, <1>3 DEF Inv, Garde

LEMMA FataleInv == Inv /\ Fatale => Inv' /\ Garde
<1> SUFFICES ASSUME Inv, Fatale PROVE Inv' /\ Garde
  OBVIOUS
<1>1. pc = "lecture" /\ pc' = "exit" /\ UNCHANGED <<flux, tampon, texte, automate, livres, rendu>>
  BY DEF Fatale
<1>2. Reste' = Reste
  BY <1>1 DEF Reste, TexteEnCours, Contenu, DebutTexte, yy_n_chars, tampon, texte
<1>3. Types' /\ Vide'
  BY <1>1, <1>2, PorteVide DEF Types, Vide, yy_n_chars, tampon, texte
<1> QED
  BY <1>1, <1>2, <1>3 DEF Inv, Garde

LEMMA BoucleInv == Inv /\ Boucle => Inv' /\ Garde
<1> SUFFICES ASSUME Inv, Boucle PROVE Inv' /\ Garde
  OBVIOUS
<1> DEFINE b == [yy_ch_buf EXCEPT ![yy_c_buf_p] = yy_hold_char]
<1>1. /\ pc = "boucle" /\ pc' = "yy_match" /\ yy_ch_buf' = b
      /\ yy_bp' = yy_c_buf_p /\ yy_cp' = yy_c_buf_p /\ yy_current_state' = INITIAL
      /\ UNCHANGED <<flux, yy_buf_size, yy_buffer_status, yy_hold_char, yy_c_buf_p,
                     yytext_ptr, livres, rendu>>
  BY DEF Boucle
<1>2. Types /\ Dehors /\ Porte(b, yy_c_buf_p)
  BY <1>1, PorteHors
<1> HIDE DEF b
<1>3. /\ b \in Seq(Caracteres) /\ Len(b) = yy_n_chars + 2 /\ Contenu = b /\ DebutTexte = yy_c_buf_p
      /\ b[yy_n_chars + 1] = NUL /\ b[yy_n_chars + 2] = NUL /\ yy_c_buf_p \in 1 .. yy_n_chars + 1
  BY <1>2 DEF Porte
<1>4. yy_n_chars' = yy_n_chars /\ yy_n_chars \in Nat
  <2>1. yy_n_chars' = Len(b) - 2
    BY <1>1 DEF yy_n_chars
  <2>2. yy_n_chars \in Nat
    BY <1>2, TamponLu
  <2> QED
    BY <1>3, <2>1, <2>2
<1>5. Reste' = Reste
  <2>1. Contenu' = b /\ DebutTexte' = yy_c_buf_p
    BY <1>1 DEF Contenu, DebutTexte
  <2> QED
    BY <1>1, <1>3, <1>4, <2>1 DEF Reste, TexteEnCours
<1>6. Types'
  BY <1>1, <1>2, <1>3, <1>4 DEF Types
<1>7. Avance'
  <2>1. /\ yy_bp' \in 1 .. yy_n_chars' + 1 /\ yy_cp' \in yy_bp' .. yy_n_chars' + 1
        /\ yy_cp' - yy_bp' = 0 /\ yy_c_buf_p' \in 1 .. yy_n_chars' + 2
    BY <1>1, <1>3, <1>4
  <2>2. yy_current_state' = 1
    BY <1>1 DEF INITIAL
  <2>3. Ouvert(1, Reste', 0) /\ 1 \notin {9, 10, 11}
    BY DEF Ouvert, Ouverts, Mene
  <2>4. Ouvert(yy_current_state', Reste', yy_cp' - yy_bp') /\ yy_current_state' \notin {9, 10, 11}
    BY <2>1, <2>2, <2>3
  <2> QED
    BY <2>1, <2>4 DEF Avance
<1> QED
  BY <1>1, <1>5, <1>6, <1>7 DEF Inv, Garde

LEMMA MatchInv == Inv /\ yy_match => Inv' /\ Garde
<1> SUFFICES ASSUME Inv, yy_match PROVE Inv' /\ Garde
  OBVIOUS
<1> DEFINE c == Course(yy_ch_buf, yy_cp, yy_current_state, dernier)
<1>1. /\ pc = "yy_match" /\ pc' = "yy_find_action"
      /\ yy_current_state' = c.etat /\ yy_cp' = c.cp /\ dernier' = c.dernier
      /\ UNCHANGED <<flux, tampon, yy_c_buf_p, yytext_ptr, yy_bp, yy_act, livres, rendu>>
  BY DEF yy_match
<1> HIDE DEF c
<1>2. Types /\ Avance /\ Porte(yy_ch_buf, yy_bp)
  BY <1>1, PorteCours
<1>3. Reste' = Reste /\ yy_n_chars' = yy_n_chars
  BY <1>1 DEF Reste, TexteEnCours, Contenu, DebutTexte, yy_n_chars, tampon
<1>4. Types'
  BY <1>1, <1>2, <1>3 DEF Types, tampon
<1>5. PICK N \in Nat : N = yy_n_chars
  BY <1>2, TamponLu
<1>6. PICK r : r = Reste
  OBVIOUS
<1>7. /\ yy_bp \in 1 .. N + 1 /\ yy_cp \in yy_bp .. N + 1 /\ yy_c_buf_p \in 1 .. N + 2
      /\ Ouvert(yy_current_state, r, yy_cp - yy_bp)
      /\ yy_current_state \in {9, 10, 11} => dernier = [etat |-> 6, cpos |-> yy_bp + 1]
  BY <1>2, <1>5, <1>6 DEF Avance
<1>8. yy_ch_buf \in Seq(Caracteres) /\ Len(yy_ch_buf) = N + 2 /\ yy_ch_buf[N + 1] = NUL
  BY <1>2, <1>5 DEF Porte
<1>9. /\ r \in Seq(Caracteres) /\ Len(r) >= (N + 1) - yy_bp
      /\ \A k \in 1 .. (N + 1) - yy_bp : r[k] = yy_ch_buf[yy_bp + k - 1]
  BY <1>2, <1>5, <1>6, ResteDePorte
<1>10. c.etat \in Etats /\ c.cp \in yy_cp .. N + 3
       /\ IssueCourse(r, N, yy_bp, c.etat, c.cp, c.dernier)
  BY <1>7, <1>8, <1>9, CourseIssue DEF c
<1>11. Arrete'
  <2>1. yy_cp' \in yy_bp .. N + 3
    BY <1>1, <1>5, <1>7, <1>10
  <2>2. yy_bp' = yy_bp /\ yy_c_buf_p' = yy_c_buf_p
    BY <1>1
  <2> QED
    BY <1>1, <1>3, <1>5, <1>6, <1>7, <1>10, <2>1, <2>2 DEF Arrete
<1> QED
  BY <1>1, <1>3, <1>4, <1>11 DEF Inv, Garde

LEMMA IssueTypes ==
  ASSUME NEW r, NEW N \in Nat, NEW b \in 1 .. N + 1, NEW s, NEW c, Issue(r, N, b, s, c)
  PROVE  s \in {3, 4, 5, 6, 7, 8, 12} /\ s \in Etats /\ c \in b + 1 .. N + 2 /\ c \in 1 .. N + 2
<1>1. s \in {3, 4, 5, 6, 7, 8, 12} /\ (c \in b + 1 .. N + 2 \/ c \in b + 1 .. N + 1)
  BY DEF Issue
<1>2. s \in Etats
  BY <1>1 DEF Etats
<1> QED
  BY <1>1, <1>2

LEMMA FindActionInv == Inv /\ yy_find_action => Inv' /\ Garde
<1> SUFFICES ASSUME Inv, yy_find_action PROVE Inv' /\ Garde
  OBVIOUS
<1>1. Types /\ Arrete /\ Porte(yy_ch_buf, yy_bp) /\ pc = "yy_find_action"
  BY PorteCours DEF yy_find_action
<1>2. PICK N \in Nat : N = yy_n_chars
  BY <1>1, TamponLu
<1>3. yy_bp \in 1 .. N + 1 /\ yy_ch_buf \in Seq(Caracteres) /\ Len(yy_ch_buf) = N + 2
      /\ yy_ch_buf[N + 1] = NUL /\ yy_ch_buf[N + 2] = NUL
  BY <1>1, <1>2 DEF Porte
<1>4. PICK c, s : c = yy_cp' /\ s = yy_current_state'
  OBVIOUS
<1>5. Issue(Reste, N, yy_bp, s, c)
  <2>1. IssueCourse(Reste, N, yy_bp, yy_current_state, yy_cp, dernier)
    BY <1>1, <1>2 DEF Arrete
  <2>2. CASE yy_accept[yy_current_state] = 0
    <3>1. c = dernier.cpos /\ s = dernier.etat
      BY <1>4, <2>2 DEF yy_find_action
    <3> QED
      BY <2>1, <2>2, <3>1 DEF IssueCourse
  <2>3. CASE yy_accept[yy_current_state] # 0
    <3>1. c = yy_cp /\ s = yy_current_state
      BY <1>4, <2>3 DEF yy_find_action
    <3> QED
      BY <2>1, <2>3, <3>1 DEF IssueCourse
  <2> QED
    BY <2>2, <2>3
<1>6. c \in yy_bp + 1 .. N + 2 /\ c \in 1 .. N + 2 /\ c \in Nat
  BY <1>3, <1>5, IssueTypes
<1>7. /\ pc' = "do_action" /\ yy_act' = yy_accept[s] /\ yytext_ptr' = yy_bp /\ yy_c_buf_p' = c
      /\ yy_hold_char' = yy_ch_buf[c] /\ yy_ch_buf' = [yy_ch_buf EXCEPT ![c] = NUL]
      /\ UNCHANGED <<flux, yy_buf_size, yy_buffer_status, yy_bp, dernier, livres, rendu>>
  BY <1>4 DEF yy_find_action
<1>8. /\ yy_ch_buf' \in Seq(Caracteres) /\ Len(yy_ch_buf') = N + 2
      /\ \A j \in 1 .. N + 2 : yy_ch_buf'[j] = IF j = c THEN NUL ELSE yy_ch_buf[j]
      /\ yy_ch_buf[c] \in Caracteres
  <2>1. c \in 1 .. Len(yy_ch_buf)
    BY <1>3, <1>6
  <2> QED
    BY <1>3, <1>7, <2>1, NulCaractere, ExceptSeq, ElementOfSeq
<1>9. yy_n_chars' = N
  BY <1>8 DEF yy_n_chars
<1>10. [yy_ch_buf' EXCEPT ![c] = yy_hold_char'] = yy_ch_buf
  <2>1. PICK b : b = [yy_ch_buf' EXCEPT ![c] = yy_hold_char']
    OBVIOUS
  <2>2. c \in 1 .. Len(yy_ch_buf') /\ yy_hold_char' \in Caracteres
    BY <1>6, <1>7, <1>8
  <2>3. /\ b \in Seq(Caracteres) /\ Len(b) = N + 2
        /\ \A j \in 1 .. N + 2 : b[j] = IF j = c THEN yy_hold_char' ELSE yy_ch_buf'[j]
    BY <1>8, <2>1, <2>2, ExceptSeq
  <2>4. \A j \in 1 .. N + 2 : b[j] = yy_ch_buf[j]
    BY <1>7, <1>8, <2>3
  <2>5. b = yy_ch_buf
    BY <1>3, <2>3, <2>4, SeqEqual
  <2> QED
    BY <2>1, <2>5
<1>11. Reste' = Reste
  <2>1. Contenu' = yy_ch_buf /\ DebutTexte' = yy_bp
    BY <1>7, <1>10 DEF Contenu, DebutTexte
  <2>2. Contenu = yy_ch_buf /\ DebutTexte = yy_bp
    BY <1>1 DEF Porte
  <2> QED
    BY <1>2, <1>7, <1>9, <2>1, <2>2 DEF Reste, TexteEnCours
<1>12. Types'
  <2>1. yy_ch_buf'[N + 1] = NUL /\ yy_ch_buf'[N + 2] = NUL
    BY <1>3, <1>8
  <2>2. yytext_ptr' \in 1 .. N + 2
    BY <1>3, <1>7
  <2> QED
    BY <1>1, <1>2, <1>7, <1>8, <1>9, <2>1, <2>2 DEF Types
<1>13. Choisi'
  <2>1. c > N => yy_hold_char' = NUL
    <3>1. c > N => c = N + 1 \/ c = N + 2
      BY <1>6
    <3> QED
      BY <1>3, <1>7, <3>1
  <2>2. Choix(s, c)'
    BY <1>5, <1>7, <1>9, <1>11 DEF Choix
  <2>3. Choix(yy_current_state, yy_cp)'
    BY <1>4, <2>2 DEF Choix
  <2> QED
    BY <1>3, <1>4, <1>7, <1>9, <2>1, <2>3 DEF Choisi
<1> QED
  BY <1>7, <1>11, <1>12, <1>13 DEF Inv, Garde

-----------------------------------------------------------------------------
(* The end of the buffer, or a NUL. *)

LEMMA ActeFin ==
  ASSUME NEW s \in {3, 4, 5, 6, 7, 8, 12}, yy_accept[s] = 6
  PROVE  s = 3
BY TableAccept

LEMMA FinChoisie ==
  ASSUME Inv, pc = "do_action", yy_act = YY_END_OF_BUFFER
  PROVE  /\ Types /\ Porte(Restaure, yy_bp) /\ yytext_ptr = yy_bp /\ yy_c_buf_p = yy_cp
         /\ yy_bp \in 1 .. yy_n_chars + 1 /\ yy_c_buf_p \in yy_bp + 1 .. yy_n_chars + 2
         /\ yy_c_buf_p - 1 <= yy_n_chars => Reste[yy_c_buf_p - yy_bp] = NUL
         /\ \E t \in Ouverts : Ouvert(t, Reste, (yy_c_buf_p - 1) - yy_bp)
<1>1. Types /\ Choisi /\ Porte(Restaure, yy_bp)
  BY PorteChoisi
<1>2. yy_n_chars \in Nat
  BY <1>1, TamponLu
<1>3. /\ yy_bp \in 1 .. yy_n_chars + 1 /\ yytext_ptr = yy_bp /\ yy_c_buf_p = yy_cp
      /\ yy_accept[yy_current_state] = 6
      /\ Issue(Reste, yy_n_chars, yy_bp, yy_current_state, yy_c_buf_p)
  BY <1>1 DEF Choisi, Choix, YY_END_OF_BUFFER
<1>4. yy_current_state = 3
  BY <1>2, <1>3, IssueTypes, ActeFin
<1> QED
  BY <1>1, <1>3, <1>4 DEF Issue

\* What yy_get_previous_state finds in a buffer that begins as the stream does.
\* The text between b and p in buf is the beginning of r, that leads to t.
EnCours(buf, b, p, r, m, t) ==
  /\ b \in Nat \ {0} /\ p = b + m /\ Debute(buf, b, r, m) /\ Ouvert(t, r, m)

\* yy_get_previous_state gives t back, with the last accepting state.
Repris(buf, b, p, d, t) ==
  /\ Reprise(buf, b, p, d).etat = t
  /\ t \in {9, 10, 11} => Reprise(buf, b, p, d).dernier = [etat |-> 6, cpos |-> b + 1]

LEMMA RepriseOuverte ==
  ASSUME NEW buf \in Seq(Caracteres), NEW b, NEW m \in Nat, NEW p, NEW r \in Seq(Caracteres),
         NEW t, NEW d, EnCours(buf, b, p, r, m, t)
  PROVE  Repris(buf, b, p, d, t)
<1>1. /\ b \in Nat \ {0} /\ p = b + m /\ Debute(buf, b, r, m)
      /\ Mene(t, r, m) /\ t # 12
  BY DEF EnCours, Ouvert, Ouverts
<1>2. /\ Reprise(buf, b, b + m, d).etat = t
      /\ t \in {9, 10, 11} =>
           Reprise(buf, b, b + m, d).dernier = [etat |-> 6, cpos |-> b + 1]
  BY <1>1, RepriseMene
<1> QED
  BY <1>1, <1>2 DEF Repris

\* On from an open state with a NUL.
LEMMA SuiteNul ==
  ASSUME NEW t \in Ouverts
  PROVE  /\ Transition[t][1] = IF t = 1 THEN 4 ELSE IF t \in {6, 9} THEN 9 ELSE 13
         /\ yy_accept[t] # 0 <=> t \in {4, 6}
<1>1. t \in 1 .. 14 /\ 1 \in 0 .. 7
  BY DEF Ouverts
<1>2. Transition[t][1] = Vers(t, 1)
  BY <1>1, Transitions
<1>3. Vers(t, 1) = IF t = 1 THEN 4 ELSE IF t \in {6, 9} THEN 9 ELSE 13
  BY DEF Vers, Ouverts
<1>4. yy_accept[t] # 0 <=> t \in {4, 6}
  BY TableAccept DEF Ouverts
<1> QED
  BY <1>2, <1>3, <1>4

LEMMA NulDuFluxInv == Inv /\ NulDuFlux => Inv' /\ Garde
<1> SUFFICES ASSUME Inv, NulDuFlux PROVE Inv' /\ Garde
  OBVIOUS
<1>1. pc = "do_action" /\ yy_act = YY_END_OF_BUFFER /\ yy_c_buf_p <= yy_n_chars + 1
  BY DEF NulDuFlux, FinDeTampon
<1>2. /\ Types /\ Porte(Restaure, yy_bp) /\ yytext_ptr = yy_bp /\ yy_c_buf_p = yy_cp
      /\ yy_c_buf_p - 1 <= yy_n_chars => Reste[yy_c_buf_p - yy_bp] = NUL
      /\ \E t \in Ouverts : Ouvert(t, Reste, (yy_c_buf_p - 1) - yy_bp)
  BY <1>1, FinChoisie
<1>3. PICK N \in Nat : N = yy_n_chars
  BY <1>2, TamponLu
<1>4. yy_bp \in 1 .. N + 1 /\ yy_c_buf_p \in yy_bp + 1 .. N + 1 /\ yy_c_buf_p \in Nat
  <2>1. yy_bp \in 1 .. N + 1 /\ yy_c_buf_p \in yy_bp + 1 .. N + 2 /\ yy_c_buf_p <= N + 1
    BY <1>1, <1>3, FinChoisie
  <2> QED
    BY <2>1
<1>5. PICK m \in Nat : m = (yy_c_buf_p - 1) - yy_bp
  BY <1>4
<1>6. PICK t \in Ouverts : Ouvert(t, Reste, m)
  BY <1>2, <1>5
<1>7. PICK r : r = Reste
  OBVIOUS
<1>8. /\ Restaure \in Seq(Caracteres) /\ Len(Restaure) = N + 2 /\ Contenu = Restaure
      /\ DebutTexte = yy_bp /\ Restaure[N + 1] = NUL /\ Restaure[N + 2] = NUL
  BY <1>2, <1>3 DEF Porte
<1>9. /\ r \in Seq(Caracteres) /\ Len(r) >= (N + 1) - yy_bp /\ Len(r) \in Nat
      /\ \A k \in 1 .. (N + 1) - yy_bp : r[k] = Restaure[yy_bp + k - 1]
  <2>1. /\ r \in Seq(Caracteres) /\ Len(r) >= (N + 1) - yy_bp
        /\ \A k \in 1 .. (N + 1) - yy_bp : r[k] = Restaure[yy_bp + k - 1]
    BY <1>2, <1>3, <1>7, ResteDePorte
  <2> QED
    BY <2>1, LenProperties
<1>10. /\ yy_bp \in Nat \ {0} /\ m < Len(r) /\ m + 1 \in Nat /\ yy_c_buf_p = (yy_bp + m) + 1
       /\ \A k \in 1 .. m : k \in 1 .. (N + 1) - yy_bp
       /\ yy_c_buf_p - yy_bp = m + 1 /\ yy_c_buf_p - 1 <= N
  BY <1>4, <1>5, <1>9
<1>11. Mene(t, r, m) /\ (t = 4 => r[1] = NUL) /\ r[m + 1] = NUL
  BY <1>2, <1>3, <1>6, <1>7, <1>10 DEF Ouvert
<1>12. PICK rep : rep = Reprise(Restaure, yy_bp, yy_bp + m, dernier)
  OBVIOUS
<1>13. rep.etat = t /\ (t \in {9, 10, 11} => rep.dernier = [etat |-> 6, cpos |-> yy_bp + 1])
  <2>1. EnCours(Restaure, yy_bp, yy_bp + m, r, m, t)
    BY <1>6, <1>7, <1>9, <1>10 DEF EnCours, Debute
  <2>2. Repris(Restaure, yy_bp, yy_bp + m, dernier, t)
    BY <1>8, <1>9, <2>1, RepriseOuverte
  <2> QED
    BY <1>12, <2>2 DEF Repris
<1>14. yytext_ptr + yy_amount_of_matched_text = yy_bp + m
  BY <1>2, <1>4, <1>5 DEF yy_amount_of_matched_text
<1>15. PICK e, d : e = yy_try_NUL_trans(t, yy_bp + m, rep.dernier).etat
                   /\ d = yy_try_NUL_trans(t, yy_bp + m, rep.dernier).dernier
  OBVIOUS
<1>16. e = (IF t = 1 THEN 4 ELSE IF t \in {6, 9} THEN 9 ELSE 0)
  BY <1>15, SuiteNul DEF yy_try_NUL_trans, JAM
<1>17. d = IF t \in {4, 6} THEN [etat |-> t, cpos |-> yy_bp + m] ELSE rep.dernier
  <2>1. d = Noter(t, yy_bp + m, rep.dernier)
    BY <1>15 DEF yy_try_NUL_trans
  <2> QED
    BY <2>1, SuiteNul DEF Noter
<1>18. /\ dernier' = d /\ yy_bp' = yy_bp
       /\ IF e # 0
          THEN yy_cp' = (yy_bp + m) + 1 /\ yy_current_state' = e /\ pc' = "yy_match"
          ELSE yy_cp' = yy_bp + m /\ yy_current_state' = t /\ pc' = "yy_find_action"
       /\ yy_c_buf_p' = yy_cp'
  BY <1>2, <1>12, <1>13, <1>14, <1>15 DEF NulDuFlux
<1>19. /\ yy_ch_buf' = Restaure /\ yy_buf_size' = yy_buf_size /\ yytext_ptr' = yytext_ptr
       /\ UNCHANGED <<flux, yy_hold_char, yy_act, livres, rendu>>
       /\ yy_buffer_status' = IF yy_buffer_status = "new" THEN "normal" ELSE yy_buffer_status
  BY DEF NulDuFlux, FinDeTampon
<1>20. yy_n_chars' = N
  BY <1>8, <1>19 DEF yy_n_chars
<1>21. Reste' = r
  <2>1. Contenu' = Restaure /\ DebutTexte' = yy_bp
    BY <1>18, <1>19 DEF Contenu, DebutTexte
  <2> QED
    BY <1>3, <1>7, <1>8, <1>19, <1>20, <2>1 DEF Reste, TexteEnCours
<1>22. Types'
  <2>1. yytext_ptr' \in 1 .. N + 2
    BY <1>2, <1>4, <1>19
  <2> QED
    BY <1>2, <1>3, <1>8, <1>19, <1>20, <2>1 DEF Types
\* The NUL is an ordinary character.
<1>23. CASE t \in {1, 6, 9}
  <2>1. e \in {4, 9} /\ e # 0 /\ (e = 4 <=> t = 1)
    BY <1>16, <1>23
  <2>2. /\ yy_cp' = yy_c_buf_p /\ yy_current_state' = e /\ pc' = "yy_match"
        /\ yy_c_buf_p' = yy_c_buf_p /\ yy_bp' = yy_bp
    BY <1>10, <1>18, <2>1
  <2>3. yy_c_buf_p \in 1 .. N + 2 /\ yy_bp \in 1 .. N + 1 /\ yy_c_buf_p \in yy_bp .. N + 1
    BY <1>4
  <2>4. Ouvert(e, r, m + 1)
    <3>1. CASE t = 1
      <4>1. m = 0 /\ e = 4
        BY <1>11, <2>1, <3>1, MeneTypes
      <4>2. r[1] = NUL /\ m + 1 = 1
        BY <1>11, <4>1
      <4>3. Mene(4, r, 1)
        BY <4>2 DEF Mene, NUL
      <4> QED
        BY <4>1, <4>2, <4>3 DEF Ouvert, Ouverts
    <3>2. CASE t \in {6, 9}
      <4>1. e = 9
        BY <1>16, <3>2
      <4>2. r[m + 1] \in Caracteres
        BY <1>11, NulCaractere
      <4>3. Sorte(r[m + 1]) = 1
        BY <1>11 DEF Sorte
      <4>4. Vers(t, 1) = 9
        BY <3>2 DEF Vers
      <4>5. Mene(9, r, m + 1)
        BY <1>11, <4>2, <4>3, <4>4, MenePas
      <4> QED
        BY <4>1, <4>5 DEF Ouvert, Ouverts
    <3> QED
      BY <1>23, <3>1, <3>2
  <2>5. e \in {9, 10, 11} => d = [etat |-> 6, cpos |-> yy_bp + 1]
    <3>1. CASE t = 6
      <4>1. m = 1
        BY <1>11, <3>1 DEF Mene
      <4> QED
        BY <1>17, <3>1, <4>1
    <3>2. CASE t = 9
      BY <1>13, <1>17, <3>2
    <3> QED
      BY <1>23, <2>1, <3>1, <3>2
  <2>6. Avance'
    <3>1. yy_cp' - yy_bp' = m + 1
      BY <1>10, <2>2
    <3>2. /\ yy_c_buf_p' \in 1 .. yy_n_chars' + 2 /\ yy_bp' \in 1 .. yy_n_chars' + 1
          /\ yy_cp' \in yy_bp' .. yy_n_chars' + 1
      BY <1>20, <2>2, <2>3
    <3>3. Ouvert(yy_current_state', Reste', yy_cp' - yy_bp')
      BY <1>21, <2>2, <2>4, <3>1
    <3>4. yy_current_state' \in {9, 10, 11} => dernier' = [etat |-> 6, cpos |-> yy_bp' + 1]
      BY <1>18, <2>2, <2>5
    <3> QED
      BY <3>2, <3>3, <3>4 DEF Avance
  <2> QED
    BY <1>7, <1>19, <1>21, <1>22, <2>2, <2>6 DEF Inv, Garde
\* Nothing goes on with it.
<1>24. CASE t \in {4, 10, 11}
  <2>1. e = 0
    BY <1>16, <1>24
  <2>2. /\ yy_cp' = yy_bp + m /\ yy_current_state' = t /\ pc' = "yy_find_action"
        /\ yy_c_buf_p' = yy_bp + m /\ yy_bp' = yy_bp
    BY <1>18, <2>1
  <2>3. m >= 1 /\ (t = 4 => m = 1) /\ (t # 4 => m >= 2 /\ r[1] = "$")
    BY <1>11, <1>24, MeneTypes
  <2>4. /\ yy_bp + m \in 1 .. N + 2 /\ yy_bp \in 1 .. N + 1 /\ yy_bp + m \in yy_bp .. N + 3
        /\ yy_bp + 1 \in yy_bp + 1 .. N + 1 /\ (yy_bp + 1) - yy_bp = 1
    BY <1>4, <1>10, <2>3
  <2>5. IssueCourse(r, N, yy_bp, t, yy_bp + m, d)
    <3>1. CASE t = 4
      <4>1. r[1] # "$"
        BY <1>11, <3>1 DEF NUL
      <4>2. SansPaquet(r)
        BY <1>9, <4>1, SansDollar
      <4>3. yy_bp + m = yy_bp + 1 /\ Mene(4, r, 1)
        BY <1>11, <2>3, <3>1
      <4>4. Issue(r, N, yy_bp, 4, yy_bp + 1)
        BY <2>4, <4>2, <4>3 DEF Issue
      <4> QED
        BY <3>1, <4>3, <4>4, TableAccept DEF IssueCourse
    <3>2. CASE t \in {10, 11}
      <4>1. d = [etat |-> 6, cpos |-> yy_bp + 1]
        BY <1>13, <1>17, <3>2
      <4>2. Mene(6, r, 1)
        BY <2>3, <3>2 DEF Mene
      <4>3. SansPaquet(r)
        <5>1. Sorte(r[m + 1]) = 1
          BY <1>11 DEF Sorte
        <5>2. Vers(t, Sorte(r[m + 1])) = 13 /\ t # 12
          BY <3>2, <5>1 DEF Vers
        <5> QED
          BY <1>9, <1>10, <1>11, <5>2, SansSuite
      <4>4. Issue(r, N, yy_bp, 6, yy_bp + 1)
        BY <2>4, <4>2, <4>3 DEF Issue
      <4>5. yy_accept[t] = 0 /\ d.etat = 6 /\ d.cpos = yy_bp + 1
        BY <3>2, <4>1, TableAccept
      <4> QED
        BY <4>4, <4>5 DEF IssueCourse
    <3> QED
      BY <1>24, <3>1, <3>2
  <2>6. Arrete'
    <3>1. /\ yy_c_buf_p' \in 1 .. yy_n_chars' + 2 /\ yy_bp' \in 1 .. yy_n_chars' + 1
          /\ yy_cp' \in yy_bp' .. yy_n_chars' + 3
      BY <1>20, <2>2, <2>4
    <3>2. yy_current_state' \in Etats
      BY <1>24, <2>2 DEF Etats
    <3>3. IssueCourse(Reste', yy_n_chars', yy_bp', yy_current_state', yy_cp', dernier')
      BY <1>18, <1>20, <1>21, <2>2, <2>5
    <3> QED
      BY <3>1, <3>2, <3>3 DEF Arrete
  <2> QED
    BY <1>7, <1>19, <1>21, <1>22, <2>2, <2>6 DEF Inv, Garde
<1> QED
  BY <1>23, <1>24 DEF Ouverts

-----------------------------------------------------------------------------
(* The moves of the buffer. *)

LEMMA AvecFin ==
  ASSUME NEW s \in Seq(Caracteres)
  PROVE  /\ s \o Fin2 \in Seq(Caracteres) /\ Len(s \o Fin2) = Len(s) + 2 /\ Len(s) \in Nat
         /\ (s \o Fin2)[Len(s) + 1] = NUL /\ (s \o Fin2)[Len(s) + 2] = NUL
         /\ \A k \in 1 .. Len(s) : (s \o Fin2)[k] = s[k]
         /\ SubSeq(s \o Fin2, 1, Len(s)) = s
<1>1. PICK n \in Nat : n = Len(s)
  BY LenProperties
<1>2. PICK z \in Seq(Caracteres) : z = Fin2 /\ Len(z) = 2 /\ z[1] = NUL /\ z[2] = NUL
  BY NulCaractere
<1>3. PICK b : b = s \o z
  OBVIOUS
<1>4. /\ b \in Seq(Caracteres) /\ Len(b) = n + 2
      /\ \A i \in 1 .. n + 2 : b[i] = IF i <= n THEN s[i] ELSE z[i - n]
  <2>1. /\ s \o z \in Seq(Caracteres) /\ Len(s \o z) = Len(s) + Len(z)
        /\ \A i \in 1 .. Len(s) + Len(z) : (s \o z)[i] = IF i <= Len(s) THEN s[i] ELSE z[i - Len(s)]
    BY <1>2, ConcatProperties
  <2> QED
    BY <1>1, <1>2, <1>3, <2>1
<1>5. b[n + 1] = NUL /\ b[n + 2] = NUL
  <2>1. /\ n + 1 \in 1 .. n + 2 /\ ~(n + 1 <= n) /\ (n + 1) - n = 1
        /\ n + 2 \in 1 .. n + 2 /\ ~(n + 2 <= n) /\ (n + 2) - n = 2
    OBVIOUS
  <2> QED
    BY <1>2, <1>4, <2>1
<1>6. \A k \in 1 .. n : b[k] = s[k]
  BY <1>4
<1>7. SubSeq(b, 1, n) = s
  <2>1. PICK t : t = SubSeq(b, 1, n)
    OBVIOUS
  <2>2. 1 \in 1 .. n + 1 /\ n <= Len(b) /\ (n + 1) - 1 = n
    BY <1>4
  <2>3. t \in Seq(Caracteres) /\ Len(t) = n /\ \A k \in 1 .. n : t[k] = b[1 + k - 1]
    BY <1>2, <1>4, <2>1, <2>2, SuiteLue
  <2>4. \A k \in 1 .. n : 1 + k - 1 = k
    OBVIOUS
  <2>5. \A k \in 1 .. n : t[k] = s[k]
    BY <1>6, <2>3, <2>4
  <2>6. t = s
    BY <1>1, <2>3, <2>5, SeqEqual
  <2> QED
    BY <2>1, <2>6
<1> QED
  BY <1>1, <1>2, <1>3, <1>4, <1>5, <1>6, <1>7

\* At the end of the buffer, the whole text under way is moved.
LEMMA DeplaceTexte ==
  ASSUME Inv, pc = "do_action", yy_act = YY_END_OF_BUFFER, yy_c_buf_p > yy_n_chars + 1
  PROVE  /\ Types /\ Deplace \in Seq(Caracteres) /\ Len(Deplace) \in Nat
         /\ Len(Deplace) <= yy_buf_size /\ Reste = Deplace \o flux
         /\ \E t \in Ouverts : Ouvert(t, Reste, Len(Deplace))
<1>1. /\ Types /\ Porte(Restaure, yy_bp) /\ yytext_ptr = yy_bp
      /\ yy_bp \in 1 .. yy_n_chars + 1 /\ yy_c_buf_p \in yy_bp + 1 .. yy_n_chars + 2
      /\ \E t \in Ouverts : Ouvert(t, Reste, (yy_c_buf_p - 1) - yy_bp)
  BY FinChoisie
<1>2. PICK N \in Nat : N = yy_n_chars /\ N <= yy_buf_size /\ yy_buf_size \in Nat
  BY <1>1, TamponLu DEF Types
<1>3. yy_c_buf_p - 2 = N /\ (yy_c_buf_p - 1) - yy_bp = (N + 1) - yy_bp
      /\ (N + 1) - yy_bp \in Nat /\ (N + 1) - yy_bp <= N
  BY <1>1, <1>2
<1>4. Deplace = SubSeq(Restaure, yy_bp, N)
  BY <1>1, <1>3 DEF Deplace
<1>5. /\ TexteEnCours = SubSeq(Restaure, yy_bp, N) /\ Reste = SubSeq(Restaure, yy_bp, N) \o flux
      /\ TexteEnCours \in Seq(Caracteres) /\ Len(TexteEnCours) = (N + 1) - yy_bp
  BY <1>1, <1>2, ResteDePorte
<1>6. Len(Deplace) = (N + 1) - yy_bp
  BY <1>4, <1>5
<1>7. Len(Deplace) <= yy_buf_size
  BY <1>2, <1>3, <1>6
<1>8. \E t \in Ouverts : Ouvert(t, Reste, Len(Deplace))
  BY <1>1, <1>3, <1>6
<1> QED
  BY <1>1, <1>3, <1>4, <1>5, <1>6, <1>7, <1>8

LEMMA ViderTamponInv == Inv /\ ViderTampon => Inv' /\ Garde
<1> SUFFICES ASSUME Inv, ViderTampon PROVE Inv' /\ Garde
  OBVIOUS
<1>1. /\ pc = "do_action" /\ yy_act = YY_END_OF_BUFFER /\ yy_c_buf_p > yy_n_chars + 1
      /\ yy_ch_buf' = Deplace \o Fin2 /\ yy_buf_size' = Agrandi(yy_buf_size, Len(Deplace))
      /\ yytext_ptr' = 1 /\ pc' = "lecture"
      /\ UNCHANGED <<flux, yy_hold_char, livres, rendu>>
      /\ yy_buffer_status' = IF yy_buffer_status = "new" THEN "normal" ELSE yy_buffer_status
  BY DEF ViderTampon, FinDeTampon
<1>2. /\ Types /\ Deplace \in Seq(Caracteres) /\ Len(Deplace) \in Nat
      /\ Len(Deplace) <= yy_buf_size /\ Reste = Deplace \o flux
      /\ \E t \in Ouverts : Ouvert(t, Reste, Len(Deplace))
  BY <1>1, DeplaceTexte
<1>3. PICK s \in Seq(Caracteres) : s = Deplace
  BY <1>2
<1>4. PICK n \in Nat : n = Len(s)
  BY <1>2, <1>3
<1>5. /\ s \o Fin2 \in Seq(Caracteres) /\ Len(s \o Fin2) = n + 2
      /\ (s \o Fin2)[n + 1] = NUL /\ (s \o Fin2)[n + 2] = NUL /\ SubSeq(s \o Fin2, 1, n) = s
  BY <1>4, AvecFin
<1>6. yy_ch_buf' = s \o Fin2
  BY <1>1, <1>3
<1>7. yy_n_chars' = n
  <2>1. yy_n_chars' = Len(yy_ch_buf') - 2
    BY DEF yy_n_chars
  <2> QED
    BY <1>5, <1>6, <2>1
<1>8. Reste' = Reste
  <2>1. Contenu' = yy_ch_buf' /\ DebutTexte' = 1
    BY <1>1 DEF Contenu, DebutTexte
  <2>2. TexteEnCours' = s
    BY <1>5, <1>6, <1>7, <2>1 DEF TexteEnCours
  <2> QED
    BY <1>1, <1>2, <1>3, <2>2 DEF Reste
<1>9. yy_buf_size' \in Nat \ {0} /\ ~Manque(yy_buf_size', n) /\ n <= yy_buf_size'
  <2>1. yy_buf_size \in Nat \ {0} /\ yy_buf_size' = Agrandi(yy_buf_size, n)
    BY <1>1, <1>2, <1>3, <1>4 DEF Types
  <2> QED
    BY <2>1, Agrandissement
<1>10. Types'
  <2>1. yytext_ptr' \in 1 .. n + 2 /\ n \in 0 .. yy_buf_size'
    BY <1>1, <1>9
  <2> QED
    BY <1>1, <1>2, <1>5, <1>6, <1>7, <1>9, <2>1 DEF Types
<1>11. Vide'
  BY <1>1, <1>2, <1>3, <1>4, <1>7, <1>8, <1>9 DEF Vide
<1> QED
  BY <1>1, <1>8, <1>10, <1>11 DEF Inv, Garde

\* The text that is left when the stream is at its end.
LEMMA DernierTexteInv ==
  ASSUME Types, NEW s \in Seq(Caracteres), NEW buf, buf = s \o Fin2, Len(s) <= yy_buf_size,
         flux = <<>>, Reste = s, NEW t \in Ouverts, Ouvert(t, Reste, Len(s)),
         DernierTexte(buf, Len(s))
  PROVE  Inv' /\ Garde
<1>1. PICK n \in Nat : n = Len(s)
  BY LenProperties
<1>2. /\ n > 0 /\ yy_ch_buf' = buf /\ yy_buffer_status' = "eof_pending"
      /\ yytext_ptr' = 1 /\ yy_c_buf_p' = n + 1 /\ yy_cp' = n + 1
      /\ Reprendre(buf, 1, n + 1) /\ pc' = "yy_find_action"
      /\ UNCHANGED <<flux, yy_buf_size, yy_hold_char, yy_act, livres, rendu>>
  BY <1>1 DEF DernierTexte
<1>3. /\ buf \in Seq(Caracteres) /\ Len(buf) = n + 2 /\ buf[n + 1] = NUL /\ buf[n + 2] = NUL
      /\ \A k \in 1 .. n : buf[k] = s[k]
      /\ SubSeq(buf, 1, n) = s
  BY <1>1, AvecFin
<1>4. yy_n_chars' = n
  <2>1. yy_n_chars' = Len(yy_ch_buf') - 2
    BY DEF yy_n_chars
  <2> QED
    BY <1>2, <1>3, <2>1
<1>5. PICK rep : rep = Reprise(buf, 1, n + 1, dernier)
  OBVIOUS
<1>6. /\ t \in Etats /\ Mene(t, s, n) /\ (t = 4 => s[1] = NUL) /\ rep.etat = t
      /\ t \in {9, 10, 11} => rep.dernier = [etat |-> 6, cpos |-> 1 + 1]
  <2>1. Ouvert(t, s, n) /\ (t = 4 => s[1] = NUL) /\ n <= Len(s) /\ t \in Etats /\ Mene(t, s, n)
    BY <1>1 DEF Ouvert, Ouverts, Etats
  <2>2. EnCours(buf, 1, n + 1, s, n, t)
    <3>1. n + 1 = 1 + n /\ \A k \in 1 .. n : 1 + k - 1 = k
      OBVIOUS
    <3>2. \A k \in 1 .. n : buf[1 + k - 1] = s[k]
      BY <1>3, <3>1
    <3>3. Debute(buf, 1, s, n)
      BY <2>1, <3>2 DEF Debute
    <3>4. 1 \in Nat \ {0}
      OBVIOUS
    <3> QED
      BY <2>1, <3>1, <3>3, <3>4 DEF EnCours
  <2>3. Repris(buf, 1, n + 1, dernier, t)
    BY <1>1, <1>3, <2>2, RepriseOuverte
  <2> QED
    BY <1>5, <2>1, <2>3 DEF Repris
<1>7. yy_current_state' = t /\ dernier' = rep.dernier /\ yy_bp' = 1
  BY <1>2, <1>5, <1>6 DEF Reprendre
<1>8. Reste' = Reste
  <2>1. Contenu' = buf /\ DebutTexte' = 1
    BY <1>2, <1>7 DEF Contenu, DebutTexte
  <2>2. TexteEnCours' = s
    BY <1>3, <1>4, <2>1 DEF TexteEnCours
  <2>3. s \o <<>> = s
    BY ConcatEmptySeq
  <2> QED
    BY <1>2, <2>2, <2>3 DEF Reste
<1>9. Types'
  <2>1. yytext_ptr' \in 1 .. n + 2 /\ n \in 0 .. yy_buf_size'
    BY <1>1, <1>2 DEF Types
  <2> QED
    BY <1>2, <1>3, <1>4, <2>1 DEF Types
<1>10. IssueCourse(s, n, 1, t, n + 1, rep.dernier)
  <2>1. t \in {4, 6, 9, 10, 11} /\ (t \in {4, 6} => n = 1)
    <3>1. t # 1
      BY <1>2, <1>6, MeneTypes
    <3>2. t \in {4, 6, 9, 10, 11}
      BY <3>1 DEF Ouverts
    <3> QED
      BY <1>6, <3>2, MeneTypes
  <2>2. SansPaquet(s)
    <3>1. t # 12 /\ Mene(t, s, Len(s))
      BY <1>1, <1>6, <2>1
    <3> QED
      BY <3>1, SansReste
  <2>3. n + 1 \in 1 + 1 .. n + 1 /\ (n + 1) - 1 = n /\ 1 + 1 \in 1 + 1 .. n + 1 /\ (1 + 1) - 1 = 1
    BY <1>2
  <2>4. CASE t \in {4, 6}
    <3>1. Issue(s, n, 1, t, n + 1)
      BY <1>6, <2>2, <2>3, <2>4 DEF Issue
    <3> QED
      BY <2>4, <3>1, TableAccept DEF IssueCourse
  <2>5. CASE t \in {9, 10, 11}
    <3>1. s[1] = "$"
      BY <1>6, <2>5, MeneTypes
    <3>2. Mene(6, s, 1)
      BY <3>1 DEF Mene
    <3>3. Issue(s, n, 1, 6, 1 + 1)
      BY <2>2, <2>3, <3>2 DEF Issue
    <3>4. yy_accept[t] = 0 /\ rep.dernier.etat = 6 /\ rep.dernier.cpos = 1 + 1
      BY <1>6, <2>5, TableAccept
    <3> QED
      BY <3>3, <3>4 DEF IssueCourse
  <2> QED
    BY <2>1, <2>4, <2>5
<1>11. Arrete'
  <2>1. /\ yy_c_buf_p' \in 1 .. yy_n_chars' + 2 /\ yy_bp' \in 1 .. yy_n_chars' + 1
        /\ yy_cp' \in yy_bp' .. yy_n_chars' + 3
    BY <1>2, <1>4, <1>7
  <2>2. IssueCourse(Reste', yy_n_chars', yy_bp', yy_current_state', yy_cp', dernier')
    BY <1>2, <1>4, <1>7, <1>8, <1>10
  <2> QED
    BY <1>6, <1>7, <2>1, <2>2 DEF Arrete
<1> QED
  BY <1>2, <1>8, <1>9, <1>11 DEF Inv, Garde

\* The end of the stream is told: nothing was left.
LEMMA RestaurerInv ==
  ASSUME Types, flux = <<>>, Restaurer
  PROVE  Inv' /\ Reste' = <<>> /\ livres' = livres /\ rendu' = TRUE
<1>1. /\ yy_ch_buf' = Fin2 /\ yy_buffer_status' = "new" /\ yy_hold_char' = Fin2[1]
      /\ yytext_ptr' = 1 /\ yy_c_buf_p' = 1 /\ pc' = "retour" /\ rendu' = TRUE
      /\ flux' = <<>> /\ yy_buf_size' = yy_buf_size /\ livres' = livres
  BY DEF Restaurer, yy_flush_buffer, yy_load_buffer_state
<1>2. yy_n_chars' = 0
  BY <1>1, NulCaractere DEF yy_n_chars
<1>3. Types'
  BY <1>1, <1>2, NulCaractere DEF Types
<1>4. Dehors'
  BY <1>1, <1>2, NulCaractere DEF Dehors
<1>5. Reste' = <<>>
  <2>1. DebutTexte' = 1
    BY <1>1 DEF DebutTexte
  <2>2. TexteEnCours' = <<>>
    BY <1>2, <2>1, SubSeqEmpty DEF TexteEnCours
  <2>3. <<>> \in Seq(Caracteres)
    BY EmptySeq
  <2> QED
    BY <1>1, <2>2, <2>3, ConcatEmptySeq DEF Reste
<1> QED
  BY <1>1, <1>3, <1>4, <1>5 DEF Inv

\* What is read and what is left make the stream.
LEMMA Coupee ==
  ASSUME NEW S, NEW f \in Seq(S), NEW k \in 0 .. Len(f)
  PROVE  /\ SubSeq(f, 1, k) \in Seq(S) /\ Len(SubSeq(f, 1, k)) = k
         /\ SubSeq(f, k + 1, Len(f)) \in Seq(S)
         /\ SubSeq(f, 1, k) \o SubSeq(f, k + 1, Len(f)) = f
<1>1. PICK n \in Nat : n = Len(f)
  BY LenProperties
<1>2. PICK g : g = SubSeq(f, k + 1, n)
  OBVIOUS
<1>0. k \in Nat /\ n \in Nat /\ k <= n /\ k + 1 \in 1 .. n + 1 /\ n <= Len(f) /\ k <= Len(f)
      /\ 1 \in 1 .. k + 1 /\ (n + 1) - (k + 1) = n - k /\ (k + 1) - 1 = k /\ n - k \in Nat
  BY <1>1
<1>3. g \in Seq(S) /\ Len(g) = n - k /\ \A j \in 1 .. n - k : g[j] = f[(k + 1) + j - 1]
  BY <1>0, <1>2, SuiteLue
<1>4. PICK h : h = SubSeq(f, 1, k) \o g
  OBVIOUS
<1>5. /\ SubSeq(f, 1, k) \in Seq(S) /\ Len(SubSeq(f, 1, k)) = k
      /\ h \in Seq(S) /\ Len(h) = k + (n - k)
      /\ \A i \in 1 .. k : h[i] = f[1 + i - 1]
      /\ \A j \in 1 .. n - k : h[k + j] = g[j]
  BY <1>0, <1>3, <1>4, SuiteLue
<1>6. h = f
  <2>1. Len(h) = n
    BY <1>0, <1>5
  <2>2. \A i \in 1 .. n : h[i] = f[i]
    <3> SUFFICES ASSUME NEW i \in 1 .. n PROVE h[i] = f[i]
      OBVIOUS
    <3>1. CASE i <= k
      <4>1. i \in 1 .. k /\ 1 + i - 1 = i
        BY <1>0, <3>1
      <4> QED
        BY <1>5, <4>1
    <3>2. CASE i > k
      <4>1. PICK j \in Nat : j = i - k
        BY <1>0, <3>2
      <4>2. j \in 1 .. n - k /\ k + j = i /\ (k + 1) + j - 1 = i
        BY <1>0, <3>2, <4>1
      <4> QED
        BY <1>3, <1>5, <4>2
    <3> QED
      BY <1>0, <3>1, <3>2
  <2> QED
    BY <1>1, <1>5, <2>1, <2>2, SeqEqual
<1> QED
  BY <1>1, <1>2, <1>3, <1>4, <1>5, <1>6

LEMMA LireInv == Inv /\ Lire => Inv' /\ Garde
<1> SUFFICES ASSUME Inv, Lire PROVE Inv' /\ Garde
  OBVIOUS
<1>1. pc = "lecture" /\ flux # <<>>
  BY DEF Lire
<1>2. Types /\ Vide /\ Porte(yy_ch_buf, 1)
  BY <1>1, PorteVide
<1>3. PICK N \in Nat : N = yy_n_chars
  BY <1>2, TamponLu
<1>4. PICK k \in YY_INPUT(num_to_read) :
        /\ flux' = SubSeq(flux, k + 1, Len(flux))
        /\ yy_ch_buf' = SubSeq(yy_ch_buf, 1, N) \o SubSeq(flux, 1, k) \o Fin2
  BY <1>3 DEF Lire
<1>5. /\ yy_c_buf_p' = N + 1 /\ yy_cp' = N + 1 /\ Reprendre(yy_ch_buf', 1, N + 1)
      /\ pc' = "yy_match"
      /\ UNCHANGED <<yy_buf_size, yy_buffer_status, yy_hold_char, yytext_ptr, yy_act, livres, rendu>>
  BY <1>3 DEF Lire
<1>6. /\ flux \in Seq(Caracteres) /\ yy_ch_buf \in Seq(Caracteres) /\ Len(yy_ch_buf) = N + 2
      /\ N <= yy_buf_size /\ yy_buf_size \in Nat \ {0} /\ yytext_ptr = 1
      /\ yy_buffer_status # "eof_pending"
  BY <1>1, <1>2, <1>3, TamponLu DEF Types, Vide
<1>7. /\ k \in Nat /\ k \in 0 .. Len(flux) /\ Len(flux) \in Nat /\ k <= yy_buf_size - N - 1
  <2>1. Len(flux) \in Nat
    BY <1>6, LenProperties
  <2>2. YY_READ_BUF_SIZE \in Nat
    BY AnalyseurAssumption
  <2>3. num_to_read \in Int /\ num_to_read <= yy_buf_size - N - 1
    BY <1>3, <1>6, <2>2 DEF num_to_read
  <2>4. k \in 1 .. num_to_read /\ k <= Len(flux)
    BY <1>4 DEF YY_INPUT
  <2> HIDE DEF num_to_read
  <2>5. k \in Nat /\ k <= yy_buf_size - N - 1
    BY <1>6, <2>3, <2>4
  <2> QED
    BY <2>1, <2>4, <2>5
<1>8. PICK f1, f2 : f1 = SubSeq(flux, 1, k) /\ f2 = SubSeq(flux, k + 1, Len(flux))
  OBVIOUS
<1>9. f1 \in Seq(Caracteres) /\ Len(f1) = k /\ f2 \in Seq(Caracteres) /\ f1 \o f2 = flux
  BY <1>6, <1>7, <1>8, Coupee
<1>10. PICK a : a = SubSeq(yy_ch_buf, 1, N)
  OBVIOUS
<1>11. a \in Seq(Caracteres) /\ Len(a) = N /\ Reste = a \o flux
  <2>1. /\ TexteEnCours = SubSeq(yy_ch_buf, 1, N) /\ Reste = SubSeq(yy_ch_buf, 1, N) \o flux
        /\ TexteEnCours \in Seq(Caracteres) /\ Len(TexteEnCours) = (N + 1) - 1
    BY <1>2, <1>3, ResteDePorte
  <2> QED
    BY <1>3, <1>10, <2>1
<1>12. PICK s : s = a \o f1
  OBVIOUS
<1>13. s \in Seq(Caracteres) /\ Len(s) = N + k /\ s \o f2 = a \o flux
  <2>1. a \o f1 \in Seq(Caracteres) /\ Len(a \o f1) = Len(a) + Len(f1)
    BY <1>9, <1>11, ConcatProperties
  <2>2. (a \o f1) \o f2 = a \o (f1 \o f2)
    <3>1. a \in Seq(Caracteres) /\ f1 \in Seq(Caracteres) /\ f2 \in Seq(Caracteres)
      BY <1>9, <1>11
    <3> QED
      BY <3>1, ConcatAssociative
  <2> QED
    BY <1>9, <1>11, <1>12, <2>1, <2>2
<1>14. PICK n \in Nat : n = N + k
  BY <1>3, <1>7
<1>15. Len(s) = n /\ n \in Nat /\ N <= n /\ n <= yy_buf_size
  BY <1>3, <1>6, <1>7, <1>13, <1>14
<1>16. yy_ch_buf' = s \o Fin2 /\ flux' = f2
  BY <1>4, <1>8, <1>10, <1>12
<1>17. /\ yy_ch_buf' \in Seq(Caracteres) /\ Len(yy_ch_buf') = n + 2
       /\ yy_ch_buf'[n + 1] = NUL /\ yy_ch_buf'[n + 2] = NUL
       /\ SubSeq(yy_ch_buf', 1, n) = s /\ \A i \in 1 .. n : yy_ch_buf'[i] = s[i]
  BY <1>13, <1>15, <1>16, AvecFin
<1>18. yy_n_chars' = n
  BY <1>17 DEF yy_n_chars
<1>19. PICK rep : rep = Reprise(yy_ch_buf', 1, N + 1, dernier)
  OBVIOUS
<1>20. yy_current_state' = rep.etat /\ dernier' = rep.dernier /\ yy_bp' = 1
  BY <1>5, <1>19 DEF Reprendre
<1>21. Reste' = Reste
  <2>1. Contenu' = yy_ch_buf' /\ DebutTexte' = 1
    BY <1>5, <1>20 DEF Contenu, DebutTexte
  <2>2. TexteEnCours' = s
    BY <1>17, <1>18, <2>1 DEF TexteEnCours
  <2>3. Reste' = TexteEnCours' \o flux'
    BY DEF Reste
  <2> QED
    BY <1>11, <1>13, <1>16, <2>2, <2>3
<1>22. Types'
  <2>1. yytext_ptr' \in 1 .. n + 2 /\ n \in 0 .. yy_buf_size'
    BY <1>5, <1>6, <1>15
  <2> QED
    BY <1>2, <1>5, <1>6, <1>9, <1>16, <1>17, <1>18, <2>1 DEF Types
<1>23. PICK t \in Ouverts : Ouvert(t, Reste, N)
  BY <1>2, <1>3 DEF Vide
<1>24. PICK r : r = Reste
  OBVIOUS
<1>25. Repris(yy_ch_buf', 1, N + 1, dernier, t)
  <2>1. r \in Seq(Caracteres) /\ Len(r) = Len(a) + Len(flux)
        /\ \A i \in 1 .. Len(a) + Len(flux) : r[i] = IF i <= Len(a) THEN a[i] ELSE flux[i - Len(a)]
    BY <1>6, <1>11, <1>24, ConcatProperties
  <2>2. N <= Len(r) /\ \A i \in 1 .. N : r[i] = a[i]
    BY <1>3, <1>7, <1>11, <2>1
  <2>3. \A i \in 1 .. N : s[i] = a[i]
    <3>1. \A i \in 1 .. Len(a) + Len(f1) : (a \o f1)[i] = IF i <= Len(a) THEN a[i] ELSE f1[i - Len(a)]
      BY <1>9, <1>11, ConcatProperties
    <3> QED
      BY <1>3, <1>7, <1>9, <1>11, <1>12, <3>1
  <2>4. \A i \in 1 .. N : i \in 1 .. n /\ 1 + i - 1 = i
    BY <1>3, <1>15
  <2>5. \A i \in 1 .. N : yy_ch_buf'[1 + i - 1] = r[i]
    BY <1>17, <2>2, <2>3, <2>4
  <2>6. Debute(yy_ch_buf', 1, r, N)
    BY <2>2, <2>5 DEF Debute
  <2>7. N + 1 = 1 + N /\ 1 \in Nat \ {0}
    BY <1>3
  <2>8. EnCours(yy_ch_buf', 1, N + 1, r, N, t)
    BY <1>23, <1>24, <2>6, <2>7 DEF EnCours
  <2> QED
    BY <1>3, <1>17, <2>1, <2>8, RepriseOuverte
<1>26. yy_current_state' = t /\ (t \in {9, 10, 11} => dernier' = [etat |-> 6, cpos |-> 1 + 1])
  BY <1>19, <1>20, <1>25 DEF Repris
<1>27. Avance'
  <2>1. /\ yy_c_buf_p' \in 1 .. yy_n_chars' + 2 /\ yy_bp' \in 1 .. yy_n_chars' + 1
        /\ yy_cp' \in yy_bp' .. yy_n_chars' + 1 /\ yy_cp' - yy_bp' = N
    BY <1>3, <1>5, <1>15, <1>18, <1>20
  <2>2. Ouvert(yy_current_state', Reste', yy_cp' - yy_bp')
    BY <1>21, <1>23, <1>26, <2>1
  <2>3. yy_current_state' \in {9, 10, 11} => dernier' = [etat |-> 6, cpos |-> yy_bp' + 1]
    BY <1>20, <1>26
  <2> QED
    BY <2>1, <2>2, <2>3 DEF Avance
<1> QED
  BY <1>5, <1>21, <1>22, <1>27 DEF Inv, Garde

\* EOF: nothing was left.
Fini == Reste = <<>> /\ Reste' = <<>> /\ livres' = livres /\ rendu' = TRUE

LEMMA LireFinInv == Inv /\ LireFin => Inv' /\ (Garde \/ Fini)
<1> SUFFICES ASSUME Inv, LireFin PROVE Inv' /\ (Garde \/ Fini)
  OBVIOUS
<1>1. pc = "lecture" /\ flux = <<>>
  BY DEF LireFin
<1>2. Types /\ Vide /\ Porte(yy_ch_buf, 1)
  BY <1>1, PorteVide
<1>3. PICK N \in Nat : N = yy_n_chars
  BY <1>2, TamponLu
<1>4. PICK s : s = TexteEnCours
  OBVIOUS
<1>5. /\ s = SubSeq(yy_ch_buf, 1, N) /\ s \in Seq(Caracteres) /\ Len(s) = N /\ Reste = s
      /\ N <= yy_buf_size
  <2>1. /\ TexteEnCours = SubSeq(yy_ch_buf, 1, N) /\ Reste = TexteEnCours \o flux
        /\ TexteEnCours \in Seq(Caracteres) /\ Len(TexteEnCours) = (N + 1) - 1
    BY <1>2, <1>3, ResteDePorte
  <2>2. TexteEnCours \o <<>> = TexteEnCours
    BY <2>1, ConcatEmptySeq
  <2> QED
    BY <1>1, <1>2, <1>3, <1>4, <2>1, <2>2, TamponLu
<1>6. PICK t \in Ouverts : Ouvert(t, Reste, N)
  BY <1>2, <1>3 DEF Vide
<1>7. CASE DernierTexte(yy_ch_buf, yy_n_chars)
  <2>1. yy_ch_buf = s \o Fin2
    <3>1. PICK b : b = s \o Fin2
      OBVIOUS
    <3>2. /\ b \in Seq(Caracteres) /\ Len(b) = N + 2 /\ b[N + 1] = NUL /\ b[N + 2] = NUL
          /\ \A k \in 1 .. N : b[k] = s[k]
      BY <1>5, <3>1, AvecFin
    <3>3. /\ yy_ch_buf \in Seq(Caracteres) /\ Len(yy_ch_buf) = N + 2
          /\ yy_ch_buf[N + 1] = NUL /\ yy_ch_buf[N + 2] = NUL
      BY <1>2, <1>3 DEF Porte
    <3>4. \A k \in 1 .. N : s[k] = yy_ch_buf[k]
      <4>1. \A k \in 1 .. (N + 1) - 1 : TexteEnCours[k] = yy_ch_buf[1 + k - 1]
        BY <1>2, <1>3, ResteDePorte
      <4>2. (N + 1) - 1 = N /\ \A k \in 1 .. N : 1 + k - 1 = k
        BY <1>3
      <4> QED
        BY <1>4, <4>1, <4>2
    <3>5. \A k \in 1 .. N + 2 : k \in 1 .. N \/ k = N + 1 \/ k = N + 2
      BY <1>3
    <3>6. \A k \in 1 .. N + 2 : b[k] = yy_ch_buf[k]
      BY <3>2, <3>3, <3>4, <3>5
    <3>7. b = yy_ch_buf
      BY <3>2, <3>3, <3>6, SeqEqual
    <3> QED
      BY <3>1, <3>7
  <2>2. DernierTexte(yy_ch_buf, Len(s)) /\ Ouvert(t, Reste, Len(s)) /\ Len(s) <= yy_buf_size
    BY <1>3, <1>5, <1>6, <1>7
  <2> QED
    BY <1>1, <1>2, <1>5, <1>6, <2>1, <2>2, DernierTexteInv
<1>8. CASE yy_n_chars = 0 /\ Restaurer
  <2>1. Reste = <<>>
    BY <1>3, <1>5, <1>8, EmptySeq
  <2> QED
    BY <1>1, <1>2, <1>8, <2>1, RestaurerInv DEF Fini
<1> QED
  BY <1>7, <1>8 DEF LireFin

LEMMA FinEnAttenteInv == Inv /\ FinEnAttente => Inv' /\ (Garde \/ Fini)
<1> SUFFICES ASSUME Inv, FinEnAttente PROVE Inv' /\ (Garde \/ Fini)
  OBVIOUS
<1>1. /\ pc = "do_action" /\ yy_act = YY_END_OF_BUFFER /\ yy_c_buf_p > yy_n_chars + 1
      /\ yy_buffer_status = "eof_pending"
  BY DEF FinEnAttente
<1>2. /\ Types /\ Deplace \in Seq(Caracteres) /\ Len(Deplace) <= yy_buf_size
      /\ Reste = Deplace \o flux /\ \E t \in Ouverts : Ouvert(t, Reste, Len(Deplace))
  BY <1>1, DeplaceTexte
<1>3. PICK s \in Seq(Caracteres) : s = Deplace
  BY <1>2
<1>4. flux = <<>>
  BY <1>1, <1>2 DEF Types
<1>5. Reste = s
  <2>1. s \o <<>> = s
    BY <1>3, ConcatEmptySeq
  <2> QED
    BY <1>2, <1>3, <1>4, <2>1
<1>6. PICK t \in Ouverts : Ouvert(t, Reste, Len(s))
  BY <1>2, <1>3
<1>7. CASE DernierTexte(Deplace \o Fin2, Len(Deplace))
  <2>1. PICK b : b = s \o Fin2
    OBVIOUS
  <2>2. DernierTexte(b, Len(s)) /\ Len(s) <= yy_buf_size
    BY <1>2, <1>3, <1>7, <2>1
  <2> QED
    BY <1>2, <1>3, <1>4, <1>5, <1>6, <2>1, <2>2, DernierTexteInv
<1>8. CASE Deplace = <<>> /\ Restaurer
  BY <1>2, <1>3, <1>4, <1>5, <1>8, RestaurerInv DEF Fini
<1> QED
  BY <1>7, <1>8 DEF FinEnAttente

-----------------------------------------------------------------------------
(* A text is given to its rule. *)

LEMMA PartieLue ==
  ASSUME NEW S, NEW buf \in Seq(S), NEW n \in Nat, n <= Len(buf), NEW b \in 1 .. n + 1
  PROVE  /\ SubSeq(buf, b, n) \in Seq(S) /\ Len(SubSeq(buf, b, n)) = (n + 1) - b
         /\ \A k \in 1 .. (n + 1) - b : SubSeq(buf, b, n)[k] = buf[b + k - 1]
<1> DEFINE z == SubSeq(buf, b, n) \o buf
<1>1. /\ SubSeq(buf, b, n) \in Seq(S) /\ Len(SubSeq(buf, b, n)) = (n + 1) - b
      /\ \A k \in 1 .. (n + 1) - b : SubSeq(buf, b, n)[k] = buf[b + k - 1]
      /\ z \in Seq(S)
  BY SuiteLue
<1> QED
  BY <1>1

LEMMA SuiteCoupee ==
  ASSUME NEW S, NEW buf \in Seq(S), NEW n \in Nat, n <= Len(buf), NEW b \in 1 .. n + 1,
         NEW f \in Seq(S), NEW c \in b .. n + 1
  PROVE  LET r == SubSeq(buf, b, n) \o f
         IN  SubSeq(r, (c - b) + 1, Len(r)) = SubSeq(buf, c, n) \o f
<1> DEFINE r == SubSeq(buf, b, n) \o f
           h == SubSeq(buf, c, n) \o f
           g == SubSeq(r, (c - b) + 1, Len(r))
<1>0. /\ b \in Nat /\ b >= 1 /\ b <= n + 1 /\ c \in Nat /\ c >= b /\ c <= n + 1
      /\ c \in 1 .. n + 1
  OBVIOUS
<1>1. Len(f) \in Nat
  BY LenProperties
<1>2. /\ r \in Seq(S) /\ Len(r) = ((n + 1) - b) + Len(f)
      /\ \A k \in 1 .. (n + 1) - b : r[k] = buf[b + k - 1]
      /\ \A k \in 1 .. Len(f) : r[((n + 1) - b) + k] = f[k]
  BY SuiteLue
<1>3. /\ h \in Seq(S) /\ Len(h) = ((n + 1) - c) + Len(f)
      /\ \A k \in 1 .. (n + 1) - c : h[k] = buf[c + k - 1]
      /\ \A k \in 1 .. Len(f) : h[((n + 1) - c) + k] = f[k]
  BY <1>0, SuiteLue
<1> HIDE DEF r, h
<1>4. /\ Len(r) \in Nat /\ (c - b) + 1 \in 1 .. Len(r) + 1 /\ Len(r) <= Len(r)
      /\ (Len(r) + 1) - ((c - b) + 1) = ((n + 1) - c) + Len(f)
  BY <1>0, <1>1, <1>2
<1>5. /\ g \in Seq(S) /\ Len(g) = (Len(r) + 1) - ((c - b) + 1)
      /\ \A k \in 1 .. (Len(r) + 1) - ((c - b) + 1) : g[k] = r[((c - b) + 1) + k - 1]
  <2>1. PICK l \in Nat : l = Len(r)
    BY <1>4
  <2>2. PICK x \in 1 .. l + 1 : x = (c - b) + 1
    BY <1>4, <2>1
  <2>3. l <= Len(r)
    BY <2>1
  <2>4. /\ SubSeq(r, x, l) \in Seq(S) /\ Len(SubSeq(r, x, l)) = (l + 1) - x
        /\ \A k \in 1 .. (l + 1) - x : SubSeq(r, x, l)[k] = r[x + k - 1]
    <3>1. r \in Seq(S)
      BY <1>2
    <3> QED
      BY <2>1, <2>2, <2>3, <3>1, PartieLue
  <2>5. g = SubSeq(r, x, l)
    BY <2>1, <2>2
  <2> HIDE DEF g
  <2> QED
    BY <2>1, <2>2, <2>4, <2>5
<1> HIDE DEF g
<1>9. \A k \in 1 .. ((n + 1) - c) + Len(f) : g[k] = h[k]
  <2> SUFFICES ASSUME NEW k \in 1 .. ((n + 1) - c) + Len(f) PROVE g[k] = h[k]
    OBVIOUS
  <2>1. g[k] = r[(c - b) + k]
    <3>1. ((c - b) + 1) + k - 1 = (c - b) + k
      BY <1>0, <1>1
    <3> QED
      BY <1>4, <1>5, <3>1
  <2>2. CASE k <= (n + 1) - c
    <3>1. (c - b) + k \in 1 .. (n + 1) - b /\ b + ((c - b) + k) - 1 = c + k - 1
          /\ k \in 1 .. (n + 1) - c
      BY <1>0, <1>1, <2>2
    <3> QED
      BY <1>2, <1>3, <2>1, <3>1
  <2>3. CASE k > (n + 1) - c
    <3>1. PICK j \in Nat : j = k - ((n + 1) - c)
      BY <1>0, <1>1, <2>3
    <3>2. j \in 1 .. Len(f) /\ ((n + 1) - b) + j = (c - b) + k /\ ((n + 1) - c) + j = k
      BY <1>0, <1>1, <2>3, <3>1
    <3>3. r[(c - b) + k] = f[j]
      BY <1>2, <3>2
    <3>4. h[k] = f[j]
      BY <1>3, <3>2
    <3> QED
      BY <2>1, <3>3, <3>4
  <2> QED
    BY <1>0, <1>1, <2>2, <2>3
<1>10. g = h
  <2>1. Len(g) = ((n + 1) - c) + Len(f) /\ Len(h) = Len(g)
    BY <1>3, <1>4, <1>5
  <2>2. \A k \in 1 .. Len(g) : g[k] = h[k]
    BY <1>9, <2>1
  <2> QED
    BY <1>3, <1>5, <2>1, <2>2, SeqEqual
<1> QED
  BY <1>10 DEF r, h, g

\* The rule of the text at the head of r.
LEMMA RegleDonnee ==
  ASSUME NEW r \in Seq(Caracteres), NEW s, NEW n \in Nat, s \in {4, 5, 6, 7, 8, 12},
         Mene(s, r, n), n <= Len(r), s = 12 \/ SansPaquet(r)
  PROVE  D!Longueur(r) = n /\ D!Regle(r) = yy_accept[s] /\ n >= 1
<1>1. CASE s = 12
  <2>1. D!Longueur(r) = n /\ n >= 4 /\ r[1] = "$"
    BY <1>1, LongueurPaquet, MeneTypes
  <2>2. D!Regle(r) = 3
    BY <2>1 DEF D!Regle
  <2> QED
    BY <1>1, <2>1, <2>2, TableAccept
<1>2. CASE s \in {4, 5, 6, 7, 8}
  <2>1. n = 1 /\ D!Longueur(r) = 1
    BY <1>2, LongueurSans, MeneTypes
  <2>2. CASE s = 4
    <3>1. r[1] \notin {"\n", "$", "+", "-"}
      BY <2>2 DEF Mene
    <3>2. D!Regle(r) = 4
      BY <2>1, <3>1 DEF D!Regle
    <3> QED
      BY <2>1, <2>2, <3>2, TableAccept
  <2>3. CASE s = 5
    <3>1. r[1] = "\n"
      BY <2>3 DEF Mene
    <3>2. D!Regle(r) = 5
      BY <2>1, <3>1 DEF D!Regle
    <3> QED
      BY <2>1, <2>3, <3>2, TableAccept
  <2>4. CASE s = 6
    <3>1. r[1] = "$"
      BY <2>4 DEF Mene
    <3>2. D!Regle(r) = 4
      BY <2>1, <3>1 DEF D!Regle
    <3> QED
      BY <2>1, <2>4, <3>2, TableAccept
  <2>5. CASE s = 7
    <3>1. r[1] = "+"
      BY <2>5 DEF Mene
    <3>2. D!Regle(r) = 1
      BY <2>1, <3>1 DEF D!Regle
    <3> QED
      BY <2>1, <2>5, <3>2, TableAccept
  <2>6. CASE s = 8
    <3>1. r[1] = "-"
      BY <2>6 DEF Mene
    <3>2. D!Regle(r) = 2
      BY <2>1, <3>1 DEF D!Regle
    <3> QED
      BY <2>1, <2>6, <3>2, TableAccept
  <2> QED
    BY <1>2, <2>2, <2>3, <2>4, <2>5, <2>6
<1> QED
  BY <1>1, <1>2

\* The text given is the one the stream begins with.
Coupe ==
  /\ Reste # <<>>
  /\ livres' = Append(livres, [regle |-> D!Regle(Reste),
                               texte |-> SubSeq(Reste, 1, D!Longueur(Reste))])
  /\ Reste' = SubSeq(Reste, D!Longueur(Reste) + 1, Len(Reste))
  /\ rendu' = rendu

LEMMA ActionInv == Inv /\ Action => Inv' /\ Coupe
<1> SUFFICES ASSUME Inv, Action PROVE Inv' /\ Coupe
  OBVIOUS
<1> DEFINE buf == [yy_ch_buf EXCEPT ![yy_c_buf_p] = yy_hold_char]
<1>1. /\ pc = "do_action" /\ yy_act \in 1 .. 5 /\ pc' \in {"boucle", "retour"}
      /\ livres' = Append(livres, [regle |-> yy_act, texte |-> yytext])
      /\ UNCHANGED <<flux, tampon, texte, automate, rendu>>
  BY DEF Action
<1>2. Types /\ Choisi /\ Porte(buf, yy_bp)
  BY <1>1, PorteChoisi
<1>3. PICK N \in Nat : N = yy_n_chars
  BY <1>2, TamponLu
<1>4. PICK s, c : s = yy_current_state /\ c = yy_c_buf_p
  OBVIOUS
<1>5. /\ yy_bp \in 1 .. N + 1 /\ yytext_ptr = yy_bp /\ (c > N => yy_hold_char = NUL)
      /\ yy_act = yy_accept[s] /\ Issue(Reste, N, yy_bp, s, c)
  BY <1>2, <1>3, <1>4 DEF Choisi, Choix
<1>6. /\ s \in {4, 5, 6, 7, 8, 12} /\ c \in yy_bp + 1 .. N + 1
      /\ Mene(s, Reste, c - yy_bp) /\ (s = 12 \/ SansPaquet(Reste))
  <2>1. s # 3
    BY <1>1, <1>5, TableAccept
  <2> QED
    BY <1>5, <2>1 DEF Issue
<1>7. PICK n \in Nat : n = c - yy_bp
  BY <1>5, <1>6
<1>8. /\ buf \in Seq(Caracteres) /\ Len(buf) = N + 2 /\ Contenu = buf /\ DebutTexte = yy_bp
      /\ yy_ch_buf \in Seq(Caracteres) /\ Len(yy_ch_buf) = N + 2
  BY <1>2, <1>3, TamponLu DEF Porte, Types
<1>9. PICK r : r = Reste
  OBVIOUS
<1>10. /\ r \in Seq(Caracteres) /\ Len(r) >= (N + 1) - yy_bp /\ Len(r) \in Nat
       /\ r = SubSeq(buf, yy_bp, N) \o flux
       /\ \A k \in 1 .. (N + 1) - yy_bp : r[k] = buf[yy_bp + k - 1]
  <2> HIDE DEF buf
  <2>1. /\ r \in Seq(Caracteres) /\ Len(r) >= (N + 1) - yy_bp
        /\ r = SubSeq(buf, yy_bp, N) \o flux
        /\ \A k \in 1 .. (N + 1) - yy_bp : r[k] = buf[yy_bp + k - 1]
    <3>1. Types /\ Porte(buf, yy_bp)
      BY <1>2 DEF buf
    <3>2. /\ Reste \in Seq(Caracteres) /\ Len(Reste) >= (yy_n_chars + 1) - yy_bp
          /\ Reste = SubSeq(buf, yy_bp, yy_n_chars) \o flux
          /\ \A k \in 1 .. (yy_n_chars + 1) - yy_bp : Reste[k] = buf[yy_bp + k - 1]
      <4>1. Reste \in Seq(Caracteres) /\ Len(Reste) >= (yy_n_chars + 1) - yy_bp
        BY <3>1, ResteDePorte
      <4>2. Reste = SubSeq(buf, yy_bp, yy_n_chars) \o flux
        BY <3>1, ResteDePorte
      <4>3. \A k \in 1 .. (yy_n_chars + 1) - yy_bp : Reste[k] = buf[yy_bp + k - 1]
        BY <3>1, ResteDePorte
      <4> QED
        BY <4>1, <4>2, <4>3
    <3> QED
      BY <1>3, <1>9, <3>2
  <2> QED
    BY <2>1, LenProperties
<1>11. /\ yy_bp \in Nat /\ yy_bp >= 1 /\ yy_bp <= N + 1 /\ c \in Nat /\ n >= 1
       /\ n <= (N + 1) - yy_bp /\ n <= Len(r) /\ c = yy_bp + n
  BY <1>5, <1>6, <1>7, <1>10
<1>12. D!Longueur(r) = n /\ D!Regle(r) = yy_act
  <2>1. Mene(s, r, n) /\ (s = 12 \/ SansPaquet(r))
    BY <1>6, <1>7, <1>9
  <2>2. D!Longueur(r) = n /\ D!Regle(r) = yy_accept[s]
    BY <1>6, <1>10, <1>11, <2>1, RegleDonnee
  <2> QED
    BY <1>5, <2>2
<1>13. yytext = SubSeq(r, 1, n)
  <2>1. PICK g, h : g = SubSeq(yy_ch_buf, yy_bp, c - 1) /\ h = SubSeq(r, 1, n)
    OBVIOUS
  <2>2. PICK e \in Nat : e = c - 1
    BY <1>11
  <2>3. e <= Len(yy_ch_buf) /\ yy_bp \in 1 .. e + 1 /\ (e + 1) - yy_bp = n
    BY <1>8, <1>11, <2>2
  <2>4. g \in Seq(Caracteres) /\ Len(g) = n /\ \A k \in 1 .. n : g[k] = yy_ch_buf[yy_bp + k - 1]
    <3>1. <<>> \in Seq(Caracteres)
      BY EmptySeq
    <3> QED
      BY <1>8, <2>1, <2>2, <2>3, <3>1, SuiteLue
  <2>5. h \in Seq(Caracteres) /\ Len(h) = n /\ \A k \in 1 .. n : h[k] = r[1 + k - 1]
    <3>1. <<>> \in Seq(Caracteres) /\ 1 \in 1 .. n + 1 /\ (n + 1) - 1 = n
      BY EmptySeq
    <3> QED
      BY <1>10, <1>11, <2>1, <3>1, SuiteLue
  <2>6. \A k \in 1 .. n : g[k] = h[k]
    <3> SUFFICES ASSUME NEW k \in 1 .. n PROVE g[k] = h[k]
      OBVIOUS
    <3>1. 1 + k - 1 = k /\ k \in 1 .. (N + 1) - yy_bp /\ yy_bp + k - 1 # c
          /\ yy_bp + k - 1 \in 1 .. Len(yy_ch_buf)
      BY <1>8, <1>11
    <3>2. buf[yy_bp + k - 1] = yy_ch_buf[yy_bp + k - 1]
      <4>1. DOMAIN yy_ch_buf = 1 .. Len(yy_ch_buf)
        BY <1>8, LenProperties
      <4> QED
        BY <1>4, <3>1, <4>1
    <3> HIDE DEF buf
    <3> QED
      BY <1>10, <2>4, <2>5, <3>1, <3>2
  <2>7. g = h
    BY <2>4, <2>5, <2>6, SeqEqual
  <2> QED
    BY <1>4, <1>5, <2>1, <2>7 DEF yytext
<1>14. Reste' = SubSeq(r, n + 1, Len(r))
  <2>1. Contenu' = buf /\ DebutTexte' = c /\ yy_n_chars' = N /\ flux' = flux
    BY <1>1, <1>3, <1>4 DEF Contenu, DebutTexte, yy_n_chars, tampon, texte
  <2> HIDE DEF buf
  <2>2. Reste' = SubSeq(buf, c, N) \o flux
    BY <2>1 DEF Reste, TexteEnCours
  <2>3. c \in yy_bp .. N + 1 /\ (c - yy_bp) + 1 = n + 1 /\ N <= Len(buf) /\ flux \in Seq(Caracteres)
    BY <1>2, <1>8, <1>11 DEF Types
  <2>4. SubSeq(r, (c - yy_bp) + 1, Len(r)) = SubSeq(buf, c, N) \o flux
    <3>1. buf \in Seq(Caracteres) /\ N <= Len(buf) /\ yy_bp \in 1 .. N + 1
          /\ flux \in Seq(Caracteres) /\ c \in yy_bp .. N + 1
      BY <1>5, <1>8, <2>3
    <3>2. SubSeq(SubSeq(buf, yy_bp, N) \o flux, (c - yy_bp) + 1,
                 Len(SubSeq(buf, yy_bp, N) \o flux)) = SubSeq(buf, c, N) \o flux
      BY <3>1, SuiteCoupee
    <3> QED
      BY <1>10, <3>2
  <2> QED
    BY <2>2, <2>3, <2>4
<1>15. Reste # <<>>
  <2>1. Len(r) >= 1
    BY <1>10, <1>11
  <2>2. Len(<<>>) = 0
    BY EmptySeq
  <2>3. r # <<>>
    BY <2>1, <2>2
  <2> QED
    BY <1>9, <2>3
<1>16. Coupe
  BY <1>1, <1>9, <1>12, <1>13, <1>14, <1>15 DEF Coupe
<1>17. Types' /\ Dehors'
  <2>1. yy_n_chars' = yy_n_chars
    BY <1>1 DEF yy_n_chars, tampon
  <2>2. Types'
    BY <1>1, <1>2, <2>1 DEF Types, tampon, texte
  <2>3. Dehors'
    BY <1>1, <1>3, <1>4, <1>5, <1>11, <2>1 DEF Dehors, tampon, texte
  <2> QED
    BY <2>2, <2>3
<1> QED
  BY <1>1, <1>16, <1>17 DEF Inv

-----------------------------------------------------------------------------
(***************************************************************************)
(* The theorems.                                                           *)
(***************************************************************************)

\* What a step does to the stream: nothing, a text cut, or the end told.
LEMMA PasInv == Inv /\ [Next]_vars => Inv' /\ (Garde \/ Coupe \/ Fini)
<1> SUFFICES ASSUME Inv, [Next]_vars PROVE Inv' /\ (Garde \/ Coupe \/ Fini)
  OBVIOUS
<1>1. CASE Appeler
  BY <1>1, AppelerInv
<1>2. CASE Boucle
  BY <1>2, BoucleInv
<1>3. CASE yy_match
  BY <1>3, MatchInv
<1>4. CASE yy_find_action
  BY <1>4, FindActionInv
<1>5. CASE Action
  BY <1>5, ActionInv
<1>6. CASE NulDuFlux
  BY <1>6, NulDuFluxInv
<1>7. CASE ViderTampon
  BY <1>7, ViderTamponInv
<1>8. CASE Lire
  BY <1>8, LireInv
<1>9. CASE LireFin
  BY <1>9, LireFinInv
<1>10. CASE FinEnAttente
  BY <1>10, FinEnAttenteInv
<1>11. CASE Fatale
  BY <1>11, FataleInv
<1>12. CASE UNCHANGED vars
  <2>1. Reste' = Reste /\ UNCHANGED <<livres, rendu>>
    BY <1>12 DEF vars, tampon, texte, Reste, TexteEnCours, Contenu, DebutTexte, yy_n_chars
  <2>2. Types'
    BY <1>12 DEF Inv, Types, vars, tampon, texte, automate, yy_n_chars
  <2>3. /\ Dehors => Dehors'
        /\ Avance => Avance'
        /\ Arrete => Arrete'
        /\ Choisi => Choisi'
        /\ Vide => Vide'
    BY <1>12, <2>1 DEF Dehors, Avance, Arrete, Choisi, Choix, Vide, vars, tampon, texte,
                       automate, yy_n_chars
  <2>4. pc' = pc
    BY <1>12 DEF vars
  <2> QED
    BY <2>1, <2>2, <2>3, <2>4 DEF Inv, Garde
<1> QED
  BY <1>1, <1>2, <1>3, <1>4, <1>5, <1>6, <1>7, <1>8, <1>9, <1>10, <1>11, <1>12
  DEF Next, yylex

LEMMA Invariante == Spec => []Inv
<1>1. Init => Inv
  BY Debut
<1>2. Inv /\ [Next]_vars => Inv'
  BY PasInv
<1> QED
  BY <1>1, <1>2, PTL DEF Spec

LEMMA TypesDeInv == Inv => TypeOK
<1> SUFFICES ASSUME Inv PROVE TypeOK
  OBVIOUS
<1>1. Types
  BY DEF Inv
<1>2. yy_n_chars \in Nat
  BY <1>1, TamponLu
<1>3. pc \in {"retour", "boucle", "yy_match", "yy_find_action", "do_action", "lecture", "exit"}
  BY DEF Inv
<1>4. pc \notin {"lecture", "exit"} => yy_c_buf_p \in 1 .. yy_n_chars + 2
  <2>1. CASE pc \in {"boucle", "retour"}
    <3>1. yy_c_buf_p \in 1 .. yy_n_chars + 1
      BY <2>1, PorteHors DEF Dehors
    <3> QED
      BY <1>2, <3>1
  <2>2. CASE pc \in {"yy_match", "yy_find_action"}
    BY <2>2, PorteCours DEF Avance, Arrete
  <2>3. CASE pc = "do_action"
    BY <2>3, PorteChoisi
  <2> QED
    BY <1>3, <2>1, <2>2, <2>3
<1>5. pc \in {"yy_match", "yy_find_action"} =>
        yy_bp \in 1 .. yy_n_chars + 2 /\ yy_cp \in yy_bp .. yy_n_chars + 3
  <2> SUFFICES ASSUME pc \in {"yy_match", "yy_find_action"}
               PROVE  yy_bp \in 1 .. yy_n_chars + 2 /\ yy_cp \in yy_bp .. yy_n_chars + 3
    OBVIOUS
  <2>1. yy_bp \in 1 .. yy_n_chars + 1
        /\ (yy_cp \in yy_bp .. yy_n_chars + 1 \/ yy_cp \in yy_bp .. yy_n_chars + 3)
    BY PorteCours DEF Avance, Arrete
  <2> QED
    BY <1>2, <2>1
<1>6. pc = "lecture" => num_to_read > 0
  <2> SUFFICES ASSUME pc = "lecture" PROVE num_to_read > 0
    OBVIOUS
  <2>1. ~Manque(yy_buf_size, yy_n_chars)
    BY PorteVide DEF Vide
  <2>2. yy_buf_size \in Nat /\ YY_READ_BUF_SIZE \in Nat \ {0}
    BY <1>1, AnalyseurAssumption DEF Types
  <2>3. yy_buf_size - yy_n_chars - 1 > 0
    BY <1>2, <2>1, <2>2 DEF Manque
  <2> QED
    BY <1>2, <2>2, <2>3 DEF num_to_read
<1> QED
  BY <1>1, <1>3, <1>4, <1>5, <1>6 DEF Types, TypeOK

\* No position leaves the buffer, nor the text the room allocated, for every
\* size of the buffer and of the reads, and every stream.
THEOREM AnalyseurTypee == Spec => []TypeOK
BY Invariante, TypesDeInv, PTL

\* What makes a packet of a text under way, the automaton being in state t.
Complement(t, q) ==
  /\ q \in Seq(Caracteres)
  /\ \/ t \in {6, 9} /\ Len(q) = 3 /\ q[1] = "#" /\ q[2] = "h" /\ q[3] = "h"
     \/ t = 10 /\ Len(q) = 2 /\ q[1] = "h" /\ q[2] = "h"
     \/ t = 11 /\ Len(q) = 1 /\ q[1] = "h"

LEMMA PaquetComplete ==
  ASSUME NEW w \in Seq(Caracteres), NEW t, Mene(t, w, Len(w)), NEW q, Complement(t, q)
  PROVE  D!EstPaquet(w \o q)
<1>1. PICK N \in Nat : N = Len(w)
  BY LenProperties
<1>2. PICK p : p = w \o q
  OBVIOUS
<1>3. /\ Len(p) = N + Len(q)
      /\ \A i \in 1 .. N + Len(q) : p[i] = IF i <= N THEN w[i] ELSE q[i - N]
  <2>1. q \in Seq(Caracteres) /\ w \in Seq(Caracteres)
    BY DEF Complement
  <2>2. /\ Len(w \o q) = Len(w) + Len(q)
        /\ \A i \in 1 .. Len(w) + Len(q) :
             (w \o q)[i] = IF i <= Len(w) THEN w[i] ELSE q[i - Len(w)]
    BY <2>1, ConcatProperties
  <2> QED
    BY <1>1, <1>2, <2>2
<1>4. Mene(t, w, N) /\ t \in {6, 9, 10, 11}
  BY <1>1 DEF Complement
<1>5. /\ N >= 1 /\ w[1] = "$" /\ (t \in {9, 10} => N >= 2) /\ (t = 11 => N >= 3) /\ (t = 6 => N = 1)
  BY <1>1, <1>4 DEF Mene
<1>6. /\ t \in {6, 9} => \A k \in 2 .. N : w[k] \notin {"$", "#"}
      /\ t = 10 => w[N] = "#" /\ \A k \in 2 .. N - 1 : w[k] \notin {"$", "#"}
      /\ t = 11 => w[N - 1] = "#" /\ w[N] = "h" /\ \A k \in 2 .. N - 2 : w[k] \notin {"$", "#"}
  BY <1>1, <1>4, <1>5 DEF Mene
<1>7. CASE t \in {6, 9}
  <2>1. Len(q) = 3 /\ q[1] = "#" /\ q[2] = "h" /\ q[3] = "h"
    BY <1>7 DEF Complement
  <2>2. Len(p) = N + 3 /\ \A i \in 1 .. N + 3 : p[i] = IF i <= N THEN w[i] ELSE q[i - N]
    BY <1>3, <2>1
  <2>3. /\ (N + 1) - N = 1 /\ (N + 2) - N = 2 /\ (N + 3) - N = 3
        /\ (N + 3) - 2 = N + 1 /\ (N + 3) - 1 = N + 2 /\ (N + 3) - 3 = N /\ N + 3 >= 4
    BY <1>1, <1>5, <1>7
  <2>4. p[N + 1] = "#" /\ p[N + 2] = "h" /\ p[N + 3] = "h"
    BY <1>1, <1>5, <1>6, <1>7, <2>1, <2>2, <2>3
  <2>5. p[1] = "$" /\ \A k \in 2 .. N : p[k] \notin {"$", "#"}
    <3>1. 1 \in 1 .. N + 3 /\ 1 <= N /\ \A k \in 2 .. N : k \in 1 .. N + 3 /\ k <= N
      BY <1>1, <1>5
    <3> QED
      BY <1>5, <1>6, <1>7, <2>2, <3>1
  <2>6. D!EstPaquet(p)
    BY <2>2, <2>3, <2>4, <2>5 DEF D!EstPaquet, D!EstHex
  <2> QED
    BY <1>2, <2>6
<1>8. CASE t = 10
  <2>1. Len(q) = 2 /\ q[1] = "h" /\ q[2] = "h"
    BY <1>8 DEF Complement
  <2>2. Len(p) = N + 2 /\ \A i \in 1 .. N + 2 : p[i] = IF i <= N THEN w[i] ELSE q[i - N]
    BY <1>3, <2>1
  <2>3. /\ (N + 1) - N = 1 /\ (N + 2) - N = 2 /\ N \in 1 .. N + 2
        /\ (N + 2) - 2 = N /\ (N + 2) - 1 = N + 1 /\ (N + 2) - 3 = N - 1 /\ N + 2 >= 4
    BY <1>1, <1>5, <1>8
  <2>4. p[N] = "#" /\ p[N + 1] = "h" /\ p[N + 2] = "h"
    BY <1>1, <1>5, <1>6, <1>8, <2>1, <2>2, <2>3
  <2>5. p[1] = "$" /\ \A k \in 2 .. N - 1 : p[k] \notin {"$", "#"}
    <3>1. 1 \in 1 .. N + 2 /\ 1 <= N /\ \A k \in 2 .. N - 1 : k \in 1 .. N + 2 /\ k <= N
      BY <1>1, <1>5
    <3> QED
      BY <1>5, <1>6, <1>8, <2>2, <3>1
  <2>6. D!EstPaquet(p)
    BY <2>2, <2>3, <2>4, <2>5 DEF D!EstPaquet, D!EstHex
  <2> QED
    BY <1>2, <2>6
<1>9. CASE t = 11
  <2>1. Len(q) = 1 /\ q[1] = "h"
    BY <1>9 DEF Complement
  <2>2. Len(p) = N + 1 /\ \A i \in 1 .. N + 1 : p[i] = IF i <= N THEN w[i] ELSE q[i - N]
    BY <1>3, <2>1
  <2>3. /\ (N + 1) - N = 1 /\ N \in 1 .. N + 1 /\ N - 1 \in 1 .. N + 1
        /\ (N + 1) - 2 = N - 1 /\ (N + 1) - 1 = N /\ (N + 1) - 3 = N - 2 /\ N + 1 >= 4
    BY <1>1, <1>5, <1>9
  <2>4. p[N - 1] = "#" /\ p[N] = "h" /\ p[N + 1] = "h"
    BY <1>1, <1>5, <1>6, <1>9, <2>1, <2>2, <2>3
  <2>5. p[1] = "$" /\ \A k \in 2 .. N - 2 : p[k] \notin {"$", "#"}
    <3>1. 1 \in 1 .. N + 1 /\ 1 <= N /\ \A k \in 2 .. N - 2 : k \in 1 .. N + 1 /\ k <= N
      BY <1>1, <1>5
    <3> QED
      BY <1>5, <1>6, <1>9, <2>2, <3>1
  <2>6. D!EstPaquet(p)
    BY <2>2, <2>3, <2>4, <2>5 DEF D!EstPaquet, D!EstHex
  <2> QED
    BY <1>2, <2>6
<1> QED
  BY <1>4, <1>7, <1>8, <1>9

LEMMA AttenteDeInv == Inv => PasDAttenteInutile
<1> SUFFICES ASSUME Inv, pc = "lecture"
             PROVE  \/ TexteEnCours \in {<<>>, <<NUL>>}
                    \/ \E s \in {<<"#", "h", "h">>, <<"h", "h">>, <<"h">>} :
                         D!EstPaquet(TexteEnCours \o s)
  BY DEF PasDAttenteInutile
<1>1. Types /\ Vide /\ Porte(yy_ch_buf, 1)
  BY PorteVide
<1>2. PICK N \in Nat : N = yy_n_chars
  BY <1>1, TamponLu
<1>3. PICK t \in Ouverts : Ouvert(t, Reste, N)
  BY <1>1, <1>2 DEF Vide
<1>4. PICK w \in Seq(Caracteres) : w = TexteEnCours /\ Len(w) = N /\ \A k \in 1 .. N : Reste[k] = w[k]
  <2>1. /\ TexteEnCours \in Seq(Caracteres) /\ Len(TexteEnCours) = (N + 1) - 1
        /\ \A k \in 1 .. (N + 1) - 1 :
             Reste[k] = yy_ch_buf[1 + k - 1] /\ TexteEnCours[k] = yy_ch_buf[1 + k - 1]
    <3>1. /\ TexteEnCours \in Seq(Caracteres) /\ Len(TexteEnCours) = (yy_n_chars + 1) - 1
          /\ \A k \in 1 .. (yy_n_chars + 1) - 1 :
               Reste[k] = yy_ch_buf[1 + k - 1] /\ TexteEnCours[k] = yy_ch_buf[1 + k - 1]
      BY <1>1, ResteDePorte
    <3> QED
      BY <1>2, <3>1
  <2> QED
    BY <1>2, <2>1
<1>5. Mene(t, w, N)
  <2>1. Mene(t, Reste, N)
    BY <1>3 DEF Ouvert
  <2> QED
    BY <1>2, <1>4, <2>1, MenePrefixe
<1>6. CASE t = 1
  <2>1. N = 0
    BY <1>2, <1>5, <1>6, MeneTypes
  <2> QED
    BY <1>4, <2>1, EmptySeq
<1>7. CASE t = 4
  <2>1. N = 1 /\ Reste[1] = NUL
    BY <1>2, <1>3, <1>5, <1>7, MeneTypes DEF Ouvert
  <2>2. w = <<NUL>>
    <3>1. <<NUL>> \in Seq(Caracteres) /\ Len(<<NUL>>) = 1 /\ <<NUL>>[1] = NUL
      BY NulCaractere
    <3>2. \A k \in 1 .. 1 : w[k] = <<NUL>>[k]
      BY <1>4, <2>1, <3>1
    <3> QED
      BY <1>4, <2>1, <3>1, <3>2, SeqEqual
  <2> QED
    BY <1>4, <2>2
<1>8. w \in Seq(Caracteres) /\ Mene(t, w, Len(w))
  BY <1>4, <1>5
<1>9. CASE t \in {6, 9}
  <2>1. PICK q : q = <<"#", "h", "h">>
    OBVIOUS
  <2>2. Complement(t, q)
    <3>1. /\ <<"#", "h", "h">> \in Seq(Caracteres) /\ Len(<<"#", "h", "h">>) = 3
          /\ <<"#", "h", "h">>[1] = "#" /\ <<"#", "h", "h">>[2] = "h" /\ <<"#", "h", "h">>[3] = "h"
      BY DEF Caracteres
    <3> QED
      BY <1>9, <2>1, <3>1 DEF Complement
  <2>3. D!EstPaquet(w \o q)
    BY <1>8, <2>2, PaquetComplete
  <2> QED
    BY <1>4, <2>1, <2>3
<1>10. CASE t = 10
  <2>1. PICK q : q = <<"h", "h">>
    OBVIOUS
  <2>2. Complement(t, q)
    <3>1. /\ <<"h", "h">> \in Seq(Caracteres) /\ Len(<<"h", "h">>) = 2
          /\ <<"h", "h">>[1] = "h" /\ <<"h", "h">>[2] = "h"
      BY DEF Caracteres
    <3> QED
      BY <1>10, <2>1, <3>1 DEF Complement
  <2>3. D!EstPaquet(w \o q)
    BY <1>8, <2>2, PaquetComplete
  <2> QED
    BY <1>4, <2>1, <2>3
<1>11. CASE t = 11
  <2>1. PICK q : q = <<"h">>
    OBVIOUS
  <2>2. Complement(t, q)
    <3>1. /\ <<"h">> \in Seq(Caracteres) /\ Len(<<"h">>) = 1
          /\ <<"h">>[1] = "h"
      BY DEF Caracteres
    <3> QED
      BY <1>11, <2>1, <3>1 DEF Complement
  <2>3. D!EstPaquet(w \o q)
    BY <1>8, <2>2, PaquetComplete
  <2> QED
    BY <1>4, <2>1, <2>3
<1> QED
  BY <1>6, <1>7, <1>9, <1>10, <1>11 DEF Ouverts

\* The scanner never waits for more when the text it has is whole: an answer
\* received is handed over, however the stream was cut into reads.
THEOREM AttenteUtile == Spec => []PasDAttenteInutile
BY Invariante, AttenteDeInv, PTL

LEMMA PasDecoupage == Inv /\ [Next]_vars => [D!Couper \/ D!Finir]_(D!vars)
<1> SUFFICES ASSUME Inv, [Next]_vars PROVE [D!Couper \/ D!Finir]_(D!vars)
  OBVIOUS
<1>1. Garde \/ Coupe \/ Fini
  BY PasInv
<1>2. CASE Garde
  BY <1>2 DEF Garde, Reste, D!vars
<1>3. CASE Coupe
  BY <1>3 DEF Coupe, Reste, D!Couper
<1>4. CASE Fini
  BY <1>4 DEF Fini, Reste, D!Finir
<1> QED
  BY <1>1, <1>2, <1>3, <1>4

\* The stream is cut as scanner.l says, into the longest texts, none lost, given
\* twice or cut by the end of a read: every step of the scanner cuts one text,
\* tells the end when nothing is left, or changes nothing of it.
THEOREM DecoupagesFideles == Spec => DecoupageFidele
<1>1. Init => livres = <<>> /\ rendu = FALSE
  BY DEF Init, InitAnalyseur
<1>2. Inv /\ [Next]_vars => [D!Couper \/ D!Finir]_(D!vars)
  BY PasDecoupage
<1> QED
  BY <1>1, <1>2, Invariante, PTL DEF Spec, DecoupageFidele, D!Spec

=============================================================================
