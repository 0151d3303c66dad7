------------------------------ MODULE Analyseur ------------------------------
(***************************************************************************)
(* The scanner generated from scanner.l: the automaton of its five rules   *)
(* as flex compressed it, and the buffer it runs over, refilled by read()  *)
(* whatever the size of what comes.  One action per label of yylex.        *)
(*                                                                         *)
(* A character is one of its classes; positions count from 1, so that the  *)
(* two end-of-buffer characters are at yy_n_chars + 1 and + 2.             *)
(***************************************************************************)
EXTENDS Integers, Sequences

CONSTANTS
  YY_BUF_SIZE,       \* the first size of the buffer
  YY_READ_BUF_SIZE,  \* the most that is read at once
  Flux               \* what the simulator may send before it closes

NUL == "0"
Caracteres == {NUL, "x", "\n", "#", "$", "+", "-", "h"}

ASSUME AnalyseurAssumption ==
  /\ YY_BUF_SIZE \in Nat \ {0} /\ YY_READ_BUF_SIZE \in Nat \ {0}
  /\ \A f \in Flux : f \in Seq(Caracteres)

VARIABLES
  pc,                \* the label yylex is at, "lecture" in YY_INPUT, "retour" outside
  flux,              \* what read() has not returned yet
  yy_ch_buf,         \* the buffer, with its two end-of-buffer characters
  yy_buf_size,       \* its size, without them
  yy_buffer_status,  \* "new", "normal" or "eof_pending"
  yy_hold_char,      \* the character that stands where yytext ends
  yy_c_buf_p,        \* where that is
  yytext_ptr,        \* the beginning of the text matched last
  yy_bp, yy_cp,      \* the beginning and the end of the text under way
  yy_current_state, yy_act,
  dernier,           \* the last accepting state and where it was
  livres, rendu      \* (history) the texts given to the rules; EOF was returned

tampon == <<yy_ch_buf, yy_buf_size, yy_buffer_status, yy_hold_char>>
texte == <<yy_c_buf_p, yytext_ptr, yy_bp, yy_cp>>
automate == <<yy_current_state, yy_act, dernier>>
vars == <<pc, flux, tampon, texte, automate, livres, rendu>>

yy_n_chars == Len(yy_ch_buf) - 2
Fin2 == <<NUL, NUL>>

\* The life of a buffer: it is made empty, and made empty again at the end of
\* the stream; yylex then starts at its first character.
yy_flush_buffer(b) == [b EXCEPT !.yy_ch_buf = Fin2, !.yy_buffer_status = "new"]
yy_create_buffer(size) ==
  yy_flush_buffer([yy_ch_buf |-> <<>>, yy_buf_size |-> size, yy_buffer_status |-> "normal"])
yy_load_buffer_state(b) ==
  [yy_c_buf_p |-> 1, yytext_ptr |-> 1, yy_hold_char |-> b.yy_ch_buf[1]]

-----------------------------------------------------------------------------
(* The automaton. *)

INITIAL == 1
JAM == 13
YY_END_OF_BUFFER == 6

Table(t) == [k \in 0 .. Len(t) - 1 |-> t[k + 1]]

yy_ec == [c \in Caracteres |->
            CASE c = NUL -> 0 [] c = "x" -> 1 [] c = "\n" -> 2 [] c = "#" -> 3
              [] c = "$" -> 4 [] c = "+" -> 5 [] c = "-" -> 6 [] c = "h" -> 7]

yy_accept == Table(<<0, 0, 0, 6, 4, 5, 4, 1, 2, 0, 0, 0, 3, 0>>)
yy_meta   == Table(<<0, 1, 1, 1, 2, 1, 1, 1>>)
yy_base   == Table(<<0, 0, 0, 13, 14, 14, 9, 14, 14, 8, 3, 2, 14, 14, 7>>)
yy_def    == Table(<<0, 13, 1, 13, 13, 13, 14, 13, 13, 14, 13, 13, 13, 0, 13>>)
yy_nxt    == Table(<<0, 4, 5, 4, 6, 7, 8, 4, 9, 12, 11, 10, 10, 13, 3,
                     13, 13, 13, 13, 13, 13, 13>>)
yy_chk    == Table(<<0, 1, 1, 1, 1, 1, 1, 1, 14, 11, 10, 9, 6, 3, 13,
                     13, 13, 13, 13, 13, 13, 13>>)

\* A state that has no transition of its own follows that of yy_def; 14 is the
\* template of "anything but $".
Transition[s \in 1 .. 14] ==
  [c \in 0 .. 7 |->
     IF yy_chk[yy_base[s] + c] = s THEN yy_nxt[yy_base[s] + c]
     ELSE Transition[yy_def[s]][IF yy_def[s] >= 14 THEN yy_meta[c] ELSE c]]

Noter(s, p, d) == IF yy_accept[s] # 0 THEN [etat |-> s, cpos |-> p] ELSE d

\* The states the characters of the classes cl lead to, from s: after none, one,
\* two of them.
Parcours(s, cl) ==
  LET P[k \in 0 .. Len(cl)] == IF k = 0 THEN s ELSE Transition[P[k - 1]][cl[k]]
  IN  P

\* The last accepting state of those left by the characters from p on, or d.
DernierAccepte(P, n, p, d) ==
  LET K == {k \in 0 .. n - 1 : yy_accept[P[k]] # 0}
      k == CHOOSE k \in K : \A j \in K : j <= k
  IN  IF K = {} THEN d ELSE [etat |-> P[k], cpos |-> p + k]

Classes(buf, p, fin_) == [k \in 1 .. fin_ - p |-> yy_ec[buf[p + k - 1]]]

\* (mutant) the automaton runs until it jams, not until it cannot go on.
ArretJam(P, n) ==
  LET K == {k \in 1 .. n : P[k] = JAM}
  IN  CHOOSE k \in K : \A j \in K : k <= j

\* The first state that has no way out.
Arret(P, n) ==
  LET K == {k \in 1 .. n : yy_base[P[k]] = 14}
  IN  CHOOSE k \in K : \A j \in K : k <= j

\* From state s at position p to the state that has no way out.
Course(buf, p, s, d) ==
  LET cl == Classes(buf, p, Len(buf) + 1)
      P == Parcours(s, cl)
      n == Arret(P, Len(cl))
  IN  [etat |-> P[n], cp |-> p + n, dernier |-> DernierAccepte(P, n, p, d)]

\* yy_get_previous_state: the text is run through again, its NULs as ordinary
\* characters.
Reprise(buf, p, fin_, d) ==
  LET cl == [k \in 1 .. fin_ - p |-> IF buf[p + k - 1] = NUL THEN 1 ELSE yy_ec[buf[p + k - 1]]]
      P == Parcours(INITIAL, cl)
  IN  [etat |-> P[Len(cl)], dernier |-> DernierAccepte(P, Len(cl), p, d)]

-----------------------------------------------------------------------------
InitAnalyseur(f) ==
  /\ pc = "retour" /\ flux = f
  /\ LET b == yy_create_buffer(YY_BUF_SIZE)
         l == yy_load_buffer_state(b)
     IN  /\ yy_ch_buf = b.yy_ch_buf /\ yy_buf_size = b.yy_buf_size
         /\ yy_buffer_status = b.yy_buffer_status
         /\ yy_hold_char = l.yy_hold_char
         /\ yy_c_buf_p = l.yy_c_buf_p /\ yytext_ptr = l.yytext_ptr
  /\ yy_bp = 1 /\ yy_cp = 1
  /\ yy_current_state = INITIAL /\ yy_act = 0
  /\ dernier = [etat |-> 0, cpos |-> 0]
  /\ livres = <<>> /\ rendu = FALSE

Init == \E f \in Flux : InitAnalyseur(f)

Appeler ==
  /\ pc = "retour" /\ pc' = "boucle"
  /\ UNCHANGED <<flux, tampon, texte, automate, livres, rendu>>

\* The top of the loop puts back the character yytext ended on.
Boucle ==
  /\ pc = "boucle" /\ pc' = "yy_match"
  /\ yy_ch_buf' = [yy_ch_buf EXCEPT ![yy_c_buf_p] = yy_hold_char]
  /\ yy_bp' = yy_c_buf_p /\ yy_cp' = yy_c_buf_p
  /\ yy_current_state' = INITIAL
  /\ UNCHANGED <<flux, yy_buf_size, yy_buffer_status, yy_hold_char, yy_c_buf_p,
                 yytext_ptr, yy_act, dernier, livres, rendu>>

yy_match ==
  /\ pc = "yy_match" /\ pc' = "yy_find_action"
  /\ LET c == Course(yy_ch_buf, yy_cp, yy_current_state, dernier)
     IN  yy_current_state' = c.etat /\ yy_cp' = c.cp /\ dernier' = c.dernier
  /\ UNCHANGED <<flux, tampon, yy_c_buf_p, yytext_ptr, yy_bp, yy_act, livres, rendu>>

\* Without an action of its own the state backs up to the last one that had;
\* then yytext is ended by a NUL.
yy_find_action ==
  /\ pc = "yy_find_action" /\ pc' = "do_action"
  /\ IF yy_accept[yy_current_state] = 0
     THEN yy_cp' = dernier.cpos /\ yy_current_state' = dernier.etat
     ELSE UNCHANGED <<yy_cp, yy_current_state>>
  /\ yy_act' = yy_accept[yy_current_state']
  /\ yytext_ptr' = yy_bp /\ yy_c_buf_p' = yy_cp'
  /\ yy_hold_char' = yy_ch_buf[yy_cp']
  /\ yy_ch_buf' = [yy_ch_buf EXCEPT ![yy_cp'] = NUL]
  /\ UNCHANGED <<flux, yy_buf_size, yy_buffer_status, yy_bp, dernier, livres, rendu>>

yytext == SubSeq(yy_ch_buf, yytext_ptr, yy_c_buf_p - 1)

\* A rule has run.  That of the packets returns when the sum is right, which
\* is not looked at here; the others go round the loop.
Action ==
  /\ pc = "do_action" /\ yy_act \in 1 .. 5
  /\ livres' = Append(livres, [regle |-> yy_act, texte |-> yytext])
  /\ pc' \in IF yy_act = 3 THEN {"boucle", "retour"} ELSE {"boucle"}
  /\ UNCHANGED <<flux, tampon, texte, automate, rendu>>

-----------------------------------------------------------------------------
(* YY_END_OF_BUFFER: a NUL of the stream, or the end of the buffer. *)

yy_amount_of_matched_text == yy_cp - yytext_ptr - 1

FinDeTampon ==
  /\ pc = "do_action" /\ yy_act = YY_END_OF_BUFFER
  /\ yy_buffer_status' = IF yy_buffer_status = "new" THEN "normal" ELSE yy_buffer_status
  /\ UNCHANGED <<flux, yy_hold_char, yy_act, livres, rendu>>

Restaure == [yy_ch_buf EXCEPT ![yy_cp] = yy_hold_char]

\* The automaton goes on from p, in the state the text before p leads to.
Reprendre(buf, debut, p) ==
  LET r == Reprise(buf, debut, p, dernier)
  IN  yy_current_state' = r.etat /\ dernier' = r.dernier /\ yy_bp' = debut

yy_try_NUL_trans(s, p, d) ==
  [etat |-> IF Transition[s][1] = JAM THEN 0 ELSE Transition[s][1],
   dernier |-> Noter(s, p, d)]

\* The NUL is an ordinary character, or nothing goes on with it.
NulDuFlux ==
  /\ FinDeTampon /\ yy_c_buf_p <= yy_n_chars + 1
  /\ LET p == yytext_ptr + yy_amount_of_matched_text
         r == Reprise(Restaure, yytext_ptr, p, dernier)
         t == yy_try_NUL_trans(r.etat, p, r.dernier)
     IN  /\ dernier' = t.dernier
         /\ yy_bp' = yytext_ptr
         /\ IF t.etat # 0
            THEN yy_cp' = p + 1 /\ yy_current_state' = t.etat /\ pc' = "yy_match"
            ELSE yy_cp' = p /\ yy_current_state' = r.etat /\ pc' = "yy_find_action"
         /\ yy_c_buf_p' = yy_cp'
  /\ yy_ch_buf' = Restaure
  /\ UNCHANGED <<yy_buf_size, yytext_ptr>>

\* (mutant) the end-of-buffer character is moved with the text.
DeplaceAvecFin == SubSeq(Restaure, yytext_ptr, yy_c_buf_p - 1)

\* The text under way, that yy_get_next_buffer moves to the start.
Deplace == SubSeq(Restaure, yytext_ptr, yy_c_buf_p - 2)

\* (mutant) the buffer grows only when the text no longer fits in it.
ManqueTropTard(taille, k) == taille - k < 0

\* There is no room left to read in, after a text of k characters.
Manque(taille, k) == taille - k - 1 <= 0

\* The buffer is doubled until there is room.
Agrandi(taille, k) ==
  LET T[i \in 0 .. k + 1] == IF i = 0 THEN taille ELSE 2 * T[i - 1]
      I == {i \in 0 .. k + 1 : ~Manque(T[i], k)}
  IN  T[CHOOSE i \in I : \A j \in I : i <= j]

\* yy_get_next_buffer, up to the read.
ViderTampon ==
  /\ FinDeTampon /\ yy_c_buf_p > yy_n_chars + 1
  /\ yy_buffer_status # "eof_pending"
  /\ yy_ch_buf' = Deplace \o Fin2
  /\ yy_buf_size' = Agrandi(yy_buf_size, Len(Deplace))
  /\ yytext_ptr' = 1 /\ pc' = "lecture"
  /\ UNCHANGED <<yy_c_buf_p, yy_bp, yy_cp, yy_current_state, dernier>>

num_to_read ==
  LET n == yy_buf_size - yy_n_chars - 1
  IN  IF n > YY_READ_BUF_SIZE THEN YY_READ_BUF_SIZE ELSE n

\* What a read may return; one that a signal interrupts is made again.
YY_INPUT(max_size) == {k \in 1 .. max_size : k <= Len(flux)}

\* EOB_ACT_CONTINUE_SCAN.
Lire ==
  /\ pc = "lecture" /\ flux # <<>>
  /\ \E k \in YY_INPUT(num_to_read) :
       /\ flux' = SubSeq(flux, k + 1, Len(flux))
       /\ yy_ch_buf' = SubSeq(yy_ch_buf, 1, yy_n_chars) \o SubSeq(flux, 1, k) \o Fin2
  /\ yy_c_buf_p' = yy_n_chars + 1 /\ yy_cp' = yy_c_buf_p'
  /\ Reprendre(yy_ch_buf', 1, yy_c_buf_p')
  /\ pc' = "yy_match"
  /\ UNCHANGED <<yy_buf_size, yy_buffer_status, yy_hold_char, yytext_ptr, yy_act,
                 livres, rendu>>

\* (mutant) the text left is scanned again as though more had come.
DernierTexteRepris(buf, n) ==
  /\ n > 0
  /\ yy_ch_buf' = buf
  /\ yy_buffer_status' = "eof_pending"
  /\ yytext_ptr' = 1 /\ yy_c_buf_p' = n + 1 /\ yy_cp' = n + 1
  /\ Reprendre(buf, 1, n + 1)
  /\ pc' = "yy_match"
  /\ UNCHANGED <<flux, yy_buf_size, yy_hold_char, yy_act, livres, rendu>>

\* EOB_ACT_LAST_MATCH: the text left is matched as it is, with no other read.
DernierTexte(buf, n) ==
  /\ n > 0
  /\ yy_ch_buf' = buf
  /\ yy_buffer_status' = "eof_pending"
  /\ yytext_ptr' = 1 /\ yy_c_buf_p' = n + 1 /\ yy_cp' = n + 1
  /\ Reprendre(buf, 1, n + 1)
  /\ pc' = "yy_find_action"
  /\ UNCHANGED <<flux, yy_buf_size, yy_hold_char, yy_act, livres, rendu>>

\* EOB_ACT_END_OF_FILE: yyrestart flushes the buffer, so that the next call
\* reads again, and <<EOF>> returns.
Restaurer ==
  /\ LET b == yy_flush_buffer([yy_ch_buf |-> yy_ch_buf, yy_buf_size |-> yy_buf_size,
                               yy_buffer_status |-> yy_buffer_status])
         l == yy_load_buffer_state(b)
     IN  /\ yy_ch_buf' = b.yy_ch_buf /\ yy_buffer_status' = b.yy_buffer_status
         /\ yy_hold_char' = l.yy_hold_char
         /\ yytext_ptr' = l.yytext_ptr /\ yy_c_buf_p' = l.yy_c_buf_p
  /\ pc' = "retour" /\ rendu' = TRUE
  /\ UNCHANGED <<flux, yy_buf_size, yy_bp, yy_cp, automate, livres>>

LireFin ==
  /\ pc = "lecture" /\ flux = <<>>
  /\ \/ DernierTexte(yy_ch_buf, yy_n_chars)
     \/ yy_n_chars = 0 /\ Restaurer

FinEnAttente ==
  /\ pc = "do_action" /\ yy_act = YY_END_OF_BUFFER
  /\ yy_c_buf_p > yy_n_chars + 1 /\ yy_buffer_status = "eof_pending"
  /\ \/ DernierTexte(Deplace \o Fin2, Len(Deplace))
     \/ Deplace = <<>> /\ Restaurer

\* YY_FATAL_ERROR ends the program: the read fails, or the buffer cannot grow.
Fatale ==
  /\ pc = "lecture" /\ pc' = "exit"
  /\ UNCHANGED <<flux, tampon, texte, automate, livres, rendu>>

-----------------------------------------------------------------------------
yylex ==
  \/ Appeler \/ Boucle \/ yy_match \/ yy_find_action \/ Action
  \/ NulDuFlux \/ ViderTampon \/ Lire \/ LireFin \/ FinEnAttente

Next == yylex \/ Fatale

Spec == Init /\ [][Next]_vars

\* The client goes on asking for packets; the simulator sends all of flux, then
\* closes.
FairSpec == Spec /\ WF_vars(yylex)

-----------------------------------------------------------------------------
(***************************************************************************)
(* Properties.                                                             *)
(***************************************************************************)

\* The text under way, with the character that yytext hides.
Contenu ==
  IF pc \in {"boucle", "retour", "do_action"}
  THEN [yy_ch_buf EXCEPT ![yy_c_buf_p] = yy_hold_char]
  ELSE yy_ch_buf

DebutTexte ==
  CASE pc \in {"boucle", "retour"} -> yy_c_buf_p
    [] pc \in {"yy_match", "yy_find_action"} -> yy_bp
    [] OTHER -> yytext_ptr

TexteEnCours == SubSeq(Contenu, DebutTexte, yy_n_chars)

D == INSTANCE Decoupage
       WITH reste <- TexteEnCours \o flux, jetons <- livres, fin <- rendu

\* The type invariant.  No position leaves the buffer, and the text, its two
\* end-of-buffer characters included, the room allocated (scanner.c:951-953,
\* 992-1028, 1055-1063).
TypeOK ==
  /\ pc \in {"retour", "boucle", "yy_match", "yy_find_action", "do_action",
             "lecture", "exit"}
  /\ yy_ch_buf \in Seq(Caracteres) /\ yy_n_chars \in 0 .. yy_buf_size
  /\ yy_buffer_status \in {"new", "normal", "eof_pending"}
  /\ yy_hold_char \in Caracteres
  /\ yytext_ptr \in 1 .. yy_n_chars + 2
  /\ pc \notin {"lecture", "exit"} => yy_c_buf_p \in 1 .. yy_n_chars + 2
  /\ pc \in {"yy_match", "yy_find_action"} =>
       yy_bp \in 1 .. yy_n_chars + 2 /\ yy_cp \in yy_bp .. yy_n_chars + 3
  /\ pc = "lecture" => num_to_read > 0

\* Whatever the sizes of the reads, the moves and the growth of the buffer, the
\* rules are given the texts the stream is made of: none is cut by the end of
\* a read or by a NUL, given twice or lost (scanner.c:728-931, 940-1129).
DecoupageFidele == D!Spec

\* The scanner waits for more only when the text it has is empty or begins a
\* packet: an answer received whole is never kept until the next one, which
\* the simulator would not send.  A NUL, which belongs to no answer, is the only
\* character kept although nothing can follow it (scanner.c:744-759, 851-901).
PasDAttenteInutile ==
  pc = "lecture" =>
    \/ TexteEnCours \in {<<>>, <<NUL>>}
    \/ \E s \in {<<"#", "h", "h">>, <<"h", "h">>, <<"h">>} :
         D!EstPaquet(TexteEnCours \o s)

\* What is said to be at its end has been given whole to the rules: an answer
\* cut short by the end of the connection is scanned character by character,
\* and EOF comes after it (scanner.c:862-883, 903-913, 1039-1050).
FinRendue == <>(pc = "exit" \/ (rendu /\ flux = <<>> /\ TexteEnCours = <<>>))
=============================================================================
