----------------------------- MODULE Decoupage -----------------------------
(***************************************************************************)
(* What the scanner of the simulator's answers promises (scanner.l:62-77): *)
(* the stream is cut from left to right into the longest texts the rules   *)
(* describe, each goes to its rule, and the end is told when nothing is    *)
(* left.  Nothing is said of how the stream comes.                         *)
(***************************************************************************)
EXTENDS Naturals, Sequences

VARIABLES
  reste,   \* what is not cut yet
  jetons,  \* the texts cut, with the number of their rule
  fin      \* the last call returned EOF

vars == <<reste, jetons, fin>>

EstHex(c) == c = "h"

\* "$"[^$#]*"#"{HEX}{HEX}
EstPaquet(s) ==
  /\ Len(s) >= 4 /\ s[1] = "$" /\ s[Len(s) - 2] = "#"
  /\ EstHex(s[Len(s) - 1]) /\ EstHex(s[Len(s)])
  /\ \A k \in 2 .. Len(s) - 3 : s[k] \notin {"$", "#"}

\* The length of the text at the head of s: no packet is the beginning of
\* another one.
Longueur(s) ==
  IF \E n \in 4 .. Len(s) : EstPaquet(SubSeq(s, 1, n))
  THEN CHOOSE n \in 4 .. Len(s) : EstPaquet(SubSeq(s, 1, n))
  ELSE 1

\* The rules, in the order of scanner.l; 5 is flex's own, for the newline.
Regle(s) ==
  CASE s[1] = "+" -> 1
    [] s[1] = "-" -> 2
    [] Longueur(s) > 1 -> 3
    [] s[1] = "\n" -> 5
    [] OTHER -> 4

Couper ==
  /\ reste # <<>>
  /\ LET n == Longueur(reste)
     IN  /\ jetons' = Append(jetons, [regle |-> Regle(reste), texte |-> SubSeq(reste, 1, n)])
         /\ reste' = SubSeq(reste, n + 1, Len(reste))
  /\ UNCHANGED fin

Finir ==
  /\ reste = <<>> /\ fin' = TRUE
  /\ UNCHANGED <<reste, jetons>>

Spec == jetons = <<>> /\ fin = FALSE /\ [][Couper \/ Finir]_vars
=============================================================================
