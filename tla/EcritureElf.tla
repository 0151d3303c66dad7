---------------------------- MODULE EcritureElf ----------------------------
(***************************************************************************)
(* What writing an ELF file promises, whatever is written: space for the   *)
(* ELF header is kept at the front, every block is written once, directly  *)
(* after the previous one, and the header comes last, when the section     *)
(* table it points to is in place.                                         *)
(***************************************************************************)
EXTENDS Integers

CONSTANT TailleEhdr  \* sizeof(Elf32_Ehdr), positive (a hypothesis of the theorems)

VARIABLES
  blocs,   \* the parts of the file written so far, [at, len]
  limite,  \* the end of the file
  etat     \* "vide", "ecriture", "clos" or "abandonne"

vars == <<blocs, limite, etat>>

Init == blocs = {} /\ limite = TailleEhdr /\ etat = "vide"

Ouvrir == etat = "vide" /\ etat' = "ecriture" /\ UNCHANGED <<blocs, limite>>

Etendre ==
  /\ etat = "ecriture" /\ UNCHANGED etat
  /\ limite' \in Nat /\ limite' > limite
  /\ blocs' = blocs \cup {[at |-> limite, len |-> limite' - limite]}

Clore ==
  /\ etat = "ecriture" /\ etat' = "clos"
  /\ \E b \in blocs : b.at + b.len = limite
  /\ blocs' = blocs \cup {[at |-> 0, len |-> TailleEhdr]}
  /\ UNCHANGED limite

Abandonner ==
  /\ etat \in {"vide", "ecriture"} /\ etat' = "abandonne"
  /\ UNCHANGED <<blocs, limite>>

Next == Ouvrir \/ Etendre \/ Clore \/ Abandonner

Spec == Init /\ [][Next]_vars

-----------------------------------------------------------------------------
Bloc == [at : Nat, len : Nat \ {0}]

TypeOK ==
  /\ blocs \subseteq Bloc
  /\ limite \in Nat /\ limite >= TailleEhdr
  /\ etat \in {"vide", "ecriture", "clos", "abandonne"}

Separes(b, c) == b.at + b.len <= c.at \/ c.at + c.len <= b.at

\* No byte of the file is written twice, and none past its end.
BlocsSepares ==
  /\ \A b, c \in blocs : b # c => Separes(b, c)
  /\ \A b \in blocs : b.at + b.len <= limite

\* The front of the file stays free until it is closed.
DebutReserve ==
  \A b \in blocs : b.at < TailleEhdr => etat = "clos" /\ b.at = 0
=============================================================================
