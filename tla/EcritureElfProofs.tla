------------------------- MODULE EcritureElfProofs -------------------------
(***************************************************************************)
(* What every implementation of EcritureElf inherits.                      *)
(***************************************************************************)
EXTENDS EcritureElf, TLAPS

Inv == TypeOK /\ BlocsSepares /\ DebutReserve

LEMMA Difference ==
  ASSUME NEW a \in Nat, NEW b \in Nat, b > a
  PROVE  b - a \in Nat \ {0} /\ a + (b - a) = b
OBVIOUS

EhdrNonVide == TailleEhdr \in Nat \ {0}

LEMMA InvInitElf == EhdrNonVide /\ Init => Inv
BY DEF EhdrNonVide, Init, Inv, TypeOK, BlocsSepares, DebutReserve

LEMMA InvNextElf == EhdrNonVide /\ Inv /\ [Next]_vars => Inv'
<1> SUFFICES ASSUME EhdrNonVide, Inv, [Next]_vars PROVE Inv'
  OBVIOUS
<1> USE DEF EhdrNonVide, Inv
<1>1. CASE Ouvrir
  BY <1>1 DEF Ouvrir, TypeOK, BlocsSepares, DebutReserve, Separes
<1>2. CASE Etendre
  <2> DEFINE n == [at |-> limite, len |-> limite' - limite]
  <2>1. /\ limite \in Nat /\ limite' \in Nat /\ limite' > limite
        /\ limite >= TailleEhdr /\ etat' = etat /\ blocs' = blocs \cup {n}
        /\ etat = "ecriture"
    BY <1>2 DEF Etendre, TypeOK
  <2>2. \A b \in blocs : b.at \in Nat /\ b.len \in Nat /\ b.at + b.len <= limite
    BY DEF TypeOK, Bloc, BlocsSepares
  <2>3. n \in Bloc /\ n.at = limite /\ n.at + n.len = limite'
    <3>1. /\ limite' - limite \in Nat \ {0}
          /\ limite + (limite' - limite) = limite'
      BY <2>1, Difference
    <3>2. n.at + n.len = limite'
      BY <3>1
    <3> QED
      BY <2>1, <3>1, <3>2 DEF Bloc
  <2> HIDE DEF n
  <2>4. TypeOK'
    BY <2>1, <2>3 DEF TypeOK
  <2>5. \A b \in blocs : Separes(b, n) /\ Separes(n, b)
    BY <2>1, <2>2, <2>3 DEF Separes
  <2>6. BlocsSepares'
    <3>1. \A b, c \in blocs' : b # c => Separes(b, c)
      BY <2>1, <2>5 DEF BlocsSepares
    <3>2. \A b \in blocs' : b.at + b.len <= limite'
      BY <2>1, <2>2, <2>3
    <3> QED
      BY <3>1, <3>2 DEF BlocsSepares, Separes
  <2>7. DebutReserve'
    BY <2>1, <2>3 DEF DebutReserve
  <2> QED
    BY <2>4, <2>6, <2>7
<1>3. CASE Clore
  <2> DEFINE n == [at |-> 0, len |-> TailleEhdr]
  <2>1. /\ limite \in Nat /\ limite' = limite /\ limite >= TailleEhdr
        /\ etat = "ecriture" /\ etat' = "clos" /\ blocs' = blocs \cup {n}
    BY <1>3 DEF Clore, TypeOK
  <2>2. \A b \in blocs : b.at \in Nat /\ b.len \in Nat
    BY DEF TypeOK, Bloc
  <2>3. n \in Bloc /\ n.at = 0 /\ n.len = TailleEhdr
    BY DEF Bloc
  <2> HIDE DEF n
  <2>4. TypeOK'
    BY <2>1, <2>3 DEF TypeOK
  <2>5. \A b \in blocs : b.at >= TailleEhdr
    BY <2>1, <2>2 DEF DebutReserve
  <2>6. \A b \in blocs : Separes(b, n) /\ Separes(n, b)
    BY <2>2, <2>3, <2>5 DEF Separes
  <2>7. BlocsSepares'
    <3>1. \A b, c \in blocs' : b # c => Separes(b, c)
      BY <2>1, <2>6 DEF BlocsSepares
    <3>2. \A b \in blocs' : b.at + b.len <= limite'
      BY <2>1, <2>3 DEF BlocsSepares
    <3> QED
      BY <3>1, <3>2 DEF BlocsSepares, Separes
  <2>8. DebutReserve'
    BY <2>1, <2>3, <2>5 DEF DebutReserve
  <2> QED
    BY <2>4, <2>7, <2>8
<1>4. CASE Abandonner
  BY <1>4 DEF Abandonner, TypeOK, BlocsSepares, DebutReserve, Separes
<1>5. CASE UNCHANGED vars
  BY <1>5 DEF vars, TypeOK, BlocsSepares, DebutReserve, Separes
<1> QED
  BY <1>1, <1>2, <1>3, <1>4, <1>5 DEF Next

\* In every file written as EcritureElf says, no byte is written twice and the
\* front is left free until the header closes the file.
THEOREM FichierBienEcrit ==
  ASSUME EhdrNonVide
  PROVE  Spec => [](BlocsSepares /\ DebutReserve)
<1>1. Inv => BlocsSepares /\ DebutReserve
  BY DEF Inv
<1>2. Init => Inv
  BY InvInitElf
<1>3. Inv /\ [Next]_vars => Inv'
  BY InvNextElf
<1> QED
  BY <1>1, <1>2, <1>3, PTL DEF Spec
=============================================================================
