---------------------------- MODULE TableString ----------------------------
(***************************************************************************)
(* The string tables that the fusion builds (table_string.c): a buffer of  *)
(* cap bytes allocated once, and val, the number of bytes written so far.  *)
(* A table only grows, one NUL-terminated name at a time.  The bytes are   *)
(* abstracted to the set of names copied into the buffer, each with the    *)
(* position of its first byte.                                             *)
(***************************************************************************)
EXTENDS Naturals

CONSTANTS
  Noms,      \* the names that occur in the string tables of the sources
  Longueur   \* bytes a name occupies in a table, terminating NUL included

ASSUME LongueurAssumption == Longueur \in [Noms -> Nat \ {0}]

Copie == [at : Nat, nom : Noms]
TableString == [val : Nat, cap : Nat, string : SUBSET Copie]

init_table(size) == [val |-> 0, cap |-> size, string |-> {}]

\* (mutant) The terminating NUL is copied but not counted.
ApresSansNul(table, nom) == table.val + Longueur[nom] - 1

\* The position at which the next name will be written.
Apres(table, nom) == table.val + Longueur[nom]

\* write_table and write_table_Symb differ only in where the name comes from;
\* neither compares val with the size that was allocated.
write_table(table, nom) ==
  [val    |-> Apres(table, nom),
   cap    |-> table.cap,
   string |-> table.string \cup {[at |-> table.val, nom |-> nom]}]

\* Past the buffer the bytes land in memory that others use: the name may be
\* found there afterwards or be lost.
Ecritures(table, nom) ==
  {write_table(table, nom)}
  \cup IF Apres(table, nom) > table.cap
       THEN {[write_table(table, nom) EXCEPT !.string = table.string]} ELSE {}

\* What a reader finds at st_name or sh_name in the table.
Designe(table, at, nom) == [at |-> at, nom |-> nom] \in table.string

\* The name lies within the bytes that were allocated.
DansLaTable(table, at, nom) == at + Longueur[nom] <= table.cap

Tient(table) == table.val <= table.cap

\* No name was written over another one, and all lie below val.
Empilee(table) ==
  /\ \A c \in table.string : c.at + Longueur[c.nom] <= table.val
  /\ \A c, d \in table.string :
       c # d => \/ c.at + Longueur[c.nom] <= d.at
                \/ d.at + Longueur[d.nom] <= c.at
=============================================================================
