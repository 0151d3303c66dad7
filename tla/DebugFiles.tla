----------------------------- MODULE DebugFiles -----------------------------
(***************************************************************************)
(* The table of the source files whose debug output is enabled (debug.c).  *)
(* A name stands as its rank in the order of strcmp.                       *)
(***************************************************************************)
EXTENDS Integers, Sequences, SequencesExt

CONSTANT MAX_FILES_NUMBER

ASSUME DebugAssumption == MAX_FILES_NUMBER \in Nat \ {0}

\* Where the insertion stops: the first name that is not smaller, the end of
\* the table or its limit.
Place(files, name) ==
  CHOOSE i \in 0 .. Len(files) :
    /\ \A k \in 0 .. i - 1 : files[k + 1] < name /\ k < MAX_FILES_NUMBER
    /\ i = Len(files) \/ i >= MAX_FILES_NUMBER \/ files[i + 1] >= name

\* (mutant) The name is added at the end.
add_debug_toFin(files, name) ==
  IF Place(files, name) >= MAX_FILES_NUMBER THEN files ELSE Append(files, name)

\* Only a name that comes after all those of a full table is left out.
add_debug_to(files, name) ==
  IF Place(files, name) >= MAX_FILES_NUMBER THEN files
  ELSE InsertAt(files, Place(files, name) + 1, name)

\* The binary search of __is_debugged.
is_debugged(files, name) ==
  LET dicho[e \in (0 .. Len(files)) \X (-1 .. Len(files) - 1)] ==
        LET from == e[1]  to == e[2]  middle == (from + to) \div 2
        IN  IF from >= to
            THEN from = to /\ files[from + 1] = name
            ELSE \/ files[middle + 1] = name
                 \/ files[middle + 1] < name /\ dicho[<<middle + 1, to>>]
                 \/ files[middle + 1] > name /\ dicho[<<from, middle - 1>>]
  IN  dicho[<<0, Len(files) - 1>>]
=============================================================================
