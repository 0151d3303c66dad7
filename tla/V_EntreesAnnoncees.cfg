CONSTANTS
  Octet = 16
  Numeros <- MCNumeros
  Rang <- MCRang
  TailleSymb = 1
  TailleTables = 1
  MAX_FILES_NUMBER = 3
  SectionsIndefinies <- MCSectionsIndefinies
  SymbolesIndefinis <- MCSymbolesIndefinis
SPECIFICATION MCSpec
INVARIANT
  EntreesAnnoncees
CHECK_DEADLOCK FALSE
