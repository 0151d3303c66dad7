CONSTANTS
  Noms <- MCNoms
  Longueur <- MCLongueur
SPECIFICATION MCSpec
INVARIANT TableSuffisante
CHECK_DEADLOCK FALSE
