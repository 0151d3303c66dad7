CONSTANTS
  Noms <- MCNoms
  Longueur <- MCLongueur
SPECIFICATION MCSpec
INVARIANTS
  TypeOKSymb
  NomsFinals
  NomsEmpiles
  OrdreDesSources
  MarqueJustifiee
  RienOublie
  ErreurPartielle
PROPERTY Terminaison
CHECK_DEADLOCK FALSE
