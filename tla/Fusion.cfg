CONSTANTS
  Noms <- MCNoms
  Longueur <- MCLongueur
  TailleEhdr = 52
  TailleShdr = 40
  TailleSym = 16
  TaillesIndefinies <- MCTaillesIndefinies
  SymbolesIndefinis <- MCSymbolesIndefinis
SPECIFICATION MCFairSpec
INVARIANTS
  TypeOK
  ContenuDeclare
  PartiesSeparees
  NomsSections
  AucuneSectionPerdue
  OrdreSections
  EnteteCoherent
  NumerosStables
PROPERTIES
  FusionSeTermine
  EcritElf
CHECK_DEADLOCK FALSE
