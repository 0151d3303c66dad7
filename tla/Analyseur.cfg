CONSTANTS
  YY_BUF_SIZE = 2
  YY_READ_BUF_SIZE = 3
  MaxMorceaux = 4
  Flux <- MCFlux
SPECIFICATION FairSpec
INVARIANTS
  TypeOK
  PasDAttenteInutile
PROPERTIES
  DecoupageFidele
  FinRendue
CHECK_DEADLOCK FALSE
