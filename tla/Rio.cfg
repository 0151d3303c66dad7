CONSTANTS
  RIO_BUFSIZE = 2
  Tailles = {1, 2, 3, 6}
  MaxAppels = 4
  Flux <- MCFlux
  Messages <- MCMessages
SPECIFICATION FairSpec
INVARIANTS
  TypeOK
  EcritureFidele
PROPERTIES
  LectureFidele
  Rend
CHECK_DEADLOCK FALSE
