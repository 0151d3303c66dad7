SPECIFICATION FairSpec
CONSTANTS
  MAX_PACKET_SIZE = 9
  TailleEntete = 2
  MAX_ERROR_SIZE = 2
  NbAdresses = 2
  Images <- MCImages
  Adresse = 1
  Espace = 4
  ValeurPC <- MCValeur
  Hotes = {TRUE, FALSE}
  Cible = TRUE
  MaxPas = 1
  MaxAbimes = 1
  MaxParasites = 2
  MaxDetruits = 1
INVARIANTS
  TypeOK
  ImageChargee
  MorceauDecodable
  RetardBorne
PROPERTIES
  CommandesFideles
  Termine
CHECK_DEADLOCK FALSE
