SPECIFICATION FairSpec
CONSTANTS
  MAX_PACKET_SIZE = 9
  TailleEntete = 2
  MAX_ERROR_SIZE = 2
  NbAdresses = 1
  Images <- MCImages
  Adresse = 1
  Espace = 4
  ValeurPC <- MCValeur
  Hotes = {TRUE, FALSE}
  Cible = TRUE
  MaxPas = 0
  MaxAbimes = 0
  MaxParasites = 0
  MaxDetruits = 1
PROPERTY
  RetransmissionDemandee
CHECK_DEADLOCK FALSE
