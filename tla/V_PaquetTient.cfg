SPECIFICATION Spec
CONSTANTS
  MAX_PACKET_SIZE = 64
  TailleEntete = 19
  MAX_ERROR_SIZE = 64
  NbAdresses = 1
  Images <- MCGrande
  Adresse = 1
  Espace = 64
  ValeurPC <- MCValeur
  Hotes = {TRUE, FALSE}
  Cible = TRUE
  MaxPas = 0
  MaxAbimes = 0
  MaxParasites = 0
  MaxDetruits = 0
INVARIANT
  PaquetTient
CHECK_DEADLOCK FALSE
