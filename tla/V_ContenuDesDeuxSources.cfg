CONSTANTS
  Noms <- MCNoms
  Longueur <- MCLongueur
  TailleEhdr = 52
  TailleShdr = 40
  TailleSym = 16
  TaillesIndefinies <- MCTaillesIndefinies
  SymbolesIndefinis <- MCSymbolesIndefinis
SPECIFICATION MCSpec
INVARIANT ContenuDesDeuxSources
CHECK_DEADLOCK FALSE
