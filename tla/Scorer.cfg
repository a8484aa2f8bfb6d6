SPECIFICATION Spec
CONSTANTS
  w1 = w1
  w2 = w2
  Worker = {w1, w2}
  Domain <- Names
  Text <- Texts
  Mix <- Mixes
  MaxScored = 5
  MaxReloads = 2
SYMMETRY Symmetry
INVARIANTS
  EntropyNeedsVariety
  EveryWordCounted
  FlaggedOnEvidence
  ScoringSound
CHECK_DEADLOCK FALSE
