SPECIFICATION RateSpec
CONSTANTS
  s1 = s1
  s2 = s2
  s3 = s3
  w1 = w1
  w2 = w2
  Thread = {w1, w2}
  Source = {s1, s2, s3}
  Nobody = nobody
  Slot = {0, 1}
  SlotOf <- TwoShare
  MaxTokens = 2
  RefillPerSec = 1
  GlobalMaxTokens = 4
  GlobalRefillPerSec = 2
  MaxTime = 2
  MaxSetBack = 1
SYMMETRY Symmetry
INVARIANTS
  SourceRate
  GlobalRate
  DebtsHeal
