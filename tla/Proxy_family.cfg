SPECIFICATION LiveSpec
CONSTANTS
  parent = parent
  child = child
  w1 = w1
  w2 = w2
  g1 = g1
  g2 = g2
  Domain = {parent, child}
  Suffixes <- Family
  Faults = {}
  Worker = {w1}
  Thread = {g1, g2}
  MaxGravity = 2
  Lists <- FamilyLists
  MaxEdits = 0
  MaxCrashes = 1
INVARIANTS
  LearnedOnce
PROPERTIES
  PendingResolves
