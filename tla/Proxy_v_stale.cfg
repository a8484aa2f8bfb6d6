SPECIFICATION Spec
CONSTANTS
  parent = parent
  child = child
  w1 = w1
  w2 = w2
  g1 = g1
  g2 = g2
  Domain = {parent}
  Suffixes <- JustOne
  Faults = {}
  Worker = {w1}
  Thread = {g1}
  MaxGravity = 1
  Lists <- OneNameLists
  MaxEdits = 1
  MaxCrashes = 0
SYMMETRY Symmetry
INVARIANTS
  ReloadNeverIgnored
