SPECIFICATION Spec
CONSTANTS
  n1 = n1
  n2 = n2
  A = A
  AAAA = AAAA
  a1 = a1
  a2 = a2
  r1 = r1
  r2 = r2
  Key <- Keys
  Capacity = 4
  ProbeWindow = 2
  Start <- Overlapping
  Answer = {a1, a2}
  Ttl = {1}
  Reader = {r1, r2}
  Wrap = 3
  MaxTime = 3
SYMMETRY Symmetry
INVARIANTS
  TableSound
  NothingComesBack
PROPERTIES
  TouchMonotone
