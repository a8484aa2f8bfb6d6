SPECIFICATION Spec
CONSTANTS
  n1 = n1
  n2 = n2
  n3 = n3
  block = block
  allow = allow
  r1 = r1
  r2 = r2
  Domain = {n1, n2, n3}
  Verdict = {block, allow}
  None = none
  Capacity = 2
  Ttl = {1}
  Wrap = 3
  Reader = {r1, r2}
  MaxTime = 4
SYMMETRY Symmetry
INVARIANTS
  TableSound
  TrustedForTtl
PROPERTIES
  DisplacedInTurn
  ImplementsMap
