SPECIFICATION Spec
CONSTANTS
  Name <- Names
  Row <- Rows
  MaxRows = 3
  MaxLive = 2
INVARIANTS
  WellFormed
  LookupIsPrecedence
PROPERTIES
  StepsOfBlockTree
