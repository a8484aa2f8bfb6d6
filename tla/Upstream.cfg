SPECIFICATION LiveSpec
CONSTANTS
  w1 = w1
  w2 = w2
  i1 = i1
  i2 = i2
  q1 = q1
  q2 = q2
  Worker = {w1, w2}
  Id = {i1, i2}
  Question = {q1, q2}
  None = none
  Networks <- HomeAndAway
  RecvBuffer = 1
  MaxQueries = 2
  MaxMoves = 1
INVARIANTS
  RightAnswer
PROPERTIES
  PreferenceSettles
  ForwardEnds
CHECK_DEADLOCK FALSE
