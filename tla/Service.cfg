SPECIFICATION LiveSpec
CONSTANTS
  w1 = w1
  w2 = w2
  s1 = s1
  s2 = s2
  Worker = {w1, w2}
  ReceiveSlot = {s1, s2}
  None = none
  LogCapacity = 2
  MaxWait = 2
  MaxGravity = 1
  MaxPackets = 3
INVARIANTS
  PoolSound
  LogFaithful
  JoinedBeforeFree
PROPERTIES
  ShutdownCompletes
  LinesReachFile
CHECK_DEADLOCK FALSE
