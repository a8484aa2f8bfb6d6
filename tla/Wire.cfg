SPECIFICATION Spec
CONSTANTS
  d1 = d1
  sink = sink
  Byte = {0, 1, 2, 46, 65}
  Lower <- ToLower
  Valid = {97}
  Dot = 46
  MaxLen = 4
  MaxBytes = 7
  Data = {d1, sink}
  Sink = sink
  Forever = 3
  TTLs = {0, 1, 2, 3}
  BlockTTL = 1
  MaxKept = 2
  MaxRecords = 3
  Capacity = 2
INVARIANTS
  ParserSound
  ParsedExactly
  KeptIsAnswer
  ServedAsMeant
CHECK_DEADLOCK FALSE
