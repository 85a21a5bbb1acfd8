\* Sessions of a provider with a threshold of two turns, and a fault.
SPECIFICATION Spec
CONSTANTS
  NoRecall = NoRecall
  Tool = {turn_summary}
  Threshold = 2
  MaxCalls = 4
  MaxFaults = 1
  MaxRecalls = 2
CHECK_DEADLOCK FALSE
INVARIANTS
  TypeOK
  AtMostOnce
  TurnsAccounted
  BufferStaysShort
  RecallUsedOnce
