\* A snapshot whose upsert fails.
SPECIFICATION Spec
CONSTANTS
  e1 = e1
  e2 = e2
  e3 = e3
  h1 = h1
  h2 = h2
  h3 = h3
  Handler = {h1}
  Entry = {e1}
  Turn = {1}
  Threshold = {1}
  TriggerMode = {"call_count"}
  MaxAge = 0
  MaxSaveFails = 1
  MaxCrashes = 0
  SessionIsUuid = {TRUE}
CHECK_DEADLOCK FALSE
INVARIANT FailedSnapshotKeepsBuffer
