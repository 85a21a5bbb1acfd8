\* Two requests overlap freely; upserts and Redis fail, the server crashes.
SPECIFICATION FairSpec
CONSTANTS
  e1 = e1
  e2 = e2
  e3 = e3
  h1 = h1
  h2 = h2
  h3 = h3
  Handler = {h1, h2}
  Entry = {e1}
  Turn = {1}
  Threshold = {1}
  TriggerMode = {"call_count"}
  MaxAge = 0
  MaxSaveFails = 1
  MaxCrashes = 1
  SessionIsUuid = {TRUE}
INVARIANTS
  TypeOK
  OneLoopOwner
  SavedBeforeCleared
PROPERTY
  RequestAnswered
