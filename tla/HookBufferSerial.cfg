\* One request at a time, upserts may raise, the server does not crash.
SPECIFICATION Spec
CONSTANTS
  e1 = e1
  e2 = e2
  e3 = e3
  h1 = h1
  h2 = h2
  h3 = h3
  Handler = {h1}
  Entry = {e1, e2, e3}
  Turn = {0, 2}
  Threshold = {1}
  TriggerMode = {"call_count", "token", "time_based"}
  MaxAge = 1
  MaxSaveFails = 1
  MaxCrashes = 0
  SessionIsUuid = {TRUE, FALSE}
PROPERTY
  ImplementsLedger
