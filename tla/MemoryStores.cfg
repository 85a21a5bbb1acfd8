\* Writers, forgets and patches of one memory in any order, with forget let in and
\* callers who take its mark back; tasks and dispatches raise, one more often than
\* it is retried, workers and the server crash.
SPECIFICATION FairSpec
CONSTANTS
  c1 = c1
  c2 = c2
  r1 = r1
  r2 = r2
  k1 = k1
  n1 = n1
  Caller = {r1, r2}
  Content = {c1}
  MetaKey = {}
  Mark = {"absent", "valid"}
  Entity = {n1}
  AgentType = {}
  MaxRetries = 1
  LegacyRoutes = TRUE
  MaxWrites = 2
  MaxFails = 2
  MaxCrashes = 1
CHECK_DEADLOCK FALSE
INVARIANTS
  TypeOK
  StoresNest
  MemoriesHaveChunks
  ForgetIsFinal
PROPERTIES
  EventuallyIndexed
  
