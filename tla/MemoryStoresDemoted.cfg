\* An agent stores what is already an identity memory.
SPECIFICATION Spec
CONSTANTS
  c1 = c1
  c2 = c2
  r1 = r1
  r2 = r2
  k1 = k1
  n1 = n1
  Caller = {r1}
  Content = {c1}
  MetaKey = {}
  Mark = {"absent"}
  Entity = {n1}
  AgentType = {"standard"}
  MaxRetries = 1
  LegacyRoutes = FALSE
  MaxWrites = 2
  MaxFails = 0
  MaxCrashes = 0
PROPERTIES
  IdentityStays
