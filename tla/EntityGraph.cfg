\* Two entity tasks on two workers; an attempt raises or a worker dies.
SPECIFICATION FairSpec
CONSTANTS
  w1 = w1
  w2 = w2
  j1 = j1
  j2 = j2
  m1 = m1
  m2 = m2
  redis = redis
  alice = alice
  plan = plan
  Worker = {w1, w2}
  Job = {j1, j2}
  Memory = {m1, m2}
  OfJob <- MCOfJob
  Name = {redis, alice, plan}
  Blank = Blank
  Null = Null
  Alias = {redis}
  Spacy <- MCSpacy
  Scan <- MCScan
  Answer <- MCAnswer
  MaxFaults = 2
CHECK_DEADLOCK FALSE
INVARIANTS
  TypeOK
  ToolsDescribe
  ToolsAreTools
  DuplicatesOverlapped
  EntitiesComeWhole
PROPERTY
  JobsEnd
