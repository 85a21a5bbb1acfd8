\* Two requests record, or create skills; commands raise and the server dies.
SPECIFICATION FairSpec
CONSTANTS
  Request = {r1, r2}
  Skill = {s1}
  Memory = {m1}
  EdgeType = {IN_SESSION}
  DefaultEdge = IN_SESSION
  MaxGenerations = 2
  MaxFails = 1
INVARIANTS
  TypeOK
  PathsAreBacked
  FinishedIsTraced
  NodesAreOfMemories
PROPERTIES
  NodesOnlyFill
  TraceFollowsRows
