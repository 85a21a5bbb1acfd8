\* An agent annotates before its threshold is reached.
SPECIFICATION Spec
CONSTANTS
  Tool = {read_file, run_tests}
  Threshold = 2
  MaxCalls = 3
  MaxFaults = 0
CHECK_DEADLOCK FALSE
PROPERTY AnnotationIsPickedUp
