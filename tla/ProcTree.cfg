SPECIFICATION Spec
CONSTANTS
  NR_PROCS = 7
  Pids = {2, 3, 4, 5}
  Excludes = {0, 1, 2}
INVARIANTS AnswerIsRight InitHasAll
PROPERTY QueryEnds
