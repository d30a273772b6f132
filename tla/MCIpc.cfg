SPECIFICATION Spec
CONSTANTS
  NR_PROCS = 3
  SIGS = {"SIGALRM"}
  CounterBound = 3
  ForkLow = 1
  ForkHigh = 2
  DefaultPriority = 1
  MaxPriority = 2
  Programs <- MCPrograms
VIEW LiveData
INVARIANTS TypeOK QueuesAgree NoWaitCycle NothingMissed
PROPERTY OnlyAskedSource
