SPECIFICATION FairSpec
CONSTANTS
  NR_PROCS = 4
  SIGS = {"SIGALRM", "SIGPIPE", "SIGTRAP"}
  CounterBound = 4
  ForkLow = 1
  ForkHigh = 2
  DefaultPriority = 1
  MaxPriority = 3
  SCHED_RATE = 1
  Workloads <- LivenessWorkloads
CHECK_DEADLOCK FALSE
PROPERTIES SignalsFinish CallsEnd
