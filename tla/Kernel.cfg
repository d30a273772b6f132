SPECIFICATION Spec
CONSTANTS
  NR_PROCS = 5
  SIGS = {"SIGALRM", "SIGPIPE", "SIGTRAP"}
  CounterBound = 4
  ForkLow = 1
  ForkHigh = 2
  DefaultPriority = 1
  MaxPriority = 3
  SCHED_RATE = 1
  Workloads <- MCWorkloads
CHECK_DEADLOCK FALSE
INVARIANTS RepliesArrive SignalsAccounted RequestIntact QueuesAgree PidFindsLiveProcess
