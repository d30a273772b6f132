SPECIFICATION Spec
CONSTANTS
  NR_PROCS = 5
  SIGS = {"SIGALRM"}
  CounterBound = 3
  ForkLow = 1
  ForkHigh = 2
  DefaultPriority = 1
  MaxPriority = 2
  SCHED_RATE = 2
  SynServers = {1}
  Workloads <- MCWorkloads
CHECK_DEADLOCK FALSE
INVARIANT AlarmsInTime
PROPERTIES AlarmsGoOff SynAlarmsArrive EveryoneRuns
