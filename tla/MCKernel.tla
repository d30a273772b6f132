------------------------------- MODULE MCKernel -------------------------------
(* Signals against forks, reads, exits, kills and traces; processes killed   *)
(* while they read; slots and pids used again; the end of quanta and         *)
(* priorities.                                                               *)
EXTENDS KernelProps

Load(calls, pids, priorities, ticks) ==
  [calls |-> calls, pids |-> pids, priorities |-> priorities, ticks |-> ticks]

MCWorkloads ==
  {Load({"FORK", "ALARM", "EXIT"}, {2}, {}, FALSE),
   Load({"FORK", "ALARM", "RESUME"}, {2}, {}, FALSE),
   Load({"FORK", "READ", "WRITE", "EXIT"}, {2}, {}, FALSE),
   Load({"ALARM", "READ", "WRITE"}, {}, {}, FALSE),
   Load({"FORK", "EXEC", "KILL"}, {2, 3}, {}, FALSE),
   Load({"FORK", "READ", "KILL"}, {2, 3}, {}, FALSE),
   Load({"FORK", "EXEC", "RESUME"}, {2}, {}, FALSE),
   Load({"FORK", "SETPRI"}, {2}, {0, 3}, TRUE),
   Load({"GETPRI", "SETPRI"}, {}, {0, 1, 3}, TRUE)}

LivenessWorkloads == {Load({"FORK", "ALARM", "PAUSE"}, {2}, {}, FALSE)}
=============================================================================
