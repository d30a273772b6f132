------------------------------- MODULE MCClock -------------------------------
(* Alarms of a user and a server; alarms that are inherited by fork and end  *)
(* with their process; three processes that compute.                         *)
EXTENDS Clock

Load(init, child, pids, delays) ==
  [init |-> init, child |-> child, pids |-> pids, delays |-> delays]

MCWorkloads ==
  {Load({"ALARM"}, {}, {}, {0, 2}),
   Load({"IO"}, {}, {}, {0, 2}),
   Load({"ALARM", "IO"}, {}, {}, {1}),
   Load({"ALARM", "FORK"}, {}, {2}, {1}),
   Load({"FORK"}, {"ALARM", "EXIT"}, {2}, {1}),
   Load({"FORK"}, {}, {2, 3}, {})}
=============================================================================
