------------------------------- MODULE Kernel -------------------------------
(***************************************************************************)
(* The kernel of exercise 2 at work: the system task, the clock task and   *)
(* the clock interrupt as in kernel/, the memory manager's main loop as in *)
(* mm/main.c, and around them the programs that are not in the repository  *)
(* (the calls of MM, the file system, the user programs), modelled by the  *)
(* requests they make of the kernel.                                       *)
(*                                                                         *)
(* One process runs at a time, k.proc_ptr; a step is one system call, one  *)
(* handler or one interrupt.                                               *)
(***************************************************************************)
EXTENDS System, TLC

CONSTANTS
  SCHED_RATE,  \* clock ticks per scheduling quantum
  Workloads    \* records, one of them for a behaviour: the calls user
               \* programs make, the pids MM hands out, the priorities passed
               \* to SETPRI, valid or not, and whether there are ticks at
               \* which no alarm comes

ASSUME KernelAssumption ==
  /\ SCHED_RATE \in Nat \ {0}
  /\ \A w \in Workloads :
       /\ w.calls \subseteq {"FORK", "EXIT", "EXEC", "PAUSE", "ALARM", "READ",
                             "WRITE", "KILL", "RESUME", "GETPRI", "SETPRI"}
       /\ w.pids \subseteq Nat \ {0, 1}
       /\ w.priorities \subseteq Int
       /\ w.ticks \in BOOLEAN

VARIABLES
  load,         \* the workload of this behaviour
  k,            \* the kernel's data
  pc,           \* where the main loop of each task and server is
  plan,         \* what a server still has to do for the call it handles
  paused,       \* MM: processes suspended until a signal
  closed,       \* FS: processes it was told have ended, whose files are closed
  alarm_armed,  \* CLOCK: next_alarm # LONG_MAX
  sched_ticks,  \* CLOCK: ticks to the end of the quantum
  prev_ptr      \* CLOCK: the process billed when the last quantum ended

vars == <<load, k, pc, plan, paused, closed,
          alarm_armed, sched_ticks, prev_ptr>>
serverVars == <<paused, closed>>
clockVars == <<alarm_armed, sched_ticks, prev_ptr>>

LiveUsers == {p \in UserSlots : isuserp(k, p)}
-----------------------------------------------------------------------------
Init ==
  /\ load \in Workloads
  /\ k = InitialKernel
  /\ pc = [p \in Tasks \cup Servers |-> "work"]
  /\ plan = [p \in Servers |-> << >>]
  /\ paused = {} /\ closed = {}
  /\ alarm_armed = FALSE
  /\ sched_ticks = SCHED_RATE
  /\ prev_ptr = IDLE
-----------------------------------------------------------------------------
(* User programs: every call is a sendrec to MM or FS.                      *)

UserMessages(c) ==
  CASE c = "GETPRI" -> {Message(c, pid, 0, 0) : pid \in load.pids \cup {1}}
    [] c = "SETPRI" -> {Message(c, pid, prio, 0) :
                          pid \in load.pids \cup {1}, prio \in load.priorities}
    [] c \in {"KILL", "RESUME"} -> {Message(c, p, 0, 0) : p \in LiveUsers \ {INIT}}
    [] c = "EXEC" -> {Message(c, 0, traced, 0) : traced \in {0, 1}}
    [] OTHER -> {Message(c, 0, 0, 0)}

UserCall(u) ==
  /\ k.proc_ptr = u
  /\ \E c \in load.calls : \E m \in UserMessages(c) :
       /\ c = "EXIT" => u # INIT
       /\ k' = send_rec([k EXCEPT !.mess[u] = m], u,
                        IF c \in {"READ", "WRITE"} THEN FS ELSE MM).k
  /\ UNCHANGED <<load, pc, plan, serverVars, clockVars>>
-----------------------------------------------------------------------------
(* The system task: receive, handle and reply, forever.                     *)

SysRecv ==
  /\ k.proc_ptr = SYSTASK /\ pc[SYSTASK] = "recv"
  /\ k' = mini_rec(k, SYSTASK, ANY)
  /\ pc' = [pc EXCEPT ![SYSTASK] = "work"]
  /\ UNCHANGED <<load, plan, serverVars, clockVars>>

\* The reply goes to whatever m_source holds AFTER the handler.
SysWork ==
  /\ k.proc_ptr = SYSTASK /\ pc[SYSTASK] = "work"
  /\ LET h == sys_task(k, k.mess[SYSTASK])
         reply == [Message("REPLY", h.r, 0, 0) EXCEPT
                     !.src = h.k.mess[SYSTASK].src]
     IN k' = mini_send([h.k EXCEPT !.mess[SYSTASK] = reply],
                       SYSTASK, reply.src, SYSTASK).k
  /\ pc' = [pc EXCEPT ![SYSTASK] = "recv"]
  /\ UNCHANGED <<load, plan, serverVars, clockVars>>
-----------------------------------------------------------------------------
(* The clock task and the clock interrupt.                                  *)

ClockRecv ==
  /\ k.proc_ptr = CLOCK /\ pc[CLOCK] = "recv"
  /\ k' = mini_rec(k, CLOCK, ANY)
  /\ pc' = [pc EXCEPT ![CLOCK] = "work"]
  /\ UNCHANGED <<load, plan, serverVars, clockVars>>

\* p_alarm is 0, or 1 for some time or other.
AnyAlarm(k0) == \E p \in Slots : k0.p_alarm[p] # 0

\* The table scan of do_clocktick: the alarms of the slots in due go off.
Alarms(k0, due) ==
  LET scan[p \in -1..(NR_PROCS - 1)] ==
        IF p = -1 THEN k0
        ELSE IF p \in due
        THEN [cause_sig(scan[p - 1], p, "SIGALRM") EXCEPT !.p_alarm[p] = 0]
        ELSE scan[p - 1]
  IN scan[NR_PROCS - 1]

\* do_clocktick.  Real time is abstracted: whether next_alarm has come, and
\* which alarms are due then, is a choice.
ClockTick ==
  /\ k.proc_ptr = CLOCK /\ pc[CLOCK] = "work"
  /\ k.mess[CLOCK].type = "HARD_INT"
  /\ \E come \in {FALSE, alarm_armed} :
       \E due \in IF come THEN SUBSET {p \in Slots : k.p_alarm[p] # 0} ELSE {{}} :
         LET k1 == Alarms(k, due)
             last == sched_ticks = 1
         IN /\ alarm_armed' = IF come THEN AnyAlarm(k1) ELSE alarm_armed
            /\ k' = IF last /\ k1.bill_ptr = prev_ptr THEN sched(k1) ELSE k1
            /\ sched_ticks' = IF last THEN SCHED_RATE ELSE sched_ticks - 1
            /\ prev_ptr' = IF last THEN k1.bill_ptr ELSE prev_ptr
  /\ pc' = [pc EXCEPT ![CLOCK] = "recv"]
  /\ UNCHANGED <<load, plan, serverVars>>

\* do_setalarm; i2 = 0 cancels the alarm
ClockSetAlarm ==
  /\ k.proc_ptr = CLOCK /\ pc[CLOCK] = "work"
  /\ k.mess[CLOCK].type = "SET_ALARM"
  /\ LET m == k.mess[CLOCK]
         k1 == [k EXCEPT !.p_alarm[m.i1] = m.i2]
     IN /\ k' = mini_send([k1 EXCEPT !.mess[CLOCK] =
                              Message("REPLY", OK, 0, 0)],
                          CLOCK, m.src, CLOCK).k
        /\ alarm_armed' = AnyAlarm(k1)
  /\ pc' = [pc EXCEPT ![CLOCK] = "recv"]
  /\ UNCHANGED <<load, plan, serverVars, sched_ticks, prev_ptr>>

\* clock_handler, at any instruction boundary
ClockHandler ==
  /\ \E come \in {FALSE, alarm_armed} :
       /\ come \/ load.ticks
       /\ IF come \/ (/\ sched_ticks = 1 /\ k.bill_ptr = prev_ptr
                      /\ k.rdy[USER_Q] # << >>)
          THEN k' = interrupt(k, CLOCK) /\ UNCHANGED clockVars
          ELSE /\ sched_ticks' = IF sched_ticks = 1 THEN SCHED_RATE
                                 ELSE sched_ticks - 1
               /\ prev_ptr' = IF sched_ticks = 1 THEN k.bill_ptr ELSE prev_ptr
               /\ UNCHANGED <<k, alarm_armed>>
  /\ UNCHANGED <<load, pc, plan, serverVars>>
-----------------------------------------------------------------------------
(* A disk driver: it takes a request of FS, waits for the interrupt of its  *)
(* device and replies.  Meanwhile the rest of the system runs.              *)

DiskRecv ==
  /\ k.proc_ptr = DISK /\ pc[DISK] = "recv"
  /\ k' = mini_rec(k, DISK, ANY)
  /\ pc' = [pc EXCEPT ![DISK] = "work"]
  /\ UNCHANGED <<load, plan, serverVars, clockVars>>

DiskWork ==
  /\ k.proc_ptr = DISK /\ pc[DISK] = "work"
  /\ k' = mini_rec(k, DISK, HARDWARE)
  /\ pc' = [pc EXCEPT ![DISK] = "reply"]
  /\ UNCHANGED <<load, plan, serverVars, clockVars>>

DiskReply ==
  /\ k.proc_ptr = DISK /\ pc[DISK] = "reply"
  /\ k' = mini_send([k EXCEPT !.mess[DISK] = Message("REPLY", OK, 0, 0)],
                    DISK, FS, DISK).k
  /\ pc' = [pc EXCEPT ![DISK] = "recv"]
  /\ UNCHANGED <<load, plan, serverVars, clockVars>>

DiskInterrupt ==
  /\ k.p_flags[DISK] = {"RECEIVING"} /\ pc[DISK] = "reply"
  /\ k' = interrupt(k, DISK)
  /\ UNCHANGED <<load, pc, plan, serverVars, clockVars>>
-----------------------------------------------------------------------------
(* The servers.  A server receives a request, decides what it takes (its    *)
(* plan: calls of other processes and replies) and does that step by step.  *)

Call(d, m) == [how |-> "sendrec", to |-> d, m |-> m]
Send(d, r) == [how |-> "send", to |-> d, m |-> Message("REPLY", r, 0, 0)]
SendResult(d) == [how |-> "result", to |-> d, m |-> NoMess]

\* MM's calls, as far as the kernel sees them
FreeSlots == {p \in UserSlots : isemptyp(k, p)}
FreePids == load.pids \ {k.p_pid[p] : p \in LiveUsers}

ForkPlans(who) ==
  IF FreeSlots = {} \/ FreePids = {} THEN {<<Send(who, -1)>>}
  ELSE LET child == Least(FreeSlots)
           replies == IF child < who THEN <<Send(child, 0), Send(who, 1)>>
                      ELSE <<Send(who, 1), Send(child, 0)>>
       IN {<<Call(SYSTASK, Message("SYS_FORK", who, child, pid)),
             Call(FS, Message("TELL_FORK", who, child, 0)),
             Call(SYSTASK, Message("SYS_NEWMAP", child, 0, 0))>> \o replies :
             pid \in FreePids}

ExitPlan(p) == <<Call(FS, Message("TELL_EXIT", p, 0, 0)),
                 Call(SYSTASK, Message("SYS_XIT", INIT, p, 0))>>

\* A signal is caught (sys_sendsig builds its frame), ignored, kills, or stops
\* a traced process until somebody has it resume.
SignalPlans(p, map) ==
  LET ends == [i \in 1..Cardinality(map) |->
                 Call(SYSTASK, Message("SYS_ENDSIG", p, 0, 0))]
      wake == IF p \in paused THEN <<Send(p, -4)>> ELSE << >>
  IN IF p \notin LiveUsers THEN {<< >>}
     ELSE {<<Call(SYSTASK, Message("SYS_SENDSIG", p, 0, 0))>> \o ends \o wake,
           ends}
          \cup IF p = INIT THEN {} ELSE {ExitPlan(p) \o ends}
          \cup IF p = INIT \/ "RESUME" \notin load.calls THEN {}
               ELSE {<<Call(SYSTASK, Message("SYS_TRACE", p, T_STOP, 0))>>
                       \o ends \o wake}

MMPlans(m) ==
  CASE m.type = "FORK" -> ForkPlans(m.src)
    [] m.type = "EXIT" -> {ExitPlan(m.src)}
    [] m.type = "EXEC" -> {<<Call(SYSTASK,
                               Message("SYS_EXEC", m.src, m.i2, 0))>>}
    [] m.type = "PAUSE" -> {<< >>}
    [] m.type = "ALARM" -> {<<Call(CLOCK, Message("SET_ALARM", m.src, 1, 0)),
                              Send(m.src, 0)>>}
    [] m.type = "GETPRI" -> {<<Call(SYSTASK,
                                 Message("SYS_GETPRI", m.i1, 0, 0)),
                               SendResult(m.src)>>}
    [] m.type = "SETPRI" -> {<<Call(SYSTASK,
                                 Message("SYS_SETPRI", m.i1, m.i2, 0)),
                               Send(m.src, 0)>>}
    [] m.type = "KILL" ->
         {IF m.i1 \notin LiveUsers THEN <<Send(m.src, -3)>>
          ELSE IF m.i1 = m.src THEN ExitPlan(m.i1)
          ELSE ExitPlan(m.i1) \o <<Send(m.src, 0)>>}
    [] m.type = "RESUME" ->
         {IF "P_STOP" \notin k.p_flags[m.i1] THEN <<Send(m.src, -3)>>
          ELSE <<Call(SYSTASK, Message("SYS_TRACE", m.i1, T_RESUME, 0)),
                 Send(m.src, 0)>>}
    [] m.type = "KSIG" -> SignalPlans(m.i1, m.map)

\* FS goes to the disk to read and to close the files of a dead process; it
\* signals SIGPIPE to a writer without readers.  A process killed while its
\* call is queued has no files when FS gets to the call: it fails at once.
FSPlans(m) ==
  {CASE m.type = "TELL_EXIT" \/ (m.type = "READ" /\ m.src \notin closed) ->
            <<Call(DISK, Message("DEV_IO", 0, 0, 0)), Send(m.src, 0)>>
     [] m.type = "WRITE" /\ m.src \notin closed ->
            <<Call(SYSTASK, Message("SYS_KILL", m.src, 0, 0)), Send(m.src, 0)>>
     [] OTHER -> <<Send(m.src, 0)>>}

ServerRecv(s) ==
  /\ k.proc_ptr = s /\ pc[s] = "recv"
  /\ k' = mini_rec(k, s, ANY)
  /\ pc' = [pc EXCEPT ![s] = "work"]
  /\ UNCHANGED <<load, plan, serverVars, clockVars>>

Decide(s, todo) ==
  /\ plan' = [plan EXCEPT ![s] = todo]
  /\ pc' = [pc EXCEPT ![s] = IF todo = << >> THEN "recv" ELSE "plan"]
  /\ UNCHANGED <<load, k, clockVars>>

MMWork ==
  /\ k.proc_ptr = MM /\ pc[MM] = "work"
  /\ \E todo \in MMPlans(k.mess[MM]) : Decide(MM, todo)
  /\ paused' = IF k.mess[MM].type = "PAUSE" THEN paused \cup {k.mess[MM].src}
               ELSE paused
  /\ UNCHANGED closed

FSWork ==
  /\ k.proc_ptr = FS /\ pc[FS] = "work"
  /\ LET m == k.mess[FS]
     IN /\ \E todo \in FSPlans(m) : Decide(FS, todo)
        /\ closed' = CASE m.type = "TELL_EXIT" -> closed \cup {m.i1}
                       [] m.type = "TELL_FORK" -> closed \ {m.i2}
                       [] OTHER -> closed
  /\ UNCHANGED paused

\* One step of a plan.  MM panics when a reply cannot be sent, FS ignores it.
ServerStep(s) ==
  /\ k.proc_ptr = s /\ pc[s] = "plan"
  /\ LET step == Head(plan[s])
         m == IF step.how = "result" THEN k.mess[s] ELSE step.m
         k1 == [k EXCEPT !.mess[s] = m]
         done == IF step.how = "sendrec" THEN send_rec(k1, s, step.to)
                 ELSE mini_send(k1, s, step.to, s)
     IN /\ k' = IF s = MM /\ done.r # OK THEN [done.k EXCEPT !.panic = TRUE]
                ELSE done.k
        /\ paused' = IF s # MM THEN paused
                     ELSE IF m.type = "SYS_XIT" THEN paused \ {m.i2}
                     ELSE IF step.how # "sendrec" THEN paused \ {step.to}
                     ELSE paused
  /\ plan' = [plan EXCEPT ![s] = Tail(@)]
  /\ pc' = [pc EXCEPT ![s] = IF Len(plan[s]) = 1 THEN "recv" ELSE "plan"]
  /\ UNCHANGED <<load, closed, clockVars>>
-----------------------------------------------------------------------------
TaskStep ==
  \/ SysRecv \/ SysWork
  \/ ClockRecv \/ ClockTick \/ ClockSetAlarm
  \/ DiskRecv \/ DiskWork \/ DiskReply
MMStep == ServerRecv(MM) \/ MMWork \/ ServerStep(MM)
FSStep == ServerRecv(FS) \/ FSWork \/ ServerStep(FS)

Next ==
  \/ TaskStep \/ MMStep \/ FSStep
  \/ \E u \in UserSlots : UserCall(u)
  \/ ClockHandler
  \/ DiskInterrupt

Spec == Init /\ [][Next]_vars

(***************************************************************************)
(* The processor executes the running process: a step of the task or       *)
(* server p is possible exactly while k.proc_ptr = p, and it moves p's     *)
(* main loop.  A task is displaced by nobody, so weak fairness is enough   *)
(* for it; a server runs between interrupts, hence strong fairness.  Both  *)
(* are spelled out, which costs TLC less than ENABLED of the whole step.   *)
(* A user program need not make another call: no fairness.  The disk       *)
(* answers.                                                                *)
(***************************************************************************)
Runs(p) == k.proc_ptr = p /\ <<pc, plan>>' # <<pc, plan>>

ProcessorFairness ==
  /\ \A t \in Tasks : <>[](k.proc_ptr = t) => []<><<Runs(t)>>_vars
  /\ \A s \in Servers : []<>(k.proc_ptr = s) => []<><<Runs(s)>>_vars
  /\ WF_vars(DiskInterrupt)

FairSpec == Spec /\ ProcessorFairness
=============================================================================
