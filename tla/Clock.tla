-------------------------------- MODULE Clock --------------------------------
(***************************************************************************)
(* The clock task, the synchronous alarm task and the clock interrupt of   *)
(* exercise 2 (kernel/clock.c) with the messages of proc.c between them.   *)
(* The interrupt comes at any step, also between two statements of the     *)
(* clock task.  The servers that set alarms, and the calls of users that   *)
(* make them do so, are external; what they have the system task do is     *)
(* the operators of module System, applied at once.                        *)
(*                                                                         *)
(* Times are relative to realtime, which makes them finitely many: an      *)
(* alarm at realtime + t is t + 1, one that is due is 1, none is 0.        *)
(***************************************************************************)
EXTENDS System

CONSTANTS
  SCHED_RATE,   \* clock ticks per scheduling quantum
  SynServers,   \* the servers that use synchronous alarms
  Workloads     \* records, one of them for a behaviour: the calls INIT
                \* makes and those its children make, the pids MM hands out,
                \* and the delta_ticks of alarms, where 0 cancels


ASSUME ClockAssumption ==
  /\ SCHED_RATE \in Nat \ {0}
  /\ SynServers \subseteq Servers
  /\ \A w \in Workloads : /\ w.init \subseteq {"ALARM", "IO", "FORK"}
                          /\ w.child \subseteq {"ALARM", "IO", "FORK", "EXIT"}
                          /\ w.pids \subseteq Nat \ {0, 1}
                          /\ w.delays \subseteq Nat /\ IsFiniteSet(w.delays)

\* There is no disk in this module: its number is the alarm task's.
SYN_ALRM_TASK == DISK

VARIABLES
  load,          \* what users do in this behaviour
  k,             \* the kernel's data
  pc,            \* where the main loop of each task and server is
  todo,          \* what a server still has to do for the call it handles
  pending_ticks, \* ticks seen by clock_handler only, saturated at MaxDelay
  next_alarm,
  watch_dog,     \* TRUE: cause_alarm, FALSE: 0, that is, a signal
  rp,            \* do_clocktick: the slot the scan has come to
  syn_al_alive, syn_table,
  syn_at,        \* syn_alrm_task: the slot of the last message sent
  sched_ticks, prev_ptr,
  left           \* history: ticks until the alarm of a slot may go off

alarmVars == <<next_alarm, watch_dog, left>>
synVars == <<syn_al_alive, syn_table, syn_at>>
quantumVars == <<sched_ticks, prev_ptr>>
vars == <<load, k, pc, todo, pending_ticks, rp, alarmVars, synVars,
          quantumVars>>

\* Times longer than any alarm need not be told apart.
MaxDelay == CHOOSE d \in load.delays \cup {1} :
              \A e \in load.delays \cup {1} : e <= d
LONG_MAX == MaxDelay + 2

Min2(x, y) == IF x < y THEN x ELSE y
Max2(x, y) == IF x > y THEN x ELSE y
LiveUsers == {p \in UserSlots : isuserp(k, p)}

Init ==
  /\ load \in Workloads
  /\ k = [InitialKernel EXCEPT !.p_getfrom[SYN_ALRM_TASK] = CLOCK]
  /\ pc = [p \in {CLOCK, SYN_ALRM_TASK} \cup Servers |->
             IF p = CLOCK THEN "transfer"
             ELSE IF p = SYN_ALRM_TASK THEN "asleep" ELSE "work"]
  /\ todo = [s \in Servers |-> << >>]
  /\ pending_ticks = 0 /\ next_alarm = LONG_MAX /\ rp = 0
  /\ watch_dog = [p \in Slots |-> FALSE]
  /\ syn_al_alive = FALSE /\ syn_table = [p \in Slots |-> FALSE]
  /\ syn_at = -1
  /\ sched_ticks = SCHED_RATE /\ prev_ptr = IDLE
  /\ left = [p \in Slots |-> 0]
-----------------------------------------------------------------------------
(* The clock task *)

ClockRecv ==
  /\ k.proc_ptr = CLOCK /\ pc[CLOCK] = "recv"
  /\ k' = mini_rec(k, CLOCK, ANY)
  /\ pc' = [pc EXCEPT ![CLOCK] = "transfer"]
  /\ UNCHANGED <<load, todo, pending_ticks, rp, alarmVars, synVars,
                 quantumVars>>

\* What is left of a time after some ticks
After(time, ticks) ==
  IF time \in {0, LONG_MAX} THEN time ELSE Max2(1, time - ticks)

SetsAlarm == k.mess[CLOCK].type \in {"SET_ALARM", "SET_SYNC_AL"}

Transferred_int(ticks) ==    \* Mutant: in do_clocktick only
  IF ~SetsAlarm THEN ticks ELSE 0

Transferred(ticks) == ticks

\* Between lock() and unlock(): realtime += pending_ticks; pending_ticks = 0
Transfer ==
  /\ k.proc_ptr = CLOCK /\ pc[CLOCK] = "transfer"
  /\ LET ticks == Transferred(pending_ticks)
     IN /\ k' = [k EXCEPT !.p_alarm =
                   [p \in Slots |-> After(k.p_alarm[p], ticks)]]
        /\ next_alarm' = After(next_alarm, ticks)
        /\ pending_ticks' = pending_ticks - ticks
  /\ left' = IF ~SetsAlarm THEN left
             ELSE [left EXCEPT ![k.mess[CLOCK].i1] = k.mess[CLOCK].i2]
  /\ pc' = [pc EXCEPT ![CLOCK] = "work"]
  /\ UNCHANGED <<load, todo, rp, watch_dog, synVars, quantumVars>>

\* do_clocktick: is an alarm due?
ClockTick ==
  /\ k.proc_ptr = CLOCK /\ pc[CLOCK] = "work"
  /\ k.mess[CLOCK].type = "HARD_INT"
  /\ rp' = 0
  /\ IF next_alarm = 1
     THEN /\ next_alarm' = LONG_MAX
          /\ pc' = [pc EXCEPT ![CLOCK] = "scan"]
     ELSE /\ pc' = [pc EXCEPT ![CLOCK] = "quantum"]
          /\ UNCHANGED next_alarm
  /\ UNCHANGED <<load, k, todo, pending_ticks, watch_dog, left, synVars,
                 quantumVars>>

\* The scan goes past slots without an alarm and with one that is not due.
ScanOver ==
  /\ k.proc_ptr = CLOCK /\ pc[CLOCK] = "scan" /\ rp \in Slots
  /\ k.p_alarm[rp] # 1
  /\ next_alarm' = IF k.p_alarm[rp] = 0 THEN next_alarm
                   ELSE Min2(next_alarm, k.p_alarm[rp])
  /\ rp' = rp + 1
  /\ UNCHANGED <<load, k, pc, todo, pending_ticks, watch_dog, left, synVars,
                 quantumVars>>

\* watch_dog is cause_alarm: it may send, and the send may block.
CauseAlarm ==
  /\ k.proc_ptr = CLOCK /\ pc[CLOCK] = "scan" /\ rp \in Slots
  /\ k.p_alarm[rp] = 1 /\ watch_dog[rp]
  /\ syn_table' = [syn_table EXCEPT ![rp] = TRUE]
  /\ k' = IF ~syn_al_alive
          THEN mini_send([k EXCEPT !.mess[CLOCK] = Message("WAKE", 0, 0, 0)],
                         CLOCK, SYN_ALRM_TASK, CLOCK).k
          ELSE k
  /\ pc' = [pc EXCEPT ![CLOCK] = "fired"]
  /\ UNCHANGED <<load, todo, pending_ticks, rp, alarmVars, syn_al_alive,
                 syn_at, quantumVars>>

SignalAlarm ==
  /\ k.proc_ptr = CLOCK /\ pc[CLOCK] = "scan" /\ rp \in Slots
  /\ k.p_alarm[rp] = 1 /\ ~watch_dog[rp]
  /\ k' = cause_sig(k, rp, "SIGALRM")
  /\ pc' = [pc EXCEPT ![CLOCK] = "fired"]
  /\ UNCHANGED <<load, todo, pending_ticks, rp, alarmVars, synVars,
                 quantumVars>>

Fired ==
  /\ k.proc_ptr = CLOCK /\ pc[CLOCK] = "fired"
  /\ k' = [k EXCEPT !.p_alarm[rp] = 0]
  /\ left' = [left EXCEPT ![rp] = 0]
  /\ rp' = rp + 1
  /\ pc' = [pc EXCEPT ![CLOCK] = "scan"]
  /\ UNCHANGED <<load, todo, pending_ticks, next_alarm, watch_dog, synVars,
                 quantumVars>>

ScanEnds ==
  /\ k.proc_ptr = CLOCK /\ pc[CLOCK] = "scan" /\ rp = NR_PROCS
  /\ rp' = 0
  /\ pc' = [pc EXCEPT ![CLOCK] = "quantum"]
  /\ UNCHANGED <<load, k, todo, pending_ticks, alarmVars, synVars,
                 quantumVars>>

\* if (--sched_ticks == 0) ...; the handler may come between the decrement
\* and what follows, and saturates at -1.
Quantum ==
  /\ k.proc_ptr = CLOCK /\ pc[CLOCK] = "quantum"
  /\ sched_ticks' = Max2(sched_ticks - 1, -1)
  /\ pc' = [pc EXCEPT ![CLOCK] = IF sched_ticks = 1 THEN "expired" ELSE "recv"]
  /\ UNCHANGED <<load, k, todo, pending_ticks, rp, alarmVars, synVars,
                 prev_ptr>>

QuantumExpired ==
  /\ k.proc_ptr = CLOCK /\ pc[CLOCK] = "expired"
  /\ k' = IF k.bill_ptr = prev_ptr THEN sched(k) ELSE k
  /\ sched_ticks' = SCHED_RATE
  /\ prev_ptr' = k'.bill_ptr
  /\ pc' = [pc EXCEPT ![CLOCK] = "recv"]
  /\ UNCHANGED <<load, todo, pending_ticks, rp, alarmVars, synVars>>

NextAlarm_own(p_alarm, p) ==    \* Mutant: the other alarms are forgotten
  IF p_alarm[p] = 0 THEN LONG_MAX ELSE p_alarm[p]

\* p is the slot whose alarm was set.
NextAlarm(p_alarm, p) ==
  LET times == {p_alarm[q] : q \in Slots} \ {0}
  IN IF times = {} THEN LONG_MAX ELSE Least(times)

\* do_setalarm and do_setsyn_alrm: slot i1, in i2 ticks
SetAlarm ==
  /\ k.proc_ptr = CLOCK /\ pc[CLOCK] = "work" /\ SetsAlarm
  /\ LET m == k.mess[CLOCK]
         k1 == [k EXCEPT !.p_alarm[m.i1] = IF m.i2 = 0 THEN 0 ELSE m.i2 + 1]
     IN /\ k' = k1
        /\ watch_dog' = [watch_dog EXCEPT ![m.i1] = m.type = "SET_SYNC_AL"]
        /\ next_alarm' = NextAlarm(k1.p_alarm, m.i1)
  /\ pc' = [pc EXCEPT ![CLOCK] = "reply"]
  /\ UNCHANGED <<load, todo, pending_ticks, rp, left, synVars, quantumVars>>

ClockReply ==
  /\ k.proc_ptr = CLOCK /\ pc[CLOCK] = "reply"
  /\ k' = mini_send([k EXCEPT !.mess[CLOCK].type = "REPLY"],
                    CLOCK, k.mess[CLOCK].src, CLOCK).k
  /\ pc' = [pc EXCEPT ![CLOCK] = "recv"]
  /\ UNCHANGED <<load, todo, pending_ticks, rp, alarmVars, synVars,
                 quantumVars>>

ClockStep ==
  \/ ClockRecv \/ Transfer \/ ClockTick \/ ScanOver \/ CauseAlarm
  \/ SignalAlarm \/ Fired \/ ScanEnds \/ Quantum \/ QuantumExpired
  \/ SetAlarm \/ ClockReply
-----------------------------------------------------------------------------
(* The synchronous alarm task.  No task displaces it between its sends.     *)

Wanted_once ==    \* Mutant: it sleeps after one pass, whatever it found
  {p \in Slots : syn_table[p] /\ p > syn_at}

\* The slots it finds set before a whole pass finds none
Wanted == {p \in Slots : syn_table[p]}
NextWanted ==
  IF \E p \in Wanted : p > syn_at
  THEN Least({p \in Wanted : p > syn_at}) ELSE Least(Wanted)

SynSend ==
  /\ k.proc_ptr = SYN_ALRM_TASK /\ pc[SYN_ALRM_TASK] = "scan" /\ Wanted # {}
  /\ syn_table' = [syn_table EXCEPT ![NextWanted] = FALSE]
  /\ syn_at' = NextWanted
  /\ k' = mini_send([k EXCEPT !.mess[SYN_ALRM_TASK] =
                                Message("CLOCK_INT", 0, 0, 0)],
                    SYN_ALRM_TASK, NextWanted, SYN_ALRM_TASK).k
  /\ UNCHANGED <<load, pc, todo, pending_ticks, rp, alarmVars, syn_al_alive,
                 quantumVars>>

SynSleep ==
  /\ k.proc_ptr = SYN_ALRM_TASK /\ pc[SYN_ALRM_TASK] = "scan" /\ Wanted = {}
  /\ syn_al_alive' = FALSE
  /\ k' = mini_rec(k, SYN_ALRM_TASK, CLOCK)
  /\ pc' = [pc EXCEPT ![SYN_ALRM_TASK] = "asleep"]
  /\ UNCHANGED <<load, todo, pending_ticks, rp, alarmVars, syn_table, syn_at,
                 quantumVars>>

SynWake ==
  /\ k.proc_ptr = SYN_ALRM_TASK /\ pc[SYN_ALRM_TASK] = "asleep"
  /\ syn_al_alive' = TRUE /\ syn_at' = -1
  /\ pc' = [pc EXCEPT ![SYN_ALRM_TASK] = "scan"]
  /\ UNCHANGED <<load, k, todo, pending_ticks, rp, alarmVars, syn_table,
                 quantumVars>>

SynStep == SynSend \/ SynSleep \/ SynWake
-----------------------------------------------------------------------------
(* The clock interrupt, at any instruction boundary *)

ClockHandler ==
  LET pending == Min2(pending_ticks + 1, MaxDelay)
  IN /\ pending_ticks' = pending
     /\ left' = [p \in Slots |-> Max2(0, left[p] - 1)]
     /\ IF \/ next_alarm # LONG_MAX /\ next_alarm - 1 <= pending
           \/ /\ sched_ticks = 1 /\ k.bill_ptr = prev_ptr
              /\ k.rdy[USER_Q] # << >>
        THEN /\ k' = interrupt(k, CLOCK)
             /\ UNCHANGED quantumVars
        ELSE /\ sched_ticks' = IF sched_ticks = 1 THEN SCHED_RATE
                               ELSE Max2(sched_ticks - 1, -1)
             /\ prev_ptr' = IF sched_ticks = 1 THEN k.bill_ptr ELSE prev_ptr
             /\ UNCHANGED k
  /\ UNCHANGED <<load, pc, todo, rp, next_alarm, watch_dog, synVars>>
-----------------------------------------------------------------------------
(* Users and servers, as far as they matter to the clock *)

UserCall(u) ==
  /\ k.proc_ptr = u
  /\ \E c \in IF u = INIT THEN load.init ELSE load.child :
       k' = send_rec([k EXCEPT !.mess[u] = Message(c, 0, 0, 0)], u,
                     IF c = "IO" THEN FS ELSE MM).k
  /\ UNCHANGED <<load, pc, todo, pending_ticks, rp, alarmVars, synVars,
                 quantumVars>>

ServerRecv(s) ==
  /\ k.proc_ptr = s /\ pc[s] = "recv"
  /\ k' = mini_rec(k, s, ANY)
  /\ pc' = [pc EXCEPT ![s] = "work"]
  /\ UNCHANGED <<load, todo, pending_ticks, rp, alarmVars, synVars,
                 quantumVars>>

Decide(s, steps) ==
  /\ todo' = [todo EXCEPT ![s] = steps]
  /\ pc' = [pc EXCEPT ![s] = IF steps = << >> THEN "recv" ELSE "do"]
  /\ UNCHANGED <<load, pending_ticks, rp, next_alarm, watch_dog, synVars,
                 quantumVars>>

Call(type, p, delay) == [to |-> CLOCK, m |-> Message(type, p, delay, 0)]
Reply(p) == [to |-> p, m |-> Message("REPLY", 0, 0, 0)]

\* A server may set its alarm when it gets a call or its last alarm.
Alarms(s) ==
  {<< >>} \cup IF s \notin SynServers THEN {}
               ELSE {<<Call("SET_SYNC_AL", s, d)>> : d \in load.delays}

FSWork ==
  /\ k.proc_ptr = FS /\ pc[FS] = "work"
  /\ LET m == k.mess[FS]
         answer == IF m.type = "CLOCK_INT" THEN << >> ELSE <<Reply(m.src)>>
     IN \E alarm \in Alarms(FS) : Decide(FS, alarm \o answer)
  /\ UNCHANGED <<k, left>>

FreeSlots == {p \in UserSlots : isemptyp(k, p)}
FreePids == load.pids \ {k.p_pid[p] : p \in LiveUsers}

MMFork ==
  LET who == k.mess[MM].src
      child == Least(FreeSlots)
      forked == do_fork(k, Message("SYS_FORK", who, child, Least(FreePids))).k
  IN IF FreeSlots = {} \/ FreePids = {}
     THEN Decide(MM, <<Reply(who)>>) /\ UNCHANGED <<k, left>>
     ELSE /\ Decide(MM, <<Reply(child), Reply(who)>>)
          /\ k' = do_newmap(forked, Message("SYS_NEWMAP", child, 0, 0)).k
          /\ left' = [left EXCEPT ![child] = left[who]]

MMWork ==
  /\ k.proc_ptr = MM /\ pc[MM] = "work"
  /\ LET m == k.mess[MM]
     IN CASE m.type = "ALARM" ->
               /\ \E d \in load.delays :
                    Decide(MM, <<Call("SET_ALARM", m.src, d), Reply(m.src)>>)
               /\ UNCHANGED <<k, left>>
          [] m.type = "FORK" -> MMFork
          [] m.type = "EXIT" ->
               /\ Decide(MM, << >>)
               /\ k' = do_xit(k, Message("SYS_XIT", INIT, m.src, 0)).k
               /\ left' = [left EXCEPT ![m.src] = 0]
          [] m.type = "KSIG" ->
               /\ Decide(MM, << >>)
               /\ k' = do_endsig(k, Message("SYS_ENDSIG", m.i1, 0, 0)).k
               /\ UNCHANGED left
          [] m.type = "CLOCK_INT" ->
               /\ \E alarm \in Alarms(MM) : Decide(MM, alarm)
               /\ UNCHANGED <<k, left>>
          [] OTHER -> Decide(MM, <<Reply(m.src)>>) /\ UNCHANGED <<k, left>>

ServerStep(s) ==
  /\ k.proc_ptr = s /\ pc[s] = "do"
  /\ LET step == Head(todo[s])
         k1 == [k EXCEPT !.mess[s] = step.m]
     IN k' = IF step.to = CLOCK THEN send_rec(k1, s, CLOCK).k
             ELSE mini_send(k1, s, step.to, s).k
  /\ todo' = [todo EXCEPT ![s] = Tail(@)]
  /\ pc' = [pc EXCEPT ![s] = IF Len(todo[s]) = 1 THEN "recv" ELSE "do"]
  /\ UNCHANGED <<load, pending_ticks, rp, alarmVars, synVars, quantumVars>>
-----------------------------------------------------------------------------
Next ==
  \/ ClockStep \/ SynStep \/ ClockHandler
  \/ MMWork \/ FSWork
  \/ \E s \in Servers : ServerRecv(s) \/ ServerStep(s)
  \/ \E u \in UserSlots : UserCall(u)

(***************************************************************************)
(* As in module Kernel: the running task or server moves, the timer ticks, *)
(* and a user need not make another call.                                  *)
(***************************************************************************)
Runs(p) ==
  k.proc_ptr = p /\ <<pc, todo, rp, syn_at>>' # <<pc, todo, rp, syn_at>>

Fairness ==
  /\ \A t \in {CLOCK, SYN_ALRM_TASK} :
       <>[](k.proc_ptr = t) => []<><<Runs(t)>>_vars
  /\ \A s \in Servers : []<>(k.proc_ptr = s) => []<><<Runs(s)>>_vars
  /\ WF_vars(ClockHandler)

Spec == Init /\ [][Next]_vars /\ Fairness
-----------------------------------------------------------------------------
\* The clock task has taken up a request for the alarm of p.
Setting(p) ==
  pc[CLOCK] \in {"work", "reply"} /\ SetsAlarm /\ k.mess[CLOCK].i1 = p

\* realtime lags behind the ticks that clock_handler has counted, and
\* clock_task brings it up to date before it computes with it: no alarm goes
\* off before its time.  next_alarm, by which clock_handler decides whether to
\* wake the clock task at all, is never later than an alarm in the table.
\* Fork inherits alarms and exit ends them: no free slot has one.
AlarmsInTime ==
  /\ \A p \in Slots : k.p_alarm[p] = 1 /\ ~Setting(p) => left[p] = 0
  /\ pc[CLOCK] \notin {"scan", "fired"} =>
       \A p \in Slots : k.p_alarm[p] # 0 => next_alarm <= k.p_alarm[p]
  /\ \A p \in Slots : k.p_alarm[p] # 0 => p \in Servers \cup LiveUsers

\* Every alarm goes off, is cancelled or is set anew, although the ticks that
\* come while the clock task is at work or blocked are only counted, and each
\* scan and each do_setalarm computes next_alarm from scratch.
AlarmsGoOff ==
  \A p \in SynServers \cup UserSlots :
    k.p_alarm[p] # 0 ~> k.p_alarm[p] = 0 \/ Setting(p)

\* The ticks leave the tasks time to work: they all block again and again.
TasksCatchUp == []<>(k.rdy[TASK_Q] = << >>)

\* A server is sent its CLOCK_INT, however the alarms that cause_alarm puts in
\* syn_table fall between the scan of syn_alrm_task, its sends that block on a
\* busy server, and its decision to sleep.
SynAlarmsArrive ==
  TasksCatchUp =>
    \A s \in SynServers : syn_table[s] ~> k.mess[s].type = "CLOCK_INT"

\* From some time on, no tick comes while a task is at work, the servers have
\* time to spare, and no user process that could run blocks.
Slow == ClockHandler => k.rdy[TASK_Q] = << >>
NobodyBlocks == \A u \in UserSlots : k.p_flags[u] = {} => k'.p_flags[u] = {}
ServersCatchUp == []<>(k.rdy[TASK_Q] = << >> /\ k.rdy[SERVER_Q] = << >>)

\* User programs that compute, as tests/infinityloop.c, all run again and
\* again: clock_handler and do_clocktick, which count sched_ticks down in
\* competition, end the turn of each, and sched() moves it behind the others
\* when its priority is used up.
EveryoneRuns ==
  ServersCatchUp /\ <>[][Slow /\ NobodyBlocks]_vars =>
    \A u \in UserSlots :
      u \in LiveUsers /\ k.p_flags[u] = {} ~>
        k.proc_ptr = u \/ ~(u \in LiveUsers /\ k.p_flags[u] = {})
=============================================================================
