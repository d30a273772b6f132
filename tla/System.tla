------------------------------- MODULE System -------------------------------
(***************************************************************************)
(* The handlers of the system task (kernel/system.c) that change the       *)
(* process table, and cause_sig, which other tasks call too.  A handler is *)
(* an operator from the kernel state and the request m to the new kernel   *)
(* state and the result r that the reply reports.                          *)
(***************************************************************************)
EXTENDS Proc

CONSTANTS
  ForkLow, ForkHigh,   \* the two priorities do_fork alternates (10 and 50)
  DefaultPriority,     \* what do_setpri makes of an invalid priority (15)
  MaxPriority          \* the largest valid priority (100)

ASSUME SystemAssumption ==
  /\ {ForkLow, ForkHigh, DefaultPriority} \subseteq 1..MaxPriority
  /\ ForkLow # ForkHigh
  /\ MaxPriority \in Nat /\ MaxPriority < CounterBound

Servers == {MM, FS}

\* After booting: tasks and servers wait for work, INIT runs.
InitialKernel ==
  [p_flags |-> [p \in Procs |-> IF p \in Tasks \cup Servers
                                THEN {"RECEIVING"} ELSE {}],
   p_priority |-> [p \in Procs |->
                     CASE p \in Tasks \cup {HARDWARE} -> PPRI_TASK
                       [] p \in Servers -> PPRI_SERVER
                       [] p = INIT -> PPRI_USER
                       [] p = IDLE -> PPRI_IDLE
                       [] OTHER -> PPRI_NONE],
   p_getfrom |-> [p \in Procs |-> ANY],
   p_sendto |-> [p \in Procs |-> MM],
   p_callerq |-> [p \in Procs |-> << >>],
   p_int_blocked |-> [t \in Tasks |-> FALSE],
   p_pid |-> [p \in Slots |-> IF p = INIT THEN 1 ELSE 0],
   p_alarm |-> [p \in Slots |-> 0],
   p_pending |-> [p \in Slots |-> {}],
   p_pendcount |-> [p \in Slots |-> 0],
   user_priority |-> [p \in Slots |-> 0],
   time_counter |-> [p \in Slots |-> 0],
   mess |-> [p \in Procs |-> NoMess],
   rdy |-> [q \in Queues |-> IF q = USER_Q THEN <<INIT>> ELSE << >>],
   proc_ptr |-> INIT,
   bill_ptr |-> INIT,
   sig_procs |-> 0,
   last_user_priority |-> ForkHigh,
   panic |-> FALSE]

-----------------------------------------------------------------------------
MarkPending_uncounted(k, p) ==    \* Mutant: ++sig_procs is forgotten
  [k EXCEPT !.p_flags[p] = @ \cup {"PENDING", "SIG_PENDING"}]

MarkPending(k, p) ==
  [k EXCEPT !.p_flags[p] = @ \cup {"PENDING", "SIG_PENDING"},
            !.sig_procs = @ + 1]

MMIsIdle_receiving(k) == "RECEIVING" \in k.p_flags[MM]    \* Mutant

\* MM, if it is receiving at all, receives from ANY.
MMIsIdle(k) == "RECEIVING" \in k.p_flags[MM] /\ k.p_getfrom[MM] = ANY

cause_sig(k, p, sig) ==
  LET k1 == [k EXCEPT !.p_pending[p] = @ \cup {sig}, !.p_pendcount[p] = @ + 1]
      k2 == IF k1.p_flags[p] = {} THEN unready(k1, p) ELSE k1
      k3 == MarkPending(k2, p)
  IN IF sig \in k.p_pending[p] THEN k
     ELSE IF "PENDING" \in k.p_flags[p] THEN k1
     ELSE IF MMIsIdle(k3) THEN inform(k3) ELSE k3

\* Mutant: fields are copied one by one, p_priority is forgotten
do_fork_unused(k, m) ==
  [r |-> OK,
   k |-> [k EXCEPT
     !.p_flags[m.i2] =
       (k.p_flags[m.i1] \cup {"NO_MAP"}) \ {"PENDING", "SIG_PENDING"},
     !.p_getfrom[m.i2] = k.p_getfrom[m.i1],
     !.p_pid[m.i2] = m.i3]]

\* The child is a copy of the parent that may not run before it has a map.
\* Everything the copy takes along (getfrom, sendlink, alarm) is kept.
do_fork(k, m) ==
  LET rpp == m.i1
      rpc == m.i2
      prio == IF k.last_user_priority = ForkHigh THEN ForkLow ELSE ForkHigh
  IN [r |-> OK,
      k |-> [k EXCEPT
        !.p_flags[rpc] =
          (k.p_flags[rpp] \cup {"NO_MAP"}) \ {"PENDING", "SIG_PENDING"},
        !.p_priority[rpc] = k.p_priority[rpp],
        !.p_getfrom[rpc] = k.p_getfrom[rpp],
        !.p_sendto[rpc] = k.p_sendto[rpp],
        !.p_callerq[rpc] = k.p_callerq[rpp],
        !.p_alarm[rpc] = k.p_alarm[rpp],
        !.p_pending[rpc] = {},
        !.p_pendcount[rpc] = 0,
        !.p_pid[rpc] = m.i3,
        !.time_counter[rpc] = 0,
        !.user_priority[rpc] = prio,
        !.last_user_priority = prio]]

do_newmap(k, m) ==
  LET p == m.i1
      k1 == [k EXCEPT !.p_flags[p] = @ \ {"NO_MAP"}]
  IN [r |-> OK,
      k |-> IF k.p_flags[p] # {} /\ k1.p_flags[p] = {} THEN ready(k1, p)
            ELSE k1]

\* i2 is the flag "is being traced"
do_exec(k, m) ==
  LET p == m.i1
      k1 == IF m.i2 # 0 THEN cause_sig(k, p, "SIGTRAP") ELSE k
      k2 == [k1 EXCEPT !.p_flags[p] = @ \ {"RECEIVING"}]
  IN [r |-> OK, k |-> IF k2.p_flags[p] = {} THEN ready(k2, p) ELSE k2]

LeaveCallerQueues_front(k, rc) ==    \* Mutant: only queue heads are checked
  [k EXCEPT !.p_callerq =
     [d \in Procs |-> IF k.p_callerq[d] # << >> /\ Head(k.p_callerq[d]) = rc
                      THEN Tail(k.p_callerq[d]) ELSE k.p_callerq[d]]]

LeaveCallerQueues(k, rc) ==
  [k EXCEPT !.p_callerq = [d \in Procs |-> Unlink(k.p_callerq[d], rc)]]

ClearSlot_counted(k, rc) ==    \* Mutant: --sig_procs is forgotten
  [k EXCEPT !.p_pending[rc] = {}, !.p_pendcount[rc] = 0,
            !.p_flags[rc] = {}, !.p_priority[rc] = PPRI_NONE]

ClearSlot(k, rc) ==
  [k EXCEPT !.sig_procs = IF "PENDING" \in k.p_flags[rc] THEN @ - 1 ELSE @,
            !.p_pending[rc] = {},
            !.p_pendcount[rc] = 0,
            !.p_flags[rc] = {},
            !.p_priority[rc] = PPRI_NONE]

do_xit(k, m) ==
  LET rc == m.i2
      k1 == [k EXCEPT !.p_alarm[rc] = 0]
      k2 == IF k1.p_flags[rc] = {} THEN unready(k1, rc) ELSE k1
      k3 == IF "SENDING" \in k2.p_flags[rc] THEN LeaveCallerQueues(k2, rc)
            ELSE k2
  IN [r |-> OK, k |-> ClearSlot(k3, rc)]

do_kill(k, m) == [r |-> OK, k |-> cause_sig(k, m.i1, "SIGPIPE")]

\* errno.h; not the value matters, only that it is not OK
E_BAD_PROC == -2

\* MM has finished one signal of the process
do_endsig(k, m) ==
  LET p == m.i1
      k1 == [k EXCEPT !.p_pendcount[p] = @ - 1]
      k2 == [k1 EXCEPT !.p_flags[p] = @ \ {"SIG_PENDING"}]
  IN IF isemptyp(k, p) THEN [r |-> E_BAD_PROC, k |-> k]
     ELSE [r |-> OK,
           k |-> IF k.p_pendcount[p] = 0 THEN k
                 ELSE IF k1.p_pendcount[p] # 0 THEN k1
                 ELSE IF k2.p_flags[p] = {} THEN ready(k2, p) ELSE k2]

\* Requests of MM for a traced process; reading and writing its registers and
\* memory changes nothing here.
T_STOP == -1
T_RESUME == 7
EIO == -5

do_trace(k, m) ==
  LET p == m.i1
      idle == IF k.p_flags[p] = {} THEN unready(k, p) ELSE k
      going == [k EXCEPT !.p_flags[p] = @ \ {"P_STOP"}]
  IN IF isemptyp(k, p) THEN [r |-> EIO, k |-> k]
     ELSE [r |-> OK,
           k |-> IF m.i2 = T_STOP
                 THEN [idle EXCEPT !.p_flags[p] = @ \cup {"P_STOP"}]
                 ELSE IF m.i2 = T_RESUME
                 THEN IF going.p_flags[p] = {} THEN ready(going, p) ELSE going
                 ELSE k]

\* The first slot, in table order, that carries the pid: slots of dead
\* processes are searched like the others.
SlotsWithPid(k, pid) == {p \in UserSlots : k.p_pid[p] = pid}

FindPid_last(k, pid) ==    \* Mutant: the search runs downwards
  CHOOSE p \in SlotsWithPid(k, pid) : \A q \in SlotsWithPid(k, pid) : q <= p

FindPid(k, pid) == Least(SlotsWithPid(k, pid))

do_getpri(k, m) ==
  [k |-> k,
   r |-> IF SlotsWithPid(k, m.i1) = {} THEN 0
         ELSE k.user_priority[FindPid(k, m.i1)]]

do_setpri(k, m) ==
  LET prio == IF m.i2 <= 0 \/ m.i2 > MaxPriority THEN DefaultPriority ELSE m.i2
  IN [r |-> OK,
      k |-> IF SlotsWithPid(k, m.i1) = {} THEN k
            ELSE [k EXCEPT !.user_priority[FindPid(k, m.i1)] = prio]]

\* The switch of sys_task; a request that changes nothing (SYS_SENDSIG and
\* the other register, map and copy requests) is the last case.
sys_task(k, m) ==
  CASE m.type = "SYS_FORK" -> do_fork(k, m)
    [] m.type = "SYS_NEWMAP" -> do_newmap(k, m)
    [] m.type = "SYS_EXEC" -> do_exec(k, m)
    [] m.type = "SYS_XIT" -> do_xit(k, m)
    [] m.type = "SYS_KILL" -> do_kill(k, m)
    [] m.type = "SYS_ENDSIG" -> do_endsig(k, m)
    [] m.type = "SYS_TRACE" -> do_trace(k, m)
    [] m.type = "SYS_GETPRI" -> do_getpri(k, m)
    [] m.type = "SYS_SETPRI" -> do_setpri(k, m)
    [] OTHER -> [r |-> OK, k |-> k]
=============================================================================
