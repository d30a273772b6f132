----------------------------- MODULE KernelProps -----------------------------
(* What the kernel of module Kernel keeps true. *)
EXTENDS Kernel

\* The processes the ready queues are about
Schedulable == Procs \ {HARDWARE, IDLE}

\* ready() and unready() are called, all over proc.c and system.c, under
\* hand-written tests of p_flags: a process in use is on the queue of its
\* class exactly when no flag blocks it, once, and a dead slot is on none.
ReadyQueues ==
  /\ \A q \in Queues : \A i, j \in DOMAIN k.rdy[q] :
       k.rdy[q][i] = k.rdy[q][j] => i = j
  /\ \A p \in Schedulable, q \in Queues :
       OnList(k.rdy[q], p) <=>
         /\ k.p_flags[p] = {} /\ ~isemptyp(k, p)
         /\ q = QueueOf(k, p)

\* p_callerq, p_sendto and the SENDING flag agree although mini_rec, do_xit
\* and do_fork change them one by one: a process is queued on the one it
\* sends to, once, exactly while it is SENDING, and no dead slot is queued.
CallerQueues ==
  /\ \A d \in Procs : \A i, j \in DOMAIN k.p_callerq[d] :
       k.p_callerq[d][i] = k.p_callerq[d][j] => i = j
  /\ \A d \in Procs, c \in Schedulable :
       OnList(k.p_callerq[d], c) <=>
         "SENDING" \in k.p_flags[c] /\ k.p_sendto[c] = d
  /\ \A d \in Procs, c \in Slots :
       OnList(k.p_callerq[d], c) => ~isemptyp(k, c)

\* The queues of proc.c agree with the flags, whatever fork, exit, signals and
\* interrupts do to the processes on them.
QueuesAgree == ReadyQueues /\ CallerQueues

\* sig_procs counts the processes with PENDING, over cause_sig, inform,
\* do_fork (the child inherits none) and do_xit.
SigProcsCount ==
  k.sig_procs = Cardinality({p \in Slots : "PENDING" \in k.p_flags[p]})

\* Signals MM has been told of and has not reported finished: in the KSIG
\* message it has received, in its plan, or in the SYS_ENDSIG under way.
InMMsHands(p) ==
  LET ends == {i \in DOMAIN plan[MM] :
                 plan[MM][i].m.type = "SYS_ENDSIG" /\ plan[MM][i].m.i1 = p}
      told == IF /\ pc[MM] = "work" /\ k.p_flags[MM] = {}
                 /\ k.mess[MM].type = "KSIG" /\ k.mess[MM].i1 = p
              THEN Cardinality(k.mess[MM].map) ELSE 0
      going == IF /\ pc[SYSTASK] = "work" /\ k.p_flags[SYSTASK] = {}
                  /\ k.mess[SYSTASK].type = "SYS_ENDSIG"
                  /\ k.mess[SYSTASK].i1 = p
               THEN 1 ELSE 0
  IN Cardinality(ends) + told + going

\* p_pendcount is "count of pending and unfinished signals" (proc.h): it
\* accounts for every signal from cause_sig to do_endsig, and SIG_PENDING
\* blocks the process exactly as long.
PendingCount ==
  \A p \in LiveUsers :
    /\ k.p_pendcount[p] = Cardinality(k.p_pending[p]) + InMMsHands(p)
    /\ "SIG_PENDING" \in k.p_flags[p] <=> k.p_pendcount[p] > 0
    /\ "PENDING" \in k.p_flags[p] <=> k.p_pending[p] # {}

\* MM never sleeps on receive(ANY) while a process has an unreported signal:
\* whichever of "MM blocks" and "signal is caused" comes last calls inform().
MMNotIdleWithSignals ==
  k.sig_procs > 0 =>
    ~("RECEIVING" \in k.p_flags[MM] /\ k.p_getfrom[MM] = ANY)

\* Every signal is accounted for, counted where it is and on its way to MM or
\* in its hands.
SignalsAccounted == SigProcsCount /\ PendingCount /\ MMNotIdleWithSignals

\* inform() builds its message in the global m of system.c, which is also the
\* request the system task is working on: when the task gets to it, it still
\* is what a server waits for an answer to.
RequestIntact ==
  pc[SYSTASK] = "work" /\ k.p_flags[SYSTASK] = {} =>
    LET m == k.mess[SYSTASK]
    IN /\ m.src \in Servers
       /\ k.p_flags[m.src] = {"RECEIVING"} /\ k.p_getfrom[m.src] = SYSTASK
       /\ m = [k.mess[m.src] EXCEPT !.src = m.src]

\* "can't inform MM" (inform) and "MM can't reply to" (mm/main.c) are never
\* reached.
NoPanic == ~k.panic

\* A reply is sent only to who waits for it: MM is held up by FS only and FS by
\* nobody, whoever dies and whatever its slot is used for then.
NobodyHoldsServers ==
  /\ "SENDING" \notin k.p_flags[FS]
  /\ "SENDING" \in k.p_flags[MM] => k.p_sendto[MM] = FS

RepliesArrive == NoPanic /\ NobodyHoldsServers

\* do_getpri and do_setpri search p_pid in slots that may be dead (do_xit
\* leaves the pid there): the slot found for a live process is its own.
PidFindsLiveProcess ==
  \A p \in LiveUsers : FindPid(k, k.p_pid[p]) = p

-----------------------------------------------------------------------------
(* Liveness.  Interrupts could keep the clock task busy for ever; the       *)
(* timer's period is far longer than the work of the tasks between two of   *)
(* its ticks, so the tasks all block again and again.                       *)

TasksCatchUp == []<>(k.rdy[TASK_Q] = << >>)

\* "The process being signaled is blocked while MM has not seen or finished
\* with all signals for it" (cause_sig), and no longer: it is released or
\* dies.
SignalsFinish ==
  TasksCatchUp =>
    \A u \in UserSlots :
      "SIG_PENDING" \in k.p_flags[u] ~> "SIG_PENDING" \notin k.p_flags[u]

Waits(u) == k.p_flags[u] \cap {"SENDING", "RECEIVING"} # {}

\* Every call a user program makes of MM or FS ends, PAUSE excepted: the
\* program has its answer or is gone.
CallsEnd ==
  TasksCatchUp =>
    \A u \in UserSlots :
      Waits(u) /\ k.mess[u].type # "PAUSE" ~>
        ~Waits(u) \/ k.mess[u].type = "PAUSE"
=============================================================================
