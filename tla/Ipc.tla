--------------------------------- MODULE Ipc ---------------------------------
(***************************************************************************)
(* The message, signal and scheduling primitives of the kernel under       *)
(* ARBITRARY programs: whatever process runs makes any system call it may  *)
(* make, tasks cause and finish signals, and interrupts come at any time.  *)
(* Module Kernel runs the same primitives under the programs Minix has.    *)
(***************************************************************************)
EXTENDS System

CONSTANT Programs    \* the tasks, servers and users of this instance

ASSUME IpcAssumption ==
  /\ MM \in Programs
  /\ Programs \subseteq Tasks \cup Slots

VARIABLE k

\* Every program is ready to run; queues are in order of process numbers.
InOrder(S) == CHOOSE s \in [1..Cardinality(S) -> S] :
                \A i, j \in DOMAIN s : i < j => s[i] < s[j]

BootState ==
  [p_flags |-> [p \in Procs |-> {}],
   p_priority |-> [p \in Procs |->
                     IF p \in Tasks \cup {HARDWARE} THEN PPRI_TASK
                     ELSE IF p = IDLE THEN PPRI_IDLE
                     ELSE IF p \notin Programs THEN PPRI_NONE
                     ELSE IF p \in {MM, FS} THEN PPRI_SERVER
                     ELSE PPRI_USER],
   p_getfrom |-> [p \in Procs |-> ANY],
   p_sendto |-> [p \in Procs |-> MM],
   p_callerq |-> [p \in Procs |-> << >>],
   p_int_blocked |-> [t \in Tasks |-> FALSE],
   p_pending |-> [p \in Slots |-> {}],
   p_pendcount |-> [p \in Slots |-> 0],
   user_priority |-> [p \in Slots |-> ForkLow],
   time_counter |-> [p \in Slots |-> 0],
   mess |-> [p \in Procs |-> NoMess],
   rdy |-> [q \in Queues |->
              InOrder(Programs \cap
                        CASE q = TASK_Q -> Tasks
                          [] q = SERVER_Q -> {MM, FS}
                          [] q = USER_Q -> UserSlots)],
   proc_ptr |-> IDLE,
   bill_ptr |-> IDLE,
   sig_procs |-> 0,
   panic |-> FALSE]

Init == k = pick_proc(BootState)
-----------------------------------------------------------------------------
\* The calls a program may sensibly make: not to itself, not to the idle task
SysCall ==
  \E function \in {"SEND", "RECEIVE", "BOTH"} :
    \E src_dest \in (Programs \ {k.proc_ptr})
                     \cup IF function = "RECEIVE" THEN {ANY, HARDWARE} ELSE {} :
      /\ k.proc_ptr \in Programs
      /\ src_dest = HARDWARE => k.proc_ptr \in Tasks
      /\ k' = sys_call(k, function, src_dest).k

Interrupt == \E t \in Tasks \cap Programs : k' = interrupt(k, t)

CauseSig ==
  /\ k.proc_ptr \in Tasks
  /\ \E p \in UserSlots \cap Programs, sig \in SIGS :
       /\ k.p_pendcount[p] < 2 * Cardinality(SIGS)
       /\ k' = cause_sig(k, p, sig)

\* A task works for MM, which finishes only signals it was told of.
EndSig ==
  /\ k.proc_ptr \in Tasks
  /\ \E p \in UserSlots \cap Programs :
       /\ k.p_pendcount[p] > Cardinality(k.p_pending[p])
       /\ k' = do_endsig(k, Message("SYS_ENDSIG", p, 0, 0)).k

Sched == k.proc_ptr \in Tasks /\ k' = sched(k)

Next == SysCall \/ Interrupt \/ CauseSig \/ EndSig \/ Sched

Spec == Init /\ [][Next]_k
-----------------------------------------------------------------------------
Schedulable == Procs \ {HARDWARE, IDLE}

TypeOK ==
  /\ k.p_flags \in [Procs -> SUBSET Flags]
  /\ k.p_getfrom \in [Procs -> Procs \cup {ANY}]
  /\ k.p_sendto \in [Procs -> Procs]
  /\ \A p \in Procs : k.p_callerq[p] \in Seq(Procs)
  /\ k.p_int_blocked \in [Tasks -> BOOLEAN]
  /\ k.p_pendcount \in [Slots -> Nat]
  /\ \A q \in Queues : k.rdy[q] \in Seq(Schedulable)
  /\ k.proc_ptr \in Procs
  /\ k.sig_procs \in Nat

\* The ELOCKED check of mini_send follows the chain of senders from the
\* destination: no set of processes can ever be blocked sending in a circle,
\* whichever of them closes it.
NoWaitCycle ==
  \A S \in (SUBSET Programs) \ {{}} :
    \E p \in S : ~("SENDING" \in k.p_flags[p] /\ k.p_sendto[p] \in S)

\* mini_rec does not look at the caller queue of a process that is SENDING
\* (the first half of a sendrec), and nobody looks again when that send is
\* over.  Still no process waits for a message that is already queued on it.
NoMissedMessage ==
  \A d \in Procs :
    k.p_flags[d] \cap {"RECEIVING", "SENDING"} = {"RECEIVING"} =>
      \A i \in DOMAIN k.p_callerq[d] :
        k.p_getfrom[d] \notin {ANY, k.p_callerq[d][i]}

\* An interrupt for a busy task is remembered in p_int_blocked; the task
\* never waits for one while it is.
InterruptNotLost ==
  \A t \in Tasks :
    k.p_int_blocked[t] /\ k.p_flags[t] = {"RECEIVING"} =>
      k.p_getfrom[t] \notin {ANY, HARDWARE}

\* ready() and unready() are called under hand-written tests of p_flags: a
\* process is on the queue of its class exactly when no flag blocks it, once.
ReadyQueues ==
  /\ \A q \in Queues : \A i, j \in DOMAIN k.rdy[q] :
       k.rdy[q][i] = k.rdy[q][j] => i = j
  /\ \A p \in Schedulable, q \in Queues :
       OnList(k.rdy[q], p) <=>
         /\ p \in Programs /\ k.p_flags[p] = {}
         /\ q = QueueOf(k, p)

\* proc_ptr is set in five places of proc.c; in between it is always the
\* process pick_proc() would choose: no ready server or user ever runs ahead
\* of a ready task, nor a user that is not the head of its queue.
RunsHighest == k.proc_ptr = pick_proc(k).proc_ptr

\* A process is on the caller queue of the process it sends to, once, exactly
\* while it is SENDING.
CallerQueues ==
  /\ \A d \in Procs : \A i, j \in DOMAIN k.p_callerq[d] :
       k.p_callerq[d][i] = k.p_callerq[d][j] => i = j
  /\ \A d, c \in Procs :
       OnList(k.p_callerq[d], c) <=>
         "SENDING" \in k.p_flags[c] /\ k.p_sendto[c] = d

\* The data that ready(), unready(), pick_proc(), mini_send() and mini_rec()
\* keep in step, whatever calls them.
QueuesAgree == ReadyQueues /\ RunsHighest /\ CallerQueues

\* sig_procs counts the processes MM has to be told about.
SigProcsCount ==
  k.sig_procs = Cardinality({p \in Slots : "PENDING" \in k.p_flags[p]})

\* MM never sleeps on receive(ANY) while a signal is unreported: whichever of
\* "MM blocks" (mini_rec) and "a signal is caused" comes last calls inform().
MMNotIdleWithSignals ==
  k.sig_procs > 0 =>
    ~(k.p_flags[MM] \cap {"RECEIVING", "SENDING"} = {"RECEIVING"}
      /\ k.p_getfrom[MM] = ANY)

\* inform() sends in the name of HARDWARE, which is no process and cannot
\* wait: it always finds MM able to take its message.
NotifierNeverBlocks == k.p_flags[HARDWARE] = {} /\ ~k.panic

\* Every signal is on its way to MM and nobody waits to bring it there.
MMIsTold == SigProcsCount /\ MMNotIdleWithSignals /\ NotifierNeverBlocks

\* No message, interrupt or signal waits for a process that waits for it.
NothingMissed == NoMissedMessage /\ InterruptNotLost /\ MMIsTold

\* A process that is released from receive gets a message of the source it
\* asked for: an interrupt or another sender never ends the wait for a reply.
OnlyAskedSource ==
  [][\A p \in Programs :
       "RECEIVING" \in k.p_flags[p] /\ "RECEIVING" \notin k'.p_flags[p] =>
         k.p_getfrom[p] \in {ANY, k'.mess[p].src}]_k
=============================================================================
