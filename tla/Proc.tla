-------------------------------- MODULE Proc --------------------------------
(***************************************************************************)
(* Process and message handling of the Minix kernel of exercise 2          *)
(* (kernel/proc.c, kernel/proc.h) with the user priorities the exercise    *)
(* adds.  The kernel's data is ONE record k; every function of proc.c is   *)
(* an operator from a kernel state to a kernel state, so that a handler    *)
(* that calls several of them is their composition and stays one action.   *)
(*                                                                         *)
(* The linked lists of proc.c (p_nextready, p_sendlink, p_nextheld) are    *)
(* sequences; rdy_tail and held_tail are their last elements.              *)
(***************************************************************************)
EXTENDS Integers, Sequences, FiniteSets

CONSTANTS
  NR_PROCS,       \* slots for MM, FS and the user processes
  SIGS,           \* signal numbers the kernel can cause
  CounterBound    \* where time_counter saturates, above every priority

-----------------------------------------------------------------------------
(* Process numbers: com.h fixes HARDWARE and SYSTASK; only the fact that    *)
(* the others are other negative numbers matters.                           *)
DISK == -5      \* a driver that waits for its device's interrupt
IDLE == -4
CLOCK == -3
SYSTASK == -2
HARDWARE == -1
MM == 0
FS == 1
INIT == 2
LOW_USER == 2
ANY == 31438    \* "a magic, invalid process number" (com.h)

ASSUME ProcAssumption ==
  /\ NR_PROCS \in Nat /\ NR_PROCS > 2 /\ NR_PROCS <= ANY
  /\ CounterBound \in Nat

Tasks == {DISK, CLOCK, SYSTASK}
Slots == 0..(NR_PROCS - 1)
UserSlots == LOW_USER..(NR_PROCS - 1)
Procs == Tasks \cup {IDLE, HARDWARE} \cup Slots

\* p_priority
PPRI_NONE == 0
PPRI_TASK == 1
PPRI_SERVER == 2
PPRI_USER == 3
PPRI_IDLE == 4

\* The three queues of runnable processes
TASK_Q == 1
SERVER_Q == 2
USER_Q == 3
Queues == {TASK_Q, SERVER_Q, USER_Q}

Flags == {"NO_MAP", "SENDING", "RECEIVING", "PENDING", "SIG_PENDING",
          "P_STOP"}

\* Results of sys_call
OK == 0
E_BAD_DEST == -1
ELOCKED == -101

\* m_type and the integer fields m1_i1 .. m1_i3; map is SIG_MAP
NoMess == [src |-> HARDWARE, type |-> "none", i1 |-> 0, i2 |-> 0, i3 |-> 0,
           map |-> {}]
Message(type, i1, i2, i3) ==
  [NoMess EXCEPT !.type = type, !.i1 = i1, !.i2 = i2, !.i3 = i3]

-----------------------------------------------------------------------------
(* Sequences used as linked lists *)

OnList(s, p) == \E i \in DOMAIN s : s[i] = p

\* Mutant: the queue's head is set whatever element is taken
RemoveIndex_head(s, i) == SubSeq(s, i + 1, Len(s))

RemoveIndex(s, i) ==
  [j \in 1..(Len(s) - 1) |-> IF j < i THEN s[j] ELSE s[j + 1]]

\* s without its first occurrence of p; s itself when p is not on it
Unlink(s, p) ==
  IF OnList(s, p)
  THEN RemoveIndex(s, CHOOSE i \in DOMAIN s :
                        s[i] = p /\ \A j \in DOMAIN s : s[j] = p => i <= j)
  ELSE s

Least(S) == CHOOSE x \in S : \A y \in S : x <= y

-----------------------------------------------------------------------------
istaskp(k, p) == k.p_priority[p] = PPRI_TASK
isservp(k, p) == k.p_priority[p] = PPRI_SERVER
isuserp(k, p) == k.p_priority[p] = PPRI_USER
isemptyp(k, p) == k.p_priority[p] = PPRI_NONE

\* The queue ready() and unready() work on
QueueOf(k, p) ==
  IF istaskp(k, p) THEN TASK_Q ELSE IF isservp(k, p) THEN SERVER_Q ELSE USER_Q

pick_proc(k) ==
  IF k.rdy[TASK_Q] # << >> THEN [k EXCEPT !.proc_ptr = Head(k.rdy[TASK_Q])]
  ELSE IF k.rdy[SERVER_Q] # << >>
       THEN [k EXCEPT !.proc_ptr = Head(k.rdy[SERVER_Q])]
       ELSE IF k.rdy[USER_Q] # << >>
            THEN [k EXCEPT !.proc_ptr = Head(k.rdy[USER_Q]),
                           !.bill_ptr = Head(k.rdy[USER_Q])]
            ELSE [k EXCEPT !.proc_ptr = IDLE, !.bill_ptr = IDLE]

\* Tasks and servers join the tail of their queue, users the FRONT of theirs;
\* a task that finds no other task ready runs at once.
ready(k, p) ==
  LET q == QueueOf(k, p)
  IN [k EXCEPT
        !.rdy[q] = IF q = USER_Q THEN <<p>> \o @ ELSE Append(@, p),
        !.proc_ptr = IF q = TASK_Q /\ k.rdy[TASK_Q] = << >> THEN p ELSE @]

\* Only the removal of a queue's head makes the kernel pick again (for a
\* task: of the head that is running).
unready(k, p) ==
  LET q == QueueOf(k, p)
      s == k.rdy[q]
      k1 == [k EXCEPT !.rdy[q] = Unlink(s, p)]
  IN IF s # << >> /\ Head(s) = p /\ (q = TASK_Q => p = k.proc_ptr)
     THEN pick_proc(k1)
     ELSE k1

\* Mutant: the head goes behind its successor, not to the end
sched_swap(k) ==
  LET s == k.rdy[USER_Q]
      p == Head(s)
  IN IF s = << >> THEN k
     ELSE IF k.time_counter[p] # k.user_priority[p]
     THEN [k EXCEPT !.time_counter[p] =
             IF @ < CounterBound THEN @ + 1 ELSE @]
     ELSE pick_proc([k EXCEPT !.time_counter[p] = 0,
                              !.rdy[USER_Q] =
                                IF Len(s) = 1 THEN s
                                ELSE <<s[2], s[1]>> \o SubSeq(s, 3, Len(s))])

\* The quantum check of exercise 2: the head of USER_Q is rotated only when
\* its time_counter EQUALS its user_priority.  time_counter saturates at
\* CounterBound, which no priority reaches (the int would wrap instead).
sched(k) ==
  LET s == k.rdy[USER_Q]
      p == Head(s)
  IN IF s = << >> THEN k
     ELSE IF k.time_counter[p] # k.user_priority[p]
     THEN [k EXCEPT !.time_counter[p] =
             IF @ < CounterBound THEN @ + 1 ELSE @]
     ELSE pick_proc([k EXCEPT !.time_counter[p] = 0,
                              !.rdy[USER_Q] = Append(Tail(s), p)])

-----------------------------------------------------------------------------
(* Interrupts, for k_reenter = 0 and switching = FALSE; the held queue of   *)
(* the other case is module HeldInterrupts.                                 *)

\* Mutant: p_getfrom is not looked at
interrupt_any(k, t) ==
  IF k.p_flags[t] \cap {"RECEIVING", "SENDING"} # {"RECEIVING"}
  THEN [k EXCEPT !.p_int_blocked[t] = TRUE]
  ELSE [k EXCEPT !.mess[t] = Message("HARD_INT", 0, 0, 0),
                 !.p_flags[t] = @ \ {"RECEIVING"},
                 !.p_int_blocked[t] = FALSE,
                 !.rdy[TASK_Q] = Append(@, t),
                 !.proc_ptr = IF k.rdy[TASK_Q] = << >> THEN t ELSE @]

\* Mutant: the task preempts the task that runs
interrupt_first(k, t) ==
  IF \/ k.p_flags[t] \cap {"RECEIVING", "SENDING"} # {"RECEIVING"}
     \/ k.p_getfrom[t] \notin {ANY, HARDWARE}
  THEN [k EXCEPT !.p_int_blocked[t] = TRUE]
  ELSE [k EXCEPT !.mess[t] = Message("HARD_INT", 0, 0, 0),
                 !.p_flags[t] = @ \ {"RECEIVING"},
                 !.p_int_blocked[t] = FALSE,
                 !.rdy[TASK_Q] = <<t>> \o @,
                 !.proc_ptr = t]

interrupt(k, t) ==
  IF \/ k.p_flags[t] \cap {"RECEIVING", "SENDING"} # {"RECEIVING"}
     \/ k.p_getfrom[t] \notin {ANY, HARDWARE}
  THEN [k EXCEPT !.p_int_blocked[t] = TRUE]
  ELSE [k EXCEPT !.mess[t] = Message("HARD_INT", 0, 0, 0),
                 !.p_flags[t] = @ \ {"RECEIVING"},
                 !.p_int_blocked[t] = FALSE,
                 !.rdy[TASK_Q] = Append(@, t),
                 !.proc_ptr = IF k.rdy[TASK_Q] = << >> THEN t ELSE @]

-----------------------------------------------------------------------------
(* Messages *)

\* The processes on the chain of senders that starts at d: what d sends to,
\* what that one sends to, ...
SendChain_one(k, d) ==    \* Mutant: only the destination is checked
  IF "SENDING" \in k.p_flags[d] THEN {k.p_sendto[d]} ELSE {}

SendChain(k, d) ==
  LET Receiver(p) == IF "SENDING" \in k.p_flags[p] THEN k.p_sendto[p] ELSE p
      next[i \in Nat] == IF i = 0 THEN d ELSE Receiver(next[i - 1])
  IN IF "SENDING" \notin k.p_flags[d] THEN {}
     ELSE {next[i] : i \in 1..Cardinality(Procs)}

WaitsForMessageOf_any(k, d, c) ==    \* Mutant: only receive(ANY) counts
  /\ k.p_flags[d] \cap {"RECEIVING", "SENDING"} = {"RECEIVING"}
  /\ k.p_getfrom[d] = ANY

WaitsForMessageOf(k, d, c) ==
  /\ k.p_flags[d] \cap {"RECEIVING", "SENDING"} = {"RECEIVING"}
  /\ k.p_getfrom[d] \in {ANY, c}

\* Caller c sends the message in the buffer of process b to d.  b is c except
\* when inform() lends HARDWARE the global m of the system task.
mini_send(k, c, d, b) ==
  IF (isuserp(k, c) /\ d \notin {MM, FS}) \/ isemptyp(k, d)
  THEN [k |-> k, r |-> E_BAD_DEST]
  ELSE IF c \in SendChain(k, d) THEN [k |-> k, r |-> ELOCKED]
  ELSE IF WaitsForMessageOf(k, d, c)
  THEN LET k1 == [k EXCEPT !.mess[d] = [k.mess[b] EXCEPT !.src = c],
                           !.p_flags[d] = @ \ {"RECEIVING"}]
       IN [k |-> IF k1.p_flags[d] = {} THEN ready(k1, d) ELSE k1, r |-> OK]
  ELSE LET k1 == IF k.p_flags[c] = {} THEN unready(k, c) ELSE k
       IN [k |-> [k1 EXCEPT !.p_flags[c] = @ \cup {"SENDING"},
                            !.p_sendto[c] = d,
                            !.p_callerq[d] = Append(@, c)],
           r |-> OK]

\* Tell MM, which waits for any message, about the first process with pending
\* signals.  The message is built in the global m of system.c.
inform(k) ==
  LET pend == {p \in Slots : "PENDING" \in k.p_flags[p]}
      p == Least(pend)
      k1 == [k EXCEPT !.mess[SYSTASK] =
                         [@ EXCEPT !.type = "KSIG", !.i1 = p,
                                   !.map = k.p_pending[p]],
                      !.sig_procs = @ - 1]
      s == mini_send(k1, HARDWARE, MM, SYSTASK)
  IN IF pend = {} THEN k
     ELSE pick_proc([s.k EXCEPT !.panic = @ \/ s.r # OK,
                                !.p_pending[p] = {},
                                !.p_flags[p] = @ \ {"PENDING"}])

TakesInterrupt(k, c, src) ==
  c \in Tasks /\ k.p_int_blocked[c] /\ src \in {ANY, HARDWARE}

MMMustKnow_more(k, c, src) ==    \* Mutant: off by one
  k.sig_procs > 1 /\ c = MM /\ src = ANY

MMMustKnow(k, c, src) == k.sig_procs > 0 /\ c = MM /\ src = ANY

mini_rec(k, c, src) ==
  LET s == k.p_callerq[c]
      queued == {i \in DOMAIN s : src \in {ANY, s[i]}}
      i == Least(queued)
      k1 == [k EXCEPT !.mess[c] = [k.mess[s[i]] EXCEPT !.src = s[i]],
                      !.p_callerq[c] = RemoveIndex(@, i),
                      !.p_flags[s[i]] = @ \ {"SENDING"}]
      k2 == IF k.p_flags[c] = {} THEN unready(k, c) ELSE k
      k3 == [k2 EXCEPT !.p_getfrom[c] = src,
                       !.p_flags[c] = @ \cup {"RECEIVING"}]
  IN IF "SENDING" \notin k.p_flags[c] /\ queued # {}
     THEN IF k1.p_flags[s[i]] = {} THEN ready(k1, s[i]) ELSE k1
     ELSE IF "SENDING" \notin k.p_flags[c] /\ TakesInterrupt(k, c, src)
     THEN [k EXCEPT !.mess[c] = Message("HARD_INT", 0, 0, 0),
                    !.p_int_blocked[c] = FALSE]
     ELSE IF MMMustKnow(k, c, src) THEN inform(k3) ELSE k3

\* sys_call with function BOTH: the receive is not tried when the send fails
send_rec(k, c, d) ==
  LET s == mini_send(k, c, d, c)
  IN IF s.r # OK THEN s ELSE [k |-> mini_rec(s.k, c, d), r |-> OK]

\* sys_call, for the running process.  A user may only do BOTH; tasks and
\* servers are trusted with the rest.
E_NO_PERM == -3

sys_call(k, function, src_dest) ==
  LET c == k.proc_ptr
  IN IF isuserp(k, c) /\ function # "BOTH"
     THEN [k |-> k, r |-> E_NO_PERM]
     ELSE CASE function = "SEND" -> mini_send(k, c, src_dest, c)
            [] function = "RECEIVE" -> [k |-> mini_rec(k, c, src_dest), r |-> OK]
            [] OTHER -> send_rec(k, c, src_dest)
=============================================================================
