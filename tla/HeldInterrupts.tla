--------------------------- MODULE HeldInterrupts ---------------------------
(***************************************************************************)
(* The protection of the process-switching code of kernel/proc.c against   *)
(* interrupts.  sys_call(), interrupt() and the lock_ functions change the *)
(* ready queues with interrupts ENABLED: a handler that comes meanwhile    *)
(* does not switch, it puts its task on the held queue, and unhold()       *)
(* repeats the interrupt at the next restart() that does not compete.      *)
(*                                                                         *)
(* The stack of activations is what the kernel stack is in the code; the   *)
(* entry of a system call, the entry of a handler and restart() are        *)
(* assembly that is not in the repository and are modelled from the        *)
(* comments of interrupt(), unhold() and clock_handler.  in_sys_call and   *)
(* in_interrupt are what an activation does inside these functions: module *)
(* Proc has operators of their names, for the whole of them.               *)
(***************************************************************************)
EXTENDS Integers, Sequences, FiniteSets

CONSTANTS
  IrqTasks,   \* the tasks that are started by interrupts
  NoTask      \* the task field of a system call's activation

ASSUME HeldAssumption == NoTask \notin IrqTasks

VARIABLES
  stack,       \* activations of the kernel, the last one executes
  held,        \* held_head ... held_tail
  p_int_held,  \* task -> it is on the held queue
  switching,   \* a task is inside a lock_ function
  owed         \* history: tasks with an interrupt that nobody has acted on

heldVars == <<stack, held, p_int_held, switching, owed>>

\* sys_call: inside sys_call(); test, deliver: inside interrupt(), before and
\* after its test of k_reenter and switching; flush: inside the interrupt()
\* that unhold() calls; restart: on the way out, interrupts disabled.
Places == {"sys_call", "test", "deliver", "flush", "restart"}
Activations == [task : IrqTasks \cup {NoTask}, at : Places]

k_reenter == Len(stack) - 1
TopOfStack == stack[Len(stack)]
At(place) == stack # << >> /\ TopOfStack.at = place
GoTo(place) == stack' = [stack EXCEPT ![Len(stack)] = [@ EXCEPT !.at = place]]
Return == stack' = SubSeq(stack, 1, Len(stack) - 1)

HeldInit ==
  /\ stack = << >>
  /\ held = << >>
  /\ p_int_held = [t \in IrqTasks |-> FALSE]
  /\ switching = FALSE
  /\ owed = {}
-----------------------------------------------------------------------------
\* The running process makes a system call.
CallKernel ==
  /\ stack = << >> /\ ~switching
  /\ stack' = <<[task |-> NoTask, at |-> "sys_call"]>>
  /\ UNCHANGED <<held, p_int_held, switching, owed>>

in_sys_call ==
  /\ At("sys_call")
  /\ GoTo("restart")
  /\ UNCHANGED <<held, p_int_held, switching, owed>>

\* A task enters and leaves lock_ready, lock_unready, lock_sched, ...
Lock ==
  /\ stack = << >> /\ ~switching
  /\ switching' = TRUE
  /\ UNCHANGED <<stack, held, p_int_held, owed>>

Unlock ==
  /\ stack = << >> /\ switching
  /\ switching' = FALSE
  /\ UNCHANGED <<stack, held, p_int_held, owed>>

\* A line stays masked while its handler runs.
Masked(t) ==
  \E i \in DOMAIN stack :
    stack[i].task = t /\ stack[i].at \in {"test", "deliver"}

Irq(t) ==
  /\ ~At("restart")
  /\ ~Masked(t)
  /\ stack' = Append(stack, [task |-> t, at |-> "test"])
  /\ owed' = owed \cup {t}
  /\ UNCHANGED <<held, p_int_held, switching>>

Competing_nested == k_reenter # 0    \* Mutant: a task that switches is ignored

Competing == k_reenter # 0 \/ switching

HoldAlways(t) ==    \* Mutant: p_int_held is not tested
  /\ held' = Append(held, t)
  /\ p_int_held' = [p_int_held EXCEPT ![t] = TRUE]

\* Between lock() and unlock() of interrupt()
Hold(t) ==
  IF p_int_held[t] THEN UNCHANGED <<held, p_int_held>>
  ELSE /\ held' = Append(held, t)
       /\ p_int_held' = [p_int_held EXCEPT ![t] = TRUE]

in_interrupt ==
  \/ /\ At("test") /\ Competing
     /\ Hold(TopOfStack.task)
     /\ GoTo("restart")
     /\ UNCHANGED <<switching, owed>>
  \/ /\ At("test") /\ ~Competing
     /\ GoTo("deliver")
     /\ owed' = owed \ {TopOfStack.task}
     /\ UNCHANGED <<held, p_int_held, switching>>
  \/ /\ At("deliver") \/ At("flush")
     /\ GoTo("restart")
     /\ UNCHANGED <<held, p_int_held, switching, owed>>

\* Mutants: the whole queue is dropped with its head; p_int_held is not reset
TakeHeld_all ==
  /\ held' = << >>
  /\ p_int_held' = [t \in IrqTasks |-> FALSE]

TakeHeld_flagged == held' = Tail(held) /\ UNCHANGED p_int_held

TakeHeld ==
  /\ held' = Tail(held)
  /\ p_int_held' = [p_int_held EXCEPT ![Head(held)] = FALSE]

\* One round of unhold: interrupts are enabled again once the head is off
\* the queue.
unhold ==
  /\ At("restart") /\ k_reenter = 0 /\ ~switching
  /\ held # << >>
  /\ TakeHeld
  /\ owed' = owed \ {Head(held)}
  /\ stack' = [stack EXCEPT ![Len(stack)] = [task |-> Head(held),
                                             at |-> "flush"]]
  /\ UNCHANGED switching

restart ==
  /\ At("restart")
  /\ k_reenter = 0 => switching \/ held = << >>
  /\ Return
  /\ UNCHANGED <<held, p_int_held, switching, owed>>

Step == in_sys_call \/ in_interrupt \/ unhold \/ restart

HeldNext ==
  \/ CallKernel \/ Lock \/ Unlock
  \/ \E t \in IrqTasks : Irq(t)
  \/ Step

HeldSpec == HeldInit /\ [][HeldNext]_heldVars

\* An activation runs on whenever those above it have returned, however often
\* it is interrupted, and programs enter the kernel again and again outside
\* the lock_ functions (at the latest by the clock's interrupt).
CleanEntry ==
  /\ stack = << >> /\ ~switching
  /\ CallKernel \/ \E t \in IrqTasks : Irq(t)
StepAt(n) == Len(stack) = n /\ Step

\* A system call and one handler per task: no deeper nesting
Depth == Cardinality(IrqTasks) + 1

HeldFairSpec ==
  /\ HeldSpec
  /\ \A n \in 1..Depth : SF_heldVars(StepAt(n))
  /\ SF_heldVars(CleanEntry)
  /\ SF_heldVars(Unlock)
-----------------------------------------------------------------------------
HeldTypeOK ==
  /\ stack \in Seq(Activations)
  /\ held \in Seq(IrqTasks)
  /\ p_int_held \in [IrqTasks -> BOOLEAN]
  /\ switching \in BOOLEAN
  /\ owed \subseteq IrqTasks

InSwitch(i) == stack[i].at \in {"sys_call", "deliver", "flush"}

\* interrupt()'s test of k_reenter and switching is the only protection of
\* the ready queues: at most one activation, or task in a lock_ function, is
\* inside process-switching code, at every nesting of handlers.
OneSwitcher ==
  /\ \A i, j \in DOMAIN stack : InSwitch(i) /\ InSwitch(j) => i = j
  /\ switching => \A i \in DOMAIN stack : ~InSwitch(i)

\* interrupt() links a task to the queue only when p_int_held says it is not
\* there, and unhold() resets it with interrupts disabled: the two agree, and
\* the queue is never linked into a circle.
HeldOnce ==
  /\ \A t \in IrqTasks : p_int_held[t] <=> \E i \in DOMAIN held : held[i] = t
  /\ \A i, j \in DOMAIN held : held[i] = held[j] => i = j

\* An interrupt nobody has acted on yet is on the held queue, or its handler
\* is about to decide.
NoneLost ==
  \A t \in owed :
    \/ \E i \in DOMAIN held : held[i] = t
    \/ [task |-> t, at |-> "test"] \in {stack[i] : i \in DOMAIN stack}

\* Held interrupts are repeated: none stays on the queue for ever.
AllActedOn == \A t \in IrqTasks : t \in owed ~> t \notin owed
=============================================================================
