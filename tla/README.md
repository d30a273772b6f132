# A verification of the SOI exercises

The repository holds six independent programs: changes to the kernel and the
memory manager of Minix 2 (exercises 1, 2 and 5), two producer/consumer
programs (3 with processes and semaphores, 4 with threads and monitors) and a
file system in a file (6).  This directory models them in TLA+, checks small
instances with TLC and proves what TLAPS can prove for every instance.

    tlc -config MCIpc.cfg MCIpc.tla            one run (the list is below)
    tlapm MonitorBufferProofs.tla              the proofs of one component

Paths in this text are relative to the root of the repository; `kernel/` and
`mm/` abbreviate `exercise-N/minix_usr/src/kernel/` and `.../mm/`.  Only the
files a program changed are in the repository: the rest of Minix (assembly,
`mm/forkexit.c`, `mm/signal.c`, FS, drivers) is seen through how the code here
uses it, and such definitions are marked external in `PROJECT.json`.


## 1. Inventory

### Message passing and scheduling (exercise 2, kernel/proc.c, proc.h)
* *State.* The process table (`p_flags`, `p_getfrom`, `p_sendto`, the caller
  queues `p_callerq`/`p_sendlink`, `p_int_blocked`, `p_priority`, the exercise's
  `user_priority` and `time_counter`), three ready queues, `proc_ptr`,
  `bill_ptr`.
* *Operations.* `sys_call` (SEND, RECEIVE, BOTH), `mini_send`, `mini_rec`,
  `interrupt`, `ready`, `unready`, `pick_proc`, `sched`, and their `lock_`
  versions.
* *Interactions.* Every other component of the kernel calls these; interrupts
  enter through `interrupt`.
* *Hard.* Messages, interrupts and signals meet a process in any of its states;
  who must notice what is decided by the order in which they come.
* *Correct when* the queues agree with the flags, nobody is blocked in a circle,
  no message and no interrupt is forgotten, a receive ends only with the source
  it asked for, and the turns of a process follow its priority.

### Held interrupts (exercise 2, kernel/proc.c)
* *State.* `held_head`, `held_tail`, `p_int_held`, `switching`, `k_reenter` and
  the kernel stack.
* *Operations.* The first half of `interrupt`, `unhold`, the `lock_` functions.
* *Hard.* Process switching runs with interrupts enabled; handlers nest.
* *Correct when* two switching functions never run at the same time and no
  interrupt is lost or repeated.

### System task (exercise 2, kernel/system.c)
* *State.* Shares the process table; `p_pending`, `p_pendcount`, `sig_procs`,
  `p_pid`, and the global message `m`.
* *Operations.* `do_fork`, `do_newmap`, `do_exec`, `do_xit`, `do_kill`,
  `do_endsig`, `do_trace`, the exercise's `do_getpri` and `do_setpri`,
  `cause_sig`, `inform`, and requests that only copy data.
* *Interactions.* MM and FS send requests; `inform` sends to MM in the name of
  HARDWARE, also from within `mini_rec`.
* *Hard.* A process dies while it waits anywhere; `inform` overwrites a request;
  slots and pids are used again.
* *Correct when* the account of signals is exact, MM hears of every signal, a
  signalled process is held until MM is done with it and no longer, and the dead
  are on no queue.

### Clock task (exercise 2, kernel/clock.c)
* *State.* `realtime`, `pending_ticks`, `next_alarm`, `p_alarm`, `watch_dog`,
  `syn_table`, `syn_al_alive`, `sched_ticks`, `prev_ptr`.
* *Operations.* `clock_handler` (interrupt), `do_clocktick`, `do_setalarm`,
  `do_setsyn_alrm`, `cause_alarm`, the task `syn_alrm_task`, the time of day.
* *Interactions.* `cause_sig` for the alarms of users, a message to
  `syn_alrm_task` and from there to a server for synchronous ones, `sched` at
  the end of a quantum.
* *Hard.* The handler runs between any two statements of the task: both count
  `sched_ticks` down, and `realtime` lags behind.  `cause_alarm` writes
  `syn_table` while the other task scans it.
* *Correct when* no alarm is early, forgotten or undelivered, and every
  computing process comes to run.

### Memory manager main loop (exercises 1, 2, mm/main.c)
* *State.* `mproc[]`; the message being handled.
* *Operations.* `get_work`, the call, `swap_in`, the replies; `do_getpri`,
  `do_setpri`.
* *Correct when* everybody gets a reply, once.

### Process tree queries (exercise 1, mm/main.c)
* *State.* The table `mproc`: slots in use, parents, pids; the stack and the set
  `visited` of a search.
* *Operations.* `who_most_children`, `who_most_descendants`.
* *Hard.* The table holds what a long history of forks, exits and waits left in
  it: zombies, dead slots that keep their parent, slots and pids used again.
* *Correct when* the answer is that of the tree of processes, and there is one.

### Semaphore buffers (exercise 3)
* *State.* Per buffer, in shared memory: semaphores `empty`, `mutex`, `full`, and
  `in`, `out`, `body`.  Seven processes, forked one after the other.
* *Hard.* Every access to the shared memory may interleave; a fork may fail when
  others run already.
* *Correct when* each buffer is a bounded first-in first-out queue and nobody
  waits for ever.

### Monitor buffers (exercise 4)
* *State.* Per buffer: the monitor's semaphore `s`, per condition a semaphore `w`
  and `waitingCount`, and `counter`, `in`, `out`, `body`.  Seven threads.
* *Hard.* `signal` hands the monitor over to the waiter; `wait` leaves the
  monitor *before* it sleeps; conditions are tested with `if`.
* *Correct when* it implements the same abstract queue.

### Memory allocator and swapping (exercise 5, mm/alloc.c)
* *State.* The list of holes (a table of `2 * NR_PROCS`), `current_algorithm`,
  the queue `in_queue`, `outswap`, `swap_base`, memory maps and flags in `mproc`.
* *Operations.* `alloc_mem` (first or worst fit), `free_mem`, `merge`,
  `del_slot`, `swap_on`, `swap_off`, `swap_in`, `swap_inqueue`, `swap_out`,
  `do_worst_fit`, `do_hole_map`, `mem_init`.
* *Hard.* Long sequences of legal calls; memory full; processes die while they
  are swapped out or queued to come in; the swap area lives in the same list.
* *Correct when* every click of memory belongs to one hole or one process,
  processes run in memory only, and answers reach those swapped out.

### Virtual file system (exercise 6, main.cpp)
* *State.* A binary file: superblock, inodes, blocks with links to their
  successors; a copy of it in each command.
* *Operations.* One per command: create, delete, copy to, copy from, remove, show.
* *Hard.* Links and free space are computed from the contents; each command is a
  sequence of writes, may be killed between two of them, and nothing locks the
  file.
* *Correct when* a file that was copied in is copied out unchanged until it is
  removed, and no block is lost.


## 2. Plan

Order: what many things depend on first.

| step | modules | state |
|---|---|---|
| 1 | `Proc`, `System`: the kernel's functions as operators | done |
| 2 | `Ipc`: these under arbitrary programs; `ProcProofs` | done, proved |
| 3 | `Kernel`, `KernelProps`: composed with the clock, MM, FS, a driver, users; `KernelLemmas`, `KernelProofs` | done, proved |
| 4 | `HeldInterrupts`; also in `ProcProofs` | done, proved |
| 5 | `BoundedFifo` (abstract), `SemBuffer`, `MonitorBuffer` (refine it), `SemBufferProofs`, `MonitorBufferProofs` | done, proved |
| 6 | `Holes`, `Alloc`; `AllocProofs` | done, proved |
| 7 | `Vfs`: commands as sequences of writes, killed and overlapping; `VfsProofs` | done, proved |
| 8 | `ProcTree`: the queries of exercise 1 over fork, exit, wait and reuse of slots; `ProcTreeProofs` | done, proved |
| 9 | `Clock`: handler and tasks interleaved statement by statement, synchronous alarms | done |

Theorems worth proving, in this order: `HeldInterrupts` (done); the safety of
both buffers for any number of processes, buffers and any size, and that both
implement `BoundedFifo` (done); all safety properties of `Ipc` (done); the
answers of `ProcTree` and the room on its stack (done); that the operators of
`Holes` keep a list tidy, and from it the safety of `Alloc` (done); that stored
files survive and no block is lost in `Vfs` (done); the five safety properties of
`Kernel` (done); `AlarmsInTime` of `Clock` (open).  The modules are written with
this in view: recursion is done with recursive functions, constants carry named
assumptions and there is one action per operation.


## 3. The modules and the code

A function of the C code that changes several fields is an operator from the
old to the new data with the function's name (`mini_send(k, ...)`), the data
being one record `k` (kernel) or `mm` (memory manager).  What the code leaves
implicit by calling one function from another is then a composition of
operators, and one TLA+ step is a whole system call, handler or call of MM.
Definitions whose comment says "Mutant" are not part of the specifications:
each is a plausible slip in the definition after it that a property must
notice.

| module | models | notes |
|---|---|---|
| `Proc` | kernel/proc.c | `p_flags` is a set of flags; the caller queue, a linked list through `p_sendlink` in the code, is a sequence; a message is a record with a type, a source and up to three numbers |
| `System` | kernel/system.c | `sys_task` dispatches on the request; copying, registers, maps and accounting are dropped |
| `Ipc` | both, under arbitrary programs | the running process makes any system call, a task causes or finishes any signal, an interrupt comes at any time |
| `Kernel` | mm/main.c and, with time abstracted, kernel/clock.c, around `Proc` and `System` | see below |
| `Clock` | kernel/clock.c between messages of `Proc` | see below |
| `KernelProps` | | the properties of `Kernel` |
| `HeldInterrupts` | interrupt(), unhold(), lock_... of kernel/proc.c | the stack of activations stands for the kernel stack; here a function is several steps, because the point is what happens between them; `in_sys_call` and `in_interrupt` are sys_call() and interrupt() |
| `SemBuffer` | exercise-3/main.cpp, monitor.h | one step per access to shared memory |
| `MonitorBuffer` | exercise-4/main.cpp, monitor.h | one step per semaphore operation or group of fields between two of them |
| `SemBufferProofs`, `MonitorBufferProofs`, `ProcTreeProofs`, `AllocProofs`, `VfsProofs`, `KernelProofs` | | theorems about the module of that name, with proofs |
| `ProcProofs` | | theorems about the two modules on kernel/proc.c alone, `Ipc` and `HeldInterrupts` |
| `KernelLemmas` | | the invariant of `Kernel`, and lemmas about it that `KernelProofs` uses |
| `BoundedFifo` | what exercises 3 and 4 promise | abstract specification |
| `Holes` | the list of exercise-5 mm/alloc.c | a sequence of holes; the pointers, free slots and `prev_ptr` of the C code are the positions in it |
| `Alloc` | the rest of alloc.c, in the main loop of MM | a step is one round of the loop: call, `swap_in`, replies |
| `Vfs` | exercise-6/main.cpp | one step per write to the disc, see below |
| `ProcTree` | the queries of exercise-1 mm/main.c | one step per round of a loop; fork, exit and wait only between queries, since MM serves one call at a time |
| `MC...` | | values of the constants for TLC |

### Kernel
Every process of the system is a main loop with a program counter `pc`; only
the running process, `k.proc_ptr`, moves.  The system task and the clock task
receive, handle and reply as in the code.  For a server, `plan` is what it will
do for the call it handles: a sequence of calls of other processes and replies,
decided when the call is received and carried out one by one, so that
everything else can happen in between.  The plans stand for MM's and FS's own
code, which is not in the repository, except those of `do_getpri` and
`do_setpri` and the replies of the main loop.  User programs make any call of
their workload.  FS knows the processes it was told have ended (`closed`): a call
of theirs that was queued finds no open file and fails without going to the disk,
so that its answer cannot be late enough to meet a new process in the slot.

Real time is abstracted: whether an alarm is due when the clock ticks is a
choice.  `sched_ticks` is counted exactly.

*Workloads.*  All calls of all users at once make more states than TLC can look
at, and most of them are of no interest.  The constant `Workloads` is a set of
records (calls, pids, priorities, ticks); the initial state chooses one, in the
variable `load` that never changes.  One run then explores all of them.

### Clock
The clock task and `syn_alrm_task` are taken statement by statement, as far as
the handler can tell, which comes at any point.  The servers are reduced to what
sets alarms and forks; the effect of the system task is that of the operators of
`System`, at once.  Times are kept relative to `realtime`, so that there are
finitely many, and `pending_ticks` saturates at the longest alarm.  The history
variable `left` counts the ticks an alarm still has to wait for.  It starts when
the clock task takes the request up: ticks between the transfer of
`pending_ticks` and `common_setalarm` are not in `realtime` and make the alarm
that much shorter than counted from `common_setalarm`.

### Vfs
A command loads inodes, then blocks, decides on its copy, and writes.  It may be
killed between two writes, and other commands run in between; CREATE and DELETE
run alone.  An offset in the file is the index of the block there; offset 0 is
`NIL`.  Undefined behaviour: a COPYTO that runs out of blocks goes on at offset
0.  It writes its block over the superblock, or has it in the buffer of the
stream, and crashes at an index far outside of its vector of blocks; both
outcomes are modelled.  The history variable `stored` says what was copied in
by commands that ran alone, `exposed` which of these may have been hit by a
command that writes where it should not.

### ProcTree
`query` holds the local variables of the search.  Fork takes the lowest free
slot, exit gives the children to INIT and leaves a zombie, wait frees the slot
and changes neither pid nor parent in it, as in the parts of MM that are not in
the repository.

### Alloc
The contents of memory and of the swap file are abstract.  Fork, exit, blocking
and answering calls are what MM's other files do with alloc.c.  Undefined
behaviour: with an empty hole list, worst fit reads the length of a nil hole,
and `swap_off` follows the link of a nil hole after it has deleted the only
one.  Such a step sets `mm.wild` and the behaviour ends there.


## 4. The runs

All runs finish; those marked "violation" show a place where the program does
not do what its documents say, see section 5.

### ipc (`MCIpc.cfg`)
One task, MM, FS and one user, each making any call: the smallest set that has
every class of process, three levels of queues and rings of senders of length
two to four.  One signal, counters up to 3.  A `VIEW` drops fields that are not
read again, such as `p_getfrom` of a process that is not receiving.
* `TypeOK`.
* `QueuesAgree`: ready queues and caller queues agree with the flags, and
  `proc_ptr`, set in five places of proc.c, is always what `pick_proc` chooses.
* `NoWaitCycle`: the ELOCKED test of `mini_send` looks at a chain of senders, yet
  no ring of blocked senders is ever closed, whoever closes it.
* `NothingMissed`: `mini_rec` skips the caller queue of a process that is still
  SENDING, yet nobody waits for a message that is queued on it
  (`NoMissedMessage`), nor for an interrupt that is remembered
  (`InterruptNotLost`); `sig_procs` is exact, MM never sleeps while a signal is
  unreported, and `inform`, which sends in the name of a process that cannot
  wait, never has to (`MMIsTold`).
* `OnlyAskedSource`: a receive ends only with a message from the source asked
  for (action property).

A reply that cannot be sent is not excluded here: programs are arbitrary.

### kernel (`Kernel.cfg`)
Two user slots beside INIT's, one task of each kind, and nine workloads: alarms
of processes that fork and exit; alarms of processes that are traced; forks, reads,
broken pipes and exits; alarms against reads and writes of one process; kills and
exec, with slots and two pids used again while others live; the same with kills of
processes that read or wait for FS to get to their call; exec under a tracer;
priorities set, valid and invalid, while the quantum ends; priorities asked for.
* `RepliesArrive`: neither "can't inform MM" nor "MM can't reply to" is reached, and
  nobody holds up a server by not waiting for its reply, whoever is killed while
  the reply is on its way and whatever becomes of the slot.
* `SignalsAccounted`: `sig_procs` is exact; `p_pendcount` counts each signal from
  `cause_sig` until `do_endsig` - in `p_pending`, in the message to MM, in MM's
  plan or in the request under way; MM never sleeps on an unreported one.
* `RequestIntact`: `inform` builds its message in the global `m`, yet a request
  the system task gets to is the one its sender waits for.
* `QueuesAgree`: ready queues and caller queues agree with the flags, and the
  dead are on none.
* `PidFindsLiveProcess`: dead slots keep their pid, and `do_getpri` and
  `do_setpri` do not test whether a slot is in use, but a live process is the
  first that is found, since MM takes the lowest free slot and a pid that is
  free.

### kernel_liveness (`KernelLiveness.cfg`)
One user slot beside INIT's; forks, alarms and pauses.
`SignalsFinish`: a signalled process is released or dies.  `CallsEnd`: every call
but PAUSE ends.  *Fairness*: the running task makes progress because nothing
displaces a task (weak); a server makes progress if it runs again and again
(strong); the disk answers.  Nothing is assumed of user programs.  Both
properties assume `TasksCatchUp`: again and again all tasks are blocked.  A timer
that ticks faster than the clock task works would starve everything, and the
timer's period is thousands of times longer than that.

### clock (`Clock.cfg`)
A quantum of two ticks and six workloads: alarms of a user, of two ticks or
cancelled; synchronous alarms of FS, likewise; both together; alarms that fork
inherits; children that set an alarm and exit; three processes that compute, as
`exercise-2/minix_usr/tests/infinityloop.c`.
* `AlarmsInTime`: no alarm is due before its ticks have passed, `next_alarm` is
  never later than an alarm in the table, and no free slot has one.
* `AlarmsGoOff`: every alarm goes off, is cancelled or is set anew.
* `SynAlarmsArrive`: whatever is put in `syn_table` becomes a message to the
  server, assuming `TasksCatchUp`.
* `EveryoneRuns`: each process that computes comes to run, if from some time on
  no tick comes while a task works, the servers have time to spare and nobody
  blocks.  These premises say what "computing" means: a process that makes calls
  joins the FRONT of the ready queue each time it is answered and keeps computing
  ones waiting, and `sched`, called while it is at the head, moves it instead of
  them.  Without `Slow` the competition for `sched_ticks` can call `sched` at the
  same point of every turn.

*Fairness*: as above, and the timer keeps ticking.  The temporal formulas spell
it out in `Runs`.

### held (`HeldInterrupts.cfg`)
Three tasks with interrupts: a queue with head, middle and tail, and four nested
activations.  `OneSwitcher`, `HeldOnce`, `NoneLost`, and the liveness property
`AllActedOn`: no interrupt stays held for ever.  *Fairness*: each depth of the
stack goes on whenever it is on top again and again (`StepAt`), a task leaves its
`lock_` function, and the kernel is entered from outside again and again
(`CleanEntry`; the clock sees to that).

### sem_buffer (`SemBuffer.cfg`)
Two buffers of size 2: one with a producer of its own, which the entrepreneur
also fills, and one that only the entrepreneur fills - the two kinds main has
(its first and last, and its middle buffers).  Two different products for the
first buffer tell orders apart; one is enough for the second, which has a single
producer.  `MutualExclusion`.  `Refinement`: seen through `queue`, every step puts
into a queue with room, takes the oldest or changes nothing.
`NobodyStuck`: every product is read (`ProductsAreRead`) and every producer
produces again and again (`EverybodyProduces`).  A fork may fail at any point; the system
may then stop, so deadlock is not checked.
*Fairness* (`PatientSpec`): strong fairness of each process.  `sem_wait` alone
does not promise it, but each process sleeps for a second after each product,
during which the others find the semaphore free.

### monitor_buffer (`MonitorBuffer.cfg`)
The same instance with threads; deadlock is checked and there is none.
`OneBaton`: the right to be in the monitor is in `s`, or in one wake-up, or with
one thread inside.  `ConditionStillHolds`: what a thread waited for is true when
it goes on, without a second test.  `WaitersServed`: `waitingCount` and the
wake-ups under way are the threads that wait, and none sleeps in vain.
`Refinement` and `EverybodyProduces` as above, with the same fairness.

### alloc (`Alloc.cfg`)
Two chunks of memory of 2 and 3 clicks, a swap area of 3, three process slots,
processes of 1 to 3 clicks: memory runs full, holes are split and merged on both
sides, at each end and between chunks, a process may fit only after one or two
others have been swapped out, or not at all.  The hole table has its real size,
`2 * NR_PROCS`.  The buffer of `hole_map` has 5 words, less than the list may
need.  Worst fit and swapping are not in force together (`ApartSpec`), because of
the finding below.
* `HolesTidy`: sorted, separate, merged, nothing empty.
* `MemorySharedOut`: every click of memory belongs to exactly one hole or process.
* `SwapSeparate`: a process lies in the swap area exactly while it is ONSWAP.
* `AnswersComeIn`: who has an answer to come is in memory or queued for it, once,
  although killed processes stay queued until `swap_in` finds them.
* `NoOverrun`: "Hole table full" is not reached, and `hole_map` stays within the
  buffer.
* `WorstFitIsWorst`: worst fit takes the largest hole of the memory.

MM may be left with nothing to do when everybody is blocked and nothing answers,
and a followed nil pointer ends a behaviour: deadlock is not checked.

### vfs (`Vfs.cfg`)
A disc of three inodes and four blocks; files of three blocks, two and none; two
commands at a time.  The first two do not both fit, and the check of the space lets
the first in beside the second all the same; blocks are used again by files of
other lengths.  Until the disc is deleted one event goes wrong: a
command is killed, or one starts while another runs.
* `FilesSurvive`: a stored file reads back, whatever other commands did, unless
  an RM has followed a stray link or a COPYTO has run out of blocks.
* `NothingLeaks`: after commands that ran one after the other, also removals that
  damaged other files, each block in use is on the chain of an inode.
* `RemoveEnds`: the loop of `deleteFile` ends, also on chains that lead into each
  other.  *Fairness*: a command that runs goes on.

### tree (`ProcTree.cfg`)
Seven slots: MM, FS, INIT and four for processes; four pids; pid 2, INIT's pid or
none left out.  All histories of forks, exits and waits: every tree of up to four
processes below INIT, with zombies anywhere and dead slots that keep any parent.
* `AnswerIsRight`: the process and number found are those of a definition of
  "descendant" that does not search: what is in every set that contains the
  process and is closed under children.  Of equals it is the first slot.
* `InitHasAll`: unless it is left out, INIT is found, with all the others but MM
  and FS: nobody is cut off from INIT.
* `QueryEnds`.  *Fairness*: MM goes on.

MM may always get another query, so that deadlock is checked.

### vfs_remove (`VfsRemove.cfg`), violation of `FilesReadBack`
### worst_swap (`AllocWorstSwap.cfg`), violation of `SwapSeparate`

### Bounds
| bound | where | why it is enough |
|---|---|---|
| `CounterBound` | `time_counter` | above the highest priority, so that the counter can pass it before it is capped |
| `p_pendcount < 2 * |SIGS|` | `Ipc` | each signal once reported and once pending again |
| `ForkLow`, `ForkHigh`, `DefaultPriority`, `MaxPriority` | priorities | 1, 2, 1, 3 for the code's 10, 50, 15, 100: a low and a high one that fork alternates, a valid default, a largest one; only comparisons depend on them |
| `SCHED_RATE` | ticks per quantum | 2 in `Clock`, where the count is raced for, else 1 |
| `NR_PROCS`, pids | process table | see each run; two slots beside INIT's let one be used again while the other lives |
| delays | alarms | 1 and 2 ticks: one before the next tick and one that outlives a scan; 0 cancels |
| `MaxMess` | kills and overlaps in `Vfs` | 1: what a second one would meet is a disc damaged in a way the first makes, and `exposed` says which files count.  The proofs are for any number of them |
| `Blocks`, `INodes` | disc | 4 and 3: a chain with a first, middle and last block, and files that compete for each |
| `Depth` | nesting in `HeldInterrupts` | not a restriction: a line is masked while its handler runs |


## 5. Findings

* **Removing any file clears block 0** (`vfs_remove`).  `README.md:32-34` promises
  to copy files to the system, to copy them back and to delete a file.
  `copyFileToSystem` (main.cpp:328-329) takes 0, not -1, as the index of the block
  after the last one, and links the last block to block 0.  `deleteFile` follows
  the link and clears the chain there: the file that begins in block 0 is gone,
  although its inode is still listed.  In `test_upload.sh` the order of removals
  happens to spare it.
* **Worst fit puts a process into the swap area** (`worst_swap`).
  `alloc.c:319-320`: "The swap area is represented as a hole above and separate of
  regular memory."  The search for the biggest hole begins with `hole_head`
  without the test `h_base < swap_base` the other holes get.  When memory is full,
  that is the swap area: the new process is given addresses without memory.  If
  `swapoff` and `swapon` follow, the area is handed out twice.

Seen while modelling, and not stated as a property:

* Worst fit and `swap_off` follow a nil pointer (section 3).
* `do_hole_map` stores the zero that ends the list in its own buffer and copies
  only what is in front of it, while `exercise-5/minix_usr/tests/t.c:25` reads
  `while( *p )`.
* `sched` ends a turn when `time_counter` *equals* `user_priority`, and `do_setpri`
  changes the priority and leaves the counter: a process that is lowered below
  its counter computes on until the counter has gone round.
* `do_setpri` (mm/main.c) and `swap_on` return nothing where a result is used.
* With two synchronous alarms due in one scan, the second `send` of `cause_alarm`
  blocks the clock task, which clock.c:39-41 rules out.
* The comment in `clock_handler` calls an extra `sched` harmless; one in every
  quantum, which takes a timer faster than the clock task, would pass over the
  same process each time.
* The check of the space (main.cpp:297) counts `sizeof(DataBlock)` bytes per
  block instead of `BLOCK_SIZE`: a file that nearly fills the disc is let in,
  and the program crashes half way, perhaps with the superblock overwritten.
* A block is free when its data is zero: zeros in files cost no block, and they
  are handed out again while the file still links to them.  (`VfsAssumption`
  leaves such contents out.)
* The inode of a COPYTO that was killed stays, and its blocks are given to
  others; so is the first block of an empty file.  Removing either clears what
  others have put there.


## 6. What is proved

### Held interrupts
`ProcProofs` proves for every set of interrupting tasks, every length
of the held queue and every nesting of handlers:

* `HeldTypeCorrect`: `HeldSpec => []HeldTypeOK`;
* `OneSwitcherAlways`: two process-switching functions never run together;
* `HeldOnceAlways`: the held queue holds a task exactly while `p_int_held` says so,
  once;
* `NoneLostAlways`: an interrupt not acted on is held, or its handler is about to
  decide.

The only assumption is `HeldAssumption`: the value in the task field of a system
call is no task.

*The argument.*  `OneSwitcher` is not inductive: it does not say why a handler
that finds `k_reenter = 0` may switch.  `SwitchAtBottom` does: whatever switches
is the outermost activation, and it began when no task was in a `lock_`
function.  A handler on top of another activation has `k_reenter # 0` and only
holds its interrupt; one that finds itself outermost with `switching` clear is
alone, since all that is below it would be the outermost one.  A `lock_` function
begins with an empty stack.  `HandlersHaveTasks` says that what is put on the
held queue is a task, which `HeldTypeOK` needs.  `HeldOnce` and `NoneLost` go along,
since `unhold` needs `HeldOnce` to take a task off the queue without losing
another entry of it.

    HeldInv == HeldTypeOK /\ HandlersHaveTasks /\ SwitchAtBottom /\ HeldOnce /\ NoneLost

Lemmas say what the stack and the queue look like after each way to change them
(`GoToEffect`, `PushEffect`, `ReturnEffect`, `HoldEffect`, `TakeHeldEffect`), then
there is one lemma per action, and `Inductive` puts them together.

### Semaphore buffers
`SemBufferProofs` proves for every set of producers and consumers, every set of
buffers, all routes of the producers and every size, zero included, and whatever
number of forks succeed:

* `TypeCorrect`: `Spec => []TypeOK`; no semaphore goes below zero;
* `MutualExclusionAlways`: at most one process is in the critical section of a
  buffer;
* `Implements`: `Spec => Refinement`.  Each step writes into a queue that has
  room, reads the oldest product, or leaves all queues alone.

`SemBufferAssumption` is what `main` has: the size is not negative, no process is
producer and consumer at once, every producer has a buffer to go to.  Nothing
says that the sets of processes are finite; that only finitely many are ever
under way at one buffer is part of what is proved.

*The argument.*  `Exclusion` says where the one permission of `mutex` is: in the
semaphore, or with the one process between `P` and `V`.  `Accounted` does the same
for the places of a buffer.  A place is free (in `empty`), claimed by a producer
that has not written yet (`Filling`), full - posted or not, claimed by a consumer
or not (`Stored`) - or read and not yet given back (`Freeing`); a step moves at
most one place on to the next account, and together they are always `Size`.  From this
follows that who is about to write finds a free place and who is about to read
finds a product (`StoredBounds`).  `RingInv` places them: `in` is `Written` places
after the oldest product.  It needs `Exclusion`, since between a write and
`in = ...`, and between a read and `out = ...`, the indices lag behind by one, and
only one process may be there.  In the refinement the queue changes when the
element of `body` is written or read, and nowhere else.

### Monitor buffers
`MonitorBufferProofs` proves for every set of threads, every set of buffers, all
routes and every positive size:

* `TypeCorrect`: `Spec => []TypeOK`;
* `OneBatonAlways`, `ConditionStillHoldsAlways`, `WaitersServedAlways`: the three
  invariants of the run;
* `Implements`: `Spec => Refinement`.

`MonitorBufferAssumption` differs from that of exercise 3 in the size: with size
zero, `counter == size` would hold at once and `% size` is undefined.

*The argument* has five layers, each on those before it.  `Exclusion`: `s` and both
`w` of a buffer together hold one permission exactly when nobody is inside;
`signal` passes it from the signaller into `w`, never into `s` as well.
`Counted`: waiters who have been counted and are not yet awake are as many as
`waitingCount` and the wake-ups under way say; `wait` counts before it leaves the
monitor, so that this holds in between.  `Conditional`: `counter` stays in its
range, and what a thread inside has tested, or a wake-up promises, is true; nobody
else is inside to change it.  `SleepersJustified` is needed because
`NoneSleepsInVain` is not inductive.  It would allow a sleeping producer with two
free places and one consumer about to signal; that signal wakes one sleeper and
the next one sleeps in vain.  A sleeper may only find a level of zero, or of *one*
that is announced: somebody inside is about to use it up or to signal it, or a
wake-up is under way.  `RingInv`: `in` is `counter` places after `out`.  In the
refinement a product enters the queue when `in` and `counter` advance, since
`counter` is the length, and leaves it when it is read; `HasRead` bridges the gap
until `counter` follows.

Both proofs begin with the same lemmas on indices modulo a size: a stretch of
`n <= size` places of a ring reads as a sequence of length `n` (`RingIsSequence`);
writing behind it appends (`RingPut`), taking the first is `Tail` (`RingGet`), and a
write elsewhere keeps it (`RingKeeps`).

### Message passing and scheduling
`ProcProofs` proves for every set of tasks, servers and users that contains MM,
every size of the process table and every set of signals, of programs that make
any system call they may make, with interrupts and signals at any time:

* `TypeCorrect`: `Spec => []TypeOK`;
* `QueuesAgreeAlways`: the ready queues, the caller queues and `proc_ptr` are what
  the flags say;
* `NoWaitCycleAlways`: no circle of blocked senders, of whatever length;
* `NothingMissedAlways`: no message, interrupt or signal waits for a process that
  waits for it, and `inform` never panics;
* `OnlyAskedSourceAlways`: a receive ends only with the source asked for.

Assumptions: `ProcAssumption` (at least MM, FS and INIT have slots; process
numbers stay below `ANY`, "a magic, invalid process number" in com.h),
`SystemAssumption` (the priorities lie in their range) and `IpcAssumption` (MM is one of
the programs, and programs are tasks or have slots).  The set of signals may be
infinite: that `p_pending` is a finite set is part of the invariant.

*The invariant* is

    Safe(k) == Fine(k) /\ Lists(k.rdy, Runnable(k)) /\ MMHears(k) /\ Highest(k)

`Fine` are types, fixed priorities, no panic, and `Agree`, which relates the
fields of the process table to each other; `Lists` says who is on the ready
queues, `Highest` who runs, `MMHears` that MM does not sleep on a signal.  What
the properties of the run do not say and the proof needs:

* `SendsToPrograms`: a process that is SENDING sends to a program, not to
  itself, and if it waits for the reply as well, then for one of that program.
  Without it a chain of senders could leave the programs, and the receive half
  of a BOTH could be ended by somebody else's message.
* `SignalsFit`: `p_pendcount` is at least the number of pending signals, and
  the flags say which counts are above zero; otherwise `do_endsig` could let a
  process go while a signal is still to be told.
* `NoneMissed` and `IntKept` only speak of processes that are RECEIVING *and not*
  SENDING.  When `mini_rec` takes the message of a sender that has announced its
  receive as well, that receive begins.  By `SendsToPrograms` it waits for the
  process that has just taken the message; that one runs, so it is on no caller
  queue, and nothing is missed.

*The argument.*  A step is a composition of operators, and between them the
invariant does not hold: after `mini_rec` has put MM to sleep and before it has
called `inform`, MM sleeps on a signal.  There are therefore three levels.  Lemmas on
fields (`SendBegins`, `SendEnds`, `ReceiveBegins`, `ReceiveEnds`, `SignalTold` and
their like) say that one change of the flags keeps `Agree`.  Lemmas on the scheduler
(`ReadyLists`, `UnreadyLists`, `ReadyTop`, `WakeKeeps`, `HaltKeeps`) say what
`ready` and `unready` do to the lists and to `proc_ptr`.  On top of these, each
operator of proc.c and system.c that a handler is made of (`Deliver`, `Block`,
`Wait`, `inform`) keeps `Sound`, the part without `MMHears` and `Highest`, and
each handler keeps all of `Safe`.

`NoCycle` is kept by `NoCycleCloses`, which rests on the lemmas about chains in
front.  The code follows `p_sendto` until it meets the caller or a process
that is not SENDING; the model takes as many links as there are processes.  A
circle that the new edge would close goes through the caller.  If the chain from
the destination does not come to the caller within that many links, it stays
among senders that were blocked before, and `ChainComesBack` shows by the
pigeonhole principle that it meets one of them twice: there would have been a
circle already.

`Highest` is delicate because `ready` does not call `pick_proc`: when a user's
message makes MM or FS ready, the user still runs although a server should.  That
lasts only until the same call blocks the user (a user makes only BOTH calls, and
nothing can be there to receive yet).  The user is then the head of its own
queue, so that `unready` picks again (`MayStop`).  Tasks and servers may send
without blocking: whoever they make ready comes behind them (`NeverFirst`).

The initial state is real: `InOrderLists` proves that the lists `BootState`
chooses exist and hold each program once.

### System task, clock task, MM and FS together
`KernelProofs` proves for every number of process slots, every set of signals and
every workload - whatever calls the programs make, forked and killed at any
moment, with the timer ticking or not:

* `RepliesAlwaysArrive`: neither MM nor `inform` panics, MM is held up by nobody but
  FS and FS by nobody;
* `SignalsAlwaysAccounted`: `p_pendcount` and `sig_procs` count what they are said
  to, and MM does not sleep on a signal;
* `RequestsStayIntact`: the system task finds the request as it was sent;
* `QueuesAlwaysAgree`: the queues are what the flags say;
* `PidAlwaysFinds`: a pid leads to the live process that has it.

Assumptions: `ProcAssumption`, `SystemAssumption` and `KernelAssumption` (the calls of a
workload are calls of MM or FS, new pids are numbers other than 0 and 1).  The
set of signals may be infinite here too.

*The invariant* has two halves:

    Now == KInv(k) /\ CInv(k, pc, plan, paused, closed)

`KInv` is about the data of the kernel, whatever MM and FS do next.  `Base`: the
caller queues agree with the flags, a dead slot has lost all that it had, a
program waits only for MM or FS, MM only ever sends to FS and FS waits to send to
nobody, and the counts of signals are right as far as the process table can tell.
`Scheduled` and `MMHears` are apart, since a handler breaks them half way.  It is
less than the invariant of `Ipc` in one point and more in another: programs may
not send to each other, but slots die.

`CInv` is about the main loops.  No property of the run is inductive, because what
MM and FS *are going to do* is only in their plans, and each step of a plan is
right only if what the plan was made for has not gone in the meantime:

* `ServerState`, `SysState`, `ClockState`, `DiskState`: where in its loop each of them
  is, and whom it waits for.  The system task works only for a server that waits
  for it and whose message it still has (`Busy`); this gives `RequestIntact`.
* `MMPlan`: for each step MM has still to do, the one the system task works on
  included (`Todo`), that it can be done when its turn comes.  A reply goes to a
  process that waits for it (`Answerable`), or to a child that the first step
  creates (`Kid`); nobody is answered twice (`RepliesOnce`).  A process is let
  go only after FS has heard of it (`XitOK`), nothing in the plan after that answers
  it, and it is not among the paused (`Exiting`).
* `FSPlan`: FS answers a client that waits for it, or one that has been told to FS as
  ended, and then FS is at the head of its queue and about to answer: MM, which
  would kill the client, comes after it.  This is the reason why the reply to a
  process that dies meanwhile still arrives.
* `OpenOK`: the signals that are counted and not pending are in MM's hands, as the
  message it looks at, as a step of its plan or as the request under way.  With
  `Base` this is `SignalsAccounted`.
* `PidsDiffer`: no slot *below* a live one has its pid.  A dead slot above may; the
  search starts below.  `ForkOK` keeps this, since a fork takes the lowest free
  slot and a pid that no live process has.

*The argument.*  `KernelLemmas` shows that each operator of proc.c, and each handler
of system.c (`FORK`, `EXEC`, `XIT`, `KILL`, `ENDSIG`, `TRACE` ...), keeps `KInv`,
and what else it changes.  The lemmas about plans (`TailStays`, `PlanStays`) then
say which changes leave a plan sound, so that a step of the clock, of the disk or
of a user needs little more than a list of what it does not touch (`OnlyTask`,
`CallsOnly`, `OnlyServer`).  There is one lemma per action: the requests of the
system task (`SysWorks`) and the other steps of the tasks in `KernelLemmas`, and
in `KernelProofs` the calls of users (`UserCalls`), what MM decides (one plan per
call, shown to be sound when it is made), what FS decides, and the steps of both
plans, where the rest of a plan has to stay sound.  `InitGood` and `NextGood` put
them together in `KernelInvariant`.

### Process tree queries
`ProcTreeProofs` proves for a table of any size, any set of pids and any history
of forks, exits and waits:

* `TreeStays`: `Spec => []IInv`, the invariant below;
* `AnswerIsRightAlways`: the answer is the first of the processes with the most
  children, or descendants, with their exact number;
* `InitHasAllAlways`: all processes but MM and FS are below INIT;
* `StackFitsAlways`: `stack[NR_PROCS]` has room for every search.

`TreeAssumption`: MM, FS and INIT have slots; user processes have neither pid 0,
which MM and FS have, nor INIT's.

*The argument.*  The invariant has three parts.

`Tree`: MM, FS and INIT stay as they were made; the parent of every other process
is alive; and every set of processes beside INIT has a member whose parent is not
in the set.  The last says that nobody is its own ancestor, in a form that
survives the steps: slot numbers say nothing about age, since slots are used
again.  A fork adds a leaf; an exit gives the children to INIT, which is in none
of those sets; a zombie has no children, so that `wait` takes a leaf away.

`Search`, while `count_descendants` runs: who is visited is below the process,
`descendants` counts the visited but one, nobody is on the stack twice, and
whoever is visited is on the stack, or is being worked on, or *all its children
are visited*.  When the stack is empty, the visited are closed under children,
hence everybody below; `Below` is the least such set.

`Scan`: `found` and `most` are right for the slots in front of `proc_nr`.

`StackFits` follows from the pigeonhole principle.  `InitHasAll` needs `Tree`: the
processes not below INIT would be a set that contains the parent of each of its
members.

### Memory allocator
`AllocProofs` proves for any chunks of memory, any number of process slots, all
sizes of processes and swap areas and any sequence of calls, as long as worst fit
and swapping are not in force together (`ApartSpec`; the run `worst_swap` shows what
happens when they are):

* `SoundAlways`: `ApartSpec => []IInv`, the invariant below;
* `HolesTidyAlways`, `MemorySharedOutAlways`, `SwapSeparateAlways`,
  `AnswersComeInAlways`: the first four invariants of the run;
* `NoOverrunAlways`: if `Roomy`, that is if `hole[]` has at least three entries more
  than there are process slots and chunks, then neither `hole[]` nor the
  buffer of a caller of `hole_map` overflows;
* `WorstFitIsWorstAlways`: with worst fit, a new process gets the front of a largest
  hole in memory.

`AllocAssumption` is what `mem_init` and the process table give: the chunks are
a list in order that does not begin at click 0, the slots are an interval,
processes have a size and the buffer of `hole_map` at least two words.  The length of
`hole[]` is restricted in `NoOverrunAlways` only; the other theorems hold up to "Hole
table full", where MM stops.  `NR_PROCS` and the number of chunks are defined
outside the repository; with those of Minix 2, 32 and 8, `hole[]` has 64 entries
against the 43 at most that `Roomy` asks for.  The instance of the runs is smaller than
that (six entries for three process slots and two chunks), and TLC finds that it
still suffices there.

*The invariant* has four parts.

`Shared`: a click is in a chunk or in the swap area exactly if a hole, the pair in
hand or a process holds it, and no two of these do.  The pair in hand (`b`, `c`) is
what makes it inductive: between `alloc_mem` and the assignment to `mem_phys`,
and between that assignment and `free_mem`, a stretch of memory belongs to neither
the list nor a process.  Every operator passes stretches between the list, the hand
and a process (`BiteShares`, `FreeShares`, `ExchangeShares`); a round begins and
ends with an empty hand.  The swap area is as long as `swap_on` made it, and empty
while swapping is off, so that `swap_off` may drop its hole, and drops all of it.

`Flagged` and `Placed`: only processes in use have flags and a size; a process lies in the
swap area exactly while it is ONSWAP; one with a reply to come is also queued.
`Placed` needs `Separate`: first fit looks at the memory only.

`Queued`: `in_queue` holds the processes with SWAPIN, once each, dead ones included.

*The argument.*  That a list stays tidy is a matter of positions: `InsertAtEffect`
and `FrontEffect` say where `free_mem` puts the new hole and which neighbours it may
touch, `AbsorbEffect` what one `merge` does; `mergeTidies` needs only that
all neighbours but those at the place of the insertion are apart.  `TakeFromKeeps` is
the other direction.  The swap area stays a hole of its own since it starts after a gap
(`NotAcross`): no tidy list that shares out the memory has a hole across it.

`swap_in` and `alloc_mem` are loops, in the model recursive functions on an interval of
numbers.  `Recursion` proves by least counterexample that such a function exists
when every step stays within a given set, and `Upward` carries an invariant along
it.  For `swap_in` it is `Walking`: besides `Sound`, whoever is to come in is in the new
queue, once, or still to be visited (`VisitKeeps`).  For
`alloc_mem` it is that `swap_out` keeps `Sound`, and that the last try is one of the
tries (`TriesEnd`), since each successful `swap_out` leaves one process less to swap
out.

`Room` is the counting behind `NoOverrun`.  After each hole comes a click
that no hole holds, since the list is merged, and something starts or ends there: a
process, the stretch in hand, the end of a chunk or the end of the swap area
(`SomethingFollows`).  Different holes are followed by different ones of these
(`FollowsOnce`), so there are no more holes than processes, chunks and two
(`HolesCounted`); and the table was not full before the last insertion.

For `WorstFitIsWorst`, worst fit in force means that swapping is not, so nobody is
queued or can be swapped out (`NobodySwapped`): `alloc_mem` decides at once, the round
moves nobody, and only fork makes a process.  The hole it takes is `Biggest`, the only one
that starts where the process lies.

### Virtual file system
`VfsProofs` proves for any number of inodes and blocks, any names and contents
without a block of zeros, any commands at the same time and any number of kills
and overlaps (`MaxMess`):

* `DiscInvariant`: `Spec => []Inv`, the invariant below;
* `FilesAlwaysSurvive`: a stored file that is not exposed reads back, whatever
  other commands do;
* `NothingEverLeaks`: as long as commands run one after the other, each block in
  use is on the chain of an inode.

Of `VfsAssumption` the proofs use that the contents of a file are as many blocks
as its size needs, and that none of these is all zeros.

*The invariant* is `TypeOK`, `FilesInv`, `RootInv` and `HitsInv`.

`FilesInv` is about the stored files.  Each has one inode, of its name, that no
command is going to write (`Kept`); its blocks hold its data, and no COPYTO has one
of them for free, neither on the disc nor in its older copy (`Intact`); the
blocks of two files are apart (`Apart`).  A COPYTO enters its file as stored when it
ends, provided that it was alone all the time.  So the invariant follows a
command that nobody has joined (`Lone`): what it has in memory is the disc as it
is, and the part of the chain that it has written is complete and touches no
file (`HalfDone`).  Free blocks have no link.

`Exposed` files are those an RM may have hit: with block 0 as their first, or all,
if the RM is on a chain that is not a stored file's.  That the others are safe from
the links to block 0 is the difficult part.  `RootInv`: while commands run one after
the other there is a set `Z` of blocks, block 0 among them, that contains what the
chain from block 0 leads to and no block of a file that begins elsewhere.  The
chain goes upwards or back to 0, because a COPYTO takes free blocks in
increasing order; a COPYTO that begins with block 0 adds to `Z`, and one that
begins elsewhere finds block 0 in use and `Z` full.  `HitsInv`: an RM of a stored
file has a set `Y` of blocks before it that is closed under links and touches no other file;
when it starts, `Y` is the rest of its own chain and `Z`.

`LeakInv`, for the second theorem, avoids to say what is on which chain: *every*
set that contains the first block of each inode, the next block of an RM and with a
block also what it links to contains all blocks in use.  A set of this kind survives the
steps as a smaller one would not: a COPYTO links to the block it takes next, and an RM
that clears a block keeps what follows.  The other half is that an RM that
has gone past the first block of its file has cleared it.  Without commands, the
blocks on chains are such a set.  This takes the pigeonhole principle, since
the model follows a chain for as many links as there are blocks (`ChainComesBack`).

### What is only model-checked
`AlarmsInTime` of `Clock`, which interleaves the tick with the clock task statement
by statement: the alarms of `Kernel`, where a tick is one step, are all that is
proved of them.  Of the allocator, all that happens when worst fit and swapping are in force together.
Everything about liveness (`NobodyStuck`, `EverybodyProduces`, `AllActedOn`,
`RemoveEnds` and the rest), which is out of the prover's reach with its fairness.


## 7. Not modelled

* The time of day, the watchdogs of drivers and the hardware of the timer in
  clock.c; two servers with synchronous alarms in one instance.
* A second run of exercise 3 on the same shared memory: `create` initialises
  semaphores that processes of the first run may be waiting on, which POSIX leaves
  undefined.  `destroy` (unreachable) and the check of the buffer size.
* `do_sysctl`, `do_abort`, memory maps, registers, copying and accounting in
  system.c: they touch no state the properties are about.
* `mm_init` beyond the table of processes, the call tables and prototypes:
  constant, without behaviour.
* LS and MAP, and the wording of all output; names of 512 bytes and more in
  exercise 6, which are cut when stored and not when looked up; files with blocks
  of zeros, which are free while a file links to them: `VfsAssumption` says that no
  contents have one.
* The output of exercises 3 and 4 and the picture of the buffer: wording.
