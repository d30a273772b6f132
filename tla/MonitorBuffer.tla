---------------------------- MODULE MonitorBuffer ----------------------------
(***************************************************************************)
(* Exercise 4: producers and consumers are threads; each buffer is a       *)
(* monitor (exercise-4/main.cpp, monitor.h).  The monitor hands itself     *)
(* over: signal() wakes a waiter, which goes on inside WITHOUT taking the  *)
(* semaphore s, while the signaller queues on s to come in again.          *)
(***************************************************************************)
EXTENDS Naturals, Sequences, FiniteSets

CONSTANTS
  Buffers, Size, Items,
  Producers, Consumers,
  Route,      \* producer -> the buffers it goes through, over and over
  Serves,     \* consumer -> its buffer
  Nothing     \* what body holds where there is no product (-1)

Threads == Producers \cup Consumers
Conditions == {"empty", "full"}

ASSUME MonitorBufferAssumption ==
  /\ Size \in Nat \ {0}
  /\ Producers \cap Consumers = {}
  /\ \A p \in Producers : Route[p] \in Seq(Buffers) /\ Route[p] # << >>
  /\ \A c \in Consumers : Serves[c] \in Buffers
  /\ \A b \in Buffers : Items[b] # {} /\ Nothing \notin Items[b]

VARIABLES
  s,               \* buffer -> the monitor's semaphore
  w,               \* buffer, condition -> the condition's semaphore
  waitingCount,    \* buffer, condition -> threads that wait for it
  counter, in, out, body,
  pc,              \* thread -> the statement it is at
  place,           \* producer -> its place in its route
  product          \* consumer -> the product it read last

fields == <<counter, in, out, body>>
vars == <<s, w, waitingCount, fields, pc, place, product>>

Target(t) == IF t \in Producers THEN Route[t][place[t] + 1] ELSE Serves[t]
WaitsFor(t) == IF t \in Producers THEN "full" ELSE "empty"
Signals(t) == IF t \in Producers THEN "empty" ELSE "full"

P(sem, b) == sem[b] > 0 /\ sem' = [sem EXCEPT ![b] = @ - 1]
V(sem, b) == sem' = [sem EXCEPT ![b] = @ + 1]
GoTo(t, stmt) == pc' = [pc EXCEPT ![t] = stmt]

Init ==
  /\ s = [b \in Buffers |-> 1]
  /\ w = [b \in Buffers |-> [c \in Conditions |-> 0]]
  /\ waitingCount = [b \in Buffers |-> [c \in Conditions |-> 0]]
  /\ counter = [b \in Buffers |-> 0]
  /\ in = [b \in Buffers |-> 0]
  /\ out = [b \in Buffers |-> 0]
  /\ body = [b \in Buffers |-> [i \in 0..(Size - 1) |-> Nothing]]
  /\ pc = [t \in Threads |-> "enter"]
  /\ place = [p \in Producers |-> 0]
  /\ product = [c \in Consumers |-> Nothing]
-----------------------------------------------------------------------------
Enter(t) ==
  /\ pc[t] = "enter"
  /\ P(s, Target(t))
  /\ GoTo(t, "test")
  /\ UNCHANGED <<w, waitingCount, fields, place, product>>

MustWait_beyond(t) ==    \* Mutant: off by one
  IF t \in Producers THEN counter[Target(t)] > Size ELSE counter[Target(t)] = 0

MustWait(t) ==
  counter[Target(t)] = IF t \in Producers THEN Size ELSE 0

\* The test, and the first statement of Monitor::wait
Test(t) ==
  /\ pc[t] = "test"
  /\ IF MustWait(t)
     THEN /\ waitingCount' =
               [waitingCount EXCEPT ![Target(t)][WaitsFor(t)] = @ + 1]
          /\ GoTo(t, "give_up")
     ELSE GoTo(t, "access") /\ UNCHANGED waitingCount
  /\ UNCHANGED <<s, w, fields, place, product>>

\* leave() in Monitor::wait
GiveUp(t) ==
  /\ pc[t] = "give_up"
  /\ V(s, Target(t))
  /\ GoTo(t, "wait")
  /\ UNCHANGED <<w, waitingCount, fields, place, product>>

\* cond.wait(): the woken thread is inside the monitor again.
Wake(t) ==
  /\ pc[t] = "wait"
  /\ w[Target(t)][WaitsFor(t)] > 0
  /\ w' = [w EXCEPT ![Target(t)][WaitsFor(t)] = @ - 1]
  /\ GoTo(t, "access")
  /\ UNCHANGED <<s, waitingCount, fields, place, product>>

Write(p) ==
  /\ p \in Producers /\ pc[p] = "access"
  /\ \E x \in Items[Target(p)] :
       body' = [body EXCEPT ![Target(p)][in[Target(p)]] = x]
  /\ GoTo(p, "advance")
  /\ UNCHANGED <<s, w, waitingCount, counter, in, out, place, product>>

AdvanceIn(p) ==
  /\ p \in Producers /\ pc[p] = "advance"
  /\ in' = [in EXCEPT ![Target(p)] = (@ + 1) % Size]
  /\ counter' = [counter EXCEPT ![Target(p)] = @ + 1]
  /\ GoTo(p, "signal")
  /\ UNCHANGED <<s, w, waitingCount, out, body, place, product>>

Read(c) ==
  /\ c \in Consumers /\ pc[c] = "access"
  /\ product' = [product EXCEPT ![c] = body[Target(c)][out[Target(c)]]]
  /\ body' = [body EXCEPT ![Target(c)][out[Target(c)]] = Nothing]
  /\ GoTo(c, "advance")
  /\ UNCHANGED <<s, w, waitingCount, counter, in, out, place>>

AdvanceOut(c) ==
  /\ c \in Consumers /\ pc[c] = "advance"
  /\ out' = [out EXCEPT ![Target(c)] = (@ + 1) % Size]
  /\ counter' = [counter EXCEPT ![Target(c)] = @ - 1]
  /\ GoTo(c, "signal")
  /\ UNCHANGED <<s, w, waitingCount, in, body, place, product>>

Signal_stay(t) ==    \* Mutant: the signaller does not leave for the waiter
  LET b == Target(t)
      c == Signals(t)
  IN /\ pc[t] = "signal"
     /\ IF waitingCount[b][c] > 0
        THEN /\ waitingCount' = [waitingCount EXCEPT ![b][c] = @ - 1]
             /\ w' = [w EXCEPT ![b][c] = @ + 1]
        ELSE UNCHANGED <<w, waitingCount>>
     /\ GoTo(t, "leave")
     /\ UNCHANGED <<s, fields, place, product>>

Signal_uncounted(t) ==    \* Mutant: waitingCount is not decremented
  LET b == Target(t)
      c == Signals(t)
  IN /\ pc[t] = "signal"
     /\ IF waitingCount[b][c] > 0
        THEN w' = [w EXCEPT ![b][c] = @ + 1] /\ GoTo(t, "enter_again")
        ELSE GoTo(t, "leave") /\ UNCHANGED w
     /\ UNCHANGED <<s, waitingCount, fields, place, product>>

\* Condition::signal
Signal(t) ==
  LET b == Target(t)
      c == Signals(t)
  IN /\ pc[t] = "signal"
     /\ IF waitingCount[b][c] > 0
        THEN /\ waitingCount' = [waitingCount EXCEPT ![b][c] = @ - 1]
             /\ w' = [w EXCEPT ![b][c] = @ + 1]
             /\ GoTo(t, "enter_again")
        ELSE GoTo(t, "leave") /\ UNCHANGED <<w, waitingCount>>
     /\ UNCHANGED <<s, fields, place, product>>

\* enter() in Monitor::signal
EnterAgain(t) ==
  /\ pc[t] = "enter_again"
  /\ P(s, Target(t))
  /\ GoTo(t, "leave")
  /\ UNCHANGED <<w, waitingCount, fields, place, product>>

Leave_stay(t) ==    \* Mutant: the entrepreneur stays at its buffer
  /\ pc[t] = "leave"
  /\ V(s, Target(t))
  /\ GoTo(t, "enter")
  /\ UNCHANGED <<w, waitingCount, fields, place, product>>

\* leave(); an entrepreneur goes on to its next buffer.
Leave(t) ==
  /\ pc[t] = "leave"
  /\ V(s, Target(t))
  /\ place' = IF t \in Producers
              THEN [place EXCEPT ![t] = (@ + 1) % Len(Route[t])] ELSE place
  /\ GoTo(t, "enter")
  /\ UNCHANGED <<w, waitingCount, fields, product>>

ThreadStep(t) ==
  \/ Enter(t) \/ Test(t) \/ GiveUp(t) \/ Wake(t)
  \/ Write(t) \/ AdvanceIn(t) \/ Read(t) \/ AdvanceOut(t)
  \/ Signal(t) \/ EnterAgain(t) \/ Leave(t)

Next == \E t \in Threads : ThreadStep(t)

Spec == Init /\ [][Next]_vars

\* With the sleep of a second between two products, everybody gets a semaphore
\* that is free again and again.
PatientSpec == Spec /\ \A t \in Threads : SF_vars(ThreadStep(t))
-----------------------------------------------------------------------------
Inside(b) ==
  {t \in Threads : Target(t) = b
     /\ pc[t] \in {"test", "give_up", "access", "advance", "signal", "leave"}}

\* The right to be in the monitor is passed on, never copied or lost: it is
\* in s, or in the wake-up of one waiter, or one thread is inside.  (That no
\* two threads are inside is part of it.)
OneBaton ==
  \A b \in Buffers :
    s[b] + w[b]["empty"] + w[b]["full"] + Cardinality(Inside(b)) = 1

\* waitingCount, which signal() trusts, and the wake-ups under way are the
\* threads that wait, although a thread counts itself before it waits.
WaitersCounted ==
  \A b \in Buffers, c \in Conditions :
    waitingCount[b][c] + w[b][c] =
      Cardinality({t \in Threads : Target(t) = b /\ WaitsFor(t) = c
                                   /\ pc[t] \in {"give_up", "wait"}})

\* produce() and consume() test with "if", not "while": what a thread waited
\* for is still true when it goes on, since nobody comes in between.
ConditionStillHolds ==
  \A t \in Threads :
    pc[t] = "access" => IF t \in Producers THEN counter[Target(t)] < Size
                                           ELSE counter[Target(t)] > 0

\* A thread never sleeps while what it waits for is true, unless its wake-up
\* is under way or the thread inside is about to signal.
NoneSleepsInVain ==
  \A t \in Threads :
    /\ pc[t] = "wait"
    /\ IF t \in Producers THEN counter[Target(t)] < Size
                          ELSE counter[Target(t)] > 0
    => \/ w[Target(t)][WaitsFor(t)] > 0
       \/ \E u \in Inside(Target(t)) : pc[u] \in {"access", "advance", "signal"}

\* No wake-up is forgotten: those who wait are known, and nobody sleeps in
\* vain.
WaitersServed == WaitersCounted /\ NoneSleepsInVain

HasRead(b) == \E c \in Consumers : Target(c) = b /\ pc[c] = "advance"

queue == [b \in Buffers |->
           LET n == IF HasRead(b) THEN counter[b] - 1 ELSE counter[b]
               head == IF HasRead(b) THEN out[b] + 1 ELSE out[b]
           IN [i \in 1..n |-> body[b][(head + i - 1) % Size]]]

Fifo == INSTANCE BoundedFifo WITH taken <- product

\* Seen through queue, every step puts a product into a buffer with room,
\* takes the oldest one, or changes nothing.
Refinement == Fifo!Spec

\* "The third one goes through all of them" (README.md): no producer waits for
\* ever at one of its buffers.
EverybodyProduces ==
  \A p \in Producers : \A i \in 0..(Len(Route[p]) - 1) :
    []<>(place[p] = i /\ pc[p] = "advance")
=============================================================================
