----------------------------- MODULE SemBuffer -----------------------------
(***************************************************************************)
(* Exercise 3: producers and consumers are processes that share buffers,   *)
(* each protected by three semaphores (exercise-3/main.cpp, monitor.h).    *)
(* Every access to the shared memory is a step of its own.                 *)
(***************************************************************************)
EXTENDS Naturals, Sequences, FiniteSets

CONSTANTS
  Buffers, Size, Items,
  Producers, Consumers,
  Route,      \* producer -> the buffers it goes through, over and over
  Serves,     \* consumer -> its buffer
  Children,   \* the processes in the order main forks them
  Nothing

Procs == Producers \cup Consumers

ASSUME SemBufferAssumption ==
  /\ Size \in Nat
  /\ Producers \cap Consumers = {}
  /\ \A p \in Producers : Route[p] \in Seq(Buffers) /\ Route[p] # << >>
  /\ \A c \in Consumers : Serves[c] \in Buffers
  /\ \A b \in Buffers : Items[b] # {} /\ Nothing \notin Items[b]

VARIABLES
  empty, mutex, full,   \* buffer -> the value of the semaphore
  in, out, body,        \* buffer -> its fields
  pc,                   \* process -> the statement it is at
  counter,              \* producer -> its place in its route
  product,              \* consumer -> the product it read last
  forked                \* how many children run; main may fail to fork more

semaphores == <<empty, mutex, full>>
vars == <<empty, mutex, full, in, out, body, pc, counter, product, forked>>

\* The buffer a process works on
Target(p) == IF p \in Producers THEN Route[p][counter[p] + 1] ELSE Serves[p]

P(sem, b) == sem[b] > 0 /\ sem' = [sem EXCEPT ![b] = @ - 1]
V(sem, b) == sem' = [sem EXCEPT ![b] = @ + 1]

At(p, place) == pc[p] = place /\ \E i \in 1..forked : Children[i] = p
GoTo(p, place) == pc' = [pc EXCEPT ![p] = place]

(* IntegerBuffer::create, then main begins to fork.  The body is read only  *)
(* where it has been written; Nothing stands for the zeros of a new shared  *)
(* memory object.                                                           *)
Init ==
  /\ empty = [b \in Buffers |-> Size]
  /\ mutex = [b \in Buffers |-> 1]
  /\ full = [b \in Buffers |-> 0]
  /\ in = [b \in Buffers |-> 0]
  /\ out = [b \in Buffers |-> 0]
  /\ body = [b \in Buffers |-> [i \in 0..(Size - 1) |-> Nothing]]
  /\ pc = [p \in Procs |-> IF p \in Producers THEN "empty" ELSE "full"]
  /\ counter = [p \in Producers |-> 0]
  /\ product = [c \in Consumers |-> Nothing]
  /\ forked = 0

\* main forks one child after the other; when a fork fails it exits and the
\* children that run already are left to themselves (no further Fork).
Fork ==
  /\ forked < Len(Children)
  /\ forked' = forked + 1
  /\ UNCHANGED <<semaphores, in, out, body, pc, counter, product>>
-----------------------------------------------------------------------------
(* produce *)

WaitEmpty_none(p) ==    \* Mutant: empty is not waited for
  /\ p \in Producers /\ At(p, "empty")
  /\ GoTo(p, "mutex")
  /\ UNCHANGED <<semaphores, in, out, body, counter, product, forked>>

WaitEmpty(p) ==
  /\ p \in Producers /\ At(p, "empty")
  /\ P(empty, Target(p))
  /\ GoTo(p, "mutex")
  /\ UNCHANGED <<mutex, full, in, out, body, counter, product, forked>>

Write(p) ==
  /\ p \in Producers /\ At(p, "access")
  /\ \E x \in Items[Target(p)] :
       body' = [body EXCEPT ![Target(p)][in[Target(p)]] = x]
  /\ GoTo(p, "advance")
  /\ UNCHANGED <<semaphores, in, out, counter, product, forked>>

AdvanceIn(p) ==
  /\ p \in Producers /\ At(p, "advance")
  /\ in' = [in EXCEPT ![Target(p)] = (@ + 1) % Size]
  /\ GoTo(p, "leave")
  /\ UNCHANGED <<semaphores, out, body, counter, product, forked>>

\* full->v() is the end of produce; an entrepreneur goes on to its next buffer.
PostFull(p) ==
  /\ p \in Producers /\ At(p, "post")
  /\ V(full, Target(p))
  /\ counter' = [counter EXCEPT ![p] = (@ + 1) % Len(Route[p])]
  /\ GoTo(p, "empty")
  /\ UNCHANGED <<empty, mutex, in, out, body, product, forked>>
-----------------------------------------------------------------------------
(* consume *)

WaitFull(c) ==
  /\ c \in Consumers /\ At(c, "full")
  /\ P(full, Target(c))
  /\ GoTo(c, "mutex")
  /\ UNCHANGED <<empty, mutex, in, out, body, counter, product, forked>>

Read(c) ==
  /\ c \in Consumers /\ At(c, "access")
  /\ product' = [product EXCEPT ![c] = body[Target(c)][out[Target(c)]]]
  /\ GoTo(c, "advance")
  /\ UNCHANGED <<semaphores, in, out, body, counter, forked>>

AdvanceOut(c) ==
  /\ c \in Consumers /\ At(c, "advance")
  /\ out' = [out EXCEPT ![Target(c)] = (@ + 1) % Size]
  /\ GoTo(c, "leave")
  /\ UNCHANGED <<semaphores, in, body, counter, product, forked>>

PostEmpty_full(c) ==    \* Mutant: the wrong semaphore is posted
  /\ c \in Consumers /\ At(c, "post")
  /\ V(full, Target(c))
  /\ GoTo(c, "full")
  /\ UNCHANGED <<empty, mutex, in, out, body, counter, product, forked>>

PostEmpty(c) ==
  /\ c \in Consumers /\ At(c, "post")
  /\ V(empty, Target(c))
  /\ GoTo(c, "full")
  /\ UNCHANGED <<mutex, full, in, out, body, counter, product, forked>>
-----------------------------------------------------------------------------
(* mutex->p() and mutex->v(), the same in both *)

Enter_unlocked(p) ==    \* Mutant: mutex is looked at but not taken
  /\ At(p, "mutex")
  /\ mutex[Target(p)] > 0
  /\ GoTo(p, "access")
  /\ UNCHANGED <<semaphores, in, out, body, counter, product, forked>>

Enter(p) ==
  /\ At(p, "mutex")
  /\ P(mutex, Target(p))
  /\ GoTo(p, "access")
  /\ UNCHANGED <<empty, full, in, out, body, counter, product, forked>>

Leave(p) ==
  /\ At(p, "leave")
  /\ V(mutex, Target(p))
  /\ GoTo(p, "post")
  /\ UNCHANGED <<empty, full, in, out, body, counter, product, forked>>

ProcStep(p) ==
  \/ WaitEmpty(p) \/ Write(p) \/ AdvanceIn(p) \/ PostFull(p)
  \/ WaitFull(p) \/ Read(p) \/ AdvanceOut(p) \/ PostEmpty(p)
  \/ Enter(p) \/ Leave(p)

Next == Fork \/ \E p \in Procs : ProcStep(p)

Spec == Init /\ [][Next]_vars

\* A process that can run does run; and since everybody sleeps for a second
\* after each product, a process that waits for a semaphore finds it free again
\* and again, and gets it one of these times (sem_wait alone promises less).
PatientSpec == Spec /\ \A p \in Procs : SF_vars(ProcStep(p))
-----------------------------------------------------------------------------
InCriticalSection(p) == pc[p] \in {"access", "advance", "leave"}

\* in, out and body of a buffer are plain shared memory: only one process at
\* a time is between mutex->p() and mutex->v() of a buffer.
MutualExclusion ==
  \A p, q \in Procs :
    /\ InCriticalSection(p) /\ InCriticalSection(q)
    /\ Target(p) = Target(q)
    => p = q

\* What is in a buffer: full counts the products that are there and not yet
\* claimed; written ones whose producer has not posted yet and claimed ones
\* not yet read are there too.
Stored(b) ==
  LET unposted == {p \in Producers : Target(p) = b
                                     /\ pc[p] \in {"advance", "leave", "post"}}
      unread == {c \in Consumers : Target(c) = b
                                   /\ pc[c] \in {"mutex", "access"}}
  IN full[b] + Cardinality(unposted) + Cardinality(unread)

\* The oldest product: out is one behind while a consumer has read it.
First(b) ==
  IF \E c \in Consumers : Target(c) = b /\ pc[c] = "advance"
  THEN (out[b] + 1) % Size ELSE out[b]

queue == [b \in Buffers |->
           [i \in 1..Stored(b) |-> body[b][(First(b) + i - 1) % Size]]]

Fifo == INSTANCE BoundedFifo WITH taken <- product

\* Seen through queue, every step puts a product into a buffer with room,
\* takes the oldest one of a buffer, or changes nothing: whatever the
\* processes' order, none is overwritten, lost, read twice or out of turn.
Refinement == Fifo!Spec

AllRun == forked = Len(Children)

\* A product that has been announced is not left in its buffer: the consumer
\* claims it and gets to it although mutex is contended by the producers.
ProductsAreRead ==
  \A c \in Consumers :
    []<>(\/ ~AllRun
         \/ full[Serves[c]] = 0 /\ pc[c] = "full"
         \/ pc[c] = "advance")

\* "The third one goes through all of them" (README.md): no producer is stuck
\* at one of the buffers of its route for ever, once all children run.
EverybodyProduces ==
  \A p \in Producers : \A i \in 0..(Len(Route[p]) - 1) :
    []<>(~AllRun \/ (counter[p] = i /\ pc[p] = "post"))

\* Products reach their consumers and producers the end of their routes.
NobodyStuck == ProductsAreRead /\ EverybodyProduces
=============================================================================
