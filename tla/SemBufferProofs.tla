--------------------------- MODULE SemBufferProofs ---------------------------
(***************************************************************************)
(* The safety properties of SemBuffer, for any number of processes and     *)
(* buffers, any route of the producers and any size, zero included.        *)
(***************************************************************************)
EXTENDS SemBuffer, FiniteSetTheorems, SequenceTheorems, TLAPS
-----------------------------------------------------------------------------
(* Indices into a ring of n places *)

\* Below twice the size, taking the remainder is one subtraction.
LEMMA WrapAround ==
  ASSUME NEW n \in Nat \ {0}, NEW k \in 0..(2 * n - 1)
  PROVE  k % n = IF k < n THEN k ELSE k - n
<1>1. /\ k \div n \in Nat /\ k % n \in 0..(n - 1)
      /\ k = n * (k \div n) + (k % n)
  OBVIOUS
<1> DEFINE q == k \div n
<1>2. q = 0 \/ q = 1
  <2>1. q >= 2 => n * q >= n * 2
    BY <1>1
  <2> QED
    BY <1>1, <2>1
<1> QED
  BY <1>1, <1>2

\* n places from f on are n different places.
LEMMA PlacesDiffer ==
  ASSUME NEW n \in Nat \ {0}, NEW f \in 0..(n - 1),
         NEW i \in 0..(n - 1), NEW j \in 0..(n - 1)
  PROVE  /\ (f + i) % n \in 0..(n - 1)
         /\ (f + i) % n = (f + j) % n => i = j
<1>1. f + i \in 0..(2 * n - 1) /\ f + j \in 0..(2 * n - 1)
  OBVIOUS
<1>2. (f + i) % n = IF f + i < n THEN f + i ELSE (f + i) - n
  BY <1>1, WrapAround
<1>3. (f + j) % n = IF f + j < n THEN f + j ELSE (f + j) - n
  BY <1>1, WrapAround
<1> QED
  BY <1>2, <1>3

\* One step on, then i more, is i more, then one step on.
LEMMA StepOn ==
  ASSUME NEW n \in Nat \ {0}, NEW f \in 0..(n - 1), NEW i \in 0..(n - 1)
  PROVE  /\ (f + 1) % n \in 0..(n - 1)
         /\ (((f + 1) % n) + i) % n = (f + 1 + i) % n
         /\ (((f + i) % n) + 1) % n = (f + i + 1) % n
<1> DEFINE wrap(k) == IF k < n THEN k ELSE k - n
<1>1. f + 1 \in 0..(2 * n - 1) /\ f + i \in 0..(2 * n - 1)
  OBVIOUS
<1>2. (f + 1) % n = wrap(f + 1)
  BY <1>1, WrapAround
<1>3. (f + i) % n = wrap(f + i)
  BY <1>1, WrapAround
<1>4. f + 1 + i \in 0..(2 * n - 1)
  OBVIOUS
<1>5. (f + 1 + i) % n = wrap(f + 1 + i)
  BY <1>4, WrapAround
<1>6. /\ wrap(f + 1) + i \in 0..(2 * n - 1)
      /\ wrap(f + i) + 1 \in 0..(2 * n - 1)
  OBVIOUS
<1>7. (wrap(f + 1) + i) % n = wrap(wrap(f + 1) + i)
  BY <1>6, WrapAround
<1>8. (wrap(f + i) + 1) % n = wrap(wrap(f + i) + 1)
  BY <1>6, WrapAround
<1>9. f + 1 + i = f + i + 1
  OBVIOUS
<1>10. /\ wrap(wrap(f + 1) + i) = wrap(f + 1 + i)
       /\ wrap(wrap(f + i) + 1) = wrap(f + i + 1)
       /\ wrap(f + 1) \in 0..(n - 1)
  OBVIOUS
<1> HIDE DEF wrap
<1> QED
  BY <1>2, <1>3, <1>5, <1>7, <1>8, <1>9, <1>10
-----------------------------------------------------------------------------
IsRing(B, size, S) == size \in Nat \ {0} /\ B \in [0..(size - 1) -> S]

\* The n products of a ring B of size places that begin at place f
Ring(B, f, n, size) == [i \in 1..n |-> B[(f + i - 1) % size]]

\* r is the sequence of these products.
Reads(r, S, B, f, n, size) ==
  /\ r \in Seq(S) /\ Len(r) = n
  /\ \A i \in 1..n : r[i] = B[(f + i - 1) % size]

\* What stands in the ring from f on, read once around, is a sequence.
LEMMA RingIsSequence ==
  ASSUME NEW S, NEW size, NEW B, IsRing(B, size, S),
         NEW f \in Nat, NEW n \in Nat
  PROVE  Reads(Ring(B, f, n, size), S, B, f, n, size)
<1>1. \A i \in 1..n : (f + i - 1) % size \in 0..(size - 1)
  BY DEF IsRing
<1>2. Ring(B, f, n, size) \in [1..n -> S]
  BY <1>1 DEF Ring, IsRing
<1>3. Ring(B, f, n, size) \in Seq(S)
  BY <1>2, SeqDef
<1>4. DOMAIN Ring(B, f, n, size) = 1..n
  BY DEF Ring
<1>5. Len(Ring(B, f, n, size)) = n
  BY <1>3, <1>4, LenProperties
<1> QED
  BY <1>3, <1>5 DEF Ring, Reads

\* What is written behind the last product is appended.
LEMMA RingPut ==
  ASSUME NEW S, NEW size, NEW B, IsRing(B, size, S),
         NEW f \in Nat, NEW n \in Nat
  PROVE  Ring(B, f, n + 1, size) = Append(Ring(B, f, n, size), B[(f + n) % size])
<1> DEFINE r == Ring(B, f, n, size)
           q == Ring(B, f, n + 1, size)
           x == B[(f + n) % size]
<1> HIDE DEF r, q
<1>1. /\ r \in Seq(S) /\ Len(r) = n
      /\ \A i \in 1..n : r[i] = B[(f + i - 1) % size]
  <2>1. Reads(r, S, B, f, n, size)
    BY RingIsSequence DEF r
  <2> QED
    BY <2>1 DEF Reads
<1>2. /\ q \in Seq(S) /\ Len(q) = n + 1
      /\ \A i \in 1..(n + 1) : q[i] = B[(f + i - 1) % size]
  <2>1. n + 1 \in Nat
    OBVIOUS
  <2>2. Reads(q, S, B, f, n + 1, size)
    BY <2>1, RingIsSequence DEF q
  <2> QED
    BY <2>2 DEF Reads
<1>3. (f + n) % size \in 0..(size - 1)
  BY DEF IsRing
<1>4. x \in S
  BY <1>3 DEF IsRing
<1>5. f + (n + 1) - 1 = f + n
  OBVIOUS
<1>6. q[n + 1] = x
  BY <1>2, <1>5
<1> HIDE DEF r, q, x
<1>7. /\ Append(r, x) \in Seq(S) /\ Len(Append(r, x)) = n + 1
      /\ \A i \in 1..n : Append(r, x)[i] = r[i]
      /\ Append(r, x)[n + 1] = x
  BY <1>1, <1>4, AppendProperties
<1>8. ASSUME NEW i \in 1..(n + 1)
      PROVE  q[i] = Append(r, x)[i]
  <2>1. CASE i = n + 1
    BY <2>1, <1>6, <1>7
  <2>2. CASE i \in 1..n
    <3>1. q[i] = r[i]
      BY <2>2, <1>1, <1>2
    <3> QED
      BY <2>2, <3>1, <1>7
  <2>3. i = n + 1 \/ i \in 1..n
    OBVIOUS
  <2> QED
    BY <2>1, <2>2, <2>3
<1>9. q = Append(r, x)
  BY <1>2, <1>7, <1>8, SeqEqual
<1> QED
  BY <1>9 DEF r, q, x

\* The oldest product is the head; the rest begins one place on.
LEMMA RingGet ==
  ASSUME NEW S, NEW size, NEW B, IsRing(B, size, S),
         NEW f \in 0..(size - 1), NEW n \in Nat \ {0}
  PROVE  /\ Ring(B, f, n, size) # << >>
         /\ Head(Ring(B, f, n, size)) = B[f]
         /\ Tail(Ring(B, f, n, size)) = Ring(B, f + 1, n - 1, size)
<1> DEFINE r == Ring(B, f, n, size)
           q == Ring(B, f + 1, n - 1, size)
<1> HIDE DEF r, q
<1>0. f \in Nat /\ n \in Nat /\ f + 1 \in Nat /\ n - 1 \in Nat
  BY DEF IsRing
<1>1. /\ r \in Seq(S) /\ Len(r) = n
      /\ \A i \in 1..n : r[i] = B[(f + i - 1) % size]
  <2>1. Reads(r, S, B, f, n, size)
    BY <1>0, RingIsSequence DEF r
  <2> QED
    BY <2>1 DEF Reads
<1>2. /\ q \in Seq(S) /\ Len(q) = n - 1
      /\ \A i \in 1..(n - 1) : q[i] = B[(f + 1 + i - 1) % size]
  <2>1. Reads(q, S, B, f + 1, n - 1, size)
    BY <1>0, RingIsSequence DEF q
  <2> QED
    BY <2>1 DEF Reads
<1>3. f + 1 - 1 \in 0..(2 * size - 1) /\ f + 1 - 1 = f
  BY DEF IsRing
<1>4. (f + 1 - 1) % size = f
  BY <1>3, WrapAround DEF IsRing
<1>5. r[1] = B[f]
  BY <1>1, <1>4
<1>6. \A i \in 1..(n - 1) : f + (i + 1) - 1 = f + 1 + i - 1
  OBVIOUS
<1>7. ASSUME NEW i \in 1..(n - 1)
      PROVE  q[i] = r[i + 1]
  <2>1. i + 1 \in 1..n
    OBVIOUS
  <2>2. r[i + 1] = B[(f + (i + 1) - 1) % size]
    BY <2>1, <1>1
  <2> QED
    BY <2>2, <1>2, <1>6
<1> HIDE DEF r, q
<1>8. r # << >>
  BY <1>1
<1>9. Head(r) = r[1]
  BY <1>1, <1>8
<1>10. /\ Tail(r) \in Seq(S) /\ Len(Tail(r)) = n - 1
       /\ \A i \in 1..Len(Tail(r)) : Tail(r)[i] = r[i + 1]
  BY <1>1, <1>8, HeadTailProperties
<1>11. Tail(r) = q
  BY <1>2, <1>7, <1>10, SeqEqual
<1> QED
  BY <1>5, <1>8, <1>9, <1>11 DEF r, q

\* A write to the place behind them does not change the products.
LEMMA RingKeeps ==
  ASSUME NEW size \in Nat \ {0}, NEW B, NEW C, NEW f \in 0..(size - 1),
         NEW n \in 0..(size - 1),
         \A j \in 0..(size - 1) : j # (f + n) % size => C[j] = B[j]
  PROVE  Ring(C, f, n, size) = Ring(B, f, n, size)
<1>1. ASSUME NEW i \in 1..n
      PROVE  C[(f + i - 1) % size] = B[(f + i - 1) % size]
  <2>1. i - 1 \in 0..(size - 1) /\ i - 1 # n /\ f + (i - 1) = f + i - 1
    OBVIOUS
  <2>2. /\ (f + (i - 1)) % size \in 0..(size - 1)
        /\ (f + (i - 1)) % size # (f + n) % size
    BY <2>1, PlacesDiffer
  <2> QED
    BY <2>1, <2>2
<1> QED
  BY <1>1 DEF Ring

\* It does not matter whether the first index has been wrapped around.
LEMMA RingTurns ==
  ASSUME NEW size \in Nat \ {0}, NEW B, NEW f \in 0..(size - 1),
         NEW n \in 0..size
  PROVE  Ring(B, (f + 1) % size, n, size) = Ring(B, f + 1, n, size)
<1>1. ASSUME NEW i \in 1..n
      PROVE  (((f + 1) % size) + i - 1) % size = (f + 1 + i - 1) % size
  <2>1. i - 1 \in 0..(size - 1) /\ f + 1 + (i - 1) = f + 1 + i - 1
    OBVIOUS
  <2>2. /\ (((f + 1) % size) + (i - 1)) % size = (f + 1 + (i - 1)) % size
        /\ (f + 1) % size \in 0..(size - 1)
    BY <2>1, StepOn
  <2>3. ((f + 1) % size) + (i - 1) = ((f + 1) % size) + i - 1
    BY <2>2
  <2> QED
    BY <2>1, <2>2, <2>3
<1> QED
  BY <1>1 DEF Ring

-----------------------------------------------------------------------------
Statements == {"empty", "full", "mutex", "access", "advance", "leave", "post"}
Contents == (UNION {Items[b] : b \in Buffers}) \cup {Nothing}

TypeOK ==
  /\ empty \in [Buffers -> Nat]
  /\ mutex \in [Buffers -> Nat]
  /\ full \in [Buffers -> Nat]
  /\ pc \in [Procs -> Statements]
  /\ counter \in [Producers -> Nat]
  /\ \A p \in Producers : counter[p] < Len(Route[p])
  /\ forked \in Nat
-----------------------------------------------------------------------------
(* Types *)

\* A process always works on a buffer: the route is never left.
LEMMA TargetIsBuffer ==
  ASSUME TypeOK, NEW p \in Procs
  PROVE  Target(p) \in Buffers
<1>1. CASE p \in Producers
  <2>1. /\ Route[p] \in Seq(Buffers)
        /\ counter[p] + 1 \in 1..Len(Route[p])
    BY <1>1, SemBufferAssumption DEF TypeOK
  <2> QED
    BY <1>1, <2>1 DEF Target
<1>2. CASE p \notin Producers
  BY <1>2, SemBufferAssumption DEF Target, Procs
<1> QED
  BY <1>1, <1>2

\* What the step of a process does to where it is and to the semaphores
Moves(p, from, to) == pc[p] = from /\ pc' = [pc EXCEPT ![p] = to]
Produces(p) == p \in Producers /\ p \notin Consumers
Consumes(p) == p \in Consumers /\ p \notin Producers

\* The ten kinds of step, by what they do to semaphores and to pc.
LEMMA StepKinds ==
  ASSUME NEW p \in Procs, ProcStep(p), NEW b, b = Target(p)
  PROVE  \/ /\ WaitEmpty(p) /\ Produces(p) /\ Moves(p, "empty", "mutex")
            /\ empty[b] > 0 /\ empty' = [empty EXCEPT ![b] = @ - 1]
            /\ UNCHANGED <<mutex, full, in, out, body, counter, product, forked>>
         \/ /\ Write(p) /\ Produces(p) /\ Moves(p, "access", "advance")
            /\ UNCHANGED <<semaphores, in, out, counter, product, forked>>
         \/ /\ AdvanceIn(p) /\ Produces(p) /\ Moves(p, "advance", "leave")
            /\ UNCHANGED <<semaphores, out, body, counter, product, forked>>
         \/ /\ PostFull(p) /\ Produces(p) /\ Moves(p, "post", "empty")
            /\ full' = [full EXCEPT ![b] = @ + 1]
            /\ counter' = [counter EXCEPT ![p] = (@ + 1) % Len(Route[p])]
            /\ UNCHANGED <<empty, mutex, in, out, body, product, forked>>
         \/ /\ WaitFull(p) /\ Consumes(p) /\ Moves(p, "full", "mutex")
            /\ full[b] > 0 /\ full' = [full EXCEPT ![b] = @ - 1]
            /\ UNCHANGED <<empty, mutex, in, out, body, counter, product, forked>>
         \/ /\ Read(p) /\ Consumes(p) /\ Moves(p, "access", "advance")
            /\ UNCHANGED <<semaphores, in, out, body, counter, forked>>
         \/ /\ AdvanceOut(p) /\ Consumes(p) /\ Moves(p, "advance", "leave")
            /\ UNCHANGED <<semaphores, in, body, counter, product, forked>>
         \/ /\ PostEmpty(p) /\ Consumes(p) /\ Moves(p, "post", "full")
            /\ empty' = [empty EXCEPT ![b] = @ + 1]
            /\ UNCHANGED <<mutex, full, in, out, body, counter, product, forked>>
         \/ /\ Enter(p) /\ Moves(p, "mutex", "access")
            /\ mutex[b] > 0 /\ mutex' = [mutex EXCEPT ![b] = @ - 1]
            /\ UNCHANGED <<empty, full, in, out, body, counter, product, forked>>
         \/ /\ Leave(p) /\ Moves(p, "leave", "post")
            /\ mutex' = [mutex EXCEPT ![b] = @ + 1]
            /\ UNCHANGED <<empty, full, in, out, body, counter, product, forked>>
<1> USE DEF Moves, At, GoTo, P, V, semaphores
<1>1. p \in Producers => p \notin Consumers
  BY SemBufferAssumption
<1>2. CASE WaitEmpty(p)
  BY <1>1, <1>2 DEF WaitEmpty, Produces
<1>3. CASE Write(p)
  BY <1>1, <1>3 DEF Write, Produces
<1>4. CASE AdvanceIn(p)
  BY <1>1, <1>4 DEF AdvanceIn, Produces
<1>5. CASE PostFull(p)
  BY <1>1, <1>5 DEF PostFull, Produces
<1>6. CASE WaitFull(p)
  BY <1>1, <1>6 DEF WaitFull, Consumes
<1>7. CASE Read(p)
  BY <1>1, <1>7 DEF Read, Consumes
<1>8. CASE AdvanceOut(p)
  BY <1>1, <1>8 DEF AdvanceOut, Consumes
<1>9. CASE PostEmpty(p)
  BY <1>1, <1>9 DEF PostEmpty, Consumes
<1>10. CASE Enter(p)
  BY <1>10 DEF Enter
<1>11. CASE Leave(p)
  BY <1>11 DEF Leave
<1> QED
  BY <1>2, <1>3, <1>4, <1>5, <1>6, <1>7, <1>8, <1>9, <1>10, <1>11 DEF ProcStep

\* A step of one process leaves the others where they are.
LEMMA OthersStay ==
  ASSUME TypeOK, NEW p \in Procs, ProcStep(p)
  PROVE  /\ \A q \in Procs \ {p} : pc'[q] = pc[q] /\ Target(q)' = Target(q)
         /\ pc[p] # "post" => Target(p)' = Target(p)
         /\ p \notin Producers => Target(p)' = Target(p)
<1>1. PICK b : b = Target(p)
  OBVIOUS
<1>pc. pc \in [Procs -> Statements] /\ counter \in [Producers -> Nat]
  BY DEF TypeOK
<1>2. \A q \in Procs \ {p} : pc'[q] = pc[q]
  BY <1>1, <1>pc, StepKinds DEF Moves
<1>3. \/ counter' = counter
      \/ /\ pc[p] = "post" /\ p \in Producers
         /\ counter' = [counter EXCEPT ![p] = (@ + 1) % Len(Route[p])]
  BY <1>1, StepKinds DEF Moves, Produces
<1> QED
  BY <1>2, <1>3, <1>pc DEF Target

\* Every step, forks included, keeps the types.
LEMMA TypeInductive == TypeOK /\ [Next]_vars => TypeOK'
<1> SUFFICES ASSUME TypeOK, [Next]_vars
             PROVE  TypeOK'
  OBVIOUS
<1>t. /\ empty \in [Buffers -> Nat] /\ mutex \in [Buffers -> Nat]
      /\ full \in [Buffers -> Nat] /\ pc \in [Procs -> Statements]
      /\ counter \in [Producers -> Nat]
      /\ \A p \in Producers : counter[p] < Len(Route[p])
  BY DEF TypeOK
<1>1. CASE UNCHANGED vars
  BY <1>1 DEF TypeOK, vars, semaphores
<1>2. CASE Fork
  BY <1>2 DEF TypeOK, Fork, semaphores
<1>3. ASSUME NEW p \in Procs, ProcStep(p)
      PROVE  TypeOK'
  <2>1. PICK b \in Buffers : b = Target(p)
    BY TargetIsBuffer
  <2>2. pc' \in [Procs -> Statements]
    BY <1>3, <2>1, <1>t, StepKinds DEF Moves, Statements
  <2>3. /\ empty' \in [Buffers -> Nat] /\ mutex' \in [Buffers -> Nat]
        /\ full' \in [Buffers -> Nat]
    <3>1. empty' \in [Buffers -> Nat]
      <4>1. \/ empty' = empty \/ empty' = [empty EXCEPT ![b] = @ + 1]
            \/ empty[b] > 0 /\ empty' = [empty EXCEPT ![b] = @ - 1]
        BY <1>3, <2>1, StepKinds DEF semaphores
      <4>2. empty \in [Buffers -> Nat]
        BY <1>t
      <4> QED
        BY <4>1, <4>2, <2>1
    <3>2. mutex' \in [Buffers -> Nat]
      <4>1. \/ mutex' = mutex \/ mutex' = [mutex EXCEPT ![b] = @ + 1]
            \/ mutex[b] > 0 /\ mutex' = [mutex EXCEPT ![b] = @ - 1]
        BY <1>3, <2>1, StepKinds DEF semaphores
      <4>2. mutex \in [Buffers -> Nat]
        BY <1>t
      <4> QED
        BY <4>1, <4>2, <2>1
    <3>3. full' \in [Buffers -> Nat]
      <4>1. \/ full' = full \/ full' = [full EXCEPT ![b] = @ + 1]
            \/ full[b] > 0 /\ full' = [full EXCEPT ![b] = @ - 1]
        BY <1>3, <2>1, StepKinds DEF semaphores
      <4>2. full \in [Buffers -> Nat]
        BY <1>t
      <4> QED
        BY <4>1, <4>2, <2>1
    <3> QED
      BY <3>1, <3>2, <3>3
  <2>4. p \in Producers => (counter[p] + 1) % Len(Route[p]) \in 0..(Len(Route[p]) - 1)
    BY <1>t, SemBufferAssumption
  <2>5. counter' \in [Producers -> Nat] /\ \A q \in Producers : counter'[q] < Len(Route[q])
    <3>1. CASE counter' = counter
      BY <3>1, <1>t
    <3>2. CASE p \in Producers
               /\ counter' = [counter EXCEPT ![p] = (@ + 1) % Len(Route[p])]
      <4>1. Len(Route[p]) \in Nat \ {0}
        BY <3>2, SemBufferAssumption
      <4> QED
        BY <3>2, <4>1, <2>4, <1>t
    <3> QED
      BY <1>3, <2>1, <3>1, <3>2, StepKinds DEF Produces
  <2>6. forked' = forked
    BY <1>3, <2>1, StepKinds
  <2> QED
    BY <2>2, <2>3, <2>5, <2>6 DEF TypeOK
<1> QED
  BY <1>1, <1>2, <1>3 DEF Next

\* The semaphores are natural numbers, and each producer is at a place of its
\* route.
THEOREM TypeCorrect == Spec => []TypeOK
<1>1. Init => TypeOK
  BY SemBufferAssumption DEF Init, TypeOK, Statements
<1> QED
  BY <1>1, TypeInductive, PTL DEF Spec
-----------------------------------------------------------------------------
(* Exclusion.  The right to be in the critical section of a buffer is its   *)
(* semaphore mutex, or exactly one process has it.                          *)

InCSOf(p, b) == Target(p) = b /\ InCriticalSection(p)

Exclusion ==
  \A b \in Buffers :
    /\ mutex[b] \in {0, 1}
    /\ mutex[b] = 1 => \A p \in Procs : ~InCSOf(p, b)
    /\ mutex[b] = 0 => \E p \in Procs : InCSOf(p, b)
    /\ \A p, q \in Procs : InCSOf(p, b) /\ InCSOf(q, b) => p = q

\* Every step keeps the account of mutex.
LEMMA ExclusionInductive ==
  ASSUME TypeOK, Exclusion, NEW p \in Procs, ProcStep(p)
  PROVE  Exclusion'
<1>1. PICK b \in Buffers : b = Target(p)
  BY TargetIsBuffer
<1>2. \A q \in Procs \ {p} : pc'[q] = pc[q] /\ Target(q)' = Target(q)
  BY OthersStay
<1>t. mutex \in [Buffers -> Nat] /\ pc \in [Procs -> Statements]
  BY DEF TypeOK
<1>3. pc[p] # "post" => Target(p)' = b
  BY <1>1, OthersStay
<1>4. /\ \A a \in Buffers \ {b} : mutex'[a] = mutex[a]
      /\ \/ ~InCriticalSection(p) /\ InCSOf(p, b)' /\ mutex[b] > 0
            /\ mutex'[b] = mutex[b] - 1
         \/ InCSOf(p, b) /\ ~InCriticalSection(p)' /\ mutex'[b] = mutex[b] + 1
         \/ /\ mutex'[b] = mutex[b]
            /\ \/ InCSOf(p, b) /\ InCSOf(p, b)'
               \/ ~InCriticalSection(p) /\ ~InCriticalSection(p)'
  BY <1>1, <1>3, <1>t, StepKinds
     DEF Moves, InCSOf, InCriticalSection, semaphores
<1> SUFFICES ASSUME NEW a \in Buffers
             PROVE  /\ mutex'[a] \in {0, 1}
                    /\ mutex'[a] = 1 => \A q \in Procs : ~InCSOf(q, a)'
                    /\ mutex'[a] = 0 => \E q \in Procs : InCSOf(q, a)'
                    /\ \A q, r \in Procs : InCSOf(q, a)' /\ InCSOf(r, a)' => q = r
  BY DEF Exclusion
<1>5. \A q \in Procs \ {p} : InCSOf(q, a)' <=> InCSOf(q, a)
  BY <1>2 DEF InCSOf, InCriticalSection
<1>e. /\ mutex[a] \in {0, 1}
      /\ mutex[a] = 1 => \A q \in Procs : ~InCSOf(q, a)
      /\ mutex[a] = 0 => \E q \in Procs : InCSOf(q, a)
      /\ \A q, r \in Procs : InCSOf(q, a) /\ InCSOf(r, a) => q = r
  BY DEF Exclusion
<1>6. CASE a # b
  <2>1. ~InCSOf(p, a) /\ ~InCSOf(p, a)'
    BY <1>1, <1>4, <1>6 DEF InCSOf
  <2> QED
    BY <2>1, <1>4, <1>5, <1>6, <1>e
<1>7. CASE a = b
  <2>1. ~InCriticalSection(p) => ~InCSOf(p, a)
    BY DEF InCSOf
  <2>2. ~InCriticalSection(p)' => ~InCSOf(p, a)'
    BY DEF InCSOf
  <2> HIDE DEF InCSOf
  <2> QED
    BY <2>1, <2>2, <1>4, <1>5, <1>7, <1>e
<1> QED
  BY <1>6, <1>7

\* mutex is free, or one process is between its two operations.
LEMMA ExclusionAlways == Spec => []Exclusion
<1>1. Init => Exclusion
  BY DEF Init, Exclusion, InCSOf, InCriticalSection
<1>2. TypeOK /\ Exclusion /\ [Next]_vars => Exclusion'
  <2>1. Exclusion /\ UNCHANGED vars => Exclusion'
    BY DEF vars, semaphores, Exclusion, InCSOf, InCriticalSection, Target
  <2>2. Exclusion /\ Fork => Exclusion'
    BY DEF Fork, semaphores, Exclusion, InCSOf, InCriticalSection, Target
  <2> QED
    BY <2>1, <2>2, ExclusionInductive DEF Next
<1> QED
  BY <1>1, <1>2, TypeCorrect, PTL DEF Spec

\* in, out and body are plain shared memory, safe because at most one process
\* is between mutex->p() and mutex->v() of a buffer.
THEOREM MutualExclusionAlways == Spec => []MutualExclusion
<1>1. TypeOK /\ Exclusion => MutualExclusion
  BY TargetIsBuffer DEF Exclusion, MutualExclusion, InCSOf
<1> QED
  BY <1>1, TypeCorrect, ExclusionAlways, PTL
-----------------------------------------------------------------------------
(* Every place of a buffer is accounted for: it is free and counted by      *)
(* empty, claimed by a producer that has not written yet, holds a product,  *)
(* or has been read by a consumer that has not posted empty yet.            *)

Group(R, S, b) == {p \in R : Target(p) = b /\ pc[p] \in S}

Claiming == {"mutex", "access"}
Done == {"advance", "leave", "post"}

Filling(b) == Group(Producers, Claiming, b)
Unposted(b) == Group(Producers, Done, b)
Unread(b) == Group(Consumers, Claiming, b)
Freeing(b) == Group(Consumers, Done, b)

Accounted ==
  \A b \in Buffers :
    /\ IsFiniteSet(Filling(b)) /\ IsFiniteSet(Unposted(b))
    /\ IsFiniteSet(Unread(b)) /\ IsFiniteSet(Freeing(b))
    /\ empty[b] + Cardinality(Filling(b)) + Stored(b) + Cardinality(Freeing(b))
         = Size

\* A group of processes at some statements grows or shrinks by the process
\* that moves, and by nobody else.
LEMMA GroupSteps ==
  ASSUME TypeOK, NEW p \in Procs, ProcStep(p), NEW b \in Buffers, b = Target(p),
         NEW R \in SUBSET Procs, NEW S, "empty" \notin S, "full" \notin S,
         NEW a \in Buffers, IsFiniteSet(Group(R, S, a))
  PROVE  /\ IsFiniteSet(Group(R, S, a)')
         /\ (a = b /\ p \in R /\ pc[p] \notin S /\ pc'[p] \in S) =>
              Cardinality(Group(R, S, a)') = Cardinality(Group(R, S, a)) + 1
         /\ (a = b /\ p \in R /\ pc[p] \in S /\ pc'[p] \notin S) =>
              /\ Cardinality(Group(R, S, a)') = Cardinality(Group(R, S, a)) - 1
              /\ Cardinality(Group(R, S, a)) > 0
         /\ (a # b \/ p \notin R \/ (pc[p] \in S <=> pc'[p] \in S)) =>
              Cardinality(Group(R, S, a)') = Cardinality(Group(R, S, a))
<1>1. \A q \in Procs \ {p} : pc'[q] = pc[q] /\ Target(q)' = Target(q)
  BY OthersStay
<1>2. \A q \in R \ {p} : q \in Group(R, S, a)' <=> q \in Group(R, S, a)
  BY <1>1 DEF Group
<1>3. Group(R, S, a) \subseteq R /\ Group(R, S, a)' \subseteq R
  BY DEF Group
<1>4. pc'[p] \in S => Target(p)' = b
  <2>1. pc[p] # "post" => Target(p)' = b
    BY OthersStay
  <2>2. CASE pc[p] = "post"
    <3>1. pc'[p] \in {"empty", "full"}
      <4>1. pc \in [Procs -> Statements]
        BY DEF TypeOK
      <4>2. PICK from, to : /\ Moves(p, from, to)
                            /\ from = "post" => to \in {"empty", "full"}
        BY StepKinds
      <4> QED
        BY <2>2, <4>1, <4>2 DEF Moves
    <3> QED
      BY <3>1
  <2> QED
    BY <2>1, <2>2
<1>5. /\ p \in Group(R, S, a) <=> p \in R /\ a = b /\ pc[p] \in S
      /\ p \in Group(R, S, a)' <=> p \in R /\ a = b /\ pc'[p] \in S
  BY <1>4 DEF Group
<1>6. CASE p \notin Group(R, S, a) /\ p \in Group(R, S, a)'
  <2>1. Group(R, S, a)' = Group(R, S, a) \cup {p}
    BY <1>2, <1>3, <1>6
  <2>2. /\ IsFiniteSet(Group(R, S, a)')
        /\ Cardinality(Group(R, S, a)') = Cardinality(Group(R, S, a)) + 1
    BY <2>1, <1>6, FS_AddElement
  <2> QED
    BY <2>2, <1>5, <1>6
<1>7. CASE p \in Group(R, S, a) /\ p \notin Group(R, S, a)'
  <2>1. Group(R, S, a)' = Group(R, S, a) \ {p}
    BY <1>2, <1>3, <1>7
  <2>2. /\ IsFiniteSet(Group(R, S, a)')
        /\ Cardinality(Group(R, S, a)') = Cardinality(Group(R, S, a)) - 1
    BY <2>1, <1>7, FS_RemoveElement
  <2>3. Cardinality(Group(R, S, a)) # 0 /\ Cardinality(Group(R, S, a)) \in Nat
    BY <1>7, FS_EmptySet, FS_CardinalityType
  <2> QED
    BY <2>2, <2>3, <1>5, <1>7
<1>8. CASE p \in Group(R, S, a) <=> p \in Group(R, S, a)'
  <2>1. Group(R, S, a)' = Group(R, S, a)
    BY <1>2, <1>3, <1>8
  <2> QED
    BY <2>1, <1>5, <1>8
<1> QED
  BY <1>6, <1>7, <1>8

\* Every step moves a place from one account to the next.
LEMMA AccountedSteps ==
  ASSUME TypeOK, Accounted, NEW p \in Procs, ProcStep(p),
         NEW b \in Buffers, b = Target(p), NEW a \in Buffers
  PROVE  /\ IsFiniteSet(Filling(a))' /\ IsFiniteSet(Unposted(a))'
         /\ IsFiniteSet(Unread(a))' /\ IsFiniteSet(Freeing(a))'
         /\ empty'[a] + Cardinality(Filling(a)') + Stored(a)'
              + Cardinality(Freeing(a)') = Size
         /\ Stored(a) \in Nat /\ Stored(a)' \in Nat
         /\ a # b => Stored(a)' = Stored(a)
         /\ a = b /\ Produces(p) /\ Moves(p, "access", "advance") =>
              Stored(a)' = Stored(a) + 1 /\ Stored(a) < Size
         /\ a = b /\ Consumes(p) /\ Moves(p, "access", "advance") =>
              Stored(a)' = Stored(a) - 1 /\ Stored(a) > 0
         /\ a = b /\ ~Moves(p, "access", "advance") => Stored(a)' = Stored(a)
<1>1. /\ IsFiniteSet(Filling(a)) /\ IsFiniteSet(Unposted(a))
      /\ IsFiniteSet(Unread(a)) /\ IsFiniteSet(Freeing(a))
      /\ empty[a] + Cardinality(Filling(a)) + Stored(a) + Cardinality(Freeing(a))
           = Size
  BY DEF Accounted
<1>t. /\ empty \in [Buffers -> Nat] /\ full \in [Buffers -> Nat]
      /\ pc \in [Procs -> Statements] /\ Size \in Nat
  BY SemBufferAssumption DEF TypeOK
<1>r. Producers \in SUBSET Procs /\ Consumers \in SUBSET Procs
  BY DEF Procs
<1> DEFINE f == Cardinality(Filling(a))
           u == Cardinality(Unposted(a))
           v == Cardinality(Unread(a))
           g == Cardinality(Freeing(a))
           f2 == Cardinality(Filling(a)')
           u2 == Cardinality(Unposted(a)')
           v2 == Cardinality(Unread(a)')
           g2 == Cardinality(Freeing(a)')
<1>k. "empty" \notin Claiming /\ "full" \notin Claiming
      /\ "empty" \notin Done /\ "full" \notin Done
  BY DEF Claiming, Done
<1>2. /\ IsFiniteSet(Filling(a)')
      /\ (a = b /\ p \in Producers /\ pc[p] \notin Claiming /\ pc'[p] \in Claiming)
           => f2 = f + 1
      /\ (a = b /\ p \in Producers /\ pc[p] \in Claiming /\ pc'[p] \notin Claiming)
           => f2 = f - 1 /\ f > 0
      /\ (a # b \/ p \notin Producers \/ (pc[p] \in Claiming <=> pc'[p] \in Claiming))
           => f2 = f
  <2>1. Filling(a) = Group(Producers, Claiming, a) /\ Filling(a)' = Group(Producers, Claiming, a)'
    BY DEF Filling
  <2>2. Producers \in SUBSET Procs /\ IsFiniteSet(Group(Producers, Claiming, a))
    BY <1>1, <1>r, <2>1
  <2> QED
    BY <2>1, <2>2, <1>k, GroupSteps
<1>3. /\ IsFiniteSet(Unposted(a)')
      /\ (a = b /\ p \in Producers /\ pc[p] \notin Done /\ pc'[p] \in Done)
           => u2 = u + 1
      /\ (a = b /\ p \in Producers /\ pc[p] \in Done /\ pc'[p] \notin Done)
           => u2 = u - 1 /\ u > 0
      /\ (a # b \/ p \notin Producers \/ (pc[p] \in Done <=> pc'[p] \in Done))
           => u2 = u
  <2>1. Unposted(a) = Group(Producers, Done, a) /\ Unposted(a)' = Group(Producers, Done, a)'
    BY DEF Unposted
  <2>2. Producers \in SUBSET Procs /\ IsFiniteSet(Group(Producers, Done, a))
    BY <1>1, <1>r, <2>1
  <2> QED
    BY <2>1, <2>2, <1>k, GroupSteps
<1>4. /\ IsFiniteSet(Unread(a)')
      /\ (a = b /\ p \in Consumers /\ pc[p] \notin Claiming /\ pc'[p] \in Claiming)
           => v2 = v + 1
      /\ (a = b /\ p \in Consumers /\ pc[p] \in Claiming /\ pc'[p] \notin Claiming)
           => v2 = v - 1 /\ v > 0
      /\ (a # b \/ p \notin Consumers \/ (pc[p] \in Claiming <=> pc'[p] \in Claiming))
           => v2 = v
  <2>1. Unread(a) = Group(Consumers, Claiming, a) /\ Unread(a)' = Group(Consumers, Claiming, a)'
    BY DEF Unread
  <2>2. Consumers \in SUBSET Procs /\ IsFiniteSet(Group(Consumers, Claiming, a))
    BY <1>1, <1>r, <2>1
  <2> QED
    BY <2>1, <2>2, <1>k, GroupSteps
<1>5. /\ IsFiniteSet(Freeing(a)')
      /\ (a = b /\ p \in Consumers /\ pc[p] \notin Done /\ pc'[p] \in Done)
           => g2 = g + 1
      /\ (a = b /\ p \in Consumers /\ pc[p] \in Done /\ pc'[p] \notin Done)
           => g2 = g - 1 /\ g > 0
      /\ (a # b \/ p \notin Consumers \/ (pc[p] \in Done <=> pc'[p] \in Done))
           => g2 = g
  <2>1. Freeing(a) = Group(Consumers, Done, a) /\ Freeing(a)' = Group(Consumers, Done, a)'
    BY DEF Freeing
  <2>2. Consumers \in SUBSET Procs /\ IsFiniteSet(Group(Consumers, Done, a))
    BY <1>1, <1>r, <2>1
  <2> QED
    BY <2>1, <2>2, <1>k, GroupSteps
<1>6. /\ f \in Nat /\ u \in Nat /\ v \in Nat /\ g \in Nat
      /\ f2 \in Nat /\ u2 \in Nat /\ v2 \in Nat /\ g2 \in Nat
  BY <1>1, <1>2, <1>3, <1>4, <1>5, FS_CardinalityType
<1>7. Stored(a) = full[a] + u + v /\ Stored(a)' = full'[a] + u2 + v2
  BY DEF Stored, Unposted, Unread, Group, Claiming, Done
<1> HIDE DEF f, u, v, g, f2, u2, v2, g2
<1>8. CASE a # b
  <2>1. empty'[a] = empty[a] /\ full'[a] = full[a]
    BY <1>8, <1>t, StepKinds DEF semaphores
  <2>2. f2 = f /\ u2 = u /\ v2 = v /\ g2 = g
    BY <1>8, <1>2, <1>3, <1>4, <1>5
  <2> QED
    BY <2>1, <2>2, <1>1, <1>2, <1>3, <1>4, <1>5, <1>6, <1>7, <1>8, <1>t
       DEF f, u, v, g, f2, u2, v2, g2
<1>9. CASE a = b
  <2>m. \A from, to : Moves(p, from, to) => pc[p] = from /\ pc'[p] = to
    BY <1>t DEF Moves
  <2>1. \/ /\ Produces(p) /\ Moves(p, "empty", "mutex") /\ empty[a] > 0
           /\ empty'[a] = empty[a] - 1 /\ full'[a] = full[a]
        \/ /\ Produces(p) /\ Moves(p, "access", "advance")
           /\ empty'[a] = empty[a] /\ full'[a] = full[a]
        \/ /\ Produces(p) /\ Moves(p, "post", "empty")
           /\ empty'[a] = empty[a] /\ full'[a] = full[a] + 1
        \/ /\ Consumes(p) /\ Moves(p, "full", "mutex") /\ full[a] > 0
           /\ empty'[a] = empty[a] /\ full'[a] = full[a] - 1
        \/ /\ Consumes(p) /\ Moves(p, "access", "advance")
           /\ empty'[a] = empty[a] /\ full'[a] = full[a]
        \/ /\ Consumes(p) /\ Moves(p, "post", "full")
           /\ empty'[a] = empty[a] + 1 /\ full'[a] = full[a]
        \/ /\ Moves(p, "advance", "leave") \/ Moves(p, "mutex", "access")
                \/ Moves(p, "leave", "post")
           /\ empty'[a] = empty[a] /\ full'[a] = full[a]
    BY <1>9, <1>t, StepKinds DEF semaphores
  <2>2. /\ empty[a] \in Nat /\ full[a] \in Nat
    BY <1>t
  <2>3. CASE Produces(p) /\ Moves(p, "empty", "mutex") /\ empty[a] > 0
             /\ empty'[a] = empty[a] - 1 /\ full'[a] = full[a]
    <3>1. f2 = f + 1 /\ u2 = u /\ v2 = v /\ g2 = g
      BY <2>3, <2>m, <1>9, <1>2, <1>3, <1>4, <1>5
       DEF Produces, Claiming, Done
    <3> QED
      BY <3>1, <2>2, <2>3, <2>m, <1>1, <1>2, <1>3, <1>4, <1>5, <1>6, <1>7, <1>9
         DEF f, u, v, g, f2, u2, v2, g2
  <2>4. CASE Produces(p) /\ Moves(p, "access", "advance")
             /\ empty'[a] = empty[a] /\ full'[a] = full[a]
    <3>1. f2 = f - 1 /\ f > 0 /\ u2 = u + 1 /\ v2 = v /\ g2 = g
      BY <2>4, <2>m, <1>9, <1>2, <1>3, <1>4, <1>5
       DEF Produces, Claiming, Done
    <3>2. ~Consumes(p)
      BY <2>4 DEF Produces, Consumes
    <3> QED
      BY <3>1, <3>2, <2>2, <2>4, <1>1, <1>2, <1>3, <1>4, <1>5, <1>6, <1>7,
         <1>9, <1>t
         DEF f, u, v, g, f2, u2, v2, g2
  <2>5. CASE Produces(p) /\ Moves(p, "post", "empty")
             /\ empty'[a] = empty[a] /\ full'[a] = full[a] + 1
    <3>1. f2 = f /\ u2 = u - 1 /\ u > 0 /\ v2 = v /\ g2 = g
      BY <2>5, <2>m, <1>9, <1>2, <1>3, <1>4, <1>5
       DEF Produces, Claiming, Done
    <3> QED
      BY <3>1, <2>2, <2>5, <2>m, <1>1, <1>2, <1>3, <1>4, <1>5, <1>6, <1>7, <1>9
         DEF f, u, v, g, f2, u2, v2, g2
  <2>6. CASE Consumes(p) /\ Moves(p, "full", "mutex") /\ full[a] > 0
             /\ empty'[a] = empty[a] /\ full'[a] = full[a] - 1
    <3>1. f2 = f /\ u2 = u /\ v2 = v + 1 /\ g2 = g
      BY <2>6, <2>m, <1>9, <1>2, <1>3, <1>4, <1>5
       DEF Consumes, Claiming, Done
    <3> QED
      BY <3>1, <2>2, <2>6, <2>m, <1>1, <1>2, <1>3, <1>4, <1>5, <1>6, <1>7, <1>9
         DEF f, u, v, g, f2, u2, v2, g2
  <2>7. CASE Consumes(p) /\ Moves(p, "access", "advance")
             /\ empty'[a] = empty[a] /\ full'[a] = full[a]
    <3>1. f2 = f /\ u2 = u /\ v2 = v - 1 /\ v > 0 /\ g2 = g + 1
      BY <2>7, <2>m, <1>9, <1>2, <1>3, <1>4, <1>5
       DEF Consumes, Claiming, Done
    <3>2. ~Produces(p)
      BY <2>7 DEF Produces, Consumes
    <3> QED
      BY <3>1, <3>2, <2>2, <2>7, <1>1, <1>2, <1>3, <1>4, <1>5, <1>6, <1>7, <1>9
         DEF f, u, v, g, f2, u2, v2, g2
  <2>8. CASE Consumes(p) /\ Moves(p, "post", "full")
             /\ empty'[a] = empty[a] + 1 /\ full'[a] = full[a]
    <3>1. f2 = f /\ u2 = u /\ v2 = v /\ g2 = g - 1 /\ g > 0
      BY <2>8, <2>m, <1>9, <1>2, <1>3, <1>4, <1>5
       DEF Consumes, Claiming, Done
    <3> QED
      BY <3>1, <2>2, <2>8, <2>m, <1>1, <1>2, <1>3, <1>4, <1>5, <1>6, <1>7, <1>9
         DEF f, u, v, g, f2, u2, v2, g2
  <2>9. CASE /\ Moves(p, "advance", "leave") \/ Moves(p, "mutex", "access")
                  \/ Moves(p, "leave", "post")
             /\ empty'[a] = empty[a] /\ full'[a] = full[a]
    <3>1. f2 = f /\ u2 = u /\ v2 = v /\ g2 = g
      BY <2>9, <2>m, <1>9, <1>2, <1>3, <1>4, <1>5 DEF Claiming, Done
    <3> QED
      BY <3>1, <2>2, <2>9, <2>m, <1>1, <1>2, <1>3, <1>4, <1>5, <1>6, <1>7, <1>9
         DEF f, u, v, g, f2, u2, v2, g2
  <2> QED
    BY <2>1, <2>3, <2>4, <2>5, <2>6, <2>7, <2>8, <2>9
<1> QED
  BY <1>8, <1>9

\* Every place of a buffer is always in one account.
LEMMA AccountedAlways == Spec => []Accounted
<1>1. Init => Accounted
  <2> SUFFICES ASSUME Init, NEW b \in Buffers
               PROVE  /\ IsFiniteSet(Filling(b)) /\ IsFiniteSet(Unposted(b))
                      /\ IsFiniteSet(Unread(b)) /\ IsFiniteSet(Freeing(b))
                      /\ empty[b] + Cardinality(Filling(b)) + Stored(b)
                           + Cardinality(Freeing(b)) = Size
    BY DEF Accounted
  <2>1. /\ Filling(b) = {} /\ Unposted(b) = {}
        /\ Unread(b) = {} /\ Freeing(b) = {}
    BY DEF Init, Filling, Unposted, Unread, Freeing, Group, Procs, Claiming, Done
  <2>2. empty[b] = Size /\ full[b] = 0 /\ Size \in Nat
    BY SemBufferAssumption DEF Init
  <2>3. Stored(b) = full[b] + Cardinality(Unposted(b)) + Cardinality(Unread(b))
    BY DEF Stored, Unposted, Unread, Group, Claiming, Done
  <2> QED
    BY <2>1, <2>2, <2>3, FS_EmptySet
<1>2. TypeOK /\ Accounted /\ [Next]_vars => Accounted'
  <2>1. ASSUME Accounted, UNCHANGED vars \/ Fork
        PROVE  Accounted'
    <3>1. UNCHANGED <<empty, full, pc, counter>>
      BY <2>1 DEF Fork, vars, semaphores
    <3>2. \A p : Target(p)' = Target(p)
      BY <3>1 DEF Target
    <3>3. ASSUME NEW b
          PROVE  /\ Filling(b)' = Filling(b) /\ Unposted(b)' = Unposted(b)
                 /\ Unread(b)' = Unread(b) /\ Freeing(b)' = Freeing(b)
      BY <3>1, <3>2 DEF Filling, Unposted, Unread, Freeing, Group
    <3>4. ASSUME NEW b
          PROVE  Stored(b)' = Stored(b)
      BY <3>1, <3>2 DEF Stored
    <3> QED
      BY <2>1, <3>1, <3>3, <3>4 DEF Accounted
  <2>2. ASSUME TypeOK, Accounted, NEW p \in Procs, ProcStep(p)
        PROVE  Accounted'
    BY <2>2, TargetIsBuffer, AccountedSteps DEF Accounted
  <2> QED
    BY <2>1, <2>2 DEF Next
<1> QED
  BY <1>1, <1>2, TypeCorrect, PTL DEF Spec
-----------------------------------------------------------------------------
(* The ring: in is as far ahead of the oldest product as there are          *)
(* products, but for the moments between a write and its in = ..., and      *)
(* between a read and its out = ....                                        *)

HasWritten(b) == \E p \in Producers : Target(p) = b /\ pc[p] = "advance"
HasRead(b) == \E c \in Consumers : Target(c) = b /\ pc[c] = "advance"
Written(b) == IF HasWritten(b) THEN Stored(b) - 1 ELSE Stored(b)

RingInv ==
  /\ in \in [Buffers -> Nat] /\ out \in [Buffers -> Nat]
  /\ body \in [Buffers -> [0..(Size - 1) -> Contents]]
  /\ \A b \in Buffers :
       Size # 0 => /\ in[b] \in 0..(Size - 1) /\ out[b] \in 0..(Size - 1)
                   /\ in[b] = (First(b) + Written(b)) % Size

\* Whoever is at in, out or body of a buffer is the only one there.
LEMMA AtTheRing ==
  ASSUME TypeOK, Exclusion, NEW p \in Procs, ProcStep(p),
         NEW b \in Buffers, b = Target(p)
  PROVE  /\ \A a \in Buffers \ {b} : /\ HasRead(a)' = HasRead(a)
                                     /\ HasWritten(a)' = HasWritten(a)
         /\ pc[p] \in {"access", "advance"} =>
              /\ HasRead(b) <=> p \in Consumers /\ pc[p] = "advance"
              /\ HasRead(b)' <=> p \in Consumers /\ pc'[p] = "advance"
              /\ HasWritten(b) <=> p \in Producers /\ pc[p] = "advance"
              /\ HasWritten(b)' <=> p \in Producers /\ pc'[p] = "advance"
         /\ (pc[p] # "advance" /\ pc'[p] # "advance") =>
              HasRead(b)' = HasRead(b) /\ HasWritten(b)' = HasWritten(b)
<1>1. \A q \in Procs \ {p} : pc'[q] = pc[q] /\ Target(q)' = Target(q)
  BY OthersStay
<1>2. Consumers \subseteq Procs /\ Producers \subseteq Procs
  BY DEF Procs
<1>3. pc[p] \in {"access", "advance"} =>
        /\ Target(p)' = b
        /\ \A q \in Procs \ {p} : pc[q] = "advance" => Target(q) # b
  BY OthersStay DEF Exclusion, InCSOf, InCriticalSection
<1>4. pc'[p] = "advance" => Target(p)' = b
  BY OthersStay, StepKinds DEF Moves, TypeOK
<1>5. ASSUME NEW a \in Buffers \ {b}
      PROVE  HasRead(a)' = HasRead(a) /\ HasWritten(a)' = HasWritten(a)
  BY <1>1, <1>2, <1>4 DEF HasRead, HasWritten
<1>6. ASSUME pc[p] \in {"access", "advance"}
      PROVE  /\ HasRead(b) <=> p \in Consumers /\ pc[p] = "advance"
             /\ HasRead(b)' <=> p \in Consumers /\ pc'[p] = "advance"
             /\ HasWritten(b) <=> p \in Producers /\ pc[p] = "advance"
             /\ HasWritten(b)' <=> p \in Producers /\ pc'[p] = "advance"
  BY <1>1, <1>2, <1>3, <1>6 DEF HasRead, HasWritten
<1>7. ASSUME pc[p] # "advance", pc'[p] # "advance"
      PROVE  HasRead(b)' = HasRead(b) /\ HasWritten(b)' = HasWritten(b)
  BY <1>1, <1>2, <1>7 DEF HasRead, HasWritten
<1> QED
  BY <1>5, <1>6, <1>7

\* There are never more products than places; one that was just written is
\* among them, and the place of one that was just read is not.
LEMMA StoredBounds ==
  ASSUME TypeOK, Accounted, NEW b \in Buffers
  PROVE  /\ Size \in Nat /\ Stored(b) \in 0..Size
         /\ HasWritten(b) => Stored(b) > 0
         /\ HasRead(b) => Stored(b) < Size
<1>1. /\ empty[b] \in Nat /\ full[b] \in Nat /\ Size \in Nat
  BY SemBufferAssumption DEF TypeOK
<1>2. /\ IsFiniteSet(Filling(b)) /\ IsFiniteSet(Unposted(b))
      /\ IsFiniteSet(Unread(b)) /\ IsFiniteSet(Freeing(b))
      /\ empty[b] + Cardinality(Filling(b)) + Stored(b) + Cardinality(Freeing(b))
           = Size
  BY DEF Accounted
<1>3. /\ Cardinality(Filling(b)) \in Nat /\ Cardinality(Unposted(b)) \in Nat
      /\ Cardinality(Unread(b)) \in Nat /\ Cardinality(Freeing(b)) \in Nat
  BY <1>2, FS_CardinalityType
<1>4. Stored(b) = full[b] + Cardinality(Unposted(b)) + Cardinality(Unread(b))
  BY DEF Stored, Unposted, Unread, Group, Claiming, Done
<1>5. HasWritten(b) => Unposted(b) # {}
  BY DEF HasWritten, Unposted, Group, Done
<1>6. HasRead(b) => Freeing(b) # {}
  BY DEF HasRead, Freeing, Group, Done
<1>7. /\ Unposted(b) # {} => Cardinality(Unposted(b)) # 0
      /\ Freeing(b) # {} => Cardinality(Freeing(b)) # 0
  BY <1>2, FS_EmptySet
<1>8. PICK e, f, u, v, g, q :
        /\ e = empty[b] /\ q = Stored(b)
        /\ f = Cardinality(Filling(b)) /\ u = Cardinality(Unposted(b))
        /\ v = Cardinality(Unread(b)) /\ g = Cardinality(Freeing(b))
  OBVIOUS
<1>9. /\ e \in Nat /\ f \in Nat /\ u \in Nat /\ v \in Nat /\ g \in Nat
      /\ q \in Nat /\ e + f + q + g = Size /\ q >= u
  BY <1>1, <1>2, <1>3, <1>4, <1>8
<1>10. q \in 0..Size /\ (g > 0 => q < Size) /\ (u > 0 => q > 0)
  BY <1>1, <1>9
<1> QED
  BY <1>1, <1>3, <1>5, <1>6, <1>7, <1>8, <1>10

\* The steps of p that reach the ring, with what they find there
LEMMA RingSteps ==
  ASSUME TypeOK, Exclusion, Accounted, RingInv, NEW p \in Procs, ProcStep(p),
         NEW b \in Buffers, b = Target(p)
  PROVE  \/ /\ Write(p) /\ Produces(p) /\ out' = out /\ in' = in
            /\ product' = product /\ Stored(b) \in 0..(Size - 1)
            /\ Stored(b)' = Stored(b) + 1
            /\ ~HasRead(b) /\ ~HasRead(b)' /\ ~HasWritten(b) /\ HasWritten(b)'
         \/ /\ AdvanceIn(p) /\ Produces(p) /\ out' = out /\ body' = body
            /\ product' = product /\ Stored(b) \in 1..Size
            /\ Stored(b)' = Stored(b)
            /\ ~HasRead(b) /\ ~HasRead(b)' /\ HasWritten(b) /\ ~HasWritten(b)'
         \/ /\ Read(p) /\ Consumes(p) /\ out' = out /\ in' = in /\ body' = body
            /\ Stored(b) \in 1..Size /\ Stored(b)' = Stored(b) - 1
            /\ ~HasRead(b) /\ HasRead(b)' /\ ~HasWritten(b) /\ ~HasWritten(b)'
         \/ /\ AdvanceOut(p) /\ Consumes(p) /\ in' = in /\ body' = body
            /\ product' = product /\ Stored(b) \in 0..(Size - 1)
            /\ Stored(b)' = Stored(b)
            /\ HasRead(b) /\ ~HasRead(b)' /\ ~HasWritten(b) /\ ~HasWritten(b)'
         \/ /\ UNCHANGED <<in, out, body, product>> /\ Stored(b)' = Stored(b)
            /\ HasRead(b)' = HasRead(b) /\ HasWritten(b)' = HasWritten(b)
<1>pc. pc \in [Procs -> Statements]
  BY DEF TypeOK
<1>m. \A from, to : Moves(p, from, to) => pc[p] = from /\ pc'[p] = to
  BY <1>pc DEF Moves
<1>s. /\ Stored(b) \in 0..Size /\ Size \in Nat
      /\ HasWritten(b) => Stored(b) > 0
      /\ HasRead(b) => Stored(b) < Size
  BY StoredBounds
<1>a. /\ Produces(p) /\ Moves(p, "access", "advance") =>
           Stored(b)' = Stored(b) + 1 /\ Stored(b) < Size
      /\ Consumes(p) /\ Moves(p, "access", "advance") =>
           Stored(b)' = Stored(b) - 1 /\ Stored(b) > 0
      /\ ~Moves(p, "access", "advance") => Stored(b)' = Stored(b)
  BY AccountedSteps
<1>r. /\ pc[p] \in {"access", "advance"} =>
           /\ HasRead(b) <=> p \in Consumers /\ pc[p] = "advance"
           /\ HasRead(b)' <=> p \in Consumers /\ pc'[p] = "advance"
           /\ HasWritten(b) <=> p \in Producers /\ pc[p] = "advance"
           /\ HasWritten(b)' <=> p \in Producers /\ pc'[p] = "advance"
      /\ (pc[p] # "advance" /\ pc'[p] # "advance") =>
           HasRead(b)' = HasRead(b) /\ HasWritten(b)' = HasWritten(b)
  BY AtTheRing
<1>1. CASE Write(p) /\ Produces(p) /\ Moves(p, "access", "advance")
           /\ UNCHANGED <<semaphores, in, out, counter, product, forked>>
  BY <1>1, <1>m, <1>s, <1>a, <1>r DEF Produces
<1>2. CASE AdvanceIn(p) /\ Produces(p) /\ Moves(p, "advance", "leave")
           /\ UNCHANGED <<semaphores, out, body, counter, product, forked>>
  BY <1>2, <1>m, <1>s, <1>a, <1>r DEF Produces
<1>3. CASE Read(p) /\ Consumes(p) /\ Moves(p, "access", "advance")
           /\ UNCHANGED <<semaphores, in, out, body, counter, forked>>
  BY <1>3, <1>m, <1>s, <1>a, <1>r DEF Consumes
<1>4. CASE AdvanceOut(p) /\ Consumes(p) /\ Moves(p, "advance", "leave")
           /\ UNCHANGED <<semaphores, in, body, counter, product, forked>>
  BY <1>4, <1>m, <1>s, <1>a, <1>r DEF Consumes
<1>5. CASE UNCHANGED <<in, out, body, product>>
           /\ pc[p] # "advance" /\ pc'[p] # "advance"
  BY <1>5, <1>m, <1>a, <1>r
<1> QED
  BY <1>1, <1>2, <1>3, <1>4, <1>5, <1>m, StepKinds

\* Every step keeps in ahead of the oldest product by what is written.
LEMMA RingInductive ==
  ASSUME TypeOK, Exclusion, Accounted, RingInv, NEW p \in Procs, ProcStep(p)
  PROVE  RingInv'
<1>1. PICK b \in Buffers : b = Target(p)
  BY TargetIsBuffer
<1>2. \A a \in Buffers \ {b} : /\ HasRead(a)' = HasRead(a)
                               /\ HasWritten(a)' = HasWritten(a)
                               /\ Stored(a)' = Stored(a)
  BY <1>1, AtTheRing, AccountedSteps
<1>3. /\ in \in [Buffers -> Nat] /\ out \in [Buffers -> Nat]
      /\ body \in [Buffers -> [0..(Size - 1) -> Contents]]
      /\ \A a \in Buffers :
           Size # 0 => /\ in[a] \in 0..(Size - 1) /\ out[a] \in 0..(Size - 1)
                       /\ in[a] = (First(a) + Written(a)) % Size
  BY DEF RingInv
<1>s. Size \in Nat
  BY SemBufferAssumption
<1>f. \A a \in Buffers :
        /\ First(a) = IF HasRead(a) THEN (out[a] + 1) % Size ELSE out[a]
        /\ First(a)' = IF HasRead(a)' THEN (out'[a] + 1) % Size ELSE out'[a]
  BY DEF First, HasRead
\* It suffices to look at b, for what the step makes of its ring.
<1>4. ASSUME /\ in' \in [Buffers -> Nat] /\ out' \in [Buffers -> Nat]
             /\ body' \in [Buffers -> [0..(Size - 1) -> Contents]]
             /\ \A a \in Buffers \ {b} : in'[a] = in[a] /\ out'[a] = out[a]
             /\ Size # 0 => /\ in'[b] \in 0..(Size - 1)
                            /\ out'[b] \in 0..(Size - 1)
                            /\ in'[b] = (First(b)' + Written(b)') % Size
      PROVE  RingInv'
  <2>1. ASSUME NEW a \in Buffers \ {b}
        PROVE  First(a)' = First(a) /\ Written(a)' = Written(a)
    BY <1>2, <1>4, <1>f DEF Written
  <2> QED
    BY <2>1, <1>3, <1>4 DEF RingInv
<1>5. CASE /\ Write(p) /\ Produces(p) /\ out' = out /\ in' = in
           /\ Stored(b) \in 0..(Size - 1) /\ Stored(b)' = Stored(b) + 1
           /\ ~HasRead(b) /\ ~HasRead(b)' /\ ~HasWritten(b) /\ HasWritten(b)'
  <2>1. PICK x \in Items[b] : body' = [body EXCEPT ![b][in[b]] = x]
    BY <1>1, <1>5 DEF Write
  <2>2. x \in Contents
    BY DEF Contents
  <2>3. body' \in [Buffers -> [0..(Size - 1) -> Contents]]
    BY <2>1, <2>2, <1>3
  <2>4. First(b)' = First(b) /\ Written(b)' = Written(b)
    BY <1>5, <1>f DEF Written
  <2> QED
    BY <2>3, <2>4, <1>3, <1>4, <1>5
<1>6. CASE /\ AdvanceIn(p) /\ Produces(p) /\ out' = out /\ body' = body
           /\ Stored(b) \in 1..Size /\ Stored(b)' = Stored(b)
           /\ ~HasRead(b) /\ ~HasRead(b)' /\ HasWritten(b) /\ ~HasWritten(b)'
  <2>1. in' = [in EXCEPT ![b] = (@ + 1) % Size] /\ Size \in Nat \ {0}
    BY <1>1, <1>6, <1>s DEF AdvanceIn
  <2>2. in[b] = (out[b] + (Stored(b) - 1)) % Size /\ out[b] \in 0..(Size - 1)
    BY <2>1, <1>3, <1>6, <1>f DEF Written
  <2>3. PICK f, n : f = out[b] /\ n = Stored(b) - 1
    OBVIOUS
  <2>4. f \in 0..(Size - 1) /\ n \in 0..(Size - 1) /\ f + n + 1 = f + Stored(b)
    BY <2>1, <2>2, <2>3, <1>6, <1>s
  <2>5. (((f + n) % Size) + 1) % Size = (f + n + 1) % Size
    BY <2>1, <2>4, StepOn
  <2>6. in'[b] = (in[b] + 1) % Size
    BY <2>1, <1>3
  <2>7. in'[b] = (First(b)' + Written(b)') % Size
    BY <2>2, <2>3, <2>4, <2>5, <2>6, <1>6, <1>f DEF Written
  <2>8. in[b] + 1 \in Nat
    BY <1>3
  <2>9. (in[b] + 1) % Size \in 0..(Size - 1)
    BY <2>1, <2>8
  <2> QED
    BY <2>1, <2>2, <2>6, <2>7, <2>9, <1>3, <1>4, <1>6
<1>7. CASE /\ Read(p) /\ Consumes(p) /\ out' = out /\ in' = in /\ body' = body
           /\ Stored(b) \in 1..Size /\ Stored(b)' = Stored(b) - 1
           /\ ~HasRead(b) /\ HasRead(b)' /\ ~HasWritten(b) /\ ~HasWritten(b)'
  <2>1. Size \in Nat \ {0}
    BY <1>7, <1>s
  <2>2. in[b] = (out[b] + Stored(b)) % Size /\ out[b] \in 0..(Size - 1)
    BY <2>1, <1>3, <1>7, <1>f DEF Written
  <2>3. PICK f, n : f = out[b] /\ n = Stored(b) - 1
    OBVIOUS
  <2>4. f \in 0..(Size - 1) /\ n \in 0..(Size - 1) /\ f + 1 + n = f + Stored(b)
    BY <2>1, <2>2, <2>3, <1>7, <1>s
  <2>5. (((f + 1) % Size) + n) % Size = (f + 1 + n) % Size
    BY <2>1, <2>4, StepOn
  <2>6. in'[b] = (First(b)' + Written(b)') % Size
    BY <2>2, <2>3, <2>4, <2>5, <1>7, <1>f DEF Written
  <2> QED
    BY <2>6, <1>3, <1>4, <1>7
<1>8. CASE /\ AdvanceOut(p) /\ Consumes(p) /\ in' = in /\ body' = body
           /\ Stored(b) \in 0..(Size - 1) /\ Stored(b)' = Stored(b)
           /\ HasRead(b) /\ ~HasRead(b)' /\ ~HasWritten(b) /\ ~HasWritten(b)'
  <2>1. out' = [out EXCEPT ![b] = (@ + 1) % Size] /\ Size \in Nat \ {0}
    BY <1>1, <1>8, <1>s DEF AdvanceOut
  <2>2. out'[b] = (out[b] + 1) % Size
    BY <2>1, <1>3
  <2>3. out[b] + 1 \in Nat
    BY <1>3
  <2>4. (out[b] + 1) % Size \in 0..(Size - 1)
    BY <2>1, <2>3
  <2>5. First(b)' = First(b) /\ Written(b)' = Written(b)
    BY <2>2, <1>8, <1>f DEF Written
  <2> QED
    BY <2>1, <2>2, <2>4, <2>5, <1>3, <1>4, <1>8
<1>9. CASE /\ UNCHANGED <<in, out, body, product>> /\ Stored(b)' = Stored(b)
           /\ HasRead(b)' = HasRead(b) /\ HasWritten(b)' = HasWritten(b)
  <2>1. First(b)' = First(b) /\ Written(b)' = Written(b)
    BY <1>9, <1>f DEF Written
  <2> QED
    BY <2>1, <1>3, <1>4, <1>9
<1> QED
  BY <1>1, <1>5, <1>6, <1>7, <1>8, <1>9, RingSteps

\* in is always ahead of the oldest product by what is written.
LEMMA RingAlways == Spec => []RingInv
<1>1. Init => RingInv
  <2> SUFFICES ASSUME Init
               PROVE  RingInv
    OBVIOUS
  <2>0. Size \in Nat /\ Nothing \in Contents
    BY SemBufferAssumption DEF Contents
  <2>1. /\ in \in [Buffers -> Nat] /\ out \in [Buffers -> Nat]
        /\ body \in [Buffers -> [0..(Size - 1) -> Contents]]
    BY <2>0 DEF Init
  <2>2. ASSUME NEW b \in Buffers, Size # 0
        PROVE  /\ in[b] \in 0..(Size - 1) /\ out[b] \in 0..(Size - 1)
               /\ in[b] = (First(b) + Written(b)) % Size
    <3>1. in[b] = 0 /\ out[b] = 0 /\ full[b] = 0
      BY DEF Init
    <3>2. ~HasRead(b) /\ ~HasWritten(b)
      BY DEF Init, HasRead, HasWritten, Procs
    <3>3. Unposted(b) = {} /\ Unread(b) = {}
      BY DEF Init, Unposted, Unread, Group, Procs, Claiming, Done
    <3>4. Stored(b) = full[b] + Cardinality(Unposted(b)) + Cardinality(Unread(b))
      BY DEF Stored, Unposted, Unread, Group, Claiming, Done
    <3>5. Stored(b) = 0
      BY <3>1, <3>3, <3>4, FS_EmptySet
    <3>6. First(b) = 0 /\ Written(b) = 0
      BY <3>1, <3>2, <3>5 DEF First, Written, HasRead
    <3>7. 0 + 0 \in 0..(2 * Size - 1) /\ Size \in Nat \ {0}
      BY <2>0, <2>2
    <3>8. (0 + 0) % Size = 0
      BY <3>7, WrapAround
    <3> QED
      BY <3>1, <3>6, <3>7, <3>8
  <2> QED
    BY <2>1, <2>2 DEF RingInv
<1>2. (TypeOK /\ Exclusion /\ Accounted /\ RingInv /\ [Next]_vars) => RingInv'
  <2>1. ASSUME RingInv, UNCHANGED vars \/ Fork
        PROVE  RingInv'
    <3>1. UNCHANGED <<full, in, out, body, pc, counter>>
      BY <2>1 DEF Fork, vars, semaphores
    <3>2. \A p : Target(p)' = Target(p)
      BY <3>1 DEF Target
    <3>3. ASSUME NEW b
          PROVE  Stored(b)' = Stored(b) /\ First(b)' = First(b)
                 /\ HasWritten(b)' = HasWritten(b)
      BY <3>1, <3>2 DEF Stored, First, HasWritten
    <3> QED
      BY <2>1, <3>1, <3>3 DEF RingInv, Written
  <2> QED
    BY <2>1, RingInductive DEF Next
<1> QED
  BY <1>1, <1>2, TypeCorrect, ExclusionAlways, AccountedAlways, PTL DEF Spec
-----------------------------------------------------------------------------
(* The buffers are first-in first-out queues. *)

QueueOf(b) == Ring(body[b], First(b), Stored(b), Size)

\* The queue the buffer stands for is a stretch of its ring.
LEMMA QueueIsRing ==
  /\ queue = [b \in Buffers |-> QueueOf(b)]
  /\ queue' = [b \in Buffers |-> QueueOf(b)']
BY DEF queue, QueueOf, Ring

\* Every step of a process puts, takes the oldest, or changes no queue.
LEMMA StepRefines ==
  ASSUME TypeOK, Exclusion, Accounted, RingInv, NEW p \in Procs, ProcStep(p)
  PROVE  [Fifo!Next]_<<queue, product>>
<1>1. PICK b \in Buffers : b = Target(p)
  BY TargetIsBuffer
<1>2. \A a \in Buffers \ {b} : /\ HasRead(a)' = HasRead(a)
                               /\ Stored(a)' = Stored(a)
  BY <1>1, AtTheRing, AccountedSteps
<1>3. /\ in \in [Buffers -> Nat] /\ out \in [Buffers -> Nat]
      /\ body \in [Buffers -> [0..(Size - 1) -> Contents]]
      /\ \A a \in Buffers :
           Size # 0 => /\ in[a] \in 0..(Size - 1) /\ out[a] \in 0..(Size - 1)
                       /\ in[a] = (First(a) + Written(a)) % Size
  BY DEF RingInv
<1>s. Size \in Nat
  BY SemBufferAssumption
<1>f. \A a \in Buffers :
        /\ First(a) = IF HasRead(a) THEN (out[a] + 1) % Size ELSE out[a]
        /\ First(a)' = IF HasRead(a)' THEN (out'[a] + 1) % Size ELSE out'[a]
  BY DEF First, HasRead
<1>q. queue[b] = QueueOf(b)
  BY QueueIsRing
<1>e. ASSUME \A a \in Buffers \ {b} : out'[a] = out[a] /\ body'[a] = body[a]
      PROVE  /\ QueueOf(b)' = QueueOf(b) => queue' = queue
             /\ \A q : QueueOf(b)' = q => queue' = [queue EXCEPT ![b] = q]
  <2>1. ASSUME NEW a \in Buffers \ {b}
        PROVE  QueueOf(a)' = QueueOf(a)
    <3>1. First(a)' = First(a)
      BY <1>2, <1>e, <1>f
    <3> QED
      BY <3>1, <1>2, <1>e DEF QueueOf
  <2> HIDE DEF QueueOf
  <2> QED
    BY <2>1, QueueIsRing
<1>n. PICK n, f, B, C :
        n = Stored(b) /\ f = out[b] /\ B = body[b] /\ C = body'[b]
  OBVIOUS
<1>5. CASE /\ Write(p) /\ Produces(p) /\ out' = out /\ in' = in
           /\ product' = product
           /\ Stored(b) \in 0..(Size - 1) /\ Stored(b)' = Stored(b) + 1
           /\ ~HasRead(b) /\ ~HasRead(b)' /\ ~HasWritten(b) /\ HasWritten(b)'
  <2>1. PICK x \in Items[b] : body' = [body EXCEPT ![b][in[b]] = x]
    BY <1>1, <1>5 DEF Write
  <2>2. /\ Size \in Nat \ {0} /\ n \in 0..(Size - 1) /\ n \in Nat
        /\ f \in 0..(Size - 1) /\ f \in Nat
    BY <1>3, <1>5, <1>n, <1>s
  <2>3. in[b] = (f + n) % Size /\ in[b] \in 0..(Size - 1)
    BY <2>2, <1>3, <1>5, <1>f, <1>n DEF Written
  <2>4. /\ C = [B EXCEPT ![in[b]] = x]
        /\ B \in [0..(Size - 1) -> Contents]
        /\ x \in Contents
    BY <2>1, <1>3, <1>n DEF Contents
  <2>5. /\ \A j \in 0..(Size - 1) : j # (f + n) % Size => C[j] = B[j]
        /\ C[(f + n) % Size] = x
        /\ IsRing(C, Size, Contents) /\ IsRing(B, Size, Contents)
    BY <2>2, <2>3, <2>4 DEF IsRing
  <2>6. Ring(C, f, n, Size) = Ring(B, f, n, Size)
    BY <2>2, <2>5, RingKeeps
  <2>7. Ring(C, f, n + 1, Size) = Append(Ring(C, f, n, Size), C[(f + n) % Size])
    <3>1. f \in Nat /\ n \in Nat /\ IsRing(C, Size, Contents)
      BY <2>2, <2>5
    <3> QED
      BY <3>1, RingPut
  <2>8. Len(Ring(B, f, n, Size)) = n
    <3>1. Reads(Ring(B, f, n, Size), Contents, B, f, n, Size)
      BY <2>2, <2>5, RingIsSequence
    <3> QED
      BY <3>1 DEF Reads
  <2>9. /\ QueueOf(b) = Ring(B, f, n, Size)
        /\ QueueOf(b)' = Append(QueueOf(b), x)
    BY <2>5, <2>6, <2>7, <1>5, <1>f, <1>n DEF QueueOf
  <2>10. queue' = [queue EXCEPT ![b] = Append(queue[b], x)]
    BY <2>1, <2>9, <1>3, <1>5, <1>e, <1>q
  <2>11. Fifo!Put(b)
    <3>1. Len(queue[b]) < Size /\ x \in Items[b]
      BY <2>1, <2>2, <2>8, <2>9, <1>q
    <3> QED
      BY <3>1, <2>10, <1>5 DEF Fifo!Put
  <2> QED
    BY <2>11 DEF Fifo!Next
<1>6. CASE /\ AdvanceIn(p) /\ Produces(p) /\ out' = out /\ body' = body
           /\ product' = product /\ Stored(b)' = Stored(b)
           /\ ~HasRead(b) /\ ~HasRead(b)'
  <2>1. QueueOf(b)' = QueueOf(b)
    BY <1>6, <1>f DEF QueueOf
  <2> QED
    BY <2>1, <1>6, <1>e
<1>7. CASE /\ Read(p) /\ Consumes(p) /\ out' = out /\ in' = in /\ body' = body
           /\ Stored(b) \in 1..Size /\ Stored(b)' = Stored(b) - 1
           /\ ~HasRead(b) /\ HasRead(b)'
  <2>1. /\ Size \in Nat \ {0} /\ n \in Nat \ {0} /\ n - 1 \in 0..Size
        /\ f \in 0..(Size - 1)
    BY <1>3, <1>7, <1>n, <1>s
  <2>2. IsRing(B, Size, Contents)
    BY <2>1, <1>3, <1>n DEF IsRing
  <2>3. /\ Ring(B, f, n, Size) # << >>
        /\ Head(Ring(B, f, n, Size)) = B[f]
        /\ Tail(Ring(B, f, n, Size)) = Ring(B, f + 1, n - 1, Size)
    <3>1. /\ f \in 0..(Size - 1) /\ n \in Nat \ {0}
          /\ IsRing(B, Size, Contents)
      BY <2>1, <2>2
    <3> QED
      BY <3>1, RingGet
  <2>4. Ring(B, (f + 1) % Size, n - 1, Size) = Ring(B, f + 1, n - 1, Size)
    BY <2>1, RingTurns
  <2>5. /\ QueueOf(b) = Ring(B, f, n, Size)
        /\ QueueOf(b)' = Tail(QueueOf(b))
    BY <2>3, <2>4, <1>7, <1>f, <1>n DEF QueueOf
  <2>6. queue' = [queue EXCEPT ![b] = Tail(queue[b])]
    BY <2>5, <1>7, <1>e, <1>q
  <2>7. b = Serves[p] /\ p \in Consumers
    BY <1>1, <1>7 DEF Target, Consumes
  <2>8. product' = [product EXCEPT ![p] = Head(queue[b])]
    BY <2>3, <2>5, <1>1, <1>7, <1>n, <1>q DEF Read
  <2>9. queue[b] # << >>
    BY <2>3, <2>5, <1>q
  <2>10. Fifo!Get(p)
    BY <2>6, <2>7, <2>8, <2>9 DEF Fifo!Get
  <2> QED
    BY <2>7, <2>10 DEF Fifo!Next
<1>8. CASE /\ AdvanceOut(p) /\ Consumes(p) /\ in' = in /\ body' = body
           /\ product' = product /\ Stored(b)' = Stored(b)
           /\ HasRead(b) /\ ~HasRead(b)'
  <2>1. out' = [out EXCEPT ![b] = (@ + 1) % Size]
    BY <1>1, <1>8 DEF AdvanceOut
  <2>2. out'[b] = (out[b] + 1) % Size
        /\ \A a \in Buffers \ {b} : out'[a] = out[a]
    BY <2>1, <1>3
  <2>3. QueueOf(b)' = QueueOf(b)
    BY <2>2, <1>8, <1>f DEF QueueOf
  <2> QED
    BY <2>2, <2>3, <1>8, <1>e
<1>9. CASE /\ UNCHANGED <<in, out, body, product>> /\ Stored(b)' = Stored(b)
           /\ HasRead(b)' = HasRead(b)
  <2>1. QueueOf(b)' = QueueOf(b)
    BY <1>9, <1>f DEF QueueOf
  <2> QED
    BY <2>1, <1>9, <1>e
<1> QED
  BY <1>1, <1>5, <1>6, <1>7, <1>8, <1>9, RingSteps

\* Each buffer is a first-in first-out queue of at most Size products: a
\* producer puts in where there is room, a consumer gets the oldest one, and
\* none is overwritten, lost or read twice, in any order of the processes.
THEOREM Implements == Spec => Refinement
<1>1. Init => Fifo!Init
  <2> SUFFICES ASSUME Init
               PROVE  Fifo!Init
    OBVIOUS
  <2>1. ASSUME NEW b \in Buffers
        PROVE  QueueOf(b) = << >>
    <3>1. full[b] = 0
      BY DEF Init
    <3>2. Unposted(b) = {} /\ Unread(b) = {}
      BY DEF Init, Unposted, Unread, Group, Procs, Claiming, Done
    <3>3. Stored(b) = full[b] + Cardinality(Unposted(b)) + Cardinality(Unread(b))
      BY DEF Stored, Unposted, Unread, Group, Claiming, Done
    <3>4. Stored(b) = 0
      BY <3>1, <3>2, <3>3, FS_EmptySet
    <3> QED
      BY <3>4 DEF QueueOf, Ring
  <2> QED
    BY <2>1, QueueIsRing DEF Init, Fifo!Init
<1>2. (TypeOK /\ Exclusion /\ Accounted /\ RingInv /\ [Next]_vars)
        => [Fifo!Next]_<<queue, product>>
  <2>1. ASSUME UNCHANGED vars \/ Fork
        PROVE  UNCHANGED <<queue, product>>
    <3>1. UNCHANGED <<full, in, out, body, pc, counter, product>>
      BY <2>1 DEF Fork, vars, semaphores
    <3>2. \A p : Target(p)' = Target(p)
      BY <3>1 DEF Target
    <3>3. ASSUME NEW b
          PROVE  QueueOf(b)' = QueueOf(b)
      BY <3>1, <3>2 DEF Stored, First, QueueOf
    <3> HIDE DEF QueueOf
    <3> QED
      BY <3>1, <3>3, QueueIsRing
  <2> QED
    BY <2>1, StepRefines DEF Next
<1> QED
  BY <1>1, <1>2, TypeCorrect, ExclusionAlways, AccountedAlways, RingAlways,
     PTL DEF Spec, Refinement, Fifo!Spec
=============================================================================
