------------------------- MODULE MonitorBufferProofs -------------------------
(***************************************************************************)
(* The safety properties of MonitorBuffer, for any number of threads and   *)
(* buffers and any route of the producers.                                 *)
(***************************************************************************)
EXTENDS MonitorBuffer, FiniteSetTheorems, SequenceTheorems, TLAPS
-----------------------------------------------------------------------------
(* Indices into a ring of n places *)

\* Below twice the size, taking the remainder is one subtraction.
LEMMA WrapAround ==
  ASSUME NEW n \in Nat \ {0}, NEW k \in 0..(2 * n - 1)
  PROVE  k % n = IF k < n THEN k ELSE k - n
<1>1. /\ k \div n \in Nat /\ k % n \in 0..(n - 1)
      /\ k = n * (k \div n) + (k % n)
  OBVIOUS
<1> DEFINE q == k \div n
<1>2. q = 0 \/ q = 1
  <2>1. q >= 2 => n * q >= n * 2
    BY <1>1
  <2> QED
    BY <1>1, <2>1
<1> QED
  BY <1>1, <1>2

\* n places from f on are n different places.
LEMMA PlacesDiffer ==
  ASSUME NEW n \in Nat \ {0}, NEW f \in 0..(n - 1),
         NEW i \in 0..(n - 1), NEW j \in 0..(n - 1)
  PROVE  /\ (f + i) % n \in 0..(n - 1)
         /\ (f + i) % n = (f + j) % n => i = j
<1>1. f + i \in 0..(2 * n - 1) /\ f + j \in 0..(2 * n - 1)
  OBVIOUS
<1>2. (f + i) % n = IF f + i < n THEN f + i ELSE (f + i) - n
  BY <1>1, WrapAround
<1>3. (f + j) % n = IF f + j < n THEN f + j ELSE (f + j) - n
  BY <1>1, WrapAround
<1> QED
  BY <1>2, <1>3

\* One step on, then i more, is i more, then one step on.
LEMMA StepOn ==
  ASSUME NEW n \in Nat \ {0}, NEW f \in 0..(n - 1), NEW i \in 0..(n - 1)
  PROVE  /\ (f + 1) % n \in 0..(n - 1)
         /\ (((f + 1) % n) + i) % n = (f + 1 + i) % n
         /\ (((f + i) % n) + 1) % n = (f + i + 1) % n
<1> DEFINE wrap(k) == IF k < n THEN k ELSE k - n
<1>1. f + 1 \in 0..(2 * n - 1) /\ f + i \in 0..(2 * n - 1)
  OBVIOUS
<1>2. (f + 1) % n = wrap(f + 1)
  BY <1>1, WrapAround
<1>3. (f + i) % n = wrap(f + i)
  BY <1>1, WrapAround
<1>4. f + 1 + i \in 0..(2 * n - 1)
  OBVIOUS
<1>5. (f + 1 + i) % n = wrap(f + 1 + i)
  BY <1>4, WrapAround
<1>6. /\ wrap(f + 1) + i \in 0..(2 * n - 1)
      /\ wrap(f + i) + 1 \in 0..(2 * n - 1)
  OBVIOUS
<1>7. (wrap(f + 1) + i) % n = wrap(wrap(f + 1) + i)
  BY <1>6, WrapAround
<1>8. (wrap(f + i) + 1) % n = wrap(wrap(f + i) + 1)
  BY <1>6, WrapAround
<1>9. f + 1 + i = f + i + 1
  OBVIOUS
<1>10. /\ wrap(wrap(f + 1) + i) = wrap(f + 1 + i)
       /\ wrap(wrap(f + i) + 1) = wrap(f + i + 1)
       /\ wrap(f + 1) \in 0..(n - 1)
  OBVIOUS
<1> HIDE DEF wrap
<1> QED
  BY <1>2, <1>3, <1>5, <1>7, <1>8, <1>9, <1>10
-----------------------------------------------------------------------------
IsRing(B, size, S) == size \in Nat \ {0} /\ B \in [0..(size - 1) -> S]

\* The n products of a ring B of size places that begin at place f
Ring(B, f, n, size) == [i \in 1..n |-> B[(f + i - 1) % size]]

\* r is the sequence of these products.
Reads(r, S, B, f, n, size) ==
  /\ r \in Seq(S) /\ Len(r) = n
  /\ \A i \in 1..n : r[i] = B[(f + i - 1) % size]

\* What stands in the ring from f on, read once around, is a sequence.
LEMMA RingIsSequence ==
  ASSUME NEW S, NEW size, NEW B, IsRing(B, size, S),
         NEW f \in Nat, NEW n \in Nat
  PROVE  Reads(Ring(B, f, n, size), S, B, f, n, size)
<1>1. \A i \in 1..n : (f + i - 1) % size \in 0..(size - 1)
  BY DEF IsRing
<1>2. Ring(B, f, n, size) \in [1..n -> S]
  BY <1>1 DEF Ring, IsRing
<1>3. Ring(B, f, n, size) \in Seq(S)
  BY <1>2, SeqDef
<1>4. DOMAIN Ring(B, f, n, size) = 1..n
  BY DEF Ring
<1>5. Len(Ring(B, f, n, size)) = n
  BY <1>3, <1>4, LenProperties
<1> QED
  BY <1>3, <1>5 DEF Ring, Reads

\* What is written behind the last product is appended.
LEMMA RingPut ==
  ASSUME NEW S, NEW size, NEW B, IsRing(B, size, S),
         NEW f \in Nat, NEW n \in Nat
  PROVE  Ring(B, f, n + 1, size) = Append(Ring(B, f, n, size), B[(f + n) % size])
<1> DEFINE r == Ring(B, f, n, size)
           q == Ring(B, f, n + 1, size)
           x == B[(f + n) % size]
<1> HIDE DEF r, q
<1>1. /\ r \in Seq(S) /\ Len(r) = n
      /\ \A i \in 1..n : r[i] = B[(f + i - 1) % size]
  <2>1. Reads(r, S, B, f, n, size)
    BY RingIsSequence DEF r
  <2> QED
    BY <2>1 DEF Reads
<1>2. /\ q \in Seq(S) /\ Len(q) = n + 1
      /\ \A i \in 1..(n + 1) : q[i] = B[(f + i - 1) % size]
  <2>1. n + 1 \in Nat
    OBVIOUS
  <2>2. Reads(q, S, B, f, n + 1, size)
    BY <2>1, RingIsSequence DEF q
  <2> QED
    BY <2>2 DEF Reads
<1>3. (f + n) % size \in 0..(size - 1)
  BY DEF IsRing
<1>4. x \in S
  BY <1>3 DEF IsRing
<1>5. f + (n + 1) - 1 = f + n
  OBVIOUS
<1>6. q[n + 1] = x
  BY <1>2, <1>5
<1> HIDE DEF r, q, x
<1>7. /\ Append(r, x) \in Seq(S) /\ Len(Append(r, x)) = n + 1
      /\ \A i \in 1..n : Append(r, x)[i] = r[i]
      /\ Append(r, x)[n + 1] = x
  BY <1>1, <1>4, AppendProperties
<1>8. ASSUME NEW i \in 1..(n + 1)
      PROVE  q[i] = Append(r, x)[i]
  <2>1. CASE i = n + 1
    BY <2>1, <1>6, <1>7
  <2>2. CASE i \in 1..n
    <3>1. q[i] = r[i]
      BY <2>2, <1>1, <1>2
    <3> QED
      BY <2>2, <3>1, <1>7
  <2>3. i = n + 1 \/ i \in 1..n
    OBVIOUS
  <2> QED
    BY <2>1, <2>2, <2>3
<1>9. q = Append(r, x)
  BY <1>2, <1>7, <1>8, SeqEqual
<1> QED
  BY <1>9 DEF r, q, x

\* The oldest product is the head; the rest begins one place on.
LEMMA RingGet ==
  ASSUME NEW S, NEW size, NEW B, IsRing(B, size, S),
         NEW f \in 0..(size - 1), NEW n \in Nat \ {0}
  PROVE  /\ Ring(B, f, n, size) # << >>
         /\ Head(Ring(B, f, n, size)) = B[f]
         /\ Tail(Ring(B, f, n, size)) = Ring(B, f + 1, n - 1, size)
<1> DEFINE r == Ring(B, f, n, size)
           q == Ring(B, f + 1, n - 1, size)
<1> HIDE DEF r, q
<1>0. f \in Nat /\ n \in Nat /\ f + 1 \in Nat /\ n - 1 \in Nat
  BY DEF IsRing
<1>1. /\ r \in Seq(S) /\ Len(r) = n
      /\ \A i \in 1..n : r[i] = B[(f + i - 1) % size]
  <2>1. Reads(r, S, B, f, n, size)
    BY <1>0, RingIsSequence DEF r
  <2> QED
    BY <2>1 DEF Reads
<1>2. /\ q \in Seq(S) /\ Len(q) = n - 1
      /\ \A i \in 1..(n - 1) : q[i] = B[(f + 1 + i - 1) % size]
  <2>1. Reads(q, S, B, f + 1, n - 1, size)
    BY <1>0, RingIsSequence DEF q
  <2> QED
    BY <2>1 DEF Reads
<1>3. f + 1 - 1 \in 0..(2 * size - 1) /\ f + 1 - 1 = f
  BY DEF IsRing
<1>4. (f + 1 - 1) % size = f
  BY <1>3, WrapAround DEF IsRing
<1>5. r[1] = B[f]
  BY <1>1, <1>4
<1>6. \A i \in 1..(n - 1) : f + (i + 1) - 1 = f + 1 + i - 1
  OBVIOUS
<1>7. ASSUME NEW i \in 1..(n - 1)
      PROVE  q[i] = r[i + 1]
  <2>1. i + 1 \in 1..n
    OBVIOUS
  <2>2. r[i + 1] = B[(f + (i + 1) - 1) % size]
    BY <2>1, <1>1
  <2> QED
    BY <2>2, <1>2, <1>6
<1> HIDE DEF r, q
<1>8. r # << >>
  BY <1>1
<1>9. Head(r) = r[1]
  BY <1>1, <1>8
<1>10. /\ Tail(r) \in Seq(S) /\ Len(Tail(r)) = n - 1
       /\ \A i \in 1..Len(Tail(r)) : Tail(r)[i] = r[i + 1]
  BY <1>1, <1>8, HeadTailProperties
<1>11. Tail(r) = q
  BY <1>2, <1>7, <1>10, SeqEqual
<1> QED
  BY <1>5, <1>8, <1>9, <1>11 DEF r, q

\* A write to the place behind them does not change the products.
LEMMA RingKeeps ==
  ASSUME NEW size \in Nat \ {0}, NEW B, NEW C, NEW f \in 0..(size - 1),
         NEW n \in 0..(size - 1),
         \A j \in 0..(size - 1) : j # (f + n) % size => C[j] = B[j]
  PROVE  Ring(C, f, n, size) = Ring(B, f, n, size)
<1>1. ASSUME NEW i \in 1..n
      PROVE  C[(f + i - 1) % size] = B[(f + i - 1) % size]
  <2>1. i - 1 \in 0..(size - 1) /\ i - 1 # n /\ f + (i - 1) = f + i - 1
    OBVIOUS
  <2>2. /\ (f + (i - 1)) % size \in 0..(size - 1)
        /\ (f + (i - 1)) % size # (f + n) % size
    BY <2>1, PlacesDiffer
  <2> QED
    BY <2>1, <2>2
<1> QED
  BY <1>1 DEF Ring

\* Nor does a write to the place of the oldest change the rest.
LEMMA RingKeepsRest ==
  ASSUME NEW size \in Nat \ {0}, NEW B, NEW C, NEW f \in 0..(size - 1),
         NEW n \in 0..(size - 1),
         \A j \in 0..(size - 1) : j # f => C[j] = B[j]
  PROVE  Ring(C, f + 1, n, size) = Ring(B, f + 1, n, size)
<1>1. ASSUME NEW i \in 1..n
      PROVE  C[(f + 1 + i - 1) % size] = B[(f + 1 + i - 1) % size]
  <2>1. /\ i \in 0..(size - 1) /\ 0 \in 0..(size - 1) /\ i # 0
        /\ f + 1 + i - 1 = f + i /\ f + 0 \in 0..(2 * size - 1)
    OBVIOUS
  <2>2. /\ (f + i) % size \in 0..(size - 1)
        /\ (f + i) % size # (f + 0) % size
    BY <2>1, PlacesDiffer
  <2>3. (f + 0) % size = f
    BY <2>1, WrapAround
  <2> QED
    BY <2>1, <2>2, <2>3
<1> QED
  BY <1>1 DEF Ring

\* It does not matter whether the first index has been wrapped around.
LEMMA RingTurns ==
  ASSUME NEW size \in Nat \ {0}, NEW B, NEW f \in 0..(size - 1),
         NEW n \in 0..size
  PROVE  Ring(B, (f + 1) % size, n, size) = Ring(B, f + 1, n, size)
<1>1. ASSUME NEW i \in 1..n
      PROVE  (((f + 1) % size) + i - 1) % size = (f + 1 + i - 1) % size
  <2>1. i - 1 \in 0..(size - 1) /\ f + 1 + (i - 1) = f + 1 + i - 1
    OBVIOUS
  <2>2. /\ (((f + 1) % size) + (i - 1)) % size = (f + 1 + (i - 1)) % size
        /\ (f + 1) % size \in 0..(size - 1)
    BY <2>1, StepOn
  <2>3. ((f + 1) % size) + (i - 1) = ((f + 1) % size) + i - 1
    BY <2>2
  <2> QED
    BY <2>1, <2>2, <2>3
<1> QED
  BY <1>1 DEF Ring

-----------------------------------------------------------------------------
Statements == {"enter", "test", "give_up", "wait", "access", "advance",
               "signal", "enter_again", "leave"}
Contents == (UNION {Items[b] : b \in Buffers}) \cup {Nothing}

TypeOK ==
  /\ s \in [Buffers -> Nat]
  /\ w \in [Buffers -> [Conditions -> Nat]]
  /\ waitingCount \in [Buffers -> [Conditions -> Nat]]
  /\ counter \in [Buffers -> Int]
  /\ in \in [Buffers -> 0..(Size - 1)]
  /\ out \in [Buffers -> 0..(Size - 1)]
  /\ body \in [Buffers -> [0..(Size - 1) -> Contents]]
  /\ pc \in [Threads -> Statements]
  /\ place \in [Producers -> Nat]
  /\ \A p \in Producers : place[p] < Len(Route[p])
  /\ product \in [Consumers -> Contents]
-----------------------------------------------------------------------------
(* Types *)

\* A thread always works on a buffer: the route is never left.
LEMMA TargetIsBuffer ==
  ASSUME TypeOK, NEW t \in Threads
  PROVE  Target(t) \in Buffers
<1>1. CASE t \in Producers
  <2>1. /\ Route[t] \in Seq(Buffers)
        /\ place[t] + 1 \in 1..Len(Route[t])
    BY <1>1, MonitorBufferAssumption DEF TypeOK
  <2> QED
    BY <1>1, <2>1 DEF Target
<1>2. CASE t \notin Producers
  BY <1>2, MonitorBufferAssumption DEF Target, Threads
<1> QED
  BY <1>1, <1>2

\* A step of one thread leaves the others where they are.
LEMMA OthersStay ==
  ASSUME TypeOK, NEW t \in Threads, ThreadStep(t)
  PROVE  /\ \A u \in Threads \ {t} : pc'[u] = pc[u] /\ Target(u)' = Target(u)
         /\ pc[t] # "leave" => Target(t)' = Target(t)
<1>1. \A u \in Threads \ {t} : pc'[u] = pc[u]
  BY DEF ThreadStep, Enter, Test, GiveUp, Wake, Write, AdvanceIn, Read,
         AdvanceOut, Signal, EnterAgain, Leave, GoTo, TypeOK
<1>2. CASE Leave(t)
  BY <1>1, <1>2 DEF Leave, Target, TypeOK
<1>3. CASE ~Leave(t)
  <2>1. place' = place
    BY <1>3 DEF ThreadStep, Enter, Test, GiveUp, Wake, Write, AdvanceIn, Read,
                AdvanceOut, Signal, EnterAgain, fields
  <2> QED
    BY <1>1, <2>1 DEF Target
<1> QED
  BY <1>1, <1>2, <1>3

\* Every step of every thread keeps the types.
LEMMA TypeInductive == TypeOK /\ [Next]_vars => TypeOK'
<1> SUFFICES ASSUME TypeOK, [Next]_vars
             PROVE  TypeOK'
  OBVIOUS
<1>1. CASE UNCHANGED vars
  BY <1>1 DEF TypeOK, vars, fields
<1>2. ASSUME NEW t \in Threads, ThreadStep(t)
      PROVE  TypeOK'
  <2> DEFINE b == Target(t)
  <2>0. pc' \in [Threads -> Statements]
    BY <1>2 DEF ThreadStep, Enter, Test, GiveUp, Wake, Write, AdvanceIn, Read,
                AdvanceOut, Signal, EnterAgain, Leave, GoTo, TypeOK, Statements
  <2>1. b \in Buffers
    BY TargetIsBuffer
  <2>s. s \in [Buffers -> Nat]
    BY DEF TypeOK
  <2>w. /\ w \in [Buffers -> [Conditions -> Nat]]
        /\ waitingCount \in [Buffers -> [Conditions -> Nat]]
    BY DEF TypeOK
  <2> HIDE DEF b
  <2>2. CASE Enter(t) \/ EnterAgain(t)
    <3>1. s' \in [Buffers -> Nat]
      BY <2>s, <2>1, <2>2 DEF Enter, EnterAgain, P, b
    <3> QED
      BY <3>1, <2>0, <2>2 DEF Enter, EnterAgain, TypeOK, fields
  <2>3. CASE Test(t)
    <3>1. WaitsFor(t) \in Conditions
      BY DEF WaitsFor, Conditions
    <3>2. waitingCount' \in [Buffers -> [Conditions -> Nat]]
      BY <3>1, <2>w, <2>1, <2>3 DEF Test, b
    <3> QED
      BY <3>2, <2>0, <2>3 DEF Test, TypeOK, fields
  <2>4. CASE GiveUp(t)
    <3>1. s' \in [Buffers -> Nat]
      BY <2>s, <2>1, <2>4 DEF GiveUp, V, b
    <3> QED
      BY <3>1, <2>0, <2>4 DEF GiveUp, TypeOK, fields
  <2>5. CASE Wake(t)
    <3>1. w' \in [Buffers -> [Conditions -> Nat]]
      BY <2>w, <2>1, <2>5 DEF Wake, Conditions, WaitsFor, b
    <3> QED
      BY <3>1, <2>0, <2>5 DEF Wake, TypeOK, fields
  <2>6. CASE Write(t)
    <3>1. body' \in [Buffers -> [0..(Size - 1) -> Contents]]
      BY <2>1, <2>6 DEF Write, TypeOK, Contents, b
    <3> QED
      BY <3>1, <2>0, <2>6 DEF Write, TypeOK
  <2>7. CASE AdvanceIn(t)
    <3>1. (in[b] + 1) % Size \in 0..(Size - 1)
      BY <2>1, MonitorBufferAssumption DEF TypeOK
    <3>2. /\ in' \in [Buffers -> 0..(Size - 1)]
          /\ counter' \in [Buffers -> Int]
      BY <3>1, <2>1, <2>7 DEF AdvanceIn, TypeOK, b
    <3> QED
      BY <3>2, <2>0, <2>7 DEF AdvanceIn, TypeOK
  <2>8. CASE Read(t)
    <3>1. out[b] \in 0..(Size - 1)
      BY <2>1 DEF TypeOK
    <3>2. Nothing \in Contents
      BY DEF Contents
    <3>3. body[b][out[b]] \in Contents
      <4>1. body \in [Buffers -> [0..(Size - 1) -> Contents]]
        BY DEF TypeOK
      <4>2. body[b] \in [0..(Size - 1) -> Contents]
        BY <4>1, <2>1
      <4> QED
        BY <4>2, <3>1
    <3>4. body' \in [Buffers -> [0..(Size - 1) -> Contents]]
      BY <3>1, <3>2, <2>1, <2>8 DEF Read, TypeOK, b
    <3>5. product' \in [Consumers -> Contents]
      BY <3>3, <2>8 DEF Read, TypeOK, b
    <3> QED
      BY <3>4, <3>5, <2>0, <2>8 DEF Read, TypeOK
  <2>9. CASE AdvanceOut(t)
    <3>1. (out[b] + 1) % Size \in 0..(Size - 1)
      BY <2>1, MonitorBufferAssumption DEF TypeOK
    <3>2. /\ out' \in [Buffers -> 0..(Size - 1)]
          /\ counter' \in [Buffers -> Int]
      BY <3>1, <2>1, <2>9 DEF AdvanceOut, TypeOK, b
    <3> QED
      BY <3>2, <2>0, <2>9 DEF AdvanceOut, TypeOK
  <2>10. CASE Signal(t)
    <3>1. Signals(t) \in Conditions
      BY DEF Signals, Conditions
    <3>2. /\ w' \in [Buffers -> [Conditions -> Nat]]
          /\ waitingCount' \in [Buffers -> [Conditions -> Nat]]
      <4>1. CASE waitingCount[b][Signals(t)] > 0
        <5>1. /\ w' = [w EXCEPT ![b][Signals(t)] = @ + 1]
              /\ waitingCount' = [waitingCount EXCEPT ![b][Signals(t)] = @ - 1]
          BY <4>1, <2>10 DEF Signal, b
        <5>2. waitingCount[b][Signals(t)] - 1 \in Nat
          BY <4>1, <3>1, <2>w, <2>1
        <5> QED
          BY <5>1, <5>2, <3>1, <2>w, <2>1
      <4>2. CASE ~(waitingCount[b][Signals(t)] > 0)
        BY <4>2, <3>1, <2>w, <2>1, <2>10 DEF Signal, b
      <4> QED
        BY <4>1, <4>2
    <3> QED
      BY <3>2, <2>0, <2>10 DEF Signal, TypeOK, fields
  <2>11. CASE Leave(t)
    <3>1. s' \in [Buffers -> Nat]
      BY <2>s, <2>1, <2>11 DEF Leave, V, b
    <3>2. /\ place' \in [Producers -> Nat]
          /\ \A p \in Producers : place'[p] < Len(Route[p])
      <4>1. CASE t \in Producers
        <5>1. Len(Route[t]) \in Nat \ {0}
          BY <4>1, MonitorBufferAssumption
        <5>2. (place[t] + 1) % Len(Route[t]) \in 0..(Len(Route[t]) - 1)
          BY <4>1, <5>1 DEF TypeOK
        <5> QED
          BY <4>1, <5>1, <5>2, <2>11 DEF Leave, TypeOK
      <4>2. CASE t \notin Producers
        BY <4>2, <2>11 DEF Leave, TypeOK
      <4> QED
        BY <4>1, <4>2
    <3> QED
      BY <3>1, <3>2, <2>0, <2>11 DEF Leave, TypeOK, fields
  <2> QED
    BY <1>2, <2>2, <2>3, <2>4, <2>5, <2>6, <2>7, <2>8, <2>9, <2>10, <2>11
       DEF ThreadStep
<1> QED
  BY <1>1, <1>2 DEF Next

\* Semaphores and counts are natural numbers, indices lie in the buffer, and
\* each producer is at a place of its route, whatever the threads do.
THEOREM TypeCorrect == Spec => []TypeOK
<1>1. Init => TypeOK
  <2> SUFFICES ASSUME Init
               PROVE  TypeOK
    OBVIOUS
  <2>1. 0 \in 0..(Size - 1)
    BY MonitorBufferAssumption
  <2>2. \A p \in Producers : 0 < Len(Route[p])
    BY MonitorBufferAssumption
  <2>3. Nothing \in Contents /\ "enter" \in Statements
    BY DEF Contents, Statements
  <2> QED
    BY <2>1, <2>2, <2>3 DEF Init, TypeOK
<1> QED
  BY <1>1, TypeInductive, PTL DEF Spec
-----------------------------------------------------------------------------
(* Exclusion.  The right to be inside is a token: it lies in s or in the    *)
(* semaphore of a condition, or exactly one thread has it.                  *)

InMonitor(t) ==
  pc[t] \in {"test", "give_up", "access", "advance", "signal", "leave"}
InsideAt(t, b) == Target(t) = b /\ InMonitor(t)
Tokens(b) == s[b] + w[b]["empty"] + w[b]["full"]

Exclusion ==
  \A b \in Buffers :
    /\ Tokens(b) \in {0, 1}
    /\ Tokens(b) = 1 => \A t \in Threads : ~InsideAt(t, b)
    /\ Tokens(b) = 0 => \E t \in Threads : InsideAt(t, b)
    /\ \A t, u \in Threads : InsideAt(t, b) /\ InsideAt(u, b) => t = u

\* The three things a step of a thread at buffer b can do with the token
ComesIn(t, b) ==
  /\ ~InMonitor(t) /\ InsideAt(t, b)'
  /\ Tokens(b) > 0 /\ Tokens(b)' = Tokens(b) - 1
StaysIn(t, b) ==
  InMonitor(t) /\ InsideAt(t, b)' /\ Tokens(b)' = Tokens(b)
GoesOut(t, b) ==
  InMonitor(t) /\ ~InMonitor(t)' /\ Tokens(b)' = Tokens(b) + 1

\* What a step does to the right to be inside: the thread takes it from a
\* semaphore, keeps it, or puts it into one semaphore.
LEMMA TokenMoves ==
  ASSUME TypeOK, NEW t \in Threads, ThreadStep(t),
         NEW b \in Buffers, b = Target(t)
  PROVE  /\ ComesIn(t, b) \/ StaysIn(t, b) \/ GoesOut(t, b)
         /\ \A a \in Buffers \ {b} : Tokens(a)' = Tokens(a)
<1> USE DEF Tokens
<1>s. s \in [Buffers -> Nat]
  BY DEF TypeOK
<1>w. w \in [Buffers -> [Conditions -> Nat]]
  BY DEF TypeOK
<1>pc. pc \in [Threads -> Statements]
  BY DEF TypeOK
<1>t. pc[t] # "leave" => Target(t)' = b
  BY OthersStay
<1>1. CASE Enter(t) \/ EnterAgain(t)
  <2>1. ComesIn(t, b)
    BY <1>1, <1>s, <1>w, <1>pc, <1>t
       DEF Enter, EnterAgain, P, GoTo, ComesIn, InsideAt, InMonitor, Conditions
  <2> QED
    BY <1>1, <2>1, <1>s DEF Enter, EnterAgain, P
<1>2. CASE Test(t) \/ Write(t) \/ AdvanceIn(t) \/ Read(t) \/ AdvanceOut(t)
  <2>1. s' = s /\ w' = w
    BY <1>2 DEF Test, Write, AdvanceIn, Read, AdvanceOut
  <2>2. /\ InMonitor(t) /\ InMonitor(t)'
        /\ pc[t] # "leave"
    BY <1>2, <1>pc
       DEF Test, Write, AdvanceIn, Read, AdvanceOut, GoTo, InMonitor
  <2> QED
    BY <2>1, <2>2, <1>t DEF StaysIn, InsideAt
<1>3. CASE GiveUp(t) \/ Leave(t)
  <2>1. InMonitor(t) /\ ~InMonitor(t)'
    BY <1>3, <1>pc DEF GiveUp, Leave, GoTo, InMonitor
  <2>2. s' = [s EXCEPT ![b] = @ + 1] /\ w' = w
    BY <1>3 DEF GiveUp, Leave, V
  <2>3. s[b] \in Nat /\ w[b]["empty"] \in Nat /\ w[b]["full"] \in Nat
    BY <1>s, <1>w DEF Conditions
  <2>4. GoesOut(t, b)
    BY <2>1, <2>2, <2>3, <1>s DEF GoesOut
  <2> QED
    BY <2>2, <2>4, <1>s
<1>4. CASE Wake(t)
  <2>1. WaitsFor(t) \in Conditions
    BY DEF WaitsFor, Conditions
  <2>2. ComesIn(t, b)
    BY <1>4, <1>s, <1>w, <1>pc, <1>t
       DEF Wake, GoTo, ComesIn, InsideAt, InMonitor, Conditions, WaitsFor
  <2> QED
    BY <1>4, <2>1, <2>2, <1>w DEF Wake
<1>5. CASE Signal(t)
  <2>1. CASE waitingCount[b][Signals(t)] > 0
    <3>1. /\ pc[t] = "signal" /\ pc' = [pc EXCEPT ![t] = "enter_again"]
          /\ w' = [w EXCEPT ![b][Signals(t)] = @ + 1] /\ s' = s
      BY <1>5, <2>1 DEF Signal, GoTo
    <3>2. InMonitor(t) /\ ~InMonitor(t)'
      BY <3>1, <1>pc DEF InMonitor
    <3>3. w[b]["empty"] \in Nat /\ w[b]["full"] \in Nat /\ s[b] \in Nat
      BY <1>s, <1>w DEF Conditions
    <3>4. w'[b] = [w[b] EXCEPT ![Signals(t)] = @ + 1]
      BY <3>1, <1>w
    <3>5. Tokens(b)' = Tokens(b) + 1
      BY <3>1, <3>3, <3>4, <1>w DEF Signals, Conditions
    <3>6. GoesOut(t, b)
      BY <3>2, <3>5 DEF GoesOut
    <3> QED
      BY <3>1, <3>6, <1>w
  <2>2. CASE ~(waitingCount[b][Signals(t)] > 0)
    <3>1. /\ pc[t] = "signal" /\ pc' = [pc EXCEPT ![t] = "leave"]
          /\ w' = w /\ s' = s
      BY <1>5, <2>2 DEF Signal, GoTo
    <3> QED
      BY <3>1, <1>pc, <1>t DEF StaysIn, InsideAt, InMonitor
  <2> QED
    BY <2>1, <2>2
<1> QED
  BY <1>1, <1>2, <1>3, <1>4, <1>5 DEF ThreadStep

\* Every step keeps the account of the right to be inside.
LEMMA ExclusionInductive ==
  ASSUME TypeOK, Exclusion, NEW t \in Threads, ThreadStep(t)
  PROVE  Exclusion'
<1>1. PICK b \in Buffers : b = Target(t)
  BY TargetIsBuffer
<1>2. \A a \in Buffers : Tokens(a) \in Nat
  <2>1. s \in [Buffers -> Nat] /\ w \in [Buffers -> [Conditions -> Nat]]
    BY DEF TypeOK
  <2>2. ASSUME NEW a \in Buffers
        PROVE  s[a] \in Nat /\ w[a]["empty"] \in Nat /\ w[a]["full"] \in Nat
    BY <2>1 DEF Conditions
  <2> QED
    BY <2>2 DEF Tokens
<1>3. \A u \in Threads \ {t} : pc'[u] = pc[u] /\ Target(u)' = Target(u)
  BY OthersStay
<1>4. /\ ComesIn(t, b) \/ StaysIn(t, b) \/ GoesOut(t, b)
      /\ \A a \in Buffers \ {b} : Tokens(a)' = Tokens(a)
  BY <1>1, TokenMoves
<1> SUFFICES ASSUME NEW a \in Buffers
             PROVE  /\ Tokens(a)' \in {0, 1}
                    /\ Tokens(a)' = 1 => \A u \in Threads : ~InsideAt(u, a)'
                    /\ Tokens(a)' = 0 => \E u \in Threads : InsideAt(u, a)'
                    /\ \A u, v \in Threads :
                         InsideAt(u, a)' /\ InsideAt(v, a)' => u = v
  BY DEF Exclusion
<1>5. \A u \in Threads \ {t} : InsideAt(u, a)' <=> InsideAt(u, a)
  BY <1>3 DEF InsideAt, InMonitor
<1>6. CASE a # b
  <2>1. ~InsideAt(t, a) /\ ~InsideAt(t, a)'
    BY <1>1, <1>4, <1>6 DEF InsideAt, ComesIn, StaysIn, GoesOut
  <2> QED
    BY <2>1, <1>4, <1>5, <1>6 DEF Exclusion
<1>7. CASE a = b
  <2>1. CASE ComesIn(t, b)
    <3>1. /\ Tokens(b) = 1 /\ Tokens(b)' = 0
          /\ InsideAt(t, b)'
      BY <2>1, <1>1, <1>2 DEF Exclusion, ComesIn
    <3> QED
      BY <3>1, <1>1, <1>5, <1>7 DEF Exclusion
  <2>2. CASE StaysIn(t, b)
    <3>1. /\ InsideAt(t, b) /\ InsideAt(t, b)'
          /\ Tokens(b)' = Tokens(b)
      BY <1>1, <2>2 DEF StaysIn, InsideAt
    <3> QED
      BY <3>1, <1>1, <1>5, <1>7 DEF Exclusion
  <2>3. CASE GoesOut(t, b)
    <3>1. InsideAt(t, b) /\ ~InsideAt(t, b)'
      BY <1>1, <2>3 DEF GoesOut, InsideAt
    <3>2. Tokens(b) = 0 /\ Tokens(b)' = 1
      BY <3>1, <2>3, <1>1 DEF Exclusion, GoesOut
    <3> QED
      BY <3>1, <3>2, <1>1, <1>5, <1>7 DEF Exclusion
  <2> QED
    BY <2>1, <2>2, <2>3, <1>4
<1> QED
  BY <1>6, <1>7

\* The right to be inside a monitor is never doubled.
LEMMA ExclusionAlways == Spec => []Exclusion
<1>1. Init => Exclusion
  BY DEF Init, Exclusion, InsideAt, InMonitor, Tokens, Conditions
<1>2. TypeOK /\ Exclusion /\ [Next]_vars => Exclusion'
  <2> SUFFICES ASSUME TypeOK, Exclusion, [Next]_vars
               PROVE  Exclusion'
    OBVIOUS
  <2>1. CASE UNCHANGED vars
    BY <2>1 DEF vars, Exclusion, InsideAt, InMonitor, Tokens, Target
  <2>2. CASE Next
    BY <2>2, ExclusionInductive DEF Next
  <2> QED
    BY <2>1, <2>2
<1> QED
  BY <1>1, <1>2, TypeCorrect, PTL DEF Spec

\* OneBaton, the form a run checks, counts those inside.  With Exclusion there
\* are at most one of them.
LEMMA ExclusionCounts == Exclusion => OneBaton
<1> SUFFICES ASSUME Exclusion, NEW b \in Buffers
             PROVE  Tokens(b) + Cardinality(Inside(b)) = 1
  BY DEF OneBaton, Tokens
<1>1. Inside(b) = {t \in Threads : InsideAt(t, b)}
  BY DEF Inside, InsideAt, InMonitor
<1>2. CASE Tokens(b) = 1
  BY <1>1, <1>2, FS_EmptySet DEF Exclusion
<1>3. CASE Tokens(b) = 0
  <2>1. PICK t \in Threads : InsideAt(t, b)
    BY <1>3 DEF Exclusion
  <2>2. Inside(b) = {t}
    BY <1>1, <2>1 DEF Exclusion
  <2> QED
    BY <1>3, <2>2, FS_Singleton
<1> QED
  BY <1>2, <1>3 DEF Exclusion

\* A thread that signals hands its place to the one it wakes, which does not
\* take s: whatever the threads do, the right to be inside is in s, in one
\* wake-up or with one thread (monitor.h).
THEOREM OneBatonAlways == Spec => []OneBaton
BY ExclusionAlways, ExclusionCounts, PTL
-----------------------------------------------------------------------------
(* The threads that wait are counted. *)

IsWaiter(t, b, c) ==
  Target(t) = b /\ WaitsFor(t) = c /\ pc[t] \in {"give_up", "wait"}
Waiters(b, c) == {t \in Threads : IsWaiter(t, b, c)}

Counted ==
  \A b \in Buffers, c \in Conditions :
    /\ IsFiniteSet(Waiters(b, c))
    /\ waitingCount[b][c] + w[b][c] = Cardinality(Waiters(b, c))

\* Every step keeps the account of the waiters.
LEMMA CountedInductive ==
  ASSUME TypeOK, Counted, NEW t \in Threads, ThreadStep(t)
  PROVE  Counted'
<1>1. PICK d \in Buffers : d = Target(t)
  BY TargetIsBuffer
<1>2. WaitsFor(t) \in Conditions /\ Signals(t) \in Conditions
  BY DEF WaitsFor, Signals, Conditions
<1>pc. pc \in [Threads -> Statements]
  BY DEF TypeOK
<1>w. /\ w \in [Buffers -> [Conditions -> Nat]]
      /\ waitingCount \in [Buffers -> [Conditions -> Nat]]
  BY DEF TypeOK
<1> SUFFICES ASSUME NEW b \in Buffers, NEW c \in Conditions
             PROVE  /\ IsFiniteSet(Waiters(b, c)')
                    /\ waitingCount'[b][c] + w'[b][c] =
                         Cardinality(Waiters(b, c)')
  BY DEF Counted
<1>3. /\ IsFiniteSet(Waiters(b, c))
      /\ waitingCount[b][c] + w[b][c] = Cardinality(Waiters(b, c))
  BY DEF Counted
<1>4. \A u \in Threads \ {t} : IsWaiter(u, b, c)' <=> IsWaiter(u, b, c)
  BY OthersStay DEF IsWaiter, WaitsFor
<1>5. IsWaiter(t, b, c) <=> /\ d = b /\ WaitsFor(t) = c
                            /\ pc[t] \in {"give_up", "wait"}
  BY <1>1 DEF IsWaiter
<1>6. pc[t] # "leave" =>
        (IsWaiter(t, b, c)' <=> /\ d = b /\ WaitsFor(t) = c
                                /\ pc'[t] \in {"give_up", "wait"})
  BY <1>1, OthersStay DEF IsWaiter, WaitsFor
<1>7. ASSUME IsWaiter(t, b, c)' <=> IsWaiter(t, b, c),
             waitingCount'[b][c] + w'[b][c] = waitingCount[b][c] + w[b][c]
      PROVE  /\ IsFiniteSet(Waiters(b, c)')
             /\ waitingCount'[b][c] + w'[b][c] = Cardinality(Waiters(b, c)')
  <2>1. Waiters(b, c)' = Waiters(b, c)
    BY <1>4, <1>7 DEF Waiters
  <2> QED
    BY <2>1, <1>3, <1>7
<1>8. CASE Enter(t) \/ GiveUp(t) \/ Write(t) \/ AdvanceIn(t) \/ Read(t)
           \/ AdvanceOut(t) \/ EnterAgain(t)
  <2>1. waitingCount' = waitingCount /\ w' = w
    BY <1>8 DEF Enter, GiveUp, Write, AdvanceIn, Read, AdvanceOut, EnterAgain
  <2>2. /\ pc[t] # "leave"
        /\ pc[t] \in {"give_up", "wait"} <=> pc'[t] \in {"give_up", "wait"}
    BY <1>8, <1>pc DEF Enter, GiveUp, Write, AdvanceIn, Read, AdvanceOut,
                       EnterAgain, GoTo
  <2> QED
    BY <2>1, <2>2, <1>5, <1>6, <1>7
<1>9. CASE Leave(t)
  <2>1. /\ waitingCount' = waitingCount /\ w' = w
        /\ pc[t] = "leave" /\ pc'[t] = "enter"
    BY <1>9, <1>pc DEF Leave, GoTo
  <2> QED
    BY <2>1, <1>7 DEF IsWaiter
<1>10. CASE Test(t)
  <2>0. w' = w /\ pc[t] = "test"
    BY <1>10 DEF Test
  <2>1. CASE MustWait(t) /\ d = b /\ WaitsFor(t) = c
    <3>1. /\ waitingCount' = [waitingCount EXCEPT ![b][c] = @ + 1]
          /\ pc'[t] = "give_up"
      BY <2>1, <1>1, <1>10, <1>pc DEF Test, GoTo
    <3>2. waitingCount'[b][c] = waitingCount[b][c] + 1
      BY <3>1, <1>w
    <3>3. /\ Waiters(b, c)' = Waiters(b, c) \cup {t}
          /\ t \notin Waiters(b, c)
      BY <2>0, <2>1, <3>1, <1>4, <1>5, <1>6 DEF Waiters
    <3>4. /\ IsFiniteSet(Waiters(b, c)')
          /\ Cardinality(Waiters(b, c)') = Cardinality(Waiters(b, c)) + 1
      BY <3>3, <1>3, FS_AddElement
    <3> QED
      BY <2>0, <3>2, <3>4, <1>3, <1>w
  <2>2. CASE MustWait(t) /\ ~(d = b /\ WaitsFor(t) = c)
    <3>1. waitingCount' = [waitingCount EXCEPT ![d][WaitsFor(t)] = @ + 1]
      BY <2>2, <1>1, <1>10 DEF Test
    <3>2. waitingCount'[b][c] = waitingCount[b][c]
      BY <2>2, <3>1, <1>w
    <3> QED
      BY <2>0, <2>2, <3>2, <1>5, <1>6, <1>7
  <2>3. CASE ~MustWait(t)
    <3>1. waitingCount' = waitingCount /\ pc'[t] = "access"
      BY <2>3, <1>10, <1>pc DEF Test, GoTo
    <3> QED
      BY <2>0, <3>1, <1>5, <1>6, <1>7
  <2> QED
    BY <2>1, <2>2, <2>3
<1>11. CASE Wake(t)
  <2>0. /\ waitingCount' = waitingCount
        /\ w[d][WaitsFor(t)] > 0
        /\ w' = [w EXCEPT ![d][WaitsFor(t)] = @ - 1]
        /\ pc[t] = "wait" /\ pc'[t] = "access"
    BY <1>1, <1>11, <1>pc DEF Wake, GoTo
  <2>1. CASE d = b /\ WaitsFor(t) = c
    <3>1. w'[b][c] = w[b][c] - 1
      BY <2>0, <2>1, <1>w
    <3>2. /\ Waiters(b, c)' = Waiters(b, c) \ {t}
          /\ t \in Waiters(b, c)
      BY <2>0, <2>1, <1>4, <1>5, <1>6 DEF Waiters
    <3>3. /\ IsFiniteSet(Waiters(b, c)')
          /\ Cardinality(Waiters(b, c)') = Cardinality(Waiters(b, c)) - 1
      BY <3>2, <1>3, FS_RemoveElement
    <3> QED
      BY <2>0, <3>1, <3>3, <1>3, <1>w
  <2>2. CASE ~(d = b /\ WaitsFor(t) = c)
    <3>1. w'[b][c] = w[b][c]
      BY <2>0, <2>2, <1>w, <1>2
    <3> QED
      BY <2>0, <2>2, <3>1, <1>5, <1>6, <1>7
  <2> QED
    BY <2>1, <2>2
<1>12. CASE Signal(t)
  <2>1. /\ pc[t] = "signal" /\ pc'[t] \in {"enter_again", "leave"}
    BY <1>12, <1>pc DEF Signal, GoTo
  <2>2. waitingCount'[b][c] + w'[b][c] = waitingCount[b][c] + w[b][c]
    <3>1. CASE waitingCount[d][Signals(t)] > 0
      <4>1. /\ w' = [w EXCEPT ![d][Signals(t)] = @ + 1]
            /\ waitingCount' = [waitingCount EXCEPT ![d][Signals(t)] = @ - 1]
        BY <3>1, <1>1, <1>12 DEF Signal
      <4> QED
        BY <4>1, <1>2, <1>w
    <3>2. CASE ~(waitingCount[d][Signals(t)] > 0)
      BY <3>2, <1>1, <1>12 DEF Signal
    <3> QED
      BY <3>1, <3>2
  <2> QED
    BY <2>1, <2>2, <1>5, <1>6, <1>7
<1> QED
  BY <1>8, <1>9, <1>10, <1>11, <1>12 DEF ThreadStep

\* waitingCount and the wake-ups under way always make up the waiters.
LEMMA CountedAlways == Spec => []Counted
<1>1. Init => Counted
  <2> SUFFICES ASSUME Init, NEW b \in Buffers, NEW c \in Conditions
               PROVE  /\ IsFiniteSet(Waiters(b, c))
                      /\ waitingCount[b][c] + w[b][c] =
                           Cardinality(Waiters(b, c))
    BY DEF Counted
  <2>1. Waiters(b, c) = {}
    BY DEF Init, Waiters, IsWaiter
  <2>2. waitingCount[b][c] = 0 /\ w[b][c] = 0
    BY DEF Init
  <2> QED
    BY <2>1, <2>2, FS_EmptySet
<1>2. TypeOK /\ Counted /\ [Next]_vars => Counted'
  <2>1. Counted /\ UNCHANGED vars => Counted'
    BY DEF vars, Counted, Waiters, IsWaiter, Target, WaitsFor
  <2> QED
    BY <2>1, CountedInductive DEF Next
<1> QED
  BY <1>1, <1>2, TypeCorrect, PTL DEF Spec
-----------------------------------------------------------------------------
(* What a thread has tested stays true until it has done its work, and the  *)
(* one it wakes finds true what it waits for.                               *)

\* What t waits for, and what its work makes true for those of the other kind
HasWork(t) ==
  IF t \in Producers THEN counter[Target(t)] < Size ELSE counter[Target(t)] > 0
HasWorked(t) ==
  IF t \in Producers THEN counter[Target(t)] > 0 ELSE counter[Target(t)] < Size

CounterInRange == \A b \in Buffers : counter[b] \in 0..Size

Tested ==
  \A t \in Threads :
    /\ pc[t] = "give_up" => MustWait(t)
    /\ pc[t] \in {"access", "advance"} => HasWork(t)
    /\ pc[t] = "signal" => HasWorked(t)

WakeUpsTrue ==
  \A b \in Buffers : /\ w[b]["full"] > 0 => counter[b] < Size
                     /\ w[b]["empty"] > 0 => counter[b] > 0

Conditional == CounterInRange /\ Tested /\ WakeUpsTrue

\* Whoever is inside is alone there, and no wake-up is under way.
LEMMA Alone ==
  ASSUME TypeOK, Exclusion, NEW t \in Threads, InMonitor(t),
         NEW b \in Buffers, b = Target(t)
  PROVE  /\ s[b] = 0 /\ w[b]["empty"] = 0 /\ w[b]["full"] = 0
         /\ \A u \in Threads \ {t} : Target(u) = b => ~InMonitor(u)
<1>1. InsideAt(t, b)
  BY DEF InsideAt
<1>2. Tokens(b) = 0
  BY <1>1 DEF Exclusion
<1>3. s[b] \in Nat /\ w[b]["empty"] \in Nat /\ w[b]["full"] \in Nat
  BY DEF TypeOK, Conditions
<1>4. s[b] = 0 /\ w[b]["empty"] = 0 /\ w[b]["full"] = 0
  BY <1>2, <1>3 DEF Tokens
<1>5. \A u \in Threads \ {t} : Target(u) = b => ~InMonitor(u)
  BY <1>1 DEF Exclusion, InsideAt
<1> QED
  BY <1>4, <1>5

\* Only these two steps change a counter.
LEMMA CounterSteps ==
  ASSUME TypeOK, NEW t \in Threads, ThreadStep(t),
         NEW b \in Buffers, b = Target(t)
  PROVE  \/ /\ AdvanceIn(t) /\ t \in Producers /\ pc[t] = "advance"
            /\ pc'[t] = "signal" /\ w' = w
            /\ counter' = [counter EXCEPT ![b] = @ + 1]
         \/ /\ AdvanceOut(t) /\ t \notin Producers /\ pc[t] = "advance"
            /\ pc'[t] = "signal" /\ w' = w
            /\ counter' = [counter EXCEPT ![b] = @ - 1]
         \/ /\ ~AdvanceIn(t) /\ ~AdvanceOut(t) /\ counter' = counter
<1>pc. pc \in [Threads -> Statements]
  BY DEF TypeOK
<1>1. CASE AdvanceIn(t)
  BY <1>1, <1>pc DEF AdvanceIn, GoTo
<1>2. CASE AdvanceOut(t)
  BY <1>2, <1>pc, MonitorBufferAssumption DEF AdvanceOut, GoTo
<1>3. CASE ~AdvanceIn(t) /\ ~AdvanceOut(t)
  BY <1>3 DEF ThreadStep, Enter, Test, GiveUp, Wake, Write, Read, Signal,
              EnterAgain, Leave, fields
<1> QED
  BY <1>1, <1>2, <1>3

\* Every step keeps what the threads inside, and the wake-ups, rely on.
LEMMA ConditionalInductive ==
  ASSUME TypeOK, Exclusion, Conditional, NEW t \in Threads, ThreadStep(t)
  PROVE  Conditional'
<1>1. PICK b \in Buffers : b = Target(t)
  BY TargetIsBuffer
<1>2. \A u \in Threads \ {t} : pc'[u] = pc[u] /\ Target(u)' = Target(u)
  BY OthersStay
<1>3. pc[t] # "leave" => Target(t)' = b
  BY <1>1, OthersStay
<1>n. Size \in Nat \ {0}
  BY MonitorBufferAssumption
<1>c. counter \in [Buffers -> Int]
  BY DEF TypeOK
<1>pc. pc \in [Threads -> Statements]
  BY DEF TypeOK
<1>w. w \in [Buffers -> [Conditions -> Nat]]
  BY DEF TypeOK
<1>4. CASE counter' # counter
  <2>1. /\ pc[t] = "advance" /\ pc'[t] = "signal" /\ w' = w
        /\ counter' = [counter EXCEPT ![b] = IF t \in Producers
                                             THEN @ + 1 ELSE @ - 1]
    BY <1>1, <1>4, CounterSteps
  <2>2. /\ w[b]["empty"] = 0 /\ w[b]["full"] = 0
        /\ \A u \in Threads \ {t} : Target(u) = b => ~InMonitor(u)
    BY <2>1, <1>1, Alone DEF InMonitor
  <2>3. /\ HasWork(t) /\ counter[b] \in 0..Size
        /\ \A a \in Buffers \ {b} : counter'[a] = counter[a]
        /\ counter'[b] = IF t \in Producers THEN counter[b] + 1
                                            ELSE counter[b] - 1
    BY <2>1, <1>c DEF Conditional, Tested, CounterInRange
  <2>4. counter'[b] \in 0..Size /\ HasWorked(t)'
    BY <2>1, <2>3, <1>1, <1>3, <1>n DEF HasWork, HasWorked
  <2>5. CounterInRange'
    BY <2>3, <2>4 DEF Conditional, CounterInRange
  <2>6. WakeUpsTrue'
    BY <2>1, <2>2, <2>3 DEF Conditional, WakeUpsTrue
  <2>7. ASSUME NEW u \in Threads \ {t}
        PROVE  /\ pc'[u] = "give_up" => MustWait(u)'
               /\ pc'[u] \in {"access", "advance"} => HasWork(u)'
               /\ pc'[u] = "signal" => HasWorked(u)'
    <3>1. CASE Target(u) = b
      BY <3>1, <2>2, <1>2 DEF InMonitor
    <3>2. CASE Target(u) # b
      <4>1. Target(u) \in Buffers
        BY TargetIsBuffer
      <4>2. counter'[Target(u)'] = counter[Target(u)]
        BY <3>2, <4>1, <2>3, <1>2
      <4> QED
        BY <4>2, <1>2
           DEF Conditional, Tested, MustWait, HasWork, HasWorked
    <3> QED
      BY <3>1, <3>2
  <2>8. Tested'
    BY <2>1, <2>4, <2>7 DEF Tested
  <2> QED
    BY <2>5, <2>6, <2>8 DEF Conditional
<1>5. CASE counter' = counter
  <2>1. CounterInRange'
    BY <1>5 DEF Conditional, CounterInRange
  <2>2. ASSUME NEW u \in Threads, Target(u)' = Target(u)
        PROVE  /\ MustWait(u)' <=> MustWait(u)
               /\ HasWork(u)' <=> HasWork(u)
               /\ HasWorked(u)' <=> HasWorked(u)
    BY <2>2, <1>5 DEF MustWait, HasWork, HasWorked
  <2>3. /\ pc'[t] = "give_up" => MustWait(t)'
        /\ pc'[t] \in {"access", "advance"} => HasWork(t)'
        /\ pc'[t] = "signal" => HasWorked(t)'
    <3>0. ~AdvanceIn(t) /\ ~AdvanceOut(t)
      BY <1>1, <1>5, <1>c, CounterSteps
    <3>1. CASE Test(t)
      <4>1. pc[t] = "test" /\ pc'[t] = IF MustWait(t) THEN "give_up" ELSE "access"
        BY <3>1, <1>pc DEF Test, GoTo
      <4>2. ~MustWait(t) => HasWork(t)
        BY <1>1, <1>n DEF Conditional, CounterInRange, MustWait, HasWork
      <4> QED
        BY <4>1, <4>2, <2>2, <1>1, <1>3
    <3>2. CASE Wake(t)
      <4>1. pc[t] = "wait" /\ pc'[t] = "access" /\ w[b][WaitsFor(t)] > 0
        BY <3>2, <1>1, <1>pc DEF Wake, GoTo
      <4>2. HasWork(t)
        BY <4>1, <1>1 DEF Conditional, WakeUpsTrue, WaitsFor, HasWork
      <4> QED
        BY <4>1, <4>2, <2>2, <1>1, <1>3
    <3>3. CASE Write(t) \/ Read(t)
      <4>1. pc[t] = "access" /\ pc'[t] = "advance"
        BY <3>3, <1>pc DEF Write, Read, GoTo
      <4> QED
        BY <4>1, <2>2, <1>1, <1>3 DEF Conditional, Tested
    <3>4. CASE Enter(t) \/ GiveUp(t) \/ Signal(t) \/ EnterAgain(t) \/ Leave(t)
      <4>1. pc'[t] \in {"test", "wait", "enter_again", "leave", "enter"}
        BY <3>4, <1>pc DEF Enter, GiveUp, Signal, EnterAgain, Leave, GoTo
      <4> QED
        BY <4>1
    <3> QED
      BY <3>0, <3>1, <3>2, <3>3, <3>4 DEF ThreadStep
  <2>4. Tested'
    BY <2>2, <2>3, <1>2 DEF Conditional, Tested
  <2>5. WakeUpsTrue'
    <3>1. CASE Signal(t) /\ w' # w
      <4>1. pc[t] = "signal" /\ w' = [w EXCEPT ![b][Signals(t)] = @ + 1]
        BY <3>1, <1>1 DEF Signal
      <4>2. HasWorked(t)
        BY <4>1 DEF Conditional, Tested
      <4>3. \A a \in Buffers, c \in Conditions :
              w'[a][c] = IF a = b /\ c = Signals(t) THEN w[a][c] + 1 ELSE w[a][c]
        BY <4>1, <1>w
      <4> QED
        BY <4>2, <4>3, <1>1, <1>5
           DEF Conditional, WakeUpsTrue, HasWorked, Signals, Conditions
    <3>2. CASE Wake(t)
      <4>1. w' = [w EXCEPT ![b][WaitsFor(t)] = @ - 1]
        BY <3>2, <1>1 DEF Wake
      <4>2. \A a \in Buffers, c \in Conditions : w'[a][c] > 0 => w[a][c] > 0
        BY <4>1, <1>w
      <4> QED
        BY <4>2, <1>5 DEF Conditional, WakeUpsTrue, Conditions
    <3>3. CASE w' = w
      BY <3>3, <1>5 DEF Conditional, WakeUpsTrue
    <3>4. Wake(t) \/ w' = w \/ Signal(t)
      BY DEF ThreadStep, Enter, Test, GiveUp, Write, AdvanceIn, Read,
             AdvanceOut, EnterAgain, Leave
    <3> QED
      BY <3>1, <3>2, <3>3, <3>4
  <2> QED
    BY <2>1, <2>4, <2>5 DEF Conditional
<1> QED
  BY <1>4, <1>5

\* counter stays in its range and what was tested stays true until used.
LEMMA ConditionalAlways == Spec => []Conditional
<1>1. Init => Conditional
  BY MonitorBufferAssumption
     DEF Init, Conditional, CounterInRange, Tested, WakeUpsTrue, Conditions
<1>2. TypeOK /\ Exclusion /\ Conditional /\ [Next]_vars => Conditional'
  <2>1. Conditional /\ UNCHANGED vars => Conditional'
    BY DEF vars, fields, Conditional, CounterInRange, Tested, WakeUpsTrue,
           MustWait, HasWork, HasWorked, Target
  <2> QED
    BY <2>1, ConditionalInductive DEF Next
<1> QED
  BY <1>1, <1>2, TypeCorrect, ExclusionAlways, PTL DEF Spec

\* produce() and consume() test with "if" where others test with "while": what
\* a thread waited for is still true when it goes on.
THEOREM ConditionStillHoldsAlways == Spec => []ConditionStillHolds
<1>1. Conditional => ConditionStillHolds
  BY DEF Conditional, Tested, HasWork, ConditionStillHolds
<1> QED
  BY <1>1, ConditionalAlways, PTL
-----------------------------------------------------------------------------
(* Why nobody sleeps in vain: a thread sleeps while there is nothing of     *)
(* what it waits for, or one product (place) that is being announced to the *)
(* sleepers or used up.                                                     *)

Sleeps(t, b) == Target(t) = b /\ pc[t] = "wait"

\* How much there is of what waiters for c need
Level(b, c) == IF c = "full" THEN Size - counter[b] ELSE counter[b]

UsesUp(u, c) ==
  IF WaitsFor(u) = c THEN pc[u] \in {"access", "advance"} ELSE pc[u] = "signal"
Announced(b, c) ==
  w[b][c] > 0 \/ \E u \in Threads : Target(u) = b /\ UsesUp(u, c)

SleepersJustified ==
  \A t \in Threads, b \in Buffers :
    Sleeps(t, b) =>
      \/ Level(b, WaitsFor(t)) = 0
      \/ Level(b, WaitsFor(t)) = 1 /\ Announced(b, WaitsFor(t))

\* While a thread inside does not use up c, or nobody is inside and no
\* wake-up for c is under way, nothing is announced.
LEMMA NotAnnounced ==
  ASSUME TypeOK, Exclusion, NEW b \in Buffers, NEW c \in Conditions,
         \/ \E t \in Threads : InsideAt(t, b) /\ ~UsesUp(t, c)
         \/ Tokens(b) = 1 /\ w[b][c] = 0
  PROVE  ~Announced(b, c)
<1>1. ASSUME NEW t \in Threads, InsideAt(t, b), ~UsesUp(t, c)
      PROVE  ~Announced(b, c)
  <2>1. /\ w[b]["empty"] = 0 /\ w[b]["full"] = 0
        /\ \A u \in Threads \ {t} : Target(u) = b => ~InMonitor(u)
    BY <1>1, Alone DEF InsideAt
  <2>2. w[b][c] = 0
    BY <2>1 DEF Conditions
  <2>3. \A u \in Threads : UsesUp(u, c) => InMonitor(u)
    BY DEF UsesUp, InMonitor
  <2> QED
    BY <1>1, <2>1, <2>2, <2>3 DEF Announced
<1>2. CASE Tokens(b) = 1 /\ w[b][c] = 0
  BY <1>2 DEF Exclusion, InsideAt, InMonitor, UsesUp, Announced
<1> QED
  BY <1>1, <1>2

\* Every step leaves each sleeper a reason to sleep, or a wake-up to come.
LEMMA SleepersInductive ==
  ASSUME TypeOK, Exclusion, Counted, Conditional, SleepersJustified,
         NEW t \in Threads, ThreadStep(t)
  PROVE  SleepersJustified'
<1>1. PICK b \in Buffers : b = Target(t)
  BY TargetIsBuffer
<1>2. \A u \in Threads \ {t} : pc'[u] = pc[u] /\ Target(u)' = Target(u)
  BY OthersStay
<1>3. pc[t] # "leave" => Target(t)' = b
  BY <1>1, OthersStay
<1>n. Size \in Nat \ {0}
  BY MonitorBufferAssumption
<1>c. counter \in [Buffers -> Int]
  BY DEF TypeOK
<1>pc. pc \in [Threads -> Statements]
  BY DEF TypeOK
<1>w. /\ w \in [Buffers -> [Conditions -> Nat]]
      /\ waitingCount \in [Buffers -> [Conditions -> Nat]]
  BY DEF TypeOK
<1>4. \A a \in Buffers \ {b} : counter'[a] = counter[a]
  BY <1>1, <1>c, CounterSteps
<1>5. \A a \in Buffers \ {b} : w'[a] = w[a]
  BY <1>1, <1>w DEF ThreadStep, Enter, Test, GiveUp, Wake, Write, AdvanceIn,
     Read, AdvanceOut, Signal, EnterAgain, Leave
<1>6. pc'[t] = "wait" => GiveUp(t)
  BY <1>pc DEF ThreadStep, Enter, Test, GiveUp, Wake, Write, AdvanceIn, Read,
     AdvanceOut, Signal, EnterAgain, Leave, GoTo
<1> SUFFICES ASSUME NEW x \in Threads, NEW a \in Buffers,
                    NEW c \in Conditions, c = WaitsFor(x), Sleeps(x, a)'
             PROVE  \/ Level(a, c)' = 0
                    \/ Level(a, c)' = 1 /\ Announced(a, c)'
  BY DEF SleepersJustified, WaitsFor, Conditions
<1>7. CASE a # b
  <2>1. x # t
    <3>1. CASE pc[t] = "leave"
      BY <3>1, <1>6 DEF Sleeps, GiveUp
    <3>2. CASE pc[t] # "leave"
      BY <3>2, <1>3, <1>7 DEF Sleeps
    <3> QED
      BY <3>1, <3>2
  <2>2. Sleeps(x, a)
    BY <2>1, <1>2 DEF Sleeps
  <2>3. Level(a, c)' = Level(a, c)
    BY <1>4, <1>7 DEF Level
  <2>4. Announced(a, c) => Announced(a, c)'
    <3>1. \A u \in Threads : Target(u) = a =>
            Target(u)' = a /\ (UsesUp(u, c)' <=> UsesUp(u, c))
      BY <1>1, <1>2, <1>7 DEF UsesUp, WaitsFor
    <3> QED
      BY <3>1, <1>5, <1>7 DEF Announced
  <2> QED
    BY <2>2, <2>3, <2>4 DEF SleepersJustified
<1>8. CASE a = b /\ x = t
  <2>1. pc[t] = "give_up" /\ counter' = counter
    BY <1>6, <1>8 DEF Sleeps, GiveUp, fields
  <2>2. MustWait(t)
    BY <2>1 DEF Conditional, Tested
  <2> QED
    BY <2>1, <2>2, <1>1, <1>8, <1>n, <1>c DEF MustWait, Level, WaitsFor
<1>9. CASE a = b /\ x # t
  <2>1. /\ Sleeps(x, b)
        /\ (Level(b, c) = 0 \/ (Level(b, c) = 1 /\ Announced(b, c)))
    BY <1>2, <1>9 DEF Sleeps, SleepersJustified
  <2>2. CASE Level(b, c)' = Level(b, c) /\ ~Announced(b, c)
    BY <2>1, <2>2, <1>9
  <2>3. CASE Level(b, c)' = Level(b, c) /\ Announced(b, c)'
    BY <2>1, <2>3, <1>9
  <2>4. counter' = counter => Level(b, c)' = Level(b, c)
    BY DEF Level
  <2>5. WaitsFor(t) # Signals(t) /\ {WaitsFor(t), Signals(t)} = Conditions
    BY DEF WaitsFor, Signals, Conditions
  <2>6. CASE Enter(t) \/ EnterAgain(t)
    <3>1. s[b] > 0 /\ counter' = counter
      BY <2>6, <1>1 DEF Enter, EnterAgain, P, fields
    <3>2. s[b] \in Nat /\ w[b]["empty"] \in Nat /\ w[b]["full"] \in Nat
      BY <1>w DEF TypeOK, Conditions
    <3>3. Tokens(b) = 1 /\ w[b][c] = 0
      BY <3>1, <3>2 DEF Exclusion, Tokens, Conditions
    <3> QED
      BY <3>1, <3>3, <2>2, <2>4, NotAnnounced
  <2>7. CASE Test(t) \/ GiveUp(t) \/ Leave(t)
    <3>1. /\ pc[t] \in {"test", "give_up", "leave"}
          /\ counter' = counter
      BY <2>7 DEF Test, GiveUp, Leave, fields
    <3>2. InsideAt(t, b) /\ ~UsesUp(t, c)
      BY <3>1, <1>1 DEF InsideAt, InMonitor, UsesUp
    <3> QED
      BY <3>1, <3>2, <2>2, <2>4, NotAnnounced
  <2>8. CASE Wake(t)
    <3>1. /\ counter' = counter /\ pc'[t] = "access" /\ Target(t)' = b
          /\ w[b][WaitsFor(t)] > 0
      BY <2>8, <1>1, <1>3, <1>pc DEF Wake, GoTo, fields
    <3>2. CASE WaitsFor(t) = c
      <4>1. Announced(b, c)'
        BY <3>1, <3>2 DEF Announced, UsesUp, WaitsFor
      <4> QED
        BY <4>1, <3>1, <2>3, <2>4
    <3>3. CASE WaitsFor(t) # c
      <4>1. s[b] \in Nat /\ w[b]["empty"] \in Nat /\ w[b]["full"] \in Nat
        BY <1>w DEF TypeOK, Conditions
      <4>2. Tokens(b) = 1 /\ w[b][c] = 0
        BY <3>1, <3>3, <4>1, <2>5 DEF Exclusion, Tokens, Conditions
      <4> QED
        BY <4>2, <3>1, <2>2, <2>4, NotAnnounced
    <3> QED
      BY <3>2, <3>3
  <2>9. CASE Write(t) \/ Read(t)
    <3>1. /\ counter' = counter /\ Target(t)' = b
          /\ pc[t] = "access" /\ pc'[t] = "advance"
      BY <2>9, <1>3, <1>pc DEF Write, Read, GoTo
    <3>2. CASE WaitsFor(t) = c
      <4>1. Announced(b, c)'
        BY <3>1, <3>2 DEF Announced, UsesUp, WaitsFor
      <4> QED
        BY <4>1, <3>1, <2>3, <2>4
    <3>3. CASE WaitsFor(t) # c
      <4>1. InsideAt(t, b) /\ ~UsesUp(t, c)
        BY <3>1, <3>3, <1>1 DEF InsideAt, InMonitor, UsesUp
      <4> QED
        BY <4>1, <3>1, <2>2, <2>4, NotAnnounced
    <3> QED
      BY <3>2, <3>3
  <2>10. CASE AdvanceIn(t) \/ AdvanceOut(t)
    <3>1. /\ pc[t] = "advance" /\ pc'[t] = "signal" /\ Target(t)' = b
          /\ counter' = [counter EXCEPT ![b] = IF t \in Producers
                                               THEN @ + 1 ELSE @ - 1]
      BY <2>10, <1>1, <1>3, CounterSteps
    <3>2. CASE WaitsFor(t) = c
      <4>1. Level(b, c) > 0
        BY <3>1, <3>2, <1>1, <1>n, <1>c
           DEF Conditional, Tested, HasWork, Level, WaitsFor
      <4>2. Level(b, c)' = Level(b, c) - 1
        BY <3>1, <3>2, <1>n, <1>c DEF Level, WaitsFor
      <4> QED
        BY <4>1, <4>2, <2>1, <1>9
    <3>3. CASE WaitsFor(t) # c
      <4>1. InsideAt(t, b) /\ ~UsesUp(t, c)
        BY <3>1, <3>3, <1>1 DEF InsideAt, InMonitor, UsesUp
      <4>2. Level(b, c) = 0
        BY <4>1, <2>1, NotAnnounced
      <4>3. Level(b, c)' = Level(b, c) + 1
        BY <3>1, <3>3, <1>n, <1>c DEF Level, WaitsFor, Conditions
      <4>4. Announced(b, c)'
        BY <3>1, <3>3 DEF Announced, UsesUp, WaitsFor
      <4> QED
        BY <4>2, <4>3, <4>4, <1>9
    <3> QED
      BY <3>2, <3>3
  <2>11. CASE Signal(t)
    <3>1. pc[t] = "signal" /\ InsideAt(t, b) /\ counter' = counter
      BY <2>11, <1>1 DEF Signal, fields, InsideAt, InMonitor
    <3>2. CASE WaitsFor(t) = c
      <4>1. ~UsesUp(t, c)
        BY <3>1, <3>2 DEF UsesUp
      <4> QED
        BY <4>1, <3>1, <2>2, <2>4, NotAnnounced
    <3>3. CASE WaitsFor(t) # c
      <4>1. c = Signals(t)
        BY <3>3, <2>5
      <4>2. w[b][c] = 0
        BY <3>1, <1>1, Alone DEF InsideAt, Conditions
      <4>3. x \in Waiters(b, c)
        BY <2>1 DEF Waiters, IsWaiter, Sleeps
      <4>4. Cardinality(Waiters(b, c)) # 0
        BY <4>3, FS_EmptySet DEF Counted
      <4>5. waitingCount[b][c] > 0
        BY <4>2, <4>4, <1>w DEF Counted
      <4>6. w' = [w EXCEPT ![b][c] = @ + 1]
        BY <4>1, <4>5, <2>11, <1>1 DEF Signal
      <4>7. w'[b][c] > 0
        BY <4>2, <4>6, <1>w
      <4> QED
        BY <4>7, <3>1, <2>3, <2>4 DEF Announced
    <3> QED
      BY <3>2, <3>3
  <2> QED
    BY <2>6, <2>7, <2>8, <2>9, <2>10, <2>11 DEF ThreadStep
<1> QED
  BY <1>7, <1>8, <1>9

\* A sleeper sleeps on an empty level, or on one that is announced.
LEMMA SleepersAlways == Spec => []SleepersJustified
<1>1. Init => SleepersJustified
  BY DEF Init, SleepersJustified, Sleeps
<1>2. (TypeOK /\ Exclusion /\ Counted /\ Conditional /\ SleepersJustified
       /\ [Next]_vars) => SleepersJustified'
  <2>1. SleepersJustified /\ UNCHANGED vars => SleepersJustified'
    BY DEF vars, fields, SleepersJustified, Sleeps, Level, Announced, UsesUp,
           WaitsFor, Target
  <2> QED
    BY <2>1, SleepersInductive DEF Next
<1> QED
  BY <1>1, <1>2, TypeCorrect, ExclusionAlways, CountedAlways,
     ConditionalAlways, PTL DEF Spec

\* No wake-up is forgotten: waitingCount and the wake-ups under way are the
\* threads that wait, although a thread counts itself before it waits; and
\* nobody sleeps while what it waits for is there and nobody will say so.
THEOREM WaitersServedAlways == Spec => []WaitersServed
<1>1. Counted => WaitersCounted
  <2>1. \A b \in Buffers, c \in Conditions :
          Waiters(b, c) = {t \in Threads : Target(t) = b /\ WaitsFor(t) = c
                                           /\ pc[t] \in {"give_up", "wait"}}
    BY DEF Waiters, IsWaiter
  <2> QED
    BY <2>1 DEF Counted, WaitersCounted
<1>2. TypeOK /\ SleepersJustified => NoneSleepsInVain
  <2> SUFFICES ASSUME TypeOK, SleepersJustified,
                      NEW t \in Threads, pc[t] = "wait", HasWork(t)
               PROVE  \/ w[Target(t)][WaitsFor(t)] > 0
                      \/ \E u \in Inside(Target(t)) :
                           pc[u] \in {"access", "advance", "signal"}
    BY DEF NoneSleepsInVain, HasWork
  <2> DEFINE b == Target(t)
             c == WaitsFor(t)
  <2>1. b \in Buffers /\ Size \in Nat /\ counter[b] \in Int
    BY TargetIsBuffer, MonitorBufferAssumption DEF TypeOK
  <2>2. Level(b, c) # 0
    BY <2>1 DEF Level, HasWork, WaitsFor
  <2>3. Announced(b, c)
    BY <2>1, <2>2 DEF SleepersJustified, Sleeps
  <2> QED
    BY <2>3 DEF Announced, UsesUp, Inside
<1> QED
  BY <1>1, <1>2, TypeCorrect, CountedAlways, SleepersAlways, PTL
     DEF WaitersServed
-----------------------------------------------------------------------------
(* The ring: in is as far ahead of out as there are products, and what a    *)
(* producer has written is still there when it counts it.                   *)
RingInv ==
  /\ \A b \in Buffers : in[b] = (out[b] + counter[b]) % Size
  /\ \A p \in Producers :
       pc[p] = "advance" => body[Target(p)][in[Target(p)]] \in Items[Target(p)]

\* Only these steps touch the ring, and only one thread at a time does.
LEMMA RingSteps ==
  ASSUME TypeOK, Exclusion, NEW t \in Threads, ThreadStep(t),
         NEW b \in Buffers, b = Target(t)
  PROVE  \/ Write(t) /\ pc'[t] = "advance"
         \/ AdvanceIn(t) /\ pc'[t] = "signal"
         \/ Read(t) /\ pc'[t] = "advance"
         \/ AdvanceOut(t) /\ pc'[t] = "signal"
         \/ fields' = fields /\ product' = product /\ pc'[t] # "advance"
                             /\ pc[t] # "advance"
<1>pc. pc \in [Threads -> Statements]
  BY DEF TypeOK
<1>1. CASE Write(t) \/ AdvanceIn(t) \/ Read(t) \/ AdvanceOut(t)
  BY <1>1, <1>pc DEF Write, AdvanceIn, Read, AdvanceOut, GoTo
<1>2. CASE Enter(t) \/ EnterAgain(t) \/ Test(t) \/ GiveUp(t) \/ Wake(t)
           \/ Signal(t) \/ Leave(t)
  <2>1. fields' = fields /\ product' = product
    BY <1>2 DEF Enter, EnterAgain, Test, GiveUp, Wake, Signal, Leave, fields
  <2>2. pc'[t] # "advance" /\ pc[t] # "advance"
    BY <1>2, <1>pc DEF Enter, EnterAgain, Test, GiveUp, Wake, Signal, Leave, GoTo
  <2> QED
    BY <2>1, <2>2
<1> QED
  BY <1>1, <1>2 DEF ThreadStep

\* Every step keeps in ahead of out by counter, around the ring.
LEMMA RingInductive ==
  ASSUME TypeOK, Exclusion, Conditional, RingInv,
         NEW t \in Threads, ThreadStep(t)
  PROVE  RingInv'
<1>1. PICK b \in Buffers : b = Target(t)
  BY TargetIsBuffer
<1>2. \A u \in Threads \ {t} : pc'[u] = pc[u] /\ Target(u)' = Target(u)
  BY OthersStay
<1>3. pc[t] \in {"access", "advance"} =>
        /\ Target(t)' = b
        /\ \A u \in Threads \ {t} : pc[u] = "advance" => Target(u) # b
  BY <1>1, OthersStay, Alone DEF InMonitor
<1>t. /\ Size \in Nat \ {0} /\ in \in [Buffers -> 0..(Size - 1)]
      /\ out \in [Buffers -> 0..(Size - 1)]
      /\ counter \in [Buffers -> Int]
      /\ body \in [Buffers -> [0..(Size - 1) -> Contents]]
  BY MonitorBufferAssumption DEF TypeOK
<1>c. counter[b] \in 0..Size
  BY DEF Conditional, CounterInRange
<1>p. Producers \subseteq Threads /\ Producers \cap Consumers = {}
  BY MonitorBufferAssumption DEF Threads
<1>r. /\ \A a \in Buffers : in[a] = (out[a] + counter[a]) % Size
      /\ \A p \in Producers :
           pc[p] = "advance" => body[Target(p)][in[Target(p)]] \in Items[Target(p)]
  BY DEF RingInv
<1>4. CASE Write(t) /\ pc'[t] = "advance"
  <2>1. /\ t \in Producers /\ pc[t] = "access"
        /\ in' = in /\ out' = out /\ counter' = counter
    BY <1>4 DEF Write
  <2>2. PICK x \in Items[b] : body' = [body EXCEPT ![b][in[b]] = x]
    BY <1>1, <1>4 DEF Write
  <2>3. body'[b][in[b]] = x
    BY <2>2, <1>t
  <2>4. \A a \in Buffers \ {b} : body'[a] = body[a]
    BY <2>2, <1>t
  <2>5. ASSUME NEW p \in Producers, pc'[p] = "advance"
        PROVE  body'[Target(p)'][in'[Target(p)']] \in Items[Target(p)']
    <3>1. CASE p = t
      BY <3>1, <2>1, <2>3, <1>3
    <3>2. CASE p # t
      <4>1. p \in Threads /\ Target(p)' = Target(p) /\ pc[p] = "advance"
        BY <3>2, <2>5, <1>2, <1>p
      <4>2. Target(p) \in Buffers \ {b}
        BY <4>1, <3>2, <2>1, <1>3, TargetIsBuffer
      <4> QED
        BY <4>1, <4>2, <2>1, <2>4, <1>r
    <3> QED
      BY <3>1, <3>2
  <2> QED
    BY <2>1, <2>5, <1>r DEF RingInv
<1>5. CASE AdvanceIn(t) /\ pc'[t] = "signal"
  <2>1. /\ t \in Producers /\ pc[t] = "advance" /\ out' = out /\ body' = body
        /\ in' = [in EXCEPT ![b] = (@ + 1) % Size]
        /\ counter' = [counter EXCEPT ![b] = @ + 1]
    BY <1>1, <1>5 DEF AdvanceIn
  <2>2. counter[b] \in 0..(Size - 1)
    BY <2>1, <1>1, <1>c, <1>t DEF Conditional, Tested, HasWork
  <2>3. (((out[b] + counter[b]) % Size) + 1) % Size
          = (out[b] + counter[b] + 1) % Size
    BY <2>2, <1>t, StepOn
  <2>4. in'[b] = (in[b] + 1) % Size /\ counter'[b] = counter[b] + 1
    BY <2>1, <1>t
  <2>5. out[b] + counter[b] + 1 = out[b] + (counter[b] + 1)
    BY <2>2, <1>t
  <2>6. in'[b] = (out'[b] + counter'[b]) % Size
    BY <2>1, <2>3, <2>4, <2>5, <1>r
  <2>7. \A a \in Buffers \ {b} : in'[a] = in[a] /\ counter'[a] = counter[a]
    BY <2>1, <1>t
  <2>8. ASSUME NEW p \in Producers, pc'[p] = "advance"
        PROVE  body'[Target(p)'][in'[Target(p)']] \in Items[Target(p)']
    <3>1. p # t /\ p \in Threads
      BY <2>8, <1>5, <1>p
    <3>2. Target(p)' = Target(p) /\ pc[p] = "advance"
      BY <3>1, <2>8, <1>2
    <3>3. Target(p) \in Buffers \ {b}
      BY <3>1, <3>2, <2>1, <1>3, TargetIsBuffer
    <3> QED
      BY <3>2, <3>3, <2>1, <2>7, <1>r
  <2> QED
    BY <2>1, <2>6, <2>7, <2>8, <1>r DEF RingInv
<1>6. CASE Read(t) /\ pc'[t] = "advance"
  <2>1. /\ t \in Consumers /\ pc[t] = "access"
        /\ in' = in /\ out' = out /\ counter' = counter
        /\ body' = [body EXCEPT ![b][out[b]] = Nothing]
    BY <1>1, <1>6 DEF Read
  <2>2. \A a \in Buffers \ {b} : body'[a] = body[a]
    BY <2>1, <1>t
  <2>3. ASSUME NEW p \in Producers, pc'[p] = "advance"
        PROVE  body'[Target(p)'][in'[Target(p)']] \in Items[Target(p)']
    <3>1. p # t /\ p \in Threads
      BY <2>1, <1>p
    <3>2. Target(p)' = Target(p) /\ pc[p] = "advance"
      BY <3>1, <2>3, <1>2
    <3>3. Target(p) \in Buffers \ {b}
      BY <3>1, <3>2, <2>1, <1>3, TargetIsBuffer
    <3> QED
      BY <3>2, <3>3, <2>1, <2>2, <1>r
  <2> QED
    BY <2>1, <2>3, <1>r DEF RingInv
<1>7. CASE AdvanceOut(t) /\ pc'[t] = "signal"
  <2>1. /\ t \in Consumers /\ pc[t] = "advance" /\ in' = in /\ body' = body
        /\ out' = [out EXCEPT ![b] = (@ + 1) % Size]
        /\ counter' = [counter EXCEPT ![b] = @ - 1]
    BY <1>1, <1>7 DEF AdvanceOut
  <2>2. counter[b] - 1 \in 0..(Size - 1)
    BY <2>1, <1>1, <1>c, <1>t, <1>p DEF Conditional, Tested, HasWork
  <2>3. (((out[b] + 1) % Size) + (counter[b] - 1)) % Size
          = (out[b] + 1 + (counter[b] - 1)) % Size
    BY <2>2, <1>t, StepOn
  <2>4. out'[b] = (out[b] + 1) % Size /\ counter'[b] = counter[b] - 1
    BY <2>1, <1>t
  <2>5. out[b] + 1 + (counter[b] - 1) = out[b] + counter[b]
    BY <2>2, <1>t, <1>c
  <2>6. in'[b] = (out'[b] + counter'[b]) % Size
    BY <2>1, <2>3, <2>4, <2>5, <1>r
  <2>7. \A a \in Buffers \ {b} : out'[a] = out[a] /\ counter'[a] = counter[a]
    BY <2>1, <1>t
  <2>8. ASSUME NEW p \in Producers, pc'[p] = "advance"
        PROVE  body'[Target(p)'][in'[Target(p)']] \in Items[Target(p)']
    <3>1. p # t /\ p \in Threads
      BY <2>1, <1>p
    <3>2. Target(p)' = Target(p) /\ pc[p] = "advance"
      BY <3>1, <2>8, <1>2
    <3> QED
      BY <3>2, <2>1, <1>r
  <2> QED
    BY <2>1, <2>6, <2>7, <2>8, <1>r DEF RingInv
<1>8. CASE fields' = fields /\ pc'[t] # "advance"
  <2>1. in' = in /\ out' = out /\ counter' = counter /\ body' = body
    BY <1>8 DEF fields
  <2>2. ASSUME NEW p \in Producers, pc'[p] = "advance"
        PROVE  pc[p] = "advance" /\ Target(p)' = Target(p)
    BY <2>2, <1>2, <1>8, <1>p
  <2> QED
    BY <2>1, <2>2, <1>r DEF RingInv
<1> QED
  BY <1>1, <1>4, <1>5, <1>6, <1>7, <1>8, RingSteps

\* in is always ahead of out by counter, around the ring.
LEMMA RingAlways == Spec => []RingInv
<1>1. Init => RingInv
  <2> SUFFICES ASSUME Init
               PROVE  RingInv
    OBVIOUS
  <2>1. 0 + 0 \in 0..(2 * Size - 1) /\ Size \in Nat \ {0}
    BY MonitorBufferAssumption
  <2>2. (0 + 0) % Size = 0
    BY <2>1, WrapAround
  <2>3. Producers \subseteq Threads
    BY DEF Threads
  <2> QED
    BY <2>2, <2>3 DEF Init, RingInv
<1>2. (TypeOK /\ Exclusion /\ Conditional /\ RingInv /\ [Next]_vars) => RingInv'
  <2>1. RingInv /\ UNCHANGED vars => RingInv'
    BY DEF vars, fields, RingInv, Target
  <2> QED
    BY <2>1, RingInductive DEF Next
<1> QED
  BY <1>1, <1>2, TypeCorrect, ExclusionAlways, ConditionalAlways, PTL DEF Spec
-----------------------------------------------------------------------------
(* The buffers are first-in first-out queues. *)

\* How many products are in buffer b and not consumed, and where the oldest is
Held(b) == IF HasRead(b) THEN counter[b] - 1 ELSE counter[b]
Oldest(b) == IF HasRead(b) THEN out[b] + 1 ELSE out[b]
QueueOf(b) == Ring(body[b], Oldest(b), Held(b), Size)

\* The queue the buffer stands for is a stretch of its ring.
LEMMA QueueIsRing == queue = [b \in Buffers |-> QueueOf(b)]
BY DEF queue, QueueOf, Ring, Held, Oldest

\* A thread that is inside is the only one that can have read.
LEMMA ReadersInside ==
  ASSUME TypeOK, Exclusion, NEW t \in Threads, ThreadStep(t),
         NEW b \in Buffers, b = Target(t)
  PROVE  /\ \A a \in Buffers \ {b} : HasRead(a)' = HasRead(a)
         /\ pc[t] \in {"access", "advance"} =>
              /\ HasRead(b) <=> t \in Consumers /\ pc[t] = "advance"
              /\ HasRead(b)' <=> t \in Consumers /\ pc'[t] = "advance"
         /\ (pc[t] # "advance" /\ pc'[t] # "advance") => HasRead(b)' = HasRead(b)
<1>1. \A u \in Threads \ {t} : pc'[u] = pc[u] /\ Target(u)' = Target(u)
  BY OthersStay
<1>2. Consumers \subseteq Threads
  BY DEF Threads
<1>3. pc[t] \in {"access", "advance"} =>
        /\ Target(t)' = b
        /\ \A u \in Threads \ {t} : pc[u] = "advance" => Target(u) # b
  BY OthersStay, Alone DEF InMonitor
<1>4. t \in Consumers => Target(t)' = Target(t)
  BY MonitorBufferAssumption DEF Target
<1>5. ASSUME NEW a \in Buffers \ {b}
      PROVE  HasRead(a)' = HasRead(a)
  BY <1>1, <1>2, <1>4 DEF HasRead
<1>6. ASSUME pc[t] \in {"access", "advance"}
      PROVE  /\ HasRead(b) <=> t \in Consumers /\ pc[t] = "advance"
             /\ HasRead(b)' <=> t \in Consumers /\ pc'[t] = "advance"
  BY <1>1, <1>2, <1>3, <1>6 DEF HasRead
<1>7. ASSUME pc[t] # "advance", pc'[t] # "advance"
      PROVE  HasRead(b)' = HasRead(b)
  BY <1>1, <1>2, <1>7 DEF HasRead
<1> QED
  BY <1>5, <1>6, <1>7

\* Every step of a thread puts, takes the oldest, or changes no queue.
LEMMA StepRefines ==
  ASSUME TypeOK, Exclusion, Conditional, RingInv,
         NEW t \in Threads, ThreadStep(t)
  PROVE  [Fifo!Next]_<<queue, product>>
<1>1. PICK b \in Buffers : b = Target(t)
  BY TargetIsBuffer
<1>t. /\ Size \in Nat \ {0}
      /\ out \in [Buffers -> 0..(Size - 1)]
      /\ counter \in [Buffers -> Int]
      /\ body \in [Buffers -> [0..(Size - 1) -> Contents]]
  BY MonitorBufferAssumption DEF TypeOK
<1>o. out[b] \in 0..(Size - 1) /\ out[b] \in Nat /\ counter[b] \in 0..Size
  BY <1>t DEF Conditional, CounterInRange
<1>b. IsRing(body[b], Size, Contents)
  BY <1>t DEF IsRing
<1>n. PICK n, f, B, C :
        n = counter[b] /\ f = out[b] /\ B = body[b] /\ C = body'[b]
  OBVIOUS
<1>i. in[b] = (out[b] + counter[b]) % Size
  BY DEF RingInv
<1>r. /\ \A a \in Buffers \ {b} : HasRead(a)' = HasRead(a)
      /\ pc[t] \in {"access", "advance"} =>
           /\ HasRead(b) <=> t \in Consumers /\ pc[t] = "advance"
           /\ HasRead(b)' <=> t \in Consumers /\ pc'[t] = "advance"
      /\ (pc[t] # "advance" /\ pc'[t] # "advance") => HasRead(b)' = HasRead(b)
  BY <1>1, ReadersInside
<1>p. Producers \cap Consumers = {}
  BY MonitorBufferAssumption
<1>e. ASSUME \A a \in Buffers \ {b} : /\ counter'[a] = counter[a]
                                      /\ out'[a] = out[a] /\ body'[a] = body[a]
      PROVE  /\ QueueOf(b)' = QueueOf(b) => queue' = queue
             /\ \A q : QueueOf(b)' = q => queue' = [queue EXCEPT ![b] = q]
  <2>1. \A a \in Buffers \ {b} : QueueOf(a)' = QueueOf(a)
    BY <1>e, <1>r DEF QueueOf, Oldest, Held
  <2>2. queue' = [a \in Buffers |-> QueueOf(a)']
    BY DEF queue, QueueOf, Ring, Held, Oldest
  <2> HIDE DEF QueueOf
  <2> QED
    BY <2>1, <2>2, QueueIsRing
<1>q. queue[b] = QueueOf(b)
  BY QueueIsRing
<1>2. CASE Write(t) /\ pc'[t] = "advance"
  <2>1. /\ t \in Producers /\ pc[t] = "access"
        /\ out' = out /\ counter' = counter /\ product' = product
    BY <1>2 DEF Write
  <2>2. PICK x \in Items[b] : body' = [body EXCEPT ![b][in[b]] = x]
    BY <1>1, <1>2 DEF Write
  <2>3. counter[b] \in 0..(Size - 1)
    BY <2>1, <1>1, <1>o, <1>t DEF Conditional, Tested, HasWork
  <2>4. ~HasRead(b) /\ ~HasRead(b)'
    BY <2>1, <1>r, <1>p
  <2>5. \A j \in 0..(Size - 1) :
          j # (out[b] + counter[b]) % Size => body'[b][j] = body[b][j]
    <3>1. PICK m : m = in[b]
      OBVIOUS
    <3>2. (out[b] + counter[b]) % Size = m
      BY <1>i, <3>1
    <3>3. body[b] \in [0..(Size - 1) -> Contents] /\ body'[b] = [body[b] EXCEPT ![m] = x]
      BY <2>2, <1>t, <3>1
    <3>4. \A j \in 0..(Size - 1) : j # m => body'[b][j] = body[b][j]
      BY <3>3
    <3> QED
      BY <3>2, <3>4
  <2>7. Ring(C, f, n, Size) = Ring(B, f, n, Size)
    <3>1. /\ f \in 0..(Size - 1) /\ n \in 0..(Size - 1)
          /\ \A j \in 0..(Size - 1) : j # (f + n) % Size => C[j] = B[j]
      BY <2>3, <2>5, <1>o, <1>n
    <3> QED
      BY <3>1, <1>t, RingKeeps
  <2>8. QueueOf(b)' = QueueOf(b)
    BY <2>1, <2>4, <2>7, <1>n DEF QueueOf, Held, Oldest
  <2> QED
    BY <2>1, <2>2, <2>8, <1>e, <1>t
<1>3. CASE AdvanceIn(t) /\ pc'[t] = "signal"
  <2>1. /\ t \in Producers /\ pc[t] = "advance" /\ out' = out /\ body' = body
        /\ counter' = [counter EXCEPT ![b] = @ + 1] /\ product' = product
    BY <1>1, <1>3 DEF AdvanceIn
  <2>2. counter[b] \in Nat /\ counter[b] < Size /\ counter'[b] = counter[b] + 1
    BY <2>1, <1>1, <1>o, <1>t DEF Conditional, Tested, HasWork
  <2>3. ~HasRead(b) /\ ~HasRead(b)'
    BY <2>1, <1>r, <1>p
  <2> DEFINE x == body[b][(out[b] + counter[b]) % Size]
  <2>4. x \in Items[b]
    BY <2>1, <1>1, <1>i DEF RingInv
  <2>5. Ring(body[b], out[b], counter[b] + 1, Size)
          = Append(Ring(body[b], out[b], counter[b], Size), x)
    <3>1. f \in Nat /\ n \in Nat /\ IsRing(B, Size, Contents)
      BY <2>2, <1>o, <1>b, <1>n
    <3>2. Ring(B, f, n + 1, Size)
            = Append(Ring(B, f, n, Size), B[(f + n) % Size])
      BY <3>1, RingPut
    <3> QED
      BY <3>2, <1>n
  <2>6. Len(Ring(B, f, n, Size)) = n
    <3>1. f \in Nat /\ n \in Nat /\ IsRing(B, Size, Contents)
      BY <2>2, <1>o, <1>b, <1>n
    <3>2. Reads(Ring(B, f, n, Size), Contents, B, f, n, Size)
      BY <3>1, RingIsSequence
    <3> QED
      BY <3>2 DEF Reads
  <2>7. /\ QueueOf(b) = Ring(body[b], out[b], counter[b], Size)
        /\ QueueOf(b)' = Append(QueueOf(b), x)
    BY <2>1, <2>2, <2>3, <2>5 DEF QueueOf, Held, Oldest
  <2>8. queue' = [queue EXCEPT ![b] = Append(queue[b], x)]
    BY <2>1, <2>7, <1>e, <1>q, <1>t
  <2>9. Fifo!Put(b)
    BY <2>1, <2>2, <2>4, <2>6, <2>7, <2>8, <1>q, <1>n DEF Fifo!Put
  <2> QED
    BY <2>9 DEF Fifo!Next
<1>4. CASE Read(t) /\ pc'[t] = "advance"
  <2>1. /\ t \in Consumers /\ pc[t] = "access"
        /\ out' = out /\ counter' = counter
        /\ body' = [body EXCEPT ![b][out[b]] = Nothing]
        /\ product' = [product EXCEPT ![t] = body[b][out[b]]]
    BY <1>1, <1>4 DEF Read
  <2>2. counter[b] \in Nat \ {0} /\ counter[b] - 1 \in 0..(Size - 1)
    BY <2>1, <1>1, <1>o, <1>t, <1>p DEF Conditional, Tested, HasWork
  <2>3. ~HasRead(b) /\ HasRead(b)'
    BY <2>1, <1>4, <1>r
  <2>4. /\ Ring(body[b], out[b], counter[b], Size) # << >>
        /\ Head(Ring(body[b], out[b], counter[b], Size)) = body[b][out[b]]
        /\ Tail(Ring(body[b], out[b], counter[b], Size))
             = Ring(body[b], out[b] + 1, counter[b] - 1, Size)
    <3>1. /\ f \in 0..(Size - 1) /\ n \in Nat \ {0}
          /\ IsRing(B, Size, Contents)
      BY <2>2, <1>o, <1>b, <1>n
    <3>2. /\ Ring(B, f, n, Size) # << >>
          /\ Head(Ring(B, f, n, Size)) = B[f]
          /\ Tail(Ring(B, f, n, Size)) = Ring(B, f + 1, n - 1, Size)
      BY <3>1, RingGet
    <3> QED
      BY <3>2, <1>n
  <2>5. \A j \in 0..(Size - 1) : j # out[b] => body'[b][j] = body[b][j]
    BY <2>1, <1>t
  <2>6. Ring(body'[b], out[b] + 1, counter[b] - 1, Size)
          = Ring(body[b], out[b] + 1, counter[b] - 1, Size)
    <3>1. /\ f \in 0..(Size - 1) /\ n - 1 \in 0..(Size - 1)
          /\ \A j \in 0..(Size - 1) : j # f => C[j] = B[j]
      BY <2>2, <2>5, <1>o, <1>n
    <3>2. Ring(C, f + 1, n - 1, Size) = Ring(B, f + 1, n - 1, Size)
      BY <3>1, <1>t, RingKeepsRest
    <3> QED
      BY <3>2, <1>n
  <2>7. /\ QueueOf(b) = Ring(body[b], out[b], counter[b], Size)
        /\ QueueOf(b)' = Tail(QueueOf(b))
    BY <2>1, <2>3, <2>4, <2>6 DEF QueueOf, Held, Oldest
  <2>8. queue' = [queue EXCEPT ![b] = Tail(queue[b])]
    BY <2>1, <2>7, <1>e, <1>q, <1>t
  <2>9. b = Serves[t]
    BY <2>1, <1>1, <1>p DEF Target
  <2>10. Fifo!Get(t)
    BY <2>1, <2>4, <2>7, <2>8, <2>9, <1>q DEF Fifo!Get
  <2> QED
    BY <2>1, <2>10 DEF Fifo!Next
<1>5. CASE AdvanceOut(t) /\ pc'[t] = "signal"
  <2>1. /\ t \in Consumers /\ pc[t] = "advance" /\ body' = body
        /\ out' = [out EXCEPT ![b] = (@ + 1) % Size]
        /\ counter' = [counter EXCEPT ![b] = @ - 1] /\ product' = product
    BY <1>1, <1>5 DEF AdvanceOut
  <2>2. /\ counter[b] - 1 \in 0..Size
        /\ counter'[b] = counter[b] - 1 /\ out'[b] = (out[b] + 1) % Size
    BY <2>1, <1>1, <1>o, <1>t, <1>p DEF Conditional, Tested, HasWork
  <2>3. HasRead(b) /\ ~HasRead(b)'
    BY <2>1, <1>5, <1>r
  <2>4. Ring(body[b], (out[b] + 1) % Size, counter[b] - 1, Size)
          = Ring(body[b], out[b] + 1, counter[b] - 1, Size)
    BY <2>2, <1>o, <1>t, RingTurns
  <2>5. QueueOf(b)' = QueueOf(b)
    BY <2>1, <2>2, <2>3, <2>4 DEF QueueOf, Held, Oldest
  <2> QED
    BY <2>1, <2>5, <1>e, <1>t
<1>6. CASE fields' = fields /\ product' = product /\ pc'[t] # "advance"
                            /\ pc[t] # "advance"
  <2>1. HasRead(b)' = HasRead(b)
    BY <1>6, <1>r
  <2>2. out' = out /\ counter' = counter /\ body' = body
    BY <1>6 DEF fields
  <2>3. QueueOf(b)' = QueueOf(b)
    BY <2>1, <2>2 DEF QueueOf, Held, Oldest
  <2> QED
    BY <2>2, <2>3, <1>6, <1>e
<1> QED
  BY <1>1, <1>2, <1>3, <1>4, <1>5, <1>6, RingSteps

\* Each buffer is a first-in first-out queue of at most Size products:
\* produce() puts in where there is room, consume() gets the oldest product,
\* and none is overwritten, lost or read twice, with any number of threads.
THEOREM Implements == Spec => Refinement
<1>1. Init => Fifo!Init
  <2> SUFFICES ASSUME Init
               PROVE  Fifo!Init
    OBVIOUS
  <2>1. \A b \in Buffers : HasRead(b) = FALSE
    BY DEF Init, HasRead, Threads
  <2>2. \A b \in Buffers : QueueOf(b) = << >>
    BY <2>1 DEF Init, QueueOf, Ring, Held, Oldest
  <2> QED
    BY <2>2, QueueIsRing DEF Init, Fifo!Init
<1>2. (TypeOK /\ Exclusion /\ Conditional /\ RingInv /\ [Next]_vars)
        => [Fifo!Next]_<<queue, product>>
  <2>1. UNCHANGED vars => UNCHANGED <<queue, product>>
    BY DEF vars, fields, queue, HasRead, Target
  <2> QED
    BY <2>1, StepRefines DEF Next
<1> QED
  BY <1>1, <1>2, TypeCorrect, ExclusionAlways, ConditionalAlways, RingAlways,
     PTL DEF Spec, Refinement, Fifo!Spec
=============================================================================
