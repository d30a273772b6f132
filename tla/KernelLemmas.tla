---------------------------- MODULE KernelLemmas ----------------------------
(***************************************************************************)
(* What the proofs of KernelProofs rest on, for every number of process    *)
(* slots, every set of signals and every workload:                         *)
(*   - sums and cardinalities, and the queues of proc.c as lists;          *)
(*   - KInv, the invariant of the kernel's data, and that mini_send,       *)
(*     mini_rec, interrupt, inform, cause_sig and the handlers of the      *)
(*     system task keep it;                                                *)
(*   - CInv, the invariant of the main loops of tasks and servers: who     *)
(*     waits for whom, and what MM and FS have still to do;                *)
(*   - that the steps of the tasks keep both.                              *)
(***************************************************************************)
EXTENDS KernelProps, FiniteSetTheorems, SequenceTheorems, FunctionTheorems, TLAPS

-----------------------------------------------------------------------------
(* Induction over the natural numbers, for a set instead of a predicate     *)

\* A set that has 0, and with each number the next, has them all.
LEMMA SetInduction ==
  ASSUME NEW S, 0 \in S, \A n \in Nat : n \in S => n + 1 \in S
  PROVE  Nat \subseteq S
<1> DEFINE T == Nat \ S
<1> SUFFICES ASSUME T # {} PROVE FALSE
  OBVIOUS
<1>1. PICK x \in T : \A y \in T : ~ (<<y, x>> \in OpToRel(<, Nat))
  <2>1. T \subseteq Nat
    OBVIOUS
  <2> HIDE DEF T
  <2> QED
    BY <2>1, WFMin, NatLessThanWellFounded
<1>2. x \in Nat /\ x # 0
  OBVIOUS
<1>3. x - 1 \in Nat /\ (x - 1) + 1 = x /\ x - 1 < x
  BY <1>2
<1>4. <<x - 1, x>> \in OpToRel(<, Nat)
  BY <1>2, <1>3 DEF OpToRel
<1>5. x - 1 \in S
  BY <1>1, <1>3, <1>4
<1> QED
  BY <1>1, <1>3, <1>5

Iterates(f, S, d, R) ==
  f \in [Nat -> S] /\ f[0] = d /\ \A i \in Nat : f[i + 1] = R[f[i]]

\* A set of natural numbers that is not empty has a least element.
LEMMA LeastExists ==
  ASSUME NEW S, S \subseteq Nat, S # {}
  PROVE  Least(S) \in S /\ \A y \in S : Least(S) <= y
<1>1. PICK x \in S : \A y \in S : ~ (<<y, x>> \in OpToRel(<, Nat))
  BY WFMin, NatLessThanWellFounded
<1>2. ASSUME NEW y \in S PROVE x <= y
  <2>1. x \in Nat /\ y \in Nat
    OBVIOUS
  <2>2. y < x => <<y, x>> \in OpToRel(<, Nat)
    BY <2>1 DEF OpToRel
  <2>3. ~(y < x)
    BY <1>1, <2>2
  <2> QED
    BY <2>1, <2>3
<1> QED
  BY <1>2 DEF Least

\* A function that is defined from its value one place before exists.
LEMMA IterationExists ==
  ASSUME NEW S, NEW d \in S, NEW R \in [S -> S]
  PROVE  \E f : Iterates(f, S, d, R)
<1> DEFINE Upto(n) == {g \in [0..n -> S] :
                         g[0] = d /\ \A i \in 0..(n - 1) : g[i + 1] = R[g[i]]}
           T == {n \in Nat : Upto(n) # {}}
<1>1. 0 \in T
  <2>1. [i \in 0..0 |-> d] \in Upto(0)
    OBVIOUS
  <2> QED
    BY <2>1
<1>2. ASSUME NEW n \in Nat, n \in T
      PROVE  n + 1 \in T
  <2>1. PICK g : g \in Upto(n)
    BY <1>2
  <2>2. /\ g \in [0..n -> S] /\ g[0] = d
        /\ \A i \in 0..(n - 1) : g[i + 1] = R[g[i]]
    BY <2>1
  <2> DEFINE h == [i \in 0..(n + 1) |-> IF i = n + 1 THEN R[g[n]] ELSE g[i]]
  <2>3. h \in [0..(n + 1) -> S]
    BY <2>2
  <2>4. h[0] = d
    BY <2>2
  <2>5. ASSUME NEW i \in 0..n PROVE h[i + 1] = R[h[i]]
    <3>1. CASE i = n
      BY <3>1, <2>2
    <3>2. CASE i # n
      <4>1. i \in 0..(n - 1) /\ i + 1 # n + 1 /\ i # n + 1 /\ i + 1 \in 0..(n + 1)
        BY <3>2
      <4> QED
        BY <4>1, <2>2
    <3> QED
      BY <3>1, <3>2
  <2>6. 0..((n + 1) - 1) = 0..n
    OBVIOUS
  <2>7. h \in Upto(n + 1)
    <3> HIDE DEF h
    <3> QED
      BY <2>3, <2>4, <2>5, <2>6
  <2> QED
    BY <2>7
<1>3. \A n \in Nat : Upto(n) # {}
  <2>1. Nat \subseteq T
    <3> HIDE DEF T
    <3> QED
      BY <1>1, <1>2, SetInduction
  <2> QED
    BY <2>1
<1>4. ASSUME NEW m \in Nat, NEW n \in Nat, NEW g \in Upto(m), NEW h \in Upto(n)
      PROVE  \A i \in Nat : (i <= m /\ i <= n) => g[i] = h[i]
  <2> DEFINE U == {i \in Nat : (i <= m /\ i <= n) => g[i] = h[i]}
  <2>1. 0 \in U
    OBVIOUS
  <2>2. ASSUME NEW i \in Nat, i \in U
        PROVE  i + 1 \in U
    <3>1. ASSUME i + 1 <= m, i + 1 <= n
          PROVE  g[i + 1] = h[i + 1]
      <4>1. i \in 0..(m - 1) /\ i \in 0..(n - 1) /\ i <= m /\ i <= n
        BY <3>1
      <4>2. g[i + 1] = R[g[i]] /\ h[i + 1] = R[h[i]]
        BY <4>1
      <4>3. g[i] = h[i]
        BY <2>2, <4>1
      <4> QED
        BY <4>2, <4>3
    <3> QED
      BY <3>1
  <2>3. Nat \subseteq U
    <3> HIDE DEF U
    <3> QED
      BY <2>1, <2>2, SetInduction
  <2> QED
    BY <2>3
<1> DEFINE G(n) == CHOOSE g : g \in Upto(n)
           f == [n \in Nat |-> G(n)[n]]
<1>5. \A n \in Nat : G(n) \in Upto(n)
  <2> HIDE DEF Upto
  <2> QED
    BY <1>3
<1>6. \A n \in Nat : G(n) \in [0..n -> S] /\ G(n)[0] = d
  <2> HIDE DEF G
  <2> QED
    BY <1>5
<1>7. f \in [Nat -> S] /\ f[0] = d
  <2> HIDE DEF G
  <2> QED
    BY <1>6
<1>8. ASSUME NEW i \in Nat PROVE f[i + 1] = R[f[i]]
  <2>1. G(i + 1) \in Upto(i + 1) /\ G(i) \in Upto(i)
    <3>1. i + 1 \in Nat
      OBVIOUS
    <3> HIDE DEF Upto, G
    <3> QED
      BY <1>5, <3>1
  <2>2. G(i + 1)[i] = G(i)[i]
    <3> HIDE DEF Upto, G
    <3> QED
      BY <1>4, <2>1
  <2>3. G(i + 1)[i + 1] = R[G(i + 1)[i]]
    <3> HIDE DEF G
    <3>1. i \in 0..((i + 1) - 1)
      OBVIOUS
    <3> QED
      BY <2>1, <3>1
  <2> HIDE DEF G
  <2> QED
    BY <2>2, <2>3
<1> QED
  <2> HIDE DEF f
  <2> QED
    BY <1>7, <1>8 DEF Iterates
-----------------------------------------------------------------------------
(* The chain of senders *)

Receiver(s, p) == IF "SENDING" \in s.p_flags[p] THEN s.p_sendto[p] ELSE p
ChainFrom(s, d) ==
  CHOOSE f : f = [i \in Nat |-> IF i = 0 THEN d ELSE Receiver(s, f[i - 1])]

\* The chain of a process that is SENDING, as the values of one function
LEMMA ChainUnfolds ==
  ASSUME NEW s, NEW d, "SENDING" \in s.p_flags[d]
  PROVE  SendChain(s, d) = {ChainFrom(s, d)[i] : i \in 1..Cardinality(Procs)}
BY DEF SendChain, ChainFrom, Receiver

\* What a chain that does not come to c is like.
LEMMA ChainProceeds ==
  ASSUME NEW s, NEW d \in Procs, NEW c,
         s.p_sendto \in [Procs -> Procs],
         c \notin SendChain(s, d)
  PROVE  \E f \in [Nat -> Procs] :
           /\ f[0] = d
           /\ \A i \in Nat : f[i + 1] = Receiver(s, f[i])
           /\ "SENDING" \in s.p_flags[d] =>
                \A i \in 1..Cardinality(Procs) : f[i] # c
<1> DEFINE R == [p \in Procs |-> Receiver(s, p)]
           Rule(f) == f = [i \in Nat |-> IF i = 0 THEN d ELSE Receiver(s, f[i - 1])]
<1>1. R \in [Procs -> Procs]
  BY DEF Receiver
<1>2. PICK f \in [Nat -> Procs] : f[0] = d /\ \A i \in Nat : f[i + 1] = R[f[i]]
  <2>1. \E f : Iterates(f, Procs, d, R)
    <3> HIDE DEF R
    <3> QED
      BY <1>1, IterationExists
  <2> QED
    BY <2>1 DEF Iterates
<1>3. Rule(f)
  <2>1. ASSUME NEW i \in Nat
        PROVE  f[i] = IF i = 0 THEN d ELSE Receiver(s, f[i - 1])
    <3>1. CASE i = 0
      BY <3>1, <1>2
    <3>2. CASE i # 0
      <4>1. i - 1 \in Nat /\ (i - 1) + 1 = i
        BY <3>2
      <4>2. f[i] = R[f[i - 1]] /\ f[i - 1] \in Procs
        BY <4>1, <1>2
      <4> QED
        BY <3>2, <4>2
    <3> QED
      BY <3>1, <3>2
  <2>2. f = [i \in Nat |-> f[i]]
    BY <1>2
  <2> QED
    BY <2>1, <2>2
<1>4. Rule(ChainFrom(s, d))
  <2>1. ChainFrom(s, d) = CHOOSE g : Rule(g)
    BY DEF ChainFrom
  <2> HIDE DEF Rule
  <2> QED
    BY <1>3, <2>1
<1>5. PICK g : g = ChainFrom(s, d)
  OBVIOUS
<1>6. \A i \in Nat : g[i] = IF i = 0 THEN d ELSE Receiver(s, g[i - 1])
  BY <1>4, <1>5
<1>7. \A i \in Nat : g[i + 1] = Receiver(s, g[i])
  <2>1. \A i \in Nat : i + 1 \in Nat /\ i + 1 # 0 /\ (i + 1) - 1 = i
    OBVIOUS
  <2> QED
    BY <1>6, <2>1
<1>8. g \in [Nat -> Procs]
  <2> DEFINE T == {i \in Nat : g[i] \in Procs}
  <2>1. 0 \in T
    BY <1>6
  <2>2. \A i \in Nat : i \in T => i + 1 \in T
    BY <1>7 DEF Receiver
  <2>3. Nat \subseteq T
    <3> HIDE DEF T
    <3> QED
      BY <2>1, <2>2, SetInduction
  <2>4. g = [i \in Nat |-> g[i]]
    BY <1>4, <1>5
  <2> QED
    BY <2>3, <2>4
<1>9. "SENDING" \in s.p_flags[d] => \A i \in 1..Cardinality(Procs) : g[i] # c
  BY <1>5, ChainUnfolds
<1> QED
  BY <1>6, <1>7, <1>8, <1>9

\* The process table is finite.
LEMMA ProcsFinite == IsFiniteSet(Procs) /\ Cardinality(Procs) \in Nat
<1>1. IsFiniteSet(Slots)
  BY ProcAssumption, FS_Interval DEF Slots
<1>2. IsFiniteSet({DISK, CLOCK, SYSTASK, IDLE, HARDWARE})
  <2>1. IsFiniteSet({DISK})
    BY FS_Singleton
  <2>2. IsFiniteSet({DISK} \cup {CLOCK})
    BY <2>1, FS_AddElement
  <2>3. IsFiniteSet(({DISK} \cup {CLOCK}) \cup {SYSTASK})
    BY <2>2, FS_AddElement
  <2>4. IsFiniteSet((({DISK} \cup {CLOCK}) \cup {SYSTASK}) \cup {IDLE})
    BY <2>3, FS_AddElement
  <2>5. IsFiniteSet(((({DISK} \cup {CLOCK}) \cup {SYSTASK}) \cup {IDLE})
                      \cup {HARDWARE})
    BY <2>4, FS_AddElement
  <2>6. ((({DISK} \cup {CLOCK}) \cup {SYSTASK}) \cup {IDLE}) \cup {HARDWARE}
          = {DISK, CLOCK, SYSTASK, IDLE, HARDWARE}
    OBVIOUS
  <2> QED
    BY <2>5, <2>6
<1>3. Procs = {DISK, CLOCK, SYSTASK, IDLE, HARDWARE} \cup Slots
  BY DEF Procs, Tasks
<1>4. IsFiniteSet(Procs)
  BY <1>1, <1>2, <1>3, FS_Union
<1> QED
  BY <1>4, FS_CardinalityType

\* A chain as long as there are processes comes to one of them twice.
LEMMA ChainComesBack ==
  ASSUME NEW f \in [Nat -> Procs]
  PROVE  \E i, j \in 0..Cardinality(Procs) : i < j /\ f[i] = f[j]
<1> DEFINE N == Cardinality(Procs)
           g == [i \in 0..N |-> f[i]]
<1>2. N \in Nat
  BY ProcsFinite
<1>3. IsFiniteSet(0..N) /\ Cardinality(0..N) = N + 1
  BY <1>2, FS_Interval
<1> HIDE DEF N
<1>4. g \in [0..N -> Procs]
  BY <1>2
<1>5. \E i, j \in 0..N : i # j /\ g[i] = g[j]
  <2>1. N < Cardinality(0..N)
    BY <1>2, <1>3
  <2> HIDE DEF g
  <2> QED
    BY <1>3, <1>4, <2>1, ProcsFinite, FS_PigeonHole DEF N
<1>6. PICK i \in 0..N, j \in 0..N : i # j /\ f[i] = f[j]
  BY <1>5
<1> QED
  BY <1>2, <1>6 DEF N
-----------------------------------------------------------------------------
(* Lists *)

Distinct(s) == \A i, j \in DOMAIN s : s[i] = s[j] => i = j

\* A process that joins the end of a list
LEMMA AppendList ==
  ASSUME NEW S, NEW s \in Seq(S), NEW p \in S
  PROVE  LET n == Append(s, p)
         IN /\ n \in Seq(S) /\ n # << >>
            /\ \A x : OnList(n, x) <=> OnList(s, x) \/ x = p
            /\ Distinct(s) /\ ~OnList(s, p) => Distinct(n)
            /\ Head(n) = IF s = << >> THEN p ELSE Head(s)
<1> DEFINE n == Append(s, p)
<1>1. /\ n \in Seq(S) /\ Len(n) = Len(s) + 1 /\ Len(s) \in Nat
      /\ DOMAIN n = 1..(Len(s) + 1) /\ DOMAIN s = 1..Len(s)
      /\ n[Len(s) + 1] = p
      /\ \A i \in 1..Len(s) : n[i] = s[i]
  OBVIOUS
<1>2. n # << >>
  BY <1>1
<1> HIDE DEF n
<1>3. \A i : i \in 1..(Len(s) + 1) <=> i \in 1..Len(s) \/ i = Len(s) + 1
  BY <1>1
<1>4. \A x : OnList(n, x) <=> OnList(s, x) \/ x = p
  BY <1>1, <1>3 DEF OnList
<1>5. ASSUME Distinct(s), ~OnList(s, p) PROVE Distinct(n)
  BY <1>1, <1>3, <1>5 DEF Distinct, OnList
<1>6. Head(n) = IF s = << >> THEN p ELSE Head(s)
  <2>1. Head(n) = n[1]
    BY <1>1, <1>2
  <2>2. CASE s = << >>
    <3>1. Len(s) = 0
      BY <2>2
    <3> QED
      BY <2>1, <2>2, <3>1, <1>1
  <2>3. CASE s # << >>
    <3>1. Len(s) > 0 /\ Head(s) = s[1]
      BY <2>3
    <3> QED
      BY <2>1, <2>3, <3>1, <1>1
  <2> QED
    BY <2>2, <2>3
<1> QED
  BY <1>1, <1>2, <1>4, <1>5, <1>6 DEF n

\* A process that joins the front of a list
LEMMA ConsList ==
  ASSUME NEW S, NEW s \in Seq(S), NEW p \in S
  PROVE  LET n == <<p>> \o s
         IN /\ n \in Seq(S) /\ n # << >> /\ Head(n) = p
            /\ \A x : OnList(n, x) <=> OnList(s, x) \/ x = p
            /\ Distinct(s) /\ ~OnList(s, p) => Distinct(n)
<1> DEFINE n == <<p>> \o s
<1>1. /\ n \in Seq(S) /\ Len(n) = Len(s) + 1 /\ Len(s) \in Nat
      /\ DOMAIN n = 1..(Len(s) + 1) /\ DOMAIN s = 1..Len(s)
      /\ n[1] = p
      /\ \A i \in 1..Len(s) : n[i + 1] = s[i]
  OBVIOUS
<1>2. n # << >> /\ Head(n) = p
  BY <1>1
<1> HIDE DEF n
<1>3. \A i \in 1..(Len(s) + 1) :
        i = 1 \/ (i - 1 \in 1..Len(s) /\ (i - 1) + 1 = i)
  BY <1>1
<1>4. \A i \in 1..Len(s) : i + 1 \in 1..(Len(s) + 1)
  BY <1>1
<1>5. \A x : OnList(n, x) <=> OnList(s, x) \/ x = p
  <2>1. ASSUME NEW x, OnList(n, x) PROVE OnList(s, x) \/ x = p
    <3>1. PICK i \in 1..(Len(s) + 1) : n[i] = x
      BY <1>1, <2>1 DEF OnList
    <3>2. CASE i = 1
      BY <1>1, <3>1, <3>2
    <3>3. CASE i - 1 \in 1..Len(s) /\ (i - 1) + 1 = i
      <4>1. s[i - 1] = x
        BY <1>1, <3>1, <3>3
      <4> QED
        BY <1>1, <3>3, <4>1 DEF OnList
    <3> QED
      BY <1>3, <3>2, <3>3
  <2>2. ASSUME NEW x, OnList(s, x) PROVE OnList(n, x)
    <3>1. PICK i \in 1..Len(s) : s[i] = x
      BY <1>1, <2>2 DEF OnList
    <3>2. i + 1 \in DOMAIN n /\ n[i + 1] = x
      BY <1>1, <3>1
    <3> QED
      BY <3>2 DEF OnList
  <2>3. OnList(n, p)
    <3>1. 1 \in DOMAIN n
      BY <1>1
    <3> QED
      BY <1>1, <3>1 DEF OnList
  <2> QED
    BY <2>1, <2>2, <2>3
<1>6. ASSUME Distinct(s), ~OnList(s, p) PROVE Distinct(n)
  <2>1. \A i \in 1..Len(s) : s[i] # p
    BY <1>1, <1>6 DEF OnList
  <2>2. ASSUME NEW i \in 1..(Len(s) + 1), NEW j \in 1..(Len(s) + 1), n[i] = n[j]
        PROVE  i = j
    <3>1. CASE i = 1 \/ j = 1
      <4>1. ASSUME NEW a \in 1..(Len(s) + 1), n[a] = p PROVE a = 1
        <5>1. CASE a - 1 \in 1..Len(s) /\ (a - 1) + 1 = a
          <6>1. n[a] = s[a - 1]
            BY <1>1, <5>1
          <6> QED
            BY <2>1, <4>1, <5>1, <6>1
        <5> QED
          BY <1>3, <5>1
      <4>2. n[i] = p /\ n[j] = p
        BY <1>1, <2>2, <3>1
      <4> QED
        BY <4>1, <4>2
    <3>2. CASE i # 1 /\ j # 1
      <4>1. /\ i - 1 \in 1..Len(s) /\ j - 1 \in 1..Len(s)
            /\ n[i] = s[i - 1] /\ n[j] = s[j - 1]
        BY <1>1, <1>3, <3>2
      <4>2. i - 1 = j - 1
        BY <1>1, <1>6, <2>2, <4>1 DEF Distinct
      <4> QED
        BY <4>2
    <3> QED
      BY <3>1, <3>2
  <2> QED
    BY <1>1, <2>2 DEF Distinct
<1> QED
  BY <1>1, <1>2, <1>5, <1>6 DEF n

\* A process that is taken out of a list
LEMMA RemoveIndexList ==
  ASSUME NEW S, NEW s \in Seq(S), NEW i \in DOMAIN s
  PROVE  LET n == RemoveIndex(s, i)
         IN /\ n \in Seq(S)
            /\ Distinct(s) => /\ Distinct(n)
                              /\ \A x : OnList(n, x) <=> OnList(s, x) /\ x # s[i]
            /\ i # 1 => n # << >> /\ Head(n) = Head(s)
<1> DEFINE n == RemoveIndex(s, i)
<1>1. /\ Len(s) \in Nat /\ DOMAIN s = 1..Len(s) /\ i \in 1..Len(s)
      /\ Len(s) - 1 \in Nat
  OBVIOUS
<1>2. /\ DOMAIN n = 1..(Len(s) - 1)
      /\ \A j \in 1..(Len(s) - 1) : n[j] = IF j < i THEN s[j] ELSE s[j + 1]
      /\ n \in [1..(Len(s) - 1) -> S]
  <2>1. \A j \in 1..(Len(s) - 1) : j \in 1..Len(s) /\ j + 1 \in 1..Len(s)
    BY <1>1
  <2>2. \A j \in 1..Len(s) : s[j] \in S
    BY <1>1
  <2> QED
    BY <2>1, <2>2 DEF RemoveIndex
<1>3. n \in Seq(S) /\ Len(n) = Len(s) - 1
  <2>1. n \in Seq(S)
    <3> HIDE DEF n
    <3> QED
      BY <1>1, <1>2, SeqDef
  <2>2. Len(n) \in Nat /\ DOMAIN n = 1..Len(n)
    <3> HIDE DEF n
    <3> QED
      BY <2>1
  <2>3. \A a, b \in Nat : 1..a = 1..b => a = b
    <3>1. ASSUME NEW a \in Nat, NEW b \in Nat, 1..a = 1..b PROVE a <= b
      <4>1. a = 0 \/ a \in 1..a
        OBVIOUS
      <4> QED
        BY <3>1, <4>1
    <3>2. ASSUME NEW a \in Nat, NEW b \in Nat, 1..a = 1..b PROVE b <= a
      <4>1. b = 0 \/ b \in 1..b
        OBVIOUS
      <4> QED
        BY <3>2, <4>1
    <3> QED
      BY <3>1, <3>2
  <2> HIDE DEF n
  <2> QED
    BY <1>1, <1>2, <2>1, <2>2, <2>3
<1> HIDE DEF n
<1> DEFINE from(j) == IF j < i THEN j ELSE j + 1
<1>4. \A j \in DOMAIN n : from(j) \in DOMAIN s /\ from(j) # i /\ n[j] = s[from(j)]
  BY <1>1, <1>2
<1>5. \A j1, j2 \in DOMAIN n : from(j1) = from(j2) => j1 = j2
  BY <1>1, <1>2
<1>6. \A j \in DOMAIN s : j # i => \E h \in DOMAIN n : from(h) = j
  <2>1. ASSUME NEW j \in 1..Len(s), j # i
        PROVE  \E h \in 1..(Len(s) - 1) : from(h) = j
    <3>1. CASE j < i
      <4>1. j \in 1..(Len(s) - 1) /\ from(j) = j
        BY <1>1, <3>1
      <4> QED
        BY <4>1
    <3>2. CASE j > i
      <4>1. j - 1 \in 1..(Len(s) - 1) /\ from(j - 1) = j
        BY <1>1, <3>2
      <4> QED
        BY <4>1
    <3> QED
      BY <1>1, <2>1, <3>1, <3>2
  <2> QED
    BY <1>1, <1>2, <2>1
<1>7. ASSUME i # 1
      PROVE  n # << >> /\ Head(n) = Head(s)
  <2>1. Len(s) - 1 >= 1 /\ 1 < i /\ 1 \in 1..(Len(s) - 1)
    BY <1>1, <1>7
  <2>2. n # << >> /\ Head(n) = n[1] /\ Head(s) = s[1]
    BY <1>1, <1>3, <2>1
  <2> QED
    BY <1>2, <2>1, <2>2
<1> HIDE DEF from
<1>8. ASSUME Distinct(s)
      PROVE  /\ Distinct(n)
             /\ \A x : OnList(n, x) <=> OnList(s, x) /\ x # s[i]
  <2>1. Distinct(n)
    BY <1>4, <1>5, <1>8 DEF Distinct
  <2>2. ASSUME NEW x, OnList(n, x) PROVE OnList(s, x) /\ x # s[i]
    BY <1>1, <1>4, <1>8, <2>2 DEF OnList, Distinct
  <2>3. ASSUME NEW x, OnList(s, x), x # s[i] PROVE OnList(n, x)
    BY <1>4, <1>6, <2>3 DEF OnList
  <2> QED
    BY <2>1, <2>2, <2>3
<1> QED
  BY <1>3, <1>7, <1>8 DEF n

\* A process that is taken out of a list wherever it is
LEMMA UnlinkList ==
  ASSUME NEW S, NEW s \in Seq(S), NEW p, Distinct(s)
  PROVE  LET n == Unlink(s, p)
         IN /\ n \in Seq(S) /\ Distinct(n)
            /\ \A x : OnList(n, x) <=> OnList(s, x) /\ x # p
            /\ s # << >> /\ Head(s) # p => n # << >> /\ Head(n) = Head(s)
<1>1. CASE ~OnList(s, p)
  BY <1>1 DEF Unlink
<1>2. CASE OnList(s, p)
  <2>1. PICK i \in DOMAIN s : s[i] = p
    BY <1>2 DEF OnList
  <2>2. \A j \in DOMAIN s : s[j] = p => i <= j
    <3>1. DOMAIN s \subseteq Nat
      OBVIOUS
    <3> QED
      BY <2>1, <3>1 DEF Distinct
  <2>3. i = CHOOSE h \in DOMAIN s : s[h] = p /\ \A j \in DOMAIN s : s[j] = p => h <= j
    BY <2>1, <2>2 DEF Distinct
  <2>4. Unlink(s, p) = RemoveIndex(s, i)
    BY <1>2, <2>3 DEF Unlink
  <2>5. i = 1 \/ Head(s) = s[1]
    OBVIOUS
  <2>6. s # << >> /\ Head(s) # p => i # 1
    BY <2>1
  <2> QED
    BY <2>1, <2>4, <2>6, RemoveIndexList
<1> QED
  BY <1>1, <1>2

\* The head of a list that goes to its end
LEMMA RotateList ==
  ASSUME NEW S, NEW s \in Seq(S), s # << >>, Distinct(s)
  PROVE  LET n == Append(Tail(s), Head(s))
         IN /\ n \in Seq(S) /\ Distinct(n) /\ n # << >>
            /\ \A x : OnList(n, x) <=> OnList(s, x)
<1>1. /\ Len(s) \in Nat /\ Len(s) > 0 /\ DOMAIN s = 1..Len(s)
      /\ Head(s) = s[1] /\ Head(s) \in S /\ Tail(s) \in Seq(S)
      /\ DOMAIN Tail(s) = 1..(Len(s) - 1)
      /\ \A i \in 1..(Len(s) - 1) : Tail(s)[i] = s[i + 1]
  OBVIOUS
<1>2. Distinct(Tail(s)) /\ ~OnList(Tail(s), Head(s))
  <2>1. \A i \in 1..(Len(s) - 1) : i + 1 \in 1..Len(s) /\ i + 1 # 1
    BY <1>1
  <2>2. 1 \in 1..Len(s)
    BY <1>1
  <2>3. ASSUME NEW i \in 1..(Len(s) - 1), NEW j \in 1..(Len(s) - 1),
               Tail(s)[i] = Tail(s)[j]
        PROVE  i = j
    <3>1. i + 1 = j + 1
      BY <1>1, <2>1, <2>3 DEF Distinct
    <3> QED
      BY <3>1
  <2> QED
    BY <1>1, <2>1, <2>2, <2>3 DEF Distinct, OnList
<1>3. \A x : OnList(s, x) <=> OnList(Tail(s), x) \/ x = Head(s)
  <2>1. ASSUME NEW x, OnList(s, x), x # Head(s) PROVE OnList(Tail(s), x)
    <3>1. PICK i \in 1..Len(s) : s[i] = x
      BY <1>1, <2>1 DEF OnList
    <3>2. i # 1
      BY <1>1, <2>1, <3>1
    <3>3. i - 1 \in 1..(Len(s) - 1) /\ (i - 1) + 1 = i
      BY <1>1, <3>2
    <3> QED
      BY <1>1, <3>1, <3>3 DEF OnList
  <2>2. ASSUME NEW x, OnList(Tail(s), x) PROVE OnList(s, x)
    <3>1. PICK i \in 1..(Len(s) - 1) : s[i + 1] = x
      BY <1>1, <2>2 DEF OnList
    <3>2. i + 1 \in DOMAIN s
      BY <1>1
    <3> QED
      BY <3>1, <3>2 DEF OnList
  <2>3. OnList(s, Head(s))
    <3>1. 1 \in DOMAIN s
      BY <1>1
    <3> QED
      BY <1>1, <3>1 DEF OnList
  <2> QED
    BY <2>1, <2>2, <2>3
<1>4. PICK t : t = Tail(s)
  OBVIOUS
<1>5. PICK h : h = Head(s)
  OBVIOUS
<1> QED
  BY <1>1, <1>2, <1>3, <1>4, <1>5, AppendList
-----------------------------------------------------------------------------
(* The data of the kernel *)

MMCalls == {"FORK", "EXIT", "EXEC", "PAUSE", "ALARM", "KILL", "RESUME",
            "GETPRI", "SETPRI"}
FSCalls == {"READ", "WRITE"}
SysRequests == {"SYS_FORK", "SYS_NEWMAP", "SYS_EXEC", "SYS_XIT", "SYS_ENDSIG",
                "SYS_TRACE", "SYS_SENDSIG", "SYS_GETPRI", "SYS_SETPRI"}
Tidings == {"TELL_FORK", "TELL_EXIT"}
MessTypes == MMCalls \cup FSCalls \cup SysRequests \cup Tidings
             \cup {"SYS_KILL", "SET_ALARM", "DEV_IO", "REPLY", "HARD_INT", "KSIG",
                   "none"}

\* The signals that the kernel causes itself
Signals == {"SIGALRM", "SIGPIPE", "SIGTRAP"}

Mess == [src : Procs, type : MessTypes, i1 : Int, i2 : Int, i3 : Int,
         map : SUBSET Signals]

KernelState ==
  [p_flags : [Procs -> SUBSET Flags],
   p_priority : [Procs -> PPRI_NONE..PPRI_IDLE],
   p_getfrom : [Procs -> Procs \cup {ANY}],
   p_sendto : [Procs -> Procs],
   p_callerq : [Procs -> Seq(Procs)],
   p_int_blocked : [Tasks -> BOOLEAN],
   p_pid : [Slots -> Int],
   p_alarm : [Slots -> Int],
   p_pending : [Slots -> SUBSET Signals],
   p_pendcount : [Slots -> Nat],
   user_priority : [Slots -> Int],
   time_counter : [Slots -> Int],
   mess : [Procs -> Mess],
   rdy : [Queues -> Seq(Schedulable)],
   proc_ptr : Procs,
   bill_ptr : Procs,
   sig_procs : Int,
   last_user_priority : Int,
   panic : BOOLEAN]

\* A function keeps its type when one value changes.
LEMMA OneTyped ==
  ASSUME NEW S, NEW T, NEW f \in [S -> T], NEW p, NEW v \in T
  PROVE  [f EXCEPT ![p] = v] \in [S -> T]
OBVIOUS

\* The messages of the kernel itself
LEMMA MessageTyped ==
  /\ NoMess \in Mess
  /\ \A t \in MessTypes, x, y, z \in Int : Message(t, x, y, z) \in Mess
<1>1. HARDWARE \in Procs /\ {} \in SUBSET Signals
  BY DEF Procs
<1>2. NoMess \in Mess
  BY <1>1 DEF NoMess, Mess, MessTypes
<1>3. ASSUME NEW t \in MessTypes, NEW x \in Int, NEW y \in Int, NEW z \in Int
      PROVE  Message(t, x, y, z) \in Mess
  BY <1>2 DEF Message, Mess
<1> QED
  BY <1>2, <1>3

\* All that ready(), unready(), pick_proc() and sched() leave alone
SameData(s, n) ==
  /\ n.p_flags = s.p_flags /\ n.p_priority = s.p_priority
  /\ n.p_getfrom = s.p_getfrom /\ n.p_sendto = s.p_sendto
  /\ n.p_callerq = s.p_callerq /\ n.p_int_blocked = s.p_int_blocked
  /\ n.p_pending = s.p_pending /\ n.p_pendcount = s.p_pendcount
  /\ n.p_pid = s.p_pid /\ n.p_alarm = s.p_alarm
  /\ n.user_priority = s.user_priority
  /\ n.last_user_priority = s.last_user_priority
  /\ n.mess = s.mess /\ n.sig_procs = s.sig_procs /\ n.panic = s.panic

\* The head of the highest queue that is not empty
Top(rdy) ==
  IF rdy[TASK_Q] # << >> THEN Head(rdy[TASK_Q])
  ELSE IF rdy[SERVER_Q] # << >> THEN Head(rdy[SERVER_Q])
  ELSE IF rdy[USER_Q] # << >> THEN Head(rdy[USER_Q])
  ELSE IDLE

\* The head of a list is on it.
LEMMA HeadInSeq ==
  ASSUME NEW S, NEW s \in Seq(S), s # << >>
  PROVE  Head(s) \in S /\ OnList(s, Head(s))
<1>1. 1 \in DOMAIN s /\ Head(s) = s[1] /\ Head(s) \in S
  OBVIOUS
<1> QED
  BY <1>1 DEF OnList

\* pick_proc() finds a process.
LEMMA TopIsProc ==
  ASSUME NEW rdy \in [Queues -> Seq(Schedulable)]
  PROVE  Top(rdy) \in Procs
<1>1. \A q \in Queues : rdy[q] # << >> => Head(rdy[q]) \in Schedulable
  BY HeadInSeq
<1>2. IDLE \in Procs /\ Schedulable \subseteq Procs
  BY DEF Procs, Schedulable
<1> QED
  BY <1>1, <1>2 DEF Top, Queues

\* What pick_proc() does
LEMMA PickEffect ==
  ASSUME NEW s \in KernelState
  PROVE  /\ pick_proc(s) \in KernelState
         /\ SameData(s, pick_proc(s))
         /\ pick_proc(s).rdy = s.rdy
         /\ pick_proc(s).proc_ptr = Top(s.rdy)
<1>1. s.rdy \in [Queues -> Seq(Schedulable)]
  BY DEF KernelState
<1>2. Top(s.rdy) \in Procs
  BY <1>1, TopIsProc
<1>3. IDLE \in Procs
  BY DEF Procs
<1>4. \E b \in Procs :
        \/ pick_proc(s) = [s EXCEPT !.proc_ptr = Top(s.rdy)]
        \/ pick_proc(s) = [s EXCEPT !.proc_ptr = Top(s.rdy), !.bill_ptr = b]
  BY <1>2, <1>3 DEF pick_proc, Top
<1>5. PICK b \in Procs :
        \/ pick_proc(s) = [s EXCEPT !.proc_ptr = Top(s.rdy)]
        \/ pick_proc(s) = [s EXCEPT !.proc_ptr = Top(s.rdy), !.bill_ptr = b]
  BY <1>4
<1>6. PICK t \in Procs : t = Top(s.rdy)
  BY <1>2
<1>7. CASE pick_proc(s) = [s EXCEPT !.proc_ptr = t]
  <2>1. PICK n : n = [s EXCEPT !.proc_ptr = t]
    OBVIOUS
  <2>2. n \in KernelState /\ n.proc_ptr = t
    BY <2>1 DEF KernelState
  <2>3. SameData(s, n) /\ n.rdy = s.rdy
    BY <2>1 DEF KernelState, SameData
  <2> QED
    BY <1>6, <1>7, <2>1, <2>2, <2>3
<1>8. CASE pick_proc(s) = [s EXCEPT !.proc_ptr = t, !.bill_ptr = b]
  <2>1. PICK n : n = [s EXCEPT !.proc_ptr = t, !.bill_ptr = b]
    OBVIOUS
  <2>2. n \in KernelState /\ n.proc_ptr = t
    BY <2>1 DEF KernelState
  <2>3. SameData(s, n) /\ n.rdy = s.rdy
    BY <2>1 DEF KernelState, SameData
  <2> QED
    BY <1>6, <1>8, <2>1, <2>2, <2>3
<1> QED
  BY <1>5, <1>6, <1>7, <1>8
-----------------------------------------------------------------------------
(* The ready queues *)

Class(p) ==
  IF p \in Tasks THEN TASK_Q ELSE IF p \in Servers THEN SERVER_Q ELSE USER_Q

\* Fork and exit change the priorities of users, but nobody's class.
Classed(R) ==
  /\ \A p \in Tasks \cup {HARDWARE} : R[p] = PPRI_TASK
  /\ \A p \in Servers : R[p] = PPRI_SERVER
  /\ R[IDLE] = PPRI_IDLE
  /\ \A p \in UserSlots : R[p] \in {PPRI_NONE, PPRI_USER}

\* The processes of F are on the queue of their class, once, and no others.
Lists(rdy, F) ==
  /\ \A q \in Queues : Distinct(rdy[q])
  /\ \A p \in Schedulable, q \in Queues :
       OnList(rdy[q], p) <=> p \in F /\ q = Class(p)

Ready(s) == {p \in Schedulable : s.p_flags[p] = {} /\ ~isemptyp(s, p)}

\* Who there is
LEMMA ProcFacts ==
  /\ Schedulable = Tasks \cup Servers \cup UserSlots
  /\ Slots = Servers \cup UserSlots
  /\ Tasks \cap Slots = {} /\ Servers \cap UserSlots = {}
  /\ Schedulable \subseteq Procs /\ Slots \subseteq Schedulable
  /\ Procs = Schedulable \cup {HARDWARE, IDLE}
  /\ HARDWARE \notin Schedulable /\ IDLE \notin Schedulable /\ HARDWARE # IDLE
  /\ ANY \notin Procs
<1>1. Slots = 0..(NR_PROCS - 1) /\ UserSlots = 2..(NR_PROCS - 1)
  BY DEF Slots, UserSlots, LOW_USER
<1>2. Servers = {0, 1} /\ Tasks = {-5, -3, -2} /\ IDLE = -4 /\ HARDWARE = -1
  BY DEF Servers, MM, FS, Tasks, DISK, CLOCK, SYSTASK, IDLE, HARDWARE
<1>3. NR_PROCS \in Nat /\ NR_PROCS > 2 /\ NR_PROCS <= 31438 /\ ANY = 31438
  BY ProcAssumption DEF ANY
<1>4. Slots = Servers \cup UserSlots /\ Servers \cap UserSlots = {}
  BY <1>1, <1>2, <1>3
<1>5. Tasks \cap Slots = {} /\ -4 \notin Slots /\ -1 \notin Slots /\ 31438 \notin Slots
  BY <1>1, <1>2, <1>3
<1>6. Procs = {-5, -3, -2} \cup {-4, -1} \cup Slots
  BY <1>2 DEF Procs
<1>7. Schedulable = Tasks \cup Slots
  BY <1>2, <1>5, <1>6 DEF Schedulable
<1> QED
  BY <1>2, <1>3, <1>4, <1>5, <1>6, <1>7

\* What the classes are
LEMMA Classes ==
  ASSUME NEW s, Classed(s.p_priority), NEW p \in Schedulable
  PROVE  /\ QueueOf(s, p) = Class(p) /\ Class(p) \in Queues
         /\ p \in Procs
         /\ isuserp(s, p) => p \in UserSlots
         /\ p \in UserSlots /\ ~isemptyp(s, p) => isuserp(s, p)
         /\ Class(p) = USER_Q <=> p \in UserSlots
         /\ Class(p) = SERVER_Q <=> p \in Servers
         /\ Class(p) = TASK_Q <=> p \in Tasks
         /\ p \notin UserSlots => ~isemptyp(s, p)
<1> USE ProcFacts
<1>1. CASE p \in Tasks
  <2>1. p \notin UserSlots /\ p \notin Servers /\ s.p_priority[p] = PPRI_TASK
    BY <1>1 DEF Classed
  <2> QED
    BY <1>1, <2>1 DEF QueueOf, Class, istaskp, isservp, isuserp, isemptyp, Queues,
         PPRI_TASK, PPRI_USER, PPRI_NONE, TASK_Q, SERVER_Q, USER_Q
<1>2. CASE p \in Servers
  <2>1. p \notin UserSlots /\ p \notin Tasks /\ s.p_priority[p] = PPRI_SERVER
    BY <1>2 DEF Classed
  <2> QED
    BY <1>2, <2>1 DEF QueueOf, Class, istaskp, isservp, isuserp, isemptyp, Queues,
         PPRI_TASK, PPRI_SERVER, PPRI_USER, PPRI_NONE, TASK_Q, SERVER_Q, USER_Q
<1>3. CASE p \in UserSlots
  <2>1. /\ p \notin Servers /\ p \notin Tasks
        /\ s.p_priority[p] \in {PPRI_NONE, PPRI_USER}
    BY <1>3 DEF Classed
  <2> QED
    BY <1>3, <2>1 DEF QueueOf, Class, istaskp, isservp, isuserp, isemptyp, Queues,
         PPRI_TASK, PPRI_SERVER, PPRI_USER, PPRI_NONE, TASK_Q, SERVER_Q, USER_Q
<1> QED
  BY <1>1, <1>2, <1>3

\* What ready() does
LEMMA ReadyEffect ==
  ASSUME NEW s \in KernelState, Classed(s.p_priority), NEW p \in Schedulable
  PROVE  /\ ready(s, p) \in KernelState
         /\ SameData(s, ready(s, p))
         /\ ready(s, p).rdy =
              [s.rdy EXCEPT ![Class(p)] =
                 IF Class(p) = USER_Q THEN <<p>> \o @ ELSE Append(@, p)]
         /\ ready(s, p).proc_ptr =
              IF Class(p) = TASK_Q /\ s.rdy[TASK_Q] = << >> THEN p
              ELSE s.proc_ptr
<1>1. PICK q \in Queues : q = Class(p) /\ q = QueueOf(s, p)
  BY Classes
<1>2. p \in Schedulable /\ p \in Procs
  BY Classes
<1>3. s.rdy \in [Queues -> Seq(Schedulable)] /\ s.proc_ptr \in Procs
  BY DEF KernelState
<1> DEFINE L == IF q = USER_Q THEN <<p>> \o s.rdy[q] ELSE Append(s.rdy[q], p)
           R == [s.rdy EXCEPT ![q] = L]
           P1 == IF q = TASK_Q /\ s.rdy[TASK_Q] = << >> THEN p ELSE s.proc_ptr
<1>4. ready(s, p) = [s EXCEPT !.rdy = R, !.proc_ptr = P1]
  BY <1>1 DEF ready, KernelState
<1>5. L \in Seq(Schedulable)
  BY <1>2, <1>3, AppendList, ConsList
<1> HIDE DEF L
<1>6. R \in [Queues -> Seq(Schedulable)]
  BY <1>3, <1>5
<1>7. P1 \in Procs
  BY <1>2, <1>3
<1>8. PICK R2, P2 : R2 = R /\ P2 = P1
  OBVIOUS
<1>9. ready(s, p) = [s EXCEPT !.rdy = R2, !.proc_ptr = P2]
  BY <1>4, <1>8
<1>10. /\ ready(s, p) \in KernelState /\ SameData(s, ready(s, p))
       /\ ready(s, p).rdy = R2 /\ ready(s, p).proc_ptr = P2
  <2>1. R2 \in [Queues -> Seq(Schedulable)] /\ P2 \in Procs
    BY <1>6, <1>7, <1>8
  <2> HIDE DEF R, P1
  <2> QED
    BY <1>9, <2>1 DEF KernelState, SameData
<1> QED
  BY <1>1, <1>8, <1>10 DEF L

\* A process that becomes ready joins its queue.
LEMMA ReadyLists ==
  ASSUME NEW s \in KernelState, Classed(s.p_priority), NEW p \in Schedulable,
         NEW F, Lists(s.rdy, F), p \notin F
  PROVE  Lists(ready(s, p).rdy, F \cup {p})
<1>1. PICK q \in Queues : q = Class(p)
  BY Classes
<1>2. p \in Schedulable
  BY Classes
<1>3. PICK R \in [Queues -> Seq(Schedulable)] : R = s.rdy
  BY DEF KernelState
<1>4. PICK L : L = IF q = USER_Q THEN <<p>> \o R[q] ELSE Append(R[q], p)
  OBVIOUS
<1>5. ~OnList(R[q], p) /\ Distinct(R[q])
  BY <1>1, <1>2, <1>3 DEF Lists
<1>6. Distinct(L) /\ \A x : OnList(L, x) <=> OnList(R[q], x) \/ x = p
  <2>1. R[q] \in Seq(Schedulable)
    BY <1>3
  <2> QED
    BY <1>2, <1>4, <1>5, <2>1, AppendList, ConsList
<1>7. ready(s, p).rdy = [R EXCEPT ![q] = L]
  BY <1>1, <1>3, <1>4, ReadyEffect
<1>8. /\ \A r \in Queues : Distinct(R[r])
      /\ \A x \in Schedulable, r \in Queues :
           OnList(R[r], x) <=> x \in F /\ r = Class(x)
  BY <1>3 DEF Lists
<1>9. \A r \in Queues : Distinct([R EXCEPT ![q] = L][r])
  BY <1>6, <1>8
<1>10. \A x \in Schedulable, r \in Queues :
         OnList([R EXCEPT ![q] = L][r], x)
           <=> x \in F \cup {p} /\ r = Class(x)
  BY <1>1, <1>6, <1>8
<1> QED
  BY <1>7, <1>9, <1>10 DEF Lists

\* Nobody of a lower class than somebody who is ready, and no user, comes to
\* the head of the queues by becoming ready.
NeverFirst(rdy, p) ==
  Class(p) = TASK_Q \/ rdy[TASK_Q] # << >> \/ rdy[SERVER_Q] # << >>

\* ready() leaves proc_ptr at the process to run next, unless a user is put at the
\* front of the only list.
LEMMA ReadyTop ==
  ASSUME NEW s \in KernelState, Classed(s.p_priority), NEW p \in Schedulable,
         s.proc_ptr = Top(s.rdy), NeverFirst(s.rdy, p)
  PROVE  ready(s, p).proc_ptr = Top(ready(s, p).rdy)
<1>1. PICK q \in Queues : q = Class(p)
  BY Classes
<1>2. p \in Schedulable
  BY Classes
<1>3. PICK R \in [Queues -> Seq(Schedulable)] : R = s.rdy
  BY DEF KernelState
<1>4. PICK L : L = IF q = USER_Q THEN <<p>> \o R[q] ELSE Append(R[q], p)
  OBVIOUS
<1>5. /\ L # << >>
      /\ q # USER_Q => Head(L) = IF R[q] = << >> THEN p ELSE Head(R[q])
  <2>1. R[q] \in Seq(Schedulable)
    BY <1>3
  <2> QED
    BY <1>2, <1>4, <2>1, AppendList, ConsList
<1>6. /\ ready(s, p).rdy = [R EXCEPT ![q] = L]
      /\ ready(s, p).proc_ptr =
            IF q = TASK_Q /\ R[TASK_Q] = << >> THEN p ELSE Top(R)
  BY <1>1, <1>3, <1>4, ReadyEffect
<1>7. q = TASK_Q \/ R[TASK_Q] # << >> \/ R[SERVER_Q] # << >>
  BY <1>1, <1>3 DEF NeverFirst
<1>8. PICK N : N = [R EXCEPT ![q] = L]
  OBVIOUS
<1>9. /\ N[q] = L /\ \A r \in Queues \ {q} : N[r] = R[r]
      /\ {TASK_Q, SERVER_Q, USER_Q} = Queues
      /\ TASK_Q # SERVER_Q /\ TASK_Q # USER_Q /\ SERVER_Q # USER_Q
  BY <1>3, <1>8 DEF Queues, TASK_Q, SERVER_Q, USER_Q
<1>10. Top(N) = IF q = TASK_Q /\ R[TASK_Q] = << >> THEN p ELSE Top(R)
  <2>1. CASE q = TASK_Q
    BY <1>5, <1>9, <2>1 DEF Top
  <2>2. CASE q = SERVER_Q
    BY <1>5, <1>7, <1>9, <2>2 DEF Top
  <2>3. CASE q = USER_Q
    BY <1>5, <1>7, <1>9, <2>3 DEF Top
  <2> QED
    BY <1>9, <2>1, <2>2, <2>3
<1> QED
  BY <1>6, <1>8, <1>10

\* Whoever may run after a flag of it has been cleared
Wake(s, p) == IF s.p_flags[p] = {} THEN ready(s, p) ELSE s

\* Putting a process on its list when its last flag is gone keeps the lists and,
\* where pick_proc() would not choose it, the process that runs.
LEMMA WakeKeeps ==
  ASSUME NEW s \in KernelState, Classed(s.p_priority), NEW p \in Schedulable,
         ~isemptyp(s, p), Lists(s.rdy, Ready(s) \ {p})
  PROVE  /\ Wake(s, p) \in KernelState /\ SameData(s, Wake(s, p))
         /\ Lists(Wake(s, p).rdy, Ready(s))
         /\ s.proc_ptr = Top(s.rdy) /\ NeverFirst(s.rdy, p) =>
              Wake(s, p).proc_ptr = Top(Wake(s, p).rdy)
         /\ Class(p) # TASK_Q => Wake(s, p).proc_ptr = s.proc_ptr
         /\ Class(p) # USER_Q => Wake(s, p).rdy[USER_Q] = s.rdy[USER_Q]
<1>1. p \in Procs
  BY Classes
<1>2. CASE s.p_flags[p] # {}
  <2>1. Ready(s) \ {p} = Ready(s)
    BY <1>2 DEF Ready
  <2> QED
    BY <1>2, <2>1 DEF Wake, SameData
<1>3. CASE s.p_flags[p] = {}
  <2>1. Wake(s, p) = ready(s, p)
    BY <1>3 DEF Wake
  <2>2. (Ready(s) \ {p}) \cup {p} = Ready(s)
    BY <1>1, <1>3 DEF Ready
  <2>3. Lists(ready(s, p).rdy, Ready(s))
    <3>1. p \notin Ready(s) \ {p}
      OBVIOUS
    <3> QED
      BY <2>2, <3>1, ReadyLists
  <2>4. Class(p) # USER_Q => ready(s, p).rdy[USER_Q] = s.rdy[USER_Q]
    <3>1. s.rdy \in [Queues -> Seq(Schedulable)] /\ USER_Q \in Queues
      BY DEF KernelState, Queues
    <3> QED
      BY <3>1, ReadyEffect
  <2>5. /\ ready(s, p) \in KernelState /\ SameData(s, ready(s, p))
        /\ Class(p) # TASK_Q => ready(s, p).proc_ptr = s.proc_ptr
    BY ReadyEffect
  <2>6. s.proc_ptr = Top(s.rdy) /\ NeverFirst(s.rdy, p) =>
          ready(s, p).proc_ptr = Top(ready(s, p).rdy)
    BY ReadyTop
  <2> QED
    BY <2>1, <2>3, <2>4, <2>5, <2>6
<1> QED
  BY <1>2, <1>3

\* What unready() does
LEMMA UnreadyEffect ==
  ASSUME NEW s \in KernelState, Classed(s.p_priority), NEW p \in Schedulable,
         Distinct(s.rdy[Class(p)])
  PROVE  /\ unready(s, p) \in KernelState
         /\ SameData(s, unready(s, p))
         /\ unready(s, p).rdy =
              [s.rdy EXCEPT ![Class(p)] = Unlink(s.rdy[Class(p)], p)]
         /\ unready(s, p).proc_ptr =
              IF /\ s.rdy[Class(p)] # << >> /\ Head(s.rdy[Class(p)]) = p
                 /\ Class(p) = TASK_Q => p = s.proc_ptr
              THEN Top(unready(s, p).rdy) ELSE s.proc_ptr
<1>1. PICK q \in Queues : q = Class(p) /\ q = QueueOf(s, p)
  BY Classes
<1>2. s.rdy \in [Queues -> Seq(Schedulable)]
  BY DEF KernelState
<1>3. Unlink(s.rdy[q], p) \in Seq(Schedulable)
  <2>1. s.rdy[q] \in Seq(Schedulable) /\ Distinct(s.rdy[q])
    BY <1>1, <1>2
  <2> QED
    BY <2>1, UnlinkList
<1>4. PICK R \in [Queues -> Seq(Schedulable)] :
        R = [s.rdy EXCEPT ![q] = Unlink(s.rdy[q], p)]
  BY <1>2, <1>3
<1>5. PICK u : u = [s EXCEPT !.rdy = R]
  OBVIOUS
<1>6. /\ u \in KernelState /\ SameData(s, u)
      /\ u.rdy = R /\ u.proc_ptr = s.proc_ptr
  BY <1>4, <1>5 DEF KernelState, SameData
<1>7. unready(s, p) =
        IF s.rdy[q] # << >> /\ Head(s.rdy[q]) = p /\ (q = TASK_Q => p = s.proc_ptr)
        THEN pick_proc(u) ELSE u
  <2>1. u = [s EXCEPT !.rdy[q] = Unlink(s.rdy[q], p)]
    BY <1>4, <1>5 DEF KernelState
  <2> QED
    BY <1>1, <2>1 DEF unready
<1>8. /\ pick_proc(u) \in KernelState /\ SameData(s, pick_proc(u))
      /\ pick_proc(u).rdy = R /\ pick_proc(u).proc_ptr = Top(R)
  BY <1>6, PickEffect DEF SameData
<1> QED
  BY <1>1, <1>4, <1>6, <1>7, <1>8

\* Whoever may not run any longer
Halt(s, p) == IF s.p_flags[p] = {} THEN unready(s, p) ELSE s

\* Taking a process off its list before it gets its first flag keeps the lists
\* of the others.
LEMMA HaltKeeps ==
  ASSUME NEW s \in KernelState, Classed(s.p_priority), NEW p \in Schedulable,
         ~isemptyp(s, p), Lists(s.rdy, Ready(s))
  PROVE  /\ Halt(s, p) \in KernelState /\ SameData(s, Halt(s, p))
         /\ Lists(Halt(s, p).rdy, Ready(s) \ {p})
         /\ \/ s.proc_ptr = Top(s.rdy)
            \/ /\ s.p_flags[p] = {} /\ s.proc_ptr = p
               /\ Head(s.rdy[Class(p)]) = p
            => Halt(s, p).proc_ptr = Top(Halt(s, p).rdy)
<1>1. p \in Procs /\ p \in Schedulable
  BY Classes
<1>2. PICK q \in Queues : q = Class(p)
  BY Classes
<1>3. PICK R \in [Queues -> Seq(Schedulable)] : R = s.rdy
  BY DEF KernelState
<1>4. /\ \A r \in Queues : Distinct(R[r])
      /\ \A x \in Schedulable, r \in Queues :
           OnList(R[r], x) <=> x \in Ready(s) /\ r = Class(x)
  BY <1>3 DEF Lists
<1>5. CASE s.p_flags[p] # {}
  <2>1. Ready(s) \ {p} = Ready(s)
    BY <1>5 DEF Ready
  <2> QED
    BY <1>5, <2>1 DEF Halt, SameData
<1>6. CASE s.p_flags[p] = {}
  <2>1. Halt(s, p) = unready(s, p)
    BY <1>6 DEF Halt
  <2>2. PICK L : L = Unlink(R[q], p)
    OBVIOUS
  <2>3. /\ Distinct(L) /\ \A x : OnList(L, x) <=> OnList(R[q], x) /\ x # p
        /\ R[q] # << >> /\ Head(R[q]) # p => L # << >> /\ Head(L) = Head(R[q])
    <3>1. R[q] \in Seq(Schedulable) /\ Distinct(R[q])
      BY <1>3, <1>4
    <3> QED
      BY <2>2, <3>1, UnlinkList
  <2>4. PICK N : N = [R EXCEPT ![q] = L]
    OBVIOUS
  <2>5. N[q] = L /\ \A r \in Queues \ {q} : N[r] = R[r]
    BY <1>3, <2>4
  <2>6. /\ unready(s, p) \in KernelState /\ SameData(s, unready(s, p))
        /\ unready(s, p).rdy = N
        /\ unready(s, p).proc_ptr =
              IF R[q] # << >> /\ Head(R[q]) = p /\ (q = TASK_Q => p = s.proc_ptr)
              THEN Top(N) ELSE s.proc_ptr
    BY <1>2, <1>3, <1>4, <2>2, <2>4, UnreadyEffect
  <2>7. Lists(N, Ready(s) \ {p})
    <3>1. \A r \in Queues : Distinct(N[r])
      BY <1>4, <2>3, <2>5
    <3>2. \A x \in Schedulable, r \in Queues :
            OnList(N[r], x)
              <=> x \in Ready(s) \ {p} /\ r = Class(x)
      BY <1>2, <1>4, <2>3, <2>5
    <3> QED
      BY <3>1, <3>2 DEF Lists
  <2>8. OnList(R[q], p)
    BY <1>1, <1>2, <1>4, <1>6 DEF Ready
  <2>9. R[q] # << >>
    BY <2>8 DEF OnList
  <2>10. ASSUME s.proc_ptr = Top(R), Head(R[q]) # p \/ (q = TASK_Q /\ p # s.proc_ptr)
         PROVE  Top(N) = Top(R)
    <3>1. /\ {TASK_Q, SERVER_Q, USER_Q} = Queues
          /\ TASK_Q # SERVER_Q /\ TASK_Q # USER_Q /\ SERVER_Q # USER_Q
      BY DEF Queues, TASK_Q, SERVER_Q, USER_Q
    <3>2. q = TASK_Q => s.proc_ptr = Head(R[q])
      BY <2>9, <2>10 DEF Top
    <3>3. Head(R[q]) # p
      BY <2>10, <3>2
    <3>4. L # << >> /\ Head(L) = Head(R[q])
      BY <2>3, <2>9, <3>3
    <3> QED
      BY <2>5, <2>9, <3>1, <3>4 DEF Top
  <2> QED
    BY <1>2, <1>3, <2>1, <2>6, <2>7, <2>9, <2>10
<1> QED
  BY <1>5, <1>6

-----------------------------------------------------------------------------
(* The invariant of the kernel's data *)

\* A process is queued on the one it sends to, once, exactly while it is SENDING.
Senders(F, T, Q) ==
  /\ \A d \in Procs : Distinct(Q[d])
  /\ \A d, c \in Procs : OnList(Q[d], c) <=> "SENDING" \in F[c] /\ T[c] = d

\* A slot of a user: what a dead one has lost, whom a live one waits for, and
\* the signals of it.
UserOK(s, u) ==
  /\ isemptyp(s, u) =>
       /\ s.p_flags[u] = {} /\ s.p_alarm[u] = 0
       /\ s.p_pending[u] = {} /\ s.p_pendcount[u] = 0
  /\ "RECEIVING" \in s.p_flags[u] => s.p_getfrom[u] \in Servers
  /\ "SENDING" \in s.p_flags[u] =>
       "RECEIVING" \in s.p_flags[u] /\ s.p_sendto[u] = s.p_getfrom[u]
  /\ IsFiniteSet(s.p_pending[u])
  /\ Cardinality(s.p_pending[u]) <= s.p_pendcount[u]
  /\ "PENDING" \in s.p_flags[u] <=> s.p_pending[u] # {}
  /\ "SIG_PENDING" \in s.p_flags[u] <=> s.p_pendcount[u] > 0

\* The others only wait for messages; MM waits to send to FS, and only to FS.
SystemFlags(s) ==
  /\ s.p_flags[IDLE] = {} /\ s.p_flags[HARDWARE] = {}
  /\ \A t \in Tasks \cup {FS} : s.p_flags[t] \in {{}, {"RECEIVING"}}
  /\ s.p_flags[MM] \in {{}, {"RECEIVING"}, {"SENDING", "RECEIVING"}}
  /\ "SENDING" \in s.p_flags[MM] => s.p_sendto[MM] = FS /\ s.p_getfrom[MM] = FS
  /\ \A v \in Servers : s.p_pending[v] = {} /\ s.p_alarm[v] = 0

SigsCounted(s) ==
  s.sig_procs = Cardinality({p \in Slots : "PENDING" \in s.p_flags[p]})

\* All but the ready queues
Base(s) ==
  /\ s \in KernelState /\ Classed(s.p_priority)
  /\ Senders(s.p_flags, s.p_sendto, s.p_callerq)
  /\ SystemFlags(s) /\ (\A u \in UserSlots : UserOK(s, u))
  /\ SigsCounted(s) /\ ~s.panic

\* MM does not sleep on an unreported signal.
MMHears(s) ==
  s.sig_procs > 0 => ~("RECEIVING" \in s.p_flags[MM] /\ s.p_getfrom[MM] = ANY)

Scheduled(s) == Lists(s.rdy, Ready(s)) /\ s.proc_ptr = Top(s.rdy)

KInv(s) == Base(s) /\ MMHears(s) /\ Scheduled(s)

\* What has the same data is as good.
LEMMA BaseSame ==
  ASSUME NEW s, NEW n \in KernelState, SameData(s, n)
  PROVE  /\ Base(s) => Base(n)
         /\ MMHears(s) => MMHears(n)
         /\ Ready(n) = Ready(s)
<1>1. /\ n.p_flags = s.p_flags /\ n.p_priority = s.p_priority
      /\ n.p_getfrom = s.p_getfrom /\ n.p_sendto = s.p_sendto
      /\ n.p_callerq = s.p_callerq
      /\ n.p_pending = s.p_pending /\ n.p_pendcount = s.p_pendcount
      /\ n.p_alarm = s.p_alarm
      /\ n.sig_procs = s.sig_procs /\ n.panic = s.panic
  BY DEF SameData
<1>2. \A u : UserOK(s, u) => UserOK(n, u)
  BY <1>1 DEF UserOK, isemptyp
<1>3. SystemFlags(s) => SystemFlags(n)
  BY <1>1 DEF SystemFlags
<1>4. SigsCounted(s) => SigsCounted(n)
  BY <1>1 DEF SigsCounted
<1>5. MMHears(s) => MMHears(n)
  BY <1>1 DEF MMHears
<1>6. Ready(n) = Ready(s)
  BY <1>1 DEF Ready, isemptyp
<1>7. Base(s) => Base(n)
  BY <1>1, <1>2, <1>3, <1>4 DEF Base
<1> QED
  BY <1>5, <1>6, <1>7

\* The running process is the first of its queue, and the higher queues are
\* empty.
LEMMA Running ==
  ASSUME NEW s \in KernelState, Scheduled(s), NEW p \in Schedulable, s.proc_ptr = p
  PROVE  /\ s.p_flags[p] = {} /\ ~isemptyp(s, p)
         /\ s.rdy[Class(p)] # << >> /\ Head(s.rdy[Class(p)]) = p
         /\ p \in Servers \cup UserSlots => \A t \in Tasks : t \notin Ready(s)
         /\ p \in UserSlots => \A v \in Servers : v \notin Ready(s)
         /\ p \in Servers \cup UserSlots => s.rdy[TASK_Q] = << >>
         /\ p \in UserSlots => s.rdy[SERVER_Q] = << >>
<1>1. PICK R \in [Queues -> Seq(Schedulable)] : R = s.rdy
  BY DEF KernelState
<1>2. Lists(R, Ready(s)) /\ p = Top(R)
  BY <1>1 DEF Scheduled
<1>3. \A x \in Schedulable, q \in Queues : OnList(R[q], x) <=> x \in Ready(s) /\ q = Class(x)
  BY <1>2 DEF Lists
<1>4. /\ {TASK_Q, SERVER_Q, USER_Q} = Queues
      /\ TASK_Q # SERVER_Q /\ TASK_Q # USER_Q /\ SERVER_Q # USER_Q
  BY DEF Queues, TASK_Q, SERVER_Q, USER_Q
<1>5. \A q \in Queues : R[q] # << >> => Head(R[q]) \in Schedulable /\ OnList(R[q], Head(R[q]))
  BY HeadInSeq
<1>6. p # IDLE
  BY ProcFacts
<1>7. PICK q \in Queues : /\ R[q] # << >> /\ Head(R[q]) = p
                          /\ q # TASK_Q => R[TASK_Q] = << >>
                          /\ q = USER_Q => R[SERVER_Q] = << >>
  BY <1>2, <1>4, <1>6 DEF Top
<1>8. p \in Ready(s) /\ q = Class(p)
  BY <1>3, <1>5, <1>7
<1>9. \A r \in Queues, x \in Schedulable : R[r] = << >> /\ r = Class(x) => x \notin Ready(s)
  BY <1>3 DEF OnList
<1>10. /\ p \in Tasks <=> q = TASK_Q
       /\ p \in Servers <=> q = SERVER_Q
       /\ p \in UserSlots <=> q = USER_Q
  BY <1>4, <1>8, ProcFacts DEF Class
<1>11. /\ \A t \in Tasks : t \in Schedulable /\ Class(t) = TASK_Q
       /\ \A v \in Servers : v \in Schedulable /\ Class(v) = SERVER_Q
  BY ProcFacts DEF Class
<1> QED
  BY <1>1, <1>4, <1>7, <1>8, <1>9, <1>10, <1>11, ProcFacts DEF Ready

\* The heads of the queues of tasks and servers stay, except for p.
HeadsKept(s, n, p) ==
  \A q \in {TASK_Q, SERVER_Q} :
    s.rdy[q] # << >> /\ Head(s.rdy[q]) # p =>
      n.rdy[q] # << >> /\ Head(n.rdy[q]) = Head(s.rdy[q])

\* A process that loses a flag, and runs again when it was the last
LEMMA Unblock ==
  ASSUME NEW s \in KernelState, NEW n \in KernelState, NEW p \in Schedulable,
         Classed(s.p_priority), Lists(s.rdy, Ready(s)), s.p_flags[p] # {},
         n.p_priority = s.p_priority, n.rdy = s.rdy, ~isemptyp(n, p),
         \A x \in Procs \ {p} : n.p_flags[x] = s.p_flags[x]
  PROVE  LET w == Wake(n, p)
         IN /\ w \in KernelState /\ SameData(n, w)
            /\ Lists(w.rdy, Ready(w))
            /\ HeadsKept(s, w, HARDWARE)
            /\ n.proc_ptr = Top(s.rdy) /\ NeverFirst(s.rdy, p) =>
                 w.proc_ptr = Top(w.rdy)
            /\ Class(p) # TASK_Q => w.proc_ptr = n.proc_ptr
            /\ Class(p) # USER_Q => w.rdy[USER_Q] = s.rdy[USER_Q]
<1>1. p \in Procs /\ Schedulable \subseteq Procs
  BY ProcFacts
<1>2. Ready(n) \ {p} = Ready(s)
  BY <1>1 DEF Ready, isemptyp
<1>3. Lists(n.rdy, Ready(n) \ {p}) /\ Classed(n.p_priority)
  BY <1>2
<1>4. /\ Wake(n, p) \in KernelState /\ SameData(n, Wake(n, p))
      /\ Lists(Wake(n, p).rdy, Ready(n))
      /\ n.proc_ptr = Top(n.rdy) /\ NeverFirst(n.rdy, p) =>
           Wake(n, p).proc_ptr = Top(Wake(n, p).rdy)
      /\ Class(p) # TASK_Q => Wake(n, p).proc_ptr = n.proc_ptr
      /\ Class(p) # USER_Q => Wake(n, p).rdy[USER_Q] = n.rdy[USER_Q]
  BY <1>3, WakeKeeps
<1>5. Ready(Wake(n, p)) = Ready(n)
  BY <1>4, BaseSame
<1>6. HeadsKept(s, Wake(n, p), HARDWARE)
  <2>1. CASE n.p_flags[p] # {}
    BY <2>1 DEF Wake, HeadsKept
  <2>2. CASE n.p_flags[p] = {}
    <3>1. PICK R \in [Queues -> Seq(Schedulable)] : R = s.rdy
      BY DEF KernelState
    <3>2. PICK q \in Queues : q = Class(p)
      BY <1>3, Classes
    <3>3. PICK L : L = IF q = USER_Q THEN <<p>> \o R[q] ELSE Append(R[q], p)
      OBVIOUS
    <3>4. Wake(n, p).rdy = [R EXCEPT ![q] = L]
      <4>1. Wake(n, p) = ready(n, p) /\ n.rdy = R
        BY <2>2, <3>1 DEF Wake
      <4>2. ready(n, p).rdy =
              [n.rdy EXCEPT ![q] = IF q = USER_Q THEN <<p>> \o @ ELSE Append(@, p)]
        BY <1>3, <3>2, ReadyEffect
      <4> QED
        BY <3>3, <4>1, <4>2
    <3>5. /\ TASK_Q \in Queues /\ SERVER_Q \in Queues
          /\ TASK_Q # USER_Q /\ SERVER_Q # USER_Q
      BY DEF Queues, TASK_Q, SERVER_Q, USER_Q
    <3>6. q # USER_Q => L # << >> /\ Head(L) = IF R[q] = << >> THEN p ELSE Head(R[q])
      <4>1. R[q] \in Seq(Schedulable)
        OBVIOUS
      <4> QED
        BY <3>3, <4>1, AppendList
    <3> QED
      BY <3>1, <3>4, <3>5, <3>6 DEF HeadsKept
  <2> QED
    BY <2>1, <2>2
<1> QED
  BY <1>4, <1>5, <1>6

\* A process that gets a flag, and runs no longer when it is the first
LEMMA Block ==
  ASSUME NEW s \in KernelState, NEW n \in KernelState, NEW p \in Schedulable,
         Classed(s.p_priority), Lists(s.rdy, Ready(s)), ~isemptyp(s, p),
         n.p_flags[p] # {},
         n.p_priority = s.p_priority,
         n.rdy = Halt(s, p).rdy, n.proc_ptr = Halt(s, p).proc_ptr,
         \A x \in Procs \ {p} : n.p_flags[x] = s.p_flags[x],
         \/ s.proc_ptr = Top(s.rdy)
         \/ s.p_flags[p] = {} /\ s.proc_ptr = p /\ Head(s.rdy[Class(p)]) = p
  PROVE  Lists(n.rdy, Ready(n)) /\ n.proc_ptr = Top(n.rdy) /\ HeadsKept(s, n, p)
<1>1. p \in Procs /\ Schedulable \subseteq Procs
  BY ProcFacts
<1>2. Ready(n) = Ready(s) \ {p}
  BY <1>1 DEF Ready, isemptyp
<1>3. /\ Lists(Halt(s, p).rdy, Ready(s) \ {p})
      /\ Halt(s, p).proc_ptr = Top(Halt(s, p).rdy)
  BY HaltKeeps
<1>4. HeadsKept(s, n, p)
  <2>1. CASE s.p_flags[p] # {}
    BY <2>1 DEF Halt, HeadsKept
  <2>2. CASE s.p_flags[p] = {}
    <3>1. PICK R \in [Queues -> Seq(Schedulable)] : R = s.rdy
      BY DEF KernelState
    <3>2. PICK q \in Queues : q = Class(p)
      BY Classes
    <3>3. PICK L : L = Unlink(R[q], p)
      OBVIOUS
    <3>4. Distinct(R[q])
      BY <3>1 DEF Lists
    <3>5. n.rdy = [R EXCEPT ![q] = L]
      BY <2>2, <3>1, <3>2, <3>3, <3>4, UnreadyEffect DEF Halt
    <3>6. R[q] # << >> /\ Head(R[q]) # p => L # << >> /\ Head(L) = Head(R[q])
      <4>1. R[q] \in Seq(Schedulable)
        OBVIOUS
      <4> QED
        BY <3>3, <3>4, <4>1, UnlinkList
    <3>7. TASK_Q \in Queues /\ SERVER_Q \in Queues
      BY DEF Queues
    <3> QED
      BY <3>1, <3>5, <3>6, <3>7 DEF HeadsKept
  <2> QED
    BY <2>1, <2>2
<1> QED
  BY <1>2, <1>3, <1>4

\* What the clauses of Base on others than p do not look at
SameSignals(s, n) ==
  /\ n.p_priority = s.p_priority /\ n.p_sendto = s.p_sendto
  /\ n.p_callerq = s.p_callerq /\ n.p_alarm = s.p_alarm
  /\ n.p_pending = s.p_pending /\ n.p_pendcount = s.p_pendcount
  /\ n.sig_procs = s.sig_procs /\ n.panic = s.panic

\* A flag of one process that is neither of a signal nor SENDING, and whom it
\* receives from
LEMMA BaseStep ==
  ASSUME NEW s, Base(s), NEW n \in KernelState, NEW p \in Schedulable,
         SameSignals(s, n),
         \A x \in Procs \ {p} : n.p_flags[x] = s.p_flags[x] /\ n.p_getfrom[x] = s.p_getfrom[x],
         \A f \in {"SENDING", "PENDING", "SIG_PENDING"} :
           f \in n.p_flags[p] <=> f \in s.p_flags[p],
         p \in UserSlots =>
           /\ ~isemptyp(s, p)
           /\ "RECEIVING" \in n.p_flags[p] => n.p_getfrom[p] \in Servers
           /\ "SENDING" \in n.p_flags[p] =>
                "RECEIVING" \in n.p_flags[p] /\ n.p_sendto[p] = n.p_getfrom[p],
         p \notin UserSlots => n.p_flags[p] \in {{}, {"RECEIVING"}}
  PROVE  Base(n)
<1>1. /\ n.p_priority = s.p_priority /\ n.p_sendto = s.p_sendto
      /\ n.p_callerq = s.p_callerq /\ n.p_alarm = s.p_alarm
      /\ n.p_pending = s.p_pending /\ n.p_pendcount = s.p_pendcount
      /\ n.sig_procs = s.sig_procs /\ n.panic = s.panic
  BY DEF SameSignals
<1>2. \A x \in Procs, f \in {"SENDING", "PENDING", "SIG_PENDING"} :
        f \in n.p_flags[x] <=> f \in s.p_flags[x]
  OBVIOUS
<1>3. Senders(n.p_flags, n.p_sendto, n.p_callerq)
  BY <1>1, <1>2 DEF Base, Senders
<1>4. SigsCounted(n)
  <2>1. \A x \in Slots : x \in Procs
    BY ProcFacts
  <2>2. {x \in Slots : "PENDING" \in n.p_flags[x]} = {x \in Slots : "PENDING" \in s.p_flags[x]}
    BY <1>2, <2>1
  <2> QED
    BY <1>1, <2>2 DEF Base, SigsCounted
<1>5. ASSUME NEW u \in UserSlots PROVE UserOK(n, u)
  <2>1. u \in Procs /\ UserOK(s, u)
    BY ProcFacts DEF Base
  <2>2. CASE u # p
    BY <1>1, <2>1, <2>2 DEF UserOK, isemptyp
  <2>3. CASE u = p
    BY <1>1, <1>2, <2>1, <2>3 DEF UserOK, isemptyp
  <2> QED
    BY <2>2, <2>3
<1>6. SystemFlags(n)
  <2>1. /\ IDLE \in Procs \ {p} /\ HARDWARE \in Procs \ {p}
        /\ \A t \in Tasks \cup Servers : t \in Procs /\ t \notin UserSlots
        /\ MM \in Servers /\ FS \in Servers
    BY ProcFacts DEF Servers
  <2>2. SystemFlags(s)
    BY DEF Base
  <2>3. \A t \in Tasks \cup {FS} : n.p_flags[t] \in {{}, {"RECEIVING"}}
    BY <2>1, <2>2 DEF SystemFlags
  <2>4. /\ n.p_flags[MM] \in {{}, {"RECEIVING"}, {"SENDING", "RECEIVING"}}
        /\ "SENDING" \in n.p_flags[MM] => n.p_sendto[MM] = FS /\ n.p_getfrom[MM] = FS
    <3>1. CASE p = MM
      BY <2>1, <3>1
    <3>2. CASE p # MM
      BY <1>1, <2>1, <2>2, <3>2 DEF SystemFlags
    <3> QED
      BY <3>1, <3>2
  <2> QED
    BY <1>1, <2>1, <2>2, <2>3, <2>4 DEF SystemFlags
<1> QED
  BY <1>1, <1>3, <1>4, <1>5, <1>6 DEF Base

\* The chain of a process that sends to one that does not send
LEMMA ShortChain ==
  ASSUME NEW s, NEW d, NEW e, "SENDING" \in s.p_flags[d], s.p_sendto[d] = e,
         "SENDING" \notin s.p_flags[e]
  PROVE  SendChain(s, d) \subseteq {e}
<1> DEFINE Rule(f) == f = [i \in Nat |-> IF i = 0 THEN d ELSE Receiver(s, f[i - 1])]
           h == [i \in Nat |-> IF i = 0 THEN d ELSE e]
<1>1. Rule(h)
  <2>1. ASSUME NEW i \in Nat
        PROVE  h[i] = IF i = 0 THEN d ELSE Receiver(s, h[i - 1])
    <3>1. CASE i = 0
      BY <3>1
    <3>2. CASE i # 0
      <4>1. i - 1 \in Nat /\ h[i] = e /\ h[i - 1] \in {d, e}
        BY <3>2
      <4>2. Receiver(s, d) = e /\ Receiver(s, e) = e
        BY DEF Receiver
      <4> QED
        BY <3>2, <4>1, <4>2
    <3> QED
      BY <3>1, <3>2
  <2>2. h = [i \in Nat |-> h[i]]
    OBVIOUS
  <2> HIDE DEF h
  <2> QED
    BY <2>1, <2>2
<1>2. Rule(ChainFrom(s, d))
  <2>1. ChainFrom(s, d) = CHOOSE g : Rule(g)
    BY DEF ChainFrom
  <2> HIDE DEF Rule
  <2> QED
    BY <1>1, <2>1
<1>3. PICK g : g = ChainFrom(s, d)
  OBVIOUS
<1>4. \A i \in Nat : g[i] = IF i = 0 THEN d ELSE Receiver(s, g[i - 1])
  BY <1>2, <1>3
<1>5. \A i \in Nat : g[i + 1] = Receiver(s, g[i])
  <2>1. \A i \in Nat : i + 1 \in Nat /\ i + 1 # 0 /\ (i + 1) - 1 = i
    OBVIOUS
  <2> QED
    BY <1>4, <2>1
<1>6. \A i \in Nat : g[i + 1] = e
  <2> DEFINE T == {i \in Nat : g[i + 1] = e}
  <2>1. 0 \in T
    BY <1>4, <1>5 DEF Receiver
  <2>2. \A i \in Nat : i \in T => i + 1 \in T
    BY <1>5 DEF Receiver
  <2>3. Nat \subseteq T
    <3> HIDE DEF T
    <3> QED
      BY <2>1, <2>2, SetInduction
  <2> QED
    BY <2>3
<1>7. \A i \in 1..Cardinality(Procs) : g[i] = e
  <2>1. \A i \in 1..Cardinality(Procs) : i - 1 \in Nat /\ (i - 1) + 1 = i
    BY ProcsFinite
  <2> QED
    BY <1>6, <2>1
<1> QED
  BY <1>3, <1>7, ChainUnfolds

\* A message m of c that d, which waits for it, has received
Delivered(s, m, c, d) ==
  [s EXCEPT !.mess[d] = [m EXCEPT !.src = c], !.p_flags[d] = @ \ {"RECEIVING"}]

DeliveredIs(s, m, c, d, n) ==
  /\ n \in KernelState /\ SameSignals(s, n)
  /\ n.p_getfrom = s.p_getfrom /\ n.p_int_blocked = s.p_int_blocked
  /\ n.p_pid = s.p_pid /\ n.rdy = s.rdy /\ n.proc_ptr = s.proc_ptr
  /\ n.user_priority = s.user_priority
  /\ n.mess = [s.mess EXCEPT ![d] = [m EXCEPT !.src = c]]
  /\ n.p_flags = [s.p_flags EXCEPT ![d] = s.p_flags[d] \ {"RECEIVING"}]

\* Its fields
LEMMA DeliveredFields ==
  ASSUME NEW s \in KernelState, NEW m \in Mess, NEW c \in Procs, NEW d \in Procs
  PROVE  DeliveredIs(s, m, c, d, Delivered(s, m, c, d))
<1>1. PICK m2 \in Mess : m2 = [m EXCEPT !.src = c]
  BY DEF Mess
<1>2. PICK f \in SUBSET Flags : f = s.p_flags[d] \ {"RECEIVING"}
  BY DEF KernelState
<1>3. Delivered(s, m, c, d) = [s EXCEPT !.mess[d] = m2, !.p_flags[d] = f]
  BY <1>1, <1>2 DEF Delivered, KernelState
<1>4. PICK n : n = [s EXCEPT !.mess[d] = m2, !.p_flags[d] = f]
  OBVIOUS
<1>5. /\ n \in KernelState /\ SameSignals(s, n)
      /\ n.p_getfrom = s.p_getfrom /\ n.p_int_blocked = s.p_int_blocked
      /\ n.p_pid = s.p_pid /\ n.rdy = s.rdy /\ n.proc_ptr = s.proc_ptr
      /\ n.user_priority = s.user_priority
      /\ n.mess = [s.mess EXCEPT ![d] = m2]
      /\ n.p_flags = [s.p_flags EXCEPT ![d] = f]
  BY <1>4 DEF KernelState, SameSignals
<1> QED
  BY <1>1, <1>2, <1>3, <1>4, <1>5 DEF DeliveredIs

\* A message for who waits for it is delivered.
LEMMA Delivers ==
  ASSUME NEW s, Base(s), Lists(s.rdy, Ready(s)), NEW c \in Procs, NEW d \in Schedulable,
         NEW b \in Procs, ~isemptyp(s, d), isuserp(s, c) => d \in Servers,
         "RECEIVING" \in s.p_flags[d], "SENDING" \notin s.p_flags[d],
         s.p_getfrom[d] \in {ANY, c}
  PROVE  LET n == mini_send(s, c, d, b).k
         IN /\ mini_send(s, c, d, b).r = OK
            /\ n \in KernelState /\ SameData(Delivered(s, s.mess[b], c, d), n)
            /\ Base(n) /\ (MMHears(s) => MMHears(n))
            /\ Lists(n.rdy, Ready(n)) /\ HeadsKept(s, n, HARDWARE)
            /\ s.proc_ptr = Top(s.rdy) /\ NeverFirst(s.rdy, d) => n.proc_ptr = Top(n.rdy)
            /\ Class(d) # TASK_Q => n.proc_ptr = s.proc_ptr
            /\ Class(d) # USER_Q => n.rdy[USER_Q] = s.rdy[USER_Q]
<1>1. s \in KernelState /\ Classed(s.p_priority) /\ d \in Procs /\ s.mess[b] \in Mess
  BY ProcFacts DEF Base, KernelState
<1>2. PICK m \in Mess : m = s.mess[b]
  BY <1>1
<1>3. PICK k1 : k1 = Delivered(s, m, c, d)
  OBVIOUS
<1>4. /\ k1 \in KernelState /\ SameSignals(s, k1)
      /\ k1.p_getfrom = s.p_getfrom /\ k1.rdy = s.rdy /\ k1.proc_ptr = s.proc_ptr
      /\ k1.p_flags = [s.p_flags EXCEPT ![d] = s.p_flags[d] \ {"RECEIVING"}]
  <2>1. DeliveredIs(s, m, c, d, k1)
    BY <1>1, <1>3, DeliveredFields
  <2> QED
    BY <2>1 DEF DeliveredIs
<1>5. mini_send(s, c, d, b) = [k |-> Wake(k1, d), r |-> OK]
  <2>1. SendChain(s, d) = {}
    BY DEF SendChain
  <2>2. WaitsForMessageOf(s, d, c)
    BY DEF WaitsForMessageOf
  <2>3. ~(isuserp(s, c) /\ d \notin {MM, FS})
    BY DEF Servers
  <2> QED
    BY <1>2, <1>3, <2>1, <2>2, <2>3 DEF mini_send, Delivered, Wake
<1>6. k1.p_flags[d] = s.p_flags[d] \ {"RECEIVING"} /\ \A x \in Procs \ {d} : k1.p_flags[x] = s.p_flags[x]
  BY <1>1, <1>4 DEF KernelState
<1>7. k1.p_priority = s.p_priority /\ ~isemptyp(k1, d)
  BY <1>4 DEF SameSignals, isemptyp
<1>8. Base(k1)
  <2>1. d \notin UserSlots => k1.p_flags[d] \in {{}, {"RECEIVING"}}
    <3>1. d \notin UserSlots => d \in Tasks \cup Servers
      BY ProcFacts
    <3>2. SystemFlags(s)
      BY DEF Base
    <3> QED
      BY <1>6, <3>1, <3>2 DEF SystemFlags, Servers
  <2>2. d \in UserSlots =>
           /\ ~isemptyp(s, d)
           /\ "RECEIVING" \in k1.p_flags[d] => k1.p_getfrom[d] \in Servers
           /\ "SENDING" \in k1.p_flags[d] =>
                "RECEIVING" \in k1.p_flags[d] /\ k1.p_sendto[d] = k1.p_getfrom[d]
    BY <1>6
  <2>3. \A f \in {"SENDING", "PENDING", "SIG_PENDING"} :
           f \in k1.p_flags[d] <=> f \in s.p_flags[d]
    BY <1>6
  <2> QED
    BY <1>4, <1>6, <2>1, <2>2, <2>3, BaseStep
<1>9. MMHears(s) => MMHears(k1)
  <2>1. MM \in Procs
    BY ProcFacts DEF Servers
  <2>2. "RECEIVING" \in k1.p_flags[MM] => "RECEIVING" \in s.p_flags[MM]
    BY <1>6, <2>1
  <2> QED
    BY <1>4, <2>2 DEF MMHears, SameSignals
<1>10. PICK w : w = Wake(k1, d)
  OBVIOUS
<1>11. /\ w \in KernelState /\ SameData(k1, w)
       /\ Lists(w.rdy, Ready(w)) /\ HeadsKept(s, w, HARDWARE)
       /\ k1.proc_ptr = Top(s.rdy) /\ NeverFirst(s.rdy, d) => w.proc_ptr = Top(w.rdy)
       /\ Class(d) # TASK_Q => w.proc_ptr = k1.proc_ptr
       /\ Class(d) # USER_Q => w.rdy[USER_Q] = s.rdy[USER_Q]
  <2>1. s.p_flags[d] # {}
    OBVIOUS
  <2>2. \A x \in Procs \ {d} : k1.p_flags[x] = s.p_flags[x]
    BY <1>6
  <2>3. s \in KernelState /\ Classed(s.p_priority) /\ k1 \in KernelState /\ k1.rdy = s.rdy
    BY <1>1, <1>4
  <2> HIDE <1>2, <1>3, <1>5
  <2> QED
    BY <1>7, <1>10, <2>1, <2>2, <2>3, Unblock
<1>12. Base(w) /\ (MMHears(s) => MMHears(w))
  BY <1>8, <1>9, <1>11, BaseSame
<1> QED
  BY <1>2, <1>3, <1>4, <1>5, <1>10, <1>11, <1>12

\* A process writes a message into its own buffer.
LEMMA OwnMessage ==
  ASSUME NEW s \in KernelState, NEW c \in Procs, NEW m \in Mess
  PROVE  LET n == [s EXCEPT !.mess[c] = m]
         IN /\ n \in KernelState /\ SameSignals(s, n)
            /\ n.p_getfrom = s.p_getfrom /\ n.p_int_blocked = s.p_int_blocked
            /\ n.p_pid = s.p_pid /\ n.rdy = s.rdy /\ n.proc_ptr = s.proc_ptr
            /\ n.user_priority = s.user_priority /\ n.p_flags = s.p_flags
            /\ n.mess = [s.mess EXCEPT ![c] = m]
            /\ Ready(n) = Ready(s) /\ (\A p : isemptyp(n, p) <=> isemptyp(s, p))
            /\ (\A p : isuserp(n, p) <=> isuserp(s, p))
            /\ Base(s) => Base(n)
            /\ MMHears(s) => MMHears(n)
            /\ Scheduled(s) => Scheduled(n)
<1>1. PICK n : n = [s EXCEPT !.mess[c] = m]
  OBVIOUS
<1>2. /\ n \in KernelState /\ SameSignals(s, n)
      /\ n.p_getfrom = s.p_getfrom /\ n.p_int_blocked = s.p_int_blocked
      /\ n.p_pid = s.p_pid /\ n.rdy = s.rdy /\ n.proc_ptr = s.proc_ptr
      /\ n.user_priority = s.user_priority /\ n.p_flags = s.p_flags
      /\ n.mess = [s.mess EXCEPT ![c] = m]
  BY <1>1 DEF KernelState, SameSignals
<1>3. /\ n.p_priority = s.p_priority /\ n.p_sendto = s.p_sendto
      /\ n.p_callerq = s.p_callerq /\ n.p_alarm = s.p_alarm
      /\ n.p_pending = s.p_pending /\ n.p_pendcount = s.p_pendcount
      /\ n.sig_procs = s.sig_procs /\ n.panic = s.panic
  BY <1>2 DEF SameSignals
<1>4. Ready(n) = Ready(s) /\ (\A p : isemptyp(n, p) <=> isemptyp(s, p))
        /\ (\A p : isuserp(n, p) <=> isuserp(s, p))
  BY <1>2, <1>3 DEF Ready, isemptyp, isuserp
<1>5. \A u : UserOK(s, u) => UserOK(n, u)
  BY <1>2, <1>3, <1>4 DEF UserOK
<1>6. SystemFlags(s) => SystemFlags(n)
  BY <1>2, <1>3 DEF SystemFlags
<1>7. Base(s) => Base(n)
  BY <1>2, <1>3, <1>5, <1>6 DEF Base, SigsCounted
<1>8. MMHears(s) => MMHears(n)
  BY <1>2, <1>3 DEF MMHears
<1>9. Scheduled(s) => Scheduled(n)
  BY <1>2, <1>4 DEF Scheduled
<1> QED
  BY <1>1, <1>2, <1>4, <1>7, <1>8, <1>9

\* c waits for a message of src, which is not there.
Waiting(s, c, src) ==
  [s EXCEPT !.p_getfrom[c] = src, !.p_flags[c] = @ \cup {"RECEIVING"}]

WaitingIs(s, c, src, n) ==
  /\ n \in KernelState /\ SameSignals(s, n)
  /\ n.p_getfrom = [s.p_getfrom EXCEPT ![c] = src]
  /\ n.p_int_blocked = s.p_int_blocked
  /\ n.p_pid = s.p_pid /\ n.user_priority = s.user_priority /\ n.mess = s.mess
  /\ n.p_flags = [s.p_flags EXCEPT ![c] = s.p_flags[c] \cup {"RECEIVING"}]

\* Its fields, when unready() has been called before
LEMMA WaitingFields ==
  ASSUME NEW s, NEW h \in KernelState, SameData(s, h),
         NEW c \in Procs, NEW src \in Procs \cup {ANY}
  PROVE  /\ WaitingIs(s, c, src, Waiting(h, c, src))
         /\ Waiting(h, c, src).rdy = h.rdy /\ Waiting(h, c, src).proc_ptr = h.proc_ptr
<1>1. PICK f \in SUBSET Flags : f = h.p_flags[c] \cup {"RECEIVING"}
  <2>1. "RECEIVING" \in Flags
    BY DEF Flags
  <2> QED
    BY <2>1 DEF KernelState
<1>2. Waiting(h, c, src) = [h EXCEPT !.p_getfrom[c] = src, !.p_flags[c] = f]
  BY <1>1 DEF Waiting, KernelState
<1>3. PICK n : n = [h EXCEPT !.p_getfrom[c] = src, !.p_flags[c] = f]
  OBVIOUS
<1>4. /\ n \in KernelState /\ SameSignals(h, n)
      /\ n.p_getfrom = [h.p_getfrom EXCEPT ![c] = src]
      /\ n.p_int_blocked = h.p_int_blocked
      /\ n.p_pid = h.p_pid /\ n.user_priority = h.user_priority /\ n.mess = h.mess
      /\ n.p_flags = [h.p_flags EXCEPT ![c] = f]
      /\ n.rdy = h.rdy /\ n.proc_ptr = h.proc_ptr
  BY <1>3 DEF KernelState, SameSignals
<1> QED
  BY <1>1, <1>2, <1>3, <1>4 DEF WaitingIs, SameData, SameSignals

\* The running process finds no message and blocks.  (MMMustKnow is the case of
\* MustTell below.)
LEMMA StartsWaiting ==
  ASSUME NEW s, Base(s), Lists(s.rdy, Ready(s)), NEW c \in Schedulable, s.p_flags[c] = {},
         ~isemptyp(s, c), NEW src \in Procs \cup {ANY},
         c \in UserSlots => src \in Servers,
         \/ s.proc_ptr = Top(s.rdy)
         \/ s.proc_ptr = c /\ Head(s.rdy[Class(c)]) = c
  PROVE  LET w == Waiting(Halt(s, c), c, src)
         IN /\ WaitingIs(s, c, src, w) /\ Base(w)
            /\ Scheduled(w) /\ HeadsKept(s, w, c)
            /\ MMHears(s) /\ ~(c = MM /\ src = ANY /\ s.sig_procs > 0) => MMHears(w)
<1>1. s \in KernelState /\ Classed(s.p_priority) /\ c \in Procs
  BY ProcFacts DEF Base
<1>2. PICK h : h = Halt(s, c)
  OBVIOUS
<1>3. h \in KernelState /\ SameData(s, h)
  BY <1>1, <1>2, HaltKeeps
<1>4. PICK n : n = Waiting(h, c, src)
  OBVIOUS
<1>5. WaitingIs(s, c, src, n) /\ n.rdy = h.rdy /\ n.proc_ptr = h.proc_ptr
  BY <1>1, <1>3, <1>4, WaitingFields
<1>6. /\ n \in KernelState /\ SameSignals(s, n)
      /\ n.p_flags[c] = {"RECEIVING"} /\ n.p_getfrom[c] = src
      /\ \A x \in Procs \ {c} : n.p_flags[x] = s.p_flags[x] /\ n.p_getfrom[x] = s.p_getfrom[x]
  BY <1>1, <1>5 DEF WaitingIs, KernelState
<1>7. \A f \in {"SENDING", "PENDING", "SIG_PENDING"} :
        f \in n.p_flags[c] <=> f \in s.p_flags[c]
  BY <1>6
<1>8. Base(n)
  <2>1. c \in UserSlots =>
           /\ ~isemptyp(s, c)
           /\ "RECEIVING" \in n.p_flags[c] => n.p_getfrom[c] \in Servers
           /\ "SENDING" \in n.p_flags[c] =>
                "RECEIVING" \in n.p_flags[c] /\ n.p_sendto[c] = n.p_getfrom[c]
    BY <1>6
  <2>2. n.p_flags[c] \in {{}, {"RECEIVING"}}
    BY <1>6
  <2> QED
    BY <1>6, <1>7, <2>1, <2>2, BaseStep
<1>9. Lists(n.rdy, Ready(n)) /\ n.proc_ptr = Top(n.rdy) /\ HeadsKept(s, n, c)
  <2>1. n.p_flags[c] # {} /\ n.p_priority = s.p_priority
    BY <1>6 DEF SameSignals
  <2>2. n.rdy = Halt(s, c).rdy /\ n.proc_ptr = Halt(s, c).proc_ptr
    BY <1>2, <1>5
  <2>3. \A x \in Procs \ {c} : n.p_flags[x] = s.p_flags[x]
    BY <1>6
  <2>4. n \in KernelState /\ s \in KernelState /\ Classed(s.p_priority)
    BY <1>1, <1>6
  <2>5. \/ s.proc_ptr = Top(s.rdy)
        \/ s.p_flags[c] = {} /\ s.proc_ptr = c /\ Head(s.rdy[Class(c)]) = c
    OBVIOUS
  <2> HIDE <1>1, <1>2, <1>4, <1>5, <1>6
  <2> QED
    BY <2>1, <2>2, <2>3, <2>4, <2>5, Block
<1>10. MMHears(s) /\ ~(c = MM /\ src = ANY /\ s.sig_procs > 0) => MMHears(n)
  <2> SUFFICES ASSUME MMHears(s), ~(c = MM /\ src = ANY /\ s.sig_procs > 0)
               PROVE  MMHears(n)
    OBVIOUS
  <2>1. MM \in Procs
    BY ProcFacts DEF Servers
  <2>2. n.sig_procs = s.sig_procs
    BY <1>6 DEF SameSignals
  <2>3. CASE c = MM
    BY <1>6, <2>2, <2>3 DEF MMHears
  <2>4. CASE c # MM
    BY <1>6, <2>1, <2>2, <2>4 DEF MMHears
  <2> QED
    BY <2>3, <2>4
<1>11. n = Waiting(Halt(s, c), c, src)
  BY <1>2, <1>4
<1>12. WaitingIs(s, c, src, n) /\ Scheduled(n)
  BY <1>5, <1>9 DEF Scheduled
<1>13. /\ WaitingIs(s, c, src, n) /\ Base(n)
       /\ Scheduled(n) /\ HeadsKept(s, n, c)
       /\ MMHears(s) /\ ~(c = MM /\ src = ANY /\ s.sig_procs > 0) => MMHears(n)
  BY <1>8, <1>9, <1>10, <1>12
<1> QED
  BY <1>11, <1>13

\* The message of c is with d, and c waits for the answer.
ExchangedIs(s, m, c, d, n) ==
  /\ n \in KernelState /\ SameSignals(s, n)
  /\ n.p_getfrom = [s.p_getfrom EXCEPT ![c] = d]
  /\ n.p_int_blocked = s.p_int_blocked
  /\ n.p_pid = s.p_pid /\ n.user_priority = s.user_priority
  /\ n.mess = [s.mess EXCEPT ![d] = [m EXCEPT !.src = c]]
  /\ n.p_flags = [s.p_flags EXCEPT ![d] = s.p_flags[d] \ {"RECEIVING"},
                                   ![c] = {"RECEIVING"}]

\* The running process c calls d, which waits for a message of it.
LEMMA CallDelivers ==
  ASSUME NEW s, KInv(s), NEW c \in Servers \cup UserSlots, s.proc_ptr = c,
         NEW d \in Tasks \cup Servers, c \in UserSlots => d \in Servers,
         "RECEIVING" \in s.p_flags[d], "SENDING" \notin s.p_flags[d],
         s.p_getfrom[d] \in {ANY, c}
  PROVE  LET w == send_rec(s, c, d).k
         IN /\ send_rec(s, c, d).r = OK
            /\ ExchangedIs(s, s.mess[c], c, d, w) /\ KInv(w)
            /\ HeadsKept(s, w, c)
<1>1. /\ Base(s) /\ s \in KernelState /\ Classed(s.p_priority) /\ c \in Procs
      /\ c \in Schedulable /\ d \in Procs /\ d \in Schedulable /\ d \notin UserSlots
  BY ProcFacts DEF KInv, Base
<1>2. /\ s.p_flags[c] = {} /\ ~isemptyp(s, c)
      /\ Head(s.rdy[Class(c)]) = c /\ s.rdy[Class(c)] # << >>
  BY <1>1, Running DEF KInv
<1>3. c # d /\ ~isemptyp(s, d) /\ (isuserp(s, c) => d \in Servers)
  BY <1>1, <1>2, Classes
<1>4. PICK n1 : n1 = mini_send(s, c, d, c).k
  OBVIOUS
<1>5. /\ mini_send(s, c, d, c).r = OK
      /\ n1 \in KernelState /\ SameData(Delivered(s, s.mess[c], c, d), n1)
      /\ Base(n1) /\ (MMHears(s) => MMHears(n1))
      /\ Lists(n1.rdy, Ready(n1)) /\ HeadsKept(s, n1, HARDWARE)
      /\ s.proc_ptr = Top(s.rdy) /\ NeverFirst(s.rdy, d) => n1.proc_ptr = Top(n1.rdy)
      /\ Class(d) # TASK_Q => n1.proc_ptr = s.proc_ptr
      /\ Class(d) # USER_Q => n1.rdy[USER_Q] = s.rdy[USER_Q]
  <2>1. Lists(s.rdy, Ready(s))
    BY DEF KInv, Scheduled
  <2> QED
    BY <1>1, <1>3, <1>4, <2>1, Delivers
<1>6. PICK m \in Mess : m = s.mess[c]
  BY <1>1 DEF KernelState
<1>7. DeliveredIs(s, m, c, d, Delivered(s, m, c, d))
  BY <1>1, DeliveredFields
<1>8. PICK e : e = Delivered(s, m, c, d)
  OBVIOUS
<1>9. DeliveredIs(s, m, c, d, e) /\ SameData(e, n1)
  BY <1>5, <1>6, <1>7, <1>8
<1>10. /\ n1.p_flags = [s.p_flags EXCEPT ![d] = s.p_flags[d] \ {"RECEIVING"}]
       /\ n1.p_getfrom = s.p_getfrom /\ n1.p_sendto = s.p_sendto
       /\ n1.p_callerq = s.p_callerq /\ n1.p_priority = s.p_priority
  BY <1>9 DEF DeliveredIs, SameData, SameSignals
<1>11. n1.p_flags[c] = {} /\ ~isemptyp(n1, c) /\ "SENDING" \notin n1.p_flags[d]
  BY <1>1, <1>2, <1>3, <1>10 DEF isemptyp, KernelState
<1>12. \/ n1.proc_ptr = Top(n1.rdy)
       \/ n1.proc_ptr = c /\ Head(n1.rdy[Class(c)]) = c
  <2>1. CASE c \in UserSlots
    <3>1. Class(d) # TASK_Q /\ Class(d) # USER_Q /\ Class(c) = USER_Q
      BY <1>1, <2>1, ProcFacts DEF Class, TASK_Q, SERVER_Q, USER_Q
    <3> QED
      BY <1>2, <1>5, <3>1
  <2>2. CASE c \in Servers
    <3>1. NeverFirst(s.rdy, d)
      <4>1. Class(c) = SERVER_Q
        BY <2>2, ProcFacts DEF Class
      <4> QED
        BY <1>2, <4>1 DEF NeverFirst
    <3> QED
      BY <1>5, <3>1 DEF KInv, Scheduled
  <2> QED
    BY <2>1, <2>2
<1>13. send_rec(s, c, d) = [k |-> mini_rec(n1, c, d), r |-> OK]
  BY <1>4, <1>5 DEF send_rec
<1>14. mini_rec(n1, c, d) = Waiting(Halt(n1, c), c, d)
  <2>1. {i \in DOMAIN n1.p_callerq[c] : d \in {ANY, n1.p_callerq[c][i]}} = {}
    <3>1. ~OnList(n1.p_callerq[c], d)
      BY <1>1, <1>5, <1>11 DEF Base, Senders
    <3>2. d # ANY
      BY <1>1, ProcFacts
    <3> QED
      BY <3>1, <3>2 DEF OnList
  <2>2. ~TakesInterrupt(n1, c, d)
    BY ProcFacts DEF TakesInterrupt
  <2>3. ~MMMustKnow(n1, c, d)
    BY <1>1, ProcFacts DEF MMMustKnow
  <2> QED
    BY <2>1, <2>2, <2>3 DEF mini_rec, Waiting, Halt
<1>15. PICK w : w = Waiting(Halt(n1, c), c, d)
  OBVIOUS
<1>16. /\ WaitingIs(n1, c, d, w) /\ Base(w)
       /\ Scheduled(w) /\ HeadsKept(n1, w, c) /\ MMHears(w)
  <2>1. c \in UserSlots => d \in Servers
    OBVIOUS
  <2>2. d \in Procs \cup {ANY} /\ ~(c = MM /\ d = ANY /\ n1.sig_procs > 0)
    BY <1>1, ProcFacts
  <2>3. Base(n1) /\ Lists(n1.rdy, Ready(n1)) /\ MMHears(n1)
    BY <1>5 DEF KInv
  <2> QED
    BY <1>1, <1>11, <1>12, <1>15, <2>1, <2>2, <2>3, StartsWaiting
<1>17. ExchangedIs(s, m, c, d, w)
  <2>1. /\ w \in KernelState /\ SameSignals(s, w)
        /\ w.p_int_blocked = s.p_int_blocked
        /\ w.p_pid = s.p_pid /\ w.user_priority = s.user_priority
        /\ w.mess = [s.mess EXCEPT ![d] = [m EXCEPT !.src = c]]
    BY <1>9, <1>16 DEF WaitingIs, DeliveredIs, SameData, SameSignals
  <2>2. w.p_getfrom = [s.p_getfrom EXCEPT ![c] = d]
    BY <1>10, <1>16 DEF WaitingIs
  <2>3. w.p_flags = [n1.p_flags EXCEPT ![c] = {"RECEIVING"}]
    BY <1>11, <1>16 DEF WaitingIs
  <2>4. PICK f : f = s.p_flags[d] \ {"RECEIVING"}
    OBVIOUS
  <2>5. w.p_flags = [s.p_flags EXCEPT ![d] = f, ![c] = {"RECEIVING"}]
    BY <1>10, <2>3, <2>4
  <2> QED
    BY <2>1, <2>2, <2>4, <2>5 DEF ExchangedIs
<1>18. HeadsKept(s, w, c)
  <2>1. \A q \in {TASK_Q, SERVER_Q} : s.rdy[q] # << >> => Head(s.rdy[q]) # HARDWARE
    <3>1. \A q \in Queues : s.rdy[q] # << >> => Head(s.rdy[q]) \in Schedulable
      <4>1. \A q \in Queues : s.rdy[q] \in Seq(Schedulable)
        BY <1>1 DEF KernelState
      <4> QED
        BY <4>1, HeadInSeq
    <3> QED
      BY <3>1, ProcFacts DEF Queues
  <2> QED
    BY <1>5, <1>16, <2>1 DEF HeadsKept
<1>19. w = send_rec(s, c, d).k /\ send_rec(s, c, d).r = OK
  BY <1>13, <1>14, <1>15
<1> HIDE <1>4, <1>8, <1>15
<1> QED
  BY <1>6, <1>16, <1>17, <1>18, <1>19 DEF KInv

\* c waits for d to take its message and to answer.
QueuedIs(s, c, d, n) ==
  /\ n \in KernelState
  /\ n.p_priority = s.p_priority /\ n.p_alarm = s.p_alarm
  /\ n.p_pending = s.p_pending /\ n.p_pendcount = s.p_pendcount
  /\ n.sig_procs = s.sig_procs /\ n.panic = s.panic
  /\ n.p_int_blocked = s.p_int_blocked
  /\ n.p_pid = s.p_pid /\ n.user_priority = s.user_priority
  /\ n.mess = s.mess
  /\ n.p_flags = [s.p_flags EXCEPT ![c] = {"SENDING", "RECEIVING"}]
  /\ n.p_getfrom = [s.p_getfrom EXCEPT ![c] = d]
  /\ n.p_sendto = [s.p_sendto EXCEPT ![c] = d]
  /\ n.p_callerq = [s.p_callerq EXCEPT ![d] = Append(s.p_callerq[d], c)]

\* A process that joins the callers of d
LEMMA QueuedBase ==
  ASSUME NEW s, Base(s), NEW c \in UserSlots \cup {MM}, NEW d \in Servers,
         c = MM => d = FS, s.p_flags[c] = {}, ~isemptyp(s, c),
         NEW n, QueuedIs(s, c, d, n)
  PROVE  Base(n)
<1>1. s \in KernelState /\ c \in Procs /\ d \in Procs /\ MM \in Procs /\ FS \in Procs
      /\ IDLE \in Procs /\ HARDWARE \in Procs /\ c \notin {IDLE, HARDWARE, FS} \cup Tasks
  BY ProcFacts DEF Base, Servers, MM, FS
<1>2. PICK F, T, Q : F = s.p_flags /\ T = s.p_sendto /\ Q = s.p_callerq
  OBVIOUS
<1>3. /\ F \in [Procs -> SUBSET Flags] /\ T \in [Procs -> Procs] /\ Q \in [Procs -> Seq(Procs)]
      /\ F[c] = {}
  BY <1>1, <1>2 DEF KernelState
<1>4. /\ n \in KernelState /\ n.p_priority = s.p_priority /\ n.p_alarm = s.p_alarm
      /\ n.p_pending = s.p_pending /\ n.p_pendcount = s.p_pendcount
      /\ n.sig_procs = s.sig_procs /\ n.panic = s.panic
      /\ n.p_flags = [F EXCEPT ![c] = {"SENDING", "RECEIVING"}]
      /\ n.p_sendto = [T EXCEPT ![c] = d]
      /\ n.p_callerq = [Q EXCEPT ![d] = Append(Q[d], c)]
      /\ n.p_getfrom = [s.p_getfrom EXCEPT ![c] = d]
  BY <1>2 DEF QueuedIs
<1>5. Senders(F, T, Q)
  BY <1>2 DEF Base
<1>6. Senders(n.p_flags, n.p_sendto, n.p_callerq)
  <2>1. PICK L : L = Append(Q[d], c)
    OBVIOUS
  <2>2. Distinct(L) /\ \A x : OnList(L, x) <=> OnList(Q[d], x) \/ x = c
    <3>1. Q[d] \in Seq(Procs) /\ ~OnList(Q[d], c) /\ Distinct(Q[d])
      BY <1>1, <1>3, <1>5 DEF Senders
    <3> QED
      BY <1>1, <2>1, <3>1, AppendList
  <2>3. PICK F2, T2, Q2 : /\ F2 = [F EXCEPT ![c] = {"SENDING", "RECEIVING"}]
                          /\ T2 = [T EXCEPT ![c] = d] /\ Q2 = [Q EXCEPT ![d] = L]
    OBVIOUS
  <2>4. /\ F2[c] = {"SENDING", "RECEIVING"} /\ T2[c] = d /\ Q2[d] = L
        /\ \A x \in Procs \ {c} : F2[x] = F[x] /\ T2[x] = T[x]
        /\ \A x \in Procs \ {d} : Q2[x] = Q[x]
    BY <1>1, <1>3, <2>3
  <2>5. \A x \in Procs : Distinct(Q2[x])
    BY <1>5, <2>2, <2>4 DEF Senders
  <2>6. ASSUME NEW x \in Procs, NEW y \in Procs
        PROVE  OnList(Q2[x], y) <=> "SENDING" \in F2[y] /\ T2[y] = x
    <3>1. OnList(Q[x], y) <=> "SENDING" \in F[y] /\ T[y] = x
      BY <1>5 DEF Senders
    <3>2. CASE x = d
      BY <1>3, <2>2, <2>4, <3>1, <3>2
    <3>3. CASE x # d
      BY <1>3, <2>4, <3>1, <3>3
    <3> QED
      BY <3>2, <3>3
  <2>7. Senders(F2, T2, Q2)
    BY <2>5, <2>6 DEF Senders
  <2> QED
    BY <1>4, <2>1, <2>3, <2>7
<1>7. /\ n.p_flags[c] = {"SENDING", "RECEIVING"} /\ n.p_sendto[c] = d /\ n.p_getfrom[c] = d
      /\ \A x \in Procs \ {c} : /\ n.p_flags[x] = s.p_flags[x]
                                /\ n.p_getfrom[x] = s.p_getfrom[x]
                                /\ n.p_sendto[x] = s.p_sendto[x]
  <2>1. s.p_getfrom \in [Procs -> Procs \cup {ANY}]
    BY <1>1 DEF KernelState
  <2> QED
    BY <1>1, <1>2, <1>3, <1>4, <2>1
<1>8. ASSUME NEW u \in UserSlots PROVE UserOK(n, u)
  <2>1. u \in Procs /\ UserOK(s, u)
    BY ProcFacts DEF Base
  <2>2. CASE u # c
    BY <1>4, <1>7, <2>1, <2>2 DEF UserOK, isemptyp
  <2>3. CASE u = c
    BY <1>2, <1>3, <1>4, <1>7, <2>1, <2>3 DEF UserOK, isemptyp
  <2> QED
    BY <2>2, <2>3
<1>9. SystemFlags(n)
  <2>1. SystemFlags(s) /\ Tasks \subseteq Procs
    BY ProcFacts DEF Base
  <2>2. /\ n.p_flags[MM] \in {{}, {"RECEIVING"}, {"SENDING", "RECEIVING"}}
        /\ "SENDING" \in n.p_flags[MM] => n.p_sendto[MM] = FS /\ n.p_getfrom[MM] = FS
    <3>1. CASE c = MM
      BY <1>7, <3>1
    <3>2. CASE c # MM
      BY <1>1, <1>7, <2>1, <3>2 DEF SystemFlags
    <3> QED
      BY <3>1, <3>2
  <2>3. \A t \in Tasks \cup {FS} : n.p_flags[t] \in {{}, {"RECEIVING"}}
    BY <1>1, <1>7, <2>1 DEF SystemFlags
  <2> QED
    BY <1>1, <1>4, <1>7, <2>1, <2>2, <2>3 DEF SystemFlags
<1>10. SigsCounted(n)
  <2>1. \A x \in Slots : x \in Procs
    BY ProcFacts
  <2>2. {x \in Slots : "PENDING" \in n.p_flags[x]} = {x \in Slots : "PENDING" \in s.p_flags[x]}
    <3>1. "PENDING" \notin n.p_flags[c] /\ "PENDING" \notin s.p_flags[c]
      BY <1>7
    <3>2. \A x \in Slots : "PENDING" \in n.p_flags[x] <=> "PENDING" \in s.p_flags[x]
      BY <1>7, <2>1, <3>1
    <3> QED
      BY <3>2
  <2> QED
    BY <1>4, <2>2 DEF Base, SigsCounted
<1> QED
  BY <1>4, <1>6, <1>8, <1>9, <1>10 DEF Base

\* The running process c calls d, which is busy.
LEMMA CallQueues ==
  ASSUME NEW s, KInv(s), NEW c \in UserSlots \cup {MM}, s.proc_ptr = c,
         NEW d \in Servers, c = MM => d = FS,
         ~WaitsForMessageOf(s, d, c)
  PROVE  LET w == send_rec(s, c, d).k
         IN /\ send_rec(s, c, d).r = OK
            /\ QueuedIs(s, c, d, w) /\ KInv(w)
            /\ HeadsKept(s, w, c)
<1>1. /\ Base(s) /\ s \in KernelState /\ Classed(s.p_priority) /\ c \in Procs
      /\ c \in Schedulable /\ d \in Procs /\ d \in Schedulable /\ d \notin UserSlots
      /\ d \notin Tasks /\ c # FS /\ c \notin Tasks
  BY ProcFacts DEF KInv, Base, Servers, MM, FS
<1>2. s.p_flags[c] = {} /\ ~isemptyp(s, c)
  BY <1>1, Running DEF KInv
<1>3. ~isemptyp(s, d) /\ ~(isuserp(s, c) /\ d \notin {MM, FS})
  BY <1>1, Classes DEF Servers
<1>4. c \notin SendChain(s, d)
  <2>1. CASE "SENDING" \notin s.p_flags[d]
    BY <2>1 DEF SendChain
  <2>2. CASE "SENDING" \in s.p_flags[d]
    <3>1. SystemFlags(s)
      BY <1>1 DEF Base
    <3>2. d = MM /\ s.p_sendto[d] = FS /\ "SENDING" \notin s.p_flags[FS]
      BY <2>2, <3>1 DEF SystemFlags, Servers
    <3>3. SendChain(s, d) \subseteq {FS}
      BY <2>2, <3>2, ShortChain
    <3> QED
      BY <1>1, <3>3
  <2> QED
    BY <2>1, <2>2
<1>5. PICK h : h = Halt(s, c)
  OBVIOUS
<1>6. h \in KernelState /\ SameData(s, h)
  <2>1. Lists(s.rdy, Ready(s))
    BY DEF KInv, Scheduled
  <2> QED
    BY <1>1, <1>2, <1>5, <2>1, HaltKeeps
<1>7. PICK L \in Seq(Procs) : L = Append(s.p_callerq[d], c)
  <2>1. s.p_callerq[d] \in Seq(Procs)
    BY <1>1 DEF KernelState
  <2>2. Append(s.p_callerq[d], c) \in Seq(Procs)
    BY <1>1, <2>1, AppendList
  <2> QED
    BY <2>2
<1>8. PICK n1 : n1 = [h EXCEPT !.p_flags[c] = {"SENDING"}, !.p_sendto[c] = d,
                               !.p_callerq[d] = L]
  OBVIOUS
<1>9. mini_send(s, c, d, c) = [k |-> n1, r |-> OK]
  <2>1. mini_send(s, c, d, c) =
          [k |-> [h EXCEPT !.p_flags[c] = @ \cup {"SENDING"}, !.p_sendto[c] = d,
                           !.p_callerq[d] = Append(@, c)], r |-> OK]
    BY <1>3, <1>4, <1>5 DEF mini_send, Halt
  <2>2. h.p_flags[c] = {} /\ h.p_callerq = s.p_callerq
    BY <1>2, <1>6 DEF SameData
  <2>3. [h EXCEPT !.p_flags[c] = @ \cup {"SENDING"}, !.p_sendto[c] = d,
                  !.p_callerq[d] = Append(@, c)]
         = [h EXCEPT !.p_flags[c] = {"SENDING"}, !.p_sendto[c] = d, !.p_callerq[d] = L]
    <3>1. h.p_flags[c] \cup {"SENDING"} = {"SENDING"}
      BY <2>2
    <3>2. Append(h.p_callerq[d], c) = L
      BY <1>7, <2>2
    <3> QED
      BY <3>1, <3>2, <1>6 DEF KernelState
  <2> QED
    BY <1>8, <2>1, <2>3
<1>10. PICK w : w = [h EXCEPT !.p_flags[c] = {"SENDING", "RECEIVING"}, !.p_sendto[c] = d,
                             !.p_callerq[d] = L, !.p_getfrom[c] = d]
  OBVIOUS
<1>11. mini_rec(n1, c, d) = w
  <2>1. n1.p_flags[c] = {"SENDING"}
    BY <1>1, <1>6, <1>8 DEF KernelState
  <2>2. ~MMMustKnow(n1, c, d)
    BY <1>1, ProcFacts DEF MMMustKnow
  <2>3. mini_rec(n1, c, d) = [n1 EXCEPT !.p_getfrom[c] = d, !.p_flags[c] = @ \cup {"RECEIVING"}]
    BY <2>1, <2>2 DEF mini_rec
  <2>4. n1.p_flags[c] \cup {"RECEIVING"} = {"SENDING", "RECEIVING"}
    BY <2>1
  <2>5. [n1 EXCEPT !.p_getfrom[c] = d, !.p_flags[c] = @ \cup {"RECEIVING"}]
        = [n1 EXCEPT !.p_getfrom[c] = d, !.p_flags[c] = {"SENDING", "RECEIVING"}]
    BY <1>1, <1>6, <1>8, <2>4 DEF KernelState
  <2>6. PICK F1, F2, T, Q, G : /\ F1 = [h.p_flags EXCEPT ![c] = {"SENDING"}]
                               /\ F2 = [h.p_flags EXCEPT ![c] = {"SENDING", "RECEIVING"}]
                               /\ T = [h.p_sendto EXCEPT ![c] = d]
                               /\ Q = [h.p_callerq EXCEPT ![d] = L]
                               /\ G = [h.p_getfrom EXCEPT ![c] = d]
    OBVIOUS
  <2>7. n1 = [h EXCEPT !.p_flags = F1, !.p_sendto = T, !.p_callerq = Q]
    BY <1>6, <1>8, <2>6 DEF KernelState
  <2>8. /\ n1.p_flags = F1 /\ n1.p_getfrom = h.p_getfrom
        /\ [F1 EXCEPT ![c] = {"SENDING", "RECEIVING"}] = F2
    BY <1>1, <1>6, <2>6, <2>7 DEF KernelState
  <2>9. [n1 EXCEPT !.p_getfrom[c] = d, !.p_flags[c] = {"SENDING", "RECEIVING"}]
        = [n1 EXCEPT !.p_getfrom = G, !.p_flags = F2]
    BY <1>6, <2>6, <2>7, <2>8 DEF KernelState
  <2>10. w = [h EXCEPT !.p_flags = F2, !.p_sendto = T, !.p_callerq = Q, !.p_getfrom = G]
    BY <1>6, <1>10, <2>6 DEF KernelState
  <2>11. [n1 EXCEPT !.p_getfrom = G, !.p_flags = F2] = w
    BY <1>6, <2>7, <2>10 DEF KernelState
  <2> QED
    BY <2>3, <2>5, <2>9, <2>11
<1>12. QueuedIs(h, c, d, w) /\ w.rdy = h.rdy /\ w.proc_ptr = h.proc_ptr
  <2>1. {"SENDING", "RECEIVING"} \in SUBSET Flags
    BY DEF Flags
  <2>2. h.p_callerq = s.p_callerq
    BY <1>6 DEF SameData
  <2>3. /\ w \in KernelState
        /\ w.p_priority = h.p_priority /\ w.p_alarm = h.p_alarm
        /\ w.p_pending = h.p_pending /\ w.p_pendcount = h.p_pendcount
        /\ w.sig_procs = h.sig_procs /\ w.panic = h.panic
        /\ w.p_int_blocked = h.p_int_blocked
        /\ w.p_pid = h.p_pid /\ w.user_priority = h.user_priority
        /\ w.mess = h.mess
        /\ w.p_flags = [h.p_flags EXCEPT ![c] = {"SENDING", "RECEIVING"}]
        /\ w.p_getfrom = [h.p_getfrom EXCEPT ![c] = d]
        /\ w.p_sendto = [h.p_sendto EXCEPT ![c] = d]
        /\ w.p_callerq = [h.p_callerq EXCEPT ![d] = L]
        /\ w.rdy = h.rdy /\ w.proc_ptr = h.proc_ptr
    BY <1>1, <1>6, <1>10, <2>1 DEF KernelState
  <2> QED
    BY <1>7, <2>2, <2>3 DEF QueuedIs
<1>13. QueuedIs(s, c, d, w)
  BY <1>6, <1>12 DEF QueuedIs, SameData
<1>14. Base(w)
  BY <1>1, <1>2, <1>13, QueuedBase
<1>15. /\ w.p_flags[c] = {"SENDING", "RECEIVING"} /\ w.p_priority = s.p_priority
       /\ \A x \in Procs \ {c} : w.p_flags[x] = s.p_flags[x]
       /\ w.p_getfrom[c] = d /\ \A x \in Procs \ {c} : w.p_getfrom[x] = s.p_getfrom[x]
  <2>1. PICK F, G : F = s.p_flags /\ G = s.p_getfrom
    OBVIOUS
  <2>2. F \in [Procs -> SUBSET Flags] /\ G \in [Procs -> Procs \cup {ANY}] /\ c \in Procs
    BY <1>1, <2>1 DEF KernelState
  <2>3. /\ w.p_flags = [F EXCEPT ![c] = {"SENDING", "RECEIVING"}]
        /\ w.p_getfrom = [G EXCEPT ![c] = d]
        /\ w.p_priority = s.p_priority
    BY <1>13, <2>1 DEF QueuedIs
  <2>4. w.p_flags[c] = {"SENDING", "RECEIVING"} /\ \A x \in Procs \ {c} : w.p_flags[x] = F[x]
    BY <2>2, <2>3
  <2>5. w.p_getfrom[c] = d /\ \A x \in Procs \ {c} : w.p_getfrom[x] = G[x]
    BY <2>2, <2>3
  <2> QED
    BY <2>1, <2>3, <2>4, <2>5
<1>16. Lists(w.rdy, Ready(w)) /\ w.proc_ptr = Top(w.rdy) /\ HeadsKept(s, w, c)
  <2>1. w.p_flags[c] # {} /\ w.p_priority = s.p_priority
    BY <1>15
  <2>2. w.rdy = Halt(s, c).rdy /\ w.proc_ptr = Halt(s, c).proc_ptr
    BY <1>5, <1>12
  <2>3. \A x \in Procs \ {c} : w.p_flags[x] = s.p_flags[x]
    BY <1>15
  <2>4. w \in KernelState /\ s \in KernelState /\ Classed(s.p_priority)
    BY <1>1, <1>14 DEF Base
  <2>5. Lists(s.rdy, Ready(s)) /\ s.proc_ptr = Top(s.rdy)
    BY DEF KInv, Scheduled
  <2> HIDE <1>5, <1>8, <1>10
  <2> QED
    BY <1>1, <1>2, <2>1, <2>2, <2>3, <2>4, <2>5, Block
<1>17. MMHears(w)
  <2>1. w.sig_procs = s.sig_procs /\ MM \in Procs /\ d # ANY
    BY <1>1, <1>13, ProcFacts DEF QueuedIs, Servers
  <2>2. MMHears(s)
    BY DEF KInv
  <2>3. CASE c = MM
    BY <1>15, <2>1, <2>3 DEF MMHears
  <2>4. CASE c # MM
    BY <1>15, <2>1, <2>2, <2>4 DEF MMHears
  <2> QED
    BY <2>3, <2>4
<1>18. w = send_rec(s, c, d).k /\ send_rec(s, c, d).r = OK
  BY <1>9, <1>11 DEF send_rec
<1> HIDE <1>5, <1>8, <1>10
<1> QED
  BY <1>13, <1>14, <1>16, <1>17, <1>18 DEF KInv, Scheduled

\* Who may be queued, and on whom
LEMMA Callers ==
  ASSUME NEW s, Base(s), NEW d \in Procs, NEW c \in Procs, OnList(s.p_callerq[d], c)
  PROVE  /\ c \in UserSlots \cup {MM} /\ d \in Servers /\ ~isemptyp(s, c)
         /\ "SENDING" \in s.p_flags[c] /\ "RECEIVING" \in s.p_flags[c]
         /\ s.p_getfrom[c] = d /\ s.p_sendto[c] = d
         /\ c = MM => d = FS /\ s.p_flags[MM] = {"SENDING", "RECEIVING"}
<1>1. "SENDING" \in s.p_flags[c] /\ s.p_sendto[c] = d
  BY DEF Base, Senders
<1>2. SystemFlags(s) /\ Classed(s.p_priority) /\ FS \in Servers /\ MM \in Servers
  BY DEF Base, Servers
<1>3. c \notin Tasks \cup {FS, IDLE, HARDWARE}
  BY <1>1, <1>2 DEF SystemFlags
<1>4. c \in UserSlots \cup {MM}
  BY <1>3, ProcFacts DEF Servers
<1>5. CASE c = MM
  <2>1. MM \in Schedulable /\ MM \notin UserSlots
    BY ProcFacts DEF Servers
  <2>2. ~isemptyp(s, MM)
    BY <1>2, <2>1, Classes
  <2>3. s.p_flags[MM] = {"SENDING", "RECEIVING"} /\ d = FS /\ s.p_getfrom[MM] = FS
    BY <1>1, <1>2, <1>5 DEF SystemFlags
  <2> QED
    BY <1>1, <1>2, <1>5, <2>2, <2>3
<1>6. CASE c \in UserSlots
  <2>1. UserOK(s, c) /\ c # MM
    BY <1>6, ProcFacts DEF Base, Servers
  <2> QED
    BY <1>1, <1>6, <2>1 DEF UserOK
<1> QED
  BY <1>4, <1>5, <1>6

\* Nobody is queued on a task.
LEMMA NoCallers ==
  ASSUME NEW s, Base(s), NEW t \in Tasks
  PROVE  s.p_callerq[t] = << >>
<1>1. t \in Procs /\ t \notin Servers /\ s.p_callerq[t] \in Seq(Procs)
  BY ProcFacts DEF Base, KernelState
<1>2. ASSUME s.p_callerq[t] # << >> PROVE FALSE
  <2>1. Head(s.p_callerq[t]) \in Procs /\ OnList(s.p_callerq[t], Head(s.p_callerq[t]))
    BY <1>1, <1>2, HeadInSeq
  <2> QED
    BY <1>1, <2>1, Callers
<1> QED
  BY <1>2

\* c has taken the message of p, the first of its callers.
TakenIs(s, c, p, n) ==
  /\ n \in KernelState
  /\ n.p_priority = s.p_priority /\ n.p_alarm = s.p_alarm
  /\ n.p_pending = s.p_pending /\ n.p_pendcount = s.p_pendcount
  /\ n.sig_procs = s.sig_procs /\ n.panic = s.panic
  /\ n.p_int_blocked = s.p_int_blocked
  /\ n.p_pid = s.p_pid /\ n.user_priority = s.user_priority
  /\ n.p_getfrom = s.p_getfrom /\ n.p_sendto = s.p_sendto
  /\ n.rdy = s.rdy /\ n.proc_ptr = s.proc_ptr
  /\ n.mess = [s.mess EXCEPT ![c] = [s.mess[p] EXCEPT !.src = p]]
  /\ n.p_flags = [s.p_flags EXCEPT ![p] = s.p_flags[p] \ {"SENDING"}]
  /\ n.p_callerq = [s.p_callerq EXCEPT ![c] = RemoveIndex(s.p_callerq[c], 1)]

\* A process that leaves the callers of c
LEMMA TakenBase ==
  ASSUME NEW s, Base(s), NEW c \in Servers, s.p_callerq[c] # << >>,
         NEW p, p = Head(s.p_callerq[c]), NEW n, TakenIs(s, c, p, n)
  PROVE  Base(n) /\ Ready(n) = Ready(s)
<1>1. s \in KernelState /\ c \in Procs /\ MM \in Procs /\ FS \in Procs
      /\ IDLE \in Procs /\ HARDWARE \in Procs /\ Tasks \subseteq Procs
  BY ProcFacts DEF Base, Servers, MM, FS
<1>2. PICK F, T, Q : F = s.p_flags /\ T = s.p_sendto /\ Q = s.p_callerq
  OBVIOUS
<1>3. F \in [Procs -> SUBSET Flags] /\ T \in [Procs -> Procs] /\ Q \in [Procs -> Seq(Procs)]
  BY <1>1, <1>2 DEF KernelState
<1>4. Q[c] \in Seq(Procs) /\ Q[c] # << >> /\ p = Head(Q[c])
  BY <1>1, <1>2, <1>3
<1>5. p \in Procs /\ OnList(Q[c], p) /\ p = Q[c][1] /\ 1 \in DOMAIN Q[c]
  <2>1. Head(Q[c]) = Q[c][1] /\ 1 \in DOMAIN Q[c]
    BY <1>4
  <2> QED
    BY <1>4, <2>1, HeadInSeq
<1>6. /\ p \in UserSlots \cup {MM} /\ "RECEIVING" \in F[p] /\ T[p] = c /\ ~isemptyp(s, p)
      /\ p = MM => c = FS /\ F[MM] = {"SENDING", "RECEIVING"}
  BY <1>1, <1>2, <1>5, Callers
<1>7. /\ n \in KernelState /\ n.p_priority = s.p_priority /\ n.p_alarm = s.p_alarm
      /\ n.p_pending = s.p_pending /\ n.p_pendcount = s.p_pendcount
      /\ n.sig_procs = s.sig_procs /\ n.panic = s.panic
      /\ n.p_getfrom = s.p_getfrom /\ n.p_sendto = T
      /\ n.p_flags = [F EXCEPT ![p] = F[p] \ {"SENDING"}]
      /\ n.p_callerq = [Q EXCEPT ![c] = RemoveIndex(Q[c], 1)]
  BY <1>2 DEF TakenIs
<1>8. Senders(F, T, Q)
  BY <1>2 DEF Base
<1>9. PICK L : L = RemoveIndex(Q[c], 1)
  OBVIOUS
<1>10. Distinct(L) /\ \A x : OnList(L, x) <=> OnList(Q[c], x) /\ x # p
  <2>1. Distinct(Q[c])
    BY <1>1, <1>8 DEF Senders
  <2> QED
    BY <1>4, <1>5, <1>9, <2>1, RemoveIndexList
<1>11. PICK F2, Q2 : F2 = n.p_flags /\ Q2 = n.p_callerq
  OBVIOUS
<1>12. /\ F2[p] = F[p] \ {"SENDING"} /\ Q2[c] = L
       /\ \A x \in Procs \ {p} : F2[x] = F[x]
       /\ \A x \in Procs \ {c} : Q2[x] = Q[x]
  BY <1>1, <1>3, <1>5, <1>7, <1>9, <1>11
<1>13. Senders(n.p_flags, n.p_sendto, n.p_callerq)
  <2>1. \A x \in Procs : Distinct(Q2[x])
    BY <1>8, <1>10, <1>12 DEF Senders
  <2>2. ASSUME NEW x \in Procs, NEW y \in Procs
        PROVE  OnList(Q2[x], y) <=> "SENDING" \in F2[y] /\ T[y] = x
    <3>1. OnList(Q[x], y) <=> "SENDING" \in F[y] /\ T[y] = x
      BY <1>8 DEF Senders
    <3>2. CASE x = c
      BY <1>6, <1>10, <1>12, <3>1, <3>2
    <3>3. CASE x # c
      BY <1>6, <1>12, <3>1, <3>3
    <3> QED
      BY <3>2, <3>3
  <2> QED
    BY <1>7, <1>11, <2>1, <2>2 DEF Senders
<1>14. ASSUME NEW u \in UserSlots PROVE UserOK(n, u)
  <2>1. u \in Procs /\ UserOK(s, u)
    BY ProcFacts DEF Base
  <2>2. /\ n.p_priority = s.p_priority /\ n.p_alarm = s.p_alarm
        /\ n.p_pending = s.p_pending /\ n.p_pendcount = s.p_pendcount
        /\ n.p_getfrom = s.p_getfrom /\ n.p_sendto = s.p_sendto
        /\ n.p_flags = F2 /\ s.p_flags = F
    BY <1>2, <1>7, <1>11
  <2>3. /\ F[u] = {} => F2[u] = {}
        /\ \A f \in {"RECEIVING", "PENDING", "SIG_PENDING"} : f \in F2[u] <=> f \in F[u]
        /\ "SENDING" \in F2[u] => "SENDING" \in F[u]
    BY <1>12, <2>1
  <2> HIDE <1>2, <1>7, <1>11
  <2> QED
    BY <2>1, <2>2, <2>3 DEF UserOK, isemptyp
<1>15. SystemFlags(n)
  <2>1. SystemFlags(s)
    BY DEF Base
  <2>2. p \notin Tasks \cup {FS, IDLE, HARDWARE}
    BY <1>6, ProcFacts DEF Servers, MM, FS
  <2>3. \A t \in Tasks \cup {FS, IDLE, HARDWARE} : F2[t] = F[t]
    BY <1>1, <1>12, <2>2
  <2>4. /\ F2[MM] \in {{}, {"RECEIVING"}, {"SENDING", "RECEIVING"}}
        /\ "SENDING" \in F2[MM] => "SENDING" \in F[MM]
    <3>1. CASE p = MM
      BY <1>6, <1>12, <3>1
    <3>2. CASE p # MM
      BY <1>1, <1>2, <1>12, <2>1, <3>2 DEF SystemFlags
    <3> QED
      BY <3>1, <3>2
  <2> QED
    <3>1. /\ n.p_flags = F2 /\ s.p_flags = F /\ n.p_sendto = s.p_sendto
          /\ n.p_getfrom = s.p_getfrom /\ n.p_pending = s.p_pending /\ n.p_alarm = s.p_alarm
      BY <1>2, <1>7, <1>11
    <3> HIDE <1>2, <1>7, <1>11
    <3>2. /\ F2[IDLE] = {} /\ F2[HARDWARE] = {}
          /\ \A t \in Tasks \cup {FS} : F2[t] \in {{}, {"RECEIVING"}}
      BY <2>1, <2>3, <3>1 DEF SystemFlags
    <3>3. "SENDING" \in F2[MM] => s.p_sendto[MM] = FS /\ s.p_getfrom[MM] = FS
      BY <2>1, <2>4, <3>1 DEF SystemFlags
    <3>4. \A v \in Servers : s.p_pending[v] = {} /\ s.p_alarm[v] = 0
      BY <2>1 DEF SystemFlags
    <3> QED
      BY <2>4, <3>1, <3>2, <3>3, <3>4 DEF SystemFlags
<1>16. SigsCounted(n)
  <2>1. \A x \in Slots : x \in Procs
    BY ProcFacts
  <2>2. \A x \in Slots : "PENDING" \in F2[x] <=> "PENDING" \in F[x]
    BY <1>12, <2>1
  <2>3. {x \in Slots : "PENDING" \in n.p_flags[x]} = {x \in Slots : "PENDING" \in s.p_flags[x]}
    BY <1>2, <1>11, <2>2
  <2> QED
    BY <1>7, <2>3 DEF Base, SigsCounted
<1>17. Ready(n) = Ready(s)
  <2>1. \A x \in Schedulable : F2[x] = {} <=> F[x] = {}
    BY <1>6, <1>12, ProcFacts
  <2> QED
    BY <1>2, <1>7, <1>11, <2>1 DEF Ready, isemptyp
<1> QED
  BY <1>7, <1>13, <1>14, <1>15, <1>16, <1>17 DEF Base

\* A server that receives takes the message of its first caller.
LEMMA RecvTakes ==
  ASSUME NEW s, KInv(s), NEW c \in Servers, s.p_flags[c] = {}, s.p_callerq[c] # << >>
  PROVE  LET p == Head(s.p_callerq[c])
             w == mini_rec(s, c, ANY)
         IN TakenIs(s, c, p, w) /\ KInv(w)
<1>1. /\ Base(s) /\ s \in KernelState /\ Classed(s.p_priority) /\ c \in Procs
      /\ s.p_callerq[c] \in Seq(Procs)
  BY ProcFacts DEF KInv, Base, KernelState
<1>2. PICK Q \in Seq(Procs) : Q = s.p_callerq[c]
  BY <1>1
<1>3. PICK p : p = Q[1]
  OBVIOUS
<1>4. p = Head(Q) /\ p \in Procs /\ OnList(Q, p) /\ 1 \in DOMAIN Q /\ DOMAIN Q \subseteq Nat
      /\ \A i \in DOMAIN Q : 1 <= i
  <2>1. Q # << >>
    BY <1>2
  <2> QED
    BY <1>2, <1>3, <2>1, HeadInSeq
<1>5. {i \in DOMAIN Q : ANY \in {ANY, Q[i]}} = DOMAIN Q
  OBVIOUS
<1>6. Least(DOMAIN Q) = 1
  <2>1. Least(DOMAIN Q) \in DOMAIN Q /\ Least(DOMAIN Q) <= 1
    <3>1. \E x \in DOMAIN Q : \A y \in DOMAIN Q : x <= y
      BY <1>4
    <3> QED
      BY <1>4, <3>1 DEF Least
  <2> QED
    BY <1>4, <2>1
<1>7. PICK m \in Mess : m = [s.mess[p] EXCEPT !.src = p]
  <2>1. s.mess[p] \in Mess
    BY <1>1, <1>4 DEF KernelState
  <2> QED
    BY <1>4, <2>1 DEF Mess
<1>8. PICK L \in Seq(Procs) : L = RemoveIndex(Q, 1)
  BY <1>4, RemoveIndexList
<1>9. PICK f \in SUBSET Flags : f = s.p_flags[p] \ {"SENDING"}
  BY <1>1, <1>4 DEF KernelState
<1>10. PICK w : w = [s EXCEPT !.mess[c] = m, !.p_callerq[c] = L, !.p_flags[p] = f]
  OBVIOUS
<1>11. /\ "RECEIVING" \in s.p_flags[p] /\ "RECEIVING" \in f
  BY <1>1, <1>2, <1>4, <1>9, Callers
<1>12. w \in KernelState /\ w.p_flags[p] = f
  BY <1>1, <1>4, <1>10 DEF KernelState
<1>13. mini_rec(s, c, ANY) = w
  <2>1. [s EXCEPT !.mess[c] = [s.mess[p] EXCEPT !.src = p],
                  !.p_callerq[c] = RemoveIndex(@, 1),
                  !.p_flags[p] = @ \ {"SENDING"}] = w
    BY <1>1, <1>2, <1>4, <1>7, <1>8, <1>9, <1>10 DEF KernelState
  <2>2. "SENDING" \notin s.p_flags[c] /\ DOMAIN Q # {}
    BY <1>4
  <2> QED
    BY <1>2, <1>3, <1>5, <1>6, <1>11, <1>12, <2>1, <2>2 DEF mini_rec
<1>14. TakenIs(s, c, p, w)
  <2>1. /\ w.p_priority = s.p_priority /\ w.p_alarm = s.p_alarm
        /\ w.p_pending = s.p_pending /\ w.p_pendcount = s.p_pendcount
        /\ w.sig_procs = s.sig_procs /\ w.panic = s.panic
        /\ w.p_int_blocked = s.p_int_blocked
        /\ w.p_pid = s.p_pid /\ w.user_priority = s.user_priority
        /\ w.p_getfrom = s.p_getfrom /\ w.p_sendto = s.p_sendto
        /\ w.rdy = s.rdy /\ w.proc_ptr = s.proc_ptr
        /\ w.mess = [s.mess EXCEPT ![c] = m]
        /\ w.p_flags = [s.p_flags EXCEPT ![p] = f]
        /\ w.p_callerq = [s.p_callerq EXCEPT ![c] = L]
    BY <1>1, <1>10 DEF KernelState
  <2> QED
    BY <1>2, <1>7, <1>8, <1>9, <1>12, <2>1 DEF TakenIs
<1>15. p = Head(s.p_callerq[c])
  BY <1>2, <1>4
<1>16. Base(w) /\ Ready(w) = Ready(s)
  BY <1>1, <1>14, <1>15, TakenBase
<1>17. MMHears(w)
  <2>1. p # MM => w.p_flags[MM] = s.p_flags[MM]
    <3>1. MM \in Procs
      BY ProcFacts DEF Servers
    <3> QED
      BY <1>1, <1>4, <1>14, <3>1 DEF TakenIs, KernelState
  <2>2. p = MM => w.p_getfrom[MM] # ANY
    <3>1. p = MM => s.p_getfrom[MM] = c
      BY <1>1, <1>2, <1>4, Callers
    <3> QED
      BY <1>1, <1>14, <3>1, ProcFacts DEF TakenIs
  <2>3. w.sig_procs = s.sig_procs /\ w.p_getfrom = s.p_getfrom
    BY <1>14 DEF TakenIs
  <2> QED
    BY <2>1, <2>2, <2>3 DEF KInv, MMHears
<1>18. Scheduled(w)
  BY <1>14, <1>16 DEF TakenIs, KInv, Scheduled
<1> HIDE <1>10
<1> QED
  BY <1>13, <1>14, <1>15, <1>16, <1>17, <1>18 DEF KInv

\* A task or server that finds no message blocks.
LEMMA RecvWaits ==
  ASSUME NEW s, KInv(s), NEW c \in Tasks \cup Servers, s.proc_ptr = c,
         s.p_callerq[c] = << >>, NEW src \in {ANY, HARDWARE},
         ~TakesInterrupt(s, c, src), ~(c = MM /\ src = ANY /\ s.sig_procs > 0)
  PROVE  LET w == mini_rec(s, c, src)
         IN WaitingIs(s, c, src, w) /\ KInv(w) /\ HeadsKept(s, w, c)
<1>1. /\ Base(s) /\ s \in KernelState /\ c \in Schedulable /\ c \notin UserSlots
      /\ src \in Procs \cup {ANY} /\ Lists(s.rdy, Ready(s)) /\ MMHears(s)
      /\ Scheduled(s) /\ s.proc_ptr = Top(s.rdy)
  BY ProcFacts DEF KInv, Base, Scheduled
<1>2. s.p_flags[c] = {} /\ ~isemptyp(s, c)
  BY <1>1, Running
<1>3. mini_rec(s, c, src) = Waiting(Halt(s, c), c, src)
  <2>1. {i \in DOMAIN s.p_callerq[c] : src \in {ANY, s.p_callerq[c][i]}} = {}
    OBVIOUS
  <2>2. ~MMMustKnow(s, c, src)
    BY DEF MMMustKnow
  <2> QED
    BY <2>1, <2>2 DEF mini_rec, Waiting, Halt
<1>4. PICK w : w = Waiting(Halt(s, c), c, src)
  OBVIOUS
<1>5. /\ WaitingIs(s, c, src, w) /\ Base(w)
      /\ Scheduled(w) /\ HeadsKept(s, w, c) /\ MMHears(w)
  BY <1>1, <1>2, <1>4, StartsWaiting
<1> HIDE <1>4
<1> QED
  BY <1>3, <1>4, <1>5 DEF KInv

\* A task has the message of an interrupt.
HardIs(s, t, f, n) ==
  /\ n \in KernelState /\ SameSignals(s, n)
  /\ n.p_getfrom = s.p_getfrom /\ n.p_pid = s.p_pid
  /\ n.user_priority = s.user_priority
  /\ n.mess = [s.mess EXCEPT ![t] = Message("HARD_INT", 0, 0, 0)]
  /\ n.p_int_blocked = [s.p_int_blocked EXCEPT ![t] = FALSE]
  /\ n.p_flags = [s.p_flags EXCEPT ![t] = f]

\* The interrupt that came while a task was busy is the next message it receives.
LEMMA RecvHard ==
  ASSUME NEW s, KInv(s), NEW t \in Tasks, s.p_flags[t] = {}, s.p_int_blocked[t]
  PROVE  LET w == mini_rec(s, t, ANY)
         IN HardIs(s, t, {}, w) /\ KInv(w) /\ w.rdy = s.rdy /\ w.proc_ptr = s.proc_ptr
<1>1. Base(s) /\ s \in KernelState /\ t \in Procs /\ t \in Schedulable
  BY ProcFacts DEF KInv, Base
<1>2. PICK m \in Mess : m = Message("HARD_INT", 0, 0, 0)
  <2>1. "HARD_INT" \in MessTypes
    BY DEF MessTypes
  <2>2. Message("HARD_INT", 0, 0, 0) \in Mess
    BY <2>1, MessageTyped
  <2> QED
    BY <2>2
<1>3. mini_rec(s, t, ANY) = [s EXCEPT !.mess[t] = m, !.p_int_blocked[t] = FALSE]
  <2>1. {i \in DOMAIN s.p_callerq[t] : ANY \in {ANY, s.p_callerq[t][i]}} = {}
    BY NoCallers, <1>1
  <2>2. TakesInterrupt(s, t, ANY)
    BY DEF TakesInterrupt
  <2> QED
    BY <1>2, <2>1, <2>2 DEF mini_rec
<1>4. PICK w : w = [s EXCEPT !.mess[t] = m, !.p_int_blocked[t] = FALSE]
  OBVIOUS
<1>5. /\ w \in KernelState /\ SameSignals(s, w)
      /\ w.p_getfrom = s.p_getfrom /\ w.p_pid = s.p_pid
      /\ w.user_priority = s.user_priority
      /\ w.mess = [s.mess EXCEPT ![t] = m]
      /\ w.p_int_blocked = [s.p_int_blocked EXCEPT ![t] = FALSE]
      /\ w.p_flags = s.p_flags /\ w.rdy = s.rdy /\ w.proc_ptr = s.proc_ptr
  BY <1>1, <1>4 DEF KernelState, SameSignals
<1>6. s.p_flags = [s.p_flags EXCEPT ![t] = {}]
  <2>1. s.p_flags \in [Procs -> SUBSET Flags]
    BY <1>1 DEF KernelState
  <2> QED
    BY <1>1, <2>1
<1>7. HardIs(s, t, {}, w)
  BY <1>2, <1>5, <1>6 DEF HardIs
<1>8. Base(w)
  <2>1. t \notin UserSlots
    BY ProcFacts
  <2>2. \A f \in {"SENDING", "PENDING", "SIG_PENDING"} :
           f \in w.p_flags[t] <=> f \in s.p_flags[t]
    BY <1>5
  <2>3. w.p_flags[t] \in {{}, {"RECEIVING"}}
    BY <1>5
  <2> HIDE <1>2, <1>4
  <2> QED
    BY <1>1, <1>5, <2>1, <2>2, <2>3, BaseStep
<1>9. MMHears(w)
  BY <1>5 DEF KInv, MMHears, SameSignals
<1>10. Scheduled(w)
  <2>1. Ready(w) = Ready(s)
    BY <1>5 DEF Ready, isemptyp, SameSignals
  <2> QED
    BY <1>5, <2>1 DEF KInv, Scheduled
<1> HIDE <1>4
<1> QED
  BY <1>3, <1>4, <1>5, <1>7, <1>8, <1>9, <1>10 DEF KInv

\* An interrupt for a task that waits for it
LEMMA Interrupted ==
  ASSUME NEW s, KInv(s), NEW t \in Tasks, s.p_flags[t] = {"RECEIVING"},
         s.p_getfrom[t] \in {ANY, HARDWARE}
  PROVE  LET w == interrupt(s, t)
         IN HardIs(s, t, {}, w) /\ KInv(w) /\ HeadsKept(s, w, HARDWARE)
<1>1. /\ Base(s) /\ s \in KernelState /\ t \in Procs /\ t \in Schedulable /\ t \notin UserSlots
      /\ Classed(s.p_priority) /\ Lists(s.rdy, Ready(s))
  BY ProcFacts DEF KInv, Base, Scheduled
<1>2. PICK m \in Mess : m = Message("HARD_INT", 0, 0, 0)
  <2>1. "HARD_INT" \in MessTypes
    BY DEF MessTypes
  <2>2. Message("HARD_INT", 0, 0, 0) \in Mess
    BY <2>1, MessageTyped
  <2> QED
    BY <2>2
<1>3. PICK k1 : k1 = [s EXCEPT !.mess[t] = m, !.p_flags[t] = {}, !.p_int_blocked[t] = FALSE]
  OBVIOUS
<1>4. /\ k1 \in KernelState /\ SameSignals(s, k1)
      /\ k1.p_getfrom = s.p_getfrom /\ k1.p_pid = s.p_pid
      /\ k1.user_priority = s.user_priority
      /\ k1.mess = [s.mess EXCEPT ![t] = m]
      /\ k1.p_int_blocked = [s.p_int_blocked EXCEPT ![t] = FALSE]
      /\ k1.p_flags = [s.p_flags EXCEPT ![t] = {}]
      /\ k1.rdy = s.rdy /\ k1.proc_ptr = s.proc_ptr
  BY <1>1, <1>3 DEF KernelState, SameSignals
<1>5. HardIs(s, t, {}, k1)
  BY <1>2, <1>4 DEF HardIs
<1>6. /\ k1.p_flags[t] = {} /\ (\A x \in Procs \ {t} : k1.p_flags[x] = s.p_flags[x])
      /\ k1.p_priority = s.p_priority
  BY <1>1, <1>4 DEF KernelState, SameSignals
<1>7. istaskp(s, t) /\ istaskp(k1, t) /\ Class(t) = TASK_Q
  BY <1>1, <1>6 DEF Classed, istaskp, Class
<1>8. interrupt(s, t) = Wake(k1, t)
  <2>1. s.p_flags[t] \ {"RECEIVING"} = {} /\ s.p_flags[t] \cap {"RECEIVING", "SENDING"} = {"RECEIVING"}
    OBVIOUS
  <2>2. interrupt(s, t) =
          [s EXCEPT !.mess[t] = m, !.p_flags[t] = @ \ {"RECEIVING"},
                    !.p_int_blocked[t] = FALSE, !.rdy[TASK_Q] = Append(@, t),
                    !.proc_ptr = IF s.rdy[TASK_Q] = << >> THEN t ELSE @]
    BY <1>2, <2>1 DEF interrupt
  <2>3. PICK L : L = Append(s.rdy[TASK_Q], t)
    OBVIOUS
  <2>4. PICK x : x = IF s.rdy[TASK_Q] = << >> THEN t ELSE s.proc_ptr
    OBVIOUS
  <2>5. interrupt(s, t) =
          [s EXCEPT !.mess[t] = m, !.p_flags[t] = {},
                    !.p_int_blocked[t] = FALSE, !.rdy[TASK_Q] = L,
                    !.proc_ptr = x]
    BY <1>1, <2>1, <2>2, <2>3, <2>4 DEF KernelState
  <2>6. Wake(k1, t) = ready(k1, t) /\ QueueOf(k1, t) = TASK_Q
    BY <1>6, <1>7 DEF Wake, QueueOf
  <2>7. ready(k1, t) = [k1 EXCEPT !.rdy[TASK_Q] = L, !.proc_ptr = x]
    <3>1. TASK_Q # USER_Q
      BY DEF TASK_Q, USER_Q
    <3>2. ready(k1, t) = [k1 EXCEPT
        !.rdy[TASK_Q] = Append(@, t),
        !.proc_ptr = IF k1.rdy[TASK_Q] = << >> THEN t ELSE @]
      BY <2>6, <3>1 DEF ready
    <3> QED
      BY <1>4, <2>3, <2>4, <3>2 DEF KernelState
  <2>8. [k1 EXCEPT !.rdy[TASK_Q] = L, !.proc_ptr = x] =
          [s EXCEPT !.mess[t] = m, !.p_flags[t] = {},
                    !.p_int_blocked[t] = FALSE, !.rdy[TASK_Q] = L,
                    !.proc_ptr = x]
    BY <1>1, <1>3 DEF KernelState
  <2> QED
    BY <2>5, <2>6, <2>7, <2>8
<1>9. PICK w : w = Wake(k1, t)
  OBVIOUS
<1>10. ~isemptyp(k1, t)
  BY <1>7 DEF istaskp, isemptyp, PPRI_TASK, PPRI_NONE
<1>11. /\ w \in KernelState /\ SameData(k1, w)
       /\ Lists(w.rdy, Ready(w)) /\ HeadsKept(s, w, HARDWARE)
       /\ w.proc_ptr = Top(w.rdy)
  <2>1. k1.proc_ptr = Top(s.rdy) /\ NeverFirst(s.rdy, t)
    BY <1>4, <1>7 DEF KInv, Scheduled, NeverFirst
  <2>2. s.p_flags[t] # {} /\ k1.rdy = s.rdy /\ k1 \in KernelState
    BY <1>4
  <2> HIDE <1>2, <1>3, <1>8
  <2> QED
    BY <1>1, <1>6, <1>9, <1>10, <2>1, <2>2, Unblock
<1>12. Base(k1)
  <2>1. \A f \in {"SENDING", "PENDING", "SIG_PENDING"} :
           f \in k1.p_flags[t] <=> f \in s.p_flags[t]
    BY <1>6
  <2>2. k1.p_flags[t] \in {{}, {"RECEIVING"}}
    BY <1>6
  <2> HIDE <1>2, <1>3, <1>8
  <2> QED
    BY <1>1, <1>4, <1>6, <2>1, <2>2, BaseStep
<1>13. MMHears(k1)
  <2>1. MM \in Procs \ {t}
    BY ProcFacts DEF Servers
  <2> QED
    BY <1>4, <1>6, <2>1 DEF KInv, MMHears, SameSignals
<1>14. Base(w) /\ MMHears(w)
  BY <1>11, <1>12, <1>13, BaseSame
<1>15. HardIs(s, t, {}, w)
  BY <1>5, <1>11 DEF HardIs, SameData, SameSignals
<1> HIDE <1>2, <1>3, <1>9
<1> QED
  BY <1>8, <1>9, <1>11, <1>14, <1>15 DEF KInv, Scheduled

\* An interrupt for a task that is busy is remembered.
LEMMA InterruptHeld ==
  ASSUME NEW s, KInv(s), NEW t \in Tasks,
         \/ s.p_flags[t] # {"RECEIVING"}
         \/ s.p_getfrom[t] \notin {ANY, HARDWARE}
  PROVE  LET w == interrupt(s, t)
         IN /\ KInv(w) /\ SameSignals(s, w)
            /\ w.p_flags = s.p_flags /\ w.p_getfrom = s.p_getfrom /\ w.p_pid = s.p_pid
            /\ w.user_priority = s.user_priority /\ w.mess = s.mess
            /\ w.p_int_blocked = [s.p_int_blocked EXCEPT ![t] = TRUE]
            /\ w.rdy = s.rdy /\ w.proc_ptr = s.proc_ptr
<1>1. Base(s) /\ s \in KernelState /\ t \in Schedulable /\ t \in Procs
  BY ProcFacts DEF KInv, Base
<1>2. PICK w : w = [s EXCEPT !.p_int_blocked[t] = TRUE]
  OBVIOUS
<1>3. interrupt(s, t) = w
  <2>1. s.p_flags[t] \in {{}, {"RECEIVING"}}
    BY <1>1 DEF Base, SystemFlags
  <2> QED
    BY <1>2, <2>1 DEF interrupt
<1>4. /\ w \in KernelState /\ SameSignals(s, w)
      /\ w.p_flags = s.p_flags /\ w.p_getfrom = s.p_getfrom /\ w.p_pid = s.p_pid
      /\ w.user_priority = s.user_priority /\ w.mess = s.mess
      /\ w.p_int_blocked = [s.p_int_blocked EXCEPT ![t] = TRUE]
      /\ w.rdy = s.rdy /\ w.proc_ptr = s.proc_ptr
  BY <1>1, <1>2 DEF KernelState, SameSignals
<1>5. Base(w)
  <2>1. /\ \A f \in {"SENDING", "PENDING", "SIG_PENDING"} :
             f \in w.p_flags[t] <=> f \in s.p_flags[t]
        /\ w.p_flags[t] \in {{}, {"RECEIVING"}} /\ t \notin UserSlots
    BY <1>1, <1>4, ProcFacts DEF Base, SystemFlags
  <2> HIDE <1>2, <1>3
  <2> QED
    BY <1>1, <1>4, <2>1, BaseStep
<1>6. MMHears(w) /\ Scheduled(w)
  <2>1. Ready(w) = Ready(s)
    BY <1>4 DEF Ready, isemptyp, SameSignals
  <2> QED
    BY <1>4, <2>1 DEF KInv, Scheduled, MMHears, SameSignals
<1> HIDE <1>2
<1> QED
  BY <1>3, <1>4, <1>5, <1>6 DEF KInv

\* The slots whose process has signals MM has not been told of
Pend(s) == {p \in Slots : "PENDING" \in s.p_flags[p]}

\* They are users'.
LEMMA PendUsers ==
  ASSUME NEW s, Base(s)
  PROVE  Pend(s) \subseteq UserSlots /\ IsFiniteSet(Pend(s)) /\ Pend(s) \subseteq Nat
         /\ (s.sig_procs > 0 => Pend(s) # {}) /\ s.sig_procs \in Nat
<1>1. Slots \subseteq Nat /\ IsFiniteSet(Slots)
  <2>1. NR_PROCS \in Nat
    BY ProcAssumption
  <2>2. 0..(NR_PROCS - 1) \subseteq Nat
    BY <2>1
  <2>3. IsFiniteSet(0..(NR_PROCS - 1))
    BY <2>1, FS_Interval
  <2> QED
    BY <2>2, <2>3 DEF Slots
<1>2. \A v \in Servers : "PENDING" \notin s.p_flags[v]
  BY DEF Base, SystemFlags, Servers
<1>3. Pend(s) \subseteq UserSlots
  BY <1>2, ProcFacts DEF Pend
<1>4. Pend(s) \subseteq Slots /\ s.sig_procs = Cardinality(Pend(s))
  BY DEF Pend, Base, SigsCounted
<1>5. IsFiniteSet(Pend(s))
  BY <1>1, <1>4, FS_Subset
<1>6. s.sig_procs > 0 => Pend(s) # {}
  BY <1>4, FS_EmptySet
<1>7. s.sig_procs \in Nat
  BY <1>4, <1>5, FS_CardinalityType
<1> QED
  BY <1>1, <1>3, <1>4, <1>5, <1>6, <1>7

\* MM has the message that p has signals.
InformedIs(s, p, n) ==
  /\ n \in KernelState /\ p \in UserSlots /\ "PENDING" \in s.p_flags[p]
  /\ n.p_priority = s.p_priority /\ n.p_sendto = s.p_sendto
  /\ n.p_callerq = s.p_callerq /\ n.p_alarm = s.p_alarm
  /\ n.p_pendcount = s.p_pendcount /\ n.panic = s.panic
  /\ n.p_getfrom = s.p_getfrom /\ n.p_int_blocked = s.p_int_blocked
  /\ n.p_pid = s.p_pid /\ n.user_priority = s.user_priority
  /\ n.sig_procs = s.sig_procs - 1
  /\ n.p_pending = [s.p_pending EXCEPT ![p] = {}]
  /\ n.p_flags = [s.p_flags EXCEPT ![MM] = {}, ![p] = s.p_flags[p] \ {"PENDING"}]
  /\ n.mess[SYSTASK].src = s.mess[SYSTASK].src
  /\ n.mess[MM].type = "KSIG" /\ n.mess[MM].i1 = p /\ n.mess[MM].map = s.p_pending[p]
  /\ \A x \in Procs \ {MM, SYSTASK} : n.mess[x] = s.mess[x]

\* The signals of p, counted or in MM's message, stay accounted for.
LEMMA InformedBase ==
  ASSUME NEW s, Base(s), s.p_flags[MM] = {"RECEIVING"}, NEW p, NEW n, InformedIs(s, p, n)
  PROVE  Base(n) /\ n.p_flags[MM] = {} /\ n.p_flags[p] = s.p_flags[p] \ {"PENDING"}
         /\ n.p_flags[p] # {}
         /\ \A x \in Procs \ {MM, p} : n.p_flags[x] = s.p_flags[x]
<1>1. /\ s \in KernelState /\ p \in UserSlots /\ p \in Procs /\ p \in Slots /\ MM \in Procs
      /\ MM \notin UserSlots /\ MM # p /\ FS \in Procs /\ FS \notin UserSlots /\ FS # MM
      /\ IDLE \in Procs /\ HARDWARE \in Procs /\ IDLE \notin Slots /\ HARDWARE \notin Slots
      /\ Tasks \subseteq Procs /\ Tasks \cap Slots = {} /\ MM \in Slots
  BY ProcFacts DEF Base, InformedIs, Servers, MM, FS
<1>2. PICK F, D : F = s.p_flags /\ D = s.p_pending
  OBVIOUS
<1>3. F \in [Procs -> SUBSET Flags] /\ D \in [Slots -> SUBSET Signals]
  BY <1>1, <1>2 DEF KernelState
<1>4. PICK F2, D2 : F2 = n.p_flags /\ D2 = n.p_pending
  OBVIOUS
<1>5. /\ F2[MM] = {} /\ F2[p] = F[p] \ {"PENDING"}
      /\ \A x \in Procs \ {MM, p} : F2[x] = F[x]
      /\ D2[p] = {} /\ \A x \in Slots \ {p} : D2[x] = D[x]
  BY <1>1, <1>2, <1>3, <1>4 DEF InformedIs
<1>6. /\ n.p_priority = s.p_priority /\ n.p_sendto = s.p_sendto
      /\ n.p_callerq = s.p_callerq /\ n.p_alarm = s.p_alarm
      /\ n.p_pendcount = s.p_pendcount /\ n.panic = s.panic
      /\ n.p_getfrom = s.p_getfrom /\ n.sig_procs = s.sig_procs - 1
      /\ n \in KernelState /\ "PENDING" \in F[p]
  BY <1>2 DEF InformedIs
<1>7. UserOK(s, p)
  BY <1>1 DEF Base
<1>8. "SIG_PENDING" \in F[p]
  <2>1. D[p] # {} /\ IsFiniteSet(D[p]) /\ Cardinality(D[p]) <= s.p_pendcount[p]
    BY <1>2, <1>6, <1>7 DEF UserOK
  <2>2. Cardinality(D[p]) > 0
    <3>1. Cardinality(D[p]) \in Nat /\ Cardinality(D[p]) # 0
      BY <2>1, FS_EmptySet, FS_CardinalityType
    <3> QED
      BY <3>1
  <2>3. s.p_pendcount[p] \in Nat /\ Cardinality(D[p]) \in Nat
    <3>1. Cardinality(D[p]) \in Nat
      BY <2>1, FS_CardinalityType
    <3> QED
      BY <1>1, <3>1 DEF KernelState
  <2>4. s.p_pendcount[p] > 0
    BY <2>1, <2>2, <2>3
  <2> QED
    BY <1>2, <1>7, <2>4 DEF UserOK
<1>9. Senders(n.p_flags, n.p_sendto, n.p_callerq)
  <2>1. \A x \in Procs : "SENDING" \in F2[x] <=> "SENDING" \in F[x]
    BY <1>2, <1>5
  <2> QED
    BY <1>2, <1>4, <1>6, <2>1 DEF Base, Senders
<1>10. ASSUME NEW u \in UserSlots PROVE UserOK(n, u)
  <2>1. u \in Procs /\ u \in Slots /\ UserOK(s, u) /\ u # MM
    BY <1>1, ProcFacts DEF Base
  <2>2. CASE u # p
    BY <1>2, <1>4, <1>5, <1>6, <2>1, <2>2 DEF UserOK, isemptyp
  <2>3. CASE u = p
    <3>1. IsFiniteSet(D2[u]) /\ Cardinality(D2[u]) = 0
      BY <1>5, <2>3, FS_EmptySet
    <3>2. s.p_pendcount[u] \in Nat
      BY <1>1, <2>1 DEF KernelState
    <3>3. ~isemptyp(s, u)
      BY <1>2, <1>6, <2>1, <2>3 DEF UserOK
    <3> QED
      BY <1>2, <1>4, <1>5, <1>6, <2>1, <2>3, <3>1, <3>2, <3>3 DEF UserOK, isemptyp
  <2> QED
    BY <2>2, <2>3
<1>11. SystemFlags(n)
  <2>1. SystemFlags(s)
    BY DEF Base
  <2>2. \A t \in Tasks \cup {FS, IDLE, HARDWARE} : F2[t] = F[t]
    BY <1>1, <1>5
  <2>3. \A v \in Servers : D2[v] = D[v]
    BY <1>1, <1>5, ProcFacts
  <2> QED
    BY <1>2, <1>4, <1>5, <1>6, <2>1, <2>2, <2>3 DEF SystemFlags
<1>12. SigsCounted(n)
  <2>1. Pend(n) = Pend(s) \ {p}
    <3>1. "PENDING" \notin F2[MM] /\ "PENDING" \notin F[MM]
      BY <1>2, <1>5
    <3>2. \A x \in Slots : x \in Procs
      BY ProcFacts
    <3>3. \A x \in Slots : "PENDING" \in F2[x] <=> "PENDING" \in F[x] /\ x # p
      BY <1>5, <3>1, <3>2
    <3> QED
      BY <1>2, <1>4, <3>3 DEF Pend
  <2>2. p \in Pend(s) /\ IsFiniteSet(Pend(s))
    BY <1>1, <1>2, <1>6, PendUsers DEF Pend
  <2>3. Cardinality(Pend(s) \ {p}) = Cardinality(Pend(s)) - 1
    BY <2>2, FS_RemoveElement
  <2>4. s.sig_procs = Cardinality(Pend(s))
    BY DEF Base, SigsCounted, Pend
  <2>5. n.sig_procs = Cardinality(Pend(n))
    BY <1>6, <2>1, <2>3, <2>4
  <2> QED
    BY <2>5 DEF SigsCounted, Pend
<1>13. Base(n)
  BY <1>6, <1>9, <1>10, <1>11, <1>12 DEF Base
<1> QED
  BY <1>2, <1>4, <1>5, <1>8, <1>13

\* inform(), when MM waits for any message
LEMMA Informs ==
  ASSUME NEW s, Base(s), Lists(s.rdy, Ready(s)), s.sig_procs > 0,
         s.p_flags[MM] = {"RECEIVING"}, s.p_getfrom[MM] = ANY
  PROVE  LET n == inform(s)
         IN /\ \E p \in UserSlots : InformedIs(s, p, n)
            /\ Base(n) /\ MMHears(n) /\ Scheduled(n) /\ HeadsKept(s, n, HARDWARE)
            /\ n.rdy[TASK_Q] = s.rdy[TASK_Q]
<1>1. /\ s \in KernelState /\ Classed(s.p_priority) /\ MM \in Procs /\ MM \in Schedulable
      /\ SYSTASK \in Procs /\ HARDWARE \in Procs /\ MM # SYSTASK /\ MM \notin UserSlots
      /\ Class(MM) = SERVER_Q /\ MM \in Servers /\ HARDWARE \notin UserSlots
  BY ProcFacts DEF Base, Servers, Tasks, Class, MM, SYSTASK
<1>2. PICK p : p = Least(Pend(s))
  OBVIOUS
<1>3. /\ p \in Pend(s) /\ p \in UserSlots /\ p \in Slots /\ p \in Procs /\ Pend(s) # {}
      /\ "PENDING" \in s.p_flags[p] /\ p # MM /\ p \in Int
  <2>1. p \in Pend(s) /\ Pend(s) # {} /\ p \in Nat
    BY <1>2, PendUsers, LeastExists
  <2>2. p \in UserSlots
    BY <2>1, PendUsers
  <2> QED
    BY <1>1, <2>1, <2>2, ProcFacts DEF Pend
<1>4. PICK m \in Mess : m = [s.mess[SYSTASK] EXCEPT !.type = "KSIG", !.i1 = p,
                                                    !.map = s.p_pending[p]]
  <2>1. s.mess[SYSTASK] \in Mess /\ s.p_pending[p] \in SUBSET Signals /\ "KSIG" \in MessTypes
    BY <1>1, <1>3 DEF KernelState, MessTypes
  <2> QED
    BY <1>3, <2>1 DEF Mess
<1>5. m.src = s.mess[SYSTASK].src /\ m.type = "KSIG" /\ m.i1 = p /\ m.map = s.p_pending[p]
  BY <1>1, <1>4 DEF KernelState, Mess
<1>6. PICK m2 \in Mess : m2 = [m EXCEPT !.src = HARDWARE]
  BY <1>1 DEF Mess
<1>7. m2.type = "KSIG" /\ m2.i1 = p /\ m2.map = s.p_pending[p]
  BY <1>5, <1>6 DEF Mess
<1>8. PICK j \in Int : j = s.sig_procs - 1
  BY <1>1 DEF KernelState
<1>9. PICK k1 : k1 = [s EXCEPT !.mess[SYSTASK] = m, !.sig_procs = j]
  OBVIOUS
<1>10. PICK M1, M2, F1 : /\ M1 = [s.mess EXCEPT ![SYSTASK] = m]
                         /\ M2 = [M1 EXCEPT ![MM] = m2]
                         /\ F1 = [s.p_flags EXCEPT ![MM] = {}]
  OBVIOUS
<1>11. M1 \in [Procs -> Mess] /\ M2 \in [Procs -> Mess] /\ F1 \in [Procs -> SUBSET Flags]
       /\ F1[MM] = {} /\ F1[p] = s.p_flags[p] /\ M1[SYSTASK] = m
  BY <1>1, <1>3, <1>10 DEF KernelState
<1>12. k1 = [s EXCEPT !.mess = M1, !.sig_procs = j] /\ k1 \in KernelState
  BY <1>1, <1>9, <1>10, <1>11 DEF KernelState
<1>13. PICK k2 : k2 = [s EXCEPT !.mess = M2, !.sig_procs = j, !.p_flags = F1]
  OBVIOUS
<1>14. Delivered(k1, m, HARDWARE, MM) = k2
  <2>1. k1.mess = M1 /\ k1.p_flags = s.p_flags
    BY <1>1, <1>12 DEF KernelState
  <2>2. s.p_flags[MM] \ {"RECEIVING"} = {}
    OBVIOUS
  <2>3. Delivered(k1, m, HARDWARE, MM) = [k1 EXCEPT !.mess = M2, !.p_flags = F1]
    BY <1>6, <1>10, <1>12, <2>1, <2>2 DEF Delivered, KernelState
  <2> QED
    BY <1>1, <1>12, <1>13, <2>3 DEF KernelState
<1>15. /\ k2 \in KernelState /\ k2.p_flags = F1 /\ k2.mess = M2 /\ k2.sig_procs = j
       /\ k2.rdy = s.rdy /\ k2.proc_ptr = s.proc_ptr
       /\ k2.p_priority = s.p_priority /\ k2.p_sendto = s.p_sendto
       /\ k2.p_callerq = s.p_callerq /\ k2.p_alarm = s.p_alarm
       /\ k2.p_pendcount = s.p_pendcount /\ k2.panic = s.panic
       /\ k2.p_getfrom = s.p_getfrom /\ k2.p_int_blocked = s.p_int_blocked
       /\ k2.p_pid = s.p_pid /\ k2.user_priority = s.user_priority
       /\ k2.p_pending = s.p_pending
  BY <1>1, <1>11, <1>13 DEF KernelState
<1>16. mini_send(k1, HARDWARE, MM, SYSTASK) = [k |-> Wake(k2, MM), r |-> OK]
  <2>1. k1.p_flags = s.p_flags /\ k1.p_getfrom = s.p_getfrom /\ k1.mess[SYSTASK] = m
        /\ k1.p_priority = s.p_priority
    BY <1>1, <1>11, <1>12 DEF KernelState
  <2>2. SendChain(k1, MM) = {} /\ WaitsForMessageOf(k1, MM, HARDWARE)
    BY <2>1 DEF SendChain, WaitsForMessageOf
  <2>3. ~isemptyp(k1, MM)
    BY <1>1, <2>1, Classes
  <2>4. ~(isuserp(k1, HARDWARE) /\ MM \notin {MM, FS})
    OBVIOUS
  <2>5. mini_send(k1, HARDWARE, MM, SYSTASK) =
          [k |-> Wake(Delivered(k1, m, HARDWARE, MM), MM), r |-> OK]
    BY <2>1, <2>2, <2>3, <2>4 DEF mini_send, Delivered, Wake
  <2> QED
    BY <1>14, <2>5
<1>17. PICK w : w = Wake(k2, MM)
  OBVIOUS
<1>18. /\ w \in KernelState /\ SameData(k2, w) /\ Lists(w.rdy, Ready(w))
       /\ HeadsKept(s, w, HARDWARE)
  <2>1. ~isemptyp(k2, MM)
    <3>1. ~isemptyp(s, MM)
      BY <1>1, Classes
    <3> QED
      BY <1>15, <3>1 DEF isemptyp
  <2>2. \A x \in Procs \ {MM} : k2.p_flags[x] = s.p_flags[x]
    BY <1>1, <1>10, <1>15 DEF KernelState
  <2>3. k2 \in KernelState /\ k2.rdy = s.rdy /\ k2.p_priority = s.p_priority /\ s.p_flags[MM] # {}
    BY <1>15
  <2> HIDE <1>2, <1>4, <1>6, <1>8, <1>9, <1>10, <1>13
  <2> QED
    BY <1>1, <1>17, <2>1, <2>2, <2>3, Unblock
<1>19. w.rdy[TASK_Q] = s.rdy[TASK_Q]
  <2>1. ready(k2, MM).rdy = [k2.rdy EXCEPT ![SERVER_Q] = Append(@, MM)]
    <3>1. Classed(k2.p_priority) /\ k2 \in KernelState /\ SERVER_Q # USER_Q
      BY <1>1, <1>15 DEF SERVER_Q, USER_Q
    <3> QED
      BY <1>1, <3>1, ReadyEffect
  <2>2. TASK_Q # SERVER_Q /\ w = ready(k2, MM)
    BY <1>11, <1>15, <1>17 DEF TASK_Q, SERVER_Q, Wake
  <2>3. PICK L : L = Append(k2.rdy[SERVER_Q], MM)
    OBVIOUS
  <2>4. w.rdy = [s.rdy EXCEPT ![SERVER_Q] = L] /\ s.rdy \in [Queues -> Seq(Schedulable)]
        /\ TASK_Q \in Queues
    BY <1>1, <1>15, <2>1, <2>2, <2>3 DEF KernelState, Queues
  <2> QED
    BY <2>2, <2>4
<1>20. PICK F2, D2 : /\ F2 = [F1 EXCEPT ![p] = s.p_flags[p] \ {"PENDING"}]
                     /\ D2 = [s.p_pending EXCEPT ![p] = {}]
  OBVIOUS
<1>21. F2 \in [Procs -> SUBSET Flags] /\ D2 \in [Slots -> SUBSET Signals]
  BY <1>1, <1>3, <1>11, <1>20 DEF KernelState
<1>22. PICK f : f = [w EXCEPT !.p_pending = D2, !.p_flags = F2]
  OBVIOUS
<1>23. /\ w.p_flags = F1 /\ w.p_pending = s.p_pending /\ w.panic = s.panic
       /\ s.panic = FALSE
  BY <1>15, <1>18 DEF SameData, Base, KernelState
<1>24. inform(s) = pick_proc(f)
  <2>1. [s EXCEPT !.mess[SYSTASK] =
                         [@ EXCEPT !.type = "KSIG", !.i1 = p,
                                   !.map = s.p_pending[p]],
                      !.sig_procs = @ - 1] = k1
    BY <1>1, <1>4, <1>8, <1>9 DEF KernelState
  <2>2. Pend(s) = {x \in Slots : "PENDING" \in s.p_flags[x]}
    BY DEF Pend
  <2>3. inform(s) = pick_proc([w EXCEPT !.panic = @ \/ OK # OK,
                                        !.p_pending[p] = {},
                                        !.p_flags[p] = @ \ {"PENDING"}])
    <3>1. PICK P : P = Pend(s)
      OBVIOUS
    <3>2. PICK ms : ms = mini_send(k1, HARDWARE, MM, SYSTASK)
      OBVIOUS
    <3>3. ms.k = w /\ ms.r = OK
      BY <1>16, <1>17, <3>2
    <3>4. p = Least(P) /\ P # {} /\ P = {x \in Slots : "PENDING" \in s.p_flags[x]}
      BY <1>2, <1>3, <2>2, <3>1
    <3>5. inform(s) = pick_proc([ms.k EXCEPT !.panic = @ \/ ms.r # OK,
                                        !.p_pending[p] = {},
                                        !.p_flags[p] = @ \ {"PENDING"}])
      BY <2>1, <3>2, <3>4 DEF inform
    <3> QED
      BY <3>3, <3>5
  <2>4. [w EXCEPT !.panic = @ \/ OK # OK, !.p_pending[p] = {},
                  !.p_flags[p] = @ \ {"PENDING"}] = f
    <3>1. (w.panic \/ OK # OK) = w.panic
      BY <1>23
    <3>2. w.p_flags[p] \ {"PENDING"} = s.p_flags[p] \ {"PENDING"}
      BY <1>11, <1>23
    <3>3. [w EXCEPT !.panic = @ \/ OK # OK, !.p_pending[p] = {},
                  !.p_flags[p] = @ \ {"PENDING"}]
          = [w EXCEPT !.panic = w.panic, !.p_pending = D2, !.p_flags = F2]
      BY <1>18, <1>20, <1>23, <3>1, <3>2 DEF KernelState
    <3> QED
      BY <1>18, <1>22, <3>3 DEF KernelState
  <2> QED
    BY <2>3, <2>4
<1>25. /\ f \in KernelState /\ f.p_flags = F2 /\ f.p_pending = D2
       /\ f.mess = M2 /\ f.sig_procs = j /\ f.rdy = w.rdy
       /\ f.p_priority = s.p_priority /\ f.p_sendto = s.p_sendto
       /\ f.p_callerq = s.p_callerq /\ f.p_alarm = s.p_alarm
       /\ f.p_pendcount = s.p_pendcount /\ f.panic = s.panic
       /\ f.p_getfrom = s.p_getfrom /\ f.p_int_blocked = s.p_int_blocked
       /\ f.p_pid = s.p_pid /\ f.user_priority = s.user_priority
  <2>1. /\ f \in KernelState /\ f.p_flags = F2 /\ f.p_pending = D2 /\ f.rdy = w.rdy
        /\ f.mess = w.mess /\ f.sig_procs = w.sig_procs
        /\ f.p_priority = w.p_priority /\ f.p_sendto = w.p_sendto
        /\ f.p_callerq = w.p_callerq /\ f.p_alarm = w.p_alarm
        /\ f.p_pendcount = w.p_pendcount /\ f.panic = w.panic
        /\ f.p_getfrom = w.p_getfrom /\ f.p_int_blocked = w.p_int_blocked
        /\ f.p_pid = w.p_pid /\ f.user_priority = w.user_priority
    BY <1>18, <1>21, <1>22 DEF KernelState
  <2> QED
    BY <1>15, <1>18, <2>1 DEF SameData
<1>26. PICK n : n = pick_proc(f)
  OBVIOUS
<1>27. n \in KernelState /\ SameData(f, n) /\ n.rdy = w.rdy /\ n.proc_ptr = Top(n.rdy)
  BY <1>25, <1>26, PickEffect
<1>28. InformedIs(s, p, n)
  <2>1. /\ n.p_priority = s.p_priority /\ n.p_sendto = s.p_sendto
        /\ n.p_callerq = s.p_callerq /\ n.p_alarm = s.p_alarm
        /\ n.p_pendcount = s.p_pendcount /\ n.panic = s.panic
        /\ n.p_getfrom = s.p_getfrom /\ n.p_int_blocked = s.p_int_blocked
        /\ n.p_pid = s.p_pid /\ n.user_priority = s.user_priority
        /\ n.sig_procs = j /\ n.p_pending = D2 /\ n.p_flags = F2 /\ n.mess = M2
    BY <1>25, <1>27 DEF SameData
  <2>2. M2[SYSTASK] = m /\ M2[MM] = m2 /\ \A x \in Procs \ {MM, SYSTASK} : M2[x] = s.mess[x]
    BY <1>1, <1>10, <1>11 DEF KernelState
  <2>3. F2 = [s.p_flags EXCEPT ![MM] = {}, ![p] = s.p_flags[p] \ {"PENDING"}]
    BY <1>10, <1>20
  <2> QED
    BY <1>3, <1>5, <1>7, <1>8, <1>20, <1>27, <2>1, <2>2, <2>3 DEF InformedIs
<1>29. /\ Base(n) /\ n.p_flags[MM] = {} /\ n.p_flags[p] = s.p_flags[p] \ {"PENDING"}
       /\ n.p_flags[p] # {}
  BY <1>28, InformedBase
<1>30. MMHears(n)
  BY <1>29 DEF MMHears
<1>31. Ready(n) = Ready(w)
  <2>1. n.p_flags = F2 /\ w.p_flags = F1 /\ n.p_priority = w.p_priority
    BY <1>15, <1>18, <1>25, <1>27 DEF SameData
  <2>2. F1[p] # {} /\ F2[p] # {} /\ \A x \in Procs \ {p} : F2[x] = F1[x]
    BY <1>1, <1>3, <1>11, <1>20, <1>29, <2>1
  <2>3. \A x \in Schedulable : F2[x] = {} <=> F1[x] = {}
    BY <2>2, ProcFacts
  <2> QED
    BY <2>1, <2>3 DEF Ready, isemptyp
<1>32. Scheduled(n) /\ HeadsKept(s, n, HARDWARE) /\ n.rdy[TASK_Q] = s.rdy[TASK_Q]
  BY <1>18, <1>19, <1>27, <1>31 DEF Scheduled, HeadsKept
<1> HIDE <1>2, <1>26
<1> QED
  BY <1>3, <1>24, <1>26, <1>28, <1>29, <1>30, <1>32
-----------------------------------------------------------------------------
(* Signals *)

\* Signals of u that MM has been told of
Open(s, u) == s.p_pendcount[u] - Cardinality(s.p_pending[u])

\* What sending signals changes: flags that only say so, and perhaps the first
\* message to MM about it.
Quiet(s, n) ==
  /\ n.p_flags[MM] = s.p_flags[MM]
  /\ \A x \in Procs : n.mess[x] = s.mess[x]
  /\ \A u \in UserSlots : Open(n, u) = Open(s, u)

Heard(s, n) ==
  /\ s.p_flags[MM] = {"RECEIVING"} /\ s.p_getfrom[MM] = ANY /\ n.p_flags[MM] = {}
  /\ n.mess[MM].type = "KSIG" /\ n.mess[MM].i1 \in UserSlots
  /\ ~isemptyp(n, n.mess[MM].i1) /\ IsFiniteSet(n.mess[MM].map)
  /\ \A u \in UserSlots :
       Open(n, u) = Open(s, u) + IF u = n.mess[MM].i1 THEN Cardinality(n.mess[MM].map) ELSE 0

SigEffect(s, n) ==
  /\ n \in KernelState
  /\ n.p_priority = s.p_priority /\ n.p_sendto = s.p_sendto
  /\ n.p_callerq = s.p_callerq
  /\ n.p_getfrom = s.p_getfrom /\ n.p_int_blocked = s.p_int_blocked
  /\ n.p_pid = s.p_pid /\ n.user_priority = s.user_priority
  /\ \A x \in Procs \ {MM}, f \in Flags \ {"PENDING", "SIG_PENDING"} :
       f \in n.p_flags[x] <=> f \in s.p_flags[x]
  /\ \A t \in Tasks \cup {FS} : n.p_flags[t] = s.p_flags[t]
  /\ n.mess[SYSTASK].src = s.mess[SYSTASK].src
  /\ \A x \in Procs \ {MM, SYSTASK} : n.mess[x] = s.mess[x]
  /\ HeadsKept(s, n, HARDWARE) /\ n.rdy[TASK_Q] = s.rdy[TASK_Q]
  /\ Quiet(s, n) \/ Heard(s, n)

\* Nothing, and one signal after the other
LEMMA SigEffectSame ==
  ASSUME NEW s \in KernelState
  PROVE  SigEffect(s, s)
BY DEF SigEffect, Quiet, HeadsKept

\* The effects of two signals are like those of one.
LEMMA SigEffectJoins ==
  ASSUME NEW a \in KernelState, NEW b, NEW c, Base(a), Base(b),
         SigEffect(a, b), SigEffect(b, c)
  PROVE  SigEffect(a, c)
<1>1. MM \in Procs /\ SYSTASK \in Procs /\ HARDWARE \notin Schedulable
  BY ProcFacts DEF Servers, Tasks
<1>2. /\ c \in KernelState
      /\ c.p_priority = a.p_priority /\ c.p_sendto = a.p_sendto
      /\ c.p_callerq = a.p_callerq
      /\ c.p_getfrom = a.p_getfrom /\ c.p_int_blocked = a.p_int_blocked
      /\ c.p_pid = a.p_pid /\ c.user_priority = a.user_priority
      /\ \A x \in Procs \ {MM}, f \in Flags \ {"PENDING", "SIG_PENDING"} :
           f \in c.p_flags[x] <=> f \in a.p_flags[x]
      /\ \A t \in Tasks \cup {FS} : c.p_flags[t] = a.p_flags[t]
      /\ c.mess[SYSTASK].src = a.mess[SYSTASK].src
      /\ \A x \in Procs \ {MM, SYSTASK} : c.mess[x] = a.mess[x]
      /\ c.rdy[TASK_Q] = a.rdy[TASK_Q]
  BY DEF SigEffect
<1>3. HeadsKept(a, c, HARDWARE)
  <2>1. HeadsKept(a, b, HARDWARE) /\ HeadsKept(b, c, HARDWARE)
    BY DEF SigEffect
  <2>2. ASSUME NEW q \in {TASK_Q, SERVER_Q}, a.rdy[q] # << >>, Head(a.rdy[q]) # HARDWARE
        PROVE  c.rdy[q] # << >> /\ Head(c.rdy[q]) = Head(a.rdy[q])
    <3>1. b.rdy[q] # << >> /\ Head(b.rdy[q]) = Head(a.rdy[q])
      BY <2>1, <2>2 DEF HeadsKept
    <3> QED
      BY <2>1, <2>2, <3>1 DEF HeadsKept
  <2> QED
    BY <2>2 DEF HeadsKept
<1>4. Quiet(a, c) \/ Heard(a, c)
  <2>1. b.p_getfrom = a.p_getfrom /\ c.p_priority = b.p_priority
    BY DEF SigEffect
  <2>2. CASE Quiet(a, b) /\ Quiet(b, c)
    BY <2>2 DEF Quiet
  <2>3. CASE Quiet(a, b) /\ Heard(b, c)
    BY <2>1, <2>3 DEF Quiet, Heard
  <2>4. CASE Heard(a, b) /\ Quiet(b, c)
    BY <1>1, <2>1, <2>4 DEF Quiet, Heard, isemptyp
  <2>5. CASE Heard(a, b) /\ Heard(b, c)
    BY <2>5 DEF Heard
  <2> QED
    BY <2>2, <2>3, <2>4, <2>5 DEF SigEffect
<1> QED
  BY <1>2, <1>3, <1>4 DEF SigEffect

\* One more pending signal of p
MarkedIs(s, p, sig, n) ==
  /\ n \in KernelState
  /\ n.p_priority = s.p_priority /\ n.p_sendto = s.p_sendto
  /\ n.p_callerq = s.p_callerq /\ n.p_alarm = s.p_alarm
  /\ n.panic = s.panic /\ n.p_getfrom = s.p_getfrom
  /\ n.p_int_blocked = s.p_int_blocked
  /\ n.p_pid = s.p_pid /\ n.user_priority = s.user_priority
  /\ n.mess = s.mess
  /\ n.p_pending = [s.p_pending EXCEPT ![p] = s.p_pending[p] \cup {sig}]
  /\ n.p_pendcount = [s.p_pendcount EXCEPT ![p] = s.p_pendcount[p] + 1]
  /\ n.p_flags = [s.p_flags EXCEPT ![p] = s.p_flags[p] \cup {"PENDING", "SIG_PENDING"}]
  /\ n.sig_procs = IF "PENDING" \in s.p_flags[p] THEN s.sig_procs ELSE s.sig_procs + 1

\* The counts go up together.
LEMMA MarkedBase ==
  ASSUME NEW s, Base(s), NEW p \in UserSlots, ~isemptyp(s, p), NEW sig, sig \notin s.p_pending[p],
         NEW n, MarkedIs(s, p, sig, n)
  PROVE  /\ Base(n) /\ (\A u \in UserSlots : Open(n, u) = Open(s, u))
         /\ n.p_flags[p] = s.p_flags[p] \cup {"PENDING", "SIG_PENDING"}
         /\ \A x \in Procs \ {p} : n.p_flags[x] = s.p_flags[x]
<1>1. /\ s \in KernelState /\ p \in Procs /\ p \in Slots
      /\ MM \in Procs /\ FS \in Procs /\ IDLE \in Procs /\ HARDWARE \in Procs
      /\ Tasks \subseteq Procs /\ p \notin Tasks \cup {MM, FS, IDLE, HARDWARE}
      /\ \A u \in UserSlots : u \in Procs /\ u \in Slots
      /\ \A v \in Servers : v \in Slots /\ v # p
  BY ProcFacts DEF Base, Servers, MM, FS
<1>2. PICK F, D, C : F = s.p_flags /\ D = s.p_pending /\ C = s.p_pendcount
  OBVIOUS
<1>3. /\ F \in [Procs -> SUBSET Flags] /\ D \in [Slots -> SUBSET Signals]
      /\ C \in [Slots -> Nat]
  BY <1>1, <1>2 DEF KernelState
<1>4. PICK F2, D2, C2 : F2 = n.p_flags /\ D2 = n.p_pending /\ C2 = n.p_pendcount
  OBVIOUS
<1>5. /\ F2[p] = F[p] \cup {"PENDING", "SIG_PENDING"}
      /\ D2[p] = D[p] \cup {sig} /\ C2[p] = C[p] + 1
      /\ \A x \in Procs \ {p} : F2[x] = F[x]
      /\ \A x \in Slots \ {p} : D2[x] = D[x] /\ C2[x] = C[x]
  BY <1>1, <1>2, <1>3, <1>4 DEF MarkedIs
<1>6. /\ n.p_priority = s.p_priority /\ n.p_sendto = s.p_sendto
      /\ n.p_callerq = s.p_callerq /\ n.p_alarm = s.p_alarm
      /\ n.panic = s.panic /\ n.p_getfrom = s.p_getfrom /\ n \in KernelState
      /\ n.sig_procs = IF "PENDING" \in F[p] THEN s.sig_procs ELSE s.sig_procs + 1
  BY <1>2 DEF MarkedIs
<1>7. UserOK(s, p) /\ IsFiniteSet(D[p]) /\ sig \notin D[p] /\ C[p] \in Nat
      /\ Cardinality(D[p]) <= C[p]
  BY <1>1, <1>2, <1>3 DEF Base, UserOK
<1>8. /\ IsFiniteSet(D2[p]) /\ Cardinality(D2[p]) = Cardinality(D[p]) + 1
      /\ Cardinality(D[p]) \in Nat
  BY <1>5, <1>7, FS_AddElement, FS_CardinalityType
<1>9. ASSUME NEW u \in UserSlots PROVE UserOK(n, u)
  <2>1. u \in Procs /\ u \in Slots /\ UserOK(s, u)
    BY <1>1 DEF Base
  <2>2. CASE u # p
    BY <1>2, <1>4, <1>5, <1>6, <2>1, <2>2 DEF UserOK, isemptyp
  <2>3. CASE u = p
    <3>1. D2[u] # {} /\ C2[u] > 0 /\ Cardinality(D2[u]) <= C2[u] /\ IsFiniteSet(D2[u])
      <4>1. PICK c \in Nat, a \in Nat : c = C[p] /\ a = Cardinality(D[p])
        BY <1>7, <1>8
      <4>2. C2[p] = c + 1 /\ Cardinality(D2[p]) = a + 1 /\ a <= c /\ sig \in D2[p]
        BY <1>5, <1>7, <1>8, <4>1
      <4>3. c + 1 > 0 /\ a + 1 <= c + 1
        BY <4>2
      <4> QED
        BY <1>8, <2>3, <4>2, <4>3
    <3>2. ~isemptyp(n, u)
      BY <1>6, <2>3 DEF isemptyp
    <3> QED
      BY <1>2, <1>4, <1>5, <1>6, <2>1, <2>3, <3>1, <3>2 DEF UserOK
  <2> QED
    BY <2>2, <2>3
<1>10. SystemFlags(n)
  <2>1. SystemFlags(s)
    BY DEF Base
  <2>2. \A t \in Tasks \cup {MM, FS, IDLE, HARDWARE} : F2[t] = F[t]
    BY <1>1, <1>5
  <2>3. \A v \in Servers : D2[v] = D[v]
    BY <1>1, <1>5
  <2> QED
    BY <1>2, <1>4, <1>6, <2>1, <2>2, <2>3 DEF SystemFlags
<1>11. SigsCounted(n)
  <2>1. Pend(n) = Pend(s) \cup {p}
    <3>1. \A x \in Slots : x \in Procs
      BY ProcFacts
    <3>2. \A x \in Slots : "PENDING" \in F2[x] <=> "PENDING" \in F[x] \/ x = p
      BY <1>5, <3>1
    <3> QED
      BY <1>1, <1>2, <1>4, <3>2 DEF Pend
  <2>2. IsFiniteSet(Pend(s)) /\ (p \in Pend(s) <=> "PENDING" \in F[p])
    BY <1>1, <1>2, PendUsers DEF Pend
  <2>3. Cardinality(Pend(s) \cup {p}) = IF p \in Pend(s) THEN Cardinality(Pend(s))
                                        ELSE Cardinality(Pend(s)) + 1
    BY <2>2, FS_AddElement
  <2>4. s.sig_procs = Cardinality(Pend(s))
    BY DEF Base, SigsCounted, Pend
  <2>5. n.sig_procs = Cardinality(Pend(n))
    BY <1>6, <2>1, <2>2, <2>3, <2>4
  <2> QED
    BY <2>5 DEF SigsCounted, Pend
<1>12. Senders(n.p_flags, n.p_sendto, n.p_callerq)
  <2>1. \A x \in Procs : "SENDING" \in F2[x] <=> "SENDING" \in F[x]
    BY <1>5
  <2> QED
    BY <1>2, <1>4, <1>6, <2>1 DEF Base, Senders
<1>13. Base(n)
  BY <1>6, <1>9, <1>10, <1>11, <1>12 DEF Base
<1>14. ASSUME NEW u \in UserSlots PROVE Open(n, u) = Open(s, u)
  <2>1. CASE u = p
    <3>1. PICK c \in Nat, a \in Nat : c = C[p] /\ a = Cardinality(D[p])
      BY <1>7, <1>8
    <3>2. C2[p] = c + 1 /\ Cardinality(D2[p]) = a + 1
      BY <1>5, <1>8, <3>1
    <3>3. (c + 1) - (a + 1) = c - a
      OBVIOUS
    <3> QED
      BY <1>2, <1>4, <2>1, <3>1, <3>2, <3>3 DEF Open
  <2>2. CASE u # p
    BY <1>1, <1>2, <1>4, <1>5, <2>2 DEF Open
  <2> QED
    BY <2>1, <2>2
<1> QED
  BY <1>2, <1>4, <1>5, <1>13, <1>14

\* A process that gets its signals has them pending no more.
LEMMA InformedSigEffect ==
  ASSUME NEW s, Base(s), s.p_flags[MM] = {"RECEIVING"}, s.p_getfrom[MM] = ANY,
         NEW p \in UserSlots, NEW n, InformedIs(s, p, n),
         HeadsKept(s, n, HARDWARE), n.rdy[TASK_Q] = s.rdy[TASK_Q]
  PROVE  SigEffect(s, n)
<1>1. /\ s \in KernelState /\ MM \in Procs /\ p \in Procs /\ p # MM /\ MM # SYSTASK
      /\ \A u \in UserSlots : u \in Slots
      /\ \A t \in Tasks \cup {FS} : t \in Procs \ {MM, p}
  <2>1. s \in KernelState /\ MM \in Servers /\ FS \in Servers /\ MM # FS /\ MM # SYSTASK
        /\ MM \notin Tasks
    BY ProcFacts DEF Base, Servers, MM, FS, SYSTASK
  <2>2. p \in Slots /\ p \in Procs /\ p \notin Tasks /\ p \notin Servers /\ MM \in Procs /\ FS \in Procs
        /\ Tasks \subseteq Procs
    BY <2>1, ProcFacts
  <2> QED
    BY <2>1, <2>2, ProcFacts
<1>2. /\ n.p_flags[MM] = {} /\ n.p_flags[p] = s.p_flags[p] \ {"PENDING"}
      /\ \A x \in Procs \ {MM, p} : n.p_flags[x] = s.p_flags[x]
  BY InformedBase
<1>3. /\ n \in KernelState /\ "PENDING" \in s.p_flags[p]
      /\ n.p_priority = s.p_priority /\ n.p_sendto = s.p_sendto
      /\ n.p_callerq = s.p_callerq /\ n.p_alarm = s.p_alarm
      /\ n.p_pendcount = s.p_pendcount
      /\ n.p_getfrom = s.p_getfrom /\ n.p_int_blocked = s.p_int_blocked
      /\ n.p_pid = s.p_pid /\ n.user_priority = s.user_priority
      /\ n.p_pending = [s.p_pending EXCEPT ![p] = {}]
      /\ n.mess[SYSTASK].src = s.mess[SYSTASK].src
      /\ n.mess[MM].type = "KSIG" /\ n.mess[MM].i1 = p /\ n.mess[MM].map = s.p_pending[p]
      /\ \A x \in Procs \ {MM, SYSTASK} : n.mess[x] = s.mess[x]
  BY DEF InformedIs
<1>4. \A x \in Procs \ {MM}, f \in Flags \ {"PENDING", "SIG_PENDING"} :
        f \in n.p_flags[x] <=> f \in s.p_flags[x]
  BY <1>1, <1>2
<1>5. \A t \in Tasks \cup {FS} : n.p_flags[t] = s.p_flags[t]
  BY <1>1, <1>2
<1>6. PICK D : D = s.p_pending
  OBVIOUS
<1>7. UserOK(s, p) /\ IsFiniteSet(D[p]) /\ ~isemptyp(s, p) /\ D \in [Slots -> SUBSET Signals]
  BY <1>1, <1>3, <1>6 DEF Base, UserOK, KernelState
<1>8. ASSUME NEW u \in UserSlots
      PROVE  Open(n, u) = Open(s, u) + IF u = p THEN Cardinality(D[p]) ELSE 0
  <2>1. s.p_pendcount[u] \in Nat /\ u \in Slots
    BY <1>1 DEF KernelState
  <2>2. IsFiniteSet(D[u]) /\ Cardinality(D[u]) \in Nat
    BY <1>6, FS_CardinalityType DEF Base, UserOK
  <2>3. PICK c \in Nat, a \in Nat : c = s.p_pendcount[u] /\ a = Cardinality(D[u])
    BY <2>1, <2>2
  <2>4. Open(s, u) = c - a /\ n.p_pendcount[u] = c
    BY <1>3, <1>6, <2>3 DEF Open
  <2>5. CASE u = p
    <3>1. n.p_pending[u] = {} /\ Cardinality({}) = 0
      BY <1>3, <1>6, <1>7, <2>1, <2>5, FS_EmptySet
    <3>2. Open(n, u) = c - 0
      BY <2>4, <3>1 DEF Open
    <3>3. c - 0 = (c - a) + a
      OBVIOUS
    <3> QED
      BY <2>3, <2>4, <2>5, <3>2, <3>3
  <2>6. CASE u # p
    <3>1. n.p_pending[u] = D[u]
      BY <1>3, <1>6, <1>7, <2>1, <2>6
    <3>2. Open(n, u) = c - a /\ (c - a) + 0 = c - a
      BY <2>3, <2>4, <3>1 DEF Open
    <3> QED
      BY <2>4, <2>6, <3>2
  <2> QED
    BY <2>5, <2>6
<1>9. Heard(s, n)
  BY <1>2, <1>3, <1>6, <1>7, <1>8 DEF Heard, isemptyp
<1> QED
  BY <1>3, <1>4, <1>5, <1>9 DEF SigEffect

\* cause_sig()
LEMMA CausesSig ==
  ASSUME NEW s, KInv(s), NEW p \in UserSlots, ~isemptyp(s, p), NEW sig \in Signals
  PROVE  LET n == cause_sig(s, p, sig)
         IN KInv(n) /\ SigEffect(s, n)
<1>1. /\ s \in KernelState /\ p \in Schedulable /\ p \in Slots /\ p \in Procs /\ MM \in Procs
      /\ Classed(s.p_priority) /\ p # MM /\ Base(s) /\ Lists(s.rdy, Ready(s))
      /\ s.proc_ptr = Top(s.rdy) /\ MMHears(s) /\ SYSTASK \in Procs
      /\ \A t \in Tasks \cup {FS} : t \in Procs \ {p}
  BY ProcFacts DEF KInv, Base, Scheduled, Servers, MM, FS, Tasks
<1>2. CASE sig \in s.p_pending[p]
  <2>1. cause_sig(s, p, sig) = s
    BY <1>2 DEF cause_sig
  <2> QED
    BY <1>1, <2>1, SigEffectSame
<1>3. CASE sig \notin s.p_pending[p]
  <2>1. PICK D2, C2 : /\ D2 = [s.p_pending EXCEPT ![p] = s.p_pending[p] \cup {sig}]
                      /\ C2 = [s.p_pendcount EXCEPT ![p] = s.p_pendcount[p] + 1]
    OBVIOUS
  <2>2. D2 \in [Slots -> SUBSET Signals] /\ C2 \in [Slots -> Nat]
    <3>1. s.p_pending \in [Slots -> SUBSET Signals] /\ s.p_pendcount \in [Slots -> Nat]
      BY <1>1 DEF KernelState
    <3>2. s.p_pending[p] \cup {sig} \in SUBSET Signals
      BY <1>1, <3>1
    <3>3. s.p_pendcount[p] + 1 \in Nat
      BY <1>1, <3>1
    <3>4. D2 \in [Slots -> SUBSET Signals]
      BY <2>1, <3>1, <3>2, OneTyped
    <3>5. C2 \in [Slots -> Nat]
      BY <2>1, <3>1, <3>3, OneTyped
    <3> QED
      BY <3>4, <3>5
  <2>3. PICK k1 : k1 = [s EXCEPT !.p_pending = D2, !.p_pendcount = C2]
    OBVIOUS
  <2>4. [s EXCEPT !.p_pending[p] = @ \cup {sig}, !.p_pendcount[p] = @ + 1] = k1
    <3>1. "p_pendcount" \in DOMAIN s
      BY <1>1 DEF KernelState
    <3> QED
      BY <2>1, <2>3, <3>1
  <2>5. /\ k1 \in KernelState /\ k1.p_pending = D2 /\ k1.p_pendcount = C2
        /\ k1.p_priority = s.p_priority /\ k1.p_sendto = s.p_sendto
        /\ k1.p_callerq = s.p_callerq /\ k1.p_alarm = s.p_alarm
        /\ k1.panic = s.panic /\ k1.p_getfrom = s.p_getfrom
        /\ k1.p_int_blocked = s.p_int_blocked
        /\ k1.p_pid = s.p_pid /\ k1.user_priority = s.user_priority
        /\ k1.mess = s.mess /\ k1.p_flags = s.p_flags /\ k1.sig_procs = s.sig_procs
        /\ k1.rdy = s.rdy /\ k1.proc_ptr = s.proc_ptr
    BY <1>1, <2>2, <2>3 DEF KernelState
  <2>6. Ready(k1) = Ready(s)
    BY <2>5 DEF Ready, isemptyp
  <2>7. CASE "PENDING" \in s.p_flags[p]
    <3>1. cause_sig(s, p, sig) = k1
      BY <1>3, <2>4, <2>7 DEF cause_sig
    <3>2. MarkedIs(s, p, sig, k1)
      <4>1. "SIG_PENDING" \in s.p_flags[p]
        <5>1. UserOK(s, p)
          BY <1>1 DEF Base
        <5>2. s.p_pending[p] # {} /\ IsFiniteSet(s.p_pending[p])
              /\ Cardinality(s.p_pending[p]) <= s.p_pendcount[p]
          BY <2>7, <5>1 DEF UserOK
        <5>3. Cardinality(s.p_pending[p]) \in Nat /\ Cardinality(s.p_pending[p]) # 0
          BY <5>2, FS_EmptySet, FS_CardinalityType
        <5>4. s.p_pendcount[p] \in Nat
          BY <1>1 DEF KernelState
        <5>5. s.p_pendcount[p] > 0
          BY <5>2, <5>3, <5>4
        <5> QED
          BY <5>1, <5>5 DEF UserOK
      <4>2. s.p_flags[p] = s.p_flags[p] \cup {"PENDING", "SIG_PENDING"}
        BY <2>7, <4>1
      <4>3. s.p_flags = [s.p_flags EXCEPT ![p] = s.p_flags[p] \cup {"PENDING", "SIG_PENDING"}]
        <5>1. s.p_flags \in [Procs -> SUBSET Flags]
          BY <1>1 DEF KernelState
        <5> QED
          BY <1>1, <4>2, <5>1
      <4> QED
        BY <2>1, <2>5, <2>7, <4>3 DEF MarkedIs
    <3>3. Base(k1) /\ \A u \in UserSlots : Open(k1, u) = Open(s, u)
      BY <1>1, <1>3, <3>2, MarkedBase
    <3>4. MMHears(k1) /\ Scheduled(k1)
      BY <1>1, <2>5, <2>6 DEF MMHears, Scheduled
    <3>5. SigEffect(s, k1)
      BY <2>5, <3>3 DEF SigEffect, Quiet, HeadsKept
    <3> QED
      BY <3>1, <3>3, <3>4, <3>5 DEF KInv
  <2>8. CASE "PENDING" \notin s.p_flags[p]
    <3>1. PICK h : h = Halt(k1, p)
      OBVIOUS
    <3>2. ~isemptyp(k1, p) /\ Lists(k1.rdy, Ready(k1)) /\ Classed(k1.p_priority)
      BY <1>1, <2>5, <2>6 DEF isemptyp
    <3>3. h \in KernelState /\ SameData(k1, h)
      BY <1>1, <2>5, <3>1, <3>2, HaltKeeps
    <3>4. PICK F2, j : /\ F2 = [s.p_flags EXCEPT ![p] = s.p_flags[p] \cup {"PENDING", "SIG_PENDING"}]
                       /\ j = s.sig_procs + 1
      OBVIOUS
    <3>5. F2 \in [Procs -> SUBSET Flags] /\ j \in Int
      <4>1. s.p_flags \in [Procs -> SUBSET Flags] /\ s.sig_procs \in Int
        BY <1>1 DEF KernelState
      <4>2. s.p_flags[p] \cup {"PENDING", "SIG_PENDING"} \in SUBSET Flags
        BY <1>1, <4>1 DEF Flags
      <4>3. F2 \in [Procs -> SUBSET Flags]
        BY <3>4, <4>1, <4>2, OneTyped
      <4>4. j \in Int
        BY <3>4, <4>1
      <4> QED
        BY <4>3, <4>4
    <3>6. PICK k3 : k3 = [h EXCEPT !.p_flags = F2, !.sig_procs = j]
      OBVIOUS
    <3>7. h.p_flags = s.p_flags /\ h.sig_procs = s.sig_procs
      BY <2>5, <3>3 DEF SameData
    <3>8. MarkPending(h, p) = k3
      <4>1. "sig_procs" \in DOMAIN h
        BY <3>3 DEF KernelState
      <4> QED
        BY <3>4, <3>6, <3>7, <4>1 DEF MarkPending
    <3>9. cause_sig(s, p, sig) = IF MMIsIdle(k3) THEN inform(k3) ELSE k3
      <4>1. h = IF k1.p_flags[p] = {} THEN unready(k1, p) ELSE k1
        BY <3>1 DEF Halt
      <4>2. PICK e : e = [s EXCEPT !.p_pending[p] = @ \cup {sig}, !.p_pendcount[p] = @ + 1]
        OBVIOUS
      <4>3. PICK g : g = MarkPending(IF e.p_flags[p] = {} THEN unready(e, p) ELSE e, p)
        OBVIOUS
      <4>4. cause_sig(s, p, sig) = IF MMIsIdle(g) THEN inform(g) ELSE g
        BY <1>3, <2>8, <4>2, <4>3 DEF cause_sig
      <4>5. e = k1
        BY <2>4, <4>2
      <4> HIDE <2>3, <2>4, <3>1, <3>6, <4>2
      <4>6. g = k3
        BY <3>8, <4>1, <4>3, <4>5
      <4> QED
        BY <4>4, <4>6
    <3>10. /\ k3 \in KernelState /\ k3.p_flags = F2 /\ k3.sig_procs = j
           /\ k3.rdy = h.rdy /\ k3.proc_ptr = h.proc_ptr
           /\ k3.p_priority = h.p_priority /\ k3.p_sendto = h.p_sendto
           /\ k3.p_callerq = h.p_callerq /\ k3.p_alarm = h.p_alarm
           /\ k3.panic = h.panic /\ k3.p_getfrom = h.p_getfrom
           /\ k3.p_int_blocked = h.p_int_blocked
           /\ k3.p_pid = h.p_pid /\ k3.user_priority = h.user_priority
           /\ k3.mess = h.mess /\ k3.p_pending = h.p_pending
           /\ k3.p_pendcount = h.p_pendcount
      BY <3>3, <3>5, <3>6 DEF KernelState
    <3>11. MarkedIs(s, p, sig, k3)
      BY <2>1, <2>5, <2>8, <3>3, <3>4, <3>10 DEF MarkedIs, SameData
    <3>12. /\ Base(k3) /\ (\A u \in UserSlots : Open(k3, u) = Open(s, u))
           /\ k3.p_flags[p] = s.p_flags[p] \cup {"PENDING", "SIG_PENDING"}
           /\ \A x \in Procs \ {p} : k3.p_flags[x] = s.p_flags[x]
      BY <1>1, <1>3, <3>11, MarkedBase
    <3>13. Lists(k3.rdy, Ready(k3)) /\ k3.proc_ptr = Top(k3.rdy) /\ HeadsKept(k1, k3, p)
      <4>1. k3.p_flags[p] # {} /\ k3.p_priority = k1.p_priority
        BY <2>5, <3>11, <3>12 DEF MarkedIs
      <4>2. k3.rdy = Halt(k1, p).rdy /\ k3.proc_ptr = Halt(k1, p).proc_ptr
        BY <3>1, <3>10
      <4>3. \A x \in Procs \ {p} : k3.p_flags[x] = k1.p_flags[x]
        BY <2>5, <3>12
      <4>4. k1.proc_ptr = Top(k1.rdy)
        BY <1>1, <2>5
      <4> HIDE <2>3, <3>1, <3>6
      <4> QED
        BY <1>1, <2>5, <3>2, <3>10, <4>1, <4>2, <4>3, <4>4, Block
    <3>14. HeadsKept(s, k3, HARDWARE) /\ k3.rdy[TASK_Q] = s.rdy[TASK_Q]
      <4>1. \A q \in {TASK_Q, SERVER_Q} : h.rdy[q] = s.rdy[q]
        <5>1. CASE k1.p_flags[p] # {}
          BY <2>5, <3>1, <5>1 DEF Halt
        <5>2. CASE k1.p_flags[p] = {}
          <6>1. Class(p) = USER_Q
            BY <1>1, <2>5, Classes
          <6>2. Distinct(k1.rdy[Class(p)])
            BY <3>2, <6>1 DEF Lists, Queues
          <6>3. PICK L : L = Unlink(k1.rdy[Class(p)], p)
            OBVIOUS
          <6>4. h.rdy = [s.rdy EXCEPT ![USER_Q] = L]
            BY <1>1, <2>5, <3>1, <3>2, <5>2, <6>1, <6>2, <6>3, UnreadyEffect DEF Halt
          <6>5. s.rdy \in [Queues -> Seq(Schedulable)] /\ TASK_Q \in Queues /\ SERVER_Q \in Queues
                /\ TASK_Q # USER_Q /\ SERVER_Q # USER_Q
            BY <1>1 DEF KernelState, Queues, TASK_Q, SERVER_Q, USER_Q
          <6> QED
            BY <6>4, <6>5
        <5> QED
          BY <5>1, <5>2
      <4> QED
        BY <3>10, <4>1 DEF HeadsKept
    <3>15. SigEffect(s, k3)
      <4>1. \A x \in Procs \ {MM}, f \in Flags \ {"PENDING", "SIG_PENDING"} :
               f \in k3.p_flags[x] <=> f \in s.p_flags[x]
        BY <3>12
      <4>2. \A t \in Tasks \cup {FS, MM} : k3.p_flags[t] = s.p_flags[t]
        BY <1>1, <3>12
      <4>3. /\ k3 \in KernelState
            /\ k3.p_priority = s.p_priority /\ k3.p_sendto = s.p_sendto
            /\ k3.p_callerq = s.p_callerq /\ k3.p_alarm = s.p_alarm
            /\ k3.p_getfrom = s.p_getfrom
            /\ k3.p_int_blocked = s.p_int_blocked
            /\ k3.p_pid = s.p_pid /\ k3.user_priority = s.user_priority
            /\ k3.mess = s.mess
        BY <3>11 DEF MarkedIs
      <4>4. Quiet(s, k3)
        BY <3>12, <4>2, <4>3 DEF Quiet
      <4> QED
        BY <3>14, <4>1, <4>2, <4>3, <4>4 DEF SigEffect
    <3>16. CASE ~MMIsIdle(k3)
      <4>1. MMHears(k3) /\ Scheduled(k3)
        BY <3>13, <3>16 DEF MMIsIdle, MMHears, Scheduled
      <4> QED
        BY <3>9, <3>12, <3>15, <3>16, <4>1 DEF KInv
    <3>17. CASE MMIsIdle(k3)
      <4>1. k3.p_flags[MM] = {"RECEIVING"} /\ k3.p_getfrom[MM] = ANY
        <5>1. "RECEIVING" \in k3.p_flags[MM] /\ k3.p_getfrom[MM] = ANY /\ SystemFlags(k3)
          BY <3>12, <3>17 DEF MMIsIdle, Base
        <5>2. FS # ANY
          BY DEF FS, ANY
        <5> QED
          BY <5>1, <5>2 DEF SystemFlags
      <4>2. k3.sig_procs > 0
        <5>1. s.sig_procs \in Nat
          BY <1>1, PendUsers
        <5> QED
          BY <3>4, <3>10, <5>1
      <4>3. PICK n : n = inform(k3)
        OBVIOUS
      <4>4. /\ \E q \in UserSlots : InformedIs(k3, q, n)
            /\ Base(n) /\ MMHears(n) /\ Scheduled(n) /\ HeadsKept(k3, n, HARDWARE)
            /\ n.rdy[TASK_Q] = k3.rdy[TASK_Q]
        BY <3>12, <3>13, <4>1, <4>2, <4>3, Informs
      <4>5. SigEffect(k3, n)
        BY <3>12, <4>1, <4>4, InformedSigEffect
      <4>6. SigEffect(s, n)
        BY <1>1, <3>12, <3>15, <4>5, SigEffectJoins
      <4> HIDE <4>3
      <4> QED
        BY <3>9, <3>17, <4>3, <4>4, <4>6 DEF KInv
    <3> QED
      BY <3>16, <3>17
  <2> QED
    BY <2>7, <2>8
<1> QED
  BY <1>2, <1>3
-----------------------------------------------------------------------------
(* The clock's tick *)

\* An alarm that is cancelled, or has gone off
LEMMA AlarmCleared ==
  ASSUME NEW s, KInv(s), NEW p \in UserSlots, NEW a \in Int, a = 0 \/ ~isemptyp(s, p)
  PROVE  LET n == [s EXCEPT !.p_alarm[p] = a]
         IN KInv(n) /\ SigEffect(s, n) /\ n.p_flags = s.p_flags /\ n.mess = s.mess
            /\ n.rdy = s.rdy /\ n.proc_ptr = s.proc_ptr /\ n.sig_procs = s.sig_procs
<1>1. s \in KernelState /\ p \in Slots /\ \A v \in Servers : v \in Slots /\ v # p
  BY ProcFacts DEF KInv, Base
<1>2. PICK A : A = [s.p_alarm EXCEPT ![p] = a]
  OBVIOUS
<1>3. A \in [Slots -> Int] /\ A[p] = a /\ \A x \in Slots \ {p} : A[x] = s.p_alarm[x]
  BY <1>1, <1>2 DEF KernelState
<1>4. PICK n : n = [s EXCEPT !.p_alarm = A]
  OBVIOUS
<1>5. [s EXCEPT !.p_alarm[p] = a] = n
  BY <1>1, <1>2, <1>4 DEF KernelState
<1>6. /\ n \in KernelState /\ n.p_alarm = A
      /\ n.p_flags = s.p_flags /\ n.p_priority = s.p_priority
      /\ n.p_getfrom = s.p_getfrom /\ n.p_sendto = s.p_sendto
      /\ n.p_callerq = s.p_callerq /\ n.p_int_blocked = s.p_int_blocked
      /\ n.p_pending = s.p_pending /\ n.p_pendcount = s.p_pendcount
      /\ n.p_pid = s.p_pid /\ n.user_priority = s.user_priority
      /\ n.mess = s.mess /\ n.sig_procs = s.sig_procs /\ n.panic = s.panic
      /\ n.rdy = s.rdy /\ n.proc_ptr = s.proc_ptr
  BY <1>1, <1>3, <1>4 DEF KernelState
<1>7. ASSUME NEW u \in UserSlots PROVE UserOK(n, u)
  <2>1. UserOK(s, u) /\ u \in Slots
    BY ProcFacts DEF KInv, Base
  <2>2. isemptyp(n, u) => n.p_alarm[u] = 0
    BY <1>3, <1>6, <2>1 DEF UserOK, isemptyp
  <2> QED
    BY <1>6, <2>1, <2>2 DEF UserOK, isemptyp
<1>8. SystemFlags(n)
  BY <1>1, <1>3, <1>6 DEF KInv, Base, SystemFlags
<1>9. Base(n)
  BY <1>6, <1>7, <1>8 DEF KInv, Base, SigsCounted
<1>10. MMHears(n) /\ Scheduled(n)
  <2>1. Ready(n) = Ready(s)
    BY <1>6 DEF Ready, isemptyp
  <2> QED
    BY <1>6, <2>1 DEF KInv, MMHears, Scheduled
<1>11. SigEffect(s, n)
  BY <1>6 DEF SigEffect, Quiet, HeadsKept, Open
<1> HIDE <1>4
<1> QED
  BY <1>5, <1>6, <1>9, <1>10, <1>11 DEF KInv

\* The alarm of a slot that is due
GoesOff(s, p, due) ==
  IF p \in due THEN [cause_sig(s, p, "SIGALRM") EXCEPT !.p_alarm[p] = 0] ELSE s

\* One alarm after the other goes off.
LEMMA GoesOffKeeps ==
  ASSUME NEW a, KInv(a), NEW s, KInv(s), SigEffect(a, s), NEW due,
         \A p \in due : p \in UserSlots /\ ~isemptyp(a, p), NEW p
  PROVE  KInv(GoesOff(s, p, due)) /\ SigEffect(a, GoesOff(s, p, due))
<1>1. CASE p \notin due
  BY <1>1 DEF GoesOff
<1>2. CASE p \in due
  <2>1. p \in UserSlots /\ ~isemptyp(s, p)
    BY <1>2 DEF SigEffect, isemptyp
  <2>2. PICK n : n = cause_sig(s, p, "SIGALRM")
    OBVIOUS
  <2>3. KInv(n) /\ SigEffect(s, n)
    BY <2>1, <2>2, CausesSig DEF Signals
  <2>4. PICK w : w = [n EXCEPT !.p_alarm[p] = 0]
    OBVIOUS
  <2>5. KInv(w) /\ SigEffect(n, w)
    BY <2>1, <2>3, <2>4, AlarmCleared
  <2>6. SigEffect(s, w)
    BY <2>3, <2>5, SigEffectJoins DEF KInv, Base
  <2>7. SigEffect(a, w)
    BY <2>6, SigEffectJoins DEF KInv, Base
  <2>8. GoesOff(s, p, due) = w
    BY <1>2, <2>2, <2>4 DEF GoesOff
  <2> QED
    BY <2>5, <2>7, <2>8
<1> QED
  BY <1>1, <1>2

\* The scan of the table, as the value of one function
ScanRule(f, s, due) ==
  f = [p \in -1..(NR_PROCS - 1) |-> IF p = -1 THEN s ELSE GoesOff(f[p - 1], p, due)]
ScanOf(s, due) == CHOOSE f : ScanRule(f, s, due)

\* The recursive function of do_clocktick
LEMMA AlarmsUnfold ==
  ASSUME NEW s, NEW due
  PROVE  Alarms(s, due) = ScanOf(s, due)[NR_PROCS - 1]
<1>1. ScanOf(s, due) = CHOOSE f : f =
        [p \in -1..(NR_PROCS - 1) |->
          IF p = -1 THEN s
          ELSE IF p \in due
          THEN [cause_sig(f[p - 1], p, "SIGALRM") EXCEPT !.p_alarm[p] = 0]
          ELSE f[p - 1]]
  BY DEF ScanOf, ScanRule, GoesOff
<1> QED
  BY <1>1 DEF Alarms

\* The scan of do_clocktick
LEMMA AlarmsKeep ==
  ASSUME NEW s, KInv(s), NEW due, due \subseteq {p \in Slots : s.p_alarm[p] # 0}
  PROVE  KInv(Alarms(s, due)) /\ SigEffect(s, Alarms(s, due))
<1> DEFINE Good(x) == KInv(x) /\ SigEffect(s, x)
<1>1. NR_PROCS \in Nat /\ NR_PROCS > 2
  BY ProcAssumption
<1>2. \A p \in due : p \in UserSlots /\ ~isemptyp(s, p)
  <2>1. \A v \in Servers : s.p_alarm[v] = 0
    BY DEF KInv, Base, SystemFlags
  <2>2. \A u \in UserSlots : isemptyp(s, u) => s.p_alarm[u] = 0
    BY DEF KInv, Base, UserOK
  <2> QED
    BY <2>1, <2>2, ProcFacts
<1>3. Good(s)
  BY SigEffectSame DEF KInv, Base
<1>4. \A x, p : Good(x) => Good(GoesOff(x, p, due))
  BY <1>2, GoesOffKeeps
<1>5. \E f : ScanRule(f, s, due)
  <2> DEFINE S == {x \in Nat \X KernelState : Good(x[2])}
             R == [x \in S |-> <<x[1] + 1, GoesOff(x[2], x[1], due)>>]
  <2>1. <<0, s>> \in S
    BY <1>3 DEF KInv, Base
  <2>2. R \in [S -> S]
    <3>1. ASSUME NEW x \in S PROVE <<x[1] + 1, GoesOff(x[2], x[1], due)>> \in S
      <4>1. Good(GoesOff(x[2], x[1], due))
        BY <1>4
      <4>2. GoesOff(x[2], x[1], due) \in KernelState
        BY <4>1 DEF KInv, Base
      <4> QED
        BY <4>1, <4>2
    <3> QED
      BY <3>1
  <2>3. \E f : Iterates(f, S, <<0, s>>, R)
    <3> HIDE DEF S, R
    <3> QED
      BY <2>1, <2>2, IterationExists
  <2>4. PICK f : f \in [Nat -> S] /\ f[0] = <<0, s>> /\ \A i \in Nat : f[i + 1] = R[f[i]]
    BY <2>3 DEF Iterates
  <2>5. \A i \in Nat : f[i + 1] = <<f[i][1] + 1, GoesOff(f[i][2], f[i][1], due)>>
    BY <2>4
  <2>6. \A i \in Nat : f[i][1] = i
    <3> DEFINE T == {i \in Nat : f[i][1] = i}
    <3>1. 0 \in T
      BY <2>4
    <3>2. \A i \in Nat : i \in T => i + 1 \in T
      BY <2>5
    <3>3. Nat \subseteq T
      <4> HIDE DEF T
      <4> QED
        BY <3>1, <3>2, SetInduction
    <3> QED
      BY <3>3
  <2> DEFINE h == [p \in -1..(NR_PROCS - 1) |-> f[p + 1][2]]
  <2>7. ASSUME NEW p \in -1..(NR_PROCS - 1)
        PROVE  h[p] = IF p = -1 THEN s ELSE GoesOff(h[p - 1], p, due)
    <3>1. CASE p = -1
      <4>1. p + 1 = 0
        BY <3>1
      <4> QED
        BY <2>4, <3>1, <4>1
    <3>2. CASE p # -1
      <4>1. p \in Nat /\ p - 1 \in -1..(NR_PROCS - 1) /\ (p - 1) + 1 = p
        BY <1>1, <3>2
      <4>2. f[p + 1] = <<f[p][1] + 1, GoesOff(f[p][2], f[p][1], due)>> /\ f[p][1] = p
        BY <2>5, <2>6, <4>1
      <4>3. h[p - 1] = f[p][2]
        BY <4>1
      <4>4. h[p] = f[p + 1][2]
        OBVIOUS
      <4> HIDE DEF h
      <4> QED
        BY <3>2, <4>2, <4>3, <4>4
    <3> QED
      BY <3>1, <3>2
  <2>8. h = [p \in -1..(NR_PROCS - 1) |-> h[p]]
    OBVIOUS
  <2> HIDE DEF h
  <2>9. h = [p \in -1..(NR_PROCS - 1) |-> IF p = -1 THEN s ELSE GoesOff(h[p - 1], p, due)]
    BY <2>7, <2>8
  <2> QED
    BY <2>9 DEF ScanRule
<1>6. ScanRule(ScanOf(s, due), s, due)
  BY <1>5 DEF ScanOf
<1>7. PICK g : g = ScanOf(s, due)
  OBVIOUS
<1>8. \A p \in -1..(NR_PROCS - 1) :
         g[p] = IF p = -1 THEN s ELSE GoesOff(g[p - 1], p, due)
  <2>1. g = [p \in -1..(NR_PROCS - 1) |-> IF p = -1 THEN s ELSE GoesOff(g[p - 1], p, due)]
    BY <1>6, <1>7 DEF ScanRule
  <2> QED
    BY <2>1
<1>9. Good(g[NR_PROCS - 1])
  <2> DEFINE T == {i \in Nat : i <= NR_PROCS => Good(g[i - 1])}
  <2> HIDE DEF Good
  <2>1. 0 \in T
    <3>1. 0 - 1 = -1 /\ -1 \in -1..(NR_PROCS - 1)
      BY <1>1
    <3>2. g[-1] = s
      BY <1>8, <3>1
    <3> QED
      BY <1>3, <3>1, <3>2
  <2>2. \A i \in Nat : i \in T => i + 1 \in T
    <3> SUFFICES ASSUME NEW i \in Nat, i \in T, i + 1 <= NR_PROCS
                 PROVE  Good(g[(i + 1) - 1])
      OBVIOUS
    <3>1. (i + 1) - 1 = i /\ i \in -1..(NR_PROCS - 1) /\ i # -1 /\ i <= NR_PROCS
      BY <1>1
    <3>2. g[i] = GoesOff(g[i - 1], i, due)
      BY <1>8, <3>1
    <3>3. Good(g[i - 1])
      BY <3>1
    <3> QED
      BY <1>4, <3>1, <3>2, <3>3
  <2>3. Nat \subseteq T
    <3> HIDE DEF T
    <3> QED
      BY <2>1, <2>2, SetInduction
  <2> QED
    BY <1>1, <2>3
<1> QED
  BY <1>7, <1>9, AlarmsUnfold

\* sched() rotates the queue of the users.
LEMMA SchedKeeps ==
  ASSUME NEW s, KInv(s)
  PROVE  LET n == sched(s)
         IN KInv(n) /\ SameData(s, n) /\ HeadsKept(s, n, HARDWARE)
<1>1. s \in KernelState /\ Lists(s.rdy, Ready(s)) /\ s.proc_ptr = Top(s.rdy)
  BY DEF KInv, Base, Scheduled
<1>2. PICK R \in [Queues -> Seq(Schedulable)] : R = s.rdy
  BY <1>1 DEF KernelState
<1>3. USER_Q \in Queues /\ TASK_Q # USER_Q /\ SERVER_Q # USER_Q
      /\ TASK_Q \in Queues /\ SERVER_Q \in Queues
  BY DEF Queues, USER_Q, TASK_Q, SERVER_Q
<1>4. CASE R[USER_Q] = << >>
  <2>1. sched(s) = s
    BY <1>2, <1>4 DEF sched
  <2> QED
    BY <2>1 DEF SameData, HeadsKept
<1>5. CASE R[USER_Q] # << >>
  <2>1. PICK p : p = Head(R[USER_Q])
    OBVIOUS
  <2>2. p \in Slots
    <3>1. R[USER_Q] \in Seq(Schedulable)
      BY <1>3
    <3>2. p \in Schedulable /\ OnList(R[USER_Q], p)
      BY <1>5, <2>1, <3>1, HeadInSeq
    <3>3. USER_Q = Class(p)
      BY <1>1, <1>2, <1>3, <3>2 DEF Lists
    <3> QED
      BY <1>3, <3>2, <3>3, ProcFacts DEF Class
  <2>3. CASE s.time_counter[p] # s.user_priority[p]
    <3>1. PICK c \in Int : c = IF s.time_counter[p] < CounterBound THEN s.time_counter[p] + 1
                               ELSE s.time_counter[p]
      <4>1. s.time_counter[p] \in Int
        BY <1>1, <2>2 DEF KernelState
      <4> QED
        BY <4>1
    <3>2. PICK n : n = [s EXCEPT !.time_counter[p] = c]
      OBVIOUS
    <3>3. sched(s) = n
      <4>1. sched(s) = [s EXCEPT !.time_counter[p] = IF @ < CounterBound THEN @ + 1 ELSE @]
        BY <1>2, <1>5, <2>1, <2>3 DEF sched
      <4> QED
        BY <1>1, <3>1, <3>2, <4>1 DEF KernelState
    <3>4. n \in KernelState /\ SameData(s, n) /\ n.rdy = s.rdy /\ n.proc_ptr = s.proc_ptr
      BY <1>1, <2>2, <3>2 DEF KernelState, SameData
    <3>5. Base(n) /\ MMHears(n) /\ Ready(n) = Ready(s)
      BY <3>4, BaseSame DEF KInv
    <3> HIDE <3>2
    <3> QED
      BY <1>1, <3>3, <3>4, <3>5 DEF KInv, Scheduled, HeadsKept
  <2>4. CASE s.time_counter[p] = s.user_priority[p]
    <3>1. PICK L : L = Append(Tail(R[USER_Q]), p)
      OBVIOUS
    <3>2. /\ L \in Seq(Schedulable) /\ Distinct(L)
          /\ \A x : OnList(L, x) <=> OnList(R[USER_Q], x)
      <4>1. R[USER_Q] \in Seq(Schedulable) /\ Distinct(R[USER_Q])
        BY <1>1, <1>2, <1>3 DEF Lists
      <4> QED
        BY <1>5, <2>1, <3>1, <4>1, RotateList
    <3>3. PICK f : f = [s EXCEPT !.time_counter[p] = 0, !.rdy[USER_Q] = L]
      OBVIOUS
    <3>4. sched(s) = pick_proc(f)
      <4>1. sched(s) = pick_proc([s EXCEPT !.time_counter[p] = 0,
                                           !.rdy[USER_Q] = Append(Tail(R[USER_Q]), p)])
        BY <1>2, <1>5, <2>1, <2>4 DEF sched
      <4> QED
        BY <3>1, <3>3, <4>1
    <3>5. f \in KernelState /\ SameData(s, f) /\ f.rdy = [R EXCEPT ![USER_Q] = L]
      <4>1. PICK C, R2 : C = [s.time_counter EXCEPT ![p] = 0] /\ R2 = [R EXCEPT ![USER_Q] = L]
        OBVIOUS
      <4>2. C \in [Slots -> Int] /\ R2 \in [Queues -> Seq(Schedulable)]
        <5>1. s.time_counter \in [Slots -> Int] /\ R \in [Queues -> Seq(Schedulable)]
          BY <1>1, <1>3 DEF KernelState
        <5>2. C \in [Slots -> Int]
          <6>1. 0 \in Int
            OBVIOUS
          <6> QED
            BY <4>1, <5>1, <6>1, OneTyped
        <5>3. R2 \in [Queues -> Seq(Schedulable)]
          BY <3>2, <4>1, <5>1, OneTyped
        <5> QED
          BY <5>2, <5>3
      <4>3. f = [s EXCEPT !.time_counter = C, !.rdy = R2]
        BY <1>1, <1>2, <3>3, <4>1 DEF KernelState
      <4> QED
        <5>1. s \in KernelState
          BY <1>1
        <5> HIDE <1>1, <1>2, <1>3, <3>3
        <5>2. f \in KernelState
          BY <4>2, <4>3, <5>1 DEF KernelState
        <5>3. SameData(s, f) /\ f.rdy = R2
          BY <4>3, <5>1 DEF KernelState, SameData
        <5> QED
          BY <4>1, <5>2, <5>3
    <3>6. PICK n : n = pick_proc(f)
      OBVIOUS
    <3>7. n \in KernelState /\ SameData(f, n) /\ n.rdy = f.rdy /\ n.proc_ptr = Top(n.rdy)
      BY <3>5, <3>6, PickEffect
    <3>8. SameData(s, n)
      BY <3>5, <3>7 DEF SameData
    <3>9. Base(n) /\ MMHears(n) /\ Ready(n) = Ready(s)
      BY <3>7, <3>8, BaseSame DEF KInv
    <3>10. /\ n.rdy[USER_Q] = L
           /\ \A q \in Queues \ {USER_Q} : n.rdy[q] = R[q]
      BY <1>3, <3>5, <3>7
    <3>11. Lists(n.rdy, Ready(s))
      BY <1>1, <1>2, <3>2, <3>10 DEF Lists
    <3>12. HeadsKept(s, n, HARDWARE)
      BY <1>2, <1>3, <3>10 DEF HeadsKept
    <3> HIDE <3>3, <3>6
    <3> QED
      BY <3>4, <3>6, <3>7, <3>8, <3>9, <3>11, <3>12 DEF KInv, Scheduled
  <2> QED
    BY <2>3, <2>4
<1> QED
  BY <1>4, <1>5
-----------------------------------------------------------------------------
(* MM receives a signal message; replies; the handlers of the system task *)

\* MM, running, takes the news of signals.
ToldIs(s, n) ==
  /\ n \in KernelState
  /\ n.p_priority = s.p_priority /\ n.p_sendto = s.p_sendto
  /\ n.p_callerq = s.p_callerq /\ n.p_int_blocked = s.p_int_blocked
  /\ n.p_pid = s.p_pid /\ n.user_priority = s.user_priority
  /\ \A x \in Procs \ {MM} : n.p_getfrom[x] = s.p_getfrom[x]
  /\ \A x \in Procs \ {MM}, f \in Flags \ {"PENDING", "SIG_PENDING"} :
       f \in n.p_flags[x] <=> f \in s.p_flags[x]
  /\ \A t \in Tasks \cup {FS} : n.p_flags[t] = s.p_flags[t]
  /\ n.mess[SYSTASK].src = s.mess[SYSTASK].src
  /\ \A x \in Procs \ {MM, SYSTASK} : n.mess[x] = s.mess[x]
  /\ HeadsKept(s, n, MM)
  /\ n.p_flags[MM] = {}
  /\ n.mess[MM].type = "KSIG" /\ n.mess[MM].i1 \in UserSlots
  /\ ~isemptyp(n, n.mess[MM].i1) /\ IsFiniteSet(n.mess[MM].map)
  /\ \A u \in UserSlots :
       Open(n, u) = Open(s, u) + IF u = n.mess[MM].i1 THEN Cardinality(n.mess[MM].map) ELSE 0

\* MM receives, and nobody calls but there are signals it has not been told of.
LEMMA RecvInforms ==
  ASSUME NEW s, KInv(s), s.proc_ptr = MM, s.p_callerq[MM] = << >>, s.sig_procs > 0
  PROVE  LET n == mini_rec(s, MM, ANY)
         IN KInv(n) /\ ToldIs(s, n)
<1>1. /\ Base(s) /\ s \in KernelState /\ MM \in Schedulable /\ MM \in Procs
      /\ ANY \in Procs \cup {ANY} /\ Lists(s.rdy, Ready(s)) /\ MM \notin UserSlots
      /\ s.proc_ptr = Top(s.rdy) /\ Scheduled(s) /\ MM \notin Tasks
      /\ \A t \in Tasks \cup {FS} : t \in Procs /\ t # MM
  <2>1. MM \in Servers /\ FS \in Servers /\ MM # FS
    BY DEF Servers, MM, FS
  <2>2. MM \notin Tasks /\ Tasks \subseteq Procs /\ MM \in Procs /\ FS \in Procs
        /\ MM \in Schedulable /\ MM \notin UserSlots
    BY <2>1, ProcFacts
  <2> QED
    BY <2>1, <2>2 DEF KInv, Base, Scheduled
<1>2. s.p_flags[MM] = {} /\ ~isemptyp(s, MM)
  BY <1>1, Running
<1>3. PICK w : w = Waiting(Halt(s, MM), MM, ANY)
  OBVIOUS
<1>4. mini_rec(s, MM, ANY) = inform(w)
  <2>1. {i \in DOMAIN s.p_callerq[MM] : ANY \in {ANY, s.p_callerq[MM][i]}} = {}
    OBVIOUS
  <2>2. MMMustKnow(s, MM, ANY) /\ ~TakesInterrupt(s, MM, ANY)
    BY <1>1 DEF MMMustKnow, TakesInterrupt
  <2> QED
    BY <1>3, <2>1, <2>2 DEF mini_rec, Waiting, Halt
<1>5. WaitingIs(s, MM, ANY, w) /\ Base(w) /\ Scheduled(w) /\ HeadsKept(s, w, MM)
  BY <1>1, <1>2, <1>3, StartsWaiting
<1>6. /\ w.p_flags[MM] = {"RECEIVING"} /\ w.p_getfrom[MM] = ANY /\ w.sig_procs = s.sig_procs
      /\ \A x \in Procs \ {MM} : w.p_flags[x] = s.p_flags[x] /\ w.p_getfrom[x] = s.p_getfrom[x]
      /\ w.mess = s.mess
      /\ w.p_priority = s.p_priority /\ w.p_sendto = s.p_sendto
      /\ w.p_callerq = s.p_callerq /\ w.p_int_blocked = s.p_int_blocked
      /\ w.p_pid = s.p_pid /\ w.user_priority = s.user_priority
      /\ w.p_pending = s.p_pending /\ w.p_pendcount = s.p_pendcount
  <2>1. /\ SameSignals(s, w) /\ w.p_getfrom = [s.p_getfrom EXCEPT ![MM] = ANY]
        /\ w.p_int_blocked = s.p_int_blocked /\ w.p_pid = s.p_pid
        /\ w.user_priority = s.user_priority /\ w.mess = s.mess
        /\ w.p_flags = [s.p_flags EXCEPT ![MM] = s.p_flags[MM] \cup {"RECEIVING"}]
    BY <1>5 DEF WaitingIs
  <2>2. s.p_flags \in [Procs -> SUBSET Flags] /\ s.p_getfrom \in [Procs -> Procs \cup {ANY}]
    BY <1>1 DEF KernelState
  <2>3. w.p_flags[MM] = {"RECEIVING"} /\ w.p_getfrom[MM] = ANY
    BY <1>1, <1>2, <2>1, <2>2
  <2>4. \A x \in Procs \ {MM} : w.p_flags[x] = s.p_flags[x] /\ w.p_getfrom[x] = s.p_getfrom[x]
    BY <2>1, <2>2
  <2> QED
    BY <2>1, <2>3, <2>4 DEF SameSignals
<1>7. PICK n : n = inform(w)
  OBVIOUS
<1>8. /\ \E p \in UserSlots : InformedIs(w, p, n)
      /\ Base(n) /\ MMHears(n) /\ Scheduled(n) /\ HeadsKept(w, n, HARDWARE)
      /\ n.rdy[TASK_Q] = w.rdy[TASK_Q]
  BY <1>5, <1>6, <1>7, Informs DEF Scheduled
<1>9. SigEffect(w, n)
  BY <1>5, <1>6, <1>8, InformedSigEffect
<1>10. Heard(w, n)
  <2>1. PICK p \in UserSlots : InformedIs(w, p, n)
    BY <1>8
  <2>2. n.p_flags[MM] = {}
    BY <1>5, <1>6, <2>1, InformedBase
  <2>3. ~Quiet(w, n)
    BY <1>6, <2>2 DEF Quiet
  <2> QED
    BY <1>9, <2>3 DEF SigEffect
<1>11. HeadsKept(s, n, MM)
  <2>1. HARDWARE \notin Schedulable
    BY ProcFacts
  <2>2. \A q \in {TASK_Q, SERVER_Q} : w.rdy[q] # << >> => Head(w.rdy[q]) \in Schedulable
    <3>1. \A q \in Queues : w.rdy[q] \in Seq(Schedulable)
      BY <1>5 DEF Base, KernelState
    <3>2. TASK_Q \in Queues /\ SERVER_Q \in Queues
      BY DEF Queues
    <3> QED
      BY <3>1, <3>2, HeadInSeq
  <2> QED
    BY <1>5, <1>8, <2>1, <2>2 DEF HeadsKept
<1>12. \A u \in UserSlots : Open(w, u) = Open(s, u)
  BY <1>6 DEF Open
<1>13. ToldIs(s, n)
  <2>1. /\ n \in KernelState
        /\ n.p_priority = s.p_priority /\ n.p_sendto = s.p_sendto
        /\ n.p_callerq = s.p_callerq /\ n.p_int_blocked = s.p_int_blocked
        /\ n.p_pid = s.p_pid /\ n.user_priority = s.user_priority
        /\ \A x \in Procs \ {MM} : n.p_getfrom[x] = s.p_getfrom[x]
        /\ n.mess[SYSTASK].src = s.mess[SYSTASK].src
        /\ \A x \in Procs \ {MM, SYSTASK} : n.mess[x] = s.mess[x]
    BY <1>6, <1>9 DEF SigEffect
  <2>2. \A x \in Procs \ {MM}, f \in Flags \ {"PENDING", "SIG_PENDING"} :
          f \in n.p_flags[x] <=> f \in s.p_flags[x]
    BY <1>6, <1>9 DEF SigEffect
  <2>3. \A t \in Tasks \cup {FS} : n.p_flags[t] = s.p_flags[t]
    BY <1>1, <1>6, <1>9 DEF SigEffect
  <2>4. \A u \in UserSlots :
       Open(n, u) = Open(s, u) + IF u = n.mess[MM].i1 THEN Cardinality(n.mess[MM].map) ELSE 0
    BY <1>10, <1>12 DEF Heard
  <2> QED
    BY <1>10, <1>11, <2>1, <2>2, <2>3, <2>4 DEF ToldIs, Heard
<1> HIDE <1>3, <1>7
<1> QED
  BY <1>4, <1>7, <1>8, <1>13 DEF KInv

\* The running task or server c answers d with m.
RepliedIs(s, m, c, d, n) ==
  /\ n \in KernelState /\ SameSignals(s, n)
  /\ n.p_getfrom = s.p_getfrom /\ n.p_int_blocked = s.p_int_blocked
  /\ n.p_pid = s.p_pid /\ n.user_priority = s.user_priority
  /\ n.mess = [s.mess EXCEPT ![c] = m, ![d] = [m EXCEPT !.src = c]]
  /\ n.p_flags = [s.p_flags EXCEPT ![d] = s.p_flags[d] \ {"RECEIVING"}]

\* A reply arrives, and nobody else is disturbed.
LEMMA Replies ==
  ASSUME NEW s, KInv(s), NEW c \in Tasks \cup Servers, s.proc_ptr = c, NEW m \in Mess,
         NEW d \in Servers \cup UserSlots, ~isemptyp(s, d),
         "RECEIVING" \in s.p_flags[d], "SENDING" \notin s.p_flags[d], s.p_getfrom[d] = c
  PROVE  LET e == mini_send([s EXCEPT !.mess[c] = m], c, d, c)
         IN e.r = OK /\ RepliedIs(s, m, c, d, e.k) /\ KInv(e.k) /\ HeadsKept(s, e.k, HARDWARE)
<1>1. /\ s \in KernelState /\ c \in Schedulable /\ c \in Procs /\ d \in Schedulable /\ d \in Procs
      /\ Classed(s.p_priority) /\ c \notin UserSlots
  BY ProcFacts DEF KInv, Base
<1>2. PICK a : a = [s EXCEPT !.mess[c] = m]
  OBVIOUS
<1>3. /\ a \in KernelState /\ SameSignals(s, a)
      /\ a.p_getfrom = s.p_getfrom /\ a.p_int_blocked = s.p_int_blocked
      /\ a.p_pid = s.p_pid /\ a.rdy = s.rdy /\ a.proc_ptr = s.proc_ptr
      /\ a.user_priority = s.user_priority /\ a.p_flags = s.p_flags
      /\ a.mess = [s.mess EXCEPT ![c] = m]
      /\ (\A p : isemptyp(a, p) <=> isemptyp(s, p))
      /\ (\A p : isuserp(a, p) <=> isuserp(s, p))
      /\ Base(a) /\ MMHears(a) /\ Scheduled(a)
  BY <1>1, <1>2, OwnMessage DEF KInv
<1>4. a.mess[c] = m
  BY <1>1, <1>3 DEF KernelState
<1>5. ~isuserp(a, c) /\ ~isemptyp(a, d)
  BY <1>1, <1>3, Classes
<1>6. NeverFirst(a.rdy, d)
  <2>1. s.rdy[Class(c)] # << >>
    BY <1>1, Running DEF KInv
  <2>2. Class(c) \in {TASK_Q, SERVER_Q}
    BY DEF Class
  <2> QED
    BY <1>3, <2>1, <2>2 DEF NeverFirst
<1>7. PICK e : e = mini_send(a, c, d, c)
  OBVIOUS
<1>8. /\ e.r = OK
      /\ e.k \in KernelState /\ SameData(Delivered(a, m, c, d), e.k)
      /\ Base(e.k) /\ MMHears(e.k)
      /\ Lists(e.k.rdy, Ready(e.k)) /\ HeadsKept(a, e.k, HARDWARE)
      /\ e.k.proc_ptr = Top(e.k.rdy)
  <2>1. Lists(a.rdy, Ready(a)) /\ a.proc_ptr = Top(a.rdy)
    BY <1>3 DEF Scheduled
  <2>2. /\ "RECEIVING" \in a.p_flags[d] /\ "SENDING" \notin a.p_flags[d]
        /\ a.p_getfrom[d] \in {ANY, c}
    BY <1>3
  <2>3. isuserp(a, c) => d \in Servers
    BY <1>5
  <2>4. Base(a)
    BY <1>3
  <2> HIDE <1>2
  <2>5. LET n == mini_send(a, c, d, c).k
        IN /\ mini_send(a, c, d, c).r = OK
           /\ n \in KernelState /\ SameData(Delivered(a, a.mess[c], c, d), n)
           /\ Base(n) /\ (MMHears(a) => MMHears(n))
           /\ Lists(n.rdy, Ready(n)) /\ HeadsKept(a, n, HARDWARE)
           /\ a.proc_ptr = Top(a.rdy) /\ NeverFirst(a.rdy, d) => n.proc_ptr = Top(n.rdy)
    BY <1>1, <1>5, <2>1, <2>2, <2>3, <2>4, Delivers
  <2> QED
    BY <1>3, <1>4, <1>6, <1>7, <2>1, <2>5
<1>9. PICK dl : dl = Delivered(a, m, c, d)
  OBVIOUS
<1>10. DeliveredIs(a, m, c, d, dl)
  BY <1>1, <1>3, <1>9, DeliveredFields
<1>11. RepliedIs(s, m, c, d, e.k)
  <2>1. SameData(dl, e.k)
    BY <1>8, <1>9
  <2>2. PICK x : x = [m EXCEPT !.src = c]
    OBVIOUS
  <2>3. /\ e.k.mess = [a.mess EXCEPT ![d] = x]
        /\ e.k.p_flags = [s.p_flags EXCEPT ![d] = s.p_flags[d] \ {"RECEIVING"}]
        /\ SameSignals(s, e.k)
        /\ e.k.p_getfrom = s.p_getfrom /\ e.k.p_int_blocked = s.p_int_blocked
        /\ e.k.p_pid = s.p_pid /\ e.k.user_priority = s.user_priority
    BY <1>3, <1>10, <2>1, <2>2 DEF DeliveredIs, SameData, SameSignals
  <2> QED
    BY <1>3, <1>8, <2>2, <2>3 DEF RepliedIs
<1>12. HeadsKept(s, e.k, HARDWARE)
  BY <1>3, <1>8 DEF HeadsKept
<1> HIDE <1>2, <1>7
<1> QED
  BY <1>2, <1>7, <1>8, <1>11, <1>12 DEF KInv, Scheduled

\* What a handler of the system task does to one slot p, seen from the others
OnUser(s, n, p) ==
  /\ n \in KernelState /\ n.p_int_blocked = s.p_int_blocked /\ n.mess = s.mess
  /\ \A x \in Procs \ {p} :
       /\ n.p_getfrom[x] = s.p_getfrom[x] /\ n.p_sendto[x] = s.p_sendto[x]
       /\ n.p_priority[x] = s.p_priority[x]
  /\ \A x \in Procs \ {p}, f \in Flags \ {"PENDING", "SIG_PENDING"} :
       f \in n.p_flags[x] <=> f \in s.p_flags[x]
  /\ \A t \in Tasks \cup Servers : n.p_flags[t] = s.p_flags[t]
  /\ \A x \in Slots \ {p} : n.p_pid[x] = s.p_pid[x]
  /\ \A x \in UserSlots \ {p} : Open(n, x) = Open(s, x)
  /\ HeadsKept(s, n, HARDWARE) /\ n.rdy[TASK_Q] = s.rdy[TASK_Q]

\* Its process goes on where it was.
SameUser(s, n, p) ==
  /\ n.p_priority[p] = s.p_priority[p] /\ n.p_pid[p] = s.p_pid[p]
  /\ n.p_getfrom[p] = s.p_getfrom[p] /\ n.p_sendto[p] = s.p_sendto[p]
  /\ "SENDING" \in n.p_flags[p] <=> "SENDING" \in s.p_flags[p]

\* A handler clears a flag, and the process runs again when it was the last.
LEMMA ClearsFlag ==
  ASSUME NEW s, KInv(s), s.proc_ptr = SYSTASK, NEW p \in UserSlots, ~isemptyp(s, p),
         s.p_flags[p] # {}, NEW f \in {"NO_MAP", "RECEIVING", "P_STOP"},
         f = "RECEIVING" => "SENDING" \notin s.p_flags[p]
  PROVE  LET w == Wake([s EXCEPT !.p_flags[p] = @ \ {f}], p)
         IN /\ KInv(w) /\ OnUser(s, w, p) /\ SameUser(s, w, p)
            /\ w.p_flags[p] = s.p_flags[p] \ {f} /\ Open(w, p) = Open(s, p)
<1>1. /\ Base(s) /\ s \in KernelState /\ p \in Schedulable /\ p \in Procs
      /\ Lists(s.rdy, Ready(s)) /\ p \notin Tasks \cup Servers /\ SYSTASK \in Schedulable
      /\ Classed(s.p_priority) /\ s.proc_ptr = Top(s.rdy) /\ SYSTASK \in Tasks
  BY ProcFacts DEF KInv, Base, Scheduled, Tasks
<1>2. PICK g : g = s.p_flags[p] \ {f}
  OBVIOUS
<1>3. PICK n : n = [s EXCEPT !.p_flags[p] = g]
  OBVIOUS
<1>4. [s EXCEPT !.p_flags[p] = @ \ {f}] = n
  BY <1>2, <1>3 DEF KernelState
<1>5. /\ SameSignals(s, n) /\ n.p_getfrom = s.p_getfrom /\ n.p_int_blocked = s.p_int_blocked
      /\ n.p_pid = s.p_pid /\ n.mess = s.mess /\ n.rdy = s.rdy /\ n.proc_ptr = s.proc_ptr
      /\ n.p_flags = [s.p_flags EXCEPT ![p] = g]
      /\ n \in KernelState
  <2>1. s.p_flags \in [Procs -> SUBSET Flags]
    BY <1>1 DEF KernelState
  <2>2. g \in SUBSET Flags
    BY <1>1, <1>2, <2>1
  <2>3. [s.p_flags EXCEPT ![p] = g] \in [Procs -> SUBSET Flags]
    BY <1>1, <2>1, <2>2
  <2>4. n = [s EXCEPT !.p_flags = [s.p_flags EXCEPT ![p] = g]]
    BY <1>1, <1>3 DEF KernelState
  <2> QED
    BY <1>1, <2>3, <2>4 DEF KernelState, SameSignals
<1>6. n.p_flags[p] = g /\ \A x \in Procs \ {p} : n.p_flags[x] = s.p_flags[x]
  BY <1>1, <1>5 DEF KernelState
<1>7. Base(n)
  <2>1. \A h \in {"SENDING", "PENDING", "SIG_PENDING"} :
          h \in n.p_flags[p] <=> h \in s.p_flags[p]
    BY <1>2, <1>6
  <2>2. /\ "RECEIVING" \in n.p_flags[p] => n.p_getfrom[p] \in Servers
        /\ "SENDING" \in n.p_flags[p] =>
             "RECEIVING" \in n.p_flags[p] /\ n.p_sendto[p] = n.p_getfrom[p]
    BY <1>1, <1>2, <1>5, <1>6 DEF Base, UserOK, SameSignals
  <2> HIDE <1>2, <1>3
  <2> QED
    BY <1>1, <1>5, <1>6, <2>1, <2>2, BaseStep
<1>8. PICK w : w = Wake(n, p)
  OBVIOUS
<1>9. /\ w \in KernelState /\ SameData(n, w) /\ Lists(w.rdy, Ready(w))
      /\ HeadsKept(s, w, HARDWARE) /\ w.proc_ptr = Top(w.rdy)
  <2>1. NeverFirst(s.rdy, p)
    <3>1. s.rdy[Class(SYSTASK)] # << >>
      BY <1>1, Running DEF KInv
    <3> QED
      BY <1>1, <3>1 DEF Class, NeverFirst
  <2>2. ~isemptyp(n, p) /\ n.p_priority = s.p_priority
    BY <1>5 DEF isemptyp, SameSignals
  <2> HIDE <1>2, <1>3
  <2>3. LET v == Wake(n, p)
        IN /\ v \in KernelState /\ SameData(n, v)
           /\ Lists(v.rdy, Ready(v)) /\ HeadsKept(s, v, HARDWARE)
           /\ n.proc_ptr = Top(s.rdy) /\ NeverFirst(s.rdy, p) => v.proc_ptr = Top(v.rdy)
    <3>1. /\ s \in KernelState /\ n \in KernelState /\ p \in Schedulable
          /\ Classed(s.p_priority) /\ Lists(s.rdy, Ready(s)) /\ s.p_flags[p] # {}
      BY <1>1, <1>5
    <3>2. n.rdy = s.rdy /\ \A x \in Procs \ {p} : n.p_flags[x] = s.p_flags[x]
      BY <1>5, <1>6
    <3> QED
      BY <2>2, <3>1, <3>2, Unblock
  <2> QED
    BY <1>1, <1>5, <1>8, <2>1, <2>3
<1>10. w.rdy[TASK_Q] = s.rdy[TASK_Q]
  <2>1. Class(p) # TASK_Q
    BY <1>1 DEF Class, TASK_Q, SERVER_Q, USER_Q
  <2>2. CASE n.p_flags[p] = {}
    <3>1. n.p_priority = s.p_priority
      BY <1>5 DEF SameSignals
    <3>2. w.rdy = [n.rdy EXCEPT ![Class(p)] =
                     IF Class(p) = USER_Q THEN <<p>> \o @ ELSE Append(@, p)]
      BY <1>1, <1>5, <1>8, <2>2, <3>1, ReadyEffect DEF Wake
    <3> QED
      BY <1>5, <2>1, <3>2 DEF KernelState
  <2>3. CASE n.p_flags[p] # {}
    BY <1>5, <1>8, <2>3 DEF Wake
  <2> QED
    BY <2>2, <2>3
<1>11. KInv(w)
  <2>1. MMHears(n)
    <3>1. MM \in Procs \ {p}
      BY <1>1, ProcFacts DEF Servers
    <3> QED
      BY <1>5, <1>6, <3>1 DEF KInv, MMHears, SameSignals
  <2> QED
    BY <1>7, <1>9, <2>1, BaseSame DEF KInv, Scheduled
<1>12. /\ w.p_flags = n.p_flags /\ w.p_getfrom = s.p_getfrom /\ w.p_sendto = s.p_sendto
       /\ w.p_priority = s.p_priority /\ w.p_pid = s.p_pid /\ w.mess = s.mess
       /\ w.p_int_blocked = s.p_int_blocked
       /\ w.p_pending = s.p_pending /\ w.p_pendcount = s.p_pendcount
  BY <1>5, <1>9 DEF SameData, SameSignals
<1>13. OnUser(s, w, p)
  <2>1. \A t \in Tasks \cup Servers : w.p_flags[t] = s.p_flags[t]
    BY <1>1, <1>6, <1>12, ProcFacts
  <2>2. \A x \in UserSlots : Open(w, x) = Open(s, x)
    BY <1>12 DEF Open
  <2>3. \A x \in Procs \ {p}, h \in Flags \ {"PENDING", "SIG_PENDING"} :
       h \in w.p_flags[x] <=> h \in s.p_flags[x]
    BY <1>6, <1>12
  <2> QED
    BY <1>9, <1>10, <1>12, <2>1, <2>2, <2>3 DEF OnUser
<1>14. SameUser(s, w, p) /\ w.p_flags[p] = s.p_flags[p] \ {f} /\ Open(w, p) = Open(s, p)
  BY <1>2, <1>6, <1>12 DEF SameUser, Open
<1> HIDE <1>8, <1>3
<1> QED
  BY <1>4, <1>8, <1>11, <1>13, <1>14

\* The flags of p, but those of signals and those gone
KeepsFlags(s, n, p, gone) ==
  \A f \in Flags \ ({"PENDING", "SIG_PENDING"} \cup gone) :
    f \in n.p_flags[p] <=> f \in s.p_flags[p]

\* Nothing at all
LEMMA OnUserSame ==
  ASSUME NEW s \in KernelState, NEW p
  PROVE  OnUser(s, s, p) /\ SameUser(s, s, p) /\ KeepsFlags(s, s, p, {})
BY DEF OnUser, SameUser, KeepsFlags, HeadsKept

\* do_newmap()
LEMMA NewmapKeeps ==
  ASSUME NEW s, KInv(s), s.proc_ptr = SYSTASK, NEW m, m.i1 \in UserSlots,
         ~isemptyp(s, m.i1)
  PROVE  LET n == do_newmap(s, m).k
         IN /\ KInv(n) /\ OnUser(s, n, m.i1) /\ SameUser(s, n, m.i1)
            /\ KeepsFlags(s, n, m.i1, {"NO_MAP"}) /\ Open(n, m.i1) = Open(s, m.i1)
<1>1. PICK p : p = m.i1
  OBVIOUS
<1>2. s \in KernelState /\ p \in Procs
  BY <1>1, ProcFacts DEF KInv, Base
<1>3. PICK n : n = do_newmap(s, m).k
  OBVIOUS
<1>4. CASE s.p_flags[p] # {}
  <2>1. n = Wake([s EXCEPT !.p_flags[p] = @ \ {"NO_MAP"}], p)
    BY <1>1, <1>3, <1>4 DEF do_newmap, Wake
  <2>2. /\ KInv(n) /\ OnUser(s, n, p) /\ SameUser(s, n, p)
        /\ n.p_flags[p] = s.p_flags[p] \ {"NO_MAP"} /\ Open(n, p) = Open(s, p)
    <3>1. p \in UserSlots /\ ~isemptyp(s, p)
      BY <1>1
    <3> HIDE <1>1, <1>3
    <3> QED
      BY <1>4, <2>1, <3>1, ClearsFlag
  <2> HIDE <1>3
  <2> QED
    BY <1>1, <1>3, <2>2 DEF KeepsFlags
<1>5. CASE s.p_flags[p] = {}
  <2>1. s.p_flags[p] \ {"NO_MAP"} = s.p_flags[p]
    BY <1>5
  <2>2. [s EXCEPT !.p_flags[p] = @ \ {"NO_MAP"}] = s
    BY <1>2, <2>1 DEF KernelState
  <2>3. n = s
    BY <1>1, <1>3, <1>5, <2>2 DEF do_newmap
  <2> HIDE <1>3
  <2> QED
    BY <1>1, <1>2, <1>3, <2>3, OnUserSame DEF KeepsFlags
<1> QED
  BY <1>4, <1>5

\* do_exec(), for a process that waits for its answer, and a request of MM
LEMMA ExecKeeps ==
  ASSUME NEW s, KInv(s), s.proc_ptr = SYSTASK, NEW m, m.i1 \in UserSlots,
         ~isemptyp(s, m.i1), "RECEIVING" \in s.p_flags[m.i1],
         "SENDING" \notin s.p_flags[m.i1], s.p_getfrom[MM] # ANY
  PROVE  LET n == do_exec(s, m).k
         IN /\ KInv(n) /\ OnUser(s, n, m.i1) /\ SameUser(s, n, m.i1)
            /\ KeepsFlags(s, n, m.i1, {"RECEIVING"}) /\ Open(n, m.i1) = Open(s, m.i1)
<1>1. PICK p : p = m.i1
  OBVIOUS
<1>2. /\ s \in KernelState /\ p \in Procs /\ p # MM /\ p \in Schedulable
      /\ SYSTASK \in Schedulable /\ Class(SYSTASK) = TASK_Q
  <2>1. MM \in Servers /\ SYSTASK \in Tasks
    BY DEF Servers, Tasks
  <2> QED
    BY <1>1, <2>1, ProcFacts DEF KInv, Base, Class
<1>3. PICK k1 : k1 = IF m.i2 # 0 THEN cause_sig(s, p, "SIGTRAP") ELSE s
  OBVIOUS
<1>4. KInv(k1) /\ SigEffect(s, k1)
  <2>1. "SIGTRAP" \in Signals
    BY DEF Signals
  <2>2. KInv(cause_sig(s, p, "SIGTRAP")) /\ SigEffect(s, cause_sig(s, p, "SIGTRAP"))
    BY <1>1, <2>1, CausesSig
  <2> QED
    BY <1>2, <1>3, <2>2, SigEffectSame
<1>5. Quiet(s, k1)
  BY <1>4 DEF SigEffect, Heard
<1>6. k1.proc_ptr = SYSTASK
  <2>1. s.rdy[TASK_Q] # << >> /\ Head(s.rdy[TASK_Q]) = SYSTASK
    BY <1>2, Running DEF KInv
  <2>2. k1.rdy[TASK_Q] = s.rdy[TASK_Q]
    BY <1>4 DEF SigEffect
  <2> QED
    BY <1>4, <2>1, <2>2 DEF KInv, Scheduled, Top
<1>7. \A f \in Flags \ {"PENDING", "SIG_PENDING"} :
       f \in k1.p_flags[p] <=> f \in s.p_flags[p]
  BY <1>2, <1>4 DEF SigEffect
<1>8. /\ "RECEIVING" \in k1.p_flags[p] /\ "SENDING" \notin k1.p_flags[p]
      /\ ~isemptyp(k1, p) /\ k1.p_flags[p] # {}
  <2>1. "RECEIVING" \in Flags \ {"PENDING", "SIG_PENDING"}
        /\ "SENDING" \in Flags \ {"PENDING", "SIG_PENDING"}
    BY DEF Flags
  <2>2. k1.p_priority = s.p_priority
    BY <1>4 DEF SigEffect
  <2> QED
    BY <1>1, <1>7, <2>1, <2>2 DEF isemptyp
<1>9. PICK n : n = Wake([k1 EXCEPT !.p_flags[p] = @ \ {"RECEIVING"}], p)
  OBVIOUS
<1>10. do_exec(s, m).k = n
  <2>1. PICK k2 : k2 = [k1 EXCEPT !.p_flags[p] = @ \ {"RECEIVING"}]
    OBVIOUS
  <2>2. do_exec(s, m).k = IF k2.p_flags[p] = {} THEN ready(k2, p) ELSE k2
    BY <1>1, <1>3, <2>1 DEF do_exec
  <2> HIDE <1>3
  <2> QED
    BY <1>9, <2>1, <2>2 DEF Wake
<1>11. /\ KInv(n) /\ OnUser(k1, n, p) /\ SameUser(k1, n, p)
       /\ n.p_flags[p] = k1.p_flags[p] \ {"RECEIVING"} /\ Open(n, p) = Open(k1, p)
  <2> HIDE <1>3
  <2> QED
    BY <1>1, <1>4, <1>6, <1>8, <1>9, ClearsFlag
<1>12. OnUser(s, n, p)
  <2>1. /\ n \in KernelState /\ n.p_int_blocked = s.p_int_blocked /\ n.mess = s.mess
    <3>1. n \in KernelState /\ n.p_int_blocked = s.p_int_blocked /\ n.mess = k1.mess
      BY <1>4, <1>11 DEF OnUser, SigEffect
    <3>2. k1.mess = s.mess
      BY <1>2, <1>4, <1>5 DEF Quiet, SigEffect, KernelState
    <3> QED
      BY <3>1, <3>2
  <2>2. \A x \in Procs \ {p} :
       /\ n.p_getfrom[x] = s.p_getfrom[x] /\ n.p_sendto[x] = s.p_sendto[x]
       /\ n.p_priority[x] = s.p_priority[x]
    BY <1>4, <1>11 DEF OnUser, SigEffect
  <2>3. \A x \in Procs \ {MM} : \A f \in Flags \ {"PENDING", "SIG_PENDING"} :
          f \in k1.p_flags[x] <=> f \in s.p_flags[x]
    BY <1>4 DEF SigEffect
  <2>4. k1.p_flags[MM] = s.p_flags[MM]
    BY <1>5 DEF Quiet
  <2>5. \A x \in Procs \ {p} : \A f \in Flags \ {"PENDING", "SIG_PENDING"} :
          f \in n.p_flags[x] <=> f \in k1.p_flags[x]
    BY <1>11 DEF OnUser
  <2>6. \A x \in Procs \ {p}, f \in Flags \ {"PENDING", "SIG_PENDING"} :
          f \in n.p_flags[x] <=> f \in s.p_flags[x]
    BY <2>3, <2>4, <2>5
  <2>7. \A t \in Tasks \cup Servers : n.p_flags[t] = s.p_flags[t]
    <3>1. \A t \in Tasks \cup {FS} : k1.p_flags[t] = s.p_flags[t]
      BY <1>4 DEF SigEffect
    <3>2. Servers = {MM, FS}
      BY DEF Servers
    <3> QED
      BY <1>11, <2>4, <3>1, <3>2 DEF OnUser
  <2>8. \A x \in Slots \ {p} : n.p_pid[x] = s.p_pid[x]
    BY <1>4, <1>11 DEF OnUser, SigEffect
  <2>9. \A x \in UserSlots \ {p} : Open(n, x) = Open(s, x)
    <3>1. \A x \in UserSlots \ {p} : Open(n, x) = Open(k1, x)
      BY <1>11 DEF OnUser
    <3>2. \A x \in UserSlots : Open(k1, x) = Open(s, x)
      BY <1>5 DEF Quiet
    <3> QED
      BY <3>1, <3>2
  <2>10. HeadsKept(s, n, HARDWARE) /\ n.rdy[TASK_Q] = s.rdy[TASK_Q]
    <3>1. HeadsKept(s, k1, HARDWARE) /\ HeadsKept(k1, n, HARDWARE)
          /\ n.rdy[TASK_Q] = s.rdy[TASK_Q]
      BY <1>4, <1>11 DEF OnUser, SigEffect
    <3> QED
      BY <3>1 DEF HeadsKept
  <2> QED
    BY <2>1, <2>2, <2>6, <2>7, <2>8, <2>9, <2>10 DEF OnUser
<1>13. SameUser(s, n, p) /\ KeepsFlags(s, n, p, {"RECEIVING"}) /\ Open(n, p) = Open(s, p)
  <2>1. /\ n.p_priority[p] = s.p_priority[p] /\ n.p_pid[p] = s.p_pid[p]
        /\ n.p_getfrom[p] = s.p_getfrom[p] /\ n.p_sendto[p] = s.p_sendto[p]
    BY <1>4, <1>11 DEF SameUser, SigEffect
  <2>2. "SENDING" \notin n.p_flags[p] /\ "SENDING" \notin s.p_flags[p]
    BY <1>1, <1>8, <1>11
  <2>3. KeepsFlags(s, n, p, {"RECEIVING"})
    BY <1>7, <1>11 DEF KeepsFlags
  <2>4. Open(n, p) = Open(s, p)
    BY <1>1, <1>5, <1>11 DEF Quiet
  <2> QED
    BY <2>1, <2>2, <2>3, <2>4 DEF SameUser
<1> HIDE <1>3, <1>9
<1> QED
  BY <1>1, <1>10, <1>11, <1>12, <1>13

\* A handler stops a process.
LEMMA StopsUser ==
  ASSUME NEW s, KInv(s), s.proc_ptr = SYSTASK, NEW p \in UserSlots, ~isemptyp(s, p)
  PROVE  LET n == [Halt(s, p) EXCEPT !.p_flags[p] = @ \cup {"P_STOP"}]
         IN /\ KInv(n) /\ OnUser(s, n, p) /\ SameUser(s, n, p)
            /\ KeepsFlags(s, n, p, {"P_STOP"}) /\ Open(n, p) = Open(s, p)
<1>1. /\ Base(s) /\ s \in KernelState /\ p \in Schedulable /\ p \in Procs
      /\ Lists(s.rdy, Ready(s)) /\ p \notin Tasks \cup Servers
      /\ Classed(s.p_priority) /\ s.proc_ptr = Top(s.rdy)
  BY ProcFacts DEF KInv, Base, Scheduled
<1>2. PICK h : h = Halt(s, p)
  OBVIOUS
<1>3. h \in KernelState /\ SameData(s, h) /\ Distinct(s.rdy[Class(p)])
  <2>1. Class(p) \in Queues
    BY <1>1, Classes
  <2> QED
    BY <1>1, <1>2, <2>1, HaltKeeps DEF Lists
<1>4. PICK g : g = s.p_flags[p] \cup {"P_STOP"}
  OBVIOUS
<1>5. PICK n : n = [h EXCEPT !.p_flags[p] = g]
  OBVIOUS
<1>6. [Halt(s, p) EXCEPT !.p_flags[p] = @ \cup {"P_STOP"}] = n
  <2>1. h.p_flags[p] = s.p_flags[p]
    BY <1>3 DEF SameData
  <2> QED
    BY <1>2, <1>3, <1>4, <1>5, <2>1 DEF KernelState
<1>7. /\ SameSignals(s, n) /\ n.p_getfrom = s.p_getfrom /\ n.p_int_blocked = s.p_int_blocked
      /\ n.p_pid = s.p_pid /\ n.mess = s.mess /\ n.rdy = h.rdy /\ n.proc_ptr = h.proc_ptr
      /\ n.p_flags = [s.p_flags EXCEPT ![p] = g]
      /\ n \in KernelState
  <2>1. s.p_flags \in [Procs -> SUBSET Flags]
    BY <1>1 DEF KernelState
  <2>2. g \in SUBSET Flags
    BY <1>1, <1>4, <2>1 DEF Flags
  <2>3. [s.p_flags EXCEPT ![p] = g] \in [Procs -> SUBSET Flags]
    BY <1>1, <2>1, <2>2
  <2>4. n = [h EXCEPT !.p_flags = [s.p_flags EXCEPT ![p] = g]]
    BY <1>3, <1>5 DEF KernelState, SameData
  <2>5. n \in KernelState
    BY <1>3, <2>3, <2>4 DEF KernelState
  <2>6. /\ n.p_flags = [s.p_flags EXCEPT ![p] = g]
        /\ n.p_getfrom = h.p_getfrom /\ n.p_int_blocked = h.p_int_blocked
        /\ n.p_pid = h.p_pid /\ n.mess = h.mess /\ n.rdy = h.rdy /\ n.proc_ptr = h.proc_ptr
        /\ n.p_priority = h.p_priority /\ n.p_sendto = h.p_sendto
        /\ n.p_callerq = h.p_callerq /\ n.p_alarm = h.p_alarm
        /\ n.p_pending = h.p_pending /\ n.p_pendcount = h.p_pendcount
        /\ n.sig_procs = h.sig_procs /\ n.panic = h.panic
    BY <1>3, <2>4 DEF KernelState
  <2> HIDE <1>2, <1>5
  <2> QED
    BY <1>3, <2>5, <2>6 DEF SameData, SameSignals
<1>8. n.p_flags[p] = g /\ \A x \in Procs \ {p} : n.p_flags[x] = s.p_flags[x]
  BY <1>1, <1>7 DEF KernelState
<1>9. Base(n)
  <2>1. \A f \in {"SENDING", "PENDING", "SIG_PENDING"} :
          f \in n.p_flags[p] <=> f \in s.p_flags[p]
    BY <1>4, <1>8
  <2>2. /\ "RECEIVING" \in n.p_flags[p] => n.p_getfrom[p] \in Servers
        /\ "SENDING" \in n.p_flags[p] =>
             "RECEIVING" \in n.p_flags[p] /\ n.p_sendto[p] = n.p_getfrom[p]
    BY <1>1, <1>4, <1>7, <1>8 DEF Base, UserOK, SameSignals
  <2> HIDE <1>4, <1>5
  <2> QED
    BY <1>1, <1>7, <1>8, <2>1, <2>2, BaseStep
<1>10. Lists(n.rdy, Ready(n)) /\ n.proc_ptr = Top(n.rdy) /\ HeadsKept(s, n, p)
  <2>1. n.p_flags[p] # {}
    BY <1>4, <1>8
  <2>2. n.rdy = Halt(s, p).rdy /\ n.proc_ptr = Halt(s, p).proc_ptr
        /\ n.p_priority = s.p_priority
    BY <1>2, <1>7 DEF SameSignals
  <2> HIDE <1>4, <1>5, <1>2
  <2> QED
    BY <1>1, <1>7, <1>8, <2>1, <2>2, Block
<1>11. \A q \in {TASK_Q, SERVER_Q} : n.rdy[q] = s.rdy[q]
  <2>1. Class(p) = USER_Q /\ TASK_Q # USER_Q /\ SERVER_Q # USER_Q
    BY <1>1 DEF Class, TASK_Q, SERVER_Q, USER_Q
  <2>2. CASE s.p_flags[p] = {}
    <3>1. h.rdy = [s.rdy EXCEPT ![Class(p)] = Unlink(s.rdy[Class(p)], p)]
      BY <1>1, <1>2, <1>3, <2>2, UnreadyEffect DEF Halt
    <3> QED
      BY <1>1, <1>7, <2>1, <3>1 DEF KernelState
  <2>3. CASE s.p_flags[p] # {}
    BY <1>2, <1>7, <2>3 DEF Halt
  <2> QED
    BY <2>2, <2>3
<1>12. KInv(n)
  <2>1. MMHears(n)
    <3>1. MM \in Procs \ {p}
      BY <1>1, ProcFacts DEF Servers
    <3> QED
      BY <1>7, <1>8, <3>1 DEF KInv, MMHears, SameSignals
  <2> QED
    BY <1>9, <1>10, <2>1 DEF KInv, Scheduled
<1>13. OnUser(s, n, p)
  <2>1. \A t \in Tasks \cup Servers : n.p_flags[t] = s.p_flags[t]
    BY <1>1, <1>8, ProcFacts
  <2>2. \A x \in UserSlots : Open(n, x) = Open(s, x)
    BY <1>7 DEF Open, SameSignals
  <2>3. \A x \in Procs \ {p}, f \in Flags \ {"PENDING", "SIG_PENDING"} :
       f \in n.p_flags[x] <=> f \in s.p_flags[x]
    BY <1>8
  <2>4. HeadsKept(s, n, HARDWARE) /\ n.rdy[TASK_Q] = s.rdy[TASK_Q]
    BY <1>11 DEF HeadsKept
  <2> QED
    BY <1>7, <2>1, <2>2, <2>3, <2>4 DEF OnUser, SameSignals
<1>14. SameUser(s, n, p) /\ KeepsFlags(s, n, p, {"P_STOP"}) /\ Open(n, p) = Open(s, p)
  BY <1>4, <1>7, <1>8 DEF SameUser, KeepsFlags, Open, SameSignals
<1> HIDE <1>5
<1> QED
  BY <1>6, <1>12, <1>13, <1>14

\* do_trace(): stop, and resume of a process that is stopped
LEMMA TraceKeeps ==
  ASSUME NEW s, KInv(s), s.proc_ptr = SYSTASK, NEW m, m.i1 \in UserSlots,
         m.i2 = T_STOP \/ (m.i2 = T_RESUME /\ "P_STOP" \in s.p_flags[m.i1])
  PROVE  LET n == do_trace(s, m).k
         IN /\ KInv(n) /\ OnUser(s, n, m.i1) /\ SameUser(s, n, m.i1)
            /\ KeepsFlags(s, n, m.i1, {"P_STOP"}) /\ Open(n, m.i1) = Open(s, m.i1)
<1>1. PICK p : p = m.i1
  OBVIOUS
<1>2. s \in KernelState /\ p \in UserSlots
  BY <1>1 DEF KInv, Base
<1>3. PICK n : n = do_trace(s, m).k
  OBVIOUS
<1>4. CASE isemptyp(s, p)
  <2>1. n = s
    BY <1>1, <1>3, <1>4 DEF do_trace
  <2> HIDE <1>3
  <2> QED
    BY <1>1, <1>2, <1>3, <2>1, OnUserSame DEF KeepsFlags
<1>5. CASE ~isemptyp(s, p) /\ m.i2 = T_STOP
  <2>1. n = [Halt(s, p) EXCEPT !.p_flags[p] = @ \cup {"P_STOP"}]
    BY <1>1, <1>3, <1>5 DEF do_trace, Halt
  <2>2. /\ KInv(n) /\ OnUser(s, n, p) /\ SameUser(s, n, p)
        /\ KeepsFlags(s, n, p, {"P_STOP"}) /\ Open(n, p) = Open(s, p)
    <3> HIDE <1>1, <1>3
    <3> QED
      BY <1>2, <1>5, <2>1, StopsUser
  <2> HIDE <1>3
  <2> QED
    BY <1>1, <1>3, <2>2
<1>6. CASE ~isemptyp(s, p) /\ m.i2 = T_RESUME /\ "P_STOP" \in s.p_flags[p]
  <2>1. T_RESUME # T_STOP
    BY DEF T_RESUME, T_STOP
  <2>2. n = Wake([s EXCEPT !.p_flags[p] = @ \ {"P_STOP"}], p)
    BY <1>1, <1>3, <1>6, <2>1 DEF do_trace, Wake
  <2>3. /\ KInv(n) /\ OnUser(s, n, p) /\ SameUser(s, n, p)
        /\ n.p_flags[p] = s.p_flags[p] \ {"P_STOP"} /\ Open(n, p) = Open(s, p)
    <3>1. s.p_flags[p] # {}
      BY <1>6
    <3> HIDE <1>1, <1>3
    <3> QED
      BY <1>2, <1>6, <2>2, <3>1, ClearsFlag
  <2> HIDE <1>3
  <2> QED
    BY <1>1, <1>3, <2>3 DEF KeepsFlags
<1> QED
  BY <1>1, <1>4, <1>5, <1>6

\* One signal less of p, and SIG_PENDING goes with the last
LessIs(s, p, g, n) ==
  /\ n \in KernelState
  /\ n.p_priority = s.p_priority /\ n.p_sendto = s.p_sendto
  /\ n.p_callerq = s.p_callerq /\ n.p_alarm = s.p_alarm
  /\ n.panic = s.panic /\ n.p_getfrom = s.p_getfrom
  /\ n.p_int_blocked = s.p_int_blocked
  /\ n.p_pid = s.p_pid /\ n.user_priority = s.user_priority
  /\ n.mess = s.mess /\ n.sig_procs = s.sig_procs
  /\ n.rdy = s.rdy /\ n.proc_ptr = s.proc_ptr
  /\ n.p_pending = s.p_pending
  /\ n.p_pendcount = [s.p_pendcount EXCEPT ![p] = s.p_pendcount[p] - 1]
  /\ n.p_flags = [s.p_flags EXCEPT ![p] = g]

\* A signal that MM has finished with is one it was told of.
LEMMA LessBase ==
  ASSUME NEW s, Base(s), NEW p \in UserSlots, ~isemptyp(s, p), Open(s, p) >= 1,
         NEW g, NEW n, LessIs(s, p, g, n),
         g = IF s.p_pendcount[p] = 1 THEN s.p_flags[p] \ {"SIG_PENDING"} ELSE s.p_flags[p]
  PROVE  /\ Base(n) /\ Open(n, p) = Open(s, p) - 1 /\ s.p_pendcount[p] >= 1
         /\ (\A u \in UserSlots \ {p} : Open(n, u) = Open(s, u))
         /\ n.p_flags[p] = g
         /\ \A x \in Procs \ {p} : n.p_flags[x] = s.p_flags[x]
<1>1. /\ s \in KernelState /\ p \in Procs /\ p \in Slots /\ p \notin Tasks \cup Servers
      /\ p # IDLE /\ p # HARDWARE /\ UserSlots \subseteq Procs /\ UserSlots \subseteq Slots
      /\ Servers \subseteq Slots
  BY ProcFacts DEF Base
<1>2. PICK c : c = s.p_pendcount[p]
  OBVIOUS
<1>3. PICK a : a = Cardinality(s.p_pending[p])
  OBVIOUS
<1>4. /\ c \in Nat /\ a \in Nat /\ a <= c /\ c - a >= 1
      /\ "PENDING" \in s.p_flags[p] <=> s.p_pending[p] # {}
      /\ "SIG_PENDING" \in s.p_flags[p] <=> c > 0
      /\ IsFiniteSet(s.p_pending[p])
  <2>1. UserOK(s, p)
    BY DEF Base
  <2>2. IsFiniteSet(s.p_pending[p]) /\ Cardinality(s.p_pending[p]) <= s.p_pendcount[p]
        /\ ("PENDING" \in s.p_flags[p] <=> s.p_pending[p] # {})
        /\ ("SIG_PENDING" \in s.p_flags[p] <=> s.p_pendcount[p] > 0)
    BY <2>1 DEF UserOK
  <2>3. a \in Nat
    BY <1>3, <2>2, FS_CardinalityType
  <2>4. c \in Nat
    BY <1>1, <1>2 DEF KernelState
  <2>5. c - a >= 1
    BY <1>2, <1>3 DEF Open
  <2> QED
    BY <1>2, <1>3, <2>2, <2>3, <2>4, <2>5
<1>5. /\ n.p_flags[p] = g /\ (\A x \in Procs \ {p} : n.p_flags[x] = s.p_flags[x])
      /\ n.p_pendcount[p] = c - 1
      /\ \A x \in Slots \ {p} : n.p_pendcount[x] = s.p_pendcount[x]
  <2>1. n.p_flags = [s.p_flags EXCEPT ![p] = g]
        /\ n.p_pendcount = [s.p_pendcount EXCEPT ![p] = c - 1]
    BY <1>2 DEF LessIs
  <2>2. s.p_flags \in [Procs -> SUBSET Flags] /\ s.p_pendcount \in [Slots -> Nat]
    BY <1>1 DEF KernelState
  <2> QED
    BY <1>1, <2>1, <2>2
<1>6. /\ \A f \in Flags \ {"SIG_PENDING"} : f \in g <=> f \in s.p_flags[p]
      /\ "SIG_PENDING" \in g <=> c - 1 > 0
      /\ "PENDING" \in g <=> "PENDING" \in s.p_flags[p]
      /\ "SENDING" \in g <=> "SENDING" \in s.p_flags[p]
      /\ "RECEIVING" \in g <=> "RECEIVING" \in s.p_flags[p]
  <2>1. g = IF c = 1 THEN s.p_flags[p] \ {"SIG_PENDING"} ELSE s.p_flags[p]
    BY <1>2
  <2>2. "SIG_PENDING" \in g <=> c - 1 > 0
    BY <1>4, <2>1
  <2> QED
    BY <2>1, <2>2
<1>7. /\ \A x \in UserSlots : isemptyp(n, x) <=> isemptyp(s, x)
      /\ n.p_priority = s.p_priority /\ n.p_sendto = s.p_sendto
      /\ n.p_callerq = s.p_callerq /\ n.p_alarm = s.p_alarm
      /\ n.p_getfrom = s.p_getfrom /\ n.p_pending = s.p_pending
      /\ n.sig_procs = s.sig_procs /\ n.panic = s.panic
  BY DEF LessIs, isemptyp
<1>8. UserOK(n, p)
  <2>1. UserOK(s, p)
    BY DEF Base
  <2>2. Cardinality(n.p_pending[p]) <= n.p_pendcount[p]
    BY <1>3, <1>4, <1>5, <1>7
  <2>3. "SIG_PENDING" \in n.p_flags[p] <=> n.p_pendcount[p] > 0
    BY <1>5, <1>6
  <2>4. "RECEIVING" \in n.p_flags[p] => n.p_getfrom[p] \in Servers
    BY <1>5, <1>6, <1>7, <2>1 DEF UserOK
  <2>5. "SENDING" \in n.p_flags[p] =>
          "RECEIVING" \in n.p_flags[p] /\ n.p_sendto[p] = n.p_getfrom[p]
    BY <1>5, <1>6, <1>7, <2>1 DEF UserOK
  <2>6. IsFiniteSet(n.p_pending[p]) /\ ("PENDING" \in n.p_flags[p] <=> n.p_pending[p] # {})
    BY <1>4, <1>5, <1>6, <1>7
  <2>7. ~isemptyp(n, p)
    BY <1>7
  <2> QED
    BY <2>2, <2>3, <2>4, <2>5, <2>6, <2>7 DEF UserOK
<1>9. \A u \in UserSlots : UserOK(n, u)
  <2> SUFFICES ASSUME NEW u \in UserSlots, u # p PROVE UserOK(n, u)
    BY <1>8
  <2>1. UserOK(s, u) /\ u \in Procs \ {p} /\ u \in Slots \ {p}
    BY <1>1 DEF Base
  <2>2. n.p_flags[u] = s.p_flags[u] /\ n.p_pendcount[u] = s.p_pendcount[u]
    BY <1>5, <2>1
  <2> QED
    BY <1>7, <2>1, <2>2 DEF UserOK
<1>10. SystemFlags(n)
  <2>1. \A x \in Tasks \cup Servers \cup {IDLE, HARDWARE} : n.p_flags[x] = s.p_flags[x]
    BY <1>1, <1>5, ProcFacts
  <2>2. SystemFlags(s) /\ MM \in Servers /\ FS \in Servers
    BY DEF Base, Servers
  <2> QED
    BY <1>7, <2>1, <2>2 DEF SystemFlags
<1>11. Senders(n.p_flags, n.p_sendto, n.p_callerq)
  <2>1. \A c1 \in Procs : "SENDING" \in n.p_flags[c1] <=> "SENDING" \in s.p_flags[c1]
    BY <1>5, <1>6
  <2> QED
    BY <1>7, <2>1 DEF Base, Senders
<1>12. SigsCounted(n)
  <2>1. \A x \in Slots : "PENDING" \in n.p_flags[x] <=> "PENDING" \in s.p_flags[x]
    BY <1>1, <1>5, <1>6, ProcFacts
  <2>2. {x \in Slots : "PENDING" \in n.p_flags[x]} = {x \in Slots : "PENDING" \in s.p_flags[x]}
    BY <2>1
  <2> QED
    BY <1>7, <2>2 DEF Base, SigsCounted
<1>13. Base(n)
  <2>1. n \in KernelState
    BY DEF LessIs
  <2> QED
    BY <1>7, <1>9, <1>10, <1>11, <1>12, <2>1 DEF Base
<1>14. Open(n, p) = Open(s, p) - 1
  <2>1. Open(n, p) = (c - 1) - a /\ Open(s, p) = c - a
    BY <1>2, <1>3, <1>5, <1>7 DEF Open
  <2> QED
    BY <1>4, <2>1
<1>15. \A u \in UserSlots \ {p} : Open(n, u) = Open(s, u)
  BY <1>1, <1>5, <1>7 DEF Open
<1> QED
  BY <1>2, <1>4, <1>5, <1>13, <1>14, <1>15

\* do_endsig(), step by step
Less(s, p) == [s EXCEPT !.p_pendcount[p] = @ - 1]
LessNone(s, p) == [Less(s, p) EXCEPT !.p_flags[p] = @ \ {"SIG_PENDING"}]

\* What do_endsig() does to a process in use
LEMMA EndsigUnfolds ==
  ASSUME NEW s, NEW m, ~isemptyp(s, m.i1)
  PROVE  do_endsig(s, m).k =
           IF s.p_pendcount[m.i1] = 0 THEN s
           ELSE IF Less(s, m.i1).p_pendcount[m.i1] # 0 THEN Less(s, m.i1)
           ELSE Wake(LessNone(s, m.i1), m.i1)
BY DEF do_endsig, Less, LessNone, Wake

\* do_endsig(), for a signal that MM was told of or a process that has ended
LEMMA EndsigKeeps ==
  ASSUME NEW s, KInv(s), s.proc_ptr = SYSTASK, NEW m, m.i1 \in UserSlots,
         ~isemptyp(s, m.i1) => Open(s, m.i1) >= 1
  PROVE  LET n == do_endsig(s, m).k
         IN /\ KInv(n) /\ OnUser(s, n, m.i1) /\ SameUser(s, n, m.i1)
            /\ KeepsFlags(s, n, m.i1, {})
            /\ ~isemptyp(s, m.i1) => Open(n, m.i1) = Open(s, m.i1) - 1
<1>1. PICK p : p = m.i1
  OBVIOUS
<1>2. /\ Base(s) /\ s \in KernelState /\ p \in UserSlots /\ p \in Procs /\ p \in Schedulable
      /\ Lists(s.rdy, Ready(s)) /\ p \notin Tasks \cup Servers /\ p \in Slots
      /\ Classed(s.p_priority) /\ s.proc_ptr = Top(s.rdy)
      /\ SYSTASK \in Schedulable /\ SYSTASK \in Tasks /\ MM \in Procs \ {p}
  BY <1>1, ProcFacts DEF KInv, Base, Scheduled, Tasks, Servers
<1>3. PICK n : n = do_endsig(s, m).k
  OBVIOUS
<1>4. CASE isemptyp(s, p)
  <2>1. n = s
    BY <1>1, <1>3, <1>4 DEF do_endsig
  <2> HIDE <1>3
  <2> QED
    BY <1>1, <1>2, <1>3, <1>4, <2>1, OnUserSame
<1>5. CASE ~isemptyp(s, p)
  <2>1. PICK g : g = IF s.p_pendcount[p] = 1 THEN s.p_flags[p] \ {"SIG_PENDING"}
                     ELSE s.p_flags[p]
    OBVIOUS
  <2>2. PICK c : c = s.p_pendcount[p] - 1
    OBVIOUS
  <2>3. PICK l : l = [s EXCEPT !.p_pendcount[p] = c, !.p_flags[p] = g]
    OBVIOUS
  <2>4. s.p_pendcount[p] >= 1 /\ s.p_pendcount[p] \in Nat
    <3>1. s.p_pendcount[p] \in Nat
      BY <1>2 DEF KernelState
    <3>2. PICK a \in Nat : a = Cardinality(s.p_pending[p])
      BY <1>2, FS_CardinalityType DEF Base, UserOK
    <3>3. s.p_pendcount[p] - a >= 1
      BY <1>1, <1>5, <3>2 DEF Open
    <3> QED
      BY <3>1, <3>2, <3>3
  <2>5. /\ s.p_flags \in [Procs -> SUBSET Flags] /\ s.p_pendcount \in [Slots -> Nat]
    BY <1>2 DEF KernelState
  <2>6. LessIs(s, p, g, l)
    <3>1. g \in SUBSET Flags
      BY <1>2, <2>1, <2>5
    <3>2. c \in Nat
      BY <2>2, <2>4
    <3>3. PICK F : F = [s.p_flags EXCEPT ![p] = g]
      OBVIOUS
    <3>4. PICK D : D = [s.p_pendcount EXCEPT ![p] = c]
      OBVIOUS
    <3>5. F \in [Procs -> SUBSET Flags] /\ D \in [Slots -> Nat]
      BY <1>2, <2>5, <3>1, <3>2, <3>3, <3>4
    <3>6. l = [s EXCEPT !.p_pendcount = D, !.p_flags = F]
      BY <1>2, <2>3, <3>3, <3>4 DEF KernelState
    <3>7. l \in KernelState /\ l.p_flags = F /\ l.p_pendcount = D
          /\ l.p_priority = s.p_priority /\ l.p_sendto = s.p_sendto
          /\ l.p_callerq = s.p_callerq /\ l.p_alarm = s.p_alarm
          /\ l.panic = s.panic /\ l.p_getfrom = s.p_getfrom
          /\ l.p_int_blocked = s.p_int_blocked
          /\ l.p_pid = s.p_pid /\ l.user_priority = s.user_priority
          /\ l.mess = s.mess /\ l.sig_procs = s.sig_procs
          /\ l.rdy = s.rdy /\ l.proc_ptr = s.proc_ptr
          /\ l.p_pending = s.p_pending
      BY <1>2, <3>5, <3>6 DEF KernelState
    <3> HIDE <2>3, <2>1
    <3> QED
      BY <2>2, <3>3, <3>4, <3>7 DEF LessIs
  <2>7. /\ Base(l) /\ Open(l, p) = Open(s, p) - 1
        /\ (\A u \in UserSlots \ {p} : Open(l, u) = Open(s, u))
        /\ l.p_flags[p] = g
        /\ \A x \in Procs \ {p} : l.p_flags[x] = s.p_flags[x]
    <3>1. Open(s, p) >= 1
      BY <1>1, <1>5
    <3> HIDE <2>3
    <3> QED
      BY <1>2, <1>5, <2>1, <2>6, <3>1, LessBase
  <2>8. /\ l \in KernelState /\ l.p_priority = s.p_priority /\ l.rdy = s.rdy
        /\ l.proc_ptr = s.proc_ptr /\ l.sig_procs = s.sig_procs
        /\ l.p_getfrom = s.p_getfrom /\ l.p_int_blocked = s.p_int_blocked
        /\ l.mess = s.mess /\ l.p_pid = s.p_pid /\ l.p_sendto = s.p_sendto
        /\ \A x : isemptyp(l, x) <=> isemptyp(s, x)
    BY <2>6 DEF LessIs, isemptyp
  <2>9. \A f \in Flags \ {"PENDING", "SIG_PENDING"} : f \in l.p_flags[p] <=> f \in s.p_flags[p]
    BY <2>1, <2>7
  <2>10. /\ OnUser(s, l, p) /\ SameUser(s, l, p) /\ KeepsFlags(s, l, p, {}) /\ MMHears(l)
    <3>1. \A t \in Tasks \cup Servers : l.p_flags[t] = s.p_flags[t]
      BY <1>2, <2>7, ProcFacts
    <3>2. HeadsKept(s, l, HARDWARE) /\ l.rdy[TASK_Q] = s.rdy[TASK_Q]
      BY <2>8 DEF HeadsKept
    <3>3. OnUser(s, l, p)
      BY <2>7, <2>8, <3>1, <3>2 DEF OnUser
    <3>4. SameUser(s, l, p) /\ KeepsFlags(s, l, p, {})
      BY <2>8, <2>9 DEF SameUser, KeepsFlags, Flags
    <3>5. MMHears(l)
      BY <1>2, <2>7, <2>8 DEF KInv, MMHears
    <3> QED
      BY <3>3, <3>4, <3>5
  <2>13. PICK e1 : e1 = Less(s, p)
    OBVIOUS
  <2>16. PICK e2 : e2 = LessNone(s, p)
    OBVIOUS
  <2>17. /\ e1.p_pendcount[p] = c /\ e1.p_flags = s.p_flags
         /\ e1 = [s EXCEPT !.p_pendcount[p] = c]
    BY <1>2, <2>2, <2>5, <2>13 DEF KernelState, Less
  <2>14. s.p_pendcount[p] = 1 => e2 = l
    <3>1. e2 = [e1 EXCEPT !.p_flags[p] = @ \ {"SIG_PENDING"}]
      BY <2>13, <2>16 DEF LessNone
    <3> QED
      BY <1>2, <2>1, <2>3, <2>17, <3>1 DEF KernelState
  <2>15. n = IF s.p_pendcount[p] = 0 THEN s
             ELSE IF e1.p_pendcount[p] # 0 THEN e1 ELSE Wake(e2, p)
    BY <1>1, <1>3, <1>5, <2>13, <2>16, EndsigUnfolds
  <2>11. CASE g # {} \/ s.p_flags[p] = {}
    <3>1. Ready(l) = Ready(s)
      <4>1. g = {} => s.p_flags[p] = {}
        BY <2>11
      <4>2. s.p_flags[p] = {} => g = {}
        BY <2>1
      <4>3. \A x \in Schedulable : l.p_flags[x] = {} <=> s.p_flags[x] = {}
        BY <2>7, <4>1, <4>2, ProcFacts
      <4> QED
        BY <2>8, <4>3 DEF Ready
    <3>2. KInv(l)
      BY <1>2, <2>7, <2>8, <2>10, <3>1 DEF KInv, Scheduled
    <3>3. s.p_pendcount[p] = 1 => g # {}
      <4>1. "SIG_PENDING" \in s.p_flags[p]
        BY <1>2, <2>4 DEF Base, UserOK
      <4> QED
        BY <2>11, <4>1
    <3>4. n = l
      <4>1. CASE s.p_pendcount[p] = 1
        <5>1. l.p_flags[p] # {}
          BY <2>7, <3>3, <4>1
        <5>2. e2 = l
          BY <2>14, <4>1
        <5> QED
          <6> HIDE <2>1, <2>3
          <6>1. c = 0 /\ s.p_pendcount[p] # 0
            BY <2>2, <4>1
          <6>2. n = Wake(e2, p)
            BY <2>15, <2>17, <6>1
          <6> QED
            BY <5>1, <5>2, <6>2 DEF Wake
      <4>2. CASE s.p_pendcount[p] # 1
        <5>1. g = s.p_flags[p]
          BY <2>1, <4>2
        <5>2. [s.p_flags EXCEPT ![p] = g] = s.p_flags
          BY <2>5, <5>1
        <5>3. e1 = l
          <6>1. PICK D : D = [s.p_pendcount EXCEPT ![p] = c]
            OBVIOUS
          <6>2. PICK F : F = [s.p_flags EXCEPT ![p] = g]
            OBVIOUS
          <6>3. l = [s EXCEPT !.p_pendcount = D, !.p_flags = F]
            BY <1>2, <2>3, <6>1, <6>2 DEF KernelState
          <6>4. e1 = [s EXCEPT !.p_pendcount = D]
            BY <1>2, <2>17, <6>1 DEF KernelState
          <6>5. F = s.p_flags
            BY <5>2, <6>2
          <6> HIDE <2>3, <6>1, <6>2
          <6> QED
            BY <1>2, <6>3, <6>4, <6>5 DEF KernelState
        <5>4. c # 0
          BY <2>2, <2>4, <4>2
        <5> HIDE <2>1, <2>3
        <5> QED
          BY <2>4, <2>17, <2>15, <5>3, <5>4
      <4> QED
        BY <4>1, <4>2
    <3> HIDE <1>3, <2>3, <2>1
    <3> QED
      BY <1>1, <1>3, <2>7, <2>10, <3>2, <3>4
  <2>12. CASE g = {} /\ s.p_flags[p] # {}
    <3>1. s.p_pendcount[p] = 1
      BY <2>1, <2>12
    <3>2. n = Wake(l, p)
      <4>1. c = 0
        BY <2>2, <2>4, <3>1
      <4>2. e2 = l
        BY <2>14, <3>1
      <4> HIDE <2>1, <2>3
      <4> QED
        BY <2>17, <2>15, <3>1, <4>1, <4>2
    <3>3. PICK w : w = Wake(l, p)
      OBVIOUS
    <3>4. NeverFirst(s.rdy, p)
      <4>1. s.rdy[Class(SYSTASK)] # << >>
        BY <1>2, Running DEF KInv
      <4> QED
        BY <1>2, <4>1 DEF Class, NeverFirst
    <3>5. /\ w \in KernelState /\ SameData(l, w) /\ Lists(w.rdy, Ready(w))
          /\ HeadsKept(s, w, HARDWARE)
          /\ l.proc_ptr = Top(s.rdy) /\ NeverFirst(s.rdy, p) => w.proc_ptr = Top(w.rdy)
      <4>1. ~isemptyp(l, p)
        BY <1>5, <2>8
      <4> HIDE <2>3, <2>1
      <4> QED
        BY <1>2, <2>7, <2>8, <2>12, <3>3, <4>1, Unblock
    <3>6. KInv(w)
      BY <1>2, <2>7, <2>8, <2>10, <3>4, <3>5, BaseSame DEF KInv, Scheduled
    <3>7. w.rdy[TASK_Q] = s.rdy[TASK_Q]
      <4>1. Class(p) = USER_Q /\ TASK_Q # USER_Q
        BY <1>2 DEF Class, TASK_Q, SERVER_Q, USER_Q
      <4>2. w.rdy = [l.rdy EXCEPT ![Class(p)] =
                     IF Class(p) = USER_Q THEN <<p>> \o @ ELSE Append(@, p)]
        BY <1>2, <2>7, <2>8, <2>12, <3>3, ReadyEffect DEF Wake
      <4> QED
        BY <2>8, <4>1, <4>2 DEF KernelState
    <3>8. OnUser(s, w, p) /\ SameUser(s, w, p) /\ KeepsFlags(s, w, p, {})
      BY <2>10, <3>5, <3>7 DEF OnUser, SameUser, KeepsFlags, SameData, Open
    <3>9. Open(w, p) = Open(s, p) - 1
      BY <2>7, <3>5 DEF SameData, Open
    <3> HIDE <1>3, <2>3, <2>1, <3>3
    <3> QED
      BY <1>1, <1>3, <3>2, <3>3, <3>6, <3>8, <3>9
  <2> QED
    BY <2>11, <2>12
<1> QED
  BY <1>4, <1>5

\* A function that changes in one place
LEMMA OneChanges ==
  ASSUME NEW S, NEW T, NEW f \in [S -> T], NEW p \in S, NEW v
  PROVE  /\ [f EXCEPT ![p] = v][p] = v
         /\ \A x \in S \ {p} : [f EXCEPT ![p] = v][x] = f[x]
OBVIOUS

\* The slot p has a copy of process r.
ForkIs(s, r, p, pid, n) ==
  /\ n \in KernelState
  /\ n.p_flags = [s.p_flags EXCEPT ![p] =
                    (s.p_flags[r] \cup {"NO_MAP"}) \ {"PENDING", "SIG_PENDING"}]
  /\ n.p_priority = [s.p_priority EXCEPT ![p] = s.p_priority[r]]
  /\ n.p_getfrom = [s.p_getfrom EXCEPT ![p] = s.p_getfrom[r]]
  /\ n.p_sendto = [s.p_sendto EXCEPT ![p] = s.p_sendto[r]]
  /\ n.p_callerq = [s.p_callerq EXCEPT ![p] = s.p_callerq[r]]
  /\ n.p_alarm = [s.p_alarm EXCEPT ![p] = s.p_alarm[r]]
  /\ n.p_pending = [s.p_pending EXCEPT ![p] = {}]
  /\ n.p_pendcount = [s.p_pendcount EXCEPT ![p] = 0]
  /\ n.p_pid = [s.p_pid EXCEPT ![p] = pid]
  /\ n.p_int_blocked = s.p_int_blocked /\ n.mess = s.mess
  /\ n.rdy = s.rdy /\ n.proc_ptr = s.proc_ptr
  /\ n.sig_procs = s.sig_procs /\ n.panic = s.panic

\* The fields of do_fork()
LEMMA ForkFields ==
  ASSUME NEW s \in KernelState, NEW m, m.i1 \in UserSlots, m.i2 \in UserSlots, m.i3 \in Int
  PROVE  ForkIs(s, m.i1, m.i2, m.i3, do_fork(s, m).k)
<1>1. PICK r, p, pid : r = m.i1 /\ p = m.i2 /\ pid = m.i3
  OBVIOUS
<1>2. /\ r \in Procs /\ p \in Procs /\ r \in Slots /\ p \in Slots /\ pid \in Int
  BY <1>1, ProcFacts
<1>3. PICK prio : prio = IF s.last_user_priority = ForkHigh THEN ForkLow ELSE ForkHigh
  OBVIOUS
<1>4. prio \in Int
  BY <1>3, SystemAssumption
<1>5. PICK g : g = (s.p_flags[r] \cup {"NO_MAP"}) \ {"PENDING", "SIG_PENDING"}
  OBVIOUS
<1>6. PICK f1 : f1 = [s.p_flags EXCEPT ![p] = g]
  OBVIOUS
<1>7. PICK f2 : f2 = [s.p_priority EXCEPT ![p] = s.p_priority[r]]
  OBVIOUS
<1>8. PICK f3 : f3 = [s.p_getfrom EXCEPT ![p] = s.p_getfrom[r]]
  OBVIOUS
<1>9. PICK f4 : f4 = [s.p_sendto EXCEPT ![p] = s.p_sendto[r]]
  OBVIOUS
<1>10. PICK f5 : f5 = [s.p_callerq EXCEPT ![p] = s.p_callerq[r]]
  OBVIOUS
<1>11. PICK f6 : f6 = [s.p_alarm EXCEPT ![p] = s.p_alarm[r]]
  OBVIOUS
<1>12. PICK f7 : f7 = [s.p_pending EXCEPT ![p] = {}]
  OBVIOUS
<1>13. PICK f8 : f8 = [s.p_pendcount EXCEPT ![p] = 0]
  OBVIOUS
<1>14. PICK f9 : f9 = [s.p_pid EXCEPT ![p] = pid]
  OBVIOUS
<1>15. PICK f10 : f10 = [s.time_counter EXCEPT ![p] = 0]
  OBVIOUS
<1>16. PICK f11 : f11 = [s.user_priority EXCEPT ![p] = prio]
  OBVIOUS
<1>17. f1 \in [Procs -> SUBSET Flags]
  <2>1. s.p_flags \in [Procs -> SUBSET Flags] /\ "NO_MAP" \in Flags
    BY DEF KernelState, Flags
  <2>2. g \in SUBSET Flags
    BY <1>2, <1>5, <2>1
  <2> QED
    BY <1>2, <1>6, <2>1, <2>2
<1>18. /\ f2 \in [Procs -> PPRI_NONE..PPRI_IDLE]
       /\ f3 \in [Procs -> Procs \cup {ANY}]
       /\ f4 \in [Procs -> Procs]
       /\ f5 \in [Procs -> Seq(Procs)]
  <2>1. /\ s.p_priority \in [Procs -> PPRI_NONE..PPRI_IDLE]
        /\ s.p_getfrom \in [Procs -> Procs \cup {ANY}]
        /\ s.p_sendto \in [Procs -> Procs]
        /\ s.p_callerq \in [Procs -> Seq(Procs)]
    BY DEF KernelState
  <2>2. f2 \in [Procs -> PPRI_NONE..PPRI_IDLE]
    BY <1>2, <1>7, <2>1
  <2>3. f3 \in [Procs -> Procs \cup {ANY}]
    BY <1>2, <1>8, <2>1
  <2>4. f4 \in [Procs -> Procs]
    BY <1>2, <1>9, <2>1
  <2>5. f5 \in [Procs -> Seq(Procs)]
    BY <1>2, <1>10, <2>1
  <2> QED
    BY <2>2, <2>3, <2>4, <2>5
<1>19. /\ f6 \in [Slots -> Int] /\ f7 \in [Slots -> SUBSET Signals]
       /\ f8 \in [Slots -> Nat] /\ f9 \in [Slots -> Int]
       /\ f10 \in [Slots -> Int] /\ f11 \in [Slots -> Int]
  <2>1. /\ s.p_alarm \in [Slots -> Int] /\ s.p_pending \in [Slots -> SUBSET Signals]
        /\ s.p_pendcount \in [Slots -> Nat] /\ s.p_pid \in [Slots -> Int]
        /\ s.time_counter \in [Slots -> Int] /\ s.user_priority \in [Slots -> Int]
    BY DEF KernelState
  <2>2. f6 \in [Slots -> Int] /\ f9 \in [Slots -> Int]
    BY <1>2, <1>11, <1>14, <2>1
  <2>3. f7 \in [Slots -> SUBSET Signals]
    BY <1>2, <1>12, <2>1
  <2>4. f8 \in [Slots -> Nat]
    BY <1>2, <1>13, <2>1
  <2>5. f10 \in [Slots -> Int] /\ f11 \in [Slots -> Int]
    BY <1>2, <1>4, <1>15, <1>16, <2>1
  <2> QED
    BY <2>2, <2>3, <2>4, <2>5
<1>20. PICK n : n = [s EXCEPT !.p_flags = f1, !.p_priority = f2, !.p_getfrom = f3,
                       !.p_sendto = f4, !.p_callerq = f5, !.p_alarm = f6,
                       !.p_pending = f7, !.p_pendcount = f8, !.p_pid = f9,
                       !.time_counter = f10, !.user_priority = f11,
                       !.last_user_priority = prio]
  OBVIOUS
<1>21. do_fork(s, m).k = n
  BY <1>1, <1>3, <1>5, <1>6, <1>7, <1>8, <1>9, <1>10, <1>11, <1>12, <1>13, <1>14, <1>15,
     <1>16, <1>20 DEF do_fork, KernelState
<1>22. /\ n \in KernelState /\ n.p_flags = f1 /\ n.p_priority = f2 /\ n.p_getfrom = f3
       /\ n.p_sendto = f4 /\ n.p_callerq = f5 /\ n.p_alarm = f6
       /\ n.p_pending = f7 /\ n.p_pendcount = f8 /\ n.p_pid = f9
       /\ n.p_int_blocked = s.p_int_blocked /\ n.mess = s.mess
       /\ n.rdy = s.rdy /\ n.proc_ptr = s.proc_ptr
       /\ n.sig_procs = s.sig_procs /\ n.panic = s.panic
  <2>1. /\ n.p_flags = f1 /\ n.p_priority = f2 /\ n.p_getfrom = f3
        /\ n.p_sendto = f4 /\ n.p_callerq = f5 /\ n.p_alarm = f6
        /\ n.p_pending = f7 /\ n.p_pendcount = f8 /\ n.p_pid = f9
        /\ n.p_int_blocked = s.p_int_blocked /\ n.mess = s.mess
        /\ n.rdy = s.rdy /\ n.proc_ptr = s.proc_ptr
        /\ n.sig_procs = s.sig_procs /\ n.panic = s.panic
    BY <1>20 DEF KernelState
  <2>2. n \in KernelState
    <3>1. PICK n1 : n1 = [s EXCEPT !.p_flags = f1, !.p_priority = f2, !.p_getfrom = f3,
                       !.p_sendto = f4, !.p_callerq = f5]
      OBVIOUS
    <3>2. n1 \in KernelState
      BY <1>17, <1>18, <3>1 DEF KernelState
    <3>3. n = [n1 EXCEPT !.p_alarm = f6,
                       !.p_pending = f7, !.p_pendcount = f8, !.p_pid = f9,
                       !.time_counter = f10, !.user_priority = f11,
                       !.last_user_priority = prio]
      BY <1>20, <3>1 DEF KernelState
    <3> QED
      BY <1>4, <1>19, <3>2, <3>3 DEF KernelState
  <2> QED
    BY <2>1, <2>2
<1> HIDE <1>20
<1> QED
  BY <1>1, <1>5, <1>6, <1>7, <1>8, <1>9, <1>10, <1>11, <1>12, <1>13, <1>14,
     <1>21, <1>22 DEF ForkIs

\* do_fork(), of a process that waits for the answer of MM
LEMMA ForkKeeps ==
  ASSUME NEW s, KInv(s), NEW m, m.i1 \in UserSlots,
         ~isemptyp(s, m.i1), "RECEIVING" \in s.p_flags[m.i1],
         "SENDING" \notin s.p_flags[m.i1], s.p_getfrom[m.i1] = MM,
         m.i2 \in UserSlots, isemptyp(s, m.i2), m.i3 \in Int
  PROVE  LET n == do_fork(s, m).k
         IN /\ KInv(n) /\ OnUser(s, n, m.i2) /\ ~isemptyp(n, m.i2)
            /\ "RECEIVING" \in n.p_flags[m.i2] /\ "SENDING" \notin n.p_flags[m.i2]
            /\ n.p_getfrom[m.i2] = MM /\ n.p_pid[m.i2] = m.i3 /\ Open(n, m.i2) = 0
<1>1. PICK r, p, pid, n : r = m.i1 /\ p = m.i2 /\ pid = m.i3 /\ n = do_fork(s, m).k
  OBVIOUS
<1>2. /\ Base(s) /\ s \in KernelState /\ r \in UserSlots /\ p \in UserSlots /\ r # p
      /\ p \in Procs /\ r \in Procs /\ p \in Slots /\ r \in Slots
      /\ p \notin Tasks \cup Servers /\ r \notin Servers
      /\ p # IDLE /\ p # HARDWARE /\ UserSlots \subseteq Procs /\ UserSlots \subseteq Slots
      /\ Servers \subseteq Slots /\ MM \in Servers /\ Classed(s.p_priority)
  BY <1>1, ProcFacts DEF KInv, Base, Servers
<1>3. ForkIs(s, r, p, pid, n)
  BY <1>1, <1>2, ForkFields
<1>4. /\ s.p_callerq[r] = << >> /\ s.p_callerq[p] = << >>
  <2>1. \A d \in {r, p} : ~\E c \in Procs : OnList(s.p_callerq[d], c)
    BY <1>2, Callers, ProcFacts
  <2>2. \A d \in {r, p} : s.p_callerq[d] \in Seq(Procs)
    BY <1>2 DEF KernelState
  <2> QED
    BY <2>1, <2>2, HeadInSeq
<1>5. PICK g : g = (s.p_flags[r] \cup {"NO_MAP"}) \ {"PENDING", "SIG_PENDING"}
  OBVIOUS
<1>6. /\ n.p_flags[p] = g /\ n.p_priority[p] = s.p_priority[r] /\ n.p_getfrom[p] = MM
      /\ n.p_alarm[p] = s.p_alarm[r] /\ n.p_pending[p] = {} /\ n.p_pendcount[p] = 0
      /\ n.p_pid[p] = pid /\ n.p_callerq = s.p_callerq
      /\ \A x \in Procs \ {p} :
           /\ n.p_flags[x] = s.p_flags[x] /\ n.p_priority[x] = s.p_priority[x]
           /\ n.p_getfrom[x] = s.p_getfrom[x] /\ n.p_sendto[x] = s.p_sendto[x]
      /\ \A x \in Slots \ {p} :
           /\ n.p_alarm[x] = s.p_alarm[x] /\ n.p_pending[x] = s.p_pending[x]
           /\ n.p_pendcount[x] = s.p_pendcount[x] /\ n.p_pid[x] = s.p_pid[x]
  <2>1. /\ s.p_flags \in [Procs -> SUBSET Flags]
        /\ s.p_priority \in [Procs -> PPRI_NONE..PPRI_IDLE]
        /\ s.p_getfrom \in [Procs -> Procs \cup {ANY}]
        /\ s.p_sendto \in [Procs -> Procs] /\ s.p_callerq \in [Procs -> Seq(Procs)]
        /\ s.p_alarm \in [Slots -> Int] /\ s.p_pending \in [Slots -> SUBSET Signals]
        /\ s.p_pendcount \in [Slots -> Nat] /\ s.p_pid \in [Slots -> Int]
    BY <1>2 DEF KernelState
  <2>2. s.p_getfrom[r] = MM
    BY <1>1
  <2>3. n.p_callerq = s.p_callerq
    <3>1. n.p_callerq = [s.p_callerq EXCEPT ![p] = << >>]
      BY <1>3, <1>4 DEF ForkIs
    <3> QED
      BY <1>2, <1>4, <2>1, <3>1
  <2>6. /\ n.p_flags = [s.p_flags EXCEPT ![p] = g]
        /\ n.p_priority = [s.p_priority EXCEPT ![p] = s.p_priority[r]]
        /\ n.p_getfrom = [s.p_getfrom EXCEPT ![p] = MM]
        /\ n.p_sendto = [s.p_sendto EXCEPT ![p] = s.p_sendto[r]]
    BY <1>3, <1>5, <2>2 DEF ForkIs
  <2>4. /\ n.p_flags[p] = g /\ n.p_priority[p] = s.p_priority[r] /\ n.p_getfrom[p] = MM
        /\ \A x \in Procs \ {p} :
           /\ n.p_flags[x] = s.p_flags[x] /\ n.p_priority[x] = s.p_priority[x]
           /\ n.p_getfrom[x] = s.p_getfrom[x] /\ n.p_sendto[x] = s.p_sendto[x]
    <3>1. n.p_flags[p] = g /\ \A x \in Procs \ {p} : n.p_flags[x] = s.p_flags[x]
      BY <1>2, <2>1, <2>6, OneChanges
    <3>2. /\ n.p_priority[p] = s.p_priority[r]
          /\ \A x \in Procs \ {p} : n.p_priority[x] = s.p_priority[x]
      <4>1. s.p_priority \in [Procs -> PPRI_NONE..PPRI_IDLE] /\ p \in Procs
        BY <1>2, <2>1
      <4>2. n.p_priority = [s.p_priority EXCEPT ![p] = s.p_priority[r]]
        BY <2>6
      <4> QED
        BY <4>1, <4>2
    <3>3. n.p_getfrom[p] = MM /\ \A x \in Procs \ {p} : n.p_getfrom[x] = s.p_getfrom[x]
      BY <1>2, <2>1, <2>6, OneChanges
    <3>4. \A x \in Procs \ {p} : n.p_sendto[x] = s.p_sendto[x]
      BY <1>2, <2>1, <2>6, OneChanges
    <3> QED
      BY <3>1, <3>2, <3>3, <3>4
  <2>7. /\ n.p_alarm = [s.p_alarm EXCEPT ![p] = s.p_alarm[r]]
        /\ n.p_pending = [s.p_pending EXCEPT ![p] = {}]
        /\ n.p_pendcount = [s.p_pendcount EXCEPT ![p] = 0]
        /\ n.p_pid = [s.p_pid EXCEPT ![p] = pid]
    BY <1>3 DEF ForkIs
  <2>5. /\ n.p_alarm[p] = s.p_alarm[r] /\ n.p_pending[p] = {} /\ n.p_pendcount[p] = 0
        /\ n.p_pid[p] = pid
        /\ \A x \in Slots \ {p} :
           /\ n.p_alarm[x] = s.p_alarm[x] /\ n.p_pending[x] = s.p_pending[x]
           /\ n.p_pendcount[x] = s.p_pendcount[x] /\ n.p_pid[x] = s.p_pid[x]
    <3>1. /\ n.p_alarm[p] = s.p_alarm[r]
          /\ \A x \in Slots \ {p} : n.p_alarm[x] = s.p_alarm[x]
      <4>1. s.p_alarm \in [Slots -> Int] /\ p \in Slots
        BY <1>2, <2>1
      <4>2. n.p_alarm = [s.p_alarm EXCEPT ![p] = s.p_alarm[r]]
        BY <2>7
      <4> QED
        BY <4>1, <4>2
    <3>2. n.p_pending[p] = {} /\ \A x \in Slots \ {p} : n.p_pending[x] = s.p_pending[x]
      BY <1>2, <2>1, <2>7, OneChanges
    <3>3. n.p_pendcount[p] = 0 /\ \A x \in Slots \ {p} : n.p_pendcount[x] = s.p_pendcount[x]
      BY <1>2, <2>1, <2>7, OneChanges
    <3>4. n.p_pid[p] = pid /\ \A x \in Slots \ {p} : n.p_pid[x] = s.p_pid[x]
      BY <1>2, <2>1, <2>7, OneChanges
    <3> QED
      BY <3>1, <3>2, <3>3, <3>4
  <2> QED
    BY <2>3, <2>4, <2>5
<1>7. /\ "RECEIVING" \in g /\ "SENDING" \notin g /\ "PENDING" \notin g
      /\ "SIG_PENDING" \notin g /\ "NO_MAP" \in g
  BY <1>1, <1>5
<1>8. s.p_flags[p] = {}
  BY <1>1, <1>2 DEF Base, UserOK
<1>9. n \in KernelState /\ n.mess = s.mess /\ n.p_int_blocked = s.p_int_blocked
      /\ n.rdy = s.rdy /\ n.proc_ptr = s.proc_ptr
      /\ n.sig_procs = s.sig_procs /\ n.panic = s.panic
  BY <1>3 DEF ForkIs
<1>10. /\ \A x \in Procs \ {p} : isemptyp(n, x) <=> isemptyp(s, x)
       /\ ~isemptyp(n, p) /\ Classed(n.p_priority)
  <2>1. \A x \in Procs \ {p} : isemptyp(n, x) <=> isemptyp(s, x)
    BY <1>6 DEF isemptyp
  <2>2. ~isemptyp(n, p)
    BY <1>1, <1>6 DEF isemptyp
  <2>3. \A x \in Tasks \cup Servers \cup {HARDWARE, IDLE} : n.p_priority[x] = s.p_priority[x]
    BY <1>2, <1>6, ProcFacts
  <2>4. \A x \in UserSlots : n.p_priority[x] \in {PPRI_NONE, PPRI_USER}
    BY <1>2, <1>6 DEF Classed
  <2> QED
    BY <1>2, <2>1, <2>2, <2>3, <2>4 DEF Classed
<1>11. \A u \in UserSlots : UserOK(n, u)
  <2>1. ASSUME NEW u \in UserSlots, u # p PROVE UserOK(n, u)
    <3>1. UserOK(s, u) /\ u \in Procs \ {p} /\ u \in Slots \ {p}
      BY <1>2, <2>1 DEF Base
    <3>2. /\ n.p_flags[u] = s.p_flags[u] /\ n.p_pendcount[u] = s.p_pendcount[u]
          /\ n.p_pending[u] = s.p_pending[u] /\ n.p_alarm[u] = s.p_alarm[u]
          /\ n.p_getfrom[u] = s.p_getfrom[u] /\ n.p_sendto[u] = s.p_sendto[u]
          /\ (isemptyp(n, u) <=> isemptyp(s, u))
      BY <1>6, <1>10, <3>1
    <3> QED
      BY <3>1, <3>2 DEF UserOK
  <2>2. UserOK(n, p)
    <3>1. IsFiniteSet({}) /\ Cardinality({}) = 0
      BY FS_EmptySet
    <3> QED
      BY <1>2, <1>6, <1>7, <1>10, <3>1 DEF UserOK
  <2> QED
    BY <2>1, <2>2
<1>12. SystemFlags(n)
  <2>1. /\ \A x \in Tasks \cup Servers \cup {IDLE, HARDWARE} : n.p_flags[x] = s.p_flags[x]
        /\ \A x \in Servers : n.p_sendto[x] = s.p_sendto[x] /\ n.p_getfrom[x] = s.p_getfrom[x]
        /\ \A x \in Servers : n.p_pending[x] = s.p_pending[x] /\ n.p_alarm[x] = s.p_alarm[x]
    BY <1>2, <1>6, ProcFacts
  <2>2. SystemFlags(s) /\ MM \in Servers /\ FS \in Servers
    BY <1>2 DEF Base, Servers
  <2> QED
    BY <2>1, <2>2 DEF SystemFlags
<1>13. Senders(n.p_flags, n.p_sendto, n.p_callerq)
  <2>1. \A c \in Procs, d \in Procs :
          ("SENDING" \in n.p_flags[c] /\ n.p_sendto[c] = d) <=>
          ("SENDING" \in s.p_flags[c] /\ s.p_sendto[c] = d)
    BY <1>6, <1>7, <1>8
  <2> QED
    BY <1>2, <1>6, <2>1 DEF Base, Senders
<1>14. SigsCounted(n)
  <2>1. \A x \in Slots : "PENDING" \in n.p_flags[x] <=> "PENDING" \in s.p_flags[x]
    BY <1>2, <1>6, <1>7, <1>8, ProcFacts
  <2>2. {x \in Slots : "PENDING" \in n.p_flags[x]} = {x \in Slots : "PENDING" \in s.p_flags[x]}
    BY <2>1
  <2> QED
    BY <1>2, <1>9, <2>2 DEF Base, SigsCounted
<1>15. Base(n) /\ MMHears(n)
  <2>1. MM \in Procs \ {p}
    BY <1>2, ProcFacts
  <2>2. MMHears(n)
    BY <1>6, <1>9, <2>1 DEF KInv, MMHears
  <2> QED
    BY <1>2, <1>9, <1>10, <1>11, <1>12, <1>13, <1>14, <2>2 DEF Base
<1>16. Scheduled(n)
  <2>1. Ready(n) = Ready(s)
    <3>1. p \notin Ready(n) /\ p \notin Ready(s)
      BY <1>1, <1>6, <1>7 DEF Ready
    <3>2. \A x \in Schedulable \ {p} : x \in Ready(n) <=> x \in Ready(s)
      BY <1>6, <1>10, ProcFacts DEF Ready
    <3> QED
      BY <3>1, <3>2 DEF Ready
  <2> QED
    BY <1>9, <2>1 DEF KInv, Scheduled
<1>17. OnUser(s, n, p)
  <2>1. \A t \in Tasks \cup Servers : n.p_flags[t] = s.p_flags[t]
    BY <1>2, <1>6, ProcFacts
  <2>2. \A x \in UserSlots \ {p} : Open(n, x) = Open(s, x)
    BY <1>2, <1>6 DEF Open
  <2>3. HeadsKept(s, n, HARDWARE) /\ n.rdy[TASK_Q] = s.rdy[TASK_Q]
    BY <1>9 DEF HeadsKept
  <2>4. \A x \in Procs \ {p}, f \in Flags \ {"PENDING", "SIG_PENDING"} :
       f \in n.p_flags[x] <=> f \in s.p_flags[x]
    BY <1>6
  <2> QED
    BY <1>6, <1>9, <2>1, <2>2, <2>3, <2>4 DEF OnUser
<1>18. Open(n, p) = 0
  BY <1>6, FS_EmptySet DEF Open
<1> QED
  BY <1>1, <1>6, <1>7, <1>10, <1>15, <1>16, <1>17, <1>18 DEF KInv

\* The process of slot p has ended.
XitIs(s, p, n) ==
  /\ n \in KernelState
  /\ n.p_flags = [s.p_flags EXCEPT ![p] = {}]
  /\ n.p_priority = [s.p_priority EXCEPT ![p] = PPRI_NONE]
  /\ n.p_pending = [s.p_pending EXCEPT ![p] = {}]
  /\ n.p_pendcount = [s.p_pendcount EXCEPT ![p] = 0]
  /\ n.sig_procs = IF "PENDING" \in s.p_flags[p] THEN s.sig_procs - 1 ELSE s.sig_procs
  /\ n.p_callerq = IF "SENDING" \in s.p_flags[p]
                   THEN [d \in Procs |-> Unlink(s.p_callerq[d], p)] ELSE s.p_callerq
  /\ n.p_alarm = s.p_alarm /\ n.p_sendto = s.p_sendto /\ n.p_getfrom = s.p_getfrom
  /\ n.p_pid = s.p_pid /\ n.p_int_blocked = s.p_int_blocked /\ n.mess = s.mess
  /\ n.panic = s.panic
  /\ n.rdy = Halt(s, p).rdy /\ n.proc_ptr = Halt(s, p).proc_ptr

\* The fields of do_xit(), after the alarm has been cancelled
LEMMA XitFields ==
  ASSUME NEW s, KInv(s), NEW p \in UserSlots, ~isemptyp(s, p)
  PROVE  LET h == Halt(s, p)
             l == IF "SENDING" \in h.p_flags[p] THEN LeaveCallerQueues(h, p) ELSE h
         IN XitIs(s, p, ClearSlot(l, p))
<1>1. /\ Base(s) /\ s \in KernelState /\ p \in Schedulable /\ p \in Procs /\ p \in Slots
      /\ Lists(s.rdy, Ready(s)) /\ Classed(s.p_priority)
  BY ProcFacts DEF KInv, Base, Scheduled
<1>2. PICK h : h = Halt(s, p)
  OBVIOUS
<1>3. h \in KernelState /\ SameData(s, h)
  BY <1>1, <1>2, HaltKeeps
<1>4. PICK l : l = IF "SENDING" \in h.p_flags[p] THEN LeaveCallerQueues(h, p) ELSE h
  OBVIOUS
<1>5. PICK Q : Q = IF "SENDING" \in s.p_flags[p]
                   THEN [d \in Procs |-> Unlink(s.p_callerq[d], p)] ELSE s.p_callerq
  OBVIOUS
<1>6. Q \in [Procs -> Seq(Procs)]
  <2>1. \A d \in Procs : s.p_callerq[d] \in Seq(Procs) /\ Distinct(s.p_callerq[d])
    BY <1>1 DEF KernelState, Base, Senders
  <2>2. \A d \in Procs : Unlink(s.p_callerq[d], p) \in Seq(Procs)
    BY <2>1, UnlinkList
  <2>3. s.p_callerq \in [Procs -> Seq(Procs)]
    BY <1>1 DEF KernelState
  <2> QED
    BY <1>5, <2>2, <2>3
<1>7. l = [h EXCEPT !.p_callerq = Q]
  <2>1. h.p_flags = s.p_flags /\ h.p_callerq = s.p_callerq
    BY <1>3 DEF SameData
  <2>2. CASE "SENDING" \in s.p_flags[p]
    BY <1>4, <1>5, <2>1, <2>2 DEF LeaveCallerQueues
  <2>3. CASE "SENDING" \notin s.p_flags[p]
    <3>1. l = h /\ Q = h.p_callerq
      BY <1>4, <1>5, <2>1, <2>3
    <3> QED
      BY <1>3, <3>1 DEF KernelState
  <2> QED
    BY <2>2, <2>3
<1>8. PICK f1 : f1 = [s.p_flags EXCEPT ![p] = {}]
  OBVIOUS
<1>9. PICK f2 : f2 = [s.p_priority EXCEPT ![p] = PPRI_NONE]
  OBVIOUS
<1>10. PICK f3 : f3 = [s.p_pending EXCEPT ![p] = {}]
  OBVIOUS
<1>11. PICK f4 : f4 = [s.p_pendcount EXCEPT ![p] = 0]
  OBVIOUS
<1>12. PICK j : j = IF "PENDING" \in s.p_flags[p] THEN s.sig_procs - 1 ELSE s.sig_procs
  OBVIOUS
<1>13. /\ f1 \in [Procs -> SUBSET Flags] /\ f2 \in [Procs -> PPRI_NONE..PPRI_IDLE]
       /\ f3 \in [Slots -> SUBSET Signals] /\ f4 \in [Slots -> Nat] /\ j \in Int
  <2>1. /\ s.p_flags \in [Procs -> SUBSET Flags]
        /\ s.p_priority \in [Procs -> PPRI_NONE..PPRI_IDLE]
    BY <1>1 DEF KernelState
  <2>2. /\ s.p_pending \in [Slots -> SUBSET Signals]
        /\ s.p_pendcount \in [Slots -> Nat] /\ s.sig_procs \in Int
    BY <1>1 DEF KernelState
  <2>3. PPRI_NONE \in PPRI_NONE..PPRI_IDLE
    BY DEF PPRI_NONE, PPRI_IDLE
  <2>4. f1 \in [Procs -> SUBSET Flags]
    BY <1>1, <1>8, <2>1
  <2>5. f2 \in [Procs -> PPRI_NONE..PPRI_IDLE]
    BY <1>1, <1>9, <2>1, <2>3
  <2>6. f3 \in [Slots -> SUBSET Signals] /\ f4 \in [Slots -> Nat] /\ j \in Int
    BY <1>1, <1>10, <1>11, <1>12, <2>2
  <2> QED
    BY <2>4, <2>5, <2>6
<1>14. PICK n : n = [h EXCEPT !.p_callerq = Q, !.sig_procs = j, !.p_pending = f3,
                        !.p_pendcount = f4, !.p_flags = f1, !.p_priority = f2]
  OBVIOUS
<1>15. ClearSlot(l, p) = n
  <2>1. /\ h.p_flags = s.p_flags /\ h.p_priority = s.p_priority
        /\ h.p_pending = s.p_pending /\ h.p_pendcount = s.p_pendcount
        /\ h.sig_procs = s.sig_procs
    BY <1>3 DEF SameData
  <2>2. /\ l.p_flags = s.p_flags /\ l.p_priority = s.p_priority
        /\ l.p_pending = s.p_pending /\ l.p_pendcount = s.p_pendcount
        /\ l.sig_procs = s.sig_procs
    BY <1>3, <1>7, <2>1 DEF KernelState
  <2>3. ClearSlot(l, p) = [l EXCEPT !.sig_procs = j, !.p_pending = f3,
                        !.p_pendcount = f4, !.p_flags = f1, !.p_priority = f2]
    <3> HIDE <1>4, <1>7, <1>2
    <3> QED
      BY <1>8, <1>9, <1>10, <1>11, <1>12, <2>2 DEF ClearSlot
  <2> QED
    BY <1>3, <1>7, <1>14, <2>3 DEF KernelState
<1>16. n \in KernelState
  BY <1>3, <1>6, <1>13, <1>14 DEF KernelState
<1>17. /\ n.p_flags = f1 /\ n.p_priority = f2 /\ n.p_pending = f3 /\ n.p_pendcount = f4
       /\ n.sig_procs = j /\ n.p_callerq = Q
       /\ n.p_alarm = h.p_alarm /\ n.p_sendto = h.p_sendto /\ n.p_getfrom = h.p_getfrom
       /\ n.p_pid = h.p_pid /\ n.p_int_blocked = h.p_int_blocked /\ n.mess = h.mess
       /\ n.panic = h.panic /\ n.rdy = h.rdy /\ n.proc_ptr = h.proc_ptr
  BY <1>3, <1>14 DEF KernelState
<1>18. XitIs(s, p, n)
  <2> HIDE <1>2, <1>4, <1>7, <1>14
  <2> QED
    BY <1>2, <1>3, <1>5, <1>8, <1>9, <1>10, <1>11, <1>12, <1>16, <1>17 DEF XitIs, SameData
<1> HIDE <1>2, <1>4, <1>14
<1> QED
  BY <1>2, <1>4, <1>15, <1>18

\* What the process that has ended was counted for goes with it.
LEMMA XitBase ==
  ASSUME NEW s, Base(s), NEW p \in UserSlots, s.p_alarm[p] = 0, NEW n, XitIs(s, p, n)
  PROVE  /\ Base(n) /\ n.sig_procs <= s.sig_procs
         /\ Ready(n) = Ready(s) \ {p} /\ isemptyp(n, p) /\ n.p_flags[p] = {}
         /\ \A x \in Procs \ {p} :
              n.p_flags[x] = s.p_flags[x] /\ n.p_priority[x] = s.p_priority[x]
         /\ \A x \in UserSlots \ {p} : Open(n, x) = Open(s, x)
<1>1. s \in KernelState /\ p \in Procs /\ p \in Slots
      /\ p \notin Tasks \cup Servers \cup {HARDWARE, IDLE}
  BY ProcFacts DEF Base
<1>2. PICK F, T, Q : F = s.p_flags /\ T = s.p_sendto /\ Q = s.p_callerq
  OBVIOUS
<1>3. F \in [Procs -> SUBSET Flags] /\ Q \in [Procs -> Seq(Procs)]
      /\ s.p_priority \in [Procs -> PPRI_NONE..PPRI_IDLE]
      /\ s.p_pending \in [Slots -> SUBSET Signals]
      /\ s.p_pendcount \in [Slots -> Nat] /\ s.sig_procs \in Int
  BY <1>1, <1>2 DEF KernelState
<1>4. /\ n \in KernelState /\ n.p_flags = [F EXCEPT ![p] = {}]
      /\ n.p_priority = [s.p_priority EXCEPT ![p] = PPRI_NONE]
      /\ n.p_pending = [s.p_pending EXCEPT ![p] = {}]
      /\ n.p_pendcount = [s.p_pendcount EXCEPT ![p] = 0]
  BY <1>2 DEF XitIs
<1>5. /\ n.p_alarm = s.p_alarm /\ n.p_sendto = T /\ n.p_getfrom = s.p_getfrom
      /\ n.panic = s.panic
      /\ n.p_callerq = IF "SENDING" \in F[p] THEN [d \in Procs |-> Unlink(Q[d], p)] ELSE Q
      /\ n.sig_procs = IF "PENDING" \in F[p] THEN s.sig_procs - 1 ELSE s.sig_procs
  BY <1>2 DEF XitIs
<1>6. PICK F2, Q2, R2 : F2 = n.p_flags /\ Q2 = n.p_callerq /\ R2 = n.p_priority
  OBVIOUS
<1>7. /\ F2[p] = {} /\ R2[p] = PPRI_NONE
      /\ n.p_pending[p] = {} /\ n.p_pendcount[p] = 0
      /\ \A x \in Procs \ {p} : F2[x] = F[x] /\ R2[x] = s.p_priority[x]
      /\ \A x \in Slots \ {p} :
           n.p_pending[x] = s.p_pending[x] /\ n.p_pendcount[x] = s.p_pendcount[x]
  BY <1>1, <1>3, <1>4, <1>6
<1>8. Senders(F, T, Q)
  BY <1>2 DEF Base
<1>9. \A x \in Procs : Distinct(Q2[x]) /\ \A y \in Procs :
        OnList(Q2[x], y) <=> OnList(Q[x], y) /\ y # p
  <2>1. CASE "SENDING" \in F[p]
    <3>1. ASSUME NEW x \in Procs
          PROVE  Distinct(Q2[x]) /\ \A y : OnList(Q2[x], y) <=> OnList(Q[x], y) /\ y # p
      <4>1. Q2[x] = Unlink(Q[x], p)
        BY <1>5, <1>6, <2>1
      <4>2. Q[x] \in Seq(Procs) /\ Distinct(Q[x])
        BY <1>3, <1>8 DEF Senders
      <4> QED
        BY <4>1, <4>2, UnlinkList
    <3> QED
      BY <3>1
  <2>2. CASE "SENDING" \notin F[p]
    BY <1>1, <1>5, <1>6, <1>8, <2>2 DEF Senders
  <2> QED
    BY <2>1, <2>2
<1>10. Senders(n.p_flags, n.p_sendto, n.p_callerq)
  <2>1. ASSUME NEW x \in Procs, NEW y \in Procs
        PROVE  OnList(Q2[x], y) <=> "SENDING" \in F2[y] /\ T[y] = x
    <3>1. OnList(Q[x], y) <=> "SENDING" \in F[y] /\ T[y] = x
      BY <1>8 DEF Senders
    <3> QED
      BY <1>7, <1>9, <3>1
  <2> QED
    BY <1>5, <1>6, <1>9, <2>1 DEF Senders
<1>11. ASSUME NEW u \in UserSlots PROVE UserOK(n, u)
  <2>1. u \in Procs /\ u \in Slots /\ UserOK(s, u)
    BY ProcFacts DEF Base
  <2>2. CASE u # p
    BY <1>2, <1>5, <1>6, <1>7, <2>1, <2>2 DEF UserOK, isemptyp
  <2>3. CASE u = p
    <3>1. IsFiniteSet({}) /\ Cardinality({}) = 0
      BY FS_EmptySet
    <3>2. n.p_flags[u] = {} /\ n.p_pending[u] = {} /\ n.p_pendcount[u] = 0 /\ n.p_alarm[u] = 0
      BY <1>5, <1>6, <1>7, <2>3
    <3>3. IsFiniteSet(n.p_pending[u]) /\ Cardinality(n.p_pending[u]) <= n.p_pendcount[u]
      BY <3>1, <3>2
    <3>4. /\ isemptyp(n, u) =>
               /\ n.p_flags[u] = {} /\ n.p_alarm[u] = 0
               /\ n.p_pending[u] = {} /\ n.p_pendcount[u] = 0
          /\ "RECEIVING" \notin n.p_flags[u] /\ "SENDING" \notin n.p_flags[u]
          /\ "PENDING" \in n.p_flags[u] <=> n.p_pending[u] # {}
          /\ "SIG_PENDING" \in n.p_flags[u] <=> n.p_pendcount[u] > 0
      BY <3>2
    <3> QED
      BY <3>3, <3>4 DEF UserOK
  <2> QED
    BY <2>2, <2>3
<1>12. SystemFlags(n)
  <2>1. SystemFlags(s)
    BY DEF Base
  <2>2. Tasks \cup Servers \cup {IDLE, HARDWARE} \subseteq Procs /\ Servers \subseteq Slots
        /\ MM \in Servers /\ FS \in Servers
    BY ProcFacts DEF Servers
  <2>3. \A t \in Tasks \cup Servers \cup {IDLE, HARDWARE} : F2[t] = F[t]
    BY <1>1, <1>7, <2>2
  <2>4. \A v \in Servers : n.p_pending[v] = s.p_pending[v]
    BY <1>1, <1>7, <2>2
  <2> QED
    BY <1>2, <1>5, <1>6, <2>1, <2>2, <2>3, <2>4 DEF SystemFlags
<1>13. Classed(n.p_priority)
  <2>1. Classed(s.p_priority)
    BY DEF Base
  <2>2. Tasks \cup Servers \cup {IDLE, HARDWARE} \subseteq Procs /\ UserSlots \subseteq Procs
    BY ProcFacts
  <2> QED
    BY <1>1, <1>6, <1>7, <2>1, <2>2 DEF Classed
<1>14. SigsCounted(n) /\ n.sig_procs <= s.sig_procs
  <2>1. \A x \in Slots : x \in Procs
    BY ProcFacts
  <2>2. Pend(n) = Pend(s) \ {p}
    BY <1>1, <1>2, <1>6, <1>7, <2>1 DEF Pend
  <2>3. IsFiniteSet(Pend(s)) /\ s.sig_procs = Cardinality(Pend(s))
    BY PendUsers DEF Base, SigsCounted, Pend
  <2>4. CASE "PENDING" \in F[p]
    <3>1. p \in Pend(s)
      BY <1>1, <1>2, <2>4 DEF Pend
    <3>2. Cardinality(Pend(s) \ {p}) = Cardinality(Pend(s)) - 1
      BY <2>3, <3>1, FS_RemoveElement
    <3>3. n.sig_procs = s.sig_procs - 1 /\ n.sig_procs = Cardinality(Pend(n))
      BY <1>5, <2>2, <2>3, <2>4, <3>2
    <3> QED
      BY <1>3, <3>3 DEF SigsCounted, Pend
  <2>5. CASE "PENDING" \notin F[p]
    <3>1. Pend(s) \ {p} = Pend(s)
      BY <1>2, <2>5 DEF Pend
    <3>2. n.sig_procs = s.sig_procs /\ n.sig_procs = Cardinality(Pend(n))
      BY <1>5, <2>2, <2>3, <2>5, <3>1
    <3> QED
      BY <1>3, <3>2 DEF SigsCounted, Pend
  <2> QED
    BY <2>4, <2>5
<1>15. Ready(n) = Ready(s) \ {p}
  <2>1. \A x \in Schedulable : x \in Procs
    BY ProcFacts
  <2> QED
    BY <1>2, <1>6, <1>7, <2>1 DEF Ready, isemptyp
<1>16. \A x \in UserSlots \ {p} : Open(n, x) = Open(s, x)
  BY <1>7, ProcFacts DEF Open
<1> QED
  BY <1>2, <1>4, <1>5, <1>6, <1>7, <1>10, <1>11, <1>12, <1>13, <1>14, <1>15, <1>16
  DEF Base, isemptyp

\* do_xit()
LEMMA XitKeeps ==
  ASSUME NEW s, KInv(s), s.proc_ptr = SYSTASK, NEW m, m.i2 \in UserSlots,
         ~isemptyp(s, m.i2)
  PROVE  LET n == do_xit(s, m).k
         IN /\ KInv(n) /\ OnUser(s, n, m.i2) /\ isemptyp(n, m.i2)
            /\ n.p_flags[m.i2] = {} /\ n.p_pid = s.p_pid
<1>1. PICK p \in UserSlots : p = m.i2
  OBVIOUS
<1>2. PICK a : a = [s EXCEPT !.p_alarm[p] = 0]
  OBVIOUS
<1>3. KInv(a) /\ SigEffect(s, a) /\ a.p_flags = s.p_flags /\ a.mess = s.mess
      /\ a.rdy = s.rdy /\ a.proc_ptr = s.proc_ptr /\ a.sig_procs = s.sig_procs
  BY <1>1, <1>2, AlarmCleared
<1>4. /\ a.p_alarm[p] = 0 /\ a.p_priority = s.p_priority
      /\ a.p_pending = s.p_pending /\ a.p_pendcount = s.p_pendcount
  <2>1. s \in KernelState /\ p \in Slots
    BY <1>1, ProcFacts DEF KInv, Base
  <2>2. s.p_alarm \in [Slots -> Int]
    BY <2>1 DEF KernelState
  <2> QED
    BY <1>2, <2>1, <2>2 DEF KernelState
<1>5. PICK h : h = Halt(a, p)
  OBVIOUS
<1>6. PICK l : l = IF "SENDING" \in h.p_flags[p] THEN LeaveCallerQueues(h, p) ELSE h
  OBVIOUS
<1>7. PICK n : n = ClearSlot(l, p)
  OBVIOUS
<1>8. do_xit(s, m).k = n
  BY <1>1, <1>2, <1>5, <1>6, <1>7 DEF do_xit, Halt
<1> HIDE <1>2
<1>9. ~isemptyp(a, p)
  BY <1>1, <1>4 DEF isemptyp
<1>10. XitIs(a, p, n)
  BY <1>3, <1>5, <1>6, <1>7, <1>9, XitFields
<1> HIDE <1>6, <1>7
<1>11. Base(a) /\ a \in KernelState /\ Scheduled(a) /\ Lists(a.rdy, Ready(a))
       /\ Classed(a.p_priority) /\ a.proc_ptr = Top(a.rdy) /\ MMHears(a)
  BY <1>3 DEF KInv, Base, Scheduled
<1>12. /\ Base(n) /\ n.sig_procs <= a.sig_procs
       /\ Ready(n) = Ready(a) \ {p} /\ isemptyp(n, p) /\ n.p_flags[p] = {}
       /\ \A x \in Procs \ {p} :
              n.p_flags[x] = a.p_flags[x] /\ n.p_priority[x] = a.p_priority[x]
       /\ \A x \in UserSlots \ {p} : Open(n, x) = Open(a, x)
  BY <1>4, <1>10, <1>11, XitBase
<1>13. p \in Schedulable /\ p \in Procs /\ p \notin Tasks \cup Servers
       /\ MM \in Servers /\ MM \in Procs /\ Tasks \cup Servers \subseteq Procs
  BY ProcFacts DEF Servers
<1>14. Scheduled(n)
  <2>1. h \in KernelState /\ Lists(h.rdy, Ready(a) \ {p}) /\ h.proc_ptr = Top(h.rdy)
    BY <1>5, <1>9, <1>11, <1>13, HaltKeeps
  <2> QED
    BY <1>5, <1>10, <1>12, <2>1 DEF Scheduled, XitIs
<1>15. n.p_getfrom = a.p_getfrom /\ n.p_sendto = a.p_sendto /\ n.mess = a.mess
       /\ n.p_pid = a.p_pid /\ n.p_int_blocked = a.p_int_blocked /\ n.rdy = h.rdy
       /\ n \in KernelState
  BY <1>5, <1>10 DEF XitIs
<1>16. MMHears(n)
  <2>1. a.sig_procs \in Int /\ n.sig_procs \in Int
    BY <1>11, <1>15 DEF KernelState
  <2> QED
    BY <1>11, <1>12, <1>13, <1>15, <2>1 DEF MMHears
<1>17. \A q \in {TASK_Q, SERVER_Q} : n.rdy[q] = s.rdy[q]
  <2>1. Class(p) = USER_Q /\ TASK_Q # USER_Q /\ SERVER_Q # USER_Q /\ USER_Q \in Queues
        /\ {TASK_Q, SERVER_Q} \subseteq Queues
    BY <1>13 DEF Class, TASK_Q, SERVER_Q, USER_Q, Queues
  <2>2. Distinct(a.rdy[Class(p)])
    BY <1>11, <2>1 DEF Lists
  <2>3. CASE a.p_flags[p] = {}
    <3>1. h.rdy = [a.rdy EXCEPT ![Class(p)] = Unlink(a.rdy[Class(p)], p)]
      BY <1>5, <1>11, <1>13, <2>2, <2>3, UnreadyEffect DEF Halt
    <3> QED
      BY <1>3, <1>11, <1>15, <2>1, <3>1 DEF KernelState
  <2>4. CASE a.p_flags[p] # {}
    BY <1>3, <1>5, <1>15, <2>4 DEF Halt
  <2> QED
    BY <2>3, <2>4
<1>18. OnUser(s, n, p)
  <2>1. /\ a.p_getfrom = s.p_getfrom /\ a.p_sendto = s.p_sendto
        /\ a.p_int_blocked = s.p_int_blocked /\ a.p_pid = s.p_pid
    BY <1>3 DEF SigEffect
  <2>2. \A x \in UserSlots \ {p} : Open(n, x) = Open(s, x)
    BY <1>4, <1>12 DEF Open
  <2>3. \A t \in Tasks \cup Servers : n.p_flags[t] = s.p_flags[t]
    BY <1>3, <1>12, <1>13
  <2>4. HeadsKept(s, n, HARDWARE) /\ n.rdy[TASK_Q] = s.rdy[TASK_Q]
    BY <1>17 DEF HeadsKept
  <2> QED
    BY <1>3, <1>4, <1>12, <1>15, <2>1, <2>2, <2>3, <2>4 DEF OnUser
<1>19. n.p_pid = s.p_pid
  BY <1>3, <1>15 DEF SigEffect
<1>20. KInv(n)
  BY <1>12, <1>14, <1>16 DEF KInv
<1> HIDE <1>5
<1> QED
  BY <1>1, <1>8, <1>12, <1>18, <1>19, <1>20

\* do_setpri() changes nothing else than a user's priority.
LEMMA SetpriKeeps ==
  ASSUME NEW s, KInv(s), NEW m, m.i2 \in Int
  PROVE  LET n == do_setpri(s, m).k
         IN KInv(n) /\ OnUser(s, n, IDLE)
<1>1. s \in KernelState /\ Base(s) /\ s.user_priority \in [Slots -> Int]
  BY DEF KInv, Base, KernelState
<1>2. PICK prio : prio = IF m.i2 <= 0 \/ m.i2 > MaxPriority THEN DefaultPriority ELSE m.i2
  OBVIOUS
<1>3. prio \in Int
  BY <1>2, SystemAssumption
<1>4. PICK U : U = [s.user_priority EXCEPT ![FindPid(s, m.i1)] = prio]
  OBVIOUS
<1>5. U \in [Slots -> Int]
  BY <1>1, <1>3, <1>4
<1>6. PICK n : n = [s EXCEPT !.user_priority = U]
  OBVIOUS
<1>7. do_setpri(s, m).k = IF SlotsWithPid(s, m.i1) = {} THEN s ELSE n
  BY <1>1, <1>2, <1>4, <1>6 DEF do_setpri, KernelState
<1>8. n \in KernelState
  BY <1>1, <1>5, <1>6 DEF KernelState
<1>9. /\ SameSignals(s, n) /\ n.p_flags = s.p_flags
      /\ n.p_getfrom = s.p_getfrom /\ n.p_int_blocked = s.p_int_blocked
      /\ n.p_pid = s.p_pid /\ n.mess = s.mess /\ n.rdy = s.rdy /\ n.proc_ptr = s.proc_ptr
  BY <1>1, <1>6 DEF KernelState, SameSignals
<1> HIDE <1>2, <1>4, <1>6
<1>10. KInv(n)
  <2>1. FS \in Schedulable /\ FS \notin UserSlots
    BY ProcFacts DEF Servers
  <2>2. n.p_flags[FS] \in {{}, {"RECEIVING"}}
    BY <1>1, <1>9 DEF Base, SystemFlags
  <2>3. Base(n)
    BY <1>1, <1>8, <1>9, <2>1, <2>2, BaseStep
  <2>4. Scheduled(n) /\ MMHears(n)
    BY <1>9 DEF KInv, Scheduled, Ready, isemptyp, MMHears, SameSignals
  <2> QED
    BY <2>3, <2>4 DEF KInv
<1>11. OnUser(s, n, IDLE)
  BY <1>8, <1>9 DEF OnUser, HeadsKept, Open, SameSignals
<1>12. OnUser(s, s, IDLE)
  BY <1>1, OnUserSame
<1> QED
  BY <1>7, <1>10, <1>11, <1>12

-----------------------------------------------------------------------------
(* The invariant of the main loops: s is the kernel, P is pc, L is plan,    *)
(* Z is paused and C is closed.                                             *)

\* The steps of plans; a server does not fill in m_source.
Steps == [how : {"send", "sendrec", "result"}, to : Procs,
          m : {m \in Mess : m.src = HARDWARE}]

CtlTyped(P, L, Z) ==
  /\ P \in [Tasks \cup Servers -> {"recv", "work", "plan", "reply"}]
  /\ L \in [Servers -> Seq(Steps)]
  /\ Z \subseteq UserSlots

WaitsFor(s, p, d) == s.p_flags[p] = {"RECEIVING"} /\ s.p_getfrom[p] = d
IdleTask(s, P, t) == P[t] = "work" /\ WaitsFor(s, t, ANY)
DoneTask(s, P, t) == P[t] = "recv" /\ s.p_flags[t] = {}

\* A server runs, waits for anybody, or waits for an answer.
ServerState(s, P, L, v) ==
  /\ P[v] \in {"recv", "work", "plan"}
  /\ P[v] = "plan" <=> L[v] # << >>
  /\ \/ s.p_flags[v] = {}
     \/ P[v] = "work" /\ WaitsFor(s, v, ANY)
     \/ /\ P[v] # "work" /\ "RECEIVING" \in s.p_flags[v]
        /\ s.p_getfrom[v] \in Tasks \cup {FS}
  /\ "SENDING" \in s.p_flags[v] => s.mess[v].type \in Tidings

\* The system task works for server v.
Busy(s, P, v) ==
  P[SYSTASK] = "work" /\ s.p_flags[SYSTASK] = {} /\ s.mess[SYSTASK].src = v

\* It works at once, and for a server that waits.
SysState(s, P) ==
  /\ \/ IdleTask(s, P, SYSTASK) \/ DoneTask(s, P, SYSTASK)
     \/ \E v \in Servers :
          /\ Busy(s, P, v) /\ WaitsFor(s, v, SYSTASK)
          /\ s.mess[SYSTASK] = [s.mess[v] EXCEPT !.src = v]
  /\ s.p_flags[SYSTASK] = {} => s.proc_ptr = SYSTASK
  /\ ~s.p_int_blocked[SYSTASK]

SetsAlarm(s) ==
  /\ s.mess[CLOCK].type = "SET_ALARM" /\ s.mess[CLOCK].src = MM
  /\ WaitsFor(s, MM, CLOCK)
  /\ s.mess[CLOCK].i1 \in UserSlots /\ ~isemptyp(s, s.mess[CLOCK].i1)

ClockState(s, P) ==
  \/ IdleTask(s, P, CLOCK) \/ DoneTask(s, P, CLOCK)
  \/ /\ P[CLOCK] = "work" /\ s.p_flags[CLOCK] = {}
     /\ s.mess[CLOCK].type = "HARD_INT" \/ SetsAlarm(s)

DiskState(s, P) ==
  /\ \/ IdleTask(s, P, DISK) \/ DoneTask(s, P, DISK)
     \/ P[DISK] = "work" /\ s.p_flags[DISK] = {} /\ WaitsFor(s, FS, DISK)
     \/ /\ P[DISK] = "reply" /\ WaitsFor(s, FS, DISK)
        /\ WaitsFor(s, DISK, HARDWARE) \/ s.p_flags[DISK] = {}
  /\ ~s.p_int_blocked[DISK]

\* What MM has still to do, with the request the system task works on
Todo(s, P, L) ==
  IF Busy(s, P, MM)
  THEN <<Call(SYSTASK, [s.mess[SYSTASK] EXCEPT !.src = HARDWARE])>> \o L[MM]
  ELSE L[MM]

\* The program u waits for an answer of v, which has its call.
Answerable(s, u, v) ==
  /\ u \in UserSlots /\ ~isemptyp(s, u)
  /\ "RECEIVING" \in s.p_flags[u] /\ "SENDING" \notin s.p_flags[u]
  /\ s.p_getfrom[u] = v

IsReply(e) == e.how \in {"send", "result"}
IsCall(e, type) == e.how = "sendrec" /\ e.m.type = type

\* The slot c gets its process before what comes next.
Kid(t, c) == t # << >> /\ IsCall(t[1], "SYS_FORK") /\ t[1].m.i2 = c

\* What MM tells FS: that a process ends, or of a fork
InTransit(s, P) ==
  IF "SENDING" \in s.p_flags[MM] THEN s.mess[MM]
  ELSE IF P[FS] = "work" /\ s.p_flags[FS] = {} /\ s.mess[FS].src = MM THEN s.mess[FS]
  ELSE NoMess
Known(s, P, C) ==
  C \cup {p \in UserSlots : /\ InTransit(s, P).type = "TELL_EXIT"
                            /\ InTransit(s, P).i1 = p}
TellsFork(s, P) == InTransit(s, P).type = "TELL_FORK"

ReplyOK(s, Z, t, i) ==
  /\ IsReply(t[i]) /\ t[i].to \in UserSlots /\ t[i].m.type \in {"REPLY", "none"}
  /\ Answerable(s, t[i].to, MM) \/ (i # 1 /\ Kid(t, t[i].to))
  /\ t[i].how = "result" => t[i].to \notin Z

ForkOK(s, t, i) ==
  LET m == t[i].m
  IN /\ IsCall(t[i], "SYS_FORK") /\ i = 1
     /\ Answerable(s, m.i1, MM)
     /\ m.i2 \in UserSlots /\ isemptyp(s, m.i2)
     /\ \A p \in UserSlots : p < m.i2 => ~isemptyp(s, p)
     /\ \A p \in UserSlots : ~isemptyp(s, p) => s.p_pid[p] # m.i3
     /\ \A j \in DOMAIN t \ {1} :
          IsReply(t[j]) \/ IsCall(t[j], "TELL_FORK") \/ IsCall(t[j], "SYS_NEWMAP")

NewmapOK(s, t, i) ==
  /\ IsCall(t[i], "SYS_NEWMAP") /\ t[i].m.i1 \in UserSlots
  /\ ~isemptyp(s, t[i].m.i1) \/ (i # 1 /\ Kid(t, t[i].m.i1))

ExecOK(s, Z, t, i) ==
  /\ IsCall(t[i], "SYS_EXEC") /\ Len(t) = 1
  /\ Answerable(s, t[i].m.i1, MM) /\ t[i].m.i1 \notin Z

XitOK(s, K, t, i) ==
  LET p == t[i].m.i2
  IN /\ IsCall(t[i], "SYS_XIT") /\ i \in {1, 2}
     /\ p \in UserSlots /\ ~isemptyp(s, p)
     /\ i = 1 => p \in K
     /\ i = 2 => IsCall(t[1], "TELL_EXIT") /\ t[1].m.i1 = p
     /\ \A j \in DOMAIN t : j > i =>
          \/ IsReply(t[j]) /\ t[j].to # p
          \/ IsCall(t[j], "SYS_ENDSIG")

TraceOK(s, t, i) ==
  /\ IsCall(t[i], "SYS_TRACE") /\ t[i].m.i1 \in UserSlots
  /\ \/ t[i].m.i2 = T_STOP
     \/ t[i].m.i2 = T_RESUME /\ i = 1 /\ "P_STOP" \in s.p_flags[t[i].m.i1]

SysCallOK(s, Z, K, t, i) ==
  /\ t[i].how = "sendrec" /\ t[i].to = SYSTASK
  /\ \/ ForkOK(s, t, i) \/ NewmapOK(s, t, i) \/ ExecOK(s, Z, t, i)
     \/ XitOK(s, K, t, i) \/ TraceOK(s, t, i)
     \/ t[i].m.type = "SYS_ENDSIG" /\ t[i].m.i1 \in UserSlots
     \/ t[i].m.type \in {"SYS_SENDSIG", "SYS_GETPRI", "SYS_SETPRI"}

OtherCallOK(s, t, i) ==
  /\ t[i].how = "sendrec"
  /\ \/ t[i].to = FS /\ t[i].m.type \in Tidings
     \/ /\ t[i].to = CLOCK /\ t[i].m.type = "SET_ALARM"
        /\ t[i].m.i1 \in UserSlots /\ ~isemptyp(s, t[i].m.i1)

MMElem(s, Z, K, t, i) ==
  \/ ReplyOK(s, Z, t, i) \/ SysCallOK(s, Z, K, t, i) \/ OtherCallOK(s, t, i)

RepliesOnce(t) ==
  \A i, j \in DOMAIN t : IsReply(t[i]) /\ IsReply(t[j]) /\ t[i].to = t[j].to => i = j

MMPlan(s, Z, K, t) ==
  (\A i \in DOMAIN t : MMElem(s, Z, K, t, i)) /\ RepliesOnce(t)

NoXit(t) == \A i \in DOMAIN t : ~IsCall(t[i], "SYS_XIT")

\* FS works for c.
Serves(s, P, L, c) ==
  \/ P[FS] = "work" /\ s.p_flags[FS] = {} /\ s.mess[FS].src = c
  \/ L[FS] # << >> /\ L[FS][Len(L[FS])].to = c
Client(s, c) == (c = MM /\ WaitsFor(s, MM, FS)) \/ Answerable(s, c, FS)
HeadFS(s) == s.rdy[SERVER_Q] # << >> /\ Head(s.rdy[SERVER_Q]) = FS

\* It answers one client, and one that has ended at once.
FSPlan(s, P, L, C) ==
  LET t == L[FS]
  IN /\ Len(t) <= 2 /\ (t # << >> => t[Len(t)].how = "send")
     /\ Len(t) = 2 =>
          \/ t[1].how = "sendrec" /\ t[1].to = DISK /\ t[1].m.type = "DEV_IO"
          \/ /\ IsCall(t[1], "SYS_KILL") /\ t[1].to = SYSTASK
             /\ t[1].m.i1 = t[2].to /\ t[2].to \in UserSlots
     /\ Busy(s, P, FS) =>
          /\ s.mess[SYSTASK].type = "SYS_KILL" /\ s.mess[SYSTASK].i1 \in UserSlots
          /\ Serves(s, P, L, s.mess[SYSTASK].i1)
     /\ \A c \in Procs : Serves(s, P, L, c) =>
          Client(s, c) /\ (c \in C \cap UserSlots => HeadFS(s) /\ Len(t) <= 1)

\* What a user asks of MM
AsksMM(m, u) ==
  /\ m.type \in MMCalls /\ u \in UserSlots
  /\ m.type = "EXIT" => u # INIT
  /\ m.type \in {"KILL", "RESUME"} => m.i1 \in UserSlots \ {INIT}

UserMess(s) ==
  \A u \in UserSlots : "SENDING" \in s.p_flags[u] =>
    /\ s.p_sendto[u] = MM => AsksMM(s.mess[u], u)
    /\ s.p_sendto[u] = FS => s.mess[u].type \in FSCalls

\* What a server that is to decide has got
Got(s, P, v) == P[v] = "work" /\ s.p_flags[v] = {}
MMGot(s, P, Z) ==
  Got(s, P, MM) =>
    LET m == s.mess[MM]
    IN \/ m.type = "KSIG" /\ m.i1 \in UserSlots /\ IsFiniteSet(m.map)
       \/ AsksMM(m, m.src) /\ Answerable(s, m.src, MM) /\ m.src \notin Z
FSGot(s, P) ==
  Got(s, P, FS) =>
    LET m == s.mess[FS]
    IN \/ m.src = MM /\ m.type \in Tidings
       \/ m.src \in UserSlots /\ m.type \in FSCalls

PausedOK(s, Z) == \A p \in Z : Answerable(s, p, MM)

\* Nobody minds the end of a process.
Exiting(s, P, L, Z) ==
  Busy(s, P, MM) /\ s.mess[SYSTASK].type = "SYS_XIT" =>
    ~Serves(s, P, L, s.mess[SYSTASK].i2) /\ s.mess[SYSTASK].i2 \notin Z

PidsDiffer(s) ==
  \A p, q \in UserSlots : ~isemptyp(s, p) /\ q < p => s.p_pid[q] # s.p_pid[p]

\* The signals of u that MM has in hand
Ends(t, u) == {i \in DOMAIN t : t[i].m.type = "SYS_ENDSIG" /\ t[i].m.i1 = u}
HasTold(s, P, u) ==
  IF Got(s, P, MM) /\ s.mess[MM].type = "KSIG" /\ s.mess[MM].i1 = u
  THEN Cardinality(s.mess[MM].map) ELSE 0
OpenOK(s, P, t) ==
  \A u \in UserSlots :
    ~isemptyp(s, u) => Open(s, u) = Cardinality(Ends(t, u)) + HasTold(s, P, u)

ServersOK(s, P, L) == ServerState(s, P, L, MM) /\ ServerState(s, P, L, FS)
TasksOK(s, P) == SysState(s, P) /\ ClockState(s, P) /\ DiskState(s, P)
TodoOK(s, P, Z, C, t) ==
  /\ MMPlan(s, Z, Known(s, P, C), t) /\ (TellsFork(s, P) => NoXit(t))
  /\ OpenOK(s, P, t)
MailOK(s, P, Z) ==
  UserMess(s) /\ MMGot(s, P, Z) /\ FSGot(s, P) /\ PausedOK(s, Z) /\ PidsDiffer(s)

CInv(s, P, L, Z, C) ==
  /\ CtlTyped(P, L, Z) /\ ServersOK(s, P, L) /\ TasksOK(s, P)
  /\ TodoOK(s, P, Z, C, Todo(s, P, L)) /\ FSPlan(s, P, L, C)
  /\ MailOK(s, P, Z) /\ Exiting(s, P, L, Z)
-----------------------------------------------------------------------------
(* Plans *)

\* The rest of a plan
LEMMA TailFacts ==
  ASSUME NEW S, NEW t \in Seq(S), t # << >>
  PROVE  /\ Tail(t) \in Seq(S) /\ Len(t) \in Nat /\ Len(t) >= 1 /\ Head(t) = t[1]
         /\ Len(Tail(t)) = Len(t) - 1 /\ DOMAIN t = 1..Len(t) /\ 1 \in DOMAIN t
         /\ DOMAIN Tail(t) = 1..(Len(t) - 1) /\ t[1] \in S
         /\ \A i \in DOMAIN Tail(t) : i + 1 \in DOMAIN t /\ Tail(t)[i] = t[i + 1]
<1>1. /\ Tail(t) \in Seq(S) /\ Len(t) \in Nat /\ Len(t) >= 1 /\ Head(t) = t[1]
      /\ Len(Tail(t)) = Len(t) - 1 /\ DOMAIN t = 1..Len(t)
      /\ \A i \in 1..(Len(t) - 1) : Tail(t)[i] = t[i + 1]
  BY HeadTailProperties, LenProperties
<1> QED
  BY <1>1, ElementOfSeq

\* A finite set of numbers that is moved up by one
LEMMA MovedUp ==
  ASSUME NEW S, S \subseteq Int, IsFiniteSet(S), NEW T, T = {i + 1 : i \in S}
  PROVE  IsFiniteSet(T) /\ Cardinality(T) = Cardinality(S)
<1>1. PICK f : f = [i \in S |-> i + 1]
  OBVIOUS
<1>2. f \in Bijection(S, T)
  BY <1>1, Fun_IsBij, SMTT(20)
<1>3. ExistsBijection(S, T)
  BY <1>2, Fun_ExistsBij
<1> QED
  BY <1>3, FS_Bijection

\* A signal that is to be reported
EndsOne(e, u) == e.m.type = "SYS_ENDSIG" /\ e.m.i1 = u

\* The reports in a plan, with and without the first step
LEMMA EndsTail ==
  ASSUME NEW S, NEW t \in Seq(S), NEW u
  PROVE  /\ IsFiniteSet(Ends(t, u)) /\ Cardinality(Ends(t, u)) \in Nat
         /\ t # << >> =>
              Cardinality(Ends(t, u)) =
                Cardinality(Ends(Tail(t), u)) + IF EndsOne(t[1], u) THEN 1 ELSE 0
<1>1. ASSUME NEW r \in Seq(S)
      PROVE  /\ IsFiniteSet(Ends(r, u)) /\ Cardinality(Ends(r, u)) \in Nat
             /\ Ends(r, u) \subseteq Int
  <2>1. Len(r) \in Nat /\ DOMAIN r = 1..Len(r)
    BY <1>1, LenProperties
  <2>2. IsFiniteSet(1..Len(r)) /\ Ends(r, u) \in SUBSET (1..Len(r))
    BY <2>1, FS_Interval DEF Ends
  <2>3. IsFiniteSet(Ends(r, u))
    BY <2>2, FS_Subset
  <2> QED
    BY <2>1, <2>2, <2>3, FS_CardinalityType
<1>2. ASSUME t # << >>
      PROVE  Cardinality(Ends(t, u)) =
               Cardinality(Ends(Tail(t), u)) + IF EndsOne(t[1], u) THEN 1 ELSE 0
  <2>1. Tail(t) \in Seq(S)
    BY <1>2, TailFacts
  <2>2. PICK M : M = {i + 1 : i \in Ends(Tail(t), u)}
    OBVIOUS
  <2>3. IsFiniteSet(M) /\ Cardinality(M) = Cardinality(Ends(Tail(t), u))
    BY <1>1, <2>1, <2>2, MovedUp
  <2>4. M = Ends(t, u) \ {1}
    <3>1. ASSUME NEW j \in M PROVE j \in Ends(t, u) \ {1}
      <4>1. PICK i \in Ends(Tail(t), u) : j = i + 1
        BY <2>2
      <4>2. i \in DOMAIN Tail(t) /\ i \in Nat \ {0}
        BY <1>2, <4>1, TailFacts DEF Ends
      <4> QED
        BY <1>2, <4>1, <4>2, TailFacts DEF Ends
    <3>2. ASSUME NEW j \in Ends(t, u) \ {1} PROVE j \in M
      <4>1. j \in DOMAIN t /\ j \in 1..Len(t) /\ j # 1 /\ Len(t) \in Nat
        BY <1>2, TailFacts DEF Ends
      <4>2. PICK i \in Int : i = j - 1
        BY <4>1
      <4>3. i \in DOMAIN Tail(t) /\ Tail(t)[i] = t[j] /\ j = i + 1
        BY <1>2, <4>1, <4>2, TailFacts
      <4> QED
        BY <2>2, <4>3 DEF Ends
    <3> QED
      BY <3>1, <3>2
  <2>5. 1 \in Ends(t, u) <=> EndsOne(t[1], u)
    BY <1>2, TailFacts DEF Ends, EndsOne
  <2>6. PICK c \in Nat : c = Cardinality(Ends(t, u))
    BY <1>1
  <2>7. Cardinality(M) = IF EndsOne(t[1], u) THEN c - 1 ELSE c
    BY <1>1, <2>4, <2>5, <2>6, FS_RemoveElement
  <2> QED
    BY <2>3, <2>6, <2>7
<1> QED
  BY <1>1, <1>2

\* What a step of MM's plan is, by the request
LEMMA ElemKinds ==
  ASSUME NEW s, NEW Z, NEW K, NEW t, NEW i, MMElem(s, Z, K, t, i)
  PROVE  /\ IsReply(t[i]) => ReplyOK(s, Z, t, i)
         /\ IsCall(t[i], "SYS_FORK") => ForkOK(s, t, i)
         /\ IsCall(t[i], "SYS_NEWMAP") => NewmapOK(s, t, i)
         /\ IsCall(t[i], "SYS_EXEC") => ExecOK(s, Z, t, i)
         /\ IsCall(t[i], "SYS_XIT") => XitOK(s, K, t, i)
         /\ IsCall(t[i], "SYS_TRACE") => TraceOK(s, t, i)
         /\ ~IsReply(t[i]) => SysCallOK(s, Z, K, t, i) \/ OtherCallOK(s, t, i)
<1>1. SysCallOK(s, Z, K, t, i) => ~IsReply(t[i])
  BY DEF SysCallOK, IsReply
<1>2. OtherCallOK(s, t, i) =>
        ~IsReply(t[i]) /\ t[i].m.type \in Tidings \cup {"SET_ALARM"}
  BY DEF OtherCallOK, IsReply
<1>3. ReplyOK(s, Z, t, i) => IsReply(t[i])
  BY DEF ReplyOK
<1>4. ReplyOK(s, Z, t, i) \/ SysCallOK(s, Z, K, t, i) \/ OtherCallOK(s, t, i)
  BY DEF MMElem
<1>5. ASSUME SysCallOK(s, Z, K, t, i)
      PROVE  \/ ForkOK(s, t, i) \/ NewmapOK(s, t, i) \/ ExecOK(s, Z, t, i)
             \/ XitOK(s, K, t, i) \/ TraceOK(s, t, i)
             \/ t[i].m.type \in {"SYS_ENDSIG", "SYS_SENDSIG", "SYS_GETPRI", "SYS_SETPRI"}
  BY <1>5 DEF SysCallOK
<1>6. /\ ForkOK(s, t, i) => t[i].m.type = "SYS_FORK"
      /\ NewmapOK(s, t, i) => t[i].m.type = "SYS_NEWMAP"
      /\ ExecOK(s, Z, t, i) => t[i].m.type = "SYS_EXEC"
      /\ XitOK(s, K, t, i) => t[i].m.type = "SYS_XIT"
      /\ TraceOK(s, t, i) => t[i].m.type = "SYS_TRACE"
  BY DEF ForkOK, NewmapOK, ExecOK, XitOK, TraceOK, IsCall
<1>7. \A type : IsCall(t[i], type) => t[i].m.type = type /\ ~IsReply(t[i])
  BY DEF IsCall, IsReply
<1> QED
  BY <1>1, <1>2, <1>3, <1>4, <1>5, <1>6, <1>7 DEF Tidings

\* The process whose end, answer or new program is the first step
Finishes(t, u) ==
  \/ IsReply(t[1]) /\ t[1].to = u
  \/ IsCall(t[1], "SYS_XIT") /\ t[1].m.i2 = u
  \/ IsCall(t[1], "SYS_EXEC")
\* When the first step of a plan is done, the rest is possible.
LEMMA TailStays ==
  ASSUME NEW s, NEW n, NEW Z, NEW Z2, NEW K, NEW K2, NEW t \in Seq(Steps), t # << >>,
         MMPlan(s, Z, K, t), Z2 \subseteq Z,
         \A u \in UserSlots :
           Answerable(s, u, MM) \/ Kid(t, u) => Answerable(n, u, MM) \/ Finishes(t, u),
         \A u \in UserSlots :
           ~isemptyp(s, u) \/ Kid(t, u) =>
             ~isemptyp(n, u) \/ (IsCall(t[1], "SYS_XIT") /\ t[1].m.i2 = u),
         IsCall(t[1], "TELL_EXIT") => t[1].m.i1 \in K2
  PROVE  MMPlan(n, Z2, K2, Tail(t))
<1>1. PICK r : r = Tail(t)
  OBVIOUS
<1>2. /\ Len(t) \in Nat /\ DOMAIN t = 1..Len(t) /\ DOMAIN r = 1..(Len(t) - 1) /\ 1 \in DOMAIN t
      /\ \A j \in DOMAIN r : j + 1 \in DOMAIN t /\ r[j] = t[j + 1]
  BY <1>1, TailFacts
<1>3. \A i \in DOMAIN t : MMElem(s, Z, K, t, i)
  BY DEF MMPlan
<1>4. RepliesOnce(t)
  BY DEF MMPlan
<1>5. ASSUME IsCall(t[1], "SYS_XIT"), NEW j \in DOMAIN t, j > 1
      PROVE  (IsReply(t[j]) /\ t[j].to # t[1].m.i2) \/ IsCall(t[j], "SYS_ENDSIG")
  <2>1. XitOK(s, K, t, 1)
    BY <1>2, <1>3, <1>5, ElemKinds
  <2> QED
    BY <1>5, <2>1 DEF XitOK
<1>6. ASSUME IsCall(t[1], "SYS_EXEC") PROVE DOMAIN r = {}
  <2>1. ExecOK(s, Z, t, 1)
    BY <1>2, <1>3, <1>6, ElemKinds
  <2> QED
    BY <1>2, <2>1 DEF ExecOK
<1>7. RepliesOnce(r)
  <2>1. ASSUME NEW i \in DOMAIN r, NEW j \in DOMAIN r, IsReply(r[i]), IsReply(r[j]), r[i].to = r[j].to
        PROVE  i = j
    <3>1. i + 1 = j + 1
      BY <1>2, <1>4, <2>1 DEF RepliesOnce
    <3> QED
      BY <1>2, <3>1
  <2> QED
    BY <2>1 DEF RepliesOnce
<1>8. ASSUME NEW j \in DOMAIN r PROVE MMElem(n, Z2, K2, r, j)
  <2>1. PICK i \in DOMAIN t : i = j + 1 /\ r[j] = t[i] /\ i # 1 /\ i > 1 /\ j \in Int /\ j >= 1
    BY <1>2
  <2>2. ~IsCall(t[1], "SYS_EXEC")
    BY <1>6
  <2>3. MMElem(s, Z, K, t, i)
    BY <1>3
  <2>4. CASE IsReply(t[i])
    <3>1. ReplyOK(s, Z, t, i)
      BY <2>3, <2>4, ElemKinds
    <3>2. ~Finishes(t, t[i].to)
      <4>1. ~(IsReply(t[1]) /\ t[1].to = t[i].to)
        BY <1>2, <1>4, <2>1, <2>4 DEF RepliesOnce
      <4>2. ~(IsCall(t[1], "SYS_XIT") /\ t[1].m.i2 = t[i].to)
        BY <1>5, <2>1, <2>4 DEF IsCall, IsReply
      <4> QED
        BY <2>2, <4>1, <4>2 DEF Finishes
    <3>3. Answerable(n, t[i].to, MM)
      BY <3>1, <3>2 DEF ReplyOK
    <3>4. ReplyOK(n, Z2, r, j)
      BY <2>1, <3>1, <3>3 DEF ReplyOK
    <3> QED
      BY <3>4 DEF MMElem
  <2>5. CASE ~IsReply(t[i]) /\ IsCall(t[1], "SYS_XIT")
    <3>1. IsCall(t[i], "SYS_ENDSIG")
      BY <1>5, <2>1, <2>5
    <3>2. SysCallOK(s, Z, K, t, i)
      BY <2>3, <2>5, <3>1, ElemKinds DEF OtherCallOK, IsCall, Tidings
    <3>3. t[i].m.i1 \in UserSlots
      BY <3>1, <3>2 DEF SysCallOK, ForkOK, NewmapOK, ExecOK, XitOK, TraceOK, IsCall
    <3> QED
      BY <2>1, <3>1, <3>2, <3>3 DEF MMElem, SysCallOK, IsCall
  <2>6. CASE ~IsReply(t[i]) /\ ~IsCall(t[1], "SYS_XIT")
    <3>1. \A u \in UserSlots : ~isemptyp(s, u) \/ Kid(t, u) => ~isemptyp(n, u)
      BY <2>6
    <3>2. CASE OtherCallOK(s, t, i)
      BY <2>1, <3>1, <3>2 DEF OtherCallOK, MMElem
    <3>3. CASE SysCallOK(s, Z, K, t, i)
      <4>1. t[i].how = "sendrec" /\ t[i].to = SYSTASK
        BY <3>3 DEF SysCallOK
      <4>2. ~ForkOK(s, t, i) /\ ~ExecOK(s, Z, t, i)
        BY <1>2, <2>1 DEF ForkOK, ExecOK
      <4>3. CASE NewmapOK(s, t, i)
        <5>1. NewmapOK(n, r, j)
          BY <2>1, <3>1, <4>3 DEF NewmapOK
        <5> QED
          BY <2>1, <4>1, <5>1 DEF MMElem, SysCallOK
      <4>4. CASE XitOK(s, K, t, i)
        <5>1. i = 2 /\ j = 1 /\ IsCall(t[1], "TELL_EXIT") /\ t[1].m.i1 = t[i].m.i2
          BY <2>1, <4>4 DEF XitOK
        <5>2. \A x \in DOMAIN r : x > 1 =>
                (IsReply(r[x]) /\ r[x].to # t[i].m.i2) \/ IsCall(r[x], "SYS_ENDSIG")
          <6>1. ASSUME NEW x \in DOMAIN r, x > 1
                PROVE (IsReply(r[x]) /\ r[x].to # t[i].m.i2) \/ IsCall(r[x], "SYS_ENDSIG")
            <7>1. x + 1 \in DOMAIN t /\ r[x] = t[x + 1] /\ x + 1 > i
              BY <1>2, <5>1, <6>1
            <7> QED
              BY <4>4, <7>1 DEF XitOK
          <6> QED
            BY <6>1
        <5>3. t[i].m.i2 \in UserSlots /\ ~isemptyp(n, t[i].m.i2) /\ IsCall(t[i], "SYS_XIT")
              /\ t[i].m.i2 \in K2
          BY <3>1, <4>4, <5>1 DEF XitOK
        <5>4. XitOK(n, K2, r, j)
          BY <2>1, <5>1, <5>2, <5>3 DEF XitOK
        <5> QED
          BY <2>1, <4>1, <5>4 DEF MMElem, SysCallOK
      <4>5. CASE TraceOK(s, t, i)
        <5>1. TraceOK(n, r, j)
          BY <2>1, <4>5 DEF TraceOK
        <5> QED
          BY <2>1, <4>1, <5>1 DEF MMElem, SysCallOK
      <4>6. CASE (t[i].m.type = "SYS_ENDSIG" /\ t[i].m.i1 \in UserSlots)
                 \/ t[i].m.type \in {"SYS_SENDSIG", "SYS_GETPRI", "SYS_SETPRI"}
        BY <2>1, <4>1, <4>6 DEF MMElem, SysCallOK
      <4> QED
        BY <3>3, <4>2, <4>3, <4>4, <4>5, <4>6 DEF SysCallOK
    <3> QED
      BY <2>3, <2>6, <3>2, <3>3, ElemKinds
  <2> QED
    BY <2>4, <2>5, <2>6
<1> QED
  BY <1>1, <1>7, <1>8 DEF MMPlan

\* What a plan relies on, of processes that MM has nothing to do with
UsersStay(s, n) ==
  \A u \in UserSlots :
    /\ isemptyp(n, u) <=> isemptyp(s, u)
    /\ n.p_pid[u] = s.p_pid[u]
    /\ Answerable(s, u, MM) => Answerable(n, u, MM)
    /\ "P_STOP" \in s.p_flags[u] => "P_STOP" \in n.p_flags[u]
\* Then it stays possible.
LEMMA PlanStays ==
  ASSUME NEW s, NEW n, NEW Z, NEW Z2, NEW K, NEW K2, NEW t,
         MMPlan(s, Z, K, t), Z2 \subseteq Z, K \subseteq K2, UsersStay(s, n)
  PROVE  MMPlan(n, Z2, K2, t)
<1>1. RepliesOnce(t)
  BY DEF MMPlan
<1>2. ASSUME NEW i \in DOMAIN t PROVE MMElem(n, Z2, K2, t, i)
  <2>1. MMElem(s, Z, K, t, i)
    BY DEF MMPlan
  <2>2. CASE IsReply(t[i])
    <3>1. ReplyOK(s, Z, t, i)
      BY <2>1, <2>2, ElemKinds
    <3>2. ReplyOK(n, Z2, t, i)
      BY <3>1 DEF ReplyOK, UsersStay
    <3> QED
      BY <3>2 DEF MMElem
  <2>3. CASE OtherCallOK(s, t, i)
    <3>1. OtherCallOK(n, t, i)
      BY <2>3 DEF OtherCallOK, UsersStay
    <3> QED
      BY <3>1 DEF MMElem
  <2>4. CASE SysCallOK(s, Z, K, t, i)
    <3>1. ForkOK(s, t, i) => ForkOK(n, t, i)
      <4>1. ASSUME ForkOK(s, t, i) PROVE Answerable(n, t[i].m.i1, MM)
        BY <4>1 DEF ForkOK, UsersStay, Answerable
      <4> QED
        BY <4>1 DEF ForkOK, UsersStay
    <3>2. NewmapOK(s, t, i) => NewmapOK(n, t, i)
      BY DEF NewmapOK, UsersStay
    <3>3. ExecOK(s, Z, t, i) => ExecOK(n, Z2, t, i)
      BY DEF ExecOK, UsersStay, Answerable
    <3>4. XitOK(s, K, t, i) => XitOK(n, K2, t, i)
      BY DEF XitOK, UsersStay
    <3>5. TraceOK(s, t, i) => TraceOK(n, t, i)
      BY DEF TraceOK, UsersStay
    <3> QED
      BY <2>4, <3>1, <3>2, <3>3, <3>4, <3>5 DEF MMElem, SysCallOK
  <2> QED
    BY <2>1, <2>2, <2>3, <2>4, ElemKinds
<1> QED
  BY <1>1, <1>2 DEF MMPlan
-----------------------------------------------------------------------------
(* Steps of the tasks *)

\* Nothing happens to the users but signals.
CalmUsers(s, n) ==
  \A u \in UserSlots :
    /\ n.p_priority[u] = s.p_priority[u] /\ n.p_pid[u] = s.p_pid[u]
    /\ n.p_getfrom[u] = s.p_getfrom[u] /\ n.p_sendto[u] = s.p_sendto[u]
    /\ n.mess[u] = s.mess[u]
    /\ \A f \in Flags \ {"PENDING", "SIG_PENDING"} :
         f \in n.p_flags[u] <=> f \in s.p_flags[u]
    /\ Open(n, u) = Open(s, u)
SameServers(s, n) ==
  \A v \in Servers :
    /\ n.p_flags[v] = s.p_flags[v] /\ n.p_getfrom[v] = s.p_getfrom[v]
    /\ n.mess[v] = s.mess[v]
\* The system task goes on with what it does.
SameWork(s, P, n, P2) ==
  /\ \A v \in Servers : (Busy(n, P2, v) <=> Busy(s, P, v)) /\ P2[v] = P[v]
  /\ (\E v \in Servers : Busy(s, P, v)) => n.mess[SYSTASK] = s.mess[SYSTASK]

\* Then what MM relies on stays.
LEMMA CalmStays ==
  ASSUME NEW s, NEW n, CalmUsers(s, n)
  PROVE  /\ UsersStay(s, n) /\ (\A u, v : Answerable(n, u, v) <=> Answerable(s, u, v))
         /\ UserMess(s) => UserMess(n)
         /\ PidsDiffer(s) => PidsDiffer(n)
         /\ \A Z : PausedOK(s, Z) => PausedOK(n, Z)
         /\ \A u \in UserSlots : isemptyp(n, u) <=> isemptyp(s, u)
<1>1. {"SENDING", "RECEIVING", "P_STOP"} \subseteq Flags \ {"PENDING", "SIG_PENDING"}
  BY DEF Flags
<1>2. \A u \in UserSlots : isemptyp(n, u) <=> isemptyp(s, u)
  BY DEF CalmUsers, isemptyp
<1>3. \A u \in UserSlots, f \in {"SENDING", "RECEIVING", "P_STOP"} :
        f \in n.p_flags[u] <=> f \in s.p_flags[u]
  BY <1>1 DEF CalmUsers
<1>4. \A u, v : Answerable(n, u, v) <=> Answerable(s, u, v)
  BY <1>2, <1>3 DEF CalmUsers, Answerable
<1>5. UsersStay(s, n)
  BY <1>2, <1>3, <1>4 DEF CalmUsers, UsersStay
<1>6. UserMess(s) => UserMess(n)
  BY <1>3 DEF CalmUsers, UserMess
<1>7. PidsDiffer(s) => PidsDiffer(n)
  BY <1>2 DEF CalmUsers, PidsDiffer
<1> QED
  BY <1>2, <1>4, <1>5, <1>6, <1>7 DEF PausedOK

\* A task does something that neither a user nor a server notices.
LEMMA Aside ==
  ASSUME NEW s, NEW P, NEW L, NEW Z, NEW C, CInv(s, P, L, Z, C), NEW n, NEW P2,
         CalmUsers(s, n), SameServers(s, n), SameWork(s, P, n, P2),
         HeadFS(s) => HeadFS(n), CtlTyped(P2, L, Z), TasksOK(n, P2)
  PROVE  CInv(n, P2, L, Z, C)
<1>1. MM \in Servers /\ FS \in Servers
  BY DEF Servers
<1>2. /\ P2[MM] = P[MM] /\ P2[FS] = P[FS]
      /\ n.p_flags[MM] = s.p_flags[MM] /\ n.p_flags[FS] = s.p_flags[FS]
      /\ n.p_getfrom[MM] = s.p_getfrom[MM] /\ n.p_getfrom[FS] = s.p_getfrom[FS]
      /\ n.mess[MM] = s.mess[MM] /\ n.mess[FS] = s.mess[FS]
      /\ Busy(n, P2, MM) <=> Busy(s, P, MM)
      /\ Busy(n, P2, FS) <=> Busy(s, P, FS)
      /\ Busy(s, P, MM) \/ Busy(s, P, FS) => n.mess[SYSTASK] = s.mess[SYSTASK]
  BY <1>1 DEF SameServers, SameWork
<1>3. UsersStay(s, n) /\ (\A u, v : Answerable(n, u, v) <=> Answerable(s, u, v))
      /\ \A u \in UserSlots : isemptyp(n, u) <=> isemptyp(s, u)
  BY CalmStays
<1>4. ServersOK(n, P2, L)
  BY <1>2 DEF CInv, ServersOK, ServerState, WaitsFor
<1>5. Todo(n, P2, L) = Todo(s, P, L)
  BY <1>2 DEF Todo
<1>6. InTransit(n, P2) = InTransit(s, P)
  BY <1>2 DEF InTransit
<1>7. Known(n, P2, C) = Known(s, P, C) /\ TellsFork(n, P2) = TellsFork(s, P)
  BY <1>6 DEF Known, TellsFork
<1>8. TodoOK(n, P2, Z, C, Todo(n, P2, L))
  <2>1. PICK t : t = Todo(s, P, L)
    OBVIOUS
  <2>2. TodoOK(s, P, Z, C, t)
    BY <2>1 DEF CInv
  <2>3. MMPlan(n, Z, Known(n, P2, C), t)
    BY <1>3, <1>7, <2>2, PlanStays DEF TodoOK
  <2>4. OpenOK(n, P2, t)
    BY <1>2, <1>3, <2>2 DEF TodoOK, OpenOK, HasTold, Got, CalmUsers
  <2> QED
    BY <1>5, <1>7, <2>1, <2>2, <2>3, <2>4 DEF TodoOK
<1>9. FSPlan(n, P2, L, C)
  <2>1. FSPlan(s, P, L, C)
    BY DEF CInv
  <2>2. \A c : Serves(n, P2, L, c) <=> Serves(s, P, L, c)
    BY <1>2 DEF Serves
  <2>3. \A c : Client(n, c) <=> Client(s, c)
    BY <1>2, <1>3 DEF Client, WaitsFor
  <2> QED
    BY <1>2, <2>1, <2>2, <2>3 DEF FSPlan
<1>10. MailOK(n, P2, Z)
  <2>1. MailOK(s, P, Z)
    BY DEF CInv
  <2>2. UserMess(n) /\ PausedOK(n, Z) /\ PidsDiffer(n)
    BY <2>1, CalmStays DEF MailOK
  <2>3. MMGot(n, P2, Z) /\ FSGot(n, P2)
    BY <1>2, <1>3, <2>1 DEF MailOK, MMGot, FSGot, Got
  <2> QED
    BY <2>2, <2>3 DEF MailOK
<1>11. Exiting(n, P2, L, Z)
  <2>1. \A c : Serves(n, P2, L, c) <=> Serves(s, P, L, c)
    BY <1>2 DEF Serves
  <2>2. Exiting(s, P, L, Z)
    BY DEF CInv
  <2> QED
    BY <1>2, <2>1, <2>2 DEF Exiting
<1> QED
  BY <1>4, <1>8, <1>9, <1>10, <1>11 DEF CInv

\* The whole invariant
Good(s, P, L, Z, C) == KInv(s) /\ CInv(s, P, L, Z, C)
PcType == [Tasks \cup Servers -> {"recv", "work", "plan", "reply"}]
\* Only the task t has done something.
OnlyTask(s, P, n, P2, t) ==
  /\ n.p_priority = s.p_priority /\ n.p_pid = s.p_pid /\ n.p_sendto = s.p_sendto
  /\ n.p_pending = s.p_pending /\ n.p_pendcount = s.p_pendcount
  /\ \A x \in Procs \ {t} :
       /\ n.p_flags[x] = s.p_flags[x] /\ n.p_getfrom[x] = s.p_getfrom[x]
       /\ n.mess[x] = s.mess[x]
  /\ \A x \in Tasks \ {t} : n.p_int_blocked[x] = s.p_int_blocked[x]
  /\ HeadsKept(s, n, t)
  /\ P2 \in PcType /\ \A x \in (Tasks \cup Servers) \ {t} : P2[x] = P[x]

\* The system task runs on when it was running.
LEMMA SysRunsOn ==
  ASSUME NEW s, KInv(s), NEW n, KInv(n), s.proc_ptr = SYSTASK, NEW p, p # SYSTASK,
         HeadsKept(s, n, p)
  PROVE  n.proc_ptr = SYSTASK
<1>1. Scheduled(s) /\ Scheduled(n) /\ s \in KernelState
  BY DEF KInv, Base
<1>2. SYSTASK \in Schedulable /\ Class(SYSTASK) = TASK_Q
  BY ProcFacts DEF Tasks, Class
<1>3. s.rdy[TASK_Q] # << >> /\ Head(s.rdy[TASK_Q]) = SYSTASK
  BY <1>1, <1>2, Running
<1>4. n.rdy[TASK_Q] # << >> /\ Head(n.rdy[TASK_Q]) = SYSTASK
  BY <1>3 DEF HeadsKept
<1> QED
  BY <1>1, <1>4 DEF Scheduled, Top

\* The processes of the system are different ones.
LEMMA SystemProcs ==
  /\ Tasks \subseteq Procs /\ Servers \subseteq Procs /\ UserSlots \subseteq Procs
  /\ MM \in Servers /\ FS \in Servers /\ MM # FS
  /\ SYSTASK \in Tasks /\ CLOCK \in Tasks /\ DISK \in Tasks
  /\ SYSTASK # CLOCK /\ SYSTASK # DISK /\ CLOCK # DISK
  /\ Tasks \cap Servers = {} /\ Tasks \cap UserSlots = {} /\ Servers \cap UserSlots = {}
  /\ ANY \notin Procs /\ HARDWARE \notin Tasks \cup Servers \cup UserSlots
  /\ IDLE \notin Tasks \cup Servers \cup UserSlots /\ UserSlots \subseteq Slots
  /\ HARDWARE # ANY
<1>1. /\ Tasks \subseteq Procs /\ Servers \subseteq Procs /\ UserSlots \subseteq Procs
      /\ Tasks \cap Servers = {} /\ Tasks \cap UserSlots = {} /\ Servers \cap UserSlots = {}
      /\ ANY \notin Procs /\ HARDWARE \notin Tasks \cup Servers \cup UserSlots
      /\ IDLE \notin Tasks \cup Servers \cup UserSlots /\ UserSlots \subseteq Slots
  BY ProcFacts
<1>2. /\ MM \in Servers /\ FS \in Servers /\ MM # FS
      /\ SYSTASK \in Tasks /\ CLOCK \in Tasks /\ DISK \in Tasks
      /\ SYSTASK # CLOCK /\ SYSTASK # DISK /\ CLOCK # DISK /\ HARDWARE # ANY
  BY DEF MM, FS, SYSTASK, CLOCK, DISK, Servers, Tasks, HARDWARE, ANY
<1> QED
  BY <1>1, <1>2

\* A step of a task that only concerns itself
LEMMA TaskAside ==
  ASSUME NEW s, NEW P, NEW L, NEW Z, NEW C, Good(s, P, L, Z, C), NEW n, KInv(n),
         NEW P2, NEW t \in Tasks, OnlyTask(s, P, n, P2, t),
         t = CLOCK => ClockState(n, P2),
         t = DISK => DiskState(n, P2),
         t = SYSTASK =>
           /\ SysState(n, P2)
           /\ \A v \in Servers : ~Busy(s, P, v) /\ ~Busy(n, P2, v)
  PROVE  Good(n, P2, L, Z, C)
<1>1. KInv(s) /\ CInv(s, P, L, Z, C)
  BY DEF Good
<1>2. /\ \A x \in Procs \ {t} : n.p_flags[x] = s.p_flags[x] /\ n.p_getfrom[x] = s.p_getfrom[x]
                                /\ n.mess[x] = s.mess[x]
      /\ \A x \in Tasks \ {t} : n.p_int_blocked[x] = s.p_int_blocked[x]
      /\ \A x \in (Tasks \cup Servers) \ {t} : P2[x] = P[x]
      /\ n.p_priority = s.p_priority
  BY DEF OnlyTask
<1>3. CalmUsers(s, n)
  <2>1. \A u \in UserSlots : u \in Procs \ {t}
    BY SystemProcs
  <2> QED
    BY <2>1 DEF OnlyTask, CalmUsers, Open
<1>4. SameServers(s, n)
  BY <1>2, SystemProcs DEF SameServers
<1>5. HeadFS(s) => HeadFS(n)
  <2>1. FS # t
    BY SystemProcs
  <2> QED
    BY <2>1 DEF OnlyTask, HeadsKept, HeadFS
<1>6. TasksOK(s, P)
  BY <1>1 DEF CInv
<1>7. \A x \in Tasks \cup Servers : x # t =>
        /\ x \in Procs \ {t} /\ P2[x] = P[x]
        /\ n.p_flags[x] = s.p_flags[x] /\ n.p_getfrom[x] = s.p_getfrom[x]
        /\ n.mess[x] = s.mess[x]
  BY <1>2, SystemProcs
<1>8. t # SYSTASK =>
        SysState(n, P2) /\ \A v \in Servers : Busy(n, P2, v) <=> Busy(s, P, v)
  <2> SUFFICES ASSUME t # SYSTASK
               PROVE  SysState(n, P2) /\ \A v \in Servers : Busy(n, P2, v) <=> Busy(s, P, v)
    OBVIOUS
  <2>1. /\ P2[SYSTASK] = P[SYSTASK] /\ n.p_flags[SYSTASK] = s.p_flags[SYSTASK]
        /\ n.p_getfrom[SYSTASK] = s.p_getfrom[SYSTASK] /\ n.mess[SYSTASK] = s.mess[SYSTASK]
        /\ n.p_int_blocked[SYSTASK] = s.p_int_blocked[SYSTASK]
    BY <1>2, <1>7, SystemProcs
  <2>2. SysState(s, P)
    BY <1>6 DEF TasksOK
  <2>3. n.p_flags[SYSTASK] = {} => n.proc_ptr = SYSTASK
    <3>1. HeadsKept(s, n, t)
      BY DEF OnlyTask
    <3> QED
      BY <1>1, <2>1, <2>2, <3>1, SysRunsOn DEF SysState
  <2>4. \A v \in Servers : Busy(n, P2, v) <=> Busy(s, P, v)
    BY <2>1 DEF Busy
  <2>5. \A v \in Servers : WaitsFor(n, v, SYSTASK) <=> WaitsFor(s, v, SYSTASK)
    BY <1>4 DEF SameServers, WaitsFor
  <2>6. \A v \in Servers : n.mess[v] = s.mess[v]
    BY <1>4 DEF SameServers
  <2> QED
    BY <2>1, <2>2, <2>3, <2>4, <2>5, <2>6 DEF SysState, IdleTask, DoneTask, WaitsFor
<1>9. t # CLOCK => ClockState(n, P2)
  <2> SUFFICES ASSUME t # CLOCK PROVE ClockState(n, P2)
    OBVIOUS
  <2>1. /\ P2[CLOCK] = P[CLOCK] /\ n.p_flags[CLOCK] = s.p_flags[CLOCK]
        /\ n.p_getfrom[CLOCK] = s.p_getfrom[CLOCK] /\ n.mess[CLOCK] = s.mess[CLOCK]
        /\ n.p_flags[MM] = s.p_flags[MM] /\ n.p_getfrom[MM] = s.p_getfrom[MM]
    BY <1>7, SystemProcs
  <2>2. \A x : isemptyp(n, x) <=> isemptyp(s, x)
    BY <1>2 DEF isemptyp
  <2> QED
    BY <1>6, <2>1, <2>2 DEF TasksOK, ClockState, SetsAlarm, IdleTask, DoneTask, WaitsFor
<1>10. t # DISK => DiskState(n, P2)
  <2> SUFFICES ASSUME t # DISK PROVE DiskState(n, P2)
    OBVIOUS
  <2>1. /\ P2[DISK] = P[DISK] /\ n.p_flags[DISK] = s.p_flags[DISK]
        /\ n.p_getfrom[DISK] = s.p_getfrom[DISK]
        /\ n.p_flags[FS] = s.p_flags[FS] /\ n.p_getfrom[FS] = s.p_getfrom[FS]
        /\ n.p_int_blocked[DISK] = s.p_int_blocked[DISK]
    BY <1>2, <1>7, SystemProcs
  <2> QED
    BY <1>6, <2>1 DEF TasksOK, DiskState, IdleTask, DoneTask, WaitsFor
<1>11. TasksOK(n, P2)
  BY <1>8, <1>9, <1>10 DEF TasksOK
<1>12. SameWork(s, P, n, P2)
  <2>1. \A v \in Servers : P2[v] = P[v]
    BY <1>7, SystemProcs
  <2>2. CASE t = SYSTASK
    BY <2>1, <2>2 DEF SameWork
  <2>3. CASE t # SYSTASK
    BY <1>7, <1>8, <2>1, <2>3, SystemProcs DEF SameWork
  <2> QED
    BY <2>2, <2>3
<1>13. CtlTyped(P2, L, Z)
  BY <1>1 DEF CInv, CtlTyped, OnlyTask, PcType
<1>14. CInv(n, P2, L, Z, C)
  BY <1>1, <1>3, <1>4, <1>5, <1>11, <1>12, <1>13, Aside
<1> QED
  BY <1>14 DEF Good

\* What a task that waits changes
LEMMA WaitingOnly ==
  ASSUME NEW s \in KernelState, NEW P, NEW t \in Tasks, NEW src, NEW n,
         WaitingIs(s, t, src, n), HeadsKept(s, n, t), s.p_flags[t] = {},
         NEW P2 \in PcType, \A x \in (Tasks \cup Servers) \ {t} : P2[x] = P[x]
  PROVE  /\ OnlyTask(s, P, n, P2, t)
         /\ WaitsFor(n, t, src) /\ n.p_int_blocked = s.p_int_blocked
<1>1. t \in Procs
  BY SystemProcs
<1>2. /\ s.p_flags \in [Procs -> SUBSET Flags]
      /\ s.p_getfrom \in [Procs -> Procs \cup {ANY}]
  BY DEF KernelState
<1>3. /\ SameSignals(s, n) /\ n.p_getfrom = [s.p_getfrom EXCEPT ![t] = src]
      /\ n.p_int_blocked = s.p_int_blocked
      /\ n.p_pid = s.p_pid /\ n.user_priority = s.user_priority /\ n.mess = s.mess
      /\ n.p_flags = [s.p_flags EXCEPT ![t] = s.p_flags[t] \cup {"RECEIVING"}]
  BY DEF WaitingIs
<1>4. /\ n.p_flags[t] = {"RECEIVING"} /\ n.p_getfrom[t] = src
      /\ \A x \in Procs \ {t} : n.p_flags[x] = s.p_flags[x] /\ n.p_getfrom[x] = s.p_getfrom[x]
  BY <1>1, <1>2, <1>3
<1>7. OnlyTask(s, P, n, P2, t)
  BY <1>3, <1>4 DEF OnlyTask, SameSignals
<1> QED
  BY <1>3, <1>4, <1>7 DEF WaitsFor

\* What an interrupt changes
LEMMA HardOnly ==
  ASSUME NEW s \in KernelState, NEW P, NEW t \in Tasks, NEW n, NEW f,
         HardIs(s, t, f, n), HeadsKept(s, n, t),
         NEW P2 \in PcType, \A x \in (Tasks \cup Servers) \ {t} : P2[x] = P[x]
  PROVE  /\ OnlyTask(s, P, n, P2, t)
         /\ n.p_flags[t] = f /\ n.mess[t].type = "HARD_INT" /\ ~n.p_int_blocked[t]
         /\ n.p_getfrom = s.p_getfrom
<1>1. t \in Procs
  BY SystemProcs
<1>2. /\ s.p_flags \in [Procs -> SUBSET Flags]
      /\ s.mess \in [Procs -> Mess] /\ s.p_int_blocked \in [Tasks -> BOOLEAN]
  BY DEF KernelState
<1>3. /\ SameSignals(s, n) /\ n.p_getfrom = s.p_getfrom /\ n.p_pid = s.p_pid
      /\ n.mess = [s.mess EXCEPT ![t] = Message("HARD_INT", 0, 0, 0)]
      /\ n.p_int_blocked = [s.p_int_blocked EXCEPT ![t] = FALSE]
      /\ n.p_flags = [s.p_flags EXCEPT ![t] = f]
  BY DEF HardIs
<1>4. /\ n.p_flags[t] = f /\ n.mess[t] = Message("HARD_INT", 0, 0, 0)
      /\ ~n.p_int_blocked[t]
      /\ \A x \in Procs \ {t} : n.p_flags[x] = s.p_flags[x] /\ n.mess[x] = s.mess[x]
      /\ \A x \in Tasks \ {t} : n.p_int_blocked[x] = s.p_int_blocked[x]
  BY <1>1, <1>2, <1>3
<1>7. OnlyTask(s, P, n, P2, t)
  BY <1>3, <1>4 DEF OnlyTask, SameSignals
<1>8. n.mess[t].type = "HARD_INT"
  BY <1>4 DEF Message, NoMess
<1> QED
  BY <1>3, <1>4, <1>7, <1>8

\* The invariant, now
Now == Good(k, pc, plan, paused, closed)

\* What a task that runs has in its state
LEMMA TaskRuns ==
  ASSUME Now, NEW t \in Tasks \cup Servers, k.proc_ptr = t
  PROVE  /\ KInv(k) /\ k \in KernelState /\ pc \in PcType /\ k.p_flags[t] = {}
         /\ CInv(k, pc, plan, paused, closed)
         /\ TasksOK(k, pc) /\ CtlTyped(pc, plan, paused)
         /\ (t # SYSTASK => k.p_flags[SYSTASK] # {}) /\ k.rdy[Class(t)] # << >>
<1>1. KInv(k) /\ CInv(k, pc, plan, paused, closed)
  BY DEF Now, Good
<1>2. t \in Schedulable /\ Scheduled(k) /\ k \in KernelState
  BY <1>1, ProcFacts DEF KInv, Base
<1>3. TasksOK(k, pc) /\ CtlTyped(pc, plan, paused)
  BY <1>1 DEF CInv
<1>4. pc \in PcType
  BY <1>3 DEF CtlTyped, PcType
<1>5. k.p_flags[t] = {} /\ k.rdy[Class(t)] # << >>
  BY <1>2, Running
<1>6. t # SYSTASK => k.p_flags[SYSTASK] # {}
  BY <1>3 DEF TasksOK, SysState
<1> QED
  BY <1>1, <1>2, <1>3, <1>4, <1>5, <1>6

\* The tasks receive.
LEMMA TasksReceive ==
  ASSUME Now, SysRecv \/ ClockRecv \/ DiskRecv
  PROVE  Now'
<1>1. PICK t \in Tasks :
        /\ k.proc_ptr = t /\ pc[t] = "recv" /\ k' = mini_rec(k, t, ANY)
        /\ pc' = [pc EXCEPT ![t] = "work"]
        /\ UNCHANGED <<load, plan, serverVars, clockVars>>
  BY SystemProcs DEF SysRecv, ClockRecv, DiskRecv
<1>2. KInv(k) /\ k \in KernelState /\ pc \in PcType /\ k.p_flags[t] = {} /\ TasksOK(k, pc)
  BY <1>1, TaskRuns
<1>3. k.p_callerq[t] = << >>
  BY <1>2, NoCallers DEF KInv
<1>4. t # MM
  BY SystemProcs
<1>0. /\ k \in KernelState /\ pc \in PcType /\ k.p_flags[t] = {}
      /\ pc' \in PcType /\ pc'[t] = "work"
      /\ \A x \in (Tasks \cup Servers) \ {t} : pc'[x] = pc[x]
  BY <1>1, <1>2 DEF PcType
<1>5. CASE k.p_int_blocked[t]
  <2>1. t = CLOCK
    BY <1>2, <1>5 DEF TasksOK, SysState, DiskState, Tasks
  <2>2. HardIs(k, t, {}, k') /\ KInv(k') /\ k'.rdy = k.rdy
    BY <1>1, <1>2, <1>5, RecvHard
  <2>3. HeadsKept(k, k', t)
    BY <2>2 DEF HeadsKept
  <2>4. /\ OnlyTask(k, pc, k', pc', t)
        /\ k'.p_flags[t] = {} /\ k'.mess[t].type = "HARD_INT"
    BY <1>0, <2>2, <2>3, HardOnly
  <2>5. ClockState(k', pc')
    BY <1>0, <2>1, <2>4 DEF ClockState
  <2>6. Good(k', pc', plan, paused, closed)
    BY <2>1, <2>2, <2>4, <2>5, TaskAside, SystemProcs DEF Now
  <2> QED
    BY <1>1, <2>6 DEF Now, serverVars
<1>6. CASE ~k.p_int_blocked[t]
  <2>1. ~TakesInterrupt(k, t, ANY)
    BY <1>6 DEF TakesInterrupt
  <2>2. WaitingIs(k, t, ANY, k') /\ KInv(k') /\ HeadsKept(k, k', t)
    BY <1>1, <1>2, <1>3, <1>4, <2>1, RecvWaits
  <2>3. /\ OnlyTask(k, pc, k', pc', t)
        /\ WaitsFor(k', t, ANY) /\ k'.p_int_blocked = k.p_int_blocked
    BY <1>0, <2>2, WaitingOnly
  <2>4. t = CLOCK => ClockState(k', pc')
    BY <1>0, <2>3 DEF ClockState, IdleTask
  <2>5. t = DISK => DiskState(k', pc')
    BY <1>0, <1>6, <2>3 DEF DiskState, IdleTask
  <2>6. t = SYSTASK =>
          /\ SysState(k', pc')
          /\ \A v \in Servers : ~Busy(k, pc, v) /\ ~Busy(k', pc', v)
    <3>1. t = SYSTASK => SysState(k', pc')
      BY <1>0, <1>6, <2>3 DEF SysState, IdleTask, WaitsFor
    <3>2. t = SYSTASK => \A v \in Servers : ~Busy(k, pc, v) /\ ~Busy(k', pc', v)
      BY <1>1, <2>3 DEF Busy, WaitsFor
    <3> QED
      BY <3>1, <3>2
  <2>7. Good(k', pc', plan, paused, closed)
    BY <2>2, <2>3, <2>4, <2>5, <2>6, TaskAside DEF Now
  <2> QED
    BY <1>1, <2>7 DEF Now, serverVars
<1> QED
  BY <1>5, <1>6

\* Heads that are kept but for HARDWARE are all kept.
LEMMA HeadsAll ==
  ASSUME NEW s \in KernelState, NEW n, HeadsKept(s, n, HARDWARE)
  PROVE  /\ \A p : HeadsKept(s, n, p)
         /\ HeadFS(s) => HeadFS(n)
<1>1. ASSUME NEW q \in {TASK_Q, SERVER_Q}, s.rdy[q] # << >>
      PROVE  n.rdy[q] # << >> /\ Head(n.rdy[q]) = Head(s.rdy[q])
  <2>1. s.rdy[q] \in Seq(Schedulable)
    BY DEF KernelState, Queues, TASK_Q, SERVER_Q
  <2>2. Head(s.rdy[q]) # HARDWARE
    BY <1>1, <2>1, HeadInSeq, ProcFacts
  <2> QED
    BY <1>1, <2>2 DEF HeadsKept
<1> QED
  BY <1>1 DEF HeadsKept, HeadFS

\* The disk driver waits for its interrupt.
LEMMA DiskWaits ==
  ASSUME Now, DiskWork
  PROVE  Now'
<1>1. /\ k.proc_ptr = DISK /\ pc[DISK] = "work" /\ k' = mini_rec(k, DISK, HARDWARE)
      /\ pc' = [pc EXCEPT ![DISK] = "reply"]
      /\ UNCHANGED <<load, plan, serverVars, clockVars>>
  BY DEF DiskWork
<1>2. KInv(k) /\ k \in KernelState /\ pc \in PcType /\ k.p_flags[DISK] = {} /\ TasksOK(k, pc)
      /\ k.p_callerq[DISK] = << >>
  BY <1>1, TaskRuns, NoCallers, SystemProcs DEF KInv
<1>3. ~k.p_int_blocked[DISK] /\ WaitsFor(k, FS, DISK)
  BY <1>1, <1>2 DEF TasksOK, DiskState, IdleTask, DoneTask, WaitsFor
<1>4. /\ pc' \in PcType /\ pc'[DISK] = "reply"
      /\ \A x \in (Tasks \cup Servers) \ {DISK} : pc'[x] = pc[x]
  BY <1>1, <1>2, SystemProcs DEF PcType
<1>5. WaitingIs(k, DISK, HARDWARE, k') /\ KInv(k') /\ HeadsKept(k, k', DISK)
  <2>1. ~TakesInterrupt(k, DISK, HARDWARE)
    BY <1>3 DEF TakesInterrupt
  <2> QED
    BY <1>1, <1>2, <2>1, RecvWaits, SystemProcs
<1>6. /\ OnlyTask(k, pc, k', pc', DISK) /\ WaitsFor(k', DISK, HARDWARE)
      /\ k'.p_int_blocked = k.p_int_blocked
  BY <1>2, <1>4, <1>5, WaitingOnly, SystemProcs
<1>7. DiskState(k', pc')
  <2>1. WaitsFor(k', FS, DISK)
    BY <1>3, <1>6, SystemProcs DEF OnlyTask, WaitsFor
  <2> QED
    BY <1>3, <1>4, <1>6, <2>1 DEF DiskState
<1>8. Good(k', pc', plan, paused, closed)
  BY <1>5, <1>6, <1>7, TaskAside, SystemProcs DEF Now
<1> QED
  BY <1>1, <1>8 DEF Now, serverVars

\* The disk interrupts.
LEMMA DiskInterrupts ==
  ASSUME Now, DiskInterrupt
  PROVE  Now'
<1>1. /\ k.p_flags[DISK] = {"RECEIVING"} /\ pc[DISK] = "reply" /\ k' = interrupt(k, DISK)
      /\ UNCHANGED <<load, pc, plan, serverVars, clockVars>>
  BY DEF DiskInterrupt
<1>2. KInv(k) /\ CInv(k, pc, plan, paused, closed) /\ k \in KernelState
  BY DEF Now, Good, KInv, Base
<1>3. DiskState(k, pc) /\ pc \in PcType
  BY <1>2 DEF CInv, TasksOK, CtlTyped, PcType
<1>4. WaitsFor(k, DISK, HARDWARE) /\ WaitsFor(k, FS, DISK)
  BY <1>1, <1>3 DEF DiskState, IdleTask, DoneTask
<1>5. HardIs(k, DISK, {}, k') /\ KInv(k') /\ HeadsKept(k, k', HARDWARE)
  BY <1>1, <1>2, <1>4, Interrupted, SystemProcs DEF WaitsFor
<1>6. HeadsKept(k, k', DISK)
  BY <1>2, <1>5, HeadsAll
<1>7. OnlyTask(k, pc, k', pc, DISK) /\ k'.p_flags[DISK] = {} /\ ~k'.p_int_blocked[DISK]
  BY <1>2, <1>3, <1>5, <1>6, HardOnly, SystemProcs
<1>8. DiskState(k', pc)
  <2>1. WaitsFor(k', FS, DISK)
    BY <1>4, <1>7, SystemProcs DEF OnlyTask, WaitsFor
  <2> QED
    BY <1>1, <1>7, <2>1 DEF DiskState
<1>9. Good(k', pc, plan, paused, closed)
  BY <1>5, <1>7, <1>8, TaskAside, SystemProcs DEF Now
<1> QED
  BY <1>1, <1>9 DEF Now, serverVars

\* The clock interrupts.
LEMMA ClockInterrupts ==
  ASSUME Now, ClockHandler
  PROVE  Now'
<1>1. /\ UNCHANGED <<load, pc, plan, serverVars>>
      /\ k' = interrupt(k, CLOCK) \/ k' = k
  BY DEF ClockHandler
<1>2. KInv(k) /\ CInv(k, pc, plan, paused, closed) /\ k \in KernelState
  BY DEF Now, Good, KInv, Base
<1>3. ClockState(k, pc) /\ pc \in PcType
  BY <1>2 DEF CInv, TasksOK, CtlTyped, PcType
<1>4. CASE k' = k
  BY <1>1, <1>4 DEF Now, serverVars
<1>5. CASE k' = interrupt(k, CLOCK) /\ k.p_flags[CLOCK] = {"RECEIVING"}
  <2>1. IdleTask(k, pc, CLOCK)
    BY <1>3, <1>5 DEF ClockState, DoneTask
  <2>2. HardIs(k, CLOCK, {}, k') /\ KInv(k') /\ HeadsKept(k, k', HARDWARE)
    BY <1>2, <1>5, <2>1, Interrupted, SystemProcs DEF WaitsFor, IdleTask
  <2>3. HeadsKept(k, k', CLOCK)
    BY <1>2, <2>2, HeadsAll
  <2>4. OnlyTask(k, pc, k', pc, CLOCK) /\ k'.p_flags[CLOCK] = {} /\ k'.mess[CLOCK].type = "HARD_INT"
    BY <1>2, <1>3, <2>2, <2>3, HardOnly, SystemProcs
  <2>5. ClockState(k', pc)
    BY <2>1, <2>4 DEF ClockState, IdleTask
  <2>6. Good(k', pc, plan, paused, closed)
    BY <2>2, <2>4, <2>5, TaskAside, SystemProcs DEF Now
  <2> QED
    BY <1>1, <2>6 DEF Now, serverVars
<1>6. CASE k' = interrupt(k, CLOCK) /\ k.p_flags[CLOCK] # {"RECEIVING"}
  <2>1. /\ KInv(k') /\ SameSignals(k, k')
        /\ k'.p_flags = k.p_flags /\ k'.p_getfrom = k.p_getfrom /\ k'.p_pid = k.p_pid
        /\ k'.mess = k.mess
        /\ k'.p_int_blocked = [k.p_int_blocked EXCEPT ![CLOCK] = TRUE]
        /\ k'.rdy = k.rdy
    BY <1>2, <1>6, InterruptHeld, SystemProcs
  <2>2. \A x \in Tasks \ {CLOCK} : k'.p_int_blocked[x] = k.p_int_blocked[x]
    BY <1>2, <2>1 DEF KernelState
  <2>3. OnlyTask(k, pc, k', pc, CLOCK)
    BY <1>3, <2>1, <2>2 DEF OnlyTask, SameSignals, HeadsKept
  <2>4. ClockState(k', pc)
    BY <1>3, <1>6, <2>1 DEF ClockState, IdleTask, DoneTask, SetsAlarm, WaitsFor, isemptyp, SameSignals
  <2>5. Good(k', pc, plan, paused, closed)
    BY <2>1, <2>3, <2>4, TaskAside, SystemProcs DEF Now
  <2> QED
    BY <1>1, <2>5 DEF Now, serverVars
<1> QED
  BY <1>1, <1>4, <1>5, <1>6

\* A task answers the server v, and the rest of MM's plan is possible.
LEMMA Answers ==
  ASSUME NEW s, NEW P, NEW L, NEW Z, NEW C, Good(s, P, L, Z, C), NEW n, KInv(n), NEW P2,
         NEW v \in Servers, P[v] # "work", s.p_flags[v] = {"RECEIVING"}, n.p_flags[v] = {},
         \A w \in Servers \ {v} :
           /\ n.p_flags[w] = s.p_flags[w] /\ n.p_getfrom[w] = s.p_getfrom[w]
           /\ n.mess[w] = s.mess[w],
         P2 \in PcType, \A w \in Servers : P2[w] = P[w] /\ ~Busy(n, P2, w),
         TasksOK(n, P2), HeadFS(s) => HeadFS(n),
         UserMess(n), PausedOK(n, Z), PidsDiffer(n),
         MMPlan(n, Z, Known(s, P, C), L[MM]),
         TellsFork(s, P) => NoXit(L[MM]),
         \A u \in UserSlots : ~isemptyp(n, u) =>
           Open(n, u) = Cardinality(Ends(L[MM], u)) + HasTold(s, P, u),
         v = FS => \A u : Answerable(s, u, MM) => Answerable(n, u, MM),
         \A c \in Procs : Serves(s, P, L, c) => Client(n, c)
  PROVE  Good(n, P2, L, Z, C)
<1>1. CInv(s, P, L, Z, C) /\ MM \in Servers /\ FS \in Servers /\ MM # FS /\ Servers = {MM, FS}
  BY SystemProcs DEF Good, Servers
<1>2. /\ P2[MM] = P[MM] /\ P2[FS] = P[FS] /\ ~Busy(n, P2, MM) /\ ~Busy(n, P2, FS)
  BY <1>1
<1>3. \A w \in Servers \ {v} : n.p_flags[w] = s.p_flags[w] /\ n.p_getfrom[w] = s.p_getfrom[w]
                               /\ n.mess[w] = s.mess[w]
  OBVIOUS
<1>4. \A c : Serves(n, P2, L, c) <=> Serves(s, P, L, c)
  BY <1>1, <1>2, <1>3 DEF Serves
<1>5. InTransit(n, P2) = InTransit(s, P)
  <2>1. "SENDING" \in n.p_flags[MM] <=> "SENDING" \in s.p_flags[MM]
    BY <1>1, <1>3
  <2>2. CASE v = MM
    <3>1. "SENDING" \notin n.p_flags[MM] /\ "SENDING" \notin s.p_flags[MM]
          /\ n.p_flags[FS] = s.p_flags[FS] /\ n.mess[FS] = s.mess[FS]
      BY <1>1, <1>3, <2>2
    <3> QED
      BY <1>2, <3>1 DEF InTransit
  <2>3. CASE v = FS
    <3>1. n.mess[MM] = s.mess[MM] /\ P[FS] # "work"
      BY <1>1, <1>3, <2>3
    <3> QED
      BY <1>2, <2>1, <3>1 DEF InTransit
  <2> QED
    BY <1>1, <2>2, <2>3
<1>6. Known(n, P2, C) = Known(s, P, C) /\ TellsFork(n, P2) = TellsFork(s, P)
  BY <1>5 DEF Known, TellsFork
<1>7. Todo(n, P2, L) = L[MM]
  BY <1>2 DEF Todo
<1>8. TodoOK(n, P2, Z, C, Todo(n, P2, L))
  <2>1. \A u : HasTold(n, P2, u) = HasTold(s, P, u)
    BY <1>1, <1>2, <1>3 DEF HasTold, Got
  <2>2. OpenOK(n, P2, L[MM])
    BY <2>1 DEF OpenOK
  <2> QED
    BY <1>6, <1>7, <2>2 DEF TodoOK
<1>9. ServersOK(n, P2, L)
  <2>1. ServerState(s, P, L, MM) /\ ServerState(s, P, L, FS)
    BY <1>1 DEF CInv, ServersOK
  <2>2. ASSUME NEW w \in {MM, FS} PROVE ServerState(n, P2, L, w)
    <3>1. CASE w = v
      BY <1>1, <1>2, <2>1, <3>1 DEF ServerState
    <3>2. CASE w # v
      BY <1>1, <1>2, <1>3, <2>1, <3>2 DEF ServerState, WaitsFor
    <3> QED
      BY <3>1, <3>2
  <2> QED
    BY <2>2 DEF ServersOK
<1>10. FSPlan(n, P2, L, C)
  BY <1>1, <1>2, <1>4 DEF FSPlan, CInv
<1>11. MailOK(n, P2, Z)
  <2>1. MMGot(s, P, Z) /\ FSGot(s, P)
    BY <1>1 DEF CInv, MailOK
  <2>2. MMGot(n, P2, Z)
    BY <1>1, <1>2, <1>3, <2>1 DEF MMGot, Got
  <2>3. FSGot(n, P2)
    BY <1>1, <1>2, <1>3, <2>1 DEF FSGot, Got
  <2> QED
    BY <2>2, <2>3 DEF MailOK
<1>12. Exiting(n, P2, L, Z)
  BY <1>2 DEF Exiting
<1>13. CtlTyped(P2, L, Z)
  BY <1>1 DEF CInv, CtlTyped, PcType
<1> QED
  BY <1>8, <1>9, <1>10, <1>11, <1>12, <1>13 DEF CInv, Good

\* A server that waits for a task has not just received.
LEMMA ServerWaits ==
  ASSUME NEW s, NEW P, NEW L, NEW v \in Servers, ServersOK(s, P, L), NEW t, t # ANY,
         WaitsFor(s, v, t)
  PROVE  P[v] # "work" /\ s.p_flags[v] = {"RECEIVING"} /\ s.p_getfrom[v] = t
<1>1. ServerState(s, P, L, v)
  BY DEF ServersOK, Servers
<1> QED
  BY <1>1 DEF ServerState, WaitsFor

\* The message m as it comes from c
From(m, c) == [m EXCEPT !.src = c]
\* What an answer m of c to d changes, process by process
Answered(s, m, c, d, n) ==
  /\ n.p_flags[d] = s.p_flags[d] \ {"RECEIVING"}
  /\ n.mess[c] = m /\ n.mess[d] = From(m, c)
  /\ \A x \in Procs \ {d} : n.p_flags[x] = s.p_flags[x]
  /\ \A x \in Procs \ {c, d} : n.mess[x] = s.mess[x]
  /\ n.p_getfrom = s.p_getfrom /\ n.p_priority = s.p_priority
  /\ n.p_sendto = s.p_sendto /\ n.p_pid = s.p_pid
  /\ n.p_int_blocked = s.p_int_blocked
  /\ \A u : Open(n, u) = Open(s, u)
\* Its fields
LEMMA RepliedFacts ==
  ASSUME NEW s \in KernelState, NEW m, NEW c \in Procs, NEW d \in Procs, c # d, NEW n,
         RepliedIs(s, m, c, d, n)
  PROVE  Answered(s, m, c, d, n)
<1>1. s.p_flags \in [Procs -> SUBSET Flags] /\ s.mess \in [Procs -> Mess]
  BY DEF KernelState
<1>2. /\ SameSignals(s, n)
      /\ n.p_getfrom = s.p_getfrom /\ n.p_int_blocked = s.p_int_blocked
      /\ n.p_pid = s.p_pid
      /\ n.mess = [s.mess EXCEPT ![c] = m, ![d] = [m EXCEPT !.src = c]]
      /\ n.p_flags = [s.p_flags EXCEPT ![d] = s.p_flags[d] \ {"RECEIVING"}]
  BY DEF RepliedIs
<1>3. /\ n.p_flags[d] = s.p_flags[d] \ {"RECEIVING"}
      /\ \A x \in Procs \ {d} : n.p_flags[x] = s.p_flags[x]
  BY <1>1, <1>2
<1>4. /\ n.mess[c] = m /\ n.mess[d] = From(m, c)
      /\ \A x \in Procs \ {c, d} : n.mess[x] = s.mess[x]
  <2>1. PICK e : e = [m EXCEPT !.src = c]
    OBVIOUS
  <2>2. n.mess = [s.mess EXCEPT ![c] = m, ![d] = e]
    BY <1>2, <2>1
  <2>3. n.mess[c] = m /\ n.mess[d] = e /\ \A x \in Procs \ {c, d} : n.mess[x] = s.mess[x]
    BY <1>1, <2>2
  <2> QED
    BY <2>1, <2>3 DEF From
<1> QED
  BY <1>2, <1>3, <1>4 DEF SameSignals, Open, Answered

\* The system task is idle.
LEMMA SysIdle ==
  ASSUME NEW s, NEW P, NEW L, NEW Z, NEW C, CInv(s, P, L, Z, C), s.p_flags[SYSTASK] # {}
  PROVE  /\ IdleTask(s, P, SYSTASK) /\ ~s.p_int_blocked[SYSTASK]
         /\ \A v : ~Busy(s, P, v)
         /\ Todo(s, P, L) = L[MM]
         /\ TodoOK(s, P, Z, C, L[MM])
<1>1. SysState(s, P) /\ TodoOK(s, P, Z, C, Todo(s, P, L))
  BY DEF CInv, TasksOK
<1>2. \A v : ~Busy(s, P, v)
  BY DEF Busy
<1>3. IdleTask(s, P, SYSTASK) /\ ~s.p_int_blocked[SYSTASK]
  BY <1>1, <1>2 DEF SysState, DoneTask
<1>4. Todo(s, P, L) = L[MM]
  BY <1>2 DEF Todo
<1> QED
  BY <1>1, <1>2, <1>3, <1>4

\* The answer of a task or server is a message.
LEMMA ReplyTyped ==
  \A r \in Int : Message("REPLY", r, 0, 0) \in Mess /\ OK \in Int
<1>1. "REPLY" \in MessTypes /\ OK \in Int
  BY DEF MessTypes, OK
<1> QED
  BY <1>1, MessageTyped

\* An answer to a server changes nothing for the users.
LEMMA RepliedCalm ==
  ASSUME NEW s \in KernelState, NEW m, NEW c \in Tasks, NEW d \in Servers, NEW n,
         RepliedIs(s, m, c, d, n)
  PROVE  CalmUsers(s, n)
<1>1. c \in Procs /\ d \in Procs /\ c # d /\ \A u \in UserSlots : u \in Procs \ {c, d}
  BY SystemProcs
<1>2. /\ \A x \in Procs \ {d} : n.p_flags[x] = s.p_flags[x]
      /\ \A x \in Procs \ {c, d} : n.mess[x] = s.mess[x]
      /\ n.p_getfrom = s.p_getfrom /\ n.p_priority = s.p_priority
      /\ n.p_sendto = s.p_sendto /\ n.p_pid = s.p_pid
      /\ \A u : Open(n, u) = Open(s, u)
  <2>1. Answered(s, m, c, d, n)
    BY <1>1, RepliedFacts
  <2> QED
    BY <2>1 DEF Answered
<1> QED
  BY <1>1, <1>2 DEF CalmUsers

\* The disk driver answers FS.
LEMMA DiskReplies ==
  ASSUME Now, DiskReply
  PROVE  Now'
<1>1. /\ k.proc_ptr = DISK /\ pc[DISK] = "reply"
      /\ k' = mini_send([k EXCEPT !.mess[DISK] = Message("REPLY", OK, 0, 0)],
                        DISK, FS, DISK).k
      /\ pc' = [pc EXCEPT ![DISK] = "recv"]
      /\ UNCHANGED <<load, plan, serverVars, clockVars>>
  BY DEF DiskReply
<1>2. /\ KInv(k) /\ k \in KernelState /\ pc \in PcType /\ k.p_flags[DISK] = {} /\ TasksOK(k, pc)
      /\ CInv(k, pc, plan, paused, closed) /\ k.p_flags[SYSTASK] # {}
  BY <1>1, TaskRuns, SystemProcs
<1>3. WaitsFor(k, FS, DISK)
  BY <1>1, <1>2 DEF TasksOK, DiskState, IdleTask, DoneTask
<1>4. pc[FS] # "work" /\ k.p_flags[FS] = {"RECEIVING"} /\ k.p_getfrom[FS] = DISK
  <2>1. ServersOK(k, pc, plan)
    BY <1>2 DEF CInv
  <2>2. DISK # ANY
    BY SystemProcs
  <2> QED
    BY <1>3, <2>1, <2>2, ServerWaits, SystemProcs
<1>5. PICK m \in Mess : m = Message("REPLY", OK, 0, 0)
  BY ReplyTyped
<1>6. RepliedIs(k, m, DISK, FS, k') /\ KInv(k') /\ HeadsKept(k, k', HARDWARE)
  <2>1. ~isemptyp(k, FS)
    BY <1>2, Classes, ProcFacts, SystemProcs DEF KInv, Base
  <2>2. k' = mini_send([k EXCEPT !.mess[DISK] = m], DISK, FS, DISK).k
    BY <1>1, <1>5
  <2> QED
    BY <1>1, <1>2, <1>4, <2>1, <2>2, Replies, SystemProcs
<1>7. /\ k'.p_flags[FS] = {}
      /\ \A x \in Procs \ {FS} : k'.p_flags[x] = k.p_flags[x]
      /\ \A x \in Procs \ {DISK, FS} : k'.mess[x] = k.mess[x]
      /\ k'.p_getfrom = k.p_getfrom /\ k'.p_priority = k.p_priority
      /\ k'.p_int_blocked = k.p_int_blocked
  <2>1. FS \in Procs /\ DISK \in Procs /\ DISK # FS
    BY SystemProcs
  <2>2. RepliedIs(k, m, DISK, FS, k') /\ k \in KernelState
    BY <1>2, <1>6
  <2>3. /\ k'.p_flags[FS] = k.p_flags[FS] \ {"RECEIVING"}
        /\ \A x \in Procs \ {FS} : k'.p_flags[x] = k.p_flags[x]
        /\ \A x \in Procs \ {DISK, FS} : k'.mess[x] = k.mess[x]
        /\ k'.p_getfrom = k.p_getfrom /\ k'.p_priority = k.p_priority
        /\ k'.p_int_blocked = k.p_int_blocked
    <3>1. Answered(k, m, DISK, FS, k')
      BY <2>1, <2>2, RepliedFacts
    <3> QED
      BY <3>1 DEF Answered
  <2> QED
    BY <1>4, <2>3
<1>8. /\ pc' \in PcType /\ pc'[DISK] = "recv"
      /\ \A x \in (Tasks \cup Servers) \ {DISK} : pc'[x] = pc[x]
  BY <1>1, <1>2, SystemProcs DEF PcType
<1>9. CalmUsers(k, k')
  BY <1>2, <1>6, RepliedCalm, SystemProcs
<1>10. /\ IdleTask(k, pc, SYSTASK) /\ ~k.p_int_blocked[SYSTASK]
       /\ (\A w : ~Busy(k, pc, w)) /\ TodoOK(k, pc, paused, closed, plan[MM])
  BY <1>2, SysIdle
<1>11. TasksOK(k', pc')
  <2>1. SysState(k', pc')
    BY <1>7, <1>8, <1>10, SystemProcs DEF SysState, IdleTask, WaitsFor
  <2>2. ClockState(k', pc')
    <3>1. /\ k'.p_flags[CLOCK] = k.p_flags[CLOCK] /\ k'.p_flags[MM] = k.p_flags[MM]
          /\ k'.mess[CLOCK] = k.mess[CLOCK] /\ pc'[CLOCK] = pc[CLOCK]
      BY <1>7, <1>8, SystemProcs
    <3> QED
      BY <1>2, <1>7, <3>1 DEF TasksOK, ClockState, SetsAlarm, IdleTask, DoneTask, WaitsFor, isemptyp
  <2>3. DiskState(k', pc')
    BY <1>2, <1>7, <1>8, SystemProcs DEF TasksOK, DiskState, DoneTask
  <2> QED
    BY <2>1, <2>2, <2>3 DEF TasksOK
<1>12. \A w \in Servers : pc'[w] = pc[w] /\ ~Busy(k', pc', w)
  BY <1>7, <1>8, <1>10, SystemProcs DEF Busy, IdleTask, WaitsFor
<1>13. /\ UsersStay(k, k') /\ (\A u, v : Answerable(k', u, v) <=> Answerable(k, u, v))
       /\ UserMess(k') /\ PidsDiffer(k') /\ PausedOK(k', paused)
       /\ \A u \in UserSlots : isemptyp(k', u) <=> isemptyp(k, u)
  BY <1>2, <1>9, CalmStays DEF CInv, MailOK
<1>14. MMPlan(k', paused, Known(k, pc, closed), plan[MM]) /\ (TellsFork(k, pc) => NoXit(plan[MM]))
  BY <1>10, <1>13, PlanStays DEF TodoOK
<1>15. \A u \in UserSlots : ~isemptyp(k', u) =>
         Open(k', u) = Cardinality(Ends(plan[MM], u)) + HasTold(k, pc, u)
  BY <1>9, <1>10, <1>13 DEF TodoOK, OpenOK, CalmUsers
<1>16. ASSUME NEW c \in Procs, Serves(k, pc, plan, c) PROVE Client(k', c)
  <2>1. Client(k, c)
    BY <1>2, <1>16 DEF CInv, FSPlan
  <2>2. k'.p_flags[MM] = k.p_flags[MM]
    BY <1>7, SystemProcs
  <2> QED
    BY <1>7, <1>13, <2>1, <2>2 DEF Client, WaitsFor
<1>17. HeadFS(k) => HeadFS(k')
  BY <1>2, <1>6, HeadsAll
<1>18. \A w \in Servers \ {FS} :
           /\ k'.p_flags[w] = k.p_flags[w] /\ k'.p_getfrom[w] = k.p_getfrom[w]
           /\ k'.mess[w] = k.mess[w]
  BY <1>7, SystemProcs
<1>19. Good(k', pc', plan, paused, closed)
  <2>1. Good(k, pc, plan, paused, closed) /\ KInv(k') /\ FS \in Servers /\ pc' \in PcType
    BY <1>6, <1>8, SystemProcs DEF Now
  <2>2. \A u : Answerable(k, u, MM) => Answerable(k', u, MM)
    BY <1>13
  <2>3. UserMess(k') /\ PidsDiffer(k') /\ PausedOK(k', paused)
    BY <1>13
  <2>4. k'.p_flags[FS] = {}
    BY <1>7
  <2> HIDE <1>1, <1>13
  <2> QED
    BY <1>4, <1>11, <1>12, <1>14, <1>15, <1>16, <1>17, <1>18, <2>1, <2>2, <2>3, <2>4, Answers
<1> QED
  BY <1>1, <1>19 DEF Now, serverVars

\* Signals that MM is not told of yet are noticed by nobody.
LEMMA SigCalm ==
  ASSUME NEW s, NEW n, SigEffect(s, n), Quiet(s, n)
  PROVE  CalmUsers(s, n) /\ SameServers(s, n)
<1>1. /\ n.p_priority = s.p_priority /\ n.p_sendto = s.p_sendto
      /\ n.p_getfrom = s.p_getfrom /\ n.p_pid = s.p_pid
      /\ n.p_flags[FS] = s.p_flags[FS]
  BY DEF SigEffect
<1>2. \A x \in Procs \ {MM}, f \in Flags \ {"PENDING", "SIG_PENDING"} :
        f \in n.p_flags[x] <=> f \in s.p_flags[x]
  BY DEF SigEffect
<1>3. /\ n.p_flags[MM] = s.p_flags[MM] /\ (\A x \in Procs : n.mess[x] = s.mess[x])
      /\ \A u \in UserSlots : Open(n, u) = Open(s, u)
  BY DEF Quiet
<1>4. \A u \in UserSlots : u \in Procs \ {MM}
  BY SystemProcs
<1>5. CalmUsers(s, n)
  BY <1>1, <1>2, <1>3, <1>4 DEF CalmUsers
<1>6. SameServers(s, n)
  BY <1>1, <1>3, SystemProcs DEF SameServers, Servers
<1> QED
  BY <1>5, <1>6

\* One after the other
LEMMA CalmJoins ==
  ASSUME NEW a, NEW b, NEW c, CalmUsers(a, b), CalmUsers(b, c)
  PROVE  CalmUsers(a, c)
BY DEF CalmUsers

\* Heads that are kept twice
LEMMA HeadsJoin ==
  ASSUME NEW a \in KernelState, NEW b \in KernelState, NEW c,
         HeadsKept(a, b, HARDWARE), HeadsKept(b, c, HARDWARE)
  PROVE  HeadsKept(a, c, HARDWARE)
<1>1. (\A p : HeadsKept(a, b, p)) /\ (\A p : HeadsKept(b, c, p))
  BY HeadsAll
<1>2. ASSUME NEW q \in {TASK_Q, SERVER_Q}, a.rdy[q] # << >>, Head(a.rdy[q]) # HARDWARE
      PROVE  c.rdy[q] # << >> /\ Head(c.rdy[q]) = Head(a.rdy[q])
  <2>1. b.rdy[q] # << >> /\ Head(b.rdy[q]) = Head(a.rdy[q])
    BY <1>2 DEF HeadsKept
  <2> QED
    BY <1>2, <2>1 DEF HeadsKept
<1> QED
  BY <1>2 DEF HeadsKept

\* The clock task sets an alarm and answers MM.
LEMMA AlarmSet ==
  ASSUME Now, ClockSetAlarm
  PROVE  Now'
<1>1. /\ k.proc_ptr = CLOCK /\ pc[CLOCK] = "work" /\ k.mess[CLOCK].type = "SET_ALARM"
      /\ k' = mini_send([[k EXCEPT !.p_alarm[k.mess[CLOCK].i1] = k.mess[CLOCK].i2]
                           EXCEPT !.mess[CLOCK] = Message("REPLY", OK, 0, 0)],
                        CLOCK, k.mess[CLOCK].src, CLOCK).k
      /\ pc' = [pc EXCEPT ![CLOCK] = "recv"]
      /\ UNCHANGED <<load, plan, serverVars>>
  BY DEF ClockSetAlarm
<1>2. /\ KInv(k) /\ k \in KernelState /\ pc \in PcType /\ k.p_flags[CLOCK] = {} /\ TasksOK(k, pc)
      /\ CInv(k, pc, plan, paused, closed) /\ k.p_flags[SYSTASK] # {}
  BY <1>1, TaskRuns, SystemProcs
<1>3. SetsAlarm(k)
  BY <1>1, <1>2 DEF TasksOK, ClockState, IdleTask, DoneTask, WaitsFor
<1>4. PICK u, i : u = k.mess[CLOCK].i1 /\ i = k.mess[CLOCK].i2
  OBVIOUS
<1>5. u \in UserSlots /\ ~isemptyp(k, u) /\ i \in Int /\ k.mess[CLOCK].src = MM
      /\ WaitsFor(k, MM, CLOCK)
  <2>1. k.mess[CLOCK] \in Mess
    BY <1>2, SystemProcs DEF KernelState
  <2> QED
    BY <1>3, <1>4, <2>1 DEF SetsAlarm, Mess
<1>6. pc[MM] # "work" /\ k.p_flags[MM] = {"RECEIVING"} /\ k.p_getfrom[MM] = CLOCK
  <2>1. ServersOK(k, pc, plan)
    BY <1>2 DEF CInv
  <2>2. CLOCK # ANY
    BY SystemProcs
  <2>3. WaitsFor(k, MM, CLOCK)
    BY <1>5
  <2>4. MM \in Servers
    BY SystemProcs
  <2> QED
    BY <2>1, <2>2, <2>3, <2>4, ServerWaits
<1>7. PICK h : h = [k EXCEPT !.p_alarm[u] = i]
  OBVIOUS
<1>8. /\ KInv(h) /\ SigEffect(k, h) /\ h.p_flags = k.p_flags /\ h.mess = k.mess
      /\ h.rdy = k.rdy /\ h.proc_ptr = k.proc_ptr
  BY <1>2, <1>5, <1>7, AlarmCleared
<1>9. PICK m \in Mess : m = Message("REPLY", OK, 0, 0)
  BY ReplyTyped
<1>10. k' = mini_send([h EXCEPT !.mess[CLOCK] = m], CLOCK, MM, CLOCK).k
  BY <1>1, <1>4, <1>5, <1>7, <1>9
<1> HIDE <1>7
<1>11. h \in KernelState /\ h.p_getfrom = k.p_getfrom /\ h.p_int_blocked = k.p_int_blocked
       /\ h.p_priority = k.p_priority
  BY <1>8 DEF SigEffect
<1>12. CalmUsers(k, h)
  <2>1. ~Heard(k, h)
    BY <1>6, <1>8 DEF Heard
  <2> QED
    BY <1>8, <2>1, SigCalm DEF SigEffect
<1>13. RepliedIs(h, m, CLOCK, MM, k') /\ KInv(k') /\ HeadsKept(h, k', HARDWARE)
  <2>1. ~isemptyp(h, MM)
    BY <1>8, Classes, ProcFacts, SystemProcs DEF KInv, Base
  <2>2. h.proc_ptr = CLOCK /\ "RECEIVING" \in h.p_flags[MM] /\ "SENDING" \notin h.p_flags[MM]
        /\ h.p_getfrom[MM] = CLOCK
    BY <1>1, <1>6, <1>8, <1>11
  <2> QED
    BY <1>8, <1>10, <2>1, <2>2, Replies, SystemProcs
<1>14. /\ k'.p_flags[MM] = {}
       /\ \A x \in Procs \ {MM} : k'.p_flags[x] = k.p_flags[x]
       /\ \A x \in Procs \ {CLOCK, MM} : k'.mess[x] = k.mess[x]
       /\ k'.p_getfrom = k.p_getfrom /\ k'.p_priority = k.p_priority
       /\ k'.p_int_blocked = k.p_int_blocked
  <2>1. MM \in Procs /\ CLOCK \in Procs /\ CLOCK # MM
    BY SystemProcs
  <2>2. Answered(h, m, CLOCK, MM, k')
    BY <1>11, <1>13, <2>1, RepliedFacts
  <2> QED
    BY <1>6, <1>8, <1>11, <2>2 DEF Answered
<1>15. /\ pc' \in PcType /\ pc'[CLOCK] = "recv"
       /\ \A x \in (Tasks \cup Servers) \ {CLOCK} : pc'[x] = pc[x]
  BY <1>1, <1>2, SystemProcs DEF PcType
<1>16. CalmUsers(k, k')
  BY <1>11, <1>12, <1>13, RepliedCalm, CalmJoins, SystemProcs
<1>17. /\ IdleTask(k, pc, SYSTASK) /\ ~k.p_int_blocked[SYSTASK]
       /\ (\A w : ~Busy(k, pc, w)) /\ TodoOK(k, pc, paused, closed, plan[MM])
  BY <1>2, SysIdle
<1>18. TasksOK(k', pc')
  <2>1. SysState(k', pc')
    BY <1>14, <1>15, <1>17, SystemProcs DEF SysState, IdleTask, WaitsFor
  <2>2. DiskState(k', pc')
    <3>1. /\ k'.p_flags[DISK] = k.p_flags[DISK] /\ k'.p_flags[FS] = k.p_flags[FS]
          /\ pc'[DISK] = pc[DISK]
      BY <1>14, <1>15, SystemProcs
    <3> QED
      BY <1>2, <1>14, <3>1 DEF TasksOK, DiskState, IdleTask, DoneTask, WaitsFor
  <2>3. ClockState(k', pc')
    BY <1>2, <1>14, <1>15, SystemProcs DEF ClockState, DoneTask
  <2> QED
    BY <2>1, <2>2, <2>3 DEF TasksOK
<1>19. \A w \in Servers : pc'[w] = pc[w] /\ ~Busy(k', pc', w)
  BY <1>14, <1>15, <1>17, SystemProcs DEF Busy, IdleTask, WaitsFor
<1>20. /\ UsersStay(k, k') /\ (\A x, v : Answerable(k', x, v) <=> Answerable(k, x, v))
       /\ UserMess(k') /\ PidsDiffer(k') /\ PausedOK(k', paused)
       /\ \A x \in UserSlots : isemptyp(k', x) <=> isemptyp(k, x)
  BY <1>2, <1>16, CalmStays DEF CInv, MailOK
<1>21. MMPlan(k', paused, Known(k, pc, closed), plan[MM]) /\ (TellsFork(k, pc) => NoXit(plan[MM]))
  BY <1>17, <1>20, PlanStays DEF TodoOK
<1>22. \A x \in UserSlots : ~isemptyp(k', x) =>
         Open(k', x) = Cardinality(Ends(plan[MM], x)) + HasTold(k, pc, x)
  BY <1>16, <1>17, <1>20 DEF TodoOK, OpenOK, CalmUsers
<1>23. ASSUME NEW c \in Procs, Serves(k, pc, plan, c) PROVE Client(k', c)
  <2>1. Client(k, c)
    BY <1>2, <1>23 DEF CInv, FSPlan
  <2>2. ~WaitsFor(k, MM, FS)
    BY <1>6, SystemProcs DEF WaitsFor
  <2> QED
    BY <1>20, <2>1, <2>2 DEF Client
<1>24. HeadFS(k) => HeadFS(k')
  BY <1>8, <1>11, <1>13, HeadsAll DEF HeadFS
<1>25. \A w \in Servers \ {MM} :
           /\ k'.p_flags[w] = k.p_flags[w] /\ k'.p_getfrom[w] = k.p_getfrom[w]
           /\ k'.mess[w] = k.mess[w]
  BY <1>14, SystemProcs
<1>26. Good(k', pc', plan, paused, closed)
  <2>1. Good(k, pc, plan, paused, closed) /\ KInv(k') /\ MM \in Servers /\ pc' \in PcType /\ MM # FS
    BY <1>13, <1>15, SystemProcs DEF Now
  <2>2. UserMess(k') /\ PidsDiffer(k') /\ PausedOK(k', paused)
    BY <1>20
  <2>3. k'.p_flags[MM] = {}
    BY <1>14
  <2> HIDE <1>1, <1>20
  <2> QED
    BY <1>6, <1>18, <1>19, <1>21, <1>22, <1>23, <1>24, <1>25, <2>1, <2>2, <2>3, Answers
<1> QED
  BY <1>1, <1>26 DEF Now, serverVars

\* Nothing happens to the calls of the users.
SameCalls(s, n) ==
  \A u \in UserSlots :
    /\ n.p_priority[u] = s.p_priority[u] /\ n.p_pid[u] = s.p_pid[u]
    /\ n.p_getfrom[u] = s.p_getfrom[u] /\ n.p_sendto[u] = s.p_sendto[u]
    /\ n.mess[u] = s.mess[u]
    /\ \A f \in {"SENDING", "RECEIVING"} : f \in n.p_flags[u] <=> f \in s.p_flags[u]

\* Then they go on waiting.
LEMMA CallsStay ==
  ASSUME NEW s, NEW n, SameCalls(s, n)
  PROVE  /\ \A u, v : Answerable(n, u, v) <=> Answerable(s, u, v)
         /\ UserMess(s) => UserMess(n)
         /\ PidsDiffer(s) => PidsDiffer(n)
         /\ \A Z : PausedOK(s, Z) => PausedOK(n, Z)
         /\ \A u \in UserSlots : isemptyp(n, u) <=> isemptyp(s, u)
<1>2. \A u \in UserSlots : isemptyp(n, u) <=> isemptyp(s, u)
  BY DEF SameCalls, isemptyp
<1>3. \A u \in UserSlots, f \in {"SENDING", "RECEIVING"} :
        f \in n.p_flags[u] <=> f \in s.p_flags[u]
  BY DEF SameCalls
<1>4. \A u, v : Answerable(n, u, v) <=> Answerable(s, u, v)
  BY <1>2, <1>3 DEF SameCalls, Answerable
<1>5. UserMess(s) => UserMess(n)
  BY <1>3 DEF SameCalls, UserMess
<1>6. PidsDiffer(s) => PidsDiffer(n)
  BY <1>2 DEF SameCalls, PidsDiffer
<1> QED
  BY <1>2, <1>4, <1>5, <1>6 DEF PausedOK

\* MM, waiting for anybody, hears of signals; meanwhile FS may get an answer.
LEMMA Hears ==
  ASSUME NEW s, NEW P, NEW L, NEW Z, NEW C, Good(s, P, L, Z, C), NEW n, KInv(n), NEW P2,
         Heard(s, n), SameCalls(s, n),
         P2 \in PcType, \A w \in Servers : P2[w] = P[w] /\ ~Busy(n, P2, w),
         \/ n.p_flags[FS] = s.p_flags[FS] /\ n.mess[FS] = s.mess[FS]
         \/ P[FS] # "work" /\ n.p_flags[FS] = {} /\ s.p_flags[FS] = {"RECEIVING"},
         n.p_getfrom[FS] = s.p_getfrom[FS],
         TasksOK(n, P2), HeadFS(s) => HeadFS(n)
  PROVE  Good(n, P2, L, Z, C)
<1>1. CInv(s, P, L, Z, C) /\ MM \in Servers /\ FS \in Servers /\ MM # FS
  BY SystemProcs DEF Good
<1>2. P2[MM] = P[MM] /\ P2[FS] = P[FS] /\ ~Busy(n, P2, MM) /\ ~Busy(n, P2, FS)
  BY <1>1
<1>3. /\ s.p_flags[MM] = {"RECEIVING"} /\ s.p_getfrom[MM] = ANY /\ n.p_flags[MM] = {}
      /\ n.mess[MM].type = "KSIG" /\ n.mess[MM].i1 \in UserSlots
      /\ IsFiniteSet(n.mess[MM].map)
  BY DEF Heard
<1>4. \A u \in UserSlots :
        Open(n, u) = Open(s, u) + IF u = n.mess[MM].i1 THEN Cardinality(n.mess[MM].map) ELSE 0
  BY DEF Heard
<1>5. ServerState(s, P, L, MM) /\ ServerState(s, P, L, FS)
  BY <1>1 DEF CInv, ServersOK
<1>6. P[MM] = "work" /\ L[MM] = << >>
  <2>1. ANY \notin Tasks \cup {FS}
    BY SystemProcs
  <2>2. P[MM] = "work"
    BY <1>3, <1>5, <2>1 DEF ServerState
  <2> QED
    BY <1>5, <2>2 DEF ServerState
<1>7. /\ \A u, v : Answerable(n, u, v) <=> Answerable(s, u, v)
      /\ UserMess(n) /\ PidsDiffer(n) /\ PausedOK(n, Z)
      /\ \A u \in UserSlots : isemptyp(n, u) <=> isemptyp(s, u)
  <2>1. UserMess(s) /\ PidsDiffer(s) /\ PausedOK(s, Z)
    BY <1>1 DEF CInv, MailOK
  <2> QED
    BY <2>1, CallsStay
<1>8. ~Busy(s, P, MM) /\ ~WaitsFor(s, MM, FS)
  <2>1. SysState(s, P)
    BY <1>1 DEF CInv, TasksOK
  <2>2. Busy(s, P, MM) => WaitsFor(s, MM, SYSTASK)
    BY <2>1 DEF SysState, Busy, IdleTask, DoneTask, WaitsFor
  <2> QED
    BY <1>3, <2>2, SystemProcs DEF WaitsFor
<1>9. ServersOK(n, P2, L)
  <2>1. ServerState(n, P2, L, MM)
    BY <1>2, <1>3, <1>5 DEF ServerState
  <2>2. ServerState(n, P2, L, FS)
    BY <1>2, <1>5 DEF ServerState, WaitsFor
  <2> QED
    BY <2>1, <2>2 DEF ServersOK
<1>10. Todo(n, P2, L) = << >> /\ Todo(s, P, L) = << >>
  BY <1>2, <1>6, <1>8 DEF Todo
<1>11. OpenOK(n, P2, << >>)
  <2>1. OpenOK(s, P, << >>)
    BY <1>1, <1>10 DEF CInv, TodoOK
  <2>2. \A u : Cardinality(Ends(<< >>, u)) = 0
    <3>1. \A u : Ends(<< >>, u) = {}
      BY DEF Ends
    <3> QED
      BY <3>1, FS_EmptySet
  <2>3. \A u : HasTold(s, P, u) = 0
    BY <1>3 DEF HasTold, Got
  <2>4. \A u : HasTold(n, P2, u) =
                 IF u = n.mess[MM].i1 THEN Cardinality(n.mess[MM].map) ELSE 0
    BY <1>2, <1>3, <1>6 DEF HasTold, Got
  <2>5. Cardinality(n.mess[MM].map) \in Nat
    BY <1>3, FS_CardinalityType
  <2>6. ASSUME NEW u \in UserSlots, ~isemptyp(n, u)
        PROVE  Open(n, u) = Cardinality(Ends(<< >>, u)) + HasTold(n, P2, u)
    <3>1. Open(s, u) = 0
      BY <1>7, <2>1, <2>2, <2>3, <2>6 DEF OpenOK
    <3>2. PICK c \in Nat : c = IF u = n.mess[MM].i1 THEN Cardinality(n.mess[MM].map) ELSE 0
      BY <2>5
    <3>3. Open(n, u) = 0 + c
      BY <1>4, <3>1, <3>2
    <3>4. HasTold(n, P2, u) = c
      BY <2>4, <3>2
    <3> QED
      BY <2>2, <3>3, <3>4
  <2> QED
    BY <2>6 DEF OpenOK
<1>12. TodoOK(n, P2, Z, C, Todo(n, P2, L))
  BY <1>10, <1>11 DEF TodoOK, MMPlan, NoXit, RepliesOnce
<1>13. \A c : Serves(n, P2, L, c) <=> Serves(s, P, L, c)
  BY <1>2 DEF Serves
<1>14. FSPlan(n, P2, L, C)
  <2>1. FSPlan(s, P, L, C)
    BY <1>1 DEF CInv
  <2>2. \A c \in Procs : Client(s, c) => Client(n, c)
    BY <1>7, <1>8 DEF Client
  <2> QED
    BY <1>2, <1>13, <2>1, <2>2 DEF FSPlan
<1>15. MailOK(n, P2, Z)
  <2>1. FSGot(s, P)
    BY <1>1 DEF CInv, MailOK
  <2>2. MMGot(n, P2, Z)
    BY <1>3 DEF MMGot
  <2>3. FSGot(n, P2)
    BY <1>2, <2>1 DEF FSGot, Got
  <2> QED
    BY <1>7, <2>2, <2>3 DEF MailOK
<1>16. Exiting(n, P2, L, Z)
  BY <1>2 DEF Exiting
<1>17. CtlTyped(P2, L, Z)
  BY <1>1 DEF CInv, CtlTyped, PcType
<1> QED
  BY <1>9, <1>12, <1>14, <1>15, <1>16, <1>17 DEF CInv, Good

\* The clock task deals with a tick.
LEMMA Ticks ==
  ASSUME Now, ClockTick
  PROVE  Now'
<1>1. \E due \in SUBSET {p \in Slots : k.p_alarm[p] # 0} :
        k' \in {Alarms(k, due), sched(Alarms(k, due))}
  BY DEF ClockTick
<1>2. /\ k.proc_ptr = CLOCK /\ pc[CLOCK] = "work"
      /\ pc' = [pc EXCEPT ![CLOCK] = "recv"]
      /\ UNCHANGED <<load, plan, serverVars>>
  BY DEF ClockTick
<1>3. /\ KInv(k) /\ k \in KernelState /\ pc \in PcType /\ k.p_flags[CLOCK] = {} /\ TasksOK(k, pc)
      /\ CInv(k, pc, plan, paused, closed) /\ k.p_flags[SYSTASK] # {}
  BY <1>2, TaskRuns, SystemProcs
<1>4. PICK due : /\ due \subseteq {p \in Slots : k.p_alarm[p] # 0}
                 /\ k' \in {Alarms(k, due), sched(Alarms(k, due))}
  BY <1>1
<1>5. PICK h : h = Alarms(k, due)
  OBVIOUS
<1>6. KInv(h) /\ SigEffect(k, h)
  BY <1>3, <1>4, <1>5, AlarmsKeep
<1>7. KInv(k') /\ SameData(h, k') /\ HeadsKept(h, k', HARDWARE) /\ h \in KernelState
  <2>1. h \in KernelState
    BY <1>6 DEF SigEffect
  <2>2. CASE k' = h
    BY <1>6, <2>1, <2>2 DEF SameData, HeadsKept
  <2>3. CASE k' = sched(h)
    BY <1>6, <2>1, <2>3, SchedKeeps
  <2> QED
    BY <1>4, <1>5, <2>2, <2>3
<1> HIDE <1>5
<1>8. HeadFS(k) => HeadFS(k')
  <2>1. HeadsKept(k, h, HARDWARE)
    BY <1>6 DEF SigEffect
  <2>2. HeadsKept(k, k', HARDWARE)
    BY <1>3, <1>7, <2>1, HeadsJoin
  <2> QED
    BY <1>3, <2>2, HeadsAll
<1>9. /\ pc' \in PcType /\ pc'[CLOCK] = "recv"
      /\ \A x \in (Tasks \cup Servers) \ {CLOCK} : pc'[x] = pc[x]
  BY <1>2, <1>3, SystemProcs DEF PcType
<1>10. /\ h.p_getfrom = k.p_getfrom /\ h.p_int_blocked = k.p_int_blocked
       /\ (\A t \in Tasks \cup {FS} : h.p_flags[t] = k.p_flags[t])
       /\ (\A x \in Procs \ {MM, SYSTASK} : h.mess[x] = k.mess[x])
  BY <1>6 DEF SigEffect
<1>11. /\ k'.p_flags = h.p_flags /\ k'.p_priority = h.p_priority
       /\ k'.p_getfrom = h.p_getfrom /\ k'.p_sendto = h.p_sendto
       /\ k'.p_int_blocked = h.p_int_blocked
       /\ k'.p_pending = h.p_pending /\ k'.p_pendcount = h.p_pendcount
       /\ k'.p_pid = h.p_pid /\ k'.mess = h.mess
  BY <1>7 DEF SameData
<1>12. IdleTask(k, pc, SYSTASK) /\ ~k.p_int_blocked[SYSTASK] /\ (\A w : ~Busy(k, pc, w))
  BY <1>3, SysIdle
<1>13. TasksOK(k', pc')
  <2>1. SysState(k', pc')
    BY <1>9, <1>10, <1>11, <1>12, SystemProcs DEF SysState, IdleTask, WaitsFor
  <2>2. ClockState(k', pc')
    BY <1>3, <1>9, <1>10, <1>11, SystemProcs DEF ClockState, DoneTask
  <2>3. DiskState(k', pc')
    <3>1. pc'[DISK] = pc[DISK] /\ k'.p_flags[DISK] = k.p_flags[DISK]
          /\ k'.p_flags[FS] = k.p_flags[FS]
      BY <1>9, <1>10, <1>11, SystemProcs
    <3> QED
      BY <1>3, <1>10, <1>11, <3>1 DEF TasksOK, DiskState, IdleTask, DoneTask, WaitsFor
  <2> QED
    BY <2>1, <2>2, <2>3 DEF TasksOK
<1>14. \A w \in Servers : pc'[w] = pc[w] /\ ~Busy(k', pc', w)
  BY <1>9, <1>10, <1>11, <1>12, SystemProcs DEF Busy, IdleTask, WaitsFor
<1>15. Good(k', pc', plan, paused, closed)
  <2>1. CASE Quiet(k, h)
    <3>1. CalmUsers(k, h) /\ SameServers(k, h)
      BY <1>6, <2>1, SigCalm
    <3>2. CalmUsers(k, k')
      BY <1>11, <3>1 DEF CalmUsers, Open
    <3>3. SameServers(k, k')
      BY <1>11, <3>1 DEF SameServers
    <3>4. SameWork(k, pc, k', pc')
      BY <1>12, <1>14 DEF SameWork
    <3>5. CtlTyped(pc', plan, paused)
      BY <1>3, <1>9 DEF CInv, CtlTyped, PcType
    <3> QED
      BY <1>3, <1>7, <1>8, <1>13, <3>2, <3>3, <3>4, <3>5, Aside DEF Good
  <2>2. CASE Heard(k, h)
    <3>1. Heard(k, k')
      BY <1>11, <2>2 DEF Heard, Open, isemptyp
    <3>2. SameCalls(k, k')
      <4>1. \A u \in UserSlots : u \in Procs \ {MM, SYSTASK}
        BY SystemProcs
      <4>2. /\ h.p_priority = k.p_priority /\ h.p_sendto = k.p_sendto /\ h.p_pid = k.p_pid
            /\ \A x \in Procs \ {MM}, f \in Flags \ {"PENDING", "SIG_PENDING"} :
                 f \in h.p_flags[x] <=> f \in k.p_flags[x]
        BY <1>6 DEF SigEffect
      <4>3. {"SENDING", "RECEIVING"} \subseteq Flags \ {"PENDING", "SIG_PENDING"}
        BY DEF Flags
      <4> QED
        BY <1>10, <1>11, <4>1, <4>2, <4>3 DEF SameCalls
    <3>3. k'.p_flags[FS] = k.p_flags[FS] /\ k'.mess[FS] = k.mess[FS]
          /\ k'.p_getfrom[FS] = k.p_getfrom[FS]
      BY <1>10, <1>11, SystemProcs
    <3>4. Good(k, pc, plan, paused, closed) /\ KInv(k') /\ pc' \in PcType
      BY <1>7, <1>9 DEF Now
    <3> HIDE <1>2
    <3> QED
      BY <1>8, <1>13, <1>14, <3>1, <3>2, <3>3, <3>4, Hears
  <2> QED
    BY <1>6, <2>1, <2>2 DEF SigEffect
<1> QED
  BY <1>2, <1>15 DEF Now, serverVars

\* A sequence with a first element more
LEMMA ConsFacts ==
  ASSUME NEW S, NEW t \in Seq(S), NEW e \in S
  PROVE  LET r == <<e>> \o t
         IN r \in Seq(S) /\ r # << >> /\ r[1] = e /\ Tail(r) = t
<1> DEFINE r == <<e>> \o t
<1>1. /\ r \in Seq(S) /\ Len(r) = Len(t) + 1 /\ Len(t) \in Nat
      /\ r[1] = e /\ \A i \in 1..Len(t) : r[i + 1] = t[i]
  OBVIOUS
<1> HIDE DEF r
<1>2. r # << >>
  BY <1>1
<1>3. Tail(r) = t
  BY <1>1, <1>2, HeadTailProperties, SeqEqual
<1> QED
  BY <1>1, <1>2, <1>3 DEF r

\* The request t[1] of MM that the system task works on
Requested(s, P, L, Z, K, t) ==
  /\ t \in Seq(Steps) /\ t # << >> /\ Tail(t) = L[MM]
  /\ t[1].m = From(s.mess[SYSTASK], HARDWARE)
  /\ t[1].how = "sendrec" /\ SysCallOK(s, Z, K, t, 1)
  /\ WaitsFor(s, MM, SYSTASK) /\ P[MM] # "work"
  /\ s.mess[SYSTASK] \in Mess /\ s.mess[SYSTASK].src = MM

\* What the system task has to do for MM is the first step of MM's plan.
LEMMA RequestFacts ==
  ASSUME NEW s, NEW P, NEW L, NEW Z, NEW C, Good(s, P, L, Z, C), Busy(s, P, MM),
         NEW t, t = Todo(s, P, L)
  PROVE  Requested(s, P, L, Z, Known(s, P, C), t) /\ TodoOK(s, P, Z, C, t)
<1>1. KInv(s) /\ CInv(s, P, L, Z, C) /\ MM \in Servers /\ SYSTASK \in Procs
  BY SystemProcs DEF Good
<1>2. L[MM] \in Seq(Steps)
  BY <1>1 DEF CInv, CtlTyped
<1>3. s.mess[SYSTASK] \in Mess
  BY <1>1 DEF KInv, Base, KernelState
<1>4. PICK e : e = [s.mess[SYSTASK] EXCEPT !.src = HARDWARE]
  OBVIOUS
<1>5. e \in Mess /\ e.src = HARDWARE
  <2>1. HARDWARE \in Procs
    BY ProcFacts
  <2> QED
    BY <1>3, <1>4, <2>1 DEF Mess
<1>6. Call(SYSTASK, e) \in Steps
  BY <1>1, <1>5 DEF Call, Steps
<1>7. t = <<Call(SYSTASK, e)>> \o L[MM]
  BY <1>4 DEF Todo
<1>8. t \in Seq(Steps) /\ t # << >> /\ Tail(t) = L[MM] /\ t[1] = Call(SYSTASK, e)
  BY <1>2, <1>6, <1>7, ConsFacts
<1>9. TodoOK(s, P, Z, C, t)
  BY <1>1 DEF CInv
<1>10. t[1].m = e /\ t[1].how = "sendrec" /\ t[1].to = SYSTASK
  BY <1>8 DEF Call
<1>11. SysCallOK(s, Z, Known(s, P, C), t, 1)
  <2>1. MMElem(s, Z, Known(s, P, C), t, 1)
    BY <1>8, <1>9, TailFacts DEF TodoOK, MMPlan
  <2>2. ~OtherCallOK(s, t, 1)
    <3>1. SYSTASK # FS /\ SYSTASK # CLOCK
      BY SystemProcs
    <3> QED
      BY <1>10, <3>1 DEF OtherCallOK
  <2> QED
    BY <1>10, <2>1, <2>2 DEF MMElem, ReplyOK, IsReply
<1>12. WaitsFor(s, MM, SYSTASK)
  <2>1. SysState(s, P)
    BY <1>1 DEF CInv, TasksOK
  <2> QED
    BY <2>1 DEF SysState, Busy, IdleTask, DoneTask, WaitsFor
<1>13. P[MM] # "work"
  <2>1. ServersOK(s, P, L)
    BY <1>1 DEF CInv
  <2>2. SYSTASK # ANY
    BY SystemProcs
  <2> QED
    BY <1>1, <1>12, <2>1, <2>2, ServerWaits
<1>14. s.mess[SYSTASK].src = MM
  BY DEF Busy
<1> QED
  BY <1>3, <1>4, <1>8, <1>9, <1>10, <1>11, <1>12, <1>13, <1>14 DEF Requested, From

\* The handlers of the system task leave tasks and servers alone.
OffServers(s, h) ==
  /\ h.mess = s.mess /\ h.p_int_blocked = s.p_int_blocked
  /\ \A x \in Tasks \cup Servers :
       h.p_flags[x] = s.p_flags[x] /\ h.p_getfrom[x] = s.p_getfrom[x]
  /\ HeadsKept(s, h, HARDWARE)

\* Then MM can go on with its plan when they have done this to the users.
UsersDone(s, h, P, L, Z, t) ==
  /\ \A u \in UserSlots :
       /\ Answerable(s, u, MM) \/ Kid(t, u) => Answerable(h, u, MM) \/ Finishes(t, u)
       /\ ~isemptyp(s, u) \/ Kid(t, u) =>
            ~isemptyp(h, u) \/ (IsCall(t[1], "SYS_XIT") /\ t[1].m.i2 = u)
       /\ Serves(s, P, L, u) /\ Answerable(s, u, FS) => Answerable(h, u, FS)
       /\ ~isemptyp(h, u) => Open(h, u) = Cardinality(Ends(L[MM], u))
  /\ UserMess(h) /\ PidsDiffer(h) /\ PausedOK(h, Z)

\* MM has its answer.
LEMMA Handled ==
  ASSUME NEW s, NEW P, NEW L, NEW Z, NEW C, Good(s, P, L, Z, C), Busy(s, P, MM),
         NEW t, t = Todo(s, P, L),
         NEW h, KInv(h), OffServers(s, h), UsersDone(s, h, P, L, Z, t),
         NEW m \in Mess, NEW n, RepliedIs(h, m, SYSTASK, MM, n), KInv(n),
         HeadsKept(h, n, HARDWARE),
         NEW P2 \in PcType, P2[SYSTASK] = "recv",
         \A x \in (Tasks \cup Servers) \ {SYSTASK} : P2[x] = P[x]
  PROVE  Good(n, P2, L, Z, C)
<1>1. KInv(s) /\ CInv(s, P, L, Z, C) /\ s \in KernelState /\ h \in KernelState
  BY DEF Good, KInv, Base
<1>2. /\ t \in Seq(Steps) /\ t # << >> /\ Tail(t) = L[MM]
      /\ SysCallOK(s, Z, Known(s, P, C), t, 1) /\ TodoOK(s, P, Z, C, t)
      /\ WaitsFor(s, MM, SYSTASK) /\ P[MM] # "work"
  <2>1. Requested(s, P, L, Z, Known(s, P, C), t) /\ TodoOK(s, P, Z, C, t)
    BY RequestFacts
  <2> QED
    BY <2>1 DEF Requested
<1>3. /\ n.p_flags[MM] = h.p_flags[MM] \ {"RECEIVING"}
      /\ \A x \in Procs \ {MM} : n.p_flags[x] = h.p_flags[x]
      /\ \A x \in Procs \ {SYSTASK, MM} : n.mess[x] = h.mess[x]
      /\ n.p_getfrom = h.p_getfrom /\ n.p_priority = h.p_priority
      /\ n.p_int_blocked = h.p_int_blocked
      /\ \A u : Open(n, u) = Open(h, u)
  <2>1. SYSTASK \in Procs /\ MM \in Procs /\ SYSTASK # MM
    BY SystemProcs
  <2>2. Answered(h, m, SYSTASK, MM, n)
    BY <1>1, <2>1, RepliedFacts
  <2> QED
    BY <2>2 DEF Answered
<1>4. /\ h.mess = s.mess /\ h.p_int_blocked = s.p_int_blocked
      /\ \A x \in Tasks \cup Servers :
           h.p_flags[x] = s.p_flags[x] /\ h.p_getfrom[x] = s.p_getfrom[x]
      /\ HeadsKept(s, h, HARDWARE)
  BY DEF OffServers
<1>5. HeadsKept(s, n, HARDWARE) /\ (HeadFS(s) => HeadFS(n))
  <2>1. HeadsKept(s, n, HARDWARE)
    BY <1>1, <1>4, HeadsJoin
  <2> QED
    BY <1>1, <2>1, HeadsAll
<1>6. /\ UsersStay(h, n) /\ (\A u, v : Answerable(n, u, v) <=> Answerable(h, u, v))
      /\ UserMess(n) /\ PidsDiffer(n) /\ PausedOK(n, Z)
      /\ \A u \in UserSlots : isemptyp(n, u) <=> isemptyp(h, u)
  <2>1. CalmUsers(h, n)
    BY <1>1, RepliedCalm, SystemProcs
  <2>2. UserMess(h) /\ PidsDiffer(h) /\ PausedOK(h, Z)
    BY DEF UsersDone
  <2> QED
    BY <2>1, <2>2, CalmStays
<1>7. /\ n.p_flags[MM] = {} /\ s.p_flags[MM] = {"RECEIVING"} /\ s.p_getfrom[MM] = SYSTASK
  BY <1>2, <1>3, <1>4, SystemProcs DEF WaitsFor
<1>8. /\ n.p_flags[FS] = s.p_flags[FS] /\ n.p_getfrom[FS] = s.p_getfrom[FS]
      /\ n.mess[FS] = s.mess[FS]
  <2>1. FS \in Procs \ {MM} /\ FS \in Procs \ {SYSTASK, MM} /\ FS \in Servers
    BY SystemProcs
  <2> QED
    BY <1>3, <1>4, <2>1
<1>9. \A x \in Tasks : n.p_flags[x] = s.p_flags[x] /\ n.p_getfrom[x] = s.p_getfrom[x]
                       /\ P2[x] = (IF x = SYSTASK THEN "recv" ELSE P[x])
  <2>1. \A x \in Tasks : x \in Procs \ {MM}
    BY SystemProcs
  <2> QED
    BY <1>3, <1>4, <2>1
<1>10. s.p_flags[SYSTASK] = {} /\ s.proc_ptr = SYSTASK /\ ~s.p_int_blocked[SYSTASK]
       /\ TasksOK(s, P)
  <2>1. SysState(s, P) /\ TasksOK(s, P)
    BY <1>1 DEF CInv, TasksOK
  <2>2. s.p_flags[SYSTASK] = {}
    BY DEF Busy
  <2> QED
    BY <2>1, <2>2 DEF SysState
<1>11. TasksOK(n, P2)
  <2>1. SysState(n, P2)
    <3>1. n.proc_ptr = SYSTASK
      <4>1. HARDWARE # SYSTASK
        BY SystemProcs
      <4> QED
        BY <1>1, <1>5, <1>10, <4>1, SysRunsOn
    <3>2. n.p_flags[SYSTASK] = {}
      BY <1>9, <1>10, SystemProcs
    <3>3. ~n.p_int_blocked[SYSTASK]
      BY <1>3, <1>4, <1>10
    <3> QED
      BY <3>1, <3>2, <3>3 DEF SysState, DoneTask
  <2>2. ClockState(n, P2)
    <3>1. n.p_flags[CLOCK] = s.p_flags[CLOCK] /\ n.p_getfrom[CLOCK] = s.p_getfrom[CLOCK]
          /\ n.mess[CLOCK] = s.mess[CLOCK] /\ P2[CLOCK] = P[CLOCK]
      <4>1. CLOCK \in Tasks /\ CLOCK # SYSTASK /\ CLOCK \in Procs \ {SYSTASK, MM}
        BY SystemProcs
      <4> QED
        BY <1>3, <1>4, <1>9, <4>1
    <3>2. ~SetsAlarm(s)
      BY <1>7, SystemProcs DEF SetsAlarm, WaitsFor
    <3>3. ClockState(s, P)
      BY <1>10 DEF TasksOK
    <3> QED
      BY <3>1, <3>2, <3>3 DEF ClockState, IdleTask, DoneTask, WaitsFor
  <2>3. DiskState(n, P2)
    <3>1. n.p_flags[DISK] = s.p_flags[DISK] /\ n.p_getfrom[DISK] = s.p_getfrom[DISK]
          /\ P2[DISK] = P[DISK] /\ n.p_int_blocked = s.p_int_blocked
      BY <1>3, <1>4, <1>9, SystemProcs
    <3> QED
      BY <1>8, <1>10, <3>1 DEF TasksOK, DiskState, IdleTask, DoneTask, WaitsFor
  <2> QED
    BY <2>1, <2>2, <2>3 DEF TasksOK
<1>12. \A w \in Servers : P2[w] = P[w] /\ ~Busy(n, P2, w)
  BY SystemProcs DEF Busy
<1>13. MMPlan(n, Z, Known(s, P, C), L[MM])
  <2>1. \A u \in UserSlots :
           /\ Answerable(s, u, MM) \/ Kid(t, u) => Answerable(n, u, MM) \/ Finishes(t, u)
           /\ ~isemptyp(s, u) \/ Kid(t, u) =>
                ~isemptyp(n, u) \/ (IsCall(t[1], "SYS_XIT") /\ t[1].m.i2 = u)
    BY <1>6 DEF UsersDone
  <2>2. MMPlan(s, Z, Known(s, P, C), t)
    BY <1>2 DEF TodoOK
  <2>3. ~IsCall(t[1], "TELL_EXIT")
    BY <1>2 DEF SysCallOK, ForkOK, NewmapOK, ExecOK, XitOK, TraceOK, IsCall
  <2>4. Z \subseteq Z
    OBVIOUS
  <2>5. \A u \in UserSlots :
           Answerable(s, u, MM) \/ Kid(t, u) => Answerable(n, u, MM) \/ Finishes(t, u)
    BY <2>1
  <2>6. \A u \in UserSlots :
           ~isemptyp(s, u) \/ Kid(t, u) =>
                ~isemptyp(n, u) \/ (IsCall(t[1], "SYS_XIT") /\ t[1].m.i2 = u)
    BY <2>1
  <2>7. MMPlan(n, Z, Known(s, P, C), Tail(t))
    BY <1>2, <2>2, <2>3, <2>4, <2>5, <2>6, TailStays
  <2> QED
    BY <1>2, <2>7
<1>14. TellsFork(s, P) => NoXit(L[MM])
  <2>1. TellsFork(s, P) => NoXit(t)
    BY <1>2 DEF TodoOK
  <2>2. \A i \in DOMAIN Tail(t) : i + 1 \in DOMAIN t /\ Tail(t)[i] = t[i + 1]
    BY <1>2, TailFacts
  <2> QED
    BY <1>2, <2>1, <2>2 DEF NoXit
<1>15. \A u \in UserSlots : ~isemptyp(n, u) =>
         Open(n, u) = Cardinality(Ends(L[MM], u)) + HasTold(s, P, u)
  <2>1. \A u : HasTold(s, P, u) = 0
    BY <1>2 DEF HasTold, Got
  <2>2. \A u : Cardinality(Ends(L[MM], u)) \in Nat
    <3>1. L[MM] \in Seq(Steps)
      BY <1>2, TailFacts
    <3> QED
      BY <3>1, EndsTail
  <2>3. \A u \in UserSlots : ~isemptyp(h, u) => Open(h, u) = Cardinality(Ends(L[MM], u))
    BY DEF UsersDone
  <2> QED
    BY <1>3, <1>6, <2>1, <2>2, <2>3
<1>16. ASSUME NEW c \in Procs, Serves(s, P, L, c) PROVE Client(n, c)
  <2>1. Client(s, c)
    BY <1>1, <1>16 DEF CInv, FSPlan
  <2>2. ~WaitsFor(s, MM, FS)
    BY <1>7, SystemProcs DEF WaitsFor
  <2>3. Answerable(s, c, FS) /\ c \in UserSlots
    BY <2>1, <2>2 DEF Client, Answerable
  <2>4. Answerable(h, c, FS)
    BY <1>16, <2>3 DEF UsersDone
  <2> QED
    BY <1>6, <2>4 DEF Client
<1>17. \A w \in Servers \ {MM} :
           /\ n.p_flags[w] = s.p_flags[w] /\ n.p_getfrom[w] = s.p_getfrom[w]
           /\ n.mess[w] = s.mess[w]
  BY <1>8 DEF Servers
<1>18. MM # FS /\ MM \in Servers
  BY SystemProcs
<1>19. UserMess(n) /\ PidsDiffer(n) /\ PausedOK(n, Z)
  BY <1>6
<1>20. HeadFS(s) => HeadFS(n)
  BY <1>5
<1> HIDE <1>6
<1> QED
  BY <1>2, <1>7, <1>11, <1>12, <1>13, <1>14, <1>15, <1>16, <1>17, <1>18, <1>19, <1>20, Answers

\* A handler that does something to one user leaves tasks and servers alone.
LEMMA OffUser ==
  ASSUME NEW s, NEW h, NEW p \in UserSlots \cup {IDLE}, OnUser(s, h, p)
  PROVE  OffServers(s, h)
<1>1. \A x \in Tasks \cup Servers : x \in Procs \ {p}
  BY SystemProcs
<1> QED
  BY <1>1 DEF OnUser, OffServers

\* A handler that clears or sets another flag than those of waiting
LEMMA FlagOnly ==
  ASSUME NEW s, NEW h, NEW p \in UserSlots \cup {IDLE}, OnUser(s, h, p),
         p # IDLE => /\ SameUser(s, h, p)
                     /\ \A f \in {"SENDING", "RECEIVING"} :
                          f \in h.p_flags[p] <=> f \in s.p_flags[p]
  PROVE  SameCalls(s, h)
<1>1. {"SENDING", "RECEIVING"} \subseteq Flags \ {"PENDING", "SIG_PENDING"}
  BY DEF Flags
<1>2. h.mess = s.mess
  BY DEF OnUser
<1>3. ASSUME NEW u \in UserSlots, u # p
      PROVE  /\ h.p_priority[u] = s.p_priority[u] /\ h.p_pid[u] = s.p_pid[u]
             /\ h.p_getfrom[u] = s.p_getfrom[u] /\ h.p_sendto[u] = s.p_sendto[u]
             /\ \A f \in {"SENDING", "RECEIVING"} : f \in h.p_flags[u] <=> f \in s.p_flags[u]
  <2>1. u \in Procs \ {p} /\ u \in Slots \ {p}
    BY <1>3, SystemProcs
  <2> QED
    BY <1>1, <2>1 DEF OnUser
<1>4. ASSUME p \in UserSlots
      PROVE  /\ h.p_priority[p] = s.p_priority[p] /\ h.p_pid[p] = s.p_pid[p]
             /\ h.p_getfrom[p] = s.p_getfrom[p] /\ h.p_sendto[p] = s.p_sendto[p]
             /\ \A f \in {"SENDING", "RECEIVING"} : f \in h.p_flags[p] <=> f \in s.p_flags[p]
  <2>1. p # IDLE
    BY <1>4, SystemProcs
  <2> QED
    BY <2>1 DEF SameUser
<1>5. ASSUME NEW u \in UserSlots
      PROVE  /\ h.p_priority[u] = s.p_priority[u] /\ h.p_pid[u] = s.p_pid[u]
             /\ h.p_getfrom[u] = s.p_getfrom[u] /\ h.p_sendto[u] = s.p_sendto[u]
             /\ \A f \in {"SENDING", "RECEIVING"} : f \in h.p_flags[u] <=> f \in s.p_flags[u]
  BY <1>3, <1>4
<1> QED
  BY <1>2, <1>5 DEF SameCalls

\* The signals that stay in MM's hands
LEMMA OpenTail ==
  ASSUME NEW s, NEW P, NEW L, NEW Z, NEW C, NEW t, Requested(s, P, L, Z, Known(s, P, C), t),
         TodoOK(s, P, Z, C, t), NEW u \in UserSlots, ~isemptyp(s, u)
  PROVE  /\ Cardinality(Ends(L[MM], u)) \in Nat
         /\ Open(s, u) = Cardinality(Ends(L[MM], u)) + IF EndsOne(t[1], u) THEN 1 ELSE 0
<1>1. t \in Seq(Steps) /\ t # << >> /\ Tail(t) = L[MM] /\ P[MM] # "work"
  BY DEF Requested
<1>2. HasTold(s, P, u) = 0
  BY <1>1 DEF HasTold, Got
<1>3. L[MM] \in Seq(Steps)
  BY <1>1, TailFacts
<1>4. Cardinality(Ends(L[MM], u)) \in Nat
  BY <1>3, EndsTail
<1>5. Cardinality(Ends(t, u)) = Cardinality(Ends(L[MM], u)) + IF EndsOne(t[1], u) THEN 1 ELSE 0
  BY <1>1, EndsTail
<1>6. Open(s, u) = Cardinality(Ends(t, u)) + HasTold(s, P, u)
  BY DEF TodoOK, OpenOK
<1>7. PICK c \in Nat : c = Cardinality(Ends(L[MM], u))
  BY <1>4
<1> QED
  BY <1>2, <1>5, <1>6, <1>7

\* A request that neither makes nor ends nor answers a process
LEMMA CalmRequest ==
  ASSUME NEW s, NEW P, NEW L, NEW Z, NEW C, Good(s, P, L, Z, C),
         NEW t, Requested(s, P, L, Z, Known(s, P, C), t), TodoOK(s, P, Z, C, t),
         ~IsCall(t[1], "SYS_FORK"), NEW h, SameCalls(s, h),
         \A u \in UserSlots : ~isemptyp(s, u) =>
           Open(h, u) = Open(s, u) - IF EndsOne(t[1], u) THEN 1 ELSE 0
  PROVE  UsersDone(s, h, P, L, Z, t)
<1>1. /\ \A u, v : Answerable(h, u, v) <=> Answerable(s, u, v)
      /\ UserMess(h) /\ PidsDiffer(h) /\ PausedOK(h, Z)
      /\ \A u \in UserSlots : isemptyp(h, u) <=> isemptyp(s, u)
  <2>1. UserMess(s) /\ PidsDiffer(s) /\ PausedOK(s, Z)
    BY DEF Good, CInv, MailOK
  <2> QED
    BY <2>1, CallsStay
<1>2. \A u : ~Kid(t, u)
  BY DEF Kid
<1>3. ASSUME NEW u \in UserSlots, ~isemptyp(h, u)
      PROVE  Open(h, u) = Cardinality(Ends(L[MM], u))
  <2>1. ~isemptyp(s, u)
    BY <1>1, <1>3
  <2>2. PICK c \in Nat : c = Cardinality(Ends(L[MM], u))
    BY <2>1, OpenTail
  <2>3. Open(s, u) = c + IF EndsOne(t[1], u) THEN 1 ELSE 0
    BY <2>1, <2>2, OpenTail
  <2>4. Open(h, u) = Open(s, u) - IF EndsOne(t[1], u) THEN 1 ELSE 0
    BY <2>1
  <2> QED
    BY <2>2, <2>3, <2>4
<1> QED
  BY <1>1, <1>2, <1>3 DEF UsersDone

\* What does not change of a user
SameUserCalls(s, h, u) ==
  /\ h.p_priority[u] = s.p_priority[u] /\ h.p_pid[u] = s.p_pid[u]
  /\ h.p_getfrom[u] = s.p_getfrom[u] /\ h.p_sendto[u] = s.p_sendto[u]
  /\ h.mess[u] = s.mess[u] /\ Open(h, u) = Open(s, u)
  /\ \A f \in {"SENDING", "RECEIVING"} : f \in h.p_flags[u] <=> f \in s.p_flags[u]

\* A handler that does something to one user leaves the others alone.
LEMMA OnOthers ==
  ASSUME NEW s, NEW h, NEW p, OnUser(s, h, p), NEW u \in UserSlots, u # p
  PROVE  /\ SameUserCalls(s, h, u)
         /\ isemptyp(h, u) <=> isemptyp(s, u)
         /\ \A v : Answerable(h, u, v) <=> Answerable(s, u, v)
<1>1. u \in Procs \ {p} /\ u \in Slots \ {p} /\ u \in UserSlots \ {p}
  BY SystemProcs
<1>2. {"SENDING", "RECEIVING"} \subseteq Flags \ {"PENDING", "SIG_PENDING"}
  BY DEF Flags
<1>3. SameUserCalls(s, h, u)
  BY <1>1, <1>2 DEF OnUser, SameUserCalls
<1> QED
  BY <1>3 DEF SameUserCalls, isemptyp, Answerable

\* What the users say, when only p has changed.
LEMMA OthersSay ==
  ASSUME NEW s, NEW h, NEW p, UserMess(s), "SENDING" \notin h.p_flags[p],
         \A u \in UserSlots : u # p => SameUserCalls(s, h, u)
  PROVE  UserMess(h)
<1> SUFFICES ASSUME NEW u \in UserSlots, "SENDING" \in h.p_flags[u]
             PROVE  /\ h.p_sendto[u] = MM => AsksMM(h.mess[u], u)
                    /\ h.p_sendto[u] = FS => h.mess[u].type \in FSCalls
  BY DEF UserMess
<1>1. SameUserCalls(s, h, u)
  OBVIOUS
<1>2. /\ h.p_sendto[u] = s.p_sendto[u] /\ h.mess[u] = s.mess[u]
      /\ "SENDING" \in s.p_flags[u]
  BY <1>1 DEF SameUserCalls
<1>3. /\ s.p_sendto[u] = MM => AsksMM(s.mess[u], u)
      /\ s.p_sendto[u] = FS => s.mess[u].type \in FSCalls
  BY <1>2 DEF UserMess
<1> QED
  BY <1>2, <1>3

\* The pids, when only p has changed, and to one that no process has.
LEMMA OthersPids ==
  ASSUME NEW s, NEW h, NEW p \in UserSlots, PidsDiffer(s),
         \A u \in UserSlots : u # p => SameUserCalls(s, h, u) /\ (isemptyp(h, u) <=> isemptyp(s, u)),
         \A q \in UserSlots : ~isemptyp(s, q) => s.p_pid[q] # h.p_pid[p],
         \A q \in UserSlots : q < p => ~isemptyp(s, q)
  PROVE  PidsDiffer(h)
<1>1. \A u \in UserSlots : u # p => h.p_pid[u] = s.p_pid[u]
  BY DEF SameUserCalls
<1> SUFFICES ASSUME NEW r \in UserSlots, NEW q \in UserSlots, ~isemptyp(h, r), q < r
             PROVE  h.p_pid[q] # h.p_pid[r]
  BY DEF PidsDiffer
<1>2. q # r
  BY DEF UserSlots
<1>3. CASE r = p
  <2>1. q # p /\ ~isemptyp(s, q)
    BY <1>2, <1>3
  <2>2. h.p_pid[q] = s.p_pid[q] /\ s.p_pid[q] # h.p_pid[p]
    BY <1>1, <2>1
  <2> QED
    BY <1>3, <2>2
<1>4. CASE r # p /\ q = p
  <2>1. h.p_pid[r] = s.p_pid[r] /\ ~isemptyp(s, r)
    BY <1>1, <1>4
  <2>2. s.p_pid[r] # h.p_pid[p]
    BY <2>1
  <2> QED
    BY <1>4, <2>1, <2>2
<1>5. CASE r # p /\ q # p
  <2>1. h.p_pid[r] = s.p_pid[r] /\ ~isemptyp(s, r) /\ h.p_pid[q] = s.p_pid[q]
    BY <1>1, <1>5
  <2>2. s.p_pid[q] # s.p_pid[r]
    BY <2>1 DEF PidsDiffer
  <2> QED
    BY <2>1, <2>2
<1> QED
  BY <1>3, <1>4, <1>5

\* do_fork(): the child waits for MM's answer like its parent.
LEMMA ForkDone ==
  ASSUME NEW s, NEW P, NEW L, NEW Z, NEW C, Good(s, P, L, Z, C),
         NEW t, Requested(s, P, L, Z, Known(s, P, C), t), TodoOK(s, P, Z, C, t),
         NEW m, m = s.mess[SYSTASK], m.type = "SYS_FORK", NEW h, h = do_fork(s, m).k
  PROVE  KInv(h) /\ OffServers(s, h) /\ UsersDone(s, h, P, L, Z, t)
<1>1. /\ t \in Seq(Steps) /\ t # << >> /\ Tail(t) = L[MM] /\ t[1].m = From(m, HARDWARE)
      /\ t[1].how = "sendrec" /\ m \in Mess
  BY DEF Requested
<1>2. t[1].m.type = m.type /\ t[1].m.i1 = m.i1 /\ t[1].m.i2 = m.i2 /\ t[1].m.i3 = m.i3
  BY <1>1 DEF From, Mess
<1>3. MMPlan(s, Z, Known(s, P, C), t)
  BY DEF TodoOK
<1>4. IsCall(t[1], "SYS_FORK")
  BY <1>1, <1>2 DEF IsCall
<1>5. 1 \in DOMAIN t /\ ForkOK(s, t, 1)
  <2>1. 1 \in DOMAIN t
    BY <1>1, TailFacts
  <2> QED
    BY <1>3, <1>4, <2>1, ElemKinds DEF MMPlan
<1>6. /\ Answerable(s, m.i1, MM) /\ m.i2 \in UserSlots /\ isemptyp(s, m.i2)
      /\ (\A p \in UserSlots : p < m.i2 => ~isemptyp(s, p))
      /\ (\A p \in UserSlots : ~isemptyp(s, p) => s.p_pid[p] # m.i3)
      /\ \A j \in DOMAIN t \ {1} :
           IsReply(t[j]) \/ IsCall(t[j], "TELL_FORK") \/ IsCall(t[j], "SYS_NEWMAP")
  BY <1>2, <1>5 DEF ForkOK
<1>7. /\ KInv(h) /\ OnUser(s, h, m.i2) /\ ~isemptyp(h, m.i2)
      /\ "RECEIVING" \in h.p_flags[m.i2] /\ "SENDING" \notin h.p_flags[m.i2]
      /\ h.p_getfrom[m.i2] = MM /\ h.p_pid[m.i2] = m.i3 /\ Open(h, m.i2) = 0
  <2>1. m.i3 \in Int
    BY <1>1 DEF Mess
  <2>2. KInv(s)
    BY DEF Good
  <2>3. /\ m.i1 \in UserSlots /\ ~isemptyp(s, m.i1) /\ "RECEIVING" \in s.p_flags[m.i1]
        /\ "SENDING" \notin s.p_flags[m.i1] /\ s.p_getfrom[m.i1] = MM
    BY <1>6 DEF Answerable
  <2>4. m.i2 \in UserSlots /\ isemptyp(s, m.i2)
    BY <1>6
  <2> QED
    BY <2>1, <2>2, <2>3, <2>4, ForkKeeps
<1>8. \A u \in UserSlots : u # m.i2 =>
        /\ SameUserCalls(s, h, u)
        /\ isemptyp(h, u) <=> isemptyp(s, u)
        /\ \A v : Answerable(h, u, v) <=> Answerable(s, u, v)
  BY <1>7, OnOthers
<1>9. Answerable(h, m.i2, MM) /\ ~(\E v : Answerable(s, m.i2, v))
  BY <1>6, <1>7 DEF Answerable
<1>10. \A u : Kid(t, u) <=> u = m.i2
  BY <1>1, <1>2, <1>4 DEF Kid
<1>11. \A u : Ends(L[MM], u) = {}
  <2> SUFFICES ASSUME NEW u, NEW i \in Ends(L[MM], u) PROVE FALSE
    OBVIOUS
  <2>1. i \in DOMAIN Tail(t) /\ L[MM][i].m.type = "SYS_ENDSIG"
    BY <1>1 DEF Ends
  <2>2. i \in 1..(Len(t) - 1) /\ Len(t) \in Nat /\ i + 1 \in DOMAIN t /\ Tail(t)[i] = t[i + 1]
    BY <1>1, <2>1, TailFacts
  <2>3. PICK j \in DOMAIN t \ {1} : t[j].m.type = "SYS_ENDSIG"
    BY <1>1, <2>1, <2>2
  <2>4. IsReply(t[j])
    BY <1>6, <2>3 DEF IsCall
  <2>5. ReplyOK(s, Z, t, j)
    BY <1>3, <2>3, <2>4, ElemKinds DEF MMPlan
  <2> QED
    BY <2>3, <2>5 DEF ReplyOK
<1>12. ASSUME NEW u \in UserSlots, ~isemptyp(h, u)
       PROVE  Open(h, u) = Cardinality(Ends(L[MM], u))
  <2>1. Cardinality(Ends(L[MM], u)) = 0
    BY <1>11, FS_EmptySet
  <2>2. CASE u = m.i2
    BY <1>7, <2>1, <2>2
  <2>3. CASE u # m.i2
    <3>1. ~isemptyp(s, u) /\ Open(h, u) = Open(s, u)
      BY <1>8, <1>12, <2>3 DEF SameUserCalls
    <3>2. ~EndsOne(t[1], u)
      BY <1>2 DEF EndsOne
    <3>3. Open(s, u) = Cardinality(Ends(L[MM], u)) + IF EndsOne(t[1], u) THEN 1 ELSE 0
      BY <3>1, OpenTail
    <3> QED
      BY <2>1, <3>1, <3>2, <3>3
  <2> QED
    BY <2>2, <2>3
<1>13. UserMess(s) /\ PidsDiffer(s) /\ PausedOK(s, Z)
  BY DEF Good, CInv, MailOK
<1>14. UserMess(h)
  <2>1. \A u \in UserSlots : u # m.i2 => SameUserCalls(s, h, u)
    BY <1>8
  <2> QED
    BY <1>7, <1>13, <2>1, OthersSay
<1>15. PidsDiffer(h)
  <2>1. \A u \in UserSlots :
          u # m.i2 => SameUserCalls(s, h, u) /\ (isemptyp(h, u) <=> isemptyp(s, u))
    BY <1>8
  <2>2. m.i2 \in UserSlots /\ h.p_pid[m.i2] = m.i3
    BY <1>6, <1>7
  <2>3. \A q \in UserSlots : q < m.i2 => ~isemptyp(s, q)
    BY <1>6
  <2>4. \A q \in UserSlots : ~isemptyp(s, q) => s.p_pid[q] # h.p_pid[m.i2]
    BY <1>6, <2>2
  <2> QED
    BY <1>13, <2>1, <2>2, <2>3, <2>4, OthersPids
<1>16. PausedOK(h, Z)
  <2>1. \A u : Answerable(s, u, MM) => u \in UserSlots /\ u # m.i2
    BY <1>6 DEF Answerable
  <2> QED
    BY <1>8, <1>13, <2>1 DEF PausedOK
<1>17. OffServers(s, h)
  BY <1>6, <1>7, OffUser
<1>18. UsersDone(s, h, P, L, Z, t)
  <2>1. ASSUME NEW u \in UserSlots
        PROVE  /\ Answerable(s, u, MM) \/ Kid(t, u) => Answerable(h, u, MM) \/ Finishes(t, u)
               /\ ~isemptyp(s, u) \/ Kid(t, u) =>
                    ~isemptyp(h, u) \/ (IsCall(t[1], "SYS_XIT") /\ t[1].m.i2 = u)
               /\ Serves(s, P, L, u) /\ Answerable(s, u, FS) => Answerable(h, u, FS)
    BY <1>7, <1>8, <1>9, <1>10
  <2> QED
    BY <1>12, <1>14, <1>15, <1>16, <2>1 DEF UsersDone
<1> QED
  BY <1>7, <1>17, <1>18

\* do_exec(): the process goes on without an answer.
LEMMA ExecDone ==
  ASSUME NEW s, NEW P, NEW L, NEW Z, NEW C, Good(s, P, L, Z, C), s.proc_ptr = SYSTASK,
         NEW t, Requested(s, P, L, Z, Known(s, P, C), t), TodoOK(s, P, Z, C, t),
         NEW m, m = s.mess[SYSTASK], m.type = "SYS_EXEC", NEW h, h = do_exec(s, m).k
  PROVE  KInv(h) /\ OffServers(s, h) /\ UsersDone(s, h, P, L, Z, t)
<1>1. /\ t \in Seq(Steps) /\ t # << >> /\ Tail(t) = L[MM] /\ t[1].m = From(m, HARDWARE)
      /\ t[1].how = "sendrec" /\ m \in Mess /\ WaitsFor(s, MM, SYSTASK)
  BY DEF Requested
<1>2. t[1].m.type = m.type /\ t[1].m.i1 = m.i1
  BY <1>1 DEF From, Mess
<1>3. MMPlan(s, Z, Known(s, P, C), t)
  BY DEF TodoOK
<1>4. IsCall(t[1], "SYS_EXEC")
  BY <1>1, <1>2 DEF IsCall
<1>5. 1 \in DOMAIN t /\ ExecOK(s, Z, t, 1)
  <2>1. 1 \in DOMAIN t
    BY <1>1, TailFacts
  <2> QED
    BY <1>3, <1>4, <2>1, ElemKinds DEF MMPlan
<1>6. /\ m.i1 \in UserSlots /\ ~isemptyp(s, m.i1) /\ "RECEIVING" \in s.p_flags[m.i1]
      /\ "SENDING" \notin s.p_flags[m.i1] /\ s.p_getfrom[m.i1] = MM /\ m.i1 \notin Z
  BY <1>2, <1>5 DEF ExecOK, Answerable
<1>7. /\ KInv(h) /\ OnUser(s, h, m.i1) /\ SameUser(s, h, m.i1)
      /\ Open(h, m.i1) = Open(s, m.i1)
  <2>1. KInv(s)
    BY DEF Good
  <2>2. s.p_getfrom[MM] # ANY
    BY <1>1, SystemProcs DEF WaitsFor
  <2> QED
    BY <1>6, <2>1, <2>2, ExecKeeps
<1>8. \A u \in UserSlots : u # m.i1 =>
        /\ SameUserCalls(s, h, u)
        /\ isemptyp(h, u) <=> isemptyp(s, u)
        /\ \A v : Answerable(h, u, v) <=> Answerable(s, u, v)
  BY <1>7, OnOthers
<1>9. \A u \in UserSlots :
        /\ isemptyp(h, u) <=> isemptyp(s, u)
        /\ Open(h, u) = Open(s, u) /\ h.p_pid[u] = s.p_pid[u]
  <2>1. \A u \in UserSlots : u # m.i1 =>
          /\ isemptyp(h, u) <=> isemptyp(s, u)
          /\ Open(h, u) = Open(s, u) /\ h.p_pid[u] = s.p_pid[u]
    BY <1>8 DEF SameUserCalls
  <2>2. isemptyp(h, m.i1) <=> isemptyp(s, m.i1)
    BY <1>7 DEF SameUser, isemptyp
  <2>3. Open(h, m.i1) = Open(s, m.i1) /\ h.p_pid[m.i1] = s.p_pid[m.i1]
    BY <1>7 DEF SameUser
  <2> QED
    BY <2>1, <2>2, <2>3
<1>10. \A u : ~Kid(t, u) /\ Finishes(t, u) /\ ~EndsOne(t[1], u)
  BY <1>2, <1>4 DEF Kid, Finishes, IsCall, EndsOne
<1>11. UserMess(s) /\ PidsDiffer(s) /\ PausedOK(s, Z)
  BY DEF Good, CInv, MailOK
<1>12. UserMess(h)
  <2>1. \A u \in UserSlots : u # m.i1 => SameUserCalls(s, h, u)
    BY <1>8
  <2>2. "SENDING" \notin h.p_flags[m.i1]
    BY <1>6, <1>7 DEF SameUser
  <2> QED
    BY <1>11, <2>1, <2>2, OthersSay
<1>13. PidsDiffer(h)
  <2> SUFFICES ASSUME NEW p \in UserSlots, NEW q \in UserSlots, ~isemptyp(h, p), q < p
               PROVE  h.p_pid[q] # h.p_pid[p]
    BY DEF PidsDiffer
  <2>1. ~isemptyp(s, p) /\ h.p_pid[p] = s.p_pid[p] /\ h.p_pid[q] = s.p_pid[q]
    BY <1>9
  <2>2. s.p_pid[q] # s.p_pid[p]
    BY <1>11, <2>1 DEF PidsDiffer
  <2> QED
    BY <2>1, <2>2
<1>14. PausedOK(h, Z)
  <2>1. \A u \in Z : u \in UserSlots /\ u # m.i1
    BY <1>6, <1>11 DEF PausedOK, Answerable
  <2> QED
    BY <1>8, <1>11, <2>1 DEF PausedOK
<1>15. OffServers(s, h)
  BY <1>6, <1>7, OffUser
<1>16. ASSUME NEW u \in UserSlots, ~isemptyp(h, u)
       PROVE  Open(h, u) = Cardinality(Ends(L[MM], u))
  <2>1. ~isemptyp(s, u) /\ Open(h, u) = Open(s, u) /\ ~EndsOne(t[1], u)
    BY <1>9, <1>10, <1>16
  <2>2. PICK c \in Nat : c = Cardinality(Ends(L[MM], u))
    BY <2>1, OpenTail
  <2>3. Open(s, u) = c + IF EndsOne(t[1], u) THEN 1 ELSE 0
    BY <2>1, <2>2, OpenTail
  <2> QED
    BY <2>1, <2>2, <2>3
<1>17. UsersDone(s, h, P, L, Z, t)
  <2>1. MM # FS
    BY SystemProcs
  <2>2. ASSUME NEW u \in UserSlots
        PROVE  /\ Answerable(s, u, MM) \/ Kid(t, u) => Answerable(h, u, MM) \/ Finishes(t, u)
               /\ ~isemptyp(s, u) \/ Kid(t, u) =>
                    ~isemptyp(h, u) \/ (IsCall(t[1], "SYS_XIT") /\ t[1].m.i2 = u)
               /\ Serves(s, P, L, u) /\ Answerable(s, u, FS) => Answerable(h, u, FS)
    <3>1. Answerable(s, u, FS) => Answerable(h, u, FS)
      <4>1. Answerable(s, u, FS) => u # m.i1
        BY <1>6, <2>1 DEF Answerable
      <4> QED
        BY <1>8, <4>1
    <3> QED
      BY <1>9, <1>10, <3>1
  <2> QED
    BY <1>12, <1>13, <1>14, <1>16, <2>2 DEF UsersDone
<1> QED
  BY <1>7, <1>15, <1>17

\* do_xit(): nobody has anything to do with the process any longer.
LEMMA XitDone ==
  ASSUME NEW s, NEW P, NEW L, NEW Z, NEW C, Good(s, P, L, Z, C), s.proc_ptr = SYSTASK,
         Busy(s, P, MM),
         NEW t, Requested(s, P, L, Z, Known(s, P, C), t), TodoOK(s, P, Z, C, t),
         NEW m, m = s.mess[SYSTASK], m.type = "SYS_XIT", NEW h, h = do_xit(s, m).k
  PROVE  KInv(h) /\ OffServers(s, h) /\ UsersDone(s, h, P, L, Z, t)
<1>1. /\ t \in Seq(Steps) /\ t # << >> /\ Tail(t) = L[MM] /\ t[1].m = From(m, HARDWARE)
      /\ t[1].how = "sendrec" /\ m \in Mess
  BY DEF Requested
<1>2. t[1].m.type = m.type /\ t[1].m.i2 = m.i2
  BY <1>1 DEF From, Mess
<1>3. MMPlan(s, Z, Known(s, P, C), t)
  BY DEF TodoOK
<1>4. IsCall(t[1], "SYS_XIT")
  BY <1>1, <1>2 DEF IsCall
<1>5. 1 \in DOMAIN t /\ XitOK(s, Known(s, P, C), t, 1)
  <2>1. 1 \in DOMAIN t
    BY <1>1, TailFacts
  <2> QED
    BY <1>3, <1>4, <2>1, ElemKinds DEF MMPlan
<1>6. m.i2 \in UserSlots /\ ~isemptyp(s, m.i2) /\ ~Serves(s, P, L, m.i2) /\ m.i2 \notin Z
  <2>1. Exiting(s, P, L, Z)
    BY DEF Good, CInv
  <2> QED
    BY <1>2, <1>5, <2>1 DEF XitOK, Exiting
<1>7. /\ KInv(h) /\ OnUser(s, h, m.i2) /\ isemptyp(h, m.i2)
      /\ h.p_flags[m.i2] = {} /\ h.p_pid = s.p_pid
  <2>1. KInv(s)
    BY DEF Good
  <2> QED
    BY <1>6, <2>1, XitKeeps
<1>8. \A u \in UserSlots : u # m.i2 =>
        /\ SameUserCalls(s, h, u)
        /\ isemptyp(h, u) <=> isemptyp(s, u)
        /\ \A v : Answerable(h, u, v) <=> Answerable(s, u, v)
  BY <1>7, OnOthers
<1>9. \A u : ~Kid(t, u) /\ ~EndsOne(t[1], u)
  BY <1>2, <1>4 DEF Kid, IsCall, EndsOne
<1>10. Finishes(t, m.i2)
  BY <1>2, <1>4 DEF Finishes
<1>11. UserMess(s) /\ PidsDiffer(s) /\ PausedOK(s, Z)
  BY DEF Good, CInv, MailOK
<1>12. UserMess(h)
  <2>1. \A u \in UserSlots : u # m.i2 => SameUserCalls(s, h, u)
    BY <1>8
  <2>2. "SENDING" \notin h.p_flags[m.i2]
    BY <1>7
  <2> QED
    BY <1>11, <2>1, <2>2, OthersSay
<1>13. PidsDiffer(h)
  <2> SUFFICES ASSUME NEW p \in UserSlots, NEW q \in UserSlots, ~isemptyp(h, p), q < p
               PROVE  h.p_pid[q] # h.p_pid[p]
    BY DEF PidsDiffer
  <2>1. ~isemptyp(s, p)
    BY <1>7, <1>8
  <2>2. s.p_pid[q] # s.p_pid[p]
    BY <1>11, <2>1 DEF PidsDiffer
  <2> QED
    BY <1>7, <2>2
<1>14. PausedOK(h, Z)
  <2>1. \A u \in Z : u \in UserSlots /\ u # m.i2
    BY <1>6, <1>11 DEF PausedOK, Answerable
  <2> QED
    BY <1>8, <1>11, <2>1 DEF PausedOK
<1>15. OffServers(s, h)
  BY <1>6, <1>7, OffUser
<1>16. ASSUME NEW u \in UserSlots, ~isemptyp(h, u)
       PROVE  Open(h, u) = Cardinality(Ends(L[MM], u))
  <2>1. ~isemptyp(s, u) /\ Open(h, u) = Open(s, u) /\ ~EndsOne(t[1], u)
    <3>1. u # m.i2
      BY <1>7, <1>16
    <3>2. SameUserCalls(s, h, u) /\ ~isemptyp(s, u)
      BY <1>8, <1>16, <3>1
    <3> QED
      BY <1>9, <3>2 DEF SameUserCalls
  <2>2. PICK c \in Nat : c = Cardinality(Ends(L[MM], u))
    BY <2>1, OpenTail
  <2>3. Open(s, u) = c + IF EndsOne(t[1], u) THEN 1 ELSE 0
    BY <2>1, <2>2, OpenTail
  <2> QED
    BY <2>1, <2>2, <2>3
<1>17. UsersDone(s, h, P, L, Z, t)
  <2>1. ASSUME NEW u \in UserSlots
        PROVE  /\ Answerable(s, u, MM) \/ Kid(t, u) => Answerable(h, u, MM) \/ Finishes(t, u)
               /\ ~isemptyp(s, u) \/ Kid(t, u) =>
                    ~isemptyp(h, u) \/ (IsCall(t[1], "SYS_XIT") /\ t[1].m.i2 = u)
               /\ Serves(s, P, L, u) /\ Answerable(s, u, FS) => Answerable(h, u, FS)
    BY <1>2, <1>4, <1>6, <1>8, <1>9, <1>10
  <2> QED
    BY <1>12, <1>13, <1>14, <1>16, <2>1 DEF UsersDone
<1> QED
  BY <1>7, <1>15, <1>17

\* A request that clears or sets another flag than those of waiting, or none
LEMMA FlagDone ==
  ASSUME NEW s, NEW P, NEW L, NEW Z, NEW C, Good(s, P, L, Z, C),
         NEW t, Requested(s, P, L, Z, Known(s, P, C), t), TodoOK(s, P, Z, C, t),
         ~IsCall(t[1], "SYS_FORK"), NEW h, NEW p \in UserSlots \cup {IDLE}, OnUser(s, h, p),
         p # IDLE =>
           /\ SameUser(s, h, p)
           /\ \A f \in {"SENDING", "RECEIVING"} : f \in h.p_flags[p] <=> f \in s.p_flags[p]
           /\ ~isemptyp(s, p) => Open(h, p) = Open(s, p) - IF EndsOne(t[1], p) THEN 1 ELSE 0,
         \A u \in UserSlots : u # p => ~EndsOne(t[1], u)
  PROVE  OffServers(s, h) /\ UsersDone(s, h, P, L, Z, t)
<1>1. SameCalls(s, h) /\ OffServers(s, h)
  BY FlagOnly, OffUser
<1>2. ASSUME NEW u \in UserSlots, ~isemptyp(s, u)
      PROVE  Open(h, u) = Open(s, u) - IF EndsOne(t[1], u) THEN 1 ELSE 0
  <2>1. CASE u = p
    <3>1. u # IDLE
      BY SystemProcs
    <3> QED
      BY <1>2, <2>1, <3>1
  <2>2. CASE u # p
    <3>1. Open(h, u) = Open(s, u) /\ ~EndsOne(t[1], u)
      <4>1. u \in UserSlots \ {p}
        BY <2>2
      <4> QED
        BY <2>2, <4>1 DEF OnUser
    <3>2. Open(s, u) \in Int
      <4>1. PICK c \in Nat : c = Cardinality(Ends(L[MM], u))
        BY <1>2, OpenTail
      <4>2. Open(s, u) = c + IF EndsOne(t[1], u) THEN 1 ELSE 0
        BY <1>2, <4>1, OpenTail
      <4> QED
        BY <4>1, <4>2
    <3> QED
      BY <3>1, <3>2
  <2> QED
    BY <2>1, <2>2
<1> QED
  BY <1>1, <1>2, CalmRequest

\* The flags of waiting are none of those that are cleared and set.
LEMMA KeepsWaiting ==
  ASSUME NEW s, NEW h, NEW p, NEW g \in SUBSET {"NO_MAP", "P_STOP"}, KeepsFlags(s, h, p, g)
  PROVE  \A f \in {"SENDING", "RECEIVING"} : f \in h.p_flags[p] <=> f \in s.p_flags[p]
<1>1. {"SENDING", "RECEIVING"} \subseteq Flags \ ({"PENDING", "SIG_PENDING"} \cup g)
  BY DEF Flags
<1> QED
  BY <1>1 DEF KeepsFlags

\* The requests of MM, one by one
LEMMA RequestDone ==
  ASSUME NEW s, NEW P, NEW L, NEW Z, NEW C, Good(s, P, L, Z, C), s.proc_ptr = SYSTASK,
         Busy(s, P, MM),
         NEW t, Requested(s, P, L, Z, Known(s, P, C), t), TodoOK(s, P, Z, C, t),
         NEW m, m = s.mess[SYSTASK], NEW h, h = sys_task(s, m).k
  PROVE  KInv(h) /\ OffServers(s, h) /\ UsersDone(s, h, P, L, Z, t)
<1>1. /\ t \in Seq(Steps) /\ t # << >> /\ Tail(t) = L[MM] /\ t[1].m = From(m, HARDWARE)
      /\ t[1].how = "sendrec" /\ m \in Mess /\ SysCallOK(s, Z, Known(s, P, C), t, 1)
  BY DEF Requested
<1>2. t[1].m.type = m.type /\ t[1].m.i1 = m.i1 /\ t[1].m.i2 = m.i2
  BY <1>1 DEF From, Mess
<1>3. KInv(s) /\ s \in KernelState
  BY DEF Good, KInv, Base
<1>4. \A type : IsCall(t[1], type) <=> m.type = type
  BY <1>1, <1>2 DEF IsCall
<1>5. \/ ForkOK(s, t, 1) \/ NewmapOK(s, t, 1) \/ ExecOK(s, Z, t, 1)
      \/ XitOK(s, Known(s, P, C), t, 1) \/ TraceOK(s, t, 1)
      \/ m.type = "SYS_ENDSIG" /\ m.i1 \in UserSlots
      \/ m.type \in {"SYS_SENDSIG", "SYS_GETPRI", "SYS_SETPRI"}
  BY <1>1, <1>2 DEF SysCallOK
<1>6. \A u : EndsOne(t[1], u) <=> m.type = "SYS_ENDSIG" /\ m.i1 = u
  BY <1>2 DEF EndsOne
<1>15. \A u \in UserSlots : ~isemptyp(s, u) =>
          Open(s, u) \in Int /\ (EndsOne(t[1], u) => Open(s, u) >= 1)
  <2> SUFFICES ASSUME NEW u \in UserSlots, ~isemptyp(s, u)
               PROVE  Open(s, u) \in Int /\ (EndsOne(t[1], u) => Open(s, u) >= 1)
    OBVIOUS
  <2>1. PICK c \in Nat : c = Cardinality(Ends(L[MM], u))
    BY OpenTail
  <2>2. Open(s, u) = c + IF EndsOne(t[1], u) THEN 1 ELSE 0
    BY <2>1, OpenTail
  <2> QED
    BY <2>1, <2>2
<1>16. IDLE \notin UserSlots
  BY SystemProcs
<1>7. CASE ForkOK(s, t, 1)
  <2>1. m.type = "SYS_FORK"
    BY <1>4, <1>7 DEF ForkOK
  <2>2. h = do_fork(s, m).k
    BY <2>1 DEF sys_task
  <2> QED
    BY <2>1, <2>2, ForkDone
<1>8. CASE ExecOK(s, Z, t, 1)
  <2>1. m.type = "SYS_EXEC"
    BY <1>4, <1>8 DEF ExecOK
  <2>2. h = do_exec(s, m).k
    BY <2>1 DEF sys_task
  <2> QED
    BY <2>1, <2>2, ExecDone
<1>9. CASE XitOK(s, Known(s, P, C), t, 1)
  <2>1. m.type = "SYS_XIT"
    BY <1>4, <1>9 DEF XitOK
  <2>2. h = do_xit(s, m).k
    BY <2>1 DEF sys_task
  <2> QED
    BY <2>1, <2>2, XitDone
<1>10. CASE NewmapOK(s, t, 1)
  <2>1. m.type = "SYS_NEWMAP" /\ m.i1 \in UserSlots /\ ~isemptyp(s, m.i1)
    BY <1>2, <1>4, <1>10 DEF NewmapOK
  <2>2. h = do_newmap(s, m).k
    BY <2>1 DEF sys_task
  <2>3. /\ KInv(h) /\ OnUser(s, h, m.i1) /\ SameUser(s, h, m.i1)
        /\ KeepsFlags(s, h, m.i1, {"NO_MAP"}) /\ Open(h, m.i1) = Open(s, m.i1)
    BY <1>3, <2>1, <2>2, NewmapKeeps
  <2>4. \A f \in {"SENDING", "RECEIVING"} : f \in h.p_flags[m.i1] <=> f \in s.p_flags[m.i1]
    BY <2>3, KeepsWaiting
  <2>5. ~isemptyp(s, m.i1) => Open(h, m.i1) = Open(s, m.i1) - IF EndsOne(t[1], m.i1) THEN 1 ELSE 0
    BY <1>6, <1>15, <2>1, <2>3
  <2>6. (\A u \in UserSlots : u # m.i1 => ~EndsOne(t[1], u)) /\ ~IsCall(t[1], "SYS_FORK")
    BY <1>4, <1>6, <2>1
  <2>7. m.i1 \in UserSlots \cup {IDLE}
    BY <2>1
  <2> QED
    BY <2>3, <2>4, <2>5, <2>6, <2>7, FlagDone
<1>11. CASE TraceOK(s, t, 1)
  <2>1. m.type = "SYS_TRACE" /\ m.i1 \in UserSlots
    BY <1>2, <1>4, <1>11 DEF TraceOK
  <2>2. m.i2 = T_STOP \/ (m.i2 = T_RESUME /\ "P_STOP" \in s.p_flags[m.i1])
    BY <1>2, <1>11 DEF TraceOK
  <2>3. h = do_trace(s, m).k
    BY <2>1 DEF sys_task
  <2>4. /\ KInv(h) /\ OnUser(s, h, m.i1) /\ SameUser(s, h, m.i1)
        /\ KeepsFlags(s, h, m.i1, {"P_STOP"}) /\ Open(h, m.i1) = Open(s, m.i1)
    BY <1>3, <2>1, <2>2, <2>3, TraceKeeps
  <2>5. \A f \in {"SENDING", "RECEIVING"} : f \in h.p_flags[m.i1] <=> f \in s.p_flags[m.i1]
    BY <2>4, KeepsWaiting
  <2>6. ~isemptyp(s, m.i1) => Open(h, m.i1) = Open(s, m.i1) - IF EndsOne(t[1], m.i1) THEN 1 ELSE 0
    BY <1>6, <1>15, <2>1, <2>4
  <2>7. (\A u \in UserSlots : u # m.i1 => ~EndsOne(t[1], u)) /\ ~IsCall(t[1], "SYS_FORK")
    BY <1>4, <1>6, <2>1
  <2>8. m.i1 \in UserSlots \cup {IDLE}
    BY <2>1
  <2> QED
    BY <2>4, <2>5, <2>6, <2>7, <2>8, FlagDone
<1>12. CASE m.type = "SYS_ENDSIG" /\ m.i1 \in UserSlots
  <2>1. h = do_endsig(s, m).k
    BY <1>12 DEF sys_task
  <2>2. ~isemptyp(s, m.i1) => Open(s, m.i1) >= 1
    BY <1>6, <1>12, <1>15
  <2>3. /\ KInv(h) /\ OnUser(s, h, m.i1) /\ SameUser(s, h, m.i1)
        /\ KeepsFlags(s, h, m.i1, {})
        /\ ~isemptyp(s, m.i1) => Open(h, m.i1) = Open(s, m.i1) - 1
    BY <1>3, <1>12, <2>1, <2>2, EndsigKeeps
  <2>4. \A f \in {"SENDING", "RECEIVING"} : f \in h.p_flags[m.i1] <=> f \in s.p_flags[m.i1]
    BY <2>3, KeepsWaiting
  <2>5. ~isemptyp(s, m.i1) => Open(h, m.i1) = Open(s, m.i1) - IF EndsOne(t[1], m.i1) THEN 1 ELSE 0
    BY <1>6, <1>12, <2>3
  <2>6. (\A u \in UserSlots : u # m.i1 => ~EndsOne(t[1], u)) /\ ~IsCall(t[1], "SYS_FORK")
    BY <1>4, <1>6, <1>12
  <2>7. m.i1 \in UserSlots \cup {IDLE}
    BY <1>12
  <2> QED
    BY <2>3, <2>4, <2>5, <2>6, <2>7, FlagDone
<1>13. CASE m.type \in {"SYS_SENDSIG", "SYS_GETPRI"}
  <2>1. h = s
    BY <1>13 DEF sys_task, do_getpri
  <2>2. OnUser(s, h, IDLE)
    BY <1>3, <2>1, OnUserSame
  <2>3. (\A u \in UserSlots : u # IDLE => ~EndsOne(t[1], u)) /\ ~IsCall(t[1], "SYS_FORK")
    BY <1>4, <1>6, <1>13
  <2>4. IDLE \in UserSlots \cup {IDLE}
    OBVIOUS
  <2> QED
    BY <1>3, <2>1, <2>2, <2>3, <2>4, FlagDone
<1>14. CASE m.type = "SYS_SETPRI"
  <2>1. h = do_setpri(s, m).k
    BY <1>14 DEF sys_task
  <2>2. m.i2 \in Int
    BY <1>1 DEF Mess
  <2>3. KInv(h) /\ OnUser(s, h, IDLE)
    BY <1>3, <2>1, <2>2, SetpriKeeps
  <2>4. (\A u \in UserSlots : u # IDLE => ~EndsOne(t[1], u)) /\ ~IsCall(t[1], "SYS_FORK")
    BY <1>4, <1>6, <1>14
  <2>5. IDLE \in UserSlots \cup {IDLE}
    OBVIOUS
  <2> QED
    BY <2>3, <2>4, <2>5, FlagDone
<1> QED
  BY <1>5, <1>7, <1>8, <1>9, <1>10, <1>11, <1>12, <1>13, <1>14

\* The result of a request is a number.
LEMMA ResultTyped ==
  ASSUME NEW s \in KernelState, NEW m
  PROVE  sys_task(s, m).r \in Int
<1>1. \/ sys_task(s, m) = do_fork(s, m) \/ sys_task(s, m) = do_newmap(s, m)
      \/ sys_task(s, m) = do_exec(s, m) \/ sys_task(s, m) = do_xit(s, m)
      \/ sys_task(s, m) = do_kill(s, m) \/ sys_task(s, m) = do_endsig(s, m)
      \/ sys_task(s, m) = do_trace(s, m) \/ sys_task(s, m) = do_getpri(s, m)
      \/ sys_task(s, m) = do_setpri(s, m) \/ sys_task(s, m) = [r |-> OK, k |-> s]
  <2>1. CASE m.type = "SYS_FORK"
    BY <2>1 DEF sys_task
  <2>2. CASE m.type = "SYS_NEWMAP"
    BY <2>2 DEF sys_task
  <2>3. CASE m.type = "SYS_EXEC"
    BY <2>3 DEF sys_task
  <2>4. CASE m.type = "SYS_XIT"
    BY <2>4 DEF sys_task
  <2>5. CASE m.type = "SYS_KILL"
    BY <2>5 DEF sys_task
  <2>6. CASE m.type = "SYS_ENDSIG"
    BY <2>6 DEF sys_task
  <2>7. CASE m.type = "SYS_TRACE"
    BY <2>7 DEF sys_task
  <2>8. CASE m.type = "SYS_GETPRI"
    BY <2>8 DEF sys_task
  <2>9. CASE m.type = "SYS_SETPRI"
    BY <2>9 DEF sys_task
  <2>10. CASE m.type \notin {"SYS_FORK", "SYS_NEWMAP", "SYS_EXEC", "SYS_XIT", "SYS_KILL", "SYS_ENDSIG", "SYS_TRACE", "SYS_GETPRI", "SYS_SETPRI"}
    <3>1. /\ m.type # "SYS_FORK" /\ m.type # "SYS_NEWMAP" /\ m.type # "SYS_EXEC"
          /\ m.type # "SYS_XIT" /\ m.type # "SYS_KILL" /\ m.type # "SYS_ENDSIG"
          /\ m.type # "SYS_TRACE" /\ m.type # "SYS_GETPRI" /\ m.type # "SYS_SETPRI"
      BY <2>10
    <3>2. sys_task(s, m) = [r |-> OK, k |-> s]
      BY <3>1 DEF sys_task
    <3> QED
      BY <3>2
  <2> QED
    BY <2>1, <2>2, <2>3, <2>4, <2>5, <2>6, <2>7, <2>8, <2>9, <2>10
<1>2. OK \in Int /\ E_BAD_PROC \in Int /\ EIO \in Int
  BY DEF OK, E_BAD_PROC, EIO
<1>3. do_fork(s, m).r = OK
  BY DEF do_fork
<1>4. do_newmap(s, m).r = OK
  BY DEF do_newmap
<1>5. do_exec(s, m).r = OK
  BY DEF do_exec
<1>6. do_xit(s, m).r = OK
  BY DEF do_xit
<1>7. do_kill(s, m).r = OK
  BY DEF do_kill
<1>8. do_endsig(s, m).r \in {OK, E_BAD_PROC}
  BY DEF do_endsig
<1>9. do_trace(s, m).r \in {OK, EIO}
  BY DEF do_trace
<1>10. do_setpri(s, m).r = OK
  BY DEF do_setpri
<1>11. do_getpri(s, m).r \in Int
  <2>1. CASE SlotsWithPid(s, m.i1) = {}
    BY <2>1 DEF do_getpri
  <2>2. CASE SlotsWithPid(s, m.i1) # {}
    <3>1. SlotsWithPid(s, m.i1) \subseteq Nat
      BY DEF SlotsWithPid, UserSlots, LOW_USER
    <3>2. FindPid(s, m.i1) \in SlotsWithPid(s, m.i1)
      BY <2>2, <3>1, LeastExists DEF FindPid
    <3>3. FindPid(s, m.i1) \in Slots
      BY <3>2, SystemProcs DEF SlotsWithPid
    <3>4. s.user_priority \in [Slots -> Int]
      BY DEF KernelState
    <3>5. do_getpri(s, m).r = s.user_priority[FindPid(s, m.i1)]
      BY <2>2 DEF do_getpri
    <3> QED
      BY <3>3, <3>4, <3>5
  <2> QED
    BY <2>1, <2>2
<1>12. [r |-> OK, k |-> s].r = OK
  OBVIOUS
<1> HIDE <1>1
<1> QED
  BY <1>1, <1>2, <1>3, <1>4, <1>5, <1>6, <1>7, <1>8, <1>9, <1>10, <1>11, <1>12

\* FS has the system task signal a writer.
LEMMA KillDone ==
  ASSUME NEW s, NEW P, NEW L, NEW Z, NEW C, Good(s, P, L, Z, C), s.proc_ptr = SYSTASK,
         Busy(s, P, FS), NEW h, h = sys_task(s, s.mess[SYSTASK]).k
  PROVE  KInv(h) /\ SigEffect(s, h)
<1>1. KInv(s) /\ CInv(s, P, L, Z, C)
  BY DEF Good
<1>2. PICK m : m = s.mess[SYSTASK]
  OBVIOUS
<1>3. m.type = "SYS_KILL" /\ m.i1 \in UserSlots /\ Serves(s, P, L, m.i1)
  BY <1>1, <1>2 DEF CInv, FSPlan
<1>4. ~isemptyp(s, m.i1)
  <2>1. Client(s, m.i1)
    BY <1>1, <1>3, SystemProcs DEF CInv, FSPlan
  <2> QED
    BY <1>3, <2>1, SystemProcs DEF Client, Answerable
<1>5. h = cause_sig(s, m.i1, "SIGPIPE")
  BY <1>2, <1>3 DEF sys_task, do_kill
<1>6. "SIGPIPE" \in Signals
  BY DEF Signals
<1> QED
  BY <1>1, <1>3, <1>4, <1>5, <1>6, CausesSig

\* FS has its answer; MM may hear of the signal.
LEMMA Killed ==
  ASSUME NEW s, NEW P, NEW L, NEW Z, NEW C, Good(s, P, L, Z, C), Busy(s, P, FS),
         NEW h, KInv(h), SigEffect(s, h),
         NEW m \in Mess, NEW n, RepliedIs(h, m, SYSTASK, FS, n), KInv(n),
         HeadsKept(h, n, HARDWARE),
         NEW P2 \in PcType, P2[SYSTASK] = "recv",
         \A x \in (Tasks \cup Servers) \ {SYSTASK} : P2[x] = P[x]
  PROVE  Good(n, P2, L, Z, C)
<1>1. KInv(s) /\ CInv(s, P, L, Z, C) /\ s \in KernelState /\ h \in KernelState
  BY DEF Good, KInv, Base
<1>2. TasksOK(s, P) /\ ServersOK(s, P, L) /\ TodoOK(s, P, Z, C, Todo(s, P, L))
  BY <1>1 DEF CInv
<1>3. WaitsFor(s, FS, SYSTASK) /\ ~Busy(s, P, MM)
      /\ s.p_flags[SYSTASK] = {} /\ s.proc_ptr = SYSTASK /\ ~s.p_int_blocked[SYSTASK]
  <2>1. SysState(s, P) /\ MM # FS
    BY <1>2, SystemProcs DEF TasksOK
  <2>2. s.p_flags[SYSTASK] = {} /\ ~Busy(s, P, MM)
    BY <2>1 DEF Busy
  <2>3. WaitsFor(s, FS, SYSTASK)
    BY <2>1 DEF SysState, Busy, IdleTask, DoneTask, WaitsFor
  <2> QED
    BY <2>1, <2>2, <2>3 DEF SysState
<1>4. P[FS] # "work" /\ s.p_flags[FS] = {"RECEIVING"} /\ s.p_getfrom[FS] = SYSTASK
  <2>1. SYSTASK # ANY /\ FS \in Servers
    BY SystemProcs
  <2> QED
    BY <1>2, <1>3, <2>1, ServerWaits
<1>5. /\ n.p_flags[FS] = h.p_flags[FS] \ {"RECEIVING"}
      /\ \A x \in Procs \ {FS} : n.p_flags[x] = h.p_flags[x]
      /\ \A x \in Procs \ {SYSTASK, FS} : n.mess[x] = h.mess[x]
      /\ n.p_getfrom = h.p_getfrom /\ n.p_priority = h.p_priority
      /\ n.p_int_blocked = h.p_int_blocked
      /\ \A u : Open(n, u) = Open(h, u)
  <2>1. SYSTASK \in Procs /\ FS \in Procs /\ SYSTASK # FS
    BY SystemProcs
  <2>2. Answered(h, m, SYSTASK, FS, n)
    BY <1>1, <2>1, RepliedFacts
  <2> QED
    BY <2>2 DEF Answered
<1>6. /\ h.p_getfrom = s.p_getfrom /\ h.p_int_blocked = s.p_int_blocked
      /\ h.p_priority = s.p_priority
      /\ (\A t \in Tasks \cup {FS} : h.p_flags[t] = s.p_flags[t])
      /\ (\A x \in Procs \ {MM, SYSTASK} : h.mess[x] = s.mess[x])
      /\ HeadsKept(s, h, HARDWARE)
  BY DEF SigEffect
<1>7. HeadsKept(s, n, HARDWARE) /\ (HeadFS(s) => HeadFS(n))
  <2>1. HeadsKept(s, n, HARDWARE)
    BY <1>1, <1>6, HeadsJoin
  <2> QED
    BY <1>1, <2>1, HeadsAll
<1>8. n.p_flags[FS] = {} /\ n.p_getfrom = s.p_getfrom /\ n.p_int_blocked = s.p_int_blocked
      /\ (\A t \in Tasks : n.p_flags[t] = s.p_flags[t])
      /\ n.mess[CLOCK] = s.mess[CLOCK]
      /\ \A x : isemptyp(n, x) <=> isemptyp(s, x)
  <2>1. \A t \in Tasks : t \in Procs \ {FS}
    BY SystemProcs
  <2>2. CLOCK \in Procs \ {SYSTASK, FS} /\ CLOCK \in Procs \ {MM, SYSTASK}
    BY SystemProcs
  <2> QED
    BY <1>4, <1>5, <1>6, <2>1, <2>2 DEF isemptyp
<1>9. CalmUsers(h, n)
  BY <1>1, RepliedCalm, SystemProcs
<1>10. Quiet(s, h) \/ Heard(s, h)
  BY DEF SigEffect
<1>11. n.p_flags[MM] = h.p_flags[MM] /\ n.mess[MM] = h.mess[MM]
  BY <1>5, SystemProcs
<1>12. TasksOK(n, P2)
  <2>1. SysState(n, P2)
    <3>1. n.proc_ptr = SYSTASK
      <4>1. HARDWARE # SYSTASK
        BY SystemProcs
      <4> QED
        BY <1>1, <1>3, <1>7, <4>1, SysRunsOn
    <3> QED
      BY <1>3, <1>8, <3>1, SystemProcs DEF SysState, DoneTask
  <2>2. ClockState(n, P2)
    <3>1. P2[CLOCK] = P[CLOCK] /\ n.p_flags[CLOCK] = s.p_flags[CLOCK]
      BY <1>8, SystemProcs
    <3>2. SetsAlarm(s) => SetsAlarm(n)
      <4>1. WaitsFor(s, MM, CLOCK) => WaitsFor(n, MM, CLOCK)
        <5>1. CASE Quiet(s, h)
          BY <1>8, <1>11, <5>1 DEF Quiet, WaitsFor
        <5>2. CASE Heard(s, h)
          BY <5>2, SystemProcs DEF Heard, WaitsFor
        <5> QED
          BY <1>10, <5>1, <5>2
      <4> QED
        BY <1>8, <4>1 DEF SetsAlarm
    <3> QED
      BY <1>2, <1>8, <3>1, <3>2 DEF TasksOK, ClockState, IdleTask, DoneTask, WaitsFor
  <2>3. DiskState(n, P2)
    <3>1. P2[DISK] = P[DISK] /\ n.p_flags[DISK] = s.p_flags[DISK]
      BY <1>8, SystemProcs
    <3>2. ~WaitsFor(s, FS, DISK)
      BY <1>4, SystemProcs DEF WaitsFor
    <3> QED
      BY <1>2, <1>8, <3>1, <3>2 DEF TasksOK, DiskState, IdleTask, DoneTask, WaitsFor
  <2> QED
    BY <2>1, <2>2, <2>3 DEF TasksOK
<1>13. \A w \in Servers : P2[w] = P[w] /\ ~Busy(n, P2, w)
  BY SystemProcs DEF Busy
<1>14. CASE Quiet(s, h)
  <2>1. CalmUsers(s, h) /\ SameServers(s, h)
    BY <1>14, SigCalm
  <2>2. CalmUsers(s, n)
    BY <1>9, <2>1, CalmJoins
  <2>3. /\ UsersStay(s, n) /\ (\A u, v : Answerable(n, u, v) <=> Answerable(s, u, v))
        /\ UserMess(n) /\ PidsDiffer(n) /\ PausedOK(n, Z)
    <3>1. UserMess(s) /\ PidsDiffer(s) /\ PausedOK(s, Z)
      BY <1>1 DEF CInv, MailOK
    <3> QED
      BY <2>2, <3>1, CalmStays
  <2>4. Todo(s, P, L) = L[MM]
    BY <1>3 DEF Todo
  <2>5. MMPlan(n, Z, Known(s, P, C), L[MM]) /\ (TellsFork(s, P) => NoXit(L[MM]))
    <3>1. MMPlan(s, Z, Known(s, P, C), L[MM])
      BY <1>2, <2>4 DEF TodoOK
    <3>2. Z \subseteq Z /\ Known(s, P, C) \subseteq Known(s, P, C)
      OBVIOUS
    <3>3. MMPlan(n, Z, Known(s, P, C), L[MM])
      BY <2>3, <3>1, <3>2, PlanStays
    <3> QED
      BY <1>2, <2>4, <3>3 DEF TodoOK
  <2>6. \A u \in UserSlots : ~isemptyp(n, u) =>
           Open(n, u) = Cardinality(Ends(L[MM], u)) + HasTold(s, P, u)
    BY <1>2, <1>8, <2>2, <2>4 DEF TodoOK, OpenOK, CalmUsers
  <2>7. n.p_flags[MM] = s.p_flags[MM] /\ n.mess[MM] = s.mess[MM]
    BY <1>11, <1>14, SystemProcs DEF Quiet
  <2>8. ASSUME NEW c \in Procs, Serves(s, P, L, c) PROVE Client(n, c)
    <3>1. Client(s, c)
      BY <1>1, <2>8 DEF CInv, FSPlan
    <3> QED
      BY <1>8, <2>3, <2>7, <3>1 DEF Client, WaitsFor
  <2>9. \A w \in Servers \ {FS} :
           /\ n.p_flags[w] = s.p_flags[w] /\ n.p_getfrom[w] = s.p_getfrom[w]
           /\ n.mess[w] = s.mess[w]
    BY <1>8, <2>7 DEF Servers
  <2>10. (\A u : Answerable(s, u, MM) => Answerable(n, u, MM)) /\ FS \in Servers
    BY <2>3, SystemProcs
  <2>11. UserMess(n) /\ PidsDiffer(n) /\ PausedOK(n, Z)
    BY <2>3
  <2>12. n.p_flags[FS] = {}
    BY <1>8
  <2>13. HeadFS(s) => HeadFS(n)
    BY <1>7
  <2> HIDE <2>3
  <2> QED
    BY <1>4, <1>12, <1>13, <2>5, <2>6, <2>8, <2>9, <2>10, <2>11, <2>12, <2>13, Answers
<1>15. CASE Heard(s, h)
  <2>1. Heard(s, n)
    <3>1. /\ s.p_flags[MM] = {"RECEIVING"} /\ s.p_getfrom[MM] = ANY /\ h.p_flags[MM] = {}
          /\ h.mess[MM].type = "KSIG" /\ h.mess[MM].i1 \in UserSlots
          /\ ~isemptyp(h, h.mess[MM].i1) /\ IsFiniteSet(h.mess[MM].map)
          /\ \A u \in UserSlots :
               Open(h, u) = Open(s, u) + IF u = h.mess[MM].i1 THEN Cardinality(h.mess[MM].map) ELSE 0
      BY <1>15 DEF Heard
    <3>2. isemptyp(n, n.mess[MM].i1) <=> isemptyp(h, h.mess[MM].i1)
      BY <1>5, <1>11 DEF isemptyp
    <3> QED
      BY <1>5, <1>11, <3>1, <3>2 DEF Heard
  <2>2. SameCalls(s, n)
    <3>1. \A u \in UserSlots : u \in Procs \ {MM, SYSTASK}
      BY SystemProcs
    <3>2. /\ h.p_priority = s.p_priority /\ h.p_sendto = s.p_sendto /\ h.p_pid = s.p_pid
          /\ \A x \in Procs \ {MM}, f \in Flags \ {"PENDING", "SIG_PENDING"} :
               f \in h.p_flags[x] <=> f \in s.p_flags[x]
      BY DEF SigEffect
    <3>3. {"SENDING", "RECEIVING"} \subseteq Flags \ {"PENDING", "SIG_PENDING"}
      BY DEF Flags
    <3> QED
      BY <1>6, <1>9, <3>1, <3>2, <3>3 DEF SameCalls, CalmUsers
  <2>3. P[FS] # "work" /\ n.p_flags[FS] = {} /\ s.p_flags[FS] = {"RECEIVING"}
        /\ n.p_getfrom[FS] = s.p_getfrom[FS]
    BY <1>4, <1>8
  <2>4. HeadFS(s) => HeadFS(n)
    BY <1>7
  <2> QED
    BY <1>12, <1>13, <2>1, <2>2, <2>3, <2>4, Hears
<1> QED
  BY <1>10, <1>14, <1>15

\* The system task works.
LEMMA SysWorks ==
  ASSUME Now, SysWork
  PROVE  Now'
<1>1. PICK h, r : /\ h = sys_task(k, k.mess[SYSTASK]).k /\ r = sys_task(k, k.mess[SYSTASK]).r
  OBVIOUS
<1>2. PICK m : m = [Message("REPLY", r, 0, 0) EXCEPT !.src = h.mess[SYSTASK].src]
  OBVIOUS
<1>3. /\ k.proc_ptr = SYSTASK /\ pc[SYSTASK] = "work"
      /\ k' = mini_send([h EXCEPT !.mess[SYSTASK] = m], SYSTASK, m.src, SYSTASK).k
      /\ pc' = [pc EXCEPT ![SYSTASK] = "recv"]
      /\ UNCHANGED <<load, plan, serverVars, clockVars>>
  BY <1>1, <1>2 DEF SysWork
<1>4. /\ KInv(k) /\ k \in KernelState /\ pc \in PcType /\ k.p_flags[SYSTASK] = {}
      /\ TasksOK(k, pc)
  BY <1>3, TaskRuns, SystemProcs
<1>5. PICK v \in Servers : Busy(k, pc, v) /\ WaitsFor(k, v, SYSTASK)
  BY <1>3, <1>4 DEF TasksOK, SysState, IdleTask, DoneTask, WaitsFor
<1>6. k.mess[SYSTASK].src = v
  BY <1>5 DEF Busy
<1>7. /\ pc' \in PcType /\ pc'[SYSTASK] = "recv"
      /\ \A x \in (Tasks \cup Servers) \ {SYSTASK} : pc'[x] = pc[x]
  BY <1>3, <1>4, SystemProcs DEF PcType
<1>8. /\ KInv(h) /\ HeadsKept(k, h, HARDWARE) /\ h.mess[SYSTASK].src = v
      /\ h.p_flags[v] = {"RECEIVING"} /\ h.p_getfrom[v] = SYSTASK
      /\ v = MM => /\ OffServers(k, h)
                   /\ UsersDone(k, h, pc, plan, paused, Todo(k, pc, plan))
      /\ v = FS => SigEffect(k, h)
  <2>1. Good(k, pc, plan, paused, closed)
    BY DEF Now
  <2>2. CASE v = MM
    <3>1. PICK t : t = Todo(k, pc, plan)
      OBVIOUS
    <3>2. Requested(k, pc, plan, paused, Known(k, pc, closed), t) /\ TodoOK(k, pc, paused, closed, t)
      BY <1>5, <2>1, <2>2, <3>1, RequestFacts
    <3>3. KInv(h) /\ OffServers(k, h) /\ UsersDone(k, h, pc, plan, paused, t)
      BY <1>1, <1>3, <1>5, <2>1, <2>2, <3>2, RequestDone
    <3>4. h.p_flags[v] = {"RECEIVING"} /\ h.p_getfrom[v] = SYSTASK
          /\ h.mess[SYSTASK].src = v /\ HeadsKept(k, h, HARDWARE)
      BY <1>5, <1>6, <3>3 DEF OffServers, WaitsFor
    <3>5. MM # FS
      BY SystemProcs
    <3> QED
      BY <2>2, <3>1, <3>3, <3>4, <3>5
  <2>3. CASE v = FS
    <3>1. KInv(h) /\ SigEffect(k, h)
      BY <1>1, <1>3, <1>5, <2>1, <2>3, KillDone
    <3>2. h.p_flags[v] = {"RECEIVING"} /\ h.p_getfrom[v] = SYSTASK
          /\ h.mess[SYSTASK].src = v /\ HeadsKept(k, h, HARDWARE)
      BY <1>5, <1>6, <2>3, <3>1 DEF SigEffect, WaitsFor
    <3>3. MM # FS
      BY SystemProcs
    <3> QED
      BY <2>3, <3>1, <3>2, <3>3
  <2> QED
    BY <2>2, <2>3 DEF Servers
<1>9. m \in Mess /\ m.src = v
  <2>1. r \in Int
    BY <1>1, <1>4, ResultTyped
  <2>2. PICK e \in Mess : e = Message("REPLY", r, 0, 0)
    BY <2>1, ReplyTyped
  <2>3. v \in Procs
    BY SystemProcs
  <2>4. m = [e EXCEPT !.src = v]
    BY <1>2, <1>8, <2>2
  <2> QED
    BY <2>3, <2>4 DEF Mess
<1>10. RepliedIs(h, m, SYSTASK, v, k') /\ KInv(k') /\ HeadsKept(h, k', HARDWARE)
  <2>1. h.proc_ptr = SYSTASK
    <3>1. HARDWARE # SYSTASK
      BY SystemProcs
    <3> QED
      BY <1>3, <1>4, <1>8, <3>1, SysRunsOn
  <2>2. ~isemptyp(h, v)
    <3>1. Classed(h.p_priority) /\ v \in Schedulable /\ v \notin UserSlots
      BY <1>8, ProcFacts DEF KInv, Base
    <3> QED
      BY <3>1, Classes
  <2>3. k' = mini_send([h EXCEPT !.mess[SYSTASK] = m], SYSTASK, v, SYSTASK).k
    BY <1>3, <1>9
  <2>4. SYSTASK \in Tasks \cup Servers /\ v \in Servers \cup UserSlots
    BY SystemProcs
  <2>5. "RECEIVING" \in h.p_flags[v] /\ "SENDING" \notin h.p_flags[v] /\ h.p_getfrom[v] = SYSTASK
    BY <1>8
  <2>6. m \in Mess /\ KInv(h)
    BY <1>8, <1>9
  <2> HIDE <1>1, <1>2, <1>3, <1>8, <1>9
  <2> QED
    BY <2>1, <2>2, <2>3, <2>4, <2>5, <2>6, Replies
<1> HIDE <1>1, <1>2
<1>11. Good(k', pc', plan, paused, closed)
  <2>1. Good(k, pc, plan, paused, closed) /\ m \in Mess /\ KInv(h)
    BY <1>8, <1>9 DEF Now
  <2>2. CASE v = MM
    <3>1. Busy(k, pc, MM) /\ RepliedIs(h, m, SYSTASK, MM, k') /\ KInv(k')
          /\ HeadsKept(h, k', HARDWARE)
      BY <1>5, <1>10, <2>2
    <3>2. OffServers(k, h) /\ UsersDone(k, h, pc, plan, paused, Todo(k, pc, plan))
      BY <1>8, <2>2
    <3> HIDE <1>3, <1>8
    <3> QED
      BY <1>7, <2>1, <3>1, <3>2, Handled
  <2>3. CASE v = FS
    <3>1. Busy(k, pc, FS) /\ RepliedIs(h, m, SYSTASK, FS, k') /\ KInv(k')
          /\ HeadsKept(h, k', HARDWARE)
      BY <1>5, <1>10, <2>3
    <3>2. SigEffect(k, h)
      BY <1>8, <2>3
    <3> HIDE <1>3, <1>8
    <3> QED
      BY <1>7, <2>1, <3>1, <3>2, Killed
  <2> QED
    BY <2>2, <2>3 DEF Servers
<1> QED
  BY <1>3, <1>11 DEF Now, serverVars
=============================================================================
