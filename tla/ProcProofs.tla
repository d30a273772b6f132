------------------------------ MODULE ProcProofs ------------------------------
(***************************************************************************)
(* The safety properties of Ipc, for any set of programs, process table,   *)
(* signals and priorities: queues and flags agree, no circle of senders is *)
(* closed, nothing that waits for a process is missed.  First what the     *)
(* operators of Proc do to lists and to chains of senders.                 *)
(*                                                                         *)
(* Then those of HeldInterrupts, for any set of tasks and any nesting of   *)
(* handlers.                                                               *)
(***************************************************************************)
EXTENDS Ipc, HeldInterrupts, FiniteSetTheorems, SequenceTheorems, TLAPS

-----------------------------------------------------------------------------
(* Induction over the natural numbers, for a set instead of a predicate     *)

\* A set that has 0, and with each number the next, has them all.
LEMMA SetInduction ==
  ASSUME NEW S, 0 \in S, \A n \in Nat : n \in S => n + 1 \in S
  PROVE  Nat \subseteq S
<1> DEFINE T == Nat \ S
<1> SUFFICES ASSUME T # {} PROVE FALSE
  OBVIOUS
<1>1. PICK x \in T : \A y \in T : ~ (<<y, x>> \in OpToRel(<, Nat))
  <2>1. T \subseteq Nat
    OBVIOUS
  <2> HIDE DEF T
  <2> QED
    BY <2>1, WFMin, NatLessThanWellFounded
<1>2. x \in Nat /\ x # 0
  OBVIOUS
<1>3. x - 1 \in Nat /\ (x - 1) + 1 = x /\ x - 1 < x
  BY <1>2
<1>4. <<x - 1, x>> \in OpToRel(<, Nat)
  BY <1>2, <1>3 DEF OpToRel
<1>5. x - 1 \in S
  BY <1>1, <1>3, <1>4
<1> QED
  BY <1>1, <1>3, <1>5

Iterates(f, S, d, R) ==
  f \in [Nat -> S] /\ f[0] = d /\ \A i \in Nat : f[i + 1] = R[f[i]]

\* A set of natural numbers that is not empty has a least element.
LEMMA LeastExists ==
  ASSUME NEW S, S \subseteq Nat, S # {}
  PROVE  Least(S) \in S
<1>1. PICK x \in S : \A y \in S : ~ (<<y, x>> \in OpToRel(<, Nat))
  BY WFMin, NatLessThanWellFounded
<1>2. ASSUME NEW y \in S PROVE x <= y
  <2>1. x \in Nat /\ y \in Nat
    OBVIOUS
  <2>2. y < x => <<y, x>> \in OpToRel(<, Nat)
    BY <2>1 DEF OpToRel
  <2>3. ~(y < x)
    BY <1>1, <2>2
  <2> QED
    BY <2>1, <2>3
<1> QED
  BY <1>2 DEF Least

\* A function that is defined from its value one place before exists.
LEMMA IterationExists ==
  ASSUME NEW S, NEW d \in S, NEW R \in [S -> S]
  PROVE  \E f : Iterates(f, S, d, R)
<1> DEFINE Upto(n) == {g \in [0..n -> S] :
                         g[0] = d /\ \A i \in 0..(n - 1) : g[i + 1] = R[g[i]]}
           T == {n \in Nat : Upto(n) # {}}
<1>1. 0 \in T
  <2>1. [i \in 0..0 |-> d] \in Upto(0)
    OBVIOUS
  <2> QED
    BY <2>1
<1>2. ASSUME NEW n \in Nat, n \in T
      PROVE  n + 1 \in T
  <2>1. PICK g : g \in Upto(n)
    BY <1>2
  <2>2. /\ g \in [0..n -> S] /\ g[0] = d
        /\ \A i \in 0..(n - 1) : g[i + 1] = R[g[i]]
    BY <2>1
  <2> DEFINE h == [i \in 0..(n + 1) |-> IF i = n + 1 THEN R[g[n]] ELSE g[i]]
  <2>3. h \in [0..(n + 1) -> S]
    BY <2>2
  <2>4. h[0] = d
    BY <2>2
  <2>5. ASSUME NEW i \in 0..n PROVE h[i + 1] = R[h[i]]
    <3>1. CASE i = n
      BY <3>1, <2>2
    <3>2. CASE i # n
      <4>1. i \in 0..(n - 1) /\ i + 1 # n + 1 /\ i # n + 1 /\ i + 1 \in 0..(n + 1)
        BY <3>2
      <4> QED
        BY <4>1, <2>2
    <3> QED
      BY <3>1, <3>2
  <2>6. 0..((n + 1) - 1) = 0..n
    OBVIOUS
  <2>7. h \in Upto(n + 1)
    <3> HIDE DEF h
    <3> QED
      BY <2>3, <2>4, <2>5, <2>6
  <2> QED
    BY <2>7
<1>3. \A n \in Nat : Upto(n) # {}
  <2>1. Nat \subseteq T
    <3> HIDE DEF T
    <3> QED
      BY <1>1, <1>2, SetInduction
  <2> QED
    BY <2>1
<1>4. ASSUME NEW m \in Nat, NEW n \in Nat, NEW g \in Upto(m), NEW h \in Upto(n)
      PROVE  \A i \in Nat : (i <= m /\ i <= n) => g[i] = h[i]
  <2> DEFINE U == {i \in Nat : (i <= m /\ i <= n) => g[i] = h[i]}
  <2>1. 0 \in U
    OBVIOUS
  <2>2. ASSUME NEW i \in Nat, i \in U
        PROVE  i + 1 \in U
    <3>1. ASSUME i + 1 <= m, i + 1 <= n
          PROVE  g[i + 1] = h[i + 1]
      <4>1. i \in 0..(m - 1) /\ i \in 0..(n - 1) /\ i <= m /\ i <= n
        BY <3>1
      <4>2. g[i + 1] = R[g[i]] /\ h[i + 1] = R[h[i]]
        BY <4>1
      <4>3. g[i] = h[i]
        BY <2>2, <4>1
      <4> QED
        BY <4>2, <4>3
    <3> QED
      BY <3>1
  <2>3. Nat \subseteq U
    <3> HIDE DEF U
    <3> QED
      BY <2>1, <2>2, SetInduction
  <2> QED
    BY <2>3
<1> DEFINE G(n) == CHOOSE g : g \in Upto(n)
           f == [n \in Nat |-> G(n)[n]]
<1>5. \A n \in Nat : G(n) \in Upto(n)
  <2> HIDE DEF Upto
  <2> QED
    BY <1>3
<1>6. \A n \in Nat : G(n) \in [0..n -> S] /\ G(n)[0] = d
  <2> HIDE DEF G
  <2> QED
    BY <1>5
<1>7. f \in [Nat -> S] /\ f[0] = d
  <2> HIDE DEF G
  <2> QED
    BY <1>6
<1>8. ASSUME NEW i \in Nat PROVE f[i + 1] = R[f[i]]
  <2>1. G(i + 1) \in Upto(i + 1) /\ G(i) \in Upto(i)
    <3>1. i + 1 \in Nat
      OBVIOUS
    <3> HIDE DEF Upto, G
    <3> QED
      BY <1>5, <3>1
  <2>2. G(i + 1)[i] = G(i)[i]
    <3> HIDE DEF Upto, G
    <3> QED
      BY <1>4, <2>1
  <2>3. G(i + 1)[i + 1] = R[G(i + 1)[i]]
    <3> HIDE DEF G
    <3>1. i \in 0..((i + 1) - 1)
      OBVIOUS
    <3> QED
      BY <2>1, <3>1
  <2> HIDE DEF G
  <2> QED
    BY <2>2, <2>3
<1> QED
  <2> HIDE DEF f
  <2> QED
    BY <1>7, <1>8 DEF Iterates
-----------------------------------------------------------------------------
(* The chain of senders *)

Receiver(s, p) == IF "SENDING" \in s.p_flags[p] THEN s.p_sendto[p] ELSE p
ChainFrom(s, d) ==
  CHOOSE f : f = [i \in Nat |-> IF i = 0 THEN d ELSE Receiver(s, f[i - 1])]

\* The chain of a process that is SENDING, as the values of one function
LEMMA ChainUnfolds ==
  ASSUME NEW s, NEW d, "SENDING" \in s.p_flags[d]
  PROVE  SendChain(s, d) = {ChainFrom(s, d)[i] : i \in 1..Cardinality(Procs)}
BY DEF SendChain, ChainFrom, Receiver

\* What a chain that does not come to c is like.
LEMMA ChainProceeds ==
  ASSUME NEW s, NEW d \in Procs, NEW c,
         s.p_sendto \in [Procs -> Procs],
         c \notin SendChain(s, d)
  PROVE  \E f \in [Nat -> Procs] :
           /\ f[0] = d
           /\ \A i \in Nat : f[i + 1] = Receiver(s, f[i])
           /\ "SENDING" \in s.p_flags[d] =>
                \A i \in 1..Cardinality(Procs) : f[i] # c
<1> DEFINE R == [p \in Procs |-> Receiver(s, p)]
           Rule(f) == f = [i \in Nat |-> IF i = 0 THEN d ELSE Receiver(s, f[i - 1])]
<1>1. R \in [Procs -> Procs]
  BY DEF Receiver
<1>2. PICK f \in [Nat -> Procs] : f[0] = d /\ \A i \in Nat : f[i + 1] = R[f[i]]
  <2>1. \E f : Iterates(f, Procs, d, R)
    <3> HIDE DEF R
    <3> QED
      BY <1>1, IterationExists
  <2> QED
    BY <2>1 DEF Iterates
<1>3. Rule(f)
  <2>1. ASSUME NEW i \in Nat
        PROVE  f[i] = IF i = 0 THEN d ELSE Receiver(s, f[i - 1])
    <3>1. CASE i = 0
      BY <3>1, <1>2
    <3>2. CASE i # 0
      <4>1. i - 1 \in Nat /\ (i - 1) + 1 = i
        BY <3>2
      <4>2. f[i] = R[f[i - 1]] /\ f[i - 1] \in Procs
        BY <4>1, <1>2
      <4> QED
        BY <3>2, <4>2
    <3> QED
      BY <3>1, <3>2
  <2>2. f = [i \in Nat |-> f[i]]
    BY <1>2
  <2> QED
    BY <2>1, <2>2
<1>4. Rule(ChainFrom(s, d))
  <2>1. ChainFrom(s, d) = CHOOSE g : Rule(g)
    BY DEF ChainFrom
  <2> HIDE DEF Rule
  <2> QED
    BY <1>3, <2>1
<1>5. PICK g : g = ChainFrom(s, d)
  OBVIOUS
<1>6. \A i \in Nat : g[i] = IF i = 0 THEN d ELSE Receiver(s, g[i - 1])
  BY <1>4, <1>5
<1>7. \A i \in Nat : g[i + 1] = Receiver(s, g[i])
  <2>1. \A i \in Nat : i + 1 \in Nat /\ i + 1 # 0 /\ (i + 1) - 1 = i
    OBVIOUS
  <2> QED
    BY <1>6, <2>1
<1>8. g \in [Nat -> Procs]
  <2> DEFINE T == {i \in Nat : g[i] \in Procs}
  <2>1. 0 \in T
    BY <1>6
  <2>2. \A i \in Nat : i \in T => i + 1 \in T
    BY <1>7 DEF Receiver
  <2>3. Nat \subseteq T
    <3> HIDE DEF T
    <3> QED
      BY <2>1, <2>2, SetInduction
  <2>4. g = [i \in Nat |-> g[i]]
    BY <1>4, <1>5
  <2> QED
    BY <2>3, <2>4
<1>9. "SENDING" \in s.p_flags[d] => \A i \in 1..Cardinality(Procs) : g[i] # c
  BY <1>5, ChainUnfolds
<1> QED
  BY <1>6, <1>7, <1>8, <1>9

\* The process table is finite.
LEMMA ProcsFinite == IsFiniteSet(Procs) /\ Cardinality(Procs) \in Nat
<1>1. IsFiniteSet(Slots)
  BY ProcAssumption, FS_Interval DEF Slots
<1>2. IsFiniteSet({DISK, CLOCK, SYSTASK, IDLE, HARDWARE})
  <2>1. IsFiniteSet({DISK})
    BY FS_Singleton
  <2>2. IsFiniteSet({DISK} \cup {CLOCK})
    BY <2>1, FS_AddElement
  <2>3. IsFiniteSet(({DISK} \cup {CLOCK}) \cup {SYSTASK})
    BY <2>2, FS_AddElement
  <2>4. IsFiniteSet((({DISK} \cup {CLOCK}) \cup {SYSTASK}) \cup {IDLE})
    BY <2>3, FS_AddElement
  <2>5. IsFiniteSet(((({DISK} \cup {CLOCK}) \cup {SYSTASK}) \cup {IDLE})
                      \cup {HARDWARE})
    BY <2>4, FS_AddElement
  <2>6. ((({DISK} \cup {CLOCK}) \cup {SYSTASK}) \cup {IDLE}) \cup {HARDWARE}
          = {DISK, CLOCK, SYSTASK, IDLE, HARDWARE}
    OBVIOUS
  <2> QED
    BY <2>5, <2>6
<1>3. Procs = {DISK, CLOCK, SYSTASK, IDLE, HARDWARE} \cup Slots
  BY DEF Procs, Tasks
<1>4. IsFiniteSet(Procs)
  BY <1>1, <1>2, <1>3, FS_Union
<1> QED
  BY <1>4, FS_CardinalityType

\* A chain as long as there are processes comes to one of them twice.
LEMMA ChainComesBack ==
  ASSUME NEW f \in [Nat -> Procs]
  PROVE  \E i, j \in 0..Cardinality(Procs) : i < j /\ f[i] = f[j]
<1> DEFINE N == Cardinality(Procs)
           g == [i \in 0..N |-> f[i]]
<1>2. N \in Nat
  BY ProcsFinite
<1>3. IsFiniteSet(0..N) /\ Cardinality(0..N) = N + 1
  BY <1>2, FS_Interval
<1> HIDE DEF N
<1>4. g \in [0..N -> Procs]
  BY <1>2
<1>5. \E i, j \in 0..N : i # j /\ g[i] = g[j]
  <2>1. N < Cardinality(0..N)
    BY <1>2, <1>3
  <2> HIDE DEF g
  <2> QED
    BY <1>3, <1>4, <2>1, ProcsFinite, FS_PigeonHole DEF N
<1>6. PICK i \in 0..N, j \in 0..N : i # j /\ f[i] = f[j]
  BY <1>5
<1> QED
  BY <1>2, <1>6 DEF N
-----------------------------------------------------------------------------
(* Lists *)

Distinct(s) == \A i, j \in DOMAIN s : s[i] = s[j] => i = j

\* A process that joins the end of a list
LEMMA AppendList ==
  ASSUME NEW S, NEW s \in Seq(S), NEW p \in S
  PROVE  LET n == Append(s, p)
         IN /\ n \in Seq(S) /\ n # << >>
            /\ \A x : OnList(n, x) <=> OnList(s, x) \/ x = p
            /\ Distinct(s) /\ ~OnList(s, p) => Distinct(n)
            /\ Head(n) = IF s = << >> THEN p ELSE Head(s)
<1> DEFINE n == Append(s, p)
<1>1. /\ n \in Seq(S) /\ Len(n) = Len(s) + 1 /\ Len(s) \in Nat
      /\ DOMAIN n = 1..(Len(s) + 1) /\ DOMAIN s = 1..Len(s)
      /\ n[Len(s) + 1] = p
      /\ \A i \in 1..Len(s) : n[i] = s[i]
  OBVIOUS
<1>2. n # << >>
  BY <1>1
<1> HIDE DEF n
<1>3. \A i : i \in 1..(Len(s) + 1) <=> i \in 1..Len(s) \/ i = Len(s) + 1
  BY <1>1
<1>4. \A x : OnList(n, x) <=> OnList(s, x) \/ x = p
  BY <1>1, <1>3 DEF OnList
<1>5. ASSUME Distinct(s), ~OnList(s, p) PROVE Distinct(n)
  BY <1>1, <1>3, <1>5 DEF Distinct, OnList
<1>6. Head(n) = IF s = << >> THEN p ELSE Head(s)
  <2>1. Head(n) = n[1]
    BY <1>1, <1>2
  <2>2. CASE s = << >>
    <3>1. Len(s) = 0
      BY <2>2
    <3> QED
      BY <2>1, <2>2, <3>1, <1>1
  <2>3. CASE s # << >>
    <3>1. Len(s) > 0 /\ Head(s) = s[1]
      BY <2>3
    <3> QED
      BY <2>1, <2>3, <3>1, <1>1
  <2> QED
    BY <2>2, <2>3
<1> QED
  BY <1>1, <1>2, <1>4, <1>5, <1>6 DEF n

\* A process that joins the front of a list
LEMMA ConsList ==
  ASSUME NEW S, NEW s \in Seq(S), NEW p \in S
  PROVE  LET n == <<p>> \o s
         IN /\ n \in Seq(S) /\ n # << >> /\ Head(n) = p
            /\ \A x : OnList(n, x) <=> OnList(s, x) \/ x = p
            /\ Distinct(s) /\ ~OnList(s, p) => Distinct(n)
<1> DEFINE n == <<p>> \o s
<1>1. /\ n \in Seq(S) /\ Len(n) = Len(s) + 1 /\ Len(s) \in Nat
      /\ DOMAIN n = 1..(Len(s) + 1) /\ DOMAIN s = 1..Len(s)
      /\ n[1] = p
      /\ \A i \in 1..Len(s) : n[i + 1] = s[i]
  OBVIOUS
<1>2. n # << >> /\ Head(n) = p
  BY <1>1
<1> HIDE DEF n
<1>3. \A i \in 1..(Len(s) + 1) :
        i = 1 \/ (i - 1 \in 1..Len(s) /\ (i - 1) + 1 = i)
  BY <1>1
<1>4. \A i \in 1..Len(s) : i + 1 \in 1..(Len(s) + 1)
  BY <1>1
<1>5. \A x : OnList(n, x) <=> OnList(s, x) \/ x = p
  <2>1. ASSUME NEW x, OnList(n, x) PROVE OnList(s, x) \/ x = p
    <3>1. PICK i \in 1..(Len(s) + 1) : n[i] = x
      BY <1>1, <2>1 DEF OnList
    <3>2. CASE i = 1
      BY <1>1, <3>1, <3>2
    <3>3. CASE i - 1 \in 1..Len(s) /\ (i - 1) + 1 = i
      <4>1. s[i - 1] = x
        BY <1>1, <3>1, <3>3
      <4> QED
        BY <1>1, <3>3, <4>1 DEF OnList
    <3> QED
      BY <1>3, <3>2, <3>3
  <2>2. ASSUME NEW x, OnList(s, x) PROVE OnList(n, x)
    <3>1. PICK i \in 1..Len(s) : s[i] = x
      BY <1>1, <2>2 DEF OnList
    <3>2. i + 1 \in DOMAIN n /\ n[i + 1] = x
      BY <1>1, <3>1
    <3> QED
      BY <3>2 DEF OnList
  <2>3. OnList(n, p)
    <3>1. 1 \in DOMAIN n
      BY <1>1
    <3> QED
      BY <1>1, <3>1 DEF OnList
  <2> QED
    BY <2>1, <2>2, <2>3
<1>6. ASSUME Distinct(s), ~OnList(s, p) PROVE Distinct(n)
  <2>1. \A i \in 1..Len(s) : s[i] # p
    BY <1>1, <1>6 DEF OnList
  <2>2. ASSUME NEW i \in 1..(Len(s) + 1), NEW j \in 1..(Len(s) + 1), n[i] = n[j]
        PROVE  i = j
    <3>1. CASE i = 1 \/ j = 1
      <4>1. ASSUME NEW a \in 1..(Len(s) + 1), n[a] = p PROVE a = 1
        <5>1. CASE a - 1 \in 1..Len(s) /\ (a - 1) + 1 = a
          <6>1. n[a] = s[a - 1]
            BY <1>1, <5>1
          <6> QED
            BY <2>1, <4>1, <5>1, <6>1
        <5> QED
          BY <1>3, <5>1
      <4>2. n[i] = p /\ n[j] = p
        BY <1>1, <2>2, <3>1
      <4> QED
        BY <4>1, <4>2
    <3>2. CASE i # 1 /\ j # 1
      <4>1. /\ i - 1 \in 1..Len(s) /\ j - 1 \in 1..Len(s)
            /\ n[i] = s[i - 1] /\ n[j] = s[j - 1]
        BY <1>1, <1>3, <3>2
      <4>2. i - 1 = j - 1
        BY <1>1, <1>6, <2>2, <4>1 DEF Distinct
      <4> QED
        BY <4>2
    <3> QED
      BY <3>1, <3>2
  <2> QED
    BY <1>1, <2>2 DEF Distinct
<1> QED
  BY <1>1, <1>2, <1>5, <1>6 DEF n

\* A process that is taken out of a list
LEMMA RemoveIndexList ==
  ASSUME NEW S, NEW s \in Seq(S), NEW i \in DOMAIN s
  PROVE  LET n == RemoveIndex(s, i)
         IN /\ n \in Seq(S)
            /\ Distinct(s) => /\ Distinct(n)
                              /\ \A x : OnList(n, x) <=> OnList(s, x) /\ x # s[i]
            /\ i # 1 => n # << >> /\ Head(n) = Head(s)
<1> DEFINE n == RemoveIndex(s, i)
<1>1. /\ Len(s) \in Nat /\ DOMAIN s = 1..Len(s) /\ i \in 1..Len(s)
      /\ Len(s) - 1 \in Nat
  OBVIOUS
<1>2. /\ DOMAIN n = 1..(Len(s) - 1)
      /\ \A j \in 1..(Len(s) - 1) : n[j] = IF j < i THEN s[j] ELSE s[j + 1]
      /\ n \in [1..(Len(s) - 1) -> S]
  <2>1. \A j \in 1..(Len(s) - 1) : j \in 1..Len(s) /\ j + 1 \in 1..Len(s)
    BY <1>1
  <2>2. \A j \in 1..Len(s) : s[j] \in S
    BY <1>1
  <2> QED
    BY <2>1, <2>2 DEF RemoveIndex
<1>3. n \in Seq(S) /\ Len(n) = Len(s) - 1
  <2>1. n \in Seq(S)
    <3> HIDE DEF n
    <3> QED
      BY <1>1, <1>2, SeqDef
  <2>2. Len(n) \in Nat /\ DOMAIN n = 1..Len(n)
    <3> HIDE DEF n
    <3> QED
      BY <2>1
  <2>3. \A a, b \in Nat : 1..a = 1..b => a = b
    <3>1. ASSUME NEW a \in Nat, NEW b \in Nat, 1..a = 1..b PROVE a <= b
      <4>1. a = 0 \/ a \in 1..a
        OBVIOUS
      <4> QED
        BY <3>1, <4>1
    <3>2. ASSUME NEW a \in Nat, NEW b \in Nat, 1..a = 1..b PROVE b <= a
      <4>1. b = 0 \/ b \in 1..b
        OBVIOUS
      <4> QED
        BY <3>2, <4>1
    <3> QED
      BY <3>1, <3>2
  <2> HIDE DEF n
  <2> QED
    BY <1>1, <1>2, <2>1, <2>2, <2>3
<1> HIDE DEF n
<1> DEFINE from(j) == IF j < i THEN j ELSE j + 1
<1>4. \A j \in DOMAIN n : from(j) \in DOMAIN s /\ from(j) # i /\ n[j] = s[from(j)]
  BY <1>1, <1>2
<1>5. \A j1, j2 \in DOMAIN n : from(j1) = from(j2) => j1 = j2
  BY <1>1, <1>2
<1>6. \A j \in DOMAIN s : j # i => \E h \in DOMAIN n : from(h) = j
  <2>1. ASSUME NEW j \in 1..Len(s), j # i
        PROVE  \E h \in 1..(Len(s) - 1) : from(h) = j
    <3>1. CASE j < i
      <4>1. j \in 1..(Len(s) - 1) /\ from(j) = j
        BY <1>1, <3>1
      <4> QED
        BY <4>1
    <3>2. CASE j > i
      <4>1. j - 1 \in 1..(Len(s) - 1) /\ from(j - 1) = j
        BY <1>1, <3>2
      <4> QED
        BY <4>1
    <3> QED
      BY <1>1, <2>1, <3>1, <3>2
  <2> QED
    BY <1>1, <1>2, <2>1
<1>7. ASSUME i # 1
      PROVE  n # << >> /\ Head(n) = Head(s)
  <2>1. Len(s) - 1 >= 1 /\ 1 < i /\ 1 \in 1..(Len(s) - 1)
    BY <1>1, <1>7
  <2>2. n # << >> /\ Head(n) = n[1] /\ Head(s) = s[1]
    BY <1>1, <1>3, <2>1
  <2> QED
    BY <1>2, <2>1, <2>2
<1> HIDE DEF from
<1>8. ASSUME Distinct(s)
      PROVE  /\ Distinct(n)
             /\ \A x : OnList(n, x) <=> OnList(s, x) /\ x # s[i]
  <2>1. Distinct(n)
    BY <1>4, <1>5, <1>8 DEF Distinct
  <2>2. ASSUME NEW x, OnList(n, x) PROVE OnList(s, x) /\ x # s[i]
    BY <1>1, <1>4, <1>8, <2>2 DEF OnList, Distinct
  <2>3. ASSUME NEW x, OnList(s, x), x # s[i] PROVE OnList(n, x)
    BY <1>4, <1>6, <2>3 DEF OnList
  <2> QED
    BY <2>1, <2>2, <2>3
<1> QED
  BY <1>3, <1>7, <1>8 DEF n

\* A process that is taken out of a list wherever it is
LEMMA UnlinkList ==
  ASSUME NEW S, NEW s \in Seq(S), NEW p, Distinct(s)
  PROVE  LET n == Unlink(s, p)
         IN /\ n \in Seq(S) /\ Distinct(n)
            /\ \A x : OnList(n, x) <=> OnList(s, x) /\ x # p
            /\ s # << >> /\ Head(s) # p => n # << >> /\ Head(n) = Head(s)
<1>1. CASE ~OnList(s, p)
  BY <1>1 DEF Unlink
<1>2. CASE OnList(s, p)
  <2>1. PICK i \in DOMAIN s : s[i] = p
    BY <1>2 DEF OnList
  <2>2. \A j \in DOMAIN s : s[j] = p => i <= j
    <3>1. DOMAIN s \subseteq Nat
      OBVIOUS
    <3> QED
      BY <2>1, <3>1 DEF Distinct
  <2>3. i = CHOOSE h \in DOMAIN s : s[h] = p /\ \A j \in DOMAIN s : s[j] = p => h <= j
    BY <2>1, <2>2 DEF Distinct
  <2>4. Unlink(s, p) = RemoveIndex(s, i)
    BY <1>2, <2>3 DEF Unlink
  <2>5. i = 1 \/ Head(s) = s[1]
    OBVIOUS
  <2>6. s # << >> /\ Head(s) # p => i # 1
    BY <2>1
  <2> QED
    BY <2>1, <2>4, <2>6, RemoveIndexList
<1> QED
  BY <1>1, <1>2

\* The head of a list that goes to its end
LEMMA RotateList ==
  ASSUME NEW S, NEW s \in Seq(S), s # << >>, Distinct(s)
  PROVE  LET n == Append(Tail(s), Head(s))
         IN /\ n \in Seq(S) /\ Distinct(n) /\ n # << >>
            /\ \A x : OnList(n, x) <=> OnList(s, x)
<1>1. /\ Len(s) \in Nat /\ Len(s) > 0 /\ DOMAIN s = 1..Len(s)
      /\ Head(s) = s[1] /\ Head(s) \in S /\ Tail(s) \in Seq(S)
      /\ DOMAIN Tail(s) = 1..(Len(s) - 1)
      /\ \A i \in 1..(Len(s) - 1) : Tail(s)[i] = s[i + 1]
  OBVIOUS
<1>2. Distinct(Tail(s)) /\ ~OnList(Tail(s), Head(s))
  <2>1. \A i \in 1..(Len(s) - 1) : i + 1 \in 1..Len(s) /\ i + 1 # 1
    BY <1>1
  <2>2. 1 \in 1..Len(s)
    BY <1>1
  <2>3. ASSUME NEW i \in 1..(Len(s) - 1), NEW j \in 1..(Len(s) - 1),
               Tail(s)[i] = Tail(s)[j]
        PROVE  i = j
    <3>1. i + 1 = j + 1
      BY <1>1, <2>1, <2>3 DEF Distinct
    <3> QED
      BY <3>1
  <2> QED
    BY <1>1, <2>1, <2>2, <2>3 DEF Distinct, OnList
<1>3. \A x : OnList(s, x) <=> OnList(Tail(s), x) \/ x = Head(s)
  <2>1. ASSUME NEW x, OnList(s, x), x # Head(s) PROVE OnList(Tail(s), x)
    <3>1. PICK i \in 1..Len(s) : s[i] = x
      BY <1>1, <2>1 DEF OnList
    <3>2. i # 1
      BY <1>1, <2>1, <3>1
    <3>3. i - 1 \in 1..(Len(s) - 1) /\ (i - 1) + 1 = i
      BY <1>1, <3>2
    <3> QED
      BY <1>1, <3>1, <3>3 DEF OnList
  <2>2. ASSUME NEW x, OnList(Tail(s), x) PROVE OnList(s, x)
    <3>1. PICK i \in 1..(Len(s) - 1) : s[i + 1] = x
      BY <1>1, <2>2 DEF OnList
    <3>2. i + 1 \in DOMAIN s
      BY <1>1
    <3> QED
      BY <3>1, <3>2 DEF OnList
  <2>3. OnList(s, Head(s))
    <3>1. 1 \in DOMAIN s
      BY <1>1
    <3> QED
      BY <1>1, <3>1 DEF OnList
  <2> QED
    BY <2>1, <2>2, <2>3
<1>4. PICK t : t = Tail(s)
  OBVIOUS
<1>5. PICK h : h = Head(s)
  OBVIOUS
<1> QED
  BY <1>1, <1>2, <1>3, <1>4, <1>5, AppendList

-----------------------------------------------------------------------------
(* The kernel state *)

MessTypes == {"none", "HARD_INT", "KSIG"}

Mess == [src : Procs, type : MessTypes, i1 : Int, i2 : Int, i3 : Int,
         map : SUBSET SIGS]

KernelState ==
  [p_flags : [Procs -> SUBSET Flags],
   p_priority : [Procs -> PPRI_NONE..PPRI_IDLE],
   p_getfrom : [Procs -> Procs \cup {ANY}],
   p_sendto : [Procs -> Procs],
   p_callerq : [Procs -> Seq(Procs)],
   p_int_blocked : [Tasks -> BOOLEAN],
   p_pending : [Slots -> SUBSET SIGS],
   p_pendcount : [Slots -> Nat],
   user_priority : [Slots -> Int],
   time_counter : [Slots -> Int],
   mess : [Procs -> Mess],
   rdy : [Queues -> Seq(Schedulable)],
   proc_ptr : Procs,
   bill_ptr : Procs,
   sig_procs : Int,
   panic : BOOLEAN]

\* The messages of the kernel itself
LEMMA MessageTyped ==
  /\ NoMess \in Mess
  /\ \A t \in MessTypes, x, y, z \in Int : Message(t, x, y, z) \in Mess
<1>1. HARDWARE \in Procs /\ {} \in SUBSET SIGS
  BY DEF Procs
<1>2. NoMess \in Mess
  BY <1>1 DEF NoMess, Mess, MessTypes
<1>3. ASSUME NEW t \in MessTypes, NEW x \in Int, NEW y \in Int, NEW z \in Int
      PROVE  Message(t, x, y, z) \in Mess
  BY <1>2 DEF Message, Mess
<1> QED
  BY <1>2, <1>3

\* All that ready(), unready(), pick_proc() and sched() leave alone
SameData(s, n) ==
  /\ n.p_flags = s.p_flags /\ n.p_priority = s.p_priority
  /\ n.p_getfrom = s.p_getfrom /\ n.p_sendto = s.p_sendto
  /\ n.p_callerq = s.p_callerq /\ n.p_int_blocked = s.p_int_blocked
  /\ n.p_pending = s.p_pending /\ n.p_pendcount = s.p_pendcount
  /\ n.mess = s.mess /\ n.sig_procs = s.sig_procs /\ n.panic = s.panic

\* The head of the highest queue that is not empty
Top(rdy) ==
  IF rdy[TASK_Q] # << >> THEN Head(rdy[TASK_Q])
  ELSE IF rdy[SERVER_Q] # << >> THEN Head(rdy[SERVER_Q])
  ELSE IF rdy[USER_Q] # << >> THEN Head(rdy[USER_Q])
  ELSE IDLE

\* The head of a list is on it.
LEMMA HeadInSeq ==
  ASSUME NEW S, NEW s \in Seq(S), s # << >>
  PROVE  Head(s) \in S /\ OnList(s, Head(s))
<1>1. 1 \in DOMAIN s /\ Head(s) = s[1] /\ Head(s) \in S
  OBVIOUS
<1> QED
  BY <1>1 DEF OnList

\* pick_proc() finds a process.
LEMMA TopIsProc ==
  ASSUME NEW rdy \in [Queues -> Seq(Schedulable)]
  PROVE  Top(rdy) \in Procs
<1>1. \A q \in Queues : rdy[q] # << >> => Head(rdy[q]) \in Schedulable
  BY HeadInSeq
<1>2. IDLE \in Procs /\ Schedulable \subseteq Procs
  BY DEF Procs, Schedulable
<1> QED
  BY <1>1, <1>2 DEF Top, Queues

\* What pick_proc() does
LEMMA PickEffect ==
  ASSUME NEW s \in KernelState
  PROVE  /\ pick_proc(s) \in KernelState
         /\ SameData(s, pick_proc(s))
         /\ pick_proc(s).rdy = s.rdy
         /\ pick_proc(s).proc_ptr = Top(s.rdy)
<1>1. s.rdy \in [Queues -> Seq(Schedulable)]
  BY DEF KernelState
<1>2. Top(s.rdy) \in Procs
  BY <1>1, TopIsProc
<1>3. IDLE \in Procs
  BY DEF Procs
<1>4. \E b \in Procs :
        \/ pick_proc(s) = [s EXCEPT !.proc_ptr = Top(s.rdy)]
        \/ pick_proc(s) = [s EXCEPT !.proc_ptr = Top(s.rdy), !.bill_ptr = b]
  BY <1>2, <1>3 DEF pick_proc, Top
<1>5. PICK b \in Procs :
        \/ pick_proc(s) = [s EXCEPT !.proc_ptr = Top(s.rdy)]
        \/ pick_proc(s) = [s EXCEPT !.proc_ptr = Top(s.rdy), !.bill_ptr = b]
  BY <1>4
<1>6. PICK t \in Procs : t = Top(s.rdy)
  BY <1>2
<1>7. CASE pick_proc(s) = [s EXCEPT !.proc_ptr = t]
  BY <1>6, <1>7 DEF KernelState, SameData
<1>8. CASE pick_proc(s) = [s EXCEPT !.proc_ptr = t, !.bill_ptr = b]
  BY <1>6, <1>8 DEF KernelState, SameData
<1> QED
  BY <1>5, <1>6, <1>7, <1>8
-----------------------------------------------------------------------------
(* The ready queues *)

Class(p) ==
  IF p \in Tasks THEN TASK_Q ELSE IF p \in {MM, FS} THEN SERVER_Q ELSE USER_Q

\* Nobody's class ever changes, but for the priorities of users.
Priorities(s) ==
  \A p \in Procs :
    s.p_priority[p] = IF p \in Tasks \cup {HARDWARE} THEN PPRI_TASK
                      ELSE IF p = IDLE THEN PPRI_IDLE
                      ELSE IF p \notin Programs THEN PPRI_NONE
                      ELSE IF p \in {MM, FS} THEN PPRI_SERVER
                      ELSE PPRI_USER

\* The processes of F are on the queue of their class, once, and no others.
Lists(rdy, F) ==
  /\ \A q \in Queues : Distinct(rdy[q])
  /\ \A p \in Schedulable, q \in Queues :
       OnList(rdy[q], p) <=> p \in Programs /\ p \in F /\ q = Class(p)

Runnable(s) == {p \in Procs : s.p_flags[p] = {}}

\* What the classes are
LEMMA Classes ==
  ASSUME NEW s, Priorities(s), NEW p \in Programs
  PROVE  /\ QueueOf(s, p) = Class(p) /\ Class(p) \in Queues
         /\ p \in Schedulable /\ p \in Procs
         /\ isuserp(s, p) <=> p \in UserSlots
         /\ Class(p) = USER_Q <=> p \in UserSlots
         /\ ~isemptyp(s, p)
<1>1. p \in Tasks \/ p \in Slots
  BY IpcAssumption
<1>2. p \in Procs
  BY <1>1 DEF Procs
<1>3. p \notin Tasks => p \in {MM, FS} \/ p \in UserSlots
  BY <1>1 DEF Slots, UserSlots, MM, FS, LOW_USER
<1>4. p \in UserSlots => p \notin Tasks /\ p \notin {MM, FS}
  BY DEF Tasks, DISK, CLOCK, SYSTASK, UserSlots, MM, FS, LOW_USER
<1>5. p # HARDWARE /\ p # IDLE
  BY <1>1 DEF Tasks, DISK, CLOCK, SYSTASK, Slots, HARDWARE, IDLE
<1>6. p \in {MM, FS} => p \notin Tasks
  BY DEF Tasks, DISK, CLOCK, SYSTASK, MM, FS
<1>7. s.p_priority[p] = IF p \in Tasks THEN PPRI_TASK
                        ELSE IF p \in {MM, FS} THEN PPRI_SERVER ELSE PPRI_USER
  BY <1>2, <1>5 DEF Priorities
<1>8. Class(p) \in Queues
  BY DEF Class, Queues
<1>9. QueueOf(s, p) = Class(p)
  BY <1>7 DEF QueueOf, Class, istaskp, isservp, PPRI_TASK, PPRI_SERVER, PPRI_USER
<1>10. isuserp(s, p) <=> p \in UserSlots
  BY <1>3, <1>4, <1>7 DEF isuserp, PPRI_TASK, PPRI_SERVER, PPRI_USER
<1>11. Class(p) = USER_Q <=> p \in UserSlots
  BY <1>3, <1>4, <1>6 DEF Class, TASK_Q, SERVER_Q, USER_Q
<1>12. ~isemptyp(s, p)
  BY <1>7 DEF isemptyp, PPRI_TASK, PPRI_SERVER, PPRI_USER, PPRI_NONE
<1> QED
  BY <1>2, <1>5, <1>8, <1>9, <1>10, <1>11, <1>12 DEF Schedulable

\* What ready() does
LEMMA ReadyEffect ==
  ASSUME NEW s \in KernelState, Priorities(s), NEW p \in Programs
  PROVE  /\ ready(s, p) \in KernelState
         /\ SameData(s, ready(s, p))
         /\ ready(s, p).rdy =
              [s.rdy EXCEPT ![Class(p)] =
                 IF Class(p) = USER_Q THEN <<p>> \o @ ELSE Append(@, p)]
         /\ ready(s, p).proc_ptr =
              IF Class(p) = TASK_Q /\ s.rdy[TASK_Q] = << >> THEN p
              ELSE s.proc_ptr
<1>1. PICK q \in Queues : q = Class(p) /\ q = QueueOf(s, p)
  BY Classes
<1>2. p \in Schedulable /\ p \in Procs
  BY Classes
<1>3. s.rdy \in [Queues -> Seq(Schedulable)] /\ s.proc_ptr \in Procs
  BY DEF KernelState
<1> DEFINE L == IF q = USER_Q THEN <<p>> \o s.rdy[q] ELSE Append(s.rdy[q], p)
           R == [s.rdy EXCEPT ![q] = L]
           P1 == IF q = TASK_Q /\ s.rdy[TASK_Q] = << >> THEN p ELSE s.proc_ptr
<1>4. ready(s, p) = [s EXCEPT !.rdy = R, !.proc_ptr = P1]
  BY <1>1 DEF ready, KernelState
<1>5. L \in Seq(Schedulable)
  BY <1>2, <1>3, AppendList, ConsList
<1> HIDE DEF L
<1>6. R \in [Queues -> Seq(Schedulable)]
  BY <1>3, <1>5
<1>7. P1 \in Procs
  BY <1>2, <1>3
<1>8. PICK R2, P2 : R2 = R /\ P2 = P1
  OBVIOUS
<1>9. ready(s, p) = [s EXCEPT !.rdy = R2, !.proc_ptr = P2]
  BY <1>4, <1>8
<1>10. /\ ready(s, p) \in KernelState /\ SameData(s, ready(s, p))
       /\ ready(s, p).rdy = R2 /\ ready(s, p).proc_ptr = P2
  <2>1. R2 \in [Queues -> Seq(Schedulable)] /\ P2 \in Procs
    BY <1>6, <1>7, <1>8
  <2> HIDE DEF R, P1
  <2> QED
    BY <1>9, <2>1 DEF KernelState, SameData
<1> QED
  BY <1>1, <1>8, <1>10 DEF L

\* A process that becomes ready joins its queue.
LEMMA ReadyLists ==
  ASSUME NEW s \in KernelState, Priorities(s), NEW p \in Programs,
         NEW F, Lists(s.rdy, F), p \notin F
  PROVE  Lists(ready(s, p).rdy, F \cup {p})
<1>1. PICK q \in Queues : q = Class(p)
  BY Classes
<1>2. p \in Schedulable
  BY Classes
<1>3. PICK R \in [Queues -> Seq(Schedulable)] : R = s.rdy
  BY DEF KernelState
<1>4. PICK L : L = IF q = USER_Q THEN <<p>> \o R[q] ELSE Append(R[q], p)
  OBVIOUS
<1>5. ~OnList(R[q], p) /\ Distinct(R[q])
  BY <1>1, <1>2, <1>3 DEF Lists
<1>6. Distinct(L) /\ \A x : OnList(L, x) <=> OnList(R[q], x) \/ x = p
  <2>1. R[q] \in Seq(Schedulable)
    BY <1>3
  <2> QED
    BY <1>2, <1>4, <1>5, <2>1, AppendList, ConsList
<1>7. ready(s, p).rdy = [R EXCEPT ![q] = L]
  BY <1>1, <1>3, <1>4, ReadyEffect
<1>8. /\ \A r \in Queues : Distinct(R[r])
      /\ \A x \in Schedulable, r \in Queues :
           OnList(R[r], x) <=> x \in Programs /\ x \in F /\ r = Class(x)
  BY <1>3 DEF Lists
<1>9. \A r \in Queues : Distinct([R EXCEPT ![q] = L][r])
  BY <1>6, <1>8
<1>10. \A x \in Schedulable, r \in Queues :
         OnList([R EXCEPT ![q] = L][r], x)
           <=> x \in Programs /\ x \in F \cup {p} /\ r = Class(x)
  BY <1>1, <1>6, <1>8
<1> QED
  BY <1>7, <1>9, <1>10 DEF Lists

\* Nobody of a lower class than somebody who is ready, and no user, comes to
\* the head of the queues by becoming ready.
NeverFirst(rdy, p) ==
  Class(p) = TASK_Q \/ rdy[TASK_Q] # << >> \/ rdy[SERVER_Q] # << >>

\* ready() leaves proc_ptr at the process to run next, unless a user is put at the
\* front of the only list.
LEMMA ReadyTop ==
  ASSUME NEW s \in KernelState, Priorities(s), NEW p \in Programs,
         s.proc_ptr = Top(s.rdy), NeverFirst(s.rdy, p)
  PROVE  ready(s, p).proc_ptr = Top(ready(s, p).rdy)
<1>1. PICK q \in Queues : q = Class(p)
  BY Classes
<1>2. p \in Schedulable
  BY Classes
<1>3. PICK R \in [Queues -> Seq(Schedulable)] : R = s.rdy
  BY DEF KernelState
<1>4. PICK L : L = IF q = USER_Q THEN <<p>> \o R[q] ELSE Append(R[q], p)
  OBVIOUS
<1>5. /\ L # << >>
      /\ q # USER_Q => Head(L) = IF R[q] = << >> THEN p ELSE Head(R[q])
  <2>1. R[q] \in Seq(Schedulable)
    BY <1>3
  <2> QED
    BY <1>2, <1>4, <2>1, AppendList, ConsList
<1>6. /\ ready(s, p).rdy = [R EXCEPT ![q] = L]
      /\ ready(s, p).proc_ptr =
            IF q = TASK_Q /\ R[TASK_Q] = << >> THEN p ELSE Top(R)
  BY <1>1, <1>3, <1>4, ReadyEffect
<1>7. q = TASK_Q \/ R[TASK_Q] # << >> \/ R[SERVER_Q] # << >>
  BY <1>1, <1>3 DEF NeverFirst
<1>8. PICK N : N = [R EXCEPT ![q] = L]
  OBVIOUS
<1>9. /\ N[q] = L /\ \A r \in Queues \ {q} : N[r] = R[r]
      /\ {TASK_Q, SERVER_Q, USER_Q} = Queues
      /\ TASK_Q # SERVER_Q /\ TASK_Q # USER_Q /\ SERVER_Q # USER_Q
  BY <1>3, <1>8 DEF Queues, TASK_Q, SERVER_Q, USER_Q
<1>10. Top(N) = IF q = TASK_Q /\ R[TASK_Q] = << >> THEN p ELSE Top(R)
  <2>1. CASE q = TASK_Q
    BY <1>5, <1>9, <2>1 DEF Top
  <2>2. CASE q = SERVER_Q
    BY <1>5, <1>7, <1>9, <2>2 DEF Top
  <2>3. CASE q = USER_Q
    BY <1>5, <1>7, <1>9, <2>3 DEF Top
  <2> QED
    BY <1>9, <2>1, <2>2, <2>3
<1> QED
  BY <1>6, <1>8, <1>10

\* Whoever may run after a flag of it has been cleared
Wake(s, p) == IF s.p_flags[p] = {} THEN ready(s, p) ELSE s

\* Putting a process on its list when its last flag is gone keeps the lists and,
\* where pick_proc() would not choose it, the process that runs.
LEMMA WakeKeeps ==
  ASSUME NEW s \in KernelState, Priorities(s), NEW p \in Programs,
         Lists(s.rdy, Runnable(s) \ {p})
  PROVE  /\ Wake(s, p) \in KernelState /\ SameData(s, Wake(s, p))
         /\ Lists(Wake(s, p).rdy, Runnable(s))
         /\ s.proc_ptr = Top(s.rdy) /\ NeverFirst(s.rdy, p) =>
              Wake(s, p).proc_ptr = Top(Wake(s, p).rdy)
         /\ Class(p) # TASK_Q => Wake(s, p).proc_ptr = s.proc_ptr
         /\ Class(p) # USER_Q => Wake(s, p).rdy[USER_Q] = s.rdy[USER_Q]
<1>1. p \in Procs
  BY Classes
<1>2. CASE s.p_flags[p] # {}
  <2>1. Runnable(s) \ {p} = Runnable(s)
    BY <1>2 DEF Runnable
  <2> QED
    BY <1>2, <2>1 DEF Wake, SameData
<1>3. CASE s.p_flags[p] = {}
  <2>1. Wake(s, p) = ready(s, p)
    BY <1>3 DEF Wake
  <2>2. (Runnable(s) \ {p}) \cup {p} = Runnable(s)
    BY <1>1, <1>3 DEF Runnable
  <2>3. Lists(ready(s, p).rdy, Runnable(s))
    <3>1. p \notin Runnable(s) \ {p}
      OBVIOUS
    <3> QED
      BY <2>2, <3>1, ReadyLists
  <2>4. Class(p) # USER_Q => ready(s, p).rdy[USER_Q] = s.rdy[USER_Q]
    <3>1. s.rdy \in [Queues -> Seq(Schedulable)] /\ USER_Q \in Queues
      BY DEF KernelState, Queues
    <3> QED
      BY <3>1, ReadyEffect
  <2>5. /\ ready(s, p) \in KernelState /\ SameData(s, ready(s, p))
        /\ Class(p) # TASK_Q => ready(s, p).proc_ptr = s.proc_ptr
    BY ReadyEffect
  <2>6. s.proc_ptr = Top(s.rdy) /\ NeverFirst(s.rdy, p) =>
          ready(s, p).proc_ptr = Top(ready(s, p).rdy)
    BY ReadyTop
  <2> QED
    BY <2>1, <2>3, <2>4, <2>5, <2>6
<1> QED
  BY <1>2, <1>3

\* What unready() does
LEMMA UnreadyEffect ==
  ASSUME NEW s \in KernelState, Priorities(s), NEW p \in Programs,
         Distinct(s.rdy[Class(p)])
  PROVE  /\ unready(s, p) \in KernelState
         /\ SameData(s, unready(s, p))
         /\ unready(s, p).rdy =
              [s.rdy EXCEPT ![Class(p)] = Unlink(s.rdy[Class(p)], p)]
         /\ unready(s, p).proc_ptr =
              IF /\ s.rdy[Class(p)] # << >> /\ Head(s.rdy[Class(p)]) = p
                 /\ Class(p) = TASK_Q => p = s.proc_ptr
              THEN Top(unready(s, p).rdy) ELSE s.proc_ptr
<1>1. PICK q \in Queues : q = Class(p) /\ q = QueueOf(s, p)
  BY Classes
<1>2. s.rdy \in [Queues -> Seq(Schedulable)]
  BY DEF KernelState
<1>3. Unlink(s.rdy[q], p) \in Seq(Schedulable)
  <2>1. s.rdy[q] \in Seq(Schedulable) /\ Distinct(s.rdy[q])
    BY <1>1, <1>2
  <2> QED
    BY <2>1, UnlinkList
<1>4. PICK R \in [Queues -> Seq(Schedulable)] :
        R = [s.rdy EXCEPT ![q] = Unlink(s.rdy[q], p)]
  BY <1>2, <1>3
<1>5. PICK u : u = [s EXCEPT !.rdy = R]
  OBVIOUS
<1>6. /\ u \in KernelState /\ SameData(s, u)
      /\ u.rdy = R /\ u.proc_ptr = s.proc_ptr
  BY <1>4, <1>5 DEF KernelState, SameData
<1>7. unready(s, p) =
        IF s.rdy[q] # << >> /\ Head(s.rdy[q]) = p /\ (q = TASK_Q => p = s.proc_ptr)
        THEN pick_proc(u) ELSE u
  <2>1. u = [s EXCEPT !.rdy[q] = Unlink(s.rdy[q], p)]
    BY <1>4, <1>5 DEF KernelState
  <2> QED
    BY <1>1, <2>1 DEF unready
<1>8. /\ pick_proc(u) \in KernelState /\ SameData(s, pick_proc(u))
      /\ pick_proc(u).rdy = R /\ pick_proc(u).proc_ptr = Top(R)
  BY <1>6, PickEffect DEF SameData
<1> QED
  BY <1>1, <1>4, <1>6, <1>7, <1>8

\* Whoever may not run any longer
Halt(s, p) == IF s.p_flags[p] = {} THEN unready(s, p) ELSE s

\* Taking a process off its list before it gets its first flag keeps the lists
\* of the others.
LEMMA HaltKeeps ==
  ASSUME NEW s \in KernelState, Priorities(s), NEW p \in Programs,
         Lists(s.rdy, Runnable(s))
  PROVE  /\ Halt(s, p) \in KernelState /\ SameData(s, Halt(s, p))
         /\ Lists(Halt(s, p).rdy, Runnable(s) \ {p})
         /\ \/ s.proc_ptr = Top(s.rdy)
            \/ /\ s.p_flags[p] = {} /\ s.proc_ptr = p
               /\ Head(s.rdy[Class(p)]) = p
            => Halt(s, p).proc_ptr = Top(Halt(s, p).rdy)
<1>1. p \in Procs /\ p \in Schedulable
  BY Classes
<1>2. PICK q \in Queues : q = Class(p)
  BY Classes
<1>3. PICK R \in [Queues -> Seq(Schedulable)] : R = s.rdy
  BY DEF KernelState
<1>4. /\ \A r \in Queues : Distinct(R[r])
      /\ \A x \in Schedulable, r \in Queues :
           OnList(R[r], x) <=> x \in Programs /\ x \in Runnable(s) /\ r = Class(x)
  BY <1>3 DEF Lists
<1>5. CASE s.p_flags[p] # {}
  <2>1. Runnable(s) \ {p} = Runnable(s)
    BY <1>5 DEF Runnable
  <2> QED
    BY <1>5, <2>1 DEF Halt, SameData
<1>6. CASE s.p_flags[p] = {}
  <2>1. Halt(s, p) = unready(s, p)
    BY <1>6 DEF Halt
  <2>2. PICK L : L = Unlink(R[q], p)
    OBVIOUS
  <2>3. /\ Distinct(L) /\ \A x : OnList(L, x) <=> OnList(R[q], x) /\ x # p
        /\ R[q] # << >> /\ Head(R[q]) # p => L # << >> /\ Head(L) = Head(R[q])
    <3>1. R[q] \in Seq(Schedulable) /\ Distinct(R[q])
      BY <1>3, <1>4
    <3> QED
      BY <2>2, <3>1, UnlinkList
  <2>4. PICK N : N = [R EXCEPT ![q] = L]
    OBVIOUS
  <2>5. N[q] = L /\ \A r \in Queues \ {q} : N[r] = R[r]
    BY <1>3, <2>4
  <2>6. /\ unready(s, p) \in KernelState /\ SameData(s, unready(s, p))
        /\ unready(s, p).rdy = N
        /\ unready(s, p).proc_ptr =
              IF R[q] # << >> /\ Head(R[q]) = p /\ (q = TASK_Q => p = s.proc_ptr)
              THEN Top(N) ELSE s.proc_ptr
    BY <1>2, <1>3, <1>4, <2>2, <2>4, UnreadyEffect
  <2>7. Lists(N, Runnable(s) \ {p})
    <3>1. \A r \in Queues : Distinct(N[r])
      BY <1>4, <2>3, <2>5
    <3>2. \A x \in Schedulable, r \in Queues :
            OnList(N[r], x)
              <=> x \in Programs /\ x \in Runnable(s) \ {p} /\ r = Class(x)
      BY <1>2, <1>4, <2>3, <2>5
    <3> QED
      BY <3>1, <3>2 DEF Lists
  <2>8. OnList(R[q], p)
    BY <1>1, <1>2, <1>4, <1>6 DEF Runnable
  <2>9. R[q] # << >>
    BY <2>8 DEF OnList
  <2>10. ASSUME s.proc_ptr = Top(R), Head(R[q]) # p \/ (q = TASK_Q /\ p # s.proc_ptr)
         PROVE  Top(N) = Top(R)
    <3>1. /\ {TASK_Q, SERVER_Q, USER_Q} = Queues
          /\ TASK_Q # SERVER_Q /\ TASK_Q # USER_Q /\ SERVER_Q # USER_Q
      BY DEF Queues, TASK_Q, SERVER_Q, USER_Q
    <3>2. q = TASK_Q => s.proc_ptr = Head(R[q])
      BY <2>9, <2>10 DEF Top
    <3>3. Head(R[q]) # p
      BY <2>10, <3>2
    <3>4. L # << >> /\ Head(L) = Head(R[q])
      BY <2>3, <2>9, <3>3
    <3> QED
      BY <2>5, <2>9, <3>1, <3>4 DEF Top
  <2> QED
    BY <1>2, <1>3, <2>1, <2>6, <2>7, <2>9, <2>10
<1> QED
  BY <1>5, <1>6
-----------------------------------------------------------------------------
(* What the flags, the queues of callers and the signals have to do with    *)
(* each other: F, G, T, Q, B, P, C and N are the p_flags, p_getfrom,        *)
(* p_sendto, p_callerq, p_int_blocked, p_pending, p_pendcount and sig_procs *)
(* of a state.                                                              *)

FieldTypes(F, G, T, Q, B, P, C) ==
  /\ F \in [Procs -> SUBSET Flags]
  /\ G \in [Procs -> Procs \cup {ANY}]
  /\ T \in [Procs -> Procs]
  /\ Q \in [Procs -> Seq(Procs)]
  /\ B \in [Tasks -> BOOLEAN]
  /\ P \in [Slots -> SUBSET SIGS]
  /\ C \in [Slots -> Nat]

\* Only programs have flags, and only users get signals.
FlagsFit(F) ==
  \A p \in Procs :
    /\ p \notin Programs => F[p] = {}
    /\ F[p] \subseteq {"SENDING", "RECEIVING", "PENDING", "SIG_PENDING"}
    /\ p \notin UserSlots => F[p] \subseteq {"SENDING", "RECEIVING"}

Senders(F, T, Q) ==
  /\ \A d \in Procs : Distinct(Q[d])
  /\ \A d, c \in Procs : OnList(Q[d], c) <=> "SENDING" \in F[c] /\ T[c] = d

\* A process sends to programs only, and waits for the answer of the process
\* it sends to, if it does both.
SendsToPrograms(F, G, T) ==
  \A p \in Procs :
    "SENDING" \in F[p] => /\ T[p] \in Programs
                          /\ "RECEIVING" \in F[p] => G[p] = T[p]

NoCycle(F, T) ==
  \A S \in (SUBSET Programs) \ {{}} :
    \E p \in S : ~("SENDING" \in F[p] /\ T[p] \in S)

\* In receive(), and not in the first half of a sendrec
Waiting(f) == f \cap {"RECEIVING", "SENDING"} = {"RECEIVING"}

NoneMissed(F, G, Q) ==
  \A d \in Procs : Waiting(F[d]) =>
    \A c \in Procs : OnList(Q[d], c) => G[d] \notin {ANY, c}

IntKept(F, G, B) ==
  \A t \in Tasks : B[t] /\ Waiting(F[t]) => G[t] \notin {ANY, HARDWARE}

SignalsFit(F, P, C) ==
  \A p \in Slots :
    /\ IsFiniteSet(P[p]) /\ Cardinality(P[p]) <= C[p]
    /\ "PENDING" \in F[p] => P[p] # {}
    /\ C[p] > 0 => "SIG_PENDING" \in F[p]

Pending(F) == {p \in Slots : "PENDING" \in F[p]}

Agree(F, G, T, Q, B, P, C, N) ==
  /\ FieldTypes(F, G, T, Q, B, P, C)
  /\ FlagsFit(F)
  /\ Senders(F, T, Q)
  /\ SendsToPrograms(F, G, T)
  /\ NoCycle(F, T)
  /\ NoneMissed(F, G, Q)
  /\ IntKept(F, G, B)
  /\ SignalsFit(F, P, C)
  /\ N = Cardinality(Pending(F))

\* Programs are slots or tasks, and no process is called ANY.
LEMMA ProcFacts ==
  /\ ANY \notin Procs /\ HARDWARE \in Procs /\ HARDWARE \notin Programs
  /\ Programs \subseteq Procs /\ Tasks \subseteq Procs /\ Slots \subseteq Procs
  /\ UserSlots \subseteq Slots /\ MM \in Programs /\ MM \notin UserSlots
  /\ MM \notin Tasks /\ MM \in Slots
  /\ \A p \in UserSlots : p \notin Tasks
  /\ "SENDING" \in Flags /\ "RECEIVING" \in Flags
  /\ "PENDING" \in Flags /\ "SIG_PENDING" \in Flags
<1>1. NR_PROCS \in Nat /\ NR_PROCS > 2 /\ NR_PROCS <= 31438
  BY ProcAssumption DEF ANY
<1> QED
  BY <1>1, IpcAssumption
     DEF Procs, Tasks, Slots, UserSlots, ANY, DISK, CLOCK, SYSTASK, HARDWARE,
         IDLE, MM, LOW_USER, Flags

\* Slots are finite, and so are those with signals to tell.
LEMMA PendingFinite == \A F : IsFiniteSet(Pending(F))
<1>1. IsFiniteSet(Slots)
  BY ProcAssumption, FS_Interval DEF Slots
<1>2. \A F : Pending(F) \in SUBSET Slots
  BY DEF Pending
<1> QED
  BY <1>1, <1>2, FS_Subset

\* A receive is over.
LEMMA ReceiveEnds ==
  ASSUME NEW F, NEW G, NEW T, NEW Q, NEW B, NEW P, NEW C, NEW N,
         Agree(F, G, T, Q, B, P, C, N), NEW d \in Procs
  PROVE  Agree([F EXCEPT ![d] = @ \ {"RECEIVING"}], G, T, Q, B, P, C, N)
<1>1. PICK H : H = [F EXCEPT ![d] = @ \ {"RECEIVING"}]
  OBVIOUS
<1>2. FieldTypes(F, G, T, Q, B, P, C) /\ F \in [Procs -> SUBSET Flags]
  BY DEF Agree, FieldTypes
<1>3. /\ H \in [Procs -> SUBSET Flags]
      /\ \A p \in Procs : /\ H[p] \subseteq F[p]
                          /\ F[p] \subseteq H[p] \cup {"RECEIVING"}
      /\ \A p \in Procs : Waiting(H[p]) => Waiting(F[p])
  BY <1>1, <1>2 DEF Waiting
<1>4. FieldTypes(H, G, T, Q, B, P, C)
  BY <1>2, <1>3 DEF FieldTypes
<1>5. \A p \in Procs, f \in {"SENDING", "PENDING", "SIG_PENDING"} :
        f \in H[p] <=> f \in F[p]
  BY <1>3
<1>6. FlagsFit(H)
  BY <1>3 DEF Agree, FlagsFit
<1>7. Senders(H, T, Q)
  BY <1>5 DEF Agree, Senders
<1>8. SendsToPrograms(H, G, T)
  BY <1>3 DEF Agree, SendsToPrograms
<1>9. NoCycle(H, T)
  BY <1>5, ProcFacts DEF Agree, NoCycle
<1>10. NoneMissed(H, G, Q)
  BY <1>3 DEF Agree, NoneMissed
<1>11. IntKept(H, G, B)
  BY <1>3, ProcFacts DEF Agree, IntKept
<1>12. SignalsFit(H, P, C)
  BY <1>5, ProcFacts DEF Agree, SignalsFit
<1>13. Pending(H) = Pending(F)
  BY <1>5, ProcFacts DEF Pending
<1> QED
  BY <1>1, <1>4, <1>6, <1>7, <1>8, <1>9, <1>10, <1>11, <1>12, <1>13 DEF Agree

\* The ELOCKED check: when c is not on the chain of senders that starts at d,
\* c sending to d closes no circle.  A circle would have to go through c, but
\* the chain from d never gets there and comes back to itself before.
LEMMA NoCycleCloses ==
  ASSUME NEW s \in KernelState, NoCycle(s.p_flags, s.p_sendto),
         NEW c \in Programs, NEW d \in Programs, c # d,
         c \notin SendChain(s, d), s.p_flags[c] = {}
  PROVE  NoCycle([s.p_flags EXCEPT ![c] = @ \cup {"SENDING"}],
                 [s.p_sendto EXCEPT ![c] = d])
<1>1. PICK F \in [Procs -> SUBSET Flags], T \in [Procs -> Procs] :
        F = s.p_flags /\ T = s.p_sendto
  BY DEF KernelState
<1>2. PICK H, U : /\ H = [F EXCEPT ![c] = @ \cup {"SENDING"}]
                  /\ U = [T EXCEPT ![c] = d]
  OBVIOUS
<1>3. /\ Programs \subseteq Procs
      /\ \A p \in Procs \ {c} : H[p] = F[p] /\ U[p] = T[p]
      /\ U[c] = d
  BY <1>2, ProcFacts
<1>4. SUFFICES ASSUME NEW S \in SUBSET Programs, S # {},
                      \A p \in S : "SENDING" \in H[p] /\ U[p] \in S
               PROVE  FALSE
  BY <1>1, <1>2 DEF NoCycle
<1>5. c \in S
  <2>1. CASE c \notin S
    <3>1. \A p \in S : "SENDING" \in F[p] /\ T[p] \in S
      BY <1>3, <1>4, <2>1
    <3> QED
      BY <1>1, <1>4, <3>1 DEF NoCycle
  <2> QED
    BY <2>1
<1>6. d \in S
  BY <1>3, <1>4, <1>5
<1>7. \A p \in S \ {c} : "SENDING" \in F[p] /\ T[p] \in S
  BY <1>3, <1>4
<1>8. "SENDING" \in F[d]
  BY <1>6, <1>7
<1> DEFINE N == Cardinality(Procs)
<1>9. PICK f \in [Nat -> Procs] :
        /\ f[0] = d
        /\ \A i \in Nat : f[i + 1] = Receiver(s, f[i])
        /\ \A i \in 1..N : f[i] # c
  BY <1>1, <1>3, <1>8, ChainProceeds
<1>10. N \in Nat
  BY ProcsFinite
<1> HIDE DEF N
<1>11. \A i \in Nat : i <= N => f[i] \in S \ {c}
  <2> DEFINE W == {i \in Nat : i <= N => f[i] \in S \ {c}}
  <2>1. 0 \in W
    BY <1>6, <1>9
  <2>2. ASSUME NEW i \in Nat, i \in W PROVE i + 1 \in W
    <3>1. ASSUME i + 1 <= N PROVE f[i + 1] \in S \ {c}
      <4>1. f[i] \in S \ {c} /\ i + 1 \in 1..N
        BY <1>10, <2>2, <3>1
      <4>2. f[i + 1] = T[f[i]]
        BY <1>1, <1>7, <1>9, <4>1 DEF Receiver
      <4> QED
        BY <1>7, <1>9, <4>1, <4>2
    <3> QED
      BY <3>1
  <2>3. Nat \subseteq W
    <3> HIDE DEF W
    <3> QED
      BY <2>1, <2>2, SetInduction
  <2> QED
    BY <2>3
<1>12. PICK i \in 0..N, j \in 0..N : i < j /\ f[i] = f[j]
  BY ChainComesBack DEF N
<1> DEFINE R == {f[h] : h \in i..(j - 1)}
<1>13. \A h \in i..(j - 1) : h \in Nat /\ h <= N /\ h + 1 \in i..j
  BY <1>10, <1>12
<1>14. R \in SUBSET Programs /\ R # {}
  <2>1. \A h \in i..(j - 1) : f[h] \in Programs
    BY <1>11, <1>13
  <2>2. i \in i..(j - 1)
    BY <1>10, <1>12
  <2> QED
    BY <2>1, <2>2
<1>15. ASSUME NEW h \in i..(j - 1)
       PROVE  "SENDING" \in F[f[h]] /\ T[f[h]] \in R
  <2>1. f[h] \in S \ {c}
    BY <1>11, <1>13
  <2>2. "SENDING" \in F[f[h]]
    BY <1>7, <2>1
  <2>3. T[f[h]] = f[h + 1]
    BY <1>1, <1>9, <1>13, <2>2 DEF Receiver
  <2>4. f[h + 1] \in R
    <3>1. CASE h + 1 = j
      <4>1. i \in i..(j - 1) /\ f[h + 1] = f[i]
        BY <1>10, <1>12, <3>1
      <4> QED
        BY <4>1
    <3>2. CASE h + 1 # j
      <4>1. h + 1 \in i..(j - 1)
        BY <1>13, <3>2
      <4> QED
        BY <4>1
    <3> QED
      BY <3>1, <3>2
  <2> QED
    BY <2>2, <2>3, <2>4
<1>16. \A p \in R : "SENDING" \in F[p] /\ T[p] \in R
  BY <1>15
<1> HIDE DEF R
<1> QED
  BY <1>1, <1>14, <1>16 DEF NoCycle

\* c has begun to send to d, which does not wait for it.
LEMMA SendBegins ==
  ASSUME NEW F, NEW G, NEW T, NEW Q, NEW B, NEW P, NEW C, NEW N,
         Agree(F, G, T, Q, B, P, C, N),
         NEW c \in Programs, NEW d \in Programs, F[c] = {},
         NEW H, H = [F EXCEPT ![c] = @ \cup {"SENDING"}],
         NEW U, U = [T EXCEPT ![c] = d],
         NEW R, R = [Q EXCEPT ![d] = Append(@, c)],
         NoCycle(H, U), Waiting(F[d]) => G[d] \notin {ANY, c}
  PROVE  Agree(H, G, U, R, B, P, C, N)
<1>1. FieldTypes(F, G, T, Q, B, P, C)
  BY DEF Agree
<1>2. /\ F \in [Procs -> SUBSET Flags] /\ T \in [Procs -> Procs]
      /\ Q \in [Procs -> Seq(Procs)] /\ c \in Procs /\ d \in Procs
      /\ "SENDING" \in Flags
  BY <1>1, ProcFacts DEF FieldTypes
<1>3. /\ H \in [Procs -> SUBSET Flags] /\ U \in [Procs -> Procs]
      /\ H[c] = {"SENDING"} /\ U[c] = d
      /\ \A p \in Procs \ {c} : H[p] = F[p] /\ U[p] = T[p]
  BY <1>2
<1>4. /\ Append(Q[d], c) \in Seq(Procs)
      /\ \A x : OnList(Append(Q[d], c), x) <=> OnList(Q[d], x) \/ x = c
      /\ Distinct(Q[d]) /\ ~OnList(Q[d], c) => Distinct(Append(Q[d], c))
  <2>1. Q[d] \in Seq(Procs)
    BY <1>2
  <2> QED
    BY <1>2, <2>1, AppendList
<1>5. /\ R \in [Procs -> Seq(Procs)] /\ R[d] = Append(Q[d], c)
      /\ \A p \in Procs \ {d} : R[p] = Q[p]
  BY <1>2, <1>4
<1>6. /\ \A p \in Procs : Distinct(Q[p])
      /\ \A p, x \in Procs : OnList(Q[p], x) <=> "SENDING" \in F[x] /\ T[x] = p
  BY DEF Agree, Senders
<1>7. FieldTypes(H, G, U, R, B, P, C)
  BY <1>1, <1>3, <1>5 DEF FieldTypes
<1>8. FlagsFit(H)
  BY <1>3 DEF Agree, FlagsFit
<1>9. Senders(H, U, R)
  <2>1. ~OnList(Q[d], c)
    BY <1>2, <1>6
  <2>2. \A p \in Procs : Distinct(R[p])
    BY <1>4, <1>5, <1>6, <2>1
  <2>3. ASSUME NEW p \in Procs, NEW x \in Procs
        PROVE  OnList(R[p], x) <=> "SENDING" \in H[x] /\ U[x] = p
    <3>1. CASE x = c
      <4>1. ~OnList(Q[p], c)
        BY <1>2, <1>6
      <4> QED
        BY <1>3, <1>4, <1>5, <3>1, <4>1
    <3>2. CASE x # c
      <4>1. OnList(R[p], x) <=> OnList(Q[p], x)
        BY <1>4, <1>5, <3>2
      <4> QED
        BY <1>3, <1>6, <3>2, <4>1
    <3> QED
      BY <3>1, <3>2
  <2> QED
    BY <2>2, <2>3 DEF Senders
<1>10. SendsToPrograms(H, G, U)
  BY <1>3 DEF Agree, SendsToPrograms
<1>11. NoneMissed(H, G, R)
  <2> SUFFICES ASSUME NEW p \in Procs, Waiting(H[p]), NEW x \in Procs, OnList(R[p], x)
               PROVE  G[p] \notin {ANY, x}
    BY DEF NoneMissed
  <2>1. p # c /\ Waiting(F[p])
    BY <1>3 DEF Waiting
  <2>2. CASE p = d /\ x = c
    BY <2>1, <2>2
  <2>3. CASE ~(p = d /\ x = c)
    <3>1. OnList(Q[p], x)
      BY <1>4, <1>5, <2>3
    <3> QED
      BY <2>1, <3>1 DEF Agree, NoneMissed
  <2> QED
    BY <2>2, <2>3
<1>12. IntKept(H, G, B)
  BY <1>3, ProcFacts DEF Agree, IntKept, Waiting
<1>13. SignalsFit(H, P, C)
  BY <1>2, <1>3, ProcFacts DEF Agree, SignalsFit
<1>14. Pending(H) = Pending(F)
  BY <1>2, <1>3, ProcFacts DEF Pending
<1> QED
  BY <1>7, <1>8, <1>9, <1>10, <1>11, <1>12, <1>13, <1>14 DEF Agree

\* The message of a caller of c is taken; the caller may now wait for the
\* answer, from c and nobody else.
LEMMA SendEnds ==
  ASSUME NEW F, NEW G, NEW T, NEW Q, NEW B, NEW P, NEW C, NEW N,
         Agree(F, G, T, Q, B, P, C, N),
         NEW c \in Programs, "SENDING" \notin F[c],
         NEW i \in DOMAIN Q[c], NEW x, x = Q[c][i],
         NEW H, H = [F EXCEPT ![x] = @ \ {"SENDING"}],
         NEW R, R = [Q EXCEPT ![c] = RemoveIndex(@, i)]
  PROVE  /\ Agree(H, G, T, R, B, P, C, N)
         /\ x \in Programs /\ x # c /\ "SENDING" \in F[x] /\ T[x] = c
         /\ Waiting(H[x]) => G[x] = c
<1>1. FieldTypes(F, G, T, Q, B, P, C)
  BY DEF Agree
<1>2. /\ F \in [Procs -> SUBSET Flags] /\ T \in [Procs -> Procs]
      /\ Q \in [Procs -> Seq(Procs)] /\ c \in Procs
  BY <1>1, ProcFacts DEF FieldTypes
<1>3. /\ \A p \in Procs : Distinct(Q[p])
      /\ \A p, y \in Procs : OnList(Q[p], y) <=> "SENDING" \in F[y] /\ T[y] = p
  BY DEF Agree, Senders
<1>4. Q[c] \in Seq(Procs) /\ Distinct(Q[c])
  BY <1>2, <1>3
<1>5. x \in Procs /\ OnList(Q[c], x)
  BY <1>4 DEF OnList
<1>6. "SENDING" \in F[x] /\ T[x] = c /\ x # c
  BY <1>2, <1>3, <1>5
<1>7. x \in Programs
  BY <1>5, <1>6 DEF Agree, FlagsFit
<1>8. /\ H \in [Procs -> SUBSET Flags] /\ H[x] = F[x] \ {"SENDING"}
      /\ \A p \in Procs \ {x} : H[p] = F[p]
  BY <1>2, <1>5
<1>9. \A p \in Procs, f \in {"RECEIVING", "PENDING", "SIG_PENDING"} :
        f \in H[p] <=> f \in F[p]
  BY <1>8
<1>10. /\ RemoveIndex(Q[c], i) \in Seq(Procs) /\ Distinct(RemoveIndex(Q[c], i))
       /\ \A y : OnList(RemoveIndex(Q[c], i), y) <=> OnList(Q[c], y) /\ y # x
  BY <1>4, RemoveIndexList
<1>11. /\ R \in [Procs -> Seq(Procs)] /\ R[c] = RemoveIndex(Q[c], i)
       /\ \A p \in Procs \ {c} : R[p] = Q[p]
  BY <1>2, <1>10
<1>12. FieldTypes(H, G, T, R, B, P, C)
  BY <1>1, <1>8, <1>11 DEF FieldTypes
<1>13. FlagsFit(H)
  BY <1>8 DEF Agree, FlagsFit
<1>14. Senders(H, T, R)
  <2>1. \A p \in Procs : Distinct(R[p])
    BY <1>3, <1>10, <1>11
  <2>2. ASSUME NEW p \in Procs, NEW y \in Procs
        PROVE  OnList(R[p], y) <=> "SENDING" \in H[y] /\ T[y] = p
    <3>1. CASE y = x
      BY <1>3, <1>5, <1>6, <1>8, <1>10, <1>11, <3>1
    <3>2. CASE y # x
      BY <1>3, <1>8, <1>10, <1>11, <3>2
    <3> QED
      BY <3>1, <3>2
  <2> QED
    BY <2>1, <2>2 DEF Senders
<1>15. SendsToPrograms(H, G, T)
  BY <1>8 DEF Agree, SendsToPrograms
<1>16. NoCycle(H, T)
  BY <1>8, ProcFacts DEF Agree, NoCycle
<1>17. Waiting(H[x]) => G[x] = c
  BY <1>5, <1>6, <1>8 DEF Waiting, Agree, SendsToPrograms
<1>18. \A p \in Procs \ {x} : Waiting(H[p]) => Waiting(F[p])
  BY <1>8
<1>19. NoneMissed(H, G, R)
  <2> SUFFICES ASSUME NEW p \in Procs, Waiting(H[p]), NEW y \in Procs, OnList(R[p], y)
               PROVE  G[p] \notin {ANY, y}
    BY DEF NoneMissed
  <2>1. OnList(Q[p], y)
    BY <1>10, <1>11
  <2>2. CASE p = x
    <3>1. y # c
      BY <1>2, <1>3, <1>5, <2>1
    <3> QED
      BY <1>17, <2>2, <3>1, <1>2, ProcFacts
  <2>3. CASE p # x
    BY <1>18, <2>1, <2>3 DEF Agree, NoneMissed
  <2> QED
    BY <2>2, <2>3
<1>20. IntKept(H, G, B)
  <2> SUFFICES ASSUME NEW t \in Tasks, B[t], Waiting(H[t])
               PROVE  G[t] \notin {ANY, HARDWARE}
    BY DEF IntKept
  <2>1. t \in Procs
    BY ProcFacts
  <2>2. CASE t = x
    BY <1>2, <1>17, <2>2, ProcFacts
  <2>3. CASE t # x
    BY <1>18, <2>1, <2>3 DEF Agree, IntKept
  <2> QED
    BY <2>2, <2>3
<1>21. SignalsFit(H, P, C)
  BY <1>9, ProcFacts DEF Agree, SignalsFit
<1>22. Pending(H) = Pending(F)
  BY <1>9, ProcFacts DEF Pending
<1>23. N = Cardinality(Pending(F))
  BY DEF Agree
<1> QED
  BY <1>6, <1>7, <1>12, <1>13, <1>14, <1>15, <1>16, <1>17, <1>19, <1>20, <1>21,
     <1>22, <1>23 DEF Agree

\* c has begun to wait, for a source that has nothing for it yet, or for the
\* answer of the process that it is sending to.
LEMMA ReceiveBegins ==
  ASSUME NEW F, NEW G, NEW T, NEW Q, NEW B, NEW P, NEW C, NEW N,
         Agree(F, G, T, Q, B, P, C, N),
         NEW c \in Programs, NEW src \in Procs \cup {ANY},
         "SENDING" \in F[c] => src = T[c],
         "SENDING" \notin F[c] =>
            /\ \A y \in Procs : OnList(Q[c], y) => src \notin {ANY, y}
            /\ ~(c \in Tasks /\ B[c] /\ src \in {ANY, HARDWARE}),
         NEW H, H = [F EXCEPT ![c] = @ \cup {"RECEIVING"}],
         NEW K, K = [G EXCEPT ![c] = src]
  PROVE  Agree(H, K, T, Q, B, P, C, N)
<1>1. FieldTypes(F, G, T, Q, B, P, C)
  BY DEF Agree
<1>2. /\ F \in [Procs -> SUBSET Flags] /\ G \in [Procs -> Procs \cup {ANY}]
      /\ c \in Procs /\ "RECEIVING" \in Flags
  BY <1>1, ProcFacts DEF FieldTypes
<1>3. /\ H \in [Procs -> SUBSET Flags] /\ H[c] = F[c] \cup {"RECEIVING"}
      /\ K \in [Procs -> Procs \cup {ANY}] /\ K[c] = src
      /\ \A p \in Procs \ {c} : H[p] = F[p] /\ K[p] = G[p]
  BY <1>2
<1>4. \A p \in Procs, f \in {"SENDING", "PENDING", "SIG_PENDING"} :
        f \in H[p] <=> f \in F[p]
  BY <1>3
<1>5. FieldTypes(H, K, T, Q, B, P, C)
  BY <1>1, <1>3 DEF FieldTypes
<1>6. FlagsFit(H)
  BY <1>3 DEF Agree, FlagsFit
<1>7. Senders(H, T, Q)
  BY <1>4 DEF Agree, Senders
<1>8. SendsToPrograms(H, K, T)
  BY <1>3, <1>4 DEF Agree, SendsToPrograms
<1>9. NoCycle(H, T)
  BY <1>4, ProcFacts DEF Agree, NoCycle
<1>10. Waiting(H[c]) => "SENDING" \notin F[c]
  BY <1>3 DEF Waiting
<1>11. NoneMissed(H, K, Q)
  <2>1. ASSUME NEW p \in Procs, p # c, Waiting(H[p]), NEW y \in Procs, OnList(Q[p], y)
        PROVE  K[p] \notin {ANY, y}
    BY <1>3, <2>1 DEF Agree, NoneMissed
  <2> QED
    BY <1>3, <1>10, <2>1 DEF NoneMissed
<1>12. IntKept(H, K, B)
  <2>1. ASSUME NEW t \in Tasks, t # c, B[t], Waiting(H[t])
        PROVE  K[t] \notin {ANY, HARDWARE}
    BY <1>3, <2>1, ProcFacts DEF Agree, IntKept
  <2> QED
    BY <1>3, <1>10, <2>1 DEF IntKept
<1>13. SignalsFit(H, P, C)
  BY <1>4, ProcFacts DEF Agree, SignalsFit
<1>14. Pending(H) = Pending(F)
  BY <1>4, ProcFacts DEF Pending
<1> QED
  BY <1>5, <1>6, <1>7, <1>8, <1>9, <1>11, <1>12, <1>13, <1>14 DEF Agree

\* The interrupt of a task is remembered, or no longer.
LEMMA InterruptNoted ==
  ASSUME NEW F, NEW G, NEW T, NEW Q, NEW B, NEW P, NEW C, NEW N,
         Agree(F, G, T, Q, B, P, C, N),
         NEW t \in Tasks, NEW b \in BOOLEAN,
         b /\ Waiting(F[t]) => G[t] \notin {ANY, HARDWARE}
  PROVE  Agree(F, G, T, Q, [B EXCEPT ![t] = b], P, C, N)
<1>1. FieldTypes(F, G, T, Q, B, P, C) /\ B \in [Tasks -> BOOLEAN]
  BY DEF Agree, FieldTypes
<1>2. FieldTypes(F, G, T, Q, [B EXCEPT ![t] = b], P, C)
  BY <1>1 DEF FieldTypes
<1>3. IntKept(F, G, [B EXCEPT ![t] = b])
  BY <1>1 DEF Agree, IntKept
<1> QED
  BY <1>2, <1>3 DEF Agree

\* A signal that was not pending yet has been caused.
LEMMA SignalComes ==
  ASSUME NEW F, NEW G, NEW T, NEW Q, NEW B, NEW P, NEW C, NEW N,
         Agree(F, G, T, Q, B, P, C, N),
         NEW p \in UserSlots, p \in Programs,
         NEW sig \in SIGS, sig \notin P[p],
         NEW H, H = [F EXCEPT ![p] = @ \cup {"PENDING", "SIG_PENDING"}],
         NEW O, O = [P EXCEPT ![p] = @ \cup {sig}],
         NEW D, D = [C EXCEPT ![p] = @ + 1]
  PROVE  /\ "PENDING" \in F[p] => H = F /\ Agree(F, G, T, Q, B, O, D, N)
         /\ "PENDING" \notin F[p] => Agree(H, G, T, Q, B, O, D, N + 1)
<1>1. FieldTypes(F, G, T, Q, B, P, C)
  BY DEF Agree
<1>2. /\ F \in [Procs -> SUBSET Flags] /\ P \in [Slots -> SUBSET SIGS]
      /\ C \in [Slots -> Nat] /\ p \in Procs /\ p \in Slots
      /\ "PENDING" \in Flags /\ "SIG_PENDING" \in Flags
  BY <1>1, ProcFacts DEF FieldTypes
<1>3. /\ H \in [Procs -> SUBSET Flags]
      /\ H[p] = F[p] \cup {"PENDING", "SIG_PENDING"}
      /\ \A x \in Procs \ {p} : H[x] = F[x]
  BY <1>2
<1>4. /\ O \in [Slots -> SUBSET SIGS] /\ O[p] = P[p] \cup {sig}
      /\ \A x \in Slots \ {p} : O[x] = P[x]
      /\ D \in [Slots -> Nat] /\ D[p] = C[p] + 1
      /\ \A x \in Slots \ {p} : D[x] = C[x]
  BY <1>2
<1>5. /\ \A x \in Procs, f \in {"SENDING", "RECEIVING"} : f \in H[x] <=> f \in F[x]
      /\ \A x \in Procs : Waiting(H[x]) = Waiting(F[x])
  BY <1>3 DEF Waiting
<1>6. SignalsFit(F, P, C)
  BY DEF Agree
<1>7. FieldTypes(H, G, T, Q, B, O, D)
  BY <1>1, <1>3, <1>4 DEF FieldTypes
<1>8. FlagsFit(H)
  BY <1>3 DEF Agree, FlagsFit
<1>9. Senders(H, T, Q)
  BY <1>5 DEF Agree, Senders
<1>10. SendsToPrograms(H, G, T)
  BY <1>5 DEF Agree, SendsToPrograms
<1>11. NoCycle(H, T)
  BY <1>5, ProcFacts DEF Agree, NoCycle
<1>12. NoneMissed(H, G, Q)
  BY <1>5 DEF Agree, NoneMissed
<1>13. IntKept(H, G, B)
  BY <1>5, ProcFacts DEF Agree, IntKept
<1>14. IsFiniteSet(O[p]) /\ Cardinality(O[p]) <= D[p]
  <2>1. IsFiniteSet(P[p]) /\ Cardinality(P[p]) <= C[p]
    BY <1>2, <1>6 DEF SignalsFit
  <2>2. IsFiniteSet(O[p]) /\ Cardinality(O[p]) = Cardinality(P[p]) + 1
    BY <1>4, <2>1, FS_AddElement
  <2>3. Cardinality(P[p]) \in Nat /\ C[p] \in Nat
    BY <1>2, <2>1, FS_CardinalityType
  <2> QED
    BY <1>4, <2>1, <2>2, <2>3
<1>15. SignalsFit(H, O, D)
  <2> SUFFICES ASSUME NEW x \in Slots
               PROVE  /\ IsFiniteSet(O[x]) /\ Cardinality(O[x]) <= D[x]
                      /\ "PENDING" \in H[x] => O[x] # {}
                      /\ D[x] > 0 => "SIG_PENDING" \in H[x]
    BY DEF SignalsFit
  <2>1. CASE x = p
    BY <1>3, <1>4, <1>14, <2>1
  <2>2. CASE x # p
    <3>1. H[x] = F[x] /\ O[x] = P[x] /\ D[x] = C[x]
      BY <1>3, <1>4, <2>2, ProcFacts
    <3> QED
      BY <1>6, <3>1 DEF SignalsFit
  <2> QED
    BY <2>1, <2>2
<1>16. ASSUME "PENDING" \in F[p] PROVE H = F
  <2>1. Cardinality(P[p]) > 0
    <3>1. IsFiniteSet(P[p]) /\ P[p] # {}
      BY <1>2, <1>6, <1>16 DEF SignalsFit
    <3> QED
      BY <3>1, FS_EmptySet, FS_CardinalityType
  <2>2. C[p] \in Nat /\ Cardinality(P[p]) <= C[p] /\ IsFiniteSet(P[p])
    BY <1>2, <1>6 DEF SignalsFit
  <2>3. C[p] > 0
    BY <2>1, <2>2, FS_CardinalityType
  <2>4. "SIG_PENDING" \in F[p]
    BY <1>2, <1>6, <2>3 DEF SignalsFit
  <2>5. H[p] = F[p]
    BY <1>3, <1>16, <2>4
  <2> QED
    BY <1>2, <1>3, <2>5
<1>17. N = Cardinality(Pending(F))
  BY DEF Agree
<1>18. ASSUME "PENDING" \notin F[p] PROVE Cardinality(Pending(H)) = N + 1
  <2>1. Pending(H) = Pending(F) \cup {p} /\ p \notin Pending(F)
    <3>1. \A x \in Slots : "PENDING" \in H[x] <=> "PENDING" \in F[x] \/ x = p
      BY <1>3, ProcFacts
    <3> QED
      BY <1>2, <1>18, <3>1 DEF Pending
  <2>2. IsFiniteSet(Pending(F))
    BY PendingFinite
  <2> QED
    BY <1>17, <2>1, <2>2, FS_AddElement
<1>19. "PENDING" \notin F[p] => Agree(H, G, T, Q, B, O, D, N + 1)
  BY <1>7, <1>8, <1>9, <1>10, <1>11, <1>12, <1>13, <1>15, <1>18 DEF Agree
<1>20. ASSUME "PENDING" \in F[p] PROVE Agree(F, G, T, Q, B, O, D, N)
  <2>1. H = F
    BY <1>16, <1>20
  <2> QED
    BY <2>1, <1>7, <1>8, <1>9, <1>10, <1>11, <1>12, <1>13, <1>15, <1>17 DEF Agree
<1> QED
  BY <1>16, <1>19, <1>20

\* MM has been told of the signals of p.
Told(F, p) == [F EXCEPT ![p] = @ \ {"PENDING"}]
Emptied(P, p) == [P EXCEPT ![p] = {}]

\* A signal that MM is told of is no longer PENDING.
LEMMA SignalTold ==
  ASSUME NEW F, NEW G, NEW T, NEW Q, NEW B, NEW P, NEW C, NEW N,
         Agree(F, G, T, Q, B, P, C, N),
         NEW p \in Pending(F)
  PROVE  /\ Agree(Told(F, p), G, T, Q, B, Emptied(P, p), C, N - 1)
         /\ \A x \in Procs : Told(F, p)[x] = {} <=> F[x] = {}
<1>0. PICK H, O : /\ H = Told(F, p) /\ H = [F EXCEPT ![p] = @ \ {"PENDING"}]
                  /\ O = Emptied(P, p) /\ O = [P EXCEPT ![p] = {}]
  BY DEF Told, Emptied
<1>1. FieldTypes(F, G, T, Q, B, P, C)
  BY DEF Agree
<1>2. /\ F \in [Procs -> SUBSET Flags] /\ P \in [Slots -> SUBSET SIGS]
      /\ C \in [Slots -> Nat] /\ p \in Procs /\ p \in Slots /\ "PENDING" \in F[p]
  BY <1>1, ProcFacts DEF FieldTypes, Pending
<1>3. /\ H \in [Procs -> SUBSET Flags] /\ H[p] = F[p] \ {"PENDING"}
      /\ \A x \in Procs \ {p} : H[x] = F[x]
  BY <1>0, <1>2
<1>4. /\ O \in [Slots -> SUBSET SIGS] /\ O[p] = {}
      /\ \A x \in Slots \ {p} : O[x] = P[x]
  BY <1>0, <1>2
<1>5. /\ \A x \in Procs, f \in {"SENDING", "RECEIVING", "SIG_PENDING"} :
           f \in H[x] <=> f \in F[x]
      /\ \A x \in Procs : Waiting(H[x]) = Waiting(F[x])
  BY <1>3 DEF Waiting
<1>6. SignalsFit(F, P, C)
  BY DEF Agree
<1>7. FieldTypes(H, G, T, Q, B, O, C)
  BY <1>1, <1>3, <1>4 DEF FieldTypes
<1>8. FlagsFit(H)
  BY <1>3 DEF Agree, FlagsFit
<1>9. Senders(H, T, Q)
  BY <1>5 DEF Agree, Senders
<1>10. SendsToPrograms(H, G, T)
  BY <1>5 DEF Agree, SendsToPrograms
<1>11. NoCycle(H, T)
  BY <1>5, ProcFacts DEF Agree, NoCycle
<1>12. NoneMissed(H, G, Q)
  BY <1>5 DEF Agree, NoneMissed
<1>13. IntKept(H, G, B)
  BY <1>5, ProcFacts DEF Agree, IntKept
<1>14. SignalsFit(H, O, C)
  <2> SUFFICES ASSUME NEW x \in Slots
               PROVE  /\ IsFiniteSet(O[x]) /\ Cardinality(O[x]) <= C[x]
                      /\ "PENDING" \in H[x] => O[x] # {}
                      /\ C[x] > 0 => "SIG_PENDING" \in H[x]
    BY DEF SignalsFit
  <2>1. CASE x = p
    <3>1. IsFiniteSet(O[x]) /\ Cardinality(O[x]) = 0 /\ C[x] \in Nat
      BY <1>2, <1>4, <2>1, FS_EmptySet
    <3> QED
      BY <1>2, <1>3, <1>5, <1>6, <2>1, <3>1 DEF SignalsFit
  <2>2. CASE x # p
    <3>1. H[x] = F[x] /\ O[x] = P[x]
      BY <1>3, <1>4, <2>2, ProcFacts
    <3> QED
      BY <1>6, <3>1 DEF SignalsFit
  <2> QED
    BY <2>1, <2>2
<1>15. Cardinality(Pending(H)) = N - 1
  <2>1. Pending(H) = Pending(F) \ {p}
    <3>1. \A x \in Slots : "PENDING" \in H[x] <=> "PENDING" \in F[x] /\ x # p
      BY <1>3, ProcFacts
    <3> QED
      BY <3>1 DEF Pending
  <2>2. IsFiniteSet(Pending(F)) /\ N = Cardinality(Pending(F))
    BY PendingFinite DEF Agree
  <2> QED
    BY <2>1, <2>2, FS_RemoveElement
<1>16. Agree(H, G, T, Q, B, O, C, N - 1)
  BY <1>7, <1>8, <1>9, <1>10, <1>11, <1>12, <1>13, <1>14, <1>15 DEF Agree
<1>17. "SIG_PENDING" \in F[p]
  <2>1. IsFiniteSet(P[p]) /\ P[p] # {} /\ Cardinality(P[p]) <= C[p] /\ C[p] \in Nat
    BY <1>2, <1>6 DEF SignalsFit
  <2>2. Cardinality(P[p]) \in Nat /\ Cardinality(P[p]) # 0
    BY <2>1, FS_EmptySet, FS_CardinalityType
  <2>3. C[p] > 0
    BY <2>1, <2>2
  <2> QED
    BY <1>2, <1>6, <2>3 DEF SignalsFit
<1>18. \A x \in Procs : H[x] = {} <=> F[x] = {}
  BY <1>2, <1>3, <1>17
<1> QED
  BY <1>0, <1>16, <1>18

\* MM has finished one of the signals of p, not one it has not been told of.
Ended(F, p) == [F EXCEPT ![p] = @ \ {"SIG_PENDING"}]
OneLess(C, p) == [C EXCEPT ![p] = @ - 1]

\* The end of a signal that MM was told of; with the last, SIG_PENDING goes.
LEMMA SignalEnds ==
  ASSUME NEW F, NEW G, NEW T, NEW Q, NEW B, NEW P, NEW C, NEW N,
         Agree(F, G, T, Q, B, P, C, N),
         NEW p \in UserSlots, C[p] > Cardinality(P[p])
  PROVE  /\ C[p] # 0 /\ "SIG_PENDING" \in F[p]
         /\ OneLess(C, p)[p] # 0 => Agree(F, G, T, Q, B, P, OneLess(C, p), N)
         /\ OneLess(C, p)[p] = 0 =>
              Agree(Ended(F, p), G, T, Q, B, P, OneLess(C, p), N)
<1>0. PICK H, D : /\ H = Ended(F, p) /\ H = [F EXCEPT ![p] = @ \ {"SIG_PENDING"}]
                  /\ D = OneLess(C, p) /\ D = [C EXCEPT ![p] = @ - 1]
  BY DEF Ended, OneLess
<1>1. FieldTypes(F, G, T, Q, B, P, C) /\ SignalsFit(F, P, C)
  BY DEF Agree
<1>2. /\ F \in [Procs -> SUBSET Flags] /\ P \in [Slots -> SUBSET SIGS]
      /\ C \in [Slots -> Nat] /\ p \in Procs /\ p \in Slots
  BY <1>1, ProcFacts DEF FieldTypes
<1>3. /\ IsFiniteSet(P[p]) /\ Cardinality(P[p]) \in Nat /\ C[p] \in Nat
      /\ C[p] > 0 /\ "SIG_PENDING" \in F[p]
  <2>1. IsFiniteSet(P[p]) /\ C[p] \in Nat
    BY <1>1, <1>2 DEF SignalsFit
  <2>2. Cardinality(P[p]) \in Nat
    BY <2>1, FS_CardinalityType
  <2>3. C[p] > 0
    BY <2>1, <2>2
  <2> QED
    BY <1>1, <1>2, <2>1, <2>2, <2>3 DEF SignalsFit
<1>4. /\ D \in [Slots -> Nat] /\ D[p] = C[p] - 1
      /\ \A x \in Slots \ {p} : D[x] = C[x]
  <2>1. C[p] - 1 \in Nat
    BY <1>3
  <2> QED
    BY <1>0, <1>2, <2>1
<1>5. ASSUME D[p] # 0 PROVE Agree(F, G, T, Q, B, P, D, N)
  <2>1. SignalsFit(F, P, D)
    <3> SUFFICES ASSUME NEW x \in Slots
                 PROVE  /\ IsFiniteSet(P[x]) /\ Cardinality(P[x]) <= D[x]
                        /\ "PENDING" \in F[x] => P[x] # {}
                        /\ D[x] > 0 => "SIG_PENDING" \in F[x]
      BY DEF SignalsFit
    <3>1. CASE x = p
      BY <1>1, <1>3, <1>4, <3>1 DEF SignalsFit
    <3>2. CASE x # p
      BY <1>1, <1>4, <3>2 DEF SignalsFit
    <3> QED
      BY <3>1, <3>2
  <2>2. FieldTypes(F, G, T, Q, B, P, D)
    BY <1>1, <1>4 DEF FieldTypes
  <2> QED
    BY <2>1, <2>2 DEF Agree
<1>6. ASSUME D[p] = 0 PROVE Agree(H, G, T, Q, B, P, D, N)
  <2>1. /\ H \in [Procs -> SUBSET Flags] /\ H[p] = F[p] \ {"SIG_PENDING"}
        /\ \A x \in Procs \ {p} : H[x] = F[x]
    BY <1>0, <1>2
  <2>2. /\ \A x \in Procs, f \in {"SENDING", "RECEIVING", "PENDING"} :
             f \in H[x] <=> f \in F[x]
        /\ \A x \in Procs : Waiting(H[x]) = Waiting(F[x])
    BY <2>1 DEF Waiting
  <2>3. FieldTypes(H, G, T, Q, B, P, D)
    BY <1>1, <1>4, <2>1 DEF FieldTypes
  <2>4. FlagsFit(H)
    BY <2>1 DEF Agree, FlagsFit
  <2>5. Senders(H, T, Q)
    BY <2>2 DEF Agree, Senders
  <2>6. SendsToPrograms(H, G, T)
    BY <2>2 DEF Agree, SendsToPrograms
  <2>7. NoCycle(H, T)
    BY <2>2, ProcFacts DEF Agree, NoCycle
  <2>8. NoneMissed(H, G, Q)
    BY <2>2 DEF Agree, NoneMissed
  <2>9. IntKept(H, G, B)
    BY <2>2, ProcFacts DEF Agree, IntKept
  <2>10. SignalsFit(H, P, D)
    <3> SUFFICES ASSUME NEW x \in Slots
                 PROVE  /\ IsFiniteSet(P[x]) /\ Cardinality(P[x]) <= D[x]
                        /\ "PENDING" \in H[x] => P[x] # {}
                        /\ D[x] > 0 => "SIG_PENDING" \in H[x]
      BY DEF SignalsFit
    <3>1. CASE x = p
      <4>1. "PENDING" \in H[x] => P[x] # {}
        BY <1>1, <2>1, <3>1 DEF SignalsFit
      <4> QED
        BY <1>3, <1>4, <1>6, <3>1, <4>1
    <3>2. CASE x # p
      <4>1. H[x] = F[x] /\ D[x] = C[x]
        BY <1>4, <2>1, <3>2, ProcFacts
      <4> QED
        BY <1>1, <4>1 DEF SignalsFit
    <3> QED
      BY <3>1, <3>2
  <2>11. Pending(H) = Pending(F)
    BY <2>2, ProcFacts DEF Pending
  <2>12. N = Cardinality(Pending(F))
    BY DEF Agree
  <2> QED
    BY <2>3, <2>4, <2>5, <2>6, <2>7, <2>8, <2>9, <2>10, <2>11, <2>12 DEF Agree
<1> QED
  BY <1>0, <1>3, <1>5, <1>6
-----------------------------------------------------------------------------
(* States *)

\* What holds of the process table even in the middle of a system call
Fine(s) ==
  /\ s \in KernelState /\ Priorities(s) /\ ~s.panic
  /\ Agree(s.p_flags, s.p_getfrom, s.p_sendto, s.p_callerq, s.p_int_blocked,
           s.p_pending, s.p_pendcount, s.sig_procs)

Sound(s) == Fine(s) /\ Lists(s.rdy, Runnable(s))

\* MM does not wait for any message while it has to be told of a signal.
MMHears(s) ==
  s.sig_procs > 0 => ~(Waiting(s.p_flags[MM]) /\ s.p_getfrom[MM] = ANY)

\* Who is released gets a message of the source it asked for.
Asked(s, n) ==
  \A p \in Programs :
    "RECEIVING" \in s.p_flags[p] /\ "RECEIVING" \notin n.p_flags[p] =>
      s.p_getfrom[p] \in {ANY, n.mess[p].src}

Highest(s) == s.proc_ptr = Top(s.rdy)

Safe(s) == Sound(s) /\ MMHears(s) /\ Highest(s)

\* What SameData keeps
LEMMA SameDataFine ==
  ASSUME NEW s, NEW n \in KernelState, Fine(s), SameData(s, n)
  PROVE  /\ Fine(n) /\ Runnable(n) = Runnable(s)
         /\ MMHears(s) <=> MMHears(n)
BY DEF Fine, SameData, Runnable, MMHears, Priorities

\* The process that runs is at the head of the queue of its class, and has no
\* flag set.
LEMMA Running ==
  ASSUME NEW s, Sound(s), Highest(s), NEW c \in Programs, c = s.proc_ptr
  PROVE  /\ s.p_flags[c] = {}
         /\ s.rdy[Class(c)] # << >> /\ Head(s.rdy[Class(c)]) = c
         /\ c \notin UserSlots => \A p \in Programs : NeverFirst(s.rdy, p)
<1>1. PICK R \in [Queues -> Seq(Schedulable)] : R = s.rdy
  BY DEF Sound, Fine, KernelState
<1>2. /\ c \in Schedulable /\ c # IDLE /\ Class(c) \in Queues
      /\ Class(c) = USER_Q <=> c \in UserSlots
  BY Classes DEF Sound, Fine, Schedulable
<1>3. PICK q \in Queues : R[q] # << >> /\ Head(R[q]) = c
  BY <1>1, <1>2 DEF Highest, Top, Queues
<1>4. OnList(R[q], c)
  <2>1. R[q] \in Seq(Schedulable)
    BY <1>1
  <2> QED
    BY <1>3, <2>1, HeadInSeq
<1>5. q = Class(c) /\ c \in Runnable(s)
  BY <1>1, <1>2, <1>4 DEF Sound, Lists
<1>6. c \notin UserSlots => q = TASK_Q \/ q = SERVER_Q
  BY <1>2, <1>3, <1>5 DEF Queues
<1> QED
  BY <1>1, <1>3, <1>5, <1>6 DEF Runnable, NeverFirst

\* A message that d waits for is copied to d.
Deliver(s, d, m) ==
  Wake([s EXCEPT !.mess[d] = m, !.p_flags[d] = @ \ {"RECEIVING"}], d)

Delivers(s, d, n) ==
  /\ Sound(n) /\ Asked(s, n)
  /\ n.p_flags = [s.p_flags EXCEPT ![d] = @ \ {"RECEIVING"}]
  /\ n.p_getfrom = s.p_getfrom /\ n.p_sendto = s.p_sendto
  /\ n.p_callerq = s.p_callerq /\ n.p_int_blocked = s.p_int_blocked
  /\ n.p_pending = s.p_pending /\ n.sig_procs = s.sig_procs
  /\ MMHears(s) => MMHears(n)
  /\ Highest(s) /\ NeverFirst(s.rdy, d) => Highest(n)
  /\ Class(d) # TASK_Q => n.proc_ptr = s.proc_ptr
  /\ Class(d) # USER_Q => n.rdy[USER_Q] = s.rdy[USER_Q]

\* Copying a message to a process that waits for it keeps Sound.
LEMMA Delivered ==
  ASSUME NEW s, Sound(s), NEW d \in Programs, NEW m \in Mess,
         Waiting(s.p_flags[d]), s.p_getfrom[d] \in {ANY, m.src}
  PROVE  Delivers(s, d, Deliver(s, d, m))
<1> DEFINE s1 == [s EXCEPT !.mess[d] = m, !.p_flags[d] = @ \ {"RECEIVING"}]
<1>0. PICK n : n = Deliver(s, d, m) /\ n = Wake(s1, d)
  BY DEF Deliver
<1>1. s \in KernelState /\ d \in Procs
  BY ProcFacts DEF Sound, Fine
<1>2. PICK F, M : /\ F = [s.p_flags EXCEPT ![d] = @ \ {"RECEIVING"}]
                  /\ M = [s.mess EXCEPT ![d] = m]
  OBVIOUS
<1>3. s.p_flags \in [Procs -> SUBSET Flags] /\ s.mess \in [Procs -> Mess]
  BY <1>1 DEF KernelState
<1>4. F \in [Procs -> SUBSET Flags] /\ M \in [Procs -> Mess]
  BY <1>2, <1>3
<1>5. s1 = [s EXCEPT !.mess = M, !.p_flags = F]
  BY <1>1, <1>2 DEF KernelState
<1> HIDE DEF s1
<1>6. /\ s1 \in KernelState
      /\ s1.p_flags = F /\ s1.mess = M /\ s1.p_priority = s.p_priority
      /\ s1.p_getfrom = s.p_getfrom /\ s1.p_sendto = s.p_sendto
      /\ s1.p_callerq = s.p_callerq /\ s1.p_int_blocked = s.p_int_blocked
      /\ s1.p_pending = s.p_pending /\ s1.p_pendcount = s.p_pendcount
      /\ s1.sig_procs = s.sig_procs /\ s1.panic = s.panic
      /\ s1.rdy = s.rdy /\ s1.proc_ptr = s.proc_ptr
  BY <1>1, <1>4, <1>5 DEF KernelState
<1>7. Fine(s1)
  <2>1. Agree(F, s.p_getfrom, s.p_sendto, s.p_callerq, s.p_int_blocked,
              s.p_pending, s.p_pendcount, s.sig_procs)
    BY <1>1, <1>2, ReceiveEnds DEF Sound, Fine
  <2> QED
    BY <1>6, <2>1 DEF Sound, Fine, Priorities
<1>8. Lists(s1.rdy, Runnable(s1) \ {d})
  <2>1. s.p_flags[d] # {}
    BY DEF Waiting
  <2>2. Runnable(s1) \ {d} = Runnable(s)
    BY <1>2, <1>3, <1>6, <2>1 DEF Runnable
  <2> QED
    BY <1>6, <2>2 DEF Sound
<1>9. Priorities(s1)
  BY <1>7 DEF Fine
<1>10. /\ n \in KernelState /\ SameData(s1, n) /\ Lists(n.rdy, Runnable(s1))
       /\ s1.proc_ptr = Top(s1.rdy) /\ NeverFirst(s1.rdy, d) => n.proc_ptr = Top(n.rdy)
       /\ Class(d) # TASK_Q => n.proc_ptr = s1.proc_ptr
       /\ Class(d) # USER_Q => n.rdy[USER_Q] = s1.rdy[USER_Q]
  BY <1>0, <1>6, <1>8, <1>9, WakeKeeps
<1>11. Sound(n) /\ (MMHears(s1) <=> MMHears(n))
  BY <1>7, <1>10, SameDataFine DEF Sound
<1>12. MMHears(s) => MMHears(s1)
  BY <1>2, <1>3, <1>6, ProcFacts DEF MMHears, Waiting
<1>13. /\ n.p_flags = F /\ n.mess = M /\ n.p_getfrom = s.p_getfrom
       /\ n.p_sendto = s.p_sendto /\ n.p_callerq = s.p_callerq
       /\ n.p_int_blocked = s.p_int_blocked
       /\ n.p_pending = s.p_pending /\ n.sig_procs = s.sig_procs
  BY <1>6, <1>10 DEF SameData
<1>14. Asked(s, n)
  <2>1. \A p \in Programs \ {d} : F[p] = s.p_flags[p]
    BY <1>2, <1>3, ProcFacts
  <2>2. M[d] = m
    BY <1>1, <1>2, <1>3
  <2> QED
    BY <1>13, <2>1, <2>2 DEF Asked
<1> QED
  BY <1>0, <1>2, <1>6, <1>10, <1>11, <1>12, <1>13, <1>14 DEF Highest, Delivers

\* The process that runs may stop: after it, the head of the queues runs.
MayStop(s, c) ==
  \/ Highest(s)
  \/ /\ s.p_flags[c] = {} /\ s.proc_ptr = c
     /\ Head(s.rdy[Class(c)]) = c

\* c begins to wait for d to take its message.
Block(s, c, d) ==
  [Halt(s, c) EXCEPT !.p_flags[c] = @ \cup {"SENDING"}, !.p_sendto[c] = d,
                     !.p_callerq[d] = Append(@, c)]

Blocks(s, c, d, n) ==
  /\ Sound(n) /\ n.p_flags[c] = {"SENDING"} /\ n.p_sendto[c] = d
  /\ \A p \in Procs \ {c} : n.p_flags[p] = s.p_flags[p]
  /\ n.p_getfrom = s.p_getfrom
  /\ MMHears(s) => MMHears(n)
  /\ MayStop(s, c) => Highest(n)

\* Putting a sender on the caller queue keeps Sound: the ELOCKED check has
\* excluded that it closes a circle.
LEMMA Blocked ==
  ASSUME NEW s, Sound(s), NEW c \in Programs, NEW d \in Programs, c # d,
         s.p_flags[c] = {}, c \notin SendChain(s, d),
         ~WaitsForMessageOf(s, d, c)
  PROVE  Blocks(s, c, d, Block(s, c, d))
<1>0. PICK n : n = Block(s, c, d)
  OBVIOUS
<1>1. s \in KernelState /\ c \in Procs /\ d \in Procs /\ Priorities(s)
  BY ProcFacts DEF Sound, Fine
<1>2. PICK h : h = Halt(s, c)
  OBVIOUS
<1>3. /\ h \in KernelState /\ SameData(s, h)
      /\ Lists(h.rdy, Runnable(s) \ {c})
      /\ MayStop(s, c) => h.proc_ptr = Top(h.rdy)
  <2>1. Lists(s.rdy, Runnable(s))
    BY DEF Sound
  <2> QED
    BY <1>1, <1>2, <2>1, HaltKeeps DEF MayStop, Highest
<1>4. /\ h.p_flags = s.p_flags /\ h.p_sendto = s.p_sendto
      /\ h.p_callerq = s.p_callerq /\ h.p_getfrom = s.p_getfrom
      /\ h.p_priority = s.p_priority /\ h.p_int_blocked = s.p_int_blocked
      /\ h.p_pending = s.p_pending /\ h.p_pendcount = s.p_pendcount
      /\ h.sig_procs = s.sig_procs /\ h.panic = s.panic
  BY <1>3 DEF SameData
<1>5. PICK F, T, Q : /\ F = [s.p_flags EXCEPT ![c] = @ \cup {"SENDING"}]
                     /\ T = [s.p_sendto EXCEPT ![c] = d]
                     /\ Q = [s.p_callerq EXCEPT ![d] = Append(@, c)]
  OBVIOUS
<1>6. /\ s.p_flags \in [Procs -> SUBSET Flags] /\ s.p_sendto \in [Procs -> Procs]
      /\ s.p_callerq \in [Procs -> Seq(Procs)]
  BY <1>1 DEF KernelState
<1>7. n = [h EXCEPT !.p_flags = F, !.p_sendto = T, !.p_callerq = Q]
  BY <1>0, <1>2, <1>3, <1>4, <1>5 DEF KernelState, Block
<1>8. Agree(F, s.p_getfrom, T, Q, s.p_int_blocked, s.p_pending, s.p_pendcount,
            s.sig_procs)
  <2>1. Agree(s.p_flags, s.p_getfrom, s.p_sendto, s.p_callerq, s.p_int_blocked,
              s.p_pending, s.p_pendcount, s.sig_procs)
    BY DEF Sound, Fine
  <2>2. NoCycle(F, T)
    BY <1>1, <1>5, <2>1, NoCycleCloses DEF Agree
  <2>3. Waiting(s.p_flags[d]) => s.p_getfrom[d] \notin {ANY, c}
    BY DEF WaitsForMessageOf, Waiting
  <2> QED
    BY <1>5, <2>1, <2>2, <2>3, SendBegins
<1>9. /\ F \in [Procs -> SUBSET Flags] /\ T \in [Procs -> Procs]
      /\ Q \in [Procs -> Seq(Procs)]
  BY <1>8 DEF Agree, FieldTypes
<1>10. /\ n \in KernelState
       /\ n.p_flags = F /\ n.p_sendto = T /\ n.p_callerq = Q
       /\ n.p_getfrom = s.p_getfrom /\ n.p_priority = s.p_priority
       /\ n.p_int_blocked = s.p_int_blocked /\ n.p_pending = s.p_pending
       /\ n.p_pendcount = s.p_pendcount /\ n.sig_procs = s.sig_procs
       /\ n.panic = s.panic /\ n.rdy = h.rdy /\ n.proc_ptr = h.proc_ptr
  BY <1>3, <1>4, <1>7, <1>9 DEF KernelState
<1>11. Fine(n)
  BY <1>8, <1>10 DEF Sound, Fine, Priorities
<1>12. /\ F[c] = {"SENDING"} /\ T[c] = d
       /\ \A p \in Procs \ {c} : F[p] = s.p_flags[p]
  BY <1>1, <1>5, <1>6
<1>13. Runnable(n) = Runnable(s) \ {c}
  BY <1>1, <1>10, <1>12 DEF Runnable
<1>14. Sound(n)
  BY <1>3, <1>10, <1>11, <1>13 DEF Sound
<1>15. MMHears(s) => MMHears(n)
  BY <1>10, <1>12, ProcFacts DEF MMHears, Waiting
<1> QED
  BY <1>0, <1>3, <1>10, <1>12, <1>14, <1>15 DEF Highest, Blocks

\* The running process sends: it is refused, or its message is delivered, or
\* it is blocked.  A process that also waits for the answer goes on from here.
LEMMA SendKeeps ==
  ASSUME NEW s, Sound(s), Highest(s), MMHears(s),
         NEW c \in Programs, c = s.proc_ptr,
         NEW d \in Programs, d # c,
         NEW n, n = mini_send(s, c, d, c)
  PROVE  /\ n.r # OK => n.k = s
         /\ n.r = OK =>
              /\ Sound(n.k) /\ MMHears(n.k) /\ Asked(s, n.k) /\ MayStop(n.k, c)
              /\ c \notin UserSlots => Highest(n.k)
              /\ \/ /\ n.k.p_flags[c] = {} /\ ~Waiting(s.p_flags[c])
                    /\ n.k.p_callerq[c] = s.p_callerq[c]
                    /\ ~OnList(n.k.p_callerq[c], d)
                 \/ n.k.p_flags[c] = {"SENDING"} /\ n.k.p_sendto[c] = d
              /\ \A p \in Programs \ {d} :
                   "RECEIVING" \in n.k.p_flags[p] <=> "RECEIVING" \in s.p_flags[p]
<1>1. /\ s \in KernelState /\ Priorities(s) /\ c \in Procs /\ d \in Procs
      /\ Programs \subseteq Procs
  BY ProcFacts DEF Sound, Fine
<1>2. /\ s.p_flags[c] = {} /\ Head(s.rdy[Class(c)]) = c
      /\ c \notin UserSlots => NeverFirst(s.rdy, d)
  BY Running
<1>3. /\ ~isemptyp(s, d)
      /\ isuserp(s, c) <=> c \in UserSlots
      /\ Class(c) = USER_Q <=> c \in UserSlots
  BY <1>1, Classes
<1>4. OK # E_BAD_DEST /\ OK # ELOCKED
  BY DEF OK, E_BAD_DEST, ELOCKED
<1>5. CASE (isuserp(s, c) /\ d \notin {MM, FS}) \/ c \in SendChain(s, d)
  BY <1>3, <1>4, <1>5 DEF mini_send
<1>6. CASE /\ ~(isuserp(s, c) /\ d \notin {MM, FS}) /\ c \notin SendChain(s, d)
           /\ WaitsForMessageOf(s, d, c)
  <2>1. PICK m : m = [s.mess[c] EXCEPT !.src = c]
    OBVIOUS
  <2>2. m \in Mess /\ m.src = c
    <3>1. s.mess[c] \in Mess
      BY <1>1 DEF KernelState
    <3> QED
      BY <1>1, <2>1, <3>1 DEF Mess
  <2>3. PICK w : w = Deliver(s, d, m)
    OBVIOUS
  <2>5. n = [k |-> w, r |-> OK]
    BY <1>3, <1>6, <2>1, <2>3 DEF mini_send, Wake, Deliver
  <2>6. Waiting(s.p_flags[d]) /\ s.p_getfrom[d] \in {ANY, m.src}
    BY <1>6, <2>2 DEF WaitsForMessageOf, Waiting
  <2>7. /\ Sound(w) /\ Asked(s, w)
        /\ w.p_flags = [s.p_flags EXCEPT ![d] = @ \ {"RECEIVING"}]
        /\ w.p_callerq = s.p_callerq
        /\ MMHears(s) => MMHears(w)
        /\ Highest(s) /\ NeverFirst(s.rdy, d) => Highest(w)
        /\ Class(d) # TASK_Q => w.proc_ptr = s.proc_ptr
        /\ Class(d) # USER_Q => w.rdy[USER_Q] = s.rdy[USER_Q]
    <3>1. Delivers(s, d, w)
      BY <2>2, <2>3, <2>6, Delivered
    <3> QED
      BY <3>1 DEF Delivers
  <2>8. s.p_flags \in [Procs -> SUBSET Flags]
    BY <1>1 DEF KernelState
  <2>9. /\ w.p_flags[c] = {}
        /\ \A p \in Programs \ {d} : w.p_flags[p] = s.p_flags[p]
    BY <1>1, <1>2, <2>7, <2>8
  <2>10. ~OnList(s.p_callerq[c], d)
    BY <1>1, <2>6 DEF Sound, Fine, Agree, Senders, Waiting
  <2>11. MayStop(w, c)
    <3>1. CASE c \notin UserSlots
      BY <1>2, <2>7, <3>1 DEF MayStop
    <3>2. CASE c \in UserSlots
      <4>1. Class(d) = SERVER_Q
        BY <1>3, <1>6, <3>2
           DEF Class, MM, FS, Tasks, DISK, CLOCK, SYSTASK, TASK_Q, SERVER_Q, USER_Q
      <4>2. Class(d) # TASK_Q /\ Class(d) # USER_Q
        BY <4>1 DEF TASK_Q, SERVER_Q, USER_Q
      <4>3. Class(c) = USER_Q
        BY <1>3, <3>2
      <4> QED
        BY <1>2, <2>7, <2>9, <4>2, <4>3 DEF MayStop
    <3> QED
      BY <3>1, <3>2
  <2>12. ~Waiting(s.p_flags[c])
    BY <1>2 DEF Waiting
  <2>13. n.k = w /\ n.r = OK
    BY <2>5
  <2> QED
    BY <1>2, <2>7, <2>9, <2>10, <2>11, <2>12, <2>13
<1>7. CASE /\ ~(isuserp(s, c) /\ d \notin {MM, FS}) /\ c \notin SendChain(s, d)
           /\ ~WaitsForMessageOf(s, d, c)
  <2>1. PICK w : w = Block(s, c, d)
    OBVIOUS
  <2>2. n = [k |-> w, r |-> OK]
    BY <1>3, <1>7, <2>1 DEF mini_send, Halt, Block
  <2>3. /\ Sound(w) /\ w.p_flags[c] = {"SENDING"} /\ w.p_sendto[c] = d
        /\ \A p \in Procs \ {c} : w.p_flags[p] = s.p_flags[p]
        /\ MMHears(w) /\ Highest(w)
    <3>1. Blocks(s, c, d, w)
      BY <1>2, <1>7, <2>1, Blocked
    <3> QED
      BY <3>1 DEF Blocks, MayStop
  <2>4. /\ \A p \in Programs :
             "RECEIVING" \in w.p_flags[p] <=> "RECEIVING" \in s.p_flags[p]
        /\ Asked(s, w)
    BY <1>1, <1>2, <2>3 DEF Asked
  <2> QED
    BY <1>2, <2>2, <2>3, <2>4 DEF MayStop
<1> QED
  BY <1>5, <1>6, <1>7

\* inform() is called when MM waits for any message and there is a signal to
\* tell; it never has to wait for MM.
Informs(s, n) ==
  /\ Safe(n)
  /\ \A p \in Procs \ {MM} :
       "RECEIVING" \in n.p_flags[p] <=> "RECEIVING" \in s.p_flags[p]

\* inform() tells MM of one process with signals, and MM takes the message.
LEMMA Informed ==
  ASSUME NEW s, Sound(s), Waiting(s.p_flags[MM]), s.p_getfrom[MM] = ANY,
         s.sig_procs > 0
  PROVE  Informs(s, inform(s))
<1>1. /\ s \in KernelState /\ MM \in Programs /\ MM \in Procs
      /\ HARDWARE \in Procs /\ SYSTASK \in Procs /\ Priorities(s)
  BY ProcFacts DEF Sound, Fine, Procs, Tasks
<1> DEFINE pend == {p \in Slots : "PENDING" \in s.p_flags[p]}
<1>2. pend = Pending(s.p_flags)
  BY DEF Pending
<1>3. pend # {}
  <2>1. s.sig_procs = Cardinality(Pending(s.p_flags))
    BY DEF Sound, Fine, Agree
  <2>2. Cardinality({}) = 0
    BY FS_EmptySet
  <2>3. Pending(s.p_flags) # {}
    BY <2>1, <2>2
  <2> QED
    BY <1>2, <2>3
<1>4. PICK p : p = Least(pend)
  OBVIOUS
<1>5. p \in Pending(s.p_flags) /\ p \in Slots
  <2>1. pend \subseteq Nat
    BY ProcAssumption DEF Slots
  <2>2. p \in pend
    <3> HIDE DEF pend
    <3> QED
      BY <1>3, <1>4, <2>1, LeastExists
  <2> QED
    BY <1>2, <2>2 DEF Pending
<1> HIDE DEF pend
<1>6. PICK b : b = [s.mess[SYSTASK] EXCEPT !.type = "KSIG", !.i1 = p,
                                           !.map = s.p_pending[p]]
  OBVIOUS
<1>7. b \in Mess
  <2>1. s.mess[SYSTASK] \in Mess /\ s.p_pending[p] \in SUBSET SIGS
    BY <1>1, <1>5 DEF KernelState
  <2>2. p \in Int
    BY <1>5, ProcAssumption DEF Slots
  <2>3. PICK o \in Mess, g \in SUBSET SIGS : o = s.mess[SYSTASK] /\ g = s.p_pending[p]
    BY <2>1
  <2>4. b = [o EXCEPT !.type = "KSIG", !.i1 = p, !.map = g]
    BY <1>6, <2>3
  <2> QED
    BY <2>2, <2>3, <2>4 DEF Mess, MessTypes
<1>8. PICK M : M = [s.mess EXCEPT ![SYSTASK] = b]
  OBVIOUS
<1>9. M \in [Procs -> Mess] /\ M[SYSTASK] = b
  <2>1. s.mess \in [Procs -> Mess]
    BY <1>1 DEF KernelState
  <2> QED
    BY <1>1, <1>7, <1>8, <2>1
<1>10. PICK m : m = [b EXCEPT !.src = HARDWARE]
  OBVIOUS
<1>11. m \in Mess
  BY <1>1, <1>7, <1>10 DEF Mess
<1>12. PICK F, L : /\ F = [s.p_flags EXCEPT ![MM] = @ \ {"RECEIVING"}]
                   /\ L = [M EXCEPT ![MM] = m]
  OBVIOUS
<1>13. /\ F \in [Procs -> SUBSET Flags] /\ L \in [Procs -> Mess]
       /\ s.sig_procs - 1 \in Int
  BY <1>1, <1>9, <1>11, <1>12 DEF KernelState
<1>14. PICK k1, k2 : /\ k1 = [s EXCEPT !.mess = M, !.sig_procs = @ - 1]
                     /\ k2 = [k1 EXCEPT !.mess = L, !.p_flags = F]
  OBVIOUS
<1>15. /\ k1 \in KernelState
       /\ k1.p_flags = s.p_flags /\ k1.p_getfrom = s.p_getfrom
       /\ k1.p_priority = s.p_priority /\ k1.mess = M
  BY <1>1, <1>9, <1>13, <1>14 DEF KernelState
<1>16. /\ k2 \in KernelState
       /\ k2.p_flags = F /\ k2.p_priority = s.p_priority
       /\ k2.p_getfrom = s.p_getfrom /\ k2.p_sendto = s.p_sendto
       /\ k2.p_callerq = s.p_callerq /\ k2.p_int_blocked = s.p_int_blocked
       /\ k2.p_pending = s.p_pending /\ k2.p_pendcount = s.p_pendcount
       /\ k2.sig_procs = s.sig_procs - 1 /\ k2.panic = s.panic
       /\ k2.rdy = s.rdy
  <2>1. k2 \in KernelState /\ k2.p_flags = F
    BY <1>13, <1>14, <1>15 DEF KernelState
  <2>2. /\ k2.p_priority = s.p_priority
        /\ k2.p_getfrom = s.p_getfrom /\ k2.p_sendto = s.p_sendto
        /\ k2.p_callerq = s.p_callerq /\ k2.p_int_blocked = s.p_int_blocked
    BY <1>1, <1>14 DEF KernelState
  <2>3. /\ k2.p_pending = s.p_pending /\ k2.p_pendcount = s.p_pendcount
        /\ k2.sig_procs = s.sig_procs - 1 /\ k2.panic = s.panic
        /\ k2.rdy = s.rdy
    BY <1>1, <1>14 DEF KernelState
  <2> QED
    BY <2>1, <2>2, <2>3
<1>17. PICK w : w = Wake(k2, MM)
  OBVIOUS
<1>18. mini_send(k1, HARDWARE, MM, SYSTASK) = [k |-> w, r |-> OK]
  <2>1. ~isuserp(k1, HARDWARE) /\ ~isemptyp(k1, MM)
    <3>1. Priorities(k1)
      BY <1>1, <1>15 DEF Priorities
    <3>2. k1.p_priority[HARDWARE] = PPRI_TASK
      BY <1>1, <3>1 DEF Priorities
    <3> QED
      BY <1>1, <3>1, <3>2, Classes DEF isuserp, PPRI_TASK, PPRI_USER
  <2>2. SendChain(k1, MM) = {}
    BY <1>15 DEF SendChain, Waiting
  <2>3. WaitsForMessageOf(k1, MM, HARDWARE)
    BY <1>15 DEF WaitsForMessageOf, Waiting
  <2>4. k2 = [k1 EXCEPT !.mess[MM] = [k1.mess[SYSTASK] EXCEPT !.src = HARDWARE],
                        !.p_flags[MM] = @ \ {"RECEIVING"}]
    BY <1>9, <1>10, <1>12, <1>14, <1>15 DEF KernelState
  <2> QED
    BY <1>17, <2>1, <2>2, <2>3, <2>4 DEF mini_send, Wake
<1>19. PICK H, O : /\ H = Told(F, p) /\ H = [F EXCEPT ![p] = @ \ {"PENDING"}]
                   /\ O = Emptied(s.p_pending, p)
                   /\ O = [s.p_pending EXCEPT ![p] = {}]
  BY DEF Told, Emptied
<1>20. /\ Agree(F, s.p_getfrom, s.p_sendto, s.p_callerq, s.p_int_blocked,
                s.p_pending, s.p_pendcount, s.sig_procs)
       /\ p \in Pending(F)
  <2>1. Agree(s.p_flags, s.p_getfrom, s.p_sendto, s.p_callerq, s.p_int_blocked,
              s.p_pending, s.p_pendcount, s.sig_procs)
    BY DEF Sound, Fine
  <2>2. s.p_flags \in [Procs -> SUBSET Flags]
    BY <1>1 DEF KernelState
  <2> QED
    BY <1>1, <1>5, <1>12, <2>1, <2>2, ReceiveEnds, ProcFacts DEF Pending
<1>21. /\ Agree(H, s.p_getfrom, s.p_sendto, s.p_callerq, s.p_int_blocked, O,
                s.p_pendcount, s.sig_procs - 1)
       /\ \A x \in Procs : H[x] = {} <=> F[x] = {}
  <2>1. Agree(Told(F, p), s.p_getfrom, s.p_sendto, s.p_callerq, s.p_int_blocked,
              Emptied(s.p_pending, p), s.p_pendcount, s.sig_procs - 1)
    BY <1>20, SignalTold
  <2>2. \A x \in Procs : Told(F, p)[x] = {} <=> F[x] = {}
    BY <1>20, SignalTold
  <2> QED
    BY <1>19, <2>1, <2>2
<1>22. /\ w \in KernelState /\ SameData(k2, w) /\ Lists(w.rdy, Runnable(k2))
  <2>1. Priorities(k2)
    BY <1>1, <1>16 DEF Priorities
  <2>2. Runnable(k2) \ {MM} = Runnable(s)
    <3>1. s.p_flags \in [Procs -> SUBSET Flags] /\ s.p_flags[MM] # {}
      BY <1>1 DEF KernelState, Waiting
    <3> QED
      BY <1>12, <1>16, <3>1 DEF Runnable
  <2>3. Lists(k2.rdy, Runnable(k2) \ {MM})
    BY <1>16, <2>2 DEF Sound
  <2> QED
    BY <1>1, <1>16, <1>17, <2>1, <2>3, WakeKeeps
<1>23. PICK z : z = [w EXCEPT !.panic = @ \/ OK # OK,
                              !.p_pending[p] = {},
                              !.p_flags[p] = @ \ {"PENDING"}]
  OBVIOUS
<1>24. inform(s) = pick_proc(z)
  <2>1. PICK kk, r :
          /\ kk = [s EXCEPT !.mess[SYSTASK] =
                               [@ EXCEPT !.type = "KSIG", !.i1 = Least(pend),
                                         !.map = s.p_pending[Least(pend)]],
                            !.sig_procs = @ - 1]
          /\ r = mini_send(kk, HARDWARE, MM, SYSTASK)
    OBVIOUS
  <2>2. inform(s) =
          IF pend = {} THEN s
          ELSE pick_proc([r.k EXCEPT !.panic = @ \/ r.r # OK,
                                     !.p_pending[Least(pend)] = {},
                                     !.p_flags[Least(pend)] = @ \ {"PENDING"}])
    BY <2>1 DEF inform, pend
  <2>3. kk = [s EXCEPT !.mess[SYSTASK] =
                           [@ EXCEPT !.type = "KSIG", !.i1 = p,
                                     !.map = s.p_pending[p]],
                       !.sig_procs = @ - 1]
    BY <1>4, <2>1
  <2>4. kk = k1
    BY <1>1, <1>6, <1>8, <1>14, <2>3 DEF KernelState
  <2>5. r.k = w /\ r.r = OK
    BY <1>18, <2>1, <2>4
  <2> QED
    BY <1>3, <1>4, <1>23, <2>2, <2>5
<1>25. z = [w EXCEPT !.panic = s.panic, !.p_pending = O, !.p_flags = H]
  <2>1. w.p_pending = s.p_pending /\ w.p_flags = F /\ w.panic = s.panic
    BY <1>16, <1>22 DEF SameData
  <2>2. s.panic \in BOOLEAN
    BY <1>1 DEF KernelState
  <2> QED
    BY <1>19, <1>22, <1>23, <2>1, <2>2 DEF KernelState
<1>26. /\ O \in [Slots -> SUBSET SIGS] /\ H \in [Procs -> SUBSET Flags]
       /\ s.panic \in BOOLEAN
  BY <1>1, <1>21 DEF Agree, FieldTypes, KernelState
<1>27. /\ z \in KernelState
       /\ z.p_flags = H /\ z.p_pending = O /\ z.panic = s.panic
       /\ z.p_priority = s.p_priority
       /\ z.p_getfrom = s.p_getfrom /\ z.p_sendto = s.p_sendto
       /\ z.p_callerq = s.p_callerq /\ z.p_int_blocked = s.p_int_blocked
       /\ z.p_pendcount = s.p_pendcount /\ z.sig_procs = s.sig_procs - 1
       /\ z.rdy = w.rdy
  BY <1>16, <1>22, <1>25, <1>26 DEF KernelState, SameData
<1>28. Fine(z)
  BY <1>21, <1>27 DEF Sound, Fine, Priorities
<1>29. Runnable(z) = Runnable(k2)
  BY <1>16, <1>21, <1>27 DEF Runnable
<1>30. /\ pick_proc(z) \in KernelState /\ SameData(z, pick_proc(z))
       /\ pick_proc(z).rdy = w.rdy /\ Highest(pick_proc(z))
  BY <1>27, PickEffect DEF Highest
<1>31. Sound(pick_proc(z)) /\ (MMHears(pick_proc(z)) <=> MMHears(z))
  BY <1>22, <1>28, <1>29, <1>30, SameDataFine DEF Sound
<1>32. /\ "RECEIVING" \notin H[MM]
       /\ \A x \in Procs \ {MM} :
            "RECEIVING" \in H[x] <=> "RECEIVING" \in s.p_flags[x]
  <2>1. s.p_flags \in [Procs -> SUBSET Flags] /\ p \in Procs
    BY <1>1, <1>5, ProcFacts DEF KernelState
  <2>2. H = [F EXCEPT ![p] = @ \ {"PENDING"}]
    BY <1>19
  <2> QED
    BY <1>1, <1>12, <1>13, <2>1, <2>2
<1>33. MMHears(z)
  BY <1>27, <1>32 DEF MMHears, Waiting
<1>34. pick_proc(z).p_flags = H
  BY <1>27, <1>30 DEF SameData
<1> QED
  BY <1>24, <1>30, <1>31, <1>32, <1>33, <1>34 DEF Informs, Safe

\* c begins to wait for a message of src.
Wait(s, c, src) ==
  [Halt(s, c) EXCEPT !.p_getfrom[c] = src, !.p_flags[c] = @ \cup {"RECEIVING"}]

Waits(s, c, src, n) ==
  /\ Sound(n) /\ n.p_flags[c] = s.p_flags[c] \cup {"RECEIVING"}
  /\ n.p_getfrom[c] = src
  /\ \A p \in Procs \ {c} : /\ n.p_flags[p] = s.p_flags[p]
                            /\ n.p_getfrom[p] = s.p_getfrom[p]
  /\ n.mess = s.mess /\ n.sig_procs = s.sig_procs
  /\ MayStop(s, c) => Highest(n)

\* Nothing that c would receive from src is there.
NothingThere(s, c, src) ==
  /\ \A y \in Procs : OnList(s.p_callerq[c], y) => src \notin {ANY, y}
  /\ ~TakesInterrupt(s, c, src)

\* A receiver for which nothing is there may wait.
LEMMA Waited ==
  ASSUME NEW s, Sound(s), NEW c \in Programs, NEW src \in Procs \cup {ANY},
         "SENDING" \in s.p_flags[c] => src = s.p_sendto[c],
         "SENDING" \notin s.p_flags[c] => NothingThere(s, c, src)
  PROVE  Waits(s, c, src, Wait(s, c, src))
<1>0. PICK n : n = Wait(s, c, src)
  OBVIOUS
<1>1. s \in KernelState /\ c \in Procs /\ Priorities(s)
  BY ProcFacts DEF Sound, Fine
<1>2. PICK h : h = Halt(s, c)
  OBVIOUS
<1>3. /\ h \in KernelState /\ SameData(s, h)
      /\ Lists(h.rdy, Runnable(s) \ {c})
      /\ MayStop(s, c) => h.proc_ptr = Top(h.rdy)
  <2>1. Lists(s.rdy, Runnable(s))
    BY DEF Sound
  <2> QED
    BY <1>1, <1>2, <2>1, HaltKeeps DEF MayStop, Highest
<1>4. /\ h.p_flags = s.p_flags /\ h.p_sendto = s.p_sendto
      /\ h.p_callerq = s.p_callerq /\ h.p_getfrom = s.p_getfrom
      /\ h.p_priority = s.p_priority /\ h.p_int_blocked = s.p_int_blocked
      /\ h.p_pending = s.p_pending /\ h.p_pendcount = s.p_pendcount
      /\ h.sig_procs = s.sig_procs /\ h.panic = s.panic /\ h.mess = s.mess
  BY <1>3 DEF SameData
<1>5. PICK F, G : /\ F = [s.p_flags EXCEPT ![c] = @ \cup {"RECEIVING"}]
                  /\ G = [s.p_getfrom EXCEPT ![c] = src]
  OBVIOUS
<1>6. /\ s.p_flags \in [Procs -> SUBSET Flags]
      /\ s.p_getfrom \in [Procs -> Procs \cup {ANY}]
  BY <1>1 DEF KernelState
<1>7. n = [h EXCEPT !.p_getfrom = G, !.p_flags = F]
  BY <1>0, <1>2, <1>3, <1>4, <1>5 DEF KernelState, Wait
<1>8. Agree(F, G, s.p_sendto, s.p_callerq, s.p_int_blocked, s.p_pending,
            s.p_pendcount, s.sig_procs)
  <2>1. PICK F0, G0, T, Q, B, P, C, N :
          /\ F0 = s.p_flags /\ G0 = s.p_getfrom /\ T = s.p_sendto
          /\ Q = s.p_callerq /\ B = s.p_int_blocked /\ P = s.p_pending
          /\ C = s.p_pendcount /\ N = s.sig_procs
    OBVIOUS
  <2>2. Agree(F0, G0, T, Q, B, P, C, N)
    BY <2>1 DEF Sound, Fine
  <2>3. /\ "SENDING" \in F0[c] => src = T[c]
        /\ "SENDING" \notin F0[c] =>
             /\ \A y \in Procs : OnList(Q[c], y) => src \notin {ANY, y}
             /\ ~(c \in Tasks /\ B[c] /\ src \in {ANY, HARDWARE})
    BY <2>1 DEF NothingThere, TakesInterrupt
  <2>4. /\ F = [F0 EXCEPT ![c] = @ \cup {"RECEIVING"}]
        /\ G = [G0 EXCEPT ![c] = src]
    BY <1>5, <2>1
  <2>5. Agree(F, G, T, Q, B, P, C, N)
    BY <2>2, <2>3, <2>4, ReceiveBegins, Zenon
  <2> QED
    BY <2>1, <2>5
<1>9. F \in [Procs -> SUBSET Flags] /\ G \in [Procs -> Procs \cup {ANY}]
  BY <1>8 DEF Agree, FieldTypes
<1>10. /\ n \in KernelState
       /\ n.p_flags = F /\ n.p_getfrom = G
       /\ n.p_sendto = s.p_sendto /\ n.p_callerq = s.p_callerq
       /\ n.p_priority = s.p_priority
       /\ n.p_int_blocked = s.p_int_blocked /\ n.p_pending = s.p_pending
       /\ n.p_pendcount = s.p_pendcount /\ n.sig_procs = s.sig_procs
       /\ n.panic = s.panic /\ n.mess = s.mess
       /\ n.rdy = h.rdy /\ n.proc_ptr = h.proc_ptr
  BY <1>3, <1>4, <1>7, <1>9 DEF KernelState
<1>11. Fine(n)
  BY <1>8, <1>10 DEF Sound, Fine, Priorities
<1>12. /\ F[c] = s.p_flags[c] \cup {"RECEIVING"} /\ G[c] = src
       /\ \A p \in Procs \ {c} : F[p] = s.p_flags[p] /\ G[p] = s.p_getfrom[p]
  BY <1>1, <1>5, <1>6
<1>13. Runnable(n) = Runnable(s) \ {c}
  BY <1>1, <1>10, <1>12 DEF Runnable
<1>14. Sound(n)
  BY <1>3, <1>10, <1>11, <1>13 DEF Sound
<1> QED
  BY <1>0, <1>3, <1>10, <1>12, <1>14 DEF Highest, Waits

\* The state after a receive that found nothing.
Received(s, src, n) ==
  /\ Safe(n)
  /\ \A p \in Procs : "RECEIVING" \in s.p_flags[p] => "RECEIVING" \in n.p_flags[p]
  /\ src # ANY => n.mess = s.mess

\* The callers of c it receives from, and the message of one of them taken
Queued(s, c, src) ==
  {i \in DOMAIN s.p_callerq[c] : src \in {ANY, s.p_callerq[c][i]}}

Taken(s, c, i) ==
  LET x == s.p_callerq[c][i]
  IN [s EXCEPT !.mess[c] = [s.mess[x] EXCEPT !.src = x],
               !.p_callerq[c] = RemoveIndex(@, i),
               !.p_flags[x] = @ \ {"SENDING"}]

\* The branches of mini_rec(), in these terms
LEMMA MiniRec ==
  ASSUME NEW s, NEW c, NEW src
  PROVE  mini_rec(s, c, src) =
           IF "SENDING" \notin s.p_flags[c] /\ Queued(s, c, src) # {}
           THEN IF Taken(s, c, Least(Queued(s, c, src)))
                     .p_flags[s.p_callerq[c][Least(Queued(s, c, src))]] = {}
                THEN ready(Taken(s, c, Least(Queued(s, c, src))),
                           s.p_callerq[c][Least(Queued(s, c, src))])
                ELSE Taken(s, c, Least(Queued(s, c, src)))
           ELSE IF "SENDING" \notin s.p_flags[c] /\ TakesInterrupt(s, c, src)
           THEN [s EXCEPT !.mess[c] = Message("HARD_INT", 0, 0, 0),
                          !.p_int_blocked[c] = FALSE]
           ELSE IF MMMustKnow(s, c, src) THEN inform(Wait(s, c, src))
           ELSE Wait(s, c, src)
BY Zenon DEF mini_rec, Queued, Taken, Wait, Halt

\* mini_rec() when nothing is there: the caller waits, and MM is told of signals
\* it would otherwise sleep on.
LEMMA ReceiveWaits ==
  ASSUME NEW s, Sound(s), MMHears(s), NEW c \in Programs,
         NEW src \in Procs \cup {ANY}, MayStop(s, c),
         "RECEIVING" \notin s.p_flags[c],
         "SENDING" \in s.p_flags[c] => src = s.p_sendto[c],
         "SENDING" \notin s.p_flags[c] => NothingThere(s, c, src)
  PROVE  Received(s, src, mini_rec(s, c, src))
<1>1. s \in KernelState /\ c \in Procs /\ MM \in Procs
  BY ProcFacts DEF Sound, Fine
<1>2. PICK w : w = Wait(s, c, src)
  OBVIOUS
<1>3. mini_rec(s, c, src) = IF MMMustKnow(s, c, src) THEN inform(w) ELSE w
  <2>1. "SENDING" \notin s.p_flags[c] =>
          {i \in DOMAIN s.p_callerq[c] : src \in {ANY, s.p_callerq[c][i]}} = {}
    <3>1. s.p_callerq[c] \in Seq(Procs)
      BY <1>1 DEF KernelState
    <3>2. \A i \in DOMAIN s.p_callerq[c] : s.p_callerq[c][i] \in Procs
      BY <3>1
    <3> QED
      BY <3>2 DEF NothingThere, OnList
  <2>2. "SENDING" \notin s.p_flags[c] => ~TakesInterrupt(s, c, src)
    BY DEF NothingThere
  <2> QED
    <3>1. Queued(s, c, src) = {} \/ "SENDING" \in s.p_flags[c]
      BY <2>1 DEF Queued
    <3> QED
      BY <1>2, <2>2, <3>1, MiniRec
<1>4. /\ Sound(w) /\ w.p_flags[c] = s.p_flags[c] \cup {"RECEIVING"}
      /\ w.p_getfrom[c] = src
      /\ \A p \in Procs \ {c} : /\ w.p_flags[p] = s.p_flags[p]
                                /\ w.p_getfrom[p] = s.p_getfrom[p]
      /\ w.mess = s.mess /\ w.sig_procs = s.sig_procs
      /\ Highest(w)
  <2>1. Waits(s, c, src, w)
    BY <1>2, Waited
  <2> QED
    BY <2>1 DEF Waits
<1>5. \A p \in Procs : "RECEIVING" \in s.p_flags[p] => "RECEIVING" \in w.p_flags[p]
  BY <1>4
<1>6. CASE ~MMMustKnow(s, c, src)
  <2>1. MMHears(w)
    <3>1. CASE c = MM
      BY <1>4, <1>6, <3>1 DEF MMHears, MMMustKnow
    <3>2. CASE c # MM
      BY <1>1, <1>4, <3>2 DEF MMHears
    <3> QED
      BY <3>1, <3>2
  <2> QED
    BY <1>3, <1>4, <1>5, <1>6, <2>1 DEF Received, Safe
<1>7. CASE MMMustKnow(s, c, src)
  <2>1. c = MM /\ src = ANY /\ s.sig_procs > 0
    BY <1>7 DEF MMMustKnow
  <2>2. "SENDING" \notin s.p_flags[c]
    <3>1. s.p_sendto[c] \in Procs
      BY <1>1 DEF KernelState
    <3> QED
      BY <2>1, <3>1, ProcFacts
  <2>3. Waiting(w.p_flags[MM]) /\ w.p_getfrom[MM] = ANY /\ w.sig_procs > 0
    BY <1>4, <2>1, <2>2 DEF Waiting
  <2>4. Informs(w, inform(w))
    BY <1>4, <2>3, Informed
  <2> QED
    BY <1>3, <1>5, <1>7, <2>1, <2>4 DEF Received, Informs
<1> QED
  BY <1>6, <1>7

\* mini_rec() when a caller it receives from is queued
LEMMA QueuedTaken ==
  ASSUME NEW s, NEW c, NEW src, "SENDING" \notin s.p_flags[c],
         Queued(s, c, src) # {},
         NEW i, i = Least(Queued(s, c, src)), NEW x, x = s.p_callerq[c][i],
         NEW n, n = Taken(s, c, i)
  PROVE  mini_rec(s, c, src) = IF n.p_flags[x] = {} THEN ready(n, x) ELSE n
BY MiniRec

\* The running process, which is no user, receives what is already there.
LEMMA ReceiveTakes ==
  ASSUME NEW s, Safe(s), NEW c \in Programs, c = s.proc_ptr,
         c \notin UserSlots, NEW src \in Procs \cup {ANY},
         ~NothingThere(s, c, src)
  PROVE  /\ Safe(mini_rec(s, c, src))
         /\ \A p \in Procs : "RECEIVING" \in s.p_flags[p] =>
                               "RECEIVING" \in mini_rec(s, c, src).p_flags[p]
<1>1. /\ s \in KernelState /\ c \in Procs /\ MM \in Procs /\ HARDWARE \in Procs
      /\ Sound(s) /\ Highest(s) /\ MMHears(s) /\ Priorities(s)
  BY ProcFacts DEF Safe, Sound, Fine
<1>2. /\ s.p_flags[c] = {}
      /\ \A p \in Programs : NeverFirst(s.rdy, p)
  BY <1>1, Running
<1> DEFINE q == s.p_callerq[c]
           queued == Queued(s, c, src)
<1>3. CASE queued # {}
  <2>1. PICK i : i = Least(queued)
    OBVIOUS
  <2>2. i \in DOMAIN q
    <3>1. queued \subseteq Nat
      <4>1. q \in Seq(Procs)
        BY <1>1 DEF KernelState
      <4> QED
        BY <4>1 DEF Queued
    <3>2. i \in queued
      <4> HIDE DEF queued
      <4> QED
        BY <1>3, <2>1, <3>1, LeastExists
    <3> QED
      BY <3>2 DEF Queued
  <2>3. PICK x : x = q[i]
    OBVIOUS
  <2>4. PICK F, L, Q : /\ F = [s.p_flags EXCEPT ![x] = @ \ {"SENDING"}]
                       /\ L = [s.mess EXCEPT ![c] = [s.mess[x] EXCEPT !.src = x]]
                       /\ Q = [s.p_callerq EXCEPT ![c] = RemoveIndex(@, i)]
    OBVIOUS
  <2>5. /\ Agree(F, s.p_getfrom, s.p_sendto, Q, s.p_int_blocked,
                 s.p_pending, s.p_pendcount, s.sig_procs)
        /\ x \in Programs /\ x # c /\ "SENDING" \in s.p_flags[x]
        /\ Waiting(F[x]) => s.p_getfrom[x] = c
    <3>1. PICK F0, G, T, Q0, B, P, C, N :
            /\ F0 = s.p_flags /\ G = s.p_getfrom /\ T = s.p_sendto
            /\ Q0 = s.p_callerq /\ B = s.p_int_blocked /\ P = s.p_pending
            /\ C = s.p_pendcount /\ N = s.sig_procs
      OBVIOUS
    <3>2. Agree(F0, G, T, Q0, B, P, C, N)
      BY <1>1, <3>1 DEF Sound, Fine
    <3>3. /\ "SENDING" \notin F0[c] /\ i \in DOMAIN Q0[c] /\ x = Q0[c][i]
          /\ F = [F0 EXCEPT ![x] = @ \ {"SENDING"}]
          /\ Q = [Q0 EXCEPT ![c] = RemoveIndex(@, i)]
      <4>1. F = [F0 EXCEPT ![x] = @ \ {"SENDING"}]
        BY <2>4, <3>1
      <4>2. Q = [Q0 EXCEPT ![c] = RemoveIndex(@, i)]
        BY <2>4, <3>1
      <4> HIDE <2>4
      <4>3. "SENDING" \notin F0[c] /\ i \in DOMAIN Q0[c] /\ x = Q0[c][i]
        BY <1>2, <2>2, <2>3, <3>1
      <4> QED
        BY <4>1, <4>2, <4>3
    <3>4. /\ Agree(F, G, T, Q, B, P, C, N)
          /\ x \in Programs /\ x # c /\ "SENDING" \in F0[x] /\ T[x] = c
          /\ Waiting(F[x]) => G[x] = c
      <4>1. Agree(F, G, T, Q, B, P, C, N)
        BY <3>2, <3>3, SendEnds
      <4>2. x \in Programs /\ x # c /\ "SENDING" \in F0[x] /\ T[x] = c
        BY <3>2, <3>3, SendEnds
      <4>3. Waiting(F[x]) => G[x] = c
        <5>1. F0 \in [Procs -> SUBSET Flags] /\ x \in Procs
          BY <3>2, <4>2, ProcFacts DEF Agree, FieldTypes
        <5>2. Waiting(F[x]) => "RECEIVING" \in F0[x]
          BY <3>3, <5>1 DEF Waiting
        <5> QED
          BY <3>2, <4>2, <5>1, <5>2 DEF Agree, SendsToPrograms
      <4> QED
        BY <4>1, <4>2, <4>3
    <3> QED
      BY <3>1, <3>4
  <2>6. /\ F \in [Procs -> SUBSET Flags] /\ Q \in [Procs -> Seq(Procs)]
        /\ L \in [Procs -> Mess] /\ x \in Procs
    <3>1. F \in [Procs -> SUBSET Flags] /\ Q \in [Procs -> Seq(Procs)]
      BY <2>5 DEF Agree, FieldTypes
    <3>2. s.mess \in [Procs -> Mess] /\ x \in Procs
      BY <1>1, <2>5, ProcFacts DEF KernelState
    <3>3. [s.mess[x] EXCEPT !.src = x] \in Mess
      BY <3>2 DEF Mess
    <3> QED
      BY <2>4, <3>1, <3>2, <3>3
  <2>7. PICK s1 : s1 = [s EXCEPT !.mess = L, !.p_callerq = Q, !.p_flags = F]
    OBVIOUS
  <2>8. /\ s1 \in KernelState
        /\ s1.p_flags = F /\ s1.p_callerq = Q /\ s1.p_priority = s.p_priority
        /\ s1.p_getfrom = s.p_getfrom /\ s1.p_sendto = s.p_sendto
        /\ s1.p_int_blocked = s.p_int_blocked
        /\ s1.p_pending = s.p_pending /\ s1.p_pendcount = s.p_pendcount
        /\ s1.sig_procs = s.sig_procs /\ s1.panic = s.panic
        /\ s1.rdy = s.rdy /\ s1.proc_ptr = s.proc_ptr
    BY <1>1, <2>6, <2>7 DEF KernelState
  <2>9. Fine(s1)
    BY <1>1, <2>5, <2>8 DEF Sound, Fine, Priorities
  <2>10. /\ F[x] = s.p_flags[x] \ {"SENDING"}
         /\ \A p \in Procs \ {x} : F[p] = s.p_flags[p]
    <3>1. s.p_flags \in [Procs -> SUBSET Flags]
      BY <1>1 DEF KernelState
    <3> QED
      BY <2>4, <2>6, <3>1
  <2>11. PICK w : w = Wake(s1, x)
    OBVIOUS
  <2>12. /\ w \in KernelState /\ SameData(s1, w)
         /\ Lists(w.rdy, Runnable(s1)) /\ Highest(w)
    <3>1. Runnable(s1) \ {x} = Runnable(s)
      BY <2>5, <2>6, <2>8, <2>10 DEF Runnable
    <3>2. Lists(s1.rdy, Runnable(s1) \ {x})
      BY <1>1, <2>8, <3>1 DEF Sound
    <3>3. Priorities(s1)
      BY <2>9 DEF Fine
    <3>4. s1.proc_ptr = Top(s1.rdy) /\ NeverFirst(s1.rdy, x)
      BY <1>1, <1>2, <2>5, <2>8 DEF Highest
    <3> QED
      BY <2>5, <2>8, <2>11, <3>2, <3>3, <3>4, WakeKeeps DEF Highest
  <2>13. MMHears(s1)
    <3>1. CASE x = MM
      <4>1. ~(Waiting(F[MM]) /\ s.p_getfrom[MM] = ANY)
        BY <1>1, <2>5, <3>1, ProcFacts
      <4> QED
        BY <2>8, <4>1 DEF MMHears
    <3>2. CASE x # MM
      <4>1. F[MM] = s.p_flags[MM]
        BY <1>1, <2>10, <3>2
      <4> QED
        BY <1>1, <2>8, <4>1 DEF MMHears
    <3> QED
      BY <3>1, <3>2
  <2>14. Safe(w) /\ w.p_flags = F
    BY <2>8, <2>9, <2>12, <2>13, SameDataFine DEF Safe, Sound, SameData
  <2>15. mini_rec(s, c, src) = w
    <3>1. Taken(s, c, i) = s1
      BY <1>1, <2>3, <2>4, <2>7 DEF Taken, KernelState
    <3>2. mini_rec(s, c, src) = IF s1.p_flags[x] = {} THEN ready(s1, x) ELSE s1
      BY <1>2, <1>3, <2>1, <2>3, <3>1, QueuedTaken
    <3> QED
      BY <2>11, <3>2 DEF Wake
  <2> QED
    BY <2>10, <2>6, <2>14, <2>15
<1>4. CASE queued = {}
  <2>1. TakesInterrupt(s, c, src)
    <3>1. \A y \in Procs : OnList(q, y) => src \notin {ANY, y}
      BY <1>4 DEF OnList, Queued
    <3> QED
      BY <3>1 DEF NothingThere
  <2>2. PICK L, B : /\ L = [s.mess EXCEPT ![c] = Message("HARD_INT", 0, 0, 0)]
                    /\ B = [s.p_int_blocked EXCEPT ![c] = FALSE]
    OBVIOUS
  <2>3. PICK n : n = [s EXCEPT !.mess = L, !.p_int_blocked = B]
    OBVIOUS
  <2>4. mini_rec(s, c, src) = n
    <3>1. n = [s EXCEPT !.mess[c] = Message("HARD_INT", 0, 0, 0),
                        !.p_int_blocked[c] = FALSE]
      BY <1>1, <2>2, <2>3 DEF KernelState
    <3> QED
      BY <1>2, <1>4, <2>1, <3>1, MiniRec
  <2>5. L \in [Procs -> Mess]
    <3>1. s.mess \in [Procs -> Mess]
      BY <1>1 DEF KernelState
    <3>2. "HARD_INT" \in MessTypes /\ 0 \in Int
      BY DEF MessTypes
    <3>3. Message("HARD_INT", 0, 0, 0) \in Mess
      BY <3>2, MessageTyped, Zenon
    <3> QED
      BY <1>1, <2>2, <3>1, <3>3
  <2>6. Agree(s.p_flags, s.p_getfrom, s.p_sendto, s.p_callerq, B,
              s.p_pending, s.p_pendcount, s.sig_procs)
    <3>1. Agree(s.p_flags, s.p_getfrom, s.p_sendto, s.p_callerq,
                s.p_int_blocked, s.p_pending, s.p_pendcount, s.sig_procs)
      BY <1>1 DEF Sound, Fine
    <3> QED
      BY <2>1, <2>2, <3>1, InterruptNoted DEF TakesInterrupt
  <2>7. B \in [Tasks -> BOOLEAN]
    BY <2>6 DEF Agree, FieldTypes
  <2>8. /\ n \in KernelState
        /\ n.p_flags = s.p_flags /\ n.p_priority = s.p_priority
        /\ n.p_getfrom = s.p_getfrom /\ n.p_sendto = s.p_sendto
        /\ n.p_callerq = s.p_callerq /\ n.p_int_blocked = B
        /\ n.p_pending = s.p_pending /\ n.p_pendcount = s.p_pendcount
        /\ n.sig_procs = s.sig_procs /\ n.panic = s.panic
        /\ n.rdy = s.rdy /\ n.proc_ptr = s.proc_ptr
    BY <1>1, <2>3, <2>5, <2>7 DEF KernelState
  <2>9. Safe(n)
    BY <1>1, <2>6, <2>8
       DEF Safe, Sound, Fine, Priorities, MMHears, Highest, Runnable
  <2> QED
    BY <2>4, <2>8, <2>9
<1> QED
  BY <1>3, <1>4

-----------------------------------------------------------------------------
(* The actions *)

\* A system call of the running process
LEMMA SysCallKeeps ==
  ASSUME NEW s, Safe(s), NEW c \in Programs, c = s.proc_ptr,
         NEW function \in {"SEND", "RECEIVE", "BOTH"},
         NEW d \in (Programs \ {c})
                     \cup IF function = "RECEIVE" THEN {ANY, HARDWARE} ELSE {},
         NEW n, n = sys_call(s, function, d).k
  PROVE  Safe(n) /\ Asked(s, n)
<1>1. /\ Sound(s) /\ Highest(s) /\ MMHears(s) /\ Priorities(s)
      /\ c \in Procs /\ Programs \subseteq Procs /\ HARDWARE \in Procs
  BY ProcFacts DEF Safe, Sound, Fine
<1>2. s.p_flags[c] = {}
  BY <1>1, Running
<1>3. isuserp(s, c) <=> c \in UserSlots
  BY <1>1, Classes
<1>4. Asked(s, s)
  BY DEF Asked
<1>5. CASE isuserp(s, c) /\ function # "BOTH"
  <2>1. n = s
    BY <1>5 DEF sys_call
  <2> QED
    BY <1>4, <2>1
<1>6. CASE ~isuserp(s, c) /\ function = "SEND"
  <2>1. PICK r : r = mini_send(s, c, d, c)
    OBVIOUS
  <2>2. n = r.k
    BY <1>6, <2>1 DEF sys_call
  <2>3. d \in Programs /\ d # c
    BY <1>6
  <2>4. /\ r.r # OK => r.k = s
        /\ r.r = OK => /\ Sound(r.k) /\ MMHears(r.k) /\ Asked(s, r.k)
                       /\ c \notin UserSlots => Highest(r.k)
    BY <1>1, <2>1, <2>3, SendKeeps
  <2> QED
    BY <1>3, <1>4, <1>6, <2>2, <2>4 DEF Safe
<1>7. CASE ~isuserp(s, c) /\ function = "RECEIVE"
  <2>1. n = mini_rec(s, c, d)
    BY <1>7 DEF sys_call
  <2>2. d \in Procs \cup {ANY}
    BY <1>1, <1>7
  <2>3. CASE NothingThere(s, c, d)
    <3>1. Received(s, d, n)
      BY <1>1, <1>2, <2>1, <2>2, <2>3, ReceiveWaits DEF MayStop
    <3> QED
      BY <1>1, <3>1 DEF Received, Asked
  <2>4. CASE ~NothingThere(s, c, d)
    <3>1. Safe(n) /\ \A p \in Procs :
                       "RECEIVING" \in s.p_flags[p] => "RECEIVING" \in n.p_flags[p]
      BY <1>3, <1>7, <2>1, <2>2, <2>4, ReceiveTakes
    <3> QED
      BY <1>1, <3>1 DEF Asked
  <2> QED
    BY <2>3, <2>4
<1>8. CASE function = "BOTH"
  <2>1. PICK r : r = mini_send(s, c, d, c)
    OBVIOUS
  <2>2. n = IF r.r # OK THEN r.k ELSE mini_rec(r.k, c, d)
    BY <1>8, <2>1 DEF sys_call, send_rec
  <2>3. d \in Programs /\ d # c /\ d # ANY /\ d # HARDWARE
    BY <1>8, ProcFacts
  <2>4. CASE r.r # OK
    <3>1. r.k = s
      BY <1>1, <2>1, <2>3, <2>4, SendKeeps
    <3> QED
      BY <1>4, <2>2, <2>4, <3>1
  <2>5. CASE r.r = OK
    <3>1. PICK s1 : s1 = r.k
      OBVIOUS
    <3>2. Sound(s1) /\ MMHears(s1) /\ Asked(s, s1) /\ MayStop(s1, c)
      BY <1>1, <2>1, <2>3, <2>5, <3>1, SendKeeps
    <3>3. \/ s1.p_flags[c] = {} /\ ~OnList(s1.p_callerq[c], d)
          \/ s1.p_flags[c] = {"SENDING"} /\ s1.p_sendto[c] = d
      BY <1>1, <2>1, <2>3, <2>5, <3>1, SendKeeps
    <3>4. "SENDING" \notin s1.p_flags[c] => NothingThere(s1, c, d)
      BY <2>3, <3>3 DEF NothingThere, TakesInterrupt
    <3>5. Received(s1, d, n)
      <4>1. "RECEIVING" \notin s1.p_flags[c]
        BY <3>3
      <4>2. "SENDING" \in s1.p_flags[c] => d = s1.p_sendto[c]
        BY <3>3
      <4>3. n = mini_rec(s1, c, d)
        BY <2>2, <2>5, <3>1
      <4>4. d \in Procs \cup {ANY}
        BY <1>1, <2>3
      <4> QED
        BY <3>2, <3>4, <4>1, <4>2, <4>3, <4>4, ReceiveWaits
    <3>6. Asked(s, n)
      BY <1>1, <2>3, <3>2, <3>5 DEF Received, Asked
    <3> QED
      BY <3>5, <3>6 DEF Received
  <2> QED
    BY <2>4, <2>5
<1> QED
  BY <1>5, <1>6, <1>7, <1>8

\* An interrupt that the task t is given, or is remembered for it
LEMMA InterruptKeeps ==
  ASSUME NEW s, Safe(s), NEW t \in Tasks, t \in Programs,
         NEW n, n = interrupt(s, t)
  PROVE  Safe(n) /\ Asked(s, n)
<1>1. /\ s \in KernelState /\ Sound(s) /\ Highest(s) /\ MMHears(s)
      /\ Priorities(s) /\ t \in Procs /\ HARDWARE \in Procs
  BY ProcFacts DEF Safe, Sound, Fine
<1>2. ASSUME NEW b \in BOOLEAN, NEW z, z = [s EXCEPT !.p_int_blocked[t] = b],
             b /\ Waiting(s.p_flags[t]) => s.p_getfrom[t] \notin {ANY, HARDWARE}
      PROVE  /\ Safe(z) /\ Asked(s, z)
             /\ z.p_flags = s.p_flags /\ z.p_getfrom = s.p_getfrom
             /\ z.mess = s.mess /\ z.rdy = s.rdy /\ z.proc_ptr = s.proc_ptr
             /\ z.p_int_blocked = [s.p_int_blocked EXCEPT ![t] = b]
  <2>1. PICK B : B = [s.p_int_blocked EXCEPT ![t] = b]
    OBVIOUS
  <2>2. Agree(s.p_flags, s.p_getfrom, s.p_sendto, s.p_callerq, B,
              s.p_pending, s.p_pendcount, s.sig_procs)
    <3>1. Agree(s.p_flags, s.p_getfrom, s.p_sendto, s.p_callerq,
                s.p_int_blocked, s.p_pending, s.p_pendcount, s.sig_procs)
      BY <1>1 DEF Sound, Fine
    <3> QED
      BY <1>2, <2>1, <3>1, InterruptNoted
  <2>3. B \in [Tasks -> BOOLEAN]
    BY <2>2 DEF Agree, FieldTypes
  <2>4. z = [s EXCEPT !.p_int_blocked = B]
    BY <1>1, <1>2, <2>1 DEF KernelState
  <2>5. /\ z \in KernelState
        /\ z.p_flags = s.p_flags /\ z.p_priority = s.p_priority
        /\ z.p_getfrom = s.p_getfrom /\ z.p_sendto = s.p_sendto
        /\ z.p_callerq = s.p_callerq /\ z.p_int_blocked = B
        /\ z.p_pending = s.p_pending /\ z.p_pendcount = s.p_pendcount
        /\ z.sig_procs = s.sig_procs /\ z.panic = s.panic
        /\ z.mess = s.mess /\ z.rdy = s.rdy /\ z.proc_ptr = s.proc_ptr
    BY <1>1, <2>3, <2>4 DEF KernelState
  <2>6. Safe(z)
    BY <1>1, <2>2, <2>5
       DEF Safe, Sound, Fine, Priorities, MMHears, Highest, Runnable
  <2> QED
    BY <2>1, <2>5, <2>6 DEF Asked
<1>3. CASE \/ s.p_flags[t] \cap {"RECEIVING", "SENDING"} # {"RECEIVING"}
           \/ s.p_getfrom[t] \notin {ANY, HARDWARE}
  <2>1. n = [s EXCEPT !.p_int_blocked[t] = TRUE]
    BY <1>3 DEF interrupt
  <2>2. Waiting(s.p_flags[t]) => s.p_getfrom[t] \notin {ANY, HARDWARE}
    BY <1>3 DEF Waiting
  <2> QED
    BY <1>2, <2>1, <2>2
<1>4. CASE ~(\/ s.p_flags[t] \cap {"RECEIVING", "SENDING"} # {"RECEIVING"}
             \/ s.p_getfrom[t] \notin {ANY, HARDWARE})
  <2>1. PICK z : z = [s EXCEPT !.p_int_blocked[t] = FALSE]
    OBVIOUS
  <2>2. /\ Safe(z) /\ z.p_flags = s.p_flags /\ z.p_getfrom = s.p_getfrom
        /\ z.mess = s.mess /\ z.rdy = s.rdy /\ z.proc_ptr = s.proc_ptr
        /\ z.p_int_blocked = [s.p_int_blocked EXCEPT ![t] = FALSE]
    BY <1>2, <2>1
  <2>3. PICK m \in Mess : m = Message("HARD_INT", 0, 0, 0)
    <3>1. "HARD_INT" \in MessTypes /\ 0 \in Int
      BY DEF MessTypes
    <3> QED
      BY <3>1, MessageTyped, Zenon
  <2>4. m.src = HARDWARE
    BY <2>3 DEF Message, NoMess
  <2>5. Delivers(z, t, Deliver(z, t, m))
    <3>1. Waiting(z.p_flags[t]) /\ z.p_getfrom[t] \in {ANY, m.src}
      BY <1>4, <2>2, <2>4 DEF Waiting
    <3> QED
      BY <2>2, <3>1, Delivered DEF Safe
  <2>6. n = Deliver(z, t, m)
    <3>1. s.p_flags[t] \ {"RECEIVING"} = {}
      <4>1. s.p_flags[t] \subseteq {"SENDING", "RECEIVING"}
        BY <1>1, ProcFacts DEF Sound, Fine, Agree, FlagsFit
      <4> QED
        BY <1>4, <4>1
    <3>2. PICK u : u = [z EXCEPT !.mess[t] = m, !.p_flags[t] = @ \ {"RECEIVING"}]
      OBVIOUS
    <3>3. u = [s EXCEPT !.mess[t] = m, !.p_flags[t] = @ \ {"RECEIVING"},
                        !.p_int_blocked[t] = FALSE]
      BY <1>1, <2>1, <3>2 DEF KernelState
    <3>4. /\ u.p_flags[t] = {} /\ u.rdy = s.rdy /\ u.proc_ptr = s.proc_ptr
          /\ u.p_priority = s.p_priority
      BY <1>1, <3>1, <3>3 DEF KernelState
    <3>5. QueueOf(u, t) = TASK_Q
      <4>1. Priorities(u)
        BY <1>1, <3>4 DEF Priorities
      <4> QED
        BY <4>1, Classes DEF Class
    <3>6. Deliver(z, t, m) = ready(u, t)
      BY <3>2, <3>4 DEF Deliver, Wake
    <3>7. ready(u, t) = [u EXCEPT !.rdy[TASK_Q] = Append(@, t),
                                  !.proc_ptr = IF s.rdy[TASK_Q] = << >> THEN t ELSE @]
      BY <3>4, <3>5 DEF ready, TASK_Q, USER_Q
    <3> QED
      BY <1>1, <1>4, <2>3, <3>3, <3>6, <3>7 DEF interrupt, KernelState
  <2>7. NeverFirst(z.rdy, t)
    BY DEF NeverFirst, Class
  <2>8. Safe(n)
    BY <2>2, <2>5, <2>6, <2>7 DEF Safe, Delivers
  <2>9. Asked(s, n)
    BY <2>2, <2>5, <2>6 DEF Delivers, Asked
  <2> QED
    BY <2>8, <2>9
<1> QED
  BY <1>3, <1>4

\* A signal that a task causes
LEMMA CauseSigKeeps ==
  ASSUME NEW s, Safe(s), NEW p \in UserSlots, p \in Programs,
         NEW sig \in SIGS, NEW n, n = cause_sig(s, p, sig)
  PROVE  Safe(n) /\ Asked(s, n)
<1>1. /\ s \in KernelState /\ Sound(s) /\ Highest(s) /\ MMHears(s)
      /\ Priorities(s) /\ Fine(s)
      /\ p \in Procs /\ p \in Slots /\ MM \in Procs /\ p # MM
      /\ Programs \subseteq Procs
  BY ProcFacts DEF Safe, Sound, Fine
<1>2. CASE sig \in s.p_pending[p]
  <2>1. n = s
    BY <1>2 DEF cause_sig
  <2> QED
    BY <2>1 DEF Asked
<1>3. CASE sig \notin s.p_pending[p]
  <2>1. PICK H, O, D :
          /\ H = [s.p_flags EXCEPT ![p] = @ \cup {"PENDING", "SIG_PENDING"}]
          /\ O = [s.p_pending EXCEPT ![p] = @ \cup {sig}]
          /\ D = [s.p_pendcount EXCEPT ![p] = @ + 1]
    OBVIOUS
  <2>2. PICK F, G, T, Q, B, P, C, N :
          /\ F = s.p_flags /\ G = s.p_getfrom /\ T = s.p_sendto
          /\ Q = s.p_callerq /\ B = s.p_int_blocked /\ P = s.p_pending
          /\ C = s.p_pendcount /\ N = s.sig_procs
    OBVIOUS
  <2>3. Agree(F, G, T, Q, B, P, C, N)
    BY <1>1, <2>2 DEF Fine
  <2>4. /\ H = [F EXCEPT ![p] = @ \cup {"PENDING", "SIG_PENDING"}]
        /\ O = [P EXCEPT ![p] = @ \cup {sig}]
        /\ D = [C EXCEPT ![p] = @ + 1]
    BY <2>1, <2>2
  <2>5. /\ "PENDING" \in F[p] => H = F /\ Agree(F, G, T, Q, B, O, D, N)
        /\ "PENDING" \notin F[p] => Agree(H, G, T, Q, B, O, D, N + 1)
    BY <1>3, <2>2, <2>3, <2>4, SignalComes
  <2>6. /\ O \in [Slots -> SUBSET SIGS] /\ D \in [Slots -> Nat]
        /\ H \in [Procs -> SUBSET Flags] /\ N + 1 \in Int
    <3>1. N \in Int
      BY <1>1, <2>2 DEF KernelState
    <3>2. O \in [Slots -> SUBSET SIGS] /\ D \in [Slots -> Nat]
      BY <2>5 DEF Agree, FieldTypes
    <3>3. H \in [Procs -> SUBSET Flags]
      BY <2>3, <2>5 DEF Agree, FieldTypes
    <3> QED
      BY <3>1, <3>2, <3>3
  <2>7. PICK s1 : s1 = [s EXCEPT !.p_pending = O, !.p_pendcount = D]
    OBVIOUS
  <2>8. s1 = [s EXCEPT !.p_pending[p] = @ \cup {sig}, !.p_pendcount[p] = @ + 1]
    BY <1>1, <2>1, <2>7 DEF KernelState
  <2>9. /\ s1 \in KernelState
        /\ s1.p_flags = F /\ s1.p_priority = s.p_priority
        /\ s1.p_getfrom = G /\ s1.p_sendto = T
        /\ s1.p_callerq = Q /\ s1.p_int_blocked = B
        /\ s1.p_pending = O /\ s1.p_pendcount = D
        /\ s1.sig_procs = N /\ s1.panic = s.panic
        /\ s1.mess = s.mess /\ s1.rdy = s.rdy /\ s1.proc_ptr = s.proc_ptr
    BY <1>1, <2>2, <2>6, <2>7 DEF KernelState
  <2>10. CASE "PENDING" \in F[p]
    <3>1. n = s1
      BY <1>3, <2>2, <2>8, <2>10 DEF cause_sig
    <3>2. Agree(F, G, T, Q, B, O, D, N)
      BY <2>5, <2>10
    <3>3. Safe(s1)
      BY <1>1, <2>2, <2>9, <3>2
         DEF Safe, Sound, Fine, Priorities, MMHears, Highest, Runnable
    <3> QED
      BY <2>2, <2>9, <3>1, <3>3 DEF Asked
  <2>11. CASE "PENDING" \notin F[p]
    <3>1. PICK h : h = Halt(s1, p)
      OBVIOUS
    <3>2. /\ h \in KernelState /\ SameData(s1, h)
          /\ Lists(h.rdy, Runnable(s1) \ {p}) /\ Highest(h)
      <4>1. Priorities(s1) /\ Lists(s1.rdy, Runnable(s1)) /\ s1.proc_ptr = Top(s1.rdy)
        BY <1>1, <2>2, <2>9 DEF Priorities, Sound, Runnable, Highest
      <4> QED
        BY <2>9, <3>1, <4>1, HaltKeeps DEF Highest
    <3>3. PICK z : z = MarkPending(h, p)
      OBVIOUS
    <3>4. /\ z \in KernelState
          /\ z.p_flags = H /\ z.p_priority = s.p_priority
          /\ z.p_getfrom = G /\ z.p_sendto = T
          /\ z.p_callerq = Q /\ z.p_int_blocked = B
          /\ z.p_pending = O /\ z.p_pendcount = D
          /\ z.sig_procs = N + 1 /\ z.panic = s.panic
          /\ z.mess = s.mess /\ z.rdy = h.rdy /\ z.proc_ptr = h.proc_ptr
      <4>1. /\ h.p_flags = F /\ h.p_priority = s.p_priority
            /\ h.p_getfrom = G /\ h.p_sendto = T
            /\ h.p_callerq = Q /\ h.p_int_blocked = B
            /\ h.p_pending = O /\ h.p_pendcount = D
            /\ h.sig_procs = N /\ h.panic = s.panic /\ h.mess = s.mess
        BY <2>9, <3>2 DEF SameData
      <4>2. z = [h EXCEPT !.p_flags = H, !.sig_procs = N + 1]
        BY <2>4, <3>2, <3>3, <4>1 DEF MarkPending, KernelState
      <4> QED
        BY <2>6, <3>2, <4>1, <4>2 DEF KernelState
    <3>5. n = IF MMIsIdle(z) THEN inform(z) ELSE z
      BY <1>3, <2>2, <2>8, <2>11, <3>1, <3>3 DEF cause_sig, Halt
    <3>6. Agree(H, G, T, Q, B, O, D, N + 1)
      BY <2>5, <2>11
    <3>7. Fine(z)
      BY <1>1, <3>4, <3>6 DEF Fine, Priorities
    <3>8. H[p] # {} /\ \A x \in Procs \ {p} : H[x] = F[x]
      BY <1>1, <2>3, <2>4 DEF Agree, FieldTypes
    <3>9. Sound(z) /\ Highest(z)
      <4>1. Runnable(z) = Runnable(s1) \ {p}
        BY <1>1, <2>9, <3>4, <3>8 DEF Runnable
      <4> QED
        BY <3>2, <3>4, <3>7, <4>1 DEF Sound, Highest
    <3>10. \A x \in Procs : "RECEIVING" \in H[x] <=> "RECEIVING" \in F[x]
      BY <1>1, <2>3, <2>4, <3>8 DEF Agree, FieldTypes
    <3>11. CASE MMIsIdle(z)
      <4>1. "RECEIVING" \in H[MM] /\ G[MM] = ANY
        BY <3>4, <3>11 DEF MMIsIdle
      <4>2. "SENDING" \notin H[MM]
        <5>1. T[MM] \in Procs
          BY <1>1, <2>3 DEF Agree, FieldTypes
        <5>2. SendsToPrograms(H, G, T)
          BY <3>6 DEF Agree
        <5> QED
          BY <1>1, <4>1, <5>1, <5>2, ProcFacts DEF SendsToPrograms
      <4>3. Waiting(z.p_flags[MM]) /\ z.p_getfrom[MM] = ANY
        BY <3>4, <4>1, <4>2 DEF Waiting
      <4>4. z.sig_procs > 0
        <5>1. N \in Nat
          BY <2>2, <2>3, PendingFinite, FS_CardinalityType DEF Agree
        <5> QED
          BY <3>4, <5>1
      <4>5. Informs(z, n)
        BY <3>5, <3>9, <3>11, <4>3, <4>4, Informed
      <4>6. Asked(s, n)
        <5>1. \A x \in Procs \ {MM} :
                "RECEIVING" \in n.p_flags[x] <=> "RECEIVING" \in z.p_flags[x]
          BY <4>5 DEF Informs
        <5> QED
          BY <1>1, <2>2, <3>4, <3>10, <4>1, <5>1 DEF Asked
      <4> QED
        BY <4>5, <4>6 DEF Informs
    <3>12. CASE ~MMIsIdle(z)
      <4>1. MMHears(z)
        BY <3>12 DEF MMHears, MMIsIdle, Waiting
      <4>2. Asked(s, z)
        BY <1>1, <2>2, <3>4, <3>10 DEF Asked
      <4> QED
        BY <3>5, <3>9, <3>12, <4>1, <4>2 DEF Safe
    <3> QED
      BY <3>11, <3>12
  <2> QED
    BY <2>10, <2>11
<1> QED
  BY <1>2, <1>3

\* Only programs and the idle task run.
LEMMA RunningIsProgram ==
  ASSUME NEW s, Sound(s), Highest(s), s.proc_ptr # IDLE
  PROVE  s.proc_ptr \in Programs
<1>1. PICK R \in [Queues -> Seq(Schedulable)] : R = s.rdy
  BY DEF Sound, Fine, KernelState
<1>2. PICK q \in Queues : R[q] # << >> /\ Head(R[q]) = s.proc_ptr
  BY <1>1 DEF Highest, Top, Queues
<1>3. OnList(R[q], s.proc_ptr) /\ s.proc_ptr \in Schedulable
  <2>1. R[q] \in Seq(Schedulable)
    BY <1>1
  <2> QED
    BY <1>2, <2>1, HeadInSeq
<1> QED
  BY <1>1, <1>3 DEF Sound, Lists

\* What do_endsig() does for a process that has signals
OneDone(s, p) == [s EXCEPT !.p_pendcount[p] = @ - 1]
NoneLeft(s, p) == [s EXCEPT !.p_flags[p] = @ \ {"SIG_PENDING"}]

\* do_endsig() for a process that has signals, as these states
LEMMA EndSigUnfolds ==
  ASSUME NEW s, NEW m, ~isemptyp(s, m.i1), s.p_pendcount[m.i1] # 0
  PROVE  do_endsig(s, m).k =
           IF OneDone(s, m.i1).p_pendcount[m.i1] # 0 THEN OneDone(s, m.i1)
           ELSE Wake(NoneLeft(OneDone(s, m.i1), m.i1), m.i1)
BY DEF do_endsig, Wake, OneDone, NoneLeft

\* The end of a signal that MM was told of
LEMMA EndSigKeeps ==
  ASSUME NEW s, Safe(s), s.proc_ptr \in Tasks,
         NEW p \in UserSlots, p \in Programs,
         s.p_pendcount[p] > Cardinality(s.p_pending[p]),
         NEW n, n = do_endsig(s, Message("SYS_ENDSIG", p, 0, 0)).k
  PROVE  Safe(n) /\ Asked(s, n)
<1>1. /\ s \in KernelState /\ Sound(s) /\ Highest(s) /\ MMHears(s)
      /\ Priorities(s) /\ Fine(s)
      /\ p \in Procs /\ p \in Slots /\ MM \in Procs /\ p # MM
      /\ Programs \subseteq Procs
  BY ProcFacts DEF Safe, Sound, Fine
<1>2. NeverFirst(s.rdy, p)
  <2>1. s.proc_ptr # IDLE /\ s.proc_ptr \notin UserSlots
    BY ProcFacts DEF Tasks, IDLE, DISK, CLOCK, SYSTASK
  <2>2. s.proc_ptr \in Programs
    BY <1>1, <2>1, RunningIsProgram
  <2> QED
    BY <1>1, <2>1, <2>2, Running
<1>3. Message("SYS_ENDSIG", p, 0, 0).i1 = p
  BY DEF Message, NoMess
<1>4. ~isemptyp(s, p)
  BY <1>1, Classes
<1>5. PICK H, D : H = Ended(s.p_flags, p) /\ D = OneLess(s.p_pendcount, p)
  OBVIOUS
<1>6. PICK F, G, T, Q, B, P, C, N :
        /\ F = s.p_flags /\ G = s.p_getfrom /\ T = s.p_sendto
        /\ Q = s.p_callerq /\ B = s.p_int_blocked /\ P = s.p_pending
        /\ C = s.p_pendcount /\ N = s.sig_procs
  OBVIOUS
<1>7. Agree(F, G, T, Q, B, P, C, N)
  BY <1>1, <1>6 DEF Fine
<1>8. H = Ended(F, p) /\ D = OneLess(C, p) /\ C[p] > Cardinality(P[p])
  BY <1>5, <1>6
<1>9. C[p] # 0 /\ "SIG_PENDING" \in F[p]
  BY <1>7, <1>8, SignalEnds
<1>10. D[p] # 0 => Agree(F, G, T, Q, B, P, D, N)
  BY <1>7, <1>8, SignalEnds
<1>11. D[p] = 0 => Agree(H, G, T, Q, B, P, D, N)
  BY <1>7, <1>8, SignalEnds
<1>12. D \in [Slots -> Nat]
  BY <1>10, <1>11 DEF Agree, FieldTypes
<1>13. PICK s1 : s1 = [s EXCEPT !.p_pendcount = D]
  OBVIOUS
<1>14. s1 = OneDone(s, p) /\ s1.p_pendcount = D
  BY <1>1, <1>5, <1>13 DEF KernelState, OneLess, OneDone
<1>15. /\ s1 \in KernelState
       /\ s1.p_flags = F /\ s1.p_priority = s.p_priority
       /\ s1.p_getfrom = G /\ s1.p_sendto = T
       /\ s1.p_callerq = Q /\ s1.p_int_blocked = B
       /\ s1.p_pending = P /\ s1.sig_procs = N /\ s1.panic = s.panic
       /\ s1.mess = s.mess /\ s1.rdy = s.rdy /\ s1.proc_ptr = s.proc_ptr
  BY <1>1, <1>6, <1>12, <1>13 DEF KernelState
<1>16. PICK s2 : s2 = NoneLeft(s1, p)
  OBVIOUS
<1>17. n = IF D[p] # 0 THEN s1 ELSE Wake(s2, p)
  <2>1. PICK m : m = Message("SYS_ENDSIG", p, 0, 0) /\ m.i1 = p
    BY <1>3
  <2>2. n = do_endsig(s, m).k
    BY <2>1
  <2>3. s.p_pendcount[p] # 0
    BY <1>6, <1>9
  <2> QED
    BY <1>4, <1>14, <1>16, <2>1, <2>2, <2>3, EndSigUnfolds
<1>18. CASE D[p] # 0
  <2>1. Safe(s1)
    BY <1>1, <1>6, <1>10, <1>14, <1>15, <1>18
       DEF Safe, Sound, Fine, Priorities, MMHears, Highest, Runnable
  <2> QED
    BY <1>6, <1>15, <1>17, <1>18, <2>1 DEF Asked
<1>19. CASE D[p] = 0
  <2>1. Agree(H, G, T, Q, B, P, D, N)
    BY <1>11, <1>19
  <2>2. H \in [Procs -> SUBSET Flags] /\ F \in [Procs -> SUBSET Flags]
    BY <1>7, <2>1 DEF Agree, FieldTypes
  <2>3. s2 = [s1 EXCEPT !.p_flags = H]
    BY <1>8, <1>15, <1>16 DEF KernelState, Ended, NoneLeft
  <2>4. /\ s2 \in KernelState
        /\ s2.p_flags = H /\ s2.p_priority = s.p_priority
        /\ s2.p_getfrom = G /\ s2.p_sendto = T
        /\ s2.p_callerq = Q /\ s2.p_int_blocked = B
        /\ s2.p_pending = P /\ s2.p_pendcount = D
        /\ s2.sig_procs = N /\ s2.panic = s.panic
        /\ s2.mess = s.mess /\ s2.rdy = s.rdy /\ s2.proc_ptr = s.proc_ptr
    BY <1>14, <1>15, <2>2, <2>3 DEF KernelState
  <2>5. Fine(s2)
    BY <1>1, <2>1, <2>4 DEF Fine, Priorities
  <2>6. /\ H[p] = F[p] \ {"SIG_PENDING"}
        /\ \A x \in Procs \ {p} : H[x] = F[x]
    BY <1>1, <1>8, <2>2 DEF Ended
  <2>7. Runnable(s2) \ {p} = Runnable(s)
    BY <1>1, <1>6, <1>9, <2>4, <2>6 DEF Runnable
  <2>8. /\ Lists(s2.rdy, Runnable(s2) \ {p}) /\ Priorities(s2)
        /\ s2.proc_ptr = Top(s2.rdy) /\ NeverFirst(s2.rdy, p)
    BY <1>1, <1>2, <2>4, <2>5, <2>7 DEF Sound, Highest, Fine
  <2>9. PICK w : w = Wake(s2, p)
    OBVIOUS
  <2>10. /\ w \in KernelState /\ SameData(s2, w)
         /\ Lists(w.rdy, Runnable(s2)) /\ Highest(w)
    BY <2>4, <2>8, <2>9, WakeKeeps DEF Highest
  <2>11. MMHears(s2)
    BY <1>1, <1>6, <2>4, <2>6 DEF MMHears
  <2>12. Safe(w)
    BY <2>5, <2>10, <2>11, SameDataFine DEF Safe, Sound
  <2>13. \A x \in Programs : "RECEIVING" \in F[x] => "RECEIVING" \in w.p_flags[x]
    BY <1>1, <2>4, <2>6, <2>10 DEF SameData
  <2> QED
    BY <1>6, <1>17, <1>19, <2>9, <2>12, <2>13 DEF Asked
<1> QED
  BY <1>18, <1>19

\* The check of the quantum
LEMMA SchedKeeps ==
  ASSUME NEW s, Safe(s), NEW n, n = sched(s)
  PROVE  Safe(n) /\ Asked(s, n)
<1>1. /\ s \in KernelState /\ Sound(s) /\ Highest(s) /\ MMHears(s)
      /\ Priorities(s) /\ Fine(s) /\ Lists(s.rdy, Runnable(s))
  BY DEF Safe, Sound, Fine
<1>2. PICK q, R : R = s.rdy /\ q = R[USER_Q]
  OBVIOUS
<1>3. /\ R \in [Queues -> Seq(Schedulable)] /\ q \in Seq(Schedulable)
      /\ USER_Q \in Queues /\ Distinct(q)
      /\ s.time_counter \in [Slots -> Int]
  BY <1>1, <1>2 DEF KernelState, Queues, Lists
<1>4. CASE q = << >>
  <2>1. n = s
    BY <1>2, <1>4 DEF sched
  <2> QED
    BY <2>1 DEF Asked
<1>5. CASE q # << >>
  <2>1. PICK p : p = Head(q)
    OBVIOUS
  <2>2. p \in Slots
    <3>1. p \in Schedulable /\ OnList(q, p)
      BY <1>3, <1>5, <2>1, HeadInSeq
    <3>2. p \in Programs /\ Class(p) = USER_Q
      BY <1>1, <1>2, <1>3, <3>1 DEF Lists
    <3> QED
      BY <1>1, <3>2, Classes, ProcFacts
  <2>3. CASE s.time_counter[p] # s.user_priority[p]
    <3>1. PICK V \in [Slots -> Int] :
            V = [s.time_counter EXCEPT
                   ![p] = IF @ < CounterBound THEN @ + 1 ELSE @]
      <4>1. s.time_counter[p] \in Int
        BY <1>3, <2>2
      <4>2. (IF s.time_counter[p] < CounterBound THEN s.time_counter[p] + 1
             ELSE s.time_counter[p]) \in Int
        BY <4>1
      <4> QED
        BY <1>3, <4>2
    <3>2. n = [s EXCEPT !.time_counter = V]
      BY <1>1, <1>2, <1>5, <2>1, <2>3, <3>1 DEF sched, KernelState
    <3>3. /\ n \in KernelState /\ SameData(s, n)
          /\ n.rdy = s.rdy /\ n.proc_ptr = s.proc_ptr
      BY <1>1, <3>1, <3>2 DEF KernelState, SameData
    <3>4. Safe(n)
      BY <1>1, <3>3, SameDataFine DEF Safe, Sound, Highest
    <3> QED
      BY <3>3, <3>4 DEF SameData, Asked
  <2>4. CASE s.time_counter[p] = s.user_priority[p]
    <3>1. PICK L : L = Append(Tail(q), p)
      OBVIOUS
    <3>2. /\ L \in Seq(Schedulable) /\ Distinct(L)
          /\ \A x : OnList(L, x) <=> OnList(q, x)
      BY <1>3, <1>5, <2>1, <3>1, RotateList
    <3>3. PICK V \in [Slots -> Int], U \in [Queues -> Seq(Schedulable)] :
            /\ V = [s.time_counter EXCEPT ![p] = 0]
            /\ U = [R EXCEPT ![USER_Q] = L]
      <4>1. [s.time_counter EXCEPT ![p] = 0] \in [Slots -> Int]
        <5>1. \A v \in Int : [s.time_counter EXCEPT ![p] = v] \in [Slots -> Int]
          BY <1>3
        <5>2. 0 \in Int
          OBVIOUS
        <5> QED
          BY <5>1, <5>2, Zenon
      <4>2. [R EXCEPT ![USER_Q] = L] \in [Queues -> Seq(Schedulable)]
        BY <1>3, <3>2
      <4> QED
        BY <4>1, <4>2
    <3>4. PICK z : z = [s EXCEPT !.time_counter = V, !.rdy = U]
      OBVIOUS
    <3>5. n = pick_proc(z)
      <4>1. z = [s EXCEPT !.time_counter[p] = 0,
                          !.rdy[USER_Q] = Append(Tail(q), p)]
        BY <1>1, <1>2, <3>1, <3>3, <3>4 DEF KernelState
      <4> QED
        BY <1>2, <1>5, <2>1, <2>4, <4>1 DEF sched
    <3>6. z \in KernelState /\ SameData(s, z) /\ z.rdy = U
      BY <1>1, <3>3, <3>4 DEF KernelState, SameData
    <3>7. Lists(U, Runnable(s))
      BY <1>1, <1>2, <1>3, <3>2, <3>3 DEF Lists
    <3>8. Fine(z) /\ Runnable(z) = Runnable(s) /\ MMHears(z)
      BY <1>1, <3>6, SameDataFine
    <3>9. /\ n \in KernelState /\ SameData(z, n) /\ n.rdy = U /\ Highest(n)
      BY <3>5, <3>6, PickEffect DEF Highest
    <3>10. Safe(n)
      BY <3>7, <3>8, <3>9, SameDataFine DEF Safe, Sound
    <3>11. n.p_flags = s.p_flags
      BY <3>6, <3>9 DEF SameData
    <3> QED
      BY <3>10, <3>11 DEF Asked
  <2> QED
    BY <2>3, <2>4
<1> QED
  BY <1>4, <1>5

-----------------------------------------------------------------------------
(* The initial state *)

Increasing(s, S) ==
  /\ s \in [1..Cardinality(S) -> S]
  /\ \A i, j \in DOMAIN s : i < j => s[i] < s[j]

\* Process numbers below a bound can be put in order.
LEMMA IncreasingExists ==
  ASSUME NEW n \in Nat, NEW S, S \subseteq -5..(n - 6)
  PROVE  \E s : Increasing(s, S)
<1> DEFINE W == {m \in Nat : \A X : X \subseteq -5..(m - 6) =>
                               \E s : Increasing(s, X)}
<1>1. 0 \in W
  <2> SUFFICES ASSUME NEW X, X \subseteq -5..(0 - 6)
               PROVE  \E s : Increasing(s, X)
    OBVIOUS
  <2>1. X = {}
    OBVIOUS
  <2>2. Cardinality(X) = 0
    BY <2>1, FS_EmptySet
  <2>3. Increasing([i \in 1..Cardinality(X) |-> 0], X)
    <3>1. 1..0 = {}
      OBVIOUS
    <3> QED
      BY <2>2, <3>1 DEF Increasing
  <2> QED
    BY <2>3
<1>2. ASSUME NEW m \in Nat, m \in W PROVE m + 1 \in W
  <2> SUFFICES ASSUME NEW X, X \subseteq -5..((m + 1) - 6)
               PROVE  \E s : Increasing(s, X)
    OBVIOUS
  <2>1. PICK x \in Int : x = m - 5
    OBVIOUS
  <2>2. X \ {x} \subseteq -5..(m - 6) /\ \A y \in X \ {x} : y < x
    BY <2>1
  <2>3. PICK s : Increasing(s, X \ {x})
    BY <1>2, <2>2
  <2>4. CASE x \notin X
    <3>1. X \ {x} = X
      BY <2>4
    <3> QED
      BY <2>3, <3>1
  <2>5. CASE x \in X
    <3>1. IsFiniteSet(X)
      <4>1. IsFiniteSet(-5..((m + 1) - 6))
        BY FS_Interval
      <4> QED
        BY <4>1, FS_Subset
    <3>2. PICK c \in Nat : c = Cardinality(X \ {x})
      BY <3>1, FS_RemoveElement, FS_CardinalityType
    <3>3. Cardinality(X) = c + 1
      <4>1. Cardinality(X \ {x}) = Cardinality(X) - 1 /\ Cardinality(X) \in Nat
        BY <2>5, <3>1, FS_RemoveElement, FS_CardinalityType
      <4> QED
        BY <3>2, <4>1
    <3>4. /\ s \in [1..c -> X \ {x}]
          /\ \A i, j \in 1..c : i < j => s[i] < s[j]
      BY <2>3, <3>2 DEF Increasing
    <3>5. PICK z : z = [i \in 1..(c + 1) |-> IF i = c + 1 THEN x ELSE s[i]]
      OBVIOUS
    <3>6. \A i \in 1..(c + 1) : i # c + 1 => i \in 1..c
      OBVIOUS
    <3>7. z \in [1..(c + 1) -> X]
      BY <2>5, <3>4, <3>5, <3>6
    <3>8. ASSUME NEW i \in 1..(c + 1), NEW j \in 1..(c + 1), i < j
          PROVE  z[i] < z[j]
      <4>1. i # c + 1 /\ i \in 1..c
        BY <3>8
      <4>2. z[i] = s[i] /\ s[i] \in X \ {x}
        BY <3>4, <3>5, <4>1
      <4>3. CASE j = c + 1
        BY <2>2, <3>5, <4>2, <4>3
      <4>4. CASE j # c + 1
        BY <3>4, <3>5, <3>6, <3>8, <4>1, <4>2, <4>4
      <4> QED
        BY <4>3, <4>4
    <3>9. Increasing(z, X)
      <4>1. DOMAIN z = 1..(c + 1)
        BY <3>5
      <4> QED
        BY <3>3, <3>7, <3>8, <4>1 DEF Increasing
    <3> QED
      BY <3>9
  <2> QED
    BY <2>4, <2>5
<1>3. Nat \subseteq W
  <2> HIDE DEF W
  <2> QED
    BY <1>1, <1>2, SetInduction
<1> QED
  BY <1>3

\* A queue in order of process numbers has each of the processes, once.
LEMMA InOrderLists ==
  ASSUME NEW S, S \subseteq Procs
  PROVE  /\ InOrder(S) \in Seq(S) /\ Distinct(InOrder(S))
         /\ \A x : OnList(InOrder(S), x) <=> x \in S
<1>1. S \subseteq -5..((NR_PROCS + 5) - 6) /\ NR_PROCS + 5 \in Nat
  BY ProcAssumption
     DEF Procs, Tasks, Slots, DISK, IDLE, CLOCK, SYSTASK, HARDWARE
<1>2. \E s : Increasing(s, S)
  BY <1>1, IncreasingExists
<1>3. PICK s : s = InOrder(S)
  OBVIOUS
<1>4. Increasing(s, S)
  <2>1. \E z \in [1..Cardinality(S) -> S] :
          \A i, j \in DOMAIN z : i < j => z[i] < z[j]
    BY <1>2 DEF Increasing
  <2> QED
    BY <1>3, <2>1 DEF InOrder, Increasing
<1>5. IsFiniteSet(S) /\ Cardinality(S) \in Nat
  BY ProcsFinite, FS_Subset, FS_CardinalityType
<1>6. PICK c \in Nat : c = Cardinality(S)
  BY <1>5
<1>7. /\ s \in [1..c -> S] /\ DOMAIN s = 1..c
      /\ \A i, j \in 1..c : i < j => s[i] < s[j]
  BY <1>4, <1>6 DEF Increasing
<1>8. s \in Seq(S)
  BY <1>7
<1>9. \A i, j \in 1..c : s[i] = s[j] => i = j
  <2>1. \A i \in 1..c : s[i] \in Int
    <3>1. \A x \in S : x \in Int
      BY <1>1
    <3> QED
      BY <1>7, <3>1
  <2> QED
    BY <1>7, <2>1
<1>10. ASSUME NEW x \in S PROVE OnList(s, x)
  <2>1. SUFFICES ASSUME ~OnList(s, x) PROVE FALSE
    OBVIOUS
  <2>2. s \in [1..c -> S \ {x}]
    BY <1>7, <2>1 DEF OnList
  <2>3. IsFiniteSet(S \ {x}) /\ Cardinality(S \ {x}) = c - 1
    BY <1>5, <1>6, FS_RemoveElement
  <2>4. IsFiniteSet(1..c) /\ Cardinality(1..c) = c
    BY FS_Interval
  <2>5. Cardinality(S \ {x}) < Cardinality(1..c)
    BY <2>3, <2>4
  <2>6. \E i, j \in 1..c : i # j /\ s[i] = s[j]
    BY <2>2, <2>3, <2>4, <2>5, FS_PigeonHole
  <2> QED
    BY <1>9, <2>6
<1>11. \A x : OnList(s, x) => x \in S
  BY <1>7 DEF OnList
<1> QED
  BY <1>3, <1>7, <1>8, <1>9, <1>10, <1>11 DEF Distinct

\* After booting every program is ready and no process has a flag.
LEMMA BootSafe == Safe(pick_proc(BootState))
<1>1. PICK b : b = BootState
  OBVIOUS
<1> DEFINE Members(q) == Programs \cap CASE q = TASK_Q -> Tasks
                                         [] q = SERVER_Q -> {MM, FS}
                                         [] q = USER_Q -> UserSlots
<1>2. \A q \in Queues, p \in Procs : p \in Members(q) <=> p \in Programs /\ q = Class(p)
  <2>1. /\ Members(TASK_Q) = Programs \cap Tasks
        /\ Members(SERVER_Q) = Programs \cap {MM, FS}
        /\ Members(USER_Q) = Programs \cap UserSlots
    BY DEF TASK_Q, SERVER_Q, USER_Q
  <2> SUFFICES ASSUME NEW p \in Procs, NEW q \in Queues
               PROVE  p \in Members(q) <=> p \in Programs /\ q = Class(p)
    OBVIOUS
  <2>2. p \in Programs => p \in Tasks \/ p \in {MM, FS} \/ p \in UserSlots
    BY IpcAssumption DEF Slots, UserSlots, MM, FS, LOW_USER
  <2>3. /\ p \in UserSlots => p \notin Tasks /\ p \notin {MM, FS}
        /\ p \in {MM, FS} => p \notin Tasks
    BY DEF Tasks, DISK, CLOCK, SYSTASK, UserSlots, MM, FS, LOW_USER
  <2>4. /\ p \in Members(TASK_Q) <=> p \in Programs /\ p \in Tasks
        /\ p \in Members(SERVER_Q) <=> p \in Programs /\ p \in {MM, FS}
        /\ p \in Members(USER_Q) <=> p \in Programs /\ p \in UserSlots
    BY <2>1
  <2> HIDE DEF Members
  <2>5. q \in {TASK_Q, SERVER_Q, USER_Q}
    BY DEF Queues
  <2>6. TASK_Q # SERVER_Q /\ TASK_Q # USER_Q /\ SERVER_Q # USER_Q
    BY DEF TASK_Q, SERVER_Q, USER_Q
  <2> QED
    BY <2>2, <2>3, <2>4, <2>5, <2>6 DEF Class
<1>3. \A q \in Queues : b.rdy[q] = InOrder(Members(q))
  BY <1>1 DEF BootState
<1>4. b.rdy = [q \in Queues |-> InOrder(Members(q))]
  BY <1>1 DEF BootState
<1>5. \A q \in Queues : Members(q) \subseteq Schedulable
  BY IpcAssumption
     DEF Schedulable, Procs, Tasks, Slots, DISK, CLOCK, SYSTASK, HARDWARE, IDLE
<1> HIDE DEF Members
<1>6. \A q \in Queues : /\ InOrder(Members(q)) \in Seq(Schedulable)
                        /\ Distinct(InOrder(Members(q)))
                        /\ \A x : OnList(InOrder(Members(q)), x) <=> x \in Members(q)
  <2> SUFFICES ASSUME NEW q \in Queues
               PROVE  /\ InOrder(Members(q)) \in Seq(Schedulable)
                      /\ Distinct(InOrder(Members(q)))
                      /\ \A x : OnList(InOrder(Members(q)), x) <=> x \in Members(q)
    OBVIOUS
  <2>1. PICK S : S = Members(q)
    OBVIOUS
  <2>2. S \subseteq Procs /\ S \subseteq Schedulable
    BY <1>5, <2>1 DEF Schedulable
  <2>3. /\ InOrder(S) \in Seq(S) /\ Distinct(InOrder(S))
        /\ \A x : OnList(InOrder(S), x) <=> x \in S
    BY <2>2, InOrderLists
  <2>4. InOrder(S) \in Seq(Schedulable)
    BY <2>2, <2>3
  <2> QED
    BY <2>1, <2>3, <2>4
<1>7. /\ b.rdy \in [Queues -> Seq(Schedulable)]
      /\ Lists(b.rdy, Procs)
  <2>1. b.rdy \in [Queues -> Seq(Schedulable)]
    BY <1>4, <1>6
  <2>2. Schedulable \subseteq Procs
    BY DEF Schedulable
  <2> QED
    BY <1>2, <1>3, <1>6, <2>1, <2>2 DEF Lists
<1>8. /\ b.p_flags = [p \in Procs |-> {}]
      /\ b.p_getfrom = [p \in Procs |-> ANY]
      /\ b.p_sendto = [p \in Procs |-> MM]
      /\ b.p_callerq = [p \in Procs |-> << >>]
      /\ b.p_int_blocked = [t \in Tasks |-> FALSE]
      /\ b.p_pending = [p \in Slots |-> {}]
      /\ b.p_pendcount = [p \in Slots |-> 0]
      /\ b.user_priority = [p \in Slots |-> ForkLow]
      /\ b.time_counter = [p \in Slots |-> 0]
      /\ b.mess = [p \in Procs |-> NoMess]
      /\ b.proc_ptr = IDLE /\ b.bill_ptr = IDLE
      /\ b.sig_procs = 0 /\ b.panic = FALSE
  BY <1>1 DEF BootState
<1>9. Priorities(b)
  BY <1>1 DEF BootState, Priorities
<1>10. b.p_priority \in [Procs -> PPRI_NONE..PPRI_IDLE]
  <2>1. \A p \in Procs : b.p_priority[p] \in PPRI_NONE..PPRI_IDLE
    BY <1>9 DEF Priorities, PPRI_NONE, PPRI_TASK, PPRI_SERVER, PPRI_USER, PPRI_IDLE
  <2>2. b.p_priority = [p \in Procs |-> b.p_priority[p]]
    BY <1>1 DEF BootState
  <2> QED
    BY <2>1, <2>2
<1>11. MM \in Procs /\ IDLE \in Procs /\ NoMess \in Mess /\ ForkLow \in Int
  BY ProcFacts, MessageTyped, SystemAssumption DEF Procs
<1>12. b \in KernelState
  <2>1. /\ b.p_flags \in [Procs -> SUBSET Flags]
        /\ b.p_getfrom \in [Procs -> Procs \cup {ANY}]
        /\ b.p_sendto \in [Procs -> Procs]
        /\ b.p_callerq \in [Procs -> Seq(Procs)]
    <3>1. {} \in SUBSET Flags /\ ANY \in Procs \cup {ANY} /\ << >> \in Seq(Procs)
      OBVIOUS
    <3> QED
      BY <1>8, <1>11, <3>1
  <2>2. /\ b.p_int_blocked \in [Tasks -> BOOLEAN]
        /\ b.p_pending \in [Slots -> SUBSET SIGS]
        /\ b.mess \in [Procs -> Mess]
    BY <1>8, <1>11
  <2>3. /\ b.p_pendcount \in [Slots -> Nat]
        /\ b.time_counter \in [Slots -> Int]
    <3>1. \A v \in Int : [p \in Slots |-> v] \in [Slots -> Int]
      OBVIOUS
    <3>2. \A v \in Nat : [p \in Slots |-> v] \in [Slots -> Nat]
      OBVIOUS
    <3>3. 0 \in Int /\ 0 \in Nat
      OBVIOUS
    <3>4. /\ [p \in Slots |-> 0] \in [Slots -> Nat]
          /\ [p \in Slots |-> 0] \in [Slots -> Int]
      BY <3>1, <3>2, <3>3, Zenon
    <3> QED
      BY <1>8, <3>4
  <2>4. b.user_priority \in [Slots -> Int]
    BY <1>8, <1>11
  <2>5. /\ b.proc_ptr \in Procs /\ b.bill_ptr \in Procs
        /\ b.sig_procs \in Int /\ b.panic \in BOOLEAN
    <3>1. b.proc_ptr \in Procs /\ b.bill_ptr \in Procs /\ b.panic \in BOOLEAN
      BY <1>8, <1>11
    <3>2. b.sig_procs \in Int
      BY <1>8
    <3> QED
      BY <3>1, <3>2
  <2>6. b = [p_flags |-> b.p_flags, p_priority |-> b.p_priority,
             p_getfrom |-> b.p_getfrom, p_sendto |-> b.p_sendto,
             p_callerq |-> b.p_callerq, p_int_blocked |-> b.p_int_blocked,
             p_pending |-> b.p_pending, p_pendcount |-> b.p_pendcount,
             user_priority |-> b.user_priority, time_counter |-> b.time_counter,
             mess |-> b.mess, rdy |-> b.rdy, proc_ptr |-> b.proc_ptr,
             bill_ptr |-> b.bill_ptr, sig_procs |-> b.sig_procs,
             panic |-> b.panic]
    BY <1>1 DEF BootState
  <2> QED
    BY <1>7, <1>10, <2>1, <2>2, <2>3, <2>4, <2>5, <2>6 DEF KernelState
<1>13. PICK F, G, T, Q, B, P, C, N :
         /\ F = b.p_flags /\ G = b.p_getfrom /\ T = b.p_sendto
         /\ Q = b.p_callerq /\ B = b.p_int_blocked /\ P = b.p_pending
         /\ C = b.p_pendcount /\ N = b.sig_procs
  OBVIOUS
<1>14. /\ \A p \in Procs : F[p] = {}
       /\ \A p \in Procs : Q[p] = << >>
       /\ \A t \in Tasks : B[t] = FALSE
       /\ \A p \in Slots : P[p] = {} /\ C[p] = 0
       /\ N = 0
  BY <1>8, <1>13
<1>15. FieldTypes(F, G, T, Q, B, P, C)
  BY <1>12, <1>13 DEF KernelState, FieldTypes
<1>16. FlagsFit(F) /\ SendsToPrograms(F, G, T) /\ NoneMissed(F, G, Q) /\ IntKept(F, G, B)
  BY <1>14, ProcFacts DEF FlagsFit, SendsToPrograms, NoneMissed, IntKept, Waiting
<1>17. Senders(F, T, Q)
  BY <1>14 DEF Senders, Distinct, OnList
<1>18. NoCycle(F, T)
  <2>1. \A p \in Programs : "SENDING" \notin F[p]
    BY <1>14, ProcFacts
  <2>2. \A S \in (SUBSET Programs) \ {{}} : \E p \in S : p \in Programs
    OBVIOUS
  <2> QED
    BY <2>1, <2>2, Zenon DEF NoCycle
<1>19. SignalsFit(F, P, C)
  <2> SUFFICES ASSUME NEW p \in Slots
               PROVE  /\ IsFiniteSet(P[p]) /\ Cardinality(P[p]) <= C[p]
                      /\ "PENDING" \in F[p] => P[p] # {}
                      /\ C[p] > 0 => "SIG_PENDING" \in F[p]
    BY DEF SignalsFit
  <2>1. F[p] = {} /\ P[p] = {} /\ C[p] = 0
    BY <1>14, ProcFacts
  <2>2. IsFiniteSet(P[p]) /\ Cardinality(P[p]) = 0
    BY <2>1, FS_EmptySet
  <2> QED
    BY <2>1, <2>2
<1>20. N = Cardinality(Pending(F))
  <2>1. Pending(F) = {}
    BY <1>14, ProcFacts DEF Pending
  <2>2. Cardinality({}) = 0
    BY FS_EmptySet
  <2> QED
    BY <1>14, <2>1, <2>2
<1>21. Agree(F, G, T, Q, B, P, C, N)
  BY <1>15, <1>16, <1>17, <1>18, <1>19, <1>20 DEF Agree
<1>22. Fine(b) /\ Runnable(b) = Procs /\ MMHears(b)
  <2>1. Fine(b)
    BY <1>8, <1>9, <1>12, <1>13, <1>21 DEF Fine
  <2>2. Runnable(b) = Procs
    BY <1>13, <1>14 DEF Runnable
  <2> QED
    BY <1>13, <1>14, <2>1, <2>2 DEF MMHears
<1>23. /\ pick_proc(b) \in KernelState /\ SameData(b, pick_proc(b))
       /\ pick_proc(b).rdy = b.rdy /\ Highest(pick_proc(b))
  BY <1>12, PickEffect DEF Highest
<1> QED
  BY <1>1, <1>7, <1>22, <1>23, SameDataFine DEF Safe, Sound
-----------------------------------------------------------------------------
(* The theorems *)

\* Every action keeps the invariant, and nobody is released from a receive
\* by a message of another source than it asked for.
LEMMA StepKeeps == Safe(k) /\ [Next]_k => Safe(k)' /\ Asked(k, k')
<1> SUFFICES ASSUME Safe(k), [Next]_k PROVE Safe(k') /\ Asked(k, k')
  OBVIOUS
<1>1. CASE SysCall
  <2>1. k.proc_ptr \in Programs
    BY <1>1 DEF SysCall
  <2>2. PICK function \in {"SEND", "RECEIVE", "BOTH"} :
          \E d \in (Programs \ {k.proc_ptr})
                    \cup IF function = "RECEIVE" THEN {ANY, HARDWARE} ELSE {} :
            k' = sys_call(k, function, d).k
    BY <1>1 DEF SysCall
  <2>3. PICK d \in (Programs \ {k.proc_ptr})
                     \cup IF function = "RECEIVE" THEN {ANY, HARDWARE} ELSE {} :
          k' = sys_call(k, function, d).k
    BY <2>2
  <2> QED
    BY <2>1, <2>2, <2>3, SysCallKeeps
<1>2. CASE Interrupt
  BY <1>2, InterruptKeeps DEF Interrupt
<1>3. CASE CauseSig
  BY <1>3, CauseSigKeeps DEF CauseSig
<1>4. CASE EndSig
  BY <1>4, EndSigKeeps DEF EndSig
<1>5. CASE Sched
  BY <1>5, SchedKeeps DEF Sched
<1>6. CASE UNCHANGED k
  BY <1>6 DEF Asked
<1> QED
  BY <1>1, <1>2, <1>3, <1>4, <1>5, <1>6 DEF Next

\* The invariant: flags, queues, callers and signals agree, MM hears of every
\* signal, and the running process is the one pick_proc() would choose.
THEOREM SafeAlways == Spec => []Safe(k)
<1>1. Init => Safe(k)
  BY BootSafe DEF Init
<1>2. Safe(k) /\ [Next]_k => Safe(k)'
  BY StepKeeps
<1> QED
  BY <1>1, <1>2, PTL DEF Spec

\* The kernel's data keep their types, whatever programs call.
THEOREM TypeCorrect == Spec => []TypeOK
<1>1. Safe(k) => TypeOK
  <2> SUFFICES ASSUME Safe(k) PROVE TypeOK
    OBVIOUS
  <2>1. k \in KernelState /\ k.sig_procs = Cardinality(Pending(k.p_flags))
    BY DEF Safe, Sound, Fine, Agree
  <2>2. k.sig_procs \in Nat
    BY <2>1, PendingFinite, FS_CardinalityType
  <2> QED
    BY <2>1, <2>2 DEF TypeOK, KernelState
<1> QED
  BY <1>1, SafeAlways, PTL

\* ready(), unready(), pick_proc(), mini_send() and mini_rec() keep the ready
\* queues, the running process and the caller queues in step with p_flags.
THEOREM QueuesAgreeAlways == Spec => []QueuesAgree
<1>1. Safe(k) => QueuesAgree
  <2> SUFFICES ASSUME Safe(k) PROVE QueuesAgree
    OBVIOUS
  <2>1. /\ k \in KernelState /\ Priorities(k) /\ Lists(k.rdy, Runnable(k))
        /\ Senders(k.p_flags, k.p_sendto, k.p_callerq) /\ Highest(k)
    BY DEF Safe, Sound, Fine, Agree
  <2>2. ReadyQueues
    <3>1. \A p \in Programs : QueueOf(k, p) = Class(p)
      BY <2>1, Classes
    <3>2. \A p \in Schedulable : p \in Runnable(k) <=> k.p_flags[p] = {}
      BY DEF Runnable, Schedulable
    <3> QED
      BY <2>1, <3>1, <3>2 DEF Lists, ReadyQueues, Distinct
  <2>3. RunsHighest
    BY <2>1, PickEffect DEF RunsHighest, Highest
  <2>4. CallerQueues
    BY <2>1 DEF Senders, CallerQueues, Distinct
  <2> QED
    BY <2>2, <2>3, <2>4 DEF QueuesAgree
<1> QED
  BY <1>1, SafeAlways, PTL

\* The ELOCKED check of mini_send() lets no circle of senders come about.
THEOREM NoWaitCycleAlways == Spec => []NoWaitCycle
<1>1. Safe(k) => NoWaitCycle
  BY DEF Safe, Sound, Fine, Agree, NoCycle, NoWaitCycle
<1> QED
  BY <1>1, SafeAlways, PTL

\* Nobody waits for a message, an interrupt or a signal that is there, and
\* MM always takes what inform() sends.
THEOREM NothingMissedAlways == Spec => []NothingMissed
<1>1. Safe(k) => NothingMissed
  <2> SUFFICES ASSUME Safe(k) PROVE NothingMissed
    OBVIOUS
  <2>1. PICK F, G, T, Q, B, P, C, N :
          /\ F = k.p_flags /\ G = k.p_getfrom /\ T = k.p_sendto
          /\ Q = k.p_callerq /\ B = k.p_int_blocked /\ P = k.p_pending
          /\ C = k.p_pendcount /\ N = k.sig_procs
    OBVIOUS
  <2>2. Agree(F, G, T, Q, B, P, C, N) /\ ~k.panic /\ MMHears(k)
    BY <2>1 DEF Safe, Sound, Fine
  <2>3. F \in [Procs -> SUBSET Flags] /\ Q \in [Procs -> Seq(Procs)]
    BY <2>2 DEF Agree, FieldTypes
  <2>4. NoMissedMessage
    <3>1. NoneMissed(F, G, Q)
      BY <2>2 DEF Agree
    <3>2. \A d \in Procs : \A i \in DOMAIN Q[d] : Q[d][i] \in Procs /\ OnList(Q[d], Q[d][i])
      <4>1. \A d \in Procs : Q[d] \in Seq(Procs)
        BY <2>3
      <4>2. \A d \in Procs : \A i \in DOMAIN Q[d] : Q[d][i] \in Procs
        BY <4>1
      <4> QED
        BY <4>2 DEF OnList
    <3> QED
      BY <2>1, <3>1, <3>2 DEF NoMissedMessage, NoneMissed, Waiting
  <2>5. InterruptNotLost
    <3>1. \A t \in Tasks : F[t] = {"RECEIVING"} => Waiting(F[t])
      BY DEF Waiting
    <3> QED
      BY <2>1, <2>2, <3>1 DEF InterruptNotLost, Agree, IntKept
  <2>6. SigProcsCount
    BY <2>1, <2>2 DEF SigProcsCount, Agree, Pending
  <2>7. MMNotIdleWithSignals
    BY <2>2 DEF MMNotIdleWithSignals, MMHears, Waiting
  <2>8. NotifierNeverBlocks
    BY <2>1, <2>2, ProcFacts DEF NotifierNeverBlocks, Agree, FlagsFit
  <2> QED
    BY <2>4, <2>5, <2>6, <2>7, <2>8 DEF NothingMissed, MMIsTold
<1> QED
  BY <1>1, SafeAlways, PTL

\* An interrupt or another sender never ends the wait for a certain reply.
THEOREM OnlyAskedSourceAlways == Spec => OnlyAskedSource
<1> DEFINE A == \A p \in Programs :
                  "RECEIVING" \in k.p_flags[p] /\ "RECEIVING" \notin k'.p_flags[p] =>
                    k.p_getfrom[p] \in {ANY, k'.mess[p].src}
<1>1. Safe(k) /\ [Next]_k => [A]_k
  BY StepKeeps DEF Asked
<1> QED
  BY <1>1, SafeAlways, PTL DEF Spec, OnlyAskedSource

-----------------------------------------------------------------------------
(* Held interrupts *)

\* The activation of a handler belongs to a task that interrupts start.
HandlersHaveTasks ==
  \A i \in 1..Len(stack) : stack[i].at = "test" => stack[i].task \in IrqTasks

\* Why OneSwitcher holds: whatever switches is the outermost activation (all
\* others hold their interrupts), and it began when nobody was switching.
SwitchAtBottom ==
  \A i \in 1..Len(stack) : InSwitch(i) => i = 1 /\ ~switching

HeldInv == HeldTypeOK /\ HandlersHaveTasks /\ SwitchAtBottom /\ HeldOnce /\ NoneLost
-----------------------------------------------------------------------------
\* What the four ways to change the stack do to it.

LEMMA GoToEffect ==
  ASSUME HeldTypeOK, stack # << >>, NEW place \in Places, GoTo(place)
  PROVE  /\ stack' \in Seq(Activations)
         /\ Len(stack') = Len(stack)
         /\ Len(stack) \in Nat \ {0}
         /\ \A i \in 1..Len(stack) :
              stack'[i] = IF i = Len(stack)
                          THEN [stack[i] EXCEPT !.at = place] ELSE stack[i]
<1> DEFINE n == Len(stack)
           e == [stack[n] EXCEPT !.at = place]
<1>1. n \in Nat \ {0} /\ n \in 1..n
  BY EmptySeq, LenProperties DEF HeldTypeOK
<1>2. stack[n] \in Activations
  BY <1>1, ElementOfSeq DEF HeldTypeOK
<1>3. e \in Activations
  BY <1>2 DEF Activations
<1>4. stack' = [stack EXCEPT ![n] = e]
  BY <1>1, LenProperties DEF GoTo, HeldTypeOK
<1> HIDE DEF n, e
<1>5. /\ [stack EXCEPT ![n] = e] \in Seq(Activations)
      /\ Len([stack EXCEPT ![n] = e]) = Len(stack)
      /\ \A j \in 1..Len(stack) :
           [stack EXCEPT ![n] = e][j] = IF j = n THEN e ELSE stack[j]
  BY <1>1, <1>3, ExceptSeq DEF HeldTypeOK, n
<1> QED
  BY <1>1, <1>4, <1>5 DEF n, e

LEMMA PushEffect ==
  ASSUME HeldTypeOK, NEW a \in Activations
  PROVE  /\ Append(stack, a) \in Seq(Activations)
         /\ Len(Append(stack, a)) = Len(stack) + 1
         /\ Len(stack) \in Nat
         /\ \A i \in 1..Len(stack) : Append(stack, a)[i] = stack[i]
         /\ Append(stack, a)[Len(stack) + 1] = a
BY AppendProperties, LenProperties DEF HeldTypeOK

LEMMA ReturnEffect ==
  ASSUME HeldTypeOK, stack # << >>, Return
  PROVE  /\ stack' \in Seq(Activations)
         /\ Len(stack') = Len(stack) - 1
         /\ Len(stack) \in Nat \ {0}
         /\ \A i \in 1..(Len(stack) - 1) : stack'[i] = stack[i]
<1>1. Len(stack) \in Nat \ {0}
  BY EmptySeq DEF HeldTypeOK
<1>2. \A i \in 1..(Len(stack) - 1) : stack[i] \in Activations
  BY <1>1, ElementOfSeq DEF HeldTypeOK
<1> DEFINE n == Len(stack) - 1
<1>3. n \in Nat
  BY <1>1
<1>4. stack' = SubSeq(stack, 1, n)
  BY DEF Return
<1> HIDE DEF n
<1>5. /\ stack' \in Seq(Activations)
      /\ Len(stack') = IF 1 <= n THEN n - 1 + 1 ELSE 0
      /\ \A i \in 1..(n - 1 + 1) : stack'[i] = stack[1 + i - 1]
  BY <1>2, <1>3, <1>4, SubSeqProperties DEF n
<1>6. \A i \in 1..n : i \in 1..(n - 1 + 1) /\ 1 + i - 1 = i
  BY <1>3
<1>7. \A i \in 1..n : stack'[i] = stack[i]
  BY <1>5, <1>6
<1>8. Len(stack') = n
  BY <1>3, <1>5
<1> QED
  BY <1>1, <1>5, <1>7, <1>8 DEF n

\* The held queue: its new members, and that it stays without duplicates.
LEMMA HoldEffect ==
  ASSUME HeldTypeOK, HeldOnce, NEW t \in IrqTasks, Hold(t)
  PROVE  /\ held' \in Seq(IrqTasks)
         /\ p_int_held' \in [IrqTasks -> BOOLEAN]
         /\ HeldOnce'
         /\ p_int_held'[t]
         /\ \A u \in IrqTasks : p_int_held[u] => p_int_held'[u]
<1>1. CASE p_int_held[t]
  BY <1>1 DEF Hold, HeldTypeOK, HeldOnce
<1>2. CASE ~p_int_held[t]
  <2>1. /\ held' = Append(held, t)
        /\ p_int_held' = [p_int_held EXCEPT ![t] = TRUE]
    BY <1>2 DEF Hold
  <2>2. /\ held' \in Seq(IrqTasks) /\ Len(held') = Len(held) + 1
        /\ Len(held) \in Nat
        /\ \A i \in 1..Len(held) : held'[i] = held[i]
        /\ held'[Len(held) + 1] = t
    BY <2>1, AppendProperties, LenProperties DEF HeldTypeOK
  <2>3. DOMAIN held = 1..Len(held) /\ DOMAIN held' = 1..(Len(held) + 1)
    BY <2>2, LenProperties DEF HeldTypeOK
  <2>4. \A u \in IrqTasks : p_int_held'[u] = (IF u = t THEN TRUE ELSE p_int_held[u])
    BY <2>1 DEF HeldTypeOK
  <2>5. \A i \in DOMAIN held : held[i] # t
    BY <1>2 DEF HeldOnce
  <2>6. \A u \in IrqTasks :
          p_int_held'[u] <=> \E i \in DOMAIN held' : held'[i] = u
    <3> SUFFICES ASSUME NEW u \in IrqTasks
                 PROVE  p_int_held'[u] <=> \E i \in DOMAIN held' : held'[i] = u
      OBVIOUS
    <3>1. CASE u = t
      <4>1. p_int_held'[u]
        BY <3>1, <2>4
      <4>2. Len(held) + 1 \in DOMAIN held' /\ held'[Len(held) + 1] = u
        BY <3>1, <2>2, <2>3
      <4> QED
        BY <4>1, <4>2
    <3>2. CASE u # t
      <4>1. (\E i \in DOMAIN held' : held'[i] = u)
              <=> \E i \in DOMAIN held : held[i] = u
        BY <3>2, <2>2, <2>3
      <4> QED
        BY <3>2, <4>1, <2>4 DEF HeldOnce
    <3> QED
      BY <3>1, <3>2
  <2>7. \A i, j \in DOMAIN held' : held'[i] = held'[j] => i = j
    BY <2>2, <2>3, <2>5 DEF HeldOnce
  <2> QED
    BY <2>1, <2>2, <2>4, <2>6, <2>7 DEF HeldTypeOK, HeldOnce
<1> QED
  BY <1>1, <1>2

LEMMA TakeHeldEffect ==
  ASSUME HeldTypeOK, HeldOnce, held # << >>, TakeHeld
  PROVE  /\ Head(held) \in IrqTasks
         /\ held' \in Seq(IrqTasks)
         /\ p_int_held' \in [IrqTasks -> BOOLEAN]
         /\ HeldOnce'
         /\ \A u \in IrqTasks \ {Head(held)} : p_int_held'[u] = p_int_held[u]
<1>1. /\ Head(held) \in IrqTasks /\ held' \in Seq(IrqTasks)
      /\ Len(held') = Len(held) - 1 /\ Len(held) \in Nat \ {0}
      /\ \A i \in 1..Len(held') : held'[i] = held[i + 1]
  BY HeadTailProperties, EmptySeq DEF HeldTypeOK, TakeHeld
<1>2. DOMAIN held = 1..Len(held) /\ DOMAIN held' = 1..(Len(held) - 1)
  BY <1>1, LenProperties DEF HeldTypeOK
<1>3. Head(held) = held[1]
  BY <1>1 DEF HeldTypeOK
<1>4. \A u \in IrqTasks :
        p_int_held'[u] = (IF u = Head(held) THEN FALSE ELSE p_int_held[u])
  BY DEF TakeHeld, HeldTypeOK
<1>5. \A u \in IrqTasks :
        p_int_held'[u] <=> \E i \in DOMAIN held' : held'[i] = u
  <2> SUFFICES ASSUME NEW u \in IrqTasks
               PROVE  p_int_held'[u] <=> \E i \in DOMAIN held' : held'[i] = u
    OBVIOUS
  <2>1. CASE u = Head(held)
    <3>1. \A i \in DOMAIN held' : held'[i] # u
      BY <2>1, <1>1, <1>2, <1>3 DEF HeldOnce
    <3> QED
      BY <2>1, <3>1, <1>4
  <2>2. CASE u # Head(held)
    <3>1. ASSUME NEW i \in DOMAIN held, held[i] = u
          PROVE  \E j \in DOMAIN held' : held'[j] = u
      <4>1. i - 1 \in 1..(Len(held) - 1) /\ (i - 1) + 1 = i
        BY <3>1, <2>2, <1>1, <1>2, <1>3
      <4> QED
        BY <4>1, <3>1, <1>1, <1>2
    <3>2. ASSUME NEW j \in DOMAIN held', held'[j] = u
          PROVE  \E i \in DOMAIN held : held[i] = u
      <4>1. j + 1 \in DOMAIN held /\ held[j + 1] = u
        BY <3>2, <1>1, <1>2
      <4> QED
        BY <4>1
    <3>3. p_int_held[u] <=> \E i \in DOMAIN held : held[i] = u
      BY DEF HeldOnce
    <3>4. (\E i \in DOMAIN held : held[i] = u)
            <=> \E j \in DOMAIN held' : held'[j] = u
      BY <3>1, <3>2
    <3>5. p_int_held'[u] = p_int_held[u]
      BY <2>2, <1>4
    <3> QED
      BY <3>3, <3>4, <3>5
  <2> QED
    BY <2>1, <2>2
<1>6. \A i, j \in DOMAIN held' : held'[i] = held'[j] => i = j
  <2> SUFFICES ASSUME NEW i \in DOMAIN held', NEW j \in DOMAIN held',
                      held'[i] = held'[j]
               PROVE  i = j
    OBVIOUS
  <2>1. i + 1 \in DOMAIN held /\ j + 1 \in DOMAIN held
        /\ held[i + 1] = held[j + 1]
    BY <1>1, <1>2
  <2> QED
    BY <2>1, <1>1, <1>2 DEF HeldOnce
<1>7. p_int_held' \in [IrqTasks -> BOOLEAN]
  BY DEF TakeHeld, HeldTypeOK
<1> QED
  BY <1>1, <1>4, <1>5, <1>6, <1>7 DEF HeldOnce
-----------------------------------------------------------------------------
\* The initial state and the steps, one by one.

LEMMA InitIInv == HeldInit => HeldInv
<1> SUFFICES ASSUME HeldInit PROVE HeldInv
  OBVIOUS
<1>1. stack \in Seq(Activations) /\ Len(stack) = 0
  BY EmptySeq DEF HeldInit
<1>2. held \in Seq(IrqTasks) /\ Len(held) = 0
  BY EmptySeq DEF HeldInit
<1>3. DOMAIN held = {}
  BY <1>2, LenProperties
<1>4. HeldTypeOK
  BY <1>1, <1>2 DEF HeldInit, HeldTypeOK
<1>5. HandlersHaveTasks /\ SwitchAtBottom
  BY <1>1 DEF HandlersHaveTasks, SwitchAtBottom
<1>6. HeldOnce /\ NoneLost
  BY <1>3 DEF HeldInit, HeldOnce, NoneLost
<1> QED
  BY <1>4, <1>5, <1>6 DEF HeldInv

LEMMA CallKernelIInv == ASSUME HeldInv, CallKernel PROVE HeldInv'
<1> DEFINE a == [task |-> NoTask, at |-> "sys_call"]
<1>1. a \in Activations
  BY DEF Activations, Places
<1>2. stack' = Append(stack, a)
  BY DEF CallKernel, HeldInv, HeldTypeOK
<1>3. Len(stack) = 0
  BY EmptySeq DEF CallKernel
<1>4. /\ stack' \in Seq(Activations) /\ Len(stack') = 1 /\ stack'[1] = a
  BY <1>1, <1>2, <1>3, PushEffect DEF HeldInv
<1>5. \A i \in 1..Len(stack') : i = 1 /\ stack'[i] = a
  BY <1>4
<1>6. HeldTypeOK'
  BY <1>4 DEF CallKernel, HeldInv, HeldTypeOK
<1>7. HandlersHaveTasks' /\ SwitchAtBottom'
  BY <1>5 DEF CallKernel, HandlersHaveTasks, SwitchAtBottom, InSwitch
<1>8. HeldOnce'
  BY DEF CallKernel, HeldInv, HeldOnce
<1>9. NoneLost'
  <2> SUFFICES ASSUME NEW t \in owed
               PROVE  \E i \in DOMAIN held : held[i] = t
    BY DEF CallKernel, NoneLost
  <2>1. stack = << >>
    BY DEF CallKernel
  <2> QED
    BY <2>1 DEF HeldInv, NoneLost
<1> QED
  BY <1>6, <1>7, <1>8, <1>9 DEF HeldInv

LEMMA LockIInv == ASSUME HeldInv, Lock \/ Unlock PROVE HeldInv'
<1>1. UNCHANGED <<stack, held, p_int_held, owed>> /\ switching' \in BOOLEAN
  BY DEF Lock, Unlock
<1>2. Len(stack) = 0
  BY EmptySeq DEF Lock, Unlock
<1>3. HeldTypeOK' /\ HandlersHaveTasks' /\ HeldOnce' /\ NoneLost'
  BY <1>1 DEF HeldInv, HeldTypeOK, HandlersHaveTasks, HeldOnce, NoneLost
<1>4. SwitchAtBottom'
  BY <1>1, <1>2 DEF SwitchAtBottom
<1> QED
  BY <1>3, <1>4 DEF HeldInv

LEMMA IrqIInv == ASSUME HeldInv, NEW t \in IrqTasks, Irq(t) PROVE HeldInv'
<1> DEFINE a == [task |-> t, at |-> "test"]
           n == Len(stack)
<1>1. a \in Activations
  BY DEF Activations, Places
<1>2. /\ stack' \in Seq(Activations) /\ n \in Nat /\ Len(stack') = n + 1
      /\ \A i \in 1..n : stack'[i] = stack[i]
      /\ stack'[n + 1] = a
  BY <1>1, PushEffect DEF HeldInv, Irq
<1>3. UNCHANGED <<held, p_int_held, switching>> /\ owed' = owed \cup {t}
  BY DEF Irq
<1>4. HeldTypeOK' /\ HeldOnce'
  BY <1>2, <1>3 DEF HeldInv, HeldTypeOK, HeldOnce
<1>5. HandlersHaveTasks' /\ SwitchAtBottom'
  <2>1. \A i \in 1..Len(stack') :
          \/ i \in 1..n /\ stack'[i] = stack[i]
          \/ stack'[i] = a
    BY <1>2
  <2> QED
    BY <2>1, <1>3 DEF HeldInv, HandlersHaveTasks, SwitchAtBottom, InSwitch
<1>6. NoneLost'
  <2>1. DOMAIN stack = 1..n /\ DOMAIN stack' = 1..(n + 1)
    BY <1>2, LenProperties DEF HeldInv, HeldTypeOK
  <2>2. a \in {stack'[i] : i \in DOMAIN stack'}
    BY <1>2, <2>1
  <2>3. {stack[i] : i \in DOMAIN stack} \subseteq {stack'[i] : i \in DOMAIN stack'}
    BY <1>2, <2>1
  <2> QED
    BY <2>2, <2>3, <1>3 DEF HeldInv, NoneLost
<1> QED
  BY <1>4, <1>5, <1>6 DEF HeldInv

\* GoTo from a place other than test loses no handler that is about to decide.
LEMMA GoToKeepsTests ==
  ASSUME HeldTypeOK, stack # << >>, NEW place \in Places, GoTo(place),
         NEW t, ~(TopOfStack.at = "test" /\ TopOfStack.task = t),
         [task |-> t, at |-> "test"] \in {stack[i] : i \in DOMAIN stack}
  PROVE  [task |-> t, at |-> "test"] \in {stack'[i] : i \in DOMAIN stack'}
<1>1. PICK i \in DOMAIN stack : stack[i] = [task |-> t, at |-> "test"]
  OBVIOUS
<1>2. i # Len(stack)
  BY <1>1 DEF TopOfStack
<1>3. i \in 1..Len(stack)
  BY LenProperties DEF HeldTypeOK
<1>4. stack'[i] = stack[i] /\ i \in DOMAIN stack'
  BY <1>2, <1>3, GoToEffect, LenProperties
<1> QED
  BY <1>1, <1>4

\* A step to restart keeps the parts of the invariant that are about places.
LEMMA GoToRestart ==
  ASSUME HeldInv, stack # << >>, GoTo("restart"), switching' = switching
  PROVE  HandlersHaveTasks' /\ SwitchAtBottom' /\ stack' \in Seq(Activations)
<1>1. "restart" \in Places
  BY DEF Places
<1>2. /\ stack' \in Seq(Activations)
      /\ Len(stack') = Len(stack)
      /\ Len(stack) \in Nat \ {0}
      /\ \A i \in 1..Len(stack) :
           stack'[i] = IF i = Len(stack)
                       THEN [stack[i] EXCEPT !.at = "restart"] ELSE stack[i]
  BY <1>1, GoToEffect DEF HeldInv
<1>3. \A i \in 1..Len(stack) : stack[i] \in Activations
  BY ElementOfSeq DEF HeldInv, HeldTypeOK
<1>4. \A i \in 1..Len(stack') :
        \/ stack'[i] = stack[i]
        \/ stack'[i].at = "restart"
  BY <1>2, <1>3 DEF Activations
<1> QED
  BY <1>2, <1>4 DEF HeldInv, HandlersHaveTasks, SwitchAtBottom, InSwitch

\* The end of sys_call() and of a delivery
LEMMA SwitchedIInv ==
  ASSUME HeldInv, At("sys_call") \/ At("deliver") \/ At("flush"), GoTo("restart"),
         UNCHANGED <<held, p_int_held, switching, owed>>
  PROVE  HeldInv'
<1>1. stack # << >> /\ TopOfStack.at # "test"
  BY DEF At
<1>2. HandlersHaveTasks' /\ SwitchAtBottom' /\ stack' \in Seq(Activations)
  BY <1>1, GoToRestart
<1>3. HeldTypeOK' /\ HeldOnce'
  BY <1>2 DEF HeldInv, HeldTypeOK, HeldOnce
<1>4. NoneLost'
  BY <1>1, GoToKeepsTests DEF HeldInv, NoneLost, Places
<1> QED
  BY <1>2, <1>3, <1>4 DEF HeldInv

LEMMA HoldIInv ==
  ASSUME HeldInv, At("test"), Hold(TopOfStack.task), GoTo("restart"),
         UNCHANGED <<switching, owed>>
  PROVE  HeldInv'
<1> DEFINE t == TopOfStack.task
<1>1. stack # << >> /\ t \in IrqTasks
  BY LenProperties, EmptySeq DEF At, TopOfStack, HeldInv, HeldTypeOK, HandlersHaveTasks
<1>2. HandlersHaveTasks' /\ SwitchAtBottom' /\ stack' \in Seq(Activations)
  BY <1>1, GoToRestart
<1>3. /\ held' \in Seq(IrqTasks)
      /\ p_int_held' \in [IrqTasks -> BOOLEAN]
      /\ HeldOnce'
      /\ p_int_held'[t]
      /\ \A u \in IrqTasks : p_int_held[u] => p_int_held'[u]
  BY <1>1, HoldEffect DEF HeldInv
<1>4. HeldTypeOK'
  BY <1>2, <1>3 DEF HeldInv, HeldTypeOK
<1>5. ASSUME NEW u \in owed
      PROVE  \/ \E i \in DOMAIN held' : held'[i] = u
             \/ [task |-> u, at |-> "test"] \in {stack'[i] : i \in DOMAIN stack'}
  <2>1. u \in IrqTasks
    BY DEF HeldInv, HeldTypeOK
  <2>2. CASE p_int_held[u] \/ u = t
    BY <2>1, <2>2, <1>3 DEF HeldOnce
  <2>3. CASE ~p_int_held[u] /\ u # t
    <3>1. [task |-> u, at |-> "test"] \in {stack[i] : i \in DOMAIN stack}
      BY <2>1, <2>3 DEF HeldInv, NoneLost, HeldOnce
    <3> QED
      BY <3>1, <2>3, <1>1, GoToKeepsTests DEF HeldInv, Places
  <2> QED
    BY <2>2, <2>3
<1>6. NoneLost'
  BY <1>5 DEF NoneLost
<1> QED
  BY <1>2, <1>3, <1>4, <1>6 DEF HeldInv

LEMMA DeliverIInv ==
  ASSUME HeldInv, At("test"), ~Competing, GoTo("deliver"),
         owed' = owed \ {TopOfStack.task}, UNCHANGED <<held, p_int_held, switching>>
  PROVE  HeldInv'
<1>1. stack # << >> /\ "deliver" \in Places
  BY DEF At, Places
<1>2. /\ stack' \in Seq(Activations)
      /\ Len(stack') = Len(stack)
      /\ Len(stack) \in Nat \ {0}
      /\ \A i \in 1..Len(stack) :
           stack'[i] = IF i = Len(stack)
                       THEN [stack[i] EXCEPT !.at = "deliver"] ELSE stack[i]
  BY <1>1, GoToEffect DEF HeldInv
<1>3. Len(stack) = 1 /\ ~switching
  BY <1>2 DEF Competing, k_reenter
<1>4. stack[1] \in Activations
  <2>1. 1 \in 1..Len(stack) /\ stack \in Seq(Activations)
    BY <1>3 DEF HeldInv, HeldTypeOK
  <2> QED
    BY <2>1, ElementOfSeq
<1>5. \A i \in 1..Len(stack') : i = 1 /\ stack'[i].at = "deliver"
  BY <1>2, <1>3, <1>4 DEF Activations
<1>6. HandlersHaveTasks' /\ SwitchAtBottom'
  BY <1>5, <1>3 DEF HandlersHaveTasks, SwitchAtBottom
<1>7. HeldTypeOK' /\ HeldOnce'
  BY <1>2 DEF HeldInv, HeldTypeOK, HeldOnce
<1>8. NoneLost'
  BY <1>1, GoToKeepsTests DEF HeldInv, NoneLost
<1> QED
  BY <1>6, <1>7, <1>8 DEF HeldInv

LEMMA UnholdIInv == ASSUME HeldInv, unhold PROVE HeldInv'
<1> DEFINE a == [task |-> Head(held), at |-> "flush"]
<1>1. /\ Head(held) \in IrqTasks
      /\ held' \in Seq(IrqTasks)
      /\ p_int_held' \in [IrqTasks -> BOOLEAN]
      /\ HeldOnce'
      /\ \A u \in IrqTasks \ {Head(held)} : p_int_held'[u] = p_int_held[u]
  BY TakeHeldEffect DEF unhold, HeldInv
<1>2. Len(stack) = 1 /\ ~switching /\ stack[1].at = "restart"
  <2>1. Len(stack) \in Nat
    BY LenProperties DEF HeldInv, HeldTypeOK
  <2>2. Len(stack) - 1 = 0 /\ ~switching /\ TopOfStack.at = "restart"
    BY DEF unhold, At, k_reenter
  <2>3. Len(stack) = 1
    BY <2>1, <2>2
  <2> QED
    BY <2>2, <2>3 DEF TopOfStack
<1>3. a \in Activations
  BY <1>1 DEF Activations, Places
<1>4. stack' = [stack EXCEPT ![1] = a]
  BY <1>2 DEF unhold
<1>5. /\ stack' \in Seq(Activations) /\ Len(stack') = 1 /\ stack'[1] = a
  BY <1>2, <1>3, <1>4, ExceptSeq DEF HeldInv, HeldTypeOK
<1>6. switching' = switching /\ owed' = owed \ {Head(held)}
  BY DEF unhold
<1>7. HeldTypeOK'
  BY <1>1, <1>5, <1>6 DEF HeldInv, HeldTypeOK
<1>8. HandlersHaveTasks' /\ SwitchAtBottom'
  BY <1>2, <1>5, <1>6 DEF HandlersHaveTasks, SwitchAtBottom
<1>9. NoneLost'
  <2>1. ASSUME NEW u \in owed, u # Head(held)
        PROVE  \E i \in DOMAIN held' : held'[i] = u
    <3>1. DOMAIN stack = {1}
      BY <1>2, LenProperties DEF HeldInv, HeldTypeOK
    <3>2. [task |-> u, at |-> "test"] \notin {stack[i] : i \in DOMAIN stack}
      BY <3>1, <1>2
    <3>3. u \in IrqTasks
      BY DEF HeldInv, HeldTypeOK
    <3>4. p_int_held[u]
      BY <3>2, <3>3 DEF HeldInv, NoneLost, HeldOnce
    <3> QED
      BY <3>3, <3>4, <2>1, <1>1 DEF HeldOnce
  <2> QED
    BY <2>1, <1>6 DEF NoneLost
<1> QED
  BY <1>1, <1>7, <1>8, <1>9 DEF HeldInv

LEMMA RestartIInv == ASSUME HeldInv, restart PROVE HeldInv'
<1> DEFINE n == Len(stack)
<1>1. stack # << >> /\ TopOfStack.at = "restart" /\ Return
  BY DEF restart, At
<1>2. /\ stack' \in Seq(Activations) /\ Len(stack') = n - 1
      /\ n \in Nat \ {0}
      /\ \A i \in 1..(n - 1) : stack'[i] = stack[i]
  BY <1>1, ReturnEffect DEF HeldInv
<1>3. UNCHANGED <<held, p_int_held, switching, owed>>
  BY DEF restart
<1>4. HeldTypeOK' /\ HeldOnce'
  BY <1>2, <1>3 DEF HeldInv, HeldTypeOK, HeldOnce
<1>5. HandlersHaveTasks' /\ SwitchAtBottom'
  BY <1>2, <1>3 DEF HeldInv, HandlersHaveTasks, SwitchAtBottom, InSwitch
<1>6. ASSUME NEW t,
             [task |-> t, at |-> "test"] \in {stack[i] : i \in DOMAIN stack}
      PROVE  [task |-> t, at |-> "test"] \in {stack'[i] : i \in DOMAIN stack'}
  <2>1. PICK i \in DOMAIN stack : stack[i] = [task |-> t, at |-> "test"]
    BY <1>6
  <2>2. i \in 1..n /\ i # n
    BY <2>1, <1>1, LenProperties DEF HeldInv, HeldTypeOK, TopOfStack
  <2>3. i \in 1..(n - 1) /\ DOMAIN stack' = 1..(n - 1)
    BY <2>2, <1>2, LenProperties
  <2> QED
    BY <2>1, <2>3, <1>2
<1>7. NoneLost'
  BY <1>3, <1>6 DEF HeldInv, NoneLost
<1> QED
  BY <1>4, <1>5, <1>7 DEF HeldInv
-----------------------------------------------------------------------------
\* The invariant is inductive: it holds whenever control is at any point of
\* interrupt(), unhold(), sys_call() and the lock_ functions.
THEOREM Inductive == HeldSpec => []HeldInv
<1>1. HeldInit => HeldInv
  BY InitIInv
<1>2. HeldInv /\ [HeldNext]_heldVars => HeldInv'
  <2> SUFFICES ASSUME HeldInv, [HeldNext]_heldVars PROVE HeldInv'
    OBVIOUS
  <2>1. CASE CallKernel
    BY <2>1, CallKernelIInv
  <2>2. CASE Lock \/ Unlock
    BY <2>2, LockIInv
  <2>3. CASE \E t \in IrqTasks : Irq(t)
    BY <2>3, IrqIInv
  <2>4. CASE in_sys_call
    BY <2>4, SwitchedIInv DEF in_sys_call
  <2>5. CASE in_interrupt
    BY <2>5, HoldIInv, DeliverIInv, SwitchedIInv DEF in_interrupt
  <2>6. CASE unhold
    BY <2>6, UnholdIInv
  <2>7. CASE restart
    BY <2>7, RestartIInv
  <2>8. CASE UNCHANGED heldVars
    BY <2>8 DEF heldVars, HeldInv, HeldTypeOK, HandlersHaveTasks, SwitchAtBottom,
                InSwitch, HeldOnce, NoneLost
  <2> QED
    BY <2>1, <2>2, <2>3, <2>4, <2>5, <2>6, <2>7, <2>8 DEF HeldNext, Step
<1> QED
  BY <1>1, <1>2, PTL DEF HeldSpec

\* The variables keep their types in every run of interrupt() and unhold().
THEOREM HeldTypeCorrect == HeldSpec => []HeldTypeOK
BY Inductive, PTL DEF HeldInv

\* At most one activation, or task in a lock_ function, is inside the code
\* that changes the ready queues, for any number of interrupt sources.
THEOREM OneSwitcherAlways == HeldSpec => []OneSwitcher
<1>1. HeldInv => OneSwitcher
  BY LenProperties DEF HeldInv, HeldTypeOK, SwitchAtBottom, OneSwitcher
<1> QED
  BY <1>1, Inductive, PTL

\* interrupt() never links a task to the held queue twice, and p_int_held
\* tells exactly which tasks are on it.
THEOREM HeldOnceAlways == HeldSpec => []HeldOnce
BY Inductive, PTL DEF HeldInv

\* Every interrupt nobody acted on is on the held queue or about to be put
\* there: the tests of interrupt() and the loop of unhold() lose none.
THEOREM NoneLostAlways == HeldSpec => []NoneLost
BY Inductive, PTL DEF HeldInv
=============================================================================
