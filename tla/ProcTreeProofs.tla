---------------------------- MODULE ProcTreeProofs ----------------------------
(***************************************************************************)
(* Theorems about the queries of exercise 1, for a process table of any    *)
(* size and any history of forks, exits and waits: the answer is a process *)
(* with the most children or descendants, with their number; the search    *)
(* finds everybody below INIT; its stack has room in stack[NR_PROCS].      *)
(***************************************************************************)
EXTENDS ProcTree, FiniteSetTheorems, WellFoundedInduction, TLAPS

(* The operators of ProcTree on a table T *)

\* A slot of the table
Slot == [in_use : BOOLEAN, hanging : BOOLEAN, mp_parent : Procs, mp_pid : Nat]

\* The slots in use, and the children of p among them
Used(T) == {i \in Procs : T[i].in_use}
Kids(T, p) == {i \in Used(T) : T[i].mp_parent = p}

\* What contains p and the children of its members
Closed(T, p, S) == p \in S /\ \A i \in Used(T) : T[i].mp_parent \in S => i \in S

\* Below, as in the property
BelowIn(T, p) == {i \in Procs : \A S \in SUBSET Procs : Closed(T, p, S) => i \in S}

\* Who is looked at, and what is counted of everybody
Looked(T, pid) ==
  {p \in Procs : T[p].in_use /\ T[p].mp_pid # 0 /\ T[p].mp_pid # pid}

Counts(T, kind) ==
  [p \in Procs |-> IF kind = "children" THEN Cardinality(Kids(T, p) \ {p})
                   ELSE Cardinality(BelowIn(T, p)) - 1]

PidOf(T) == [p \in Procs |-> T[p].mp_pid]

\* These are the operators of ProcTree, on the table MM has.
LEMMA Unfolded ==
  /\ InUse = Used(mproc)
  /\ \A p : /\ Children(p) = Kids(mproc, p)
            /\ Below(p) = BelowIn(mproc, p)
BY DEF InUse, Used, Children, Kids, Below, BelowIn, Closed
-----------------------------------------------------------------------------
(* Everybody below *)

\* p is below p, and so are the children of everybody below p.
LEMMA BelowClosed ==
  ASSUME NEW T, NEW p \in Procs
  PROVE  Closed(T, p, BelowIn(T, p)) /\ BelowIn(T, p) \in SUBSET Procs
<1>1. p \in BelowIn(T, p)
  BY DEF BelowIn, Closed
<1>2. ASSUME NEW i \in Used(T), T[i].mp_parent \in BelowIn(T, p)
      PROVE  i \in BelowIn(T, p)
  <2>1. i \in Procs
    BY DEF Used
  <2>2. \A S \in SUBSET Procs : Closed(T, p, S) => i \in S
    BY <1>2 DEF BelowIn, Closed
  <2> QED
    BY <2>1, <2>2 DEF BelowIn
<1> QED
  BY <1>1, <1>2 DEF Closed, BelowIn

\* Nobody else is.
LEMMA BelowLeast ==
  ASSUME NEW T, NEW p, NEW S \in SUBSET Procs, Closed(T, p, S)
  PROVE  BelowIn(T, p) \subseteq S
BY DEF BelowIn

\* Sets of slots are finite, and what is counted are numbers.
LEMMA SlotsFinite ==
  /\ IsFiniteSet(Procs) /\ Cardinality(Procs) = NR_PROCS
  /\ \A S \in SUBSET Procs : IsFiniteSet(S) /\ Cardinality(S) \in Nat
<1>1. IsFiniteSet(Procs) /\ Cardinality(Procs) = NR_PROCS
  BY TreeAssumption, FS_Interval DEF Procs
<1> QED
  BY <1>1, FS_Subset, FS_CardinalityType

\* Everybody is below itself, so that the count without it is not negative.
LEMMA CountsAreNumbers ==
  ASSUME NEW T, NEW kind
  PROVE  Counts(T, kind) \in [Procs -> Nat]
<1> SUFFICES ASSUME NEW p \in Procs
             PROVE  /\ Cardinality(Kids(T, p) \ {p}) \in Nat
                    /\ Cardinality(BelowIn(T, p)) - 1 \in Nat
  BY DEF Counts
<1>1. Kids(T, p) \ {p} \in SUBSET Procs
  BY DEF Kids, Used
<1>2. BelowIn(T, p) \in SUBSET Procs /\ p \in BelowIn(T, p)
  BY BelowClosed DEF Closed
<1>3. Cardinality(BelowIn(T, p)) # 0
  BY <1>2, SlotsFinite, FS_EmptySet
<1> QED
  BY <1>1, <1>2, <1>3, SlotsFinite

\* The count of one process
LEMMA CountsOf ==
  ASSUME NEW T, NEW p \in Procs
  PROVE  /\ Counts(T, "children")[p] = Cardinality(Kids(T, p) \ {p})
         /\ Counts(T, "descendants")[p] = Cardinality(BelowIn(T, p)) - 1
BY DEF Counts
-----------------------------------------------------------------------------
(* The best so far *)

\* Of those in E below n, somebody with the most is found, the first of them.
BestOf(E, C, P, n, found, most) ==
  IF \E p \in E : p < n
  THEN \E p \in E :
         /\ p < n /\ found = P[p] /\ most = C[p]
         /\ \A o \in E : o < n => C[o] < C[p] \/ (C[o] = C[p] /\ p <= o)
  ELSE found = -1 /\ most = -1

\* The loop of most_children and most_descendants passes over a process.
LEMMA BestSkips ==
  ASSUME NEW E \in SUBSET Procs, NEW C, NEW P, NEW n \in Procs, n \notin E,
         NEW found, NEW most, BestOf(E, C, P, n, found, most)
  PROVE  BestOf(E, C, P, n + 1, found, most)
<1>1. \A p \in E : p < n <=> p < n + 1
  BY TreeAssumption DEF Procs
<1> QED
  BY <1>1 DEF BestOf

\* It takes the count of a process, if that is more than the most so far.
LEMMA BestCounts ==
  ASSUME NEW E \in SUBSET Procs, NEW C \in [Procs -> Nat], NEW P,
         NEW n \in E, NEW found, NEW most, BestOf(E, C, P, n, found, most),
         NEW f, f = IF C[n] > most THEN P[n] ELSE found,
         NEW m, m = IF C[n] > most THEN C[n] ELSE most
  PROVE  BestOf(E, C, P, n + 1, f, m)
<1>1. /\ n \in Int /\ \A p \in E : p \in Int /\ (p < n + 1 <=> p < n \/ p = n)
      /\ \A p \in E : C[p] \in Nat
  BY TreeAssumption DEF Procs
<1>2. CASE \E p \in E : p < n
  <2>1. PICK p \in E :
          /\ p < n /\ found = P[p] /\ most = C[p]
          /\ \A o \in E : o < n => C[o] < C[p] \/ (C[o] = C[p] /\ p <= o)
    BY <1>2 DEF BestOf
  <2>2. CASE C[n] > most
    <3>1. \A o \in E : o < n + 1 => C[o] < C[n] \/ (C[o] = C[n] /\ n <= o)
      BY <1>1, <2>1, <2>2
    <3> QED
      BY <1>1, <2>2, <3>1 DEF BestOf
  <2>3. CASE ~(C[n] > most)
    <3>1. \A o \in E : o < n + 1 => C[o] < C[p] \/ (C[o] = C[p] /\ p <= o)
      BY <1>1, <2>1, <2>3
    <3> QED
      BY <1>1, <2>1, <2>3, <3>1 DEF BestOf
  <2> QED
    BY <2>2, <2>3
<1>3. CASE ~\E p \in E : p < n
  <2>1. most = -1 /\ C[n] > most
    BY <1>1, <1>3 DEF BestOf
  <2>2. \A o \in E : o < n + 1 => o = n
    BY <1>1, <1>3
  <2>3. f = P[n] /\ m = C[n]
    BY <2>1
  <2>4. \A o \in E : o < n + 1 => C[o] < C[n] \/ (C[o] = C[n] /\ n <= o)
    BY <1>1, <2>2
  <2> QED
    BY <1>1, <2>3, <2>4 DEF BestOf
<1> QED
  BY <1>2, <1>3
-----------------------------------------------------------------------------
(* The tree *)

Live(T) == {i \in Used(T) : i >= INIT /\ ~T[i].hanging}

\* MM, FS and INIT stay as they are made; everybody else has a living parent;
\* and no set of processes consists of children of its members: nobody is its
\* own ancestor.
Tree(T) ==
  /\ T \in [Procs -> Slot]
  /\ \A i \in {MM, FS, INIT} :
       /\ T[i].in_use /\ ~T[i].hanging /\ T[i].mp_parent = MM
       /\ T[i].mp_pid = IF i = INIT THEN INIT_PID ELSE 0
  /\ \A i \in Used(T) : i > INIT => T[i].mp_parent \in Live(T)
  /\ \A S \in SUBSET {i \in Used(T) : i > INIT} :
       S # {} => \E i \in S : T[i].mp_parent \notin S

\* The first three slots come before all others.
LEMMA SlotFacts ==
  /\ MM \in Procs /\ FS \in Procs /\ INIT \in Procs
  /\ Procs \subseteq Nat
  /\ \A i \in Procs : i = MM \/ i = FS \/ i = INIT \/ i > INIT
  /\ MM < INIT /\ FS < INIT /\ MM # FS
BY TreeAssumption DEF Procs, MM, FS, INIT

\* The least of a set of numbers is one of them.
LEMMA LeastNumber ==
  ASSUME NEW S \in SUBSET Nat, S # {}
  PROVE  Least(S) \in S
<1>1. PICK x \in S : \A y \in S : ~(<<y, x>> \in OpToRel(<, Nat))
  BY WFMin, NatLessThanWellFounded
<1>2. ASSUME NEW y \in S PROVE x <= y
  <2>1. x \in Nat /\ y \in Nat
    OBVIOUS
  <2>2. y < x => <<y, x>> \in OpToRel(<, Nat)
    BY <2>1 DEF OpToRel
  <2>3. ~(y < x)
    BY <1>1, <2>2
  <2> QED
    BY <2>1, <2>3
<1> QED
  BY <1>2 DEF Least

\* INIT has all processes below it but MM and FS.
LEMMA BelowInit ==
  ASSUME NEW T, Tree(T)
  PROVE  BelowIn(T, INIT) = Used(T) \ {MM, FS}
<1>1. PICK B, R : /\ B = BelowIn(T, INIT)
                  /\ R = {i \in Used(T) : i > INIT} \ B
  OBVIOUS
<1>2. Closed(T, INIT, B) /\ B \in SUBSET Procs
  BY <1>1, BelowClosed, SlotFacts
<1>3. ASSUME R # {} PROVE FALSE
  <2>1. R \in SUBSET {i \in Used(T) : i > INIT}
    BY <1>1
  <2>2. PICK i \in R : T[i].mp_parent \notin R
    BY <1>3, <2>1 DEF Tree
  <2>3. i \in Used(T) /\ i > INIT /\ i \notin B
    BY <1>1
  <2>4. T[i].mp_parent \in Live(T)
    BY <2>3 DEF Tree
  <2>5. T[i].mp_parent \in Used(T) /\ (T[i].mp_parent = INIT \/ T[i].mp_parent > INIT)
    <3>1. PICK q : q = T[i].mp_parent
      OBVIOUS
    <3>2. q \in Used(T) /\ q >= INIT
      BY <2>4, <3>1 DEF Live
    <3>3. q \in Nat /\ INIT \in Nat
      BY <3>2, SlotFacts DEF Used
    <3> QED
      BY <3>1, <3>2, <3>3
  <2>6. T[i].mp_parent \notin B
    BY <1>2, <2>3 DEF Closed
  <2>7. T[i].mp_parent # INIT
    BY <1>2, <2>6 DEF Closed
  <2> QED
    BY <1>1, <2>2, <2>5, <2>6, <2>7
<1>4. PICK S : S = Used(T) \ {MM, FS}
  OBVIOUS
<1>5. Closed(T, INIT, S) /\ S \in SUBSET Procs
  <2>1. INIT \in S /\ S \in SUBSET Procs
    BY <1>4, SlotFacts DEF Tree, Used
  <2>2. ASSUME NEW i \in Used(T), T[i].mp_parent \in S PROVE i \in S
    <3>1. T[i].mp_parent # MM
      BY <1>4, <2>2
    <3>2. i # MM /\ i # FS
      BY <3>1 DEF Tree
    <3> QED
      BY <1>4, <3>2
  <2> QED
    BY <2>1, <2>2 DEF Closed
<1>6. B \subseteq S
  BY <1>1, <1>5, BelowLeast
<1>7. S \subseteq B
  <2> SUFFICES ASSUME NEW i \in S PROVE i \in B
    OBVIOUS
  <2>1. i \in Used(T) /\ (i = INIT \/ i > INIT)
    BY <1>4, SlotFacts DEF Used
  <2>2. INIT \in B
    BY <1>2 DEF Closed
  <2> QED
    BY <1>1, <1>3, <2>1, <2>2
<1> QED
  BY <1>1, <1>4, <1>6, <1>7

\* Nobody else has INIT below it, or MM, or FS.
LEMMA BelowOthers ==
  ASSUME NEW T, Tree(T), NEW p \in Used(T), p > INIT
  PROVE  BelowIn(T, p) \subseteq (Used(T) \ {MM, FS}) \ {INIT}
<1>1. PICK S : S = (Used(T) \ {MM, FS}) \ {INIT}
  OBVIOUS
<1>2. p \in S /\ S \in SUBSET Procs
  BY <1>1, SlotFacts DEF Used
<1>3. ASSUME NEW i \in Used(T), T[i].mp_parent \in S PROVE i \in S
  <2>1. T[i].mp_parent # MM
    BY <1>1, <1>3
  <2>2. i # MM /\ i # FS /\ i # INIT
    BY <2>1 DEF Tree
  <2> QED
    BY <1>1, <2>2
<1>4. Closed(T, p, S)
  BY <1>2, <1>3 DEF Closed
<1> QED
  BY <1>1, <1>2, <1>4, BelowLeast
-----------------------------------------------------------------------------
(* The tree stays one *)

\* fork adds a process without children.
LEMMA ForkKeeps ==
  ASSUME NEW T, Tree(T), NEW n \in Procs \ Used(T), NEW p \in Live(T),
         NEW pid \in Nat,
         NEW U, U = [T EXCEPT ![n] = [in_use |-> TRUE, hanging |-> FALSE,
                                      mp_parent |-> p, mp_pid |-> pid]]
  PROVE  Tree(U)
<1>1. /\ T \in [Procs -> Slot] /\ U \in [Procs -> Slot]
      /\ U[n] = [in_use |-> TRUE, hanging |-> FALSE, mp_parent |-> p, mp_pid |-> pid]
      /\ \A i \in Procs \ {n} : U[i] = T[i]
  BY DEF Tree, Slot, Live, Used
<1>2. \A i \in {MM, FS, INIT} : i \in Used(T)
  BY SlotFacts DEF Tree, Used
<1>3. n > INIT
  BY <1>2, SlotFacts
<1>4. Used(U) = Used(T) \cup {n} /\ Live(U) = Live(T) \cup {n}
  BY <1>1, <1>3, SlotFacts DEF Used, Live
<1>5. \A i \in {MM, FS, INIT} :
        /\ U[i].in_use /\ ~U[i].hanging /\ U[i].mp_parent = MM
        /\ U[i].mp_pid = IF i = INIT THEN INIT_PID ELSE 0
  <2>1. \A i \in {MM, FS, INIT} : U[i] = T[i]
    BY <1>1, <1>2, SlotFacts
  <2> QED
    BY <2>1 DEF Tree
<1>6. \A i \in Used(U) : i > INIT => U[i].mp_parent \in Live(U)
  <2>1. U[n].mp_parent \in Live(U)
    BY <1>1, <1>4
  <2>2. \A i \in Used(T) : U[i] = T[i]
    BY <1>1 DEF Used
  <2>3. \A i \in Used(T) : i > INIT => T[i].mp_parent \in Live(U)
    BY <1>4 DEF Tree
  <2> QED
    BY <1>4, <2>1, <2>2, <2>3
<1>7. ASSUME NEW S \in SUBSET {i \in Used(U) : i > INIT}, S # {}
      PROVE  \E i \in S : U[i].mp_parent \notin S
  <2>1. n \notin Live(T) /\ p # n
    BY DEF Live
  <2>2. CASE S \ {n} = {}
    BY <1>1, <1>7, <2>1, <2>2
  <2>3. CASE S \ {n} # {}
    <3>1. S \ {n} \in SUBSET {i \in Used(T) : i > INIT}
      BY <1>4
    <3>2. PICK i \in S \ {n} : T[i].mp_parent \notin S \ {n}
      BY <2>3, <3>1 DEF Tree
    <3>3. T[i].mp_parent \in Live(T) /\ U[i] = T[i]
      BY <1>1, <3>1 DEF Tree, Used
    <3>4. T[i].mp_parent # n
      BY <2>1, <3>3
    <3> QED
      BY <3>2, <3>3, <3>4
  <2> QED
    BY <2>2, <2>3
<1> QED
  BY <1>1, <1>5, <1>6, <1>7 DEF Tree

\* The table after the exit of p
Exited(T, p) ==
  [i \in Procs |->
     [T[i] EXCEPT !.hanging = @ \/ i = p,
                  !.mp_parent = IF T[i].in_use /\ @ = p THEN INIT ELSE @]]

\* What becomes of each slot
LEMMA ExitedSlots ==
  ASSUME NEW T \in [Procs -> Slot], NEW p \in Procs
  PROVE  /\ Exited(T, p) \in [Procs -> Slot]
         /\ \A i \in Procs :
              /\ Exited(T, p)[i].in_use = T[i].in_use
              /\ Exited(T, p)[i].mp_pid = T[i].mp_pid
              /\ Exited(T, p)[i].hanging = (T[i].hanging \/ i = p)
              /\ Exited(T, p)[i].mp_parent =
                   IF T[i].in_use /\ T[i].mp_parent = p THEN INIT ELSE T[i].mp_parent
<1>2. ASSUME NEW i \in Procs
      PROVE  Exited(T, p)[i] =
               [T[i] EXCEPT !.hanging = (T[i].hanging \/ i = p),
                            !.mp_parent = IF T[i].in_use /\ T[i].mp_parent = p
                                          THEN INIT ELSE T[i].mp_parent]
  BY DEF Exited
<1>3. \A i \in Procs :
              /\ Exited(T, p)[i] \in Slot
              /\ Exited(T, p)[i].in_use = T[i].in_use
              /\ Exited(T, p)[i].mp_pid = T[i].mp_pid
              /\ Exited(T, p)[i].hanging = (T[i].hanging \/ i = p)
              /\ Exited(T, p)[i].mp_parent =
                   IF T[i].in_use /\ T[i].mp_parent = p THEN INIT ELSE T[i].mp_parent
  <2> TAKE i \in Procs
  <2>1. PICK t, b, q : /\ t = T[i] /\ b = (t.hanging \/ i = p)
                       /\ q = IF t.in_use /\ t.mp_parent = p THEN INIT
                              ELSE t.mp_parent
    OBVIOUS
  <2>2. Exited(T, p)[i] = [t EXCEPT !.hanging = b, !.mp_parent = q]
    BY <1>2, <2>1
  <2>3. /\ [t EXCEPT !.hanging = b, !.mp_parent = q] \in Slot
        /\ [t EXCEPT !.hanging = b, !.mp_parent = q].in_use = t.in_use
        /\ [t EXCEPT !.hanging = b, !.mp_parent = q].mp_pid = t.mp_pid
        /\ [t EXCEPT !.hanging = b, !.mp_parent = q].hanging = b
        /\ [t EXCEPT !.hanging = b, !.mp_parent = q].mp_parent = q
    <3>1. t \in Slot /\ b \in BOOLEAN
      BY <2>1
    <3>2. q \in Procs
      BY <2>1, <3>1, SlotFacts DEF Slot
    <3> QED
      BY <3>1, <3>2 DEF Slot
  <2> QED
    BY <2>1, <2>2, <2>3
<1>4. Exited(T, p) = [i \in Procs |-> Exited(T, p)[i]]
  BY DEF Exited
<1> QED
  BY <1>3, <1>4

\* INIT inherits the children of who exits: the table stays a tree.
LEMMA ExitKeeps ==
  ASSUME NEW T, Tree(T), NEW p \in Live(T), p # INIT
  PROVE  Tree(Exited(T, p))
<1>1. T \in [Procs -> Slot] /\ p > INIT /\ p \in Procs
  <2>1. p \in Procs /\ p >= INIT
    BY DEF Live, Used
  <2> QED
    BY <2>1, SlotFacts DEF Tree
<1>0. PICK U : U = Exited(T, p)
  OBVIOUS
<1>2. /\ U \in [Procs -> Slot]
      /\ \A i \in Procs :
           /\ U[i].in_use = T[i].in_use /\ U[i].mp_pid = T[i].mp_pid
           /\ U[i].hanging = (T[i].hanging \/ i = p)
           /\ U[i].mp_parent = IF T[i].in_use /\ T[i].mp_parent = p
                               THEN INIT ELSE T[i].mp_parent
  BY <1>0, <1>1, ExitedSlots
<1>3. Used(U) = Used(T) /\ Live(U) = Live(T) \ {p}
  BY <1>2 DEF Used, Live
<1>4. \A i \in {MM, FS, INIT} :
        /\ U[i].in_use /\ ~U[i].hanging /\ U[i].mp_parent = MM
        /\ U[i].mp_pid = IF i = INIT THEN INIT_PID ELSE 0
  <2>1. \A i \in {MM, FS, INIT} :
          /\ T[i].in_use /\ ~T[i].hanging /\ T[i].mp_parent = MM
          /\ T[i].mp_pid = IF i = INIT THEN INIT_PID ELSE 0
    BY DEF Tree
  <2>2. \A i \in {MM, FS, INIT} : i \in Procs /\ i # p
    BY <1>1, SlotFacts
  <2>3. p # MM
    BY <1>1, SlotFacts
  <2> SUFFICES ASSUME NEW i \in {MM, FS, INIT}
               PROVE  /\ U[i].in_use /\ ~U[i].hanging /\ U[i].mp_parent = MM
                      /\ U[i].mp_pid = IF i = INIT THEN INIT_PID ELSE 0
    OBVIOUS
  <2>4. U[i].in_use /\ ~U[i].hanging
    BY <1>2, <2>1, <2>2
  <2>5. U[i].mp_parent = MM /\ U[i].mp_pid = T[i].mp_pid
    BY <1>2, <2>1, <2>2, <2>3
  <2> QED
    BY <2>1, <2>4, <2>5
<1>5. \A i \in Used(U) : i > INIT => U[i].mp_parent \in Live(U)
  <2>1. INIT \in Live(U)
    BY <1>1, <1>3, SlotFacts DEF Tree, Live, Used
  <2> SUFFICES ASSUME NEW i \in Used(U), i > INIT
               PROVE  U[i].mp_parent \in Live(U)
    OBVIOUS
  <2>2. T[i].in_use /\ i \in Procs /\ T[i].mp_parent \in Live(T)
    BY <1>3 DEF Tree, Used
  <2>3. CASE T[i].mp_parent = p
    BY <1>2, <2>1, <2>2, <2>3
  <2>4. CASE T[i].mp_parent # p
    BY <1>2, <1>3, <2>2, <2>4
  <2> QED
    BY <2>3, <2>4
<1>6. ASSUME NEW S \in SUBSET {i \in Used(U) : i > INIT}, S # {}
      PROVE  \E i \in S : U[i].mp_parent \notin S
  <2>1. PICK i \in S : T[i].mp_parent \notin S
    BY <1>3, <1>6 DEF Tree
  <2>2. i \in Procs /\ INIT \notin S
    BY <1>6, SlotFacts DEF Used
  <2>3. CASE U[i].mp_parent = INIT
    BY <2>2, <2>3
  <2>4. CASE U[i].mp_parent = T[i].mp_parent
    BY <2>1, <2>4
  <2> QED
    BY <1>2, <2>2, <2>3, <2>4
<1>7. Tree(U)
  BY <1>2, <1>4, <1>5, <1>6 DEF Tree
<1> QED
  BY <1>0, <1>7

\* wait frees the slot of a zombie, which has no children.
LEMMA WaitKeeps ==
  ASSUME NEW T, Tree(T), NEW n \in Procs, T[n].hanging,
         NEW U, U = [T EXCEPT ![n].in_use = FALSE, ![n].hanging = FALSE]
  PROVE  Tree(U)
<1>1. /\ T \in [Procs -> Slot] /\ U \in [Procs -> Slot]
      /\ ~U[n].in_use
      /\ \A i \in Procs \ {n} : U[i] = T[i]
  BY DEF Tree, Slot
<1>2. n # MM /\ n # FS /\ n # INIT /\ n \notin Live(T)
  BY DEF Tree, Live
<1>3. Used(U) = Used(T) \ {n} /\ Live(T) \subseteq Live(U)
  BY <1>1, <1>2 DEF Used, Live
<1>4. \A i \in {MM, FS, INIT} :
        /\ U[i].in_use /\ ~U[i].hanging /\ U[i].mp_parent = MM
        /\ U[i].mp_pid = IF i = INIT THEN INIT_PID ELSE 0
  <2>1. \A i \in {MM, FS, INIT} : U[i] = T[i]
    BY <1>1, <1>2, SlotFacts
  <2> QED
    BY <2>1 DEF Tree
<1>5. \A i \in Used(U) : U[i] = T[i]
  BY <1>1, <1>3 DEF Used
<1>6. \A i \in Used(U) : i > INIT => U[i].mp_parent \in Live(U)
  BY <1>3, <1>5 DEF Tree
<1>7. ASSUME NEW S \in SUBSET {i \in Used(U) : i > INIT}, S # {}
      PROVE  \E i \in S : U[i].mp_parent \notin S
  <2>1. S \in SUBSET {i \in Used(T) : i > INIT}
    BY <1>3
  <2>2. PICK i \in S : T[i].mp_parent \notin S
    BY <1>7, <2>1 DEF Tree
  <2> QED
    BY <1>5, <2>2
<1> QED
  BY <1>1, <1>4, <1>6, <1>7 DEF Tree
-----------------------------------------------------------------------------
(* The stack *)

\* What the stack holds, which is nobody twice
OnStack(s, v) == \E j \in DOMAIN s : s[j] = v
Distinct(s) == \A i, j \in DOMAIN s : s[i] = s[j] => i = j

\* A stack on which nobody is twice has room for all.
LEMMA StackRoom ==
  ASSUME NEW s \in Seq(Procs), Distinct(s)
  PROVE  Len(s) <= NR_PROCS
<1>1. Len(s) \in Nat /\ DOMAIN s = 1..Len(s) /\ s \in [1..Len(s) -> Procs]
  OBVIOUS
<1>2. IsFiniteSet(1..Len(s)) /\ Cardinality(1..Len(s)) = Len(s)
  BY <1>1, FS_Interval
<1>3. ASSUME Cardinality(Procs) < Cardinality(1..Len(s)) PROVE FALSE
  <2>1. \E x, y \in 1..Len(s) : x # y /\ s[x] = s[y]
    BY <1>1, <1>2, <1>3, SlotsFinite, FS_PigeonHole
  <2> QED
    BY <1>1, <2>1 DEF Distinct
<1> QED
  BY <1>1, <1>2, <1>3, SlotsFinite, TreeAssumption

\* Somebody new is pushed.
LEMMA PushStack ==
  ASSUME NEW s \in Seq(Procs), Distinct(s), NEW v \in Procs, ~OnStack(s, v),
         NEW t, t = Append(s, v)
  PROVE  /\ t \in Seq(Procs) /\ Distinct(t)
         /\ \A w : OnStack(t, w) <=> OnStack(s, w) \/ w = v
<1>1. PICK n : n = Len(s)
  OBVIOUS
<1>2. /\ n \in Nat /\ DOMAIN s = 1..n /\ t \in Seq(Procs) /\ DOMAIN t = 1..(n + 1)
      /\ \A j \in 1..n : t[j] = s[j]
      /\ t[n + 1] = v
  BY <1>1
<1>3. \A j \in 1..n : s[j] # v
  BY <1>2 DEF OnStack
<1>4. Distinct(t)
  <2> SUFFICES ASSUME NEW i \in 1..(n + 1), NEW j \in 1..(n + 1), t[i] = t[j]
               PROVE  i = j
    BY <1>2 DEF Distinct
  <2>1. CASE i = n + 1 \/ j = n + 1
    BY <1>2, <1>3, <2>1
  <2>2. CASE i # n + 1 /\ j # n + 1
    <3>1. i \in 1..n /\ j \in 1..n
      BY <1>2, <2>2
    <3> QED
      BY <1>2, <3>1 DEF Distinct
  <2> QED
    BY <2>1, <2>2
<1>5. ASSUME NEW w PROVE OnStack(t, w) <=> OnStack(s, w) \/ w = v
  <2>1. OnStack(t, w) <=> \E j \in 1..(n + 1) : t[j] = w
    BY <1>2 DEF OnStack
  <2>2. OnStack(s, w) <=> \E j \in 1..n : s[j] = w
    BY <1>2 DEF OnStack
  <2> QED
    BY <1>2, <2>1, <2>2
<1> QED
  BY <1>2, <1>4, <1>5

\* The top is popped.
LEMMA PopStack ==
  ASSUME NEW s \in Seq(Procs), Distinct(s), s # << >>, NEW t, t = Rest(s)
  PROVE  /\ s[Len(s)] \in Procs /\ OnStack(s, s[Len(s)])
         /\ t \in Seq(Procs) /\ Distinct(t)
         /\ \A w : OnStack(s, w) <=> OnStack(t, w) \/ w = s[Len(s)]
<1>1. PICK n : n = Len(s)
  OBVIOUS
<1>2. /\ n \in Nat \ {0} /\ DOMAIN s = 1..n /\ s[n] \in Procs
      /\ t \in Seq(Procs) /\ DOMAIN t = 1..(n - 1)
      /\ \A j \in 1..(n - 1) : t[j] = s[j]
  BY <1>1 DEF Rest
<1>3. Distinct(t)
  BY <1>2 DEF Distinct
<1>4. ASSUME NEW w PROVE OnStack(s, w) <=> OnStack(t, w) \/ w = s[n]
  <2>1. OnStack(t, w) <=> \E j \in 1..(n - 1) : t[j] = w
    BY <1>2 DEF OnStack
  <2>2. OnStack(s, w) <=> \E j \in 1..n : s[j] = w
    BY <1>2 DEF OnStack
  <2> QED
    BY <1>2, <2>1, <2>2
<1> QED
  BY <1>1, <1>2, <1>3, <1>4
-----------------------------------------------------------------------------
(* The invariant *)

\* The local variables of a query
Query ==
  [pc : {"none", "scan", "count", "look"},
   kind : {"children", "descendants"}, exclude_pid : Nat,
   proc_nr : 0..NR_PROCS, most : Int, found : Int,
   stack : Seq(Procs), visited : SUBSET Procs, current_proc : Procs,
   i : 0..NR_PROCS, descendants : Int]

\* The search of count_descendants below p: whoever is visited is below p; it
\* waits on the stack, or is the one that is worked on, or all its children
\* have been visited.
Search(T, q) ==
  /\ q.kind = "descendants" /\ q.proc_nr \in Looked(T, q.exclude_pid)
  /\ q.proc_nr \in q.visited /\ q.visited \subseteq BelowIn(T, q.proc_nr)
  /\ q.descendants = Cardinality(q.visited) - 1
  /\ Distinct(q.stack)
  /\ \A v : OnStack(q.stack, v) => v \in q.visited
  /\ \A v \in q.visited :
       \/ OnStack(q.stack, v) \/ Kids(T, v) \subseteq q.visited
       \/ q.pc = "look" /\ v = q.current_proc
  /\ q.pc = "look" =>
       /\ q.current_proc \in q.visited
       /\ \A c \in Kids(T, q.current_proc) : c < q.i => c \in q.visited

\* The slots in front of proc_nr have been counted.
Scan(T, q) ==
  BestOf(Looked(T, q.exclude_pid), Counts(T, q.kind), PidOf(T),
         q.proc_nr, q.found, q.most)

\* The table is a tree, and the query has a part of the answer.
Good(T, q) ==
  /\ Tree(T) /\ q \in Query
  /\ q.pc # "none" => Scan(T, q)
  /\ q.pc \in {"count", "look"} => Search(T, q)
  /\ q.pc \in {"none", "scan"} => q.stack = << >>

IInv == Good(mproc, query)

\* No query is a good one.
LEMMA NoQueryGood == ASSUME NEW T, Tree(T) PROVE Good(T, NoQuery)
<1>1. 0 \in 0..NR_PROCS /\ 0 \in Procs /\ << >> \in Seq(Procs)
  BY TreeAssumption, SlotFacts DEF MM
<1>2. NoQuery \in Query /\ NoQuery.pc = "none" /\ NoQuery.stack = << >>
  BY <1>1 DEF NoQuery, Query
<1> QED
  BY <1>2 DEF Good

\* The initial table
LEMMA InitGood == Init => IInv
<1> SUFFICES ASSUME Init PROVE IInv
  OBVIOUS
<1>1. \A i \in Procs :
        /\ mproc[i].in_use = (i <= INIT) /\ mproc[i].hanging = FALSE
        /\ mproc[i].mp_parent = 0
        /\ mproc[i].mp_pid = IF i = INIT THEN INIT_PID ELSE 0
        /\ mproc[i] \in Slot
  <2> SUFFICES ASSUME NEW i \in Procs
               PROVE  /\ mproc[i].in_use = (i <= INIT) /\ mproc[i].hanging = FALSE
                      /\ mproc[i].mp_parent = 0
                      /\ mproc[i].mp_pid = IF i = INIT THEN INIT_PID ELSE 0
                      /\ mproc[i] \in Slot
    OBVIOUS
  <2>1. PICK b, p : b = (i <= INIT) /\ p = IF i = INIT THEN INIT_PID ELSE 0
    OBVIOUS
  <2>2. mproc[i] = [in_use |-> b, hanging |-> FALSE, mp_parent |-> 0, mp_pid |-> p]
    BY <2>1 DEF Init
  <2>3. b \in BOOLEAN /\ p \in Nat /\ 0 \in Procs
    BY <2>1, SlotFacts DEF MM, INIT_PID
  <2>4. mproc[i] \in Slot
    BY <2>2, <2>3 DEF Slot
  <2> QED
    BY <2>1, <2>2, <2>4
<1>2. Used(mproc) = {MM, FS, INIT}
  <2>1. \A i \in Procs : i <= INIT <=> i \in {MM, FS, INIT}
    BY SlotFacts
  <2> QED
    BY <1>1, <2>1, SlotFacts DEF Used
<1>3. Tree(mproc)
  <2>1. mproc \in [Procs -> Slot]
    BY <1>1 DEF Init
  <2>2. \A i \in {MM, FS, INIT} : i <= INIT /\ i \in Procs
    BY SlotFacts
  <2>3. \A i \in {MM, FS, INIT} :
          /\ mproc[i].in_use /\ ~mproc[i].hanging /\ mproc[i].mp_parent = MM
          /\ mproc[i].mp_pid = IF i = INIT THEN INIT_PID ELSE 0
    BY <1>1, <2>2 DEF MM
  <2>4. \A i \in Used(mproc) : ~(i > INIT)
    BY <1>2, SlotFacts
  <2> QED
    BY <2>1, <2>3, <2>4 DEF Tree
<1> QED
  BY <1>3, NoQueryGood DEF Init, IInv
-----------------------------------------------------------------------------
(* The steps *)

\* A process is made, in a free slot, with a pid that is free.
LEMMA ForkStep == IInv /\ (\E p \in Procs : Fork(p)) => IInv'
<1> SUFFICES ASSUME IInv, NEW p \in Procs, Fork(p) PROVE IInv'
  OBVIOUS
<1>1. PICK T, U, n, pid :
        /\ T = mproc /\ U = mproc' /\ n = Least(Procs \ InUse)
        /\ pid = Least(UnusedPids)
  OBVIOUS
<1>2. /\ Tree(T) /\ query.pc = "none" /\ query' = query
      /\ U = [T EXCEPT ![n] = [in_use |-> TRUE, hanging |-> FALSE,
                               mp_parent |-> p, mp_pid |-> pid]]
  BY <1>1 DEF IInv, Good, Fork
<1>3. p \in Live(T)
  BY <1>1, Unfolded DEF Fork, Alive, Live
<1>4. n \in Procs \ Used(T)
  <2>1. Procs \ InUse \in SUBSET Nat /\ Procs \ InUse # {}
    BY SlotFacts DEF Fork, InUse
  <2> QED
    BY <1>1, <2>1, LeastNumber, Unfolded
<1>5. pid \in Nat
  <2>1. UnusedPids \in SUBSET Nat /\ UnusedPids # {}
    BY TreeAssumption DEF Fork, UnusedPids
  <2> QED
    BY <1>1, <2>1, LeastNumber
<1>6. Tree(U)
  BY <1>2, <1>3, <1>4, <1>5, ForkKeeps
<1> QED
  BY <1>1, <1>2, <1>6 DEF IInv, Good

\* A process exits, but INIT.
LEMMA ExitStep == IInv /\ (\E p \in Procs : Exit(p)) => IInv'
<1> SUFFICES ASSUME IInv, NEW p \in Procs, Exit(p) PROVE IInv'
  OBVIOUS
<1>1. PICK T, U : T = mproc /\ U = mproc'
  OBVIOUS
<1>2. Tree(T) /\ query.pc = "none" /\ query' = query /\ U = Exited(T, p)
  BY <1>1 DEF IInv, Good, Exit, Exited
<1>3. p \in Live(T) /\ p # INIT
  BY <1>1, Unfolded DEF Exit, Alive, Live
<1>4. Tree(U)
  BY <1>2, <1>3, ExitKeeps
<1> QED
  BY <1>1, <1>2, <1>4 DEF IInv, Good

\* The parent of a zombie waits.
LEMMA WaitStep == IInv /\ (\E n \in Procs : Wait(n)) => IInv'
<1> SUFFICES ASSUME IInv, NEW n \in Procs, Wait(n) PROVE IInv'
  OBVIOUS
<1>1. PICK T, U : T = mproc /\ U = mproc'
  OBVIOUS
<1>2. /\ Tree(T) /\ query.pc = "none" /\ query' = query /\ T[n].hanging
      /\ U = [T EXCEPT ![n].in_use = FALSE, ![n].hanging = FALSE]
  BY <1>1 DEF IInv, Good, Wait
<1>3. Tree(U)
  BY <1>2, WaitKeeps
<1> QED
  BY <1>1, <1>2, <1>3 DEF IInv, Good

\* A query begins with nothing found.
LEMMA AsksStep ==
  ASSUME IInv, NEW kind \in {"children", "descendants"}, NEW pid \in Nat,
         Asks(kind, pid)
  PROVE  IInv'
<1>1. PICK T, r : T = mproc /\ T = mproc' /\ r = query'
  BY DEF Asks
<1>2. Tree(T) /\ r = [NoQuery EXCEPT !.pc = "scan", !.kind = kind, !.exclude_pid = pid]
  BY <1>1 DEF IInv, Good, Asks
<1>3. NoQuery \in Query
  <2>1. 0 \in 0..NR_PROCS /\ 0 \in Procs /\ << >> \in Seq(Procs)
    BY TreeAssumption, SlotFacts DEF MM
  <2> QED
    BY <2>1 DEF NoQuery, Query
<1>4. /\ r \in Query /\ r.pc = "scan" /\ r.stack = << >>
      /\ r.proc_nr = 0 /\ r.found = -1 /\ r.most = -1
  BY <1>2, <1>3 DEF NoQuery, Query
<1>5. \A p \in Looked(T, r.exclude_pid) : ~(p < 0)
  <2>1. \A p \in Procs : ~(p < 0)
    BY SlotFacts
  <2> QED
    BY <2>1 DEF Looked
<1>6. Scan(T, r)
  BY <1>4, <1>5 DEF Scan, BestOf
<1> QED
  BY <1>1, <1>2, <1>4, <1>6 DEF IInv, Good

\* Whoever is looked at is eligible.
LEMMA EligibleLooked ==
  \A p \in Procs : Eligible(p) <=> p \in Looked(mproc, query.exclude_pid)
BY DEF Eligible, Looked

\* A slot is passed over.
LEMMA SkipKeeps == IInv /\ Skip => IInv'
<1> SUFFICES ASSUME IInv, Skip PROVE IInv'
  OBVIOUS
<1>1. PICK T, q, r, n, k : /\ T = mproc /\ T = mproc' /\ q = query /\ r = query'
                           /\ n = q.proc_nr /\ k = n + 1
  BY DEF Skip
<1>2. /\ Tree(T) /\ q \in Query /\ Scan(T, q) /\ q.pc = "scan" /\ q.stack = << >>
      /\ n \in Procs /\ n \notin Looked(T, q.exclude_pid)
      /\ r = [q EXCEPT !.proc_nr = k]
  BY <1>1, EligibleLooked DEF IInv, Good, Skip
<1>3. k \in 0..NR_PROCS
  BY <1>1, <1>2, TreeAssumption DEF Procs
<1>4. /\ r \in Query /\ r.pc = "scan" /\ r.proc_nr = k /\ r.kind = q.kind
      /\ r.exclude_pid = q.exclude_pid /\ r.found = q.found /\ r.most = q.most
      /\ r.stack = << >>
  BY <1>2, <1>3 DEF Query
<1>5. PICK P, C, E : /\ P = PidOf(T) /\ C = Counts(T, q.kind)
                     /\ E = Looked(T, q.exclude_pid)
  OBVIOUS
<1>6. BestOf(E, C, P, n, q.found, q.most) /\ E \in SUBSET Procs
  BY <1>1, <1>2, <1>5 DEF Scan, Looked
<1>7. BestOf(E, C, P, n + 1, q.found, q.most)
  BY <1>2, <1>5, <1>6, BestSkips
<1>8. Scan(T, r)
  BY <1>1, <1>4, <1>5, <1>7 DEF Scan
<1> QED
  BY <1>1, <1>2, <1>4, <1>8 DEF IInv, Good

\* The count of a process is compared with the most so far.
LEMMA CountedKeeps ==
  ASSUME IInv, UNCHANGED mproc, query.pc \in {"scan", "count"},
         query.proc_nr \in Looked(mproc, query.exclude_pid), query.stack = << >>,
         NEW count, count = Counts(mproc, query.kind)[query.proc_nr],
         Counted(count)
  PROVE  IInv'
<1>1. PICK T, q, r, n : /\ T = mproc /\ T = mproc' /\ q = query /\ r = query'
                        /\ n = q.proc_nr
  OBVIOUS
<1>2. PICK P, C, E : /\ P = PidOf(T) /\ C = Counts(T, q.kind)
                     /\ E = Looked(T, q.exclude_pid)
  OBVIOUS
<1>3. /\ q \in Query /\ Tree(T) /\ Scan(T, q) /\ n \in E /\ q.stack = << >>
      /\ E \in SUBSET Procs /\ C \in [Procs -> Nat] /\ count = C[n]
  BY <1>1, <1>2, CountsAreNumbers DEF IInv, Good, Looked
<1>4. PICK f, m : /\ f = IF C[n] > q.most THEN P[n] ELSE q.found
                  /\ m = IF C[n] > q.most THEN C[n] ELSE q.most
  OBVIOUS
<1>5. P[n] = T[n].mp_pid /\ P[n] \in Nat
  BY <1>2, <1>3 DEF PidOf, Tree, Slot
<1>6. r = [q EXCEPT !.pc = "scan", !.proc_nr = n + 1, !.most = m, !.found = f]
  BY <1>1, <1>3, <1>4, <1>5 DEF Counted, Better
<1>7. f \in Int /\ m \in Int /\ n + 1 \in 0..NR_PROCS
  <2>1. n \in Procs /\ C[n] \in Nat /\ q.most \in Int /\ q.found \in Int
    BY <1>3 DEF Query
  <2>2. n + 1 \in 0..NR_PROCS
    BY <2>1, TreeAssumption DEF Procs
  <2> QED
    BY <1>4, <1>5, <2>1, <2>2
<1>8. /\ r \in Query /\ r.pc = "scan" /\ r.proc_nr = n + 1
      /\ r.kind = q.kind /\ r.exclude_pid = q.exclude_pid
      /\ r.found = f /\ r.most = m /\ r.stack = << >>
  BY <1>3, <1>6, <1>7 DEF Query
<1>9. BestOf(E, C, P, n, q.found, q.most)
  BY <1>1, <1>2, <1>3 DEF Scan
<1>10. BestOf(E, C, P, n + 1, f, m)
  BY <1>3, <1>4, <1>9, BestCounts
<1>11. Scan(T, r)
  BY <1>2, <1>8, <1>10 DEF Scan
<1> QED
  BY <1>1, <1>3, <1>8, <1>11 DEF IInv, Good

\* most_children counts with one loop.
LEMMA CountChildrenKeeps == IInv /\ CountChildren => IInv'
<1> SUFFICES ASSUME IInv, CountChildren PROVE IInv'
  OBVIOUS
<1>1. PICK c : c = count_children(query.proc_nr)
  OBVIOUS
<1>2. /\ query.pc = "scan" /\ query.kind = "children" /\ query.proc_nr \in Procs
      /\ Eligible(query.proc_nr) /\ Counted(c) /\ UNCHANGED mproc
      /\ query.stack = << >>
  BY <1>1 DEF CountChildren, IInv, Good
<1>3. c = Counts(mproc, query.kind)[query.proc_nr]
  BY <1>1, <1>2, CountsOf, Unfolded DEF count_children
<1>4. query.proc_nr \in Looked(mproc, query.exclude_pid)
  BY <1>2, EligibleLooked
<1> QED
  BY <1>2, <1>3, <1>4, CountedKeeps

\* count_descendants begins with the process itself.
LEMMA CountDescendantsKeeps == IInv /\ CountDescendants => IInv'
<1> SUFFICES ASSUME IInv, CountDescendants PROVE IInv'
  OBVIOUS
<1>1. PICK T, q, r, n, s, V, z :
        /\ T = mproc /\ T = mproc' /\ q = query /\ r = query' /\ n = q.proc_nr
        /\ s = <<n>> /\ V = {n} /\ z = 0
  BY DEF CountDescendants
<1>2. /\ Tree(T) /\ q \in Query /\ Scan(T, q) /\ q.kind = "descendants"
      /\ n \in Procs /\ n \in Looked(T, q.exclude_pid)
      /\ r = [q EXCEPT !.pc = "count", !.stack = s, !.visited = V, !.descendants = z]
  BY <1>1, EligibleLooked DEF IInv, Good, CountDescendants
<1>3. /\ s \in Seq(Procs) /\ Len(s) = 1 /\ s[1] = n /\ V \in SUBSET Procs /\ z \in Int
  BY <1>1, <1>2
<1>4. /\ r \in Query /\ r.pc = "count" /\ r.proc_nr = n /\ r.kind = "descendants"
      /\ r.exclude_pid = q.exclude_pid /\ r.found = q.found /\ r.most = q.most
      /\ r.stack = s /\ r.visited = V /\ r.descendants = z
  <2>1. q.proc_nr = n
    BY <1>1
  <2> QED
    BY <1>2, <1>3, <2>1 DEF Query
<1>5. Scan(T, r)
  BY <1>1, <1>2, <1>4 DEF Scan
<1>6. Distinct(s) /\ \A v : OnStack(s, v) <=> v = n
  BY <1>3 DEF Distinct, OnStack
<1>7. V \subseteq BelowIn(T, n)
  BY <1>1, <1>2, BelowClosed DEF Closed
<1>8. z = Cardinality(V) - 1
  <2>1. Cardinality(V) = 1
    BY <1>1, FS_Singleton
  <2> QED
    BY <1>1, <2>1
<1>9. Search(T, r)
  BY <1>1, <1>2, <1>4, <1>6, <1>7, <1>8 DEF Search
<1> QED
  BY <1>1, <1>2, <1>4, <1>5, <1>9 DEF IInv, Good

\* The top of the stack is the one to work on.
LEMMA PopKeeps == IInv /\ Pop => IInv'
<1> SUFFICES ASSUME IInv, Pop PROVE IInv'
  OBVIOUS
<1>1. PICK T, q, r, c, s, z :
        /\ T = mproc /\ T = mproc' /\ q = query /\ r = query'
        /\ c = q.stack[Len(q.stack)] /\ s = Rest(q.stack) /\ z = 0
  BY DEF Pop
<1>2. /\ Tree(T) /\ q \in Query /\ Scan(T, q) /\ Search(T, q)
      /\ q.pc = "count" /\ q.stack # << >>
      /\ r = [q EXCEPT !.pc = "look", !.i = z, !.current_proc = c, !.stack = s]
  BY <1>1 DEF IInv, Good, Pop
<1>3. q.stack \in Seq(Procs) /\ Distinct(q.stack)
  BY <1>2 DEF Query, Search
<1>4. /\ c \in Procs /\ OnStack(q.stack, c) /\ s \in Seq(Procs) /\ Distinct(s)
      /\ \A w : OnStack(q.stack, w) <=> OnStack(s, w) \/ w = c
  BY <1>1, <1>2, <1>3, PopStack
<1>5. /\ r \in Query /\ r.pc = "look" /\ r.i = z
      /\ r.current_proc = c /\ r.stack = s
      /\ r.proc_nr = q.proc_nr /\ r.kind = q.kind /\ r.exclude_pid = q.exclude_pid
      /\ r.found = q.found /\ r.most = q.most
      /\ r.visited = q.visited /\ r.descendants = q.descendants
  <2>1. z \in 0..NR_PROCS
    BY <1>1, TreeAssumption
  <2> QED
    BY <1>2, <1>4, <2>1 DEF Query
<1>6. Scan(T, r)
  BY <1>2, <1>5 DEF Scan
<1>7. \A k \in Kids(T, c) : ~(k < z)
  <2>1. \A k \in Procs : ~(k < z)
    BY <1>1, SlotFacts
  <2> QED
    BY <2>1 DEF Kids, Used
<1>8. Search(T, r)
  BY <1>2, <1>4, <1>5, <1>7 DEF Search
<1> QED
  BY <1>1, <1>2, <1>5, <1>6, <1>8 DEF IInv, Good

\* A slot is looked at: a child of the process that is worked on, not seen
\* before, is counted and pushed.
LEMMA LookKeeps == IInv /\ Look => IInv'
<1> SUFFICES ASSUME IInv, Look PROVE IInv'
  OBVIOUS
<1>1. PICK T, q, r, i, c, V :
        /\ T = mproc /\ T = mproc' /\ q = query /\ r = query'
        /\ i = q.i /\ c = q.current_proc /\ V = q.visited
  BY DEF Look
<1>2. PICK s, W, j : s = Append(q.stack, i) /\ W = V \cup {i} /\ j = i + 1
  OBVIOUS
<1>3. /\ Tree(T) /\ q \in Query /\ Scan(T, q) /\ Search(T, q)
      /\ q.pc = "look" /\ i \in Procs
      /\ i \in Kids(T, c) \ V =>
           r = [q EXCEPT !.i = j, !.descendants = q.descendants + 1,
                         !.stack = s, !.visited = W]
      /\ i \notin Kids(T, c) \ V => r = [q EXCEPT !.i = j]
  BY <1>1, <1>2, Unfolded DEF IInv, Good, Look
<1>4. /\ j \in 0..NR_PROCS
      /\ q.descendants \in Int /\ q.stack \in Seq(Procs) /\ V \in SUBSET Procs
      /\ c \in Procs /\ c \in V /\ q.proc_nr \in Procs
  <2>1. j \in 0..NR_PROCS
    BY <1>2, <1>3, TreeAssumption DEF Procs
  <2> QED
    BY <1>1, <1>3, <2>1 DEF Query, Search, Looked
<1>5. \A k \in Kids(T, c) : k < j => k = i \/ k < i
  <2>1. \A k \in Procs : k < j => k = i \/ k < i
    BY <1>2, <1>3, SlotFacts
  <2> QED
    BY <2>1 DEF Kids, Used
<1>6. CASE i \notin Kids(T, c) \ V
  <2>1. r = [q EXCEPT !.i = j]
    BY <1>3, <1>6
  <2>2. /\ r \in Query /\ r.pc = q.pc /\ r.i = j
        /\ r.current_proc = q.current_proc /\ r.stack = q.stack
        /\ r.proc_nr = q.proc_nr /\ r.kind = q.kind /\ r.exclude_pid = q.exclude_pid
        /\ r.found = q.found /\ r.most = q.most
        /\ r.visited = q.visited /\ r.descendants = q.descendants
    BY <1>3, <1>4, <2>1 DEF Query
  <2>3. Scan(T, r)
    BY <1>3, <2>2 DEF Scan
  <2>4. \A k \in Kids(T, c) : k < j => k \in V
    BY <1>1, <1>3, <1>5, <1>6 DEF Search
  <2>5. Search(T, r)
    BY <1>1, <1>3, <2>2, <2>4 DEF Search
  <2> QED
    BY <1>1, <1>3, <2>2, <2>3, <2>5 DEF IInv, Good
<1>7. CASE i \in Kids(T, c) \ V
  <2>1. PICK d \in Int : d = q.descendants + 1
    BY <1>4
  <2>2. /\ s \in Seq(Procs) /\ Distinct(s) /\ W \in SUBSET Procs
        /\ \A v : OnStack(s, v) <=> OnStack(q.stack, v) \/ v = i
    <3>1. ~OnStack(q.stack, i) /\ Distinct(q.stack)
      BY <1>1, <1>3, <1>7 DEF Search
    <3>2. i \in Procs /\ q.stack \in Seq(Procs) /\ s = Append(q.stack, i)
      BY <1>2, <1>3, <1>4
    <3>3. /\ s \in Seq(Procs) /\ Distinct(s)
          /\ \A v : OnStack(s, v) <=> OnStack(q.stack, v) \/ v = i
      BY <3>1, <3>2, PushStack
    <3>4. W \in SUBSET Procs
      BY <1>2, <1>4, <3>2
    <3> QED
      BY <3>3, <3>4
  <2>3. r = [q EXCEPT !.i = j, !.descendants = d, !.stack = s, !.visited = W]
    BY <1>3, <1>7, <2>1
  <2>4. /\ r \in Query /\ r.pc = q.pc /\ r.i = j
        /\ r.current_proc = q.current_proc /\ r.stack = s
        /\ r.proc_nr = q.proc_nr /\ r.kind = q.kind /\ r.exclude_pid = q.exclude_pid
        /\ r.found = q.found /\ r.most = q.most
        /\ r.visited = W /\ r.descendants = d
    <3>1. q \in Query /\ j \in 0..NR_PROCS /\ s \in Seq(Procs) /\ W \in SUBSET Procs
      BY <1>3, <1>4, <2>2
    <3> QED
      BY <2>3, <3>1 DEF Query
  <2>5. Scan(T, r)
    BY <1>3, <2>4 DEF Scan
  <2>6. d = Cardinality(W) - 1
    <3>1. IsFiniteSet(V) /\ Cardinality(V) \in Nat /\ i \notin V
      BY <1>4, <1>7, SlotsFinite
    <3>2. Cardinality(W) = Cardinality(V) + 1
      BY <1>2, <3>1, FS_AddElement
    <3>3. q.descendants = Cardinality(V) - 1
      BY <1>1, <1>3 DEF Search
    <3> QED
      BY <2>1, <3>1, <3>2, <3>3
  <2>7. W \subseteq BelowIn(T, q.proc_nr)
    <3>1. V \subseteq BelowIn(T, q.proc_nr)
      BY <1>1, <1>3 DEF Search
    <3>2. Closed(T, q.proc_nr, BelowIn(T, q.proc_nr))
      BY <1>4, BelowClosed
    <3>3. i \in Used(T) /\ T[i].mp_parent = c
      BY <1>7 DEF Kids
    <3> QED
      BY <1>2, <1>4, <3>1, <3>2, <3>3 DEF Closed
  <2>8. \A v \in W : \/ OnStack(s, v) \/ Kids(T, v) \subseteq W \/ v = c
    BY <1>1, <1>2, <1>3, <2>2 DEF Search
  <2>9. /\ q.kind = "descendants" /\ q.proc_nr \in Looked(T, q.exclude_pid)
        /\ q.proc_nr \in W /\ c \in W
        /\ \A v : OnStack(s, v) => v \in W
        /\ \A k \in Kids(T, c) : k < j => k \in W
    <3>1. /\ q.kind = "descendants" /\ q.proc_nr \in Looked(T, q.exclude_pid)
          /\ q.proc_nr \in V
          /\ \A v : OnStack(q.stack, v) => v \in V
          /\ \A k \in Kids(T, c) : k < i => k \in V
      BY <1>1, <1>3 DEF Search
    <3> QED
      BY <1>2, <1>4, <1>5, <2>2, <3>1
  <2>10. Search(T, r)
    BY <1>1, <1>3, <2>2, <2>4, <2>6, <2>7, <2>8, <2>9 DEF Search
  <2> QED
    BY <1>1, <1>3, <2>4, <2>5, <2>10 DEF IInv, Good
<1> QED
  BY <1>6, <1>7

\* All slots have been looked at: the children are visited.
LEMMA LookedAtAllKeeps == IInv /\ LookedAtAll => IInv'
<1> SUFFICES ASSUME IInv, LookedAtAll PROVE IInv'
  OBVIOUS
<1>1. PICK T, q, r : /\ T = mproc /\ T = mproc' /\ q = query /\ r = query'
  BY DEF LookedAtAll
<1>2. /\ Tree(T) /\ q \in Query /\ Scan(T, q) /\ Search(T, q)
      /\ q.pc = "look" /\ q.i = NR_PROCS /\ r = [q EXCEPT !.pc = "count"]
  BY <1>1 DEF IInv, Good, LookedAtAll
<1>3. /\ r \in Query /\ r.pc = "count"
      /\ r.current_proc = q.current_proc /\ r.stack = q.stack
      /\ r.proc_nr = q.proc_nr /\ r.kind = q.kind /\ r.exclude_pid = q.exclude_pid
      /\ r.found = q.found /\ r.most = q.most
      /\ r.visited = q.visited /\ r.descendants = q.descendants
  BY <1>2 DEF Query
<1>4. Scan(T, r)
  BY <1>2, <1>3 DEF Scan
<1>5. \A k \in Kids(T, q.current_proc) : k < NR_PROCS
  <2>1. \A k \in Procs : k < NR_PROCS
    BY TreeAssumption DEF Procs
  <2> QED
    BY <2>1 DEF Kids, Used
<1>6. Kids(T, q.current_proc) \subseteq q.visited
  BY <1>2, <1>5 DEF Search
<1>7. Search(T, r)
  BY <1>2, <1>3, <1>6 DEF Search
<1> QED
  BY <1>1, <1>2, <1>3, <1>4, <1>7 DEF IInv, Good

\* When the stack is empty, the visited are closed under children: everybody
\* below has been counted.
LEMMA AllCounted ==
  ASSUME NEW T, NEW q \in Query, Search(T, q), q.pc = "count", q.stack = << >>
  PROVE  q.descendants = Counts(T, q.kind)[q.proc_nr]
<1>1. q.proc_nr \in Procs /\ q.visited \in SUBSET Procs
  BY DEF Query, Search, Looked
<1>2. \A v : ~OnStack(q.stack, v)
  BY DEF OnStack
<1>3. \A v \in q.visited : Kids(T, v) \subseteq q.visited
  BY <1>2 DEF Search
<1>4. Closed(T, q.proc_nr, q.visited)
  BY <1>3 DEF Search, Closed, Kids
<1>5. q.visited = BelowIn(T, q.proc_nr)
  BY <1>1, <1>4, BelowLeast DEF Search
<1>6. q.descendants = Cardinality(BelowIn(T, q.proc_nr)) - 1
  BY <1>5 DEF Search
<1>7. Counts(T, "descendants")[q.proc_nr] = Cardinality(BelowIn(T, q.proc_nr)) - 1
  BY <1>1, CountsOf
<1>8. q.kind = "descendants"
  BY DEF Search
<1> QED
  BY <1>6, <1>7, <1>8

\* count_descendants returns: its count is that of the process looked at.
LEMMA ReturnsKeeps == IInv /\ Returns => IInv'
<1> SUFFICES ASSUME IInv, Returns PROVE IInv'
  OBVIOUS
<1>1. /\ query.pc = "count" /\ query.stack = << >> /\ UNCHANGED mproc
      /\ Counted(query.descendants)
  BY DEF Returns
<1>2. query \in Query /\ Search(mproc, query)
  BY <1>1 DEF IInv, Good
<1>3. query.descendants = Counts(mproc, query.kind)[query.proc_nr]
  BY <1>1, <1>2, AllCounted
<1>4. query.proc_nr \in Looked(mproc, query.exclude_pid)
  BY <1>2 DEF Search
<1> QED
  BY <1>1, <1>3, <1>4, CountedKeeps

\* The query is answered.
LEMMA AnswerKeeps == IInv /\ Answer => IInv'
<1> SUFFICES ASSUME IInv, Answer PROVE IInv'
  OBVIOUS
<1>1. Tree(mproc) /\ mproc' = mproc /\ query' = NoQuery
  BY DEF IInv, Good, Answer
<1>2. Good(mproc, NoQuery)
  BY <1>1, NoQueryGood
<1> QED
  BY <1>1, <1>2 DEF IInv

\* Every step keeps the invariant.
LEMMA Inductive == IInv /\ [Next]_vars => IInv'
<1> SUFFICES ASSUME IInv, [Next]_vars PROVE IInv'
  OBVIOUS
<1>1. CASE \E p \in Procs : Fork(p) \/ Exit(p) \/ Wait(p)
  BY <1>1, ForkStep, ExitStep, WaitStep
<1>2. CASE do_who_most_children
  BY <1>2, AsksStep DEF do_who_most_children
<1>3. CASE do_who_most_descendants
  <2>1. PICK pid \in Excludes : Asks("descendants", pid)
    BY <1>3 DEF do_who_most_descendants
  <2> QED
    BY <2>1, AsksStep, TreeAssumption
<1>4. CASE Work
  BY <1>4, SkipKeeps, CountChildrenKeeps, CountDescendantsKeeps, PopKeeps, LookKeeps,
     LookedAtAllKeeps, ReturnsKeeps, AnswerKeeps DEF Work
<1>5. CASE UNCHANGED vars
  BY <1>5 DEF vars, IInv
<1> QED
  BY <1>1, <1>2, <1>3, <1>4, <1>5 DEF Next
-----------------------------------------------------------------------------
(* The theorems *)

\* The table of processes stays a tree with MM, FS and INIT in it, and every
\* search has counted a part of it.
THEOREM TreeStays == Spec => []IInv
<1>1. Init => IInv
  BY InitGood
<1>2. IInv /\ [Next]_vars => IInv'
  BY Inductive
<1> QED
  BY <1>1, <1>2, PTL DEF Spec

\* What the stack of count_descendants has to hold
StackFits == Len(query.stack) <= NR_PROCS

\* stack[NR_PROCS] has room for every search: nobody is pushed twice.
THEOREM StackFitsAlways == Spec => []StackFits
<1>1. IInv => StackFits
  <2> SUFFICES ASSUME IInv PROVE StackFits
    OBVIOUS
  <2>1. query.stack \in Seq(Procs) /\ query.pc \in {"none", "scan", "count", "look"}
    BY DEF IInv, Good, Query
  <2>2. Distinct(query.stack)
    <3>1. Distinct(<< >>)
      BY DEF Distinct
    <3> QED
      BY <2>1, <3>1 DEF IInv, Good, Search
  <2> QED
    BY <2>1, <2>2, StackRoom DEF StackFits
<1> QED
  BY <1>1, TreeStays, PTL

\* The answer to a query is the pid of the first of the processes with the most
\* children, or descendants on all levels, with their number: zombies are
\* counted, slots of the dead are not, and nobody is counted twice.
THEOREM AnswerIsRightAlways == Spec => []AnswerIsRight
<1>1. IInv => AnswerIsRight
  <2> SUFFICES ASSUME IInv, Answering PROVE
        IF \E p \in Procs : Eligible(p)
        THEN \E p \in Procs :
               /\ Eligible(p)
               /\ query.found = mproc[p].mp_pid /\ query.most = Score(p)
               /\ \A o \in Procs : Eligible(o) =>
                    Score(o) < Score(p) \/ (Score(o) = Score(p) /\ p <= o)
        ELSE query.found = -1 /\ query.most = -1
    BY DEF AnswerIsRight
  <2>1. PICK T, E, C, P : /\ T = mproc /\ E = Looked(T, query.exclude_pid)
                          /\ C = Counts(T, query.kind) /\ P = PidOf(T)
    OBVIOUS
  <2>2. query \in Query /\ BestOf(E, C, P, NR_PROCS, query.found, query.most)
    BY <2>1 DEF IInv, Good, Scan, Answering
  <2>3. \A p \in Procs : /\ Eligible(p) <=> p \in E
                         /\ p < NR_PROCS /\ P[p] = mproc[p].mp_pid
    BY <2>1, EligibleLooked, TreeAssumption DEF PidOf, Procs
  <2>4. E \in SUBSET Procs
    BY <2>1 DEF Looked
  <2>5. \A p \in Procs : C[p] = Score(p)
    <3> SUFFICES ASSUME NEW p \in Procs PROVE C[p] = Score(p)
      OBVIOUS
    <3>1. CASE query.kind = "children"
      <4>1. Kids(T, p) \ {p} = {i \in InUse \ {p} : mproc[i].mp_parent = p}
        BY <2>1, Unfolded DEF Kids
      <4>2. C[p] = Cardinality(Kids(T, p) \ {p})
        BY <2>1, <3>1, CountsOf
      <4> QED
        BY <3>1, <4>1, <4>2 DEF Score
    <3>2. CASE query.kind = "descendants"
      <4>1. C[p] = Cardinality(BelowIn(T, p)) - 1
        BY <2>1, <3>2, CountsOf
      <4> QED
        BY <2>1, <3>2, <4>1, Unfolded DEF Score
    <3> QED
      BY <2>2, <3>1, <3>2 DEF Query
  <2> QED
    BY <2>2, <2>3, <2>4, <2>5 DEF BestOf
<1> QED
  BY <1>1, TreeStays, PTL

\* Unless it is left out, INIT has the most descendants: all processes but MM
\* and FS, whoever forked, exited and was waited for before.
THEOREM InitHasAllAlways == Spec => []InitHasAll
<1>1. IInv => InitHasAll
  <2> SUFFICES ASSUME IInv, Answering, query.kind = "descendants",
                      query.exclude_pid # INIT_PID
               PROVE  query.found = INIT_PID /\ query.most = Cardinality(InUse) - 3
    BY DEF InitHasAll
  <2>1. PICK T, E, C, P : /\ T = mproc /\ E = Looked(T, query.exclude_pid)
                          /\ C = Counts(T, query.kind) /\ P = PidOf(T)
    OBVIOUS
  <2>2. /\ query \in Query /\ BestOf(E, C, P, NR_PROCS, query.found, query.most)
        /\ Tree(T)
    BY <2>1 DEF IInv, Good, Scan, Answering
  <2>3. PICK U : U = Used(T) \ {MM, FS}
    OBVIOUS
  <2>4. /\ IsFiniteSet(U) /\ Cardinality(U) \in Nat
        /\ Cardinality(U \ {INIT}) = Cardinality(U) - 1
        /\ Cardinality(Used(T)) = Cardinality(U) + 2
    <3>1. PICK V : V = Used(T) \ {MM}
      OBVIOUS
    <3>2. /\ Used(T) \in SUBSET Procs /\ V \in SUBSET Procs /\ U \in SUBSET Procs
          /\ MM \in Used(T) /\ FS \in V /\ INIT \in U /\ U = V \ {FS}
      BY <2>2, <2>3, <3>1, SlotFacts DEF Tree, Used
    <3>3. IsFiniteSet(Used(T)) /\ IsFiniteSet(V) /\ IsFiniteSet(U)
      BY <3>2, SlotsFinite
    <3>4. Cardinality(Used(T) \ {MM}) = Cardinality(Used(T)) - 1
      BY <3>2, <3>3, FS_RemoveElement
    <3>5. Cardinality(V \ {FS}) = Cardinality(V) - 1
      BY <3>2, <3>3, FS_RemoveElement
    <3>6. Cardinality(U \ {INIT}) = Cardinality(U) - 1
      BY <3>2, <3>3, FS_RemoveElement
    <3>7. Cardinality(V) = Cardinality(Used(T)) - 1
      BY <3>1, <3>4
    <3>8. Cardinality(U) = Cardinality(V) - 1
      BY <3>2, <3>5
    <3>9. /\ Cardinality(U) \in Nat /\ Cardinality(V) \in Nat
          /\ Cardinality(Used(T)) \in Nat
      BY <3>2, SlotsFinite
    <3> QED
      BY <3>3, <3>6, <3>7, <3>8, <3>9
  <2>5. INIT \in E /\ INIT < NR_PROCS /\ C[INIT] = Cardinality(U) - 1
    <3>1. INIT \in Procs /\ INIT \in Used(T) /\ INIT < NR_PROCS
      BY <2>2, SlotFacts, TreeAssumption DEF Tree, Used, Procs
    <3>2. INIT \in E
      BY <2>1, <2>2, <3>1, SlotFacts DEF Tree, Looked, Used, INIT_PID
    <3>3. C[INIT] = Cardinality(BelowIn(T, INIT)) - 1
      BY <2>1, <3>1, CountsOf
    <3>4. BelowIn(T, INIT) = U
      BY <2>2, <2>3, BelowInit
    <3> QED
      BY <3>1, <3>2, <3>3, <3>4
  <2>6. ASSUME NEW p \in E, p # INIT PROVE C[p] < C[INIT]
    <3>1. p \in Used(T) /\ p \in Procs /\ p > INIT
      BY <2>1, <2>2, <2>6, SlotFacts DEF Looked, Used, Tree
    <3>2. BelowIn(T, p) \subseteq U \ {INIT}
      BY <2>2, <2>3, <3>1, BelowOthers
    <3>3. IsFiniteSet(U \ {INIT})
      BY <2>4, FS_Subset
    <3>4. /\ Cardinality(BelowIn(T, p)) <= Cardinality(U \ {INIT})
          /\ Cardinality(BelowIn(T, p)) \in Nat
      BY <3>1, <3>2, <3>3, FS_Subset, BelowClosed, SlotsFinite
    <3>5. C[p] = Cardinality(BelowIn(T, p)) - 1
      BY <2>1, <3>1, CountsOf
    <3> QED
      BY <2>4, <2>5, <3>4, <3>5
  <2>7. /\ \A p \in E : C[p] \in Nat
        /\ P[INIT] = INIT_PID
    BY <2>1, <2>2, CountsAreNumbers, SlotFacts DEF Looked, PidOf, Tree
  <2>8. PICK p \in E :
          /\ query.found = P[p] /\ query.most = C[p]
          /\ \A o \in E : o < NR_PROCS => C[o] < C[p] \/ (C[o] = C[p] /\ p <= o)
    BY <2>2, <2>5 DEF BestOf
  <2>9. p = INIT
    BY <2>5, <2>6, <2>7, <2>8
  <2>10. InUse = Used(T)
    BY <2>1, Unfolded
  <2> QED
    BY <2>4, <2>5, <2>7, <2>8, <2>9, <2>10
<1> QED
  BY <1>1, TreeStays, PTL
=============================================================================
