----------------------------- MODULE AllocProofs -----------------------------
(***************************************************************************)
(* Theorems about the memory allocator of exercise 5, for any memory, any  *)
(* processes and any swap area, as long as worst fit and swapping are not  *)
(* in force together: the list of holes stays in order and fits into its   *)
(* table, every click of memory has one owner, who is swapped out lies in  *)
(* the swap area, answers come in, and worst fit takes the largest hole.   *)
(***************************************************************************)
EXTENDS Alloc, FiniteSetTheorems, WellFoundedInduction, TLAPS

(* Numbers *)

\* The least of a set of numbers is one of them.
LEMMA LeastNumber ==
  ASSUME NEW S \in SUBSET Nat, S # {}
  PROVE  Min(S) \in S /\ \A y \in S : Min(S) <= y
<1>1. PICK x \in S : \A y \in S : ~(<<y, x>> \in OpToRel(<, Nat))
  BY WFMin, NatLessThanWellFounded
<1>2. ASSUME NEW y \in S PROVE x <= y
  <2>1. x \in Nat /\ y \in Nat
    OBVIOUS
  <2>2. y < x => <<y, x>> \in OpToRel(<, Nat)
    BY <2>1 DEF OpToRel
  <2>3. ~(y < x)
    BY <1>1, <2>2
  <2> QED
    BY <2>1, <2>3
<1> QED
  BY <1>2 DEF Min

\* What holds of 0, and of i if of i - 1, holds up to N.
LEMMA Upward ==
  ASSUME NEW N \in Nat, NEW P, 0 \in P,
         \A i \in 1..N : i - 1 \in P => i \in P
  PROVE  0..N \subseteq P
<1> SUFFICES ASSUME NEW j \in 0..N, j \notin P PROVE FALSE
  OBVIOUS
<1>1. PICK S : S = {i \in 0..N : i \notin P}
  OBVIOUS
<1>2. S \in SUBSET Nat /\ S # {}
  BY <1>1
<1>3. PICK k : k = Min(S)
  OBVIOUS
<1>4. k \in S /\ \A y \in S : k <= y
  BY <1>2, <1>3, LeastNumber
<1>5. k \in 1..N /\ k - 1 \in 0..N /\ k - 1 \notin S
  BY <1>1, <1>4
<1> QED
  BY <1>1, <1>4, <1>5

\* f follows the steps S from d on.
Along(f, N, d, S) == f = [i \in 0..N |-> IF i = 0 THEN d ELSE S[i][f[i - 1]]]

\* A recursive definition along 0..N, each value of a set given for it, has a
\* solution.
LEMMA Recursion ==
  ASSUME NEW N \in Nat, NEW D, NEW S, NEW d, d \in D[0],
         \A i \in 1..N : \A x \in D[i - 1] : S[i][x] \in D[i]
  PROVE  \E f : Along(f, N, d, S) /\ \A i \in 0..N : f[i] \in D[i]
<1>1. PICK P : P = {k \in 0..N :
                 \E g : g = [i \in 0..k |-> IF i = 0 THEN d ELSE S[i][g[i - 1]]]}
  OBVIOUS
<1>2. 0 \in P
  <2>1. PICK g : g = [i \in 0..0 |-> d]
    OBVIOUS
  <2>2. g = [i \in 0..0 |-> IF i = 0 THEN d ELSE S[i][g[i - 1]]]
    BY <2>1
  <2> QED
    BY <1>1, <2>2
<1>3. ASSUME NEW k \in 1..N, k - 1 \in P PROVE k \in P
  <2>1. PICK g : g = [i \in 0..(k - 1) |-> IF i = 0 THEN d ELSE S[i][g[i - 1]]]
    BY <1>1, <1>3
  <2>2. PICK f : f = [i \in 0..k |-> IF i < k THEN g[i] ELSE S[k][g[k - 1]]]
    OBVIOUS
  <2>3. ASSUME NEW i \in 0..k
        PROVE  f[i] = IF i = 0 THEN d ELSE S[i][f[i - 1]]
    <3>1. CASE i = 0
      BY <2>1, <2>2, <3>1
    <3>2. CASE i # 0 /\ i < k
      <4>1. i \in 0..(k - 1) /\ i - 1 \in 0..k /\ i - 1 < k
        BY <3>2
      <4>2. f[i] = g[i] /\ f[i - 1] = g[i - 1]
        BY <2>2, <3>2, <4>1
      <4>3. g[i] = S[i][g[i - 1]]
        BY <2>1, <3>2, <4>1
      <4> QED
        BY <3>2, <4>2, <4>3
    <3>3. CASE i = k
      <4>1. k # 0 /\ k - 1 \in 0..k /\ k - 1 < k
        OBVIOUS
      <4>2. f[k] = S[k][g[k - 1]] /\ f[k - 1] = g[k - 1]
        BY <2>2, <4>1
      <4> QED
        BY <3>3, <4>1, <4>2
    <3> QED
      BY <3>1, <3>2, <3>3
  <2>4. f = [i \in 0..k |-> IF i = 0 THEN d ELSE S[i][f[i - 1]]]
    BY <2>2, <2>3
  <2> QED
    BY <1>1, <2>4
<1>4. N \in P
  BY <1>2, <1>3, Upward
<1>5. PICK f : f = [i \in 0..N |-> IF i = 0 THEN d ELSE S[i][f[i - 1]]]
  BY <1>1, <1>4
<1>6. PICK Q : Q = {i \in 0..N : f[i] \in D[i]}
  OBVIOUS
<1>7. 0 \in Q
  BY <1>5, <1>6
<1>8. ASSUME NEW i \in 1..N, i - 1 \in Q PROVE i \in Q
  <2>1. f[i] = S[i][f[i - 1]] /\ f[i - 1] \in D[i - 1]
    BY <1>5, <1>6, <1>8
  <2> QED
    BY <1>6, <2>1
<1>9. 0..N \subseteq Q
  BY <1>7, <1>8, Upward
<1>10. Along(f, N, d, S)
  BY <1>5 DEF Along
<1> QED
  BY <1>6, <1>9, <1>10
-----------------------------------------------------------------------------
(* The data *)

\* A hole, the flags of a process, the data of the memory manager
HoleSet == [h_base : Nat, h_len : Nat]
Flags == {"IN_USE", "BLOCKED", "REPLY", "ONSWAP", "SWAPIN"}

Memory ==
  [hole : Seq(HoleSet), current_algorithm : {FIRST, WORST}, swap_on : BOOLEAN,
   mem_phys : [Procs -> Nat], size : [Procs -> Nat],
   mp_flags : [Procs -> SUBSET Flags], in_queue : Seq(Procs), outswap : Procs,
   panic : BOOLEAN, wild : BOOLEAN]

\* Click x lies in the block of n clicks at b; in a hole of h.
In(b, n, x) == b <= x /\ x < b + n
Holds(h, x) == \E i \in DOMAIN h : In(h[i].h_base, h[i].h_len, x)

\* The processes there are, and what belongs to one
Live(m) == {p \in Procs : "IN_USE" \in m.mp_flags[p]}
Has(m, p, x) == In(m.mem_phys[p], m.size[p], x)

\* The clicks there are, with a swap area of n
Area(n, x) == Holds(Chunks, x) \/ In(swap_base, n, x)

\* The holes, the processes and a block of c clicks at b, which alloc.c has in
\* its hands, share out the memory.
Shared(m, n, b, c) ==
  /\ \A x \in Nat : Area(n, x) <=> \/ Holds(m.hole, x) \/ In(b, c, x)
                                   \/ \E p \in Live(m) : Has(m, p, x)
  /\ \A x \in Nat : ~(Holds(m.hole, x) /\ In(b, c, x))
  /\ \A p \in Live(m) : \A x \in Nat :
       Has(m, p, x) => ~Holds(m.hole, x) /\ ~In(b, c, x)
  /\ \A p, q \in Live(m) : \A x \in Nat : Has(m, p, x) /\ Has(m, q, x) => p = q

\* The table of holes has not overflowed, given that it has an entry for every
\* process, every chunk, and three more.
Roomy == NR_HOLES > Cardinality(Procs) + Len(Chunks) + 2
Room(m) == Roomy => ~m.panic

\* The data, with a block in the hands of alloc.c
Part(m, n, b, c) ==
  /\ m \in Memory /\ Tidy(m.hole)
  /\ n \in Nat /\ b \in Nat /\ c \in Nat
  /\ Shared(m, n, b, c)
  /\ ~m.swap_on => n = 0
  /\ Room(m)

\* What the flags of a process say of it
Flagged(m) ==
  \A p \in Procs :
    /\ m.mp_flags[p] # {} => p \in Live(m) /\ m.size[p] > 0
    /\ "SWAPIN" \in m.mp_flags[p] => "ONSWAP" \in m.mp_flags[p]
    /\ {"REPLY", "ONSWAP"} \subseteq m.mp_flags[p] => "SWAPIN" \in m.mp_flags[p]

\* Worst fit and swapping are not in force together.
Separate(m) == ~(m.swap_on /\ m.current_algorithm = WORST)

\* Who is swapped out, and nobody else, lies in the swap area.
Placed(m) ==
  \A p \in Live(m) : "ONSWAP" \in m.mp_flags[p] <=> m.mem_phys[p] >= swap_base

\* Who is to come in is in the queue, once.
Queued(m) ==
  /\ \A i, j \in DOMAIN m.in_queue : m.in_queue[i] = m.in_queue[j] => i = j
  /\ \A p \in Procs : "SWAPIN" \in m.mp_flags[p] <=>
                      \E i \in DOMAIN m.in_queue : m.in_queue[i] = p

\* What holds between the parts of a round as well
Sound(m, n) ==
  /\ Part(m, n, 0, 0)
  /\ Flagged(m)
  /\ Separate(m) => Placed(m)

\* At the end of a round, no reply waits for a process in memory.
IInv ==
  /\ \E n \in Nat : Sound(mm, n)
  /\ Separate(mm)
  /\ Queued(mm)
  /\ \A p \in Procs : "REPLY" \in mm.mp_flags[p] => "ONSWAP" \in mm.mp_flags[p]
-----------------------------------------------------------------------------
(* The list of holes *)

\* A list of holes in order, with contiguous ones perhaps
Ordered(h) ==
  /\ h \in Seq(HoleSet)
  /\ \A i \in DOMAIN h : h[i].h_len > 0
  /\ \A i \in 1..(Len(h) - 1) : End(h[i]) <= h[i + 1].h_base

\* The fields of a hole
LEMMA HoleFields ==
  /\ \A hp \in HoleSet : /\ hp.h_base \in Nat /\ hp.h_len \in Nat
                         /\ End(hp) = hp.h_base + hp.h_len /\ End(hp) \in Nat
  /\ \A b, c \in Nat : /\ Hole(b, c) \in HoleSet
                       /\ Hole(b, c).h_base = b /\ Hole(b, c).h_len = c
BY DEF HoleSet, Hole, End

\* A list in order, on the fields
LEMMA OrderedHoles ==
  ASSUME NEW h, Ordered(h)
  PROVE  /\ Len(h) \in Nat /\ DOMAIN h = 1..Len(h)
         /\ \A i \in 1..Len(h) :
              /\ h[i] \in HoleSet
              /\ h[i].h_base \in Nat /\ h[i].h_len \in Nat /\ h[i].h_len > 0
              /\ End(h[i]) = h[i].h_base + h[i].h_len
<1>1. /\ Len(h) \in Nat /\ DOMAIN h = 1..Len(h)
      /\ \A i \in 1..Len(h) : h[i] \in HoleSet /\ h[i].h_len > 0
  BY DEF Ordered
<1> QED
  BY <1>1, HoleFields

\* A tidy list is in order.
LEMMA TidyOrdered ==
  ASSUME NEW h \in Seq(HoleSet), Tidy(h)
  PROVE  /\ Ordered(h)
         /\ \A i \in 1..(Len(h) - 1) : End(h[i]) < h[i + 1].h_base
<1>1. /\ Len(h) \in Nat /\ \A i \in 1..Len(h) : h[i] \in HoleSet
  OBVIOUS
<1>2. \A i \in 1..(Len(h) - 1) : End(h[i]) < h[i + 1].h_base
  BY DEF Tidy
<1>3. \A i \in 1..(Len(h) - 1) : End(h[i]) <= h[i + 1].h_base
  <2> TAKE i \in 1..(Len(h) - 1)
  <2>1. i \in 1..Len(h) /\ i + 1 \in 1..Len(h)
    BY <1>1
  <2>2. h[i] \in HoleSet /\ h[i + 1] \in HoleSet
    BY <1>1, <2>1
  <2>3. End(h[i]) \in Nat /\ h[i + 1].h_base \in Nat
    <3>1. \A hp \in HoleSet : End(hp) \in Nat /\ hp.h_base \in Nat
      BY HoleFields
    <3> QED
      BY <2>2, <3>1
  <2> QED
    BY <1>2, <2>3
<1> QED
  BY <1>2, <1>3 DEF Ordered, Tidy

\* In order are not only neighbours.
LEMMA AllOrdered ==
  ASSUME NEW h, Ordered(h), NEW i \in 1..Len(h), NEW j \in 1..Len(h), i < j
  PROVE  End(h[i]) <= h[j].h_base
<1>1. PICK S : S = {k \in 1..Len(h) : i < k /\ ~(End(h[i]) <= h[k].h_base)}
  OBVIOUS
<1>2. /\ Len(h) \in Nat
      /\ \A k \in 1..Len(h) : /\ h[k].h_base \in Nat /\ h[k].h_len \in Nat
                              /\ End(h[k]) = h[k].h_base + h[k].h_len
  BY OrderedHoles
<1>3. ASSUME S # {} PROVE FALSE
  <2>1. PICK k : k = Min(S)
    OBVIOUS
  <2>2. S \in SUBSET Nat
    BY <1>1, <1>2
  <2>3. k \in S /\ \A y \in S : k <= y
    BY <1>3, <2>1, <2>2, LeastNumber
  <2>4. PICK l : l = k - 1
    OBVIOUS
  <2>5. /\ l \in 1..(Len(h) - 1) /\ l \in 1..Len(h) /\ k = l + 1 /\ i <= l
        /\ l \notin S /\ k \in 1..Len(h)
    BY <1>1, <1>2, <2>3, <2>4
  <2>6. End(h[l]) <= h[k].h_base
    BY <2>5 DEF Ordered
  <2>7. l = i \/ End(h[i]) <= h[l].h_base
    BY <1>1, <2>5
  <2>8. End(h[i]) <= h[k].h_base
    <3>1. PICK a, b, c, d, e :
            a = End(h[i]) /\ b = h[l].h_base /\ c = h[l].h_len /\ d = End(h[l])
            /\ e = h[k].h_base
      OBVIOUS
    <3>2. a \in Nat /\ b \in Nat /\ c \in Nat /\ d = b + c /\ e \in Nat
      <4>1. /\ h[i].h_base \in Nat /\ h[i].h_len \in Nat
            /\ End(h[i]) = h[i].h_base + h[i].h_len
        BY <1>2
      <4>2. /\ h[l].h_base \in Nat /\ h[l].h_len \in Nat
            /\ End(h[l]) = h[l].h_base + h[l].h_len
        BY <1>2, <2>5
      <4>3. h[k].h_base \in Nat
        BY <1>2, <2>5
      <4>4. End(h[i]) \in Nat
        BY <4>1
      <4> QED
        BY <3>1, <4>2, <4>3, <4>4
    <3>3. d <= e /\ (a = d \/ a <= b)
      BY <2>6, <2>7, <3>1
    <3>4. a <= e
      BY <3>2, <3>3
    <3> QED
      BY <3>1, <3>4
  <2> QED
    BY <1>1, <2>3, <2>8
<1> QED
  BY <1>1, <1>3

\* The second part of a list
LEMMA SecondPart ==
  ASSUME NEW S, NEW x \in Seq(S), NEW y \in Seq(S), NEW i \in 1..Len(y)
  PROVE  (x \o y)[Len(x) + i] = y[i]
OBVIOUS

\* A list with hole i left out
LEMMA del_slotEffect ==
  ASSUME NEW h \in Seq(HoleSet), NEW i \in 1..Len(h), NEW g, g = del_slot(h, i)
  PROVE  /\ g \in Seq(HoleSet) /\ Len(g) = Len(h) - 1
         /\ \A j \in 1..Len(g) : g[j] = IF j < i THEN h[j] ELSE h[j + 1]
<1>1. PICK a, b : a = SubSeq(h, 1, i - 1) /\ b = SubSeq(h, i + 1, Len(h))
  OBVIOUS
<1>2. /\ a \in Seq(HoleSet) /\ Len(a) = i - 1
      /\ \A j \in 1..(i - 1) : a[j] = h[j]
  BY <1>1
<1>3. /\ b \in Seq(HoleSet) /\ Len(b) = Len(h) - i
      /\ \A j \in 1..(Len(h) - i) : b[j] = h[i + j]
  BY <1>1
<1>4. g = a \o b
  BY <1>1 DEF del_slot, RemoveAt
<1>5. PICK n : n = Len(h)
  OBVIOUS
<1>6. n \in Nat /\ i \in 1..n /\ g \in Seq(HoleSet) /\ Len(g) = n - 1
  <2>1. n \in Nat /\ i \in 1..n /\ Len(a) = i - 1 /\ Len(b) = n - i
    BY <1>2, <1>3, <1>5
  <2>2. g \in Seq(HoleSet) /\ Len(g) = Len(a) + Len(b)
    <3>1. a \in Seq(HoleSet) /\ b \in Seq(HoleSet)
      BY <1>2, <1>3
    <3> QED
      BY <1>4, <3>1
  <2> QED
    BY <2>1, <2>2
<1>7. ASSUME NEW j \in 1..(n - 1)
      PROVE  g[j] = IF j < i THEN h[j] ELSE h[j + 1]
  <2>1. CASE j < i
    <3>1. j \in 1..(i - 1)
      BY <1>6, <2>1
    <3> QED
      BY <1>2, <1>3, <1>4, <2>1, <3>1
  <2>2. CASE ~(j < i)
    <3>1. PICK k : k = j - (i - 1)
      OBVIOUS
    <3>2. k \in 1..(n - i) /\ i + k = j + 1 /\ j = Len(a) + k
      BY <1>2, <1>6, <2>2, <3>1
    <3>3. g[Len(a) + k] = b[k]
      <4>1. a \in Seq(HoleSet) /\ b \in Seq(HoleSet) /\ Len(b) = n - i
        BY <1>2, <1>3, <1>5
      <4>2. k \in 1..Len(b)
        BY <3>2, <4>1
      <4> QED
        BY <1>4, <4>1, <4>2, SecondPart
    <3> QED
      BY <1>3, <1>5, <2>2, <3>2, <3>3
  <2> QED
    BY <2>1, <2>2
<1> QED
  BY <1>5, <1>6, <1>7

\* In a tidy list, not only neighbours are separate.
LEMMA AllTidy ==
  ASSUME NEW h \in Seq(HoleSet), Tidy(h),
         NEW i \in 1..Len(h), NEW j \in 1..Len(h), i < j
  PROVE  End(h[i]) < h[j].h_base
<1>1. Ordered(h) /\ \A k \in 1..(Len(h) - 1) : End(h[k]) < h[k + 1].h_base
  BY TidyOrdered
<1>2. PICK n, k : n = Len(h) /\ k = i + 1
  OBVIOUS
<1>3. n \in Nat /\ i \in 1..(n - 1) /\ k \in 1..n /\ i \in 1..n /\ j \in 1..n
  BY <1>2
<1>4. End(h[i]) < h[k].h_base
  BY <1>1, <1>2, <1>3
<1>5. k = j \/ End(h[k]) <= h[j].h_base
  <2>1. CASE k = j
    BY <2>1
  <2>2. CASE k < j
    BY <1>1, <1>2, <1>3, <2>2, AllOrdered
  <2> QED
    BY <1>2, <1>3, <2>1, <2>2
<1>6. PICK a, b, c, d, e :
        a = End(h[i]) /\ b = h[k].h_base /\ c = h[k].h_len /\ d = End(h[k])
        /\ e = h[j].h_base
  OBVIOUS
<1>7. a \in Nat /\ b \in Nat /\ c \in Nat /\ d = b + c /\ e \in Nat
  BY <1>1, <1>2, <1>3, <1>6, OrderedHoles, HoleFields
<1>8. a < b /\ (b = e \/ d <= e)
  BY <1>4, <1>5, <1>6
<1>9. a < e
  BY <1>7, <1>8
<1> QED
  BY <1>6, <1>9

\* A click lies in one hole only.
LEMMA OneHole ==
  ASSUME NEW h \in Seq(HoleSet), Tidy(h), NEW x \in Nat,
         NEW i \in 1..Len(h), NEW j \in 1..Len(h),
         In(h[i].h_base, h[i].h_len, x), In(h[j].h_base, h[j].h_len, x)
  PROVE  i = j
<1>1. ASSUME NEW k \in 1..Len(h), NEW l \in 1..Len(h), k < l,
             In(h[k].h_base, h[k].h_len, x), In(h[l].h_base, h[l].h_len, x)
      PROVE  FALSE
  <2>1. End(h[k]) < h[l].h_base
    BY <1>1, AllTidy
  <2>2. h[k] \in HoleSet /\ h[l] \in HoleSet
    OBVIOUS
  <2>3. PICK a, b, c, d : a = h[k].h_base /\ b = h[k].h_len /\ c = End(h[k])
                          /\ d = h[l].h_base
    OBVIOUS
  <2>4. a \in Nat /\ b \in Nat /\ c = a + b /\ d \in Nat
    BY <2>2, <2>3, HoleFields
  <2>5. x < a + b /\ d <= x /\ c < d
    BY <1>1, <2>1, <2>3 DEF In
  <2> QED
    BY <2>4, <2>5
<1>2. i < j \/ j < i \/ i = j
  OBVIOUS
<1> QED
  BY <1>1, <1>2

\* del_slot takes the clicks of one hole out of the list.
LEMMA del_slotKeeps ==
  ASSUME NEW h \in Seq(HoleSet), Tidy(h), NEW i \in 1..Len(h),
         NEW g, g = del_slot(h, i)
  PROVE  /\ g \in Seq(HoleSet) /\ Tidy(g) /\ Len(g) = Len(h) - 1
         /\ \A x \in Nat :
              Holds(g, x) <=> Holds(h, x) /\ ~In(h[i].h_base, h[i].h_len, x)
<1>1. PICK n : n = Len(h)
  OBVIOUS
<1>2. /\ n \in Nat /\ i \in 1..n /\ DOMAIN h = 1..n
      /\ g \in Seq(HoleSet) /\ Len(g) = n - 1 /\ DOMAIN g = 1..(n - 1)
      /\ \A j \in 1..(n - 1) : g[j] = IF j < i THEN h[j] ELSE h[j + 1]
  <2>1. n \in Nat /\ i \in 1..n /\ DOMAIN h = 1..n
    BY <1>1
  <2>2. /\ g \in Seq(HoleSet) /\ Len(g) = Len(h) - 1
        /\ \A j \in 1..Len(g) : g[j] = IF j < i THEN h[j] ELSE h[j + 1]
    BY del_slotEffect
  <2>3. DOMAIN g = 1..Len(g)
    BY <2>2
  <2> QED
    BY <1>1, <2>1, <2>2, <2>3
<1>3. \A j \in 1..n : h[j].h_len > 0
  BY <1>2 DEF Tidy
<1>4. \A j \in 1..(n - 1) : g[j].h_len > 0
  <2> TAKE j \in 1..(n - 1)
  <2>1. g[j] = h[j] \/ g[j] = h[j + 1]
    BY <1>2
  <2>2. j \in 1..n /\ j + 1 \in 1..n
    BY <1>2
  <2> QED
    BY <1>3, <2>1, <2>2
<1>5. \A j \in 1..(n - 2) : End(g[j]) < g[j + 1].h_base
  <2> TAKE j \in 1..(n - 2)
  <2>1. PICK k, l : k = (IF j < i THEN j ELSE j + 1)
                    /\ l = (IF j + 1 < i THEN j + 1 ELSE j + 2)
    OBVIOUS
  <2>2. k \in 1..n /\ l \in 1..n /\ k < l
    BY <1>2, <2>1
  <2>3. j \in 1..(n - 1) /\ j + 1 \in 1..(n - 1)
    BY <1>2
  <2>4. g[j] = h[k] /\ g[j + 1] = h[l]
    BY <1>2, <2>1, <2>3
  <2>5. End(h[k]) < h[l].h_base
    BY <1>1, <2>2, AllTidy
  <2> QED
    BY <2>4, <2>5
<1>6. Tidy(g)
  BY <1>2, <1>4, <1>5 DEF Tidy
<1>7. ASSUME NEW x \in Nat
      PROVE  Holds(g, x) <=> Holds(h, x) /\ ~In(h[i].h_base, h[i].h_len, x)
  <2>1. ASSUME Holds(g, x)
        PROVE  Holds(h, x) /\ ~In(h[i].h_base, h[i].h_len, x)
    <3>1. PICK j \in 1..(n - 1) : In(g[j].h_base, g[j].h_len, x)
      BY <1>2, <2>1 DEF Holds
    <3>2. PICK k \in 1..n : k # i /\ g[j] = h[k]
      BY <1>2
    <3> QED
      BY <1>1, <1>2, <3>1, <3>2, OneHole DEF Holds
  <2>2. ASSUME Holds(h, x), ~In(h[i].h_base, h[i].h_len, x)
        PROVE  Holds(g, x)
    <3>1. PICK k \in 1..n : In(h[k].h_base, h[k].h_len, x)
      BY <1>2, <2>2 DEF Holds
    <3>2. k # i
      BY <2>2, <3>1
    <3>3. PICK j \in 1..(n - 1) : g[j] = h[k]
      <4>1. CASE k < i
        <5>1. k \in 1..(n - 1)
          BY <1>2, <4>1
        <5> QED
          BY <1>2, <4>1, <5>1
      <4>2. CASE k > i
        <5>1. k - 1 \in 1..(n - 1) /\ ~(k - 1 < i) /\ (k - 1) + 1 = k
          BY <1>2, <4>2
        <5> QED
          BY <1>2, <5>1
      <4> QED
        BY <1>2, <3>2, <4>1, <4>2
    <3> QED
      BY <1>2, <3>1, <3>3 DEF Holds
  <2> QED
    BY <2>1, <2>2
<1> QED
  BY <1>1, <1>2, <1>6, <1>7

\* The greatest of a set of numbers up to N is one of them.
LEMMA GreatestNumber ==
  ASSUME NEW N \in Nat, NEW S \in SUBSET (0..N), S # {}
  PROVE  \E x \in S : \A y \in S : y <= x
<1>1. PICK R : R = {k \in 0..N : N - k \in S}
  OBVIOUS
<1>2. PICK y \in S : TRUE
  OBVIOUS
<1>3. N - y \in 0..N /\ N - (N - y) = y
  BY <1>2
<1>4. R # {} /\ R \in SUBSET Nat
  BY <1>1, <1>2, <1>3
<1>5. Min(R) \in R /\ \A k \in R : Min(R) <= k
  BY <1>4, LeastNumber
<1>6. PICK m : m = Min(R)
  OBVIOUS
<1>7. m \in 0..N /\ N - m \in S /\ \A k \in R : m <= k
  BY <1>1, <1>5, <1>6
<1>8. ASSUME NEW z \in S PROVE z <= N - m
  <2>1. z \in 0..N /\ N - z \in 0..N /\ N - (N - z) = z
    OBVIOUS
  <2>2. N - z \in R
    BY <1>1, <2>1
  <2>3. m <= N - z
    BY <1>7, <2>2
  <2> QED
    BY <1>7, <2>1, <2>3
<1> QED
  BY <1>7, <1>8
-----------------------------------------------------------------------------
(* Freeing memory *)

\* Behind hole j of g there is a gap.
Gap(g, j) == End(g[j]) < g[j + 1].h_base

\* g is h with the hole hp put in as number k.
Spliced(g, h, k, hp) ==
  /\ g \in Seq(HoleSet) /\ Len(g) = Len(h) + 1
  /\ \A j \in 1..Len(g) :
       g[j] = IF j < k THEN h[j] ELSE IF j = k THEN hp ELSE h[j - 1]

\* Two lists, one behind the other
LEMMA Joined ==
  ASSUME NEW a \in Seq(HoleSet), NEW b \in Seq(HoleSet)
  PROVE  /\ a \o b \in Seq(HoleSet) /\ Len(a \o b) = Len(a) + Len(b)
         /\ \A j \in 1..Len(a) : (a \o b)[j] = a[j]
         /\ \A j \in 1..Len(b) : (a \o b)[Len(a) + j] = b[j]
OBVIOUS

\* What InsertAt does
LEMMA InsertAtEffect ==
  ASSUME NEW h \in Seq(HoleSet), NEW k \in 1..(Len(h) + 1), NEW hp \in HoleSet
  PROVE  Spliced(InsertAt(h, k, hp), h, k, hp)
<1>1. PICK a, b, o, n : a = SubSeq(h, 1, k - 1) /\ b = SubSeq(h, k, Len(h))
                        /\ o = <<hp>> /\ n = Len(h)
  OBVIOUS
<1>2. /\ n \in Nat /\ k \in 1..(n + 1)
      /\ a \in Seq(HoleSet) /\ Len(a) = k - 1
      /\ \A j \in 1..(k - 1) : a[j] = h[j]
  BY <1>1
<1>3. /\ b \in Seq(HoleSet) /\ Len(b) = n - k + 1
      /\ \A j \in 1..(n - k + 1) : b[j] = h[k + j - 1]
  BY <1>1
<1>4. o \in Seq(HoleSet) /\ Len(o) = 1 /\ o[1] = hp
  BY <1>1
<1>5. PICK c : c = a \o o
  OBVIOUS
<1>6. /\ c \in Seq(HoleSet) /\ Len(c) = k /\ c[k] = hp
      /\ \A j \in 1..(k - 1) : c[j] = h[j]
  <2>1. c \in Seq(HoleSet) /\ Len(c) = Len(a) + Len(o)
    BY <1>2, <1>4, <1>5, Joined
  <2>2. Len(c) = k
    BY <1>2, <1>4, <2>1
  <2>3. \A j \in 1..(k - 1) : c[j] = a[j]
    BY <1>2, <1>4, <1>5, <2>2
  <2>4. c[k] = o[1]
    <3>1. c[Len(a) + 1] = o[1]
      <4>1. 1 \in 1..Len(o) /\ a \in Seq(HoleSet) /\ o \in Seq(HoleSet)
        BY <1>2, <1>4
      <4> QED
        BY <1>5, <4>1, Joined
    <3>2. Len(a) + 1 = k
      BY <1>2
    <3> QED
      BY <3>1, <3>2
  <2> QED
    BY <1>2, <1>4, <2>1, <2>2, <2>3, <2>4
<1>7. PICK g : g = c \o b
  OBVIOUS
<1>8. InsertAt(h, k, hp) = g
  BY <1>1, <1>5, <1>7 DEF InsertAt
<1>9. g \in Seq(HoleSet) /\ Len(g) = n + 1
  <2>1. g \in Seq(HoleSet) /\ Len(g) = Len(c) + Len(b)
    <3>1. c \in Seq(HoleSet) /\ b \in Seq(HoleSet)
      BY <1>3, <1>6
    <3> QED
      BY <1>7, <3>1
  <2> QED
    BY <1>2, <1>3, <1>6, <2>1
<1>10. ASSUME NEW j \in 1..(n + 1)
       PROVE  g[j] = IF j < k THEN h[j] ELSE IF j = k THEN hp ELSE h[j - 1]
  <2>1. CASE j < k \/ j = k
    <3>1. j \in 1..k
      BY <1>2, <2>1
    <3>2. g[j] = c[j]
      BY <1>3, <1>6, <1>7, <3>1
    <3>3. j = k \/ j \in 1..(k - 1)
      BY <1>2, <3>1
    <3> QED
      BY <1>2, <1>6, <3>2, <3>3
  <2>2. CASE k < j
    <3>1. PICK l : l = j - k
      OBVIOUS
    <3>2. l \in 1..(n - k + 1) /\ k + l - 1 = j - 1 /\ j = Len(c) + l
      BY <1>2, <1>6, <2>2, <3>1
    <3>3. g[Len(c) + l] = b[l]
      <4>1. l \in 1..Len(b) /\ b \in Seq(HoleSet) /\ c \in Seq(HoleSet)
        BY <1>3, <1>6, <3>2
      <4> QED
        BY <1>7, <4>1, Joined
    <3>4. ~(j < k) /\ j # k
      BY <1>2, <2>2
    <3> QED
      BY <1>3, <3>2, <3>3, <3>4
  <2> QED
    BY <1>2, <2>1, <2>2
<1> QED
  BY <1>1, <1>8, <1>9, <1>10 DEF Spliced

\* What a hole in front of the list does
LEMMA FrontEffect ==
  ASSUME NEW h \in Seq(HoleSet), NEW hp \in HoleSet
  PROVE  Spliced(<<hp>> \o h, h, 1, hp)
<1>1. PICK o, g, n : o = <<hp>> /\ g = o \o h /\ n = Len(h)
  OBVIOUS
<1>2. o \in Seq(HoleSet) /\ Len(o) = 1 /\ o[1] = hp /\ n \in Nat
  BY <1>1
<1>3. g \in Seq(HoleSet) /\ Len(g) = n + 1
  BY <1>1, <1>2
<1>4. g[1] = hp
  BY <1>1, <1>2
<1>5. ASSUME NEW j \in 2..(n + 1) PROVE g[j] = h[j - 1]
  <2>1. j - 1 \in 1..n /\ j = Len(o) + (j - 1)
    BY <1>2
  <2>2. g[Len(o) + (j - 1)] = h[j - 1]
    BY <1>1, <1>2, <2>1
  <2> QED
    BY <2>1, <2>2
<1>6. ASSUME NEW j \in 1..(n + 1)
      PROVE  g[j] = IF j < 1 THEN h[j] ELSE IF j = 1 THEN hp ELSE h[j - 1]
  <2>1. ~(j < 1) /\ (j = 1 \/ j \in 2..(n + 1))
    BY <1>2
  <2> QED
    BY <1>4, <1>5, <2>1
<1> QED
  BY <1>1, <1>3, <1>6 DEF Spliced

\* A block put in between its neighbours leaves the list in order, with a gap
\* wherever there was one.
LEMMA SplicedKeeps ==
  ASSUME NEW h \in Seq(HoleSet), Tidy(h), NEW k \in 1..(Len(h) + 1),
         NEW hp \in HoleSet, hp.h_len > 0,
         k > 1 => End(h[k - 1]) <= hp.h_base,
         k <= Len(h) => End(hp) <= h[k].h_base,
         NEW g, Spliced(g, h, k, hp)
  PROVE  /\ Ordered(g)
         /\ \A j \in 1..(Len(g) - 1) : j + 1 # k /\ j # k => Gap(g, j)
         /\ \A x \in Nat : Holds(g, x) <=>
                           Holds(h, x) \/ In(hp.h_base, hp.h_len, x)
<1>1. PICK n : n = Len(h)
  OBVIOUS
<1>2. /\ n \in Nat /\ k \in 1..(n + 1) /\ DOMAIN h = 1..n /\ DOMAIN g = 1..(n + 1)
      /\ g \in Seq(HoleSet) /\ Len(g) = n + 1
      /\ \A j \in 1..(n + 1) :
           g[j] = IF j < k THEN h[j] ELSE IF j = k THEN hp ELSE h[j - 1]
  <2>1. g \in Seq(HoleSet) /\ Len(g) = Len(h) + 1
    BY DEF Spliced
  <2>2. n \in Nat /\ DOMAIN h = 1..n /\ DOMAIN g = 1..Len(g)
    BY <1>1, <2>1
  <2>3. \A j \in 1..Len(g) :
           g[j] = IF j < k THEN h[j] ELSE IF j = k THEN hp ELSE h[j - 1]
    BY DEF Spliced
  <2> QED
    BY <1>1, <2>1, <2>2, <2>3
<1>3. /\ \A j \in 1..n : h[j].h_len > 0
      /\ \A j \in 1..(n - 1) : End(h[j]) < h[j + 1].h_base
      /\ \A j \in 1..(n - 1) : End(h[j]) <= h[j + 1].h_base
  <2>1. Ordered(h) /\ \A j \in 1..(n - 1) : End(h[j]) < h[j + 1].h_base
    BY <1>1, TidyOrdered
  <2>2. (\A j \in DOMAIN h : h[j].h_len > 0)
        /\ \A j \in 1..(n - 1) : End(h[j]) <= h[j + 1].h_base
    BY <1>1, <2>1 DEF Ordered
  <2> QED
    BY <1>2, <2>1, <2>2
<1>4. \A j \in DOMAIN g : g[j].h_len > 0
  <2> TAKE j \in DOMAIN g
  <2>1. j \in 1..(n + 1)
    BY <1>2
  <2>2. CASE j < k
    <3>1. j \in 1..n /\ g[j] = h[j]
      BY <1>2, <2>1, <2>2
    <3> QED
      BY <1>3, <3>1
  <2>3. CASE j = k
    BY <1>2, <2>1, <2>3
  <2>4. CASE j > k
    <3>1. j - 1 \in 1..n /\ ~(j < k) /\ j # k
      BY <1>2, <2>1, <2>4
    <3> QED
      BY <1>2, <1>3, <2>1, <3>1
  <2> QED
    BY <1>2, <2>1, <2>2, <2>3, <2>4
<1>5. ASSUME NEW j \in 1..n
      PROVE  /\ End(g[j]) <= g[j + 1].h_base
             /\ j + 1 # k /\ j # k => End(g[j]) < g[j + 1].h_base
  <2>0. j \in 1..(n + 1) /\ j + 1 \in 1..(n + 1) /\ (j + 1) - 1 = j
    BY <1>2
  <2>1. CASE j + 1 < k
    <3>1. j < k /\ j \in 1..(n - 1)
      BY <1>2, <2>1
    <3>2. g[j] = h[j] /\ g[j + 1] = h[j + 1]
      BY <1>2, <2>0, <2>1, <3>1
    <3> QED
      BY <1>3, <3>1, <3>2
  <2>2. CASE j + 1 = k
    <3>1. j < k /\ j = k - 1 /\ k > 1
      BY <1>2, <2>2
    <3>2. g[j] = h[k - 1] /\ g[j + 1] = hp
      BY <1>2, <2>0, <2>2, <3>1
    <3> QED
      BY <2>2, <3>1, <3>2
  <2>3. CASE j = k
    <3>1. ~(j + 1 < k) /\ j + 1 # k /\ ~(j < k) /\ k <= Len(h)
      BY <1>1, <1>2, <2>3
    <3>2. g[j] = hp /\ g[j + 1] = h[k]
      BY <1>2, <2>0, <2>3, <3>1
    <3> QED
      BY <2>3, <3>1, <3>2
  <2>4. CASE j > k
    <3>1. ~(j + 1 < k) /\ j + 1 # k /\ ~(j < k) /\ j # k /\ j - 1 \in 1..(n - 1)
          /\ (j - 1) + 1 = j
      BY <1>2, <2>4
    <3>2. g[j] = h[j - 1] /\ g[j + 1] = h[(j - 1) + 1]
      BY <1>2, <2>0, <3>1
    <3>3. End(h[j - 1]) < h[(j - 1) + 1].h_base
          /\ End(h[j - 1]) <= h[(j - 1) + 1].h_base
      BY <1>3, <3>1
    <3> QED
      BY <3>2, <3>3
  <2> QED
    BY <1>2, <2>1, <2>2, <2>3, <2>4
<1>6. Ordered(g) /\ \A j \in 1..(Len(g) - 1) : j + 1 # k /\ j # k => Gap(g, j)
  <2>1. Len(g) - 1 = n
    BY <1>2
  <2> QED
    BY <1>2, <1>4, <1>5, <2>1 DEF Ordered, Gap
<1>7. ASSUME NEW x \in Nat
      PROVE  Holds(g, x) <=> Holds(h, x) \/ In(hp.h_base, hp.h_len, x)
  <2>1. ASSUME Holds(g, x)
        PROVE  Holds(h, x) \/ In(hp.h_base, hp.h_len, x)
    <3>1. PICK j \in 1..(n + 1) : In(g[j].h_base, g[j].h_len, x)
      BY <1>2, <2>1 DEF Holds
    <3>2. g[j] = hp \/ \E l \in 1..n : g[j] = h[l]
      <4>1. j < k => j \in 1..n
        BY <1>2
      <4>2. ~(j < k) /\ j # k => j - 1 \in 1..n
        BY <1>2
      <4> QED
        BY <1>2, <4>1, <4>2
    <3> QED
      BY <1>2, <3>1, <3>2 DEF Holds
  <2>2. ASSUME Holds(h, x) PROVE Holds(g, x)
    <3>1. PICK l \in 1..n : In(h[l].h_base, h[l].h_len, x)
      BY <1>2, <2>2 DEF Holds
    <3>2. PICK j \in 1..(n + 1) : g[j] = h[l]
      <4>1. CASE l < k
        <5>1. l \in 1..(n + 1)
          BY <1>2
        <5> QED
          BY <1>2, <4>1, <5>1
      <4>2. CASE ~(l < k)
        <5>1. l + 1 \in 1..(n + 1) /\ ~(l + 1 < k) /\ l + 1 # k /\ (l + 1) - 1 = l
          BY <1>2, <4>2
        <5> QED
          BY <1>2, <5>1
      <4> QED
        BY <4>1, <4>2
    <3> QED
      BY <1>2, <3>1, <3>2 DEF Holds
  <2>3. ASSUME In(hp.h_base, hp.h_len, x) PROVE Holds(g, x)
    <3>1. k \in 1..(n + 1) /\ g[k] = hp
      BY <1>2
    <3> QED
      BY <1>2, <2>3, <3>1 DEF Holds
  <2> QED
    BY <2>1, <2>2, <2>3
<1> QED
  BY <1>6, <1>7

\* What Absorb makes of two contiguous holes
LEMMA AbsorbEffect ==
  ASSUME NEW h \in Seq(HoleSet), NEW i \in 1..(Len(h) - 1), Contiguous(h, i),
         NEW g, g = Absorb(h, i)
  PROVE  /\ g \in Seq(HoleSet) /\ Len(g) = Len(h) - 1
         /\ \A j \in 1..Len(g) :
              /\ j < i => g[j] = h[j]
              /\ j = i => g[j] = Hole(h[i].h_base, h[i].h_len + h[i + 1].h_len)
              /\ j > i => g[j] = h[j + 1]
<1>1. PICK n, c : n = Len(h) /\ c = h[i].h_len + h[i + 1].h_len
  OBVIOUS
<1>2. PICK e : e = [h EXCEPT ![i].h_len = c]
  OBVIOUS
<1>3. n \in Nat /\ i \in 1..(n - 1) /\ i \in 1..n /\ i + 1 \in 1..n /\ c \in Nat
  <2>1. n \in Nat /\ i \in 1..(n - 1) /\ i \in 1..n /\ i + 1 \in 1..n
    BY <1>1
  <2>2. h[i] \in HoleSet /\ h[i + 1] \in HoleSet
    BY <1>1, <2>1
  <2>3. h[i].h_len \in Nat /\ h[i + 1].h_len \in Nat
    BY <2>2, HoleFields
  <2>4. c \in Nat
    BY <1>1, <2>3
  <2> QED
    BY <2>1, <2>4
<1>4. g = del_slot(e, i + 1)
  BY <1>1, <1>2 DEF Absorb
<1>5. PICK hp : hp = Hole(h[i].h_base, c)
  OBVIOUS
<1>6. hp \in HoleSet /\ [h[i] EXCEPT !.h_len = c] = hp
  <2>1. PICK v : v = h[i]
    OBVIOUS
  <2>2. v \in HoleSet
    BY <1>1, <1>3, <2>1
  <2>3. hp \in HoleSet
    BY <1>3, <1>5, <2>1, <2>2, HoleFields
  <2>4. [v EXCEPT !.h_len = c] = Hole(v.h_base, c)
    BY <2>2 DEF Hole, HoleSet
  <2> QED
    BY <1>5, <2>1, <2>3, <2>4
<1>7. e = [h EXCEPT ![i] = hp]
  BY <1>1, <1>2, <1>3, <1>6
<1>8. /\ e \in Seq(HoleSet) /\ Len(e) = n
      /\ \A j \in 1..n : e[j] = IF j = i THEN hp ELSE h[j]
  BY <1>1, <1>3, <1>6, <1>7
<1>9. /\ g \in Seq(HoleSet) /\ Len(g) = n - 1
      /\ \A j \in 1..(n - 1) : g[j] = IF j < i + 1 THEN e[j] ELSE e[j + 1]
  <2>1. i + 1 \in 1..Len(e)
    BY <1>3, <1>8
  <2>2. /\ g \in Seq(HoleSet) /\ Len(g) = Len(e) - 1
        /\ \A j \in 1..Len(g) : g[j] = IF j < i + 1 THEN e[j] ELSE e[j + 1]
    BY <1>4, <1>8, <2>1, del_slotEffect
  <2> QED
    BY <1>8, <2>2
<1>10. ASSUME NEW j \in 1..(n - 1)
       PROVE  /\ j < i => g[j] = h[j]
              /\ j = i => g[j] = hp
              /\ j > i => g[j] = h[j + 1]
  <2>1. /\ j \in 1..n /\ j + 1 \in 1..n
        /\ j < i => j < i + 1 /\ j # i
        /\ j = i => j < i + 1
        /\ j > i => ~(j < i + 1) /\ j + 1 # i
    BY <1>3
  <2> QED
    BY <1>8, <1>9, <2>1
<1> QED
  BY <1>1, <1>5, <1>9, <1>10

\* Absorb changes no click, and opens no joint: it keeps the gaps there are.
LEMMA AbsorbKeeps ==
  ASSUME NEW h, Ordered(h), NEW i \in Nat \ {0}, NEW g, g = Absorb(h, i)
  PROVE  /\ Ordered(g)
         /\ \A x \in Nat : Holds(g, x) <=> Holds(h, x)
         /\ Contiguous(h, i) =>
              /\ i \in 1..(Len(h) - 1) /\ Len(g) = Len(h) - 1
              /\ \A j \in 1..(Len(g) - 1) :
                   /\ j < i /\ Gap(h, j) => Gap(g, j)
                   /\ j >= i /\ Gap(h, j + 1) => Gap(g, j)
         /\ ~Contiguous(h, i) => g = h /\ (i < Len(h) => Gap(h, i))
<1>1. PICK n : n = Len(h)
  OBVIOUS
<1>2. /\ n \in Nat /\ h \in Seq(HoleSet) /\ DOMAIN h = 1..n
      /\ \A j \in 1..n : /\ h[j] \in HoleSet /\ h[j].h_base \in Nat
                         /\ h[j].h_len \in Nat /\ h[j].h_len > 0
                         /\ End(h[j]) = h[j].h_base + h[j].h_len
  BY <1>1, OrderedHoles DEF Ordered
<1>3. \A j \in 1..(n - 1) : End(h[j]) <= h[j + 1].h_base
  BY <1>1 DEF Ordered
<1>4. CASE ~Contiguous(h, i)
  <2>1. g = h
    BY <1>4 DEF Absorb
  <2>2. ASSUME i < n PROVE Gap(h, i)
    <3>1. i \in 1..n /\ i + 1 \in 1..n /\ i \in 1..(n - 1)
      BY <1>2, <2>2
    <3>2. End(h[i]) # h[i + 1].h_base
      BY <1>1, <1>4, <2>2 DEF Contiguous
    <3>3. PICK a, b, c, d : a = h[i].h_base /\ b = h[i].h_len /\ c = End(h[i])
                            /\ d = h[i + 1].h_base
      OBVIOUS
    <3>4. a \in Nat /\ b \in Nat /\ c = a + b /\ d \in Nat /\ c <= d /\ c # d
      BY <1>2, <1>3, <3>1, <3>2, <3>3
    <3>5. c < d
      BY <3>4
    <3> QED
      BY <3>3, <3>5 DEF Gap
  <2> QED
    BY <1>1, <1>4, <2>1, <2>2
<1>5. CASE Contiguous(h, i)
  <2>1. /\ i \in 1..(n - 1) /\ i \in 1..n /\ i + 1 \in 1..n
        /\ End(h[i]) = h[i + 1].h_base
    <3>1. i < n /\ End(h[i]) = h[i + 1].h_base
      BY <1>1, <1>5 DEF Contiguous
    <3> QED
      BY <1>2, <3>1
  <2>2. PICK b, c, d, hp : b = h[i].h_base /\ c = h[i].h_len /\ d = h[i + 1].h_len
                           /\ hp = Hole(b, c + d)
    OBVIOUS
  <2>3. /\ b \in Nat /\ c \in Nat /\ d \in Nat /\ c > 0 /\ d > 0
        /\ h[i + 1].h_base = b + c /\ End(h[i + 1]) = b + c + d
    BY <1>2, <2>1, <2>2
  <2>4. /\ hp \in HoleSet /\ hp.h_base = b /\ hp.h_len = c + d
        /\ End(hp) = b + c + d
    BY <2>2, <2>3 DEF HoleSet, Hole, End
  <2>5. /\ g \in Seq(HoleSet) /\ Len(g) = n - 1 /\ DOMAIN g = 1..(n - 1)
        /\ \A j \in 1..(n - 1) :
             /\ j < i => g[j] = h[j]
             /\ j = i => g[j] = hp
             /\ j > i => g[j] = h[j + 1]
    <3>1. /\ g \in Seq(HoleSet) /\ Len(g) = Len(h) - 1
          /\ \A j \in 1..Len(g) :
               /\ j < i => g[j] = h[j]
               /\ j = i => g[j] = Hole(h[i].h_base, h[i].h_len + h[i + 1].h_len)
               /\ j > i => g[j] = h[j + 1]
      <4>1. h \in Seq(HoleSet) /\ i \in 1..(Len(h) - 1)
        BY <1>1, <1>2, <2>1
      <4> QED
        BY <1>5, <4>1, AbsorbEffect
    <3>2. DOMAIN g = 1..Len(g)
      BY <3>1
    <3> QED
      BY <1>1, <2>2, <3>1, <3>2
  <2>6. \A j \in DOMAIN g : g[j].h_len > 0
    <3> TAKE j \in DOMAIN g
    <3>1. j \in 1..(n - 1) /\ j \in 1..n /\ j + 1 \in 1..n
      BY <1>2, <2>5
    <3>2. g[j] = h[j] \/ g[j] = hp \/ g[j] = h[j + 1]
      BY <2>1, <2>5, <3>1
    <3>3. hp.h_len > 0
      BY <2>3, <2>4
    <3> QED
      BY <1>2, <3>1, <3>2, <3>3
  <2>7. ASSUME NEW j \in 1..(n - 2)
        PROVE  /\ j < i => End(g[j]) = End(h[j]) /\ g[j + 1].h_base = h[j + 1].h_base
               /\ j >= i => /\ End(g[j]) = End(h[j + 1])
                            /\ g[j + 1].h_base = h[(j + 1) + 1].h_base
    <3>1. j \in 1..(n - 1) /\ j + 1 \in 1..(n - 1)
      BY <1>2
    <3>2. CASE j < i
      <4>1. g[j] = h[j] /\ (j + 1 < i \/ j + 1 = i)
        BY <2>1, <2>5, <3>1, <3>2
      <4>2. g[j + 1].h_base = h[j + 1].h_base
        BY <2>2, <2>4, <2>5, <3>1, <4>1
      <4> QED
        BY <2>1, <3>2, <4>1, <4>2
    <3>3. CASE j >= i
      <4>1. j + 1 > i /\ (j = i \/ j > i) /\ ~(j < i)
        BY <2>1, <3>3
      <4>2. g[j + 1] = h[(j + 1) + 1]
        BY <2>5, <3>1, <4>1
      <4>3. End(g[j]) = End(h[j + 1])
        BY <2>3, <2>4, <2>5, <3>1, <4>1
      <4> QED
        BY <4>1, <4>2, <4>3
    <3> QED
      BY <2>1, <3>2, <3>3
  <2>8. \A j \in 1..(n - 2) : End(g[j]) <= g[j + 1].h_base
    <3> TAKE j \in 1..(n - 2)
    <3>1. j \in 1..(n - 1) /\ j + 1 \in 1..(n - 1) /\ (j < i \/ j >= i)
      BY <1>2, <2>1
    <3> QED
      BY <1>3, <2>7, <3>1
  <2>9. Ordered(g)
    <3>1. Len(g) - 1 = n - 2
      BY <1>2, <2>5
    <3> QED
      BY <2>5, <2>6, <2>8, <3>1 DEF Ordered
  <2>10. \A j \in 1..(Len(g) - 1) : /\ j < i /\ Gap(h, j) => Gap(g, j)
                                    /\ j >= i /\ Gap(h, j + 1) => Gap(g, j)
    <3>1. Len(g) - 1 = n - 2
      BY <1>2, <2>5
    <3> QED
      BY <2>7, <3>1 DEF Gap
  <2>11. \A x \in Nat : In(b, c + d, x) <=> In(b, c, x) \/ In(b + c, d, x)
    BY <2>3 DEF In
  <2>12. ASSUME NEW x \in Nat PROVE Holds(g, x) <=> Holds(h, x)
    <3>1. ASSUME Holds(g, x) PROVE Holds(h, x)
      <4>1. PICK j \in 1..(n - 1) : In(g[j].h_base, g[j].h_len, x)
        BY <2>5, <3>1 DEF Holds
      <4>2. CASE j = i
        <5>1. In(b, c, x) \/ In(b + c, d, x)
          BY <2>4, <2>5, <2>11, <4>1, <4>2
        <5> QED
          BY <1>2, <2>1, <2>2, <2>3, <5>1 DEF Holds
      <4>3. CASE j # i
        <5>1. j \in 1..n /\ j + 1 \in 1..n /\ (j < i \/ j > i)
          BY <1>2, <2>1, <4>3
        <5>2. g[j] = h[j] \/ g[j] = h[j + 1]
          BY <2>5, <5>1
        <5> QED
          BY <1>2, <4>1, <5>1, <5>2 DEF Holds
      <4> QED
        BY <4>2, <4>3
    <3>2. ASSUME Holds(h, x) PROVE Holds(g, x)
      <4>1. PICK j \in 1..n : In(h[j].h_base, h[j].h_len, x)
        BY <1>2, <3>2 DEF Holds
      <4>2. CASE j = i \/ j = i + 1
        <5>1. In(b, c + d, x)
          BY <2>2, <2>3, <2>11, <4>1, <4>2
        <5>2. i \in DOMAIN g /\ g[i] = hp
          BY <2>1, <2>5
        <5> QED
          BY <2>4, <5>1, <5>2 DEF Holds
      <4>3. CASE j < i
        <5>1. j \in 1..(n - 1)
          BY <1>2, <2>1, <4>3
        <5> QED
          BY <2>5, <4>1, <4>3, <5>1 DEF Holds
      <4>4. CASE j > i + 1
        <5>1. PICK k : k = j - 1
          OBVIOUS
        <5>2. k \in 1..(n - 1) /\ k > i /\ k + 1 = j
          BY <1>2, <2>1, <4>4, <5>1
        <5>3. g[k] = h[j]
          BY <2>5, <5>2
        <5> QED
          BY <2>5, <4>1, <5>2, <5>3 DEF Holds
      <4>5. j = i \/ j = i + 1 \/ j < i \/ j > i + 1
        BY <1>2, <2>1
      <4> QED
        BY <4>2, <4>3, <4>4, <4>5
    <3> QED
      BY <3>1, <3>2
  <2> QED
    BY <1>1, <1>5, <2>1, <2>5, <2>9, <2>10, <2>12
<1> QED
  BY <1>4, <1>5

\* merge leaves a tidy list, when every joint but two has a gap.
LEMMA mergeTidies ==
  ASSUME NEW h, Ordered(h), NEW i \in Nat \ {0},
         \A j \in 1..(Len(h) - 1) : j # i /\ j # i + 1 => Gap(h, j),
         NEW g, g = merge(h, i)
  PROVE  /\ g \in Seq(HoleSet) /\ Tidy(g)
         /\ \A x \in Nat : Holds(g, x) <=> Holds(h, x)
<1>1. \A k : Ordered(k) /\ (\A j \in 1..(Len(k) - 1) : Gap(k, j)) =>
             k \in Seq(HoleSet) /\ Tidy(k)
  BY DEF Ordered, Tidy, Gap
<1>2. i + 1 \in Nat \ {0} /\ Len(h) \in Nat
  BY DEF Ordered
<1>3. CASE ~Contiguous(h, i)
  <2>1. g = Absorb(h, i + 1) /\ (i < Len(h) => Gap(h, i))
    BY <1>3, AbsorbKeeps DEF merge
  <2>2. Ordered(g) /\ \A x \in Nat : Holds(g, x) <=> Holds(h, x)
    BY <1>2, <2>1, AbsorbKeeps
  <2>3. CASE ~Contiguous(h, i + 1)
    <3>1. g = h /\ (i + 1 < Len(h) => Gap(h, i + 1))
      BY <1>2, <2>1, <2>3, AbsorbKeeps
    <3>2. \A j \in 1..(Len(h) - 1) : j < Len(h)
      BY <1>2
    <3>3. \A j \in 1..(Len(h) - 1) : Gap(h, j)
      BY <2>1, <3>1, <3>2
    <3> QED
      BY <1>1, <2>2, <3>1, <3>3
  <2>4. CASE Contiguous(h, i + 1)
    <3>1. /\ i + 1 \in 1..(Len(h) - 1) /\ Len(g) = Len(h) - 1
          /\ \A j \in 1..(Len(g) - 1) :
               /\ j < i + 1 /\ Gap(h, j) => Gap(g, j)
               /\ j >= i + 1 /\ Gap(h, j + 1) => Gap(g, j)
      BY <1>2, <2>1, <2>4, AbsorbKeeps
    <3>2. Gap(h, i)
      BY <1>2, <2>1, <3>1
    <3>3. ASSUME NEW j \in 1..(Len(g) - 1) PROVE Gap(g, j)
      <4>1. /\ j \in 1..(Len(h) - 1) /\ j + 1 \in 1..(Len(h) - 1)
            /\ j < i + 1 => j # i + 1
            /\ j >= i + 1 => j + 1 # i /\ j + 1 # i + 1
            /\ j < i + 1 \/ j >= i + 1
        BY <1>2, <3>1
      <4>2. j < i + 1 => Gap(h, j)
        BY <3>2, <4>1
      <4>3. j >= i + 1 => Gap(h, j + 1)
        BY <4>1
      <4> QED
        BY <3>1, <4>1, <4>2, <4>3
    <3> QED
      BY <1>1, <2>2, <3>3
  <2> QED
    BY <2>3, <2>4
<1>4. CASE Contiguous(h, i)
  <2>1. PICK f : f = Absorb(h, i)
    OBVIOUS
  <2>2. g = Absorb(f, i)
    BY <1>4, <2>1 DEF merge
  <2>3. /\ Ordered(f)
        /\ \A x \in Nat : Holds(f, x) <=> Holds(h, x)
        /\ i \in 1..(Len(h) - 1) /\ Len(f) = Len(h) - 1
        /\ \A j \in 1..(Len(f) - 1) :
             /\ j < i /\ Gap(h, j) => Gap(f, j)
             /\ j >= i /\ Gap(h, j + 1) => Gap(f, j)
    BY <1>4, <2>1, AbsorbKeeps
  <2>4. ASSUME NEW j \in 1..(Len(f) - 1), j # i PROVE Gap(f, j)
    <3>1. /\ j \in 1..(Len(h) - 1) /\ j + 1 \in 1..(Len(h) - 1)
          /\ j < i => j # i + 1
          /\ j >= i => j + 1 # i /\ j + 1 # i + 1
          /\ j < i \/ j >= i
      BY <1>2, <2>3, <2>4
    <3>2. j < i => Gap(h, j)
      BY <2>4, <3>1
    <3>3. j >= i => Gap(h, j + 1)
      BY <3>1
    <3> QED
      BY <2>3, <3>1, <3>2, <3>3
  <2>5. /\ Ordered(g)
        /\ \A x \in Nat : Holds(g, x) <=> Holds(f, x)
    BY <2>2, <2>3, AbsorbKeeps
  <2>6. CASE ~Contiguous(f, i)
    <3>1. g = f /\ (i < Len(f) => Gap(f, i))
      BY <2>2, <2>3, <2>6, AbsorbKeeps
    <3>2. \A j \in 1..(Len(f) - 1) : j < Len(f)
      BY <1>2, <2>3
    <3>3. \A j \in 1..(Len(f) - 1) : Gap(f, j)
      BY <2>4, <3>1, <3>2
    <3> QED
      BY <1>1, <2>3, <2>5, <3>1, <3>3
  <2>7. CASE Contiguous(f, i)
    <3>1. /\ i \in 1..(Len(f) - 1) /\ Len(g) = Len(f) - 1
          /\ \A j \in 1..(Len(g) - 1) :
               /\ j < i /\ Gap(f, j) => Gap(g, j)
               /\ j >= i /\ Gap(f, j + 1) => Gap(g, j)
      BY <2>2, <2>3, <2>7, AbsorbKeeps
    <3>2. ASSUME NEW j \in 1..(Len(g) - 1) PROVE Gap(g, j)
      <4>1. /\ j \in 1..(Len(f) - 1) /\ j + 1 \in 1..(Len(f) - 1)
            /\ j < i => j # i
            /\ j >= i => j + 1 # i
            /\ j < i \/ j >= i
        BY <1>2, <2>3, <3>1
      <4> QED
        BY <2>4, <3>1, <4>1
    <3> QED
      BY <1>1, <2>3, <2>5, <3>2
  <2> QED
    BY <2>6, <2>7
<1> QED
  BY <1>3, <1>4

\* free_mem leaves a tidy list with the clicks of the block in it.
LEMMA free_memKeeps ==
  ASSUME NEW h \in Seq(HoleSet), Tidy(h), NEW b \in Nat, NEW c \in Nat,
         \A x \in Nat : ~(Holds(h, x) /\ In(b, c, x)),
         NEW g, g = free_mem(h, b, c)
  PROVE  /\ g \in Seq(HoleSet) /\ Tidy(g)
         /\ \A x \in Nat : Holds(g, x) <=> Holds(h, x) \/ In(b, c, x)
<1>1. CASE c = 0
  <2>1. g = h /\ \A x \in Nat : ~In(b, c, x)
    BY <1>1 DEF free_mem, In
  <2> QED
    BY <2>1
<1>2. CASE c # 0
  <2>1. PICK n, hp : n = Len(h) /\ hp = Hole(b, c)
    OBVIOUS
  <2>2. /\ n \in Nat /\ DOMAIN h = 1..n /\ c > 0
        /\ hp \in HoleSet /\ hp.h_base = b /\ hp.h_len = c /\ End(hp) = b + c
    <3>1. hp \in HoleSet /\ hp.h_base = b /\ hp.h_len = c
      BY <2>1, HoleFields
    <3>2. End(hp) = b + c
      BY <3>1 DEF End
    <3> QED
      BY <1>2, <2>1, <3>1, <3>2
  <2>3. \A j \in 1..n : /\ h[j].h_base \in Nat /\ h[j].h_len \in Nat
                        /\ h[j].h_len > 0 /\ End(h[j]) = h[j].h_base + h[j].h_len
    BY <2>1, TidyOrdered, OrderedHoles
  <2>4. ASSUME NEW j \in 1..n
        PROVE  /\ b <= h[j].h_base => End(hp) <= h[j].h_base
               /\ h[j].h_base < b => End(h[j]) <= b
    <3>1. PICK v, w : v = h[j].h_base /\ w = h[j].h_len
      OBVIOUS
    <3>2. v \in Nat /\ w \in Nat /\ w > 0 /\ End(h[j]) = v + w
      BY <2>3, <3>1
    <3>3. \A x \in Nat : ~(In(v, w, x) /\ In(b, c, x))
      BY <2>2, <3>1 DEF Holds
    <3>4. ~(In(v, w, v) /\ In(b, c, v)) /\ ~(In(v, w, b) /\ In(b, c, b))
      BY <3>2, <3>3
    <3>5. (b <= v => b + c <= v) /\ (v < b => v + w <= b)
      BY <2>2, <3>2, <3>4 DEF In
    <3> QED
      BY <2>2, <3>1, <3>2, <3>5
  <2>5. h = << >> <=> n = 0
    BY <2>1
  <2>6. PICK front : front = (h = << >> \/ b <= h[1].h_base)
    OBVIOUS
  <2>7. CASE h = << >> \/ b <= h[1].h_base
    <3>1. PICK f : f = <<hp>> \o h
      OBVIOUS
    <3>2. g = merge(f, 1)
      BY <1>2, <2>1, <2>7, <3>1 DEF free_mem
    <3>3. Spliced(f, h, 1, hp)
      BY <2>2, <3>1, FrontEffect
    <3>4. 1 \in 1..(Len(h) + 1) /\ ~(1 > 1) /\ (1 <= Len(h) => End(hp) <= h[1].h_base)
      BY <2>1, <2>2, <2>4, <2>5, <2>7
    <3>5. /\ Ordered(f)
          /\ \A j \in 1..(Len(f) - 1) : j + 1 # 1 /\ j # 1 => Gap(f, j)
          /\ \A x \in Nat : Holds(f, x) <=> Holds(h, x) \/ In(b, c, x)
      BY <2>2, <3>3, <3>4, SplicedKeeps
    <3>6. \A j \in 1..(Len(f) - 1) : j # 1 /\ j # 1 + 1 => Gap(f, j)
      BY <3>5
    <3>7. /\ g \in Seq(HoleSet) /\ Tidy(g)
          /\ \A x \in Nat : Holds(g, x) <=> Holds(f, x)
      BY <3>2, <3>5, <3>6, mergeTidies
    <3> QED
      BY <3>5, <3>7
  <2>8. CASE ~(h = << >> \/ b <= h[1].h_base)
    <3>1. PICK S : S = Before(h, b)
      OBVIOUS
    <3>2. S \in SUBSET (0..n) /\ S # {} /\ \A j \in S : j \in 1..n /\ h[j].h_base < b
      <4>1. 1 \in 1..n
        BY <2>2, <2>5, <2>8
      <4>2. h[1].h_base \in Nat
        BY <2>3, <4>1
      <4>3. h[1].h_base < b
        BY <2>8, <4>2
      <4> QED
        BY <2>2, <3>1, <4>1, <4>3 DEF Before
    <3>3. PICK p : p = CHOOSE i \in S : \A j \in S : j <= i
      OBVIOUS
    <3>4. p \in S /\ \A j \in S : j <= p
      BY <2>2, <3>2, <3>3, GreatestNumber
    <3>5. PICK f, k : f = InsertAt(h, p + 1, hp) /\ k = p + 1
      OBVIOUS
    <3>6. g = merge(f, p)
      BY <1>2, <2>1, <2>8, <3>1, <3>3, <3>5 DEF free_mem
    <3>7. k \in 1..(Len(h) + 1) /\ p \in 1..n /\ k - 1 = p /\ p \in Nat \ {0}
      BY <2>1, <2>2, <3>2, <3>4, <3>5
    <3>8. k > 1 => End(h[k - 1]) <= hp.h_base
      BY <2>2, <2>4, <3>2, <3>4, <3>7
    <3>9. ASSUME k <= Len(h) PROVE End(hp) <= h[k].h_base
      <4>1. k \in 1..n /\ ~(k <= p)
        BY <2>1, <2>2, <3>5, <3>7, <3>9
      <4>2. k \notin S
        BY <3>4, <4>1
      <4>3. ~(h[k].h_base < b) /\ h[k].h_base \in Nat
        BY <2>2, <2>3, <3>1, <4>1, <4>2 DEF Before
      <4>4. b <= h[k].h_base
        BY <4>3
      <4> QED
        BY <2>4, <4>1, <4>4
    <3>10. Spliced(f, h, k, hp)
      BY <2>2, <3>5, <3>7, InsertAtEffect
    <3>11. /\ Ordered(f)
           /\ \A j \in 1..(Len(f) - 1) : j + 1 # k /\ j # k => Gap(f, j)
           /\ \A x \in Nat : Holds(f, x) <=> Holds(h, x) \/ In(b, c, x)
      BY <2>2, <3>7, <3>8, <3>9, <3>10, SplicedKeeps
    <3>12. \A j \in 1..(Len(f) - 1) : j # p /\ j # p + 1 => Gap(f, j)
      <4> TAKE j \in 1..(Len(f) - 1)
      <4>1. j # p => j + 1 # k
        BY <3>5, <3>7
      <4> QED
        BY <3>5, <3>11, <4>1
    <3>13. /\ g \in Seq(HoleSet) /\ Tidy(g)
           /\ \A x \in Nat : Holds(g, x) <=> Holds(f, x)
      BY <3>6, <3>7, <3>11, <3>12, mergeTidies
    <3> QED
      BY <3>11, <3>13
  <2> QED
    BY <2>7, <2>8
<1> QED
  BY <1>1, <1>2

\* TakeFrom takes the clicks at the front of hole i out of the list.
LEMMA TakeFromKeeps ==
  ASSUME NEW h \in Seq(HoleSet), Tidy(h), NEW i \in 1..Len(h), NEW c \in Nat,
         0 < c, c <= h[i].h_len, NEW g, g = TakeFrom(h, i, c)
  PROVE  /\ g \in Seq(HoleSet) /\ Tidy(g)
         /\ \A x \in Nat : In(h[i].h_base, c, x) => Holds(h, x)
         /\ \A x \in Nat : Holds(g, x) <=> Holds(h, x) /\ ~In(h[i].h_base, c, x)
<1>1. PICK n, b, l : n = Len(h) /\ b = h[i].h_base /\ l = h[i].h_len
  OBVIOUS
<1>2. /\ n \in Nat /\ i \in 1..n /\ DOMAIN h = 1..n
      /\ \A j \in 1..n : /\ h[j].h_base \in Nat /\ h[j].h_len \in Nat
                         /\ h[j].h_len > 0 /\ End(h[j]) = h[j].h_base + h[j].h_len
  BY <1>1, TidyOrdered, OrderedHoles
<1>3. b \in Nat /\ l \in Nat /\ l > 0 /\ c <= l /\ End(h[i]) = b + l
  BY <1>1, <1>2
<1>4. \A x \in Nat : In(b, c, x) => In(b, l, x)
  BY <1>3 DEF In
<1>5. \A x \in Nat : In(b, c, x) => Holds(h, x)
  BY <1>1, <1>2, <1>4 DEF Holds
<1>6. CASE l = c
  <2>1. g = del_slot(h, i)
    BY <1>1, <1>6 DEF TakeFrom
  <2> QED
    BY <1>1, <1>5, <1>6, <2>1, del_slotKeeps
<1>7. CASE l # c
  <2>1. PICK hp : hp = Hole(b + c, l - c)
    OBVIOUS
  <2>2. /\ hp \in HoleSet /\ hp.h_base = b + c /\ hp.h_len = l - c
        /\ hp.h_len > 0 /\ End(hp) = b + l
    <3>1. b + c \in Nat /\ l - c \in Nat /\ l - c > 0 /\ (b + c) + (l - c) = b + l
      BY <1>3, <1>7
    <3>2. hp \in HoleSet /\ hp.h_base = b + c /\ hp.h_len = l - c
      BY <2>1, <3>1, HoleFields
    <3> QED
      BY <3>1, <3>2 DEF End
  <2>3. g = [h EXCEPT ![i] = hp]
    BY <1>1, <1>7, <2>1 DEF TakeFrom
  <2>4. /\ g \in Seq(HoleSet) /\ Len(g) = n /\ DOMAIN g = 1..n
        /\ \A j \in 1..n : g[j] = IF j = i THEN hp ELSE h[j]
    BY <1>1, <1>2, <2>2, <2>3
  <2>5. \A j \in 1..n : g[j].h_len > 0
    BY <1>2, <2>2, <2>4
  <2>6. \A j \in 1..(n - 1) : End(g[j]) < g[j + 1].h_base
    <3> TAKE j \in 1..(n - 1)
    <3>1. j \in 1..n /\ j + 1 \in 1..n /\ j # j + 1
      BY <1>2
    <3>2. End(h[j]) < h[j + 1].h_base
      BY <1>1 DEF Tidy
    <3>3. End(g[j]) = End(h[j])
      BY <1>3, <2>2, <2>4, <3>1
    <3>4. PICK u, v : u = h[j + 1].h_base /\ v = g[j + 1].h_base
      OBVIOUS
    <3>5. u \in Nat /\ v \in Nat /\ u <= v
      <4>1. CASE j + 1 = i
        <5>1. u = b /\ v = b + c
          BY <1>1, <2>2, <2>4, <3>1, <3>4, <4>1
        <5> QED
          BY <1>3, <5>1
      <4>2. CASE j + 1 # i
        <5>1. u = v /\ u \in Nat
          BY <1>2, <2>4, <3>1, <3>4, <4>2
        <5> QED
          BY <5>1
      <4> QED
        BY <4>1, <4>2
    <3>6. PICK e : e = End(h[j])
      OBVIOUS
    <3>7. e \in Nat /\ e < u
      <4>1. e \in Nat
        BY <1>2, <3>1, <3>6
      <4>2. e < u
        BY <3>2, <3>4, <3>6
      <4> QED
        BY <4>1, <4>2
    <3>8. e < v
      BY <3>5, <3>7
    <3> QED
      BY <3>3, <3>4, <3>6, <3>8
  <2>7. Tidy(g)
    BY <2>4, <2>5, <2>6 DEF Tidy
  <2>8. \A x \in Nat : In(b + c, l - c, x) <=> In(b, l, x) /\ ~In(b, c, x)
    BY <1>3 DEF In
  <2>9. ASSUME NEW x \in Nat
        PROVE  Holds(g, x) <=> Holds(h, x) /\ ~In(b, c, x)
    <3>1. ASSUME Holds(g, x) PROVE Holds(h, x) /\ ~In(b, c, x)
      <4>1. PICK j \in 1..n : In(g[j].h_base, g[j].h_len, x)
        BY <2>4, <3>1 DEF Holds
      <4>2. CASE j = i
        <5>1. In(b + c, l - c, x)
          BY <2>2, <2>4, <4>1, <4>2
        <5> QED
          BY <1>1, <1>2, <2>8, <5>1 DEF Holds
      <4>3. CASE j # i
        <5>1. In(h[j].h_base, h[j].h_len, x)
          BY <2>4, <4>1, <4>3
        <5>2. ~In(b, l, x)
          BY <1>1, <1>2, <4>3, <5>1, OneHole
        <5> QED
          BY <1>2, <1>4, <5>1, <5>2 DEF Holds
      <4> QED
        BY <4>2, <4>3
    <3>2. ASSUME Holds(h, x), ~In(b, c, x) PROVE Holds(g, x)
      <4>1. PICK j \in 1..n : In(h[j].h_base, h[j].h_len, x)
        BY <1>2, <3>2 DEF Holds
      <4>2. CASE j = i
        <5>1. In(b + c, l - c, x)
          BY <1>1, <2>8, <3>2, <4>1, <4>2
        <5> QED
          BY <1>2, <2>2, <2>4, <5>1 DEF Holds
      <4>3. CASE j # i
        BY <2>4, <4>1, <4>3 DEF Holds
      <4> QED
        BY <4>2, <4>3
    <3> QED
      BY <3>1, <3>2
  <2> QED
    BY <1>1, <1>5, <2>4, <2>7, <2>9
<1> QED
  BY <1>6, <1>7
-----------------------------------------------------------------------------
(* Who has which click *)

\* The memory ends in front of the gap before the swap area, and click 0 is
\* nobody's.
LEMMA Gapped ==
  /\ swap_base \in Nat /\ swap_base > 1
  /\ \A x \in Nat : Holds(Chunks, x) => x > 0 /\ x < swap_base - 1
<1>1. PICK n : n = Len(Chunks)
  OBVIOUS
<1>2. Chunks \in Seq(HoleSet) /\ Tidy(Chunks) /\ n \in Nat \ {0}
      /\ DOMAIN Chunks = 1..n /\ \A i \in 1..n : Chunks[i].h_base > 0
  <2>1. Chunks \in Seq(HoleSet) /\ Tidy(Chunks) /\ Chunks # << >>
        /\ \A i \in DOMAIN Chunks : Chunks[i].h_base > 0
    BY AllocAssumption DEF HoleSet
  <2> QED
    BY <1>1, <2>1
<1>3. \A j \in 1..n : /\ Chunks[j].h_base \in Nat /\ Chunks[j].h_len \in Nat
                      /\ Chunks[j].h_len > 0
                      /\ End(Chunks[j]) = Chunks[j].h_base + Chunks[j].h_len
  BY <1>1, <1>2, TidyOrdered, OrderedHoles
<1>4. PICK e : e = End(Chunks[n])
  OBVIOUS
<1>5. n \in 1..n /\ e \in Nat /\ e > 0 /\ swap_base = e + 1
  <2>1. n \in 1..n
    BY <1>2
  <2> QED
    BY <1>1, <1>2, <1>3, <1>4, <2>1 DEF swap_base
<1>6. ASSUME NEW x \in Nat, Holds(Chunks, x) PROVE x > 0 /\ x < e
  <2>1. PICK i \in 1..n : In(Chunks[i].h_base, Chunks[i].h_len, x)
    BY <1>2, <1>6 DEF Holds
  <2>2. PICK b, c : b = Chunks[i].h_base /\ c = Chunks[i].h_len
    OBVIOUS
  <2>3. b \in Nat /\ c \in Nat /\ b > 0 /\ End(Chunks[i]) = b + c /\ In(b, c, x)
    BY <1>2, <1>3, <2>1, <2>2
  <2>4. i = n \/ b + c < Chunks[n].h_base
    BY <1>1, <1>2, <1>5, <2>3, AllTidy
  <2>5. PICK d, l : d = Chunks[n].h_base /\ l = Chunks[n].h_len
    OBVIOUS
  <2>6. d \in Nat /\ l \in Nat /\ e = d + l
    BY <1>3, <1>4, <1>5, <2>5
  <2>7. b + c <= e
    <3>1. (b = d /\ c = l) \/ b + c < d
      BY <2>2, <2>4, <2>5
    <3> QED
      BY <2>3, <2>6, <3>1
  <2> QED
    BY <1>5, <2>3, <2>7 DEF In
<1> QED
  BY <1>5, <1>6

\* A block lies in memory or in the swap area, as its first click does.
LEMMA NotAcross ==
  ASSUME NEW n \in Nat, NEW b \in Nat, NEW c \in Nat, c > 0,
         \A x \in Nat : In(b, c, x) => Area(n, x)
  PROVE  /\ b > 0 /\ In(b, c, b)
         /\ b < swap_base => \A x \in Nat : In(b, c, x) => Holds(Chunks, x)
         /\ b >= swap_base => \A x \in Nat : In(b, c, x) => In(swap_base, n, x)
<1>1. PICK s : s = swap_base
  OBVIOUS
<1>2. s \in Nat /\ s > 1 /\ \A x \in Nat : Holds(Chunks, x) => x > 0 /\ x < s - 1
  BY <1>1, Gapped
<1>3. \A x \in Nat : Area(n, x) => x # s - 1 /\ x > 0
  BY <1>1, <1>2 DEF Area, In
<1>4. In(b, c, b) /\ b > 0
  BY <1>3 DEF In
<1>5. ASSUME b < s, NEW x \in Nat, In(b, c, x) PROVE Holds(Chunks, x)
  <2>1. s - 1 \in Nat /\ ~In(b, c, s - 1)
    BY <1>2, <1>3
  <2>2. x < s
    BY <1>2, <1>5, <2>1 DEF In
  <2>3. ~In(s, n, x)
    BY <1>2, <2>2 DEF In
  <2> QED
    BY <1>1, <1>5, <2>3 DEF Area
<1>6. ASSUME b >= s, NEW x \in Nat, In(b, c, x) PROVE In(s, n, x)
  <2>1. x >= s
    BY <1>2, <1>6 DEF In
  <2>2. ~Holds(Chunks, x)
    BY <1>2, <2>1
  <2> QED
    BY <1>1, <1>6, <2>2 DEF Area
<1> QED
  BY <1>1, <1>4, <1>5, <1>6

\* The fields of the data
LEMMA MemoryFields ==
  ASSUME NEW m \in Memory
  PROVE  /\ m.hole \in Seq(HoleSet) /\ m.in_queue \in Seq(Procs)
         /\ m.current_algorithm \in {FIRST, WORST} /\ m.swap_on \in BOOLEAN
         /\ m.outswap \in Procs
         /\ m.mem_phys \in [Procs -> Nat] /\ m.size \in [Procs -> Nat]
         /\ m.mp_flags \in [Procs -> SUBSET Flags]
BY DEF Memory

\* A block comes free.
LEMMA FreeShares ==
  ASSUME NEW m \in Memory, NEW n \in Nat, NEW b \in Nat, NEW c \in Nat,
         Tidy(m.hole), Shared(m, n, b, c),
         NEW g \in Memory, g.hole = free_mem(m.hole, b, c),
         g.mp_flags = m.mp_flags, g.mem_phys = m.mem_phys, g.size = m.size
  PROVE  Tidy(g.hole) /\ Shared(g, n, 0, 0)
<1>1. m.hole \in Seq(HoleSet) /\ \A x \in Nat : ~(Holds(m.hole, x) /\ In(b, c, x))
  BY MemoryFields DEF Shared
<1>2. /\ Tidy(g.hole)
      /\ \A x \in Nat : Holds(g.hole, x) <=> Holds(m.hole, x) \/ In(b, c, x)
  BY <1>1, free_memKeeps
<1>3. \A x \in Nat : ~In(0, 0, x)
  BY DEF In
<1>4. Live(g) = Live(m) /\ \A p, x : Has(g, p, x) = Has(m, p, x)
  BY DEF Live, Has
<1> QED
  BY <1>2, <1>3, <1>4 DEF Shared

\* A block is bitten off a hole.
LEMMA BiteShares ==
  ASSUME NEW m \in Memory, NEW n \in Nat, Tidy(m.hole), Shared(m, n, 0, 0),
         NEW i \in DOMAIN m.hole, NEW c \in Nat, c > 0, c <= m.hole[i].h_len,
         NEW b, b = m.hole[i].h_base,
         NEW g \in Memory, g.hole = TakeFrom(m.hole, i, c),
         g.mp_flags = m.mp_flags, g.mem_phys = m.mem_phys, g.size = m.size
  PROVE  Tidy(g.hole) /\ Shared(g, n, b, c) /\ b \in Nat /\ b > 0
<1>1. m.hole \in Seq(HoleSet) /\ i \in 1..Len(m.hole)
  <2>1. m.hole \in Seq(HoleSet)
    BY MemoryFields
  <2> QED
    BY <2>1
<1>2. m.hole[i] \in HoleSet /\ b \in Nat
  <2>1. m.hole[i] \in HoleSet
    BY <1>1
  <2> QED
    BY <2>1, HoleFields
<1>3. /\ Tidy(g.hole)
      /\ \A x \in Nat : In(b, c, x) => Holds(m.hole, x)
      /\ \A x \in Nat : Holds(g.hole, x) <=> Holds(m.hole, x) /\ ~In(b, c, x)
  BY <1>1, TakeFromKeeps
<1>4. \A x \in Nat : ~In(0, 0, x)
  BY DEF In
<1>5. Live(g) = Live(m) /\ \A p, x : Has(g, p, x) = Has(m, p, x)
  BY DEF Live, Has
<1>6. Shared(g, n, b, c)
  BY <1>3, <1>4, <1>5 DEF Shared
<1>7. \A x \in Nat : In(b, c, x) => Area(n, x)
  BY <1>6 DEF Shared
<1> QED
  BY <1>2, <1>3, <1>6, <1>7, NotAcross

\* Process p gets a block for the one it had: it may be new, or go.
LEMMA ExchangeShares ==
  ASSUME NEW m \in Memory, NEW n \in Nat, NEW b \in Nat, NEW c \in Nat,
         Shared(m, n, b, c), NEW p \in Procs,
         NEW g \in Memory, g.hole = m.hole,
         \A q \in Procs \ {p} :
           /\ q \in Live(g) <=> q \in Live(m)
           /\ g.mem_phys[q] = m.mem_phys[q] /\ g.size[q] = m.size[q],
         p \in Live(g) => g.mem_phys[p] = b /\ g.size[p] = c,
         p \notin Live(g) => c = 0,
         NEW d \in Nat, NEW e \in Nat,
         p \in Live(m) => d = m.mem_phys[p] /\ e = m.size[p],
         p \notin Live(m) => e = 0
  PROVE  Shared(g, n, d, e)
<1>1. \A x \in Nat : ~In(d, 0, x) /\ ~In(b, 0, x)
  BY DEF In
<1>2. \A q \in Procs \ {p} : \A x \in Nat : Has(g, q, x) <=> Has(m, q, x)
  BY DEF Has
<1>3. \A x \in Nat : p \in Live(g) => (Has(g, p, x) <=> In(b, c, x))
  BY DEF Has
<1>4. \A x \in Nat : p \in Live(m) => (Has(m, p, x) <=> In(d, e, x))
  BY DEF Has
<1>5. \A q : (q \in Live(g) => q \in Procs) /\ (q \in Live(m) => q \in Procs)
  BY DEF Live
<1>6. PICK L, M : L = Live(m) /\ M = Live(g)
  OBVIOUS
<1>7. /\ \A x \in Nat : Area(n, x) <=> \/ Holds(m.hole, x) \/ In(b, c, x)
                                       \/ \E q \in L : Has(m, q, x)
      /\ \A x \in Nat : ~(Holds(m.hole, x) /\ In(b, c, x))
      /\ \A q \in L : \A x \in Nat :
           Has(m, q, x) => ~Holds(m.hole, x) /\ ~In(b, c, x)
      /\ \A q, r \in L : \A x \in Nat : Has(m, q, x) /\ Has(m, r, x) => q = r
  BY <1>6 DEF Shared
<1>8. /\ \A q \in Procs \ {p} : q \in M <=> q \in L
      /\ \A q \in M : q \in Procs
      /\ \A q \in L : q \in Procs
      /\ \A x \in Nat : p \in M => (Has(g, p, x) <=> In(b, c, x))
      /\ \A x \in Nat : p \notin M => ~In(b, c, x)
      /\ \A x \in Nat : p \in L => (Has(m, p, x) <=> In(d, e, x))
      /\ \A x \in Nat : p \notin L => ~In(d, e, x)
  BY <1>1, <1>3, <1>4, <1>5, <1>6
<1>9. ASSUME NEW x \in Nat
      PROVE  Area(n, x) <=> \/ Holds(m.hole, x) \/ In(d, e, x)
                            \/ \E q \in M : Has(g, q, x)
  <2>1. (\E q \in M : Has(g, q, x)) <=>
          In(b, c, x) \/ \E q \in L \ {p} : Has(m, q, x)
    BY <1>2, <1>8
  <2>2. (\E q \in L : Has(m, q, x)) <=>
          In(d, e, x) \/ \E q \in L \ {p} : Has(m, q, x)
    BY <1>8
  <2> QED
    BY <1>7, <2>1, <2>2
<1>10. \A x \in Nat : ~(Holds(m.hole, x) /\ In(d, e, x))
  BY <1>7, <1>8
<1>11. ASSUME NEW q \in M, NEW x \in Nat, Has(g, q, x)
       PROVE  ~Holds(m.hole, x) /\ ~In(d, e, x)
  <2>1. CASE q = p
    BY <1>7, <1>8, <1>11, <2>1
  <2>2. CASE q # p
    <3>1. q \in L /\ Has(m, q, x)
      BY <1>2, <1>8, <1>11, <2>2
    <3> QED
      BY <1>7, <1>8, <2>2, <3>1
  <2> QED
    BY <2>1, <2>2
<1>12. ASSUME NEW q \in M, NEW r \in M, NEW x \in Nat, Has(g, q, x), Has(g, r, x)
       PROVE  q = r
  <2>1. \A o \in M : o # p => o \in L /\ (Has(g, o, x) <=> Has(m, o, x))
    BY <1>2, <1>8
  <2> QED
    BY <1>7, <1>8, <1>12, <2>1
<1> QED
  BY <1>6, <1>9, <1>10, <1>11, <1>12 DEF Shared

\* The slots of the processes
LEMMA Slots ==
  /\ Procs \subseteq Nat /\ LOW_USER \in Nat /\ HIGH_USER \in Nat
  /\ LOW_USER <= HIGH_USER /\ Procs = LOW_USER..HIGH_USER
  /\ IsFiniteSet(Procs) /\ Cardinality(Procs) = HIGH_USER - LOW_USER + 1
<1>1. Procs \subseteq Nat /\ Procs # {} /\ HIGH_USER \in Nat
      /\ Procs = LOW_USER..HIGH_USER
  BY AllocAssumption
<1>2. Min(Procs) \in Procs
  BY <1>1, LeastNumber
<1>3. LOW_USER \in Procs
  BY <1>2 DEF LOW_USER, Min
<1>4. LOW_USER \in Nat /\ LOW_USER <= HIGH_USER
  BY <1>1, <1>3
<1>5. /\ IsFiniteSet(LOW_USER..HIGH_USER)
      /\ Cardinality(LOW_USER..HIGH_USER) =
           IF LOW_USER > HIGH_USER THEN 0 ELSE HIGH_USER - LOW_USER + 1
  BY <1>1, <1>4, FS_Interval
<1> QED
  BY <1>1, <1>4, <1>5

\* What starts where hole i ends: a process, the block in hand, the end of the
\* swap area, or the end of a chunk.
Follows(m, n, b, c, i, t) ==
  LET x == End(m.hole[i])
  IN \/ t \in Live(m) /\ Has(m, t, x)
     \/ t = HIGH_USER + 1 /\ In(b, c, x)
     \/ t = HIGH_USER + 2 /\ x = swap_base + n
     \/ \E k \in DOMAIN Chunks : t = LOW_USER - k /\ x = End(Chunks[k])

\* Something else comes after each hole.
LEMMA SomethingFollows ==
  ASSUME NEW m \in Memory, NEW n \in Nat, NEW b \in Nat, NEW c \in Nat,
         Tidy(m.hole), Shared(m, n, b, c), NEW i \in 1..Len(m.hole)
  PROVE  \E t \in (LOW_USER - Len(Chunks))..(HIGH_USER + 2) : Follows(m, n, b, c, i, t)
<1>1. PICK h, x, lo, hi, N :
        /\ h = m.hole /\ x = End(h[i]) /\ lo = LOW_USER /\ hi = HIGH_USER
        /\ N = Len(Chunks)
  OBVIOUS
<1>2. Ordered(h) /\ \A j \in 1..(Len(h) - 1) : End(h[j]) < h[j + 1].h_base
  BY <1>1, MemoryFields, TidyOrdered
<1>3. /\ Len(h) \in Nat /\ DOMAIN h = 1..Len(h)
      /\ \A j \in 1..Len(h) :
           /\ h[j].h_base \in Nat /\ h[j].h_len \in Nat /\ h[j].h_len > 0
           /\ End(h[j]) = h[j].h_base + h[j].h_len
  BY <1>2, OrderedHoles
<1>4. /\ x \in Nat /\ x > 0 /\ x - 1 \in Nat /\ Holds(h, x - 1)
  <2>1. PICK u, v : u = h[i].h_base /\ v = h[i].h_len
    OBVIOUS
  <2>2. u \in Nat /\ v \in Nat /\ v > 0 /\ x = u + v
    BY <1>1, <1>3, <2>1
  <2>3. In(u, v, x - 1)
    BY <2>2 DEF In
  <2>4. x \in Nat /\ x > 0 /\ x - 1 \in Nat
    BY <2>2
  <2>5. i \in DOMAIN h
    BY <1>1, <1>3
  <2>6. Holds(h, x - 1)
    BY <2>1, <2>3, <2>5 DEF Holds
  <2> QED
    BY <2>4, <2>6
<1>5. ~Holds(h, x)
  <2> SUFFICES ASSUME NEW j \in 1..Len(h), In(h[j].h_base, h[j].h_len, x)
               PROVE  FALSE
    BY <1>3 DEF Holds
  <2>1. PICK u, v : u = h[j].h_base /\ v = h[j].h_len
    OBVIOUS
  <2>2. u \in Nat /\ v \in Nat /\ End(h[j]) = u + v /\ u <= x /\ x < u + v
    BY <1>3, <2>1 DEF In
  <2>3. CASE j <= i
    <3>1. j = i \/ End(h[j]) <= h[i].h_base
      BY <1>1, <1>2, <1>3, <2>3, AllOrdered
    <3>2. PICK y, z : y = h[i].h_base /\ z = h[i].h_len
      OBVIOUS
    <3>3. y \in Nat /\ z \in Nat /\ x = y + z
      BY <1>1, <1>3, <3>2
    <3>4. u + v = x \/ u + v <= y
      BY <1>1, <2>2, <3>1, <3>2
    <3>5. PICK w : w = u + v
      OBVIOUS
    <3>6. w \in Nat /\ x < w
      BY <2>2, <3>5
    <3>7. w = x \/ w <= y
      BY <3>4, <3>5
    <3> QED
      BY <3>3, <3>6, <3>7
  <2>4. CASE j > i
    <3>1. i \in 1..(Len(h) - 1) /\ i + 1 \in 1..Len(h)
      BY <1>1, <1>3, <2>4
    <3>2. PICK y, z : y = h[i + 1].h_base /\ z = h[i + 1].h_len
      OBVIOUS
    <3>3. y \in Nat /\ z \in Nat /\ End(h[i + 1]) = y + z /\ x < y
      BY <1>1, <1>2, <1>3, <3>1, <3>2
    <3>4. j = i + 1 \/ (i + 1 < j /\ End(h[i + 1]) <= u)
      <4>1. j = i + 1 \/ i + 1 < j
        BY <1>1, <1>3, <2>4
      <4> QED
        BY <1>2, <2>1, <3>1, <4>1, AllOrdered
    <3>5. y <= u
      BY SMTT(30), <2>1, <2>2, <3>2, <3>3, <3>4
    <3> QED
      BY <1>4, <2>2, <3>3, <3>5
  <2> QED
    BY <1>1, <1>3, <2>3, <2>4
<1>6. /\ lo \in Nat /\ hi \in Nat /\ lo <= hi /\ Procs = lo..hi /\ N \in Nat
      /\ DOMAIN Chunks = 1..N
  BY <1>1, Slots, AllocAssumption
<1>7. /\ Area(n, x - 1)
      /\ Area(n, x) => In(b, c, x) \/ \E p \in Live(m) : Has(m, p, x)
  BY <1>1, <1>4, <1>5 DEF Shared
<1>8. PICK T : T = (lo - N)..(hi + 2)
  OBVIOUS
<1>9. /\ hi + 1 \in T /\ hi + 2 \in T /\ \A p \in Procs : p \in T
      /\ \A k \in 1..N : lo - k \in T
  BY <1>6, <1>8
<1>10. CASE Area(n, x)
  <2>1. CASE In(b, c, x)
    BY <1>1, <1>8, <1>9, <2>1 DEF Follows
  <2>2. ASSUME NEW p \in Live(m), Has(m, p, x) PROVE \E t \in T : Follows(m, n, b, c, i, t)
    BY <1>1, <1>9, <2>2 DEF Follows, Live
  <2> QED
    BY <1>1, <1>7, <1>8, <1>10, <2>1, <2>2
<1>11. CASE ~Area(n, x)
  <2>1. CASE Holds(Chunks, x - 1)
    <3>1. PICK k \in 1..N : In(Chunks[k].h_base, Chunks[k].h_len, x - 1)
      BY <1>6, <2>1 DEF Holds
    <3>2. ~In(Chunks[k].h_base, Chunks[k].h_len, x)
      BY <1>6, <1>11 DEF Area, Holds
    <3>3. Chunks[k] \in HoleSet
      <4>1. Chunks \in Seq(HoleSet)
        BY AllocAssumption DEF HoleSet
      <4> QED
        BY <1>1, <4>1
    <3>4. PICK u, v : u = Chunks[k].h_base /\ v = Chunks[k].h_len
      OBVIOUS
    <3>5. u \in Nat /\ v \in Nat /\ End(Chunks[k]) = u + v
      BY <3>3, <3>4, HoleFields
    <3>6. x = u + v
      BY SMTT(30), <1>4, <3>1, <3>2, <3>4, <3>5 DEF In
    <3> QED
      BY <1>1, <1>6, <1>8, <1>9, <3>5, <3>6 DEF Follows
  <2>2. CASE In(swap_base, n, x - 1)
    <3>1. PICK u : u = swap_base
      OBVIOUS
    <3>2. u \in Nat
      BY <3>1, Gapped
    <3>3. ~In(u, n, x)
      BY <1>11, <3>1 DEF Area
    <3>4. x = u + n
      BY <1>4, <2>2, <3>1, <3>2, <3>3 DEF In
    <3> QED
      BY <1>1, <1>8, <1>9, <3>1, <3>4 DEF Follows
  <2> QED
    BY <1>7, <2>1, <2>2 DEF Area
<1> QED
  BY <1>10, <1>11

\* What comes after two holes is not the same.
LEMMA FollowsOnce ==
  ASSUME NEW m \in Memory, NEW n \in Nat, NEW b \in Nat, NEW c \in Nat,
         Tidy(m.hole), Shared(m, n, b, c),
         NEW i \in 1..Len(m.hole), NEW j \in 1..Len(m.hole), i < j,
         NEW t, Follows(m, n, b, c, i, t), Follows(m, n, b, c, j, t)
  PROVE  FALSE
<1>1. PICK h, x, u, v, y :
        h = m.hole /\ x = End(h[i]) /\ u = h[j].h_base /\ v = h[j].h_len /\ y = End(h[j])
  OBVIOUS
<1>2. Ordered(h)
  BY <1>1, MemoryFields, TidyOrdered
<1>3. /\ Len(h) \in Nat /\ DOMAIN h = 1..Len(h)
      /\ u \in Nat /\ v \in Nat /\ v > 0 /\ y = u + v /\ x \in Nat
  <2>1. \A k \in 1..Len(h) :
          /\ h[k].h_base \in Nat /\ h[k].h_len \in Nat /\ h[k].h_len > 0
          /\ End(h[k]) = h[k].h_base + h[k].h_len
    BY <1>2, OrderedHoles
  <2>2. Len(h) \in Nat /\ DOMAIN h = 1..Len(h)
    BY <1>2, OrderedHoles
  <2>3. i \in 1..Len(h) /\ j \in 1..Len(h)
    BY <1>1
  <2>4. u \in Nat /\ v \in Nat /\ v > 0 /\ y = u + v
    BY <1>1, <2>1, <2>3
  <2>5. x \in Nat
    <3>1. PICK a, z : a = h[i].h_base /\ z = h[i].h_len
      OBVIOUS
    <3>2. a \in Nat /\ z \in Nat /\ x = a + z
      BY <1>1, <2>1, <2>3, <3>1
    <3> QED
      BY <3>2
  <2> QED
    BY <2>2, <2>4, <2>5
<1>4. x <= u
  BY <1>1, <1>2, AllOrdered
<1>5. In(u, v, u) /\ Holds(h, u)
  <2>1. In(u, v, u)
    BY <1>3 DEF In
  <2> QED
    BY <1>1, <1>3, <2>1 DEF Holds
<1>6. PICK lo, hi, s, N :
        lo = LOW_USER /\ hi = HIGH_USER /\ s = swap_base + n /\ N = Len(Chunks)
  OBVIOUS
<1>7. /\ lo \in Nat /\ hi \in Nat /\ lo <= hi /\ N \in Nat /\ DOMAIN Chunks = 1..N
      /\ \A p \in Live(m) : p \in lo..hi
  BY <1>6, Slots, AllocAssumption DEF Live
<1>8. /\ \/ t \in Live(m) /\ Has(m, t, x)
         \/ t = hi + 1 /\ In(b, c, x)
         \/ t = hi + 2 /\ x = s
         \/ \E k \in 1..N : t = lo - k /\ x = End(Chunks[k])
      /\ \/ t \in Live(m) /\ Has(m, t, y)
         \/ t = hi + 1 /\ In(b, c, y)
         \/ t = hi + 2 /\ y = s
         \/ \E k \in 1..N : t = lo - k /\ y = End(Chunks[k])
  BY <1>1, <1>6, <1>7 DEF Follows
<1>9. ASSUME NEW d \in Nat, NEW e \in Nat, In(d, e, x), In(d, e, y)
      PROVE  In(d, e, u)
  BY <1>3, <1>4, <1>9 DEF In
<1>10. x # y
  BY <1>3, <1>4
<1>11. CASE t \in Live(m)
  <2>1. Has(m, t, x) /\ Has(m, t, y)
    BY <1>7, <1>8, <1>11
  <2>2. m.mem_phys[t] \in Nat /\ m.size[t] \in Nat
    BY <1>11, MemoryFields DEF Live
  <2>3. Has(m, t, u)
    BY <1>9, <2>1, <2>2 DEF Has
  <2> QED
    BY <1>1, <1>3, <1>5, <1>11, <2>3 DEF Shared
<1>12. CASE t = hi + 1
  <2>1. In(b, c, x) /\ In(b, c, y)
    BY <1>7, <1>8, <1>12
  <2>2. In(b, c, u)
    BY <1>9, <2>1
  <2> QED
    BY <1>1, <1>3, <1>5, <2>2 DEF Shared
<1>13. CASE t = hi + 2
  BY <1>7, <1>8, <1>10, <1>13
<1>14. CASE \E k \in 1..N : t = lo - k
  <2>1. PICK k \in 1..N : t = lo - k
    BY <1>14
  <2>2. \A l \in 1..N : t = lo - l => l = k
    BY <1>7, <2>1
  <2>3. t < lo
    BY <1>7, <2>1
  <2>4. x = End(Chunks[k]) /\ y = End(Chunks[k])
    BY <1>7, <1>8, <2>2, <2>3
  <2> QED
    BY <1>10, <2>4
<1> QED
  BY <1>8, <1>11, <1>12, <1>13, <1>14

\* There are at most as many holes as processes, chunks, and two.
LEMMA HolesCounted ==
  ASSUME NEW m \in Memory, NEW n \in Nat, NEW b \in Nat, NEW c \in Nat,
         Tidy(m.hole), Shared(m, n, b, c)
  PROVE  Len(m.hole) <= Cardinality(Procs) + Len(Chunks) + 2
<1>1. PICK L, lo, hi, N, T :
        /\ L = Len(m.hole) /\ lo = LOW_USER /\ hi = HIGH_USER /\ N = Len(Chunks)
        /\ T = (LOW_USER - Len(Chunks))..(HIGH_USER + 2)
  OBVIOUS
<1>2. /\ lo \in Nat /\ hi \in Nat /\ lo <= hi /\ N \in Nat
      /\ Cardinality(Procs) = hi - lo + 1
  BY <1>1, Slots, AllocAssumption
<1>3. L \in Nat
  BY <1>1, MemoryFields
<1>4. IsFiniteSet(T) /\ Cardinality(T) = hi - lo + N + 3
  <2>1. lo - N \in Int /\ hi + 2 \in Int /\ ~(lo - N > hi + 2)
        /\ (hi + 2) - (lo - N) + 1 = hi - lo + N + 3
    BY <1>2
  <2>2. T = (lo - N)..(hi + 2)
    BY <1>1
  <2> QED
    BY <2>1, <2>2, FS_Interval
<1>5. IsFiniteSet(1..L) /\ Cardinality(1..L) = L
  <2>1. /\ IsFiniteSet(1..L)
        /\ Cardinality(1..L) = IF 1 > L THEN 0 ELSE L - 1 + 1
    BY <1>3, FS_Interval
  <2> QED
    BY <1>3, <2>1
<1>6. \A i \in 1..L : \E t \in T : Follows(m, n, b, c, i, t)
  BY <1>1, SomethingFollows
<1>7. PICK f : f = [i \in 1..L |-> CHOOSE t \in T : Follows(m, n, b, c, i, t)]
  OBVIOUS
<1>8. f \in [1..L -> T] /\ \A i \in 1..L : Follows(m, n, b, c, i, f[i])
  BY <1>6, <1>7
<1>9. ASSUME Cardinality(T) < L PROVE FALSE
  <2>1. PICK i, j \in 1..L : i # j /\ f[i] = f[j]
    BY <1>4, <1>5, <1>8, <1>9, FS_PigeonHole
  <2>2. i < j \/ j < i
    BY <1>3, <2>1
  <2>3. Follows(m, n, b, c, i, f[i]) /\ Follows(m, n, b, c, j, f[i])
    BY <1>8, <2>1
  <2> QED
    BY <1>1, <2>2, <2>3, FollowsOnce
<1> QED
  BY <1>1, <1>2, <1>3, <1>4, <1>9

\* Free gives a block back.
LEMMA FreeKeeps ==
  ASSUME NEW m, NEW n, NEW b, NEW c, Part(m, n, b, c), NEW g, g = Free(m, b, c)
  PROVE  /\ Part(g, n, 0, 0)
         /\ g.mp_flags = m.mp_flags /\ g.mem_phys = m.mem_phys /\ g.size = m.size
         /\ g.in_queue = m.in_queue /\ g.swap_on = m.swap_on
         /\ g.current_algorithm = m.current_algorithm
<1>1. /\ m \in Memory /\ Tidy(m.hole) /\ n \in Nat /\ b \in Nat /\ c \in Nat
      /\ Shared(m, n, b, c) /\ (~m.swap_on => n = 0) /\ Room(m)
  BY DEF Part
<1>2. PICK h, t : h = free_mem(m.hole, b, c)
                  /\ t = (m.panic \/ (c # 0 /\ Len(m.hole) = NR_HOLES))
  OBVIOUS
<1>3. g = [m EXCEPT !.hole = h, !.panic = t]
  BY <1>2 DEF Free
<1>4. h \in Seq(HoleSet)
  <2>1. m.hole \in Seq(HoleSet) /\ \A x \in Nat : ~(Holds(m.hole, x) /\ In(b, c, x))
    BY <1>1, MemoryFields DEF Shared
  <2> QED
    BY <1>1, <1>2, <2>1, free_memKeeps
<1>5. t \in BOOLEAN
  <2>1. m.panic \in BOOLEAN
    BY <1>1 DEF Memory
  <2> QED
    BY <1>2, <2>1
<1>6. /\ g \in Memory /\ g.hole = h
      /\ g.mp_flags = m.mp_flags /\ g.mem_phys = m.mem_phys /\ g.size = m.size
      /\ g.in_queue = m.in_queue /\ g.swap_on = m.swap_on
      /\ g.current_algorithm = m.current_algorithm /\ g.panic = t
  BY <1>1, <1>3, <1>4, <1>5 DEF Memory
<1>7. Tidy(g.hole) /\ Shared(g, n, 0, 0)
  BY <1>1, <1>2, <1>6, FreeShares
<1>8. Room(g)
  <2> SUFFICES ASSUME Roomy PROVE ~t
    BY <1>6 DEF Room
  <2>1. PICK L, K : L = Len(m.hole) /\ K = Cardinality(Procs) + Len(Chunks) + 2
    OBVIOUS
  <2>2. L <= K
    BY <1>1, <2>1, HolesCounted
  <2>3. K \in Nat /\ L \in Nat
    <3>1. L \in Nat
      BY <1>1, <2>1, MemoryFields
    <3>2. Cardinality(Procs) \in Nat /\ Len(Chunks) \in Nat
      BY Slots, AllocAssumption
    <3> QED
      BY <2>1, <3>1, <3>2
  <2>4. L # NR_HOLES
    BY <2>1, <2>2, <2>3 DEF Roomy
  <2> QED
    BY <1>1, <1>2, <2>1, <2>4 DEF Room
<1> QED
  BY <1>1, <1>6, <1>7, <1>8 DEF Part
-----------------------------------------------------------------------------
(* Swapping out *)

\* What a call of swap_out, or several, may do to the processes: candidates
\* are swapped out.
After(m, g) ==
  /\ g.size = m.size /\ g.in_queue = m.in_queue
  /\ g.current_algorithm = m.current_algorithm /\ g.swap_on = m.swap_on
  /\ \A q \in Procs :
       \/ g.mp_flags[q] = m.mp_flags[q] /\ g.mem_phys[q] = m.mem_phys[q]
       \/ Candidate(m, q) /\ g.mp_flags[q] = m.mp_flags[q] \cup {"ONSWAP"}

\* The search of swap_out goes through the processes.
LEMMA Rounds ==
  ASSUME NEW p \in Procs
  PROVE  /\ DOMAIN RoundFrom(p) = 1..Cardinality(Procs)
         /\ \A i \in 1..Cardinality(Procs) : RoundFrom(p)[i] \in Procs
<1>1. PICK k, lo : k = Cardinality(Procs) /\ lo = LOW_USER
  OBVIOUS
<1>2. /\ k \in Nat /\ k > 0 /\ lo \in Nat /\ p \in Nat /\ p >= lo
      /\ Procs = lo..(lo + k - 1)
  BY <1>1, Slots
<1>3. ASSUME NEW i \in 1..k PROVE lo + ((p - lo + i) % k) \in lo..(lo + k - 1)
  <2>1. PICK j : j = p - lo + i
    OBVIOUS
  <2>2. j \in Nat
    BY <1>2, <2>1
  <2>3. j % k \in 0..(k - 1)
    BY <1>2, <2>2
  <2>4. PICK r : r = j % k
    OBVIOUS
  <2>5. lo + r \in lo..(lo + k - 1)
    BY <1>2, <2>3, <2>4
  <2> QED
    BY <2>1, <2>4, <2>5
<1> QED
  BY <1>1, <1>2, <1>3 DEF RoundFrom

\* SwappedOut takes a candidate out of memory and puts it in the swap area.
LEMMA SwappedOutKeeps ==
  ASSUME NEW m, NEW n, Sound(m, n), NEW p \in Procs, Candidate(m, p),
         NEW i \in SwapHoles(m, m.size[p]), NEW g, g = SwappedOut(m, p, i)
  PROVE  /\ Sound(g, n) /\ After(m, g)
         /\ "ONSWAP" \notin m.mp_flags[p] /\ "ONSWAP" \in g.mp_flags[p]
<1>1. /\ m \in Memory /\ Tidy(m.hole) /\ n \in Nat /\ Shared(m, n, 0, 0)
      /\ (~m.swap_on => n = 0) /\ Flagged(m) /\ (Separate(m) => Placed(m))
  BY DEF Sound, Part
<1>2. PICK fl, ph, c, b, d :
        fl = m.mp_flags[p] /\ ph = m.mem_phys /\ c = m.size[p]
        /\ b = m.hole[i].h_base /\ d = m.mem_phys[p]
  OBVIOUS
<1>3. /\ "BLOCKED" \in fl /\ "REPLY" \notin fl /\ "ONSWAP" \notin fl
      /\ fl \in SUBSET Flags /\ c \in Nat /\ d \in Nat /\ ph \in [Procs -> Nat]
  <2>1. /\ m.mem_phys \in [Procs -> Nat] /\ m.size \in [Procs -> Nat]
        /\ m.mp_flags \in [Procs -> SUBSET Flags]
    BY <1>1, MemoryFields
  <2> QED
    BY <1>2, <2>1 DEF Candidate
<1>4. c > 0 /\ p \in Live(m) /\ "SWAPIN" \notin fl
  BY <1>1, <1>2, <1>3 DEF Flagged
<1>5. i \in DOMAIN m.hole /\ b >= swap_base /\ c <= m.hole[i].h_len
  <2>1. /\ i \in DOMAIN m.hole /\ b >= swap_base /\ m.hole[i].h_len >= c
    BY <1>2 DEF SwapHoles
  <2>2. m.hole[i] \in HoleSet
    BY <1>1, <2>1, MemoryFields
  <2>3. m.hole[i].h_len \in Nat
    BY <2>2, HoleFields
  <2> QED
    BY <1>3, <2>1, <2>3
<1>6. PICK h, F, G, o, t : /\ h = TakeFrom(m.hole, i, c)
                           /\ F = [ph EXCEPT ![p] = b]
                           /\ o = fl \cup {"ONSWAP"}
                           /\ G = [m.mp_flags EXCEPT ![p] = o]
                           /\ t = [m EXCEPT !.hole = h]
  OBVIOUS
<1>7. h \in Seq(HoleSet)
  <2>1. m.hole \in Seq(HoleSet)
    BY <1>1, MemoryFields
  <2>2. i \in 1..Len(m.hole)
    BY <1>5, <2>1
  <2> QED
    BY <1>1, <1>3, <1>4, <1>5, <1>6, <2>1, <2>2, TakeFromKeeps
<1>8. /\ t \in Memory /\ t.hole = h /\ t.mp_flags = m.mp_flags /\ t.mem_phys = m.mem_phys
      /\ t.size = m.size
  BY <1>1, <1>6, <1>7 DEF Memory
<1>9. Tidy(h) /\ Shared(t, n, b, c) /\ b \in Nat /\ b > 0
  <2>1. m \in Memory /\ n \in Nat /\ Tidy(m.hole) /\ Shared(m, n, 0, 0)
    BY <1>1
  <2>2. i \in DOMAIN m.hole /\ c \in Nat /\ c > 0 /\ c <= m.hole[i].h_len
        /\ b = m.hole[i].h_base
    BY <1>2, <1>3, <1>4, <1>5
  <2>3. t \in Memory /\ t.hole = TakeFrom(m.hole, i, c) /\ t.mp_flags = m.mp_flags
        /\ t.mem_phys = m.mem_phys /\ t.size = m.size
    BY <1>6, <1>8
  <2>4. Tidy(t.hole) /\ Shared(t, n, b, c) /\ b \in Nat /\ b > 0
    BY <2>1, <2>2, <2>3, BiteShares
  <2> QED
    BY <1>8, <2>4
<1>10. /\ F \in [Procs -> Nat] /\ F[p] = b /\ \A q \in Procs \ {p} : F[q] = ph[q]
  BY <1>3, <1>6, <1>9
<1>11. /\ G \in [Procs -> SUBSET Flags] /\ G[p] = o
       /\ \A q \in Procs \ {p} : G[q] = m.mp_flags[q]
  <2>1. o \in SUBSET Flags
    BY <1>3, <1>6 DEF Flags
  <2>2. m.mp_flags \in [Procs -> SUBSET Flags]
    BY <1>1, MemoryFields
  <2> QED
    BY <1>6, <2>1, <2>2
<1>12. PICK u : u = [m EXCEPT !.hole = h, !.mem_phys = F, !.mp_flags = G, !.outswap = p]
  OBVIOUS
<1>13. /\ u \in Memory /\ u.hole = h /\ u.mem_phys = F /\ u.mp_flags = G
       /\ u.size = m.size /\ u.in_queue = m.in_queue /\ u.swap_on = m.swap_on
       /\ u.current_algorithm = m.current_algorithm
  BY <1>1, <1>7, <1>10, <1>11, <1>12 DEF Memory
<1>14. g = Free(u, d, c)
  BY <1>2, <1>6, <1>12 DEF SwappedOut
<1>15. /\ Live(u) = Live(m) /\ Live(t) = Live(m)
  <2>1. "IN_USE" \in o <=> "IN_USE" \in fl
    BY <1>6
  <2> QED
    BY <1>2, <1>8, <1>11, <1>13, <2>1 DEF Live
<1>16. Part(u, n, d, c)
  <2>1. \A q \in Procs \ {p} :
           /\ q \in Live(u) <=> q \in Live(t)
           /\ u.mem_phys[q] = t.mem_phys[q] /\ u.size[q] = t.size[q]
    BY <1>2, <1>8, <1>10, <1>13, <1>15
  <2>2. /\ u.mem_phys[p] = b /\ u.size[p] = c /\ d = t.mem_phys[p] /\ c = t.size[p]
        /\ p \in Live(t) /\ p \in Live(u) /\ u.hole = t.hole
    BY <1>2, <1>4, <1>8, <1>10, <1>13, <1>15
  <2>3. Shared(u, n, d, c)
    <3>1. t \in Memory /\ u \in Memory /\ n \in Nat /\ b \in Nat /\ c \in Nat
          /\ d \in Nat /\ Shared(t, n, b, c)
      BY <1>1, <1>3, <1>8, <1>9, <1>13
    <3> QED
      BY <2>1, <2>2, <3>1, ExchangeShares
  <2>4. Room(u)
    <3>1. Room(m) /\ m \in Memory
      BY <1>1 DEF Sound, Part
    <3>2. u.panic = m.panic
      BY <1>12, <3>1 DEF Memory
    <3> QED
      BY <3>1, <3>2 DEF Room
  <2> QED
    BY <1>1, <1>3, <1>9, <1>13, <2>3, <2>4 DEF Part
<1>17. /\ Part(g, n, 0, 0)
       /\ g.mp_flags = G /\ g.mem_phys = F /\ g.size = m.size
       /\ g.in_queue = m.in_queue /\ g.swap_on = m.swap_on
       /\ g.current_algorithm = m.current_algorithm
  BY <1>13, <1>14, <1>16, FreeKeeps
<1>18. Live(g) = Live(m)
  BY <1>13, <1>15, <1>17 DEF Live
<1>19. After(m, g)
  <2>1. ASSUME NEW q \in Procs
        PROVE  \/ g.mp_flags[q] = m.mp_flags[q] /\ g.mem_phys[q] = m.mem_phys[q]
               \/ Candidate(m, q) /\ g.mp_flags[q] = m.mp_flags[q] \cup {"ONSWAP"}
    <3>1. CASE q = p
      BY <1>2, <1>6, <1>11, <1>17, <3>1
    <3>2. CASE q # p
      BY <1>2, <1>10, <1>11, <1>17, <3>2
    <3> QED
      BY <3>1, <3>2
  <2> QED
    BY <1>17, <2>1 DEF After
<1>20. Flagged(g)
  <2> SUFFICES ASSUME NEW q \in Procs
      PROVE /\ g.mp_flags[q] # {} => q \in Live(g) /\ g.size[q] > 0
            /\ "SWAPIN" \in g.mp_flags[q] => "ONSWAP" \in g.mp_flags[q]
            /\ {"REPLY", "ONSWAP"} \subseteq g.mp_flags[q] =>
                 "SWAPIN" \in g.mp_flags[q]
    BY DEF Flagged
  <2>1. CASE q = p
    <3>1. g.mp_flags[q] = o /\ g.size[q] = c /\ q \in Live(g) /\ "REPLY" \notin o
      BY <1>2, <1>3, <1>4, <1>6, <1>11, <1>17, <1>18, <2>1
    <3>2. "ONSWAP" \in o
      BY <1>6
    <3> QED
      BY <1>4, <3>1, <3>2
  <2>2. CASE q # p
    <3>1. g.mp_flags[q] = m.mp_flags[q] /\ g.size[q] = m.size[q]
      BY <1>11, <1>17, <2>2
    <3> QED
      BY <1>1, <1>18, <3>1 DEF Flagged
  <2> QED
    BY <2>1, <2>2
<1>21. ASSUME Separate(g) PROVE Placed(g)
  <2>1. Placed(m)
    BY <1>1, <1>17, <1>21 DEF Separate
  <2> SUFFICES ASSUME NEW q \in Live(g)
      PROVE "ONSWAP" \in g.mp_flags[q] <=> g.mem_phys[q] >= swap_base
    BY DEF Placed
  <2>2. CASE q = p
    BY <1>5, <1>6, <1>10, <1>11, <1>17, <2>2
  <2>3. CASE q # p
    <3>1. q \in Procs /\ q \in Live(m)
      BY <1>18 DEF Live
    <3>2. g.mp_flags[q] = m.mp_flags[q] /\ g.mem_phys[q] = m.mem_phys[q]
      BY <1>2, <1>10, <1>11, <1>17, <2>3, <3>1
    <3> QED
      BY <2>1, <3>1, <3>2 DEF Placed
  <2> QED
    BY <2>2, <2>3
<1>22. "ONSWAP" \in g.mp_flags[p]
  BY <1>6, <1>11, <1>17
<1> QED
  BY <1>2, <1>3, <1>17, <1>19, <1>20, <1>21, <1>22 DEF Sound

\* swap_out swaps out a candidate, or nothing changes.
LEMMA swap_outKeeps ==
  ASSUME NEW m, NEW n, Sound(m, n), NEW g, g = swap_out(m)
  PROVE  /\ Sound(g, n) /\ After(m, g)
         /\ \/ g = m
            \/ \E p \in Procs : "ONSWAP" \notin m.mp_flags[p]
                                /\ "ONSWAP" \in g.mp_flags[p]
<1>1. After(m, m)
  BY DEF After
<1>2. PICK round, k : round = RoundFrom(m.outswap) /\ k = Cardinality(Procs)
  OBVIOUS
<1>3. m.outswap \in Procs /\ DOMAIN m.hole \subseteq Nat
  <2>1. m \in Memory
    BY DEF Sound, Part
  <2>2. m.outswap \in Procs /\ m.hole \in Seq(HoleSet)
    BY <2>1, MemoryFields
  <2> QED
    BY <2>2
<1>4. k \in Nat /\ DOMAIN round = 1..k /\ \A i \in 1..k : round[i] \in Procs
  BY <1>2, <1>3, Rounds, Slots
<1>5. PICK able : able = {i \in DOMAIN round : Candidate(m, round[i])
                            /\ SwapHoles(m, m.size[round[i]]) # {}}
  OBVIOUS
<1>6. CASE able = {}
  <2>1. g = m
    BY <1>2, <1>5, <1>6 DEF swap_out
  <2> QED
    BY <1>1, <2>1
<1>7. CASE able # {}
  <2>1. PICK p : p = round[Min(able)]
    OBVIOUS
  <2>2. Min(able) \in able
    <3>1. able \in SUBSET Nat
      BY <1>4, <1>5
    <3> QED
      BY <1>7, <3>1, LeastNumber
  <2>3. p \in Procs /\ Candidate(m, p) /\ SwapHoles(m, m.size[p]) # {}
    BY <1>4, <1>5, <2>1, <2>2
  <2>4. PICK i : i = Min(SwapHoles(m, m.size[p]))
    OBVIOUS
  <2>5. i \in SwapHoles(m, m.size[p])
    <3>1. SwapHoles(m, m.size[p]) \in SUBSET Nat
      BY <1>3 DEF SwapHoles
    <3> QED
      BY <2>3, <2>4, <3>1, LeastNumber
  <2>6. g = SwappedOut(m, p, i)
    BY <1>2, <1>5, <1>7, <2>1, <2>4 DEF swap_out
  <2> QED
    BY <2>3, <2>5, <2>6, SwappedOutKeeps
<1> QED
  BY <1>6, <1>7

\* Several calls of swap_out
LEMMA AfterAfter ==
  ASSUME NEW m, NEW f, NEW g, After(m, f), After(f, g)
  PROVE  After(m, g)
<1>1. /\ g.size = m.size /\ g.in_queue = m.in_queue
      /\ g.current_algorithm = m.current_algorithm /\ g.swap_on = m.swap_on
  BY DEF After
<1>2. ASSUME NEW q \in Procs
      PROVE  \/ g.mp_flags[q] = m.mp_flags[q] /\ g.mem_phys[q] = m.mem_phys[q]
             \/ Candidate(m, q) /\ g.mp_flags[q] = m.mp_flags[q] \cup {"ONSWAP"}
  <2>1. \/ g.mp_flags[q] = f.mp_flags[q] /\ g.mem_phys[q] = f.mem_phys[q]
        \/ Candidate(f, q) /\ g.mp_flags[q] = f.mp_flags[q] \cup {"ONSWAP"}
    BY DEF After
  <2>2. \/ f.mp_flags[q] = m.mp_flags[q] /\ f.mem_phys[q] = m.mem_phys[q]
        \/ Candidate(m, q) /\ f.mp_flags[q] = m.mp_flags[q] \cup {"ONSWAP"}
    BY DEF After
  <2>3. Candidate(f, q) => "ONSWAP" \notin f.mp_flags[q]
    BY DEF Candidate
  <2>4. Candidate(f, q) /\ f.mp_flags[q] = m.mp_flags[q] => Candidate(m, q)
    BY DEF Candidate
  <2> QED
    BY <2>1, <2>2, <2>3, <2>4
<1> QED
  BY <1>1, <1>2 DEF After
-----------------------------------------------------------------------------
(* Allocating memory *)

\* The search of worst fit ends with a hole.
LEMMA BiggestExists ==
  ASSUME NEW h \in Seq(HoleSet), Tidy(h), h # << >>
  PROVE  /\ Biggest(h) \in DOMAIN h
         /\ \A j \in InRam(h) : h[j].h_len <= h[Biggest(h)].h_len
<1>1. PICK n, R : n = Len(h) /\ R = InRam(h) \cup {1}
  OBVIOUS
<1>2. /\ n \in Nat /\ n > 0 /\ DOMAIN h = 1..n /\ 1 \in R /\ R \subseteq 1..n
  BY <1>1 DEF InRam
<1>3. \A j \in 1..n : /\ h[j].h_base \in Nat /\ h[j].h_len \in Nat
                      /\ h[j].h_len > 0 /\ End(h[j]) = h[j].h_base + h[j].h_len
  BY <1>1, TidyOrdered, OrderedHoles
<1>4. PICK N : N = End(h[n])
  OBVIOUS
<1>5. n \in 1..n /\ N \in Nat
  BY <1>2, <1>3, <1>4
<1>6. ASSUME NEW j \in 1..n PROVE h[j].h_len \in 0..N
  <2>1. j = n \/ End(h[j]) < h[n].h_base
    BY <1>1, <1>2, <1>5, AllTidy
  <2>2. PICK b, c, d, e : b = h[j].h_base /\ c = h[j].h_len
                          /\ d = h[n].h_base /\ e = h[n].h_len
    OBVIOUS
  <2>3. b \in Nat /\ c \in Nat /\ d \in Nat /\ e \in Nat /\ N = d + e
        /\ End(h[j]) = b + c
    BY <1>3, <1>4, <1>5, <2>2
  <2>4. (b = d /\ c = e) \/ b + c < d
    BY <2>1, <2>2, <2>3
  <2>5. c \in 0..N
    BY <2>3, <2>4
  <2> QED
    BY <2>2, <2>5
<1>7. PICK L : L = {h[j].h_len : j \in R}
  OBVIOUS
<1>8. L \in SUBSET (0..N) /\ L # {}
  BY <1>2, <1>6, <1>7
<1>9. PICK y \in L : \A z \in L : z <= y
  BY <1>5, <1>8, GreatestNumber
<1>10. PICK i \in R : y = h[i].h_len
  BY <1>7, <1>9
<1>11. ASSUME NEW j \in R PROVE h[i].h_len >= h[j].h_len
  <2>1. h[j].h_len <= y
    BY <1>7, <1>9
  <2>2. j \in 1..n /\ i \in 1..n
    BY <1>2
  <2>3. h[j].h_len \in Nat /\ y \in Nat
    BY <1>3, <1>10, <2>2
  <2> QED
    BY <1>10, <2>1, <2>3
<1>12. PICK S : S = {k \in R : \A j \in R : h[k].h_len >= h[j].h_len}
  OBVIOUS
<1>13. S # {} /\ S \in SUBSET Nat
  <2>1. i \in S
    BY <1>11, <1>12
  <2>2. S \subseteq R /\ R \subseteq Nat
    BY <1>2, <1>12
  <2> QED
    BY <2>1, <2>2
<1>14. Min(S) \in S
  BY <1>13, LeastNumber
<1>15. Biggest(h) = Min(S)
  BY <1>1, <1>12 DEF Biggest
<1>16. PICK k : k = Biggest(h)
  OBVIOUS
<1>17. k \in 1..n /\ \A j \in R : h[k].h_len >= h[j].h_len
  BY <1>2, <1>12, <1>14, <1>15, <1>16
<1>18. ASSUME NEW j \in InRam(h) PROVE h[j].h_len <= h[k].h_len
  <2>1. j \in R /\ j \in 1..n
    BY <1>1, <1>2
  <2>2. h[j].h_len \in Nat /\ h[k].h_len \in Nat
    BY <1>3, <1>17, <2>1
  <2> QED
    BY <1>17, <2>1, <2>2
<1> QED
  BY <1>2, <1>16, <1>17, <1>18

\* The clicks of a hole are of the memory or of the swap area.
LEMMA HolesInArea ==
  ASSUME NEW m, NEW n, NEW b, NEW c, Part(m, n, b, c), NEW i \in DOMAIN m.hole
  PROVE  /\ i \in 1..Len(m.hole)
         /\ m.hole[i].h_base \in Nat /\ m.hole[i].h_len \in Nat /\ m.hole[i].h_len > 0
         /\ \A x \in Nat : In(m.hole[i].h_base, m.hole[i].h_len, x) => Area(n, x)
         /\ n = 0 => m.hole[i].h_base < swap_base
<1>1. m \in Memory /\ Tidy(m.hole) /\ n \in Nat /\ Shared(m, n, b, c)
  BY DEF Part
<1>2. m.hole \in Seq(HoleSet)
  BY <1>1, MemoryFields
<1>3. i \in 1..Len(m.hole) /\ m.hole[i].h_base \in Nat /\ m.hole[i].h_len \in Nat
      /\ m.hole[i].h_len > 0
  <2>1. i \in 1..Len(m.hole)
    BY <1>2
  <2> QED
    BY <1>1, <1>2, <2>1, TidyOrdered, OrderedHoles
<1>4. \A x \in Nat : In(m.hole[i].h_base, m.hole[i].h_len, x) => Area(n, x)
  BY <1>1 DEF Shared, Holds
<1>5. PICK v, w : v = m.hole[i].h_base /\ w = m.hole[i].h_len
  OBVIOUS
<1>6. v \in Nat /\ w \in Nat /\ w > 0 /\ \A x \in Nat : In(v, w, x) => Area(n, x)
  BY <1>3, <1>4, <1>5
<1>7. ASSUME n = 0 PROVE v < swap_base
  <2>1. In(v, w, v) /\ (v >= swap_base => In(swap_base, n, v))
    BY <1>1, <1>6, NotAcross
  <2>2. ~In(swap_base, n, v)
    BY <1>6, <1>7, Gapped DEF In
  <2> QED
    BY <1>6, <2>1, <2>2, Gapped
<1> QED
  BY <1>3, <1>4, <1>5, <1>7

\* The hole alloc_mem takes fits, and lies in memory.
LEMMA ChosenFits ==
  ASSUME NEW m, NEW n, Sound(m, n), NEW c \in Nat, NEW i, i = ChosenHole(m, c), i # 0
  PROVE  /\ i \in DOMAIN m.hole /\ c <= m.hole[i].h_len
         /\ Separate(m) => m.hole[i].h_base < swap_base
<1>1. Part(m, n, 0, 0) /\ m \in Memory /\ Tidy(m.hole) /\ (~m.swap_on => n = 0)
  BY DEF Sound, Part
<1>2. /\ m.hole \in Seq(HoleSet) /\ DOMAIN m.hole \subseteq Nat
      /\ m.current_algorithm \in {FIRST, WORST}
  <2>1. m.hole \in Seq(HoleSet) /\ m.current_algorithm \in {FIRST, WORST}
    BY <1>1, MemoryFields
  <2> QED
    BY <2>1
<1>3. \A j \in DOMAIN m.hole : m.hole[j].h_len \in Nat
  BY <1>1, HolesInArea
<1>4. CASE m.current_algorithm = FIRST
  <2>1. PICK S : S = FirstFit(m.hole, c)
    OBVIOUS
  <2>2. S # {} /\ i = Min(S)
    BY <1>4, <2>1 DEF ChosenHole
  <2>3. S \in SUBSET Nat
    BY <1>2, <2>1 DEF FirstFit, InRam
  <2>4. i \in S
    BY <2>2, <2>3, LeastNumber
  <2>5. i \in DOMAIN m.hole /\ m.hole[i].h_base < swap_base /\ m.hole[i].h_len >= c
    BY <2>1, <2>4 DEF FirstFit, InRam
  <2> QED
    BY <1>3, <2>5
<1>5. CASE m.current_algorithm # FIRST
  <2>1. m.hole # << >> /\ m.hole[Biggest(m.hole)].h_len >= c /\ i = Biggest(m.hole)
    BY <1>5 DEF ChosenHole
  <2>2. i \in DOMAIN m.hole
    BY <1>1, <1>2, <2>1, BiggestExists
  <2>3. ASSUME Separate(m) PROVE m.hole[i].h_base < swap_base
    <3>1. n = 0
      BY <1>1, <1>2, <1>5, <2>3 DEF Separate
    <3> QED
      BY <1>1, <2>2, <3>1, HolesInArea
  <2> QED
    BY <1>3, <2>1, <2>2, <2>3
<1> QED
  BY <1>4, <1>5

\* What alloc_mem may come to: memory of c clicks at base, or none
Answer(r, m, n, c) ==
  /\ After(m, r.m) /\ Flagged(r.m) /\ (Separate(r.m) => Placed(r.m))
  /\ \/ r.base = NO_MEM /\ Part(r.m, n, 0, 0)
     \/ /\ r.base \in Nat /\ r.base # NO_MEM /\ Part(r.m, n, r.base, c)
        /\ Separate(r.m) => r.base < swap_base

\* The last part of alloc_mem
LEMMA BiteAnswers ==
  ASSUME NEW m, NEW n, Sound(m, n), NEW c \in Nat, c > 0
  PROVE  Answer(BiteOrFail(m, c), m, n, c)
<1>1. /\ m \in Memory /\ Tidy(m.hole) /\ n \in Nat /\ Shared(m, n, 0, 0)
      /\ (~m.swap_on => n = 0) /\ Flagged(m) /\ (Separate(m) => Placed(m))
      /\ Part(m, n, 0, 0)
  BY DEF Sound, Part
<1>2. PICK i, r : i = ChosenHole(m, c) /\ r = BiteOrFail(m, c)
  OBVIOUS
<1>3. CASE FollowsNil(m)
  <2>1. PICK g : g = [m EXCEPT !.wild = TRUE]
    OBVIOUS
  <2>2. r.m = g /\ r.base = NO_MEM
    BY <1>2, <1>3, <2>1 DEF BiteOrFail, Bite
  <2>3. /\ g \in Memory /\ g.hole = m.hole /\ g.mp_flags = m.mp_flags
        /\ g.mem_phys = m.mem_phys /\ g.size = m.size /\ g.swap_on = m.swap_on
        /\ g.in_queue = m.in_queue /\ g.current_algorithm = m.current_algorithm
    BY <1>1, <2>1 DEF Memory
  <2>4. Live(g) = Live(m) /\ \A p, x : Has(g, p, x) = Has(m, p, x)
    BY <2>3 DEF Live, Has
  <2>5. Shared(g, n, 0, 0)
    BY <1>1, <2>3, <2>4 DEF Shared
  <2>6. Flagged(g) /\ (Separate(g) => Placed(g))
    BY <1>1, <2>3, <2>4 DEF Flagged, Separate, Placed
  <2>7. After(m, g)
    BY <2>3 DEF After
  <2>8. Part(g, n, 0, 0)
    <3>1. Room(m) /\ g.panic = m.panic
      BY <1>1, <2>1 DEF Part, Memory
    <3>2. Room(g)
      BY <3>1 DEF Room
    <3> QED
      BY <1>1, <2>3, <2>5, <3>2 DEF Part
  <2> QED
    BY <1>2, <2>2, <2>6, <2>7, <2>8 DEF Answer
<1>4. CASE ~FollowsNil(m) /\ i = 0
  <2>1. r.m = m /\ r.base = NO_MEM
    BY <1>2, <1>4 DEF BiteOrFail, Bite
  <2>2. After(m, m)
    BY DEF After
  <2> QED
    BY <1>1, <1>2, <2>1, <2>2 DEF Answer
<1>5. CASE ~FollowsNil(m) /\ i # 0
  <2>1. PICK h, g, b : h = TakeFrom(m.hole, i, c) /\ g = [m EXCEPT !.hole = h]
                       /\ b = m.hole[i].h_base
    OBVIOUS
  <2>2. r.m = g /\ r.base = b
    BY <1>2, <1>5, <2>1 DEF BiteOrFail, Bite
  <2>3. /\ i \in DOMAIN m.hole /\ c <= m.hole[i].h_len
        /\ (Separate(m) => b < swap_base)
    BY <1>2, <1>5, <2>1, ChosenFits
  <2>4. m.hole \in Seq(HoleSet) /\ i \in 1..Len(m.hole)
    BY <1>1, <2>3, MemoryFields, HolesInArea
  <2>5. h \in Seq(HoleSet)
    BY <1>1, <2>1, <2>3, <2>4, TakeFromKeeps
  <2>6. /\ g \in Memory /\ g.hole = h /\ g.mp_flags = m.mp_flags
        /\ g.mem_phys = m.mem_phys /\ g.size = m.size /\ g.swap_on = m.swap_on
        /\ g.in_queue = m.in_queue /\ g.current_algorithm = m.current_algorithm
    BY <1>1, <2>1, <2>5 DEF Memory
  <2>7. Tidy(g.hole) /\ Shared(g, n, b, c) /\ b \in Nat /\ b > 0
    <3>1. g.hole = TakeFrom(m.hole, i, c)
      BY <2>1, <2>6
    <3>2. m \in Memory /\ n \in Nat /\ Tidy(m.hole) /\ Shared(m, n, 0, 0)
      BY <1>1
    <3>3. i \in DOMAIN m.hole /\ c <= m.hole[i].h_len /\ b = m.hole[i].h_base
      BY <2>1, <2>3
    <3>4. g \in Memory /\ g.mp_flags = m.mp_flags /\ g.mem_phys = m.mem_phys
          /\ g.size = m.size
      BY <2>6
    <3> QED
      BY <3>1, <3>2, <3>3, <3>4, BiteShares
  <2>8. Live(g) = Live(m)
    BY <2>6 DEF Live
  <2>9. Flagged(g) /\ (Separate(g) => Placed(g) /\ b < swap_base)
    BY <1>1, <2>3, <2>6, <2>8 DEF Flagged, Separate, Placed
  <2>10. After(m, g)
    BY <2>6 DEF After
  <2>11. Part(g, n, b, c)
    <3>1. Room(m) /\ g.panic = m.panic
      BY <1>1, <2>1 DEF Part, Memory
    <3>2. Room(g)
      BY <3>1 DEF Room
    <3> QED
      BY <1>1, <2>6, <2>7, <3>2 DEF Part
  <2>12. b # NO_MEM
    BY <2>7 DEF NO_MEM
  <2> QED
    BY <1>2, <2>2, <2>7, <2>9, <2>10, <2>11, <2>12 DEF Answer
<1> QED
  BY <1>2, <1>3, <1>4, <1>5

\* Who is swapped out
OnSwap(m) == {p \in Procs : "ONSWAP" \in m.mp_flags[p]}

\* The calls of swap_out come to an end: each swaps somebody out.
LEMMA TriesEnd ==
  ASSUME NEW k, k = Cardinality(Procs), NEW f,
         \A i \in 1..(k + 1) :
           \/ f[i] = f[i - 1]
           \/ /\ After(f[i - 1], f[i])
              /\ \E p \in Procs : "ONSWAP" \notin f[i - 1].mp_flags[p]
                                  /\ "ONSWAP" \in f[i].mp_flags[p]
  PROVE  \E i \in 0..k : f[i + 1] = f[i]
<1>1. k \in Nat /\ IsFiniteSet(Procs)
  BY Slots
<1>2. \A t : /\ IsFiniteSet(OnSwap(t)) /\ Cardinality(OnSwap(t)) \in Nat
             /\ Cardinality(OnSwap(t)) <= k
  <2> TAKE t
  <2>1. OnSwap(t) \subseteq Procs
    BY DEF OnSwap
  <2> QED
    BY <1>1, <2>1, FS_Subset, FS_CardinalityType
<1> SUFFICES ASSUME \A i \in 0..k : f[i + 1] # f[i] PROVE FALSE
  OBVIOUS
<1>3. PICK P : P = {i \in 0..(k + 1) : Cardinality(OnSwap(f[i])) >= i}
  OBVIOUS
<1>4. 0 \in P
  BY <1>1, <1>2, <1>3
<1>5. ASSUME NEW i \in 1..(k + 1), i - 1 \in P PROVE i \in P
  <2>1. PICK g, h : g = f[i - 1] /\ h = f[i]
    OBVIOUS
  <2>2. i - 1 \in 0..k /\ (i - 1) + 1 = i
    BY <1>1
  <2>3. h # g
    BY <2>1, <2>2
  <2>4. /\ After(g, h)
        /\ \E p \in Procs : "ONSWAP" \notin g.mp_flags[p] /\ "ONSWAP" \in h.mp_flags[p]
    BY <2>1, <2>3
  <2>5. PICK p \in Procs : "ONSWAP" \notin g.mp_flags[p] /\ "ONSWAP" \in h.mp_flags[p]
    BY <2>4
  <2>6. \A q \in Procs : "ONSWAP" \in g.mp_flags[q] => "ONSWAP" \in h.mp_flags[q]
    BY <2>4 DEF After
  <2>7. OnSwap(g) \cup {p} \subseteq OnSwap(h) /\ p \notin OnSwap(g)
    BY <2>5, <2>6 DEF OnSwap
  <2>8. Cardinality(OnSwap(g) \cup {p}) = Cardinality(OnSwap(g)) + 1
    BY <1>2, <2>7, FS_AddElement
  <2>9. Cardinality(OnSwap(g) \cup {p}) <= Cardinality(OnSwap(h))
    BY <1>2, <2>7, FS_Subset
  <2>10. Cardinality(OnSwap(g)) >= i - 1
    BY <1>3, <1>5, <2>1
  <2>11. Cardinality(OnSwap(h)) >= i
    <3>1. Cardinality(OnSwap(g)) \in Nat /\ Cardinality(OnSwap(h)) \in Nat
      BY <1>2
    <3> QED
      BY <2>2, <2>8, <2>9, <2>10, <3>1
  <2> QED
    BY <1>1, <1>3, <2>1, <2>11
<1>6. 0..(k + 1) \subseteq P
  BY <1>1, <1>4, <1>5, Upward
<1>7. Cardinality(OnSwap(f[k + 1])) >= k + 1
  BY <1>1, <1>3, <1>6
<1> QED
  BY <1>1, <1>2, <1>7

\* alloc_mem swaps processes out until it has an answer.
LEMMA alloc_memAnswers ==
  ASSUME NEW m, NEW n, Sound(m, n), NEW c \in Nat, c > 0
  PROVE  Answer(alloc_mem(m, c), m, n, c)
<1>1. PICK k, N : k = Cardinality(Procs) /\ N = k + 1
  OBVIOUS
<1>2. k \in Nat /\ N \in Nat /\ N = k + 1
  BY <1>1, Slots
<1>3. PICK Good : Good = {t \in Memory : Sound(t, n)}
  OBVIOUS
<1>4. \A t : Sound(t, n) <=> t \in Good
  BY <1>3 DEF Sound, Part
<1>5. PICK D, S : D = [i \in 0..N |-> Good]
                  /\ S = [i \in 1..N |-> [t \in Good |-> swap_out(t)]]
  OBVIOUS
<1>6. m \in D[0] /\ \A i \in 1..N : \A t \in D[i - 1] : S[i][t] \in D[i]
  <2>1. \A t \in Good : swap_out(t) \in Good
    BY <1>4, swap_outKeeps
  <2>2. \A i \in 0..N : D[i] = Good
    BY <1>5
  <2>3. \A i \in 1..N : i - 1 \in 0..N /\ i \in 0..N
    BY <1>2
  <2>4. \A i \in 1..N : \A t \in Good : S[i][t] = swap_out(t)
    BY <1>5
  <2>5. 0 \in 0..N
    BY <1>2
  <2> QED
    BY <1>4, <2>1, <2>2, <2>3, <2>4, <2>5
<1>7. PICK e : /\ e = [i \in 0..N |-> IF i = 0 THEN m ELSE S[i][e[i - 1]]]
               /\ \A i \in 0..N : e[i] \in D[i]
  <2>1. N \in Nat /\ m \in D[0]
    BY <1>2, <1>6
  <2>2. \A i \in 1..N : \A t \in D[i - 1] : S[i][t] \in D[i]
    BY <1>6
  <2>3. PICK f : Along(f, N, m, S) /\ \A i \in 0..N : f[i] \in D[i]
    BY <2>1, <2>2, Recursion
  <2> QED
    BY <2>3 DEF Along
<1>8. e = [i \in 0..N |-> IF i = 0 THEN m ELSE swap_out(e[i - 1])]
  <2>1. ASSUME NEW i \in 0..N
        PROVE  e[i] = IF i = 0 THEN m ELSE swap_out(e[i - 1])
    <3>1. CASE i = 0
      BY <1>7, <3>1
    <3>2. CASE i # 0
      <4>1. i \in 1..N /\ i - 1 \in 0..N
        BY <1>2, <3>2
      <4>2. e[i] = S[i][e[i - 1]] /\ e[i - 1] \in Good
        BY <1>5, <1>7, <3>2, <4>1
      <4> QED
        BY <1>5, <3>2, <4>1, <4>2
    <3> QED
      BY <3>1, <3>2
  <2> QED
    BY <1>7, <2>1
<1>9. PICK f : f = CHOOSE g :
                     g = [i \in 0..(Cardinality(Procs) + 1) |->
                            IF i = 0 THEN m ELSE swap_out(g[i - 1])]
  OBVIOUS
<1>10. f = [i \in 0..N |-> IF i = 0 THEN m ELSE swap_out(f[i - 1])]
  BY <1>1, <1>8, <1>9
<1>11. PICK P : P = {i \in 0..N : Sound(f[i], n) /\ After(m, f[i])}
  OBVIOUS
<1>12. 0 \in P
  <2>1. f[0] = m /\ 0 \in 0..N
    BY <1>2, <1>10
  <2>2. After(m, m)
    BY DEF After
  <2> QED
    BY <1>11, <2>1, <2>2
<1>13. \A i \in 1..N : i - 1 \in 0..N /\ i # 0 /\ i \in 0..N /\ f[i] = swap_out(f[i - 1])
  <2>1. \A i \in 1..N : i - 1 \in 0..N /\ i # 0 /\ i \in 0..N
    BY <1>2
  <2> QED
    BY <1>10, <2>1
<1>14. ASSUME NEW i \in 1..N, i - 1 \in P PROVE i \in P
  <2>1. Sound(f[i - 1], n) /\ After(m, f[i - 1])
    BY <1>11, <1>14
  <2>2. Sound(f[i], n) /\ After(f[i - 1], f[i])
    BY <1>13, <2>1, swap_outKeeps
  <2>3. After(m, f[i])
    BY <2>1, <2>2, AfterAfter
  <2> QED
    BY <1>11, <1>13, <2>2, <2>3
<1>15. \A i \in 0..N : Sound(f[i], n) /\ After(m, f[i])
  <2>1. 0..N \subseteq P
    BY <1>2, <1>12, <1>14, Upward
  <2> QED
    BY <1>11, <2>1
<1>16. \E i \in 0..k : f[i + 1] = f[i]
  <2>1. \A i \in 1..(k + 1) :
           \/ f[i] = f[i - 1]
           \/ /\ After(f[i - 1], f[i])
              /\ \E p \in Procs : "ONSWAP" \notin f[i - 1].mp_flags[p]
                                  /\ "ONSWAP" \in f[i].mp_flags[p]
    BY <1>2, <1>13, <1>15, swap_outKeeps
  <2> QED
    BY <1>1, <2>1, TriesEnd
<1>17. PICK T : T = {i \in 0..Cardinality(Procs) :
               \/ ChosenHole(f[i], c) # 0 \/ FollowsNil(f[i])
               \/ f[i + 1] = f[i]}
  OBVIOUS
<1>18. T # {} /\ T \in SUBSET Nat /\ T \subseteq 0..N
  BY <1>1, <1>2, <1>16, <1>17
<1>19. PICK l : l = Min(T)
  OBVIOUS
<1>20. l \in 0..N
  BY <1>18, <1>19, LeastNumber
<1>21. alloc_mem(m, c) = BiteOrFail(f[l], c)
  <2>1. LastTry(f, c) = f[l]
    BY <1>17, <1>19 DEF LastTry
  <2> QED
    BY <1>9, <2>1 DEF alloc_mem
<1>22. Answer(alloc_mem(m, c), f[l], n, c) /\ After(m, f[l])
  BY <1>15, <1>20, <1>21, BiteAnswers
<1>23. PICK r : r = alloc_mem(m, c)
  OBVIOUS
<1>24. After(m, r.m)
  BY <1>22, <1>23, AfterAfter DEF Answer
<1> QED
  BY <1>22, <1>23, <1>24 DEF Answer
-----------------------------------------------------------------------------
(* Swapping in *)

\* An operation that leaves the memory and the flags alone
LEMMA SameSound ==
  ASSUME NEW m, NEW n, Sound(m, n), NEW g \in Memory,
         g.hole = m.hole, g.mp_flags = m.mp_flags, g.mem_phys = m.mem_phys,
         g.size = m.size, g.swap_on = m.swap_on,
         g.current_algorithm = m.current_algorithm, g.panic = m.panic
  PROVE  Sound(g, n)
<1>1. /\ m \in Memory /\ Tidy(m.hole) /\ n \in Nat /\ Shared(m, n, 0, 0)
      /\ (~m.swap_on => n = 0) /\ Flagged(m) /\ (Separate(m) => Placed(m))
      /\ Room(g)
  BY DEF Sound, Part, Room
<1>2. Live(g) = Live(m) /\ \A p, x : Has(g, p, x) = Has(m, p, x)
  BY DEF Live, Has
<1>3. Shared(g, n, 0, 0)
  BY <1>1, <1>2 DEF Shared
<1>4. Flagged(g) /\ (Separate(g) => Placed(g))
  BY <1>1, <1>2 DEF Flagged, Separate, Placed
<1> QED
  BY <1>1, <1>3, <1>4 DEF Sound, Part

\* SwappedIn puts a process into memory, and its place in the swap area comes
\* free.
LEMMA SwappedInKeeps ==
  ASSUME NEW m, NEW n, Sound(m, n), NEW p \in Procs, "SWAPIN" \in m.mp_flags[p],
         NEW a, Answer(a, m, n, m.size[p]), a.base # NO_MEM,
         NEW g, g = SwappedIn(m, p, a)
  PROVE  /\ Sound(g, n) /\ g.in_queue = m.in_queue /\ g.swap_on = m.swap_on
         /\ g.current_algorithm = m.current_algorithm
         /\ \A q \in Procs : "SWAPIN" \in g.mp_flags[q] <=>
                             q # p /\ "SWAPIN" \in m.mp_flags[q]
<1>1. m \in Memory /\ Flagged(m)
  BY DEF Sound, Part
<1>2. PICK f, b, c, d : f = a.m /\ b = a.base /\ c = m.size[p] /\ d = m.mem_phys[p]
  OBVIOUS
<1>3. /\ After(m, f) /\ Flagged(f) /\ b \in Nat /\ Part(f, n, b, c)
      /\ (Separate(f) => Placed(f) /\ b < swap_base)
  BY <1>2 DEF Answer
<1>4. /\ f \in Memory /\ Tidy(f.hole) /\ n \in Nat /\ c \in Nat
      /\ Shared(f, n, b, c) /\ (~f.swap_on => n = 0)
  BY <1>3 DEF Part
<1>5. /\ f.size = m.size /\ f.in_queue = m.in_queue
      /\ f.current_algorithm = m.current_algorithm /\ f.swap_on = m.swap_on
      /\ \A q \in Procs : "SWAPIN" \in f.mp_flags[q] <=> "SWAPIN" \in m.mp_flags[q]
  BY <1>3 DEF After
<1>6. f.mp_flags[p] = m.mp_flags[p] /\ f.mem_phys[p] = d /\ f.size[p] = c
  <2>1. "ONSWAP" \in m.mp_flags[p]
    BY <1>1 DEF Flagged
  <2>2. ~Candidate(m, p)
    BY <2>1 DEF Candidate
  <2> QED
    BY <1>2, <1>3, <1>5, <2>2 DEF After
<1>7. PICK fl : fl = m.mp_flags[p]
  OBVIOUS
<1>8. fl \in SUBSET Flags /\ d \in Nat /\ p \in Live(f) /\ p \in Live(m) /\ c > 0
  <2>1. m.mem_phys \in [Procs -> Nat] /\ m.mp_flags \in [Procs -> SUBSET Flags]
    BY <1>1, MemoryFields
  <2>2. p \in Live(m) /\ m.size[p] > 0
    BY <1>1 DEF Flagged
  <2>3. p \in Live(f)
    BY <1>6, <2>2 DEF Live
  <2> QED
    BY <1>2, <1>7, <2>1, <2>2, <2>3
<1>9. PICK F, G, o : /\ F = [f.mem_phys EXCEPT ![p] = b]
                     /\ o = fl \ {"ONSWAP", "SWAPIN"}
                     /\ G = [f.mp_flags EXCEPT ![p] = o]
  OBVIOUS
<1>10. /\ F \in [Procs -> Nat] /\ F[p] = b /\ \A q \in Procs \ {p} : F[q] = f.mem_phys[q]
  <2>1. f.mem_phys \in [Procs -> Nat]
    BY <1>4, MemoryFields
  <2> QED
    BY <1>3, <1>9, <2>1
<1>11. /\ G \in [Procs -> SUBSET Flags] /\ G[p] = o
       /\ \A q \in Procs \ {p} : G[q] = f.mp_flags[q]
  <2>1. f.mp_flags \in [Procs -> SUBSET Flags]
    BY <1>4, MemoryFields
  <2>2. o \in SUBSET Flags
    BY <1>8, <1>9
  <2> QED
    BY <1>9, <2>1, <2>2
<1>12. PICK u : u = [f EXCEPT !.mem_phys = F, !.mp_flags = G]
  OBVIOUS
<1>13. /\ u \in Memory /\ u.hole = f.hole /\ u.mem_phys = F /\ u.mp_flags = G
       /\ u.size = f.size /\ u.in_queue = f.in_queue /\ u.swap_on = f.swap_on
       /\ u.current_algorithm = f.current_algorithm
  BY <1>4, <1>10, <1>11, <1>12 DEF Memory
<1>14. g = Free(u, d, c)
  <2>1. [f.mp_flags EXCEPT ![p] = @ \ {"ONSWAP", "SWAPIN"}] = G
    BY <1>6, <1>7, <1>9
  <2> QED
    BY <1>2, <1>9, <1>12, <2>1, ZenonT(30) DEF SwappedIn
<1>15. Live(u) = Live(f)
  <2>1. "IN_USE" \in o <=> "IN_USE" \in fl
    BY <1>9
  <2> QED
    BY <1>6, <1>7, <1>11, <1>13, <2>1 DEF Live
<1>16. Part(u, n, d, c)
  <2>1. \A q \in Procs \ {p} :
           /\ q \in Live(u) <=> q \in Live(f)
           /\ u.mem_phys[q] = f.mem_phys[q] /\ u.size[q] = f.size[q]
    BY <1>10, <1>13, <1>15
  <2>2. /\ u.mem_phys[p] = b /\ u.size[p] = c /\ d = f.mem_phys[p] /\ c = f.size[p]
        /\ p \in Live(f) /\ p \in Live(u) /\ u.hole = f.hole
    BY <1>6, <1>8, <1>10, <1>13, <1>15
  <2>3. Shared(u, n, d, c)
    <3>1. f \in Memory /\ u \in Memory /\ n \in Nat /\ b \in Nat /\ c \in Nat
          /\ d \in Nat /\ Shared(f, n, b, c)
      BY <1>3, <1>4, <1>8, <1>13
    <3> QED
      BY <2>1, <2>2, <3>1, ExchangeShares
  <2> QED
    <3>1. Room(f) /\ u.panic = f.panic
      BY <1>3, <1>12 DEF Part, Memory
    <3>2. Room(u)
      BY <3>1 DEF Room
    <3> QED
      BY <1>4, <1>8, <1>13, <2>3, <3>2 DEF Part
<1>17. /\ Part(g, n, 0, 0)
       /\ g.mp_flags = G /\ g.mem_phys = F /\ g.size = m.size
       /\ g.in_queue = m.in_queue /\ g.swap_on = m.swap_on
       /\ g.current_algorithm = m.current_algorithm
  <2>1. /\ Part(g, n, 0, 0)
        /\ g.mp_flags = u.mp_flags /\ g.mem_phys = u.mem_phys /\ g.size = u.size
        /\ g.in_queue = u.in_queue /\ g.swap_on = u.swap_on
        /\ g.current_algorithm = u.current_algorithm
    BY <1>14, <1>16, FreeKeeps
  <2> QED
    BY <1>5, <1>13, <2>1
<1>18. Live(g) = Live(f)
  BY <1>13, <1>15, <1>17 DEF Live
<1>19. Flagged(g)
  <2> SUFFICES ASSUME NEW q \in Procs
      PROVE /\ g.mp_flags[q] # {} => q \in Live(g) /\ g.size[q] > 0
            /\ "SWAPIN" \in g.mp_flags[q] => "ONSWAP" \in g.mp_flags[q]
            /\ {"REPLY", "ONSWAP"} \subseteq g.mp_flags[q] =>
                 "SWAPIN" \in g.mp_flags[q]
    BY DEF Flagged
  <2>1. CASE q = p
    <3>1. g.mp_flags[q] = o /\ g.size[q] = c /\ q \in Live(g)
      BY <1>2, <1>8, <1>11, <1>17, <1>18, <2>1
    <3>2. "ONSWAP" \notin o /\ "SWAPIN" \notin o
      BY <1>9
    <3> QED
      BY <1>8, <3>1, <3>2
  <2>2. CASE q # p
    <3>1. g.mp_flags[q] = f.mp_flags[q] /\ g.size[q] = f.size[q]
      BY <1>5, <1>11, <1>17, <2>2
    <3> QED
      BY <1>3, <1>18, <3>1 DEF Flagged
  <2> QED
    BY <2>1, <2>2
<1>20. ASSUME Separate(g) PROVE Placed(g)
  <2>1. Placed(f) /\ b < swap_base
    BY <1>3, <1>5, <1>17, <1>20 DEF Separate
  <2> SUFFICES ASSUME NEW q \in Live(g)
      PROVE "ONSWAP" \in g.mp_flags[q] <=> g.mem_phys[q] >= swap_base
    BY DEF Placed
  <2>2. CASE q = p
    <3>1. "ONSWAP" \notin g.mp_flags[q] /\ g.mem_phys[q] = b
      BY <1>9, <1>10, <1>11, <1>17, <2>2
    <3>2. ~(b >= swap_base)
      BY <1>3, <2>1, Gapped
    <3> QED
      BY <3>1, <3>2
  <2>3. CASE q # p
    <3>1. q \in Procs /\ q \in Live(f)
      BY <1>18 DEF Live
    <3>2. g.mp_flags[q] = f.mp_flags[q] /\ g.mem_phys[q] = f.mem_phys[q]
      BY <1>10, <1>11, <1>17, <2>3, <3>1
    <3> QED
      BY <2>1, <3>1, <3>2 DEF Placed
  <2> QED
    BY <2>2, <2>3
<1>21. \A q \in Procs : "SWAPIN" \in g.mp_flags[q] <=>
                        q # p /\ "SWAPIN" \in m.mp_flags[q]
  <2>1. "SWAPIN" \notin o
    BY <1>9
  <2> QED
    BY <1>5, <1>11, <1>17, <2>1
<1> QED
  BY <1>17, <1>19, <1>20, <1>21 DEF Sound

\* What swap_in starts from: who is to come in is in the queue, and perhaps
\* somebody who got killed.
Waiting(m) ==
  /\ \A i, j \in DOMAIN m.in_queue : m.in_queue[i] = m.in_queue[j] => i = j
  /\ \A p \in Procs : "SWAPIN" \in m.mp_flags[p] =>
                      \E i \in DOMAIN m.in_queue : m.in_queue[i] = p

\* The data t, when swap_in has been through i places of the queue of m
Walking(t, m, n, i) ==
  /\ Sound(t, n)
  /\ t.swap_on = m.swap_on /\ t.current_algorithm = m.current_algorithm
  /\ \A j, k \in DOMAIN t.in_queue : t.in_queue[j] = t.in_queue[k] => j = k
  /\ \A k \in DOMAIN t.in_queue :
       /\ "SWAPIN" \in t.mp_flags[t.in_queue[k]]
       /\ \E j \in 1..i : t.in_queue[k] = m.in_queue[j]
  /\ \A p \in Procs : "SWAPIN" \in t.mp_flags[p] =>
       \/ \E k \in DOMAIN t.in_queue : t.in_queue[k] = p
       \/ \E j \in (i + 1)..Len(m.in_queue) : m.in_queue[j] = p

\* One place of the queue
LEMMA VisitKeeps ==
  ASSUME NEW m \in Memory, Waiting(m), NEW n, NEW i \in 1..Len(m.in_queue),
         NEW t, Walking(t, m, n, i - 1), NEW g, g = Visit(t, m.in_queue[i])
  PROVE  Walking(g, m, n, i)
<1>1. PICK Q, L, p : Q = m.in_queue /\ L = Len(Q) /\ p = Q[i]
  OBVIOUS
<1>2. /\ Q \in Seq(Procs) /\ L \in Nat /\ DOMAIN Q = 1..L /\ i \in 1..L /\ p \in Procs
      /\ \A j, k \in 1..L : Q[j] = Q[k] => j = k
  <2>1. Q \in Seq(Procs)
    BY <1>1, MemoryFields
  <2>2. L \in Nat /\ DOMAIN Q = 1..L /\ i \in 1..L /\ p \in Procs
    BY <1>1, <2>1
  <2> QED
    BY <1>1, <2>1, <2>2 DEF Waiting
<1>3. /\ Sound(t, n)
      /\ t.swap_on = m.swap_on /\ t.current_algorithm = m.current_algorithm
      /\ \A j, k \in DOMAIN t.in_queue : t.in_queue[j] = t.in_queue[k] => j = k
      /\ \A k \in DOMAIN t.in_queue :
           /\ "SWAPIN" \in t.mp_flags[t.in_queue[k]]
           /\ \E j \in 1..(i - 1) : t.in_queue[k] = Q[j]
      /\ \A q \in Procs : "SWAPIN" \in t.mp_flags[q] =>
           \/ \E k \in DOMAIN t.in_queue : t.in_queue[k] = q
           \/ \E j \in i..L : Q[j] = q
  <2>1. (i - 1) + 1 = i
    BY <1>2
  <2> QED
    BY <1>1, <2>1 DEF Walking
<1>4. \A k \in DOMAIN t.in_queue : t.in_queue[k] # p
  <2>1. \A j \in 1..(i - 1) : j \in 1..L /\ j # i
    BY <1>2
  <2>2. \A j \in 1..(i - 1) : Q[j] # p
    BY <1>1, <1>2, <2>1
  <2> QED
    BY <1>3, <2>2
<1>5. \A j \in 1..(i - 1) : j \in 1..i
  BY <1>2
<1>6. \A j \in i..L : j = i \/ j \in (i + 1)..L
  BY <1>2
<1>7. i \in 1..i
  BY <1>2
<1>8. t \in Memory /\ Flagged(t) /\ t.in_queue \in Seq(Procs)
  <2>1. t \in Memory /\ Flagged(t)
    BY <1>3 DEF Sound, Part
  <2> QED
    BY <2>1, MemoryFields
<1>9. CASE "SWAPIN" \notin t.mp_flags[p]
  <2>1. g = t
    BY <1>1, <1>9 DEF Visit
  <2>2. \A q \in Procs : "SWAPIN" \in t.mp_flags[q] =>
           \/ \E k \in DOMAIN t.in_queue : t.in_queue[k] = q
           \/ \E j \in (i + 1)..L : Q[j] = q
    BY <1>1, <1>3, <1>6, <1>9
  <2>3. \A k \in DOMAIN t.in_queue :
           /\ "SWAPIN" \in t.mp_flags[t.in_queue[k]]
           /\ \E j \in 1..i : t.in_queue[k] = Q[j]
    BY <1>3, <1>5
  <2> QED
    BY <1>1, <1>3, <2>1, <2>2, <2>3 DEF Walking
<1>10. CASE "SWAPIN" \in t.mp_flags[p]
  <2>1. PICK c, a : c = t.size[p] /\ a = alloc_mem(t, c)
    OBVIOUS
  <2>2. c \in Nat /\ c > 0
    <3>1. t.mp_flags[p] # {}
      BY <1>10
    <3>2. t.size[p] > 0 /\ t.size \in [Procs -> Nat]
      BY <1>2, <1>8, <3>1, MemoryFields DEF Flagged
    <3> QED
      BY <1>2, <2>1, <3>2
  <2>3. Answer(a, t, n, c)
    BY <1>3, <2>1, <2>2, alloc_memAnswers
  <2>4. g = ComeIn(t, p, a)
    BY <1>1, <1>10, <2>1 DEF Visit
  <2>5. CASE a.base = NO_MEM
    <3>1. PICK f, q1 : f = a.m /\ q1 = Append(t.in_queue, p)
      OBVIOUS
    <3>2. /\ After(t, f) /\ Flagged(f) /\ (Separate(f) => Placed(f))
          /\ Part(f, n, 0, 0)
      BY <2>3, <2>5, <3>1 DEF Answer
    <3>3. /\ f \in Memory /\ Sound(f, n) /\ f.in_queue = t.in_queue
          /\ f.swap_on = m.swap_on /\ f.current_algorithm = m.current_algorithm
          /\ \A q \in Procs : "SWAPIN" \in f.mp_flags[q] <=> "SWAPIN" \in t.mp_flags[q]
      <4>1. f \in Memory /\ Sound(f, n)
        BY <3>2 DEF Sound, Part
      <4>2. \A q \in Procs : "SWAPIN" \in f.mp_flags[q] <=> "SWAPIN" \in t.mp_flags[q]
        BY <3>2 DEF After
      <4>3. f.in_queue = t.in_queue /\ f.swap_on = t.swap_on
            /\ f.current_algorithm = t.current_algorithm
        BY <3>2 DEF After
      <4> QED
        BY <1>3, <4>1, <4>2, <4>3
    <3>4. g = [f EXCEPT !.in_queue = q1]
      BY <2>4, <2>5, <3>1, <3>3 DEF ComeIn
    <3>5. PICK w : w = t.in_queue
      OBVIOUS
    <3>6. /\ q1 \in Seq(Procs) /\ DOMAIN q1 = 1..(Len(w) + 1) /\ q1[Len(w) + 1] = p
          /\ Len(w) \in Nat /\ DOMAIN w = 1..Len(w)
          /\ \A k \in 1..Len(w) : q1[k] = w[k]
      BY <1>2, <1>8, <3>1, <3>5
    <3>7. /\ g \in Memory /\ g.in_queue = q1 /\ g.hole = f.hole
          /\ g.mp_flags = f.mp_flags /\ g.mem_phys = f.mem_phys
          /\ g.size = f.size /\ g.swap_on = f.swap_on
          /\ g.current_algorithm = f.current_algorithm /\ g.panic = f.panic
      BY <3>3, <3>4, <3>6 DEF Memory
    <3>8. Sound(g, n)
      BY <3>3, <3>7, SameSound
    <3>9. \A k \in DOMAIN q1 : (k \in DOMAIN w /\ q1[k] = w[k] /\ k # Len(w) + 1)
                               \/ (k = Len(w) + 1 /\ q1[k] = p)
      BY <3>6
    <3>10. \A j, k \in DOMAIN q1 : q1[j] = q1[k] => j = k
      BY <1>3, <1>4, <3>5, <3>9
    <3>11. \A k \in DOMAIN q1 : /\ "SWAPIN" \in g.mp_flags[q1[k]]
                                /\ \E j \in 1..i : q1[k] = Q[j]
      <4> TAKE k \in DOMAIN q1
      <4>1. CASE k \in DOMAIN w /\ q1[k] = w[k]
        <5>1. w[k] \in Procs
          BY <1>8, <3>5, <4>1
        <5> QED
          BY <1>3, <1>5, <3>3, <3>5, <3>7, <4>1, <5>1
      <4>2. CASE q1[k] = p
        BY <1>1, <1>2, <1>7, <1>10, <3>3, <3>7, <4>2
      <4> QED
        BY <3>9, <4>1, <4>2
    <3>12. ASSUME NEW q \in Procs, "SWAPIN" \in g.mp_flags[q]
           PROVE  \/ \E k \in DOMAIN q1 : q1[k] = q
                  \/ \E j \in (i + 1)..L : Q[j] = q
      <4>1. "SWAPIN" \in t.mp_flags[q]
        BY <3>3, <3>7, <3>12
      <4>2. CASE q = p
        <5>1. Len(w) + 1 \in DOMAIN q1
          BY <3>6
        <5> QED
          BY <3>6, <4>2, <5>1
      <4>3. CASE q # p
        <5>1. (\E k \in DOMAIN w : w[k] = q) \/ \E j \in (i + 1)..L : Q[j] = q
          BY <1>1, <1>3, <1>6, <3>5, <4>1, <4>3
        <5>2. \A k \in DOMAIN w : k \in DOMAIN q1 /\ q1[k] = w[k]
          BY <3>6
        <5> QED
          BY <5>1, <5>2
      <4> QED
        BY <4>2, <4>3
    <3> QED
      BY <1>1, <3>3, <3>7, <3>8, <3>10, <3>11, <3>12 DEF Walking
  <2>6. CASE a.base # NO_MEM
    <3>1. g = SwappedIn(t, p, a)
      BY <2>4, <2>6 DEF ComeIn
    <3>2. /\ Sound(g, n) /\ g.in_queue = t.in_queue /\ g.swap_on = t.swap_on
          /\ g.current_algorithm = t.current_algorithm
          /\ \A q \in Procs : "SWAPIN" \in g.mp_flags[q] <=>
                              q # p /\ "SWAPIN" \in t.mp_flags[q]
      BY <1>2, <1>3, <1>10, <2>1, <2>3, <2>6, <3>1, SwappedInKeeps
    <3>3. \A k \in DOMAIN t.in_queue :
           /\ "SWAPIN" \in g.mp_flags[t.in_queue[k]]
           /\ \E j \in 1..i : t.in_queue[k] = Q[j]
      <4> TAKE k \in DOMAIN t.in_queue
      <4>1. t.in_queue[k] \in Procs
        BY <1>8
      <4> QED
        BY <1>3, <1>4, <1>5, <3>2, <4>1
    <3>4. \A q \in Procs : "SWAPIN" \in g.mp_flags[q] =>
           \/ \E k \in DOMAIN t.in_queue : t.in_queue[k] = q
           \/ \E j \in (i + 1)..L : Q[j] = q
      BY <1>1, <1>3, <1>6, <3>2
    <3> QED
      BY <1>1, <1>3, <3>2, <3>3, <3>4 DEF Walking
  <2> QED
    BY <2>5, <2>6
<1> QED
  BY <1>9, <1>10

\* swap_in walks the queue: then exactly who is to come in is in it.
LEMMA swap_inKeeps ==
  ASSUME NEW m, NEW n, Sound(m, n), Waiting(m), NEW g, g = swap_in(m)
  PROVE  /\ Sound(g, n) /\ Queued(g)
         /\ g.swap_on = m.swap_on /\ g.current_algorithm = m.current_algorithm
<1>1. PICK Q, N, d : Q = m.in_queue /\ N = Len(Q) /\ d = [m EXCEPT !.in_queue = << >>]
  OBVIOUS
<1>2. m \in Memory /\ N \in Nat
  <2>1. m \in Memory
    BY DEF Sound, Part
  <2>2. Q \in Seq(Procs)
    BY <1>1, <2>1, MemoryFields
  <2> QED
    BY <1>1, <2>1, <2>2
<1>3. Walking(d, m, n, 0)
  <2>1. /\ d \in Memory /\ d.in_queue = << >> /\ d.hole = m.hole
        /\ d.mp_flags = m.mp_flags /\ d.mem_phys = m.mem_phys
        /\ d.size = m.size /\ d.swap_on = m.swap_on
        /\ d.current_algorithm = m.current_algorithm /\ d.panic = m.panic
    <3>1. PICK e : e = << >>
      OBVIOUS
    <3>2. e \in Seq(Procs) /\ d = [m EXCEPT !.in_queue = e]
      BY <1>1, <3>1
    <3>3. /\ d \in Memory /\ d.in_queue = e /\ d.hole = m.hole
          /\ d.mp_flags = m.mp_flags /\ d.mem_phys = m.mem_phys
          /\ d.size = m.size /\ d.swap_on = m.swap_on
          /\ d.current_algorithm = m.current_algorithm /\ d.panic = m.panic
      BY <1>2, <3>2 DEF Memory
    <3> QED
      BY <3>1, <3>3
  <2>2. Sound(d, n)
    BY <2>1, SameSound
  <2>3. DOMAIN d.in_queue = {}
    BY <2>1
  <2>4. DOMAIN Q = (0 + 1)..Len(m.in_queue)
    <3>1. Q \in Seq(Procs)
      BY <1>1, <1>2, MemoryFields
    <3> QED
      BY <1>1, <3>1
  <2>5. \A p \in Procs : "SWAPIN" \in d.mp_flags[p] =>
            \E j \in (0 + 1)..Len(m.in_queue) : m.in_queue[j] = p
    BY <1>1, <2>1, <2>4 DEF Waiting
  <2> QED
    BY <2>1, <2>2, <2>3, <2>5 DEF Walking
<1>4. PICK D : D = [i \in 0..N |-> {t \in Memory : Walking(t, m, n, i)}]
  OBVIOUS
<1>5. \A i \in 0..N : \A t : Walking(t, m, n, i) <=> t \in D[i]
  BY <1>4 DEF Walking, Sound, Part
<1>6. PICK S : S = [i \in 1..N |-> [t \in D[i - 1] |-> Visit(t, m.in_queue[i])]]
  OBVIOUS
<1>7. \A i \in 1..N : i \in 0..N /\ i - 1 \in 0..N /\ i # 0 /\ i \in 1..Len(m.in_queue)
  BY <1>1, <1>2
<1>8. d \in D[0] /\ 0 \in 0..N
  BY <1>2, <1>3, <1>5
<1>9. \A i \in 1..N : \A t \in D[i - 1] : S[i][t] \in D[i]
  <2> TAKE i \in 1..N
  <2> TAKE t \in D[i - 1]
  <2>1. Walking(t, m, n, i - 1)
    BY <1>5, <1>7
  <2>2. Walking(Visit(t, m.in_queue[i]), m, n, i)
    BY <1>2, <1>7, <2>1, VisitKeeps
  <2>3. S[i][t] = Visit(t, m.in_queue[i])
    BY <1>6
  <2> QED
    BY <1>5, <1>7, <2>2, <2>3
<1>10. PICK e : Along(e, N, d, S) /\ \A i \in 0..N : e[i] \in D[i]
  BY <1>2, <1>8, <1>9, Recursion
<1>11. e = [i \in 0..N |-> IF i = 0 THEN d ELSE S[i][e[i - 1]]]
  BY <1>10 DEF Along
<1>12. e = [i \in 0..N |-> IF i = 0 THEN d ELSE Visit(e[i - 1], m.in_queue[i])]
  <2>1. ASSUME NEW i \in 0..N
        PROVE  e[i] = IF i = 0 THEN d ELSE Visit(e[i - 1], m.in_queue[i])
    <3>1. CASE i = 0
      BY <1>11, <3>1
    <3>2. CASE i # 0
      <4>1. i \in 1..N
        BY <1>2, <3>2
      <4>2. e[i] = S[i][e[i - 1]] /\ e[i - 1] \in D[i - 1]
        BY <1>7, <1>10, <1>11, <3>2, <4>1
      <4> QED
        BY <1>6, <3>2, <4>1, <4>2
    <3> QED
      BY <3>1, <3>2
  <2> QED
    BY <1>11, <2>1
<1>13. PICK f : f = CHOOSE w :
                     w = [i \in 0..Len(m.in_queue) |->
                            IF i = 0 THEN [m EXCEPT !.in_queue = << >>]
                            ELSE Visit(w[i - 1], m.in_queue[i])]
  OBVIOUS
<1>14. f = [i \in 0..N |-> IF i = 0 THEN d ELSE Visit(f[i - 1], m.in_queue[i])]
  BY ZenonT(90), <1>1, <1>12, <1>13
<1>15. PICK P : P = {i \in 0..N : Walking(f[i], m, n, i)}
  OBVIOUS
<1>16. 0 \in P
  BY <1>3, <1>8, <1>14, <1>15
<1>17. ASSUME NEW i \in 1..N, i - 1 \in P PROVE i \in P
  <2>1. f[i] = Visit(f[i - 1], m.in_queue[i])
    BY <1>7, <1>14
  <2>2. Walking(f[i - 1], m, n, i - 1)
    BY <1>15, <1>17
  <2>3. Walking(f[i], m, n, i)
    BY <1>2, <1>7, <2>1, <2>2, VisitKeeps
  <2> QED
    BY <1>7, <1>15, <2>3
<1>18. Walking(f[N], m, n, N)
  <2>1. 0..N \subseteq P
    BY <1>2, <1>16, <1>17, Upward
  <2>2. N \in 0..N
    BY <1>2
  <2> QED
    BY <1>15, <2>1, <2>2
<1>19. g = f[N]
  BY <1>1, <1>13 DEF swap_in
<1>20. Walking(g, m, n, N) /\ (N + 1)..Len(m.in_queue) = {}
  BY <1>1, <1>2, <1>18, <1>19
<1>21. Queued(g)
  <2>1. /\ \A j, k \in DOMAIN g.in_queue : g.in_queue[j] = g.in_queue[k] => j = k
        /\ \A k \in DOMAIN g.in_queue : "SWAPIN" \in g.mp_flags[g.in_queue[k]]
        /\ \A p \in Procs : "SWAPIN" \in g.mp_flags[p] =>
             \E k \in DOMAIN g.in_queue : g.in_queue[k] = p
    BY <1>20 DEF Walking
  <2> QED
    BY <2>1 DEF Queued
<1> QED
  BY <1>20, <1>21 DEF Walking

\* New flags for a process that stays what it is, and where it is
LEMMA Reflagged ==
  ASSUME NEW m, NEW n, Sound(m, n), NEW p \in Procs, NEW fl \in SUBSET Flags,
         NEW g \in Memory, g.hole = m.hole, g.mem_phys = m.mem_phys,
         g.size = m.size, g.swap_on = m.swap_on,
         g.current_algorithm = m.current_algorithm,
         g.mp_flags[p] = fl, \A q \in Procs \ {p} : g.mp_flags[q] = m.mp_flags[q],
         g.panic = m.panic,
         "IN_USE" \in m.mp_flags[p], "IN_USE" \in fl,
         "ONSWAP" \in fl <=> "ONSWAP" \in m.mp_flags[p],
         "SWAPIN" \in fl => "ONSWAP" \in fl,
         "REPLY" \in fl /\ "ONSWAP" \in fl => "SWAPIN" \in fl
  PROVE  Sound(g, n)
<1>1. /\ m \in Memory /\ Tidy(m.hole) /\ n \in Nat /\ Shared(m, n, 0, 0)
      /\ (~m.swap_on => n = 0) /\ Flagged(m) /\ (Separate(m) => Placed(m))
      /\ Room(g)
  BY DEF Sound, Part, Room
<1>2. Live(g) = Live(m) /\ \A q, x : Has(g, q, x) = Has(m, q, x)
  BY DEF Live, Has
<1>3. Shared(g, n, 0, 0)
  BY <1>1, <1>2 DEF Shared
<1>4. Flagged(g)
  <2> SUFFICES ASSUME NEW q \in Procs
      PROVE /\ g.mp_flags[q] # {} => q \in Live(g) /\ g.size[q] > 0
            /\ "SWAPIN" \in g.mp_flags[q] => "ONSWAP" \in g.mp_flags[q]
            /\ {"REPLY", "ONSWAP"} \subseteq g.mp_flags[q] =>
                 "SWAPIN" \in g.mp_flags[q]
    BY DEF Flagged
  <2>1. CASE q = p
    <3>1. p \in Live(m) /\ m.size[p] > 0
      BY <1>1 DEF Flagged
    <3> QED
      BY <1>2, <2>1, <3>1
  <2>2. CASE q # p
    <3>1. g.mp_flags[q] = m.mp_flags[q]
      BY <2>2
    <3> QED
      BY <1>1, <1>2, <3>1 DEF Flagged
  <2> QED
    BY <2>1, <2>2
<1>5. ASSUME Separate(g) PROVE Placed(g)
  <2>1. Placed(m)
    BY <1>1, <1>5 DEF Separate
  <2>2. \A q \in Procs : "ONSWAP" \in g.mp_flags[q] <=> "ONSWAP" \in m.mp_flags[q]
    OBVIOUS
  <2>3. \A q \in Live(g) : q \in Procs
    BY DEF Live
  <2> QED
    BY <1>2, <2>1, <2>2, <2>3 DEF Placed
<1> QED
  BY <1>1, <1>3, <1>4, <1>5 DEF Sound, Part

\* The end of a round
LEMMA EndOfRoundKeeps ==
  ASSUME NEW m, NEW n, Sound(m, n), Waiting(m), NEW g, g = EndOfRound(m)
  PROVE  /\ Sound(g, n) /\ Queued(g)
         /\ \A p \in Procs : "REPLY" \in g.mp_flags[p] => "ONSWAP" \in g.mp_flags[p]
         /\ g.swap_on = m.swap_on /\ g.current_algorithm = m.current_algorithm
<1>1. PICK f : f = swap_in(m)
  OBVIOUS
<1>2. /\ Sound(f, n) /\ Queued(f)
      /\ f.swap_on = m.swap_on /\ f.current_algorithm = m.current_algorithm
  BY <1>1, swap_inKeeps
<1>3. /\ f \in Memory /\ Tidy(f.hole) /\ n \in Nat /\ Shared(f, n, 0, 0)
      /\ (~f.swap_on => n = 0) /\ Flagged(f) /\ (Separate(f) => Placed(f))
  BY <1>2 DEF Sound, Part
<1>4. PICK G : G = [p \in Procs |-> IF "ONSWAP" \in f.mp_flags[p] THEN f.mp_flags[p]
                                    ELSE f.mp_flags[p] \ {"REPLY"}]
  OBVIOUS
<1>5. g = [f EXCEPT !.mp_flags = G]
  BY <1>1, <1>4 DEF EndOfRound, Replied
<1>6. /\ G \in [Procs -> SUBSET Flags]
      /\ \A p \in Procs : \A x : x # "REPLY" => (x \in G[p] <=> x \in f.mp_flags[p])
      /\ \A p \in Procs : /\ G[p] \subseteq f.mp_flags[p]
                          /\ "REPLY" \in G[p] => "ONSWAP" \in f.mp_flags[p]
  <2>1. f.mp_flags \in [Procs -> SUBSET Flags]
    BY <1>3, MemoryFields
  <2>2. \A p \in Procs : f.mp_flags[p] \in SUBSET Flags
    BY <2>1
  <2>3. \A p \in Procs : G[p] = (IF "ONSWAP" \in f.mp_flags[p] THEN f.mp_flags[p]
                                 ELSE f.mp_flags[p] \ {"REPLY"})
    BY <1>4
  <2>4. \A p \in Procs : G[p] \subseteq f.mp_flags[p]
    BY <2>3
  <2>5. G \in [Procs -> SUBSET Flags]
    BY <1>4, <2>2, <2>4
  <2> QED
    BY <2>3, <2>4, <2>5
<1>7. /\ g \in Memory /\ g.hole = f.hole /\ g.mp_flags = G
      /\ g.mem_phys = f.mem_phys /\ g.size = f.size /\ g.swap_on = f.swap_on
      /\ g.in_queue = f.in_queue /\ g.current_algorithm = f.current_algorithm
  BY <1>3, <1>5, <1>6 DEF Memory
<1>8. Live(g) = Live(f) /\ \A p, x : Has(g, p, x) = Has(f, p, x)
  BY <1>6, <1>7 DEF Live, Has
<1>9. Shared(g, n, 0, 0)
  BY <1>3, <1>7, <1>8 DEF Shared
<1>10. Flagged(g)
  <2> SUFFICES ASSUME NEW q \in Procs
      PROVE /\ g.mp_flags[q] # {} => q \in Live(g) /\ g.size[q] > 0
            /\ "SWAPIN" \in g.mp_flags[q] => "ONSWAP" \in g.mp_flags[q]
            /\ {"REPLY", "ONSWAP"} \subseteq g.mp_flags[q] =>
                 "SWAPIN" \in g.mp_flags[q]
    BY DEF Flagged
  <2>1. /\ f.mp_flags[q] # {} => q \in Live(f) /\ f.size[q] > 0
        /\ "SWAPIN" \in f.mp_flags[q] => "ONSWAP" \in f.mp_flags[q]
        /\ {"REPLY", "ONSWAP"} \subseteq f.mp_flags[q] =>
                 "SWAPIN" \in f.mp_flags[q]
    BY <1>3 DEF Flagged
  <2>2. /\ g.mp_flags[q] \subseteq f.mp_flags[q]
        /\ "SWAPIN" \in g.mp_flags[q] <=> "SWAPIN" \in f.mp_flags[q]
        /\ "ONSWAP" \in g.mp_flags[q] <=> "ONSWAP" \in f.mp_flags[q]
    BY <1>6, <1>7
  <2> QED
    BY <1>7, <1>8, <2>1, <2>2
<1>11. ASSUME Separate(g) PROVE Placed(g)
  <2>1. Placed(f)
    BY <1>3, <1>7, <1>11 DEF Separate
  <2>2. \A q \in Procs : "ONSWAP" \in g.mp_flags[q] <=> "ONSWAP" \in f.mp_flags[q]
    BY <1>6, <1>7
  <2>3. \A q \in Live(g) : q \in Procs
    BY DEF Live
  <2> QED
    BY <1>7, <1>8, <2>1, <2>2, <2>3 DEF Placed
<1>12. Sound(g, n)
  <2>1. Room(f) /\ g.panic = f.panic
    BY <1>2, <1>3, <1>5 DEF Sound, Part, Memory
  <2>2. Room(g)
    BY <2>1 DEF Room
  <2> QED
    BY <1>3, <1>7, <1>9, <1>10, <1>11, <2>2 DEF Sound, Part
<1>13. Queued(g)
  <2>1. \A q \in Procs : "SWAPIN" \in g.mp_flags[q] <=> "SWAPIN" \in f.mp_flags[q]
    BY <1>6, <1>7
  <2> QED
    BY <1>2, <1>7, <2>1 DEF Queued
<1>14. \A p \in Procs : "REPLY" \in g.mp_flags[p] => "ONSWAP" \in g.mp_flags[p]
  BY <1>6, <1>7
<1> QED
  BY <1>2, <1>7, <1>12, <1>13, <1>14

\* swap_inqueue puts a process into the queue that is not there yet.
LEMMA swap_inqueueQueues ==
  ASSUME NEW m \in Memory, Queued(m), NEW p \in Procs, "SWAPIN" \notin m.mp_flags[p],
         NEW g, g.in_queue = Append(m.in_queue, p), "SWAPIN" \in g.mp_flags[p],
         \A q \in Procs \ {p} : "SWAPIN" \in g.mp_flags[q] <=> "SWAPIN" \in m.mp_flags[q]
  PROVE  Queued(g) /\ g.in_queue \in Seq(Procs)
<1>1. PICK w, v : w = m.in_queue /\ v = Append(w, p)
  OBVIOUS
<1>2. w \in Seq(Procs)
  BY <1>1, MemoryFields
<1>3. /\ v \in Seq(Procs) /\ DOMAIN v = 1..(Len(w) + 1) /\ v[Len(w) + 1] = p
      /\ Len(w) \in Nat /\ DOMAIN w = 1..Len(w)
      /\ \A k \in 1..Len(w) : v[k] = w[k]
  BY <1>1, <1>2
<1>4. /\ \A i, j \in DOMAIN w : w[i] = w[j] => i = j
      /\ \A q \in Procs : "SWAPIN" \in m.mp_flags[q] <=> \E i \in DOMAIN w : w[i] = q
  BY <1>1 DEF Queued
<1>5. \A k \in DOMAIN w : w[k] # p
  BY <1>4
<1>6. \A k \in DOMAIN v : (k \in DOMAIN w /\ v[k] = w[k] /\ k # Len(w) + 1)
                          \/ (k = Len(w) + 1 /\ v[k] = p)
  BY <1>3
<1>7. \A i, j \in DOMAIN v : v[i] = v[j] => i = j
  BY <1>4, <1>5, <1>6
<1>8. ASSUME NEW q \in Procs
      PROVE  "SWAPIN" \in g.mp_flags[q] <=> \E i \in DOMAIN v : v[i] = q
  <2>1. CASE q = p
    <3>1. Len(w) + 1 \in DOMAIN v
      BY <1>3
    <3> QED
      BY <1>3, <2>1, <3>1
  <2>2. CASE q # p
    <3>1. (\E i \in DOMAIN v : v[i] = q) <=> \E i \in DOMAIN w : w[i] = q
      <4>1. \A k \in DOMAIN w : k \in DOMAIN v /\ v[k] = w[k]
        BY <1>3
      <4> QED
        BY <1>6, <2>2, <4>1
    <3> QED
      BY <1>4, <2>2, <3>1
  <2> QED
    BY <2>1, <2>2
<1> QED
  BY <1>1, <1>3, <1>7, <1>8 DEF Queued
-----------------------------------------------------------------------------
(* Swapping off *)

\* With nobody in the swap area, that is one hole, the last: when it goes, the
\* clicks of the swap area go, and no others.
LEMMA WithoutSwapHolesKeeps ==
  ASSUME NEW m, NEW n, Part(m, n, 0, 0), Flagged(m),
         \A p \in Live(m) : m.mem_phys[p] < swap_base,
         NEW g, g = WithoutSwapHoles(m)
  PROVE  /\ g \in Memory /\ Tidy(g.hole)
         /\ \A x \in Nat : Holds(g.hole, x) <=>
                           Holds(m.hole, x) /\ ~In(swap_base, n, x)
         /\ g.mp_flags = m.mp_flags /\ g.mem_phys = m.mem_phys /\ g.size = m.size
         /\ g.in_queue = m.in_queue /\ g.current_algorithm = m.current_algorithm
         /\ g.panic = m.panic
<1>1. PICK h, l, s : h = m.hole /\ l = Len(h) /\ s = swap_base
  OBVIOUS
<1>2. /\ m \in Memory /\ Tidy(h) /\ n \in Nat /\ Shared(m, n, 0, 0)
      /\ h \in Seq(HoleSet) /\ l \in Nat /\ DOMAIN h = 1..l /\ s \in Nat
  <2>1. m \in Memory /\ Tidy(m.hole) /\ n \in Nat /\ Shared(m, n, 0, 0)
    BY DEF Part
  <2>2. m.hole \in Seq(HoleSet)
    BY <2>1, MemoryFields
  <2> QED
    BY <1>1, <2>1, <2>2, Gapped
<1>3. \A x \in Nat : Holds(Chunks, x) => x < s
  <2>1. \A x \in Nat : Holds(Chunks, x) => x < s - 1
    BY <1>1, Gapped
  <2> QED
    BY <1>2, <2>1
<1>4. ASSUME NEW x \in Nat, In(s, n, x) PROVE Holds(h, x)
  <2>1. ASSUME NEW p \in Live(m), Has(m, p, x) PROVE FALSE
    <3>1. PICK b, c : b = m.mem_phys[p] /\ c = m.size[p]
      OBVIOUS
    <3>2. b \in Nat /\ c \in Nat /\ c > 0 /\ b < s
      <4>1. p \in Procs /\ m.mp_flags[p] # {}
        BY DEF Live
      <4>2. c > 0
        BY <3>1, <4>1 DEF Flagged
      <4>3. m.mem_phys \in [Procs -> Nat] /\ m.size \in [Procs -> Nat]
        BY <1>2, MemoryFields
      <4> QED
        BY <1>1, <3>1, <4>1, <4>2, <4>3
    <3>3. \A y \in Nat : In(b, c, y) => Area(n, y)
      BY <1>2, <3>1 DEF Shared, Has
    <3>4. In(b, c, x)
      BY <2>1, <3>1 DEF Has
    <3>5. Holds(Chunks, x)
      BY <1>1, <1>2, <3>2, <3>3, <3>4, NotAcross
    <3> QED
      BY <1>2, <1>3, <1>4, <3>5 DEF In
  <2>2. Area(n, x)
    BY <1>1, <1>4 DEF Area
  <2>3. ~In(0, 0, x)
    BY DEF In
  <2> QED
    BY <1>1, <1>2, <2>1, <2>2, <2>3 DEF Shared
<1>5. ASSUME NEW i \in 1..l
      PROVE  /\ h[i].h_base \in Nat /\ h[i].h_len \in Nat /\ h[i].h_len > 0
             /\ End(h[i]) = h[i].h_base + h[i].h_len
             /\ h[i].h_base < s => \A x \in Nat : In(h[i].h_base, h[i].h_len, x) => x < s
             /\ h[i].h_base >= s =>
                  \A x \in Nat : In(h[i].h_base, h[i].h_len, x) => In(s, n, x)
  <2>1. PICK b, c : b = h[i].h_base /\ c = h[i].h_len
    OBVIOUS
  <2>2. b \in Nat /\ c \in Nat /\ c > 0 /\ \A x \in Nat : In(b, c, x) => Area(n, x)
    <3>1. i \in DOMAIN m.hole
      BY <1>1, <1>2
    <3> QED
      BY <1>1, <2>1, <3>1, HolesInArea
  <2>3. /\ b < s => \A x \in Nat : In(b, c, x) => Holds(Chunks, x)
        /\ b >= s => \A x \in Nat : In(b, c, x) => In(s, n, x)
    BY <1>1, <1>2, <2>2, NotAcross
  <2> QED
    BY <1>3, <2>1, <2>2, <2>3 DEF End
<1>6. PICK K : K = InRam(h)
  OBVIOUS
<1>7. K \subseteq 1..l /\ \A i \in 1..l : i \in K <=> h[i].h_base < s
  BY <1>1, <1>2, <1>6 DEF InRam
<1>8. CASE 1..l = K
  <2>1. g = m
    BY <1>1, <1>2, <1>6, <1>8 DEF WithoutSwapHoles
  <2>2. ASSUME NEW x \in Nat, In(s, n, x) PROVE FALSE
    <3>1. PICK i \in 1..l : In(h[i].h_base, h[i].h_len, x)
      BY <1>2, <1>4, <2>2 DEF Holds
    <3>2. x < s
      BY <1>5, <1>7, <1>8, <3>1
    <3> QED
      BY <1>2, <2>2, <3>2 DEF In
  <2> QED
    BY <1>1, <1>2, <2>1, <2>2
<1>9. CASE 1..l # K
  <2>1. PICK i : i = Min(1..l \ K)
    OBVIOUS
  <2>2. i \in 1..l /\ i \notin K /\ \A j \in 1..l : j < i => j \in K
    <3>1. 1..l \ K \in SUBSET Nat /\ 1..l \ K # {}
      <4>1. \E j \in 1..l : j \notin K
        BY <1>7, <1>9
      <4>2. 1..l \ K \subseteq 1..l /\ 1..l \subseteq Nat
        BY <1>2
      <4> QED
        BY <4>1, <4>2
    <3>2. i \in 1..l \ K /\ \A j \in 1..l \ K : i <= j
      BY <2>1, <3>1, LeastNumber
    <3>3. \A j \in 1..l : j < i => ~(i <= j)
      BY <1>2, <3>2
    <3> QED
      BY <3>2, <3>3
  <2>3. PICK b, c : b = h[i].h_base /\ c = h[i].h_len
    OBVIOUS
  <2>4. b \in Nat /\ c \in Nat /\ c > 0 /\ b >= s /\ End(h[i]) = b + c
    BY <1>2, <1>5, <1>7, <2>2, <2>3
  <2>5. ASSUME NEW j \in 1..l, j > i PROVE FALSE
    <3>1. PICK d : d = h[j].h_base
      OBVIOUS
    <3>2. d \in Nat /\ b + c < d
      BY <1>1, <1>2, <1>5, <2>2, <2>4, <2>5, <3>1, AllTidy
    <3>3. In(s, n, d)
      <4>1. In(d, h[j].h_len, d)
        BY <1>5, <3>1, <3>2 DEF In
      <4>2. d >= s
        BY <1>2, <2>4, <3>2
      <4> QED
        BY <1>5, <3>1, <3>2, <4>1, <4>2
    <3>4. b + c \in Nat /\ In(s, n, b + c)
      BY <1>2, <2>4, <3>2, <3>3 DEF In
    <3>5. PICK k \in 1..l : In(h[k].h_base, h[k].h_len, b + c)
      BY <1>2, <1>4, <3>4 DEF Holds
    <3>6. PICK u, v : u = h[k].h_base /\ v = h[k].h_len
      OBVIOUS
    <3>7. u \in Nat /\ v \in Nat /\ End(h[k]) = u + v /\ u <= b + c /\ b + c < u + v
      BY <1>5, <3>5, <3>6 DEF In
    <3>8. CASE k = i
      <4>1. u = b /\ v = c
        BY <2>3, <3>6, <3>8
      <4> QED
        BY <2>4, <3>7, <4>1
    <3>9. CASE k < i
      <4>1. End(h[k]) < h[i].h_base
        BY <1>1, <1>2, <2>2, <3>9, AllTidy
      <4>2. u + v < b
        BY <2>3, <3>7, <4>1
      <4> QED
        BY <2>4, <3>7, <4>2
    <3>10. CASE k > i
      <4>1. End(h[i]) < h[k].h_base
        BY <1>1, <1>2, <2>2, <3>10, AllTidy
      <4>2. b + c < u
        BY <2>4, <3>6, <4>1
      <4> QED
        BY <2>4, <3>7, <4>2
    <3>11. k = i \/ k < i \/ k > i
      BY <2>2
    <3> QED
      BY <3>8, <3>9, <3>10, <3>11
  <2>6. i = l
    <3>1. l \in 1..l /\ ~(l > i)
      BY <1>2, <2>2, <2>5
    <3> QED
      BY <1>2, <2>2, <3>1
  <2>7. PICK f : f = del_slot(h, i)
    OBVIOUS
  <2>8. /\ f \in Seq(HoleSet) /\ Tidy(f) /\ Len(f) = l - 1 /\ DOMAIN f = 1..(l - 1)
        /\ \A x \in Nat : Holds(f, x) <=> Holds(h, x) /\ ~In(b, c, x)
        /\ \A j \in 1..(l - 1) : f[j] = h[j] /\ j \in K
    <3>1. i \in 1..Len(h)
      BY <1>1, <2>2
    <3>2. /\ f \in Seq(HoleSet) /\ Tidy(f) /\ Len(f) = Len(h) - 1
          /\ \A x \in Nat : Holds(f, x) <=> Holds(h, x) /\ ~In(b, c, x)
      BY <1>2, <2>3, <2>7, <3>1, del_slotKeeps
    <3>3. \A j \in 1..Len(f) : f[j] = IF j < i THEN h[j] ELSE h[j + 1]
      BY <1>2, <2>7, <3>1, del_slotEffect
    <3>4. DOMAIN f = 1..(l - 1) /\ Len(f) = l - 1
      BY <1>1, <3>2
    <3>5. \A j \in 1..(l - 1) : j < i /\ j \in 1..l
      BY <1>2, <2>6
    <3> QED
      BY <2>2, <3>2, <3>3, <3>4, <3>5
  <2>9. ASSUME NEW x \in Nat PROVE Holds(f, x) <=> Holds(h, x) /\ ~In(s, n, x)
    <3>1. In(b, c, x) => In(s, n, x)
      BY <1>5, <2>2, <2>3, <2>4
    <3>2. ASSUME Holds(h, x), ~In(b, c, x) PROVE ~In(s, n, x)
      <4>1. PICK k \in 1..l : In(h[k].h_base, h[k].h_len, x)
        BY <1>2, <3>2 DEF Holds
      <4>2. k # i
        BY <2>3, <3>2, <4>1
      <4>3. k < i
        BY <1>2, <2>6, <4>2
      <4>4. x < s
        BY <1>5, <1>7, <2>2, <4>1, <4>3
      <4> QED
        BY <1>2, <4>4 DEF In
    <3> QED
      BY <2>8, <3>1, <3>2
  <2>10. InRam(f) = DOMAIN f
    <3>1. \A j \in 1..(l - 1) : j \in 1..l
      BY <1>2
    <3> QED
      BY <1>1, <1>7, <2>8, <3>1 DEF InRam
  <2>11. f # << >> => SubSeq(f, 1, Max(InRam(f) \cup {1})) = f
    <3>1. SUFFICES ASSUME f # << >> PROVE SubSeq(f, 1, Max(InRam(f) \cup {1})) = f
      OBVIOUS
    <3>2. PICK N : N = Len(f)
      OBVIOUS
    <3>3. N \in Nat /\ N > 0 /\ DOMAIN f = 1..N /\ f \in Seq(HoleSet)
      BY <2>8, <3>1, <3>2
    <3>4. InRam(f) \cup {1} = 1..N
      BY <2>10, <3>3
    <3>5. Max(1..N) = N
      <4>1. N \in 1..N /\ \A y \in 1..N : N >= y
        BY <3>3
      <4>2. \A z \in 1..N : (\A y \in 1..N : z >= y) => z = N
        BY <3>3
      <4> QED
        BY <4>1, <4>2 DEF Max
    <3>6. SubSeq(f, 1, N) = f
      BY <3>2, <3>3
    <3> QED
      BY <3>4, <3>5, <3>6
  <2>12. i = Min(DOMAIN m.hole \ InRam(m.hole)) /\ DOMAIN m.hole # InRam(m.hole)
    BY <1>1, <1>2, <1>6, <1>9, <2>1
  <2>13. g = [m EXCEPT !.hole = f] \/ g = [m EXCEPT !.hole = f, !.wild = TRUE]
    <3>1. f = del_slot(m.hole, i)
      BY <1>1, <2>7
    <3>2. CASE f = << >>
      BY <2>12, <3>1, <3>2 DEF WithoutSwapHoles
    <3>3. CASE f # << >>
      <4>1. g = [m EXCEPT !.hole = SubSeq(f, 1, Max(InRam(f) \cup {1}))]
        BY <2>12, <3>1, <3>3 DEF WithoutSwapHoles
      <4> QED
        BY <2>11, <3>3, <4>1
    <3> QED
      BY <3>2, <3>3
  <2>14. /\ g \in Memory /\ g.hole = f
         /\ g.mp_flags = m.mp_flags /\ g.mem_phys = m.mem_phys /\ g.size = m.size
         /\ g.in_queue = m.in_queue /\ g.current_algorithm = m.current_algorithm
         /\ g.panic = m.panic
    BY <1>2, <2>8, <2>13 DEF Memory
  <2> QED
    BY <1>1, <2>8, <2>9, <2>14
<1> QED
  BY <1>8, <1>9

\* swapoff() with nobody swapped out leaves the memory without a swap area.
LEMMA SwapClosedKeeps ==
  ASSUME NEW m, NEW n, Sound(m, n), Separate(m), Waiting(m), NEW g, g = SwapClosed(m)
  PROVE  (\E k \in Nat : Sound(g, k)) /\ Separate(g) /\ Waiting(g)
<1>1. /\ Part(m, n, 0, 0) /\ n \in Nat /\ Flagged(m) /\ Placed(m) /\ Shared(m, n, 0, 0)
  BY DEF Sound, Part
<1>2. CASE \E p \in Procs : "ONSWAP" \in m.mp_flags[p]
  <2>1. g = m
    BY <1>2 DEF SwapClosed
  <2> QED
    BY <1>1, <2>1
<1>3. CASE ~\E p \in Procs : "ONSWAP" \in m.mp_flags[p]
  <2>1. PICK f : f = WithoutSwapHoles(m)
    OBVIOUS
  <2>2. ASSUME NEW p \in Live(m) PROVE m.mem_phys[p] < swap_base
    <3>1. p \in Procs /\ m.mem_phys \in [Procs -> Nat]
      BY <1>1, MemoryFields DEF Live, Part
    <3>2. ~(m.mem_phys[p] >= swap_base)
      BY <1>1, <1>3, <3>1 DEF Placed
    <3> QED
      BY <3>1, <3>2, Gapped
  <2>3. /\ f \in Memory /\ Tidy(f.hole)
        /\ \A x \in Nat : Holds(f.hole, x) <=>
                          Holds(m.hole, x) /\ ~In(swap_base, n, x)
        /\ f.mp_flags = m.mp_flags /\ f.mem_phys = m.mem_phys /\ f.size = m.size
        /\ f.in_queue = m.in_queue /\ f.current_algorithm = m.current_algorithm
        /\ f.panic = m.panic
    BY <1>1, <2>1, <2>2, WithoutSwapHolesKeeps
  <2>4. g = [f EXCEPT !.swap_on = FALSE]
    BY <1>3, <2>1 DEF SwapClosed
  <2>5. /\ g \in Memory /\ g.hole = f.hole /\ g.swap_on = FALSE
        /\ g.mp_flags = m.mp_flags /\ g.mem_phys = m.mem_phys /\ g.size = m.size
        /\ g.in_queue = m.in_queue
    <3>1. /\ g \in Memory /\ g.hole = f.hole /\ g.swap_on = FALSE
          /\ g.mp_flags = f.mp_flags /\ g.mem_phys = f.mem_phys /\ g.size = f.size
          /\ g.in_queue = f.in_queue
      BY <2>3, <2>4 DEF Memory
    <3> QED
      BY <2>3, <3>1
  <2>6. Live(g) = Live(m) /\ \A p, x : Has(g, p, x) = Has(m, p, x)
    BY <2>5 DEF Live, Has
  <2>7. \A x \in Nat : ~In(0, 0, x) /\ ~In(swap_base, 0, x)
    BY Gapped DEF In
  <2>8. ASSUME NEW x \in Nat, In(swap_base, n, x)
        PROVE  ~Holds(Chunks, x) /\ \A p \in Live(m) : ~Has(m, p, x)
    <3>1. ~Holds(Chunks, x)
      <4>1. x >= swap_base
        BY <2>8 DEF In
      <4>2. Holds(Chunks, x) => x < swap_base - 1
        BY Gapped
      <4> QED
        BY <4>1, <4>2, Gapped
    <3>2. ASSUME NEW p \in Live(m), Has(m, p, x) PROVE FALSE
      <4>1. PICK b, c : b = m.mem_phys[p] /\ c = m.size[p]
        OBVIOUS
      <4>2. b \in Nat /\ c \in Nat /\ c > 0 /\ b < swap_base
        <5>1. p \in Procs /\ m.mp_flags[p] # {}
          BY DEF Live
        <5>2. c > 0
          BY <1>1, <4>1, <5>1 DEF Flagged
        <5>3. m.mem_phys \in [Procs -> Nat] /\ m.size \in [Procs -> Nat]
          BY <1>1, MemoryFields DEF Part
        <5> QED
          BY <2>2, <4>1, <5>1, <5>2, <5>3
      <4>3. \A y \in Nat : In(b, c, y) => Area(n, y)
        BY <1>1, <4>1 DEF Shared, Has
      <4>4. In(b, c, x)
        BY <3>2, <4>1 DEF Has
      <4>5. Holds(Chunks, x)
        BY <1>1, <4>2, <4>3, <4>4, NotAcross
      <4> QED
        BY <3>1, <4>5
    <3> QED
      BY <3>1, <3>2
  <2>9. Shared(g, 0, 0, 0)
    <3>1. ASSUME NEW x \in Nat
          PROVE  Area(0, x) <=> \/ Holds(g.hole, x) \/ In(0, 0, x)
                                \/ \E p \in Live(g) : Has(g, p, x)
      <4>1. Area(n, x) <=> Holds(m.hole, x) \/ \E p \in Live(m) : Has(m, p, x)
        BY <1>1, <2>7 DEF Shared
      <4>2. Area(0, x) <=> Area(n, x) /\ ~In(swap_base, n, x)
        BY <2>7, <2>8 DEF Area
      <4> QED
        BY <2>3, <2>5, <2>6, <2>7, <2>8, <4>1, <4>2
    <3>2. \A p \in Live(g) : \A x \in Nat :
            Has(g, p, x) => ~Holds(g.hole, x) /\ ~In(0, 0, x)
      BY <1>1, <2>3, <2>5, <2>6 DEF Shared
    <3>3. \A p, q \in Live(g) : \A x \in Nat : Has(g, p, x) /\ Has(g, q, x) => p = q
      BY <1>1, <2>6 DEF Shared
    <3> QED
      BY <2>7, <3>1, <3>2, <3>3 DEF Shared
  <2>10. Flagged(g) /\ Placed(g) /\ Separate(g) /\ Waiting(g)
    <3>1. Flagged(g) /\ Placed(g)
      BY <1>1, <2>5, <2>6 DEF Flagged, Placed
    <3>2. Separate(g) /\ Waiting(g)
      BY <2>5 DEF Separate, Waiting
    <3> QED
      BY <3>1, <3>2
  <2>11. Sound(g, 0)
    <3>1. Room(m) /\ g.panic = m.panic
      BY <1>1, <2>3, <2>4 DEF Part, Memory
    <3>2. Room(g)
      BY <3>1 DEF Room
    <3> QED
      BY <2>3, <2>5, <2>9, <2>10, <3>2 DEF Sound, Part
  <2> QED
    BY <2>10, <2>11
<1> QED
  BY <1>2, <1>3

\* swap_inqueue calls a process in that is swapped out.
LEMMA swap_inqueueKeeps ==
  ASSUME NEW m, NEW n, Sound(m, n), Queued(m), NEW p \in Procs,
         "ONSWAP" \in m.mp_flags[p], NEW g, g = swap_inqueue(m, p)
  PROVE  /\ Sound(g, n) /\ Queued(g)
         /\ g.swap_on = m.swap_on /\ g.current_algorithm = m.current_algorithm
         /\ \A q \in Procs : "ONSWAP" \in g.mp_flags[q] <=> "ONSWAP" \in m.mp_flags[q]
<1>1. CASE "SWAPIN" \in m.mp_flags[p]
  <2>1. g = m
    BY <1>1 DEF swap_inqueue
  <2> QED
    BY <2>1
<1>2. CASE "SWAPIN" \notin m.mp_flags[p]
  <2>1. m \in Memory /\ Flagged(m)
    BY DEF Sound, Part
  <2>2. PICK fl, G, w : /\ fl = m.mp_flags[p] \cup {"SWAPIN"}
                        /\ G = [m.mp_flags EXCEPT ![p] = fl]
                        /\ w = Append(m.in_queue, p)
    OBVIOUS
  <2>3. g = [m EXCEPT !.in_queue = w, !.mp_flags = G]
    BY <1>2, <2>2 DEF swap_inqueue
  <2>4. /\ fl \in SUBSET Flags /\ G \in [Procs -> SUBSET Flags] /\ G[p] = fl
        /\ \A q \in Procs \ {p} : G[q] = m.mp_flags[q]
    <3>1. m.mp_flags \in [Procs -> SUBSET Flags]
      BY <2>1, MemoryFields
    <3>2. fl \in SUBSET Flags
      BY <2>2, <3>1 DEF Flags
    <3> QED
      BY <2>2, <3>1, <3>2
  <2>5. w \in Seq(Procs)
    <3>1. m.in_queue \in Seq(Procs)
      BY <2>1, MemoryFields
    <3> QED
      BY <2>2, <3>1
  <2>6. /\ g \in Memory /\ g.hole = m.hole /\ g.mem_phys = m.mem_phys
        /\ g.size = m.size /\ g.swap_on = m.swap_on
        /\ g.current_algorithm = m.current_algorithm
        /\ g.mp_flags = G /\ g.in_queue = w /\ g.panic = m.panic
    BY <2>1, <2>3, <2>4, <2>5 DEF Memory
  <2>7. /\ "SWAPIN" \in fl /\ "ONSWAP" \in fl /\ "IN_USE" \in m.mp_flags[p]
        /\ "IN_USE" \in fl
    BY <2>1, <2>2 DEF Flagged, Live
  <2>8. Sound(g, n)
    BY <2>4, <2>6, <2>7, Reflagged
  <2>9. Queued(g)
    <3>1. \A q \in Procs \ {p} : g.mp_flags[q] = m.mp_flags[q]
      BY <2>4, <2>6
    <3>2. g.in_queue = Append(m.in_queue, p) /\ "SWAPIN" \in g.mp_flags[p]
      BY <2>2, <2>4, <2>6, <2>7
    <3> QED
      BY <1>2, <2>1, <3>1, <3>2, swap_inqueueQueues
  <2> QED
    BY <2>4, <2>6, <2>7, <2>8, <2>9
<1> QED
  BY <1>1, <1>2

\* The data t, with some of those of m that are swapped out called in
Calling(t, m, n) ==
  /\ Sound(t, n) /\ Queued(t)
  /\ t.swap_on = m.swap_on /\ t.current_algorithm = m.current_algorithm
  /\ \A q \in Procs : "ONSWAP" \in t.mp_flags[q] <=> "ONSWAP" \in m.mp_flags[q]

\* One process, called in if it is swapped out
CallIn(t, m, p) ==
  IF "ONSWAP" \in m.mp_flags[p] THEN swap_inqueue(t, p) ELSE t

\* swapoff() calls everybody in.
LEMMA AllCalled ==
  ASSUME NEW m, NEW n, Sound(m, n), Queued(m), NEW f,
         f = CHOOSE queue : queue =
               [p \in (LOW_USER - 1)..HIGH_USER |->
                  IF p < LOW_USER THEN m
                  ELSE IF "ONSWAP" \in m.mp_flags[p]
                  THEN swap_inqueue(queue[p - 1], p) ELSE queue[p - 1]]
  PROVE  Calling(f[HIGH_USER], m, n)
<1>1. PICK lo, hi, N : lo = LOW_USER /\ hi = HIGH_USER /\ N = hi - lo + 1
  OBVIOUS
<1>2. lo \in Nat /\ hi \in Nat /\ lo <= hi /\ N \in Nat /\ Procs = lo..hi
  BY <1>1, Slots
<1>3. m \in Memory /\ Calling(m, m, n)
  BY DEF Calling, Sound, Part
<1>4. PICK Good : Good = {t \in Memory : Calling(t, m, n)}
  OBVIOUS
<1>5. \A t : t \in Good <=> Calling(t, m, n)
  BY <1>4 DEF Calling, Sound, Part
<1>6. ASSUME NEW t, Calling(t, m, n), NEW p \in Procs
      PROVE  Calling(CallIn(t, m, p), m, n)
  <2>1. CASE "ONSWAP" \in m.mp_flags[p]
    <3>1. PICK g : g = swap_inqueue(t, p)
      OBVIOUS
    <3>2. Sound(t, n) /\ Queued(t) /\ "ONSWAP" \in t.mp_flags[p]
      BY <1>6, <2>1 DEF Calling
    <3>3. /\ Sound(g, n) /\ Queued(g)
          /\ g.swap_on = t.swap_on /\ g.current_algorithm = t.current_algorithm
          /\ \A q \in Procs : "ONSWAP" \in g.mp_flags[q] <=> "ONSWAP" \in t.mp_flags[q]
      BY <3>1, <3>2, swap_inqueueKeeps
    <3> QED
      BY <1>6, <2>1, <3>1, <3>3 DEF Calling, CallIn
  <2>2. CASE "ONSWAP" \notin m.mp_flags[p]
    BY <1>6, <2>2 DEF CallIn
  <2> QED
    BY <2>1, <2>2
<1>7. \A i \in 1..N : /\ i \in 0..N /\ i - 1 \in 0..N /\ i # 0 /\ lo - 1 + i \in Procs
  BY <1>1, <1>2
<1>8. PICK D, S : D = [i \in 0..N |-> Good]
                  /\ S = [i \in 1..N |-> [t \in Good |-> CallIn(t, m, lo - 1 + i)]]
  OBVIOUS
<1>9. m \in D[0] /\ 0 \in 0..N
  BY <1>2, <1>3, <1>5, <1>8
<1>10. \A i \in 1..N : \A t \in D[i - 1] : S[i][t] \in D[i]
  <2> TAKE i \in 1..N
  <2> TAKE t \in D[i - 1]
  <2>1. t \in Good /\ D[i] = Good
    BY <1>7, <1>8
  <2>2. S[i][t] = CallIn(t, m, lo - 1 + i)
    BY <1>8, <2>1
  <2> QED
    BY <1>5, <1>6, <1>7, <2>1, <2>2
<1>11. PICK e : Along(e, N, m, S) /\ \A i \in 0..N : e[i] \in D[i]
  BY <1>2, <1>9, <1>10, Recursion
<1>12. /\ e[0] = m
       /\ \A i \in 1..N : e[i] = CallIn(e[i - 1], m, lo - 1 + i)
  <2>1. e = [i \in 0..N |-> IF i = 0 THEN m ELSE S[i][e[i - 1]]]
    BY <1>11 DEF Along
  <2>2. e[0] = m
    BY <1>9, <2>1
  <2>3. ASSUME NEW i \in 1..N PROVE e[i] = CallIn(e[i - 1], m, lo - 1 + i)
    <3>1. e[i] = S[i][e[i - 1]] /\ e[i - 1] \in Good
      BY <1>7, <1>8, <1>11, <2>1
    <3> QED
      BY <1>8, <3>1
  <2> QED
    BY <2>2, <2>3
<1>13. PICK g : g = [p \in (lo - 1)..hi |-> e[p - (lo - 1)]]
  OBVIOUS
<1>14. \A p \in (lo - 1)..hi :
         g[p] = IF p < lo THEN m
                ELSE IF "ONSWAP" \in m.mp_flags[p]
                THEN swap_inqueue(g[p - 1], p) ELSE g[p - 1]
  <2> TAKE p \in (lo - 1)..hi
  <2>1. CASE p < lo
    <3>1. p - (lo - 1) = 0
      BY <1>2, <2>1
    <3> QED
      BY <1>12, <1>13, <2>1, <3>1
  <2>2. CASE ~(p < lo)
    <3>1. PICK i : i = p - (lo - 1)
      OBVIOUS
    <3>2. i \in 1..N /\ lo - 1 + i = p /\ p - 1 \in (lo - 1)..hi
          /\ (p - 1) - (lo - 1) = i - 1
      BY <1>1, <1>2, <2>2, <3>1
    <3>3. e[i] = CallIn(e[i - 1], m, p)
      BY <1>12, <3>2
    <3>4. g[p] = e[i] /\ g[p - 1] = e[i - 1]
      BY <1>13, <3>1, <3>2
    <3> QED
      BY <2>2, <3>3, <3>4 DEF CallIn
  <2> QED
    BY <2>1, <2>2
<1>15. g = [p \in (lo - 1)..hi |->
              IF p < lo THEN m
              ELSE IF "ONSWAP" \in m.mp_flags[p]
              THEN swap_inqueue(g[p - 1], p) ELSE g[p - 1]]
  <2>1. PICK r : r = [p \in (lo - 1)..hi |->
                        IF p < lo THEN m
                        ELSE IF "ONSWAP" \in m.mp_flags[p]
                        THEN swap_inqueue(g[p - 1], p) ELSE g[p - 1]]
    OBVIOUS
  <2>2. \A p \in (lo - 1)..hi : r[p] = g[p]
    BY <1>14, <2>1
  <2>3. DOMAIN r = (lo - 1)..hi /\ g = [p \in (lo - 1)..hi |-> g[p]]
    BY <1>13, <2>1
  <2>4. r = [p \in (lo - 1)..hi |-> r[p]]
    BY <2>1
  <2>5. r = g
    BY <2>2, <2>3, <2>4
  <2> QED
    BY <2>1, <2>5
<1>16. f = [p \in (lo - 1)..hi |->
              IF p < lo THEN m
              ELSE IF "ONSWAP" \in m.mp_flags[p]
              THEN swap_inqueue(f[p - 1], p) ELSE f[p - 1]]
  BY <1>1, <1>15, ZenonT(90)
<1>17. PICK P : P = {i \in 0..N : Calling(f[lo - 1 + i], m, n)}
  OBVIOUS
<1>18. 0 \in P
  <2>1. lo - 1 + 0 = lo - 1 /\ lo - 1 \in (lo - 1)..hi /\ lo - 1 < lo
    BY <1>2
  <2>2. f[lo - 1 + 0] = m
    BY <1>16, <2>1
  <2> QED
    BY <1>3, <1>9, <1>17, <2>2
<1>19. ASSUME NEW i \in 1..N, i - 1 \in P PROVE i \in P
  <2>1. PICK p : p = lo - 1 + i
    OBVIOUS
  <2>2. p \in (lo - 1)..hi /\ ~(p < lo) /\ p - 1 = lo - 1 + (i - 1) /\ p \in Procs
    BY <1>1, <1>2, <2>1
  <2>3. f[p] = CallIn(f[p - 1], m, p)
    BY <1>16, <2>2 DEF CallIn
  <2>4. Calling(f[p - 1], m, n)
    BY <1>17, <1>19, <2>2
  <2>5. Calling(f[p], m, n)
    BY <1>6, <2>2, <2>3, <2>4
  <2> QED
    BY <1>7, <1>17, <2>1, <2>5
<1>20. N \in P
  <2>1. 0..N \subseteq P
    BY <1>2, <1>18, <1>19, Upward
  <2> QED
    BY <1>2, <2>1
<1>21. lo - 1 + N = hi
  BY <1>1, <1>2
<1> QED
  BY <1>1, <1>17, <1>20, <1>21
-----------------------------------------------------------------------------
(* The rounds *)

\* Between the calls, the data is sound, and swap_in can run.
LEMMA StillWaiting ==
  ASSUME NEW m, Queued(m), NEW g, g.in_queue = m.in_queue,
         \A q \in Procs : "SWAPIN" \in g.mp_flags[q] => "SWAPIN" \in m.mp_flags[q]
  PROVE  Waiting(g)
BY DEF Queued, Waiting

\* What the invariant says
LEMMA InvFacts ==
  ASSUME IInv
  PROVE  \E n \in Nat :
           /\ Sound(mm, n) /\ Queued(mm) /\ Separate(mm) /\ Waiting(mm)
           /\ mm \in Memory /\ Part(mm, n, 0, 0) /\ Flagged(mm) /\ Placed(mm)
           /\ Shared(mm, n, 0, 0) /\ Tidy(mm.hole) /\ (~mm.swap_on => n = 0)
<1>1. PICK n \in Nat : Sound(mm, n)
  BY DEF IInv
<1>2. Queued(mm) /\ Separate(mm)
  BY DEF IInv
<1>3. Waiting(mm)
  BY <1>2 DEF Queued, Waiting
<1>4. Part(mm, n, 0, 0) /\ Flagged(mm) /\ Placed(mm)
  BY <1>1, <1>2 DEF Sound
<1> QED
  BY <1>1, <1>2, <1>3, <1>4 DEF Part

\* A call that leaves sound data is followed by a round that does.
LEMMA RoundKeeps ==
  ASSUME NEW m, NEW n, Sound(m, n), Waiting(m), mm' = EndOfRound(m), Apart'
  PROVE  IInv'
<1>1. PICK g : g = EndOfRound(m)
  OBVIOUS
<1>2. /\ Sound(g, n) /\ Queued(g)
      /\ \A p \in Procs : "REPLY" \in g.mp_flags[p] => "ONSWAP" \in g.mp_flags[p]
  BY <1>1, EndOfRoundKeeps
<1>3. n \in Nat
  BY DEF Sound, Part
<1>4. Separate(g)
  BY <1>1 DEF Apart, Separate
<1> QED
  BY <1>1, <1>2, <1>3, <1>4 DEF IInv

\* fork: a new process gets memory.
LEMMA ForkKeeps ==
  ASSUME IInv, NEW p \in Procs, NEW size \in Sizes, Fork(p, size), Apart'
  PROVE  IInv'
<1>1. PICK n \in Nat :
        /\ Sound(mm, n) /\ Queued(mm) /\ Separate(mm) /\ Waiting(mm)
        /\ mm \in Memory /\ Part(mm, n, 0, 0) /\ Flagged(mm) /\ Placed(mm)
        /\ Shared(mm, n, 0, 0) /\ Tidy(mm.hole) /\ (~mm.swap_on => n = 0)
  BY InvFacts
<1>2. PICK a, f, g : /\ a = alloc_mem(mm, size) /\ f = a.m
                     /\ g = Created(p, size, a)
  OBVIOUS
<1>3. mm' = EndOfRound(g) /\ mm.mp_flags[p] = {}
  <2>1. ~InUse(p) /\ mm' = EndOfRound(g)
    BY <1>2 DEF Fork
  <2> QED
    BY <1>1, <2>1 DEF InUse, Flagged, Live
<1>4. size \in Nat /\ size > 0
  BY AllocAssumption
<1>5. Answer(a, mm, n, size)
  BY <1>1, <1>2, <1>4, alloc_memAnswers
<1>6. /\ After(mm, f) /\ Flagged(f) /\ (Separate(f) => Placed(f))
      /\ f.in_queue = mm.in_queue
      /\ \A q \in Procs : "SWAPIN" \in f.mp_flags[q] <=> "SWAPIN" \in mm.mp_flags[q]
  <2>1. After(mm, f) /\ Flagged(f) /\ (Separate(f) => Placed(f))
    BY <1>2, <1>5 DEF Answer
  <2> QED
    BY <2>1 DEF After
<1>7. CASE a.base = NO_MEM
  <2>1. g = f
    BY <1>2, <1>7 DEF Created
  <2>2. Sound(g, n)
    BY <1>2, <1>5, <1>6, <1>7, <2>1 DEF Answer, Sound
  <2>3. Waiting(g)
    BY <1>1, <1>6, <2>1, StillWaiting
  <2> QED
    BY <1>3, <2>2, <2>3, RoundKeeps
<1>8. CASE a.base # NO_MEM
  <2>1. PICK b : b = a.base
    OBVIOUS
  <2>2. /\ b \in Nat /\ Part(f, n, b, size) /\ (Separate(f) => b < swap_base)
    BY <1>2, <1>5, <1>8, <2>1 DEF Answer
  <2>3. /\ f \in Memory /\ Tidy(f.hole) /\ Shared(f, n, b, size)
        /\ (~f.swap_on => n = 0)
    BY <2>2 DEF Part
  <2>4. p \notin Live(f)
    <3>1. ~Candidate(mm, p)
      BY <1>3 DEF Candidate
    <3>2. f.mp_flags[p] = {}
      BY <1>3, <1>6, <3>1 DEF After
    <3> QED
      BY <3>2 DEF Live
  <2>5. PICK F, Z, G, o : /\ F = [f.mem_phys EXCEPT ![p] = b]
                          /\ Z = [f.size EXCEPT ![p] = size]
                          /\ o = {"IN_USE"}
                          /\ G = [f.mp_flags EXCEPT ![p] = o]
    OBVIOUS
  <2>6. /\ F \in [Procs -> Nat] /\ F[p] = b
        /\ \A q \in Procs \ {p} : F[q] = f.mem_phys[q]
    <3>1. f.mem_phys \in [Procs -> Nat]
      BY <2>3, MemoryFields
    <3> QED
      BY <2>2, <2>5, <3>1
  <2>7. /\ Z \in [Procs -> Nat] /\ Z[p] = size
        /\ \A q \in Procs \ {p} : Z[q] = f.size[q]
    <3>1. f.size \in [Procs -> Nat]
      BY <2>3, MemoryFields
    <3> QED
      BY <1>4, <2>5, <3>1
  <2>8. /\ G \in [Procs -> SUBSET Flags] /\ G[p] = o
        /\ \A q \in Procs \ {p} : G[q] = f.mp_flags[q]
    <3>1. f.mp_flags \in [Procs -> SUBSET Flags]
      BY <2>3, MemoryFields
    <3>2. o \in SUBSET Flags
      BY <2>5 DEF Flags
    <3> QED
      BY <2>5, <3>1, <3>2
  <2>9. g = [f EXCEPT !.mem_phys = F, !.size = Z, !.mp_flags = G]
    BY <1>2, <1>8, <2>1, <2>5 DEF Created
  <2>10. /\ g \in Memory /\ g.hole = f.hole /\ g.mem_phys = F /\ g.size = Z
         /\ g.mp_flags = G /\ g.in_queue = f.in_queue /\ g.swap_on = f.swap_on
         /\ g.current_algorithm = f.current_algorithm /\ g.panic = f.panic
    BY <2>3, <2>6, <2>7, <2>8, <2>9 DEF Memory
  <2>11. /\ p \in Live(g) /\ "ONSWAP" \notin o /\ "SWAPIN" \notin o /\ o # {}
         /\ \A q \in Procs \ {p} : q \in Live(g) <=> q \in Live(f)
    <3>1. "ONSWAP" \notin o /\ "SWAPIN" \notin o /\ "IN_USE" \in o
      BY <2>5
    <3> QED
      BY <2>8, <2>10, <3>1 DEF Live
  <2>12. Shared(g, n, 0, 0)
    <3>1. \A q \in Procs \ {p} :
             /\ q \in Live(g) <=> q \in Live(f)
             /\ g.mem_phys[q] = f.mem_phys[q] /\ g.size[q] = f.size[q]
      BY <2>6, <2>7, <2>10, <2>11
    <3>2. g.mem_phys[p] = b /\ g.size[p] = size /\ g.hole = f.hole
      BY <2>6, <2>7, <2>10
    <3>3. PICK z \in Nat : z = 0
      OBVIOUS
    <3>4. Shared(g, n, z, z)
      BY <1>4, <2>2, <2>3, <2>4, <2>10, <2>11, <3>1, <3>2, <3>3, ExchangeShares
    <3> QED
      BY <3>3, <3>4
  <2>13. Flagged(g)
    <3> SUFFICES ASSUME NEW q \in Procs
        PROVE /\ g.mp_flags[q] # {} => q \in Live(g) /\ g.size[q] > 0
              /\ "SWAPIN" \in g.mp_flags[q] => "ONSWAP" \in g.mp_flags[q]
              /\ {"REPLY", "ONSWAP"} \subseteq g.mp_flags[q] =>
                   "SWAPIN" \in g.mp_flags[q]
      BY DEF Flagged
    <3>1. CASE q = p
      BY <1>4, <2>7, <2>8, <2>10, <2>11, <3>1
    <3>2. CASE q # p
      <4>1. g.mp_flags[q] = f.mp_flags[q] /\ g.size[q] = f.size[q]
        BY <2>7, <2>8, <2>10, <3>2
      <4> QED
        BY <1>6, <2>11, <3>2, <4>1 DEF Flagged
    <3> QED
      BY <3>1, <3>2
  <2>14. ASSUME Separate(g) PROVE Placed(g)
    <3>1. Placed(f) /\ b < swap_base
      BY <1>6, <2>2, <2>10, <2>14 DEF Separate
    <3> SUFFICES ASSUME NEW q \in Live(g)
        PROVE "ONSWAP" \in g.mp_flags[q] <=> g.mem_phys[q] >= swap_base
      BY DEF Placed
    <3>2. CASE q = p
      <4>1. ~(b >= swap_base)
        BY <2>2, <3>1, Gapped
      <4> QED
        BY <2>6, <2>8, <2>10, <2>11, <3>2, <4>1
    <3>3. CASE q # p
      <4>1. q \in Procs /\ q \in Live(f)
        BY <2>11, <3>3 DEF Live
      <4>2. g.mp_flags[q] = f.mp_flags[q] /\ g.mem_phys[q] = f.mem_phys[q]
        BY <2>6, <2>8, <2>10, <3>3, <4>1
      <4> QED
        BY <3>1, <4>1, <4>2 DEF Placed
    <3> QED
      BY <3>2, <3>3
  <2>15. Sound(g, n)
    <3>1. Room(f) /\ g.panic = f.panic
      BY <2>2, <2>10 DEF Part
    <3>2. Room(g)
      BY <3>1 DEF Room
    <3> QED
      BY <2>3, <2>10, <2>12, <2>13, <2>14, <3>2 DEF Sound, Part
  <2>16. Waiting(g)
    <3>1. \A q \in Procs : "SWAPIN" \in g.mp_flags[q] => "SWAPIN" \in mm.mp_flags[q]
      BY <1>6, <2>8, <2>10, <2>11
    <3> QED
      BY <1>1, <1>6, <2>10, <3>1, StillWaiting
  <2> QED
    BY <1>3, <2>15, <2>16, RoundKeeps
<1> QED
  BY <1>7, <1>8

\* exit: the memory of a process comes free.
LEMMA ExitKeeps ==
  ASSUME IInv, NEW p \in Procs, Exit(p), Apart'
  PROVE  IInv'
<1>1. PICK n \in Nat :
        /\ Sound(mm, n) /\ Queued(mm) /\ Separate(mm) /\ Waiting(mm)
        /\ mm \in Memory /\ Part(mm, n, 0, 0) /\ Flagged(mm) /\ Placed(mm)
        /\ Shared(mm, n, 0, 0) /\ Tidy(mm.hole) /\ (~mm.swap_on => n = 0)
  BY InvFacts
<1>2. PICK m, d, c, z, o : m = mm /\ d = mm.mem_phys[p] /\ c = mm.size[p]
                           /\ z = 0 /\ o = {}
  OBVIOUS
<1>3. z \in Nat /\ o \in SUBSET Flags /\ p \in Live(m) /\ m \in Memory
      /\ d \in Nat /\ c \in Nat
  <2>1. p \in Live(m)
    BY <1>2 DEF Exit, InUse, Live
  <2>2. mm.mem_phys \in [Procs -> Nat] /\ mm.size \in [Procs -> Nat]
    BY <1>1, MemoryFields
  <2> QED
    BY <1>1, <1>2, <2>1, <2>2
<1>4. PICK F, Z, G, h, t : /\ F = [m.mem_phys EXCEPT ![p] = z]
                           /\ Z = [m.size EXCEPT ![p] = z]
                           /\ G = [m.mp_flags EXCEPT ![p] = o]
                           /\ h = free_mem(m.hole, d, c)
                           /\ t = (m.panic \/ (c # 0 /\ Len(m.hole) = NR_HOLES))
  OBVIOUS
<1>5. PICK u, g : /\ u = [m EXCEPT !.mem_phys = F, !.size = Z, !.mp_flags = G]
                  /\ g = Free(u, d, c)
  OBVIOUS
<1>6. /\ F \in [Procs -> Nat] /\ F[p] = z
      /\ \A q \in Procs \ {p} : F[q] = m.mem_phys[q]
  <2>1. m.mem_phys \in [Procs -> Nat]
    BY <1>3, MemoryFields
  <2> QED
    BY <1>3, <1>4, <2>1
<1>7. /\ Z \in [Procs -> Nat] /\ Z[p] = z
      /\ \A q \in Procs \ {p} : Z[q] = m.size[q]
  <2>1. m.size \in [Procs -> Nat]
    BY <1>3, MemoryFields
  <2> QED
    BY <1>3, <1>4, <2>1
<1>8. /\ G \in [Procs -> SUBSET Flags] /\ G[p] = o
      /\ \A q \in Procs \ {p} : G[q] = m.mp_flags[q]
  <2>1. m.mp_flags \in [Procs -> SUBSET Flags]
    BY <1>3, MemoryFields
  <2> QED
    BY <1>3, <1>4, <2>1
<1>9. /\ u \in Memory /\ u.hole = m.hole /\ u.mem_phys = F /\ u.size = Z
      /\ u.mp_flags = G /\ u.in_queue = m.in_queue /\ u.swap_on = m.swap_on
      /\ u.current_algorithm = m.current_algorithm /\ u.panic = m.panic
  BY <1>3, <1>5, <1>6, <1>7, <1>8 DEF Memory
<1>10. mm' = EndOfRound(g)
  <2>1. PICK f : f = [[m EXCEPT !.hole = h, !.panic = t]
                         EXCEPT !.mp_flags = G, !.mem_phys = F, !.size = Z]
    OBVIOUS
  <2>2. PICK k : k = [m EXCEPT !.hole = h, !.panic = t]
    OBVIOUS
  <2>3. k = Free(mm, d, c)
    BY <1>2, <1>4, <2>2 DEF Free
  <2>4. k.mp_flags = m.mp_flags /\ k.mem_phys = m.mem_phys /\ k.size = m.size
    BY <1>3, <2>2 DEF Memory
  <2>5. mm' = EndOfRound(f)
    <3>1. mm' = EndOfRound([k EXCEPT !.mp_flags[p] = o, !.mem_phys[p] = z,
                                     !.size[p] = z])
      BY <1>2, <2>3 DEF Exit, NO_MEM
    <3>2. [k EXCEPT !.mp_flags[p] = o, !.mem_phys[p] = z, !.size[p] = z]
            = [k EXCEPT !.mp_flags = G, !.mem_phys = F, !.size = Z]
      <4>1. [k.mp_flags EXCEPT ![p] = o] = G /\ [k.mem_phys EXCEPT ![p] = z] = F
            /\ [k.size EXCEPT ![p] = z] = Z
        BY <1>4, <2>4
      <4> QED
        BY <4>1
    <3> QED
      BY <2>1, <2>2, <3>1, <3>2
  <2>6. g = [u EXCEPT !.hole = h, !.panic = t]
    BY <1>4, <1>5, <1>9 DEF Free
  <2>7. f = g
    BY <1>3, <1>5, <2>1, <2>6 DEF Memory
  <2> QED
    BY <2>5, <2>7
<1>11. /\ p \notin Live(u) /\ \A q \in Procs \ {p} : q \in Live(u) <=> q \in Live(m)
  <2>1. "IN_USE" \notin o
    BY <1>2
  <2> QED
    BY <1>8, <1>9, <2>1 DEF Live
<1>12. Part(u, n, d, c)
  <2>1. \A q \in Procs \ {p} :
           /\ q \in Live(u) <=> q \in Live(m)
           /\ u.mem_phys[q] = m.mem_phys[q] /\ u.size[q] = m.size[q]
    BY <1>6, <1>7, <1>9, <1>11
  <2>2. Shared(m, n, z, z)
    BY <1>1, <1>2
  <2>3. d = m.mem_phys[p] /\ c = m.size[p] /\ u.hole = m.hole /\ z = 0
    BY <1>2, <1>9
  <2>4. Shared(u, n, d, c)
    BY <1>3, <1>9, <1>11, <2>1, <2>2, <2>3, ExchangeShares
  <2>5. Room(u)
    BY <1>1, <1>2, <1>9 DEF Part, Room
  <2> QED
    BY <1>1, <1>2, <1>3, <1>9, <2>4, <2>5 DEF Part
<1>13. /\ Part(g, n, 0, 0)
       /\ g.mp_flags = G /\ g.mem_phys = F /\ g.size = Z
       /\ g.in_queue = m.in_queue /\ g.swap_on = m.swap_on
       /\ g.current_algorithm = m.current_algorithm
  <2>1. /\ Part(g, n, 0, 0)
        /\ g.mp_flags = u.mp_flags /\ g.mem_phys = u.mem_phys /\ g.size = u.size
        /\ g.in_queue = u.in_queue /\ g.swap_on = u.swap_on
        /\ g.current_algorithm = u.current_algorithm
    <3>1. g = Free(u, d, c)
      BY <1>5
    <3> QED
      BY <1>12, <3>1, FreeKeeps
  <2> QED
    BY <1>9, <2>1
<1>14. Live(g) = Live(u)
  BY <1>9, <1>13 DEF Live
<1>15. Flagged(g)
  <2> SUFFICES ASSUME NEW q \in Procs
      PROVE /\ g.mp_flags[q] # {} => q \in Live(g) /\ g.size[q] > 0
            /\ "SWAPIN" \in g.mp_flags[q] => "ONSWAP" \in g.mp_flags[q]
            /\ {"REPLY", "ONSWAP"} \subseteq g.mp_flags[q] =>
                 "SWAPIN" \in g.mp_flags[q]
    BY DEF Flagged
  <2>1. CASE q = p
    BY <1>2, <1>8, <1>13, <2>1
  <2>2. CASE q # p
    <3>1. g.mp_flags[q] = m.mp_flags[q] /\ g.size[q] = m.size[q]
      BY <1>7, <1>8, <1>13, <2>2
    <3> QED
      BY <1>1, <1>2, <1>11, <1>14, <2>2, <3>1 DEF Flagged
  <2> QED
    BY <2>1, <2>2
<1>16. Placed(g)
  <2> SUFFICES ASSUME NEW q \in Live(g)
      PROVE "ONSWAP" \in g.mp_flags[q] <=> g.mem_phys[q] >= swap_base
    BY DEF Placed
  <2>1. q \in Procs /\ q # p /\ q \in Live(m)
    BY <1>11, <1>14 DEF Live
  <2>2. g.mp_flags[q] = m.mp_flags[q] /\ g.mem_phys[q] = m.mem_phys[q]
    BY <1>6, <1>8, <1>13, <2>1
  <2> QED
    BY <1>1, <1>2, <2>1, <2>2 DEF Placed
<1>17. Waiting(g)
  <2>1. \A q \in Procs : "SWAPIN" \in g.mp_flags[q] => "SWAPIN" \in m.mp_flags[q]
    BY <1>2, <1>8, <1>13
  <2> QED
    BY <1>1, <1>2, <1>13, <2>1, StillWaiting
<1> QED
  BY <1>10, <1>13, <1>15, <1>16, <1>17, RoundKeeps DEF Sound

\* pause, wait: a process is blocked.
LEMMA BlockKeeps ==
  ASSUME IInv, NEW p \in Procs, Block(p), Apart'
  PROVE  IInv'
<1>1. PICK n \in Nat :
        /\ Sound(mm, n) /\ Queued(mm) /\ Separate(mm) /\ Waiting(mm)
        /\ mm \in Memory /\ Part(mm, n, 0, 0) /\ Flagged(mm) /\ Placed(mm)
        /\ Shared(mm, n, 0, 0) /\ Tidy(mm.hole) /\ (~mm.swap_on => n = 0)
  BY InvFacts
<1>2. PICK fl, G, g : /\ fl = mm.mp_flags[p] \cup {"BLOCKED"}
                      /\ G = [mm.mp_flags EXCEPT ![p] = fl]
                      /\ g = [mm EXCEPT !.mp_flags = G]
  OBVIOUS
<1>3. mm' = EndOfRound(g)
  BY <1>2 DEF Block
<1>4. /\ "IN_USE" \in mm.mp_flags[p] /\ "ONSWAP" \notin mm.mp_flags[p]
      /\ "SWAPIN" \notin mm.mp_flags[p]
  BY <1>1 DEF Block, CanCall, InUse, Flagged
<1>5. /\ fl \in SUBSET Flags /\ G \in [Procs -> SUBSET Flags] /\ G[p] = fl
      /\ \A q \in Procs \ {p} : G[q] = mm.mp_flags[q]
  <2>1. mm.mp_flags \in [Procs -> SUBSET Flags]
    BY <1>1, MemoryFields
  <2>2. fl \in SUBSET Flags
    BY <1>2, <2>1 DEF Flags
  <2> QED
    BY <1>2, <2>1, <2>2
<1>6. /\ g \in Memory /\ g.hole = mm.hole /\ g.mem_phys = mm.mem_phys
      /\ g.size = mm.size /\ g.swap_on = mm.swap_on
      /\ g.current_algorithm = mm.current_algorithm
      /\ g.mp_flags = G /\ g.in_queue = mm.in_queue /\ g.panic = mm.panic
  BY <1>1, <1>2, <1>5 DEF Memory
<1>7. "IN_USE" \in fl /\ "ONSWAP" \notin fl /\ "SWAPIN" \notin fl
  BY <1>2, <1>4
<1>8. Sound(g, n)
  BY <1>1, <1>4, <1>5, <1>6, <1>7, Reflagged
<1>9. Waiting(g)
  <2>1. \A q \in Procs : "SWAPIN" \in g.mp_flags[q] => "SWAPIN" \in mm.mp_flags[q]
    BY <1>5, <1>6, <1>7
  <2> QED
    BY <1>1, <1>6, <2>1, StillWaiting
<1> QED
  BY <1>3, <1>8, <1>9, RoundKeeps

\* setreply(): a blocked process has its answer, and is called in for it.
LEMMA UnblockKeeps ==
  ASSUME IInv, NEW p \in Procs, Unblock(p), Apart'
  PROVE  IInv'
<1>1. PICK n \in Nat :
        /\ Sound(mm, n) /\ Queued(mm) /\ Separate(mm) /\ Waiting(mm)
        /\ mm \in Memory /\ Part(mm, n, 0, 0) /\ Flagged(mm) /\ Placed(mm)
        /\ Shared(mm, n, 0, 0) /\ Tidy(mm.hole) /\ (~mm.swap_on => n = 0)
  BY InvFacts
<1>2. PICK old, fl, G, m : /\ old = mm.mp_flags[p]
                           /\ fl = (old \ {"BLOCKED"}) \cup {"REPLY"}
                           /\ G = [mm.mp_flags EXCEPT ![p] = fl]
                           /\ m = [mm EXCEPT !.mp_flags = G]
  OBVIOUS
<1>3. PICK g : g = IF "ONSWAP" \in m.mp_flags[p] THEN swap_inqueue(m, p) ELSE m
  OBVIOUS
<1>4. mm' = EndOfRound(g)
  BY <1>2, <1>3 DEF Unblock
<1>5. /\ old \in SUBSET Flags /\ "IN_USE" \in old
      /\ "SWAPIN" \in old => "ONSWAP" \in old
  <2>1. "BLOCKED" \in old
    BY <1>2 DEF Unblock
  <2>2. mm.mp_flags \in [Procs -> SUBSET Flags]
    BY <1>1, MemoryFields
  <2>3. old \in SUBSET Flags
    BY <1>2, <2>2
  <2> QED
    BY <1>1, <1>2, <2>1, <2>3 DEF Flagged, Live
<1>6. /\ fl \in SUBSET Flags /\ "IN_USE" \in fl
      /\ "ONSWAP" \in fl <=> "ONSWAP" \in old
      /\ "SWAPIN" \in fl <=> "SWAPIN" \in old
  BY <1>2, <1>5 DEF Flags
<1>7. /\ G \in [Procs -> SUBSET Flags] /\ G[p] = fl
      /\ \A q \in Procs \ {p} : G[q] = mm.mp_flags[q]
  <2>1. mm.mp_flags \in [Procs -> SUBSET Flags]
    BY <1>1, MemoryFields
  <2> QED
    BY <1>2, <1>6, <2>1
<1>8. /\ m \in Memory /\ m.hole = mm.hole /\ m.mem_phys = mm.mem_phys
      /\ m.size = mm.size /\ m.swap_on = mm.swap_on
      /\ m.current_algorithm = mm.current_algorithm
      /\ m.mp_flags = G /\ m.in_queue = mm.in_queue /\ m.panic = mm.panic
  BY <1>1, <1>2, <1>7 DEF Memory
<1>9. CASE "ONSWAP" \notin fl \/ "SWAPIN" \in fl
  <2>1. g = m
    BY <1>3, <1>7, <1>8, <1>9 DEF swap_inqueue
  <2>2. Sound(g, n)
    <3>1. Sound(mm, n) /\ p \in Procs /\ fl \in SUBSET Flags
      BY <1>1, <1>2, <1>6
    <3>2. /\ g \in Memory /\ g.hole = mm.hole /\ g.mem_phys = mm.mem_phys
          /\ g.size = mm.size /\ g.swap_on = mm.swap_on
          /\ g.current_algorithm = mm.current_algorithm /\ g.panic = mm.panic
          /\ g.mp_flags = G
      BY <1>8, <2>1
    <3>3. g.mp_flags[p] = fl /\ \A q \in Procs \ {p} : g.mp_flags[q] = mm.mp_flags[q]
      BY <1>7, <3>2
    <3>4. /\ "IN_USE" \in mm.mp_flags[p] /\ "IN_USE" \in fl
          /\ "ONSWAP" \in fl <=> "ONSWAP" \in mm.mp_flags[p]
          /\ "SWAPIN" \in fl => "ONSWAP" \in fl
          /\ "REPLY" \in fl /\ "ONSWAP" \in fl => "SWAPIN" \in fl
      BY <1>2, <1>5, <1>6, <1>9
    <3> HIDE <1>1, <1>2, <1>3
    <3> QED
      BY <3>1, <3>2, <3>3, <3>4, Reflagged
  <2>3. Waiting(g)
    <3>1. \A q \in Procs : "SWAPIN" \in g.mp_flags[q] => "SWAPIN" \in mm.mp_flags[q]
      BY <1>2, <1>6, <1>7, <1>8, <2>1
    <3> QED
      BY <1>1, <1>8, <2>1, <3>1, StillWaiting
  <2> QED
    BY <1>4, <2>2, <2>3, RoundKeeps
<1>10. CASE "ONSWAP" \in fl /\ "SWAPIN" \notin fl
  <2>1. PICK fs, H, w : /\ fs = fl \cup {"SWAPIN"}
                        /\ H = [m.mp_flags EXCEPT ![p] = fs]
                        /\ w = Append(m.in_queue, p)
    OBVIOUS
  <2>2. g = [m EXCEPT !.in_queue = w, !.mp_flags = H]
    <3>1. "ONSWAP" \in m.mp_flags[p] /\ "SWAPIN" \notin m.mp_flags[p]
          /\ m.mp_flags[p] = fl
      BY <1>7, <1>8, <1>10
    <3> QED
      BY <1>3, <2>1, <3>1 DEF swap_inqueue
  <2>3. /\ fs \in SUBSET Flags /\ "IN_USE" \in fs /\ "ONSWAP" \in fs
        /\ "SWAPIN" \in fs
    BY <1>6, <1>10, <2>1 DEF Flags
  <2>4. /\ H \in [Procs -> SUBSET Flags] /\ H[p] = fs
        /\ \A q \in Procs \ {p} : H[q] = mm.mp_flags[q]
    BY <1>7, <1>8, <2>1, <2>3
  <2>5. w \in Seq(Procs)
    <3>1. m.in_queue \in Seq(Procs)
      BY <1>8, MemoryFields
    <3> QED
      BY <2>1, <3>1
  <2>6. /\ g \in Memory /\ g.hole = mm.hole /\ g.mem_phys = mm.mem_phys
        /\ g.size = mm.size /\ g.swap_on = mm.swap_on
        /\ g.current_algorithm = mm.current_algorithm
        /\ g.mp_flags = H /\ g.in_queue = w /\ g.panic = mm.panic
    <3>1. /\ g \in Memory /\ g.hole = m.hole /\ g.mem_phys = m.mem_phys
          /\ g.size = m.size /\ g.swap_on = m.swap_on
          /\ g.current_algorithm = m.current_algorithm
          /\ g.mp_flags = H /\ g.in_queue = w /\ g.panic = m.panic
      BY <1>8, <2>2, <2>4, <2>5 DEF Memory
    <3> QED
      BY <1>8, <3>1
  <2>7. Sound(g, n)
    <3>1. "IN_USE" \in mm.mp_flags[p] /\ "ONSWAP" \in mm.mp_flags[p]
      BY <1>2, <1>5, <1>6, <1>10
    <3> QED
      BY <1>1, <2>3, <2>4, <2>6, <3>1, Reflagged
  <2>8. Queued(g)
    <3>1. \A q \in Procs \ {p} :
            "SWAPIN" \in g.mp_flags[q] <=> "SWAPIN" \in mm.mp_flags[q]
      BY <2>4, <2>6
    <3>2. g.in_queue = Append(mm.in_queue, p) /\ "SWAPIN" \in g.mp_flags[p]
      BY <1>8, <2>1, <2>3, <2>4, <2>6
    <3>3. "SWAPIN" \notin mm.mp_flags[p]
      BY <1>2, <1>6, <1>10
    <3> QED
      BY <1>1, <3>1, <3>2, <3>3, swap_inqueueQueues
  <2>9. Waiting(g)
    BY <2>8 DEF Queued, Waiting
  <2> QED
    BY <1>4, <2>7, <2>9, RoundKeeps
<1> QED
  BY <1>9, <1>10

\* worst_fit(): another algorithm
LEMMA do_worst_fitKeeps ==
  ASSUME IInv, NEW algorithm, do_worst_fit(algorithm), Apart'
  PROVE  IInv'
<1>1. PICK n \in Nat :
        /\ Sound(mm, n) /\ Queued(mm) /\ Separate(mm) /\ Waiting(mm)
        /\ mm \in Memory /\ Part(mm, n, 0, 0) /\ Flagged(mm) /\ Placed(mm)
        /\ Shared(mm, n, 0, 0) /\ Tidy(mm.hole) /\ (~mm.swap_on => n = 0)
  BY InvFacts
<1>2. PICK g : g = IF algorithm \in {FIRST, WORST}
                   THEN [mm EXCEPT !.current_algorithm = algorithm] ELSE mm
  OBVIOUS
<1>3. mm' = EndOfRound(g)
  BY <1>2 DEF do_worst_fit
<1>4. /\ g \in Memory /\ g.hole = mm.hole /\ g.mem_phys = mm.mem_phys
      /\ g.size = mm.size /\ g.swap_on = mm.swap_on
      /\ g.mp_flags = mm.mp_flags /\ g.in_queue = mm.in_queue
      /\ g.panic = mm.panic
  <2>1. CASE algorithm \in {FIRST, WORST}
    BY <1>1, <1>2, <2>1 DEF Memory
  <2>2. CASE algorithm \notin {FIRST, WORST}
    BY <1>1, <1>2, <2>2
  <2> QED
    BY <2>1, <2>2
<1>5. Live(g) = Live(mm) /\ \A p, x : Has(g, p, x) = Has(mm, p, x)
  BY <1>4 DEF Live, Has
<1>6. Shared(g, n, 0, 0)
  BY <1>1, <1>4, <1>5 DEF Shared
<1>7. Flagged(g) /\ Placed(g)
  BY <1>1, <1>4, <1>5 DEF Flagged, Placed
<1>8. Sound(g, n)
  <2>1. Room(g)
    BY <1>1, <1>4 DEF Part, Room
  <2> QED
    BY <1>1, <1>4, <1>6, <1>7, <2>1 DEF Sound, Part
<1>9. Waiting(g)
  BY <1>1, <1>4, StillWaiting
<1> QED
  BY <1>3, <1>8, <1>9, RoundKeeps

\* swapon(): the swap area comes into being, as a free block.
LEMMA swap_onKeeps ==
  ASSUME IInv, NEW size \in SwapSizes, swap_on(size), Apart'
  PROVE  IInv'
<1>1. PICK n \in Nat :
        /\ Sound(mm, n) /\ Queued(mm) /\ Separate(mm) /\ Waiting(mm)
        /\ mm \in Memory /\ Part(mm, n, 0, 0) /\ Flagged(mm) /\ Placed(mm)
        /\ Shared(mm, n, 0, 0) /\ Tidy(mm.hole) /\ (~mm.swap_on => n = 0)
  BY InvFacts
<1>2. PICK b, m, g, u : /\ m = mm /\ u = [mm EXCEPT !.swap_on = TRUE]
                        /\ b = swap_base /\ g = Free(u, b, size)
  OBVIOUS
<1>3. mm' = EndOfRound(g) /\ n = 0 /\ size \in Nat /\ b \in Nat
  <2>1. mm' = EndOfRound(g) /\ ~mm.swap_on
    BY <1>2 DEF swap_on
  <2>2. size \in Nat
    BY AllocAssumption
  <2> QED
    BY <1>1, <1>2, <2>1, <2>2, Gapped
<1>4. /\ u \in Memory /\ u.hole = mm.hole /\ u.mem_phys = mm.mem_phys
      /\ u.size = mm.size /\ u.swap_on = TRUE
      /\ u.mp_flags = mm.mp_flags /\ u.in_queue = mm.in_queue
      /\ u.current_algorithm = mm.current_algorithm /\ u.panic = mm.panic
  BY <1>1, <1>2 DEF Memory
<1>5. Live(u) = Live(mm) /\ \A p, x : Has(u, p, x) = Has(mm, p, x)
  BY <1>4 DEF Live, Has
<1>6. \A x \in Nat : ~In(0, 0, x) /\ ~In(b, 0, x)
  BY <1>3 DEF In
<1>7. \A x \in Nat : Area(0, x) => ~In(b, size, x)
  <2> TAKE x \in Nat
  <2>1. Holds(Chunks, x) => x < swap_base - 1
    BY Gapped
  <2>2. Area(0, x) => Holds(Chunks, x)
    BY <1>2, <1>6 DEF Area
  <2>3. In(b, size, x) => x >= swap_base
    BY <1>2 DEF In
  <2> QED
    BY <2>1, <2>2, <2>3, Gapped
<1>8. \A x \in Nat : Area(size, x) <=> Area(0, x) \/ In(b, size, x)
  BY <1>2, <1>6 DEF Area
<1>9. Shared(u, size, b, size)
  <2>1. /\ \A x \in Nat : Area(0, x) <=> \/ Holds(u.hole, x)
                                         \/ \E p \in Live(u) : Has(u, p, x)
        /\ \A p \in Live(u) : \A x \in Nat : Has(u, p, x) => ~Holds(u.hole, x)
        /\ \A p, q \in Live(u) : \A x \in Nat : Has(u, p, x) /\ Has(u, q, x) => p = q
    BY <1>1, <1>3, <1>4, <1>5, <1>6 DEF Shared
  <2>2. \A x \in Nat : Area(size, x) <=> \/ Holds(u.hole, x) \/ In(b, size, x)
                                         \/ \E p \in Live(u) : Has(u, p, x)
    BY <1>8, <2>1
  <2>3. \A x \in Nat : ~(Holds(u.hole, x) /\ In(b, size, x))
    BY <1>7, <2>1
  <2>4. \A p \in Live(u) : \A x \in Nat :
          Has(u, p, x) => ~Holds(u.hole, x) /\ ~In(b, size, x)
    BY <1>7, <2>1
  <2> QED
    BY <2>1, <2>2, <2>3, <2>4 DEF Shared
<1>10. Part(u, size, b, size)
  <2>1. Room(u)
    BY <1>1, <1>4 DEF Part, Room
  <2> QED
    BY <1>1, <1>3, <1>4, <1>9, <2>1 DEF Part
<1>11. /\ Part(g, size, 0, 0)
       /\ g.mp_flags = mm.mp_flags /\ g.mem_phys = mm.mem_phys /\ g.size = mm.size
       /\ g.in_queue = mm.in_queue
  <2>1. g = Free(u, b, size)
    BY <1>2
  <2>2. /\ Part(g, size, 0, 0)
        /\ g.mp_flags = u.mp_flags /\ g.mem_phys = u.mem_phys /\ g.size = u.size
        /\ g.in_queue = u.in_queue
    BY <1>10, <2>1, FreeKeeps
  <2> QED
    BY <1>4, <2>2
<1>12. Live(g) = Live(mm)
  BY <1>11 DEF Live
<1>13. Flagged(g) /\ Placed(g)
  BY <1>1, <1>11, <1>12 DEF Flagged, Placed
<1>14. Waiting(g)
  BY <1>1, <1>11, StillWaiting
<1> QED
  BY <1>3, <1>11, <1>13, <1>14, RoundKeeps DEF Sound

\* swapoff(): everybody is called in, and the swap area goes, when it is empty.
LEMMA swap_offKeeps ==
  ASSUME IInv, swap_off, Apart'
  PROVE  IInv'
<1>1. PICK n \in Nat :
        /\ Sound(mm, n) /\ Queued(mm) /\ Separate(mm) /\ Waiting(mm)
        /\ mm \in Memory /\ Part(mm, n, 0, 0) /\ Flagged(mm) /\ Placed(mm)
        /\ Shared(mm, n, 0, 0) /\ Tidy(mm.hole) /\ (~mm.swap_on => n = 0)
  BY InvFacts
<1>2. PICK f : f = CHOOSE queue : queue =
               [p \in (LOW_USER - 1)..HIGH_USER |->
                  IF p < LOW_USER THEN mm
                  ELSE IF "ONSWAP" \in mm.mp_flags[p]
                  THEN swap_inqueue(queue[p - 1], p) ELSE queue[p - 1]]
  OBVIOUS
<1>3. PICK t, u, g : /\ t = f[HIGH_USER] /\ u = swap_in(t) /\ g = SwapClosed(u)
  OBVIOUS
<1>4. mm' = EndOfRound(g)
  BY <1>2, <1>3 DEF swap_off
<1>5. Calling(t, mm, n)
  BY <1>1, <1>2, <1>3, AllCalled
<1>6. Sound(t, n) /\ Waiting(t) /\ t.swap_on = mm.swap_on
      /\ t.current_algorithm = mm.current_algorithm
  BY <1>5 DEF Calling, Queued, Waiting
<1>7. /\ Sound(u, n) /\ Queued(u)
      /\ u.swap_on = t.swap_on /\ u.current_algorithm = t.current_algorithm
  BY <1>3, <1>6, swap_inKeeps
<1>8. Separate(u) /\ Waiting(u)
  BY <1>1, <1>6, <1>7 DEF Separate, Queued, Waiting
<1>9. (\E k \in Nat : Sound(g, k)) /\ Waiting(g)
  BY <1>3, <1>7, <1>8, SwapClosedKeeps
<1> QED
  BY <1>4, <1>9, RoundKeeps
-----------------------------------------------------------------------------
(* The theorems *)

\* The memory of the start is all holes.
LEMMA InitInv ==
  Init => IInv
<1> SUFFICES ASSUME Init PROVE IInv
  OBVIOUS
<1>0. PICK e, n, o, lo : e = << >> /\ n = 0 /\ o = {} /\ lo = LOW_USER
  OBVIOUS
<1>0b. PICK F, Z, G : /\ F = [p \in Procs |-> n] /\ Z = [p \in Procs |-> n]
                     /\ G = [p \in Procs |-> o]
  OBVIOUS
<1>1. /\ e = << >> /\ n = 0 /\ o = {} /\ lo = LOW_USER
      /\ F = [p \in Procs |-> n] /\ Z = [p \in Procs |-> n]
      /\ G = [p \in Procs |-> o]
  BY <1>0, <1>0b
<1>2. /\ e \in Seq(Procs) /\ n \in Nat /\ lo \in Procs
      /\ F \in [Procs -> Nat] /\ Z \in [Procs -> Nat]
      /\ G \in [Procs -> SUBSET Flags] /\ \A p \in Procs : G[p] = o
  <2>1. lo \in Procs
    BY <1>1, Slots
  <2>2. o \in SUBSET Flags /\ n \in Nat /\ e \in Seq(Procs)
    BY <1>1
  <2> QED
    BY <1>1, <2>1, <2>2
<1>3. Chunks \in Seq(HoleSet) /\ Tidy(Chunks)
  BY AllocAssumption DEF HoleSet
<1>4. mm = [hole |-> Chunks, current_algorithm |-> FIRST, swap_on |-> FALSE,
            mem_phys |-> F, size |-> Z, mp_flags |-> G, in_queue |-> e,
            outswap |-> lo, panic |-> FALSE, wild |-> FALSE]
  BY <1>1 DEF Init, NO_MEM
<1>5. /\ mm \in Memory /\ mm.hole = Chunks /\ mm.mp_flags = G /\ mm.in_queue = e
      /\ mm.swap_on = FALSE /\ mm.panic = FALSE
  BY <1>2, <1>3, <1>4 DEF Memory
<1>6. Live(mm) = {} /\ \A p \in Procs : mm.mp_flags[p] = {}
  BY <1>1, <1>2, <1>5 DEF Live
<1>7. \A x \in Nat : ~In(0, 0, x) /\ ~In(swap_base, 0, x)
  BY Gapped DEF In
<1>8. Shared(mm, 0, 0, 0)
  BY <1>5, <1>6, <1>7 DEF Shared, Area
<1>9. Flagged(mm) /\ Placed(mm) /\ Separate(mm)
  BY <1>5, <1>6 DEF Flagged, Placed, Separate
<1>10. Queued(mm)
  <2>1. DOMAIN mm.in_queue = {}
    BY <1>1, <1>5
  <2> QED
    BY <1>6, <2>1 DEF Queued
<1>11. Sound(mm, 0)
  <2>1. Room(mm)
    BY <1>5 DEF Room
  <2> QED
    BY <1>3, <1>5, <1>8, <1>9, <2>1 DEF Sound, Part
<1> QED
  BY <1>6, <1>9, <1>10, <1>11 DEF IInv

\* Every call keeps the invariant.
LEMMA NextInv ==
  ASSUME IInv, [Next /\ Apart']_vars
  PROVE  IInv'
<1>1. CASE Next /\ Apart'
  <2>1. ASSUME NEW p \in Procs, NEW size \in Sizes, Fork(p, size) PROVE IInv'
    BY <1>1, <2>1, ForkKeeps
  <2>2. ASSUME NEW p \in Procs, Exit(p) PROVE IInv'
    BY <1>1, <2>2, ExitKeeps
  <2>3. ASSUME NEW p \in Procs, Block(p) PROVE IInv'
    BY <1>1, <2>3, BlockKeeps
  <2>4. ASSUME NEW p \in Procs, Unblock(p) PROVE IInv'
    BY <1>1, <2>4, UnblockKeeps
  <2>5. ASSUME NEW algorithm \in Algorithms, do_worst_fit(algorithm) PROVE IInv'
    BY <1>1, <2>5, do_worst_fitKeeps
  <2>6. ASSUME do_hole_map PROVE IInv'
    <3>1. PICK n \in Nat : Sound(mm, n) /\ Waiting(mm)
      BY InvFacts
    <3>2. mm' = EndOfRound(mm)
      BY <2>6 DEF do_hole_map
    <3> QED
      BY <1>1, <3>1, <3>2, RoundKeeps
  <2>7. ASSUME NEW size \in SwapSizes, swap_on(size) PROVE IInv'
    BY <1>1, <2>7, swap_onKeeps
  <2>8. ASSUME swap_off PROVE IInv'
    BY <1>1, <2>8, swap_offKeeps
  <2> QED
    BY <1>1, <2>1, <2>2, <2>3, <2>4, <2>5, <2>6, <2>7, <2>8 DEF Next
<1>2. CASE UNCHANGED vars
  <2>1. mm' = mm
    BY <1>2 DEF vars
  <2> QED
    BY <2>1 DEF IInv, Sound, Part, Flagged, Separate, Placed, Queued, Shared, Live, Has
<1> QED
  BY <1>1, <1>2

\* The inductive invariant: holes and processes share out the memory and the
\* swap area, the flags agree with where a process lies, and the queue with
\* the flags.
THEOREM SoundAlways == ApartSpec => []IInv
<1>1. Init => IInv
  BY InitInv
<1>2. IInv /\ [Next /\ Apart']_vars => IInv'
  BY NextInv
<1> QED
  BY <1>1, <1>2, PTL DEF ApartSpec

\* The list of holes stays sorted, merged and without empty holes over every
\* order of calls (free_mem, merge and del_slot of mm/alloc.c).
THEOREM HolesTidyAlways == ApartSpec => []HolesTidy
<1>1. IInv => HolesTidy
  <2> SUFFICES ASSUME IInv PROVE HolesTidy
    OBVIOUS
  <2> QED
    BY InvFacts DEF HolesTidy
<1> QED
  BY <1>1, SoundAlways, PTL

\* A process lies in the swap area exactly while it is ONSWAP (swap_out and
\* swap_in of mm/alloc.c).
THEOREM SwapSeparateAlways == ApartSpec => []SwapSeparate
<1>1. IInv => SwapSeparate
  <2> SUFFICES ASSUME IInv PROVE SwapSeparate
    OBVIOUS
  <2>1. Placed(mm)
    BY InvFacts
  <2> QED
    BY <2>1 DEF SwapSeparate, Placed, Live, InUse
<1> QED
  BY <1>1, SoundAlways, PTL

\* A click of the memory or of the swap area has one owner.
LEMMA OneOwner ==
  ASSUME NEW n \in Nat, NEW m, Part(m, n, 0, 0), NEW x \in Nat, Area(n, x),
         NEW H, H = {i \in DOMAIN m.hole :
                       x \in Clicks(m.hole[i].h_base, m.hole[i].h_len)},
         NEW L, L = {p \in Live(m) : x \in Clicks(m.mem_phys[p], m.size[p])}
  PROVE  Cardinality(H) + Cardinality(L) = 1
<1>1. /\ m \in Memory /\ Tidy(m.hole) /\ Shared(m, n, 0, 0)
      /\ m.hole \in Seq(HoleSet)
      /\ m.mem_phys \in [Procs -> Nat] /\ m.size \in [Procs -> Nat]
  <2>1. m \in Memory /\ Tidy(m.hole) /\ Shared(m, n, 0, 0)
    BY DEF Part
  <2> QED
    BY <2>1, MemoryFields
<1>2. \A b, c \in Nat : x \in Clicks(b, c) <=> In(b, c, x)
  BY DEF Clicks, In
<1>3. H = {i \in DOMAIN m.hole : In(m.hole[i].h_base, m.hole[i].h_len, x)}
  <2>1. \A i \in DOMAIN m.hole : m.hole[i].h_base \in Nat /\ m.hole[i].h_len \in Nat
    BY HolesInArea
  <2> QED
    BY <1>2, <2>1
<1>4. L = {p \in Live(m) : Has(m, p, x)}
  <2>1. \A p \in Live(m) : m.mem_phys[p] \in Nat /\ m.size[p] \in Nat
    BY <1>1 DEF Live
  <2> QED
    BY <1>2, <2>1 DEF Has
<1>5. ~In(0, 0, x)
  BY DEF In
<1>6. Holds(m.hole, x) \/ \E p \in Live(m) : Has(m, p, x)
  BY <1>1, <1>5 DEF Shared
<1>7. CASE Holds(m.hole, x)
  <2>1. PICK i \in DOMAIN m.hole : In(m.hole[i].h_base, m.hole[i].h_len, x)
    BY <1>7 DEF Holds
  <2>2. \A j \in DOMAIN m.hole : In(m.hole[j].h_base, m.hole[j].h_len, x) => j = i
    <3>1. DOMAIN m.hole = 1..Len(m.hole)
      BY <1>1
    <3> QED
      BY <1>1, <2>1, <3>1, OneHole
  <2>3. H = {i}
    BY <1>3, <2>1, <2>2
  <2>4. L = {}
    BY <1>1, <1>4, <1>7 DEF Shared
  <2>5. Cardinality(H) = 1 /\ Cardinality(L) = 0
    BY <2>3, <2>4, FS_Singleton, FS_EmptySet
  <2> QED
    BY <2>5
<1>8. CASE ~Holds(m.hole, x)
  <2>1. PICK p \in Live(m) : Has(m, p, x)
    BY <1>6, <1>8
  <2>2. L = {p}
    BY <1>1, <1>4, <2>1 DEF Shared
  <2>3. H = {}
    BY <1>3, <1>8 DEF Holds
  <2>4. Cardinality(H) = 0 /\ Cardinality(L) = 1
    BY <2>2, <2>3, FS_Singleton, FS_EmptySet
  <2> QED
    BY <2>4
<1> QED
  BY <1>7, <1>8

\* Every click belongs to one hole or one process: none is lost, none is given
\* twice, in memory and in the swap area (alloc_mem, free_mem, swap_out,
\* swap_in and swap_off of mm/alloc.c).
THEOREM MemorySharedOutAlways == ApartSpec => []MemorySharedOut
<1>1. IInv => MemorySharedOut
  <2> SUFFICES ASSUME IInv PROVE MemorySharedOut
    OBVIOUS
  <2>1. PICK n \in Nat :
          /\ mm \in Memory /\ Part(mm, n, 0, 0) /\ Shared(mm, n, 0, 0)
          /\ (~mm.swap_on => n = 0)
    BY InvFacts
  <2>2. PICK live : live = {p \in Procs : InUse(p)}
    OBVIOUS
  <2>3. live = Live(mm)
    BY <2>2 DEF InUse, Live
  <2>4. ASSUME NEW x \in Nat, Area(n, x)
        PROVE  Cardinality({i \in DOMAIN mm.hole :
                              x \in Clicks(mm.hole[i].h_base, mm.hole[i].h_len)})
               + Cardinality({p \in live : x \in Clicks(mm.mem_phys[p], mm.size[p])})
                 = 1
    BY <2>1, <2>3, <2>4, OneOwner
  <2>5. \A b, c \in Nat : \A x \in Clicks(b, c) : x \in Nat /\ In(b, c, x)
    BY DEF Clicks, In
  <2>6. ASSUME NEW i \in DOMAIN Chunks,
               NEW x \in Clicks(Chunks[i].h_base, Chunks[i].h_len)
        PROVE  x \in Nat /\ Area(n, x)
    <3>0. Chunks \in Seq(HoleSet)
      BY AllocAssumption DEF HoleSet
    <3>1. Chunks[i] \in HoleSet
      BY <3>0
    <3>2. Chunks[i].h_base \in Nat /\ Chunks[i].h_len \in Nat
      BY <3>1, HoleFields
    <3>3. x \in Nat /\ In(Chunks[i].h_base, Chunks[i].h_len, x)
      BY <2>5, <3>2
    <3> QED
      BY <3>3 DEF Area, Holds
  <2>7. ASSUME NEW p \in live, NEW x \in Clicks(mm.mem_phys[p], mm.size[p])
        PROVE  x \in Nat /\ Area(n, x)
    <3>1. p \in Procs /\ p \in Live(mm)
      BY <2>2, <2>3
    <3>2. mm.mem_phys[p] \in Nat /\ mm.size[p] \in Nat
      BY <2>1, <3>1, MemoryFields
    <3>3. x \in Nat /\ Has(mm, p, x)
      BY <2>5, <3>2 DEF Has
    <3> QED
      BY <2>1, <3>1, <3>3 DEF Shared
  <2>8. ASSUME NEW i \in DOMAIN mm.hole, mm.hole[i].h_base >= swap_base
        PROVE  mm.swap_on
    <3>1. n = 0 => mm.hole[i].h_base < swap_base
      BY <2>1, HolesInArea
    <3>2. mm.hole[i].h_base \in Nat
      BY <2>1, HolesInArea
    <3>3. n # 0
      BY <2>8, <3>1, <3>2, Gapped
    <3> QED
      BY <2>1, <3>3
  <2> QED
    BY <2>2, <2>4, <2>6, <2>7, <2>8 DEF MemorySharedOut
<1> QED
  BY <1>1, SoundAlways, PTL

\* Who has an answer to come is in memory or in the queue, once (setreply and
\* swap_inqueue, swap_in and reply of mm).
THEOREM AnswersComeInAlways == ApartSpec => []AnswersComeIn
<1>1. IInv => AnswersComeIn
  <2> SUFFICES ASSUME IInv PROVE AnswersComeIn
    OBVIOUS
  <2>1. Queued(mm) /\ Flagged(mm)
    BY InvFacts
  <2>2. \A p \in Procs : "REPLY" \in mm.mp_flags[p] =>
          {"ONSWAP", "SWAPIN"} \subseteq mm.mp_flags[p]
    <3>1. \A p \in Procs : "REPLY" \in mm.mp_flags[p] => "ONSWAP" \in mm.mp_flags[p]
      BY DEF IInv
    <3> QED
      BY <2>1, <3>1 DEF Flagged
  <2>3. ASSUME NEW p \in Procs
        PROVE  Cardinality({i \in DOMAIN mm.in_queue : mm.in_queue[i] = p}) =
                 IF "SWAPIN" \in mm.mp_flags[p] THEN 1 ELSE 0
    <3>1. PICK S : S = {i \in DOMAIN mm.in_queue : mm.in_queue[i] = p}
      OBVIOUS
    <3>2. CASE "SWAPIN" \in mm.mp_flags[p]
      <4>1. PICK i \in DOMAIN mm.in_queue : mm.in_queue[i] = p
        BY <2>1, <3>2 DEF Queued
      <4>2. S = {i}
        BY <2>1, <3>1, <4>1 DEF Queued
      <4> QED
        BY <3>1, <3>2, <4>2, FS_Singleton
    <3>3. CASE "SWAPIN" \notin mm.mp_flags[p]
      <4>1. S = {}
        BY <2>1, <3>1, <3>3 DEF Queued
      <4> QED
        BY <3>1, <3>3, <4>1, FS_EmptySet
    <3> QED
      BY <3>2, <3>3
  <2> QED
    BY <2>2, <2>3 DEF AnswersComeIn
<1> QED
  BY <1>1, SoundAlways, PTL

\* hole_map() leaves the last word of the buffer alone.
LEMMA HoleWordsFit ==
  ASSUME NEW h \in Seq(HoleSet)
  PROVE  \E k \in Nat : DOMAIN HoleWords(h) = 1..k /\ k < BufferWords
<1>1. PICK B, c, s, n : /\ B = BufferWords /\ c = Cardinality(InRam(h))
                        /\ s = (BufferWords - 1) \div 2 /\ n = Min({c, s})
  OBVIOUS
<1>2. B \in Nat /\ B > 1
  BY <1>1, AllocAssumption
<1>3. c \in Nat
  <2>1. InRam(h) \subseteq 1..Len(h) /\ Len(h) \in Nat
    BY DEF InRam
  <2>2. IsFiniteSet(1..Len(h))
    BY <2>1, FS_Interval
  <2>3. IsFiniteSet(InRam(h))
    BY <2>1, <2>2, FS_Subset
  <2> QED
    BY <1>1, <2>3, FS_CardinalityType
<1>4. s \in Nat /\ 2 * s <= B - 1
  BY <1>1, <1>2
<1>5. n \in Nat /\ n <= s
  <2>1. {c, s} \in SUBSET Nat /\ {c, s} # {}
    BY <1>3, <1>4
  <2>2. n \in {c, s} /\ n <= s
    BY <1>1, <2>1, LeastNumber
  <2> QED
    BY <1>3, <1>4, <2>2
<1>6. DOMAIN HoleWords(h) = 1..(2 * n)
  BY <1>1 DEF HoleWords
<1>7. 2 * n \in Nat /\ 2 * n < B
  BY <1>2, <1>4, <1>5
<1> QED
  BY <1>1, <1>6, <1>7

\* Neither hole[] nor the buffer of a caller overflows (free_mem and
\* do_hole_map of mm/alloc.c): it is enough that hole[] has three entries more
\* than there are slots for processes and chunks of memory.
THEOREM NoOverrunAlways ==
  ASSUME Roomy PROVE ApartSpec => []NoOverrun
<1>1. Init => HoleMapFits
  <2> SUFFICES ASSUME Init PROVE HoleMapFits
    OBVIOUS
  <2>1. BufferWords \in Nat /\ BufferWords > 1
    BY AllocAssumption, Zenon
  <2>2. BufferWords \in 1..BufferWords
    BY <2>1
  <2> QED
    BY <2>2 DEF Init, Unwritten, HoleMapFits
<1>2. IInv /\ HoleMapFits /\ [Next /\ Apart']_vars => HoleMapFits'
  <2> SUFFICES ASSUME IInv, HoleMapFits, [Next /\ Apart']_vars PROVE HoleMapFits'
    OBVIOUS
  <2>1. BufferWords \in 1..BufferWords /\ BufferWords \in Nat
    BY AllocAssumption
  <2>2. CASE buffer' = Unwritten
    BY <2>1, <2>2 DEF Unwritten, HoleMapFits
  <2>3. CASE do_hole_map
    <3>1. PICK W : W = HoleWords(mm.hole)
      OBVIOUS
    <3>2. mm.hole \in Seq(HoleSet)
      BY InvFacts, MemoryFields
    <3>3. PICK k \in Nat : DOMAIN W = 1..k /\ k < BufferWords
      BY <3>1, <3>2, HoleWordsFit
    <3>4. buffer' = [i \in DOMAIN buffer \cup DOMAIN W |->
                       IF i \in DOMAIN W THEN W[i] ELSE STALE]
      BY <2>3, <3>1 DEF do_hole_map
    <3>5. DOMAIN buffer \cup DOMAIN W = 1..BufferWords /\ BufferWords \notin DOMAIN W
      BY <2>1, <3>3 DEF HoleMapFits
    <3> QED
      BY <2>1, <3>4, <3>5 DEF HoleMapFits
  <2>4. CASE UNCHANGED vars
    BY <2>4 DEF vars, HoleMapFits
  <2> QED
    BY <2>2, <2>3, <2>4
       DEF Next, Fork, Exit, Block, Unblock, do_worst_fit, swap_on, swap_off
<1>3. IInv => TableSuffices
  <2> SUFFICES ASSUME IInv PROVE TableSuffices
    OBVIOUS
  <2>1. PICK n \in Nat : Part(mm, n, 0, 0)
    BY InvFacts
  <2> QED
    BY <2>1 DEF Part, Room, TableSuffices
<1> QED
  BY <1>1, <1>2, <1>3, SoundAlways, PTL DEF ApartSpec, NoOverrun
-----------------------------------------------------------------------------
(* Worst fit *)

\* A round with nobody to come in only sends the replies.
LEMMA QuietRound ==
  ASSUME NEW m \in Memory, m.in_queue = << >>, NEW g, g = EndOfRound(m)
  PROVE  /\ g.mem_phys = m.mem_phys /\ g.swap_on = m.swap_on
         /\ g.current_algorithm = m.current_algorithm
         /\ \A p \in Procs : "IN_USE" \in g.mp_flags[p] <=> "IN_USE" \in m.mp_flags[p]
<1>1. PICK N, q : N = Len(m.in_queue) /\ q = m.in_queue
  OBVIOUS
<1>2. N = 0 /\ q = << >>
  BY <1>1
<1>3. PICK d : d = [m EXCEPT !.in_queue = q]
  OBVIOUS
<1>4. d = [m EXCEPT !.in_queue = << >>]
  BY <1>2, <1>3
<1>5. PICK e : e = [i \in 0..N |-> d]
  OBVIOUS
<1>6. e = [i \in 0..N |-> IF i = 0 THEN d ELSE Visit(e[i - 1], m.in_queue[i])]
  BY <1>2, <1>5
<1>7. PICK f : f = CHOOSE w :
                     w = [i \in 0..Len(m.in_queue) |->
                            IF i = 0 THEN [m EXCEPT !.in_queue = << >>]
                            ELSE Visit(w[i - 1], m.in_queue[i])]
  OBVIOUS
<1>8. f = [i \in 0..N |-> IF i = 0 THEN d ELSE Visit(f[i - 1], m.in_queue[i])]
  BY <1>1, <1>4, <1>6, <1>7
<1>9. swap_in(m) = f[N]
  BY <1>1, <1>7 DEF swap_in
<1>10. f[N] = d
  BY <1>2, <1>8
<1>11. /\ d \in Memory /\ d.mem_phys = m.mem_phys /\ d.swap_on = m.swap_on
       /\ d.current_algorithm = m.current_algorithm /\ d.mp_flags = m.mp_flags
  <2>1. m.in_queue \in Seq(Procs)
    BY MemoryFields
  <2> QED
    BY <1>1, <1>3, <2>1 DEF Memory
<1>12. PICK G : G = [p \in Procs |-> IF "ONSWAP" \in d.mp_flags[p] THEN d.mp_flags[p]
                                     ELSE d.mp_flags[p] \ {"REPLY"}]
  OBVIOUS
<1>13. g = [d EXCEPT !.mp_flags = G]
  BY <1>9, <1>10, <1>12 DEF EndOfRound, Replied
<1>14. /\ g.mem_phys = d.mem_phys /\ g.swap_on = d.swap_on
       /\ g.current_algorithm = d.current_algorithm /\ g.mp_flags = G
  BY <1>11, <1>13 DEF Memory
<1>15. \A p \in Procs : "IN_USE" \in G[p] <=> "IN_USE" \in d.mp_flags[p]
  BY <1>12
<1> QED
  BY <1>11, <1>14, <1>15

\* Without a swap area nobody is swapped out, and nobody can be.
LEMMA NobodySwapped ==
  ASSUME IInv, ~mm.swap_on
  PROVE  /\ mm.in_queue = << >>
         /\ \A p \in Procs : "ONSWAP" \notin mm.mp_flags[p]
         /\ \A c : SwapHoles(mm, c) = {}
<1>1. PICK n \in Nat :
        /\ mm \in Memory /\ Part(mm, n, 0, 0) /\ Flagged(mm) /\ Placed(mm)
        /\ Shared(mm, n, 0, 0) /\ n = 0 /\ Queued(mm)
  BY InvFacts
<1>2. ASSUME NEW p \in Procs, "ONSWAP" \in mm.mp_flags[p] PROVE FALSE
  <2>1. PICK b, c : b = mm.mem_phys[p] /\ c = mm.size[p]
    OBVIOUS
  <2>2. p \in Live(mm) /\ c > 0
    BY <1>1, <1>2, <2>1 DEF Flagged
  <2>3. b \in Nat /\ c \in Nat
    BY <1>1, <2>1, MemoryFields
  <2>4. b >= swap_base
    BY <1>1, <1>2, <2>1, <2>2 DEF Placed
  <2>5. In(b, c, b)
    BY <2>2, <2>3 DEF In
  <2>6. Area(n, b)
    BY <1>1, <2>1, <2>2, <2>3, <2>5 DEF Shared, Has
  <2>7. ~In(swap_base, n, b)
    BY <1>1, <2>3, Gapped DEF In
  <2>8. Holds(Chunks, b)
    BY <2>6, <2>7 DEF Area
  <2> QED
    BY <2>3, <2>4, <2>8, Gapped
<1>3. mm.in_queue = << >>
  <2>1. mm.in_queue \in Seq(Procs)
    BY <1>1, MemoryFields
  <2>2. ASSUME NEW i \in DOMAIN mm.in_queue PROVE FALSE
    <3>1. mm.in_queue[i] \in Procs
      BY <2>1
    <3>2. "SWAPIN" \in mm.mp_flags[mm.in_queue[i]]
      BY <1>1, <3>1 DEF Queued
    <3> QED
      BY <1>1, <1>2, <3>1, <3>2 DEF Flagged
  <2>3. PICK w, k : w = mm.in_queue /\ k = Len(w)
    OBVIOUS
  <2>4. w \in Seq(Procs) /\ k \in Nat /\ DOMAIN w = 1..k
    BY <2>1, <2>3
  <2>5. k = 0
    <3>1. k > 0 => k \in 1..k
      BY <2>4
    <3> QED
      BY <2>2, <2>3, <2>4, <3>1
  <2>6. w = << >>
    BY <2>3, <2>4, <2>5
  <2> QED
    BY <2>3, <2>6
<1>4. ASSUME NEW c, NEW i \in SwapHoles(mm, c) PROVE FALSE
  <2>1. i \in DOMAIN mm.hole /\ mm.hole[i].h_base >= swap_base
    BY <1>4 DEF SwapHoles
  <2>2. mm.hole[i].h_base \in Nat /\ mm.hole[i].h_base < swap_base
    BY <1>1, <2>1, HolesInArea
  <2> QED
    BY <2>1, <2>2, Gapped
<1> QED
  BY <1>2, <1>3, <1>4

\* alloc_mem() gives up at once when nobody can be swapped out.
LEMMA alloc_memAtOnce ==
  ASSUME NEW m, swap_out(m) = m, NEW c
  PROVE  alloc_mem(m, c) = BiteOrFail(m, c)
<1>1. PICK k : k = Cardinality(Procs)
  OBVIOUS
<1>2. k \in Nat
  BY <1>1, Slots
<1>3. PICK e : e = [i \in 0..(k + 1) |-> m]
  OBVIOUS
<1>4. e = [i \in 0..(k + 1) |-> IF i = 0 THEN m ELSE swap_out(e[i - 1])]
  <2>1. \A i \in 0..(k + 1) : i # 0 => i - 1 \in 0..(k + 1)
    BY <1>2
  <2>2. \A i \in 0..(k + 1) : (IF i = 0 THEN m ELSE swap_out(e[i - 1])) = m
    BY <1>3, <2>1
  <2> QED
    BY <1>3, <2>2
<1>5. PICK f : f = CHOOSE w :
                     w = [i \in 0..(Cardinality(Procs) + 1) |->
                            IF i = 0 THEN m ELSE swap_out(w[i - 1])]
  OBVIOUS
<1>6. f = [i \in 0..(k + 1) |-> IF i = 0 THEN m ELSE swap_out(f[i - 1])]
  BY <1>1, <1>4, <1>5
<1>7. f[0] = m /\ f[1] = m
  <2>1. 0 \in 0..(k + 1) /\ 1 \in 0..(k + 1)
    BY <1>2
  <2> QED
    BY <1>6, <2>1
<1>8. PICK I : I = {i \in 0..k : \/ ChosenHole(f[i], c) # 0 \/ FollowsNil(f[i])
                                 \/ f[i + 1] = f[i]}
  OBVIOUS
<1>9. 0 \in I /\ I \in SUBSET Nat
  BY <1>2, <1>7, <1>8
<1>10. Min(I) = 0
  <2>1. Min(I) \in I /\ Min(I) <= 0
    BY <1>9, LeastNumber
  <2>2. Min(I) \in Nat
    BY <1>9, <2>1
  <2> QED
    BY <2>1, <2>2
<1>11. LastTry(f, c) = m
  BY <1>1, <1>7, <1>8, <1>10 DEF LastTry
<1>12. alloc_mem(m, c) = BiteOrFail(LastTry(f, c), c)
  BY <1>5 DEF alloc_mem
<1> QED
  BY <1>11, <1>12

\* swap_out() finds nobody when there is no hole in the swap area.
LEMMA swap_outNobody ==
  ASSUME NEW m, \A c : SwapHoles(m, c) = {}
  PROVE  swap_out(m) = m
<1>1. {i \in DOMAIN RoundFrom(m.outswap) :
         /\ Candidate(m, RoundFrom(m.outswap)[i])
         /\ SwapHoles(m, m.size[RoundFrom(m.outswap)[i]]) # {}} = {}
  OBVIOUS
<1> QED
  BY <1>1 DEF swap_out

\* Who has memory after a round with nobody to come in had it before.
LEMMA NobodyCreated ==
  ASSUME NEW g \in Memory, g.in_queue = << >>, mm' = EndOfRound(g),
         NEW p \in Procs, "IN_USE" \notin g.mp_flags[p]
  PROVE  ~InUse(p)'
<1>1. PICK e : e = EndOfRound(g)
  OBVIOUS
<1>2. "IN_USE" \notin e.mp_flags[p]
  BY <1>1, QuietRound
<1> QED
  BY <1>1, <1>2 DEF InUse

\* Without a swap area, only fork makes a process.
LEMMA OnlyForkCreates ==
  ASSUME IInv, ~mm.swap_on, mm.current_algorithm = WORST,
         [Next /\ Apart']_vars, NEW p \in Procs, ~InUse(p), InUse(p)'
  PROVE  \E q \in Procs : \E size \in Sizes : Fork(q, size)
<1>1. /\ mm \in Memory /\ mm.in_queue = << >> /\ mm.mp_flags \in [Procs -> SUBSET Flags]
      /\ "IN_USE" \notin mm.mp_flags[p]
      /\ \A q \in Procs : mm.mp_flags[q] # {} => "IN_USE" \in mm.mp_flags[q]
  <2>1. mm \in Memory /\ mm.in_queue = << >> /\ Flagged(mm)
    BY InvFacts, NobodySwapped
  <2>2. mm.mp_flags \in [Procs -> SUBSET Flags]
    BY <2>1, MemoryFields
  <2> QED
    BY <2>1, <2>2 DEF InUse, Flagged, Live
<1>2. ASSUME NEW q \in Procs, Exit(q) PROVE FALSE
  <2>1. PICK d, c, z, o : d = mm.mem_phys[q] /\ c = mm.size[q] /\ z = 0 /\ o = {}
    OBVIOUS
  <2>2. /\ z \in Nat /\ o \in SUBSET Flags /\ d \in Nat /\ c \in Nat
        /\ mm.mem_phys \in [Procs -> Nat] /\ mm.size \in [Procs -> Nat]
    BY <1>1, <2>1, MemoryFields
  <2>3. PICK h, t, k :
          /\ h = free_mem(mm.hole, d, c)
          /\ t = (mm.panic \/ (c # 0 /\ Len(mm.hole) = NR_HOLES))
          /\ k = [mm EXCEPT !.hole = h, !.panic = t]
    OBVIOUS
  <2>4. h \in Seq(HoleSet) /\ t \in BOOLEAN
    <3>1. PICK n \in Nat : Shared(mm, n, 0, 0) /\ Tidy(mm.hole)
      BY InvFacts
    <3>2. q \in Live(mm)
      BY <1>2 DEF Exit, InUse, Live
    <3>3. \A x \in Nat : ~(Holds(mm.hole, x) /\ In(d, c, x))
      BY <2>1, <3>1, <3>2 DEF Shared, Has
    <3>4. mm.hole \in Seq(HoleSet)
      BY <1>1, MemoryFields
    <3>5. h \in Seq(HoleSet)
      BY <2>2, <2>3, <3>1, <3>3, <3>4, free_memKeeps
    <3>6. t \in BOOLEAN
      BY <2>3
    <3> QED
      BY <3>5, <3>6
  <2>5. /\ k \in Memory /\ k.mp_flags = mm.mp_flags /\ k.mem_phys = mm.mem_phys
        /\ k.size = mm.size /\ k.in_queue = mm.in_queue
    BY <1>1, <2>3, <2>4 DEF Memory
  <2>6. PICK F, Z, G, g :
          /\ F = [mm.mem_phys EXCEPT ![q] = z] /\ Z = [mm.size EXCEPT ![q] = z]
          /\ G = [mm.mp_flags EXCEPT ![q] = o]
          /\ g = [k EXCEPT !.mp_flags = G, !.mem_phys = F, !.size = Z]
    OBVIOUS
  <2>7. /\ F \in [Procs -> Nat] /\ Z \in [Procs -> Nat]
        /\ G \in [Procs -> SUBSET Flags] /\ "IN_USE" \notin G[p]
    BY <1>1, <2>1, <2>2, <2>6
  <2>8. g \in Memory /\ g.in_queue = k.in_queue /\ g.mp_flags = G
    BY <2>5, <2>6, <2>7 DEF Memory
  <2>9. mm' = EndOfRound(g)
    <3>1. k = Free(mm, d, c)
      BY <2>3 DEF Free
    <3>2. mm' = EndOfRound([k EXCEPT !.mp_flags[q] = o, !.mem_phys[q] = z,
                                     !.size[q] = z])
      BY <1>2, <2>1, <3>1 DEF Exit, NO_MEM
    <3>3. [k.mp_flags EXCEPT ![q] = o] = G /\ [k.mem_phys EXCEPT ![q] = z] = F
          /\ [k.size EXCEPT ![q] = z] = Z
      BY <2>5, <2>6
    <3>4. [k EXCEPT !.mp_flags[q] = o, !.mem_phys[q] = z, !.size[q] = z] = g
      BY <2>6, <3>3
    <3> QED
      BY <3>2, <3>4
  <2>10. g.in_queue = << >> /\ "IN_USE" \notin g.mp_flags[p]
    BY <1>1, <2>5, <2>7, <2>8
  <2> QED
    BY <2>8, <2>9, <2>10, NobodyCreated
<1>3. ASSUME NEW q \in Procs, Block(q) PROVE FALSE
  <2>1. PICK fl, G, g : /\ fl = mm.mp_flags[q] \cup {"BLOCKED"}
                        /\ G = [mm.mp_flags EXCEPT ![q] = fl]
                        /\ g = [mm EXCEPT !.mp_flags = G]
    OBVIOUS
  <2>2. mm' = EndOfRound(g) /\ "IN_USE" \in mm.mp_flags[q]
    BY <1>3, <2>1 DEF Block, CanCall, InUse
  <2>3. q # p /\ G[p] = mm.mp_flags[p] /\ G \in [Procs -> SUBSET Flags]
    <3>1. fl \in SUBSET Flags
      BY <1>1, <2>1 DEF Flags
    <3> QED
      BY <1>1, <2>1, <2>2, <3>1
  <2>4. g \in Memory /\ g.in_queue = mm.in_queue /\ g.mp_flags = G
    BY <1>1, <2>1, <2>3 DEF Memory
  <2>5. g.in_queue = << >> /\ "IN_USE" \notin g.mp_flags[p]
    BY <1>1, <2>3, <2>4
  <2> QED
    BY <2>2, <2>4, <2>5, NobodyCreated
<1>4. ASSUME NEW q \in Procs, Unblock(q) PROVE FALSE
  <2>1. PICK fl, G, g : /\ fl = (mm.mp_flags[q] \ {"BLOCKED"}) \cup {"REPLY"}
                        /\ G = [mm.mp_flags EXCEPT ![q] = fl]
                        /\ g = [mm EXCEPT !.mp_flags = G]
    OBVIOUS
  <2>2. "IN_USE" \in mm.mp_flags[q]
    BY <1>1, <1>4 DEF Unblock
  <2>3. q # p /\ G[p] = mm.mp_flags[p] /\ G \in [Procs -> SUBSET Flags] /\ G[q] = fl
    <3>1. fl \in SUBSET Flags
      BY <1>1, <2>1 DEF Flags
    <3> QED
      BY <1>1, <2>1, <2>2, <3>1
  <2>4. g \in Memory /\ g.in_queue = mm.in_queue /\ g.mp_flags = G
    BY <1>1, <2>1, <2>3 DEF Memory
  <2>5. g.in_queue = << >> /\ "IN_USE" \notin g.mp_flags[p]
    BY <1>1, <2>3, <2>4
  <2>6. "ONSWAP" \notin g.mp_flags[q]
    <3>1. "ONSWAP" \notin mm.mp_flags[q]
      BY NobodySwapped
    <3>2. "ONSWAP" \notin fl
      BY <2>1, <3>1
    <3> QED
      BY <2>3, <2>4, <3>2
  <2>7. mm' = EndOfRound(g)
    <3>1. mm' = EndOfRound(IF "ONSWAP" \in g.mp_flags[q] THEN swap_inqueue(g, q) ELSE g)
      BY <1>4, <2>1 DEF Unblock
    <3> QED
      BY <2>6, <3>1
  <2> QED
    BY <2>4, <2>5, <2>7, NobodyCreated
<1>5. ASSUME NEW algorithm, do_worst_fit(algorithm) PROVE FALSE
  <2>1. PICK g : g = IF algorithm \in {FIRST, WORST}
                     THEN [mm EXCEPT !.current_algorithm = algorithm] ELSE mm
    OBVIOUS
  <2>2. g \in Memory /\ g.in_queue = mm.in_queue /\ g.mp_flags = mm.mp_flags
    <3>1. CASE algorithm \in {FIRST, WORST}
      BY <1>1, <2>1, <3>1 DEF Memory
    <3>2. CASE algorithm \notin {FIRST, WORST}
      BY <1>1, <2>1, <3>2
    <3> QED
      BY <3>1, <3>2
  <2>3. mm' = EndOfRound(g)
    BY <1>5, <2>1 DEF do_worst_fit
  <2>4. g.in_queue = << >> /\ "IN_USE" \notin g.mp_flags[p]
    BY <1>1, <2>2
  <2> QED
    BY <2>2, <2>3, <2>4, NobodyCreated
<1>6. ASSUME do_hole_map PROVE FALSE
  <2>1. mm' = EndOfRound(mm)
    BY <1>6 DEF do_hole_map
  <2> QED
    BY <1>1, <2>1, NobodyCreated
<1>7. ASSUME NEW size \in SwapSizes, swap_on(size), Apart' PROVE FALSE
  <2>1. PICK b, u, h, t, g :
          /\ b = swap_base /\ u = [mm EXCEPT !.swap_on = TRUE]
          /\ h = free_mem(mm.hole, b, size)
          /\ t = (mm.panic \/ (size # 0 /\ Len(mm.hole) = NR_HOLES))
          /\ g = [u EXCEPT !.hole = h, !.panic = t]
    OBVIOUS
  <2>2. /\ u \in Memory /\ u.swap_on = TRUE /\ u.hole = mm.hole
        /\ u.current_algorithm = mm.current_algorithm
        /\ u.in_queue = mm.in_queue /\ u.panic = mm.panic
    BY <1>1, <2>1 DEF Memory
  <2>3. mm' = EndOfRound(g)
    BY <1>7, <2>1, <2>2 DEF swap_on, Free
  <2>4. h \in Seq(HoleSet) /\ t \in BOOLEAN
    <3>1. mm.hole \in Seq(HoleSet) /\ Tidy(mm.hole) /\ b \in Nat /\ size \in Nat
      BY <1>1, <2>1, InvFacts, MemoryFields, AllocAssumption, Gapped
    <3>2. ASSUME NEW x \in Nat, Holds(mm.hole, x), In(b, size, x) PROVE FALSE
      <4>1. PICK n \in Nat : Shared(mm, n, 0, 0) /\ n = 0
        BY InvFacts
      <4>2. Area(n, x)
        BY <3>2, <4>1 DEF Shared
      <4>3. x >= swap_base /\ ~In(swap_base, n, x)
        BY <2>1, <3>1, <3>2, <4>1 DEF In
      <4>4. Holds(Chunks, x)
        BY <4>2, <4>3 DEF Area
      <4> QED
        BY <4>3, <4>4, Gapped
    <3>3. h \in Seq(HoleSet)
      BY <2>1, <3>1, <3>2, free_memKeeps
    <3>4. t \in BOOLEAN
      BY <2>1
    <3> QED
      BY <3>3, <3>4
  <2>5. /\ g \in Memory /\ g.swap_on = u.swap_on /\ g.in_queue = u.in_queue
        /\ g.current_algorithm = u.current_algorithm
    BY <2>1, <2>2, <2>4 DEF Memory
  <2>6. g.in_queue = << >>
    BY <1>1, <2>2, <2>5
  <2>7. PICK e : e = EndOfRound(g)
    OBVIOUS
  <2>8. e.swap_on = g.swap_on /\ e.current_algorithm = g.current_algorithm
    BY <2>5, <2>6, <2>7, QuietRound
  <2> QED
    BY <1>7, <2>2, <2>3, <2>5, <2>7, <2>8 DEF Apart
<1>8. ASSUME swap_off PROVE FALSE
  BY <1>8 DEF swap_off
<1>9. ASSUME UNCHANGED vars PROVE FALSE
  BY <1>9 DEF vars, InUse
<1> QED
  BY <1>2, <1>3, <1>4, <1>5, <1>6, <1>7, <1>8, <1>9 DEF Next

\* No two holes of a tidy list start at the same click.
LEMMA OneHoleAt ==
  ASSUME NEW h \in Seq(HoleSet), Tidy(h), NEW i \in DOMAIN h, NEW j \in DOMAIN h,
         h[i].h_base = h[j].h_base
  PROVE  i = j
<1>1. PICK n, b, c, d : n = Len(h) /\ b = h[i].h_base /\ c = h[i].h_len /\ d = h[j].h_len
  OBVIOUS
<1>2. /\ n \in Nat /\ i \in 1..n /\ j \in 1..n
      /\ b \in Nat /\ c \in Nat /\ d \in Nat
      /\ End(h[i]) = b + c /\ End(h[j]) = b + d
  <2>1. n \in Nat /\ i \in 1..n /\ j \in 1..n
    BY <1>1
  <2> QED
    BY <1>1, <2>1, TidyOrdered, OrderedHoles
<1>3. ~(i < j)
  <2>1. i < j => b + c < b
    BY <1>1, <1>2, AllTidy
  <2> QED
    BY <1>2, <2>1
<1>4. ~(j < i)
  <2>1. j < i => b + d < b
    BY <1>1, <1>2, AllTidy
  <2> QED
    BY <1>2, <2>1
<1> QED
  BY <1>2, <1>3, <1>4

\* fork: the process gets the front of a largest hole in memory.
LEMMA ForkTakesBiggest ==
  ASSUME IInv, ~mm.swap_on, mm.current_algorithm = WORST,
         NEW q \in Procs, NEW size \in Sizes, Fork(q, size),
         NEW p \in Procs, ~InUse(p), InUse(p)',
         NEW i \in InRam(mm.hole), NEW j \in DOMAIN mm.hole,
         mm.hole[j].h_base = (mm.mem_phys[p])'
  PROVE  mm.hole[i].h_len <= mm.hole[j].h_len
<1>1. PICK m, h : m = mm /\ h = mm.hole
  OBVIOUS
<1>2. /\ m \in Memory /\ m.in_queue = << >> /\ m.mp_flags \in [Procs -> SUBSET Flags]
      /\ m.mem_phys \in [Procs -> Nat] /\ m.size \in [Procs -> Nat]
      /\ h \in Seq(HoleSet) /\ Tidy(h) /\ h = m.hole
      /\ "IN_USE" \notin m.mp_flags[p]
  <2>1. mm \in Memory /\ Tidy(mm.hole) /\ mm.in_queue = << >>
    BY InvFacts, NobodySwapped
  <2> QED
    BY <1>1, <2>1, MemoryFields DEF InUse
<1>3. h # << >> /\ j \in DOMAIN h /\ i \in InRam(h)
  BY <1>1
<1>4. PICK k, l, a, g :
        /\ k = ChosenHole(m, size) /\ l = h[k].h_len
        /\ a = alloc_mem(m, size) /\ g = Created(q, size, a)
  OBVIOUS
<1>5. a = Bite(m, k, size) /\ mm' = EndOfRound(g)
  <2>1. \A c : SwapHoles(m, c) = {}
    BY <1>1, NobodySwapped
  <2>2. a = BiteOrFail(m, size)
    BY <1>4, <2>1, swap_outNobody, alloc_memAtOnce
  <2> QED
    BY <1>1, <1>4, <2>2 DEF BiteOrFail, Fork
<1>6. /\ ~FollowsNil(m)
      /\ k # 0 => k = Biggest(h) /\ h[k].h_len >= size
  <2>1. m.current_algorithm = WORST /\ WORST # FIRST
    BY <1>1 DEF WORST, FIRST
  <2> QED
    BY <1>2, <1>3, <1>4, <2>1 DEF FollowsNil, ChosenHole
<1>7. CASE k = 0
  <2>1. a = [m |-> m, base |-> NO_MEM]
    BY <1>5, <1>6, <1>7 DEF Bite
  <2>2. a.m = m /\ a.base = NO_MEM
    BY <2>1
  <2>3. g = m
    BY <1>4, <2>2 DEF Created
  <2> QED
    BY <1>2, <1>5, <2>3, NobodyCreated
<1>8. CASE k # 0
  <2>1. PICK f, b, t : f = a.m /\ b = h[k].h_base /\ t = TakeFrom(h, k, size)
    OBVIOUS
  <2>2. f = [m EXCEPT !.hole = t] /\ a.base = b
    BY <1>2, <1>5, <1>6, <1>8, <2>1 DEF Bite
  <2>3. k \in DOMAIN h /\ h[i].h_len <= h[k].h_len
    BY <1>2, <1>3, <1>6, <1>8, BiggestExists
  <2>4. /\ k \in 1..Len(h) /\ size \in Nat /\ 0 < size /\ size <= h[k].h_len
        /\ b \in Nat
    <3>1. k \in 1..Len(h) /\ size \in Nat /\ 0 < size
      <4>1. DOMAIN h = 1..Len(h)
        BY <1>2
      <4>2. size \in Nat \ {0}
        BY AllocAssumption
      <4> QED
        BY <2>3, <4>1, <4>2
    <3>2. h[k].h_len \in Nat /\ h[k].h_base \in Nat
      BY <1>2, <3>1, TidyOrdered, OrderedHoles
    <3> QED
      BY <1>6, <1>8, <2>1, <3>1, <3>2
  <2>5. t \in Seq(HoleSet)
    BY <1>2, <2>1, <2>4, TakeFromKeeps
  <2>6. /\ f \in Memory /\ f.mem_phys = m.mem_phys /\ f.size = m.size
        /\ f.mp_flags = m.mp_flags /\ f.in_queue = m.in_queue
    BY <1>2, <2>2, <2>5 DEF Memory
  <2>7. a.base # NO_MEM
    <3>1. a.base = NO_MEM => g = f
      BY <1>4, <2>1 DEF Created
    <3>2. f.in_queue = << >> /\ "IN_USE" \notin f.mp_flags[p]
      BY <1>2, <2>6
    <3> QED
      BY <1>5, <2>6, <3>1, <3>2, NobodyCreated
  <2>8. PICK F, Z, G, o : /\ F = [f.mem_phys EXCEPT ![q] = b]
                          /\ Z = [f.size EXCEPT ![q] = size]
                          /\ o = {"IN_USE"}
                          /\ G = [f.mp_flags EXCEPT ![q] = o]
    OBVIOUS
  <2>9. F \in [Procs -> Nat] /\ F[q] = b
    BY <1>2, <2>4, <2>6, <2>8
  <2>10. Z \in [Procs -> Nat]
    BY <1>2, <2>4, <2>6, <2>8
  <2>11. /\ G \in [Procs -> SUBSET Flags]
         /\ p # q => G[p] = m.mp_flags[p]
    <3>1. o \in SUBSET Flags
      BY <2>8 DEF Flags
    <3> QED
      BY <1>2, <2>6, <2>8, <3>1
  <2>12. g = [f EXCEPT !.mem_phys = F, !.size = Z, !.mp_flags = G]
    BY <1>4, <2>1, <2>2, <2>8, <2>7 DEF Created
  <2>13. /\ g \in Memory /\ g.mem_phys = F /\ g.mp_flags = G
         /\ g.in_queue = f.in_queue
    BY <2>6, <2>9, <2>10, <2>11, <2>12 DEF Memory
  <2>14. g.in_queue = << >>
    BY <1>2, <2>6, <2>13
  <2>15. p = q
    <3>1. p # q => "IN_USE" \notin g.mp_flags[p]
      BY <1>2, <2>11, <2>13
    <3> QED
      BY <1>5, <2>13, <2>14, <3>1, NobodyCreated
  <2>16. (mm.mem_phys[p])' = b
    <3>1. PICK e : e = EndOfRound(g)
      OBVIOUS
    <3>2. e.mem_phys = F
      BY <2>13, <2>14, <3>1, QuietRound
    <3> QED
      BY <1>5, <2>9, <2>15, <3>1, <3>2
  <2>17. j = k
    BY <1>1, <1>2, <1>3, <2>1, <2>3, <2>16, OneHoleAt
  <2> QED
    BY <1>1, <2>3, <2>17
<1> QED
  BY <1>7, <1>8

\* Worst fit is worst: a new process gets the front of a largest hole in
\* memory (alloc_mem of mm/alloc.c). Nobody is swapped out for it, because
\* worst fit and swapping are not in force together.
THEOREM WorstFitIsWorstAlways == ApartSpec => WorstFitIsWorst
<1>1. ASSUME IInv, [Next /\ Apart']_vars, NEW p \in Procs,
             mm.current_algorithm = WORST, ~InUse(p), InUse(p)',
             NEW i \in InRam(mm.hole), NEW j \in DOMAIN mm.hole,
             mm.hole[j].h_base = (mm.mem_phys[p])'
      PROVE  mm.hole[i].h_len <= mm.hole[j].h_len
  <2>1. ~mm.swap_on
    BY <1>1, InvFacts DEF Separate
  <2>2. PICK q \in Procs, size \in Sizes : Fork(q, size)
    BY <1>1, <2>1, OnlyForkCreates
  <2> QED
    BY <1>1, <2>1, <2>2, ForkTakesBiggest
<1>2. IInv /\ [Next /\ Apart']_vars =>
        [\A p \in Procs :
           /\ mm.current_algorithm = WORST /\ ~InUse(p) /\ InUse(p)'
           /\ mm'.outswap = mm.outswap
           => \A i \in InRam(mm.hole) :
                \A j \in DOMAIN mm.hole : mm.hole[j].h_base = mm'.mem_phys[p] =>
                  mm.hole[i].h_len <= mm.hole[j].h_len]_vars
  BY <1>1
<1> QED
  BY <1>2, SoundAlways, PTL DEF ApartSpec, WorstFitIsWorst
=============================================================================
