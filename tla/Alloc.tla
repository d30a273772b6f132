-------------------------------- MODULE Alloc --------------------------------
(***************************************************************************)
(* Memory allocation and swapping of exercise 5 (mm/alloc.c).  A step is   *)
(* one round of MM's main loop: a call is handled, swap_in() is tried and  *)
(* the replies go out.  The calls themselves (fork, exit, pause, signals)  *)
(* are not in the repository and are modelled by what they ask of alloc.c. *)
(* As in module Proc, the data is one record and a function of alloc.c is  *)
(* an operator on it.                                                      *)
(***************************************************************************)
EXTENDS Holes, FiniteSets

CONSTANTS
  Chunks,      \* the chunks of memory the kernel reports, as holes
  NR_HOLES,    \* entries of hole[]
  Procs,       \* mproc slots of user processes, an interval
  Sizes,       \* sizes of processes, in clicks
  SwapSizes,   \* sizes of swap areas
  Algorithms,  \* the arguments passed to worst_fit(), valid or not
  BufferWords  \* length of the buffer hole_map() is called with

LOW_USER == CHOOSE p \in Procs : \A q \in Procs : p <= q
HIGH_USER == CHOOSE p \in Procs : \A q \in Procs : p >= q

ASSUME AllocAssumption ==
  /\ Chunks \in Seq([h_base : Nat, h_len : Nat]) /\ Tidy(Chunks) /\ Chunks # << >>
  /\ \A i \in DOMAIN Chunks : Chunks[i].h_base > 0
  /\ Sizes \subseteq Nat \ {0} /\ SwapSizes \subseteq Nat
  /\ BufferWords \in Nat /\ BufferWords > 1
  /\ Procs \subseteq Nat /\ Procs # {}
  /\ HIGH_USER \in Nat /\ Procs = LOW_USER..HIGH_USER

VARIABLES
  mm,      \* the memory manager's data
  buffer   \* the buffer the last call passed to hole_map()

vars == <<mm, buffer>>

FIRST == 0
WORST == 1
NO_MEM == 0
STALE == -1    \* what an uninitialised word of a buffer holds

\* mem_init makes the swap area separate: it starts after a gap of one click.
swap_base == End(Chunks[Len(Chunks)]) + 1

Free(m, base, clicks) ==
  [m EXCEPT !.hole = free_mem(@, base, clicks),
            !.panic = @ \/ (clicks # 0 /\ Len(m.hole) = NR_HOLES)]

\* Every call of hole_map() brings a buffer of its own.
Unwritten == [i \in 1..BufferWords |-> STALE]

\* mem_init: one hole for each chunk
Init ==
  /\ mm = [hole |-> Chunks,
           current_algorithm |-> FIRST,
           swap_on |-> FALSE,
           mem_phys |-> [p \in Procs |-> NO_MEM],
           size |-> [p \in Procs |-> 0],
           mp_flags |-> [p \in Procs |-> {}],
           in_queue |-> << >>,
           outswap |-> LOW_USER,
           panic |-> FALSE,    \* "Hole table full"
           wild |-> FALSE]     \* a nil pointer has been followed
  /\ buffer = Unwritten
-----------------------------------------------------------------------------
(* swap_out: the first candidate after outswap, in a circle, that fits into *)
(* a hole of the swap area.                                                 *)

RoundFrom(p) == [i \in 1..Cardinality(Procs) |->
                   LOW_USER + ((p - LOW_USER + i) % Cardinality(Procs))]

SwapHoles(m, clicks) ==
  {i \in DOMAIN m.hole : m.hole[i].h_base >= swap_base
                         /\ m.hole[i].h_len >= clicks}

\* Blocked on a call that MM handles, not avoided
Candidate(m, p) ==
  "BLOCKED" \in m.mp_flags[p] /\ m.mp_flags[p] \cap {"REPLY", "ONSWAP"} = {}

\* Process p goes to the front of the swap hole i.
SwappedOut(m, p, i) ==
  Free([m EXCEPT !.hole = TakeFrom(@, i, m.size[p]),
                 !.mem_phys[p] = m.hole[i].h_base,
                 !.mp_flags[p] = @ \cup {"ONSWAP"},
                 !.outswap = p],
       m.mem_phys[p], m.size[p])

swap_out(m) ==
  LET round == RoundFrom(m.outswap)
      able == {i \in DOMAIN round : Candidate(m, round[i])
                                    /\ SwapHoles(m, m.size[round[i]]) # {}}
      p == round[Min(able)]
  IN IF able = {} THEN m
     ELSE SwappedOut(m, p, Min(SwapHoles(m, m.size[p])))
-----------------------------------------------------------------------------
(* alloc_mem *)

InRam(h) == {i \in DOMAIN h : h[i].h_base < swap_base}

FirstFit_all(h, clicks) == {i \in DOMAIN h : h[i].h_len >= clicks}  \* Mutant

FirstFit(h, clicks) == {i \in InRam(h) : h[i].h_len >= clicks}

\* Mutant: of the holes in memory, the smallest
Biggest_least(h) ==
  Min({i \in InRam(h) \cup {1} :
           \A j \in InRam(h) : h[i].h_len <= h[j].h_len})

\* The search starts with the head of the list, wherever that lies, and
\* replaces it by a bigger hole of the memory.
Biggest(h) ==
  Min({i \in InRam(h) \cup {1} :
           \A j \in InRam(h) \cup {1} : h[i].h_len >= h[j].h_len})

\* The hole to take clicks from, 0 if there is none
ChosenHole(m, clicks) ==
  IF m.current_algorithm = FIRST
  THEN IF FirstFit(m.hole, clicks) = {} THEN 0
       ELSE Min(FirstFit(m.hole, clicks))
  ELSE IF m.hole # << >> /\ m.hole[Biggest(m.hole)].h_len >= clicks
       THEN Biggest(m.hole) ELSE 0

\* biggest is nil when there is no hole at all: biggest->h_len is read.
FollowsNil(m) == m.current_algorithm = WORST /\ m.hole = << >>

\* What alloc_mem comes to without further swapping, given its choice i
Bite(m, i, clicks) ==
  IF FollowsNil(m) THEN [m |-> [m EXCEPT !.wild = TRUE], base |-> NO_MEM]
  ELSE IF i = 0 THEN [m |-> m, base |-> NO_MEM]
  ELSE [m |-> [m EXCEPT !.hole = TakeFrom(@, i, clicks)],
        base |-> m.hole[i].h_base]

\* tries[i] is the data after i calls of swap_out: the first that allows an
\* answer, or the last, when swap_out finds nobody.
LastTry(tries, clicks) ==
  tries[Min({i \in 0..Cardinality(Procs) :
               \/ ChosenHole(tries[i], clicks) # 0 \/ FollowsNil(tries[i])
               \/ tries[i + 1] = tries[i]})]

BiteOrFail(m, clicks) == Bite(m, ChosenHole(m, clicks), clicks)

\* Swap processes out until a hole fits.
alloc_mem(m, clicks) ==
  LET tries[i \in 0..(Cardinality(Procs) + 1)] ==
        IF i = 0 THEN m ELSE swap_out(tries[i - 1])
  IN BiteOrFail(LastTry(tries, clicks), clicks)
-----------------------------------------------------------------------------
(* Swapping in *)

swap_inqueue_again(m, p) ==    \* Mutant: SWAPIN is not tested
  [m EXCEPT !.in_queue = Append(@, p), !.mp_flags[p] = @ \cup {"SWAPIN"}]

swap_inqueue(m, p) ==
  IF "SWAPIN" \in m.mp_flags[p] THEN m
  ELSE [m EXCEPT !.in_queue = Append(@, p), !.mp_flags[p] = @ \cup {"SWAPIN"}]

\* Mutant: the place in the swap area is not freed
SwappedIn_leaky(m, p, a) ==
  [a.m EXCEPT !.mem_phys[p] = a.base, !.mp_flags[p] = @ \ {"ONSWAP", "SWAPIN"}]

\* Process p gets the memory a, its place in the swap area becomes free.
SwappedIn(m, p, a) ==
  Free([a.m EXCEPT !.mem_phys[p] = a.base,
                   !.mp_flags[p] = @ \ {"ONSWAP", "SWAPIN"}],
       m.mem_phys[p], m.size[p])

ComeIn(m, p, a) ==
  IF a.base = NO_MEM THEN [a.m EXCEPT !.in_queue = Append(@, p)]
  ELSE SwappedIn(m, p, a)

Visit(m, p) ==
  IF "SWAPIN" \in m.mp_flags[p] THEN ComeIn(m, p, alloc_mem(m, m.size[p]))
  ELSE m

\* The queue is walked once; a process that got killed or comes in leaves it.
swap_in(m) ==
  LET walk[i \in 0..Len(m.in_queue)] ==
        IF i = 0 THEN [m EXCEPT !.in_queue = << >>]
        ELSE Visit(walk[i - 1], m.in_queue[i])
  IN walk[Len(m.in_queue)]

\* The replies go to who is in memory.
Replied(m) ==
  [m EXCEPT !.mp_flags = [p \in Procs |->
     IF "ONSWAP" \in m.mp_flags[p] THEN m.mp_flags[p]
     ELSE m.mp_flags[p] \ {"REPLY"}]]

\* The end of a round of main: swap in, then reply.
EndOfRound(m) == Replied(swap_in(m))

InUse(p) == "IN_USE" \in mm.mp_flags[p]
CanCall(p) == InUse(p) /\ mm.mp_flags[p] \cap {"BLOCKED", "REPLY", "ONSWAP"} = {}
-----------------------------------------------------------------------------
(* The calls *)

Created(p, size, a) ==
  IF a.base = NO_MEM THEN a.m
  ELSE [a.m EXCEPT !.mem_phys[p] = a.base, !.size[p] = size,
                   !.mp_flags[p] = {"IN_USE"}]

\* fork, exec: memory for a process of the given size
Fork(p, size) ==
  /\ ~InUse(p)
  /\ mm' = EndOfRound(Created(p, size, alloc_mem(mm, size)))
  /\ buffer' = Unwritten

\* exit, or killed by a signal, wherever it is; what mproc says of the memory
\* of a free slot is not looked at
Exit(p) ==
  /\ InUse(p)
  /\ mm' = EndOfRound([Free(mm, mm.mem_phys[p], mm.size[p]) EXCEPT
                          !.mp_flags[p] = {}, !.mem_phys[p] = NO_MEM, !.size[p] = 0])
  /\ buffer' = Unwritten

\* pause, wait, sigsuspend
Block(p) ==
  /\ CanCall(p)
  /\ mm' = EndOfRound([mm EXCEPT !.mp_flags[p] = @ \cup {"BLOCKED"}])
  /\ buffer' = Unwritten

\* A blocked process gets its answer: setreply
Unblock(p) ==
  /\ "BLOCKED" \in mm.mp_flags[p]
  /\ mm' = EndOfRound(
       LET m == [mm EXCEPT !.mp_flags[p] = (@ \ {"BLOCKED"}) \cup {"REPLY"}]
       IN IF "ONSWAP" \in m.mp_flags[p] THEN swap_inqueue(m, p) ELSE m)
  /\ buffer' = Unwritten

\* do_worst_fit; an invalid algorithm is refused
do_worst_fit(algorithm) ==
  /\ mm' = EndOfRound(IF algorithm \in {FIRST, WORST}
                      THEN [mm EXCEPT !.current_algorithm = algorithm] ELSE mm)
  /\ buffer' = Unwritten

\* do_hole_map: size leaves room for a zero behind the last pair, and the zero
\* is put there, but only the i words in front of it are copied.
HoleWords_full(h) ==    \* Mutant: the room for the zero is used
  LET size == BufferWords
      n == Min({Cardinality(InRam(h)), (size + 1) \div 2})
  IN [i \in 1..(2 * n) |-> IF i % 2 = 1 THEN h[(i + 1) \div 2].h_len
                           ELSE h[i \div 2].h_base]

HoleWords(h) ==
  LET size == BufferWords - 1
      n == Min({Cardinality(InRam(h)), size \div 2})
  IN [i \in 1..(2 * n) |-> IF i % 2 = 1 THEN h[(i + 1) \div 2].h_len
                           ELSE h[i \div 2].h_base]

do_hole_map ==
  /\ LET words == HoleWords(mm.hole)
     IN buffer' = [i \in DOMAIN buffer \cup DOMAIN words |->
                     IF i \in DOMAIN words THEN words[i] ELSE STALE]
  /\ mm' = EndOfRound(mm)

swap_on(size) ==
  /\ ~mm.swap_on
  /\ mm' = EndOfRound(Free([mm EXCEPT !.swap_on = TRUE], swap_base, size))
  /\ buffer' = Unwritten

\* Delete the holes of the swap area, the last ones: after each deletion the
\* search goes on BEHIND the head, which need not exist.
WithoutSwapHoles(m) ==
  LET i == Min(DOMAIN m.hole \ InRam(m.hole))
      h == del_slot(m.hole, i)
  IN IF DOMAIN m.hole = InRam(m.hole) THEN m
     ELSE IF h = << >> THEN [m EXCEPT !.hole = h, !.wild = TRUE]
     ELSE [m EXCEPT !.hole = SubSeq(h, 1, Max(InRam(h) \cup {1}))]

\* Is everybody in memory?
SwapClosed(m) ==
  IF \E p \in Procs : "ONSWAP" \in m.mp_flags[p] THEN m
  ELSE [WithoutSwapHoles(m) EXCEPT !.swap_on = FALSE]

swap_off ==
  /\ mm.swap_on
  /\ LET queue[p \in (LOW_USER - 1)..HIGH_USER] ==
           IF p < LOW_USER THEN mm
           ELSE IF "ONSWAP" \in mm.mp_flags[p]
           THEN swap_inqueue(queue[p - 1], p) ELSE queue[p - 1]
     IN mm' = EndOfRound(SwapClosed(swap_in(queue[HIGH_USER])))
  /\ buffer' = Unwritten

Next ==
  /\ ~mm.wild /\ ~mm.panic
  /\ \/ \E p \in Procs : \/ \E size \in Sizes : Fork(p, size)
                         \/ Exit(p) \/ Block(p) \/ Unblock(p)
     \/ \E algorithm \in Algorithms : do_worst_fit(algorithm)
     \/ do_hole_map
     \/ \E size \in SwapSizes : swap_on(size)
     \/ swap_off

Spec == Init /\ [][Next]_vars

\* Worst fit is never in force while swapping is on; worst_fit() and swapon()
\* do not see to that.
Apart == ~(mm.swap_on /\ mm.current_algorithm = WORST)
ApartSpec == Init /\ [][Next /\ Apart']_vars
-----------------------------------------------------------------------------
\* The list stays sorted and merged, over every order of frees and of bites.
HolesTidy == Tidy(mm.hole)

Clicks(base, len) == base..(base + len - 1)

\* The holes and the processes share out the memory: no click belongs to two
\* of them, and none is lost, in memory and, while swapping is on, in the
\* swap area.
MemorySharedOut ==
  LET h == mm.hole
      live == {p \in Procs : InUse(p)}
      owned(x) == Cardinality({i \in DOMAIN h : x \in Clicks(h[i].h_base, h[i].h_len)})
                  + Cardinality({p \in live : x \in Clicks(mm.mem_phys[p], mm.size[p])})
  IN /\ \A i \in DOMAIN Chunks :
          \A x \in Clicks(Chunks[i].h_base, Chunks[i].h_len) : owned(x) = 1
     /\ \A p \in live : \A x \in Clicks(mm.mem_phys[p], mm.size[p]) : owned(x) = 1
     /\ \A i \in DOMAIN h : h[i].h_base >= swap_base => mm.swap_on

\* "The swap area is represented as a hole above and separate of regular
\* memory" (mem_init): a process lies in it exactly while it is ONSWAP.
SwapSeparate ==
  \A p \in Procs :
    InUse(p) => ("ONSWAP" \in mm.mp_flags[p] <=> mm.mem_phys[p] >= swap_base)

\* A process that has an answer to come is in memory or queued for it, once,
\* although killed processes stay queued until swap_in finds them.
AnswersComeIn ==
  /\ \A p \in Procs : "REPLY" \in mm.mp_flags[p] =>
       {"ONSWAP", "SWAPIN"} \subseteq mm.mp_flags[p]
  /\ \A p \in Procs :
       Cardinality({i \in DOMAIN mm.in_queue : mm.in_queue[i] = p}) =
         IF "SWAPIN" \in mm.mp_flags[p] THEN 1 ELSE 0

\* With WORST, a new process gets the front of the largest hole in memory
\* (no process having been swapped out for it).
WorstFitIsWorst ==
  [][\A p \in Procs :
       /\ mm.current_algorithm = WORST /\ ~InUse(p) /\ InUse(p)'
       /\ mm'.outswap = mm.outswap
       => \A i \in InRam(mm.hole) :
            \A j \in DOMAIN mm.hole : mm.hole[j].h_base = mm'.mem_phys[p] =>
              mm.hole[i].h_len <= mm.hole[j].h_len]_vars

\* hole_map() writes whole pairs into the caller's buffer, and leaves a word
\* for the zero.
HoleMapFits ==
  /\ DOMAIN buffer = 1..BufferWords
  /\ buffer[BufferWords] = STALE

\* hole[] has room for every fragmentation the processes can cause.
TableSuffices == ~mm.panic

\* Neither the table of the allocator nor the buffer of a caller overflows.
NoOverrun == TableSuffices /\ HoleMapFits
=============================================================================
