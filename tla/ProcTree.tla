------------------------------- MODULE ProcTree -------------------------------
(***************************************************************************)
(* The queries of exercise 1 on the tree of processes (mm/main.c): MM      *)
(* looks through the table mproc for the process with the most children,   *)
(* or with the most descendants, which it counts with a stack of its own.  *)
(* MM serves one call after the other: nobody forks or exits meanwhile.    *)
(* Fork, exit and wait are those of mm/forkexit.c, which is not part of    *)
(* the repository.                                                         *)
(***************************************************************************)
EXTENDS Integers, Sequences, FiniteSets

CONSTANTS
  NR_PROCS,   \* slots of mproc
  Pids,       \* the pids of user processes
  Excludes    \* values of exclude_pid: a pid to leave out, 0 for none

MM == 0
FS == 1
INIT == 2
INIT_PID == 1
Procs == 0..(NR_PROCS - 1)

ASSUME TreeAssumption ==
  /\ NR_PROCS \in Nat /\ NR_PROCS > INIT
  /\ Pids \subseteq Nat \ {0, INIT_PID}
  /\ Excludes \subseteq Nat

VARIABLES
  mproc,   \* the table of processes
  query    \* the call MM is working on, with the local variables of it

vars == <<mproc, query>>

Least(S) == CHOOSE x \in S : \A y \in S : x <= y

NoQuery == [pc |-> "none", kind |-> "children", exclude_pid |-> 0,
            proc_nr |-> 0, most |-> -1, found |-> -1, stack |-> << >>,
            visited |-> {}, current_proc |-> 0, i |-> 0, descendants |-> 0]

\* A parent of 0 is what the table is initialized to.
Init ==
  /\ mproc = [i \in Procs |->
       [in_use |-> i <= INIT, hanging |-> FALSE, mp_parent |-> 0,
        mp_pid |-> IF i = INIT THEN INIT_PID ELSE 0]]
  /\ query = NoQuery
-----------------------------------------------------------------------------
(* What other calls do to the tree *)

InUse == {i \in Procs : mproc[i].in_use}
Alive == {i \in InUse : i >= INIT /\ ~mproc[i].hanging}
UnusedPids == Pids \ {mproc[i].mp_pid : i \in InUse}

\* Which of the unused pids the child gets makes no difference.
Fork(p) ==
  /\ query.pc = "none" /\ p \in Alive /\ InUse # Procs /\ UnusedPids # {}
  /\ mproc' = [mproc EXCEPT ![Least(Procs \ InUse)] =
       [in_use |-> TRUE, hanging |-> FALSE, mp_parent |-> p,
        mp_pid |-> Least(UnusedPids)]]
  /\ UNCHANGED query

\* The slot stays in use until the parent waits; INIT inherits the children.
Exit(p) ==
  /\ query.pc = "none" /\ p \in Alive \ {INIT}
  /\ mproc' = [i \in Procs |->
       [mproc[i] EXCEPT
          !.hanging = @ \/ i = p,
          !.mp_parent = IF mproc[i].in_use /\ @ = p THEN INIT ELSE @]]
  /\ UNCHANGED query

\* Pid and parent stay in the slot.
Wait(i) ==
  /\ query.pc = "none" /\ mproc[i].hanging
  /\ mproc' = [mproc EXCEPT ![i].in_use = FALSE, ![i].hanging = FALSE]
  /\ UNCHANGED query
-----------------------------------------------------------------------------
(* The queries *)

Children_all(p) == {i \in Procs : mproc[i].mp_parent = p}  \* Mutant: dead too

Children_live(p) ==                   \* Mutant: no zombies
  {i \in InUse : ~mproc[i].hanging /\ mproc[i].mp_parent = p}

Children(p) == {i \in InUse : mproc[i].mp_parent = p}

count_children(p) == Cardinality(Children(p) \ {p})

Asks(kind, exclude_pid) ==
  /\ query.pc = "none"
  /\ query' = [NoQuery EXCEPT !.pc = "scan", !.kind = kind,
                              !.exclude_pid = exclude_pid]
  /\ UNCHANGED mproc

do_who_most_children == Asks("children", 0)
do_who_most_descendants == \E pid \in Excludes : Asks("descendants", pid)

\* most_children has no process to exclude: no pid is 0 that gets there
Eligible(p) ==
  /\ mproc[p].in_use
  /\ mproc[p].mp_pid # 0 /\ mproc[p].mp_pid # query.exclude_pid

Better_last(count, most) == count >= most    \* Mutant: the last of the equals

Better(count, most) == count > most

\* The loop over proc_nr goes on after the count of a process.
Counted(count) ==
  LET better == Better(count, query.most)
  IN query' = [query EXCEPT
       !.pc = "scan", !.proc_nr = @ + 1,
       !.most = IF better THEN count ELSE @,
       !.found = IF better THEN mproc[query.proc_nr].mp_pid ELSE @]

Skip ==
  /\ query.pc = "scan" /\ query.proc_nr \in Procs /\ ~Eligible(query.proc_nr)
  /\ query' = [query EXCEPT !.proc_nr = @ + 1]
  /\ UNCHANGED mproc

CountChildren ==
  /\ query.pc = "scan" /\ query.kind = "children"
  /\ query.proc_nr \in Procs /\ Eligible(query.proc_nr)
  /\ Counted(count_children(query.proc_nr))
  /\ UNCHANGED mproc

\* count_descendants begins
CountDescendants ==
  /\ query.pc = "scan" /\ query.kind = "descendants"
  /\ query.proc_nr \in Procs /\ Eligible(query.proc_nr)
  /\ query' = [query EXCEPT
       !.pc = "count", !.stack = <<query.proc_nr>>,
       !.visited = {query.proc_nr}, !.descendants = 0]
  /\ UNCHANGED mproc

Rest_all(stack) == stack              \* Mutant: the pointer stays

Rest(stack) == SubSeq(stack, 1, Len(stack) - 1)

\* Pop a process and look for its children.
Pop ==
  /\ query.pc = "count" /\ query.stack # << >>
  /\ query' = [query EXCEPT
       !.pc = "look", !.i = 0,
       !.current_proc = query.stack[Len(query.stack)],
       !.stack = Rest(@)]
  /\ UNCHANGED mproc

\* One round of the loop over the slots: a child not seen yet is pushed.
Look ==
  /\ query.pc = "look" /\ query.i \in Procs
  /\ query' =
       IF query.i \in Children(query.current_proc) \ query.visited
       THEN [query EXCEPT !.i = @ + 1, !.descendants = @ + 1,
                          !.stack = Append(@, query.i),
                          !.visited = @ \cup {query.i}]
       ELSE [query EXCEPT !.i = @ + 1]
  /\ UNCHANGED mproc

LookedAtAll ==
  /\ query.pc = "look" /\ query.i = NR_PROCS
  /\ query' = [query EXCEPT !.pc = "count"]
  /\ UNCHANGED mproc

\* count_descendants returns
Returns ==
  /\ query.pc = "count" /\ query.stack = << >>
  /\ Counted(query.descendants)
  /\ UNCHANGED mproc

\* The process found is put into reply_res2, its count is the result.
Answer ==
  /\ query.pc = "scan" /\ query.proc_nr = NR_PROCS
  /\ query' = NoQuery
  /\ UNCHANGED mproc

Work ==
  \/ Skip \/ CountChildren \/ CountDescendants
  \/ Pop \/ Look \/ LookedAtAll \/ Returns \/ Answer

Next ==
  \/ \E p \in Procs : Fork(p) \/ Exit(p) \/ Wait(p)
  \/ do_who_most_children \/ do_who_most_descendants
  \/ Work

\* MM is a server that runs on.
Spec == Init /\ [][Next]_vars /\ WF_vars(Work)
-----------------------------------------------------------------------------
(* Properties *)

\* p itself and everyone below it: what is in every set that p is in and that
\* the children of its members are in
Below(p) ==
  LET Closed(S) == p \in S /\ \A i \in InUse : mproc[i].mp_parent \in S => i \in S
  IN {i \in Procs : \A S \in SUBSET Procs : Closed(S) => i \in S}

Score(p) ==
  IF query.kind = "children"
  THEN Cardinality({i \in InUse \ {p} : mproc[i].mp_parent = p})
  ELSE Cardinality(Below(p)) - 1

Answering == query.pc = "scan" /\ query.proc_nr = NR_PROCS

\* README.md 6-7: the answer is the pid of a process with the most children,
\* or descendants on all levels (main.c 195-212, 257-274), with their number;
\* of several the first.  Slots of the dead keep their parent, zombies their
\* slot, and slots and pids are used again: nobody is counted who is not
\* there, twice or not at all.
AnswerIsRight ==
  Answering =>
    IF \E p \in Procs : Eligible(p)
    THEN \E p \in Procs :
           /\ Eligible(p)
           /\ query.found = mproc[p].mp_pid /\ query.most = Score(p)
           /\ \A o \in Procs : Eligible(o) =>
                Score(o) < Score(p) \/ (Score(o) = Score(p) /\ p <= o)
    ELSE query.found = -1 /\ query.most = -1

\* The search of count_descendants (226-255) reaches every process there is
\* from INIT, whoever died in between: unless it is left out (dtests.c leaves
\* it out), INIT is the answer, with all others but MM and FS below it.
InitHasAll ==
  Answering /\ query.kind = "descendants" /\ query.exclude_pid # INIT_PID =>
    /\ query.found = INIT_PID
    /\ query.most = Cardinality(InUse) - 3

\* The loop over the stack (238-253) ends: every query is answered, and MM
\* takes the next call.
QueryEnds == query.pc # "none" ~> query.pc = "none"
=============================================================================
