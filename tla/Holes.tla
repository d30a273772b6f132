-------------------------------- MODULE Holes --------------------------------
(***************************************************************************)
(* The hole list of exercise 5 (mm/alloc.c): the free memory as a list of  *)
(* holes in order of their addresses.  A hole is a record of base and      *)
(* length; the linked list hole_head is a sequence of them, and the slots  *)
(* of hole[] that are not in the sequence are free_slots.                  *)
(***************************************************************************)
EXTENDS Integers, Sequences, SequencesExt

Hole(base, len) == [h_base |-> base, h_len |-> len]
End(hp) == hp.h_base + hp.h_len

del_slot(h, i) == RemoveAt(h, i)

\* A hole absorbs its successor, if they are contiguous.
Contiguous(h, i) == i < Len(h) /\ End(h[i]) = h[i + 1].h_base

Absorb(h, i) ==
  IF Contiguous(h, i)
  THEN del_slot([h EXCEPT ![i].h_len = @ + h[i + 1].h_len], i + 1)
  ELSE h

\* Mutant: the third hole is not looked at
merge_two(h, i) == Absorb(h, i)

\* h[i] is the first of three holes that may be contiguous.
merge(h, i) ==
  IF Contiguous(h, i) THEN Absorb(Absorb(h, i), i) ELSE Absorb(h, i + 1)

\* The holes in front of the place where a block belongs
Before(h, base) == {i \in DOMAIN h : h[i].h_base < base}

free_mem(h, base, clicks) ==
  LET front == h = << >> \/ base <= h[1].h_base
      prev == CHOOSE i \in Before(h, base) : \A j \in Before(h, base) : j <= i
  IN IF clicks = 0 THEN h
     ELSE IF front THEN merge(<<Hole(base, clicks)>> \o h, 1)
     ELSE merge(InsertAt(h, prev + 1, Hole(base, clicks)), prev)

\* Bite clicks off the front of hole i; it goes when nothing is left.
TakeFrom(h, i, clicks) ==
  IF h[i].h_len = clicks THEN del_slot(h, i)
  ELSE [h EXCEPT ![i] = Hole(@.h_base + clicks, @.h_len - clicks)]

\* Sorted, no two contiguous, none empty
Tidy(h) ==
  /\ \A i \in DOMAIN h : h[i].h_len > 0
  /\ \A i \in 1..(Len(h) - 1) : End(h[i]) < h[i + 1].h_base
=============================================================================
