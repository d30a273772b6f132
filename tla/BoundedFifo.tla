---------------------------- MODULE BoundedFifo ----------------------------
(***************************************************************************)
(* What the buffers of exercises 3 and 4 promise: each is a first-in       *)
(* first-out queue of at most Size products.  A product is put into a      *)
(* queue that has room, and a consumer gets the oldest one.                *)
(***************************************************************************)
EXTENDS Naturals, Sequences

CONSTANTS Buffers, Size, Consumers,
          Items,    \* buffer -> the products that are made for it
          Nothing,  \* what a consumer holds that has not consumed yet
          Serves    \* consumer -> the buffer it takes from

VARIABLES
  queue,   \* buffer -> the products in it, oldest first
  taken    \* consumer -> the last product it got

Init ==
  /\ queue = [b \in Buffers |-> << >>]
  /\ taken = [c \in Consumers |-> Nothing]

Put(b) ==
  /\ Len(queue[b]) < Size
  /\ \E x \in Items[b] : queue' = [queue EXCEPT ![b] = Append(@, x)]
  /\ UNCHANGED taken

Get(c) ==
  LET b == Serves[c]
  IN /\ queue[b] # << >>
     /\ taken' = [taken EXCEPT ![c] = Head(queue[b])]
     /\ queue' = [queue EXCEPT ![b] = Tail(@)]

Next == (\E b \in Buffers : Put(b)) \/ (\E c \in Consumers : Get(c))

Spec == Init /\ [][Next]_<<queue, taken>>
=============================================================================
