---------------------------- MODULE MCSemBuffer ----------------------------
(* Both kinds of buffer main has: one with a producer of its own (the first *)
(* and the last), one that only the entrepreneur, who serves all, fills.    *)
EXTENDS SemBuffer

CONSTANTS first, second, x, y, producer1, entrepreneur, consumer1, consumer2

MCBuffers == {first, second}
\* makeProduct draws from a range of the buffer.
MCItems == [b \in MCBuffers |-> IF b = first THEN {x, y} ELSE {x}]
MCProducers == {producer1, entrepreneur}
MCConsumers == {consumer1, consumer2}
MCRoute == [p \in MCProducers |-> IF p = producer1 THEN <<first>>
                                  ELSE <<first, second>>]
MCServes == [c \in MCConsumers |-> IF c = consumer1 THEN first ELSE second]
MCChildren == <<producer1, entrepreneur, consumer1, consumer2>>
=============================================================================
