-------------------------------- MODULE Fifo --------------------------------
(* The byte ring of components/utils/fifo: `head' and `tail' move through    *)
(* the buffer begin .. end, which is 0 .. f.end here, and one cell stays     *)
(* free, so that a ring of n cells holds n - 1 bytes.  fifo_push and         *)
(* fifo_pop are critical sections in the code and single operators here;     *)
(* fifo_isempty and fifo_flush take no lock, and the modules that use them   *)
(* decide what may happen between their loads.                               *)
EXTENDS Integers, Sequences

CONSTANT Nul       \* the byte that fifo_pop returns when there is none

\* Fault: the index never wraps.
After_NoWrap(f, p) == p + 1

After(f, p) == IF p = f.end THEN 0 ELSE p + 1

fifo_init(size) == [buf |-> [p \in 0 .. size - 1 |-> Nul],
                    head |-> 0, tail |-> 0, end |-> size - 1]

fifo_isempty(f) == f.head = f.tail

fifo_isfull(f) == \/ f.head = 0 /\ f.tail = f.end
                  \/ f.tail = f.head - 1

\* Fault: push does not look whether there is room.
fifo_push_NoCheck(f, c) == [f EXCEPT !.buf = [@ EXCEPT ![f.tail] = c],
                                     !.tail = After(f, f.tail)]

\* A byte pushed into a full ring is dropped.
fifo_push(f, c) == IF fifo_isfull(f) THEN f
                   ELSE [f EXCEPT !.buf = [@ EXCEPT ![f.tail] = c],
                                  !.tail = After(f, f.tail)]

\* fifo_pop returns fifo_first and leaves fifo_pop.
fifo_first(f) == IF fifo_isempty(f) THEN Nul ELSE f.buf[f.head]
fifo_pop(f) == IF fifo_isempty(f) THEN f
               ELSE [f EXCEPT !.head = After(f, f.head)]

fifo_flush(f) == [f EXCEPT !.head = 0, !.tail = 0]

-----------------------------------------------------------------------------
(* What a ring stands for: a queue of at most Room bytes.                    *)

Used(f) == IF f.head <= f.tail THEN f.tail - f.head
           ELSE f.tail + f.end + 1 - f.head
Room(f) == f.end
Cell(f, i) == IF f.head + i - 1 <= f.end THEN f.head + i - 1
              ELSE f.head + i - 2 - f.end
Content(f) == [i \in 1 .. Used(f) |-> f.buf[Cell(f, i)]]

Ring(size, Byte) == [buf : [0 .. size - 1 -> Byte],
                     head : 0 .. size - 1, tail : 0 .. size - 1,
                     end : {size - 1}]
=============================================================================
