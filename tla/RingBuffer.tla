----------------------------- MODULE RingBuffer -----------------------------
(***************************************************************************)
(* RingBuffer<T> (include/heidi-kernel/ring_buffer.h) as pure functions on *)
(* its state.  Every method of the class runs under the buffer's own       *)
(* mutex_, so each is one atomic step of its caller.                       *)
(***************************************************************************)
EXTENDS Integers, Sequences

CONSTANT Capacity      \* capacity_

ASSUME CapacityAssumption == Capacity \in Nat \ {0}

Ring(Item) ==
  [buffer : [0..(Capacity - 1) -> Item], head : 0..(Capacity - 1),
   tail : 0..(Capacity - 1), full : BOOLEAN]

\* A buffer of default-constructed items.
EmptyRing(item) ==
  [buffer |-> [i \in 0..(Capacity - 1) |-> item], head |-> 0, tail |-> 0,
   full |-> FALSE]

\* Mutant: the write index is not wrapped.
pushUnwrapped(rb, item) ==
  [buffer |-> [rb.buffer EXCEPT ![rb.head] = item], head |-> rb.head + 1,
   tail |-> rb.tail, full |-> rb.full \/ rb.head + 1 = Capacity]

push(rb, item) ==
  LET head == (rb.head + 1) % Capacity
      tail == IF rb.full THEN (rb.tail + 1) % Capacity ELSE rb.tail
  IN  [buffer |-> [rb.buffer EXCEPT ![rb.head] = item],
       head |-> head, tail |-> tail, full |-> rb.full \/ head = tail]

size(rb) ==
  IF rb.full THEN Capacity
  ELSE IF rb.head >= rb.tail THEN rb.head - rb.tail
  ELSE Capacity + rb.head - rb.tail

Smaller(m, n) == IF m <= n THEN m ELSE n

\* Mutant: one slot too far back.
last_nShifted(rb, n) ==
  LET to_fetch == Smaller(n, size(rb))
  IN  [i \in 1..to_fetch |->
         rb.buffer[(rb.head + Capacity - to_fetch + i) % Capacity]]

\* The latest n items, oldest first.
last_n(rb, n) ==
  LET to_fetch == Smaller(n, size(rb))
  IN  [i \in 1..to_fetch |->
         rb.buffer[(rb.head + Capacity - to_fetch + (i - 1)) % Capacity]]
=============================================================================
