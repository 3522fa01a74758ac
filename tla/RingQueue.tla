----------------------------- MODULE RingQueue -----------------------------
(***************************************************************************)
(* The ring queue of libs/queue.c, as operators on a queue_meta_t record.  *)
(* queue_tail starts at -1, and queue_back_pop() may leave it at the       *)
(* capacity, one past the last slot.                                       *)
(***************************************************************************)
EXTENDS Integers, Sequences

queue_init(capacity, blank) ==
    [head |-> 0, tail |-> 0 - 1, size |-> 0, capacity |-> capacity,
     array |-> [i \in 0 .. capacity - 1 |-> blank]]

queue_empty(q) == q.size = 0

queue_full(q) == q.size = q.capacity

(* An index of the ring that has just passed the capacity is folded back.  *)
Folded(q, i) == IF i >= q.capacity THEN i - q.capacity ELSE i

queue_front(q) == q.array[q.head]

queue_push(q, c) ==
    LET t == Folded(q, q.tail + 1) IN
    [q EXCEPT !.tail = t, !.array[t] = c, !.size = @ + 1]

queue_front_pop(q) ==
    [q EXCEPT !.head = Folded(q, @ + 1), !.size = @ - 1]

(* Mutant: the wrapped tail is one too low.                                *)
queue_back_popLow(q) ==
    [q EXCEPT !.tail = IF @ - 1 <= 0 THEN @ + q.capacity - 2 ELSE @ - 1, !.size = @ - 1]

queue_back_pop(q) ==
    [q EXCEPT !.tail = IF @ - 1 <= 0 THEN @ - 1 + q.capacity ELSE @ - 1,
              !.size = @ - 1]

(* The elements of a queue, oldest first.                                  *)
Elements(q) == [i \in 1 .. q.size |-> q.array[(q.head + i - 1) % q.capacity]]
=============================================================================
