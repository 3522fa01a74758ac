--------------------------- MODULE PriorityQueue ---------------------------
(***************************************************************************)
(* The binary heap of libs/priority_queue.c, as the sleep queue uses it:   *)
(* an array of NPROC slots of which slots 1 .. size hold the heap.  Slots  *)
(* above size keep what was last written there, and down() may read one.   *)
(***************************************************************************)
EXTENDS Naturals

CONSTANTS
    NPROC,      \* slots of sleep_queue_array, and the queue's capacity
    Keys        \* wake-up ticks

ASSUME PriorityQueueAssumption ==
    /\ NPROC \in Nat /\ NPROC > 1
    /\ Keys \subseteq Nat

Values == 1 .. (NPROC - 1)      \* the pids of processes that may sleep

VARIABLES
    heap,       \* priority_queue_heap
    size,       \* priority_queue_size
    done        \* the last call and what it was given or gave back

vars == <<heap, size, done>>

Init == /\ heap = [i \in 0 .. (NPROC - 1) |-> <<0, 0>>]
        /\ size = 0
        /\ done = <<"init">>

(* __pair_less_than *)
Less(e, f) == e[1] < f[1] \/ (e[1] = f[1] /\ e[2] < f[2])

Swap(h, i, j) == [h EXCEPT ![i] = h[j], ![j] = h[i]]

RECURSIVE Up(_, _)
Up(h, i) ==
    IF i \div 2 # 0 /\ Less(h[i], h[i \div 2])
      THEN Up(Swap(h, i, i \div 2), i \div 2) ELSE h

(* Mutant: the right child is never looked at.                             *)
ChildLeft(h, i, n) == 2 * i

(* The child down() compares with: it looks at the right one whenever      *)
(* i < n, also when that is the slot above the heap.                       *)
Child(h, i, n) ==
    IF i < n /\ Less(h[2 * i + 1], h[2 * i]) THEN 2 * i + 1 ELSE 2 * i

RECURSIVE Down(_, _, _)
Down(h, i, n) ==
    IF 2 * i > n THEN h ELSE
    LET c == Child(h, i, n) IN
    IF Less(h[c], h[i]) THEN Down(Swap(h, c, i), c, n) ELSE h

Entries == {heap[i] : i \in 1 .. size}

(* sys_msleep() pushes a process that is not in the queue.                 *)
Push(e) ==
    /\ \A f \in Entries : f[2] # e[2]
    /\ size < NPROC
    /\ heap' = Up([heap EXCEPT ![size + 1] = e], size + 1)
    /\ size' = size + 1
    /\ done' = <<"push", e>>

(* top(), then pop(): the timer handler wakes the process it read.         *)
Pop ==
    /\ size # 0
    /\ done' = <<"pop", heap[1]>>
    /\ heap' = Down([heap EXCEPT ![1] = heap[size]], 1, size - 1)
    /\ size' = size - 1

(* The loops of pop_v: slot i is filled from the last one as long as it    *)
(* holds v; the outer loop never looks at the last slot itself.            *)
RECURSIVE FillSlot(_, _, _, _)
FillSlot(h, n, i, v) ==
    IF h[i][2] # v THEN <<h, n>>
    ELSE FillSlot(Down(Up([h EXCEPT ![i] = h[n]], i), i, n - 1), n - 1, i, v)

RECURSIVE PopFrom(_, _, _, _)
PopFrom(h, n, i, v) ==
    IF i >= n THEN <<h, n>>
    ELSE LET r == FillSlot(h, n, i, v) IN PopFrom(r[1], r[2], i + 1, v)

PopV(v) ==
    LET r == PopFrom(heap, size, 1, v) IN
    /\ heap' = r[1]
    /\ size' = r[2]
    /\ done' = <<"pop_v", v>>

Next == \/ \E e \in Keys \X Values : Push(e)
        \/ Pop
        \/ \E v \in Values : PopV(v)

Spec == Init /\ [][Next]_vars
-----------------------------------------------------------------------------
(* The array behaves as the collection its callers think of: push adds one *)
(* entry, top and pop give and take the least after any sequence of calls  *)
(* and whatever the slot above the heap holds, pop_v takes no other        *)
(* process's entry, and no call loses or duplicates one.                   *)
MQ == INSTANCE MinQueue WITH queue <- Entries
IsMinQueue == MQ!Spec
=============================================================================
