------------------------------ MODULE MinQueue ------------------------------
(***************************************************************************)
(* What libs/priority_queue.c promises to the sleep queue: a collection of *)
(* <<key, value>> pairs from which the least one is taken first.           *)
(***************************************************************************)
EXTENDS Naturals

CONSTANTS Keys, Values

VARIABLES
    queue,      \* the pairs in the collection
    done        \* the last call and what it was given or gave back

(* __pair_less_than *)
Less(e, f) == e[1] < f[1] \/ (e[1] = f[1] /\ e[2] < f[2])

Init == queue = {} /\ done = <<"init">>

Push(e) == /\ e \notin queue
           /\ queue' = queue \cup {e}
           /\ done' = <<"push", e>>

PopLeast == \E e \in queue : /\ \A f \in queue \ {e} : Less(e, f)
                             /\ queue' = queue \ {e}
                             /\ done' = <<"pop", e>>

(* The entries of value v are dropped, or left: pop_v() does not look at   *)
(* the last slot of the array.                                             *)
Drop(v) == /\ queue' \in {queue, {e \in queue : e[2] # v}}
           /\ done' = <<"pop_v", v>>

Next == \/ \E e \in Keys \X Values : Push(e)
        \/ PopLeast
        \/ \E v \in Values : Drop(v)

Spec == Init /\ [][Next]_<<queue, done>>
=============================================================================
