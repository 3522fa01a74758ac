--------------------------- MODULE PrivateMemory ---------------------------
(***************************************************************************)
(* What copy-on-write promises to programs: every process has memory of    *)
(* its own.  fork() copies it, exec() replaces it, and a store is seen by  *)
(* nobody else.  A page that was never touched is absent; the first touch  *)
(* of a page of a file shows the file, that of any other page anything.    *)
(***************************************************************************)
CONSTANTS Procs, VPages, Text, Stack, Vals, FileVal, Absent

VARIABLES
    alive,      \* processes that run
    mem         \* the contents of each page of each process

vars == <<alive, mem>>

Empty == [v \in VPages |-> Absent]

Init == /\ \E p \in Procs : alive = {p}
        /\ mem = [p \in Procs |-> Empty]

Touch(p) ==
    \E v \in VPages, x \in Vals :
       /\ p \in alive /\ mem[p][v] = Absent
       /\ v \in Text => x = FileVal
       /\ mem' = [mem EXCEPT ![p][v] = x]
       /\ UNCHANGED alive

Store(p) ==
    \E v \in VPages \ Text, x \in Vals :
       /\ p \in alive /\ mem[p][v] # Absent
       /\ mem' = [mem EXCEPT ![p][v] = x]
       /\ UNCHANGED alive

Fork(p, c) ==
    /\ p \in alive /\ c \notin alive
    /\ alive' = alive \cup {c}
    /\ mem' = [mem EXCEPT ![c] = mem[p]]

Exec(p) ==
    \E x \in Vals :
       /\ p \in alive
       /\ mem' = [mem EXCEPT ![p] = [Empty EXCEPT ![Stack] = x]]
       /\ UNCHANGED alive

Exit(p) ==
    /\ p \in alive
    /\ alive' = alive \ {p}
    /\ mem' = [mem EXCEPT ![p] = Empty]

Next == \E p \in Procs :
          \/ Touch(p) \/ Store(p) \/ Exec(p) \/ Exit(p)
          \/ \E c \in Procs : Fork(p, c)

Spec == Init /\ [][Next]_vars
=============================================================================
