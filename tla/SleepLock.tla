----------------------------- MODULE SleepLock -----------------------------
(***************************************************************************)
(* What kernel/sync/mutex.c promises to the code that uses it (ilock, the  *)
(* block cache, file_close): a lock with at most one holder, taken only by *)
(* a process that asked for it, given back only by its holder, and never   *)
(* left free while somebody wants it.                                      *)
(***************************************************************************)
CONSTANTS Procs, None

VARIABLES
    holder,     \* the process in its critical section, or None
    want        \* the processes inside mutex_acquire()

Init == holder = None /\ want = {}

(* mutex_acquire() is called. *)
Ask(p) == p \notin want /\ holder # p /\ want' = want \cup {p} /\ UNCHANGED holder

(* mutex_acquire() returns. *)
Take(p) == p \in want /\ holder = None /\ holder' = p /\ want' = want \ {p}

(* mutex_release(). *)
Give(p) == holder = p /\ holder' = None /\ UNCHANGED want

Next == \E p \in Procs : Ask(p) \/ Take(p) \/ Give(p)

Spec == Init /\ [][Next]_<<holder, want>>

(* Somebody who wants the free lock gets it; not every waiter need.        *)
FairSpec == Spec /\ WF_<<holder, want>>(\E p \in Procs : Take(p))
=============================================================================
