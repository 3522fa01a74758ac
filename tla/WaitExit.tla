------------------------------ MODULE WaitExit ------------------------------
(***************************************************************************)
(* The life of a process: pid allocation, do_fork(), do_exit() with        *)
(* reparent(), and sys_wait4() (kernel/process/proc.c, kernel/sys/         *)
(* sysproc.c), at the granularity of its two kinds of spin lock: wait_lock *)
(* and the pcblock of every process.                                       *)
(*                                                                         *)
(* The scheduler is reduced to what these functions see of it (module      *)
(* Sched shows that this is what it does): a ready process is dispatched   *)
(* holding its own pcblock, and the pcblock a process holds when it calls  *)
(* sched() is released once it is off its stack.  A lock is named by the   *)
(* process whose kernel thread owns it; 0 means free.                      *)
(***************************************************************************)
EXTENDS Integers, Sequences, FiniteSets

CONSTANTS
    NPROC,          \* size of pcbtable
    WaitPids,       \* the pids programs pass to wait4(), besides -1
    StatusFaults    \* may the status address of wait4() be unmapped?

ASSUME WaitExitAssumption ==
    /\ NPROC \in Nat /\ NPROC > 2
    /\ WaitPids \subseteq 1 .. (NPROC - 1)
    /\ StatusFaults \subseteq BOOLEAN

Pids == 1 .. (NPROC - 1)
InitPid == 1        \* INIT_PROC; pid 0 is FIRST_PROC, the parent of init

VARIABLES
    st,         \* proc_t.state, "NULL" when pcbtable[pid] == NULL
    pc,         \* where the kernel thread of each process is
    parent,     \* proc_t.parentpid
    children,   \* proc_t.child_list, front first
    waitlist,   \* proc_t.wait_list: who waits for this process by pid
    w4child,    \* proc_t.w4child
    plock,      \* owner of each pcblock
    wlock,      \* owner of wait_lock
    pidq,       \* pids_queue, front first
    tgt,        \* childproc, childp or target_pid of the running function
    num         \* do_exit()'s count of waiters it woke; the position
                \* sys_wait4()'s scan has reached in child_list

vars == <<st, pc, parent, children, waitlist, w4child, plock, wlock, pidq,
          tgt, num>>

Init ==
    /\ st       = [p \in Pids |-> IF p = InitPid THEN "READY" ELSE "NULL"]
    /\ pc       = [p \in Pids |-> "resume"]
    /\ parent   = [p \in Pids |-> 0]
    /\ children = [p \in Pids |-> <<>>]
    /\ waitlist = [p \in Pids |-> {}]
    /\ w4child  = [p \in Pids |-> FALSE]
    /\ plock    = [p \in Pids |-> 0]
    /\ wlock    = 0
    /\ pidq     = [i \in 1 .. (NPROC - 2) |-> i + 1]
    /\ tgt      = [p \in Pids |-> 0]
    /\ num      = [p \in Pids |-> 0]

-----------------------------------------------------------------------------
At(p, l)   == st[p] \in {"RUNNING", "ZOMBIE"} /\ pc[p] = l
Goto(p, l) == pc' = [pc EXCEPT ![p] = l]
Lock(q, p) == plock[q] = 0 /\ plock' = [plock EXCEPT ![q] = p]
Unlock(q)  == plock' = [plock EXCEPT ![q] = 0]

(* The locals of a function are dead when it returns.                      *)
Forget(p)  == tgt' = [tgt EXCEPT ![p] = 0] /\ num' = [num EXCEPT ![p] = 0]

(* scheduler(): a ready process runs, holding its own lock.                *)
Dispatch(p) ==
    /\ st[p] = "READY" /\ Lock(p, p)
    /\ st' = [st EXCEPT ![p] = "RUNNING"]
    /\ UNCHANGED <<pc, parent, children, waitlist, w4child, wlock, pidq, tgt, num>>

(* scheduler(): the hart is off the stack of p, which called sched().      *)
Descheduled(p) ==
    /\ st[p] \in {"BLOCK", "ZOMBIE"} /\ pc[p] \in {"wt_off", "ws_off", "dead"}
    /\ plock[p] = p
    /\ Unlock(p)
    /\ UNCHANGED <<st, pc, parent, children, waitlist, w4child, wlock, pidq,
                   tgt, num>>

(* A node of child_list is part of the child's pcb; 0 stands for a node in *)
(* a page that was freed.  What an operation on such a list does is        *)
(* undefined and not modelled (NoDanglingChild, below).                    *)
Intact(p) == \A i \in 1 .. Len(children[p]) : children[p][i] # 0

(* forkret(): the first thing a new process does.                          *)
Forkret(p) ==
    /\ At(p, "resume") /\ Unlock(p) /\ Goto(p, "user")
    /\ UNCHANGED <<st, parent, children, waitlist, w4child, wlock, pidq, tgt, num>>

-----------------------------------------------------------------------------
(* do_fork()                                                               *)

(* allocpid(): -1, and -1 from fork, when the queue is empty.              *)
ForkAllocpid(p) ==
    /\ At(p, "user") /\ pidq # <<>>
    /\ tgt'  = [tgt EXCEPT ![p] = Head(pidq)]
    /\ pidq' = Tail(pidq)
    /\ Goto(p, "fk_lock")
    /\ UNCHANGED <<st, parent, children, waitlist, w4child, plock, wlock, num>>

(* allocproc(): the new entry is filled in under its own lock.             *)
ForkAllocproc(p) ==
    LET c == tgt[p] IN
    /\ At(p, "fk_lock") /\ Lock(c, p)
    /\ st'       = [st EXCEPT ![c] = "INITING"]
    /\ pc'       = [pc EXCEPT ![c] = "resume", ![p] = "fk_link"]
    /\ w4child'  = [w4child EXCEPT ![c] = FALSE]
    /\ children' = [children EXCEPT ![c] = <<>>]
    /\ waitlist' = [waitlist EXCEPT ![c] = {}]
    /\ UNCHANGED <<parent, wlock, pidq, tgt, num>>

(* Under wait_lock: parentpid and the parent's child_list.                 *)
ForkLink(p) ==
    LET c == tgt[p] IN
    /\ At(p, "fk_link") /\ wlock = 0 /\ Intact(p)
    /\ parent'   = [parent EXCEPT ![c] = p]
    /\ children' = [children EXCEPT ![p] = <<c>> \o @]
    /\ Goto(p, "fk_ready")
    /\ UNCHANGED <<st, waitlist, w4child, plock, wlock, pidq, tgt, num>>

ForkReady(p) ==
    LET c == tgt[p] IN
    /\ At(p, "fk_ready")
    /\ st' = [st EXCEPT ![c] = "READY"]
    /\ Unlock(c)
    /\ Goto(p, "user") /\ Forget(p)
    /\ UNCHANGED <<parent, children, waitlist, w4child, wlock, pidq>>

-----------------------------------------------------------------------------
(* do_exit(), with reparent() and proc_unblock_all()                       *)

(* do_exit() asserts that init never gets here.                            *)
ExitEnter(p) ==
    /\ At(p, "user") /\ p # InitPid
    /\ wlock = 0 /\ wlock' = p
    /\ num' = [num EXCEPT ![p] = 0]
    /\ Goto(p, "ex_repar")
    /\ UNCHANGED <<st, parent, children, waitlist, w4child, plock, pidq, tgt>>

(* Mutant: the children stay with the exiting process.                     *)
ReparentNone(p) ==
    /\ At(p, "ex_repar") /\ Goto(p, "ex_self")
    /\ UNCHANGED <<st, parent, children, waitlist, w4child, plock, wlock, pidq,
                   tgt, num>>

(* reparent(): take the next child off the list, then init's lock.         *)
ReparentNext(p) ==
    /\ At(p, "ex_repar") /\ Intact(p)
    /\ \/ /\ children[p] # <<>>
          /\ tgt'      = [tgt EXCEPT ![p] = Head(children[p])]
          /\ children' = [children EXCEPT ![p] = Tail(@)]
          /\ Goto(p, "ex_init")
       \/ /\ children[p] = <<>>
          /\ Goto(p, "ex_self")
          /\ UNCHANGED <<tgt, children>>
    /\ UNCHANGED <<st, parent, waitlist, w4child, plock, wlock, pidq, num>>

ReparentInit(p) ==
    /\ At(p, "ex_init") /\ Lock(InitPid, p)
    /\ Goto(p, "ex_child")
    /\ UNCHANGED <<st, parent, children, waitlist, w4child, wlock, pidq, tgt, num>>

(* Mutant: the child's parentpid still names the exiting process.          *)
ReparentChildKeep(p) ==
    LET c == tgt[p] IN
    /\ At(p, "ex_child") /\ plock[c] = 0
    /\ children' = [children EXCEPT ![InitPid] = <<c>> \o @]
    /\ st'       = IF w4child[InitPid]
                     THEN [st EXCEPT ![InitPid] = "READY"] ELSE st
    /\ Unlock(InitPid)
    /\ Goto(p, "ex_repar")
    /\ UNCHANGED <<parent, waitlist, w4child, wlock, pidq, tgt, num>>

(* Under both locks: the child becomes init's, and a waiting init ready.   *)
ReparentChild(p) ==
    LET c == tgt[p] IN
    /\ At(p, "ex_child") /\ plock[c] = 0 /\ Intact(InitPid)
    /\ children' = [children EXCEPT ![InitPid] = <<c>> \o @]
    /\ parent'   = [parent EXCEPT ![c] = InitPid]
    /\ st'       = IF w4child[InitPid]
                     THEN [st EXCEPT ![InitPid] = "READY"] ELSE st
    /\ Unlock(InitPid)
    /\ Goto(p, "ex_repar")
    /\ UNCHANGED <<waitlist, w4child, wlock, pidq, tgt, num>>

(* The process is a zombie from here on; its own lock stays held until it  *)
(* is off its stack.  freeproc() gives its files and memory back.          *)
ExitZombie(p) ==
    /\ At(p, "ex_self") /\ Lock(p, p)
    /\ st' = [st EXCEPT ![p] = "ZOMBIE"]
    /\ Goto(p, "ex_wake")
    /\ UNCHANGED <<parent, children, waitlist, w4child, wlock, pidq, tgt, num>>

(* proc_unblock_all(&p->wait_list).                                        *)
ExitUnblock(p) ==
    /\ At(p, "ex_wake")
    /\ \E q \in waitlist[p] :
         /\ plock[q] = 0
         /\ st'       = [st EXCEPT ![q] = "READY"]
         /\ waitlist' = [waitlist EXCEPT ![p] = @ \ {q}]
         /\ num'      = [num EXCEPT ![p] = @ + 1]
    /\ UNCHANGED <<pc, parent, children, w4child, plock, wlock, pidq, tgt>>

(* Nobody waited by pid: wake the parent if it is in wait().               *)
ExitWakeParent(p) ==
    LET q == parent[p] IN
    /\ At(p, "ex_wake") /\ waitlist[p] = {}
    /\ \/ /\ num[p] = 0 /\ plock[q] = 0
          /\ st' = IF w4child[q] THEN [st EXCEPT ![q] = "READY"] ELSE st
       \/ /\ num[p] > 0
          /\ UNCHANGED st
    /\ Goto(p, "ex_off")
    /\ UNCHANGED <<parent, children, waitlist, w4child, plock, wlock, pidq,
                   tgt, num>>

(* release(&wait_lock); sched().                                           *)
ExitSched(p) ==
    /\ At(p, "ex_off")
    /\ wlock' = 0
    /\ Goto(p, "dead") /\ Forget(p)
    /\ UNCHANGED <<st, parent, children, waitlist, w4child, plock, pidq>>

-----------------------------------------------------------------------------
(* sys_wait4(-1): programs call it as wait()                               *)

WaitEnter(p) ==
    /\ At(p, "user") \/ At(p, "wt_again")
    /\ wlock = 0 /\ wlock' = p
    /\ num' = [num EXCEPT ![p] = 1]
    /\ Goto(p, "wt_scan")
    /\ UNCHANGED <<st, parent, children, waitlist, w4child, plock, pidq, tgt>>

(* list_del(): the list without its node at position i.                    *)
list_del(s, i) == SubSeq(s, 1, i - 1) \o SubSeq(s, i + 1, Len(s))

(* Mutant: a child that is no zombie stays locked.                         *)
WaitScanKeep(p) ==
    LET c == children[p][num[p]] IN
    /\ At(p, "wt_scan") /\ num[p] <= Len(children[p])
    /\ Lock(c, p)
    /\ \/ /\ st[c] = "ZOMBIE"
          /\ children' = [children EXCEPT ![p] = list_del(@, num[p])]
          /\ tgt'      = [tgt EXCEPT ![p] = c]
          /\ Goto(p, "wt_killed")
          /\ UNCHANGED num
       \/ /\ st[c] # "ZOMBIE"
          /\ num' = [num EXCEPT ![p] = @ + 1]
          /\ UNCHANGED <<children, tgt, pc>>
    /\ UNCHANGED <<st, parent, waitlist, w4child, wlock, pidq>>

(* Look at the next child under its lock: a zombie is unlinked and stays   *)
(* locked; any other child is unlocked again.                              *)
WaitScan(p) ==
    LET c == children[p][num[p]] IN
    /\ At(p, "wt_scan") /\ Intact(p)
    /\ num[p] <= Len(children[p]) /\ plock[c] = 0
    /\ \/ /\ st[c] = "ZOMBIE"
          /\ plock'    = [plock EXCEPT ![c] = p]
          /\ children' = [children EXCEPT ![p] = list_del(@, num[p])]
          /\ tgt'      = [tgt EXCEPT ![p] = c]
          /\ Goto(p, "wt_killed")
          /\ UNCHANGED num
       \/ /\ st[c] # "ZOMBIE"
          /\ num' = [num EXCEPT ![p] = @ + 1]
          /\ UNCHANGED <<plock, children, tgt, pc>>
    /\ UNCHANGED <<st, parent, waitlist, w4child, wlock, pidq>>

(* killed(p) takes and gives back p's own lock.  p->killed is only ever    *)
(* set by p itself on its way to do_exit(), so it is not set here.         *)
WaitFound(p) ==
    /\ At(p, "wt_killed") /\ plock[p] = 0
    /\ Goto(p, "reap")
    /\ UNCHANGED <<st, parent, children, waitlist, w4child, plock, wlock, pidq,
                   tgt, num>>

(* Mutant: wait_lock is kept on the way out with -1.                       *)
WaitNoneKeep(p) ==
    /\ At(p, "wt_scan") /\ num[p] > Len(children[p])
    /\ \/ children[p] = <<>> /\ Goto(p, "user") /\ UNCHANGED wlock
       \/ children[p] # <<>> /\ plock[p] = 0 /\ Goto(p, "wt_sleep") /\ wlock' = 0
    /\ UNCHANGED <<st, parent, children, waitlist, w4child, plock, pidq, tgt, num>>

(* The list is exhausted: return -1 without children, else go to sleep.    *)
WaitNone(p) ==
    /\ At(p, "wt_scan") /\ num[p] > Len(children[p])
    /\ wlock' = 0
    /\ \/ children[p] = <<>> /\ Goto(p, "user")
       \/ children[p] # <<>> /\ plock[p] = 0 /\ Goto(p, "wt_sleep")
    /\ Forget(p)
    /\ UNCHANGED <<st, parent, children, waitlist, w4child, plock, pidq>>

(* acquire(&pcblock[p->pid]); w4child = 1; TASK_BLOCK; sched().            *)
WaitSleep(p) ==
    /\ At(p, "wt_sleep") /\ Lock(p, p)
    /\ w4child' = [w4child EXCEPT ![p] = TRUE]
    /\ st'      = [st EXCEPT ![p] = "BLOCK"]
    /\ Goto(p, "wt_off")
    /\ UNCHANGED <<parent, children, waitlist, wlock, pidq, tgt, num>>

(* Mutant: w4child is left set.                                            *)
WaitResumeKeep(p) ==
    /\ At(p, "wt_off")
    /\ Unlock(p)
    /\ Goto(p, "wt_again")
    /\ UNCHANGED <<st, parent, children, waitlist, w4child, wlock, pidq, tgt, num>>

(* sched() returned: w4child = 0, release, and scan again.                 *)
WaitResume(p) ==
    /\ At(p, "wt_off")
    /\ w4child' = [w4child EXCEPT ![p] = FALSE]
    /\ Unlock(p)
    /\ Goto(p, "wt_again")
    /\ UNCHANGED <<st, parent, children, waitlist, wlock, pidq, tgt, num>>

-----------------------------------------------------------------------------
(* sys_wait4(pid), with proc_block() on the target's wait_list             *)

WaitPidEnter(p) ==
    /\ At(p, "user")
    /\ \E t \in WaitPids \ {p} :
         /\ plock[t] = 0
         /\ \/ st[t] = "NULL" /\ UNCHANGED <<tgt, plock, pc>>
            \/ /\ st[t] # "NULL"
               /\ plock' = [plock EXCEPT ![t] = p]
               /\ tgt'   = [tgt EXCEPT ![p] = t]
               /\ Goto(p, "ws_test")
    /\ UNCHANGED <<st, parent, children, waitlist, w4child, wlock, pidq, num>>

(* while (target_p->state != TASK_ZOMBIE) proc_block(...).                 *)
WaitPidBlock(p) ==
    LET t == tgt[p] IN
    /\ At(p, "ws_test") /\ st[t] # "ZOMBIE"
    /\ plock[p] = 0
    /\ waitlist' = [waitlist EXCEPT ![t] = @ \cup {p}]
    /\ st'       = [st EXCEPT ![p] = "BLOCK"]
    /\ plock'    = [plock EXCEPT ![p] = p, ![t] = 0]
    /\ Goto(p, "ws_off")
    /\ UNCHANGED <<parent, children, w4child, wlock, pidq, tgt, num>>

WaitPidResume(p) ==
    /\ At(p, "ws_off") /\ Unlock(p) /\ Goto(p, "ws_relk")
    /\ UNCHANGED <<st, parent, children, waitlist, w4child, wlock, pidq, tgt, num>>

(* proc_block() takes the target's lock again.                             *)
WaitPidRelock(p) ==
    /\ At(p, "ws_relk") /\ Lock(tgt[p], p) /\ Goto(p, "ws_test")
    /\ UNCHANGED <<st, parent, children, waitlist, w4child, wlock, pidq, tgt, num>>

(* acquire(&wait_lock), with the target's lock held.                       *)
WaitPidFound(p) ==
    /\ At(p, "ws_test") /\ st[tgt[p]] = "ZOMBIE"
    /\ wlock = 0 /\ wlock' = p
    /\ Goto(p, "reap")
    /\ UNCHANGED <<st, parent, children, waitlist, w4child, plock, pidq, tgt, num>>

-----------------------------------------------------------------------------
(* The end of sys_wait4()                                                  *)

(* Those who still hold a pointer to t's freed page: woken from its        *)
(* wait_list, and not yet run.  What they do next is undefined and not     *)
(* modelled ("ws_stale").                                                  *)
WithStale(t, q) ==
    IF q # t /\ pc[q] \in {"ws_off", "ws_relk"} /\ tgt[q] = t
      THEN "ws_stale" ELSE pc[q]

(* verify_area() failed: the target is left as it is.  Otherwise its pid   *)
(* goes back to the queue, where another fork may take it at once ...      *)
Reap(p) ==
    LET t == tgt[p] IN
    /\ At(p, "reap")
    /\ \E fault \in StatusFaults :
         \/ /\ fault /\ wlock' = 0 /\ Unlock(t)
            /\ Goto(p, "user") /\ Forget(p) /\ UNCHANGED pidq
         \/ /\ ~fault
            /\ pidq' = Append(pidq, t)
            /\ Goto(p, "reap_clr") /\ UNCHANGED <<wlock, plock, tgt, num>>
    /\ UNCHANGED <<st, parent, children, waitlist, w4child>>

(* Mutant: the locks are released before pcbtable[target_pid] is cleared.  *)
ReapClearUnlocked(p) ==
    LET t == tgt[p] IN
    /\ At(p, "reap_clr")
    /\ \/ plock[t] = p /\ wlock' = 0 /\ Unlock(t) /\ UNCHANGED <<st, pc>>
       \/ /\ plock[t] # p
          /\ st' = [st EXCEPT ![t] = "NULL"]
          /\ Goto(p, "user")
          /\ UNCHANGED <<wlock, plock>>
    /\ UNCHANGED <<parent, children, waitlist, w4child, pidq, tgt, num>>

(* ... but only gets to the pcb when this is done with it.                 *)
ReapClear(p) ==
    LET t == tgt[p] IN
    /\ At(p, "reap_clr")
    /\ st' = [st EXCEPT ![t] = "NULL"]
    /\ pc' = [q \in Pids |-> IF q = p THEN "user" ELSE WithStale(t, q)]
    /\ children' = [q \in Pids |-> [i \in DOMAIN children[q] |->
                      IF children[q][i] = t THEN 0 ELSE children[q][i]]]
    /\ wlock' = 0 /\ Unlock(t)
    /\ Forget(p)
    /\ UNCHANGED <<parent, waitlist, w4child, pidq>>

-----------------------------------------------------------------------------
(* What a process does without choosing to: it is in the kernel.           *)
KernelStep(p) ==
    \/ Dispatch(p) \/ Descheduled(p) \/ Forkret(p)
    \/ ForkAllocproc(p) \/ ForkLink(p) \/ ForkReady(p)
    \/ ReparentNext(p) \/ ReparentInit(p) \/ ReparentChild(p)
    \/ ExitZombie(p) \/ ExitUnblock(p) \/ ExitWakeParent(p) \/ ExitSched(p)
    \/ (pc[p] = "wt_again" /\ WaitEnter(p))
    \/ WaitScan(p) \/ WaitFound(p) \/ WaitNone(p) \/ WaitSleep(p) \/ WaitResume(p)
    \/ WaitPidBlock(p) \/ WaitPidResume(p) \/ WaitPidRelock(p) \/ WaitPidFound(p)
    \/ Reap(p) \/ ReapClear(p)

Next == \E p \in Pids : \/ KernelStep(p)
                        \/ ForkAllocpid(p) \/ ExitEnter(p)
                        \/ (pc[p] = "user" /\ WaitEnter(p)) \/ WaitPidEnter(p)

Spec == Init /\ [][Next]_vars

(* A process in the kernel goes on, and a lock that keeps being released   *)
(* is eventually obtained by one that spins on it; what a program does in  *)
(* user mode is its own choice.                                            *)
FairSpec == Spec /\ \A p \in Pids : SF_vars(KernelStep(p))
-----------------------------------------------------------------------------
(* Properties                                                              *)

PCs == {"resume", "user", "fk_lock", "fk_link", "fk_ready", "ex_repar",
        "ex_init", "ex_child", "ex_self", "ex_wake", "ex_off", "dead",
        "wt_scan", "wt_killed", "wt_sleep", "wt_off", "wt_again", "ws_test",
        "ws_off", "ws_relk", "ws_stale", "reap", "reap_clr"}

(* Types of the process table, of the locks and of the calls.              *)
TypeOK ==
    /\ st \in [Pids -> {"NULL", "INITING", "READY", "RUNNING", "BLOCK", "ZOMBIE"}]
    /\ pc \in [Pids -> PCs]
    /\ parent   \in [Pids -> Pids \cup {0}]
    /\ children \in [Pids -> Seq(Pids \cup {0})]
    /\ waitlist \in [Pids -> SUBSET Pids]
    /\ w4child  \in [Pids -> BOOLEAN]
    /\ plock    \in [Pids -> Pids \cup {0}]
    /\ wlock    \in Pids \cup {0}
    /\ pidq     \in Seq(Pids)
    /\ tgt      \in [Pids -> Pids \cup {0}]
    /\ num      \in [Pids -> Nat]

(* A pid is in pids_queue at most once, and a pid there, or on its way     *)
(* from allocpid() to its pcb, names no process: allocproc() never         *)
(* overwrites a pcb in use, although freepid() runs before the pcb of the  *)
(* reaped process is cleared and a fork may take the pid in between.       *)
PidUnique ==
    /\ \A i, j \in 1 .. Len(pidq) : i # j => pidq[i] # pidq[j]
    /\ \A p \in Pids : pc[p] = "fk_lock" =>
         /\ \A i \in 1 .. Len(pidq) : pidq[i] # tgt[p]
         /\ plock[tgt[p]] = 0 => st[tgt[p]] = "NULL"

(* No pid is lost: one that names no process can be allocated again.       *)
PidKept ==
    \A c \in Pids : st[c] = "NULL" =>
       \/ \E i \in 1 .. Len(pidq) : pidq[i] = c
       \/ \E p \in Pids : pc[p] = "fk_lock" /\ tgt[p] = c

(* Pids are conserved: each is free, being given out, or in use, and only  *)
(* one of these.                                                           *)
PidPool == PidUnique /\ PidKept

(* Every node of a child_list belongs to a living pcb that names the owner *)
(* of the list as its parent: what sys_wait4() and reparent() assert of    *)
(* each node they visit.                                                   *)
NoDanglingChild ==
    \A p \in Pids : \A i \in 1 .. Len(children[p]) :
       /\ children[p][i] # 0
       /\ pc[p] # "ex_child" => parent[children[p][i]] = p

(* Whenever wait_lock is free, every process but init is on the list of a  *)
(* parent that has not exited: whoever exits can be found by a wait().     *)
EveryChildListed ==
    wlock = 0 => \A c \in Pids \ {InitPid} :
       st[c] \notin {"NULL", "INITING"} =>
          LET q == parent[c] IN
          /\ \E i \in 1 .. Len(children[q]) : children[q][i] = c
          /\ st[q] \notin {"NULL", "ZOMBIE"}

(* The lists of children and the parent pointers agree, through forks,     *)
(* exits that hand children to init, and reaping.                          *)
ChildLists == NoDanglingChild /\ EveryChildListed

(* A process with w4child set is off its stack, blocked or made ready by   *)
(* an earlier child: setting it ready never touches a running process.     *)
W4childAsleep ==
    \A q \in Pids : w4child[q] /\ plock[q] = 0 => st[q] \in {"BLOCK", "READY"}

(* The assertion of proc_unblock_all() in do_exit(): a process on the      *)
(* wait_list of an exiting process is blocked.                             *)
WaitersBlocked ==
    \A p \in Pids : At(p, "ex_wake") =>
       \A q \in waitlist[p] : plock[q] = 0 => st[q] = "BLOCK" /\ q # p

(* Whoever an exit makes ready is off its stack.                           *)
WokenAreAsleep == W4childAsleep /\ WaitersBlocked

(* The owner of the spin lock the kernel thread of p spins on, 0 if none.  *)
Awaits(p) ==
    IF st[p] \notin {"RUNNING", "ZOMBIE"} THEN 0 ELSE
    CASE pc[p] \in {"fk_lock", "ex_child", "ws_relk"} -> plock[tgt[p]]
      [] pc[p] \in {"fk_link", "wt_again"} -> wlock
      [] pc[p] = "ex_init" -> plock[InitPid]
      [] pc[p] \in {"ex_self", "wt_sleep", "wt_killed"} -> plock[p]
      [] pc[p] = "ws_test" -> IF st[tgt[p]] = "ZOMBIE" THEN wlock ELSE plock[p]
      [] pc[p] = "ex_wake" /\ waitlist[p] = {} /\ num[p] = 0 -> plock[parent[p]]
      [] pc[p] = "wt_scan" /\ num[p] <= Len(children[p]) /\ Intact(p) ->
           plock[children[p][num[p]]]
      [] OTHER -> 0

(* No set of processes waits for each other's wait_lock and pcblocks (nor  *)
(* one process for its own): what the order "wait_lock before any p->lock" *)
(* is there to guarantee.                                                  *)
LockCycleFree ==
    \A S \in (SUBSET Pids) \ {{}} : \E p \in S : Awaits(p) \notin S

(* fork() and exit() come to their end: every lock they wait for is given  *)
(* back however they interleave with other forks, exits and waits.         *)
CallsComplete ==
    \A p \in Pids : (pc[p] \in {"fk_lock", "ex_repar"}) ~> (pc[p] \in {"user", "dead"})

(* What the comment on wait_lock says: wake-ups of wait()ing parents are   *)
(* not lost.  It is not an invariant: sys_wait4(-1) gives up wait_lock     *)
(* before it sets w4child (see the README), so no run lists it.            *)
NoLostExit ==
    \A p \in Pids : (st[p] = "BLOCK" /\ pc[p] = "wt_off" /\ wlock = 0) =>
       \A i \in 1 .. Len(children[p]) : st[children[p][i]] # "ZOMBIE"

(* The comment on do_exit(): an exited process remains a zombie until its  *)
(* parent calls waitpid().  The pcb of a zombie is cleared by its parent.  *)
ReapedByParent ==
    [][\A c \in Pids : (st[c] = "ZOMBIE" /\ st'[c] = "NULL") =>
                           plock[c] = parent[c]]_vars
=============================================================================
