------------------------------- MODULE Sched -------------------------------
(***************************************************************************)
(* Harts, the per-hart scheduler loop, context switches, blocking and      *)
(* waking of processes (kernel/process/proc.c), the sleeping lock built on *)
(* them (kernel/sync/mutex.c), timed sleep (sys_msleep) and the timer      *)
(* interrupt that ends it (kernel/device/clock.c, proc.c:time_wakeup).     *)
(*                                                                         *)
(* One step is one acquisition or release of a spin lock, or one switch_to *)
(* between two kernel stacks.  What the code does while it holds the lock  *)
(* that protects the data it touches is part of the step that takes it.    *)
(* A spin lock is the hart that owns it (lk->cpu); a hart that owns one    *)
(* has its interrupts off (push_off), so it takes no timer interrupt.      *)
(***************************************************************************)
EXTENDS Naturals, FiniteSets

CONSTANTS
    NPROC,      \* size of pcbtable; pid 0 is the idle process of every hart
    Harts,      \* the harts
    BootHart,   \* the hart that counts ticks (boothartid)
    NoHart,     \* "no hart owns this lock" (lk->cpu == -1)
    Priority,   \* time slices of a process (proc_t.priority)
    MaxTicks,   \* bound: the clock stops counting here
    MaxSleep,   \* bound: longest msleep, in ticks
    Calls       \* which system calls user programs make

ASSUME SchedAssumption ==
    /\ NPROC \in Nat /\ NPROC > 1
    /\ BootHart \in Harts
    /\ NoHart \notin Harts
    /\ Priority \in Nat /\ Priority > 0
    /\ MaxTicks \in Nat
    /\ MaxSleep \in Nat
    /\ Calls \subseteq {"mutex", "msleep"}

Pids == 1 .. (NPROC - 1)

VARIABLES
    state,      \* proc_t.state of each process
    slice,      \* proc_t.ticks: remaining time slices
    pc,         \* where each process's kernel thread is
    ctx,        \* where each hart's scheduler() is; "proc": switched away
    scan,       \* scheduler()'s loop index i
    cproc,      \* cpu_t.proc of each hart; 0 is FIRST_PROC
    pcblock,    \* owner of each pcblock[pid]
    mlk,        \* owner of mutex_t.lk
    locked,     \* mutex_t.locked
    mpid,       \* mutex_t.pid
    waiters,    \* the processes on mutex_t.waiters
    waking,     \* proc_unblock_all's p, 0 when it has none in hand
    slk,        \* owner of sleep_queue.sleep_lock
    sleepq,     \* sleep_queue.pqm: the set of <<wake-up tick, pid>> pairs
    ticks,      \* the global tick counter
    ih          \* the timer interrupt handler running on each hart

procVars  == <<state, slice, pc>>
hartVars  == <<ctx, scan, cproc>>
mutexVars == <<mlk, locked, mpid, waiters, waking>>
sleepVars == <<slk, sleepq, ticks>>
vars == <<procVars, hartVars, pcblock, mutexVars, sleepVars, ih>>

Owners == Harts \cup {NoHart}

(* The points at which the scheduler may switch to a process: it resumes   *)
(* there holding its own pcblock.                                          *)
OffHart == {"forkret", "yl_ret", "pb_ret", "ms_ret"}

(* The points at which a process has called sched().                       *)
AtSched == {"yl_sched", "pb_sched", "ms_sched"}

PCs == OffHart \cup AtSched \cup
       {"user", "ma_acq", "ma_test", "pb_acq", "pb_rel", "pb_relk", "cs",
        "mr_acq", "mr_wake", "mr_plk", "ms_acq", "ms_plk", "ms_rel", "tail"}

Init ==
    /\ state   = [p \in Pids |-> "READY"]
    /\ slice   = [p \in Pids |-> Priority]
    /\ pc      = [p \in Pids |-> "forkret"]
    /\ ctx     = [h \in Harts |-> "scan"]
    /\ scan    = [h \in Harts |-> 1]
    /\ cproc   = [h \in Harts |-> 0]
    /\ pcblock = [p \in Pids |-> NoHart]
    /\ mlk = NoHart /\ locked = FALSE /\ mpid = 0 /\ waiters = {}
    /\ waking  = [p \in Pids |-> 0]
    /\ slk = NoHart /\ sleepq = {} /\ ticks = 0
    /\ ih      = [h \in Harts |-> "none"]

-----------------------------------------------------------------------------
(* Hart h executes the kernel thread of process cproc[h], at point l.      *)
On(h, l) == ctx[h] = "proc" /\ ih[h] = "none" /\ pc[cproc[h]] = l

Goto(h, l) == pc' = [pc EXCEPT ![cproc[h]] = l]

(* acquire()/release() of a pcblock (spinlock.c).                          *)
LockPcb(h, p)   == pcblock[p] = NoHart /\ pcblock' = [pcblock EXCEPT ![p] = h]
UnlockPcb(p)    == pcblock' = [pcblock EXCEPT ![p] = NoHart]

(* The spin locks hart h owns; push_off counts them in cpu_t.repeat.       *)
OwnsNone(h) == mlk # h /\ slk # h /\ \A p \in Pids : pcblock[p] # h

(* Mutant: the scan stops one entry early.                                 *)
NextIdxShort(i) == IF i >= NPROC - 2 THEN 1 ELSE i + 1

(* scheduler()'s loop index after entry i.                                 *)
NextIdx(i) == IF i = NPROC - 1 THEN 1 ELSE i + 1

-----------------------------------------------------------------------------
(* scheduler(), proc.c                                                     *)

SchedAcquire(h) ==
    /\ ctx[h] = "scan" /\ ih[h] = "none"
    /\ LockPcb(h, scan[h])
    /\ ctx' = [ctx EXCEPT ![h] = "check"]
    /\ UNCHANGED <<procVars, scan, cproc, mutexVars, sleepVars, ih>>

SchedSkip(h) ==
    /\ ctx[h] = "check" /\ state[scan[h]] # "READY"
    /\ UnlockPcb(scan[h])
    /\ ctx'  = [ctx EXCEPT ![h] = "scan"]
    /\ scan' = [scan EXCEPT ![h] = NextIdx(@)]
    /\ UNCHANGED <<procVars, cproc, mutexVars, sleepVars, ih>>

(* Mutant: the state is left READY when the process is switched to.        *)
SchedSwitchKeepReady(h) ==
    /\ ctx[h] = "check" /\ state[scan[h]] = "READY"
    /\ cproc' = [cproc EXCEPT ![h] = scan[h]]
    /\ ctx'   = [ctx EXCEPT ![h] = "proc"]
    /\ UNCHANGED <<procVars, scan, pcblock, mutexVars, sleepVars, ih>>

(* switch_to(&c->ctxt, &p->ctxt): the process resumes with pcblock held.   *)
SchedSwitch(h) ==
    /\ ctx[h] = "check" /\ state[scan[h]] = "READY"
    /\ state' = [state EXCEPT ![scan[h]] = "RUNNING"]
    /\ cproc' = [cproc EXCEPT ![h] = scan[h]]
    /\ ctx'   = [ctx EXCEPT ![h] = "proc"]
    /\ UNCHANGED <<slice, pc, scan, pcblock, mutexVars, sleepVars, ih>>

(* The process switched back: c->proc = FIRST_PROC, release its lock.      *)
SchedBack(h) ==
    /\ ctx[h] = "back"
    /\ cproc' = [cproc EXCEPT ![h] = 0]
    /\ UnlockPcb(scan[h])
    /\ ctx'   = [ctx EXCEPT ![h] = "scan"]
    /\ scan'  = [scan EXCEPT ![h] = NextIdx(@)]
    /\ UNCHANGED <<procVars, mutexVars, sleepVars, ih>>

(* sched(): switch_to(&p->ctxt, &mycpu()->ctxt), to come back at ret.      *)
SchedAt(h, l, ret) ==
    /\ On(h, l)
    /\ Goto(h, ret)
    /\ ctx' = [ctx EXCEPT ![h] = "back"]
    /\ UNCHANGED <<slice, scan, cproc, pcblock, mutexVars, sleepVars, ih>>

(* Called by yield(), proc_block() and sys_msleep(); the last one marks    *)
(* the process blocked just before the call.                               *)
SchedCall(h) ==
    \/ SchedAt(h, "yl_sched", "yl_ret") /\ UNCHANGED state
    \/ SchedAt(h, "pb_sched", "pb_ret") /\ UNCHANGED state
    \/ /\ SchedAt(h, "ms_sched", "ms_ret")
       /\ state' = [state EXCEPT ![cproc[h]] = "BLOCK"]

(* The first statement after a switch to the process releases the pcblock  *)
(* it resumed with.                                                        *)
ResumeAt(h, l, next) ==
    /\ On(h, l)
    /\ Goto(h, next)
    /\ UnlockPcb(cproc[h])
    /\ UNCHANGED <<state, slice, hartVars, mutexVars, sleepVars, ih>>

Resume(h) ==
    \/ ResumeAt(h, "forkret", "user") \/ ResumeAt(h, "yl_ret", "user")
    \/ ResumeAt(h, "pb_ret", "pb_relk") \/ ResumeAt(h, "ms_ret", "tail")

(* The end of usertrap_handler: the last slice is used up, so yield().     *)
TailYield(h) ==
    LET p == cproc[h] IN
    /\ On(h, "tail") /\ slice[p] = 1
    /\ LockPcb(h, p)
    /\ slice' = [slice EXCEPT ![p] = Priority]
    /\ state' = [state EXCEPT ![p] = "READY"]
    /\ Goto(h, "yl_sched")
    /\ UNCHANGED <<hartVars, mutexVars, sleepVars, ih>>

(* ... or it is not: the lock is taken and given back.                     *)
TailReturn(h) ==
    LET p == cproc[h] IN
    /\ On(h, "tail") /\ slice[p] > 1
    /\ pcblock[p] = NoHart
    /\ slice' = [slice EXCEPT ![p] = @ - 1]
    /\ Goto(h, "user")
    /\ UNCHANGED <<state, hartVars, pcblock, mutexVars, sleepVars, ih>>

Tail(h) == TailYield(h) \/ TailReturn(h)

-----------------------------------------------------------------------------
(* mutex_acquire(), mutex.c, and the proc_block() it calls                 *)

AcquireEnter(h) ==
    /\ On(h, "ma_acq") \/ On(h, "pb_relk")
    /\ mlk = NoHart /\ mlk' = h
    /\ Goto(h, "ma_test")
    /\ UNCHANGED <<state, slice, hartVars, pcblock, locked, mpid, waiters,
                   waking, sleepVars, ih>>

(* Mutant: the test of m->locked is an if and not a while, so a process    *)
(* that was woken takes the mutex without looking again.                   *)
AcquireTestOnce(h) ==
    /\ On(h, "ma_test")
    /\ \E again \in BOOLEAN :
         \/ /\ locked /\ again
            /\ Goto(h, "pb_acq")
            /\ UNCHANGED <<mlk, locked, mpid>>
         \/ /\ ~locked \/ ~again
            /\ locked' = TRUE /\ mpid' = cproc[h] /\ mlk' = NoHart
            /\ Goto(h, "cs")
    /\ UNCHANGED <<state, slice, hartVars, pcblock, waiters, waking,
                   sleepVars, ih>>

AcquireBusy(h) ==
    /\ On(h, "ma_test") /\ locked
    /\ Goto(h, "pb_acq")
    /\ UNCHANGED <<state, slice, hartVars, pcblock, mutexVars, sleepVars, ih>>

AcquireFree(h) ==
    /\ On(h, "ma_test") /\ ~locked
    /\ locked' = TRUE /\ mpid' = cproc[h] /\ mlk' = NoHart
    /\ Goto(h, "cs")
    /\ UNCHANGED <<state, slice, hartVars, pcblock, waiters, waking,
                   sleepVars, ih>>

(* while (m->locked) proc_block(...); m->locked = 1.                       *)
AcquireTest(h) == AcquireBusy(h) \/ AcquireFree(h)

(* Mutant: the wait-list lock is released before the process is enqueued.  *)
BlockEnterUnlocked(h) ==
    LET p == cproc[h] IN
    \/ /\ On(h, "pb_acq") /\ mlk = h
       /\ mlk' = NoHart
       /\ UNCHANGED <<procVars, hartVars, pcblock, locked, mpid, waiters,
                      waking, sleepVars, ih>>
    \/ /\ On(h, "pb_acq") /\ mlk # h
       /\ LockPcb(h, p)
       /\ waiters' = waiters \cup {p}
       /\ state'   = [state EXCEPT ![p] = "BLOCK"]
       /\ Goto(h, "pb_sched")
       /\ UNCHANGED <<slice, hartVars, mlk, locked, mpid, waking, sleepVars, ih>>

(* proc_block(): acquire(pcblock[p]), join the wait list, become blocked.  *)
BlockEnter(h) ==
    LET p == cproc[h] IN
    /\ On(h, "pb_acq")
    /\ LockPcb(h, p)
    /\ waiters' = waiters \cup {p}
    /\ state'   = [state EXCEPT ![p] = "BLOCK"]
    /\ Goto(h, "pb_rel")
    /\ UNCHANGED <<slice, hartVars, mlk, locked, mpid, waking, sleepVars, ih>>

(* Mutant: the caller's lock is kept across sched().                       *)
BlockKeepLock(h) ==
    /\ On(h, "pb_rel")
    /\ Goto(h, "pb_sched")
    /\ UNCHANGED <<state, slice, hartVars, pcblock, mutexVars, sleepVars, ih>>

(* proc_block(): release(lk), then sched().                                *)
BlockRelease(h) ==
    /\ On(h, "pb_rel")
    /\ mlk' = NoHart
    /\ Goto(h, "pb_sched")
    /\ UNCHANGED <<state, slice, hartVars, pcblock, locked, mpid, waiters,
                   waking, sleepVars, ih>>

-----------------------------------------------------------------------------
(* mutex_release(), mutex.c, and the proc_unblock_all() it calls           *)

(* The caller leaves its critical section; mutex_holding() takes and gives *)
(* back m->lk, and is asserted (MutexHeldByReleaser below).                *)
ReleaseCall(h) ==
    /\ On(h, "cs") /\ mlk = NoHart
    /\ Goto(h, "mr_acq")
    /\ UNCHANGED <<state, slice, hartVars, pcblock, mutexVars, sleepVars, ih>>

ReleaseEnter(h) ==
    /\ On(h, "mr_acq") /\ mlk = NoHart
    /\ mlk' = h /\ locked' = FALSE /\ mpid' = 0
    /\ Goto(h, "mr_wake")
    /\ UNCHANGED <<state, slice, hartVars, pcblock, waiters, waking,
                   sleepVars, ih>>

(* list_next_then_del: the list is a set here, any order of wake-ups.      *)
UnblockPick(h) ==
    /\ On(h, "mr_wake")
    /\ \E q \in waiters :
         /\ waiters' = waiters \ {q}
         /\ waking'  = [waking EXCEPT ![cproc[h]] = q]
    /\ Goto(h, "mr_plk")
    /\ UNCHANGED <<state, slice, hartVars, pcblock, mlk, locked, mpid,
                   sleepVars, ih>>

UnblockReady(h) ==
    LET q == waking[cproc[h]] IN
    /\ On(h, "mr_plk") /\ pcblock[q] = NoHart
    /\ state'  = [state EXCEPT ![q] = "READY"]
    /\ waking' = [waking EXCEPT ![cproc[h]] = 0]
    /\ Goto(h, "mr_wake")
    /\ UNCHANGED <<slice, hartVars, pcblock, mlk, locked, mpid, waiters,
                   sleepVars, ih>>

(* Mutant: the list is not drained, only one waiter is woken.              *)
ReleaseExitEarly(h) ==
    /\ On(h, "mr_wake") /\ mlk' = NoHart
    /\ Goto(h, "tail")
    /\ UNCHANGED <<state, slice, hartVars, pcblock, locked, mpid, waiters,
                   waking, sleepVars, ih>>

ReleaseExit(h) ==
    /\ On(h, "mr_wake") /\ waiters = {}
    /\ mlk' = NoHart
    /\ Goto(h, "tail")
    /\ UNCHANGED <<state, slice, hartVars, pcblock, locked, mpid, waiters,
                   waking, sleepVars, ih>>

-----------------------------------------------------------------------------
(* sys_msleep(), sysproc.c                                                 *)

SleepEnter(h) ==
    /\ On(h, "ms_acq") /\ slk = NoHart
    /\ slk' = h
    /\ Goto(h, "ms_plk")
    /\ UNCHANGED <<state, slice, hartVars, pcblock, mutexVars, sleepq, ticks, ih>>

(* At least one tick; the sleep is bounded by MaxSleep.                    *)
SleepPush(h) ==
    LET p == cproc[h] IN
    /\ On(h, "ms_plk")
    /\ LockPcb(h, p)
    /\ \E d \in 1 .. MaxSleep : sleepq' = sleepq \cup {<<ticks + d, p>>}
    /\ Goto(h, "ms_rel")
    /\ UNCHANGED <<state, slice, hartVars, mutexVars, slk, ticks, ih>>

SleepRelease(h) ==
    /\ On(h, "ms_rel")
    /\ slk' = NoHart
    /\ Goto(h, "ms_sched")
    /\ UNCHANGED <<state, slice, hartVars, pcblock, mutexVars, sleepq, ticks, ih>>

-----------------------------------------------------------------------------
(* System calls from user mode, and the timer interrupt                    *)

SysCallTo(h, l) ==
    /\ On(h, "user")
    /\ Goto(h, l)
    /\ UNCHANGED <<state, slice, hartVars, pcblock, mutexVars, sleepVars, ih>>

SysCall(h) == \/ "mutex" \in Calls /\ SysCallTo(h, "ma_acq")
              \/ "msleep" \in Calls /\ SysCallTo(h, "ms_acq")

(* interrupt_handler(IRQ_S_TIMER) -> clock_interrupt_handler(): only the   *)
(* boot hart counts, every hart looks for sleepers.  From user mode the    *)
(* process goes on with the end of usertrap_handler; from kernel mode      *)
(* (kerneltrap_handler) with the instruction it was interrupted at.        *)
TimerInterrupt(h) ==
    /\ ih[h] = "none" /\ OwnsNone(h) /\ ctx[h] \in {"scan", "proc"}
    /\ ticks' = IF h = BootHart /\ ticks < MaxTicks THEN ticks + 1 ELSE ticks
    /\ ih' = [ih EXCEPT ![h] = "acq"]
    /\ pc' = IF On(h, "user") THEN [pc EXCEPT ![cproc[h]] = "tail"] ELSE pc
    /\ UNCHANGED <<state, slice, hartVars, pcblock, mutexVars, slk, sleepq>>

(* time_wakeup(): acquire(sleep_lock).                                     *)
WakeupEnter(h) ==
    /\ ih[h] = "acq" /\ slk = NoHart
    /\ slk' = h
    /\ ih' = [ih EXCEPT ![h] = "loop"]
    /\ UNCHANGED <<procVars, hartVars, pcblock, mutexVars, sleepq, ticks>>

(* priority_queue_top: the least pair in the order of __pair_less_than.    *)
IsTop(e) == \A f \in sleepq : e[1] < f[1] \/ (e[1] = f[1] /\ e[2] <= f[2])
Due == {e \in sleepq : IsTop(e) /\ e[1] <= ticks}

(* Mutant: a sleeper whose lock is busy is dropped instead of waited for.  *)
WakeupOneSkipBusy(h) ==
    /\ ih[h] = "loop"
    /\ \E e \in Due :
         /\ state'  = IF pcblock[e[2]] = NoHart
                        THEN [state EXCEPT ![e[2]] = "READY"] ELSE state
         /\ sleepq' = sleepq \ {e}
    /\ UNCHANGED <<slice, pc, hartVars, pcblock, mutexVars, slk, ticks, ih>>

WakeupOne(h) ==
    /\ ih[h] = "loop"
    /\ \E e \in Due : /\ pcblock[e[2]] = NoHart
                      /\ state'  = [state EXCEPT ![e[2]] = "READY"]
                      /\ sleepq' = sleepq \ {e}
    /\ UNCHANGED <<slice, pc, hartVars, pcblock, mutexVars, slk, ticks, ih>>

WakeupExit(h) ==
    /\ ih[h] = "loop" /\ Due = {}
    /\ slk' = NoHart
    /\ ih'  = [ih EXCEPT ![h] = "none"]
    /\ UNCHANGED <<procVars, hartVars, pcblock, mutexVars, sleepq, ticks>>

-----------------------------------------------------------------------------
(* What hart h does by itself: scheduler, kernel threads, handler.         *)
KernelStep(h) ==
    \/ SchedAcquire(h) \/ SchedSkip(h) \/ SchedSwitch(h) \/ SchedBack(h)
    \/ SchedCall(h) \/ Resume(h) \/ Tail(h)
    \/ AcquireEnter(h) \/ AcquireTest(h) \/ BlockEnter(h) \/ BlockRelease(h)
    \/ ReleaseCall(h) \/ ReleaseEnter(h) \/ UnblockPick(h) \/ UnblockReady(h)
    \/ ReleaseExit(h)
    \/ SleepEnter(h) \/ SleepPush(h) \/ SleepRelease(h)

HandlerStep(h) == WakeupEnter(h) \/ WakeupOne(h) \/ WakeupExit(h)

Next == \E h \in Harts : \/ KernelStep(h) \/ HandlerStep(h)
                         \/ SysCall(h) \/ TimerInterrupt(h)

Spec == Init /\ [][Next]_vars

(* A hart never stops: it executes the code of whatever context it is in,  *)
(* and a lock that keeps being released is eventually obtained by a hart   *)
(* that spins on it.  Timer interrupts keep coming.  Which system calls a  *)
(* program makes is not constrained.                                       *)
Fairness == \A h \in Harts : /\ SF_vars(KernelStep(h))
                             /\ SF_vars(HandlerStep(h))
                             /\ SF_vars(TimerInterrupt(h))
FairSpec == Spec /\ Fairness
-----------------------------------------------------------------------------
(* Properties                                                              *)

(* Types of the processes, of the harts, of the locks and of the queues.   *)
TypeOK ==
    /\ state   \in [Pids -> {"READY", "RUNNING", "BLOCK"}]
    /\ slice   \in [Pids -> 1 .. Priority]
    /\ pc      \in [Pids -> PCs]
    /\ ctx     \in [Harts -> {"scan", "check", "proc", "back"}]
    /\ scan    \in [Harts -> Pids]
    /\ cproc   \in [Harts -> Pids \cup {0}]
    /\ pcblock \in [Pids -> Owners]
    /\ mlk \in Owners /\ locked \in BOOLEAN /\ mpid \in Pids \cup {0}
    /\ waiters \subseteq Pids
    /\ waking  \in [Pids -> Pids \cup {0}]
    /\ slk \in Owners /\ sleepq \subseteq (Nat \X Pids) /\ ticks \in Nat
    /\ ih      \in [Harts -> {"none", "acq", "loop"}]

(* No two harts ever execute on the kernel stack of one process, from the  *)
(* switch_to in scheduler() until the switch_to in sched() has finished    *)
(* and the hart is back on its own stack; a RUNNING process is on a hart.  *)
RunsOnOneHart ==
    /\ \A g, h \in Harts : g # h /\ cproc[g] # 0 => cproc[g] # cproc[h]
    /\ \A p \in Pids : state[p] = "RUNNING" =>
         \E h \in Harts : ctx[h] = "proc" /\ cproc[h] = p

(* The assertions of sched(): the caller holds its own pcblock, no other   *)
(* spin lock (mycpu()->repeat == 1), and has given up the RUNNING state    *)
(* (sys_msleep does so in the same step as the call).                      *)
SchedAssertions ==
    \A h \in Harts :
       LET p == cproc[h] IN
       (ctx[h] = "proc" /\ pc[p] \in AtSched) =>
          /\ pcblock[p] = h /\ mlk # h /\ slk # h
          /\ \A q \in Pids \ {p} : pcblock[q] # h
          /\ pc[p] # "ms_sched" => state[p] # "RUNNING"

(* The assertions of proc_unblock_all() and time_wakeup(): once the waker  *)
(* has the lock of the process it takes off a list, that process is        *)
(* blocked and is not the process the waker runs on.                       *)
WakeAssertions ==
    \A h \in Harts :
       /\ LET q == waking[cproc[h]] IN
          (On(h, "mr_plk") /\ pcblock[q] = NoHart) =>
              state[q] = "BLOCK" /\ q # cproc[h]
       /\ \A e \in Due : (ih[h] = "loop" /\ pcblock[e[2]] = NoHart) =>
              state[e[2]] = "BLOCK" /\ e[2] # cproc[h]

(* do_acquire()'s panic is unreachable: no hart, in a kernel thread or in  *)
(* the interrupt handler on top of it, tries to take a lock it owns.       *)
NoReacquire ==
    \A h \in Harts :
       LET p == cproc[h] IN
       /\ ih[h] = "acq" => slk # h
       /\ ih[h] = "loop" => \A e \in Due : pcblock[e[2]] # h
       /\ (ctx[h] = "scan" /\ ih[h] = "none") => pcblock[scan[h]] # h
       /\ (ctx[h] = "proc" /\ ih[h] = "none") =>
            /\ pc[p] \in {"ma_acq", "pb_relk", "cs", "mr_acq"} => mlk # h
            /\ pc[p] \in {"tail", "pb_acq", "ms_plk"} => pcblock[p] # h
            /\ pc[p] = "ms_acq" => slk # h
            /\ pc[p] = "mr_plk" => pcblock[waking[p]] # h

(* The mutex is held by at most one process, the one m->pid names, from    *)
(* the return of mutex_acquire() until mutex_release() clears it; so       *)
(* mutex_release()'s assertion on mutex_holding() never fails.             *)
MutexExclusive ==
    \A p \in Pids : pc[p] \in {"cs", "mr_acq"} => locked /\ mpid = p

(* No assertion or panic of the scheduler, of the wake-ups, of the spin    *)
(* locks and of the mutex can fail: those of sched(), proc_unblock_all()   *)
(* and time_wakeup(), do_acquire()'s panic and mutex_release()'s assertion.*)
KernelAssertions == SchedAssertions /\ WakeAssertions /\ NoReacquire /\ MutexExclusive

(* A process waits on m->waiters only while someone holds the mutex (and   *)
(* will wake it) or is inside the m->lk section that decides: no wake-up   *)
(* is lost between the test of m->locked and the enqueueing.               *)
NoLostWakeup == waiters # {} /\ mlk = NoHart => locked

(* A blocked process is always reachable by a waker: it is on the mutex's  *)
(* list, just taken off it by proc_unblock_all(), or in the sleep queue.   *)
BlockedIsReachable ==
    \A p \in Pids : state[p] = "BLOCK" =>
       \/ p \in waiters
       \/ \E q \in Pids : pc[q] = "mr_plk" /\ waking[q] = p
       \/ \E e \in sleepq : e[2] = p

(* No blocked process is forgotten: mutex_release() and the clock find     *)
(* every one, and the one that waits for the mutex has a holder to wake it.*)
WakeupsFind == NoLostWakeup /\ BlockedIsReachable

(* scheduler() reaches every ready process: none starves in its table scan *)
(* however the harts interleave and however often they are interrupted.    *)
ReadyRuns == \A p \in Pids : state[p] = "READY" ~> state[p] = "RUNNING"

(* A sleeper whose wake-up tick has come returns from sys_msleep, although *)
(* only the boot hart counts ticks and every hart may wake it.             *)
DueSleeperReturns ==
    \A p \in Pids : (\E e \in sleepq : e[2] = p /\ e[1] <= ticks)
                        ~> (pc[p] = "tail")

-----------------------------------------------------------------------------
(* The mutex as its callers see it: the abstract sleeping lock.            *)
InAcquire == {"ma_acq", "ma_test", "pb_acq", "pb_rel", "pb_sched", "pb_ret",
              "pb_relk"}
Wanting == {p \in Pids : pc[p] \in InAcquire}
SL == INSTANCE SleepLock WITH Procs <- Pids, None <- 0,
                              holder <- mpid, want <- Wanting

(* Every step of mutex_acquire()/mutex_release() on the scheduler is a     *)
(* step of the abstract lock or invisible to it.                           *)
ImplementsSleepLock == SL!Spec

(* ... and a free lock that is wanted is eventually taken by someone.      *)
ImplementsFairSleepLock == SL!FairSpec
=============================================================================
