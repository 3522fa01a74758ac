---------------------------- MODULE SchedProofs ----------------------------
(***************************************************************************)
(* Proofs about module Sched, for any number of harts and of processes.    *)
(*                                                                         *)
(* IInv is the inductive invariant.  Its core is who owns which spin lock: *)
(* every lock is owned exactly when some hart's program point says so, and *)
(* a process is on at most one hart.  From that follow what the states of  *)
(* waiting, sleeping and running processes are, and from these the         *)
(* invariants of Sched.                                                    *)
(***************************************************************************)
EXTENDS Sched, TLAPS

(* The points of a process at which its hart owns its pcblock, m->lk and   *)
(* sleep_queue.sleep_lock.                                                 *)
PcbHeld == {"forkret", "yl_ret", "pb_ret", "ms_ret",
            "yl_sched", "pb_sched", "ms_sched", "pb_rel", "ms_rel"}
MlkHeld == {"ma_test", "pb_acq", "pb_rel", "mr_wake", "mr_plk"}
SlkHeld == {"ms_plk", "ms_rel"}

(* The points at which a process on a hart has given up the RUNNING state. *)
GaveUp == {"pb_rel", "pb_sched", "yl_sched"}

(* Hart h runs process p, or is about to leave it; an interrupt comes only *)
(* where the interrupted code owns no lock.                                *)
CtxInv ==
    \A h \in Harts :
      /\ ctx[h] \in {"scan", "check"} => cproc[h] = 0
      /\ ctx[h] \in {"proc", "back"} => cproc[h] = scan[h]
      /\ ctx[h] = "back" => pc[scan[h]] \in OffHart
      /\ ih[h] # "none" =>
           /\ ctx[h] \in {"scan", "proc"}
           /\ ctx[h] = "proc" => pc[scan[h]] \notin (PcbHeld \cup MlkHeld \cup SlkHeld)

OneHartInv ==
    \A g, h \in Harts : g # h /\ cproc[g] # 0 => cproc[g] # cproc[h]

(* A process that is on no hart is where the scheduler may switch to it.   *)
OffHartInv ==
    \A p \in Pids : pc[p] \notin OffHart =>
       \E h \in Harts : ctx[h] = "proc" /\ cproc[h] = p

PcbInv ==
    \A h \in Harts, p \in Pids :
       pcblock[p] = h <=> /\ scan[h] = p
                          /\ \/ ctx[h] \in {"check", "back"}
                             \/ ctx[h] = "proc" /\ pc[p] \in PcbHeld

MlkInv ==
    \A h \in Harts : mlk = h <=> ctx[h] = "proc" /\ pc[cproc[h]] \in MlkHeld

SlkInv ==
    \A h \in Harts : slk = h <=> \/ ih[h] = "loop"
                                 \/ ctx[h] = "proc" /\ pc[cproc[h]] \in SlkHeld

RunInv ==
    /\ \A h \in Harts : ctx[h] = "proc" /\ pc[cproc[h]] \notin GaveUp =>
                           state[cproc[h]] = "RUNNING"
    /\ \A p \in Pids : pc[p] \in GaveUp => state[p] # "RUNNING"
    /\ \A p \in Pids : state[p] = "RUNNING" =>
         \E h \in Harts : ctx[h] = "proc" /\ cproc[h] = p

(* Processes on the mutex's list, and the one taken off it last, are       *)
(* blocked in proc_block().                                                *)
WaitInv ==
    /\ \A q \in waiters : /\ state[q] = "BLOCK"
                          /\ pc[q] \in {"pb_rel", "pb_sched", "pb_ret"}
    /\ \A r \in Pids : pc[r] = "mr_plk" =>
         LET q == waking[r] IN
         /\ q \in Pids /\ q \notin waiters
         /\ state[q] = "BLOCK"
         /\ pc[q] \in {"pb_rel", "pb_sched", "pb_ret"}

(* The processes in the sleep queue: each is there once, in sys_msleep(),  *)
(* and blocked as soon as it is off its stack.                             *)
Queued == {e[2] : e \in sleepq}

OnceInv == \A e, f \in sleepq : e[2] = f[2] => e = f

SleepInv ==
    /\ \A p \in Pids : p \in Queued =>
         /\ pc[p] \in {"ms_rel", "ms_sched", "ms_ret"}
         /\ pc[p] = "ms_ret" => state[p] = "BLOCK"
    /\ \A p \in Pids : pc[p] \in {"ms_rel", "ms_sched"} => p \in Queued

(* m->locked, m->pid and the process between acquire and release agree.    *)
HolderInv ==
    /\ \A p \in Pids : pc[p] \in {"cs", "mr_acq"} => locked /\ mpid = p
    /\ locked => mpid \in Pids /\ pc[mpid] \in {"cs", "mr_acq"}
    /\ ~locked => mpid = 0

(* Who has seen the mutex locked under m->lk still sees it so; a waiter on *)
(* an unlocked mutex is being woken.                                       *)
WakeInv ==
    /\ \A p \in Pids : pc[p] = "pb_acq" => locked
    /\ waiters # {} /\ ~locked =>
         \E p \in Pids : pc[p] \in {"mr_wake", "mr_plk"}

IInv == /\ TypeOK /\ CtxInv /\ OneHartInv /\ OffHartInv
        /\ PcbInv /\ MlkInv /\ SlkInv
        /\ RunInv /\ WaitInv /\ OnceInv /\ SleepInv /\ HolderInv /\ WakeInv
        /\ BlockedIsReachable
-----------------------------------------------------------------------------
USE SchedAssumption DEF Pids, Owners, PCs, OffHart, AtSched, PcbHeld, MlkHeld,
                        SlkHeld, GaveUp

(* A step that blocks nobody and takes nobody off a list keeps every       *)
(* blocked process reachable.                                              *)
LEMMA ReachableKept ==
  ASSUME BlockedIsReachable,
         \A x \in Pids : state'[x] = "BLOCK" => state[x] = "BLOCK",
         \A q \in Pids : pc[q] = "mr_plk" => pc'[q] = "mr_plk" /\ waking'[q] = waking[q],
         waiters \subseteq waiters', sleepq \subseteq sleepq'
  PROVE  BlockedIsReachable'
<1> SUFFICES ASSUME NEW x \in Pids, state'[x] = "BLOCK"
             PROVE  \/ x \in waiters'
                    \/ \E q \in Pids : pc'[q] = "mr_plk" /\ waking'[q] = x
                    \/ \E e \in sleepq' : e[2] = x
  BY DEF BlockedIsReachable
<1>1. \/ x \in waiters
      \/ \E q \in Pids : pc[q] = "mr_plk" /\ waking[q] = x
      \/ \E e \in sleepq : e[2] = x
  BY DEF BlockedIsReachable
<1>2. CASE x \in waiters
  BY <1>2
<1>3. CASE \E q \in Pids : pc[q] = "mr_plk" /\ waking[q] = x
  BY <1>3
<1>4. CASE \E e \in sleepq : e[2] = x
  BY <1>4
<1> QED BY <1>1, <1>2, <1>3, <1>4

(* scheduler()'s loop index stays in the table.                            *)
LEMMA NextIdxType == \A i \in Pids : NextIdx(i) \in Pids
BY DEF NextIdx

(* A process in the sleep queue whose lock is free is off its stack, and   *)
(* therefore blocked: what time_wakeup() relies on.                        *)
LEMMA SleeperIsOff ==
  ASSUME IInv, NEW e \in sleepq, pcblock[e[2]] = NoHart
  PROVE  /\ e[2] \in Pids /\ e[2] \in Queued
         /\ pc[e[2]] = "ms_ret" /\ state[e[2]] = "BLOCK"
         /\ \A g \in Harts : ctx[g] = "proc" => cproc[g] # e[2]
<1>1. e[2] \in Pids /\ e[2] \in Queued
  BY DEF IInv, TypeOK, Queued
<1>2. pc[e[2]] \in {"ms_rel", "ms_sched", "ms_ret"}
  BY <1>1 DEF IInv, SleepInv
<1>3. ASSUME pc[e[2]] \in {"ms_rel", "ms_sched"} PROVE FALSE
  <2>1. PICK g \in Harts : ctx[g] = "proc" /\ cproc[g] = e[2]
    BY <1>1, <1>3 DEF IInv, OffHartInv
  <2>2. scan[g] = e[2]
    BY <2>1 DEF IInv, CtxInv
  <2>3. pcblock[e[2]] = g
    BY <1>1, <1>3, <2>1, <2>2 DEF IInv, PcbInv
  <2> QED BY <2>3
<1>4. pc[e[2]] = "ms_ret" /\ state[e[2]] = "BLOCK"
  BY <1>1, <1>2, <1>3 DEF IInv, SleepInv
<1>5. \A g \in Harts : ctx[g] = "proc" => cproc[g] # e[2]
  BY <1>4 DEF IInv, RunInv
<1> QED BY <1>1, <1>4, <1>5

(* scheduler() takes the lock of the entry it looks at.                    *)
LEMMA SchedAcquireStep ==
  ASSUME NEW h \in Harts, IInv, SchedAcquire(h)
  PROVE  IInv'
<1> USE DEF SchedAcquire, LockPcb, procVars, hartVars, mutexVars, sleepVars
<1>0. Queued' = Queued
  BY DEF Queued
<1>1. TypeOK'
  BY DEF IInv, TypeOK, CtxInv
<1>2. CtxInv' /\ OneHartInv' /\ OffHartInv'
  BY DEF IInv, TypeOK, OneHartInv, PcbInv, MlkInv, SlkInv, CtxInv, OffHartInv
<1>3. PcbInv' /\ MlkInv' /\ SlkInv'
  BY DEF IInv, TypeOK, CtxInv, OneHartInv, PcbInv, MlkInv, SlkInv
<1>4. RunInv'
  BY DEF IInv, TypeOK, CtxInv, OneHartInv, RunInv
<1>5. WaitInv'
  BY DEF IInv, TypeOK, CtxInv, WaitInv
<1>6. OnceInv' /\ SleepInv'
  BY <1>0 DEF IInv, TypeOK, OnceInv, CtxInv, SleepInv
<1>7. HolderInv' /\ WakeInv'
  BY DEF IInv, TypeOK, CtxInv, OneHartInv, HolderInv, WakeInv
<1>8. BlockedIsReachable'
  BY ReachableKept DEF IInv, TypeOK, CtxInv
<1> QED BY <1>1, <1>2, <1>3, <1>4, <1>5, <1>6, <1>7, <1>8 DEF IInv

(* scheduler() passes over a process that is not ready.                    *)
LEMMA SchedSkipStep ==
  ASSUME NEW h \in Harts, IInv, SchedSkip(h)
  PROVE  IInv'
<1> USE DEF SchedSkip, UnlockPcb, procVars, hartVars, mutexVars, sleepVars
<1>0. Queued' = Queued
  BY DEF Queued
<1>a. NextIdx(scan[h]) \in Pids
  BY NextIdxType DEF IInv, TypeOK
<1>1. TypeOK'
  BY <1>a DEF IInv, TypeOK, CtxInv
<1>2. CtxInv' /\ OneHartInv' /\ OffHartInv'
  BY DEF IInv, TypeOK, OneHartInv, PcbInv, MlkInv, SlkInv, CtxInv, OffHartInv
<1>3. PcbInv' /\ MlkInv' /\ SlkInv'
  BY DEF IInv, TypeOK, CtxInv, OneHartInv, PcbInv, MlkInv, SlkInv
<1>4. RunInv'
  BY DEF IInv, TypeOK, CtxInv, OneHartInv, RunInv
<1>5. WaitInv'
  BY DEF IInv, TypeOK, CtxInv, WaitInv
<1>6. OnceInv' /\ SleepInv'
  BY <1>0 DEF IInv, TypeOK, OnceInv, CtxInv, SleepInv
<1>7. HolderInv' /\ WakeInv'
  BY DEF IInv, TypeOK, CtxInv, OneHartInv, HolderInv, WakeInv
<1>8. BlockedIsReachable'
  BY ReachableKept DEF IInv, TypeOK, CtxInv
<1> QED BY <1>1, <1>2, <1>3, <1>4, <1>5, <1>6, <1>7, <1>8 DEF IInv

(* scheduler() switches to a ready process.  No other hart is on it: a     *)
(* hart in sched() or on its way back would own the pcblock, and any other *)
(* hart would have it RUNNING.                                             *)
LEMMA SchedSwitchStep ==
  ASSUME NEW h \in Harts, IInv, SchedSwitch(h)
  PROVE  IInv'
<1> USE DEF SchedSwitch, procVars, hartVars, mutexVars, sleepVars
<1>0. Queued' = Queued
  BY DEF Queued
<1>a. /\ scan[h] \in Pids /\ pcblock[scan[h]] = h
      /\ \A g \in Harts \ {h} : cproc[g] # scan[h]
  <2>1. scan[h] \in Pids /\ pcblock[scan[h]] = h
    BY DEF IInv, TypeOK, PcbInv
  <2>2. ASSUME NEW g \in Harts \ {h}, cproc[g] = scan[h] PROVE FALSE
    <3>0. cproc[g] # 0 /\ ctx[g] \in {"scan", "check", "proc", "back"}
      BY <2>1, <2>2 DEF IInv, TypeOK
    <3>1. ctx[g] \in {"proc", "back"} /\ scan[g] = scan[h]
      BY <2>2, <3>0 DEF IInv, CtxInv
    <3>2. ctx[g] = "proc" /\ pc[scan[h]] \notin PcbHeld
      BY <2>1, <2>2, <3>1 DEF IInv, TypeOK, PcbInv
    <3>3. state[scan[h]] = "RUNNING"
      BY <2>2, <3>2 DEF IInv, RunInv
    <3> QED BY <3>3
  <2> QED BY <2>1, <2>2
<1>b. pc[scan[h]] \in OffHart
  BY <1>a DEF IInv, OffHartInv
<1>1. TypeOK'
  BY SMTT(30) DEF IInv, TypeOK, CtxInv
<1>2. CtxInv' /\ OneHartInv' /\ OffHartInv'
  BY <1>a DEF IInv, TypeOK, OneHartInv, PcbInv, MlkInv, SlkInv, CtxInv,
       OffHartInv
<1>3. PcbInv' /\ MlkInv' /\ SlkInv'
  BY <1>a, <1>b, SMTT(30) DEF IInv, TypeOK, CtxInv, OneHartInv, PcbInv, MlkInv, SlkInv
<1>4. RunInv'
  BY <1>a, <1>b DEF IInv, TypeOK, CtxInv, OneHartInv, RunInv
<1>5. WaitInv'
  BY DEF IInv, TypeOK, CtxInv, WaitInv
<1>6. OnceInv' /\ SleepInv'
  BY <1>0 DEF IInv, TypeOK, OnceInv, CtxInv, SleepInv
<1>7. HolderInv' /\ WakeInv'
  BY DEF IInv, TypeOK, CtxInv, OneHartInv, HolderInv, WakeInv
<1>8. BlockedIsReachable'
  BY ReachableKept DEF IInv, TypeOK, CtxInv
<1> QED BY <1>1, <1>2, <1>3, <1>4, <1>5, <1>6, <1>7, <1>8 DEF IInv

(* scheduler() resumes after a process called sched().                     *)
LEMMA SchedBackStep ==
  ASSUME NEW h \in Harts, IInv, SchedBack(h)
  PROVE  IInv'
<1> USE DEF SchedBack, UnlockPcb, procVars, hartVars, mutexVars, sleepVars
<1>0. Queued' = Queued
  BY DEF Queued
<1>a. NextIdx(scan[h]) \in Pids
  BY NextIdxType DEF IInv, TypeOK
<1>1. TypeOK'
  BY <1>a DEF IInv, TypeOK, CtxInv
<1>2. CtxInv' /\ OneHartInv' /\ OffHartInv'
  BY DEF IInv, TypeOK, OneHartInv, PcbInv, MlkInv, SlkInv, CtxInv, OffHartInv
<1>3. PcbInv' /\ MlkInv' /\ SlkInv'
  BY DEF IInv, TypeOK, CtxInv, OneHartInv, PcbInv, MlkInv, SlkInv
<1>4. RunInv'
  BY DEF IInv, TypeOK, CtxInv, OneHartInv, RunInv
<1>5. WaitInv'
  BY DEF IInv, TypeOK, CtxInv, WaitInv
<1>6. OnceInv' /\ SleepInv'
  BY <1>0 DEF IInv, TypeOK, OnceInv, CtxInv, SleepInv
<1>7. HolderInv' /\ WakeInv'
  BY DEF IInv, TypeOK, CtxInv, OneHartInv, HolderInv, WakeInv
<1>8. BlockedIsReachable'
  BY ReachableKept DEF IInv, TypeOK, CtxInv
<1> QED BY <1>1, <1>2, <1>3, <1>4, <1>5, <1>6, <1>7, <1>8 DEF IInv

(* sched() from yield().                                                   *)
LEMMA SchedYieldStep ==
  ASSUME NEW h \in Harts, IInv, SchedAt(h, "yl_sched", "yl_ret"), UNCHANGED state
  PROVE  IInv'
<1> USE DEF SchedAt, On, Goto, procVars, hartVars, mutexVars, sleepVars
<1>0. Queued' = Queued
  BY DEF Queued
<1>1. TypeOK'
  BY DEF IInv, TypeOK, CtxInv
<1>2. CtxInv' /\ OneHartInv' /\ OffHartInv'
  BY DEF IInv, TypeOK, OneHartInv, PcbInv, MlkInv, SlkInv, CtxInv, OffHartInv
<1>3. PcbInv' /\ MlkInv' /\ SlkInv'
  BY DEF IInv, TypeOK, CtxInv, OneHartInv, PcbInv, MlkInv, SlkInv
<1>4. RunInv'
  BY DEF IInv, TypeOK, CtxInv, OneHartInv, RunInv
<1>5. WaitInv'
  BY DEF IInv, TypeOK, CtxInv, WaitInv
<1>6. OnceInv' /\ SleepInv'
  BY <1>0 DEF IInv, TypeOK, OnceInv, CtxInv, SleepInv
<1>7. HolderInv' /\ WakeInv'
  BY DEF IInv, TypeOK, CtxInv, OneHartInv, HolderInv, WakeInv
<1>8. BlockedIsReachable'
  BY ReachableKept DEF IInv, TypeOK, CtxInv
<1> QED BY <1>1, <1>2, <1>3, <1>4, <1>5, <1>6, <1>7, <1>8 DEF IInv

(* sched() from proc_block().                                              *)
LEMMA SchedBlockStep ==
  ASSUME NEW h \in Harts, IInv, SchedAt(h, "pb_sched", "pb_ret"), UNCHANGED state
  PROVE  IInv'
<1> USE DEF SchedAt, On, Goto, procVars, hartVars, mutexVars, sleepVars
<1>0. Queued' = Queued
  BY DEF Queued
<1>1. TypeOK'
  BY DEF IInv, TypeOK, CtxInv
<1>2. CtxInv' /\ OneHartInv' /\ OffHartInv'
  BY DEF IInv, TypeOK, OneHartInv, PcbInv, MlkInv, SlkInv, CtxInv, OffHartInv
<1>3. PcbInv' /\ MlkInv' /\ SlkInv'
  BY DEF IInv, TypeOK, CtxInv, OneHartInv, PcbInv, MlkInv, SlkInv
<1>4. RunInv'
  BY DEF IInv, TypeOK, CtxInv, OneHartInv, RunInv
<1>5. WaitInv'
  BY DEF IInv, TypeOK, CtxInv, WaitInv
<1>6. OnceInv' /\ SleepInv'
  BY <1>0 DEF IInv, TypeOK, OnceInv, CtxInv, SleepInv
<1>7. HolderInv' /\ WakeInv'
  BY DEF IInv, TypeOK, CtxInv, OneHartInv, HolderInv, WakeInv
<1>8. BlockedIsReachable'
  BY ReachableKept DEF IInv, TypeOK, CtxInv
<1> QED BY <1>1, <1>2, <1>3, <1>4, <1>5, <1>6, <1>7, <1>8 DEF IInv

(* sched() from sys_msleep(): the process is blocked, and in the queue.    *)
LEMMA SchedSleepStep ==
  ASSUME NEW h \in Harts, IInv, SchedAt(h, "ms_sched", "ms_ret"), state' = [state EXCEPT ![cproc[h]] = "BLOCK"]
  PROVE  IInv'
<1> USE DEF SchedAt, On, Goto, procVars, hartVars, mutexVars, sleepVars
<1>0. Queued' = Queued
  BY DEF Queued
<1>1. TypeOK'
  BY DEF IInv, TypeOK, CtxInv
<1>2. CtxInv' /\ OneHartInv' /\ OffHartInv'
  BY DEF IInv, TypeOK, OneHartInv, PcbInv, MlkInv, SlkInv, CtxInv, OffHartInv
<1>3. PcbInv' /\ MlkInv' /\ SlkInv'
  BY DEF IInv, TypeOK, CtxInv, OneHartInv, PcbInv, MlkInv, SlkInv
<1>4. RunInv'
  BY DEF IInv, TypeOK, CtxInv, OneHartInv, RunInv
<1>5. WaitInv'
  BY DEF IInv, TypeOK, CtxInv, WaitInv
<1>6. OnceInv' /\ SleepInv'
  BY <1>0 DEF IInv, TypeOK, OnceInv, CtxInv, SleepInv
<1>7. HolderInv' /\ WakeInv'
  BY DEF IInv, TypeOK, CtxInv, OneHartInv, HolderInv, WakeInv
<1>8. BlockedIsReachable'
  <2> SUFFICES ASSUME NEW x \in Pids, state'[x] = "BLOCK"
               PROVE  \/ x \in waiters'
                      \/ \E q \in Pids : pc'[q] = "mr_plk" /\ waking'[q] = x
                      \/ \E f \in sleepq' : f[2] = x
    BY DEF BlockedIsReachable
  <2>1. CASE x = cproc[h]
    <3>1. x \in Queued
      BY <2>1 DEF IInv, TypeOK, CtxInv, SleepInv
    <3> QED BY <3>1 DEF Queued
  <2>2. CASE x # cproc[h]
    <3>1. state[x] = "BLOCK"
      BY <2>2 DEF IInv, TypeOK
    <3>2. \A q \in Pids : pc[q] = "mr_plk" => pc'[q] = "mr_plk"
      BY DEF IInv, TypeOK
    <3> QED BY <3>1, <3>2 DEF IInv, BlockedIsReachable
  <2> QED BY <2>1, <2>2
<1> QED BY <1>1, <1>2, <1>3, <1>4, <1>5, <1>6, <1>7, <1>8 DEF IInv

(* A process that was switched to releases its pcblock.                    *)
LEMMA ResumeAtStep ==
  ASSUME NEW h \in Harts, NEW l \in OffHart, NEW next \in {"user", "pb_relk", "tail"}, IInv, ResumeAt(h, l, next)
  PROVE  IInv'
<1> USE DEF ResumeAt, On, Goto, UnlockPcb, procVars, hartVars, mutexVars, sleepVars
<1>0. Queued' = Queued
  BY DEF Queued
<1>a. cproc[h] \in Pids /\ pc[cproc[h]] = l
  BY DEF IInv, TypeOK, CtxInv
<1>b. state[cproc[h]] = "RUNNING"
  BY <1>a DEF IInv, RunInv
<1>c. cproc[h] \notin Queued
  BY <1>a, <1>b DEF IInv, SleepInv
<1>1. TypeOK'
  BY DEF IInv, TypeOK, CtxInv
<1>2. CtxInv' /\ OneHartInv' /\ OffHartInv'
  BY DEF IInv, TypeOK, OneHartInv, PcbInv, MlkInv, SlkInv, CtxInv, OffHartInv
<1>3. PcbInv' /\ MlkInv' /\ SlkInv'
  BY SMTT(30) DEF IInv, TypeOK, CtxInv, OneHartInv, PcbInv, MlkInv, SlkInv
<1>4. RunInv'
  BY DEF IInv, TypeOK, CtxInv, OneHartInv, RunInv
<1>5. WaitInv'
  BY <1>a, <1>b DEF IInv, TypeOK, CtxInv, WaitInv
<1>6. OnceInv' /\ SleepInv'
  BY <1>0, <1>a, <1>c DEF IInv, TypeOK, OnceInv, CtxInv, SleepInv
<1>7. HolderInv' /\ WakeInv'
  BY DEF IInv, TypeOK, CtxInv, OneHartInv, HolderInv, WakeInv
<1>8. BlockedIsReachable'
  BY ReachableKept DEF IInv, TypeOK, CtxInv
<1> QED BY <1>1, <1>2, <1>3, <1>4, <1>5, <1>6, <1>7, <1>8 DEF IInv

(* The end of a trap, with the time slice used up.                         *)
LEMMA TailYieldStep ==
  ASSUME NEW h \in Harts, IInv, TailYield(h)
  PROVE  IInv'
<1> USE DEF TailYield, On, LockPcb, Goto, procVars, hartVars, mutexVars, sleepVars
<1>0. Queued' = Queued
  BY DEF Queued
<1>1. TypeOK'
  BY DEF IInv, TypeOK, CtxInv
<1>2. CtxInv' /\ OneHartInv' /\ OffHartInv'
  BY DEF IInv, TypeOK, OneHartInv, PcbInv, MlkInv, SlkInv, CtxInv, OffHartInv
<1>3. PcbInv' /\ MlkInv' /\ SlkInv'
  BY DEF IInv, TypeOK, CtxInv, OneHartInv, PcbInv, MlkInv, SlkInv
<1>4. RunInv'
  BY DEF IInv, TypeOK, CtxInv, OneHartInv, RunInv
<1>5. WaitInv'
  BY DEF IInv, TypeOK, CtxInv, WaitInv
<1>6. OnceInv' /\ SleepInv'
  BY <1>0 DEF IInv, TypeOK, OnceInv, CtxInv, SleepInv
<1>7. HolderInv' /\ WakeInv'
  BY DEF IInv, TypeOK, CtxInv, OneHartInv, HolderInv, WakeInv
<1>8. BlockedIsReachable'
  BY ReachableKept DEF IInv, TypeOK, CtxInv
<1> QED BY <1>1, <1>2, <1>3, <1>4, <1>5, <1>6, <1>7, <1>8 DEF IInv

(* The end of a trap, back to user mode.                                   *)
LEMMA TailReturnStep ==
  ASSUME NEW h \in Harts, IInv, TailReturn(h)
  PROVE  IInv'
<1> USE DEF TailReturn, On, Goto, procVars, hartVars, mutexVars, sleepVars
<1>0. Queued' = Queued
  BY DEF Queued
<1>1. TypeOK'
  BY SMTT(30) DEF IInv, TypeOK, CtxInv
<1>2. CtxInv' /\ OneHartInv' /\ OffHartInv'
  BY DEF IInv, TypeOK, OneHartInv, PcbInv, MlkInv, SlkInv, CtxInv, OffHartInv
<1>3. PcbInv' /\ MlkInv' /\ SlkInv'
  BY SMTT(30) DEF IInv, TypeOK, CtxInv, OneHartInv, PcbInv, MlkInv, SlkInv
<1>4. RunInv'
  BY DEF IInv, TypeOK, CtxInv, OneHartInv, RunInv
<1>5. WaitInv'
  BY SMTT(30) DEF IInv, TypeOK, CtxInv, WaitInv
<1>6. OnceInv' /\ SleepInv'
  BY <1>0 DEF IInv, TypeOK, OnceInv, CtxInv, SleepInv
<1>7. HolderInv' /\ WakeInv'
  BY DEF IInv, TypeOK, CtxInv, OneHartInv, HolderInv, WakeInv
<1>8. BlockedIsReachable'
  BY ReachableKept DEF IInv, TypeOK, CtxInv
<1> QED BY <1>1, <1>2, <1>3, <1>4, <1>5, <1>6, <1>7, <1>8 DEF IInv

(* mutex_acquire() takes m->lk.                                            *)
LEMMA AcquireEnterStep ==
  ASSUME NEW h \in Harts, IInv, AcquireEnter(h)
  PROVE  IInv'
<1> USE DEF AcquireEnter, On, Goto, procVars, hartVars, mutexVars, sleepVars
<1>0. Queued' = Queued
  BY DEF Queued
<1>1. TypeOK'
  BY DEF IInv, TypeOK, CtxInv
<1>2. CtxInv' /\ OneHartInv' /\ OffHartInv'
  BY DEF IInv, TypeOK, OneHartInv, PcbInv, MlkInv, SlkInv, CtxInv, OffHartInv
<1>3. PcbInv' /\ MlkInv' /\ SlkInv'
  BY DEF IInv, TypeOK, CtxInv, OneHartInv, PcbInv, MlkInv, SlkInv
<1>4. RunInv'
  BY DEF IInv, TypeOK, CtxInv, OneHartInv, RunInv
<1>5. WaitInv'
  BY DEF IInv, TypeOK, CtxInv, WaitInv
<1>6. OnceInv' /\ SleepInv'
  BY <1>0 DEF IInv, TypeOK, OnceInv, CtxInv, SleepInv
<1>7. HolderInv' /\ WakeInv'
  BY DEF IInv, TypeOK, CtxInv, OneHartInv, HolderInv, WakeInv
<1>8. BlockedIsReachable'
  BY ReachableKept DEF IInv, TypeOK, CtxInv
<1> QED BY <1>1, <1>2, <1>3, <1>4, <1>5, <1>6, <1>7, <1>8 DEF IInv

(* mutex_acquire() finds the mutex locked.                                 *)
LEMMA AcquireBusyStep ==
  ASSUME NEW h \in Harts, IInv, AcquireBusy(h)
  PROVE  IInv'
<1> USE DEF AcquireBusy, On, Goto, procVars, hartVars, mutexVars, sleepVars
<1>0. Queued' = Queued
  BY DEF Queued
<1>1. TypeOK'
  BY DEF IInv, TypeOK, CtxInv
<1>2. CtxInv' /\ OneHartInv' /\ OffHartInv'
  BY DEF IInv, TypeOK, OneHartInv, PcbInv, MlkInv, SlkInv, CtxInv, OffHartInv
<1>3. PcbInv' /\ MlkInv' /\ SlkInv'
  BY DEF IInv, TypeOK, CtxInv, OneHartInv, PcbInv, MlkInv, SlkInv
<1>4. RunInv'
  BY DEF IInv, TypeOK, CtxInv, OneHartInv, RunInv
<1>5. WaitInv'
  BY DEF IInv, TypeOK, CtxInv, WaitInv
<1>6. OnceInv' /\ SleepInv'
  BY <1>0 DEF IInv, TypeOK, OnceInv, CtxInv, SleepInv
<1>7. HolderInv' /\ WakeInv'
  BY DEF IInv, TypeOK, CtxInv, OneHartInv, HolderInv, WakeInv
<1>8. BlockedIsReachable'
  BY ReachableKept DEF IInv, TypeOK, CtxInv
<1> QED BY <1>1, <1>2, <1>3, <1>4, <1>5, <1>6, <1>7, <1>8 DEF IInv

(* mutex_acquire() takes the mutex.                                        *)
LEMMA AcquireFreeStep ==
  ASSUME NEW h \in Harts, IInv, AcquireFree(h)
  PROVE  IInv'
<1> USE DEF AcquireFree, On, Goto, procVars, hartVars, mutexVars, sleepVars
<1>0. Queued' = Queued
  BY DEF Queued
<1>1. TypeOK'
  BY DEF IInv, TypeOK, CtxInv
<1>2. CtxInv' /\ OneHartInv' /\ OffHartInv'
  BY DEF IInv, TypeOK, OneHartInv, PcbInv, MlkInv, SlkInv, CtxInv, OffHartInv
<1>3. PcbInv' /\ MlkInv' /\ SlkInv'
  BY DEF IInv, TypeOK, CtxInv, OneHartInv, PcbInv, MlkInv, SlkInv
<1>4. RunInv'
  BY DEF IInv, TypeOK, CtxInv, OneHartInv, RunInv
<1>5. WaitInv'
  BY DEF IInv, TypeOK, CtxInv, WaitInv
<1>6. OnceInv' /\ SleepInv'
  BY <1>0 DEF IInv, TypeOK, OnceInv, CtxInv, SleepInv
<1>7. HolderInv' /\ WakeInv'
  BY DEF IInv, TypeOK, CtxInv, OneHartInv, HolderInv, MlkInv, OffHartInv,
       WakeInv
<1>8. BlockedIsReachable'
  BY ReachableKept DEF IInv, TypeOK, CtxInv
<1> QED BY <1>1, <1>2, <1>3, <1>4, <1>5, <1>6, <1>7, <1>8 DEF IInv

(* proc_block() joins the wait list.                                       *)
LEMMA BlockEnterStep ==
  ASSUME NEW h \in Harts, IInv, BlockEnter(h)
  PROVE  IInv'
<1> USE DEF BlockEnter, On, LockPcb, Goto, procVars, hartVars, mutexVars, sleepVars
<1>0. Queued' = Queued
  BY DEF Queued
<1>a. cproc[h] \in Pids
  BY DEF IInv, TypeOK, CtxInv
<1>1. TypeOK'
  <2>1. waiters' \subseteq Pids
    BY <1>a DEF IInv, TypeOK
  <2>2. state' \in [Pids -> {"READY", "RUNNING", "BLOCK"}]
    BY DEF IInv, TypeOK
  <2> QED BY <2>1, <2>2 DEF IInv, TypeOK
<1>2. CtxInv' /\ OneHartInv' /\ OffHartInv'
  BY DEF IInv, TypeOK, OneHartInv, PcbInv, MlkInv, SlkInv, CtxInv, OffHartInv
<1>3. PcbInv' /\ MlkInv' /\ SlkInv'
  BY DEF IInv, TypeOK, CtxInv, OneHartInv, PcbInv, MlkInv, SlkInv
<1>4. RunInv'
  BY DEF IInv, TypeOK, CtxInv, OneHartInv, RunInv
<1>5. WaitInv'
  BY DEF IInv, TypeOK, CtxInv, WaitInv
<1>6. OnceInv' /\ SleepInv'
  BY <1>0 DEF IInv, TypeOK, OnceInv, CtxInv, SleepInv
<1>7. HolderInv' /\ WakeInv'
  BY DEF IInv, TypeOK, CtxInv, OneHartInv, HolderInv, WakeInv
<1>8. BlockedIsReachable'
  <2> SUFFICES ASSUME NEW x \in Pids, state'[x] = "BLOCK"
               PROVE  \/ x \in waiters'
                      \/ \E q \in Pids : pc'[q] = "mr_plk" /\ waking'[q] = x
                      \/ \E f \in sleepq' : f[2] = x
    BY DEF BlockedIsReachable
  <2>1. CASE x = cproc[h]
    BY <2>1
  <2>2. CASE x # cproc[h]
    <3>1. state[x] = "BLOCK"
      BY <2>2 DEF IInv, TypeOK
    <3>2. \A q \in Pids : pc[q] = "mr_plk" => pc'[q] = "mr_plk"
      BY DEF IInv, TypeOK
    <3> QED BY <3>1, <3>2 DEF IInv, BlockedIsReachable
  <2> QED BY <2>1, <2>2
<1> QED BY <1>1, <1>2, <1>3, <1>4, <1>5, <1>6, <1>7, <1>8 DEF IInv

(* proc_block() gives up m->lk.  Had the mutex been unlocked with someone  *)
(* on the list, mutex_release() would own m->lk.                           *)
LEMMA BlockReleaseStep ==
  ASSUME NEW h \in Harts, IInv, BlockRelease(h)
  PROVE  IInv'
<1> USE DEF BlockRelease, On, Goto, procVars, hartVars, mutexVars, sleepVars
<1>0. Queued' = Queued
  BY DEF Queued
<1>1. TypeOK'
  BY DEF IInv, TypeOK, CtxInv
<1>2. CtxInv' /\ OneHartInv' /\ OffHartInv'
  BY DEF IInv, TypeOK, OneHartInv, PcbInv, MlkInv, SlkInv, CtxInv, OffHartInv
<1>3. PcbInv' /\ MlkInv' /\ SlkInv'
  BY DEF IInv, TypeOK, CtxInv, OneHartInv, PcbInv, MlkInv, SlkInv
<1>4. RunInv'
  BY DEF IInv, TypeOK, CtxInv, OneHartInv, RunInv
<1>5. WaitInv'
  BY DEF IInv, TypeOK, CtxInv, WaitInv
<1>6. OnceInv' /\ SleepInv'
  BY <1>0 DEF IInv, TypeOK, OnceInv, CtxInv, SleepInv
<1>7. HolderInv' /\ WakeInv'
  BY DEF IInv, TypeOK, CtxInv, OneHartInv, HolderInv, MlkInv, OffHartInv,
       WakeInv
<1>8. BlockedIsReachable'
  BY ReachableKept DEF IInv, TypeOK, CtxInv
<1> QED BY <1>1, <1>2, <1>3, <1>4, <1>5, <1>6, <1>7, <1>8 DEF IInv

(* mutex_release() begins.                                                 *)
LEMMA ReleaseCallStep ==
  ASSUME NEW h \in Harts, IInv, ReleaseCall(h)
  PROVE  IInv'
<1> USE DEF ReleaseCall, On, Goto, procVars, hartVars, mutexVars, sleepVars
<1>0. Queued' = Queued
  BY DEF Queued
<1>1. TypeOK'
  BY DEF IInv, TypeOK, CtxInv
<1>2. CtxInv' /\ OneHartInv' /\ OffHartInv'
  BY DEF IInv, TypeOK, OneHartInv, PcbInv, MlkInv, SlkInv, CtxInv, OffHartInv
<1>3. PcbInv' /\ MlkInv' /\ SlkInv'
  BY DEF IInv, TypeOK, CtxInv, OneHartInv, PcbInv, MlkInv, SlkInv
<1>4. RunInv'
  BY DEF IInv, TypeOK, CtxInv, OneHartInv, RunInv
<1>5. WaitInv'
  BY DEF IInv, TypeOK, CtxInv, WaitInv
<1>6. OnceInv' /\ SleepInv'
  BY <1>0 DEF IInv, TypeOK, OnceInv, CtxInv, SleepInv
<1>7. HolderInv' /\ WakeInv'
  BY DEF IInv, TypeOK, CtxInv, OneHartInv, HolderInv, WakeInv
<1>8. BlockedIsReachable'
  BY ReachableKept DEF IInv, TypeOK, CtxInv
<1> QED BY <1>1, <1>2, <1>3, <1>4, <1>5, <1>6, <1>7, <1>8 DEF IInv

(* mutex_release() unlocks the mutex under m->lk: nobody is between its    *)
(* test of m->locked and proc_block().                                     *)
LEMMA ReleaseEnterStep ==
  ASSUME NEW h \in Harts, IInv, ReleaseEnter(h)
  PROVE  IInv'
<1> USE DEF ReleaseEnter, On, Goto, procVars, hartVars, mutexVars, sleepVars
<1>0. Queued' = Queued
  BY DEF Queued
<1>1. TypeOK'
  BY DEF IInv, TypeOK, CtxInv
<1>2. CtxInv' /\ OneHartInv' /\ OffHartInv'
  BY DEF IInv, TypeOK, OneHartInv, PcbInv, MlkInv, SlkInv, CtxInv, OffHartInv
<1>3. PcbInv' /\ MlkInv' /\ SlkInv'
  BY DEF IInv, TypeOK, CtxInv, OneHartInv, PcbInv, MlkInv, SlkInv
<1>4. RunInv'
  BY DEF IInv, TypeOK, CtxInv, OneHartInv, RunInv
<1>5. WaitInv'
  BY DEF IInv, TypeOK, CtxInv, WaitInv
<1>6. OnceInv' /\ SleepInv'
  BY <1>0 DEF IInv, TypeOK, OnceInv, CtxInv, SleepInv
<1>7. HolderInv'
  BY DEF IInv, TypeOK, CtxInv, OneHartInv, HolderInv
<1>8. WakeInv'
  <2>1. ASSUME NEW p \in Pids, pc[p] = "pb_acq" PROVE FALSE
    <3>1. PICK g \in Harts : ctx[g] = "proc" /\ cproc[g] = p
      BY <2>1 DEF IInv, OffHartInv
    <3>2. mlk = g
      BY <2>1, <3>1 DEF IInv, MlkInv
    <3> QED BY <3>2
  <2>2. cproc[h] \in Pids /\ pc'[cproc[h]] = "mr_wake"
    BY DEF IInv, TypeOK, CtxInv
  <2> QED BY <2>1, <2>2 DEF IInv, TypeOK, WakeInv
<1>9. BlockedIsReachable'
  BY ReachableKept DEF IInv, TypeOK, CtxInv
<1> QED BY <1>1, <1>2, <1>3, <1>4, <1>5, <1>6, <1>7, <1>8, <1>9 DEF IInv

(* proc_unblock_all() takes a process off the list.                        *)
LEMMA UnblockPickStep ==
  ASSUME NEW h \in Harts, IInv, UnblockPick(h)
  PROVE  IInv'
<1> USE DEF UnblockPick, On, Goto, procVars, hartVars, mutexVars, sleepVars
<1>0. Queued' = Queued
  BY DEF Queued
<1>a. cproc[h] \in Pids /\ pc[cproc[h]] = "mr_wake"
  BY DEF IInv, TypeOK, CtxInv
<1>b. PICK r \in waiters : /\ waiters' = waiters \ {r}
                           /\ waking' = [waking EXCEPT ![cproc[h]] = r]
  OBVIOUS
<1>1. TypeOK'
  <2>1. waiters' \subseteq Pids /\ waking' \in [Pids -> Pids \cup {0}]
    BY <1>b DEF IInv, TypeOK
  <2> QED BY <2>1 DEF IInv, TypeOK
<1>2. CtxInv' /\ OneHartInv' /\ OffHartInv'
  BY DEF IInv, TypeOK, OneHartInv, PcbInv, MlkInv, SlkInv, CtxInv, OffHartInv
<1>3. PcbInv' /\ MlkInv' /\ SlkInv'
  BY SMTT(30) DEF IInv, TypeOK, CtxInv, OneHartInv, PcbInv, MlkInv, SlkInv
<1>4. RunInv'
  BY DEF IInv, TypeOK, CtxInv, OneHartInv, RunInv
<1>5. WaitInv'
  BY SMTT(30) DEF IInv, TypeOK, CtxInv, WaitInv
<1>6. OnceInv' /\ SleepInv'
  BY <1>0 DEF IInv, TypeOK, OnceInv, CtxInv, SleepInv
<1>7. HolderInv' /\ WakeInv'
  BY SMTT(30) DEF IInv, TypeOK, CtxInv, OneHartInv, HolderInv, WakeInv
<1>8. BlockedIsReachable'
  <2> SUFFICES ASSUME NEW x \in Pids, state'[x] = "BLOCK"
               PROVE  \/ x \in waiters'
                      \/ \E q \in Pids : pc'[q] = "mr_plk" /\ waking'[q] = x
                      \/ \E f \in sleepq' : f[2] = x
    BY DEF BlockedIsReachable
  <2>1. \/ x \in waiters
        \/ \E q \in Pids : pc[q] = "mr_plk" /\ waking[q] = x
        \/ \E f \in sleepq : f[2] = x
    BY DEF IInv, BlockedIsReachable
  <2>2. CASE x \in waiters
    <3>1. CASE x = r
      <4>1. pc'[cproc[h]] = "mr_plk" /\ waking'[cproc[h]] = x
        BY <1>a, <1>b, <3>1 DEF IInv, TypeOK
      <4> QED BY <1>a, <4>1
    <3>2. CASE x # r
      BY <1>b, <2>2, <3>2
    <3> QED BY <3>1, <3>2
  <2>3. CASE \E q \in Pids : pc[q] = "mr_plk" /\ waking[q] = x
    BY <1>a, <1>b, <2>3 DEF IInv, TypeOK
  <2>4. CASE \E f \in sleepq : f[2] = x
    BY <2>4
  <2> QED BY <2>1, <2>2, <2>3, <2>4
<1> QED BY <1>1, <1>2, <1>3, <1>4, <1>5, <1>6, <1>7, <1>8 DEF IInv

(* proc_unblock_all() makes it ready.  There is one waker at a time, as it *)
(* owns m->lk.                                                             *)
LEMMA UnblockReadyStep ==
  ASSUME NEW h \in Harts, IInv, UnblockReady(h)
  PROVE  IInv'
<1> USE DEF UnblockReady, On, Goto, procVars, hartVars, mutexVars, sleepVars
<1>0. Queued' = Queued
  BY DEF Queued
<1>a. cproc[h] \in Pids /\ pc[cproc[h]] = "mr_plk"
  BY DEF IInv, TypeOK, CtxInv
<1>b. /\ waking[cproc[h]] \in Pids \ waiters
      /\ state[waking[cproc[h]]] = "BLOCK"
      /\ pc[waking[cproc[h]]] \in {"pb_rel", "pb_sched", "pb_ret"}
  BY <1>a DEF IInv, WaitInv
<1>c. ASSUME NEW r \in Pids, pc[r] = "mr_plk" PROVE r = cproc[h]
  <2>1. PICK g \in Harts : ctx[g] = "proc" /\ cproc[g] = r
    BY <1>c DEF IInv, OffHartInv
  <2>2. mlk = g /\ mlk = h
    BY <1>a, <1>c, <2>1 DEF IInv, MlkInv
  <2> QED BY <2>1, <2>2
<1>1. TypeOK'
  BY DEF IInv, TypeOK, CtxInv
<1>2. CtxInv' /\ OneHartInv' /\ OffHartInv'
  BY DEF IInv, TypeOK, OneHartInv, PcbInv, MlkInv, SlkInv, CtxInv, OffHartInv
<1>3. PcbInv' /\ MlkInv' /\ SlkInv'
  BY DEF IInv, TypeOK, CtxInv, OneHartInv, PcbInv, MlkInv, SlkInv
<1>4. RunInv'
  BY <1>a, <1>b DEF IInv, TypeOK, CtxInv, OneHartInv, RunInv
<1>5. WaitInv'
  BY <1>a, <1>b, <1>c DEF IInv, TypeOK, CtxInv, WaitInv
<1>6. OnceInv' /\ SleepInv'
  BY <1>0, <1>a, <1>b DEF IInv, TypeOK, OnceInv, CtxInv, SleepInv
<1>7. HolderInv' /\ WakeInv'
  BY DEF IInv, TypeOK, CtxInv, OneHartInv, HolderInv, WakeInv
<1>8. BlockedIsReachable'
  <2> SUFFICES ASSUME NEW x \in Pids, state'[x] = "BLOCK"
               PROVE  \/ x \in waiters'
                      \/ \E q \in Pids : pc'[q] = "mr_plk" /\ waking'[q] = x
                      \/ \E f \in sleepq' : f[2] = x
    BY DEF BlockedIsReachable
  <2>1. x # waking[cproc[h]] /\ state[x] = "BLOCK"
    BY <1>b DEF IInv, TypeOK
  <2>2. \/ x \in waiters
        \/ \E q \in Pids : pc[q] = "mr_plk" /\ waking[q] = x
        \/ \E f \in sleepq : f[2] = x
    BY <2>1 DEF IInv, BlockedIsReachable
  <2> QED BY <1>c, <2>1, <2>2
<1> QED BY <1>1, <1>2, <1>3, <1>4, <1>5, <1>6, <1>7, <1>8 DEF IInv

(* mutex_release() ends when the list is empty.                            *)
LEMMA ReleaseExitStep ==
  ASSUME NEW h \in Harts, IInv, ReleaseExit(h)
  PROVE  IInv'
<1> USE DEF ReleaseExit, On, Goto, procVars, hartVars, mutexVars, sleepVars
<1>0. Queued' = Queued
  BY DEF Queued
<1>1. TypeOK'
  BY DEF IInv, TypeOK, CtxInv
<1>2. CtxInv' /\ OneHartInv' /\ OffHartInv'
  BY DEF IInv, TypeOK, OneHartInv, PcbInv, MlkInv, SlkInv, CtxInv, OffHartInv
<1>3. PcbInv' /\ MlkInv' /\ SlkInv'
  BY DEF IInv, TypeOK, CtxInv, OneHartInv, PcbInv, MlkInv, SlkInv
<1>4. RunInv'
  BY DEF IInv, TypeOK, CtxInv, OneHartInv, RunInv
<1>5. WaitInv'
  BY DEF IInv, TypeOK, CtxInv, WaitInv
<1>6. OnceInv' /\ SleepInv'
  BY <1>0 DEF IInv, TypeOK, OnceInv, CtxInv, SleepInv
<1>7. HolderInv' /\ WakeInv'
  BY DEF IInv, TypeOK, CtxInv, OneHartInv, HolderInv, WakeInv
<1>8. BlockedIsReachable'
  BY ReachableKept DEF IInv, TypeOK, CtxInv
<1> QED BY <1>1, <1>2, <1>3, <1>4, <1>5, <1>6, <1>7, <1>8 DEF IInv

(* sys_msleep() takes sleep_lock.                                          *)
LEMMA SleepEnterStep ==
  ASSUME NEW h \in Harts, IInv, SleepEnter(h)
  PROVE  IInv'
<1> USE DEF SleepEnter, On, Goto, procVars, hartVars, mutexVars, sleepVars
<1>0. Queued' = Queued
  BY DEF Queued
<1>1. TypeOK'
  BY DEF IInv, TypeOK, CtxInv
<1>2. CtxInv' /\ OneHartInv' /\ OffHartInv'
  BY DEF IInv, TypeOK, OneHartInv, PcbInv, MlkInv, SlkInv, CtxInv, OffHartInv
<1>3. PcbInv' /\ MlkInv' /\ SlkInv'
  BY DEF IInv, TypeOK, CtxInv, OneHartInv, PcbInv, MlkInv, SlkInv
<1>4. RunInv'
  BY DEF IInv, TypeOK, CtxInv, OneHartInv, RunInv
<1>5. WaitInv'
  BY DEF IInv, TypeOK, CtxInv, WaitInv
<1>6. OnceInv' /\ SleepInv'
  BY <1>0 DEF IInv, TypeOK, OnceInv, CtxInv, SleepInv
<1>7. HolderInv' /\ WakeInv'
  BY DEF IInv, TypeOK, CtxInv, OneHartInv, HolderInv, WakeInv
<1>8. BlockedIsReachable'
  BY ReachableKept DEF IInv, TypeOK, CtxInv
<1> QED BY <1>1, <1>2, <1>3, <1>4, <1>5, <1>6, <1>7, <1>8 DEF IInv

(* sys_msleep() joins the sleep queue, where it was not.                   *)
LEMMA SleepPushStep ==
  ASSUME NEW h \in Harts, IInv, SleepPush(h)
  PROVE  IInv'
<1> USE DEF SleepPush, On, LockPcb, Goto, procVars, hartVars, mutexVars, sleepVars
<1>a. cproc[h] \in Pids /\ cproc[h] \notin Queued
  BY ZenonT(30) DEF IInv, TypeOK, CtxInv, SleepInv
<1>b. PICK d \in 1 .. MaxSleep : sleepq' = sleepq \cup {<<ticks + d, cproc[h]>>}
  OBVIOUS
<1>c. \A x \in Pids : x \in Queued' <=> x \in Queued \/ x = cproc[h]
  <2>1. ASSUME NEW x \in Pids, x \in Queued' PROVE x \in Queued \/ x = cproc[h]
    <3>1. PICK e \in sleepq' : x = e[2]
      BY <2>1 DEF Queued
    <3>2. e \in sleepq \/ e = <<ticks + d, cproc[h]>>
      BY <1>b
    <3> QED BY <3>1, <3>2 DEF Queued
  <2>2. ASSUME NEW x \in Pids, x \in Queued PROVE x \in Queued'
    BY <1>b, <2>2 DEF Queued
  <2>3. cproc[h] \in Queued'
    <3>1. /\ <<ticks + d, cproc[h]>> \in sleepq'
          /\ <<ticks + d, cproc[h]>>[2] = cproc[h]
      BY <1>b
    <3> QED BY <3>1 DEF Queued
  <2> QED BY <2>1, <2>2, <2>3
<1>1. TypeOK'
  BY SMTT(30) DEF IInv, TypeOK, CtxInv
<1>2. CtxInv' /\ OneHartInv' /\ OffHartInv'
  BY DEF IInv, TypeOK, OneHartInv, PcbInv, MlkInv, SlkInv, CtxInv, OffHartInv
<1>3. PcbInv' /\ MlkInv' /\ SlkInv'
  BY DEF IInv, TypeOK, CtxInv, OneHartInv, PcbInv, MlkInv, SlkInv
<1>4. RunInv'
  BY DEF IInv, TypeOK, CtxInv, OneHartInv, RunInv
<1>5. WaitInv'
  BY DEF IInv, TypeOK, CtxInv, WaitInv
<1>6. OnceInv'
  <2>1. \A e \in sleepq : e[2] # cproc[h]
    BY <1>a DEF Queued
  <2> QED BY <1>b, <2>1 DEF IInv, OnceInv
<1>7. SleepInv'
  BY <1>a, <1>c DEF IInv, TypeOK, CtxInv, SleepInv
<1>8. HolderInv' /\ WakeInv'
  BY DEF IInv, TypeOK, CtxInv, OneHartInv, HolderInv, WakeInv
<1>9. BlockedIsReachable'
  BY ReachableKept DEF IInv, TypeOK, CtxInv
<1> QED BY <1>1, <1>2, <1>3, <1>4, <1>5, <1>6, <1>7, <1>8, <1>9 DEF IInv

(* sys_msleep() gives up sleep_lock.                                       *)
LEMMA SleepReleaseStep ==
  ASSUME NEW h \in Harts, IInv, SleepRelease(h)
  PROVE  IInv'
<1> USE DEF SleepRelease, On, Goto, procVars, hartVars, mutexVars, sleepVars
<1>0. Queued' = Queued
  BY DEF Queued
<1>1. TypeOK'
  BY DEF IInv, TypeOK, CtxInv
<1>2. CtxInv' /\ OneHartInv' /\ OffHartInv'
  BY DEF IInv, TypeOK, OneHartInv, PcbInv, MlkInv, SlkInv, CtxInv, OffHartInv
<1>3. PcbInv' /\ MlkInv' /\ SlkInv'
  BY DEF IInv, TypeOK, CtxInv, OneHartInv, PcbInv, MlkInv, SlkInv
<1>4. RunInv'
  BY DEF IInv, TypeOK, CtxInv, OneHartInv, RunInv
<1>5. WaitInv'
  BY DEF IInv, TypeOK, CtxInv, WaitInv
<1>6. OnceInv' /\ SleepInv'
  BY <1>0 DEF IInv, TypeOK, OnceInv, CtxInv, SleepInv
<1>7. HolderInv' /\ WakeInv'
  BY DEF IInv, TypeOK, CtxInv, OneHartInv, HolderInv, WakeInv
<1>8. BlockedIsReachable'
  BY ReachableKept DEF IInv, TypeOK, CtxInv
<1> QED BY <1>1, <1>2, <1>3, <1>4, <1>5, <1>6, <1>7, <1>8 DEF IInv

(* A system call from user mode.                                           *)
LEMMA SysCallToStep ==
  ASSUME NEW h \in Harts, NEW l \in {"ma_acq", "ms_acq"}, IInv, SysCallTo(h, l)
  PROVE  IInv'
<1> USE DEF SysCallTo, On, Goto, procVars, hartVars, mutexVars, sleepVars
<1>0. Queued' = Queued
  BY DEF Queued
<1>1. TypeOK'
  BY DEF IInv, TypeOK, CtxInv
<1>2. CtxInv' /\ OneHartInv' /\ OffHartInv'
  BY DEF IInv, TypeOK, OneHartInv, PcbInv, MlkInv, SlkInv, CtxInv, OffHartInv
<1>3. PcbInv' /\ MlkInv' /\ SlkInv'
  BY SMTT(30) DEF IInv, TypeOK, CtxInv, OneHartInv, PcbInv, MlkInv, SlkInv
<1>4. RunInv'
  BY DEF IInv, TypeOK, CtxInv, OneHartInv, RunInv
<1>5. WaitInv'
  BY DEF IInv, TypeOK, CtxInv, WaitInv
<1>6. OnceInv' /\ SleepInv'
  BY <1>0 DEF IInv, TypeOK, OnceInv, CtxInv, SleepInv
<1>7. HolderInv' /\ WakeInv'
  BY DEF IInv, TypeOK, CtxInv, OneHartInv, HolderInv, WakeInv
<1>8. BlockedIsReachable'
  BY ReachableKept DEF IInv, TypeOK, CtxInv
<1> QED BY <1>1, <1>2, <1>3, <1>4, <1>5, <1>6, <1>7, <1>8 DEF IInv

(* A timer interrupt, on a hart that owns no lock.                         *)
LEMMA TimerInterruptStep ==
  ASSUME NEW h \in Harts, IInv, TimerInterrupt(h)
  PROVE  IInv'
<1> USE DEF TimerInterrupt, OwnsNone, On, procVars, hartVars, mutexVars, sleepVars
<1>0. Queued' = Queued
  BY DEF Queued
<1>1. TypeOK'
  BY SMTT(30) DEF IInv, TypeOK, CtxInv
<1>2. CtxInv' /\ OneHartInv' /\ OffHartInv'
  BY DEF IInv, TypeOK, OneHartInv, PcbInv, MlkInv, SlkInv, CtxInv, OffHartInv
<1>3. PcbInv' /\ MlkInv' /\ SlkInv'
  BY DEF IInv, TypeOK, CtxInv, OneHartInv, PcbInv, MlkInv, SlkInv
<1>4. RunInv'
  BY DEF IInv, TypeOK, CtxInv, OneHartInv, RunInv
<1>5. WaitInv'
  BY DEF IInv, TypeOK, CtxInv, WaitInv
<1>6. OnceInv' /\ SleepInv'
  BY <1>0 DEF IInv, TypeOK, OnceInv, CtxInv, SleepInv
<1>7. HolderInv' /\ WakeInv'
  BY DEF IInv, TypeOK, CtxInv, OneHartInv, HolderInv, WakeInv
<1>8. BlockedIsReachable'
  BY ReachableKept DEF IInv, TypeOK, CtxInv
<1> QED BY <1>1, <1>2, <1>3, <1>4, <1>5, <1>6, <1>7, <1>8 DEF IInv

(* time_wakeup() takes sleep_lock.                                         *)
LEMMA WakeupEnterStep ==
  ASSUME NEW h \in Harts, IInv, WakeupEnter(h)
  PROVE  IInv'
<1> USE DEF WakeupEnter, procVars, hartVars, mutexVars, sleepVars
<1>0. Queued' = Queued
  BY DEF Queued
<1>1. TypeOK'
  BY DEF IInv, TypeOK, CtxInv
<1>2. CtxInv' /\ OneHartInv' /\ OffHartInv'
  BY DEF IInv, TypeOK, OneHartInv, PcbInv, MlkInv, SlkInv, CtxInv, OffHartInv
<1>3. PcbInv' /\ MlkInv' /\ SlkInv'
  BY DEF IInv, TypeOK, CtxInv, OneHartInv, PcbInv, MlkInv, SlkInv
<1>4. RunInv'
  BY DEF IInv, TypeOK, CtxInv, OneHartInv, RunInv
<1>5. WaitInv'
  BY DEF IInv, TypeOK, CtxInv, WaitInv
<1>6. OnceInv' /\ SleepInv'
  BY <1>0 DEF IInv, TypeOK, OnceInv, CtxInv, SleepInv
<1>7. HolderInv' /\ WakeInv'
  BY DEF IInv, TypeOK, CtxInv, OneHartInv, HolderInv, WakeInv
<1>8. BlockedIsReachable'
  BY ReachableKept DEF IInv, TypeOK, CtxInv
<1> QED BY <1>1, <1>2, <1>3, <1>4, <1>5, <1>6, <1>7, <1>8 DEF IInv

(* time_wakeup() wakes a sleeper.  Its pcblock is free, so it is off its   *)
(* stack, and therefore blocked.                                           *)
LEMMA WakeupOneStep ==
  ASSUME NEW h \in Harts, IInv, WakeupOne(h)
  PROVE  IInv'
<1> USE DEF WakeupOne, Due, procVars, hartVars, mutexVars, sleepVars
<1>a. PICK e \in sleepq : /\ pcblock[e[2]] = NoHart
                           /\ state' = [state EXCEPT ![e[2]] = "READY"]
                           /\ sleepq' = sleepq \ {e}
  BY DEF Due
<1>b. /\ e[2] \in Pids /\ e[2] \in Queued
      /\ pc[e[2]] = "ms_ret" /\ state[e[2]] = "BLOCK"
      /\ \A g \in Harts : ctx[g] = "proc" => cproc[g] # e[2]
  BY <1>a, SleeperIsOff
<1>c. Queued' = Queued \ {e[2]}
  BY <1>a DEF Queued, IInv, OnceInv
<1>1. TypeOK'
  BY <1>a, <1>b DEF IInv, TypeOK, CtxInv
<1>2. CtxInv' /\ OneHartInv' /\ OffHartInv'
  BY DEF IInv, TypeOK, OneHartInv, PcbInv, MlkInv, SlkInv, CtxInv, OffHartInv
<1>3. PcbInv' /\ MlkInv' /\ SlkInv'
  BY DEF IInv, TypeOK, CtxInv, OneHartInv, PcbInv, MlkInv, SlkInv
<1>4. RunInv'
  BY <1>a, <1>b, SMTT(30) DEF IInv, TypeOK, CtxInv, OneHartInv, RunInv
<1>5. WaitInv'
  BY <1>a, <1>b, SMTT(30) DEF IInv, TypeOK, CtxInv, WaitInv
<1>6. OnceInv' /\ SleepInv'
  BY <1>a, <1>b, <1>c, SMTT(30) DEF IInv, TypeOK, OnceInv, CtxInv, SleepInv
<1>7. HolderInv' /\ WakeInv'
  BY DEF IInv, TypeOK, CtxInv, OneHartInv, HolderInv, WakeInv
<1>8. BlockedIsReachable'
  <2> SUFFICES ASSUME NEW x \in Pids, state'[x] = "BLOCK"
               PROVE  \/ x \in waiters'
                      \/ \E q \in Pids : pc'[q] = "mr_plk" /\ waking'[q] = x
                      \/ \E f \in sleepq' : f[2] = x
    BY DEF BlockedIsReachable
  <2>1. x # e[2] /\ state[x] = "BLOCK"
    BY <1>a, <1>b DEF IInv, TypeOK
  <2>2. \/ x \in waiters
        \/ \E q \in Pids : pc[q] = "mr_plk" /\ waking[q] = x
        \/ \E f \in sleepq : f[2] = x
    BY <2>1 DEF IInv, BlockedIsReachable
  <2> QED BY <1>a, <2>1, <2>2
<1> QED BY <1>1, <1>2, <1>3, <1>4, <1>5, <1>6, <1>7, <1>8 DEF IInv

(* time_wakeup() ends.                                                     *)
LEMMA WakeupExitStep ==
  ASSUME NEW h \in Harts, IInv, WakeupExit(h)
  PROVE  IInv'
<1> USE DEF WakeupExit, procVars, hartVars, mutexVars, sleepVars
<1>0. Queued' = Queued
  BY DEF Queued
<1>1. TypeOK'
  BY DEF IInv, TypeOK, CtxInv
<1>2. CtxInv' /\ OneHartInv' /\ OffHartInv'
  BY DEF IInv, TypeOK, OneHartInv, PcbInv, MlkInv, SlkInv, CtxInv, OffHartInv
<1>3. PcbInv' /\ MlkInv' /\ SlkInv'
  BY DEF IInv, TypeOK, CtxInv, OneHartInv, PcbInv, MlkInv, SlkInv
<1>4. RunInv'
  BY DEF IInv, TypeOK, CtxInv, OneHartInv, RunInv
<1>5. WaitInv'
  BY DEF IInv, TypeOK, CtxInv, WaitInv
<1>6. OnceInv' /\ SleepInv'
  BY <1>0 DEF IInv, TypeOK, OnceInv, CtxInv, SleepInv
<1>7. HolderInv' /\ WakeInv'
  BY DEF IInv, TypeOK, CtxInv, OneHartInv, HolderInv, WakeInv
<1>8. BlockedIsReachable'
  BY ReachableKept DEF IInv, TypeOK, CtxInv
<1> QED BY <1>1, <1>2, <1>3, <1>4, <1>5, <1>6, <1>7, <1>8 DEF IInv

-----------------------------------------------------------------------------
(* IInv holds when the harts enter scheduler(): no lock is owned and every *)
(* process is where forkret() starts.                                      *)
LEMMA InitIInv == Init => IInv
<1> SUFFICES ASSUME Init PROVE IInv
  OBVIOUS
<1> USE DEF Init
<1>1. TypeOK
  <2>1. 1 \in Pids /\ Priority \in 1 .. Priority
    OBVIOUS
  <2>2. /\ state \in [Pids -> {"READY", "RUNNING", "BLOCK"}]
        /\ slice \in [Pids -> 1 .. Priority]
        /\ scan \in [Harts -> Pids]
    BY <2>1
  <2>3. sleepq \subseteq (Nat \X Pids) /\ waiters \subseteq Pids /\ ticks \in Nat
    OBVIOUS
  <2> QED BY <2>2, <2>3 DEF TypeOK
<1>2. Queued = {}
  BY DEF Queued
<1>3. CtxInv /\ OneHartInv /\ OffHartInv
  BY DEF CtxInv, OneHartInv, OffHartInv
<1>4. PcbInv /\ MlkInv /\ SlkInv
  BY DEF PcbInv, MlkInv, SlkInv
<1>5. RunInv /\ WaitInv /\ OnceInv /\ SleepInv
  BY <1>2 DEF RunInv, WaitInv, OnceInv, SleepInv
<1>6. HolderInv /\ WakeInv /\ BlockedIsReachable
  BY DEF HolderInv, WakeInv, BlockedIsReachable
<1> QED BY <1>1, <1>3, <1>4, <1>5, <1>6 DEF IInv

(* A step of none of the variables keeps IInv.                             *)
LEMMA StutterIInv == IInv /\ UNCHANGED vars => IInv'
<1> SUFFICES ASSUME IInv, UNCHANGED vars PROVE IInv'
  OBVIOUS
<1> USE DEF vars, procVars, hartVars, mutexVars, sleepVars
<1>1. TypeOK' /\ CtxInv' /\ OneHartInv' /\ OffHartInv'
  BY DEF IInv, TypeOK, CtxInv, OneHartInv, OffHartInv
<1>2. PcbInv' /\ MlkInv' /\ SlkInv' /\ RunInv'
  BY DEF IInv, PcbInv, MlkInv, SlkInv, RunInv
<1>3. WaitInv' /\ OnceInv' /\ SleepInv'
  BY DEF IInv, WaitInv, OnceInv, SleepInv, Queued
<1>4. HolderInv' /\ WakeInv' /\ BlockedIsReachable'
  BY DEF IInv, HolderInv, WakeInv, BlockedIsReachable
<1> QED BY <1>1, <1>2, <1>3, <1>4 DEF IInv

(* Every action of every hart keeps IInv.                                  *)
LEMMA NextIInv == IInv /\ [Next]_vars => IInv'
<1> SUFFICES ASSUME IInv, [Next]_vars PROVE IInv'
  OBVIOUS
<1>1. ASSUME NEW h \in Harts, SchedCall(h) PROVE IInv'
  BY <1>1, SchedYieldStep, SchedBlockStep, SchedSleepStep DEF SchedCall
<1>2. ASSUME NEW h \in Harts, Resume(h) PROVE IInv'
  BY <1>2, ResumeAtStep DEF Resume
<1>3. ASSUME NEW h \in Harts, Tail(h) PROVE IInv'
  BY <1>3, TailYieldStep, TailReturnStep DEF Tail
<1>4. ASSUME NEW h \in Harts, AcquireTest(h) PROVE IInv'
  BY <1>4, AcquireBusyStep, AcquireFreeStep DEF AcquireTest
<1>5. ASSUME NEW h \in Harts, SysCall(h) PROVE IInv'
  BY <1>5, SysCallToStep DEF SysCall
<1>6. ASSUME NEW h \in Harts, KernelStep(h) PROVE IInv'
  BY <1>1, <1>2, <1>3, <1>4, <1>6, SchedAcquireStep, SchedSkipStep,
     SchedSwitchStep, SchedBackStep, AcquireEnterStep, BlockEnterStep,
     BlockReleaseStep, ReleaseCallStep, ReleaseEnterStep, UnblockPickStep,
     UnblockReadyStep, ReleaseExitStep, SleepEnterStep, SleepPushStep,
     SleepReleaseStep DEF KernelStep
<1>7. ASSUME NEW h \in Harts, HandlerStep(h) PROVE IInv'
  BY <1>7, WakeupEnterStep, WakeupOneStep, WakeupExitStep DEF HandlerStep
<1>8. CASE Next
  BY <1>5, <1>6, <1>7, <1>8, TimerInterruptStep DEF Next
<1>9. CASE UNCHANGED vars
  BY <1>9, StutterIInv
<1> QED BY <1>8, <1>9

(* IInv is an invariant of the harts, the scheduler and the mutex.         *)
THEOREM Invariance == Spec => []IInv
<1>1. Init => IInv
  BY InitIInv
<1>2. IInv /\ [Next]_vars => IInv'
  BY NextIInv
<1> QED BY <1>1, <1>2, PTL DEF Spec

-----------------------------------------------------------------------------
(* Every variable of the scheduler keeps its type; in particular scan      *)
(* indexes, time slices and the pids on lists stay in range.               *)
THEOREM TypeCorrect == Spec => []TypeOK
<1>1. IInv => TypeOK
  BY DEF IInv
<1> QED BY <1>1, Invariance, PTL

(* No process is ever executed by two harts: the hand-over of its pcblock  *)
(* from sched() to scheduler() covers the whole use of its stack.          *)
THEOREM OneHart == Spec => []RunsOnOneHart
<1>1. IInv => RunsOnOneHart
  BY DEF IInv, OneHartInv, RunInv, RunsOnOneHart
<1> QED BY <1>1, Invariance, PTL

(* The assertions at the head of sched() hold at every call.               *)
THEOREM SchedIsCalledRight == Spec => []SchedAssertions
<1>1. ASSUME IInv, NEW h \in Harts, ctx[h] = "proc", pc[cproc[h]] \in AtSched
      PROVE  /\ pcblock[cproc[h]] = h /\ mlk # h /\ slk # h
             /\ \A q \in Pids \ {cproc[h]} : pcblock[q] # h
             /\ pc[cproc[h]] # "ms_sched" => state[cproc[h]] # "RUNNING"
  <2>1. cproc[h] \in Pids /\ cproc[h] = scan[h] /\ ih[h] = "none"
    BY <1>1 DEF IInv, TypeOK, CtxInv
  <2>2. pcblock[cproc[h]] = h /\ \A q \in Pids \ {cproc[h]} : pcblock[q] # h
    BY <1>1, <2>1 DEF IInv, PcbInv
  <2>3. mlk # h /\ slk # h
    BY <1>1, <2>1 DEF IInv, MlkInv, SlkInv
  <2>4. pc[cproc[h]] # "ms_sched" => state[cproc[h]] # "RUNNING"
    BY <1>1, <2>1 DEF IInv, RunInv
  <2> QED BY <2>2, <2>3, <2>4
<1>2. IInv => SchedAssertions
  BY <1>1 DEF SchedAssertions
<1> QED BY <1>2, Invariance, PTL

(* The mutex has one holder, the one m->pid names, so that the assertion   *)
(* of mutex_release() on mutex_holding() holds.                            *)
THEOREM MutualExclusion == Spec => []MutexExclusive
<1>1. IInv => MutexExclusive
  BY DEF IInv, HolderInv, MutexExclusive
<1> QED BY <1>1, Invariance, PTL

(* No wake-up of a process waiting for the mutex is lost.                  *)
THEOREM WakeupsAreKept == Spec => []NoLostWakeup
<1>1. ASSUME IInv, waiters # {}, mlk = NoHart, ~locked PROVE FALSE
  <2>1. PICK p \in Pids : pc[p] \in {"mr_wake", "mr_plk"}
    BY <1>1 DEF IInv, WakeInv
  <2>2. PICK g \in Harts : ctx[g] = "proc" /\ cproc[g] = p
    BY <1>1, <2>1 DEF IInv, OffHartInv
  <2>3. mlk = g
    BY <1>1, <2>1, <2>2 DEF IInv, MlkInv
  <2> QED BY <1>1, <2>3
<1>2. IInv => NoLostWakeup
  BY <1>1 DEF NoLostWakeup
<1> QED BY <1>2, Invariance, PTL

(* The assertions of proc_unblock_all() and time_wakeup() on the process   *)
(* they make ready hold at every wake-up.                                  *)
THEOREM WakersAreRight == Spec => []WakeAssertions
<1>1. ASSUME IInv, NEW h \in Harts, On(h, "mr_plk")
      PROVE  state[waking[cproc[h]]] = "BLOCK" /\ waking[cproc[h]] # cproc[h]
  <2>1. cproc[h] \in Pids /\ pc[cproc[h]] = "mr_plk"
    BY <1>1 DEF On, IInv, TypeOK, CtxInv
  <2> QED BY <1>1, <2>1 DEF IInv, WaitInv
<1>2. ASSUME IInv, NEW h \in Harts, NEW e \in Due, ih[h] = "loop",
             pcblock[e[2]] = NoHart
      PROVE  state[e[2]] = "BLOCK" /\ e[2] # cproc[h]
  <2>1. e \in sleepq
    BY DEF Due
  <2>2. /\ e[2] \in Pids /\ state[e[2]] = "BLOCK"
        /\ \A g \in Harts : ctx[g] = "proc" => cproc[g] # e[2]
    BY <1>2, <2>1, SleeperIsOff
  <2>3. ctx[h] \in {"scan", "proc"} /\ (ctx[h] = "scan" => cproc[h] = 0)
    BY <1>2 DEF IInv, CtxInv
  <2> QED BY <2>2, <2>3
<1>3. IInv => WakeAssertions
  BY <1>1, <1>2 DEF WakeAssertions
<1> QED BY <1>3, Invariance, PTL

(* No hart tries to take a spin lock it already owns, in a kernel thread   *)
(* or in the interrupt handler on top of one.                              *)
THEOREM NeverReacquires == Spec => []NoReacquire
<1>1. ASSUME IInv, NEW h \in Harts
      PROVE  /\ ih[h] = "acq" => slk # h
             /\ ih[h] = "loop" => \A e \in Due : pcblock[e[2]] # h
  <2>1. ASSUME ih[h] # "none", NEW p \in Pids PROVE pcblock[p] # h
    BY <1>1, <2>1 DEF IInv, TypeOK, CtxInv, PcbInv
  <2>2. \A e \in Due : e[2] \in Pids
    BY <1>1 DEF IInv, TypeOK, Due
  <2>3. ih[h] = "acq" => slk # h
    BY <1>1 DEF IInv, TypeOK, CtxInv, SlkInv
  <2> QED BY <2>1, <2>2, <2>3
<1>2. ASSUME IInv, NEW h \in Harts, ctx[h] = "scan" PROVE pcblock[scan[h]] # h
  <2>1. scan[h] \in Pids
    BY <1>2 DEF IInv, TypeOK
  <2> QED BY <1>2, <2>1 DEF IInv, PcbInv
<1>3. ASSUME IInv, NEW h \in Harts, ctx[h] = "proc", ih[h] = "none"
      PROVE  LET p == cproc[h] IN
             /\ pc[p] \in {"ma_acq", "pb_relk", "cs", "mr_acq"} => mlk # h
             /\ pc[p] \in {"tail", "pb_acq", "ms_plk"} => pcblock[p] # h
             /\ pc[p] = "ms_acq" => slk # h
             /\ pc[p] = "mr_plk" => pcblock[waking[p]] # h
  <2>1. cproc[h] \in Pids /\ cproc[h] = scan[h]
    BY <1>3 DEF IInv, TypeOK, CtxInv
  <2>2. pc[cproc[h]] \in {"ma_acq", "pb_relk", "cs", "mr_acq"} => mlk # h
    BY <1>3 DEF IInv, MlkInv
  <2>3. pc[cproc[h]] \in {"tail", "pb_acq", "ms_plk"} => pcblock[cproc[h]] # h
    BY <1>3, <2>1 DEF IInv, PcbInv
  <2>4. pc[cproc[h]] = "ms_acq" => slk # h
    BY <1>3 DEF IInv, SlkInv
  <2>5. ASSUME pc[cproc[h]] = "mr_plk" PROVE pcblock[waking[cproc[h]]] # h
    <3>1. /\ waking[cproc[h]] \in Pids
          /\ pc[waking[cproc[h]]] \in {"pb_rel", "pb_sched", "pb_ret"}
      BY <1>3, <2>1, <2>5 DEF IInv, WaitInv
    <3>2. waking[cproc[h]] # scan[h]
      BY <2>1, <2>5, <3>1
    <3> QED BY <1>3, <3>1, <3>2 DEF IInv, PcbInv
  <2> QED BY <2>2, <2>3, <2>4, <2>5
<1>4. IInv => NoReacquire
  BY <1>1, <1>2, <1>3 DEF NoReacquire
<1> QED BY <1>4, Invariance, PTL

(* Every blocked process can be found by the one that is to wake it.       *)
THEOREM BlockedCanBeWoken == Spec => []BlockedIsReachable
<1>1. IInv => BlockedIsReachable
  BY DEF IInv
<1> QED BY <1>1, Invariance, PTL

(* No assertion or panic of sched(), proc_unblock_all(), time_wakeup(),    *)
(* do_acquire() and mutex_release() can fail.                              *)
THEOREM NoAssertionFails == Spec => []KernelAssertions
<1>1. SchedAssertions /\ WakeAssertions /\ NoReacquire /\ MutexExclusive => KernelAssertions
  BY DEF KernelAssertions
<1> QED BY <1>1, SchedIsCalledRight, WakersAreRight, NeverReacquires, MutualExclusion, PTL

(* Every blocked process is on a list its waker looks at, and one on the   *)
(* list of the mutex has a holder that will release it.                    *)
THEOREM WakersFindAll == Spec => []WakeupsFind
<1>1. NoLostWakeup /\ BlockedIsReachable => WakeupsFind
  BY DEF WakeupsFind
<1> QED BY <1>1, WakeupsAreKept, BlockedCanBeWoken, PTL

-----------------------------------------------------------------------------
(* Moving one process changes who is inside mutex_acquire() accordingly.   *)
LEMMA WantingMoves ==
  ASSUME TypeOK, NEW p \in Pids, NEW l \in PCs, pc' = [pc EXCEPT ![p] = l]
  PROVE  /\ l \in InAcquire => Wanting' = Wanting \cup {p}
         /\ l \notin InAcquire => Wanting' = Wanting \ {p}
<1>1. \A q \in Pids : pc'[q] = IF q = p THEN l ELSE pc[q]
  BY DEF TypeOK
<1> QED BY <1>1 DEF Wanting

(* The abstract lock does not see a step that moves no process and leaves  *)
(* m->pid alone ...                                                        *)
LEMMA UnseenStill ==
  ASSUME pc' = pc, mpid' = mpid
  PROVE  UNCHANGED <<mpid, Wanting>>
BY DEF Wanting

(* ... nor one that moves a process inside or outside mutex_acquire().     *)
LEMMA UnseenMove ==
  ASSUME TypeOK, CtxInv, NEW h \in Harts, NEW l \in PCs, ctx[h] = "proc",
         Goto(h, l), mpid' = mpid,
         l \in InAcquire <=> pc[cproc[h]] \in InAcquire
  PROVE  UNCHANGED <<mpid, Wanting>>
<1>1. cproc[h] \in Pids
  BY DEF TypeOK, CtxInv
<1>2. cproc[h] \in Wanting <=> l \in InAcquire
  BY <1>1 DEF Wanting
<1>3. /\ l \in InAcquire => Wanting' = Wanting \cup {cproc[h]}
      /\ l \notin InAcquire => Wanting' = Wanting \ {cproc[h]}
  BY <1>1, WantingMoves DEF Goto
<1> QED BY <1>2, <1>3

(* mutex_acquire() and mutex_release() on the scheduler implement the      *)
(* abstract sleeping lock: the call, the step that sets m->locked and the  *)
(* step that clears it are its three actions.                              *)
THEOREM SleepLockStep == IInv /\ [Next]_vars => [SL!Next]_<<mpid, Wanting>>
<1> SUFFICES ASSUME IInv, [Next]_vars
             PROVE  SL!Next \/ UNCHANGED <<mpid, Wanting>>
  OBVIOUS
<1> USE DEF procVars, hartVars, mutexVars, sleepVars, InAcquire
<1>0. TypeOK /\ CtxInv
  BY DEF IInv
<1>1. ASSUME NEW h \in Harts, SysCallTo(h, "ma_acq") PROVE SL!Next
  <2>1. cproc[h] \in Pids /\ pc[cproc[h]] = "user" /\ mpid' = mpid
    BY <1>1 DEF IInv, TypeOK, CtxInv, SysCallTo, On
  <2>2. Wanting' = Wanting \cup {cproc[h]} /\ cproc[h] \notin Wanting
    BY <1>0, <1>1, <2>1, WantingMoves DEF SysCallTo, Goto, Wanting
  <2>3. mpid # cproc[h]
    BY <2>1 DEF IInv, HolderInv
  <2>4. SL!Ask(cproc[h])
    BY <2>1, <2>2, <2>3 DEF SL!Ask
  <2> QED BY <2>1, <2>4 DEF SL!Next
<1>2. ASSUME NEW h \in Harts, AcquireFree(h) PROVE SL!Next
  <2>1. cproc[h] \in Pids /\ pc[cproc[h]] = "ma_test" /\ mpid' = cproc[h]
    BY <1>2 DEF IInv, TypeOK, CtxInv, AcquireFree, On
  <2>2. Wanting' = Wanting \ {cproc[h]}
    <3>1. pc' = [pc EXCEPT ![cproc[h]] = "cs"]
      BY <1>2 DEF AcquireFree, Goto
    <3>2. "cs" \in PCs /\ "cs" \notin InAcquire
      OBVIOUS
    <3> HIDE DEF InAcquire, PCs
    <3> QED BY <1>0, <2>1, <3>1, <3>2, WantingMoves
  <2>3. cproc[h] \in Wanting
    BY <2>1 DEF Wanting
  <2>4. mpid = 0
    BY <1>2 DEF IInv, HolderInv, AcquireFree
  <2>5. SL!Take(cproc[h])
    BY <2>1, <2>2, <2>3, <2>4 DEF SL!Take
  <2> QED BY <2>1, <2>5 DEF SL!Next
<1>3. ASSUME NEW h \in Harts, ReleaseEnter(h) PROVE SL!Next
  <2>1. cproc[h] \in Pids /\ pc[cproc[h]] = "mr_acq" /\ mpid' = 0
    BY <1>3 DEF IInv, TypeOK, CtxInv, ReleaseEnter, On
  <2>2. Wanting' = Wanting \ {cproc[h]}
    <3>1. pc' = [pc EXCEPT ![cproc[h]] = "mr_wake"]
      BY <1>3 DEF ReleaseEnter, Goto
    <3>2. "mr_wake" \in PCs /\ "mr_wake" \notin InAcquire
      OBVIOUS
    <3> HIDE DEF InAcquire, PCs
    <3> QED BY <1>0, <2>1, <3>1, <3>2, WantingMoves
  <2>3. cproc[h] \notin Wanting
    BY <2>1 DEF Wanting
  <2>4. mpid = cproc[h]
    BY <2>1 DEF IInv, HolderInv
  <2>5. SL!Give(cproc[h])
    BY <2>1, <2>2, <2>3, <2>4 DEF SL!Give
  <2> QED BY <2>1, <2>5 DEF SL!Next
<1>4. ASSUME NEW h \in Harts,
             \/ SchedAcquire(h) \/ SchedSkip(h) \/ SchedSwitch(h) \/ SchedBack(h)
             \/ HandlerStep(h)
      PROVE  UNCHANGED <<mpid, Wanting>>
  <2>1. pc' = pc /\ mpid' = mpid
    BY <1>4 DEF SchedAcquire, SchedSkip, SchedSwitch, SchedBack, HandlerStep,
       WakeupEnter, WakeupOne, WakeupExit
  <2> QED BY <2>1, UnseenStill
<1>5. ASSUME NEW h \in Harts, SchedCall(h) \/ Resume(h) \/ Tail(h)
      PROVE  UNCHANGED <<mpid, Wanting>>
  <2>1. CASE SchedCall(h)
    BY <1>0, <2>1, UnseenMove DEF SchedCall, SchedAt, On
  <2>2. CASE Resume(h)
    BY <1>0, <2>2, UnseenMove DEF Resume, ResumeAt, On
  <2>3. CASE Tail(h)
    BY <1>0, <2>3, UnseenMove DEF Tail, TailYield, TailReturn, On
  <2> QED BY <1>5, <2>1, <2>2, <2>3
<1>6. ASSUME NEW h \in Harts,
             \/ AcquireEnter(h) \/ AcquireBusy(h) \/ BlockEnter(h)
             \/ BlockRelease(h) \/ ReleaseCall(h) \/ UnblockPick(h)
             \/ UnblockReady(h) \/ ReleaseExit(h)
      PROVE  UNCHANGED <<mpid, Wanting>>
  <2>1. CASE AcquireEnter(h) \/ AcquireBusy(h)
    BY <1>0, <2>1, UnseenMove DEF AcquireEnter, AcquireBusy, On
  <2>2. CASE BlockEnter(h) \/ BlockRelease(h)
    BY <1>0, <2>2, UnseenMove DEF BlockEnter, BlockRelease, On
  <2>3. CASE ReleaseCall(h) \/ ReleaseExit(h)
    BY <1>0, <2>3, UnseenMove DEF ReleaseCall, ReleaseExit, On
  <2>4. CASE UnblockPick(h) \/ UnblockReady(h)
    BY <1>0, <2>4, UnseenMove DEF UnblockPick, UnblockReady, On
  <2> QED BY <1>6, <2>1, <2>2, <2>3, <2>4
<1>7. ASSUME NEW h \in Harts,
             \/ SleepEnter(h) \/ SleepPush(h) \/ SleepRelease(h)
             \/ SysCallTo(h, "ms_acq")
      PROVE  UNCHANGED <<mpid, Wanting>>
  BY <1>0, <1>7, UnseenMove DEF SleepEnter, SleepPush, SleepRelease, SysCallTo,
       On
<1>8. ASSUME NEW h \in Harts, TimerInterrupt(h) PROVE UNCHANGED <<mpid, Wanting>>
  <2>1. CASE On(h, "user")
    BY <1>0, <1>8, <2>1, UnseenMove DEF TimerInterrupt, On, Goto
  <2>2. CASE ~On(h, "user")
    BY <1>8, <2>2, UnseenStill DEF TimerInterrupt
  <2> QED BY <2>1, <2>2
<1>9. CASE Next
  BY <1>1, <1>2, <1>3, <1>4, <1>5, <1>6, <1>7, <1>8, <1>9
     DEF Next, KernelStep, SysCall, AcquireTest
<1>10. CASE UNCHANGED vars
  BY <1>10, UnseenStill DEF vars
<1> QED BY <1>9, <1>10

(* The detailed mutex implements the abstract sleeping lock.               *)
THEOREM Refinement == Spec => ImplementsSleepLock
<1>1. Init => SL!Init
  BY DEF Init, SL!Init, Wanting, InAcquire
<1>2. IInv /\ [Next]_vars => [SL!Next]_<<mpid, Wanting>>
  BY SleepLockStep
<1> QED BY <1>1, <1>2, Invariance, PTL DEF Spec, SL!Spec, ImplementsSleepLock

=============================================================================
