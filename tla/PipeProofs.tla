---------------------------- MODULE PipeProofs -----------------------------
(***************************************************************************)
(* Proofs about module Pipe, for any number of processes and any size of   *)
(* the ring: nobody sleeps in the pipe without a reason, the pipe outlives *)
(* its users, and it is a byte stream.                                     *)
(***************************************************************************)
EXTENDS Pipe, Sequences, TLAPS

(* pi->lk is owned by the process that is inside its section.              *)
LockHeld == {"wloop", "rwhile", "rloop"}
LockInv == \A p \in Procs : pc[p] \in LockHeld <=> lk = p

(* The wait lists hold processes that sleep in proc_block().               *)
WaitInv ==
    /\ \A p \in rwait : pc[p] = "roff"
    /\ \A p \in wwait : pc[p] = "woff"

(* Whoever is in piperead() or pipewrite() has that end open.              *)
UserInv ==
    \A p \in Procs :
      /\ pc[p] \in {"wloop", "woff"} => "w" \in fds[p]
      /\ pc[p] \in {"rwhile", "roff", "rloop"} => "r" \in fds[p]

(* One process at most is in pipeclose() for an end, and then nobody has   *)
(* the end open; each open end is one reference to the inode.              *)
CloseInv ==
    /\ \A p \in Procs : pc[p] = "closer" => \A q \in Procs :
         "r" \notin fds[q] /\ (pc[q] = "closer" => q = p)
    /\ \A p \in Procs : pc[p] = "closew" => \A q \in Procs :
         "w" \notin fds[q] /\ (pc[q] = "closew" => q = p)
    /\ icount = (IF readopen THEN 1 ELSE 0) + (IF writeopen THEN 1 ELSE 0)

(* What a process inside the section may have changed without having woken *)
(* the other side yet: a writer has filled an empty ring, a reader has     *)
(* drained a full one.                                                     *)
SleepInv ==
    /\ (lk = None \/ pc[lk] = "rwhile") => (rwait # {} => queue_empty /\ writeopen)
    /\ (lk = None \/ pc[lk] \in {"rwhile", "wloop"}) =>
         (wwait # {} => queue_full /\ readopen)
    /\ lk # None /\ pc[lk] = "rloop" => rwait = {}

(* The slot behind the tail is the first free one.                         *)
RingInv == Wrap(tail + 1) = Wrap(head + size)

IInv == /\ TypeOK /\ LockInv /\ WaitInv /\ UserInv /\ CloseInv
        /\ EndsOutliveUsers /\ SleepInv /\ RingInv
-----------------------------------------------------------------------------
USE PipeAssumption DEF Slots, InPipe, LockHeld, Holders

(* No pipe, no call, no lock held.                                         *)
LEMMA InitInv == Init => IInv
<1> SUFFICES ASSUME Init PROVE IInv
  OBVIOUS
<1>1. TypeOK
  <2>1. (CHOOSE b \in Bytes : TRUE) \in Bytes
    OBVIOUS
  <2>2. ring \in [Slots -> Bytes]
    BY <2>1 DEF Init
  <2>3. /\ fds \in [Procs -> SUBSET {"r", "w"}] /\ left \in [Procs -> 0 .. MaxLen]
        /\ pc \in [Procs -> InPipe \cup {"user", "closer", "closew"}]
    BY DEF Init
  <2>4. /\ head \in Slots /\ tail \in Slots \cup {-1} /\ size \in 0 .. Cap
        /\ icount \in 0 .. 2
    BY DEF Init
  <2> QED BY <2>2, <2>3, <2>4 DEF Init, TypeOK
<1>2. LockInv /\ WaitInv /\ UserInv /\ CloseInv
  BY DEF Init, LockInv, WaitInv, UserInv, CloseInv
<1>3. EndsOutliveUsers /\ SleepInv /\ RingInv
  BY DEF Init, EndsOutliveUsers, SleepInv, RingInv, Wrap
<1> QED BY <1>1, <1>2, <1>3 DEF IInv

(* pipe_alloc(): a fresh pipe with one reader and one writer.              *)
LEMMA AllocInv ==
  ASSUME IInv, NEW p \in Procs, PipeAlloc(p)
  PROVE  IInv'
<1> USE DEF IInv, PipeAlloc
<1>0. /\ ~readopen /\ ~writeopen /\ ~page
      /\ \A q \in Procs : fds[q] = {} /\ pc[q] = "user"
  <2>1. ~readopen /\ ~writeopen
    BY DEF CloseInv, TypeOK
  <2>2. \A q \in Procs : fds[q] = {} /\ pc[q] \notin {"closer", "closew"}
    BY <2>1 DEF EndsOutliveUsers, TypeOK
  <2> QED BY <2>1, <2>2 DEF EndsOutliveUsers, TypeOK
<1>1. TypeOK'
  BY DEF TypeOK
<1>2. LockInv'
  BY <1>0 DEF LockInv
<1>3. WaitInv' /\ UserInv'
  BY <1>0 DEF WaitInv, UserInv
<1>4. CloseInv'
  BY <1>0 DEF CloseInv
<1>5. EndsOutliveUsers'
  BY <1>0 DEF EndsOutliveUsers, TypeOK
<1>6. SleepInv' /\ RingInv'
  BY DEF SleepInv, RingInv, Wrap
<1> QED BY <1>1, <1>2, <1>3, <1>4, <1>5, <1>6

(* fork() copies descriptors while both processes are between calls.       *)
LEMMA ForkInv ==
  ASSUME IInv, NEW p \in Procs, NEW q \in Procs, Fork(p, q)
  PROVE  IInv'
<1> USE DEF IInv, Fork, queueVars, endVars
<1>1. TypeOK' /\ LockInv' /\ WaitInv'
  BY DEF TypeOK, LockInv, WaitInv
<1>2. UserInv' /\ CloseInv'
  BY DEF TypeOK, UserInv, CloseInv
<1>3. EndsOutliveUsers'
  BY DEF TypeOK, EndsOutliveUsers
<1>4. SleepInv' /\ RingInv'
  BY DEF SleepInv, RingInv, queue_empty, queue_full
<1> QED BY <1>1, <1>2, <1>3, <1>4

(* The close() of one end, by a process that is in no call.                *)
LEMMA CloseKeeps ==
  ASSUME IInv, NEW p \in Procs, NEW e \in {"r", "w"}, Close(p, e)
  PROVE  IInv'
<1> USE DEF IInv, Close, Goto, queueVars, endVars
<1>1. TypeOK' /\ LockInv'
  BY DEF TypeOK, LockInv
<1>2. WaitInv' /\ UserInv'
  BY DEF TypeOK, WaitInv, UserInv
<1>3. CloseInv'
  BY DEF TypeOK, CloseInv
<1>4. EndsOutliveUsers'
  <2>1. readopen <=> (Holders("r")' # {} \/ \E q \in Procs : pc'[q] = "closer")
    <3>1. CASE e = "w"
      BY <3>1 DEF TypeOK, EndsOutliveUsers
    <3>2. CASE e = "r" /\ Holders("r") = {p}
      <4>1. readopen /\ pc'[p] = "closer"
        BY <3>2 DEF TypeOK, EndsOutliveUsers
      <4> QED BY <4>1
    <3>3. CASE e = "r" /\ Holders("r") # {p}
      <4>1. PICK q \in Procs : q # p /\ "r" \in fds[q]
        BY <3>3
      <4>2. readopen /\ "r" \in fds'[q]
        BY <4>1 DEF TypeOK, EndsOutliveUsers
      <4> QED BY <4>2
    <3> QED BY <3>1, <3>2, <3>3
  <2>2. writeopen <=> (Holders("w")' # {} \/ \E q \in Procs : pc'[q] = "closew")
    <3>1. CASE e = "r"
      BY <3>1 DEF TypeOK, EndsOutliveUsers
    <3>2. CASE e = "w" /\ Holders("w") = {p}
      <4>1. writeopen /\ pc'[p] = "closew"
        BY <3>2 DEF TypeOK, EndsOutliveUsers
      <4> QED BY <4>1
    <3>3. CASE e = "w" /\ Holders("w") # {p}
      <4>1. PICK q \in Procs : q # p /\ "w" \in fds[q]
        BY <3>3
      <4>2. writeopen /\ "w" \in fds'[q]
        BY <4>1 DEF TypeOK, EndsOutliveUsers
      <4> QED BY <4>2
    <3> QED BY <3>1, <3>2, <3>3
  <2>3. (page <=> icount > 0) /\ \A q \in Procs : pc'[q] \in InPipe => page
    BY DEF TypeOK, EndsOutliveUsers
  <2> QED BY <2>1, <2>2, <2>3 DEF EndsOutliveUsers
<1>5. SleepInv' /\ RingInv'
  BY DEF SleepInv, RingInv, queue_empty, queue_full, LockInv, TypeOK
<1> QED BY <1>1, <1>2, <1>3, <1>4, <1>5

(* pipe_close() on the last reference to an end.                           *)
LEMMA PipeCloseInv ==
  ASSUME IInv, NEW p \in Procs, PipeClose(p)
  PROVE  IInv'
<1> USE DEF IInv, PipeClose, Goto, queueVars
<1>0. /\ pc[p] = "closer" => readopen
      /\ pc[p] = "closew" => writeopen
  BY DEF EndsOutliveUsers
<1>1. TypeOK' /\ LockInv'
  BY <1>0 DEF TypeOK, LockInv, CloseInv
<1>2. WaitInv' /\ UserInv'
  BY DEF TypeOK, WaitInv, UserInv
<1>3. CloseInv' /\ EndsOutliveUsers'
  <2>1. CASE pc[p] = "closer"
    <3>1. /\ readopen' = FALSE /\ writeopen' = writeopen /\ icount' = icount - 1
          /\ page' = (page /\ writeopen)
      BY <2>1 DEF TypeOK
    <3>2. /\ \A q \in Procs : "r" \notin fds[q] /\ pc'[q] # "closer"
          /\ \A q \in Procs : pc'[q] = "closew" <=> pc[q] = "closew"
      BY <2>1 DEF TypeOK, CloseInv
    <3>3. CloseInv'
      BY <1>0, <2>1, <3>1, <3>2 DEF CloseInv
    <3>4. EndsOutliveUsers'
      BY <1>0, <2>1, <3>1, <3>2 DEF EndsOutliveUsers, CloseInv, UserInv, TypeOK
    <3> QED BY <3>3, <3>4
  <2>2. CASE pc[p] = "closew"
    <3>1. /\ writeopen' = FALSE /\ readopen' = readopen /\ icount' = icount - 1
          /\ page' = (page /\ readopen)
      BY <2>2 DEF TypeOK
    <3>2. /\ \A q \in Procs : "w" \notin fds[q] /\ pc'[q] # "closew"
          /\ \A q \in Procs : pc'[q] = "closer" <=> pc[q] = "closer"
      BY <2>2 DEF TypeOK, CloseInv
    <3>3. CloseInv'
      BY <1>0, <2>2, <3>1, <3>2 DEF CloseInv
    <3>4. EndsOutliveUsers'
      BY <1>0, <2>2, <3>1, <3>2 DEF EndsOutliveUsers, CloseInv, UserInv, TypeOK
    <3> QED BY <3>3, <3>4
  <2> QED BY <2>1, <2>2
<1>4. SleepInv' /\ RingInv'
  BY DEF SleepInv, RingInv, queue_empty, queue_full, CloseInv, UserInv, WaitInv, TypeOK
<1> QED BY <1>1, <1>2, <1>3, <1>4

(* The steps that touch neither the ends nor the ring.                     *)
StepKeeps(p) == /\ UNCHANGED <<queueVars, endVars, fds>>
                /\ \E l \in InPipe \cup {"user"} : Goto(p, l)
                /\ pc[p] \in InPipe \cup {"user"}

(* A step of one process that touches neither ends, queue nor lock.        *)
LEMMA QuietStep ==
  ASSUME IInv, NEW p \in Procs, StepKeeps(p),
         pc'[p] \in {"wloop", "woff"} => "w" \in fds[p],
         pc'[p] \in {"rwhile", "roff", "rloop"} => "r" \in fds[p]
  PROVE  UserInv' /\ CloseInv' /\ EndsOutliveUsers' /\ RingInv'
<1> USE DEF IInv, StepKeeps, Goto, queueVars, endVars
<1>1. UserInv' /\ CloseInv'
  BY DEF TypeOK, UserInv, CloseInv
<1>2. RingInv'
  BY DEF RingInv
<1>3. EndsOutliveUsers'
  <2>1. \A q \in Procs : /\ pc'[q] = "closer" <=> pc[q] = "closer"
                         /\ pc'[q] = "closew" <=> pc[q] = "closew"
    BY DEF TypeOK
  <2>2. pc'[p] \in InPipe => page
    BY DEF EndsOutliveUsers, CloseInv, TypeOK
  <2> QED BY <2>1, <2>2 DEF EndsOutliveUsers, TypeOK
<1> QED BY <1>1, <1>2, <1>3

(* Nobody else is inside the section of pi->lk.                            *)
LEMMA LockAlone ==
  ASSUME IInv, NEW p \in Procs, pc[p] \in LockHeld
  PROVE  lk = p
BY DEF IInv, LockInv

(* pipe_write(), except for the byte it moves.                             *)
LEMMA WriteKeeps ==
  ASSUME IInv, NEW p \in Procs,
         WriteCall(p) \/ WriteBroken(p) \/ WriteBlock(p) \/ WriteDone(p) \/ WriteResume(p)
  PROVE  IInv'
<1> USE DEF IInv, Enter, Return, Goto
<1>1. CASE WriteCall(p)
  <2> USE <1>1 DEF WriteCall
  <2>1. TypeOK' /\ LockInv' /\ WaitInv'
    BY DEF TypeOK, LockInv, WaitInv, queueVars, endVars
  <2>2. SleepInv'
    BY DEF SleepInv, TypeOK, queueVars, endVars, queue_empty, queue_full
  <2>3. UserInv' /\ CloseInv' /\ EndsOutliveUsers' /\ RingInv'
    BY QuietStep DEF StepKeeps, TypeOK
  <2> QED BY <2>1, <2>2, <2>3
<1>2. CASE WriteBroken(p)
  <2> USE <1>2 DEF WriteBroken
  <2>1. TypeOK' /\ LockInv' /\ WaitInv'
    BY LockAlone DEF TypeOK, LockInv, WaitInv, queueVars, endVars
  <2>2. SleepInv'
    BY LockAlone DEF SleepInv, WaitInv, UserInv, EndsOutliveUsers, TypeOK, queueVars,
                     endVars, queue_empty, queue_full
  <2>3. UserInv' /\ CloseInv' /\ EndsOutliveUsers' /\ RingInv'
    BY QuietStep DEF StepKeeps, TypeOK
  <2> QED BY <2>1, <2>2, <2>3
<1>3. CASE WriteBlock(p)
  <2> USE <1>3 DEF WriteBlock
  <2>1. TypeOK' /\ LockInv' /\ WaitInv'
    BY LockAlone DEF TypeOK, LockInv, WaitInv, queueVars, endVars
  <2>2. SleepInv'
    BY LockAlone DEF SleepInv, TypeOK, queueVars, endVars, queue_empty, queue_full
  <2>3. UserInv' /\ CloseInv' /\ EndsOutliveUsers' /\ RingInv'
    BY QuietStep DEF StepKeeps, TypeOK, UserInv
  <2> QED BY <2>1, <2>2, <2>3
<1>4. CASE WriteDone(p)
  <2> USE <1>4 DEF WriteDone
  <2>1. TypeOK' /\ LockInv' /\ WaitInv'
    BY LockAlone DEF TypeOK, LockInv, WaitInv, queueVars, endVars
  <2>2. SleepInv'
    BY LockAlone DEF SleepInv, TypeOK, queueVars, endVars, queue_empty, queue_full
  <2>3. UserInv' /\ CloseInv' /\ EndsOutliveUsers' /\ RingInv'
    BY QuietStep DEF StepKeeps, TypeOK
  <2> QED BY <2>1, <2>2, <2>3
<1>5. CASE WriteResume(p)
  <2> USE <1>5 DEF WriteResume
  <2>1. TypeOK' /\ LockInv' /\ WaitInv'
    BY DEF TypeOK, LockInv, WaitInv, queueVars, endVars
  <2>2. SleepInv'
    BY DEF SleepInv, TypeOK, queueVars, endVars, queue_empty, queue_full
  <2>3. UserInv' /\ CloseInv' /\ EndsOutliveUsers' /\ RingInv'
    BY QuietStep DEF StepKeeps, TypeOK, UserInv
  <2> QED BY <2>1, <2>2, <2>3
<1> QED BY <1>1, <1>2, <1>3, <1>4, <1>5

(* pipe_read(), except for the byte it moves.                              *)
LEMMA ReadKeeps ==
  ASSUME IInv, NEW p \in Procs,
         ReadCall(p) \/ ReadBlock(p) \/ ReadResume(p) \/ ReadGo(p) \/ ReadDone(p)
  PROVE  IInv'
<1> USE DEF IInv, Enter, Return, Goto
<1>1. CASE ReadCall(p)
  <2> USE <1>1 DEF ReadCall
  <2>1. TypeOK' /\ LockInv' /\ WaitInv'
    BY DEF TypeOK, LockInv, WaitInv, queueVars, endVars
  <2>2. SleepInv'
    BY DEF SleepInv, TypeOK, queueVars, endVars, queue_empty, queue_full
  <2>3. UserInv' /\ CloseInv' /\ EndsOutliveUsers' /\ RingInv'
    BY QuietStep DEF StepKeeps, TypeOK
  <2> QED BY <2>1, <2>2, <2>3
<1>2. CASE ReadBlock(p)
  <2> USE <1>2 DEF ReadBlock
  <2>1. TypeOK' /\ LockInv' /\ WaitInv'
    BY LockAlone DEF TypeOK, LockInv, WaitInv, queueVars, endVars
  <2>2. SleepInv'
    BY LockAlone DEF SleepInv, TypeOK, queueVars, endVars, queue_empty, queue_full
  <2>3. UserInv' /\ CloseInv' /\ EndsOutliveUsers' /\ RingInv'
    BY QuietStep DEF StepKeeps, TypeOK, UserInv
  <2> QED BY <2>1, <2>2, <2>3
<1>3. CASE ReadResume(p)
  <2> USE <1>3 DEF ReadResume
  <2>1. TypeOK' /\ LockInv' /\ WaitInv'
    BY DEF TypeOK, LockInv, WaitInv, queueVars, endVars
  <2>2. SleepInv'
    BY DEF SleepInv, TypeOK, queueVars, endVars, queue_empty, queue_full
  <2>3. UserInv' /\ CloseInv' /\ EndsOutliveUsers' /\ RingInv'
    BY QuietStep DEF StepKeeps, TypeOK, UserInv
  <2> QED BY <2>1, <2>2, <2>3
<1>4. CASE ReadGo(p)
  <2> USE <1>4 DEF ReadGo
  <2>1. TypeOK' /\ LockInv' /\ WaitInv'
    BY LockAlone DEF TypeOK, LockInv, WaitInv, queueVars, endVars
  <2>2. SleepInv'
    BY LockAlone DEF SleepInv, TypeOK, queueVars, endVars, queue_empty, queue_full
  <2>3. UserInv' /\ CloseInv' /\ EndsOutliveUsers' /\ RingInv'
    BY QuietStep DEF StepKeeps, TypeOK, UserInv
  <2> QED BY <2>1, <2>2, <2>3
<1>5. CASE ReadDone(p)
  <2> USE <1>5 DEF ReadDone
  <2>1. TypeOK' /\ LockInv' /\ WaitInv'
    BY LockAlone DEF TypeOK, LockInv, WaitInv, queueVars, endVars
  <2>2. SleepInv'
    BY LockAlone DEF SleepInv, TypeOK, queueVars, endVars, queue_empty, queue_full
  <2>3. UserInv' /\ CloseInv' /\ EndsOutliveUsers' /\ RingInv'
    BY QuietStep DEF StepKeeps, TypeOK
  <2> QED BY <2>1, <2>2, <2>3
<1> QED BY <1>1, <1>2, <1>3, <1>4, <1>5

(* The two steps that move bytes: the section is held, so that nobody else *)
(* is concerned.                                                           *)
LEMMA MoveKeeps ==
  ASSUME IInv, NEW p \in Procs, WriteByte(p) \/ ReadByte(p)
  PROVE  IInv'
<1> USE DEF IInv
<1>1. LockInv' /\ WaitInv' /\ UserInv' /\ CloseInv' /\ EndsOutliveUsers'
  BY DEF WriteByte, ReadByte, LockInv, WaitInv, UserInv, CloseInv, EndsOutliveUsers,
         endVars
<1>2. CASE WriteByte(p)
  <2> USE <1>2 DEF WriteByte, endVars
  <2>1. TypeOK' /\ RingInv'
    BY DEF queue_push, queue_full, Wrap, TypeOK, RingInv
  <2>2. SleepInv'
    BY LockAlone DEF SleepInv, queue_full, queue_empty
  <2> QED BY <1>1, <2>1, <2>2
<1>3. CASE ReadByte(p)
  <2> USE <1>3 DEF ReadByte, endVars
  <2>1. TypeOK' /\ RingInv'
    BY DEF queue_front_pop, queue_empty, Wrap, TypeOK, RingInv
  <2>2. SleepInv'
    BY LockAlone DEF SleepInv, queue_full, queue_empty
  <2> QED BY <1>1, <2>1, <2>2
<1> QED BY <1>2, <1>3

(* Every step preserves the inductive invariant.                           *)
LEMMA NextInv == IInv /\ [Next]_vars => IInv'
<1> SUFFICES ASSUME IInv, [Next]_vars PROVE IInv'
  OBVIOUS
<1>1. ASSUME NEW p \in Procs, KernelStep(p) PROVE IInv'
  BY <1>1, PipeCloseInv, WriteKeeps, ReadKeeps, MoveKeeps DEF KernelStep
<1>2. ASSUME NEW p \in Procs, UserStep(p) PROVE IInv'
  BY <1>2, AllocInv, ForkInv, CloseKeeps, WriteKeeps, ReadKeeps DEF UserStep
<1>3. CASE UNCHANGED vars
  BY <1>3 DEF IInv, TypeOK, LockInv, WaitInv, UserInv, CloseInv, EndsOutliveUsers,
              SleepInv, RingInv, queue_empty, queue_full, vars, queueVars, endVars,
              procVars
<1> QED BY <1>1, <1>2, <1>3 DEF Next
-----------------------------------------------------------------------------
(* The invariant that the other theorems follow from.                      *)
THEOREM Invariance == Spec => []IInv
BY InitInv, NextInv, PTL DEF Spec

(* pipe.c and queue.c: the ring's indices stay inside the page, its size   *)
(* within the capacity, and the inode's count between 0 and 2.             *)
THEOREM TypeCorrect == Spec => []TypeOK
<1>1. IInv => TypeOK
  BY DEF IInv
<1> QED BY <1>1, Invariance, PTL

(* piperead(), pipewrite() and pipeclose(): nobody sleeps on a condition   *)
(* that has come true, and neither the page nor the inode goes while       *)
(* somebody is in the pipe.                                                *)
THEOREM PipeIsSound == Spec => []PipeSound
<1>1. IInv => PipeSound
  BY DEF IInv, SleepInv, PipeSound, SleepersWaitRightly
<1> QED BY <1>1, Invariance, PTL
-----------------------------------------------------------------------------
(* The ring as a byte stream.  Wrap and % agree where the ring uses them.  *)
LEMMA WrapIsMod == \A x \in 0 .. (2 * Cap - 1) : x % Cap = Wrap(x)
<1> SUFFICES ASSUME NEW x \in 0 .. (2 * Cap - 1) PROVE x % Cap = Wrap(x)
  OBVIOUS
<1>1. CASE x < Cap
  <2>1. x \in 0 .. (Cap - 1)
    BY <1>1
  <2> QED BY <2>1 DEF Wrap
<1>2. CASE x >= Cap
  <2>1. x \in Cap .. (2 * Cap - 1)
    BY <1>2
  <2> QED BY <2>1 DEF Wrap
<1> QED BY <1>1, <1>2

(* The bytes in flight, with the indices as queue.c computes them.         *)
Flight == [i \in 1 .. size |-> ring[Wrap(head + i - 1)]]

(* The queued bytes, with the wrap-around written without %.               *)
LEMMA InFlightAt == TypeOK => InFlight = Flight
<1> SUFFICES ASSUME TypeOK PROVE InFlight = Flight
  OBVIOUS
<1>1. \A i \in 1 .. size : (head + i - 1) % Cap = Wrap(head + i - 1)
  BY WrapIsMod DEF TypeOK
<1> QED BY <1>1 DEF InFlight, Flight

(* The same of the next state.                                             *)
LEMMA InFlightNext == TypeOK' => InFlight' = Flight'
<1>1. (TypeOK => InFlight = Flight)'
  BY InFlightAt, PTL
<1> QED BY <1>1

(* The queued bytes form a sequence as long as the queue.                  *)
LEMMA InFlightSeq ==
  ASSUME TypeOK
  PROVE  /\ InFlight \in Seq(Bytes)
         /\ Len(InFlight) = size
<1>1. \A i \in 1 .. size : Wrap(head + i - 1) \in Slots
  BY DEF TypeOK, Wrap
<1>2. InFlight \in [1 .. size -> Bytes]
  BY <1>1, InFlightAt DEF TypeOK, Flight
<1> QED BY <1>2 DEF TypeOK

(* queue_push() appends a byte, wherever the ring wraps.                   *)
LEMMA PushAppends ==
  ASSUME IInv, IInv', NEW b \in Bytes, queue_push(b), ~queue_full
  PROVE  InFlight' = Append(InFlight, b)
<1> USE DEF IInv, queue_push, queue_full
<1>1. tail' = Wrap(head + size) /\ head' = head /\ size' = size + 1
  BY DEF RingInv
<1>2. \A i \in 1 .. size : Wrap(head + i - 1) # Wrap(head + size)
  BY DEF TypeOK, Wrap
<1>3. \A i \in 1 .. size : /\ Wrap(head + i - 1) \in Slots
                           /\ ring'[Wrap(head + i - 1)] = ring[Wrap(head + i - 1)]
  BY <1>1, <1>2 DEF TypeOK, Wrap
<1>4. ring'[Wrap(head + size)] = b
  BY <1>1 DEF TypeOK, Wrap
<1>5. InFlight' = [i \in 1 .. (size + 1) |-> ring'[Wrap(head + i - 1)]]
  BY InFlightNext, <1>1 DEF Flight
<1>6. InFlight = [i \in 1 .. size |-> ring[Wrap(head + i - 1)]] /\ Len(InFlight) = size
  BY InFlightAt, InFlightSeq DEF Flight
<1>7. Append(InFlight, b) = [i \in 1 .. (size + 1) |->
                               IF i = size + 1 THEN b ELSE InFlight[i]]
  BY <1>6, InFlightSeq DEF TypeOK
<1>8. \A i \in 1 .. (size + 1) :
         ring'[Wrap(head + i - 1)] = IF i = size + 1 THEN b ELSE InFlight[i]
  <2> TAKE i \in 1 .. (size + 1)
  <2>1. CASE i = size + 1
    <3>1. head + i - 1 = head + size
      BY <2>1 DEF TypeOK
    <3> QED BY <2>1, <3>1, <1>4
  <2>2. CASE i \in 1 .. size
    <3>1. i # size + 1
      BY <2>2 DEF TypeOK
    <3> QED BY <2>2, <3>1, <1>3, <1>6
  <2> QED BY <2>1, <2>2 DEF TypeOK
<1> QED BY <1>5, <1>7, <1>8

(* queue_front_pop() takes the oldest byte away.                           *)
LEMMA PopIsTail ==
  ASSUME IInv, IInv', queue_front_pop, ~queue_empty
  PROVE  InFlight' = Tail(InFlight) /\ InFlight # <<>>
<1> USE DEF IInv, queue_front_pop, queue_empty
<1>1. InFlight' = [i \in 1 .. (size - 1) |-> ring[Wrap(Wrap(head + 1) + i - 1)]]
  BY InFlightNext DEF Flight
<1>2. InFlight = [i \in 1 .. size |-> ring[Wrap(head + i - 1)]] /\ Len(InFlight) = size
  BY InFlightAt, InFlightSeq DEF Flight
<1>3. \A i \in 1 .. (size - 1) : Wrap(Wrap(head + 1) + i - 1) = Wrap(head + (i + 1) - 1)
  BY DEF TypeOK, Wrap
<1>4. Tail(InFlight) = [i \in 1 .. (size - 1) |-> InFlight[i + 1]]
  BY <1>2, InFlightSeq DEF TypeOK
<1>5. \A i \in 1 .. (size - 1) :
         ring[Wrap(Wrap(head + 1) + i - 1)] = InFlight[i + 1]
  BY <1>2, <1>3 DEF TypeOK
<1>6. InFlight # <<>>
  BY <1>2 DEF TypeOK
<1> QED BY <1>1, <1>4, <1>5, <1>6

(* A pipe starts as an empty stream.                                       *)
LEMMA StreamInit == Init => BS!Init
BY DEF Init, BS!Init, InFlight

(* Every step of the pipe puts a byte at the end of the stream, takes one  *)
(* off its front, or leaves it alone.                                      *)
LEMMA StreamStep ==
  ASSUME IInv, IInv', [Next]_vars
  PROVE  [BS!Next]_InFlight
<1>1. ASSUME NEW p \in Procs, WriteByte(p) PROVE BS!Next
  <2>1. PICK b \in Bytes : queue_push(b)
    BY <1>1 DEF WriteByte
  <2>2. InFlight' = Append(InFlight, b)
    BY <1>1, <2>1, PushAppends DEF WriteByte
  <2>3. Len(InFlight) < Cap
    BY <1>1, InFlightSeq DEF WriteByte, IInv, TypeOK, queue_full
  <2> QED BY <2>2, <2>3 DEF BS!Next, BS!Put
<1>2. ASSUME NEW p \in Procs, ReadByte(p) PROVE BS!Next
  BY <1>2, PopIsTail DEF ReadByte, BS!Next, BS!Get
<1>3. ASSUME NEW p \in Procs, PipeAlloc(p) PROVE BS!Next
  BY <1>3 DEF PipeAlloc, InFlight, BS!Next, BS!Restart
<1>4. ASSUME UNCHANGED queueVars PROVE InFlight' = InFlight
  BY <1>4 DEF queueVars, InFlight
<1>5. ASSUME NEW p \in Procs, KernelStep(p), ~WriteByte(p), ~ReadByte(p)
      PROVE  UNCHANGED queueVars
  BY <1>5 DEF KernelStep, PipeClose, WriteBroken, WriteBlock, WriteDone, WriteResume,
              ReadBlock, ReadResume, ReadGo, ReadDone
<1>6. ASSUME NEW p \in Procs, UserStep(p), ~PipeAlloc(p)
      PROVE  UNCHANGED queueVars
  BY <1>6 DEF UserStep, WriteCall, ReadCall, Fork, Close
<1>7. CASE UNCHANGED vars
  BY <1>4, <1>7 DEF vars
<1> QED BY <1>1, <1>2, <1>3, <1>4, <1>5, <1>6, <1>7 DEF Next

(* pipewrite() and piperead(): bytes come out in the order they went in,   *)
(* none lost, repeated or invented, whichever processes write and read and *)
(* wherever the ring wraps.                                                *)
THEOREM StreamRefinement == Spec => IsByteStream
<1>1. Spec => []IInv /\ [][Next]_vars /\ Init
  BY Invariance, PTL DEF Spec
<1>2. IInv /\ IInv' /\ [Next]_vars => [BS!Next]_InFlight
  BY StreamStep
<1> QED BY <1>1, <1>2, StreamInit, PTL DEF BS!Spec, IsByteStream
=============================================================================
