-------------------------------- MODULE Pipe --------------------------------
(***************************************************************************)
(* A pipe (kernel/file/pipe.c): its ring buffer (libs/queue.c), the two    *)
(* wait lists, and the life of its two ends as processes inherit and close *)
(* them (file_dup, file_close).  A step is one iteration of a loop inside  *)
(* the pi->lk section, or the end of that section.  proc_block() and       *)
(* proc_unblock_all() are atomic here: module Sched shows what happens     *)
(* inside them.                                                            *)
(***************************************************************************)
EXTENDS Integers, FiniteSets

CONSTANTS
    Procs,      \* the processes that may share the pipe
    None,       \* "nobody holds pi->lk"
    Bytes,      \* byte values
    Cap,        \* capacity of the ring buffer (PGSIZE in the code)
    MaxLen      \* bound: longest read or write

ASSUME PipeAssumption ==
    /\ None \notin Procs
    /\ Cap \in Nat /\ Cap > 0
    /\ MaxLen \in Nat /\ Bytes # {}

VARIABLES
    ring, head, tail, size,     \* pi->pipe (queue_meta_t)
    readopen, writeopen,        \* the ends
    page,                       \* is the page of the ring allocated?
    icount,                     \* m_inode_t.i_count of the pipe's inode
    lk,                         \* owner of pi->lk
    rwait, wwait,               \* pi->read_wait, pi->write_wait
    fds,                        \* the ends each process has open
    pc,                         \* where each process is
    left                        \* n - i of the read or write in progress

queueVars == <<ring, head, tail, size>>
endVars   == <<readopen, writeopen, page, icount>>
procVars  == <<fds, pc, left>>
vars == <<queueVars, endVars, lk, rwait, wwait, procVars>>

Slots == 0 .. (Cap - 1)

(* The inode slot is free: no pipe yet.                                    *)
Init ==
    /\ ring \in [Slots -> {CHOOSE b \in Bytes : TRUE}]
    /\ head = 0 /\ tail = -1 /\ size = 0
    /\ readopen = FALSE /\ writeopen = FALSE /\ page = FALSE /\ icount = 0
    /\ lk = None /\ rwait = {} /\ wwait = {}
    /\ fds  = [p \in Procs |-> {}]
    /\ pc   = [p \in Procs |-> "user"]
    /\ left = [p \in Procs |-> 0]

-----------------------------------------------------------------------------
(* libs/queue.c                                                            *)

Wrap(i) == IF i >= Cap THEN i - Cap ELSE i

queue_empty == size = 0
queue_full  == size = Cap

(* Mutant: the byte goes to the slot the tail leaves.                      *)
PushBehind(b) ==
    /\ tail' = Wrap(tail + 1)
    /\ ring' = [ring EXCEPT ![IF tail < 0 THEN 0 ELSE tail] = b]
    /\ size' = size + 1
    /\ UNCHANGED head

queue_push(b) ==
    /\ tail' = Wrap(tail + 1)
    /\ ring' = [ring EXCEPT ![tail'] = b]
    /\ size' = size + 1
    /\ UNCHANGED head

queue_front_pop ==
    /\ head' = Wrap(head + 1)
    /\ size' = size - 1
    /\ UNCHANGED <<ring, tail>>

-----------------------------------------------------------------------------
Goto(p, l) == pc' = [pc EXCEPT ![p] = l]

(* acquire(&pi->lk) on the way to l.                                       *)
Enter(p, l) == lk = None /\ lk' = p /\ Goto(p, l)

(* release(&pi->lk) and return to the program.                             *)
Return(p) == lk' = None /\ Goto(p, "user") /\ left' = [left EXCEPT ![p] = 0]

Holders(e) == {p \in Procs : e \in fds[p]}

(* sys_pipe() and pipealloc(): a free inode slot becomes a pipe.           *)
PipeAlloc(p) ==
    /\ pc[p] = "user" /\ icount = 0
    /\ icount' = 2 /\ page' = TRUE /\ readopen' = TRUE /\ writeopen' = TRUE
    /\ head' = 0 /\ tail' = -1 /\ size' = 0 /\ UNCHANGED ring
    /\ lk' = None /\ rwait' = {} /\ wwait' = {}
    /\ fds' = [fds EXCEPT ![p] = {"r", "w"}]
    /\ UNCHANGED <<pc, left>>

(* do_fork(): file_dup() of every open end, for a process q that has none. *)
Fork(p, q) ==
    /\ pc[p] = "user" /\ pc[q] = "user" /\ p # q /\ fds[q] = {}
    /\ fds' = [fds EXCEPT ![q] = fds[p]]
    /\ UNCHANGED <<queueVars, endVars, lk, rwait, wwait, pc, left>>

(* file_close(): the last one to close an end goes on to pipeclose().      *)
Close(p, e) ==
    /\ pc[p] = "user" /\ e \in fds[p]
    /\ fds' = [fds EXCEPT ![p] = @ \ {e}]
    /\ Goto(p, IF Holders(e) # {p} THEN "user"
               ELSE IF e = "w" THEN "closew" ELSE "closer")
    /\ UNCHANGED <<queueVars, endVars, lk, rwait, wwait, left>>

(* Mutant: closing an end does not wake the other side.                    *)
PipeCloseNoWake(p) ==
    /\ pc[p] \in {"closer", "closew"} /\ lk = None
    /\ writeopen' = (writeopen /\ pc[p] # "closew")
    /\ readopen'  = (readopen /\ pc[p] # "closer")
    /\ page'   = (page /\ (readopen' \/ writeopen'))
    /\ icount' = icount - 1
    /\ Goto(p, "user")
    /\ UNCHANGED <<queueVars, lk, rwait, wwait, fds, left>>

(* Mutant: the page is freed with the first end that is closed.            *)
PipeCloseFrees(p) ==
    /\ pc[p] \in {"closer", "closew"} /\ lk = None
    /\ writeopen' = (writeopen /\ pc[p] # "closew")
    /\ readopen'  = (readopen /\ pc[p] # "closer")
    /\ rwait'  = IF pc[p] = "closew" THEN {} ELSE rwait
    /\ wwait'  = IF pc[p] = "closer" THEN {} ELSE wwait
    /\ page'   = FALSE
    /\ icount' = icount - 1
    /\ Goto(p, "user")
    /\ UNCHANGED <<queueVars, lk, fds, left>>

(* pipeclose(), then i_count-- under the inode's mutex.                    *)
PipeClose(p) ==
    /\ pc[p] \in {"closer", "closew"} /\ lk = None
    /\ writeopen' = (writeopen /\ pc[p] # "closew")
    /\ readopen'  = (readopen /\ pc[p] # "closer")
    /\ rwait'  = IF pc[p] = "closew" THEN {} ELSE rwait
    /\ wwait'  = IF pc[p] = "closer" THEN {} ELSE wwait
    /\ page'   = (page /\ (readopen' \/ writeopen'))
    /\ icount' = icount - 1
    /\ Goto(p, "user")
    /\ UNCHANGED <<queueVars, lk, fds, left>>

-----------------------------------------------------------------------------
(* pipewrite()                                                             *)

WriteCall(p) ==
    /\ pc[p] = "user" /\ "w" \in fds[p]
    /\ Enter(p, "wloop")
    /\ \E n \in 0 .. MaxLen : left' = [left EXCEPT ![p] = n]
    /\ UNCHANGED <<queueVars, endVars, rwait, wwait, fds>>

WriteBroken(p) ==
    /\ pc[p] = "wloop" /\ left[p] > 0 /\ ~readopen
    /\ Return(p)
    /\ UNCHANGED <<queueVars, endVars, rwait, wwait, fds>>

WriteByte(p) ==
    /\ pc[p] = "wloop" /\ left[p] > 0 /\ readopen /\ ~queue_full
    /\ \E b \in Bytes : queue_push(b)
    /\ left' = [left EXCEPT ![p] = @ - 1]
    /\ UNCHANGED <<endVars, lk, rwait, wwait, fds, pc>>

WriteBlock(p) ==
    /\ pc[p] = "wloop" /\ left[p] > 0 /\ readopen /\ queue_full
    /\ rwait' = {} /\ wwait' = wwait \cup {p}
    /\ lk' = None /\ Goto(p, "woff")
    /\ UNCHANGED <<queueVars, endVars, fds, left>>

WriteDone(p) ==
    /\ pc[p] = "wloop" /\ left[p] = 0
    /\ rwait' = {}
    /\ Return(p)
    /\ UNCHANGED <<queueVars, endVars, wwait, fds>>

(* A woken process takes pi->lk again before proc_block() returns.         *)
WriteResume(p) ==
    /\ pc[p] = "woff" /\ p \notin wwait
    /\ Enter(p, "wloop")
    /\ UNCHANGED <<queueVars, endVars, rwait, wwait, fds, left>>

-----------------------------------------------------------------------------
(* piperead()                                                              *)

ReadCall(p) ==
    /\ pc[p] = "user" /\ "r" \in fds[p]
    /\ Enter(p, "rwhile")
    /\ \E n \in 0 .. MaxLen : left' = [left EXCEPT ![p] = n]
    /\ UNCHANGED <<queueVars, endVars, rwait, wwait, fds>>

ReadBlock(p) ==
    /\ pc[p] = "rwhile" /\ queue_empty /\ writeopen
    /\ rwait' = rwait \cup {p}
    /\ lk' = None /\ Goto(p, "roff")
    /\ UNCHANGED <<queueVars, endVars, wwait, fds, left>>

ReadResume(p) ==
    /\ pc[p] = "roff" /\ p \notin rwait
    /\ Enter(p, "rwhile")
    /\ UNCHANGED <<queueVars, endVars, rwait, wwait, fds, left>>

ReadGo(p) ==
    /\ pc[p] = "rwhile" /\ ~(queue_empty /\ writeopen)
    /\ Goto(p, "rloop")
    /\ UNCHANGED <<queueVars, endVars, lk, rwait, wwait, fds, left>>

ReadByte(p) ==
    /\ pc[p] = "rloop" /\ left[p] > 0 /\ ~queue_empty
    /\ queue_front_pop
    /\ left' = [left EXCEPT ![p] = @ - 1]
    /\ UNCHANGED <<endVars, lk, rwait, wwait, fds, pc>>

ReadDone(p) ==
    /\ pc[p] = "rloop" /\ (left[p] = 0 \/ queue_empty)
    /\ wwait' = {}
    /\ Return(p)
    /\ UNCHANGED <<queueVars, endVars, rwait, fds>>

-----------------------------------------------------------------------------
KernelStep(p) ==
    \/ PipeClose(p)
    \/ WriteBroken(p) \/ WriteByte(p) \/ WriteBlock(p) \/ WriteDone(p)
    \/ WriteResume(p)
    \/ ReadBlock(p) \/ ReadResume(p) \/ ReadGo(p) \/ ReadByte(p) \/ ReadDone(p)

UserStep(p) ==
    \/ PipeAlloc(p) \/ WriteCall(p) \/ ReadCall(p)
    \/ \E q \in Procs : Fork(p, q)
    \/ \E e \in {"r", "w"} : Close(p, e)

Next == \E p \in Procs : KernelStep(p) \/ UserStep(p)

Spec == Init /\ [][Next]_vars

(* A woken process is scheduled and gets pi->lk in the end; what a program *)
(* calls is its own choice.                                                *)
FairSpec == Spec /\ \A p \in Procs : SF_vars(KernelStep(p))
-----------------------------------------------------------------------------
(* Properties                                                              *)

InPipe == {"wloop", "woff", "rwhile", "roff", "rloop"}

(* Types of the ring, of the ends and of the calls in progress.            *)
TypeOK ==
    /\ ring \in [Slots -> Bytes] /\ head \in Slots
    /\ tail \in Slots \cup {-1} /\ size \in 0 .. Cap
    /\ readopen \in BOOLEAN /\ writeopen \in BOOLEAN /\ page \in BOOLEAN
    /\ icount \in 0 .. 2
    /\ lk \in Procs \cup {None} /\ rwait \subseteq Procs /\ wwait \subseteq Procs
    /\ fds \in [Procs -> SUBSET {"r", "w"}]
    /\ pc \in [Procs -> InPipe \cup {"user", "closer", "closew"}]
    /\ left \in [Procs -> 0 .. MaxLen]

(* Nobody sleeps on a condition that has come true: whenever pi->lk is     *)
(* free, a process on read_wait has nothing to read and a writer to wait   *)
(* for, one on write_wait a full buffer and a reader to drain it.          *)
SleepersWaitRightly ==
    lk = None =>
      /\ rwait # {} => queue_empty /\ writeopen
      /\ wwait # {} => queue_full /\ readopen

(* An end is open exactly as long as a process has it open or is in        *)
(* pipeclose() for it, and a process in the pipe has the page and the      *)
(* inode under it: closing frees neither while the pipe is in use, and     *)
(* both with the last end.                                                 *)
EndsOutliveUsers ==
    /\ readopen  <=> (Holders("r") # {} \/ \E p \in Procs : pc[p] = "closer")
    /\ writeopen <=> (Holders("w") # {} \/ \E p \in Procs : pc[p] = "closew")
    /\ page <=> icount > 0
    /\ \A p \in Procs : pc[p] \in InPipe => page

(* The pipe is there for whoever uses it, and whoever sleeps in it has a   *)
(* reason to.                                                              *)
PipeSound == SleepersWaitRightly /\ EndsOutliveUsers

(* The bytes in the ring, oldest first.                                    *)
InFlight == [i \in 1 .. size |-> ring[(head + i - 1) % Cap]]
BS == INSTANCE ByteStream WITH stream <- InFlight

(* Bytes come out in the order they went in, none lost, repeated or        *)
(* invented, whichever processes write and read and wherever the ring      *)
(* wraps.                                                                  *)
IsByteStream == BS!Spec

(* Closing an end releases the other side: a process asleep in piperead()  *)
(* or pipewrite() whose peers are all gone returns to its program.         *)
PeersGoneReturns ==
    \A p \in Procs : (\/ pc[p] = "roff" /\ Holders("w") = {}
                      \/ pc[p] = "woff" /\ Holders("r") = {}) ~> (pc[p] = "user")
=============================================================================
