----------------------------- MODULE VirtioDisk -----------------------------
(***************************************************************************)
(* The disk driver (kernel/device/virtio_disk.c): a request takes three    *)
(* descriptors, is announced in the avail ring, is carried out by the      *)
(* device, comes back in the used ring and is ended by the interrupt       *)
(* handler and by the process that asked for it.                           *)
(*                                                                         *)
(* A step of a process is one virtio_disk_lock section, from acquire() or  *)
(* the return of proc_block() to the next proc_block() or release().  The  *)
(* handler's loop takes one step per used entry, with the lock held.  A    *)
(* buffer is named after the process that holds its mutex.                 *)
(***************************************************************************)
EXTENDS Naturals, FiniteSets, FiniteSetsExt

CONSTANTS
    Procs, Blocks, Vals,
    VIRTIO_DESC_NUM,    \* number of descriptors, and size of both rings
    IndexSpan,          \* values of a ring index; 2^16 in the code
    Start,              \* ring index when the run begins
    MaxCalls            \* bound: calls of the driver in a run

ASSUME VirtioAssumption ==
    /\ VIRTIO_DESC_NUM \in Nat /\ VIRTIO_DESC_NUM >= 3
    /\ IndexSpan \in Nat \ {0} /\ IndexSpan % VIRTIO_DESC_NUM = 0
    /\ Start \in 0 .. IndexSpan - 1 /\ MaxCalls \in Nat
    /\ Blocks \subseteq Nat /\ 0 \in Vals
    /\ VIRTIO_DESC_NUM \notin Procs     \* Nil is the name of no buffer

NUM == VIRTIO_DESC_NUM
Descs == 0 .. NUM - 1
Nil == NUM                  \* no descriptor, no buffer

VARIABLES
    free,           \* the free descriptors
    desc,           \* addr: what a descriptor points to; next
    ops,            \* command headers
    info,           \* buffer and status of a request, by first descriptor
    avail, avail_index, used, used_idx,     \* the two rings
    used_index,     \* how far the driver has looked in the used ring
    wait_list,      \* processes asleep for descriptors
    b_disk,         \* is the disk working on the buffer?
    b_data, disk,
    pc, req, head,  \* the calls, and the first descriptor of each
    asleep,         \* processes on the disk_wait_list of their buffer
    seen,           \* the device: how far it has looked in avail
    working,        \* ... the requests it works on
    pending,        \* ... its interrupt line
    irq,            \* is a hart in the handler's loop, lock held?
    calls           \* calls made so far

ringVars == <<desc, ops, info, avail, avail_index>>
devVars  == <<used, used_idx, seen, working>>
vars == <<free, ringVars, devVars, used_index, wait_list, b_disk, b_data, disk,
          pc, req, head, asleep, pending, irq, calls>>

ZeroDesc == [addr |-> Nil, next |-> Nil]

(* virtio_disk_init() as far as memory goes, followed by Start requests    *)
(* one at a time: each of them used descriptor 0 and left the rings as     *)
(* they are here.                                                          *)
Init ==
    /\ free = Descs
    /\ desc = [i \in Descs |-> ZeroDesc]
    /\ ops  = [i \in Descs |-> [write |-> FALSE, blk |-> 0]]
    /\ info = [i \in Descs |-> [buf |-> Nil, status |-> 0]]
    /\ avail = [i \in Descs |-> 0] /\ avail_index = Start
    /\ used = [i \in Descs |-> 0] /\ used_idx = Start /\ used_index = Start
    /\ wait_list = {} /\ asleep = {}
    /\ b_disk = [p \in Procs |-> FALSE]
    /\ b_data = [p \in Procs |-> 0] /\ disk = [k \in Blocks |-> 0]
    /\ pc = [p \in Procs |-> "idle"]
    /\ req = [p \in Procs |-> [write |-> FALSE, blk |-> 0]]
    /\ head = [p \in Procs |-> Nil]
    /\ seen = Start /\ calls = 0 /\ working = {} /\ pending = FALSE /\ irq = FALSE

Advance(i) == (i + 1) % IndexSpan
-----------------------------------------------------------------------------
(* virtio_disk_read() and virtio_disk_write() of the buffer p has locked.  *)
Call(p) ==
    /\ pc[p] = "idle" /\ calls < MaxCalls
    /\ \E w \in BOOLEAN, k \in Blocks, v \in Vals :
         /\ req' = [req EXCEPT ![p] = [write |-> w, blk |-> k]]
         /\ b_data' = [b_data EXCEPT ![p] = IF w THEN v ELSE 0]
    /\ calls' = calls + 1
    /\ pc' = [pc EXCEPT ![p] = "alloc"]
    /\ UNCHANGED <<free, ringVars, devVars, used_index, wait_list, b_disk, disk,
                   head, asleep, pending, irq>>

(* p has the lock and is at alloc3_desc(), for the first time or woken.    *)
AtAlloc(p) == pc[p] = "alloc" /\ p \notin wait_list /\ ~irq

(* alloc_desc(): the free descriptor with the least index.                 *)
alloc_desc(S) == Min(S)

(* Mutant: two requests may get the same data descriptor.                  *)
ThreeDescsShared ==
    LET i == alloc_desc(free)
        k == alloc_desc(free \ {i})
    IN  <<i, IF i = 0 THEN k ELSE 1, alloc_desc(free \ {i, k})>>

(* alloc3_desc(), when it succeeds.                                        *)
ThreeDescs ==
    LET i == alloc_desc(free)
        j == alloc_desc(free \ {i})
    IN  <<i, j, alloc_desc(free \ {i, j})>>

(* The avail ring: the entry first, then the index.                        *)
Announce(h) ==
    /\ avail' = [avail EXCEPT ![avail_index % NUM] = h]
    /\ avail_index' = Advance(avail_index)

(* virtio_disk_rw(): three descriptors are formatted and handed to the     *)
(* device; the process sleeps until the handler clears b_disk.             *)
Submit(p) ==
    /\ AtAlloc(p) /\ Cardinality(free) >= 3
    /\ LET t == ThreeDescs IN
         /\ free' = free \ {t[1], t[2], t[3]}
         /\ desc' = [desc EXCEPT ![t[1]] = [addr |-> t[1], next |-> t[2]],
                                 ![t[2]] = [addr |-> p,    next |-> t[3]],
                                 ![t[3]] = [addr |-> t[1], next |-> Nil]]
         /\ ops'  = [ops EXCEPT ![t[1]] = req[p]]
         /\ info' = [info EXCEPT ![t[1]] = [buf |-> p, status |-> 255]]
         /\ head' = [head EXCEPT ![p] = t[1]]
         /\ Announce(t[1])
    /\ b_disk' = [b_disk EXCEPT ![p] = TRUE]
    /\ asleep' = asleep \cup {p}
    /\ pc' = [pc EXCEPT ![p] = "busy"]
    /\ UNCHANGED <<devVars, used_index, wait_list, b_data, disk, req, pending, irq, calls>>

(* alloc3_desc() fails: free_1_descriptor() gives back what was taken, and *)
(* wakes every waiter each time; then the process waits itself.            *)
NoRoom(p) ==
    /\ AtAlloc(p) /\ Cardinality(free) < 3
    /\ wait_list' = (IF free = {} THEN wait_list ELSE {}) \cup {p}
    /\ UNCHANGED <<free, ringVars, devVars, used_index, b_disk, b_data, disk,
                   pc, req, head, asleep, pending, irq, calls>>

(* free_descriptor_list(): the descriptors of the chain that starts at h.  *)
Chain(h) == LET i == desc[h].next IN {h, i, desc[i].next}

(* Mutant: the process does not wait for the handler.                      *)
FinishEarly(p) ==
    /\ pc[p] = "busy" /\ ~irq
    /\ info' = [info EXCEPT ![head[p]].buf = Nil]
    /\ desc' = [i \in Descs |-> IF i \in Chain(head[p]) THEN ZeroDesc ELSE desc[i]]
    /\ free' = free \cup Chain(head[p])
    /\ wait_list' = {}
    /\ head' = [head EXCEPT ![p] = Nil]
    /\ req' = [req EXCEPT ![p] = [write |-> FALSE, blk |-> 0]]
    /\ b_data' = [b_data EXCEPT ![p] = 0]
    /\ pc' = [pc EXCEPT ![p] = "idle"]
    /\ asleep' = asleep \ {p}
    /\ UNCHANGED <<ops, avail, avail_index, devVars, used_index, b_disk, disk,
                   pending, irq, calls>>

(* Mutant: freeing descriptors wakes nobody.                               *)
FinishSilent(p) ==
    /\ pc[p] = "busy" /\ p \notin asleep /\ ~irq /\ ~b_disk[p]
    /\ info' = [info EXCEPT ![head[p]].buf = Nil]
    /\ desc' = [i \in Descs |-> IF i \in Chain(head[p]) THEN ZeroDesc ELSE desc[i]]
    /\ free' = free \cup Chain(head[p])
    /\ UNCHANGED wait_list
    /\ head' = [head EXCEPT ![p] = Nil]
    /\ req' = [req EXCEPT ![p] = [write |-> FALSE, blk |-> 0]]
    /\ b_data' = [b_data EXCEPT ![p] = 0]
    /\ pc' = [pc EXCEPT ![p] = "idle"]
    /\ UNCHANGED <<ops, avail, avail_index, devVars, used_index, b_disk, disk,
                   asleep, pending, irq, calls>>

(* The end of virtio_disk_rw(), once the handler has cleared b_disk; the   *)
(* buffer is the caller's again and its contents are forgotten here.       *)
Finish(p) ==
    /\ pc[p] = "busy" /\ p \notin asleep /\ ~irq /\ ~b_disk[p]
    /\ info' = [info EXCEPT ![head[p]].buf = Nil]
    /\ desc' = [i \in Descs |-> IF i \in Chain(head[p]) THEN ZeroDesc ELSE desc[i]]
    /\ free' = free \cup Chain(head[p])
    /\ wait_list' = {}
    /\ head' = [head EXCEPT ![p] = Nil]
    /\ req' = [req EXCEPT ![p] = [write |-> FALSE, blk |-> 0]]
    /\ b_data' = [b_data EXCEPT ![p] = 0]
    /\ pc' = [pc EXCEPT ![p] = "idle"]
    /\ UNCHANGED <<ops, avail, avail_index, devVars, used_index, b_disk, disk,
                   asleep, pending, irq, calls>>
-----------------------------------------------------------------------------
(* The device: it takes requests from the avail ring in order ...          *)
DeviceFetch ==
    /\ seen # avail_index
    /\ working' = working \cup {avail[seen % NUM]}
    /\ seen' = Advance(seen)
    /\ UNCHANGED <<free, ringVars, used, used_idx, used_index, wait_list, b_disk,
                   b_data, disk, pc, req, head, asleep, pending, irq, calls>>

(* ... and ends them in any order: it follows the chain, transfers the     *)
(* data, writes the status, and adds an entry to the used ring.            *)
DeviceComplete(h) ==
    LET data == desc[desc[h].next].addr
        stat == desc[desc[desc[h].next].next].addr
    IN
    /\ h \in working
    /\ working' = working \ {h}
    /\ IF ops[h].write
         THEN disk' = [disk EXCEPT ![ops[h].blk] = b_data[data]] /\ UNCHANGED b_data
         ELSE b_data' = [b_data EXCEPT ![data] = disk[ops[h].blk]] /\ UNCHANGED disk
    /\ info' = [info EXCEPT ![stat].status = 0]
    /\ used' = [used EXCEPT ![used_idx % NUM] = h]
    /\ used_idx' = Advance(used_idx)
    /\ pending' = TRUE
    /\ UNCHANGED <<free, desc, ops, avail, avail_index, used_index, wait_list,
                   b_disk, pc, req, head, asleep, seen, irq, calls>>
-----------------------------------------------------------------------------
(* do_virtio_disk_interrupt(): the interrupt is acknowledged first, ...    *)
IrqEnter ==
    /\ pending /\ ~irq
    /\ pending' = FALSE /\ irq' = TRUE
    /\ UNCHANGED <<free, ringVars, devVars, used_index, wait_list, b_disk, b_data,
                   disk, pc, req, head, asleep, calls>>

(* The request of the next used entry.                                     *)
UsedId == used[used_index % NUM]

(* ... then the buffer of each used entry is marked and its users woken.   *)
IrqEntry ==
    /\ irq /\ used_index # used_idx
    /\ LET bb == info[UsedId].buf IN
         /\ b_disk' = [p \in Procs |-> b_disk[p] /\ p # bb]
         /\ asleep' = asleep \ {bb}
    /\ used_index' = Advance(used_index)
    /\ UNCHANGED <<free, ringVars, devVars, wait_list, b_data, disk, pc, req,
                   head, pending, irq, calls>>

(* Mutant: one entry per interrupt.                                        *)
IrqExitEarly ==
    /\ irq
    /\ irq' = FALSE
    /\ UNCHANGED <<free, ringVars, devVars, used_index, wait_list, b_disk, b_data,
                   disk, pc, req, head, asleep, pending, calls>>

IrqExit ==
    /\ irq /\ used_index = used_idx
    /\ irq' = FALSE
    /\ UNCHANGED <<free, ringVars, devVars, used_index, wait_list, b_disk, b_data,
                   disk, pc, req, head, asleep, pending, calls>>
-----------------------------------------------------------------------------
ProcStep(p) == Submit(p) \/ NoRoom(p) \/ Finish(p)

IrqStep == IrqEnter \/ IrqEntry \/ IrqExit

Next == \/ \E p \in Procs : Call(p) \/ ProcStep(p)
        \/ DeviceFetch \/ \E h \in Descs : DeviceComplete(h)
        \/ IrqStep

(* The scheduler and the spin lock reach each process, the device works    *)
(* on what it is given, and a raised interrupt is taken: a handler that    *)
(* spins for the lock gets it, for the holders are short.                  *)
Fairness ==
    /\ \A p \in Procs : WF_vars(ProcStep(p))
    /\ WF_vars(DeviceFetch) /\ \A h \in Descs : WF_vars(DeviceComplete(h))
    /\ WF_vars(IrqStep)

Spec == Init /\ [][Next]_vars /\ Fairness
-----------------------------------------------------------------------------
(* Properties                                                              *)

InFlight == {p \in Procs : pc[p] = "busy"}

(* virtio_disk_rw(): the chains of the requests in flight are disjoint     *)
(* and, with the free descriptors, make up the table; what the device      *)
(* works on and what the used ring still holds is the chain of a request   *)
(* whose process waits: the device never follows a freed chain.            *)
ChainsPartition ==
    /\ \A p \in InFlight : Cardinality(Chain(head[p])) = 3
    /\ \A p, q \in InFlight : p # q => Chain(head[p]) \cap Chain(head[q]) = {}
    /\ Descs \ free = UNION {Chain(head[p]) : p \in InFlight}
    /\ \A h \in working : \E p \in asleep : head[p] = h /\ info[h].buf = p

(* do_virtio_disk_interrupt(): the request of a used entry has ended with  *)
(* status 0 (the assertion), and its buffer is one the disk works on.      *)
CompletionsKnown ==
    (irq /\ used_index # used_idx) =>
       /\ info[UsedId].status = 0
       /\ info[UsedId].buf \in asleep /\ b_disk[info[UsedId].buf]

(* The driver and the device agree on the rings.                           *)
RingsAgree == ChainsPartition /\ CompletionsKnown

(* alloc3_desc(): nobody sleeps for descriptors while there are three.     *)
NoSleepWithRoom == wait_list # {} => Cardinality(free) < 3

(* Where a call is, as the buffer cache sees it.                           *)
Stage(p) == CASE pc[p] = "idle" -> "idle"
              [] pc[p] = "alloc" -> "asked"
              [] pc[p] = "busy" -> IF info[head[p]].status = 0 THEN "done" ELSE "asked"

Device == INSTANCE BlockDevice WITH
    call <- [p \in Procs |-> [at |-> Stage(p), write |-> req[p].write, blk |-> req[p].blk]]

(* The driver and the device implement the one-step transfer that the      *)
(* buffer cache relies on.                                                 *)
ImplementsDevice == Device!Spec

(* virtio_disk_rw() returns, in whatever order the device ends requests    *)
(* and however often processes that find too few descriptors wake each     *)
(* other, as long as there is no endless stream of new requests.           *)
RequestsEnd == \A p \in Procs : pc[p] # "idle" ~> pc[p] = "idle"
=============================================================================
