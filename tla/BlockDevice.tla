---------------------------- MODULE BlockDevice ----------------------------
(***************************************************************************)
(* What the disk driver promises to the buffer cache: between the call and *)
(* the return of virtio_disk_read() or virtio_disk_write() the block is    *)
(* transferred once, in one step, between the caller's buffer and the disk.*)
(***************************************************************************)
EXTENDS Naturals

CONSTANTS Procs, Blocks, Vals

VARIABLES
    disk,       \* contents of each block
    b_data,     \* contents of the buffer each process uses
    call        \* stage and arguments of each process's call

vars == <<disk, b_data, call>>

NoCall == [at |-> "idle", write |-> FALSE, blk |-> 0]

Init == /\ disk = [k \in Blocks |-> 0] /\ b_data = [p \in Procs |-> 0]
        /\ call = [p \in Procs |-> NoCall]

Ask(p) ==
    /\ call[p].at = "idle"
    /\ \E w \in BOOLEAN, k \in Blocks, v \in Vals :
         /\ call' = [call EXCEPT ![p] = [at |-> "asked", write |-> w, blk |-> k]]
         /\ b_data' = [b_data EXCEPT ![p] = IF w THEN v ELSE 0]
    /\ UNCHANGED disk

Transfer(p) ==
    /\ call[p].at = "asked"
    /\ call' = [call EXCEPT ![p].at = "done"]
    /\ IF call[p].write
         THEN disk' = [disk EXCEPT ![call[p].blk] = b_data[p]] /\ UNCHANGED b_data
         ELSE b_data' = [b_data EXCEPT ![p] = disk[call[p].blk]] /\ UNCHANGED disk

Return(p) ==
    /\ call[p].at = "done"
    /\ call' = [call EXCEPT ![p] = NoCall]
    /\ b_data' = [b_data EXCEPT ![p] = 0]
    /\ UNCHANGED disk

Next == \E p \in Procs : Ask(p) \/ Transfer(p) \/ Return(p)

Spec == Init /\ [][Next]_vars
=============================================================================
