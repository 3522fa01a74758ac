------------------------------ MODULE BlkCache ------------------------------
(***************************************************************************)
(* The block buffer cache (kernel/device/blkbuf.c) and the ways the kernel *)
(* uses it: read a block, change a part of it (writei and the file system, *)
(* through blk_read), write a whole block (blkdev_write, through getblk),  *)
(* and sync.                                                               *)
(*                                                                         *)
(* A step is one blk_cache.lock section, one acquisition or release of a   *)
(* buffer's mutex, or what is done under that mutex up to the end of a     *)
(* disk transfer.  The contents of a block are <<block, version>>: the     *)
(* version counts the writes to the block.                                 *)
(***************************************************************************)
EXTENDS Naturals, Sequences, FiniteSets

CONSTANTS
    Procs,      \* the processes
    None,       \* "nobody holds this mutex"
    Blocks,     \* disk blocks
    NoBlk,      \* the block of a buffer that is in no hash bucket
    NBBUF,      \* number of buffers
    Ops,        \* what processes do: "read", "part", "whole", "sync"
    MaxVer      \* bound: writes to one block

ASSUME BlkCacheAssumption ==
    /\ None \notin Procs /\ NoBlk \notin Blocks
    /\ IsFiniteSet(Procs) /\ IsFiniteSet(Blocks) /\ Blocks # {}
    /\ NBBUF \in Nat /\ NBBUF > 0 /\ MaxVer \in Nat
    /\ Ops \subseteq {"read", "part", "whole", "sync"}

Bufs == 1 .. NBBUF

VARIABLES
    b_blkno,        \* the block of each buffer; NoBlk: b_hashed == 0
    b_count, b_valid, b_dirty, b_data,
    b_mtx,          \* holder of each buffer's mutex
    free_list,      \* front first; get_LRU_blk takes the last
    wait_list,      \* processes waiting for a free buffer
    disk,           \* contents of the disk
    pc,             \* where each process is
    op,             \* what it is doing
    blkno,          \* its argument
    bb,             \* its buffer
    written,        \* history: how often each block has been written
    snap,           \* history: written when the process called sync
    spoilt          \* history: the blocks whose contents the cache gave up

cacheVars == <<b_blkno, b_count, free_list, wait_list>>
bufVars   == <<b_valid, b_dirty, b_data>>
callVars  == <<op, blkno, snap>>
vars == <<cacheVars, bufVars, b_mtx, disk, pc, callVars, bb, written, spoilt>>

Contents == (Blocks \cup {NoBlk}) \X (0 .. MaxVer)

(* What is left of a block when a part of something else was changed.      *)
Mixed == <<NoBlk, 0>>

FirstBlock == CHOOSE k \in Blocks : TRUE

Current(k) == <<k, written[k]>>

Init ==
    /\ b_blkno = [b \in Bufs |-> NoBlk] /\ b_count = [b \in Bufs |-> 0]
    /\ b_valid = [b \in Bufs |-> FALSE] /\ b_dirty = [b \in Bufs |-> FALSE]
    /\ b_data  = [b \in Bufs |-> Mixed]
    /\ b_mtx   = [b \in Bufs |-> None]
    /\ free_list = [i \in Bufs |-> NBBUF + 1 - i]
    /\ wait_list = {}
    /\ disk = [k \in Blocks |-> <<k, 0>>]
    /\ pc = [p \in Procs |-> "idle"] /\ op = [p \in Procs |-> "read"]
    /\ blkno = [p \in Procs |-> FirstBlock]
    /\ bb = [p \in Procs |-> 1]
    /\ written = [k \in Blocks |-> 0]
    /\ snap = [p \in Procs |-> written]
    /\ spoilt = {}

-----------------------------------------------------------------------------
Goto(p, l) == pc' = [pc EXCEPT ![p] = l]

(* The process is done; what it remembered of the call is forgotten.       *)
Forget(p) ==
    /\ Goto(p, "idle")
    /\ op' = [op EXCEPT ![p] = "read"]
    /\ blkno' = [blkno EXCEPT ![p] = FirstBlock]
    /\ bb' = [bb EXCEPT ![p] = 1]
    /\ snap' = [snap EXCEPT ![p] = [k \in Blocks |-> 0]]

(* list_del(): the list without the node of b.                             *)
list_del(s, b) ==
    LET i == CHOOSE j \in DOMAIN s : s[j] = b
    IN  SubSeq(s, 1, i - 1) \o SubSeq(s, i + 1, Len(s))

(* find_buffer_inhash()                                                    *)
InHash(k) == {b \in Bufs : b_blkno[b] = k}

Call(p) ==
    /\ pc[p] = "idle"
    /\ \E o \in Ops \ {"sync"}, k \in Blocks :
         /\ o # "read" => written[k] < MaxVer
         /\ op' = [op EXCEPT ![p] = o]
         /\ blkno' = [blkno EXCEPT ![p] = k]
    /\ Goto(p, "getblk")
    /\ UNCHANGED <<cacheVars, bufVars, b_mtx, disk, bb, written, spoilt, snap>>

(* getblk(): the block is cached.                                          *)
GetHit(p) ==
    /\ pc[p] = "getblk"
    /\ \E b \in InHash(blkno[p]) :
         /\ b_count' = [b_count EXCEPT ![b] = @ + 1]
         /\ free_list' = IF b_count[b] = 0 THEN list_del(free_list, b) ELSE free_list
         /\ bb' = [bb EXCEPT ![p] = b]
    /\ Goto(p, "lock")
    /\ UNCHANGED <<b_blkno, wait_list, bufVars, b_mtx, disk, callVars, written, spoilt>>

(* getblk() goes on with get_LRU_blk() when the block is not cached, and   *)
(* after a sleep in it whether or not it is.                               *)
NeedsLRU(p) == \/ pc[p] = "getblk" /\ InHash(blkno[p]) = {}
               \/ pc[p] = "off" /\ p \notin wait_list

(* The three ways in which the cache gives up the contents of a block:     *)
(* block k is given buffer b with the contents of another block in it ...  *)
Inherits(k, b) == b_blkno[b] # k /\ (b_valid[b] \/ b_dirty[b])

(* ... or next to a buffer it has already, or buffer b of block k is given *)
(* to block j with a write that is not on the disk.                        *)
Doubles(k, b) == InHash(k) \ {b} # {}
Evicts(k, b, j) == b_blkno[b] = k /\ k # j /\ b_dirty[b]

(* get_LRU_blk() and what getblk() does to its result: b_valid and b_dirty *)
(* stay, and the hash is not searched again after a sleep.                 *)
GetLRU(p) ==
    /\ NeedsLRU(p) /\ free_list # <<>>
    /\ LET b == free_list[Len(free_list)] j == blkno[p] IN
         /\ spoilt' = spoilt \cup {k \in Blocks : Evicts(k, b, j)}
                             \cup {k \in {j} : Inherits(j, b) \/ Doubles(j, b)}
         /\ free_list' = SubSeq(free_list, 1, Len(free_list) - 1)
         /\ b_blkno' = [b_blkno EXCEPT ![b] = blkno[p]]
         /\ b_count' = [b_count EXCEPT ![b] = @ + 1]
         /\ bb' = [bb EXCEPT ![p] = b]
    /\ Goto(p, "lock")
    /\ UNCHANGED <<wait_list, bufVars, b_mtx, disk, callVars, written>>

(* No buffer is free: proc_block(&blk_cache.wait_list, &blk_cache.lock).   *)
GetBlock(p) ==
    /\ NeedsLRU(p) /\ free_list = <<>>
    /\ wait_list' = wait_list \cup {p}
    /\ Goto(p, "off")
    /\ UNCHANGED <<b_blkno, b_count, free_list, bufVars, b_mtx, disk,
                   callVars, bb, written, spoilt>>

(* mutex_acquire(&bb->b_mtx) at the end of getblk().                       *)
LockBuf(p) ==
    /\ pc[p] = "lock" /\ b_mtx[bb[p]] = None
    /\ b_mtx' = [b_mtx EXCEPT ![bb[p]] = p]
    /\ Goto(p, IF op[p] = "whole" THEN "use" ELSE "fill")
    /\ UNCHANGED <<cacheVars, bufVars, disk, callVars, bb, written, spoilt>>

(* Mutant: the buffer is never read from the disk.                         *)
FillNever(p) ==
    /\ pc[p] = "fill"
    /\ b_valid' = [b_valid EXCEPT ![bb[p]] = TRUE]
    /\ Goto(p, "use")
    /\ UNCHANGED <<cacheVars, b_dirty, b_data, b_mtx, disk, callVars, bb,
                   written, spoilt>>

(* blk_read(): the write-back of a dirty buffer that changes its block is  *)
(* never due, for getblk() has set b_dev and b_blkno to the arguments      *)
(* already; a buffer that is not valid is read from the disk.              *)
Fill(p) ==
    LET b == bb[p] IN
    /\ pc[p] = "fill"
    /\ b_valid' = [b_valid EXCEPT ![b] = TRUE]
    /\ b_data' = IF b_valid[b] THEN b_data
                 ELSE [b_data EXCEPT ![b] = disk[b_blkno[b]]]
    /\ Goto(p, "use")
    /\ UNCHANGED <<cacheVars, b_dirty, b_mtx, disk, callVars, bb, written, spoilt>>

UseRead(p) ==
    /\ pc[p] = "use" /\ op[p] = "read"
    /\ Goto(p, "unlock")
    /\ UNCHANGED <<cacheVars, bufVars, b_mtx, disk, callVars, bb, written, spoilt>>

(* The contents after a write to block k of a buffer that held c.          *)
Changed(k, c, o) ==
    IF o = "whole" \/ c = Current(k) THEN <<k, written[k] + 1>> ELSE Mixed

(* A buffer that is not valid is filled from the disk when it is read the  *)
(* next time, over the whole block that was written into it.               *)
Unread(k, b) == {j \in {k} : ~ b_valid[b]}

(* Mutant: the buffer is not marked dirty.                                 *)
UseWriteClean(p) ==
    LET b == bb[p] k == blkno[p] IN
    /\ pc[p] = "use" /\ op[p] # "read" /\ written[k] < MaxVer
    /\ b_data'  = [b_data EXCEPT ![b] = Changed(k, @, op[p])]
    /\ written' = [written EXCEPT ![k] = @ + 1]
    /\ spoilt'  = spoilt \cup Unread(k, b)
    /\ Goto(p, "unlock")
    /\ UNCHANGED <<cacheVars, b_dirty, b_valid, b_mtx, disk, callVars, bb>>

(* Data is copied into the buffer; blk_write_over() marks it dirty.        *)
UseWrite(p) ==
    LET b == bb[p] k == blkno[p] IN
    /\ pc[p] = "use" /\ op[p] # "read" /\ written[k] < MaxVer
    /\ b_data'  = [b_data EXCEPT ![b] = Changed(k, @, op[p])]
    /\ b_dirty' = [b_dirty EXCEPT ![b] = TRUE]
    /\ written' = [written EXCEPT ![k] = @ + 1]
    /\ spoilt'  = spoilt \cup Unread(k, b)
    /\ Goto(p, "unlock")
    /\ UNCHANGED <<cacheVars, b_valid, b_mtx, disk, callVars, bb>>

(* The bound on writes was reached while the process waited.               *)
UseBound(p) ==
    /\ pc[p] = "use" /\ op[p] # "read" /\ written[blkno[p]] = MaxVer
    /\ Goto(p, "unlock")
    /\ UNCHANGED <<cacheVars, bufVars, b_mtx, disk, callVars, bb, written, spoilt>>

(* blk_release(): the mutex first ...                                      *)
UnlockBuf(p) ==
    /\ pc[p] = "unlock"
    /\ b_mtx' = [b_mtx EXCEPT ![bb[p]] = None]
    /\ Goto(p, "put")
    /\ UNCHANGED <<cacheVars, bufVars, disk, callVars, bb, written, spoilt>>

(* Mutant: nobody is woken when a buffer becomes free.                     *)
PutNoWake(p) ==
    LET b == bb[p] IN
    /\ pc[p] = "put"
    /\ b_count' = [b_count EXCEPT ![b] = @ - 1]
    /\ free_list' = IF b_count[b] = 1 THEN <<b>> \o free_list ELSE free_list
    /\ Forget(p)
    /\ UNCHANGED <<b_blkno, wait_list, bufVars, b_mtx, disk, written, spoilt>>

(* ... then the reference, in a blk_cache.lock section of its own.         *)
Put(p) ==
    LET b == bb[p] IN
    /\ pc[p] = "put"
    /\ b_count' = [b_count EXCEPT ![b] = @ - 1]
    /\ free_list' = IF b_count[b] = 1 THEN <<b>> \o free_list ELSE free_list
    /\ wait_list' = IF b_count[b] = 1 THEN {} ELSE wait_list
    /\ Forget(p)
    /\ UNCHANGED <<b_blkno, bufVars, b_mtx, disk, written, spoilt>>

-----------------------------------------------------------------------------
(* blk_sync_all()                                                          *)

SyncCall(p) ==
    /\ pc[p] = "idle" /\ "sync" \in Ops
    /\ bb' = [bb EXCEPT ![p] = 1]
    /\ snap' = [snap EXCEPT ![p] = written]
    /\ Goto(p, "slock")
    /\ UNCHANGED <<cacheVars, bufVars, b_mtx, disk, op, blkno, written, spoilt>>

SyncLock(p) ==
    /\ pc[p] = "slock" /\ b_mtx[bb[p]] = None
    /\ b_mtx' = [b_mtx EXCEPT ![bb[p]] = p]
    /\ Goto(p, "swrite")
    /\ UNCHANGED <<cacheVars, bufVars, disk, callVars, bb, written, spoilt>>

(* Mutant: a buffer in use is passed over.                                 *)
SyncWriteIdle(p) ==
    LET b == bb[p] IN
    /\ pc[p] = "swrite"
    /\ disk' = IF b_dirty[b] /\ b_count[b] = 0
                 THEN [disk EXCEPT ![b_blkno[b]] = b_data[b]] ELSE disk
    /\ b_dirty' = IF b_count[b] = 0 THEN [b_dirty EXCEPT ![b] = FALSE] ELSE b_dirty
    /\ Goto(p, "sunlock")
    /\ UNCHANGED <<cacheVars, b_valid, b_data, b_mtx, callVars, bb, written, spoilt>>

(* A dirty buffer is written to the block it has now, and the interrupt    *)
(* handler marks it valid.                                                 *)
SyncWrite(p) ==
    LET b == bb[p] IN
    /\ pc[p] = "swrite"
    /\ disk' = IF b_dirty[b] THEN [disk EXCEPT ![b_blkno[b]] = b_data[b]] ELSE disk
    /\ b_valid' = [b_valid EXCEPT ![b] = @ \/ b_dirty[b]]
    /\ b_dirty' = [b_dirty EXCEPT ![b] = FALSE]
    /\ Goto(p, "sunlock")
    /\ UNCHANGED <<cacheVars, b_data, b_mtx, callVars, bb, written, spoilt>>

SyncUnlock(p) ==
    /\ pc[p] = "sunlock"
    /\ b_mtx' = [b_mtx EXCEPT ![bb[p]] = None]
    /\ IF bb[p] = NBBUF THEN Goto(p, "sdone") /\ UNCHANGED bb
       ELSE Goto(p, "slock") /\ bb' = [bb EXCEPT ![p] = @ + 1]
    /\ UNCHANGED <<cacheVars, bufVars, disk, callVars, written, spoilt>>

SyncReturn(p) ==
    /\ pc[p] = "sdone"
    /\ Forget(p)
    /\ UNCHANGED <<cacheVars, bufVars, b_mtx, disk, written, spoilt>>

-----------------------------------------------------------------------------
KernelStep(p) ==
    \/ GetHit(p) \/ GetLRU(p) \/ GetBlock(p) \/ LockBuf(p) \/ Fill(p)
    \/ UseRead(p) \/ UseWrite(p) \/ UseBound(p) \/ UnlockBuf(p) \/ Put(p)
    \/ SyncLock(p) \/ SyncWrite(p) \/ SyncUnlock(p) \/ SyncReturn(p)

Next == \E p \in Procs : Call(p) \/ SyncCall(p) \/ KernelStep(p)

Spec == Init /\ [][Next]_vars
-----------------------------------------------------------------------------
(* Properties                                                              *)

Holding == {"lock", "fill", "use", "unlock", "put"}
Users(b) == {p \in Procs : pc[p] \in Holding /\ bb[p] = b}

(* Types of the cache, of the disk and of the calls in progress.           *)
TypeOK ==
    /\ b_blkno \in [Bufs -> Blocks \cup {NoBlk}]
    /\ b_count \in [Bufs -> 0 .. Cardinality(Procs)]
    /\ b_valid \in [Bufs -> BOOLEAN] /\ b_dirty \in [Bufs -> BOOLEAN]
    /\ b_data  \in [Bufs -> Contents]
    /\ b_mtx   \in [Bufs -> Procs \cup {None}]
    /\ free_list \in Seq(Bufs) /\ wait_list \subseteq Procs
    /\ disk \in [Blocks -> Contents]
    /\ pc \in [Procs -> Holding \cup {"idle", "getblk", "off", "slock",
                                      "swrite", "sunlock", "sdone"}]
    /\ op \in [Procs -> {"read", "part", "whole"}] /\ blkno \in [Procs -> Blocks]
    /\ bb \in [Procs -> Bufs]
    /\ written \in [Blocks -> 0 .. MaxVer]
    /\ snap \in [Procs -> [Blocks -> 0 .. MaxVer]]
    /\ spoilt \subseteq Blocks

(* b_count counts the processes between getblk() and blk_release(), and    *)
(* the free list holds each buffer nobody uses once and no other: a buffer *)
(* in use is never recycled, one given back is never lost.                 *)
FreeListExact ==
    /\ \A b \in Bufs : b_count[b] = Cardinality(Users(b))
    /\ {free_list[i] : i \in DOMAIN free_list} = {b \in Bufs : Users(b) = {}}
    /\ \A i, j \in DOMAIN free_list : i # j => free_list[i] # free_list[j]

(* A process sleeps in get_LRU_blk() only as long as there is no buffer.   *)
SleepersHaveNone == wait_list # {} => free_list = <<>>

(* The pool of buffers: every one is in use or on the free list, and no    *)
(* process sleeps for one while there is one.                              *)
PoolExact == FreeListExact /\ SleepersHaveNone

(* The comment on getblk(): the buffer of a disk's block is unique.        *)
UniqueBuffer == \A k \in Blocks : Cardinality(InHash(k)) <= 1

(* The comment on blk_read(): the buffer it returns has the contents of    *)
(* the indicated block, that is, of that block and as last written; so it  *)
(* is as long as the cache has not given the block's contents up, however  *)
(* it recycles the other buffers.                                          *)
IndicatedContents ==
    \A p \in Procs : (pc[p] = "use" /\ op[p] # "whole" /\ blkno[p] \notin spoilt) =>
       b_data[bb[p]] = Current(blkno[p])

(* Write-back: what was last written to a block is on the disk, or in a    *)
(* buffer of that block that is marked dirty; a block that is not cached   *)
(* any more has it on the disk.                                            *)
NoWriteLost ==
    \A k \in Blocks \ spoilt :
       \/ disk[k] = Current(k)
       \/ \E b \in InHash(k) : b_dirty[b] /\ b_data[b] = Current(k)

(* When blk_sync_all() is through, every write that had ended before it    *)
(* was called is on the disk, whatever was written or recycled meanwhile.  *)
SyncPersists ==
    \A p \in Procs : pc[p] = "sdone" =>
       \A k \in Blocks \ spoilt : disk[k][1] = k /\ disk[k][2] >= snap[p][k]
=============================================================================
