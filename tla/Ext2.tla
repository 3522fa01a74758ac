-------------------------------- MODULE Ext2 --------------------------------
(***************************************************************************)
(* File contents on the disk (fs/ext2fs.c): the block bitmaps, the map     *)
(* from file offsets to blocks with its three levels of index blocks,      *)
(* writei() and itruncate().  Calls on a file hold its mutex, and the      *)
(* model runs one call at a time, on the disk as the buffer cache shows    *)
(* it; a step is one turn of a loop.  A block is PER words, which are data *)
(* or block numbers: an index block starts with what its block held        *)
(* before.  bad is set, and the model stops, when the code leaves what it  *)
(* defines: the disk is full (balloc() returns -1 where bmap() tests for   *)
(* 0), an index block is taken from a block with old data in it, or an     *)
(* assert() fails.                                                         *)
(***************************************************************************)
EXTENDS Integers, Sequences, FiniteSets

CONSTANTS
    FileIds,    \* the files
    Group,      \* i_block_group of each file
    NGroups,    \* EXT2_GRP_NUM
    PerGroup,   \* s_blocks_per_group
    Reserved,   \* blocks in use by the file system itself
    NDIR,       \* EXT2_NDIR_BLOCKS
    PER,        \* EXT2_IND_PER_BLK, and BLKSIZE in words
    MaxSize,    \* bound: greatest size of each file, in words
    Offs, Lens, \* offsets and lengths of the writes programs make
    Cuts,       \* lengths given to truncate()
    MaxOps      \* bound: calls in a behaviour

Blocks == 0 .. (NGroups * PerGroup - 1)
Groups == 0 .. (NGroups - 1)

(* i_block: NDIR direct blocks, then the three index blocks, and the first *)
(* file block past each of them.                                           *)
IND  == NDIR
DIND == NDIR + 1
TIND == NDIR + 2
IND_LIMIT  == NDIR + PER
DIND_LIMIT == IND_LIMIT + PER * PER
TIND_LIMIT == DIND_LIMIT + PER * PER * PER

ASSUME Ext2Assumption ==
    /\ Group \in [FileIds -> Groups]
    /\ PerGroup \in Nat \ {0} /\ NDIR \in Nat \ {0} /\ PER \in Nat /\ PER > 1
    /\ 0 \in Reserved /\ Reserved \subseteq Blocks
    /\ MaxSize \in [FileIds -> 0 .. (TIND_LIMIT * PER)]

VARIABLES
    disk,       \* words of each block
    used,       \* the block bitmaps
    inode,      \* of each file: [size, blocks, at]
    pc, cur,    \* where the call in progress is, and its variables
    bad,
    ops         \* calls made

blockVars == <<disk, used>>
vars == <<blockVars, inode, pc, cur, bad, ops>>

Zeros == [i \in 0 .. (PER - 1) |-> 0]
NoCur == [f |-> 0]

Init ==
    /\ disk = [b \in Blocks |-> Zeros]
    /\ used = Reserved
    /\ inode = [f \in FileIds |-> [size |-> 0, blocks |-> 0,
                                   at |-> [i \in 0 .. TIND |-> 0]]]
    /\ pc = "idle" /\ cur = NoCur
    /\ bad = FALSE /\ ops = 0

-----------------------------------------------------------------------------
(* The bitmaps                                                             *)

Lowest(S) == CHOOSE x \in S : \A y \in S : x <= y

(* search_free_bit() in the bitmap of group g.                             *)
FreeBits(g) == {i \in 0 .. (PerGroup - 1) : (g * PerGroup + i) \notin used}

(* balloc(): its own group first, then the others in order.                *)
BallocGroup(g) ==
    IF FreeBits(g) # {} THEN g ELSE Lowest({h \in Groups : FreeBits(h) # {}})

(* The number it returns for a block of group h: the blocks of the groups  *)
(* it passed are counted, but not those of its own.                        *)
BallocBase(g, h) ==
    IF h = g THEN g * PerGroup
    ELSE PerGroup * Cardinality({i \in Groups \ {g} : i < h})

Full == \A g \in Groups : FreeBits(g) = {}

(* balloc() returns no.                                                    *)
Balloc(g, no) ==
    LET h == BallocGroup(g) IN
    /\ ~Full
    /\ no = BallocBase(g, h) + Lowest(FreeBits(h))
    /\ used' = used \cup {h * PerGroup + Lowest(FreeBits(h))}

Bfree(b) == used' = used \ {b}

Goto(l, c) == pc' = l /\ cur' = c
Stop == bad' = TRUE /\ UNCHANGED <<blockVars, inode, pc, cur, ops>>

-----------------------------------------------------------------------------
(* bmap()                                                                  *)

(* The index block a file block is under, its number there, and what one   *)
(* word of that index block covers.                                        *)
Layer(blk) ==
    CASE blk < IND_LIMIT  -> [top |-> IND,  blk |-> blk - NDIR, div |-> 1]
      [] blk < DIND_LIMIT -> [top |-> DIND, blk |-> blk - IND_LIMIT, div |-> PER]
      [] OTHER            -> [top |-> TIND, blk |-> blk - DIND_LIMIT, div |-> PER * PER]

(* A word w that names a block, 0 if it has to be allocated; an index      *)
(* block is used as it is found.                                           *)
Block(g, w, index, no) ==
    IF w # 0 THEN no = w /\ UNCHANGED used
    ELSE Balloc(g, no) /\ (index => disk[no] = Zeros)

(* Neither.                                                                *)
BlockBad(g, w, index) ==
    /\ w = 0
    /\ ~Full => index /\ disk[BallocBase(g, BallocGroup(g))
                              + Lowest(FreeBits(BallocGroup(g)))] # Zeros

(* The word in the inode.                                                  *)
Map ==
    LET f   == cur.f
        blk == cur.off \div PER
        l   == Layer(blk)
        i   == IF blk < NDIR THEN blk ELSE l.top
        w   == inode[f].at[i]
    IN  /\ pc = "map"
        /\ \/ BlockBad(Group[f], w, blk >= NDIR) /\ Stop
           \/ \E no \in Blocks :
                 /\ Block(Group[f], w, blk >= NDIR, no)
                 /\ inode' = [inode EXCEPT ![f].at[i] = no]
                 /\ IF blk < NDIR THEN Goto("copy", [cur EXCEPT !.addr = no])
                    ELSE Goto("index", [cur EXCEPT !.addr = no, !.blk = l.blk, !.div = l.div])
                 /\ UNCHANGED <<disk, bad, ops>>

(* Mutant: the rest of the block number is not taken.                      *)
NextIndexWhole(no) ==
    Goto(IF cur.div = 1 THEN "copy" ELSE "index",
         [cur EXCEPT !.addr = no, !.div = @ \div PER,
                     !.blk = IF @ < PER THEN @ ELSE PER - 1])

NextIndex(no) ==
    Goto(IF cur.div = 1 THEN "copy" ELSE "index",
         [cur EXCEPT !.addr = no, !.blk = @ % cur.div, !.div = @ \div PER])

(* One turn of the loop through the index blocks.                          *)
Index ==
    LET i == cur.blk \div cur.div
        w == disk[cur.addr][i]
    IN  /\ pc = "index"
        /\ \/ BlockBad(Group[cur.f], w, cur.div # 1) /\ Stop
           \/ \E no \in Blocks :
                 /\ Block(Group[cur.f], w, cur.div # 1, no)
                 /\ disk' = [disk EXCEPT ![cur.addr][i] = no]
                 /\ NextIndex(no)
                 /\ UNCHANGED <<inode, bad, ops>>

-----------------------------------------------------------------------------
(* writei(), for write() and for the zeros of a longer file                *)

Min2(a, b) == IF a < b THEN a ELSE b

(* What programs write: a word tells its file and its offset apart.        *)
Word(f, off) == 1 + (off % 3) + 4 * f

StartWrite(f, off, n, to) ==
    Goto("map", [f |-> f, off |-> off, end |-> off + n, to |-> to,
                 addr |-> 0, blk |-> 0, div |-> 0])

(* file_write() at a position set by lseek(); past the end writei() fails. *)
Write(f, off, n) ==
    /\ pc = "idle" /\ off <= inode[f].size /\ off + n <= MaxSize[f]
    /\ StartWrite(f, off, n, -1)
    /\ UNCHANGED <<blockVars, inode, bad>>

(* The words of one block.                                                 *)
Copy ==
    LET base == (cur.off \div PER) * PER
        next == Min2(cur.end, base + PER)
    IN  /\ pc = "copy"
        /\ disk' = [disk EXCEPT ![cur.addr] = [i \in 0 .. (PER - 1) |->
              IF base + i >= cur.off /\ base + i < next
              THEN IF cur.to = -1 THEN Word(cur.f, base + i) ELSE 0
              ELSE @[i]]]
        /\ Goto(IF next = cur.end THEN "wrote" ELSE "map", [cur EXCEPT !.off = next])
        /\ UNCHANGED <<used, inode, bad, ops>>

(* The new size, and i_blocks computed from it; itruncate() goes on until  *)
(* the file is as long as asked.                                           *)
Wrote ==
    LET f == cur.f IN
    /\ pc = "wrote"
    /\ inode' = IF cur.off <= inode[f].size THEN inode
                ELSE [inode EXCEPT ![f].size = cur.off, ![f].blocks = cur.off \div PER + 1]
    /\ IF cur.to > cur.off THEN StartWrite(f, cur.off, Min2(PER, cur.to - cur.off), cur.to)
       ELSE Goto("idle", NoCur)
    /\ UNCHANGED <<blockVars, bad, ops>>

(* itruncate() to a larger size: zeros, a block's worth at a time.         *)
Grow(f, len) ==
    /\ pc = "idle" /\ len > inode[f].size /\ len <= MaxSize[f]
    /\ StartWrite(f, inode[f].size, Min2(PER, len - inode[f].size), len)
    /\ UNCHANGED <<blockVars, inode, bad>>

-----------------------------------------------------------------------------
(* itruncate() to a smaller size, bunmap() and recursively_release()       *)

Shrink(f, len) ==
    /\ pc = "idle" /\ len < inode[f].size
    /\ Goto("cut", [f |-> f, i |-> inode[f].size, len |-> len,
                    path |-> <<>>, addr |-> 0, blk |-> 0, div |-> 0])
    /\ UNCHANGED <<blockVars, inode, bad>>

(* alignaddr_up(length): the first offset past the last block kept.        *)
Low == ((cur.len + PER - 1) \div PER) * PER

(* One turn of the loop of itruncate(): the last block of what is left.    *)
CutDirect ==
    LET f == cur.f
        k == (cur.i - 1) \div PER
    IN  /\ pc = "cut" /\ cur.i > Low /\ k < NDIR
        /\ Bfree(inode[f].at[k])
        /\ inode' = [inode EXCEPT ![f].at[k] = 0, ![f].blocks = @ - 1]
        /\ Goto("cut", [cur EXCEPT !.i = @ - PER])
        /\ UNCHANGED <<disk, bad, ops>>

CutIndexed ==
    LET k == (cur.i - 1) \div PER
        l == Layer(k)
    IN  /\ pc = "cut" /\ cur.i > Low /\ k >= NDIR
        /\ Goto("down", [cur EXCEPT !.path = <<>>, !.addr = inode[cur.f].at[l.top],
                                    !.blk = l.blk, !.div = l.div])
        /\ UNCHANGED <<blockVars, inode, bad, ops>>

(* recursively_release() calls itself down to the level of file blocks,    *)
(* each level with its word of an index block.                             *)
Down ==
    LET i == cur.blk \div cur.div IN
    /\ pc = "down"
    /\ Goto(IF cur.div = 1 THEN "up" ELSE "down",
            [cur EXCEPT !.path = Append(@, <<cur.addr, i>>), !.addr = disk[cur.addr][i],
                        !.blk = @ % cur.div, !.div = @ \div PER])
    /\ UNCHANGED <<blockVars, inode, bad, ops>>

(* Mutant: an index block goes with the first block under it.              *)
EmptyAlways(b) == disk'[b] = disk'[b]

(* The index block has no word left.                                       *)
Empty(b) == disk'[b] = Zeros

(* On the way back the block is freed and its word cleared; while that     *)
(* leaves an index block empty, the level above does the same.             *)
Up ==
    LET w == cur.path[Len(cur.path)] IN
    /\ pc = "up" /\ cur.path # <<>>
    /\ Bfree(disk[w[1]][w[2]])
    /\ disk' = [disk EXCEPT ![w[1]][w[2]] = 0]
    /\ inode' = [inode EXCEPT ![cur.f].blocks = @ - 1]
    /\ IF Empty(w[1]) THEN Goto("up", [cur EXCEPT !.path = SubSeq(@, 1, Len(@) - 1)])
       ELSE Goto("cut", [cur EXCEPT !.i = @ - PER])
    /\ UNCHANGED <<bad, ops>>

(* bunmap() frees the first index block when it is empty.                  *)
UpTop ==
    LET t == Layer((cur.i - 1) \div PER).top IN
    /\ pc = "up" /\ cur.path = <<>>
    /\ Bfree(inode[cur.f].at[t])
    /\ inode' = [inode EXCEPT ![cur.f].at[t] = 0, ![cur.f].blocks = @ - 1]
    /\ Goto("cut", [cur EXCEPT !.i = @ - PER])
    /\ UNCHANGED <<disk, bad, ops>>

(* The assertion on i_blocks binds as "(i_blocks == (length == 0)) ? 0 :   *)
(* n": it fails when a file that keeps a length has come to i_blocks 0.    *)
CutDone ==
    /\ pc = "cut" /\ cur.i <= Low
    /\ \/ cur.len # 0 /\ inode[cur.f].blocks = 0 /\ Stop
       \/ /\ cur.len = 0 \/ inode[cur.f].blocks # 0
          /\ inode' = [inode EXCEPT ![cur.f].size = cur.len]
          /\ Goto("idle", NoCur)
          /\ UNCHANGED <<blockVars, bad, ops>>

-----------------------------------------------------------------------------
Call ==
    \/ \E f \in FileIds, n \in Lens : \E off \in Offs \cup {inode[f].size} : Write(f, off, n)
    \/ \E f \in FileIds, len \in Cuts : Grow(f, len) \/ Shrink(f, len)

Step == \/ Map \/ Index \/ Copy \/ Wrote
        \/ CutDirect \/ CutIndexed \/ Down \/ Up \/ UpTop \/ CutDone

Next == ~bad /\ \/ ops < MaxOps /\ ops' = ops + 1 /\ Call
                \/ Step

Spec == Init /\ [][Next]_vars

-----------------------------------------------------------------------------
(* The blocks that the words of index blocks name.                         *)
Kids(bs) == {disk[b][i] : b \in bs, i \in 0 .. (PER - 1)} \ {0}

(* The index blocks of file f, level by level.                             *)
IndexBlocks(f) ==
    LET at(i) == {inode[f].at[i]} \ {0} IN
    at(IND) \cup at(DIND) \cup Kids(at(DIND))
    \cup at(TIND) \cup Kids(at(TIND)) \cup Kids(Kids(at(TIND)))

(* The words that name a block: of the inodes and of the index blocks.     *)
InodeWords == {w \in FileIds \X (0 .. TIND) : inode[w[1]].at[w[2]] # 0}
IndexWords == {w \in (UNION {IndexBlocks(f) : f \in FileIds}) \X (0 .. (PER - 1)) :
                  disk[w[1]][w[2]] # 0}

(* Every block the bitmap has as used is the file system's own or is named *)
(* by exactly one word, and the blocks that are named are used: no two     *)
(* files share a block, none is lost, and none in use is free.             *)
BlocksExact ==
    LET named == {inode[w[1]].at[w[2]] : w \in InodeWords}
                 \cup {disk[w[1]][w[2]] : w \in IndexWords}
    IN  /\ used = Reserved \cup named
        /\ named \cap Reserved = {}
        /\ Cardinality(named) = Cardinality(InodeWords) + Cardinality(IndexWords)

(* Where block k of file f is: the words on the way down.                  *)
Addr(f, k) ==
    LET l == Layer(k)
        D[j \in 0 .. 3] ==
            IF j = 0 THEN [b |-> inode[f].at[l.top], k |-> l.blk, div |-> l.div]
            ELSE LET c == D[j - 1] IN
                 IF c.div = 0 THEN c
                 ELSE [b |-> disk[c.b][c.k \div c.div], k |-> c.k % c.div,
                       div |-> c.div \div PER]
    IN  IF k < NDIR THEN inode[f].at[k] ELSE D[3].b

(* What a file shows: a file that is being cut has its new length.         *)
Size(f) == IF pc \in {"cut", "down", "up"} /\ cur.f = f THEN cur.len ELSE inode[f].size
Content(f) ==
    LET F[k \in 0 .. ((Size(f) + PER - 1) \div PER)] ==
            IF k = 0 THEN <<>>
            ELSE F[k - 1] \o [i \in 1 .. PER |-> disk[Addr(f, k - 1)][i - 1]]
    IN  SubSeq(F[(Size(f) + PER - 1) \div PER], 1, Size(f))

(* Through the map the files are plain sequences of words (PlainFiles): a  *)
(* write or a truncation, whatever levels of the map it allocates, frees   *)
(* or reuses, shows in its own file and nowhere else.                      *)
Plain == INSTANCE PlainFiles WITH content <- [f \in FileIds |-> Content(f)]

ImplementsPlainFiles == Plain!Spec
=============================================================================
