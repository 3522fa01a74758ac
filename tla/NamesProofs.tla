----------------------------- MODULE NamesProofs ----------------------------
(***************************************************************************)
(* Proofs about the names of module Files, for any number of processes,    *)
(* slots, fcbs and descriptors, any programs and any disk that mkfs.ext2   *)
(* can have written: a name leads to an inode that is allocated and counts *)
(* it, waiting for inode mutexes makes no ring, and the string of a        *)
(* current directory leads to its inode.                                   *)
(*                                                                         *)
(* An inode is settled once a directory names it (or it is the root): no   *)
(* call takes a name away, so it stays settled, and a reference that is    *)
(* not that of a create() in progress is to a settled inode, whose link    *)
(* count is above 0.  Only the inode that create() gives up dies.          *)
(*                                                                         *)
(* At the end, the entries of a directory, module DirBlock: adding a name  *)
(* keeps the entries apart and moves none of them.                         *)
(***************************************************************************)
EXTENDS FilesProofs, DirBlock

Settled(n) == n = Root \/ \E d \in Inos, m \in Names : entries[d][m] = n
Sits(s) == s \in Slots /\ slot[s].dev = 1 /\ slot[s].no \in Inos /\ Settled(slot[s].no)
IsDir(s) == dnode[slot[s].no].mode = "dir"

(* The names of an inode, and the calls of link() that hold a link of it   *)
(* for a name they have not made.                                          *)
NamesOf(n) == {dm \in Inos \X Names : entries[dm[1]][dm[2]] = n}
Linking(n) == {p \in Procs : /\ loc[p].call.name = "link2" /\ pc[p] # "linked"
                             /\ slot[loc[p].obj].no = n}

(* The directories form a tree: each has the entries "." and "..", and the *)
(* second is the directory that names it.                                  *)
TreeInv ==
    /\ entries \in [Inos -> [DirNames -> Inos \cup {0}]]
    /\ entries[Root][".."] = Root
    /\ \A d \in Inos, m \in DirNames :
          LET n == entries[d][m] IN
          n # 0 => /\ Settled(d) /\ dnode[d].mode = "dir" /\ Settled(n)
                   /\ m \in Names /\ dnode[n].mode = "dir" => entries[n][".."] = d
    /\ \A n \in Inos : Settled(n) /\ dnode[n].mode = "dir" =>
          entries[n]["."] = n /\ entries[n][".."] # 0

(* The link count on the disk covers the names and the links to come.      *)
DnodeOK == /\ DOMAIN dnode = Inos
           /\ \A n \in Inos : /\ DOMAIN dnode[n] = {"used", "mode", "links"}
                              /\ dnode[n].links \in Int /\ dnode[n].used \in BOOLEAN
LinksCover(n) ==
    dnode[n].links >= Cardinality(NamesOf(n)) + Cardinality(Linking(n))
                      + (IF n = Root THEN 1 ELSE 0)
LinksInv ==
    /\ DnodeOK
    /\ \A n \in Inos : Settled(n) => dnode[n].used /\ LinksCover(n)

(* A slot that was read shows what the disk has, except while create()     *)
(* waits to write its new inode; a slot of device 0 is a pipe's.           *)
Unwritten(s) == \E p \in Procs : pc[p] = "cnew" /\ loc[p].cur = s
InSlotInv ==
    \A s \in Slots :
       /\ slot[s].valid \in BOOLEAN /\ slot[s].dev \in {0, 1}
       /\ slot[s].dev = 1 => slot[s].no \in Inos
       /\ slot[s].dev = 0 /\ slot[s].count > 0 => slot[s].mode = "fifo"
       /\ slot[s].dev = 1 /\ slot[s].valid /\ ~Unwritten(s) =>
             /\ slot[s].links = dnode[slot[s].no].links
             /\ slot[s].mode = dnode[slot[s].no].mode

(* An open file is an inode with a name or a pipe.                         *)
FileInv ==
    \A f \in Fcbs : files[f].count > 0 =>
        LET s == files[f].inode IN
        Sits(s) \/ (s \in Slots /\ slot[s].dev = 0 /\ slot[s].mode = "fifo")

(* The points of create() with the new inode, and those with the parent    *)
(* locked.                                                                 *)
Making == {"ialloc", "cnew", "clink"}
InParent == Making \cup {"cdir", "cfail"}

(* What the owner of an i_mtx is doing.                                    *)
Holds(p, s) ==
    \/ pc[p] = "look" /\ s = loc[p].cur
    \/ Eff(p) \in InParent /\ s = loc[p].par
    \/ pc[p] = "clink" /\ s = loc[p].cur
    \/ pc[p] \in {"ifree", "itrunc"} /\ s = loc[p].dead
    \/ pc[p] = "dents" /\ s = loc[p].obj
LockInv ==
    /\ DOMAIN imtx = Slots
    /\ \A s \in Slots : imtx[s] # None => imtx[s] \in Procs /\ Holds(imtx[s], s)

(* The new inode of one create() is not that of another, nor one that      *)
(* another is about to free.                                               *)
PairInv ==
    \A p, q \in Procs : p # q /\ pc[p] \in Making =>
        /\ pc[q] \in Making => loc[q].no # loc[p].no
        /\ pc[q] = "ifree" => slot[loc[q].dead].no # loc[p].no

Home(p) ==
    /\ icwd[p] # None => Sits(icwd[p])
    /\ p \in alive /\ pc[p] # "gone" => icwd[p] # None
HomeInv == \A p \in Procs : Home(p)

(* open() with a size to look up and getdents() have the inode open, and   *)
(* getdents() has locked it.                                               *)
OpenAt(p, fd, s) ==
    /\ fdtable[p][fd] \in Fcbs
    /\ files[fdtable[p][fd]].count > 0 /\ files[fdtable[p][fd]].inode = s
Sizes(p) ==
    /\ pc[p] \in {"size", "dents"} =>
          /\ Sits(loc[p].obj)
          /\ \E fd \in Fds : OpenAt(p, fd, loc[p].obj)
    /\ pc[p] = "dents" => imtx[loc[p].obj] = p /\ IsDir(loc[p].obj)
SizeInv == \A p \in Procs : Sizes(p)

(* What p relies on at each point of a call with a path.                   *)
Paths(p) ==
    LET k == loc[p] IN
    /\ k.rest \in Seq(DirNames)
    /\ k.call.name = "link" => /\ k.call.new.abs \in BOOLEAN
                               /\ k.call.new.elems \in Seq(DirNames)
    /\ pc[p] = "look" => k.rest # <<>>
    /\ pc[p] \in {"parent", "cdir"} \cup Making => Len(k.rest) = 1
Walks(p) ==
    /\ pc[p] \in {"walk", "look", "found", "cold"} => Sits(loc[p].cur)
    /\ pc[p] = "look" => imtx[loc[p].cur] = p /\ IsDir(loc[p].cur)
Climbs(p) ==
    /\ Eff(p) \in InParent \cup {"parent"} => Sits(loc[p].par) /\ IsDir(loc[p].par)
    /\ Eff(p) \in InParent => imtx[loc[p].par] = p /\ slot[loc[p].par].valid
Relinks(p) ==
    /\ loc[p].call.name = "link2" =>
          /\ pc[p] \in {"root", "walk", "look", "parent", "cdir", "linked", "undo"}
          /\ Sits(loc[p].obj) /\ slot[loc[p].obj].valid /\ ~IsDir(loc[p].obj)
    /\ pc[p] \in {"linked", "undo"} => loc[p].call.name = "link2"
Makes(p) ==
    LET k == loc[p] IN
    /\ pc[p] \in Making =>
          /\ k.no \in Inos /\ ~Settled(k.no) /\ dnode[k.no].used
          /\ k.rest[1] \in Names /\ Entry(k.par, k.rest[1]) = 0
          /\ k.call.name # "link2"
    /\ pc[p] \in {"cnew", "clink"} =>
          k.cur \in Slots /\ slot[k.cur].dev = 1 /\ slot[k.cur].no = k.no
    /\ pc[p] = "clink" =>
          /\ imtx[k.cur] = p /\ slot[k.cur].valid /\ dnode[k.no].links = 1
          /\ dnode[k.no].mode = IF k.call.name = "mkdir" THEN "dir" ELSE "reg"
Dies(p) ==
    LET s == loc[p].dead IN
    /\ pc[p] \in {"ifree", "itrunc", "idrop"} => loc[p].then = "cfail"
    /\ pc[p] \in {"ifree", "itrunc"} =>
          /\ s \in Slots /\ imtx[s] = p /\ slot[s].dev = 1
          /\ slot[s].no \in Inos /\ ~Settled(slot[s].no)
    /\ pc[p] = "ifree" => dnode[slot[s].no].used
CallInv(p) == Paths(p) /\ Walks(p) /\ Climbs(p) /\ Relinks(p) /\ Makes(p) /\ Dies(p)

NameInv ==
    /\ TreeInv /\ LinksInv /\ InSlotInv /\ FileInv /\ LockInv /\ PairInv
    /\ HomeInv /\ SizeInv
    /\ \A p \in Procs : CallInv(p)
-----------------------------------------------------------------------------
(* What a step of p leaves to the others.  A slot in use keeps its inode   *)
(* and what was read of it.                                                *)
KeptSlot(p, s) ==
    /\ slot'[s].dev = slot[s].dev /\ slot'[s].no = slot[s].no
    /\ slot[s].valid => slot'[s].valid \/ (imtx[s] = p /\ ~Settled(slot[s].no))
    /\ slot[s].dev = 0 => slot'[s].mode = slot[s].mode

(* The inodes of the disk that p may change, and the one it may settle.    *)
Writes(p, n) ==
    \/ Settled(n) \/ ~dnode[n].used
    \/ pc[p] \in {"cnew", "clink"} /\ n = loc[p].no
    \/ pc[p] = "ifree" /\ n = slot[loc[p].dead].no
CalmDisk(p) ==
    /\ \A d \in Inos, m \in DirNames :
          entries[d][m] # 0 => entries'[d][m] = entries[d][m]
    /\ \A s \in Slots : slot[s].dev = 1 /\ imtx[s] \in Procs \ {p} =>
          entries'[slot[s].no] = entries[slot[s].no]
    /\ \A n \in Inos :
          /\ Settled(n) => dnode'[n].mode = dnode[n].mode
          /\ dnode'[n] # dnode[n] => Writes(p, n)
          /\ ~Settled(n) /\ Settled(n)' => pc[p] = "clink" /\ n = loc[p].no
CalmLocks(p) ==
    \A s \in Slots, q \in Procs \ {p} : imtx'[s] = q <=> imtx[s] = q
Calm(p) ==
    /\ \A q \in Procs \ {p} : pc'[q] = pc[q] /\ loc'[q] = loc[q]
    /\ \A s \in Slots : slot[s].count > 0 => KeptSlot(p, s)
    /\ CalmLocks(p) /\ CalmDisk(p)

(* A slot that somebody refers to is in use.                               *)
LEMMA HeldInUse ==
  ASSUME TableInv, NEW h \in Places, NEW s \in Slots, Held[h] = s
  PROVE  slot[s].count > 0
<1> DEFINE A == {g \in Places : Held[g] = s}
<1>1. IsFiniteSet(A)
  BY PlacesFinite, FS_Subset
<1>2. Cardinality(A) # 0 /\ Cardinality(A) \in Nat
  BY <1>1, FS_EmptySet, FS_CardinalityType
<1>3. slot[s].count >= Cardinality(A) /\ slot[s].count \in Int
  BY DEF TableInv, TableOK, Covers
<1> QED BY <1>2, <1>3

(* A variable of a call keeps its slot in use, ...                         *)
LEMMA VarInUse ==
  ASSUME TableInv, NEW q \in Procs, NEW v \in RefVars, pc[q] \notin {"size", "dents"},
         NEW s \in Slots, loc[q][v] = s
  PROVE  slot[s].count > 0
BY HeldVar, HeldInUse

(* ... a current directory, ...                                            *)
LEMMA CwdInUse ==
  ASSUME TableInv, NEW q \in Procs, NEW s \in Slots, icwd[q] = s
  PROVE  slot[s].count > 0
<1>1. <<"cwd", q>> \in Places /\ Held[<<"cwd", q>>] = s
  BY DEF Places, Held, Named
<1> QED BY <1>1, HeldInUse

(* ... and the inode of an open file.                                      *)
LEMMA FileInUse ==
  ASSUME TableInv, NEW f \in Fcbs, files[f].count > 0,
         NEW s \in Slots, files[f].inode = s
  PROVE  slot[s].count > 0
<1>1. <<"file", f>> \in Places /\ Held[<<"file", f>>] = s
  BY DEF Places, Held, Named
<1> QED BY <1>1, HeldInUse

(* What is settled stays settled, and a reference to it stays good.        *)
LEMMA SettledKept ==
  ASSUME NEW p, CalmDisk(p), NEW n \in Inos, Settled(n)
  PROVE  Settled(n)'
<1>1. n # 0
  BY FilesAssumption DEF Inos
<1>2. Names \subseteq DirNames
  BY DEF DirNames
<1> QED BY <1>1, <1>2 DEF CalmDisk, Settled

(* An inode that has a name keeps its slot, its name and its kind.         *)
LEMMA SitsKept ==
  ASSUME NEW p, CalmDisk(p), NEW s \in Slots, KeptSlot(p, s), Sits(s)
  PROVE  Sits(s)' /\ (slot[s].valid => slot'[s].valid) /\ (IsDir(s) <=> IsDir(s)')
<1>1. slot'[s].dev = slot[s].dev /\ slot'[s].no = slot[s].no
  BY DEF KeptSlot
<1>2. slot[s].no \in Inos /\ slot[s].dev = 1 /\ Settled(slot[s].no)
  BY DEF Sits
<1>3. Settled(slot[s].no)'
  <2>1. PICK n : n = slot[s].no
    OBVIOUS
  <2>2. Settled(n)'
    BY <1>2, <2>1, SettledKept
  <2> QED BY <1>1, <2>1, <2>2 DEF Settled
<1>4. Sits(s)'
  BY <1>1, <1>2, <1>3 DEF Sits
<1>5. dnode'[slot[s].no].mode = dnode[slot[s].no].mode
  BY <1>2 DEF CalmDisk
<1>6. slot[s].valid => slot'[s].valid
  BY <1>2 DEF KeptSlot
<1> QED BY <1>1, <1>4, <1>5, <1>6 DEF IsDir

(* The other processes can rely on what they did before.                   *)
LEMMA OthersWalk ==
  ASSUME NameInv, TableInv, NEW p \in Procs, Calm(p), NEW q \in Procs \ {p}
  PROVE  (Paths(q) /\ Walks(q) /\ Climbs(q) /\ Relinks(q))'
<1>1. pc'[q] = pc[q] /\ loc'[q] = loc[q] /\ CalmDisk(p)
  BY DEF Calm
<1>2. CallInv(q)
  BY DEF NameInv
<1>3. ASSUME NEW v \in RefVars, NEW s, pc[q] \notin {"size", "dents"}, loc[q][v] = s, Sits(s)
      PROVE  /\ Sits(s)' /\ (slot[s].valid => slot'[s].valid) /\ (IsDir(s) <=> IsDir(s)')
             /\ s \in Slots
  <2>1. s \in Slots
    BY <1>3 DEF Sits
  <2>2. KeptSlot(p, s)
    BY <2>1, <1>3, VarInUse DEF Calm
  <2> QED BY <2>1, <2>2, <1>1, <1>3, SitsKept
<1>4. Paths(q)'
  BY <1>1, <1>2 DEF CallInv, Paths
<1>5. Walks(q)'
  <2>1. PICK s : s = loc[q].cur
    OBVIOUS
  <2>2. pc[q] \in {"walk", "look", "found", "cold"} =>
           Sits(s)' /\ s \in Slots /\ (IsDir(s) <=> IsDir(s)')
    BY <1>2, <1>3, <2>1 DEF CallInv, Walks, RefVars
  <2>3. pc[q] = "look" => imtx'[s] = q
    BY <1>2, <2>1, <2>2 DEF CallInv, Walks, Calm, CalmLocks
  <2>4. loc'[q].cur = s
    BY <1>1, <2>1
  <2> QED BY <1>1, <1>2, <2>1, <2>2, <2>3, <2>4 DEF CallInv, Walks, Sits, IsDir
<1>6. Climbs(q)'
  <2>1. PICK s : s = loc[q].par
    OBVIOUS
  <2>2. Eff(q)' = Eff(q)
    BY <1>1 DEF Eff
  <2>3. Eff(q) \in InParent \cup {"parent"} => pc[q] \notin {"size", "dents"}
    BY DEF Eff, InParent, Making
  <2>4. Eff(q) \in InParent \cup {"parent"} =>
           Sits(s)' /\ s \in Slots /\ IsDir(s)' /\ (slot[s].valid => slot'[s].valid)
    BY <1>2, <1>3, <2>1, <2>3 DEF CallInv, Climbs, RefVars
  <2>5. Eff(q) \in InParent => imtx'[s] = q
    BY <1>2, <2>1, <2>4 DEF CallInv, Climbs, Calm, CalmLocks
  <2>6. loc'[q].par = s
    BY <1>1, <2>1
  <2> QED BY <1>1, <1>2, <2>1, <2>2, <2>4, <2>5, <2>6 DEF CallInv, Climbs, Sits, IsDir
<1>7. Relinks(q)'
  <2>1. PICK s : s = loc[q].obj
    OBVIOUS
  <2>2. loc[q].call.name = "link2" =>
           Sits(s)' /\ (slot[s].valid => slot'[s].valid) /\ (IsDir(s) <=> IsDir(s)')
    BY <1>2, <1>3, <2>1 DEF CallInv, Relinks, RefVars
  <2>3. loc'[q].obj = s /\ loc'[q].call = loc[q].call
    BY <1>1, <2>1
  <2> QED BY <1>1, <1>2, <2>1, <2>2, <2>3 DEF CallInv, Relinks, Sits, IsDir
<1> QED BY <1>4, <1>5, <1>6, <1>7

(* The new inode of another create() stays as it is, and one that is dying *)
(* gets no name.                                                           *)
LEMMA OthersMake ==
  ASSUME NameInv, TableInv, NEW p \in Procs, Calm(p), NEW q \in Procs \ {p}
  PROVE  (Makes(q) /\ Dies(q))'
<1>1. pc'[q] = pc[q] /\ loc'[q] = loc[q] /\ CalmDisk(p)
  BY DEF Calm
<1>2. CallInv(q) /\ CallInv(p) /\ PairInv
  BY DEF NameInv
<1>3. ASSUME NEW v \in RefVars, NEW s \in Slots, pc[q] \notin {"size", "dents"}, loc[q][v] = s
      PROVE  KeptSlot(p, s)
  BY <1>3, VarInUse DEF Calm
<1>4. Makes(q)'
  <2> DEFINE k == loc[q]
  <2>1. ASSUME pc[q] \in Making
        PROVE  /\ k.no \in Inos /\ ~Settled(k.no)' /\ dnode'[k.no] = dnode[k.no]
               /\ Entry(k.par, k.rest[1])' = 0
    <3>1. k.no \in Inos /\ ~Settled(k.no) /\ dnode[k.no].used
      BY <1>2, <2>1 DEF CallInv, Makes
    <3>2. /\ pc[p] \in Making => k.no # loc[p].no
          /\ pc[p] = "ifree" => slot[loc[p].dead].no # k.no
      BY <1>2, <2>1 DEF PairInv
    <3>3. dnode'[k.no] = dnode[k.no]
      BY <1>1, <3>1, <3>2 DEF CalmDisk, Writes, Making
    <3>4. ~Settled(k.no)'
      <4>1. PICK n \in Inos : n = k.no
        BY <3>1
      <4>2. ~Settled(n)'
        BY <1>1, <3>1, <3>2, <4>1 DEF CalmDisk, Making
      <4> QED BY <4>1, <4>2, <1>1 DEF Settled
    <3>5. PICK s : s = k.par
      OBVIOUS
    <3>6. Sits(s) /\ imtx[s] = q
      BY <1>2, <2>1, <3>5 DEF CallInv, Climbs, Eff, InParent, Making
    <3>7. KeptSlot(p, s) /\ s \in Slots
      BY <1>3, <2>1, <3>5, <3>6 DEF Sits, RefVars, Making
    <3>8. entries'[slot[s].no] = entries[slot[s].no] /\ slot'[s].no = slot[s].no
      BY <1>1, <3>6, <3>7 DEF Sits, CalmDisk, KeptSlot
    <3>9. Entry(s, k.rest[1]) = 0
      BY <1>2, <2>1, <3>5 DEF CallInv, Makes
    <3> QED BY <1>1, <3>1, <3>3, <3>4, <3>5, <3>8, <3>9 DEF Entry
  <2>2. PICK s : s = k.cur
    OBVIOUS
  <2>3. pc[q] \in {"cnew", "clink"} =>
           s \in Slots /\ slot'[s].dev = 1 /\ slot'[s].no = k.no
    BY <1>2, <1>3, <2>2 DEF CallInv, Makes, KeptSlot, RefVars
  <2>4. pc[q] = "clink" => imtx'[s] = q /\ slot'[s].valid
    <3> SUFFICES ASSUME pc[q] = "clink" PROVE imtx'[s] = q /\ slot'[s].valid
      OBVIOUS
    <3>1. imtx[s] = q /\ slot[s].valid /\ s \in Slots
      BY <1>2, <2>2 DEF CallInv, Makes
    <3>2. KeptSlot(p, s)
      BY <1>3, <2>2, <3>1 DEF RefVars
    <3> QED BY <3>1, <3>2 DEF KeptSlot, Calm, CalmLocks
  <2> QED BY <1>1, <1>2, <2>1, <2>2, <2>3, <2>4 DEF CallInv, Makes, Making, Settled, Entry
<1>5. Dies(q)'
  <2>1. PICK s : s = loc[q].dead
    OBVIOUS
  <2>2. ASSUME pc[q] \in {"ifree", "itrunc"}
        PROVE  /\ s \in Slots /\ imtx'[s] = q /\ slot'[s].dev = 1
               /\ slot'[s].no \in Inos /\ ~Settled(slot[s].no)'
    <3>1. PICK n : n = slot[s].no
      OBVIOUS
    <3>2. s \in Slots /\ imtx[s] = q /\ slot[s].dev = 1 /\ n \in Inos /\ ~Settled(n)
      BY <1>2, <2>1, <2>2, <3>1 DEF CallInv, Dies
    <3>3. slot'[s].dev = 1 /\ slot'[s].no = n
      BY <1>3, <2>1, <2>2, <3>1, <3>2 DEF KeptSlot, RefVars
    <3>4. ~Settled(n)'
      <4> SUFFICES ASSUME Settled(n)' PROVE FALSE
        OBVIOUS
      <4>1. pc[p] = "clink" /\ n = loc[p].no
        BY <1>1, <3>2 DEF CalmDisk
      <4>2. PICK t : t = loc[p].cur
        OBVIOUS
      <4>3. t \in Slots /\ slot[t].dev = 1 /\ slot[t].no = n /\ imtx[t] = p
        BY <1>2, <4>1, <4>2 DEF CallInv, Makes
      <4>4. t = s
        BY <3>1, <3>2, <4>3 DEF TableInv, OneSlotPerInode
      <4> QED BY <3>2, <4>3, <4>4
    <3>5. imtx'[s] = q
      BY <3>2 DEF Calm, CalmLocks
    <3> QED BY <3>2, <3>3, <3>4, <3>5 DEF Settled
  <2>3. loc'[q].dead = s /\ loc'[q].then = loc[q].then
    BY <1>1, <2>1
  <2>4. ASSUME pc[q] = "ifree" PROVE dnode'[slot'[s].no].used
    <3>1. PICK n : n = slot[s].no
      OBVIOUS
    <3>2. /\ s \in Slots /\ imtx[s] = q /\ slot[s].dev = 1 /\ n \in Inos /\ ~Settled(n)
          /\ dnode[n].used
      BY <1>2, <2>1, <2>4, <3>1 DEF CallInv, Dies
    <3>3. slot'[s].no = n
      BY <1>3, <2>1, <2>4, <3>1, <3>2 DEF KeptSlot, RefVars
    <3>4. pc[p] \in Making => n # loc[p].no
      BY <1>2, <2>1, <2>4, <3>1 DEF PairInv
    <3>5. pc[p] = "ifree" => n # slot[loc[p].dead].no
      <4> SUFFICES ASSUME pc[p] = "ifree", NEW t, t = loc[p].dead, slot[t].no = n PROVE FALSE
        BY <3>1
      <4>1. t \in Slots /\ imtx[t] = p /\ slot[t].dev = 1
        BY <1>2 DEF CallInv, Dies
      <4>2. t = s
        BY <3>1, <3>2, <4>1 DEF TableInv, OneSlotPerInode
      <4> QED BY <3>2, <4>1, <4>2
    <3>6. dnode'[n] = dnode[n]
      BY <1>1, <3>2, <3>4, <3>5 DEF CalmDisk, Writes, Making
    <3> QED BY <3>2, <3>3, <3>6
  <2> QED BY <1>1, <1>2, <2>1, <2>2, <2>3, <2>4 DEF CallInv, Dies, Settled
<1> QED BY <1>4, <1>5

(* What p itself has to show for the locks, for the pairs and for the      *)
(* links of link().                                                        *)
OwnLocks(p) ==
    /\ DOMAIN imtx' = Slots
    /\ \A s \in Slots : imtx'[s] # None => imtx'[s] \in Procs
    /\ \A s \in Slots : imtx'[s] = p => Holds(p, s)'
NoNew(p) ==
    /\ pc'[p] # "ifree"
    /\ pc'[p] \in Making => pc[p] \in Making /\ loc'[p].no = loc[p].no
IsLinking(p) == loc[p].call.name = "link2" /\ pc[p] # "linked"
NoNewLink(p) == IsLinking(p)' => IsLinking(p) /\ loc'[p].obj = loc[p].obj

(* Only the owner of an i_mtx gives it up.                                 *)
LEMMA LockKept ==
  ASSUME LockInv, NEW p \in Procs, Calm(p), OwnLocks(p)
  PROVE  LockInv'
<1> SUFFICES ASSUME NEW s \in Slots, imtx'[s] # None
             PROVE  imtx'[s] \in Procs /\ Holds(imtx[s], s)'
  BY DEF LockInv, OwnLocks, Holds, Eff
<1>1. PICK q : q = imtx'[s]
  OBVIOUS
<1>2. q \in Procs
  BY <1>1 DEF OwnLocks
<1>3. CASE q = p
  <2>1. Holds(q, s)'
    BY <1>1, <1>3 DEF OwnLocks, Holds, Eff
  <2> QED BY <1>1, <1>2, <2>1 DEF Holds, Eff
<1>4. CASE q # p
  <2>1. imtx[s] = q
    BY <1>1, <1>2, <1>4 DEF Calm, CalmLocks
  <2>2. Holds(q, s)
    BY <1>2, <2>1, FilesAssumption DEF LockInv
  <2>3. pc'[q] = pc[q] /\ loc'[q] = loc[q]
    BY <1>2, <1>4 DEF Calm
  <2>4. Holds(q, s)'
    BY <2>2, <2>3 DEF Holds, Eff
  <2> QED BY <1>1, <1>2, <2>4 DEF Holds, Eff
<1> QED BY <1>3, <1>4

(* p starts no create() and frees nothing.                                 *)
LEMMA PairKept ==
  ASSUME NameInv, TableInv, NEW p \in Procs, Calm(p), NoNew(p)
  PROVE  PairInv'
<1> SUFFICES ASSUME NEW a \in Procs, NEW b \in Procs, a # b, pc'[a] \in Making
             PROVE  /\ pc'[b] \in Making => loc'[b].no # loc'[a].no
                    /\ pc'[b] = "ifree" => slot'[loc'[b].dead].no # loc'[a].no
  BY DEF PairInv
<1>1. pc[a] \in Making /\ loc'[a].no = loc[a].no
  BY DEF Calm, NoNew
<1>2. pc'[b] \in Making => pc[b] \in Making /\ loc'[b].no = loc[b].no
  BY DEF Calm, NoNew
<1>3. pc'[b] = "ifree" =>
         /\ pc[b] = "ifree" /\ loc'[b].dead = loc[b].dead
         /\ slot'[loc[b].dead].no = slot[loc[b].dead].no
  <2> SUFFICES ASSUME pc'[b] = "ifree"
               PROVE  /\ pc[b] = "ifree" /\ loc'[b].dead = loc[b].dead
                      /\ slot'[loc[b].dead].no = slot[loc[b].dead].no
    OBVIOUS
  <2>1. pc[b] = "ifree" /\ loc'[b].dead = loc[b].dead
    BY DEF Calm, NoNew
  <2>2. PICK s : s = loc[b].dead
    OBVIOUS
  <2>3. s \in Slots
    BY <2>1, <2>2 DEF NameInv, CallInv, Dies
  <2>4. KeptSlot(p, s)
    BY <2>1, <2>2, <2>3, VarInUse DEF Calm, RefVars
  <2> QED BY <2>1, <2>2, <2>4 DEF KeptSlot
<1> QED BY <1>1, <1>2, <1>3 DEF NameInv, PairInv

(* The current directories stay where they are.                            *)
LEMMA HomeKept ==
  ASSUME NameInv, TableInv, NEW p \in Procs, Calm(p), NEW q \in Procs \ {p},
         icwd'[q] = icwd[q], q \in alive' => q \in alive
  PROVE  Home(q)'
<1>1. Home(q) /\ pc'[q] = pc[q]
  BY DEF NameInv, HomeInv, Calm
<1>2. PICK s : s = icwd[q]
  OBVIOUS
<1>3. s # None => Sits(s)'
  <2> SUFFICES ASSUME s # None PROVE Sits(s)'
    OBVIOUS
  <2>1. Sits(s) /\ s \in Slots
    BY <1>1, <1>2 DEF Home, Sits
  <2>2. KeptSlot(p, s)
    BY <1>2, <2>1, CwdInUse DEF Calm
  <2> QED BY <2>1, <2>2, SitsKept DEF Calm
<1>4. icwd'[q] = s
  BY <1>2
<1> QED BY <1>1, <1>2, <1>3, <1>4 DEF Home, Sits

(* The current directories stay while icwd and alive do.                   *)
LEMMA HomeStays ==
  ASSUME NameInv, TableInv, NEW p \in Procs, Calm(p),
         UNCHANGED <<icwd, alive>>, pc[p] # "gone"
  PROVE  HomeInv'
<1>1. ASSUME NEW q \in Procs PROVE Home(q)'
  <2>1. CASE q # p
    BY <2>1, HomeKept
  <2>2. CASE q = p
    <3>1. Home(p)
      BY DEF NameInv, HomeInv
    <3>2. PICK s : s = icwd[p]
      OBVIOUS
    <3>3. s # None => Sits(s)'
      <4> SUFFICES ASSUME s # None PROVE Sits(s)'
        OBVIOUS
      <4>1. Sits(s) /\ s \in Slots
        BY <3>1, <3>2 DEF Home, Sits
      <4>2. KeptSlot(p, s)
        BY <3>2, <4>1, CwdInUse DEF Calm
      <4> QED BY <4>1, <4>2, SitsKept DEF Calm
    <3>4. icwd'[p] = s /\ (p \in alive' <=> p \in alive)
      BY <3>2
    <3> QED BY <2>2, <3>1, <3>2, <3>3, <3>4 DEF Home, Sits
  <2> QED BY <2>1, <2>2
<1> QED BY <1>1 DEF HomeInv

(* An open file keeps its inode until its last close.                      *)
LEMMA FilesStay ==
  ASSUME NameInv, TableInv, NEW p \in Procs, Calm(p),
         \A f \in Fcbs : files'[f].count > 0 =>
            files[f].count > 0 /\ files'[f].inode = files[f].inode
  PROVE  FileInv'
<1> SUFFICES ASSUME NEW f \in Fcbs, files'[f].count > 0,
                    NEW s, s = files'[f].inode
             PROVE  Sits(s)' \/ (s \in Slots /\ slot'[s].dev = 0 /\ slot'[s].mode = "fifo")
  BY DEF FileInv, Sits
<1>1. files[f].count > 0 /\ files[f].inode = s
  OBVIOUS
<1>2. Sits(s) \/ (s \in Slots /\ slot[s].dev = 0 /\ slot[s].mode = "fifo")
  BY <1>1 DEF NameInv, FileInv
<1>3. s \in Slots
  BY <1>2 DEF Sits
<1>4. KeptSlot(p, s)
  BY <1>1, <1>3, FileInUse DEF Calm
<1>5. Sits(s) => Sits(s)'
  BY <1>3, <1>4, SitsKept DEF Calm
<1> QED BY <1>2, <1>4, <1>5 DEF KeptSlot

(* open() and getdents() keep the inode open, and getdents() its mutex.    *)
LEMMA SizesStay ==
  ASSUME NameInv, TableInv, NEW p \in Procs, Calm(p), NEW q \in Procs \ {p},
         \A fd \in Fds, s \in Slots : OpenAt(q, fd, s) => OpenAt(q, fd, s)'
  PROVE  Sizes(q)'
<1>1. Sizes(q) /\ pc'[q] = pc[q] /\ loc'[q] = loc[q]
  BY DEF NameInv, SizeInv, Calm
<1> SUFFICES ASSUME pc[q] \in {"size", "dents"}, NEW s, s = loc[q].obj
             PROVE  /\ Sits(s)' /\ \E fd \in Fds : OpenAt(q, fd, s)'
                    /\ pc[q] = "dents" => imtx'[s] = q /\ IsDir(s)'
  BY <1>1 DEF Sizes, Sits, OpenAt, IsDir
<1>2. /\ Sits(s) /\ s \in Slots /\ \E fd \in Fds : OpenAt(q, fd, s)
      /\ pc[q] = "dents" => imtx[s] = q /\ IsDir(s)
  BY <1>1 DEF Sizes, Sits
<1>3. KeptSlot(p, s)
  <2>1. PICK fd \in Fds : OpenAt(q, fd, s)
    BY <1>2
  <2>2. PICK f \in Fcbs : f = fdtable[q][fd]
    BY <2>1 DEF OpenAt
  <2>3. files[f].count > 0 /\ files[f].inode = s
    BY <2>1, <2>2 DEF OpenAt
  <2> QED BY <1>2, <2>3, FileInUse DEF Calm
<1>4. imtx[s] = q => imtx'[s] = q
  BY <1>2 DEF Calm, CalmLocks
<1> QED BY <1>2, <1>3, <1>4, SitsKept DEF Calm

(* A table in which slots were counted, read or given to another inode.    *)
SameSlot(a, b) == /\ b.dev = a.dev /\ b.no = a.no /\ b.valid = a.valid
                  /\ b.mode = a.mode /\ b.links = a.links
                  /\ b.dev = 0 /\ b.count > 0 => a.count > 0
ReadSlot(a, b) == /\ a.dev = 1 /\ b.dev = 1 /\ b.no = a.no /\ b.valid = TRUE
                  /\ b.mode = dnode[a.no].mode /\ b.links = dnode[a.no].links
TakenSlot(a, b) == /\ a.count = 0 /\ b.valid \in BOOLEAN
                   /\ \/ b.dev = 0 /\ b.mode = "fifo"
                      \/ b.dev = 1 /\ b.no \in Inos /\ b.valid = FALSE
Tame(sl) == \A s \in Slots : \/ SameSlot(slot[s], sl[s]) \/ ReadSlot(slot[s], sl[s])
                             \/ TakenSlot(slot[s], sl[s])

(* A step of p that leaves the disk alone, and the others.                 *)
TameStep(p) ==
    /\ UNCHANGED <<dnode, entries>> /\ Tame(slot') /\ CalmLocks(p)
    /\ \A q \in Procs \ {p} : pc'[q] = pc[q] /\ loc'[q] = loc[q]

(* A step that leaves the disk alone disturbs nobody.                      *)
LEMMA TameCalm ==
  ASSUME InSlotInv, NEW p \in Procs, TameStep(p)
  PROVE  Calm(p)
<1>1. CalmDisk(p)
  BY DEF TameStep, CalmDisk, Settled
<1>2. ASSUME NEW s \in Slots, slot[s].count > 0
      PROVE  KeptSlot(p, s)
  <2>1. SameSlot(slot[s], slot'[s]) \/ ReadSlot(slot[s], slot'[s])
    BY <1>2 DEF TameStep, Tame, TakenSlot
  <2> QED BY <2>1 DEF KeptSlot, SameSlot, ReadSlot, InSlotInv
<1> QED BY <1>1, <1>2 DEF Calm, TameStep

(* What was read is what the disk has.                                     *)
LEMMA ReadInSlot ==
  ASSUME InSlotInv, NEW p \in Procs, dnode' = dnode, Tame(slot'),
         pc[p] # "cnew", pc'[p] # "cnew",
         \A q \in Procs \ {p} : pc'[q] = pc[q] /\ loc'[q] = loc[q]
  PROVE  InSlotInv'
<1>1. dnode' = dnode
  OBVIOUS
<1>2. ASSUME NEW s \in Slots PROVE Unwritten(s)' <=> Unwritten(s)
  BY DEF Unwritten
<1>3. ASSUME NEW s \in Slots
      PROVE  SameSlot(slot[s], slot'[s]) \/ ReadSlot(slot[s], slot'[s])
             \/ TakenSlot(slot[s], slot'[s])
  BY DEF Tame
<1>4. ASSUME NEW s \in Slots
      PROVE  /\ slot'[s].valid \in BOOLEAN
             /\ slot'[s].dev \in {0, 1} /\ (slot'[s].dev = 1 => slot'[s].no \in Inos)
             /\ slot'[s].dev = 0 /\ slot'[s].count > 0 => slot'[s].mode = "fifo"
             /\ slot'[s].dev = 1 /\ slot'[s].valid /\ ~Unwritten(s)' =>
                   /\ slot'[s].links = dnode[slot'[s].no].links
                   /\ slot'[s].mode = dnode[slot'[s].no].mode
  <2>1. /\ slot[s].valid \in BOOLEAN
        /\ slot[s].dev \in {0, 1} /\ (slot[s].dev = 1 => slot[s].no \in Inos)
        /\ slot[s].dev = 0 /\ slot[s].count > 0 => slot[s].mode = "fifo"
        /\ slot[s].dev = 1 /\ slot[s].valid /\ ~Unwritten(s) =>
              /\ slot[s].links = dnode[slot[s].no].links
              /\ slot[s].mode = dnode[slot[s].no].mode
    BY DEF InSlotInv
  <2>2. PICK a, b : a = slot[s] /\ b = slot'[s]
    OBVIOUS
  <2>3. PICK U \in BOOLEAN : (U <=> Unwritten(s)) /\ (U <=> Unwritten(s)')
    BY <1>2
  <2>4. /\ a.valid \in BOOLEAN
        /\ a.dev \in {0, 1} /\ (a.dev = 1 => a.no \in Inos)
        /\ a.dev = 0 /\ a.count > 0 => a.mode = "fifo"
        /\ a.dev = 1 /\ a.valid /\ ~U =>
              a.links = dnode[a.no].links /\ a.mode = dnode[a.no].mode
        /\ SameSlot(a, b) \/ ReadSlot(a, b) \/ TakenSlot(a, b)
    BY <2>1, <2>2, <2>3, <1>3
  <2>5. /\ b.valid \in BOOLEAN
        /\ b.dev \in {0, 1} /\ (b.dev = 1 => b.no \in Inos)
        /\ b.dev = 0 /\ b.count > 0 => b.mode = "fifo"
        /\ b.dev = 1 /\ b.valid /\ ~U =>
              b.links = dnode[b.no].links /\ b.mode = dnode[b.no].mode
    <3>1. CASE SameSlot(a, b)
      BY <2>4, <3>1 DEF SameSlot
    <3>2. CASE ReadSlot(a, b)
      <4>1. /\ a.dev = 1 /\ b.dev = 1 /\ b.no = a.no /\ b.valid = TRUE
            /\ b.mode = dnode[a.no].mode /\ b.links = dnode[a.no].links
        BY <3>2 DEF ReadSlot
      <4>2. b.dev = 1 => b.no \in Inos
        BY <2>4, <4>1
      <4>3. b.valid \in BOOLEAN
        BY <4>1
      <4>4. b.dev # 0
        BY <4>1, 1 # 0
      <4> QED BY <4>1, <4>2, <4>3, <4>4
    <3>3. CASE TakenSlot(a, b)
      BY <3>3 DEF TakenSlot
    <3> QED BY <2>4, <3>1, <3>2, <3>3
  <2> QED BY <2>2, <2>3, <2>5
<1> QED BY <1>1, <1>4 DEF InSlotInv, Unwritten

(* Such a step keeps the slots true to the disk.                           *)
LEMMA TameInSlot ==
  ASSUME InSlotInv, NEW p \in Procs, TameStep(p), pc[p] # "cnew", pc'[p] # "cnew"
  PROVE  InSlotInv'
BY ReadInSlot DEF TameStep

(* No link more is promised to an inode.                                   *)
LEMMA LinkingShrinks ==
  ASSUME NameInv, TableInv, NEW p \in Procs, Calm(p), NoNewLink(p), NEW n \in Inos
  PROVE  /\ Linking(n)' \subseteq Linking(n)
         /\ IsFiniteSet(Linking(n)) /\ IsFiniteSet(Linking(n)')
         /\ Cardinality(Linking(n)') <= Cardinality(Linking(n))
         /\ Cardinality(Linking(n)) \in Nat /\ Cardinality(Linking(n)') \in Nat
<1>1. ASSUME NEW q \in Procs, q \in Linking(n)' PROVE q \in Linking(n)
  <2>1. IsLinking(q) /\ loc'[q].obj = loc[q].obj
    BY <1>1 DEF Calm, NoNewLink, Linking, IsLinking
  <2>2. PICK s : s = loc[q].obj
    OBVIOUS
  <2>3. Sits(s) /\ s \in Slots /\ pc[q] \notin {"size", "dents"}
    BY <2>1, <2>2 DEF NameInv, CallInv, Relinks, IsLinking, Sits
  <2>4. KeptSlot(p, s)
    BY <2>2, <2>3, VarInUse DEF Calm, RefVars
  <2>5. slot'[s].no = n
    BY <1>1, <2>1, <2>2 DEF Linking
  <2> QED BY <2>1, <2>2, <2>4, <2>5 DEF Linking, IsLinking, KeptSlot
<1>2. Linking(n) \subseteq Procs /\ Linking(n)' \subseteq Procs
  BY DEF Linking
<1>3. Linking(n)' \subseteq Linking(n)
  BY <1>1, <1>2
<1>4. IsFiniteSet(Linking(n)) /\ IsFiniteSet(Linking(n)')
  BY <1>2, FilesAssumption, FS_Subset
<1> QED BY <1>3, <1>4, FS_Subset, FS_CardinalityType

(* The names of an inode are finitely many.                                *)
LEMMA NamesFinite ==
  ASSUME NEW n
  PROVE  IsFiniteSet(NamesOf(n)) /\ Cardinality(NamesOf(n)) \in Nat
<1>1. IsFiniteSet(Inos) /\ IsFiniteSet(Names)
  BY FilesAssumption, TreeAssumption, FS_Interval DEF Inos
<1>2. IsFiniteSet(Inos \X Names)
  BY <1>1, FS_Product
<1>3. NamesOf(n) \subseteq Inos \X Names
  BY DEF NamesOf
<1> QED BY <1>2, <1>3, FS_Subset, FS_CardinalityType

(* The link counts still cover the names when no link() is on its way to a *)
(* new one.                                                                *)
LEMMA LinksStay ==
  ASSUME NameInv, TableInv, NEW p \in Procs, Calm(p), NoNewLink(p),
         UNCHANGED <<dnode, entries>>
  PROVE  LinksInv'
<1>1. LinksInv
  BY DEF NameInv
<1>2. DnodeOK'
  BY <1>1 DEF LinksInv, DnodeOK
<1>3. ASSUME NEW n \in Inos, Settled(n)' PROVE (dnode[n].used /\ LinksCover(n))'
  <2>1. Settled(n) /\ NamesOf(n)' = NamesOf(n) /\ dnode' = dnode
    BY <1>3 DEF Settled, NamesOf
  <2>2. dnode[n].used /\ LinksCover(n) /\ dnode[n].links \in Int
    BY <1>1, <2>1 DEF LinksInv, DnodeOK
  <2>3. /\ Cardinality(Linking(n)') <= Cardinality(Linking(n))
        /\ Cardinality(Linking(n)) \in Nat /\ Cardinality(Linking(n)') \in Nat
        /\ Cardinality(NamesOf(n)) \in Nat
    BY LinkingShrinks, NamesFinite
  <2> QED BY <2>1, <2>2, <2>3 DEF LinksCover
<1> QED BY <1>2, <1>3 DEF LinksInv, DnodeOK

(* Enough for a step of p that leaves the disk alone.                      *)
LEMMA TameNext ==
  ASSUME NameInv, TableInv, NEW p \in Procs, TameStep(p), OwnLocks(p), NoNew(p),
         NoNewLink(p), pc[p] # "cnew", pc'[p] # "cnew",
         HomeInv', FileInv', SizeInv', CallInv(p)'
  PROVE  NameInv'
<1>1. Calm(p)
  BY TameCalm DEF NameInv
<1>2. InSlotInv'
  BY TameInSlot DEF NameInv
<1>3. TreeInv'
  BY DEF NameInv, TreeInv, TameStep, Settled
<1>4. LinksInv'
  BY <1>1, LinksStay DEF TameStep
<1>5. LockInv' /\ PairInv'
  BY <1>1, LockKept, PairKept DEF NameInv
<1>6. ASSUME NEW q \in Procs PROVE CallInv(q)'
  <2>1. CASE q = p
    BY <2>1 DEF CallInv, Paths, Walks, Climbs, Relinks, Makes, Dies
  <2>2. CASE q # p
    BY <1>1, <2>2, OthersWalk, OthersMake DEF CallInv
  <2> QED BY <2>1, <2>2
<1> QED BY <1>2, <1>3, <1>4, <1>5, <1>6 DEF NameInv

(* ... and that opens and closes no file.                                  *)
LEMMA PlainNext ==
  ASSUME NameInv, TableInv, NEW p \in Procs, TameStep(p), OwnLocks(p), NoNew(p),
         NoNewLink(p), pc[p] \notin {"cnew", "gone"}, pc'[p] \notin {"cnew", "size", "dents"},
         UNCHANGED <<files, fdtable, icwd, alive>>, CallInv(p)'
  PROVE  NameInv'
<1>1. Calm(p)
  BY TameCalm DEF NameInv
<1>2. HomeInv'
  BY <1>1, HomeStays
<1>3. FileInv'
  BY <1>1, FilesStay
<1>4. SizeInv'
  <2>1. ASSUME NEW q \in Procs PROVE Sizes(q)'
    <3>1. CASE q = p
      BY <3>1 DEF Sizes
    <3>2. CASE q # p
      BY <1>1, <3>2, SizesStay DEF OpenAt
    <3> QED BY <3>1, <3>2
  <2> QED BY <2>1 DEF SizeInv
<1> QED BY <1>2, <1>3, <1>4, TameNext

(* A settled inode has a link, so a reference to it is not to a dying one. *)
LEMMA SettledLinks ==
  ASSUME NameInv, NEW n \in Inos, Settled(n)
  PROVE  dnode[n].links \in Int /\ dnode[n].links >= 1
<1>1. LinksCover(n) /\ dnode[n].links \in Int
  BY DEF NameInv, LinksInv, DnodeOK
<1>2. Linking(n) \subseteq Procs
  BY DEF Linking
<1>3. Cardinality(Linking(n)) \in Nat /\ Cardinality(NamesOf(n)) \in Nat
  BY <1>2, FilesAssumption, FS_Subset, FS_CardinalityType, NamesFinite
<1>4. n # Root => Cardinality(NamesOf(n)) # 0
  <2> SUFFICES ASSUME n # Root PROVE NamesOf(n) # {}
    BY NamesFinite, FS_EmptySet
  <2>1. PICK d \in Inos, m \in Names : entries[d][m] = n
    BY DEF Settled
  <2>2. <<d, m>> \in NamesOf(n)
    BY <2>1 DEF NamesOf
  <2> QED BY <2>2
<1> QED BY <1>1, <1>3, <1>4 DEF LinksCover

(* An inode that has a name does not die when it is put.                   *)
LEMMA SitsLives ==
  ASSUME NameInv, NEW s, Sits(s), NEW sl, Tame(sl), slot[s].count > 0
  PROVE  ~Dying(sl[s])
<1> SUFFICES ASSUME sl[s].valid, sl[s].links = 0 PROVE FALSE
  BY DEF Dying
<1>1. s \in Slots /\ slot[s].dev = 1 /\ slot[s].no \in Inos /\ Settled(slot[s].no)
  BY DEF Sits
<1>2. PICK n \in Inos : n = slot[s].no
  BY <1>1
<1>3. dnode[n].links >= 1 /\ dnode[n].links \in Int
  BY <1>1, <1>2, SettledLinks
<1>4. ~Unwritten(s)
  <2> SUFFICES ASSUME NEW q \in Procs, pc[q] = "cnew", loc[q].cur = s PROVE FALSE
    BY DEF Unwritten
  <2>1. Makes(q)
    BY DEF NameInv, CallInv
  <2>2. ~Settled(loc[q].no) /\ slot[s].no = loc[q].no
    BY <2>1 DEF Makes, Making
  <2> QED BY <1>1, <2>2
<1>5. SameSlot(slot[s], sl[s]) \/ ReadSlot(slot[s], sl[s])
  BY <1>1 DEF Tame, TakenSlot
<1>6. CASE SameSlot(slot[s], sl[s])
  <2>1. slot[s].links = dnode[n].links
    BY <1>1, <1>2, <1>4, <1>6 DEF NameInv, InSlotInv, SameSlot
  <2> QED BY <1>3, <1>6, <2>1 DEF SameSlot
<1>7. CASE ReadSlot(slot[s], sl[s])
  BY <1>2, <1>3, <1>7 DEF ReadSlot
<1> QED BY <1>5, <1>6, <1>7

(* Tables that are tame.                                                   *)
LEMMA TameSlot == Tame(slot)
BY DEF Tame, SameSlot

(* The tables after iput() and after ilock() are tame, ...                 *)
LEMMA TameLess ==
  ASSUME NEW sl, TableOK(sl), Tame(sl), NEW s
  PROVE  Tame(Less(sl, s))
<1>1. ASSUME NEW t \in Slots
      PROVE  /\ Less(sl, s)[t].dev = sl[t].dev /\ Less(sl, s)[t].no = sl[t].no
             /\ Less(sl, s)[t].valid = sl[t].valid /\ Less(sl, s)[t].mode = sl[t].mode
             /\ Less(sl, s)[t].links = sl[t].links
             /\ Less(sl, s)[t].count > 0 => sl[t].count > 0
  BY DEF Less, TableOK, SlotFields
<1>2. ASSUME NEW t \in Slots
      PROVE  \/ SameSlot(slot[t], Less(sl, s)[t]) \/ ReadSlot(slot[t], Less(sl, s)[t])
             \/ TakenSlot(slot[t], Less(sl, s)[t])
  <2>1. PICK a, b, c : a = slot[t] /\ b = sl[t] /\ c = Less(sl, s)[t]
    OBVIOUS
  <2>2. /\ c.dev = b.dev /\ c.no = b.no /\ c.valid = b.valid /\ c.mode = b.mode
        /\ c.links = b.links /\ (c.count > 0 => b.count > 0)
    BY <1>1, <2>1
  <2>3. SameSlot(a, b) \/ ReadSlot(a, b) \/ TakenSlot(a, b)
    BY <2>1 DEF Tame
  <2>4. SameSlot(a, c) \/ ReadSlot(a, c) \/ TakenSlot(a, c)
    BY <2>2, <2>3 DEF SameSlot, ReadSlot, TakenSlot
  <2> QED BY <2>1, <2>4
<1> QED BY <1>2 DEF Tame

(* ... what ilock() reads is what the disk has, ...                        *)
LEMMA TameLoaded ==
  ASSUME TableOK(slot), NEW s \in Slots, slot[s].dev = 1 \/ slot[s].valid
  PROVE  /\ Tame(Loaded(slot, s)) /\ Loaded(slot, s)[s].valid
         /\ \A t \in Slots \ {s} : Loaded(slot, s)[t] = slot[t]
<1>1. CASE slot[s].valid
  BY <1>1, TameSlot DEF Loaded
<1>2. CASE ~slot[s].valid
  <2>1. PICK sl : sl = Loaded(slot, s)
    OBVIOUS
  <2>2. PICK e : e = [slot[s] EXCEPT !.valid = TRUE, !.mode = dnode[slot[s].no].mode,
                                     !.links = dnode[slot[s].no].links]
    OBVIOUS
  <2>3. sl = [slot EXCEPT ![s] = e]
    BY <1>2, <2>1, <2>2 DEF Loaded
  <2>4. sl[s] = e /\ \A t \in Slots \ {s} : sl[t] = slot[t]
    BY <2>3 DEF TableOK
  <2>5. ReadSlot(slot[s], e)
    BY <2>2, <1>2 DEF TableOK, SlotFields, ReadSlot
  <2>6. e.valid
    BY <2>5 DEF ReadSlot
  <2>7. Tame(sl)
    BY <2>4, <2>5 DEF Tame, SameSlot
  <2> QED BY <2>1, <2>4, <2>6, <2>7
<1> QED BY <1>1, <1>2

(* iget() of n: the slot of n, or one that nobody uses.                    *)
LEMMA GotSlot ==
  ASSUME TableOK(slot), NEW n, NEW clean, Found(n) # {}, NEW u, u = Lowest(Found(n)),
         NEW sl, sl = Got(n, clean)
  PROVE  /\ u \in Slots /\ \A t \in Slots \ {u} : sl[t] = slot[t]
         /\ sl[u].dev = 1 /\ sl[u].no = n
         /\ SameSlot(slot[u], sl[u]) \/ (slot[u].count = 0 /\ sl[u].valid = clean)
<1>1. u \in Found(n)
  <2>1. Found(n) \subseteq Slots
    BY DEF Found, Cached, Free
  <2>2. \E x \in Found(n) : \A y \in Found(n) : x <= y
    BY <2>1, LowestExists, FilesAssumption DEF Slots
  <2> QED BY <2>2 DEF Lowest
<1>2. u \in Slots
  BY <1>1 DEF Found, Cached, Free
<1>3. CASE slot[u].dev = 1 /\ slot[u].no = n
  <2>1. sl = [slot EXCEPT ![u].count = @ + 1]
    BY <1>3 DEF Got
  <2> QED BY <1>2, <1>3, <2>1 DEF TableOK, SlotFields, SameSlot
<1>4. CASE ~(slot[u].dev = 1 /\ slot[u].no = n)
  <2>1. sl = [slot EXCEPT ![u].dev = 1, ![u].no = n, ![u].count = @ + 1,
                          ![u].valid = clean]
    BY <1>4 DEF Got
  <2>2. slot[u].count = 0
    BY <1>1, <1>4 DEF Found, Cached, Free
  <2> QED BY <1>2, <2>1, <2>2 DEF TableOK, SlotFields
<1> QED BY <1>3, <1>4

(* ... and so is the one after iget() of a number.                         *)
LEMMA GotTame ==
  ASSUME TableOK(slot), NEW n \in Inos, Found(n) # {}, NEW u, u = Lowest(Found(n))
  PROVE  /\ Tame(Got(n, FALSE)) /\ u \in Slots
         /\ Got(n, FALSE)[u].dev = 1 /\ Got(n, FALSE)[u].no = n
<1>1. PICK clean : clean = FALSE
  OBVIOUS
<1>0. PICK sl : sl = Got(n, clean)
  OBVIOUS
<1>2. /\ u \in Slots /\ \A t \in Slots \ {u} : sl[t] = slot[t]
      /\ sl[u].dev = 1 /\ sl[u].no = n
      /\ SameSlot(slot[u], sl[u]) \/ (slot[u].count = 0 /\ sl[u].valid = clean)
  BY <1>0, GotSlot
<1>3. SameSlot(slot[u], sl[u]) \/ TakenSlot(slot[u], sl[u])
  BY <1>1, <1>2 DEF TakenSlot
<1>4. Tame(sl)
  BY <1>2, <1>3 DEF Tame, SameSlot
<1> QED BY <1>0, <1>1, <1>2, <1>4

(* iput() of a good reference is a step that leaves the disk alone.        *)
LEMMA TamePut ==
  ASSUME NameInv, TableInv, NEW p \in Procs, NEW sl, NEW mx, NEW s, NEW k, NEW l,
         Put(p, sl, mx, s, k, l), TableOK(sl), Tame(sl), Sits(s), slot[s].count > 0
  PROVE  /\ slot' = Less(sl, s) /\ Tame(slot') /\ imtx' = mx
         /\ pc'[p] = l /\ loc'[p] = k
         /\ \A q \in Procs \ {p} : pc'[q] = pc[q] /\ loc'[q] = loc[q]
<1>1. ~Dying(sl[s])
  BY SitsLives
<1>2. slot' = Less(sl, s)
  BY <1>1 DEF Put, Less
<1>3. imtx' = mx /\ pc' = [pc EXCEPT ![p] = l] /\ loc' = [loc EXCEPT ![p] = k]
  BY <1>1 DEF Put, Goto
<1>4. Tame(Less(sl, s))
  BY TameLess
<1> QED BY <1>2, <1>3, <1>4 DEF TableInv, LocalsOK

(* p stays out of the calls with a path.                                   *)
OffPath == {"user", "gone", "exit", "dup2", "dupfd", "pipe1", "pipe2", "pipe3",
            "ffree", "oops", "size"}
IdleCall(p) == /\ pc[p] \in OffPath \cup {"dents"} /\ loc[p].rest \in Seq(DirNames)
               /\ loc[p].call.name \notin {"link", "link2"}

(* A call that is off the paths relies on nothing about names.             *)
LEMMA IdleInv ==
  ASSUME NEW p, IdleCall(p)'
  PROVE  CallInv(p)' /\ NoNew(p) /\ NoNewLink(p)
<1>1. pc'[p] \in OffPath \cup {"dents"} /\ loc'[p].rest \in Seq(DirNames)
      /\ loc'[p].call.name \notin {"link", "link2"}
  BY DEF IdleCall
<1>2. Eff(p)' = pc'[p]
  BY <1>1 DEF Eff, OffPath
<1>3. Paths(p)' /\ Walks(p)'
  BY <1>1 DEF Paths, Walks, OffPath, Making
<1>4. Climbs(p)'
  BY <1>1, <1>2 DEF Climbs, OffPath, Making, InParent
<1>5. Relinks(p)' /\ Dies(p)'
  BY <1>1 DEF Relinks, Dies, OffPath
<1>6. Makes(p)'
  BY <1>1 DEF Makes, OffPath, Making
<1>7. NoNew(p) /\ NoNewLink(p)
  BY <1>1 DEF NoNew, NoNewLink, IsLinking, OffPath, Making
<1> QED BY <1>3, <1>4, <1>5, <1>6, <1>7 DEF CallInv

(* p holds no i_mtx outside of these points, so none after a step that     *)
(* unlocks it or takes none.                                               *)
MayLock == {"look", "clink", "dents"} \cup InParent \cup {"ifree", "itrunc", "idrop"}

(* Who is at none of these points holds no mutex, ...                      *)
LEMMA NoLocks ==
  ASSUME NameInv, NEW p \in Procs, pc[p] \notin MayLock, NEW s \in Slots
  PROVE  imtx[s] # p
<1>1. p # None
  BY FilesAssumption
<1>2. Eff(p) = pc[p]
  BY DEF Eff, MayLock
<1> QED BY <1>1, <1>2 DEF NameInv, LockInv, Holds, MayLock

(* ... so a step from there that leaves the mutexes alone is fine, ...     *)
LEMMA LocksStay ==
  ASSUME NameInv, NEW p \in Procs, pc[p] \notin MayLock, imtx' = imtx
  PROVE  OwnLocks(p) /\ CalmLocks(p)
<1>1. DOMAIN imtx = Slots /\ \A s \in Slots : imtx[s] # None => imtx[s] \in Procs
  BY DEF NameInv, LockInv
<1> QED BY <1>1, NoLocks DEF OwnLocks, CalmLocks

(* ... and so is one that gives a mutex back, ...                          *)
LEMMA LocksDrop ==
  ASSUME NameInv, NEW p \in Procs, NEW t, t \in Slots, imtx[t] = p, imtx' = Unlocked(t),
         \A s \in Slots \ {t} : imtx[s] = p => Holds(p, s)'
  PROVE  OwnLocks(p) /\ CalmLocks(p)
<1>1. /\ DOMAIN imtx = Slots /\ \A s \in Slots : imtx[s] # None => imtx[s] \in Procs
      /\ None \notin Procs
  BY FilesAssumption DEF NameInv, LockInv
<1>2. imtx'[t] = None /\ \A s \in Slots \ {t} : imtx'[s] = imtx[s]
  BY <1>1 DEF Unlocked
<1>3. DOMAIN imtx' = Slots
  BY <1>1 DEF Unlocked
<1> QED BY <1>1, <1>2, <1>3 DEF OwnLocks, CalmLocks

(* ... or that takes one which p then holds.                               *)
LEMMA LocksTake ==
  ASSUME NameInv, NEW p \in Procs, NEW t, t \in Slots, Lock(p, t),
         \A s \in Slots : s = t \/ imtx[s] = p => Holds(p, s)'
  PROVE  OwnLocks(p) /\ CalmLocks(p)
<1>1. /\ DOMAIN imtx = Slots /\ \A s \in Slots : imtx[s] # None => imtx[s] \in Procs
      /\ None \notin Procs
  BY FilesAssumption DEF NameInv, LockInv
<1>2. /\ imtx[t] = None /\ imtx'[t] = p /\ \A s \in Slots \ {t} : imtx'[s] = imtx[s]
      /\ DOMAIN imtx' = Slots
  BY <1>1 DEF Lock
<1>3. OwnLocks(p)
  BY <1>1, <1>2 DEF OwnLocks
<1>4. CalmLocks(p)
  BY <1>1, <1>2 DEF CalmLocks
<1> QED BY <1>3, <1>4

(* Nothing that the names are about changes.                               *)
LEMMA NameStutter ==
  ASSUME NameInv,
         UNCHANGED <<slot, imtx, dnode, entries, files, alive, fdtable, icwd, pc, loc>>
  PROVE  NameInv'
<1>1. /\ TreeInv /\ LinksInv /\ InSlotInv /\ FileInv /\ LockInv /\ PairInv
      /\ HomeInv /\ SizeInv /\ \A p \in Procs : CallInv(p)
  BY DEF NameInv
<1>2. TreeInv' /\ LinksInv'
  <2>1. entries' = entries /\ dnode' = dnode /\ slot' = slot /\ loc' = loc /\ pc' = pc
    OBVIOUS
  <2>2. \A n \in Inos : Settled(n)' <=> Settled(n)
    BY <2>1 DEF Settled
  <2>3. TreeInv'
    BY <1>1, <2>1 DEF TreeInv, Settled
  <2>4. \A n \in Inos : LinksCover(n)' <=> LinksCover(n)
    BY <2>1 DEF LinksCover, NamesOf, Linking
  <2> QED BY <1>1, <2>1, <2>2, <2>3, <2>4 DEF LinksInv, DnodeOK
<1>3. InSlotInv' /\ FileInv'
  BY <1>1 DEF InSlotInv, FileInv, Unwritten, Sits, Settled
<1>4. LockInv' /\ PairInv'
  BY <1>1 DEF LockInv, Holds, Eff, PairInv
<1>5. HomeInv' /\ SizeInv'
  BY <1>1 DEF HomeInv, Home, SizeInv, Sizes, OpenAt, Sits, Settled, IsDir
<1>6. ASSUME NEW p \in Procs PROVE CallInv(p)'
  <2>1. CallInv(p)
    BY <1>1
  <2>2. (Paths(p) /\ Walks(p) /\ Climbs(p))'
    BY <2>1 DEF CallInv, Paths, Walks, Climbs, Sits, Settled, IsDir, Eff
  <2>3. (Relinks(p) /\ Makes(p) /\ Dies(p))'
    BY <2>1 DEF CallInv, Relinks, Makes, Dies, Sits, Settled, IsDir, Entry
  <2> QED BY <2>2, <2>3 DEF CallInv
<1> QED BY <1>2, <1>3, <1>4, <1>5, <1>6 DEF NameInv

(* After a panic nothing moves.                                            *)
LEMMA NamePanic ==
  ASSUME NameInv, Panic
  PROVE  NameInv'
<1>1. UNCHANGED <<slot, imtx, dnode, entries, files, alive, fdtable, icwd, pc, loc>>
  BY DEF Panic, tableVars, diskVars, fileVars, procVars
<1> QED BY <1>1, NameStutter

(* p leaves the disk and, but for its own descriptors, the files alone,    *)
(* and is not in a call with a path after that.                            *)
FdCalm(p) ==
    /\ UNCHANGED icwd
    /\ p \in alive' => p \in alive /\ pc[p] # "gone"
    /\ \A f \in Fcbs : files'[f].count > 0 =>
          files[f].count > 0 /\ files'[f].inode = files[f].inode
    /\ \A q \in Procs \ {p} :
          /\ fdtable'[q] = fdtable[q] /\ (q \in alive' => q \in alive)
          /\ \A fd \in Fds : LET f == fdtable[q][fd] IN
                f \in Fcbs /\ files[f].count > 0 => files'[f].count > 0

(* A step that leaves the inodes alone and ends off the paths, ...         *)
LEMMA FdNext ==
  ASSUME NameInv, TableInv, NEW p \in Procs, TameStep(p), OwnLocks(p), IdleCall(p)',
         pc[p] # "cnew", pc'[p] \notin {"size", "dents"}, FdCalm(p)
  PROVE  NameInv'
<1>1. Calm(p)
  BY TameCalm DEF NameInv
<1>2. CallInv(p)' /\ NoNew(p) /\ NoNewLink(p) /\ pc'[p] # "cnew"
  BY IdleInv DEF IdleCall, OffPath
<1>3. ASSUME NEW q \in Procs PROVE Home(q)'
  <2>1. CASE q # p
    BY <1>1, <2>1, HomeKept DEF FdCalm
  <2>2. CASE q = p
    <3>1. Home(p) /\ icwd'[p] = icwd[p]
      BY DEF NameInv, HomeInv, FdCalm
    <3>2. PICK s : s = icwd[p]
      OBVIOUS
    <3>3. s # None => Sits(s)'
      <4> SUFFICES ASSUME s # None PROVE Sits(s)'
        OBVIOUS
      <4>1. Sits(s) /\ s \in Slots
        BY <3>1, <3>2 DEF Home, Sits
      <4>2. KeptSlot(p, s)
        BY <3>2, <4>1, CwdInUse, <1>1 DEF Calm
      <4> QED BY <4>1, <4>2, SitsKept, <1>1 DEF Calm
    <3>4. p \in alive' => s # None
      BY <3>1, <3>2 DEF Home, FdCalm
    <3> QED BY <2>2, <3>1, <3>2, <3>3, <3>4 DEF Home, Sits
  <2> QED BY <2>1, <2>2
<1>4. FileInv'
  BY <1>1, FilesStay DEF FdCalm
<1>5. ASSUME NEW q \in Procs PROVE Sizes(q)'
  <2>1. CASE q = p
    BY <2>1 DEF Sizes
  <2>2. CASE q # p
    <3>1. ASSUME NEW fd \in Fds, NEW s \in Slots, OpenAt(q, fd, s)
          PROVE  OpenAt(q, fd, s)'
      <4>1. PICK f \in Fcbs : f = fdtable[q][fd]
        BY <3>1 DEF OpenAt
      <4>2. fdtable'[q][fd] = f /\ files'[f].count > 0 /\ files'[f].inode = files[f].inode
        BY <2>2, <3>1, <4>1 DEF FdCalm, OpenAt
      <4> QED BY <3>1, <4>1, <4>2 DEF OpenAt
    <3> QED BY <1>1, <2>2, <3>1, SizesStay
  <2> QED BY <2>1, <2>2
<1>6. HomeInv' /\ SizeInv'
  BY <1>3, <1>5 DEF HomeInv, SizeInv
<1> QED BY <1>2, <1>4, <1>6, TameNext

(* ... also without a change of descriptors.                               *)
LEMMA IdleNext ==
  ASSUME NameInv, TableInv, NEW p \in Procs, TameStep(p), OwnLocks(p), IdleCall(p)',
         pc[p] \notin {"cnew", "gone"}, pc'[p] \notin {"size", "dents"},
         UNCHANGED <<files, fdtable, icwd, alive>>
  PROVE  NameInv'
BY FdNext DEF FdCalm

(* p has the locals NoLoc and is back in its program.                      *)
LEMMA ReturnIdle ==
  ASSUME LocalsOK, NEW p \in Procs, Return(p)
  PROVE  /\ IdleCall(p)' /\ pc'[p] = "user"
         /\ \A q \in Procs \ {p} : pc'[q] = pc[q] /\ loc'[q] = loc[q]
BY DEF Return, Goto, LocalsOK, IdleCall, OffPath, NoLoc, NoCall

(* iput() of a good reference by a call that ends with it.                 *)
LEMMA PutIdle ==
  ASSUME NameInv, TableInv, NEW p \in Procs, NEW sl, NEW mx, NEW s, NEW k, NEW l,
         Put(p, sl, mx, s, k, l), TableOK(sl), Tame(sl), Sits(s), slot[s].count > 0,
         UNCHANGED <<dnode, entries>>, l \in OffPath, k.rest \in Seq(DirNames),
         k.call.name \notin {"link", "link2"}
  PROVE  /\ imtx' = mx /\ IdleCall(p)' /\ pc'[p] = l
         /\ CalmLocks(p) => TameStep(p)
<1>1. /\ slot' = Less(sl, s) /\ Tame(slot') /\ imtx' = mx
      /\ pc'[p] = l /\ loc'[p] = k
      /\ \A q \in Procs \ {p} : pc'[q] = pc[q] /\ loc'[q] = loc[q]
  BY TamePut
<1> QED BY <1>1 DEF IdleCall, TameStep

(* What p refers to at a point of a call with a path.                      *)
LEMMA AtCur ==
  ASSUME NameInv, TableInv, NEW p \in Procs, NEW s, s = loc[p].cur,
         pc[p] \in {"walk", "look", "found", "cold"}
  PROVE  s \in Slots /\ Sits(s) /\ slot[s].count > 0 /\ slot[s].dev = 1
<1>1. Sits(s) /\ s \in Slots /\ slot[s].dev = 1
  BY DEF NameInv, CallInv, Walks, Sits
<1> QED BY <1>1, VarInUse DEF RefVars

(* The parent directory of create(), and the old file of link().           *)
LEMMA AtPar ==
  ASSUME NameInv, TableInv, NEW p \in Procs, NEW s, s = loc[p].par,
         Eff(p) \in InParent \cup {"parent"}
  PROVE  s \in Slots /\ Sits(s) /\ IsDir(s) /\ slot[s].count > 0 /\ slot[s].dev = 1
<1>1. Sits(s) /\ s \in Slots /\ IsDir(s) /\ slot[s].dev = 1
  BY DEF NameInv, CallInv, Climbs, Sits
<1>2. pc[p] \notin {"size", "dents"}
  BY DEF Eff, InParent, Making
<1> QED BY <1>1, <1>2, VarInUse DEF RefVars

(* The old file of link() is in use and is not a directory.                *)
LEMMA AtObj ==
  ASSUME NameInv, TableInv, NEW p \in Procs, NEW s, s = loc[p].obj,
         loc[p].call.name = "link2"
  PROVE  /\ s \in Slots /\ Sits(s) /\ slot[s].count > 0 /\ slot[s].dev = 1
         /\ slot[s].valid /\ ~IsDir(s)
<1>1. /\ Sits(s) /\ s \in Slots /\ slot[s].dev = 1 /\ slot[s].valid /\ ~IsDir(s)
      /\ pc[p] \notin {"size", "dents"}
  BY DEF NameInv, CallInv, Relinks, Sits
<1> QED BY <1>1, VarInUse DEF RefVars

(* The calls that return.                                                  *)
LEMMA NameReturn ==
  ASSUME FcbInv, TableInv, NameInv, NEW p \in Procs,
         \/ CreatDone(p) \/ MkdirDone(p) \/ Chmod(p) \/ Stat(p) \/ Truncate(p)
         \/ OpenSize(p) \/ PipeFault(p) \/ Linked(p)
  PROVE  NameInv'
<1>0. LocalsOK /\ TableOK(slot)
  BY DEF TableInv
<1>p. CASE Panic
  BY <1>p, NamePanic
<1>1. CASE Return(p) /\ imtx' = imtx /\ UNCHANGED <<dnode, entries, files, fdtable, icwd, alive>>
           /\ Tame(slot') /\ pc[p] \in {"found", "size", "pipe3"}
  <2>1. /\ IdleCall(p)' /\ pc'[p] = "user"
        /\ \A q \in Procs \ {p} : pc'[q] = pc[q] /\ loc'[q] = loc[q]
    BY <1>0, <1>1, ReturnIdle
  <2>2. pc[p] \notin MayLock
    BY <1>1 DEF MayLock, InParent, Making
  <2>3. OwnLocks(p) /\ TameStep(p)
    BY <1>1, <2>1, <2>2, LocksStay DEF TameStep
  <2> QED BY <1>1, <2>1, <2>3, IdleNext
<1>2. CASE CreatDone(p) \/ MkdirDone(p) \/ PipeFault(p)
  <2>1. /\ Return(p) /\ slot' = slot /\ imtx' = imtx /\ pc[p] \in {"found", "pipe3"}
        /\ UNCHANGED <<dnode, entries, files, fdtable, icwd, alive>>
    BY <1>2 DEF CreatDone, MkdirDone, PipeFault, Is, tableVars, diskVars, fileVars, procVars
  <2> QED BY <1>1, <2>1, TameSlot
<1>3. CASE Chmod(p)
  <2>1. Panic \/ /\ Return(p) /\ slot' = slot /\ imtx' = imtx /\ pc[p] = "found"
                 /\ UNCHANGED <<dnode, entries, files, fdtable, icwd, alive>>
    BY <1>3 DEF Chmod, Is, tableVars, diskVars, fileVars, procVars
  <2> QED BY <1>1, <1>p, <2>1, TameSlot
<1>4. CASE Stat(p)
  <2>1. PICK s : s = loc[p].cur
    OBVIOUS
  <2>2. /\ Return(p) /\ imtx' = imtx
        /\ slot' = slot \/ slot' = Loaded(slot, s)
        /\ pc[p] = "found"
        /\ UNCHANGED <<dnode, entries, files, fdtable, icwd, alive>>
    BY <1>4, <2>1 DEF Stat, Is, diskVars, fileVars, procVars
  <2>3. s \in Slots /\ slot[s].dev = 1
    BY <2>1, <2>2, AtCur
  <2>4. Tame(slot')
    BY <1>0, <2>2, <2>3, TameSlot, TameLoaded
  <2> QED BY <1>1, <2>2, <2>4
<1>5. CASE OpenSize(p)
  <2>1. PICK s : s = loc[p].obj
    OBVIOUS
  <2>2. /\ Return(p) /\ slot' = Loaded(slot, s) /\ imtx' = imtx /\ pc[p] = "size"
        /\ UNCHANGED <<dnode, entries, files, fdtable, icwd, alive>>
    BY <1>5, <2>1 DEF OpenSize, diskVars, fileVars, procVars
  <2>3. s \in Slots /\ slot[s].dev = 1
    BY <2>1, <2>2 DEF NameInv, SizeInv, Sizes, Sits
  <2>4. Tame(slot')
    BY <1>0, <2>2, <2>3, TameLoaded
  <2> QED BY <1>1, <2>2, <2>4
<1>6. ASSUME NEW s \in Slots, NEW sl, Put(p, sl, imtx, s, NoLoc, "user"), Sits(s),
             slot[s].count > 0, TableOK(sl), Tame(sl), pc[p] \in {"found", "linked"},
             UNCHANGED <<dnode, entries, files, fdtable, icwd, alive>>
      PROVE  NameInv'
  <2>1. /\ "user" \in OffPath /\ NoLoc.rest \in Seq(DirNames)
        /\ NoLoc.call.name \notin {"link", "link2"}
    BY DEF OffPath, NoLoc, NoCall
  <2>2. /\ imtx' = imtx /\ IdleCall(p)' /\ pc'[p] = "user"
        /\ CalmLocks(p) => TameStep(p)
    BY <1>6, <2>1, PutIdle
  <2>3. pc[p] \notin MayLock
    BY <1>6 DEF MayLock, InParent, Making
  <2>4. OwnLocks(p) /\ TameStep(p)
    BY <2>2, <2>3, LocksStay
  <2> QED BY <1>6, <2>2, <2>4, IdleNext
<1>7. CASE Truncate(p)
  <2>1. PICK s : s = loc[p].cur
    OBVIOUS
  <2>2. /\ Put(p, Loaded(slot, s), imtx, s, NoLoc, "user") /\ pc[p] = "found"
        /\ UNCHANGED <<dnode, entries, files, fdtable, icwd, alive>>
    BY <1>7, <2>1 DEF Truncate, Is, diskVars, fileVars, procVars
  <2>3. s \in Slots /\ Sits(s) /\ slot[s].dev = 1 /\ slot[s].count > 0
    BY <2>1, <2>2, AtCur
  <2>4. PICK sl : sl = Loaded(slot, s)
    OBVIOUS
  <2>5. Tame(sl) /\ TableOK(sl)
    BY <1>0, <2>3, <2>4, TameLoaded, LoadedKeeps
  <2> QED BY <1>6, <2>2, <2>3, <2>4, <2>5
<1>8. CASE Linked(p)
  <2>1. PICK s : s = loc[p].obj
    OBVIOUS
  <2>2. /\ Put(p, slot, imtx, s, NoLoc, "user") /\ pc[p] = "linked"
        /\ UNCHANGED <<dnode, entries, files, fdtable, icwd, alive>>
    BY <1>8, <2>1 DEF Linked, diskVars, fileVars, procVars
  <2>3. loc[p].call.name = "link2"
    BY <2>2 DEF NameInv, CallInv, Relinks
  <2>4. s \in Slots /\ Sits(s) /\ slot[s].count > 0
    BY <2>1, <2>3, AtObj
  <2> QED BY <1>0, <1>6, <2>2, <2>4, TameSlot
<1> QED BY <1>2, <1>3, <1>4, <1>5, <1>7, <1>8

(* p is on the way along a path, or at its end.                            *)
TypedCall(c) == c.name = "link" => /\ c.new.abs \in BOOLEAN
                                   /\ c.new.elems \in Seq(DirNames)
GoodObj(s) == Sits(s) /\ slot[s].valid /\ ~IsDir(s)

(* What a walk relies on when it has moved.                                *)
LEMMA WalkInv ==
  ASSUME NEW p \in Procs, pc'[p] \in {"root", "walk", "found", "cold"},
         loc'[p].rest \in Seq(DirNames), TypedCall(loc'[p].call),
         pc'[p] # "root" => Sits(loc[p].cur)',
         loc'[p].call.name = "link2" => pc'[p] \in {"root", "walk"} /\ GoodObj(loc[p].obj)'
  PROVE  CallInv(p)' /\ NoNew(p)
<1>1. Eff(p)' = pc'[p]
  BY DEF Eff
<1>2. Paths(p)' /\ Walks(p)'
  BY DEF Paths, Walks, Making, TypedCall
<1>3. Climbs(p)'
  BY <1>1 DEF Climbs, InParent, Making
<1>4. Relinks(p)'
  BY DEF Relinks, GoodObj
<1>5. Makes(p)' /\ Dies(p)' /\ NoNew(p)
  BY DEF Makes, Dies, NoNew, Making
<1> QED BY <1>2, <1>3, <1>4, <1>5 DEF CallInv

(* link() keeps its file while it looks for the new name.                  *)
LEMMA ObjKept ==
  ASSUME NameInv, TableInv, NEW p \in Procs, Calm(p), NEW s, s = loc[p].obj,
         loc[p].call.name = "link2"
  PROVE  GoodObj(s)'
<1>1. /\ s \in Slots /\ Sits(s) /\ slot[s].count > 0 /\ slot[s].valid /\ ~IsDir(s)
  BY AtObj
<1>2. KeptSlot(p, s) /\ CalmDisk(p)
  BY <1>1 DEF Calm
<1> QED BY <1>1, <1>2, SitsKept DEF GoodObj

(* A count that goes up.                                                   *)
LEMMA TameMore ==
  ASSUME TableOK(slot), NEW s \in Slots, slot[s].count > 0
  PROVE  Tame([slot EXCEPT ![s].count = @ + 1])
<1>1. PICK sl : sl = [slot EXCEPT ![s].count = @ + 1]
  OBVIOUS
<1>2. \A t \in Slots : SameSlot(slot[t], sl[t])
  BY <1>1 DEF TableOK, SlotFields, SameSlot
<1> QED BY <1>1, <1>2 DEF Tame

(* A call with a path starts at the root or at the current directory.      *)
LEMMA NamePath ==
  ASSUME FcbInv, TableInv, NameInv, NEW p \in Procs, NEW c \in PathCalls, PathCall(p, c)
  PROVE  NameInv'
<1>0. LocalsOK /\ TableOK(slot)
  BY DEF TableInv
<1>1. /\ pc[p] = "user" /\ p \in alive /\ WalkFrom(p, c, NoLoc)
      /\ UNCHANGED <<imtx, dnode, entries, files, fdtable, icwd, alive>>
  BY DEF PathCall, Awake, diskVars, fileVars, procVars
<1>2. PICK s : s = icwd[p]
  OBVIOUS
<1>3. Sits(s) /\ s \in Slots /\ s # None
  <2>1. Home(p)
    BY DEF NameInv, HomeInv
  <2> QED BY <1>1, <1>2, <2>1 DEF Home, Sits
<1>4. Tame(slot')
  <2>1. slot[s].count > 0
    BY <1>2, <1>3, CwdInUse
  <2> QED BY <1>0, <1>1, <1>2, <1>3, <2>1, TameSlot, TameMore DEF WalkFrom
<1>5. /\ loc'[p].rest = c.path.elems /\ loc'[p].call = c
      /\ pc'[p] = (IF c.path.abs THEN "root" ELSE "walk")
      /\ ~c.path.abs => loc'[p].cur = s
      /\ \A q \in Procs \ {p} : pc'[q] = pc[q] /\ loc'[q] = loc[q]
  BY <1>0, <1>1, <1>2 DEF WalkFrom, Goto, LocalsOK, NoLoc
<1>6. OwnLocks(p) /\ TameStep(p)
  BY <1>1, <1>4, <1>5, LocksStay DEF TameStep, MayLock, InParent, Making
<1>7. Calm(p)
  BY <1>6, TameCalm DEF NameInv
<1>8. Sits(s)'
  BY <1>2, <1>3, <1>7, CwdInUse, SitsKept DEF Calm
<1>9. /\ c.path.elems \in Seq(DirNames) /\ c.path.abs \in BOOLEAN
      /\ TypedCall(c) /\ c.name # "link2"
  BY FilesAssumption DEF TypedCall
<1>10. CallInv(p)' /\ NoNew(p)
  <2>1. pc'[p] # "root" => Sits(loc[p].cur)'
    BY <1>5, <1>8 DEF Sits
  <2>2. pc'[p] \in {"root", "walk", "found", "cold"}
    BY <1>5
  <2> QED BY <1>5, <1>9, <2>1, <2>2, WalkInv
<1>11. NoNewLink(p)
  BY <1>5, <1>9 DEF NoNewLink, IsLinking
<1>12. pc[p] \notin {"cnew", "gone"} /\ pc'[p] \notin {"cnew", "size", "dents"}
  BY <1>1, <1>5
<1> QED BY <1>1, <1>6, <1>10, <1>11, <1>12, PlainNext

(* namex(): the root, and a lock on the next directory.                    *)
LEMMA NameWalk ==
  ASSUME FcbInv, TableInv, NameInv, NEW p \in Procs,
         GetRoot(p) \/ WalkLock(p) \/ Oops(p)
  PROVE  NameInv'
<1>0. LocalsOK /\ TableOK(slot)
  BY DEF TableInv
<1>c. CallInv(p)
  BY DEF NameInv
<1>1. CASE Oops(p)
  BY <1>1, NamePanic DEF Oops
<1>2. CASE GetRoot(p)
  <2>1. PICK u : u = Lowest(Found(Root))
    OBVIOUS
  <2>2. /\ pc[p] = "root" /\ Found(Root) # {} /\ slot' = Got(Root, FALSE)
        /\ UNCHANGED <<imtx, dnode, entries, files, fdtable, icwd, alive>>
    BY <1>2 DEF GetRoot, diskVars, fileVars, procVars
  <2>3. /\ loc'[p].rest = loc[p].rest /\ loc'[p].call = loc[p].call
        /\ loc'[p].cur = u /\ loc'[p].obj = loc[p].obj /\ pc'[p] = "walk"
        /\ \A q \in Procs \ {p} : pc'[q] = pc[q] /\ loc'[q] = loc[q]
    BY <1>0, <1>2, <2>1 DEF GetRoot, Goto, LocalsOK, LocFields
  <2>4. Root \in Inos
    BY FilesAssumption DEF Root, Inos
  <2>5. Tame(slot') /\ u \in Slots /\ slot'[u].dev = 1 /\ slot'[u].no = Root
    BY <1>0, <2>1, <2>2, <2>4, GotTame
  <2>6. OwnLocks(p) /\ TameStep(p)
    BY <2>2, <2>3, <2>5, LocksStay DEF TameStep, MayLock, InParent, Making
  <2>7. Calm(p)
    BY <2>6, TameCalm DEF NameInv
  <2>8. Sits(loc[p].cur)'
    BY <2>3, <2>4, <2>5 DEF Sits, Settled
  <2>9. loc'[p].call.name = "link2" => GoodObj(loc[p].obj)'
    <3>1. PICK s : s = loc[p].obj
      OBVIOUS
    <3> QED BY <2>3, <2>7, <3>1, ObjKept DEF GoodObj, Sits, IsDir
  <2>10. CallInv(p)' /\ NoNew(p)
    <3>1. loc'[p].rest \in Seq(DirNames) /\ TypedCall(loc'[p].call)
      BY <1>c, <2>3 DEF CallInv, Paths, TypedCall
    <3> QED BY <2>3, <2>8, <2>9, <3>1, WalkInv
  <2>11. NoNewLink(p)
    BY <2>2, <2>3 DEF NoNewLink, IsLinking
  <2> QED BY <2>2, <2>3, <2>6, <2>10, <2>11, PlainNext
<1>3. CASE WalkLock(p)
  <2>1. PICK s : s = loc[p].cur
    OBVIOUS
  <2>2. CASE Panic
    BY <2>2, NamePanic
  <2>3. CASE ~Panic
    <3>1. /\ pc[p] = "walk" /\ loc[p].rest # <<>> /\ Lock(p, s) /\ slot' = Loaded(slot, s)
          /\ Goto(p, "look") /\ Loaded(slot, s)[s].mode = "dir"
          /\ UNCHANGED <<loc, dnode, entries, files, fdtable, icwd, alive>>
      BY <1>3, <2>1, <2>3 DEF WalkLock, diskVars, fileVars, procVars
    <3>2. pc'[p] = "look" /\ \A q \in Procs \ {p} : pc'[q] = pc[q] /\ loc'[q] = loc[q]
      BY <1>0, <3>1 DEF Goto, LocalsOK
    <3>3. s \in Slots /\ Sits(s) /\ slot[s].count > 0 /\ slot[s].dev = 1
      BY <2>1, <3>1, AtCur
    <3>4. Tame(slot') /\ slot'[s].valid
      BY <1>0, <3>1, <3>3, TameLoaded
    <3>5. OwnLocks(p) /\ CalmLocks(p)
      <4>1. pc[p] \notin MayLock
        BY <3>1 DEF MayLock, InParent, Making
      <4>2. \A t \in Slots : t = s \/ imtx[t] = p => Holds(p, t)'
        BY <2>1, <3>1, <3>2, <4>1, NoLocks DEF Holds
      <4> QED BY <3>1, <3>3, <4>2, LocksTake
    <3>6. TameStep(p)
      BY <3>1, <3>2, <3>4, <3>5 DEF TameStep
    <3>7. Calm(p)
      BY <3>6, TameCalm DEF NameInv
    <3>8. Sits(s)'
      BY <3>3, <3>7, SitsKept DEF Calm
    <3>9. IsDir(s)'
      <4>1. InSlotInv' 
        BY <3>1, <3>2, <3>6, TameInSlot DEF NameInv
      <4>2. ~Unwritten(s)'
        <5> SUFFICES ASSUME NEW q \in Procs, pc'[q] = "cnew", loc'[q].cur = s PROVE FALSE
          BY DEF Unwritten
        <5>1. pc[q] = "cnew" /\ loc[q].cur = s
          BY <3>2
        <5>2. ~Settled(loc[q].no) /\ slot[s].no = loc[q].no
          BY <5>1 DEF NameInv, CallInv, Makes, Making
        <5> QED BY <3>3, <5>2 DEF Sits
      <4> QED BY <3>1, <3>4, <3>8, <4>1, <4>2 DEF InSlotInv, Sits, IsDir
    <3>10. imtx'[s] = p
      BY <3>1, <3>3 DEF Lock, NameInv, LockInv
    <3>11. CallInv(p)' /\ NoNew(p)
      <4>1. Paths(p)' /\ Walks(p)'
        BY <1>c, <2>1, <3>1, <3>2, <3>8, <3>9, <3>10
           DEF CallInv, Paths, Walks, Making, Sits, IsDir
      <4>2. Climbs(p)' /\ Makes(p)' /\ Dies(p)' /\ NoNew(p)
        BY <3>2 DEF Climbs, Eff, InParent, Making, Makes, Dies, NoNew
      <4>3. Relinks(p)'
        <5>1. PICK o : o = loc[p].obj
          OBVIOUS
        <5>2. loc[p].call.name = "link2" => GoodObj(o)'
          BY <3>7, <5>1, ObjKept
        <5> QED BY <3>1, <3>2, <5>1, <5>2 DEF Relinks, GoodObj, Sits, IsDir
      <4> QED BY <4>1, <4>2, <4>3 DEF CallInv
    <3>12. NoNewLink(p)
      BY <3>1, <3>2 DEF NoNewLink, IsLinking
    <3> QED BY <3>1, <3>2, <3>5, <3>6, <3>11, <3>12, PlainNext
  <2> QED BY <2>2, <2>3
<1> QED BY <1>1, <1>2, <1>3

(* The one i_mtx that p holds while it looks up a name.                    *)
LEMMA OneLock ==
  ASSUME NameInv, NEW p \in Procs, NEW s,
         \/ pc[p] = "look" /\ s = loc[p].cur
         \/ pc[p] \in {"cdir", "ialloc", "cnew", "cfail"} /\ s = loc[p].par
  PROVE  imtx[s] = p /\ \A t \in Slots \ {s} : imtx[t] # p
<1>1. imtx[s] = p
  BY DEF NameInv, CallInv, Walks, Climbs, Eff, InParent, Making
<1>2. \A t \in Slots : imtx[t] = p => Holds(p, t)
  BY FilesAssumption DEF NameInv, LockInv
<1>3. \A t : Holds(p, t) => t = s
  BY DEF Holds, Eff, InParent, Making
<1> QED BY <1>1, <1>2, <1>3

(* A call gives up: link() goes on to take its count back.                 *)
LEMMA NameFail ==
  ASSUME FcbInv, TableInv, NameInv, NEW p \in Procs, NEW sl, NEW mx, NEW s,
         Put(p, sl, mx, s, FailLoc(loc[p]), FailTo(loc[p].call)),
         TableOK(sl), Tame(sl), Sits(s), slot[s].count > 0,
         UNCHANGED <<dnode, entries, files, fdtable, icwd, alive>>,
         pc[p] \in {"walk", "look", "cdir"},
         imtx' = mx => OwnLocks(p) /\ CalmLocks(p)
  PROVE  NameInv'
<1> DEFINE k == loc[p]
<1>1. CASE k.call.name # "link2"
  <2>1. FailLoc(k) = NoLoc /\ FailTo(k.call) \in {"oops", "user"}
    BY <1>1 DEF FailLoc, FailTo
  <2>2. PICK l, j : l = FailTo(k.call) /\ j = FailLoc(k)
    OBVIOUS
  <2>3. /\ l \in OffPath /\ j.rest \in Seq(DirNames)
        /\ j.call.name \notin {"link", "link2"} /\ l \notin {"size", "dents"}
    BY <2>1, <2>2 DEF OffPath, NoLoc, NoCall
  <2>4. Put(p, sl, mx, s, j, l)
    BY <2>2
  <2>5. /\ imtx' = mx /\ IdleCall(p)' /\ pc'[p] = l
        /\ CalmLocks(p) => TameStep(p)
    BY <2>3, <2>4, PutIdle
  <2> QED BY <2>3, <2>5, IdleNext
<1>2. CASE k.call.name = "link2"
  <2>1. PICK j : j = FailLoc(k)
    OBVIOUS
  <2>2. j = [NoLoc EXCEPT !.call = k.call, !.obj = k.obj] /\ FailTo(k.call) = "undo"
    BY <1>2, <2>1 DEF FailLoc, FailTo
  <2>3. /\ j.call = k.call /\ j.obj = k.obj /\ j.rest = <<>>
    BY <2>2 DEF NoLoc
  <2>4. Put(p, sl, mx, s, j, "undo")
    BY <2>1, <2>2
  <2>5. /\ Tame(slot') /\ imtx' = mx /\ pc'[p] = "undo" /\ loc'[p] = j
        /\ \A q \in Procs \ {p} : pc'[q] = pc[q] /\ loc'[q] = loc[q]
    BY <2>4, TamePut
  <2>6. TameStep(p) /\ OwnLocks(p)
    BY <2>5 DEF TameStep
  <2>7. Calm(p)
    BY <2>6, TameCalm DEF NameInv
  <2>8. PICK o : o = k.obj
    OBVIOUS
  <2>9. GoodObj(o)'
    BY <1>2, <2>7, <2>8, ObjKept
  <2>10. CallInv(p)' /\ NoNew(p)
    <3>1. Paths(p)' /\ Walks(p)'
      <4>1. /\ loc'[p].rest = <<>> /\ loc'[p].call.name = "link2"
            /\ pc'[p] = "undo" /\ <<>> \in Seq(DirNames)
        <5>1. loc'[p].call = k.call /\ loc'[p].rest = <<>> /\ pc'[p] = "undo"
          BY <2>3, <2>5
        <5> QED BY <1>2, <5>1
      <4> QED BY <4>1 DEF Paths, Walks, Making
    <3>2. Climbs(p)' /\ Makes(p)' /\ Dies(p)' /\ NoNew(p)
      BY <2>5 DEF Climbs, Eff, InParent, Making, Makes, Dies, NoNew
    <3>3. Relinks(p)'
      BY <1>2, <2>3, <2>5, <2>8, <2>9 DEF Relinks, GoodObj, Sits, IsDir
    <3> QED BY <3>1, <3>2, <3>3 DEF CallInv
  <2>11. NoNewLink(p)
    BY <1>2, <2>3, <2>5 DEF NoNewLink, IsLinking
  <2> QED BY <2>5, <2>6, <2>10, <2>11, PlainNext
<1> QED BY <1>1, <1>2

(* A path without names.                                                   *)
LEMMA NameWalkEnd ==
  ASSUME FcbInv, TableInv, NameInv, NEW p \in Procs, WalkEnd(p)
  PROVE  NameInv'
<1>0. LocalsOK /\ TableOK(slot) /\ CallInv(p)
  BY DEF TableInv, NameInv
<1>1. PICK s : s = loc[p].cur
  OBVIOUS
<1>2. /\ pc[p] = "walk" /\ loc[p].rest = <<>>
      /\ UNCHANGED <<dnode, entries, files, fdtable, icwd, alive>>
  BY DEF WalkEnd, diskVars, fileVars, procVars
<1>3. s \in Slots /\ Sits(s) /\ slot[s].count > 0
  BY <1>1, <1>2, AtCur
<1>4. pc[p] \notin MayLock
  BY <1>2 DEF MayLock, InParent, Making
<1>5. CASE WantsParent(loc[p].call)
  <2>1. Put(p, slot, imtx, s, FailLoc(loc[p]), FailTo(loc[p].call))
    BY <1>1, <1>5 DEF WalkEnd
  <2>2. PICK sl, mx : sl = slot /\ mx = imtx
    OBVIOUS
  <2>3. Put(p, sl, mx, s, FailLoc(loc[p]), FailTo(loc[p].call)) /\ TableOK(sl) /\ Tame(sl)
    BY <1>0, <2>1, <2>2, TameSlot
  <2>4. imtx' = mx => OwnLocks(p) /\ CalmLocks(p)
    BY <1>4, <2>2, LocksStay
  <2> QED BY <1>2, <1>3, <2>3, <2>4, NameFail
<1>6. CASE ~WantsParent(loc[p].call)
  <2>1. Goto(p, "found") /\ slot' = slot /\ imtx' = imtx /\ loc' = loc
    BY <1>6 DEF WalkEnd
  <2>2. pc'[p] = "found" /\ \A q \in Procs \ {p} : pc'[q] = pc[q] /\ loc'[q] = loc[q]
    BY <1>0, <2>1 DEF Goto, LocalsOK
  <2>3. OwnLocks(p) /\ TameStep(p)
    BY <1>2, <1>4, <2>1, <2>2, LocksStay, TameSlot DEF TameStep
  <2>4. Sits(s)'
    BY <1>2, <1>3, <2>1 DEF Sits, Settled
  <2>5. loc'[p].call.name # "link2"
    BY <1>6, <2>1 DEF WantsParent
  <2>6. CallInv(p)' /\ NoNew(p)
    <3>1. loc'[p].rest \in Seq(DirNames) /\ TypedCall(loc'[p].call)
      BY <1>0, <2>1 DEF CallInv, Paths, TypedCall
    <3>2. Sits(loc[p].cur)'
      BY <1>1, <2>1, <2>4 DEF Sits
    <3> QED BY <2>2, <2>5, <3>1, <3>2, WalkInv
  <2>7. NoNewLink(p)
    BY <2>5 DEF NoNewLink, IsLinking
  <2> QED BY <1>2, <2>2, <2>3, <2>6, <2>7, PlainNext
<1> QED BY <1>5, <1>6

(* An entry leads to a settled inode.                                      *)
LEMMA EntryGood ==
  ASSUME NameInv, NEW s, Sits(s), NEW m \in DirNames, NEW n, n = Entry(s, m)
  PROVE  n \in Inos \cup {0} /\ (n # 0 => n \in Inos /\ Settled(n) /\ IsDir(s))
<1>1. slot[s].no \in Inos
  BY DEF Sits
<1>2. n \in Inos \cup {0}
  BY <1>1 DEF Entry, NameInv, TreeInv
<1> QED BY <1>1, <1>2 DEF Entry, NameInv, TreeInv, IsDir

(* p unlocks the directory t, takes the inode n that it found there and    *)
(* puts t.                                                                 *)
LEMMA NameDown ==
  ASSUME FcbInv, TableInv, NameInv, NEW p \in Procs, NEW t, NEW n \in Inos, NEW k, NEW l,
         \/ pc[p] = "look" /\ t = loc[p].cur
         \/ pc[p] = "cdir" /\ t = loc[p].par,
         Put(p, Got(n, FALSE), Unlocked(t), t, k, l),
         Settled(n), Found(n) # {},
         k.cur = Lowest(Found(n)), k.rest \in Seq(DirNames), k.call = loc[p].call,
         k.obj = loc[p].obj, l \in {"walk", "found", "cold"},
         k.call.name = "link2" => l = "walk",
         UNCHANGED <<dnode, entries, files, fdtable, icwd, alive>>
  PROVE  NameInv'
<1>0. TableOK(slot) /\ OneSlotIn(slot) /\ CallInv(p)
  BY DEF TableInv, OneSlotPerInode, OneSlotIn, NameInv
<1>1. t \in Slots /\ Sits(t) /\ slot[t].count > 0
  BY AtCur, AtPar DEF Eff, InParent
<1>2. PICK u : u = Lowest(Found(n))
  OBVIOUS
<1>3. PICK sl, mx : sl = Got(n, FALSE) /\ mx = Unlocked(t)
  OBVIOUS
<1>4. Tame(sl) /\ u \in Slots /\ sl[u].dev = 1 /\ sl[u].no = n /\ TableOK(sl)
  BY <1>0, <1>2, <1>3, GotTame, GotOne
<1>5. /\ slot' = Less(sl, t) /\ Tame(slot') /\ imtx' = mx
      /\ pc'[p] = l /\ loc'[p] = k
      /\ \A q \in Procs \ {p} : pc'[q] = pc[q] /\ loc'[q] = loc[q]
  <2>1. /\ Put(p, sl, mx, t, k, l) /\ TableOK(sl) /\ Tame(sl) /\ Sits(t)
        /\ slot[t].count > 0
    BY <1>1, <1>3, <1>4
  <2> QED BY <2>1, TamePut
<1>6. slot'[u].dev = 1 /\ slot'[u].no = n
  BY <1>4, <1>5, LessKeeps
<1>7. OwnLocks(p) /\ CalmLocks(p)
  BY <1>1, <1>3, <1>5, OneLock, LocksDrop
<1>8. TameStep(p)
  BY <1>5, <1>7 DEF TameStep
<1>9. Calm(p)
  BY <1>8, TameCalm DEF NameInv
<1>10. Sits(loc[p].cur)'
  BY <1>2, <1>4, <1>5, <1>6 DEF Sits, Settled
<1>11. k.call.name = "link2" => GoodObj(loc[p].obj)'
  <2>1. PICK o : o = loc[p].obj
    OBVIOUS
  <2>2. k.call.name = "link2" => GoodObj(o)'
    BY <1>9, <2>1, ObjKept
  <2> QED BY <1>5, <2>1, <2>2 DEF GoodObj, Sits, IsDir
<1>12. CallInv(p)' /\ NoNew(p)
  <2>1. TypedCall(loc'[p].call) /\ loc'[p].rest \in Seq(DirNames)
    BY <1>0, <1>5 DEF CallInv, Paths, TypedCall
  <2>2. /\ pc'[p] \in {"root", "walk", "found", "cold"}
        /\ loc'[p].call.name = "link2" => pc'[p] \in {"root", "walk"} /\ GoodObj(loc[p].obj)'
    BY <1>5, <1>11
  <2> QED BY <1>10, <2>1, <2>2, WalkInv
<1>13. NoNewLink(p)
  BY <1>5 DEF NoNewLink, IsLinking
<1> QED BY <1>5, <1>7, <1>8, <1>12, <1>13, PlainNext

(* namex() in a directory.                                                 *)
LEMMA NameLook ==
  ASSUME FcbInv, TableInv, NameInv, NEW p \in Procs, Look(p)
  PROVE  NameInv'
<1> DEFINE k == loc[p]
<1>0. LocalsOK /\ TableOK(slot) /\ CallInv(p)
  BY DEF TableInv, NameInv
<1>1. PICK s, n : s = k.cur /\ n = Entry(s, Head(k.rest))
  OBVIOUS
<1>2. pc[p] = "look" /\ UNCHANGED <<dnode, entries, files, fdtable, icwd, alive>>
  BY DEF Look, diskVars, fileVars, procVars
<1>3. s \in Slots /\ Sits(s) /\ IsDir(s) /\ slot[s].count > 0
  BY <1>0, <1>1, <1>2, AtCur DEF CallInv, Walks
<1>4. /\ k.rest \in Seq(DirNames) /\ k.rest # <<>> /\ Head(k.rest) \in DirNames
      /\ Tail(k.rest) \in Seq(DirNames)
  BY <1>0, <1>2 DEF CallInv, Paths
<1>5. n \in Inos \cup {0} /\ (n # 0 => n \in Inos /\ Settled(n))
  BY <1>1, <1>3, <1>4, EntryGood
<1>6. imtx[s] = p /\ \A t \in Slots \ {s} : imtx[t] # p
  BY <1>1, <1>2, OneLock
<1> DEFINE last == WantsParent(k.call) /\ Len(k.rest) = 1
<1>7. CASE /\ last /\ imtx' = Unlocked(s) /\ slot' = slot
           /\ loc' = [loc EXCEPT ![p].par = s, ![p].cur = None] /\ Goto(p, "parent")
  <2>1. /\ pc'[p] = "parent" /\ loc'[p].par = s /\ loc'[p].rest = k.rest
        /\ loc'[p].call = k.call /\ loc'[p].obj = k.obj
        /\ \A q \in Procs \ {p} : pc'[q] = pc[q] /\ loc'[q] = loc[q]
    BY <1>0, <1>7 DEF Goto, LocalsOK, LocFields
  <2>2. OwnLocks(p) /\ CalmLocks(p)
    BY <1>3, <1>6, <1>7, LocksDrop
  <2>3. TameStep(p)
    BY <1>2, <1>7, <2>1, <2>2, TameSlot DEF TameStep
  <2>4. Calm(p)
    BY <2>3, TameCalm DEF NameInv
  <2>5. CallInv(p)' /\ NoNew(p)
    <3>1. Paths(p)' /\ Walks(p)'
      BY <1>0, <1>4, <1>7, <2>1 DEF CallInv, Paths, Walks, Making
    <3>2. Makes(p)' /\ Dies(p)' /\ NoNew(p)
      BY <2>1 DEF Making, Makes, Dies, NoNew
    <3>3. Climbs(p)'
      BY <1>2, <1>3, <1>7, <2>1 DEF Climbs, Eff, InParent, Making, Sits, Settled, IsDir
    <3>4. Relinks(p)'
      <4>1. PICK o : o = k.obj
        OBVIOUS
      <4>2. k.call.name = "link2" => GoodObj(o)'
        BY <2>4, <4>1, ObjKept
      <4> QED BY <2>1, <4>1, <4>2 DEF Relinks, GoodObj, Sits, IsDir
    <3> QED BY <3>1, <3>2, <3>3, <3>4 DEF CallInv
  <2>6. NoNewLink(p)
    BY <1>2, <2>1 DEF NoNewLink, IsLinking
  <2> QED BY <1>2, <2>1, <2>2, <2>3, <2>5, <2>6, PlainNext
<1>8. CASE n = 0 /\ Put(p, slot, Unlocked(s), s, FailLoc(k), FailTo(k.call))
  <2>1. PICK sl, mx : sl = slot /\ mx = Unlocked(s)
    OBVIOUS
  <2>2. Put(p, sl, mx, s, FailLoc(k), FailTo(k.call)) /\ TableOK(sl) /\ Tame(sl)
    BY <1>0, <1>8, <2>1, TameSlot
  <2>3. imtx' = mx => OwnLocks(p) /\ CalmLocks(p)
    BY <1>3, <1>6, <2>1, LocksDrop
  <2> QED BY <1>2, <1>3, <2>2, <2>3, NameFail
<1>9. CASE /\ ~last /\ n # 0 /\ Found(n) # {}
           /\ Put(p, Got(n, FALSE), Unlocked(s), s,
                  [k EXCEPT !.rest = Tail(@), !.cur = Lowest(Found(n))],
                  IF Len(k.rest) = 1 THEN "found" ELSE "walk")
  <2>1. PICK j : j = [k EXCEPT !.rest = Tail(@), !.cur = Lowest(Found(n))]
    OBVIOUS
  <2>2. PICK l : l = IF Len(k.rest) = 1 THEN "found" ELSE "walk"
    OBVIOUS
  <2>3. /\ j.cur = Lowest(Found(n)) /\ j.rest = Tail(k.rest) /\ j.call = k.call
        /\ j.obj = k.obj
    BY <1>0, <2>1 DEF LocalsOK, LocFields
  <2>4. l \in {"walk", "found", "cold"} /\ (j.call.name = "link2" => l = "walk")
    BY <1>9, <2>2, <2>3 DEF WantsParent
  <2>5. Put(p, Got(n, FALSE), Unlocked(s), s, j, l)
    BY <1>9, <2>1, <2>2
  <2> QED BY <1>1, <1>2, <1>4, <1>5, <1>9, <2>3, <2>4, <2>5, NameDown
<1> QED BY <1>1, <1>7, <1>8, <1>9 DEF Look

(* The parent directory is locked.                                         *)
LEMMA NameParent ==
  ASSUME FcbInv, TableInv, NameInv, NEW p \in Procs, ParentLock(p)
  PROVE  NameInv'
<1>0. LocalsOK /\ TableOK(slot) /\ CallInv(p)
  BY DEF TableInv, NameInv
<1>1. PICK s : s = loc[p].par
  OBVIOUS
<1>2. /\ pc[p] = "parent" /\ Lock(p, s) /\ slot' = Loaded(slot, s) /\ Goto(p, "cdir")
      /\ UNCHANGED <<loc, dnode, entries, files, fdtable, icwd, alive>>
  BY <1>1 DEF ParentLock, diskVars, fileVars, procVars
<1>3. s \in Slots /\ Sits(s) /\ IsDir(s) /\ slot[s].count > 0 /\ slot[s].dev = 1
  BY <1>1, <1>2, AtPar DEF Eff
<1>4. pc'[p] = "cdir" /\ \A q \in Procs \ {p} : pc'[q] = pc[q] /\ loc'[q] = loc[q]
  BY <1>0, <1>2 DEF Goto, LocalsOK
<1>5. Tame(slot') /\ slot'[s].valid
  BY <1>0, <1>2, <1>3, TameLoaded
<1>6. OwnLocks(p) /\ CalmLocks(p)
  <2>1. pc[p] \notin MayLock
    BY <1>2 DEF MayLock, InParent, Making
  <2>2. \A t \in Slots : t = s \/ imtx[t] = p => Holds(p, t)'
    BY <1>1, <1>2, <1>4, <2>1, NoLocks DEF Holds, Eff, InParent
  <2> QED BY <1>2, <1>3, <2>2, LocksTake
<1>7. TameStep(p)
  BY <1>2, <1>4, <1>5, <1>6 DEF TameStep
<1>8. Calm(p)
  BY <1>7, TameCalm DEF NameInv
<1>9. Sits(s)' /\ IsDir(s)'
  BY <1>3, <1>8, SitsKept DEF Calm
<1>10. imtx'[s] = p
  BY <1>2, <1>3 DEF Lock, NameInv, LockInv
<1>11. CallInv(p)' /\ NoNew(p)
  <2>1. Paths(p)' /\ Walks(p)'
    BY <1>0, <1>2, <1>4 DEF CallInv, Paths, Walks, Making
  <2>2. Makes(p)' /\ Dies(p)' /\ NoNew(p)
    BY <1>4 DEF Making, Makes, Dies, NoNew
  <2>3. Climbs(p)'
    BY <1>1, <1>2, <1>4, <1>5, <1>9, <1>10 DEF Climbs, Eff, Sits, IsDir
  <2>4. Relinks(p)'
    <3>1. PICK o : o = loc[p].obj
      OBVIOUS
    <3>2. loc[p].call.name = "link2" => GoodObj(o)'
      BY <1>8, <3>1, ObjKept
    <3> QED BY <1>2, <1>4, <3>1, <3>2 DEF Relinks, GoodObj, Sits, IsDir
  <2> QED BY <2>1, <2>2, <2>3, <2>4 DEF CallInv
<1>12. NoNewLink(p)
  BY <1>2, <1>4 DEF NoNewLink, IsLinking
<1> QED BY <1>2, <1>4, <1>6, <1>7, <1>11, <1>12, PlainNext

(* create() finds the name, or has to give up.                             *)
LEMMA NameFound ==
  ASSUME FcbInv, TableInv, NameInv, NEW p \in Procs,
         CreateFound(p) \/ CreateOld(p) \/ CreateFail(p)
  PROVE  NameInv'
<1> DEFINE k == loc[p]
<1>0. LocalsOK /\ TableOK(slot) /\ CallInv(p)
  BY DEF TableInv, NameInv
<1>1. CASE CreateFound(p)
  <2>1. PICK t, n : t = k.par /\ n = Entry(t, k.rest[1])
    OBVIOUS
  <2>2. PICK j : j = [k EXCEPT !.cur = Lowest(Found(n)), !.par = None]
    OBVIOUS
  <2>3. /\ pc[p] = "cdir" /\ k.call.name # "link2" /\ n # 0 /\ Found(n) # {}
        /\ Put(p, Got(n, FALSE), Unlocked(t), t, j, "cold")
        /\ UNCHANGED <<dnode, entries, files, fdtable, icwd, alive>>
    BY <1>1, <2>1, <2>2 DEF CreateFound, LastName, diskVars, fileVars, procVars
  <2>4. /\ j.cur = Lowest(Found(n)) /\ j.rest = k.rest /\ j.call = k.call /\ j.obj = k.obj
    BY <1>0, <2>2 DEF LocalsOK, LocFields
  <2>5. k.rest \in Seq(DirNames) /\ Len(k.rest) = 1
    BY <1>0, <2>3 DEF CallInv, Paths
  <2>6. k.rest[1] \in DirNames
    BY <2>5
  <2>7. Sits(t)
    BY <2>1, <2>3, AtPar DEF Eff, InParent
  <2>8. n \in Inos /\ Settled(n)
    BY <2>1, <2>3, <2>6, <2>7, EntryGood
  <2> QED BY <2>1, <2>3, <2>4, <2>5, <2>8, NameDown
<1>2. CASE CreateOld(p)
  <2>1. PICK s, sl : s = k.cur /\ sl = Loaded(slot, s)
    OBVIOUS
  <2>2. /\ pc[p] = "cold" /\ UNCHANGED <<dnode, entries, files, fdtable, icwd, alive>>
        /\ \/ slot' = sl /\ Goto(p, "found") /\ imtx' = imtx /\ loc' = loc
           \/ Put(p, sl, imtx, s, NoLoc, "user")
    BY <1>2, <2>1 DEF CreateOld, diskVars, fileVars, procVars
  <2>3. s \in Slots /\ Sits(s) /\ slot[s].count > 0 /\ slot[s].dev = 1
    BY <2>1, <2>2, AtCur
  <2>4. Tame(sl) /\ TableOK(sl)
    BY <1>0, <2>1, <2>3, TameLoaded, LoadedKeeps
  <2>5. pc[p] \notin MayLock
    BY <2>2 DEF MayLock, InParent, Making
  <2>6. CASE slot' = sl /\ Goto(p, "found") /\ imtx' = imtx /\ loc' = loc
    <3>1. pc'[p] = "found" /\ \A q \in Procs \ {p} : pc'[q] = pc[q] /\ loc'[q] = loc[q]
      BY <1>0, <2>6 DEF Goto, LocalsOK
    <3>2. OwnLocks(p) /\ TameStep(p)
      BY <2>2, <2>4, <2>5, <2>6, <3>1, LocksStay DEF TameStep
    <3>3. Calm(p)
      BY <3>2, TameCalm DEF NameInv
    <3>4. Sits(s)'
      BY <2>3, <3>3, SitsKept DEF Calm
    <3>5. loc'[p].call.name # "link2"
      BY <1>0, <2>2, <2>6 DEF CallInv, Relinks
    <3>6. CallInv(p)' /\ NoNew(p)
      <4>1. loc'[p].rest \in Seq(DirNames) /\ TypedCall(loc'[p].call)
        BY <1>0, <2>6 DEF CallInv, Paths, TypedCall
      <4>2. Sits(loc[p].cur)'
        BY <2>1, <2>6, <3>4 DEF Sits
      <4> QED BY <3>1, <3>5, <4>1, <4>2, WalkInv
    <3>7. NoNewLink(p)
      BY <3>5 DEF NoNewLink, IsLinking
    <3> QED BY <2>2, <3>1, <3>2, <3>6, <3>7, PlainNext
  <2>7. CASE Put(p, sl, imtx, s, NoLoc, "user")
    <3>1. /\ "user" \in OffPath /\ NoLoc.rest \in Seq(DirNames)
          /\ NoLoc.call.name \notin {"link", "link2"}
      BY DEF OffPath, NoLoc, NoCall
    <3>2. /\ imtx' = imtx /\ IdleCall(p)' /\ pc'[p] = "user"
          /\ CalmLocks(p) => TameStep(p)
      BY <2>2, <2>3, <2>4, <2>7, <3>1, PutIdle
    <3>3. OwnLocks(p) /\ TameStep(p)
      BY <2>5, <3>2, LocksStay
    <3> QED BY <2>2, <3>2, <3>3, IdleNext
  <2> QED BY <2>2, <2>6, <2>7
<1>3. CASE CreateFail(p)
  <2>1. PICK s, mx : s = k.par /\ mx = Unlocked(s)
    OBVIOUS
  <2>2. /\ pc[p] = "cfail" /\ Put(p, slot, mx, s, NoLoc, "user")
        /\ UNCHANGED <<dnode, entries, files, fdtable, icwd, alive>>
    BY <1>3, <2>1 DEF CreateFail, diskVars, fileVars, procVars
  <2>3. s \in Slots /\ Sits(s) /\ slot[s].count > 0
    BY <2>1, <2>2, AtPar DEF Eff, InParent
  <2>4. imtx[s] = p /\ \A t \in Slots \ {s} : imtx[t] # p
    BY <2>1, <2>2, OneLock
  <2>5. /\ "user" \in OffPath /\ NoLoc.rest \in Seq(DirNames)
        /\ NoLoc.call.name \notin {"link", "link2"}
    BY DEF OffPath, NoLoc, NoCall
  <2>6. /\ imtx' = mx /\ IdleCall(p)' /\ pc'[p] = "user"
        /\ CalmLocks(p) => TameStep(p)
    BY <1>0, <2>2, <2>3, <2>5, TameSlot, PutIdle
  <2>7. OwnLocks(p) /\ TameStep(p)
    BY <2>1, <2>3, <2>4, <2>6, LocksDrop
  <2> QED BY <2>2, <2>6, <2>7, IdleNext
<1> QED BY <1>1, <1>2, <1>3

(* link() finds the new name taken, or no room for it.                     *)
LEMMA NameLinkFail ==
  ASSUME FcbInv, TableInv, NameInv, NEW p \in Procs, LinkFail(p)
  PROVE  NameInv'
<1> DEFINE k == loc[p]
<1>0. LocalsOK /\ TableOK(slot) /\ OneSlotIn(slot) /\ CallInv(p)
  BY DEF TableInv, NameInv, OneSlotPerInode, OneSlotIn
<1>1. PICK s, n : s = k.par /\ n = Entry(s, k.rest[1])
  OBVIOUS
<1>2. PICK gl, u : gl = Got(n, FALSE) /\ u = Lowest(Found(n))
  OBVIOUS
<1>3. PICK sl, mx : sl = (IF n = 0 THEN slot ELSE Less(gl, u)) /\ mx = Unlocked(s)
  OBVIOUS
<1>4. /\ pc[p] = "cdir" /\ k.call.name = "link2" /\ (n = 0 \/ Found(n) # {})
      /\ Put(p, sl, mx, s, FailLoc(k), "undo")
      /\ UNCHANGED <<dnode, entries, files, fdtable, icwd, alive>>
  BY <1>1, <1>2, <1>3 DEF LinkFail, LastName, Less, diskVars, fileVars, procVars
<1>5. s \in Slots /\ Sits(s) /\ slot[s].count > 0
  BY <1>1, <1>4, AtPar DEF Eff, InParent
<1>6. k.rest[1] \in DirNames
  BY <1>0, <1>4 DEF CallInv, Paths
<1>7. n # 0 => n \in Inos
  BY <1>1, <1>5, <1>6, EntryGood
<1>8. Tame(sl) /\ TableOK(sl)
  <2>1. CASE n = 0
    BY <1>0, <1>3, <2>1, TameSlot
  <2>2. CASE n # 0
    <3>1. Tame(gl) /\ TableOK(gl)
      BY <1>0, <1>2, <1>4, <1>7, <2>2, GotTame, GotOne
    <3> QED BY <1>3, <2>2, <3>1, TameLess, LessKeeps
  <2> QED BY <2>1, <2>2
<1>9. imtx[s] = p /\ \A t \in Slots \ {s} : imtx[t] # p
  BY <1>1, <1>4, OneLock
<1>10. imtx' = mx => OwnLocks(p) /\ CalmLocks(p)
  BY <1>3, <1>5, <1>9, LocksDrop
<1>11. FailTo(k.call) = "undo"
  BY <1>4 DEF FailTo
<1>12. Put(p, sl, mx, s, FailLoc(loc[p]), FailTo(loc[p].call))
  BY <1>4, <1>11
<1> QED BY <1>4, <1>5, <1>8, <1>10, <1>12, NameFail

(* The inode table stays as it is.                                         *)
LEMMA QuietNext ==
  ASSUME NameInv, TableInv, NEW p \in Procs, pc[p] \in OffPath,
         UNCHANGED <<slot, imtx, dnode, entries>>,
         \A q \in Procs \ {p} : pc'[q] = pc[q] /\ loc'[q] = loc[q],
         IdleCall(p)', pc'[p] \notin {"size", "dents"}, FdCalm(p)
  PROVE  NameInv'
<1>1. pc[p] \notin MayLock /\ pc[p] # "cnew"
  BY DEF MayLock, InParent, Making, OffPath
<1>2. Tame(slot')
  BY TameSlot DEF Tame, SameSlot, ReadSlot, TakenSlot
<1>3. OwnLocks(p) /\ TameStep(p)
  BY <1>1, <1>2, LocksStay DEF TameStep
<1> QED BY <1>1, <1>3, FdNext

(* Only the current directory of p changes.                                *)
LEMMA HomeNext ==
  ASSUME NameInv, TableInv, NEW p \in Procs, TameStep(p), OwnLocks(p), IdleCall(p)',
         pc[p] # "cnew", pc'[p] \notin {"size", "dents"}, UNCHANGED <<files, fdtable, alive>>,
         \A q \in Procs \ {p} : icwd'[q] = icwd[q], Home(p)'
  PROVE  NameInv'
<1>1. Calm(p)
  BY TameCalm DEF NameInv
<1>2. CallInv(p)' /\ NoNew(p) /\ NoNewLink(p) /\ pc'[p] # "cnew"
  BY IdleInv DEF IdleCall, OffPath
<1>3. ASSUME NEW q \in Procs PROVE Home(q)'
  <2>1. CASE q # p
    BY <1>1, <2>1, HomeKept
  <2>2. CASE q = p
    BY <2>2 DEF Home, Sits, Settled
  <2> QED BY <2>1, <2>2
<1>4. FileInv'
  BY <1>1, FilesStay
<1>5. ASSUME NEW q \in Procs PROVE Sizes(q)'
  <2>1. CASE q = p
    BY <2>1 DEF Sizes
  <2>2. CASE q # p
    BY <1>1, <2>2, SizesStay DEF OpenAt
  <2> QED BY <2>1, <2>2
<1>6. HomeInv' /\ SizeInv'
  BY <1>3, <1>5 DEF HomeInv, SizeInv
<1> QED BY <1>2, <1>4, <1>6, TameNext

(* chdir(), and what exit() does with the current directory.               *)
LEMMA NameChdir ==
  ASSUME FcbInv, TableInv, NameInv, NEW p \in Procs, Chdir(p) \/ ExitPut(p)
  PROVE  NameInv'
<1>0. LocalsOK /\ TableOK(slot) /\ CallInv(p) /\ Home(p) /\ Control(p)
  BY DEF TableInv, NameInv, HomeInv, FcbInv
<1>1. PICK o : o = icwd[p]
  OBVIOUS
<1>2. pc[p] \in {"found", "exit"} /\ pc[p] \notin MayLock
  BY DEF Chdir, ExitPut, Is, MayLock, InParent, Making
<1>3. o # None
  <2>1. ExitPut(p) => o # None
    BY <1>1 DEF ExitPut
  <2>2. pc[p] = "found" => p \in alive
    BY <1>0 DEF Control, Eff
  <2> QED BY <1>0, <1>1, <1>2, <2>1, <2>2 DEF Home, Chdir, Is
<1>4. o \in Slots /\ Sits(o) /\ slot[o].count > 0
  <2>1. Sits(o) /\ o \in Slots
    BY <1>0, <1>1, <1>3 DEF Home, Sits
  <2> QED BY <1>1, <2>1, CwdInUse
<1>5. UNCHANGED <<dnode, entries, files, fdtable, alive>>
  BY DEF Chdir, ExitPut, diskVars, fileVars
<1>6. CASE ExitPut(p)
  <2>1. PICK k : k = loc[p]
    OBVIOUS
  <2>2. /\ Put(p, slot, imtx, o, k, "gone") /\ icwd' = [icwd EXCEPT ![p] = None]
        /\ pc[p] = "exit"
    BY <1>1, <1>6, <2>1 DEF ExitPut
  <2>3. k.rest \in Seq(DirNames) /\ k.call.name = "exit" /\ "gone" \in OffPath
    BY <1>0, <2>1, <2>2 DEF Control, Eff, CallInv, Paths, OffPath
  <2>4. /\ imtx' = imtx /\ IdleCall(p)' /\ pc'[p] = "gone"
        /\ CalmLocks(p) => TameStep(p)
    <3>1. /\ k.call.name \notin {"link", "link2"} /\ TableOK(slot) /\ Tame(slot)
      BY <1>0, <2>3, TameSlot
    <3> QED BY <1>4, <1>5, <2>2, <2>3, <3>1, PutIdle
  <2>5. OwnLocks(p) /\ TameStep(p)
    BY <1>2, <2>4, LocksStay
  <2>6. Home(p)' /\ \A q \in Procs \ {p} : icwd'[q] = icwd[q]
    BY <1>0, <2>2, <2>4 DEF Home, LocalsOK
  <2> QED BY <1>2, <1>5, <2>4, <2>5, <2>6, HomeNext
<1>7. CASE Chdir(p)
  <2>1. PICK s, sl : s = loc[p].cur /\ sl = Loaded(slot, s)
    OBVIOUS
  <2>2. pc[p] = "found"
    BY <1>7 DEF Chdir, Is
  <2>3. s \in Slots /\ Sits(s) /\ slot[s].count > 0 /\ slot[s].dev = 1
    BY <2>1, <2>2, AtCur
  <2>4. Tame(sl) /\ TableOK(sl)
    BY <1>0, <2>1, <2>3, TameLoaded, LoadedKeeps
  <2>5. \/ /\ Return(p) /\ imtx' = imtx /\ icwd' = icwd /\ Tame(slot')
        \/ /\ icwd' = [icwd EXCEPT ![p] = s] /\ Put(p, sl, imtx, o, NoLoc, "user")
    BY <1>1, <1>7, <2>1, <2>4, TameSlot DEF Chdir
  <2>6. CASE Return(p) /\ imtx' = imtx /\ icwd' = icwd /\ Tame(slot')
    <3>1. /\ IdleCall(p)' /\ pc'[p] = "user"
          /\ \A q \in Procs \ {p} : pc'[q] = pc[q] /\ loc'[q] = loc[q]
      BY <1>0, <2>6, ReturnIdle
    <3>2. OwnLocks(p) /\ TameStep(p)
      BY <1>2, <1>5, <2>6, <3>1, LocksStay DEF TameStep
    <3> QED BY <1>5, <2>2, <2>6, <3>1, <3>2, IdleNext
  <2>7. CASE icwd' = [icwd EXCEPT ![p] = s] /\ Put(p, sl, imtx, o, NoLoc, "user")
    <3>1. /\ "user" \in OffPath /\ NoLoc.rest \in Seq(DirNames)
          /\ NoLoc.call.name \notin {"link", "link2"}
      BY DEF OffPath, NoLoc, NoCall
    <3>2. /\ imtx' = imtx /\ IdleCall(p)' /\ pc'[p] = "user"
          /\ CalmLocks(p) => TameStep(p)
      BY <1>4, <1>5, <2>4, <2>7, <3>1, PutIdle
    <3>3. OwnLocks(p) /\ TameStep(p)
      BY <1>2, <3>2, LocksStay
    <3>4. Calm(p)
      BY <3>3, TameCalm DEF NameInv
    <3>5. Sits(s)'
      BY <2>3, <3>4, SitsKept DEF Calm
    <3>6. icwd'[p] = s /\ \A q \in Procs \ {p} : icwd'[q] = icwd[q]
      BY <1>0, <2>7 DEF LocalsOK
    <3>7. Home(p)'
      <4>1. s # None
        BY <2>3, FilesAssumption
      <4> QED BY <3>5, <3>6, <4>1 DEF Home, Sits
    <3> QED BY <1>2, <1>5, <3>2, <3>3, <3>6, <3>7, HomeNext
  <2> QED BY <2>5, <2>6, <2>7
<1> QED BY <1>6, <1>7

(* Nothing of the inode table changes in these steps.                      *)
LEMMA NameQuiet ==
  ASSUME FcbInv, TableInv, NameInv, NEW p \in Procs,
         \/ Exit(p) \/ Gone(p) \/ Pipe(p) \/ FcbFree(p)
         \/ PipeFirst(p) \/ PipeNoFd(p) \/ PipeSecond(p)
         \/ \E fd \in Fds : Dup(p, fd) \/ \E new \in Fds : Dup2(p, fd, new)
  PROVE  NameInv'
<1>0. LocalsOK /\ Paths(p) /\ Control(p) /\ fdtable \in [Procs -> [Fds -> Fcbs \cup {-1}]]
  BY DEF TableInv, NameInv, CallInv, FcbInv
<1>1. UNCHANGED <<slot, imtx, dnode, entries, files, icwd>>
  BY DEF Exit, Gone, Pipe, FcbFree, PipeFirst, PipeNoFd, PipeSecond, Dup, Dup2, tableVars,
         diskVars, fileVars, procVars
<1>2. /\ \A q \in Procs \ {p} : fdtable'[q] = fdtable[q]
      /\ alive' \subseteq alive /\ (pc[p] = "gone" => p \notin alive')
  BY <1>0 DEF Exit, Gone, Pipe, FcbFree, PipeFirst, PipeNoFd, PipeSecond, Dup, Dup2, fileVars,
         procVars, Gave
<1>3. FdCalm(p)
  BY <1>1, <1>2 DEF FdCalm
<1>4. pc[p] \in OffPath
  BY DEF Exit, Gone, Pipe, FcbFree, PipeFirst, PipeNoFd, PipeSecond, Dup, Dup2, OffPath
<1>5. CASE Return(p)
  BY <1>0, <1>1, <1>3, <1>4, <1>5, ReturnIdle, QuietNext
<1>6. ASSUME NEW l, NEW k, Goto(p, l), l \in OffPath \ {"size", "dents"},
             loc' = [loc EXCEPT ![p] = k] \/ (loc' = loc /\ k = loc[p]),
             k.rest = loc[p].rest, k.call.name \notin {"link", "link2"}
      PROVE  NameInv'
  <2>1. /\ pc'[p] = l /\ loc'[p] = k
        /\ \A q \in Procs \ {p} : pc'[q] = pc[q] /\ loc'[q] = loc[q]
    BY <1>0, <1>6 DEF Goto, LocalsOK
  <2>2. IdleCall(p)'
    BY <1>0, <1>6, <2>1 DEF IdleCall, Paths
  <2> QED BY <1>1, <1>3, <1>4, <1>6, <2>1, <2>2, QuietNext
<1>7. DOMAIN loc = Procs /\ DOMAIN loc[p] = LocFields
  BY <1>0 DEF LocalsOK
<1>8. CASE Exit(p)
  <2>1. PICK k : k = [loc[p] EXCEPT !.call = [name |-> "exit"]]
    OBVIOUS
  <2>2. Goto(p, "exit") /\ loc' = [loc EXCEPT ![p] = k] /\ "exit" \in OffPath \ {"size", "dents"}
    BY <1>8, <2>1 DEF Exit, OffPath
  <2>3. k.rest = loc[p].rest /\ k.call.name = "exit"
    BY <1>7, <2>1 DEF LocFields
  <2> QED BY <1>6, <2>2, <2>3
<1>9. CASE Pipe(p)
  <2>1. PICK k : k = loc[p]
    OBVIOUS
  <2>2. Goto(p, "pipe1") /\ loc' = loc /\ "pipe1" \in OffPath \ {"size", "dents"}
    BY <1>9 DEF Pipe, OffPath
  <2>3. k.call.name = "none"
    BY <1>0, <1>9, <2>1 DEF Pipe, Control, Eff
  <2> QED BY <1>6, <2>1, <2>2, <2>3
<1>10. CASE FcbFree(p)
  <2>1. PICK k : k = [loc[p] EXCEPT !.fd = -1]
    OBVIOUS
  <2>2. PICK l : l = AfterClose(loc[p].call)
    OBVIOUS
  <2>3. Goto(p, l) /\ loc' = [loc EXCEPT ![p] = k] /\ l \in OffPath \ {"size", "dents"}
    BY <1>10, <2>1, <2>2 DEF FcbFree, AfterClose, OffPath
  <2>4. k.rest = loc[p].rest /\ k.call = loc[p].call
    BY <1>7, <2>1 DEF LocFields
  <2>5. loc[p].call.name \in {"none", "dup2", "exit"}
    BY <1>0, <1>10 DEF FcbFree, Control, Eff
  <2> QED BY <1>6, <2>3, <2>4, <2>5
<1>11. CASE PipeFirst(p)
  <2>1. PICK k : k = [loc[p] EXCEPT !.fd = Lowest(FreeFds(p))]
    OBVIOUS
  <2>2. Goto(p, "pipe2") /\ loc' = [loc EXCEPT ![p] = k] /\ "pipe2" \in OffPath \ {"size", "dents"}
    BY <1>11, <2>1 DEF PipeFirst, OffPath
  <2>3. k.rest = loc[p].rest /\ k.call = loc[p].call
    BY <1>7, <2>1 DEF LocFields
  <2>4. loc[p].call.name = "none"
    BY <1>0, <1>11 DEF PipeFirst, Control, Eff
  <2> QED BY <1>6, <2>2, <2>3, <2>4
<1>12. CASE PipeSecond(p)
  <2>1. PICK k : k = [loc[p] EXCEPT !.no = Lowest(FreeFds(p))]
    OBVIOUS
  <2>2. Goto(p, "pipe3") /\ loc' = [loc EXCEPT ![p] = k] /\ "pipe3" \in OffPath \ {"size", "dents"}
    BY <1>12, <2>1 DEF PipeSecond, OffPath
  <2>3. k.rest = loc[p].rest /\ k.call = loc[p].call
    BY <1>7, <2>1 DEF LocFields
  <2>4. loc[p].call.name = "none"
    BY <1>0, <1>12 DEF PipeSecond, Control, Eff
  <2> QED BY <1>6, <2>2, <2>3, <2>4
<1>13. ASSUME NEW fd \in Fds, Dup(p, fd) PROVE NameInv'
  <2>1. PICK c, k : c = [name |-> "dup", old |-> fd, new |-> 0]
                    /\ k = [loc[p] EXCEPT !.call = c]
    OBVIOUS
  <2>2. /\ Goto(p, "dupfd") /\ loc' = [loc EXCEPT ![p] = k] /\ c.name = "dup"
        /\ "dupfd" \in OffPath \ {"size", "dents"}
    BY <1>13, <2>1 DEF Dup, OffPath
  <2>3. k.rest = loc[p].rest /\ k.call = c
    BY <1>7, <2>1 DEF LocFields
  <2> QED BY <1>6, <2>2, <2>3
<1>14. ASSUME NEW fd \in Fds, NEW new \in Fds, Dup2(p, fd, new) PROVE NameInv'
  <2>1. PICK c, k : c = [name |-> "dup2", old |-> fd, new |-> new]
                    /\ k = [loc[p] EXCEPT !.call = c]
    OBVIOUS
  <2>2. /\ Goto(p, "dup2") /\ loc' = [loc EXCEPT ![p] = k] /\ c.name = "dup2"
        /\ "dup2" \in OffPath \ {"size", "dents"}
    BY <1>14, <2>1 DEF Dup2, OffPath
  <2>3. k.rest = loc[p].rest /\ k.call = c
    BY <1>7, <2>1 DEF LocFields
  <2> QED BY <1>6, <2>2, <2>3
<1>15. Gone(p) \/ PipeNoFd(p) => Return(p)
  BY DEF Gone, PipeNoFd
<1> QED BY <1>5, <1>8, <1>9, <1>10, <1>11, <1>12, <1>13, <1>14, <1>15

(* A process starts to wait for a slot or for an fcb.                      *)
LEMMA NameWait ==
  ASSUME NameInv, NEW p \in Procs, InodeWait(p) \/ FileWait(p)
  PROVE  NameInv'
<1>1. UNCHANGED <<slot, imtx, dnode, entries, files, alive, fdtable, icwd, pc, loc>>
  BY DEF InodeWait, FileWait, tableVars, diskVars, fileVars, procVars
<1> QED BY <1>1, NameStutter

(* A slot has a count of 0 or more.                                        *)
LEMMA CountNat ==
  ASSUME TableInv, NEW s \in Slots
  PROVE  slot[s].count \in Int /\ slot[s].count >= 0
<1> DEFINE A == {g \in Places : Held[g] = s}
<1>1. IsFiniteSet(A)
  BY PlacesFinite, FS_Subset
<1>2. Cardinality(A) \in Nat
  BY <1>1, FS_CardinalityType
<1>3. slot[s].count >= Cardinality(A) /\ slot[s].count \in Int
  BY DEF TableInv, TableOK, Covers
<1> QED BY <1>2, <1>3

(* read(), write(), fstat(), getdents().                                   *)
LEMMA NameUse ==
  ASSUME FcbInv, TableInv, NameInv, NEW p \in Procs, NEW fd \in Fds,
         NEW stat \in BOOLEAN, UseFile(p, fd, stat)
  PROVE  NameInv'
<1>0. LocalsOK /\ TableOK(slot) /\ Paths(p) /\ Control(p) /\ InSlotInv
  BY DEF TableInv, NameInv, CallInv, FcbInv
<1>1. CASE Panic
  BY <1>1, NamePanic
<1>2. CASE ~Panic
  <2>1. PICK s : s = files[fdtable[p][fd]].inode
    OBVIOUS
  <2>2. /\ pc[p] = "user" /\ slot[s].count # 0
        /\ ~(stat /\ slot[s].dev = 0 /\ ~slot[s].valid) /\ (~stat => slot[s].mode # "fifo")
        /\ slot' = Loaded(slot, s)
        /\ UNCHANGED <<imtx, dnode, entries, files, fdtable, icwd, alive, pc, loc>>
    BY <1>2, <2>1 DEF UseFile, diskVars, fileVars, procVars
  <2>3. Tame(slot')
    <3>1. CASE s \in Slots
      <4>1. slot[s].count > 0
        BY <2>2, <3>1, CountNat
      <4>2. slot[s].dev = 1 \/ slot[s].valid
        BY <1>0, <2>2, <3>1, <4>1 DEF InSlotInv
      <4> QED BY <1>0, <2>2, <3>1, <4>2, TameLoaded
    <3>2. CASE s \notin Slots
      <4>1. \A t \in Slots : Loaded(slot, s)[t] = slot[t]
        BY <1>0, <3>2 DEF Loaded, TableOK
      <4> QED BY <2>2, <4>1, TameSlot DEF Tame
    <3> QED BY <3>1, <3>2
  <2>4. pc[p] \notin MayLock
    BY <2>2 DEF MayLock, InParent, Making
  <2>5. OwnLocks(p) /\ TameStep(p)
    BY <2>2, <2>3, <2>4, LocksStay DEF TameStep
  <2>6. IdleCall(p)'
    BY <1>0, <2>2 DEF IdleCall, OffPath, Paths, Control, Eff
  <2> QED BY <2>2, <2>5, <2>6, IdleNext
<1> QED BY <1>1, <1>2

(* What the slot of a settled inode shows once it was read.                *)
LEMMA SitsRead ==
  ASSUME NameInv, NEW s, Sits(s)
  PROVE  /\ ~Unwritten(s)
         /\ slot[s].valid => /\ slot[s].links = dnode[slot[s].no].links
                             /\ slot[s].mode = dnode[slot[s].no].mode
<1>1. ~Unwritten(s)
  <2> SUFFICES ASSUME NEW q \in Procs, pc[q] = "cnew", loc[q].cur = s PROVE FALSE
    BY DEF Unwritten
  <2>1. Makes(q)
    BY DEF NameInv, CallInv
  <2>2. ~Settled(loc[q].no) /\ slot[s].no = loc[q].no
    BY <2>1 DEF Makes, Making
  <2> QED BY <2>2 DEF Sits
<1> QED BY <1>1 DEF NameInv, InSlotInv, Sits

(* getdents(): from the lock of the directory to its release.              *)
LEMMA DentsNext ==
  ASSUME NameInv, TableInv, NEW p \in Procs, TameStep(p), OwnLocks(p), NoNew(p),
         NoNewLink(p), pc[p] \in {"user", "dents"}, pc'[p] # "cnew", CallInv(p)',
         UNCHANGED <<files, fdtable, icwd, alive>>, Sizes(p)'
  PROVE  NameInv'
<1>1. Calm(p)
  BY TameCalm DEF NameInv
<1>2. HomeInv' /\ FileInv'
  BY <1>1, HomeStays, FilesStay
<1>3. ASSUME NEW q \in Procs PROVE Sizes(q)'
  <2>1. CASE q = p
    BY <2>1 DEF Sizes, Sits, Settled, OpenAt, IsDir
  <2>2. CASE q # p
    BY <1>1, <2>2, SizesStay DEF OpenAt
  <2> QED BY <2>1, <2>2
<1>4. SizeInv'
  BY <1>3 DEF SizeInv
<1> QED BY <1>2, <1>4, TameNext

LEMMA NameDents ==
  ASSUME FcbInv, TableInv, NameInv, NEW p \in Procs, NEW fd \in Fds, Dents(p, fd)
  PROVE  NameInv'
<1>0. LocalsOK /\ TableOK(slot) /\ InSlotInv
  BY DEF TableInv, NameInv
<1>1. PICK f \in Fcbs : f = fdtable[p][fd]
  BY DEF FcbInv, Dents
<1>2. PICK s : s = files[f].inode
  OBVIOUS
<1>3. /\ pc[p] = "user" /\ files[f].count > 0 /\ slot[s].dev = 1
      /\ Lock(p, s) /\ slot' = Loaded(slot, s) /\ slot'[s].mode = "dir"
      /\ Goto(p, "dents") /\ loc' = [loc EXCEPT ![p] = [NoLoc EXCEPT !.obj = s]]
      /\ UNCHANGED <<dnode, entries, files, fdtable, icwd, alive>>
  BY <1>1, <1>2 DEF Dents, diskVars, fileVars, procVars
<1>4. Sits(s) /\ s \in Slots
  BY <1>2, <1>3 DEF NameInv, FileInv, Sits
<1>5. /\ pc'[p] = "dents" /\ loc'[p] = [NoLoc EXCEPT !.obj = s]
      /\ \A q \in Procs \ {p} : pc'[q] = pc[q] /\ loc'[q] = loc[q]
  BY <1>0, <1>3 DEF Goto, LocalsOK
<1>6. loc'[p].obj = s /\ loc'[p].rest = <<>> /\ loc'[p].call.name = "none"
  BY <1>5 DEF NoLoc, NoCall
<1>7. IdleCall(p)'
  <2>1. pc'[p] \in OffPath \cup {"dents"}
    BY <1>5
  <2>2. loc'[p].rest \in Seq(DirNames)
    BY <1>6
  <2> QED BY <1>6, <2>1, <2>2 DEF IdleCall
<1>8. Tame(slot')
  BY <1>0, <1>3, <1>4, TameLoaded
<1>9. pc[p] \notin MayLock
  BY <1>3 DEF MayLock, InParent, Making
<1>10. OwnLocks(p) /\ CalmLocks(p)
  <2>1. Holds(p, s)'
    BY <1>5, <1>6 DEF Holds
  <2>2. \A t \in Slots : t = s \/ imtx[t] = p => Holds(p, t)'
    BY <1>9, <2>1, NoLocks DEF Holds, Eff
  <2> QED BY <1>3, <1>4, <2>2, LocksTake
<1>11. TameStep(p)
  BY <1>3, <1>5, <1>8, <1>10 DEF TameStep
<1>12. KeptSlot(p, s) /\ CalmDisk(p)
  <2>1. slot[s].count > 0
    BY <1>2, <1>3, <1>4, FileInUse
  <2> QED BY <1>0, <1>4, <1>11, <2>1, TameCalm DEF Calm
<1>13. IsDir(s)
  <2>1. slot[s].valid => slot[s].mode = "dir"
    BY <1>3 DEF Loaded
  <2>2. ~slot[s].valid => dnode[slot[s].no].mode = "dir"
    BY <1>0, <1>3, <1>4 DEF Loaded, TableOK
  <2> QED BY <1>4, <2>1, <2>2, SitsRead DEF IsDir
<1>14. Sizes(p)'
  <2>1. Sits(s)' /\ IsDir(s)'
    BY <1>4, <1>12, <1>13, SitsKept
  <2>2. OpenAt(p, fd, s)'
    BY <1>1, <1>2, <1>3 DEF OpenAt
  <2>3. imtx'[s] = p
    BY <1>3, <1>4 DEF Lock, NameInv, LockInv
  <2> QED BY <1>5, <1>6, <2>1, <2>2, <2>3 DEF Sizes, Sits, Settled, OpenAt, IsDir
<1>15. CallInv(p)' /\ NoNew(p) /\ NoNewLink(p)
  BY <1>7, IdleInv
<1> QED BY <1>3, <1>5, <1>10, <1>11, <1>14, <1>15, DentsNext

LEMMA NameDentsFault ==
  ASSUME FcbInv, TableInv, NameInv, NEW p \in Procs, DentsFault(p)
  PROVE  NameInv'
<1>0. TableOK(slot) /\ LockInv /\ CallInv(p) /\ Sizes(p)
  BY DEF TableInv, NameInv, SizeInv
<1>1. PICK t \in Programs : slot' = Loaded(slot, t)
  BY DEF DentsFault
<1>2. /\ pc[p] = "dents" /\ t \in Slots /\ slot[t].dev = 1
      /\ UNCHANGED <<imtx, dnode, entries, files, fdtable, icwd, alive, pc, loc>>
  BY DEF DentsFault, Programs, diskVars, fileVars, procVars
<1>3. OwnLocks(p)
  <2>1. \A s \in Slots : imtx[s] = p => Holds(p, s)
    BY <1>0, FilesAssumption DEF LockInv
  <2>2. \A s \in Slots : Holds(p, s)' <=> Holds(p, s)
    BY <1>2 DEF Holds, Eff
  <2> QED BY <1>0, <1>2, <2>1, <2>2 DEF OwnLocks, LockInv
<1>4. TameStep(p)
  BY <1>0, <1>1, <1>2, TameLoaded DEF TameStep, CalmLocks
<1>5. PICK s : s = loc[p].obj
  OBVIOUS
<1>6. PICK fd \in Fds : OpenAt(p, fd, s)
  BY <1>0, <1>2, <1>5 DEF Sizes
<1>7. Sits(s) /\ imtx[s] = p /\ IsDir(s) /\ s \in Slots
  BY <1>0, <1>2, <1>5 DEF Sizes, Sits
<1>8. KeptSlot(p, s) /\ CalmDisk(p)
  <2>1. fdtable[p][fd] \in Fcbs /\ slot[s].count > 0
    BY <1>6, <1>7, FileInUse DEF OpenAt
  <2> QED BY <1>4, <1>7, <2>1, TameCalm DEF Calm, NameInv
<1>9. Sizes(p)'
  <2>1. Sits(s)' /\ IsDir(s)'
    BY <1>7, <1>8, SitsKept
  <2>2. OpenAt(p, fd, s)'
    BY <1>2, <1>6 DEF OpenAt
  <2> QED BY <1>2, <1>5, <1>7, <2>1, <2>2 DEF Sizes, Sits, Settled, OpenAt, IsDir
<1>10. CallInv(p)' /\ NoNew(p) /\ NoNewLink(p)
  <2>1. Paths(p)' /\ Walks(p)'
    BY <1>0, <1>2 DEF CallInv, Paths, Walks, Making
  <2>2. Climbs(p)' /\ Makes(p)' /\ Dies(p)'
    BY <1>2 DEF Climbs, Makes, Dies, Eff, Making, InParent
  <2>3. Relinks(p)'
    BY <1>0, <1>2 DEF CallInv, Relinks
  <2>4. NoNew(p) /\ NoNewLink(p)
    BY <1>2 DEF NoNew, NoNewLink, IsLinking, Making
  <2> QED BY <2>1, <2>2, <2>3, <2>4 DEF CallInv
<1> QED BY <1>2, <1>3, <1>4, <1>9, <1>10, DentsNext

LEMMA NameDentsEnd ==
  ASSUME FcbInv, TableInv, NameInv, NEW p \in Procs, DentsEnd(p)
  PROVE  NameInv'
<1>0. LocalsOK /\ LockInv /\ Sizes(p)
  BY DEF TableInv, NameInv, SizeInv
<1>1. PICK s : s = loc[p].obj
  OBVIOUS
<1>2. /\ pc[p] = "dents" /\ imtx' = Unlocked(s) /\ Return(p) /\ slot' = slot
      /\ UNCHANGED <<dnode, entries, files, fdtable, icwd, alive>>
  BY <1>1 DEF DentsEnd, diskVars, fileVars, procVars
<1>3. s \in Slots /\ imtx[s] = p
  BY <1>0, <1>1, <1>2 DEF Sizes, Sits
<1>4. \A t \in Slots \ {s} : imtx[t] # p
  <2>1. \A t \in Slots : imtx[t] = p => Holds(p, t)
    BY <1>0, FilesAssumption DEF LockInv
  <2> QED BY <1>1, <1>2, <2>1 DEF Holds, Eff, InParent, Making
<1>5. OwnLocks(p) /\ CalmLocks(p)
  BY <1>2, <1>3, <1>4, LocksDrop
<1>6. /\ IdleCall(p)' /\ pc'[p] = "user"
      /\ \A q \in Procs \ {p} : pc'[q] = pc[q] /\ loc'[q] = loc[q]
  BY <1>0, <1>2, ReturnIdle
<1>7. TameStep(p)
  BY <1>2, <1>5, <1>6, TameSlot DEF TameStep
<1> QED BY <1>2, <1>5, <1>6, <1>7, IdleNext

(* The last descriptor of an fcb is the only one.                          *)
LEMMA LastUser ==
  ASSUME FcbInv, NEW p \in Procs, NEW fd \in Fds, NEW f \in Fcbs, fdtable[p][fd] = f,
         files[f].count = 1, NEW q \in Procs, NEW d \in Fds, fdtable[q][d] = f
  PROVE  q = p /\ d = fd
<1>1. <<p, fd>> \in UsersOf(f) /\ <<q, d>> \in UsersOf(f)
  BY DEF UsersOf
<1>2. Cardinality(UsersOf(f)) = 1
  BY DEF FcbInv, FcbState
<1>3. IsFiniteSet(UsersOf(f))
  <2>1. IsFiniteSet(Fds) /\ IsFiniteSet(Procs)
    BY FilesAssumption, FS_Interval DEF Fds
  <2>2. IsFiniteSet(Procs \X Fds)
    BY <2>1, FS_Product
  <2>3. UsersOf(f) \subseteq Procs \X Fds
    BY DEF UsersOf
  <2> QED BY <2>2, <2>3, FS_Subset
<1>4. PICK x : UsersOf(f) = {x}
  BY <1>2, <1>3, FS_Singleton
<1>5. <<p, fd>> = <<q, d>>
  BY <1>1, <1>4
<1> QED BY <1>5

(* file_close() of a descriptor, on the way to l.                          *)
LEMMA NameClose ==
  ASSUME FcbInv, TableInv, NameInv, NEW p \in Procs, NEW fd \in Fds, NEW l,
         FileClose(p, fd, l), fdtable[p][fd] # -1, pc[p] \in OffPath \ {"gone"},
         l \in OffPath \ {"size", "dents"}, loc[p].call.name \notin {"link", "link2"}
  PROVE  NameInv'
<1>0. LocalsOK /\ TableOK(slot) /\ FilesOK /\ Paths(p)
  BY DEF TableInv, NameInv, CallInv
<1>1. PICK f \in Fcbs : f = fdtable[p][fd]
  BY DEF FcbInv
<1>2. CASE files[f].count = 0
  BY <1>1, <1>2, NamePanic DEF FileClose
<1>3. CASE files[f].count # 0
  <2>1. /\ files' = [files EXCEPT ![f].count = @ - 1]
        /\ UNCHANGED <<dnode, entries, icwd, alive>>
    BY <1>1, <1>3 DEF FileClose, diskVars
  <2>2. /\ files[f].count \in Nat /\ files'[f].count = files[f].count - 1
        /\ files'[f].inode = files[f].inode
        /\ \A g \in Fcbs \ {f} : files'[g] = files[g]
    BY <1>0, <2>1 DEF FilesOK
  <2>3. CASE files[f].count > 1
    <3>1. Gave(p, fd, -1) /\ Goto(p, l) /\ slot' = slot /\ imtx' = imtx /\ loc' = loc
      BY <1>1, <1>3, <2>3 DEF FileClose
    <3>2. pc'[p] = l /\ \A q \in Procs \ {p} : pc'[q] = pc[q] /\ loc'[q] = loc[q]
      BY <1>0, <3>1 DEF Goto, LocalsOK
    <3>3. IdleCall(p)'
      BY <1>0, <3>1, <3>2 DEF IdleCall, Paths
    <3>4. \A q \in Procs \ {p} : fdtable'[q] = fdtable[q]
      BY <3>1 DEF Gave, FcbInv
    <3>5. /\ \A g \in Fcbs : files'[g].count > 0 =>
                files[g].count > 0 /\ files'[g].inode = files[g].inode
          /\ \A g \in Fcbs : files[g].count > 0 => files'[g].count > 0
      BY <2>2, <2>3
    <3>6. FdCalm(p)
      BY <2>1, <3>4, <3>5 DEF FdCalm
    <3> QED BY <2>1, <3>1, <3>2, <3>3, <3>6, QuietNext
  <2>4. CASE files[f].count = 1
    <3> DEFINE s == files[f].inode
    <3>1. PICK k : k = [loc[p] EXCEPT !.fd = fd]
      OBVIOUS
    <3>2. k.rest = loc[p].rest /\ k.call = loc[p].call
      BY <1>0, <3>1 DEF LocalsOK, LocFields
    <3>3. ClosePut(p, fd, "ffree") /\ fdtable' = fdtable
      BY <1>1, <1>3, <2>4 DEF FileClose
    <3>4. s \in Slots /\ (Sits(s) \/ (slot[s].dev = 0 /\ slot[s].mode = "fifo"))
          /\ slot[s].count > 0
      <4>1. s \in Slots /\ (Sits(s) \/ (slot[s].dev = 0 /\ slot[s].mode = "fifo"))
        BY <2>4 DEF NameInv, FileInv, Sits
      <4> QED BY <2>4, <4>1, FileInUse
    <3>5. \/ Put(p, slot, imtx, s, k, "ffree") /\ slot[s].mode \in {"reg", "dir"}
          \/ /\ slot' = Less(slot, s) \/ slot' = slot
             /\ Goto(p, "ffree") /\ loc' = [loc EXCEPT ![p] = k] /\ imtx' = imtx
      <4>1. CASE slot[s].mode \in {"reg", "dir"}
        BY <1>1, <3>1, <3>3, <4>1 DEF ClosePut
      <4>2. CASE slot[s].mode = "fifo"
        BY <1>1, <3>1, <3>3, <4>2 DEF ClosePut, Less
      <4>3. CASE slot[s].mode \notin {"reg", "dir", "fifo"}
        BY <1>1, <3>1, <3>3, <4>3 DEF ClosePut
      <4> QED BY <4>1, <4>2, <4>3
    <3>6. /\ Tame(slot') /\ imtx' = imtx /\ pc'[p] = "ffree" /\ loc'[p] = k
          /\ \A q \in Procs \ {p} : pc'[q] = pc[q] /\ loc'[q] = loc[q]
      <4>1. CASE Put(p, slot, imtx, s, k, "ffree") /\ slot[s].mode \in {"reg", "dir"}
        <5>1. PICK t : t = s
          OBVIOUS
        <5>2. /\ Put(p, slot, imtx, t, k, "ffree") /\ TableOK(slot) /\ Tame(slot)
              /\ Sits(t) /\ slot[t].count > 0
          BY <1>0, <3>4, <4>1, <5>1, TameSlot
        <5> QED BY <5>2, TamePut
      <4>2. CASE /\ slot' = Less(slot, s) \/ slot' = slot
                 /\ Goto(p, "ffree") /\ loc' = [loc EXCEPT ![p] = k] /\ imtx' = imtx
        <5>1. Tame(slot')
          BY <1>0, <4>2, TameSlot, TameLess
        <5> QED BY <1>0, <4>2, <5>1 DEF Goto, LocalsOK
      <4> QED BY <3>5, <4>1, <4>2
    <3> HIDE DEF s
    <3>7. pc[p] \notin MayLock /\ pc[p] # "cnew"
      BY DEF MayLock, InParent, Making, OffPath
    <3>8. OwnLocks(p) /\ TameStep(p)
      BY <2>1, <3>6, <3>7, LocksStay DEF TameStep
    <3>9. IdleCall(p)' /\ pc'[p] \notin {"size", "dents"}
      BY <1>0, <3>2, <3>6 DEF IdleCall, Paths, OffPath
    <3>10. \A g \in Fcbs : files'[g].count > 0 =>
                files[g].count > 0 /\ files'[g].inode = files[g].inode
      BY <2>2, <2>4
    <3>11. ASSUME NEW q \in Procs \ {p}, NEW d \in Fds, NEW g, g = fdtable[q][d],
                  g \in Fcbs, files[g].count > 0
           PROVE  files'[g].count > 0
      <4>1. g # f
        BY <1>1, <2>4, <3>11, LastUser
      <4> QED BY <2>2, <3>11, <4>1
    <3>12. FdCalm(p)
      BY <2>1, <3>3, <3>10, <3>11 DEF FdCalm
    <3> QED BY <3>7, <3>8, <3>9, <3>12, FdNext
  <2> QED BY <2>2, <2>3, <2>4, <1>3
<1> QED BY <1>2, <1>3

(* close(), the closes of dup2() and of exit(), and do_dupfd().            *)
LEMMA NameCloses ==
  ASSUME FcbInv, TableInv, NameInv, NEW p \in Procs,
         \/ Dup2Close(p) \/ ExitClose(p) \/ DupFd(p)
         \/ \E fd \in Fds : Close(p, fd)
  PROVE  NameInv'
<1>0. LocalsOK /\ FilesOK /\ Paths(p) /\ Control(p)
      /\ fdtable \in [Procs -> [Fds -> Fcbs \cup {-1}]]
  BY DEF TableInv, NameInv, CallInv, FcbInv
<1>1. ASSUME NEW fd \in Fds, Close(p, fd) PROVE NameInv'
  <2>1. /\ FileClose(p, fd, "user") /\ fdtable[p][fd] # -1 /\ pc[p] = "user"
        /\ {"user"} \subseteq OffPath \ {"gone", "size", "dents"}
    BY <1>1 DEF Close, OffPath
  <2>2. loc[p].call.name = "none"
    BY <1>0, <2>1 DEF Control, Eff
  <2> QED BY <2>1, <2>2, NameClose
<1>2. CASE Dup2Close(p)
  <2>1. PICK new : new = loc[p].call.new
    OBVIOUS
  <2>2. pc[p] = "dup2" /\ loc[p].call.name = "dup2" /\ new \in Fds
    BY <1>0, <1>2, <2>1 DEF Dup2Close, Control, Eff, DupArgs
  <2>3. {"dup2", "dupfd"} \subseteq OffPath \ {"gone", "size", "dents"}
    BY DEF OffPath
  <2>4. CASE fdtable[p][new] = -1
    <3>1. /\ Goto(p, "dupfd") /\ loc' = loc
          /\ UNCHANGED <<slot, imtx, dnode, entries, files, fdtable, alive, icwd>>
      BY <1>2, <2>1, <2>4 DEF Dup2Close, tableVars, diskVars, fileVars, procVars
    <3>2. pc'[p] = "dupfd" /\ \A q \in Procs \ {p} : pc'[q] = pc[q] /\ loc'[q] = loc[q]
      BY <1>0, <3>1 DEF Goto, LocalsOK
    <3>3. IdleCall(p)'
      BY <1>0, <2>2, <2>3, <3>1, <3>2 DEF IdleCall, Paths
    <3>4. FdCalm(p)
      BY <2>2, <3>1 DEF FdCalm
    <3> QED BY <2>2, <2>3, <3>1, <3>2, <3>3, <3>4, QuietNext
  <2>5. CASE fdtable[p][new] # -1
    <3>1. FileClose(p, new, "dupfd")
      BY <1>2, <2>1, <2>5 DEF Dup2Close
    <3> QED BY <2>2, <2>3, <2>5, <3>1, NameClose
  <2> QED BY <2>4, <2>5
<1>3. CASE ExitClose(p)
  <2>1. PICK fd : fd = Lowest(Fds \ FreeFds(p))
    OBVIOUS
  <2>2. pc[p] = "exit" /\ FileClose(p, fd, "exit") /\ Fds \ FreeFds(p) # {}
    BY <1>3, <2>1 DEF ExitClose
  <2>3. fd \in Fds /\ fdtable[p][fd] # -1
    <3>1. fd \in Fds \ FreeFds(p)
      BY <2>1, <2>2, LowestFd
    <3> QED BY <3>1 DEF FreeFds
  <2>4. loc[p].call.name = "exit" /\ "exit" \in OffPath \ {"gone", "size", "dents"}
    BY <1>0, <2>2 DEF Control, Eff, OffPath
  <2> QED BY <2>2, <2>3, <2>4, NameClose
<1>4. CASE DupFd(p)
  <2>1. CASE Panic
    BY <2>1, NamePanic
  <2>2. CASE ~Panic
    <3> DEFINE c == loc[p].call
               f == fdtable[p][c.old]
               free == {fd \in FreeFds(p) : fd >= c.new}
    <3>1. pc[p] = "dupfd" /\ c.old \in Fds
      <4>1. pc[p] = "dupfd"
        BY Zenon, <1>4 DEF DupFd
      <4>2. c.name \in {"dup", "dup2"}
        BY <1>0, <4>1 DEF Control, Eff
      <4> QED BY <1>0, <4>1, <4>2 DEF Control, DupArgs
    <3>2. /\ \/ UNCHANGED <<fdtable, files>>
             \/ /\ f # -1 /\ files[f].count # 0 /\ Gave(p, Lowest(free), f)
                /\ files' = [files EXCEPT ![f].count = @ + 1]
          /\ Return(p) /\ UNCHANGED <<slot, imtx, dnode, entries, alive, icwd>>
      <4>1. /\ IF free = {} \/ f = -1 THEN UNCHANGED <<fdtable, files>>
               ELSE /\ Gave(p, Lowest(free), f)
                    /\ files' = [files EXCEPT ![f].count = @ + 1]
            /\ Return(p) /\ UNCHANGED <<tableVars, diskVars, alive, icwd>>
            /\ ~(free # {} /\ f # -1 /\ files[f].count = 0)
        BY Zenon, <1>4, <2>2 DEF DupFd
      <4> HIDE DEF free, f
      <4> QED BY <4>1 DEF tableVars, diskVars
    <3>3. f \in Fcbs \cup {-1}
      BY <1>0, <3>1
    <3> HIDE DEF free, f, c
    <3>4. \A q \in Procs \ {p} : fdtable'[q] = fdtable[q]
      BY <1>0, <3>2 DEF Gave
    <3>5. \A g \in Fcbs : /\ files'[g].count > 0 <=> files[g].count > 0
                          /\ files'[g].inode = files[g].inode
      BY <1>0, <3>2, <3>3 DEF FilesOK
    <3>6. FdCalm(p)
      BY <3>1, <3>2, <3>4, <3>5 DEF FdCalm
    <3>7. /\ IdleCall(p)' /\ pc'[p] = "user"
          /\ \A q \in Procs \ {p} : pc'[q] = pc[q] /\ loc'[q] = loc[q]
      BY <1>0, <3>2, ReturnIdle
    <3> QED BY <3>1, <3>2, <3>6, <3>7, QuietNext DEF OffPath
  <2> QED BY <2>1, <2>2
<1> QED BY <1>1, <1>2, <1>3, <1>4

(* open() gives its reference to an fcb that nobody had.                   *)
LEMMA NameOpen ==
  ASSUME FcbInv, TableInv, NameInv, NEW p \in Procs, Open(p)
  PROVE  NameInv'
<1>0. LocalsOK /\ FilesOK /\ Control(p)
      /\ fdtable \in [Procs -> [Fds -> Fcbs \cup {-1}]] /\ idle \in Seq(Fcbs)
  BY DEF TableInv, FcbInv
<1>1. PICK s, f, fd : s = loc[p].cur /\ f = Head(idle) /\ fd = Lowest(FreeFds(p))
  OBVIOUS
<1>2. PICK k : k = [NoLoc EXCEPT !.obj = IF loc[p].call.sized THEN s ELSE None]
  OBVIOUS
<1>3. /\ pc[p] = "found" /\ loc[p].call.name = "open" /\ idle # <<>>
      /\ fdtable' = [fdtable EXCEPT ![p][fd] = f]
      /\ files' = [files EXCEPT ![f] = [count |-> @.count + 1, inode |-> s]]
      /\ Goto(p, IF loc[p].call.sized THEN "size" ELSE "user")
      /\ loc' = [loc EXCEPT ![p] = k]
      /\ UNCHANGED <<slot, imtx, dnode, entries, alive, icwd>>
  BY <1>1, <1>2 DEF Open, Is, Gave, tableVars, diskVars
<1>4. /\ pc'[p] = (IF loc[p].call.sized THEN "size" ELSE "user") /\ loc'[p] = k
      /\ \A q \in Procs \ {p} : pc'[q] = pc[q] /\ loc'[q] = loc[q]
  BY <1>0, <1>3 DEF Goto, LocalsOK
<1>5. k.rest = <<>> /\ k.call = NoCall /\ (loc[p].call.sized => k.obj = s)
  BY <1>2 DEF NoLoc
<1>6. fd \in Fds
  <2>1. FreeFds(p) # {}
    BY <1>0, <1>3 DEF Control
  <2>2. FreeFds(p) \in SUBSET Fds
    BY DEF FreeFds
  <2>3. fd \in FreeFds(p)
    BY <1>1, <2>1, <2>2, LowestFd
  <2> QED BY <2>3 DEF FreeFds
<1>7. /\ fdtable'[p][fd] = f /\ \A q \in Procs \ {p} : fdtable'[q] = fdtable[q]
  BY <1>0, <1>3, <1>6
<1>8. f \in Fcbs /\ files[f].count = 0
  <2>1. f \in Fcbs /\ IsIdle(f)
    BY <1>0, <1>1, <1>3 DEF IsIdle
  <2> QED BY <2>1, IdleUnused
<1>9. /\ files'[f].count = 1 /\ files'[f].inode = s
      /\ \A g \in Fcbs \ {f} : files'[g] = files[g]
  BY <1>0, <1>3, <1>8 DEF FilesOK
<1>10. Sits(s) /\ s \in Slots
  BY <1>1, <1>3, AtCur
<1>11. OwnLocks(p) /\ TameStep(p)
  <2>1. pc[p] \notin MayLock
    BY <1>3 DEF MayLock, InParent, Making
  <2>2. Tame(slot')
    BY <1>3, TameSlot DEF Tame
  <2> QED BY <1>3, <1>4, <2>1, <2>2, LocksStay DEF TameStep
<1>12. Calm(p)
  BY <1>11, TameCalm DEF NameInv
<1>13. IdleCall(p)' /\ pc'[p] # "cnew"
  BY <1>4, <1>5 DEF IdleCall, OffPath, NoCall
<1>14. CallInv(p)' /\ NoNew(p) /\ NoNewLink(p)
  BY <1>13, IdleInv
<1>15. HomeInv'
  BY <1>3, <1>12, HomeStays
<1>16. Sits(s)'
  BY <1>3, <1>10 DEF Sits, Settled
<1>17. FileInv'
  <2>1. ASSUME NEW g \in Fcbs \ {f}, files'[g].count > 0, NEW t, t = files[g].inode
        PROVE  Sits(t)' \/ (t \in Slots /\ slot'[t].dev = 0 /\ slot'[t].mode = "fifo")
    <3>1. Sits(t) \/ (t \in Slots /\ slot[t].dev = 0 /\ slot[t].mode = "fifo")
      BY <1>9, <2>1 DEF NameInv, FileInv
    <3> QED BY <1>3, <3>1 DEF Sits, Settled
  <2> QED BY <1>9, <1>16, <2>1 DEF FileInv, Sits
<1>18. ASSUME NEW q \in Procs PROVE Sizes(q)'
  <2>1. CASE q = p
    <3>1. pc'[p] # "dents" /\ (pc'[p] = "size" => loc'[p].obj = s)
      BY <1>4, <1>5
    <3>2. OpenAt(p, fd, s)'
      BY <1>7, <1>8, <1>9 DEF OpenAt
    <3>3. pc'[p] = "size" => Sits(loc[p].obj)' /\ OpenAt(p, fd, loc[p].obj)'
      BY <1>16, <3>1, <3>2 DEF Sits, OpenAt
    <3> QED BY <1>6, <2>1, <3>1, <3>3 DEF Sizes
  <2>2. CASE q # p
    <3>1. \A d \in Fds, t \in Slots : OpenAt(q, d, t) => OpenAt(q, d, t)'
      BY <1>7, <1>8, <1>9, <2>2 DEF OpenAt
    <3> QED BY <1>12, <2>2, <3>1, SizesStay
  <2> QED BY <2>1, <2>2
<1>19. SizeInv'
  BY <1>18 DEF SizeInv
<1>20. pc[p] # "cnew"
  BY <1>3
<1> QED BY <1>11, <1>13, <1>14, <1>15, <1>17, <1>19, <1>20, TameNext

(* pipe() takes a slot that nobody uses for its two files.                 *)
LEMMA NamePipe ==
  ASSUME FcbInv, TableInv, NameInv, NEW p \in Procs, PipeInode(p)
  PROVE  NameInv'
<1>0. LocalsOK /\ FilesOK /\ Control(p) /\ TableOK(slot) /\ InSlotInv
  BY DEF TableInv, FcbInv, NameInv
<1>1. PICK s, f, g : /\ s = Lowest(Free) /\ f = fdtable[p][loc[p].fd]
                     /\ g = fdtable[p][loc[p].no]
  OBVIOUS
<1>2. /\ pc[p] = "pipe3" /\ Free # {} /\ Return(p)
      /\ slot' = [slot EXCEPT ![s] = [@ EXCEPT !.dev = 0, !.count = 2, !.mode = "fifo"]]
      /\ files' = [files EXCEPT ![f] = [count |-> @.count + 1, inode |-> s],
                                ![g] = [count |-> @.count + 1, inode |-> s]]
      /\ UNCHANGED <<imtx, dnode, entries, fdtable, alive, icwd>>
  BY <1>1 DEF PipeInode, diskVars, procVars
<1>3. s \in Slots /\ slot[s].count = 0
  <2>1. Free \subseteq Slots
    BY DEF Free
  <2>2. \E x \in Free : \A y \in Free : x <= y
    BY <1>2, <2>1, LowestExists, FilesAssumption DEF Slots
  <2>3. s \in Free
    BY <1>1, <2>2 DEF Lowest
  <2> QED BY <2>3 DEF Free
<1>4. f \in Fcbs /\ g \in Fcbs /\ files[f].count = 0 /\ files[g].count = 0
  BY <1>0, <1>1, <1>2 DEF Control, Eff, Bare
<1>5. /\ files'[f].inode = s /\ files'[g].inode = s
      /\ \A h \in Fcbs \ {f, g} : files'[h] = files[h]
  BY <1>0, <1>2, <1>4 DEF FilesOK
<1>6. /\ slot'[s].dev = 0 /\ slot'[s].mode = "fifo" /\ slot'[s].valid = slot[s].valid
      /\ \A t \in Slots \ {s} : slot'[t] = slot[t]
  BY <1>0, <1>2, <1>3 DEF TableOK, SlotFields
<1>7. Tame(slot')
  <2>1. TakenSlot(slot[s], slot'[s])
    BY <1>0, <1>3, <1>6 DEF TakenSlot, InSlotInv
  <2> QED BY <1>6, <2>1 DEF Tame, SameSlot
<1>8. /\ IdleCall(p)' /\ pc'[p] = "user"
      /\ \A q \in Procs \ {p} : pc'[q] = pc[q] /\ loc'[q] = loc[q]
  BY <1>0, <1>2, ReturnIdle
<1>9. OwnLocks(p) /\ TameStep(p)
  <2>1. pc[p] \notin MayLock
    BY <1>2 DEF MayLock, InParent, Making
  <2> QED BY <1>2, <1>7, <1>8, <2>1, LocksStay DEF TameStep
<1>10. Calm(p)
  BY <1>9, TameCalm DEF NameInv
<1>11. CallInv(p)' /\ NoNew(p) /\ NoNewLink(p)
  BY <1>8, IdleInv
<1>12. HomeInv'
  BY <1>2, <1>10, HomeStays
<1>13. FileInv'
  <2> SUFFICES ASSUME NEW h \in Fcbs, files'[h].count > 0, NEW t, t = files'[h].inode
               PROVE  Sits(t)' \/ (t \in Slots /\ slot'[t].dev = 0 /\ slot'[t].mode = "fifo")
    BY DEF FileInv, Sits
  <2>1. CASE h \in {f, g}
    BY <1>3, <1>5, <1>6, <2>1
  <2>2. CASE h \notin {f, g}
    <3>1. files[h].count > 0 /\ files[h].inode = t
      BY <1>5, <2>2
    <3>2. Sits(t) \/ (t \in Slots /\ slot[t].dev = 0 /\ slot[t].mode = "fifo")
      BY <3>1 DEF NameInv, FileInv
    <3>3. t \in Slots
      BY <3>2 DEF Sits
    <3>4. KeptSlot(p, t)
      BY <1>10, <3>1, <3>3, FileInUse DEF Calm
    <3>5. Sits(t) => Sits(t)'
      BY <1>10, <3>3, <3>4, SitsKept DEF Calm
    <3> QED BY <3>2, <3>4, <3>5 DEF KeptSlot
  <2> QED BY <2>1, <2>2
<1>14. ASSUME NEW q \in Procs PROVE Sizes(q)'
  <2>1. CASE q = p
    BY <1>8, <2>1 DEF Sizes
  <2>2. CASE q # p
    <3>1. ASSUME NEW d \in Fds, NEW t \in Slots, OpenAt(q, d, t) PROVE OpenAt(q, d, t)'
      <4>1. PICK h \in Fcbs : h = fdtable[q][d]
        BY <3>1 DEF OpenAt
      <4>2. files[h].count > 0 /\ files[h].inode = t
        BY <3>1, <4>1 DEF OpenAt
      <4>3. files'[h] = files[h]
        BY <1>4, <1>5, <4>2
      <4> QED BY <1>2, <4>1, <4>2, <4>3 DEF OpenAt
    <3> QED BY <1>10, <2>2, <3>1, SizesStay
  <2> QED BY <2>1, <2>2
<1>15. SizeInv'
  BY <1>14 DEF SizeInv
<1>16. pc[p] # "cnew" /\ pc'[p] # "cnew"
  BY <1>2, <1>8
<1> QED BY <1>9, <1>11, <1>12, <1>13, <1>15, <1>16, TameNext

(* A child starts in the directory of its parent, with its files.          *)
LEMMA NameFork ==
  ASSUME FcbInv, TableInv, NameInv, NEW p \in Procs, NEW q \in Procs, Fork(p, q)
  PROVE  NameInv'
<1>0. /\ LocalsOK /\ FilesOK /\ Control(p) /\ Control(q) /\ TableOK(slot) /\ Paths(p)
      /\ fdtable \in [Procs -> [Fds -> Fcbs \cup {-1}]] /\ Home(p)
  BY DEF TableInv, FcbInv, NameInv, HomeInv, CallInv
<1>1. CASE Panic
  BY <1>1, NamePanic
<1>2. CASE ~Panic
  <2>1. PICK s : s = icwd[p]
    OBVIOUS
  <2>2. /\ pc[p] = "user" /\ p \in alive /\ q \notin alive
        /\ \A fd \in Fds : fdtable[p][fd] # -1 => files[fdtable[p][fd]].count # 0
        /\ alive' = alive \cup {q}
        /\ fdtable' = [fdtable EXCEPT ![q] = fdtable[p]]
        /\ files' = [f \in Fcbs |-> [files[f] EXCEPT !.count = @ + UsesOf(p, f)]]
        /\ slot' = [slot EXCEPT ![s].count = @ + 1]
        /\ icwd' = [icwd EXCEPT ![q] = s]
        /\ UNCHANGED <<imtx, dnode, entries, pc, loc>>
    BY <1>2, <2>1 DEF Fork, Awake, diskVars
  <2>3. p # q /\ FreeFds(q) = Fds
    BY <1>0, <2>2 DEF Control
  <2>4. s # None /\ s \in Slots /\ Sits(s) /\ slot[s].count > 0
    <3>1. s # None /\ Sits(s) /\ s \in Slots
      BY <1>0, <2>1, <2>2 DEF Home, Sits
    <3> QED BY <2>1, <3>1, CwdInUse
  <2>5. ForkChange(p)
    BY <1>0, <2>2, <2>3, ForkUsers
  <2>6. ASSUME NEW f \in Fcbs
        PROVE  /\ files'[f].inode = files[f].inode
               /\ files'[f].count > 0 <=> files[f].count > 0
    <3>1. /\ UsesOf(p, f) \in Nat
          /\ UsesOf(p, f) # 0 => \E fd \in Fds : fdtable[p][fd] = f
      BY <2>5 DEF ForkChange
    <3>2. UsesOf(p, f) # 0 => files[f].count # 0
      <4> SUFFICES ASSUME NEW fd \in Fds, fdtable[p][fd] = f PROVE files[f].count # 0
        BY <3>1
      <4>1. f # -1
        BY FilesAssumption DEF Fcbs
      <4> QED BY <2>2, <4>1
    <3>3. files[f].count \in Nat /\ DOMAIN files[f] = {"count", "inode"}
      BY <1>0 DEF FilesOK
    <3>4. files'[f].count = files[f].count + UsesOf(p, f) /\ files'[f].inode = files[f].inode
      BY <2>2, <3>3
    <3> QED BY <3>1, <3>2, <3>3, <3>4
  <2>7. Tame(slot')
    BY <1>0, <2>2, <2>4, TameMore
  <2>8. OwnLocks(p) /\ TameStep(p)
    <3>1. pc[p] \notin MayLock
      BY <2>2 DEF MayLock, InParent, Making
    <3> QED BY <2>2, <2>7, <3>1, LocksStay DEF TameStep
  <2>9. Calm(p)
    BY <2>8, TameCalm DEF NameInv
  <2>10. IdleCall(p)'
    BY <1>0, <2>2 DEF IdleCall, OffPath, Paths, Control, Eff
  <2>11. CallInv(p)' /\ NoNew(p) /\ NoNewLink(p)
    BY <2>10, IdleInv
  <2>12. ASSUME NEW r \in Procs PROVE Home(r)'
    <3>1. CASE r \in {p, q}
      <4>1. Sits(s)'
        BY <2>4, <2>9, SitsKept DEF Calm
      <4>2. icwd'[r] = s
        BY <1>0, <2>1, <2>2, <3>1 DEF LocalsOK
      <4> QED BY <2>4, <4>1, <4>2 DEF Home, Sits
    <3>2. CASE r \notin {p, q}
      <4>1. icwd'[r] = icwd[r] /\ (r \in alive' => r \in alive)
        BY <1>0, <2>2, <3>2 DEF LocalsOK
      <4> QED BY <2>9, <3>2, <4>1, HomeKept
    <3> QED BY <3>1, <3>2
  <2>13. FileInv'
    BY <2>6, <2>9, FilesStay
  <2>14. ASSUME NEW r \in Procs PROVE Sizes(r)'
    <3>1. CASE r = p
      BY <2>2, <3>1 DEF Sizes
    <3>2. CASE r # p
      <4>1. ASSUME NEW d \in Fds, NEW t \in Slots, OpenAt(r, d, t)
            PROVE  OpenAt(r, d, t)'
        <5>1. PICK f \in Fcbs : f = fdtable[r][d]
          BY <4>1 DEF OpenAt
        <5>2. r # q
          BY <2>3, <5>1, FilesAssumption DEF FreeFds, Fcbs
        <5>3. fdtable'[r][d] = f
          BY <1>0, <2>2, <5>1, <5>2
        <5> QED BY <2>6, <4>1, <5>1, <5>3 DEF OpenAt
      <4> QED BY <2>9, <3>2, <4>1, SizesStay
    <3> QED BY <3>1, <3>2
  <2>15. HomeInv' /\ SizeInv'
    BY <2>12, <2>14 DEF HomeInv, SizeInv
  <2>16. pc[p] # "cnew" /\ pc'[p] # "cnew"
    BY <2>2
  <2> QED BY <2>8, <2>11, <2>13, <2>15, <2>16, TameNext
<1> QED BY <1>1, <1>2

(* Enough for a step of p that writes the disk.                            *)
LEMMA DiskNext ==
  ASSUME NameInv, TableInv, NEW p \in Procs, Calm(p), OwnLocks(p), PairInv', TreeInv',
         LinksInv', InSlotInv', CallInv(p)', UNCHANGED <<files, fdtable, icwd, alive>>,
         pc[p] # "gone", pc'[p] \notin {"size", "dents"}
  PROVE  NameInv'
<1>1. HomeInv'
  BY HomeStays
<1>2. FileInv'
  BY FilesStay
<1>3. ASSUME NEW q \in Procs PROVE Sizes(q)'
  <2>1. CASE q = p
    BY <2>1 DEF Sizes
  <2>2. CASE q # p
    BY <2>2, SizesStay DEF OpenAt
  <2> QED BY <2>1, <2>2
<1>4. SizeInv'
  BY <1>3 DEF SizeInv
<1>5. LockInv'
  BY LockKept DEF NameInv
<1>6. ASSUME NEW q \in Procs PROVE CallInv(q)'
  <2>1. CASE q = p
    BY <2>1 DEF CallInv, Paths, Walks, Climbs, Relinks, Makes, Dies
  <2>2. CASE q # p
    BY <2>2, OthersWalk, OthersMake DEF CallInv
  <2> QED BY <2>1, <2>2
<1> QED BY <1>1, <1>2, <1>4, <1>5, <1>6 DEF NameInv

(* The links promised to n change by those of p.                           *)
LEMMA LinkingCount ==
  ASSUME NameInv, TableInv, NEW p \in Procs, Calm(p), NEW n \in Inos,
         NEW a, a = (IF p \in Linking(n) THEN 1 ELSE 0),
         NEW b, b = (IF p \in Linking(n)' THEN 1 ELSE 0)
  PROVE  /\ Cardinality(Linking(n)) \in Nat /\ Cardinality(Linking(n)') \in Nat
         /\ Cardinality(Linking(n)') <= Cardinality(Linking(n)) - a + b
<1>1. ASSUME NEW q \in Procs \ {p}, q \in Linking(n)' PROVE q \in Linking(n)
  <2>1. IsLinking(q) /\ loc'[q].obj = loc[q].obj
    BY <1>1 DEF Calm, Linking, IsLinking
  <2>2. PICK s : s = loc[q].obj
    OBVIOUS
  <2>3. Sits(s) /\ s \in Slots /\ pc[q] \notin {"size", "dents"}
    BY <2>1, <2>2 DEF NameInv, CallInv, Relinks, IsLinking, Sits
  <2>4. KeptSlot(p, s)
    BY <2>2, <2>3, VarInUse DEF Calm, RefVars
  <2>5. slot'[s].no = n
    BY <1>1, <2>1, <2>2 DEF Linking
  <2> QED BY <2>1, <2>2, <2>4, <2>5 DEF Linking, IsLinking, KeptSlot
<1>2. PICK A, B : A = Linking(n) /\ B = Linking(n)'
  OBVIOUS
<1>3. A \subseteq Procs /\ B \subseteq Procs /\ B \ {p} \subseteq A \ {p}
  BY <1>1, <1>2 DEF Linking
<1>4. IsFiniteSet(A) /\ IsFiniteSet(B)
  BY <1>3, FilesAssumption, FS_Subset
<1>5. /\ IsFiniteSet(A \ {p}) /\ IsFiniteSet(B \ {p})
      /\ Cardinality(A) \in Nat /\ Cardinality(B) \in Nat
      /\ Cardinality(A \ {p}) = Cardinality(A) - (IF p \in A THEN 1 ELSE 0)
      /\ Cardinality(B \ {p}) = Cardinality(B) - (IF p \in B THEN 1 ELSE 0)
  BY <1>4, FS_RemoveElement, FS_CardinalityType
<1>6. Cardinality(B \ {p}) <= Cardinality(A \ {p})
  BY <1>3, <1>5, FS_Subset
<1> QED BY <1>2, <1>5, <1>6

(* The inode of slot s is in no other slot.                                *)
LEMMA OnlySlot ==
  ASSUME TableInv, NEW s \in Slots, slot[s].dev = 1, NEW n, slot[s].no = n
  PROVE  \A t \in Slots : slot[t].dev = 1 /\ slot[t].no = n => t = s
BY DEF TableInv, OneSlotPerInode

(* A name that a directory does not have is not "." or "..".               *)
LEMMA NewName ==
  ASSUME NameInv, NEW s, Sits(s), IsDir(s), NEW m \in DirNames, Entry(s, m) = 0
  PROVE  m \in Names
<1>1. PICK d \in Inos : d = slot[s].no
  BY DEF Sits
<1>2. Settled(d) /\ dnode[d].mode = "dir" /\ d # 0
  BY <1>1, FilesAssumption DEF Sits, IsDir, Inos
<1>3. entries[d]["."] = d /\ entries[d][".."] # 0
  BY <1>2 DEF NameInv, TreeInv
<1> QED BY <1>1, <1>2, <1>3 DEF Entry, DirNames

(* The inode that create() gives up goes, number first.                    *)
LEMMA NameIFree ==
  ASSUME FcbInv, TableInv, NameInv, NEW p \in Procs, IFree(p)
  PROVE  NameInv'
<1>0. /\ LocalsOK /\ TableOK(slot) /\ CallInv(p) /\ LinksInv /\ TreeInv /\ InSlotInv
      /\ LockInv
  BY DEF TableInv, NameInv
<1>1. PICK s, n : s = loc[p].dead /\ n = slot[s].no
  OBVIOUS
<1>2. /\ pc[p] = "ifree" /\ Goto(p, "itrunc")
      /\ dnode' = [dnode EXCEPT ![n].used = FALSE]
      /\ UNCHANGED <<slot, imtx, loc, entries, files, fdtable, icwd, alive>>
  BY <1>1 DEF IFree, tableVars, fileVars, procVars
<1>3. /\ s \in Slots /\ imtx[s] = p /\ slot[s].dev = 1 /\ n \in Inos /\ ~Settled(n)
      /\ loc[p].then = "cfail"
  BY <1>0, <1>1, <1>2 DEF CallInv, Dies
<1>4. pc'[p] = "itrunc" /\ \A q \in Procs \ {p} : pc'[q] = pc[q] /\ loc'[q] = loc[q]
  BY <1>0, <1>2 DEF Goto, LocalsOK
<1>5. /\ \A m \in Inos \ {n} : dnode'[m] = dnode[m]
      /\ \A m \in Inos : dnode'[m].mode = dnode[m].mode /\ dnode'[m].links = dnode[m].links
      /\ DnodeOK'
  <2>1. DnodeOK
    BY <1>0 DEF LinksInv
  <2>2. \A m \in Inos \ {n} : dnode'[m] = dnode[m]
    BY <1>2, <2>1 DEF DnodeOK
  <2>3. /\ dnode'[n].mode = dnode[n].mode /\ dnode'[n].links = dnode[n].links
        /\ dnode'[n].used = FALSE /\ DOMAIN dnode'[n] = {"used", "mode", "links"}
    BY <1>2, <1>3, <2>1 DEF DnodeOK
  <2>4. DOMAIN dnode' = Inos
    BY <1>2, <2>1 DEF DnodeOK
  <2> QED BY <2>1, <2>2, <2>3, <2>4 DEF DnodeOK
<1>6. \A m : Settled(m)' <=> Settled(m)
  BY <1>2 DEF Settled
<1>7. Calm(p)
  <2>1. CalmDisk(p)
    BY <1>1, <1>2, <1>5, <1>6 DEF CalmDisk, Writes
  <2> QED BY <1>2, <1>4, <2>1 DEF Calm, KeptSlot, CalmLocks
<1>8. loc[p].call.name # "link2"
  BY <1>0, <1>2 DEF CallInv, Relinks
<1>9. OwnLocks(p)
  <2>1. \A t \in Slots : imtx[t] = p => Holds(p, t)
    BY <1>0, FilesAssumption DEF LockInv
  <2>2. \A t \in Slots : Holds(p, t) => Holds(p, t)'
    BY <1>2, <1>4 DEF Holds, Eff, InParent, Making
  <2> QED BY <1>0, <1>2, <2>1, <2>2 DEF OwnLocks, LockInv
<1>10. PairInv'
  BY <1>4, <1>7, PairKept DEF NoNew, Making
<1>11. TreeInv'
  <2>1. entries' = entries
    BY <1>2
  <2> QED BY <1>0, <1>5, <1>6, <2>1 DEF TreeInv
<1>12. LinksInv'
  <2>1. ASSUME NEW m \in Inos, Settled(m)' PROVE (dnode[m].used /\ LinksCover(m))'
    <3>1. m # n /\ Settled(m)
      BY <1>3, <1>6, <2>1
    <3>2. dnode'[m] = dnode[m] /\ dnode[m].used /\ LinksCover(m) /\ dnode[m].links \in Int
      BY <1>0, <1>5, <3>1 DEF LinksInv, DnodeOK
    <3>3. NoNewLink(p)
      BY <1>2, <1>8 DEF NoNewLink, IsLinking
    <3>4. /\ Cardinality(Linking(m)') <= Cardinality(Linking(m))
          /\ Cardinality(Linking(m)) \in Nat /\ Cardinality(Linking(m)') \in Nat
          /\ Cardinality(NamesOf(m)) \in Nat /\ NamesOf(m)' = NamesOf(m)
      BY <1>2, <1>7, <3>3, LinkingShrinks, NamesFinite DEF NamesOf
    <3> QED BY <3>2, <3>4 DEF LinksCover
  <2> QED BY <1>5, <2>1 DEF LinksInv
<1>13. InSlotInv'
  <2>1. \A t \in Slots : Unwritten(t)' <=> Unwritten(t)
    BY <1>2, <1>4 DEF Unwritten
  <2> QED BY <1>0, <1>2, <1>5, <2>1 DEF InSlotInv
<1>14. CallInv(p)'
  <2>1. Paths(p)' /\ Walks(p)' /\ Makes(p)'
    BY <1>0, <1>2, <1>4 DEF CallInv, Paths, Walks, Makes, Making
  <2>2. Relinks(p)'
    BY <1>2, <1>4, <1>8 DEF Relinks
  <2>3. Dies(p)'
    BY <1>1, <1>2, <1>3, <1>4, <1>6 DEF Dies, Settled
  <2>4. Climbs(p)'
    <3>1. PICK t : t = loc[p].par
      OBVIOUS
    <3>2. Eff(p) = "cfail" /\ Eff(p)' = "cfail"
      BY <1>2, <1>3, <1>4 DEF Eff
    <3>3. Sits(t) /\ t \in Slots /\ IsDir(t) /\ imtx[t] = p /\ slot[t].valid
          /\ slot[t].no \in Inos
      BY <1>0, <3>1, <3>2 DEF CallInv, Climbs, InParent, Sits
    <3>4. Sits(t)' /\ IsDir(t)'
      BY <1>2, <1>5, <1>6, <3>3 DEF Sits, IsDir, Settled
    <3> QED BY <1>2, <3>1, <3>2, <3>3, <3>4 DEF Climbs, Sits, IsDir
  <2> QED BY <2>1, <2>2, <2>3, <2>4 DEF CallInv
<1> QED BY <1>2, <1>4, <1>7, <1>9, <1>10, <1>11, <1>12, <1>13, <1>14, DiskNext

(* The content of a dead inode goes: no other directory loses an entry.    *)
LEMMA NameITruncate ==
  ASSUME FcbInv, TableInv, NameInv, NEW p \in Procs, ITruncate(p)
  PROVE  NameInv'
<1>0. /\ LocalsOK /\ TableOK(slot) /\ CallInv(p) /\ LinksInv /\ TreeInv /\ InSlotInv
      /\ LockInv
  BY DEF TableInv, NameInv
<1>1. PICK s, n : s = loc[p].dead /\ n = slot[s].no
  OBVIOUS
<1>2. /\ pc[p] = "itrunc" /\ Goto(p, "idrop")
      /\ entries' = [entries EXCEPT ![n] = [m \in DirNames |-> 0]]
      /\ slot' = [slot EXCEPT ![s].valid = FALSE] /\ imtx' = Unlocked(s)
      /\ UNCHANGED <<dnode, loc, files, fdtable, icwd, alive>>
  BY <1>1 DEF ITruncate, fileVars, procVars
<1>3. /\ s \in Slots /\ imtx[s] = p /\ slot[s].dev = 1 /\ n \in Inos /\ ~Settled(n)
      /\ loc[p].then = "cfail"
  BY <1>0, <1>1, <1>2 DEF CallInv, Dies
<1>4. pc'[p] = "idrop" /\ \A q \in Procs \ {p} : pc'[q] = pc[q] /\ loc'[q] = loc[q]
  BY <1>0, <1>2 DEF Goto, LocalsOK
<1>5. entries' = entries
  <2>1. \A m \in DirNames : entries[n][m] = 0
    BY <1>0, <1>3 DEF TreeInv
  <2>2. entries \in [Inos -> [DirNames -> Inos \cup {0}]]
    BY <1>0 DEF TreeInv
  <2>3. entries[n] = [m \in DirNames |-> 0]
    BY <1>3, <2>1, <2>2
  <2> QED BY <1>2, <2>2, <2>3
<1>6. \A m : Settled(m)' <=> Settled(m)
  BY <1>5 DEF Settled
<1>7. /\ \A t \in Slots \ {s} : slot'[t] = slot[t]
      /\ slot'[s].dev = 1 /\ slot'[s].no = n /\ slot'[s].valid = FALSE
      /\ slot'[s].mode = slot[s].mode
  BY <1>0, <1>1, <1>2, <1>3 DEF TableOK, SlotFields
<1>8. loc[p].call.name # "link2"
  BY <1>0, <1>2 DEF CallInv, Relinks
<1>9. OwnLocks(p) /\ CalmLocks(p)
  <2>1. ASSUME NEW t \in Slots \ {s}, imtx[t] = p PROVE Holds(p, t)'
    <3>1. Holds(p, t)
      BY <1>0, <2>1, FilesAssumption DEF LockInv
    <3>2. Eff(p)' = Eff(p)
      BY <1>2, <1>4 DEF Eff
    <3>3. Eff(p) \in InParent /\ t = loc[p].par
      BY <1>1, <1>2, <2>1, <3>1 DEF Holds
    <3> QED BY <1>2, <3>2, <3>3 DEF Holds
  <2> QED BY <1>2, <1>3, <2>1, LocksDrop
<1>10. Calm(p)
  <2>1. CalmDisk(p)
    BY <1>2, <1>5, <1>6 DEF CalmDisk
  <2>2. \A t \in Slots : KeptSlot(p, t)
    BY <1>1, <1>3, <1>7 DEF KeptSlot
  <2> QED BY <1>4, <1>9, <2>1, <2>2 DEF Calm
<1>11. PairInv'
  BY <1>4, <1>10, PairKept DEF NoNew, Making
<1>12. TreeInv'
  <2>1. entries' = entries /\ dnode' = dnode
    BY <1>2, <1>5
  <2> QED BY <1>0, <2>1 DEF TreeInv, Settled
<1>13. LinksInv'
  BY <1>2, <1>5, <1>8, <1>10, LinksStay DEF NoNewLink, IsLinking
<1>14. InSlotInv'
  <2>1. \A t \in Slots : Unwritten(t)' <=> Unwritten(t)
    BY <1>2, <1>4 DEF Unwritten
  <2>2. ASSUME NEW t \in Slots
        PROVE  /\ slot'[t].valid \in BOOLEAN /\ slot'[t].dev \in {0, 1}
               /\ slot'[t].dev = 1 => slot'[t].no \in Inos
               /\ slot'[t].dev = 0 /\ slot'[t].count > 0 => slot'[t].mode = "fifo"
               /\ slot'[t].dev = 1 /\ slot'[t].valid /\ ~Unwritten(t)' =>
                     /\ slot'[t].links = dnode[slot'[t].no].links
                     /\ slot'[t].mode = dnode[slot'[t].no].mode
    <3>1. CASE t = s
      <4>1. slot'[t].dev # 0
        BY <1>7, <3>1, 1 # 0
      <4>2. slot'[t].valid = FALSE /\ slot'[t].no \in Inos /\ slot'[t].dev \in {0, 1}
        BY <1>3, <1>7, <3>1
      <4>3. slot'[t].valid \in BOOLEAN
        BY <4>2
      <4> QED BY <4>1, <4>2, <4>3
    <3>2. CASE t # s
      <4>1. slot'[t] = slot[t]
        BY <1>7, <3>2
      <4> QED BY <1>0, <2>1, <4>1 DEF InSlotInv
    <3> QED BY <3>1, <3>2
  <2> QED BY <1>2, <2>2 DEF InSlotInv
<1>15. CallInv(p)'
  <2>1. Paths(p)' /\ Walks(p)' /\ Makes(p)' /\ Dies(p)'
    BY <1>0, <1>2, <1>3, <1>4 DEF CallInv, Paths, Walks, Makes, Making, Dies
  <2>2. Relinks(p)'
    BY <1>2, <1>4, <1>8 DEF Relinks
  <2>3. Climbs(p)'
    <3>1. PICK t : t = loc[p].par
      OBVIOUS
    <3>2. Eff(p) = "cfail" /\ Eff(p)' = "cfail"
      BY <1>2, <1>3, <1>4 DEF Eff
    <3>3. Sits(t) /\ t \in Slots /\ IsDir(t) /\ imtx[t] = p /\ slot[t].valid
          /\ slot[t].no \in Inos /\ Settled(slot[t].no)
      BY <1>0, <3>1, <3>2 DEF CallInv, Climbs, InParent, Sits
    <3>4. t # s
      BY <1>1, <1>3, <3>3
    <3>5. slot'[t] = slot[t] /\ imtx'[t] = p
      BY <1>0, <1>2, <1>7, <3>3, <3>4 DEF Unlocked, LockInv
    <3>6. Sits(t)' /\ IsDir(t)'
      BY <1>2, <1>5, <3>3, <3>5 DEF Sits, IsDir, Settled
    <3> QED BY <1>2, <3>1, <3>2, <3>3, <3>5, <3>6 DEF Climbs, Sits, IsDir
  <2> QED BY <2>1, <2>2, <2>3 DEF CallInv
<1> QED BY <1>2, <1>4, <1>9, <1>10, <1>11, <1>12, <1>13, <1>14, <1>15, DiskNext

(* The slot of a dead inode is given up.                                   *)
LEMMA NameIDrop ==
  ASSUME FcbInv, TableInv, NameInv, NEW p \in Procs, IDrop(p)
  PROVE  NameInv'
<1>0. LocalsOK /\ TableOK(slot) /\ CallInv(p) /\ LockInv
  BY DEF TableInv, NameInv
<1>1. PICK s : s = loc[p].dead
  OBVIOUS
<1>2. /\ pc[p] = "idrop" /\ Goto(p, loc[p].then) /\ slot' = Less(slot, s)
      /\ loc' = [loc EXCEPT ![p].dead = None]
      /\ UNCHANGED <<imtx, dnode, entries, files, fdtable, icwd, alive>>
  BY <1>1 DEF IDrop, Less, diskVars, fileVars, procVars
<1>3. loc[p].then = "cfail"
  BY <1>0, <1>2 DEF CallInv, Dies
<1>4. /\ pc'[p] = "cfail" /\ loc'[p].rest = loc[p].rest /\ loc'[p].call = loc[p].call
      /\ loc'[p].par = loc[p].par
      /\ \A q \in Procs \ {p} : pc'[q] = pc[q] /\ loc'[q] = loc[q]
  BY <1>0, <1>2, <1>3 DEF Goto, LocalsOK, LocFields
<1>5. Tame(slot')
  BY <1>0, <1>2, TameSlot, TameLess
<1>6. Eff(p) = "cfail" /\ Eff(p)' = "cfail"
  BY <1>2, <1>3, <1>4 DEF Eff
<1>7. OwnLocks(p) /\ CalmLocks(p)
  <2>1. \A t \in Slots : imtx[t] = p => Holds(p, t)
    BY <1>0, FilesAssumption DEF LockInv
  <2>2. \A t \in Slots : Holds(p, t) => Holds(p, t)'
    BY <1>2, <1>4, <1>6 DEF Holds
  <2> QED BY <1>0, <1>2, <2>1, <2>2 DEF OwnLocks, LockInv, CalmLocks
<1>8. TameStep(p)
  BY <1>2, <1>4, <1>5, <1>7 DEF TameStep
<1>9. Calm(p)
  BY <1>8, TameCalm DEF NameInv
<1>10. loc[p].call.name # "link2"
  BY <1>0, <1>2 DEF CallInv, Relinks
<1>11. CallInv(p)' /\ NoNew(p)
  <2>1. Paths(p)' /\ Walks(p)' /\ Makes(p)' /\ Dies(p)' /\ Relinks(p)' /\ NoNew(p)
    BY <1>0, <1>4, <1>10 DEF CallInv, Paths, Walks, Makes, Making, Dies, Relinks, NoNew
  <2>2. Climbs(p)'
    <3>1. PICK t : t = loc[p].par
      OBVIOUS
    <3>2. t \in Slots /\ Sits(t) /\ IsDir(t) /\ slot[t].count > 0
          /\ imtx[t] = p /\ slot[t].valid
      BY <1>0, <1>6, <3>1, AtPar DEF CallInv, Climbs, InParent
    <3>3. Sits(t)' /\ IsDir(t)' /\ slot'[t].valid
      BY <1>9, <3>2, SitsKept DEF Calm
    <3> QED BY <1>2, <1>4, <1>6, <3>1, <3>2, <3>3 DEF Climbs, Sits, IsDir
  <2> QED BY <2>1, <2>2 DEF CallInv
<1>12. NoNewLink(p)
  BY <1>4, <1>10 DEF NoNewLink, IsLinking
<1> QED BY <1>2, <1>4, <1>7, <1>8, <1>11, <1>12, PlainNext

(* ialloc(): the number that create() takes is free, so it has no name, no *)
(* other create() has it and nobody is about to free it.                   *)
LEMMA NameCreateNew ==
  ASSUME FcbInv, TableInv, NameInv, NEW p \in Procs, CreateNew(p)
  PROVE  NameInv'
<1> DEFINE k == loc[p]
<1>0. /\ LocalsOK /\ TableOK(slot) /\ CallInv(p) /\ LinksInv /\ TreeInv /\ InSlotInv
      /\ LockInv /\ PairInv
  BY DEF TableInv, NameInv
<1>1. PICK s, free : s = k.par /\ free = {n \in Inos : ~dnode[n].used}
  OBVIOUS
<1>2. /\ pc[p] = "cdir" /\ k.call.name # "link2" /\ Entry(s, k.rest[1]) = 0
      /\ \/ free = {} /\ Put(p, slot, Unlocked(s), s, NoLoc, "user") /\ dnode' = dnode
         \/ /\ free # {} /\ dnode' = [dnode EXCEPT ![Lowest(free)].used = TRUE]
            /\ loc' = [loc EXCEPT ![p].no = Lowest(free)]
            /\ Goto(p, "ialloc") /\ slot' = slot /\ imtx' = imtx
      /\ UNCHANGED <<entries, files, fdtable, icwd, alive>>
  BY <1>1 DEF CreateNew, LastName, fileVars, procVars
<1>3. s \in Slots /\ Sits(s) /\ IsDir(s) /\ slot[s].count > 0
  BY <1>1, <1>2, AtPar DEF Eff, InParent
<1>4. imtx[s] = p /\ \A t \in Slots \ {s} : imtx[t] # p
  BY <1>1, <1>2, OneLock
<1>5. CASE free = {} /\ Put(p, slot, Unlocked(s), s, NoLoc, "user") /\ dnode' = dnode
  <2>1. PICK mx : mx = Unlocked(s)
    OBVIOUS
  <2>2. /\ "user" \in OffPath /\ NoLoc.rest \in Seq(DirNames)
        /\ NoLoc.call.name \notin {"link", "link2"}
    BY DEF OffPath, NoLoc, NoCall
  <2>3. /\ imtx' = mx /\ IdleCall(p)' /\ pc'[p] = "user"
        /\ CalmLocks(p) => TameStep(p)
    <3>1. Put(p, slot, mx, s, NoLoc, "user") /\ UNCHANGED <<dnode, entries>>
      BY <1>2, <1>5, <2>1
    <3> QED BY <1>0, <1>3, <2>2, <3>1, TameSlot, PutIdle
  <2>4. OwnLocks(p) /\ TameStep(p)
    BY <1>3, <1>4, <2>1, <2>3, LocksDrop
  <2> QED BY <1>2, <2>3, <2>4, IdleNext
<1>6. CASE /\ free # {} /\ dnode' = [dnode EXCEPT ![Lowest(free)].used = TRUE]
           /\ loc' = [loc EXCEPT ![p].no = Lowest(free)]
           /\ Goto(p, "ialloc") /\ slot' = slot /\ imtx' = imtx
  <2>1. PICK n : n = Lowest(free)
    OBVIOUS
  <2>2. n \in Inos /\ ~dnode[n].used
    <3>1. free \subseteq Nat /\ free # {}
      BY <1>1, <1>6 DEF Inos
    <3>2. \E x \in free : \A y \in free : x <= y
      BY <3>1, LowestExists
    <3>3. n \in free
      BY <2>1, <3>2 DEF Lowest
    <3> QED BY <1>1, <3>3
  <2>3. ~Settled(n)
    BY <1>0, <2>2 DEF LinksInv
  <2>4. /\ pc'[p] = "ialloc" /\ loc'[p].rest = k.rest /\ loc'[p].call = k.call
        /\ loc'[p].par = s /\ loc'[p].no = n
        /\ \A q \in Procs \ {p} : pc'[q] = pc[q] /\ loc'[q] = loc[q]
    BY <1>0, <1>1, <1>6, <2>1 DEF Goto, LocalsOK, LocFields
  <2>5. /\ \A m \in Inos \ {n} : dnode'[m] = dnode[m]
        /\ \A m \in Inos : dnode'[m].mode = dnode[m].mode /\ dnode'[m].links = dnode[m].links
        /\ DnodeOK' /\ dnode'[n].used
    <3>1. DnodeOK /\ dnode' = [dnode EXCEPT ![n].used = TRUE]
      BY <1>0, <1>6, <2>1 DEF LinksInv
    <3>2. \A m \in Inos \ {n} : dnode'[m] = dnode[m]
      BY <3>1 DEF DnodeOK
    <3>3. /\ dnode'[n].mode = dnode[n].mode /\ dnode'[n].links = dnode[n].links
          /\ dnode'[n].used = TRUE /\ DOMAIN dnode'[n] = {"used", "mode", "links"}
      BY <2>2, <3>1 DEF DnodeOK
    <3>4. DOMAIN dnode' = Inos
      BY <3>1 DEF DnodeOK
    <3> QED BY <3>1, <3>2, <3>3, <3>4 DEF DnodeOK
  <2>6. \A m : Settled(m)' <=> Settled(m)
    BY <1>2 DEF Settled
  <2>7. Calm(p)
    <3>1. CalmDisk(p)
      BY <1>2, <1>6, <2>2, <2>5, <2>6 DEF CalmDisk, Writes
    <3> QED BY <1>6, <2>4, <3>1 DEF Calm, KeptSlot, CalmLocks
  <2>8. OwnLocks(p)
    <3>1. Holds(p, s)'
      BY <2>4 DEF Holds, Eff, InParent, Making
    <3> QED BY <1>0, <1>4, <1>6, <3>1 DEF OwnLocks, LockInv
  <2>9. ASSUME NEW q \in Procs \ {p}
        PROVE  /\ pc[q] \in Making => loc[q].no # n
               /\ pc[q] = "ifree" => slot[loc[q].dead].no # n
    BY <2>2 DEF NameInv, CallInv, Makes, Dies
  <2>10. PairInv'
    <3> SUFFICES ASSUME NEW a \in Procs, NEW b \in Procs, a # b, pc'[a] \in Making
                 PROVE  /\ pc'[b] \in Making => loc'[b].no # loc'[a].no
                        /\ pc'[b] = "ifree" => slot'[loc'[b].dead].no # loc'[a].no
      BY DEF PairInv
    <3>1. CASE a = p
      BY <1>6, <2>4, <2>9, <3>1
    <3>2. CASE b = p
      BY <2>4, <2>9, <3>2
    <3>3. CASE a # p /\ b # p
      BY <1>0, <1>6, <2>4, <3>3 DEF PairInv
    <3> QED BY <3>1, <3>2, <3>3
  <2>11. TreeInv'
    <3>1. entries' = entries
      BY <1>2
    <3> QED BY <1>0, <2>5, <2>6, <3>1 DEF TreeInv
  <2>12. LinksInv'
    <3>1. ASSUME NEW m \in Inos, Settled(m)' PROVE (dnode[m].used /\ LinksCover(m))'
      <4>1. m # n /\ Settled(m)
        BY <2>3, <2>6, <3>1
      <4>2. dnode'[m] = dnode[m] /\ dnode[m].used /\ LinksCover(m) /\ dnode[m].links \in Int
        BY <1>0, <2>5, <4>1 DEF LinksInv, DnodeOK
      <4>3. NoNewLink(p)
        BY <1>2, <2>4 DEF NoNewLink, IsLinking
      <4>4. /\ Cardinality(Linking(m)') <= Cardinality(Linking(m))
            /\ Cardinality(Linking(m)) \in Nat /\ Cardinality(Linking(m)') \in Nat
            /\ Cardinality(NamesOf(m)) \in Nat /\ NamesOf(m)' = NamesOf(m)
        BY <1>2, <2>7, <4>3, LinkingShrinks, NamesFinite DEF NamesOf
      <4> QED BY <4>2, <4>4 DEF LinksCover
    <3> QED BY <2>5, <3>1 DEF LinksInv
  <2>13. InSlotInv'
    <3>1. \A t \in Slots : Unwritten(t)' <=> Unwritten(t)
      BY <1>2, <2>4 DEF Unwritten
    <3> QED BY <1>0, <1>6, <2>5, <3>1 DEF InSlotInv
  <2>14. CallInv(p)'
    <3>1. k.rest \in Seq(DirNames) /\ Len(k.rest) = 1
      BY <1>0, <1>2 DEF CallInv, Paths
    <3>2. k.rest[1] \in Names
      <4>1. k.rest[1] \in DirNames
        BY <3>1
      <4> QED BY <1>2, <1>3, <4>1, NewName
    <3>3. Paths(p)' /\ Walks(p)' /\ Dies(p)' /\ Relinks(p)'
      BY <1>0, <1>2, <2>4, <3>1 DEF CallInv, Paths, Walks, Dies, Relinks
    <3>4. Makes(p)'
      <4>1. Entry(s, k.rest[1])' = 0
        BY <1>2, <1>6 DEF Entry
      <4> QED BY <1>2, <2>2, <2>3, <2>4, <2>5, <2>6, <3>2, <4>1 DEF Makes, Making, Entry
    <3>5. Climbs(p)'
      <4>1. slot[s].valid /\ slot[s].no \in Inos
        BY <1>0, <1>1, <1>2, <1>3 DEF CallInv, Climbs, Eff, InParent, Sits
      <4>2. Sits(s)' /\ IsDir(s)'
        BY <1>3, <2>7, SitsKept DEF Calm
      <4> QED BY <1>4, <1>6, <2>4, <4>1, <4>2 DEF Climbs, Sits, IsDir
    <3> QED BY <3>3, <3>4, <3>5 DEF CallInv
  <2> QED BY <1>2, <1>6, <2>4, <2>7, <2>8, <2>10, <2>11, <2>12, <2>13, <2>14, DiskNext
<1> QED BY <1>2, <1>5, <1>6

(* iget() of the new number: the slot is of no use to anybody else, and    *)
(* what it shows is written before it is read.                             *)
LEMMA NameCreateGet ==
  ASSUME FcbInv, TableInv, NameInv, NEW p \in Procs, CreateGet(p)
  PROVE  NameInv'
<1> DEFINE k == loc[p]
<1>0. /\ LocalsOK /\ TableOK(slot) /\ CallInv(p) /\ LinksInv /\ TreeInv /\ InSlotInv
      /\ LockInv /\ PairInv
  BY DEF TableInv, NameInv
<1>1. PICK n, u : n = k.no /\ u = Lowest(Found(n))
  OBVIOUS
<1>2. /\ pc[p] = "ialloc" /\ Found(n) # {} /\ slot' = Got(n, TRUE)
      /\ loc' = [loc EXCEPT ![p].cur = u] /\ Goto(p, "cnew")
      /\ UNCHANGED <<imtx, dnode, entries, files, fdtable, icwd, alive>>
  BY <1>1 DEF CreateGet, diskVars, fileVars, procVars
<1>3. /\ n \in Inos /\ ~Settled(n) /\ dnode[n].used /\ k.call.name # "link2"
      /\ k.rest[1] \in Names /\ Entry(k.par, k.rest[1]) = 0
  BY <1>0, <1>1, <1>2 DEF CallInv, Makes, Making
<1>4. /\ pc'[p] = "cnew" /\ loc'[p].rest = k.rest /\ loc'[p].call = k.call
      /\ loc'[p].par = k.par /\ loc'[p].no = n /\ loc'[p].cur = u
      /\ \A q \in Procs \ {p} : pc'[q] = pc[q] /\ loc'[q] = loc[q]
  BY <1>0, <1>1, <1>2 DEF Goto, LocalsOK, LocFields
<1>5. PICK clean : clean = TRUE
  OBVIOUS
<1>6. /\ u \in Slots /\ \A t \in Slots \ {u} : slot'[t] = slot[t]
      /\ slot'[u].dev = 1 /\ slot'[u].no = n
      /\ SameSlot(slot[u], slot'[u]) \/ (slot[u].count = 0 /\ slot'[u].valid = clean)
  <2>1. PICK sl : sl = slot'
    OBVIOUS
  <2>2. sl = Got(n, clean)
    BY <1>2, <1>5, <2>1
  <2>3. /\ u \in Slots /\ \A t \in Slots \ {u} : sl[t] = slot[t]
        /\ sl[u].dev = 1 /\ sl[u].no = n
        /\ SameSlot(slot[u], sl[u]) \/ (slot[u].count = 0 /\ sl[u].valid = clean)
    BY <1>0, <1>1, <1>2, <2>2, GotSlot
  <2> QED BY <2>1, <2>3
<1>7. slot'[u].valid \in BOOLEAN
  <2>1. slot[u].valid \in BOOLEAN
    BY <1>0, <1>6 DEF InSlotInv
  <2> QED BY <1>5, <1>6, <2>1 DEF SameSlot
<1>8. OwnLocks(p) /\ CalmLocks(p)
  <2>1. \A t \in Slots : imtx[t] = p => Holds(p, t)
    BY <1>0, FilesAssumption DEF LockInv
  <2>2. \A t \in Slots : Holds(p, t) => Holds(p, t)'
    BY <1>2, <1>4 DEF Holds, Eff, InParent, Making
  <2> QED BY <1>0, <1>2, <2>1, <2>2 DEF OwnLocks, LockInv, CalmLocks
<1>9. Calm(p)
  <2>1. CalmDisk(p)
    BY <1>2 DEF CalmDisk, Settled
  <2>2. ASSUME NEW t \in Slots, slot[t].count > 0 PROVE KeptSlot(p, t)
    <3>1. slot[t].count # 0
      BY <2>2
    <3>2. t = u => SameSlot(slot[t], slot'[t])
      BY <1>6, <3>1
    <3>3. t # u => slot'[t] = slot[t]
      BY <1>6
    <3> QED BY <3>2, <3>3 DEF KeptSlot, SameSlot
  <2> QED BY <1>4, <1>8, <2>1, <2>2 DEF Calm
<1>10. PairInv'
  BY <1>1, <1>2, <1>4, <1>9, PairKept DEF NoNew, Making
<1>11. TreeInv'
  <2>1. entries' = entries /\ dnode' = dnode
    BY <1>2
  <2> QED BY <1>0, <2>1 DEF TreeInv, Settled
<1>12. LinksInv'
  BY <1>2, <1>3, <1>4, <1>9, LinksStay DEF NoNewLink, IsLinking
<1>13. InSlotInv'
  <2>1. Unwritten(u)'
    BY <1>4 DEF Unwritten
  <2>2. ASSUME NEW t \in Slots \ {u} PROVE Unwritten(t)' <=> Unwritten(t)
    BY <1>2, <1>4 DEF Unwritten
  <2>3. ASSUME NEW t \in Slots
        PROVE  /\ slot'[t].valid \in BOOLEAN /\ slot'[t].dev \in {0, 1}
               /\ slot'[t].dev = 1 => slot'[t].no \in Inos
               /\ slot'[t].dev = 0 /\ slot'[t].count > 0 => slot'[t].mode = "fifo"
               /\ slot'[t].dev = 1 /\ slot'[t].valid /\ ~Unwritten(t)' =>
                     /\ slot'[t].links = dnode[slot'[t].no].links
                     /\ slot'[t].mode = dnode[slot'[t].no].mode
    <3>1. CASE t = u
      <4>1. slot'[t].dev # 0 /\ slot'[t].dev \in {0, 1} /\ slot'[t].no \in Inos
        BY <1>3, <1>6, <3>1, 1 # 0
      <4>2. Unwritten(t)'
        BY <2>1, <3>1
      <4> QED BY <1>7, <3>1, <4>1, <4>2
    <3>2. CASE t # u
      <4>1. slot'[t] = slot[t] /\ (Unwritten(t)' <=> Unwritten(t))
        BY <1>6, <2>2, <3>2
      <4> QED BY <1>0, <4>1 DEF InSlotInv
    <3> QED BY <3>1, <3>2
  <2> QED BY <1>2, <2>3 DEF InSlotInv
<1>14. CallInv(p)'
  <2>1. Paths(p)' /\ Walks(p)' /\ Dies(p)' /\ Relinks(p)'
    BY <1>0, <1>2, <1>3, <1>4 DEF CallInv, Paths, Walks, Dies, Relinks, Making
  <2>2. PICK t : t = k.par
    OBVIOUS
  <2>3. t \in Slots /\ Sits(t) /\ IsDir(t) /\ slot[t].count > 0
        /\ imtx[t] = p /\ slot[t].valid
    BY <1>0, <1>2, <2>2, AtPar DEF CallInv, Climbs, Eff, InParent, Making
  <2>4. Sits(t)' /\ IsDir(t)' /\ slot'[t].valid /\ slot'[t].no = slot[t].no
    BY <1>9, <2>3, SitsKept DEF Calm, KeptSlot
  <2>5. Climbs(p)'
    BY <1>2, <1>4, <2>2, <2>3, <2>4 DEF Climbs, Sits, IsDir
  <2>6. Entry(t, k.rest[1])' = 0
    BY <1>2, <1>3, <1>4, <2>2, <2>4 DEF Entry
  <2>7. ~Settled(n)'
    BY <1>2, <1>3 DEF Settled
  <2>8. Makes(p)'
    BY <1>2, <1>3, <1>4, <1>6, <2>2, <2>6, <2>7 DEF Makes, Making, Entry, Settled
  <2> QED BY <2>1, <2>5, <2>8 DEF CallInv
<1> QED BY <1>2, <1>4, <1>8, <1>9, <1>10, <1>11, <1>12, <1>13, <1>14, DiskNext

(* The new inode is written; nobody else refers to it yet.                 *)
LEMMA NameCreateInit ==
  ASSUME FcbInv, TableInv, NameInv, NEW p \in Procs, CreateInit(p)
  PROVE  NameInv'
<1> DEFINE k == loc[p]
<1>0. /\ LocalsOK /\ TableOK(slot) /\ CallInv(p) /\ LinksInv /\ TreeInv /\ InSlotInv
      /\ LockInv /\ PairInv
  BY DEF TableInv, NameInv
<1>1. PICK n, u, m : n = k.no /\ u = k.cur
                     /\ m = (IF k.call.name = "mkdir" THEN "dir" ELSE "reg")
  OBVIOUS
<1>2. /\ pc[p] = "cnew" /\ Lock(p, u)
      /\ slot' = [slot EXCEPT ![u] = [@ EXCEPT !.valid = TRUE, !.mode = m, !.links = 1]]
      /\ dnode' = [dnode EXCEPT ![n] = [used |-> @.used, mode |-> m, links |-> 1]]
      /\ Goto(p, "clink")
      /\ UNCHANGED <<entries, loc, files, fdtable, icwd, alive>>
  BY <1>1 DEF CreateInit, fileVars, procVars
<1>3. /\ n \in Inos /\ ~Settled(n) /\ dnode[n].used /\ k.call.name # "link2"
      /\ k.rest[1] \in Names /\ Entry(k.par, k.rest[1]) = 0
      /\ u \in Slots /\ slot[u].dev = 1 /\ slot[u].no = n
  BY <1>0, <1>1, <1>2 DEF CallInv, Makes, Making
<1>4. pc'[p] = "clink" /\ \A q \in Procs \ {p} : pc'[q] = pc[q] /\ loc'[q] = loc[q]
  BY <1>0, <1>2 DEF Goto, LocalsOK
<1>5. /\ \A t \in Slots \ {u} : slot'[t] = slot[t]
      /\ slot'[u].dev = 1 /\ slot'[u].no = n /\ slot'[u].valid = TRUE
      /\ slot'[u].mode = m /\ slot'[u].links = 1
  BY <1>0, <1>2, <1>3 DEF TableOK, SlotFields
<1>6. /\ \A j \in Inos \ {n} : dnode'[j] = dnode[j]
      /\ dnode'[n].used /\ dnode'[n].mode = m /\ dnode'[n].links = 1 /\ DnodeOK'
  <2>1. DnodeOK
    BY <1>0 DEF LinksInv
  <2>2. /\ \A j \in Inos \ {n} : dnode'[j] = dnode[j]
        /\ dnode'[n] = [used |-> dnode[n].used, mode |-> m, links |-> 1]
        /\ DOMAIN dnode' = Inos
    BY <1>2, <1>3, <2>1 DEF DnodeOK
  <2>3. /\ dnode'[n].used = dnode[n].used /\ dnode'[n].mode = m /\ dnode'[n].links = 1
        /\ DOMAIN dnode'[n] = {"used", "mode", "links"}
    BY <2>2
  <2>4. dnode'[n].links \in Int /\ dnode'[n].used \in BOOLEAN
    BY <1>3, <2>1, <2>3 DEF DnodeOK
  <2> QED BY <1>3, <2>1, <2>2, <2>3, <2>4 DEF DnodeOK
<1>7. \A j : Settled(j)' <=> Settled(j)
  BY <1>2 DEF Settled
<1>8. OwnLocks(p) /\ CalmLocks(p)
  <2>1. \A t \in Slots : imtx[t] = p => t = k.par
    BY <1>2, OneLock
  <2>2. \A t \in Slots : t = u \/ imtx[t] = p => Holds(p, t)'
    BY <1>1, <1>2, <1>4, <2>1 DEF Holds, Eff, InParent, Making
  <2> QED BY <1>2, <1>3, <2>2, LocksTake
<1>9. Calm(p)
  <2>1. CalmDisk(p)
    <3>1. \A j \in Inos : Settled(j) => dnode'[j].mode = dnode[j].mode
      BY <1>3, <1>6
    <3>2. \A j \in Inos : dnode'[j] # dnode[j] => Writes(p, j)
      BY <1>1, <1>2, <1>6 DEF Writes
    <3> QED BY <1>2, <1>7, <3>1, <3>2 DEF CalmDisk
  <2>2. \A t \in Slots : KeptSlot(p, t)
    BY <1>3, <1>5 DEF KeptSlot
  <2> QED BY <1>4, <1>8, <2>1, <2>2 DEF Calm
<1>10. PairInv'
  BY <1>2, <1>4, <1>9, PairKept DEF NoNew, Making
<1>11. TreeInv'
  <2>1. entries' = entries
    BY <1>2
  <2>2. \A j \in Inos : Settled(j) => dnode'[j] = dnode[j]
    BY <1>3, <1>6
  <2> QED BY <1>0, <1>7, <2>1, <2>2 DEF TreeInv
<1>12. LinksInv'
  <2>1. ASSUME NEW j \in Inos, Settled(j)' PROVE (dnode[j].used /\ LinksCover(j))'
    <3>1. j # n /\ Settled(j)
      BY <1>3, <1>7, <2>1
    <3>2. dnode'[j] = dnode[j] /\ dnode[j].used /\ LinksCover(j) /\ dnode[j].links \in Int
      BY <1>0, <1>6, <3>1 DEF LinksInv, DnodeOK
    <3>3. NoNewLink(p)
      BY <1>2, <1>3 DEF NoNewLink, IsLinking
    <3>4. /\ Cardinality(Linking(j)') <= Cardinality(Linking(j))
          /\ Cardinality(Linking(j)) \in Nat /\ Cardinality(Linking(j)') \in Nat
          /\ Cardinality(NamesOf(j)) \in Nat /\ NamesOf(j)' = NamesOf(j)
      BY <1>2, <1>9, <3>3, LinkingShrinks, NamesFinite DEF NamesOf
    <3> QED BY <3>2, <3>4 DEF LinksCover
  <2> QED BY <1>6, <2>1 DEF LinksInv
<1>13. InSlotInv'
  <2>1. ASSUME NEW t \in Slots \ {u} PROVE Unwritten(t)' <=> Unwritten(t)
    BY <1>1, <1>2, <1>4 DEF Unwritten
  <2>2. ASSUME NEW t \in Slots
        PROVE  /\ slot'[t].valid \in BOOLEAN /\ slot'[t].dev \in {0, 1}
               /\ slot'[t].dev = 1 => slot'[t].no \in Inos
               /\ slot'[t].dev = 0 /\ slot'[t].count > 0 => slot'[t].mode = "fifo"
               /\ slot'[t].dev = 1 /\ slot'[t].valid /\ ~Unwritten(t)' =>
                     /\ slot'[t].links = dnode'[slot'[t].no].links
                     /\ slot'[t].mode = dnode'[slot'[t].no].mode
    <3>1. CASE t = u
      <4>1. slot'[t].dev # 0 /\ slot'[t].dev \in {0, 1} /\ slot'[t].no \in Inos
        BY <1>3, <1>5, <3>1, 1 # 0
      <4>2. slot'[t].valid \in BOOLEAN
        BY <1>5, <3>1
      <4>3. slot'[t].links = dnode'[slot'[t].no].links
            /\ slot'[t].mode = dnode'[slot'[t].no].mode
        BY <1>5, <1>6, <3>1
      <4> QED BY <4>1, <4>2, <4>3
    <3>2. CASE t # u
      <4>1. slot'[t] = slot[t] /\ (Unwritten(t)' <=> Unwritten(t))
        BY <1>5, <2>1, <3>2
      <4>2. slot[t].dev = 1 => slot[t].no # n
        BY <1>3, <3>2, OnlySlot
      <4>3. slot[t].dev = 1 /\ slot[t].no \in Inos => dnode'[slot[t].no] = dnode[slot[t].no]
        BY <1>6, <4>2
      <4>4. /\ slot[t].valid \in BOOLEAN /\ slot[t].dev \in {0, 1}
            /\ slot[t].dev = 1 => slot[t].no \in Inos
            /\ slot[t].dev = 0 /\ slot[t].count > 0 => slot[t].mode = "fifo"
            /\ slot[t].dev = 1 /\ slot[t].valid /\ ~Unwritten(t) =>
                  /\ slot[t].links = dnode[slot[t].no].links
                  /\ slot[t].mode = dnode[slot[t].no].mode
        BY <1>0 DEF InSlotInv
      <4> HIDE DEF Unwritten
      <4> QED BY <4>1, <4>3, <4>4
    <3> QED BY <3>1, <3>2
  <2> QED BY <2>2 DEF InSlotInv
<1>14. CallInv(p)'
  <2>1. Paths(p)' /\ Walks(p)' /\ Dies(p)' /\ Relinks(p)'
    BY <1>0, <1>2, <1>3, <1>4 DEF CallInv, Paths, Walks, Dies, Relinks, Making
  <2>2. PICK t : t = k.par
    OBVIOUS
  <2>3. t \in Slots /\ Sits(t) /\ IsDir(t) /\ slot[t].count > 0
        /\ imtx[t] = p /\ slot[t].valid
    BY <1>0, <1>2, <2>2, AtPar DEF CallInv, Climbs, Eff, InParent, Making
  <2>4. Sits(t)' /\ IsDir(t)' /\ slot'[t].valid /\ slot'[t].no = slot[t].no
    BY <1>9, <2>3, SitsKept DEF Calm, KeptSlot
  <2>5. t # u
    BY <1>3, <2>3 DEF Sits
  <2>6. imtx'[t] = p /\ imtx'[u] = p
    BY <1>0, <1>2, <1>3, <2>3, <2>5 DEF Lock, LockInv
  <2>7. Climbs(p)'
    BY <1>2, <1>4, <2>2, <2>3, <2>4, <2>6 DEF Climbs, Sits, IsDir
  <2>8. Entry(t, k.rest[1])' = 0
    BY <1>2, <1>3, <2>2, <2>4 DEF Entry
  <2>9. ~Settled(n)'
    BY <1>3, <1>7
  <2>10. Makes(p)'
    BY <1>1, <1>2, <1>3, <1>4, <1>5, <1>6, <2>2, <2>6, <2>8, <2>9
       DEF Makes, Making, Entry, Settled
  <2> QED BY <2>1, <2>7, <2>10 DEF CallInv
<1> QED BY <1>2, <1>4, <1>8, <1>9, <1>10, <1>11, <1>12, <1>13, <1>14, DiskNext

(* create() found no room for the name: the inode loses its link, and the  *)
(* last reference frees it.                                                *)
LEMMA NameCreateUndo ==
  ASSUME FcbInv, TableInv, NameInv, NEW p \in Procs, CreateUndo(p)
  PROVE  NameInv'
<1> DEFINE k == loc[p]
<1>0. /\ LocalsOK /\ TableOK(slot) /\ CallInv(p) /\ LinksInv /\ TreeInv /\ InSlotInv
      /\ LockInv /\ PairInv
  BY DEF TableInv, NameInv
<1>1. PICK n, u, t, g : n = k.no /\ u = k.cur /\ t = k.par /\ g = [k EXCEPT !.cur = None]
  OBVIOUS
<1>2. PICK sl, mx : sl = [slot EXCEPT ![u].links = 0] /\ mx = Unlocked(u)
  OBVIOUS
<1>3. /\ pc[p] = "clink" /\ Put(p, sl, mx, u, g, "cfail")
      /\ dnode' = [dnode EXCEPT ![n].links = 0]
      /\ UNCHANGED <<entries, files, fdtable, icwd, alive>>
  BY <1>1, <1>2 DEF CreateUndo, fileVars, procVars
<1>4. /\ n \in Inos /\ ~Settled(n) /\ dnode[n].used /\ k.call.name # "link2"
      /\ u \in Slots /\ slot[u].dev = 1 /\ slot[u].no = n /\ slot[u].valid /\ imtx[u] = p
  BY <1>0, <1>1, <1>3 DEF CallInv, Makes, Making
<1>5. t \in Slots /\ Sits(t) /\ IsDir(t) /\ slot[t].count > 0
      /\ imtx[t] = p /\ slot[t].valid /\ t # u
  <2>1. t \in Slots /\ Sits(t) /\ IsDir(t) /\ slot[t].count > 0
        /\ imtx[t] = p /\ slot[t].valid
    BY <1>0, <1>1, <1>3, AtPar DEF CallInv, Climbs, Eff, InParent, Making
  <2> QED BY <1>4, <2>1 DEF Sits
<1>6. /\ \A s \in Slots \ {u} : sl[s] = slot[s]
      /\ sl[u].dev = 1 /\ sl[u].no = n /\ sl[u].valid = slot[u].valid
      /\ sl[u].mode = slot[u].mode /\ sl[u].links = 0
      /\ DOMAIN sl = Slots /\ DOMAIN sl[u] = SlotFields
  BY <1>0, <1>2, <1>4 DEF TableOK, SlotFields
<1>7. g.rest = k.rest /\ g.call = k.call /\ g.par = t /\ DOMAIN g = LocFields
  BY <1>0, <1>1 DEF LocalsOK, LocFields
<1>8. \/ /\ slot' = sl /\ imtx' = [mx EXCEPT ![u] = p] /\ Goto(p, "ifree")
         /\ loc' = [loc EXCEPT ![p] = [g EXCEPT !.dead = u, !.then = "cfail"]]
      \/ /\ slot' = Less(sl, u) /\ imtx' = mx /\ Goto(p, "cfail")
         /\ loc' = [loc EXCEPT ![p] = g]
  BY <1>3 DEF Put, Less
<1>9. /\ \A s \in Slots \ {u} : slot'[s] = slot[s]
      /\ slot'[u].dev = 1 /\ slot'[u].no = n /\ slot'[u].valid = slot[u].valid
      /\ slot'[u].mode = slot[u].mode /\ slot'[u].links = 0
  <2>1. PICK sm : sm = Less(sl, u)
    OBVIOUS
  <2>2. /\ \A s \in Slots \ {u} : sm[s] = sl[s]
        /\ sm[u].dev = sl[u].dev /\ sm[u].no = sl[u].no /\ sm[u].valid = sl[u].valid
        /\ sm[u].mode = sl[u].mode /\ sm[u].links = sl[u].links
    BY <1>4, <1>6, <2>1 DEF Less, SlotFields
  <2>3. slot' = sl \/ slot' = sm
    BY <1>8, <2>1
  <2> QED BY <1>6, <2>2, <2>3
<1>10. /\ loc'[p].rest = k.rest /\ loc'[p].call = k.call /\ loc'[p].par = t
       /\ \/ pc'[p] = "ifree" /\ loc'[p].dead = u /\ loc'[p].then = "cfail"
             /\ \A s \in Slots : imtx'[s] = imtx[s]
          \/ pc'[p] = "cfail" /\ imtx' = mx
       /\ \A q \in Procs \ {p} : pc'[q] = pc[q] /\ loc'[q] = loc[q]
       /\ DOMAIN imtx' = Slots
  <2>1. CASE /\ slot' = sl /\ imtx' = [mx EXCEPT ![u] = p] /\ Goto(p, "ifree")
             /\ loc' = [loc EXCEPT ![p] = [g EXCEPT !.dead = u, !.then = "cfail"]]
    <3>1. /\ loc'[p].rest = g.rest /\ loc'[p].call = g.call /\ loc'[p].par = g.par
          /\ loc'[p].dead = u /\ loc'[p].then = "cfail"
          /\ \A q \in Procs \ {p} : loc'[q] = loc[q]
      BY <1>0, <1>7, <2>1 DEF LocalsOK, LocFields
    <3>2. pc'[p] = "ifree" /\ \A q \in Procs \ {p} : pc'[q] = pc[q]
      BY <1>0, <2>1 DEF Goto, LocalsOK
    <3>3. \A s \in Slots : imtx'[s] = imtx[s]
      BY <1>0, <1>2, <1>4, <2>1 DEF LockInv, Unlocked
    <3>4. DOMAIN imtx' = Slots
      BY <1>0, <1>2, <2>1 DEF LockInv, Unlocked
    <3> QED BY <1>7, <3>1, <3>2, <3>3, <3>4
  <2>2. CASE /\ slot' = Less(sl, u) /\ imtx' = mx /\ Goto(p, "cfail")
             /\ loc' = [loc EXCEPT ![p] = g]
    <3>1. loc'[p] = g /\ \A q \in Procs \ {p} : loc'[q] = loc[q]
      BY <1>0, <2>2 DEF LocalsOK
    <3>2. pc'[p] = "cfail" /\ \A q \in Procs \ {p} : pc'[q] = pc[q]
      BY <1>0, <2>2 DEF Goto, LocalsOK
    <3>3. DOMAIN imtx' = Slots
      BY <1>0, <1>2, <2>2 DEF LockInv, Unlocked
    <3> QED BY <1>7, <2>2, <3>1, <3>2, <3>3
  <2> QED BY <1>8, <2>1, <2>2
<1>11. /\ \A j \in Inos \ {n} : dnode'[j] = dnode[j]
       /\ dnode'[n].used /\ dnode'[n].mode = dnode[n].mode /\ dnode'[n].links = 0 /\ DnodeOK'
  <2>1. DnodeOK
    BY <1>0 DEF LinksInv
  <2>2. /\ \A j \in Inos \ {n} : dnode'[j] = dnode[j]
        /\ DOMAIN dnode' = Inos
    BY <1>3, <1>4, <2>1 DEF DnodeOK
  <2>3. /\ dnode'[n].used = dnode[n].used /\ dnode'[n].mode = dnode[n].mode
        /\ dnode'[n].links = 0 /\ DOMAIN dnode'[n] = {"used", "mode", "links"}
    BY <1>3, <1>4, <2>1 DEF DnodeOK
  <2>4. dnode'[n].links \in Int /\ dnode'[n].used \in BOOLEAN
    BY <1>4, <2>1, <2>3 DEF DnodeOK
  <2> QED BY <1>4, <2>1, <2>2, <2>3, <2>4 DEF DnodeOK
<1>12. \A j : Settled(j)' <=> Settled(j)
  BY <1>3 DEF Settled
<1>13. Eff(p)' = "cfail"
  BY <1>10 DEF Eff
<1>14. OwnLocks(p) /\ CalmLocks(p)
  <2>1. \A s \in Slots : imtx[s] = p => s = t \/ s = u
    <3>1. \A s \in Slots : imtx[s] = p => Holds(p, s)
      BY <1>0, FilesAssumption DEF LockInv
    <3> QED BY <1>1, <1>3, <3>1 DEF Holds
  <2>2. Holds(p, t)'
    BY <1>10, <1>13 DEF Holds, InParent
  <2>3. CASE pc'[p] = "ifree" /\ loc'[p].dead = u /\ \A s \in Slots : imtx'[s] = imtx[s]
    <3>1. Holds(p, u)'
      BY <2>3 DEF Holds
    <3> QED BY <1>0, <1>10, <2>1, <2>2, <2>3, <3>1 DEF OwnLocks, CalmLocks, LockInv
  <2>4. CASE imtx' = mx
    BY <1>2, <1>4, <2>1, <2>2, <2>4, LocksDrop
  <2> QED BY <1>10, <2>3, <2>4
<1>15. Calm(p)
  <2>1. CalmDisk(p)
    <3>1. \A j \in Inos : Settled(j) => dnode'[j].mode = dnode[j].mode
      BY <1>4, <1>11
    <3>2. \A j \in Inos : dnode'[j] # dnode[j] => Writes(p, j)
      BY <1>1, <1>3, <1>11 DEF Writes
    <3> QED BY <1>3, <1>12, <3>1, <3>2 DEF CalmDisk
  <2>2. \A s \in Slots : KeptSlot(p, s)
    BY <1>4, <1>9 DEF KeptSlot
  <2> QED BY <1>10, <1>14, <2>1, <2>2 DEF Calm
<1>16. PairInv'
  <2> SUFFICES ASSUME NEW a \in Procs, NEW b \in Procs, a # b, pc'[a] \in Making
               PROVE  /\ pc'[b] \in Making => loc'[b].no # loc'[a].no
                      /\ pc'[b] = "ifree" => slot'[loc'[b].dead].no # loc'[a].no
    BY DEF PairInv
  <2>1. a # p /\ pc[a] \in Making /\ loc'[a] = loc[a] /\ pc'[p] \notin Making
    BY <1>10 DEF Making
  <2>2. CASE b = p
    <3>1. loc[a].no # n
      BY <1>0, <1>1, <1>3, <2>1 DEF PairInv, Making
    <3> QED BY <1>9, <1>10, <2>1, <2>2, <3>1
  <2>3. CASE b # p
    <3>1. pc'[b] = pc[b] /\ loc'[b] = loc[b]
      BY <1>10, <2>3
    <3>2. pc[b] = "ifree" => slot'[loc[b].dead].no = slot[loc[b].dead].no
      <4>1. pc[b] = "ifree" => loc[b].dead \in Slots
        BY DEF NameInv, CallInv, Dies
      <4> QED BY <1>4, <1>9, <4>1
    <3> QED BY <1>0, <2>1, <3>1, <3>2 DEF PairInv
  <2> QED BY <2>2, <2>3
<1>17. TreeInv'
  <2>1. entries' = entries
    BY <1>3
  <2>2. \A j \in Inos : Settled(j) => dnode'[j] = dnode[j]
    BY <1>4, <1>11
  <2> QED BY <1>0, <1>12, <2>1, <2>2 DEF TreeInv
<1>18. LinksInv'
  <2>1. ASSUME NEW j \in Inos, Settled(j)' PROVE (dnode[j].used /\ LinksCover(j))'
    <3>1. j # n /\ Settled(j)
      BY <1>4, <1>12, <2>1
    <3>2. dnode'[j] = dnode[j] /\ dnode[j].used /\ LinksCover(j) /\ dnode[j].links \in Int
      BY <1>0, <1>11, <3>1 DEF LinksInv, DnodeOK
    <3>3. NoNewLink(p)
      BY <1>4, <1>10 DEF NoNewLink, IsLinking
    <3>4. /\ Cardinality(Linking(j)') <= Cardinality(Linking(j))
          /\ Cardinality(Linking(j)) \in Nat /\ Cardinality(Linking(j)') \in Nat
          /\ Cardinality(NamesOf(j)) \in Nat /\ NamesOf(j)' = NamesOf(j)
      BY <1>3, <1>15, <3>3, LinkingShrinks, NamesFinite DEF NamesOf
    <3> QED BY <3>2, <3>4 DEF LinksCover
  <2> QED BY <1>11, <2>1 DEF LinksInv
<1>19. InSlotInv'
  <2>1. ASSUME NEW s \in Slots PROVE Unwritten(s)' <=> Unwritten(s)
    BY <1>3, <1>10 DEF Unwritten
  <2>2. ~Unwritten(u)
    <3> SUFFICES ASSUME NEW q \in Procs, pc[q] = "cnew", loc[q].cur = u PROVE FALSE
      BY DEF Unwritten
    <3>1. slot[u].no = loc[q].no
      BY DEF NameInv, CallInv, Makes
    <3>2. q # p
      BY <1>3
    <3> QED BY <1>0, <1>1, <1>3, <1>4, <3>1, <3>2 DEF PairInv, Making
  <2>3. ASSUME NEW s \in Slots
        PROVE  /\ slot[s].valid \in BOOLEAN /\ slot[s].dev \in {0, 1}
               /\ slot[s].dev = 1 => slot[s].no \in Inos
               /\ slot[s].dev = 0 /\ slot[s].count > 0 => slot[s].mode = "fifo"
               /\ slot[s].dev = 1 /\ slot[s].valid /\ ~Unwritten(s) =>
                     /\ slot[s].links = dnode[slot[s].no].links
                     /\ slot[s].mode = dnode[slot[s].no].mode
    BY <1>0 DEF InSlotInv
  <2>4. ASSUME NEW s \in Slots
        PROVE  /\ slot'[s].valid \in BOOLEAN /\ slot'[s].dev \in {0, 1}
               /\ slot'[s].dev = 1 => slot'[s].no \in Inos
               /\ slot'[s].dev = 0 /\ slot'[s].count > 0 => slot'[s].mode = "fifo"
               /\ slot'[s].dev = 1 /\ slot'[s].valid /\ ~Unwritten(s)' =>
                     /\ slot'[s].links = dnode'[slot'[s].no].links
                     /\ slot'[s].mode = dnode'[slot'[s].no].mode
    <3>1. CASE s = u
      <4>1. slot'[s].dev # 0 /\ slot'[s].dev \in {0, 1} /\ slot'[s].no \in Inos
        BY <1>4, <1>9, <3>1, 1 # 0
      <4>2. slot'[s].valid \in BOOLEAN
        BY <1>4, <1>9, <2>3, <3>1
      <4>3. slot[u].mode = dnode[n].mode
        BY <1>4, <2>2, <2>3
      <4>4. slot'[s].links = dnode'[slot'[s].no].links
            /\ slot'[s].mode = dnode'[slot'[s].no].mode
        BY <1>9, <1>11, <3>1, <4>3
      <4> QED BY <4>1, <4>2, <4>4
    <3>2. CASE s # u
      <4>1. slot'[s] = slot[s] /\ (Unwritten(s)' <=> Unwritten(s))
        BY <1>9, <2>1, <3>2
      <4>2. slot[s].dev = 1 => slot[s].no # n
        BY <1>4, <3>2, OnlySlot
      <4>3. slot[s].dev = 1 /\ slot[s].no \in Inos => dnode'[slot[s].no] = dnode[slot[s].no]
        BY <1>11, <4>2
      <4> HIDE DEF Unwritten
      <4> QED BY <2>3, <4>1, <4>3
    <3> QED BY <3>1, <3>2
  <2> QED BY <2>4 DEF InSlotInv
<1>20. CallInv(p)'
  <2>1. Paths(p)' /\ Walks(p)' /\ Relinks(p)' /\ Makes(p)'
    BY <1>0, <1>4, <1>10 DEF CallInv, Paths, Walks, Relinks, Makes, Making
  <2>2. Sits(t)' /\ IsDir(t)' /\ slot'[t].valid
    BY <1>15, <1>5, SitsKept DEF Calm
  <2>3. imtx'[t] = p
    BY <1>0, <1>2, <1>5, <1>10 DEF LockInv, Unlocked
  <2>4. Climbs(p)'
    BY <1>10, <1>13, <2>2, <2>3 DEF Climbs, Sits, IsDir
  <2>5. Dies(p)'
    <3>1. CASE pc'[p] = "ifree" /\ loc'[p].dead = u /\ loc'[p].then = "cfail"
               /\ \A s \in Slots : imtx'[s] = imtx[s]
      <4>1. ~Settled(n)' /\ imtx'[u] = p /\ dnode'[n].used
        BY <1>4, <1>11, <1>12, <3>1
      <4> QED BY <1>4, <1>9, <3>1, <4>1 DEF Dies, Settled
    <3>2. CASE pc'[p] = "cfail"
      BY <3>2 DEF Dies
    <3> QED BY <1>10, <3>1, <3>2
  <2> QED BY <2>1, <2>4, <2>5 DEF CallInv
<1>21. pc'[p] \notin {"size", "dents"}
  BY <1>10
<1> QED BY <1>3, <1>14, <1>15, <1>16, <1>17, <1>18, <1>19, <1>20, <1>21, DiskNext

Dirlinked(d, n, m, isdir) ==
    entries' = [entries EXCEPT ![d][m] = n,
         ![n] = IF isdir THEN [@ EXCEPT !["."] = n, ![".."] = d] ELSE @]

(* dirlink() of the new inode n as the name m of the directory d: the      *)
(* directories are a tree still.                                           *)
LEMMA TreeLink ==
  ASSUME NameInv, NEW d \in Inos, NEW n \in Inos, NEW m \in Names, NEW isdir \in BOOLEAN,
         Settled(d), dnode[d].mode = "dir", ~Settled(n), entries[d][m] = 0,
         dnode[n].mode = (IF isdir THEN "dir" ELSE "reg"),
         Dirlinked(d, n, m, isdir),
         \A j \in Inos : dnode'[j].mode = dnode[j].mode
  PROVE  /\ \A j \in Inos : Settled(j)' <=> Settled(j) \/ j = n
         /\ \A j \in Inos, x \in DirNames : entries[j][x] # 0 => entries'[j][x] = entries[j][x]
         /\ \A j \in Inos \ {d, n} : entries'[j] = entries[j]
         /\ \A j \in Inos \ {n} : NamesOf(j)' = NamesOf(j)
         /\ NamesOf(n)' = {<<d, m>>}
         /\ TreeInv'
<1>0. TreeInv
  BY DEF NameInv
<1>1. /\ Names \subseteq DirNames /\ {".", ".."} \subseteq DirNames
      /\ "." \notin Names /\ ".." \notin Names
  BY TreeAssumption DEF DirNames
<1>2. n # d /\ n # Root /\ 0 \notin Inos
  BY DEF Settled, Inos
<1>3. \A x \in DirNames : entries[n][x] = 0
  BY <1>0 DEF TreeInv
<1>4. entries \in [Inos -> [DirNames -> Inos \cup {0}]]
  BY <1>0 DEF TreeInv
<1>5. /\ \A j \in Inos \ {d, n} : entries'[j] = entries[j]
      /\ entries'[d] = [entries[d] EXCEPT ![m] = n]
      /\ entries'[n] = IF isdir THEN [entries[n] EXCEPT !["."] = n, ![".."] = d]
                       ELSE entries[n]
      /\ DOMAIN entries' = Inos
  BY <1>2, <1>4 DEF Dirlinked
<1>6. /\ entries'[d][m] = n
      /\ \A x \in DirNames \ {m} : entries'[d][x] = entries[d][x]
  BY <1>1, <1>4, <1>5
<1>7. /\ isdir => entries'[n]["."] = n /\ entries'[n][".."] = d
      /\ ~isdir => \A x \in DirNames : entries'[n][x] = 0
      /\ \A x \in Names : entries'[n][x] = 0
  <2>1. isdir => entries'[n] = [entries[n] EXCEPT !["."] = n, ![".."] = d]
    BY <1>5
  <2>2. ~isdir => entries'[n] = entries[n]
    BY <1>5
  <2>3. isdir => /\ entries'[n]["."] = n /\ entries'[n][".."] = d
                 /\ \A x \in Names : entries'[n][x] = entries[n][x]
    BY <1>1, <1>4, <2>1
  <2> QED BY <1>1, <1>3, <2>2, <2>3
<1>8. entries' \in [Inos -> [DirNames -> Inos \cup {0}]]
  <2>1. entries'[d] \in [DirNames -> Inos \cup {0}]
    BY <1>1, <1>4, <1>5
  <2>2. entries'[n] \in [DirNames -> Inos \cup {0}]
    <3>1. CASE isdir
      <4>1. entries'[n] = [entries[n] EXCEPT !["."] = n, ![".."] = d]
        BY <1>5, <3>1
      <4> QED BY <1>1, <1>4, <4>1
    <3>2. CASE ~isdir
      BY <1>4, <1>5, <3>2
    <3> QED BY <3>1, <3>2
  <2>3. \A j \in Inos : entries'[j] \in [DirNames -> Inos \cup {0}]
    BY <1>4, <1>5, <2>1, <2>2
  <2>4. entries' = [j \in Inos |-> entries'[j]]
    BY <1>4 DEF Dirlinked
  <2> QED BY <2>3, <2>4
<1>9. \A j \in Inos, x \in DirNames : entries[j][x] # 0 => entries'[j][x] = entries[j][x]
  BY <1>3, <1>5, <1>6
<1>10. \A j \in Inos, x \in Names :
          entries'[j][x] = entries[j][x] \/ (j = d /\ x = m /\ entries'[j][x] = n)
  <2> TAKE j \in Inos, x \in Names
  <2>1. CASE j = n
    BY <1>1, <1>3, <1>7, <2>1
  <2>2. CASE j = d
    BY <1>1, <1>6, <2>2
  <2>3. CASE j \notin {d, n}
    BY <1>5, <2>3
  <2> QED BY <2>1, <2>2, <2>3
<1>11. \A j \in Inos : Settled(j)' <=> Settled(j) \/ j = n
  <2>1. ASSUME NEW j \in Inos, Settled(j)' PROVE Settled(j) \/ j = n
    BY <1>10, <2>1 DEF Settled
  <2>2. ASSUME NEW j \in Inos, Settled(j) PROVE Settled(j)'
    BY <1>1, <1>2, <1>9, <2>2 DEF Settled
  <2>3. Settled(n)'
    BY <1>6 DEF Settled
  <2> QED BY <2>1, <2>2, <2>3
<1>12. ASSUME NEW j \in Inos \ {n} PROVE NamesOf(j)' = NamesOf(j)
  <2>1. \A i \in Inos, x \in Names : entries'[i][x] = j <=> entries[i][x] = j
    <3>1. j # 0 /\ j # n
      BY <1>2
    <3> QED BY <1>1, <1>10, <1>9, <3>1
  <2>2. \A dm \in Inos \X Names : entries'[dm[1]][dm[2]] = j <=> entries[dm[1]][dm[2]] = j
    BY <2>1
  <2> QED BY <2>2 DEF NamesOf
<1>13. NamesOf(n)' = {<<d, m>>}
  <2>1. \A i \in Inos, x \in Names : entries'[i][x] = n <=> i = d /\ x = m
    BY <1>6, <1>10 DEF Settled
  <2>2. \A dm \in Inos \X Names : entries'[dm[1]][dm[2]] = n <=> dm = <<d, m>>
    BY <2>1
  <2> QED BY <2>2 DEF NamesOf
<1>14. entries'[Root][".."] = Root
  <2>1. entries[Root][".."] = Root /\ Root # 0 /\ Root \in Inos
    BY <1>0, FilesAssumption DEF TreeInv, Root, Inos
  <2> QED BY <1>1, <1>9, <2>1
<1>15. ASSUME NEW j \in Inos, NEW x \in DirNames, NEW e, e = entries'[j][x], e # 0
       PROVE  /\ Settled(j)' /\ dnode'[j].mode = "dir" /\ Settled(e)'
              /\ x \in Names /\ dnode'[e].mode = "dir" => entries'[e][".."] = j
  <2>1. CASE j = d /\ x = m
    <3>1. e = n
      BY <1>6, <1>15, <2>1
    <3>2. dnode'[n].mode = "dir" => isdir
      OBVIOUS
    <3>3. Settled(n)' /\ Settled(d)'
      BY <1>11
    <3> QED BY <1>7, <2>1, <3>1, <3>2, <3>3
  <2>2. CASE j = n
    <3>1. isdir /\ x \in {".", ".."} /\ e \in {n, d}
      BY <1>1, <1>7, <1>15, <2>2 DEF DirNames
    <3>2. Settled(n)' /\ Settled(d)' /\ dnode'[n].mode = "dir"
      BY <1>11, <3>1
    <3> QED BY <1>1, <2>2, <3>1, <3>2
  <2>3. CASE j # n /\ ~(j = d /\ x = m)
    <3>1. e = entries[j][x]
      BY <1>5, <1>6, <1>15, <2>3
    <3>2. /\ Settled(j) /\ dnode[j].mode = "dir" /\ Settled(e) /\ e \in Inos
          /\ x \in Names /\ dnode[e].mode = "dir" => entries[e][".."] = j
      BY <1>0, <1>4, <1>15, <3>1 DEF TreeInv
    <3>3. Settled(j)' /\ Settled(e)' /\ dnode'[j].mode = "dir" /\ dnode'[e].mode = dnode[e].mode
      BY <1>11, <3>2
    <3>4. entries[e][".."] = j => entries'[e][".."] = j
      BY <1>1, <1>2, <1>9, <3>2
    <3> QED BY <3>2, <3>3, <3>4
  <2> QED BY <2>1, <2>2, <2>3
<1>16. ASSUME NEW j \in Inos, Settled(j)', dnode'[j].mode = "dir"
       PROVE  entries'[j]["."] = j /\ entries'[j][".."] # 0
  <2>1. CASE j = n
    BY <1>2, <1>7, <1>16, <2>1
  <2>2. CASE j # n
    <3>1. entries[j]["."] = j /\ entries[j][".."] # 0 /\ j # 0
      BY <1>0, <1>2, <1>11, <1>16, <2>2 DEF TreeInv
    <3> QED BY <1>1, <1>9, <3>1
  <2> QED BY <2>1, <2>2
<1>17. TreeInv'
  BY <1>8, <1>14, <1>15, <1>16 DEF TreeInv, Settled
<1> QED BY <1>5, <1>9, <1>11, <1>12, <1>13, <1>17

(* The new inode gets its name, and with it it is settled.                 *)
LEMMA NameCreateLink ==
  ASSUME FcbInv, TableInv, NameInv, NEW p \in Procs, CreateLink(p)
  PROVE  NameInv'
<1> DEFINE k == loc[p]
<1>0. /\ LocalsOK /\ TableOK(slot) /\ CallInv(p) /\ LinksInv /\ TreeInv /\ InSlotInv
      /\ LockInv /\ PairInv
  BY DEF TableInv, NameInv
<1>1. PICK n, u, t, g, d, m, isdir :
         /\ n = k.no /\ u = k.cur /\ t = k.par /\ g = [k EXCEPT !.par = None]
         /\ d = slot[t].no /\ m = k.rest[1] /\ isdir = (k.call.name = "mkdir")
  OBVIOUS
<1>2. isdir \in BOOLEAN
  BY <1>1
<1>3. PICK sl : sl = IF k.call.name = "mkdir" THEN [slot EXCEPT ![t].links = @ + 1] ELSE slot
  OBVIOUS
<1>m. PICK mx : mx = [imtx EXCEPT ![t] = None, ![u] = None]
  OBVIOUS
<1>4. /\ pc[p] = "clink" /\ Dirlinked(d, n, m, isdir)
      /\ dnode' = [dnode EXCEPT ![d].links = sl[t].links]
      /\ Put(p, sl, mx, t, g, "found")
      /\ UNCHANGED <<files, fdtable, icwd, alive>>
  <2>1. pc[p] = "clink" /\ UNCHANGED <<files, fdtable, icwd, alive>>
    BY DEF CreateLink, fileVars, procVars
  <2>4. dnode' = [dnode EXCEPT ![d].links = sl[t].links]
    BY <1>1, <1>3 DEF CreateLink
  <2>5. Dirlinked(d, n, m, k.call.name = "mkdir")
    BY <1>1 DEF CreateLink, LastName, Dirlinked
  <2>2. Put(p, sl, mx, t, g, "found")
    BY <1>1, <1>3, <1>m DEF CreateLink
  <2>3. Dirlinked(d, n, m, isdir)
    BY <1>1, <2>5
  <2> QED BY <2>1, <2>2, <2>3, <2>4
<1>5. /\ n \in Inos /\ ~Settled(n) /\ dnode[n].used /\ k.call.name # "link2"
      /\ m \in Names /\ Entry(t, m) = 0 /\ dnode[n].links = 1
      /\ dnode[n].mode = (IF isdir THEN "dir" ELSE "reg")
      /\ u \in Slots /\ slot[u].dev = 1 /\ slot[u].no = n /\ slot[u].valid /\ imtx[u] = p
  BY <1>0, <1>1, <1>4 DEF CallInv, Makes, Making
<1>6. t \in Slots /\ Sits(t) /\ IsDir(t) /\ slot[t].count > 0
      /\ imtx[t] = p /\ slot[t].valid /\ t # u
  <2>1. t \in Slots /\ Sits(t) /\ IsDir(t) /\ slot[t].count > 0
        /\ imtx[t] = p /\ slot[t].valid
    BY <1>0, <1>1, <1>4, AtPar DEF CallInv, Climbs, Eff, InParent, Making
  <2> QED BY <1>5, <2>1 DEF Sits
<1>7. /\ d \in Inos /\ Settled(d) /\ dnode[d].mode = "dir" /\ slot[t].dev = 1
      /\ entries[d][m] = 0 /\ d # n
  BY <1>1, <1>5, <1>6 DEF Sits, IsDir, Entry
<1>8. PICK L : L = sl[t].links
  OBVIOUS
<1>9. /\ slot[t].links = dnode[d].links /\ slot[t].mode = dnode[d].mode
      /\ dnode[d].links >= 1 /\ dnode[d].links \in Int
  BY <1>1, <1>6, <1>7, SitsRead, SettledLinks
<1>10. /\ \A s \in Slots \ {t} : sl[s] = slot[s]
       /\ sl[t].dev = 1 /\ sl[t].no = d /\ sl[t].valid = slot[t].valid
       /\ sl[t].mode = slot[t].mode /\ L \in Int /\ L >= dnode[d].links
       /\ DOMAIN sl = Slots /\ DOMAIN sl[t] = SlotFields
  <2>1. CASE isdir
    <3>1. sl = [slot EXCEPT ![t].links = @ + 1]
      BY <1>1, <1>3, <2>1
    <3>2. /\ \A s \in Slots \ {t} : sl[s] = slot[s]
          /\ sl[t].dev = slot[t].dev /\ sl[t].no = slot[t].no /\ sl[t].valid = slot[t].valid
          /\ sl[t].mode = slot[t].mode /\ sl[t].links = slot[t].links + 1
          /\ DOMAIN sl = Slots /\ DOMAIN sl[t] = SlotFields
      BY <1>0, <1>6, <3>1 DEF TableOK, SlotFields
    <3> QED BY <1>1, <1>7, <1>8, <1>9, <3>2
  <2>2. CASE ~isdir
    <3>1. sl = slot
      BY <1>1, <1>3, <2>2
    <3>2. DOMAIN slot = Slots /\ DOMAIN slot[t] = SlotFields
      BY <1>0, <1>6 DEF TableOK
    <3>3. L = slot[t].links /\ L \in Int /\ L >= dnode[d].links
      BY <1>8, <1>9, <3>1
    <3> QED BY <1>1, <1>7, <3>1, <3>2, <3>3
  <2> QED BY <1>2, <2>1, <2>2
<1>11. ~Dying(sl[t])
  BY <1>8, <1>9, <1>10 DEF Dying
<1>12. /\ slot' = Less(sl, t) /\ imtx' = mx /\ Goto(p, "found")
       /\ loc' = [loc EXCEPT ![p] = g]
  BY <1>4, <1>11 DEF Put, Less
<1>13. /\ \A s \in Slots \ {t} : slot'[s] = slot[s]
       /\ slot'[t].dev = 1 /\ slot'[t].no = d /\ slot'[t].valid = slot[t].valid
       /\ slot'[t].mode = slot[t].mode /\ slot'[t].links = L
  <2>1. PICK sm : sm = Less(sl, t)
    OBVIOUS
  <2>2. /\ \A s \in Slots \ {t} : sm[s] = sl[s]
        /\ sm[t].dev = sl[t].dev /\ sm[t].no = sl[t].no /\ sm[t].valid = sl[t].valid
        /\ sm[t].mode = sl[t].mode /\ sm[t].links = sl[t].links
    BY <1>6, <1>10, <2>1 DEF Less, SlotFields
  <2> QED BY <1>8, <1>10, <1>12, <2>1, <2>2
<1>14. /\ pc'[p] = "found" /\ loc'[p].rest = k.rest /\ loc'[p].call = k.call
       /\ loc'[p].cur = u
       /\ \A q \in Procs \ {p} : pc'[q] = pc[q] /\ loc'[q] = loc[q]
  BY <1>0, <1>1, <1>12 DEF Goto, LocalsOK, LocFields
<1>15. /\ \A j \in Inos \ {d} : dnode'[j] = dnode[j]
       /\ dnode'[d].used = dnode[d].used /\ dnode'[d].mode = dnode[d].mode
       /\ dnode'[d].links = L /\ DnodeOK'
  <2>1. DnodeOK
    BY <1>0 DEF LinksInv
  <2>2. /\ \A j \in Inos \ {d} : dnode'[j] = dnode[j]
        /\ DOMAIN dnode' = Inos
    BY <1>4, <1>7, <2>1 DEF DnodeOK
  <2>3. /\ dnode'[d].used = dnode[d].used /\ dnode'[d].mode = dnode[d].mode
        /\ dnode'[d].links = L /\ DOMAIN dnode'[d] = {"used", "mode", "links"}
    BY <1>4, <1>7, <1>8, <2>1 DEF DnodeOK
  <2>4. dnode'[d].links \in Int /\ dnode'[d].used \in BOOLEAN
    BY <1>7, <1>10, <2>1, <2>3 DEF DnodeOK
  <2> QED BY <2>1, <2>2, <2>3, <2>4 DEF DnodeOK
<1>16. /\ \A j \in Inos : Settled(j)' <=> Settled(j) \/ j = n
       /\ \A j \in Inos, x \in DirNames : entries[j][x] # 0 => entries'[j][x] = entries[j][x]
       /\ \A j \in Inos \ {d, n} : entries'[j] = entries[j]
       /\ \A j \in Inos \ {n} : NamesOf(j)' = NamesOf(j)
       /\ NamesOf(n)' = {<<d, m>>}
       /\ TreeInv'
  <2>1. \A j \in Inos : dnode'[j].mode = dnode[j].mode
    BY <1>15
  <2> QED BY <1>2, <1>4, <1>5, <1>7, <2>1, TreeLink
<1>17. OwnLocks(p) /\ CalmLocks(p)
  <2>1. \A s \in Slots : imtx[s] = p => s = t \/ s = u
    <3>1. \A s \in Slots : imtx[s] = p => Holds(p, s)
      BY <1>0, FilesAssumption DEF LockInv
    <3> QED BY <1>1, <1>4, <3>1 DEF Holds
  <2>2. /\ \A s \in Slots \ {t, u} : imtx'[s] = imtx[s]
        /\ imtx'[t] = None /\ imtx'[u] = None /\ DOMAIN imtx' = Slots
    BY <1>0, <1>m, <1>5, <1>6, <1>12 DEF LockInv
  <2>3. /\ \A s \in Slots : imtx[s] # None => imtx[s] \in Procs
        /\ None \notin Procs
    BY <1>0, FilesAssumption DEF LockInv
  <2>4. CalmLocks(p)
    BY <1>5, <1>6, <2>2, <2>3 DEF CalmLocks
  <2>5. \A s \in Slots : imtx'[s] # p
    BY <2>1, <2>2, <2>3
  <2> QED BY <2>2, <2>3, <2>4, <2>5 DEF OwnLocks
<1>18. Calm(p)
  <2>1. CalmDisk(p)
    <3>1. \A j \in Inos : Settled(j) => dnode'[j].mode = dnode[j].mode
      BY <1>15
    <3>2. \A j \in Inos : dnode'[j] # dnode[j] => Writes(p, j)
      BY <1>7, <1>15 DEF Writes
    <3>3. ASSUME NEW s \in Slots, slot[s].dev = 1, imtx[s] \in Procs \ {p}
          PROVE  entries'[slot[s].no] = entries[slot[s].no]
      <4>1. slot[s].no # d /\ slot[s].no # n
        BY <1>1, <1>5, <1>6, <1>7, <3>3, OnlySlot
      <4>2. slot[s].no \in Inos
        BY <1>0, <3>3 DEF InSlotInv
      <4> QED BY <1>16, <4>1, <4>2
    <3>4. \A j \in Inos : ~Settled(j) /\ Settled(j)' => pc[p] = "clink" /\ j = loc[p].no
      BY <1>1, <1>4, <1>16
    <3> QED BY <1>16, <3>1, <3>2, <3>3, <3>4 DEF CalmDisk
  <2>2. \A s \in Slots : KeptSlot(p, s)
    BY Zenon, <1>1, <1>6, <1>7, <1>13 DEF KeptSlot
  <2> QED BY <1>14, <1>17, <2>1, <2>2 DEF Calm
<1>19. PairInv'
  BY <1>14, <1>18, PairKept DEF NoNew, Making
<1>20. LinksInv'
  <2>1. NoNewLink(p)
    BY <1>5, <1>14 DEF NoNewLink, IsLinking
  <2>2. ASSUME NEW j \in Inos, Settled(j)' PROVE (dnode[j].used /\ LinksCover(j))'
    <3>1. CASE j # n
      <4>1. Settled(j) /\ NamesOf(j)' = NamesOf(j)
        BY <1>16, <2>2, <3>1
      <4>2. dnode[j].used /\ LinksCover(j) /\ dnode[j].links \in Int
        BY <1>0, <4>1 DEF LinksInv, DnodeOK
      <4>3. dnode'[j].used /\ dnode'[j].links >= dnode[j].links /\ dnode'[j].links \in Int
        BY <1>10, <1>15, <4>2
      <4>4. /\ Cardinality(Linking(j)') <= Cardinality(Linking(j))
            /\ Cardinality(Linking(j)) \in Nat /\ Cardinality(Linking(j)') \in Nat
            /\ Cardinality(NamesOf(j)) \in Nat
        BY <1>18, <2>1, LinkingShrinks, NamesFinite
      <4> QED BY <4>1, <4>2, <4>3, <4>4 DEF LinksCover
    <3>2. CASE j = n
      <4>1. Linking(n)' = {}
        <5> SUFFICES ASSUME NEW q \in Procs, q \in Linking(n)' PROVE FALSE
          BY DEF Linking
        <5>1. q \in Linking(n)
          BY <1>18, <2>1, <1>5, LinkingShrinks
        <5>2. Sits(loc[q].obj) /\ slot[loc[q].obj].no = n
          BY <5>1 DEF Linking, NameInv, CallInv, Relinks
        <5> QED BY <1>5, <5>2 DEF Sits
      <4>2. Cardinality(NamesOf(n)') = 1 /\ Cardinality(Linking(n)') = 0
        BY <1>16, <4>1, FS_Singleton, FS_EmptySet
      <4>3. n # Root
        BY <1>5 DEF Settled
      <4>4. dnode'[n].used /\ dnode'[n].links = 1
        BY <1>5, <1>7, <1>15
      <4> QED BY <3>2, <4>2, <4>3, <4>4 DEF LinksCover
    <3> QED BY <3>1, <3>2
  <2> QED BY <1>15, <2>2 DEF LinksInv, Settled
<1>21. InSlotInv'
  <2>1. ASSUME NEW s \in Slots PROVE Unwritten(s)' <=> Unwritten(s)
    BY <1>4, <1>14 DEF Unwritten
  <2>2. ASSUME NEW s \in Slots
        PROVE  /\ slot[s].valid \in BOOLEAN /\ slot[s].dev \in {0, 1}
               /\ slot[s].dev = 1 => slot[s].no \in Inos
               /\ slot[s].dev = 0 /\ slot[s].count > 0 => slot[s].mode = "fifo"
               /\ slot[s].dev = 1 /\ slot[s].valid /\ ~Unwritten(s) =>
                     /\ slot[s].links = dnode[slot[s].no].links
                     /\ slot[s].mode = dnode[slot[s].no].mode
    BY <1>0 DEF InSlotInv
  <2>3. ASSUME NEW s \in Slots
        PROVE  /\ slot'[s].valid \in BOOLEAN /\ slot'[s].dev \in {0, 1}
               /\ slot'[s].dev = 1 => slot'[s].no \in Inos
               /\ slot'[s].dev = 0 /\ slot'[s].count > 0 => slot'[s].mode = "fifo"
               /\ slot'[s].dev = 1 /\ slot'[s].valid /\ ~Unwritten(s)' =>
                     /\ slot'[s].links = dnode'[slot'[s].no].links
                     /\ slot'[s].mode = dnode'[slot'[s].no].mode
    <3>1. CASE s = t
      <4>1. slot'[s].dev # 0 /\ slot'[s].dev \in {0, 1} /\ slot'[s].no \in Inos
        BY <1>7, <1>13, <3>1, 1 # 0
      <4>2. slot'[s].valid \in BOOLEAN
        BY <1>6, <1>13, <2>2, <3>1
      <4>3. slot'[s].links = dnode'[slot'[s].no].links
            /\ slot'[s].mode = dnode'[slot'[s].no].mode
        BY <1>9, <1>13, <1>15, <3>1
      <4> QED BY <4>1, <4>2, <4>3
    <3>2. CASE s # t
      <4>1. slot'[s] = slot[s] /\ (Unwritten(s)' <=> Unwritten(s))
        BY <1>13, <2>1, <3>2
      <4>2. slot[s].dev = 1 => slot[s].no # d
        BY <1>1, <1>6, <1>7, <3>2, OnlySlot
      <4>3. slot[s].dev = 1 /\ slot[s].no \in Inos => dnode'[slot[s].no] = dnode[slot[s].no]
        BY <1>15, <4>2
      <4> HIDE DEF Unwritten
      <4> QED BY <2>2, <4>1, <4>3
    <3> QED BY <3>1, <3>2
  <2> QED BY <2>3 DEF InSlotInv
<1>22. CallInv(p)'
  <2>1. Settled(n)' /\ slot'[u].dev = 1 /\ slot'[u].no = n
    BY <1>5, <1>6, <1>13, <1>16
  <2>2. Sits(u)'
    BY <1>5, <2>1 DEF Sits, Settled
  <2>3. Sits(loc[p].cur)'
    BY <1>14, <2>2 DEF Sits, Settled
  <2>4. TypedCall(loc'[p].call) /\ loc'[p].rest \in Seq(DirNames)
    BY <1>0, <1>14 DEF CallInv, Paths, TypedCall
  <2> QED BY <1>5, <1>14, <2>3, <2>4, WalkInv
<1>23. TreeInv' /\ pc[p] # "gone" /\ pc'[p] \notin {"size", "dents"}
  BY <1>4, <1>14, <1>16
<1> QED BY <1>4, <1>17, <1>18, <1>19, <1>20, <1>21, <1>22, <1>23, DiskNext

(* link() of a file: the link of the name to come is counted.              *)
LEMMA NameLinkOld ==
  ASSUME FcbInv, TableInv, NameInv, NEW p \in Procs, LinkOld(p)
  PROVE  NameInv'
<1> DEFINE k == loc[p]
<1>0. /\ LocalsOK /\ TableOK(slot) /\ CallInv(p) /\ LinksInv /\ TreeInv /\ InSlotInv
      /\ LockInv /\ PairInv
  BY DEF TableInv, NameInv
<1>1. PICK s, sl : s = k.cur /\ sl = Loaded(slot, s)
  OBVIOUS
<1>2. PICK n, w : n = slot[s].no /\ w = icwd[p]
  OBVIOUS
<1>3. PICK c, up : c = [name |-> "link2", path |-> k.call.new]
                   /\ up = [sl EXCEPT ![s].links = @ + 1]
  OBVIOUS
<1>4. /\ pc[p] = "found" /\ k.call.name = "link"
      /\ UNCHANGED <<entries, files, fdtable, icwd, alive>>
  BY DEF LinkOld, Is, fileVars, procVars
<1>5. /\ s \in Slots /\ Sits(s) /\ slot[s].dev = 1 /\ slot[s].count > 0
      /\ n \in Inos /\ Settled(n)
  BY <1>1, <1>2, <1>4, AtCur DEF Sits
<1>6. Sits(w) /\ w \in Slots /\ slot[w].count > 0 /\ slot[w].dev = 1
  <2>1. p \in alive
    BY <1>4 DEF FcbInv, Control, Eff
  <2>2. Home(p)
    BY DEF NameInv, HomeInv
  <2>3. Sits(w)
    BY <1>2, <1>4, <2>1, <2>2 DEF Home
  <2> QED BY <1>2, <2>3, CwdInUse DEF Sits
<1>7. /\ TableOK(sl) /\ Tame(sl) /\ sl[s].valid
      /\ \A x \in Slots \ {s} : sl[x] = slot[x]
  BY <1>0, <1>1, <1>5, TameLoaded, LoadedKeeps
<1>8. /\ sl[s].dev = 1 /\ sl[s].no = n
      /\ sl[s].links = dnode[n].links /\ sl[s].mode = dnode[n].mode
  <2>1. SameSlot(slot[s], sl[s]) \/ ReadSlot(slot[s], sl[s])
    <3>1. slot[s].count # 0
      BY <1>5
    <3> QED BY <1>5, <1>7, <3>1 DEF Tame, TakenSlot
  <2>2. CASE SameSlot(slot[s], sl[s])
    BY <1>2, <1>5, <1>7, <2>2, SitsRead DEF SameSlot
  <2>3. CASE ReadSlot(slot[s], sl[s])
    BY <1>2, <2>3 DEF ReadSlot
  <2> QED BY <2>1, <2>2, <2>3
<1>9. CASE sl[s].mode = "dir"
  <2>1. Put(p, sl, imtx, s, NoLoc, "user") /\ dnode' = dnode
    BY <1>1, <1>9 DEF LinkOld
  <2>2. /\ "user" \in OffPath /\ NoLoc.rest \in Seq(DirNames)
        /\ NoLoc.call.name \notin {"link", "link2"}
    BY DEF OffPath, NoLoc, NoCall
  <2>3. /\ imtx' = imtx /\ IdleCall(p)' /\ pc'[p] = "user"
        /\ CalmLocks(p) => TameStep(p)
    <3>1. UNCHANGED <<dnode, entries>>
      BY <1>4, <2>1
    <3> QED BY <1>5, <1>7, <2>1, <2>2, <3>1, PutIdle
  <2>4. pc[p] \notin MayLock
    BY <1>4 DEF MayLock, InParent, Making
  <2>5. OwnLocks(p) /\ TameStep(p)
    BY <2>3, <2>4, LocksStay
  <2> QED BY <1>4, <2>3, <2>5, IdleNext
<1>10. CASE sl[s].mode # "dir"
  <2>0. PICK j, L : /\ j = [NoLoc EXCEPT !.call = c, !.obj = s, !.rest = c.path.elems,
                                  !.cur = IF c.path.abs THEN None ELSE w]
                    /\ L = dnode[n].links + 1
    OBVIOUS
  <2>1. /\ dnode' = [dnode EXCEPT ![n].links = up[s].links]
        /\ slot' = IF c.path.abs THEN up ELSE [up EXCEPT ![w].count = @ + 1]
        /\ loc' = [loc EXCEPT ![p] = j]
        /\ Goto(p, IF c.path.abs THEN "root" ELSE "walk") /\ imtx' = imtx
    <3>0. Loaded(slot, k.cur)[k.cur].mode # "dir"
      BY <1>1, <1>10
    <3>1. dnode' = [dnode EXCEPT ![sl[s].no].links = up[s].links]
      <4>1. dnode' = [dnode EXCEPT ![Loaded(slot, k.cur)[k.cur].no].links =
                        [Loaded(slot, k.cur) EXCEPT ![k.cur].links = @ + 1][k.cur].links]
        BY <3>0 DEF LinkOld
      <4> QED BY <1>1, <1>3, <4>1
    <3>2. slot' = IF c.path.abs THEN up ELSE [up EXCEPT ![w].count = @ + 1]
      BY Zenon, <1>1, <1>2, <1>3, <1>10 DEF LinkOld
    <3>3. loc' = [loc EXCEPT ![p] = [NoLoc EXCEPT !.call = c, !.obj = s,
             !.rest = c.path.elems, !.cur = IF c.path.abs THEN None ELSE w]]
      <4>1. PICK e : e = [name |-> "link2", path |-> k.call.new]
        OBVIOUS
      <4>2. loc' = [loc EXCEPT ![p] = [NoLoc EXCEPT !.call = e, !.obj = k.cur,
               !.rest = e.path.elems, !.cur = IF e.path.abs THEN None ELSE icwd[p]]]
        BY <3>0, <4>1 DEF LinkOld
      <4> QED BY <1>1, <1>2, <1>3, <4>1, <4>2
    <3>4. Goto(p, IF c.path.abs THEN "root" ELSE "walk") /\ imtx' = imtx
      BY Zenon, <1>1, <1>3, <1>10 DEF LinkOld
    <3> QED BY <1>8, <2>0, <3>1, <3>2, <3>3, <3>4
  <2>2. /\ \A x \in Slots \ {s} : up[x] = slot[x]
        /\ up[s].dev = 1 /\ up[s].no = n /\ up[s].valid = sl[s].valid
        /\ up[s].mode = dnode[n].mode /\ up[s].links = L
        /\ TableOK(up)
    BY <1>3, <1>5, <1>7, <1>8, <2>0 DEF TableOK, SlotFields
  <2>3. /\ \A x \in Slots : /\ slot'[x].dev = up[x].dev /\ slot'[x].no = up[x].no
                            /\ slot'[x].valid = up[x].valid /\ slot'[x].mode = up[x].mode
                            /\ slot'[x].links = up[x].links
        /\ \A x \in Slots \ {w} : slot'[x].count = up[x].count
    <3>1. CASE c.path.abs
      BY <2>1, <3>1
    <3>2. CASE ~c.path.abs
      <4>1. slot' = [up EXCEPT ![w].count = @ + 1]
        BY <2>1, <3>2
      <4> QED BY <2>2, <4>1 DEF TableOK, SlotFields
    <3> QED BY <3>1, <3>2
  <2>4. DOMAIN dnode = Inos /\ dnode[n].links \in Int /\ DnodeOK
    BY <1>0, <1>5 DEF LinksInv, DnodeOK
  <2>5. /\ \A x \in Inos \ {n} : dnode'[x] = dnode[x]
        /\ dnode'[n].used = dnode[n].used /\ dnode'[n].mode = dnode[n].mode
        /\ dnode'[n].links = L /\ DnodeOK'
    <3>1. /\ \A x \in Inos \ {n} : dnode'[x] = dnode[x]
          /\ DOMAIN dnode' = Inos
      BY <2>1, <2>4
    <3>2. /\ dnode'[n].used = dnode[n].used /\ dnode'[n].mode = dnode[n].mode
          /\ dnode'[n].links = L /\ DOMAIN dnode'[n] = {"used", "mode", "links"}
      BY <1>5, <2>1, <2>2, <2>4 DEF DnodeOK
    <3>3. dnode'[n].links \in Int /\ dnode'[n].used \in BOOLEAN
      BY <1>5, <2>0, <2>4, <3>2 DEF DnodeOK
    <3> QED BY <2>4, <3>1, <3>2, <3>3 DEF DnodeOK
  <2>6. \A x : Settled(x)' <=> Settled(x)
    BY <1>4 DEF Settled
  <2>7. /\ k.call.new.abs \in BOOLEAN /\ k.call.new.elems \in Seq(DirNames)
    BY <1>0, <1>4 DEF CallInv, Paths
  <2>8. /\ j.rest = k.call.new.elems /\ j.call = c /\ j.obj = s /\ c.name = "link2"
        /\ ~c.path.abs => j.cur = w
    BY <1>3, <2>0 DEF NoLoc
  <2>9. /\ loc'[p] = j /\ pc'[p] = (IF c.path.abs THEN "root" ELSE "walk")
        /\ \A q \in Procs \ {p} : pc'[q] = pc[q] /\ loc'[q] = loc[q]
    BY <1>0, <2>1 DEF Goto, LocalsOK
  <2>10. OwnLocks(p) /\ CalmLocks(p)
    BY <1>4, <2>1, LocksStay DEF MayLock, InParent, Making
  <2>11. Calm(p)
    <3>1. CalmDisk(p)
      <4>1. \A x \in Inos : Settled(x) => dnode'[x].mode = dnode[x].mode
        BY <2>5
      <4>2. \A x \in Inos : dnode'[x] # dnode[x] => Writes(p, x)
        BY <1>5, <2>5 DEF Writes
      <4> QED BY <1>4, <2>6, <4>1, <4>2 DEF CalmDisk
    <3>2. \A x \in Slots : KeptSlot(p, x)
      <4>1. KeptSlot(p, s)
        <5>1. slot[s].dev # 0
          BY <1>5, 1 # 0
        <5> QED BY <1>2, <1>5, <1>7, <2>2, <2>3, <5>1 DEF KeptSlot
      <4>2. \A x \in Slots \ {s} : KeptSlot(p, x)
        BY <2>2, <2>3 DEF KeptSlot
      <4> QED BY <4>1, <4>2
    <3> QED BY <2>9, <2>10, <3>1, <3>2 DEF Calm
  <2>12. PairInv'
    BY <2>9, <2>11, PairKept DEF NoNew, Making
  <2>13. TreeInv'
    <3>1. entries' = entries
      BY <1>4
    <3>2. \A x \in Inos : dnode'[x].mode = dnode[x].mode
      BY <2>5
    <3> QED BY <1>0, <2>6, <3>1, <3>2 DEF TreeInv
  <2>14. LinksInv'
    <3>1. ASSUME NEW x \in Inos, Settled(x)' PROVE (dnode[x].used /\ LinksCover(x))'
      <4>1. Settled(x) /\ NamesOf(x)' = NamesOf(x)
        BY <1>4, <2>6, <3>1 DEF NamesOf
      <4>2. dnode[x].used /\ LinksCover(x) /\ dnode[x].links \in Int
        BY <1>0, <4>1 DEF LinksInv, DnodeOK
      <4>3. p \notin Linking(x)
        BY <1>4 DEF Linking
      <4>4. PICK a, b : a = (IF p \in Linking(x) THEN 1 ELSE 0)
                        /\ b = (IF p \in Linking(x)' THEN 1 ELSE 0)
        OBVIOUS
      <4>5. /\ Cardinality(Linking(x)) \in Nat /\ Cardinality(Linking(x)') \in Nat
            /\ Cardinality(Linking(x)') <= Cardinality(Linking(x)) - a + b
            /\ Cardinality(NamesOf(x)) \in Nat
        BY <2>11, <4>4, LinkingCount, NamesFinite
      <4>6. a = 0
        BY <4>3, <4>4
      <4>7. CASE x = n
        <5>1. b \in {0, 1}
          BY <4>4
        <5>2. dnode'[x].used /\ dnode'[x].links = dnode[x].links + 1
          BY <2>0, <2>5, <4>2, <4>7
        <5> QED BY <4>1, <4>2, <4>5, <4>6, <5>1, <5>2 DEF LinksCover
      <4>8. CASE x # n
        <5>1. p \notin Linking(x)'
          BY <1>5, <2>2, <2>3, <2>8, <2>9, <4>8 DEF Linking
        <5>2. b = 0
          BY <4>4, <5>1
        <5>3. dnode'[x] = dnode[x]
          BY <2>5, <4>8
        <5> QED BY <4>1, <4>2, <4>5, <4>6, <5>2, <5>3 DEF LinksCover
      <4> QED BY <4>7, <4>8
    <3> QED BY <2>5, <3>1 DEF LinksInv
  <2>15. InSlotInv'
    <3>1. ASSUME NEW x \in Slots PROVE Unwritten(x)' <=> Unwritten(x)
      BY <1>4, <2>9 DEF Unwritten
    <3>2. ASSUME NEW x \in Slots
          PROVE  /\ slot[x].valid \in BOOLEAN /\ slot[x].dev \in {0, 1}
                 /\ slot[x].dev = 1 => slot[x].no \in Inos
                 /\ slot[x].dev = 0 /\ slot[x].count > 0 => slot[x].mode = "fifo"
                 /\ slot[x].dev = 1 /\ slot[x].valid /\ ~Unwritten(x) =>
                       /\ slot[x].links = dnode[slot[x].no].links
                       /\ slot[x].mode = dnode[slot[x].no].mode
      BY <1>0 DEF InSlotInv
    <3>3. sl[s].valid \in BOOLEAN
      BY <1>1, <1>5, <3>2, <1>0 DEF Loaded, TableOK, SlotFields
    <3>4. ASSUME NEW x \in Slots
          PROVE  /\ slot'[x].valid \in BOOLEAN /\ slot'[x].dev \in {0, 1}
                 /\ slot'[x].dev = 1 => slot'[x].no \in Inos
                 /\ slot'[x].dev = 0 /\ slot'[x].count > 0 => slot'[x].mode = "fifo"
                 /\ slot'[x].dev = 1 /\ slot'[x].valid /\ ~Unwritten(x)' =>
                       /\ slot'[x].links = dnode'[slot'[x].no].links
                       /\ slot'[x].mode = dnode'[slot'[x].no].mode
      <4>1. CASE x = s
        <5>1. slot'[x].dev # 0 /\ slot'[x].dev \in {0, 1} /\ slot'[x].no \in Inos
          BY <1>5, <2>2, <2>3, <4>1, 1 # 0
        <5>2. slot'[x].valid \in BOOLEAN
          BY <2>2, <2>3, <3>3, <4>1
        <5>3. slot'[x].links = dnode'[slot'[x].no].links
              /\ slot'[x].mode = dnode'[slot'[x].no].mode
          BY <2>2, <2>3, <2>5, <4>1
        <5> QED BY <5>1, <5>2, <5>3
      <4>2. CASE x # s
        <5>1. /\ slot'[x].dev = slot[x].dev /\ slot'[x].no = slot[x].no
              /\ slot'[x].valid = slot[x].valid /\ slot'[x].mode = slot[x].mode
              /\ slot'[x].links = slot[x].links
          BY <2>2, <2>3, <4>2
        <5>2. slot'[x].dev = 0 => slot'[x].count = slot[x].count
          <6>1. x = w => slot'[x].dev # 0
            BY <1>6, <5>1, 1 # 0
          <6> QED BY <2>2, <2>3, <4>2, <6>1
        <5>3. slot[x].dev = 1 => slot[x].no # n
          BY <1>2, <1>5, <4>2, OnlySlot
        <5>4. slot[x].dev = 1 /\ slot[x].no \in Inos => dnode'[slot[x].no] = dnode[slot[x].no]
          BY <2>5, <5>3
        <5>5. Unwritten(x)' <=> Unwritten(x)
          BY <3>1
        <5> HIDE DEF Unwritten
        <5> QED BY <3>2, <5>1, <5>2, <5>4, <5>5
      <4> QED BY <4>1, <4>2
    <3> QED BY <3>4 DEF InSlotInv
  <2>16. CallInv(p)'
    <3>1. GoodObj(s)'
      <4>1. Sits(s)' /\ (IsDir(s)' <=> IsDir(s))
        BY <1>5, <2>11, SitsKept DEF Calm
      <4>2. ~IsDir(s)
        BY <1>2, <1>8, <1>10 DEF IsDir
      <4>3. slot'[s].valid
        BY <1>5, <1>7, <2>2, <2>3
      <4> QED BY <4>1, <4>2, <4>3 DEF GoodObj
    <3>2. GoodObj(loc[p].obj)'
      BY <2>8, <2>9, <3>1 DEF GoodObj, Sits, IsDir
    <3>3. Sits(w)'
      BY <1>6, <2>11, SitsKept DEF Calm
    <3>4. pc'[p] # "root" => Sits(loc[p].cur)'
      BY <2>8, <2>9, <3>3 DEF Sits
    <3>5. TypedCall(loc'[p].call) /\ loc'[p].rest \in Seq(DirNames)
      BY <2>7, <2>8, <2>9 DEF TypedCall
    <3>6. pc'[p] \in {"root", "walk"}
      BY <2>9
    <3> QED BY <3>2, <3>4, <3>5, <3>6, WalkInv
  <2>17. pc[p] # "gone" /\ pc'[p] \notin {"size", "dents"} /\ UNCHANGED <<files, fdtable, icwd, alive>>
    BY <1>4, <2>9
  <2> QED BY <2>10, <2>11, <2>12, <2>13, <2>14, <2>15, <2>16, <2>17, DiskNext
<1> QED BY <1>9, <1>10

(* link() makes the name that it counted.                                  *)
LEMMA NameLinkNew ==
  ASSUME FcbInv, TableInv, NameInv, NEW p \in Procs, LinkNew(p)
  PROVE  NameInv'
<1> DEFINE k == loc[p]
<1>0. /\ LocalsOK /\ TableOK(slot) /\ CallInv(p) /\ LinksInv /\ TreeInv /\ InSlotInv
      /\ LockInv /\ PairInv
  BY DEF TableInv, NameInv
<1>1. PICK t, o, m, g : /\ t = k.par /\ o = k.obj /\ m = k.rest[1]
                        /\ g = [k EXCEPT !.par = None]
  OBVIOUS
<1>2. PICK d, n, mx : d = slot[t].no /\ n = slot[o].no /\ mx = Unlocked(t)
  OBVIOUS
<1>3. /\ pc[p] = "cdir" /\ k.call.name = "link2" /\ Entry(t, m) = 0
      /\ entries' = [entries EXCEPT ![d][m] = n]
      /\ Put(p, slot, mx, t, g, "linked")
      /\ UNCHANGED <<dnode, files, fdtable, icwd, alive>>
  BY <1>1, <1>2 DEF LinkNew, LastName, fileVars, procVars
<1>4. /\ t \in Slots /\ Sits(t) /\ IsDir(t) /\ slot[t].count > 0 /\ slot[t].dev = 1
      /\ d \in Inos /\ Settled(d) /\ dnode[d].mode = "dir" /\ entries[d][m] = 0
  BY <1>1, <1>2, <1>3, AtPar DEF Eff, InParent, Sits, IsDir, Entry
<1>5. /\ o \in Slots /\ n \in Inos /\ Settled(n) /\ dnode[n].mode # "dir" /\ d # n
  BY <1>1, <1>2, <1>3, <1>4, AtObj DEF Sits, IsDir
<1>6. m \in Names
  <2>1. k.rest \in Seq(DirNames) /\ Len(k.rest) = 1
    BY <1>0, <1>3 DEF CallInv, Paths
  <2>2. m \in DirNames
    BY <1>1, <2>1
  <2> QED BY <1>3, <1>4, <2>2, NewName
<1>7. imtx[t] = p /\ \A s \in Slots \ {t} : imtx[s] # p
  BY <1>1, <1>3, OneLock
<1>8. /\ slot' = Less(slot, t) /\ Tame(slot') /\ imtx' = mx
      /\ pc'[p] = "linked" /\ loc'[p] = g
      /\ \A q \in Procs \ {p} : pc'[q] = pc[q] /\ loc'[q] = loc[q]
  BY <1>0, <1>3, <1>4, TameSlot, TamePut
<1>9. g.rest = k.rest /\ g.call = k.call /\ g.obj = o
  BY <1>0, <1>1 DEF LocalsOK, LocFields
<1>10. OwnLocks(p) /\ CalmLocks(p)
  BY <1>2, <1>4, <1>7, <1>8, LocksDrop
<1>11. /\ Names \subseteq DirNames /\ {".", ".."} \subseteq DirNames
       /\ "." \notin Names /\ ".." \notin Names
       /\ n # 0 /\ entries \in [Inos -> [DirNames -> Inos \cup {0}]]
  <2>1. /\ Names \subseteq DirNames /\ {".", ".."} \subseteq DirNames
        /\ "." \notin Names /\ ".." \notin Names
    BY TreeAssumption DEF DirNames
  <2>2. n # 0
    BY <1>5 DEF Inos
  <2>3. entries \in [Inos -> [DirNames -> Inos \cup {0}]]
    BY <1>0 DEF TreeInv
  <2> QED BY <2>1, <2>2, <2>3
<1>12. /\ entries' \in [Inos -> [DirNames -> Inos \cup {0}]]
       /\ entries'[d][m] = n
       /\ \A j \in Inos \ {d} : entries'[j] = entries[j]
       /\ \A x \in DirNames \ {m} : entries'[d][x] = entries[d][x]
  <2>1. /\ \A j \in Inos \ {d} : entries'[j] = entries[j]
        /\ entries'[d] = [entries[d] EXCEPT ![m] = n]
    BY <1>3, <1>4, <1>11
  <2>2. /\ entries'[d] \in [DirNames -> Inos \cup {0}]
        /\ entries'[d][m] = n
        /\ \A x \in DirNames \ {m} : entries'[d][x] = entries[d][x]
    BY <1>4, <1>5, <1>6, <1>11, <2>1
  <2>3. entries' = [j \in Inos |-> entries'[j]]
    BY <1>3, <1>11
  <2>4. \A j \in Inos : entries'[j] \in [DirNames -> Inos \cup {0}]
    BY <1>11, <2>1, <2>2
  <2> QED BY <2>1, <2>2, <2>3, <2>4
<1>13. \A j \in Inos, x \in DirNames :
          entries'[j][x] = entries[j][x] \/ (j = d /\ x = m /\ entries'[j][x] = n)
  <2> TAKE j \in Inos, x \in DirNames
  <2>1. CASE j = d
    BY <1>12, <2>1
  <2>2. CASE j # d
    BY <1>12, <2>2
  <2> QED BY <2>1, <2>2
<1>14. \A j \in Inos, x \in DirNames : entries[j][x] # 0 => entries'[j][x] = entries[j][x]
  BY <1>4, <1>12, <1>13
<1>15. \A j \in Inos : Settled(j)' <=> Settled(j)
  <2>1. ASSUME NEW j \in Inos, Settled(j)' PROVE Settled(j)
    BY <1>5, <1>11, <1>13, <2>1 DEF Settled
  <2>2. ASSUME NEW j \in Inos, Settled(j) PROVE Settled(j)'
    <3>1. j # 0
      BY DEF Inos
    <3> QED BY <1>11, <1>14, <2>2, <3>1 DEF Settled
  <2> QED BY <2>1, <2>2
<1>16. Calm(p)
  <2>1. CalmDisk(p)
    <3>1. ASSUME NEW s \in Slots, slot[s].dev = 1, imtx[s] \in Procs \ {p}
          PROVE  entries'[slot[s].no] = entries[slot[s].no]
      <4>1. slot[s].no # d
        BY <1>2, <1>4, <1>7, <3>1, OnlySlot
      <4>2. slot[s].no \in Inos
        BY <1>0, <3>1 DEF InSlotInv
      <4> QED BY <1>12, <4>1, <4>2
    <3> QED BY <1>3, <1>14, <1>15, <3>1 DEF CalmDisk
  <2>2. ASSUME NEW s \in Slots, slot[s].count > 0 PROVE KeptSlot(p, s)
    <3>1. SameSlot(slot[s], slot'[s]) \/ ReadSlot(slot[s], slot'[s])
      BY <1>8, <2>2 DEF Tame, TakenSlot
    <3> QED BY <1>0, <3>1 DEF KeptSlot, SameSlot, ReadSlot, InSlotInv
  <2> QED BY <1>8, <1>10, <2>1, <2>2 DEF Calm
<1>17. PairInv'
  BY <1>8, <1>16, PairKept DEF NoNew, Making
<1>18. TreeInv'
  <2>1. ASSUME NEW j \in Inos, NEW x \in DirNames, NEW e, e = entries'[j][x], e # 0
        PROVE  /\ Settled(j)' /\ dnode'[j].mode = "dir" /\ Settled(e)'
               /\ x \in Names /\ dnode'[e].mode = "dir" => entries'[e][".."] = j
    <3>1. CASE e = entries[j][x]
      <4>1. /\ Settled(j) /\ dnode[j].mode = "dir" /\ Settled(e) /\ e \in Inos
            /\ x \in Names /\ dnode[e].mode = "dir" => entries[e][".."] = j
        BY <1>0, <1>11, <2>1, <3>1 DEF TreeInv
      <4>2. j # 0
        BY DEF Inos
      <4>3. entries[e][".."] = j => entries'[e][".."] = j
        BY <1>11, <1>14, <4>1, <4>2
      <4> QED BY <1>3, <1>15, <4>1, <4>3
    <3>2. CASE j = d /\ x = m /\ e = n
      BY <1>3, <1>4, <1>5, <1>15, <3>2
    <3> QED BY <1>13, <2>1, <3>1, <3>2
  <2>2. ASSUME NEW j \in Inos, Settled(j)', dnode'[j].mode = "dir"
        PROVE  entries'[j]["."] = j /\ entries'[j][".."] # 0
    <3>1. entries[j]["."] = j /\ entries[j][".."] # 0
      BY <1>0, <1>3, <1>15, <2>2 DEF TreeInv
    <3>2. j # 0
      BY DEF Inos
    <3> QED BY <1>11, <1>14, <3>1, <3>2
  <2>3. entries'[Root][".."] = Root
    <3>1. entries[Root][".."] = Root /\ Root # 0 /\ Root \in Inos
      BY <1>0, FilesAssumption DEF TreeInv, Root, Inos
    <3> QED BY <1>11, <1>14, <3>1
  <2> QED BY <1>12, <2>1, <2>2, <2>3 DEF TreeInv, Settled
<1>19. LinksInv'
  <2>1. ASSUME NEW x \in Inos, Settled(x)' PROVE (dnode[x].used /\ LinksCover(x))'
    <3>1. dnode' = dnode /\ dnode[x].used /\ LinksCover(x) /\ dnode[x].links \in Int
      BY <1>0, <1>3, <1>15, <2>1 DEF LinksInv, DnodeOK
    <3>2. PICK a, b : a = (IF p \in Linking(x) THEN 1 ELSE 0)
                      /\ b = (IF p \in Linking(x)' THEN 1 ELSE 0)
      OBVIOUS
    <3>3. /\ Cardinality(Linking(x)) \in Nat /\ Cardinality(Linking(x)') \in Nat
          /\ Cardinality(Linking(x)') <= Cardinality(Linking(x)) - a + b
          /\ Cardinality(NamesOf(x)) \in Nat /\ IsFiniteSet(NamesOf(x))
      BY <1>16, <3>2, LinkingCount, NamesFinite
    <3>4. p \notin Linking(x)'
      BY <1>8 DEF Linking
    <3>5. b = 0 /\ a \in {0, 1}
      BY <3>2, <3>4
    <3>6. CASE x = n
      <4>1. p \in Linking(x)
        BY <1>1, <1>2, <1>3, <3>6 DEF Linking
      <4>2. a = 1
        BY <3>2, <4>1
      <4>3. NamesOf(x)' = NamesOf(x) \cup {<<d, m>>} /\ <<d, m>> \notin NamesOf(x)
        <5>1. \A i \in Inos, y \in Names :
                 entries'[i][y] = x <=> entries[i][y] = x \/ (i = d /\ y = m)
          BY <1>4, <1>11, <1>12, <1>13, <3>6
        <5>2. \A dm \in Inos \X Names :
                 entries'[dm[1]][dm[2]] = x <=> entries[dm[1]][dm[2]] = x \/ dm = <<d, m>>
          BY <5>1
        <5>3. <<d, m>> \in Inos \X Names /\ entries[d][m] # x
          BY <1>4, <1>5, <1>6, <1>11, <3>6
        <5> QED BY <5>2, <5>3 DEF NamesOf
      <4>4. Cardinality(NamesOf(x)') = Cardinality(NamesOf(x)) + 1
        BY <3>3, <4>3, FS_AddElement
      <4> QED BY <3>1, <3>3, <3>5, <4>2, <4>4 DEF LinksCover
    <3>7. CASE x # n
      <4>1. NamesOf(x)' = NamesOf(x)
        <5>1. x # 0
          BY DEF Inos
        <5>2. \A i \in Inos, y \in Names : entries'[i][y] = x <=> entries[i][y] = x
          BY <1>11, <1>13, <1>14, <3>7, <5>1
        <5>3. \A dm \in Inos \X Names :
                 entries'[dm[1]][dm[2]] = x <=> entries[dm[1]][dm[2]] = x
          BY <5>2
        <5> QED BY <5>3 DEF NamesOf
      <4> QED BY <3>1, <3>3, <3>5, <4>1 DEF LinksCover
    <3> QED BY <3>6, <3>7
  <2> QED BY <1>0, <1>3, <2>1 DEF LinksInv, DnodeOK
<1>20. InSlotInv'
  BY <1>0, <1>3, <1>8, ReadInSlot
<1>21. CallInv(p)'
  <2>1. GoodObj(o)'
    BY <1>1, <1>3, <1>16, ObjKept
  <2>2. Relinks(p)'
    BY <1>3, <1>8, <1>9, <2>1 DEF Relinks, GoodObj, Sits, IsDir
  <2>3. Eff(p)' = "linked"
    BY <1>8 DEF Eff
  <2>4. Paths(p)' /\ Walks(p)' /\ Makes(p)' /\ Dies(p)'
    BY <1>0, <1>3, <1>8, <1>9 DEF CallInv, Paths, Walks, Makes, Making, Dies
  <2>5. Climbs(p)'
    BY <2>3 DEF Climbs, InParent, Making
  <2> QED BY <2>2, <2>4, <2>5 DEF CallInv
<1>22. pc[p] # "gone" /\ pc'[p] \notin {"size", "dents"}
  BY <1>3, <1>8
<1> QED BY <1>3, <1>10, <1>16, <1>17, <1>18, <1>19, <1>20, <1>21, <1>22, DiskNext

(* link() takes its count back: the file has a link left, that of its name.*)
LEMMA NameLinkUndo ==
  ASSUME FcbInv, TableInv, NameInv, NEW p \in Procs, LinkUndo(p)
  PROVE  NameInv'
<1> DEFINE k == loc[p]
<1>0. /\ LocalsOK /\ TableOK(slot) /\ CallInv(p) /\ LinksInv /\ TreeInv /\ InSlotInv
      /\ LockInv /\ PairInv
  BY DEF TableInv, NameInv
<1>1. PICK s, n : s = k.obj /\ n = slot[s].no
  OBVIOUS
<1>2. PICK sl : sl = [slot EXCEPT ![s].links = @ - 1]
  OBVIOUS
<1>3. /\ pc[p] = "undo" /\ dnode' = [dnode EXCEPT ![n].links = slot[s].links - 1]
      /\ Put(p, sl, imtx, s, NoLoc, "user")
      /\ UNCHANGED <<entries, files, fdtable, icwd, alive>>
  BY <1>1, <1>2 DEF LinkUndo, fileVars, procVars
<1>4. k.call.name = "link2"
  BY <1>0, <1>3 DEF CallInv, Relinks
<1>5. /\ s \in Slots /\ Sits(s) /\ slot[s].count > 0 /\ slot[s].dev = 1 /\ slot[s].valid
      /\ n \in Inos /\ Settled(n)
  BY <1>1, <1>4, AtObj DEF Sits
<1>6. slot[s].links = dnode[n].links /\ slot[s].mode = dnode[n].mode
  BY <1>1, <1>5, SitsRead
<1>7. PICK L : L = dnode[n].links - 1
  OBVIOUS
<1>8. L \in Int /\ L >= 1
  <2>1. LinksCover(n) /\ dnode[n].links \in Int
    BY <1>0, <1>5 DEF LinksInv, DnodeOK
  <2>2. /\ IsFiniteSet(NamesOf(n)) /\ Cardinality(NamesOf(n)) \in Nat
    BY NamesFinite
  <2>3. IsFiniteSet(Linking(n)) /\ Cardinality(Linking(n)) \in Nat
    <3>1. Linking(n) \subseteq Procs
      BY DEF Linking
    <3> QED BY <3>1, FilesAssumption, FS_Subset, FS_CardinalityType
  <2>4. Cardinality(Linking(n)) # 0
    <3>1. p \in Linking(n)
      BY <1>1, <1>3, <1>4 DEF Linking
    <3> QED BY <2>3, <3>1, FS_EmptySet
  <2>5. n # Root => Cardinality(NamesOf(n)) # 0
    <3> SUFFICES ASSUME n # Root PROVE NamesOf(n) # {}
      BY <2>2, FS_EmptySet
    <3>1. PICK d \in Inos, m \in Names : entries[d][m] = n
      BY <1>5 DEF Settled
    <3>2. <<d, m>> \in NamesOf(n)
      BY <3>1 DEF NamesOf
    <3> QED BY <3>2
  <2> QED BY <1>7, <2>1, <2>2, <2>3, <2>4, <2>5 DEF LinksCover
<1>9. /\ \A x \in Slots \ {s} : sl[x] = slot[x]
      /\ sl[s].dev = 1 /\ sl[s].no = n /\ sl[s].valid = slot[s].valid
      /\ sl[s].mode = slot[s].mode /\ sl[s].links = L
      /\ DOMAIN sl = Slots /\ DOMAIN sl[s] = SlotFields
  <2>1. /\ \A x \in Slots \ {s} : sl[x] = slot[x]
        /\ sl[s].dev = slot[s].dev /\ sl[s].no = slot[s].no /\ sl[s].valid = slot[s].valid
        /\ sl[s].mode = slot[s].mode /\ sl[s].links = slot[s].links - 1
        /\ DOMAIN sl = Slots /\ DOMAIN sl[s] = SlotFields
    BY <1>0, <1>2, <1>5 DEF TableOK, SlotFields
  <2> QED BY <1>1, <1>5, <1>6, <1>7, <2>1
<1>10. ~Dying(sl[s])
  BY <1>8, <1>9 DEF Dying
<1>11. /\ slot' = Less(sl, s) /\ imtx' = imtx /\ Goto(p, "user")
       /\ loc' = [loc EXCEPT ![p] = NoLoc]
  BY <1>3, <1>10 DEF Put, Less
<1>12. /\ \A x \in Slots \ {s} : slot'[x] = slot[x]
       /\ slot'[s].dev = 1 /\ slot'[s].no = n /\ slot'[s].valid = slot[s].valid
       /\ slot'[s].mode = slot[s].mode /\ slot'[s].links = L
  <2>1. PICK sm : sm = Less(sl, s)
    OBVIOUS
  <2>2. /\ \A x \in Slots \ {s} : sm[x] = sl[x]
        /\ sm[s].dev = sl[s].dev /\ sm[s].no = sl[s].no /\ sm[s].valid = sl[s].valid
        /\ sm[s].mode = sl[s].mode /\ sm[s].links = sl[s].links
    BY <1>5, <1>9, <2>1 DEF Less, SlotFields
  <2> QED BY <1>9, <1>11, <2>1, <2>2
<1>13. /\ IdleCall(p)' /\ pc'[p] = "user" /\ loc'[p].call.name # "link2"
       /\ \A q \in Procs \ {p} : pc'[q] = pc[q] /\ loc'[q] = loc[q]
  <2>1. loc'[p] = NoLoc /\ pc'[p] = "user"
        /\ \A q \in Procs \ {p} : pc'[q] = pc[q] /\ loc'[q] = loc[q]
    BY <1>0, <1>11 DEF Goto, LocalsOK
  <2>2. /\ "user" \in OffPath /\ NoLoc.rest \in Seq(DirNames)
        /\ NoLoc.call.name \notin {"link", "link2"}
    BY DEF OffPath, NoLoc, NoCall
  <2> QED BY <2>1, <2>2 DEF IdleCall
<1>14. OwnLocks(p) /\ CalmLocks(p)
  BY <1>3, <1>11, LocksStay DEF MayLock, InParent, Making
<1>15. /\ \A x \in Inos \ {n} : dnode'[x] = dnode[x]
       /\ dnode'[n].used = dnode[n].used /\ dnode'[n].mode = dnode[n].mode
       /\ dnode'[n].links = L /\ DnodeOK'
  <2>1. DnodeOK
    BY <1>0 DEF LinksInv
  <2>2. /\ \A x \in Inos \ {n} : dnode'[x] = dnode[x]
        /\ DOMAIN dnode' = Inos
    BY <1>3, <1>5, <2>1 DEF DnodeOK
  <2>3. /\ dnode'[n].used = dnode[n].used /\ dnode'[n].mode = dnode[n].mode
        /\ dnode'[n].links = L /\ DOMAIN dnode'[n] = {"used", "mode", "links"}
    BY <1>3, <1>5, <1>6, <1>7, <2>1 DEF DnodeOK
  <2>4. dnode'[n].links \in Int /\ dnode'[n].used \in BOOLEAN
    BY <1>5, <1>8, <2>1, <2>3 DEF DnodeOK
  <2> QED BY <2>1, <2>2, <2>3, <2>4 DEF DnodeOK
<1>16. \A x : Settled(x)' <=> Settled(x)
  BY <1>3 DEF Settled
<1>17. Calm(p)
  <2>1. CalmDisk(p)
    <3>1. \A x \in Inos : Settled(x) => dnode'[x].mode = dnode[x].mode
      BY <1>15
    <3>2. \A x \in Inos : dnode'[x] # dnode[x] => Writes(p, x)
      BY <1>5, <1>15 DEF Writes
    <3> QED BY <1>3, <1>16, <3>1, <3>2 DEF CalmDisk
  <2>2. \A x \in Slots : KeptSlot(p, x)
    BY <1>1, <1>5, <1>12 DEF KeptSlot
  <2> QED BY <1>13, <1>14, <2>1, <2>2 DEF Calm
<1>18. CallInv(p)' /\ NoNew(p)
  BY <1>13, IdleInv
<1>19. PairInv'
  BY <1>17, <1>18, PairKept
<1>20. TreeInv'
  <2>1. entries' = entries
    BY <1>3
  <2>2. \A x \in Inos : dnode'[x].mode = dnode[x].mode
    BY <1>15
  <2> QED BY <1>0, <1>16, <2>1, <2>2 DEF TreeInv
<1>21. LinksInv'
  <2>1. ASSUME NEW x \in Inos, Settled(x)' PROVE (dnode[x].used /\ LinksCover(x))'
    <3>1. Settled(x) /\ NamesOf(x)' = NamesOf(x)
      BY <1>3, <1>16, <2>1 DEF NamesOf
    <3>2. dnode[x].used /\ LinksCover(x) /\ dnode[x].links \in Int
      BY <1>0, <3>1 DEF LinksInv, DnodeOK
    <3>3. PICK a, b : a = (IF p \in Linking(x) THEN 1 ELSE 0)
                      /\ b = (IF p \in Linking(x)' THEN 1 ELSE 0)
      OBVIOUS
    <3>4. /\ Cardinality(Linking(x)) \in Nat /\ Cardinality(Linking(x)') \in Nat
          /\ Cardinality(Linking(x)') <= Cardinality(Linking(x)) - a + b
          /\ Cardinality(NamesOf(x)) \in Nat
      BY <1>17, <3>3, LinkingCount, NamesFinite
    <3>5. p \notin Linking(x)'
      BY <1>13 DEF Linking
    <3>6. b = 0 /\ a \in {0, 1}
      BY <3>3, <3>5
    <3>7. CASE x = n
      <4>1. p \in Linking(x)
        BY <1>1, <1>3, <1>4, <3>7 DEF Linking
      <4>2. a = 1
        BY <3>3, <4>1
      <4>3. dnode'[x].used /\ dnode'[x].links = dnode[x].links - 1
        BY <1>7, <1>15, <3>2, <3>7
      <4> QED BY <3>1, <3>2, <3>4, <3>6, <4>2, <4>3 DEF LinksCover
    <3>8. CASE x # n
      <4>1. dnode'[x] = dnode[x]
        BY <1>15, <3>8
      <4> QED BY <3>1, <3>2, <3>4, <3>6, <4>1 DEF LinksCover
    <3> QED BY <3>7, <3>8
  <2> QED BY <1>15, <2>1 DEF LinksInv
<1>22. InSlotInv'
  <2>1. ASSUME NEW x \in Slots PROVE Unwritten(x)' <=> Unwritten(x)
    BY <1>3, <1>13 DEF Unwritten
  <2>2. ASSUME NEW x \in Slots
        PROVE  /\ slot[x].valid \in BOOLEAN /\ slot[x].dev \in {0, 1}
               /\ slot[x].dev = 1 => slot[x].no \in Inos
               /\ slot[x].dev = 0 /\ slot[x].count > 0 => slot[x].mode = "fifo"
               /\ slot[x].dev = 1 /\ slot[x].valid /\ ~Unwritten(x) =>
                     /\ slot[x].links = dnode[slot[x].no].links
                     /\ slot[x].mode = dnode[slot[x].no].mode
    BY <1>0 DEF InSlotInv
  <2>3. ASSUME NEW x \in Slots
        PROVE  /\ slot'[x].valid \in BOOLEAN /\ slot'[x].dev \in {0, 1}
               /\ slot'[x].dev = 1 => slot'[x].no \in Inos
               /\ slot'[x].dev = 0 /\ slot'[x].count > 0 => slot'[x].mode = "fifo"
               /\ slot'[x].dev = 1 /\ slot'[x].valid /\ ~Unwritten(x)' =>
                     /\ slot'[x].links = dnode'[slot'[x].no].links
                     /\ slot'[x].mode = dnode'[slot'[x].no].mode
    <3>1. CASE x = s
      <4>1. slot'[x].dev # 0 /\ slot'[x].dev \in {0, 1} /\ slot'[x].no \in Inos
        BY <1>5, <1>12, <3>1, 1 # 0
      <4>2. slot'[x].valid \in BOOLEAN
        BY <1>5, <1>12, <2>2, <3>1
      <4>3. slot'[x].links = dnode'[slot'[x].no].links
            /\ slot'[x].mode = dnode'[slot'[x].no].mode
        BY <1>6, <1>12, <1>15, <3>1
      <4> QED BY <4>1, <4>2, <4>3
    <3>2. CASE x # s
      <4>1. slot'[x] = slot[x] /\ (Unwritten(x)' <=> Unwritten(x))
        BY <1>12, <2>1, <3>2
      <4>2. slot[x].dev = 1 => slot[x].no # n
        BY <1>1, <1>5, <3>2, OnlySlot
      <4>3. slot[x].dev = 1 /\ slot[x].no \in Inos => dnode'[slot[x].no] = dnode[slot[x].no]
        BY <1>15, <4>2
      <4> HIDE DEF Unwritten
      <4> QED BY <2>2, <4>1, <4>3
    <3> QED BY <3>1, <3>2
  <2> QED BY <2>3 DEF InSlotInv
<1> QED BY <1>3, <1>13, <1>14, <1>17, <1>18, <1>19, <1>20, <1>21, <1>22, DiskNext

(* The disk at boot is in order, and nobody has a lock or a call.          *)
LEMMA InitName == Init => NameInv
<1> SUFFICES ASSUME Init PROVE NameInv
  OBVIOUS
<1>1. /\ pc = [p \in Procs |-> "user"] /\ loc = [p \in Procs |-> NoLoc]
      /\ imtx = [s \in Slots |-> None] /\ entries = Tree /\ alive \subseteq Procs
      /\ icwd = [p \in Procs |-> IF p \in alive THEN 1 ELSE None]
      /\ files = [f \in Fcbs |-> [count |-> 0, inode |-> None]]
  BY DEF Init
<1>2. slot = [s \in Slots |->
          [dev |-> IF s = 1 THEN 1 ELSE 0, no |-> IF s = 1 THEN Root ELSE 0,
           count |-> IF s = 1 THEN Cardinality(alive) ELSE 0,
           valid |-> FALSE, mode |-> "none", links |-> 0]]
  BY DEF Init
<1>3. dnode = [n \in Inos |->
          [used  |-> HasName(n),
           mode  |-> IF Tree[n]["."] = n THEN "dir" ELSE "reg",
           links |-> Cardinality({dm \in Inos \X Names : Tree[dm[1]][dm[2]] = n})
                     + (IF n = Root THEN 1 ELSE 0)]]
  BY DEF Init
<1>4. Root \in Inos /\ 1 \in Slots /\ 0 \notin Inos
  BY FilesAssumption DEF Root, Inos, Slots
<1>5. \A p \in Procs : pc[p] = "user" /\ loc[p] = NoLoc
  BY <1>1
<1>6. \A n : Settled(n) <=> HasName(n)
  BY <1>1 DEF Settled, HasName
<1>7. \A n \in Inos : NamesOf(n) = {dm \in Inos \X Names : Tree[dm[1]][dm[2]] = n}
  BY <1>1 DEF NamesOf
<1>8. ASSUME NEW n \in Inos
      PROVE  /\ DOMAIN dnode[n] = {"used", "mode", "links"}
             /\ dnode[n].used <=> Settled(n)
             /\ dnode[n].used \in BOOLEAN
             /\ dnode[n].mode = "dir" <=> Tree[n]["."] = n
             /\ dnode[n].links = Cardinality(NamesOf(n)) + (IF n = Root THEN 1 ELSE 0)
             /\ dnode[n].links \in Int
  <2>1. /\ DOMAIN dnode[n] = {"used", "mode", "links"}
        /\ dnode[n].used = HasName(n)
        /\ dnode[n].mode = (IF Tree[n]["."] = n THEN "dir" ELSE "reg")
        /\ dnode[n].links = Cardinality({dm \in Inos \X Names : Tree[dm[1]][dm[2]] = n})
                            + (IF n = Root THEN 1 ELSE 0)
    BY <1>3
  <2>2. dnode[n].links = Cardinality(NamesOf(n)) + (IF n = Root THEN 1 ELSE 0)
    BY <1>7, <2>1
  <2>3. dnode[n].links \in Int
    BY <2>2, NamesFinite
  <2>4. HasName(n) \in BOOLEAN
    BY DEF HasName
  <2>5. dnode[n].used \in BOOLEAN
    BY <2>1, <2>4
  <2>6. dnode[n].used <=> Settled(n)
    BY <1>6, <2>1
  <2> QED BY <2>1, <2>2, <2>3, <2>5, <2>6
<1>9. TreeInv
  <2>1. /\ entries \in [Inos -> [DirNames -> Inos \cup {0}]]
        /\ entries[Root][".."] = Root
    BY <1>1, FilesAssumption, TreeAssumption
  <2>2. ASSUME NEW d \in Inos, NEW m \in DirNames, NEW n, n = entries[d][m], n # 0
        PROVE  /\ Settled(d) /\ dnode[d].mode = "dir" /\ Settled(n)
               /\ m \in Names /\ dnode[n].mode = "dir" => entries[n][".."] = d
    <3>1. /\ Tree[d]["."] = d /\ HasName(d) /\ HasName(n)
          /\ m \in Names /\ Tree[n]["."] = n => Tree[n][".."] = d
      BY <1>1, <2>2, TreeAssumption
    <3>2. n \in Inos
      BY <2>1, <2>2
    <3> QED BY <1>1, <1>6, <1>8, <3>1, <3>2
  <2>3. ASSUME NEW n \in Inos, dnode[n].mode = "dir"
        PROVE  entries[n]["."] = n /\ entries[n][".."] # 0
    <3>1. Tree[n]["."] = n /\ n # 0 /\ "." \in DirNames
      BY <1>4, <1>8, <2>3 DEF DirNames
    <3> QED BY <1>1, <3>1, TreeAssumption
  <2> QED BY <2>1, <2>2, <2>3 DEF TreeInv
<1>10. LinksInv
  <2>1. \A n : Linking(n) = {}
    BY <1>5 DEF Linking, NoLoc, NoCall
  <2>2. ASSUME NEW n \in Inos PROVE LinksCover(n)
    <3>1. Cardinality(Linking(n)) = 0 /\ Cardinality(NamesOf(n)) \in Nat
      BY <2>1, FS_EmptySet, NamesFinite
    <3> QED BY <1>8, <3>1 DEF LinksCover
  <2>3. DnodeOK
    BY <1>3, <1>8 DEF DnodeOK
  <2> QED BY <1>8, <2>2, <2>3 DEF LinksInv
<1>11. \A s \in Slots : /\ slot[s].dev = (IF s = 1 THEN 1 ELSE 0) /\ slot[s].valid = FALSE
                        /\ slot[s].no = (IF s = 1 THEN Root ELSE 0)
                        /\ s # 1 => slot[s].count = 0
  BY <1>2
<1>12. InSlotInv
  <2> SUFFICES ASSUME NEW s \in Slots
               PROVE  /\ slot[s].valid = FALSE /\ slot[s].dev \in {0, 1}
                      /\ slot[s].dev = 1 => slot[s].no \in Inos
                      /\ ~(slot[s].dev = 0 /\ slot[s].count > 0)
    BY DEF InSlotInv
  <2>1. CASE s = 1
    BY <1>4, <1>11, <2>1, 1 # 0
  <2>2. CASE s # 1
    BY <1>4, <1>11, <2>2, 1 # 0
  <2> QED BY <2>1, <2>2
<1>13. FileInv /\ PairInv /\ SizeInv
  BY <1>1, <1>5 DEF FileInv, PairInv, Making, SizeInv, Sizes
<1>14. LockInv
  BY <1>1 DEF LockInv
<1>15. HomeInv
  <2>1. Sits(1)
    BY <1>4, <1>11 DEF Sits, Settled
  <2>2. 1 # None
    BY <1>4, FilesAssumption
  <2>3. ASSUME NEW p \in Procs PROVE Home(p)
    <3>1. PICK w : w = icwd[p]
      OBVIOUS
    <3>2. w = (IF p \in alive THEN 1 ELSE None)
      BY <1>1, <3>1
    <3>3. (w # None => Sits(w)) /\ (p \in alive => w # None)
      BY <2>1, <2>2, <3>2
    <3> HIDE DEF Sits
    <3> QED BY <3>1, <3>3 DEF Home
  <2> QED BY <2>3 DEF HomeInv
<1>16. ASSUME NEW p \in Procs PROVE CallInv(p)
  <2>1. pc[p] = "user" /\ loc[p].rest = <<>> /\ loc[p].call.name = "none"
    BY <1>5 DEF NoLoc, NoCall
  <2>2. <<>> \in Seq(DirNames)
    OBVIOUS
  <2>3. Eff(p) = "user"
    BY <2>1 DEF Eff
  <2>4. Paths(p) /\ Walks(p) /\ Relinks(p) /\ Makes(p) /\ Dies(p)
    BY <2>1, <2>2 DEF Paths, Walks, Relinks, Makes, Making, Dies
  <2>5. Climbs(p)
    BY <2>3 DEF Climbs, InParent, Making
  <2> QED BY <2>4, <2>5 DEF CallInv
<1> QED BY <1>9, <1>10, <1>12, <1>13, <1>14, <1>15, <1>16 DEF NameInv

(* Every step keeps names, links, slots and mutexes together.              *)
LEMMA NameNext == FcbInv /\ TableInv /\ NameInv /\ [Next]_vars => NameInv'
<1> SUFFICES ASSUME FcbInv, TableInv, NameInv, [Next]_vars PROVE NameInv'
  OBVIOUS
<1>1. CASE UNCHANGED vars
  <2>1. UNCHANGED <<slot, imtx, dnode, entries, files, alive, fdtable, icwd, pc, loc>>
    BY <1>1 DEF vars, tableVars, diskVars, fileVars, procVars
  <2> QED BY <2>1, NameStutter
<1>2. ASSUME NEW p \in Procs, Call(p) PROVE NameInv'
  <2>1. \/ \/ Exit(p) \/ Pipe(p)
           \/ \E fd \in Fds : Dup(p, fd) \/ \E new \in Fds : Dup2(p, fd, new)
        \/ \E c \in PathCalls : PathCall(p, c)
        \/ \E q \in Procs : Fork(p, q)
        \/ \E fd \in Fds : Close(p, fd)
        \/ \E fd \in Fds, stat \in BOOLEAN : UseFile(p, fd, stat)
        \/ \E fd \in Fds : Dents(p, fd)
    BY <1>2 DEF Call
  <2> QED BY <2>1, NameQuiet, NamePath, NameFork, NameCloses, NameUse, NameDents
<1>3. ASSUME NEW p \in Procs, Step(p) PROVE NameInv'
  <2>1. \/ GetRoot(p) \/ WalkLock(p) \/ Oops(p)
        \/ WalkEnd(p)
        \/ Look(p)
        \/ ParentLock(p)
        \/ CreateFound(p) \/ CreateOld(p) \/ CreateFail(p)
        \/ CreateNew(p) \/ CreateGet(p) \/ CreateInit(p) \/ CreateLink(p) \/ CreateUndo(p)
        \/ IFree(p) \/ ITruncate(p) \/ IDrop(p)
        \/ \/ CreatDone(p) \/ MkdirDone(p) \/ Chmod(p) \/ Stat(p) \/ Truncate(p)
           \/ OpenSize(p) \/ PipeFault(p) \/ Linked(p)
        \/ LinkOld(p) \/ LinkNew(p) \/ LinkFail(p) \/ LinkUndo(p)
        \/ Chdir(p) \/ ExitPut(p)
        \/ Open(p)
        \/ PipeInode(p)
        \/ Dup2Close(p) \/ DupFd(p) \/ ExitClose(p)
        \/ Gone(p) \/ FcbFree(p) \/ PipeFirst(p) \/ PipeNoFd(p) \/ PipeSecond(p)
        \/ InodeWait(p) \/ FileWait(p)
        \/ DentsFault(p) \/ DentsEnd(p)
    BY <1>3 DEF Step
  <2> QED BY <2>1, NameDentsFault, NameDentsEnd, NameWalk, NameWalkEnd, NameLook, NameParent, NameFound,
             NameCreateNew, NameCreateGet, NameCreateInit, NameCreateLink, NameCreateUndo,
             NameIFree, NameITruncate, NameIDrop, NameReturn, NameLinkOld, NameLinkNew,
             NameLinkFail, NameLinkUndo, NameChdir, NameOpen, NamePipe, NameCloses,
             NameQuiet, NameWait
<1> QED BY <1>1, <1>2, <1>3 DEF Next

(* Whatever the processes do, directories, link counts, the inode table    *)
(* and the mutexes agree with what every call in progress relies on.       *)
THEOREM FilesNameInv == Spec => []NameInv
<1>1. Init => NameInv
  BY InitName
<1>2. FcbInv /\ TableInv /\ NameInv /\ [Next]_vars => NameInv'
  BY NameNext
<1> QED BY <1>1, <1>2, FilesFcbInv, FilesTableInv, PTL DEF Spec

(* No name outlives its inode: the inode that a name leads to is allocated *)
(* and its link count covers all its names, whatever create(), link() and  *)
(* their failures do to the counts meanwhile.                              *)
THEOREM FilesNamesLive == Spec => []NamesLive
<1>1. ASSUME NameInv PROVE NamesLive
  <2> SUFFICES ASSUME NEW n \in Inos, NamesOf(n) # {}
               PROVE  dnode[n].used /\ dnode[n].links >= Cardinality(NamesOf(n))
    BY DEF NamesLive, NamesOf
  <2>1. Settled(n)
    BY DEF NamesOf, Settled
  <2>2. dnode[n].used /\ LinksCover(n) /\ dnode[n].links \in Int
    BY <1>1, <2>1 DEF NameInv, LinksInv, DnodeOK
  <2>3. Linking(n) \subseteq Procs
    BY DEF Linking
  <2>4. Cardinality(Linking(n)) \in Nat /\ Cardinality(NamesOf(n)) \in Nat
    BY <2>3, FilesAssumption, FS_Subset, FS_CardinalityType, NamesFinite
  <2> QED BY <2>2, <2>4 DEF LinksCover
<1> QED BY <1>1, FilesNameInv, PTL

(* A process that holds an i_mtx waits for another one only where create() *)
(* waits for its new inode, to which nobody else holds a way, and where    *)
(* getdents() waits for a program.                                         *)
LEMMA WaitingHolder ==
  ASSUME NameInv, NEW a \in Procs, NEW s \in Slots, imtx[s] = a, NEW w, w \in Wants(a)
  PROVE  \/ pc[a] = "cnew" /\ s = loc[a].par
         \/ pc[a] = "dents" /\ s = loc[a].obj
<1>1. Holds(a, s)
  BY FilesAssumption DEF NameInv, LockInv
<1>2. pc[a] \in {"walk", "parent", "cold", "cnew", "size", "undo", "found", "dents"}
  BY DEF Wants
<1> QED BY <1>1, <1>2 DEF Holds, Eff, InParent, Making

(* Such a process holds a directory that has a name.                       *)
LEMMA WaitersHoldDirs ==
  ASSUME NameInv, NEW a \in Procs, NEW s \in Slots, imtx[s] = a, NEW w, w \in Wants(a)
  PROVE  Sits(s) /\ IsDir(s)
<1>1. Climbs(a) /\ Sizes(a)
  BY DEF NameInv, CallInv, SizeInv
<1>2. CASE pc[a] = "cnew" /\ s = loc[a].par
  BY <1>1, <1>2 DEF Climbs, Eff, InParent, Making
<1>3. CASE pc[a] = "dents" /\ s = loc[a].obj
  BY <1>1, <1>3 DEF Sizes
<1> QED BY <1>2, <1>3, WaitingHolder

(* The processes of a ring would each hold what they wait for of another:  *)
(* a named directory.  But create() waits for an inode without a name, and *)
(* getdents() for a regular file.                                          *)
THEOREM FilesNoLockRing == Spec => []NoLockRing
<1>1. ASSUME NameInv PROVE NoLockRing
  <2> SUFFICES ASSUME NEW R \in SUBSET Procs, NEW p \in R,
                      \A q \in R : \E s \in Wants(q) : imtx[s] \in R
               PROVE  FALSE
    BY DEF NoLockRing
  <2>1. ASSUME NEW a \in R PROVE Wants(a) \subseteq Slots
    <3>1. Walks(a) /\ Climbs(a) /\ Relinks(a) /\ Makes(a) /\ Sizes(a)
      BY <1>1 DEF NameInv, CallInv, SizeInv
    <3>2. CASE pc[a] \in {"walk", "cold", "found"}
      <4>1. Wants(a) \subseteq {loc[a].cur}
        BY <3>2 DEF Wants
      <4> QED BY <3>1, <3>2, <4>1 DEF Walks, Sits
    <3>3. CASE pc[a] = "parent"
      <4>1. Wants(a) \subseteq {loc[a].par}
        BY <3>3 DEF Wants
      <4> QED BY <3>1, <3>3, <4>1 DEF Climbs, Eff, Sits
    <3>4. CASE pc[a] = "cnew"
      <4>1. Wants(a) \subseteq {loc[a].cur}
        BY <3>4 DEF Wants
      <4> QED BY <3>1, <3>4, <4>1 DEF Makes
    <3>5. CASE pc[a] \in {"size", "undo"}
      <4>1. Wants(a) \subseteq {loc[a].obj}
        BY <3>5 DEF Wants
      <4> QED BY <3>1, <3>5, <4>1 DEF Sizes, Relinks, Sits
    <3>6. CASE pc[a] = "dents"
      BY <3>6 DEF Wants, Programs
    <3>7. CASE pc[a] \notin {"walk", "cold", "found", "parent", "cnew", "size", "undo", "dents"}
      BY <3>7 DEF Wants
    <3> QED BY <3>2, <3>3, <3>4, <3>5, <3>6, <3>7
  <2>2. PICK s \in Wants(p) : imtx[s] \in R
    OBVIOUS
  <2>3. PICK q \in R : q = imtx[s]
    BY <2>2
  <2>4. PICK t \in Wants(q) : imtx[t] \in R
    OBVIOUS
  <2>5. PICK a \in R : a = imtx[t]
    BY <2>4
  <2>6. PICK w \in Wants(a) : imtx[w] \in R
    OBVIOUS
  <2>7. s \in Slots /\ t \in Slots /\ q \in Procs /\ a \in Procs
    BY <2>1
  <2>8. Sits(t) /\ IsDir(t)
    BY <1>1, <2>5, <2>6, <2>7, WaitersHoldDirs
  <2>9. pc[q] = "cnew" \/ pc[q] = "dents"
    BY <1>1, <2>3, <2>4, <2>7, WaitingHolder
  <2>10. CASE pc[q] = "cnew"
    <3>1. t = loc[q].cur /\ Makes(q)
      BY <1>1, <2>10 DEF Wants, NameInv, CallInv
    <3> QED BY <2>8, <2>10, <3>1 DEF Makes, Making, Sits
  <2>11. CASE pc[q] = "dents"
    BY <2>8, <2>11 DEF Wants, Programs, IsDir
  <2> QED BY <2>9, <2>10, <2>11
<1> QED BY <1>1, FilesNameInv, PTL

-----------------------------------------------------------------------------
(* The string of a current directory.  The names of c lead from the root   *)
(* to inode n, through the directories of v.                               *)
Leads(c, n) ==
    \E v \in [0 .. Len(c) -> Inos] :
        /\ v[0] = Root /\ v[Len(c)] = n
        /\ \A i \in 1 .. Len(c) : v[i] = entries[v[i - 1]][c[i]]

(* What abspath() makes of string c at an element m of the path, and the   *)
(* strings that it has after each of the first j elements.                 *)
Turn(c, m) == CASE m = "."  -> c
                [] m = ".." -> IF c = <<>> THEN <<>> ELSE SubSeq(c, 1, Len(c) - 1)
                [] OTHER    -> Append(c, m)
Turns(u, pwd, path, j) ==
    /\ u \in [0 .. j -> Seq(Names)]
    /\ u[0] = IF path.abs THEN <<>> ELSE pwd
    /\ \A i \in 1 .. j : u[i] = Turn(u[i - 1], path.elems[i])

(* The walk of path has rest before it and is at inode n, where the string *)
(* that abspath() has by then leads (if the path is plain, and begins at   *)
(* the root or where plain paths led).                                     *)
Trace(pwd, path, rest, n) ==
    \E j \in 0 .. Len(path.elems) :
        /\ rest = SubSeq(path.elems, j + 1, Len(path.elems))
        /\ \E u : Turns(u, pwd, path, j) /\ Leads(u[j], n)
Traces(p) ==
    LET k == loc[p] IN
    k.call.name = "chdir" =>
        /\ pc[p] \in {"root", "walk", "look", "found"}
        /\ k.call.path.abs \in BOOLEAN /\ k.call.path.elems \in Seq(DirNames)
        /\ pc[p] = "root" => k.call.path.abs /\ k.rest = k.call.path.elems
        /\ pc[p] = "found" => k.rest = <<>>
        /\ pc[p] # "root" /\ (k.call.path.abs \/ p \in plain) =>
              Trace(cwd[p], k.call.path, k.rest, slot[k.cur].no)

(* The string of a process that plain paths have brought where it is.      *)
CwdLeads(p) ==
    p \in alive /\ p \in plain /\ icwd[p] # None =>
        cwd[p] \in Seq(Names) /\ Leads(cwd[p], slot[icwd[p]].no)
CwdInv ==
    /\ DOMAIN cwd = Procs
    /\ \A p \in Procs : CwdLeads(p) /\ Traces(p)
-----------------------------------------------------------------------------
(* Induction, for a set of numbers.                                        *)
LEMMA Induction ==
  ASSUME NEW S \in SUBSET Nat, 0 \in S, \A m \in S : m + 1 \in S
  PROVE  S = Nat
<1> SUFFICES ASSUME Nat \ S # {} PROVE FALSE
  OBVIOUS
<1>1. PICK x \in Nat \ S : \A y \in Nat \ S : x <= y
  BY LowestExists
<1>2. x # 0 /\ x - 1 \in Nat /\ x - 1 \notin Nat \ S /\ (x - 1) + 1 = x
  BY <1>1
<1> QED BY <1>1, <1>2

(* Two lists begin alike, and go on alike as long as they have been.       *)
GoOn(f, g, n) ==
    f[0] = g[0] /\ \A i \in 1 .. n : f[i - 1] = g[i - 1] => f[i] = g[i]

(* Then they are the same.                                                 *)
LEMMA GoOnAlike ==
  ASSUME NEW f, NEW g, NEW L \in Nat, GoOn(f, g, L)
  PROVE  \A i \in 0 .. L : f[i] = g[i]
<1> DEFINE S == {i \in Nat : i <= L => f[i] = g[i]}
<1>1. 0 \in S
  BY DEF GoOn
<1>2. ASSUME NEW i \in S PROVE i + 1 \in S
  <2>1. CASE i + 1 <= L
    <3>1. i + 1 \in 1 .. L /\ (i + 1) - 1 = i /\ i <= L
      BY <2>1
    <3>2. f[i] = g[i]
      BY <3>1
    <3>3. f[i + 1] = g[i + 1]
      BY <3>1, <3>2 DEF GoOn
    <3> QED BY <3>1, <3>3
  <2>2. CASE ~(i + 1 <= L)
    BY <2>2
  <2> QED BY <2>1, <2>2
<1>3. S \in SUBSET Nat
  OBVIOUS
<1>4. S = Nat
  <2> HIDE DEF S
  <2> QED BY <1>1, <1>2, <1>3, Induction
<1> QED BY <1>4

(* The root is where the empty string leads, and a string goes on leading  *)
(* to the same inode while no entry is lost.                               *)
LEMMA LeadsRoot == Leads(<<>>, Root)
<1>1. Root \in Inos
  BY FilesAssumption DEF Root, Inos
<1>2. PICK v : v = [i \in 0 .. 0 |-> Root]
  OBVIOUS
<1>3. v \in [0 .. Len(<<>>) -> Inos] /\ v[0] = Root /\ v[Len(<<>>)] = Root
  BY <1>1, <1>2
<1>4. \A i \in 1 .. Len(<<>>) : FALSE
  OBVIOUS
<1> QED BY <1>3, <1>4 DEF Leads

(* ... which nobody takes away.                                            *)
LEMMA LeadsKept ==
  ASSUME \A d \in Inos, m \in DirNames : entries[d][m] # 0 => entries'[d][m] = entries[d][m],
         NEW c \in Seq(Names), NEW n, Leads(c, n)
  PROVE  Leads(c, n)'
<1>1. PICK v \in [0 .. Len(c) -> Inos] :
         /\ v[0] = Root /\ v[Len(c)] = n
         /\ \A i \in 1 .. Len(c) : v[i] = entries[v[i - 1]][c[i]]
  BY DEF Leads
<1>2. ASSUME NEW i \in 1 .. Len(c) PROVE v[i] = entries'[v[i - 1]][c[i]]
  <2>1. v[i - 1] \in Inos /\ v[i] \in Inos /\ c[i] \in DirNames
    BY <1>2 DEF DirNames
  <2>2. v[i] # 0
    BY <2>1 DEF Inos
  <2> QED BY <1>1, <2>1, <2>2
<1> QED BY <1>1, <1>2 DEF Leads

(* One name more leads to the entry of that name.                          *)
LEMMA LeadsDown ==
  ASSUME NEW c \in Seq(Names), NEW n, Leads(c, n), NEW m \in Names,
         NEW x \in Inos, x = entries[n][m]
  PROVE  Leads(Append(c, m), x)
<1>1. PICK v \in [0 .. Len(c) -> Inos] :
         /\ v[0] = Root /\ v[Len(c)] = n
         /\ \A i \in 1 .. Len(c) : v[i] = entries[v[i - 1]][c[i]]
  BY DEF Leads
<1>2. PICK d : d = Append(c, m)
  OBVIOUS
<1>3. /\ Len(c) \in Nat /\ Len(d) = Len(c) + 1 /\ d[Len(d)] = m
      /\ \A i \in 1 .. Len(c) : d[i] = c[i]
  BY <1>2
<1>4. PICK w : w = [i \in 0 .. Len(d) |-> IF i = Len(d) THEN x ELSE v[i]]
  OBVIOUS
<1>5. w \in [0 .. Len(d) -> Inos] /\ w[Len(d)] = x /\ \A i \in 0 .. Len(c) : w[i] = v[i]
  BY <1>3, <1>4
<1>6. w[0] = Root /\ w[Len(c)] = n
  BY <1>1, <1>3, <1>5
<1>7. ASSUME NEW i \in 1 .. Len(d) PROVE w[i] = entries[w[i - 1]][d[i]]
  <2>1. CASE i = Len(d)
    <3>1. i - 1 = Len(c)
      BY <1>3, <2>1
    <3> QED BY <1>3, <1>5, <1>6, <2>1, <3>1
  <2>2. CASE i # Len(d)
    <3>1. i \in 1 .. Len(c) /\ i - 1 \in 0 .. Len(c) /\ i \in 0 .. Len(c)
      BY <1>3, <2>2
    <3> QED BY <1>1, <1>3, <1>5, <3>1
  <2> QED BY <2>1, <2>2
<1> QED BY <1>2, <1>5, <1>6, <1>7 DEF Leads

(* The last name dropped leads to the directory above.                     *)
LEMMA LeadsUp ==
  ASSUME TreeInv, NEW c \in Seq(Names), NEW n, Leads(c, n), c # <<>>,
         dnode[n].mode = "dir"
  PROVE  Leads(SubSeq(c, 1, Len(c) - 1), entries[n][".."])
<1>1. PICK v \in [0 .. Len(c) -> Inos] :
         /\ v[0] = Root /\ v[Len(c)] = n
         /\ \A i \in 1 .. Len(c) : v[i] = entries[v[i - 1]][c[i]]
  BY DEF Leads
<1>2. PICK L : L = Len(c) - 1
  OBVIOUS
<1>3. L \in Nat /\ Len(c) = L + 1
  BY <1>2
<1>4. PICK d : d = SubSeq(c, 1, L)
  OBVIOUS
<1>5. Len(d) = L /\ \A i \in 1 .. L : d[i] = c[i]
  BY <1>3, <1>4
<1>6. /\ v[L] \in Inos /\ c[L + 1] \in Names /\ n \in Inos
      /\ n = entries[v[L]][c[L + 1]]
  BY <1>1, <1>3
<1>7. entries[n][".."] = v[L]
  <2>1. n # 0 /\ c[L + 1] \in DirNames
    BY <1>6 DEF Inos, DirNames
  <2> QED BY <1>6, <2>1 DEF TreeInv
<1>8. PICK w : w = [i \in 0 .. L |-> v[i]]
  OBVIOUS
<1>9. w \in [0 .. L -> Inos] /\ w[0] = Root /\ w[L] = v[L]
  BY <1>1, <1>3, <1>8
<1>10. ASSUME NEW i \in 1 .. L PROVE w[i] = entries[w[i - 1]][d[i]]
  <2>1. i \in 1 .. Len(c) /\ i \in 0 .. L /\ i - 1 \in 0 .. L
    BY <1>3
  <2> QED BY <1>1, <1>5, <1>8, <2>1
<1>11. Leads(d, v[L])
  BY <1>5, <1>9, <1>10 DEF Leads
<1> QED BY <1>2, <1>4, <1>7, <1>11

(* A string turned at an element leads to what dirlookup() finds for it.   *)
LEMMA LeadsTurn ==
  ASSUME TreeInv, NEW c \in Seq(Names), NEW n \in Inos, Leads(c, n), Settled(n),
         dnode[n].mode = "dir", NEW m \in DirNames, NEW x, x = entries[n][m], x # 0
  PROVE  Turn(c, m) \in Seq(Names) /\ Leads(Turn(c, m), x)
<1>0. x \in Inos
  BY DEF TreeInv
<1>1. CASE m = "."
  <2>1. Turn(c, m) = c
    BY <1>1 DEF Turn
  <2>2. x = n
    BY <1>1 DEF TreeInv
  <2> QED BY <2>1, <2>2
<1>2. CASE m = ".."
  <2>1. CASE c = <<>>
    <3>1. Turn(c, m) = <<>>
      BY <1>2, <2>1 DEF Turn
    <3>2. n = Root
      BY <2>1 DEF Leads
    <3>3. x = Root
      BY <1>2, <3>2 DEF TreeInv
    <3> QED BY <2>1, <3>1, <3>3, LeadsRoot
  <2>2. CASE c # <<>>
    <3>1. Turn(c, m) = SubSeq(c, 1, Len(c) - 1)
      BY <1>2, <2>2 DEF Turn
    <3>2. SubSeq(c, 1, Len(c) - 1) \in Seq(Names)
      BY <2>2
    <3> QED BY <1>2, <2>2, <3>1, <3>2, LeadsUp
  <2> QED BY <2>1, <2>2
<1>3. CASE m \notin {".", ".."}
  <2>1. Turn(c, m) = Append(c, m) /\ m \in Names
    BY <1>3 DEF Turn, DirNames
  <2> QED BY <1>0, <2>1, LeadsDown
<1> QED BY <1>1, <1>2, <1>3

(* abspath() at piece m, the i-th of n: a turn, if only the last is a gap. *)
Go(c, m, i, n) ==
    CASE m = "." \/ (i = n /\ m = "gap") -> c
      [] m = ".." -> IF c = <<>> THEN <<>> ELSE SubSeq(c, 1, Len(c) - 1)
      [] OTHER -> Append(c, m)
LEMMA GoTurn ==
  ASSUME NEW c, NEW m, NEW i, NEW n, m = "gap" => i = n
  PROVE  Go(c, m, i, n) = IF m = "gap" THEN c ELSE Turn(c, m)
<1>1. CASE m = "."
  BY <1>1 DEF Turn, Go
<1>2. CASE m = "gap"
  BY <1>2 DEF Go
<1>3. CASE m = ".."
  BY <1>3 DEF Turn, Go
<1>4. CASE m \notin {".", "..", "gap"}
  BY <1>4 DEF Turn, Go
<1> QED BY <1>1, <1>2, <1>3, <1>4

(* On a plain path abspath() takes the turns of the elements, whatever     *)
(* list they are in, and none at a '/' that ends the path.                 *)
LEMMA AbspathTurns ==
  ASSUME NEW path, path.elems \in Seq(DirNames), Plain(path), NEW pwd, NEW u,
         Turns(u, pwd, path, Len(path.elems))
  PROVE  abspath(pwd, path.text) = u[Len(path.elems)]
<1> DEFINE L == Len(path.elems)
           n == Len(path.text.toks)
           Loop(f) == f = [i \in 0 .. n |->
              IF i = 0 THEN IF path.text.abs THEN <<>> ELSE pwd
              ELSE Go(f[i - 1], path.text.toks[i], i, n)]
<1>0. PICK el, tk : el = path.elems /\ tk = path.text.toks
  OBVIOUS
<1>1. /\ el \in Seq(DirNames) /\ path.text.abs = path.abs
      /\ tk = el \/ tk = Append(el, "gap")
  BY <1>0 DEF Plain
<1>2. /\ L \in Nat /\ n \in Nat /\ L <= n
      /\ \A i \in 1 .. L : tk[i] = el[i] /\ tk[i] # "gap"
      /\ \A i \in 1 .. n : i \in 1 .. L \/ (i = n /\ i - 1 = L /\ tk[i] = "gap")
  <2>1. L = Len(el) /\ n = Len(tk) /\ Len(el) \in Nat
    BY <1>0, <1>1
  <2>2. \A i \in 1 .. Len(el) : el[i] # "gap"
    BY <1>1, TreeAssumption DEF DirNames
  <2>3. CASE tk = el
    BY <2>1, <2>2, <2>3
  <2>4. CASE tk = Append(el, "gap")
    BY <1>1, <2>1, <2>2, <2>4
  <2> QED BY <1>1, <2>3, <2>4
<1>3. PICK w : w = [i \in 0 .. n |-> IF i <= L THEN u[i] ELSE u[L]]
  OBVIOUS
<1>4. /\ u[0] = (IF path.abs THEN <<>> ELSE pwd)
      /\ \A i \in 1 .. L : u[i] = Turn(u[i - 1], el[i])
  BY <1>0 DEF Turns
<1>5. w[0] = (IF path.text.abs THEN <<>> ELSE pwd) /\ w[n] = u[L]
  BY <1>1, <1>2, <1>3, <1>4
<1>6. \A i \in 1 .. n : /\ i \in 0 .. n /\ i # 0
                        /\ w[i] = IF tk[i] = "gap" THEN w[i - 1] ELSE Turn(w[i - 1], tk[i])
                        /\ tk[i] = "gap" => i = n
  <2> SUFFICES ASSUME NEW i \in 1 .. n
               PROVE  /\ i \in 0 .. n /\ i # 0
                      /\ w[i] = IF tk[i] = "gap" THEN w[i - 1] ELSE Turn(w[i - 1], tk[i])
                      /\ tk[i] = "gap" => i = n
    OBVIOUS
  <2>1. i \in 0 .. n /\ i - 1 \in 0 .. n /\ i # 0
    BY <1>2
  <2>2. CASE i \in 1 .. L
    <3>1. w[i] = u[i] /\ w[i - 1] = u[i - 1] /\ tk[i] = el[i] /\ tk[i] # "gap"
      BY <1>2, <1>3, <2>1, <2>2
    <3> QED BY <1>4, <2>1, <2>2, <3>1
  <2>3. CASE i = n /\ i - 1 = L /\ tk[i] = "gap"
    <3>1. i - 1 <= L /\ ~(i <= L)
      BY <1>2, <2>3
    <3>2. w[i] = u[L] /\ w[i - 1] = u[i - 1]
      BY <1>3, <2>1, <3>1
    <3> QED BY <2>1, <2>3, <3>2
  <2> QED BY <1>2, <2>2, <2>3
<1>7. ASSUME NEW f, NEW i \in 1 .. n
      PROVE  Go(f[i - 1], tk[i], i, n) = IF tk[i] = "gap" THEN f[i - 1] ELSE Turn(f[i - 1], tk[i])
  BY <1>6, GoTurn
<1>8. Loop(w)
  <2>1. \A i \in 0 .. n : i = 0 \/ i \in 1 .. n
    BY <1>2
  <2>2. \A i \in 1 .. n : w[i] = Go(w[i - 1], tk[i], i, n)
    BY <1>6, <1>7
  <2>3. ASSUME NEW i \in 0 .. n
        PROVE  w[i] = IF i = 0 THEN IF path.text.abs THEN <<>> ELSE pwd
                      ELSE Go(w[i - 1], path.text.toks[i], i, n)
    BY <1>0, <1>5, <2>1, <2>2
  <2>4. w = [i \in 0 .. n |-> w[i]]
    BY <1>3
  <2> HIDE DEF n
  <2> QED BY <2>3, <2>4
<1>9. PICK e : e = CHOOSE f : Loop(f)
  OBVIOUS
<1>10. Loop(e)
  <2> HIDE DEF Loop
  <2> QED BY <1>8, <1>9
<1>11. abspath(pwd, path.text) = e[n]
  BY <1>9 DEF abspath, Go
<1>12. GoOn(e, w, n)
  <2>1. e[0] = w[0]
    BY <1>2, <1>5, <1>10
  <2>2. ASSUME NEW i \in 1 .. n, e[i - 1] = w[i - 1] PROVE e[i] = w[i]
    <3>1. e[i] = IF tk[i] = "gap" THEN e[i - 1] ELSE Turn(e[i - 1], tk[i])
      BY <1>0, <1>6, <1>7, <1>10
    <3> QED BY <1>6, <2>2, <3>1
  <2> QED BY <2>1, <2>2 DEF GoOn
<1> HIDE DEF L, n, Loop
<1>13. \A i \in 0 .. n : e[i] = w[i]
  BY <1>2, <1>12, GoOnAlike
<1>14. n \in 0 .. n
  BY <1>2
<1> QED BY <1>5, <1>11, <1>13, <1>14 DEF L

(* What a step of p keeps for the strings: the slots in use have the same  *)
(* inodes, no entry is lost, and only chdir() is in chdir().               *)
OthersStay(p) == \A q \in Procs \ {p} : pc'[q] = pc[q] /\ loc'[q] = loc[q]
NumKept(sl) == \A s \in Slots : slot[s].count > 0 => sl[s].no = slot[s].no
EntriesKept ==
    \A d \in Inos, m \in DirNames : entries[d][m] # 0 => entries'[d][m] = entries[d][m]
Steady(p) == OthersStay(p) /\ NumKept(slot') /\ EntriesKept
Off(p) == loc[p].call.name # "chdir" => loc'[p].call.name # "chdir"

(* p goes to l with locals k.                                              *)
LEMMA MoveOff ==
  ASSUME NEW p \in Procs, LocalsOK, NEW l, NEW k, Goto(p, l),
         loc' = [loc EXCEPT ![p] = k] \/ (loc' = loc /\ k = loc[p]),
         k.call.name # "chdir" \/ k.call = loc[p].call
  PROVE  OthersStay(p) /\ Off(p)
BY DEF Goto, LocalsOK, OthersStay, Off

(* Tables that keep the numbers.                                           *)
LEMMA NumLess ==
  ASSUME NEW sl, NEW s, TableOK(sl), NumKept(sl)
  PROVE  NumKept(Less(sl, s))
BY LessKeeps DEF NumKept

(* ilock() reads into a slot and changes no number.                        *)
LEMMA NumLoaded ==
  ASSUME TableOK(slot), NEW s
  PROVE  NumKept(Loaded(slot, s)) /\ TableOK(Loaded(slot, s))
BY LoadedKeeps DEF NumKept, Alike

(* iget() renumbers only a slot that nobody uses.                          *)
LEMMA NumGot ==
  ASSUME TableInv, NEW n, NEW clean, Found(n) # {}
  PROVE  NumKept(Got(n, clean)) /\ TableOK(Got(n, clean))
<1>1. TableOK(slot) /\ OneSlotIn(slot)
  BY DEF TableInv, OneSlotPerInode, OneSlotIn
<1>2. PICK sl : sl = Got(n, clean)
  OBVIOUS
<1>3. PICK u : u = Lowest(Found(n))
  OBVIOUS
<1>4. /\ u \in Slots /\ \A t \in Slots \ {u} : sl[t] = slot[t]
      /\ SameSlot(slot[u], sl[u]) \/ (slot[u].count = 0 /\ sl[u].valid = clean)
  BY <1>1, <1>2, <1>3, GotSlot
<1>5. NumKept(sl)
  BY <1>4 DEF NumKept, SameSlot
<1>6. TableOK(sl)
  BY <1>1, <1>2, GotOne
<1> QED BY <1>2, <1>5, <1>6

(* iput() in a table that keeps them, on the way to l with locals k.       *)
LEMMA PutOff ==
  ASSUME NEW p \in Procs, LocalsOK, NEW sl, NEW mx, NEW s, NEW k, NEW l,
         Put(p, sl, mx, s, k, l), TableOK(sl), NumKept(sl), DOMAIN k = LocFields,
         k.call.name # "chdir" \/ k.call = loc[p].call
  PROVE  OthersStay(p) /\ Off(p) /\ NumKept(slot')
<1>1. slot' = sl \/ slot' = Less(sl, s)
  BY DEF Put, Less
<1>2. NumKept(slot')
  BY <1>1, NumLess
<1>3. \/ Goto(p, l) /\ loc' = [loc EXCEPT ![p] = k]
      \/ Goto(p, "ifree") /\ loc' = [loc EXCEPT ![p] = [k EXCEPT !.dead = s, !.then = l]]
  BY DEF Put
<1>4. CASE Goto(p, l) /\ loc' = [loc EXCEPT ![p] = k]
  BY <1>2, <1>4, MoveOff
<1>5. CASE Goto(p, "ifree")
           /\ loc' = [loc EXCEPT ![p] = [k EXCEPT !.dead = s, !.then = l]]
  <2>1. PICK j : j = [k EXCEPT !.dead = s, !.then = l]
    OBVIOUS
  <2>2. j.call = k.call
    BY <2>1 DEF LocFields
  <2>3. loc' = [loc EXCEPT ![p] = j]
    BY <1>5, <2>1
  <2> QED BY <1>2, <1>5, <2>2, <2>3, MoveOff
<1> QED BY <1>3, <1>4, <1>5

(* The steps that leave the inode table alone.                             *)
LEMMA OffQuiet ==
  ASSUME TableInv, NEW p \in Procs,
         \/ CreatDone(p) \/ MkdirDone(p) \/ PipeFault(p) \/ Gone(p) \/ FcbFree(p)
         \/ PipeFirst(p) \/ PipeNoFd(p) \/ PipeSecond(p) \/ Open(p) \/ Chmod(p)
         \/ Exit(p) \/ Pipe(p) \/ IFree(p) \/ Oops(p) \/ InodeWait(p) \/ FileWait(p)
         \/ \E old \in Fds : Dup(p, old) \/ \E new \in Fds : Dup2(p, old, new)
  PROVE  Steady(p) /\ Off(p)
<1>0. LocalsOK /\ DOMAIN loc[p] = LocFields
  BY DEF TableInv, LocalsOK
<1>1. NumKept(slot') /\ EntriesKept
  <2>1. slot' = slot /\ entries' = entries
    BY DEF CreatDone, MkdirDone, PipeFault, Gone, FcbFree, PipeFirst, PipeNoFd, PipeSecond,
           Open, Chmod, Exit, Pipe, IFree, Oops, Panic, InodeWait, FileWait, Dup, Dup2,
           tableVars, diskVars
  <2> QED BY <2>1 DEF NumKept, EntriesKept
<1>2. NoLoc.call.name = "none"
  BY DEF NoLoc, NoCall
<1>3. CASE UNCHANGED <<pc, loc>>
  BY <1>1, <1>3 DEF Steady, OthersStay, Off
<1>4. CASE \E l, k : /\ Goto(p, l)
                     /\ loc' = [loc EXCEPT ![p] = k] \/ (loc' = loc /\ k = loc[p])
                     /\ k.call.name # "chdir" \/ k.call = loc[p].call
  BY <1>0, <1>1, <1>4, MoveOff DEF Steady
<1>5. ASSUME Return(p) PROVE Steady(p) /\ Off(p)
  BY <1>2, <1>4, <1>5 DEF Return
<1>6. CASE CreatDone(p) \/ MkdirDone(p) \/ PipeFault(p) \/ Gone(p) \/ PipeNoFd(p)
  BY <1>5, <1>6 DEF CreatDone, MkdirDone, PipeFault, Gone, PipeNoFd
<1>7. CASE FcbFree(p) \/ PipeFirst(p) \/ PipeSecond(p)
  <2>1. \E l, fd : /\ Goto(p, l)
                   /\ loc' = [loc EXCEPT ![p].fd = fd] \/ loc' = [loc EXCEPT ![p].no = fd]
    BY <1>7 DEF FcbFree, PipeFirst, PipeSecond
  <2>2. PICK l, fd : /\ Goto(p, l)
                     /\ loc' = [loc EXCEPT ![p].fd = fd] \/ loc' = [loc EXCEPT ![p].no = fd]
    BY <2>1
  <2>3. PICK k : loc' = [loc EXCEPT ![p] = k] /\ k.call = loc[p].call
    <3>1. [loc[p] EXCEPT !.fd = fd].call = loc[p].call
      BY <1>0 DEF LocFields
    <3>2. [loc[p] EXCEPT !.no = fd].call = loc[p].call
      BY <1>0 DEF LocFields
    <3> QED BY <2>2, <3>1, <3>2
  <2> QED BY <1>4, <2>2, <2>3
<1>8. CASE Open(p)
  <2>1. PICK o : o = IF loc[p].call.sized THEN loc[p].cur ELSE None
    OBVIOUS
  <2>2. PICK l : l = IF loc[p].call.sized THEN "size" ELSE "user"
    OBVIOUS
  <2>3. Goto(p, l) /\ loc' = [loc EXCEPT ![p] = [NoLoc EXCEPT !.obj = o]]
    BY <1>8, <2>1, <2>2 DEF Open
  <2>4. [NoLoc EXCEPT !.obj = o].call.name = "none"
    BY DEF NoLoc, NoCall
  <2> QED BY <1>4, <2>3, <2>4
<1>9. CASE Exit(p) \/ \E old \in Fds : Dup(p, old) \/ \E new \in Fds : Dup2(p, old, new)
  <2>1. PICK l, c : /\ Goto(p, l) /\ c.name # "chdir"
                    /\ loc' = [loc EXCEPT ![p].call = c]
    <3>1. CASE Exit(p)
      BY <3>1 DEF Exit
    <3>2. CASE \E old \in Fds : Dup(p, old)
      BY <3>2 DEF Dup
    <3>3. CASE \E old, new \in Fds : Dup2(p, old, new)
      BY <3>3 DEF Dup2
    <3> QED BY <1>9, <3>1, <3>2, <3>3
  <2>2. [loc[p] EXCEPT !.call = c].call = c
    BY <1>0 DEF LocFields
  <2> QED BY <1>4, <2>1, <2>2
<1>10. CASE Pipe(p) \/ IFree(p)
  <2>1. PICK l : Goto(p, l) /\ loc' = loc
    BY <1>10 DEF Pipe, IFree
  <2> QED BY <1>4, <2>1
<1>11. CASE Chmod(p)
  BY <1>3, <1>5, <1>11 DEF Chmod, Panic
<1>12. CASE Oops(p) \/ InodeWait(p) \/ FileWait(p)
  BY <1>3, <1>12 DEF Oops, Panic, InodeWait, FileWait
<1> QED BY <1>6, <1>7, <1>8, <1>9, <1>10, <1>11, <1>12

(* The steps that change the inode table and leave the directories alone.  *)
LEMMA OffPut ==
  ASSUME TableInv, NEW p \in Procs, entries' = entries, NEW sl, NEW mx, NEW s, NEW k, NEW l,
         Put(p, sl, mx, s, k, l), TableOK(sl), NumKept(sl), DOMAIN k = LocFields,
         k.call.name # "chdir" \/ k.call = loc[p].call
  PROVE  Steady(p) /\ Off(p)
<1>1. LocalsOK
  BY DEF TableInv
<1> QED BY <1>1, PutOff DEF Steady, EntriesKept

(* ... when only p moves.                                                  *)
LEMMA OffMove ==
  ASSUME TableInv, NEW p \in Procs, entries' = entries, NEW k, NEW l,
         Goto(p, l), loc' = [loc EXCEPT ![p] = k] \/ (loc' = loc /\ k = loc[p]),
         NumKept(slot'), k.call.name # "chdir" \/ k.call = loc[p].call
  PROVE  Steady(p) /\ Off(p)
<1>1. LocalsOK
  BY DEF TableInv
<1> QED BY <1>1, MoveOff DEF Steady, EntriesKept

(* The fields that a step sets leave the call as it is.                    *)
LEMMA SameCall ==
  ASSUME TableInv, NEW p \in Procs, NEW x, NEW y
  PROVE  /\ DOMAIN loc[p] = LocFields
         /\ DOMAIN [loc[p] EXCEPT !.cur = x] = LocFields
         /\ [loc[p] EXCEPT !.cur = x].call = loc[p].call
         /\ [loc[p] EXCEPT !.no = x].call = loc[p].call
         /\ [loc[p] EXCEPT !.dead = x].call = loc[p].call
         /\ DOMAIN [loc[p] EXCEPT !.par = x] = LocFields
         /\ [loc[p] EXCEPT !.par = x].call = loc[p].call
         /\ DOMAIN [loc[p] EXCEPT !.fd = x] = LocFields
         /\ [loc[p] EXCEPT !.fd = x].call = loc[p].call
         /\ DOMAIN [loc[p] EXCEPT !.cur = x, !.par = y] = LocFields
         /\ [loc[p] EXCEPT !.cur = x, !.par = y].call = loc[p].call
         /\ [loc[p] EXCEPT !.par = x, !.cur = y].call = loc[p].call
         /\ DOMAIN [loc[p] EXCEPT !.rest = x, !.cur = y] = LocFields
         /\ [loc[p] EXCEPT !.rest = x, !.cur = y].call = loc[p].call
<1>1. DOMAIN loc[p] = LocFields
  BY DEF TableInv, LocalsOK
<1> QED BY <1>1 DEF LocFields

(* The tables that create() and link() put an inode in.                    *)
LEMMA NumSet ==
  ASSUME NEW sl, TableOK(sl), NumKept(sl), NEW s, NEW x
  PROVE  /\ TableOK([sl EXCEPT ![s].links = x]) /\ NumKept([sl EXCEPT ![s].links = x])
         /\ NumKept([sl EXCEPT ![s].count = x])
         /\ NumKept([sl EXCEPT ![s].valid = x])
<1>1. PICK tl : tl = [sl EXCEPT ![s].links = x]
  OBVIOUS
<1>2. TableOK(tl) /\ NumKept(tl)
  BY <1>1 DEF TableOK, NumKept, SlotFields
<1>3. PICK ul : ul = [sl EXCEPT ![s].count = x]
  OBVIOUS
<1>4. NumKept(ul)
  BY <1>3 DEF TableOK, NumKept, SlotFields
<1>5. PICK vl : vl = [sl EXCEPT ![s].valid = x]
  OBVIOUS
<1>6. NumKept(vl)
  BY <1>5 DEF TableOK, NumKept, SlotFields
<1> QED BY <1>1, <1>2, <1>3, <1>4, <1>5, <1>6

(* create() until it makes a name.                                         *)
LEMMA OffCreate ==
  ASSUME TableInv, NEW p \in Procs,
         \/ ParentLock(p) \/ CreateFound(p) \/ CreateOld(p) \/ CreateNew(p)
         \/ CreateGet(p) \/ CreateInit(p) \/ CreateUndo(p) \/ CreateFail(p)
  PROVE  Steady(p) /\ Off(p)
<1>0. /\ TableOK(slot) /\ NumKept(slot)
      /\ \A s : TableOK(Loaded(slot, s)) /\ NumKept(Loaded(slot, s))
  <2>1. TableOK(slot)
    BY DEF TableInv
  <2> QED BY <2>1, NumLoaded DEF NumKept
<1>1. entries' = entries
  BY DEF ParentLock, CreateFound, CreateOld, CreateNew, CreateGet, CreateInit, CreateUndo,
         CreateFail, diskVars
<1>2. DOMAIN NoLoc = LocFields /\ NoLoc.call.name = "none"
  BY FailShape
<1>3. CASE ParentLock(p)
  <2>1. Goto(p, "cdir") /\ loc' = loc /\ slot' = Loaded(slot, loc[p].par)
    BY <1>3 DEF ParentLock
  <2> QED BY <1>0, <1>1, <2>1, OffMove
<1>4. CASE CreateFound(p)
  <2>1. PICK n : n = Entry(loc[p].par, LastName(p))
    OBVIOUS
  <2>2. /\ Found(n) # {}
        /\ Put(p, Got(n, FALSE), Unlocked(loc[p].par), loc[p].par,
               [loc[p] EXCEPT !.cur = Lowest(Found(n)), !.par = None], "cold")
    BY <1>4, <2>1 DEF CreateFound
  <2>3. TableOK(Got(n, FALSE)) /\ NumKept(Got(n, FALSE))
    BY <2>2, NumGot
  <2> QED BY Zenon, <1>1, <2>2, <2>3, SameCall, OffPut
<1>5. CASE CreateOld(p)
  <2>1. PICK s : s = loc[p].cur
    OBVIOUS
  <2>2. \/ slot' = Loaded(slot, s) /\ Goto(p, "found") /\ loc' = loc
        \/ Put(p, Loaded(slot, s), imtx, s, NoLoc, "user")
    BY <1>5, <2>1 DEF CreateOld
  <2>3. CASE slot' = Loaded(slot, s) /\ Goto(p, "found") /\ loc' = loc
    BY <1>0, <1>1, <2>3, OffMove
  <2>4. CASE Put(p, Loaded(slot, s), imtx, s, NoLoc, "user")
    BY <1>0, <1>1, <1>2, <2>4, OffPut
  <2> QED BY <2>2, <2>3, <2>4
<1>6. CASE CreateNew(p)
  <2>1. \/ Put(p, slot, Unlocked(loc[p].par), loc[p].par, NoLoc, "user")
        \/ \E n : loc' = [loc EXCEPT ![p].no = n] /\ Goto(p, "ialloc") /\ slot' = slot
    BY <1>6 DEF CreateNew
  <2>2. CASE Put(p, slot, Unlocked(loc[p].par), loc[p].par, NoLoc, "user")
    BY <1>0, <1>1, <1>2, <2>2, OffPut
  <2>3. CASE \E n : loc' = [loc EXCEPT ![p].no = n] /\ Goto(p, "ialloc") /\ slot' = slot
    <3>1. PICK n : loc' = [loc EXCEPT ![p].no = n] /\ Goto(p, "ialloc") /\ slot' = slot
      BY <2>3
    <3>2. PICK k : k = [loc[p] EXCEPT !.no = n]
      OBVIOUS
    <3>3. k.call = loc[p].call /\ loc' = [loc EXCEPT ![p] = k]
      BY <3>1, <3>2, SameCall
    <3> QED BY <1>0, <1>1, <3>1, <3>3, OffMove
  <2> QED BY <2>1, <2>2, <2>3
<1>7. CASE CreateGet(p)
  <2>1. PICK k : k = [loc[p] EXCEPT !.cur = Lowest(Found(loc[p].no))]
    OBVIOUS
  <2>2. /\ Found(loc[p].no) # {} /\ slot' = Got(loc[p].no, TRUE)
        /\ loc' = [loc EXCEPT ![p] = k] /\ Goto(p, "cnew")
    BY <1>7, <2>1 DEF CreateGet
  <2>3. k.call = loc[p].call
    BY <2>1, SameCall
  <2>4. NumKept(slot')
    BY <2>2, NumGot
  <2> QED BY <1>1, <2>2, <2>3, <2>4, OffMove
<1>8. CASE CreateInit(p)
  <2> DEFINE s == loc[p].cur
             m == IF loc[p].call.name = "mkdir" THEN "dir" ELSE "reg"
  <2>1. slot' = [slot EXCEPT ![s] = [@ EXCEPT !.valid = TRUE, !.mode = m, !.links = 1]]
    BY <1>8 DEF CreateInit
  <2>2. NumKept(slot')
    BY <1>0, <2>1 DEF TableOK, NumKept, SlotFields
  <2>3. Goto(p, "clink") /\ loc' = loc
    BY <1>8 DEF CreateInit
  <2> QED BY <1>1, <2>2, <2>3, OffMove
<1>9. CASE CreateUndo(p)
  <2>1. PICK sl : sl = [slot EXCEPT ![loc[p].cur].links = 0]
    OBVIOUS
  <2>2. Put(p, sl, Unlocked(loc[p].cur), loc[p].cur, [loc[p] EXCEPT !.cur = None], "cfail")
    BY <1>9, <2>1 DEF CreateUndo
  <2>3. TableOK(sl) /\ NumKept(sl)
    BY <1>0, <2>1, NumSet
  <2> QED BY <1>1, <2>2, <2>3, SameCall, OffPut
<1>10. CASE CreateFail(p)
  <2>1. Put(p, slot, Unlocked(loc[p].par), loc[p].par, NoLoc, "user")
    BY <1>10 DEF CreateFail
  <2> QED BY <1>0, <1>1, <1>2, <2>1, OffPut
<1> QED BY <1>3, <1>4, <1>5, <1>6, <1>7, <1>8, <1>9, <1>10

(* dirlink() of a new inode fills an entry that was empty, and those of    *)
(* a directory that had none.                                              *)
LEMMA DirlinkKeeps ==
  ASSUME TreeInv, NEW d \in Inos, NEW n \in Inos, NEW m, NEW isdir,
         ~Settled(n), entries[d][m] = 0, Dirlinked(d, n, m, isdir)
  PROVE  EntriesKept
<1> SUFFICES ASSUME NEW j \in Inos, NEW x \in DirNames, entries[j][x] # 0
             PROVE  entries'[j][x] = entries[j][x]
  BY DEF EntriesKept
<1>1. entries \in [Inos -> [DirNames -> Inos \cup {0}]] /\ Settled(j)
  BY DEF TreeInv
<1>2. j # n
  BY <1>1
<1>3. entries'[j] = entries[j] \/ (j = d /\ entries'[j] = [entries[j] EXCEPT ![m] = n])
  BY <1>1, <1>2 DEF Dirlinked
<1>4. CASE entries'[j] = entries[j]
  BY <1>4
<1>5. CASE j = d /\ entries'[j] = [entries[j] EXCEPT ![m] = n]
  <2>1. x # m
    BY <1>5
  <2> QED BY <1>1, <1>5, <2>1
<1> QED BY <1>3, <1>4, <1>5

(* create() and link() make a name, iput() empties a dead directory.       *)
LEMMA OffEntries ==
  ASSUME TableInv, NameInv, NEW p \in Procs, CreateLink(p) \/ LinkNew(p) \/ ITruncate(p)
  PROVE  Steady(p) /\ Off(p)
<1>0. TableOK(slot) /\ NumKept(slot) /\ LocalsOK /\ TreeInv
  BY DEF TableInv, NumKept, NameInv
<1>1. CASE CreateLink(p)
  <2> DEFINE isdir == loc[p].call.name = "mkdir"
  <2>1. PICK sl : sl = IF isdir THEN [slot EXCEPT ![loc[p].par].links = @ + 1] ELSE slot
    OBVIOUS
  <2>2. TableOK(sl) /\ NumKept(sl)
    BY <1>0, <2>1, NumSet
  <2>3. PICK mx : mx = [imtx EXCEPT ![loc[p].par] = None, ![loc[p].cur] = None]
    OBVIOUS
  <2>4. PICK k : k = [loc[p] EXCEPT !.par = None]
    BY Zenon
  <2>5. Put(p, sl, mx, loc[p].par, k, "found")
    BY Zenon, <1>1, <2>1, <2>3, <2>4 DEF CreateLink
  <2>6. DOMAIN k = LocFields /\ k.call = loc[p].call
    BY <2>4, SameCall
  <2>7. OthersStay(p) /\ Off(p) /\ NumKept(slot')
    BY <1>0, <2>2, <2>5, <2>6, PutOff
  <2>8. EntriesKept
    <3>1. /\ pc[p] = "clink"
          /\ Dirlinked(slot[loc[p].par].no, loc[p].no, LastName(p), isdir)
      BY <1>1 DEF CreateLink, Dirlinked
    <3>2. Makes(p) /\ Climbs(p)
      BY DEF NameInv, CallInv
    <3>3. loc[p].no \in Inos /\ ~Settled(loc[p].no) /\ Entry(loc[p].par, loc[p].rest[1]) = 0
      BY <3>1, <3>2 DEF Makes, Making
    <3>4. Sits(loc[p].par)
      BY <3>1, <3>2 DEF Climbs, Eff, InParent, Making
    <3> HIDE DEF isdir
    <3> QED BY <1>0, <3>1, <3>3, <3>4, DirlinkKeeps DEF Sits, Entry, LastName
  <2> QED BY <2>7, <2>8 DEF Steady
<1>2. CASE LinkNew(p)
  <2>1. PICK k : k = [loc[p] EXCEPT !.par = None]
    BY Zenon
  <2>2. Put(p, slot, Unlocked(loc[p].par), loc[p].par, k, "linked")
    BY <1>2, <2>1 DEF LinkNew
  <2>3. DOMAIN k = LocFields /\ k.call = loc[p].call
    BY <2>1, SameCall
  <2>4. OthersStay(p) /\ Off(p) /\ NumKept(slot')
    BY <1>0, <2>2, <2>3, PutOff
  <2>5. EntriesKept
    <3>1. PICK d, m, n : d = slot[loc[p].par].no /\ m = LastName(p) /\ n = slot[loc[p].obj].no
      OBVIOUS
    <3>2. entries[d][m] = 0 /\ entries' = [entries EXCEPT ![d][m] = n]
      BY <1>2, <3>1 DEF LinkNew, Entry
    <3>3. entries \in [Inos -> [DirNames -> Inos \cup {0}]]
      BY <1>0 DEF TreeInv
    <3> QED BY <3>2, <3>3 DEF EntriesKept
  <2> QED BY <2>4, <2>5 DEF Steady
<1>3. CASE ITruncate(p)
  <2>1. PICK s : s = loc[p].dead
    OBVIOUS
  <2>2. /\ pc[p] = "itrunc" /\ Goto(p, "idrop") /\ loc' = loc
        /\ slot' = [slot EXCEPT ![s].valid = FALSE]
        /\ entries' = [entries EXCEPT ![slot[s].no] = [m \in DirNames |-> 0]]
    BY <1>3, <2>1 DEF ITruncate
  <2>3. NumKept(slot')
    BY <1>0, <2>2, NumSet
  <2>4. OthersStay(p) /\ Off(p)
    BY <1>0, <2>2, MoveOff
  <2>5. slot[s].no \in Inos /\ ~Settled(slot[s].no)
    <3>1. Dies(p)
      BY DEF NameInv, CallInv
    <3> QED BY <2>1, <2>2, <3>1 DEF Dies
  <2>6. EntriesKept
    <3> SUFFICES ASSUME NEW j \in Inos, NEW x \in DirNames, entries[j][x] # 0
                 PROVE  entries'[j][x] = entries[j][x]
      BY DEF EntriesKept
    <3>1. entries \in [Inos -> [DirNames -> Inos \cup {0}]] /\ Settled(j)
      BY <1>0 DEF TreeInv
    <3>2. j # slot[s].no
      BY <2>5, <3>1
    <3> QED BY <2>2, <3>1, <3>2
  <2> QED BY <2>3, <2>4, <2>6 DEF Steady
<1> QED BY <1>1, <1>2, <1>3

(* link() counts its link and goes on to the new name.                     *)
LEMMA OffLinkOld ==
  ASSUME TableInv, NEW p \in Procs, LinkOld(p)
  PROVE  Steady(p) /\ Off(p)
<1>0. \A s : TableOK(Loaded(slot, s)) /\ NumKept(Loaded(slot, s))
  BY NumLoaded DEF TableInv
<1>1. entries' = entries
  BY DEF LinkOld
<1>2. DOMAIN NoLoc = LocFields /\ NoLoc.call.name = "none"
  BY FailShape
<1>3. PICK s, sl : s = loc[p].cur /\ sl = Loaded(slot, s)
  OBVIOUS
<1> DEFINE c == [name |-> "link2", path |-> loc[p].call.new]
           up == [sl EXCEPT ![s].links = @ + 1]
<1>4. c.name = "link2"
  OBVIOUS
<1>5. \/ Put(p, sl, imtx, s, NoLoc, "user")
      \/ /\ slot' = IF c.path.abs THEN up ELSE [up EXCEPT ![icwd[p]].count = @ + 1]
         /\ loc' = [loc EXCEPT ![p] = [NoLoc EXCEPT !.call = c, !.obj = s,
                !.rest = c.path.elems, !.cur = IF c.path.abs THEN None ELSE icwd[p]]]
         /\ Goto(p, IF c.path.abs THEN "root" ELSE "walk")
  BY <1>3 DEF LinkOld
<1>6. TableOK(up) /\ NumKept(up)
  BY <1>0, <1>3, NumSet
<1> HIDE DEF c, up
<1>7. CASE Put(p, sl, imtx, s, NoLoc, "user")
  BY <1>0, <1>1, <1>2, <1>3, <1>7, OffPut
<1>8. CASE /\ slot' = IF c.path.abs THEN up ELSE [up EXCEPT ![icwd[p]].count = @ + 1]
           /\ loc' = [loc EXCEPT ![p] = [NoLoc EXCEPT !.call = c, !.obj = s,
                  !.rest = c.path.elems, !.cur = IF c.path.abs THEN None ELSE icwd[p]]]
           /\ Goto(p, IF c.path.abs THEN "root" ELSE "walk")
  <2>1. PICK k : k = [NoLoc EXCEPT !.call = c, !.obj = s,
                  !.rest = c.path.elems, !.cur = IF c.path.abs THEN None ELSE icwd[p]]
    OBVIOUS
  <2>2. k.call.name # "chdir"
    BY <1>2, <1>4, <2>1 DEF LocFields
  <2>3. PICK l : l = IF c.path.abs THEN "root" ELSE "walk"
    OBVIOUS
  <2>4. NumKept(slot')
    BY <1>8, <1>6, NumSet
  <2>5. Goto(p, l) /\ loc' = [loc EXCEPT ![p] = k]
    BY <1>8, <2>1, <2>3
  <2> QED BY <1>1, <2>2, <2>4, <2>5, OffMove
<1> QED BY <1>5, <1>7, <1>8

(* A descriptor is used.                                                   *)
LEMMA OffUse ==
  ASSUME TableInv, NEW p \in Procs, NEW fd \in Fds, NEW stat \in BOOLEAN, UseFile(p, fd, stat)
  PROVE  Steady(p) /\ Off(p)
<1>1. \/ Panic
      \/ /\ slot' = Loaded(slot, files[fdtable[p][fd]].inode)
         /\ UNCHANGED <<entries, pc, loc>>
  BY DEF UseFile, diskVars
<1>2. \/ slot' = slot
      \/ \E s : slot' = Loaded(slot, s)
  BY <1>1 DEF Panic, tableVars
<1>3. UNCHANGED <<entries, pc, loc>>
  BY <1>1 DEF Panic, diskVars
<1>4. NumKept(slot')
  <2>1. TableOK(slot)
    BY DEF TableInv
  <2> QED BY <1>2, <2>1, NumLoaded DEF NumKept
<1> QED BY <1>3, <1>4 DEF Steady, OthersStay, EntriesKept, Off

(* getdents().                                                             *)
LEMMA OffDents ==
  ASSUME TableInv, NEW p \in Procs,
         \/ \E fd \in Fds : Dents(p, fd)
         \/ DentsFault(p) \/ DentsEnd(p)
  PROVE  /\ Steady(p) /\ Off(p) /\ UNCHANGED <<cwd, icwd, alive, plain>>
         /\ pc[p] \in {"user", "dents"}
<1>0. TableOK(slot) /\ NumKept(slot)
  BY DEF TableInv, NumKept
<1>1. CASE \E fd \in Fds : Dents(p, fd)
  <2>1. PICK s : /\ pc[p] = "user" /\ slot' = Loaded(slot, s) /\ Goto(p, "dents")
                 /\ loc' = [loc EXCEPT ![p] = [NoLoc EXCEPT !.obj = s]]
                 /\ UNCHANGED <<entries, cwd, icwd, alive, plain>>
    BY <1>1 DEF Dents, diskVars, procVars
  <2>2. PICK k : k = [NoLoc EXCEPT !.obj = s]
    OBVIOUS
  <2>3. k.call.name = "none"
    BY <2>2 DEF NoLoc, NoCall
  <2>4. NumKept(slot')
    BY <1>0, <2>1, NumLoaded
  <2> QED BY <2>1, <2>2, <2>3, <2>4, OffMove
<1>2. CASE DentsFault(p)
  <2>1. PICK s : /\ pc[p] = "dents" /\ slot' = Loaded(slot, s)
                 /\ UNCHANGED <<entries, cwd, icwd, alive, plain, pc, loc>>
    BY <1>2 DEF DentsFault, diskVars, procVars
  <2>2. NumKept(slot')
    BY <1>0, <2>1, NumLoaded
  <2> QED BY <2>1, <2>2 DEF Steady, OthersStay, EntriesKept, Off
<1>3. CASE DentsEnd(p)
  <2>1. /\ pc[p] = "dents" /\ Goto(p, "user") /\ loc' = [loc EXCEPT ![p] = NoLoc]
        /\ UNCHANGED <<slot, entries, cwd, icwd, alive, plain>>
    BY <1>3 DEF DentsEnd, Return, diskVars, procVars
  <2>2. NoLoc.call.name = "none"
    BY DEF NoLoc, NoCall
  <2>3. NumKept(slot')
    BY <1>0, <2>1 DEF NumKept
  <2> QED BY <2>1, <2>2, <2>3, OffMove
<1> QED BY <1>1, <1>2, <1>3

(* The rest of link(), the calls that read an inode, and the end of iput().*)
LEMMA OffCalls ==
  ASSUME TableInv, NEW p \in Procs,
         \/ Linked(p) \/ LinkFail(p) \/ LinkUndo(p) \/ Truncate(p) \/ Stat(p)
         \/ OpenSize(p) \/ IDrop(p) \/ PipeInode(p) \/ ExitPut(p)
  PROVE  Steady(p) /\ Off(p)
<1>0. /\ TableOK(slot) /\ NumKept(slot) /\ LocalsOK
      /\ \A s : TableOK(Loaded(slot, s)) /\ NumKept(Loaded(slot, s))
  <2>1. TableOK(slot)
    BY DEF TableInv
  <2> QED BY <2>1, NumLoaded DEF NumKept, TableInv
<1>1. entries' = entries
  <2>1. CASE Linked(p) \/ LinkFail(p) \/ LinkUndo(p) \/ Truncate(p)
    BY <2>1 DEF Linked, LinkFail, LinkUndo, Truncate, diskVars
  <2>2. CASE Stat(p) \/ OpenSize(p) \/ IDrop(p) \/ PipeInode(p) \/ ExitPut(p)
    BY <2>2 DEF Stat, OpenSize, IDrop, PipeInode, ExitPut, diskVars
  <2> QED BY <2>1, <2>2
<1>2. DOMAIN NoLoc = LocFields /\ NoLoc.call.name = "none"
  BY FailShape
<1>4. CASE Linked(p)
  <2>1. Put(p, slot, imtx, loc[p].obj, NoLoc, "user")
    BY <1>4 DEF Linked
  <2> QED BY <1>0, <1>1, <1>2, <2>1, OffPut
<1>5. CASE LinkFail(p)
  <2>1. PICK n : n = Entry(loc[p].par, LastName(p))
    OBVIOUS
  <2>2. PICK sl : sl = IF n = 0 THEN slot ELSE Less(Got(n, FALSE), Lowest(Found(n)))
    OBVIOUS
  <2>3. /\ n = 0 \/ Found(n) # {}
        /\ Put(p, sl, Unlocked(loc[p].par), loc[p].par, FailLoc(loc[p]), "undo")
    BY <1>5, <2>1, <2>2 DEF LinkFail, Less
  <2>4. TableOK(sl) /\ NumKept(sl)
    <3>1. CASE n = 0
      BY <1>0, <2>2, <3>1
    <3>2. CASE n # 0
      <4>1. TableOK(Got(n, FALSE)) /\ NumKept(Got(n, FALSE))
        BY <2>3, <3>2, NumGot
      <4> QED BY <2>2, <3>2, <4>1, NumLess, LessKeeps
    <3> QED BY <3>1, <3>2
  <2>5. /\ DOMAIN FailLoc(loc[p]) = LocFields
        /\ FailLoc(loc[p]).call.name # "chdir" \/ FailLoc(loc[p]).call = loc[p].call
    BY FailShape
  <2> QED BY <1>1, <2>3, <2>4, <2>5, OffPut
<1>6. CASE LinkUndo(p)
  <2>1. PICK sl : sl = [slot EXCEPT ![loc[p].obj].links = @ - 1]
    OBVIOUS
  <2>2. Put(p, sl, imtx, loc[p].obj, NoLoc, "user")
    BY <1>6, <2>1 DEF LinkUndo
  <2>3. TableOK(sl) /\ NumKept(sl)
    BY <1>0, <2>1, NumSet
  <2> QED BY <1>1, <1>2, <2>2, <2>3, OffPut
<1>7. CASE Truncate(p)
  <2>1. Put(p, Loaded(slot, loc[p].cur), imtx, loc[p].cur, NoLoc, "user")
    BY <1>7 DEF Truncate
  <2> QED BY <1>0, <1>1, <1>2, <2>1, OffPut
<1>8. CASE Stat(p) \/ OpenSize(p)
  <2>1. /\ Goto(p, "user") /\ loc' = [loc EXCEPT ![p] = NoLoc]
        /\ slot' = slot \/ \E s : slot' = Loaded(slot, s)
    BY <1>8 DEF Stat, OpenSize, Return
  <2>2. NumKept(slot')
    BY <1>0, <2>1
  <2> QED BY <1>1, <1>2, <2>1, <2>2, OffMove
<1>9. CASE IDrop(p)
  <2>1. PICK k : k = [loc[p] EXCEPT !.dead = None]
    OBVIOUS
  <2>2. /\ Goto(p, loc[p].then) /\ loc' = [loc EXCEPT ![p] = k]
        /\ slot' = Less(slot, loc[p].dead)
    BY <1>9, <2>1 DEF IDrop, Less
  <2>3. NumKept(slot') /\ k.call = loc[p].call
    BY <1>0, <2>1, <2>2, NumLess, SameCall
  <2> QED BY <1>1, <2>2, <2>3, OffMove
<1>10. CASE PipeInode(p)
  <2>1. PICK s : s = Lowest(Free)
    OBVIOUS
  <2>2. /\ slot' = [slot EXCEPT ![s] = [@ EXCEPT !.dev = 0, !.count = 2, !.mode = "fifo"]]
        /\ Goto(p, "user") /\ loc' = [loc EXCEPT ![p] = NoLoc]
    BY <1>10, <2>1 DEF PipeInode, Return
  <2>3. NumKept(slot')
    BY <1>0, <2>2 DEF NumKept, TableOK, SlotFields
  <2> QED BY <1>1, <1>2, <2>2, <2>3, OffMove
<1>11. CASE ExitPut(p)
  <2>1. Put(p, slot, imtx, icwd[p], loc[p], "gone")
    BY <1>11 DEF ExitPut
  <2> QED BY <1>0, <1>1, <2>1, OffPut DEF LocalsOK
<1> QED BY <1>4, <1>5, <1>6, <1>7, <1>8, <1>9, <1>10, <1>11

(* file_close().                                                           *)
LEMMA OffFileClose ==
  ASSUME TableInv, NEW p \in Procs, NEW fd, NEW l, FileClose(p, fd, l)
  PROVE  Steady(p) /\ Off(p) /\ UNCHANGED <<cwd, icwd, alive, plain>>
<1>0. TableOK(slot) /\ NumKept(slot)
  BY DEF TableInv, NumKept
<1>1. CASE Panic
  BY <1>1 DEF Panic, tableVars, diskVars, procVars, Steady, OthersStay, NumKept,
              EntriesKept, Off
<1>2. CASE ~Panic
  <2>1. /\ UNCHANGED <<entries, cwd, icwd, alive, plain>>
        /\ \/ Goto(p, l) /\ UNCHANGED <<slot, loc>>
           \/ ClosePut(p, fd, "ffree")
    BY <1>2 DEF FileClose, diskVars
  <2>2. CASE Goto(p, l) /\ UNCHANGED <<slot, loc>>
    BY <1>0, <2>1, <2>2, OffMove
  <2>3. CASE ClosePut(p, fd, "ffree")
    <3>1. PICK s : s = files[fdtable[p][fd]].inode
      OBVIOUS
    <3>2. PICK k : k = [loc[p] EXCEPT !.fd = fd]
      OBVIOUS
    <3>3. DOMAIN k = LocFields /\ k.call = loc[p].call
      BY <3>2, SameCall
    <3>4. \/ Put(p, slot, imtx, s, k, "ffree")
          \/ /\ Goto(p, "ffree") /\ loc' = [loc EXCEPT ![p] = k]
             /\ slot' = slot \/ slot' = Less(slot, s)
      BY <2>3, <3>1, <3>2 DEF ClosePut, Less
    <3>5. CASE Put(p, slot, imtx, s, k, "ffree")
      BY <1>0, <2>1, <3>3, <3>5, OffPut
    <3>6. CASE /\ Goto(p, "ffree") /\ loc' = [loc EXCEPT ![p] = k]
               /\ slot' = slot \/ slot' = Less(slot, s)
      <4>1. NumKept(slot')
        BY <1>0, <3>6, NumLess
      <4> QED BY <2>1, <3>3, <3>6, <4>1, OffMove
    <3> QED BY <2>1, <3>4, <3>5, <3>6
  <2> QED BY <2>1, <2>2, <2>3
<1> QED BY <1>1, <1>2

(* do_dupfd().                                                             *)
LEMMA OffDupFd ==
  ASSUME TableInv, NEW p \in Procs, DupFd(p)
  PROVE  Steady(p) /\ Off(p) /\ UNCHANGED <<cwd, icwd, alive, plain>>
<1>0. TableOK(slot) /\ NumKept(slot)
  BY DEF TableInv, NumKept
<1>1. Panic \/ (Return(p) /\ UNCHANGED <<slot, entries, cwd, icwd, alive, plain>>)
  BY DEF DupFd, tableVars, diskVars
<1>2. CASE Panic
  BY <1>2 DEF Panic, tableVars, diskVars, procVars, Steady, OthersStay, NumKept,
              EntriesKept, Off
<1>3. CASE Return(p) /\ UNCHANGED <<slot, entries, cwd, icwd, alive, plain>>
  <2>1. NoLoc.call.name # "chdir"
    BY DEF NoLoc, NoCall
  <2>2. Goto(p, "user") /\ loc' = [loc EXCEPT ![p] = NoLoc]
    BY <1>3 DEF Return
  <2> QED BY <1>0, <1>3, <2>1, <2>2, OffMove
<1> QED BY <1>1, <1>2, <1>3

(* close(), the close of dup2() and those of exit.                         *)
LEMMA OffCloses ==
  ASSUME TableInv, NEW p \in Procs,
         \/ \E fd \in Fds : Close(p, fd)
         \/ Dup2Close(p) \/ ExitClose(p)
  PROVE  Steady(p) /\ Off(p) /\ UNCHANGED <<cwd, icwd, alive, plain>>
<1>0. TableOK(slot) /\ NumKept(slot)
  BY DEF TableInv, NumKept
<1>1. CASE \E fd \in Fds : Close(p, fd)
  BY <1>1, OffFileClose DEF Close
<1>2. CASE ExitClose(p)
  BY <1>2, OffFileClose DEF ExitClose
<1>3. CASE Dup2Close(p)
  <2>1. \/ /\ Goto(p, "dupfd")
           /\ UNCHANGED <<slot, entries, cwd, icwd, alive, plain, loc>>
        \/ FileClose(p, loc[p].call.new, "dupfd")
    BY <1>3 DEF Dup2Close, tableVars, diskVars, procVars
  <2>2. CASE /\ Goto(p, "dupfd")
             /\ UNCHANGED <<slot, entries, cwd, icwd, alive, plain, loc>>
    BY <1>0, <2>2, OffMove
  <2> QED BY <2>1, <2>2, OffFileClose
<1> QED BY <1>1, <1>2, <1>3

-----------------------------------------------------------------------------
(* The slots that the strings are about are in use.                        *)
LEMMA TraceInUse ==
  ASSUME TableInv, NameInv, NEW p \in Procs, pc[p] \in {"walk", "look", "found"}
  PROVE  LET s == loc[p].cur IN s \in Slots /\ Sits(s) /\ slot[s].count > 0
<1>1. Walks(p)
  BY DEF NameInv, CallInv
<1>2. PICK s : s = loc[p]["cur"]
  OBVIOUS
<1>3. Sits(s) /\ s \in Slots
  BY <1>1, <1>2 DEF Walks, Sits
<1>4. slot[s].count > 0
  BY <1>2, <1>3, VarInUse DEF RefVars
<1> QED BY <1>2, <1>3, <1>4

(* A walk goes on leading to where it is while no entry is lost, ...       *)
LEMMA TraceKept ==
  ASSUME EntriesKept, NEW c, NEW path, NEW rest, NEW n, Trace(c, path, rest, n)
  PROVE  Trace(c, path, rest, n)'
<1>1. PICK j \in 0 .. Len(path.elems) :
        /\ rest = SubSeq(path.elems, j + 1, Len(path.elems))
        /\ \E u : Turns(u, c, path, j) /\ Leads(u[j], n)
  BY DEF Trace
<1>2. PICK u : Turns(u, c, path, j) /\ Leads(u[j], n)
  BY <1>1
<1>3. u[j] \in Seq(Names)
  BY <1>2 DEF Turns
<1>4. Leads(u[j], n)'
  BY <1>2, <1>3, LeadsKept DEF EntriesKept
<1> QED BY <1>1, <1>2, <1>4 DEF Trace, Turns

(* ... begins at the root or where the string of the process leads, ...    *)
LEMMA TraceStart ==
  ASSUME NEW c, NEW path, path.elems \in Seq(DirNames), NEW n,
         NEW d \in Seq(Names), d = (IF path.abs THEN <<>> ELSE c), Leads(d, n)
  PROVE  Trace(c, path, path.elems, n)
<1>1. PICK u : u = [i \in 0 .. 0 |-> d]
  OBVIOUS
<1>2. u \in [0 .. 0 -> Seq(Names)] /\ u[0] = d
  BY <1>1
<1>3. \A i \in 1 .. 0 : FALSE
  OBVIOUS
<1>4. Turns(u, c, path, 0)
  BY <1>2, <1>3 DEF Turns
<1>5. path.elems = SubSeq(path.elems, 0 + 1, Len(path.elems))
  <2>1. PICK e : e = path.elems
    OBVIOUS
  <2>2. e \in Seq(DirNames)
    BY <2>1
  <2>3. e = SubSeq(e, 1, Len(e))
    BY <2>2
  <2> QED BY <2>1, <2>3
<1>6. 0 \in 0 .. Len(path.elems)
  OBVIOUS
<1> QED BY <1>2, <1>4, <1>5, <1>6 DEF Trace

(* ... takes the next name of the path ...                                 *)
LEMMA TraceNext ==
  ASSUME TreeInv, NEW c, NEW path, path.elems \in Seq(DirNames), NEW rest, rest # <<>>,
         NEW n \in Inos, Settled(n), dnode[n].mode = "dir", Trace(c, path, rest, n),
         NEW x, x = entries[n][Head(rest)], x # 0
  PROVE  Trace(c, path, Tail(rest), x)
<1>1. PICK e : e = path.elems
  OBVIOUS
<1>2. PICK j \in 0 .. Len(e) :
        /\ rest = SubSeq(e, j + 1, Len(e))
        /\ \E u : Turns(u, c, path, j) /\ Leads(u[j], n)
  BY <1>1 DEF Trace
<1>3. PICK u : Turns(u, c, path, j) /\ Leads(u[j], n)
  BY <1>2
<1>4. e \in Seq(DirNames) /\ Len(e) \in Nat
  BY <1>1
<1>5. j < Len(e)
  BY <1>2, <1>4
<1>6. e[j + 1] \in DirNames /\ j + 1 \in 0 .. Len(e) /\ j \in Nat
  BY <1>4, <1>5
<1>7. Head(rest) = e[j + 1] /\ Tail(rest) = SubSeq(e, (j + 1) + 1, Len(e))
  BY <1>2, <1>4, <1>5, <1>6
<1>8. PICK w : w = [i \in 0 .. j + 1 |-> IF i = j + 1 THEN Turn(u[j], e[j + 1]) ELSE u[i]]
  OBVIOUS
<1>9. u \in [0 .. j -> Seq(Names)] /\ u[j] \in Seq(Names)
  BY <1>3, <1>6 DEF Turns
<1>10. Turn(u[j], e[j + 1]) \in Seq(Names) /\ Leads(Turn(u[j], e[j + 1]), x)
  BY <1>3, <1>6, <1>7, <1>9, LeadsTurn
<1>11. /\ w \in [0 .. j + 1 -> Seq(Names)] /\ w[j + 1] = Turn(u[j], e[j + 1])
       /\ \A i \in 0 .. j : w[i] = u[i]
  BY <1>6, <1>8, <1>9, <1>10
<1>12. Turns(w, c, path, j + 1)
  <2>1. w[0] = IF path.abs THEN <<>> ELSE c
    BY <1>3, <1>6, <1>11 DEF Turns
  <2>2. ASSUME NEW i \in 1 .. j + 1 PROVE w[i] = Turn(w[i - 1], e[i])
    <3>1. CASE i = j + 1
      <4>1. i - 1 = j /\ j \in 0 .. j
        BY <1>6, <3>1
      <4> QED BY <1>11, <3>1, <4>1
    <3>2. CASE i # j + 1
      <4>1. i \in 1 .. j /\ i \in 0 .. j /\ i - 1 \in 0 .. j
        BY <1>6, <3>2
      <4> QED BY <1>1, <1>3, <1>11, <4>1 DEF Turns
    <3> QED BY <3>1, <3>2
  <2> QED BY <1>1, <1>11, <2>1, <2>2 DEF Turns
<1> QED BY <1>1, <1>6, <1>7, <1>10, <1>11, <1>12 DEF Trace

(* ... and ends where the string leads that abspath() makes.               *)
LEMMA TraceEnd ==
  ASSUME NEW c, NEW path, path.elems \in Seq(DirNames), Plain(path), NEW n,
         Trace(c, path, <<>>, n)
  PROVE  abspath(c, path.text) \in Seq(Names) /\ Leads(abspath(c, path.text), n)
<1>1. PICK e : e = path.elems
  OBVIOUS
<1>2. PICK j \in 0 .. Len(e) :
        /\ <<>> = SubSeq(e, j + 1, Len(e))
        /\ \E u : Turns(u, c, path, j) /\ Leads(u[j], n)
  BY <1>1 DEF Trace
<1>3. PICK u : Turns(u, c, path, j) /\ Leads(u[j], n)
  BY <1>2
<1>4. e \in Seq(DirNames) /\ Len(e) \in Nat
  BY <1>1
<1>5. j = Len(e)
  <2> SUFFICES ASSUME j < Len(e) PROVE FALSE
    BY <1>4
  <2>1. PICK r : r = SubSeq(e, j + 1, Len(e))
    OBVIOUS
  <2>2. r[1] = e[j + 1] /\ Len(r) = Len(e) - j /\ j \in Nat
    BY <1>4, <2>1
  <2>3. r = <<>>
    BY <1>2, <2>1
  <2>4. Len(r) = 0
    BY <2>3
  <2> QED BY <1>4, <2>2, <2>4
<1>6. abspath(c, path.text) = u[Len(path.elems)]
  BY <1>1, <1>3, <1>5, AbspathTurns
<1>7. u[j] \in Seq(Names)
  BY <1>3 DEF Turns
<1> QED BY <1>1, <1>3, <1>5, <1>6, <1>7

(* A walk stays where it is while its process does.                        *)
LEMMA TraceStays ==
  ASSUME TableInv, NameInv, CwdInv, NEW p, Steady(p), NEW q \in Procs,
         UNCHANGED <<pc[q], loc[q], cwd[q]>>, q \in plain' => q \in plain, Traces(q)
  PROVE  Traces(q)'
<1> SUFFICES ASSUME loc[q].call.name = "chdir", pc[q] # "root",
                    loc[q].call.path.abs \/ q \in plain
             PROVE  Trace(cwd[q], loc[q].call.path, loc[q].rest, slot[loc[q].cur].no)'
  BY DEF Traces
<1>1. pc[q] \in {"walk", "look", "found"}
      /\ Trace(cwd[q], loc[q].call.path, loc[q].rest, slot[loc[q].cur].no)
  BY DEF Traces
<1>2. PICK c, path, rest, s : /\ c = cwd[q] /\ path = loc[q].call.path
                              /\ rest = loc[q].rest /\ s = loc[q].cur
  OBVIOUS
<1>3. s \in Slots /\ slot[s].count > 0
  BY <1>1, <1>2, TraceInUse
<1>4. PICK n : n = slot[s].no
  OBVIOUS
<1>5. slot'[s].no = n
  BY <1>3, <1>4 DEF Steady, NumKept
<1>6. Trace(c, path, rest, n)
  BY <1>1, <1>2, <1>4
<1>7. Trace(c, path, rest, n)'
  BY <1>6, TraceKept DEF Steady
<1> QED BY <1>2, <1>5, <1>7

(* So does the inode that the string of a process leads to.                *)
LEMMA CwdStays ==
  ASSUME TableInv, NameInv, CwdInv, NEW p, Steady(p), NEW q \in Procs,
         UNCHANGED <<icwd[q], cwd[q]>>, q \in alive' => q \in alive,
         q \in plain' => q \in plain
  PROVE  CwdLeads(q)'
<1> SUFFICES ASSUME q \in alive, q \in plain, icwd[q] # None
             PROVE  cwd[q] \in Seq(Names) /\ Leads(cwd[q], slot[icwd[q]].no)'
  BY DEF CwdLeads
<1>1. PICK c, s, n : c = cwd[q] /\ s = icwd[q] /\ n = slot[s].no
  OBVIOUS
<1>2. c \in Seq(Names) /\ Leads(c, n)
  BY <1>1 DEF CwdInv, CwdLeads
<1>3. s \in Slots /\ slot[s].count > 0
  <2>1. Home(q)
    BY DEF NameInv, HomeInv
  <2>2. s \in Slots
    BY <1>1, <2>1 DEF Home, Sits
  <2> QED BY <1>1, <2>2, CwdInUse
<1>4. slot'[s].no = n
  BY <1>1, <1>3 DEF Steady, NumKept
<1>5. Leads(c, n)'
  BY <1>2, LeadsKept DEF Steady, EntriesKept
<1> QED BY <1>1, <1>2, <1>4, <1>5

(* A step that changes no current directory: it is left to say what        *)
(* becomes of the walk of p itself.                                        *)
LEMMA CwdFrame ==
  ASSUME TableInv, NameInv, CwdInv, NEW p \in Procs, Steady(p),
         UNCHANGED <<cwd, icwd, alive, plain>>, Traces(p)'
  PROVE  CwdInv'
<1>1. ASSUME NEW q \in Procs PROVE CwdLeads(q)' /\ Traces(q)'
  <2>1. CwdLeads(q)'
    BY CwdStays
  <2>2. CASE q # p
    <3>1. UNCHANGED <<pc[q], loc[q], cwd[q]>> /\ Traces(q)
      BY <2>2 DEF Steady, OthersStay, CwdInv
    <3> QED BY <2>1, <3>1, TraceStays
  <2> QED BY <2>1, <2>2
<1>2. DOMAIN cwd' = Procs
  BY DEF CwdInv
<1> QED BY <1>1, <1>2 DEF CwdInv

(* A step outside chdir(), or one that does not move p.                    *)
LEMMA CwdOff ==
  ASSUME TableInv, NameInv, CwdInv, NEW p \in Procs, Steady(p), Off(p),
         UNCHANGED <<cwd, icwd, alive, plain>>,
         loc[p].call.name # "chdir" \/ UNCHANGED <<pc[p], loc[p]>>
  PROVE  CwdInv'
<1>1. CASE loc[p].call.name # "chdir"
  <2>1. Traces(p)'
    BY <1>1 DEF Off, Traces
  <2> QED BY <2>1, CwdFrame
<1>2. CASE UNCHANGED <<pc[p], loc[p]>>
  <2>1. Traces(p) /\ UNCHANGED <<pc[p], loc[p], cwd[p]>>
    BY <1>2 DEF CwdInv
  <2>2. Traces(p)'
    BY <2>1, TraceStays
  <2> QED BY <2>2, CwdFrame
<1> QED BY <1>1, <1>2

(* The steps of the other calls.                                           *)
LEMMA CwdOther ==
  ASSUME TableInv, NameInv, CwdInv, NEW p \in Procs,
         \/ CreatDone(p) \/ MkdirDone(p) \/ PipeFault(p) \/ FcbFree(p)
         \/ PipeFirst(p) \/ PipeNoFd(p) \/ PipeSecond(p) \/ Open(p) \/ Chmod(p)
         \/ Exit(p) \/ Pipe(p) \/ IFree(p) \/ Oops(p) \/ InodeWait(p) \/ FileWait(p)
         \/ \E old \in Fds : Dup(p, old) \/ \E new \in Fds : Dup2(p, old, new)
  PROVE  CwdInv'
<1>1. Steady(p) /\ Off(p)
  BY OffQuiet
<1>2. UNCHANGED <<cwd, icwd, alive, plain>>
  BY DEF CreatDone, MkdirDone, PipeFault, FcbFree, PipeFirst, PipeNoFd, PipeSecond,
         Open, Chmod, Exit, Pipe, IFree, Oops, Panic, InodeWait, FileWait, Dup, Dup2,
         procVars
<1>3. Traces(p)
  BY DEF CwdInv
<1>4. loc[p].call.name # "chdir" \/ UNCHANGED <<pc[p], loc[p]>>
  <2>1. CASE Oops(p) \/ InodeWait(p) \/ FileWait(p)
    BY <2>1 DEF Oops, Panic, InodeWait, FileWait
  <2>2. CASE ~(Oops(p) \/ InodeWait(p) \/ FileWait(p))
    <3>1. \/ pc[p] \in {"pipe3", "ffree", "pipe1", "pipe2", "user", "ifree"}
          \/ loc[p].call.name \in {"creat", "mkdir", "open", "chmod"}
      BY <2>2 DEF CreatDone, MkdirDone, PipeFault, FcbFree, PipeFirst, PipeNoFd, PipeSecond,
             Open, Chmod, Exit, Pipe, IFree, Dup, Dup2, Is
    <3> QED BY <1>3, <3>1 DEF Traces
  <2> QED BY <2>1, <2>2
<1> QED BY <1>1, <1>2, <1>4, CwdOff

(* What the steps of creat() leave alone, and where they are.              *)
MakesAt(p) == /\ UNCHANGED <<cwd, icwd, alive, plain>>
              /\ pc[p] \in {"parent", "cdir", "cold", "ialloc", "cnew", "clink", "cfail",
                            "itrunc"}

(* ... no step of creat() moves a current directory.                       *)
LEMMA MakesFixed ==
  ASSUME NEW p
  PROVE  /\ ParentLock(p) => MakesAt(p)
         /\ CreateFound(p) => MakesAt(p)
         /\ CreateOld(p) => MakesAt(p)
         /\ CreateNew(p) => MakesAt(p)
         /\ CreateGet(p) => MakesAt(p)
         /\ CreateInit(p) => MakesAt(p)
         /\ CreateUndo(p) => MakesAt(p)
         /\ CreateFail(p) => MakesAt(p)
         /\ CreateLink(p) => MakesAt(p)
         /\ LinkNew(p) => MakesAt(p)
         /\ ITruncate(p) => MakesAt(p)
<1>1. ParentLock(p) => MakesAt(p)
  BY DEF MakesAt, ParentLock, procVars
<1>2. CreateFound(p) => MakesAt(p)
  BY DEF MakesAt, CreateFound, procVars
<1>3. CreateOld(p) => MakesAt(p)
  BY DEF MakesAt, CreateOld, procVars
<1>4. CreateNew(p) => MakesAt(p)
  BY DEF MakesAt, CreateNew, procVars
<1>5. CreateGet(p) => MakesAt(p)
  BY DEF MakesAt, CreateGet, procVars
<1>6. CreateInit(p) => MakesAt(p)
  BY DEF MakesAt, CreateInit, procVars
<1>7. CreateUndo(p) => MakesAt(p)
  BY DEF MakesAt, CreateUndo, procVars
<1>8. CreateFail(p) => MakesAt(p)
  BY DEF MakesAt, CreateFail, procVars
<1>9. CreateLink(p) => MakesAt(p)
  BY DEF MakesAt, CreateLink, procVars
<1>10. LinkNew(p) => MakesAt(p)
  BY DEF MakesAt, LinkNew, procVars
<1>11. ITruncate(p) => MakesAt(p)
  BY DEF MakesAt, ITruncate, procVars
<1> QED BY <1>1, <1>2, <1>3, <1>4, <1>5, <1>6, <1>7, <1>8, <1>9, <1>10, <1>11

(* The steps of creat() and of the end of a dead inode.                    *)
LEMMA CwdMakes ==
  ASSUME TableInv, NameInv, CwdInv, NEW p \in Procs,
         \/ ParentLock(p) \/ CreateFound(p) \/ CreateOld(p) \/ CreateNew(p)
         \/ CreateGet(p) \/ CreateInit(p) \/ CreateUndo(p) \/ CreateFail(p)
         \/ CreateLink(p) \/ LinkNew(p) \/ ITruncate(p)
  PROVE  CwdInv'
<1>1. Steady(p) /\ Off(p)
  BY OffCreate, OffEntries
<1>2. MakesAt(p)
  BY MakesFixed
<1>3. UNCHANGED <<cwd, icwd, alive, plain>>
  BY <1>2 DEF MakesAt
<1>4. loc[p].call.name # "chdir"
  BY <1>2 DEF CwdInv, Traces, MakesAt
<1> QED BY <1>1, <1>3, <1>4, CwdOff

(* The rest of link(), truncate(), stat(), open() and pipe().              *)
LEMMA CwdCalls ==
  ASSUME TableInv, NameInv, CwdInv, NEW p \in Procs,
         \/ Linked(p) \/ LinkFail(p) \/ LinkUndo(p) \/ Truncate(p)
         \/ Stat(p) \/ OpenSize(p) \/ IDrop(p) \/ PipeInode(p)
  PROVE  CwdInv'
<1>1. Steady(p) /\ Off(p)
  BY OffCalls
<1>2. UNCHANGED <<cwd, icwd, alive, plain>>
  <2>1. CASE Linked(p) \/ LinkFail(p) \/ LinkUndo(p) \/ Truncate(p)
    BY <2>1 DEF Linked, LinkFail, LinkUndo, Truncate, procVars
  <2>2. CASE Stat(p) \/ OpenSize(p) \/ IDrop(p) \/ PipeInode(p)
    BY <2>2 DEF Stat, OpenSize, IDrop, PipeInode, procVars
  <2> QED BY <2>1, <2>2
<1>3. \/ pc[p] \in {"linked", "cdir", "undo", "size", "idrop", "pipe3"}
      \/ loc[p].call.name \in {"truncate", "stat"}
  <2>1. CASE Linked(p) \/ LinkFail(p) \/ LinkUndo(p) \/ Truncate(p)
    BY <2>1 DEF Linked, LinkFail, LinkUndo, Truncate, Is
  <2>2. CASE Stat(p) \/ OpenSize(p) \/ IDrop(p) \/ PipeInode(p)
    BY <2>2 DEF Stat, OpenSize, IDrop, PipeInode, Is
  <2> QED BY <2>1, <2>2
<1>4. loc[p].call.name # "chdir"
  BY <1>3 DEF CwdInv, Traces
<1> QED BY <1>1, <1>2, <1>4, CwdOff

(* read(), write(), lseek() and fstat().                                   *)
LEMMA CwdUse ==
  ASSUME TableInv, NameInv, CwdInv, NEW p \in Procs,
         NEW fd \in Fds, NEW stat \in BOOLEAN, UseFile(p, fd, stat)
  PROVE  CwdInv'
<1>1. Steady(p) /\ Off(p)
  BY OffUse
<1>2. UNCHANGED <<cwd, icwd, alive, plain>>
  BY DEF UseFile, Panic, procVars
<1>3. pc[p] = "user"
  BY DEF UseFile
<1>4. loc[p].call.name # "chdir"
  BY <1>3 DEF CwdInv, Traces
<1> QED BY <1>1, <1>2, <1>4, CwdOff

(* getdents().                                                             *)
LEMMA CwdDents ==
  ASSUME TableInv, NameInv, CwdInv, NEW p \in Procs,
         \/ \E fd \in Fds : Dents(p, fd)
         \/ DentsFault(p) \/ DentsEnd(p)
  PROVE  CwdInv'
<1>1. /\ Steady(p) /\ Off(p) /\ UNCHANGED <<cwd, icwd, alive, plain>>
      /\ pc[p] \in {"user", "dents"}
  BY OffDents
<1>2. loc[p].call.name # "chdir"
  BY <1>1 DEF CwdInv, Traces
<1> QED BY <1>1, <1>2, CwdOff

(* close(), and the closes of dup2() and of exit().                        *)
LEMMA CwdCloses ==
  ASSUME TableInv, NameInv, CwdInv, NEW p \in Procs,
         \/ \E fd \in Fds : Close(p, fd)
         \/ Dup2Close(p) \/ ExitClose(p)
  PROVE  CwdInv'
<1>1. Steady(p) /\ Off(p) /\ UNCHANGED <<cwd, icwd, alive, plain>>
  BY OffCloses
<1>2. pc[p] \in {"user", "dup2", "exit"}
  BY DEF Close, Dup2Close, ExitClose
<1>3. loc[p].call.name # "chdir"
  BY <1>2 DEF CwdInv, Traces
<1> QED BY <1>1, <1>3, CwdOff

(* The old path of link(), which goes on to the new one.                   *)
LEMMA CwdLinkOld ==
  ASSUME TableInv, NameInv, CwdInv, NEW p \in Procs, LinkOld(p)
  PROVE  CwdInv'
<1>1. Steady(p) /\ Off(p)
  BY OffLinkOld
<1>2. UNCHANGED <<cwd, icwd, alive, plain>> /\ loc[p].call.name = "link"
  BY DEF LinkOld, Is, procVars
<1> QED BY <1>1, <1>2, CwdOff

(* dup() and dup2() once a descriptor is free.                             *)
LEMMA CwdDupFd ==
  ASSUME TableInv, NameInv, CwdInv, NEW p \in Procs, DupFd(p)
  PROVE  CwdInv'
<1>1. Steady(p) /\ Off(p) /\ UNCHANGED <<cwd, icwd, alive, plain>>
  BY OffDupFd
<1>2. pc[p] = "dupfd"
  BY DEF DupFd
<1>3. loc[p].call.name # "chdir"
  BY <1>2 DEF CwdInv, Traces
<1> QED BY <1>1, <1>3, CwdOff

(* A step of p that moves the current directory of p alone.                *)
LEMMA CwdStep ==
  ASSUME TableInv, NameInv, CwdInv, NEW p \in Procs, Steady(p),
         \A q \in Procs \ {p} : /\ UNCHANGED <<icwd[q], cwd[q]>>
                                /\ q \in alive' => q \in alive
                                /\ q \in plain' => q \in plain,
         DOMAIN cwd' = Procs, CwdLeads(p)', Traces(p)'
  PROVE  CwdInv'
<1>1. ASSUME NEW q \in Procs, q # p PROVE CwdLeads(q)' /\ Traces(q)'
  <2>1. /\ UNCHANGED <<icwd[q], cwd[q]>>
        /\ (q \in alive' => q \in alive) /\ (q \in plain' => q \in plain)
    BY <1>1
  <2>2. UNCHANGED <<pc[q], loc[q], cwd[q]>> /\ Traces(q)
    BY <1>1, <2>1 DEF Steady, OthersStay, CwdInv
  <2> QED BY <2>1, <2>2, CwdStays, TraceStays
<1> QED BY <1>1 DEF CwdInv

(* exit() puts the current directory, ...                                  *)
LEMMA CwdExitPut ==
  ASSUME TableInv, NameInv, CwdInv, NEW p \in Procs, ExitPut(p)
  PROVE  CwdInv'
<1>1. Steady(p) /\ Off(p)
  BY OffCalls
<1>2. /\ pc[p] = "exit" /\ icwd' = [icwd EXCEPT ![p] = None]
      /\ UNCHANGED <<cwd, alive, plain>>
  BY DEF ExitPut
<1>3. icwd'[p] = None /\ \A q \in Procs \ {p} : icwd'[q] = icwd[q]
  BY <1>2 DEF TableInv, LocalsOK
<1>4. loc[p].call.name # "chdir"
  BY <1>2 DEF CwdInv, Traces
<1>5. CwdLeads(p)' /\ Traces(p)'
  BY <1>1, <1>3, <1>4 DEF Off, CwdLeads, Traces
<1>6. DOMAIN cwd' = Procs
  BY <1>2 DEF CwdInv
<1> QED BY <1>1, <1>2, <1>3, <1>5, <1>6, CwdStep

(* ... and empties its string.                                             *)
LEMMA CwdGone ==
  ASSUME TableInv, NameInv, CwdInv, NEW p \in Procs, Gone(p)
  PROVE  CwdInv'
<1>1. Steady(p) /\ Off(p)
  BY OffQuiet
<1>2. /\ pc[p] = "gone" /\ alive' = alive \ {p} /\ icwd' = icwd
      /\ cwd' = [cwd EXCEPT ![p] = <<>>] /\ plain' = plain \cup {p}
  BY DEF Gone
<1>4. DOMAIN cwd' = Procs /\ \A q \in Procs \ {p} : cwd'[q] = cwd[q]
  BY <1>2 DEF CwdInv
<1>5. loc[p].call.name # "chdir"
  BY <1>2 DEF CwdInv, Traces
<1>6. CwdLeads(p)' /\ Traces(p)'
  BY <1>1, <1>2, <1>5 DEF Off, CwdLeads, Traces
<1> QED BY <1>1, <1>2, <1>4, <1>6, CwdStep

(* do_fork(): the child has the string and the inode of its parent.        *)
LEMMA CwdFork ==
  ASSUME FcbInv, TableInv, NameInv, CwdInv, NEW p \in Procs, NEW q \in Procs, Fork(p, q)
  PROVE  CwdInv'
<1>1. CASE Panic
  <2>1. UNCHANGED <<slot, entries, cwd, icwd, alive, plain, pc, loc>>
    BY <1>1 DEF Panic, tableVars, diskVars, procVars
  <2>2. Steady(p) /\ Off(p)
    BY <2>1 DEF Steady, OthersStay, NumKept, EntriesKept, Off
  <2> QED BY <2>1, <2>2, CwdOff
<1>2. CASE ~Panic
  <2>1. /\ p \in alive /\ q \notin alive /\ alive' = alive \cup {q}
        /\ slot' = [slot EXCEPT ![icwd[p]].count = @ + 1]
        /\ icwd' = [icwd EXCEPT ![q] = icwd[p]] /\ cwd' = [cwd EXCEPT ![q] = cwd[p]]
        /\ plain' = (IF p \in plain THEN plain \cup {q} ELSE plain \ {q})
        /\ UNCHANGED <<entries, pc, loc>>
    BY <1>2 DEF Fork, Awake, diskVars
  <2>2. Steady(q)
    <3>1. TableOK(slot) /\ NumKept(slot)
      BY DEF TableInv, NumKept
    <3>2. NumKept(slot')
      BY <2>1, <3>1, NumSet
    <3> QED BY <2>1, <3>2 DEF Steady, OthersStay, EntriesKept
  <2>3. /\ \A r \in Procs \ {q} : icwd'[r] = icwd[r] /\ cwd'[r] = cwd[r]
        /\ icwd'[q] = icwd[p] /\ cwd'[q] = cwd[p] /\ DOMAIN cwd' = Procs
    BY <2>1 DEF CwdInv, TableInv, LocalsOK
  <2>4. loc[q].call.name = "none"
    BY <2>1 DEF FcbInv, Control
  <2>5. Traces(q)'
    BY <2>1, <2>4 DEF Traces
  <2>6. CwdLeads(p)'
    <3>1. p # q
      BY <2>1
    <3>2. UNCHANGED <<icwd[p], cwd[p]>> /\ (p \in plain' => p \in plain)
      BY <2>1, <2>3, <3>1
    <3> QED BY <2>1, <2>2, <3>2, CwdStays
  <2>7. CwdLeads(q)'
    <3>1. p # q /\ p \in alive'
      BY <2>1
    <3>2. icwd'[q] = icwd'[p] /\ cwd'[q] = cwd'[p] /\ (q \in plain' => p \in plain')
      BY <2>1, <2>3, <3>1
    <3> QED BY <2>6, <3>1, <3>2 DEF CwdLeads
  <2> QED BY <2>1, <2>2, <2>3, <2>5, <2>7, CwdStep
<1> QED BY <1>1, <1>2

(* chdir() begins: at the root, or where the string of p leads.            *)
LEMMA CwdPath ==
  ASSUME TableInv, NameInv, CwdInv, NEW p \in Procs, NEW c \in PathCalls, PathCall(p, c)
  PROVE  CwdInv'
<1>0. LocalsOK /\ TableOK(slot) /\ NumKept(slot)
  BY DEF TableInv, NumKept
<1>1. /\ pc[p] = "user" /\ p \in alive /\ WalkFrom(p, c, NoLoc)
      /\ UNCHANGED <<entries, icwd, cwd, alive, plain>>
  BY DEF PathCall, Awake, diskVars, procVars
<1>2. PICK s : s = icwd[p]
  OBVIOUS
<1>3. s \in Slots /\ s # None /\ slot[s].count > 0
  <2>1. Home(p)
    BY DEF NameInv, HomeInv
  <2> QED BY <1>1, <1>2, <2>1, CwdInUse DEF Home, Sits
<1>4. NumKept(slot')
  BY <1>0, <1>1, NumSet DEF WalkFrom
<1>5. /\ loc'[p].rest = c.path.elems /\ loc'[p].call = c
      /\ pc'[p] = (IF c.path.abs THEN "root" ELSE "walk")
      /\ ~c.path.abs => loc'[p].cur = s
      /\ \A q \in Procs \ {p} : pc'[q] = pc[q] /\ loc'[q] = loc[q]
  BY <1>0, <1>1, <1>2 DEF WalkFrom, Goto, LocalsOK, NoLoc
<1>6. Steady(p)
  BY <1>1, <1>4, <1>5 DEF Steady, OthersStay, EntriesKept
<1>7. c.path.elems \in Seq(DirNames) /\ c.path.abs \in BOOLEAN
  BY FilesAssumption
<1>8. Traces(p)'
  <2>1. CASE c.path.abs
    BY <1>5, <1>7, <2>1 DEF Traces
  <2>2. CASE ~c.path.abs /\ p \notin plain
    BY <1>1, <1>5, <1>7, <2>2 DEF Traces
  <2>3. CASE ~c.path.abs /\ p \in plain
    <3>1. PICK d : d = cwd[p]
      OBVIOUS
    <3>2. PICK n : n = slot[s].no
      OBVIOUS
    <3>3. d \in Seq(Names) /\ Leads(d, n)
      BY <1>1, <1>2, <1>3, <2>3, <3>1, <3>2 DEF CwdInv, CwdLeads
    <3>4. Trace(d, c.path, c.path.elems, n)
      BY <1>7, <2>3, <3>3, TraceStart
    <3>5. Trace(d, c.path, c.path.elems, n)'
      BY <1>6, <3>4, TraceKept DEF Steady
    <3>6. slot'[s].no = n /\ cwd'[p] = d
      BY <1>1, <1>3, <1>4, <3>1, <3>2 DEF NumKept
    <3> QED BY <1>5, <1>7, <2>3, <3>5, <3>6 DEF Traces
  <2> QED BY <2>1, <2>2, <2>3
<1> QED BY <1>1, <1>6, <1>8, CwdFrame

(* A step of a walk that stays where it is.                                *)
LEMMA TraceStill ==
  ASSUME TableInv, NameInv, CwdInv, NEW p \in Procs, Steady(p),
         UNCHANGED <<loc[p], cwd[p]>>, p \in plain' => p \in plain,
         pc[p] \in {"walk", "look", "found"},
         pc'[p] = "look" \/ (pc'[p] = "found" /\ loc[p].rest = <<>>)
  PROVE  Traces(p)'
<1> SUFFICES ASSUME loc[p].call.name = "chdir"
             PROVE  /\ loc[p].call.path.abs \in BOOLEAN
                    /\ loc[p].call.path.elems \in Seq(DirNames)
                    /\ loc[p].call.path.abs \/ p \in plain =>
                       Trace(cwd[p], loc[p].call.path, loc[p].rest, slot[loc[p].cur].no)'
  BY DEF Traces
<1>0. /\ loc[p].call.path.abs \in BOOLEAN
      /\ loc[p].call.path.elems \in Seq(DirNames)
      /\ loc[p].call.path.abs \/ p \in plain =>
            Trace(cwd[p], loc[p].call.path, loc[p].rest, slot[loc[p].cur].no)
  BY DEF CwdInv, Traces
<1> SUFFICES ASSUME loc[p].call.path.abs \/ p \in plain
             PROVE  Trace(cwd[p], loc[p].call.path, loc[p].rest, slot[loc[p].cur].no)'
  BY <1>0
<1>1. Trace(cwd[p], loc[p].call.path, loc[p].rest, slot[loc[p].cur].no)
  BY <1>0
<1>2. PICK c, path, rest, s : /\ c = cwd[p] /\ path = loc[p].call.path
                              /\ rest = loc[p].rest /\ s = loc[p].cur
  OBVIOUS
<1>3. s \in Slots /\ slot[s].count > 0
  BY <1>2, TraceInUse
<1>4. PICK n : n = slot[s].no
  OBVIOUS
<1>5. slot'[s].no = n
  BY <1>3, <1>4 DEF Steady, NumKept
<1>6. Trace(c, path, rest, n)
  BY <1>1, <1>2, <1>4
<1>7. Trace(c, path, rest, n)'
  BY <1>6, TraceKept DEF Steady
<1> QED BY <1>1, <1>2, <1>5, <1>7

(* namex(): the root, ...                                                  *)
LEMMA CwdRoot ==
  ASSUME TableInv, NameInv, CwdInv, NEW p \in Procs, GetRoot(p)
  PROVE  CwdInv'
<1>0. LocalsOK /\ TableOK(slot)
  BY DEF TableInv
<1>1. PICK u : u = Lowest(Found(Root))
  OBVIOUS
<1>2. /\ pc[p] = "root" /\ Found(Root) # {} /\ slot' = Got(Root, FALSE)
      /\ UNCHANGED <<entries, icwd, cwd, alive, plain>>
  BY DEF GetRoot, diskVars, procVars
<1>3. /\ loc'[p].rest = loc[p].rest /\ loc'[p].call = loc[p].call
      /\ loc'[p].cur = u /\ pc'[p] = "walk"
      /\ \A q \in Procs \ {p} : pc'[q] = pc[q] /\ loc'[q] = loc[q]
  BY <1>0, <1>1 DEF GetRoot, Goto, LocalsOK, LocFields
<1>4. Root \in Inos
  BY FilesAssumption DEF Root, Inos
<1>5. slot'[u].no = Root
  BY <1>0, <1>1, <1>2, <1>4, GotTame
<1>6. Steady(p)
  BY <1>2, <1>3, NumGot DEF Steady, OthersStay, EntriesKept
<1>7. Traces(p)'
  <2> SUFFICES ASSUME loc[p].call.name = "chdir" PROVE Traces(p)'
    BY <1>3 DEF Traces
  <2>1. /\ loc[p].call.path.abs /\ loc[p].rest = loc[p].call.path.elems
        /\ loc[p].call.path.abs \in BOOLEAN
        /\ loc[p].call.path.elems \in Seq(DirNames)
    BY <1>2 DEF CwdInv, Traces
  <2>2. PICK c, path : c = cwd[p] /\ path = loc[p].call.path
    OBVIOUS
  <2>3. PICK d : d = <<>>
    OBVIOUS
  <2>4. PICK r : r = Root
    OBVIOUS
  <2>5. d \in Seq(Names) /\ Leads(d, r)
    BY <2>3, <2>4, LeadsRoot
  <2>6. Trace(c, path, path.elems, r)
    BY <2>1, <2>2, <2>3, <2>5, TraceStart
  <2>7. Trace(c, path, path.elems, r)'
    BY <1>6, <2>6, TraceKept DEF Steady
  <2> QED BY <1>2, <1>3, <1>5, <2>1, <2>2, <2>4, <2>7 DEF Traces
<1> QED BY <1>2, <1>6, <1>7, CwdFrame

(* ... the lock on the next directory, ...                                 *)
LEMMA CwdWalkLock ==
  ASSUME TableInv, NameInv, CwdInv, NEW p \in Procs, WalkLock(p)
  PROVE  CwdInv'
<1>0. LocalsOK /\ TableOK(slot)
  BY DEF TableInv
<1>1. CASE Panic
  <2>1. UNCHANGED <<slot, entries, cwd, icwd, alive, plain, pc, loc>>
    BY <1>1 DEF Panic, tableVars, diskVars, procVars
  <2>2. Steady(p) /\ Off(p)
    BY <2>1 DEF Steady, OthersStay, NumKept, EntriesKept, Off
  <2> QED BY <2>1, <2>2, CwdOff
<1>2. CASE ~Panic
  <2>1. /\ pc[p] = "walk" /\ slot' = Loaded(slot, loc[p].cur) /\ Goto(p, "look")
        /\ UNCHANGED <<loc, entries, icwd, cwd, alive, plain>>
    BY <1>2 DEF WalkLock, diskVars, procVars
  <2>2. pc'[p] = "look" /\ \A q \in Procs \ {p} : pc'[q] = pc[q]
    BY <1>0, <2>1 DEF Goto, LocalsOK
  <2>3. NumKept(slot')
    BY <1>0, <2>1, NumLoaded
  <2>4. Steady(p)
    BY <2>1, <2>2, <2>3 DEF Steady, OthersStay, EntriesKept
  <2>5. Traces(p)'
    BY <2>1, <2>2, <2>4, TraceStill
  <2> QED BY <2>1, <2>4, <2>5, CwdFrame
<1> QED BY <1>1, <1>2

(* ... a path without names, ...                                           *)
LEMMA CwdWalkEnd ==
  ASSUME TableInv, NameInv, CwdInv, NEW p \in Procs, WalkEnd(p)
  PROVE  CwdInv'
<1>0. LocalsOK /\ TableOK(slot) /\ NumKept(slot)
  BY DEF TableInv, NumKept
<1>1. pc[p] = "walk" /\ loc[p].rest = <<>> /\ UNCHANGED <<entries, icwd, cwd, alive, plain>>
  BY DEF WalkEnd, diskVars, procVars
<1>2. CASE WantsParent(loc[p].call)
  <2>1. Put(p, slot, imtx, loc[p].cur, FailLoc(loc[p]), FailTo(loc[p].call))
    BY <1>2 DEF WalkEnd
  <2>2. /\ DOMAIN FailLoc(loc[p]) = LocFields
        /\ FailLoc(loc[p]).call.name # "chdir" \/ FailLoc(loc[p]).call = loc[p].call
    BY FailShape
  <2>3. Steady(p) /\ Off(p)
    BY <1>0, <1>1, <2>1, <2>2, OffPut
  <2>4. loc[p].call.name # "chdir"
    BY <1>2 DEF WantsParent
  <2> QED BY <1>1, <2>3, <2>4, CwdOff
<1>3. CASE ~WantsParent(loc[p].call)
  <2>1. Goto(p, "found") /\ UNCHANGED <<slot, loc>>
    BY <1>3 DEF WalkEnd
  <2>2. pc'[p] = "found" /\ \A q \in Procs \ {p} : pc'[q] = pc[q]
    BY <1>0, <2>1 DEF Goto, LocalsOK
  <2>3. Steady(p)
    BY <1>1, <2>1, <2>2 DEF Steady, OthersStay, NumKept, EntriesKept
  <2>4. Traces(p)'
    BY <1>1, <2>1, <2>2, <2>3, TraceStill
  <2> QED BY <1>1, <2>3, <2>4, CwdFrame
<1> QED BY <1>2, <1>3

(* ... and the name looked up in it.                                       *)
LEMMA CwdLook ==
  ASSUME TableInv, NameInv, CwdInv, NEW p \in Procs, Look(p)
  PROVE  CwdInv'
<1>0. LocalsOK /\ TableOK(slot) /\ NumKept(slot)
  BY DEF TableInv, NumKept
<1>1. pc[p] = "look" /\ UNCHANGED <<entries, icwd, cwd, alive, plain>>
  BY DEF Look, diskVars, procVars
<1>2. PICK k : k = loc[p]
  OBVIOUS
<1>3. PICK s : s = k.cur
  OBVIOUS
<1>4. PICK x : x = Entry(s, Head(k.rest))
  OBVIOUS
<1>5. CASE WantsParent(k.call) /\ Len(k.rest) = 1
  <2>1. /\ Goto(p, "parent") /\ slot' = slot
        /\ loc' = [loc EXCEPT ![p].par = s, ![p].cur = None]
    BY <1>2, <1>3, <1>5 DEF Look
  <2>2. loc' = [loc EXCEPT ![p] = [k EXCEPT !.par = s, !.cur = None]]
    BY <1>2, <2>1
  <2>3. [k EXCEPT !.par = s, !.cur = None].call = k.call
    BY <1>2, SameCall
  <2>4. PICK j : j = [k EXCEPT !.par = s, !.cur = None]
    OBVIOUS
  <2>5. Steady(p) /\ Off(p)
    BY <1>0, <1>1, <1>2, <2>1, <2>2, <2>3, <2>4, OffMove
  <2>6. loc[p].call.name # "chdir"
    BY <1>2, <1>5 DEF WantsParent
  <2> QED BY <1>1, <2>5, <2>6, CwdOff
<1>6. CASE x = 0 /\ ~(WantsParent(k.call) /\ Len(k.rest) = 1)
  <2>1. PICK mx : mx = Unlocked(s)
    OBVIOUS
  <2>2. PICK j : j = FailLoc(k)
    OBVIOUS
  <2>3. PICK l : l = FailTo(k.call)
    OBVIOUS
  <2>4. Put(p, slot, mx, s, j, l)
    <3>1. \/ Put(p, slot, Unlocked(s), s, FailLoc(k), FailTo(k.call))
          \/ x # 0
      BY <1>2, <1>3, <1>4, <1>6 DEF Look
    <3> QED BY <1>6, <2>1, <2>2, <2>3, <3>1
  <2>5. /\ DOMAIN j = LocFields
        /\ j.call.name # "chdir" \/ j.call = loc[p].call
    BY <1>2, <2>2, FailShape
  <2>6. Steady(p) /\ Off(p)
    BY <1>0, <1>1, <2>4, <2>5, OffPut
  <2>7. CASE loc[p].call.name # "chdir"
    BY <1>1, <2>6, <2>7, CwdOff
  <2>8. CASE loc[p].call.name = "chdir"
    <3>1. j = NoLoc
      BY <1>2, <2>2, <2>8 DEF FailLoc
    <3>2. Sits(s) /\ slot[s].count > 0 /\ s \in Slots
      BY <1>1, <1>2, <1>3, TraceInUse
    <3>3. Tame(slot)
      BY DEF Tame, SameSlot
    <3>4. loc'[p] = j
      BY <1>0, <2>4, <3>2, <3>3, TamePut
    <3>5. loc'[p].call.name # "chdir"
      BY <3>1, <3>4 DEF NoLoc, NoCall
    <3>6. Traces(p)'
      BY <3>5 DEF Traces
    <3> QED BY <1>1, <2>6, <3>6, CwdFrame
  <2> QED BY <2>7, <2>8
<1>7. CASE x # 0 /\ ~(WantsParent(k.call) /\ Len(k.rest) = 1)
  <2>1. PICK u : u = Lowest(Found(x))
    OBVIOUS
  <2>2. PICK j : j = [k EXCEPT !.rest = Tail(@), !.cur = u]
    OBVIOUS
  <2>3. PICK l : l = (IF Len(k.rest) = 1 THEN "found" ELSE "walk")
    OBVIOUS
  <2>4. PICK sl : sl = Got(x, FALSE)
    OBVIOUS
  <2>5. PICK mx : mx = Unlocked(s)
    OBVIOUS
  <2>6. Found(x) # {} /\ Put(p, sl, mx, s, j, l)
    <3>1. \/ x = 0
          \/ /\ Found(x) # {}
             /\ Put(p, Got(x, FALSE), Unlocked(s), s,
                    [k EXCEPT !.rest = Tail(@), !.cur = Lowest(Found(x))],
                    IF Len(k.rest) = 1 THEN "found" ELSE "walk")
      BY <1>2, <1>3, <1>4, <1>7 DEF Look
    <3> QED BY <1>7, <2>1, <2>2, <2>3, <2>4, <2>5, <3>1
  <2>7. /\ Sits(s) /\ slot[s].count > 0 /\ s \in Slots /\ IsDir(s)
        /\ k.rest # <<>> /\ k.rest \in Seq(DirNames)
    <3>1. CallInv(p)
      BY DEF NameInv
    <3>2. k.rest # <<>> /\ k.rest \in Seq(DirNames) /\ IsDir(s)
      BY <1>1, <1>2, <1>3, <3>1 DEF CallInv, Paths, Walks
    <3> QED BY <1>1, <1>2, <1>3, <3>2, TraceInUse
  <2>8. PICK n : n = slot[s].no
    OBVIOUS
  <2>9. n \in Inos /\ Settled(n) /\ dnode[n].mode = "dir"
    BY <2>7, <2>8 DEF Sits, IsDir
  <2>10. PICK m : m = Head(k.rest)
    OBVIOUS
  <2>11. m \in DirNames
    BY <2>7, <2>10
  <2>12. x = entries[n][m] /\ x \in Inos
    <3>1. x = entries[n][m]
      BY <1>4, <2>8, <2>10 DEF Entry
    <3>2. entries[n][m] \in Inos \cup {0}
      BY <2>9, <2>11 DEF NameInv, TreeInv
    <3> QED BY <1>7, <3>1, <3>2
  <2>13. /\ Tame(sl) /\ u \in Slots /\ sl[u].no = x /\ TableOK(sl) /\ NumKept(sl)
    BY <1>0, <2>1, <2>4, <2>6, <2>12, GotTame, NumGot
  <2>14. /\ slot' = Less(sl, s) /\ pc'[p] = l /\ loc'[p] = j
         /\ \A q \in Procs \ {p} : pc'[q] = pc[q] /\ loc'[q] = loc[q]
    BY <2>6, <2>7, <2>13, TamePut
  <2>15. NumKept(slot') /\ slot'[u].no = x
    BY <2>13, <2>14, NumLess, LessKeeps
  <2>16. Steady(p)
    BY <1>1, <2>14, <2>15 DEF Steady, OthersStay, EntriesKept
  <2>17. j.rest = Tail(k.rest) /\ j.cur = u /\ j.call = k.call
    BY <1>0, <1>2, <2>2 DEF LocalsOK, LocFields
  <2>18. Traces(p)'
    <3> SUFFICES ASSUME k.call.name = "chdir" PROVE Traces(p)'
      BY <2>14, <2>17 DEF Traces
    <3>1. PICK c, path, rest : c = cwd[p] /\ path = k.call.path /\ rest = k.rest
      OBVIOUS
    <3>2. /\ path.abs \in BOOLEAN /\ path.elems \in Seq(DirNames)
          /\ path.abs \/ p \in plain => Trace(c, path, rest, n)
      BY <1>1, <1>2, <1>3, <2>8, <3>1 DEF CwdInv, Traces
    <3>3. x = entries[n][Head(rest)] /\ rest # <<>>
      BY <2>7, <2>10, <2>12, <3>1
    <3>4. TreeInv
      BY DEF NameInv
    <3>5. PICK r : r = Tail(rest)
      OBVIOUS
    <3>6. path.abs \/ p \in plain => Trace(c, path, r, x)
      BY <1>7, <2>9, <3>2, <3>3, <3>4, <3>5, TraceNext
    <3>7. path.abs \/ p \in plain => Trace(c, path, r, x)'
      BY <2>16, <3>6, TraceKept DEF Steady
    <3>8. pc'[p] \in {"walk", "found"} /\ (pc'[p] = "found" => r = <<>>)
      <4>1. ASSUME Len(rest) = 1 PROVE Tail(rest) = <<>>
        <5>1. rest \in Seq(DirNames) /\ rest # <<>>
          BY <2>7, <3>1
        <5>2. r \in Seq(DirNames) /\ Len(r) = 0
          BY <3>5, <4>1, <5>1
        <5>3. r = <<>>
          BY <5>2
        <5> QED BY <3>5, <5>3
      <4> QED BY <2>3, <2>14, <3>1, <3>5, <4>1
    <3>9. /\ loc'[p].call.path = path /\ loc'[p].rest = r /\ loc'[p].cur = u
          /\ cwd'[p] = c
      BY <1>1, <2>14, <2>17, <3>1, <3>5
    <3>10. p \in plain' <=> p \in plain
      BY <1>1
    <3>11. path.abs \/ p \in plain' => Trace(cwd[p], path, loc[p].rest, slot[u].no)'
      BY <2>15, <3>7, <3>9, <3>10
    <3> QED BY <3>2, <3>8, <3>9, <3>11 DEF Traces
  <2> QED BY <1>1, <2>16, <2>18, CwdFrame
<1> QED BY <1>5, <1>6, <1>7

(* sys_chdir(): the string that abspath() makes leads to the new inode.    *)
LEMMA CwdChdir ==
  ASSUME TableInv, NameInv, CwdInv, NEW p \in Procs, Chdir(p)
  PROVE  CwdInv'
<1>0. /\ LocalsOK /\ TableOK(slot) /\ NumKept(slot)
      /\ \A t : TableOK(Loaded(slot, t)) /\ NumKept(Loaded(slot, t))
  <2>1. TableOK(slot)
    BY DEF TableInv
  <2> QED BY <2>1, NumLoaded DEF NumKept, TableInv
<1>1. /\ pc[p] = "found" /\ loc[p].call.name = "chdir"
      /\ UNCHANGED <<entries, alive>>
  BY DEF Chdir, Is, diskVars
<1>2. PICK s : s = loc[p].cur
  OBVIOUS
<1>3. NoLoc.call.name = "none" /\ DOMAIN NoLoc = LocFields
  BY FailShape
<1>4. CASE UNCHANGED <<icwd, cwd, plain>> /\ Return(p) /\ (slot' = slot \/ slot' = Loaded(slot, s))
  <2>1. Goto(p, "user") /\ loc' = [loc EXCEPT ![p] = NoLoc]
    BY <1>4 DEF Return
  <2>2. NumKept(slot')
    BY <1>0, <1>4
  <2>3. Steady(p)
    BY <1>1, <1>3, <2>1, <2>2, OffMove
  <2>4. loc'[p].call.name # "chdir"
    BY <1>0, <1>3, <2>1 DEF LocalsOK
  <2>5. Traces(p)'
    BY <2>4 DEF Traces
  <2> QED BY <1>1, <1>4, <2>3, <2>5, CwdFrame
<1>5. CASE /\ \E old \in OldText(loc[p].call.path.text) :
                 cwd' = [cwd EXCEPT ![p] = abspath(@, loc[p].call.path.text) \o old]
           /\ plain' = IF /\ Plain(loc[p].call.path)
                          /\ loc[p].call.path.abs \/ p \in plain
                       THEN plain \cup {p} ELSE plain \ {p}
           /\ icwd' = [icwd EXCEPT ![p] = s]
           /\ Put(p, Loaded(slot, s), imtx, icwd[p], NoLoc, "user")
  <2>1. PICK t : t = icwd[p]
    OBVIOUS
  <2>2. PICK n : n = slot[s].no
    OBVIOUS
  <2>3. PICK c, path : c = cwd[p] /\ path = loc[p].call.path
    OBVIOUS
  <2>4. /\ path.elems \in Seq(DirNames)
        /\ p \in plain' => Plain(path) /\ Trace(c, path, <<>>, n)
    BY <1>1, <1>2, <1>5, <2>2, <2>3 DEF CwdInv, Traces
  <2>5. PICK old \in OldText(path.text) : cwd' = [cwd EXCEPT ![p] = abspath(@, path.text) \o old]
    BY <1>5, <2>3
  <2>6. PICK d : d = abspath(c, path.text) \o old
    OBVIOUS
  <2>7. p \in plain' => d \in Seq(Names) /\ Leads(d, n)
    <3> SUFFICES ASSUME p \in plain' PROVE d \in Seq(Names) /\ Leads(d, n)
      OBVIOUS
    <3>1. PICK a : a = abspath(c, path.text)
      OBVIOUS
    <3>2. a \in Seq(Names) /\ Leads(a, n)
      BY <2>4, <3>1, TraceEnd
    <3>3. old = <<>>
      BY <2>4, <2>5 DEF OldText, Plain
    <3>4. d = a
      BY <2>6, <3>1, <3>2, <3>3
    <3> QED BY <3>2, <3>4
  <2>8. /\ DOMAIN cwd' = Procs /\ cwd'[p] = d
        /\ \A q \in Procs \ {p} : cwd'[q] = cwd[q]
    BY <2>3, <2>5, <2>6 DEF CwdInv
  <2>9. /\ icwd'[p] = s
        /\ \A q \in Procs \ {p} : icwd'[q] = icwd[q] /\ (q \in plain' => q \in plain)
    BY <1>0, <1>5 DEF LocalsOK
  <2>10. PICK sl : sl = Loaded(slot, s)
    OBVIOUS
  <2>11. TableOK(sl) /\ NumKept(sl) /\ Put(p, sl, imtx, t, NoLoc, "user")
    BY <1>0, <1>5, <2>1, <2>10
  <2>12. Steady(p) /\ OthersStay(p)
    BY <1>1, <1>3, <2>11, OffPut DEF Steady
  <2>13. s \in Slots /\ slot[s].count > 0
    BY <1>1, <1>2, TraceInUse
  <2>14. slot'[s].no = n
    BY <2>2, <2>12, <2>13 DEF Steady, NumKept
  <2>15. CwdLeads(p)'
    <3>1. p \in plain' => d \in Seq(Names) /\ Leads(d, n)'
      BY <2>7, <2>12, LeadsKept DEF Steady, EntriesKept
    <3> QED BY <2>8, <2>9, <2>14, <3>1 DEF CwdLeads
  <2>16. loc'[p].call.name # "chdir"
    <3>1. PICK k : k = [NoLoc EXCEPT !.dead = t, !.then = "user"]
      OBVIOUS
    <3>2. loc' = [loc EXCEPT ![p] = NoLoc] \/ loc' = [loc EXCEPT ![p] = k]
      BY <2>11, <3>1 DEF Put
    <3>3. k.call = NoLoc.call
      BY <3>1 DEF NoLoc
    <3>4. loc'[p] = NoLoc \/ loc'[p] = k
      BY <1>0, <3>2 DEF LocalsOK
    <3> QED BY <1>3, <3>3, <3>4
  <2>17. Traces(p)'
    BY <2>16 DEF Traces
  <2> QED BY <1>1, <2>8, <2>9, <2>12, <2>15, <2>17, CwdStep
<1> QED BY <1>2, <1>4, <1>5 DEF Chdir

(* A step that changes none of it.                                         *)
LEMMA CwdStutter ==
  ASSUME TableInv, NameInv, CwdInv, UNCHANGED <<slot, entries, alive, icwd, cwd, plain, pc, loc>>
  PROVE  CwdInv'
<1>1. Steady(None)
  BY DEF Steady, OthersStay, NumKept, EntriesKept
<1>2. ASSUME NEW q \in Procs PROVE CwdLeads(q)' /\ Traces(q)'
  <2>1. Traces(q)
    BY DEF CwdInv
  <2> QED BY <1>1, <2>1, CwdStays, TraceStays
<1>3. DOMAIN cwd' = Procs
  BY DEF CwdInv
<1> QED BY <1>2, <1>3 DEF CwdInv

(* After boot every string is empty and every process is at the root.      *)
LEMMA InitCwd == Init => CwdInv
<1> SUFFICES ASSUME Init PROVE CwdInv
  OBVIOUS
<1>1. DOMAIN cwd = Procs
  BY DEF Init
<1>2. ASSUME NEW p \in Procs PROVE CwdLeads(p) /\ Traces(p)
  <2>1. cwd[p] = <<>> /\ loc[p].call.name = "none"
    BY DEF Init, NoLoc, NoCall
  <2>2. icwd[p] # None => icwd[p] = 1
    BY DEF Init
  <2>3. 1 \in Slots
    BY FilesAssumption DEF Slots
  <2>4. slot[1].no = Root
    BY <2>3 DEF Init
  <2> QED BY <2>1, <2>2, <2>4, LeadsRoot DEF CwdLeads, Traces
<1> QED BY <1>1, <1>2 DEF CwdInv

(* Every step keeps each string leading to its inode.                      *)
LEMMA CwdNext == FcbInv /\ TableInv /\ NameInv /\ CwdInv /\ [Next]_vars => CwdInv'
<1> SUFFICES ASSUME FcbInv, TableInv, NameInv, CwdInv, [Next]_vars PROVE CwdInv'
  OBVIOUS
<1>1. CASE UNCHANGED vars
  <2>1. UNCHANGED <<slot, entries, alive, icwd, cwd, plain, pc, loc>>
    BY <1>1 DEF vars, tableVars, diskVars, procVars
  <2> QED BY <2>1, CwdStutter
<1>2. ASSUME NEW p \in Procs, Call(p) PROVE CwdInv'
  <2>1. \/ \/ Exit(p) \/ Pipe(p)
           \/ \E fd \in Fds : Dup(p, fd) \/ \E new \in Fds : Dup2(p, fd, new)
        \/ \E c \in PathCalls : PathCall(p, c)
        \/ \E q \in Procs : Fork(p, q)
        \/ \E fd \in Fds : Close(p, fd)
        \/ \E fd \in Fds, stat \in BOOLEAN : UseFile(p, fd, stat)
        \/ \E fd \in Fds : Dents(p, fd)
    BY <1>2 DEF Call
  <2> QED BY <2>1, CwdOther, CwdPath, CwdFork, CwdCloses, CwdUse, CwdDents
<1>3. ASSUME NEW p \in Procs, Step(p) PROVE CwdInv'
  <2>1. \/ GetRoot(p)
        \/ WalkLock(p)
        \/ WalkEnd(p)
        \/ Look(p)
        \/ \/ ParentLock(p) \/ CreateFound(p) \/ CreateOld(p) \/ CreateNew(p)
           \/ CreateGet(p) \/ CreateInit(p) \/ CreateUndo(p) \/ CreateFail(p)
           \/ CreateLink(p) \/ LinkNew(p) \/ ITruncate(p)
        \/ \/ Linked(p) \/ LinkFail(p) \/ LinkUndo(p) \/ Truncate(p)
           \/ Stat(p) \/ OpenSize(p) \/ IDrop(p) \/ PipeInode(p)
        \/ LinkOld(p)
        \/ Chdir(p)
        \/ ExitPut(p)
        \/ Gone(p)
        \/ DupFd(p)
        \/ Dup2Close(p) \/ ExitClose(p)
        \/ \/ CreatDone(p) \/ MkdirDone(p) \/ PipeFault(p) \/ FcbFree(p)
           \/ PipeFirst(p) \/ PipeNoFd(p) \/ PipeSecond(p) \/ Open(p) \/ Chmod(p)
           \/ IFree(p) \/ Oops(p) \/ InodeWait(p) \/ FileWait(p)
        \/ DentsFault(p) \/ DentsEnd(p)
    BY <1>3 DEF Step
  <2> QED BY <2>1, CwdDents, CwdRoot, CwdWalkLock, CwdWalkEnd, CwdLook, CwdMakes, CwdCalls,
             CwdLinkOld, CwdChdir, CwdExitPut, CwdGone, CwdDupFd, CwdCloses, CwdOther
<1> QED BY <1>1, <1>2, <1>3 DEF Next

(* The string of every current directory that plain paths made, and of     *)
(* every such chdir() on its way, leads to the inode that the process has  *)
(* or is at.                                                               *)
THEOREM FilesCwdInv == Spec => []CwdInv
<1>1. Init => CwdInv
  BY InitCwd
<1>2. FcbInv /\ TableInv /\ NameInv /\ CwdInv /\ [Next]_vars => CwdInv'
  BY CwdNext
<1> QED BY <1>1, <1>2, FilesFcbInv, FilesTableInv, FilesNameInv, PTL DEF Spec

(* sys_chdir() and do_fork() keep the string of the current directory and  *)
(* its inode together while the paths are plain, those that abspath() and  *)
(* namex() cut alike: the names of the string, followed from the root, end *)
(* at the inode that relative paths start from, whatever the other         *)
(* processes create and link meanwhile.                                    *)
THEOREM FilesCwdNamesIcwd == Spec => []CwdNamesIcwd
<1>1. ASSUME FcbInv, CwdInv, NEW p \in alive \cap plain, icwd[p] # None
      PROVE  LET R[i \in 0 .. Len(cwd[p])] ==
                   IF i = 0 THEN Root
                   ELSE IF cwd[p][i] = "gap" THEN R[i - 1]
                   ELSE IF R[i - 1] = 0 \/ cwd[p][i] \notin DirNames THEN 0
                   ELSE entries[R[i - 1]][cwd[p][i]]
             IN  R[Len(cwd[p])] = slot[icwd[p]].no
  <2>0. p \in Procs
    BY <1>1 DEF FcbInv
  <2> DEFINE L == Len(cwd[p])
             Loop(f) == f = [i \in 0 .. L |->
                IF i = 0 THEN Root
                ELSE IF cwd[p][i] = "gap" THEN f[i - 1]
                ELSE IF f[i - 1] = 0 \/ cwd[p][i] \notin DirNames THEN 0
                ELSE entries[f[i - 1]][cwd[p][i]]]
  <2>1. /\ cwd[p] \in Seq(Names) /\ L \in Nat
        /\ \A i \in 1 .. L : cwd[p][i] # "gap" /\ cwd[p][i] \in DirNames
    <3>1. cwd[p] \in Seq(Names)
      BY <1>1, <2>0 DEF CwdInv, CwdLeads
    <3>2. PICK c : c = cwd[p]
      OBVIOUS
    <3>3. c \in Seq(Names) /\ Len(c) \in Nat /\ \A i \in 1 .. Len(c) : c[i] \in Names
      BY <3>1, <3>2
    <3> QED BY <3>2, <3>3, TreeAssumption DEF DirNames
  <2>2. PICK v \in [0 .. L -> Inos] :
           /\ v[0] = Root /\ v[L] = slot[icwd[p]].no
           /\ \A i \in 1 .. L : v[i] = entries[v[i - 1]][cwd[p][i]]
    BY <1>1, <2>0 DEF CwdInv, CwdLeads, Leads
  <2>3. \A i \in 0 .. L : v[i] # 0
    BY <2>2 DEF Inos
  <2>4. \A i \in 1 .. L : i - 1 \in 0 .. L /\ i \in 0 .. L /\ i # 0
    BY <2>1
  <2>5. Loop(v)
    <3>1. \A i \in 0 .. L : i = 0 \/ i \in 1 .. L
      BY <2>1
    <3> QED BY <2>1, <2>2, <2>3, <2>4, <3>1
  <2>6. PICK e : e = CHOOSE f : Loop(f)
    OBVIOUS
  <2>7. Loop(e)
    <3> HIDE DEF Loop
    <3> QED BY <2>5, <2>6
  <2>8. e[0] = v[0] /\ \A i \in 1 .. L : e[i - 1] = v[i - 1] => e[i] = v[i]
    <3>1. e[0] = v[0]
      BY <2>1, <2>2, <2>7
    <3>2. ASSUME NEW i \in 1 .. L, e[i - 1] = v[i - 1] PROVE e[i] = v[i]
      <4>1. e[i] = IF e[i - 1] = 0 THEN 0 ELSE entries[e[i - 1]][cwd[p][i]]
        BY <2>1, <2>4, <2>7
      <4>2. v[i] = entries[v[i - 1]][cwd[p][i]] /\ v[i - 1] # 0
        BY <2>2, <2>3, <2>4
      <4> QED BY <3>2, <4>1, <4>2
    <3> QED BY <3>1, <3>2
  <2> HIDE DEF Loop, L
  <2>9. \A i \in 0 .. L : e[i] = v[i]
    <3>1. PICK l : l = L
      OBVIOUS
    <3>2. /\ l \in Nat /\ e[0] = v[0]
          /\ \A i \in 1 .. l : e[i - 1] = v[i - 1] => e[i] = v[i]
      BY <2>1, <2>8, <3>1
    <3>3. GoOn(e, v, l)
      BY <3>2 DEF GoOn
    <3>5. l \in Nat
      BY <3>2
    <3>4. \A i \in 0 .. l : e[i] = v[i]
      BY ZenonT(60), <3>3, <3>5, GoOnAlike
    <3> QED BY <3>1, <3>4
  <2>10. e[L] = slot[icwd[p]].no
    BY <2>1, <2>2, <2>9
  <2> QED BY <2>6, <2>10 DEF L, Loop
<1>2. FcbInv /\ CwdInv => CwdNamesIcwd
  BY <1>1 DEF CwdNamesIcwd
<1> QED BY <1>2, FilesFcbInv, FilesCwdInv, PTL
-----------------------------------------------------------------------------
(* Directory blocks                                                        *)

Ents == [name : EntryNames \cup Dots, rec : 0 .. RecBound - 1]

(* The property of the entries and the size.  An entry before the last     *)
(* keeps exactly what it needs: that is why only the last one has room.    *)
Tight(ds) == \A i \in 1 .. Len(ds) - 1 : ds[i].rec = Align4(Need(ds[i].name))
Records(ds, sz) ==
    \A i \in 1 .. Len(ds) :
       /\ ds[i].rec % 4 = 0 /\ Behind(ds, i) <= sz
       /\ ds[i].rec + 4 >= Align4(Need(ds[i].name))
Unique(ds) == \A i, j \in 1 .. Len(ds) : ds[i].name = ds[j].name => i = j
Ends(ds, sz) ==
    ds # <<>> => /\ Reach(ds, Len(ds)) % RecBound = DirBytes
                 /\ sz <= Reach(ds, Len(ds)) + 4
Tiles(ds, sz) == Tight(ds) /\ Records(ds, sz) /\ Unique(ds) /\ Ends(ds, sz)

(* No entry moves.                                                         *)
StayIn(ds, new) ==
    \A i \in DOMAIN ds : \E j \in DOMAIN new :
       new[j].name = ds[i].name /\ Reach(new, j - 1) = Reach(ds, i - 1)

(* Record lengths count more than an entry takes.                          *)
LEMMA BoundIs == RecBound \in Nat /\ RecBound > 300
BY SMT DEF RecBound

(* An entry has a name and a length.                                       *)
LEMMA EntryIs ==
  ASSUME NEW ds \in Seq(Ents), NEW i \in 1 .. Len(ds)
  PROVE  /\ ds[i].name \in EntryNames \cup Dots
         /\ ds[i].rec \in Nat /\ ds[i].rec < RecBound
<1>1. ds[i] \in Ents
  OBVIOUS
<1>2. \A e \in Ents : /\ e.name \in EntryNames \cup Dots
                      /\ e.rec \in Nat /\ e.rec < RecBound
  BY BoundIs, SMT DEF Ents
<1> QED BY <1>1, <1>2

(* Entries are aligned upwards, by at most three bytes.                    *)
LEMMA Aligned ==
  ASSUME NEW n \in Nat
  PROVE  Align4(n) \in Nat /\ Align4(n) >= n /\ Align4(n) <= n + 3 /\ Align4(n) % 4 = 0
<1>1. PICK k : k = (n + 3) \div 4
  OBVIOUS
<1>2. k \in Nat /\ 4 * k >= n /\ 4 * k <= n + 3
  BY <1>1
<1>3. (k * 4) % 4 = 0 /\ k * 4 = 4 * k
  BY <1>2
<1> QED BY <1>1, <1>2, <1>3 DEF Align4

(* What an entry needs is a number of bytes, nine at least, and no more    *)
(* than the longest name.                                                  *)
LEMMA NeedsBytes ==
  ASSUME NEW name \in EntryNames \cup Dots
  PROVE  /\ Need(name) \in Nat /\ Need(name) >= 9 /\ Need(name) <= 263
         /\ Align4(Need(name)) \in Nat /\ Align4(Need(name)) % 4 = 0
         /\ Align4(Need(name)) >= Need(name) /\ Align4(Need(name)) <= Need(name) + 3
<1>1. NameLen[name] \in Nat \ {0} /\ NameLen[name] <= 255
  BY DirAssumption DEF Dots
<1>2. Need(name) \in Nat /\ Need(name) >= 9 /\ Need(name) <= 263
  BY <1>1 DEF Need
<1> QED BY <1>2, Aligned

(* A multiple of four.                                                     *)
LEMMA Fours ==
  ASSUME NEW n \in Nat, n % 4 = 0
  PROVE  \E k \in Nat : n = 4 * k
<1>1. PICK k : k = n \div 4
  OBVIOUS
<1>2. k \in Nat /\ n = 4 * k
  BY <1>1
<1> QED BY <1>2

(* n bytes aligned are b, and an entry of n bytes has room behind one of   *)
(* old bytes and record rec, by the code's test.                           *)
Pads(n, b) == n \in Nat /\ b \in Nat /\ n <= b /\ b <= n + 3 /\ b % 4 = 0 /\ n <= 263
HasRoom(rec, old, n) == rec - old < 0 \/ rec - old >= n

(* The arithmetic of a split: rec is the record of the entry in place, a   *)
(* and b what it and the new one take, rest what the new one gets.         *)
Rest(rec, a, b, rest) ==
    /\ rest \in 0 .. RecBound - 1 /\ rest % 4 = 0 /\ rest + 4 >= b
    /\ a + rest = rec \/ a + rest = rec + RecBound
LEMMA RoomFor ==
  ASSUME NEW rec \in Nat, rec < RecBound, rec % 4 = 0,
         NEW old, NEW a, Pads(old, a), NEW n, NEW b, Pads(n, b),
         rec + 4 >= a, HasRoom(rec, old, n)
  PROVE  Rest(rec, a, b, (rec - a) % RecBound)
<1>0. /\ old \in Nat /\ a \in Nat /\ old <= a /\ a <= old + 3 /\ a % 4 = 0
      /\ n \in Nat /\ b \in Nat /\ n <= b /\ b <= n + 3 /\ b % 4 = 0 /\ n <= 263
      /\ rec - old < 0 \/ rec - old >= n
  BY DEF Pads, HasRoom
<1> SUFFICES ASSUME NEW rest, rest = (rec - a) % RecBound
             PROVE  /\ rest \in 0 .. RecBound - 1 /\ rest % 4 = 0 /\ rest + 4 >= b
                    /\ a + rest = rec \/ a + rest = rec + RecBound
  BY DEF Rest
<1>1. PICK k \in Nat, l \in Nat, m \in Nat : rec = 4 * k /\ a = 4 * l /\ b = 4 * m
  <2>1. \E k \in Nat : rec = 4 * k
    BY <1>0, Fours
  <2>2. \E l \in Nat : a = 4 * l
    BY <1>0, Fours
  <2>3. \E m \in Nat : b = 4 * m
    BY <1>0, Fours
  <2> QED BY <2>1, <2>2, <2>3
<1>2. CASE rec >= a
  <2>1. rest = rec - a
    BY <1>0, <1>2, SMT DEF RecBound
  <2>2. rec - old >= n
    BY <1>0, <1>2
  <2>3. k - l + 1 >= m
    BY <1>0, <1>1, <2>2
  <2>4. PICK d \in Nat : d = k - l
    BY <1>0, <1>1, <1>2
  <2>5. rest = 4 * d
    BY <1>0, <1>1, <2>1, <2>4
  <2>6. rest % 4 = 0
    BY <2>5
  <2>7. rest \in Nat /\ rest < RecBound /\ a + rest = rec
    BY <1>0, <1>2, <2>1, BoundIs
  <2>8. rest + 4 >= b
    BY <1>0, <1>1, <2>3, <2>4, <2>5
  <2> QED BY <2>6, <2>7, <2>8, BoundIs
<1>3. CASE rec < a
  <2>1. rec = a - 4
    BY <1>0, <1>1, <1>3
  <2>2. rec - a = 0 - 4
    BY <1>0, <2>1
  <2>3. rest = RecBound - 4
    BY <2>2, SMT DEF RecBound
  <2>4. rest % 4 = 0
    BY <2>3, SMT DEF RecBound
  <2>5. rest \in Nat /\ rest < RecBound /\ rest + 4 >= b /\ a + rest = rec + RecBound
    BY <1>0, <2>1, <2>3, BoundIs
  <2> QED BY <2>4, <2>5, BoundIs
<1> QED BY <1>0, <1>2, <1>3

(* f gives the bytes that the first k entries of ds take, up to n.         *)
Sums(f, ds, n) == f[0] = 0 /\ \A i \in 1 .. n : f[i] = f[i - 1] + ds[i].rec

(* There is such a function.                                               *)
LEMMA SumsExist ==
  ASSUME NEW ds \in Seq(Ents)
  PROVE  \E f \in [0 .. Len(ds) -> Nat] : Sums(f, ds, Len(ds))
<1> DEFINE L == Len(ds)
           S == {m \in Nat : m <= L => \E f \in [0 .. m -> Nat] : Sums(f, ds, m)}
<1>0. L \in Nat /\ \A i \in 1 .. L : ds[i].rec \in Nat
  BY EntryIs
<1>1. 0 \in S
  <2>1. [i \in 0 .. 0 |-> 0] \in [0 .. 0 -> Nat] /\ Sums([i \in 0 .. 0 |-> 0], ds, 0)
    BY DEF Sums
  <2> QED BY <2>1
<1>2. ASSUME NEW m \in S PROVE m + 1 \in S
  <2>1. CASE m + 1 <= L
    <3>1. m \in Nat /\ m <= L /\ m + 1 \in 1 .. L
      BY <1>0, <2>1
    <3>2. PICK f \in [0 .. m -> Nat] : Sums(f, ds, m)
      BY <3>1
    <3>3. PICK g : g = [i \in 0 .. m + 1 |-> IF i <= m THEN f[i] ELSE f[m] + ds[m + 1].rec]
      OBVIOUS
    <3>4. f[m] \in Nat /\ ds[m + 1].rec \in Nat
      BY <1>0, <3>1
    <3>5. g \in [0 .. m + 1 -> Nat]
      BY <3>1, <3>3, <3>4
    <3>6. g[0] = 0 /\ \A i \in 0 .. m : g[i] = f[i]
      BY <3>1, <3>2, <3>3 DEF Sums
    <3>7. ASSUME NEW i \in 1 .. m + 1 PROVE g[i] = g[i - 1] + ds[i].rec
      <4>1. CASE i = m + 1
        <5>1. i - 1 = m /\ m \in 0 .. m /\ ~(i <= m)
          BY <3>1, <4>1
        <5> QED BY <3>1, <3>3, <3>6, <4>1, <5>1
      <4>2. CASE i # m + 1
        <5>1. i \in 1 .. m /\ i \in 0 .. m /\ i - 1 \in 0 .. m
          BY <3>1, <4>2
        <5> QED BY <3>2, <3>6, <5>1 DEF Sums
      <4> QED BY <4>1, <4>2
    <3>8. Sums(g, ds, m + 1)
      BY <3>6, <3>7 DEF Sums
    <3>9. m + 1 \in Nat
      BY <3>1
    <3> QED BY <3>5, <3>8, <3>9
  <2>2. CASE ~(m + 1 <= L)
    BY <2>2
  <2> QED BY <2>1, <2>2
<1>3. S = Nat
  <2>1. S \in SUBSET Nat
    OBVIOUS
  <2> HIDE DEF S
  <2> QED BY <1>1, <1>2, <2>1, Induction
<1> QED BY <1>0, <1>3

(* Reach is that function.                                                 *)
LEMMA ReachSums ==
  ASSUME NEW ds \in Seq(Ents), NEW f \in [0 .. Len(ds) -> Nat], Sums(f, ds, Len(ds))
  PROVE  \A k \in 0 .. Len(ds) : Reach(ds, k) = f[k]
<1> DEFINE L == Len(ds)
           Loop(e) == e = [i \in 0 .. L |-> IF i = 0 THEN 0 ELSE e[i - 1] + ds[i].rec]
<1>0. L \in Nat
  OBVIOUS
<1>1. Loop(f)
  <2>1. ASSUME NEW i \in 0 .. L PROVE f[i] = IF i = 0 THEN 0 ELSE f[i - 1] + ds[i].rec
    <3>1. i = 0 \/ i \in 1 .. L
      BY <1>0
    <3> QED BY <3>1 DEF Sums
  <2> QED BY <2>1
<1>2. PICK e : e = CHOOSE g : Loop(g)
  OBVIOUS
<1>3. Loop(e)
  <2> HIDE DEF Loop
  <2> QED BY <1>1, <1>2
<1>4. \A k : Reach(ds, k) = e[k]
  BY <1>2 DEF Reach
<1>5. GoOn(e, f, L)
  <2>1. \A i \in 0 .. L : e[i] = IF i = 0 THEN 0 ELSE e[i - 1] + ds[i].rec
    BY <1>3
  <2>2. 0 \in 0 .. L /\ \A i \in 1 .. L : i \in 0 .. L /\ i # 0
    BY <1>0
  <2>3. e[0] = f[0]
    BY <2>1, <2>2 DEF Sums
  <2>4. ASSUME NEW i \in 1 .. L, e[i - 1] = f[i - 1] PROVE e[i] = f[i]
    BY <2>1, <2>2, <2>4 DEF Sums
  <2> QED BY <2>3, <2>4 DEF GoOn
<1> HIDE DEF Loop
<1>6. \A i \in 0 .. L : e[i] = f[i]
  BY <1>0, <1>5, GoOnAlike
<1> QED BY <1>4, <1>6

(* Two sequences, one behind the other.                                    *)
LEMMA Joined ==
  ASSUME NEW s \in Seq(Ents), NEW t \in Seq(Ents), NEW m \in Nat, m = Len(s)
  PROVE  /\ s \o t \in Seq(Ents) /\ Len(s \o t) = m + Len(t)
         /\ \A k \in 1 .. m : (s \o t)[k] = s[k]
         /\ \A k \in 1 .. Len(t) : (s \o t)[m + k] = t[k]
OBVIOUS

(* A split entry.                                                          *)
Rewrites(ds, i, name, len1, rest, new) ==
    /\ new \in Seq(Ents) /\ Len(new) = Len(ds) + 1
    /\ \A k \in 1 .. i - 1 : new[k] = ds[k]
    /\ new[i] = [name |-> ds[i].name, rec |-> len1]
    /\ new[i + 1] = [name |-> name, rec |-> rest]
    /\ \A k \in i + 2 .. Len(ds) + 1 : new[k] = ds[k - 1]
LEMMA SplitEntries ==
  ASSUME NEW ds \in Seq(Ents), NEW i \in 1 .. Len(ds), NEW name \in EntryNames \cup Dots,
         NEW len1 \in 0 .. RecBound - 1, len1 = Align4(Need(ds[i].name)),
         NEW rest \in 0 .. RecBound - 1, rest = (ds[i].rec - len1) % RecBound
  PROVE  Rewrites(ds, i, name, len1, rest, Split(ds, i, name))
<1> DEFINE L == Len(ds)
<1>1. L \in Nat /\ i \in 1 .. L
  OBVIOUS
<1>2. PICK a, c : a = SubSeq(ds, 1, i - 1) /\ c = SubSeq(ds, i + 1, L)
  OBVIOUS
<1>3. /\ a \in Seq(Ents) /\ Len(a) = i - 1 /\ \A k \in 1 .. i - 1 : a[k] = ds[k]
      /\ c \in Seq(Ents) /\ Len(c) = L - i /\ \A k \in 1 .. L - i : c[k] = ds[i + k]
  BY <1>1, <1>2
<1>4. PICK b : b = <<[name |-> ds[i].name, rec |-> len1],
                     [name |-> name, rec |-> rest]>>
  OBVIOUS
<1>5. ds[i].name \in EntryNames \cup Dots
  BY EntryIs
<1>6. /\ b \in Seq(Ents) /\ Len(b) = 2
      /\ b[1] = [name |-> ds[i].name, rec |-> len1]
      /\ b[2] = [name |-> name, rec |-> rest]
  <2>1. /\ [name |-> ds[i].name, rec |-> len1] \in Ents
        /\ [name |-> name, rec |-> rest] \in Ents
    BY <1>5 DEF Ents
  <2> QED BY <1>4, <2>1
<1>7. Split(ds, i, name) = (a \o b) \o c
  BY <1>2, <1>4 DEF Split
<1>8. PICK ab : /\ ab = a \o b /\ ab \in Seq(Ents) /\ Len(ab) = i + 1
                /\ \A k \in 1 .. i - 1 : ab[k] = a[k]
                /\ ab[i] = b[1] /\ ab[i + 1] = b[2]
  <2>1. PICK m \in Nat : m = i - 1 /\ m = Len(a)
    BY <1>1, <1>3
  <2>2. /\ a \o b \in Seq(Ents) /\ Len(a \o b) = m + Len(b)
        /\ \A k \in 1 .. m : (a \o b)[k] = a[k]
        /\ \A k \in 1 .. Len(b) : (a \o b)[m + k] = b[k]
    <3>1. a \in Seq(Ents) /\ b \in Seq(Ents) /\ m = Len(a)
      BY <1>3, <1>6, <2>1
    <3> QED BY <3>1, Joined, Zenon
  <2>3. PICK d : d = a \o b
    OBVIOUS
  <2>4. 1 \in 1 .. 2 /\ 2 \in 1 .. 2 /\ m + 1 = i /\ m + 2 = i + 1
    BY <1>1, <2>1
  <2>5. d[m + 1] = b[1] /\ d[m + 2] = b[2] /\ \A k \in 1 .. m : d[k] = a[k]
    BY <1>6, <2>2, <2>3, <2>4
  <2>6. d \in Seq(Ents) /\ Len(d) = i + 1
    BY <1>6, <2>2, <2>3, <2>4
  <2>7. d[i] = b[1] /\ d[i + 1] = b[2] /\ \A k \in 1 .. i - 1 : d[k] = a[k]
    BY <2>1, <2>4, <2>5
  <2> QED BY <2>3, <2>6, <2>7
<1>9. PICK new : /\ new = ab \o c /\ new \in Seq(Ents) /\ Len(new) = L + 1
                 /\ \A k \in 1 .. i + 1 : new[k] = ab[k]
                 /\ \A k \in i + 2 .. L + 1 : new[k] = c[k - (i + 1)]
  <2>1. PICK m \in Nat : m = i + 1 /\ m = Len(ab)
    BY <1>1, <1>8
  <2>2. /\ ab \o c \in Seq(Ents) /\ Len(ab \o c) = m + Len(c)
        /\ \A k \in 1 .. m : (ab \o c)[k] = ab[k]
        /\ \A k \in 1 .. Len(c) : (ab \o c)[m + k] = c[k]
    <3>1. ab \in Seq(Ents) /\ c \in Seq(Ents) /\ m = Len(ab)
      BY <1>3, <1>8, <2>1
    <3> QED BY <3>1, Joined, Zenon
  <2>3. PICK d : d = ab \o c
    OBVIOUS
  <2>4. m + (L - i) = L + 1 /\ Len(c) = L - i
    BY <1>1, <1>3, <2>1
  <2>5. d \in Seq(Ents) /\ Len(d) = L + 1 /\ \A k \in 1 .. i + 1 : d[k] = ab[k]
    BY <2>1, <2>2, <2>3, <2>4
  <2>6. \A k \in 1 .. L - i : d[m + k] = c[k]
    BY <2>2, <2>3, <2>4
  <2>7. \A k \in i + 2 .. L + 1 : k - (i + 1) \in 1 .. L - i /\ m + (k - (i + 1)) = k
    BY <1>1, <2>1
  <2>8. \A k \in i + 2 .. L + 1 : d[k] = c[k - (i + 1)]
    BY <2>6, <2>7
  <2> QED BY <2>3, <2>5, <2>8
<1>10. \A k \in i + 2 .. L + 1 : new[k] = ds[k - 1]
  <2> TAKE k \in i + 2 .. L + 1
  <2>1. k - (i + 1) \in 1 .. L - i /\ i + (k - (i + 1)) = k - 1
    BY <1>1
  <2> QED BY <1>3, <1>9, <2>1
<1>11. i \in 1 .. i + 1 /\ i + 1 \in 1 .. i + 1 /\ \A k \in 1 .. i - 1 : k \in 1 .. i + 1
  BY <1>1
<1>12. Split(ds, i, name) = new
  BY <1>7, <1>8, <1>9
<1>13. \A k \in 1 .. i - 1 : new[k] = ds[k]
  BY <1>3, <1>8, <1>9, <1>11
<1>14. /\ new[i] = [name |-> ds[i].name, rec |-> len1]
       /\ new[i + 1] = [name |-> name, rec |-> rest]
  BY <1>6, <1>8, <1>9, <1>11
<1> QED BY <1>9, <1>10, <1>12, <1>13, <1>14 DEF Rewrites

(* The offsets after the last entry was split.                             *)
LEMMA SplitReach ==
  ASSUME NEW ds \in Seq(Ents), NEW L \in Nat \ {0}, L = Len(ds), NEW new \in Seq(Ents),
         Len(new) = L + 1, \A k \in 1 .. L - 1 : new[k] = ds[k]
  PROVE  /\ \A k \in 0 .. L - 1 : Reach(new, k) = Reach(ds, k) /\ Reach(ds, k) \in Nat
         /\ Reach(ds, L) = Reach(ds, L - 1) + ds[L].rec
         /\ Reach(new, L) = Reach(ds, L - 1) + new[L].rec
         /\ Reach(new, L + 1) = Reach(new, L) + new[L + 1].rec
<1>1. PICK f \in [0 .. L -> Nat] : Sums(f, ds, L)
  BY SumsExist
<1>2. new[L].rec \in Nat /\ new[L + 1].rec \in Nat
  <2>1. L \in 1 .. Len(new) /\ L + 1 \in 1 .. Len(new)
    OBVIOUS
  <2> QED BY <2>1, EntryIs
<1>3. PICK g : g = [k \in 0 .. L + 1 |->
                      IF k < L THEN f[k] ELSE IF k = L THEN f[L - 1] + new[L].rec
                                     ELSE f[L - 1] + new[L].rec + new[L + 1].rec]
  OBVIOUS
<1>4. \A k \in 0 .. L : f[k] \in Nat
  BY <1>1
<1>5. /\ \A k \in 0 .. L - 1 : g[k] = f[k]
      /\ g[L] = f[L - 1] + new[L].rec /\ g[L + 1] = g[L] + new[L + 1].rec
  BY <1>2, <1>3, <1>4
<1>6. g \in [0 .. L + 1 -> Nat]
  BY <1>2, <1>3, <1>4
<1>7. ASSUME NEW k \in 1 .. L + 1 PROVE g[k] = g[k - 1] + new[k].rec
  <2>1. CASE k < L
    <3>1. k \in 0 .. L - 1 /\ k - 1 \in 0 .. L - 1 /\ k \in 1 .. L - 1 /\ k \in 1 .. L
      BY <2>1
    <3> QED BY <1>1, <1>5, <3>1 DEF Sums
  <2>2. CASE k = L
    <3>1. k - 1 \in 0 .. L - 1
      BY <2>2
    <3> QED BY <1>5, <2>2, <3>1
  <2>3. CASE k = L + 1
    <3>1. k - 1 = L
      BY <2>3
    <3> QED BY <1>5, <2>3, <3>1
  <2> QED BY <2>1, <2>2, <2>3
<1>8. Sums(g, new, L + 1)
  <2>1. 0 \in 0 .. L - 1
    OBVIOUS
  <2> QED BY <1>1, <1>5, <1>7, <2>1 DEF Sums
<1>9. \A k \in 0 .. L + 1 : Reach(new, k) = g[k]
  <2>1. g \in [0 .. Len(new) -> Nat] /\ Sums(g, new, Len(new))
    BY <1>6, <1>8
  <2> QED BY <2>1, ReachSums
<1>10. \A k \in 0 .. L : Reach(ds, k) = f[k]
  BY <1>1, ReachSums
<1>11. f[L] = f[L - 1] + ds[L].rec
  BY <1>1 DEF Sums
<1>12. /\ L \in 0 .. L + 1 /\ L + 1 \in 0 .. L + 1 /\ L \in 0 .. L /\ L - 1 \in 0 .. L
       /\ \A k \in 0 .. L - 1 : k \in 0 .. L /\ k \in 0 .. L + 1
  OBVIOUS
<1> QED BY <1>4, <1>5, <1>9, <1>10, <1>11, <1>12

(* The size after a split of the last entry.                               *)
Grown(ds, name, sz) ==
    LET end == Behind(ds, Len(ds)) + Align4(Need(name)) IN IF end > sz THEN end ELSE sz

(* The last entry with room, or beyond its room, is split in place.        *)
LEMMA SplitTiles ==
  ASSUME NEW ds \in Seq(Ents), NEW L \in Nat \ {0}, L = Len(ds), NEW sz \in Nat,
         Tiles(ds, sz), NEW name \in EntryNames \cup Dots, ~ dirlookup(ds, name),
         L \in Room(ds, name)
  PROVE  LET new == Split(ds, L, name) IN
         /\ new \in Seq(Ents) /\ Grown(ds, name, sz) \in Nat
         /\ Tiles(new, Grown(ds, name, sz)) /\ StayIn(ds, new)
<1>1. L \in 1 .. L /\ DOMAIN ds = 1 .. L /\ ds # <<>>
  OBVIOUS
<1>2. PICK a, b, rest, new, to, rec, old, n :
         /\ a = Align4(Need(ds[L].name)) /\ b = Align4(Need(name))
         /\ rec = ds[L].rec /\ old = Need(ds[L].name) /\ n = Need(name)
         /\ rest = (rec - a) % RecBound
         /\ new = Split(ds, L, name) /\ to = Grown(ds, name, sz)
  OBVIOUS
<1>3. ds[L].name \in EntryNames \cup Dots /\ rec \in Nat /\ rec < RecBound
  BY <1>1, <1>2, EntryIs
<1>4. /\ old \in Nat /\ a \in Nat /\ old <= a /\ a <= old + 3 /\ a % 4 = 0 /\ old <= 263
      /\ n \in Nat /\ b \in Nat /\ n <= b /\ b <= n + 3 /\ b % 4 = 0 /\ n <= 263
  BY <1>2, <1>3, NeedsBytes
<1>5. rec % 4 = 0 /\ rec + 4 >= a /\ Behind(ds, L) <= sz
  BY <1>1, <1>2 DEF Tiles, Records
<1>6. rec - old < 0 \/ rec - old >= n
  BY <1>2 DEF Room
<1>7. /\ rest \in 0 .. RecBound - 1 /\ rest % 4 = 0 /\ rest + 4 >= b
      /\ a + rest = rec \/ a + rest = rec + RecBound
  <2>1. rest = (rec - a) % RecBound
    BY <1>2
  <2>2. rec \in Nat /\ rec < RecBound /\ rec % 4 = 0 /\ rec + 4 >= a
    BY <1>3, <1>5
  <2>3. Pads(old, a) /\ Pads(n, b) /\ HasRoom(rec, old, n)
    BY <1>4, <1>6 DEF Pads, HasRoom
  <2>4. Rest(rec, a, b, rest)
    BY <2>1, <2>2, <2>3, RoomFor
  <2> QED BY <2>4 DEF Rest
<1>8. /\ new \in Seq(Ents) /\ Len(new) = L + 1
      /\ \A k \in 1 .. L - 1 : new[k] = ds[k]
      /\ new[L] = [name |-> ds[L].name, rec |-> a]
      /\ new[L + 1] = [name |-> name, rec |-> rest]
  <2>1. a \in 0 .. RecBound - 1 /\ L \in 1 .. Len(ds)
    BY <1>1, <1>4, BoundIs
  <2>3. a = Align4(Need(ds[L].name)) /\ rest = (ds[L].rec - a) % RecBound
    BY <1>2
  <2>2. rest \in 0 .. RecBound - 1
    BY <1>7
  <2>4. Rewrites(ds, L, name, a, rest, new)
    BY <1>2, <2>1, <2>2, <2>3, SplitEntries
  <2> QED BY <2>4 DEF Rewrites
<1>9. PICK R, E : R = Reach(ds, L - 1) /\ E = Reach(ds, L)
  OBVIOUS
<1>10. /\ R \in Nat /\ E = R + rec
       /\ \A k \in 0 .. L - 1 : Reach(new, k) = Reach(ds, k)
       /\ Reach(new, L) = R + a /\ Reach(new, L + 1) = R + a + rest
  <2>1. /\ \A k \in 0 .. L - 1 : Reach(new, k) = Reach(ds, k) /\ Reach(ds, k) \in Nat
        /\ Reach(ds, L) = Reach(ds, L - 1) + ds[L].rec
        /\ Reach(new, L) = Reach(ds, L - 1) + new[L].rec
        /\ Reach(new, L + 1) = Reach(new, L) + new[L + 1].rec
    BY <1>8, SplitReach
  <2>2. L - 1 \in 0 .. L - 1 /\ new[L].rec = a /\ new[L + 1].rec = rest
    BY <1>8
  <2> QED BY <1>2, <1>9, <2>1, <2>2
<1>11. Behind(ds, L) = R + a /\ to = (IF R + a + b > sz THEN R + a + b ELSE sz)
  <2>1. Behind(ds, L) = R + a
    BY <1>2, <1>9 DEF Behind
  <2> QED BY <1>2, <2>1 DEF Grown
<1>12. to \in Nat /\ to >= sz /\ to >= R + a + b
  BY <1>4, <1>10, <1>11
<1>13. Tight(new)
  <2>1. ASSUME NEW k \in 1 .. Len(new) - 1 PROVE new[k].rec = Align4(Need(new[k].name))
    <3>1. CASE k = L
      BY <1>2, <1>8, <3>1
    <3>2. CASE k # L
      <4>1. k \in 1 .. L - 1 /\ k \in 1 .. Len(ds) - 1
        BY <1>8, <3>2
      <4> QED BY <1>8, <4>1 DEF Tiles, Tight
    <3> QED BY <3>1, <3>2
  <2> QED BY <2>1 DEF Tight
<1>14. ASSUME NEW k \in 1 .. L + 1
       PROVE  /\ new[k].rec % 4 = 0 /\ Behind(new, k) <= to
              /\ new[k].rec + 4 >= Align4(Need(new[k].name))
  <2>1. CASE k \in 1 .. L - 1
    <3>1. new[k] = ds[k] /\ k \in 1 .. Len(ds) /\ k - 1 \in 0 .. L - 1
      BY <1>8, <2>1
    <3>2. Reach(new, k - 1) = Reach(ds, k - 1) /\ Reach(ds, k - 1) \in Nat
      BY <1>8, <3>1, SplitReach
    <3>3. Behind(new, k) = Behind(ds, k) /\ Behind(ds, k) \in Nat
      <4>1. Align4(Need(ds[k].name)) \in Nat
        BY <3>1, EntryIs, NeedsBytes
      <4> QED BY <3>1, <3>2, <4>1 DEF Behind
    <3>4. /\ ds[k].rec % 4 = 0 /\ Behind(ds, k) <= sz
          /\ ds[k].rec + 4 >= Align4(Need(ds[k].name))
      BY <3>1 DEF Tiles, Records
    <3> QED BY <1>12, <3>1, <3>3, <3>4
  <2>2. CASE k = L
    <3>1. L - 1 \in 0 .. L - 1 /\ new[L].name = ds[L].name /\ new[L].rec = a
      BY <1>8
    <3>2. Behind(new, L) = R + a
      BY <1>2, <1>9, <1>10, <3>1 DEF Behind
    <3>3. R + a <= to /\ a % 4 = 0 /\ a + 4 >= a
      BY <1>4, <1>10, <1>12
    <3>4. new[L].rec = a /\ Align4(Need(new[L].name)) = a
      BY <1>2, <3>1
    <3> QED BY <2>2, <3>2, <3>3, <3>4
  <2>3. CASE k = L + 1
    <3>1. new[k].name = name /\ new[k].rec = rest /\ k - 1 = L
      BY <1>8, <2>3
    <3>2. Behind(new, k) = R + a + b
      BY <1>2, <1>10, <3>1 DEF Behind
    <3> QED BY <1>2, <1>7, <1>12, <3>1, <3>2
  <2> QED BY <2>1, <2>2, <2>3
<1>15. Records(new, to)
  BY <1>8, <1>14 DEF Records
<1>16. \A k \in 1 .. L : ds[k].name # name /\ new[k].name = ds[k].name
  BY <1>1, <1>8 DEF dirlookup
<1>17. Unique(new)
  <2>1. ASSUME NEW k \in 1 .. Len(new), NEW m \in 1 .. Len(new), new[k].name = new[m].name
        PROVE  k = m
    <3>1. CASE k # L + 1 /\ m # L + 1
      <4>1. k \in 1 .. L /\ m \in 1 .. L
        BY <1>8, <3>1
      <4> QED BY <1>16, <2>1, <4>1 DEF Tiles, Unique
    <3>2. CASE k = L + 1 /\ m # L + 1
      <4>1. m \in 1 .. L /\ new[k].name = name
        BY <1>8, <3>2
      <4> QED BY <1>16, <2>1, <4>1
    <3>3. CASE k # L + 1 /\ m = L + 1
      <4>1. k \in 1 .. L /\ new[m].name = name
        BY <1>8, <3>3
      <4> QED BY <1>16, <2>1, <4>1
    <3> QED BY <3>1, <3>2, <3>3
  <2> QED BY <2>1 DEF Unique
<1>18. Ends(new, to)
  <2>1. E % RecBound = DirBytes /\ sz <= E + 4
    BY <1>1, <1>9 DEF Tiles, Ends
  <2>2. PICK F : F = Reach(new, L + 1)
    OBVIOUS
  <2>3. E \in Nat /\ F = R + a + rest /\ (F = E \/ F = E + RecBound)
    <3>1. F = R + a + rest /\ rest \in Nat /\ E \in Nat /\ E = R + rec
      BY <1>3, <1>7, <1>10, <2>2, BoundIs
    <3> QED BY <1>3, <1>4, <1>7, <1>10, <3>1, BoundIs
  <2>4. F % RecBound = DirBytes
    BY <2>1, <2>3, SMT DEF RecBound
  <2>5. to <= F + 4
    <3>1. rest \in Nat /\ b <= rest + 4
      BY <1>4, <1>7, BoundIs
    <3>2. R + a + b <= F + 4
      BY <1>4, <1>10, <2>3, <3>1
    <3>3. sz <= F + 4
      BY <2>1, <2>3, BoundIs
    <3> QED BY <1>11, <3>2, <3>3
  <2> QED BY <1>8, <2>2, <2>4, <2>5 DEF Ends
<1>19. StayIn(ds, new)
  <2>1. ASSUME NEW k \in 1 .. L
        PROVE  /\ k \in 1 .. L + 1 /\ new[k].name = ds[k].name
               /\ Reach(new, k - 1) = Reach(ds, k - 1)
    <3>1. k - 1 \in 0 .. L - 1 /\ k \in 1 .. L + 1
      OBVIOUS
    <3> QED BY <1>10, <1>16, <3>1
  <2>2. DOMAIN new = 1 .. L + 1
    BY <1>8
  <2> QED BY <1>1, <2>1, <2>2 DEF StayIn
<1> QED BY <1>2, <1>8, <1>12, <1>13, <1>15, <1>17, <1>18, <1>19 DEF Tiles

(* The first entry with room.                                              *)
LEMMA FirstIn ==
  ASSUME NEW S \in SUBSET Nat, S # {}
  PROVE  FirstOf(S) \in S
BY LowestExists DEF FirstOf

(* An entry before the last has no room.                                   *)
LEMMA RoomIsLast ==
  ASSUME NEW ds \in Seq(Ents), Tight(ds), NEW name \in EntryNames \cup Dots,
         NEW i \in Room(ds, name)
  PROVE  i = Len(ds)
<1>1. i \in 1 .. Len(ds) /\ Len(ds) \in Nat
  BY DEF Room
<1>2. SUFFICES ASSUME i # Len(ds) PROVE FALSE
  OBVIOUS
<1>3. i \in 1 .. Len(ds) - 1
  BY <1>1, <1>2
<1>4. PICK old, n : old = Need(ds[i].name) /\ n = Need(name)
  OBVIOUS
<1>5. /\ old \in Nat /\ n \in Nat /\ n >= 9
      /\ Align4(old) \in Nat /\ Align4(old) >= old /\ Align4(old) <= old + 3
  BY <1>1, <1>4, EntryIs, NeedsBytes
<1>6. ds[i].rec = Align4(old)
  BY <1>3, <1>4 DEF Tight
<1>7. Align4(old) - old < 0 \/ Align4(old) - old >= n
  BY <1>4, <1>6 DEF Room
<1> QED BY <1>5, <1>7

(* The invariant.                                                          *)
DirInv == dents \in Seq(Ents) /\ size \in Nat /\ Tiles(dents, size)

(* It says what the property says.                                         *)
LEMMA TilesSay == DirInv => EntriesTile
<1> SUFFICES ASSUME DirInv PROVE EntriesTile
  OBVIOUS
<1>1. DOMAIN dents = 1 .. Len(dents) /\ Len(dents) \in Nat
  BY DEF DirInv
<1>2. ASSUME NEW i \in 1 .. Len(dents)
      PROVE  /\ dents[i].rec % 4 = 0 /\ Behind(dents, i) <= size
             /\ i < Len(dents) => dents[i].rec >= Align4(Need(dents[i].name))
             /\ dents[i].rec + 4 >= Align4(Need(dents[i].name))
             /\ \A j \in 1 .. Len(dents) : dents[i].name = dents[j].name => i = j
  <2>1. /\ dents[i].rec % 4 = 0 /\ Behind(dents, i) <= size
        /\ dents[i].rec + 4 >= Align4(Need(dents[i].name))
    BY DEF DirInv, Tiles, Records
  <2>2. \A j \in 1 .. Len(dents) : dents[i].name = dents[j].name => i = j
    BY DEF DirInv, Tiles, Unique
  <2>3. ASSUME i < Len(dents) PROVE dents[i].rec >= Align4(Need(dents[i].name))
    <3>1. i \in 1 .. Len(dents) - 1
      BY <1>1, <2>3
    <3>2. dents[i].rec = Align4(Need(dents[i].name))
      BY <3>1 DEF DirInv, Tiles, Tight
    <3>3. dents[i].rec \in Nat
      BY EntryIs DEF DirInv
    <3> QED BY <3>2, <3>3
  <2> QED BY <2>1, <2>2, <2>3
<1>3. Ends(dents, size)
  BY DEF DirInv, Tiles
<1> QED BY <1>1, <1>2, <1>3 DEF EntriesTile, Ends

(* create() of a directory makes entries that tile the block.              *)
LEMMA MakeTiles ==
  ASSUME DirMake
  PROVE  DirInv' /\ dents = <<>>
<1>1. PICK one : one = <<[name |-> ".", rec |-> DirBytes]>>
  OBVIOUS
<1>2. /\ one \in Seq(Ents) /\ Len(one) = 1 /\ one # <<>>
      /\ one[1].name = "." /\ one[1].rec = DirBytes
  BY <1>1, DirAssumption, BoundIs DEF Ents, Dots
<1>3. Align4(Need(".")) = 12 /\ Align4(Need("..")) = 12 /\ Need(".") = 9 /\ Need("..") = 10
  <2>1. Need(".") = 9 /\ Need("..") = 10
    BY DirAssumption DEF Need
  <2>2. Align4(9) = 12 /\ Align4(10) = 12
    BY DEF Align4
  <2> QED BY <2>1, <2>2
<1>4. Reach(one, 0) = 0 /\ Reach(one, 1) = DirBytes
  <2>1. PICK f : f = [k \in 0 .. 1 |-> IF k = 0 THEN 0 ELSE DirBytes]
    OBVIOUS
  <2>2. f \in [0 .. 1 -> Nat] /\ f[0] = 0 /\ f[1] = DirBytes
    BY <2>1, DirAssumption
  <2>3. Sums(f, one, 1)
    BY <1>2, <2>2, DirAssumption DEF Sums
  <2>4. \A k \in 0 .. 1 : Reach(one, k) = f[k]
    BY <1>2, <2>2, <2>3, ReachSums
  <2> QED BY <2>2, <2>4
<1>5. Behind(one, 1) = 12
  BY <1>2, <1>3, <1>4 DEF Behind
<1>6. Tiles(one, DirBytes)
  <2>1. Tight(one)
    BY <1>2 DEF Tight
  <2>2. Records(one, DirBytes)
    BY <1>2, <1>3, <1>5, DirAssumption DEF Records
  <2>3. Unique(one)
    BY <1>2 DEF Unique
  <2>4. Ends(one, DirBytes)
    <3>1. DirBytes % RecBound = DirBytes
      BY DirAssumption, SMT DEF RecBound
    <3> QED BY <1>2, <1>4, <3>1, DirAssumption DEF Ends
  <2> QED BY <2>1, <2>2, <2>3, <2>4 DEF Tiles
<1>7. 1 \in Room(one, "..") /\ ~ dirlookup(one, "..") /\ ".." \in EntryNames \cup Dots
  BY <1>2, <1>3, DirAssumption DEF Room, dirlookup, Dots
<1>8. Grown(one, "..", DirBytes) = DirBytes
  BY <1>2, <1>3, <1>5, DirAssumption DEF Grown
<1>9. Split(one, 1, "..") \in Seq(Ents) /\ Tiles(Split(one, 1, ".."), DirBytes)
  <2>1. DirBytes \in Nat /\ 1 \in Nat \ {0} /\ 1 = Len(one)
    BY <1>2, DirAssumption
  <2>2. LET new == Split(one, 1, "..") IN
        /\ new \in Seq(Ents) /\ Grown(one, "..", DirBytes) \in Nat
        /\ Tiles(new, Grown(one, "..", DirBytes)) /\ StayIn(one, new)
    BY <1>2, <1>6, <1>7, <2>1, SplitTiles, Zenon
  <2> QED BY <1>8, <2>2
<1>10. dents' = Split(one, 1, "..") /\ size' = DirBytes /\ dents = <<>>
  BY <1>1 DEF DirMake
<1> QED BY <1>9, <1>10, DirAssumption DEF DirInv

(* A link splits the last entry.                                           *)
LEMMA LinkTiles ==
  ASSUME DirInv, NEW name \in EntryNames, DirLink(name)
  PROVE  DirInv' /\ StayIn(dents, dents')
<1>1. PICK L : L = Len(dents)
  OBVIOUS
<1>2. /\ dents \in Seq(Ents) /\ size \in Nat /\ Tiles(dents, size) /\ Tight(dents)
      /\ name \in EntryNames \cup Dots
  BY DEF DirInv, Tiles
<1>3. dents # <<>> /\ ~ dirlookup(dents, name) /\ Room(dents, name) # {}
  BY DEF DirLink
<1>4. L \in Nat \ {0}
  BY <1>1, <1>2, <1>3
<1>5. L \in Room(dents, name) /\ FirstOf(Room(dents, name)) = L
  <2>1. Room(dents, name) \in SUBSET Nat
    BY <1>2 DEF Room
  <2>2. FirstOf(Room(dents, name)) \in Room(dents, name)
    BY <1>3, <2>1, FirstIn
  <2> QED BY <1>1, <1>2, <2>2, RoomIsLast
<1>6. dents' = Split(dents, L, name) /\ size' = Grown(dents, name, size)
  BY <1>1, <1>5 DEF DirLink, Grown
<1>7. /\ Split(dents, L, name) \in Seq(Ents) /\ Grown(dents, name, size) \in Nat
      /\ Tiles(Split(dents, L, name), Grown(dents, name, size))
      /\ StayIn(dents, Split(dents, L, name))
  BY <1>1, <1>2, <1>3, <1>4, <1>5, SplitTiles
<1> QED BY <1>6, <1>7 DEF DirInv

(* Every step keeps the invariant, and no entry moves.                     *)
LEMMA DirStep ==
  ASSUME DirInv, [DirNext]_<<dents, size>>
  PROVE  DirInv' /\ (dents' = dents \/ StayIn(dents, dents'))
<1>1. CASE UNCHANGED <<dents, size>>
  BY <1>1 DEF DirInv
<1>2. CASE DirMake
  <2>1. DirInv' /\ dents = <<>>
    BY <1>2, MakeTiles
  <2> QED BY <2>1 DEF StayIn
<1>3. ASSUME NEW name \in EntryNames, DirLink(name)
      PROVE  DirInv' /\ StayIn(dents, dents')
  BY <1>3, LinkTiles
<1> QED BY <1>1, <1>2, <1>3 DEF DirNext

(* The directory without entries.                                          *)
LEMMA InitDir == DirInit => DirInv
<1> SUFFICES ASSUME DirInit PROVE DirInv
  OBVIOUS
<1>1. dents = <<>> /\ size = 0
  BY DEF DirInit
<1>2. Tiles(<<>>, 0)
  BY DEF Tiles, Tight, Records, Unique, Ends
<1> QED BY <1>1, <1>2 DEF DirInv

(* dirlink() keeps the entries apart and the scan of a directory right,    *)
(* also where the last entry reaches beyond its room and where the         *)
(* directory grows behind it: records reach from one entry to the next,    *)
(* all entries lie within the directory, no name comes twice, and at most  *)
(* the last four bytes are outside of every record.                        *)
THEOREM DirEntriesTile == DirSpec => []EntriesTile
<1>1. DirInv /\ [DirNext]_<<dents, size>> => DirInv'
  BY DirStep
<1> QED BY <1>1, TilesSay, InitDir, PTL DEF DirSpec

(* dirlink() moves no entry, so the position of a getdents() that stopped  *)
(* between two entries stays the start of one.                             *)
THEOREM DirEntriesStay == DirSpec => EntriesStay
<1>1. DirInv /\ [DirNext]_<<dents, size>> => DirInv'
  BY DirStep
<1>2. DirInv /\ [DirNext]_<<dents, size>> =>
         [\A i \in DOMAIN dents : \E j \in DOMAIN dents' :
             dents'[j].name = dents[i].name /\ Reach(dents', j - 1) = Reach(dents, i - 1)]_dents
  BY DirStep DEF StayIn
<1> QED BY <1>1, <1>2, InitDir, PTL DEF DirSpec, EntriesStay
=============================================================================
