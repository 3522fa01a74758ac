------------------------------- MODULE Files --------------------------------
(***************************************************************************)
(* The inode table (fs/ext2fs.c), the table of open files                  *)
(* (kernel/file/file.c) and the system calls on names and descriptors      *)
(* (kernel/sys/sysfile.c), run by several processes.  A step is one        *)
(* section under inode_table.lock or fcbtable.lock, or what a process does *)
(* with an inode between the moments at which it may have to wait: for     *)
(* i_mtx, for a slot of the inode table, for an idle fcb.  File contents,  *)
(* sizes and bitmaps are in module Ext2; here a directory is a function    *)
(* from names to inode numbers and dirlink() may find no room.  A failed   *)
(* assert() sets panic, and nothing moves after that.                      *)
(***************************************************************************)
EXTENDS Integers, Sequences, FiniteSets

CONSTANTS
    Procs,      \* the processes
    None,       \* "no slot", "no owner"
    NINODE,     \* slots of inode_table
    NINO,       \* inodes of the disk
    NFILE,      \* fcbs of fcbtable
    NFD,        \* descriptors of a process
    Names,      \* file names, "." and ".." aside
    PathCalls,  \* the calls with a path that programs make
    Tree,       \* the disk at boot: directory -> name -> inode number
    MaxCalls    \* bound: system calls in a behaviour

Root == 1       \* EXT2_ROOT_INO (2 on the disk; the first number here)
Inos == 1 .. NINO
Slots == 1 .. NINODE
Fcbs == 0 .. (NFILE - 1)
Fds == 0 .. (NFD - 1)
DirNames == Names \cup {".", ".."}
Pieces == DirNames \cup {"gap"}

ASSUME FilesAssumption ==
    /\ None \notin Procs \cup Slots /\ IsFiniteSet(Procs)
    /\ NINODE \in Nat \ {0} /\ NINO \in Nat \ {0}
    /\ NFILE \in Nat \ {0} /\ NFD \in Nat \ {0}
    /\ \A c \in PathCalls :
          /\ c.path.abs \in BOOLEAN /\ c.path.elems \in Seq(DirNames)
          /\ c.name \in {"creat", "mkdir", "chmod", "stat", "chdir", "truncate",
                         "open", "link"}
          /\ c.name = "link" => c.new.abs \in BOOLEAN /\ c.new.elems \in Seq(DirNames)
          /\ c.name = "chdir" => /\ c.path.text.abs \in BOOLEAN
                                 /\ c.path.text.toks \in Seq(Pieces) \ {<<>>}
    /\ Tree \in [Inos -> [DirNames -> Inos \cup {0}]]

(* The disk at boot is one that mkfs.ext2 wrote (makefile): only a         *)
(* directory has entries, "." and ".." are among them; ".." of the root is *)
(* the root, of another directory the only one that names it; and what an  *)
(* entry leads to has a name.                                              *)
HasName(n) == n = Root \/ \E d \in Inos, m \in Names : Tree[d][m] = n
ASSUME TreeAssumption ==
    /\ IsFiniteSet(Names) /\ Names \cap {"gap", ".", ".."} = {}
    /\ Tree[Root]["."] = Root /\ Tree[Root][".."] = Root
    /\ \A d \in Inos, m \in DirNames :
          LET n == Tree[d][m] IN
          n # 0 => /\ Tree[d]["."] = d /\ Tree[d][".."] # 0
                   /\ HasName(d) /\ HasName(n)
                   /\ m \in Names /\ Tree[n]["."] = n => Tree[n][".."] = d

VARIABLES
    slot,       \* inode_table.m_inodes: [dev, no, count, valid, mode, links]
    imtx,       \* owner of each i_mtx
    dnode,      \* inodes as the disk has them: [used, mode, links]
    entries,    \* directories as the disk has them
    files,      \* fcbtable.files: [count, inode]
    idle,       \* fcbtable.qm
    iwait,      \* inode_table.wait_list
    fwait,      \* fcbtable.wait_list
    alive,      \* the processes that exist
    fdtable, icwd, cwd,     \* of each process; cwd is the string
    plain,      \* history: those whose cwd only plain paths made (see Plain)
    pc,         \* where each process is
    loc,        \* its locals: [call, rest, cur, par, obj, fd, no, dead, then]
    panic, calls

tableVars == <<slot, imtx, iwait>>
diskVars  == <<dnode, entries>>
fileVars  == <<files, idle, fwait>>
procVars  == <<alive, fdtable, icwd, cwd, plain>>
vars == <<tableVars, diskVars, fileVars, procVars, pc, loc, panic, calls>>

NoCall == [name |-> "none"]
NoLoc == [call |-> NoCall, rest |-> <<>>, cur |-> None, par |-> None,
          obj |-> None, fd |-> -1, no |-> 0, dead |-> None, then |-> "user"]

(* After boot: the first process, whose cwd is the root directory          *)
(* (forkret()), and the children it forked at once.                        *)
Init ==
    /\ alive \in (SUBSET Procs) \ {{}}
    /\ icwd = [p \in Procs |-> IF p \in alive THEN 1 ELSE None]
    /\ slot = [s \in Slots |->
          [dev |-> IF s = 1 THEN 1 ELSE 0, no |-> IF s = 1 THEN Root ELSE 0,
           count |-> IF s = 1 THEN Cardinality(alive) ELSE 0,
           valid |-> FALSE, mode |-> "none", links |-> 0]]
    /\ imtx = [s \in Slots |-> None]
    /\ entries = Tree
    /\ dnode = [n \in Inos |->
          [used  |-> HasName(n),
           mode  |-> IF Tree[n]["."] = n THEN "dir" ELSE "reg",
           links |-> Cardinality({dm \in Inos \X Names : Tree[dm[1]][dm[2]] = n})
                     + (IF n = Root THEN 1 ELSE 0)]]
    /\ files = [f \in Fcbs |-> [count |-> 0, inode |-> None]]
    /\ idle = [i \in 1 .. NFILE |-> i - 1]
    /\ iwait = {} /\ fwait = {}
    /\ fdtable = [p \in Procs |-> [fd \in Fds |-> -1]]
    /\ cwd = [p \in Procs |-> <<>>] /\ plain = Procs
    /\ pc = [p \in Procs |-> "user"]
    /\ loc = [p \in Procs |-> NoLoc]
    /\ panic = FALSE /\ calls = 0

-----------------------------------------------------------------------------
(* The inode table                                                         *)

Lowest(S) == CHOOSE x \in S : \A y \in S : x <= y

Cached(n) == {s \in Slots : slot[s].dev = 1 /\ slot[s].no = n}
Free == {s \in Slots : slot[s].count = 0}

(* Mutant: the scan stops at the first empty slot.                         *)
FoundEarly(n) == IF Free # {} THEN Free ELSE Cached(n)

(* iget() scans the whole table for the number before it takes an empty    *)
(* slot.                                                                   *)
Found(n) == IF Cached(n) # {} THEN Cached(n) ELSE Free

(* The table after iget(n): a slot that is in the table keeps its content, *)
(* a new one keeps what its last user left there until ilock() reads it.   *)
Got(n, clean) ==
    LET s == Lowest(Found(n)) IN
    IF slot[s].dev = 1 /\ slot[s].no = n THEN [slot EXCEPT ![s].count = @ + 1]
    ELSE [slot EXCEPT ![s].dev = 1, ![s].no = n, ![s].count = @ + 1,
                      ![s].valid = clean]

(* ilock(): what the slot holds once its inode is read.                    *)
Loaded(sl, s) ==
    LET d == dnode[sl[s].no] IN
    IF sl[s].valid THEN sl
    ELSE [sl EXCEPT ![s] = [@ EXCEPT !.valid = TRUE, !.mode = d.mode, !.links = d.links]]

Goto(p, l) == pc' = [pc EXCEPT ![p] = l]
Return(p) == Goto(p, "user") /\ loc' = [loc EXCEPT ![p] = NoLoc]
Lock(p, s) == imtx[s] = None /\ imtx' = [imtx EXCEPT ![s] = p]
Unlocked(s) == [imtx EXCEPT ![s] = None]

(* assert() failed, or the kernel faulted.                                 *)
Panic ==
    /\ panic' = TRUE
    /\ UNCHANGED <<tableVars, diskVars, fileVars, procVars, pc, loc>>

(* Mutant: an inode dies with its last reference, links or not.            *)
DyingLinked(i) == i.count = 1 /\ i.valid

Dying(i) == i.count = 1 /\ i.valid /\ i.links = 0

(* iput() of slot s, in a table sl and with the mutexes mx; the process    *)
(* goes on at l with locals k.                                             *)
Put(p, sl, mx, s, k, l) ==
    IF Dying(sl[s])
    THEN /\ slot' = sl /\ imtx' = [mx EXCEPT ![s] = p]
         /\ Goto(p, "ifree")
         /\ loc' = [loc EXCEPT ![p] = [k EXCEPT !.dead = s, !.then = l]]
    ELSE /\ slot' = [sl EXCEPT ![s].count = @ - 1] /\ imtx' = mx
         /\ Goto(p, l) /\ loc' = [loc EXCEPT ![p] = k]

(* The last reference to an inode without links: its number is free        *)
(* before its blocks are, under i_mtx but not under inode_table.lock.      *)
IFree(p) ==
    /\ pc[p] = "ifree" /\ Goto(p, "itrunc")
    /\ dnode' = [dnode EXCEPT ![slot[loc[p].dead].no].used = FALSE]
    /\ UNCHANGED <<tableVars, entries, fileVars, procVars, loc, panic, calls>>

ITruncate(p) ==
    LET s == loc[p].dead IN
    /\ pc[p] = "itrunc" /\ Goto(p, "idrop")
    /\ entries' = [entries EXCEPT ![slot[s].no] = [m \in DirNames |-> 0]]
    /\ slot' = [slot EXCEPT ![s].valid = FALSE]
    /\ imtx' = Unlocked(s)
    /\ UNCHANGED <<dnode, iwait, fileVars, procVars, loc, panic, calls>>

IDrop(p) ==
    /\ pc[p] = "idrop" /\ Goto(p, loc[p].then)
    /\ slot' = [slot EXCEPT ![loc[p].dead].count = @ - 1]
    /\ iwait' = {}
    /\ loc' = [loc EXCEPT ![p].dead = None]
    /\ UNCHANGED <<imtx, diskVars, fileVars, procVars, panic, calls>>

-----------------------------------------------------------------------------
(* Path names: namex()                                                     *)

FreeFds(p) == {fd \in Fds : fdtable[p][fd] = -1}
Awake(p) == p \in alive /\ p \notin iwait \cup fwait

(* The call wants the parent directory of its path and the last name.      *)
WantsParent(c) == \/ c.name \in {"creat", "mkdir", "link2"}
                  \/ c.name = "open" /\ c.creat

(* A call that takes a path starts: namex() from the root or from the cwd. *)
WalkFrom(p, c, k) ==
    /\ loc' = [loc EXCEPT ![p] = [k EXCEPT !.call = c, !.rest = c.path.elems,
                                 !.cur = IF c.path.abs THEN None ELSE icwd[p]]]
    /\ Goto(p, IF c.path.abs THEN "root" ELSE "walk")
    /\ slot' = IF c.path.abs THEN slot ELSE [slot EXCEPT ![icwd[p]].count = @ + 1]

PathCall(p, c) ==
    /\ pc[p] = "user" /\ Awake(p)
    /\ c.name = "open" => FreeFds(p) # {}
    /\ WalkFrom(p, c, NoLoc)
    /\ UNCHANGED <<imtx, iwait, diskVars, fileVars, procVars, panic>>

(* iget() of the root directory.                                           *)
GetRoot(p) ==
    /\ pc[p] = "root" /\ Awake(p) /\ Found(Root) # {}
    /\ slot' = Got(Root, FALSE)
    /\ loc' = [loc EXCEPT ![p].cur = Lowest(Found(Root))]
    /\ Goto(p, "walk")
    /\ UNCHANGED <<imtx, iwait, diskVars, fileVars, procVars, panic, calls>>

(* The path failed: truncate() goes on to unlock NULL, link() takes its    *)
(* count back, the others return.                                          *)
FailTo(c) == CASE c.name = "truncate" -> "oops"
               [] c.name = "link2"    -> "undo"
               [] OTHER               -> "user"
FailLoc(k) == IF k.call.name = "link2"
              THEN [NoLoc EXCEPT !.call = k.call, !.obj = k.obj] ELSE NoLoc

WalkLock(p) ==
    LET s == loc[p].cur IN
    /\ pc[p] = "walk" /\ loc[p].rest # <<>>
    /\ imtx[s] = None
    /\ IF Loaded(slot, s)[s].mode # "dir" THEN Panic
       ELSE /\ Lock(p, s) /\ slot' = Loaded(slot, s)
            /\ Goto(p, "look")
            /\ UNCHANGED <<iwait, diskVars, fileVars, procVars, loc, panic>>
    /\ UNCHANGED calls

(* A path without names is its start; it has no parent.                    *)
WalkEnd(p) ==
    /\ pc[p] = "walk" /\ loc[p].rest = <<>>
    /\ IF WantsParent(loc[p].call)
       THEN Put(p, slot, imtx, loc[p].cur, FailLoc(loc[p]), FailTo(loc[p].call))
       ELSE Goto(p, "found") /\ UNCHANGED <<slot, imtx, loc>>
    /\ UNCHANGED <<iwait, diskVars, fileVars, procVars, panic, calls>>

Entry(s, m) == entries[slot[s].no][m]

(* Stop one level early, give up, or go down to the next directory.        *)
Look(p) ==
    LET k == loc[p]
        s == k.cur
        n == Entry(s, Head(k.rest))
    IN  /\ pc[p] = "look" /\ Awake(p)
        /\ \/ /\ WantsParent(k.call) /\ Len(k.rest) = 1
              /\ imtx' = Unlocked(s) /\ UNCHANGED slot
              /\ loc' = [loc EXCEPT ![p].par = s, ![p].cur = None]
              /\ Goto(p, "parent")
           \/ /\ ~(WantsParent(k.call) /\ Len(k.rest) = 1)
              /\ n = 0
              /\ Put(p, slot, Unlocked(s), s, FailLoc(k), FailTo(k.call))
           \/ /\ ~(WantsParent(k.call) /\ Len(k.rest) = 1)
              /\ n # 0 /\ Found(n) # {}
              /\ Put(p, Got(n, FALSE), Unlocked(s), s,
                     [k EXCEPT !.rest = Tail(@), !.cur = Lowest(Found(n))],
                     IF Len(k.rest) = 1 THEN "found" ELSE "walk")
        /\ UNCHANGED <<iwait, diskVars, fileVars, procVars, panic, calls>>

(* iunlockput(NULL) in sys_truncate().                                     *)
Oops(p) == pc[p] = "oops" /\ Panic /\ UNCHANGED calls

-----------------------------------------------------------------------------
(* create() and link(): the parent directory                               *)

LastName(p) == loc[p].rest[1]

ParentLock(p) ==
    LET s == loc[p].par IN
    /\ pc[p] = "parent" /\ Lock(p, s)
    /\ slot' = Loaded(slot, s)
    /\ Goto(p, "cdir")
    /\ UNCHANGED <<iwait, diskVars, fileVars, procVars, loc, panic, calls>>

(* Mutant: the directory stays locked until the inode is.                  *)
CreateFoundLocked(p) ==
    LET k == loc[p]
        n == Entry(k.par, LastName(p))
    IN  /\ pc[p] = "cdir" /\ Awake(p) /\ k.call.name # "link2"
        /\ n # 0 /\ Found(n) # {}
        /\ Put(p, Got(n, FALSE), imtx, k.par,
               [k EXCEPT !.cur = Lowest(Found(n)), !.par = None], "cold")
        /\ UNCHANGED <<iwait, diskVars, fileVars, procVars, panic, calls>>

(* The name exists: create() takes its inode once the directory is free.   *)
CreateFound(p) ==
    LET k == loc[p]
        n == Entry(k.par, LastName(p))
    IN  /\ pc[p] = "cdir" /\ Awake(p) /\ k.call.name # "link2"
        /\ n # 0 /\ Found(n) # {}
        /\ Put(p, Got(n, FALSE), Unlocked(k.par), k.par,
               [k EXCEPT !.cur = Lowest(Found(n)), !.par = None], "cold")
        /\ UNCHANGED <<iwait, diskVars, fileVars, procVars, panic, calls>>

CreateOld(p) ==
    LET s  == loc[p].cur
        sl == Loaded(slot, s)
    IN  /\ pc[p] = "cold" /\ imtx[s] = None
        /\ IF loc[p].call.name # "mkdir" /\ sl[s].mode = "reg"
           THEN slot' = sl /\ Goto(p, "found") /\ UNCHANGED <<imtx, loc>>
           ELSE Put(p, sl, imtx, s, NoLoc, "user")
        /\ UNCHANGED <<iwait, diskVars, fileVars, procVars, panic, calls>>

(* ialloc() marks the lowest free number; without one create() fails.      *)
CreateNew(p) ==
    LET k == loc[p]
        free == {n \in Inos : ~dnode[n].used}
    IN  /\ pc[p] = "cdir" /\ k.call.name # "link2"
        /\ Entry(k.par, LastName(p)) = 0
        /\ IF free = {}
           THEN Put(p, slot, Unlocked(k.par), k.par, NoLoc, "user") /\ UNCHANGED dnode
           ELSE /\ dnode' = [dnode EXCEPT ![Lowest(free)].used = TRUE]
                /\ loc' = [loc EXCEPT ![p].no = Lowest(free)]
                /\ Goto(p, "ialloc") /\ UNCHANGED <<slot, imtx>>
        /\ UNCHANGED <<iwait, entries, fileVars, procVars, panic, calls>>

CreateGet(p) ==
    LET n == loc[p].no IN
    /\ pc[p] = "ialloc" /\ Awake(p) /\ Found(n) # {}
    /\ slot' = Got(n, TRUE)
    /\ loc' = [loc EXCEPT ![p].cur = Lowest(Found(n))]
    /\ Goto(p, "cnew")
    /\ UNCHANGED <<imtx, iwait, diskVars, fileVars, procVars, panic, calls>>

(* The new inode's fields, in the slot and (iupdate()) on the disk.        *)
CreateInit(p) ==
    LET s == loc[p].cur
        m == IF loc[p].call.name = "mkdir" THEN "dir" ELSE "reg"
    IN  /\ pc[p] = "cnew" /\ Lock(p, s)
        /\ slot' = [slot EXCEPT ![s] = [@ EXCEPT !.valid = TRUE, !.mode = m, !.links = 1]]
        /\ dnode' = [dnode EXCEPT ![loc[p].no] = [used |-> @.used, mode |-> m, links |-> 1]]
        /\ Goto(p, "clink")
        /\ UNCHANGED <<iwait, entries, fileVars, procVars, loc, panic, calls>>

(* dirlink() finds room: the entry is made, a new directory gets its own   *)
(* entries and counts as a link to its parent.                             *)
CreateLink(p) ==
    LET k == loc[p]
        d == slot[k.par].no
        isdir == k.call.name = "mkdir"
        sl == IF isdir THEN [slot EXCEPT ![k.par].links = @ + 1] ELSE slot
    IN  /\ pc[p] = "clink"
        /\ entries' = [entries EXCEPT ![d][LastName(p)] = k.no,
              ![k.no] = IF isdir THEN [@ EXCEPT !["."] = k.no, ![".."] = d] ELSE @]
        /\ dnode' = [dnode EXCEPT ![d].links = sl[k.par].links]
        /\ Put(p, sl, [imtx EXCEPT ![k.par] = None, ![k.cur] = None], k.par,
               [k EXCEPT !.par = None], "found")
        /\ UNCHANGED <<iwait, fileVars, procVars, panic, calls>>

(* It finds none: the new inode is given back, then the directory.         *)
CreateUndo(p) ==
    LET k == loc[p] IN
    /\ pc[p] = "clink"
    /\ dnode' = [dnode EXCEPT ![k.no].links = 0]
    /\ Put(p, [slot EXCEPT ![k.cur].links = 0], Unlocked(k.cur), k.cur,
           [k EXCEPT !.cur = None], "cfail")
    /\ UNCHANGED <<iwait, entries, fileVars, procVars, panic, calls>>

CreateFail(p) ==
    /\ pc[p] = "cfail"
    /\ Put(p, slot, Unlocked(loc[p].par), loc[p].par, NoLoc, "user")
    /\ UNCHANGED <<iwait, diskVars, fileVars, procVars, panic, calls>>

-----------------------------------------------------------------------------
(* What the calls do with the inode of a path                              *)

Is(p, name) == pc[p] = "found" /\ loc[p].call.name = name

(* creat() returns and keeps the reference, ...                            *)
CreatDone(p) ==
    /\ Is(p, "creat") /\ Return(p)
    /\ UNCHANGED <<tableVars, diskVars, fileVars, procVars, panic, calls>>

(* ... and so does mkdir().                                                *)
MkdirDone(p) ==
    /\ Is(p, "mkdir") /\ Return(p)
    /\ UNCHANGED <<tableVars, diskVars, fileVars, procVars, panic, calls>>

(* chmod() does not lock the inode, and iupdate() asserts that it was      *)
(* read; the reference is kept.                                            *)
Chmod(p) ==
    /\ Is(p, "chmod")
    /\ IF slot[loc[p].cur].valid
       THEN Return(p) /\ UNCHANGED <<tableVars, diskVars, fileVars, procVars, panic>>
       ELSE Panic
    /\ UNCHANGED calls

(* stat(): the reference is kept, whether or not the buffer is bad.        *)
Stat(p) ==
    LET s == loc[p].cur IN
    /\ Is(p, "stat") /\ Return(p)
    /\ UNCHANGED <<imtx, iwait, diskVars, fileVars, procVars, panic, calls>>
    /\ \/ imtx[s] = None /\ slot' = Loaded(slot, s)
       \/ UNCHANGED slot

(* abspath() reads the path by itself: text.abs when it begins with a '/'  *)
(* or a '\', and text.toks the pieces between those that follow, a gap     *)
(* where two meet or the path ends in one.  namex() goes by path.elems,    *)
(* which it cuts at runs of '/'.                                           *)

(* Mutant: ".." leaves the string alone.                                   *)
abspathKeeps(pwd, text) ==
    LET n == Len(text.toks)
        F[i \in 0 .. n] ==
          IF i = 0 THEN IF text.abs THEN <<>> ELSE pwd
          ELSE IF text.toks[i] \in {".", ".."} \/ (i = n /\ text.toks[i] = "gap")
               THEN F[i - 1]
          ELSE Append(F[i - 1], text.toks[i])
    IN  F[n]

(* abspath(): the string of the cwd after a path.                          *)
abspath(pwd, text) ==
    LET n == Len(text.toks)
        F[i \in 0 .. n] ==
          IF i = 0 THEN IF text.abs THEN <<>> ELSE pwd
          ELSE CASE text.toks[i] = "." \/ (i = n /\ text.toks[i] = "gap") -> F[i - 1]
                 [] text.toks[i] = ".." ->
                      IF F[i - 1] = <<>> THEN <<>>
                      ELSE SubSeq(F[i - 1], 1, Len(F[i - 1]) - 1)
                 [] OTHER -> Append(F[i - 1], text.toks[i])
    IN  F[n]

(* Only the last piece and ".." end the string: after a path that goes on  *)
(* with neither, what the buffer held before comes next.                   *)
Unended(text) ==
    LET n == Len(text.toks) IN
    /\ text.toks[n] \in {"gap", "."}
    /\ \E i \in 1 .. n - 1 : /\ text.toks[i] \notin {".", ".."}
                             /\ \A j \in i + 1 .. n - 1 : text.toks[j] # ".."

(* Bound: one piece of what the buffer held, of no name.                   *)
OldText(text) == IF Unended(text) THEN {<<>>, <<"old text">>} ELSE {<<>>}

(* A path that abspath() cuts like namex(), and ends.                      *)
Plain(path) ==
    /\ path.text.abs = path.abs /\ ~Unended(path.text)
    /\ path.text.toks \in {path.elems, Append(path.elems, "gap")}

(* chdir(): the new directory is locked while the old one is put; a path   *)
(* to the same directory, or to no directory, keeps its reference.         *)
Chdir(p) ==
    LET s    == loc[p].cur
        sl   == Loaded(slot, s)
        path == loc[p].call.path
    IN  /\ Is(p, "chdir")
        /\ \/ /\ s = icwd[p] /\ Return(p)
              /\ UNCHANGED <<slot, imtx, icwd, cwd, plain>>
           \/ /\ s # icwd[p] /\ imtx[s] = None /\ sl[s].mode # "dir"
              /\ slot' = sl /\ Return(p)
              /\ UNCHANGED <<imtx, icwd, cwd, plain>>
           \/ /\ s # icwd[p] /\ imtx[s] = None /\ sl[s].mode = "dir"
              /\ \E old \in OldText(path.text) :
                    cwd' = [cwd EXCEPT ![p] = abspath(@, path.text) \o old]
              /\ plain' = IF Plain(path) /\ (path.abs \/ p \in plain)
                          THEN plain \cup {p} ELSE plain \ {p}
              /\ icwd' = [icwd EXCEPT ![p] = s]
              /\ Put(p, sl, imtx, icwd[p], NoLoc, "user")
        /\ UNCHANGED <<iwait, diskVars, fileVars, alive, fdtable, panic, calls>>

(* truncate() changes the content only (module Ext2).                      *)
Truncate(p) ==
    LET s == loc[p].cur IN
    /\ Is(p, "truncate") /\ imtx[s] = None
    /\ Put(p, Loaded(slot, s), imtx, s, NoLoc, "user")
    /\ UNCHANGED <<iwait, diskVars, fileVars, procVars, panic, calls>>

(* link(): the count of the old file goes up before the new name is made.  *)
LinkOld(p) ==
    LET s  == loc[p].cur
        sl == Loaded(slot, s)
        up == [sl EXCEPT ![s].links = @ + 1]
        c  == [name |-> "link2", path |-> loc[p].call.new]
    IN  /\ Is(p, "link") /\ imtx[s] = None
        /\ IF sl[s].mode = "dir"
           THEN Put(p, sl, imtx, s, NoLoc, "user") /\ UNCHANGED dnode
           ELSE /\ dnode' = [dnode EXCEPT ![sl[s].no].links = up[s].links]
                /\ slot' = IF c.path.abs THEN up ELSE [up EXCEPT ![icwd[p]].count = @ + 1]
                /\ loc' = [loc EXCEPT ![p] = [NoLoc EXCEPT !.call = c, !.obj = s,
                       !.rest = c.path.elems, !.cur = IF c.path.abs THEN None ELSE icwd[p]]]
                /\ Goto(p, IF c.path.abs THEN "root" ELSE "walk")
                /\ UNCHANGED imtx
        /\ UNCHANGED <<iwait, entries, fileVars, procVars, panic, calls>>

LinkNew(p) ==
    LET k == loc[p]
        d == slot[k.par].no
    IN  /\ pc[p] = "cdir" /\ k.call.name = "link2" /\ Entry(k.par, LastName(p)) = 0
        /\ entries' = [entries EXCEPT ![d][LastName(p)] = slot[k.obj].no]
        /\ Put(p, slot, Unlocked(k.par), k.par, [k EXCEPT !.par = None], "linked")
        /\ UNCHANGED <<iwait, dnode, fileVars, procVars, panic, calls>>

Linked(p) ==
    /\ pc[p] = "linked" /\ Put(p, slot, imtx, loc[p].obj, NoLoc, "user")
    /\ UNCHANGED <<iwait, diskVars, fileVars, procVars, panic, calls>>

(* The name is taken, or the directory has no room.                        *)
LinkFail(p) ==
    LET k == loc[p]
        n == Entry(k.par, LastName(p))
        looked == [Got(n, FALSE) EXCEPT ![Lowest(Found(n))].count = @ - 1]
    IN  /\ pc[p] = "cdir" /\ k.call.name = "link2" /\ Awake(p)
        /\ n = 0 \/ Found(n) # {}
        /\ Put(p, IF n = 0 THEN slot ELSE looked, Unlocked(k.par), k.par,
               FailLoc(k), "undo")
        /\ UNCHANGED <<iwait, diskVars, fileVars, procVars, panic, calls>>

LinkUndo(p) ==
    LET s == loc[p].obj IN
    /\ pc[p] = "undo" /\ imtx[s] = None
    /\ dnode' = [dnode EXCEPT ![slot[s].no].links = slot[s].links - 1]
    /\ Put(p, [slot EXCEPT ![s].links = @ - 1], imtx, s, NoLoc, "user")
    /\ UNCHANGED <<iwait, entries, fileVars, procVars, panic, calls>>

-----------------------------------------------------------------------------
(* The table of open files                                                 *)

Gave(p, fd, f) == fdtable' = [fdtable EXCEPT ![p][fd] = f]

(* open(): file_alloc() once there is an idle fcb, at the descriptor       *)
(* chosen when the call began.                                             *)
Open(p) ==
    LET f == Head(idle) IN
    /\ Is(p, "open") /\ Awake(p) /\ idle # <<>>
    /\ idle' = Tail(idle)
    /\ Gave(p, Lowest(FreeFds(p)), f)
    /\ files' = [files EXCEPT ![f] = [count |-> @.count + 1, inode |-> loc[p].cur]]
    /\ Goto(p, IF loc[p].call.sized THEN "size" ELSE "user")
    /\ loc' = [loc EXCEPT ![p] = [NoLoc EXCEPT !.obj =
                  IF loc[p].call.sized THEN loc[p].cur ELSE None]]
    /\ UNCHANGED <<tableVars, diskVars, fwait, alive, icwd, cwd, plain, panic, calls>>

(* O_APPEND or O_TRUNC: the inode is locked for its size.                  *)
OpenSize(p) ==
    LET s == loc[p].obj IN
    /\ pc[p] = "size" /\ imtx[s] = None
    /\ slot' = Loaded(slot, s) /\ Return(p)
    /\ UNCHANGED <<imtx, iwait, diskVars, fileVars, procVars, panic, calls>>

(* read(), write(), fstat(), and getdents() when its buffer is in memory:  *)
(* the inode of a descriptor is locked, unless it looks like a pipe to     *)
(* read() or write().  An inode that fstat() locks as a pipe with i_valid  *)
(* 0 is read from device 0, which does not exist.                          *)
UseFile(p, fd, stat) ==
    LET f == files[fdtable[p][fd]]
        s == f.inode
    IN  /\ pc[p] = "user" /\ Awake(p) /\ fdtable[p][fd] # -1
        /\ IF s = None THEN Panic
           ELSE IF slot[s].count = 0 \/ (stat /\ slot[s].dev = 0 /\ ~slot[s].valid)
           THEN Panic
           ELSE /\ ~stat => slot[s].mode # "fifo"
                /\ imtx[s] = None
                /\ slot' = Loaded(slot, s)
                /\ UNCHANGED <<imtx, iwait, diskVars, fileVars, procVars, pc, loc, panic>>

(* getdents() keeps the directory locked while verify_area() brings in     *)
(* the pages of its buffer (with a descriptor that a failed pipe() left,   *)
(* it is UseFile only) ...                                                 *)
Dents(p, fd) ==
    LET s == files[fdtable[p][fd]].inode IN
    /\ pc[p] = "user" /\ Awake(p) /\ fdtable[p][fd] # -1
    /\ files[fdtable[p][fd]].count > 0 /\ slot[s].dev = 1
    /\ Lock(p, s) /\ slot' = Loaded(slot, s) /\ slot'[s].mode = "dir"
    /\ Goto(p, "dents")
    /\ loc' = [loc EXCEPT ![p] = [NoLoc EXCEPT !.obj = s]]
    /\ UNCHANGED <<iwait, diskVars, fileVars, procVars, panic>>

(* ... and a page of the program is read from its inode, under that lock.  *)
(* A program is a regular file that execve() found under a name; which one *)
(* p runs is not modelled.                                                 *)
Programs ==
    {s \in Slots : /\ slot[s].dev = 1 /\ slot[s].count > 0
                   /\ \E d \in Inos, m \in Names : entries[d][m] = slot[s].no
                   /\ dnode[slot[s].no].mode = "reg"}
DentsFault(p) ==
    /\ pc[p] = "dents"
    /\ \E s \in Programs : imtx[s] = None /\ slot' = Loaded(slot, s)
    /\ UNCHANGED <<imtx, iwait, diskVars, fileVars, procVars, pc, loc, panic, calls>>

DentsEnd(p) ==
    /\ pc[p] = "dents" /\ imtx' = Unlocked(loc[p].obj) /\ Return(p)
    /\ UNCHANGED <<slot, iwait, diskVars, fileVars, procVars, panic, calls>>

(* file_close() of the last reference: what becomes of the inode depends   *)
(* on the mode the slot shows, which is the mode of its last user when the *)
(* inode was never read.  A pipe's count goes down under i_mtx and nobody  *)
(* is woken; an inode of no known mode keeps its count.                    *)
ClosePut(p, fd, l) ==
    LET s == files[fdtable[p][fd]].inode
        k == [loc[p] EXCEPT !.fd = fd]
    IN  CASE slot[s].mode \in {"reg", "dir"} -> Put(p, slot, imtx, s, k, l)
          [] slot[s].mode = "fifo" ->
               /\ imtx[s] = None
               /\ slot' = [slot EXCEPT ![s].count = @ - 1]
               /\ Goto(p, l) /\ loc' = [loc EXCEPT ![p] = k]
               /\ UNCHANGED imtx
          [] OTHER -> /\ Goto(p, l) /\ loc' = [loc EXCEPT ![p] = k]
                      /\ UNCHANGED <<slot, imtx>>

(* file_close() on the way to l.                                           *)
FileClose(p, fd, l) ==
    LET f == fdtable[p][fd] IN
    IF files[f].count = 0 THEN Panic
    ELSE /\ files' = [files EXCEPT ![f].count = @ - 1]
         /\ IF files[f].count > 1
            THEN /\ Gave(p, fd, -1) /\ Goto(p, l)
                 /\ UNCHANGED <<slot, imtx, loc>>
            ELSE ClosePut(p, fd, "ffree") /\ UNCHANGED fdtable
         /\ UNCHANGED <<iwait, diskVars, idle, fwait, alive, icwd, cwd, plain, panic>>

(* Where a call goes on after a close.                                     *)
AfterClose(c) == CASE c.name = "dup2" -> "dupfd"
                   [] c.name = "exit" -> "exit"
                   [] OTHER -> "user"

(* Mutant: nobody is told of the idle fcb.                                 *)
fcbno_freeQuiet(f) == idle' = Append(idle, f) /\ UNCHANGED fwait

fcbno_free(f) == idle' = Append(idle, f) /\ fwait' = {}

FcbFree(p) ==
    LET fd == loc[p].fd IN
    /\ pc[p] = "ffree"
    /\ fcbno_free(fdtable[p][fd]) /\ Gave(p, fd, -1)
    /\ Goto(p, AfterClose(loc[p].call))
    /\ loc' = [loc EXCEPT ![p].fd = -1]
    /\ UNCHANGED <<tableVars, diskVars, files, alive, icwd, cwd, plain, panic, calls>>

Close(p, fd) ==
    /\ pc[p] = "user" /\ Awake(p) /\ fdtable[p][fd] # -1
    /\ FileClose(p, fd, "user")

(* dup2(): an open newfd is closed first; oldfd is not looked at.          *)
Dup2(p, old, new) ==
    LET c == [name |-> "dup2", old |-> old, new |-> new] IN
    /\ pc[p] = "user" /\ Awake(p)
    /\ loc' = [loc EXCEPT ![p].call = c]
    /\ Goto(p, "dup2")
    /\ UNCHANGED <<tableVars, diskVars, fileVars, procVars, panic>>

Dup2Close(p) ==
    LET new == loc[p].call.new IN
    /\ pc[p] = "dup2"
    /\ IF fdtable[p][new] = -1
       THEN /\ Goto(p, "dupfd")
            /\ UNCHANGED <<tableVars, diskVars, fileVars, procVars, loc, panic>>
       ELSE FileClose(p, new, "dupfd")
    /\ UNCHANGED calls

Dup(p, old) ==
    /\ pc[p] = "user" /\ Awake(p) /\ fdtable[p][old] # -1
    /\ loc' = [loc EXCEPT ![p].call = [name |-> "dup", old |-> old, new |-> 0]]
    /\ Goto(p, "dupfd")
    /\ UNCHANGED <<tableVars, diskVars, fileVars, procVars, panic>>

(* do_dupfd(): the first free descriptor from arg on; file_dup() passes    *)
(* over -1 and asserts a reference otherwise.                              *)
DupFd(p) ==
    LET c == loc[p].call
        f == fdtable[p][c.old]
        free == {fd \in FreeFds(p) : fd >= c.new}
    IN  /\ pc[p] = "dupfd"
        /\ IF free # {} /\ f # -1 /\ files[f].count = 0 THEN Panic
           ELSE /\ IF free = {} \/ f = -1 THEN UNCHANGED <<fdtable, files>>
                   ELSE /\ Gave(p, Lowest(free), f)
                        /\ files' = [files EXCEPT ![f].count = @ + 1]
                /\ Return(p)
                /\ UNCHANGED <<tableVars, diskVars, idle, fwait, alive, icwd, cwd, plain, panic>>
        /\ UNCHANGED calls

(* pipe(): the first fcb, the second, then the inode.                      *)
Pipe(p) ==
    /\ pc[p] = "user" /\ Awake(p) /\ FreeFds(p) # {}
    /\ Goto(p, "pipe1")
    /\ UNCHANGED <<tableVars, diskVars, fileVars, procVars, loc, panic>>

PipeFirst(p) ==
    LET fd == Lowest(FreeFds(p)) IN
    /\ pc[p] = "pipe1" /\ Awake(p) /\ idle # <<>>
    /\ idle' = Tail(idle) /\ Gave(p, fd, Head(idle))
    /\ loc' = [loc EXCEPT ![p].fd = fd]
    /\ Goto(p, "pipe2")
    /\ UNCHANGED <<tableVars, diskVars, files, fwait, alive, icwd, cwd, plain, panic, calls>>

PipeNoFd(p) ==
    LET fd == loc[p].fd IN
    /\ pc[p] = "pipe2" /\ FreeFds(p) = {}
    /\ fcbno_free(fdtable[p][fd]) /\ Gave(p, fd, -1)
    /\ Return(p)
    /\ UNCHANGED <<tableVars, diskVars, files, alive, icwd, cwd, plain, panic, calls>>

PipeSecond(p) ==
    LET fd == Lowest(FreeFds(p)) IN
    /\ pc[p] = "pipe2" /\ Awake(p) /\ FreeFds(p) # {} /\ idle # <<>>
    /\ idle' = Tail(idle) /\ Gave(p, fd, Head(idle))
    /\ loc' = [loc EXCEPT ![p].no = fd]
    /\ Goto(p, "pipe3")
    /\ UNCHANGED <<tableVars, diskVars, files, fwait, alive, icwd, cwd, plain, panic, calls>>

(* A bad address: the call returns and both descriptors stay.              *)
PipeFault(p) ==
    /\ pc[p] = "pipe3" /\ p \notin iwait /\ Return(p)
    /\ UNCHANGED <<tableVars, diskVars, fileVars, procVars, panic, calls>>

(* pipealloc() takes the first free slot; idup() for the second end.       *)
PipeInode(p) ==
    LET s == Lowest(Free) IN
    /\ pc[p] = "pipe3" /\ Awake(p) /\ Free # {}
    /\ slot' = [slot EXCEPT ![s] = [@ EXCEPT !.dev = 0, !.count = 2, !.mode = "fifo"]]
    /\ files' = [files EXCEPT
          ![fdtable[p][loc[p].fd]] = [count |-> @.count + 1, inode |-> s],
          ![fdtable[p][loc[p].no]]  = [count |-> @.count + 1, inode |-> s]]
    /\ Return(p)
    /\ UNCHANGED <<imtx, iwait, diskVars, idle, fwait, procVars, panic, calls>>

-----------------------------------------------------------------------------
(* Waiting                                                                 *)

(* proc_block(&inode_table.wait_list, ...): the table has no slot for the  *)
(* inode p needs next.                                                     *)
InodeWait(p) ==
    LET k == loc[p]
        next == IF pc[p] = "look" /\ ~(WantsParent(k.call) /\ Len(k.rest) = 1)
                THEN Entry(k.cur, LastName(p))
                ELSE IF pc[p] = "cdir" THEN Entry(k.par, LastName(p)) ELSE 0
    IN  /\ Awake(p) /\ iwait' = iwait \cup {p}
        /\ \/ pc[p] = "root" /\ Found(Root) = {}
           \/ pc[p] \in {"look", "cdir"} /\ next # 0 /\ Found(next) = {}
           \/ pc[p] = "ialloc" /\ Found(k.no) = {}
           \/ pc[p] = "pipe3" /\ Free = {}
        /\ UNCHANGED <<slot, imtx, diskVars, fileVars, procVars, pc, loc, panic, calls>>

(* proc_block(&fcbtable.wait_list, ...)                                    *)
FileWait(p) ==
    /\ Awake(p) /\ idle = <<>>
    /\ Is(p, "open") \/ pc[p] = "pipe1" \/ (pc[p] = "pipe2" /\ FreeFds(p) # {})
    /\ fwait' = fwait \cup {p}
    /\ UNCHANGED <<tableVars, diskVars, files, idle, procVars, pc, loc, panic, calls>>

-----------------------------------------------------------------------------
(* Processes                                                               *)

UsesOf(p, f) == Cardinality({fd \in Fds : fdtable[p][fd] = f})

(* Mutant: the child uses its parent's reference to the cwd.               *)
ForkShared(p, q) ==
    /\ pc[p] = "user" /\ Awake(p) /\ q \notin alive
    /\ IF \E fd \in Fds : fdtable[p][fd] # -1 /\ files[fdtable[p][fd]].count = 0
       THEN Panic
       ELSE /\ alive' = alive \cup {q}
            /\ fdtable' = [fdtable EXCEPT ![q] = fdtable[p]]
            /\ files' = [f \in Fcbs |-> [files[f] EXCEPT !.count = @ + UsesOf(p, f)]]
            /\ icwd' = [icwd EXCEPT ![q] = icwd[p]]
            /\ cwd' = [cwd EXCEPT ![q] = cwd[p]]
            /\ plain' = IF p \in plain THEN plain \cup {q} ELSE plain \ {q}
            /\ UNCHANGED <<slot, imtx, iwait, diskVars, idle, fwait, pc, loc, panic>>

(* do_fork(): file_dup() of every descriptor and idup() of the cwd.        *)
Fork(p, q) ==
    /\ pc[p] = "user" /\ Awake(p) /\ q \notin alive
    /\ IF \E fd \in Fds : fdtable[p][fd] # -1 /\ files[fdtable[p][fd]].count = 0
       THEN Panic
       ELSE /\ alive' = alive \cup {q}
            /\ fdtable' = [fdtable EXCEPT ![q] = fdtable[p]]
            /\ files' = [f \in Fcbs |-> [files[f] EXCEPT !.count = @ + UsesOf(p, f)]]
            /\ slot' = [slot EXCEPT ![icwd[p]].count = @ + 1]
            /\ icwd' = [icwd EXCEPT ![q] = icwd[p]]
            /\ cwd' = [cwd EXCEPT ![q] = cwd[p]]
            /\ plain' = IF p \in plain THEN plain \cup {q} ELSE plain \ {q}
            /\ UNCHANGED <<imtx, iwait, diskVars, idle, fwait, pc, loc, panic>>

(* freeproc(): every descriptor is closed, then the cwd is put.            *)
Exit(p) ==
    /\ pc[p] = "user" /\ Awake(p) /\ alive # {p}
    /\ Goto(p, "exit")
    /\ loc' = [loc EXCEPT ![p].call = [name |-> "exit"]]
    /\ UNCHANGED <<tableVars, diskVars, fileVars, procVars, panic>>

ExitClose(p) ==
    LET open == Fds \ FreeFds(p) IN
    /\ pc[p] = "exit" /\ open # {}
    /\ FileClose(p, Lowest(open), "exit")
    /\ UNCHANGED calls

ExitPut(p) ==
    /\ pc[p] = "exit" /\ FreeFds(p) = Fds /\ icwd[p] # None
    /\ Put(p, slot, imtx, icwd[p], loc[p], "gone")
    /\ icwd' = [icwd EXCEPT ![p] = None]
    /\ UNCHANGED <<iwait, diskVars, fileVars, alive, fdtable, cwd, plain, panic, calls>>

Gone(p) ==
    /\ pc[p] = "gone" /\ Return(p)
    /\ alive' = alive \ {p} /\ cwd' = [cwd EXCEPT ![p] = <<>>]
    /\ plain' = plain \cup {p}
    /\ UNCHANGED <<tableVars, diskVars, fileVars, fdtable, icwd, panic, calls>>

Call(p) ==
    /\ calls < MaxCalls /\ calls' = calls + 1
    /\ \/ Pipe(p) \/ Exit(p)
       \/ \E c \in PathCalls : PathCall(p, c)
       \/ \E q \in Procs : Fork(p, q)
       \/ \E fd \in Fds : \/ \E stat \in BOOLEAN : UseFile(p, fd, stat)
                          \/ Dents(p, fd)
                          \/ Close(p, fd)
                          \/ Dup(p, fd)
                          \/ \E new \in Fds : Dup2(p, fd, new)

Step(p) ==
    \/ GetRoot(p) \/ WalkLock(p) \/ WalkEnd(p) \/ Look(p) \/ Oops(p)
    \/ IFree(p) \/ ITruncate(p) \/ IDrop(p)
    \/ ParentLock(p) \/ CreateFound(p) \/ CreateOld(p) \/ CreateNew(p)
    \/ CreateGet(p) \/ CreateInit(p) \/ CreateLink(p) \/ CreateUndo(p) \/ CreateFail(p)
    \/ CreatDone(p) \/ MkdirDone(p) \/ Chmod(p) \/ Stat(p) \/ Chdir(p) \/ Truncate(p)
    \/ LinkOld(p) \/ LinkNew(p) \/ Linked(p) \/ LinkFail(p) \/ LinkUndo(p)
    \/ Open(p) \/ OpenSize(p) \/ DentsFault(p) \/ DentsEnd(p)
    \/ FcbFree(p) \/ Dup2Close(p) \/ DupFd(p)
    \/ PipeFirst(p) \/ PipeNoFd(p) \/ PipeSecond(p) \/ PipeFault(p) \/ PipeInode(p)
    \/ InodeWait(p) \/ FileWait(p)
    \/ ExitClose(p) \/ ExitPut(p) \/ Gone(p)

Next == ~panic /\ \E p \in Procs : Call(p) \/ Step(p)

Spec == Init /\ [][Next]_vars

-----------------------------------------------------------------------------
(* Types of the tables and of the calls in progress.                       *)
TypeOK ==
    /\ slot \in [Slots -> [dev : {0, 1}, no : 0 .. NINO, count : Int,
                           valid : BOOLEAN, mode : {"none", "reg", "dir", "fifo"},
                           links : Int]]
    /\ imtx \in [Slots -> Procs \cup {None}]
    /\ files \in [Fcbs -> [count : Nat, inode : Slots \cup {None}]]
    /\ idle \in Seq(Fcbs)
    /\ alive \in SUBSET Procs
    /\ fdtable \in [Procs -> [Fds -> Fcbs \cup {-1}]]

(* The references to slot s that somebody will use or give back: open      *)
(* files, current directories and the variables of calls in progress.      *)
Refs(s) ==
    Cardinality({f \in Fcbs : files[f].count > 0 /\ files[f].inode = s})
    + Cardinality({p \in Procs : icwd[p] = s})
    + Cardinality({pv \in Procs \X {"cur", "par", "obj", "dead"} :
                      loc[pv[1]][pv[2]] = s /\ pc[pv[1]] \notin {"size", "dents"}})

(* No slot is recycled under somebody who uses it: i_count is never below  *)
(* the references in use, so iget() and pipealloc(), which take any slot   *)
(* with i_count 0, take one nobody has.  (Above it, it may be: stat() and  *)
(* others never give their reference back.)                                *)
CountCoversRefs == \A s \in Slots : slot[s].count >= Refs(s)

(* An inode is in at most one slot, so i_mtx of that slot guards it.       *)
OneSlotPerInode ==
    \A s, t \in Slots : slot[s].dev = 1 /\ slot[t].dev = 1 /\ slot[s].no = slot[t].no
                           => s = t

(* Every fcb is either idle, once and unused, or in use by exactly f_count *)
(* descriptors, or (while pipe() or the last close runs, and after a       *)
(* pipe() with a bad address) at one descriptor with f_count 0; and nobody *)
(* sleeps in file_alloc() while one is idle.                               *)
FcbsAccounted ==
    LET Uses(f) == Cardinality({pf \in Procs \X Fds : fdtable[pf[1]][pf[2]] = f})
        Times(f) == Cardinality({i \in DOMAIN idle : idle[i] = f})
    IN  /\ \A f \in Fcbs :
              \/ Times(f) = 1 /\ Uses(f) = 0 /\ files[f].count = 0
              \/ Times(f) = 0 /\ Uses(f) = 1 /\ files[f].count = 0
              \/ Times(f) = 0 /\ Uses(f) = files[f].count
        /\ idle # <<>> => fwait = {}

(* A name in a directory leads to an inode that is allocated, and whose    *)
(* link count covers all its names: no name outlives its inode.            *)
NamesLive ==
    \A n \in Inos :
        LET named == {dm \in Inos \X Names : entries[dm[1]][dm[2]] = n}
        IN  named # {} => dnode[n].used /\ dnode[n].links >= Cardinality(named)

(* The inodes whose mutex p may have to take next.                         *)
Wants(p) ==
    LET k == loc[p] IN
    CASE pc[p] = "walk" /\ k.rest # <<>>   -> {k.cur}
      [] pc[p] = "parent"                  -> {k.par}
      [] pc[p] \in {"cold", "cnew"}        -> {k.cur}
      [] pc[p] \in {"size", "undo"}        -> {k.obj}
      [] pc[p] = "found" /\ k.call.name \in {"chdir", "truncate", "link"} -> {k.cur}
      [] pc[p] = "dents"                   -> Programs
      [] OTHER                             -> {}

(* No processes wait for an i_mtx in a ring, each for one that another of  *)
(* them holds, nor one for itself: create() takes the new inode's and      *)
(* getdents() the program's while they hold a directory's.                 *)
NoLockRing ==
    ~\E R \in SUBSET Procs :
        R # {} /\ \A p \in R : \E s \in Wants(p) : imtx[s] \in R

(* The string of the current directory, read as namex() reads a path,      *)
(* leads to the inode that relative paths start from, as long as plain     *)
(* paths have made it.                                                     *)
CwdNamesIcwd ==
    \A p \in alive \cap plain :
        LET R[i \in 0 .. Len(cwd[p])] ==
              IF i = 0 THEN Root
              ELSE IF cwd[p][i] = "gap" THEN R[i - 1]
              ELSE IF R[i - 1] = 0 \/ cwd[p][i] \notin DirNames THEN 0
              ELSE entries[R[i - 1]][cwd[p][i]]
        IN  icwd[p] # None => R[Len(cwd[p])] = slot[icwd[p]].no
=============================================================================
