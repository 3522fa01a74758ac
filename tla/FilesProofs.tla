---------------------------- MODULE FilesProofs -----------------------------
(***************************************************************************)
(* Proofs about module Files, for any number of processes, slots, fcbs and *)
(* descriptors and any programs: an inode is in one slot of inode_table,   *)
(* no slot is taken from under a reference to it, and every fcb is either  *)
(* idle or accounted for by the descriptors that name it.                  *)
(***************************************************************************)
EXTENDS Files, Functions, FiniteSetTheorems, FunctionTheorems,
        WellFoundedInduction, NaturalsInduction, TLAPS

(* The shape of the tables, of an inode table sl and of the locals.        *)
SlotFields == {"dev", "no", "count", "valid", "mode", "links"}
LocFields == {"call", "rest", "cur", "par", "obj", "fd", "no", "dead", "then"}

TableOK(sl) ==
    /\ DOMAIN sl = Slots
    /\ \A s \in Slots : DOMAIN sl[s] = SlotFields /\ sl[s].count \in Int

LocalsOK ==
    /\ DOMAIN loc = Procs /\ DOMAIN pc = Procs /\ DOMAIN icwd = Procs
    /\ \A p \in Procs : DOMAIN loc[p] = LocFields

FilesOK ==
    /\ DOMAIN files = Fcbs
    /\ \A f \in Fcbs : DOMAIN files[f] = {"count", "inode"} /\ files[f].count \in Nat

(* The places that refer to an inode: an fcb, a current directory or a     *)
(* variable of a call in progress; and the slot that each of them names.   *)
RefVars == {"cur", "par", "obj", "dead"}
Places == ({"file"} \X Fcbs) \cup ({"cwd"} \X Procs) \cup (RefVars \X Procs)

Named(h) ==
    CASE h[1] = "file" -> IF files[h[2]].count > 0 THEN files[h[2]].inode ELSE None
      [] h[1] = "cwd"  -> icwd[h[2]]
      [] OTHER         -> IF pc[h[2]] \in {"size", "dents"} THEN None ELSE loc[h[2]][h[1]]

Held == [h \in Places |-> Named(h)]

(* The counts of sl cover the references that H gives to the places.       *)
Covers(H, sl) ==
    \A s \in Slots : sl[s].count >= Cardinality({h \in Places : H[h] = s})

(* An inode is in at most one slot of sl.                                  *)
OneSlotIn(sl) ==
    \A s, t \in Slots : sl[s].dev = 1 /\ sl[t].dev = 1 /\ sl[s].no = sl[t].no => s = t

(* Two tables with the same inodes and counts.                             *)
Alike(sl, tl) ==
    \A s \in Slots :
       sl[s].dev = tl[s].dev /\ sl[s].no = tl[s].no /\ sl[s].count = tl[s].count

(* The table after the count of s goes down.                               *)
Less(sl, s) == [sl EXCEPT ![s].count = @ - 1]

TableInv == /\ TableOK(slot) /\ LocalsOK /\ FilesOK
            /\ OneSlotPerInode /\ Covers(Held, slot)

(* Where p goes on when the inode it puts is gone.                         *)
Eff(p) == IF pc[p] \in {"ifree", "itrunc", "idrop"} THEN loc[p].then ELSE pc[p]

UsersOf(f) == {pf \in Procs \X Fds : fdtable[pf[1]][pf[2]] = f}
IsIdle(f) == \E i \in DOMAIN idle : idle[i] = f

(* Descriptor fd of p has an fcb that is taken and not in use.             *)
Bare(p, fd) ==
    /\ fd \in Fds /\ fdtable[p][fd] \in Fcbs
    /\ files[fdtable[p][fd]].count = 0

FcbState(f) ==
    \/ IsIdle(f) /\ UsersOf(f) = {} /\ files[f].count = 0
    \/ ~IsIdle(f) /\ Cardinality(UsersOf(f)) = 1 /\ files[f].count = 0
    \/ ~IsIdle(f) /\ Cardinality(UsersOf(f)) = files[f].count

(* What p relies on at each point of a call that uses descriptors.         *)
DupArgs(c) == c.old \in Fds /\ c.new \in Fds
Control(p) ==
    /\ p \notin alive => Eff(p) = "user" /\ FreeFds(p) = Fds
    /\ Eff(p) \in {"user", "pipe1", "pipe2", "pipe3"} => loc[p].call.name = "none"
    /\ loc[p].call.name = "open" \/ Eff(p) = "pipe1" => FreeFds(p) # {}
    /\ Eff(p) \in {"pipe2", "pipe3", "ffree"} => Bare(p, loc[p].fd)
    /\ Eff(p) = "pipe3" => Bare(p, loc[p].no) /\ loc[p].no # loc[p].fd
    /\ Eff(p) = "ffree" => loc[p].call.name \in {"none", "dup2", "exit"}
    /\ loc[p].call.name \in {"dup", "dup2"} => DupArgs(loc[p].call)
    /\ Eff(p) \in {"dup2", "dupfd"} => loc[p].call.name \in {"dup", "dup2"}
    /\ Eff(p) = "dup2" => loc[p].call.name = "dup2"
    /\ Eff(p) = "exit" => loc[p].call.name = "exit"
    /\ Eff(p) = "gone" => FreeFds(p) = Fds

FcbInv ==
    /\ LocalsOK /\ FilesOK
    /\ fdtable \in [Procs -> [Fds -> Fcbs \cup {-1}]]
    /\ idle \in Seq(Fcbs) /\ alive \in SUBSET Procs
    /\ \A i, j \in DOMAIN idle : idle[i] = idle[j] => i = j
    /\ idle # <<>> => fwait = {}
    /\ \A f \in Fcbs : FcbState(f)
    /\ \A p \in Procs : Control(p)
-----------------------------------------------------------------------------
(* The places are finitely many.                                           *)
LEMMA PlacesFinite == IsFiniteSet(Places)
<1>1. IsFiniteSet(Fcbs) /\ IsFiniteSet(Procs)
  BY FilesAssumption, FS_Interval DEF Fcbs
<1>2. /\ IsFiniteSet({"file"}) /\ IsFiniteSet({"cwd"})
      /\ IsFiniteSet(RefVars)
  <2>1. IsFiniteSet({"cur"}) /\ IsFiniteSet({"file"}) /\ IsFiniteSet({"cwd"})
    BY FS_Singleton
  <2>2. IsFiniteSet({"cur"} \cup {"par"})
    BY <2>1, FS_AddElement
  <2>3. IsFiniteSet(({"cur"} \cup {"par"}) \cup {"obj"})
    BY <2>2, FS_AddElement
  <2>4. IsFiniteSet((({"cur"} \cup {"par"}) \cup {"obj"}) \cup {"dead"})
    BY <2>3, FS_AddElement
  <2>5. RefVars = (({"cur"} \cup {"par"}) \cup {"obj"}) \cup {"dead"}
    BY DEF RefVars
  <2> QED BY <2>1, <2>4, <2>5
<1>3. /\ IsFiniteSet({"file"} \X Fcbs) /\ IsFiniteSet({"cwd"} \X Procs)
      /\ IsFiniteSet(RefVars \X Procs)
  BY <1>1, <1>2, FS_Product
<1> QED BY <1>3, FS_Union DEF Places

(* A step that lets one place x name another slot, makes some of the other *)
(* places name none, and books the change of x on the counts.              *)
LEMMA OnePlace ==
  ASSUME NEW H, NEW K, NEW sl, NEW tl, NEW x \in Places,
         TableOK(sl), TableOK(tl), Covers(H, sl),
         \A h \in Places \ {x} : K[h] = H[h] \/ K[h] \notin Slots,
         \A s \in Slots : tl[s].count >= sl[s].count
             + (IF K[x] = s THEN 1 ELSE 0) - (IF H[x] = s THEN 1 ELSE 0)
  PROVE  Covers(K, tl)
<1> SUFFICES ASSUME NEW s \in Slots
             PROVE  tl[s].count >= Cardinality({h \in Places : K[h] = s})
  BY DEF Covers
<1> DEFINE A == {h \in Places : H[h] = s}
           B == {h \in Places : K[h] = s}
<1>1. IsFiniteSet(A) /\ IsFiniteSet(B) /\ A \subseteq Places /\ B \subseteq Places
  BY PlacesFinite, FS_Subset
<1>2. /\ sl[s].count >= Cardinality(A) /\ sl[s].count \in Int /\ tl[s].count \in Int
      /\ tl[s].count >= sl[s].count
             + (IF K[x] = s THEN 1 ELSE 0) - (IF H[x] = s THEN 1 ELSE 0)
  BY DEF Covers, TableOK
<1>3. B \ {x} \subseteq A \ {x}
  OBVIOUS
<1>4. (x \in A <=> H[x] = s) /\ (x \in B <=> K[x] = s)
  OBVIOUS
<1> HIDE DEF A, B
<1>5. /\ Cardinality(A \ {x}) = IF x \in A THEN Cardinality(A) - 1 ELSE Cardinality(A)
      /\ Cardinality(B \ {x}) = IF x \in B THEN Cardinality(B) - 1 ELSE Cardinality(B)
      /\ IsFiniteSet(A \ {x})
  BY <1>1, FS_RemoveElement
<1>6. Cardinality(B \ {x}) <= Cardinality(A \ {x})
  BY <1>3, <1>5, FS_Subset
<1>7. Cardinality(A) \in Nat /\ Cardinality(B) \in Nat
  BY <1>1, FS_CardinalityType
<1>8. tl[s].count >= Cardinality(B)
  BY <1>2, <1>4, <1>5, <1>6, <1>7
<1> QED BY <1>8 DEF B

(* A step after which some places name no slot any more.                   *)
LEMMA FewerPlaces ==
  ASSUME NEW H, NEW K, NEW sl, NEW tl,
         TableOK(sl), TableOK(tl), Covers(H, sl),
         \A h \in Places : K[h] = H[h] \/ K[h] \notin Slots,
         \A s \in Slots : tl[s].count >= sl[s].count
  PROVE  Covers(K, tl)
<1> SUFFICES ASSUME NEW s \in Slots
             PROVE  tl[s].count >= Cardinality({h \in Places : K[h] = s})
  BY DEF Covers
<1> DEFINE A == {h \in Places : H[h] = s}
           B == {h \in Places : K[h] = s}
<1>1. IsFiniteSet(A) /\ B \subseteq A
  BY PlacesFinite, FS_Subset
<1>2. Cardinality(B) <= Cardinality(A) /\ Cardinality(A) \in Nat /\ Cardinality(B) \in Nat
  BY <1>1, FS_Subset, FS_CardinalityType
<1>3. /\ sl[s].count >= Cardinality(A) /\ sl[s].count \in Int /\ tl[s].count \in Int
      /\ tl[s].count >= sl[s].count
  BY DEF Covers, TableOK
<1> QED BY <1>2, <1>3

(* Places are counted by what they belong to.                              *)
LEMMA Tagged ==
  ASSUME NEW S, NEW T, IsFiniteSet(T), NEW b \in [T -> S],
         \A x, y \in T : b[x] = b[y] => x = y,
         \A u \in S : \E x \in T : b[x] = u
  PROVE  Cardinality(S) = Cardinality(T)
<1>1. b \in Bijection(T, S)
  BY Fun_IsBij
<1> QED BY <1>1, FS_Bijection DEF ExistsBijection

(* What the model counts is what the places name.                          *)
LEMMA RefsAreHeld ==
  ASSUME NEW s \in Slots
  PROVE  Refs(s) = Cardinality({h \in Places : Held[h] = s})
<1> DEFINE A == {f \in Fcbs : files[f].count > 0 /\ files[f].inode = s}
           B == {p \in Procs : icwd[p] = s}
           C == {pv \in Procs \X RefVars :
                   loc[pv[1]][pv[2]] = s /\ pc[pv[1]] \notin {"size", "dents"}}
           X == {h \in {"file"} \X Fcbs : Held[h] = s}
           Y == {h \in {"cwd"} \X Procs : Held[h] = s}
           Z == {h \in RefVars \X Procs : Held[h] = s}
           H == {h \in Places : Held[h] = s}
<1>1. /\ H = X \cup (Y \cup Z) /\ Y \cap Z = {} /\ X \cap (Y \cup Z) = {}
      /\ X \subseteq Places /\ Y \subseteq Places /\ Z \subseteq Places
  BY DEF Places, RefVars
<1>2. IsFiniteSet(X) /\ IsFiniteSet(Y) /\ IsFiniteSet(Z)
  BY <1>1, PlacesFinite, FS_Subset
<1>3. Cardinality(X) = Cardinality(A)
  <2>1. \A f \in Fcbs : <<"file", f>> \in X <=> f \in A
    BY FilesAssumption DEF Held, Named, Places
  <2>2. \A h \in X : h[2] \in A /\ h = <<"file", h[2]>>
    <3>1. \A h \in X : h[2] \in Fcbs /\ h = <<"file", h[2]>>
      OBVIOUS
    <3> QED BY <3>1, <2>1
  <2>3. \A f \in A : <<"file", f>> \in X
    BY Zenon, <2>1
  <2> HIDE DEF X, A
  <2> DEFINE b == [h \in X |-> h[2]]
  <2>4. \A u \in A : \E x \in X : b[x] = u
    BY <2>3
  <2>5. \A x, y \in X : b[x] = b[y] => x = y
    BY <2>2
  <2>6. b \in [X -> A]
    BY <2>2
  <2> HIDE DEF b
  <2> QED BY <2>4, <2>5, <2>6, <1>2, Tagged
<1>4. Cardinality(Y) = Cardinality(B)
  <2>1. \A p \in Procs : <<"cwd", p>> \in Y <=> p \in B
    BY FilesAssumption DEF Held, Named, Places
  <2>2. \A h \in Y : h[2] \in B /\ h = <<"cwd", h[2]>>
    <3>1. \A h \in Y : h[2] \in Procs /\ h = <<"cwd", h[2]>>
      OBVIOUS
    <3> QED BY <3>1, <2>1
  <2>3. \A p \in B : <<"cwd", p>> \in Y
    BY Zenon, <2>1
  <2> HIDE DEF Y, B
  <2> DEFINE b == [h \in Y |-> h[2]]
  <2>4. \A u \in B : \E x \in Y : b[x] = u
    BY <2>3
  <2>5. \A x, y \in Y : b[x] = b[y] => x = y
    BY <2>2
  <2>6. b \in [Y -> B]
    BY <2>2
  <2> HIDE DEF b
  <2> QED BY <2>4, <2>5, <2>6, <1>2, Tagged
<1>5. Cardinality(Z) = Cardinality(C)
  <2>1. \A p \in Procs, v \in RefVars : <<v, p>> \in Z <=> <<p, v>> \in C
    BY FilesAssumption DEF Held, Named, Places, RefVars
  <2>2. \A h \in Z : <<h[2], h[1]>> \in C /\ h = <<h[1], h[2]>>
    <3>1. \A h \in Z : h[1] \in RefVars /\ h[2] \in Procs /\ h = <<h[1], h[2]>>
      OBVIOUS
    <3> QED BY <3>1, <2>1
  <2>3. \A u \in C : u = <<u[1], u[2]>> /\ <<u[2], u[1]>> \in Z
    <3>1. \A u \in C : u[1] \in Procs /\ u[2] \in RefVars /\ u = <<u[1], u[2]>>
      OBVIOUS
    <3> QED BY <3>1, <2>1
  <2> HIDE DEF Z, C
  <2> DEFINE b == [h \in Z |-> <<h[2], h[1]>>]
  <2>4. \A u \in C : \E x \in Z : b[x] = u
    <3> TAKE u \in C
    <3>1. b[<<u[2], u[1]>>] = <<u[1], u[2]>>
      BY <2>3
    <3> QED BY <3>1, <2>3
  <2>5. \A x, y \in Z : b[x] = b[y] => x = y
    <3> TAKE x, y \in Z
    <3>1. b[x] = <<x[2], x[1]>> /\ b[y] = <<y[2], y[1]>>
      OBVIOUS
    <3> QED BY <3>1, <2>2
  <2>6. b \in [Z -> C]
    BY <2>2
  <2> HIDE DEF b
  <2> QED BY <2>4, <2>5, <2>6, <1>2, Tagged
<1> HIDE DEF A, B, C, X, Y, Z, H
<1>6. Cardinality(Y \cup Z) = Cardinality(Y) + Cardinality(Z) /\ IsFiniteSet(Y \cup Z)
  <2>1. Cardinality(Y \cap Z) = 0
    BY <1>1, FS_EmptySet
  <2>2. /\ IsFiniteSet(Y \cup Z)
        /\ Cardinality(Y \cup Z) = Cardinality(Y) + Cardinality(Z) - Cardinality(Y \cap Z)
    BY <1>2, FS_Union
  <2> QED BY <1>2, <2>1, <2>2, FS_CardinalityType
<1>7. Cardinality(H) = Cardinality(X) + Cardinality(Y \cup Z)
  <2>1. Cardinality(X \cap (Y \cup Z)) = 0
    BY <1>1, FS_EmptySet
  <2>2. Cardinality(X \cup (Y \cup Z))
          = Cardinality(X) + Cardinality(Y \cup Z) - Cardinality(X \cap (Y \cup Z))
    BY <1>2, <1>6, FS_Union
  <2> QED BY <1>1, <1>2, <1>6, <2>1, <2>2, FS_CardinalityType
<1>8. Refs(s) = Cardinality(A) + Cardinality(B) + Cardinality(C)
  BY DEF Refs, A, B, C, RefVars
<1> QED BY <1>2, <1>3, <1>4, <1>5, <1>6, <1>7, <1>8, FS_CardinalityType DEF H
-----------------------------------------------------------------------------
(* A set of slots has a lowest one.                                        *)
LEMMA LowestExists ==
  ASSUME NEW S \in SUBSET Nat, S # {}
  PROVE  \E x \in S : \A y \in S : x <= y
<1>1. IsWellFoundedOn(OpToRel(<, Nat), Nat)
  BY Zenon, NatLessThanWellFounded
<1>2. \E x \in S : \A y \in S : ~(<<y, x>> \in OpToRel(<, Nat))
  BY Zenon, <1>1, WFMin
<1>3. PICK x \in S : \A y \in S : ~(y < x)
  BY <1>2 DEF OpToRel
<1> QED BY <1>3

(* Reading an inode changes neither whose slot it is nor its count.        *)
LEMMA LoadedKeeps ==
  ASSUME NEW sl, NEW s, TableOK(sl)
  PROVE  TableOK(Loaded(sl, s)) /\ Alike(Loaded(sl, s), sl)
BY DEF Loaded, TableOK, Alike, SlotFields

(* A count that goes down changes one count.                               *)
LEMMA LessKeeps ==
  ASSUME NEW sl, NEW s, TableOK(sl)
  PROVE  /\ TableOK(Less(sl, s))
         /\ \A t \in Slots : /\ Less(sl, s)[t].dev = sl[t].dev
                             /\ Less(sl, s)[t].no = sl[t].no
         /\ \A t \in Slots : Less(sl, s)[t].count
                                = sl[t].count - (IF t = s THEN 1 ELSE 0)
BY DEF Less, TableOK, SlotFields

(* Tables with the same inodes have them in as many slots.                 *)
LEMMA OneSlotKept ==
  ASSUME NEW sl, NEW tl, OneSlotIn(sl),
         \A t \in Slots : tl[t].dev = sl[t].dev /\ tl[t].no = sl[t].no
  PROVE  OneSlotIn(tl)
BY DEF OneSlotIn

(* iget() counts one reference more in one slot, and gives the slot to the *)
(* inode only after no other slot was found to have it.                    *)
LEMMA GotOne ==
  ASSUME NEW n, NEW clean, TableOK(slot), OneSlotIn(slot)
  PROVE  /\ TableOK(Got(n, clean)) /\ OneSlotIn(Got(n, clean))
         /\ \A t \in Slots : Got(n, clean)[t].count
               = slot[t].count + (IF t = Lowest(Found(n)) THEN 1 ELSE 0)
<1> DEFINE u == Lowest(Found(n))
           tl == Got(n, clean)
<1>1. CASE slot[u].dev = 1 /\ slot[u].no = n
  <2>1. tl = [slot EXCEPT ![u].count = @ + 1]
    BY <1>1 DEF Got
  <2> HIDE DEF tl, u
  <2>2. /\ TableOK(tl)
        /\ \A t \in Slots : /\ tl[t].dev = slot[t].dev /\ tl[t].no = slot[t].no
                            /\ tl[t].count = slot[t].count + (IF t = u THEN 1 ELSE 0)
    BY <2>1 DEF TableOK, SlotFields
  <2>3. OneSlotIn(tl)
    BY <2>2, OneSlotKept
  <2> QED BY <2>2, <2>3 DEF tl, u
<1>2. CASE ~(slot[u].dev = 1 /\ slot[u].no = n)
  <2>1. tl = [slot EXCEPT ![u].dev = 1, ![u].no = n, ![u].count = @ + 1,
                          ![u].valid = clean]
    BY <1>2 DEF Got
  <2>2. u \in Slots => Cached(n) = {}
    <3> SUFFICES ASSUME Cached(n) # {}, u \in Slots PROVE FALSE
      OBVIOUS
    <3>1. Found(n) = Cached(n)
      BY DEF Found
    <3>2. u \in Cached(n)
      <4>1. Cached(n) \subseteq 1 .. NINODE /\ NINODE \in Nat
        BY FilesAssumption DEF Cached, Slots
      <4>2. \E x \in Cached(n) : \A y \in Cached(n) : x <= y
        BY <4>1, LowestExists DEF Slots
      <4> QED BY <3>1, <4>2 DEF Lowest
    <3> QED BY <3>2, <1>2 DEF Cached
  <2> HIDE DEF tl, u
  <2>3. /\ TableOK(tl)
        /\ \A t \in Slots : tl[t].count = slot[t].count + (IF t = u THEN 1 ELSE 0)
        /\ \A t \in Slots \ {u} : tl[t].dev = slot[t].dev /\ tl[t].no = slot[t].no
        /\ u \in Slots => tl[u].dev = 1 /\ tl[u].no = n
    BY <2>1 DEF TableOK, SlotFields
  <2>4. OneSlotIn(tl)
    BY <2>2, <2>3 DEF OneSlotIn, Cached
  <2> QED BY <2>3, <2>4 DEF tl, u
<1> QED BY <1>1, <1>2

(* iput() leaves the inodes where they are.                                *)
LEMMA PutKeeps ==
  ASSUME NEW p \in Procs, NEW sl, NEW mx, NEW s, NEW k, NEW l,
         Put(p, sl, mx, s, k, l), TableOK(sl), OneSlotIn(sl),
         LocalsOK, DOMAIN k = LocFields, DOMAIN icwd' = Procs
  PROVE  TableOK(slot') /\ OneSlotIn(slot') /\ LocalsOK'
<1>1. slot' = sl \/ slot' = Less(sl, s)
  BY DEF Put, Less
<1>2. TableOK(slot') /\ OneSlotIn(slot')
  BY <1>1, LessKeeps, OneSlotKept
<1>3. LocalsOK'
  BY DEF Put, LocalsOK, LocFields, Goto
<1> QED BY <1>2, <1>3

(* iput() of slot s by p, which goes on with locals k: the counts cover    *)
(* the references if they do with k in place and one count less at s; the  *)
(* last reference to a dying inode moves to the variable dead.             *)
LEMMA PutCovers ==
  ASSUME NEW p \in Procs, NEW sl, NEW mx, NEW s, NEW k, NEW l, NEW H,
         Put(p, sl, mx, s, k, l), TableOK(sl), LocalsOK, DOMAIN k = LocFields,
         Covers(H, Less(sl, s)),
         \A v \in RefVars : H[<<v, p>>] = k[v],
         \A h \in Places : (h[1] \in RefVars /\ h[2] = p) \/ Held'[h] = H[h]
  PROVE  Covers(Held', slot')
<1>1. /\ TableOK(Less(sl, s))
      /\ \A t \in Slots : Less(sl, s)[t].count = sl[t].count - (IF t = s THEN 1 ELSE 0)
  BY LessKeeps
<1>2. \A v \in RefVars : <<v, p>> \in Places
  BY DEF Places
<1>3. \A v \in RefVars :
         Held'[<<v, p>>] = IF pc'[p] \in {"size", "dents"} THEN None ELSE loc'[p][v]
  BY <1>2 DEF Held, Named, RefVars
<1>4. None \notin Slots
  BY FilesAssumption
<1>5. CASE Dying(sl[s])
  <2>1. /\ slot' = sl /\ pc'[p] = "ifree"
        /\ loc'[p].dead = s /\ \A v \in RefVars \ {"dead"} : loc'[p][v] = k[v]
    BY <1>5 DEF Put, Goto, LocalsOK, LocFields, RefVars
  <2>2. Held'[<<"dead", p>>] = s
    BY <1>3, <2>1 DEF RefVars
  <2>3. \A h \in Places \ {<<"dead", p>>} : Held'[h] = H[h]
    <3> TAKE h \in Places \ {<<"dead", p>>}
    <3>1. CASE h[1] \in RefVars /\ h[2] = p
      <4>1. h = <<h[1], p>> /\ h[1] \in RefVars \ {"dead"}
        BY <3>1 DEF Places
      <4> QED BY <4>1, <1>3, <2>1
    <3> QED BY <3>1
  <2>4. <<"dead", p>> \in Places
    BY <1>2 DEF RefVars
  <2>5. \A t \in Slots : sl[t].count >= Less(sl, s)[t].count
             + (IF Held'[<<"dead", p>>] = t THEN 1 ELSE 0)
             - (IF H[<<"dead", p>>] = t THEN 1 ELSE 0)
    <3> TAKE t \in Slots
    <3>1. sl[t].count \in Int
      BY DEF TableOK
    <3> QED BY <3>1, <1>1, <2>2
  <2>6. Covers(Held', sl)
    BY <1>1, <2>3, <2>4, <2>5, OnePlace
  <2> QED BY <2>1, <2>6
<1>6. CASE ~Dying(sl[s])
  <2>1. slot' = Less(sl, s) /\ loc'[p] = k
    BY <1>6 DEF Put, Less, LocalsOK
  <2>2. \A h \in Places : Held'[h] = H[h] \/ Held'[h] \notin Slots
    <3> TAKE h \in Places
    <3>1. CASE h[1] \in RefVars /\ h[2] = p
      <4>1. h = <<h[1], p>>
        BY <3>1 DEF Places
      <4> QED BY <3>1, <4>1, <1>3, <1>4, <2>1
    <3> QED BY <3>1
  <2>3. \A t \in Slots : Less(sl, s)[t].count >= Less(sl, s)[t].count
    BY <1>1 DEF TableOK
  <2>4. Covers(Held', Less(sl, s))
    BY <1>1, <2>2, <2>3, FewerPlaces
  <2> QED BY <2>1, <2>4
<1> QED BY <1>5, <1>6
-----------------------------------------------------------------------------
(* What the variables of a call name.                                      *)
LEMMA HeldVar ==
  ASSUME NEW q \in Procs, NEW v \in RefVars
  PROVE  /\ <<v, q>> \in Places
         /\ Held[<<v, q>>] = IF pc[q] \in {"size", "dents"} THEN None ELSE loc[q][v]
         /\ Held'[<<v, q>>] = IF pc'[q] \in {"size", "dents"} THEN None ELSE loc'[q][v]
<1>1. <<v, q>> \in Places /\ v # "file" /\ v # "cwd"
  BY DEF Places, RefVars
<1> QED BY <1>1 DEF Held, Named

(* A step in which only p moves changes the variables of p.                *)
LEMMA HeldSame ==
  ASSUME NEW p \in Procs, UNCHANGED <<files, icwd>>,
         \A q \in Procs \ {p} : loc'[q] = loc[q] /\ pc'[q] = pc[q],
         NEW h \in Places
  PROVE  (h[1] \in RefVars /\ h[2] = p) \/ Held'[h] = Held[h]
<1>1. CASE h[1] = "file"
  BY <1>1 DEF Held, Named
<1>2. CASE h[1] = "cwd"
  BY <1>2 DEF Held, Named
<1>3. CASE h[1] \in RefVars
  <2>1. h = <<h[1], h[2]>> /\ h[2] \in Procs
    BY <1>3 DEF Places, RefVars
  <2> QED BY <2>1, <1>3, HeldVar
<1> QED BY <1>1, <1>2, <1>3 DEF Places

(* p does something without a change of references, or drops some.         *)
LEMMA KeepStep ==
  ASSUME TableInv, NEW p \in Procs, TableOK(slot'), Alike(slot', slot),
         LocalsOK', UNCHANGED <<files, icwd>>,
         \A q \in Procs \ {p} : loc'[q] = loc[q] /\ pc'[q] = pc[q],
         \A v \in RefVars : loc'[p][v] = loc[p][v] \/ loc'[p][v] \notin Slots,
         pc[p] \notin {"size", "dents"} \/ \A v \in RefVars : loc'[p][v] \notin Slots
  PROVE  TableInv'
<1>1. None \notin Slots
  BY FilesAssumption
<1>2. \A h \in Places : Held'[h] = Held[h] \/ Held'[h] \notin Slots
  <2> TAKE h \in Places
  <2>1. CASE h[1] \in RefVars /\ h[2] = p
    <3>1. h = <<h[1], p>>
      BY <2>1 DEF Places
    <3> QED BY <2>1, <3>1, <1>1, HeldVar
  <2> QED BY <2>1, HeldSame
<1>3. Covers(Held', slot')
  <2>1. \A t \in Slots : slot'[t].count >= slot[t].count
    BY DEF Alike, TableInv, TableOK
  <2> QED BY <1>2, <2>1, FewerPlaces DEF TableInv
<1>4. OneSlotIn(slot')
  BY OneSlotKept DEF TableInv, OneSlotPerInode, OneSlotIn, Alike
<1>5. FilesOK'
  BY DEF TableInv, FilesOK
<1> QED BY <1>3, <1>4, <1>5 DEF TableInv, OneSlotPerInode, OneSlotIn

(* p takes a reference to slot u into its variable cur.                    *)
LEMMA TakeStep ==
  ASSUME TableInv, NEW p \in Procs, NEW u, TableOK(slot'), OneSlotIn(slot'),
         LocalsOK', UNCHANGED <<files, icwd>>,
         \A t \in Slots : slot'[t].count = slot[t].count + (IF t = u THEN 1 ELSE 0),
         \A q \in Procs \ {p} : loc'[q] = loc[q] /\ pc'[q] = pc[q],
         loc'[p].cur = u, pc[p] \notin {"size", "dents"},
         \A v \in RefVars \ {"cur"} : loc'[p][v] = loc[p][v] \/ loc'[p][v] \notin Slots
  PROVE  TableInv'
<1> DEFINE x == <<"cur", p>>
<1>1. None \notin Slots /\ "cur" \in RefVars /\ x \in Places
  BY FilesAssumption, HeldVar DEF RefVars
<1>2. \A h \in Places \ {x} : Held'[h] = Held[h] \/ Held'[h] \notin Slots
  <2> TAKE h \in Places \ {x}
  <2>1. CASE h[1] \in RefVars /\ h[2] = p
    <3>1. h = <<h[1], p>> /\ h[1] # "cur"
      BY <2>1 DEF Places
    <3> QED BY <2>1, <3>1, <1>1, HeldVar
  <2> QED BY <2>1, HeldSame
<1>3. Held'[x] = u \/ Held'[x] = None
  BY <1>1, HeldVar
<1>4. \A t \in Slots : slot'[t].count >= slot[t].count
         + (IF Held'[x] = t THEN 1 ELSE 0) - (IF Held[x] = t THEN 1 ELSE 0)
  BY <1>1, <1>3 DEF TableInv, TableOK
<1>5. Covers(Held', slot')
  <2>1. TableOK(slot) /\ Covers(Held, slot)
    BY DEF TableInv
  <2> HIDE DEF x
  <2>2. PICK K, tl : K = Held' /\ tl = slot'
    OBVIOUS
  <2>3. /\ TableOK(tl) /\ x \in Places
        /\ \A h \in Places \ {x} : K[h] = Held[h] \/ K[h] \notin Slots
        /\ \A t \in Slots : tl[t].count >= slot[t].count
               + (IF K[x] = t THEN 1 ELSE 0) - (IF Held[x] = t THEN 1 ELSE 0)
    BY <1>1, <1>2, <1>4, <2>2
  <2>4. Covers(K, tl)
    BY <2>1, <2>3, OnePlace
  <2> QED BY <2>2, <2>4
<1>6. FilesOK'
  BY DEF TableInv, FilesOK
<1> QED BY <1>5, <1>6 DEF TableInv, OneSlotPerInode, OneSlotIn

(* p moves the reference in cur to another variable w and may take one to  *)
(* slot u into cur.                                                        *)
LEMMA MoveStep ==
  ASSUME TableInv, NEW p \in Procs, NEW u, NEW w \in RefVars \ {"cur"},
         TableOK(slot'), OneSlotIn(slot'),
         LocalsOK', UNCHANGED <<files, icwd>>,
         \A t \in Slots : slot'[t].count = slot[t].count + (IF t = u THEN 1 ELSE 0),
         \A q \in Procs \ {p} : loc'[q] = loc[q] /\ pc'[q] = pc[q],
         loc'[p].cur = u, loc'[p][w] = loc[p].cur, pc[p] \notin {"size", "dents"},
         \A v \in RefVars \ {"cur", w} :
            loc'[p][v] = loc[p][v] \/ loc'[p][v] \notin Slots
  PROVE  TableInv'
<1> DEFINE x == <<"cur", p>>
           y == <<w, p>>
           s == loc[p].cur
           H == [Held EXCEPT ![x] = u]
           sl == Less(slot', s)
<1>1. /\ None \notin Slots /\ "cur" \in RefVars /\ w \in RefVars
      /\ x \in Places /\ y \in Places /\ x # y
  BY FilesAssumption, HeldVar DEF RefVars
<1>2. \A h \in Places \ {x, y} : Held'[h] = Held[h] \/ Held'[h] \notin Slots
  <2> TAKE h \in Places \ {x, y}
  <2>1. CASE h[1] \in RefVars /\ h[2] = p
    <3>1. h = <<h[1], p>> /\ h[1] \notin {"cur", w}
      BY <2>1 DEF Places
    <3> QED BY <2>1, <3>1, <1>1, HeldVar
  <2> QED BY <2>1, HeldSame
<1>3. /\ Held[x] = s
      /\ Held'[x] = u \/ Held'[x] = None
      /\ Held'[y] = s \/ Held'[y] = None
  BY <1>1, HeldVar
<1>4. /\ TableOK(sl)
      /\ \A t \in Slots : sl[t].count = slot'[t].count - (IF t = s THEN 1 ELSE 0)
  BY LessKeeps
<1>5. H[x] = u /\ \A h \in Places \ {x} : H[h] = Held[h]
  BY <1>1 DEF Held
<1> HIDE DEF x, y, s, H, sl
<1>6. \A t \in Slots : slot[t].count \in Int /\ slot'[t].count \in Int
  BY DEF TableInv, TableOK
<1>7. \A t \in Slots : sl[t].count >= slot[t].count
         + (IF H[x] = t THEN 1 ELSE 0) - (IF Held[x] = t THEN 1 ELSE 0)
  BY <1>3, <1>4, <1>5, <1>6
<1>8. Covers(H, sl)
  BY <1>1, <1>4, <1>5, <1>7, OnePlace DEF TableInv
<1>9. \A h \in Places \ {y} : Held'[h] = H[h] \/ Held'[h] \notin Slots
  BY <1>1, <1>2, <1>3, <1>5
<1>10. \A t \in Slots : slot'[t].count >= sl[t].count
         + (IF Held'[y] = t THEN 1 ELSE 0) - (IF H[y] = t THEN 1 ELSE 0)
  BY <1>1, <1>3, <1>4, <1>6
<1>11. Covers(Held', slot')
  <2>1. TableOK(slot') /\ TableOK(sl) /\ y \in Places
    BY <1>1, <1>4
  <2> QED BY <1>8, <1>9, <1>10, <2>1, OnePlace
<1>12. FilesOK'
  BY DEF TableInv, FilesOK
<1> QED BY <1>11, <1>12 DEF TableInv, OneSlotPerInode, OneSlotIn
-----------------------------------------------------------------------------
(* The places once p has the locals k.                                     *)
With(p, k) ==
    [h \in Places |-> IF h[1] \in RefVars /\ h[2] = p THEN k[h[1]] ELSE Held[h]]

(* What With() gives to each place.                                        *)
LEMMA WithVar ==
  ASSUME NEW p \in Procs, NEW k
  PROVE  /\ \A v \in RefVars : <<v, p>> \in Places /\ With(p, k)[<<v, p>>] = k[v]
         /\ \A h \in Places : (h[1] \in RefVars /\ h[2] = p) \/ With(p, k)[h] = Held[h]
         /\ \A h \in Places, v \in RefVars :
              h[1] \in RefVars /\ h[2] = p /\ h # <<v, p>> => h[1] # v
         /\ \A h \in Places :
              h[1] \in RefVars /\ h[2] = p => With(p, k)[h] = k[h[1]]
<1>1. \A v \in RefVars : <<v, p>> \in Places /\ With(p, k)[<<v, p>>] = k[v]
  BY HeldVar DEF With
<1>2. \A h \in Places : h[1] \in RefVars /\ h[2] = p => h = <<h[1], p>>
  BY DEF Places
<1>3. \A h \in Places : (h[1] \in RefVars /\ h[2] = p) \/ With(p, k)[h] = Held[h]
  BY DEF With
<1>4. \A h \in Places : h[1] \in RefVars /\ h[2] = p => With(p, k)[h] = k[h[1]]
  BY DEF With
<1> QED BY <1>1, <1>2, <1>3, <1>4

(* iput() when only p moves: enough that the counts cover the references   *)
(* with the locals k in place and one count less at s.                     *)
LEMMA PutStep ==
  ASSUME TableInv, NEW p \in Procs, NEW sl, NEW mx, NEW s, NEW k, NEW l,
         Put(p, sl, mx, s, k, l), TableOK(sl), OneSlotIn(sl), DOMAIN k = LocFields,
         UNCHANGED <<files, icwd>>, Covers(With(p, k), Less(sl, s))
  PROVE  TableInv'
<1>1. LocalsOK /\ DOMAIN icwd' = Procs
  BY DEF TableInv, LocalsOK
<1>2. TableOK(slot') /\ OneSlotIn(slot') /\ LocalsOK'
  BY <1>1, PutKeeps
<1>3. \A q \in Procs \ {p} : loc'[q] = loc[q] /\ pc'[q] = pc[q]
  BY <1>1 DEF Put, Goto, LocalsOK
<1>4. \A h \in Places : (h[1] \in RefVars /\ h[2] = p) \/ Held'[h] = With(p, k)[h]
  BY <1>3, HeldSame, WithVar
<1>5. Covers(Held', slot')
  <2>1. PICK H : H = With(p, k)
    OBVIOUS
  <2>2. /\ Covers(H, Less(sl, s))
        /\ \A v \in RefVars : H[<<v, p>>] = k[v]
        /\ \A h \in Places : (h[1] \in RefVars /\ h[2] = p) \/ Held'[h] = H[h]
    BY <1>4, <2>1, WithVar
  <2> QED BY <1>1, <2>2, PutCovers
<1>6. FilesOK'
  BY DEF TableInv, FilesOK
<1> QED BY <1>2, <1>5, <1>6 DEF TableInv, OneSlotPerInode, OneSlotIn

(* iput() of the slot that variable v of p names, which p then forgets.    *)
LEMMA PutOwn ==
  ASSUME TableInv, NEW p \in Procs, NEW sl, NEW mx, NEW v \in RefVars, NEW k, NEW l,
         Put(p, sl, mx, loc[p][v], k, l), TableOK(sl), OneSlotIn(sl),
         \A t \in Slots : sl[t].count = slot[t].count,
         DOMAIN k = LocFields, UNCHANGED <<files, icwd>>,
         pc[p] \notin {"size", "dents"}, k[v] \notin Slots,
         \A w \in RefVars : k[w] = loc[p][w] \/ k[w] \notin Slots
  PROVE  TableInv'
<1> DEFINE s == loc[p][v]
           x == <<v, p>>
           tl == Less(sl, s)
           H == With(p, k)
<1>1. /\ TableOK(tl) /\ OneSlotIn(sl)
      /\ \A t \in Slots : tl[t].count = slot[t].count - (IF t = s THEN 1 ELSE 0)
  BY LessKeeps
<1>2. x \in Places /\ Held[x] = s /\ H[x] \notin Slots
  BY HeldVar, WithVar
<1>3. \A h \in Places \ {x} : H[h] = Held[h] \/ H[h] \notin Slots
  <2> TAKE h \in Places \ {x}
  <2>1. CASE h[1] \in RefVars /\ h[2] = p
    <3>1. h = <<h[1], p>>
      BY <2>1 DEF Places
    <3>2. H[h] = k[h[1]] /\ Held[h] = loc[p][h[1]]
      BY <2>1, <3>1, HeldVar, WithVar
    <3> QED BY <2>1, <3>2
  <2> QED BY <2>1, WithVar
<1>4. Covers(H, tl)
  <2> HIDE DEF H, tl, x, s
  <2>1. TableOK(slot) /\ Covers(Held, slot)
    BY DEF TableInv
  <2>2. \A t \in Slots : tl[t].count >= slot[t].count
         + (IF H[x] = t THEN 1 ELSE 0) - (IF Held[x] = t THEN 1 ELSE 0)
    BY <1>1, <1>2, <2>1 DEF TableOK
  <2>3. TableOK(tl) /\ x \in Places
    BY <1>1, <1>2
  <2> QED BY <1>3, <2>1, <2>2, <2>3, OnePlace
<1> QED BY <1>1, <1>4, PutStep

(* iget() of n into cur, then iput() of the slot in v, which p forgets     *)
(* (unless v is cur itself).                                               *)
LEMMA PutTake ==
  ASSUME TableInv, NEW p \in Procs, NEW n, NEW mx, NEW v \in RefVars, NEW k, NEW l,
         Put(p, Got(n, FALSE), mx, loc[p][v], k, l),
         DOMAIN k = LocFields, UNCHANGED <<files, icwd>>,
         pc[p] \notin {"size", "dents"}, k.cur = Lowest(Found(n)), v = "cur" \/ k[v] \notin Slots,
         \A w \in RefVars \ {"cur"} : k[w] = loc[p][w] \/ k[w] \notin Slots
  PROVE  TableInv'
<1> DEFINE u == Lowest(Found(n))
           s == loc[p][v]
           x == <<"cur", p>>
           y == <<v, p>>
           sl == Got(n, FALSE)
           tl == Less(sl, s)
           H == With(p, k)
           G == [Held EXCEPT ![x] = u]
<1>1. /\ TableOK(sl) /\ OneSlotIn(sl) /\ TableOK(tl)
      /\ \A t \in Slots : sl[t].count = slot[t].count + (IF t = u THEN 1 ELSE 0)
      /\ \A t \in Slots : tl[t].count = sl[t].count - (IF t = s THEN 1 ELSE 0)
  <2>1. TableOK(slot) /\ OneSlotIn(slot)
    BY DEF TableInv, OneSlotPerInode, OneSlotIn
  <2>2. /\ TableOK(sl) /\ OneSlotIn(sl)
        /\ \A t \in Slots : sl[t].count = slot[t].count + (IF t = u THEN 1 ELSE 0)
    BY <2>1, GotOne
  <2> HIDE DEF sl
  <2>3. /\ TableOK(tl)
        /\ \A t \in Slots : tl[t].count = sl[t].count - (IF t = s THEN 1 ELSE 0)
    BY <2>2, LessKeeps
  <2> QED BY <2>2, <2>3
<1>2. /\ "cur" \in RefVars /\ x \in Places /\ y \in Places /\ Held[y] = s
      /\ H[x] = u /\ (v = "cur" \/ H[y] \notin Slots) /\ (v = "cur" <=> x = y)
  <2>1. "cur" \in RefVars /\ (v = "cur" <=> x = y)
    BY DEF RefVars
  <2>2. x \in Places /\ y \in Places /\ Held[y] = s
    BY <2>1, HeldVar
  <2>3. H[x] = k["cur"] /\ H[y] = k[v]
    BY <2>1, WithVar
  <2> QED BY <2>1, <2>2, <2>3
<1>3. \A h \in Places \ {x, y} : H[h] = Held[h] \/ H[h] \notin Slots
  <2> TAKE h \in Places \ {x, y}
  <2>1. CASE h[1] \in RefVars /\ h[2] = p
    <3>1. h = <<h[1], p>> /\ h[1] # "cur"
      BY <2>1 DEF Places
    <3>2. H[h] = k[h[1]] /\ Held[h] = loc[p][h[1]]
      BY <2>1, <3>1, HeldVar, WithVar
    <3> QED BY <2>1, <3>1, <3>2
  <2> QED BY <2>1, WithVar
<1>4. G[x] = u /\ \A h \in Places \ {x} : G[h] = Held[h]
  BY <1>2 DEF Held
<1>5. TableOK(slot) /\ Covers(Held, slot)
  BY DEF TableInv
<1>6. Covers(H, tl)
  <2> HIDE DEF H, G, tl, sl, x, y, s, u
  <2>1. \A t \in Slots : /\ slot[t].count \in Int /\ sl[t].count \in Int
                         /\ tl[t].count \in Int
    BY <1>1, <1>5 DEF TableOK
  <2>2. CASE v = "cur"
    <3>1. \A t \in Slots : tl[t].count >= slot[t].count
         + (IF H[x] = t THEN 1 ELSE 0) - (IF Held[x] = t THEN 1 ELSE 0)
      BY <1>1, <1>2, <2>1, <2>2
    <3>2. \A h \in Places \ {x} : H[h] = Held[h] \/ H[h] \notin Slots
      BY <1>2, <1>3, <2>2
    <3>3. TableOK(slot) /\ TableOK(tl) /\ x \in Places /\ Covers(Held, slot)
      BY <1>1, <1>2, <1>5
    <3> QED BY <3>1, <3>2, <3>3, OnePlace
  <2>3. CASE v # "cur"
    <3>1. \A t \in Slots : sl[t].count >= slot[t].count
         + (IF G[x] = t THEN 1 ELSE 0) - (IF Held[x] = t THEN 1 ELSE 0)
      BY <1>1, <1>4, <2>1
    <3>2. Covers(G, sl)
      <4>1. /\ TableOK(slot) /\ TableOK(sl) /\ x \in Places /\ Covers(Held, slot)
            /\ \A h \in Places \ {x} : G[h] = Held[h] \/ G[h] \notin Slots
        BY <1>1, <1>2, <1>4, <1>5
      <4> QED BY <3>1, <4>1, OnePlace
    <3>3. G[y] = s
      BY <1>2, <1>4, <2>3
    <3>4. \A t \in Slots : tl[t].count >= sl[t].count
         + (IF H[y] = t THEN 1 ELSE 0) - (IF G[y] = t THEN 1 ELSE 0)
      BY <1>1, <1>2, <2>1, <2>3, <3>3
    <3>5. \A h \in Places \ {y} : H[h] = G[h] \/ H[h] \notin Slots
      BY <1>2, <1>3, <1>4, <2>3
    <3>6. TableOK(sl) /\ TableOK(tl) /\ y \in Places
      BY <1>1, <1>2
    <3> QED BY <3>2, <3>4, <3>5, <3>6, OnePlace
  <2> QED BY <2>2, <2>3
<1> QED BY <1>1, <1>6, PutStep
-----------------------------------------------------------------------------
(* Descriptors and fcbs                                                    *)

Dead3 == {"ifree", "itrunc", "idrop"}

(* The points of a call with a path, which say nothing about descriptors.  *)
PathPcs == {"root", "walk", "look", "oops", "parent", "cdir", "cold", "ialloc", "cnew",
            "clink", "cfail", "found", "linked", "undo", "size", "dents"}

(* Control() of a process whose descriptors, and fcbs not in use, stay.    *)
LEMMA ControlKept ==
  ASSUME FcbInv, NEW q \in Procs, fdtable'[q] = fdtable[q],
         pc'[q] = pc[q], loc'[q] = loc[q], q \in alive' <=> q \in alive,
         \A fd \in Fds : Bare(q, fd) => files'[fdtable[q][fd]].count = 0
  PROVE  Control(q)'
<1>1. Control(q)
  BY DEF FcbInv
<1>2. FreeFds(q)' = FreeFds(q)
  BY DEF FreeFds
<1>3. Eff(q)' = Eff(q)
  BY DEF Eff
<1>4. \A fd : Bare(q, fd) => Bare(q, fd)'
  BY DEF Bare
<1> HIDE DEF Bare, Eff, FreeFds
<1> QED BY <1>1, <1>2, <1>3, <1>4 DEF Control

(* A step of p that leaves descriptors and fcbs alone.                     *)
LEMMA FcbFrame ==
  ASSUME FcbInv, NEW p \in Procs, LocalsOK', Control(p)',
         UNCHANGED <<files, idle, fdtable, alive>>, fwait' = fwait \/ idle = <<>>,
         \A q \in Procs \ {p} : loc'[q] = loc[q] /\ pc'[q] = pc[q]
  PROVE  FcbInv'
<1>1. \A q \in Procs \ {p} : Control(q)'
  <2> TAKE q \in Procs \ {p}
  <2>1. \A fd \in Fds : Bare(q, fd) => files'[fdtable[q][fd]].count = 0
    BY DEF Bare
  <2> QED BY <2>1, ControlKept
<1>2. \A f \in Fcbs : FcbState(f)'
  <2> TAKE f \in Fcbs
  <2>1. FcbState(f)
    BY DEF FcbInv
  <2>2. UsersOf(f)' = UsersOf(f) /\ (IsIdle(f)' <=> IsIdle(f))
    BY DEF UsersOf, IsIdle
  <2> QED BY <2>1, <2>2 DEF FcbState
<1>3. FilesOK'
  BY DEF FcbInv, FilesOK
<1>4. idle' # <<>> => fwait' = {}
  BY DEF FcbInv
<1> QED BY <1>1, <1>2, <1>3, <1>4 DEF FcbInv

(* A step of a call with a path.                                           *)
LEMMA PathStep ==
  ASSUME FcbInv, NEW p \in alive, LocalsOK',
         UNCHANGED <<files, idle, fdtable, alive, fwait>>,
         \A q \in Procs \ {p} : loc'[q] = loc[q] /\ pc'[q] = pc[q],
         Eff(p)' \in PathPcs \/ (Eff(p)' = "user" /\ loc'[p].call.name = "none"),
         \/ loc'[p].call = loc[p].call
         \/ loc'[p].call.name \in {"none", "link2"}
         \/ /\ loc'[p].call \in PathCalls
            /\ loc'[p].call.name = "open" => FreeFds(p) # {}
  PROVE  FcbInv'
<1>1. p \in Procs /\ Control(p)
  BY DEF FcbInv
<1>2. FreeFds(p)' = FreeFds(p) /\ p \in alive'
  BY DEF FreeFds
<1>3. /\ loc'[p].call.name = "open" => FreeFds(p) # {}
      /\ loc'[p].call.name \in {"dup", "dup2"} => DupArgs(loc'[p].call)
  BY <1>1, FilesAssumption DEF Control
<1>4. Control(p)'
  BY <1>2, <1>3 DEF Control, PathPcs
<1> QED BY <1>1, <1>4, FcbFrame

(* iput() takes p to l with what the locals k say of the call.             *)
LEMMA PutControl ==
  ASSUME NEW p \in Procs, NEW sl, NEW mx, NEW s, NEW k, NEW l,
         Put(p, sl, mx, s, k, l), LocalsOK, DOMAIN k = LocFields,
         DOMAIN icwd' = Procs, l \notin Dead3
  PROVE  /\ LocalsOK' /\ Eff(p)' = l
         /\ loc'[p].call = k.call /\ loc'[p].fd = k.fd /\ loc'[p].no = k.no
         /\ \A q \in Procs \ {p} : loc'[q] = loc[q] /\ pc'[q] = pc[q]
<1>1. CASE Dying(sl[s])
  <2>1. /\ pc' = [pc EXCEPT ![p] = "ifree"]
        /\ loc' = [loc EXCEPT ![p] = [k EXCEPT !.dead = s, !.then = l]]
    BY <1>1 DEF Put, Goto
  <2>2. LocalsOK'
    BY <2>1 DEF LocalsOK, LocFields
  <2>3. pc'[p] = "ifree" /\ loc'[p].then = l
    BY <2>1 DEF LocalsOK, LocFields
  <2>4. loc'[p].call = k.call /\ loc'[p].fd = k.fd /\ loc'[p].no = k.no
    BY <2>1 DEF LocalsOK, LocFields
  <2>5. \A q \in Procs \ {p} : loc'[q] = loc[q] /\ pc'[q] = pc[q]
    BY <2>1 DEF LocalsOK
  <2> QED BY <2>2, <2>3, <2>4, <2>5 DEF Eff
<1>2. CASE ~Dying(sl[s])
  BY <1>2 DEF Put, Goto, LocalsOK, LocFields, Eff, Dead3
<1> QED BY <1>1, <1>2

(* A step of a call with a path that ends in iput().                       *)
LEMMA PathPut ==
  ASSUME FcbInv, NEW p \in alive, NEW sl, NEW mx, NEW s, NEW k, NEW l,
         Put(p, sl, mx, s, k, l), DOMAIN k = LocFields, DOMAIN icwd' = Procs,
         UNCHANGED <<files, idle, fdtable, alive, fwait>>,
         l \in PathPcs \/ (l = "user" /\ k.call.name = "none"),
         k.call = loc[p].call \/ k.call.name \in {"none", "link2"}
  PROVE  FcbInv'
<1>1. p \in Procs /\ LocalsOK
  BY DEF FcbInv
<1>2. l \notin Dead3
  BY DEF Dead3, PathPcs
<1>3. /\ LocalsOK' /\ Eff(p)' = l /\ loc'[p].call = k.call
      /\ \A q \in Procs \ {p} : loc'[q] = loc[q] /\ pc'[q] = pc[q]
  BY <1>1, <1>2, PutControl
<1> QED BY <1>3, PathStep

(* Who is in a call exists.                                                *)
LEMMA Busy ==
  ASSUME FcbInv, NEW p \in Procs, pc[p] \notin Dead3, pc[p] # "user"
  PROVE  p \in alive /\ Eff(p) = pc[p] /\ Control(p) /\ LocalsOK
BY DEF FcbInv, Control, Eff, Dead3

(* The locals of a call that starts or fails.                              *)
LEMMA FailShape ==
  ASSUME NEW k
  PROVE  /\ DOMAIN NoLoc = LocFields /\ DOMAIN FailLoc(k) = LocFields
         /\ NoLoc.call.name = "none"
         /\ \A v \in RefVars : NoLoc[v] = None
         /\ \A v \in RefVars : FailLoc(k)[v] = None \/ (v = "obj" /\ FailLoc(k)[v] = k[v])
         /\ FailTo(k.call) \in PathPcs \/
              (FailTo(k.call) = "user" /\ FailLoc(k).call.name = "none")
         /\ FailLoc(k).call = k.call \/ FailLoc(k).call.name = "none"
         /\ k.call.name = "link2" => FailLoc(k).call = k.call
<1>1. /\ DOMAIN NoLoc = LocFields /\ NoLoc.call.name = "none"
      /\ \A v \in RefVars : NoLoc[v] = None
  BY DEF NoLoc, NoCall, LocFields, RefVars
<1>2. CASE k.call.name = "link2"
  <2>1. FailLoc(k) = [NoLoc EXCEPT !.call = k.call, !.obj = k.obj]
    BY <1>2 DEF FailLoc
  <2>2. /\ DOMAIN FailLoc(k) = LocFields
        /\ FailLoc(k).call = k.call /\ FailLoc(k).obj = k.obj
        /\ \A v \in RefVars \ {"obj"} : FailLoc(k)[v] = NoLoc[v]
    BY <1>1, <2>1 DEF LocFields, RefVars
  <2>3. FailTo(k.call) = "undo"
    BY <1>2 DEF FailTo
  <2> QED BY <1>1, <1>2, <2>2, <2>3 DEF PathPcs
<1>3. CASE k.call.name # "link2"
  <2>1. FailLoc(k) = NoLoc /\ FailTo(k.call) \in {"oops", "user"}
    BY <1>3 DEF FailLoc, FailTo
  <2> QED BY <1>1, <1>3, <2>1 DEF PathPcs
<1> QED BY <1>2, <1>3

(* p goes to l with locals k.                                              *)
LEMMA Moves ==
  ASSUME NEW p \in Procs, LocalsOK, DOMAIN icwd' = Procs, NEW l, NEW k,
         Goto(p, l), DOMAIN k = LocFields,
         loc' = [loc EXCEPT ![p] = k] \/ (loc' = loc /\ k = loc[p])
  PROVE  /\ LocalsOK' /\ pc'[p] = l /\ loc'[p] = k
         /\ l \notin Dead3 => Eff(p)' = l
         /\ \A q \in Procs \ {p} : loc'[q] = loc[q] /\ pc'[q] = pc[q]
<1>1. LocalsOK'
  BY DEF Goto, LocalsOK
<1>2. pc'[p] = l /\ loc'[p] = k
  BY DEF Goto, LocalsOK
<1>3. \A q \in Procs \ {p} : loc'[q] = loc[q] /\ pc'[q] = pc[q]
  BY DEF Goto, LocalsOK
<1> QED BY <1>1, <1>2, <1>3 DEF Eff, Dead3

(* A step of a call with a path that goes to l with locals k.              *)
LEMMA PathMove ==
  ASSUME FcbInv, NEW p \in alive, NEW l, NEW k, Goto(p, l), DOMAIN k = LocFields,
         loc' = [loc EXCEPT ![p] = k] \/ (loc' = loc /\ k = loc[p]),
         DOMAIN icwd' = Procs, UNCHANGED <<files, idle, fdtable, alive, fwait>>,
         l \in PathPcs \/ (l = "user" /\ k.call.name = "none"),
         \/ k.call = loc[p].call
         \/ k.call.name \in {"none", "link2"}
         \/ k.call \in PathCalls /\ (k.call.name = "open" => FreeFds(p) # {})
  PROVE  FcbInv'
<1>1. p \in Procs /\ LocalsOK
  BY DEF FcbInv
<1>2. l \notin Dead3
  BY DEF Dead3, PathPcs
<1>3. /\ LocalsOK' /\ Eff(p)' = l /\ loc'[p] = k
      /\ \A q \in Procs \ {p} : loc'[q] = loc[q] /\ pc'[q] = pc[q]
  BY <1>1, <1>2, Moves
<1> QED BY <1>3, PathStep

(* A failed assert() changes nothing but panic.                            *)
LEMMA FcbPanic ==
  ASSUME FcbInv, NEW p \in Procs,
         UNCHANGED <<files, idle, fdtable, alive, fwait, pc, loc, icwd>>
  PROVE  FcbInv'
<1>1. LocalsOK'
  BY DEF FcbInv, LocalsOK
<1>2. Control(p)'
  <2>1. \A fd \in Fds : Bare(p, fd) => files'[fdtable[p][fd]].count = 0
    BY DEF Bare
  <2> QED BY <2>1, ControlKept
<1> QED BY <1>1, <1>2, FcbFrame

(* The walk of a path and what becomes of its inode leave the table of     *)
(* open files alone.                                                       *)
LEMMA FcbWalk ==
  ASSUME FcbInv, NEW p \in Procs,
         \/ GetRoot(p) \/ WalkLock(p) \/ WalkEnd(p) \/ Look(p) \/ Oops(p)
  PROVE  FcbInv'
<1>0. LocalsOK /\ DOMAIN loc[p] = LocFields /\ DOMAIN icwd = Procs
  BY DEF FcbInv, LocalsOK
<1>1. CASE GetRoot(p)
  <2> DEFINE k == [loc[p] EXCEPT !.cur = Lowest(Found(Root))]
  <2>1. p \in alive /\ UNCHANGED <<files, idle, fdtable, alive, fwait, icwd>>
    BY <1>1, Busy DEF GetRoot, Dead3, fileVars, procVars
  <2>2. DOMAIN k = LocFields /\ k.call = loc[p].call
    BY <1>0 DEF LocFields
  <2>3. Goto(p, "walk") /\ loc' = [loc EXCEPT ![p] = k]
    BY <1>1 DEF GetRoot
  <2> HIDE DEF k
  <2> QED BY <1>0, <2>1, <2>2, <2>3, PathMove DEF PathPcs
<1>2. CASE WalkLock(p)
  <2>1. p \in alive /\ UNCHANGED <<files, idle, fdtable, alive, fwait, icwd, loc>>
    BY <1>2, Busy DEF WalkLock, Panic, Dead3, fileVars, procVars
  <2>2. Goto(p, "look") \/ UNCHANGED pc
    BY <1>2 DEF WalkLock, Panic
  <2>3. CASE UNCHANGED pc
    BY <2>1, <2>3, FcbPanic
  <2>4. CASE Goto(p, "look")
    BY <1>0, <2>1, <2>4, PathMove DEF PathPcs
  <2> QED BY <2>2, <2>3, <2>4
<1>3. CASE WalkEnd(p)
  <2>1. p \in alive /\ UNCHANGED <<files, idle, fdtable, alive, fwait, icwd>>
    BY <1>3, Busy DEF WalkEnd, Dead3, fileVars, procVars
  <2>2. CASE WantsParent(loc[p].call)
    <3>1. Put(p, slot, imtx, loc[p].cur, FailLoc(loc[p]), FailTo(loc[p].call))
      BY <1>3, <2>2 DEF WalkEnd
    <3> QED BY <1>0, <2>1, <3>1, FailShape, PathPut
  <2>3. CASE ~WantsParent(loc[p].call)
    <3>1. Goto(p, "found") /\ UNCHANGED loc
      BY <1>3, <2>3 DEF WalkEnd
    <3> QED BY <1>0, <2>1, <3>1, PathMove DEF PathPcs
  <2> QED BY <2>2, <2>3
<1>4. CASE Look(p)
  <2> DEFINE s == loc[p].cur
             n == Entry(s, Head(loc[p].rest))
             k1 == [loc[p] EXCEPT !.par = s, !.cur = None]
             k3 == [loc[p] EXCEPT !.rest = Tail(@), !.cur = Lowest(Found(n))]
  <2>1. p \in alive /\ UNCHANGED <<files, idle, fdtable, alive, fwait, icwd>>
    BY <1>4, Busy DEF Look, Dead3, fileVars, procVars
  <2>2. \/ Goto(p, "parent") /\ loc' = [loc EXCEPT ![p].par = s, ![p].cur = None]
        \/ Put(p, slot, Unlocked(s), s, FailLoc(loc[p]), FailTo(loc[p].call))
        \/ Put(p, Got(n, FALSE), Unlocked(s), s, k3,
               IF Len(loc[p].rest) = 1 THEN "found" ELSE "walk")
    BY <1>4 DEF Look
  <2>3. CASE Goto(p, "parent") /\ loc' = [loc EXCEPT ![p].par = s, ![p].cur = None]
    <3>1. loc' = [loc EXCEPT ![p] = k1]
      BY <2>3
    <3>2. DOMAIN k1 = LocFields /\ k1.call = loc[p].call
      BY <1>0 DEF LocFields
    <3> HIDE DEF k1
    <3> QED BY <1>0, <2>1, <2>3, <3>1, <3>2, PathMove DEF PathPcs
  <2>4. CASE Put(p, slot, Unlocked(s), s, FailLoc(loc[p]), FailTo(loc[p].call))
    BY <1>0, <2>1, <2>4, FailShape, PathPut
  <2>5. CASE Put(p, Got(n, FALSE), Unlocked(s), s, k3,
                 IF Len(loc[p].rest) = 1 THEN "found" ELSE "walk")
    <3>1. DOMAIN k3 = LocFields /\ k3.call = loc[p].call
      BY <1>0 DEF LocFields
    <3>2. PICK l : l = IF Len(loc[p].rest) = 1 THEN "found" ELSE "walk"
      OBVIOUS
    <3>3. Put(p, Got(n, FALSE), Unlocked(s), s, k3, l)
      BY <2>5, <3>2
    <3>4. l \in PathPcs
      BY <3>2 DEF PathPcs
    <3>5. DOMAIN icwd' = Procs
      BY <1>0, <2>1
    <3> HIDE DEF k3, n, s
    <3> QED BY <2>1, <3>1, <3>3, <3>4, <3>5, PathPut
  <2> QED BY <2>2, <2>3, <2>4, <2>5
<1>5. CASE Oops(p)
  BY <1>5, FcbPanic DEF Oops, Panic, fileVars, procVars
<1> QED BY <1>1, <1>2, <1>3, <1>4, <1>5

(* create() leaves it alone, ...                                           *)
LEMMA FcbCreate ==
  ASSUME FcbInv, NEW p \in Procs,
         \/ ParentLock(p) \/ CreateFound(p) \/ CreateOld(p) \/ CreateNew(p)
         \/ CreateGet(p) \/ CreateInit(p) \/ CreateLink(p) \/ CreateUndo(p)
         \/ CreateFail(p)
  PROVE  FcbInv'
<1>0. LocalsOK /\ DOMAIN loc[p] = LocFields /\ DOMAIN icwd = Procs
  BY DEF FcbInv, LocalsOK
<1>a. p \in alive
  <2>1. pc[p] \in {"parent", "cdir", "cold", "ialloc", "cnew", "clink", "cfail"}
    BY Zenon DEF ParentLock, CreateFound, CreateOld, CreateNew, CreateGet, CreateInit,
           CreateLink, CreateUndo, CreateFail
  <2> QED BY <2>1, Busy DEF Dead3
<1>b. UNCHANGED <<files, idle, fdtable, alive, fwait, icwd>> /\ DOMAIN icwd' = Procs
  BY Zenon, <1>0 DEF ParentLock, CreateFound, CreateOld, CreateNew, CreateGet, CreateInit,
         CreateLink, CreateUndo, CreateFail, fileVars, procVars
<1>n. DOMAIN NoLoc = LocFields /\ NoLoc.call.name = "none"
  BY FailShape
<1>1. CASE ParentLock(p)
  <2>1. Goto(p, "cdir") /\ UNCHANGED loc
    BY <1>1 DEF ParentLock
  <2> QED BY <1>0, <1>a, <1>b, <2>1, PathMove DEF PathPcs
<1>2. CASE CreateFound(p)
  <2> DEFINE n == Entry(loc[p].par, LastName(p))
             k == [loc[p] EXCEPT !.cur = Lowest(Found(n)), !.par = None]
  <2>1. Put(p, Got(n, FALSE), Unlocked(loc[p].par), loc[p].par, k, "cold")
    BY <1>2 DEF CreateFound
  <2>2. DOMAIN k = LocFields /\ k.call = loc[p].call
    BY <1>0 DEF LocFields
  <2> HIDE DEF k
  <2> QED BY <1>a, <1>b, <2>1, <2>2, PathPut DEF PathPcs
<1>3. CASE CreateOld(p)
  <2> DEFINE s == loc[p].cur
  <2>1. \/ Goto(p, "found") /\ UNCHANGED loc
        \/ Put(p, Loaded(slot, s), imtx, s, NoLoc, "user")
    BY <1>3 DEF CreateOld
  <2>2. CASE Goto(p, "found") /\ UNCHANGED loc
    BY <1>0, <1>a, <1>b, <2>2, PathMove DEF PathPcs
  <2>3. CASE Put(p, Loaded(slot, s), imtx, s, NoLoc, "user")
    BY <1>a, <1>b, <1>n, <2>3, PathPut
  <2> QED BY <2>1, <2>2, <2>3
<1>4. CASE CreateNew(p)
  <2> DEFINE free == {n \in Inos : ~dnode[n].used}
             k == [loc[p] EXCEPT !.no = Lowest(free)]
  <2>1. \/ Put(p, slot, Unlocked(loc[p].par), loc[p].par, NoLoc, "user")
        \/ Goto(p, "ialloc") /\ loc' = [loc EXCEPT ![p] = k]
    BY <1>4 DEF CreateNew
  <2>2. CASE Put(p, slot, Unlocked(loc[p].par), loc[p].par, NoLoc, "user")
    BY <1>a, <1>b, <1>n, <2>2, PathPut
  <2>3. CASE Goto(p, "ialloc") /\ loc' = [loc EXCEPT ![p] = k]
    <3>1. DOMAIN k = LocFields /\ k.call = loc[p].call
      BY <1>0 DEF LocFields
    <3> HIDE DEF k
    <3> QED BY <1>a, <1>b, <2>3, <3>1, PathMove DEF PathPcs
  <2> QED BY <2>1, <2>2, <2>3
<1>5. CASE CreateGet(p)
  <2> DEFINE k == [loc[p] EXCEPT !.cur = Lowest(Found(loc[p].no))]
  <2>1. Goto(p, "cnew") /\ loc' = [loc EXCEPT ![p] = k]
    BY <1>5 DEF CreateGet
  <2>2. DOMAIN k = LocFields /\ k.call = loc[p].call
    BY <1>0 DEF LocFields
  <2> HIDE DEF k
  <2> QED BY <1>a, <1>b, <2>1, <2>2, PathMove DEF PathPcs
<1>6. CASE CreateInit(p)
  <2>1. Goto(p, "clink") /\ UNCHANGED loc
    BY <1>6 DEF CreateInit
  <2> QED BY <1>0, <1>a, <1>b, <2>1, PathMove DEF PathPcs
<1>7. CASE CreateLink(p)
  <2> DEFINE k == [loc[p] EXCEPT !.par = None]
             sl == IF loc[p].call.name = "mkdir"
                   THEN [slot EXCEPT ![loc[p].par].links = @ + 1] ELSE slot
  <2>1. Put(p, sl, [imtx EXCEPT ![loc[p].par] = None, ![loc[p].cur] = None],
            loc[p].par, k, "found")
    BY <1>7 DEF CreateLink
  <2>2. DOMAIN k = LocFields /\ k.call = loc[p].call
    BY <1>0 DEF LocFields
  <2> HIDE DEF k, sl
  <2> QED BY <1>a, <1>b, <2>1, <2>2, PathPut DEF PathPcs
<1>8. CASE CreateUndo(p)
  <2> DEFINE k == [loc[p] EXCEPT !.cur = None]
  <2>1. Put(p, [slot EXCEPT ![loc[p].cur].links = 0], Unlocked(loc[p].cur),
            loc[p].cur, k, "cfail")
    BY <1>8 DEF CreateUndo
  <2>2. DOMAIN k = LocFields /\ k.call = loc[p].call
    BY <1>0 DEF LocFields
  <2> HIDE DEF k
  <2> QED BY <1>a, <1>b, <2>1, <2>2, PathPut DEF PathPcs
<1>9. CASE CreateFail(p)
  <2>1. Put(p, slot, Unlocked(loc[p].par), loc[p].par, NoLoc, "user")
    BY <1>9 DEF CreateFail
  <2> QED BY <1>a, <1>b, <1>n, <2>1, PathPut
<1> QED BY <1>1, <1>2, <1>3, <1>4, <1>5, <1>6, <1>7, <1>8, <1>9

(* ... and so do the calls on the inode of a path, ...                     *)
LEMMA FcbUse ==
  ASSUME FcbInv, NEW p \in Procs,
         \/ CreatDone(p) \/ MkdirDone(p) \/ Chmod(p) \/ Stat(p) \/ Chdir(p)
         \/ Truncate(p) \/ OpenSize(p)
  PROVE  FcbInv'
<1>0. LocalsOK /\ DOMAIN loc[p] = LocFields /\ DOMAIN icwd = Procs
  BY DEF FcbInv, LocalsOK
<1>a. p \in alive
  <2>1. pc[p] \in {"found", "size"}
    BY DEF CreatDone, MkdirDone, Chmod, Stat, Chdir, Truncate, OpenSize, Is
  <2> QED BY <2>1, Busy DEF Dead3
<1>b. UNCHANGED <<files, idle, fdtable, alive, fwait>> /\ DOMAIN icwd' = Procs
  <2>1. UNCHANGED <<files, idle, fdtable, alive, fwait>>
    BY DEF CreatDone, MkdirDone, Chmod, Stat, Chdir, Truncate, OpenSize, Panic,
           fileVars, procVars
  <2>2. UNCHANGED icwd \/ \E s : icwd' = [icwd EXCEPT ![p] = s]
    BY DEF CreatDone, MkdirDone, Chmod, Stat, Chdir, Truncate, OpenSize, Panic,
           fileVars, procVars
  <2> QED BY <1>0, <2>1, <2>2
<1>n. DOMAIN NoLoc = LocFields /\ NoLoc.call.name = "none"
  BY FailShape
<1>1. CASE Return(p)
  BY <1>a, <1>b, <1>n, <1>1, PathMove DEF Return
<1>2. CASE UNCHANGED <<pc, loc, icwd>>
  BY <1>b, <1>2, FcbPanic
<1>3. CASE \E sl, s : Put(p, sl, imtx, s, NoLoc, "user")
  <2>1. PICK sl, s : Put(p, sl, imtx, s, NoLoc, "user")
    BY <1>3
  <2> QED BY <1>a, <1>b, <1>n, <2>1, PathPut
<1>4. Return(p) \/ UNCHANGED <<pc, loc, icwd>> \/ \E sl, s : Put(p, sl, imtx, s, NoLoc, "user")
  BY DEF CreatDone, MkdirDone, Chmod, Stat, Chdir, Truncate, OpenSize, Panic,
         fileVars, procVars
<1> QED BY <1>1, <1>2, <1>3, <1>4

(* ... and link() ...                                                      *)
LEMMA FcbLink ==
  ASSUME FcbInv, NEW p \in Procs,
         \/ LinkOld(p) \/ LinkNew(p) \/ Linked(p) \/ LinkFail(p) \/ LinkUndo(p)
  PROVE  FcbInv'
<1>0. LocalsOK /\ DOMAIN loc[p] = LocFields /\ DOMAIN icwd = Procs
  BY DEF FcbInv, LocalsOK
<1>a. p \in alive
  <2>1. pc[p] \in {"found", "cdir", "linked", "undo"}
    BY Zenon DEF LinkOld, LinkNew, Linked, LinkFail, LinkUndo, Is
  <2> QED BY <2>1, Busy DEF Dead3
<1>b. UNCHANGED <<files, idle, fdtable, alive, fwait>> /\ DOMAIN icwd' = Procs
  BY Zenon, <1>0 DEF LinkOld, LinkNew, Linked, LinkFail, LinkUndo, fileVars, procVars
<1>n. DOMAIN NoLoc = LocFields /\ NoLoc.call.name = "none"
  BY FailShape
<1>1. CASE LinkOld(p)
  <2> DEFINE c == [name |-> "link2", path |-> loc[p].call.new]
             k == [NoLoc EXCEPT !.call = c, !.obj = loc[p].cur, !.rest = c.path.elems,
                                !.cur = IF c.path.abs THEN None ELSE icwd[p]]
  <2>1. \/ Put(p, Loaded(slot, loc[p].cur), imtx, loc[p].cur, NoLoc, "user")
        \/ /\ loc' = [loc EXCEPT ![p] = k]
           /\ Goto(p, IF c.path.abs THEN "root" ELSE "walk")
    BY Zenon, <1>1 DEF LinkOld
  <2>2. CASE Put(p, Loaded(slot, loc[p].cur), imtx, loc[p].cur, NoLoc, "user")
    BY <1>a, <1>b, <1>n, <2>2, PathPut
  <2>3. CASE /\ loc' = [loc EXCEPT ![p] = k]
             /\ Goto(p, IF c.path.abs THEN "root" ELSE "walk")
    <3>1. DOMAIN k = LocFields /\ k.call.name = "link2"
      BY <1>n DEF LocFields
    <3>2. PICK l \in PathPcs : Goto(p, l)
      BY <2>3 DEF PathPcs
    <3>3. loc' = [loc EXCEPT ![p] = k]
      BY <2>3
    <3> HIDE DEF k
    <3> QED BY <1>a, <1>b, <3>1, <3>2, <3>3, PathMove
  <2> QED BY <2>1, <2>2, <2>3
<1>2. CASE LinkNew(p)
  <2> DEFINE k == [loc[p] EXCEPT !.par = None]
  <2>1. Put(p, slot, Unlocked(loc[p].par), loc[p].par, k, "linked")
    BY <1>2 DEF LinkNew
  <2>2. DOMAIN k = LocFields /\ k.call = loc[p].call
    BY <1>0 DEF LocFields
  <2> HIDE DEF k
  <2> QED BY <1>a, <1>b, <2>1, <2>2, PathPut DEF PathPcs
<1>3. CASE Linked(p)
  <2>1. Put(p, slot, imtx, loc[p].obj, NoLoc, "user")
    BY <1>3 DEF Linked
  <2> QED BY <1>a, <1>b, <1>n, <2>1, PathPut
<1>4. CASE LinkFail(p)
  <2>1. PICK sl : Put(p, sl, Unlocked(loc[p].par), loc[p].par, FailLoc(loc[p]), "undo")
    BY <1>4 DEF LinkFail
  <2>2. DOMAIN FailLoc(loc[p]) = LocFields /\ FailLoc(loc[p]).call = loc[p].call
    BY <1>4, FailShape DEF LinkFail
  <2> QED BY <1>a, <1>b, <2>1, <2>2, PathPut DEF PathPcs
<1>5. CASE LinkUndo(p)
  <2>1. PICK sl : Put(p, sl, imtx, loc[p].obj, NoLoc, "user")
    BY <1>5 DEF LinkUndo
  <2> QED BY <1>a, <1>b, <1>n, <2>1, PathPut
<1> QED BY <1>1, <1>2, <1>3, <1>4, <1>5

(* ... and the end of an inode, wherever its last reference was put.       *)
LEMMA FcbDie ==
  ASSUME FcbInv, NEW p \in Procs, IFree(p) \/ ITruncate(p) \/ IDrop(p)
  PROVE  FcbInv'
<1>0. LocalsOK /\ Control(p)
  BY DEF FcbInv
<1>1. /\ UNCHANGED <<files, idle, fdtable, alive, fwait, icwd>>
      /\ pc[p] \in Dead3
      /\ pc' = [pc EXCEPT ![p] = pc'[p]]
      /\ pc'[p] \in Dead3 \/ pc'[p] = loc[p].then
      /\ loc' = loc \/ loc' = [loc EXCEPT ![p].dead = None]
  BY <1>0 DEF IFree, ITruncate, IDrop, Dead3, Goto, LocalsOK, fileVars, procVars
<1>2. LocalsOK' /\ \A q \in Procs \ {p} : loc'[q] = loc[q] /\ pc'[q] = pc[q]
  BY <1>0, <1>1 DEF LocalsOK, LocFields
<1>3. /\ loc'[p].call = loc[p].call /\ loc'[p].fd = loc[p].fd
      /\ loc'[p].no = loc[p].no /\ loc'[p].then = loc[p].then
  BY <1>0, <1>1 DEF LocalsOK, LocFields
<1>4. Eff(p)' = Eff(p)
  BY <1>1, <1>3 DEF Eff, Dead3
<1>5. FreeFds(p)' = FreeFds(p) /\ \A fd : Bare(p, fd)' <=> Bare(p, fd)
  BY <1>1 DEF FreeFds, Bare
<1>6. Control(p)'
  <2> HIDE DEF Eff, FreeFds, Bare
  <2> QED BY <1>0, <1>1, <1>3, <1>4, <1>5 DEF Control
<1> QED BY <1>1, <1>2, <1>6, FcbFrame

(* What holds of a process in user mode.                                   *)
LEMMA InUser ==
  ASSUME FcbInv, NEW p \in Procs, pc[p] = "user", Awake(p)
  PROVE  /\ p \in alive /\ Eff(p) = "user" /\ Control(p)
         /\ loc[p].call.name = "none"
BY DEF FcbInv, Awake, Eff, Dead3, Control

(* A step of p from l to locals k, with what p relies on there.            *)
LEMMA FdMove ==
  ASSUME FcbInv, NEW p \in alive, NEW l, NEW k, Goto(p, l), DOMAIN k = LocFields,
         loc' = [loc EXCEPT ![p] = k] \/ (loc' = loc /\ k = loc[p]), l \notin Dead3,
         UNCHANGED <<files, idle, fdtable, alive, fwait>>, DOMAIN icwd' = Procs,
         l \in {"user", "pipe1"} => k.call.name = "none",
         k.call.name # "open",
         l = "pipe1" => FreeFds(p) # {},
         l \notin {"pipe2", "pipe3", "ffree"},
         k.call.name \in {"dup", "dup2"} => DupArgs(k.call),
         l \in {"dup2", "dupfd"} => k.call.name \in {"dup", "dup2"},
         l = "dup2" => k.call.name = "dup2",
         l = "exit" => k.call.name = "exit",
         l = "gone" => FreeFds(p) = Fds
  PROVE  FcbInv'
<1>1. p \in Procs /\ LocalsOK
  BY DEF FcbInv
<1>2. /\ LocalsOK' /\ loc'[p] = k /\ Eff(p)' = l
      /\ \A q \in Procs \ {p} : loc'[q] = loc[q] /\ pc'[q] = pc[q]
  BY <1>1, Moves
<1>3. FreeFds(p)' = FreeFds(p)
  BY DEF FreeFds
<1>4. Control(p)'
  <2> HIDE DEF Eff, FreeFds, DupArgs
  <2> QED BY <1>2, <1>3 DEF Control, DupArgs
<1> QED BY <1>1, <1>2, <1>4, FcbFrame

(* A call starts: open files are as before.                                *)
LEMMA FcbCall ==
  ASSUME FcbInv, NEW p \in Procs,
         \/ Pipe(p) \/ Exit(p) \/ \E c \in PathCalls : PathCall(p, c)
         \/ \E fd \in Fds : \/ \E stat \in BOOLEAN : UseFile(p, fd, stat)
                            \/ Dup(p, fd)
                            \/ \E new \in Fds : Dup2(p, fd, new)
  PROVE  FcbInv'
<1>0. LocalsOK /\ DOMAIN loc[p] = LocFields /\ DOMAIN icwd = Procs
  BY DEF FcbInv, LocalsOK
<1>a. pc[p] = "user" /\ Awake(p)
  BY Zenon DEF Pipe, Exit, PathCall, UseFile, Dup, Dup2
<1>b. /\ p \in alive /\ Eff(p) = "user" /\ Control(p)
      /\ loc[p].call.name = "none"
  BY <1>a, InUser
<1>n. DOMAIN NoLoc = LocFields /\ NoLoc.call.name = "none"
  BY FailShape
<1>1. CASE Pipe(p)
  <2>1. /\ Goto(p, "pipe1") /\ FreeFds(p) # {}
        /\ UNCHANGED <<files, idle, fdtable, alive, fwait, icwd, loc>>
    BY <1>1 DEF Pipe, fileVars, procVars
  <2> QED BY <1>0, <1>b, <2>1, FdMove DEF Dead3
<1>2. CASE Exit(p)
  <2> DEFINE k == [loc[p] EXCEPT !.call = [name |-> "exit"]]
  <2>1. /\ Goto(p, "exit") /\ loc' = [loc EXCEPT ![p] = k]
        /\ UNCHANGED <<files, idle, fdtable, alive, fwait, icwd>>
    BY <1>2 DEF Exit, fileVars, procVars
  <2>2. DOMAIN k = LocFields /\ k.call.name = "exit"
    BY <1>0 DEF LocFields
  <2> HIDE DEF k
  <2> QED BY <1>0, <1>b, <2>1, <2>2, FdMove DEF Dead3
<1>3. ASSUME NEW c \in PathCalls, PathCall(p, c) PROVE FcbInv'
  <2> DEFINE k == [NoLoc EXCEPT !.call = c, !.rest = c.path.elems,
                                !.cur = IF c.path.abs THEN None ELSE icwd[p]]
  <2>1. /\ loc' = [loc EXCEPT ![p] = k]
        /\ Goto(p, IF c.path.abs THEN "root" ELSE "walk")
        /\ c.name = "open" => FreeFds(p) # {}
        /\ UNCHANGED <<files, idle, fdtable, alive, fwait, icwd>>
    BY Zenon, <1>3 DEF PathCall, WalkFrom, fileVars, procVars
  <2>2. DOMAIN k = LocFields /\ k.call = c
    BY <1>n DEF LocFields
  <2>3. PICK l \in PathPcs : Goto(p, l)
    BY <2>1 DEF PathPcs
  <2> HIDE DEF k
  <2> QED BY <1>0, <1>b, <2>1, <2>2, <2>3, PathMove
<1>4. ASSUME NEW fd \in Fds, NEW stat \in BOOLEAN, UseFile(p, fd, stat) PROVE FcbInv'
  <2>1. UNCHANGED <<files, idle, fdtable, alive, fwait, pc, loc, icwd>>
    BY Zenon, <1>4 DEF UseFile, Panic, fileVars, procVars
  <2> QED BY <2>1, FcbPanic
<1>5. ASSUME NEW fd \in Fds, Dup(p, fd) PROVE FcbInv'
  <2> DEFINE c == [name |-> "dup", old |-> fd, new |-> 0]
             k == [loc[p] EXCEPT !.call = c]
  <2>1. /\ Goto(p, "dupfd") /\ loc' = [loc EXCEPT ![p] = k]
        /\ UNCHANGED <<files, idle, fdtable, alive, fwait, icwd>>
    BY <1>5 DEF Dup, fileVars, procVars
  <2>2. DOMAIN k = LocFields /\ k.call = c
    BY <1>0 DEF LocFields
  <2>3. c.name = "dup" /\ DupArgs(c)
    BY FilesAssumption DEF DupArgs, Fds
  <2> HIDE DEF k, c
  <2> QED BY <1>0, <1>b, <2>1, <2>2, <2>3, FdMove DEF Dead3
<1>6. ASSUME NEW fd \in Fds, NEW new \in Fds, Dup2(p, fd, new) PROVE FcbInv'
  <2> DEFINE c == [name |-> "dup2", old |-> fd, new |-> new]
             k == [loc[p] EXCEPT !.call = c]
  <2>1. /\ Goto(p, "dup2") /\ loc' = [loc EXCEPT ![p] = k]
        /\ UNCHANGED <<files, idle, fdtable, alive, fwait, icwd>>
    BY <1>6 DEF Dup2, fileVars, procVars
  <2>2. DOMAIN k = LocFields /\ k.call = c
    BY <1>0 DEF LocFields
  <2>3. c.name = "dup2" /\ DupArgs(c)
    BY DEF DupArgs
  <2> HIDE DEF k, c
  <2> QED BY <1>0, <1>b, <2>1, <2>2, <2>3, FdMove DEF Dead3
<1> QED BY <1>1, <1>2, <1>3, <1>4, <1>5, <1>6

(* getdents() with its directory locked.                                   *)
LEMMA FcbDents ==
  ASSUME FcbInv, NEW p \in Procs,
         (\E fd \in Fds : Dents(p, fd)) \/ DentsFault(p) \/ DentsEnd(p)
  PROVE  FcbInv'
<1>0. LocalsOK /\ DOMAIN icwd = Procs
  BY DEF FcbInv, LocalsOK
<1>1. UNCHANGED <<files, idle, fdtable, alive, fwait, icwd>>
  BY DEF Dents, DentsFault, DentsEnd, fileVars, procVars
<1>n. DOMAIN NoLoc = LocFields /\ NoLoc.call.name = "none"
  BY FailShape
<1>2. CASE \E fd \in Fds : Dents(p, fd)
  <2>1. PICK s : /\ pc[p] = "user" /\ Awake(p) /\ Goto(p, "dents")
                 /\ loc' = [loc EXCEPT ![p] = [NoLoc EXCEPT !.obj = s]]
    BY <1>2 DEF Dents
  <2>2. PICK k : k = [NoLoc EXCEPT !.obj = s]
    OBVIOUS
  <2>3. DOMAIN k = LocFields /\ k.call.name = "none"
    BY <1>n, <2>2 DEF LocFields
  <2>4. p \in alive
    BY <2>1 DEF Awake
  <2>5. loc' = [loc EXCEPT ![p] = k] /\ "dents" \in PathPcs
    BY <2>1, <2>2 DEF PathPcs
  <2> QED BY <1>0, <1>1, <2>1, <2>3, <2>4, <2>5, PathMove
<1>3. CASE DentsFault(p)
  <2>1. UNCHANGED <<pc, loc>>
    BY <1>3 DEF DentsFault
  <2> QED BY <1>1, <2>1, FcbPanic
<1>4. CASE DentsEnd(p)
  <2>1. pc[p] = "dents" /\ Return(p)
    BY <1>4 DEF DentsEnd
  <2>2. p \in alive
    BY <2>1, Busy DEF Dead3
  <2> QED BY <1>0, <1>1, <1>n, <2>1, <2>2, PathMove DEF Return
<1> QED BY <1>2, <1>3, <1>4

(* Waiting, a pipe() with a bad address and the last iput() of exit leave  *)
(* them as they are, too.                                                  *)
LEMMA FcbWait ==
  ASSUME FcbInv, NEW p \in Procs,
         InodeWait(p) \/ FileWait(p) \/ PipeFault(p) \/ ExitPut(p)
  PROVE  FcbInv'
<1>0. LocalsOK /\ DOMAIN loc[p] = LocFields /\ DOMAIN icwd = Procs /\ Control(p)
  BY DEF FcbInv, LocalsOK
<1>1. CASE InodeWait(p)
  BY <1>1, FcbPanic DEF InodeWait, fileVars, procVars
<1>2. CASE FileWait(p)
  <2>1. /\ UNCHANGED <<files, idle, fdtable, alive, pc, loc, icwd>> /\ idle = <<>>
    BY <1>2 DEF FileWait, procVars
  <2>2. \A fd \in Fds : Bare(p, fd) => files'[fdtable[p][fd]].count = 0
    BY <2>1 DEF Bare
  <2>3. Control(p)'
    BY <2>1, <2>2, ControlKept
  <2>4. LocalsOK'
    BY <1>0, <2>1 DEF LocalsOK
  <2> QED BY <2>1, <2>3, <2>4, FcbFrame
<1>3. CASE PipeFault(p)
  <2>1. p \in alive
    BY <1>3, Busy DEF PipeFault, Dead3
  <2>2. UNCHANGED <<files, idle, fdtable, alive, fwait, icwd>> /\ Return(p)
    BY <1>3 DEF PipeFault, fileVars, procVars
  <2> QED BY <1>0, <2>1, <2>2, FailShape, PathMove DEF Return
<1>4. CASE ExitPut(p)
  <2>1. /\ p \in alive /\ loc[p].call.name = "exit"
        /\ FreeFds(p) = Fds
    BY <1>4, Busy DEF ExitPut, Dead3, Control
  <2>2. /\ Put(p, slot, imtx, icwd[p], loc[p], "gone") /\ DOMAIN icwd' = Procs
        /\ UNCHANGED <<files, idle, fdtable, alive, fwait>>
    BY <1>0, <1>4 DEF ExitPut, fileVars
  <2>3. /\ LocalsOK' /\ Eff(p)' = "gone" /\ loc'[p].call = loc[p].call
        /\ \A q \in Procs \ {p} : loc'[q] = loc[q] /\ pc'[q] = pc[q]
    BY <1>0, <2>2, PutControl DEF Dead3
  <2>4. FreeFds(p)' = Fds
    BY <2>1, <2>2 DEF FreeFds
  <2>5. Control(p)'
    <3> HIDE DEF Eff, FreeFds
    <3> QED BY <2>1, <2>2, <2>3, <2>4 DEF Control
  <2> QED BY <2>2, <2>3, <2>5, FcbFrame
<1> QED BY <1>1, <1>2, <1>3, <1>4
-----------------------------------------------------------------------------
(* The users of each fcb when descriptor fd of p gets g.                   *)
UsersChange(p, fd, g) ==
    \A f \in Fcbs :
       /\ Cardinality(UsersOf(f)) \in Nat
       /\ f = g /\ f # fdtable[p][fd] =>
            Cardinality(UsersOf(f)') = Cardinality(UsersOf(f)) + 1
       /\ f # g /\ f = fdtable[p][fd] =>
            /\ Cardinality(UsersOf(f)') = Cardinality(UsersOf(f)) - 1
            /\ UsersOf(f)' = UsersOf(f) \ {<<p, fd>>}
       /\ f # g /\ f # fdtable[p][fd] => UsersOf(f)' = UsersOf(f)

(* One user more of the fcb that the descriptor gets, one less of the fcb  *)
(* that it had, and the same users of all others.                          *)
LEMMA UsersStep ==
  ASSUME NEW p \in Procs, NEW fd \in Fds, NEW g \in Fcbs \cup {-1},
         fdtable \in [Procs -> [Fds -> Fcbs \cup {-1}]],
         fdtable' = [fdtable EXCEPT ![p][fd] = g]
  PROVE  UsersChange(p, fd, g)
<1> SUFFICES ASSUME NEW f \in Fcbs
             PROVE  /\ Cardinality(UsersOf(f)) \in Nat
                    /\ f = g /\ f # fdtable[p][fd] =>
                         Cardinality(UsersOf(f)') = Cardinality(UsersOf(f)) + 1
                    /\ f # g /\ f = fdtable[p][fd] =>
                         /\ Cardinality(UsersOf(f)') = Cardinality(UsersOf(f)) - 1
                         /\ UsersOf(f)' = UsersOf(f) \ {<<p, fd>>}
                    /\ f # g /\ f # fdtable[p][fd] => UsersOf(f)' = UsersOf(f)
  BY DEF UsersChange
<1> DEFINE x == <<p, fd>>
<1>2. IsFiniteSet(UsersOf(f)) /\ Cardinality(UsersOf(f)) \in Nat
  <2>1. IsFiniteSet(Fds) /\ IsFiniteSet(Procs)
    BY FilesAssumption, FS_Interval DEF Fds
  <2>2. IsFiniteSet(Procs \X Fds)
    BY <2>1, FS_Product
  <2>3. UsersOf(f) \subseteq Procs \X Fds
    BY DEF UsersOf
  <2> QED BY <2>2, <2>3, FS_Subset, FS_CardinalityType
<1>3. \A pf \in Procs \X Fds :
        fdtable'[pf[1]][pf[2]] = IF pf = x THEN g ELSE fdtable[pf[1]][pf[2]]
  <2> TAKE pf \in Procs \X Fds
  <2>1. pf = <<pf[1], pf[2]>> /\ pf[1] \in Procs /\ pf[2] \in Fds
    OBVIOUS
  <2> QED BY <2>1
<1>4. x \in Procs \X Fds /\ (x \in UsersOf(f) <=> f = fdtable[p][fd])
  BY DEF UsersOf
<1>5. UsersOf(f)' = {pf \in Procs \X Fds : fdtable'[pf[1]][pf[2]] = f}
  BY DEF UsersOf
<1>6. CASE f = g /\ f # fdtable[p][fd]
  <2>1. UsersOf(f)' = UsersOf(f) \cup {x}
    BY <1>3, <1>4, <1>5, <1>6 DEF UsersOf
  <2> QED BY <1>2, <1>4, <1>6, <2>1, FS_AddElement
<1>7. CASE f # g /\ f = fdtable[p][fd]
  <2>1. UsersOf(f)' = UsersOf(f) \ {x}
    BY <1>3, <1>4, <1>5, <1>7 DEF UsersOf
  <2> QED BY <1>2, <1>4, <1>7, <2>1, FS_RemoveElement
<1>8. CASE f # g /\ f # fdtable[p][fd]
  <2>1. UsersOf(f)' = UsersOf(f)
    BY <1>3, <1>4, <1>5, <1>8 DEF UsersOf
  <2> QED BY <1>2, <1>8, <2>1
<1> QED BY <1>2, <1>6, <1>7, <1>8

(* An fcb not in use that a descriptor names has no other descriptor.      *)
LEMMA OneUser ==
  ASSUME FcbInv, NEW p \in Procs, NEW fd \in Fds, NEW f \in Fcbs,
         fdtable[p][fd] = f, files[f].count = 0
  PROVE  /\ ~IsIdle(f) /\ Cardinality(UsersOf(f)) = 1
         /\ UsersOf(f) = {<<p, fd>>}
         /\ \A q \in Procs, d \in Fds : fdtable[q][d] = f => q = p /\ d = fd
<1>1. <<p, fd>> \in UsersOf(f)
  BY DEF UsersOf
<1>2. IsFiniteSet(UsersOf(f))
  <2>1. 0 \in Int /\ NFD - 1 \in Int /\ IsFiniteSet(Procs)
    BY FilesAssumption
  <2>2. IsFiniteSet(Fds)
    BY <2>1, FS_Interval DEF Fds
  <2>3. IsFiniteSet(Procs \X Fds) /\ UsersOf(f) \subseteq Procs \X Fds
    BY <2>1, <2>2, FS_Product DEF UsersOf
  <2> QED BY <2>3, FS_Subset
<1>3. FcbState(f)
  BY DEF FcbInv
<1>4. ~IsIdle(f) /\ Cardinality(UsersOf(f)) = 1
  BY <1>1, <1>2, <1>3, FS_EmptySet DEF FcbState
<1>5. PICK x : UsersOf(f) = {x}
  BY <1>2, <1>4, FS_Singleton
<1>6. UsersOf(f) = {<<p, fd>>}
  BY <1>1, <1>5
<1>7. \A q \in Procs, d \in Fds : fdtable[q][d] = f => <<q, d>> \in UsersOf(f)
  BY DEF UsersOf
<1> QED BY <1>4, <1>6, <1>7

(* An idle fcb is unused, and no descriptor names it.                      *)
LEMMA IdleUnused ==
  ASSUME FcbInv, NEW f \in Fcbs, IsIdle(f)
  PROVE  /\ UsersOf(f) = {} /\ files[f].count = 0
         /\ Cardinality(UsersOf(f)) = 0
         /\ \A q \in Procs, d \in Fds : fdtable[q][d] # f
<1>1. UsersOf(f) = {} /\ files[f].count = 0
  BY DEF FcbInv, FcbState
<1>2. \A q \in Procs, d \in Fds : fdtable[q][d] = f => <<q, d>> \in UsersOf(f)
  BY DEF UsersOf
<1>3. Cardinality(UsersOf(f)) = 0
  BY <1>1, FS_EmptySet
<1> QED BY <1>1, <1>2, <1>3

(* The head of the idle queue is taken, ...                                *)
LEMMA IdleTail ==
  ASSUME FcbInv, idle # <<>>, idle' = Tail(idle)
  PROVE  /\ Head(idle) \in Fcbs /\ IsIdle(Head(idle))
         /\ idle' \in Seq(Fcbs)
         /\ \A i, j \in DOMAIN idle' : idle'[i] = idle'[j] => i = j
         /\ \A f : IsIdle(f)' <=> IsIdle(f) /\ f # Head(idle)
<1>1. /\ idle \in Seq(Fcbs) /\ Len(idle) \in Nat /\ Len(idle) > 0
      /\ \A i, j \in DOMAIN idle : idle[i] = idle[j] => i = j
      /\ DOMAIN idle = 1 .. Len(idle)
  BY DEF FcbInv
<1>2. /\ idle' \in Seq(Fcbs) /\ Len(idle') = Len(idle) - 1
      /\ DOMAIN idle' = 1 .. Len(idle) - 1
      /\ \A i \in 1 .. Len(idle) - 1 : idle'[i] = idle[i + 1]
  BY <1>1
<1>3. Head(idle) = idle[1] /\ Head(idle) \in Fcbs
  BY <1>1
<1>4. \A i, j \in DOMAIN idle' : idle'[i] = idle'[j] => i = j
  <2> TAKE i, j \in DOMAIN idle'
  <2>1. i + 1 \in DOMAIN idle /\ j + 1 \in DOMAIN idle
    BY <1>1, <1>2
  <2> QED BY <1>1, <1>2, <2>1
<1>5. \A f : IsIdle(f)' <=> IsIdle(f) /\ f # Head(idle)
  <2> TAKE f
  <2>1. ASSUME IsIdle(f)' PROVE IsIdle(f) /\ f # Head(idle)
    <3>1. PICK i \in DOMAIN idle' : idle'[i] = f
      BY <2>1 DEF IsIdle
    <3>2. i + 1 \in DOMAIN idle /\ 1 \in DOMAIN idle /\ i + 1 # 1
      BY <1>1, <1>2
    <3>3. idle[i + 1] = f
      BY <1>2, <3>1
    <3> QED BY <1>1, <1>3, <3>2, <3>3 DEF IsIdle
  <2>2. ASSUME IsIdle(f), f # Head(idle) PROVE IsIdle(f)'
    <3>1. PICK i \in DOMAIN idle : idle[i] = f
      BY <2>2 DEF IsIdle
    <3>2. i # 1
      BY <1>3, <2>2, <3>1
    <3>3. i - 1 \in DOMAIN idle' /\ idle'[i - 1] = idle[(i - 1) + 1] /\ (i - 1) + 1 = i
      BY <1>1, <1>2, <3>1, <3>2
    <3>4. idle'[i - 1] = f
      BY <3>1, <3>3
    <3> QED BY <3>3, <3>4 DEF IsIdle
  <2> QED BY <2>1, <2>2
<1>6. IsIdle(Head(idle))
  BY <1>1, <1>3 DEF IsIdle
<1> QED BY <1>2, <1>3, <1>4, <1>5, <1>6

(* ... and one comes back at its end.                                      *)
LEMMA IdleAppend ==
  ASSUME FcbInv, NEW g \in Fcbs, ~IsIdle(g), idle' = Append(idle, g)
  PROVE  /\ idle' \in Seq(Fcbs)
         /\ \A i, j \in DOMAIN idle' : idle'[i] = idle'[j] => i = j
         /\ \A f : IsIdle(f)' <=> IsIdle(f) \/ f = g
<1>1. /\ idle \in Seq(Fcbs) /\ Len(idle) \in Nat
      /\ \A i, j \in DOMAIN idle : idle[i] = idle[j] => i = j
      /\ DOMAIN idle = 1 .. Len(idle)
      /\ \A i \in DOMAIN idle : idle[i] # g
  BY DEF FcbInv, IsIdle
<1>2. /\ idle' \in Seq(Fcbs)
      /\ DOMAIN idle' = 1 .. Len(idle) + 1
      /\ \A i \in 1 .. Len(idle) : idle'[i] = idle[i]
      /\ idle'[Len(idle) + 1] = g
  BY <1>1
<1>3. \A i, j \in DOMAIN idle' : idle'[i] = idle'[j] => i = j
  <2> TAKE i, j \in DOMAIN idle'
  <2>1. i \in DOMAIN idle \/ i = Len(idle) + 1
    BY <1>1, <1>2
  <2>2. j \in DOMAIN idle \/ j = Len(idle) + 1
    BY <1>1, <1>2
  <2> QED BY <1>1, <1>2, <2>1, <2>2
<1>4. \A f : IsIdle(f)' <=> IsIdle(f) \/ f = g
  <2> TAKE f
  <2>1. IsIdle(f)' => IsIdle(f) \/ f = g
    <3> SUFFICES ASSUME NEW i \in DOMAIN idle', idle'[i] = f
                 PROVE  IsIdle(f) \/ f = g
      BY DEF IsIdle
    <3>1. i \in DOMAIN idle \/ i = Len(idle) + 1
      BY <1>1, <1>2
    <3> QED BY <1>1, <1>2, <3>1 DEF IsIdle
  <2>2. IsIdle(f) => IsIdle(f)'
    BY <1>1, <1>2 DEF IsIdle
  <2>3. f = g => IsIdle(f)'
    <3>1. Len(idle) + 1 \in DOMAIN idle'
      BY <1>1, <1>2
    <3> QED BY <1>2, <3>1 DEF IsIdle
  <2> QED BY <2>1, <2>2, <2>3
<1> QED BY <1>2, <1>3, <1>4

(* The lowest descriptor of a set is one of it.                            *)
LEMMA LowestFd ==
  ASSUME NEW S \in SUBSET Fds, S # {}
  PROVE  Lowest(S) \in S
<1>1. S \subseteq Nat
  BY FilesAssumption DEF Fds
<1>2. \E x \in S : \A y \in S : x <= y
  BY <1>1, LowestExists
<1> QED BY <1>2 DEF Lowest

(* A step of p that changes one of its descriptors and at most the fcbs it *)
(* leads to.                                                               *)
LEMMA FdStep ==
  ASSUME FcbInv, NEW p \in alive, NEW fd \in Fds, NEW g \in Fcbs \cup {-1},
         fdtable' = [fdtable EXCEPT ![p][fd] = g], UNCHANGED alive,
         LocalsOK', FilesOK', idle' \in Seq(Fcbs),
         \A i, j \in DOMAIN idle' : idle'[i] = idle'[j] => i = j,
         idle' # <<>> => fwait' = {},
         \A q \in Procs \ {p} : loc'[q] = loc[q] /\ pc'[q] = pc[q],
         \A q \in Procs \ {p}, d \in Fds :
            Bare(q, d) => files'[fdtable[q][d]].count = 0,
         \A f \in Fcbs : FcbState(f)', Control(p)'
  PROVE  FcbInv'
<1>1. p \in Procs /\ fdtable \in [Procs -> [Fds -> Fcbs \cup {-1}]]
  BY DEF FcbInv
<1>2. fdtable' \in [Procs -> [Fds -> Fcbs \cup {-1}]]
  BY <1>1
<1>3. \A q \in Procs \ {p} : fdtable'[q] = fdtable[q]
  BY <1>1
<1>4. \A q \in Procs \ {p} : Control(q)'
  BY <1>3, ControlKept
<1>5. \A q \in Procs : Control(q)'
  BY <1>4
<1> QED BY <1>2, <1>5 DEF FcbInv

(* The free descriptors of p when fd of p gets an fcb.                     *)
LEMMA FreeFdsSet ==
  ASSUME FcbInv, NEW p \in Procs, NEW fd \in Fds, NEW g,
         fdtable' = [fdtable EXCEPT ![p][fd] = g]
  PROVE  FreeFds(p)' = IF g = -1 THEN FreeFds(p) \cup {fd} ELSE FreeFds(p) \ {fd}
<1>1. \A d \in Fds : fdtable'[p][d] = IF d = fd THEN g ELSE fdtable[p][d]
  BY DEF FcbInv
<1>2. FreeFds(p)' = {d \in Fds : fdtable'[p][d] = -1}
  BY DEF FreeFds
<1> QED BY <1>1, <1>2 DEF FreeFds

(* open() takes the first idle fcb, which no descriptor names.             *)
LEMMA FcbOpen ==
  ASSUME FcbInv, NEW p \in Procs, Open(p)
  PROVE  FcbInv'
<1> DEFINE f == Head(idle)
           fd == Lowest(FreeFds(p))
           sized == loc[p].call.sized
           k == [NoLoc EXCEPT !.obj = IF sized THEN loc[p].cur ELSE None]
           l == IF sized THEN "size" ELSE "user"
<1>1. /\ p \in alive /\ LocalsOK /\ FilesOK /\ Control(p)
      /\ fdtable \in [Procs -> [Fds -> Fcbs \cup {-1}]]
  BY Busy DEF Open, Is, Dead3, FcbInv
<1>2. /\ idle # <<>> /\ idle' = Tail(idle) /\ UNCHANGED <<alive, fwait, icwd>>
      /\ fdtable' = [fdtable EXCEPT ![p][fd] = f]
      /\ files' = [files EXCEPT ![f] = [count |-> @.count + 1, inode |-> loc[p].cur]]
      /\ Goto(p, l) /\ loc' = [loc EXCEPT ![p] = k]
  BY DEF Open, Gave
<1>3. fd \in Fds /\ fdtable[p][fd] = -1
  <2>1. FreeFds(p) # {}
    BY <1>1 DEF Control, Open, Is
  <2> QED BY <2>1, LowestFd DEF FreeFds
<1>4. /\ f \in Fcbs /\ IsIdle(f) /\ idle' \in Seq(Fcbs)
      /\ \A i, j \in DOMAIN idle' : idle'[i] = idle'[j] => i = j
      /\ \A g : IsIdle(g)' <=> IsIdle(g) /\ g # f
  BY <1>2, IdleTail
<1>5. /\ files[f].count = 0 /\ Cardinality(UsersOf(f)) = 0
      /\ \A q \in Procs, d \in Fds : fdtable[q][d] # f
  BY <1>4, IdleUnused
<1>6. /\ DOMAIN k = LocFields /\ k.call.name = "none" /\ l \notin Dead3
  BY FailShape DEF LocFields, Dead3
<1> HIDE DEF f, fd, k, l
<1>7. /\ LocalsOK' /\ loc'[p] = k /\ Eff(p)' = l
      /\ \A q \in Procs \ {p} : loc'[q] = loc[q] /\ pc'[q] = pc[q]
  BY <1>1, <1>2, <1>6, Moves DEF LocalsOK
<1>8. /\ FilesOK' /\ files'[f].count = 1
      /\ \A g \in Fcbs \ {f} : files'[g] = files[g]
  BY <1>1, <1>2, <1>4, <1>5 DEF FilesOK
<1>u. UsersChange(p, fd, f)
  BY <1>1, <1>2, <1>3, <1>4, UsersStep
<1>9. \A g \in Fcbs : FcbState(g)'
  <2> TAKE g \in Fcbs
  <2>1. FcbState(g)
    BY DEF FcbInv
  <2>2. -1 \notin Fcbs
    BY FilesAssumption DEF Fcbs
  <2>3. CASE g = f
    <3>1. Cardinality(UsersOf(g)') = 1
      BY <1>3, <1>5, <1>u, <2>2, <2>3 DEF UsersChange
    <3> QED BY <1>4, <1>8, <2>3, <3>1 DEF FcbState
  <2>4. CASE g # f
    <3>1. UsersOf(g)' = UsersOf(g)
      BY <1>3, <1>u, <2>2, <2>4 DEF UsersChange
    <3> QED BY <1>4, <1>8, <2>1, <2>4, <3>1 DEF FcbState
  <2> QED BY <2>3, <2>4
<1>10. Control(p)'
  <2>1. l \in {"user", "size"}
    BY DEF l
  <2> HIDE DEF Eff, FreeFds, Bare
  <2> QED BY <1>1, <1>2, <1>6, <1>7, <2>1 DEF Control
<1>11. \A q \in Procs \ {p}, d \in Fds : Bare(q, d) => files'[fdtable[q][d]].count = 0
  BY <1>5, <1>8 DEF Bare
<1>12. idle' # <<>> => fwait' = {}
  BY <1>2 DEF FcbInv
<1> QED BY <1>1, <1>2, <1>3, <1>4, <1>7, <1>8, <1>9, <1>10, <1>11, <1>12, FdStep

(* pipe() takes its first and its second fcb.                              *)
LEMMA FcbTake ==
  ASSUME FcbInv, NEW p \in Procs, PipeFirst(p) \/ PipeSecond(p)
  PROVE  FcbInv'
<1> DEFINE f == Head(idle)
           fd == Lowest(FreeFds(p))
           k == IF PipeFirst(p) THEN [loc[p] EXCEPT !.fd = fd] ELSE [loc[p] EXCEPT !.no = fd]
           l == IF PipeFirst(p) THEN "pipe2" ELSE "pipe3"
<1>0. pc[p] = IF PipeFirst(p) THEN "pipe1" ELSE "pipe2"
  BY DEF PipeFirst, PipeSecond
<1>1. /\ p \in alive /\ Eff(p) = pc[p] /\ LocalsOK /\ FilesOK /\ Control(p)
      /\ fdtable \in [Procs -> [Fds -> Fcbs \cup {-1}]]
  BY <1>0, Busy DEF Dead3, FcbInv
<1>2. /\ idle # <<>> /\ idle' = Tail(idle) /\ UNCHANGED <<alive, fwait, icwd, files>>
      /\ fdtable' = [fdtable EXCEPT ![p][fd] = f]
      /\ Goto(p, l) /\ FreeFds(p) # {} /\ loc' = [loc EXCEPT ![p] = k]
  <2>1. CASE PipeFirst(p)
    <3>1. FreeFds(p) # {}
      BY <1>0, <1>1, <2>1 DEF Control
    <3> QED BY <2>1, <3>1 DEF PipeFirst, Gave
  <2>2. CASE ~PipeFirst(p)
    BY <2>2 DEF PipeSecond, Gave
  <2> QED BY <2>1, <2>2
<1>3. fd \in Fds /\ fdtable[p][fd] = -1
  BY <1>2, LowestFd DEF FreeFds
<1>4. /\ f \in Fcbs /\ IsIdle(f) /\ idle' \in Seq(Fcbs)
      /\ \A i, j \in DOMAIN idle' : idle'[i] = idle'[j] => i = j
      /\ \A g : IsIdle(g)' <=> IsIdle(g) /\ g # f
  BY <1>2, IdleTail
<1>5. /\ files[f].count = 0 /\ Cardinality(UsersOf(f)) = 0
      /\ \A q \in Procs, d \in Fds : fdtable[q][d] # f
  BY <1>4, IdleUnused
<1>6. /\ DOMAIN k = LocFields /\ k.call = loc[p].call /\ l \notin Dead3
      /\ l = "pipe2" => k.fd = fd
      /\ l = "pipe3" => k.fd = loc[p].fd /\ k.no = fd
      /\ \/ l = "pipe2" /\ pc[p] = "pipe1"
         \/ l = "pipe3" /\ pc[p] = "pipe2"
  BY <1>0, <1>1 DEF LocFields, Dead3, LocalsOK
<1> HIDE DEF f, fd, k, l
<1>7. /\ LocalsOK' /\ loc'[p] = k /\ Eff(p)' = l
      /\ \A q \in Procs \ {p} : loc'[q] = loc[q] /\ pc'[q] = pc[q]
  BY <1>1, <1>2, <1>6, Moves DEF LocalsOK
<1>8. FilesOK'
  BY <1>1, <1>2 DEF FilesOK
<1>u. UsersChange(p, fd, f)
  BY <1>1, <1>2, <1>3, <1>4, UsersStep
<1>9. \A g \in Fcbs : FcbState(g)'
  <2> TAKE g \in Fcbs
  <2>1. FcbState(g)
    BY DEF FcbInv
  <2>2. -1 \notin Fcbs
    BY FilesAssumption DEF Fcbs
  <2>3. CASE g = f
    <3>1. Cardinality(UsersOf(g)') = 1
      BY <1>3, <1>5, <1>u, <2>2, <2>3 DEF UsersChange
    <3> QED BY <1>2, <1>4, <1>5, <2>3, <3>1 DEF FcbState
  <2>4. CASE g # f
    <3>1. UsersOf(g)' = UsersOf(g)
      BY <1>3, <1>u, <2>2, <2>4 DEF UsersChange
    <3> QED BY <1>2, <1>4, <2>1, <2>4, <3>1 DEF FcbState
  <2> QED BY <2>3, <2>4
<1>10. /\ fdtable'[p][fd] \in Fcbs /\ files'[fdtable'[p][fd]].count = 0
       /\ \A d : Bare(p, d) => d # fd /\ Bare(p, d)'
  <2>1. \A d \in Fds : fdtable'[p][d] = IF d = fd THEN f ELSE fdtable[p][d]
    BY <1>1, <1>2
  <2>2. -1 \notin Fcbs
    BY FilesAssumption DEF Fcbs
  <2>3. \A d : Bare(p, d) => d # fd
    BY <1>3, <2>2 DEF Bare
  <2>4. \A d : Bare(p, d) => Bare(p, d)'
    BY <1>2, <2>1, <2>3 DEF Bare
  <2> QED BY <1>2, <1>3, <1>4, <1>5, <2>1, <2>3, <2>4
<1>11. Control(p)'
  <2>1. loc[p].call.name = "none"
    BY <1>1, <1>6 DEF Control
  <2>2. l = "pipe3" => Bare(p, loc[p].fd)
    BY <1>1, <1>6 DEF Control
  <2>3. p \in alive' /\ loc'[p].call.name = "none" /\ Eff(p)' \in {"pipe2", "pipe3"}
    BY <1>1, <1>2, <1>6, <1>7, <2>1
  <2>4. Bare(p, loc[p].fd)'
    BY <1>3, <1>6, <1>7, <1>10, <2>2 DEF Bare
  <2>5. Eff(p)' = "pipe3" => Bare(p, loc[p].no)' /\ loc'[p].no # loc'[p].fd
    BY <1>3, <1>6, <1>7, <1>10, <2>2 DEF Bare
  <2> HIDE DEF Eff, FreeFds, Bare
  <2> QED BY <2>3, <2>4, <2>5 DEF Control
<1>12. \A q \in Procs \ {p}, d \in Fds : Bare(q, d) => files'[fdtable[q][d]].count = 0
  BY <1>2 DEF Bare
<1>13. idle' # <<>> => fwait' = {}
  BY <1>2 DEF FcbInv
<1> QED BY <1>1, <1>2, <1>3, <1>4, <1>7, <1>8, <1>9, <1>11, <1>12, <1>13, FdStep

(* fcbno_free(): the last close, and pipe() without a second descriptor.   *)
LEMMA FcbGive ==
  ASSUME FcbInv, NEW p \in Procs, FcbFree(p) \/ PipeNoFd(p)
  PROVE  FcbInv'
<1> DEFINE fd == loc[p].fd
           f == fdtable[p][fd]
           k == IF FcbFree(p) THEN [loc[p] EXCEPT !.fd = -1] ELSE NoLoc
           l == IF FcbFree(p) THEN AfterClose(loc[p].call) ELSE "user"
<1>0. pc[p] = IF FcbFree(p) THEN "ffree" ELSE "pipe2"
  BY DEF FcbFree, PipeNoFd
<1>1. /\ p \in alive /\ Eff(p) = pc[p] /\ LocalsOK /\ FilesOK /\ Control(p)
      /\ fdtable \in [Procs -> [Fds -> Fcbs \cup {-1}]]
  BY <1>0, Busy DEF Dead3, FcbInv
<1>2. /\ idle' = Append(idle, f) /\ fwait' = {} /\ UNCHANGED <<alive, icwd, files>>
      /\ fdtable' = [fdtable EXCEPT ![p][fd] = -1]
      /\ Goto(p, l) /\ loc' = [loc EXCEPT ![p] = k]
  BY DEF FcbFree, PipeNoFd, fcbno_free, Gave, Return
<1>3. fd \in Fds /\ f \in Fcbs /\ files[f].count = 0
  BY <1>0, <1>1 DEF Control, Bare
<1>4. /\ ~IsIdle(f) /\ UsersOf(f) = {<<p, fd>>}
      /\ \A q \in Procs, d \in Fds : fdtable[q][d] = f => q = p /\ d = fd
  BY <1>3, OneUser
<1>5. /\ idle' \in Seq(Fcbs)
      /\ \A i, j \in DOMAIN idle' : idle'[i] = idle'[j] => i = j
      /\ \A g : IsIdle(g)' <=> IsIdle(g) \/ g = f
  BY <1>2, <1>3, <1>4, IdleAppend
<1>6. /\ DOMAIN k = LocFields /\ l \notin Dead3
      /\ \/ l = "user" /\ k.call.name = "none"
         \/ l = "dupfd" /\ k.call.name = "dup2" /\ DupArgs(k.call)
         \/ l = "exit" /\ k.call.name = "exit"
  <2>1. CASE FcbFree(p)
    <3>1. DOMAIN k = LocFields /\ k.call = loc[p].call
      BY <1>1, <2>1 DEF LocalsOK, LocFields
    <3>2. /\ loc[p].call.name \in {"none", "dup2", "exit"}
          /\ loc[p].call.name = "dup2" => DupArgs(loc[p].call)
      BY <1>0, <1>1, <2>1 DEF Control
    <3> QED BY <2>1, <3>1, <3>2 DEF AfterClose, Dead3
  <2>2. CASE ~FcbFree(p)
    BY <2>2, FailShape DEF Dead3
  <2> QED BY <2>1, <2>2
<1> HIDE DEF f, fd, k, l
<1>7. /\ LocalsOK' /\ loc'[p] = k /\ Eff(p)' = l
      /\ \A q \in Procs \ {p} : loc'[q] = loc[q] /\ pc'[q] = pc[q]
  BY <1>1, <1>2, <1>6, Moves DEF LocalsOK
<1>8. FilesOK'
  BY <1>1, <1>2 DEF FilesOK
<1>u. UsersChange(p, fd, -1)
  BY <1>1, <1>2, <1>3, UsersStep
<1>f. f = fdtable[p][fd] /\ -1 \notin Fcbs
  BY FilesAssumption DEF f, Fcbs
<1>9. \A g \in Fcbs : FcbState(g)'
  <2> TAKE g \in Fcbs
  <2>1. FcbState(g)
    BY DEF FcbInv
  <2>2. CASE g = f
    <3>1. UsersOf(g)' = {}
      BY <1>3, <1>4, <1>f, <1>u, <2>2 DEF UsersChange
    <3> QED BY <1>2, <1>3, <1>5, <2>2, <3>1 DEF FcbState
  <2>3. CASE g # f
    <3>1. UsersOf(g)' = UsersOf(g)
      BY <1>f, <1>u, <2>3 DEF UsersChange
    <3> QED BY <1>2, <1>5, <2>1, <2>3, <3>1 DEF FcbState
  <2> QED BY <2>2, <2>3
<1>10. FreeFds(p)' # {}
  BY <1>2, <1>3, FreeFdsSet
<1>11. Control(p)'
  <2> HIDE DEF Eff, FreeFds, Bare, DupArgs
  <2> QED BY <1>1, <1>2, <1>6, <1>7, <1>10 DEF Control
<1>12. \A q \in Procs \ {p}, d \in Fds : Bare(q, d) => files'[fdtable[q][d]].count = 0
  BY <1>2 DEF Bare
<1> QED BY <1>1, <1>2, <1>3, <1>5, <1>7, <1>8, <1>9, <1>11, <1>12, FdStep

(* The last close of an fcb goes on to free it.                            *)
LEMMA ClosePutMoves ==
  ASSUME NEW p \in Procs, NEW fd, ClosePut(p, fd, "ffree"), LocalsOK,
         DOMAIN icwd' = Procs
  PROVE  /\ LocalsOK' /\ Eff(p)' = "ffree"
         /\ loc'[p].call = loc[p].call /\ loc'[p].fd = fd
         /\ \A q \in Procs \ {p} : loc'[q] = loc[q] /\ pc'[q] = pc[q]
<1> DEFINE s == files[fdtable[p][fd]].inode
           k == [loc[p] EXCEPT !.fd = fd]
<1>1. DOMAIN k = LocFields /\ k.call = loc[p].call /\ k.fd = fd
  BY DEF LocalsOK, LocFields
<1>2. \/ Put(p, slot, imtx, s, k, "ffree")
      \/ Goto(p, "ffree") /\ loc' = [loc EXCEPT ![p] = k]
  <2>1. CASE slot[s].mode \in {"reg", "dir"}
    BY <2>1 DEF ClosePut
  <2>2. CASE slot[s].mode = "fifo"
    BY <2>2 DEF ClosePut
  <2>3. CASE slot[s].mode \notin {"reg", "dir", "fifo"}
    BY <2>3 DEF ClosePut
  <2> QED BY <2>1, <2>2, <2>3
<1> HIDE DEF s, k
<1>3. "ffree" \notin Dead3
  BY DEF Dead3
<1>4. CASE Put(p, slot, imtx, s, k, "ffree")
  BY <1>1, <1>3, <1>4, PutControl
<1>5. CASE Goto(p, "ffree") /\ loc' = [loc EXCEPT ![p] = k]
  BY <1>1, <1>3, <1>5, Moves
<1> QED BY <1>2, <1>4, <1>5

(* file_close() takes the descriptor from an fcb that has others, and      *)
(* leaves the last one to fcbno_free().                                    *)
LEMMA FcbClose ==
  ASSUME FcbInv, NEW p \in alive, NEW fd \in Fds, NEW l, FileClose(p, fd, l),
         fdtable[p][fd] # -1,
         \/ l = "user" /\ loc[p].call.name = "none"
         \/ l = "dupfd" /\ loc[p].call.name = "dup2"
         \/ l = "exit" /\ loc[p].call.name = "exit"
  PROVE  FcbInv'
<1> DEFINE f == fdtable[p][fd]
<1>1. /\ p \in Procs /\ LocalsOK /\ FilesOK /\ Control(p)
      /\ fdtable \in [Procs -> [Fds -> Fcbs \cup {-1}]]
      /\ idle \in Seq(Fcbs)
      /\ \A i, j \in DOMAIN idle : idle[i] = idle[j] => i = j
      /\ idle # <<>> => fwait = {}
  BY DEF FcbInv
<1>2. f \in Fcbs /\ files[f].count \in Nat /\ FcbState(f)
  BY <1>1 DEF FilesOK, FcbInv
<1>3. CASE files[f].count = 0
  BY <1>1, <1>3, FcbPanic DEF FileClose, Panic, fileVars, procVars
<1>4. CASE files[f].count # 0
  <2>1. /\ files' = [files EXCEPT ![f].count = @ - 1]
        /\ UNCHANGED <<idle, fwait, alive, icwd>>
        /\ IF files[f].count > 1
           THEN /\ fdtable' = [fdtable EXCEPT ![p][fd] = -1]
                /\ Goto(p, l) /\ UNCHANGED loc
           ELSE ClosePut(p, fd, "ffree") /\ UNCHANGED fdtable
    BY <1>4 DEF FileClose, Gave
  <2>2. /\ FilesOK' /\ files'[f].count = files[f].count - 1
        /\ \A g \in Fcbs \ {f} : files'[g] = files[g]
    BY <1>1, <1>2, <1>4, <2>1 DEF FilesOK
  <2>3. \A q \in Procs \ {p}, d \in Fds : Bare(q, d) => files'[fdtable[q][d]].count = 0
    BY <1>4, <2>2 DEF Bare
  <2>4. ~IsIdle(f) /\ Cardinality(UsersOf(f)) = files[f].count
    BY <1>2, <1>4 DEF FcbState
  <2>5. \A g : IsIdle(g)' <=> IsIdle(g)
    BY <2>1 DEF IsIdle
  <2>6. loc[p].call.name = "dup2" => DupArgs(loc[p].call)
    BY <1>1 DEF Control
  <2>7. -1 \notin Fcbs
    BY FilesAssumption DEF Fcbs
  <2>n. DOMAIN icwd' = Procs
    BY <1>1, <2>1 DEF LocalsOK
  <2>8. CASE files[f].count > 1
    <3>1. /\ fdtable' = [fdtable EXCEPT ![p][fd] = -1]
          /\ Goto(p, l) /\ UNCHANGED loc
      BY <2>1, <2>8
    <3>2. DOMAIN loc[p] = LocFields /\ l \notin Dead3
      BY <1>1 DEF LocalsOK, Dead3
    <3>3. /\ LocalsOK' /\ Eff(p)' = l /\ loc'[p] = loc[p]
          /\ \A q \in Procs \ {p} : loc'[q] = loc[q] /\ pc'[q] = pc[q]
      BY <1>1, <2>n, <3>1, <3>2, Moves
    <3>4. UsersChange(p, fd, -1)
      BY <1>1, <3>1, UsersStep
    <3>5. \A g \in Fcbs : FcbState(g)'
      <4> TAKE g \in Fcbs
      <4>1. FcbState(g)
        BY DEF FcbInv
      <4>2. CASE g = f
        <5>1. Cardinality(UsersOf(g)') = files[f].count - 1
          BY <2>4, <2>7, <3>4, <4>2 DEF UsersChange
        <5>2. Cardinality(UsersOf(g))' = files'[g].count
          BY <2>2, <4>2, <5>1
        <5> QED BY <2>4, <2>5, <4>2, <5>2 DEF FcbState
      <4>3. CASE g # f
        <5>1. UsersOf(g)' = UsersOf(g)
          BY <2>7, <3>4, <4>3 DEF UsersChange
        <5> QED BY <2>2, <2>5, <4>1, <4>3, <5>1 DEF FcbState
      <4> QED BY <4>2, <4>3
    <3>6. Control(p)'
      <4> HIDE DEF Eff, FreeFds, Bare, DupArgs
      <4>1. p \in alive'
        BY <2>1
      <4> QED BY <2>6, <3>3, <4>1 DEF Control, DupArgs
    <3>7. idle' \in Seq(Fcbs) /\ \A i, j \in DOMAIN idle' : idle'[i] = idle'[j] => i = j
      BY <1>1, <2>1
    <3>8. idle' # <<>> => fwait' = {}
      BY <1>1, <2>1
    <3> HIDE DEF f
    <3> QED BY <2>1, <2>2, <2>3, <3>1, <3>3, <3>5, <3>6, <3>7, <3>8, FdStep DEF f
  <2>9. CASE files[f].count = 1
    <3>1. ClosePut(p, fd, "ffree") /\ UNCHANGED fdtable
      BY <2>1, <2>9
    <3>2. /\ LocalsOK' /\ Eff(p)' = "ffree"
          /\ loc'[p].call = loc[p].call /\ loc'[p].fd = fd
          /\ \A q \in Procs \ {p} : loc'[q] = loc[q] /\ pc'[q] = pc[q]
      BY <1>1, <2>n, <3>1, ClosePutMoves
    <3>3. fdtable' = [fdtable EXCEPT ![p][fd] = f]
      BY <1>1, <3>1
    <3>4. \A g \in Fcbs : UsersOf(g)' = UsersOf(g)
      BY <3>1 DEF UsersOf
    <3>5. \A g \in Fcbs : FcbState(g)'
      <4> TAKE g \in Fcbs
      <4>1. FcbState(g)
        BY DEF FcbInv
      <4>2. CASE g = f
        BY <2>2, <2>4, <2>5, <2>9, <3>4, <4>2 DEF FcbState
      <4>3. CASE g # f
        BY <2>2, <2>5, <3>4, <4>1, <4>3 DEF FcbState
      <4> QED BY <4>2, <4>3
    <3>6. Bare(p, loc[p].fd)'
      BY <1>2, <2>2, <2>9, <3>1, <3>2 DEF Bare
    <3>7. Control(p)'
      <4> HIDE DEF Eff, FreeFds, Bare
      <4>1. p \in alive'
        BY <2>1
      <4> QED BY <2>6, <3>2, <3>6, <4>1 DEF Control, DupArgs
    <3>8. idle' \in Seq(Fcbs) /\ \A i, j \in DOMAIN idle' : idle'[i] = idle'[j] => i = j
      BY <1>1, <2>1
    <3>9. idle' # <<>> => fwait' = {}
      BY <1>1, <2>1
    <3> QED BY <1>2, <2>1, <2>2, <2>3, <3>2, <3>3, <3>5, <3>7, <3>8, <3>9, FdStep
  <2> QED BY <1>2, <1>4, <2>8, <2>9
<1> QED BY <1>3, <1>4

(* A call returns.                                                         *)
LEMMA ReturnMoves ==
  ASSUME NEW p \in Procs, LocalsOK, UNCHANGED icwd,
         Goto(p, "user"), loc' = [loc EXCEPT ![p] = NoLoc]
  PROVE  /\ LocalsOK' /\ pc'[p] = "user" /\ loc'[p] = NoLoc /\ Eff(p)' = "user"
         /\ \A q \in Procs \ {p} : loc'[q] = loc[q] /\ pc'[q] = pc[q]
<1>1. DOMAIN NoLoc = LocFields
  BY FailShape
<1>2. pc'[p] = "user" /\ loc'[p] = NoLoc
  BY DEF Goto, LocalsOK
<1>3. \A q \in Procs \ {p} : loc'[q] = loc[q] /\ pc'[q] = pc[q]
  BY DEF Goto, LocalsOK
<1>4. LocalsOK'
  BY <1>1 DEF Goto, LocalsOK
<1> QED BY <1>2, <1>3, <1>4 DEF Eff

(* close(), dup2() onto an open descriptor and the closes of exit.         *)
LEMMA FcbCloses ==
  ASSUME FcbInv, NEW p \in Procs,
         (\E fd \in Fds : Close(p, fd)) \/ Dup2Close(p) \/ ExitClose(p)
  PROVE  FcbInv'
<1>0. LocalsOK /\ DOMAIN loc[p] = LocFields /\ DOMAIN icwd = Procs
  BY DEF FcbInv, LocalsOK
<1>1. ASSUME NEW fd \in Fds, Close(p, fd) PROVE FcbInv'
  <2>1. p \in alive /\ loc[p].call.name = "none"
    BY <1>1, InUser DEF Close
  <2> QED BY <1>1, <2>1, FcbClose DEF Close
<1>2. CASE Dup2Close(p)
  <2> DEFINE new == loc[p].call.new
  <2>1. p \in alive /\ loc[p].call.name = "dup2" /\ new \in Fds
    BY <1>2, Busy DEF Dup2Close, Dead3, Control, DupArgs
  <2>2. CASE fdtable[p][new] = -1
    <3>1. Goto(p, "dupfd") /\ UNCHANGED <<files, idle, fdtable, alive, fwait, loc, icwd>>
      BY <1>2, <2>2 DEF Dup2Close, fileVars, procVars
    <3>2. DupArgs(loc[p].call)
      BY <2>1 DEF FcbInv, Control
    <3> QED BY <1>0, <2>1, <3>1, <3>2, FdMove DEF Dead3
  <2>3. CASE fdtable[p][new] # -1
    <3>1. FileClose(p, new, "dupfd")
      BY <1>2, <2>3 DEF Dup2Close
    <3> QED BY <2>1, <2>3, <3>1, FcbClose
  <2> QED BY <2>2, <2>3
<1>3. CASE ExitClose(p)
  <2> DEFINE open == Fds \ FreeFds(p)
             fd == Lowest(open)
  <2>1. p \in alive /\ loc[p].call.name = "exit"
    BY <1>3, Busy DEF ExitClose, Dead3, Control
  <2>2. open # {} /\ FileClose(p, fd, "exit")
    BY <1>3 DEF ExitClose
  <2>3. fd \in open
    BY <2>2, LowestFd
  <2>4. fd \in Fds /\ fdtable[p][fd] # -1
    BY <2>3 DEF FreeFds
  <2> HIDE DEF fd, open
  <2> QED BY <2>1, <2>2, <2>4, FcbClose
<1> QED BY <1>1, <1>2, <1>3

(* dup() and dup2() give the fcb one descriptor more, and count it.        *)
LEMMA FcbDup ==
  ASSUME FcbInv, NEW p \in Procs, DupFd(p)
  PROVE  FcbInv'
<1> DEFINE c == loc[p].call
           f == fdtable[p][c.old]
           free == {d \in FreeFds(p) : d >= c.new}
           fd == Lowest(free)
<1>1. /\ p \in alive /\ LocalsOK /\ FilesOK /\ DupArgs(c)
      /\ fdtable \in [Procs -> [Fds -> Fcbs \cup {-1}]]
      /\ idle \in Seq(Fcbs)
      /\ \A i, j \in DOMAIN idle : idle[i] = idle[j] => i = j
      /\ idle # <<>> => fwait = {}
  BY Busy DEF DupFd, Dead3, Control, FcbInv
<1>2. \/ Panic
      \/ UNCHANGED <<fdtable, files>> /\ Return(p) /\ UNCHANGED <<idle, fwait, alive, icwd>>
      \/ /\ free # {} /\ f # -1 /\ files[f].count # 0
         /\ fdtable' = [fdtable EXCEPT ![p][fd] = f]
         /\ files' = [files EXCEPT ![f].count = @ + 1]
         /\ Return(p) /\ UNCHANGED <<idle, fwait, alive, icwd>>
  BY DEF DupFd, Gave
<1>n. DOMAIN NoLoc = LocFields /\ NoLoc.call.name = "none" /\ DOMAIN icwd = Procs
  BY <1>1, FailShape DEF LocalsOK
<1>3. CASE Panic
  BY <1>3, FcbPanic DEF Panic, fileVars, procVars
<1>4. CASE UNCHANGED <<fdtable, files>> /\ Return(p) /\ UNCHANGED <<idle, fwait, alive, icwd>>
  BY <1>1, <1>n, <1>4, PathMove DEF Return
<1>5. CASE /\ free # {} /\ f # -1 /\ files[f].count # 0
           /\ fdtable' = [fdtable EXCEPT ![p][fd] = f]
           /\ files' = [files EXCEPT ![f].count = @ + 1]
           /\ Return(p) /\ UNCHANGED <<idle, fwait, alive, icwd>>
  <2>1. f \in Fcbs /\ files[f].count \in Nat /\ FcbState(f)
    BY <1>1, <1>5 DEF FilesOK, FcbInv, DupArgs
  <2>2. fd \in Fds /\ fdtable[p][fd] = -1
    <3>1. free \in SUBSET Fds
      BY DEF FreeFds
    <3>2. fd \in free
      BY <1>5, <3>1, LowestFd
    <3> QED BY <3>2 DEF FreeFds
  <2>3. /\ fdtable' = [fdtable EXCEPT ![p][fd] = f]
        /\ files' = [files EXCEPT ![f].count = @ + 1] /\ files[f].count # 0
        /\ Goto(p, "user") /\ loc' = [loc EXCEPT ![p] = NoLoc]
        /\ UNCHANGED <<idle, fwait, alive, icwd>>
    BY <1>5 DEF Return
  <2> HIDE DEF f, fd, free, c
  <2>4. /\ LocalsOK' /\ loc'[p] = NoLoc /\ Eff(p)' = "user"
        /\ \A q \in Procs \ {p} : loc'[q] = loc[q] /\ pc'[q] = pc[q]
    BY <1>1, <2>3, ReturnMoves
  <2>5. /\ FilesOK' /\ files'[f].count = files[f].count + 1
        /\ \A g \in Fcbs \ {f} : files'[g] = files[g]
    BY <1>1, <2>1, <2>3 DEF FilesOK
  <2>6. UsersChange(p, fd, f)
    BY <1>1, <2>1, <2>2, <2>3, UsersStep
  <2>7. -1 \notin Fcbs
    BY FilesAssumption DEF Fcbs
  <2>8. \A g \in Fcbs : FcbState(g)'
    <3> TAKE g \in Fcbs
    <3>1. FcbState(g) /\ (IsIdle(g)' <=> IsIdle(g))
      BY <2>3 DEF FcbInv, IsIdle
    <3>2. CASE g = f
      <4>1. ~IsIdle(g) /\ Cardinality(UsersOf(g)) = files[g].count
        BY <2>3, <3>1, <3>2 DEF FcbState
      <4>2. Cardinality(UsersOf(g)') = files[f].count + 1
        BY <2>2, <2>6, <2>7, <3>2, <4>1 DEF UsersChange
      <4>3. Cardinality(UsersOf(g))' = files'[g].count
        BY <2>5, <3>2, <4>2
      <4> QED BY <3>1, <4>1, <4>3 DEF FcbState
    <3>3. CASE g # f
      <4>1. UsersOf(g)' = UsersOf(g)
        BY <2>2, <2>6, <2>7, <3>3 DEF UsersChange
      <4> QED BY <2>5, <3>1, <3>3, <4>1 DEF FcbState
    <3> QED BY <3>2, <3>3
  <2>9. Control(p)'
    <3> HIDE DEF Eff, FreeFds, Bare
    <3>1. p \in alive'
      BY <1>1, <2>3
    <3> QED BY <1>n, <2>4, <3>1 DEF Control
  <2>10. \A q \in Procs \ {p}, d \in Fds : Bare(q, d) => files'[fdtable[q][d]].count = 0
    BY <2>3, <2>5 DEF Bare
  <2>11. idle' \in Seq(Fcbs) /\ \A i, j \in DOMAIN idle' : idle'[i] = idle'[j] => i = j
    BY <1>1, <2>3
  <2>12. idle' # <<>> => fwait' = {}
    BY <1>1, <2>3
  <2> QED BY <1>1, <2>1, <2>2, <2>3, <2>4, <2>5, <2>8, <2>9, <2>10, <2>11, <2>12, FdStep
<1> QED BY Zenon, <1>2, <1>3, <1>4, <1>5

(* pipe() puts one inode into both of its fcbs.                            *)
LEMMA FcbPipe ==
  ASSUME FcbInv, NEW p \in Procs, PipeInode(p)
  PROVE  FcbInv'
<1> DEFINE fd == loc[p].fd
           no == loc[p].no
           f == fdtable[p][fd]
           g == fdtable[p][no]
           s == Lowest(Free)
<1>1. /\ p \in alive /\ LocalsOK /\ FilesOK /\ Control(p) /\ Eff(p) = "pipe3"
      /\ fdtable \in [Procs -> [Fds -> Fcbs \cup {-1}]]
      /\ idle \in Seq(Fcbs)
      /\ \A i, j \in DOMAIN idle : idle[i] = idle[j] => i = j
      /\ idle # <<>> => fwait = {}
  BY Busy DEF PipeInode, Dead3, FcbInv
<1>2. /\ files' = [files EXCEPT ![f] = [count |-> @.count + 1, inode |-> s],
                                ![g] = [count |-> @.count + 1, inode |-> s]]
      /\ Goto(p, "user") /\ loc' = [loc EXCEPT ![p] = NoLoc]
      /\ UNCHANGED <<idle, fwait, alive, icwd, fdtable>>
  BY DEF PipeInode, Return, procVars
<1>3. Bare(p, fd) /\ Bare(p, no) /\ no # fd
  BY <1>1 DEF Control
<1>n. DOMAIN NoLoc = LocFields /\ NoLoc.call.name = "none" /\ DOMAIN icwd' = Procs
  BY <1>1, <1>2, FailShape DEF LocalsOK
<1>4. /\ fd \in Fds /\ no \in Fds /\ f \in Fcbs /\ g \in Fcbs
      /\ files[f].count = 0 /\ files[g].count = 0
  BY <1>3 DEF Bare
<1>5. /\ ~IsIdle(f) /\ Cardinality(UsersOf(f)) = 1
      /\ \A q \in Procs, d \in Fds : fdtable[q][d] = f => q = p /\ d = fd
  BY <1>4, OneUser
<1>6. /\ ~IsIdle(g) /\ Cardinality(UsersOf(g)) = 1
      /\ \A q \in Procs, d \in Fds : fdtable[q][d] = g => q = p /\ d = no
  BY <1>4, OneUser
<1>7. f # g
  BY <1>3, <1>4, <1>5
<1> HIDE DEF f, g, s
<1>8. /\ FilesOK' /\ files'[f].count = 1 /\ files'[g].count = 1
      /\ \A h \in Fcbs \ {f, g} : files'[h] = files[h]
  <2>1. DOMAIN files' = Fcbs
    BY <1>1, <1>2 DEF FilesOK
  <2>2. files'[g] = [count |-> 1, inode |-> s]
    BY <1>1, <1>2, <1>4, <1>7 DEF FilesOK
  <2>3. files'[f] = [count |-> 1, inode |-> s]
    BY <1>1, <1>2, <1>4, <1>7 DEF FilesOK
  <2>4. \A h \in Fcbs \ {f, g} : files'[h] = files[h]
    BY <1>1, <1>2, <1>4, <1>7 DEF FilesOK
  <2>5. FilesOK'
    <3>1. \A h \in Fcbs : DOMAIN files'[h] = {"count", "inode"} /\ files'[h].count \in Nat
      BY <1>1, <2>2, <2>3, <2>4 DEF FilesOK
    <3> QED BY <2>1, <3>1 DEF FilesOK
  <2> QED BY <2>2, <2>3, <2>4, <2>5
<1>9. /\ LocalsOK' /\ loc'[p] = NoLoc /\ Eff(p)' = "user"
      /\ \A q \in Procs \ {p} : loc'[q] = loc[q] /\ pc'[q] = pc[q]
  BY <1>1, <1>2, ReturnMoves
<1>10. \A h \in Fcbs : FcbState(h)'
  <2> TAKE h \in Fcbs
  <2>1. FcbState(h) /\ (IsIdle(h)' <=> IsIdle(h)) /\ UsersOf(h)' = UsersOf(h)
    BY <1>2 DEF FcbInv, IsIdle, UsersOf
  <2>2. CASE h \in {f, g}
    BY <1>5, <1>6, <1>8, <2>1, <2>2 DEF FcbState
  <2>3. CASE h \notin {f, g}
    BY <1>8, <2>1, <2>3 DEF FcbState
  <2> QED BY <2>2, <2>3
<1>11. Control(p)'
  <2> HIDE DEF Eff, FreeFds, Bare
  <2>1. p \in alive'
    BY <1>1, <1>2
  <2> QED BY <1>n, <1>9, <2>1 DEF Control
<1>12. \A q \in Procs \ {p}, d \in Fds : Bare(q, d) => files'[fdtable[q][d]].count = 0
  BY <1>5, <1>6, <1>8 DEF Bare
<1>13. idle' \in Seq(Fcbs) /\ \A i, j \in DOMAIN idle' : idle'[i] = idle'[j] => i = j
  BY <1>1, <1>2
<1>14. idle' # <<>> => fwait' = {}
  BY <1>1, <1>2
<1>15. fdtable' = [fdtable EXCEPT ![p][fd] = f] /\ f \in Fcbs \cup {-1} /\ UNCHANGED alive
  BY <1>1, <1>2, <1>4 DEF f
<1> QED BY <1>1, <1>4, <1>8, <1>9, <1>10, <1>11, <1>12, <1>13, <1>14, <1>15, FdStep

(* A process that has exited has no descriptors left.                      *)
LEMMA FcbGone ==
  ASSUME FcbInv, NEW p \in Procs, Gone(p)
  PROVE  FcbInv'
<1>1. /\ LocalsOK /\ FilesOK /\ FreeFds(p) = Fds
  BY Busy DEF Gone, Dead3, FcbInv, Control
<1>2. /\ Goto(p, "user") /\ loc' = [loc EXCEPT ![p] = NoLoc]
      /\ UNCHANGED <<idle, fwait, icwd, fdtable, files>> /\ alive' = alive \ {p}
  BY DEF Gone, Return, fileVars
<1>n. DOMAIN NoLoc = LocFields /\ NoLoc.call.name = "none" /\ DOMAIN icwd' = Procs
  BY <1>1, <1>2, FailShape DEF LocalsOK
<1>3. /\ LocalsOK' /\ loc'[p] = NoLoc /\ Eff(p)' = "user"
      /\ \A q \in Procs \ {p} : loc'[q] = loc[q] /\ pc'[q] = pc[q]
  BY <1>1, <1>2, ReturnMoves
<1>4. Control(p)'
  <2>1. FreeFds(p)' = Fds
    BY <1>1, <1>2 DEF FreeFds
  <2> HIDE DEF Eff, FreeFds, Bare
  <2> QED BY <1>n, <1>3, <2>1 DEF Control
<1>5. \A q \in Procs \ {p} : Control(q)'
  <2> TAKE q \in Procs \ {p}
  <2>1. \A fd \in Fds : Bare(q, fd) => files'[fdtable[q][fd]].count = 0
    BY <1>2 DEF Bare
  <2>2. q \in alive' <=> q \in alive
    BY <1>2
  <2> QED BY <1>2, <1>3, <2>1, <2>2, ControlKept
<1>6. \A f \in Fcbs : FcbState(f)'
  <2> TAKE f \in Fcbs
  <2>1. FcbState(f) /\ (IsIdle(f)' <=> IsIdle(f)) /\ UsersOf(f)' = UsersOf(f)
    BY <1>2 DEF FcbInv, IsIdle, UsersOf
  <2> QED BY <1>2, <2>1 DEF FcbState
<1>7. FilesOK'
  BY <1>1, <1>2 DEF FilesOK
<1> QED BY <1>2, <1>3, <1>4, <1>5, <1>6, <1>7 DEF FcbInv

(* The users of each fcb when a child gets the descriptors of p.           *)
ForkChange(p) ==
    \A f \in Fcbs :
       /\ UsesOf(p, f) \in Nat /\ Cardinality(UsersOf(f)) \in Nat
       /\ Cardinality(UsersOf(f)') = Cardinality(UsersOf(f)) + UsesOf(p, f)
       /\ UsesOf(p, f) = 0 => UsersOf(f)' = UsersOf(f)
       /\ UsesOf(p, f) # 0 => \E fd \in Fds : fdtable[p][fd] = f
       /\ (\E fd \in Fds : fdtable[p][fd] = f) => UsesOf(p, f) # 0

(* A child without descriptors gets copies of its parent's.                *)
LEMMA ForkUsers ==
  ASSUME NEW p \in Procs, NEW q \in Procs,
         fdtable \in [Procs -> [Fds -> Fcbs \cup {-1}]], FreeFds(q) = Fds,
         fdtable' = [fdtable EXCEPT ![q] = fdtable[p]]
  PROVE  ForkChange(p)
<1> SUFFICES ASSUME NEW f \in Fcbs
             PROVE
         /\ UsesOf(p, f) \in Nat /\ Cardinality(UsersOf(f)) \in Nat
         /\ Cardinality(UsersOf(f)') = Cardinality(UsersOf(f)) + UsesOf(p, f)
         /\ UsesOf(p, f) = 0 => UsersOf(f)' = UsersOf(f)
         /\ UsesOf(p, f) # 0 => \E fd \in Fds : fdtable[p][fd] = f
         /\ (\E fd \in Fds : fdtable[p][fd] = f) => UsesOf(p, f) # 0
  BY DEF ForkChange
<1> DEFINE A == UsersOf(f)
           D == {fd \in Fds : fdtable[p][fd] = f}
           B == {q} \X D
<1>1. IsFiniteSet(Fds) /\ IsFiniteSet(Procs)
  BY FilesAssumption, FS_Interval DEF Fds
<1>2. IsFiniteSet(A) /\ IsFiniteSet(D) /\ D \subseteq Fds
  <2>1. IsFiniteSet(Procs \X Fds)
    BY <1>1, FS_Product
  <2>2. A \subseteq Procs \X Fds /\ D \subseteq Fds
    BY DEF UsersOf
  <2> QED BY <1>1, <2>1, <2>2, FS_Subset
<1>3. \A fd \in Fds : fdtable[q][fd] = -1 /\ fdtable[q][fd] # f
  <2>1. \A fd \in Fds : fdtable[q][fd] = -1
    BY DEF FreeFds
  <2>2. -1 \notin Fcbs
    BY FilesAssumption DEF Fcbs
  <2> QED BY <2>1, <2>2
<1>4. A \cap B = {}
  BY <1>3 DEF UsersOf
<1>5. UsersOf(f)' = A \cup B
  <2>1. /\ \A fd \in Fds : fdtable'[q][fd] = fdtable[p][fd]
        /\ \A r \in Procs \ {q} : fdtable'[r] = fdtable[r]
    OBVIOUS
  <2>2. UsersOf(f)' = {pf \in Procs \X Fds : fdtable'[pf[1]][pf[2]] = f}
    BY DEF UsersOf
  <2>3. ASSUME NEW r \in Procs, NEW fd \in Fds
        PROVE  fdtable'[r][fd] = f <=> <<r, fd>> \in A \cup B
    <3>1. CASE r = q
      BY <1>3, <2>1, <3>1 DEF UsersOf
    <3>2. CASE r # q
      BY <2>1, <3>2 DEF UsersOf
    <3> QED BY <3>1, <3>2
  <2>4. A \cup B \subseteq Procs \X Fds
    BY <1>2 DEF UsersOf
  <2>5. \A x \in Procs \X Fds : x \in UsersOf(f)' <=> x \in A \cup B
    <3> TAKE x \in Procs \X Fds
    <3>1. PICK r \in Procs, fd \in Fds : x = <<r, fd>>
      OBVIOUS
    <3>2. x \in UsersOf(f)' <=> fdtable'[r][fd] = f
      BY <2>2, <3>1
    <3> QED BY <2>3, <3>1, <3>2
  <2>6. UsersOf(f)' \subseteq Procs \X Fds
    BY <2>2
  <2> QED BY <2>4, <2>5, <2>6
<1>6. UsesOf(p, f) = Cardinality(D)
  BY DEF UsesOf
<1>7. IsFiniteSet(B) /\ Cardinality(B) = Cardinality(D)
  <2>1. IsFiniteSet({q}) /\ Cardinality({q}) = 1
    BY FS_Singleton
  <2>2. /\ IsFiniteSet({q} \X D)
        /\ Cardinality({q} \X D) = Cardinality({q}) * Cardinality(D)
    BY <1>2, <2>1, FS_Product
  <2> QED BY <1>2, <2>1, <2>2, FS_CardinalityType
<1> HIDE DEF A, B, D
<1>8. Cardinality(A \cup B) = Cardinality(A) + Cardinality(B)
  <2>1. Cardinality(A \cap B) = 0
    BY <1>4, FS_EmptySet
  <2>2. Cardinality(A \cup B) = Cardinality(A) + Cardinality(B) - Cardinality(A \cap B)
    BY <1>2, <1>7, FS_Union
  <2> QED BY <1>2, <1>7, <2>1, <2>2, FS_CardinalityType
<1>9. Cardinality(A) \in Nat /\ Cardinality(D) \in Nat
  BY <1>2, FS_CardinalityType
<1>10. Cardinality(D) = 0 <=> D = {}
  BY <1>2, FS_EmptySet
<1>11. D = {} => B = {}
  BY DEF B
<1>12. D # {} <=> \E fd \in Fds : fdtable[p][fd] = f
  BY DEF D
<1>13. A = UsersOf(f)
  BY DEF A
<1> QED BY <1>5, <1>6, <1>7, <1>8, <1>9, <1>10, <1>11, <1>12, <1>13

(* fork() gives the child its parent's descriptors and counts them.        *)
LEMMA FcbFork ==
  ASSUME FcbInv, NEW p \in Procs, NEW q \in Procs, Fork(p, q)
  PROVE  FcbInv'
<1>1. /\ p \in alive /\ q \notin alive /\ LocalsOK /\ FilesOK
      /\ fdtable \in [Procs -> [Fds -> Fcbs \cup {-1}]] /\ alive \subseteq Procs
      /\ idle \in Seq(Fcbs)
      /\ \A i, j \in DOMAIN idle : idle[i] = idle[j] => i = j
      /\ idle # <<>> => fwait = {}
  BY InUser DEF Fork, FcbInv
<1> DEFINE bad == \E fd \in Fds : fdtable[p][fd] # -1 /\ files[fdtable[p][fd]].count = 0
<1>2. CASE bad
  <2>1. Panic
    BY <1>2 DEF Fork
  <2> QED BY <2>1, FcbPanic DEF Panic, fileVars, procVars
<1>3. CASE ~bad
  <2>1. /\ alive' = alive \cup {q}
        /\ fdtable' = [fdtable EXCEPT ![q] = fdtable[p]]
        /\ files' = [f \in Fcbs |-> [files[f] EXCEPT !.count = @ + UsesOf(p, f)]]
        /\ DOMAIN icwd' = Procs /\ UNCHANGED <<idle, fwait, pc, loc>>
    BY <1>1, <1>3 DEF Fork, LocalsOK
  <2>2. /\ Control(q) /\ Eff(q) = "user" /\ FreeFds(q) = Fds
        /\ loc[q].call.name = "none"
    BY <1>1 DEF FcbInv, Control
  <2>c. ForkChange(p)
    BY <1>1, <2>1, <2>2, ForkUsers
  <2>3. \A f \in Fcbs : UsesOf(p, f) \in Nat /\ Cardinality(UsersOf(f)) \in Nat
    BY <2>c DEF ForkChange
  <2>4. \A f \in Fcbs : UsesOf(p, f) # 0 => files[f].count # 0
    <3> SUFFICES ASSUME NEW f \in Fcbs, UsesOf(p, f) # 0 PROVE files[f].count # 0
      OBVIOUS
    <3>1. PICK fd \in Fds : fdtable[p][fd] = f
      BY <2>c DEF ForkChange
    <3>2. f # -1
      BY FilesAssumption DEF Fcbs
    <3> QED BY <1>3, <3>1, <3>2
  <2> HIDE DEF bad
  <2>5. /\ FilesOK'
        /\ \A f \in Fcbs : files'[f].count = files[f].count + UsesOf(p, f)
    BY <1>1, <2>1, <2>3 DEF FilesOK
  <2>6. \A f \in Fcbs : FcbState(f)'
    <3> TAKE f \in Fcbs
    <3>1. FcbState(f) /\ (IsIdle(f)' <=> IsIdle(f))
      BY <2>1 DEF FcbInv, IsIdle
    <3>2. CASE UsesOf(p, f) = 0
      <4>1. UsersOf(f)' = UsersOf(f) /\ files'[f].count = files[f].count
        BY <1>1, <2>c, <2>5, <3>2 DEF FilesOK, ForkChange
      <4> QED BY <3>1, <4>1 DEF FcbState
    <3>3. CASE UsesOf(p, f) # 0
      <4>1. ~IsIdle(f) /\ Cardinality(UsersOf(f)) = files[f].count
        BY <2>4, <3>1, <3>3 DEF FcbState
      <4>2. Cardinality(UsersOf(f)') = files'[f].count
        BY <2>3, <2>c, <2>5, <4>1 DEF ForkChange
      <4> QED BY <3>1, <4>1, <4>2 DEF FcbState
    <3> QED BY <3>2, <3>3
  <2>7. Control(q)'
    <3>1. Eff(q)' = "user"
      BY <2>1, <2>2 DEF Eff
    <3>2. q \in alive'
      BY <2>1
    <3> HIDE DEF Eff, FreeFds, Bare
    <3> QED BY <2>1, <2>2, <3>1, <3>2 DEF Control
  <2>8. \A r \in Procs \ {q} : Control(r)'
    <3> TAKE r \in Procs \ {q}
    <3>1. fdtable'[r] = fdtable[r] /\ (r \in alive' <=> r \in alive)
      BY <1>1, <2>1
    <3>2. \A fd \in Fds : Bare(r, fd) => files'[fdtable[r][fd]].count = 0
      <4> SUFFICES ASSUME NEW fd \in Fds, Bare(r, fd)
                   PROVE  files'[fdtable[r][fd]].count = 0
        OBVIOUS
      <4>1. fdtable[r][fd] \in Fcbs /\ files[fdtable[r][fd]].count = 0
        BY DEF Bare
      <4>2. UsesOf(p, fdtable[r][fd]) = 0
        BY <2>4, <4>1
      <4> QED BY <2>5, <4>1, <4>2
    <3> QED BY <2>1, <3>1, <3>2, ControlKept
  <2>9. \A r \in Procs : Control(r)'
    BY <2>7, <2>8
  <2>10. LocalsOK'
    BY <1>1, <2>1 DEF LocalsOK
  <2>11. /\ fdtable' \in [Procs -> [Fds -> Fcbs \cup {-1}]] /\ alive' \subseteq Procs
         /\ idle' \in Seq(Fcbs) /\ (idle' # <<>> => fwait' = {})
         /\ \A i, j \in DOMAIN idle' : idle'[i] = idle'[j] => i = j
    BY <1>1, <2>1
  <2> QED BY <2>5, <2>6, <2>9, <2>10, <2>11 DEF FcbInv
<1> QED BY <1>2, <1>3

(* At boot every fcb is idle and no descriptor is open.                    *)
LEMMA InitFcb == Init => FcbInv
<1> SUFFICES ASSUME Init PROVE FcbInv
  OBVIOUS
<1>1. /\ files = [f \in Fcbs |-> [count |-> 0, inode |-> None]]
      /\ idle = [i \in 1 .. NFILE |-> i - 1] /\ fwait = {}
      /\ fdtable = [p \in Procs |-> [fd \in Fds |-> -1]]
      /\ pc = [p \in Procs |-> "user"] /\ loc = [p \in Procs |-> NoLoc]
      /\ DOMAIN icwd = Procs /\ alive \subseteq Procs
  BY DEF Init
<1>2. LocalsOK /\ FilesOK
  BY <1>1, FailShape DEF LocalsOK, FilesOK
<1>3. \A p \in Procs : Control(p)
  <2> TAKE p \in Procs
  <2>1. Eff(p) = "user" /\ loc[p].call.name = "none"
    BY <1>1, FailShape DEF Eff
  <2>2. FreeFds(p) = Fds
    BY <1>1 DEF FreeFds
  <2> HIDE DEF Eff, FreeFds, Bare
  <2> QED BY <2>1, <2>2 DEF Control
<1>4. NFILE \in Nat /\ -1 \notin Fcbs
  BY FilesAssumption DEF Fcbs
<1>5. /\ idle \in Seq(Fcbs)
      /\ \A i, j \in DOMAIN idle : idle[i] = idle[j] => i = j
  BY <1>1, <1>4 DEF Fcbs
<1>6. \A f \in Fcbs : FcbState(f)
  <2> TAKE f \in Fcbs
  <2>1. f + 1 \in DOMAIN idle /\ idle[f + 1] = f
    BY <1>1, <1>4 DEF Fcbs
  <2>2. UsersOf(f) = {}
    BY <1>1, <1>4 DEF UsersOf
  <2> QED BY <1>1, <2>1, <2>2 DEF FcbState, IsIdle
<1>7. fdtable \in [Procs -> [Fds -> Fcbs \cup {-1}]]
  BY <1>1
<1> QED BY <1>1, <1>2, <1>3, <1>5, <1>6, <1>7 DEF FcbInv

(* Every step keeps the accounts of the fcbs.                              *)
LEMMA FcbNext == FcbInv /\ [Next]_vars => FcbInv'
<1> SUFFICES ASSUME FcbInv, [Next]_vars PROVE FcbInv'
  OBVIOUS
<1>1. CASE UNCHANGED vars
  <2>1. UNCHANGED <<files, idle, fdtable, alive, fwait, pc, loc, icwd>>
    BY <1>1 DEF vars, fileVars, procVars
  <2>2. LocalsOK' /\ FilesOK'
    BY <2>1 DEF FcbInv, LocalsOK, FilesOK
  <2>3. \A p \in Procs : Control(p)'
    <3> TAKE p \in Procs
    <3>1. \A fd \in Fds : Bare(p, fd) => files'[fdtable[p][fd]].count = 0
      BY <2>1 DEF Bare
    <3> QED BY <2>1, <3>1, ControlKept
  <2>4. \A f \in Fcbs : FcbState(f)'
    <3> TAKE f \in Fcbs
    <3>1. FcbState(f) /\ (IsIdle(f)' <=> IsIdle(f)) /\ UsersOf(f)' = UsersOf(f)
      BY <2>1 DEF FcbInv, IsIdle, UsersOf
    <3> QED BY <2>1, <3>1 DEF FcbState
  <2> QED BY <2>1, <2>2, <2>3, <2>4 DEF FcbInv
<1>2. ASSUME NEW p \in Procs, Call(p) PROVE FcbInv'
  <2>1. \/ \/ Pipe(p) \/ Exit(p) \/ \E c \in PathCalls : PathCall(p, c)
           \/ \E fd \in Fds : \/ \E stat \in BOOLEAN : UseFile(p, fd, stat)
                              \/ Dup(p, fd)
                              \/ \E new \in Fds : Dup2(p, fd, new)
        \/ \E q \in Procs : Fork(p, q)
        \/ \E fd \in Fds : Dents(p, fd)
        \/ \E fd \in Fds : Close(p, fd)
    BY <1>2 DEF Call
  <2> QED BY <2>1, FcbCall, FcbDents, FcbFork, FcbCloses
<1>3. ASSUME NEW p \in Procs, Step(p) PROVE FcbInv'
  <2>1. \/ GetRoot(p) \/ WalkLock(p) \/ WalkEnd(p) \/ Look(p) \/ Oops(p)
        \/ IFree(p) \/ ITruncate(p) \/ IDrop(p)
        \/ \/ ParentLock(p) \/ CreateFound(p) \/ CreateOld(p) \/ CreateNew(p)
           \/ CreateGet(p) \/ CreateInit(p) \/ CreateLink(p) \/ CreateUndo(p)
           \/ CreateFail(p)
        \/ \/ CreatDone(p) \/ MkdirDone(p) \/ Chmod(p) \/ Stat(p) \/ Chdir(p)
           \/ Truncate(p) \/ OpenSize(p)
        \/ LinkOld(p) \/ LinkNew(p) \/ Linked(p) \/ LinkFail(p) \/ LinkUndo(p)
        \/ Open(p) \/ FcbFree(p) \/ Dup2Close(p) \/ DupFd(p)
        \/ PipeFirst(p) \/ PipeNoFd(p) \/ PipeSecond(p) \/ PipeFault(p) \/ PipeInode(p)
        \/ InodeWait(p) \/ FileWait(p) \/ DentsFault(p) \/ DentsEnd(p)
        \/ ExitClose(p) \/ ExitPut(p) \/ Gone(p)
    BY <1>3 DEF Step
  <2> QED BY <2>1, FcbWalk, FcbDie, FcbCreate, FcbUse, FcbDents, FcbLink, FcbOpen, FcbGive,
             FcbCloses, FcbDup, FcbTake, FcbPipe, FcbWait, FcbGone
<1> QED BY <1>1, <1>2, <1>3 DEF Next

(* FcbInv says of each fcb what the run checks.                            *)
LEMMA FcbAccounts == FcbInv => FcbsAccounted
<1> SUFFICES ASSUME FcbInv PROVE FcbsAccounted
  OBVIOUS
<1> DEFINE Uses(f) == Cardinality({pf \in Procs \X Fds : fdtable[pf[1]][pf[2]] = f})
           Times(f) == Cardinality({i \in DOMAIN idle : idle[i] = f})
<1>1. \A f \in Fcbs : Uses(f) = Cardinality(UsersOf(f))
  BY DEF UsersOf
<1>2. \A f \in Fcbs : IsIdle(f) => Times(f) = 1
  <2> SUFFICES ASSUME NEW f \in Fcbs, IsIdle(f) PROVE Times(f) = 1
    OBVIOUS
  <2>1. PICK i \in DOMAIN idle : idle[i] = f
    BY DEF IsIdle
  <2>2. \A j \in DOMAIN idle : idle[j] = f => j = i
    BY <2>1 DEF FcbInv
  <2>3. {j \in DOMAIN idle : idle[j] = f} = {i}
    BY <2>1, <2>2
  <2> QED BY <2>3, FS_Singleton
<1>3. \A f \in Fcbs : ~IsIdle(f) => Times(f) = 0
  <2> SUFFICES ASSUME NEW f \in Fcbs, ~IsIdle(f) PROVE Times(f) = 0
    OBVIOUS
  <2>1. {j \in DOMAIN idle : idle[j] = f} = {}
    BY DEF IsIdle
  <2> QED BY <2>1, FS_EmptySet
<1>4. idle # <<>> => fwait = {}
  BY DEF FcbInv
<1> HIDE DEF Uses, Times
<1>5. ASSUME NEW f \in Fcbs
      PROVE  \/ Times(f) = 1 /\ Uses(f) = 0 /\ files[f].count = 0
             \/ Times(f) = 0 /\ Uses(f) = 1 /\ files[f].count = 0
             \/ Times(f) = 0 /\ Uses(f) = files[f].count
  <2>1. FcbState(f)
    BY DEF FcbInv
  <2> QED BY <1>1, <1>2, <1>3, <2>1, FS_EmptySet DEF FcbState
<1> QED BY <1>4, <1>5 DEF FcbsAccounted, Uses, Times

(* Whatever the processes do, every descriptor names an fcb that is not    *)
(* idle, no fcb is idle twice, and each is either idle and unused, or      *)
(* taken by one descriptor of a pipe() or a last close() in progress, or   *)
(* in use by as many descriptors as its f_count says.                      *)
THEOREM FilesFcbInv == Spec => []FcbInv
<1>1. Init => FcbInv
  BY InitFcb
<1>2. FcbInv /\ [Next]_vars => FcbInv'
  BY FcbNext
<1> QED BY <1>1, <1>2, PTL DEF Spec

(* file_alloc() never hands out an fcb that somebody uses, f_count is      *)
(* exact, and nobody waits for an fcb while one is idle.                   *)
THEOREM FilesFcbsAccounted == Spec => []FcbsAccounted
<1>1. FcbInv => FcbsAccounted
  BY FcbAccounts
<1> QED BY <1>1, FilesFcbInv, PTL
-----------------------------------------------------------------------------
(* The inode table                                                         *)

(* A table, or one with an inode read, has the inodes and counts it had.   *)
LEMMA SameTable ==
  ASSUME TableInv, NEW tl, tl = slot \/ \E s : tl = Loaded(slot, s)
  PROVE  /\ TableOK(tl) /\ OneSlotIn(tl) /\ Alike(tl, slot)
         /\ \A t \in Slots : tl[t].count = slot[t].count
<1>1. TableOK(slot) /\ OneSlotIn(slot) /\ Alike(slot, slot)
  BY DEF TableInv, OneSlotPerInode, OneSlotIn, Alike
<1>2. TableOK(tl) /\ Alike(tl, slot)
  BY <1>1, LoadedKeeps
<1>3. OneSlotIn(tl)
  BY <1>1, <1>2, OneSlotKept DEF Alike
<1> QED BY <1>2, <1>3 DEF Alike

(* A step that at most reads an inode and drops references.                *)
LEMMA TableDrop ==
  ASSUME TableInv, LocalsOK', FilesOK',
         slot' = slot \/ \E s : slot' = Loaded(slot, s),
         \A h \in Places : Held'[h] = Held[h] \/ Held'[h] \notin Slots
  PROVE  TableInv'
<1>1. /\ TableOK(slot') /\ OneSlotIn(slot')
      /\ \A t \in Slots : slot'[t].count = slot[t].count
  BY SameTable
<1>2. PICK K, tl : K = Held' /\ tl = slot'
  OBVIOUS
<1>3. /\ TableOK(slot) /\ TableOK(tl) /\ Covers(Held, slot)
      /\ \A h \in Places : K[h] = Held[h] \/ K[h] \notin Slots
      /\ \A t \in Slots : tl[t].count >= slot[t].count
  BY <1>1, <1>2 DEF TableInv, TableOK
<1>4. Covers(K, tl)
  BY <1>3, FewerPlaces
<1> QED BY <1>1, <1>2, <1>4 DEF TableInv, OneSlotPerInode, OneSlotIn

(* A step that at most reads an inode.                                     *)
LEMMA TableStay ==
  ASSUME TableInv, UNCHANGED <<files, icwd, pc, loc>>,
         slot' = slot \/ \E s : slot' = Loaded(slot, s)
  PROVE  TableInv'
<1>1. LocalsOK' /\ FilesOK'
  BY DEF TableInv, LocalsOK, FilesOK
<1>2. \A h \in Places : Held'[h] = Held[h]
  BY DEF Held, Named
<1> QED BY <1>1, <1>2, TableDrop

(* p goes to l with locals k and no new references.                        *)
LEMMA TableGoto ==
  ASSUME TableInv, NEW p \in Procs, LocalsOK', UNCHANGED <<files, icwd>>,
         slot' = slot \/ \E s : slot' = Loaded(slot, s), NEW l, Goto(p, l), NEW k,
         loc' = [loc EXCEPT ![p] = k] \/ (loc' = loc /\ k = loc[p]),
         \A v \in RefVars : k[v] = loc[p][v] \/ k[v] \notin Slots,
         pc[p] \notin {"size", "dents"} \/ \A v \in RefVars : k[v] \notin Slots
  PROVE  TableInv'
<1>1. TableOK(slot') /\ Alike(slot', slot)
  BY SameTable
<1>2. loc'[p] = k /\ \A q \in Procs \ {p} : loc'[q] = loc[q] /\ pc'[q] = pc[q]
  BY DEF Goto, TableInv, LocalsOK
<1> QED BY <1>1, <1>2, KeepStep

(* The walk of a path keeps the counts above the references: the slot it   *)
(* goes down to is counted before the one it leaves is put.                *)
LEMMA TableWalk ==
  ASSUME TableInv, NEW p \in Procs, LocalsOK',
         \/ GetRoot(p) \/ WalkLock(p) \/ WalkEnd(p) \/ Look(p) \/ Oops(p)
  PROVE  TableInv'
<1>0. LocalsOK /\ DOMAIN loc[p] = LocFields /\ None \notin Slots
  BY FilesAssumption DEF TableInv, LocalsOK
<1>s. /\ TableOK(slot) /\ OneSlotIn(slot)
      /\ \A t \in Slots : slot[t].count = slot[t].count /\ slot[t].count \in Int
  BY DEF TableInv, OneSlotPerInode, OneSlotIn, TableOK
<1>1. CASE GetRoot(p)
  <2> DEFINE u == Lowest(Found(Root))
  <2>1. /\ slot' = Got(Root, FALSE) /\ loc' = [loc EXCEPT ![p].cur = u]
        /\ Goto(p, "walk") /\ UNCHANGED <<files, icwd>> /\ pc[p] \notin {"size", "dents"}
    BY <1>1 DEF GetRoot, fileVars, procVars
  <2>2. /\ TableOK(slot') /\ OneSlotIn(slot')
        /\ \A t \in Slots : slot'[t].count = slot[t].count + (IF t = u THEN 1 ELSE 0)
    BY <1>s, <2>1, GotOne
  <2> HIDE DEF u
  <2>3. /\ loc'[p].cur = u /\ \A v \in RefVars \ {"cur"} : loc'[p][v] = loc[p][v]
        /\ \A q \in Procs \ {p} : loc'[q] = loc[q] /\ pc'[q] = pc[q]
    BY <1>0, <2>1 DEF LocalsOK, LocFields, RefVars, Goto
  <2>4. UNCHANGED <<files, icwd>> /\ pc[p] \notin {"size", "dents"}
    BY <2>1
  <2> QED BY <2>2, <2>3, <2>4, TakeStep
<1>2. CASE WalkLock(p)
  <2>1. UNCHANGED <<files, icwd, loc>> /\ pc[p] \notin {"size", "dents"}
    BY <1>2 DEF WalkLock, Panic, fileVars, procVars
  <2>2. \/ slot' = slot /\ UNCHANGED pc
        \/ slot' = Loaded(slot, loc[p].cur) /\ Goto(p, "look")
    BY <1>2 DEF WalkLock, Panic, tableVars
  <2>3. CASE slot' = slot /\ UNCHANGED pc
    BY <2>1, <2>3, TableStay
  <2>4. CASE slot' = Loaded(slot, loc[p].cur) /\ Goto(p, "look")
    BY <2>1, <2>4, TableGoto
  <2> QED BY <2>2, <2>3, <2>4
<1>3. CASE WalkEnd(p)
  <2>1. UNCHANGED <<files, icwd>> /\ pc[p] \notin {"size", "dents"}
    BY <1>3 DEF WalkEnd, fileVars, procVars
  <2>2. CASE WantsParent(loc[p].call)
    <3>0. PICK j, l : j = FailLoc(loc[p]) /\ l = FailTo(loc[p].call)
      OBVIOUS
    <3>1. Put(p, slot, imtx, loc[p]["cur"], j, l)
      BY <1>3, <2>2, <3>0 DEF WalkEnd
    <3>2. /\ DOMAIN j = LocFields /\ "cur" \in RefVars /\ j["cur"] \notin Slots
          /\ \A w \in RefVars : j[w] = loc[p][w] \/ j[w] \notin Slots
      BY <1>0, <3>0, FailShape DEF RefVars
    <3> QED BY <1>s, <2>1, <3>1, <3>2, PutOwn
  <2>3. CASE ~WantsParent(loc[p].call)
    <3>1. Goto(p, "found") /\ UNCHANGED <<slot, loc>>
      BY <1>3, <2>3 DEF WalkEnd
    <3> QED BY <2>1, <3>1, TableGoto
  <2> QED BY <2>2, <2>3
<1>4. CASE Look(p)
  <2> DEFINE s == loc[p].cur
             n == Entry(s, Head(loc[p].rest))
             k3 == [loc[p] EXCEPT !.rest = Tail(@), !.cur = Lowest(Found(n))]
  <2>1. UNCHANGED <<files, icwd>> /\ pc[p] \notin {"size", "dents"}
    BY <1>4 DEF Look, fileVars, procVars
  <2>2. \/ /\ Goto(p, "parent") /\ UNCHANGED slot
           /\ loc' = [loc EXCEPT ![p].par = s, ![p].cur = None]
        \/ Put(p, slot, Unlocked(s), loc[p]["cur"], FailLoc(loc[p]), FailTo(loc[p].call))
        \/ Put(p, Got(n, FALSE), Unlocked(s), loc[p]["cur"], k3,
               IF Len(loc[p].rest) = 1 THEN "found" ELSE "walk")
    BY <1>4 DEF Look
  <2>3. CASE /\ Goto(p, "parent") /\ UNCHANGED slot
             /\ loc' = [loc EXCEPT ![p].par = s, ![p].cur = None]
    <3>1. /\ loc'[p].cur = None /\ loc'[p]["par"] = loc[p].cur
          /\ \A v \in RefVars \ {"cur", "par"} : loc'[p][v] = loc[p][v]
          /\ \A q \in Procs \ {p} : loc'[q] = loc[q] /\ pc'[q] = pc[q]
      BY <1>0, <2>3 DEF LocalsOK, LocFields, RefVars, Goto
    <3>2. \A t \in Slots : slot'[t].count = slot[t].count + (IF t = None THEN 1 ELSE 0)
      BY <1>0, <1>s, <2>3
    <3>3. TableOK(slot') /\ OneSlotIn(slot') /\ "par" \in RefVars \ {"cur"}
      BY <1>s, <2>3 DEF RefVars
    <3> QED BY <2>1, <3>1, <3>2, <3>3, MoveStep
  <2>4. CASE Put(p, slot, Unlocked(s), loc[p]["cur"], FailLoc(loc[p]),
                 FailTo(loc[p].call))
    <3>0. PICK j, l, mx : /\ j = FailLoc(loc[p]) /\ l = FailTo(loc[p].call)
                          /\ mx = Unlocked(s)
      OBVIOUS
    <3>1. Put(p, slot, mx, loc[p]["cur"], j, l)
      BY <2>4, <3>0
    <3>2. /\ DOMAIN j = LocFields /\ "cur" \in RefVars /\ j["cur"] \notin Slots
          /\ \A w \in RefVars : j[w] = loc[p][w] \/ j[w] \notin Slots
      BY <1>0, <3>0, FailShape DEF RefVars
    <3> QED BY <1>s, <2>1, <3>1, <3>2, PutOwn
  <2>5. CASE Put(p, Got(n, FALSE), Unlocked(s), loc[p]["cur"], k3,
                 IF Len(loc[p].rest) = 1 THEN "found" ELSE "walk")
    <3>1. /\ DOMAIN k3 = LocFields /\ k3.cur = Lowest(Found(n)) /\ "cur" \in RefVars
          /\ \A w \in RefVars \ {"cur"} : k3[w] = loc[p][w]
      BY <1>0 DEF LocFields, RefVars
    <3> HIDE DEF k3, n, s
    <3> QED BY <2>1, <2>5, <3>1, PutTake
  <2> QED BY <2>2, <2>3, <2>4, <2>5
<1>5. CASE Oops(p)
  BY <1>5, TableStay DEF Oops, Panic, fileVars, procVars, tableVars
<1> QED BY <1>1, <1>2, <1>3, <1>4, <1>5

(* create() counts the inode of a name before it puts the directory, and   *)
(* puts what it holds on each of its ways out.                             *)
LEMMA TableCreate ==
  ASSUME TableInv, NEW p \in Procs, LocalsOK',
         \/ ParentLock(p) \/ CreateFound(p) \/ CreateOld(p) \/ CreateNew(p)
         \/ CreateGet(p) \/ CreateInit(p) \/ CreateLink(p) \/ CreateUndo(p)
         \/ CreateFail(p)
  PROVE  TableInv'
<1>0. LocalsOK /\ DOMAIN loc[p] = LocFields /\ None \notin Slots
  BY FilesAssumption DEF TableInv, LocalsOK
<1>s. /\ TableOK(slot) /\ OneSlotIn(slot)
      /\ \A t \in Slots : slot[t].count = slot[t].count /\ slot[t].count \in Int
  BY DEF TableInv, OneSlotPerInode, OneSlotIn, TableOK
<1>u. UNCHANGED <<files, icwd>> /\ pc[p] \notin {"size", "dents"}
  <2>1. pc[p] \in {"parent", "cdir", "cold", "ialloc", "cnew", "clink", "cfail"}
    BY Zenon DEF ParentLock, CreateFound, CreateOld, CreateNew, CreateGet, CreateInit,
           CreateLink, CreateUndo, CreateFail
  <2>2. UNCHANGED <<files, icwd>>
    BY Zenon DEF ParentLock, CreateFound, CreateOld, CreateNew, CreateGet, CreateInit,
           CreateLink, CreateUndo, CreateFail, fileVars, procVars
  <2> QED BY <2>1, <2>2
<1>n. DOMAIN NoLoc = LocFields /\ \A v \in RefVars : NoLoc[v] = None
  BY FailShape
<1>k. \A v \in RefVars : NoLoc[v] \notin Slots
  BY <1>0, <1>n
<1>v. "cur" \in RefVars /\ "par" \in RefVars
  BY DEF RefVars
<1>1. CASE ParentLock(p)
  <2>1. Goto(p, "cdir") /\ UNCHANGED loc /\ slot' = Loaded(slot, loc[p].par)
    BY <1>1 DEF ParentLock
  <2> QED BY <1>u, <2>1, TableGoto
<1>2. CASE CreateFound(p)
  <2> DEFINE n == Entry(loc[p].par, LastName(p))
             k == [loc[p] EXCEPT !.cur = Lowest(Found(n)), !.par = None]
  <2>1. Put(p, Got(n, FALSE), Unlocked(loc[p].par), loc[p]["par"], k, "cold")
    BY <1>2 DEF CreateFound
  <2>2. /\ DOMAIN k = LocFields /\ k.cur = Lowest(Found(n)) /\ k["par"] \notin Slots
        /\ \A w \in RefVars \ {"cur"} : k[w] = loc[p][w] \/ k[w] \notin Slots
    BY <1>0 DEF LocFields, RefVars
  <2> HIDE DEF k, n
  <2> QED BY <1>u, <1>v, <2>1, <2>2, PutTake
<1>3. CASE CreateOld(p)
  <2> DEFINE s == loc[p].cur
  <2>1. \/ Goto(p, "found") /\ UNCHANGED loc /\ slot' = Loaded(slot, s)
        \/ Put(p, Loaded(slot, s), imtx, loc[p]["cur"], NoLoc, "user")
    BY <1>3 DEF CreateOld
  <2>2. CASE Goto(p, "found") /\ UNCHANGED loc /\ slot' = Loaded(slot, s)
    BY <1>u, <2>2, TableGoto
  <2>3. CASE Put(p, Loaded(slot, s), imtx, loc[p]["cur"], NoLoc, "user")
    <3>1. PICK sl : sl = Loaded(slot, s)
      OBVIOUS
    <3>2. /\ TableOK(sl) /\ OneSlotIn(sl)
          /\ \A t \in Slots : sl[t].count = slot[t].count
      BY <3>1, SameTable
    <3> QED BY <1>k, <1>n, <1>u, <1>v, <2>3, <3>1, <3>2, PutOwn
  <2> QED BY <2>1, <2>2, <2>3
<1>4. CASE CreateNew(p)
  <2> DEFINE free == {n \in Inos : ~dnode[n].used}
             k == [loc[p] EXCEPT !.no = Lowest(free)]
  <2>1. \/ Put(p, slot, Unlocked(loc[p].par), loc[p]["par"], NoLoc, "user")
        \/ Goto(p, "ialloc") /\ loc' = [loc EXCEPT ![p] = k] /\ UNCHANGED slot
    BY <1>4 DEF CreateNew
  <2>2. CASE Put(p, slot, Unlocked(loc[p].par), loc[p]["par"], NoLoc, "user")
    BY <1>s, <1>k, <1>n, <1>u, <1>v, <2>2, PutOwn
  <2>3. CASE Goto(p, "ialloc") /\ loc' = [loc EXCEPT ![p] = k] /\ UNCHANGED slot
    <3>1. \A v \in RefVars : k[v] = loc[p][v]
      BY <1>0 DEF LocFields, RefVars
    <3> HIDE DEF k
    <3> QED BY <1>u, <2>3, <3>1, TableGoto
  <2> QED BY <2>1, <2>2, <2>3
<1>5. CASE CreateGet(p)
  <2> DEFINE n == loc[p].no
             u == Lowest(Found(n))
  <2>1. /\ slot' = Got(n, TRUE) /\ loc' = [loc EXCEPT ![p].cur = u]
        /\ Goto(p, "cnew")
    BY <1>5 DEF CreateGet
  <2>2. /\ TableOK(slot') /\ OneSlotIn(slot')
        /\ \A t \in Slots : slot'[t].count = slot[t].count + (IF t = u THEN 1 ELSE 0)
    BY <1>s, <2>1, GotOne
  <2> HIDE DEF u
  <2>3. /\ loc'[p].cur = u /\ \A v \in RefVars \ {"cur"} : loc'[p][v] = loc[p][v]
        /\ \A q \in Procs \ {p} : loc'[q] = loc[q] /\ pc'[q] = pc[q]
    BY <1>0, <2>1 DEF LocalsOK, LocFields, RefVars, Goto
  <2> QED BY <1>u, <2>2, <2>3, TakeStep
<1>6. CASE CreateInit(p)
  <2> DEFINE s == loc[p].cur
             m == IF loc[p].call.name = "mkdir" THEN "dir" ELSE "reg"
  <2>1. /\ Goto(p, "clink") /\ UNCHANGED loc
        /\ slot' = [slot EXCEPT ![s] = [@ EXCEPT !.valid = TRUE, !.mode = m, !.links = 1]]
    BY <1>6 DEF CreateInit
  <2> HIDE DEF s, m
  <2>2. TableOK(slot') /\ Alike(slot', slot)
    BY <1>s, <2>1 DEF TableOK, Alike, SlotFields
  <2>3. \A q \in Procs \ {p} : loc'[q] = loc[q] /\ pc'[q] = pc[q]
    BY <1>0, <2>1 DEF Goto, LocalsOK
  <2>4. \A v \in RefVars : loc'[p][v] = loc[p][v]
    BY <2>1
  <2> QED BY <1>u, <2>2, <2>3, <2>4, KeepStep
<1>7. CASE CreateLink(p)
  <2> DEFINE k == [loc[p] EXCEPT !.par = None]
             sl == IF loc[p].call.name = "mkdir"
                   THEN [slot EXCEPT ![loc[p].par].links = @ + 1] ELSE slot
  <2>1. Put(p, sl, [imtx EXCEPT ![loc[p].par] = None, ![loc[p].cur] = None],
            loc[p]["par"], k, "found")
    BY Zenon, <1>7 DEF CreateLink
  <2>2. DOMAIN k = LocFields /\ k["par"] \notin Slots
        /\ \A w \in RefVars : k[w] = loc[p][w] \/ k[w] \notin Slots
    BY <1>0 DEF LocFields, RefVars
  <2>3. TableOK(sl) /\ \A t \in Slots : /\ sl[t].count = slot[t].count
                                        /\ sl[t].dev = slot[t].dev
                                        /\ sl[t].no = slot[t].no
    BY <1>s DEF TableOK, SlotFields
  <2> HIDE DEF k, sl
  <2>4. OneSlotIn(sl)
    BY <1>s, <2>3, OneSlotKept
  <2>5. PICK mx : Put(p, sl, mx, loc[p]["par"], k, "found")
    BY Zenon, <2>1
  <2> QED BY <1>u, <1>v, <2>2, <2>3, <2>4, <2>5, PutOwn
<1>8. CASE CreateUndo(p)
  <2> DEFINE k == [loc[p] EXCEPT !.cur = None]
             sl == [slot EXCEPT ![loc[p].cur].links = 0]
  <2>1. Put(p, sl, Unlocked(loc[p].cur), loc[p]["cur"], k, "cfail")
    BY <1>8 DEF CreateUndo
  <2>2. DOMAIN k = LocFields /\ k["cur"] \notin Slots
        /\ \A w \in RefVars : k[w] = loc[p][w] \/ k[w] \notin Slots
    BY <1>0 DEF LocFields, RefVars
  <2>3. TableOK(sl) /\ \A t \in Slots : /\ sl[t].count = slot[t].count
                                        /\ sl[t].dev = slot[t].dev
                                        /\ sl[t].no = slot[t].no
    BY <1>s DEF TableOK, SlotFields
  <2> HIDE DEF k, sl
  <2>4. OneSlotIn(sl)
    BY <1>s, <2>3, OneSlotKept
  <2> QED BY <1>u, <1>v, <2>1, <2>2, <2>3, <2>4, PutOwn
<1>9. CASE CreateFail(p)
  <2>1. Put(p, slot, Unlocked(loc[p].par), loc[p]["par"], NoLoc, "user")
    BY <1>9 DEF CreateFail
  <2> QED BY <1>s, <1>k, <1>n, <1>u, <1>v, <2>1, PutOwn
<1> QED BY <1>1, <1>2, <1>3, <1>4, <1>5, <1>6, <1>7, <1>8, <1>9

(* link() keeps the old file in obj while it looks for the new name.       *)
LEMMA TableLink ==
  ASSUME TableInv, NEW p \in Procs, LocalsOK',
         \/ LinkOld(p) \/ LinkNew(p) \/ Linked(p) \/ LinkFail(p) \/ LinkUndo(p)
  PROVE  TableInv'
<1>0. LocalsOK /\ DOMAIN loc[p] = LocFields /\ None \notin Slots
  BY FilesAssumption DEF TableInv, LocalsOK
<1>s. /\ TableOK(slot) /\ OneSlotIn(slot)
      /\ \A t \in Slots : slot[t].count = slot[t].count /\ slot[t].count \in Int
  BY DEF TableInv, OneSlotPerInode, OneSlotIn, TableOK
<1>u. UNCHANGED <<files, icwd>> /\ pc[p] \notin {"size", "dents"}
  BY Zenon DEF LinkOld, LinkNew, Linked, LinkFail, LinkUndo, Is, fileVars, procVars
<1>n. DOMAIN NoLoc = LocFields /\ \A v \in RefVars : NoLoc[v] = None
  BY FailShape
<1>k. \A v \in RefVars : NoLoc[v] \notin Slots
  BY <1>0, <1>n
<1>v. "cur" \in RefVars /\ "par" \in RefVars /\ "obj" \in RefVars
  BY DEF RefVars
<1>1. CASE LinkOld(p)
  <2> DEFINE s == loc[p].cur
             sl == Loaded(slot, s)
             up == [sl EXCEPT ![s].links = @ + 1]
             c == [name |-> "link2", path |-> loc[p].call.new]
             u == IF c.path.abs THEN None ELSE icwd[p]
             k == [NoLoc EXCEPT !.call = c, !.obj = s, !.rest = c.path.elems, !.cur = u]
  <2>1. \/ Put(p, sl, imtx, loc[p]["cur"], NoLoc, "user")
        \/ /\ slot' = IF c.path.abs THEN up ELSE [up EXCEPT ![icwd[p]].count = @ + 1]
           /\ loc' = [loc EXCEPT ![p] = k]
           /\ Goto(p, IF c.path.abs THEN "root" ELSE "walk")
    BY Zenon, <1>1 DEF LinkOld
  <2>2. /\ TableOK(sl) /\ OneSlotIn(sl)
        /\ \A t \in Slots : sl[t].count = slot[t].count
    BY SameTable
  <2>3. CASE Put(p, sl, imtx, loc[p]["cur"], NoLoc, "user")
    <3> HIDE DEF sl
    <3> QED BY <1>k, <1>n, <1>u, <1>v, <2>2, <2>3, PutOwn
  <2>4. CASE /\ slot' = IF c.path.abs THEN up ELSE [up EXCEPT ![icwd[p]].count = @ + 1]
             /\ loc' = [loc EXCEPT ![p] = k]
             /\ Goto(p, IF c.path.abs THEN "root" ELSE "walk")
    <3>1. /\ TableOK(up)
          /\ \A t \in Slots : /\ up[t].dev = sl[t].dev /\ up[t].no = sl[t].no
                              /\ up[t].count = slot[t].count
      <4> HIDE DEF sl, s
      <4> QED BY <2>2 DEF TableOK, SlotFields
    <3>2. /\ k.cur = u /\ k.obj = s
          /\ \A v \in RefVars \ {"cur", "obj"} : k[v] = None
      BY Zenon, <1>n DEF LocFields, RefVars
    <3>3. \/ slot' = up /\ u = None
          \/ slot' = [up EXCEPT ![u].count = @ + 1]
      BY Zenon, <2>4
    <3> HIDE DEF sl, up, k, u, c
    <3>4. /\ TableOK(slot')
          /\ \A t \in Slots : /\ slot'[t].dev = sl[t].dev /\ slot'[t].no = sl[t].no
                              /\ slot'[t].count = slot[t].count + (IF t = u THEN 1 ELSE 0)
      BY <1>0, <1>s, <3>1, <3>3 DEF TableOK, SlotFields
    <3>5. OneSlotIn(slot')
      BY <2>2, <3>4, OneSlotKept
    <3>6. loc'[p] = k /\ \A q \in Procs \ {p} : loc'[q] = loc[q] /\ pc'[q] = pc[q]
      BY <1>0, <2>4 DEF LocalsOK, Goto
    <3>7. /\ loc'[p].cur = u /\ loc'[p]["obj"] = loc[p].cur /\ "obj" \in RefVars \ {"cur"}
          /\ \A v \in RefVars \ {"cur", "obj"} : loc'[p][v] \notin Slots
          /\ \A t \in Slots : slot'[t].count = slot[t].count + (IF t = u THEN 1 ELSE 0)
      BY <1>0, <1>v, <3>2, <3>4, <3>6
    <3> QED BY <1>u, <3>4, <3>5, <3>6, <3>7, MoveStep
  <2> QED BY <2>1, <2>3, <2>4
<1>2. CASE LinkNew(p)
  <2> DEFINE k == [loc[p] EXCEPT !.par = None]
  <2>1. Put(p, slot, Unlocked(loc[p].par), loc[p]["par"], k, "linked")
    BY <1>2 DEF LinkNew
  <2>2. DOMAIN k = LocFields /\ k["par"] \notin Slots
        /\ \A w \in RefVars : k[w] = loc[p][w] \/ k[w] \notin Slots
    BY <1>0 DEF LocFields, RefVars
  <2> HIDE DEF k
  <2> QED BY <1>s, <1>u, <1>v, <2>1, <2>2, PutOwn
<1>3. CASE Linked(p)
  <2>1. Put(p, slot, imtx, loc[p]["obj"], NoLoc, "user")
    BY <1>3 DEF Linked
  <2> QED BY <1>s, <1>k, <1>n, <1>u, <1>v, <2>1, PutOwn
<1>4. CASE LinkFail(p)
  <2> DEFINE n == Entry(loc[p].par, LastName(p))
             s == Lowest(Found(n))
             got == Got(n, FALSE)
             looked == Less(got, s)
             sl == IF n = 0 THEN slot ELSE looked
             k == FailLoc(loc[p])
  <2>1. Put(p, sl, Unlocked(loc[p].par), loc[p]["par"], k, "undo")
    BY <1>4 DEF LinkFail, Less
  <2>2. /\ DOMAIN k = LocFields /\ k["par"] \notin Slots
        /\ \A w \in RefVars : k[w] = loc[p][w] \/ k[w] \notin Slots
    BY <1>0, FailShape DEF RefVars
  <2>3. /\ TableOK(got) /\ OneSlotIn(got)
        /\ \A t \in Slots : got[t].count = slot[t].count + (IF t = s THEN 1 ELSE 0)
    BY <1>s, GotOne
  <2> HIDE DEF got
  <2>4. /\ TableOK(looked)
        /\ \A t \in Slots : looked[t].dev = got[t].dev /\ looked[t].no = got[t].no
        /\ \A t \in Slots : looked[t].count = got[t].count - (IF t = s THEN 1 ELSE 0)
    BY <2>3, LessKeeps
  <2> HIDE DEF looked, s, n
  <2>5. /\ OneSlotIn(looked) /\ \A t \in Slots : looked[t].count = slot[t].count
    BY <1>s, <2>3, <2>4, OneSlotKept
  <2>6. /\ TableOK(sl) /\ OneSlotIn(sl)
        /\ \A t \in Slots : sl[t].count = slot[t].count
    BY <1>s, <2>4, <2>5
  <2> HIDE DEF sl, k
  <2> QED BY <1>u, <1>v, <2>1, <2>2, <2>6, PutOwn
<1>5. CASE LinkUndo(p)
  <2> DEFINE sl == [slot EXCEPT ![loc[p].obj].links = @ - 1]
  <2>1. Put(p, sl, imtx, loc[p]["obj"], NoLoc, "user")
    BY <1>5 DEF LinkUndo
  <2>3. TableOK(sl) /\ \A t \in Slots : /\ sl[t].count = slot[t].count
                                        /\ sl[t].dev = slot[t].dev
                                        /\ sl[t].no = slot[t].no
    BY <1>s DEF TableOK, SlotFields
  <2> HIDE DEF sl
  <2>4. OneSlotIn(sl)
    BY <1>s, <2>3, OneSlotKept
  <2>5. PICK j : j = NoLoc
    OBVIOUS
  <2>6. Put(p, sl, imtx, loc[p]["obj"], j, "user")
    BY <2>1, <2>5
  <2>7. /\ DOMAIN j = LocFields /\ "obj" \in RefVars
        /\ j["obj"] \notin Slots /\ \A w \in RefVars : j[w] \notin Slots
    BY <1>k, <1>n, <2>5 DEF RefVars
  <2> QED BY <1>u, <2>3, <2>4, <2>6, <2>7, PutOwn
<1> QED BY <1>1, <1>2, <1>3, <1>4, <1>5

(* p returns, and may read an inode.                                       *)
LEMMA TableReturn ==
  ASSUME TableInv, NEW p \in Procs, LocalsOK', UNCHANGED <<files, icwd>>, Return(p),
         slot' = slot \/ \E s : slot' = Loaded(slot, s)
  PROVE  TableInv'
<1>1. \A v \in RefVars : NoLoc[v] \notin Slots
  BY FilesAssumption, FailShape
<1>2. Goto(p, "user") /\ loc' = [loc EXCEPT ![p] = NoLoc]
  BY DEF Return
<1> QED BY <1>1, <1>2, TableGoto

(* chdir() gives the directory to icwd before it puts the old one, with    *)
(* the counts covering both all along.                                     *)
LEMMA TableChdir ==
  ASSUME TableInv, NEW p \in Procs, LocalsOK', Chdir(p)
  PROVE  TableInv'
<1> DEFINE s == loc[p].cur
           o == icwd[p]
           sl == Loaded(slot, s)
<1>0. LocalsOK /\ DOMAIN loc[p] = LocFields /\ None \notin Slots /\ DOMAIN icwd = Procs
  BY FilesAssumption DEF TableInv, LocalsOK
<1>1. /\ UNCHANGED files /\ pc[p] = "found"
      /\ \/ Return(p) /\ UNCHANGED icwd /\ (slot' = slot \/ slot' = sl)
         \/ icwd' = [icwd EXCEPT ![p] = s] /\ Put(p, sl, imtx, o, NoLoc, "user")
  BY DEF Chdir, Is, fileVars
<1>2. CASE Return(p) /\ UNCHANGED icwd /\ (slot' = slot \/ slot' = sl)
  BY <1>1, <1>2, TableReturn
<1>3. CASE icwd' = [icwd EXCEPT ![p] = s] /\ Put(p, sl, imtx, o, NoLoc, "user")
  <2> DEFINE x == <<"cur", p>>
             y == <<"cwd", p>>
             G == [h \in Places |->
                     IF h[1] \in RefVars /\ h[2] = p THEN None ELSE Held[h]]
             H == [h \in Places |->
                     IF h[1] \in RefVars /\ h[2] = p THEN None
                     ELSE IF h = y THEN s ELSE Held[h]]
             ml == Less(sl, s)
             tl == Less(sl, o)
  <2>1. /\ TableOK(sl) /\ OneSlotIn(sl)
        /\ \A t \in Slots : sl[t].count = slot[t].count
    BY SameTable
  <2>2. /\ TableOK(slot) /\ Covers(Held, slot)
    BY DEF TableInv
  <2> HIDE DEF sl
  <2>3. /\ TableOK(ml) /\ TableOK(tl)
        /\ \A t \in Slots : /\ ml[t].count = slot[t].count - (IF t = s THEN 1 ELSE 0)
                            /\ tl[t].count = slot[t].count - (IF t = o THEN 1 ELSE 0)
                            /\ slot[t].count \in Int
    BY <2>1, <2>2, LessKeeps DEF TableOK
  <2>4. /\ x \in Places /\ y \in Places /\ Held[x] = s /\ Held[y] = o
        /\ "cwd" \notin RefVars
    <3>1. "cur" \in RefVars /\ "cwd" \notin RefVars
      BY DEF RefVars
    <3>2. x \in Places /\ Held[x] = s
      BY <1>1, <3>1, HeldVar
    <3>3. y \in Places /\ Held[y] = o
      BY DEF Places, Held, Named
    <3> QED BY <3>1, <3>2, <3>3
  <2>5. /\ G[x] = None /\ G[y] = o /\ H[y] = s
        /\ \A h \in Places \ {x} : G[h] = Held[h] \/ G[h] \notin Slots
        /\ \A h \in Places \ {y} : H[h] = G[h]
        /\ \A v \in RefVars : <<v, p>> \in Places /\ H[<<v, p>>] = None
    <3>1. "cur" \in RefVars
      BY DEF RefVars
    <3>2. \A v \in RefVars : <<v, p>> \in Places
      BY HeldVar
    <3> QED BY <1>0, <2>4, <3>1, <3>2
  <2>6. \A h \in Places : (h[1] \in RefVars /\ h[2] = p) \/ Held'[h] = H[h]
    <3> TAKE h \in Places
    <3>1. \A q \in Procs \ {p} : loc'[q] = loc[q] /\ pc'[q] = pc[q]
      BY <1>0, <1>3 DEF Put, Goto, LocalsOK
    <3>2. CASE h[1] = "file"
      <4>1. Held'[h] = Held[h] /\ h[1] \notin RefVars /\ h # y
        BY <1>1, <3>2 DEF Held, Named, RefVars
      <4> QED BY <4>1
    <3>3. CASE h[1] = "cwd"
      <4>1. h = <<"cwd", h[2]>> /\ h[2] \in Procs
        BY <3>3 DEF Places, RefVars
      <4>2. Held'[h] = icwd'[h[2]] /\ Held[h] = icwd[h[2]]
        BY <3>3 DEF Held, Named
      <4>3. Held'[h] = IF h = y THEN s ELSE Held[h]
        BY <1>0, <1>3, <4>1, <4>2
      <4> QED BY <2>4, <3>3, <4>3
    <3>4. CASE h[1] \in RefVars /\ h[2] # p
      <4>1. h = <<h[1], h[2]>> /\ h[2] \in Procs /\ h # y
        BY <3>4 DEF Places, RefVars
      <4>2. Held'[h] = Held[h]
        BY <3>1, <3>4, <4>1, HeldVar
      <4> QED BY <3>4, <4>1, <4>2
    <3> QED BY <3>2, <3>3, <3>4 DEF Places
  <2> HIDE DEF G, H, ml, tl, x, y, s, o
  <2>7. Covers(G, ml)
    <3>1. \A t \in Slots : ml[t].count >= slot[t].count
             + (IF G[x] = t THEN 1 ELSE 0) - (IF Held[x] = t THEN 1 ELSE 0)
      BY <1>0, <2>3, <2>4, <2>5
    <3>2. /\ TableOK(ml) /\ x \in Places
          /\ \A h \in Places \ {x} : G[h] = Held[h] \/ G[h] \notin Slots
      BY <2>3, <2>4, <2>5
    <3> QED BY <2>2, <3>1, <3>2, OnePlace
  <2>8. Covers(H, tl)
    <3>1. \A t \in Slots : tl[t].count >= ml[t].count
             + (IF H[y] = t THEN 1 ELSE 0) - (IF G[y] = t THEN 1 ELSE 0)
      BY <1>0, <2>3, <2>5
    <3>2. /\ TableOK(ml) /\ TableOK(tl) /\ y \in Places
          /\ \A h \in Places \ {y} : H[h] = G[h] \/ H[h] \notin Slots
      BY <2>3, <2>4, <2>5
    <3> QED BY <2>7, <3>1, <3>2, OnePlace
  <2>n. DOMAIN NoLoc = LocFields /\ \A v \in RefVars : NoLoc[v] = None
    BY FailShape
  <2>9. Covers(Held', slot')
    <3>1. Covers(H, Less(sl, o)) /\ Put(p, sl, imtx, o, NoLoc, "user")
      BY <1>3, <2>8 DEF tl, o
    <3>2. \A v \in RefVars : H[<<v, p>>] = NoLoc[v]
      BY <2>5, <2>n
    <3> QED BY <1>0, <2>1, <2>6, <2>n, <3>1, <3>2, PutCovers
  <2>10. TableOK(slot') /\ OneSlotIn(slot')
    <3>1. Put(p, sl, imtx, o, NoLoc, "user") /\ DOMAIN icwd' = Procs
      BY <1>0, <1>3 DEF o
    <3> QED BY <1>0, <2>1, <2>n, <3>1, PutKeeps
  <2>11. FilesOK'
    BY <1>1 DEF TableInv, FilesOK
  <2> QED BY <2>9, <2>10, <2>11 DEF TableInv, OneSlotPerInode, OneSlotIn
<1> QED BY <1>1, <1>2, <1>3

(* The other calls on the inode of a path put it or keep its count.        *)
LEMMA TableUse ==
  ASSUME TableInv, NEW p \in Procs, LocalsOK',
         \/ CreatDone(p) \/ MkdirDone(p) \/ Chmod(p) \/ Stat(p) \/ Truncate(p)
         \/ OpenSize(p) \/ PipeFault(p) \/ Gone(p)
  PROVE  TableInv'
<1>1. UNCHANGED <<files, icwd>>
  BY DEF CreatDone, MkdirDone, Chmod, Stat, Truncate, OpenSize, PipeFault, Gone, Panic,
         fileVars, procVars
<1>2. \/ Return(p) /\ (slot' = slot \/ \E s : slot' = Loaded(slot, s))
      \/ UNCHANGED <<pc, loc, slot>>
      \/ Truncate(p)
  BY DEF CreatDone, MkdirDone, Chmod, Stat, OpenSize, PipeFault, Gone, Panic, tableVars
<1>3. CASE Return(p) /\ (slot' = slot \/ \E s : slot' = Loaded(slot, s))
  BY <1>1, <1>3, TableReturn
<1>4. CASE UNCHANGED <<pc, loc, slot>>
  BY <1>1, <1>4, TableStay
<1>5. CASE Truncate(p)
  <2>1. PICK sl : sl = Loaded(slot, loc[p].cur)
    OBVIOUS
  <2>2. /\ TableOK(sl) /\ OneSlotIn(sl)
        /\ \A t \in Slots : sl[t].count = slot[t].count
    BY <2>1, SameTable
  <2>3. Put(p, sl, imtx, loc[p]["cur"], NoLoc, "user") /\ pc[p] \notin {"size", "dents"}
    BY <1>5, <2>1 DEF Truncate, Is
  <2>4. /\ DOMAIN NoLoc = LocFields /\ "cur" \in RefVars
        /\ \A v \in RefVars : NoLoc[v] \notin Slots
    BY FilesAssumption, FailShape DEF RefVars
  <2> QED BY <1>1, <2>2, <2>3, <2>4, PutOwn
<1> QED BY <1>2, <1>3, <1>4, <1>5

(* The end of an inode: its slot keeps its last reference until it is idle *)
(* again.                                                                  *)
LEMMA TableDie ==
  ASSUME TableInv, NEW p \in Procs, LocalsOK', IFree(p) \/ ITruncate(p) \/ IDrop(p)
  PROVE  TableInv'
<1>0. LocalsOK /\ DOMAIN loc[p] = LocFields /\ None \notin Slots
  BY FilesAssumption DEF TableInv, LocalsOK
<1>s. /\ TableOK(slot) /\ OneSlotIn(slot) /\ Covers(Held, slot)
      /\ \A t \in Slots : slot[t].count = slot[t].count /\ slot[t].count \in Int
  BY DEF TableInv, OneSlotPerInode, OneSlotIn, TableOK
<1>u. UNCHANGED <<files, icwd>> /\ pc[p] \notin {"size", "dents"}
  BY DEF IFree, ITruncate, IDrop, fileVars, procVars
<1>1. CASE IFree(p)
  <2>1. Goto(p, "itrunc") /\ UNCHANGED <<slot, loc>>
    BY <1>1 DEF IFree, tableVars
  <2> QED BY <1>u, <2>1, TableGoto
<1>2. CASE ITruncate(p)
  <2> DEFINE s == loc[p].dead
  <2>1. Goto(p, "idrop") /\ UNCHANGED loc /\ slot' = [slot EXCEPT ![s].valid = FALSE]
    BY <1>2 DEF ITruncate
  <2> HIDE DEF s
  <2>2. TableOK(slot') /\ Alike(slot', slot)
    BY <1>s, <2>1 DEF TableOK, Alike, SlotFields
  <2>3. \A q \in Procs \ {p} : loc'[q] = loc[q] /\ pc'[q] = pc[q]
    BY <1>0, <2>1 DEF Goto, LocalsOK
  <2>4. \A v \in RefVars : loc'[p][v] = loc[p][v]
    BY <2>1
  <2> QED BY <1>u, <2>2, <2>3, <2>4, KeepStep
<1>3. CASE IDrop(p)
  <2> DEFINE s == loc[p].dead
             x == <<"dead", p>>
  <2>1. /\ slot' = Less(slot, s) /\ loc' = [loc EXCEPT ![p].dead = None]
        /\ Goto(p, loc[p].then)
    BY <1>3 DEF IDrop, Less
  <2>2. /\ TableOK(slot')
        /\ \A t \in Slots : slot'[t].dev = slot[t].dev /\ slot'[t].no = slot[t].no
        /\ \A t \in Slots : slot'[t].count = slot[t].count - (IF t = s THEN 1 ELSE 0)
    BY <1>s, <2>1, LessKeeps
  <2>3. OneSlotIn(slot')
    BY <1>s, <2>2, OneSlotKept
  <2>4. /\ loc'[p].dead = None /\ \A v \in RefVars \ {"dead"} : loc'[p][v] = loc[p][v]
        /\ \A q \in Procs \ {p} : loc'[q] = loc[q] /\ pc'[q] = pc[q]
    BY <1>0, <2>1 DEF LocalsOK, LocFields, RefVars, Goto
  <2>5. /\ "dead" \in RefVars /\ x \in Places /\ Held[x] = s /\ Held'[x] = None
    <3>1. "dead" \in RefVars
      BY DEF RefVars
    <3> QED BY <1>u, <2>4, <3>1, HeldVar
  <2>6. \A h \in Places \ {x} : Held'[h] = Held[h] \/ Held'[h] \notin Slots
    <3> TAKE h \in Places \ {x}
    <3>1. CASE h[1] \in RefVars /\ h[2] = p
      <4>1. h = <<h[1], p>> /\ h[1] # "dead"
        BY <3>1 DEF Places
      <4> QED BY <1>0, <1>u, <2>4, <3>1, <4>1, HeldVar
    <3> QED BY <1>u, <2>4, <3>1, HeldSame
  <2> HIDE DEF x, s
  <2>7. PICK K, tl : K = Held' /\ tl = slot'
    OBVIOUS
  <2>8. /\ TableOK(slot) /\ TableOK(tl) /\ x \in Places /\ Covers(Held, slot)
        /\ \A h \in Places \ {x} : K[h] = Held[h] \/ K[h] \notin Slots
        /\ \A t \in Slots : tl[t].count >= slot[t].count
             + (IF K[x] = t THEN 1 ELSE 0) - (IF Held[x] = t THEN 1 ELSE 0)
    BY <1>0, <1>s, <2>2, <2>5, <2>6, <2>7
  <2>9. Covers(K, tl)
    BY <2>8, OnePlace
  <2>10. FilesOK'
    BY <1>u DEF TableInv, FilesOK
  <2> QED BY <2>2, <2>3, <2>7, <2>9, <2>10 DEF TableInv, OneSlotPerInode, OneSlotIn
<1> QED BY <1>1, <1>2, <1>3

(* A call with a path counts the directory it starts from.                 *)
LEMMA TablePath ==
  ASSUME TableInv, NEW p \in Procs, LocalsOK', NEW c \in PathCalls, PathCall(p, c)
  PROVE  TableInv'
<1> DEFINE u == IF c.path.abs THEN None ELSE icwd[p]
           k == [NoLoc EXCEPT !.call = c, !.rest = c.path.elems, !.cur = u]
<1>0. LocalsOK /\ DOMAIN loc[p] = LocFields /\ None \notin Slots
  BY FilesAssumption DEF TableInv, LocalsOK
<1>s. /\ TableOK(slot) /\ OneSlotIn(slot) /\ \A t \in Slots : slot[t].count \in Int
  BY DEF TableInv, OneSlotPerInode, OneSlotIn, TableOK
<1>1. /\ loc' = [loc EXCEPT ![p] = k] /\ pc[p] \notin {"size", "dents"} /\ UNCHANGED <<files, icwd>>
      /\ slot' = IF c.path.abs THEN slot ELSE [slot EXCEPT ![icwd[p]].count = @ + 1]
      /\ Goto(p, IF c.path.abs THEN "root" ELSE "walk")
  BY DEF PathCall, WalkFrom, fileVars, procVars
<1>2. \/ slot' = slot /\ u = None
      \/ slot' = [slot EXCEPT ![u].count = @ + 1]
  BY <1>1
<1>3. k.cur = u /\ \A v \in RefVars \ {"cur"} : k[v] = None
  BY FailShape DEF LocFields, RefVars
<1>4. loc'[p] = k /\ \A q \in Procs \ {p} : loc'[q] = loc[q] /\ pc'[q] = pc[q]
  BY <1>0, <1>1 DEF LocalsOK, Goto
<1> HIDE DEF k, u
<1>5. /\ TableOK(slot')
      /\ \A t \in Slots : /\ slot'[t].dev = slot[t].dev /\ slot'[t].no = slot[t].no
                          /\ slot'[t].count = slot[t].count + (IF t = u THEN 1 ELSE 0)
  BY <1>0, <1>s, <1>2 DEF TableOK, SlotFields
<1>6. OneSlotIn(slot')
  BY <1>s, <1>5, OneSlotKept
<1>7. /\ loc'[p].cur = u /\ pc[p] \notin {"size", "dents"} /\ UNCHANGED <<files, icwd>>
      /\ \A v \in RefVars \ {"cur"} : loc'[p][v] = loc[p][v] \/ loc'[p][v] \notin Slots
  BY <1>0, <1>1, <1>3, <1>4
<1> QED BY <1>4, <1>5, <1>6, <1>7, TakeStep

(* getdents() borrows the reference of its descriptor.                     *)
LEMMA TableDents ==
  ASSUME TableInv, NEW p \in Procs, LocalsOK',
         (\E fd \in Fds : Dents(p, fd)) \/ DentsFault(p) \/ DentsEnd(p)
  PROVE  TableInv'
<1>0. LocalsOK /\ FilesOK
  BY DEF TableInv
<1>1. UNCHANGED <<files, icwd>>
  BY DEF Dents, DentsFault, DentsEnd, fileVars, procVars
<1>2. CASE \E fd \in Fds : Dents(p, fd)
  <2>1. /\ Goto(p, "dents") /\ \E s : slot' = Loaded(slot, s)
        /\ \E k : loc' = [loc EXCEPT ![p] = k]
    BY <1>2 DEF Dents
  <2>2. /\ pc'[p] = "dents"
        /\ \A q \in Procs \ {p} : loc'[q] = loc[q] /\ pc'[q] = pc[q]
    BY <1>0, <2>1 DEF Goto, LocalsOK
  <2>3. \A h \in Places : Held'[h] = Held[h] \/ Held'[h] \notin Slots
    <3> TAKE h \in Places
    <3>1. CASE h[1] \in RefVars /\ h[2] = p
      <4>1. h = <<h[1], p>>
        BY <3>1 DEF Places
      <4>2. Held'[h] = None
        BY <2>2, <3>1, <4>1, HeldVar
      <4> QED BY <4>2, FilesAssumption
    <3> QED BY <1>1, <2>2, <3>1, HeldSame
  <2>4. FilesOK'
    BY <1>0, <1>1 DEF FilesOK
  <2> QED BY <2>1, <2>3, <2>4, TableDrop
<1>3. CASE DentsFault(p)
  <2>1. UNCHANGED <<pc, loc>> /\ \E s : slot' = Loaded(slot, s)
    BY <1>3 DEF DentsFault
  <2> QED BY <1>1, <2>1, TableStay
<1>4. CASE DentsEnd(p)
  <2>1. Return(p) /\ slot' = slot
    BY <1>4 DEF DentsEnd
  <2> QED BY <1>1, <2>1, TableReturn
<1> QED BY <1>2, <1>3, <1>4

(* Steps that have to do with descriptors only.                            *)
LEMMA TableFds ==
  ASSUME TableInv, NEW p \in Procs, LocalsOK',
         \/ Pipe(p) \/ Exit(p) \/ FcbFree(p) \/ PipeFirst(p) \/ PipeNoFd(p)
         \/ PipeSecond(p) \/ InodeWait(p) \/ FileWait(p)
         \/ \E fd \in Fds : \/ \E stat \in BOOLEAN : UseFile(p, fd, stat)
                            \/ Dup(p, fd)
                            \/ \E new \in Fds : Dup2(p, fd, new)
  PROVE  TableInv'
<1>0. LocalsOK /\ DOMAIN loc[p] = LocFields
  BY DEF TableInv, LocalsOK
<1>1. UNCHANGED <<files, icwd>>
  BY Zenon DEF Pipe, Exit, FcbFree, PipeFirst, PipeNoFd, PipeSecond, InodeWait, FileWait,
         UseFile, Dup, Dup2, Panic, fileVars, procVars
<1>2. \/ UNCHANGED <<pc, loc>> /\ (slot' = slot \/ \E s : slot' = Loaded(slot, s))
      \/ Return(p) /\ slot' = slot
      \/ /\ slot' = slot /\ pc[p] \notin {"size", "dents"} /\ \E l : Goto(p, l)
         /\ \/ loc' = loc
            \/ \E fd : loc' = [loc EXCEPT ![p].fd = fd]
            \/ \E fd : loc' = [loc EXCEPT ![p].no = fd]
            \/ \E c : loc' = [loc EXCEPT ![p].call = c]
  BY Zenon DEF Pipe, Exit, FcbFree, PipeFirst, PipeNoFd, PipeSecond, InodeWait, FileWait,
         UseFile, Dup, Dup2, Panic, tableVars
<1>3. CASE UNCHANGED <<pc, loc>> /\ (slot' = slot \/ \E s : slot' = Loaded(slot, s))
  BY <1>1, <1>3, TableStay
<1>4. CASE Return(p) /\ slot' = slot
  BY <1>1, <1>4, TableReturn
<1>5. CASE /\ slot' = slot /\ pc[p] \notin {"size", "dents"} /\ \E l : Goto(p, l)
           /\ \/ loc' = loc
              \/ \E fd : loc' = [loc EXCEPT ![p].fd = fd]
              \/ \E fd : loc' = [loc EXCEPT ![p].no = fd]
              \/ \E c : loc' = [loc EXCEPT ![p].call = c]
  <2>1. PICK l : Goto(p, l)
    BY <1>5
  <2>2. PICK k : /\ loc' = [loc EXCEPT ![p] = k] \/ (loc' = loc /\ k = loc[p])
                 /\ \A v \in RefVars : k[v] = loc[p][v]
    <3>1. CASE loc' = loc
      BY <3>1
    <3>2. CASE \E fd : loc' = [loc EXCEPT ![p].fd = fd]
      <4>1. PICK fd : loc' = [loc EXCEPT ![p] = [loc[p] EXCEPT !.fd = fd]]
        BY <3>2
      <4>2. \A v \in RefVars : [loc[p] EXCEPT !.fd = fd][v] = loc[p][v]
        BY <1>0 DEF RefVars, LocFields
      <4> QED BY <4>1, <4>2
    <3>3. CASE \E fd : loc' = [loc EXCEPT ![p].no = fd]
      <4>1. PICK fd : loc' = [loc EXCEPT ![p] = [loc[p] EXCEPT !.no = fd]]
        BY <3>3
      <4>2. \A v \in RefVars : [loc[p] EXCEPT !.no = fd][v] = loc[p][v]
        BY <1>0 DEF RefVars, LocFields
      <4> QED BY <4>1, <4>2
    <3>4. CASE \E c : loc' = [loc EXCEPT ![p].call = c]
      <4>1. PICK c : loc' = [loc EXCEPT ![p] = [loc[p] EXCEPT !.call = c]]
        BY <3>4
      <4>2. \A v \in RefVars : [loc[p] EXCEPT !.call = c][v] = loc[p][v]
        BY <1>0 DEF RefVars, LocFields
      <4> QED BY <4>1, <4>2
    <3> QED BY <1>5, <3>1, <3>2, <3>3, <3>4
  <2>3. slot' = slot /\ pc[p] \notin {"size", "dents"}
    BY <1>5
  <2> QED BY <1>1, <2>1, <2>2, <2>3, TableGoto
<1> QED BY <1>2, <1>3, <1>4, <1>5

(* What a file place names.                                                *)
LEMMA HeldFile ==
  ASSUME NEW f \in Fcbs
  PROVE  /\ <<"file", f>> \in Places
         /\ Held[<<"file", f>>] = IF files[f].count > 0 THEN files[f].inode ELSE None
         /\ Held'[<<"file", f>>] = IF files'[f].count > 0 THEN files'[f].inode ELSE None
BY DEF Places, Held, Named

(* A step of p that leaves icwd alone and fcbs other than those in F.      *)
LEMMA HeldElse ==
  ASSUME NEW p \in Procs, UNCHANGED icwd, NEW F,
         \A f \in Fcbs \ F : files'[f] = files[f],
         \A q \in Procs \ {p} : loc'[q] = loc[q] /\ pc'[q] = pc[q],
         NEW h \in Places
  PROVE  \/ h[1] \in RefVars /\ h[2] = p /\ h = <<h[1], p>>
         \/ h[1] = "file" /\ h[2] \in F /\ h[2] \in Fcbs /\ h = <<"file", h[2]>>
         \/ Held'[h] = Held[h]
<1>1. CASE h[1] = "file"
  <2>1. h = <<"file", h[2]>> /\ h[2] \in Fcbs
    BY <1>1 DEF Places, RefVars
  <2>2. CASE h[2] \notin F
    <3>1. files'[h[2]] = files[h[2]]
      BY <2>1, <2>2
    <3> QED BY <2>1, <3>1, HeldFile
  <2> QED BY <1>1, <2>1, <2>2
<1>2. CASE h[1] = "cwd"
  BY <1>2 DEF Held, Named
<1>3. CASE h[1] \in RefVars
  <2>1. h = <<h[1], h[2]>> /\ h[2] \in Procs
    BY <1>3 DEF Places, RefVars
  <2> QED BY <2>1, <1>3, HeldVar
<1> QED BY <1>1, <1>2, <1>3 DEF Places

(* open() hands the reference of its call to the fcb.                      *)
LEMMA TableOpen ==
  ASSUME TableInv, FcbInv, NEW p \in Procs, LocalsOK', FilesOK', Open(p)
  PROVE  TableInv'
<1> DEFINE f == Head(idle)
           s == loc[p].cur
           k == [NoLoc EXCEPT !.obj = IF loc[p].call.sized THEN s ELSE None]
           x == <<"cur", p>>
           y == <<"file", f>>
           G == [Held EXCEPT ![x] = None]
           ml == Less(slot, s)
<1>0. LocalsOK /\ None \notin Slots /\ FilesOK
  BY FilesAssumption DEF TableInv
<1>s. /\ TableOK(slot) /\ OneSlotIn(slot) /\ Covers(Held, slot)
      /\ \A t \in Slots : slot[t].count \in Int
  BY DEF TableInv, OneSlotPerInode, OneSlotIn, TableOK
<1>1. /\ idle # <<>> /\ idle' = Tail(idle) /\ UNCHANGED <<slot, icwd>> /\ pc[p] = "found"
      /\ files' = [files EXCEPT ![f] = [count |-> @.count + 1, inode |-> s]]
      /\ loc' = [loc EXCEPT ![p] = k]
      /\ Goto(p, IF loc[p].call.sized THEN "size" ELSE "user")
  BY DEF Open, Is, tableVars
<1>2. f \in Fcbs /\ files[f].count = 0
  BY <1>1, IdleTail, IdleUnused
<1>3. /\ files'[f].count = 1 /\ files'[f].inode = s
      /\ \A g \in Fcbs \ {f} : files'[g] = files[g]
  BY <1>0, <1>1, <1>2 DEF FilesOK
<1>4. /\ loc'[p] = k /\ \A q \in Procs \ {p} : loc'[q] = loc[q] /\ pc'[q] = pc[q]
      /\ \A v \in RefVars \ {"obj"} : k[v] = None
      /\ k.obj = None \/ pc'[p] = "size"
  <2>1. /\ \A v \in RefVars \ {"obj"} : k[v] = None
        /\ k.obj = IF loc[p].call.sized THEN s ELSE None
    BY FailShape DEF LocFields, RefVars
  <2> HIDE DEF k
  <2> QED BY <1>0, <1>1, <2>1 DEF LocalsOK, Goto
<1>5. /\ x \in Places /\ y \in Places /\ x # y /\ Held[x] = s /\ Held[y] = None
      /\ Held'[y] = s /\ "cur" \in RefVars
  <2>1. "cur" \in RefVars
    BY DEF RefVars
  <2> HIDE DEF f, s
  <2>2. x \in Places /\ Held[x] = loc[p].cur
    BY <1>1, <2>1, HeldVar
  <2>3. y \in Places /\ Held[y] = None /\ Held'[y] = s
    BY <1>2, <1>3, HeldFile
  <2> QED BY <2>1, <2>2, <2>3 DEF s
<1>6. \A v \in RefVars : <<v, p>> \in Places /\ Held'[<<v, p>>] = None
  <2> HIDE DEF k
  <2> QED BY <1>4, HeldVar
<1>7. G[x] = None /\ \A h \in Places \ {x} : G[h] = Held[h]
  BY <1>5 DEF Held
<1>8. \A h \in Places \ {y} : Held'[h] = G[h] \/ Held'[h] \notin Slots
  <2> HIDE DEF f, k, G, s
  <2> TAKE h \in Places \ {y}
  <2>1. \A g \in Fcbs \ {f} : files'[g] = files[g]
    BY <1>3
  <2>2. \/ h[1] \in RefVars /\ h[2] = p /\ h = <<h[1], p>>
        \/ h[1] = "file" /\ h[2] \in {f} /\ h[2] \in Fcbs /\ h = <<"file", h[2]>>
        \/ Held'[h] = Held[h]
    BY <1>1, <1>4, <2>1, HeldElse
  <2>3. ~(h[1] = "file" /\ h[2] \in {f} /\ h = <<"file", h[2]>>)
    OBVIOUS
  <2>4. CASE h[1] \in RefVars /\ h = <<h[1], p>>
    BY <1>0, <1>6, <2>4
  <2>5. CASE ~(h[1] \in RefVars /\ h = <<h[1], p>>)
    <3>1. Held'[h] = Held[h] /\ h # x
      BY <1>5, <2>2, <2>3, <2>5
    <3> QED BY <1>7, <3>1
  <2> QED BY <2>4, <2>5
<1>9. /\ TableOK(ml)
      /\ \A t \in Slots : ml[t].count = slot[t].count - (IF t = s THEN 1 ELSE 0)
  BY <1>s, LessKeeps
<1> HIDE DEF f, s, k, x, y, G, ml
<1>10. Covers(G, ml)
  <2>1. \A t \in Slots : ml[t].count >= slot[t].count
           + (IF G[x] = t THEN 1 ELSE 0) - (IF Held[x] = t THEN 1 ELSE 0)
    BY <1>0, <1>s, <1>5, <1>7, <1>9
  <2>2. /\ TableOK(ml) /\ x \in Places /\ TableOK(slot) /\ Covers(Held, slot)
        /\ \A h \in Places \ {x} : G[h] = Held[h] \/ G[h] \notin Slots
    BY <1>s, <1>5, <1>7, <1>9
  <2> QED BY <2>1, <2>2, OnePlace
<1>11. Covers(Held', slot)
  <2>1. PICK K : K = Held'
    OBVIOUS
  <2>2. \A t \in Slots : slot[t].count >= ml[t].count
           + (IF K[y] = t THEN 1 ELSE 0) - (IF G[y] = t THEN 1 ELSE 0)
    BY <1>0, <1>s, <1>5, <1>7, <1>9, <2>1
  <2>3. /\ TableOK(ml) /\ y \in Places /\ TableOK(slot)
        /\ \A h \in Places \ {y} : K[h] = G[h] \/ K[h] \notin Slots
    BY <1>s, <1>5, <1>8, <1>9, <2>1
  <2>4. Covers(K, slot)
    BY <1>10, <2>2, <2>3, OnePlace
  <2> QED BY <2>1, <2>4
<1> QED BY <1>s, <1>1, <1>11 DEF TableInv, OneSlotPerInode, OneSlotIn

(* file_close(): an fcb keeps its inode until the last close, which puts   *)
(* it; an inode of no known mode keeps its count.                          *)
LEMMA TableClose ==
  ASSUME TableInv, NEW p \in Procs, NEW fd \in Fds, NEW l, FileClose(p, fd, l),
         fdtable[p][fd] \in Fcbs, pc[p] \notin {"size", "dents"}, l \notin {"size", "dents"}, LocalsOK', FilesOK'
  PROVE  TableInv'
<1> DEFINE f == fdtable[p][fd]
           s == files[f].inode
           k == [loc[p] EXCEPT !.fd = fd]
           x == <<"file", f>>
           H == [Held EXCEPT ![x] = None]
<1>0. LocalsOK /\ None \notin Slots /\ FilesOK /\ DOMAIN loc[p] = LocFields
  BY FilesAssumption DEF TableInv, LocalsOK
<1>s. /\ TableOK(slot) /\ OneSlotIn(slot) /\ Covers(Held, slot)
      /\ \A t \in Slots : slot[t].count \in Int
  BY DEF TableInv, OneSlotPerInode, OneSlotIn, TableOK
<1>1. CASE files[f].count = 0
  BY <1>1, TableStay DEF FileClose, Panic, fileVars, procVars, tableVars
<1>2. CASE files[f].count # 0
  <2>1. /\ files' = [files EXCEPT ![f].count = @ - 1] /\ UNCHANGED icwd
        /\ IF files[f].count > 1
           THEN Goto(p, l) /\ UNCHANGED <<slot, loc>>
           ELSE ClosePut(p, fd, "ffree")
    BY <1>2 DEF FileClose
  <2>2. files[f].count \in Nat /\ f \in Fcbs
    BY <1>0 DEF FilesOK
  <2>3. /\ files'[f].count = files[f].count - 1 /\ files'[f].inode = s
        /\ \A g \in Fcbs \ {f} : files'[g] = files[g]
    BY <1>0, <2>1, <2>2 DEF FilesOK
  <2>4. /\ \/ slot' = slot /\ (files[f].count > 1 \/ slot[s].mode \notin {"reg", "dir"})
           \/ slot' = Less(slot, s) /\ files[f].count = 1
           \/ Put(p, slot, imtx, s, k, "ffree") /\ files[f].count = 1
        /\ \/ Put(p, slot, imtx, s, k, "ffree")
           \/ /\ loc' = loc \/ loc' = [loc EXCEPT ![p] = k]
              /\ Goto(p, "ffree") \/ Goto(p, l)
    <3>1. CASE files[f].count > 1
      BY <2>1, <3>1
    <3>2. CASE files[f].count = 1
      <4>1. ClosePut(p, fd, "ffree")
        BY <2>1, <3>2
      <4>2. CASE slot[s].mode \in {"reg", "dir"}
        BY <3>2, <4>1, <4>2 DEF ClosePut
      <4>3. CASE slot[s].mode = "fifo"
        BY <3>2, <4>1, <4>3 DEF ClosePut, Less
      <4>4. CASE slot[s].mode \notin {"reg", "dir", "fifo"}
        BY <3>2, <4>1, <4>4 DEF ClosePut
      <4> QED BY <4>2, <4>3, <4>4
    <3> QED BY <1>2, <2>2, <3>1, <3>2
  <2>5. DOMAIN k = LocFields /\ \A v \in RefVars : k[v] = loc[p][v]
    BY <1>0 DEF LocFields, RefVars
  <2>6. /\ x \in Places
        /\ Held[x] = s
        /\ Held'[x] = IF files[f].count > 1 THEN s ELSE None
        /\ H[x] = None /\ \A h \in Places \ {x} : H[h] = Held[h]
    <3> HIDE DEF f, s
    <3>1. x \in Places /\ Held[x] = s
      BY <1>2, <2>2, HeldFile DEF s
    <3>2. Held'[x] = IF files[f].count > 1 THEN s ELSE None
      BY <1>2, <2>2, <2>3, HeldFile
    <3> QED BY <3>1, <3>2 DEF Held
  <2> HIDE DEF f, s, k, H
  <2>7. \A v \in RefVars :
           <<v, p>> \in Places /\ H[<<v, p>>] = loc[p][v] /\ Held[<<v, p>>] = loc[p][v]
    <3> TAKE v \in RefVars
    <3>1. <<v, p>> \in Places /\ Held[<<v, p>>] = loc[p][v] /\ v # "file"
      BY HeldVar DEF RefVars
    <3> QED BY <2>6, <3>1
  <2>8. \A q \in Procs \ {p} : loc'[q] = loc[q] /\ pc'[q] = pc[q]
    BY <1>0, <2>4 DEF LocalsOK, Put, Goto
  <2>9. \A h \in Places \ {x} : (h[1] \in RefVars /\ h[2] = p) \/ Held'[h] = Held[h]
    <3> TAKE h \in Places \ {x}
    <3>1. UNCHANGED icwd /\ \A g \in Fcbs \ {f} : files'[g] = files[g]
      BY <2>1, <2>3
    <3>2. \/ h[1] \in RefVars /\ h[2] = p /\ h = <<h[1], p>>
          \/ h[1] = "file" /\ h[2] \in {f} /\ h[2] \in Fcbs /\ h = <<"file", h[2]>>
          \/ Held'[h] = Held[h]
      BY <2>8, <3>1, HeldElse
    <3> QED BY <3>2
  <2>10. CASE Put(p, slot, imtx, s, k, "ffree") /\ files[f].count = 1
    <3> DEFINE tl == Less(slot, s)
    <3>1. /\ TableOK(tl)
          /\ \A t \in Slots : tl[t].count = slot[t].count - (IF t = s THEN 1 ELSE 0)
      BY <1>s, LessKeeps
    <3> HIDE DEF tl, x
    <3>2. Covers(H, tl)
      <4>1. \A t \in Slots : tl[t].count >= slot[t].count
             + (IF H[x] = t THEN 1 ELSE 0) - (IF Held[x] = t THEN 1 ELSE 0)
        BY <1>0, <1>s, <2>6, <3>1
      <4>2. /\ TableOK(slot) /\ TableOK(tl) /\ x \in Places /\ Covers(Held, slot)
            /\ \A h \in Places \ {x} : H[h] = Held[h] \/ H[h] \notin Slots
        BY <1>s, <2>6, <3>1
      <4> QED BY <4>1, <4>2, OnePlace
    <3>3. Put(p, slot, imtx, s, k, "ffree") /\ DOMAIN icwd' = Procs
      BY <1>0, <2>1, <2>10 DEF LocalsOK
    <3>4. /\ \A v \in RefVars : H[<<v, p>>] = k[v]
          /\ \A h \in Places : (h[1] \in RefVars /\ h[2] = p) \/ Held'[h] = H[h]
      BY <2>5, <2>6, <2>7, <2>9, <2>10
    <3>5. Covers(H, Less(slot, s))
      BY <3>2 DEF tl
    <3>6. Covers(Held', slot')
      BY <1>0, <1>s, <2>5, <3>3, <3>4, <3>5, PutCovers
    <3>7. TableOK(slot') /\ OneSlotIn(slot')
      BY <1>0, <1>s, <2>5, <3>3, PutKeeps
    <3> QED BY <3>6, <3>7 DEF TableInv, OneSlotPerInode, OneSlotIn
  <2>11. CASE ~Put(p, slot, imtx, s, k, "ffree")
    <3>1. \A v \in RefVars : loc'[p][v] = loc[p][v] /\ pc'[p] \notin {"size", "dents"}
      BY <1>0, <2>4, <2>5, <2>11 DEF LocalsOK, Goto
    <3>2. \A h \in Places \ {x} : Held'[h] = Held[h]
      <4> TAKE h \in Places \ {x}
      <4>1. CASE h[1] \in RefVars /\ h[2] = p
        <5>1. h = <<h[1], p>>
          BY <4>1 DEF Places
        <5> QED BY <2>7, <3>1, <4>1, <5>1, HeldVar
      <4> QED BY <2>9, <4>1
    <3>3. CASE slot' = slot
      <4>1. \A h \in Places : Held'[h] = Held[h] \/ Held'[h] \notin Slots
        BY <1>0, <2>6, <3>2
      <4> QED BY <3>3, <4>1, TableDrop
    <3>4. CASE slot' = Less(slot, s) /\ files[f].count = 1
      <4>1. /\ TableOK(slot')
            /\ \A t \in Slots : slot'[t].dev = slot[t].dev /\ slot'[t].no = slot[t].no
            /\ \A t \in Slots : slot'[t].count = slot[t].count - (IF t = s THEN 1 ELSE 0)
        BY <1>s, <3>4, LessKeeps
      <4>2. OneSlotIn(slot')
        BY <1>s, <4>1, OneSlotKept
      <4> HIDE DEF x
      <4>3. PICK K, tl : K = Held' /\ tl = slot'
        OBVIOUS
      <4>4. \A t \in Slots : tl[t].count >= slot[t].count
             + (IF K[x] = t THEN 1 ELSE 0) - (IF Held[x] = t THEN 1 ELSE 0)
        BY <1>0, <1>s, <2>6, <3>4, <4>1, <4>3
      <4>5. /\ TableOK(slot) /\ TableOK(tl) /\ x \in Places /\ Covers(Held, slot)
            /\ \A h \in Places \ {x} : K[h] = Held[h] \/ K[h] \notin Slots
        BY <1>s, <2>6, <3>2, <4>1, <4>3
      <4>6. Covers(K, tl)
        BY <4>4, <4>5, OnePlace
      <4> QED BY <4>1, <4>2, <4>3, <4>6 DEF TableInv, OneSlotPerInode, OneSlotIn
    <3> QED BY <2>4, <2>11, <3>3, <3>4
  <2>12. CASE Put(p, slot, imtx, s, k, "ffree") /\ files[f].count # 1
    <3>1. files[f].count > 1
      BY <1>2, <2>2, <2>12
    <3>2. Goto(p, l) /\ UNCHANGED <<slot, loc>>
      BY <2>1, <3>1
    <3>3. \A v \in RefVars : loc'[p][v] = loc[p][v] /\ pc'[p] \notin {"size", "dents"}
      BY <1>0, <3>2 DEF LocalsOK, Goto
    <3>4. \A h \in Places \ {x} : Held'[h] = Held[h]
      <4> TAKE h \in Places \ {x}
      <4>1. CASE h[1] \in RefVars /\ h[2] = p
        <5>1. h = <<h[1], p>>
          BY <4>1 DEF Places
        <5> QED BY <2>7, <3>3, <4>1, <5>1, HeldVar
      <4> QED BY <2>9, <4>1
    <3>5. \A h \in Places : Held'[h] = Held[h] \/ Held'[h] \notin Slots
      BY <2>6, <3>1, <3>4
    <3> QED BY <3>2, <3>5, TableDrop
  <2> QED BY <2>10, <2>11, <2>12
<1> QED BY <1>1, <1>2

(* The closes of close(), dup2() and exit, and the end of dup2() and dup().*)
LEMMA TableCloses ==
  ASSUME TableInv, FcbInv, NEW p \in Procs, LocalsOK', FilesOK',
         (\E fd \in Fds : Close(p, fd)) \/ Dup2Close(p) \/ ExitClose(p) \/ DupFd(p)
  PROVE  TableInv'
<1>0. /\ LocalsOK /\ FilesOK /\ None \notin Slots /\ DOMAIN loc[p] = LocFields
      /\ \A fd \in Fds : fdtable[p][fd] \in Fcbs \/ fdtable[p][fd] = -1
  BY FilesAssumption DEF TableInv, LocalsOK, FcbInv
<1>1. ASSUME NEW fd \in Fds, Close(p, fd) PROVE TableInv'
  <2>1. FileClose(p, fd, "user") /\ fdtable[p][fd] \in Fcbs /\ pc[p] \notin {"size", "dents"}
    BY <1>0, <1>1 DEF Close
  <2> QED BY <2>1, TableClose
<1>2. CASE Dup2Close(p)
  <2> DEFINE new == loc[p].call.new
  <2>1. new \in Fds /\ pc[p] \notin {"size", "dents"}
    BY <1>2, Busy DEF Dup2Close, Dead3, Control, DupArgs
  <2>2. CASE fdtable[p][new] = -1
    <3>1. Goto(p, "dupfd") /\ UNCHANGED <<files, loc, icwd, slot>>
      BY <1>2, <2>2 DEF Dup2Close, fileVars, procVars, tableVars
    <3> QED BY <2>1, <3>1, TableGoto
  <2>3. CASE fdtable[p][new] # -1
    <3>1. FileClose(p, new, "dupfd") /\ fdtable[p][new] \in Fcbs
      BY <1>0, <1>2, <2>1, <2>3 DEF Dup2Close
    <3> QED BY <2>1, <3>1, TableClose
  <2> QED BY <2>2, <2>3
<1>3. CASE ExitClose(p)
  <2> DEFINE open == Fds \ FreeFds(p)
             fd == Lowest(open)
  <2>1. open # {} /\ FileClose(p, fd, "exit") /\ pc[p] \notin {"size", "dents"}
    BY <1>3 DEF ExitClose
  <2>2. fd \in open
    BY <2>1, LowestFd
  <2>3. fd \in Fds /\ fdtable[p][fd] # -1
    BY <2>2 DEF FreeFds
  <2> HIDE DEF fd, open
  <2>4. fdtable[p][fd] \in Fcbs
    BY <1>0, <2>3
  <2> QED BY <2>1, <2>3, <2>4, TableClose
<1>4. CASE DupFd(p)
  <2> DEFINE f == fdtable[p][loc[p].call.old]
  <2>1. \/ UNCHANGED <<files, icwd, pc, loc, slot>>
        \/ UNCHANGED files /\ Return(p) /\ UNCHANGED <<slot, icwd>>
        \/ /\ f # -1 /\ files[f].count # 0
           /\ files' = [files EXCEPT ![f].count = @ + 1]
           /\ Return(p) /\ UNCHANGED <<slot, icwd>>
    BY Zenon, <1>4 DEF DupFd, Panic, tableVars, fileVars, procVars
  <2>2. CASE UNCHANGED <<files, icwd, pc, loc, slot>>
    BY <2>2, TableStay
  <2>3. CASE UNCHANGED files /\ Return(p) /\ UNCHANGED <<slot, icwd>>
    BY <2>3, TableReturn
  <2>4. CASE /\ f # -1 /\ files[f].count # 0
             /\ files' = [files EXCEPT ![f].count = @ + 1]
             /\ Return(p) /\ UNCHANGED <<slot, icwd>>
    <3>1. f \in Fcbs
      <4>1. loc[p].call.old \in Fds
        BY Zenon, <1>4, Busy DEF DupFd, Dead3, Control, DupArgs
      <4> QED BY <1>0, <2>4, <4>1
    <3>d. files' = [files EXCEPT ![f].count = @ + 1] /\ files[f].count # 0
      BY <2>4
    <3> HIDE DEF f
    <3>2. /\ files'[f].count > 0 /\ files[f].count > 0
          /\ files'[f].inode = files[f].inode
          /\ \A g \in Fcbs \ {f} : files'[g] = files[g]
      BY <1>0, <3>1, <3>d DEF FilesOK
    <3>3. Held'[<<"file", f>>] = Held[<<"file", f>>]
      BY <3>1, <3>2, HeldFile
    <3>4. Goto(p, "user") /\ loc' = [loc EXCEPT ![p] = NoLoc] /\ UNCHANGED <<slot, icwd>>
      BY <2>4 DEF Return
    <3>5. loc'[p] = NoLoc /\ \A q \in Procs \ {p} : loc'[q] = loc[q] /\ pc'[q] = pc[q]
      BY <1>0, <3>4, ReturnMoves
    <3>6. \A v \in RefVars : Held'[<<v, p>>] \notin Slots
      BY <1>0, <3>5, FailShape, HeldVar
    <3>7. \A h \in Places : Held'[h] = Held[h] \/ Held'[h] \notin Slots
      <4> TAKE h \in Places
      <4>1. \/ h[1] \in RefVars /\ h[2] = p /\ h = <<h[1], p>>
            \/ h[1] = "file" /\ h[2] \in {f} /\ h[2] \in Fcbs /\ h = <<"file", h[2]>>
            \/ Held'[h] = Held[h]
        BY <3>2, <3>4, <3>5, HeldElse
      <4> QED BY <3>3, <3>6, <4>1
    <3> QED BY <3>4, <3>7, TableDrop
  <2> QED BY Zenon, <2>1, <2>2, <2>3, <2>4
<1> QED BY <1>1, <1>2, <1>3, <1>4

(* exit puts the current directory once icwd does not name it any more.    *)
LEMMA TableExitPut ==
  ASSUME TableInv, NEW p \in Procs, LocalsOK', ExitPut(p)
  PROVE  TableInv'
<1> DEFINE o == icwd[p]
           y == <<"cwd", p>>
           H == [Held EXCEPT ![y] = None]
           tl == Less(slot, o)
<1>0. /\ LocalsOK /\ None \notin Slots /\ DOMAIN loc[p] = LocFields
      /\ DOMAIN icwd = Procs
  BY FilesAssumption DEF TableInv, LocalsOK
<1>s. /\ TableOK(slot) /\ OneSlotIn(slot) /\ Covers(Held, slot)
      /\ \A t \in Slots : slot[t].count \in Int
  BY DEF TableInv, OneSlotPerInode, OneSlotIn, TableOK
<1>1. /\ UNCHANGED files /\ pc[p] = "exit" /\ icwd' = [icwd EXCEPT ![p] = None]
      /\ Put(p, slot, imtx, o, loc[p], "gone")
  BY DEF ExitPut, fileVars
<1>2. y \in Places /\ Held[y] = o
  BY DEF Places, Held, Named
<1>3. H[y] = None /\ \A h \in Places \ {y} : H[h] = Held[h]
  BY <1>2 DEF Held
<1>4. /\ TableOK(tl)
      /\ \A t \in Slots : tl[t].count = slot[t].count - (IF t = o THEN 1 ELSE 0)
  BY <1>s, LessKeeps
<1> HIDE DEF H
<1>5. \A v \in RefVars : H[<<v, p>>] = loc[p][v]
  <2> TAKE v \in RefVars
  <2>1. <<v, p>> \in Places /\ Held[<<v, p>>] = loc[p][v] /\ v # "cwd"
    BY <1>1, HeldVar DEF RefVars
  <2> QED BY <1>3, <2>1
<1>6. \A h \in Places : (h[1] \in RefVars /\ h[2] = p) \/ Held'[h] = H[h]
  <2> TAKE h \in Places
  <2>1. \A q \in Procs \ {p} : loc'[q] = loc[q] /\ pc'[q] = pc[q]
    BY <1>0, <1>1 DEF Put, Goto, LocalsOK
  <2>2. CASE h[1] = "file"
    <3>1. Held'[h] = Held[h] /\ h # y
      BY <1>1, <2>2 DEF Held, Named
    <3> QED BY <1>3, <3>1
  <2>3. CASE h[1] = "cwd"
    <3>1. h = <<"cwd", h[2]>> /\ h[2] \in Procs
      BY <2>3 DEF Places, RefVars
    <3>2. Held'[h] = icwd'[h[2]] /\ Held[h] = icwd[h[2]]
      BY <2>3 DEF Held, Named
    <3>3. Held'[h] = IF h = y THEN None ELSE Held[h]
      BY <1>0, <1>1, <3>1, <3>2
    <3> QED BY <1>3, <3>3
  <2>4. CASE h[1] \in RefVars /\ h[2] # p
    <3>1. h = <<h[1], h[2]>> /\ h[2] \in Procs /\ h # y
      BY <2>4 DEF Places, RefVars
    <3>2. Held'[h] = Held[h]
      BY <2>1, <2>4, <3>1, HeldVar
    <3> QED BY <1>3, <3>1, <3>2
  <2> QED BY <2>2, <2>3, <2>4 DEF Places
<1> HIDE DEF tl, y, o
<1>7. Covers(H, tl)
  <2>1. \A t \in Slots : tl[t].count >= slot[t].count
           + (IF H[y] = t THEN 1 ELSE 0) - (IF Held[y] = t THEN 1 ELSE 0)
    BY <1>0, <1>s, <1>2, <1>3, <1>4
  <2>2. /\ TableOK(slot) /\ TableOK(tl) /\ y \in Places /\ Covers(Held, slot)
        /\ \A h \in Places \ {y} : H[h] = Held[h] \/ H[h] \notin Slots
    BY <1>s, <1>2, <1>3, <1>4
  <2> QED BY <2>1, <2>2, OnePlace
<1>8. Covers(H, Less(slot, o)) /\ DOMAIN icwd' = Procs
  BY <1>0, <1>1, <1>7 DEF tl
<1>9. Covers(Held', slot')
  BY <1>0, <1>s, <1>1, <1>5, <1>6, <1>8, PutCovers
<1>10. TableOK(slot') /\ OneSlotIn(slot')
  BY <1>0, <1>s, <1>1, <1>8, PutKeeps
<1>11. FilesOK'
  BY <1>1 DEF TableInv, FilesOK
<1> QED BY <1>9, <1>10, <1>11 DEF TableInv, OneSlotPerInode, OneSlotIn

(* pipe() takes a slot with i_count 0 and counts both its ends.            *)
LEMMA TablePipe ==
  ASSUME TableInv, FcbInv, NEW p \in Procs, LocalsOK', FilesOK', PipeInode(p)
  PROVE  TableInv'
<1> DEFINE f == fdtable[p][loc[p].fd]
           g == fdtable[p][loc[p].no]
           s == Lowest(Free)
           x == <<"file", f>>
           y == <<"file", g>>
           G == [Held EXCEPT ![x] = s]
           ml == [slot EXCEPT ![s].count = 1]
<1>0. LocalsOK /\ None \notin Slots /\ FilesOK /\ DOMAIN loc[p] = LocFields
  BY FilesAssumption DEF TableInv, LocalsOK
<1>s. /\ TableOK(slot) /\ OneSlotIn(slot) /\ Covers(Held, slot)
      /\ \A t \in Slots : slot[t].count \in Int
  BY DEF TableInv, OneSlotPerInode, OneSlotIn, TableOK
<1>1. /\ slot' = [slot EXCEPT ![s] = [@ EXCEPT !.dev = 0, !.count = 2, !.mode = "fifo"]]
      /\ files' = [files EXCEPT ![f] = [count |-> @.count + 1, inode |-> s],
                                ![g] = [count |-> @.count + 1, inode |-> s]]
      /\ Goto(p, "user") /\ loc' = [loc EXCEPT ![p] = NoLoc] /\ UNCHANGED icwd
      /\ Free # {}
  BY DEF PipeInode, Return, procVars
<1>2. s \in Slots /\ slot[s].count = 0
  <2>1. Free \in SUBSET Nat
    BY FilesAssumption DEF Free, Slots
  <2>2. s \in Free
    BY <1>1, <2>1, LowestExists DEF Lowest
  <2> QED BY <2>2 DEF Free
<1>3. /\ f \in Fcbs /\ g \in Fcbs /\ f # g
      /\ files[f].count = 0 /\ files[g].count = 0
  <2>1. Bare(p, loc[p].fd) /\ Bare(p, loc[p].no) /\ loc[p].no # loc[p].fd
    BY Busy DEF PipeInode, Dead3, Control
  <2>2. /\ loc[p].fd \in Fds /\ loc[p].no \in Fds /\ f \in Fcbs /\ g \in Fcbs
        /\ files[f].count = 0 /\ files[g].count = 0
    BY <2>1 DEF Bare
  <2>3. \A q \in Procs, d \in Fds : fdtable[q][d] = f => q = p /\ d = loc[p].fd
    BY <2>2, OneUser
  <2> QED BY <2>1, <2>2, <2>3
<1> HIDE DEF f, g, s
<1>4. /\ files'[f] = [count |-> 1, inode |-> s] /\ files'[g] = [count |-> 1, inode |-> s]
      /\ \A h \in Fcbs \ {f, g} : files'[h] = files[h]
  <2>1. files'[g] = [count |-> 1, inode |-> s]
    BY <1>0, <1>1, <1>3 DEF FilesOK
  <2>2. files'[f] = [count |-> 1, inode |-> s]
    BY <1>0, <1>1, <1>3 DEF FilesOK
  <2>3. \A h \in Fcbs \ {f, g} : files'[h] = files[h]
    BY <1>0, <1>1, <1>3 DEF FilesOK
  <2> QED BY <2>1, <2>2, <2>3
<1>5. /\ x \in Places /\ y \in Places /\ x # y
      /\ Held[x] = None /\ Held[y] = None /\ Held'[x] = s /\ Held'[y] = s
  <2>1. /\ files'[f].count = 1 /\ files'[f].inode = s
        /\ files'[g].count = 1 /\ files'[g].inode = s
    BY <1>4
  <2>2. x # y
    BY <1>3
  <2>3. x \in Places /\ Held[x] = None /\ Held'[x] = s
    BY <1>3, <2>1, HeldFile
  <2>4. y \in Places /\ Held[y] = None /\ Held'[y] = s
    BY <1>3, <2>1, HeldFile
  <2> QED BY <2>2, <2>3, <2>4
<1>6. loc'[p] = NoLoc /\ \A q \in Procs \ {p} : loc'[q] = loc[q] /\ pc'[q] = pc[q]
  BY <1>0, <1>1, ReturnMoves
<1>7. G[x] = s /\ G[y] = None /\ \A h \in Places \ {x} : G[h] = Held[h]
  BY <1>5 DEF Held
<1> HIDE DEF x, y, G
<1>8. \A h \in Places \ {y} : Held'[h] = G[h] \/ Held'[h] \notin Slots
  <2> TAKE h \in Places \ {y}
  <2>1. \A v \in RefVars : Held'[<<v, p>>] \notin Slots
    BY <1>0, <1>6, FailShape, HeldVar
  <2>2. UNCHANGED icwd /\ \A d \in Fcbs \ {f, g} : files'[d] = files[d]
    BY <1>1, <1>4
  <2>3. \/ h[1] \in RefVars /\ h[2] = p /\ h = <<h[1], p>>
        \/ h[1] = "file" /\ h[2] \in {f, g} /\ h[2] \in Fcbs /\ h = <<"file", h[2]>>
        \/ Held'[h] = Held[h]
    BY <1>6, <2>2, HeldElse
  <2>4. CASE h = x
    BY <1>5, <1>7, <2>4
  <2>5. CASE h # x
    <3>1. ~(h[2] \in {f, g} /\ h = <<"file", h[2]>>)
      BY <2>5 DEF x, y
    <3> QED BY <1>7, <2>1, <2>3, <2>5, <3>1
  <2> QED BY <2>4, <2>5
<1>9. /\ TableOK(ml) /\ TableOK(slot')
      /\ \A t \in Slots : ml[t].count = slot[t].count + (IF t = s THEN 1 ELSE 0)
      /\ \A t \in Slots : slot'[t].count = slot[t].count + (IF t = s THEN 2 ELSE 0)
      /\ slot'[s].dev = 0
      /\ \A t \in Slots \ {s} : slot'[t] = slot[t]
  <2>1. /\ TableOK(ml)
        /\ \A t \in Slots : ml[t].count = slot[t].count + (IF t = s THEN 1 ELSE 0)
    BY <1>s, <1>2 DEF TableOK, SlotFields
  <2>2. /\ TableOK(slot') /\ slot'[s].dev = 0 /\ slot'[s].count = 2
        /\ \A t \in Slots \ {s} : slot'[t] = slot[t]
    BY <1>s, <1>1, <1>2 DEF TableOK, SlotFields
  <2>3. \A t \in Slots : slot'[t].count = slot[t].count + (IF t = s THEN 2 ELSE 0)
    BY <1>s, <1>2, <2>2
  <2> QED BY <2>1, <2>2, <2>3
<1>10. OneSlotIn(slot')
  BY <1>s, <1>9 DEF OneSlotIn
<1> HIDE DEF ml
<1>11. Covers(G, ml)
  <2>1. \A t \in Slots : ml[t].count >= slot[t].count
           + (IF G[x] = t THEN 1 ELSE 0) - (IF Held[x] = t THEN 1 ELSE 0)
    BY <1>0, <1>s, <1>5, <1>7, <1>9
  <2>2. /\ TableOK(slot) /\ TableOK(ml) /\ x \in Places /\ Covers(Held, slot)
        /\ \A h \in Places \ {x} : G[h] = Held[h] \/ G[h] \notin Slots
    BY <1>s, <1>5, <1>7, <1>9
  <2> QED BY <2>1, <2>2, OnePlace
<1>12. PICK K, tl : K = Held' /\ tl = slot'
  OBVIOUS
<1>13. Covers(K, tl)
  <2>1. \A t \in Slots : tl[t].count >= ml[t].count
           + (IF K[y] = t THEN 1 ELSE 0) - (IF G[y] = t THEN 1 ELSE 0)
    BY <1>0, <1>s, <1>5, <1>7, <1>9, <1>12
  <2>2. /\ TableOK(ml) /\ TableOK(tl) /\ y \in Places
        /\ \A h \in Places \ {y} : K[h] = G[h] \/ K[h] \notin Slots
    BY <1>5, <1>8, <1>9, <1>12
  <2> QED BY <1>11, <2>1, <2>2, OnePlace
<1> QED BY <1>9, <1>10, <1>12, <1>13 DEF TableInv, OneSlotPerInode, OneSlotIn

(* fork() counts the child's reference to the cwd; its descriptors use the *)
(* references of the fcbs.                                                 *)
LEMMA TableFork ==
  ASSUME TableInv, FcbInv, NEW p \in Procs, NEW q \in Procs, LocalsOK', FilesOK',
         Fork(p, q)
  PROVE  TableInv'
<1> DEFINE u == icwd[p]
           y == <<"cwd", q>>
           bad == \E fd \in Fds : fdtable[p][fd] # -1 /\ files[fdtable[p][fd]].count = 0
<1>0. /\ LocalsOK /\ None \notin Slots /\ FilesOK /\ DOMAIN icwd = Procs
      /\ fdtable \in [Procs -> [Fds -> Fcbs \cup {-1}]]
  BY FilesAssumption DEF TableInv, LocalsOK, FcbInv
<1>s. /\ TableOK(slot) /\ OneSlotIn(slot) /\ Covers(Held, slot)
      /\ \A t \in Slots : slot[t].count \in Int
  BY DEF TableInv, OneSlotPerInode, OneSlotIn, TableOK
<1>1. CASE bad
  BY <1>1, TableStay DEF Fork, Panic, fileVars, procVars, tableVars
<1>2. CASE ~bad
  <2>1. /\ fdtable' = [fdtable EXCEPT ![q] = fdtable[p]]
        /\ files' = [f \in Fcbs |-> [files[f] EXCEPT !.count = @ + UsesOf(p, f)]]
        /\ slot' = [slot EXCEPT ![u].count = @ + 1] /\ icwd' = [icwd EXCEPT ![q] = u]
        /\ UNCHANGED <<pc, loc>>
    BY <1>2 DEF Fork
  <2>2. FreeFds(q) = Fds
    BY DEF Fork, FcbInv, Control
  <2>3. ForkChange(p)
    BY <1>0, <2>1, <2>2, ForkUsers
  <2>4. \A f \in Fcbs : UsesOf(p, f) \in Nat /\ (UsesOf(p, f) # 0 => files[f].count # 0)
    <3> TAKE f \in Fcbs
    <3>1. f # -1
      BY FilesAssumption DEF Fcbs
    <3>2. UsesOf(p, f) # 0 => \E fd \in Fds : fdtable[p][fd] = f
      BY <2>3 DEF ForkChange
    <3>3. UsesOf(p, f) \in Nat
      BY <2>3 DEF ForkChange
    <3> QED BY <1>2, <3>1, <3>2, <3>3
  <2>5. \A f \in Fcbs : /\ files'[f].count = files[f].count + UsesOf(p, f)
                        /\ files'[f].inode = files[f].inode
    BY <1>0, <2>1 DEF FilesOK
  <2>6. \A f \in Fcbs : files'[f].count > 0 <=> files[f].count > 0
    <3> TAKE f \in Fcbs
    <3>1. files[f].count \in Nat
      BY <1>0 DEF FilesOK
    <3> QED BY <2>4, <2>5, <3>1
  <2>7. y \in Places /\ Held'[y] = u
    BY <1>0, <2>1 DEF Places, Held, Named
  <2>8. \A h \in Places \ {y} : Held'[h] = Held[h]
    <3> TAKE h \in Places \ {y}
    <3>1. CASE h[1] = "file"
      <4>1. h = <<"file", h[2]>> /\ h[2] \in Fcbs
        BY <3>1 DEF Places, RefVars
      <4> QED BY <2>5, <2>6, <4>1, HeldFile
    <3>2. CASE h[1] = "cwd"
      <4>1. h = <<"cwd", h[2]>> /\ h[2] \in Procs
        BY <3>2 DEF Places, RefVars
      <4>2. Held'[h] = icwd'[h[2]] /\ Held[h] = icwd[h[2]]
        BY <3>2 DEF Held, Named
      <4> QED BY <1>0, <2>1, <4>1, <4>2
    <3>3. CASE h[1] \in RefVars
      <4>1. h = <<h[1], h[2]>> /\ h[2] \in Procs
        BY <3>3 DEF Places, RefVars
      <4> QED BY <2>1, <3>3, <4>1, HeldVar
    <3> QED BY <3>1, <3>2, <3>3 DEF Places
  <2> HIDE DEF y, u
  <2>9. /\ TableOK(slot')
        /\ \A t \in Slots : /\ slot'[t].dev = slot[t].dev /\ slot'[t].no = slot[t].no
                            /\ slot'[t].count = slot[t].count + (IF t = u THEN 1 ELSE 0)
    BY <1>s, <2>1 DEF TableOK, SlotFields
  <2>10. OneSlotIn(slot')
    BY <1>s, <2>9, OneSlotKept
  <2>11. PICK K, tl : K = Held' /\ tl = slot'
    OBVIOUS
  <2>12. Covers(K, tl)
    <3>1. \A t \in Slots : tl[t].count >= slot[t].count
             + (IF K[y] = t THEN 1 ELSE 0) - (IF Held[y] = t THEN 1 ELSE 0)
      BY <1>s, <2>7, <2>9, <2>11
    <3>2. /\ TableOK(slot) /\ TableOK(tl) /\ y \in Places /\ Covers(Held, slot)
          /\ \A h \in Places \ {y} : K[h] = Held[h] \/ K[h] \notin Slots
      BY <1>s, <2>7, <2>8, <2>9, <2>11
    <3> QED BY <3>1, <3>2, OnePlace
  <2> QED BY <2>9, <2>10, <2>11, <2>12 DEF TableInv, OneSlotPerInode, OneSlotIn
<1> QED BY <1>1, <1>2

(* At boot only the first slot is in use, by the current directories of    *)
(* the processes.                                                          *)
LEMMA InitTable == Init => TableInv
<1> SUFFICES ASSUME Init PROVE TableInv
  OBVIOUS
<1>1. /\ alive \subseteq Procs
      /\ icwd = [p \in Procs |-> IF p \in alive THEN 1 ELSE None]
      /\ files = [f \in Fcbs |-> [count |-> 0, inode |-> None]]
      /\ pc = [p \in Procs |-> "user"] /\ loc = [p \in Procs |-> NoLoc]
  BY DEF Init
<1>2. slot = [s \in Slots |->
          [dev |-> IF s = 1 THEN 1 ELSE 0, no |-> IF s = 1 THEN Root ELSE 0,
           count |-> IF s = 1 THEN Cardinality(alive) ELSE 0,
           valid |-> FALSE, mode |-> "none", links |-> 0]]
  BY DEF Init
<1>3. IsFiniteSet(alive) /\ Cardinality(alive) \in Nat
  BY <1>1, FilesAssumption, FS_Subset, FS_CardinalityType
<1>4. TableOK(slot) /\ OneSlotPerInode
  <2>1. \A s \in Slots : /\ DOMAIN slot[s] = SlotFields
                         /\ slot[s].dev = (IF s = 1 THEN 1 ELSE 0)
                         /\ slot[s].count = (IF s = 1 THEN Cardinality(alive) ELSE 0)
    BY <1>2 DEF SlotFields
  <2>2. DOMAIN slot = Slots
    BY <1>2
  <2> QED BY <1>3, <2>1, <2>2 DEF TableOK, OneSlotPerInode
<1>5. LocalsOK /\ FilesOK
  BY <1>1, FailShape DEF LocalsOK, FilesOK
<1>6. None \notin Slots /\ 1 \in Slots
  BY FilesAssumption DEF Slots
<1>7. \A h \in Places : Held[h] # None <=> h \in {"cwd"} \X alive
  <2> TAKE h \in Places
  <2>1. CASE h[1] = "file"
    <3>1. h[2] \in Fcbs
      BY <2>1 DEF Places, RefVars
    <3> QED BY <1>1, <2>1, <3>1 DEF Held, Named
  <2>2. CASE h[1] = "cwd"
    <3>1. h[2] \in Procs /\ h = <<"cwd", h[2]>>
      BY <2>2 DEF Places, RefVars
    <3> QED BY <1>1, <1>6, <2>2, <3>1 DEF Held, Named
  <2>3. CASE h[1] \in RefVars
    <3>1. h[2] \in Procs /\ h = <<h[1], h[2]>>
      BY <2>3 DEF Places, RefVars
    <3>2. h[1] # "cwd"
      BY <2>3 DEF RefVars
    <3>3. loc[h[2]] = NoLoc /\ NoLoc[h[1]] = None
      BY <1>1, <2>3, <3>1, FailShape
    <3>4. Held[h] = None
      BY <2>3, <3>1, <3>3, HeldVar
    <3> QED BY <3>2, <3>4
  <2> QED BY <2>1, <2>2, <2>3 DEF Places
<1>8. \A h \in Places : Held[h] = None \/ Held[h] = 1
  <2> TAKE h \in Places
  <2>1. CASE h \in {"cwd"} \X alive
    BY <1>1, <2>1 DEF Held, Named
  <2> QED BY <1>7, <2>1
<1>9. {"cwd"} \X alive \subseteq Places
  BY <1>1 DEF Places
<1>10. Covers(Held, slot)
  <2> SUFFICES ASSUME NEW s \in Slots
               PROVE  slot[s].count >= Cardinality({h \in Places : Held[h] = s})
    BY DEF Covers
  <2>1. CASE s = 1
    <3>1. {h \in Places : Held[h] = s} = {"cwd"} \X alive
      BY <1>6, <1>7, <1>8, <1>9, <2>1
    <3>2. Cardinality({"cwd"} \X alive) = Cardinality(alive)
      <4>1. IsFiniteSet({"cwd"}) /\ Cardinality({"cwd"}) = 1
        BY FS_Singleton
      <4>2. Cardinality({"cwd"} \X alive) = Cardinality({"cwd"}) * Cardinality(alive)
        BY <1>3, <4>1, FS_Product
      <4> QED BY <1>3, <4>1, <4>2
    <3>3. slot[s].count = Cardinality(alive)
      BY <1>2, <2>1
    <3>4. PICK a : a = Cardinality(alive)
      OBVIOUS
    <3>5. a \in Nat /\ slot[s].count = a
      BY <1>3, <3>3, <3>4, FS_CardinalityType
    <3>6. Cardinality({h \in Places : Held[h] = s}) = a
      BY <3>1, <3>2, <3>4
    <3> QED BY <3>5, <3>6
  <2>2. CASE s # 1
    <3>1. {h \in Places : Held[h] = s} = {}
      BY <1>6, <1>8, <2>2
    <3>2. slot[s].count = 0
      BY <1>2, <2>2
    <3> QED BY <3>1, <3>2, FS_EmptySet
  <2> QED BY <2>1, <2>2
<1> QED BY <1>4, <1>5, <1>10 DEF TableInv

(* Every step keeps an inode in one slot and the counts above the          *)
(* references.                                                             *)
LEMMA TableNext == FcbInv /\ TableInv /\ [Next]_vars => TableInv'
<1> SUFFICES ASSUME FcbInv, TableInv, [Next]_vars PROVE TableInv'
  OBVIOUS
<1>1. LocalsOK' /\ FilesOK'
  <2>1. FcbInv'
    BY FcbNext
  <2> QED BY <2>1 DEF FcbInv
<1>2. CASE UNCHANGED vars
  <2>1. UNCHANGED <<files, icwd, pc, loc>> /\ slot' = slot
    BY <1>2 DEF vars, tableVars, fileVars, procVars
  <2> QED BY <2>1, TableStay
<1>3. ASSUME NEW p \in Procs, Call(p) PROVE TableInv'
  <2>1. \/ \/ Pipe(p) \/ Exit(p)
           \/ \E fd \in Fds : \/ \E stat \in BOOLEAN : UseFile(p, fd, stat)
                              \/ Dup(p, fd)
                              \/ \E new \in Fds : Dup2(p, fd, new)
        \/ \E c \in PathCalls : PathCall(p, c)
        \/ \E q \in Procs : Fork(p, q)
        \/ \E fd \in Fds : Dents(p, fd)
        \/ \E fd \in Fds : Close(p, fd)
    BY <1>3 DEF Call
  <2> QED BY <1>1, <2>1, TableFds, TableDents, TablePath, TableFork,
             TableCloses
<1>4. ASSUME NEW p \in Procs, Step(p) PROVE TableInv'
  <2>1. \/ GetRoot(p) \/ WalkLock(p) \/ WalkEnd(p) \/ Look(p) \/ Oops(p)
        \/ IFree(p) \/ ITruncate(p) \/ IDrop(p)
        \/ \/ ParentLock(p) \/ CreateFound(p) \/ CreateOld(p) \/ CreateNew(p)
           \/ CreateGet(p) \/ CreateInit(p) \/ CreateLink(p) \/ CreateUndo(p)
           \/ CreateFail(p)
        \/ \/ CreatDone(p) \/ MkdirDone(p) \/ Chmod(p) \/ Stat(p) \/ Truncate(p)
           \/ OpenSize(p) \/ PipeFault(p) \/ Gone(p)
        \/ LinkOld(p) \/ LinkNew(p) \/ Linked(p) \/ LinkFail(p) \/ LinkUndo(p)
        \/ Chdir(p)
        \/ Open(p)
        \/ Dup2Close(p) \/ DupFd(p) \/ ExitClose(p)
        \/ PipeInode(p)
        \/ ExitPut(p)
        \/ FcbFree(p) \/ PipeFirst(p) \/ PipeNoFd(p) \/ PipeSecond(p) \/ InodeWait(p)
           \/ FileWait(p)
        \/ DentsFault(p) \/ DentsEnd(p)
    BY <1>4 DEF Step
  <2> QED BY <1>1, <2>1, TableWalk, TableDie, TableCreate, TableUse, TableLink, TableChdir,
             TableOpen, TableCloses, TablePipe, TableExitPut, TableFds,
             TableDents
<1> QED BY <1>2, <1>3, <1>4 DEF Next

(* Whatever the processes do, every count of the inode table is at least   *)
(* the number of open files, current directories and calls that hold it.   *)
THEOREM FilesTableInv == Spec => []TableInv
<1>1. Init => TableInv
  BY InitTable
<1>2. FcbInv /\ TableInv /\ [Next]_vars => TableInv'
  BY TableNext
<1> QED BY <1>1, <1>2, FilesFcbInv, PTL DEF Spec

(* iget() never puts an inode in a second slot, so one i_mtx guards it.    *)
THEOREM FilesOneSlotPerInode == Spec => []OneSlotPerInode
<1>1. TableInv => OneSlotPerInode
  BY DEF TableInv
<1> QED BY <1>1, FilesTableInv, PTL

(* iget() and pipealloc() take no slot that an open file, a current        *)
(* directory or a call in progress still refers to.                        *)
THEOREM FilesCountCoversRefs == Spec => []CountCoversRefs
<1>1. TableInv => CountCoversRefs
  BY RefsAreHeld DEF TableInv, Covers, CountCoversRefs
<1> QED BY <1>1, FilesTableInv, PTL
=============================================================================
