-------------------------- MODULE BlkCacheProofs ---------------------------
(***************************************************************************)
(* Proofs about module BlkCache, for any number of processes, buffers and  *)
(* blocks and any mix of calls.  First the pool: whatever clients do, the  *)
(* free list is exactly the unused buffers and nobody sleeps beside a free *)
(* one.  Then the contents of the blocks that are not in spoilt, while     *)
(* buffers are recycled around them: what is read is what was written      *)
(* last, no write is lost, and sync leaves nothing behind.                 *)
(***************************************************************************)
EXTENDS BlkCache, FiniteSetTheorems, SequenceTheorems, TLAPS

(* The mutex of a buffer is held by the process that works on it.          *)
MtxHeld == {"fill", "use", "unlock", "swrite", "sunlock"}
MtxInv == \A p \in Procs, b \in Bufs :
             b_mtx[b] = p <=> pc[p] \in MtxHeld /\ bb[p] = b

(* Processes on the cache's wait list sleep in get_LRU_blk().              *)
WaitInv == \A p \in wait_list : pc[p] = "off"

(* A buffer in use has a block.                                            *)
HashedInv == \A p \in Procs : pc[p] \in Holding => b_blkno[bb[p]] \in Blocks

PoolInv == TypeOK /\ MtxInv /\ WaitInv /\ HashedInv /\ PoolExact
-----------------------------------------------------------------------------
(* Lists without repetitions.                                              *)

Elems(s) == {s[i] : i \in DOMAIN s}
Once(s) == \A i, j \in DOMAIN s : i # j => s[i] # s[j]

(* What list_del() leaves of a list without repetitions.                   *)
LEMMA ListDel ==
  ASSUME NEW S, NEW s \in Seq(S), NEW b, Once(s), NEW k \in DOMAIN s, s[k] = b
  PROVE  /\ list_del(s, b) \in Seq(S)
         /\ Len(list_del(s, b)) = Len(s) - 1
         /\ \A i \in 1 .. (Len(s) - 1) : i < k => list_del(s, b)[i] = s[i]
         /\ \A i \in 1 .. (Len(s) - 1) : i >= k => list_del(s, b)[i] = s[i + 1]
<1>1. (CHOOSE j \in DOMAIN s : s[j] = b) = k
  BY DEF Once
<1>3. k \in 1 .. Len(s) /\ Len(s) \in Nat
  OBVIOUS
<1> DEFINE u == SubSeq(s, 1, k - 1)
           v == SubSeq(s, k + 1, Len(s))
<1>2. list_del(s, b) = u \o v
  BY <1>1 DEF list_del
<1>4. u \in Seq(S) /\ Len(u) = k - 1 /\ \A i \in 1 .. (k - 1) : u[i] = s[i]
  BY <1>3
<1>5. v \in Seq(S) /\ Len(v) = Len(s) - k
      /\ \A i \in 1 .. (Len(s) - k) : v[i] = s[k + i]
  BY <1>3
<1> HIDE DEF u, v
<1>6. u \o v \in Seq(S) /\ Len(u \o v) = Len(s) - 1
  BY <1>3, <1>4, <1>5
<1>7. ASSUME NEW i \in 1 .. (Len(s) - 1), i < k PROVE (u \o v)[i] = s[i]
  BY <1>3, <1>4, <1>5, <1>7
<1>8. ASSUME NEW i \in 1 .. (Len(s) - 1), i >= k PROVE (u \o v)[i] = s[i + 1]
  <2>1. i - (k - 1) \in 1 .. (Len(s) - k) /\ k + (i - (k - 1)) = i + 1
    BY <1>3, <1>8
  <2>2. (u \o v)[i] = v[i - (k - 1)]
    <3>1. \A n \in 1 .. Len(u) + Len(v) :
             (u \o v)[n] = IF n <= Len(u) THEN u[n] ELSE v[n - Len(u)]
      BY <1>4, <1>5, ConcatProperties
    <3>2. i \in 1 .. Len(u) + Len(v) /\ ~ i <= Len(u)
      BY <1>3, <1>4, <1>5, <1>8
    <3> QED BY <3>1, <3>2, <1>4
  <2> QED BY <2>1, <2>2, <1>5
<1> QED BY <1>2, <1>6, <1>7, <1>8

(* After list_del() the buffer is gone and the others are there, once.      *)
LEMMA ListDelElems ==
  ASSUME NEW S, NEW s \in Seq(S), NEW b, Once(s), b \in Elems(s)
  PROVE  /\ list_del(s, b) \in Seq(S)
         /\ Once(list_del(s, b))
         /\ Elems(list_del(s, b)) = Elems(s) \ {b}
<1>1. PICK k \in DOMAIN s : s[k] = b
  BY DEF Elems
<1> DEFINE t == list_del(s, b)
<1>2. /\ t \in Seq(S) /\ Len(t) = Len(s) - 1
      /\ \A i \in 1 .. (Len(s) - 1) : i < k => t[i] = s[i]
      /\ \A i \in 1 .. (Len(s) - 1) : i >= k => t[i] = s[i + 1]
  BY <1>1, ListDel
<1>3. k \in 1 .. Len(s) /\ Len(s) \in Nat /\ DOMAIN s = 1 .. Len(s)
      /\ DOMAIN t = 1 .. (Len(s) - 1)
  BY <1>2
<1> HIDE DEF t
<1>4. Once(t)
  <2> SUFFICES ASSUME NEW i \in DOMAIN t, NEW j \in DOMAIN t, i # j
               PROVE  t[i] # t[j]
    BY DEF Once
  <2> DEFINE f(n) == IF n < k THEN n ELSE n + 1
  <2>1. t[i] = s[f(i)] /\ t[j] = s[f(j)]
    BY <1>2, <1>3
  <2>2. f(i) \in DOMAIN s /\ f(j) \in DOMAIN s /\ f(i) # f(j)
    BY <1>3
  <2> QED BY <2>1, <2>2 DEF Once
<1>5. ASSUME NEW i \in DOMAIN t PROVE t[i] \in Elems(s) /\ t[i] # b
  BY <1>1, <1>2, <1>3 DEF Once, Elems
<1>6. ASSUME NEW j \in DOMAIN s, s[j] # b PROVE s[j] \in Elems(t)
  <2>1. CASE j < k
    <3>1. j \in DOMAIN t /\ t[j] = s[j]
      BY <2>1, <1>2, <1>3
    <3> QED BY <3>1 DEF Elems
  <2>2. CASE j > k
    <3>1. (j - 1) \in DOMAIN t /\ t[j - 1] = s[j]
      BY <2>2, <1>2, <1>3
    <3> QED BY <3>1 DEF Elems
  <2> QED BY <2>1, <2>2, <1>1, <1>3, <1>6
<1>7. Elems(t) = Elems(s) \ {b}
  BY <1>5, <1>6 DEF Elems
<1> QED BY <1>2, <1>4, <1>7 DEF t

(* blk_release() puts a buffer in front.                                   *)
LEMMA FrontElems ==
  ASSUME NEW S, NEW s \in Seq(S), NEW b \in S, Once(s), b \notin Elems(s)
  PROVE  /\ <<b>> \o s \in Seq(S) /\ Once(<<b>> \o s)
         /\ Elems(<<b>> \o s) = Elems(s) \cup {b}
<1> DEFINE t == <<b>> \o s
<1>1. t \in Seq(S) /\ Len(t) = Len(s) + 1 /\ t[1] = b
      /\ \A i \in 2 .. (Len(s) + 1) : t[i] = s[i - 1]
  OBVIOUS
<1>2. Len(s) \in Nat /\ DOMAIN s = 1 .. Len(s) /\ DOMAIN t = 1 .. (Len(s) + 1)
  OBVIOUS
<1> HIDE DEF t
<1>3. \A i \in DOMAIN s : s[i] # b
  BY DEF Elems
<1>4. Once(t)
  <2> SUFFICES ASSUME NEW i \in DOMAIN t, NEW j \in DOMAIN t, i < j
               PROVE  t[i] # t[j]
    BY <1>2 DEF Once
  <2>1. j - 1 \in DOMAIN s /\ t[j] = s[j - 1]
    BY <1>1, <1>2
  <2>2. CASE i = 1
    BY <2>1, <2>2, <1>1, <1>3
  <2>3. CASE i # 1
    <3>1. i - 1 \in DOMAIN s /\ t[i] = s[i - 1] /\ i - 1 # j - 1
      BY <2>3, <1>1, <1>2
    <3> QED BY <2>1, <3>1 DEF Once
  <2> QED BY <2>2, <2>3
<1>5. \A i \in DOMAIN t : t[i] \in Elems(s) \cup {b}
  BY <1>1, <1>2 DEF Elems
<1>6. ASSUME NEW j \in DOMAIN s PROVE s[j] \in Elems(t)
  <2>1. j + 1 \in DOMAIN t /\ t[j + 1] = s[j]
    BY <1>1, <1>2
  <2> QED BY <2>1 DEF Elems
<1>7. b \in Elems(t)
  BY <1>1, <1>2 DEF Elems
<1>8. Elems(t) = Elems(s) \cup {b}
  BY <1>5, <1>6, <1>7 DEF Elems
<1> QED BY <1>1, <1>4, <1>8 DEF t

(* get_LRU_blk() takes the last buffer.                                    *)
LEMMA LastElems ==
  ASSUME NEW S, NEW s \in Seq(S), s # <<>>, Once(s)
  PROVE  /\ s[Len(s)] \in S /\ s[Len(s)] \in Elems(s)
         /\ SubSeq(s, 1, Len(s) - 1) \in Seq(S)
         /\ Once(SubSeq(s, 1, Len(s) - 1))
         /\ Elems(SubSeq(s, 1, Len(s) - 1)) = Elems(s) \ {s[Len(s)]}
         /\ Len(SubSeq(s, 1, Len(s) - 1)) = Len(s) - 1
         /\ \A i \in 1 .. (Len(s) - 1) : SubSeq(s, 1, Len(s) - 1)[i] = s[i]
<1> DEFINE b == s[Len(s)]
           t == SubSeq(s, 1, Len(s) - 1)
<1>1. Len(s) \in Nat /\ Len(s) > 0 /\ DOMAIN s = 1 .. Len(s)
  OBVIOUS
<1>2. b \in S /\ b \in Elems(s)
  BY <1>1 DEF Elems
<1>3. t \in Seq(S) /\ Len(t) = Len(s) - 1 /\ \A i \in 1 .. (Len(s) - 1) : t[i] = s[i]
  BY <1>1
<1>4. DOMAIN t = 1 .. (Len(s) - 1)
  BY <1>3
<1> HIDE DEF t
<1>5. Once(t)
  BY <1>1, <1>3, <1>4 DEF Once
<1>6. \A i \in DOMAIN t : t[i] \in Elems(s) /\ t[i] # b
  BY <1>1, <1>3, <1>4 DEF Once, Elems
<1>7. ASSUME NEW j \in DOMAIN s, s[j] # b PROVE s[j] \in Elems(t)
  <2>1. j \in DOMAIN t /\ t[j] = s[j]
    BY <1>1, <1>3, <1>4, <1>7
  <2> QED BY <2>1 DEF Elems
<1>8. Elems(t) = Elems(s) \ {b}
  BY <1>6, <1>7 DEF Elems
<1> QED BY <1>2, <1>3, <1>4, <1>5, <1>8 DEF t
-----------------------------------------------------------------------------
(* The pool                                                                *)

USE BlkCacheAssumption DEF Bufs, Holding, MtxHeld

(* Users(b) is finite, as are the processes.                               *)
LEMMA UsersFinite ==
  ASSUME NEW b
  PROVE  /\ IsFiniteSet(Users(b)) /\ Cardinality(Users(b)) \in Nat
         /\ Cardinality(Users(b)) <= Cardinality(Procs)
         /\ Cardinality(Users(b)) = 0 <=> Users(b) = {}
<1>1. Users(b) \in SUBSET Procs
  BY DEF Users
<1>2. IsFiniteSet(Users(b)) /\ Cardinality(Users(b)) <= Cardinality(Procs)
  BY <1>1, FS_Subset
<1> QED BY <1>2, FS_CardinalityType, FS_EmptySet

(* The pool is left alone when nobody gets or gives back a buffer.         *)
LEMMA QuietPool ==
  ASSUME PoolExact, TypeOK, \A b \in Bufs : Users(b)' = Users(b),
         UNCHANGED <<b_count, free_list, wait_list>>
  PROVE  PoolExact'
<1> USE DEF PoolExact, FreeListExact, SleepersHaveNone
<1>1. \A b \in Bufs : b_count'[b] = Cardinality(Users(b)')
  OBVIOUS
<1>2. {free_list'[i] : i \in DOMAIN free_list'} = {b \in Bufs : Users(b)' = {}}
  OBVIOUS
<1> QED BY <1>1, <1>2

(* The users stay the same when a process neither gets nor gives back a    *)
(* buffer.                                                                 *)
LEMMA UsersSame ==
  ASSUME TypeOK, NEW p \in Procs, NEW l, pc' = [pc EXCEPT ![p] = l],
         \A q \in Procs : q # p => bb'[q] = bb[q],
         l \in Holding <=> pc[p] \in Holding,
         l \in Holding => bb'[p] = bb[p]
  PROVE  \A b \in Bufs : Users(b)' = Users(b)
<1> SUFFICES ASSUME NEW b \in Bufs, NEW q \in Procs
             PROVE  (pc'[q] \in Holding /\ bb'[q] = b)
                    <=> (pc[q] \in Holding /\ bb[q] = b)
  BY DEF Users
<1>1. CASE q = p
  BY <1>1 DEF TypeOK
<1>2. CASE q # p
  BY <1>2 DEF TypeOK
<1> QED BY <1>1, <1>2

(* The steps that leave the lists and the use counts alone.                *)
Quiet(p) == \/ Call(p) \/ LockBuf(p) \/ Fill(p) \/ UseRead(p) \/ UseWrite(p)
            \/ UseBound(p) \/ UnlockBuf(p) \/ SyncCall(p) \/ SyncLock(p)
            \/ SyncWrite(p) \/ SyncUnlock(p) \/ SyncReturn(p)

(* A quiet step preserves the types.                                       *)
LEMMA QuietTypes ==
  ASSUME TypeOK, HashedInv, NEW p \in Procs, Quiet(p)
  PROVE  TypeOK'
<1> USE DEF TypeOK, Goto, cacheVars, bufVars, callVars
<1>1. CASE Call(p)
  BY <1>1, SMTT(30) DEF Call
<1>2. CASE LockBuf(p)
  BY <1>2 DEF LockBuf
<1>3. CASE Fill(p)
  <2>1. disk[b_blkno[bb[p]]] \in Contents
    BY <1>3 DEF Fill, HashedInv
  <2> QED BY <1>3, <2>1 DEF Fill
<1>4. CASE UseRead(p)
  BY <1>4 DEF UseRead
<1>5. CASE UseWrite(p)
  <2>1. Changed(blkno[p], b_data[bb[p]], op[p]) \in Contents
    BY <1>5 DEF UseWrite, Changed, Contents, Mixed
  <2>2. written[blkno[p]] + 1 \in 0 .. MaxVer
    BY <1>5 DEF UseWrite
  <2>3. b_data' \in [Bufs -> Contents] /\ written' \in [Blocks -> 0 .. MaxVer]
    BY <1>5, <2>1, <2>2 DEF UseWrite
  <2>4. spoilt' \subseteq Blocks
    BY <1>5 DEF UseWrite, Unread
  <2> QED BY <1>5, <2>3, <2>4 DEF UseWrite
<1>6. CASE UseBound(p)
  BY <1>6 DEF UseBound
<1>7. CASE UnlockBuf(p)
  BY <1>7 DEF UnlockBuf
<1>8. CASE SyncCall(p)
  BY <1>8 DEF SyncCall
<1>9. CASE SyncLock(p)
  BY <1>9 DEF SyncLock
<1>10. CASE SyncWrite(p)
  BY <1>10 DEF SyncWrite
<1>11. CASE SyncUnlock(p)
  <2>1. CASE bb[p] = NBBUF
    BY <1>11, <2>1 DEF SyncUnlock
  <2>2. CASE bb[p] # NBBUF
    <3>1. bb[p] + 1 \in Bufs
      BY <2>2
    <3>2. /\ b_mtx' = [b_mtx EXCEPT ![bb[p]] = None] /\ pc' = [pc EXCEPT ![p] = "slock"]
          /\ bb' = [bb EXCEPT ![p] = bb[p] + 1]
      BY <1>11, <2>2 DEF SyncUnlock
    <3>3. b_mtx' \in [Bufs -> Procs \cup {None}] /\ bb' \in [Procs -> Bufs]
      BY <3>1, <3>2
    <3>4. pc' \in [Procs -> Holding \cup {"idle", "getblk", "off", "slock",
                                          "swrite", "sunlock", "sdone"}]
      BY <3>2
    <3> QED BY <1>11, <3>3, <3>4 DEF SyncUnlock
  <2> QED BY <2>1, <2>2
<1>12. CASE SyncReturn(p)
  BY <1>12, SMTT(30) DEF SyncReturn, Forget, FirstBlock
<1> QED BY <1>1, <1>2, <1>3, <1>4, <1>5, <1>6, <1>7, <1>8, <1>9, <1>10,
           <1>11, <1>12 DEF Quiet

(* A quiet step changes neither who uses which buffer nor the lists.       *)
LEMMA QuietUsers ==
  ASSUME TypeOK, NEW p \in Procs, Quiet(p)
  PROVE  /\ \A b \in Bufs : Users(b)' = Users(b)
         /\ UNCHANGED <<b_count, free_list, wait_list, b_blkno>>
<1> USE DEF Goto, cacheVars, bufVars, callVars
<1>1. CASE Call(p)
  BY <1>1, UsersSame DEF Call
<1>2. CASE LockBuf(p)
  <2>1. PICK l \in {"use", "fill"} : pc' = [pc EXCEPT ![p] = l]
    BY <1>2 DEF LockBuf
  <2> QED BY <1>2, <2>1, UsersSame DEF LockBuf
<1>3. CASE Fill(p)
  BY <1>3, UsersSame DEF Fill
<1>4. CASE UseRead(p)
  BY <1>4, UsersSame DEF UseRead
<1>5. CASE UseWrite(p)
  BY <1>5, UsersSame DEF UseWrite
<1>6. CASE UseBound(p)
  BY <1>6, UsersSame DEF UseBound
<1>7. CASE UnlockBuf(p)
  BY <1>7, UsersSame DEF UnlockBuf
<1>8. CASE SyncCall(p)
  BY <1>8, UsersSame DEF SyncCall, TypeOK
<1>9. CASE SyncLock(p)
  BY <1>9, UsersSame DEF SyncLock
<1>10. CASE SyncWrite(p)
  BY <1>10, UsersSame DEF SyncWrite
<1>11. CASE SyncUnlock(p)
  <2>1. PICK l \in {"sdone", "slock"} : pc' = [pc EXCEPT ![p] = l]
    BY <1>11 DEF SyncUnlock
  <2> QED BY <1>11, <2>1, UsersSame DEF SyncUnlock, TypeOK
<1>12. CASE SyncReturn(p)
  BY <1>12, UsersSame DEF SyncReturn, Forget, TypeOK
<1> QED BY <1>1, <1>2, <1>3, <1>4, <1>5, <1>6, <1>7, <1>8, <1>9, <1>10,
           <1>11, <1>12 DEF Quiet

(* Mutexes: a process moves without taking or releasing one, ...           *)
LEMMA MtxKeeps ==
  ASSUME TypeOK, MtxInv, NEW p \in Procs, NEW l, pc' = [pc EXCEPT ![p] = l],
         \A q \in Procs : q # p => bb'[q] = bb[q], UNCHANGED b_mtx,
         l \in MtxHeld <=> pc[p] \in MtxHeld, l \in MtxHeld => bb'[p] = bb[p]
  PROVE  MtxInv'
<1> SUFFICES ASSUME NEW q \in Procs, NEW b \in Bufs
             PROVE  b_mtx'[b] = q <=> pc'[q] \in MtxHeld /\ bb'[q] = b
  BY DEF MtxInv
<1>1. b_mtx'[b] = q <=> pc[q] \in MtxHeld /\ bb[q] = b
  BY DEF MtxInv
<1>2. CASE q = p
  BY <1>1, <1>2 DEF TypeOK
<1>3. CASE q # p
  BY <1>1, <1>3 DEF TypeOK
<1> QED BY <1>2, <1>3

(* ... it takes the one of its buffer, ...                                 *)
LEMMA MtxTaken ==
  ASSUME TypeOK, MtxInv, NEW p \in Procs, NEW l, pc' = [pc EXCEPT ![p] = l],
         UNCHANGED bb, b_mtx[bb[p]] = None, l \in MtxHeld,
         b_mtx' = [b_mtx EXCEPT ![bb[p]] = p]
  PROVE  MtxInv'
<1> SUFFICES ASSUME NEW q \in Procs, NEW b \in Bufs
             PROVE  b_mtx'[b] = q <=> pc'[q] \in MtxHeld /\ bb'[q] = b
  BY DEF MtxInv
<1>1. b_mtx[b] = q <=> pc[q] \in MtxHeld /\ bb[q] = b
  BY DEF MtxInv
<1>2. b_mtx[bb[p]] = p <=> pc[p] \in MtxHeld
  BY DEF MtxInv, TypeOK
<1>3. CASE b = bb[p]
  BY <1>1, <1>2, <1>3 DEF TypeOK
<1>4. CASE b # bb[p]
  BY <1>1, <1>2, <1>4 DEF TypeOK
<1> QED BY <1>3, <1>4

(* ... or it releases it.                                                  *)
LEMMA MtxReleased ==
  ASSUME TypeOK, MtxInv, NEW p \in Procs, NEW l, pc' = [pc EXCEPT ![p] = l],
         \A q \in Procs : q # p => bb'[q] = bb[q],
         pc[p] \in MtxHeld, l \notin MtxHeld,
         b_mtx' = [b_mtx EXCEPT ![bb[p]] = None]
  PROVE  MtxInv'
<1> SUFFICES ASSUME NEW q \in Procs, NEW b \in Bufs
             PROVE  b_mtx'[b] = q <=> pc'[q] \in MtxHeld /\ bb'[q] = b
  BY DEF MtxInv
<1>1. b_mtx[b] = q <=> pc[q] \in MtxHeld /\ bb[q] = b
  BY DEF MtxInv
<1>2. b_mtx[bb[p]] = p
  BY DEF MtxInv, TypeOK
<1>3. CASE q = p
  BY <1>1, <1>2, <1>3 DEF TypeOK
<1>4. CASE q # p
  BY <1>1, <1>2, <1>4 DEF TypeOK
<1> QED BY <1>3, <1>4

(* The wait list, and the blocks of the buffers in use.                    *)
LEMMA WaitKeeps ==
  ASSUME TypeOK, WaitInv, HashedInv, NEW p \in Procs, NEW l,
         pc' = [pc EXCEPT ![p] = l], \A q \in Procs : q # p => bb'[q] = bb[q],
         UNCHANGED <<wait_list, b_blkno>>, pc[p] # "off",
         l \in Holding => pc[p] \in Holding /\ bb'[p] = bb[p]
  PROVE  WaitInv' /\ HashedInv'
<1>1. WaitInv'
  BY DEF WaitInv, TypeOK
<1>2. ASSUME NEW q \in Procs, pc'[q] \in Holding PROVE b_blkno'[bb'[q]] \in Blocks
  <2>1. CASE q = p
    BY <1>2, <2>1 DEF HashedInv, TypeOK
  <2>2. CASE q # p
    BY <1>2, <2>2 DEF HashedInv, TypeOK
  <2> QED BY <2>1, <2>2
<1> QED BY <1>1, <1>2 DEF HashedInv

(* The mutex of a buffer belongs to the process that works on it.          *)
LEMMA QuietMtx ==
  ASSUME TypeOK, MtxInv, WaitInv, HashedInv, NEW p \in Procs, Quiet(p)
  PROVE  MtxInv' /\ WaitInv' /\ HashedInv'
<1> USE DEF Goto, cacheVars, bufVars, callVars
<1>1. CASE Call(p)
  BY <1>1, MtxKeeps, WaitKeeps DEF Call
<1>2. CASE LockBuf(p)
  <2>1. PICK l \in {"use", "fill"} : pc' = [pc EXCEPT ![p] = l]
    BY <1>2 DEF LockBuf
  <2> QED BY <1>2, <2>1, MtxTaken, WaitKeeps DEF LockBuf
<1>3. CASE Fill(p)
  BY <1>3, MtxKeeps, WaitKeeps DEF Fill
<1>4. CASE UseRead(p)
  BY <1>4, MtxKeeps, WaitKeeps DEF UseRead
<1>5. CASE UseWrite(p)
  BY <1>5, MtxKeeps, WaitKeeps DEF UseWrite
<1>6. CASE UseBound(p)
  BY <1>6, MtxKeeps, WaitKeeps DEF UseBound
<1>7. CASE UnlockBuf(p)
  BY <1>7, MtxReleased, WaitKeeps DEF UnlockBuf
<1>8. CASE SyncCall(p)
  BY <1>8, MtxKeeps, WaitKeeps DEF SyncCall, TypeOK
<1>9. CASE SyncLock(p)
  BY <1>9, MtxTaken, WaitKeeps DEF SyncLock
<1>10. CASE SyncWrite(p)
  BY <1>10, MtxKeeps, WaitKeeps DEF SyncWrite
<1>11. CASE SyncUnlock(p)
  <2>1. PICK l \in {"sdone", "slock"} : pc' = [pc EXCEPT ![p] = l]
    BY <1>11 DEF SyncUnlock
  <2> QED BY <1>11, <2>1, MtxReleased, WaitKeeps DEF SyncUnlock, TypeOK
<1>12. CASE SyncReturn(p)
  BY <1>12, MtxKeeps, WaitKeeps DEF SyncReturn, Forget, TypeOK
<1> QED BY <1>1, <1>2, <1>3, <1>4, <1>5, <1>6, <1>7, <1>8, <1>9, <1>10,
           <1>11, <1>12 DEF Quiet

(* A process gets buffer b: the number of users of b goes up by one.       *)
LEMMA UsersJoin ==
  ASSUME TypeOK, FreeListExact, NEW p \in Procs, NEW b \in Bufs,
         pc[p] \notin Holding, pc' = [pc EXCEPT ![p] = "lock"],
         bb' = [bb EXCEPT ![p] = b], b_count' = [b_count EXCEPT ![b] = @ + 1]
  PROVE  /\ \A c \in Bufs : b_count'[c] = Cardinality(Users(c)')
         /\ {c \in Bufs : Users(c)' = {}} = {c \in Bufs : Users(c) = {}} \ {b}
         /\ b_count' \in [Bufs -> 0 .. Cardinality(Procs)]
<1>1. Users(b)' = Users(b) \cup {p} /\ p \notin Users(b)
  BY DEF Users, TypeOK
<1>2. ASSUME NEW c \in Bufs, c # b PROVE Users(c)' = Users(c)
  BY <1>2 DEF Users, TypeOK
<1>3. Cardinality(Users(b) \cup {p}) = Cardinality(Users(b)) + 1
  BY <1>1, UsersFinite, FS_AddElement
<1>4. \A c \in Bufs : b_count'[c] = Cardinality(Users(c)')
  BY <1>1, <1>2, <1>3 DEF FreeListExact, TypeOK
<1>5. \A c \in Bufs : Users(c)' \in SUBSET Procs
  BY DEF Users
<1>6. \A c \in Bufs : b_count'[c] \in 0 .. Cardinality(Procs)
  BY <1>4, <1>5, FS_Subset, FS_CardinalityType
<1>7. b_count' \in [Bufs -> 0 .. Cardinality(Procs)]
  BY <1>6 DEF TypeOK
<1> QED BY <1>1, <1>2, <1>4, <1>7

(* A process gives its buffer b back.                                      *)
LEMMA UsersLeave ==
  ASSUME TypeOK, FreeListExact, NEW p \in Procs, NEW b \in Bufs,
         pc[p] \in Holding, bb[p] = b, NEW c1, NEW l, l \notin Holding,
         pc' = [pc EXCEPT ![p] = l],
         bb' = [bb EXCEPT ![p] = c1], b_count' = [b_count EXCEPT ![b] = @ - 1]
  PROVE  /\ \A c \in Bufs : b_count'[c] = Cardinality(Users(c)')
         /\ {c \in Bufs : Users(c)' = {}} =
              {c \in Bufs : Users(c) = {}} \cup (IF b_count[b] = 1 THEN {b} ELSE {})
         /\ b_count' \in [Bufs -> 0 .. Cardinality(Procs)]
         /\ Users(b) # {}
<1>1. Users(b)' = Users(b) \ {p} /\ p \in Users(b)
  BY DEF Users, TypeOK
<1>2. ASSUME NEW c \in Bufs, c # b PROVE Users(c)' = Users(c)
  BY <1>2 DEF Users, TypeOK
<1>3. Cardinality(Users(b) \ {p}) = Cardinality(Users(b)) - 1
      /\ IsFiniteSet(Users(b) \ {p})
  BY <1>1, UsersFinite, FS_RemoveElement
<1>4. \A c \in Bufs : b_count'[c] = Cardinality(Users(c)')
  BY <1>1, <1>2, <1>3 DEF FreeListExact, TypeOK
<1>5. \A c \in Bufs : Users(c)' \in SUBSET Procs
  BY DEF Users
<1>6. \A c \in Bufs : b_count'[c] \in 0 .. Cardinality(Procs)
  BY <1>4, <1>5, FS_Subset, FS_CardinalityType
<1>7. b_count' \in [Bufs -> 0 .. Cardinality(Procs)]
  BY <1>6 DEF TypeOK
<1>8. b_count[b] = Cardinality(Users(b)) /\ b_count[b] \in Nat
  BY DEF FreeListExact, TypeOK
<1>9. Users(b)' = {} <=> b_count[b] = 1
  BY <1>1, <1>3, <1>8, FS_EmptySet
<1>10. {c \in Bufs : Users(c)' = {}} =
              {c \in Bufs : Users(c) = {}} \cup (IF b_count[b] = 1 THEN {b} ELSE {})
  BY <1>1, <1>2, <1>9
<1> QED BY <1>1, <1>4, <1>7, <1>10

(* getblk() with a cached block.                                           *)
LEMMA HitPool ==
  ASSUME PoolInv, NEW p \in Procs, GetHit(p)
  PROVE  PoolInv'
<1> USE DEF PoolInv, Goto, cacheVars, bufVars, callVars
<1>1. PICK b \in InHash(blkno[p]) :
        /\ b_count' = [b_count EXCEPT ![b] = @ + 1]
        /\ free_list' = IF b_count[b] = 0 THEN list_del(free_list, b) ELSE free_list
        /\ bb' = [bb EXCEPT ![p] = b]
  BY DEF GetHit
<1>2. b \in Bufs /\ b_blkno[b] \in Blocks
  BY <1>1 DEF InHash, TypeOK
<1>3. /\ pc[p] = "getblk" /\ pc' = [pc EXCEPT ![p] = "lock"]
      /\ UNCHANGED <<b_blkno, wait_list, bufVars, b_mtx, disk, callVars, written, spoilt>>
  BY DEF GetHit
<1>4. /\ \A c \in Bufs : b_count'[c] = Cardinality(Users(c)')
      /\ {c \in Bufs : Users(c)' = {}} = {c \in Bufs : Users(c) = {}} \ {b}
      /\ b_count' \in [Bufs -> 0 .. Cardinality(Procs)]
  BY <1>1, <1>2, <1>3, UsersJoin DEF PoolExact
<1>5. b_count[b] = 0 <=> Users(b) = {}
  BY <1>2, UsersFinite DEF PoolExact, FreeListExact
<1>6. /\ Once(free_list) /\ free_list \in Seq(Bufs)
      /\ Elems(free_list) = {c \in Bufs : Users(c) = {}}
  BY DEF PoolExact, FreeListExact, Once, Elems, TypeOK
<1>7. /\ free_list' \in Seq(Bufs) /\ Once(free_list')
      /\ Elems(free_list') = {c \in Bufs : Users(c)' = {}}
  <2>1. CASE b_count[b] = 0
    <3>1. b \in Elems(free_list)
      BY <2>1, <1>2, <1>5, <1>6
    <3> DEFINE t == list_del(free_list, b)
    <3>2. t \in Seq(Bufs) /\ Once(t) /\ Elems(t) = Elems(free_list) \ {b}
      <4> HIDE DEF Bufs
      <4> QED BY <3>1, <1>6, ListDelElems
    <3>3. free_list' = t
      BY <2>1, <1>1
    <3> HIDE DEF t
    <3> QED BY <3>2, <3>3, <1>4, <1>6
  <2>2. CASE b_count[b] # 0
    BY <2>2, <1>1, <1>4, <1>5, <1>6
  <2> QED BY <2>1, <2>2
<1>8. wait_list # {} => free_list' = <<>>
  <2>1. b_count[b] = 0 => b \in Elems(free_list)
    BY <1>2, <1>5, <1>6
  <2>2. free_list = <<>> => Elems(free_list) = {}
    BY DEF Elems
  <2> QED BY <2>1, <2>2, <1>1 DEF PoolExact, SleepersHaveNone
<1>9. PoolExact'
  BY <1>3, <1>4, <1>7, <1>8 DEF PoolExact, FreeListExact, SleepersHaveNone, Once, Elems
<1>10. TypeOK'
  BY <1>1, <1>2, <1>3, <1>4, <1>7 DEF TypeOK
<1>11. MtxInv'
  BY <1>1, <1>2, <1>3, MtxKeeps DEF TypeOK
<1>12. WaitInv' /\ HashedInv'
  BY <1>1, <1>2, <1>3 DEF WaitInv, HashedInv, TypeOK
<1> QED BY <1>9, <1>10, <1>11, <1>12

(* get_LRU_blk() with a free buffer.                                       *)
LEMMA LruPool ==
  ASSUME PoolInv, NEW p \in Procs, GetLRU(p)
  PROVE  PoolInv'
<1> USE DEF PoolInv, Goto, cacheVars, bufVars, callVars
<1> DEFINE b == free_list[Len(free_list)]
<1>1. /\ NeedsLRU(p) /\ free_list # <<>>
      /\ free_list' = SubSeq(free_list, 1, Len(free_list) - 1)
      /\ b_blkno' = [b_blkno EXCEPT ![b] = blkno[p]]
      /\ b_count' = [b_count EXCEPT ![b] = @ + 1]
      /\ bb' = [bb EXCEPT ![p] = b]
      /\ pc' = [pc EXCEPT ![p] = "lock"]
      /\ UNCHANGED <<wait_list, bufVars, b_mtx, disk, callVars, written>>
      /\ spoilt' \subseteq spoilt \cup Blocks \cup {blkno[p]}
  BY DEF GetLRU
<1>2. pc[p] \in {"getblk", "off"} /\ p \notin wait_list
  BY <1>1 DEF NeedsLRU, WaitInv
<1>6. /\ Once(free_list) /\ free_list \in Seq(Bufs)
      /\ Elems(free_list) = {c \in Bufs : Users(c) = {}}
  BY DEF PoolExact, FreeListExact, Once, Elems, TypeOK
<1>3. /\ b \in Bufs
      /\ free_list' \in Seq(Bufs) /\ Once(free_list')
      /\ Elems(free_list') = Elems(free_list) \ {b}
  <2> DEFINE t == SubSeq(free_list, 1, Len(free_list) - 1)
  <2>1. free_list' = t /\ free_list # <<>>
    BY <1>1
  <2>2. b \in Bufs /\ t \in Seq(Bufs) /\ Once(t) /\ Elems(t) = Elems(free_list) \ {b}
    <3> HIDE DEF Bufs
    <3> QED BY <2>1, <1>6, LastElems
  <2> HIDE DEF t
  <2> QED BY <2>1, <2>2
<1> HIDE DEF b
<1>4. /\ \A c \in Bufs : b_count'[c] = Cardinality(Users(c)')
      /\ {c \in Bufs : Users(c)' = {}} = {c \in Bufs : Users(c) = {}} \ {b}
      /\ b_count' \in [Bufs -> 0 .. Cardinality(Procs)]
  BY <1>1, <1>2, <1>3, UsersJoin DEF PoolExact
<1>8. wait_list' = {}
  BY <1>1 DEF PoolExact, SleepersHaveNone
<1>9. PoolExact'
  BY <1>3, <1>4, <1>6, <1>8 DEF PoolExact, FreeListExact, SleepersHaveNone, Once, Elems
<1>10. TypeOK'
  BY <1>1, <1>3, <1>4 DEF TypeOK
<1>11. MtxInv'
  BY <1>1, <1>2, <1>3, MtxKeeps DEF TypeOK
<1>12. WaitInv' /\ HashedInv'
  BY <1>1, <1>3, <1>8 DEF WaitInv, HashedInv, TypeOK
<1> QED BY <1>9, <1>10, <1>11, <1>12

(* get_LRU_blk() without one.                                              *)
LEMMA BlockPool ==
  ASSUME PoolInv, NEW p \in Procs, GetBlock(p)
  PROVE  PoolInv'
<1> USE DEF PoolInv, Goto, cacheVars, bufVars, callVars, GetBlock
<1>1. pc[p] \in {"getblk", "off"} /\ p \notin wait_list
  BY DEF NeedsLRU, WaitInv
<1>2. \A b \in Bufs : Users(b)' = Users(b)
  BY <1>1, UsersSame
<1>3. PoolExact'
  BY <1>2 DEF PoolExact, FreeListExact, SleepersHaveNone
<1>4. TypeOK'
  BY DEF TypeOK
<1>5. MtxInv'
  BY <1>1, MtxKeeps
<1>6. WaitInv' /\ HashedInv'
  BY <1>1 DEF WaitInv, HashedInv, TypeOK
<1> QED BY <1>3, <1>4, <1>5, <1>6

(* blk_release() gives the reference back.                                 *)
LEMMA PutPool ==
  ASSUME PoolInv, NEW p \in Procs, Put(p)
  PROVE  PoolInv'
<1> USE DEF PoolInv, Goto, cacheVars, bufVars, callVars
<1> DEFINE b == bb[p]
<1>1. /\ pc[p] = "put" /\ pc' = [pc EXCEPT ![p] = "idle"]
      /\ bb' = [bb EXCEPT ![p] = 1]
      /\ b_count' = [b_count EXCEPT ![b] = @ - 1]
      /\ free_list' = IF b_count[b] = 1 THEN <<b>> \o free_list ELSE free_list
      /\ wait_list' = IF b_count[b] = 1 THEN {} ELSE wait_list
      /\ UNCHANGED <<b_blkno, bufVars, b_mtx, disk, written, spoilt>>
  BY DEF Put, Forget
<1>2. b \in Bufs
  BY DEF TypeOK
<1>3. /\ op' = [op EXCEPT ![p] = "read"] /\ blkno' = [blkno EXCEPT ![p] = FirstBlock]
      /\ snap' = [snap EXCEPT ![p] = [k \in Blocks |-> 0]]
  BY DEF Put, Forget
<1>4. /\ \A c \in Bufs : b_count'[c] = Cardinality(Users(c)')
      /\ {c \in Bufs : Users(c)' = {}} =
           {c \in Bufs : Users(c) = {}} \cup (IF b_count[b] = 1 THEN {b} ELSE {})
      /\ b_count' \in [Bufs -> 0 .. Cardinality(Procs)]
      /\ Users(b) # {}
  BY <1>1, <1>2, UsersLeave DEF PoolExact
<1>6. /\ Once(free_list) /\ free_list \in Seq(Bufs)
      /\ Elems(free_list) = {c \in Bufs : Users(c) = {}}
  BY DEF PoolExact, FreeListExact, Once, Elems, TypeOK
<1> HIDE DEF b
<1>7. /\ free_list' \in Seq(Bufs) /\ Once(free_list')
      /\ Elems(free_list') = {c \in Bufs : Users(c)' = {}}
  <2>1. CASE b_count[b] = 1
    <3>1. b \notin Elems(free_list)
      BY <1>4, <1>6
    <3> DEFINE t == <<b>> \o free_list
    <3>2. t \in Seq(Bufs) /\ Once(t) /\ Elems(t) = Elems(free_list) \cup {b}
      <4> HIDE DEF Bufs
      <4> QED BY <3>1, <1>2, <1>6, FrontElems
    <3>3. free_list' = t
      BY <2>1, <1>1
    <3> HIDE DEF t
    <3> QED BY <2>1, <3>2, <3>3, <1>4, <1>6
  <2>2. CASE b_count[b] # 1
    BY <2>2, <1>1, <1>4, <1>6
  <2> QED BY <2>1, <2>2
<1>8. wait_list' # {} => free_list' = <<>>
  BY <1>1 DEF PoolExact, SleepersHaveNone
<1>9. PoolExact'
  BY <1>4, <1>7, <1>8 DEF PoolExact, FreeListExact, SleepersHaveNone, Once, Elems
<1>10. TypeOK'
  <2>1. FirstBlock \in Blocks /\ [k \in Blocks |-> 0] \in [Blocks -> 0 .. MaxVer]
    BY DEF FirstBlock
  <2>2. wait_list' \subseteq Procs
    BY <1>1 DEF TypeOK
  <2>3. /\ op' \in [Procs -> {"read", "part", "whole"}] /\ blkno' \in [Procs -> Blocks]
        /\ snap' \in [Procs -> [Blocks -> 0 .. MaxVer]]
    BY <2>1, <1>3 DEF TypeOK
  <2>4. bb' \in [Procs -> Bufs]
        /\ pc' \in [Procs -> Holding \cup {"idle", "getblk", "off", "slock",
                                          "swrite", "sunlock", "sdone"}]
    BY <1>1 DEF TypeOK
  <2> QED BY <2>2, <2>3, <2>4, <1>1, <1>4, <1>7 DEF TypeOK
<1>11. MtxInv'
  BY <1>1, MtxKeeps DEF TypeOK
<1>12. WaitInv' /\ HashedInv'
  BY <1>1 DEF WaitInv, HashedInv, TypeOK
<1> QED BY <1>9, <1>10, <1>11, <1>12

(* The initial state: all buffers are free.                                *)
LEMMA InitPool == Init => PoolInv
<1> SUFFICES ASSUME Init PROVE PoolInv
  OBVIOUS
<1> USE DEF Init
<1>1. \A b \in Bufs : Users(b) = {}
  BY DEF Users
<1>2. free_list \in [Bufs -> Bufs] /\ free_list \in Seq(Bufs) /\ DOMAIN free_list = Bufs
  OBVIOUS
<1>3. {free_list[i] : i \in DOMAIN free_list} = Bufs
  <2>1. \A b \in Bufs : NBBUF + 1 - b \in Bufs /\ free_list[NBBUF + 1 - b] = b
    OBVIOUS
  <2> QED BY <2>1, <1>2, ZenonT(30)
<1>4. \A i, j \in DOMAIN free_list : i # j => free_list[i] # free_list[j]
  BY <1>2
<1>5. \A b \in Bufs : b_count[b] = Cardinality(Users(b))
  BY <1>1, FS_EmptySet
<1>6. PoolExact
  BY <1>1, <1>3, <1>4, <1>5 DEF PoolExact, FreeListExact, SleepersHaveNone
<1>7. Mixed \in Contents /\ \A k \in Blocks : <<k, 0>> \in Contents
  BY DEF Mixed, Contents
<1>8. FirstBlock \in Blocks /\ Cardinality(Procs) \in Nat
  BY FS_CardinalityType DEF FirstBlock
<1>9. TypeOK
  BY <1>2, <1>7, <1>8 DEF TypeOK
<1>10. MtxInv /\ WaitInv /\ HashedInv
  BY <1>9 DEF MtxInv, WaitInv, HashedInv
<1> QED BY <1>6, <1>9, <1>10 DEF PoolInv

(* Every step of a process preserves the invariant of the pool.            *)
LEMMA StepPool ==
  ASSUME PoolInv, NEW p \in Procs, Call(p) \/ SyncCall(p) \/ KernelStep(p)
  PROVE  PoolInv'
<1>1. CASE Quiet(p)
  BY <1>1, QuietTypes, QuietUsers, QuietPool, QuietMtx DEF PoolInv
<1>2. GetHit(p) \/ GetLRU(p) \/ GetBlock(p) \/ Put(p) => PoolInv'
  BY HitPool, LruPool, BlockPool, PutPool
<1> QED BY <1>1, <1>2 DEF KernelStep, Quiet

(* So does every step of the system.                                       *)
LEMMA NextPool == PoolInv /\ [Next]_vars => PoolInv'
<1> SUFFICES ASSUME PoolInv, [Next]_vars PROVE PoolInv'
  OBVIOUS
<1>1. CASE Next
  BY <1>1, StepPool DEF Next
<1>2. CASE UNCHANGED vars
  <2> USE <1>2 DEF vars, cacheVars, bufVars, callVars
  <2>1. TypeOK' /\ MtxInv' /\ WaitInv' /\ HashedInv'
    BY DEF PoolInv, TypeOK, MtxInv, WaitInv, HashedInv
  <2>2. \A b \in Bufs : Users(b)' = Users(b)
    BY DEF Users
  <2>3. PoolExact'
    BY <2>2, QuietPool DEF PoolInv
  <2> QED BY <2>1, <2>3 DEF PoolInv
<1> QED BY <1>1, <1>2

(* The pool of buffers is sound in every reachable state.                  *)
THEOREM Pool == Spec => []PoolInv
BY InitPool, NextPool, PTL DEF Spec

(* Types of the cache, of the disk and of the calls in progress.           *)
THEOREM TypeCorrect == Spec => []TypeOK
<1>1. PoolInv => TypeOK
  BY DEF PoolInv
<1> QED BY <1>1, Pool, PTL

(* blkbuf.c, for any number of processes, buffers and blocks and any mix   *)
(* of reads, writes and syncs: b_count counts the users, the free list is  *)
(* exactly the unused buffers, and nobody sleeps beside a free one.        *)
THEOREM PoolIsExact == Spec => []PoolExact
<1>1. PoolInv => PoolExact
  BY DEF PoolInv
<1> QED BY <1>1, Pool, PTL
-----------------------------------------------------------------------------
(* The contents of the blocks that the cache has not given up.             *)

Sound == Blocks \ spoilt

(* No two buffers have the same block.                                     *)
HashUnique == \A b, c \in Bufs :
                 b_blkno[b] \in Sound /\ b_blkno[b] = b_blkno[c] => b = c

(* Calls in progress: the buffer has the block that was asked for, and     *)
(* once blk_read() is through it is valid.                                 *)
CallInv == \A p \in Procs :
              /\ pc[p] \in Holding => b_blkno[bb[p]] = blkno[p]
              /\ pc[p] = "use" /\ op[p] # "whole" => b_valid[bb[p]]

(* A buffer that was never used has nothing in it; a valid buffer has the  *)
(* current contents of its block.                                          *)
BufInv == \A b \in Bufs :
             /\ b_blkno[b] = NoBlk => ~ b_valid[b] /\ ~ b_dirty[b]
             /\ b_blkno[b] \in Sound =>
                  /\ b_dirty[b] => b_valid[b]
                  /\ b_valid[b] => b_data[b] = Current(b_blkno[b])

(* The disk has them too, or there is a dirty buffer.                      *)
DiskInv == \A k \in Sound :
              /\ disk[k][1] = k
              /\ \/ disk[k] = Current(k)
                 \/ \E b \in Bufs : b_blkno[b] = k /\ b_dirty[b]

(* blk_sync_all() has b before it.                                         *)
ToDo(p, b) == \/ pc[p] \in {"slock", "swrite"} /\ b >= bb[p]
              \/ pc[p] = "sunlock" /\ b > bb[p]

SyncPcs == {"slock", "swrite", "sunlock", "sdone"}

(* What was written before a sync is on the disk, or in a dirty buffer     *)
(* that the sync has before it.                                            *)
SyncInv == \A p \in Procs, k \in Blocks :
              /\ snap[p][k] <= written[k]
              /\ pc[p] \in SyncPcs /\ k \in Sound =>
                    \/ disk[k][2] >= snap[p][k]
                    \/ \E b \in Bufs : b_blkno[b] = k /\ b_dirty[b] /\ ToDo(p, b)

DataInv == HashUnique /\ BufInv /\ DiskInv
ContentsInv == PoolInv /\ DataInv /\ CallInv /\ SyncInv

(* Buffers, blocks and disk are left alone.                                *)
LEMMA DataKeeps ==
  ASSUME TypeOK, DataInv, UNCHANGED <<b_blkno, bufVars, disk, written, spoilt>>
  PROVE  DataInv'
BY DEF DataInv, HashUnique, BufInv, DiskInv, Current, bufVars, TypeOK, Sound

(* A step of a process that is not in sync, and takes nothing from what a  *)
(* sync relies on.                                                         *)
LEMMA SyncKeeps ==
  ASSUME TypeOK, SyncInv, NEW p \in Procs, NEW l, pc' = [pc EXCEPT ![p] = l],
         l \notin SyncPcs, \A q \in Procs : q # p => bb'[q] = bb[q],
         \/ UNCHANGED snap
         \/ snap' = [snap EXCEPT ![p] = [k \in Blocks |-> 0]],
         spoilt \subseteq spoilt',
         \A b \in Bufs : b_blkno[b] \in Blocks \ spoilt' /\ b_dirty[b] =>
                           b_blkno'[b] = b_blkno[b] /\ b_dirty'[b],
         UNCHANGED disk, \A k \in Blocks : written[k] <= written'[k],
         written' \in [Blocks -> 0 .. MaxVer]
  PROVE  SyncInv'
<1> SUFFICES ASSUME NEW q \in Procs, NEW k \in Blocks
             PROVE  /\ snap'[q][k] <= written'[k]
                    /\ pc'[q] \in SyncPcs /\ k \in Blocks \ spoilt' =>
                          \/ disk'[k][2] >= snap'[q][k]
                          \/ \E b \in Bufs : b_blkno'[b] = k /\ b_dirty'[b] /\ ToDo(q, b)'
  BY DEF SyncInv, Sound
<1>1. snap'[q][k] <= written'[k]
  <2>1. snap[q][k] \in Nat /\ written[k] \in Nat /\ written'[k] \in Nat
    BY DEF TypeOK
  <2>2. snap[q][k] <= written[k] /\ written[k] <= written'[k]
    BY DEF SyncInv
  <2>3. snap'[q][k] = snap[q][k] \/ snap'[q][k] = 0
    <3>1. CASE UNCHANGED snap
      BY <3>1
    <3>2. CASE snap' = [snap EXCEPT ![p] = [j \in Blocks |-> 0]]
      <4>1. CASE q = p
        BY <3>2, <4>1 DEF TypeOK
      <4>2. CASE q # p
        BY <3>2, <4>2 DEF TypeOK
      <4> QED BY <4>1, <4>2
    <3> QED BY <3>1, <3>2
  <2> QED BY <2>1, <2>2, <2>3
<1>2. CASE q = p
  BY <1>1, <1>2 DEF TypeOK
<1>3. CASE q # p
  <2>1. pc'[q] = pc[q] /\ snap'[q] = snap[q] /\ bb'[q] = bb[q]
    BY <1>3 DEF TypeOK
  <2>2. \A b \in Bufs : ToDo(q, b) => ToDo(q, b)'
    BY <2>1 DEF ToDo
  <2>3. ASSUME pc'[q] \in SyncPcs, k \in Blocks \ spoilt'
        PROVE  \/ disk'[k][2] >= snap'[q][k]
               \/ \E b \in Bufs : b_blkno'[b] = k /\ b_dirty'[b] /\ ToDo(q, b)'
    <3>1. CASE disk[k][2] >= snap[q][k]
      BY <3>1, <2>1
    <3>2. CASE \E b \in Bufs : b_blkno[b] = k /\ b_dirty[b] /\ ToDo(q, b)
      <4>1. PICK b \in Bufs : b_blkno[b] = k /\ b_dirty[b] /\ ToDo(q, b)
        BY <3>2
      <4>2. b_blkno'[b] = k /\ b_dirty'[b] /\ ToDo(q, b)'
        BY <4>1, <2>2, <2>3
      <4> QED BY <4>2
    <3>3. k \in Sound
      BY <2>3 DEF Sound
    <3> QED BY <3>1, <3>2, <3>3, <2>1, <2>3 DEF SyncInv
  <2> QED BY <1>1, <2>3
<1> QED BY <1>2, <1>3

(* A call that moves on and changes no data.                               *)
LEMMA CallKeeps ==
  ASSUME TypeOK, CallInv, NEW p \in Procs, NEW l, pc' = [pc EXCEPT ![p] = l],
         l = "use" => op'[p] = "whole",
         \A q \in Procs : q # p => bb'[q] = bb[q] /\ op'[q] = op[q] /\ blkno'[q] = blkno[q],
         UNCHANGED <<b_blkno, b_valid>>,
         l \in Holding => b_blkno[bb'[p]] = blkno'[p]
  PROVE  CallInv'
<1> SUFFICES ASSUME NEW q \in Procs
             PROVE  /\ pc'[q] \in Holding => b_blkno'[bb'[q]] = blkno'[q]
                    /\ pc'[q] = "use" /\ op'[q] # "whole" => b_valid'[bb'[q]]
  BY DEF CallInv
<1>1. CASE q = p
  BY <1>1 DEF TypeOK
<1>2. CASE q # p
  BY <1>2 DEF TypeOK, CallInv
<1> QED BY <1>1, <1>2

(* A call that arrives at "use", or stays put there, with a valid buffer.  *)
LEMMA CallUse ==
  ASSUME TypeOK, CallInv, NEW p \in Procs, NEW l, pc' = [pc EXCEPT ![p] = l],
         l \in Holding => pc[p] \in Holding,
         UNCHANGED <<bb, op, blkno, b_blkno>>,
         \A b \in Bufs : b_valid[b] => b_valid'[b],
         l = "use" => b_valid'[bb[p]]
  PROVE  CallInv'
<1> SUFFICES ASSUME NEW q \in Procs
             PROVE  /\ pc'[q] \in Holding => b_blkno'[bb'[q]] = blkno'[q]
                    /\ pc'[q] = "use" /\ op'[q] # "whole" => b_valid'[bb'[q]]
  BY DEF CallInv
<1>1. CASE q = p
  BY <1>1 DEF TypeOK, CallInv
<1>2. CASE q # p
  <2>1. bb[q] \in Bufs
    BY DEF TypeOK
  <2> QED BY <1>2, <2>1, SMTT(30) DEF TypeOK, CallInv
<1> QED BY <1>1, <1>2

(* The steps that change no data.                                          *)
LEMMA CallStep ==
  ASSUME ContentsInv, NEW p \in Procs,
         \/ Call(p) \/ GetHit(p) \/ GetBlock(p) \/ LockBuf(p) \/ UseRead(p)
         \/ UseBound(p) \/ UnlockBuf(p) \/ Put(p) \/ SyncReturn(p)
  PROVE  DataInv' /\ CallInv' /\ SyncInv'
<1> USE DEF ContentsInv, PoolInv, Goto, cacheVars, callVars
<1>0. PICK l \in {"getblk", "off", "lock", "fill", "use", "unlock", "put", "idle"} :
         /\ pc' = [pc EXCEPT ![p] = l]
         /\ l \in {"fill", "use", "unlock", "put"} =>
              pc[p] \in Holding /\ UNCHANGED <<bb, blkno, op>>
         /\ l = "use" => op[p] = "whole"
         /\ l = "lock" => b_blkno[bb'[p]] = blkno[p] /\ UNCHANGED <<blkno, op>>
  <2>1. CASE GetHit(p)
    BY <2>1 DEF GetHit, InHash, TypeOK
  <2>2. CASE LockBuf(p)
    BY <2>2 DEF LockBuf, Holding
  <2>3. CASE Call(p) \/ GetBlock(p) \/ UseRead(p) \/ UseBound(p) \/ UnlockBuf(p)
              \/ Put(p) \/ SyncReturn(p)
    BY <2>3 DEF Call, GetBlock, UseRead, UseBound, UnlockBuf, Put, SyncReturn, Forget, Holding
  <2> QED BY <2>1, <2>2, <2>3
<1>1. /\ UNCHANGED <<b_blkno, bufVars, disk, written, spoilt>>
      /\ UNCHANGED snap \/ snap' = [snap EXCEPT ![p] = [k \in Blocks |-> 0]]
      /\ \A q \in Procs : q # p => bb'[q] = bb[q]
  BY DEF Call, GetHit, GetBlock, LockBuf, UseRead, UseBound, UnlockBuf, Put, SyncReturn,
         Forget, TypeOK
<1>2. DataInv'
  BY <1>1, DataKeeps
<1>4. \A k \in Blocks : written[k] <= written'[k] /\ written' \in [Blocks -> 0 .. MaxVer]
  BY <1>1 DEF TypeOK
<1>5. SyncInv'
  <2>1. l \notin SyncPcs
    BY <1>0 DEF SyncPcs
  <2>2. /\ spoilt \subseteq spoilt' /\ UNCHANGED disk
        /\ \A b \in Bufs : b_dirty[b] => b_blkno'[b] = b_blkno[b] /\ b_dirty'[b]
    BY <1>1 DEF bufVars
  <2>3. TypeOK /\ SyncInv
    OBVIOUS
  <2> HIDE DEF ContentsInv, PoolInv
  <2> QED BY <1>0, <1>1, <1>4, <2>1, <2>2, <2>3, SyncKeeps
<1>6. \A q \in Procs : q # p => op'[q] = op[q] /\ blkno'[q] = blkno[q]
  BY SMTT(30) DEF Call, GetHit, GetBlock, LockBuf, UseRead, UseBound, UnlockBuf, Put,
         SyncReturn, Forget, TypeOK
<1>7. CallInv'
  <2>1. (l = "use" => op'[p] = "whole") /\ UNCHANGED <<b_blkno, b_valid>>
    BY <1>0, <1>1 DEF bufVars
  <2>2. l \in Holding => b_blkno[bb'[p]] = blkno'[p]
    BY <1>0 DEF CallInv, Holding
  <2>3. \A q \in Procs : q # p => bb'[q] = bb[q] /\ op'[q] = op[q] /\ blkno'[q] = blkno[q]
    BY <1>1, <1>6
  <2>4. TypeOK /\ CallInv /\ pc' = [pc EXCEPT ![p] = l]
    BY <1>0
  <2> HIDE DEF ContentsInv, PoolInv
  <2> QED BY <2>1, <2>2, <2>3, <2>4, CallKeeps
<1> QED BY <1>2, <1>5, <1>7

(* blk_read() fills the buffer.                                            *)
LEMMA FillStep ==
  ASSUME ContentsInv, NEW p \in Procs, Fill(p)
  PROVE  DataInv' /\ CallInv' /\ SyncInv'
<1> USE DEF ContentsInv, PoolInv, Goto, cacheVars, callVars, Fill
<1>1. b_blkno[bb[p]] \in Blocks /\ bb[p] \in Bufs
  BY DEF HashedInv, TypeOK
<1>2. b_blkno[bb[p]] \in Sound /\ ~ b_valid[bb[p]] =>
         disk[b_blkno[bb[p]]] = Current(b_blkno[bb[p]])
  BY <1>1 DEF DataInv, DiskInv, BufInv, HashUnique
<1>3. BufInv'
  <2> SUFFICES ASSUME NEW b \in Bufs
               PROVE  /\ b_blkno[b] = NoBlk => ~ b_valid'[b] /\ ~ b_dirty[b]
                      /\ b_blkno[b] \in Sound =>
                           /\ b_dirty[b] => b_valid'[b]
                           /\ b_valid'[b] => b_data'[b] = Current(b_blkno[b])
    BY DEF BufInv, Current, Sound
  <2>1. CASE b = bb[p]
    BY <2>1, <1>1, <1>2, BlkCacheAssumption DEF DataInv, BufInv, TypeOK
  <2>2. CASE b # bb[p]
    BY <2>2 DEF DataInv, BufInv, TypeOK
  <2> QED BY <2>1, <2>2
<1>4. HashUnique' /\ DiskInv'
  BY DEF DataInv, HashUnique, DiskInv, Current, Sound
<1>5. CallInv'
  BY <1>1, CallUse DEF TypeOK
<1>6. SyncInv'
  <2>1. written' = written /\ \A k \in Blocks : written[k] <= written[k]
    BY DEF TypeOK
  <2>2. written \in [Blocks -> 0 .. MaxVer]
    BY DEF TypeOK
  <2> QED BY <2>1, <2>2, SyncKeeps DEF SyncPcs
<1> QED BY <1>3, <1>4, <1>5, <1>6 DEF DataInv

(* A block, or a part of one, is written into the buffer.                  *)
LEMMA WriteStep ==
  ASSUME ContentsInv, NEW p \in Procs, UseWrite(p)
  PROVE  DataInv' /\ CallInv' /\ SyncInv'
<1> USE DEF ContentsInv, PoolInv, Goto, cacheVars, callVars, UseWrite
<1> DEFINE k0 == blkno[p]
           b0 == bb[p]
<1>1. b_blkno[b0] = k0 /\ k0 \in Blocks /\ b0 \in Bufs
  BY DEF CallInv, TypeOK, Holding
<1>2. /\ spoilt \subseteq spoilt'
      /\ k0 \notin spoilt' => b_valid[b0]
  BY <1>1 DEF Unread
<1>3. k0 \notin spoilt' => b_data'[b0] = <<k0, written[k0] + 1>>
  <2>1. ASSUME k0 \notin spoilt' PROVE b_data[b0] = Current(k0)
    BY <2>1, <1>1, <1>2 DEF DataInv, BufInv, Sound
  <2>2. b_data'[b0] = Changed(k0, b_data[b0], op[p])
    BY <1>1 DEF TypeOK
  <2> QED BY <2>1, <2>2 DEF Changed
<1>4. /\ written'[k0] = written[k0] + 1 /\ b_dirty'[b0]
      /\ \A k \in Blocks : k # k0 => written'[k] = written[k]
      /\ \A b \in Bufs : b # b0 => b_data'[b] = b_data[b] /\ b_dirty'[b] = b_dirty[b]
      /\ UNCHANGED <<b_blkno, b_valid, disk, snap>>
  BY <1>1 DEF TypeOK
<1>5. \A b \in Bufs : b # b0 /\ k0 \notin spoilt' => b_blkno[b] # k0
  BY <1>1, <1>2 DEF DataInv, HashUnique, Sound
<1> HIDE DEF UseWrite
<1>6. BufInv'
  <2> SUFFICES ASSUME NEW b \in Bufs
               PROVE  /\ b_blkno[b] = NoBlk => ~ b_valid[b] /\ ~ b_dirty'[b]
                      /\ b_blkno[b] \in Blocks \ spoilt' =>
                           /\ b_dirty'[b] => b_valid[b]
                           /\ b_valid[b] => b_data'[b] = <<b_blkno[b], written'[b_blkno[b]]>>
    BY <1>4 DEF BufInv, Current, Sound
  <2>1. CASE b = b0
    BY <2>1, <1>1, <1>2, <1>3, <1>4, BlkCacheAssumption
  <2>2. CASE b # b0
    <3>1. b_dirty'[b] = b_dirty[b] /\ b_data'[b] = b_data[b]
      BY <2>2, <1>4
    <3>2. b_blkno[b] \in Blocks \ spoilt' => /\ b_blkno[b] \in Sound
                                             /\ written'[b_blkno[b]] = written[b_blkno[b]]
      BY <2>2, <1>2, <1>4, <1>5 DEF Sound
    <3> QED BY <3>1, <3>2 DEF DataInv, BufInv, Current
  <2> QED BY <2>1, <2>2
<1>7. HashUnique'
  BY <1>2, <1>4 DEF DataInv, HashUnique, Sound
<1>8. DiskInv'
  <2> SUFFICES ASSUME NEW k \in Blocks \ spoilt'
               PROVE  /\ disk[k][1] = k
                      /\ \/ disk[k] = <<k, written'[k]>>
                         \/ \E b \in Bufs : b_blkno[b] = k /\ b_dirty'[b]
    BY <1>4 DEF DiskInv, Current, Sound
  <2>0. k \in Sound
    BY <1>2 DEF Sound
  <2>1. CASE k = k0
    BY <2>0, <2>1, <1>1, <1>4 DEF DataInv, DiskInv
  <2>2. CASE k # k0
    <3>1. written'[k] = written[k]
      BY <2>2, <1>4
    <3>2. \A b \in Bufs : b_dirty[b] => b_dirty'[b]
      BY <1>4
    <3> QED BY <2>0, <3>1, <3>2 DEF DataInv, DiskInv, Current
  <2> QED BY <2>1, <2>2
<1>9. CallInv'
  BY CallUse DEF TypeOK, UseWrite, Holding
<1>10. written' \in [Blocks -> 0 .. MaxVer] /\ \A k \in Blocks : written[k] <= written'[k]
  BY <1>1, SMTT(30) DEF TypeOK, UseWrite
<1>11. SyncInv'
  <2>1. \A b \in Bufs : b_dirty[b] => b_blkno'[b] = b_blkno[b] /\ b_dirty'[b]
    BY <1>4
  <2>2. pc' = [pc EXCEPT ![p] = "unlock"] /\ UNCHANGED bb
    BY DEF UseWrite
  <2> QED BY <2>1, <2>2, <1>2, <1>4, <1>10, SyncKeeps DEF SyncPcs
<1> QED BY <1>6, <1>7, <1>8, <1>9, <1>11 DEF DataInv

(* sync is called: what is not on the disk is in a dirty buffer.           *)
LEMMA SyncCallStep ==
  ASSUME ContentsInv, NEW p \in Procs, SyncCall(p)
  PROVE  DataInv' /\ CallInv' /\ SyncInv'
<1> USE DEF ContentsInv, PoolInv, Goto, cacheVars, SyncCall
<1>1. DataInv'
  BY DataKeeps
<1>2. CallInv'
  BY CallKeeps DEF bufVars, CallInv, TypeOK, Holding
<1>3. ASSUME NEW q \in Procs, NEW k \in Blocks
      PROVE  /\ snap'[q][k] <= written'[k]
             /\ pc'[q] \in SyncPcs /\ k \in Sound' =>
                   \/ disk'[k][2] >= snap'[q][k]
                   \/ \E b \in Bufs : b_blkno'[b] = k /\ b_dirty'[b] /\ ToDo(q, b)'
  <2>0. Sound' = Sound
    BY DEF Sound
  <2>1. CASE q = p
    <3>1. snap'[q][k] = written[k] /\ bb'[q] = 1 /\ pc'[q] = "slock" /\ written[k] \in Nat
      BY <2>1 DEF TypeOK
    <3>2. \A b \in Bufs : ToDo(q, b)'
      BY <3>1 DEF ToDo
    <3>3. k \in Sound => disk[k] = <<k, written[k]>>
                         \/ \E b \in Bufs : b_blkno[b] = k /\ b_dirty[b]
      BY DEF DataInv, DiskInv, Current
    <3> QED BY <2>0, <3>1, <3>2, <3>3 DEF bufVars
  <2>2. CASE q # p
    <3>1. snap'[q] = snap[q] /\ bb'[q] = bb[q] /\ pc'[q] = pc[q]
      BY <2>2 DEF TypeOK
    <3> QED BY <2>0, <3>1 DEF SyncInv, ToDo, bufVars
  <2> QED BY <2>1, <2>2
<1> QED BY <1>1, <1>2, <1>3 DEF SyncInv

(* sync goes on to the next buffer.                                        *)
LEMMA SyncMoveStep ==
  ASSUME ContentsInv, NEW p \in Procs, SyncLock(p) \/ SyncUnlock(p)
  PROVE  DataInv' /\ CallInv' /\ SyncInv'
<1> USE DEF ContentsInv, PoolInv, Goto, cacheVars, callVars
<1>1. /\ UNCHANGED <<b_blkno, bufVars, disk, written, snap, op, blkno, spoilt>>
      /\ \A q \in Procs : q # p => bb'[q] = bb[q] /\ pc'[q] = pc[q]
  BY DEF SyncLock, SyncUnlock, TypeOK
<1>2. DataInv'
  BY <1>1, DataKeeps
<1>3. PICK l \in {"swrite", "sdone", "slock"} : pc' = [pc EXCEPT ![p] = l]
  BY DEF SyncLock, SyncUnlock
<1>4. CallInv'
  <2>1. UNCHANGED <<b_blkno, b_valid>>
    BY <1>1 DEF bufVars
  <2>2. \A q \in Procs : q # p => bb'[q] = bb[q] /\ op'[q] = op[q] /\ blkno'[q] = blkno[q]
    BY <1>1
  <2>3. l \notin Holding /\ l # "use"
    BY <1>3 DEF Holding
  <2>4. TypeOK /\ CallInv
    OBVIOUS
  <2> HIDE DEF ContentsInv, PoolInv
  <2> QED BY <1>3, <2>1, <2>2, <2>3, <2>4, CallKeeps
<1>5. \A b \in Bufs : ToDo(p, b) => ToDo(p, b)'
  <2>1. bb[p] \in Nat
    BY DEF TypeOK
  <2>2. CASE SyncLock(p)
    BY <2>1, <2>2 DEF ToDo, SyncLock, TypeOK
  <2>3. CASE SyncUnlock(p) /\ bb[p] = NBBUF
    BY <2>1, <2>3 DEF ToDo, SyncUnlock, TypeOK
  <2>4. CASE SyncUnlock(p) /\ bb[p] # NBBUF
    <3>1. bb'[p] = bb[p] + 1 /\ pc'[p] = "slock" /\ pc[p] = "sunlock"
      BY <2>4 DEF SyncUnlock, TypeOK
    <3> QED BY <2>1, <3>1 DEF ToDo
  <2> QED BY <2>2, <2>3, <2>4
<1>6. pc[p] \in SyncPcs
  BY DEF SyncLock, SyncUnlock, SyncPcs
<1>7. \A q \in Procs, b \in Bufs : ToDo(q, b) => ToDo(q, b)'
  BY <1>1, <1>5 DEF ToDo
<1>8. \A q \in Procs : pc'[q] \in SyncPcs => pc[q] \in SyncPcs
  BY <1>1, <1>6
<1>9. SyncInv'
  BY <1>1, <1>7, <1>8 DEF SyncInv, Sound, bufVars
<1> QED BY <1>2, <1>4, <1>9

(* sync writes a buffer.                                                   *)
LEMMA SyncWriteStep ==
  ASSUME ContentsInv, NEW p \in Procs, SyncWrite(p)
  PROVE  DataInv' /\ CallInv' /\ SyncInv'
<1> USE DEF ContentsInv, PoolInv, Goto, cacheVars, callVars, SyncWrite
<1> DEFINE b == bb[p]
           k0 == b_blkno[b]
<1>0. Sound' = Sound /\ UNCHANGED <<b_blkno, b_data, written, snap, bb, op, blkno>>
  BY DEF Sound
<1>1. b \in Bufs /\ (b_dirty[b] => k0 \in Blocks)
      /\ (b_dirty[b] /\ k0 \in Sound => b_data[b] = Current(k0))
  BY DEF TypeOK, DataInv, BufInv
<1>2. k0 \in Sound => disk'[k0] = Current(k0)
  BY <1>1 DEF TypeOK, DataInv, DiskInv, HashUnique, Sound
<1>3. \A k \in Blocks : k # k0 => disk'[k] = disk[k]
  BY <1>1 DEF TypeOK
<1>4. \A c \in Bufs : /\ b_valid[c] => b_valid'[c]
                      /\ b_blkno[c] \in Sound => (b_valid'[c] => b_valid[c])
                      /\ b_blkno[c] = NoBlk => ~ b_valid'[c]
                      /\ c # b => b_dirty'[c] = b_dirty[c]
  BY <1>1 DEF TypeOK, DataInv, BufInv
<1>5. ~ b_dirty'[b]
  BY <1>1 DEF TypeOK
<1>5a. pc[p] = "swrite" /\ pc' = [pc EXCEPT ![p] = "sunlock"]
  OBVIOUS
<1> HIDE DEF b, SyncWrite
<1>6. BufInv' /\ HashUnique'
  BY <1>0, <1>1, <1>4, <1>5 DEF DataInv, BufInv, HashUnique, Current
<1>7. DiskInv'
  <2> SUFFICES ASSUME NEW k \in Sound
               PROVE  /\ disk'[k][1] = k
                      /\ \/ disk'[k] = <<k, written'[k]>>
                         \/ \E c \in Bufs : b_blkno'[c] = k /\ b_dirty'[c]
    BY <1>0 DEF DiskInv, Current
  <2>1. CASE k = k0
    BY <2>1, <1>0, <1>2 DEF Current
  <2>2. CASE k # k0
    <3>1. disk[k][1] = k /\ disk'[k] = disk[k]
      BY <2>2, <1>3 DEF DataInv, DiskInv, Sound
    <3>2. CASE disk[k] = <<k, written[k]>>
      BY <1>0, <3>1, <3>2
    <3>3. CASE \E c \in Bufs : b_blkno[c] = k /\ b_dirty[c]
      BY <1>0, <3>1, <3>3, <2>2, <1>4
    <3> QED BY <3>2, <3>3 DEF DataInv, DiskInv, Current
  <2> QED BY <2>1, <2>2
<1>8. CallInv'
  BY <1>0, <1>4, <1>5a, CallUse DEF Holding
<1>9. SyncInv'
  <2> SUFFICES ASSUME NEW q \in Procs, NEW k \in Blocks
               PROVE  /\ snap'[q][k] <= written'[k]
                      /\ pc'[q] \in SyncPcs /\ k \in Sound =>
                            \/ disk'[k][2] >= snap'[q][k]
                            \/ \E c \in Bufs : b_blkno'[c] = k /\ b_dirty'[c] /\ ToDo(q, c)'
    BY <1>0 DEF SyncInv
  <2>1. snap[q][k] <= written[k]
    BY DEF SyncInv
  <2>2. CASE k = k0
    BY <2>1, <2>2, <1>0, <1>2 DEF Current
  <2>3. CASE k # k0
    <3>1. \A c \in Bufs : b_blkno[c] = k /\ b_dirty[c] /\ ToDo(q, c) =>
                             b_dirty'[c] /\ ToDo(q, c)'
      <4>0. \A c \in Bufs : b_blkno[c] = k => c # b
        BY <2>3
      <4>1. CASE q = p
        <5>2. pc[q] = "swrite" /\ pc'[q] = "sunlock" /\ bb'[q] = b /\ bb[q] = b
          BY <4>1, <1>0, <1>5a DEF TypeOK, b
        <5> QED BY <4>0, <5>2, <1>1, <1>4 DEF ToDo
      <4>2. CASE q # p
        BY <4>0, <4>2, <1>0, <1>4, <1>5a DEF ToDo, TypeOK
      <4> QED BY <4>1, <4>2
    <3>2. disk'[k] = disk[k] /\ b_blkno' = b_blkno /\ snap' = snap /\ written' = written
      BY <2>3, <1>0, <1>3
    <3>3. pc'[q] \in SyncPcs => pc[q] \in SyncPcs
      BY <1>5a DEF SyncPcs, TypeOK
    <3>4. pc[q] \in SyncPcs /\ k \in Sound =>
             \/ disk[k][2] >= snap[q][k]
             \/ \E c \in Bufs : b_blkno[c] = k /\ b_dirty[c] /\ ToDo(q, c)
      BY DEF SyncInv
    <3> QED BY <2>1, <3>1, <3>2, <3>3, <3>4
  <2> QED BY <2>2, <2>3
<1> QED BY <1>6, <1>7, <1>8, <1>9 DEF DataInv

(* getblk() gives a free buffer, with all that it holds, to a block.       *)
LEMMA LruStep ==
  ASSUME ContentsInv, NEW p \in Procs, GetLRU(p)
  PROVE  DataInv' /\ CallInv' /\ SyncInv'
<1> USE DEF ContentsInv, PoolInv
<1> DEFINE b == free_list[Len(free_list)]
           j == blkno[p]
<1>1. /\ NeedsLRU(p) /\ free_list # <<>>
      /\ b_blkno' = [b_blkno EXCEPT ![b] = j]
      /\ bb' = [bb EXCEPT ![p] = b]
      /\ pc' = [pc EXCEPT ![p] = "lock"]
      /\ spoilt' = spoilt \cup {k \in Blocks : Evicts(k, b, j)}
                          \cup {k \in {j} : Inherits(j, b) \/ Doubles(j, b)}
      /\ UNCHANGED <<b_valid, b_dirty, b_data, disk, op, blkno, snap, written>>
  BY DEF GetLRU, Goto, callVars, bufVars
<1>2. j \in Blocks /\ Len(free_list) \in DOMAIN free_list /\ b \in Bufs
  BY <1>1 DEF TypeOK
<1>3. Users(b) = {}
  BY <1>2 DEF PoolExact, FreeListExact
<1> HIDE DEF b
<1>4. /\ b_blkno'[b] = j
      /\ \A c \in Bufs : c # b => b_blkno'[c] = b_blkno[c]
  BY <1>1, <1>2 DEF TypeOK
<1>5. /\ Sound' \subseteq Sound /\ Sound' = Blocks \ spoilt'
      /\ spoilt \subseteq spoilt'
  BY <1>1 DEF Sound
<1>6. j \in Sound' => /\ b_blkno[b] = j \/ (~ b_valid[b] /\ ~ b_dirty[b])
                      /\ \A c \in Bufs : c # b => b_blkno[c] # j
  <2>1. j \in Sound' => ~ Inherits(j, b) /\ ~ Doubles(j, b)
    BY <1>1 DEF Sound
  <2> QED BY <2>1 DEF Inherits, Doubles, InHash
<1>7. b_blkno[b] \in Sound' /\ b_blkno[b] # j => ~ b_dirty[b]
  <2>1. \A k \in Sound' : ~ Evicts(k, b, j)
    BY <1>1 DEF Sound
  <2> QED BY <2>1 DEF Evicts
<1>8. HashUnique'
  <2> SUFFICES ASSUME NEW c \in Bufs, NEW d \in Bufs, b_blkno'[c] \in Sound',
                      b_blkno'[c] = b_blkno'[d]
               PROVE  c = d
    BY DEF HashUnique
  <2>1. CASE c # b /\ d # b
    BY <2>1, <1>4, <1>5 DEF DataInv, HashUnique
  <2>2. CASE c = b \/ d = b
    BY <2>2, <1>4, <1>6
  <2> QED BY <2>1, <2>2
<1>9. BufInv'
  <2> SUFFICES ASSUME NEW c \in Bufs
               PROVE  /\ b_blkno'[c] = NoBlk => ~ b_valid[c] /\ ~ b_dirty[c]
                      /\ b_blkno'[c] \in Sound' =>
                           /\ b_dirty[c] => b_valid[c]
                           /\ b_valid[c] => b_data[c] = <<b_blkno'[c], written[b_blkno'[c]]>>
    BY <1>1 DEF BufInv, Current
  <2>1. CASE c = b
    BY <2>1, <1>2, <1>4, <1>5, <1>6, BlkCacheAssumption DEF DataInv, BufInv, Current
  <2>2. CASE c # b
    BY <2>2, <1>4, <1>5 DEF DataInv, BufInv, Current
  <2> QED BY <2>1, <2>2
<1>10. \A c \in Bufs : b_blkno[c] \in Sound' /\ b_dirty[c] =>
                          b_blkno'[c] = b_blkno[c] /\ b_dirty'[c]
  BY <1>1, <1>4, <1>7
<1>11. DiskInv'
  BY <1>1, <1>5, <1>10 DEF DataInv, DiskInv, Current
<1>12. CallInv'
  <2> SUFFICES ASSUME NEW q \in Procs
               PROVE  /\ pc'[q] \in Holding => b_blkno'[bb'[q]] = blkno'[q]
                      /\ pc'[q] = "use" /\ op'[q] # "whole" => b_valid'[bb'[q]]
    BY DEF CallInv
  <2>1. CASE q = p
    BY <2>1, <1>1, <1>4 DEF TypeOK
  <2>2. CASE q # p
    <3>1. pc'[q] = pc[q] /\ bb'[q] = bb[q] /\ bb[q] \in Bufs
      BY <2>2, <1>1 DEF TypeOK
    <3>2. pc[q] \in Holding => bb[q] # b
      BY <1>3 DEF Users
    <3> QED BY <3>1, <3>2, <1>1, <1>4 DEF CallInv
  <2> QED BY <2>1, <2>2
<1>13. \A k \in Blocks : written[k] <= written'[k] /\ written' \in [Blocks -> 0 .. MaxVer]
  BY <1>1, SMTT(30) DEF TypeOK
<1>14. SyncInv'
  <2>1. \A q \in Procs : q # p => bb'[q] = bb[q]
    BY <1>1 DEF TypeOK
  <2> QED BY <2>1, <1>1, <1>5, <1>10, <1>13, SyncKeeps DEF SyncPcs
<1> QED BY <1>8, <1>9, <1>11, <1>12, <1>14 DEF DataInv

(* An empty cache agrees with the disk.                                    *)
LEMMA InitContents == Init => ContentsInv
<1> SUFFICES ASSUME Init PROVE ContentsInv
  OBVIOUS
<1>1. PoolInv
  BY InitPool
<1> USE DEF Init
<1>2. DataInv /\ CallInv
  BY BlkCacheAssumption DEF DataInv, HashUnique, BufInv, DiskInv, CallInv, Current, Sound, Holding
<1>3. SyncInv
  BY DEF SyncInv, SyncPcs
<1> QED BY <1>1, <1>2, <1>3 DEF ContentsInv

(* Every step preserves the invariant of the contents.                     *)
LEMMA NextContents == ContentsInv /\ [Next]_vars => ContentsInv'
<1> SUFFICES ASSUME ContentsInv, [Next]_vars PROVE ContentsInv'
  OBVIOUS
<1>1. PoolInv'
  BY NextPool DEF ContentsInv
<1>2. DataInv' /\ CallInv' /\ SyncInv'
  <2>1. CASE Next
    <3>1. PICK p \in Procs : Call(p) \/ SyncCall(p) \/ KernelStep(p)
      BY <2>1 DEF Next
    <3> QED BY <3>1, CallStep, FillStep, WriteStep, SyncCallStep, SyncMoveStep,
               SyncWriteStep, LruStep DEF KernelStep
  <2>2. CASE UNCHANGED vars
    <3> USE <2>2 DEF ContentsInv, vars, cacheVars, callVars
    <3>1. DataInv'
      BY DataKeeps DEF PoolInv
    <3>2. CallInv' /\ SyncInv'
      BY DEF CallInv, SyncInv, ToDo, bufVars, Sound
    <3> QED BY <3>1, <3>2
  <2> QED BY <2>1, <2>2
<1> QED BY <1>1, <1>2 DEF ContentsInv

(* However short the cache is of buffers, the contents of the blocks it    *)
(* has not given up are sound.                                             *)
THEOREM CacheContents == Spec => []ContentsInv
BY InitContents, NextContents, PTL DEF Spec

(* The comment on blk_read(): "a locked buf with the contents of the       *)
(* indicated block", and as last written, for every block that kept its    *)
(* contents when getblk() recycled buffers and blkdev_write() wrote blocks.*)
THEOREM ReadsIndicatedContents == Spec => []IndicatedContents
<1>1. ContentsInv => IndicatedContents
  BY DEF ContentsInv, IndicatedContents, CallInv, PoolInv, TypeOK, DataInv, BufInv, Sound, Holding
<1> QED BY <1>1, CacheContents, PTL

(* Write-back: what was last written to a block is on the disk or in the   *)
(* block's dirty buffer, also when its buffer was recycled clean.          *)
THEOREM NoWriteIsLost == Spec => []NoWriteLost
<1>1. ASSUME ContentsInv, NEW k \in Blocks \ spoilt, disk[k] # Current(k)
      PROVE  \E b \in InHash(k) : b_dirty[b] /\ b_data[b] = Current(k)
  BY <1>1 DEF ContentsInv, DataInv, DiskInv, BufInv, InHash, Sound
<1>2. ContentsInv => NoWriteLost
  BY <1>1 DEF NoWriteLost
<1> QED BY <1>2, CacheContents, PTL

(* blk_sync_all() leaves on the disk all that was written before it was    *)
(* called, whatever is written or recycled while it runs.                  *)
THEOREM SyncIsPersistent == Spec => []SyncPersists
<1>1. ContentsInv => SyncPersists
  BY DEF ContentsInv, SyncPersists, SyncInv, SyncPcs, ToDo, DataInv, DiskInv, Sound
<1> QED BY <1>1, CacheContents, PTL
=============================================================================
