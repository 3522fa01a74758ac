---------------------------- MODULE DeviceProofs ----------------------------
(***************************************************************************)
(* Proofs about the two device drivers, modules VirtioDisk and Tty, which  *)
(* share nothing.                                                          *)
(*                                                                         *)
(* The terminal, for rings of any size, bursts of any length and any       *)
(* number of readers: the operations of queue.c are those of a sequence,   *)
(* with the ring wrapping, overflowing and being erased from its tail, and *)
(* the terminal keeps the line that was typed.                             *)
(*                                                                         *)
(* The disk, for any number of processes and of descriptors and any ring   *)
(* index: the driver and the device agree on the rings, no process sleeps  *)
(* beside three free descriptors, and the two together implement module    *)
(* BlockDevice.                                                            *)
(***************************************************************************)
EXTENDS VirtioDisk, Tty, FiniteSetTheorems, WellFoundedInduction,
        NaturalsInduction, TLAPS
-----------------------------------------------------------------------------
(* The terminal                                                            *)

Cap == TTY_BUF_SIZE

(* What the edited queue may hold.                                         *)
Cooks == Chars \cup {"NL"}

(* The wrap of an index as queue.c does it.                                *)
Wrap(x) == IF x >= Cap THEN x - Cap ELSE x

(* A ring that queue.c may be given: the slot behind the tail is the first *)
(* free one, up to a turn of the ring.                                     *)
Turns(q) == /\ \/ q.tail + 1 = q.head + q.size
               \/ q.tail + 1 = q.head + q.size - Cap
               \/ q.tail + 1 = q.head + q.size + Cap
            /\ q.tail = Cap => Cap > 1
Ring(q) ==
    /\ q \in [head : 0 .. Cap - 1, tail : -1 .. Cap, size : 0 .. Cap,
              capacity : {Cap}, array : [0 .. Cap - 1 -> Cooks]]
    /\ Turns(q)
-----------------------------------------------------------------------------
(* Induction, for a set of numbers.                                        *)
LEMMA Induction ==
  ASSUME NEW S \in SUBSET Nat, 0 \in S, \A m \in S : m + 1 \in S
  PROVE  S = Nat
<1> SUFFICES ASSUME Nat \ S # {} PROVE FALSE
  OBVIOUS
<1>1. IsWellFoundedOn(OpToRel(<,Nat), Nat)
  BY NatLessThanWellFounded
<1>2. \E x \in Nat \ S : \A y \in Nat \ S : ~ (<<y, x>> \in OpToRel(<,Nat))
  BY <1>1, WFMin
<1>3. PICK x \in Nat \ S : \A y \in Nat \ S : ~ (y < x)
  BY <1>2 DEF OpToRel
<1>4. x # 0 /\ x - 1 \in Nat /\ x - 1 < x
  BY <1>3
<1>5. x - 1 \in S
  BY <1>3, <1>4
<1>6. (x - 1) + 1 = x
  BY <1>3
<1> QED BY <1>3, <1>5, <1>6

(* A set of numbers that is not empty has a least one.                     *)
LEMMA LeastExists ==
  ASSUME NEW S \in SUBSET Nat, S # {}
  PROVE  /\ Min(S) \in S
         /\ \A y \in S : Min(S) <= y
<1>1. IsWellFoundedOn(OpToRel(<,Nat), Nat)
  BY NatLessThanWellFounded
<1>2. \E x \in S : \A y \in S : ~ (<<y, x>> \in OpToRel(<,Nat))
  BY <1>1, WFMin
<1>3. \E x \in S : \A y \in S : ~ (y < x)
  BY <1>2 DEF OpToRel
<1>4. \E x \in S : \A y \in S : x <= y
  BY <1>3
<1> QED BY <1>4 DEF Min
-----------------------------------------------------------------------------
(* The operations of the ring                                              *)

(* The capacity is a positive number.                                      *)
LEMMA CapFacts == Cap \in Nat /\ Cap > 0
BY TtyAssumption DEF Cap

(* The wrap of queue.c is the remainder where it is used.                  *)
LEMMA WrapIsMod == \A x \in 0 .. (2 * Cap - 1) : x % Cap = Wrap(x)
<1> USE CapFacts
<1> SUFFICES ASSUME NEW x \in 0 .. (2 * Cap - 1) PROVE x % Cap = Wrap(x)
  OBVIOUS
<1>1. CASE x < Cap
  <2>1. x \in 0 .. (Cap - 1)
    BY <1>1
  <2> QED BY <2>1 DEF Wrap
<1>2. CASE x >= Cap
  <2>1. x \in Cap .. (2 * Cap - 1)
    BY <1>2
  <2> QED BY <2>1 DEF Wrap
<1> QED BY <1>1, <1>2

(* The fields of a ring.                                                   *)
LEMMA RingFields ==
  ASSUME NEW q, Ring(q)
  PROVE  /\ q.size \in 0 .. Cap /\ q.head \in 0 .. Cap - 1 /\ q.tail \in -1 .. Cap
         /\ q.capacity = Cap /\ q.array \in [0 .. Cap - 1 -> Cooks]
         /\ Wrap(q.tail + 1) = Wrap(q.head + q.size)
         /\ q = [head |-> q.head, tail |-> q.tail, size |-> q.size,
                 capacity |-> q.capacity, array |-> q.array]
<1>1. /\ q.size \in 0 .. Cap /\ q.head \in 0 .. Cap - 1 /\ q.tail \in -1 .. Cap
      /\ q.capacity = Cap /\ q.array \in [0 .. Cap - 1 -> Cooks]
      /\ q = [head |-> q.head, tail |-> q.tail, size |-> q.size,
              capacity |-> q.capacity, array |-> q.array]
  BY DEF Ring
<1>2. ASSUME NEW h \in 0 .. Cap - 1, NEW t \in -1 .. Cap, NEW k \in 0 .. Cap,
             t + 1 = h + k \/ t + 1 = h + k - Cap \/ t + 1 = h + k + Cap,
             t = Cap => Cap > 1
      PROVE  Wrap(t + 1) = Wrap(h + k)
  BY <1>2, CapFacts DEF Wrap
<1> QED BY <1>1, <1>2 DEF Ring, Turns

(* The slots of a ring that holds k elements from h on.                    *)
LEMMA Slots ==
  ASSUME NEW h \in 0 .. Cap - 1, NEW k \in 0 .. Cap
  PROVE  /\ \A i \in 1 .. k : /\ Wrap(h + i - 1) \in 0 .. Cap - 1
                              /\ (h + i - 1) % Cap = Wrap(h + i - 1)
                              /\ k < Cap => Wrap(h + i - 1) # Wrap(h + k)
         /\ Wrap(h + k) \in 0 .. Cap - 1
<1> USE CapFacts
<1>1. ASSUME NEW i \in 1 .. k
      PROVE  (h + i - 1) % Cap = Wrap(h + i - 1)
  <2>1. h + i - 1 \in 0 .. (2 * Cap - 1)
    OBVIOUS
  <2> HIDE CapFacts
  <2> QED BY <2>1, WrapIsMod
<1>2. \A i \in 1 .. k : /\ Wrap(h + i - 1) \in 0 .. Cap - 1
                        /\ k < Cap => Wrap(h + i - 1) # Wrap(h + k)
  BY DEF Wrap
<1>3. Wrap(h + k) \in 0 .. Cap - 1
  BY DEF Wrap
<1> QED BY <1>1, <1>2, <1>3

(* The elements of a ring, with the indices as queue.c computes them.      *)
LEMMA ElementsAt ==
  ASSUME NEW q, Ring(q)
  PROVE  /\ Elements(q) = [i \in 1 .. q.size |-> q.array[Wrap(q.head + i - 1)]]
         /\ Elements(q) \in Seq(Cooks) /\ Len(Elements(q)) = q.size
<1>1. /\ q.size \in 0 .. Cap /\ q.head \in 0 .. Cap - 1
      /\ q.capacity = Cap /\ q.array \in [0 .. Cap - 1 -> Cooks]
  BY RingFields
<1>2. \A i \in 1 .. q.size : /\ (q.head + i - 1) % Cap = Wrap(q.head + i - 1)
                             /\ Wrap(q.head + i - 1) \in 0 .. Cap - 1
  BY <1>1, Slots
<1>3. Elements(q) = [i \in 1 .. q.size |-> q.array[Wrap(q.head + i - 1)]]
  BY <1>1, <1>2 DEF Elements
<1>5. Elements(q) \in [1 .. q.size -> Cooks]
  BY <1>1, <1>2, <1>3
<1>6. q.size \in Nat
  BY <1>1, CapFacts
<1>7. ASSUME NEW k \in Nat, NEW f \in [1 .. k -> Cooks]
      PROVE  f \in Seq(Cooks) /\ Len(f) = k
  OBVIOUS
<1> QED BY <1>3, <1>5, <1>6, <1>7

(* A sequence given by its elements.                                       *)
LEMMA ByElements ==
  ASSUME NEW q, Ring(q), NEW s, NEW m, q.size = m, s \in Seq(Cooks), Len(s) = m,
         \A i \in 1 .. m : s[i] = q.array[Wrap(q.head + i - 1)]
  PROVE  Elements(q) = s
<1>1. Elements(q) = [i \in 1 .. m |-> q.array[Wrap(q.head + i - 1)]]
  BY ElementsAt
<1>2. s = [i \in 1 .. m |-> s[i]]
  OBVIOUS
<1> QED BY <1>1, <1>2

(* queue_push() appends.                                                   *)
LEMMA PushAppends ==
  ASSUME NEW q, Ring(q), q.size < Cap, NEW c \in Cooks
  PROVE  /\ Ring(queue_push(q, c)) /\ queue_push(q, c).size = q.size + 1
         /\ Elements(queue_push(q, c)) = Append(Elements(q), c)
<1>1. PICK h, k, t, a :
        /\ h = q.head /\ k = q.size /\ t = Wrap(q.tail + 1) /\ a = q.array
        /\ h \in 0 .. Cap - 1 /\ k \in 0 .. Cap - 1 /\ a \in [0 .. Cap - 1 -> Cooks]
        /\ t = Wrap(h + k)
  BY RingFields, CapFacts
<1>a. k \in 0 .. Cap /\ k < Cap
  BY <1>1, CapFacts
<1>2. /\ t \in 0 .. Cap - 1 /\ k \in 0 .. Cap
      /\ \A i \in 1 .. k : Wrap(h + i - 1) # t /\ Wrap(h + i - 1) \in 0 .. Cap - 1
  <2>1. h \in 0 .. Cap - 1
    BY <1>1
  <2>2. /\ \A i \in 1 .. k : /\ Wrap(h + i - 1) \in 0 .. Cap - 1
                             /\ k < Cap => Wrap(h + i - 1) # Wrap(h + k)
        /\ Wrap(h + k) \in 0 .. Cap - 1
    BY <2>1, <1>a, Slots
  <2> QED BY <2>2, <1>1, <1>a
<1>3. queue_push(q, c) = [head |-> h, tail |-> t, size |-> k + 1, capacity |-> Cap,
                          array |-> [a EXCEPT ![t] = c]]
  <2>1. q.capacity = Cap /\ q = [head |-> q.head, tail |-> q.tail, size |-> q.size,
                                 capacity |-> q.capacity, array |-> q.array]
    BY RingFields
  <2>2. Folded(q, q.tail + 1) = t
    BY <1>1, <2>1 DEF Folded, Wrap
  <2>3. queue_push(q, c) = [q EXCEPT !.tail = t, !.array[t] = c, !.size = @ + 1]
    BY <2>2 DEF queue_push
  <2>4. PICK u : u = q.tail
    OBVIOUS
  <2>5. q = [head |-> h, tail |-> u, size |-> k, capacity |-> Cap, array |-> a]
    BY <1>1, <2>1, <2>4
  <2> QED BY <2>3, <2>5
<1>4. PICK r : r = queue_push(q, c)
  OBVIOUS
<1>5. /\ r.head = h /\ r.tail = t /\ r.size = k + 1 /\ r.capacity = Cap
      /\ r.array = [a EXCEPT ![t] = c]
  BY <1>3, <1>4
<1>6. Ring(r)
  <2>1. k + 1 \in 0 .. Cap /\ t \in -1 .. Cap
    BY <1>1, <1>2, CapFacts
  <2>2. [a EXCEPT ![t] = c] \in [0 .. Cap - 1 -> Cooks]
    BY <1>1, <1>2
  <2>3. Turns(r)
    <3>1. t + 1 = h + (k + 1) \/ t + 1 = h + (k + 1) - Cap
      BY <1>1, CapFacts, SMTT(30) DEF Wrap
    <3>2. t # Cap
      BY <1>2, CapFacts
    <3> QED BY <3>1, <3>2, <1>5 DEF Turns
  <2> QED BY <1>1, <1>3, <1>4, <2>1, <2>2, <2>3 DEF Ring
<1>7. PICK s : s = Elements(q) /\ s \in Seq(Cooks) /\ Len(s) = k
               /\ \A i \in 1 .. k : s[i] = a[Wrap(h + i - 1)]
  BY <1>1, ElementsAt
<1>8. Append(s, c) \in Seq(Cooks) /\ Len(Append(s, c)) = k + 1
      /\ \A i \in 1 .. k + 1 : Append(s, c)[i] = IF i = k + 1 THEN c ELSE s[i]
  BY <1>7
<1>9. \A i \in 1 .. k + 1 : Append(s, c)[i] = r.array[Wrap(r.head + i - 1)]
  <2> TAKE i \in 1 .. k + 1
  <2>1. CASE i = k + 1
    <3>1. h + i - 1 = h + k
      BY <2>1, <1>1, CapFacts
    <3>2. Append(s, c)[i] = c
      BY <2>1, <1>8
    <3>3. r.array[Wrap(r.head + i - 1)] = [a EXCEPT ![t] = c][t]
      BY <3>1, <1>1, <1>5
    <3>4. [a EXCEPT ![t] = c][t] = c
      BY <1>1, <1>2
    <3> QED BY <3>2, <3>3, <3>4
  <2>2. CASE i # k + 1
    <3>1. i \in 1 .. k
      BY <2>2, <1>1, CapFacts
    <3>2. Wrap(h + i - 1) # t /\ Wrap(h + i - 1) \in 0 .. Cap - 1
      BY <3>1, <1>2
    <3> QED BY <2>2, <3>1, <3>2, <1>1, <1>2, <1>5, <1>7, <1>8
  <2> QED BY <2>1, <2>2
<1>10. Elements(r) = Append(s, c)
  BY <1>5, <1>6, <1>8, <1>9, ByElements, ZenonT(30)
<1> QED BY <1>1, <1>4, <1>5, <1>6, <1>7, <1>10

(* The tail agrees with the head and the size, up to a turn of the ring.   *)
TurnsOf(h, t, k) == \/ t + 1 = h + k \/ t + 1 = h + k - Cap
                    \/ t + 1 = h + k + Cap

(* The tail after queue_back_pop().                                        *)
Before(t) == IF t - 1 <= 0 THEN t - 1 + Cap ELSE t - 1

(* What the two pops do to the indices.                                    *)
LEMMA PopIndices ==
  ASSUME NEW h \in 0 .. Cap - 1, NEW t \in -1 .. Cap, NEW k \in 1 .. Cap,
         TurnsOf(h, t, k), t = Cap => Cap > 1
  PROVE  /\ Wrap(h + 1) \in 0 .. Cap - 1 /\ k - 1 \in 0 .. Cap
         /\ TurnsOf(Wrap(h + 1), t, k - 1)
         /\ Before(t) \in -1 .. Cap /\ (Before(t) = Cap => Cap > 1)
         /\ TurnsOf(h, Before(t), k - 1)
<1> USE CapFacts
<1>1. Wrap(h + 1) \in 0 .. Cap - 1 /\ k - 1 \in 0 .. Cap
  BY DEF Wrap
<1>2. TurnsOf(Wrap(h + 1), t, k - 1)
  BY DEF Wrap, TurnsOf
<1>3. Before(t) \in -1 .. Cap
  BY DEF Before
<1>4. Before(t) = Cap => Cap > 1
  BY DEF Before
<1>5. TurnsOf(h, Before(t), k - 1)
  <2>1. CASE t - 1 <= 0
    BY <2>1 DEF Before, TurnsOf
  <2>2. CASE ~ (t - 1 <= 0)
    BY <2>2 DEF Before, TurnsOf
  <2> QED BY <2>1, <2>2
<1> QED BY <1>1, <1>2, <1>3, <1>4, <1>5

(* The slots after the head has moved.                                     *)
LEMMA SlotsMove ==
  ASSUME NEW h \in 0 .. Cap - 1, NEW k \in 1 .. Cap, NEW i \in 1 .. k - 1
  PROVE  Wrap(h + i) = Wrap(Wrap(h + 1) + i - 1)
BY CapFacts DEF Wrap

(* queue_front_pop() takes the oldest element.                             *)
LEMMA FrontPopTail ==
  ASSUME NEW q, Ring(q), q.size # 0
  PROVE  /\ Ring(queue_front_pop(q)) /\ queue_front_pop(q).size = q.size - 1
         /\ Elements(q) # <<>>
         /\ Elements(queue_front_pop(q)) = Tail(Elements(q))
<1>1. PICK h, k, t, a :
        /\ h = q.head /\ k = q.size /\ t = q.tail /\ a = q.array
        /\ h \in 0 .. Cap - 1 /\ k \in 1 .. Cap /\ a \in [0 .. Cap - 1 -> Cooks]
        /\ t \in -1 .. Cap
        /\ q = [head |-> h, tail |-> t, size |-> k, capacity |-> Cap, array |-> a]
  BY RingFields, CapFacts
<1>2. TurnsOf(h, t, k) /\ (t = Cap => Cap > 1)
  BY <1>1 DEF Ring, Turns, TurnsOf
<1>3. /\ Wrap(h + 1) \in 0 .. Cap - 1 /\ k - 1 \in 0 .. Cap
      /\ TurnsOf(Wrap(h + 1), t, k - 1)
      /\ Before(t) \in -1 .. Cap /\ (Before(t) = Cap => Cap > 1)
      /\ TurnsOf(h, Before(t), k - 1)
  BY <1>1, <1>2, PopIndices
<1>4. PICK r : r = queue_front_pop(q)
  OBVIOUS
<1>5. /\ r = [head |-> Wrap(h + 1), tail |-> t, size |-> k - 1, capacity |-> Cap,
              array |-> a]
      /\ r.head = Wrap(h + 1) /\ r.tail = t /\ r.size = k - 1 /\ r.capacity = Cap
      /\ r.array = a
  <2>1. q.capacity = Cap /\ q.head = h
    BY <1>1
  <2>2. Folded(q, h + 1) = Wrap(h + 1)
    BY <2>1 DEF Folded, Wrap
  <2>3. r = [q EXCEPT !.head = Wrap(h + 1), !.size = @ - 1]
    BY <1>4, <2>1, <2>2 DEF queue_front_pop
  <2>4. q = [head |-> h, tail |-> t, size |-> k, capacity |-> Cap, array |-> a]
    BY <1>1
  <2> QED BY <2>3, <2>4
<1>7. Ring(r)
  <2>2. Turns(r)
    BY <1>2, <1>3, <1>5 DEF Turns, TurnsOf
  <2> QED BY <2>2, <1>1, <1>3, <1>5 DEF Ring
<1>8. PICK s : s = Elements(q) /\ s \in Seq(Cooks) /\ Len(s) = k
               /\ \A i \in 1 .. k : s[i] = a[Wrap(h + i - 1)]
  BY <1>1, ElementsAt
<1>9. s # <<>> /\ Tail(s) \in Seq(Cooks) /\ Len(Tail(s)) = k - 1
      /\ \A i \in 1 .. k - 1 : Tail(s)[i] = s[i + 1]
  BY <1>1, <1>8, CapFacts
<1>10. \A i \in 1 .. k - 1 : Tail(s)[i] = r.array[Wrap(r.head + i - 1)]
  <2> TAKE i \in 1 .. k - 1
  <2>1. Tail(s)[i] = s[i + 1] /\ i + 1 \in 1 .. k /\ h + (i + 1) - 1 = h + i
    BY <1>1, <1>9, CapFacts
  <2>2. s[i + 1] = a[Wrap(h + i)]
    BY <2>1, <1>8
  <2>3. Wrap(h + i) = Wrap(Wrap(h + 1) + i - 1)
    BY <1>1, SlotsMove
  <2> QED BY <2>1, <2>2, <2>3, <1>5
<1>11. Elements(r) = Tail(s)
  BY <1>5, <1>7, <1>9, <1>10, ByElements, ZenonT(30)
<1> QED BY <1>1, <1>4, <1>5, <1>7, <1>8, <1>9, <1>11

(* queue_back_pop() takes the newest element, although it may leave the    *)
(* tail one past the last slot.                                            *)
LEMMA BackPopFront ==
  ASSUME NEW q, Ring(q), q.size # 0
  PROVE  /\ Ring(queue_back_pop(q))
         /\ Elements(q) # <<>>
         /\ Elements(queue_back_pop(q)) = SubSeq(Elements(q), 1, Len(Elements(q)) - 1)
<1>1. PICK h, k, t, a :
        /\ h = q.head /\ k = q.size /\ t = q.tail /\ a = q.array
        /\ h \in 0 .. Cap - 1 /\ k \in 1 .. Cap /\ a \in [0 .. Cap - 1 -> Cooks]
        /\ t \in -1 .. Cap
        /\ q = [head |-> h, tail |-> t, size |-> k, capacity |-> Cap, array |-> a]
  BY RingFields, CapFacts
<1>2. TurnsOf(h, t, k) /\ (t = Cap => Cap > 1)
  BY <1>1 DEF Ring, Turns, TurnsOf
<1>3. /\ Wrap(h + 1) \in 0 .. Cap - 1 /\ k - 1 \in 0 .. Cap
      /\ TurnsOf(Wrap(h + 1), t, k - 1)
      /\ Before(t) \in -1 .. Cap /\ (Before(t) = Cap => Cap > 1)
      /\ TurnsOf(h, Before(t), k - 1)
  BY <1>1, <1>2, PopIndices
<1>u. PICK u : u = Before(t)
  OBVIOUS
<1>4. PICK r : r = queue_back_pop(q)
  OBVIOUS
<1>5. /\ r = [head |-> h, tail |-> u, size |-> k - 1, capacity |-> Cap, array |-> a]
      /\ r.head = h /\ r.tail = u /\ r.size = k - 1 /\ r.capacity = Cap
      /\ r.array = a
  <2>1. q.capacity = Cap /\ q.tail = t
    BY <1>1
  <2>2. r = [q EXCEPT !.tail = Before(t), !.size = @ - 1]
    BY <1>4, <2>1 DEF queue_back_pop, Before
  <2>3. q = [head |-> h, tail |-> t, size |-> k, capacity |-> Cap, array |-> a]
    BY <1>1
  <2> QED BY <1>u, <2>2, <2>3
<1>7. Ring(r)
  <2>2. Turns(r)
    BY <1>3, <1>5, <1>u DEF Turns, TurnsOf
  <2> QED BY <2>2, <1>1, <1>3, <1>5, <1>u DEF Ring
<1>8. PICK s : s = Elements(q) /\ s \in Seq(Cooks) /\ Len(s) = k
               /\ \A i \in 1 .. k : s[i] = a[Wrap(h + i - 1)]
  BY <1>1, ElementsAt
<1>9. s # <<>> /\ SubSeq(s, 1, k - 1) \in Seq(Cooks) /\ Len(SubSeq(s, 1, k - 1)) = k - 1
      /\ \A i \in 1 .. k - 1 : SubSeq(s, 1, k - 1)[i] = s[i]
  BY <1>1, <1>8, CapFacts
<1>10. \A i \in 1 .. k - 1 : SubSeq(s, 1, k - 1)[i] = r.array[Wrap(r.head + i - 1)]
  <2> TAKE i \in 1 .. k - 1
  <2>1. i \in 1 .. k
    BY <1>1, CapFacts
  <2> QED BY <2>1, <1>5, <1>8, <1>9
<1>11. Elements(r) = SubSeq(s, 1, k - 1)
  BY <1>5, <1>7, <1>9, <1>10, ByElements, ZenonT(30)
<1> QED BY <1>1, <1>4, <1>7, <1>8, <1>9, <1>11

(* One character: copy_to_cooked() does to the ring what editing does to   *)
(* the line.                                                               *)
LEMMA CookedIsEdited ==
  ASSUME NEW q, Ring(q), NEW c \in Chars
  PROVE  /\ Ring(Cooked(q, c))
         /\ Elements(Cooked(q, c)) = Line!Edited(Elements(q), c)
<1>1. PICK l, k : /\ l = Elements(q) /\ l \in Seq(Cooks) /\ k = q.size
                  /\ Len(l) = k /\ k \in 0 .. Cap /\ q.capacity = Cap
  BY ElementsAt, RingFields
<1>2. CASE c = "TAB"
  <2>1. Cooked(q, c) = q /\ Line!Edited(l, c) = l
    BY <1>2 DEF Cooked, Line!Edited
  <2> QED BY <2>1, <1>1
<1>3. CASE c = "BACKSPACE"
  <2>1. CASE k = 0
    <3>1. Cooked(q, c) = q
      BY <1>1, <1>3, <2>1 DEF Cooked, queue_empty
    <3>2. l = <<>>
      BY <1>1, <2>1
    <3>3. Line!Edited(l, c) = l
      BY <1>3, <3>2 DEF Line!Edited
    <3> QED BY <3>1, <3>3, <1>1
  <2>2. CASE k # 0
    <3>1. Cooked(q, c) = queue_back_pop(q)
      BY <1>1, <1>3, <2>2 DEF Cooked, queue_empty
    <3>2. /\ Ring(queue_back_pop(q)) /\ l # <<>>
          /\ Elements(queue_back_pop(q)) = SubSeq(l, 1, Len(l) - 1)
      BY <1>1, <2>2, BackPopFront
    <3>3. Line!Edited(l, c) = SubSeq(l, 1, Len(l) - 1)
      BY <1>3, <3>2 DEF Line!Edited, Line!Front
    <3> QED BY <3>1, <3>2, <3>3, <1>1
  <2> QED BY <2>1, <2>2
<1>4. CASE c # "TAB" /\ c # "BACKSPACE"
  <2>1. PICK d \in Cooks : d = Converted(c) /\ d = (IF c = "CR" THEN "NL" ELSE c)
    BY DEF Converted, Cooks
  <2>2. Cooked(q, c) = queue_push(IF k = Cap THEN queue_front_pop(q) ELSE q, d)
    BY <1>1, <1>4, <2>1 DEF Cooked, queue_full
  <2>3. Line!Edited(l, c) = IF Len(Append(l, d)) > Cap THEN Tail(Append(l, d))
                            ELSE Append(l, d)
    BY <1>4, <2>1 DEF Line!Edited, Cap
  <2>4. CASE k = Cap
    <3>1. k # 0 /\ k - 1 < Cap /\ k \in Nat
      BY <1>1, <2>4, CapFacts
    <3>2. /\ Ring(queue_front_pop(q)) /\ queue_front_pop(q).size = k - 1
          /\ l # <<>> /\ Elements(queue_front_pop(q)) = Tail(l)
      BY <1>1, <3>1, FrontPopTail
    <3>3. /\ Ring(queue_push(queue_front_pop(q), d))
          /\ Elements(queue_push(queue_front_pop(q), d)) = Append(Tail(l), d)
      BY <3>1, <3>2, PushAppends
    <3>4. Len(Append(l, d)) = k + 1 /\ k + 1 > Cap
      BY <1>1, <2>4, <3>1
    <3>5. Tail(Append(l, d)) = Append(Tail(l), d)
      BY <1>1, <2>1, <3>2
    <3> QED BY <1>1, <2>2, <2>3, <2>4, <3>3, <3>4, <3>5
  <2>5. CASE k # Cap
    <3>1. k < Cap /\ k + 1 <= Cap
      BY <1>1, <2>5, CapFacts
    <3>2. Ring(queue_push(q, d)) /\ Elements(queue_push(q, d)) = Append(l, d)
      BY <1>1, <3>1, PushAppends
    <3>3. Len(Append(l, d)) = k + 1 /\ ~ (k + 1 > Cap)
      BY <1>1, <3>1, CapFacts
    <3> QED BY <1>1, <2>2, <2>3, <2>5, <3>2, <3>3
  <2> QED BY <2>4, <2>5
<1> QED BY <1>2, <1>3, <1>4
-----------------------------------------------------------------------------
(* The loops                                                               *)

(* The loop of copy_to_cooked() runs to its end: there is a state of the   *)
(* ring after each of its turns.                                           *)
LEMMA CookedLoop ==
  ASSUME NEW q, NEW s, Len(s) \in Nat
  PROVE  \E f : /\ f = [i \in 0 .. Len(s) |-> IF i = 0 THEN q ELSE Cooked(f[i - 1], s[i])]
                /\ CookedAll(q, s) = f[Len(s)]
<1> DEFINE Loop(f, m) == f = [i \in 0 .. m |-> IF i = 0 THEN q ELSE Cooked(f[i - 1], s[i])]
           S == {m \in Nat : \E f : Loop(f, m)}
<1>1. 0 \in S
  <2>1. Loop([i \in 0 .. 0 |-> q], 0)
    OBVIOUS
  <2> QED BY <2>1
<1>2. ASSUME NEW m \in S PROVE m + 1 \in S
  <2>1. PICK f : Loop(f, m)
    OBVIOUS
  <2>2. PICK g : g = [i \in 0 .. m + 1 |-> IF i <= m THEN f[i] ELSE Cooked(f[m], s[m + 1])]
    OBVIOUS
  <2>3. \A i \in 0 .. m : g[i] = f[i]
    BY <2>2
  <2>4. ASSUME NEW i \in 0 .. m + 1
        PROVE  g[i] = IF i = 0 THEN q ELSE Cooked(g[i - 1], s[i])
    <3>1. CASE i = m + 1
      <4>1. i # 0 /\ i - 1 = m /\ m \in 0 .. m /\ ~ (i <= m)
        BY <3>1
      <4>2. g[i] = Cooked(f[m], s[m + 1])
        BY <2>2, <4>1
      <4> QED BY <2>3, <3>1, <4>1, <4>2
    <3>2. CASE i \in 0 .. m
      <4>1. g[i] = f[i]
        BY <2>3, <3>2
      <4>2. f[i] = IF i = 0 THEN q ELSE Cooked(f[i - 1], s[i])
        BY <2>1, <3>2
      <4>3. i # 0 => g[i - 1] = f[i - 1]
        <5>1. i # 0 => i - 1 \in 0 .. m
          BY <3>2
        <5> QED BY <5>1, <2>3
      <4> QED BY <4>1, <4>2, <4>3
    <3> QED BY <3>1, <3>2
  <2>5. Loop(g, m + 1)
    BY <2>2, <2>4
  <2> HIDE DEF Loop
  <2>6. m + 1 \in Nat /\ \E h : Loop(h, m + 1)
    BY <2>5
  <2> QED BY <2>6
<1>3. S = Nat
  <2>1. S \in SUBSET Nat
    OBVIOUS
  <2> HIDE DEF S
  <2> QED BY <1>1, <1>2, <2>1, Induction
<1>4. \E f : Loop(f, Len(s))
  BY <1>3
<1>5. PICK f : f = CHOOSE g : Loop(g, Len(s))
  OBVIOUS
<1>6. Loop(f, Len(s))
  BY <1>4, <1>5
<1>7. CookedAll(q, s) = f[Len(s)]
  BY <1>5 DEF CookedAll
<1> QED BY <1>6, <1>7

(* The whole loop does to the ring what editing does to the line.          *)
LEMMA CookedAllIsEdited ==
  ASSUME NEW q, Ring(q), NEW s \in Seq(Chars)
  PROVE  /\ Ring(CookedAll(q, s))
         /\ Elements(CookedAll(q, s)) = Line!EditedAll(Elements(q), s)
<1> DEFINE Edits(g) == g = [i \in 0 .. Len(s) |-> IF i = 0 THEN Elements(q)
                                                  ELSE Line!Edited(g[i - 1], s[i])]
<1>0. Len(s) \in Nat /\ \A i \in 1 .. Len(s) : s[i] \in Chars
  OBVIOUS
<1>1. PICK f : /\ f = [i \in 0 .. Len(s) |-> IF i = 0 THEN q ELSE Cooked(f[i - 1], s[i])]
               /\ CookedAll(q, s) = f[Len(s)]
  BY <1>0, CookedLoop
<1>2. /\ f[0] = q
      /\ \A i \in 1 .. Len(s) : f[i] = Cooked(f[i - 1], s[i]) /\ i - 1 \in 0 .. Len(s)
  <2>1. \A i \in 0 .. Len(s) : f[i] = IF i = 0 THEN q ELSE Cooked(f[i - 1], s[i])
    BY <1>1
  <2>2. 0 \in 0 .. Len(s) /\ \A i \in 1 .. Len(s) : i \in 0 .. Len(s) /\ i # 0 /\ i - 1 \in 0 .. Len(s)
    BY <1>0
  <2> QED BY <2>1, <2>2
<1>3. \A i \in 0 .. Len(s) : Ring(f[i])
  <2> DEFINE S == {i \in Nat : i <= Len(s) => Ring(f[i])}
  <2>1. 0 \in S
    BY <1>2
  <2>2. ASSUME NEW i \in S PROVE i + 1 \in S
    <3>1. CASE i + 1 <= Len(s)
      <4>1. i + 1 \in 1 .. Len(s) /\ (i + 1) - 1 = i /\ i <= Len(s)
        BY <3>1, <1>0
      <4>2. f[i + 1] = Cooked(f[i], s[i + 1]) /\ s[i + 1] \in Chars /\ Ring(f[i])
        BY <4>1, <1>0, <1>2
      <4>3. Ring(f[i + 1])
        BY <4>2, CookedIsEdited
      <4> QED BY <4>3
    <3>2. CASE ~ (i + 1 <= Len(s))
      BY <3>2
    <3> QED BY <3>1, <3>2
  <2>3. S \in SUBSET Nat
    OBVIOUS
  <2>4. S = Nat
    <3> HIDE DEF S
    <3> QED BY <2>1, <2>2, <2>3, Induction
  <2> QED BY <2>4, <1>0
<1>4. PICK g : g = [i \in 0 .. Len(s) |-> Elements(f[i])]
  OBVIOUS
<1>5. Edits(g)
  <2>1. ASSUME NEW i \in 0 .. Len(s)
        PROVE  Elements(f[i]) = IF i = 0 THEN Elements(q) ELSE Line!Edited(g[i - 1], s[i])
    <3>1. CASE i = 0
      BY <3>1, <1>2
    <3>2. CASE i # 0
      <4>1. i \in 1 .. Len(s)
        BY <3>2, <1>0
      <4>2. /\ f[i] = Cooked(f[i - 1], s[i]) /\ Ring(f[i - 1]) /\ s[i] \in Chars
            /\ g[i - 1] = Elements(f[i - 1])
        BY <4>1, <1>0, <1>2, <1>3, <1>4
      <4> QED BY <4>2, <3>2, CookedIsEdited
    <3> QED BY <3>1, <3>2
  <2> QED BY <2>1, <1>4
<1>6. PICK e : e = CHOOSE g2 : Edits(g2)
  OBVIOUS
<1>7. Edits(e)
  BY <1>5, <1>6
<1>8. Line!EditedAll(Elements(q), s) = e[Len(s)]
  BY <1>6 DEF Line!EditedAll
<1>9. \A i \in 0 .. Len(s) : e[i] = g[i]
  <2>1. e[0] = g[0] /\ \A i \in 1 .. Len(s) : /\ e[i] = Line!Edited(e[i - 1], s[i])
                                              /\ g[i] = Line!Edited(g[i - 1], s[i])
    <3>1. \A i \in 0 .. Len(s) :
            /\ e[i] = IF i = 0 THEN Elements(q) ELSE Line!Edited(e[i - 1], s[i])
            /\ g[i] = IF i = 0 THEN Elements(q) ELSE Line!Edited(g[i - 1], s[i])
      BY <1>5, <1>7
    <3>2. 0 \in 0 .. Len(s) /\ \A i \in 1 .. Len(s) : i \in 0 .. Len(s) /\ i # 0
      BY <1>0
    <3> QED BY <3>1, <3>2
  <2> DEFINE S == {i \in Nat : i <= Len(s) => e[i] = g[i]}
  <2>2. 0 \in S
    BY <2>1
  <2>3. ASSUME NEW i \in S PROVE i + 1 \in S
    <3>1. CASE i + 1 <= Len(s)
      <4>1. i + 1 \in 1 .. Len(s) /\ (i + 1) - 1 = i /\ i <= Len(s)
        BY <3>1, <1>0
      <4>2. e[i] = g[i]
        BY <4>1
      <4>3. /\ e[i + 1] = Line!Edited(e[(i + 1) - 1], s[i + 1])
            /\ g[i + 1] = Line!Edited(g[(i + 1) - 1], s[i + 1])
        BY <4>1, <2>1
      <4>4. e[i + 1] = g[i + 1]
        BY <4>1, <4>2, <4>3
      <4> QED BY <4>4
    <3>2. CASE ~ (i + 1 <= Len(s))
      BY <3>2
    <3> QED BY <3>1, <3>2
  <2>4. S \in SUBSET Nat
    OBVIOUS
  <2>5. S = Nat
    <3> HIDE DEF S
    <3> QED BY <2>2, <2>3, <2>4, Induction
  <2> QED BY <2>5, <1>0
<1>10. Len(s) \in 0 .. Len(s)
  BY <1>0
<1>11. Ring(f[Len(s)])
  BY <1>3, <1>10
<1>12. e[Len(s)] = Elements(f[Len(s)])
  BY <1>4, <1>9, <1>10
<1> HIDE DEF Edits
<1> QED BY <1>1, <1>8, <1>11, <1>12

(* The loop of tty_read() runs to its end, too.                            *)
LEMMA PopLoop ==
  ASSUME NEW q, NEW k \in Nat
  PROVE  \E f : /\ f = [i \in 0 .. k |-> IF i = 0 THEN q ELSE queue_front_pop(f[i - 1])]
                /\ PopFront(q, k) = f[k]
<1> DEFINE Loop(f, m) == f = [i \in 0 .. m |-> IF i = 0 THEN q ELSE queue_front_pop(f[i - 1])]
           S == {m \in Nat : \E f : Loop(f, m)}
<1>1. 0 \in S
  <2>1. Loop([i \in 0 .. 0 |-> q], 0)
    OBVIOUS
  <2> QED BY <2>1
<1>2. ASSUME NEW m \in S PROVE m + 1 \in S
  <2>1. PICK f : Loop(f, m)
    OBVIOUS
  <2>2. PICK g : g = [i \in 0 .. m + 1 |-> IF i <= m THEN f[i] ELSE queue_front_pop(f[m])]
    OBVIOUS
  <2>3. \A i \in 0 .. m : g[i] = f[i]
    BY <2>2
  <2>4. ASSUME NEW i \in 0 .. m + 1
        PROVE  g[i] = IF i = 0 THEN q ELSE queue_front_pop(g[i - 1])
    <3>1. CASE i = m + 1
      <4>1. i # 0 /\ i - 1 = m /\ m \in 0 .. m /\ ~ (i <= m)
        BY <3>1
      <4>2. g[i] = queue_front_pop(f[m])
        BY <2>2, <4>1
      <4> QED BY <2>3, <3>1, <4>1, <4>2
    <3>2. CASE i \in 0 .. m
      <4>1. g[i] = f[i]
        BY <2>3, <3>2
      <4>2. f[i] = IF i = 0 THEN q ELSE queue_front_pop(f[i - 1])
        BY <2>1, <3>2
      <4>3. i # 0 => g[i - 1] = f[i - 1]
        <5>1. i # 0 => i - 1 \in 0 .. m
          BY <3>2
        <5> QED BY <5>1, <2>3
      <4> QED BY <4>1, <4>2, <4>3
    <3> QED BY <3>1, <3>2
  <2>5. Loop(g, m + 1)
    BY <2>2, <2>4
  <2> HIDE DEF Loop
  <2>6. m + 1 \in Nat /\ \E h : Loop(h, m + 1)
    BY <2>5
  <2> QED BY <2>6
<1>3. S = Nat
  <2>1. S \in SUBSET Nat
    OBVIOUS
  <2> HIDE DEF S
  <2> QED BY <1>1, <1>2, <2>1, Induction
<1>4. \E f : Loop(f, k)
  BY <1>3
<1>5. PICK f : f = CHOOSE g : Loop(g, k)
  OBVIOUS
<1>6. Loop(f, k)
  BY <1>4, <1>5
<1>7. PopFront(q, k) = f[k]
  BY <1>5 DEF PopFront
<1> QED BY <1>6, <1>7

(* Taking one more from the front of what is left.                         *)
LEMMA TailOfRest ==
  ASSUME NEW T, NEW l \in Seq(T), NEW i \in Nat, i < Len(l)
  PROVE  Tail(SubSeq(l, i + 1, Len(l))) = SubSeq(l, i + 2, Len(l))
<1>1. PICK r : r = SubSeq(l, i + 1, Len(l))
  OBVIOUS
<1>2. /\ r \in Seq(T) /\ Len(r) = Len(l) - i /\ Len(r) > 0
      /\ \A j \in 1 .. Len(l) - i : r[j] = l[i + j]
  BY <1>1
<1>3. Len(Tail(r)) = Len(l) - i - 1 /\ \A j \in 1 .. Len(l) - i - 1 : Tail(r)[j] = r[j + 1]
  BY <1>2
<1>4. PICK u : u = SubSeq(l, i + 2, Len(l))
  OBVIOUS
<1>5. /\ u \in Seq(T) /\ Len(u) = Len(l) - i - 1
      /\ \A j \in 1 .. Len(l) - i - 1 : u[j] = l[i + 1 + j]
  BY <1>4
<1>6. Tail(r) \in Seq(T)
  BY <1>2
<1>7. \A j \in 1 .. Len(l) - i - 1 : Tail(r)[j] = u[j]
  BY <1>2, <1>3, <1>5
<1>8. Tail(r) = u
  <2>1. /\ Tail(r) = [j \in 1 .. Len(l) - i - 1 |-> Tail(r)[j]]
        /\ u = [j \in 1 .. Len(l) - i - 1 |-> u[j]]
    <3>1. ASSUME NEW v, v \in Seq(T) PROVE v = [j \in 1 .. Len(v) |-> v[j]]
      BY <3>1
    <3>2. PICK v : v = Tail(r)
      OBVIOUS
    <3>3. v = [j \in 1 .. Len(v) |-> v[j]] /\ Len(v) = Len(l) - i - 1
      BY <1>3, <1>6, <3>1, <3>2
    <3>4. u = [j \in 1 .. Len(u) |-> u[j]]
      BY <1>5, <3>1
    <3> QED BY <1>5, <3>2, <3>3, <3>4
  <2> QED BY <1>7, <2>1
<1> QED BY <1>1, <1>4, <1>8

(* The loop of tty_read() takes k elements, the oldest.                    *)
LEMMA PopFrontRest ==
  ASSUME NEW q, Ring(q), NEW k \in 0 .. q.size
  PROVE  /\ Ring(PopFront(q, k)) /\ PopFront(q, k).size = q.size - k
         /\ Elements(PopFront(q, k)) = SubSeq(Elements(q), k + 1, q.size)
<1>1. PICK l, m : /\ l = Elements(q) /\ m = q.size
                  /\ l \in Seq(Cooks) /\ Len(l) = m /\ m \in Nat /\ k \in 0 .. m
  BY ElementsAt, RingFields, CapFacts
<1>2. PICK f : /\ f = [i \in 0 .. k |-> IF i = 0 THEN q ELSE queue_front_pop(f[i - 1])]
               /\ PopFront(q, k) = f[k]
  <2>1. k \in Nat
    BY <1>1
  <2> HIDE <1>1
  <2> QED BY <2>1, PopLoop, Zenon
<1>3. f[0] = q /\ \A i \in 0 .. k - 1 : f[i + 1] = queue_front_pop(f[i])
  <2>1. \A i \in 0 .. k : f[i] = IF i = 0 THEN q ELSE queue_front_pop(f[i - 1])
    BY <1>2
  <2>2. 0 \in 0 .. k /\ \A i \in 0 .. k - 1 : i + 1 \in 0 .. k /\ i + 1 # 0 /\ (i + 1) - 1 = i
    BY <1>1
  <2> QED BY <2>1, <2>2
<1> DEFINE Left(i) == Ring(f[i]) /\ f[i].size = m - i /\ Elements(f[i]) = SubSeq(l, i + 1, m)
           S == {i \in Nat : i <= k => Left(i)}
<1>4. 0 \in S
  <2>1. SubSeq(l, 1, m) = l
    BY <1>1
  <2> QED BY <1>1, <1>3, <2>1
<1>5. ASSUME NEW i \in S PROVE i + 1 \in S
  <2>1. CASE i + 1 <= k
    <3>1. Left(i) /\ i \in 0 .. k - 1 /\ i < m
      BY <1>1, <2>1
    <3>2. f[i + 1] = queue_front_pop(f[i]) /\ f[i].size # 0
      BY <1>1, <1>3, <3>1
    <3>3. /\ Ring(f[i + 1]) /\ f[i + 1].size = (m - i) - 1
          /\ Elements(f[i + 1]) = Tail(SubSeq(l, i + 1, m))
      BY <3>1, <3>2, FrontPopTail
    <3>4. Tail(SubSeq(l, i + 1, m)) = SubSeq(l, i + 2, m)
      BY <1>1, <3>1, TailOfRest
    <3>5. (m - i) - 1 = m - (i + 1) /\ (i + 1) + 1 = i + 2
      BY <1>1, <3>1
    <3>6. Left(i + 1)
      BY <3>3, <3>4, <3>5
    <3> HIDE DEF Left
    <3> QED BY <3>6
  <2>2. CASE ~ (i + 1 <= k)
    <3> HIDE DEF Left
    <3> QED BY <2>2
  <2> QED BY <2>1, <2>2
<1>6. S = Nat
  <2>1. S \in SUBSET Nat
    OBVIOUS
  <2> HIDE DEF S
  <2> QED BY <1>4, <1>5, <2>1, Induction
<1>7. Left(k)
  BY <1>1, <1>6, SMTT(30)
<1> QED BY <1>1, <1>2, <1>7
-----------------------------------------------------------------------------
(* The invariant: the ring is well formed, the characters are characters,  *)
(* and what has arrived waits for the tty's handler.                       *)
TtyInv ==
    /\ Ring(secondary_q)
    /\ rx \in Seq(Chars) /\ (~ uart_done => rx = <<>>)
    /\ uart_done \in BOOLEAN /\ ended \in BOOLEAN
    /\ nread \in [Readers -> Nat] /\ cnt \in [Readers -> Nat]
    /\ SleepersMissNoLine

(* The handler of the line puts a burst where nothing was.                 *)
LEMMA BurstArrives ==
  ASSUME TtyInv, do_uart_interrupt
  PROVE  rx = <<>> /\ rx' \in Seq(Chars) /\ rx' \in SeqOf(Chars, MaxBurst)
<1>1. rx = <<>>
  BY DEF TtyInv, do_uart_interrupt
<1>2. PICK b \in SeqOf(Chars, MaxBurst) :
        LET all == rx \o b
            over == IF Len(all) > UART_BUF_SIZE THEN Len(all) - UART_BUF_SIZE ELSE 0
        IN  rx' = SubSeq(all, over + 1, Len(all))
  BY DEF do_uart_interrupt
<1>3. PICK m \in 0 .. MaxBurst : b \in [1 .. m -> Chars]
  BY DEF SeqOf
<1>4. m \in Nat /\ m <= MaxBurst /\ MaxBurst \in Nat /\ UART_BUF_SIZE \in Nat
  BY TtyAssumption
<1>5. b \in Seq(Chars) /\ Len(b) = m /\ rx \o b = b
  BY <1>1, <1>3, <1>4
<1>6. PICK o : o = IF m > UART_BUF_SIZE THEN m - UART_BUF_SIZE ELSE 0
  OBVIOUS
<1>7. o \in 0 .. m
  BY <1>4, <1>6
<1>8. rx' = SubSeq(b, o + 1, m)
  BY <1>2, <1>5, <1>6
<1>9. rx' \in Seq(Chars) /\ Len(rx') = m - o /\ m - o \in 0 .. MaxBurst
  BY <1>4, <1>5, <1>7, <1>8
<1>10. rx' \in [1 .. m - o -> Chars]
  BY <1>9
<1> QED BY <1>1, <1>9, <1>10 DEF SeqOf

(* What a read takes: k characters from the front, no end of a line among  *)
(* the first k - 1.                                                        *)
LEMMA ReadTakes ==
  ASSUME TtyInv, NEW p \in Readers, ReadStep(p)
  PROVE  \E k \in 0 .. secondary_q.size :
           /\ \A i \in 1 .. k - 1 : Elements(secondary_q)[i] \notin LineEnds
           /\ secondary_q' = PopFront(secondary_q, k)
           /\ ReadReturns(p) => k >= 1
<1>1. Ring(secondary_q) /\ secondary_q.size \in Nat
  BY RingFields, CapFacts DEF TtyInv
<1>2. \A i \in 1 .. secondary_q.size : i \notin Ends(p) => Elements(secondary_q)[i] \notin LineEnds
  BY DEF Ends
<1>3. CASE ReadReturns(p)
  <2>1. Ends(p) # {} /\ Ends(p) \in SUBSET Nat /\ Ends(p) \subseteq 1 .. secondary_q.size
    BY <1>1, <1>3 DEF ReadReturns, Ends
  <2>2. PICK k : k = Min(Ends(p))
    OBVIOUS
  <2>3. k \in Ends(p) /\ \A i \in Ends(p) : k <= i
    BY <2>1, <2>2, LeastExists
  <2>4. k \in 1 .. secondary_q.size /\ \A i \in 1 .. k - 1 : i \notin Ends(p)
    BY <1>1, <2>1, <2>3
  <2>5. \A i \in 1 .. k - 1 : i \in 1 .. secondary_q.size
    BY <1>1, <2>4
  <2>6. secondary_q' = PopFront(secondary_q, k)
    BY <1>3, <2>2 DEF ReadReturns
  <2>7. k \in 0 .. secondary_q.size /\ k >= 1
    BY <1>1, <2>4
  <2> QED BY <1>2, <2>4, <2>5, <2>6, <2>7
<1>4. CASE ReadSleeps(p)
  <2>1. Ends(p) = {} /\ secondary_q' = PopFront(secondary_q, secondary_q.size)
    BY <1>4 DEF ReadSleeps
  <2>2. ~ ReadReturns(p)
    BY <2>1 DEF ReadReturns
  <2>3. secondary_q.size \in 0 .. secondary_q.size
        /\ \A i \in 1 .. secondary_q.size - 1 : i \in 1 .. secondary_q.size
    BY <1>1
  <2> QED BY <1>2, <2>1, <2>2, <2>3
<1> QED BY <1>3, <1>4 DEF ReadStep

(* The initial state.                                                      *)
LEMMA InitTty == TtyInit => TtyInv /\ Elements(secondary_q) = <<>>
<1> SUFFICES ASSUME TtyInit PROVE TtyInv /\ Elements(secondary_q) = <<>>
  OBVIOUS
<1>1. PICK a : a = [i \in 0 .. Cap - 1 |-> "NL"]
  OBVIOUS
<1>2. /\ secondary_q = [head |-> 0, tail |-> 0 - 1, size |-> 0, capacity |-> Cap, array |-> a]
      /\ a \in [0 .. Cap - 1 -> Cooks]
  BY <1>1 DEF TtyInit, queue_init, Cap, Cooks
<1>3. 0 \in 0 .. Cap - 1 /\ 0 \in 0 .. Cap /\ 0 - 1 \in -1 .. Cap /\ 0 - 1 + 1 = 0 + 0 /\ 0 - 1 # Cap
  BY CapFacts
<1>4. Ring(secondary_q)
  BY <1>2, <1>3 DEF Ring, Turns
<1>5. secondary_q.size = 0
  BY <1>2
<1>6. Elements(secondary_q) = <<>>
  BY <1>5 DEF Elements
<1>7. rx \in Seq(Chars) /\ nread \in [Readers -> Nat] /\ cnt \in [Readers -> Nat]
  BY DEF TtyInit
<1>8. uart_done \in BOOLEAN /\ ended \in BOOLEAN /\ rx = <<>> /\ SleepersMissNoLine
  BY DEF TtyInit, SleepersMissNoLine
<1> QED BY <1>4, <1>6, <1>7, <1>8 DEF TtyInv

(* Every step preserves the invariant.                                     *)
LEMMA TtyStep == TtyInv /\ [TtyNext]_ttyVars => TtyInv'
<1> SUFFICES ASSUME TtyInv, [TtyNext]_ttyVars PROVE TtyInv'
  OBVIOUS
<1>1. CASE do_uart_interrupt
  <2>1. rx' \in Seq(Chars) /\ uart_done'
    BY <1>1, BurstArrives DEF do_uart_interrupt
  <2>2. UNCHANGED <<secondary_q, tty_wait_list, ended, nread, cnt>> /\ uart_done' = TRUE
    BY <1>1 DEF do_uart_interrupt, readVars
  <2> QED BY <2>1, <2>2 DEF TtyInv, SleepersMissNoLine, queue_empty
<1>2. CASE copy_to_cooked
  <2>1. Ring(secondary_q)'
    <3>1. Ring(CookedAll(secondary_q, rx))
      BY CookedAllIsEdited DEF TtyInv
    <3>2. secondary_q' = CookedAll(secondary_q, rx)
      BY <1>2 DEF copy_to_cooked
    <3> QED BY <3>1, <3>2
  <2>2. /\ rx' = <<>> /\ uart_done' = FALSE /\ UNCHANGED <<nread, cnt>>
        /\ ended' = (rx # <<>> /\ Converted(Last(rx)) \in LineEnds)
        /\ tty_wait_list' = IF LastSeen \in LineEnds THEN {} ELSE tty_wait_list
    BY <1>2 DEF copy_to_cooked, readVars
  <2>3. ended' => tty_wait_list' = {}
    BY <2>2 DEF LastSeen
  <2>4. ended' \in BOOLEAN
    BY <2>2
  <2>5. SleepersMissNoLine'
    BY <2>3 DEF SleepersMissNoLine
  <2>6. rx' \in Seq(Chars) /\ nread' \in [Readers -> Nat] /\ cnt' \in [Readers -> Nat]
    BY <2>2 DEF TtyInv
  <2> QED BY <2>1, <2>2, <2>4, <2>5, <2>6 DEF TtyInv
<1>3. ASSUME NEW p \in Readers, ReadCall(p) PROVE TtyInv'
  <2>1. UNCHANGED <<rx, secondary_q, tty_wait_list, ended, uart_done, nread>>
    BY <1>3 DEF ReadCall
  <2>2. PICK c \in 1 .. MaxCnt : cnt' = [cnt EXCEPT ![p] = c]
    BY <1>3 DEF ReadCall
  <2>3. cnt' \in [Readers -> Nat]
    BY <2>2, TtyAssumption DEF TtyInv
  <2> QED BY <2>1, <2>3 DEF TtyInv, SleepersMissNoLine, queue_empty
<1>4. ASSUME NEW p \in Readers, ReadStep(p) PROVE TtyInv'
  <2>1. PICK k \in 0 .. secondary_q.size : /\ secondary_q' = PopFront(secondary_q, k)
                                           /\ ReadReturns(p) => k >= 1
    BY <1>4, ReadTakes
  <2>2. Ring(secondary_q)' /\ secondary_q'.size = secondary_q.size - k
    BY <2>1, PopFrontRest DEF TtyInv
  <2>3. secondary_q.size \in Nat
    BY RingFields, CapFacts DEF TtyInv
  <2>4. CASE ReadReturns(p)
    <3>1. UNCHANGED <<rx, tty_wait_list, ended, uart_done>>
          /\ nread' = [nread EXCEPT ![p] = 0] /\ cnt' = [cnt EXCEPT ![p] = 1]
      BY <2>4 DEF ReadReturns, Return
    <3>2. nread' \in [Readers -> Nat] /\ cnt' \in [Readers -> Nat]
      BY <3>1 DEF TtyInv
    <3>3. secondary_q.size # 0
      BY <2>1, <2>3, <2>4
    <3>4. ~ (tty_wait_list # {} /\ ended)
      BY <3>3 DEF TtyInv, SleepersMissNoLine, queue_empty
    <3> QED BY <2>2, <3>1, <3>2, <3>4 DEF TtyInv, SleepersMissNoLine
  <2>5. CASE ReadSleeps(p)
    <3>1. /\ UNCHANGED <<rx, ended, uart_done, cnt>>
          /\ nread' = [nread EXCEPT ![p] = nread[p] + secondary_q.size]
          /\ secondary_q' = PopFront(secondary_q, secondary_q.size)
      BY <2>5 DEF ReadSleeps
    <3>2. nread' \in [Readers -> Nat]
      BY <2>3, <3>1 DEF TtyInv
    <3>3. secondary_q'.size = 0
      <4>1. secondary_q.size \in 0 .. secondary_q.size
        BY <2>3
      <4>2. secondary_q'.size = secondary_q.size - secondary_q.size
        BY <3>1, <4>1, PopFrontRest DEF TtyInv
      <4> QED BY <4>2, <2>3
    <3> QED BY <2>2, <3>1, <3>2, <3>3 DEF TtyInv, SleepersMissNoLine, queue_empty
  <2> QED BY <1>4, <2>4, <2>5 DEF ReadStep
<1>5. CASE UNCHANGED ttyVars
  BY <1>5 DEF ttyVars, TtyInv, SleepersMissNoLine, queue_empty
<1> QED BY <1>1, <1>2, <1>3, <1>4, <1>5 DEF TtyNext

(* In every state of the terminal the ring is well formed: the indices of  *)
(* queue.c are in range, and agree with the number of its characters.      *)
THEOREM RingStaysSound == TtySpec => []Ring(secondary_q)
<1>1. TtyInit => TtyInv
  BY InitTty
<1>2. TtyInv => Ring(secondary_q)
  BY DEF TtyInv
<1> QED BY <1>1, <1>2, TtyStep, PTL DEF TtySpec

(* The wake-up of copy_to_cooked(): nobody sleeps on a whole line that was *)
(* the end of the last burst.                                              *)
THEOREM NoSleeperMissesALine == TtySpec => []SleepersMissNoLine
<1>1. TtyInit => TtyInv
  BY InitTty
<1>2. TtyInv => SleepersMissNoLine
  BY DEF TtyInv
<1> QED BY <1>1, <1>2, TtyStep, PTL DEF TtySpec
-----------------------------------------------------------------------------
(* The terminal and the line                                               *)

(* Every step of the terminal is one of the line, or leaves it alone.      *)
LEMMA StepOfLine ==
  ASSUME TtyInv, [TtyNext]_ttyVars
  PROVE  [Line!Type \/ Line!Edit \/ Line!Read]_<<rx, Elements(secondary_q)>>
<1>0. \A q : q = secondary_q' => Elements(secondary_q)' = Elements(q)
  BY DEF Elements
<1>1. ASSUME do_uart_interrupt PROVE Line!Type
  <2>1. rx = <<>> /\ rx' \in SeqOf(Chars, MaxBurst)
    BY <1>1, BurstArrives
  <2>2. secondary_q' = secondary_q
    BY <1>1 DEF do_uart_interrupt
  <2>3. Elements(secondary_q)' = Elements(secondary_q)
    BY <1>0, <2>2
  <2>4. rx' \in Line!SeqOf(Chars, MaxBurst)
    BY <2>1 DEF SeqOf, Line!SeqOf
  <2> QED BY <2>1, <2>3, <2>4 DEF Line!Type
<1>2. ASSUME copy_to_cooked PROVE Line!Edit
  <2>1. secondary_q' = CookedAll(secondary_q, rx) /\ rx' = <<>>
    BY <1>2 DEF copy_to_cooked
  <2>2. Elements(CookedAll(secondary_q, rx)) = Line!EditedAll(Elements(secondary_q), rx)
    BY CookedAllIsEdited DEF TtyInv
  <2>3. Elements(secondary_q)' = Line!EditedAll(Elements(secondary_q), rx)
    BY <1>0, <2>1, <2>2
  <2> QED BY <2>1, <2>3 DEF Line!Edit
<1>3. ASSUME NEW p \in Readers, ReadCall(p)
      PROVE  UNCHANGED <<rx, Elements(secondary_q)>>
  <2>1. UNCHANGED <<rx, secondary_q>>
    BY <1>3 DEF ReadCall
  <2> QED BY <1>0, <2>1
<1>4. ASSUME NEW p \in Readers, ReadStep(p) PROVE Line!Read
  <2>1. PICK k \in 0 .. secondary_q.size :
               /\ \A i \in 1 .. k - 1 : Elements(secondary_q)[i] \notin LineEnds
               /\ secondary_q' = PopFront(secondary_q, k)
    BY <1>4, ReadTakes
  <2>2. Elements(PopFront(secondary_q, k))
          = SubSeq(Elements(secondary_q), k + 1, secondary_q.size)
    BY PopFrontRest DEF TtyInv
  <2>3. Len(Elements(secondary_q)) = secondary_q.size
    BY ElementsAt DEF TtyInv
  <2>4. Elements(secondary_q)' = SubSeq(Elements(secondary_q), k + 1, Len(Elements(secondary_q)))
    BY <1>0, <2>1, <2>2, <2>3
  <2>5. rx' = rx
    BY <1>4 DEF ReadStep, ReadReturns, ReadSleeps
  <2> QED BY <2>1, <2>3, <2>4, <2>5 DEF Line!Read, Line!LineEnds, LineEnds
<1>5. ASSUME UNCHANGED ttyVars
      PROVE  UNCHANGED <<rx, Elements(secondary_q)>>
  <2>1. UNCHANGED <<rx, secondary_q>>
    BY <1>5 DEF ttyVars
  <2> QED BY <1>0, <2>1
<1>6. ASSUME TtyNext
      PROVE  Line!Type \/ Line!Edit \/ Line!Read \/ UNCHANGED <<rx, Elements(secondary_q)>>
  BY <1>1, <1>2, <1>3, <1>4, <1>6 DEF TtyNext
<1> QED BY <1>5, <1>6

(* The terminal is the line that was typed: queue.c and tty.c, with the    *)
(* ring wrapping, overflowing and being erased from its tail, implement    *)
(* the editing of a sequence, for every size, burst and set of readers.    *)
THEOREM TerminalImplementsLine == TtySpec => ImplementsLine
<1>1. TtyInit => TtyInv /\ Line!Init
  BY InitTty DEF Line!Init, TtyInit
<1>2. TtyInv /\ [TtyNext]_ttyVars
        => [Line!Type \/ Line!Edit \/ Line!Read]_<<rx, Elements(secondary_q)>>
  BY StepOfLine
<1> QED BY <1>1, <1>2, TtyStep, PTL DEF TtySpec, ImplementsLine, Line!Spec
-----------------------------------------------------------------------------
(* The disk driver                                                         *)

Idx == 0 .. IndexSpan - 1

(* How many entries lie between two ring indices, where the n-th is, and   *)
(* what they hold.                                                         *)
Dist(i, j) == IF i <= j THEN j - i ELSE j - i + IndexSpan
Nth(i, n) == IF i + n < IndexSpan THEN i + n ELSE i + n - IndexSpan
Window(r, i, j) == {r[Nth(i, n) % NUM] : n \in 0 .. Dist(i, j) - 1}
OnceIn(r, i, j) == \A m, n \in 0 .. Dist(i, j) - 1 :
                      m # n => r[Nth(i, m) % NUM] # r[Nth(i, n) % NUM]

Types ==
    /\ free \subseteq Descs
    /\ desc \in [Descs -> [addr : Descs \cup Procs \cup {Nil}, next : Descs \cup {Nil}]]
    /\ ops \in [Descs -> [write : BOOLEAN, blk : Nat]]
    /\ info \in [Descs -> [buf : Procs \cup {Nil}, status : {0, 255}]]
    /\ avail \in [Descs -> Descs] /\ used \in [Descs -> Descs]
    /\ avail_index \in Idx /\ used_idx \in Idx /\ used_index \in Idx /\ seen \in Idx
    /\ wait_list \subseteq Procs /\ asleep \subseteq Procs /\ working \subseteq Descs
    /\ b_disk \in [Procs -> BOOLEAN]
    /\ pc \in [Procs -> {"idle", "alloc", "busy"}]
    /\ req \in [Procs -> [write : BOOLEAN, blk : Nat]]
    /\ head \in [Procs -> Descs \cup {Nil}]
    /\ irq \in BOOLEAN /\ pending \in BOOLEAN

(* The three descriptors of a request, as virtio_disk_rw() formats them.   *)
Formatted(p) ==
    LET h == head[p] i == desc[h].next j == desc[i].next IN
    /\ {h, i, j} \subseteq Descs /\ h # i /\ h # j /\ i # j
    /\ desc[i].addr = p /\ desc[j].addr = h
    /\ info[h].buf = p /\ ops[h] = req[p]

ChainInv ==
    /\ \A p \in InFlight : Formatted(p)
    /\ \A p, q \in InFlight : p # q => Chain(head[p]) \cap Chain(head[q]) = {}
    /\ Descs \ free = UNION {Chain(head[p]) : p \in InFlight}

(* Who sleeps, and on what.                                                *)
SleepInv == \A p \in Procs :
    /\ p \in asleep <=> b_disk[p]
    /\ p \in asleep => pc[p] = "busy"
    /\ pc[p] = "busy" /\ p \notin asleep => info[head[p]].status = 0
    /\ p \in wait_list => pc[p] = "alloc"

(* h is the request of a process that sleeps until it has ended.           *)
Waiting(h, st) == \E p \in asleep : head[p] = h /\ info[h].status = st

Announced == Window(avail, seen, avail_index)
Ended     == Window(used, used_index, used_idx)

RingInv ==
    /\ OnceIn(avail, seen, avail_index) /\ OnceIn(used, used_index, used_idx)
    /\ Announced \cap working = {}
    /\ \A h \in Announced \cup working : Waiting(h, 255)
    /\ \A h \in Ended : Waiting(h, 0)

DriverInv == Types /\ ChainInv /\ SleepInv /\ RingInv /\ NoSleepWithRoom
-----------------------------------------------------------------------------
(* Arithmetic of ring indices                                              *)

USE VirtioAssumption DEF NUM

(* A multiple of NUM is at least NUM or not positive.                      *)
LEMMA Multiples ==
  ASSUME NEW e \in Int
  PROVE  (e >= 1 => NUM * e >= NUM) /\ (e <= 0 => NUM * e <= 0)
OBVIOUS

(* Division with remainder.                                                *)
LEMMA DivMod ==
  ASSUME NEW x \in Nat
  PROVE  x = NUM * (x \div NUM) + (x % NUM) /\ (x \div NUM) \in Int
OBVIOUS

(* The index space is a multiple of the ring.                              *)
LEMMA SpanMultiple ==
  IndexSpan \div NUM \in Int /\ IndexSpan = NUM * (IndexSpan \div NUM) /\ IndexSpan >= NUM
BY DivMod

(* Indices less than NUM apart, across the wrap too, have different slots. *)
LEMMA SlotsApart ==
  ASSUME NEW a \in Idx, NEW b \in Idx, NEW d \in 1 .. NUM - 1,
         b = a + d \/ b = a + d - IndexSpan
  PROVE  a % NUM # b % NUM
<1> SUFFICES ASSUME a % NUM = b % NUM PROVE FALSE
  OBVIOUS
<1> DEFINE x == a \div NUM
           y == b \div NUM
           z == IndexSpan \div NUM
<1>1. x \in Int /\ y \in Int /\ z \in Int /\ a = NUM * x + (a % NUM)
      /\ b = NUM * y + (b % NUM) /\ IndexSpan = NUM * z /\ a % NUM \in Int
  BY DivMod, SpanMultiple DEF Idx
<1> HIDE DEF x, y, z
<1>2. PICK e \in Int : d = NUM * e
  <2>1. CASE b = a + d
    <3>1. d = NUM * (y - x) /\ y - x \in Int
      BY <1>1, <2>1
    <3> QED BY <3>1, Zenon
  <2>2. CASE b = a + d - IndexSpan
    <3>1. d = NUM * (y - x + z) /\ y - x + z \in Int
      BY <1>1, <2>2
    <3> QED BY <3>1, Zenon
  <2> QED BY <2>1, <2>2
<1> QED BY <1>2, Multiples

(* Facts about indices, linear from here on.                               *)
LEMMA IdxFacts ==
  ASSUME NEW i \in Idx, NEW j \in Idx
  PROVE  /\ Dist(i, j) \in 0 .. IndexSpan - 1
         /\ Advance(i) = Nth(i, 1) /\ Advance(i) \in Idx
         /\ i % NUM \in Descs
         /\ \A n \in 0 .. IndexSpan - 1 : Nth(i, n) \in Idx
         /\ Nth(i, Dist(i, j)) = j
         /\ Dist(i, j) = 0 <=> i = j
BY DEF Dist, Nth, Idx, Advance, Descs

(* The device and the handler take the entry at the front.                 *)
LEMMA PopWindow ==
  ASSUME NEW r, NEW i \in Idx, NEW j \in Idx, i # j, OnceIn(r, i, j)
  PROVE  /\ OnceIn(r, Advance(i), j)
         /\ Window(r, Advance(i), j) = Window(r, i, j) \ {r[i % NUM]}
         /\ r[i % NUM] \in Window(r, i, j)
<1> DEFINE d == Dist(i, j)
           k == Advance(i)
<1>1. d \in Nat /\ d >= 1 /\ d < IndexSpan /\ k = Nth(i, 1) /\ k \in Idx
  <2>1. d \in 0 .. IndexSpan - 1 /\ d # 0 /\ k = Nth(i, 1) /\ k \in Idx
    BY IdxFacts
  <2> QED BY <2>1
<1>2. Dist(k, j) = d - 1
  BY <1>1 DEF Dist, Nth, Idx
<1>3. \A n \in 0 .. d - 2 : Nth(k, n) = Nth(i, n + 1)
  BY <1>1 DEF Nth, Idx
<1>4. Nth(i, 0) = i
  BY DEF Nth, Idx
<1> HIDE DEF d, k
<1>5. OnceIn(r, k, j)
  <2> SUFFICES ASSUME NEW m \in 0 .. d - 2, NEW n \in 0 .. d - 2, m # n
               PROVE  r[Nth(k, m) % NUM] # r[Nth(k, n) % NUM]
    BY <1>1, <1>2 DEF OnceIn
  <2>1. m + 1 \in 0 .. d - 1 /\ n + 1 \in 0 .. d - 1 /\ m + 1 # n + 1
    BY <1>1
  <2>2. r[Nth(i, m + 1) % NUM] # r[Nth(i, n + 1) % NUM]
    BY <2>1 DEF OnceIn, d
  <2> QED BY <2>2, <1>3
<1>6. ASSUME NEW n \in 0 .. d - 2
      PROVE  r[Nth(k, n) % NUM] \in Window(r, i, j) \ {r[i % NUM]}
  <2>1. n + 1 \in 0 .. d - 1 /\ 0 \in 0 .. d - 1 /\ n + 1 # 0
    BY <1>1
  <2>2. r[Nth(i, n + 1) % NUM] # r[Nth(i, 0) % NUM]
    BY <2>1 DEF OnceIn, d
  <2> QED BY <2>1, <2>2, <1>3, <1>4 DEF Window, d
<1>7. ASSUME NEW n \in 0 .. d - 1, r[Nth(i, n) % NUM] # r[i % NUM]
      PROVE  r[Nth(i, n) % NUM] \in Window(r, k, j)
  <2>1. n # 0
    BY <1>4, <1>7
  <2>2. n - 1 \in 0 .. d - 2 /\ (n - 1) + 1 = n
    BY <2>1, <1>1
  <2>3. Nth(k, n - 1) = Nth(i, n)
    BY <2>2, <1>3
  <2> QED BY <2>2, <2>3, <1>1, <1>2 DEF Window
<1>8. Window(r, k, j) = Window(r, i, j) \ {r[i % NUM]}
  BY <1>1, <1>2, <1>6, <1>7 DEF Window, d
<1>9. r[i % NUM] \in Window(r, i, j)
  BY <1>1, <1>4 DEF Window, d
<1> QED BY <1>5, <1>8, <1>9 DEF k

(* The driver and the device add one at the end, if there is room.         *)
LEMMA PushWindow ==
  ASSUME NEW r \in [Descs -> Descs], NEW i \in Idx, NEW j \in Idx, OnceIn(r, i, j),
         Dist(i, j) <= NUM - 2, NEW x \in Descs, x \notin Window(r, i, j),
         NEW s, s[j % NUM] = x, \A n \in Descs : n # j % NUM => s[n] = r[n]
  PROVE  /\ OnceIn(s, i, Advance(j))
         /\ Window(s, i, Advance(j)) = Window(r, i, j) \cup {x}
<1> DEFINE d == Dist(i, j)
           k == Advance(j)
<1>1. d \in Nat /\ d <= NUM - 2 /\ k = Nth(j, 1) /\ k \in Idx /\ Nth(i, d) = j /\ NUM <= IndexSpan
  BY IdxFacts, SpanMultiple DEF Idx
<1>2. Dist(i, k) = d + 1
  BY <1>1 DEF Dist, Nth, Idx
<1>3. ASSUME NEW n \in 0 .. d PROVE Nth(i, n) \in Idx /\ Nth(i, n) % NUM \in Descs
  <2>1. n \in 0 .. IndexSpan - 1
    BY <1>1
  <2>2. Nth(i, n) \in Idx
    BY <2>1, IdxFacts
  <2> QED BY <2>2, IdxFacts
<1>4. ASSUME NEW n \in 0 .. d - 1 PROVE Nth(i, n) % NUM # j % NUM
  <2>1. d - n \in 1 .. NUM - 1 /\ n \in 0 .. d
    BY <1>1
  <2>2. j = Nth(i, n) + (d - n) \/ j = Nth(i, n) + (d - n) - IndexSpan
    BY <1>1 DEF Nth, Idx
  <2> QED BY <2>1, <2>2, <1>3, SlotsApart
<1>5. \A n \in 0 .. d - 1 : s[Nth(i, n) % NUM] = r[Nth(i, n) % NUM]
  BY <1>1, <1>3, <1>4
<1>6. s[Nth(i, d) % NUM] = x
  BY <1>1, <1>3
<1> HIDE DEF d, k
<1>7. \A n \in 0 .. d - 1 : r[Nth(i, n) % NUM] \in Window(r, i, j)
  BY DEF Window, d
<1>8. OnceIn(s, i, k)
  <2> SUFFICES ASSUME NEW m \in 0 .. d, NEW n \in 0 .. d, m < n
               PROVE  s[Nth(i, m) % NUM] # s[Nth(i, n) % NUM]
    BY <1>1, <1>2 DEF OnceIn
  <2>1. m \in 0 .. d - 1
    BY <1>1
  <2>2. CASE n = d
    BY <2>1, <2>2, <1>5, <1>6, <1>7
  <2>3. CASE n # d
    <3>1. n \in 0 .. d - 1 /\ m # n
      BY <2>3, <1>1
    <3>2. r[Nth(i, m) % NUM] # r[Nth(i, n) % NUM]
      BY <2>1, <3>1 DEF OnceIn, d
    <3> QED BY <2>1, <3>1, <3>2, <1>5
  <2> QED BY <2>2, <2>3
<1>9. Window(s, i, k) = Window(r, i, j) \cup {x}
  <2>1. Window(s, i, k) = {s[Nth(i, n) % NUM] : n \in 0 .. d}
    BY <1>1, <1>2 DEF Window
  <2>2. Window(r, i, j) = {r[Nth(i, n) % NUM] : n \in 0 .. d - 1}
    BY DEF Window, d
  <2>3. \A n \in 0 .. d : n = d \/ n \in 0 .. d - 1
    BY <1>1
  <2>4. d \in 0 .. d /\ \A n \in 0 .. d - 1 : n \in 0 .. d
    BY <1>1
  <2> QED BY <2>1, <2>2, <2>3, <2>4, <1>5, <1>6
<1> QED BY <1>8, <1>9 DEF k

(* A window without repetitions is no larger than what it draws from.      *)
LEMMA WindowBound ==
  ASSUME NEW r, NEW i \in Idx, NEW j \in Idx, OnceIn(r, i, j),
         NEW S, IsFiniteSet(S), Window(r, i, j) \subseteq S
  PROVE  Dist(i, j) <= Cardinality(S)
<1> DEFINE d == Dist(i, j)
           D == 0 .. d - 1
           f == [n \in D |-> r[Nth(i, n) % NUM]]
<1>1. d \in Nat
  BY IdxFacts DEF Idx
<1>2. f \in Injection(D, S)
  <2>1. f \in [D -> S]
    BY DEF Window
  <2>2. \A m, n \in D : m # n => f[m] # f[n]
    BY DEF OnceIn
  <2> QED BY <2>1, <2>2 DEF Injection, IsInjective
<1>3. Cardinality(D) <= Cardinality(S)
  BY <1>2, FS_Injection
<1>4. Cardinality(D) = d
  <2>1. 0 \in Int /\ d - 1 \in Int
    BY <1>1
  <2>2. Cardinality(0 .. d - 1) = IF 0 > d - 1 THEN 0 ELSE (d - 1) - 0 + 1
    <3> HIDE DEF d
    <3> QED BY <2>1, FS_Interval, Zenon
  <2> QED BY <2>2, <1>1
<1> QED BY <1>3, <1>4

(* alloc_desc() returns a free descriptor if there is one.                 *)
LEMMA AllocDesc ==
  ASSUME NEW S \in SUBSET Nat, S # {}
  PROVE  alloc_desc(S) \in S
<1>1. IsWellFoundedOn(OpToRel(<,Nat), Nat)
  BY NatLessThanWellFounded
<1>2. \E x \in S : \A y \in S : ~ (<<y, x>> \in OpToRel(<,Nat))
  BY <1>1, WFMin
<1>3. \E x \in S : \A y \in S : ~ (y < x)
  BY <1>2 DEF OpToRel
<1>4. \E x \in S : \A y \in S : x <= y
  BY <1>3
<1> QED BY <1>4 DEF Min, alloc_desc
-----------------------------------------------------------------------------
(* The driver                                                              *)

USE DEF Descs, Nil

(* The descriptors of a request are in use, and it has its own.            *)
LEMMA ChainUsed ==
  ASSUME ChainInv, NEW p \in InFlight
  PROVE  /\ Chain(head[p]) \subseteq Descs \ free /\ head[p] \in Chain(head[p])
         /\ \A q \in InFlight : q # p => head[q] # head[p] /\ head[q] \notin Chain(head[p])
<1>1. Chain(head[p]) \subseteq Descs \ free
  BY DEF ChainInv
<1>2. \A q \in InFlight : head[q] \in Chain(head[q])
  BY DEF Chain
<1> QED BY <1>1, <1>2 DEF ChainInv

(* What a ring holds are requests whose processes sleep.                   *)
LEMMA WaitingUsed ==
  ASSUME Types, ChainInv, SleepInv, NEW h, NEW st, Waiting(h, st)
  PROVE  \E p \in asleep : /\ p \in InFlight /\ head[p] = h /\ info[h].status = st
                           /\ Formatted(p) /\ h \in Descs \ free
<1>1. PICK p \in asleep : head[p] = h /\ info[h].status = st
  BY DEF Waiting
<1>2. p \in InFlight
  BY <1>1 DEF SleepInv, InFlight, Types
<1> QED BY <1>1, <1>2, ChainUsed DEF ChainInv

(* alloc3_desc() returns three free descriptors if there are three.        *)
LEMMA ThreeFree ==
  ASSUME Types, Cardinality(free) >= 3, NEW t, t = ThreeDescs
  PROVE  {t[1], t[2], t[3]} \subseteq free /\ t[1] # t[2] /\ t[1] # t[3] /\ t[2] # t[3]
<1> DEFINE i == alloc_desc(free)
           j == alloc_desc(free \ {i})
           k == alloc_desc(free \ {i, j})
<1>1. IsFiniteSet(free) /\ free \in SUBSET Nat /\ Cardinality(free) \in Nat
  <2>1. IsFiniteSet(Descs) /\ free \in SUBSET Descs
    BY FS_Interval DEF Types
  <2>2. IsFiniteSet(free)
    <3> HIDE DEF Descs
    <3> QED BY <2>1, FS_Subset
  <2>3. free \in SUBSET Nat
    BY <2>1
  <2> QED BY <2>2, <2>3, FS_CardinalityType
<1>2. i \in free
  <2>1. free # {}
    BY FS_EmptySet
  <2> QED BY <1>1, <2>1, AllocDesc
<1>3. IsFiniteSet(free \ {i}) /\ Cardinality(free \ {i}) = Cardinality(free) - 1
  BY <1>1, <1>2, FS_RemoveElement
<1>4. j \in free \ {i}
  <2>1. free \ {i} # {}
    BY <1>1, <1>3, FS_EmptySet
  <2> QED BY <1>1, <2>1, AllocDesc
<1> HIDE DEF i, j
<1>5. /\ IsFiniteSet((free \ {i}) \ {j})
      /\ Cardinality((free \ {i}) \ {j}) = Cardinality(free \ {i}) - 1
  BY <1>3, <1>4, FS_RemoveElement
<1>6. (free \ {i}) \ {j} = free \ {i, j}
  OBVIOUS
<1>7. k \in free \ {i, j}
  <2>1. free \ {i, j} # {}
    <3>1. Cardinality(free \ {i, j}) >= 1
      BY <1>1, <1>3, <1>5, <1>6
    <3> QED BY <3>1, FS_EmptySet
  <2> QED BY <1>1, <2>1, AllocDesc
<1>8. t = <<i, j, k>>
  BY DEF ThreeDescs, i, j
<1> HIDE DEF i, j, k
<1> QED BY <1>2, <1>4, <1>7, <1>8

(* Steps that touch neither descriptors nor rings.                         *)
LEMMA QuietStep ==
  ASSUME DriverInv,
         UNCHANGED <<free, desc, ops, info, avail, avail_index, used, used_idx, seen,
                     working, used_index, b_disk, head, asleep>>,
         NEW p \in Procs,
         \/ UNCHANGED <<pc, req>>
         \/ /\ pc[p] = "idle" /\ pc' = [pc EXCEPT ![p] = "alloc"]
            /\ \E x \in [write : BOOLEAN, blk : Nat] : req' = [req EXCEPT ![p] = x],
         UNCHANGED wait_list
           \/ (wait_list' \subseteq wait_list \cup {p} /\ pc'[p] = "alloc"
                /\ Cardinality(free) < 3),
         irq' \in BOOLEAN, pending' \in BOOLEAN
  PROVE  DriverInv'
<1> USE DEF DriverInv
<1>0. /\ pc' \in [Procs -> {"idle", "alloc", "busy"}]
      /\ req' \in [Procs -> [write : BOOLEAN, blk : Nat]]
      /\ wait_list' \subseteq Procs
      /\ \A q \in Procs : \/ pc'[q] = pc[q] /\ req'[q] = req[q]
                          \/ q = p /\ pc[q] = "idle" /\ pc'[q] = "alloc"
  <2>1. wait_list' \subseteq Procs
    BY DEF Types
  <2>2. CASE UNCHANGED <<pc, req>>
    BY <2>1, <2>2 DEF Types
  <2>3. CASE pc[p] = "idle" /\ pc' = [pc EXCEPT ![p] = "alloc"]
             /\ \E x \in [write : BOOLEAN, blk : Nat] : req' = [req EXCEPT ![p] = x]
    <3>1. PICK x \in [write : BOOLEAN, blk : Nat] : req' = [req EXCEPT ![p] = x]
      BY <2>3
    <3>2. req \in [Procs -> [write : BOOLEAN, blk : Nat]]
          /\ pc \in [Procs -> {"idle", "alloc", "busy"}]
      BY DEF Types
    <3>3. req' \in [Procs -> [write : BOOLEAN, blk : Nat]]
      BY <3>1, <3>2
    <3>4. pc' \in [Procs -> {"idle", "alloc", "busy"}]
      BY <2>3, <3>2
    <3>5. ASSUME NEW q \in Procs, q # p PROVE pc'[q] = pc[q] /\ req'[q] = req[q]
      BY <2>3, <3>1, <3>2, <3>5
    <3>6. pc'[p] = "alloc"
      BY <2>3, <3>2
    <3> QED BY <2>1, <2>3, <3>3, <3>4, <3>5, <3>6
  <2> QED BY <2>2, <2>3
<1>1. Types'
  BY <1>0 DEF Types
<1>2. InFlight' = InFlight /\ \A q \in InFlight : req'[q] = req[q]
  BY <1>0 DEF InFlight
<1>3. ChainInv'
  <2>2. \A q \in InFlight : Formatted(q)' /\ head'[q] = head[q]
    BY <1>2 DEF ChainInv, Formatted
  <2>3. \A q \in InFlight : Chain(head[q])' = Chain(head[q])
    BY DEF Chain
  <2>4. \A q, r \in InFlight : q # r => Chain(head[q])' \cap Chain(head[r])' = {}
    BY <2>3 DEF ChainInv
  <2>5. (Descs \ free)' = UNION {Chain(head[q])' : q \in InFlight}
    <3>1. Descs \ free = UNION {Chain(head[q]) : q \in InFlight}
      BY DEF ChainInv
    <3>2. {Chain(head[q])' : q \in InFlight} = {Chain(head[q]) : q \in InFlight}
      BY <2>3
    <3> QED BY <3>1, <3>2
  <2> QED BY <1>2, <2>2, <2>4, <2>5 DEF ChainInv
<1>4. SleepInv'
  BY <1>0 DEF SleepInv
<1>5. RingInv'
  BY DEF RingInv, Announced, Ended, Waiting
<1>6. NoSleepWithRoom'
  BY DEF NoSleepWithRoom
<1> QED BY <1>1, <1>3, <1>4, <1>5, <1>6

(* virtio_disk_rw() hands a request to the device.                         *)
LEMMA SubmitStep ==
  ASSUME DriverInv, NEW p \in Procs, Submit(p)
  PROVE  DriverInv'
<1> USE DEF DriverInv
<1>0. Cardinality(free) >= 3
  BY DEF Submit
<1>2. PICK a \in free, b \in free, c \in free :
        ThreeDescs = <<a, b, c>> /\ a # b /\ a # c /\ b # c
  <2> DEFINE t == ThreeDescs
  <2>1. t = <<t[1], t[2], t[3]>>
    BY DEF ThreeDescs
  <2>2. {t[1], t[2], t[3]} \subseteq free /\ t[1] # t[2] /\ t[1] # t[3] /\ t[2] # t[3]
    BY <1>0, ThreeFree
  <2> HIDE DEF t
  <2>3. \E a, b, c \in free : t = <<a, b, c>> /\ a # b /\ a # c /\ b # c
    BY <2>1, <2>2
  <2> QED BY <2>3 DEF t
<1>1. /\ pc[p] = "alloc" /\ p \notin wait_list /\ Cardinality(free) >= 3
      /\ free' = free \ {a, b, c}
      /\ desc' = [desc EXCEPT ![a] = [addr |-> a, next |-> b],
                              ![b] = [addr |-> p, next |-> c],
                              ![c] = [addr |-> a, next |-> Nil]]
      /\ ops' = [ops EXCEPT ![a] = req[p]]
      /\ info' = [info EXCEPT ![a] = [buf |-> p, status |-> 255]]
      /\ head' = [head EXCEPT ![p] = a]
      /\ avail' = [avail EXCEPT ![avail_index % NUM] = a]
      /\ avail_index' = Advance(avail_index)
      /\ b_disk' = [b_disk EXCEPT ![p] = TRUE]
      /\ asleep' = asleep \cup {p}
      /\ pc' = [pc EXCEPT ![p] = "busy"]
      /\ UNCHANGED <<used, used_idx, seen, working, used_index, wait_list, req, pending, irq>>
  BY <1>2 DEF Submit, AtAlloc, Announce, devVars
<1>3. a \in Descs /\ b \in Descs /\ c \in Descs
  BY <1>2 DEF Types
<1>4. avail_index % NUM \in Descs /\ Advance(avail_index) \in Idx
  BY IdxFacts DEF Types
<1>5. Types'
  <2>1. /\ desc' \in [Descs -> [addr : Descs \cup Procs \cup {Nil}, next : Descs \cup {Nil}]]
        /\ info' \in [Descs -> [buf : Procs \cup {Nil}, status : {0, 255}]]
        /\ ops' \in [Descs -> [write : BOOLEAN, blk : Nat]]
    BY <1>1, <1>3 DEF Types
  <2>2. /\ free' \subseteq Descs
        /\ avail' \in [Descs -> Descs] /\ head' \in [Procs -> Descs \cup {Nil}]
        /\ avail_index' \in Idx
    BY <1>1, <1>3, <1>4 DEF Types
  <2>3. /\ b_disk' \in [Procs -> BOOLEAN] /\ asleep' \subseteq Procs
        /\ pc' \in [Procs -> {"idle", "alloc", "busy"}]
    BY <1>1 DEF Types
  <2> QED BY <1>1, <2>1, <2>2, <2>3 DEF Types
<1>6. InFlight' = InFlight \cup {p} /\ p \notin InFlight
  <2>1. \A q \in Procs : pc'[q] = IF q = p THEN "busy" ELSE pc[q]
    BY <1>1 DEF Types
  <2> QED BY <2>1, <1>1 DEF InFlight
<1>7. /\ desc'[a] = [addr |-> a, next |-> b] /\ desc'[b] = [addr |-> p, next |-> c]
      /\ desc'[c] = [addr |-> a, next |-> Nil]
      /\ \A i \in Descs \ {a, b, c} : desc'[i] = desc[i] /\ info'[i] = info[i] /\ ops'[i] = ops[i]
      /\ info'[a] = [buf |-> p, status |-> 255] /\ ops'[a] = req[p] /\ head'[p] = a
      /\ \A q \in Procs \ {p} : head'[q] = head[q]
  BY <1>1, <1>2, <1>3 DEF Types
<1>8. Chain(head[p])' = {a, b, c} /\ Formatted(p)'
  <2>1. desc'[a].next = b /\ desc'[b].next = c /\ desc'[b].addr = p /\ desc'[c].addr = a
    BY <1>7
  <2>2. Chain(head[p])' = {a, b, c}
    BY <1>7, <2>1 DEF Chain
  <2>3. info'[a].buf = p /\ ops'[a] = req'[p]
    BY <1>1, <1>7
  <2> QED BY <1>2, <1>3, <1>7, <2>1, <2>2, <2>3 DEF Formatted
<1>9. ASSUME NEW q \in InFlight
      PROVE  /\ Chain(head[q])' = Chain(head[q]) /\ Formatted(q)'
             /\ Chain(head[q]) \cap {a, b, c} = {} /\ head'[q] = head[q] /\ q \in Procs
  <2>1. q \in Procs \ {p} /\ head'[q] = head[q]
    BY <1>6, <1>7 DEF InFlight
  <2>2. Chain(head[q]) \subseteq Descs \ {a, b, c} /\ Formatted(q)
    BY <1>2, ChainUsed DEF ChainInv
  <2>3. \A i \in Chain(head[q]) : desc'[i] = desc[i] /\ info'[i] = info[i] /\ ops'[i] = ops[i]
    BY <1>7, <2>2
  <2>4. /\ desc'[head[q]] = desc[head[q]] /\ info'[head[q]] = info[head[q]]
        /\ ops'[head[q]] = ops[head[q]]
        /\ desc'[desc[head[q]].next] = desc[desc[head[q]].next]
        /\ desc'[desc[desc[head[q]].next].next] = desc[desc[desc[head[q]].next].next]
    BY <2>3 DEF Chain
  <2> QED BY <2>1, <2>2, <2>4, <1>1 DEF Chain, Formatted
<1>10. ChainInv'
  <2>1. \A q \in InFlight' : Formatted(q)'
    BY <1>6, <1>8, <1>9
  <2>2. ASSUME NEW q \in InFlight', NEW r \in InFlight', q # r
        PROVE  Chain(head[q])' \cap Chain(head[r])' = {}
    <3>1. CASE q = p
      BY <2>2, <3>1, <1>6, <1>8, <1>9
    <3>2. CASE r = p
      BY <2>2, <3>2, <1>6, <1>8, <1>9
    <3>3. CASE q # p /\ r # p
      BY <2>2, <3>3, <1>6, <1>9 DEF ChainInv
    <3> QED BY <3>1, <3>2, <3>3
  <2>3. Descs \ free' = UNION {Chain(head[q])' : q \in InFlight'}
    <3>1. UNION {Chain(head[q])' : q \in InFlight'}
            = (UNION {Chain(head[q]) : q \in InFlight}) \cup {a, b, c}
      BY <1>6, <1>8, <1>9
    <3> QED BY <3>1, <1>1, <1>3 DEF ChainInv
  <2> QED BY <2>1, <2>2, <2>3 DEF ChainInv
<1>11. SleepInv'
  <2> SUFFICES ASSUME NEW q \in Procs
               PROVE  /\ q \in asleep' <=> b_disk'[q]
                      /\ q \in asleep' => pc'[q] = "busy"
                      /\ pc'[q] = "busy" /\ q \notin asleep' => info'[head'[q]].status = 0
                      /\ q \in wait_list' => pc'[q] = "alloc"
    BY DEF SleepInv
  <2>1. CASE q = p
    BY <2>1, <1>1 DEF Types
  <2>2. CASE q # p
    <3>1. pc'[q] = pc[q] /\ b_disk'[q] = b_disk[q] /\ (q \in asleep' <=> q \in asleep)
      BY <2>2, <1>1 DEF Types
    <3>2. pc[q] = "busy" => info'[head'[q]] = info[head[q]]
      <4> SUFFICES ASSUME q \in InFlight PROVE info'[head'[q]] = info[head[q]]
        BY DEF InFlight
      <4>1. head[q] \in Descs \ {a, b, c} /\ head'[q] = head[q]
        BY <1>9, ChainUsed
      <4> QED BY <4>1, <1>7
    <3> QED BY <3>1, <3>2, <1>1 DEF SleepInv
  <2> QED BY <2>1, <2>2
<1>12. ASSUME NEW h, NEW st, Waiting(h, st) PROVE Waiting(h, st)' /\ h \in Descs \ free
  <2>1. PICK q \in asleep : /\ q \in InFlight /\ head[q] = h /\ info[h].status = st
                            /\ h \in Descs \ free
    BY <1>12, WaitingUsed
  <2>2. head'[q] = h /\ h \in Descs \ {a, b, c} /\ q \in asleep'
    BY <2>1, <1>1, <1>2, <1>9
  <2> QED BY <2>1, <2>2, <1>7 DEF Waiting
<1>13. Announced \subseteq Descs \ free /\ a \notin Announced
  BY <1>2, <1>12 DEF RingInv
<1>14. Dist(seen, avail_index) <= NUM - 2
  <2> DEFINE U == Descs \ free
             d == Dist(seen, avail_index)
  <2>1. IsFiniteSet(Descs) /\ Cardinality(Descs) = NUM /\ free \in SUBSET Descs
    BY FS_Interval DEF Types
  <2>2. IsFiniteSet(U) /\ Cardinality(U) = NUM - Cardinality(free)
    <3>1. Descs \cap free = free
      BY <2>1
    <3>2. IsFiniteSet(U) /\ Cardinality(U) = Cardinality(Descs) - Cardinality(Descs \cap free)
      <4> HIDE DEF Descs
      <4> QED BY <2>1, FS_Difference
    <3> QED BY <2>1, <3>1, <3>2
  <2>3. seen \in Idx /\ avail_index \in Idx /\ OnceIn(avail, seen, avail_index)
    BY DEF Types, RingInv
  <2>4. d <= Cardinality(U)
    <3> HIDE DEF U, d
    <3> QED BY <2>2, <2>3, <1>13, WindowBound DEF Announced, d, U
  <2>5. d \in Nat
    <3>1. d \in 0 .. IndexSpan - 1
      BY <2>3, IdxFacts, Zenon
    <3> QED BY <3>1
  <2>6. Cardinality(free) \in Nat
    <3> HIDE DEF Descs
    <3> QED BY <2>1, FS_Subset, FS_CardinalityType
  <2> QED BY <2>2, <2>4, <2>5, <2>6, <1>1
<1>15. OnceIn(avail, seen, avail_index)' /\ Announced' = Announced \cup {a}
  <2>1. /\ avail \in [Descs -> Descs] /\ seen \in Idx /\ avail_index \in Idx
        /\ OnceIn(avail, seen, avail_index)
    BY DEF Types, RingInv
  <2>2. avail' = [avail EXCEPT ![avail_index % NUM] = a] /\ seen' = seen
        /\ avail_index' = Advance(avail_index)
    BY <1>1
  <2>3. avail'[avail_index % NUM] = a
        /\ \A n \in Descs : n # avail_index % NUM => avail'[n] = avail[n]
    BY <2>1, <2>2, <1>4
  <2>4. a \notin Window(avail, seen, avail_index)
    BY <1>13 DEF Announced
  <2>5. OnceIn(avail', seen, Advance(avail_index))
        /\ Window(avail', seen, Advance(avail_index)) = Window(avail, seen, avail_index) \cup {a}
    <3> HIDE DEF Descs
    <3> QED BY <2>1, <2>3, <2>4, <1>3, <1>14, PushWindow
  <2> QED BY <2>2, <2>5 DEF Announced
<1>16. Waiting(a, 255)'
  BY <1>1, <1>7 DEF Waiting
<1>17. Ended' = Ended /\ OnceIn(used, used_index, used_idx)'
  BY <1>1 DEF Ended, RingInv
<1>18. a \notin working
  BY <1>2, <1>12 DEF RingInv
<1>19. RingInv'
  BY <1>1, <1>12, <1>15, <1>16, <1>17, <1>18 DEF RingInv
<1>20. NoSleepWithRoom'
  <2>1. Cardinality(free) \in Nat
    <3>1. IsFiniteSet(Descs) /\ free \in SUBSET Descs
      BY FS_Interval DEF Types
    <3> QED BY <3>1, FS_Subset, FS_CardinalityType
  <2> QED BY <2>1, <1>1 DEF NoSleepWithRoom
<1> QED BY <1>5, <1>10, <1>11, <1>19, <1>20

(* The end of virtio_disk_rw().                                            *)
LEMMA FinishStep ==
  ASSUME DriverInv, NEW p \in Procs, Finish(p)
  PROVE  DriverInv'
<1> USE DEF DriverInv
<1>1. PICK C : C = Chain(head[p])
  OBVIOUS
<1>2. /\ pc[p] = "busy" /\ p \notin asleep /\ p \in InFlight
      /\ info' = [info EXCEPT ![head[p]].buf = Nil]
      /\ desc' = [i \in Descs |-> IF i \in C THEN ZeroDesc ELSE desc[i]]
      /\ free' = free \cup C
      /\ wait_list' = {}
      /\ head' = [head EXCEPT ![p] = Nil]
      /\ req' = [req EXCEPT ![p] = [write |-> FALSE, blk |-> 0]]
      /\ pc' = [pc EXCEPT ![p] = "idle"]
      /\ UNCHANGED <<ops, avail, avail_index, used, used_idx, seen, working,
                     used_index, b_disk, asleep, pending, irq>>
  BY <1>1 DEF Finish, InFlight, devVars
<1>3. C \subseteq Descs \ free /\ head[p] \in C /\ head[p] \in Descs
  BY <1>1, <1>2, ChainUsed
<1>4. Types'
  <2>1. ZeroDesc \in [addr : Descs \cup Procs \cup {Nil}, next : Descs \cup {Nil}]
    BY DEF ZeroDesc
  <2>2. desc' \in [Descs -> [addr : Descs \cup Procs \cup {Nil}, next : Descs \cup {Nil}]]
    BY <1>2, <2>1 DEF Types
  <2>3. info' \in [Descs -> [buf : Procs \cup {Nil}, status : {0, 255}]]
    <3>1. info[head[p]] \in [buf : Procs \cup {Nil}, status : {0, 255}]
      BY <1>3, ZenonT(30) DEF Types
    <3>2. [info[head[p]] EXCEPT !.buf = Nil] \in [buf : Procs \cup {Nil}, status : {0, 255}]
      BY <3>1
    <3> QED BY <1>2, <1>3, <3>2 DEF Types
  <2>4. /\ free' \subseteq Descs /\ head' \in [Procs -> Descs \cup {Nil}]
        /\ req' \in [Procs -> [write : BOOLEAN, blk : Nat]]
        /\ pc' \in [Procs -> {"idle", "alloc", "busy"}]
    BY <1>2, <1>3 DEF Types
  <2> QED BY <1>2, <2>2, <2>3, <2>4 DEF Types
<1>5. InFlight' = InFlight \ {p}
  <2>1. \A q \in Procs : pc'[q] = IF q = p THEN "idle" ELSE pc[q]
    BY <1>2 DEF Types
  <2> QED BY <2>1 DEF InFlight
<1>6. ASSUME NEW q \in InFlight, q # p
      PROVE  /\ Chain(head[q])' = Chain(head[q]) /\ Formatted(q)'
             /\ head'[q] = head[q] /\ info'[head[q]] = info[head[q]]
             /\ Chain(head[q]) \cap C = {} /\ head[q] \in Descs \ C
  <2>1. q \in Procs /\ head'[q] = head[q] /\ req'[q] = req[q]
    BY <1>2, <1>6 DEF InFlight, Types
  <2>2. Chain(head[q]) \subseteq Descs \ C /\ Chain(head[q]) \cap C = {} /\ Formatted(q)
    BY <1>1, <1>2, <1>6, ChainUsed DEF ChainInv
  <2>3. \A i \in Chain(head[q]) : desc'[i] = desc[i] /\ info'[i] = info[i] /\ ops'[i] = ops[i]
    BY <1>2, <1>3, <2>2 DEF Types
  <2>4. /\ desc'[head[q]] = desc[head[q]] /\ info'[head[q]] = info[head[q]]
        /\ ops'[head[q]] = ops[head[q]] /\ head[q] \in Descs \ C
        /\ desc'[desc[head[q]].next] = desc[desc[head[q]].next]
        /\ desc'[desc[desc[head[q]].next].next] = desc[desc[desc[head[q]].next].next]
    BY <2>2, <2>3 DEF Chain
  <2> QED BY <2>1, <2>2, <2>4 DEF Chain, Formatted
<1>7. ChainInv'
  <2>1. \A q \in InFlight' : Formatted(q)'
    BY <1>5, <1>6
  <2>2. \A q, r \in InFlight' : q # r => Chain(head[q])' \cap Chain(head[r])' = {}
    BY <1>5, <1>6 DEF ChainInv
  <2>3. Descs \ free' = UNION {Chain(head[q])' : q \in InFlight'}
    <3>1. UNION {Chain(head[q])' : q \in InFlight'}
            = (UNION {Chain(head[q]) : q \in InFlight}) \ C
      BY <1>1, <1>5, <1>6
    <3> QED BY <3>1, <1>2 DEF ChainInv
  <2> QED BY <2>1, <2>2, <2>3 DEF ChainInv
<1>8. SleepInv'
  <2> SUFFICES ASSUME NEW q \in Procs
               PROVE  /\ q \in asleep' <=> b_disk'[q]
                      /\ q \in asleep' => pc'[q] = "busy"
                      /\ pc'[q] = "busy" /\ q \notin asleep' => info'[head'[q]].status = 0
                      /\ q \in wait_list' => pc'[q] = "alloc"
    BY DEF SleepInv
  <2>1. CASE q = p
    BY <2>1, <1>2 DEF Types, SleepInv
  <2>2. CASE q # p
    <3>1. pc'[q] = pc[q]
      BY <2>2, <1>2 DEF Types
    <3>2. pc[q] = "busy" => info'[head'[q]] = info[head[q]]
      BY <2>2, <1>6 DEF InFlight
    <3> QED BY <3>1, <3>2, <1>2 DEF SleepInv
  <2> QED BY <2>1, <2>2
<1>9. ASSUME NEW h, NEW st, Waiting(h, st) PROVE Waiting(h, st)'
  <2>1. PICK q \in asleep : q \in InFlight /\ head[q] = h /\ info[h].status = st
    BY <1>9, WaitingUsed
  <2>2. q # p /\ q \in asleep'
    BY <2>1, <1>2
  <2> QED BY <2>1, <2>2, <1>6 DEF Waiting
<1>10. Announced' = Announced /\ Ended' = Ended /\ working' = working
       /\ OnceIn(avail, seen, avail_index)' /\ OnceIn(used, used_index, used_idx)'
  BY <1>2 DEF Announced, Ended, RingInv
<1>11. RingInv'
  BY <1>9, <1>10 DEF RingInv
<1>12. NoSleepWithRoom'
  BY <1>2 DEF NoSleepWithRoom
<1> QED BY <1>4, <1>7, <1>8, <1>11, <1>12

(* What a step leaves of the requests: the descriptors, the processes and  *)
(* who sleeps for descriptors.                                             *)
LEMMA RequestsKept ==
  ASSUME ChainInv, NoSleepWithRoom, UNCHANGED <<free, desc, ops, pc, req, head, wait_list>>,
         \A h \in Descs : info'[h].buf = info[h].buf
  PROVE  ChainInv' /\ NoSleepWithRoom' /\ InFlight' = InFlight
<1>1. InFlight' = InFlight
  BY DEF InFlight
<1>2. \A p \in InFlight : Formatted(p)'
  BY DEF ChainInv, Formatted
<1>3. ChainInv'
  BY <1>1, <1>2 DEF ChainInv, Chain
<1> QED BY <1>1, <1>3 DEF NoSleepWithRoom

(* The device takes the next entry of the avail ring.                      *)
LEMMA FetchStep ==
  ASSUME DriverInv, DeviceFetch
  PROVE  DriverInv'
<1> USE DEF DriverInv
<1>1. /\ seen # avail_index /\ seen' = Advance(seen)
      /\ working' = working \cup {avail[seen % NUM]}
      /\ UNCHANGED <<free, desc, ops, info, avail, avail_index, used, used_idx, used_index,
                     wait_list, b_disk, pc, req, head, asleep, pending, irq>>
  BY DEF DeviceFetch, ringVars
<1>2. /\ avail[seen % NUM] \in Announced
      /\ OnceIn(avail, Advance(seen), avail_index)
      /\ Window(avail, Advance(seen), avail_index) = Announced \ {avail[seen % NUM]}
  <2>1. seen \in Idx /\ avail_index \in Idx /\ OnceIn(avail, seen, avail_index)
    BY DEF Types, RingInv
  <2> QED BY <2>1, <1>1, PopWindow DEF Announced
<1>3. Announced' = Announced \ {avail[seen % NUM]} /\ OnceIn(avail, seen, avail_index)'
  BY <1>1, <1>2 DEF Announced
<1>4. Types'
  <2>1. Advance(seen) \in Idx /\ seen % NUM \in Descs
    BY IdxFacts DEF Types
  <2>2. avail[seen % NUM] \in Descs
    BY <2>1 DEF Types
  <2>3. working' \subseteq Descs
    BY <1>1, <2>2 DEF Types
  <2> QED BY <1>1, <2>1, <2>3 DEF Types
<1>5. ChainInv' /\ NoSleepWithRoom'
  BY <1>1, RequestsKept
<1>6. SleepInv'
  BY <1>1 DEF SleepInv
<1>7. \A h, st : Waiting(h, st) => Waiting(h, st)'
  BY <1>1 DEF Waiting
<1>8. Ended' = Ended /\ OnceIn(used, used_index, used_idx)'
  BY <1>1 DEF Ended, RingInv
<1>9. RingInv'
  BY <1>1, <1>2, <1>3, <1>7, <1>8 DEF RingInv
<1> QED BY <1>4, <1>5, <1>6, <1>9

(* The device ends a request.                                              *)
LEMMA CompleteStep ==
  ASSUME DriverInv, NEW h \in Descs, DeviceComplete(h)
  PROVE  DriverInv'
<1> USE DEF DriverInv
<1>1. PICK p \in asleep : /\ p \in InFlight /\ head[p] = h /\ info[h].status = 255
                          /\ Formatted(p) /\ h \in Descs \ free
  <2>1. Waiting(h, 255)
    BY DEF DeviceComplete, RingInv
  <2> QED BY <2>1, WaitingUsed
<1>2. /\ h \in working /\ working' = working \ {h}
      /\ info' = [info EXCEPT ![h].status = 0]
      /\ used' = [used EXCEPT ![used_idx % NUM] = h]
      /\ used_idx' = Advance(used_idx) /\ pending' = TRUE
      /\ UNCHANGED <<free, desc, ops, avail, avail_index, used_index, wait_list,
                     b_disk, pc, req, head, asleep, seen, irq>>
  BY <1>1 DEF DeviceComplete, Formatted
<1>3. /\ info'[h].status = 0 /\ info'[h].buf = info[h].buf
      /\ \A i \in Descs \ {h} : info'[i] = info[i]
  BY <1>2 DEF Types
<1>4. used_idx % NUM \in Descs /\ Advance(used_idx) \in Idx
  BY IdxFacts DEF Types
<1>5. Types'
  <2>0. info[h] \in [buf : Procs \cup {Nil}, status : {0, 255}]
    BY DEF Types
  <2>1. [info[h] EXCEPT !.status = 0] \in [buf : Procs \cup {Nil}, status : {0, 255}]
    BY <2>0
  <2>2. info' \in [Descs -> [buf : Procs \cup {Nil}, status : {0, 255}]]
    BY <1>2, <2>1 DEF Types
  <2>3. used' \in [Descs -> Descs] /\ used_idx' \in Idx /\ working' \subseteq Descs
    BY <1>2, <1>4 DEF Types
  <2> QED BY <1>2, <2>2, <2>3 DEF Types
<1>6. ChainInv' /\ NoSleepWithRoom'
  BY <1>2, <1>3, RequestsKept
<1>7. ASSUME NEW q \in InFlight, q # p
      PROVE  head[q] # h /\ head[q] \in Descs /\ info'[head[q]] = info[head[q]]
  <2>1. head[q] # h
    BY <1>1, <1>7, ChainUsed, Zenon
  <2>2. head[q] \in Descs
    <3>1. Chain(head[q]) \subseteq Descs \ free /\ head[q] \in Chain(head[q])
      BY <1>7, ChainUsed, Zenon
    <3> QED BY <3>1
  <2> QED BY <1>3, <2>1, <2>2
<1>8. SleepInv'
  <2> SUFFICES ASSUME NEW q \in Procs, pc[q] = "busy", q \notin asleep
               PROVE  info'[head[q]].status = 0
    BY <1>2 DEF SleepInv
  <2>1. q \in InFlight /\ q # p
    BY <1>1 DEF InFlight
  <2> QED BY <2>1, <1>7 DEF SleepInv
<1>9. ASSUME NEW g, NEW st, Waiting(g, st), g # h PROVE Waiting(g, st)'
  <2>1. PICK q \in asleep : q \in InFlight /\ head[q] = g /\ info[g].status = st
    BY <1>9, WaitingUsed
  <2> QED BY <2>1, <1>1, <1>2, <1>7, <1>9 DEF Waiting
<1>10. Waiting(h, 0)'
  BY <1>1, <1>2, <1>3 DEF Waiting
<1>11. \A g \in Ended : g \in Descs \ free /\ g \notin Chain(h)
  <2> SUFFICES ASSUME NEW g \in Ended PROVE g \in Descs \ free /\ g \notin Chain(h)
    OBVIOUS
  <2>1. Waiting(g, 0)
    BY DEF RingInv
  <2>2. PICK q \in asleep : /\ q \in InFlight /\ head[q] = g /\ info[g].status = 0
                            /\ g \in Descs \ free
    BY <2>1, WaitingUsed
  <2>3. q # p
    BY <2>2, <1>1
  <2> QED BY <2>2, <2>3, <1>1, ChainUsed
<1>12. Dist(used_index, used_idx) <= NUM - 2
  <2> DEFINE i == desc[h].next
             U == (Descs \ {h}) \ {i}
             d == Dist(used_index, used_idx)
  <2>1. i \in Descs /\ i # h /\ {h, i} \subseteq Chain(h)
    BY <1>1 DEF Formatted, Chain
  <2>2. IsFiniteSet(Descs) /\ Cardinality(Descs) = NUM
    BY FS_Interval
  <2>3. IsFiniteSet(Descs \ {h}) /\ Cardinality(Descs \ {h}) = NUM - 1
    <3> HIDE DEF Descs
    <3> QED BY <2>2, FS_RemoveElement
  <2>4. IsFiniteSet(U) /\ Cardinality(U) = (NUM - 1) - 1
    <3>1. i \in Descs \ {h}
      BY <2>1
    <3> HIDE DEF Descs, i
    <3> QED BY <2>3, <3>1, FS_RemoveElement
  <2>5. Ended \subseteq U
    BY <1>11, <2>1
  <2>6. used_index \in Idx /\ used_idx \in Idx /\ OnceIn(used, used_index, used_idx)
    BY DEF Types, RingInv
  <2>7. d <= Cardinality(U)
    <3> HIDE DEF U, d
    <3> QED BY <2>4, <2>5, <2>6, WindowBound DEF Ended, d
  <2> QED BY <2>4, <2>7
<1>13. OnceIn(used, used_index, used_idx)' /\ Ended' = Ended \cup {h}
  <2>1. /\ used \in [Descs -> Descs] /\ used_index \in Idx /\ used_idx \in Idx
        /\ OnceIn(used, used_index, used_idx)
    BY DEF Types, RingInv
  <2>2. used'[used_idx % NUM] = h
        /\ \A n \in Descs : n # used_idx % NUM => used'[n] = used[n]
    BY <2>1, <1>2, <1>4
  <2>3. h \notin Window(used, used_index, used_idx)
    BY <1>11 DEF Ended, Chain
  <2>4. OnceIn(used', used_index, Advance(used_idx))
        /\ Window(used', used_index, Advance(used_idx)) = Window(used, used_index, used_idx) \cup {h}
    <3> HIDE DEF Descs
    <3> QED BY <2>1, <2>2, <2>3, <1>12, PushWindow
  <2> QED BY <2>4, <1>2 DEF Ended
<1>14. Announced' = Announced /\ OnceIn(avail, seen, avail_index)'
  BY <1>2 DEF Announced, RingInv
<1>15. h \notin Announced
  BY <1>2 DEF RingInv
<1>16. \A g \in Announced' \cup working' : Waiting(g, 255)'
  BY <1>2, <1>9, <1>14, <1>15 DEF RingInv
<1>17. \A g \in Ended' : Waiting(g, 0)'
  BY <1>9, <1>10, <1>13 DEF RingInv
<1>18. RingInv'
  BY <1>2, <1>13, <1>14, <1>16, <1>17 DEF RingInv
<1> QED BY <1>5, <1>6, <1>8, <1>18

(* The next entry of the used ring is a request that has ended and whose   *)
(* process sleeps.                                                         *)
LEMMA NextEnded ==
  ASSUME DriverInv, used_index # used_idx
  PROVE  /\ UsedId \in Ended
         /\ OnceIn(used, Advance(used_index), used_idx)
         /\ Window(used, Advance(used_index), used_idx) = Ended \ {UsedId}
         /\ \E p \in asleep : /\ p \in InFlight /\ head[p] = UsedId /\ UsedId \in Descs
                              /\ info[UsedId].status = 0 /\ info[UsedId].buf = p
<1> USE DEF DriverInv
<1>1. used_index \in Idx /\ used_idx \in Idx /\ OnceIn(used, used_index, used_idx)
  BY DEF Types, RingInv
<1>2. /\ UsedId \in Ended
      /\ OnceIn(used, Advance(used_index), used_idx)
      /\ Window(used, Advance(used_index), used_idx) = Ended \ {UsedId}
  BY <1>1, PopWindow DEF Ended, UsedId
<1>3. Waiting(UsedId, 0)
  BY <1>2 DEF RingInv
<1>4. \E p \in asleep : /\ p \in InFlight /\ head[p] = UsedId /\ info[UsedId].status = 0
                        /\ Formatted(p) /\ UsedId \in Descs \ free
  BY <1>3, WaitingUsed
<1> QED BY <1>2, <1>4 DEF Formatted

(* The interrupt handler takes it.                                         *)
LEMMA EntryStep ==
  ASSUME DriverInv, IrqEntry
  PROVE  DriverInv'
<1> USE DEF DriverInv
<1>1. PICK u : u = UsedId
  OBVIOUS
<1>2. PICK p \in asleep : /\ p \in InFlight /\ head[p] = u /\ u \in Descs
                          /\ info[u].status = 0 /\ info[u].buf = p
  BY <1>1, NextEnded DEF IrqEntry
<1>3. /\ used_index # used_idx /\ used_index' = Advance(used_index)
      /\ b_disk' = [q \in Procs |-> b_disk[q] /\ q # p] /\ asleep' = asleep \ {p}
      /\ UNCHANGED <<free, desc, ops, info, avail, avail_index, used, used_idx, seen, working,
                     wait_list, pc, req, head, pending, irq>>
  BY <1>1, <1>2 DEF IrqEntry, ringVars, devVars
<1>4. Types'
  <2>1. Advance(used_index) \in Idx
    BY IdxFacts DEF Types
  <2>2. b_disk' \in [Procs -> BOOLEAN] /\ asleep' \subseteq Procs
    BY <1>3 DEF Types
  <2> QED BY <2>1, <2>2, <1>3 DEF Types
<1>5. ChainInv' /\ NoSleepWithRoom'
  BY <1>3, RequestsKept
<1>6. SleepInv'
  <2> SUFFICES ASSUME NEW q \in Procs
               PROVE  /\ q \in asleep' <=> b_disk'[q]
                      /\ q \in asleep' => pc[q] = "busy"
                      /\ pc[q] = "busy" /\ q \notin asleep' => info[head[q]].status = 0
                      /\ q \in wait_list => pc[q] = "alloc"
    BY <1>3 DEF SleepInv
  <2>1. CASE q = p
    BY <2>1, <1>2, <1>3 DEF SleepInv
  <2>2. CASE q # p
    <3>1. b_disk'[q] = b_disk[q] /\ (q \in asleep' <=> q \in asleep)
      BY <2>2, <1>3 DEF Types
    <3> QED BY <3>1 DEF SleepInv
  <2> QED BY <2>1, <2>2
<1>7. ASSUME NEW g, NEW st, Waiting(g, st), g # u PROVE Waiting(g, st)'
  BY <1>2, <1>3, <1>7 DEF Waiting
<1>8. Ended' = Ended \ {u} /\ OnceIn(used, used_index, used_idx)'
  BY <1>1, <1>3, NextEnded DEF Ended
<1>9. Announced' = Announced /\ OnceIn(avail, seen, avail_index)'
  BY <1>3 DEF Announced, RingInv
<1>10. \A g \in Announced \cup working : g # u
  BY <1>2 DEF RingInv, Waiting
<1>11. RingInv'
  BY <1>3, <1>7, <1>8, <1>9, <1>10 DEF RingInv
<1> QED BY <1>4, <1>5, <1>6, <1>11

(* virtio_disk_init() followed by Start requests.                          *)
LEMMA InitDriver == Init => DriverInv
<1> SUFFICES ASSUME Init PROVE DriverInv
  OBVIOUS
<1> USE DEF Init
<1>1. Types
  <2>1. 0 \in Descs /\ Start \in Idx /\ ZeroDesc \in [addr : Descs \cup Procs \cup {Nil}, next : Descs \cup {Nil}]
    BY DEF Idx, ZeroDesc
  <2> QED BY <2>1 DEF Types
<1>2. InFlight = {}
  BY DEF InFlight
<1>3. ChainInv
  BY <1>2 DEF ChainInv
<1>4. SleepInv /\ NoSleepWithRoom
  BY DEF SleepInv, NoSleepWithRoom
<1>5. Dist(Start, Start) = 0
  BY DEF Dist
<1>6. 0 .. Dist(Start, Start) - 1 = {}
  BY <1>5
<1>7. Announced = {} /\ Ended = {} /\ OnceIn(avail, Start, Start) /\ OnceIn(used, Start, Start)
  BY <1>6 DEF Announced, Ended, Window, OnceIn
<1>8. RingInv
  BY <1>7 DEF RingInv
<1> QED BY <1>1, <1>3, <1>4, <1>8 DEF DriverInv

(* Every step of the driver and of the device preserves the invariant.     *)
LEMMA NextDriver == DriverInv /\ [Next]_vars => DriverInv'
<1> SUFFICES ASSUME DriverInv, [Next]_vars PROVE DriverInv'
  OBVIOUS
<1> USE DEF ringVars, devVars
<1>1. ASSUME NEW p \in Procs, Call(p) PROVE DriverInv'
  <2>1. \E x \in [write : BOOLEAN, blk : Nat] : req' = [req EXCEPT ![p] = x]
    BY <1>1 DEF Call
  <2>2. irq \in BOOLEAN /\ pending \in BOOLEAN
    BY DEF DriverInv, Types
  <2> QED BY <1>1, <2>1, <2>2, QuietStep DEF Call
<1>2. ASSUME NEW p \in Procs, NoRoom(p) PROVE DriverInv'
  <2>1. irq \in BOOLEAN /\ pending \in BOOLEAN
    BY DEF DriverInv, Types
  <2>2. wait_list' \subseteq wait_list \cup {p} /\ pc[p] = "alloc" /\ Cardinality(free) < 3
    BY <1>2 DEF NoRoom, AtAlloc
  <2> QED BY <1>2, <2>1, <2>2, QuietStep DEF NoRoom
<1>3. CASE IrqEnter \/ IrqExit \/ UNCHANGED vars
  <2>1. irq' \in BOOLEAN /\ pending' \in BOOLEAN
    BY <1>3 DEF IrqEnter, IrqExit, vars, DriverInv, Types
  <2>2. UNCHANGED <<free, ringVars, devVars, used_index, wait_list, b_disk, pc, req, head, asleep>>
    BY <1>3 DEF IrqEnter, IrqExit, vars
  <2> USE DEF DriverInv
  <2>3. Types' /\ SleepInv'
    BY <2>1, <2>2 DEF Types, SleepInv
  <2>4. ChainInv' /\ NoSleepWithRoom'
    BY <2>2, RequestsKept
  <2>5. Announced' = Announced /\ Ended' = Ended /\ working' = working
        /\ OnceIn(avail, seen, avail_index)' /\ OnceIn(used, used_index, used_idx)'
    BY <2>2 DEF Announced, Ended, RingInv
  <2>6. \A h, st : Waiting(h, st) => Waiting(h, st)'
    BY <2>2 DEF Waiting
  <2>7. RingInv'
    BY <2>5, <2>6 DEF RingInv
  <2> QED BY <2>3, <2>4, <2>7
<1> QED BY <1>1, <1>2, <1>3, SubmitStep, FinishStep, FetchStep, CompleteStep, EntryStep
        DEF Next, ProcStep, IrqStep

(* One more element.                                                       *)
LEMMA OneMore ==
  ASSUME NEW S, IsFiniteSet(S), NEW x, x \notin S
  PROVE  IsFiniteSet(S \cup {x}) /\ Cardinality(S \cup {x}) = Cardinality(S) + 1
BY FS_AddElement

(* The invariant of the driver and the device.                             *)
THEOREM Driver == Spec => []DriverInv
BY InitDriver, NextDriver, PTL DEF Spec

(* virtio_disk_rw(), alloc3_desc() and the handler, for any number of      *)
(* processes and descriptors and any ring index, the wrap at IndexSpan     *)
(* included: chains are disjoint, with the free descriptors they make up   *)
(* the table, the device never follows a freed chain, and the handler's    *)
(* assertion on the status never fails.                                    *)
THEOREM RingsAlwaysAgree == Spec => []RingsAgree
<1>1. ASSUME DriverInv PROVE ChainsPartition
  <2> USE <1>1 DEF DriverInv
  <2>1. ASSUME NEW p \in InFlight PROVE Cardinality(Chain(head[p])) = 3
    <3>1. PICK h, i, j : /\ Chain(head[p]) = {h, i, j} /\ h # i /\ h # j /\ i # j
      BY DEF ChainInv, Formatted, Chain
    <3>2. IsFiniteSet({h}) /\ Cardinality({h}) = 1
      BY FS_Singleton
    <3>3. i \notin {h} /\ j \notin {h} \cup {i}
      BY <3>1
    <3>4. IsFiniteSet({h} \cup {i}) /\ Cardinality({h} \cup {i}) = Cardinality({h}) + 1
      BY <3>2, <3>3, OneMore, Zenon
    <3>5. Cardinality(({h} \cup {i}) \cup {j}) = Cardinality({h} \cup {i}) + 1
      BY <3>3, <3>4, OneMore, Zenon
    <3>6. ({h} \cup {i}) \cup {j} = {h, i, j}
      OBVIOUS
    <3>7. Cardinality({h, i, j}) = (Cardinality({h}) + 1) + 1
      BY <3>4, <3>5, <3>6, Zenon
    <3> QED BY <3>1, <3>2, <3>7
  <2>2. ASSUME NEW h \in working PROVE \E p \in asleep : head[p] = h /\ info[h].buf = p
    <3>1. Waiting(h, 255)
      BY DEF RingInv
    <3> QED BY <3>1, WaitingUsed DEF Formatted
  <2> QED BY <2>1, <2>2 DEF ChainsPartition, ChainInv
<1>2. ASSUME DriverInv PROVE CompletionsKnown
  <2> SUFFICES ASSUME used_index # used_idx
               PROVE  /\ info[UsedId].status = 0
                      /\ info[UsedId].buf \in asleep /\ b_disk[info[UsedId].buf]
    BY DEF CompletionsKnown
  <2>1. PICK p \in asleep : info[UsedId].status = 0 /\ info[UsedId].buf = p
    BY <1>2, NextEnded
  <2>2. p \in Procs
    BY <1>2 DEF DriverInv, Types
  <2> QED BY <1>2, <2>1, <2>2 DEF DriverInv, SleepInv
<1>3. DriverInv => RingsAgree
  BY <1>1, <1>2 DEF RingsAgree
<1> QED BY <1>3, Driver, PTL

(* alloc3_desc(): nobody sleeps for descriptors while there are three.     *)
THEOREM NobodySleepsWithRoom == Spec => []NoSleepWithRoom
<1>1. DriverInv => NoSleepWithRoom
  BY DEF DriverInv
<1> QED BY <1>1, Driver, PTL
-----------------------------------------------------------------------------
(* The driver and the device implement module BlockDevice.                 *)

Abs(p) == [at |-> Stage(p), write |-> req[p].write, blk |-> req[p].blk]
AbsCall == [p \in Procs |-> Abs(p)]

(* A call that nobody touches stays where it is.                           *)
LEMMA StageKept ==
  ASSUME NEW q \in Procs, pc'[q] = pc[q], req'[q] = req[q], head'[q] = head[q],
         pc[q] = "busy" => info'[head[q]].status = info[head[q]].status
  PROVE  Abs(q)' = Abs(q)
BY DEF Abs, Stage

(* The driver starts with no request.                                      *)
LEMMA DeviceInit == Init => Device!Init
<1> SUFFICES ASSUME Init PROVE Device!Init
  OBVIOUS
<1>1. \A p \in Procs : Abs(p) = Device!NoCall
  BY DEF Init, Abs, Stage, Device!NoCall
<1> QED BY <1>1 DEF Init, Device!Init, Abs

(* A step of the driver is a step of BlockDevice, or none.                 *)
LEMMA DeviceStep == DriverInv /\ DriverInv' /\ [Next]_vars => [Device!Next]_Device!vars
<1> SUFFICES ASSUME DriverInv, [Next]_vars PROVE Device!Next \/ UNCHANGED Device!vars
  BY DEF Device!vars
<1> USE DEF DriverInv, ringVars, devVars
<1>0. AbsCall = [p \in Procs |-> [at |-> Stage(p), write |-> req[p].write, blk |-> req[p].blk]]
  BY DEF AbsCall, Abs
<1>1. ASSUME NEW p \in Procs, Call(p) PROVE Device!Ask(p)
  <2>1. PICK w \in BOOLEAN, k \in Blocks, v \in Vals :
          /\ req' = [req EXCEPT ![p] = [write |-> w, blk |-> k]]
          /\ b_data' = [b_data EXCEPT ![p] = IF w THEN v ELSE 0]
    BY <1>1 DEF Call
  <2>2. /\ pc[p] = "idle" /\ pc' = [pc EXCEPT ![p] = "alloc"] /\ UNCHANGED <<disk, info, head>>
    BY <1>1 DEF Call
  <2>3. Abs(p).at = "idle" /\ Abs(p)' = [at |-> "asked", write |-> w, blk |-> k]
    BY <2>1, <2>2 DEF Abs, Stage, Types
  <2>4. \A q \in Procs \ {p} : Abs(q)' = Abs(q)
    BY <2>1, <2>2, StageKept DEF Types
  <2>5. AbsCall' = [AbsCall EXCEPT ![p] = [at |-> "asked", write |-> w, blk |-> k]]
    BY <2>3, <2>4 DEF AbsCall
  <2>6. AbsCall[p].at = "idle"
    BY <2>3 DEF AbsCall
  <2> QED BY <2>1, <2>2, <2>5, <2>6, <1>0 DEF Device!Ask, AbsCall, Abs
<1>2. ASSUME NEW p \in Procs, Submit(p) PROVE UNCHANGED Device!vars
  <2>1. PICK a \in free, b \in free, c \in free : ThreeDescs = <<a, b, c>>
    <3>1. \E a, b, c : ThreeDescs = <<a, b, c>>
      BY DEF ThreeDescs
    <3>2. Cardinality(free) >= 3
      BY <1>2 DEF Submit
    <3>3. {ThreeDescs[1], ThreeDescs[2], ThreeDescs[3]} \subseteq free
      BY <3>2, ThreeFree
    <3> QED BY <3>1, <3>3
  <2>2. /\ pc[p] = "alloc" /\ pc' = [pc EXCEPT ![p] = "busy"]
        /\ info' = [info EXCEPT ![a] = [buf |-> p, status |-> 255]]
        /\ head' = [head EXCEPT ![p] = a] /\ UNCHANGED <<b_data, disk, req>>
    BY <1>2, <2>1 DEF Submit, AtAlloc
  <2>3. a \in Descs /\ info'[a].status = 255
    BY <2>1, <2>2 DEF Types
  <2>4. Abs(p)' = Abs(p)
    BY <2>2, <2>3 DEF Abs, Stage, Types
  <2>5. ASSUME NEW q \in Procs \ {p} PROVE Abs(q)' = Abs(q)
    <3>1. pc[q] = "busy" => head[q] # a
      BY ChainUsed DEF InFlight
    <3> QED BY <2>2, <3>1, StageKept DEF Types
  <2>6. AbsCall' = AbsCall
    BY <2>4, <2>5 DEF AbsCall
  <2> QED BY <2>2, <2>6, <1>0 DEF Device!vars, AbsCall, Abs
<1>3. ASSUME NEW p \in Procs, Finish(p) PROVE Device!Return(p)
  <2>1. /\ pc[p] = "busy" /\ p \notin asleep /\ pc' = [pc EXCEPT ![p] = "idle"]
        /\ info' = [info EXCEPT ![head[p]].buf = Nil]
        /\ head' = [head EXCEPT ![p] = Nil]
        /\ req' = [req EXCEPT ![p] = [write |-> FALSE, blk |-> 0]]
        /\ b_data' = [b_data EXCEPT ![p] = 0] /\ UNCHANGED disk
    BY <1>3 DEF Finish
  <2>2. info[head[p]].status = 0
    BY <2>1 DEF SleepInv
  <2>3. Abs(p).at = "done" /\ Abs(p)' = Device!NoCall
    BY <2>1, <2>2 DEF Abs, Stage, Types, Device!NoCall
  <2>4. ASSUME NEW q \in Procs \ {p} PROVE Abs(q)' = Abs(q)
    <3>1. pc[q] = "busy" => head[q] \in Descs
      BY ChainUsed DEF InFlight
    <3>2. pc[q] = "busy" => info'[head[q]].status = info[head[q]].status
      BY <2>1, <3>1 DEF Types
    <3> QED BY <2>1, <3>2, StageKept DEF Types
  <2>5. AbsCall' = [AbsCall EXCEPT ![p] = Device!NoCall] /\ AbsCall[p].at = "done"
    BY <2>3, <2>4 DEF AbsCall
  <2> QED BY <2>1, <2>5, <1>0 DEF Device!Return, AbsCall, Abs
<1>4. ASSUME NEW h \in Descs, DeviceComplete(h)
      PROVE  \E p \in Procs : Device!Transfer(p)
  <2>1. PICK p \in asleep : /\ p \in InFlight /\ head[p] = h /\ info[h].status = 255
                            /\ Formatted(p) /\ p \in Procs
    <3>1. Waiting(h, 255)
      BY <1>4 DEF DeviceComplete, RingInv
    <3> QED BY <3>1, WaitingUsed DEF InFlight
  <2>2. /\ info' = [info EXCEPT ![h].status = 0] /\ UNCHANGED <<pc, req, head>>
        /\ IF req[p].write
             THEN disk' = [disk EXCEPT ![req[p].blk] = b_data[p]] /\ UNCHANGED b_data
             ELSE b_data' = [b_data EXCEPT ![p] = disk[req[p].blk]] /\ UNCHANGED disk
    BY <1>4, <2>1 DEF DeviceComplete, Formatted
  <2>3. info'[h].status = 0
    BY <2>2 DEF Types
  <2>4. /\ Abs(p) = [at |-> "asked", write |-> req[p].write, blk |-> req[p].blk]
        /\ Abs(p)' = [at |-> "done", write |-> req[p].write, blk |-> req[p].blk]
    BY <2>1, <2>2, <2>3 DEF Abs, Stage, InFlight
  <2>5. ASSUME NEW q \in Procs \ {p} PROVE Abs(q)' = Abs(q)
    <3>1. pc[q] = "busy" => head[q] # h
      BY <2>1, ChainUsed DEF InFlight
    <3>2. pc[q] = "busy" => info'[head[q]].status = info[head[q]].status
      <4> SUFFICES ASSUME pc[q] = "busy" PROVE info'[head[q]].status = info[head[q]].status
        OBVIOUS
      <4>1. head[q] \in Descs
        BY ChainUsed DEF InFlight
      <4> QED BY <2>2, <3>1, <4>1 DEF Types
    <3> QED BY <2>2, <3>2, StageKept
  <2>6. AbsCall' = [AbsCall EXCEPT ![p].at = "done"] /\ AbsCall[p].at = "asked"
        /\ AbsCall[p].write = req[p].write /\ AbsCall[p].blk = req[p].blk
    <3>1. AbsCall[p] = [at |-> "asked", write |-> req[p].write, blk |-> req[p].blk]
      BY <2>1, <2>4 DEF AbsCall
    <3>2. [AbsCall[p] EXCEPT !.at = "done"]
            = [at |-> "done", write |-> req[p].write, blk |-> req[p].blk]
      BY <3>1
    <3>3. [AbsCall EXCEPT ![p].at = "done"]
            = [q \in Procs |-> IF q = p THEN [AbsCall[p] EXCEPT !.at = "done"] ELSE Abs(q)]
      BY <2>1 DEF AbsCall
    <3>4. AbsCall' = [q \in Procs |-> IF q = p THEN [AbsCall[p] EXCEPT !.at = "done"] ELSE Abs(q)]
      BY <3>2, <2>4, <2>5 DEF AbsCall
    <3> QED BY <3>1, <3>3, <3>4
  <2>7. Device!Transfer(p)
    BY <2>2, <2>6, <1>0 DEF Device!Transfer, AbsCall, Abs
  <2> QED BY <2>1, <2>7
<1>5. ASSUME UNCHANGED <<pc, req, head, info, b_data, disk>> PROVE UNCHANGED Device!vars
  BY <1>5 DEF Device!vars, Stage
<1>6. CASE DeviceFetch \/ IrqStep \/ UNCHANGED vars
  BY <1>5, <1>6 DEF DeviceFetch, IrqStep, IrqEnter, IrqEntry, IrqExit, vars
<1>7. ASSUME NEW p \in Procs, NoRoom(p) PROVE UNCHANGED Device!vars
  BY <1>5, <1>7 DEF NoRoom
<1> QED BY <1>1, <1>2, <1>3, <1>4, <1>6, <1>7 DEF Next, ProcStep, Device!Next

(* The driver, the device and the handler implement what the buffer cache  *)
(* relies on: each call of virtio_disk_read() or virtio_disk_write()       *)
(* transfers its block once, in one step, between its call and its return. *)
THEOREM DriverImplementsDevice == Spec => ImplementsDevice
<1>1. ImplementsDevice <=> Device!Init /\ [][Device!Next]_Device!vars
  BY DEF ImplementsDevice, Device!Spec
<1> QED BY <1>1, Driver, DeviceInit, DeviceStep, PTL DEF Spec
=============================================================================
