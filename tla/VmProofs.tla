------------------------------- MODULE VmProofs -------------------------------
(***************************************************************************)
(* Proofs about modules Phys and Vm, for any memory, any orders of blocks  *)
(* and any number of processes and virtual pages.                          *)
(***************************************************************************)
EXTENDS Vm, FiniteSetTheorems, FunctionTheorems, SequenceTheorems,
        NaturalsInduction, WellFoundedInduction, TLAPS

(* Page g is a multiple of the blocks of order k.                          *)
Aligned(g, k) == \E q \in Nat : g = q * Span(k)

(* Page g is in the block x, a pair of a first page and an order.          *)
Within(g, x) == x[1] <= g /\ g < x[1] + Span(x[2])

(* The blocks of B tile the memory.                                        *)
Tiles(B) ==
    /\ B \subseteq Pages \X Orders
    /\ \A x \in B : Aligned(x[1], x[2]) /\ x[1] + Span(x[2]) <= NPages
    /\ \A g \in Pages : \E x \in B : Within(g, x)
    /\ \A g \in Pages, x, y \in B : Within(g, x) /\ Within(g, y) => x = y

(* x is on the list s; nothing is on it twice.                             *)
OnList(s, x) == \E i \in DOMAIN s : s[i] = x
Once(s) == \A i, j \in DOMAIN s : s[i] = s[j] => i = j

(* Block <<g, k>> is on a free list of b.                                  *)
IsFree(b, g, k) == OnList(b.list[k], g)

(* The blocks of b, free or in use.                                        *)
BlocksOf(b) ==
    {x \in Pages \X Orders :
        IsFree(b, x[1], x[2]) \/ (b.count[x[1]] > 0 /\ b.order[x[1]] = x[2])}

(* What the buddy system keeps: no block is twice on a list, the blocks    *)
(* tile the memory, and the order recorded for a free block may be stale   *)
(* but is never above its own, so whoever tests it for a merge finds the   *)
(* block on the list of that order.                                        *)
BuddyInv(b) ==
    /\ b \in [list : [Orders -> Seq(Pages)], count : [Pages -> Nat],
             order : [Pages -> Orders]]
    /\ \A k \in Orders : Once(b.list[k])
    /\ \A g \in Pages, k \in Orders :
          IsFree(b, g, k) => b.count[g] = 0 /\ b.order[g] <= k
    /\ Tiles(BlocksOf(b))
-----------------------------------------------------------------------------
(* Powers of two and their multiples                                       *)

(* A set has as many subsets with a given further element as without it,   *)
(* which is how the powers of two grow.                                    *)
LEMMA PowerStep ==
  ASSUME NEW k \in Nat
  PROVE  /\ 2^k \in Nat \ {0} /\ 2^(k + 1) = 2 * 2^k
<1> DEFINE S == 1 .. k
           T == 1 .. k + 1
           A == SUBSET S
           B == {X \cup {k + 1} : X \in A}
<1>1. /\ IsFiniteSet(S) /\ Cardinality(S) = k
      /\ IsFiniteSet(T) /\ Cardinality(T) = k + 1
  BY FS_Interval
<1>2. /\ IsFiniteSet(A) /\ Cardinality(A) = 2^k
      /\ Cardinality(SUBSET T) = 2^(k + 1)
  BY <1>1, FS_SUBSET
<1>3. k + 1 \notin S /\ T = S \cup {k + 1}
  OBVIOUS
<1>4. SUBSET T = A \cup B /\ A \cap B = {}
  <2>1. ASSUME NEW X \in SUBSET T PROVE X \in A \cup B
    <3>1. CASE k + 1 \in X
      <4>1. X = (X \ {k + 1}) \cup {k + 1} /\ X \ {k + 1} \in A
        BY <3>1, <1>3
      <4> QED BY <4>1
    <3>2. CASE k + 1 \notin X
      BY <3>2, <1>3
    <3> QED BY <3>1, <3>2
  <2>2. A \subseteq SUBSET T /\ B \subseteq SUBSET T /\ A \cap B = {}
    BY <1>3
  <2> QED BY <2>1, <2>2
<1>5. IsFiniteSet(B) /\ Cardinality(B) = Cardinality(A)
  <2> DEFINE f == [X \in A |-> X \cup {k + 1}]
  <2>1. \A X, Y \in A : f[X] = f[Y] => X = Y
    BY <1>3
  <2>2. f \in [A -> B] /\ \A Y \in B : \E X \in A : f[X] = Y
    OBVIOUS
  <2>3. f \in Bijection(A, B)
    BY <2>1, <2>2, Fun_IsBij
  <2> QED BY <2>3, <1>2, FS_Bijection DEF ExistsBijection
<1> HIDE DEF A, B, T, S
<1>6. Cardinality(A \cup B) = Cardinality(A) + Cardinality(B)
  <2>1. Cardinality(A \cap B) = 0
    BY <1>4, FS_EmptySet
  <2>2. Cardinality(A \cup B) = Cardinality(A) + Cardinality(B) - Cardinality(A \cap B)
    BY <1>2, <1>5, FS_Union
  <2> QED BY <1>2, <1>5, <2>1, <2>2, FS_CardinalityType
<1>7. Cardinality(A) \in Nat /\ {} \in A /\ Cardinality(A) # 0
  BY <1>2, FS_CardinalityType, FS_EmptySet DEF A
<1>8. Cardinality(SUBSET T) = Cardinality(A) + Cardinality(A)
  BY <1>4, <1>5, <1>6
<1>9. 2^(k + 1) = 2^k + 2^k
  BY <1>2, <1>8
<1>10. 2^k \in Nat \ {0}
  BY <1>2, <1>7
<1> QED BY <1>9, <1>10

(* A set of numbers has a least one.                                       *)
LEMMA MinOf ==
  ASSUME NEW S \in SUBSET Nat, S # {}
  PROVE  Min(S) \in S /\ \A y \in S : Min(S) <= y
<1>1. IsWellFoundedOn(OpToRel(<, Nat), Nat)
  BY NatLessThanWellFounded
<1>2. \E x \in S : \A y \in S : ~(<<y, x>> \in OpToRel(<, Nat))
  BY <1>1, WFMin
<1>3. \E x \in S : \A y \in S : x <= y
  <2>1. PICK x \in S : \A y \in S : ~(y < x)
    BY <1>2 DEF OpToRel
  <2> QED BY <2>1
<1> QED BY <1>3 DEF Min

(* A bounded set of numbers has a greatest one.                            *)
LEMMA MaxOf ==
  ASSUME NEW S \in SUBSET Nat, S # {}, NEW n \in Nat, \A x \in S : x <= n
  PROVE  Max(S) \in S /\ \A y \in S : y <= Max(S)
<1> DEFINE T == {n - x : x \in S}
<1>1. \A x \in S : n - x \in Nat
  OBVIOUS
<1>2. T \in SUBSET Nat /\ T # {}
  BY <1>1
<1>3. Min(T) \in T /\ \A y \in T : Min(T) <= y
  BY <1>2, MinOf
<1>4. PICK x \in S : Min(T) = n - x
  BY <1>3
<1>5. \A y \in S : n - x <= n - y
  BY <1>3, <1>4
<1>6. \A y \in S : y <= x
  BY <1>5
<1> QED BY <1>6 DEF Max

(* Induction, for a set of numbers.                                        *)
LEMMA Induction ==
  ASSUME NEW S \in SUBSET Nat, 0 \in S, \A m \in S : m + 1 \in S
  PROVE  S = Nat
<1> SUFFICES ASSUME Nat \ S # {} PROVE FALSE
  OBVIOUS
<1> DEFINE x == Min(Nat \ S)
<1>1. x \in Nat \ S /\ \A y \in Nat \ S : x <= y
  BY MinOf
<1> HIDE DEF x
<1>2. x # 0 /\ x - 1 \in Nat /\ x - 1 \notin Nat \ S /\ (x - 1) + 1 = x
  BY <1>1
<1> QED BY <1>1, <1>2

(* The same of the sizes of blocks.                                        *)
LEMMA SpanStep ==
  /\ \A k \in Nat : Span(k) \in Nat \ {0} /\ Span(k + 1) = 2 * Span(k)
  /\ Span(0) = 1
<1>1. 2^0 = 1
  OBVIOUS
<1> QED BY <1>1, PowerStep DEF Span

(* Blocks of a greater order are at least twice as large.                  *)
LEMMA SpanGrows ==
  ASSUME NEW j \in Nat, NEW k \in Nat, j < k
  PROVE  Span(k) >= 2 * Span(j) /\ Span(k) > Span(j)
<1> DEFINE T == {n \in Nat : n > j => Span(n) >= 2 * Span(j)}
<1>1. Span(j) \in Nat \ {0}
  BY SpanStep
<1>2. 0 \in T
  OBVIOUS
<1>3. ASSUME NEW n \in T PROVE n + 1 \in T
  <2>1. Span(n) \in Nat \ {0} /\ Span(n + 1) = 2 * Span(n)
    BY SpanStep
  <2>2. n = j \/ n > j \/ n < j
    OBVIOUS
  <2> QED BY <1>1, <2>1, <2>2
<1>4. T = Nat
  <2> HIDE DEF T
  <2>1. T \in SUBSET Nat
    BY DEF T
  <2> QED BY <1>2, <1>3, <2>1, Induction
<1>5. k \in T /\ Span(k) \in Nat
  BY <1>4, SpanStep
<1> QED BY <1>1, <1>5

(* Multiples of a size.                                                    *)
LEMMA Multiples ==
  ASSUME NEW s \in Nat \ {0}, NEW a \in Nat, NEW b \in Nat
  PROVE  /\ a * s \in Nat /\ (a + 1) * s = a * s + s
         /\ a * s < (b + 1) * s => a <= b
<1>1. a * s \in Nat /\ (a + 1) * s = a * s + s
  OBVIOUS
<1>2. ASSUME a > b PROVE a * s >= (b + 1) * s
  <2>1. PICK d \in Nat : a = (b + 1) + d
    <3>1. a - (b + 1) \in Nat /\ a = (b + 1) + (a - (b + 1))
      BY <1>2
    <3> QED BY <3>1
  <2>2. a * s = (b + 1) * s + d * s /\ d * s \in Nat /\ (b + 1) * s \in Nat
    BY <2>1
  <2> QED BY <2>2
<1>3. a * s \in Nat /\ (b + 1) * s \in Nat /\ (a > b \/ a <= b)
  OBVIOUS
<1> QED BY <1>1, <1>2, <1>3

(* What is a multiple of a block is one of every smaller block.            *)
LEMMA AlignedDown ==
  ASSUME NEW g, NEW j \in Nat, NEW k \in Nat, j <= k, Aligned(g, k)
  PROVE  Aligned(g, j)
<1> DEFINE T == {n \in Nat : n >= j /\ Aligned(g, n) => Aligned(g, j)}
<1>1. 0 \in T
  OBVIOUS
<1>2. ASSUME NEW n \in T PROVE n + 1 \in T
  <2> SUFFICES ASSUME n + 1 >= j, Aligned(g, n + 1), n + 1 # j PROVE Aligned(g, j)
    OBVIOUS
  <2>1. PICK q \in Nat : g = q * Span(n + 1)
    BY DEF Aligned
  <2>2. Span(n) \in Nat /\ Span(n + 1) = 2 * Span(n)
    BY SpanStep
  <2>3. g = (q * 2) * Span(n) /\ q * 2 \in Nat
    BY <2>1, <2>2
  <2>4. Aligned(g, n)
    BY <2>3 DEF Aligned
  <2> QED BY <2>4
<1>3. T = Nat
  <2> HIDE DEF T
  <2>1. T \in SUBSET Nat
    BY DEF T
  <2> QED BY <1>1, <1>2, <2>1, Induction
<1> QED BY <1>3

(* Division, as the code's masks and shifts do it.                         *)
LEMMA Division ==
  ASSUME NEW g \in Nat, NEW s \in Nat \ {0}
  PROVE  /\ g \div s \in Nat /\ g % s \in Nat /\ g % s < s
         /\ g = (g \div s) * s + (g % s)
OBVIOUS

(* Quotient and remainder are the only ones.                               *)
LEMMA DivisionIs ==
  ASSUME NEW s \in Nat \ {0}, NEW q \in Nat, NEW r \in Nat, r < s
  PROVE  (q * s + r) \div s = q /\ (q * s + r) % s = r
OBVIOUS
-----------------------------------------------------------------------------
(* Tilings of the memory                                                   *)

(* Of two blocks with a page in common the smaller is inside the other.    *)
LEMMA Nested ==
  ASSUME NEW p \in Nat, NEW q \in Nat, NEW j \in Nat, NEW k \in Nat, j <= k,
         Aligned(p, j), Aligned(q, k), NEW g \in Nat,
         p <= g, g < p + Span(j), q <= g, g < q + Span(k)
  PROVE  q <= p /\ p + Span(j) <= q + Span(k)
<1> DEFINE s == Span(j)
<1>1. s \in Nat \ {0}
  BY SpanStep
<1>2. PICK a \in Nat : p = a * s
  BY DEF Aligned
<1>3. PICK b \in Nat : q = b * s
  BY AlignedDown DEF Aligned
<1>4. PICK c \in Nat : q + Span(k) = c * s
  <2>1. PICK d \in Nat : q = d * Span(k)
    BY DEF Aligned
  <2>2. q + Span(k) = (d + 1) * Span(k) /\ d + 1 \in Nat
    BY <2>1, SpanStep, Multiples
  <2>3. Aligned(q + Span(k), k)
    BY <2>2 DEF Aligned
  <2> QED BY <2>3, AlignedDown DEF Aligned
<1> HIDE DEF s
<1>5. b <= a
  <2>1. b * s < (a + 1) * s
    BY <1>1, <1>2, <1>3, Multiples DEF s
  <2> QED BY <2>1, <1>1, Multiples
<1>6. a + 1 <= c
  <2>1. c \in Nat /\ c # 0
    BY <1>1, <1>4 DEF s
  <2>2. PICK e \in Nat : c = e + 1
    <3>1. c - 1 \in Nat /\ c = (c - 1) + 1
      BY <2>1
    <3> QED BY <3>1
  <2>3. a * s < (e + 1) * s
    <3>1. p < q + Span(k)
      BY SpanStep
    <3> QED BY <1>2, <1>4, <2>2, <3>1
  <2>4. a <= e
    BY <1>1, <2>3, Multiples
  <2> QED BY <2>2, <2>4
<1>7. b * s <= a * s /\ (a + 1) * s <= c * s
  <2>1. \A x, y \in Nat : x <= y => x * s <= y * s
    <3> SUFFICES ASSUME NEW x \in Nat, NEW y \in Nat, x <= y PROVE x * s <= y * s
      OBVIOUS
    <3>1. PICK d \in Nat : y = x + d
      <4>1. y - x \in Nat /\ y = x + (y - x)
        OBVIOUS
      <4> QED BY <4>1
    <3>2. y * s = x * s + d * s /\ d * s \in Nat /\ x * s \in Nat
      BY <1>1, <3>1
    <3> QED BY <3>2
  <2> QED BY <1>5, <1>6, <2>1
<1>8. (a + 1) * s = p + s
  BY <1>1, <1>2, Multiples
<1> QED BY <1>2, <1>3, <1>4, <1>7, <1>8 DEF s

(* Some blocks of a tiling are replaced by others with the same pages.     *)
LEMMA Replaced ==
  ASSUME NEW B, Tiles(B), NEW D \in SUBSET B, NEW A,
         A \subseteq Pages \X Orders,
         \A x \in A : Aligned(x[1], x[2]) /\ x[1] + Span(x[2]) <= NPages,
         \A g \in Pages : (\E x \in D : Within(g, x)) <=> (\E x \in A : Within(g, x)),
         \A g \in Pages, x, y \in A : Within(g, x) /\ Within(g, y) => x = y
  PROVE  Tiles((B \ D) \cup A)
<1> DEFINE E == (B \ D) \cup A
<1>1. \A g \in Pages : \E x \in E : Within(g, x)
  <2> TAKE g \in Pages
  <2>1. PICK x \in B : Within(g, x)
    BY DEF Tiles
  <2> QED BY <2>1
<1>2. ASSUME NEW g \in Pages, NEW x \in E, NEW y \in E, Within(g, x), Within(g, y)
      PROVE  x = y
  <2>1. CASE x \in A /\ y \in A
    BY <2>1, <1>2
  <2>2. CASE x \in B \ D /\ y \in B \ D
    BY <2>2, <1>2 DEF Tiles
  <2>3. CASE x \in A /\ y \in B \ D
    <3>1. PICK z \in D : Within(g, z)
      BY <2>3, <1>2
    <3> QED BY <2>3, <3>1, <1>2 DEF Tiles
  <2>4. CASE y \in A /\ x \in B \ D
    <3>1. PICK z \in D : Within(g, z)
      BY <2>4, <1>2
    <3> QED BY <2>4, <3>1, <1>2 DEF Tiles
  <2> QED BY <2>1, <2>2, <2>3, <2>4
<1> QED BY <1>1, <1>2 DEF Tiles

(* The halves that split_pages() cuts off a block of order i, down to      *)
(* order k, and what it leaves are the pages of the block.                 *)
Halves(h, k, i) == {<<h, k>>} \cup {<<h + Span(j), j>> : j \in k .. i - 1}

(* Between two sizes there is a greatest one.                              *)
LEMMA SizeBelow ==
  ASSUME NEW k \in Nat, NEW i \in Nat, NEW n \in Nat, Span(k) <= n, n < Span(i), k <= i
  PROVE  \E j \in k .. i - 1 : Span(j) <= n /\ n < 2 * Span(j)
<1> DEFINE S == {m \in Nat : k <= m /\ n < Span(m)}
           m == Min(S)
<1>1. m \in S /\ \A y \in S : m <= y
  <2> HIDE DEF m
  <2>1. i \in S /\ S \in SUBSET Nat
    OBVIOUS
  <2> HIDE DEF S
  <2>2. S # {}
    BY <2>1
  <2> QED BY <2>1, <2>2, MinOf DEF m
<1> HIDE DEF m
<1>2. m # k /\ m <= i /\ m \in Nat /\ k < m /\ n < Span(m)
  <2>1. m <= i
    BY <1>1
  <2>2. m \in Nat /\ k <= m /\ n < Span(m)
    BY <1>1
  <2>3. Span(k) \in Nat
    BY SpanStep
  <2>4. m # k
    BY <2>2, <2>3
  <2> QED BY <2>1, <2>2, <2>4
<1>3. m - 1 \in k .. i - 1 /\ m - 1 \in Nat /\ (m - 1) + 1 = m
  BY <1>2
<1>4. ~(n < Span(m - 1))
  BY <1>1, <1>3
<1>5. Span(m - 1) \in Nat /\ Span(m) = 2 * Span(m - 1)
  BY <1>3, SpanStep
<1>6. Span(m - 1) <= n
  BY <1>4, <1>5
<1> QED BY <1>2, <1>3, <1>5, <1>6

(* A block of a tiling may be split.                                       *)
LEMMA SplitTiles ==
  ASSUME NEW B, Tiles(B), NEW h, NEW i, <<h, i>> \in B, NEW k \in Orders, k <= i
  PROVE  /\ Tiles((B \ {<<h, i>>}) \cup Halves(h, k, i))
         /\ \A g \in Pages : Within(g, <<h, i>>) <=> \E x \in Halves(h, k, i) : Within(g, x)
<1> DEFINE A == Halves(h, k, i)
           b == <<h, i>>
<1>1. /\ h \in Pages /\ i \in Orders /\ h \in Nat /\ i \in Nat /\ k \in Nat
      /\ Aligned(h, i) /\ h + Span(i) <= NPages
  BY PhysAssumption DEF Tiles, Pages, Orders
<1>2. \A j \in Nat : Span(j) \in Nat \ {0} /\ Span(j + 1) = 2 * Span(j)
  BY SpanStep
<1>3. \A j \in k .. i - 1 : /\ j \in Nat /\ j \in Orders
                            /\ Span(j) < Span(i) /\ 2 * Span(j) <= Span(i)
  <2> TAKE j \in k .. i - 1
  <2>1. j \in Nat /\ j < i /\ j \in Orders
    BY <1>1, PhysAssumption DEF Orders
  <2> QED BY <1>1, <2>1, SpanGrows
<1>4. Span(k) <= Span(i)
  BY <1>1, <1>2, SpanGrows
<1>5. NPages \in Nat
  BY PhysAssumption
<1>6. A \subseteq Pages \X Orders
  <2>1. ASSUME NEW j \in k .. i - 1 PROVE h + Span(j) \in Pages
    BY <1>1, <1>2, <1>3, <1>5 DEF Pages
  <2> QED BY <1>1, <1>3, <2>1 DEF Halves
<1>7. \A x \in A : Aligned(x[1], x[2]) /\ x[1] + Span(x[2]) <= NPages
  <2>1. Aligned(h, k) /\ h + Span(k) <= NPages
    BY <1>1, <1>2, <1>4, <1>5, AlignedDown
  <2>2. ASSUME NEW j \in k .. i - 1
        PROVE  Aligned(h + Span(j), j) /\ (h + Span(j)) + Span(j) <= NPages
    <3>1. Aligned(h, j)
      BY <1>1, <1>3, AlignedDown
    <3>2. PICK q \in Nat : h = q * Span(j)
      BY <3>1 DEF Aligned
    <3>3. h + Span(j) = (q + 1) * Span(j) /\ q + 1 \in Nat
      BY <1>2, <1>3, <3>2, Multiples
    <3> QED BY <1>1, <1>2, <1>3, <1>5, <3>3 DEF Aligned
  <2>3. \A x \in A : x = <<h, k>> \/ \E j \in k .. i - 1 : x = <<h + Span(j), j>>
    BY DEF Halves
  <2> QED BY <2>1, <2>2, <2>3
<1>8. \A g \in Pages : Within(g, b) <=> \E x \in A : Within(g, x)
  <2> TAKE g \in Pages
  <2>0. g \in Nat
    BY <1>5 DEF Pages
  <2>1. ASSUME Within(g, b) PROVE \E x \in A : Within(g, x)
    <3>1. h <= g /\ g < h + Span(i)
      BY <2>1 DEF Within
    <3>2. PICK n \in Nat : g = h + n
      <4>1. g - h \in Nat /\ g = h + (g - h)
        BY <1>1, <2>0, <3>1
      <4> QED BY <4>1
    <3>3. CASE n < Span(k)
      <4>1. <<h, k>> \in A /\ Within(g, <<h, k>>)
        BY <1>1, <1>2, <3>2, <3>3 DEF Within, Halves
      <4> QED BY <4>1
    <3>4. CASE Span(k) <= n
      <4>1. n < Span(i)
        BY <1>1, <1>2, <3>1, <3>2
      <4>2. PICK j \in k .. i - 1 : Span(j) <= n /\ n < 2 * Span(j)
        BY <1>1, <3>4, <4>1, SizeBelow
      <4>3. <<h + Span(j), j>> \in A /\ Within(g, <<h + Span(j), j>>)
        BY <1>1, <1>2, <1>3, <3>2, <4>2 DEF Within, Halves
      <4> QED BY <4>3
    <3> QED BY <1>1, <1>2, <3>3, <3>4
  <2>2. ASSUME NEW x \in A, Within(g, x) PROVE Within(g, b)
    <3>1. CASE x = <<h, k>>
      BY <1>1, <1>2, <1>4, <2>0, <2>2, <3>1 DEF Within
    <3>2. ASSUME NEW j \in k .. i - 1, x = <<h + Span(j), j>> PROVE Within(g, b)
      <4>1. h + Span(j) <= g /\ g < (h + Span(j)) + Span(j)
        BY <2>2, <3>2 DEF Within
      <4> QED BY <1>1, <1>2, <1>3, <2>0, <4>1 DEF Within
    <3> QED BY <3>1, <3>2 DEF Halves
  <2> QED BY <2>1, <2>2
<1>9. ASSUME NEW g \in Pages, NEW x \in A, NEW y \in A, Within(g, x), Within(g, y)
      PROVE  x = y
  <2>0. g \in Nat
    BY <1>5 DEF Pages
  <2>1. \A j, l \in k .. i - 1 : Within(g, <<h + Span(j), j>>)
            /\ Within(g, <<h + Span(l), l>>) => ~(j < l)
    <3> SUFFICES ASSUME NEW j \in k .. i - 1, NEW l \in k .. i - 1, j < l,
                        Within(g, <<h + Span(j), j>>), Within(g, <<h + Span(l), l>>)
                 PROVE  FALSE
      OBVIOUS
    <3>1. g < (h + Span(j)) + Span(j) /\ h + Span(l) <= g
      BY DEF Within
    <3>2. 2 * Span(j) <= Span(l)
      BY <1>3, SpanGrows
    <3> QED BY <1>1, <1>2, <1>3, <2>0, <3>1, <3>2
  <2>2. \A j \in k .. i - 1 : ~(Within(g, <<h, k>>) /\ Within(g, <<h + Span(j), j>>))
    <3> SUFFICES ASSUME NEW j \in k .. i - 1, Within(g, <<h, k>>),
                        Within(g, <<h + Span(j), j>>)
                 PROVE  FALSE
      OBVIOUS
    <3>1. g < h + Span(k) /\ h + Span(j) <= g
      BY DEF Within
    <3>2. Span(k) <= Span(j)
      BY <1>1, <1>2, <1>3, SpanGrows
    <3> QED BY <1>1, <1>2, <1>3, <2>0, <3>1, <3>2
  <2>3. \A z \in A : z = <<h, k>> \/ \E j \in k .. i - 1 : z = <<h + Span(j), j>>
    BY DEF Halves
  <2>4. CASE x = <<h, k>>
    BY <2>2, <2>3, <2>4, <1>9
  <2>5. CASE y = <<h, k>>
    BY <2>2, <2>3, <2>5, <1>9
  <2>6. ASSUME NEW j \in k .. i - 1, x = <<h + Span(j), j>>,
               NEW l \in k .. i - 1, y = <<h + Span(l), l>>
        PROVE  x = y
    <3>1. ~(j < l) /\ ~(l < j)
      BY <2>1, <2>6, <1>9
    <3>2. j = l
      BY <1>3, <3>1
    <3> QED BY <2>6, <3>2
  <2> QED BY <2>3, <2>4, <2>5, <2>6
<1>10. \A g \in Pages : (\E x \in {b} : Within(g, x)) <=> (\E x \in A : Within(g, x))
  BY <1>8
<1> HIDE DEF A
<1>11. Tiles((B \ {b}) \cup A)
  BY <1>6, <1>7, <1>9, <1>10, Replaced
<1> QED BY <1>8, <1>11 DEF A

(* The block of order k that page g is in.                                 *)
LEMMA BaseIs ==
  ASSUME NEW g \in Nat, NEW k \in Nat
  PROVE  /\ Base(g, k) \in Nat /\ Aligned(Base(g, k), k)
         /\ Base(g, k) <= g /\ g < Base(g, k) + Span(k)
<1>1. Span(k) \in Nat \ {0}
  BY SpanStep
<1>2. /\ g \div Span(k) \in Nat /\ g % Span(k) \in Nat /\ g % Span(k) < Span(k)
      /\ g = (g \div Span(k)) * Span(k) + (g % Span(k))
  BY <1>1, Division
<1>3. (g \div Span(k)) * Span(k) \in Nat
  BY <1>1, <1>2, Multiples
<1>4. Base(g, k) = (g \div Span(k)) * Span(k)
  BY <1>2, <1>3 DEF Base
<1>5. Aligned(Base(g, k), k)
  BY <1>2, <1>4 DEF Aligned
<1>6. Base(g, k) + (g % Span(k)) = g /\ Base(g, k) \in Nat
  BY <1>2, <1>3, <1>4
<1> DEFINE B == Base(g, k)
           r == g % Span(k)
<1>7. B + r = g /\ B \in Nat /\ r \in Nat /\ r < Span(k)
  BY <1>2, <1>6
<1> HIDE DEF B, r
<1>8. B <= g /\ g < B + Span(k)
  BY <1>1, <1>7
<1> QED BY <1>5, <1>7, <1>8 DEF B

(* There is only one.                                                      *)
LEMMA BaseOnly ==
  ASSUME NEW g \in Nat, NEW k \in Nat, NEW p \in Nat, Aligned(p, k),
         p <= g, g < p + Span(k)
  PROVE  Base(g, k) = p
<1>1. /\ Base(g, k) \in Nat /\ Aligned(Base(g, k), k)
      /\ Base(g, k) <= g /\ g < Base(g, k) + Span(k)
  BY BaseIs
<1>2. p <= Base(g, k)
  BY <1>1, Nested
<1>3. Base(g, k) <= p
  BY <1>1, Nested
<1> QED BY <1>1, <1>2, <1>3

(* A block and its buddy are the halves of the block around them.          *)
LEMMA BuddyIs ==
  ASSUME NEW p \in Nat, NEW k \in Nat, Aligned(p, k)
  PROVE  LET t == Base(p, k + 1) q == whois_buddy(p, k) IN
         /\ q \in Nat /\ Aligned(q, k)
         /\ \/ p = t /\ q = t + Span(k)
            \/ q = t /\ p = t + Span(k)
<1> DEFINE t == Base(p, k + 1)
           s == Span(k)
           q == whois_buddy(p, k)
<1>1. s \in Nat \ {0} /\ Span(k + 1) = 2 * s
  BY SpanStep
<1>2. PICK a \in Nat : p = a * s
  BY DEF Aligned
<1>3. PICK b \in Nat : a = 2 * b \/ a = 2 * b + 1
  <2>1. a \div 2 \in Nat /\ (a = 2 * (a \div 2) \/ a = 2 * (a \div 2) + 1)
    OBVIOUS
  <2> QED BY <2>1
<1>4. 2 * s \in Nat \ {0} /\ b * (2 * s) \in Nat /\ b * (2 * s) = (2 * b) * s
  BY <1>1
<1> HIDE DEF s
<1>5. CASE a = 2 * b
  <2>1. p = b * (2 * s) + 0
    BY <1>2, <1>4, <1>5
  <2>2. p % (2 * s) = 0
    BY <1>4, <2>1, DivisionIs
  <2>3. t = p /\ q = p + s
    BY <1>1, <2>2 DEF Base, whois_buddy, s
  <2>4. p + s = (a + 1) * s /\ a + 1 \in Nat
    BY <1>1, <1>2, Multiples
  <2>5. p + s \in Nat
    BY <1>1
  <2> QED BY <2>3, <2>4, <2>5 DEF s, Aligned
<1>6. CASE a = 2 * b + 1
  <2>1. p = b * (2 * s) + s
    <3>1. (2 * b + 1) * s = (2 * b) * s + s
      BY <1>1, Multiples
    <3> QED BY <1>2, <1>4, <1>6, <3>1
  <2>2. p % (2 * s) = s
    <3>1. s < 2 * s /\ s \in Nat
      BY <1>1
    <3> QED BY <1>4, <2>1, <3>1, DivisionIs
  <2>3. t = p - s /\ q = p - s
    BY <1>1, <2>2 DEF Base, whois_buddy, s
  <2>4. p - s = (2 * b) * s /\ 2 * b \in Nat /\ p - s \in Nat /\ p = (p - s) + s
    BY <1>1, <1>4, <2>1
  <2> QED BY <2>3, <2>4 DEF s, Aligned
<1> QED BY <1>3, <1>5, <1>6 DEF s

(* Two blocks of a tiling that are buddies may be merged.                  *)
LEMMA MergeTiles ==
  ASSUME NEW B, Tiles(B), NEW p, NEW m, <<p, m>> \in B, m + 1 \in Orders,
         <<whois_buddy(p, m), m>> \in B
  PROVE  Tiles((B \ {<<p, m>>, <<whois_buddy(p, m), m>>})
                  \cup {<<Base(p, m + 1), m + 1>>})
<1> DEFINE q == whois_buddy(p, m)
           t == Base(p, m + 1)
           D == {<<p, m>>, <<q, m>>}
           A == {<<t, m + 1>>}
<1>1. /\ p \in Pages /\ q \in Pages /\ m \in Orders /\ p \in Nat /\ m \in Nat /\ q \in Nat
      /\ Aligned(p, m) /\ p + Span(m) <= NPages /\ q + Span(m) <= NPages
      /\ NPages \in Nat
  BY PhysAssumption DEF Tiles, Pages, Orders
<1>2. Span(m) \in Nat \ {0} /\ Span(m + 1) = 2 * Span(m)
  BY <1>1, SpanStep
<1>3. \/ p = t /\ q = t + Span(m)
      \/ q = t /\ p = t + Span(m)
  BY <1>1, BuddyIs
<1>4. t \in Nat /\ Aligned(t, m + 1)
  BY <1>1, BaseIs
<1> HIDE DEF q, t
<1>5. t \in Pages /\ t + Span(m + 1) <= NPages
  BY <1>1, <1>2, <1>3, <1>4
<1>6. \A g \in Pages : (\E x \in D : Within(g, x)) <=> (\E x \in A : Within(g, x))
  <2> TAKE g \in Pages
  <2>1. g \in Nat
    BY <1>1 DEF Pages
  <2>2. Within(g, <<t, m + 1>>) <=> (Within(g, <<p, m>>) \/ Within(g, <<q, m>>))
    BY <1>1, <1>2, <1>3, <1>4, <2>1 DEF Within
  <2> QED BY <2>2
<1>7. Tiles((B \ D) \cup A)
  <2>1. D \in SUBSET B
    BY DEF q
  <2>2. /\ A \subseteq Pages \X Orders
        /\ \A x \in A : Aligned(x[1], x[2]) /\ x[1] + Span(x[2]) <= NPages
        /\ \A g \in Pages, x, y \in A : Within(g, x) /\ Within(g, y) => x = y
    BY <1>4, <1>5
  <2> HIDE DEF A, D
  <2> QED BY <1>6, <2>1, <2>2, Replaced
<1> QED BY <1>7 DEF q, t
-----------------------------------------------------------------------------
(* The buddy system                                                        *)

(* list_del() takes the one element away.                                  *)
LEMMA ListDel ==
  ASSUME NEW S, NEW s \in Seq(S), NEW x, Once(s)
  PROVE  /\ list_del(s, x) \in Seq(S) /\ Once(list_del(s, x))
         /\ \A y : OnList(list_del(s, x), y) <=> y # x /\ OnList(s, y)
<1>1. CASE ~OnList(s, x)
  <2>1. list_del(s, x) = s
    BY <1>1 DEF list_del, OnList
  <2> QED BY <1>1, <2>1
<1>2. CASE OnList(s, x)
  <2> DEFINE z == CHOOSE i \in DOMAIN s : s[i] = x
             t == [j \in 1 .. Len(s) - 1 |-> IF j < z THEN s[j] ELSE s[j + 1]]
  <2>1. list_del(s, x) = t
    BY <1>2 DEF list_del, OnList
  <2>2. z \in DOMAIN s /\ s[z] = x
    BY <1>2 DEF OnList
  <2> HIDE DEF z
  <2>3. /\ DOMAIN s = 1 .. Len(s) /\ Len(s) \in Nat /\ z \in Nat
        /\ 1 <= z /\ z <= Len(s) /\ Len(s) - 1 \in Nat
    BY <2>2
  <2>4. DOMAIN t = 1 .. Len(s) - 1
    OBVIOUS
  <2>5. \A j \in 1 .. Len(s) - 1 : /\ j < z => t[j] = s[j]
                                   /\ ~(j < z) => t[j] = s[j + 1]
                                   /\ j \in 1 .. Len(s) /\ j + 1 \in 1 .. Len(s)
    BY <2>3
  <2> HIDE DEF t
  <2>6. \A j \in 1 .. Len(s) - 1 : t[j] \in S
    BY <2>3, <2>5
  <2>7. t \in Seq(S)
    <3>1. t = [j \in 1 .. Len(s) - 1 |-> t[j]]
      BY <2>4 DEF t
    <3>2. t \in [1 .. Len(s) - 1 -> S]
      BY <2>6, <3>1
    <3> QED BY <2>3, <3>2, SeqDef
  <2>8. \A i, j \in 1 .. Len(s) - 1 : t[i] = t[j] => i = j
    <3>0. \A i, j \in DOMAIN s : s[i] = s[j] => i = j
      BY DEF Once
    <3> SUFFICES ASSUME NEW i \in 1 .. Len(s) - 1, NEW j \in 1 .. Len(s) - 1, t[i] = t[j]
                 PROVE  i = j
      OBVIOUS
    <3>1. CASE i < z /\ j < z
      BY <2>3, <2>5, <3>0, <3>1
    <3>2. CASE ~(i < z) /\ ~(j < z)
      <4>1. i + 1 = j + 1
        BY <2>3, <2>5, <3>0, <3>2
      <4> QED BY <4>1
    <3>3. CASE i < z /\ ~(j < z)
      <4>1. i = j + 1
        BY <2>3, <2>5, <3>0, <3>3
      <4> QED BY <2>3, <3>3, <4>1
    <3>4. CASE ~(i < z) /\ j < z
      <4>1. i + 1 = j
        BY <2>3, <2>5, <3>0, <3>4
      <4> QED BY <2>3, <3>4, <4>1
    <3> QED BY <3>1, <3>2, <3>3, <3>4
  <2>9. ASSUME NEW i \in 1 .. Len(s) - 1 PROVE t[i] # x /\ \E j \in DOMAIN s : s[j] = t[i]
    <3>0. \A l, m \in DOMAIN s : s[l] = s[m] => l = m
      BY DEF Once
    <3>1. CASE i < z
      <4>1. t[i] = s[i] /\ i \in DOMAIN s /\ i # z
        BY <2>3, <2>5, <3>1
      <4> QED BY <2>2, <3>0, <4>1
    <3>2. CASE ~(i < z)
      <4>1. t[i] = s[i + 1] /\ i + 1 \in DOMAIN s /\ i + 1 # z
        BY <2>3, <2>5, <3>2
      <4> QED BY <2>2, <3>0, <4>1
    <3> QED BY <3>1, <3>2
  <2>10. ASSUME NEW j \in DOMAIN s, s[j] # x PROVE \E i \in 1 .. Len(s) - 1 : t[i] = s[j]
    <3>1. j # z /\ j \in Nat /\ 1 <= j /\ j <= Len(s)
      BY <2>2, <2>3, <2>10
    <3>2. CASE j < z
      <4>1. j \in 1 .. Len(s) - 1 /\ t[j] = s[j]
        BY <2>3, <2>5, <3>1, <3>2
      <4> QED BY <4>1
    <3>3. CASE ~(j < z)
      <4>1. /\ j - 1 \in 1 .. Len(s) - 1 /\ ~(j - 1 < z) /\ (j - 1) + 1 = j
        BY <2>3, <3>1, <3>3
      <4>2. t[j - 1] = s[j]
        BY <2>5, <4>1
      <4> QED BY <4>1, <4>2
    <3> QED BY <3>2, <3>3
  <2>11. \A y : OnList(t, y) <=> y # x /\ OnList(s, y)
    BY <2>4, <2>9, <2>10 DEF OnList
  <2>12. Once(t)
    BY <2>4, <2>8 DEF Once
  <2> QED BY <2>1, <2>7, <2>11, <2>12
<1> QED BY <1>1, <1>2

(* A change of counts that leaves the same pages in use.                   *)
LEMMA CountChange ==
  ASSUME NEW b, BuddyInv(b), NEW c \in [Pages -> Nat],
         \A g \in Pages : c[g] > 0 <=> b.count[g] > 0
  PROVE  BuddyInv([b EXCEPT !.count = c])
<1> DEFINE d == [b EXCEPT !.count = c]
<1>1. /\ d.list = b.list /\ d.order = b.order /\ d.count = c
      /\ d \in [list : [Orders -> Seq(Pages)], count : [Pages -> Nat],
                order : [Pages -> Orders]]
  BY DEF BuddyInv
<1> HIDE DEF d
<1>2. BlocksOf(d) = BlocksOf(b)
  BY <1>1 DEF BlocksOf, IsFree
<1>3. \A g \in Pages : b.count[g] = 0 => c[g] = 0
  BY DEF BuddyInv
<1> QED BY <1>1, <1>2, <1>3 DEF BuddyInv, IsFree, d

(* The first element of a list leaves it.                                  *)
LEMMA ListTail ==
  ASSUME NEW S, NEW s \in Seq(S), s # <<>>, Once(s)
  PROVE  /\ Head(s) \in S /\ OnList(s, Head(s)) /\ Tail(s) \in Seq(S) /\ Once(Tail(s))
         /\ \A y : OnList(Tail(s), y) <=> y # Head(s) /\ OnList(s, y)
<1> DEFINE t == Tail(s)
<1>0. DOMAIN s = 1 .. Len(s) /\ Len(s) \in Nat /\ \A i, j \in DOMAIN s : s[i] = s[j] => i = j
  BY DEF Once
<1>1. /\ Len(s) # 0 /\ Head(s) = s[1] /\ t \in Seq(S) /\ DOMAIN t = 1 .. Len(s) - 1
      /\ \A i \in 1 .. Len(s) - 1 : t[i] = s[i + 1]
  OBVIOUS
<1> HIDE DEF t
<1>2. 1 \in DOMAIN s /\ s[1] \in S
  BY <1>0, <1>1
<1>3. \A i \in 1 .. Len(s) - 1 : i + 1 \in DOMAIN s /\ i + 1 # 1
  BY <1>0
<1>4. \A i, j \in 1 .. Len(s) - 1 : t[i] = t[j] => i = j
  <2> SUFFICES ASSUME NEW i \in 1 .. Len(s) - 1, NEW j \in 1 .. Len(s) - 1, t[i] = t[j]
               PROVE  i = j
    OBVIOUS
  <2>1. i + 1 = j + 1
    BY <1>0, <1>1, <1>3
  <2> QED BY <2>1
<1>5. \A i \in 1 .. Len(s) - 1 : t[i] # s[1] /\ \E j \in DOMAIN s : s[j] = t[i]
  BY <1>0, <1>1, <1>2, <1>3
<1>6. ASSUME NEW j \in DOMAIN s, s[j] # s[1] PROVE \E i \in 1 .. Len(s) - 1 : t[i] = s[j]
  <2>1. j - 1 \in 1 .. Len(s) - 1 /\ (j - 1) + 1 = j
    BY <1>0, <1>6
  <2>2. t[j - 1] = s[j]
    BY <1>1, <2>1
  <2> QED BY <2>1, <2>2
<1>7. \A y : OnList(t, y) <=> y # s[1] /\ OnList(s, y)
  <2> TAKE y
  <2>1. ASSUME OnList(t, y) PROVE y # s[1] /\ OnList(s, y)
    <3>1. PICK i \in 1 .. Len(s) - 1 : t[i] = y
      BY <1>1, <2>1 DEF OnList
    <3> QED BY <1>5, <3>1 DEF OnList
  <2>2. ASSUME y # s[1], OnList(s, y) PROVE OnList(t, y)
    <3>1. PICK j \in DOMAIN s : s[j] = y
      BY <2>2 DEF OnList
    <3>2. \E i \in 1 .. Len(s) - 1 : t[i] = y
      BY <1>6, <2>2, <3>1
    <3> QED BY <1>1, <3>2 DEF OnList
  <2> QED BY <2>1, <2>2
<1>8. Once(t)
  BY <1>1, <1>4 DEF Once
<1>9. OnList(s, s[1])
  BY <1>2 DEF OnList
<1> QED BY <1>1, <1>2, <1>7, <1>8, <1>9 DEF t

(* list_add_front() of an element that is not on the list.                 *)
LEMMA ListFront ==
  ASSUME NEW S, NEW s \in Seq(S), NEW x \in S, ~OnList(s, x), Once(s)
  PROVE  /\ <<x>> \o s \in Seq(S) /\ Once(<<x>> \o s)
         /\ \A y : OnList(<<x>> \o s, y) <=> y = x \/ OnList(s, y)
<1> DEFINE t == <<x>> \o s
<1>0. /\ DOMAIN s = 1 .. Len(s) /\ Len(s) \in Nat
      /\ \A i, j \in DOMAIN s : s[i] = s[j] => i = j
      /\ \A i \in DOMAIN s : s[i] # x
  BY DEF Once, OnList
<1>1. /\ t \in Seq(S) /\ DOMAIN t = 1 .. Len(s) + 1 /\ t[1] = x
      /\ \A i \in 1 .. Len(s) + 1 : i # 1 => t[i] = s[i - 1]
  OBVIOUS
<1> HIDE DEF t
<1>2. \A i \in 1 .. Len(s) + 1 : i = 1 \/ i - 1 \in DOMAIN s
  BY <1>0
<1>3. \A i \in DOMAIN s : i + 1 \in 1 .. Len(s) + 1 /\ i + 1 # 1 /\ (i + 1) - 1 = i
  BY <1>0
<1>4. 1 \in DOMAIN t
  BY <1>0, <1>1
<1>5. \A i, j \in DOMAIN t : t[i] = t[j] => i = j
  <2> SUFFICES ASSUME NEW i \in 1 .. Len(s) + 1, NEW j \in 1 .. Len(s) + 1, t[i] = t[j]
               PROVE  i = j
    BY <1>1
  <2>1. CASE i = 1 \/ j = 1
    BY <1>0, <1>1, <1>2, <2>1
  <2>2. CASE i # 1 /\ j # 1
    <3>1. i - 1 = j - 1
      BY <1>0, <1>1, <1>2, <2>2
    <3> QED BY <3>1
  <2> QED BY <2>1, <2>2
<1>6. \A i \in DOMAIN s : t[i + 1] = s[i] /\ i + 1 \in DOMAIN t
  BY <1>1, <1>3
<1>7. \A i \in DOMAIN t : t[i] = x \/ \E j \in DOMAIN s : s[j] = t[i]
  BY <1>1, <1>2
<1>8. \A y : OnList(t, y) <=> y = x \/ OnList(s, y)
  BY <1>1, <1>4, <1>6, <1>7 DEF OnList
<1>9. Once(t)
  BY <1>5 DEF Once
<1> QED BY <1>1, <1>8, <1>9 DEF t

(* Pages of a block, other than the first, start no other block.           *)
LEMMA StartsApart ==
  ASSUME NEW B, Tiles(B), NEW x \in B, NEW y \in B, x # y
  PROVE  ~Within(y[1], x)
<1>1. y[1] \in Pages /\ y[2] \in Nat /\ y[1] \in Nat
  BY PhysAssumption DEF Tiles, Orders, Pages
<1>2. Span(y[2]) \in Nat \ {0}
  BY <1>1, SpanStep
<1>3. Within(y[1], y)
  BY <1>1, <1>2 DEF Within
<1> QED BY <1>1, <1>3 DEF Tiles

(* pages_alloc() takes a page that nobody uses and keeps the tiling.       *)
LEMMA AllocKeeps ==
  ASSUME NEW b, BuddyInv(b), NEW k \in Orders, HasBlock(b, k)
  PROVE  LET h == Allocated(b, k) d == pages_alloc(b, k) IN
         /\ BuddyInv(d)
         /\ h \in Pages /\ b.count[h] = 0
         /\ d.count = [b.count EXCEPT ![h] = 1] /\ d.order[h] = k
         /\ \A g \in Pages : b.count[g] > 0 => d.order[g] = b.order[g]
<1> DEFINE i == FoundOrder(b, k)
           h == Allocated(b, k)
           d == pages_alloc(b, k)
           B == BlocksOf(b)
<1>1. MaxOrder \in Nat /\ NPages \in Nat /\ k \in Nat
  BY PhysAssumption DEF Orders
<1>2. i \in k .. MaxOrder /\ b.list[i] # <<>>
  <2> DEFINE S == {n \in k .. MaxOrder : b.list[n] # <<>>}
  <2>1. S # {} /\ S \in SUBSET Nat
    BY <1>1 DEF HasBlock
  <2>2. Min(S) \in S
    BY <2>1, MinOf
  <2> QED BY <2>2 DEF FoundOrder
<1>3. h = Head(b.list[i])
  BY DEF Allocated
<1>4. /\ d.list = [j \in Orders |-> IF j = i THEN Tail(b.list[j])
                                    ELSE IF j \in k .. i - 1 THEN <<h + Span(j)>> \o b.list[j]
                                    ELSE b.list[j]]
      /\ d.count = [b.count EXCEPT ![h] = 1]
      /\ d.order = [g \in Pages |->
                  IF g = h THEN k
                  ELSE IF \E j \in k .. i - 1 : g = h + Span(j)
                         THEN CHOOSE j \in k .. i - 1 : g = h + Span(j)
                  ELSE b.order[g]]
      /\ d = [list |-> d.list, count |-> d.count, order |-> d.order]
  BY DEF pages_alloc
<1> HIDE DEF i, h, d
<1>5. /\ i \in Orders /\ i \in Nat /\ k <= i
      /\ \A j \in k .. i - 1 : j \in Orders /\ j \in Nat /\ j # i /\ j < i
  BY <1>1, <1>2 DEF Orders
<1>6. /\ b.count \in [Pages -> Nat] /\ b.order \in [Pages -> Orders]
      /\ \A j \in Orders : b.list[j] \in Seq(Pages) /\ Once(b.list[j])
      /\ Tiles(B)
      /\ \A g \in Pages, j \in Orders : IsFree(b, g, j) => b.count[g] = 0 /\ b.order[g] <= j
  BY DEF BuddyInv
<1>7. h \in Pages /\ IsFree(b, h, i) /\ b.count[h] = 0 /\ <<h, i>> \in B
  <2>1. h \in Pages /\ OnList(b.list[i], h)
    BY <1>2, <1>3, <1>5, <1>6, ListTail
  <2> QED BY <2>1, <1>5, <1>6 DEF IsFree, BlocksOf
<1>8. /\ Tiles((B \ {<<h, i>>}) \cup Halves(h, k, i))
      /\ \A g \in Pages : Within(g, <<h, i>>) <=> \E x \in Halves(h, k, i) : Within(g, x)
  <2> HIDE DEF B
  <2>1. Tiles(B) /\ <<h, i>> \in B /\ k \in Orders /\ k <= i
    BY <1>5, <1>6, <1>7
  <2> QED BY <2>1, SplitTiles
<1>9. \A j \in k .. i - 1 : /\ h + Span(j) \in Pages /\ Within(h + Span(j), <<h, i>>)
                            /\ h + Span(j) # h
  <2> TAKE j \in k .. i - 1
  <2>1. h \in Nat /\ Span(j) \in Nat \ {0} /\ Span(i) \in Nat
    BY <1>1, <1>5, <1>7, SpanStep DEF Pages
  <2>2. Span(j) < Span(i)
    BY <1>5, SpanGrows
  <2>3. h + Span(i) <= NPages
    BY <1>6, <1>7 DEF Tiles
  <2> QED BY <1>1, <2>1, <2>2, <2>3 DEF Within, Pages
<1>10. Within(h, <<h, i>>)
  <2>1. h \in Nat /\ Span(i) \in Nat \ {0}
    BY <1>1, <1>5, <1>7, SpanStep DEF Pages
  <2> QED BY <2>1 DEF Within
(* Nothing else starts inside the block.                                   *)
<1>11. \A x \in B : x # <<h, i>> => ~Within(x[1], <<h, i>>)
  BY <1>6, <1>7, StartsApart
<1>12. \A j \in k .. i - 1 : ~IsFree(b, h + Span(j), j) /\ b.count[h + Span(j)] = 0
  <2> TAKE j \in k .. i - 1
  <2>1. h + Span(j) \in Pages /\ Within(h + Span(j), <<h, i>>) /\ j \in Orders /\ h + Span(j) # h
    BY <1>5, <1>9
  <2> DEFINE g == h + Span(j)
  <2> HIDE DEF g
  <2>2. ~IsFree(b, g, j)
    <3>1. IsFree(b, g, j) => <<g, j>> \in B
      BY <2>1 DEF BlocksOf, g
    <3> QED BY <1>11, <2>1, <3>1 DEF g
  <2>3. b.count[g] = 0
    <3>1. b.count[g] > 0 => <<g, b.order[g]>> \in B
      BY <1>6, <2>1 DEF BlocksOf, g
    <3>2. b.count[g] \in Nat
      BY <1>6, <2>1 DEF g
    <3> QED BY <1>11, <2>1, <3>1, <3>2 DEF g
  <2> QED BY <2>2, <2>3 DEF g
<1>13. \A j \in Orders :
         /\ d.list[j] \in Seq(Pages) /\ Once(d.list[j])
         /\ \A g : IsFree(d, g, j) <=>
               \/ IsFree(b, g, j) /\ <<g, j>> # <<h, i>>
               \/ j \in k .. i - 1 /\ g = h + Span(j)
  <2> TAKE j \in Orders
  <2>0. b.list[j] \in Seq(Pages) /\ Once(b.list[j])
    BY <1>6
  <2>1. CASE j = i
    <3>1. d.list[j] = Tail(b.list[i])
      BY <1>4, <2>1
    <3>2. j \notin k .. i - 1
      BY <1>5, <2>1
    <3> QED BY <1>2, <1>3, <2>0, <2>1, <3>1, <3>2, ListTail DEF IsFree
  <2>2. CASE j \in k .. i - 1
    <3>1. d.list[j] = <<h + Span(j)>> \o b.list[j] /\ j # i
      BY <1>4, <1>5, <2>2
    <3>2. h + Span(j) \in Pages /\ ~OnList(b.list[j], h + Span(j))
      BY <1>9, <1>12, <2>2 DEF IsFree
    <3>3. /\ d.list[j] \in Seq(Pages) /\ Once(d.list[j])
          /\ \A y : OnList(d.list[j], y) <=> y = h + Span(j) \/ OnList(b.list[j], y)
      BY <2>0, <3>1, <3>2, ListFront
    <3> QED BY <2>2, <3>1, <3>3 DEF IsFree
  <2>3. CASE j # i /\ j \notin k .. i - 1
    <3>1. d.list[j] = b.list[j]
      BY <1>4, <2>3
    <3> QED BY <2>0, <2>3, <3>1 DEF IsFree
  <2> QED BY <2>1, <2>2, <2>3
<1>14. /\ d.count \in [Pages -> Nat] /\ d.count[h] = 1
       /\ \A g \in Pages \ {h} : d.count[g] = b.count[g]
  BY <1>4, <1>6, <1>7
<1>15. \A j, l \in k .. i - 1 : h + Span(j) = h + Span(l) => j = l
  <2> SUFFICES ASSUME NEW j \in k .. i - 1, NEW l \in k .. i - 1, h + Span(j) = h + Span(l)
               PROVE  j = l
    OBVIOUS
  <2>1. h \in Nat /\ Span(j) \in Nat /\ Span(l) \in Nat /\ j \in Nat /\ l \in Nat
    BY <1>1, <1>5, <1>7, SpanStep DEF Pages
  <2>2. j < l => Span(j) < Span(l)
    BY <2>1, SpanGrows
  <2>3. l < j => Span(l) < Span(j)
    BY <2>1, SpanGrows
  <2> QED BY <2>1, <2>2, <2>3
<1>16. /\ d.order[h] = k
       /\ \A j \in k .. i - 1 : d.order[h + Span(j)] = j
       /\ \A g \in Pages : g # h /\ (\A j \in k .. i - 1 : g # h + Span(j))
                               => d.order[g] = b.order[g]
  <2>1. d.order[h] = k
    BY <1>4, <1>7
  <2>2. ASSUME NEW j \in k .. i - 1 PROVE d.order[h + Span(j)] = j
    <3> DEFINE C == CHOOSE l \in k .. i - 1 : h + Span(j) = h + Span(l)
    <3>1. C \in k .. i - 1 /\ h + Span(j) = h + Span(C)
      OBVIOUS
    <3> HIDE DEF C
    <3>2. C = j
      BY <3>1, <1>15
    <3>3. d.order[h + Span(j)] = C
      BY <1>4, <1>9 DEF C
    <3> QED BY <3>2, <3>3
  <2>3. ASSUME NEW g \in Pages, g # h, \A j \in k .. i - 1 : g # h + Span(j)
        PROVE  d.order[g] = b.order[g]
    BY <1>4, <2>3
  <2> QED BY <2>1, <2>2, <2>3
<1>17. d.order \in [Pages -> Orders]
  <2>1. \A g \in Pages : d.order[g] \in Orders
    BY <1>5, <1>6, <1>16
  <2>2. DOMAIN d.order = Pages /\ d.order = [g \in Pages |-> d.order[g]]
    BY <1>4
  <2> QED BY <2>1, <2>2
<1>18. \A g \in Pages : b.count[g] > 0 => d.order[g] = b.order[g]
  <2> SUFFICES ASSUME NEW g \in Pages, b.count[g] > 0 PROVE d.order[g] = b.order[g]
    OBVIOUS
  <2>1. g # h /\ \A j \in k .. i - 1 : g # h + Span(j)
    BY <1>7, <1>12
  <2> QED BY <1>16, <2>1
<1>19. ASSUME NEW g \in Pages, NEW j \in Orders, IsFree(d, g, j)
       PROVE  d.count[g] = 0 /\ d.order[g] <= j
  <2>1. CASE IsFree(b, g, j) /\ <<g, j>> # <<h, i>>
    <3>1. <<g, j>> \in B
      BY <2>1 DEF BlocksOf
    <3>2. ~Within(g, <<h, i>>)
      BY <1>11, <2>1, <3>1
    <3>3. g # h /\ \A l \in k .. i - 1 : g # h + Span(l)
      BY <1>9, <1>10, <3>2
    <3>4. d.order[g] = b.order[g] /\ d.count[g] = b.count[g]
      BY <1>14, <1>16, <3>3
    <3> QED BY <1>6, <2>1, <3>4
  <2>2. CASE j \in k .. i - 1 /\ g = h + Span(j)
    <3>1. d.order[g] = j /\ d.count[g] = 0
      BY <1>9, <1>12, <1>14, <1>16, <2>2
    <3> QED BY <1>5, <2>2, <3>1
  <2> QED BY <1>13, <1>19, <2>1, <2>2
<1>20. BlocksOf(d) = (B \ {<<h, i>>}) \cup Halves(h, k, i)
  <2> DEFINE R == (B \ {<<h, i>>}) \cup Halves(h, k, i)
  <2>1. BlocksOf(d) \subseteq Pages \X Orders /\ R \subseteq Pages \X Orders
    BY <1>8 DEF BlocksOf, Tiles
  <2>2. ASSUME NEW g \in Pages, NEW j \in Orders PROVE <<g, j>> \in BlocksOf(d) <=> <<g, j>> \in R
    <3>1. <<g, j>> \in BlocksOf(d) <=> IsFree(d, g, j) \/ (d.count[g] > 0 /\ d.order[g] = j)
      BY <2>2 DEF BlocksOf
    <3>2. <<g, j>> \in B <=> IsFree(b, g, j) \/ (b.count[g] > 0 /\ b.order[g] = j)
      BY <2>2 DEF BlocksOf
    <3>3. <<g, j>> \in Halves(h, k, i) <=> (g = h /\ j = k) \/ (j \in k .. i - 1 /\ g = h + Span(j))
      BY DEF Halves
    <3>4. IsFree(d, g, j) <=> \/ IsFree(b, g, j) /\ <<g, j>> # <<h, i>>
                              \/ j \in k .. i - 1 /\ g = h + Span(j)
      BY <1>13
    <3>5. d.count[g] > 0 /\ d.order[g] = j <=>
             (g = h /\ j = k) \/ (b.count[g] > 0 /\ b.order[g] = j)
      <4>1. CASE g = h
        BY <4>1, <1>7, <1>14, <1>16
      <4>2. CASE g # h
        <5>1. d.count[g] = b.count[g]
          BY <1>14, <4>2
        <5> QED BY <1>18, <4>2, <5>1
      <4> QED BY <4>1, <4>2
    <3>6. ~(b.count[h] > 0)
      BY <1>7
    <3> QED BY <3>1, <3>2, <3>3, <3>4, <3>5, <3>6
  <2> HIDE DEF R
  <2>3. \A x \in Pages \X Orders : x = <<x[1], x[2]>> /\ x[1] \in Pages /\ x[2] \in Orders
    OBVIOUS
  <2>4. \A x \in Pages \X Orders : x \in BlocksOf(d) <=> x \in R
    BY <2>2, <2>3
  <2>5. BlocksOf(d) = R
    BY <2>1, <2>4
  <2> QED BY <2>5 DEF R
<1>21. d \in [list : [Orders -> Seq(Pages)], count : [Pages -> Nat], order : [Pages -> Orders]]
  <2>1. d.list \in [Orders -> Seq(Pages)]
    <3>1. d.list = [j \in Orders |-> d.list[j]]
      BY <1>4
    <3> QED BY <1>13, <3>1
  <2> QED BY <1>4, <1>14, <1>17, <2>1
<1>22. BuddyInv(d)
  BY <1>8, <1>13, <1>19, <1>20, <1>21 DEF BuddyInv
<1> QED BY <1>4, <1>7, <1>16, <1>18, <1>22 DEF h, d
-----------------------------------------------------------------------------
(* pages_free()                                                            *)

(* The buddy that the merge of page g meets at order j.                    *)
Partner(g, j) == whois_buddy(Base(g, j), j)

(* The blocks of b when the one at g has been merged up to order m.        *)
Kept(b, g, m) ==
    {x \in BlocksOf(b) : /\ x # <<g, b.order[g]>>
                         /\ \A j \in b.order[g] .. m - 1 : x # <<Partner(g, j), j>>}
Merged(b, g, m) == Kept(b, g, m) \cup {<<Base(g, m), m>>}

(* What the loop of pages_free() keeps.                                    *)
MergeInv(b, g, m) ==
    /\ Tiles(Merged(b, g, m))
    /\ Base(g, m) = g \/ b.count[Base(g, m)] = 0
    /\ b.order[Base(g, m)] <= m
    /\ \A j \in b.order[g] .. m - 1 : Partner(g, j) \in Pages /\ IsFree(b, Partner(g, j), j)

(* A page in use is the first of its block, and of that one only.          *)
LEMMA UsedBlock ==
  ASSUME NEW b, BuddyInv(b), NEW g \in Pages, b.count[g] > 0
  PROVE  /\ <<g, b.order[g]>> \in BlocksOf(b) /\ b.order[g] \in Orders
         /\ Aligned(g, b.order[g]) /\ Within(g, <<g, b.order[g]>>)
         /\ \A x \in BlocksOf(b) : x # <<g, b.order[g]>> => ~Within(g, x)
         /\ \A k \in Orders : ~IsFree(b, g, k)
<1>1. b.order[g] \in Orders /\ Tiles(BlocksOf(b)) /\ \A k \in Orders : ~IsFree(b, g, k)
  BY DEF BuddyInv
<1>2. <<g, b.order[g]>> \in BlocksOf(b)
  BY <1>1 DEF BlocksOf
<1> HIDE DEF BuddyInv
<1>3. g \in Nat /\ Span(b.order[g]) \in Nat \ {0}
  <2>1. g \in Nat /\ b.order[g] \in Nat
    BY <1>1, PhysAssumption DEF Pages, Orders
  <2> QED BY <2>1, SpanStep
<1>4. Within(g, <<g, b.order[g]>>)
  BY <1>3 DEF Within
<1>5. Aligned(g, b.order[g])
  BY <1>1, <1>2 DEF Tiles
<1>6. \A x \in BlocksOf(b) : x # <<g, b.order[g]>> => ~Within(g, x)
  BY <1>1, <1>2, <1>4 DEF Tiles
<1> QED BY <1>1, <1>2, <1>4, <1>5, <1>6

(* One turn of the loop: the buddy has no user and the order of the merge, *)
(* so, the record being stale only downwards, it is a free block.          *)
LEMMA MergeOne ==
  ASSUME NEW b, BuddyInv(b), NEW g \in Pages, b.count[g] > 0,
         NEW m \in Nat, b.order[g] <= m, m + 1 \in Orders, MergeInv(b, g, m),
         Partner(g, m) \in Pages, Partner(g, m) = g \/ b.count[Partner(g, m)] = 0,
         b.order[Partner(g, m)] = m
  PROVE  MergeInv(b, g, m + 1)
<1> DEFINE t == Base(g, m)
           q == Partner(g, m)
           B == BlocksOf(b)
           M == Merged(b, g, m)
           u == Base(g, m + 1)
           o == b.order[g]
<1>1. /\ <<g, o>> \in B /\ o \in Nat /\ m \in Orders /\ g \in Nat /\ Within(g, <<g, o>>)
      /\ \A x \in B : x # <<g, o>> => ~Within(g, x)
      /\ MaxOrder \in Nat /\ NPages \in Nat
  <2>1. NPages \in Nat /\ MaxOrder \in 1 .. 30
    BY PhysAssumption
  <2>2. MaxOrder \in Nat
    BY <2>1
  <2>3. /\ <<g, o>> \in B /\ o \in Nat /\ Within(g, <<g, o>>)
        /\ \A x \in B : x # <<g, o>> => ~Within(g, x)
    BY UsedBlock, PhysAssumption DEF Orders
  <2>4. m \in Orders /\ g \in Nat
    BY <2>1, <2>2 DEF Orders, Pages
  <2> QED BY <2>1, <2>2, <2>3, <2>4
<1>2. /\ Span(m) \in Nat \ {0} /\ Span(m + 1) = 2 * Span(m)
      /\ Span(m + 1) \in Nat \ {0}
  BY SpanStep
<1>3. t \in Nat /\ Aligned(t, m) /\ t <= g /\ g < t + Span(m)
  BY <1>1, BaseIs
<1>4. u \in Nat /\ Aligned(u, m + 1) /\ u <= g /\ g < u + Span(m + 1)
  BY <1>1, BaseIs
<1>5. Base(t, m + 1) = u
  <2>1. u <= t /\ t + Span(m) <= u + Span(m + 1)
    BY <1>1, <1>3, <1>4, Nested
  <2>2. t < u + Span(m + 1)
    BY <1>2, <1>3, <1>4, <2>1
  <2> QED BY <1>3, <1>4, <2>1, <2>2, BaseOnly
<1>6. /\ q \in Nat /\ Aligned(q, m)
      /\ (t = u /\ q = u + Span(m)) \/ (q = u /\ t = u + Span(m))
  BY <1>3, <1>5, BuddyIs DEF Partner
<1>7. /\ Tiles(M) /\ <<t, m>> \in M
      /\ \A x \in M : x[1] \in Nat /\ x[2] \in Nat /\ x[2] \in Orders /\ Aligned(x[1], x[2])
                      /\ Span(x[2]) \in Nat \ {0}
  <2>1. Tiles(M) /\ <<t, m>> \in M
    BY DEF MergeInv, Merged
  <2>2. \A x \in M : x[1] \in Pages /\ x[2] \in Orders /\ Aligned(x[1], x[2])
    BY <2>1 DEF Tiles
  <2>3. Pages \subseteq Nat /\ Orders \subseteq Nat
    BY <1>1 DEF Pages, Orders
  <2> QED BY <2>1, <2>2, <2>3, SpanStep
<1>8. t = g \/ b.count[t] = 0
  BY DEF MergeInv
<1>9. b.order[t] <= m
  BY DEF MergeInv
<1>10. \A j \in o .. m - 1 : Partner(g, j) \in Pages /\ IsFree(b, Partner(g, j), j)
  BY DEF MergeInv
<1>11. q \in Pages /\ (q = g \/ b.count[q] = 0) /\ b.order[q] = m
  OBVIOUS
<1> HIDE DEF t, q, M, u, B
<1>12. /\ q # g /\ b.count[q] = 0
       /\ ~Within(q, <<t, m>>) /\ Within(q, <<q, m>>)
  BY <1>1, <1>2, <1>3, <1>4, <1>6, <1>11 DEF Within
<1>13. PICK x \in M : Within(q, x)
  BY <1>7, <1>11 DEF Tiles
<1>14. x # <<t, m>> /\ x[1] \in Nat /\ x[2] \in Nat /\ Aligned(x[1], x[2])
       /\ Span(x[2]) \in Nat \ {0} /\ x[1] <= q /\ q < x[1] + Span(x[2])
  BY <1>7, <1>12, <1>13 DEF Within
<1>15. x \in Kept(b, g, m)
  BY <1>13, <1>14 DEF M, Merged, t
<1>16. x \in B /\ x \in Pages \X Orders
       /\ (IsFree(b, x[1], x[2]) \/ (b.count[x[1]] > 0 /\ b.order[x[1]] = x[2]))
  BY <1>15 DEF Kept, BlocksOf, B
<1>17. x[2] <= m
  <2> SUFFICES ASSUME m + 1 <= x[2] PROVE FALSE
    BY <1>14
  <2>1. u <= q /\ q < u + Span(m + 1)
    BY <1>2, <1>4, <1>6
  <2>2. x[1] <= u /\ u + Span(m + 1) <= x[1] + Span(x[2])
    BY <1>4, <1>6, <1>14, <2>1, Nested
  <2>3. x[1] <= t /\ t < x[1] + Span(x[2])
    BY <1>2, <1>3, <1>4, <1>6, <1>14, <2>2
  <2>4. Within(t, x) /\ Within(t, <<t, m>>) /\ t \in Pages
    <3>1. t \in Pages
      BY <1>7 DEF Tiles
    <3> QED BY <1>2, <1>3, <2>3, <3>1 DEF Within
  <2> QED BY <1>7, <1>13, <1>14, <2>4 DEF Tiles
<1>18. x[1] = q
  <2>1. q <= x[1]
    <3>1. q <= q /\ q < q + Span(m)
      BY <1>2, <1>6
    <3> QED BY <1>6, <1>14, <1>17, <3>1, Nested
  <2> QED BY <1>6, <1>14, <2>1
<1>19. IsFree(b, q, x[2])
  BY <1>12, <1>16, <1>18
<1>20. x[2] = m /\ x = <<q, m>>
  <2>1. b.order[q] <= x[2]
    BY <1>11, <1>16, <1>19 DEF BuddyInv
  <2>2. x[2] = m
    BY <1>11, <1>14, <1>17, <2>1
  <2> QED BY <1>16, <1>18, <2>2
<1>21. <<q, m>> \in M /\ IsFree(b, q, m)
  BY <1>13, <1>19, <1>20
<1>22. Tiles((M \ {<<t, m>>, <<q, m>>}) \cup {<<u, m + 1>>})
  <2>1. q = whois_buddy(t, m)
    BY DEF q, t, Partner
  <2> QED BY <1>5, <1>7, <1>21, <2>1, MergeTiles
<1>23. Merged(b, g, m + 1) = (M \ {<<t, m>>, <<q, m>>}) \cup {<<u, m + 1>>}
  <2>1. <<t, m>> \notin Kept(b, g, m)
    <3>1. Within(g, <<t, m>>)
      BY <1>3 DEF Within
    <3>2. \A y \in Kept(b, g, m) : ~Within(g, y)
      BY <1>1 DEF Kept, B
    <3> QED BY <3>1, <3>2
  <2>2. \A j : j \in o .. (m + 1) - 1 <=> j \in o .. m - 1 \/ j = m
    BY <1>1
  <2>3. Kept(b, g, m + 1) = Kept(b, g, m) \ {<<q, m>>}
    BY <2>2 DEF Kept, q
  <2>4. M = Kept(b, g, m) \cup {<<t, m>>}
    BY DEF M, Merged, t
  <2>5. Merged(b, g, m + 1) = Kept(b, g, m + 1) \cup {<<u, m + 1>>}
    BY DEF Merged, u
  <2> QED BY <2>1, <2>3, <2>4, <2>5
<1>24. (u = g \/ b.count[u] = 0) /\ b.order[u] <= m + 1
  <2>1. \A y \in Pages : b.order[y] \in Nat
    BY <1>1 DEF BuddyInv, Orders
  <2>2. t \in Pages /\ q \in Pages
    BY <1>7, <1>11 DEF Tiles
  <2>3. u = t \/ u = q
    BY <1>6
  <2> QED BY <1>8, <1>9, <1>11, <2>1, <2>2, <2>3
<1>25. \A j \in o .. (m + 1) - 1 : Partner(g, j) \in Pages /\ IsFree(b, Partner(g, j), j)
  <2>1. \A j : j \in o .. (m + 1) - 1 <=> j \in o .. m - 1 \/ j = m
    BY <1>1
  <2> QED BY <1>10, <1>11, <1>21, <2>1 DEF q
<1> QED BY <1>22, <1>23, <1>24, <1>25 DEF MergeInv, u

(* pages_free() of the last reference gives the page back, merged with its *)
(* free buddies, and keeps the tiling.                                     *)
LEMMA FreeKeeps ==
  ASSUME NEW b, BuddyInv(b), NEW g \in Pages, b.count[g] = 1
  PROVE  LET e == pages_free(b, g) IN
         /\ BuddyInv(e)
         /\ e.count = [b.count EXCEPT ![g] = 0] /\ e.order = b.order
<1> DEFINE c == [b.count EXCEPT ![g] = @ - 1]
           d == [b EXCEPT !.count = c]
           o == b.order[g]
           S == {k \in o .. MaxOrder : \A j \in o .. k - 1 : Merges(d, g, j)}
           top == Max(S)
           e == pages_free(b, g)
           B == BlocksOf(b)
           u == Base(g, top)
<1>1. /\ b.count \in [Pages -> Nat] /\ b.order \in [Pages -> Orders]
      /\ b.list \in [Orders -> Seq(Pages)]
      /\ DOMAIN b = {"list", "count", "order"}
      /\ b = [list |-> b.list, count |-> b.count, order |-> b.order]
      /\ \A j \in Orders : b.list[j] \in Seq(Pages) /\ Once(b.list[j])
      /\ \A y \in Pages, j \in Orders : IsFree(b, y, j) => b.count[y] = 0 /\ b.order[y] <= j
      /\ Tiles(B)
  BY DEF BuddyInv
<1>2. /\ <<g, o>> \in B /\ o \in Nat /\ o \in Orders /\ g \in Nat /\ Within(g, <<g, o>>)
      /\ Aligned(g, o)
      /\ \A x \in B : x # <<g, o>> => ~Within(g, x)
      /\ MaxOrder \in Nat /\ NPages \in Nat /\ o <= MaxOrder
  <2>1. MaxOrder \in Nat /\ NPages \in Nat
    BY PhysAssumption
  <2>2. b.count[g] > 0
    OBVIOUS
  <2> QED BY <2>1, <2>2, UsedBlock DEF Orders, Pages
<1>3. /\ c \in [Pages -> Nat] /\ c[g] = 0 /\ c = [b.count EXCEPT ![g] = 0]
      /\ \A y \in Pages : y # g => c[y] = b.count[y]
  BY <1>1
<1>4. /\ d.count = c /\ d.order = b.order /\ d.list = b.list
      /\ d = [list |-> b.list, count |-> c, order |-> b.order]
  <2>1. DOMAIN b = {"list", "count", "order"}
    BY <1>1
  <2> HIDE DEF c
  <2>2. d.count = c /\ d.order = b.order /\ d.list = b.list /\ DOMAIN d = DOMAIN b
    BY <2>1
  <2>3. d = [list |-> b.list, count |-> c, order |-> b.order]
    BY <2>1
  <2> QED BY <2>2, <2>3
<1>5. /\ e = [d EXCEPT !.list = [k \in Orders |->
                 LET rest == IF k \in o .. top - 1
                               THEN list_del(b.list[k], whois_buddy(Base(g, k), k))
                               ELSE b.list[k]
                 IN  IF k = top THEN <<u>> \o rest ELSE rest]]
  BY <1>3 DEF pages_free
<1>6. /\ e.count = c /\ e.order = b.order
      /\ e.list = [k \in Orders |->
                 LET rest == IF k \in o .. top - 1
                               THEN list_del(b.list[k], Partner(g, k))
                               ELSE b.list[k]
                 IN  IF k = top THEN <<u>> \o rest ELSE rest]
      /\ e = [list |-> e.list, count |-> c, order |-> b.order]
  BY <1>4, <1>5 DEF Partner
<1> HIDE DEF c, e
<1>7. top \in S
  <2>1. o \in S
    BY <1>2
  <2>2. S \in SUBSET Nat /\ \A x \in S : x <= MaxOrder
    BY <1>2
  <2> HIDE DEF S
  <2> QED BY <1>2, <2>1, <2>2, MaxOf
<1>8. top \in o .. MaxOrder /\ top \in Nat /\ top \in Orders
      /\ \A j \in o .. top - 1 : Merges(d, g, j)
  BY <1>2, <1>7 DEF Orders
<1> HIDE DEF top, S
<1>9. MergeInv(b, g, top)
  <2> DEFINE R == {m \in Nat : o + m <= top => MergeInv(b, g, o + m)}
  <2>1. 0 \in R
    <3>1. Base(g, o) = g
      <4>1. g <= g /\ g < g + Span(o)
        BY <1>2 DEF Within
      <4> QED BY <1>2, <4>1, BaseOnly
    <3>2. \A j : ~(j \in o .. o - 1)
      BY <1>2
    <3>3. Kept(b, g, o) = B \ {<<g, o>>}
      BY <3>2 DEF Kept
    <3>4. Merged(b, g, o) = B
      BY <1>2, <3>1, <3>3 DEF Merged
    <3>5. MergeInv(b, g, o)
      BY <1>1, <1>2, <3>1, <3>2, <3>4 DEF MergeInv
    <3> QED BY <1>2, <3>5
  <2>2. ASSUME NEW m \in R PROVE m + 1 \in R
    <3> SUFFICES ASSUME o + (m + 1) <= top PROVE MergeInv(b, g, o + (m + 1))
      BY <2>2
    <3> DEFINE n == o + m
    <3>1. n \in Nat /\ o <= n /\ n + 1 \in Orders /\ n \in o .. top - 1
          /\ o + (m + 1) = n + 1 /\ o + m <= top
      BY <1>2, <1>8, <2>2 DEF Orders
    <3>2. MergeInv(b, g, n)
      BY <2>2, <3>1
    <3> HIDE DEF n
    <3>3. Merges(d, g, n)
      BY <1>8, <3>1
    <3>4. Partner(g, n) \in Pages /\ c[Partner(g, n)] = 0 /\ b.order[Partner(g, n)] = n
      BY <1>4, <3>3 DEF Merges, Partner
    <3>5. Partner(g, n) = g \/ b.count[Partner(g, n)] = 0
      BY <1>3, <3>4
    <3>6. b.count[g] > 0
      OBVIOUS
    <3>7. MergeInv(b, g, n + 1)
      BY <3>1, <3>2, <3>4, <3>5, <3>6, MergeOne
    <3> QED BY <3>1, <3>7
  <2>3. R \in SUBSET Nat
    OBVIOUS
  <2> HIDE DEF R
  <2>4. R = Nat
    BY <2>1, <2>2, <2>3, Induction
  <2>5. top - o \in Nat /\ o + (top - o) = top
    BY <1>2, <1>8
  <2> QED BY <1>8, <2>4, <2>5 DEF R
<1>10. Tiles(Merged(b, g, top))
  BY <1>9 DEF MergeInv
<1>11. u = g \/ b.count[u] = 0
  BY <1>9 DEF MergeInv
<1>12. b.order[u] <= top
  BY <1>9 DEF MergeInv
<1>13. \A j \in o .. top - 1 : /\ Partner(g, j) \in Pages /\ IsFree(b, Partner(g, j), j)
                               /\ j \in Orders /\ j # top
  <2>1. \A j \in o .. top - 1 : j \in Orders /\ j # top
    BY <1>2, <1>8 DEF Orders
  <2> QED BY <1>9, <2>1 DEF MergeInv
<1>14. u \in Pages /\ Within(g, <<u, top>>)
  <2>1. <<u, top>> \in Merged(b, g, top)
    BY DEF Merged
  <2>2. u \in Pages
    BY <1>10, <2>1 DEF Tiles
  <2>3. Within(g, <<u, top>>)
    BY <1>2, <1>8, BaseIs DEF Within
  <2> QED BY <2>2, <2>3
<1> HIDE DEF u
<1>15. ~IsFree(b, u, top)
  <2> SUFFICES ASSUME IsFree(b, u, top) PROVE FALSE
    OBVIOUS
  <2>1. <<u, top>> \in B
    BY <1>8, <1>14 DEF BlocksOf
  <2>2. u = g
    BY <1>2, <1>14, <2>1
  <2> QED BY <1>1, <1>8, <2>2
<1>16. \A k \in Orders :
         /\ e.list[k] \in Seq(Pages) /\ Once(e.list[k])
         /\ \A y : IsFree(e, y, k) <=>
               \/ IsFree(b, y, k) /\ ~(k \in o .. top - 1 /\ y = Partner(g, k))
               \/ k = top /\ y = u
  <2> TAKE k \in Orders
  <2>0. b.list[k] \in Seq(Pages) /\ Once(b.list[k])
    BY <1>1
  <2>1. CASE k = top
    <3>1. k \notin o .. top - 1
      BY <1>13, <2>1
    <3>2. e.list[k] = <<u>> \o b.list[k]
      BY <1>6, <2>1, <3>1
    <3>3. ~OnList(b.list[k], u)
      BY <1>15, <2>1 DEF IsFree
    <3>4. /\ e.list[k] \in Seq(Pages) /\ Once(e.list[k])
          /\ \A y : OnList(e.list[k], y) <=> y = u \/ OnList(b.list[k], y)
      BY <1>14, <2>0, <3>2, <3>3, ListFront
    <3> QED BY <2>1, <3>1, <3>4 DEF IsFree
  <2>2. CASE k \in o .. top - 1
    <3>1. k # top
      BY <1>13, <2>2
    <3>2. e.list[k] = list_del(b.list[k], Partner(g, k))
      BY <1>6, <2>2, <3>1
    <3>3. /\ e.list[k] \in Seq(Pages) /\ Once(e.list[k])
          /\ \A y : OnList(e.list[k], y) <=> y # Partner(g, k) /\ OnList(b.list[k], y)
      BY <2>0, <3>2, ListDel
    <3> QED BY <2>2, <3>1, <3>3 DEF IsFree
  <2>3. CASE k # top /\ k \notin o .. top - 1
    <3>1. e.list[k] = b.list[k]
      BY <1>6, <2>3
    <3> QED BY <2>0, <2>3, <3>1 DEF IsFree
  <2> QED BY <2>1, <2>2, <2>3
<1>17. \A y \in Pages : y # g => e.count[y] = b.count[y]
  BY <1>3, <1>6
<1>18. e.count[g] = 0 /\ \A y \in Pages : e.order[y] = b.order[y] /\ e.count[y] \in Nat
  BY <1>3, <1>6
<1>19. ASSUME NEW y \in Pages, NEW k \in Orders, IsFree(e, y, k)
       PROVE  e.count[y] = 0 /\ e.order[y] <= k
  <2>1. CASE IsFree(b, y, k)
    BY <1>1, <1>17, <1>18, <2>1
  <2>2. CASE k = top /\ y = u
    BY <1>11, <1>12, <1>17, <1>18, <2>2
  <2> QED BY <1>16, <1>19, <2>1, <2>2
<1>20. BlocksOf(e) = Merged(b, g, top)
  <2> DEFINE R == Merged(b, g, top)
  <2>1. BlocksOf(e) \subseteq Pages \X Orders /\ R \subseteq Pages \X Orders
    BY <1>10 DEF BlocksOf, Tiles
  <2>2. ASSUME NEW y \in Pages, NEW k \in Orders
        PROVE  <<y, k>> \in BlocksOf(e) <=> <<y, k>> \in R
    <3>1. <<y, k>> \in BlocksOf(e) <=> IsFree(e, y, k) \/ (e.count[y] > 0 /\ b.order[y] = k)
      BY <1>18, <2>2 DEF BlocksOf
    <3>2. <<y, k>> \in B <=> IsFree(b, y, k) \/ (b.count[y] > 0 /\ b.order[y] = k)
      BY <2>2 DEF BlocksOf
    <3>3. <<y, k>> \in R <=> \/ /\ <<y, k>> \in B /\ ~(y = g /\ k = o)
                                /\ ~(k \in o .. top - 1 /\ y = Partner(g, k))
                             \/ y = u /\ k = top
      <4>1. <<y, k>> \in Kept(b, g, top) <=>
               /\ <<y, k>> \in B /\ ~(y = g /\ k = o)
               /\ ~(k \in o .. top - 1 /\ y = Partner(g, k))
        BY DEF Kept
      <4> QED BY <4>1 DEF Merged, u
    <3>4. IsFree(e, y, k) <=> \/ IsFree(b, y, k) /\ ~(k \in o .. top - 1 /\ y = Partner(g, k))
                              \/ k = top /\ y = u
      BY <1>16
    <3>5. e.count[y] > 0 <=> b.count[y] > 0 /\ y # g
      BY <1>17, <1>18
    <3>6. IsFree(b, y, k) => y # g
      BY <1>1
    <3>7. k \in o .. top - 1 /\ y = Partner(g, k) => ~(b.count[y] > 0)
      BY <1>1, <1>13
    <3> QED BY <3>1, <3>2, <3>3, <3>4, <3>5, <3>6, <3>7
  <2> HIDE DEF R
  <2>3. \A x \in Pages \X Orders : x = <<x[1], x[2]>> /\ x[1] \in Pages /\ x[2] \in Orders
    OBVIOUS
  <2>4. \A x \in Pages \X Orders : x \in BlocksOf(e) <=> x \in R
    BY <2>2, <2>3
  <2>5. BlocksOf(e) = R
    BY <2>1, <2>4
  <2> QED BY <2>5 DEF R
<1>21. e \in [list : [Orders -> Seq(Pages)], count : [Pages -> Nat], order : [Pages -> Orders]]
  <2>1. e.list \in [Orders -> Seq(Pages)]
    <3>1. e.list = [k \in Orders |-> e.list[k]]
      BY <1>6
    <3> QED BY <1>16, <3>1
  <2> QED BY <1>1, <1>3, <1>6, <2>1
<1>22. BuddyInv(e)
  BY <1>10, <1>16, <1>19, <1>20, <1>21 DEF BuddyInv
<1> QED BY <1>3, <1>6, <1>22 DEF e

(* pages_dup() and pages_undup() of a page in use leave the blocks alone.  *)
LEMMA DupKeeps ==
  ASSUME NEW b, BuddyInv(b), NEW g \in Pages, b.count[g] > 0
  PROVE  /\ BuddyInv(pages_dup(b, g)) /\ BuddyInv(pages_undup(b, g))
         /\ pages_dup(b, g).count = [b.count EXCEPT ![g] = @ + 1]
         /\ pages_undup(b, g).count = [b.count EXCEPT ![g] = IF @ > 1 THEN @ - 1 ELSE @]
         /\ pages_dup(b, g).order = b.order /\ pages_undup(b, g).order = b.order
<1> DEFINE c == [b.count EXCEPT ![g] = @ + 1]
           e == [b.count EXCEPT ![g] = IF @ > 1 THEN @ - 1 ELSE @]
<1>1. b.count \in [Pages -> Nat]
  BY DEF BuddyInv
<1>2. DOMAIN b = {"list", "count", "order"}
  BY DEF BuddyInv
<1>3. c \in [Pages -> Nat] /\ \A y \in Pages : c[y] > 0 <=> b.count[y] > 0
  BY <1>1
<1>4. e \in [Pages -> Nat] /\ \A y \in Pages : e[y] > 0 <=> b.count[y] > 0
  BY <1>1
<1>5. pages_dup(b, g) = [b EXCEPT !.count = c]
  BY <1>2 DEF pages_dup
<1>6. pages_undup(b, g) = [b EXCEPT !.count = e]
  BY <1>2 DEF pages_undup
<1> HIDE DEF c, e
<1>7. BuddyInv([b EXCEPT !.count = c]) /\ BuddyInv([b EXCEPT !.count = e])
  BY <1>3, <1>4, CountChange
<1>8. [b EXCEPT !.count = c].count = c /\ [b EXCEPT !.count = c].order = b.order
  BY <1>2
<1>9. [b EXCEPT !.count = e].count = e /\ [b EXCEPT !.count = e].order = b.order
  BY <1>2
<1> QED BY <1>5, <1>6, <1>7, <1>8, <1>9 DEF c, e
-----------------------------------------------------------------------------
(* buddy_system_init()                                                     *)

(* The blocks around a page of two successive orders.                      *)
LEMMA BaseStep ==
  ASSUME NEW g \in Nat, NEW k \in Nat
  PROVE  Base(g, k) = Base(g, k + 1) \/ Base(g, k) = Base(g, k + 1) + Span(k)
<1> DEFINE t == Base(g, k)
           u == Base(g, k + 1)
<1>1. t \in Nat /\ Aligned(t, k) /\ t <= g /\ g < t + Span(k)
  BY BaseIs
<1>2. u \in Nat /\ Aligned(u, k + 1) /\ u <= g /\ g < u + Span(k + 1)
  BY BaseIs
<1>3. Span(k) \in Nat \ {0} /\ Span(k + 1) \in Nat
  BY SpanStep
<1> HIDE DEF t, u
<1>4. u <= t /\ t < u + Span(k + 1)
  BY <1>1, <1>2, <1>3, Nested
<1>5. Base(t, k + 1) = u
  BY <1>1, <1>2, <1>4, BaseOnly
<1> QED BY <1>1, <1>5, BuddyIs DEF t, u

(* The block around a page grows to the left.                              *)
LEMMA BaseFalls ==
  ASSUME NEW g \in Nat, NEW j \in Nat, NEW k \in Nat, j <= k
  PROVE  Base(g, k) <= Base(g, j)
<1>1. Base(g, j) \in Nat /\ Aligned(Base(g, j), j) /\ Base(g, j) <= g /\ g < Base(g, j) + Span(j)
  BY BaseIs
<1>2. Base(g, k) \in Nat /\ Aligned(Base(g, k), k) /\ Base(g, k) <= g /\ g < Base(g, k) + Span(k)
  BY BaseIs
<1> QED BY <1>1, <1>2, Nested

(* What mount_orderlist() puts on the lists.                               *)
LEMMA InitLists ==
  /\ \A k \in Orders : buddy_system_init.list[k] \in Seq(Pages) /\ Once(buddy_system_init.list[k])
  /\ \A y : IsFree(buddy_system_init, y, MaxOrder) <=>
               \E a \in 0 .. (NPages \div Span(MaxOrder)) - 1 : y = a * Span(MaxOrder)
  /\ \A k \in Orders : \A y : k # MaxOrder =>
        (IsFree(buddy_system_init, y, k) <=>
            y = Base(NPages, k + 1) /\ Base(NPages, k + 1) + Span(k) <= NPages)
<1> DEFINE N == NPages
           l == buddy_system_init.list
           s == Span(MaxOrder)
           tops == N \div s
<1>1. MaxOrder \in Nat /\ NPages \in Nat /\ NPages # 0
  BY PhysAssumption
<1>2. s \in Nat \ {0}
  BY <1>1, SpanStep
<1>3. tops \in Nat /\ tops * s \in Nat /\ tops * s <= N
  <2>1. tops \in Nat /\ N % s \in Nat /\ N = tops * s + (N % s)
    BY <1>1, <1>2, Division
  <2>2. tops * s \in Nat
    BY <1>2, <2>1, Multiples
  <2> DEFINE r == N % s
             q == tops * s
  <2>3. N = q + r /\ r \in Nat /\ q \in Nat
    BY <2>1, <2>2
  <2> HIDE DEF r, q
  <2>4. q <= N
    BY <2>3
  <2> QED BY <2>1, <2>3, <2>4 DEF q
<1>4. l[MaxOrder] = [i \in 1 .. tops |-> (tops - i) * s]
  BY <1>1 DEF buddy_system_init, mount_orderlist, Orders
<1>5. \A k \in Orders : k # MaxOrder =>
        l[k] = IF NPages % Span(k + 1) >= Span(k) THEN <<Base(NPages, k + 1)>> ELSE <<>>
  BY DEF buddy_system_init, mount_orderlist, Base
<1> HIDE DEF l, tops, s
<1>6. \A a \in Nat : a < tops => a * s \in Pages
  <2> SUFFICES ASSUME NEW a \in Nat, a < tops PROVE a * s \in Pages
    OBVIOUS
  <2>1. a * s \in Nat /\ (a + 1) * s = a * s + s
    BY <1>2, Multiples
  <2>2. a * s < tops * s
    <3> SUFFICES ASSUME ~(a * s < tops * s) PROVE FALSE
      OBVIOUS
    <3>1. tops * s < (a + 1) * s
      BY <1>2, <1>3, <2>1
    <3> QED BY <1>2, <1>3, <3>1, Multiples
  <2> QED BY <1>1, <1>3, <2>1, <2>2 DEF Pages
<1>7. \A a, b \in Nat : a * s = b * s => a = b
  <2> SUFFICES ASSUME NEW a \in Nat, NEW b \in Nat, a * s = b * s PROVE a = b
    OBVIOUS
  <2>1. (a + 1) * s = a * s + s /\ (b + 1) * s = b * s + s /\ a * s \in Nat /\ b * s \in Nat
    BY <1>2, Multiples
  <2>2. a * s < (b + 1) * s /\ b * s < (a + 1) * s
    BY <1>2, <2>1
  <2>3. a <= b /\ b <= a
    BY <1>2, <2>2, Multiples
  <2> QED BY <2>3
<1>8. \A i \in 1 .. tops : tops - i \in Nat /\ tops - i < tops
  BY <1>3
<1>9. l[MaxOrder] \in Seq(Pages) /\ DOMAIN l[MaxOrder] = 1 .. tops
      /\ \A i \in 1 .. tops : l[MaxOrder][i] = (tops - i) * s
  <2>1. \A i \in 1 .. tops : (tops - i) * s \in Pages
    BY <1>6, <1>8
  <2> QED BY <1>3, <1>4, <2>1
<1>10. Once(l[MaxOrder])
  <2> SUFFICES ASSUME NEW i \in 1 .. tops, NEW j \in 1 .. tops,
                      l[MaxOrder][i] = l[MaxOrder][j]
               PROVE  i = j
    BY <1>9 DEF Once
  <2>1. tops - i = tops - j
    BY <1>7, <1>8, <1>9
  <2> QED BY <1>3, <2>1
<1>11. \A y : OnList(l[MaxOrder], y) <=> \E a \in 0 .. tops - 1 : y = a * s
  <2> TAKE y
  <2>1. ASSUME NEW i \in 1 .. tops, l[MaxOrder][i] = y
        PROVE  \E a \in 0 .. tops - 1 : y = a * s
    <3>1. tops - i \in 0 .. tops - 1
      BY <1>3
    <3> QED BY <1>9, <2>1, <3>1
  <2>2. ASSUME NEW a \in 0 .. tops - 1, y = a * s
        PROVE  \E i \in 1 .. tops : l[MaxOrder][i] = y
    <3>1. tops - a \in 1 .. tops /\ tops - (tops - a) = a
      BY <1>3
    <3> QED BY <1>9, <2>2, <3>1
  <2> QED BY <1>9, <2>1, <2>2 DEF OnList
<1>12. ASSUME NEW k \in Orders, k # MaxOrder
       PROVE  /\ l[k] \in Seq(Pages) /\ Once(l[k])
              /\ \A y : OnList(l[k], y) <=>
                    y = Base(NPages, k + 1) /\ Base(NPages, k + 1) + Span(k) <= NPages
  <2> DEFINE u == Base(NPages, k + 1)
             r == NPages % Span(k + 1)
  <2>1. k \in Nat /\ k + 1 \in Nat /\ Span(k) \in Nat \ {0} /\ Span(k + 1) \in Nat \ {0}
    BY SpanStep DEF Orders
  <2>2. u \in Nat /\ u <= NPages /\ r \in Nat
    BY <1>1, <2>1, BaseIs, Division
  <2>3. u = NPages - r
    BY DEF Base
  <2>4. l[k] = IF r >= Span(k) THEN <<u>> ELSE <<>>
    BY <1>5, <1>12
  <2> HIDE DEF u, r
  <2>5. r >= Span(k) <=> u + Span(k) <= NPages
    BY <1>1, <2>1, <2>2, <2>3
  <2>6. CASE r >= Span(k)
    <3>1. u \in Pages
      BY <1>1, <2>1, <2>2, <2>5, <2>6 DEF Pages
    <3>2. l[k] = <<u>>
      BY <2>4, <2>6
    <3>3. l[k] \in Seq(Pages) /\ DOMAIN l[k] = {1} /\ l[k][1] = u
      BY <3>1, <3>2
    <3> QED BY <2>5, <2>6, <3>3 DEF Once, OnList, u
  <2>7. CASE ~(r >= Span(k))
    <3>1. l[k] = <<>>
      BY <2>4, <2>7
    <3>2. l[k] \in Seq(Pages) /\ DOMAIN l[k] = {}
      BY <3>1
    <3> QED BY <2>5, <2>7, <3>2 DEF Once, OnList, u
  <2> QED BY <2>6, <2>7
<1>13. MaxOrder \in Orders
  BY <1>1 DEF Orders
<1> QED BY <1>9, <1>10, <1>11, <1>12, <1>13 DEF IsFree, l, tops, s

(* mount_orderlist() tiles the memory: the blocks of the greatest order    *)
(* come first, and the rest is cut along the binary digits of its size.    *)
LEMMA InitTiles == Tiles(BlocksOf(buddy_system_init))
<1> DEFINE N == NPages
           b == buddy_system_init
           B == BlocksOf(b)
           s == Span(MaxOrder)
           tops == N \div s
<1>1. /\ MaxOrder \in Nat /\ N \in Nat /\ N # 0 /\ MaxOrder \in Orders
      /\ Orders \subseteq Nat /\ Pages \subseteq Nat
      /\ \A g \in Nat : g \in Pages <=> g < N
  BY PhysAssumption DEF Orders, Pages
<1>2. /\ \A k \in Nat : Span(k) \in Nat \ {0} /\ Span(k + 1) = 2 * Span(k)
      /\ s \in Nat \ {0}
  BY <1>1, SpanStep
<1>3. tops \in Nat /\ tops * s \in Nat /\ tops * s = Base(N, MaxOrder)
  <2>1. tops \in Nat /\ N % s \in Nat /\ N % s < s /\ N = tops * s + (N % s)
    BY <1>1, <1>2, Division
  <2>2. tops * s \in Nat
    BY <1>2, <2>1, Multiples
  <2> DEFINE r == N % s
             q == tops * s
  <2>3. N = q + r /\ r \in Nat /\ q \in Nat /\ r < s
    BY <2>1, <2>2
  <2>4. Base(N, MaxOrder) = N - r
    BY DEF Base
  <2> HIDE DEF r, q
  <2>5. Base(N, MaxOrder) = q
    BY <2>3, <2>4
  <2> QED BY <2>1, <2>3, <2>5 DEF q
<1>4. \A k \in Nat : /\ Base(N, k) \in Nat /\ Aligned(Base(N, k), k)
                     /\ Base(N, k) <= N /\ N < Base(N, k) + Span(k)
  BY <1>1, BaseIs
<1>5. \A y : IsFree(b, y, MaxOrder) <=> \E a \in 0 .. tops - 1 : y = a * s
  BY InitLists
<1>6. \A k \in Orders : k # MaxOrder => \A y :
        IsFree(b, y, k) <=> y = Base(N, k + 1) /\ Base(N, k + 1) + Span(k) <= N
  BY InitLists
<1>7. B = {x \in Pages \X Orders : IsFree(b, x[1], x[2])}
  <2>1. \A y \in Pages : b.count[y] = 0
    BY DEF buddy_system_init
  <2> HIDE DEF b
  <2>2. \A x \in Pages \X Orders : ~(b.count[x[1]] > 0)
    BY <2>1
  <2> QED BY <2>2 DEF BlocksOf
<1> HIDE DEF b, B, s, tops, N
(* A free block of order k ends below the place where those of lower       *)
(* orders begin.                                                           *)
<1>8. ASSUME NEW y \in Pages, NEW k \in Orders, IsFree(b, y, k)
      PROVE  /\ Aligned(y, k) /\ y + Span(k) <= Base(N, k)
             /\ k # MaxOrder => y = Base(N, k + 1)
  <2>0. k \in Nat /\ k + 1 \in Nat /\ y \in Nat
    BY <1>1
  <2>1. CASE k = MaxOrder
    <3>1. PICK a \in 0 .. tops - 1 : y = a * s
      BY <1>5, <1>8, <2>1
    <3>2. a \in Nat /\ a + 1 \in Nat /\ a + 1 <= tops /\ (a + 1) * s = y + s /\ (a + 1) * s \in Nat
      BY <1>2, <1>3, <3>1, Multiples
    <3>3. (a + 1) * s <= tops * s
      <4> SUFFICES ASSUME ~((a + 1) * s <= tops * s) PROVE FALSE
        OBVIOUS
      <4>1. tops * s < (a + 1) * s
        BY <1>3, <3>2
      <4>2. tops <= a
        BY <1>2, <1>3, <3>2, <4>1, Multiples
      <4> QED BY <1>3, <3>2, <4>2
    <3>4. Aligned(y, k)
      BY <2>1, <3>1, <3>2 DEF Aligned, s
    <3> QED BY <1>3, <2>1, <3>2, <3>3, <3>4 DEF s
  <2>2. CASE k # MaxOrder
    <3>1. y = Base(N, k + 1) /\ y + Span(k) <= N
      BY <1>6, <1>8, <2>2
    <3>2. Aligned(y, k)
      BY <1>4, <2>0, <3>1, AlignedDown
    <3>3. y # Base(N, k)
      <4>1. N < Base(N, k) + Span(k) /\ Span(k) \in Nat
        BY <1>2, <1>4, <2>0
      <4> QED BY <1>1, <2>0, <3>1, <4>1
    <3>4. y + Span(k) <= Base(N, k)
      <4>1. Base(N, k) = y + Span(k)
        BY <1>1, <2>0, <3>1, <3>3, BaseStep
      <4> QED BY <1>2, <2>0, <4>1
    <3> QED BY <3>1, <3>2, <3>4
  <2> QED BY <2>1, <2>2
<1>9. \A x \in B : /\ x[1] \in Nat /\ x[2] \in Nat /\ x[2] \in Orders /\ Span(x[2]) \in Nat \ {0}
                   /\ Aligned(x[1], x[2]) /\ x[1] + Span(x[2]) <= Base(N, x[2])
                   /\ (x[2] # MaxOrder => x[1] = Base(N, x[2] + 1))
                   /\ x = <<x[1], x[2]>> /\ x[2] <= MaxOrder
  <2> SUFFICES ASSUME NEW x \in B
               PROVE  /\ x[1] \in Nat /\ x[2] \in Nat /\ x[2] \in Orders /\ Span(x[2]) \in Nat \ {0}
                      /\ Aligned(x[1], x[2]) /\ x[1] + Span(x[2]) <= Base(N, x[2])
                      /\ (x[2] # MaxOrder => x[1] = Base(N, x[2] + 1))
                      /\ x = <<x[1], x[2]>> /\ x[2] <= MaxOrder
    OBVIOUS
  <2>1. x[1] \in Pages /\ x[2] \in Orders /\ IsFree(b, x[1], x[2]) /\ x = <<x[1], x[2]>>
    BY <1>7
  <2>2. x[2] <= MaxOrder /\ x[2] \in Nat
    BY <2>1 DEF Orders
  <2> QED BY <1>1, <1>2, <1>8, <2>1, <2>2
<1>10. \A x \in B : Aligned(x[1], x[2]) /\ x[1] + Span(x[2]) <= N
  <2> SUFFICES ASSUME NEW x \in B PROVE Aligned(x[1], x[2]) /\ x[1] + Span(x[2]) <= N
    OBVIOUS
  <2>1. Base(N, x[2]) <= N /\ Base(N, x[2]) \in Nat
    BY <1>4, <1>9
  <2> QED BY <1>1, <1>9, <2>1
<1>11. ASSUME NEW g \in Pages PROVE \E x \in B : Within(g, x)
  <2>0. g \in Nat /\ g < N
    BY <1>1
  <2>1. CASE g < Base(N, MaxOrder)
    <3> DEFINE a == g \div s
               r == g % s
    <3>1. a \in Nat /\ r \in Nat /\ r < s /\ g = a * s + r
      BY <1>2, <2>0, Division
    <3> HIDE DEF a, r
    <3>2. a * s \in Nat /\ a * s <= g /\ g < a * s + s
      <4>1. a * s \in Nat
        BY <1>2, <3>1, Multiples
      <4> DEFINE q == a * s
      <4>2. q \in Nat /\ g = q + r
        BY <3>1, <4>1
      <4> HIDE DEF q
      <4>3. q <= g /\ g < q + s
        BY <1>2, <3>1, <4>2
      <4> QED BY <4>2, <4>3 DEF q
    <3>3. a < tops
      <4> SUFFICES ASSUME tops <= a PROVE FALSE
        BY <1>3, <3>1
      <4>1. a * s < tops * s
        BY <1>3, <2>1, <2>0, <3>2
      <4>2. (tops + 1) * s = tops * s + s /\ (a + 1) * s = a * s + s
        BY <1>2, <1>3, <3>1, Multiples
      <4>3. (a + 1) * s < (tops + 1) * s
        BY <1>2, <1>3, <3>2, <4>1, <4>2
      <4>4. a + 1 <= tops
        BY <1>2, <1>3, <3>1, <4>3, Multiples
      <4> QED BY <1>3, <3>1, <4>4
    <3>4. a \in 0 .. tops - 1
      BY <1>3, <3>1, <3>3
    <3>5. IsFree(b, a * s, MaxOrder)
      BY <1>5, <3>4
    <3>6. a * s \in Pages
      BY <1>1, <2>0, <3>2
    <3>7. <<a * s, MaxOrder>> \in B
      BY <1>1, <1>7, <3>5, <3>6
    <3>8. Within(g, <<a * s, MaxOrder>>)
      BY <3>2 DEF Within, s
    <3> QED BY <3>7, <3>8
  <2>2. CASE ~(g < Base(N, MaxOrder))
    <3> DEFINE S == {k \in 0 .. MaxOrder : Base(N, k) <= g}
               m == Min(S)
    <3>1. MaxOrder \in S
      BY <1>1, <1>4, <2>0, <2>2
    <3>2. S \in SUBSET Nat
      OBVIOUS
    <3>3. m \in S /\ \A k \in S : m <= k
      <4> HIDE DEF S
      <4> QED BY <3>1, <3>2, MinOf
    <3> HIDE DEF m
    <3>4. m # 0
      <4>1. N < Base(N, 0) + 1 /\ Base(N, 0) \in Nat
        BY <1>4, SpanStep
      <4>2. ~(Base(N, 0) <= g)
        BY <1>1, <2>0, <4>1
      <4> QED BY <3>3, <4>2
    <3> DEFINE j == m - 1
               u == Base(N, j + 1)
    <3>5. j \in Nat /\ j + 1 = m /\ j \in Orders /\ j # MaxOrder /\ j \in 0 .. MaxOrder /\ j < m
      BY <1>1, <3>3, <3>4 DEF Orders
    <3>6. g < Base(N, j) /\ u <= g
      <4>1. Base(N, j) \in Nat /\ j \notin S
        BY <1>4, <3>3, <3>5
      <4>2. ~(Base(N, j) <= g)
        BY <3>5, <4>1
      <4>3. u <= g
        BY <3>3, <3>5
      <4> QED BY <2>0, <4>1, <4>2, <4>3
    <3> HIDE DEF j, S
    <3>7. u \in Nat /\ Base(N, j) \in Nat /\ Base(N, j) <= N /\ Span(j) \in Nat
      BY <1>2, <1>4, <3>5
    <3>8. Base(N, j) = u + Span(j)
      <4>1. Base(N, j) # u
        BY <2>0, <3>6, <3>7
      <4> QED BY <1>1, <3>5, <4>1, BaseStep
    <3>9. IsFree(b, u, j) /\ u \in Pages
      <4>1. u + Span(j) <= N
        BY <3>7, <3>8
      <4>2. u < N
        BY <2>0, <1>1, <3>6, <3>7
      <4> QED BY <1>1, <1>6, <3>5, <3>7, <4>1, <4>2
    <3> HIDE DEF u
    <3>10. <<u, j>> \in B
      BY <1>7, <3>5, <3>9
    <3>11. Within(g, <<u, j>>)
      BY <3>6, <3>8 DEF Within
    <3> QED BY <3>10, <3>11
  <2> QED BY <2>1, <2>2
<1>12. ASSUME NEW g \in Pages, NEW x \in B, NEW y \in B, Within(g, x), Within(g, y)
       PROVE  ~(x[2] < y[2])
  <2> SUFFICES ASSUME x[2] < y[2] PROVE FALSE
    OBVIOUS
  <2>1. g \in Nat /\ x[1] <= g /\ g < y[1] + Span(y[2])
    BY <1>1, <1>12 DEF Within
  <2>2. /\ x[2] \in Nat /\ y[2] \in Nat /\ y[1] \in Nat /\ Span(y[2]) \in Nat
        /\ y[1] + Span(y[2]) <= Base(N, y[2])
        /\ y[2] <= MaxOrder
    BY <1>9
  <2>3. x[1] = Base(N, x[2] + 1)
    BY <1>1, <1>9, <2>2
  <2>4. x[2] + 1 \in Nat /\ x[2] + 1 <= y[2]
    BY <2>2
  <2>5. Base(N, y[2]) <= Base(N, x[2] + 1)
    BY <1>1, <2>2, <2>4, BaseFalls
  <2>6. Base(N, y[2]) \in Nat /\ Base(N, x[2] + 1) \in Nat
    BY <1>4, <2>2, <2>4
  <2> QED BY <2>1, <2>2, <2>3, <2>5, <2>6
<1>13. ASSUME NEW g \in Pages, NEW x \in B, NEW y \in B, Within(g, x), Within(g, y)
       PROVE  x = y
  <2>1. /\ g \in Nat /\ x[1] <= g /\ g < y[1] + Span(y[2])
        /\ y[1] <= g /\ g < x[1] + Span(x[2])
    BY <1>1, <1>13 DEF Within
  <2>2. /\ x[2] \in Nat /\ y[2] \in Nat /\ y[1] \in Nat /\ x[1] \in Nat
        /\ Aligned(x[1], x[2]) /\ Aligned(y[1], y[2])
        /\ x = <<x[1], x[2]>> /\ y = <<y[1], y[2]>>
    BY <1>9
  <2>3. x[2] = y[2]
    <3>1. ~(x[2] < y[2])
      BY <1>12, <1>13
    <3>2. ~(y[2] < x[2])
      BY <1>12, <1>13
    <3> QED BY <2>2, <3>1, <3>2
  <2>4. x[1] <= y[1]
    BY <2>1, <2>2, <2>3, Nested
  <2>5. y[1] <= x[1]
    BY <2>1, <2>2, <2>3, Nested
  <2>6. x[1] = y[1]
    BY <2>2, <2>4, <2>5
  <2> QED BY <2>2, <2>3, <2>6
<1>14. B \subseteq Pages \X Orders
  BY <1>7
<1> QED BY <1>10, <1>11, <1>13, <1>14 DEF Tiles, B, b, N

(* The buddy system starts well, and has a page to give.                   *)
LEMMA InitKeeps == BuddyInv(buddy_system_init) /\ HasBlock(buddy_system_init, 0)
<1> DEFINE b == buddy_system_init
<1>1. /\ b.count = [g \in Pages |-> 0] /\ b.order = [g \in Pages |-> 0]
      /\ b.list = mount_orderlist
      /\ b = [list |-> b.list, count |-> b.count, order |-> b.order]
  BY DEF buddy_system_init
<1>2. \A k \in Orders : b.list[k] \in Seq(Pages) /\ Once(b.list[k])
  BY InitLists
<1>3. Tiles(BlocksOf(b))
  BY InitTiles
<1>4. MaxOrder \in Nat /\ NPages \in Nat /\ NPages # 0
  BY PhysAssumption
<1>5. b.list = [k \in Orders |-> b.list[k]]
  BY <1>1 DEF mount_orderlist
<1> HIDE DEF b
<1>6. b.list \in [Orders -> Seq(Pages)]
  BY <1>2, <1>5
<1>7. 0 \in Orders /\ \A k \in Orders : 0 <= k
  BY <1>4 DEF Orders
<1>8. b \in [list : [Orders -> Seq(Pages)], count : [Pages -> Nat], order : [Pages -> Orders]]
  <2>1. b.count \in [Pages -> Nat] /\ b.order \in [Pages -> Orders]
    BY <1>1, <1>7
  <2> QED BY <1>1, <1>6, <2>1
<1>9. BuddyInv(b)
  <2>1. \A g \in Pages, k \in Orders : b.count[g] = 0 /\ b.order[g] <= k
    BY <1>1, <1>7
  <2> QED BY <1>2, <1>3, <1>8, <2>1 DEF BuddyInv
<1>10. HasBlock(b, 0)
  <2>1. 0 \in Pages
    BY <1>4 DEF Pages
  <2>2. PICK x \in BlocksOf(b) : Within(0, x)
    BY <1>3, <2>1 DEF Tiles
  <2>3. x[1] \in Pages /\ x[2] \in Orders /\ (IsFree(b, x[1], x[2]) \/ b.count[x[1]] > 0)
    BY DEF BlocksOf
  <2>4. IsFree(b, x[1], x[2])
    BY <1>1, <2>3
  <2>5. b.list[x[2]] # <<>>
    <3>1. DOMAIN b.list[x[2]] # {}
      BY <2>4 DEF IsFree, OnList
    <3> QED BY <3>1
  <2>6. x[2] \in 0 .. MaxOrder
    BY <2>3 DEF Orders
  <2> QED BY <2>5, <2>6 DEF HasBlock
<1> QED BY <1>9, <1>10 DEF b

(* What holds after boot.                                                  *)
LEMMA BootKeeps == BuddyInv(Boot)
<1>1. BuddyInv(buddy_system_init) /\ HasBlock(buddy_system_init, 0)
  BY InitKeeps
<1>2. 0 \in Orders
  BY PhysAssumption DEF Orders
<1> DEFINE b == buddy_system_init
<1> HIDE DEF b
<1>3. BuddyInv(b) /\ HasBlock(b, 0)
  BY <1>1 DEF b
<1>4. BuddyInv(pages_alloc(b, 0))
  BY <1>2, <1>3, AllocKeeps
<1> QED BY <1>4 DEF Boot, b

(* The invariant says what the partition of the pages asks for.            *)
LEMMA PartitionHolds ==
  ASSUME NEW b, BuddyInv(b)
  PROVE  PagesPartitionOf(b)
<1> DEFINE all == FreeBlocks(b) \cup UsedBlocks(b)
<1>1. /\ \A k \in Orders : b.list[k] \in Seq(Pages) /\ Once(b.list[k])
      /\ \A g \in Pages, k \in Orders : IsFree(b, g, k) => b.count[g] = 0
      /\ Tiles(BlocksOf(b))
      /\ \A g \in Pages : b.order[g] \in Orders
  BY DEF BuddyInv
<1>2. /\ Orders \subseteq Nat /\ NPages \in Nat
      /\ Pages \subseteq Nat /\ \A g \in Nat : g \in Pages <=> g < NPages
  BY PhysAssumption DEF Orders, Pages
<1>3. \A x : x \in FreeBlocks(b) <=>
         \E g \in Pages, k \in Orders : x = <<g, k>> /\ IsFree(b, g, k)
  <2>1. \A k \in Orders : \A i \in DOMAIN b.list[k] : b.list[k][i] \in Pages
    BY <1>1
  <2> QED BY <2>1 DEF FreeBlocks, IsFree, OnList
<1>4. \A x : x \in UsedBlocks(b) <=>
         \E g \in Pages : x = <<g, b.order[g]>> /\ b.count[g] > 0
  BY DEF UsedBlocks
<1>5. all = BlocksOf(b)
  <2>1. \A x \in all : x \in BlocksOf(b)
    BY <1>1, <1>3, <1>4 DEF BlocksOf
  <2>2. \A x \in BlocksOf(b) : x \in all
    <3> SUFFICES ASSUME NEW x \in BlocksOf(b) PROVE x \in all
      OBVIOUS
    <3>1. PICK g \in Pages, k \in Orders : x = <<g, k>>
      BY DEF BlocksOf
    <3>2. IsFree(b, g, k) \/ (b.count[g] > 0 /\ b.order[g] = k)
      BY <3>1 DEF BlocksOf
    <3> QED BY <1>3, <1>4, <3>1, <3>2
  <2> QED BY <2>1, <2>2
<1>6. FreeBlocks(b) \cap UsedBlocks(b) = {}
  <2> SUFFICES ASSUME NEW x \in FreeBlocks(b), x \in UsedBlocks(b) PROVE FALSE
    OBVIOUS
  <2>1. PICK g \in Pages, k \in Orders : x = <<g, k>> /\ IsFree(b, g, k)
    BY <1>3
  <2>2. PICK h \in Pages : x = <<h, b.order[h]>> /\ b.count[h] > 0
    BY <1>4
  <2>3. g = h /\ b.count[g] = 0
    BY <1>1, <2>1, <2>2
  <2> QED BY <2>2, <2>3
<1> HIDE DEF all
<1>7. \A x \in all : \A g : g \in BlockPages(x[1], x[2]) <=> g \in Pages /\ Within(g, x)
  <2> SUFFICES ASSUME NEW x \in all, NEW g
               PROVE  g \in BlockPages(x[1], x[2]) <=> g \in Pages /\ Within(g, x)
    OBVIOUS
  <2>1. x[1] \in Pages /\ x[2] \in Orders /\ x[1] + Span(x[2]) <= NPages
    BY <1>1, <1>5 DEF Tiles
  <2>2. x[1] \in Nat /\ Span(x[2]) \in Nat
    BY <1>2, <2>1, SpanStep
  <2>3. g \in BlockPages(x[1], x[2]) <=> g \in Nat /\ x[1] <= g /\ g < x[1] + Span(x[2])
    BY <2>2 DEF BlockPages
  <2>4. g \in Nat /\ g < x[1] + Span(x[2]) => g \in Pages
    BY <1>2, <2>1, <2>2
  <2> QED BY <1>2, <2>3, <2>4 DEF Within
<1>8. \A x, y \in all : x # y => BlockPages(x[1], x[2]) \cap BlockPages(y[1], y[2]) = {}
  <2> SUFFICES ASSUME NEW x \in all, NEW y \in all, x # y,
                      NEW g \in BlockPages(x[1], x[2]), g \in BlockPages(y[1], y[2])
               PROVE  FALSE
    OBVIOUS
  <2>1. g \in Pages /\ Within(g, x) /\ Within(g, y)
    BY <1>7
  <2> QED BY <1>1, <1>5, <2>1 DEF Tiles
<1>9. UNION {BlockPages(x[1], x[2]) : x \in all} = Pages
  <2>1. \A g \in Pages : \E x \in all : g \in BlockPages(x[1], x[2])
    <3> SUFFICES ASSUME NEW g \in Pages PROVE \E x \in all : g \in BlockPages(x[1], x[2])
      OBVIOUS
    <3>1. PICK x \in all : Within(g, x)
      BY <1>1, <1>5 DEF Tiles
    <3> QED BY <1>7, <3>1
  <2>2. \A x \in all : BlockPages(x[1], x[2]) \subseteq Pages
    BY <1>7
  <2> QED BY <2>1, <2>2
<1>10. ASSUME NEW k \in Orders
       PROVE  Cardinality({i \in DOMAIN b.list[k] : TRUE})
                = Cardinality({b.list[k][i] : i \in DOMAIN b.list[k]})
  <2> DEFINE s == b.list[k]
             D == DOMAIN s
             R == {s[i] : i \in D}
             f == [i \in D |-> s[i]]
  <2>1. s \in Seq(Pages) /\ \A i, j \in D : s[i] = s[j] => i = j
    BY <1>1 DEF Once
  <2>2. D = 1 .. Len(s) /\ Len(s) \in Nat
    BY <2>1
  <2>3. IsFiniteSet(D)
    <3> DEFINE n == Len(s)
    <3>1. D = 1 .. n /\ n \in Nat
      BY <2>2
    <3> HIDE DEF n, D
    <3>2. 0 \in Int /\ 1 \in Int /\ n \in Int
      BY <3>1
    <3> QED BY <3>1, <3>2, FS_Interval
  <2>4. /\ f \in [D -> R] /\ \A i, j \in D : f[i] = f[j] => i = j
        /\ \A y \in R : \E i \in D : f[i] = y
    BY <2>1
  <2>5. f \in Bijection(D, R)
    BY <2>4, Fun_IsBij
  <2> HIDE DEF D, R, f
  <2>6. Cardinality(D) = Cardinality(R)
    BY <2>3, <2>5, FS_Bijection DEF ExistsBijection
  <2>7. {i \in D : TRUE} = D
    OBVIOUS
  <2> QED BY <2>6, <2>7 DEF D, R
<1> QED BY <1>6, <1>8, <1>9, <1>10 DEF PagesPartitionOf, all
-----------------------------------------------------------------------------
(* The slub allocator                                                      *)

(* The bounds of a search, and one turn of it, f being what the rest       *)
(* returns.                                                                *)
Bounds == (0 .. Len(slub_size)) \X (0 .. Len(slub_size))
Turn(f, x, size) ==
    LET l == x[1] r == x[2] mid == (l + r) \div 2 IN
    IF r - l <= 0 THEN l
    ELSE IF slub_size[mid + 1] > size THEN f[<<l, mid>>]
    ELSE IF slub_size[mid + 1] = size THEN mid
    ELSE f[<<mid + 1, r>>]

(* A turn needs the rest only between bounds that are closer.              *)
LEMMA TurnCloser ==
  ASSUME NEW x \in Bounds, NEW size
  PROVE  LET l == x[1] r == x[2] mid == (l + r) \div 2 IN
         l < r => /\ mid \in Nat /\ l <= mid /\ mid < r
                  /\ <<l, mid>> \in Bounds /\ mid - l < r - l
                  /\ <<mid + 1, r>> \in Bounds /\ r - (mid + 1) < r - l
                  /\ mid + 1 \in Caches
<1> DEFINE l == x[1]
           r == x[2]
           mid == (l + r) \div 2
<1>1. /\ l \in Nat /\ r \in Nat /\ Len(slub_size) \in Nat
      /\ l <= Len(slub_size) /\ r <= Len(slub_size)
  BY PhysAssumption DEF Bounds
<1>2. mid \in Nat /\ (l + r = 2 * mid \/ l + r = 2 * mid + 1)
  BY <1>1, SMTT(30)
<1> HIDE DEF mid, l, r
<1>3. l < r => l <= mid /\ mid < r
  BY <1>1, <1>2
<1>4. l < r => <<l, mid>> \in Bounds /\ <<mid + 1, r>> \in Bounds /\ mid + 1 \in Caches
  BY <1>1, <1>2, <1>3 DEF Bounds, Caches
<1>5. l < r => mid - l < r - l /\ r - (mid + 1) < r - l
  BY <1>1, <1>2, <1>3
<1> QED BY <1>2, <1>3, <1>4, <1>5 DEF mid, l, r

(* The search ends, so there is a function it computes.                    *)
LEMMA SearchEnds ==
  ASSUME NEW size
  PROVE  \E f : f = [x \in Bounds |-> Turn(f, x, size)]
<1> DEFINE L == Len(slub_size)
           Upto(f, n) == \A x \in Bounds : x[2] - x[1] <= n => f[x] = Turn(f, x, size)
           R == {n \in Nat : \E f : DOMAIN f = Bounds /\ Upto(f, n)
                                    /\ f = [x \in Bounds |-> f[x]]}
<1>1. 0 \in R
  <2> DEFINE f == [x \in Bounds |-> x[1]]
  <2>1. \A x \in Bounds : x[2] - x[1] <= 0 => Turn(f, x, size) = x[1]
    BY DEF Turn
  <2>2. Upto(f, 0) /\ DOMAIN f = Bounds /\ f = [x \in Bounds |-> f[x]]
    BY <2>1
  <2> QED BY <2>2
<1>2. ASSUME NEW n \in R PROVE n + 1 \in R
  <2>1. PICK f : DOMAIN f = Bounds /\ Upto(f, n) /\ f = [x \in Bounds |-> f[x]]
    OBVIOUS
  <2> DEFINE h == [x \in Bounds |-> IF x[2] - x[1] <= n THEN f[x] ELSE Turn(f, x, size)]
  <2>2. \A x \in Bounds : x[1] \in Nat /\ x[2] \in Nat
    BY PhysAssumption DEF Bounds
  <2>3. n \in Nat
    OBVIOUS
  <2>4. \A x \in Bounds : x[2] - x[1] <= n => h[x] = f[x]
    OBVIOUS
  <2>5. \A x \in Bounds : h[x] = Turn(f, x, size)
    BY <2>1
  <2> HIDE DEF h
  <2>6. ASSUME NEW x \in Bounds, x[2] - x[1] <= n + 1
        PROVE  Turn(h, x, size) = Turn(f, x, size)
    <3>1. CASE x[1] < x[2]
      <4> DEFINE l == x[1]
                 r == x[2]
                 mid == (l + r) \div 2
      <4>1. /\ mid \in Nat /\ <<l, mid>> \in Bounds /\ mid - l < r - l
            /\ <<mid + 1, r>> \in Bounds /\ r - (mid + 1) < r - l
        BY <3>1, TurnCloser
      <4>2. l \in Nat /\ r \in Nat /\ r - l <= n + 1
        BY <2>2, <2>6
      <4>3. <<l, mid>>[2] - <<l, mid>>[1] <= n /\ <<mid + 1, r>>[2] - <<mid + 1, r>>[1] <= n
        <5> HIDE DEF mid, l, r
        <5>1. mid - l <= n /\ r - (mid + 1) <= n
          BY <2>3, <4>1, <4>2
        <5> QED BY <5>1
      <4>4. h[<<l, mid>>] = f[<<l, mid>>] /\ h[<<mid + 1, r>>] = f[<<mid + 1, r>>]
        <5> HIDE DEF mid, l, r
        <5> QED BY <2>4, <4>1, <4>3
      <4> QED BY <4>4 DEF Turn
    <3>2. CASE ~(x[1] < x[2])
      <4>1. x[2] - x[1] <= 0
        BY <2>2, <3>2
      <4> QED BY <4>1 DEF Turn
    <3> QED BY <3>1, <3>2
  <2>7. Upto(h, n + 1)
    BY <2>5, <2>6
  <2>8. DOMAIN h = Bounds /\ h = [x \in Bounds |-> h[x]]
    BY DEF h
  <2> QED BY <2>3, <2>7, <2>8
<1>3. R \in SUBSET Nat
  OBVIOUS
<1> HIDE DEF R
<1>4. R = Nat
  BY <1>1, <1>2, <1>3, Induction
<1>5. L \in Nat
  BY PhysAssumption
<1>6. PICK f : DOMAIN f = Bounds /\ Upto(f, L) /\ f = [x \in Bounds |-> f[x]]
  BY <1>4, <1>5 DEF R
<1>7. \A x \in Bounds : x[2] - x[1] <= L
  BY <1>5 DEF Bounds
<1>8. \A x \in Bounds : f[x] = Turn(f, x, size)
  BY <1>6, <1>7
<1>9. f = [x \in Bounds |-> Turn(f, x, size)]
  BY <1>6, <1>8
<1> QED BY <1>9

(* binary_search_ge() finds a cache whose objects are large enough.        *)
LEMMA SearchFinds ==
  ASSUME NEW size \in Nat, size <= slub_size[Len(slub_size)]
  PROVE  /\ binary_search_ge(size) \in Caches
         /\ size <= slub_size[binary_search_ge(size)]
<1> DEFINE L == Len(slub_size)
           f == CHOOSE h : h = [x \in Bounds |-> Turn(h, x, size)]
<1>1. f = [x \in Bounds |-> Turn(f, x, size)]
  BY SearchEnds
<1>2. binary_search_ge(size) = f[<<0, L>>] + 1
  BY DEF binary_search_ge, Bounds, Turn
<1> HIDE DEF f
<1>3. L \in Nat \ {0} /\ \A i \in Caches : slub_size[i] \in Nat
  BY PhysAssumption DEF Caches
<1>4. \A x \in Bounds : f[x] = Turn(f, x, size)
  BY <1>1
<1>5. \A x \in Bounds : x[1] \in Nat /\ x[2] \in Nat /\ x[1] <= L /\ x[2] <= L
  BY <1>3 DEF Bounds
(* Whatever is left of the bounds is too small, whatever is right of them  *)
(* is not.                                                                 *)
<1> DEFINE Pre(x) == x[1] < L /\ x[1] <= x[2] /\ (x[2] < L => size <= slub_size[x[2] + 1])
           Post(m) == m \in Nat /\ m < L /\ size <= slub_size[m + 1]
           R == {n \in Nat : \A x \in Bounds : x[2] - x[1] <= n /\ Pre(x) => Post(f[x])}
<1>6. ASSUME NEW x \in Bounds, Pre(x), ~(x[1] < x[2]) PROVE Post(f[x])
  <2>1. x[2] - x[1] <= 0 /\ x[1] = x[2]
    BY <1>3, <1>5, <1>6
  <2>2. f[x] = x[1]
    BY <1>4, <2>1 DEF Turn
  <2>3. x[1] \in Nat /\ x[1] < L /\ size <= slub_size[x[1] + 1]
    BY <1>5, <1>6, <2>1
  <2> QED BY <2>2, <2>3
<1>7. 0 \in R
  <2>1. \A x \in Bounds : x[2] - x[1] <= 0 => ~(x[1] < x[2])
    BY <1>5
  <2> HIDE DEF Pre, Post
  <2> QED BY <1>6, <2>1
<1>8. ASSUME NEW n \in R PROVE n + 1 \in R
  <2> SUFFICES ASSUME NEW x \in Bounds, x[2] - x[1] <= n + 1, Pre(x) PROVE Post(f[x])
    OBVIOUS
  <2>1. CASE ~(x[1] < x[2])
    BY <1>6, <2>1
  <2>2. CASE x[1] < x[2]
    <3> DEFINE l == x[1]
               r == x[2]
               mid == (l + r) \div 2
               a == <<l, mid>>
               b == <<mid + 1, r>>
    <3>1. /\ mid \in Nat /\ l <= mid /\ mid < r /\ a \in Bounds /\ mid - l < r - l
          /\ b \in Bounds /\ r - (mid + 1) < r - l /\ mid + 1 \in Caches
      BY <2>2, TurnCloser
    <3>2. f[x] = IF slub_size[mid + 1] > size THEN f[a]
                 ELSE IF slub_size[mid + 1] = size THEN mid ELSE f[b]
      <4>1. ~(x[2] - x[1] <= 0)
        BY <1>5, <2>2
      <4> QED BY <1>4, <4>1 DEF Turn
    <3>3. /\ l \in Nat /\ r \in Nat /\ r <= L /\ n \in Nat /\ r - l <= n + 1 /\ l < L
          /\ (r < L => size <= slub_size[r + 1])
      BY <1>5
    <3> HIDE DEF mid, l, r
    <3>4. a[1] = l /\ a[2] = mid /\ b[1] = mid + 1 /\ b[2] = r
      OBVIOUS
    <3> HIDE DEF a, b
    <3>5. a[2] - a[1] <= n /\ b[2] - b[1] <= n
      BY <3>1, <3>3, <3>4
    <3>6. slub_size[mid + 1] \in Nat
      BY <1>3, <3>1
    <3>7. CASE slub_size[mid + 1] > size
      <4>1. Pre(a)
        BY <1>3, <3>1, <3>3, <3>4, <3>6, <3>7
      <4> HIDE DEF Pre, Post
      <4> QED BY <3>1, <3>2, <3>5, <3>7, <4>1
    <3>8. CASE slub_size[mid + 1] = size
      <4>1. mid < L /\ f[x] = mid
        BY <1>3, <3>1, <3>2, <3>3, <3>6, <3>8
      <4> QED BY <1>3, <3>1, <3>8, <4>1
    <3>9. CASE slub_size[mid + 1] < size
      <4>1. f[x] = f[b]
        BY <3>2, <3>6, <3>9
      <4>2. mid + 1 # L
        BY <3>6, <3>9, <1>3
      <4>3. Pre(b)
        BY <1>3, <3>1, <3>3, <3>4, <4>2
      <4> HIDE DEF Pre, Post
      <4> QED BY <3>1, <3>5, <4>1, <4>3
    <3> HIDE DEF Pre, Post
    <3>10. slub_size[mid + 1] > size \/ slub_size[mid + 1] = size \/ slub_size[mid + 1] < size
      BY <3>6
    <3> QED BY <3>7, <3>8, <3>9, <3>10
  <2> QED BY <2>1, <2>2
<1>9. R \in SUBSET Nat
  OBVIOUS
<1> DEFINE z == <<0, L>>
<1>10. z \in Bounds /\ z[2] - z[1] <= L /\ Pre(z)
  BY <1>3 DEF Bounds
<1> HIDE DEF R
<1>11. R = Nat
  BY <1>7, <1>8, <1>9, Induction
<1>12. Post(f[z])
  <2> HIDE DEF Pre, Post, z
  <2> QED BY <1>3, <1>10, <1>11 DEF R
<1>13. binary_search_ge(size) = f[z] + 1 /\ f[z] + 1 \in 1 .. L
  BY <1>2, <1>3, <1>12
<1> HIDE DEF z
<1> QED BY <1>12, <1>13 DEF Caches
-----------------------------------------------------------------------------
(* The inductive invariant of Vm                                           *)

(* The entries of the page tables t that map page g, those that may write, *)
(* and the processes whose value in f is g.                                *)
UsersOf(t, g)   == {u \in Procs \X VPages : t[u[1]][u[2]].page = g}
WritersOf(t, g) == {u \in UsersOf(t, g) : t[u[1]][u[2]].w}
HoldersOf(f, g) == {p \in Procs : f[p] = g}

(* Two page tables that differ in one entry, what that means for the users *)
(* of every page, and two functions that differ in the value of a process. *)
SameBut(s, t, p, v) ==
    \A q \in Procs, x \in VPages : q # p \/ x # v => t[q][x] = s[q][x]
Moved(s, t, p, v) ==
    \A g :
       /\ t[p][v].page = g => UsersOf(t, g) = UsersOf(s, g) \cup {<<p, v>>}
       /\ t[p][v].page # g => UsersOf(t, g) = UsersOf(s, g) \ {<<p, v>>}
       /\ t[p][v].page = g /\ t[p][v].w => WritersOf(t, g) = WritersOf(s, g) \cup {<<p, v>>}
       /\ ~(t[p][v].page = g /\ t[p][v].w) => WritersOf(t, g) = WritersOf(s, g) \ {<<p, v>>}
       /\ s[p][v].page # g /\ t[p][v].page # g =>
             UsersOf(t, g) = UsersOf(s, g) /\ WritersOf(t, g) = WritersOf(s, g)
SameElse(s, t, p) == \A q \in Procs : q # p => t[q] = s[q]

(* A page with count c and order o, mapped by U and for writing by W, with *)
(* its lock held by L, is given back by F, is the new stack of S, is a     *)
(* block of the kernel (K) or a page of the slub allocator (B).            *)
PageOk(c, o, U, W, L, F, S, K, B) ==
    /\ U # {} \/ F # {} =>
          /\ c > 0 /\ o = 0 /\ S = {} /\ K = {} /\ B = {}
          /\ c = Cardinality(U) - Cardinality(L) + Cardinality(F)
    /\ W # {} => \E u \in U : U = {u}
    /\ F # {} => U = {} /\ \E p \in F : F = {p}
    /\ S # {} => c = 1 /\ o = 0 /\ K = {} /\ B = {} /\ \E p \in S : S = {p}
    /\ K # {} => c = 1 /\ B = {}
    /\ B # {} => c = 1

PageAt(g) ==
    PageOk(buddy.count[g], buddy.order[g], UsersOf(pte, g), WritersOf(pte, g),
           {lk[g]} \ {NoProc}, HoldersOf(freeing, g), HoldersOf(ustack, g),
           kernel \cap {g}, {slub.linked[g]} \ {0})

PageNos == 0 .. NPages
Entries == {e \in [page : PageNos, w : BOOLEAN] : e.page = NPages => ~e.w}
Places  == {"unused", "user", "copy", "fork", "initing", "exit", "exec"}

VmType ==
    /\ kernel \subseteq Pages
    /\ DOMAIN slub = {"partial", "full", "obj_freelist", "linked"}
    /\ slub.linked \in [Pages -> Nat]
    /\ lk \in [Pages -> Procs \cup {NoProc}]
    /\ pte \in [Procs -> [VPages -> Entries]]
    /\ pc \in [Procs -> Places]
    /\ todo \in [Procs -> SUBSET VPages] /\ at \in [Procs -> VPages]
    /\ freeing \in [Procs -> PageNos] /\ ustack \in [Procs -> PageNos]
    /\ child \in [Procs -> Procs \cup {NoProc}]

(* A process that copies holds the lock of its page, and so does nobody    *)
(* else; that page is mapped and may not be written.                       *)
LockInv ==
    /\ \A p \in Procs : pc[p] = "copy" =>
          LET e == pte[p][at[p]] IN
          e.page \in Pages /\ ~e.w /\ lk[e.page] = p
    /\ \A g \in Pages : lk[g] # NoProc =>
          pc[lk[g]] = "copy" /\ pte[lk[g]][at[lk[g]]].page = g

(* What is still mapped where memory is being released or copied.          *)
TablesInv ==
    /\ \A p \in Procs : pc[p] = "unused" => \A v \in VPages : ~Mapped(p, v)
    /\ \A p \in Procs : Leaving(p) => \A v \in VPages \ todo[p] : ~Mapped(p, v)
    /\ \A p \in Procs : ustack[p] # NPages <=> pc[p] = "exec"
    /\ \A p \in Procs, v \in Text : ~pte[p][v].w

(* The child of a fork has a copy of what the fork has come past, and      *)
(* nothing else.                                                           *)
ForkInv ==
    /\ \A p \in Procs : pc[p] = "fork" =>
          /\ child[p] \in Procs /\ pc[child[p]] = "initing"
          /\ \A v \in VPages :
                pte[child[p]][v].page = IF v \in todo[p] THEN NPages ELSE pte[p][v].page
    /\ \A p \in Procs : child[p] # NoProc => pc[p] = "fork"
    /\ \A p, q \in Procs : child[p] = child[q] /\ child[p] # NoProc => p = q

VmInv ==
    /\ VmType /\ BuddyInv(buddy) /\ LockInv /\ TablesInv /\ ForkInv
    /\ \A g \in Pages : PageAt(g)

(* An entry of a page table maps a page or is empty.                       *)
LEMMA MappedIs ==
  ASSUME VmType
  PROVE  /\ NPages \notin Pages /\ PageNos = Pages \cup {NPages} /\ Unmapped \in Entries
         /\ \A p \in Procs, v \in VPages :
               /\ pte[p][v] \in Entries
               /\ Mapped(p, v) <=> pte[p][v].page \in Pages
               /\ Mapped(p, v) <=> pte[p][v].page # NPages
               /\ pte[p][v].w => Mapped(p, v)
<1>1. NPages \notin Pages /\ PageNos = Pages \cup {NPages} /\ NPages \in PageNos
  BY PhysAssumption DEF Pages, PageNos
<1>2. Unmapped \in Entries
  BY <1>1 DEF Unmapped, Entries
<1> SUFFICES ASSUME NEW p \in Procs, NEW v \in VPages
             PROVE  /\ pte[p][v] \in Entries
                    /\ Mapped(p, v) <=> pte[p][v].page \in Pages
                    /\ Mapped(p, v) <=> pte[p][v].page # NPages
                    /\ pte[p][v].w => Mapped(p, v)
  BY <1>1, <1>2
<1> DEFINE e == pte[p][v]
<1>3. e \in Entries
  BY DEF VmType
<1> HIDE DEF e
<1>4. e.page \in PageNos /\ (e.page = NPages => ~e.w) /\ e = [page |-> e.page, w |-> e.w]
      /\ e.w \in BOOLEAN
  BY <1>3 DEF Entries
<1>5. e = Unmapped <=> e.page = NPages
  BY <1>4 DEF Unmapped
<1> QED BY <1>1, <1>3, <1>4, <1>5 DEF Mapped, e

(* One entry of a page table changes.                                      *)
LEMMA UsersChange ==
  ASSUME NEW s, NEW t, NEW p \in Procs, NEW v \in VPages, SameBut(s, t, p, v)
  PROVE  Moved(s, t, p, v)
<1> SUFFICES ASSUME NEW g
             PROVE
         /\ t[p][v].page = g => UsersOf(t, g) = UsersOf(s, g) \cup {<<p, v>>}
         /\ t[p][v].page # g => UsersOf(t, g) = UsersOf(s, g) \ {<<p, v>>}
         /\ t[p][v].page = g /\ t[p][v].w => WritersOf(t, g) = WritersOf(s, g) \cup {<<p, v>>}
         /\ ~(t[p][v].page = g /\ t[p][v].w) => WritersOf(t, g) = WritersOf(s, g) \ {<<p, v>>}
         /\ s[p][v].page # g /\ t[p][v].page # g =>
               UsersOf(t, g) = UsersOf(s, g) /\ WritersOf(t, g) = WritersOf(s, g)
  BY DEF Moved
<1>1. \A u \in Procs \X VPages : u # <<p, v>> => t[u[1]][u[2]] = s[u[1]][u[2]]
  BY DEF SameBut
<1>2. <<p, v>> \in Procs \X VPages
  OBVIOUS
<1>3. \A u \in Procs \X VPages : u # <<p, v>> =>
         /\ u \in UsersOf(t, g) <=> u \in UsersOf(s, g)
         /\ u \in WritersOf(t, g) <=> u \in WritersOf(s, g)
  BY <1>1 DEF UsersOf, WritersOf
<1>4. /\ <<p, v>> \in UsersOf(t, g) <=> t[p][v].page = g
      /\ <<p, v>> \in WritersOf(t, g) <=> t[p][v].page = g /\ t[p][v].w
  BY <1>2 DEF UsersOf, WritersOf
<1>5. /\ UsersOf(t, g) \subseteq Procs \X VPages /\ UsersOf(s, g) \subseteq Procs \X VPages
      /\ WritersOf(t, g) \subseteq Procs \X VPages /\ WritersOf(s, g) \subseteq Procs \X VPages
  BY DEF UsersOf, WritersOf
<1>6. s[p][v].page # g => <<p, v>> \notin UsersOf(s, g) /\ <<p, v>> \notin WritersOf(s, g)
  BY DEF UsersOf, WritersOf
<1>7. /\ t[p][v].page = g => UsersOf(t, g) = UsersOf(s, g) \cup {<<p, v>>}
      /\ t[p][v].page # g => UsersOf(t, g) = UsersOf(s, g) \ {<<p, v>>}
  BY <1>2, <1>3, <1>4, <1>5
<1>8. /\ t[p][v].page = g /\ t[p][v].w => WritersOf(t, g) = WritersOf(s, g) \cup {<<p, v>>}
      /\ ~(t[p][v].page = g /\ t[p][v].w) => WritersOf(t, g) = WritersOf(s, g) \ {<<p, v>>}
  BY <1>2, <1>3, <1>4, <1>5
<1>9. s[p][v].page # g /\ t[p][v].page # g =>
         UsersOf(t, g) = UsersOf(s, g) /\ WritersOf(t, g) = WritersOf(s, g)
  BY <1>6, <1>7, <1>8
<1> QED BY <1>7, <1>8, <1>9

(* What is not there is not counted.                                       *)
LEMMA NoneOf ==
  ASSUME NEW g
  PROVE  /\ \A t : (\A p \in Procs, v \in VPages : t[p][v].page # g) =>
               UsersOf(t, g) = {} /\ WritersOf(t, g) = {}
         /\ \A f : (\A p \in Procs : f[p] # g) => HoldersOf(f, g) = {}
BY DEF UsersOf, WritersOf, HoldersOf

(* The sets that are counted are finite.                                   *)
LEMMA Counted ==
  ASSUME NEW t, NEW g
  PROVE  /\ IsFiniteSet(UsersOf(t, g)) /\ Cardinality(UsersOf(t, g)) \in Nat
         /\ \A u : u \notin UsersOf(t, g) =>
               /\ Cardinality(UsersOf(t, g) \cup {u}) = Cardinality(UsersOf(t, g)) + 1
         /\ \A u \in UsersOf(t, g) :
               /\ Cardinality(UsersOf(t, g) \ {u}) = Cardinality(UsersOf(t, g)) - 1
               /\ Cardinality(UsersOf(t, g)) = 1 => UsersOf(t, g) = {u}
         /\ \A u : Cardinality({u}) = 1
         /\ Cardinality({}) = 0
<1> DEFINE U == UsersOf(t, g)
<1>1. IsFiniteSet(Procs \X VPages)
  BY VmAssumption, FS_Product
<1>2. U \subseteq Procs \X VPages
  BY DEF UsersOf
<1>3. IsFiniteSet(U)
  BY <1>1, <1>2, FS_Subset
<1> HIDE DEF U
<1>4. Cardinality(U) \in Nat
  BY <1>3, FS_CardinalityType
<1>5. \A u : u \notin U => Cardinality(U \cup {u}) = Cardinality(U) + 1
  BY <1>3, FS_AddElement
<1>6. \A u \in U : Cardinality(U \ {u}) = Cardinality(U) - 1
  BY <1>3, FS_RemoveElement
<1>7. \A u : Cardinality({u}) = 1
  BY FS_Singleton
<1>8. Cardinality({}) = 0
  BY FS_EmptySet
<1>9. ASSUME NEW u \in U, Cardinality(U) = 1 PROVE U = {u}
  <2>1. IsFiniteSet(U \ {u}) /\ Cardinality(U \ {u}) = 0
    BY <1>3, <1>6, <1>9, FS_RemoveElement
  <2>2. U \ {u} = {}
    BY <2>1, FS_EmptySet
  <2> QED BY <2>2
<1> QED BY <1>3, <1>4, <1>5, <1>6, <1>7, <1>8, <1>9 DEF U

(* A page nobody uses.                                                     *)
LEMMA PageUnused ==
  ASSUME NEW c, NEW o, NEW U, NEW W, NEW L, NEW F, NEW S, NEW K, NEW B,
         PageOk(c, o, U, W, L, F, S, K, B), c = 0
  PROVE  U = {} /\ F = {} /\ S = {} /\ K = {} /\ B = {}
BY DEF PageOk

(* What VmInv says of the pages that are mapped, given back, prepared or   *)
(* held by the kernel.                                                     *)
LEMMA PageFacts ==
  ASSUME VmInv, NEW g \in Pages
  PROVE  /\ buddy.count[g] \in Nat
         /\ (\E p \in Procs, v \in VPages : pte[p][v].page = g) =>
               /\ buddy.count[g] > 0 /\ buddy.order[g] = 0 /\ g \notin kernel
               /\ slub.linked[g] = 0
               /\ \A q \in Procs : freeing[q] # g /\ ustack[q] # g
         /\ (\E p \in Procs : freeing[p] = g) =>
               /\ buddy.count[g] = 1 /\ buddy.order[g] = 0 /\ g \notin kernel
               /\ slub.linked[g] = 0 /\ lk[g] = NoProc
               /\ \A p \in Procs, v \in VPages : pte[p][v].page # g
               /\ \A q \in Procs : ustack[q] # g
         /\ (\E p \in Procs : ustack[p] = g) =>
               /\ buddy.count[g] = 1 /\ buddy.order[g] = 0 /\ g \notin kernel
               /\ slub.linked[g] = 0 /\ lk[g] = NoProc
               /\ \A p \in Procs, v \in VPages : pte[p][v].page # g
               /\ \A q \in Procs : freeing[q] # g
         /\ g \in kernel => /\ buddy.count[g] = 1 /\ slub.linked[g] = 0
                            /\ lk[g] = NoProc
                            /\ \A p \in Procs, v \in VPages : pte[p][v].page # g
                            /\ \A q \in Procs : freeing[q] # g /\ ustack[q] # g
<1> DEFINE U == UsersOf(pte, g)
           F == HoldersOf(freeing, g)
           S == HoldersOf(ustack, g)
           K == kernel \cap {g}
           B == {slub.linked[g]} \ {0}
           L == {lk[g]} \ {NoProc}
           c == buddy.count[g]
           o == buddy.order[g]
<1>1. PageOk(c, o, U, WritersOf(pte, g), L, F, S, K, B)
  BY DEF VmInv, PageAt
<1>2. c \in Nat
  BY DEF VmInv, BuddyInv
<1>3. /\ U # {} <=> \E p \in Procs, v \in VPages : pte[p][v].page = g
      /\ F # {} <=> \E p \in Procs : freeing[p] = g
      /\ S # {} <=> \E p \in Procs : ustack[p] = g
      /\ K # {} <=> g \in kernel
      /\ B # {} <=> slub.linked[g] # 0
      /\ L # {} <=> lk[g] # NoProc
  <2>1. U # {} <=> \E p \in Procs, v \in VPages : pte[p][v].page = g
    <3>1. ASSUME NEW p \in Procs, NEW v \in VPages, pte[p][v].page = g PROVE <<p, v>> \in U
      BY <3>1 DEF UsersOf
    <3>2. ASSUME NEW u \in U PROVE \E p \in Procs, v \in VPages : pte[p][v].page = g
      BY DEF UsersOf
    <3> QED BY <3>1, <3>2
  <2> QED BY <2>1 DEF HoldersOf
<1>4. lk[g] # NoProc => U # {}
  <2> SUFFICES ASSUME lk[g] # NoProc PROVE U # {}
    OBVIOUS
  <2>1. lk[g] \in Procs /\ at[lk[g]] \in VPages /\ pte[lk[g]][at[lk[g]]].page = g
    BY DEF VmInv, VmType, LockInv
  <2> QED BY <1>3, <2>1
<1> HIDE DEF U, F, S, K, B, L, c, o
<1>5. F # {} => c = 1 /\ o = 0 /\ U = {} /\ S = {} /\ K = {} /\ B = {}
  <2> SUFFICES ASSUME F # {} PROVE c = 1 /\ o = 0 /\ U = {} /\ S = {} /\ K = {} /\ B = {}
    OBVIOUS
  <2>1. U = {} /\ L = {} /\ o = 0 /\ S = {} /\ K = {} /\ B = {} /\ \E p \in F : F = {p}
    BY <1>1, <1>3, <1>4 DEF PageOk
  <2>2. Cardinality(F) = 1 /\ Cardinality(U) = 0 /\ Cardinality(L) = 0
    BY <2>1, Counted
  <2>3. c = Cardinality(U) - Cardinality(L) + Cardinality(F)
    BY <1>1 DEF PageOk
  <2> QED BY <2>1, <2>2, <2>3
<1>6. U # {} => c > 0 /\ o = 0 /\ F = {} /\ S = {} /\ K = {} /\ B = {}
  BY <1>1 DEF PageOk
<1>7. S # {} => c = 1 /\ o = 0 /\ U = {} /\ F = {} /\ K = {} /\ B = {}
  BY <1>1 DEF PageOk
<1>8. K # {} => c = 1 /\ U = {} /\ F = {} /\ S = {} /\ B = {}
  BY <1>1 DEF PageOk
<1>9. \A q \in Procs : (freeing[q] = g => F # {}) /\ (ustack[q] = g => S # {})
  BY <1>3
<1> QED BY <1>2, <1>3, <1>4, <1>5, <1>6, <1>7, <1>8, <1>9 DEF c, o

(* What the slub allocator does to the pages it owns.                      *)
LEMMA SlubLinked ==
  ASSUME NEW s, DOMAIN s = {"partial", "full", "obj_freelist", "linked"}
  PROVE  /\ \A i : kmalloc(s, i).linked = s.linked /\ DOMAIN kmalloc(s, i) = DOMAIN s
         /\ \A g, off : kfree(s, g, off).linked = s.linked /\ DOMAIN kfree(s, g, off) = DOMAIN s
         /\ \A i, g : /\ new_slub_pages_node(s, i, g).linked = [s.linked EXCEPT ![g] = i]
                      /\ DOMAIN new_slub_pages_node(s, i, g) = DOMAIN s
<1>1. \A i : kmalloc(s, i).linked = s.linked /\ DOMAIN kmalloc(s, i) = DOMAIN s
  BY DEF kmalloc
<1>2. \A g, off : kfree(s, g, off).linked = s.linked /\ DOMAIN kfree(s, g, off) = DOMAIN s
  BY DEF kfree
<1>3. \A i, g : /\ new_slub_pages_node(s, i, g).linked = [s.linked EXCEPT ![g] = i]
               /\ DOMAIN new_slub_pages_node(s, i, g) = DOMAIN s
  BY DEF new_slub_pages_node
<1> QED BY <1>1, <1>2, <1>3

(* What the page is like that pages_alloc() takes.                         *)
LEMMA Fresh ==
  ASSUME VmInv, NEW k \in Orders, HasBlock(buddy, k)
  PROVE  LET h == Allocated(buddy, k) d == pages_alloc(buddy, k) IN
         /\ h \in Pages /\ buddy.count[h] = 0 /\ BuddyInv(d)
         /\ d.count = [buddy.count EXCEPT ![h] = 1] /\ d.order[h] = k
         /\ \A g \in Pages : buddy.count[g] > 0 => d.order[g] = buddy.order[g]
         /\ \A p \in Procs, v \in VPages : pte[p][v].page # h
         /\ \A p \in Procs : freeing[p] # h /\ ustack[p] # h
         /\ h \notin kernel /\ slub.linked[h] = 0 /\ lk[h] = NoProc
<1> DEFINE h == Allocated(buddy, k)
           d == pages_alloc(buddy, k)
<1>1. BuddyInv(buddy)
  BY DEF VmInv
<1>2. /\ h \in Pages /\ buddy.count[h] = 0 /\ BuddyInv(d)
      /\ d.count = [buddy.count EXCEPT ![h] = 1] /\ d.order[h] = k
      /\ \A g \in Pages : buddy.count[g] > 0 => d.order[g] = buddy.order[g]
  BY <1>1, AllocKeeps
<1> HIDE DEF h, d
<1>3. PageAt(h)
  BY <1>2 DEF VmInv
<1>4. /\ UsersOf(pte, h) = {} /\ HoldersOf(freeing, h) = {} /\ HoldersOf(ustack, h) = {}
      /\ kernel \cap {h} = {} /\ {slub.linked[h]} \ {0} = {}
  BY <1>2, <1>3, PageUnused DEF PageAt
<1>5. \A p \in Procs, v \in VPages : pte[p][v].page # h
  <2> SUFFICES ASSUME NEW p \in Procs, NEW v \in VPages, pte[p][v].page = h PROVE FALSE
    OBVIOUS
  <2>1. <<p, v>> \in UsersOf(pte, h)
    BY DEF UsersOf
  <2> QED BY <1>4, <2>1
<1>6. \A p \in Procs : freeing[p] # h /\ ustack[p] # h
  BY <1>4 DEF HoldersOf
<1>7. h \notin kernel /\ slub.linked[h] = 0
  BY <1>4
<1>8. lk[h] = NoProc
  <2> SUFFICES ASSUME lk[h] # NoProc PROVE FALSE
    OBVIOUS
  <2>1. lk[h] \in Procs /\ at[lk[h]] \in VPages /\ pte[lk[h]][at[lk[h]]].page = h
    BY <1>2 DEF VmInv, VmType, LockInv
  <2> QED BY <1>5, <2>1
<1> QED BY <1>2, <1>5, <1>6, <1>7, <1>8 DEF h, d

(* A page for which nothing changes.                                       *)
LEMMA PageSame ==
  ASSUME VmInv, NEW g \in Pages,
         buddy'.count[g] = buddy.count[g],
         buddy.count[g] > 0 => buddy'.order[g] = buddy.order[g],
         UsersOf(pte', g) = UsersOf(pte, g), WritersOf(pte', g) = WritersOf(pte, g),
         lk'[g] = lk[g], HoldersOf(freeing', g) = HoldersOf(freeing, g),
         HoldersOf(ustack', g) = HoldersOf(ustack, g),
         g \in kernel' <=> g \in kernel, slub'.linked[g] = slub.linked[g]
  PROVE  PageAt(g)'
<1>1. PageAt(g) /\ buddy.count[g] \in Nat
  BY DEF VmInv, BuddyInv
<1>2. kernel' \cap {g} = kernel \cap {g}
  OBVIOUS
<1>3. CASE buddy.count[g] > 0
  BY <1>1, <1>2, <1>3 DEF PageAt
<1>4. CASE buddy.count[g] = 0
  BY <1>1, <1>2, <1>4 DEF PageAt, PageOk
<1> QED BY <1>1, <1>3, <1>4

(* The orders the kernel asks for.                                         *)
LEMMA PowerIs ==
  ASSUME NEW n \in 1 .. Span(MaxOrder - 1)
  PROVE  get_power2(n) \in Orders
<1> DEFINE S == {i \in 0 .. 30 : n <= Span(i)}
<1>1. MaxOrder \in 1 .. 30 /\ MaxOrder \in Nat
  BY PhysAssumption
<1>2. MaxOrder - 1 \in S
  BY <1>1
<1>3. S \in SUBSET Nat
  OBVIOUS
<1>4. Min(S) \in S /\ Min(S) <= MaxOrder - 1
  <2> HIDE DEF S
  <2> QED BY <1>2, <1>3, MinOf
<1>5. Min(S) \in 0 .. MaxOrder
  BY <1>1, <1>4
<1> QED BY <1>5 DEF get_power2, Orders

(* Every step keeps the buddy system: pages are taken where there are any, *)
(* and given back by those that hold the last reference.                   *)
LEMMA BuddyNext ==
  ASSUME VmInv, Next
  PROVE  BuddyInv(buddy)'
<1>1. BuddyInv(buddy) /\ VmType
  BY DEF VmInv
<1>2. \A p \in Procs, v \in VPages : Mapped(p, v) =>
         pte[p][v].page \in Pages /\ buddy.count[pte[p][v].page] > 0
  <2> SUFFICES ASSUME NEW p \in Procs, NEW v \in VPages, Mapped(p, v)
               PROVE  pte[p][v].page \in Pages /\ buddy.count[pte[p][v].page] > 0
    OBVIOUS
  <2>1. pte[p][v].page \in Pages
    BY <1>1, MappedIs
  <2> QED BY <2>1, PageFacts
<1>3. 0 \in Orders
  BY PhysAssumption DEF Orders
<1>4. HasBlock(buddy, 0) => BuddyInv(pages_alloc(buddy, 0))
  BY <1>1, <1>3, AllocKeeps
<1>5. \A p \in Procs, v \in VPages : Mapped(p, v) =>
         /\ BuddyInv(pages_dup(buddy, pte[p][v].page))
         /\ BuddyInv(pages_undup(buddy, pte[p][v].page))
  BY <1>1, <1>2, DupKeeps
<1>6. buddy' = buddy => BuddyInv(buddy)'
  BY <1>1
<1>7. ASSUME NEW p \in Procs, todo[p] # {} PROVE Min(todo[p]) \in VPages
  <2>1. todo[p] \in SUBSET Nat /\ todo[p] \subseteq VPages
    BY <1>1, VmAssumption DEF VmType
  <2> QED BY <1>7, <2>1, MinOf
<1>8. ASSUME NEW p \in Procs, do_no_page(p) \/ WpCopy(p) \/ Exec(p) PROVE BuddyInv(buddy)'
  <2>1. HasBlock(buddy, 0) /\ buddy' = pages_alloc(buddy, 0)
    BY <1>8 DEF do_no_page, WpCopy, Exec
  <2> QED BY <1>4, <2>1
<1>9. ASSUME NEW p \in Procs, do_wp_page(p) PROVE BuddyInv(buddy)'
  <2>1. PICK v \in VPages : Mapped(p, v) /\ buddy' = pages_undup(buddy, pte[p][v].page)
    BY <1>9 DEF do_wp_page, Withheld
  <2> QED BY <1>5, <2>1
<1>10. ASSUME NEW p \in Procs, copy_pgtable(p) PROVE BuddyInv(buddy)'
  <2> DEFINE v == Min(todo[p])
  <2>1. /\ todo[p] # {}
        /\ Mapped(p, v) => buddy' = pages_dup(buddy, pte[p][v].page)
        /\ ~Mapped(p, v) => buddy' = buddy
    BY <1>10 DEF copy_pgtable
  <2>2. v \in VPages
    BY <1>7, <2>1
  <2> HIDE DEF v
  <2> QED BY <1>5, <1>6, <2>1, <2>2
<1>11. ASSUME NEW p \in Procs, release_phypg(p) PROVE BuddyInv(buddy)'
  <2> DEFINE v == Min(todo[p])
  <2>1. /\ todo[p] # {}
        /\ Mapped(p, v) => buddy' = pages_undup(buddy, pte[p][v].page)
        /\ ~Mapped(p, v) => buddy' = buddy
    BY <1>11 DEF release_phypg
  <2>2. v \in VPages
    BY <1>7, <2>1
  <2> HIDE DEF v
  <2> QED BY <1>5, <1>6, <2>1, <2>2
<1>12. ASSUME NEW p \in Procs, FreePage(p) PROVE BuddyInv(buddy)'
  <2>1. freeing[p] # NPages /\ buddy' = pages_free(buddy, freeing[p])
    BY <1>12 DEF FreePage
  <2>2. freeing[p] \in Pages
    <3>1. freeing[p] \in PageNos
      BY <1>1 DEF VmType
    <3> QED BY <1>1, <2>1, <3>1, MappedIs
  <2>3. buddy.count[freeing[p]] = 1
    BY <2>2, PageFacts
  <2> QED BY <1>1, <2>1, <2>2, <2>3, FreeKeeps
<1>13. ASSUME KernelAlloc PROVE BuddyInv(buddy)'
  <2>1. PICK n \in 1 .. Span(MaxOrder - 1) :
           HasBlock(buddy, get_power2(n)) /\ buddy' = pages_alloc(buddy, get_power2(n))
    BY <1>13 DEF KernelAlloc
  <2>2. get_power2(n) \in Orders
    BY PowerIs
  <2> QED BY <1>1, <2>1, <2>2, AllocKeeps
<1>14. ASSUME KernelFree PROVE BuddyInv(buddy)'
  <2>1. PICK g \in kernel : buddy' = pages_free(buddy, g)
    BY <1>14 DEF KernelFree
  <2>2. g \in Pages
    BY <1>1 DEF VmType
  <2>3. buddy.count[g] = 1
    BY <2>2, PageFacts
  <2> QED BY <1>1, <2>1, <2>2, <2>3, FreeKeeps
<1>15. ASSUME Kmalloc PROVE BuddyInv(buddy)'
  <2>1. (HasBlock(buddy, 0) /\ buddy' = pages_alloc(buddy, 0)) \/ buddy' = buddy
    BY <1>15 DEF Kmalloc
  <2> QED BY <1>4, <1>6, <2>1
<1>16. ASSUME Kfree PROVE BuddyInv(buddy)'
  BY <1>6, <1>16 DEF Kfree
<1>17. ASSUME NEW p \in Procs,
              Store(p) \/ SegFault(p) \/ sys_brk(p) \/ Fork(p) \/ ForkEnd(p)
              \/ Exit(p) \/ ExitEnd(p) \/ ExecEnd(p)
       PROVE  BuddyInv(buddy)'
  BY <1>6, <1>17 DEF Store, SegFault, sys_brk, Fork, ForkEnd, Exit, ExitEnd, ExecEnd
<1> QED BY <1>8, <1>9, <1>10, <1>11, <1>12, <1>13, <1>14, <1>15, <1>16, <1>17 DEF Next, ProcStep

(* Every step keeps the types.                                             *)
LEMMA TypeNext ==
  ASSUME VmInv, Next
  PROVE  VmType'
<1>1. VmType
  BY DEF VmInv
<1>2. /\ Unmapped \in Entries
      /\ NPages \in PageNos /\ Pages \subseteq PageNos /\ NPages \notin Pages
      /\ \A p \in Procs, v \in VPages : pte[p][v] \in Entries
      /\ \A p \in Procs, v \in VPages : Mapped(p, v) => pte[p][v].page \in Pages
  <2>1. NPages \in PageNos
    BY PhysAssumption DEF PageNos
  <2> QED BY <1>1, <2>1, MappedIs
<1>3. \A g \in Pages, w \in BOOLEAN : [page |-> g, w |-> w] \in Entries
  BY <1>2 DEF Entries
<1>4. 0 \in Orders /\ Stack \in VPages
  BY PhysAssumption, VmAssumption DEF Orders
<1>5. HasBlock(buddy, 0) => Allocated(buddy, 0) \in Pages
  BY <1>4, Fresh
<1>6. ASSUME NEW p \in Procs, todo[p] # {} PROVE Min(todo[p]) \in VPages
  <2>1. todo[p] \in SUBSET Nat /\ todo[p] \subseteq VPages
    BY <1>1, VmAssumption DEF VmType
  <2> QED BY <1>6, <2>1, MinOf
<1>7. ASSUME NEW p \in Procs, NEW v \in VPages, NEW e \in Entries,
             pte' = [pte EXCEPT ![p][v] = e]
      PROVE  pte' \in [Procs -> [VPages -> Entries]]
  BY <1>1, <1>7 DEF VmType
<1>8. ASSUME NEW p \in Procs, NEW l \in Places, Goto(p, l) PROVE pc' \in [Procs -> Places]
  BY <1>1, <1>8 DEF VmType, Goto
<1>9. {"unused", "user", "copy", "fork", "initing", "exit", "exec"} = Places
  BY DEF Places
<1>10. ASSUME NEW p \in Procs, Store(p) PROVE VmType'
  BY <1>1, <1>10 DEF Store, VmType, physVars
<1>11. ASSUME NEW p \in Procs, SegFault(p) \/ Exit(p) PROVE VmType'
  <2>1. /\ Goto(p, "exit") /\ todo' = [todo EXCEPT ![p] = VPages]
        /\ UNCHANGED <<physVars, lk, pte, at, freeing, child, ustack>>
    BY <1>11 DEF SegFault, Exit
  <2>2. pc' \in [Procs -> Places]
    BY <1>8, <1>9, <2>1
  <2> QED BY <1>1, <2>1, <2>2 DEF VmType, physVars
<1>12. ASSUME NEW p \in Procs, do_no_page(p) PROVE VmType'
  <2>1. PICK v \in VPages, write \in BOOLEAN :
           pte' = [pte EXCEPT ![p][v] = [page |-> Allocated(buddy, 0), w |-> write]]
    BY <1>12 DEF do_no_page
  <2>2. HasBlock(buddy, 0) /\ UNCHANGED <<physVars, lk, pc, todo, at, freeing, child, ustack>>
    BY <1>12 DEF do_no_page
  <2>3. pte' \in [Procs -> [VPages -> Entries]]
    BY <1>3, <1>5, <1>7, <2>1, <2>2
  <2> QED BY <1>1, <2>2, <2>3 DEF VmType, physVars
<1>13. ASSUME NEW p \in Procs, do_wp_page(p) PROVE VmType'
  <2>1. PICK v \in VPages :
           /\ Mapped(p, v)
           /\ \/ /\ pte' = [pte EXCEPT ![p][v].w = v \notin Text]
                 /\ UNCHANGED <<lk, pc, at>>
              \/ /\ lk' = [lk EXCEPT ![pte[p][v].page] = p] /\ Goto(p, "copy")
                 /\ at' = [at EXCEPT ![p] = v] /\ UNCHANGED pte
    BY <1>13 DEF do_wp_page, Withheld
  <2>2. UNCHANGED <<physVars, todo, freeing, child, ustack>>
    BY <1>13 DEF do_wp_page
  <2>3. CASE pte' = [pte EXCEPT ![p][v].w = v \notin Text] /\ UNCHANGED <<lk, pc, at>>
    <3> DEFINE e == [pte[p][v] EXCEPT !.w = v \notin Text]
    <3>1. e \in Entries
      <4>1. pte[p][v].page \in Pages /\ pte[p][v] \in Entries
        BY <1>2, <2>1
      <4> QED BY <1>2, <4>1 DEF Entries
    <3>2. pte' = [pte EXCEPT ![p][v] = e]
      BY <2>3
    <3> HIDE DEF e
    <3>3. pte' \in [Procs -> [VPages -> Entries]]
      BY <1>7, <3>1, <3>2
    <3> QED BY <1>1, <2>2, <2>3, <3>3 DEF VmType, physVars
  <2>4. CASE /\ lk' = [lk EXCEPT ![pte[p][v].page] = p] /\ Goto(p, "copy")
             /\ at' = [at EXCEPT ![p] = v] /\ UNCHANGED pte
    <3>1. pc' \in [Procs -> Places]
      BY <1>8, <1>9, <2>4
    <3> QED BY <1>1, <2>2, <2>4, <3>1 DEF VmType, physVars
  <2> QED BY <2>1, <2>3, <2>4
<1>14. ASSUME NEW p \in Procs, WpCopy(p) PROVE VmType'
  <2>1. /\ lk' = [lk EXCEPT ![pte[p][at[p]].page] = NoProc]
        /\ pte' = [pte EXCEPT ![p][at[p]] = [page |-> Allocated(buddy, 0),
                                             w |-> at[p] \notin Text]]
        /\ HasBlock(buddy, 0) /\ Goto(p, "user") /\ at' = [at EXCEPT ![p] = Stack]
        /\ UNCHANGED <<physVars, todo, freeing, child, ustack>>
    BY <1>14 DEF WpCopy
  <2>2. at[p] \in VPages
    BY <1>1 DEF VmType
  <2>3. pte' \in [Procs -> [VPages -> Entries]]
    BY <1>3, <1>5, <1>7, <2>1, <2>2
  <2>4. pc' \in [Procs -> Places]
    BY <1>8, <1>9, <2>1
  <2> QED BY <1>1, <1>4, <2>1, <2>3, <2>4 DEF VmType, physVars
<1>15. ASSUME NEW p \in Procs, sys_brk(p) PROVE VmType'
  BY <1>1, <1>15 DEF sys_brk, VmType, physVars
<1>16. ASSUME NEW p \in Procs, Fork(p) PROVE VmType'
  <2>1. PICK c \in Procs : pc' = [pc EXCEPT ![p] = "fork", ![c] = "initing"]
                           /\ child' = [child EXCEPT ![p] = c]
    BY <1>16 DEF Fork
  <2>2. pc' \in [Procs -> Places]
    BY <1>1, <1>9, <2>1 DEF VmType
  <2>3. /\ todo' = [todo EXCEPT ![p] = VPages]
        /\ UNCHANGED <<physVars, lk, pte, at, freeing, ustack>>
    BY <1>16 DEF Fork
  <2> QED BY <1>1, <2>1, <2>2, <2>3 DEF VmType, physVars
<1>17. ASSUME NEW p \in Procs, copy_pgtable(p) PROVE VmType'
  <2> DEFINE v == Min(todo[p])
             c == child[p]
             g == pte[p][v].page
             e == [pte[p][v] EXCEPT !.w = FALSE]
             f == [page |-> g, w |-> FALSE]
  <2>1. /\ pc[p] = "fork" /\ todo[p] # {} /\ todo' = [todo EXCEPT ![p] = @ \ {v}]
        /\ UNCHANGED <<physVars, lk, pc, at, freeing, child, ustack>>
        /\ Mapped(p, v) => pte' = [pte EXCEPT ![p][v].w = FALSE, ![c][v] = f]
        /\ ~Mapped(p, v) => pte' = pte
    BY <1>17 DEF copy_pgtable
  <2>2. v \in VPages
    BY <1>6, <2>1
  <2>3. c \in Procs
    BY <2>1 DEF VmInv, ForkInv
  <2>4. Mapped(p, v) => g \in Pages /\ e \in Entries /\ f \in Entries
    <3>1. Mapped(p, v) => g \in Pages /\ pte[p][v] \in Entries /\ f \in Entries
      BY <1>2, <1>3, <2>2
    <3> QED BY <1>2, <3>1 DEF Entries
  <2>5. pte' \in [Procs -> [VPages -> Entries]]
    <3>1. CASE Mapped(p, v)
      <4>1. pte' = [[pte EXCEPT ![p][v] = e] EXCEPT ![c][v] = f]
        BY <2>1, <3>1
      <4> HIDE DEF e, f, v, c
      <4>2. [pte EXCEPT ![p][v] = e] \in [Procs -> [VPages -> Entries]]
        BY <1>1, <2>2, <2>4, <3>1 DEF VmType
      <4> QED BY <2>2, <2>3, <2>4, <3>1, <4>1, <4>2
    <3>2. CASE ~Mapped(p, v)
      BY <1>1, <2>1, <3>2 DEF VmType
    <3> QED BY <3>1, <3>2
  <2>6. todo' \in [Procs -> SUBSET VPages]
    <3> HIDE DEF v
    <3> QED BY <1>1, <2>1 DEF VmType
  <2> QED BY <1>1, <2>1, <2>5, <2>6 DEF VmType, physVars
<1>18. ASSUME NEW p \in Procs, ForkEnd(p) PROVE VmType'
  <2>1. child[p] \in Procs
    BY <1>18 DEF VmInv, ForkInv, ForkEnd
  <2>2. pc' \in [Procs -> Places]
    BY <1>1, <1>9, <1>18, <2>1 DEF VmType, ForkEnd
  <2>3. /\ child' = [child EXCEPT ![p] = NoProc]
        /\ UNCHANGED <<physVars, lk, pte, todo, at, freeing, ustack>>
    BY <1>18 DEF ForkEnd
  <2> QED BY <1>1, <2>2, <2>3 DEF VmType, physVars
<1>19. ASSUME NEW p \in Procs, Exec(p) PROVE VmType'
  <2>1. /\ HasBlock(buddy, 0) /\ ustack' = [ustack EXCEPT ![p] = Allocated(buddy, 0)]
        /\ Goto(p, "exec") /\ todo' = [todo EXCEPT ![p] = VPages]
        /\ UNCHANGED <<physVars, lk, pte, at, freeing, child>>
    BY <1>19 DEF Exec
  <2>2. pc' \in [Procs -> Places]
    BY <1>8, <1>9, <2>1
  <2>3. ustack' \in [Procs -> PageNos]
    BY <1>1, <1>2, <1>5, <2>1 DEF VmType
  <2> QED BY <1>1, <2>1, <2>2, <2>3 DEF VmType, physVars
<1>20. ASSUME NEW p \in Procs, release_phypg(p) PROVE VmType'
  <2> DEFINE v == Min(todo[p])
             g == pte[p][v].page
  <2>1. /\ todo[p] # {} /\ todo' = [todo EXCEPT ![p] = @ \ {v}]
        /\ pte' = [pte EXCEPT ![p][v] = Unmapped]
        /\ UNCHANGED <<physVars, lk, pc, at, child, ustack>>
        /\ Mapped(p, v) => freeing' = [freeing EXCEPT ![p] =
                                         IF buddy.count[g] = 1 THEN g ELSE NPages]
        /\ ~Mapped(p, v) => freeing' = freeing
    BY <1>20 DEF release_phypg
  <2>2. v \in VPages
    BY <1>6, <2>1
  <2>3. Mapped(p, v) => g \in PageNos
    BY <1>2, <2>2
  <2> HIDE DEF v, g
  <2>4. pte' \in [Procs -> [VPages -> Entries]]
    BY <1>2, <1>7, <2>1, <2>2
  <2>5. todo' \in [Procs -> SUBSET VPages]
    BY <1>1, <2>1 DEF VmType
  <2>6. freeing' \in [Procs -> PageNos]
    <3>1. freeing \in [Procs -> PageNos]
      BY <1>1 DEF VmType
    <3> QED BY <1>2, <2>1, <2>3, <3>1
  <2> QED BY <1>1, <2>1, <2>4, <2>5, <2>6 DEF VmType, physVars
<1>21. ASSUME NEW p \in Procs, FreePage(p) PROVE VmType'
  <2>1. /\ freeing' = [freeing EXCEPT ![p] = NPages]
        /\ UNCHANGED <<physVars, lk, pte, pc, todo, at, child, ustack>>
    BY <1>21 DEF FreePage
  <2> QED BY <1>1, <1>2, <2>1 DEF VmType, physVars
<1>22. ASSUME NEW p \in Procs, ExitEnd(p) PROVE VmType'
  <2>1. /\ Goto(p, "unused")
        /\ UNCHANGED <<physVars, lk, pte, todo, at, freeing, child, ustack>>
    BY <1>22 DEF ExitEnd
  <2>2. pc' \in [Procs -> Places]
    BY <1>8, <1>9, <2>1
  <2> QED BY <1>1, <2>1, <2>2 DEF VmType, physVars
<1>23. ASSUME NEW p \in Procs, ExecEnd(p) PROVE VmType'
  <2> DEFINE e == [page |-> ustack[p], w |-> TRUE]
             t == [NoMap EXCEPT ![Stack] = e]
  <2>1. /\ pc[p] = "exec" /\ pte' = [pte EXCEPT ![p] = t]
        /\ ustack' = [ustack EXCEPT ![p] = NPages] /\ Goto(p, "user")
        /\ UNCHANGED <<physVars, lk, todo, at, freeing, child>>
    BY <1>23 DEF ExecEnd
  <2>2. ustack[p] \in Pages
    <3>1. ustack[p] \in PageNos /\ ustack[p] # NPages
      BY <1>1, <2>1 DEF VmType, VmInv, TablesInv
    <3> QED BY <1>1, <3>1, MappedIs
  <2>3. t \in [VPages -> Entries]
    <3>1. e \in Entries
      BY <1>3, <2>2
    <3> HIDE DEF e
    <3> QED BY <1>2, <3>1 DEF NoMap
  <2> HIDE DEF t
  <2>4. pc' \in [Procs -> Places]
    BY <1>8, <1>9, <2>1
  <2> QED BY <1>1, <1>2, <2>1, <2>3, <2>4 DEF VmType, physVars
<1>24. ASSUME KernelAlloc PROVE VmType'
  <2>1. PICK n \in 1 .. Span(MaxOrder - 1) :
           HasBlock(buddy, get_power2(n)) /\ kernel' = kernel \cup {Allocated(buddy, get_power2(n))}
    BY <1>24 DEF KernelAlloc
  <2>2. Allocated(buddy, get_power2(n)) \in Pages
    BY <2>1, PowerIs, Fresh
  <2>3. UNCHANGED <<slub, lk, pte, pc, todo, at, freeing, child, ustack>>
    BY <1>24 DEF KernelAlloc
  <2> QED BY <1>1, <2>1, <2>2, <2>3 DEF VmType
<1>25. ASSUME KernelFree PROVE VmType'
  <2>1. /\ kernel' \subseteq kernel
        /\ UNCHANGED <<slub, lk, pte, pc, todo, at, freeing, child, ustack>>
    BY <1>25 DEF KernelFree
  <2> QED BY <1>1, <2>1 DEF VmType
<1>26. ASSUME Kmalloc PROVE VmType'
  <2>1. PICK size \in AskSizes :
         LET i == binary_search_ge(size)
             fresh == slub.partial[i] = <<>>
             s == IF fresh THEN new_slub_pages_node(slub, i, Allocated(buddy, 0)) ELSE slub
         IN  (fresh => HasBlock(buddy, 0)) /\ slub' = kmalloc(s, i)
    BY <1>26 DEF Kmalloc
  <2> DEFINE i == binary_search_ge(size)
             fresh == slub.partial[i] = <<>>
             s == IF fresh THEN new_slub_pages_node(slub, i, Allocated(buddy, 0)) ELSE slub
  <2>2. (fresh => HasBlock(buddy, 0)) /\ slub' = kmalloc(s, i)
    BY <2>1
  <2>3. i \in Nat
    <3>1. size \in Nat /\ size <= slub_size[Len(slub_size)]
      BY VmAssumption
    <3>2. i \in Caches
      BY <3>1, SearchFinds
    <3> QED BY <3>2 DEF Caches
  <2>4. /\ DOMAIN slub = {"partial", "full", "obj_freelist", "linked"}
        /\ slub.linked \in [Pages -> Nat]
    BY <1>1 DEF VmType
  <2> HIDE DEF i
  <2>5. DOMAIN s = {"partial", "full", "obj_freelist", "linked"} /\ s.linked \in [Pages -> Nat]
    <3>1. CASE fresh
      <4> DEFINE h == Allocated(buddy, 0)
      <4>1. h \in Pages
        BY <1>5, <2>2, <3>1
      <4> HIDE DEF h, fresh
      <4>2. s = new_slub_pages_node(slub, i, h)
        BY <3>1 DEF h
      <4>3. s.linked = [slub.linked EXCEPT ![h] = i] /\ DOMAIN s = DOMAIN slub
        BY <2>4, <4>2, SlubLinked
      <4> HIDE DEF s
      <4> QED BY <2>3, <2>4, <4>3
    <3>2. CASE ~fresh
      BY <2>4, <3>2
    <3> QED BY <3>1, <3>2
  <2> HIDE DEF s, fresh
  <2>6. /\ DOMAIN slub' = {"partial", "full", "obj_freelist", "linked"}
        /\ slub'.linked \in [Pages -> Nat]
    BY <2>2, <2>5, SlubLinked
  <2>7. UNCHANGED <<kernel, lk, pte, pc, todo, at, freeing, child, ustack>>
    BY <1>26 DEF Kmalloc
  <2> QED BY <1>1, <2>6, <2>7 DEF VmType
<1>27. ASSUME Kfree PROVE VmType'
  <2>1. PICK o \in objs : slub' = kfree(slub, o[1], o[2])
    BY <1>27 DEF Kfree
  <2>2. /\ DOMAIN slub' = {"partial", "full", "obj_freelist", "linked"}
        /\ slub'.linked \in [Pages -> Nat]
    BY <1>1, <2>1, SlubLinked DEF VmType
  <2>3. UNCHANGED <<kernel, lk, pte, pc, todo, at, freeing, child, ustack>>
    BY <1>27 DEF Kfree
  <2> QED BY <1>1, <2>2, <2>3 DEF VmType
<1> QED BY <1>10, <1>11, <1>12, <1>13, <1>14, <1>15, <1>16, <1>17, <1>18, <1>19, <1>20, <1>21,
           <1>22, <1>23, <1>24, <1>25, <1>26, <1>27 DEF Next, ProcStep

(* Nobody but p moves or has a page table that changes.                    *)
Alone(p) ==
    \A q \in Procs : q # p =>
       /\ pc'[q] = pc[q] /\ pte'[q] = pte[q] /\ todo'[q] = todo[q]
       /\ at'[q] = at[q] /\ ustack'[q] = ustack[q]

(* do_wp_page() is called for a page that may not be written.              *)
LEMMA WithheldIs ==
  ASSUME VmInv, NEW p \in Procs, NEW v \in VPages, Withheld(p, v)
  PROVE  Mapped(p, v) /\ ~pte[p][v].w
BY DEF Withheld, VmInv, TablesInv

(* What the steps of a process that is not in fork() leave alone.          *)
LEMMA StepsAlone ==
  ASSUME VmInv, NEW p \in Procs,
         \/ Store(p) \/ SegFault(p) \/ do_no_page(p) \/ do_wp_page(p) \/ WpCopy(p)
         \/ sys_brk(p) \/ Exit(p) \/ Exec(p) \/ release_phypg(p) \/ FreePage(p)
         \/ ExitEnd(p) \/ ExecEnd(p)
  PROVE  /\ Alone(p) /\ child' = child
         /\ pc[p] \in {"user", "copy", "exit", "exec"}
         /\ pc'[p] \in {"user", "copy", "exit", "exec", "unused"}
<1>1. VmType
  BY DEF VmInv
<1>2. CASE Store(p)
  BY <1>1, <1>2 DEF Store, Alone
<1>3. CASE SegFault(p)
  BY <1>1, <1>3 DEF SegFault, Alone, Goto, VmType
<1>4. CASE do_no_page(p)
  BY <1>1, <1>4 DEF do_no_page, Alone, VmType
<1>5. CASE do_wp_page(p)
  <2>1. PICK v \in VPages :
           /\ \/ /\ pte' = [pte EXCEPT ![p][v].w = v \notin Text] /\ UNCHANGED <<pc, at>>
              \/ /\ Goto(p, "copy") /\ at' = [at EXCEPT ![p] = v] /\ UNCHANGED pte
           /\ pc[p] = "user" /\ UNCHANGED <<todo, child, ustack>>
    BY <1>5 DEF do_wp_page
  <2> QED BY <1>1, <2>1 DEF Alone, Goto, VmType
<1>6. CASE WpCopy(p)
  BY <1>1, <1>6 DEF WpCopy, Alone, Goto, VmType
<1>7. CASE sys_brk(p)
  BY <1>1, <1>7 DEF sys_brk, Alone
<1>8. CASE Exit(p)
  BY <1>1, <1>8 DEF Exit, Alone, Goto, VmType
<1>9. CASE Exec(p)
  BY <1>1, <1>9 DEF Exec, Alone, Goto, VmType
<1>10. CASE release_phypg(p)
  BY <1>1, <1>10 DEF release_phypg, Alone, Leaving, VmType
<1>11. CASE FreePage(p)
  BY <1>1, <1>11 DEF FreePage, Alone, Leaving
<1>12. CASE ExitEnd(p)
  BY <1>1, <1>12 DEF ExitEnd, Alone, Goto, VmType
<1>13. CASE ExecEnd(p)
  BY <1>1, <1>13 DEF ExecEnd, Alone, Goto, VmType
<1> QED BY <1>2, <1>3, <1>4, <1>5, <1>6, <1>7, <1>8, <1>9, <1>10, <1>11, <1>12, <1>13

(* The kernel's own steps do not touch the processes.                      *)
LEMMA KernelAside ==
  ASSUME KernelAlloc \/ KernelFree \/ Kmalloc \/ Kfree
  PROVE  UNCHANGED <<content, lk, pte, brk, pc, todo, at, freeing, child, ustack>>
BY DEF KernelAlloc, KernelFree, Kmalloc, Kfree

(* No page is locked but by the process that copies it.                    *)
LEMMA LockNext ==
  ASSUME VmInv, Next
  PROVE  LockInv'
<1>1. VmType /\ LockInv
  BY DEF VmInv
<1>2. \A p \in Procs : pc[p] = "copy" =>
         /\ pte[p][at[p]].page \in Pages /\ ~pte[p][at[p]].w /\ lk[pte[p][at[p]].page] = p
  BY <1>1 DEF LockInv
<1>3. \A g \in Pages : lk[g] # NoProc =>
         lk[g] \in Procs /\ pc[lk[g]] = "copy" /\ pte[lk[g]][at[lk[g]]].page = g
  BY <1>1 DEF LockInv, VmType
<1>4. ASSUME lk' = lk, at' = at,
             \A q \in Procs : pc'[q] = "copy" <=> pc[q] = "copy",
             \A q \in Procs : pc[q] = "copy" => pte'[q] = pte[q]
      PROVE  LockInv'
  <2>1. \A p \in Procs : pc'[p] = "copy" =>
           /\ pte'[p][at'[p]].page \in Pages /\ ~pte'[p][at'[p]].w
           /\ lk'[pte'[p][at'[p]].page] = p
    BY <1>2, <1>4
  <2>2. \A g \in Pages : lk'[g] # NoProc =>
           pc'[lk'[g]] = "copy" /\ pte'[lk'[g]][at'[lk'[g]]].page = g
    BY <1>3, <1>4
  <2> QED BY <2>1, <2>2 DEF LockInv
<1>5. ASSUME NEW p \in Procs, do_wp_page(p) PROVE LockInv'
  <2> PICK v \in VPages :
           /\ pc[p] = "user" /\ Mapped(p, v) /\ ~pte[p][v].w
           /\ lk[pte[p][v].page] = NoProc
           /\ \/ /\ pte' = [pte EXCEPT ![p][v].w = v \notin Text] /\ UNCHANGED <<lk, pc, at>>
              \/ /\ lk' = [lk EXCEPT ![pte[p][v].page] = p] /\ Goto(p, "copy")
                 /\ at' = [at EXCEPT ![p] = v] /\ UNCHANGED pte
    BY <1>5, WithheldIs DEF do_wp_page
  <2>1. Alone(p)
    BY <1>5, StepsAlone
  <2>2. CASE UNCHANGED <<lk, pc, at>>
    BY <1>4, <2>1, <2>2 DEF Alone
  <2>3. CASE /\ lk' = [lk EXCEPT ![pte[p][v].page] = p] /\ Goto(p, "copy")
             /\ at' = [at EXCEPT ![p] = v] /\ UNCHANGED pte
    <3> DEFINE g == pte[p][v].page
    <3>1. g \in Pages
      BY <1>1, MappedIs
    <3>2. pc'[p] = "copy" /\ at'[p] = v /\ pte' = pte
          /\ \A q \in Procs : q # p => pc'[q] = pc[q] /\ at'[q] = at[q]
      BY <1>1, <2>1, <2>3 DEF Goto, VmType, Alone
    <3>3. lk'[g] = p /\ \A h \in Pages : h # g => lk'[h] = lk[h]
      BY <1>1, <2>3, <3>1 DEF VmType
    <3>4. ~pte[p][v].w /\ lk[g] = NoProc /\ NoProc \notin Procs /\ pc[p] = "user"
          /\ pte[p][v].page = g
      BY VmAssumption
    <3> HIDE DEF g
    <3>5. \A q \in Procs : pc'[q] = "copy" =>
             /\ pte'[q][at'[q]].page \in Pages /\ ~pte'[q][at'[q]].w
             /\ lk'[pte'[q][at'[q]].page] = q
      <4> SUFFICES ASSUME NEW q \in Procs, pc'[q] = "copy"
                   PROVE  /\ pte'[q][at'[q]].page \in Pages /\ ~pte'[q][at'[q]].w
                          /\ lk'[pte'[q][at'[q]].page] = q
        OBVIOUS
      <4>1. CASE q = p
        BY <3>1, <3>2, <3>3, <3>4, <4>1
      <4>2. CASE q # p
        <5>1. pc[q] = "copy" /\ at'[q] = at[q]
          BY <3>2, <4>2
        <5>2. pte[q][at[q]].page # g
          BY <1>2, <3>4, <5>1
        <5> QED BY <1>2, <3>2, <3>3, <5>1, <5>2
      <4> QED BY <4>1, <4>2
    <3>6. \A h \in Pages : lk'[h] # NoProc =>
             pc'[lk'[h]] = "copy" /\ pte'[lk'[h]][at'[lk'[h]]].page = h
      <4> SUFFICES ASSUME NEW h \in Pages, lk'[h] # NoProc
                   PROVE  pc'[lk'[h]] = "copy" /\ pte'[lk'[h]][at'[lk'[h]]].page = h
        OBVIOUS
      <4>1. CASE h = g
        BY <3>2, <3>3, <3>4, <4>1
      <4>2. CASE h # g
        BY <1>3, <3>2, <3>3, <3>4, <4>2
      <4> QED BY <4>1, <4>2
    <3> QED BY <3>5, <3>6 DEF LockInv
  <2> QED BY <2>2, <2>3
<1>6. ASSUME NEW p \in Procs, WpCopy(p) PROVE LockInv'
  <2> DEFINE g == pte[p][at[p]].page
  <2>1. /\ pc[p] = "copy" /\ lk' = [lk EXCEPT ![g] = NoProc] /\ Goto(p, "user")
    BY <1>6 DEF WpCopy
  <2>2. Alone(p) /\ pc'[p] = "user"
    BY <1>1, <1>6, <2>1, StepsAlone DEF Goto, VmType
  <2>3. g \in Pages /\ lk[g] = p /\ p # NoProc
    BY <1>2, <2>1, VmAssumption
  <2> HIDE DEF g
  <2>4. lk'[g] = NoProc /\ \A h \in Pages : h # g => lk'[h] = lk[h]
    BY <1>1, <2>1, <2>3 DEF VmType
  <2>5. \A q \in Procs : q # p => pc'[q] = pc[q] /\ at'[q] = at[q] /\ pte'[q] = pte[q]
    BY <2>2 DEF Alone
  <2>6. \A q \in Procs : pc'[q] = "copy" =>
           /\ pte'[q][at'[q]].page \in Pages /\ ~pte'[q][at'[q]].w
           /\ lk'[pte'[q][at'[q]].page] = q
    <3> SUFFICES ASSUME NEW q \in Procs, pc'[q] = "copy"
                 PROVE  /\ pte'[q][at'[q]].page \in Pages /\ ~pte'[q][at'[q]].w
                        /\ lk'[pte'[q][at'[q]].page] = q
      OBVIOUS
    <3>1. q # p
      BY <2>2
    <3>2. pc[q] = "copy" /\ at'[q] = at[q] /\ pte'[q] = pte[q]
      BY <2>5, <3>1
    <3>3. pte[q][at[q]].page # g
      BY <1>2, <2>3, <3>1, <3>2
    <3> QED BY <1>2, <2>4, <3>2, <3>3
  <2>7. \A h \in Pages : lk'[h] # NoProc =>
           pc'[lk'[h]] = "copy" /\ pte'[lk'[h]][at'[lk'[h]]].page = h
    <3> SUFFICES ASSUME NEW h \in Pages, lk'[h] # NoProc
                 PROVE  pc'[lk'[h]] = "copy" /\ pte'[lk'[h]][at'[lk'[h]]].page = h
      OBVIOUS
    <3>1. h # g /\ lk'[h] = lk[h] /\ lk[h] \in Procs
      BY <1>3, <2>4
    <3>2. lk[h] # p
      <4>1. lk[h] = p => pte[p][at[p]].page = h
        BY <1>3, <3>1
      <4> QED BY <3>1, <4>1 DEF g
    <3> QED BY <1>3, <2>5, <3>1, <3>2
  <2> QED BY <2>6, <2>7 DEF LockInv
<1>7. ASSUME NEW p \in Procs,
             \/ Store(p) \/ SegFault(p) \/ do_no_page(p) \/ sys_brk(p) \/ Exit(p) \/ Exec(p)
             \/ release_phypg(p) \/ FreePage(p) \/ ExitEnd(p) \/ ExecEnd(p)
      PROVE  LockInv'
  <2>1. Alone(p)
    BY <1>7, StepsAlone
  <2>2. /\ pc[p] # "copy" /\ pc'[p] # "copy" /\ lk' = lk /\ at' = at
    BY <1>1, <1>7 DEF Store, SegFault, do_no_page, sys_brk, Exit, Exec, release_phypg, FreePage,
          ExitEnd, ExecEnd, Goto, VmType, Leaving
  <2> QED BY <1>4, <2>1, <2>2 DEF Alone
<1>8. ASSUME NEW p \in Procs, Fork(p) PROVE LockInv'
  <2>1. PICK c \in Procs : pc[c] = "unused" /\ pc' = [pc EXCEPT ![p] = "fork", ![c] = "initing"]
    BY <1>8 DEF Fork
  <2>2. pc[p] = "user" /\ UNCHANGED <<lk, pte, at>>
    BY <1>8 DEF Fork
  <2>3. \A q \in Procs : pc'[q] = "copy" <=> pc[q] = "copy"
    BY <1>1, <2>1, <2>2 DEF VmType
  <2> QED BY <1>4, <2>2, <2>3
<1>9. ASSUME NEW p \in Procs, copy_pgtable(p) PROVE LockInv'
  <2>1. pc[p] = "fork" /\ child[p] \in Procs /\ pc[child[p]] = "initing"
    BY <1>9 DEF copy_pgtable, VmInv, ForkInv
  <2>2. \A q \in Procs : q # p /\ q # child[p] => pte'[q] = pte[q]
    BY <1>1, <1>9, <2>1 DEF copy_pgtable, VmType
  <2>3. UNCHANGED <<lk, pc, at>>
    BY <1>9 DEF copy_pgtable
  <2> QED BY <1>4, <2>1, <2>2, <2>3
<1>10. ASSUME NEW p \in Procs, ForkEnd(p) PROVE LockInv'
  <2>1. pc[p] = "fork" /\ child[p] \in Procs /\ pc[child[p]] = "initing"
    BY <1>10 DEF ForkEnd, VmInv, ForkInv
  <2>2. \A q \in Procs : pc'[q] = "copy" <=> pc[q] = "copy"
    BY <1>1, <1>10, <2>1 DEF ForkEnd, VmType
  <2>3. UNCHANGED <<lk, pte, at>>
    BY <1>10 DEF ForkEnd
  <2> QED BY <1>4, <2>2, <2>3
<1>11. ASSUME KernelAlloc \/ KernelFree \/ Kmalloc \/ Kfree PROVE LockInv'
  BY <1>4, <1>11, KernelAside
<1> QED BY <1>5, <1>6, <1>7, <1>8, <1>9, <1>10, <1>11 DEF Next, ProcStep

(* The least page of those still to come.                                  *)
LEMMA LeastTodo ==
  ASSUME VmType, NEW p \in Procs, todo[p] # {}
  PROVE  Min(todo[p]) \in todo[p] /\ Min(todo[p]) \in VPages
<1>1. todo[p] \in SUBSET Nat /\ todo[p] \subseteq VPages
  BY VmAssumption DEF VmType
<1> QED BY <1>1, MinOf

(* Nothing is mapped that was to be released, or before it is copied.      *)
LEMMA TablesNext ==
  ASSUME VmInv, Next
  PROVE  TablesInv'
<1>1. VmType /\ TablesInv /\ VmType'
  BY TypeNext DEF VmInv
<1>2. \A p \in Procs, v \in VPages :
         /\ pc[p] = "unused" => pte[p][v] = Unmapped
         /\ pc[p] \in {"exit", "exec"} /\ v \notin todo[p] => pte[p][v] = Unmapped
         /\ v \in Text => ~pte[p][v].w
  BY <1>1 DEF TablesInv, Leaving, Mapped
<1>3. \A p \in Procs : ustack[p] # NPages <=> pc[p] = "exec"
  BY <1>1 DEF TablesInv
<1> DEFINE Ok(q) ==
      /\ \A v \in VPages : /\ pc'[q] = "unused" => pte'[q][v] = Unmapped
                           /\ pc'[q] \in {"exit", "exec"} /\ v \notin todo'[q]
                                => pte'[q][v] = Unmapped
                           /\ v \in Text => ~pte'[q][v].w
      /\ ustack'[q] # NPages <=> pc'[q] = "exec"
<1>4. ASSUME \A q \in Procs : Ok(q) PROVE TablesInv'
  BY <1>4, VmAssumption DEF TablesInv, Leaving, Mapped
<1>5. ASSUME NEW q \in Procs, pc'[q] = pc[q], pte'[q] = pte[q], todo'[q] = todo[q],
             ustack'[q] = ustack[q]
      PROVE  Ok(q)
  BY <1>2, <1>3, <1>5
<1>6. ASSUME NEW p \in Procs, Alone(p), Ok(p) PROVE TablesInv'
  <2> HIDE DEF Ok
  <2>1. \A q \in Procs : Ok(q)
    BY <1>5, <1>6 DEF Alone
  <2> QED BY <1>4, <2>1
<1>7. ASSUME NEW p \in Procs, Store(p) \/ sys_brk(p) \/ FreePage(p) PROVE TablesInv'
  <2>1. UNCHANGED <<pc, pte, todo, ustack>>
    BY <1>7 DEF Store, sys_brk, FreePage
  <2>2. Alone(p) /\ Ok(p)
    BY <1>5, <1>7, <2>1, StepsAlone
  <2> QED BY <1>6, <2>2
<1>8. ASSUME NEW p \in Procs, SegFault(p) \/ Exit(p) PROVE TablesInv'
  <2>1. /\ pc[p] = "user" /\ pc'[p] = "exit" /\ todo'[p] = VPages
        /\ pte' = pte /\ ustack' = ustack
    BY <1>1, <1>8 DEF SegFault, Exit, Goto, VmType
  <2>2. Ok(p)
    BY <1>2, <1>3, <2>1
  <2> QED BY <1>6, <1>8, <2>2, StepsAlone
<1>9. ASSUME NEW p \in Procs, do_no_page(p) PROVE TablesInv'
  <2>1. PICK v \in VPages, write \in BOOLEAN :
           /\ Allowed(p, v, write)
           /\ pte' = [pte EXCEPT ![p][v] = [page |-> Allocated(buddy, 0), w |-> write]]
    BY <1>9 DEF do_no_page
  <2>2. pc[p] = "user" /\ pc' = pc /\ todo' = todo /\ ustack' = ustack
    BY <1>9 DEF do_no_page
  <2>3. \A x \in VPages : x \in Text => ~pte'[p][x].w
    <3>1. pte'[p][v].w = write /\ \A x \in VPages : x # v => pte'[p][x] = pte[p][x]
      BY <1>1, <2>1 DEF VmType
    <3> QED BY <1>2, <2>1, <3>1 DEF Allowed
  <2>4. Ok(p)
    BY <1>3, <2>2, <2>3
  <2> QED BY <1>6, <1>9, <2>4, StepsAlone
<1>10. ASSUME NEW p \in Procs, do_wp_page(p) PROVE TablesInv'
  <2>1. PICK v \in VPages :
           /\ pc[p] = "user"
           /\ \/ pte' = [pte EXCEPT ![p][v].w = v \notin Text] /\ UNCHANGED <<lk, pc, at>>
              \/ Goto(p, "copy") /\ UNCHANGED pte
           /\ todo' = todo /\ ustack' = ustack
    BY <1>10 DEF do_wp_page
  <2>2. pc'[p] \in {"user", "copy"}
    BY <1>1, <2>1 DEF Goto, VmType
  <2>3. \A x \in VPages : x # v => pte'[p][x] = pte[p][x]
    BY <1>1, <2>1 DEF VmType
  <2>5. v \in Text => ~pte'[p][v].w
    <3>1. CASE pte' = [pte EXCEPT ![p][v].w = v \notin Text]
      <4>1. pte[p][v] \in Entries /\ pte'[p][v] = [pte[p][v] EXCEPT !.w = v \notin Text]
        BY <1>1, <3>1 DEF VmType
      <4>2. pte'[p][v].w = (v \notin Text)
        BY <4>1 DEF Entries
      <4> QED BY <4>2
    <3>2. CASE pte' = pte
      BY <1>2, <3>2
    <3> QED BY <2>1, <3>1, <3>2
  <2>6. \A x \in VPages : x \in Text => ~pte'[p][x].w
    BY <1>2, <2>3, <2>5
  <2>4. Ok(p)
    BY <1>3, <2>1, <2>2, <2>6
  <2> QED BY <1>6, <1>10, <2>4, StepsAlone
<1>11. ASSUME NEW p \in Procs, WpCopy(p) PROVE TablesInv'
  <2>1. /\ pc[p] = "copy" /\ pc'[p] = "user" /\ todo' = todo /\ ustack' = ustack
        /\ \A x \in VPages : x # at[p] => pte'[p][x] = pte[p][x]
    BY <1>1, <1>11 DEF WpCopy, Goto, VmType
  <2>2. pte'[p][at[p]].w = (at[p] \notin Text)
    BY <1>1, <1>11 DEF WpCopy, VmType
  <2>4. \A x \in VPages : x \in Text => ~pte'[p][x].w
    BY <1>2, <2>1, <2>2
  <2>3. Ok(p)
    BY <1>3, <2>1, <2>4
  <2> QED BY <1>6, <1>11, <2>3, StepsAlone
<1>12. ASSUME NEW p \in Procs, Fork(p) PROVE TablesInv'
  <2>1. PICK c \in Procs : pc[c] = "unused" /\ pc' = [pc EXCEPT ![p] = "fork", ![c] = "initing"]
    BY <1>12 DEF Fork
  <2>2. pc[p] = "user" /\ todo' = [todo EXCEPT ![p] = VPages] /\ UNCHANGED <<pte, ustack>>
    BY <1>12 DEF Fork
  <2>3. ASSUME NEW q \in Procs PROVE Ok(q)
    <3>1. CASE q = p \/ q = c
      <4>1. pc'[q] \in {"fork", "initing"} /\ pc[q] \in {"user", "unused"}
        BY <1>1, <2>1, <2>2, <3>1 DEF VmType
      <4> QED BY <1>2, <1>3, <2>2, <4>1
    <3>2. CASE q # p /\ q # c
      <4>1. pc'[q] = pc[q] /\ pte'[q] = pte[q] /\ todo'[q] = todo[q] /\ ustack'[q] = ustack[q]
        BY <1>1, <2>1, <2>2, <3>2 DEF VmType
      <4> HIDE DEF Ok
      <4> QED BY <1>5, <4>1
    <3> QED BY <3>1, <3>2
  <2> QED BY <1>4, <2>3
<1>13. ASSUME NEW p \in Procs, copy_pgtable(p) PROVE TablesInv'
  <2> DEFINE v == Min(todo[p])
             c == child[p]
             g == pte[p][v].page
  <2>1. /\ pc[p] = "fork" /\ c \in Procs /\ pc[c] = "initing" /\ todo[p] # {}
        /\ UNCHANGED <<pc, ustack>> /\ todo' = [todo EXCEPT ![p] = @ \ {v}]
        /\ \/ pte' = [pte EXCEPT ![p][v].w = FALSE, ![c][v] = [page |-> g, w |-> FALSE]]
           \/ pte' = pte
    BY <1>13 DEF copy_pgtable, VmInv, ForkInv
  <2>2. v \in VPages
    BY <1>1, <2>1, LeastTodo
  <2>3. ASSUME NEW q \in Procs PROVE Ok(q)
    <3>1. CASE q = p \/ q = c
      <4>1. pc'[q] \in {"fork", "initing"} /\ pc[q] \in {"fork", "initing"}
        BY <2>1, <3>1
      <4>2. \A x \in VPages : x \in Text => ~pte'[q][x].w
        <5>1. CASE pte' = pte
          BY <1>2, <5>1
        <5>2. CASE pte' = [pte EXCEPT ![p][v].w = FALSE, ![c][v] = [page |-> g, w |-> FALSE]]
          <6>1. p # c
            BY <2>1
          <6> HIDE DEF g
          <6>2. /\ pte'[p] = [pte[p] EXCEPT ![v].w = FALSE]
                /\ pte'[c] = [pte[c] EXCEPT ![v] = [page |-> g, w |-> FALSE]]
                /\ pte[p] \in [VPages -> Entries] /\ pte[c] \in [VPages -> Entries]
            BY <1>1, <2>1, <5>2, <6>1 DEF VmType
          <6> HIDE DEF v, c
          <6>3. pte[p][v] \in Entries
            BY <2>2, <6>2
          <6>4. ~pte'[p][v].w /\ ~pte'[c][v].w
            BY <2>2, <6>2, <6>3 DEF Entries
          <6>5. \A x \in VPages : x # v => pte'[p][x] = pte[p][x] /\ pte'[c][x] = pte[c][x]
            BY <6>2
          <6> QED BY <1>2, <2>1, <3>1, <6>4, <6>5
        <5> QED BY <2>1, <5>1, <5>2
      <4> QED BY <1>3, <2>1, <4>1, <4>2
    <3>2. CASE q # p /\ q # c
      <4>1. pc'[q] = pc[q] /\ pte'[q] = pte[q] /\ todo'[q] = todo[q] /\ ustack'[q] = ustack[q]
        BY <1>1, <2>1, <3>2 DEF VmType
      <4> HIDE DEF Ok
      <4> QED BY <1>5, <4>1
    <3> QED BY <3>1, <3>2
  <2> QED BY <1>4, <2>3
<1>14. ASSUME NEW p \in Procs, ForkEnd(p) PROVE TablesInv'
  <2>1. /\ pc[p] = "fork" /\ child[p] \in Procs /\ pc[child[p]] = "initing"
        /\ pc' = [pc EXCEPT ![p] = "user", ![child[p]] = "user"]
        /\ UNCHANGED <<pte, todo, ustack>>
    BY <1>14 DEF ForkEnd, VmInv, ForkInv
  <2>2. ASSUME NEW q \in Procs PROVE Ok(q)
    <3>1. CASE q = p \/ q = child[p]
      <4>1. pc'[q] = "user" /\ pc[q] \in {"fork", "initing"}
        BY <1>1, <2>1, <3>1 DEF VmType
      <4> QED BY <1>2, <1>3, <2>1, <4>1
    <3>2. CASE q # p /\ q # child[p]
      <4>1. pc'[q] = pc[q] /\ pte'[q] = pte[q] /\ todo'[q] = todo[q] /\ ustack'[q] = ustack[q]
        BY <1>1, <2>1, <3>2 DEF VmType
      <4> HIDE DEF Ok
      <4> QED BY <1>5, <4>1
    <3> QED BY <3>1, <3>2
  <2> QED BY <1>4, <2>2
<1>15. ASSUME NEW p \in Procs, Exec(p) PROVE TablesInv'
  <2>1. /\ pc[p] = "user" /\ pc'[p] = "exec" /\ todo'[p] = VPages /\ pte' = pte
        /\ ustack'[p] = Allocated(buddy, 0) /\ HasBlock(buddy, 0)
    BY <1>1, <1>15 DEF Exec, Goto, VmType
  <2>2. ustack'[p] # NPages
    <3>1. 0 \in Orders
      BY PhysAssumption DEF Orders
    <3>2. Allocated(buddy, 0) \in Pages
      BY <2>1, <3>1, Fresh
    <3> QED BY <1>1, <2>1, <3>2, MappedIs
  <2>3. Ok(p)
    BY <1>2, <2>1, <2>2
  <2> QED BY <1>6, <1>15, <2>3, StepsAlone
<1>16. ASSUME NEW p \in Procs, release_phypg(p) PROVE TablesInv'
  <2> DEFINE v == Min(todo[p])
  <2>1. /\ pc[p] \in {"exit", "exec"} /\ todo[p] # {} /\ UNCHANGED <<pc, ustack>>
        /\ todo' = [todo EXCEPT ![p] = @ \ {v}]
        /\ pte' = [pte EXCEPT ![p][v] = Unmapped]
    BY <1>16 DEF release_phypg, Leaving
  <2>2. v \in VPages
    BY <1>1, <2>1, LeastTodo
  <2> HIDE DEF v
  <2>3. /\ pte'[p][v] = Unmapped /\ \A x \in VPages : x # v => pte'[p][x] = pte[p][x]
        /\ todo'[p] = todo[p] \ {v}
    BY <1>1, <2>1, <2>2 DEF VmType
  <2>4. Ok(p)
    <3>1. ~Unmapped.w
      BY DEF Unmapped
    <3> QED BY <1>2, <1>3, <2>1, <2>3, <3>1
  <2> QED BY <1>6, <1>16, <2>4, StepsAlone
<1>17. ASSUME NEW p \in Procs, ExitEnd(p) PROVE TablesInv'
  <2>1. /\ pc[p] = "exit" /\ pc'[p] = "unused" /\ todo[p] = {} /\ UNCHANGED <<pte, todo, ustack>>
    BY <1>1, <1>17 DEF ExitEnd, Gone, Goto, VmType
  <2>2. Ok(p)
    BY <1>2, <1>3, <2>1
  <2> QED BY <1>6, <1>17, <2>2, StepsAlone
<1>18. ASSUME NEW p \in Procs, ExecEnd(p) PROVE TablesInv'
  <2>1. /\ pc'[p] = "user" /\ ustack'[p] = NPages
        /\ pte'[p] = [NoMap EXCEPT ![Stack] = [page |-> ustack[p], w |-> TRUE]]
    BY <1>1, <1>18 DEF ExecEnd, Goto, VmType
  <2>2. \A x \in VPages : x \in Text => pte'[p][x] = Unmapped
    BY <2>1, VmAssumption DEF NoMap
  <2>3. ~Unmapped.w
    BY DEF Unmapped
  <2>4. Ok(p)
    BY <2>1, <2>2, <2>3
  <2> QED BY <1>6, <1>18, <2>4, StepsAlone
<1>19. ASSUME KernelAlloc \/ KernelFree \/ Kmalloc \/ Kfree PROVE TablesInv'
  <2>1. UNCHANGED <<pc, pte, todo, ustack>>
    BY <1>19, KernelAside
  <2> HIDE DEF Ok
  <2>2. \A q \in Procs : Ok(q)
    BY <1>5, <2>1
  <2> QED BY <1>4, <2>2
<1> QED BY <1>7, <1>8, <1>9, <1>10, <1>11, <1>12, <1>13, <1>14, <1>15, <1>16, <1>17, <1>18, <1>19
        DEF Next, ProcStep

(* A fork works on its own child, and on no more than it has come to.      *)
LEMMA ForkNext ==
  ASSUME VmInv, Next
  PROVE  ForkInv'
<1>1. VmType /\ NoProc \notin Procs
  BY VmAssumption DEF VmInv
<1> DEFINE Copied(q) ==
      /\ child[q] \in Procs /\ pc[child[q]] = "initing"
      /\ \A v \in VPages :
            pte[child[q]][v].page = IF v \in todo[q] THEN NPages ELSE pte[q][v].page
<1>2. \A q \in Procs : pc[q] = "fork" => Copied(q)
  BY DEF VmInv, ForkInv
<1>3. \A q \in Procs : child[q] # NoProc => pc[q] = "fork"
  BY DEF VmInv, ForkInv
<1>4. \A q, r \in Procs : child[q] = child[r] /\ child[q] # NoProc => q = r
  BY DEF VmInv, ForkInv
<1>5. ASSUME NEW q \in Procs, pc[q] = "fork",
             pc'[child[q]] = "initing", child'[q] = child[q],
             pte'[q] = pte[q], pte'[child[q]] = pte[child[q]], todo'[q] = todo[q]
      PROVE  Copied(q)'
  <2>1. Copied(q)
    BY <1>2, <1>5
  <2> QED BY <1>5, <2>1
<1>6. ASSUME \A q \in Procs : pc'[q] = "fork" => Copied(q)',
             \A q \in Procs : child'[q] # NoProc => pc'[q] = "fork",
             \A q, r \in Procs : child'[q] = child'[r] /\ child'[q] # NoProc => q = r
      PROVE  ForkInv'
  BY <1>6 DEF ForkInv
<1>7. ASSUME child' = child,
             \A q \in Procs : pc'[q] = "fork" <=> pc[q] = "fork",
             \A q \in Procs : pc[q] \in {"fork", "initing"} =>
                pc'[q] = pc[q] /\ pte'[q] = pte[q] /\ todo'[q] = todo[q]
      PROVE  ForkInv'
  <2>1. \A q \in Procs : pc'[q] = "fork" => Copied(q)'
    <3> SUFFICES ASSUME NEW q \in Procs, pc'[q] = "fork" PROVE Copied(q)'
      OBVIOUS
    <3>1. pc[q] = "fork" /\ child[q] \in Procs /\ pc[child[q]] = "initing"
      BY <1>2, <1>7
    <3>2. /\ pc'[child[q]] = "initing" /\ child'[q] = child[q] /\ pte'[q] = pte[q]
          /\ pte'[child[q]] = pte[child[q]] /\ todo'[q] = todo[q]
      BY <1>7, <3>1
    <3> HIDE DEF Copied
    <3> QED BY <1>5, <3>1, <3>2
  <2> HIDE DEF Copied
  <2> QED BY <1>3, <1>4, <1>6, <1>7, <2>1
<1>8. ASSUME NEW p \in Procs,
         \/ Store(p) \/ SegFault(p) \/ do_no_page(p) \/ do_wp_page(p) \/ WpCopy(p)
         \/ sys_brk(p) \/ Exit(p) \/ Exec(p) \/ release_phypg(p) \/ FreePage(p)
         \/ ExitEnd(p) \/ ExecEnd(p)
      PROVE  ForkInv'
  <2>1. /\ Alone(p) /\ child' = child
        /\ pc[p] \in {"user", "copy", "exit", "exec"}
        /\ pc'[p] \in {"user", "copy", "exit", "exec", "unused"}
    BY <1>8, StepsAlone
  <2>2. \A q \in Procs : pc'[q] = "fork" <=> pc[q] = "fork"
    BY <2>1 DEF Alone
  <2>3. \A q \in Procs : pc[q] \in {"fork", "initing"} =>
                pc'[q] = pc[q] /\ pte'[q] = pte[q] /\ todo'[q] = todo[q]
    BY <2>1 DEF Alone
  <2> QED BY <1>7, <2>1, <2>2, <2>3
<1>9. ASSUME NEW p \in Procs, Fork(p) PROVE ForkInv'
  <2>1. PICK c \in Procs : pc[c] = "unused" /\ pc' = [pc EXCEPT ![p] = "fork", ![c] = "initing"]
                           /\ child' = [child EXCEPT ![p] = c]
    BY <1>9 DEF Fork
  <2>2. pc[p] = "user" /\ todo' = [todo EXCEPT ![p] = VPages] /\ pte' = pte
    BY <1>9 DEF Fork
  <2>3. /\ p # c /\ pc'[p] = "fork" /\ pc'[c] = "initing"
        /\ \A q \in Procs : q # p /\ q # c => pc'[q] = pc[q]
        /\ child'[p] = c /\ todo'[p] = VPages
        /\ \A q \in Procs : q # p => child'[q] = child[q] /\ todo'[q] = todo[q]
    BY <1>1, <2>1, <2>2 DEF VmType
  <2>4. \A q \in Procs : child[q] # c
    BY <1>2, <1>3, <1>1, <2>1
  <2>5. Copied(p)'
    <3>1. \A v \in VPages : pte[c][v].page = NPages
      <4>1. \A v \in VPages : pte[c][v] = Unmapped
        BY <2>1 DEF VmInv, TablesInv, Mapped
      <4> QED BY <4>1 DEF Unmapped
    <3> QED BY <2>2, <2>3, <3>1
  <2>6. ASSUME NEW q \in Procs, pc'[q] = "fork", q # p PROVE Copied(q)'
    <3>1. pc[q] = "fork" /\ q # c
      BY <2>3, <2>6
    <3>2. child[q] \in Procs /\ pc[child[q]] = "initing" /\ child[q] # p /\ child[q] # c
      BY <1>2, <2>2, <2>4, <3>1
    <3>3. /\ pc'[child[q]] = "initing" /\ child'[q] = child[q] /\ pte'[q] = pte[q]
          /\ pte'[child[q]] = pte[child[q]] /\ todo'[q] = todo[q]
      BY <2>2, <2>3, <2>6, <3>1, <3>2
    <3> HIDE DEF Copied
    <3> QED BY <1>5, <3>1, <3>3
  <2>7. \A q \in Procs : child'[q] # NoProc => pc'[q] = "fork"
    BY <1>3, <2>1, <2>3
  <2>8. \A q, r \in Procs : child'[q] = child'[r] /\ child'[q] # NoProc => q = r
    BY <1>4, <2>3, <2>4
  <2> HIDE DEF Copied
  <2> QED BY <1>6, <2>5, <2>6, <2>7, <2>8
<1>10. ASSUME NEW p \in Procs, copy_pgtable(p) PROVE ForkInv'
  <2> DEFINE v == Min(todo[p])
             c == child[p]
             g == pte[p][v].page
  <2>1. /\ pc[p] = "fork" /\ todo[p] # {} /\ c \in Procs /\ pc[c] = "initing" /\ p # c
        /\ \A x \in VPages : pte[c][x].page = IF x \in todo[p] THEN NPages ELSE pte[p][x].page
    BY <1>2, <1>10 DEF copy_pgtable
  <2>2. /\ child' = child /\ pc' = pc /\ todo' = [todo EXCEPT ![p] = @ \ {v}]
        /\ Mapped(p, v) => pte' = [pte EXCEPT ![p][v].w = FALSE,
                                              ![c][v] = [page |-> g, w |-> FALSE]]
        /\ ~Mapped(p, v) => pte' = pte
    BY <1>10 DEF copy_pgtable
  <2>3. v \in todo[p] /\ v \in VPages
    BY <1>1, <2>1, LeastTodo
  <2>4. g = NPages <=> ~Mapped(p, v)
    BY <1>1, <2>3, MappedIs
  <2> HIDE DEF v, g
  <2>5. \A q \in Procs : q # p /\ q # c => pte'[q] = pte[q]
    BY <1>1, <2>1, <2>2 DEF VmType
  <2>6. \A q \in Procs : q # p => todo'[q] = todo[q]
    BY <1>1, <2>2 DEF VmType
  <2>7. \A x \in VPages : pte'[c][x].page = IF x \in todo'[p] THEN NPages ELSE pte'[p][x].page
    <3>1. todo'[p] = todo[p] \ {v}
      BY <1>1, <2>2 DEF VmType
    <3>2. CASE Mapped(p, v)
      <4> HIDE DEF c
      <4>1. /\ pte'[p] = [pte[p] EXCEPT ![v].w = FALSE]
            /\ pte'[c] = [pte[c] EXCEPT ![v] = [page |-> g, w |-> FALSE]]
            /\ pte[p] \in [VPages -> Entries] /\ pte[c] \in [VPages -> Entries]
        BY <1>1, <2>1, <2>2, <3>2 DEF VmType
      <4>2. pte[p][v] \in Entries
        BY <2>3, <4>1
      <4>3. pte'[p][v].page = g /\ pte'[c][v].page = g
        BY <2>3, <4>1, <4>2 DEF Entries, g
      <4>4. \A x \in VPages : x # v => pte'[p][x] = pte[p][x] /\ pte'[c][x] = pte[c][x]
        BY <4>1
      <4> QED BY <2>1, <3>1, <4>3, <4>4
    <3>3. CASE ~Mapped(p, v)
      <4>1. pte' = pte /\ pte[c][v].page = NPages /\ pte[p][v].page = NPages
        BY <2>1, <2>2, <2>3, <2>4, <3>3 DEF g
      <4> QED BY <2>1, <3>1, <4>1
    <3> QED BY <3>2, <3>3
  <2>8. Copied(p)'
    BY <2>1, <2>2, <2>7
  <2>9. ASSUME NEW q \in Procs, pc'[q] = "fork", q # p PROVE Copied(q)'
    <3>1. pc[q] = "fork" /\ q # c
      BY <2>1, <2>2, <2>9
    <3>2. child[q] \in Procs /\ pc[child[q]] = "initing" /\ child[q] # p /\ child[q] # c
      BY <1>1, <1>2, <1>4, <2>1, <2>9, <3>1
    <3>3. /\ pc'[child[q]] = "initing" /\ child'[q] = child[q] /\ pte'[q] = pte[q]
          /\ pte'[child[q]] = pte[child[q]] /\ todo'[q] = todo[q]
      BY <2>2, <2>5, <2>6, <2>9, <3>1, <3>2
    <3> HIDE DEF Copied, c
    <3> QED BY <1>5, <3>1, <3>3
  <2> HIDE DEF Copied, c
  <2> QED BY <1>3, <1>4, <1>6, <2>2, <2>8, <2>9
<1>11. ASSUME NEW p \in Procs, ForkEnd(p) PROVE ForkInv'
  <2> DEFINE c == child[p]
  <2>1. /\ pc[p] = "fork" /\ c \in Procs /\ pc[c] = "initing" /\ p # c
        /\ pc' = [pc EXCEPT ![p] = "user", ![c] = "user"]
        /\ child' = [child EXCEPT ![p] = NoProc]
        /\ UNCHANGED <<pte, todo>>
    BY <1>2, <1>11 DEF ForkEnd
  <2>2. /\ pc'[p] = "user" /\ pc'[c] = "user" /\ child'[p] = NoProc
        /\ \A q \in Procs : q # p /\ q # c => pc'[q] = pc[q]
        /\ \A q \in Procs : q # p => child'[q] = child[q]
    BY <1>1, <2>1 DEF VmType
  <2>3. ASSUME NEW q \in Procs, pc'[q] = "fork" PROVE Copied(q)'
    <3>1. pc[q] = "fork" /\ q # c /\ q # p
      BY <2>2, <2>3
    <3>2. child[q] \in Procs /\ pc[child[q]] = "initing" /\ child[q] # p /\ child[q] # c
      BY <1>1, <1>2, <1>4, <2>1, <3>1
    <3>3. /\ pc'[child[q]] = "initing" /\ child'[q] = child[q] /\ pte'[q] = pte[q]
          /\ pte'[child[q]] = pte[child[q]] /\ todo'[q] = todo[q]
      BY <2>1, <2>2, <3>1, <3>2
    <3> HIDE DEF Copied, c
    <3> QED BY <1>5, <3>1, <3>3
  <2>4. \A q \in Procs : child'[q] # NoProc => pc'[q] = "fork"
    <3> SUFFICES ASSUME NEW q \in Procs, child'[q] # NoProc PROVE pc'[q] = "fork"
      OBVIOUS
    <3>1. q # p /\ child'[q] = child[q] /\ pc[q] = "fork"
      BY <1>3, <2>2
    <3>2. q # c
      BY <2>1, <3>1
    <3> QED BY <2>2, <3>1, <3>2
  <2>5. \A q, r \in Procs : child'[q] = child'[r] /\ child'[q] # NoProc => q = r
    BY <1>4, <2>2
  <2> HIDE DEF Copied, c
  <2> QED BY <1>6, <2>3, <2>4, <2>5
<1>12. ASSUME KernelAlloc \/ KernelFree \/ Kmalloc \/ Kfree PROVE ForkInv'
  <2>1. UNCHANGED <<pc, pte, todo, child>>
    BY <1>12, KernelAside
  <2> QED BY <1>7, <2>1
<1> QED BY <1>8, <1>9, <1>10, <1>11, <1>12 DEF Next, ProcStep

(* A page in use by one entry only, by a new stack, by the kernel, by the  *)
(* slub allocator, or waiting to be freed.                                 *)
LEMMA PageKinds ==
  ASSUME NEW o, NEW x
  PROVE  /\ \A W : PageOk(1, 0, {x}, W, {}, {}, {}, {}, {})
         /\ PageOk(1, 0, {}, {}, {}, {}, {x}, {}, {})
         /\ PageOk(1, 0, {}, {}, {}, {x}, {}, {}, {})
         /\ PageOk(1, o, {}, {}, {}, {}, {}, {x}, {})
         /\ PageOk(1, o, {}, {}, {}, {}, {}, {}, {x})
         /\ \A c : PageOk(c, o, {}, {}, {}, {}, {}, {}, {})
<1>1. Cardinality({x}) = 1 /\ Cardinality({}) = 0
  BY Counted
<1> QED BY <1>1 DEF PageOk

(* What PageOk says of a page that is only mapped.                         *)
LEMMA PageUsers ==
  ASSUME NEW c, NEW o, NEW t, NEW g, NEW W, NEW L,
         PageOk(c, o, UsersOf(t, g), W, L, {}, {}, {}, {})
  PROVE  /\ UsersOf(t, g) # {} =>
               /\ c > 0 /\ o = 0
               /\ c = Cardinality(UsersOf(t, g)) - Cardinality(L) + 0
         /\ W # {} => \E y \in UsersOf(t, g) : UsersOf(t, g) = {y}
<1>1. Cardinality({}) = 0
  BY Counted
<1> QED BY <1>1 DEF PageOk

(* pages_dup(): one more entry maps the page, none may write.              *)
LEMMA AddUser ==
  ASSUME NEW c \in Nat, NEW o, NEW t, NEW g, NEW W,
         PageOk(c, o, UsersOf(t, g), W, {}, {}, {}, {}, {}),
         NEW u, u \notin UsersOf(t, g), UsersOf(t, g) # {}
  PROVE  PageOk(c + 1, o, UsersOf(t, g) \cup {u}, {}, {}, {}, {}, {}, {})
<1> DEFINE U == UsersOf(t, g)
           n == Cardinality(U)
<1>1. n \in Nat /\ Cardinality({}) = 0 /\ Cardinality(U \cup {u}) = n + 1
  BY Counted
<1>2. c > 0 /\ o = 0 /\ c = n - Cardinality({}) + 0
  BY PageUsers
<1> HIDE DEF U, n
<1>3. c + 1 = Cardinality(U \cup {u}) - 0 + 0 /\ c + 1 > 0
  BY <1>1, <1>2
<1>4. PageOk(c + 1, o, U \cup {u}, {}, {}, {}, {}, {}, {})
  BY <1>1, <1>2, <1>3 DEF PageOk
<1> QED BY <1>4 DEF U

(* pages_undup() for a copy: the entry stays while the page is locked.     *)
LEMMA LockUser ==
  ASSUME NEW c \in Nat, NEW o, NEW t, NEW g,
         PageOk(c, o, UsersOf(t, g), {}, {}, {}, {}, {}, {}), c > 1, NEW p
  PROVE  PageOk(c - 1, o, UsersOf(t, g), {}, {p}, {}, {}, {}, {})
<1> DEFINE U == UsersOf(t, g)
           n == Cardinality(U)
<1>1. n \in Nat /\ Cardinality({}) = 0 /\ Cardinality({p}) = 1
  BY Counted
<1>2. U # {} => o = 0 /\ c = n - Cardinality({}) + 0
  BY PageUsers
<1> HIDE DEF U, n
<1>3. U # {} => c - 1 > 0 /\ o = 0 /\ c - 1 = n - 1 + 0
  BY <1>1, <1>2
<1>4. PageOk(c - 1, o, U, {}, {p}, {}, {}, {}, {})
  BY <1>1, <1>3 DEF PageOk, n
<1> QED BY <1>4 DEF U

(* The copy is made: the entry goes, and the lock with it.                 *)
LEMMA DropLocked ==
  ASSUME NEW c \in Nat, NEW o, NEW t, NEW g, NEW p,
         PageOk(c, o, UsersOf(t, g), {}, {p}, {}, {}, {}, {}), NEW u \in UsersOf(t, g)
  PROVE  PageOk(c, o, UsersOf(t, g) \ {u}, {}, {}, {}, {}, {}, {})
<1> DEFINE U == UsersOf(t, g)
           n == Cardinality(U)
<1>1. /\ n \in Nat /\ Cardinality({}) = 0 /\ Cardinality({p}) = 1
      /\ Cardinality(U \ {u}) = n - 1
  BY Counted
<1>2. c > 0 /\ o = 0 /\ c = n - Cardinality({p}) + 0
  BY PageUsers
<1> HIDE DEF U, n
<1>3. c = Cardinality(U \ {u}) - 0 + 0
  BY <1>1, <1>2
<1>4. PageOk(c, o, U \ {u}, {}, {}, {}, {}, {}, {})
  BY <1>1, <1>2, <1>3 DEF PageOk
<1> QED BY <1>4 DEF U

(* pages_undup() for a release: one of several entries goes.               *)
LEMMA DropUser ==
  ASSUME NEW c \in Nat, NEW o, NEW t, NEW g, NEW W,
         PageOk(c, o, UsersOf(t, g), W, {}, {}, {}, {}, {}), c > 1,
         NEW u \in UsersOf(t, g)
  PROVE  W = {} /\ PageOk(c - 1, o, UsersOf(t, g) \ {u}, {}, {}, {}, {}, {}, {})
<1> DEFINE U == UsersOf(t, g)
           n == Cardinality(U)
<1>1. /\ n \in Nat /\ Cardinality({}) = 0 /\ Cardinality(U \ {u}) = n - 1
      /\ \A x : Cardinality({x}) = 1
  BY Counted
<1>2. /\ o = 0 /\ c = n - Cardinality({}) + 0
      /\ W # {} => \E y \in U : U = {y}
  BY PageUsers
<1> HIDE DEF U
<1>3. W = {}
  <2> SUFFICES ASSUME W # {} PROVE FALSE
    OBVIOUS
  <2>1. PICK y \in U : U = {y}
    BY <1>2
  <2>2. n = 1
    BY <1>1, <2>1
  <2> HIDE DEF n
  <2> QED BY <1>1, <1>2, <2>2
<1> HIDE DEF n
<1>4. c - 1 > 0 /\ c - 1 = Cardinality(U \ {u}) - 0 + 0
  BY <1>1, <1>2
<1>5. PageOk(c - 1, o, U \ {u}, {}, {}, {}, {}, {}, {})
  BY <1>1, <1>2, <1>4 DEF PageOk
<1> QED BY <1>3, <1>5 DEF U

(* The only reference to a page is the only entry that maps it.            *)
LEMMA LoneUser ==
  ASSUME NEW o, NEW t, NEW g, NEW W,
         PageOk(1, o, UsersOf(t, g), W, {}, {}, {}, {}, {}), NEW u \in UsersOf(t, g)
  PROVE  UsersOf(t, g) = {u} /\ o = 0
<1> DEFINE U == UsersOf(t, g)
           n == Cardinality(U)
<1>1. n \in Nat /\ Cardinality({}) = 0 /\ (n = 1 => U = {u})
  BY Counted
<1>2. o = 0 /\ 1 = n - Cardinality({}) + 0
  BY PageUsers
<1> HIDE DEF U, n
<1>3. n = 1
  BY <1>1, <1>2
<1>4. U = {u}
  BY <1>1, <1>3
<1> QED BY <1>2, <1>4 DEF U

(* The page tables t are the present ones with one entry set.              *)
EntryIs(t, p, v, e) == t = [pte EXCEPT ![p][v] = e]

(* What setting one entry of a page table does.                            *)
LEMMA EntrySet ==
  ASSUME VmType, NEW p \in Procs, NEW v \in VPages, NEW e, NEW t, EntryIs(t, p, v, e)
  PROVE  SameBut(pte, t, p, v) /\ t[p][v] = e
<1>1. DOMAIN pte = Procs /\ \A q \in Procs : DOMAIN pte[q] = VPages
  BY DEF VmType
<1>2. t[p] = [pte[p] EXCEPT ![v] = e] /\ \A q \in Procs : q # p => t[q] = pte[q]
  BY <1>1 DEF EntryIs
<1>3. t[p][v] = e /\ \A x \in VPages : x # v => t[p][x] = pte[p][x]
  BY <1>1, <1>2
<1> QED BY <1>2, <1>3 DEF SameBut

(* do_no_page(): the fresh page has one user, the others keep theirs.      *)
LEMMA NoPagePages ==
  ASSUME VmInv, NEW p \in Procs, do_no_page(p)
  PROVE  \A g \in Pages : PageAt(g)'
<1>1. VmType /\ 0 \in Orders
  BY PhysAssumption DEF VmInv, Orders
<1>2. PICK v \in VPages, write \in BOOLEAN :
         ~Mapped(p, v) /\ pte' = [pte EXCEPT ![p][v] = [page |-> Allocated(buddy, 0), w |-> write]]
  BY DEF do_no_page
<1>3. /\ HasBlock(buddy, 0) /\ buddy' = pages_alloc(buddy, 0)
      /\ UNCHANGED <<slub, kernel, lk, freeing, ustack>>
  BY DEF do_no_page, physVars
<1>4. PICK h \in Pages :
      /\ h = Allocated(buddy, 0)
      /\ buddy'.count = [buddy.count EXCEPT ![h] = 1] /\ buddy'.order[h] = 0
      /\ \A g \in Pages : buddy.count[g] > 0 => buddy'.order[g] = buddy.order[g]
      /\ \A q \in Procs, x \in VPages : pte[q][x].page # h
      /\ \A q \in Procs : freeing[q] # h /\ ustack[q] # h
      /\ h \notin kernel /\ slub.linked[h] = 0 /\ lk[h] = NoProc
  BY <1>1, <1>3, Fresh
<1>5. DOMAIN buddy.count = Pages
  BY DEF VmInv, BuddyInv
<1>6. pte[p][v].page \notin Pages
  BY <1>1, <1>2, MappedIs
<1>7. PICK t : t = pte'
  OBVIOUS
<1>8. SameBut(pte, t, p, v) /\ t[p][v].page = h
  <2>1. PICK e : e = [page |-> h, w |-> write]
    OBVIOUS
  <2>2. EntryIs(t, p, v, e)
    BY <1>2, <1>4, <1>7, <2>1 DEF EntryIs
  <2>3. SameBut(pte, t, p, v) /\ t[p][v] = e
    BY <1>1, <2>2, EntrySet
  <2> QED BY <2>1, <2>3
<1>11. Moved(pte, t, p, v)
  BY <1>8, UsersChange
<1>9. ASSUME NEW g \in Pages, g # h PROVE PageAt(g)'
  <2>1. UsersOf(t, g) = UsersOf(pte, g) /\ WritersOf(t, g) = WritersOf(pte, g)
    BY <1>6, <1>8, <1>9, <1>11 DEF Moved
  <2>2. buddy'.count[g] = buddy.count[g]
    BY <1>4, <1>5, <1>9
  <2> QED BY <1>3, <1>4, <1>7, <2>1, <2>2, PageSame
<1>10. PageAt(h)'
  <2>1. UsersOf(pte, h) = {} /\ HoldersOf(freeing, h) = {} /\ HoldersOf(ustack, h) = {}
    BY <1>4, NoneOf
  <2>2. UsersOf(t, h) = {<<p, v>>}
    BY <1>8, <1>11, <2>1 DEF Moved
  <2>3. buddy'.count[h] = 1 /\ kernel' \cap {h} = {}
        /\ {slub'.linked[h]} \ {0} = {} /\ {lk'[h]} \ {NoProc} = {}
    BY <1>3, <1>4, <1>5
  <2>4. HoldersOf(freeing', h) = {} /\ HoldersOf(ustack', h) = {}
    BY <1>3, <2>1
  <2>5. PageOk(1, 0, {<<p, v>>}, WritersOf(t, h), {}, {}, {}, {}, {})
    BY PageKinds
  <2> QED BY <1>4, <1>7, <2>2, <2>3, <2>4, <2>5 DEF PageAt
<1> QED BY <1>9, <1>10

(* A page that is mapped has no other use, and when one of its users may   *)
(* not write, none may.                                                    *)
LEMMA MappedPage ==
  ASSUME VmInv, NEW p \in Procs, NEW v \in VPages, NEW g \in Pages, pte[p][v].page = g
  PROVE  /\ PageOk(buddy.count[g], buddy.order[g], UsersOf(pte, g), WritersOf(pte, g),
                   {lk[g]} \ {NoProc}, {}, {}, {}, {})
         /\ <<p, v>> \in UsersOf(pte, g)
         /\ buddy.count[g] \in Nat /\ buddy.count[g] > 0
         /\ HoldersOf(freeing, g) = {} /\ HoldersOf(ustack, g) = {}
         /\ kernel \cap {g} = {} /\ {slub.linked[g]} \ {0} = {}
         /\ ~pte[p][v].w => WritersOf(pte, g) = {}
<1>1. PageAt(g)
  BY DEF VmInv
<1>2. <<p, v>> \in UsersOf(pte, g)
  BY DEF UsersOf
<1>3. /\ buddy.count[g] \in Nat /\ buddy.count[g] > 0
      /\ g \notin kernel /\ slub.linked[g] = 0
      /\ \A q \in Procs : freeing[q] # g /\ ustack[q] # g
  BY PageFacts
<1>4. /\ HoldersOf(freeing, g) = {} /\ HoldersOf(ustack, g) = {}
      /\ kernel \cap {g} = {} /\ {slub.linked[g]} \ {0} = {}
  BY <1>3, NoneOf
<1>5. PageOk(buddy.count[g], buddy.order[g], UsersOf(pte, g), WritersOf(pte, g),
             {lk[g]} \ {NoProc}, {}, {}, {}, {})
  BY <1>1, <1>4 DEF PageAt
<1>6. ASSUME ~pte[p][v].w, WritersOf(pte, g) # {} PROVE FALSE
  <2>1. \E u \in UsersOf(pte, g) : UsersOf(pte, g) = {u}
    BY <1>5, <1>6 DEF PageOk
  <2>2. UsersOf(pte, g) = {<<p, v>>}
    BY <1>2, <2>1
  <2>3. <<p, v>> \in WritersOf(pte, g)
    BY <1>6, <2>2 DEF WritersOf
  <2> QED BY <1>6, <2>3 DEF WritersOf
<1> QED BY <1>2, <1>3, <1>4, <1>5, <1>6

(* do_wp_page(): the only user of a page may write, any other gives up its *)
(* reference and takes the page's lock.                                    *)
LEMMA WpPages ==
  ASSUME VmInv, NEW p \in Procs, do_wp_page(p)
  PROVE  \A g \in Pages : PageAt(g)'
<1>1. VmType
  BY DEF VmInv
<1>2. PICK v \in VPages :
         LET g == pte[p][v].page IN
         /\ Mapped(p, v) /\ ~pte[p][v].w /\ lk[g] = NoProc
         /\ IF buddy.count[g] = 1
              THEN pte' = [pte EXCEPT ![p][v].w = v \notin Text] /\ lk' = lk
              ELSE lk' = [lk EXCEPT ![g] = p] /\ pte' = pte
         /\ buddy' = pages_undup(buddy, g)
  BY WithheldIs DEF do_wp_page
<1>3. UNCHANGED <<slub, kernel, freeing, ustack>>
  BY DEF do_wp_page, physVars
<1>4. PICK h \in Pages : h = pte[p][v].page
  BY <1>1, <1>2, MappedIs
<1>5. /\ lk[h] = NoProc /\ buddy' = pages_undup(buddy, h) /\ ~pte[p][v].w
      /\ buddy.count[h] = 1 => EntryIs(pte', p, v, [pte[p][v] EXCEPT !.w = v \notin Text]) /\ lk' = lk
      /\ buddy.count[h] # 1 => lk' = [lk EXCEPT ![h] = p] /\ pte' = pte
  BY <1>2, <1>4 DEF EntryIs
<1>6. /\ PageOk(buddy.count[h], buddy.order[h], UsersOf(pte, h), WritersOf(pte, h),
                {}, {}, {}, {}, {})
      /\ <<p, v>> \in UsersOf(pte, h) /\ WritersOf(pte, h) = {}
      /\ buddy.count[h] \in Nat /\ buddy.count[h] > 0
      /\ HoldersOf(freeing, h) = {} /\ HoldersOf(ustack, h) = {}
      /\ kernel \cap {h} = {} /\ {slub.linked[h]} \ {0} = {}
  <2>1. {lk[h]} \ {NoProc} = {}
    BY <1>5
  <2>2. h \in Pages /\ pte[p][v].page = h
    BY <1>4
  <2>3. /\ PageOk(buddy.count[h], buddy.order[h], UsersOf(pte, h), WritersOf(pte, h),
                  {lk[h]} \ {NoProc}, {}, {}, {}, {})
        /\ <<p, v>> \in UsersOf(pte, h)
        /\ buddy.count[h] \in Nat /\ buddy.count[h] > 0
        /\ HoldersOf(freeing, h) = {} /\ HoldersOf(ustack, h) = {}
        /\ kernel \cap {h} = {} /\ {slub.linked[h]} \ {0} = {}
        /\ ~pte[p][v].w => WritersOf(pte, h) = {}
    BY <2>2, MappedPage
  <2> QED BY <1>5, <2>1, <2>3
<1>7. /\ buddy'.order = buddy.order
      /\ \A g \in Pages : g # h => buddy'.count[g] = buddy.count[g]
      /\ buddy'.count[h] = IF buddy.count[h] > 1 THEN buddy.count[h] - 1 ELSE buddy.count[h]
  BY <1>5 DEF pages_undup, VmInv, BuddyInv
<1>8. PICK t : t = pte'
  OBVIOUS
<1>9. SameBut(pte, t, p, v) /\ t[p][v].page = h
  <2>1. CASE buddy.count[h] = 1
    <3>1. PICK e : e = [pte[p][v] EXCEPT !.w = v \notin Text]
      OBVIOUS
    <3>2. SameBut(pte, t, p, v) /\ t[p][v] = e
      BY <1>1, <1>5, <1>8, <2>1, <3>1, EntrySet
    <3>3. pte[p][v] \in Entries
      BY <1>1, MappedIs
    <3>4. e.page = h
      BY <1>4, <3>1, <3>3 DEF Entries
    <3> QED BY <3>2, <3>4
  <2>2. CASE buddy.count[h] # 1
    BY <1>4, <1>5, <1>8, <2>2 DEF SameBut
  <2> QED BY <2>1, <2>2
<1>14. Moved(pte, t, p, v)
  BY <1>9, UsersChange
<1>10. ASSUME NEW g \in Pages, g # h PROVE PageAt(g)'
  <2>1. UsersOf(t, g) = UsersOf(pte, g) /\ WritersOf(t, g) = WritersOf(pte, g)
    BY <1>4, <1>9, <1>10, <1>14 DEF Moved
  <2>2. lk'[g] = lk[g]
    BY <1>1, <1>5, <1>10 DEF VmType
  <2> QED BY <1>3, <1>7, <1>8, <1>10, <2>1, <2>2, PageSame
<1>11. UsersOf(t, h) = UsersOf(pte, h)
  <2>1. UsersOf(t, h) = UsersOf(pte, h) \cup {<<p, v>>}
    BY <1>9, <1>14 DEF Moved
  <2> QED BY <1>6, <2>1
<1>12. /\ HoldersOf(freeing', h) = {} /\ HoldersOf(ustack', h) = {}
       /\ kernel' \cap {h} = {} /\ {slub'.linked[h]} \ {0} = {}
  BY <1>3, <1>6
<1>13. PageAt(h)'
  <2>1. CASE buddy.count[h] = 1
    <3>1. UsersOf(pte, h) = {<<p, v>>} /\ buddy.order[h] = 0
      <4>1. PageOk(1, buddy.order[h], UsersOf(pte, h), WritersOf(pte, h), {}, {}, {}, {}, {})
        BY <1>6, <2>1
      <4> QED BY <1>6, <4>1, LoneUser
    <3>2. PageOk(1, 0, {<<p, v>>}, WritersOf(t, h), {}, {}, {}, {}, {})
      BY PageKinds
    <3>3. buddy'.count[h] = buddy.count[h] /\ {lk'[h]} \ {NoProc} = {}
      BY <1>5, <1>7, <2>1
    <3> QED BY <1>7, <1>8, <1>11, <1>12, <2>1, <3>1, <3>2, <3>3 DEF PageAt
  <2>2. CASE buddy.count[h] # 1
    <3>1. buddy.count[h] > 1 /\ buddy'.count[h] = buddy.count[h] - 1
      BY <1>6, <1>7, <2>2
    <3>2. PageOk(buddy.count[h] - 1, buddy.order[h], UsersOf(pte, h), {}, {p}, {}, {}, {}, {})
      BY <1>6, <3>1, LockUser
    <3>3. {lk'[h]} \ {NoProc} = {p} /\ pte' = pte
      BY <1>1, <1>5, <2>2, VmAssumption DEF VmType
    <3> QED BY <1>6, <1>7, <1>8, <1>12, <3>1, <3>2, <3>3 DEF PageAt
  <2> QED BY <2>1, <2>2
<1> QED BY <1>10, <1>13

(* do_wp_page(), the copy: the fresh page gets the entry that the old one  *)
(* loses, and the old one is unlocked.                                     *)
LEMMA CopyPages ==
  ASSUME VmInv, NEW p \in Procs, WpCopy(p)
  PROVE  \A g \in Pages : PageAt(g)'
<1>1. VmType /\ 0 \in Orders
  BY PhysAssumption DEF VmInv, Orders
<1>2. PICK v \in VPages : v = at[p]
  BY <1>1 DEF VmType
<1>3. PICK old \in Pages : old = pte[p][v].page /\ lk[old] = p /\ ~pte[p][v].w
  BY <1>2 DEF VmInv, LockInv, WpCopy
<1>4. /\ HasBlock(buddy, 0) /\ buddy' = pages_alloc(buddy, 0)
      /\ UNCHANGED <<slub, kernel, freeing, ustack>>
      /\ lk' = [lk EXCEPT ![old] = NoProc]
      /\ pte' = [pte EXCEPT ![p][v] = [page |-> Allocated(buddy, 0), w |-> v \notin Text]]
  BY <1>2, <1>3 DEF WpCopy, physVars
<1>5. PICK h \in Pages :
      /\ h = Allocated(buddy, 0)
      /\ buddy'.count = [buddy.count EXCEPT ![h] = 1] /\ buddy'.order[h] = 0
      /\ \A g \in Pages : buddy.count[g] > 0 => buddy'.order[g] = buddy.order[g]
      /\ \A q \in Procs, x \in VPages : pte[q][x].page # h
      /\ \A q \in Procs : freeing[q] # h /\ ustack[q] # h
      /\ h \notin kernel /\ slub.linked[h] = 0 /\ lk[h] = NoProc
  BY <1>1, <1>4, Fresh
<1>6. DOMAIN buddy.count = Pages /\ DOMAIN lk = Pages
  BY <1>1 DEF VmInv, BuddyInv, VmType
<1>7. h # old
  BY <1>3, <1>5
<1>8. PICK t : t = pte'
  OBVIOUS
<1>9. SameBut(pte, t, p, v) /\ t[p][v].page = h
  <2>1. PICK e : e = [page |-> h, w |-> v \notin Text]
    OBVIOUS
  <2>2. EntryIs(t, p, v, e)
    BY <1>4, <1>5, <1>8, <2>1 DEF EntryIs
  <2>3. SameBut(pte, t, p, v) /\ t[p][v] = e
    BY <1>1, <2>2, EntrySet
  <2> QED BY <2>1, <2>3
<1>14. Moved(pte, t, p, v)
  BY <1>9, UsersChange
<1>10. ASSUME NEW g \in Pages, g # h, g # old PROVE PageAt(g)'
  <2>1. UsersOf(t, g) = UsersOf(pte, g) /\ WritersOf(t, g) = WritersOf(pte, g)
    BY <1>3, <1>9, <1>10, <1>14 DEF Moved
  <2>2. buddy'.count[g] = buddy.count[g] /\ lk'[g] = lk[g]
    BY <1>4, <1>5, <1>6, <1>10
  <2> QED BY <1>4, <1>5, <1>8, <2>1, <2>2, PageSame
<1>11. PageAt(h)'
  <2>1. UsersOf(pte, h) = {} /\ HoldersOf(freeing, h) = {} /\ HoldersOf(ustack, h) = {}
    <3>1. (\A q \in Procs, x \in VPages : pte[q][x].page # h)
          /\ \A q \in Procs : freeing[q] # h /\ ustack[q] # h
      BY <1>5
    <3>2. UsersOf(pte, h) = {}
      BY <3>1, NoneOf
    <3>3. HoldersOf(freeing, h) = {} /\ HoldersOf(ustack, h) = {}
      BY <3>1, NoneOf
    <3> QED BY <3>2, <3>3
  <2>2. UsersOf(t, h) = {<<p, v>>}
    BY <1>9, <1>14, <2>1 DEF Moved
  <2>3. buddy'.count[h] = 1 /\ kernel' \cap {h} = {}
        /\ {slub'.linked[h]} \ {0} = {} /\ {lk'[h]} \ {NoProc} = {}
    BY <1>4, <1>5, <1>6, <1>7
  <2>4. HoldersOf(freeing', h) = {} /\ HoldersOf(ustack', h) = {}
    BY <1>4, <2>1
  <2>5. PageOk(1, 0, {<<p, v>>}, WritersOf(t, h), {}, {}, {}, {}, {})
    BY PageKinds
  <2> QED BY <1>5, <1>8, <2>2, <2>3, <2>4, <2>5 DEF PageAt
<1>12. PageAt(old)'
  <2>1. old \in Pages /\ pte[p][v].page = old
    BY <1>3
  <2>2. /\ PageOk(buddy.count[old], buddy.order[old], UsersOf(pte, old), WritersOf(pte, old),
                  {lk[old]} \ {NoProc}, {}, {}, {}, {})
        /\ <<p, v>> \in UsersOf(pte, old)
        /\ buddy.count[old] \in Nat /\ buddy.count[old] > 0
        /\ HoldersOf(freeing, old) = {} /\ HoldersOf(ustack, old) = {}
        /\ kernel \cap {old} = {} /\ {slub.linked[old]} \ {0} = {}
        /\ ~pte[p][v].w => WritersOf(pte, old) = {}
    BY <2>1, MappedPage
  <2>3. {lk[old]} \ {NoProc} = {p} /\ {lk'[old]} \ {NoProc} = {} /\ WritersOf(pte, old) = {}
    BY <1>3, <1>4, <1>6, <2>2, VmAssumption
  <2>4. PageOk(buddy.count[old], buddy.order[old], UsersOf(pte, old), {}, {p}, {}, {}, {}, {})
    BY <2>2, <2>3
  <2>5. PageOk(buddy.count[old], buddy.order[old], UsersOf(pte, old) \ {<<p, v>>}, {}, {},
               {}, {}, {}, {})
    BY <2>2, <2>4, DropLocked
  <2>6. UsersOf(t, old) = UsersOf(pte, old) \ {<<p, v>>}
        /\ WritersOf(t, old) = WritersOf(pte, old) \ {<<p, v>>}
    BY <1>7, <1>9, <1>14 DEF Moved
  <2>7. WritersOf(t, old) = {}
    BY <2>3, <2>6
  <2>8. /\ HoldersOf(freeing', old) = {} /\ HoldersOf(ustack', old) = {}
        /\ kernel' \cap {old} = {} /\ {slub'.linked[old]} \ {0} = {}
    BY <1>4, <2>2
  <2>9. buddy'.count[old] = buddy.count[old] /\ buddy'.order[old] = buddy.order[old]
    BY <1>5, <1>6, <1>7, <2>2
  <2> QED BY <1>8, <2>3, <2>5, <2>6, <2>7, <2>8, <2>9 DEF PageAt
<1> QED BY <1>10, <1>11, <1>12

(* What copy_pgtable() does to the two page tables: the parent's entry may *)
(* not write any more, and the child gets the same one.                    *)
ForkIs(t, p, c, v, g) ==
    t = [pte EXCEPT ![p][v].w = FALSE, ![c][v] = [page |-> g, w |-> FALSE]]
ForkBy(m, t, p, c, v, g) ==
    /\ SameBut(pte, m, p, v) /\ SameBut(m, t, c, v)
    /\ m[p][v].page = g /\ ~m[p][v].w /\ m[c][v] = pte[c][v]
    /\ t[c][v].page = g /\ ~t[c][v].w

(* That is two changes of one entry, one after the other.                  *)
LEMMA ForkEntries ==
  ASSUME VmInv, NEW p \in Procs, NEW c \in Procs, p # c, NEW v \in VPages,
         NEW g \in Pages, pte[p][v].page = g, NEW t, ForkIs(t, p, c, v, g)
  PROVE  \E m : ForkBy(m, t, p, c, v, g)
<1> DEFINE m == [pte EXCEPT ![p] = t[p]]
           d == [pte[p][v] EXCEPT !.w = FALSE]
           e == [page |-> g, w |-> FALSE]
<1>1. pte \in [Procs -> [VPages -> Entries]]
  BY DEF VmInv, VmType
<1>2. /\ t[p] = [pte[p] EXCEPT ![v] = d] /\ t[c] = [pte[c] EXCEPT ![v] = e]
      /\ \A q \in Procs : q # p /\ q # c => t[q] = pte[q]
  BY <1>1 DEF ForkIs
<1>3. m[p] = t[p] /\ \A q \in Procs : q # p => m[q] = pte[q]
  BY <1>1
<1>4. e.page = g /\ ~e.w
  OBVIOUS
<1>5. d.page = g /\ ~d.w
  <2>1. pte[p][v] \in Entries
    BY <1>1
  <2> QED BY <2>1 DEF Entries
<1> HIDE DEF m, d, e
<1>6. DOMAIN pte[p] = VPages /\ DOMAIN pte[c] = VPages
  BY <1>1
<1>7. t[p][v] = d /\ \A x \in VPages : x # v => t[p][x] = pte[p][x]
  BY <1>2, <1>6
<1>8. t[c][v] = e /\ \A x \in VPages : x # v => t[c][x] = pte[c][x]
  BY <1>2, <1>6
<1>9. SameBut(pte, m, p, v)
  BY <1>3, <1>7 DEF SameBut
<1>10. SameBut(m, t, c, v)
  <2> SUFFICES ASSUME NEW q \in Procs, NEW x \in VPages, q # c \/ x # v
               PROVE  t[q][x] = m[q][x]
    BY DEF SameBut
  <2>1. CASE q = p
    BY <1>3, <2>1
  <2>2. CASE q = c /\ q # p
    BY <1>3, <1>8, <2>2
  <2>3. CASE q # c /\ q # p
    BY <1>2, <1>3, <2>3
  <2> QED BY <2>1, <2>2, <2>3
<1>11. m[c][v] = pte[c][v]
  BY <1>3
<1>12. m[p][v].page = g /\ ~m[p][v].w /\ t[c][v].page = g /\ ~t[c][v].w
  BY <1>3, <1>4, <1>5, <1>7, <1>8
<1> QED BY <1>9, <1>10, <1>11, <1>12 DEF ForkBy

(* copy_pgtable(): the page of the entry that is copied has one user more  *)
(* and nobody who may write, every other page is as it was.                *)
LEMMA ForkPages ==
  ASSUME VmInv, NEW p \in Procs, copy_pgtable(p)
  PROVE  \A g \in Pages : PageAt(g)'
<1>1. VmType
  BY DEF VmInv
<1>2. /\ todo[p] # {} /\ pc[p] = "fork"
      /\ UNCHANGED <<slub, kernel, lk, freeing, ustack>>
  BY DEF copy_pgtable, physVars
<1>3. PICK v \in VPages : v = Min(todo[p]) /\ v \in todo[p]
  BY <1>1, <1>2, LeastTodo
<1>4. PICK c \in Procs : c = child[p] /\ c # p /\ pte[c][v].page = NPages
  BY <1>2, <1>3 DEF VmInv, ForkInv
<1>5. CASE ~Mapped(p, v)
  <2>1. UNCHANGED <<pte, buddy>>
    BY <1>3, <1>5 DEF copy_pgtable
  <2> QED BY <1>2, <2>1, PageSame
<1>6. CASE Mapped(p, v)
  <2>1. PICK h \in Pages : h = pte[p][v].page
    BY <1>1, <1>6, MappedIs
  <2>2. /\ lk[h] = NoProc /\ buddy' = pages_dup(buddy, h)
        /\ pte' = [pte EXCEPT ![p][v].w = FALSE, ![c][v] = [page |-> h, w |-> FALSE]]
    BY <1>3, <1>4, <1>6, <2>1 DEF copy_pgtable
  <2>3. PICK t : t = pte'
    OBVIOUS
  <2>4. PICK m : /\ SameBut(pte, m, p, v) /\ SameBut(m, t, c, v)
                 /\ m[p][v].page = h /\ ~m[p][v].w /\ m[c][v] = pte[c][v]
                 /\ t[c][v].page = h /\ ~t[c][v].w
    <3>1. ForkIs(t, p, c, v, h) /\ p # c /\ pte[p][v].page = h
      BY <1>4, <2>1, <2>2, <2>3 DEF ForkIs
    <3>2. \E m : ForkBy(m, t, p, c, v, h)
      BY <3>1, ForkEntries
    <3> QED BY <3>2 DEF ForkBy
  <2>5. Moved(pte, m, p, v) /\ Moved(m, t, c, v)
    <3>1. Moved(pte, m, p, v)
      BY <2>4, UsersChange
    <3>2. Moved(m, t, c, v)
      BY <2>4, UsersChange
    <3> QED BY <3>1, <3>2
  <2>6. /\ buddy'.order = buddy.order
        /\ \A g \in Pages : g # h => buddy'.count[g] = buddy.count[g]
        /\ buddy'.count[h] = buddy.count[h] + 1
    BY <2>2 DEF pages_dup, VmInv, BuddyInv
  <2>7. NPages \notin Pages
    BY <1>1, MappedIs
  <2>8. ASSUME NEW g \in Pages, g # h PROVE PageAt(g)'
    <3>1. UsersOf(m, g) = UsersOf(pte, g) /\ WritersOf(m, g) = WritersOf(pte, g)
      BY <2>1, <2>4, <2>5, <2>8 DEF Moved
    <3>2. UsersOf(t, g) = UsersOf(m, g) /\ WritersOf(t, g) = WritersOf(m, g)
      BY <1>4, <2>4, <2>5, <2>7, <2>8 DEF Moved
    <3> QED BY <1>2, <2>3, <2>6, <2>8, <3>1, <3>2, PageSame
  <2>9. /\ PageOk(buddy.count[h], buddy.order[h], UsersOf(pte, h), WritersOf(pte, h),
                  {lk[h]} \ {NoProc}, {}, {}, {}, {})
        /\ <<p, v>> \in UsersOf(pte, h)
        /\ buddy.count[h] \in Nat /\ buddy.count[h] > 0
        /\ HoldersOf(freeing, h) = {} /\ HoldersOf(ustack, h) = {}
        /\ kernel \cap {h} = {} /\ {slub.linked[h]} \ {0} = {}
    BY <2>1, MappedPage, SMTT(30)
  <2>10. PageOk(buddy.count[h], buddy.order[h], UsersOf(pte, h), WritersOf(pte, h),
                {}, {}, {}, {}, {})
    <3>1. {lk[h]} \ {NoProc} = {}
      BY <2>2
    <3> QED BY <2>9, <3>1
  <2>11. <<c, v>> \notin UsersOf(pte, h) /\ <<c, v>> # <<p, v>>
    BY <1>4, <2>7 DEF UsersOf
  <2>12. PageOk(buddy.count[h] + 1, buddy.order[h], UsersOf(pte, h) \cup {<<c, v>>}, {}, {},
                {}, {}, {}, {})
    <3>1. UsersOf(pte, h) # {} /\ buddy.count[h] \in Nat
      BY <2>9
    <3> QED BY <2>10, <2>11, <3>1, AddUser
  <2>13. UsersOf(t, h) = UsersOf(pte, h) \cup {<<c, v>>}
    <3>1. UsersOf(m, h) = UsersOf(pte, h) \cup {<<p, v>>}
      BY <2>4, <2>5 DEF Moved
    <3>2. UsersOf(t, h) = UsersOf(m, h) \cup {<<c, v>>}
      BY <2>4, <2>5 DEF Moved
    <3> QED BY <2>9, <3>1, <3>2
  <2>14. WritersOf(t, h) = {}
    <3>1. WritersOf(m, h) = WritersOf(pte, h) \ {<<p, v>>}
      BY <2>4, <2>5 DEF Moved
    <3>2. WritersOf(t, h) = WritersOf(m, h) \ {<<c, v>>}
      BY <2>4, <2>5 DEF Moved
    <3>3. WritersOf(pte, h) \subseteq {<<p, v>>}
      <4> SUFFICES ASSUME WritersOf(pte, h) # {} PROVE WritersOf(pte, h) \subseteq {<<p, v>>}
        OBVIOUS
      <4>1. PICK u \in UsersOf(pte, h) : UsersOf(pte, h) = {u}
        BY <2>10 DEF PageOk
      <4>2. UsersOf(pte, h) = {<<p, v>>}
        BY <2>9, <4>1
      <4> QED BY <4>2 DEF WritersOf
    <3> QED BY <3>1, <3>2, <3>3
  <2>15. /\ HoldersOf(freeing', h) = {} /\ HoldersOf(ustack', h) = {}
         /\ kernel' \cap {h} = {} /\ {slub'.linked[h]} \ {0} = {}
         /\ {lk'[h]} \ {NoProc} = {}
    BY <1>2, <2>2, <2>9
  <2>16. PageAt(h)'
    BY <2>3, <2>6, <2>12, <2>13, <2>14, <2>15 DEF PageAt
  <2> QED BY <2>8, <2>16
<1> QED BY <1>5, <1>6

(* release_phypg(): one user less; the page of the last one waits to be    *)
(* freed.                                                                  *)
LEMMA ReleasePages ==
  ASSUME VmInv, NEW p \in Procs, release_phypg(p)
  PROVE  \A g \in Pages : PageAt(g)'
<1>1. VmType /\ NPages \notin Pages
  BY MappedIs DEF VmInv
<1>2. /\ todo[p] # {} /\ freeing[p] = NPages
      /\ UNCHANGED <<slub, kernel, lk, ustack>>
  BY DEF release_phypg, physVars
<1>3. PICK v \in VPages : v = Min(todo[p])
  BY <1>1, <1>2, LeastTodo
<1>4. PICK t : t = pte'
  OBVIOUS
<1>5. SameBut(pte, t, p, v) /\ t[p][v].page = NPages
  <2>1. PICK e : e = Unmapped
    OBVIOUS
  <2>2. EntryIs(t, p, v, e)
    BY <1>3, <1>4, <2>1 DEF EntryIs, release_phypg
  <2>3. SameBut(pte, t, p, v) /\ t[p][v] = e
    BY <1>1, <2>2, EntrySet
  <2> QED BY <2>1, <2>3 DEF Unmapped
<1>6. Moved(pte, t, p, v)
  BY <1>5, UsersChange
<1>7. CASE ~Mapped(p, v)
  <2>1. UNCHANGED <<freeing, buddy>>
    BY <1>3, <1>7 DEF release_phypg
  <2>2. pte[p][v].page = NPages
    BY <1>1, <1>7, MappedIs
  <2>3. \A g \in Pages : UsersOf(t, g) = UsersOf(pte, g) /\ WritersOf(t, g) = WritersOf(pte, g)
    BY <1>1, <1>5, <1>6, <2>2 DEF Moved
  <2> QED BY <1>2, <1>4, <2>1, <2>3, PageSame
<1>8. CASE Mapped(p, v)
  <2>1. PICK h \in Pages : h = pte[p][v].page
    BY <1>1, <1>8, MappedIs
  <2>2. /\ lk[h] = NoProc /\ buddy' = pages_undup(buddy, h)
        /\ freeing' = [freeing EXCEPT ![p] = IF buddy.count[h] = 1 THEN h ELSE NPages]
    BY <1>3, <1>8, <2>1 DEF release_phypg
  <2>3. PICK f : f = freeing'
    OBVIOUS
  <2>4. /\ \A g : f[p] # g => HoldersOf(f, g) = HoldersOf(freeing, g) \ {p}
        /\ \A g : f[p] = g => HoldersOf(f, g) = HoldersOf(freeing, g) \cup {p}
        /\ f[p] = IF buddy.count[h] = 1 THEN h ELSE NPages
    <3>1. /\ f[p] = (IF buddy.count[h] = 1 THEN h ELSE NPages)
          /\ \A q \in Procs : q # p => f[q] = freeing[q]
      BY <1>1, <2>2, <2>3 DEF VmType
    <3> QED BY <3>1 DEF HoldersOf
  <2>5. /\ buddy'.order = buddy.order
        /\ \A g \in Pages : g # h => buddy'.count[g] = buddy.count[g]
        /\ buddy'.count[h] = IF buddy.count[h] > 1 THEN buddy.count[h] - 1 ELSE buddy.count[h]
    BY <2>2 DEF pages_undup, VmInv, BuddyInv
  <2>6. ASSUME NEW g \in Pages, g # h PROVE PageAt(g)'
    <3>1. UsersOf(t, g) = UsersOf(pte, g) /\ WritersOf(t, g) = WritersOf(pte, g)
      BY <1>1, <1>5, <1>6, <2>1, <2>6 DEF Moved
    <3>2. HoldersOf(f, g) = HoldersOf(freeing, g)
      <4>1. f[p] # g /\ p \notin HoldersOf(freeing, g)
        BY <1>1, <1>2, <2>4, <2>6 DEF HoldersOf
      <4> QED BY <2>4, <4>1
    <3> QED BY <1>2, <1>4, <2>3, <2>5, <2>6, <3>1, <3>2, PageSame
  <2>7. /\ PageOk(buddy.count[h], buddy.order[h], UsersOf(pte, h), WritersOf(pte, h),
                  {lk[h]} \ {NoProc}, {}, {}, {}, {})
        /\ <<p, v>> \in UsersOf(pte, h)
        /\ buddy.count[h] \in Nat /\ buddy.count[h] > 0
        /\ HoldersOf(freeing, h) = {} /\ HoldersOf(ustack, h) = {}
        /\ kernel \cap {h} = {} /\ {slub.linked[h]} \ {0} = {}
    BY <2>1, MappedPage
  <2>8. PageOk(buddy.count[h], buddy.order[h], UsersOf(pte, h), WritersOf(pte, h),
               {}, {}, {}, {}, {})
    <3>1. {lk[h]} \ {NoProc} = {}
      BY <2>2
    <3> QED BY <2>7, <3>1
  <2>9. /\ UsersOf(t, h) = UsersOf(pte, h) \ {<<p, v>>}
        /\ WritersOf(t, h) = WritersOf(pte, h) \ {<<p, v>>}
    BY <1>1, <1>5, <1>6 DEF Moved
  <2>10. /\ HoldersOf(ustack', h) = {} /\ kernel' \cap {h} = {} /\ {slub'.linked[h]} \ {0} = {}
         /\ {lk'[h]} \ {NoProc} = {}
    BY <1>2, <2>2, <2>7
  <2>11. PageAt(h)'
    <3>1. CASE buddy.count[h] = 1
      <4>1. UsersOf(pte, h) = {<<p, v>>} /\ buddy.order[h] = 0
        <5>1. PageOk(1, buddy.order[h], UsersOf(pte, h), WritersOf(pte, h), {}, {}, {}, {}, {})
          BY <2>8, <3>1
        <5> QED BY <2>7, <5>1, LoneUser
      <4>2. WritersOf(pte, h) \subseteq UsersOf(pte, h)
        BY DEF WritersOf
      <4>3. UsersOf(t, h) = {} /\ WritersOf(t, h) = {}
        BY <2>9, <4>1, <4>2
      <4>4. HoldersOf(f, h) = {p}
        BY <2>4, <2>7, <3>1
      <4>5. PageOk(1, 0, {}, {}, {}, {p}, {}, {}, {})
        BY PageKinds
      <4>6. buddy'.count[h] = 1 /\ buddy'.order[h] = 0
        BY <2>5, <3>1, <4>1
      <4> QED BY <1>4, <2>3, <2>10, <4>3, <4>4, <4>5, <4>6 DEF PageAt
    <3>2. CASE buddy.count[h] # 1
      <4>1. buddy.count[h] > 1 /\ buddy'.count[h] = buddy.count[h] - 1
        BY <2>5, <2>7, <3>2
      <4>2. /\ WritersOf(pte, h) = {}
            /\ PageOk(buddy.count[h] - 1, buddy.order[h], UsersOf(pte, h) \ {<<p, v>>}, {}, {},
                      {}, {}, {}, {})
        BY <2>7, <2>8, <4>1, DropUser
      <4>3. WritersOf(t, h) = {}
        BY <2>9, <4>2
      <4>4. HoldersOf(f, h) = {}
        BY <1>1, <2>4, <2>7, <3>2
      <4> QED BY <1>4, <2>3, <2>5, <2>9, <2>10, <4>1, <4>2, <4>3, <4>4 DEF PageAt
    <3> QED BY <3>1, <3>2
  <2> QED BY <2>6, <2>11
<1> QED BY <1>7, <1>8

(* pages_free() of a page that waits for it: nobody has the page then.     *)
LEMMA FreedPages ==
  ASSUME VmInv, NEW p \in Procs, FreePage(p)
  PROVE  \A g \in Pages : PageAt(g)'
<1>1. VmType /\ NPages \notin Pages /\ PageNos = Pages \cup {NPages}
  BY MappedIs DEF VmInv
<1>2. PICK h \in Pages : h = freeing[p]
  BY <1>1 DEF FreePage, VmType
<1>3. /\ buddy' = pages_free(buddy, h) /\ freeing' = [freeing EXCEPT ![p] = NPages]
      /\ UNCHANGED <<slub, kernel, lk, pte, ustack>>
  BY <1>2 DEF FreePage, physVars
<1>4. /\ buddy.count[h] = 1 /\ h \notin kernel /\ slub.linked[h] = 0 /\ lk[h] = NoProc
      /\ \A q \in Procs, v \in VPages : pte[q][v].page # h
      /\ \A q \in Procs : ustack[q] # h
  BY <1>2, PageFacts
<1>5. buddy'.count = [buddy.count EXCEPT ![h] = 0] /\ buddy'.order = buddy.order
  BY <1>3, <1>4, FreeKeeps DEF VmInv
<1>6. PICK f : f = freeing'
  OBVIOUS
<1>7. \A g : f[p] # g => HoldersOf(f, g) = HoldersOf(freeing, g) \ {p}
  <2>1. \A q \in Procs : q # p => f[q] = freeing[q]
    BY <1>1, <1>3, <1>6 DEF VmType
  <2> QED BY <2>1 DEF HoldersOf
<1>8. f[p] = NPages
  BY <1>1, <1>3, <1>6 DEF VmType
<1>9. ASSUME NEW g \in Pages, g # h PROVE PageAt(g)'
  <2>1. HoldersOf(f, g) = HoldersOf(freeing, g)
    <3>1. f[p] # g /\ p \notin HoldersOf(freeing, g)
      BY <1>1, <1>2, <1>8, <1>9 DEF HoldersOf
    <3> QED BY <1>7, <3>1
  <2>2. buddy'.count[g] = buddy.count[g]
    BY <1>5, <1>9 DEF VmInv, BuddyInv
  <2> QED BY <1>3, <1>5, <1>6, <2>1, <2>2, PageSame
<1>10. PageAt(h)'
  <2>1. HoldersOf(freeing, h) = {p}
    <3>1. PageAt(h) /\ p \in HoldersOf(freeing, h)
      BY <1>2 DEF VmInv, HoldersOf
    <3>2. \E q \in HoldersOf(freeing, h) : HoldersOf(freeing, h) = {q}
      BY <3>1 DEF PageAt, PageOk
    <3> QED BY <3>1, <3>2
  <2>2. HoldersOf(f, h) = {}
    BY <1>1, <1>7, <1>8, <2>1
  <2>3. /\ UsersOf(pte', h) = {} /\ WritersOf(pte', h) = {} /\ HoldersOf(ustack', h) = {}
        /\ kernel' \cap {h} = {} /\ {slub'.linked[h]} \ {0} = {} /\ {lk'[h]} \ {NoProc} = {}
    <3>1. UsersOf(pte, h) = {} /\ WritersOf(pte, h) = {} /\ HoldersOf(ustack, h) = {}
      BY <1>4, NoneOf
    <3> QED BY <1>3, <1>4, <3>1
  <2>4. PageOk(buddy'.count[h], buddy'.order[h], {}, {}, {}, {}, {}, {}, {})
    BY PageKinds
  <2> QED BY <1>6, <2>2, <2>3, <2>4 DEF PageAt
<1> QED BY <1>9, <1>10

(* execve(): the page of the new stack is nobody else's.                   *)
LEMMA ExecPages ==
  ASSUME VmInv, NEW p \in Procs, Exec(p)
  PROVE  \A g \in Pages : PageAt(g)'
<1>1. VmType /\ 0 \in Orders /\ NPages \notin Pages
  BY PhysAssumption, MappedIs DEF VmInv, Orders
<1>2. /\ HasBlock(buddy, 0) /\ buddy' = pages_alloc(buddy, 0) /\ pc[p] = "user"
      /\ ustack' = [ustack EXCEPT ![p] = Allocated(buddy, 0)]
      /\ UNCHANGED <<slub, kernel, lk, pte, freeing>>
  BY DEF Exec, physVars
<1>3. PICK h \in Pages :
      /\ h = Allocated(buddy, 0)
      /\ buddy'.count = [buddy.count EXCEPT ![h] = 1] /\ buddy'.order[h] = 0
      /\ \A g \in Pages : buddy.count[g] > 0 => buddy'.order[g] = buddy.order[g]
      /\ \A q \in Procs, x \in VPages : pte[q][x].page # h
      /\ \A q \in Procs : freeing[q] # h /\ ustack[q] # h
      /\ h \notin kernel /\ slub.linked[h] = 0 /\ lk[h] = NoProc
  BY <1>1, <1>2, Fresh
<1>4. ustack[p] = NPages
  BY <1>2 DEF VmInv, TablesInv
<1>5. PICK f : f = ustack'
  OBVIOUS
<1>6. f[p] = h /\ SameElse(ustack, f, p)
  BY <1>1, <1>2, <1>3, <1>5 DEF VmType, SameElse
<1>7. \A g : /\ f[p] = g => HoldersOf(f, g) = HoldersOf(ustack, g) \cup {p}
             /\ f[p] # g /\ ustack[p] # g => HoldersOf(f, g) = HoldersOf(ustack, g)
  BY <1>6 DEF HoldersOf, SameElse
<1>8. DOMAIN buddy.count = Pages
  BY DEF VmInv, BuddyInv
<1>9. ASSUME NEW g \in Pages, g # h PROVE PageAt(g)'
  <2>1. HoldersOf(f, g) = HoldersOf(ustack, g)
    BY <1>1, <1>4, <1>6, <1>7, <1>9
  <2>2. buddy'.count[g] = buddy.count[g]
    BY <1>3, <1>8, <1>9
  <2> QED BY <1>2, <1>3, <1>5, <2>1, <2>2, PageSame
<1>10. PageAt(h)'
  <2>1. /\ UsersOf(pte, h) = {} /\ WritersOf(pte, h) = {}
        /\ HoldersOf(freeing, h) = {} /\ HoldersOf(ustack, h) = {}
    BY <1>3, NoneOf
  <2>2. HoldersOf(f, h) = {p}
    BY <1>6, <1>7, <2>1
  <2>3. buddy'.count[h] = 1 /\ kernel' \cap {h} = {}
        /\ {slub'.linked[h]} \ {0} = {} /\ {lk'[h]} \ {NoProc} = {}
    BY <1>2, <1>3, <1>8
  <2>4. UsersOf(pte', h) = {} /\ WritersOf(pte', h) = {} /\ HoldersOf(freeing', h) = {}
    BY <1>2, <2>1
  <2>5. PageOk(1, 0, {}, {}, {}, {}, {p}, {}, {})
    BY PageKinds
  <2> QED BY <1>3, <1>5, <2>2, <2>3, <2>4, <2>5 DEF PageAt
<1> QED BY <1>9, <1>10

(* execve() with the old memory gone: the new stack is the only page that  *)
(* is mapped.                                                              *)
LEMMA ExecEndPages ==
  ASSUME VmInv, NEW p \in Procs, ExecEnd(p)
  PROVE  \A g \in Pages : PageAt(g)'
<1>1. VmType /\ NPages \notin Pages /\ PageNos = Pages \cup {NPages} /\ Stack \in VPages
  BY MappedIs, VmAssumption DEF VmInv
<1>2. /\ pc[p] = "exec" /\ Leaving(p) /\ todo[p] = {}
      /\ UNCHANGED <<buddy, slub, kernel, lk, freeing>>
      /\ ustack' = [ustack EXCEPT ![p] = NPages]
      /\ pte' = [pte EXCEPT ![p] = [NoMap EXCEPT ![Stack] = [page |-> ustack[p], w |-> TRUE]]]
  BY DEF ExecEnd, Gone, physVars
<1>3. PICK h \in Pages : h = ustack[p]
  BY <1>1, <1>2 DEF VmInv, TablesInv, VmType
<1>4. /\ buddy.count[h] = 1 /\ buddy.order[h] = 0 /\ h \notin kernel
      /\ slub.linked[h] = 0 /\ lk[h] = NoProc
      /\ \A q \in Procs, v \in VPages : pte[q][v].page # h
      /\ \A q \in Procs : freeing[q] # h
  BY <1>3, PageFacts
<1>5. PICK t : t = pte'
  OBVIOUS
<1>6. SameBut(pte, t, p, Stack) /\ t[p][Stack].page = h
  <2>1. PICK e : e = [page |-> h, w |-> TRUE]
    OBVIOUS
  <2>2. t[p] = [NoMap EXCEPT ![Stack] = e] /\ \A q \in Procs : q # p => t[q] = pte[q]
    BY <1>1, <1>2, <1>3, <1>5, <2>1 DEF VmType
  <2>3. t[p][Stack] = e /\ \A x \in VPages : x # Stack => t[p][x] = Unmapped
    BY <1>1, <2>2 DEF NoMap
  <2>4. \A x \in VPages : pte[p][x] = Unmapped
    BY <1>2 DEF VmInv, TablesInv, Mapped
  <2>5. t[p][Stack].page = h
    BY <2>1, <2>3
  <2>6. \A x \in VPages : x # Stack => t[p][x] = pte[p][x]
    BY <2>3, <2>4
  <2> HIDE DEF Unmapped
  <2>7. SameBut(pte, t, p, Stack)
    BY <2>2, <2>6 DEF SameBut
  <2> QED BY <2>5, <2>7
<1>7. Moved(pte, t, p, Stack)
  BY <1>1, <1>6, UsersChange
<1>8. pte[p][Stack].page = NPages
  BY <1>1, <1>2, MappedIs DEF VmInv, TablesInv
<1>9. PICK f : f = ustack'
  OBVIOUS
<1>10. f[p] = NPages /\ SameElse(ustack, f, p)
  BY <1>1, <1>2, <1>9 DEF VmType, SameElse
<1>11. \A g : /\ f[p] # g => HoldersOf(f, g) = HoldersOf(ustack, g) \ {p}
              /\ f[p] # g /\ ustack[p] # g => HoldersOf(f, g) = HoldersOf(ustack, g)
  BY <1>10 DEF HoldersOf, SameElse
<1>12. ASSUME NEW g \in Pages, g # h PROVE PageAt(g)'
  <2>1. HoldersOf(f, g) = HoldersOf(ustack, g)
    BY <1>1, <1>3, <1>10, <1>11, <1>12
  <2>2. UsersOf(t, g) = UsersOf(pte, g) /\ WritersOf(t, g) = WritersOf(pte, g)
    BY <1>1, <1>6, <1>7, <1>8, <1>12 DEF Moved
  <2> QED BY <1>2, <1>5, <1>9, <2>1, <2>2, PageSame
<1>13. PageAt(h)'
  <2>1. UsersOf(pte, h) = {} /\ HoldersOf(freeing, h) = {}
    BY <1>4, NoneOf
  <2>2. UsersOf(t, h) = {<<p, Stack>>}
    BY <1>6, <1>7, <2>1 DEF Moved
  <2>3. HoldersOf(f, h) = {}
    <3>1. PageAt(h) /\ p \in HoldersOf(ustack, h)
      BY <1>3 DEF VmInv, HoldersOf
    <3>2. \E q \in HoldersOf(ustack, h) : HoldersOf(ustack, h) = {q}
      BY <3>1 DEF PageAt, PageOk
    <3> QED BY <1>1, <1>10, <1>11, <3>1, <3>2
  <2>4. /\ HoldersOf(freeing', h) = {} /\ kernel' \cap {h} = {}
        /\ {slub'.linked[h]} \ {0} = {} /\ {lk'[h]} \ {NoProc} = {}
        /\ buddy'.count[h] = 1 /\ buddy'.order[h] = 0
    BY <1>2, <1>4, <2>1
  <2>5. PageOk(1, 0, {<<p, Stack>>}, WritersOf(t, h), {}, {}, {}, {}, {})
    BY PageKinds
  <2> QED BY <1>5, <1>9, <2>2, <2>3, <2>4, <2>5 DEF PageAt
<1> QED BY <1>12, <1>13

(* The kernel's pages: the first page of a block it holds.                 *)
LEMMA KernelPages ==
  ASSUME VmInv, KernelAlloc \/ KernelFree
  PROVE  \A g \in Pages : PageAt(g)'
<1>1. UNCHANGED <<slub, lk, pte, freeing, ustack>>
  BY DEF KernelAlloc, KernelFree
<1>2. DOMAIN buddy.count = Pages
  BY DEF VmInv, BuddyInv
<1>3. CASE KernelAlloc
  <2>1. PICK k \in Orders : /\ HasBlock(buddy, k) /\ buddy' = pages_alloc(buddy, k)
                            /\ kernel' = kernel \cup {Allocated(buddy, k)}
    BY <1>3, PowerIs DEF KernelAlloc
  <2>2. PICK h \in Pages :
        /\ h = Allocated(buddy, k)
        /\ buddy'.count = [buddy.count EXCEPT ![h] = 1]
        /\ \A g \in Pages : buddy.count[g] > 0 => buddy'.order[g] = buddy.order[g]
        /\ \A q \in Procs, x \in VPages : pte[q][x].page # h
        /\ \A q \in Procs : freeing[q] # h /\ ustack[q] # h
        /\ h \notin kernel /\ slub.linked[h] = 0 /\ lk[h] = NoProc
    BY <2>1, Fresh
  <2>3. ASSUME NEW g \in Pages, g # h PROVE PageAt(g)'
    <3>1. buddy'.count[g] = buddy.count[g] /\ (g \in kernel' <=> g \in kernel)
      BY <1>2, <2>1, <2>2, <2>3
    <3> QED BY <1>1, <2>2, <3>1, PageSame
  <2>4. PageAt(h)'
    <3>1. /\ UsersOf(pte, h) = {} /\ WritersOf(pte, h) = {}
          /\ HoldersOf(freeing, h) = {} /\ HoldersOf(ustack, h) = {}
      BY <2>2, NoneOf
    <3>2. /\ UsersOf(pte', h) = {} /\ WritersOf(pte', h) = {}
          /\ HoldersOf(freeing', h) = {} /\ HoldersOf(ustack', h) = {}
          /\ {slub'.linked[h]} \ {0} = {} /\ {lk'[h]} \ {NoProc} = {}
      BY <1>1, <2>2, <3>1
    <3>3. buddy'.count[h] = 1 /\ kernel' \cap {h} = {h}
      BY <1>2, <2>1, <2>2
    <3>4. PageOk(1, buddy'.order[h], {}, {}, {}, {}, {}, {h}, {})
      BY PageKinds
    <3> QED BY <3>2, <3>3, <3>4 DEF PageAt
  <2> QED BY <2>3, <2>4
<1>4. CASE KernelFree
  <2>1. PICK h \in kernel : kernel' = kernel \ {h} /\ buddy' = pages_free(buddy, h)
    BY <1>4 DEF KernelFree
  <2>2. h \in Pages
    BY <2>1 DEF VmInv, VmType
  <2>3. /\ buddy.count[h] = 1 /\ slub.linked[h] = 0 /\ lk[h] = NoProc
        /\ \A q \in Procs, v \in VPages : pte[q][v].page # h
        /\ \A q \in Procs : freeing[q] # h /\ ustack[q] # h
    BY <2>1, <2>2, PageFacts
  <2>4. buddy'.count = [buddy.count EXCEPT ![h] = 0] /\ buddy'.order = buddy.order
    BY <2>1, <2>2, <2>3, FreeKeeps DEF VmInv
  <2>5. ASSUME NEW g \in Pages, g # h PROVE PageAt(g)'
    <3>1. buddy'.count[g] = buddy.count[g] /\ (g \in kernel' <=> g \in kernel)
      BY <1>2, <2>1, <2>4, <2>5
    <3> QED BY <1>1, <2>4, <3>1, PageSame
  <2>6. PageAt(h)'
    <3>1. /\ UsersOf(pte, h) = {} /\ WritersOf(pte, h) = {}
          /\ HoldersOf(freeing, h) = {} /\ HoldersOf(ustack, h) = {}
      BY <2>3, NoneOf
    <3>2. /\ UsersOf(pte', h) = {} /\ WritersOf(pte', h) = {}
          /\ HoldersOf(freeing', h) = {} /\ HoldersOf(ustack', h) = {}
          /\ {slub'.linked[h]} \ {0} = {} /\ {lk'[h]} \ {NoProc} = {}
      BY <1>1, <2>3, <3>1
    <3>3. kernel' \cap {h} = {}
      BY <2>1
    <3>4. PageOk(buddy'.count[h], buddy'.order[h], {}, {}, {}, {}, {}, {}, {})
      BY PageKinds
    <3> QED BY <3>2, <3>3, <3>4 DEF PageAt
  <2> QED BY <2>2, <2>5, <2>6
<1> QED BY <1>3, <1>4

(* kmalloc() and kfree(): a page that joins a cache was nobody's.          *)
LEMMA SlubPages ==
  ASSUME VmInv, Kmalloc \/ Kfree
  PROVE  \A g \in Pages : PageAt(g)'
<1>1. UNCHANGED <<kernel, lk, pte, freeing, ustack>>
  BY DEF Kmalloc, Kfree
<1>2. DOMAIN slub = {"partial", "full", "obj_freelist", "linked"} /\ DOMAIN buddy.count = Pages
      /\ DOMAIN slub.linked = Pages
  BY DEF VmInv, VmType, BuddyInv
<1>6. 0 \in Orders
  BY PhysAssumption DEF Orders
<1>3. CASE UNCHANGED buddy /\ slub'.linked = slub.linked
  BY <1>1, <1>3, PageSame
<1>4. CASE Kfree
  <2>1. PICK o \in objs : slub' = kfree(slub, o[1], o[2]) /\ buddy' = buddy
    BY <1>4 DEF Kfree
  <2>2. slub'.linked = slub.linked
    BY <1>2, <2>1, SlubLinked
  <2> QED BY <1>3, <2>1, <2>2
<1>5. CASE Kmalloc
  <2>1. PICK size \in AskSizes :
         LET i == binary_search_ge(size)
             fresh == slub.partial[i] = <<>>
             s == IF fresh THEN new_slub_pages_node(slub, i, Allocated(buddy, 0)) ELSE slub
         IN  /\ fresh => HasBlock(buddy, 0)
             /\ buddy' = IF fresh THEN pages_alloc(buddy, 0) ELSE buddy
             /\ slub' = kmalloc(s, i)
    BY <1>5 DEF Kmalloc
  <2>2. PICK i : i = binary_search_ge(size)
    OBVIOUS
  <2>3. i # 0
    <3>1. size \in Nat /\ size <= slub_size[Len(slub_size)]
      BY VmAssumption
    <3>2. i \in Caches
      BY <2>2, <3>1, SearchFinds
    <3> QED BY <3>2 DEF Caches
  <2>4. CASE slub.partial[i] # <<>>
    <3>1. buddy' = buddy /\ slub' = kmalloc(slub, i)
      BY <2>1, <2>2, <2>4
    <3>2. slub'.linked = slub.linked
      BY <1>2, <3>1, SlubLinked
    <3> QED BY <1>3, <3>1, <3>2
  <2>5. CASE slub.partial[i] = <<>>
    <3>1. /\ HasBlock(buddy, 0) /\ buddy' = pages_alloc(buddy, 0)
          /\ slub' = kmalloc(new_slub_pages_node(slub, i, Allocated(buddy, 0)), i)
      BY <2>1, <2>2, <2>5
    <3>2. PICK h \in Pages :
          /\ h = Allocated(buddy, 0)
          /\ buddy'.count = [buddy.count EXCEPT ![h] = 1]
          /\ \A g \in Pages : buddy.count[g] > 0 => buddy'.order[g] = buddy.order[g]
          /\ \A q \in Procs, x \in VPages : pte[q][x].page # h
          /\ \A q \in Procs : freeing[q] # h /\ ustack[q] # h
          /\ h \notin kernel /\ slub.linked[h] = 0 /\ lk[h] = NoProc
      BY <1>6, <3>1, Fresh
    <3>3. slub'.linked = [slub.linked EXCEPT ![h] = i]
      <4>1. PICK s : s = new_slub_pages_node(slub, i, h)
        OBVIOUS
      <4>2. s.linked = [slub.linked EXCEPT ![h] = i] /\ DOMAIN s = DOMAIN slub
        BY <1>2, <4>1, SlubLinked
      <4>3. DOMAIN s = {"partial", "full", "obj_freelist", "linked"}
        BY <1>2, <4>2
      <4>4. slub' = kmalloc(s, i)
        BY <3>1, <3>2, <4>1
      <4>5. slub'.linked = s.linked
        BY <4>3, <4>4, SlubLinked
      <4> QED BY <4>2, <4>5
    <3>4. ASSUME NEW g \in Pages, g # h PROVE PageAt(g)'
      <4>1. buddy'.count[g] = buddy.count[g] /\ slub'.linked[g] = slub.linked[g]
        BY <1>2, <3>2, <3>3, <3>4
      <4> QED BY <1>1, <3>2, <4>1, PageSame
    <3>5. PageAt(h)'
      <4>1. /\ UsersOf(pte, h) = {} /\ WritersOf(pte, h) = {}
            /\ HoldersOf(freeing, h) = {} /\ HoldersOf(ustack, h) = {}
        BY <3>2, NoneOf
      <4>2. /\ UsersOf(pte', h) = {} /\ WritersOf(pte', h) = {}
            /\ HoldersOf(freeing', h) = {} /\ HoldersOf(ustack', h) = {}
            /\ kernel' \cap {h} = {} /\ {lk'[h]} \ {NoProc} = {}
        BY <1>1, <3>2, <4>1
      <4>3. buddy'.count[h] = 1 /\ {slub'.linked[h]} \ {0} = {i}
        BY <1>2, <2>3, <3>2, <3>3
      <4>4. PageOk(1, buddy'.order[h], {}, {}, {}, {}, {}, {}, {i})
        BY PageKinds
      <4> QED BY <4>2, <4>3, <4>4 DEF PageAt
    <3> QED BY <3>4, <3>5
  <2> QED BY <2>4, <2>5
<1> QED BY <1>4, <1>5

(* Every step keeps what PageAt says of every page.                        *)
LEMMA PagesNext ==
  ASSUME VmInv, Next
  PROVE  \A g \in Pages : PageAt(g)'
<1>1. ASSUME UNCHANGED <<buddy, slub, kernel, lk, pte, freeing, ustack>>
      PROVE  \A g \in Pages : PageAt(g)'
  BY <1>1, PageSame
<1>2. ASSUME NEW p \in Procs,
             \/ Store(p) \/ SegFault(p) \/ sys_brk(p) \/ Fork(p) \/ ForkEnd(p)
             \/ Exit(p) \/ ExitEnd(p)
      PROVE  \A g \in Pages : PageAt(g)'
  <2>1. UNCHANGED <<buddy, slub, kernel, lk, pte, freeing, ustack>>
    BY <1>2 DEF Store, SegFault, sys_brk, Fork, ForkEnd, Exit, ExitEnd, physVars
  <2> QED BY <1>1, <2>1
<1>3. ASSUME NEW p \in Procs,
             \/ do_no_page(p) \/ do_wp_page(p) \/ WpCopy(p) \/ copy_pgtable(p)
      PROVE  \A g \in Pages : PageAt(g)'
  BY <1>3, NoPagePages, WpPages, CopyPages, ForkPages
<1>4. ASSUME NEW p \in Procs,
             \/ Exec(p) \/ release_phypg(p) \/ FreePage(p) \/ ExecEnd(p)
      PROVE  \A g \in Pages : PageAt(g)'
  BY <1>4, ExecPages, ReleasePages, FreedPages, ExecEndPages
<1>5. CASE KernelAlloc \/ KernelFree
  BY <1>5, KernelPages
<1>6. CASE Kmalloc \/ Kfree
  BY <1>6, SlubPages
<1>7. CASE \E p \in Procs : ProcStep(p)
  <2>1. PICK p \in Procs : ProcStep(p)
    BY <1>7
  <2> QED BY <1>2, <1>3, <1>4, <2>1 DEF ProcStep
<1> QED BY <1>5, <1>6, <1>7 DEF Next

(* At boot nothing is mapped, and the first block is given away.           *)
LEMMA VmInit == Init => VmInv
<1> SUFFICES ASSUME Init PROVE VmInv
  OBVIOUS
<1>1. /\ buddy = Boot /\ slub = kmem_cache_init /\ kernel = {}
      /\ lk = [g \in Pages |-> NoProc] /\ pte = [p \in Procs |-> NoMap]
      /\ todo = [p \in Procs |-> {}] /\ at = [p \in Procs |-> Stack]
      /\ freeing = [p \in Procs |-> NPages] /\ child = [p \in Procs |-> NoProc]
      /\ ustack = [p \in Procs |-> NPages]
  BY DEF Init
<1>2. PICK r \in Procs : pc = [q \in Procs |-> IF q = r THEN "user" ELSE "unused"]
  BY DEF Init
<1>3. /\ NPages \notin Pages /\ NPages \in PageNos /\ Unmapped \in Entries
      /\ Unmapped.page = NPages /\ ~Unmapped.w
  <2>1. NPages \notin Pages /\ NPages \in PageNos
    BY PhysAssumption DEF Pages, PageNos
  <2> QED BY <2>1 DEF Unmapped, Entries
<1>4. \A p \in Procs, v \in VPages : pte[p][v] = Unmapped
  BY <1>1 DEF NoMap
<1>5. VmType
  <2>1. /\ DOMAIN slub = {"partial", "full", "obj_freelist", "linked"}
        /\ slub.linked = [g \in Pages |-> 0]
    BY <1>1 DEF kmem_cache_init
  <2>2. pte \in [Procs -> [VPages -> Entries]]
    <3>1. NoMap \in [VPages -> Entries]
      BY <1>3 DEF NoMap
    <3> QED BY <1>1, <3>1
  <2>3. pc \in [Procs -> Places]
    BY <1>2 DEF Places
  <2>4. /\ lk \in [Pages -> Procs \cup {NoProc}] /\ child \in [Procs -> Procs \cup {NoProc}]
        /\ freeing \in [Procs -> PageNos] /\ ustack \in [Procs -> PageNos]
        /\ todo \in [Procs -> SUBSET VPages] /\ at \in [Procs -> VPages]
    BY <1>1, <1>3, VmAssumption
  <2>5. slub.linked \in [Pages -> Nat] /\ kernel \subseteq Pages
    BY <1>1, <2>1
  <2> QED BY <2>1, <2>2, <2>3, <2>4, <2>5 DEF VmType
<1>6. BuddyInv(buddy)
  BY <1>1, BootKeeps
<1>7. \A p \in Procs : pc[p] \in {"user", "unused"}
  BY <1>2
<1>8. LockInv
  BY <1>1, <1>7 DEF LockInv
<1>9. TablesInv
  <2> HIDE DEF Unmapped
  <2>1. \A p \in Procs, v \in VPages : ~Mapped(p, v) /\ ~pte[p][v].w
    BY <1>3, <1>4 DEF Mapped
  <2>2. \A p \in Procs : ~Leaving(p) /\ ustack[p] = NPages
    BY <1>1, <1>7 DEF Leaving
  <2> QED BY <1>7, <2>1, <2>2, VmAssumption DEF TablesInv
<1>10. ForkInv
  BY <1>1, <1>7 DEF ForkInv
<1>11. ASSUME NEW g \in Pages PROVE PageAt(g)
  <2>1. /\ \A p \in Procs, v \in VPages : pte[p][v].page # g
        /\ \A p \in Procs : freeing[p] # g /\ ustack[p] # g
    BY <1>1, <1>3, <1>4
  <2>2. /\ UsersOf(pte, g) = {} /\ WritersOf(pte, g) = {}
        /\ HoldersOf(freeing, g) = {} /\ HoldersOf(ustack, g) = {}
    BY <2>1, NoneOf
  <2>3. kernel \cap {g} = {} /\ {slub.linked[g]} \ {0} = {} /\ {lk[g]} \ {NoProc} = {}
    <3>1. slub.linked[g] = 0 /\ lk[g] = NoProc
      BY <1>1 DEF kmem_cache_init
    <3> QED BY <1>1, <3>1
  <2>4. PageOk(buddy.count[g], buddy.order[g], {}, {}, {}, {}, {}, {}, {})
    BY PageKinds
  <2> QED BY <2>2, <2>3, <2>4 DEF PageAt
<1> QED BY <1>5, <1>6, <1>8, <1>9, <1>10, <1>11 DEF VmInv

(* The invariant holds in every reachable state, for any memory, number of *)
(* processes and mix of page faults, forks, exits and allocations of the   *)
(* kernel.                                                                 *)
THEOREM VmInvariant == Spec => []VmInv
<1>1. VmInv /\ [Next]_vars => VmInv'
  <2> SUFFICES ASSUME VmInv, [Next]_vars PROVE VmInv'
    OBVIOUS
  <2>1. CASE Next
    <3>1. VmType' /\ BuddyInv(buddy)' /\ LockInv' /\ TablesInv' /\ ForkInv'
      BY <2>1, TypeNext, BuddyNext, LockNext, TablesNext, ForkNext
    <3>2. \A g \in Pages : PageAt(g)'
      BY <2>1, PagesNext
    <3> QED BY <3>1, <3>2 DEF VmInv
  <2>2. CASE UNCHANGED vars
    <3>1. UNCHANGED <<buddy, slub, kernel, lk, pte, freeing, ustack, pc, todo, at, child>>
      BY <2>2 DEF vars, physVars
    <3>2. VmType' /\ BuddyInv(buddy)'
      BY <3>1 DEF VmInv, VmType
    <3>3. LockInv' /\ TablesInv' /\ ForkInv'
      BY <3>1 DEF VmInv, LockInv, TablesInv, ForkInv, Mapped, Leaving
    <3>4. \A g \in Pages : PageAt(g)'
      BY <3>1, PageSame
    <3> QED BY <3>2, <3>3, <3>4 DEF VmInv
  <2> QED BY <2>1, <2>2
<1> QED BY <1>1, VmInit, PTL DEF Spec

(* pages_alloc() and pages_free(): the blocks in use and the free blocks   *)
(* tile the memory in every reachable state, whatever orders the records   *)
(* of earlier splits and merges still hold.                                *)
THEOREM VmPagesPartition == Spec => []PagesPartition
<1>1. VmInv => PagesPartition
  BY PartitionHolds DEF VmInv, PagesPartition
<1> QED BY <1>1, VmInvariant, PTL

(* pages_dup(), pages_undup() and pages_free(): the count of every user    *)
(* page is the number of the entries that map it, less the one that a copy *)
(* under way replaces, plus the reference of a release under way; a page   *)
(* that somebody may write has one user.                                   *)
THEOREM VmCountExact == Spec => []CountExact
<1>1. ASSUME VmInv PROVE CountExact
  <2> SUFFICES ASSUME NEW g \in Pages, Users(g) # {} \/ Freeing(g) # {}
               PROVE  /\ buddy.count[g] = Cardinality(Users(g)) - Cardinality(Copying(g))
                                          + Cardinality(Freeing(g))
                      /\ buddy.order[g] = 0
                      /\ (\E u \in Users(g) : pte[u[1]][u[2]].w) => Cardinality(Users(g)) = 1
    BY DEF CountExact
  <2>1. PageAt(g) /\ VmType /\ LockInv
    BY <1>1 DEF VmInv
  <2>2. Users(g) = UsersOf(pte, g) /\ Freeing(g) = HoldersOf(freeing, g)
    BY DEF Users, UsersOf, Freeing, HoldersOf
  <2>3. Copying(g) = {lk[g]} \ {NoProc}
    <3>1. \A p \in Procs : pc[p] = "copy" /\ pte[p][at[p]].page = g => lk[g] = p /\ p # NoProc
      BY <2>1, VmAssumption DEF LockInv
    <3>2. lk[g] # NoProc =>
            lk[g] \in Procs /\ pc[lk[g]] = "copy" /\ pte[lk[g]][at[lk[g]]].page = g
      BY <2>1 DEF LockInv, VmType
    <3> QED BY <3>1, <3>2 DEF Copying
  <2>4. /\ buddy.order[g] = 0
        /\ buddy.count[g] = Cardinality(Users(g)) - Cardinality(Copying(g))
                            + Cardinality(Freeing(g))
        /\ WritersOf(pte, g) # {} => \E u \in Users(g) : Users(g) = {u}
    BY <2>1, <2>2, <2>3 DEF PageAt, PageOk
  <2>5. ASSUME \E u \in Users(g) : pte[u[1]][u[2]].w PROVE Cardinality(Users(g)) = 1
    <3>1. WritersOf(pte, g) # {}
      BY <2>2, <2>5 DEF WritersOf
    <3>2. PICK u : Users(g) = {u}
      BY <2>4, <3>1
    <3> QED BY <3>2, Counted
  <2> QED BY <2>4, <2>5
<1> QED BY <1>1, VmInvariant, PTL
-----------------------------------------------------------------------------
(* Copy-on-write is invisible: Vm implements PrivateMemory                 *)

(* What a process in state l sees, with the row r of the page table, the   *)
(* contents c of the pages and the new stack u.                            *)
Run == {"user", "copy", "fork"}
RunView(r, c) == [v \in VPages |-> IF r[v] # Unmapped THEN c[r[v].page] ELSE Absent]
View(l, r, c, u) ==
    IF l \in Run THEN RunView(r, c)
    ELSE IF l = "exec" THEN [Private!Empty EXCEPT ![Stack] = c[u]]
    ELSE Private!Empty

Mem   == [p \in Procs |-> Seen(p)]
Alive == {p \in Procs : pc[p] \in {"user", "copy", "fork", "exec"}}

(* Pages other than g keep their contents; only p may see page g.          *)
ContentBut(g) == \A h \in Pages : h # g => content'[h] = content[h]
Unseen(g, p) ==
    \A q \in Procs : q # p => ustack[q] # g /\ \A v \in VPages : pte[q][v].page # g

(* What every process sees, before and after a step.                       *)
LEMMA SeenIs ==
  ASSUME NEW p
  PROVE  /\ Seen(p) = View(pc[p], pte[p], content, ustack[p])
         /\ Seen(p)' = View(pc'[p], pte'[p], content', ustack'[p])
<1>1. \A l, r, c, u :
         [v \in VPages |-> CASE l \in {"user", "copy", "fork"} ->
                                  IF r[v] # Unmapped THEN c[r[v].page] ELSE Absent
                             [] l = "exec" -> IF v = Stack THEN c[u] ELSE Absent
                             [] OTHER -> Absent] = View(l, r, c, u)
  <2> TAKE l, r, c, u
  <2>1. CASE l \in Run
    BY <2>1 DEF View, RunView, Run
  <2>2. CASE l = "exec"
    BY <2>2, VmAssumption DEF View, Run, Private!Empty
  <2>3. CASE l \notin Run /\ l # "exec"
    BY <2>3 DEF View, Run, Private!Empty
  <2> QED BY <2>1, <2>2, <2>3
<1> QED BY <1>1 DEF Seen, Mapped

(* An entry is empty or maps a page.                                       *)
LEMMA EntryKinds ==
  ASSUME NEW e \in Entries
  PROVE  /\ e = Unmapped <=> e.page = NPages
         /\ e.page # NPages => e.page \in Pages
<1>1. PageNos = Pages \cup {NPages} /\ NPages \notin Pages
  BY PhysAssumption DEF Pages, PageNos
<1>2. e.page \in PageNos /\ (e.page = NPages => ~e.w) /\ e = [page |-> e.page, w |-> e.w]
      /\ e.w \in BOOLEAN
  BY DEF Entries
<1> QED BY <1>1, <1>2 DEF Unmapped

(* Two rows that map pages of the same contents ...                        *)
Agree(r, c, s, d) ==
    /\ r \in [VPages -> Entries] /\ s \in [VPages -> Entries]
    /\ \A v \in VPages : /\ r[v].page = NPages <=> s[v].page = NPages
                         /\ r[v].page # NPages => d[s[v].page] = c[r[v].page]

(* ... show the same.                                                      *)
LEMMA RunSame ==
  ASSUME NEW r, NEW s, NEW c, NEW d, Agree(r, c, s, d)
  PROVE  RunView(s, d) = RunView(r, c)
<1>1. ASSUME NEW v \in VPages
      PROVE  (IF s[v] # Unmapped THEN d[s[v].page] ELSE Absent)
               = IF r[v] # Unmapped THEN c[r[v].page] ELSE Absent
  <2>1. r[v] \in Entries /\ s[v] \in Entries
    BY DEF Agree
  <2>2. (r[v] = Unmapped <=> r[v].page = NPages) /\ (s[v] = Unmapped <=> s[v].page = NPages)
    BY <2>1, EntryKinds
  <2> QED BY <2>2 DEF Agree
<1> QED BY <1>1 DEF RunView

(* A process to which nothing happens sees what it saw.                    *)
LEMMA SeenElse ==
  ASSUME VmInv, NEW q \in Procs,
         pc'[q] = pc[q], pte'[q] = pte[q], ustack'[q] = ustack[q],
         \A g \in Pages : \/ content'[g] = content[g]
                          \/ ustack[q] # g /\ \A v \in VPages : pte[q][v].page # g
  PROVE  Seen(q)' = Seen(q)
<1>1. pte[q] \in [VPages -> Entries] /\ ustack[q] \in PageNos
  BY DEF VmInv, VmType
<1>2. PICK l, r, u : l = pc[q] /\ r = pte[q] /\ u = ustack[q]
  OBVIOUS
<1>3. Seen(q) = View(l, r, content, u) /\ Seen(q)' = View(l, r, content', u)
  BY <1>2, SeenIs
<1>4. CASE l \in Run
  <2>1. \A v \in VPages : r[v].page # NPages => content'[r[v].page] = content[r[v].page]
    BY <1>1, <1>2, EntryKinds
  <2>2. PICK d : d = content'
    OBVIOUS
  <2>3. Agree(r, content, r, d)
    BY <1>1, <1>2, <2>1, <2>2 DEF Agree
  <2>4. RunView(r, d) = RunView(r, content)
    BY <2>3, RunSame
  <2> QED BY <1>3, <1>4, <2>2, <2>4 DEF View
<1>5. CASE l = "exec"
  <2>1. u \in Pages
    <3>1. u # NPages
      BY <1>2, <1>5 DEF VmInv, TablesInv
    <3> QED BY <1>1, <1>2, <3>1, PhysAssumption DEF PageNos, Pages
  <2>2. content'[u] = content[u]
    BY <1>2, <2>1
  <2> QED BY <1>3, <1>5, <2>2 DEF View, Run
<1>6. CASE l \notin Run /\ l # "exec"
  BY <1>3, <1>6 DEF View
<1> QED BY <1>4, <1>5, <1>6

(* A step of p that changes a page that only p may see.                    *)
LEMMA OnlyOne ==
  ASSUME VmInv, NEW p \in Procs, Alone(p), NEW g, ContentBut(g), Unseen(g, p)
  PROVE  /\ \A q \in Procs : q # p => Seen(q)' = Seen(q)
         /\ Mem' = [Mem EXCEPT ![p] = Seen(p)']
<1>1. ASSUME NEW q \in Procs, q # p PROVE Seen(q)' = Seen(q)
  <2>1. pc'[q] = pc[q] /\ pte'[q] = pte[q] /\ ustack'[q] = ustack[q]
    BY <1>1 DEF Alone
  <2>2. \A h \in Pages : \/ content'[h] = content[h]
                         \/ ustack[q] # h /\ \A v \in VPages : pte[q][v].page # h
    BY <1>1 DEF ContentBut, Unseen
  <2> QED BY <2>1, <2>2, SeenElse
<1> QED BY <1>1 DEF Mem

(* Two rows that agree but for one page of the process.                    *)
AgreeBut(r, c, s, d, v) ==
    /\ r \in [VPages -> Entries] /\ s \in [VPages -> Entries]
    /\ s[v].page # NPages
    /\ \A y \in VPages : y # v =>
          /\ r[y].page = NPages <=> s[y].page = NPages
          /\ r[y].page # NPages => d[s[y].page] = c[r[y].page]

(* That page is what a store or a page fault changes.                      *)
LEMMA RunSet ==
  ASSUME NEW r, NEW s, NEW c, NEW d, NEW v \in VPages, AgreeBut(r, c, s, d, v)
  PROVE  RunView(s, d) = [RunView(r, c) EXCEPT ![v] = d[s[v].page]]
<1>1. \A y \in VPages : r[y] \in Entries /\ s[y] \in Entries
  BY DEF AgreeBut
<1>2. \A y \in VPages : /\ r[y] = Unmapped <=> r[y].page = NPages
                        /\ s[y] = Unmapped <=> s[y].page = NPages
  BY <1>1, EntryKinds
<1> HIDE DEF Unmapped
<1>3. ASSUME NEW y \in VPages
      PROVE  (IF s[y] # Unmapped THEN d[s[y].page] ELSE Absent)
               = IF y = v THEN d[s[v].page]
                 ELSE IF r[y] # Unmapped THEN c[r[y].page] ELSE Absent
  BY <1>2 DEF AgreeBut
<1> QED BY <1>3 DEF RunView

(* A page that may be written has one user and no other use.               *)
LEMMA WriterAlone ==
  ASSUME VmInv, NEW p \in Procs, NEW v \in VPages, pte[p][v].w
  PROVE  /\ pte[p][v].page \in Pages /\ v \notin Text
         /\ \A q \in Procs, y \in VPages : pte[q][y].page = pte[p][v].page => q = p /\ y = v
         /\ \A q \in Procs : ustack[q] # pte[p][v].page
<1>1. PICK g \in Pages : g = pte[p][v].page
  BY MappedIs DEF VmInv
<1>2. v \notin Text
  BY DEF VmInv, TablesInv
<1>3. \A q \in Procs : ustack[q] # g
  BY <1>1, PageFacts
<1>4. PageAt(g) /\ <<p, v>> \in WritersOf(pte, g) /\ <<p, v>> \in UsersOf(pte, g)
  BY <1>1 DEF VmInv, UsersOf, WritersOf
<1>5. UsersOf(pte, g) = {<<p, v>>}
  <2>1. \E u \in UsersOf(pte, g) : UsersOf(pte, g) = {u}
    BY <1>4 DEF PageAt, PageOk
  <2> QED BY <1>4, <2>1
<1>6. ASSUME NEW q \in Procs, NEW y \in VPages, pte[q][y].page = g PROVE q = p /\ y = v
  <2>1. <<q, y>> \in UsersOf(pte, g)
    BY <1>6 DEF UsersOf
  <2> QED BY <1>5, <2>1
<1> QED BY <1>1, <1>2, <1>3, <1>6

(* Every page holds something.                                             *)
ContentOk == content \in [Pages -> Vals]

(* It does so from the start and after every step.                         *)
LEMMA ContentNext ==
  ASSUME VmInv, ContentOk, [Next]_vars
  PROVE  ContentOk'
<1>1. VmType /\ content \in [Pages -> Vals] /\ FileVal \in Vals
  BY VmAssumption DEF VmInv, ContentOk
<1>2. ASSUME content' = content \/ \E h : \E x \in Vals : content' = [content EXCEPT ![h] = x]
      PROVE  ContentOk'
  BY <1>1, <1>2 DEF ContentOk
<1>3. ASSUME NEW p \in Procs, WpCopy(p) PROVE ContentOk'
  <2>1. pte[p][at[p]].page \in Pages
    BY <1>3 DEF WpCopy, VmInv, LockInv
  <2>2. content' = [content EXCEPT ![Allocated(buddy, 0)] = content[pte[p][at[p]].page]]
    BY <1>3 DEF WpCopy
  <2>3. content[pte[p][at[p]].page] \in Vals
    BY <1>1, <2>1
  <2> QED BY <1>2, <2>2, <2>3
<1>4. ASSUME NEW p \in Procs, Store(p) \/ do_no_page(p) \/ Exec(p) \/ FreePage(p)
      PROVE  \E h : \E x \in Vals : content' = [content EXCEPT ![h] = x]
  <2>1. CASE Store(p)
    BY <2>1 DEF Store
  <2>2. CASE do_no_page(p)
    BY <2>2 DEF do_no_page
  <2>3. CASE Exec(p)
    BY <2>3 DEF Exec
  <2>4. CASE FreePage(p)
    BY <1>1, <2>4 DEF FreePage
  <2> QED BY <1>4, <2>1, <2>2, <2>3, <2>4
<1>5. ASSUME NEW p \in Procs,
             \/ SegFault(p) \/ do_wp_page(p) \/ sys_brk(p) \/ Fork(p) \/ copy_pgtable(p)
             \/ ForkEnd(p) \/ Exit(p) \/ release_phypg(p) \/ ExitEnd(p) \/ ExecEnd(p)
      PROVE  content' = content
  BY <1>5 DEF SegFault, do_wp_page, sys_brk, Fork, copy_pgtable, ForkEnd, Exit,
              release_phypg, ExitEnd, ExecEnd
<1>6. CASE KernelAlloc \/ KernelFree \/ Kmalloc \/ Kfree
  <2>1. content' = content
    BY <1>6, KernelAside
  <2> QED BY <1>2, <2>1
<1>7. CASE UNCHANGED vars
  BY <1>2, <1>7 DEF vars
<1>8. CASE \E p \in Procs : ProcStep(p)
  <2>1. PICK p \in Procs : ProcStep(p)
    BY <1>8
  <2> QED BY <1>2, <1>3, <1>4, <1>5, <2>1 DEF ProcStep
<1> QED BY <1>6, <1>7, <1>8 DEF Next

(* A step of PrivateMemory, or none that it knows of.                      *)
PrivateStep == Private!Next \/ (Alive' = Alive /\ Mem' = Mem)

(* The actions of PrivateMemory under the refinement mapping.              *)
LEMMA PrivateForms ==
  ASSUME NEW p \in Procs, p \in Alive
  PROVE  /\ \A v \in VPages, x \in Vals :
               /\ Mem[p][v] = Absent /\ (v \in Text => x = FileVal)
               /\ Mem' = [Mem EXCEPT ![p][v] = x] /\ Alive' = Alive
               => PrivateStep
         /\ \A v \in VPages \ Text, x \in Vals :
               /\ Mem[p][v] # Absent
               /\ Mem' = [Mem EXCEPT ![p][v] = x] /\ Alive' = Alive
               => PrivateStep
         /\ \A c \in Procs :
               /\ c \notin Alive /\ Alive' = Alive \cup {c}
               /\ Mem' = [Mem EXCEPT ![c] = Mem[p]]
               => PrivateStep
         /\ \A x \in Vals :
               /\ Mem' = [Mem EXCEPT ![p] = [Private!Empty EXCEPT ![Stack] = x]]
               /\ Alive' = Alive
               => PrivateStep
         /\ Alive' = Alive \ {p} /\ Mem' = [Mem EXCEPT ![p] = Private!Empty] => PrivateStep
<1>1. ASSUME NEW v \in VPages, NEW x \in Vals, Mem[p][v] = Absent, v \in Text => x = FileVal,
             Mem' = [Mem EXCEPT ![p][v] = x], Alive' = Alive
      PROVE  Private!Touch(p)
  BY <1>1 DEF Private!Touch, Mem, Alive
<1>2. ASSUME NEW v \in VPages \ Text, NEW x \in Vals, Mem[p][v] # Absent,
             Mem' = [Mem EXCEPT ![p][v] = x], Alive' = Alive
      PROVE  Private!Store(p)
  BY <1>2 DEF Private!Store, Mem, Alive
<1>3. ASSUME NEW c \in Procs, c \notin Alive, Alive' = Alive \cup {c},
             Mem' = [Mem EXCEPT ![c] = Mem[p]]
      PROVE  Private!Fork(p, c)
  BY <1>3 DEF Private!Fork, Mem, Alive
<1>4. ASSUME NEW x \in Vals, Alive' = Alive,
             Mem' = [Mem EXCEPT ![p] = [Private!Empty EXCEPT ![Stack] = x]]
      PROVE  Private!Exec(p)
  BY <1>4 DEF Private!Exec, Mem, Alive
<1>5. ASSUME Alive' = Alive \ {p}, Mem' = [Mem EXCEPT ![p] = Private!Empty]
      PROVE  Private!Exit(p)
  BY <1>5 DEF Private!Exit, Mem, Alive
<1> QED BY <1>1, <1>2, <1>3, <1>4, <1>5 DEF PrivateStep, Private!Next

(* A store through an entry is a store to memory that is the process's own.*)
LEMMA PrivateStores ==
  ASSUME VmInv, ContentOk, NEW p \in Procs, Store(p)
  PROVE  PrivateStep
<1>1. PICK v \in VPages, x \in Vals :
         pte[p][v].w /\ content' = [content EXCEPT ![pte[p][v].page] = x]
  BY DEF Store
<1>2. pc[p] = "user" /\ UNCHANGED <<pc, pte, ustack>> /\ Alone(p)
  BY StepsAlone DEF Store
<1>3. PICK g : g = pte[p][v].page
  OBVIOUS
<1>4. /\ g \in Pages /\ v \notin Text
      /\ \A q \in Procs, y \in VPages : pte[q][y].page = g => q = p /\ y = v
      /\ \A q \in Procs : ustack[q] # g
  BY <1>1, <1>3, WriterAlone
<1>5. content'[g] = x /\ ContentBut(g)
  BY <1>1, <1>3, <1>4 DEF ContentOk, ContentBut
<1>6. Unseen(g, p)
  BY <1>4 DEF Unseen
<1>7. Mem' = [Mem EXCEPT ![p] = Seen(p)']
  BY <1>2, <1>5, <1>6, OnlyOne
<1>8. PICK r, d : r = pte[p] /\ d = content'
  OBVIOUS
<1>9. Seen(p) = RunView(r, content) /\ Seen(p)' = RunView(r, d)
  BY <1>2, <1>8, SeenIs DEF View, Run
<1>10. r \in [VPages -> Entries] /\ NPages \notin Pages
  BY <1>8, MappedIs DEF VmInv, VmType
<1>11. AgreeBut(r, content, r, d, v)
  <2>1. \A y \in VPages : y # v /\ r[y].page # NPages => d[r[y].page] = content[r[y].page]
    <3> SUFFICES ASSUME NEW y \in VPages, y # v, r[y].page # NPages
                 PROVE  d[r[y].page] = content[r[y].page]
      OBVIOUS
    <3>1. r[y].page \in Pages /\ r[y].page # g
      BY <1>4, <1>8, <1>10, EntryKinds
    <3> QED BY <1>5, <1>8, <3>1 DEF ContentBut
  <2>2. r[v].page # NPages
    BY <1>3, <1>4, <1>8, <1>10
  <2> QED BY <1>10, <2>1, <2>2 DEF AgreeBut
<1>12. RunView(r, d) = [RunView(r, content) EXCEPT ![v] = d[r[v].page]]
  BY <1>11, RunSet
<1>13. Seen(p)' = [Seen(p) EXCEPT ![v] = x]
  BY <1>3, <1>5, <1>8, <1>9, <1>12
<1>14. Mem' = [Mem EXCEPT ![p][v] = x]
  BY <1>7, <1>13 DEF Mem
<1>15. Mem[p][v] # Absent
  <2>1. Mem[p][v] = content[g]
    <3>1. r[v] # Unmapped
      BY <1>3, <1>4, <1>8, <1>10, EntryKinds
    <3>2. RunView(r, content)[v] = content[r[v].page]
      BY <3>1 DEF RunView
    <3> QED BY <1>3, <1>8, <1>9, <3>2 DEF Mem
  <2> QED BY <1>4, <2>1, VmAssumption DEF ContentOk
<1>16. p \in Alive /\ Alive' = Alive
  BY <1>2 DEF Alive
<1> QED BY <1>4, <1>14, <1>15, <1>16, PrivateForms

(* do_no_page(): the first touch of a page.                                *)
LEMMA PrivateTouches ==
  ASSUME VmInv, ContentOk, NEW p \in Procs, do_no_page(p), VmType'
  PROVE  PrivateStep
<1>1. VmType /\ 0 \in Orders /\ NPages \notin Pages
  BY PhysAssumption, MappedIs DEF VmInv, Orders
<1>2. PICK v \in VPages, write \in BOOLEAN, x \in Vals :
         /\ ~Mapped(p, v) /\ (v \in Text => x = FileVal)
         /\ pte' = [pte EXCEPT ![p][v] = [page |-> Allocated(buddy, 0), w |-> write]]
         /\ content' = [content EXCEPT ![Allocated(buddy, 0)] = x]
  BY DEF do_no_page
<1>3. HasBlock(buddy, 0) /\ pc[p] = "user" /\ UNCHANGED <<pc, ustack>> /\ Alone(p)
  BY StepsAlone DEF do_no_page
<1>4. PICK h \in Pages :
         /\ h = Allocated(buddy, 0)
         /\ \A q \in Procs, y \in VPages : pte[q][y].page # h
         /\ \A q \in Procs : ustack[q] # h
  BY <1>1, <1>3, Fresh
<1>5. content'[h] = x /\ ContentBut(h) /\ Unseen(h, p)
  BY <1>2, <1>4 DEF ContentOk, ContentBut, Unseen
<1>6. Mem' = [Mem EXCEPT ![p] = Seen(p)']
  BY <1>3, <1>5, OnlyOne
<1>7. PICK r, s, d : r = pte[p] /\ s = pte'[p] /\ d = content'
  OBVIOUS
<1>8. Seen(p) = RunView(r, content) /\ Seen(p)' = RunView(s, d)
  BY <1>3, <1>7, SeenIs DEF View, Run
<1>9. r \in [VPages -> Entries] /\ s \in [VPages -> Entries]
  BY <1>1, <1>7 DEF VmType
<1>10. s[v].page = h /\ \A y \in VPages : y # v => s[y] = r[y]
  <2>1. PICK e : e = [page |-> h, w |-> write]
    OBVIOUS
  <2>2. s = [r EXCEPT ![v] = e]
    BY <1>1, <1>2, <1>4, <1>7, <2>1 DEF VmType
  <2> QED BY <1>9, <2>1, <2>2
<1>11. AgreeBut(r, content, s, d, v)
  <2>1. \A y \in VPages : y # v /\ r[y].page # NPages => d[s[y].page] = content[r[y].page]
    <3> SUFFICES ASSUME NEW y \in VPages, y # v, r[y].page # NPages
                 PROVE  d[s[y].page] = content[r[y].page]
      OBVIOUS
    <3>1. r[y].page \in Pages /\ r[y].page # h /\ s[y] = r[y]
      BY <1>4, <1>7, <1>9, <1>10, EntryKinds
    <3> QED BY <1>5, <1>7, <3>1 DEF ContentBut
  <2>2. s[v].page # NPages /\ \A y \in VPages : y # v => s[y].page = r[y].page
    BY <1>1, <1>10
  <2> QED BY <1>9, <2>1, <2>2 DEF AgreeBut
<1>12. RunView(s, d) = [RunView(r, content) EXCEPT ![v] = d[s[v].page]]
  BY <1>11, RunSet
<1>13. Seen(p)' = [Seen(p) EXCEPT ![v] = x]
  BY <1>5, <1>7, <1>8, <1>10, <1>12
<1>14. Mem' = [Mem EXCEPT ![p][v] = x]
  BY <1>6, <1>13 DEF Mem
<1>15. Mem[p][v] = Absent
  <2>1. r[v] = Unmapped
    BY <1>2, <1>7 DEF Mapped
  <2>2. RunView(r, content)[v] = Absent
    BY <2>1 DEF RunView
  <2> QED BY <1>8, <2>2 DEF Mem
<1>16. p \in Alive /\ Alive' = Alive
  BY <1>3 DEF Alive
<1> QED BY <1>2, <1>14, <1>15, <1>16, PrivateForms

(* do_wp_page(), the copy: the process sees the copy where it saw the page.*)
LEMMA PrivateCopies ==
  ASSUME VmInv, ContentOk, NEW p \in Procs, WpCopy(p), VmType'
  PROVE  PrivateStep
<1>1. VmType /\ 0 \in Orders /\ NPages \notin Pages
  BY PhysAssumption, MappedIs DEF VmInv, Orders
<1>2. PICK v \in VPages : v = at[p]
  BY <1>1 DEF VmType
<1>3. PICK old \in Pages : old = pte[p][v].page
  BY <1>2 DEF VmInv, LockInv, WpCopy
<1>4. /\ HasBlock(buddy, 0) /\ pc[p] = "copy" /\ pc'[p] = "user" /\ ustack' = ustack
      /\ pte' = [pte EXCEPT ![p][v] = [page |-> Allocated(buddy, 0), w |-> v \notin Text]]
      /\ content' = [content EXCEPT ![Allocated(buddy, 0)] = content[old]]
  BY <1>1, <1>2, <1>3 DEF WpCopy, Goto, VmType
<1>5. PICK h \in Pages :
         /\ h = Allocated(buddy, 0)
         /\ \A q \in Procs, y \in VPages : pte[q][y].page # h
         /\ \A q \in Procs : ustack[q] # h
  <2>1. HasBlock(buddy, 0)
    BY <1>4
  <2>2. PICK h : h = Allocated(buddy, 0)
    OBVIOUS
  <2>3. h \in Pages /\ buddy.count[h] = 0
    BY <1>1, <2>1, <2>2, Fresh
  <2>5. \A q \in Procs, y \in VPages : pte[q][y].page # h
    BY <2>3, PageFacts
  <2>4. \A q \in Procs : freeing[q] # h /\ ustack[q] # h
    BY <1>1, <2>1, <2>2, Fresh
  <2> QED BY <2>2, <2>3, <2>4, <2>5
<1>6. content'[h] = content[old] /\ ContentBut(h) /\ Unseen(h, p)
  BY <1>4, <1>5 DEF ContentOk, ContentBut, Unseen
<1>7. Alone(p)
  BY StepsAlone
<1>8. Mem' = [Mem EXCEPT ![p] = Seen(p)']
  BY <1>6, <1>7, OnlyOne
<1>9. PICK r, s, d : r = pte[p] /\ s = pte'[p] /\ d = content'
  OBVIOUS
<1>10. Seen(p) = RunView(r, content) /\ Seen(p)' = RunView(s, d)
  BY <1>4, <1>9, SeenIs DEF View, Run
<1>11. r \in [VPages -> Entries] /\ s \in [VPages -> Entries]
  BY <1>1, <1>9 DEF VmType
<1>12. s[v].page = h /\ \A y \in VPages : y # v => s[y] = r[y]
  <2>1. PICK e : e = [page |-> h, w |-> v \notin Text]
    OBVIOUS
  <2>2. s = [r EXCEPT ![v] = e]
    BY <1>1, <1>4, <1>5, <1>9, <2>1 DEF VmType
  <2> QED BY <1>11, <2>1, <2>2
<1>13. Agree(r, content, s, d)
  <2> SUFFICES ASSUME NEW y \in VPages
               PROVE  /\ r[y].page = NPages <=> s[y].page = NPages
                      /\ r[y].page # NPages => d[s[y].page] = content[r[y].page]
    BY <1>11 DEF Agree
  <2>1. CASE y = v
    BY <1>1, <1>3, <1>6, <1>9, <1>12, <2>1
  <2>2. CASE y # v
    <3>1. r[y].page # NPages => r[y].page \in Pages /\ r[y].page # h
      BY <1>5, <1>9, <1>11, EntryKinds
    <3> QED BY <1>6, <1>9, <1>12, <2>2, <3>1 DEF ContentBut
  <2> QED BY <2>1, <2>2
<1>14. Seen(p)' = Seen(p)
  BY <1>10, <1>13, RunSame
<1>15. Mem' = Mem
  BY <1>8, <1>14 DEF Mem
<1>16. Alive' = Alive
  BY <1>4, <1>7 DEF Alive, Alone
<1> QED BY <1>15, <1>16 DEF PrivateStep

(* execve(): from here on the process sees its new stack and nothing else. *)
LEMMA PrivateExecs ==
  ASSUME VmInv, ContentOk, NEW p \in Procs, Exec(p), VmType'
  PROVE  PrivateStep
<1>1. VmType /\ 0 \in Orders
  BY PhysAssumption DEF VmInv, Orders
<1>2. PICK x \in Vals : content' = [content EXCEPT ![Allocated(buddy, 0)] = x]
  BY DEF Exec
<1>3. /\ HasBlock(buddy, 0) /\ pc[p] = "user" /\ pc'[p] = "exec"
      /\ ustack'[p] = Allocated(buddy, 0)
  BY <1>1 DEF Exec, Goto, VmType
<1>4. PICK h \in Pages :
         /\ h = Allocated(buddy, 0)
         /\ \A q \in Procs, y \in VPages : pte[q][y].page # h
         /\ \A q \in Procs : ustack[q] # h
  BY <1>1, <1>3, Fresh
<1>5. content'[h] = x /\ ContentBut(h) /\ Unseen(h, p)
  BY <1>2, <1>4 DEF ContentOk, ContentBut, Unseen
<1>6. Alone(p)
  BY StepsAlone
<1>7. Mem' = [Mem EXCEPT ![p] = Seen(p)']
  BY <1>5, <1>6, OnlyOne
<1>8. Seen(p)' = [Private!Empty EXCEPT ![Stack] = x]
  BY <1>3, <1>4, <1>5, SeenIs DEF View, Run
<1>9. p \in Alive /\ Alive' = Alive
  BY <1>3, <1>6 DEF Alive, Alone
<1> QED BY <1>7, <1>8, <1>9, PrivateForms

(* exit(), and a process killed for what it touched.                       *)
LEMMA PrivateExits ==
  ASSUME VmInv, NEW p \in Procs, Exit(p) \/ SegFault(p)
  PROVE  PrivateStep
<1>1. pc[p] = "user" /\ pc'[p] = "exit" /\ content' = content /\ Alone(p)
  <2>1. pc[p] = "user" /\ pc'[p] = "exit" /\ content' = content
    BY DEF Exit, SegFault, Goto, VmInv, VmType
  <2> QED BY <2>1, StepsAlone
<1>2. \A q \in Procs : q # p => Seen(q)' = Seen(q)
  <2> SUFFICES ASSUME NEW q \in Procs, q # p PROVE Seen(q)' = Seen(q)
    OBVIOUS
  <2>1. pc'[q] = pc[q] /\ pte'[q] = pte[q] /\ ustack'[q] = ustack[q]
    BY <1>1 DEF Alone
  <2> QED BY <1>1, <2>1, SeenElse
<1>3. Seen(p)' = Private!Empty
  BY <1>1, SeenIs DEF View, Run
<1>4. Mem' = [Mem EXCEPT ![p] = Private!Empty]
  BY <1>2, <1>3 DEF Mem
<1>5. p \in Alive /\ Alive' = Alive \ {p}
  BY <1>1 DEF Alive, Alone
<1> QED BY <1>4, <1>5, PrivateForms

(* fork() has copied every entry: the child sees what the parent sees.     *)
LEMMA PrivateForks ==
  ASSUME VmInv, NEW p \in Procs, ForkEnd(p)
  PROVE  PrivateStep
<1>1. PICK c \in Procs : c = child[p] /\ pc[c] = "initing"
  BY DEF VmInv, ForkInv, ForkEnd
<1>2. /\ pc[p] = "fork" /\ todo[p] = {} /\ p # c
      /\ pc' = [pc EXCEPT ![p] = "user", ![c] = "user"]
      /\ UNCHANGED <<content, pte, ustack>>
  BY <1>1 DEF ForkEnd
<1>3. /\ pc'[p] = "user" /\ pc'[c] = "user"
      /\ \A q \in Procs : q # p /\ q # c => pc'[q] = pc[q]
  BY <1>2 DEF VmInv, VmType
<1>4. \A q \in Procs : q # p /\ q # c => Seen(q)' = Seen(q)
  BY <1>2, <1>3, SeenElse
<1>5. PICK r, s : r = pte[p] /\ s = pte[c]
  OBVIOUS
<1>6. /\ Seen(p) = RunView(r, content) /\ Seen(p)' = RunView(r, content)
      /\ Seen(c)' = RunView(s, content)
  <2>1. Seen(p) = RunView(r, content)
    BY <1>2, <1>5, SeenIs DEF View, Run
  <2>2. Seen(p)' = RunView(r, content)
    BY <1>2, <1>3, <1>5, SeenIs DEF View, Run
  <2>3. Seen(c)' = RunView(s, content)
    BY <1>2, <1>3, <1>5, SeenIs DEF View, Run
  <2> QED BY <2>1, <2>2, <2>3
<1>7. Agree(r, content, s, content)
  <2>1. \A v \in VPages : s[v].page = r[v].page
    BY <1>1, <1>2, <1>5 DEF VmInv, ForkInv
  <2>2. r \in [VPages -> Entries] /\ s \in [VPages -> Entries]
    BY <1>5 DEF VmInv, VmType
  <2> QED BY <2>1, <2>2 DEF Agree
<1>8. Seen(p)' = Seen(p) /\ Seen(c)' = Seen(p)
  BY <1>6, <1>7, RunSame
<1>9. Mem' = [Mem EXCEPT ![c] = Mem[p]]
  BY <1>4, <1>8 DEF Mem
<1>10. p \in Alive /\ c \notin Alive /\ Alive' = Alive \cup {c}
  BY <1>1, <1>2, <1>3 DEF Alive
<1> QED BY <1>9, <1>10, PrivateForms

(* What a process does to its page table without changing what it sees:    *)
(* do_wp_page() and copy_pgtable() of its own entries, release_phypg() and *)
(* the end of execve() of what it sees no more.                            *)
LEMMA PrivateQuiet ==
  ASSUME VmInv, VmType', NEW p \in Procs,
         \/ do_wp_page(p) \/ copy_pgtable(p) \/ sys_brk(p) \/ Fork(p)
         \/ release_phypg(p) \/ FreePage(p) \/ ExitEnd(p) \/ ExecEnd(p)
  PROVE  PrivateStep
<1>1. VmType /\ NPages \notin Pages /\ PageNos = Pages \cup {NPages} /\ Stack \in VPages
  BY MappedIs, VmAssumption DEF VmInv
<1>2. ASSUME \A q \in Procs : Seen(q)' = Seen(q), Alive' = Alive PROVE PrivateStep
  BY <1>2 DEF PrivateStep, Mem
<1>3. ASSUME Alone(p), content' = content, Seen(p)' = Seen(p), p \in Alive' <=> p \in Alive
      PROVE  PrivateStep
  <2>1. \A q \in Procs : q # p => Seen(q)' = Seen(q)
    <3> SUFFICES ASSUME NEW q \in Procs, q # p PROVE Seen(q)' = Seen(q)
      OBVIOUS
    <3>1. pc'[q] = pc[q] /\ pte'[q] = pte[q] /\ ustack'[q] = ustack[q]
      BY <1>3 DEF Alone
    <3> QED BY <1>3, <3>1, SeenElse
  <2>2. Alive' = Alive
    BY <1>3 DEF Alive, Alone
  <2> QED BY <1>2, <1>3, <2>1, <2>2
<1>4. PICK r, s : r = pte[p] /\ s = pte'[p]
  OBVIOUS
<1>5. r \in [VPages -> Entries] /\ s \in [VPages -> Entries]
  BY <1>1, <1>4 DEF VmType
<1>6. CASE do_wp_page(p)
  <2>1. Alone(p) /\ content' = content /\ pc[p] = "user" /\ pc'[p] \in {"user", "copy"}
    <3>1. content' = content /\ pc[p] = "user" /\ pc'[p] \in {"user", "copy"}
      BY <1>1, <1>6 DEF do_wp_page, Goto, VmType
    <3> QED BY <1>6, <3>1, StepsAlone
  <2>2. \A y \in VPages : s[y].page = r[y].page
    <3>1. PICK v \in VPages : pte' = pte \/ pte' = [pte EXCEPT ![p][v].w = v \notin Text]
      BY <1>6 DEF do_wp_page
    <3>2. CASE pte' = pte
      BY <1>4, <3>2
    <3>3. CASE pte' = [pte EXCEPT ![p][v].w = v \notin Text]
      <4>1. PICK e : e = [r[v] EXCEPT !.w = v \notin Text]
        OBVIOUS
      <4>2. e.page = r[v].page
        BY <1>5, <4>1 DEF Entries
      <4>3. s = [r EXCEPT ![v] = e]
        BY <1>1, <1>4, <3>3, <4>1 DEF VmType
      <4> QED BY <1>5, <4>2, <4>3
    <3> QED BY <3>1, <3>2, <3>3
  <2>3. Seen(p) = RunView(r, content) /\ Seen(p)' = RunView(s, content)
    <3>1. Seen(p) = RunView(r, content)
      BY <1>4, <2>1, SeenIs DEF View, Run
    <3>2. Seen(p)' = RunView(s, content)
      BY <1>4, <2>1, SeenIs DEF View, Run
    <3> QED BY <3>1, <3>2
  <2>4. Agree(r, content, s, content)
    BY <1>5, <2>2 DEF Agree
  <2>5. Seen(p)' = Seen(p)
    BY <2>3, <2>4, RunSame
  <2>6. p \in Alive' <=> p \in Alive
    BY <2>1 DEF Alive
  <2> QED BY <1>3, <2>1, <2>5, <2>6
<1>7. CASE sys_brk(p)
  <2>1. UNCHANGED <<content, pte, pc, ustack>>
    BY <1>7 DEF sys_brk
  <2>2. \A q \in Procs : Seen(q)' = Seen(q)
    BY <2>1, SeenElse
  <2> QED BY <1>2, <2>1, <2>2 DEF Alive
<1>8. CASE Fork(p)
  <2>1. PICK c \in Procs : /\ pc[c] = "unused" /\ pc[p] = "user"
                           /\ pc' = [pc EXCEPT ![p] = "fork", ![c] = "initing"]
                           /\ UNCHANGED <<content, pte, ustack>>
    BY <1>8 DEF Fork
  <2>2. /\ p # c /\ pc'[p] = "fork" /\ pc'[c] = "initing"
        /\ \A q \in Procs : q # p /\ q # c => pc'[q] = pc[q]
    BY <1>1, <2>1 DEF VmType
  <2>3. \A q \in Procs : q # p /\ q # c => Seen(q)' = Seen(q)
    BY <2>1, <2>2, SeenElse
  <2>4. Seen(p)' = Seen(p)
    <3>1. Seen(p) = RunView(r, content)
      BY <1>4, <2>1, SeenIs DEF View, Run
    <3>2. Seen(p)' = RunView(r, content)
      BY <1>4, <2>1, <2>2, SeenIs DEF View, Run
    <3> QED BY <3>1, <3>2
  <2>5. Seen(c)' = Seen(c)
    <3>1. Seen(c) = Private!Empty
      BY <2>1, SeenIs DEF View, Run
    <3>2. Seen(c)' = Private!Empty
      BY <2>2, SeenIs DEF View, Run
    <3> QED BY <3>1, <3>2
  <2>6. Alive' = Alive
    BY <2>1, <2>2 DEF Alive
  <2> QED BY <1>2, <2>3, <2>4, <2>5, <2>6
<1>9. CASE copy_pgtable(p)
  <2> DEFINE v == Min(todo[p])
             g == pte[p][v].page
  <2>1. PICK c \in Procs : c = child[p] /\ pc[c] = "initing"
    BY <1>9 DEF copy_pgtable, VmInv, ForkInv
  <2>2. /\ pc[p] = "fork" /\ todo[p] # {} /\ UNCHANGED <<content, pc, ustack>>
        /\ \/ pte' = [pte EXCEPT ![p][v].w = FALSE, ![c][v] = [page |-> g, w |-> FALSE]]
           \/ pte' = pte
    BY <1>9, <2>1 DEF copy_pgtable
  <2>3. v \in VPages
    BY <1>1, <2>2, LeastTodo
  <2>4. p # c
    BY <2>1, <2>2
  <2> HIDE DEF v, g
  <2>5. \A q \in Procs : q # p /\ q # c => pte'[q] = pte[q]
    BY <1>1, <2>2 DEF VmType
  <2>6. \A q \in Procs : q # p /\ q # c => Seen(q)' = Seen(q)
    BY <2>2, <2>5, SeenElse
  <2>7. \A y \in VPages : s[y].page = r[y].page
    <3>1. CASE pte' = pte
      BY <1>4, <3>1
    <3>2. CASE pte' = [pte EXCEPT ![p][v].w = FALSE, ![c][v] = [page |-> g, w |-> FALSE]]
      <4>1. PICK e : e = [r[v] EXCEPT !.w = FALSE]
        OBVIOUS
      <4>2. e.page = r[v].page
        BY <1>5, <2>3, <4>1 DEF Entries
      <4>3. s = [r EXCEPT ![v] = e]
        BY <1>1, <1>4, <2>4, <3>2, <4>1 DEF VmType
      <4> QED BY <1>5, <2>3, <4>2, <4>3
    <3> QED BY <2>2, <3>1, <3>2
  <2>8. Seen(p)' = Seen(p)
    <3>1. Seen(p) = RunView(r, content)
      BY <1>4, <2>2, SeenIs DEF View, Run
    <3>2. Seen(p)' = RunView(s, content)
      BY <1>4, <2>2, SeenIs DEF View, Run
    <3>3. Agree(r, content, s, content)
      BY <1>5, <2>7 DEF Agree
    <3> QED BY <3>1, <3>2, <3>3, RunSame
  <2>9. Seen(c)' = Seen(c)
    <3>1. Seen(c) = Private!Empty
      BY <2>1, SeenIs DEF View, Run
    <3>2. Seen(c)' = Private!Empty
      BY <2>1, <2>2, SeenIs DEF View, Run
    <3> QED BY <3>1, <3>2
  <2>10. Alive' = Alive
    BY <2>2 DEF Alive
  <2> QED BY <1>2, <2>6, <2>8, <2>9, <2>10
<1>10. CASE release_phypg(p)
  <2>1. UNCHANGED <<content, pc, ustack>> /\ pc[p] \in {"exit", "exec"}
    BY <1>10 DEF release_phypg, Leaving
  <2>2. Alone(p)
    BY <1>10, StepsAlone
  <2>3. Seen(p)' = Seen(p)
    BY <2>1, SeenIs DEF View, Run
  <2> QED BY <1>3, <2>1, <2>2, <2>3 DEF Alive
<1>11. CASE FreePage(p)
  <2>1. UNCHANGED <<pc, pte, ustack>>
    BY <1>11 DEF FreePage
  <2>2. PICK h \in Pages : h = freeing[p]
    BY <1>1, <1>11 DEF FreePage, VmType
  <2>3. \A x \in Pages : x # h => content'[x] = content[x]
    BY <1>11, <2>2 DEF FreePage
  <2>4. \A q \in Procs : ustack[q] # h /\ \A v \in VPages : pte[q][v].page # h
    BY <2>2, PageFacts
  <2>5. \A q \in Procs : Seen(q)' = Seen(q)
    <3> SUFFICES ASSUME NEW q \in Procs PROVE Seen(q)' = Seen(q)
      OBVIOUS
    <3>1. \A x \in Pages : \/ content'[x] = content[x]
                           \/ ustack[q] # x /\ \A v \in VPages : pte[q][v].page # x
      BY <2>3, <2>4
    <3> QED BY <2>1, <3>1, SeenElse
  <2> QED BY <1>2, <2>1, <2>5 DEF Alive
<1>12. CASE ExitEnd(p)
  <2>1. content' = content /\ pc[p] = "exit" /\ pc'[p] = "unused" /\ Alone(p)
    <3>1. content' = content /\ pc[p] = "exit" /\ pc'[p] = "unused"
      BY <1>1, <1>12 DEF ExitEnd, Goto, VmType
    <3> QED BY <1>12, <3>1, StepsAlone
  <2>2. Seen(p)' = Seen(p)
    <3>1. Seen(p) = Private!Empty
      BY <2>1, SeenIs DEF View, Run
    <3>2. Seen(p)' = Private!Empty
      BY <2>1, SeenIs DEF View, Run
    <3> QED BY <3>1, <3>2
  <2>3. p \in Alive' <=> p \in Alive
    BY <2>1 DEF Alive
  <2> QED BY <1>3, <2>1, <2>2, <2>3
<1>13. CASE ExecEnd(p)
  <2>1. content' = content /\ pc[p] = "exec" /\ pc'[p] = "user" /\ Alone(p)
    <3>1. content' = content /\ pc[p] = "exec" /\ pc'[p] = "user"
      BY <1>1, <1>13 DEF ExecEnd, Goto, VmType
    <3> QED BY <1>13, <3>1, StepsAlone
  <2>2. PICK h \in Pages : h = ustack[p]
    BY <1>1, <2>1 DEF VmInv, TablesInv, VmType
  <2>3. PICK e : e = [page |-> h, w |-> TRUE]
    OBVIOUS
  <2>4. s = [NoMap EXCEPT ![Stack] = e]
    BY <1>1, <1>4, <1>13, <2>2, <2>3 DEF ExecEnd, VmType
  <2>5. s[Stack] = e /\ \A y \in VPages : y # Stack => s[y] = Unmapped
    BY <1>1, <2>4 DEF NoMap
  <2>6. e # Unmapped /\ e.page = h
    BY <1>1, <2>3 DEF Unmapped
  <2> HIDE DEF Unmapped
  <2>7. RunView(s, content) = [Private!Empty EXCEPT ![Stack] = content[h]]
    BY <2>5, <2>6 DEF RunView, Private!Empty
  <2>8. Seen(p) = [Private!Empty EXCEPT ![Stack] = content[h]]
    BY <2>1, <2>2, SeenIs DEF View, Run
  <2>9. Seen(p)' = RunView(s, content)
    BY <1>4, <2>1, SeenIs DEF View, Run
  <2>10. p \in Alive' <=> p \in Alive
    BY <2>1 DEF Alive
  <2> QED BY <1>3, <2>1, <2>7, <2>8, <2>9, <2>10
<1> QED BY <1>6, <1>7, <1>8, <1>9, <1>10, <1>11, <1>12, <1>13

(* Every step is one of PrivateMemory or leaves what the processes see as  *)
(* it was.                                                                 *)
LEMMA PrivateNext ==
  ASSUME VmInv, ContentOk, [Next]_vars
  PROVE  PrivateStep
<1>1. ASSUME UNCHANGED <<content, pte, pc, ustack>> PROVE PrivateStep
  <2>1. \A q \in Procs : Seen(q)' = Seen(q)
    BY <1>1, SeenElse
  <2>2. Alive' = Alive
    BY <1>1 DEF Alive
  <2> QED BY <2>1, <2>2 DEF PrivateStep, Mem
<1>2. CASE UNCHANGED vars
  BY <1>1, <1>2 DEF vars
<1>3. CASE KernelAlloc \/ KernelFree \/ Kmalloc \/ Kfree
  BY <1>1, <1>3, KernelAside
<1>4. CASE \E p \in Procs : ProcStep(p)
  <2>1. PICK p \in Procs : ProcStep(p)
    BY <1>4
  <2>2. VmType'
    BY <1>4, TypeNext DEF Next
  <2>3. CASE Store(p) \/ do_no_page(p)
    BY <2>2, <2>3, PrivateStores, PrivateTouches
  <2>4. CASE WpCopy(p) \/ Exec(p)
    BY <2>2, <2>4, PrivateCopies, PrivateExecs
  <2>5. CASE SegFault(p) \/ Exit(p) \/ ForkEnd(p)
    BY <2>5, PrivateExits, PrivateForks
  <2>6. CASE \/ do_wp_page(p) \/ copy_pgtable(p) \/ sys_brk(p) \/ Fork(p)
             \/ release_phypg(p) \/ FreePage(p) \/ ExitEnd(p) \/ ExecEnd(p)
    BY <2>2, <2>6, PrivateQuiet
  <2> QED BY <2>1, <2>3, <2>4, <2>5, <2>6 DEF ProcStep
<1> QED BY <1>2, <1>3, <1>4 DEF Next

(* At boot one process runs and sees no page.                              *)
LEMMA PrivateInit == Init => Private!Init /\ ContentOk
<1> SUFFICES ASSUME Init PROVE Private!Init /\ ContentOk
  OBVIOUS
<1>1. PICK r \in Procs : pc = [q \in Procs |-> IF q = r THEN "user" ELSE "unused"]
  BY DEF Init
<1>2. \A p \in Procs : Seen(p) = Private!Empty
  <2> SUFFICES ASSUME NEW p \in Procs PROVE Seen(p) = Private!Empty
    OBVIOUS
  <2>1. pc[p] \in {"user", "unused"} /\ pte[p] = NoMap
    BY <1>1 DEF Init
  <2>2. RunView(NoMap, content) = Private!Empty
    BY DEF RunView, NoMap, Private!Empty
  <2>3. Seen(p) = View(pc[p], NoMap, content, ustack[p])
    BY <2>1, SeenIs
  <2> QED BY <2>1, <2>2, <2>3 DEF View, Run
<1>3. Mem = [p \in Procs |-> Private!Empty]
  BY <1>2 DEF Mem
<1>4. Alive = {r}
  BY <1>1 DEF Alive
<1>5. ContentOk
  BY VmAssumption DEF Init, ContentOk
<1> QED BY <1>3, <1>4, <1>5 DEF Private!Init, Mem, Alive

(* Copy-on-write is invisible: with pages loaded at the first touch,       *)
(* shared by fork(), copied by the fault of a store while others copy or   *)
(* release them, every process still has memory of its own.                *)
THEOREM VmImplementsPrivateMemory == Spec => ImplementsPrivateMemory
<1>1. VmInv /\ ContentOk /\ [Next]_vars => ContentOk'
  BY ContentNext
<1>2. VmInv /\ ContentOk /\ [Next]_vars => [Private!Next]_(Private!vars)
  BY PrivateNext DEF PrivateStep, Mem, Alive, Private!vars
<1>3. Init => Private!Init /\ ContentOk
  BY PrivateInit
<1> QED BY <1>1, <1>2, <1>3, VmInvariant, PTL DEF Spec, ImplementsPrivateMemory, Private!Spec
-----------------------------------------------------------------------------
(* The slub allocator                                                      *)

(* Offset x is that of an object of cache i, inside the page.              *)
IsSlot(i, x) == /\ \E j \in Nat : x = NodeSize + j * slub_size[i]
                /\ x + slub_size[i] <= PGSIZE

(* What the allocator s keeps, with the live objects O: the lists name     *)
(* nothing twice, a partial list has pages of its cache with room, the     *)
(* free objects of a page are slots of its cache, and so are the live ones,*)
(* each at a place of its own that no free list has.                       *)
SlubShape(s) ==
    /\ DOMAIN s = {"partial", "full", "obj_freelist", "linked"}
    /\ s.partial \in [Caches -> Seq(Pages)]
    /\ s.obj_freelist \in [Pages -> Seq(Nat)]
    /\ s.linked \in [Pages -> Caches \cup {0}]
PartialOk(s) ==
    \A i \in Caches :
       /\ Once(s.partial[i])
       /\ \A g \in Pages : OnList(s.partial[i], g) =>
             s.linked[g] = i /\ s.obj_freelist[g] # <<>>
FreeOk(s) ==
    \A g \in Pages :
       /\ Once(s.obj_freelist[g])
       /\ s.linked[g] # 0 =>
             \A x : OnList(s.obj_freelist[g], x) => IsSlot(s.linked[g], x)
LiveOk(s, O) ==
    /\ \A o \in O :
          /\ o[1] \in Pages /\ s.linked[o[1]] \in Caches
          /\ IsSlot(s.linked[o[1]], o[2])
          /\ o[3] \in 1 .. slub_size[s.linked[o[1]]]
          /\ ~OnList(s.obj_freelist[o[1]], o[2])
    /\ \A o, q \in O : o[1] = q[1] /\ o[2] = q[2] => o = q
SlubInv(s, O) == SlubShape(s) /\ PartialOk(s) /\ FreeOk(s) /\ LiveOk(s, O)

(* The caches' objects have a size.                                        *)
LEMMA CacheSize ==
  ASSUME NEW i \in Caches
  PROVE  slub_size[i] \in Nat \ {0} /\ NodeSize + slub_size[i] < PGSIZE /\ i \in Nat /\ i # 0
BY PhysAssumption DEF Caches

(* Two objects of a cache that share a byte are at the same place.         *)
LEMMA SlotsApart ==
  ASSUME NEW i \in Caches, NEW x, NEW y, IsSlot(i, x), IsSlot(i, y),
         x <= y, y < x + slub_size[i]
  PROVE  x = y
<1>1. slub_size[i] \in Nat /\ slub_size[i] > 0 /\ NodeSize \in Nat
  BY CacheSize, PhysAssumption
<1>2. PICK j \in Nat : x = NodeSize + j * slub_size[i]
  BY DEF IsSlot
<1>3. PICK k \in Nat : y = NodeSize + k * slub_size[i]
  BY DEF IsSlot
<1>4. PICK z \in Nat : z = slub_size[i]
  BY <1>1
<1>5. j * z <= k * z /\ k * z < j * z + z /\ z \in Nat \ {0}
  <2>1. j * z \in Nat /\ k * z \in Nat
    BY <1>4
  <2> QED BY <1>1, <1>2, <1>3, <1>4, <2>1
<1>6. (j + 1) * z = j * z + z /\ (k + 1) * z = k * z + z
  BY <1>5, Multiples
<1>7. j <= k
  BY <1>5, <1>6, Multiples
<1>8. k <= j
  BY <1>5, <1>6, Multiples
<1> QED BY <1>2, <1>3, <1>7, <1>8

(* new_slub_pages_node(): a page has room for objects, all in the page.    *)
LEMMA ObjectsAre ==
  ASSUME NEW i \in Caches
  PROVE  /\ ObjectsOf(i) \in Seq(Nat) /\ ObjectsOf(i) # <<>> /\ Once(ObjectsOf(i))
         /\ \A x : OnList(ObjectsOf(i), x) => IsSlot(i, x)
<1> DEFINE D == {j \in 1 .. PGSIZE : NodeSize + j * slub_size[i] < PGSIZE}
           n == Cardinality(D)
           s == ObjectsOf(i)
<1>1. PICK z \in Nat \ {0} : z = slub_size[i] /\ NodeSize + z < PGSIZE
  BY CacheSize
<1>2. PGSIZE \in Nat /\ NodeSize \in Nat
  BY PhysAssumption
<1>3. D = {j \in 1 .. PGSIZE : NodeSize + j * z < PGSIZE}
  BY <1>1
<1>4. 1 \in D /\ D \in SUBSET Nat /\ \A j \in D : j <= PGSIZE
  BY <1>1, <1>2, <1>3
<1>5. \A j, k \in Nat \ {0} : j <= k /\ k \in D => j \in D
  <2> SUFFICES ASSUME NEW j \in Nat \ {0}, NEW k \in D, j <= k PROVE j \in D
    OBVIOUS
  <2>1. k \in 1 .. PGSIZE /\ NodeSize + k * z < PGSIZE
    BY <1>3
  <2>2. j * z <= k * z /\ j * z \in Nat /\ k * z \in Nat
    <3>1. PICK m \in Nat : k = j + m
      <4>1. k - j \in Nat
        BY <2>1
      <4> QED BY <2>1, <4>1
    <3>2. k * z = j * z + m * z /\ m * z \in Nat /\ j * z \in Nat
      BY <3>1
    <3> QED BY <3>2
  <2> QED BY <1>2, <1>3, <2>1, <2>2
<1> HIDE DEF D
<1>6. PICK m \in D : \A j \in D : j <= m
  BY <1>2, <1>4, MaxOf
<1>7. D = 1 .. m /\ m \in Nat \ {0} /\ NodeSize + m * z < PGSIZE
  <2>1. m \in 1 .. PGSIZE /\ NodeSize + m * z < PGSIZE
    BY <1>3, <1>6
  <2>2. \A j \in D : j \in 1 .. m
    BY <1>3, <1>6
  <2>3. \A j \in 1 .. m : j \in D
    <3> SUFFICES ASSUME NEW j \in 1 .. m PROVE j \in D
      OBVIOUS
    <3>1. j \in Nat \ {0} /\ j <= m /\ m \in Nat \ {0} /\ m \in D
      BY <1>2, <1>6, <2>1
    <3> QED BY <1>5, <3>1
  <2>4. D = 1 .. m
    BY <2>2, <2>3
  <2> QED BY <2>1, <2>4, <1>2
<1>8. n = m
  BY <1>7, FS_Interval
<1>9. s = [j \in 1 .. m |-> NodeSize + (m - j) * z]
  BY <1>1, <1>8 DEF ObjectsOf, D
<1> HIDE DEF s, n
<1>10. ASSUME NEW j \in 1 .. m
       PROVE  s[j] \in Nat /\ IsSlot(i, s[j]) /\ m - j \in Nat /\ s[j] = NodeSize + (m - j) * z
  <2>1. PICK k \in Nat : k = m - j /\ k < m
    BY <1>7, <1>10
  <2>2. s[j] = NodeSize + k * z /\ k * z \in Nat
    BY <1>9, <2>1
  <2>3. (k + 1) * z = k * z + z /\ (k + 1) * z <= m * z
    <3>1. PICK l \in Nat : m = (k + 1) + l
      <4>1. m - (k + 1) \in Nat
        BY <1>7, <2>1
      <4> QED BY <1>7, <2>1, <4>1
    <3>2. m * z = (k + 1) * z + l * z /\ l * z \in Nat /\ (k + 1) * z = k * z + z
      BY <3>1
    <3> QED BY <2>2, <3>2
  <2>4. s[j] + z <= PGSIZE
    <3>1. m * z \in Nat
      BY <1>7
    <3> QED BY <1>2, <1>7, <2>2, <2>3, <3>1
  <2>5. IsSlot(i, s[j])
    BY <1>1, <2>1, <2>2, <2>4 DEF IsSlot
  <2> QED BY <1>2, <2>1, <2>2, <2>5
<1>11. Once(s)
  <2>1. ASSUME NEW j \in 1 .. m, NEW k \in 1 .. m, s[j] = s[k] PROVE j = k
    <3>1. PICK a \in Nat : a = m - j
      BY <1>10
    <3>2. PICK b \in Nat : b = m - k
      BY <1>10
    <3>3. a * z = b * z
      <4>1. NodeSize + a * z = NodeSize + b * z
        BY <1>10, <2>1, <3>1, <3>2
      <4> QED BY <1>2, <4>1
    <3>4. (b + 1) * z = b * z + z /\ (a + 1) * z = a * z + z /\ a * z \in Nat
      BY Multiples
    <3>5. a <= b
      BY <3>3, <3>4, Multiples
    <3>6. b <= a
      BY <3>3, <3>4, Multiples
    <3> QED BY <1>7, <3>1, <3>2, <3>5, <3>6
  <2> QED BY <1>9, <2>1 DEF Once
<1>12. \A x : OnList(s, x) => IsSlot(i, x)
  BY <1>9, <1>10 DEF OnList
<1>13. s \in Seq(Nat) /\ s # <<>>
  <2>1. s \in [1 .. m -> Nat]
    BY <1>9, <1>10
  <2>2. s \in Seq(Nat) /\ Len(s) = m
    BY <1>7, <2>1
  <2> QED BY <1>7, <2>2
<1> QED BY <1>11, <1>12, <1>13 DEF s

(* A fresh page joins the partial list of its cache.                       *)
LEMMA NewPage ==
  ASSUME NEW s, NEW O, SlubInv(s, O), NEW i \in Caches, NEW h \in Pages,
         s.linked[h] = 0, s.partial[i] = <<>>
  PROVE  /\ SlubInv(new_slub_pages_node(s, i, h), O)
         /\ new_slub_pages_node(s, i, h).partial[i] # <<>>
<1>1. PICK f : f = ObjectsOf(i)
  OBVIOUS
<1>2. f \in Seq(Nat) /\ f # <<>> /\ Once(f) /\ \A x : OnList(f, x) => IsSlot(i, x)
  BY <1>1, ObjectsAre
<1>3. PICK l : l = <<h>>
  OBVIOUS
<1>4. l \in Seq(Pages) /\ l # <<>> /\ Once(l) /\ \A g : OnList(l, g) <=> g = h
  BY <1>3 DEF Once, OnList
<1>5. PICK t : t = new_slub_pages_node(s, i, h)
  OBVIOUS
<1>6. SlubShape(s)
  BY DEF SlubInv
<1>7. /\ DOMAIN t = DOMAIN s
      /\ t.linked = [s.linked EXCEPT ![h] = i]
      /\ t.obj_freelist = [s.obj_freelist EXCEPT ![h] = f]
      /\ t.partial = [s.partial EXCEPT ![i] = l]
  <2>1. <<h>> \o s.partial[i] = l
    BY <1>3
  <2> QED BY <1>1, <1>5, <1>6, <2>1 DEF new_slub_pages_node, SlubShape
<1>8. /\ \A g \in Pages :
            g # h => t.linked[g] = s.linked[g] /\ t.obj_freelist[g] = s.obj_freelist[g]
      /\ t.linked[h] = i /\ t.obj_freelist[h] = f
      /\ \A j \in Caches : j # i => t.partial[j] = s.partial[j]
      /\ t.partial[i] = l
  BY <1>6, <1>7 DEF SlubShape
<1>9. SlubShape(t)
  BY <1>2, <1>4, <1>6, <1>7 DEF SlubShape
<1>10. PartialOk(t)
  <2> SUFFICES ASSUME NEW j \in Caches
               PROVE  /\ Once(t.partial[j])
                      /\ \A g \in Pages : OnList(t.partial[j], g) =>
                            t.linked[g] = j /\ t.obj_freelist[g] # <<>>
    BY DEF PartialOk
  <2>1. CASE j = i
    BY <1>2, <1>4, <1>8, <2>1
  <2>2. CASE j # i
    <3>1. /\ Once(s.partial[j])
          /\ \A g \in Pages : OnList(s.partial[j], g) =>
                s.linked[g] = j /\ s.obj_freelist[g] # <<>>
      BY DEF SlubInv, PartialOk
    <3>2. j # 0
      BY CacheSize
    <3> QED BY <1>8, <2>2, <3>1, <3>2
  <2> QED BY <2>1, <2>2
<1>11. FreeOk(t)
  <2> SUFFICES ASSUME NEW g \in Pages
               PROVE  /\ Once(t.obj_freelist[g])
                      /\ t.linked[g] # 0 =>
                            \A x : OnList(t.obj_freelist[g], x) => IsSlot(t.linked[g], x)
    BY DEF FreeOk
  <2>1. CASE g = h
    BY <1>2, <1>8, <2>1
  <2>2. CASE g # h
    BY <1>8, <2>2 DEF SlubInv, FreeOk
  <2> QED BY <2>1, <2>2
<1>12. LiveOk(t, O)
  <2>1. ASSUME NEW o \in O
        PROVE  /\ o[1] \in Pages /\ s.linked[o[1]] \in Caches
               /\ IsSlot(s.linked[o[1]], o[2])
               /\ o[3] \in 1 .. slub_size[s.linked[o[1]]]
               /\ ~OnList(s.obj_freelist[o[1]], o[2]) /\ o[1] # h
    <3>1. ~(0 \in Caches)
      BY DEF Caches
    <3> QED BY <3>1 DEF SlubInv, LiveOk
  <2>2. \A o, q \in O : o[1] = q[1] /\ o[2] = q[2] => o = q
    BY DEF SlubInv, LiveOk
  <2> QED BY <1>8, <2>1, <2>2 DEF LiveOk
<1> QED BY <1>4, <1>5, <1>8, <1>9, <1>10, <1>11, <1>12 DEF SlubInv

(* kmalloc() of a cache with room: the first free object of the first page *)
(* with room becomes a live one.                                           *)
LEMMA KmallocKeeps ==
  ASSUME NEW s, NEW O, SlubInv(s, O), NEW i \in Caches, s.partial[i] # <<>>,
         NEW size \in 1 .. slub_size[i]
  PROVE  SlubInv(kmalloc(s, i), O \cup {<<SlubTake(s, i)[1], SlubTake(s, i)[2], size>>})
<1>1. SlubShape(s) /\ PartialOk(s) /\ FreeOk(s) /\ LiveOk(s, O)
  BY DEF SlubInv
<1>2. PICK l : l = s.partial[i]
  OBVIOUS
<1>3. l \in Seq(Pages) /\ l # <<>> /\ Once(l)
  BY <1>1, <1>2 DEF SlubShape, PartialOk
<1>4. PICK h : h = Head(l)
  OBVIOUS
<1>5. PICK k : k = Tail(l)
  OBVIOUS
<1>6. /\ h \in Pages /\ OnList(l, h) /\ k \in Seq(Pages) /\ Once(k)
      /\ \A g : OnList(k, g) <=> g # h /\ OnList(l, g)
  BY <1>3, <1>4, <1>5, ListTail
<1>7. PICK f : f = s.obj_freelist[h]
  OBVIOUS
<1>8. s.linked[h] = i /\ f # <<>> /\ f \in Seq(Nat) /\ Once(f)
  BY <1>1, <1>2, <1>6, <1>7 DEF SlubShape, PartialOk, FreeOk
<1>9. PICK x : x = Head(f)
  OBVIOUS
<1>10. PICK r : r = Tail(f)
  OBVIOUS
<1>11. /\ x \in Nat /\ OnList(f, x) /\ r \in Seq(Nat) /\ Once(r)
       /\ \A y : OnList(r, y) <=> y # x /\ OnList(f, y)
  BY <1>8, <1>9, <1>10, ListTail
<1>12. PICK t : t = kmalloc(s, i)
  OBVIOUS
<1>13. SlubTake(s, i)[1] = h /\ SlubTake(s, i)[2] = x
  BY <1>2, <1>4, <1>7, <1>9 DEF SlubTake, SlubPage
<1>14. /\ DOMAIN t = DOMAIN s
       /\ t.linked = s.linked
       /\ t.obj_freelist = [s.obj_freelist EXCEPT ![h] = r]
       /\ t.partial = IF r # <<>> THEN s.partial ELSE [s.partial EXCEPT ![i] = k]
  BY <1>1, <1>2, <1>4, <1>5, <1>7, <1>10, <1>12 DEF kmalloc, SlubPage, SlubShape
<1>15. /\ \A g \in Pages : g # h => t.obj_freelist[g] = s.obj_freelist[g]
       /\ t.obj_freelist[h] = r
       /\ \A j \in Caches : j # i => t.partial[j] = s.partial[j]
       /\ t.partial[i] = IF r # <<>> THEN l ELSE k
  BY <1>1, <1>2, <1>6, <1>14 DEF SlubShape
<1>16. SlubShape(t)
  BY <1>1, <1>6, <1>11, <1>14 DEF SlubShape
<1>17. PartialOk(t)
  <2> SUFFICES ASSUME NEW j \in Caches
               PROVE  /\ Once(t.partial[j])
                      /\ \A g \in Pages : OnList(t.partial[j], g) =>
                            t.linked[g] = j /\ t.obj_freelist[g] # <<>>
    BY DEF PartialOk
  <2>1. /\ Once(s.partial[j])
        /\ \A g \in Pages : OnList(s.partial[j], g) =>
              s.linked[g] = j /\ s.obj_freelist[g] # <<>>
    BY <1>1 DEF PartialOk
  <2>2. CASE j = i
    BY <1>2, <1>6, <1>14, <1>15, <2>1, <2>2
  <2>3. CASE j # i
    BY <1>8, <1>14, <1>15, <2>1, <2>3
  <2> QED BY <2>2, <2>3
<1>18. FreeOk(t)
  <2> SUFFICES ASSUME NEW g \in Pages
               PROVE  /\ Once(t.obj_freelist[g])
                      /\ t.linked[g] # 0 =>
                            \A y : OnList(t.obj_freelist[g], y) => IsSlot(t.linked[g], y)
    BY DEF FreeOk
  <2>1. /\ Once(s.obj_freelist[g])
        /\ s.linked[g] # 0 =>
              \A y : OnList(s.obj_freelist[g], y) => IsSlot(s.linked[g], y)
    BY <1>1 DEF FreeOk
  <2>2. CASE g = h
    BY <1>7, <1>11, <1>14, <1>15, <2>1, <2>2
  <2>3. CASE g # h
    BY <1>14, <1>15, <2>1, <2>3
  <2> QED BY <2>2, <2>3
<1>19. PICK e : e = <<h, x, size>>
  OBVIOUS
<1>20. IsSlot(i, x)
  <2>1. i # 0
    BY CacheSize
  <2> QED BY <1>1, <1>6, <1>7, <1>8, <1>11, <2>1 DEF FreeOk
<1>21. LiveOk(t, O \cup {e})
  <2>1. ASSUME NEW o \in O
        PROVE  /\ o[1] \in Pages /\ t.linked[o[1]] \in Caches
               /\ IsSlot(t.linked[o[1]], o[2])
               /\ o[3] \in 1 .. slub_size[t.linked[o[1]]]
               /\ ~OnList(t.obj_freelist[o[1]], o[2])
               /\ ~(o[1] = h /\ o[2] = x)
    <3>1. /\ o[1] \in Pages /\ s.linked[o[1]] \in Caches
          /\ IsSlot(s.linked[o[1]], o[2])
          /\ o[3] \in 1 .. slub_size[s.linked[o[1]]]
          /\ ~OnList(s.obj_freelist[o[1]], o[2])
      BY <1>1 DEF LiveOk
    <3>2. /\ ~OnList(t.obj_freelist[o[1]], o[2])
          /\ ~(o[1] = h /\ o[2] = x)
      BY <1>7, <1>11, <1>15, <3>1
    <3> QED BY <1>14, <3>1, <3>2
  <2>2. /\ e[1] \in Pages /\ t.linked[e[1]] \in Caches
        /\ IsSlot(t.linked[e[1]], e[2])
        /\ e[3] \in 1 .. slub_size[t.linked[e[1]]]
        /\ ~OnList(t.obj_freelist[e[1]], e[2])
        /\ e[1] = h /\ e[2] = x
    BY <1>6, <1>8, <1>11, <1>14, <1>15, <1>19, <1>20
  <2>3. \A o, q \in O : o[1] = q[1] /\ o[2] = q[2] => o = q
    BY <1>1 DEF LiveOk
  <2> QED BY <2>1, <2>2, <2>3 DEF LiveOk
<1> QED BY <1>12, <1>13, <1>16, <1>17, <1>18, <1>19, <1>21 DEF SlubInv

(* kfree() of a live object: it is the first free one of its page, which   *)
(* has room again.                                                         *)
LEMMA KfreeKeeps ==
  ASSUME NEW s, NEW O, SlubInv(s, O), NEW o \in O
  PROVE  SlubInv(kfree(s, o[1], o[2]), O \ {o})
<1>1. SlubShape(s) /\ PartialOk(s) /\ FreeOk(s) /\ LiveOk(s, O)
  BY DEF SlubInv
<1>2. PICK h : h = o[1]
  OBVIOUS
<1>3. PICK x : x = o[2]
  OBVIOUS
<1>4. PICK i : i = s.linked[h]
  OBVIOUS
<1>5. PICK f : f = s.obj_freelist[h]
  OBVIOUS
<1>6. h \in Pages /\ i \in Caches /\ IsSlot(i, x) /\ ~OnList(f, x) /\ f \in Seq(Nat) /\ Once(f)
  BY <1>1, <1>2, <1>3, <1>4, <1>5 DEF SlubShape, LiveOk, FreeOk
<1>7. x \in Nat
  <2>1. slub_size[i] \in Nat /\ NodeSize \in Nat
    BY <1>6, CacheSize, PhysAssumption
  <2>2. PICK j \in Nat : x = NodeSize + j * slub_size[i]
    BY <1>6 DEF IsSlot
  <2>3. j * slub_size[i] \in Nat
    BY <2>1
  <2> QED BY <2>1, <2>2, <2>3
<1>8. PICK r : r = <<x>> \o f
  OBVIOUS
<1>9. r \in Seq(Nat) /\ Once(r) /\ \A y : OnList(r, y) <=> y = x \/ OnList(f, y)
  BY <1>6, <1>7, <1>8, ListFront
<1>10. r # <<>>
  <2>1. OnList(r, x)
    BY <1>9
  <2> QED BY <2>1 DEF OnList
<1>11. PICK l : l = s.partial[i]
  OBVIOUS
<1>12. PICK k : k = <<h>> \o l
  OBVIOUS
<1>13. /\ l \in Seq(Pages) /\ Once(l)
       /\ \A g \in Pages : OnList(l, g) => s.linked[g] = i /\ s.obj_freelist[g] # <<>>
  BY <1>1, <1>6, <1>11 DEF SlubShape, PartialOk
<1>14. f = <<>> => /\ k \in Seq(Pages) /\ Once(k)
                   /\ \A g : OnList(k, g) <=> g = h \/ OnList(l, g)
  <2> SUFFICES ASSUME f = <<>>
               PROVE  /\ k \in Seq(Pages) /\ Once(k)
                      /\ \A g : OnList(k, g) <=> g = h \/ OnList(l, g)
    OBVIOUS
  <2>1. ~OnList(l, h)
    BY <1>5, <1>6, <1>13
  <2> QED BY <1>6, <1>12, <1>13, <2>1, ListFront
<1>15. PICK t : t = kfree(s, h, x)
  OBVIOUS
<1>16. /\ DOMAIN t = DOMAIN s
       /\ t.linked = s.linked
       /\ t.obj_freelist = [s.obj_freelist EXCEPT ![h] = r]
       /\ t.partial = IF f # <<>> THEN s.partial ELSE [s.partial EXCEPT ![i] = k]
  BY <1>1, <1>4, <1>5, <1>8, <1>11, <1>12, <1>15 DEF kfree, SlubShape
<1>17. /\ \A g \in Pages : g # h => t.obj_freelist[g] = s.obj_freelist[g]
       /\ t.obj_freelist[h] = r
       /\ \A j \in Caches : j # i => t.partial[j] = s.partial[j]
       /\ t.partial[i] = IF f # <<>> THEN l ELSE k
  BY <1>1, <1>6, <1>11, <1>16 DEF SlubShape
<1>18. SlubShape(t)
  <2>1. f = <<>> => k \in Seq(Pages)
    BY <1>14
  <2> QED BY <1>1, <1>6, <1>9, <1>16, <2>1 DEF SlubShape
<1>19. PartialOk(t)
  <2> SUFFICES ASSUME NEW j \in Caches
               PROVE  /\ Once(t.partial[j])
                      /\ \A g \in Pages : OnList(t.partial[j], g) =>
                            t.linked[g] = j /\ t.obj_freelist[g] # <<>>
    BY DEF PartialOk
  <2>1. /\ Once(s.partial[j])
        /\ \A g \in Pages : OnList(s.partial[j], g) =>
              s.linked[g] = j /\ s.obj_freelist[g] # <<>>
    BY <1>1 DEF PartialOk
  <2>2. CASE j = i
    BY <1>4, <1>10, <1>13, <1>14, <1>16, <1>17, <2>2
  <2>3. CASE j # i
    BY <1>10, <1>16, <1>17, <2>1, <2>3
  <2> QED BY <2>2, <2>3
<1>20. FreeOk(t)
  <2> SUFFICES ASSUME NEW g \in Pages
               PROVE  /\ Once(t.obj_freelist[g])
                      /\ t.linked[g] # 0 =>
                            \A y : OnList(t.obj_freelist[g], y) => IsSlot(t.linked[g], y)
    BY DEF FreeOk
  <2>1. /\ Once(s.obj_freelist[g])
        /\ s.linked[g] # 0 =>
              \A y : OnList(s.obj_freelist[g], y) => IsSlot(s.linked[g], y)
    BY <1>1 DEF FreeOk
  <2>2. CASE g = h
    BY <1>4, <1>5, <1>6, <1>9, <1>16, <1>17, <2>1, <2>2
  <2>3. CASE g # h
    BY <1>16, <1>17, <2>1, <2>3
  <2> QED BY <2>2, <2>3
<1>21. LiveOk(t, O \ {o})
  <2>1. \A q \in O : q[1] = h /\ q[2] = x => q = o
    BY <1>1, <1>2, <1>3 DEF LiveOk
  <2>2. ASSUME NEW q \in O \ {o}
        PROVE  /\ q[1] \in Pages /\ t.linked[q[1]] \in Caches
               /\ IsSlot(t.linked[q[1]], q[2])
               /\ q[3] \in 1 .. slub_size[t.linked[q[1]]]
               /\ ~OnList(t.obj_freelist[q[1]], q[2])
    <3>1. /\ q[1] \in Pages /\ s.linked[q[1]] \in Caches
          /\ IsSlot(s.linked[q[1]], q[2])
          /\ q[3] \in 1 .. slub_size[s.linked[q[1]]]
          /\ ~OnList(s.obj_freelist[q[1]], q[2])
      BY <1>1 DEF LiveOk
    <3>2. ~OnList(t.obj_freelist[q[1]], q[2])
      BY <1>5, <1>9, <1>17, <2>1, <3>1
    <3> QED BY <1>16, <3>1, <3>2
  <2>3. \A q, u \in O \ {o} : q[1] = u[1] /\ q[2] = u[2] => q = u
    BY <1>1 DEF LiveOk
  <2> QED BY <2>2, <2>3 DEF LiveOk
<1> QED BY <1>2, <1>3, <1>15, <1>18, <1>19, <1>20, <1>21 DEF SlubInv

(* At the start there is neither a slub page nor an object.                *)
LEMMA SlubInit ==
  ASSUME Init
  PROVE  SlubInv(slub, objs)
<1>1. PICK s : s = kmem_cache_init
  OBVIOUS
<1>2. slub = s /\ objs = {}
  BY <1>1 DEF Init
<1>3. SlubShape(s)
  BY <1>1 DEF kmem_cache_init, SlubShape
<1>4. /\ \A i \in Caches : s.partial[i] = <<>>
      /\ \A g \in Pages : s.obj_freelist[g] = <<>> /\ s.linked[g] = 0
  BY <1>1 DEF kmem_cache_init
<1>5. PartialOk(s)
  BY <1>4 DEF PartialOk, Once, OnList
<1>6. FreeOk(s)
  BY <1>4 DEF FreeOk, Once, OnList
<1>7. LiveOk(s, {})
  BY DEF LiveOk
<1> QED BY <1>2, <1>3, <1>5, <1>6, <1>7 DEF SlubInv

(* Only kmalloc() and kfree() touch the slub allocator.                    *)
LEMMA SlubNext ==
  ASSUME VmInv, SlubInv(slub, objs), [Next]_vars
  PROVE  SlubInv(slub', objs')
<1>1. CASE UNCHANGED <<slub, objs>>
  BY <1>1
<1>2. ASSUME NEW p \in Procs, ProcStep(p)
      PROVE  UNCHANGED <<slub, objs>>
  <2>1. CASE Store(p) \/ SegFault(p) \/ sys_brk(p) \/ Fork(p) \/ ForkEnd(p)
    BY <2>1 DEF Store, SegFault, sys_brk, Fork, ForkEnd, physVars
  <2>2. CASE Exit(p) \/ ExitEnd(p) \/ Exec(p) \/ ExecEnd(p)
    BY <2>2 DEF Exit, ExitEnd, Exec, ExecEnd, physVars
  <2>3. CASE do_no_page(p)
    BY <2>3 DEF do_no_page, physVars
  <2>4. CASE do_wp_page(p)
    BY <2>4 DEF do_wp_page, physVars
  <2>5. CASE WpCopy(p)
    BY <2>5 DEF WpCopy, physVars
  <2>6. CASE copy_pgtable(p)
    BY <2>6 DEF copy_pgtable, physVars
  <2>7. CASE release_phypg(p) \/ FreePage(p)
    BY <2>7 DEF release_phypg, FreePage, physVars
  <2> QED BY <1>2, <2>1, <2>2, <2>3, <2>4, <2>5, <2>6, <2>7 DEF ProcStep
<1>3. CASE KernelAlloc \/ KernelFree
  BY <1>1, <1>3 DEF KernelAlloc, KernelFree
<1>4. CASE Kmalloc
  <2>1. PICK size \in AskSizes :
         LET i == binary_search_ge(size)
             fresh == slub.partial[i] = <<>>
             s == IF fresh THEN new_slub_pages_node(slub, i, Allocated(buddy, 0)) ELSE slub
         IN  /\ fresh => HasBlock(buddy, 0)
             /\ slub' = kmalloc(s, i)
             /\ objs' = objs \cup {<<SlubTake(s, i)[1], SlubTake(s, i)[2], size>>}
    BY <1>4 DEF Kmalloc
  <2>2. PICK i : i = binary_search_ge(size)
    OBVIOUS
  <2>3. PICK h : h = Allocated(buddy, 0)
    OBVIOUS
  <2>4. PICK s : s = IF slub.partial[i] = <<>> THEN new_slub_pages_node(slub, i, h) ELSE slub
    OBVIOUS
  <2>5. /\ slub.partial[i] = <<>> => HasBlock(buddy, 0)
        /\ slub' = kmalloc(s, i)
        /\ objs' = objs \cup {<<SlubTake(s, i)[1], SlubTake(s, i)[2], size>>}
    BY <2>1, <2>2, <2>3, <2>4
  <2>6. i \in Caches /\ size \in 1 .. slub_size[i]
    <3>1. size \in Nat \ {0} /\ size <= slub_size[Len(slub_size)]
      BY VmAssumption
    <3>2. i \in Caches /\ size <= slub_size[i]
      BY <2>2, <3>1, SearchFinds
    <3> QED BY <3>1, <3>2, CacheSize
  <2>7. SlubInv(s, objs) /\ s.partial[i] # <<>>
    <3>1. CASE slub.partial[i] # <<>>
      BY <2>4, <3>1
    <3>2. CASE slub.partial[i] = <<>>
      <4>1. 0 \in Orders
        BY PhysAssumption DEF Orders
      <4>2. h \in Pages /\ slub.linked[h] = 0
        BY <2>3, <2>5, <3>2, <4>1, Fresh
      <4>3. s = new_slub_pages_node(slub, i, h)
        BY <2>4, <3>2
      <4> QED BY <2>6, <3>2, <4>2, <4>3, NewPage
    <3> QED BY <3>1, <3>2
  <2> QED BY <2>5, <2>6, <2>7, KmallocKeeps
<1>5. CASE Kfree
  <2>1. PICK o \in objs : objs' = objs \ {o} /\ slub' = kfree(slub, o[1], o[2])
    BY <1>5 DEF Kfree
  <2> QED BY <2>1, KfreeKeeps
<1>6. CASE UNCHANGED vars
  BY <1>1, <1>6 DEF vars, physVars
<1> QED BY <1>1, <1>2, <1>3, <1>4, <1>5, <1>6 DEF Next

(* What the invariants say of the objects.                                 *)
LEMMA Apart ==
  ASSUME VmInv, SlubInv(slub, objs)
  PROVE  ObjectsApart
<1>1. ASSUME NEW o \in objs
      PROVE  /\ o[1] \in Pages /\ slub.linked[o[1]] \in Caches
             /\ IsSlot(slub.linked[o[1]], o[2])
             /\ o[3] \in 1 .. slub_size[slub.linked[o[1]]]
             /\ ~OnList(slub.obj_freelist[o[1]], o[2])
             /\ slub.linked[o[1]] # 0
  <2>1. ~(0 \in Caches)
    BY DEF Caches
  <2> QED BY <2>1 DEF SlubInv, LiveOk
<1>2. ASSUME NEW i \in Caches, NEW x, IsSlot(i, x)
      PROVE  x \in Nat /\ x >= NodeSize /\ x + slub_size[i] <= PGSIZE
  <2>1. slub_size[i] \in Nat /\ NodeSize \in Nat
    BY CacheSize, PhysAssumption
  <2>2. PICK j \in Nat : x = NodeSize + j * slub_size[i]
    BY <1>2 DEF IsSlot
  <2>3. j * slub_size[i] \in Nat
    BY <2>1
  <2> QED BY <1>2, <2>1, <2>2, <2>3 DEF IsSlot
<1>3. ASSUME NEW i \in Caches, NEW x, NEW y, IsSlot(i, x), IsSlot(i, y),
             NEW a \in Nat, NEW b \in Nat, a < slub_size[i], b < slub_size[i], x + a = y + b
      PROVE  x = y
  <2>1. x \in Nat /\ y \in Nat /\ slub_size[i] \in Nat
    BY <1>2, <1>3, CacheSize
  <2>2. x <= y => y < x + slub_size[i]
    BY <1>3, <2>1
  <2>3. y <= x => x < y + slub_size[i]
    BY <1>3, <2>1
  <2>4. x <= y => x = y
    BY <1>3, <2>2, SlotsApart
  <2>5. y <= x => x = y
    BY <1>3, <2>3, SlotsApart
  <2> QED BY <2>1, <2>4, <2>5
<1>4. ASSUME NEW o \in objs, NEW z \in Bytes(o)
      PROVE  /\ z[1] = o[1]
             /\ \E a \in Nat : a < slub_size[slub.linked[o[1]]] /\ z[2] = o[2] + a
  <2>1. PICK a \in 0 .. o[3] - 1 : z = <<o[1], o[2] + a>>
    BY DEF Bytes
  <2>2. slub_size[slub.linked[o[1]]] \in Nat
    BY <1>1, CacheSize
  <2>3. a \in Nat /\ a < slub_size[slub.linked[o[1]]]
    BY <1>1, <2>2
  <2> QED BY <2>1, <2>3
<1>5. ASSUME NEW o \in objs, NEW q \in objs, o # q
      PROVE  Bytes(o) \cap Bytes(q) = {}
  <2> SUFFICES ASSUME NEW z \in Bytes(o), z \in Bytes(q) PROVE FALSE
    OBVIOUS
  <2>1. PICK a \in Nat : a < slub_size[slub.linked[o[1]]] /\ z[2] = o[2] + a
    BY <1>4
  <2>2. PICK b \in Nat : b < slub_size[slub.linked[q[1]]] /\ z[2] = q[2] + b
    BY <1>4
  <2>3. o[1] = q[1]
    BY <1>4
  <2>4. o[2] = q[2]
    BY <1>1, <1>3, <2>1, <2>2, <2>3
  <2> QED BY <1>5, <2>3, <2>4 DEF SlubInv, LiveOk
<1>6. ASSUME NEW o \in objs
      PROVE  /\ o[2] >= NodeSize /\ o[2] + o[3] <= PGSIZE
             /\ o[3] <= slub_size[slub.linked[o[1]]]
  <2>1. slub_size[slub.linked[o[1]]] \in Nat /\ PGSIZE \in Nat
    BY <1>1, CacheSize, PhysAssumption
  <2>2. o[2] \in Nat /\ o[2] >= NodeSize /\ o[2] + slub_size[slub.linked[o[1]]] <= PGSIZE
    BY <1>1, <1>2
  <2> QED BY <1>1, <2>1, <2>2
<1>7. ASSUME NEW o \in objs, NEW j \in DOMAIN slub.obj_freelist[o[1]],
             <<o[1], slub.obj_freelist[o[1]][j]>> \in Bytes(o)
      PROVE  FALSE
  <2>1. PICK x : x = slub.obj_freelist[o[1]][j]
    OBVIOUS
  <2>2. OnList(slub.obj_freelist[o[1]], x)
    BY <2>1 DEF OnList
  <2>3. IsSlot(slub.linked[o[1]], x)
    BY <1>1, <2>2 DEF SlubInv, FreeOk
  <2>4. PICK a \in Nat : a < slub_size[slub.linked[o[1]]] /\ <<o[1], x>>[2] = o[2] + a
    BY <1>4, <1>7, <2>1
  <2>5. 0 \in Nat /\ 0 < slub_size[slub.linked[o[1]]] /\ x + 0 = o[2] + a
    <3>1. x \in Nat
      BY <1>1, <1>2, <2>3
    <3>2. slub_size[slub.linked[o[1]]] \in Nat \ {0}
      BY <1>1, CacheSize
    <3> QED BY <2>4, <3>1, <3>2
  <2>6. x = o[2]
    BY <1>1, <1>3, <2>3, <2>4, <2>5
  <2> QED BY <1>1, <2>2, <2>6
<1>8. ASSUME NEW o \in objs
      PROVE  buddy.count[o[1]] = 1 /\ Users(o[1]) = {} /\ o[1] \notin kernel
  <2>1. PICK g \in Pages : g = o[1]
    BY <1>1
  <2>2. slub.linked[g] # 0
    BY <1>1, <2>1
  <2>3. PageAt(g)
    BY DEF VmInv
  <2>4. {slub.linked[g]} \ {0} # {}
    BY <2>2
  <2>5. buddy.count[g] = 1 /\ UsersOf(pte, g) = {} /\ kernel \cap {g} = {}
    BY <2>3, <2>4 DEF PageAt, PageOk
  <2> QED BY <2>1, <2>5 DEF Users, UsersOf
<1> QED BY <1>5, <1>6, <1>7, <1>8 DEF ObjectsApart

(* kmalloc() and kfree(): live objects lie in their page and overlap       *)
(* neither each other nor an object that is free, and their pages are      *)
(* nobody else's, whatever else the kernel and the processes allocate.     *)
THEOREM VmObjectsApart == Spec => []ObjectsApart
<1>1. Init => SlubInv(slub, objs)
  BY SlubInit
<1>2. VmInv /\ SlubInv(slub, objs) /\ [Next]_vars => SlubInv(slub, objs)'
  BY SlubNext
<1>3. VmInv /\ SlubInv(slub, objs) => ObjectsApart
  BY Apart
<1> QED BY <1>1, <1>2, <1>3, VmInvariant, PTL DEF Spec
=============================================================================
