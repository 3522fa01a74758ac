-------------------------------- MODULE Phys --------------------------------
(***************************************************************************)
(* The physical page allocator (kernel/mm/phys.c): a buddy system of       *)
(* blocks of 2^k pages, and the slub allocator for small objects on top.   *)
(*                                                                         *)
(* The buddy system is a record of the free lists and of the array         *)
(* physical_page_record; pages_alloc() and pages_free() are operators from *)
(* one such record to the next, each one buddy_lock section in the code.   *)
(***************************************************************************)
EXTENDS Integers, Sequences, FiniteSets, FiniteSetsExt

CONSTANTS
    NPages,         \* physical pages
    MaxOrder,       \* greatest order of a block, 10 in the code
    PGSIZE,         \* bytes of a page
    NodeSize,       \* bytes of a slub_pages_node_t
    slub_size       \* the object sizes

ASSUME PhysAssumption ==
    /\ NPages \in Nat \ {0} /\ MaxOrder \in 1 .. 30
    /\ PGSIZE \in Nat /\ NodeSize \in Nat
    /\ slub_size \in Seq(Nat \ {0}) /\ slub_size # <<>>
    /\ \A i \in 1 .. Len(slub_size) - 1 : slub_size[i] < slub_size[i + 1]
    /\ \A i \in 1 .. Len(slub_size) : NodeSize + slub_size[i] < PGSIZE

Pages  == 0 .. NPages - 1
Orders == 0 .. MaxOrder

(* The pages of a block of order k.                                        *)
Span(k) == 2^k

(* mount_orderlist(): blocks of the greatest order, the last one in front, *)
(* and the rest of memory in ever smaller blocks.                          *)
mount_orderlist ==
    LET tops == NPages \div Span(MaxOrder) IN
    [k \in Orders |->
       IF k = MaxOrder THEN [i \in 1 .. tops |-> (tops - i) * Span(MaxOrder)]
       ELSE IF NPages % Span(k + 1) >= Span(k) THEN <<NPages - (NPages % Span(k + 1))>>
       ELSE <<>>]

buddy_system_init ==
    [list |-> mount_orderlist, count |-> [g \in Pages |-> 0],
     order |-> [g \in Pages |-> 0]]

(* get_power2(): the least power of 2 that holds n.                        *)
get_power2(n) == Min({i \in 0 .. 30 : n <= Span(i)})

(* Is there a block of order k or more?                                    *)
HasBlock(b, k) == \E i \in k .. MaxOrder : b.list[i] # <<>>

(* The block pages_alloc() takes for order k: the first of the least list  *)
(* that has one; its address is returned, the left side of every split.    *)
FoundOrder(b, k) == Min({i \in k .. MaxOrder : b.list[i] # <<>>})
Allocated(b, k)  == Head(b.list[FoundOrder(b, k)])

(* Mutant: do_record() leaves the order as it was.                         *)
pages_allocStale(b, k) ==
    LET i == FoundOrder(b, k) h == Allocated(b, k) IN
    [list  |-> [j \in Orders |-> IF j = i THEN Tail(b.list[j])
                                 ELSE IF j \in k .. i - 1 THEN <<h + Span(j)>> \o b.list[j]
                                 ELSE b.list[j]],
     count |-> [b.count EXCEPT ![h] = 1],
     order |-> [g \in Pages |->
                  IF \E j \in k .. i - 1 : g = h + Span(j)
                    THEN CHOOSE j \in k .. i - 1 : g = h + Span(j) ELSE b.order[g]]]

(* pages_alloc(): split_pages() puts the right halves on their lists and   *)
(* records their orders; do_record() records the block.                    *)
pages_alloc(b, k) ==
    LET i == FoundOrder(b, k) h == Allocated(b, k) IN
    [list  |-> [j \in Orders |-> IF j = i THEN Tail(b.list[j])
                                 ELSE IF j \in k .. i - 1 THEN <<h + Span(j)>> \o b.list[j]
                                 ELSE b.list[j]],
     count |-> [b.count EXCEPT ![h] = 1],
     order |-> [g \in Pages |->
                  IF g = h THEN k
                  ELSE IF \E j \in k .. i - 1 : g = h + Span(j)
                         THEN CHOOSE j \in k .. i - 1 : g = h + Span(j)
                  ELSE b.order[g]]]

whois_buddy(g, k) == IF g % Span(k + 1) = 0 THEN g + Span(k) ELSE g - Span(k)

(* The block of order k that a merge has reached from page g.              *)
Base(g, k) == g - (g % Span(k))

(* The test in the loop of pages_free(), with the count of g down to zero. *)
(* Beyond the last page the code reads past the array: see Boot in Vm.     *)
Merges(b, g, k) ==
    LET q == whois_buddy(Base(g, k), k)
    IN  q \in Pages /\ b.count[q] = 0 /\ b.order[q] = k

(* list_del(): x is unlinked, wherever it is on its list.                  *)
list_del(s, x) ==
    IF \E i \in DOMAIN s : s[i] = x
      THEN LET at == CHOOSE i \in DOMAIN s : s[i] = x
           IN  [j \in 1 .. Len(s) - 1 |-> IF j < at THEN s[j] ELSE s[j + 1]]
      ELSE s

(* pages_free(): one reference less; when it was the last, the block is    *)
(* merged upwards and put in front of its list.                            *)
pages_free(b, g) ==
    LET c   == [b.count EXCEPT ![g] = @ - 1]
        d   == [b EXCEPT !.count = c]
        o   == b.order[g]
        top == Max({k \in o .. MaxOrder : \A j \in o .. k - 1 : Merges(d, g, j)})
    IN  IF c[g] > 0 THEN d
        ELSE [d EXCEPT !.list = [k \in Orders |->
                 LET rest == IF k \in o .. top - 1
                               THEN list_del(b.list[k], whois_buddy(Base(g, k), k))
                               ELSE b.list[k]
                 IN  IF k = top THEN <<Base(g, top)>> \o rest ELSE rest]]

pages_dup(b, g) == [b EXCEPT !.count[g] = @ + 1]

(* pages_undup() as far as the count goes: the last reference stays.       *)
pages_undup(b, g) == [b EXCEPT !.count[g] = IF @ > 1 THEN @ - 1 ELSE @]

(* The pages of the block of order k at g.                                 *)
BlockPages(g, k) == g .. g + Span(k) - 1

FreeBlocks(b) == UNION {{<<b.list[k][i], k>> : i \in DOMAIN b.list[k]} : k \in Orders}
UsedBlocks(b) == {<<g, b.order[g]>> : g \in {h \in Pages : b.count[h] > 0}}

(* pages_alloc() and pages_free(): the free blocks and the blocks in use   *)
(* are disjoint and together are the whole memory, whatever orders were    *)
(* left behind in the records by earlier splits and merges.                *)
PagesPartitionOf(b) ==
    LET all == FreeBlocks(b) \cup UsedBlocks(b) IN
    /\ FreeBlocks(b) \cap UsedBlocks(b) = {}
    /\ \A x, y \in all : x # y => BlockPages(x[1], x[2]) \cap BlockPages(y[1], y[2]) = {}
    /\ UNION {BlockPages(x[1], x[2]) : x \in all} = Pages
    /\ \A k \in Orders : Cardinality({i \in DOMAIN b.list[k] : TRUE})
                           = Cardinality({b.list[k][i] : i \in DOMAIN b.list[k]})
-----------------------------------------------------------------------------
(* The slub allocator: a record of the two lists of each cache (only       *)
(* membership matters for the full list), of the free objects of each      *)
(* slub page, and of the cache of each slub page.                          *)

Caches == 1 .. Len(slub_size)

kmem_cache_init ==
    [partial |-> [i \in Caches |-> <<>>], full |-> [i \in Caches |-> {}],
     obj_freelist |-> [g \in Pages |-> <<>>], linked |-> [g \in Pages |-> 0]]

(* new_slub_pages_node(): the offsets of the objects of a page, the last   *)
(* one in front.                                                           *)
ObjectsOf(i) ==
    LET n == Cardinality({j \in 1 .. PGSIZE : NodeSize + j * slub_size[i] < PGSIZE})
    IN  [j \in 1 .. n |-> NodeSize + (n - j) * slub_size[i]]

(* Mutant: the search ends one step early.                                 *)
binary_search_geLow(size) ==
    LET at[x \in (0 .. Len(slub_size)) \X (0 .. Len(slub_size))] ==
          LET l == x[1] r == x[2] mid == (l + r) \div 2 IN
          IF r - l <= 1 THEN l
          ELSE IF slub_size[mid + 1] > size THEN at[<<l, mid>>]
          ELSE IF slub_size[mid + 1] = size THEN mid
          ELSE at[<<mid + 1, r>>]
    IN  at[<<0, Len(slub_size)>>] + 1

(* binary_search_ge(), over the array counted from 0.                      *)
binary_search_ge(size) ==
    LET at[x \in (0 .. Len(slub_size)) \X (0 .. Len(slub_size))] ==
          LET l == x[1] r == x[2] mid == (l + r) \div 2 IN
          IF r - l <= 0 THEN l
          ELSE IF slub_size[mid + 1] > size THEN at[<<l, mid>>]
          ELSE IF slub_size[mid + 1] = size THEN mid
          ELSE at[<<mid + 1, r>>]
    IN  at[<<0, Len(slub_size)>>] + 1

(* The slub page and the object kmalloc() takes from cache i once the      *)
(* cache has a page with room.                                             *)
SlubPage(s, i) == Head(s.partial[i])
SlubTake(s, i) == <<SlubPage(s, i), Head(s.obj_freelist[SlubPage(s, i)])>>

(* A fresh page g joins the partial list of cache i.                       *)
new_slub_pages_node(s, i, g) ==
    [s EXCEPT !.linked[g] = i, !.obj_freelist[g] = ObjectsOf(i),
              !.partial[i] = <<g>> \o @]

kmalloc(s, i) ==
    LET g == SlubPage(s, i)
        rest == Tail(s.obj_freelist[g])
        t == [s EXCEPT !.obj_freelist[g] = rest]
    IN  IF rest # <<>> THEN t
        ELSE [t EXCEPT !.partial[i] = Tail(@), !.full[i] = @ \cup {g}]

(* kfree(): a page that was full becomes partial.                          *)
kfree(s, g, off) ==
    LET i == s.linked[g]
        t == [s EXCEPT !.obj_freelist[g] = <<off>> \o @]
    IN  IF s.obj_freelist[g] # <<>> THEN t
        ELSE [t EXCEPT !.full[i] = @ \ {g}, !.partial[i] = <<g>> \o @]
=============================================================================
