--------------------------------- MODULE Vm ---------------------------------
(***************************************************************************)
(* User memory (kernel/mm/vm.c, process/execve.c) on top of the physical   *)
(* allocator: pages are loaded at the first touch, shared copy-on-write    *)
(* after fork(), and released at exit() and execve().                      *)
(*                                                                         *)
(* A step is one section of buddy_lock or of a page's own lock lk, or what *)
(* a process does between two of them.  A page table is a function from    *)
(* virtual pages to entries; the pages that hold the tables themselves are *)
(* left out (the code never gives them back).  Of the permission bits only *)
(* PTE_W is kept: a page of Text may or may not have PTE_X.  Bytes are     *)
(* abstracted to one value per page.                                       *)
(***************************************************************************)
EXTENDS Phys

CONSTANTS
    Procs,          \* pids
    NoProc,         \* "nobody holds this lock"
    VPages,         \* virtual pages, numbered in the order of addresses
    Text,           \* those of a read-only segment of the program's file
    Heap,           \* those that sys_brk() adds and takes away
    Stack,          \* the page execve() puts the arguments in
    Vals, FileVal,  \* contents of pages, contents of the file
    Absent,         \* contents of a page that is not mapped
    MaxKernel,      \* bound: blocks the kernel holds besides the first
    AskSizes,       \* sizes asked of kmalloc()
    MaxObjs         \* bound: live objects of kmalloc()

ASSUME VmAssumption ==
    /\ NoProc \notin Procs /\ IsFiniteSet(Procs)
    /\ VPages \subseteq Nat /\ IsFiniteSet(VPages)
    /\ Text \subseteq VPages /\ Heap \subseteq VPages /\ Stack \in VPages
    /\ Text \cap Heap = {} /\ Stack \notin Text \cup Heap
    /\ FileVal \in Vals /\ Absent \notin Vals
    /\ MaxKernel \in Nat /\ MaxObjs \in Nat
    /\ AskSizes \subseteq 1 .. slub_size[Len(slub_size)]

VARIABLES
    buddy,      \* the buddy system
    slub,       \* the slub allocator
    objs,       \* live objects of kmalloc(): page, offset, size asked for
    kernel,     \* blocks held by the kernel
    content,    \* what each physical page holds
    lk,         \* holder of each page's lock
    pte,        \* page table of each process: Unmapped or [page, w]
    brk,        \* heap pages inside the heap's vm_area
    pc,         \* where each process is
    todo,       \* virtual pages still to copy or to release
    at,         \* the virtual page of a fault that copies
    freeing,    \* the page of a release under way, NPages if none
    child,      \* the child of a fork under way
    ustack      \* the new stack of an execve under way

physVars == <<slub, objs, kernel>>
vars == <<buddy, physVars, content, lk, pte, brk, pc, todo, at, freeing, child,
          ustack>>

Unmapped == [page |-> NPages, w |-> FALSE]
Mapped(p, v) == pte[p][v] # Unmapped
NoMap == [v \in VPages |-> Unmapped]

(* The page tables after boot: kvminit() has taken the first page of the   *)
(* last block, which is never freed, and the first process runs with       *)
(* nothing loaded.                                                         *)
Boot == pages_alloc(buddy_system_init, 0)

Init ==
    /\ buddy = Boot
    /\ slub = kmem_cache_init /\ objs = {} /\ kernel = {}
    /\ content = [g \in Pages |-> FileVal]
    /\ lk = [g \in Pages |-> NoProc]
    /\ pte = [p \in Procs |-> NoMap] /\ brk = [p \in Procs |-> {}]
    /\ \E p \in Procs : pc = [q \in Procs |-> IF q = p THEN "user" ELSE "unused"]
    /\ todo = [p \in Procs |-> {}] /\ at = [p \in Procs |-> Stack]
    /\ freeing = [p \in Procs |-> NPages]
    /\ child = [p \in Procs |-> NoProc] /\ ustack = [p \in Procs |-> NPages]

Goto(p, l) == pc' = [pc EXCEPT ![p] = l]
-----------------------------------------------------------------------------
(* The process runs, or the kernel copies for it: copyout() after          *)
(* verify_area() writes like a store does.                                 *)

(* A store through a writable entry.                                       *)
Store(p) ==
    /\ pc[p] = "user"
    /\ \E v \in VPages, x \in Vals :
         /\ pte[p][v].w
         /\ content' = [content EXCEPT ![pte[p][v].page] = x]
    /\ UNCHANGED <<buddy, physVars, lk, pte, brk, pc, todo, at, freeing, child, ustack>>

(* search_vmareas() finds an area with the permission.                     *)
Allowed(p, v, write) ==
    /\ v \in Heap => v \in brk[p]
    /\ write => v \notin Text

(* do_ld_page_fault(), do_sd_page_fault(), or verify_area() for a system   *)
(* call, outside of every area or against its permission: setkilled(), and *)
(* the process exits on its way out of the kernel.                         *)
SegFault(p) ==
    /\ pc[p] = "user"
    /\ \E v \in VPages, write \in BOOLEAN :
         /\ ~Allowed(p, v, write)
         /\ ~Mapped(p, v) \/ (write /\ ~pte[p][v].w)
    /\ Goto(p, "exit") /\ todo' = [todo EXCEPT ![p] = VPages]
    /\ UNCHANGED <<buddy, physVars, content, lk, pte, brk, at, freeing, child, ustack>>

(* do_no_page(): a fresh page is mapped with the permission asked for; one *)
(* of a file is filled by true_load_segment(), any other keeps whatever it *)
(* held, for it is not cleared.                                            *)
do_no_page(p) ==
    /\ pc[p] = "user" /\ HasBlock(buddy, 0)
    /\ \E v \in VPages, write \in BOOLEAN, x \in Vals :
         /\ ~Mapped(p, v) /\ Allowed(p, v, write)
         /\ v \in Text => x = FileVal
         /\ pte' = [pte EXCEPT ![p][v] = [page |-> Allocated(buddy, 0), w |-> write]]
         /\ content' = [content EXCEPT ![Allocated(buddy, 0)] = x]
    /\ buddy' = pages_alloc(buddy, 0)
    /\ UNCHANGED <<physVars, lk, brk, pc, todo, at, freeing, child, ustack>>

(* A store to a page that may not be written, or the fetch of instructions *)
(* from one that was loaded without PTE_X, for a read.                     *)
Withheld(p, v) ==
    Mapped(p, v) /\ ((~pte[p][v].w /\ Allowed(p, v, TRUE)) \/ v \in Text)

(* do_wp_page(): the last owner of a page keeps it, ...                    *)
do_wp_page(p) ==
    /\ pc[p] = "user"
    /\ \E v \in VPages :
         LET g == pte[p][v].page IN
         /\ Withheld(p, v) /\ lk[g] = NoProc
         /\ IF buddy.count[g] = 1
              THEN /\ pte' = [pte EXCEPT ![p][v].w = v \notin Text]
                   /\ UNCHANGED <<lk, pc, at>>
              ELSE /\ lk' = [lk EXCEPT ![g] = p] /\ Goto(p, "copy")
                   /\ at' = [at EXCEPT ![p] = v]
                   /\ UNCHANGED pte
         /\ buddy' = pages_undup(buddy, g)
    /\ UNCHANGED <<physVars, content, brk, todo, freeing, child, ustack>>

(* Mutant: the page's lock is given up before the page is copied.          *)
WpUnlock(p) ==
    /\ pc[p] = "copy" /\ HasBlock(buddy, 0)
    /\ LET v == at[p] old == pte[p][v].page new == Allocated(buddy, 0) IN
       IF lk[old] = p
         THEN lk' = [lk EXCEPT ![old] = NoProc] /\ UNCHANGED <<content, pte, buddy, pc, at>>
         ELSE /\ content' = [content EXCEPT ![new] = content[old]]
              /\ pte' = [pte EXCEPT ![p][v] = [page |-> new, w |-> v \notin Text]]
              /\ buddy' = pages_alloc(buddy, 0)
              /\ Goto(p, "user") /\ at' = [at EXCEPT ![p] = Stack] /\ UNCHANGED lk
    /\ UNCHANGED <<physVars, brk, todo, freeing, child, ustack>>

(* ... any other gets a copy, made with the page's lock held.              *)
WpCopy(p) ==
    /\ pc[p] = "copy" /\ HasBlock(buddy, 0)
    /\ LET v == at[p] old == pte[p][v].page new == Allocated(buddy, 0) IN
         /\ content' = [content EXCEPT ![new] = content[old]]
         /\ lk' = [lk EXCEPT ![old] = NoProc]
         /\ pte' = [pte EXCEPT ![p][v] = [page |-> new, w |-> v \notin Text]]
    /\ buddy' = pages_alloc(buddy, 0)
    /\ Goto(p, "user") /\ at' = [at EXCEPT ![p] = Stack]
    /\ UNCHANGED <<physVars, brk, todo, freeing, child, ustack>>

(* sys_brk(): the end of the heap's area moves; pages that are mapped stay.*)
sys_brk(p) ==
    /\ pc[p] = "user"
    /\ \E n \in Heap : brk' = [brk EXCEPT ![p] = {v \in Heap : v <= n}]
    /\ UNCHANGED <<buddy, physVars, content, lk, pte, pc, todo, at, freeing, child, ustack>>
-----------------------------------------------------------------------------
(* do_fork(): uvm_space_copy()                                             *)
Fork(p) ==
    /\ pc[p] = "user"
    /\ \E c \in Procs :
         /\ pc[c] = "unused"
         /\ pc' = [pc EXCEPT ![p] = "fork", ![c] = "initing"]
         /\ child' = [child EXCEPT ![p] = c]
         /\ brk' = [brk EXCEPT ![c] = brk[p]]
    /\ todo' = [todo EXCEPT ![p] = VPages]
    /\ UNCHANGED <<buddy, physVars, content, lk, pte, at, freeing, ustack>>

(* Mutant: the parent keeps its permission to write.                       *)
copy_pgtableWritable(p) ==
    LET v == Min(todo[p]) c == child[p] g == pte[p][v].page IN
    /\ pc[p] = "fork" /\ todo[p] # {}
    /\ IF Mapped(p, v)
         THEN /\ lk[g] = NoProc
              /\ pte' = [pte EXCEPT ![c][v] = [page |-> g, w |-> FALSE]]
              /\ buddy' = pages_dup(buddy, g)
         ELSE UNCHANGED <<pte, buddy>>
    /\ todo' = [todo EXCEPT ![p] = @ \ {v}]
    /\ UNCHANGED <<physVars, content, lk, brk, pc, at, freeing, child, ustack>>

(* copy_pgtable(), one entry: both lose the permission to write.           *)
copy_pgtable(p) ==
    LET v == Min(todo[p]) c == child[p] g == pte[p][v].page IN
    /\ pc[p] = "fork" /\ todo[p] # {}
    /\ IF Mapped(p, v)
         THEN /\ lk[g] = NoProc
              /\ pte' = [pte EXCEPT ![p][v].w = FALSE,
                                    ![c][v] = [page |-> g, w |-> FALSE]]
              /\ buddy' = pages_dup(buddy, g)
         ELSE UNCHANGED <<pte, buddy>>
    /\ todo' = [todo EXCEPT ![p] = @ \ {v}]
    /\ UNCHANGED <<physVars, content, lk, brk, pc, at, freeing, child, ustack>>

ForkEnd(p) ==
    /\ pc[p] = "fork" /\ todo[p] = {}
    /\ pc' = [pc EXCEPT ![p] = "user", ![child[p]] = "user"]
    /\ child' = [child EXCEPT ![p] = NoProc]
    /\ UNCHANGED <<buddy, physVars, content, lk, pte, brk, todo, at, freeing, ustack>>
-----------------------------------------------------------------------------
(* do_exit(): freeproc() releases the memory.                              *)
Exit(p) ==
    /\ pc[p] = "user"
    /\ Goto(p, "exit") /\ todo' = [todo EXCEPT ![p] = VPages]
    /\ UNCHANGED <<buddy, physVars, content, lk, pte, brk, at, freeing, child, ustack>>

(* do_execve(): the program has been read and the arguments fit in a page; *)
(* that page is allocated before the old memory goes.                      *)
Exec(p) ==
    /\ pc[p] = "user" /\ HasBlock(buddy, 0)
    /\ ustack' = [ustack EXCEPT ![p] = Allocated(buddy, 0)]
    /\ \E x \in Vals : content' = [content EXCEPT ![Allocated(buddy, 0)] = x]
    /\ buddy' = pages_alloc(buddy, 0)
    /\ Goto(p, "exec") /\ todo' = [todo EXCEPT ![p] = VPages]
    /\ UNCHANGED <<physVars, lk, pte, brk, at, freeing, child>>

Leaving(p) == pc[p] \in {"exit", "exec"}

(* free_pgtable(), one entry: release_phypg() gives up the reference under *)
(* the page's lock; the last one is left to pages_free(), without it.      *)
release_phypg(p) ==
    LET v == Min(todo[p]) g == pte[p][v].page IN
    /\ Leaving(p) /\ todo[p] # {} /\ freeing[p] = NPages
    /\ todo' = [todo EXCEPT ![p] = @ \ {v}]
    /\ pte' = [pte EXCEPT ![p][v] = Unmapped]
    /\ IF Mapped(p, v)
         THEN /\ lk[g] = NoProc
              /\ freeing' = [freeing EXCEPT ![p] = IF buddy.count[g] = 1 THEN g ELSE NPages]
              /\ buddy' = pages_undup(buddy, g)
         ELSE UNCHANGED <<freeing, buddy>>
    /\ UNCHANGED <<physVars, content, lk, brk, pc, at, child, ustack>>

FreePage(p) ==
    /\ Leaving(p) /\ freeing[p] # NPages
    /\ buddy' = pages_free(buddy, freeing[p])
    /\ content' = [content EXCEPT ![freeing[p]] = FileVal]
    /\ freeing' = [freeing EXCEPT ![p] = NPages]
    /\ UNCHANGED <<physVars, lk, pte, brk, pc, todo, at, child, ustack>>

Gone(p) == Leaving(p) /\ todo[p] = {} /\ freeing[p] = NPages

ExitEnd(p) ==
    /\ pc[p] = "exit" /\ Gone(p)
    /\ Goto(p, "unused") /\ brk' = [brk EXCEPT ![p] = {}]
    /\ UNCHANGED <<buddy, physVars, content, lk, pte, todo, at, freeing, child, ustack>>

(* The new memory: map_user_stack() and no page else.                      *)
ExecEnd(p) ==
    /\ pc[p] = "exec" /\ Gone(p)
    /\ pte' = [pte EXCEPT ![p] = [NoMap EXCEPT ![Stack] =
                                     [page |-> ustack[p], w |-> TRUE]]]
    /\ brk' = [brk EXCEPT ![p] = {}]
    /\ ustack' = [ustack EXCEPT ![p] = NPages]
    /\ Goto(p, "user")
    /\ UNCHANGED <<buddy, physVars, content, lk, todo, at, freeing, child>>
-----------------------------------------------------------------------------
(* The rest of the kernel takes and gives back blocks and objects.         *)

KernelAlloc ==
    /\ Cardinality(kernel) < MaxKernel
    /\ \E n \in 1 .. Span(MaxOrder - 1) :
         LET k == get_power2(n) IN
         /\ HasBlock(buddy, k)
         /\ kernel' = kernel \cup {Allocated(buddy, k)}
         /\ buddy' = pages_alloc(buddy, k)
    /\ UNCHANGED <<slub, objs, content, lk, pte, brk, pc, todo, at, freeing, child, ustack>>

KernelFree ==
    /\ \E g \in kernel : kernel' = kernel \ {g} /\ buddy' = pages_free(buddy, g)
    /\ UNCHANGED <<slub, objs, content, lk, pte, brk, pc, todo, at, freeing, child, ustack>>

(* kmalloc(): a cache without room gets a page first, under the same lock. *)
Kmalloc ==
    /\ Cardinality(objs) < MaxObjs
    /\ \E size \in AskSizes :
         LET i == binary_search_ge(size)
             fresh == slub.partial[i] = <<>>
             s == IF fresh THEN new_slub_pages_node(slub, i, Allocated(buddy, 0)) ELSE slub
         IN  /\ fresh => HasBlock(buddy, 0)
             /\ buddy' = IF fresh THEN pages_alloc(buddy, 0) ELSE buddy
             /\ slub' = kmalloc(s, i)
             /\ objs' = objs \cup {<<SlubTake(s, i)[1], SlubTake(s, i)[2], size>>}
    /\ UNCHANGED <<kernel, content, lk, pte, brk, pc, todo, at, freeing, child, ustack>>

Kfree ==
    /\ \E o \in objs : objs' = objs \ {o} /\ slub' = kfree(slub, o[1], o[2])
    /\ UNCHANGED <<buddy, kernel, content, lk, pte, brk, pc, todo, at, freeing, child, ustack>>
-----------------------------------------------------------------------------
ProcStep(p) ==
    \/ Store(p) \/ SegFault(p) \/ do_no_page(p) \/ do_wp_page(p) \/ WpCopy(p)
    \/ sys_brk(p) \/ Fork(p) \/ copy_pgtable(p) \/ ForkEnd(p)
    \/ Exit(p) \/ Exec(p) \/ release_phypg(p) \/ FreePage(p) \/ ExitEnd(p) \/ ExecEnd(p)

Next == \/ \E p \in Procs : ProcStep(p)
        \/ KernelAlloc \/ KernelFree \/ Kmalloc \/ Kfree

Spec == Init /\ [][Next]_vars
-----------------------------------------------------------------------------
(* Properties                                                              *)

(* See PagesPartitionOf in Phys: blocks in use and free blocks tile the    *)
(* memory under every mix of page faults, forks and exits.                 *)
PagesPartition == PagesPartitionOf(buddy)

Users(g) == {u \in Procs \X VPages : pte[u[1]][u[2]].page = g}
Copying(g) == {p \in Procs : pc[p] = "copy" /\ pte[p][at[p]].page = g}
Freeing(g) == {p \in Procs : freeing[p] = g}

(* pages_dup(), pages_undup() and pages_free(): the count of a user page   *)
(* is the number of its mappings, less the ones that are being replaced by *)
(* a copy; a page that may be written is mapped once.                      *)
CountExact ==
    \A g \in Pages : Users(g) # {} \/ Freeing(g) # {} =>
       /\ buddy.count[g] = Cardinality(Users(g)) - Cardinality(Copying(g))
                             + Cardinality(Freeing(g))
       /\ buddy.order[g] = 0
       /\ (\E u \in Users(g) : pte[u[1]][u[2]].w) => Cardinality(Users(g)) = 1

Bytes(o) == {<<o[1], o[2] + i>> : i \in 0 .. o[3] - 1}

(* kmalloc() and kfree(): live objects are inside their page, overlap      *)
(* neither each other nor an object on a free list, and belong to pages    *)
(* the buddy system has given to nobody else.                              *)
ObjectsApart ==
    /\ \A o, q \in objs : o # q => Bytes(o) \cap Bytes(q) = {}
    /\ \A o \in objs :
         /\ o[2] >= NodeSize /\ o[2] + o[3] <= PGSIZE
         /\ o[3] <= slub_size[slub.linked[o[1]]]
         /\ \A j \in DOMAIN slub.obj_freelist[o[1]] :
              <<o[1], slub.obj_freelist[o[1]][j]>> \notin Bytes(o)
         /\ buddy.count[o[1]] = 1 /\ Users(o[1]) = {} /\ o[1] \notin kernel

(* The memory a process sees, and its own stack while it is in execve().   *)
Seen(p) ==
    [v \in VPages |->
       CASE pc[p] \in {"user", "copy", "fork"} ->
              IF Mapped(p, v) THEN content[pte[p][v].page] ELSE Absent
         [] pc[p] = "exec" -> IF v = Stack THEN content[ustack[p]] ELSE Absent
         [] OTHER -> Absent]

Private == INSTANCE PrivateMemory WITH
    alive <- {p \in Procs : pc[p] \in {"user", "copy", "fork", "exec"}},
    mem   <- [p \in Procs |-> Seen(p)]

(* Copy-on-write is invisible: every process has memory of its own.        *)
ImplementsPrivateMemory == Private!Spec
=============================================================================
