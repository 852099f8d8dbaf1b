------------------------------ MODULE KernelHeap ------------------------------
(***************************************************************************)
(* kmalloc and kfree of kernel/memory.c over the buddy allocator: the       *)
(* per-CPU page pool, the slab caches and the per-CPU object pools.          *)
(*                                                                         *)
(* An object is <<page, slot>>.  slab[p] holds the header of page p.  A page *)
(* that is no slab any more keeps the word SLAB_MAGIC until something         *)
(* overwrites it: list_add of the buddy allocator, which stores the link in   *)
(* the first word of the page, or the zeroing in mmap_user.  The rest of an   *)
(* old header is not kept, since nothing reads it.                            *)
(***************************************************************************)
EXTENDS BuddyAllocator

CONSTANTS
    CacheSizes,        \* sizes[CACHE_COUNT], ascending
    FrameSize,         \* FRAME_SIZE
    SlabHeader,        \* sizeof(slab_t)
    PagePool,          \* PCPU_PAGE_POOL
    ObjCache,          \* PCPU_OBJ_CACHE
    ObjRefill,         \* PCPU_OBJ_REFILL
    Requests           \* the sizes callers ask for

Caches == 1..Len(CacheSizes)
Smallest == CacheSizes[1]
PageSizes == CacheSizes[Len(CacheSizes)]    \* kmalloc's 2048: pages from here on

ASSUME HeapAssumption ==
    /\ \A c \in Caches : CacheSizes[c] \in 1..(FrameSize - SlabHeader)
    /\ ObjRefill <= ObjCache
    /\ Requests \subseteq Nat

VARIABLES
    pcpu_pages,        \* pcpu_pages.pages[0..count), the top last
    pcpu_objects,      \* the same for each cache
    slabs,             \* kmem_cache.slabs: the pages of each cache, head first
    slab,              \* the header at the start of each page
    live               \* history: the objects callers own

hvars == <<frames, free_area, held, pcpu_pages, pcpu_objects, slabs, slab, live>>

SlotsOf(c) == 0..((FrameSize - SlabHeader) \div CacheSizes[c] - 1)
Objects == {<<p, k>> : p \in Frames, k \in 0..(FrameSize - 1)}

NoSlab == [magic |-> FALSE, cache |-> 1, in_use |-> 0, freelist |-> << >>]

\* All state the allocator changes, as one value: an operation is a function
\* from one such value to the next.
State == [heap |-> Heap, pages |-> pcpu_pages, objs |-> pcpu_objects,
          slabs |-> slabs, slab |-> slab]

\* Mutant: a list link does not cover the word the magic is in.
WithHeapKeepsMagic(s, h) == [s EXCEPT !.heap = h]

\* list_add overwrites the first word of the pages it puts on a list.
WithHeap(s, h) ==
    LET listed == UNION {ToSet(h.free_area[o]) : o \in Orders}
    IN [s EXCEPT !.heap = h,
                 !.slab = [p \in Frames |->
                     IF p \in listed THEN [@[p] EXCEPT !.magic = FALSE] ELSE @[p]]]

-----------------------------------------------------------------------------
(* The allocator's functions.  Each gives the next state and a result. *)

Pop(s, p) ==
    [obj |-> <<p, Head(s.slab[p].freelist)>>,
     st  |-> [s EXCEPT !.slab[p].freelist = Tail(@), !.slab[p].in_use = @ + 1]]

NoObj == << >>

Fail(s) == [obj |-> NoObj, st |-> s]

\* The freelist a fresh slab builds: the last slot first.
FreshFreelist(c) == [k \in 1..Cardinality(SlotsOf(c)) |-> Cardinality(SlotsOf(c)) - k]

\* The first slab of the cache with a free object, else a new slab.
slab_alloc(s, c) ==
    LET open == SelectSeq(s.slabs[c], LAMBDA p : s.slab[p].freelist # << >>)
        page == buddy_alloc(s.heap, 0, FALSE)
        new  == [WithHeap(s, page.heap) EXCEPT
                   !.slabs[c] = <<page.idx>> \o @,
                   !.slab[page.idx] = [magic |-> TRUE, cache |-> c, in_use |-> 0,
                                       freelist |-> FreshFreelist(c)]]
    IN IF open # << >> THEN Pop(s, Head(open))
       ELSE IF page.idx = None THEN Fail(s)
       ELSE Pop(new, page.idx)

\* The free of one object to its slab (slab_free, and twice in pcpu_slab_free):
\* the last object out frees the page.
Push(s, obj) ==
    LET p == obj[1]
        t == [s EXCEPT !.slab[p].freelist = <<obj[2]>> \o @, !.slab[p].in_use = @ - 1]
    IN IF t.slab[p].in_use # 0 THEN t
       ELSE WithHeap([t EXCEPT !.slabs[t.slab[p].cache] = list_remove(@, p),
                               !.slab[p] = [NoSlab EXCEPT !.magic = TRUE]],
                     buddy_free(t.heap, p, 0))

\* Mutant: the refill does not count the objects it takes.
RefilledUncounted(s, c, p) ==
    LET list == s.slab[p].freelist
        n    == Min({ObjRefill, Len(list), ObjCache + 1})
    IN [s EXCEPT !.slab[p].freelist = SubSeq(@, n + 1, Len(@)),
                 !.objs[c] = [i \in 1..Min({n, ObjCache}) |-> <<p, list[i]>>]]

\* The refill loop of pcpu_slab_alloc, on the slab p the object came from and
\* an empty pool.  The object that finds the pool full is popped and dropped.
Refilled(s, c, p) ==
    LET list == s.slab[p].freelist
        n    == Min({ObjRefill, Len(list), ObjCache + 1})
    IN [s EXCEPT !.slab[p].freelist = SubSeq(@, n + 1, Len(@)),
                 !.slab[p].in_use = @ + n,
                 !.objs[c] = [i \in 1..Min({n, ObjCache}) |-> <<p, list[i]>>]]

pcpu_slab_alloc(s, c) ==
    LET pool == s.objs[c]
        r    == slab_alloc(s, c)
    IN IF pool # << >>
         THEN [obj |-> Last(pool), st |-> [s EXCEPT !.objs[c] = Front(@)]]
       ELSE IF r.obj = NoObj THEN r
       ELSE [r EXCEPT !.st = Refilled(r.st, c, r.obj[1])]

\* Into the pool; a full pool is drained first, top down, and the object then
\* goes straight to its slab.
pcpu_slab_free(s, obj) ==
    LET c == s.slab[obj[1]].cache
    IN IF Len(s.objs[c]) < ObjCache THEN [s EXCEPT !.objs[c] = Append(@, obj)]
       ELSE FoldLeft(Push, [s EXCEPT !.objs[c] = << >>], Append(Reverse(s.objs[c]), obj))

pcpu_page_alloc(s) ==
    LET r == buddy_alloc(s.heap, 0, FALSE)
    IN IF s.pages # << >>
         THEN [idx |-> Last(s.pages), st |-> [s EXCEPT !.pages = Front(@)]]
       ELSE [idx |-> r.idx, st |-> WithHeap(s, r.heap)]

\* Mutant: a page goes to the free list and to the pool.
pcpu_page_free_Both(s, p) ==
    LET t == WithHeap(s, buddy_free(s.heap, p, 0))
    IN IF Len(s.pages) < PagePool THEN [t EXCEPT !.pages = Append(@, p)] ELSE t

pcpu_page_free(s, p) ==
    IF Len(s.pages) < PagePool THEN [s EXCEPT !.pages = Append(@, p)]
    ELSE WithHeap(s, buddy_free(s.heap, p, 0))

-----------------------------------------------------------------------------
(* The entry points. *)

HeapInit ==
    /\ Init
    /\ pcpu_pages = << >>
    /\ pcpu_objects = [c \in Caches |-> << >>]
    /\ slabs = [c \in Caches |-> << >>]
    /\ slab = [p \in Frames |-> NoSlab]
    /\ live = {}

Become(s) ==
    /\ frames' = s.heap.frames
    /\ free_area' = s.heap.free_area
    /\ pcpu_pages' = s.pages
    /\ pcpu_objects' = s.objs
    /\ slabs' = s.slabs
    /\ slab' = s.slab

\* The cache whose objects are the smallest that fit.
CacheFor(size) == Min({c \in Caches : CacheSizes[c] >= Max({size, Smallest})})

PagesFor(size) == (size + FrameSize - 1) \div FrameSize

kmalloc_small(size) ==
    LET r == pcpu_slab_alloc(State, CacheFor(size))
    IN /\ size # 0 /\ size < PageSizes
       /\ r.obj # NoObj
       /\ Become(r.st)
       /\ live' = live \cup {r.obj}
       /\ UNCHANGED held

kmalloc_pages(size) ==
    LET order == OrderFor(PagesFor(size))
        big   == buddy_alloc(Heap, order, FALSE)
        r     == IF order = 0 THEN pcpu_page_alloc(State)
                 ELSE [idx |-> big.idx, st |-> WithHeap(State, big.heap)]
    IN /\ size >= PageSizes
       /\ order \in Orders
       /\ r.idx # None
       /\ Become(r.st)
       /\ held' = held \cup {[idx |-> r.idx, order |-> order, user |-> FALSE]}
       /\ UNCHANGED live

\* mmap_user goes past the pool to the buddy allocator and zeroes the pages.
mmap_user(size) ==
    LET order == OrderFor(Max({1, PagesFor(size)}))
        r     == buddy_alloc(Heap, order, TRUE)
        s     == WithHeap(State, r.heap)
    IN /\ order \in Orders
       /\ r.idx # None
       /\ Become([s EXCEPT !.slab[r.idx].magic = FALSE])
       /\ held' = held \cup {[idx |-> r.idx, order |-> order, user |-> TRUE]}
       /\ UNCHANGED live

munmap_user(b) ==
    LET t == frames[b.idx]
    IN /\ Become(IF t.alloc THEN WithHeap(State, buddy_free(Heap, b.idx, t.order)) ELSE State)
       /\ held' = held \ {b}
       /\ UNCHANGED live

\* kfree of a block of pages: first the magic word, then the tag.
kfree_pages(b) ==
    LET t == frames[b.idx]
    IN /\ Become(IF slab[b.idx].magic THEN pcpu_slab_free(State, <<b.idx, None>>)
                 ELSE IF ~t.alloc THEN State
                 ELSE IF t.order = 0 THEN pcpu_page_free(State, b.idx)
                 ELSE WithHeap(State, buddy_free(Heap, b.idx, t.order)))
       /\ held' = held \ {b}
       /\ UNCHANGED live

\* kfree of an object: an address inside a page is only ever a slab's.
kfree_object(obj) ==
    /\ Become(IF slab[obj[1]].magic THEN pcpu_slab_free(State, obj) ELSE State)
    /\ live' = live \ {obj}
    /\ UNCHANGED held

HeapNext ==
    \/ \E size \in Requests : kmalloc_small(size) \/ kmalloc_pages(size) \/ mmap_user(size)
    \/ \E b \in held : munmap_user(b) \/ kfree_pages(b)
    \/ \E obj \in live : kfree_object(obj)

HeapSpec == HeapInit /\ [][HeapNext]_hvars

-----------------------------------------------------------------------------
(* Properties. *)

SlabPages == UNION {ToSet(slabs[c]) : c \in Caches}
Pooled == UNION {ToSet(pcpu_objects[c]) : c \in Caches}
FreeSlots(p) == {<<p, k>> : k \in ToSet(slab[p].freelist)}

\* Types, and the sizes of the two pools (PCPU_PAGE_POOL, PCPU_OBJ_CACHE).
HeapTypeOK ==
    /\ frames \in [Frames -> Tag]
    /\ pcpu_pages \in Seq(Frames) /\ Len(pcpu_pages) <= PagePool
    /\ \A c \in Caches : /\ slabs[c] \in Seq(Frames)
                         /\ ToSet(pcpu_objects[c]) \subseteq Objects
                         /\ Len(pcpu_objects[c]) <= ObjCache
    /\ \A p \in Frames : slab[p].in_use \in Nat
    /\ live \subseteq Objects

\* Every slot of every slab is in one place only: with a caller, in the object
\* pool of its cache or on the slab's freelist.  So kmalloc never gives one object
\* to two callers, no object is lost, and the drain of a full pool, which may
\* free pages, frees none that an object still lives in.
ObjectsApart ==
    /\ \A c \in Caches : IsInjective(pcpu_objects[c])
    /\ live \cap Pooled = {}
    /\ \A c \in Caches : \A p \in ToSet(slabs[c]) :
         LET out == {obj \in live \cup Pooled : obj[1] = p}
         IN /\ IsInjective(slab[p].freelist)
            /\ out \cap FreeSlots(p) = {}
            /\ out \cup FreeSlots(p) = {<<p, k>> : k \in SlotsOf(c)}
            /\ slab[p].in_use = Cardinality(out)
    /\ \A obj \in live \cup Pooled : obj[1] \in SlabPages

\* Every page is in one place only: a caller's block, a slab, the page pool or a
\* free list; and none is in no place.
PagesApart ==
    LET own == held \cup FreeBlocks
                \cup {[idx |-> p, order |-> 0] : p \in SlabPages}
                \cup {[idx |-> p, order |-> 0, pool |-> TRUE] : p \in ToSet(pcpu_pages)}
    IN /\ \A b, c \in own : b # c => FramesOf(b) \cap FramesOf(c) = {}
       /\ UNION {FramesOf(b) : b \in own} = Frames
       /\ IsInjective(pcpu_pages)
       /\ \A c \in Caches : IsInjective(slabs[c])

\* kfree tells a slab object from a block of pages by the word SLAB_MAGIC at the
\* start of the page: every slab has it, and no block that a caller or the page
\* pool owns begins with one left over from a slab freed earlier.
MagicMeansSlab ==
    /\ \A p \in SlabPages : slab[p].magic
    /\ \A b \in held : ~slab[b.idx].magic
    /\ \A p \in ToSet(pcpu_pages) : ~slab[p].magic
=============================================================================
