---------------------------- MODULE BuddyAllocator ----------------------------
(***************************************************************************)
(* The binary buddy allocator of kernel/memory.c: the tag array frames[],  *)
(* the free lists free_area[] and the operations buddy_alloc, buddy_free,   *)
(* mmap_user, munmap_user and munmap_all_user.                              *)
(*                                                                         *)
(* Frame numbers stand for addresses (addr_to_frame / frame_to_addr).  A    *)
(* tag keeps the three fields of the byte: FRAME_ORDER, FRAME_ALLOC and     *)
(* FRAME_USER.  A free list is the sequence of the frames that head its     *)
(* blocks, the list head first.  The lock makes every operation atomic.     *)
(***************************************************************************)
EXTENDS Integers, Sequences, FiniteSets, FiniteSetsExt, SequencesExt

CONSTANT MaxOrder      \* MAX_ORDER: the heap is one block of this order

ASSUME MaxOrderAssumption == MaxOrder \in Nat

VARIABLES
    frames,            \* frames[FRAME_COUNT]
    free_area,         \* free_area[MAX_ORDER + 1]
    held               \* history: the blocks callers own

vars == <<frames, free_area, held>>

Orders == 0..MaxOrder
Frames == 0..(2^MaxOrder - 1)
None == -1             \* the NULL pointer

Tag == [order : Orders, alloc : BOOLEAN, user : BOOLEAN]

FreeTag(o) == [order |-> o, alloc |-> FALSE, user |-> FALSE]

FramesOf(b) == b.idx..(b.idx + 2^b.order - 1)

-----------------------------------------------------------------------------
(* The allocator's own functions, on a heap [frames, free_area]. *)

Heap == [frames |-> frames, free_area |-> free_area]

\* idx ^ (1 << order)
BuddyOf(i, o) == IF (i \div 2^o) % 2 = 0 THEN i + 2^o ELSE i - 2^o

\* The head of the block of order o that holds frame i: idx after the merges,
\* each of which takes the lower of two buddies.
HeadAt(i, o) == i - (i % 2^o)

list_add(list, f) == <<f>> \o list

list_remove(list, f) == SelectSeq(list, LAMBDA g : g # f)

\* Lists of at least this order that have a block.
Usable(h, order) == {o \in order..MaxOrder : h.free_area[o] # << >>}

\* Take the head of the first usable list, put the upper half of every split
\* on the list below, tag what is left.
buddy_alloc(h, order, user) ==
    IF Usable(h, order) = {} THEN [heap |-> h, idx |-> None]
    ELSE LET found == Min(Usable(h, order))
             block == Head(h.free_area[found])
             split == order..(found - 1)
             upper == [o \in split |-> BuddyOf(block, o)]
         IN [heap |->
               [frames |-> [f \in Frames |->
                   IF f = block
                     THEN [order |-> order, alloc |-> TRUE, user |-> user]
                   ELSE IF \E o \in split : f = upper[o]
                     THEN FreeTag(CHOOSE o \in split : f = upper[o])
                   ELSE h.frames[f]],
                free_area |-> [o \in Orders |->
                   IF o = found THEN Tail(h.free_area[o])
                   ELSE IF o \in split THEN list_add(h.free_area[o], upper[o])
                   ELSE h.free_area[o]]],
             idx |-> block]

\* Mutant: the merge test forgets the order of the buddy.
BuddyIsFreeAnyOrder(h, i, o) == ~h.frames[BuddyOf(HeadAt(i, o), o)].alloc

\* The test of the merge loop: the byte of the buddy, USER bit ignored.
BuddyIsFree(h, i, o) ==
    LET t == h.frames[BuddyOf(HeadAt(i, o), o)] IN ~t.alloc /\ t.order = o

\* Mutant: one merge at most.
MergedOrderOnce(h, i, o) ==
    IF o < MaxOrder /\ BuddyIsFree(h, i, o) THEN o + 1 ELSE o

\* The order at which the merge loop of a block of order o stops.
MergedOrder(h, i, o) ==
    Min({m \in o..MaxOrder : m = MaxOrder \/ ~BuddyIsFree(h, i, m)})

\* Mutant: only the final head is tagged, the freed block keeps its ALLOC bit.
buddy_free_StaleTag(h, i, order) ==
    LET top == MergedOrder(h, i, order)
    IN [frames |-> [h.frames EXCEPT ![HeadAt(i, top)] = FreeTag(top)],
        free_area |-> [o \in Orders |->
            IF o = top THEN list_add(h.free_area[o], HeadAt(i, o))
            ELSE IF o \in order..(top - 1)
              THEN list_remove(h.free_area[o], BuddyOf(HeadAt(i, o), o))
            ELSE h.free_area[o]]]

\* Merge upwards while the buddy is free and whole; each merged buddy leaves
\* its list, each new head gets its order, the result goes on its list.
buddy_free(h, i, order) ==
    LET top    == MergedOrder(h, i, order)
        merged == order..(top - 1)
        heads  == [o \in order..top |-> HeadAt(i, o)]
    IN [frames |-> [f \in Frames |->
            IF \E o \in order..top : f = heads[o]
              THEN FreeTag(Max({o \in order..top : f = heads[o]}))
            ELSE h.frames[f]],
        free_area |-> [o \in Orders |->
            IF o = top THEN list_add(h.free_area[o], heads[o])
            ELSE IF o \in merged
              THEN list_remove(h.free_area[o], BuddyOf(heads[o], o))
            ELSE h.free_area[o]]]

\* Mutant: the scan steps over a block by its order after the merges.
ScanFrameSkipsMerged(s, i) ==
    IF i < s.next THEN s
    ELSE LET t == s.heap.frames[i]
         IN IF t.alloc /\ t.user
              THEN [heap |-> buddy_free(s.heap, i, t.order),
                    next |-> i + 2^MergedOrder(s.heap, i, t.order)]
              ELSE [s EXCEPT !.next = i + 1]

\* One step of the scan of munmap_all_user; s.next is the loop's i.
ScanFrame(s, i) ==
    IF i < s.next THEN s
    ELSE LET t == s.heap.frames[i]
         IN IF t.alloc /\ t.user
              THEN [heap |-> buddy_free(s.heap, i, t.order), next |-> i + 2^t.order]
              ELSE [s EXCEPT !.next = i + 1]

FreeAllUser(h) ==
    FoldLeft(ScanFrame, [heap |-> h, next |-> 0],
             [k \in 1..(2^MaxOrder) |-> k - 1]).heap

\* while ((1UL << order) < pages) order++
OrderFor(pages) == CHOOSE o \in 0..(MaxOrder + 1) :
                      /\ 2^o >= pages
                      /\ \A p \in 0..(o - 1) : 2^p < pages

-----------------------------------------------------------------------------
(* The operations callers reach. *)

\* memory_init: one free block, every other byte zero.
Init ==
    /\ frames = [f \in Frames |-> FreeTag(IF f = 0 THEN MaxOrder ELSE 0)]
    /\ free_area = [o \in Orders |-> IF o = MaxOrder THEN <<0>> ELSE << >>]
    /\ held = {}

\* mmap_user (user) and the page path of kmalloc (not user).  The callers ask
\* for one page at least; more than the heap gives an order buddy_alloc refuses.
AllocPages(pages, user) ==
    LET order == OrderFor(pages)
        r     == buddy_alloc(Heap, order, user)
    IN /\ order \in Orders
       /\ r.idx # None
       /\ frames' = r.heap.frames
       /\ free_area' = r.heap.free_area
       /\ held' = held \cup {[idx |-> r.idx, order |-> order, user |-> user]}

\* munmap_user, and kfree of a block of order 1 or more: the order comes from
\* the tag, a block whose tag is not ALLOC is left alone.
FreePages(b) ==
    LET t == frames[b.idx]
        h == IF t.alloc THEN buddy_free(Heap, b.idx, t.order) ELSE Heap
    IN /\ frames' = h.frames
       /\ free_area' = h.free_area
       /\ held' = held \ {b}

munmap_all_user ==
    LET h == FreeAllUser(Heap)
    IN /\ frames' = h.frames
       /\ free_area' = h.free_area
       /\ held' = {b \in held : ~b.user}

Next ==
    \/ \E pages \in 1..(2^MaxOrder + 1), user \in BOOLEAN : AllocPages(pages, user)
    \/ \E b \in held : FreePages(b)
    \/ munmap_all_user

Spec == Init /\ [][Next]_vars

-----------------------------------------------------------------------------
(* Properties. *)

FreeBlocks == UNION {{[idx |-> f, order |-> o] : f \in ToSet(free_area[o])} : o \in Orders}

\* Types: tags are tag bytes, and every block on a list or in a caller's hands
\* is aligned to its own size (the xor that finds a buddy needs it).
TypeOK ==
    /\ frames \in [Frames -> Tag]
    /\ \A o \in Orders : /\ free_area[o] \in Seq(Frames)
                         /\ \A f \in ToSet(free_area[o]) : f % 2^o = 0
    /\ \A b \in held : b.idx \in Frames /\ b.idx % 2^b.order = 0

\* No frame is in two places: the blocks callers hold and the blocks on the free
\* lists are pairwise disjoint and no list has a block twice, whatever order of
\* buddy_alloc, buddy_free and munmap_all_user led here.
BlocksApart ==
    /\ \A o \in Orders : IsInjective(free_area[o])
    /\ \A b, c \in held \cup FreeBlocks : b # c => FramesOf(b) \cap FramesOf(c) = {}

\* No frame is lost: each is in a block that a caller holds or that a list has.
NoFrameLost == UNION {FramesOf(b) : b \in held \cup FreeBlocks} = Frames

\* buddy_alloc refuses only what does not fit: as long as some aligned run of
\* 2^o frames is free of callers' blocks, a list of order o or more has a block.
\* This is what merging in buddy_free is for.
FitsMeansGranted ==
    \A o \in Orders :
        (\E i \in Frames : /\ i % 2^o = 0
                           /\ \A b \in held : FramesOf(b) \cap (i..(i + 2^o - 1)) = {})
        => Usable(Heap, o) # {}

\* kfree, munmap_user and munmap_all_user decide by tags alone: a frame has the
\* ALLOC bit iff it heads a block a caller holds, with that block's order and
\* USER bit; a block on a list has its list's order.  Stale bytes inside blocks
\* never look like a block.
TagsTruthful ==
    /\ \A b \in held : frames[b.idx] = [order |-> b.order, alloc |-> TRUE, user |-> b.user]
    /\ \A f \in Frames : frames[f].alloc => \E b \in held : b.idx = f
    /\ \A b \in FreeBlocks : frames[b.idx].order = b.order

\* buddy_alloc, buddy_free and munmap_all_user implement PageAllocator: a block
\* granted is disjoint from all others out, and a step takes back what it is
\* asked to take back and nothing else.
Pages == INSTANCE PageAllocator
ImplementsPageAllocator == Pages!Spec
=============================================================================
