----------------------------- MODULE PageTables -----------------------------
(***************************************************************************)
(* The paging structures of OvsbMk/kernel/memory.c, mach_o.c and           *)
(* elf64.zig, as functions on a record k of the kernel's state.            *)
(*                                                                         *)
(* All user addresses lie below entry 1 of a PML4, so a PML4 page stands   *)
(* for one PDPT ("table").  A table has a page directory of its own for    *)
(* the first gigabyte (identity map, programs linked at fixed addresses)   *)
(* and one for the second (PIE programs, heap, mmap arena), which it may   *)
(* lack or share: hi[t] names the table that allocated it.  Pages of a     *)
(* chunk (2 MB) are mapped together by a huge entry or one by one.  A      *)
(* directory or page-table page is never given back and is not counted;    *)
(* PML4 pages, 4 KB frames and the 2 MB blocks of program images come from *)
(* the pool k.free; a block is one allocation, so all its pages name it.   *)
(***************************************************************************)
EXTENDS Integers, Sequences, FiniteSets, FiniteSetsExt, SequencesExt

CONSTANTS
    NFrames,    \* what the pool holds, in allocations
    NTables,    \* bound: PDPTs ever allocated
    NPages,     \* pages of user memory 0..NPages-1; page 0 is in the first gigabyte
    ChunkPages  \* pages of a chunk (512)

ASSUME PageTablesAssumption ==
    NFrames \in Nat \ {0} /\ NTables \in Nat \ {0} /\ NPages \in Nat \ {0} /\ ChunkPages \in Nat \ {0}

Frame == 1..NFrames
Page  == 0..(NPages - 1)
Table == 1..NTables
Outside == NFrames + 1          \* physical memory that is not the pool's
Absent == [f |-> 0, huge |-> FALSE, w |-> FALSE]
Pte == [f : 0..Outside, huge : BOOLEAN, w : BOOLEAN]

High(pg) == pg > 0
Chunk(pg) == (pg + ChunkPages - 1) \div ChunkPages
ChunkOf(pg) == {q \in Page : Chunk(q) = Chunk(pg)}

\* The allocator hands out one frame; which one is not told apart.
Alloc(k) == Min(k.free)
Take(k, f) == [k EXCEPT !.free = @ \ {f}]
Give(k, f) == [k EXCEPT !.free = IF f \in Frame THEN @ \union {f} ELSE @]

\* The directory that maps pg for a process whose PDPT is t; 0 when there is none.
Dir(k, t, pg) == IF High(pg) THEN k.hi[t] ELSE t
Entry(k, t, pg) == IF Dir(k, t, pg) = 0 THEN Absent ELSE k.pte[Dir(k, t, pg)][pg]
Present(k, t, pg) == Entry(k, t, pg).f # 0

\* A directory is allocated for the second gigabyte where there is none.
Ensure(k, t, pg) == IF Dir(k, t, pg) = 0 THEN [k EXCEPT !.hi[t] = t] ELSE k
SetEntry(k, t, pg, e) ==
    LET d == Ensure(k, t, pg) IN [d EXCEPT !.pte[Dir(d, t, pg)][pg] = e]

\* Each 4 KB entry keeps the frame and the flags of the huge one.
split_2mb_pde(k, t, pg) ==
    IF Dir(k, t, pg) = 0 THEN k
    ELSE [k EXCEPT !.pte[Dir(k, t, pg)] =
            [q \in Page |-> IF q \in ChunkOf(pg) THEN [@[q] EXCEPT !.huge = FALSE] ELSE @[q]]]

\* A page already mapped is left as it is.
CanMap(k, t, pg) == Present(k, t, pg) \/ k.free # {}
map_user_4kb(k, t, pg) ==
    IF Present(k, t, pg) THEN k
    ELSE SetEntry(Take(k, Alloc(k)), t, pg, [f |-> Alloc(k), huge |-> FALSE, w |-> TRUE])

\* A whole chunk as one huge entry onto block f; whatever the chunk had is gone.
map_2mb_ensure(k, t, pg, f) ==
    LET d == Ensure(k, t, pg) IN
    [d EXCEPT !.pte[Dir(d, t, pg)] =
        [q \in Page |-> IF q \in ChunkOf(pg) THEN [f |-> f, huge |-> TRUE, w |-> TRUE] ELSE @[q]]]

\* An identity entry for a chunk that has none; where there is no directory, nothing.
pml4_add_user(k, t, pg) ==
    IF Dir(k, t, pg) = 0 \/ \E q \in ChunkOf(pg) : Present(k, t, q) THEN k
    ELSE map_2mb_ensure(k, t, pg, Outside)

\* pml4_create copies the entries of the PML4 that is loaded: the new PML4 page
\* leads to the same PDPT.  pml4_destroy gives back that one page.
pml4_create(k, t) == [k |-> Take(k, Alloc(k)), root |-> [page |-> Alloc(k), tbl |-> t]]
pml4_destroy(k, root) == Give(k, root.page)

\* A new PDPT with a directory of its own for the first gigabyte, without the
\* chunks that are split and without user rights; the other entries of the
\* PDPT are copied.
clone_identity_tables(k, t) ==
    [k    |-> [Take(k, Alloc(k)) EXCEPT !.ntab = @ + 1,
                                        !.hi[k.ntab + 1] = k.hi[t]],
     root |-> [page |-> Alloc(k), tbl |-> k.ntab + 1]]

\* The loaders: a fresh block for the chunk of the image, mapped as one huge
\* entry before the file is copied in.  The one of Mach-O files makes no
\* directory; its programs are linked in the first gigabyte.
elf64_load_into_pml4(k, t, pg) == map_2mb_ensure(Take(k, Alloc(k)), t, pg, Alloc(k))
map_2mb_in_pml4(k, t, pg, f) == IF Dir(k, t, pg) = 0 THEN k ELSE map_2mb_ensure(k, t, pg, f)
mach_o_load_into_pml4(k, t, pg) == map_2mb_in_pml4(Take(k, Alloc(k)), t, pg, Alloc(k))
=============================================================================
