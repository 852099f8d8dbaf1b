-------------------------------- MODULE VmMap --------------------------------
(***************************************************************************)
(* OvsbMk/kernel/vm_map.c: the regions a process has asked for with mmap   *)
(* (vm_map), the anonymous objects that hold their frames (vm_object) and  *)
(* what mmap, munmap and mprotect do to both and to the page tables.       *)
(*                                                                         *)
(* A region is an entry [start, end, obj]; obj is 0 when the entry has no  *)
(* object.  The list of a map is kept in the order of the addresses, which *)
(* a set of disjoint entries determines.  Protection is kept as the write  *)
(* bit of the page-table entries; the copy in the map entry is never read. *)
(***************************************************************************)
EXTENDS PageTables

CONSTANTS
    NObjects,   \* bound: objects the kernel heap has room for
    MaxLen,     \* bound: pages of one mmap
    ArenaBase,  \* first address tried without a hint (0x70000000)
    MaxOffset,  \* end of the addresses a map may hold (0x7FFFF000)
    MaxTries    \* candidates tried (100)

ASSUME VmMapAssumption ==
    /\ NObjects \in Nat \ {0} /\ MaxLen \in Nat \ {0} /\ MaxTries \in Nat
    /\ ArenaBase \in Page /\ MaxOffset \in 1..NPages

Obj == 1..NObjects
NoObject == [ref |-> 0, pages |-> [i \in 0..(MaxLen - 1) |-> 0]]
Objects == [ref : 0..2, pages : [0..(MaxLen - 1) -> 0..NFrames]]
Regions == [start : Page, end : 1..NPages, obj : 0..NObjects]

Meets(e, a, b) == e.start < b /\ e.end > a
\* Mutant: an entry counts only when it holds the whole range.
overlap_Variant(map, a, b) == \E e \in map : e.start <= a /\ e.end >= b
overlap(map, a, b) == \E e \in map : Meets(e, a, b)
vm_map_covers(map, pg) == \E e \in map : e.start <= pg /\ pg < e.end
Range2(a, b) == {pg \in Page : a <= pg /\ pg < b}

\* Objects: created with one reference, shared by the entry, destroyed with
\* their frames when the last reference goes.
FreeObjects(k) == {o \in Obj : k.obj[o].ref = 0}
vm_object_create(k, o) == [k EXCEPT !.obj[o] = [NoObject EXCEPT !.ref = 1]]
vm_object_share(k, o) == IF o = 0 THEN k ELSE [k EXCEPT !.obj[o].ref = @ + 1]
vm_object_destroy(k, o) ==
    IF o = 0 THEN k
    ELSE IF k.obj[o].ref > 1 THEN [k EXCEPT !.obj[o].ref = @ - 1]
    ELSE [k EXCEPT !.free = @ \union ({k.obj[o].pages[i] : i \in DOMAIN k.obj[o].pages} \ {0}),
                   !.obj[o] = NoObject]

\* obj_get_page on s = [k, ok]: the frame of page i of object o, allocated on
\* the first use; ok is FALSE once the pool was empty.
obj_get_page(s, o, i) ==
    IF ~s.ok \/ s.k.obj[o].pages[i] # 0 THEN s
    ELSE IF s.k.free = {} THEN [s EXCEPT !.ok = FALSE]
    ELSE [s EXCEPT !.k = [Take(@, Alloc(@)) EXCEPT !.obj[o].pages[i] = Alloc(s.k)]]

\* vm_map_fixed inserts an entry unless it would overlap another.
CanInsert(map, a, len) == ~overlap(map, a, a + len)
vm_map_fixed(k, p, o, a, len) ==
    [vm_object_share(k, o) EXCEPT !.map[p] = @ \union {[start |-> a, end |-> a + len, obj |-> o]}]

\* vm_map_find: the first candidate from the hint on that no entry overlaps; -1 if none.
Candidates(map, hint, len) ==
    LET first == IF hint = 0 THEN ArenaBase ELSE hint IN
    {a \in first..(first + MaxTries - 1) : a + len <= MaxOffset /\ CanInsert(map, a, len)}
vm_map_find(map, hint, len) ==
    LET c == Candidates(map, hint, len) IN IF c = {} THEN -1 ELSE Min(c)

\* Only entries wholly inside the range go.
vm_map_remove(k, p, a, b) ==
    LET gone == {e \in k.map[p] : e.start >= a /\ e.end <= b} IN
    [FoldFunction(LAMBDA o, acc : vm_object_destroy(acc, o), k, [e \in gone |-> e.obj])
        EXCEPT !.map[p] = @ \ gone]

\* The frames of one chunk of the new entry e: a huge entry is replaced in the
\* range, once all its frames are there; a 4 KB page that is present is skipped.
WireChunk(s, t, e, pages) ==
    LET huge == \E pg \in pages : Entry(s.k, t, pg).huge
        want == IF huge THEN pages ELSE {pg \in pages : ~Present(s.k, t, pg)}
        got  == FoldLeft(LAMBDA acc, pg : obj_get_page(acc, e.obj, pg - e.start),
                         s, SetToSortSeq(want, <))
        wired == IF huge /\ ~got.ok THEN {}
                 ELSE {pg \in want : got.k.obj[e.obj].pages[pg - e.start] # 0}
        split == IF wired = {} THEN got.k ELSE split_2mb_pde(got.k, t, Min(wired))
        Map(acc, pg) == SetEntry(acc, t, pg,
            [f |-> got.k.obj[e.obj].pages[pg - e.start], huge |-> FALSE, w |-> TRUE])
    IN IF ~s.ok THEN s ELSE [got EXCEPT !.k = FoldLeft(Map, split, SetToSortSeq(wired, <))]

vm_map_wire(k, t, e) ==
    LET pages == Range2(e.start, e.end)
        chunks == SetToSortSeq({Chunk(pg) : pg \in pages}, <) IN
    FoldLeft(LAMBDA s, c : WireChunk(s, t, e, {pg \in pages : Chunk(pg) = c}),
             [k |-> k, ok |-> TRUE], chunks)

\* vm_mmap.  The creator's reference to the object is not given up when the
\* entry has taken its own, so an object in use has two.
vm_mmap(k, p, hint, fixed, len) ==
    LET o == Min(FreeObjects(k))
        made == vm_object_create(k, o)
        a == IF ~fixed THEN vm_map_find(k.map[p], hint, len)
             ELSE IF hint + len <= NPages /\ CanInsert(k.map[p], hint, len) THEN hint ELSE -1
        t == k.pml4[p].tbl
        wire == vm_map_wire(vm_map_fixed(made, p, o, a, len), t,
                            [start |-> a, end |-> a + len, obj |-> o]) IN
    IF FreeObjects(k) = {} THEN k
    ELSE IF a = -1 THEN vm_object_destroy(made, o)
    ELSE IF wire.ok THEN wire.k
    ELSE vm_map_remove(wire.k, p, a, a + len)

\* Mutant: munmap leaves the page-table entries alone.
ClearRange_Variant(k, t, a, b) == k

\* Clearing the page-table entries of a range splits the huge ones it touches.
ClearRange(k, t, a, b) ==
    FoldLeft(LAMBDA acc, pg : IF Present(acc, t, pg)
                              THEN SetEntry(split_2mb_pde(acc, t, pg), t, pg, Absent) ELSE acc,
             k, SetToSortSeq(Range2(a, b), <))

\* Mutant: the object keeps its reference to a frame that went back.
DropObject_Variant(k, p, e, a, b) ==
    LET inside == {i \in 0..(e.end - e.start - 1) : a <= e.start + i /\ e.start + i < b}
        back == {k.obj[e.obj].pages[i] : i \in inside} \ {0} IN
    IF e.obj = 0 THEN k
    ELSE vm_object_destroy([k EXCEPT !.free = @ \union back,
                              !.map[p] = (@ \ {e}) \union {[e EXCEPT !.obj = 0]}], e.obj)

\* What munmap does to the object of one entry: the frames of the pages inside
\* the range go back, and the entry's reference with them.
DropObject(k, p, e, a, b) ==
    LET inside == {i \in 0..(e.end - e.start - 1) : a <= e.start + i /\ e.start + i < b}
        back == {k.obj[e.obj].pages[i] : i \in inside} \ {0}
        cut == [k EXCEPT !.free = @ \union back,
                         !.obj[e.obj].pages = [i \in DOMAIN @ |-> IF i \in inside THEN 0 ELSE @[i]],
                         !.map[p] = (@ \ {e}) \union {[e EXCEPT !.obj = 0]}] IN
    IF e.obj = 0 THEN k ELSE vm_object_destroy(cut, e.obj)

vm_munmap(k, p, a, len) ==
    LET met == {e \in k.map[p] : Meets(e, a, a + len)}
        dropped == FoldSet(LAMBDA e, acc : DropObject(acc, p, e, a, a + len), k, met)
        cleared == ClearRange(dropped, k.pml4[p].tbl, a, a + len) IN
    vm_map_remove(cleared, p, a, a + len)

vm_mprotect(k, p, a, len, w) ==
    FoldLeft(LAMBDA acc, pg :
                IF Present(acc, k.pml4[p].tbl, pg)
                THEN LET s == split_2mb_pde(acc, k.pml4[p].tbl, pg) IN
                     SetEntry(s, k.pml4[p].tbl, pg, [Entry(s, k.pml4[p].tbl, pg) EXCEPT !.w = w])
                ELSE acc,
             k, SetToSortSeq(Range2(a, a + len), <))
=============================================================================
