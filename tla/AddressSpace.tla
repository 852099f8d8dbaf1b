----------------------------- MODULE AddressSpace -----------------------------
(***************************************************************************)
(* The memory of user processes: mmap, munmap, mprotect and brk of         *)
(* syscall.c, the page-fault handler of idt.c, fork, wait and exit of      *)
(* process.c, execve and spawn of syscall.c and the exec command of        *)
(* shell.c, composed over VmMap and PageTables.                            *)
(*                                                                         *)
(* A system call is atomic: none of these gives up the processor.  Process *)
(* 0 is the shell, on the boot tables.  A slot of the process table is     *)
(* used once here; what a reused slot does is the subject of ProcessTable. *)
(***************************************************************************)
EXTENDS VmMap

CONSTANTS
    NProc,      \* processes 0..NProc-1
    Images,     \* where ELF programs are loaded: the first page of a chunk
    Hints,      \* hints programs give mmap (0: none)
    Lens,       \* lengths programs ask mmap for
    MaxBrk,     \* bound: the break
    Workload    \* "fixed" an mmap with MAP_FIXED, "protect" an mprotect,
                \* "fork" a fork, "exec" an execve or a spawn made by a program

ASSUME AddressSpaceAssumption ==
    /\ NProc \in Nat \ {0} /\ MaxBrk \in Page
    /\ Images \subseteq Page \ {0} /\ Hints \subseteq Page /\ Lens \subseteq 1..MaxLen
    /\ Workload \subseteq {"fixed", "protect", "fork", "exec"}

VARIABLES
    free,       \* frames the allocator has
    st,         \* "NONE", "LIVE", "ZOMBIE" or "GONE"
    pml4,       \* per process the PML4 page and the PDPT it leads to
    ntab,       \* PDPTs allocated so far
    hi,         \* per PDPT the PDPT that allocated its second directory
    pte,        \* page-table entries of a directory
    map,        \* vm_map: the regions of a process
    obj,        \* vm_objects
    brk         \* program_break: the first page above the heap

vars == <<free, st, pml4, ntab, hi, pte, map, obj, brk>>

Proc == 0..(NProc - 1)
MachO == 0                      \* where Mach-O programs are linked
NoRoot == [page |-> 0, tbl |-> 1]

Kernel == [free |-> free, st |-> st, pml4 |-> pml4, ntab |-> ntab, hi |-> hi,
           pte |-> pte, map |-> map, obj |-> obj, brk |-> brk]
\* The regions of a process that has ended, and directories no process can
\* reach, are never looked at again: their contents are forgotten.
Alive(k) == {p \in Proc : k.st[p] = "LIVE"}
Reached(k) == {k.pml4[p].tbl : p \in Alive(k)} \union {k.hi[k.pml4[p].tbl] : p \in Alive(k)}
Tidy(k) ==
    [k EXCEPT !.pte = [t \in Table |-> IF t \in Reached(k) THEN @[t] ELSE [pg \in Page |-> Absent]],
              !.map = [p \in Proc |-> IF p \in Alive(k) THEN @[p] ELSE {}],
              !.brk = [p \in Proc |-> IF p \in Alive(k) THEN @[p] ELSE 0]]
Move(k) ==
    /\ free' = k.free /\ st' = k.st /\ pml4' = k.pml4 /\ ntab' = k.ntab /\ hi' = k.hi
    /\ pte' = k.pte /\ map' = k.map /\ obj' = k.obj /\ brk' = k.brk
Become(k) == Move(Tidy(k))

Init ==
    /\ free = Frame
    /\ st = [p \in Proc |-> IF p = 0 THEN "LIVE" ELSE "NONE"]
    /\ pml4 = [p \in Proc |-> IF p = 0 THEN [page |-> Outside, tbl |-> 1] ELSE NoRoot]
    /\ ntab = 1
    /\ hi = [t \in Table |-> 0]
    /\ pte = [t \in Table |-> [pg \in Page |-> Absent]]
    /\ map = [p \in Proc |-> {}]
    /\ obj = [o \in Obj |-> NoObject]
    /\ brk = [p \in Proc |-> 0]

User(p) == p # 0 /\ st[p] = "LIVE"
Arena == ArenaBase..(MaxOffset - 1)
Slots == {c \in Proc : st[c] = "NONE"}

-----------------------------------------------------------------------------
(* Memory system calls and the page fault.                                 *)

\* Whatever the caller asks for, the memory is anonymous.
SYS_mmap(p, hint, fixed, len) ==
    /\ User(p) /\ (fixed => "fixed" \in Workload /\ hint # 0)
    /\ Become(vm_mmap(Kernel, p, hint, fixed, len))

SYS_munmap(p, a, len) == User(p) /\ Become(vm_munmap(Kernel, p, a, len))

SYS_mprotect(p, a, len, w) ==
    User(p) /\ "protect" \in Workload /\ Become(vm_mprotect(Kernel, p, a, len, w))

\* Growing maps page by page, and stops without undoing where the pool is
\* empty; shrinking only moves the break.
Grow(k, p, to) ==
    FoldLeft(LAMBDA s, pg : IF s.ok /\ CanMap(s.k, s.k.pml4[p].tbl, pg)
                            THEN [s EXCEPT !.k = map_user_4kb(@, @.pml4[p].tbl, pg)]
                            ELSE [s EXCEPT !.ok = FALSE],
             [k |-> k, ok |-> TRUE], SetToSortSeq(Range2(k.brk[p], to), <))
SYS_brk(p, to) ==
    LET g == Grow(Kernel, p, to) IN
    /\ User(p) /\ brk[p] # 0
    /\ Become(IF g.ok THEN [g.k EXCEPT !.brk[p] = to] ELSE g.k)

\* An access of the program that the tables do not allow.  A page some region
\* covers gets a fresh frame, also when its entry was present; under a huge
\* entry the new frame is lost.  Any other fault, and one that finds the pool
\* empty, changes nothing and is retried for ever.
Faults(p, pg, write) ==
    LET e == Entry(Kernel, pml4[p].tbl, pg) IN e.f = 0 \/ (write /\ ~e.w)
DemandPage(k, p, pg) ==
    LET t == k.pml4[p].tbl IN
    IF Entry(k, t, pg).huge THEN Take(k, Alloc(k))
    ELSE SetEntry(Take(k, Alloc(k)), t, pg, [f |-> Alloc(k), huge |-> FALSE, w |-> TRUE])
PageFault(p, pg, write) ==
    /\ User(p) /\ Faults(p, pg, write) /\ vm_map_covers(map[p], pg) /\ free # {}
    /\ Become(DemandPage(Kernel, p, pg))

-----------------------------------------------------------------------------
(* Processes.                                                              *)

\* fork: a PML4 page of the child's own, a copy of the regions without their
\* objects, and for every user page of the parent the frame the child has for
\* it, allocated if there is none, as the target of the copy.
child_frame_for(k, t, pg) ==
    LET s == split_2mb_pde(k, t, pg) IN IF CanMap(s, t, pg) THEN map_user_4kb(s, t, pg) ELSE s
copy_user_space(k, src, dst) ==
    FoldLeft(LAMBDA acc, pg : IF Present(acc, src, pg) THEN child_frame_for(acc, dst, pg) ELSE acc,
             k, SetToSortSeq(Page, <))
proc_fork(k, p, c) ==
    LET made == pml4_create(k, k.pml4[p].tbl)
        set == [made.k EXCEPT !.pml4[c] = made.root, !.st[c] = "LIVE", !.brk[c] = k.brk[p],
                              !.map[c] = {[e EXCEPT !.obj = 0] : e \in k.map[p]}] IN
    copy_user_space(set, k.pml4[p].tbl, made.root.tbl)
Fork(p, c) ==
    /\ User(p) /\ "fork" \in Workload /\ c \in Slots /\ free # {}
    /\ Become(proc_fork(Kernel, p, c))

\* Mutant: the PML4 of the old image is kept and that of the new one given back.
Exec_Variant(k, p, img) ==
    LET made == clone_identity_tables(k, k.pml4[p].tbl)
        user == pml4_add_user(made.k, made.root.tbl, img)
        done == elf64_load_into_pml4(user, made.root.tbl, img) IN
    IF user.free = {} THEN [pml4_destroy(user, made.root) EXCEPT !.ntab = k.ntab]
    ELSE pml4_destroy([done EXCEPT !.pml4[p] = made.root, !.brk[p] = img + 1], made.root)

\* execve: a new PDPT, the image, and the old PML4 page goes back; the regions
\* stay.  If the image cannot be loaded the new PML4 page goes back.
Exec(k, p, img) ==
    LET made == clone_identity_tables(k, k.pml4[p].tbl)
        user == pml4_add_user(made.k, made.root.tbl, img)
        done == elf64_load_into_pml4(user, made.root.tbl, img) IN
    IF user.free = {} THEN [pml4_destroy(user, made.root) EXCEPT !.ntab = k.ntab]
    ELSE pml4_destroy([done EXCEPT !.pml4[p] = made.root, !.brk[p] = img + 1], k.pml4[p])
SYS_execve(p, img) ==
    /\ User(p) /\ "exec" \in Workload /\ free # {} /\ ntab < NTables
    /\ Become(Exec(Kernel, p, img))

\* What spawn and the shell's exec have in common: the image goes into the new
\* tables made, and proc_spawn's own PML4 page is given back for theirs.  A
\* failure leaves the new PML4 page allocated.
Start(k, p, c, img, made, to) ==
    LET done == IF img = MachO THEN mach_o_load_into_pml4(made.k, made.root.tbl, img)
                ELSE elf64_load_into_pml4(made.k, made.root.tbl, img)
        own == pml4_create(done, k.pml4[p].tbl) IN
    IF made.k.free = {} THEN [made.k EXCEPT !.ntab = k.ntab]
    ELSE IF done.free = {} THEN done
    ELSE [pml4_destroy(own.k, own.root) EXCEPT
            !.pml4[c] = made.root, !.st[c] = "LIVE", !.brk[c] = to]

\* The break is put above the image of an ELF program.
SYS_spawn(p, c, img) ==
    /\ User(p) /\ "exec" \in Workload /\ c \in Slots /\ free # {} /\ ntab < NTables
    /\ Become(Start(Kernel, p, c, img, clone_identity_tables(Kernel, pml4[p].tbl),
                    IF img = MachO THEN 0 ELSE img + 1))

\* The break stays where proc_spawn puts it, in the identity map, where growing
\* it maps nothing.
SYS_spawn_shared(p, c, img) ==
    /\ User(p) /\ "exec" \in Workload /\ c \in Slots /\ free # {} /\ ntab < NTables
    /\ Become(Start(Kernel, p, c, img, clone_identity_tables(Kernel, pml4[p].tbl), 0))

\* The shell's exec of an ELF file makes the chunks of the image user memory first.
cmd_exec(c, img) ==
    LET made == clone_identity_tables(Kernel, pml4[0].tbl) IN
    /\ c \in Slots /\ free # {} /\ ntab < NTables
    /\ Become(Start(Kernel, 0, c, img, [made EXCEPT !.k = pml4_add_user(@, made.root.tbl, img)], img + 1))

proc_exit(p) == User(p) /\ Become([Kernel EXCEPT !.st[p] = "ZOMBIE"])

\* wait4 reaps a zombie: its PML4 page goes back, and nothing else of its memory.
proc_waitpid(p, c) ==
    /\ User(p) /\ st[c] = "ZOMBIE"
    /\ Become([pml4_destroy(Kernel, pml4[c]) EXCEPT !.st[c] = "GONE", !.pml4[c] = NoRoot])

Next ==
    \/ \E p \in Proc :
        \/ \E h \in Hints, f \in BOOLEAN, n \in Lens : SYS_mmap(p, h, f, n)
        \/ \E a \in Arena, n \in 1..MaxLen : a + n <= MaxOffset /\ SYS_munmap(p, a, n)
        \/ \E a \in Arena, w \in BOOLEAN : SYS_mprotect(p, a, 1, w)
        \/ \E to \in 2..MaxBrk : SYS_brk(p, to)
        \/ \E pg \in Page, write \in BOOLEAN : PageFault(p, pg, write)
        \/ \E c \in Proc : Fork(p, c) \/ proc_waitpid(p, c)
        \/ \E img \in Images : SYS_execve(p, img)
        \/ \E c \in Proc, img \in Images \cup {MachO} : SYS_spawn(p, c, img) \/ SYS_spawn_shared(p, c, img)
        \/ proc_exit(p)
    \/ \E c \in Proc, img \in Images : cmd_exec(c, img)

Spec == Init /\ [][Next]_vars

-----------------------------------------------------------------------------
(* Properties.                                                             *)

Present2 == {p \in Proc : st[p] \in {"LIVE", "ZOMBIE"}}

\* Every variable has its type.
TypeOK ==
    /\ free \subseteq Frame
    /\ st \in [Proc -> {"NONE", "LIVE", "ZOMBIE", "GONE"}]
    /\ pml4 \in [Proc -> [page : 0..Outside, tbl : Table]]
    /\ ntab \in Table
    /\ hi \in [Table -> 0..NTables]
    /\ pte \in [Table -> [Page -> Pte]]
    /\ map \in [Proc -> SUBSET Regions]
    /\ obj \in [Obj -> Objects]
    /\ brk \in [Proc -> 0..NPages]

\* No live process can reach a frame that the allocator may hand out again:
\* munmap clears the entries of every frame it frees, in the tables of every
\* process that shares them, whatever fork, execve, spawn and page faults did
\* before.
MappedNotFree ==
    \A p \in Proc : User(p) =>
        \A pg \in Page : Entry(Kernel, pml4[p].tbl, pg).f \notin free

\* A frame belongs to one object at most, and to none once it was freed, so
\* that no munmap can free the same frame twice.
ObjectFramesExclusive ==
    \A o1, o2 \in Obj : \A i \in DOMAIN obj[o1].pages, j \in DOMAIN obj[o2].pages :
        obj[o1].pages[i] # 0 =>
            /\ obj[o1].pages[i] \notin free
            /\ obj[o1].pages[i] = obj[o2].pages[j] => <<o1, i>> = <<o2, j>>

\* The PML4 page a process runs on, or will be switched to, is allocated, is
\* no other process's, and is nobody's memory: execve, spawn and wait give
\* back each PML4 page once.
RootsOwned ==
    \A p \in Present2 :
        /\ pml4[p].page \notin free \union {0}
        /\ \A q \in Present2 \ {p} : pml4[q].page # pml4[p].page
        /\ \A t \in Table, pg \in Page : pte[t][pg].f # pml4[p].page \/ p = 0

\* The regions of a process never overlap, also not after failed, partial and
\* repeated calls: the search, the insertion and the removal of entries agree.
RegionsApart ==
    \A p \in Proc : \A e1, e2 \in map[p] :
        e1 # e2 => ~Meets(e1, e2.start, e2.end)

\* What mach_o.c says of a new process ("the child must not share page tables
\* with the parent") and process.c of fork: no two processes reach the same
\* frame of the pool.
SpacesSeparate ==
    \A p, q \in Proc : User(p) /\ User(q) /\ p # q =>
        \A pg \in Page : Entry(Kernel, pml4[p].tbl, pg).f \in Frame =>
            Entry(Kernel, pml4[p].tbl, pg).f # Entry(Kernel, pml4[q].tbl, pg).f

\* What idt.c says of a fault on a page whose entry is present: the frame it
\* replaces was stale (freed and given out again).
ReplacedWasStale ==
    [][\A p \in Proc, pg \in Page :
        (User(p) /\ Present(Kernel, pml4[p].tbl, pg) /\ \E write \in BOOLEAN : PageFault(p, pg, write))
            => Entry(Kernel, pml4[p].tbl, pg).f \notin
                 UNION {{obj[o].pages[i] : i \in DOMAIN obj[o].pages} : o \in Obj}]_vars

\* What vm_munmap says of mmap and munmap cycles: they leak no frame.  A frame
\* an object holds belongs to a region some process still has.
NoFrameLeak ==
    \A o \in Obj : (\E i \in DOMAIN obj[o].pages : obj[o].pages[i] # 0) =>
        \E p \in Proc : \E e \in map[p] : e.obj = o
=============================================================================
