------------------------------ MODULE Storage -------------------------------
(***************************************************************************)
(* The file system calls of src/OvsbMk/kernel/syscall.c over the FAT32     *)
(* driver, with a drive that may refuse a write or a machine that may go   *)
(* down between two writes of one call.  The driver has a single current   *)
(* directory for the whole kernel, which the *at calls move and put back.  *)
(* A descriptor is the name it was opened with and nothing else, so a      *)
(* write may come for any name at any time.                                *)
(***************************************************************************)
EXTENDS Fat32

CONSTANTS
    Names,      \* the 8.3 names in use
    MaxLen,     \* clusters one write fills at most
    MaxFaults,  \* how many drive faults and crashes may happen
    MaxWrites,  \* a fault comes within this many writes of one call
    Workload    \* subset of {"clobber", "dirwrite", "beyond"}

VARIABLES
    fat, blk,   \* the disk: allocation table and clusters
    cwd,        \* current_dir_cluster, 0 before fat32_init
    faults,     \* faults so far
    exposed,    \* has a live chain reached a cluster the table calls free?
    spoiled,    \* has a write to an existing file failed?
    tree        \* what the disk says, as FileTree sees it

vars == <<fat, blk, cwd, faults, exposed, spoiled, tree>>

ASSUME StorageAssumption ==
    /\ Names \subseteq STRING /\ Names \cap {"00", "E5"} = {}
    /\ MaxLen \in Nat
    /\ MaxFaults \in Nat /\ MaxWrites \in Nat

\* What one call writes: n clusters, each telling a write of n from the others.
Payloads == {[i \in 1..n |-> n] : n \in 0..MaxLen}
NoFault == [left |-> Never, crash |-> FALSE]
Faults == {NoFault} \cup
          (IF faults < MaxFaults THEN [left : 0..MaxWrites, crash : BOOLEAN] ELSE {})

Disk(f) == [fat |-> fat, blk |-> blk, cwd |-> cwd, at |-> 0, ok |-> TRUE,
            left |-> f.left, crash |-> f.crash]
Now == Disk(NoFault)

-----------------------------------------------------------------------------
(* What hangs from the root. *)

LiveSlots(k, d) == {<<d, i>> : i \in {j \in DOMAIN Slots(k, d) : Live(Slots(k, d)[j])}}
At(k, x) == Slots(k, x[1])[x[2]]
SubDirs(k, S) == {At(k, x).cl : x \in {y \in S : At(k, y).dir}} \ {0}

\* The live entries, as pairs of directory cluster and slot.
Entries(k) ==
    LET one == LiveSlots(k, Root)
        two == UNION {LiveSlots(k, d) : d \in SubDirs(k, one)}
    IN  one \cup two \cup UNION {LiveSlots(k, d) : d \in SubDirs(k, two)}

ChainOf(k, x) == IF At(k, x).cl = 0 THEN <<>> ELSE Chain(k, At(k, x).cl)
Dangling(k) == \E x \in Entries(k) : \E i \in DOMAIN ChainOf(k, x) : k.fat[ChainOf(k, x)[i]] = 0

\* The tree of files a reader finds on the disk; nothing after a fault or a
\* failed write, when FileTree promises nothing.
TreeOf(k) ==
    LET top == LiveSlots(k, Root)
        name(x) == At(k, x).name
        below(x) == IF At(k, x).dir /\ At(k, x).cl # 0 THEN LiveSlots(k, At(k, x).cl) ELSE {}
        node(x) == [dir |-> At(k, x).dir,
                    data |-> IF At(k, x).dir THEN <<>> ELSE fat32_read_file(k, x[1], name(x))]
    IN  [p \in {<<name(x)>> : x \in top} \cup UNION {{<<name(x), name(y)>> : y \in below(x)} : x \in top} |->
            LET x == <<Root, find_entry(k, Root, p[1])>>
                d == At(k, x).cl
            IN  node(IF Len(p) = 1 THEN x ELSE <<d, find_entry(k, d, p[2])>>)]

-----------------------------------------------------------------------------
(* The calls. *)

\* The current directory becomes the one a path's last name is looked up in;
\* a walk that fails leaves it where it got to.
resolve_at_path(k, p) ==
    FoldLeft(LAMBDA s, n : IF s.ok THEN fat32_change_dir(s, n) ELSE s,
             IF Len(p) > 1 THEN [k EXCEPT !.cwd = Root] ELSE k, Front(p))

fat32_set_cwd(k, c) == [k EXCEPT !.cwd = c]

\* A name of the current directory, or an absolute path into another.
Paths == {<<n>> : n \in Names} \cup (Names \X Names)

\* The call is over, or the machine went down in the middle of it: the next
\* boot finds what was written.  tries is the disk as each attempt of it leaves it.
Become(f, tries, spoils) ==
    LET k == Last(tries) IN
    /\ f.left # Never => (IF f.crash THEN k.left = 0 ELSE k.left = Never)
    /\ fat' = k.fat /\ blk' = k.blk
    /\ cwd' = IF f.crash THEN 0 ELSE k.cwd
    /\ faults' = IF f.left = Never THEN faults ELSE faults + 1
    /\ exposed' = (exposed \/ \E i \in DOMAIN tries : Dangling(tries[i]))
    /\ spoiled' = (spoiled \/ spoils)
    /\ tree' = IF faults' > 0 \/ spoiled' THEN <<>> ELSE TreeOf(k)

\* Calls are made of a mounted volume; unless Workload says "beyond", the model
\* ends where a chain has run into a free cluster.
Running == cwd # 0 /\ (exposed => "beyond" \in Workload)

fat32_init ==
    /\ cwd = 0
    /\ cwd' = Root
    /\ UNCHANGED <<fat, blk, faults, exposed, spoiled, tree>>

\* Any failure to write, not only a missing file, makes do_write_fd create
\* the name and try again.
do_write_fd(k, n, data) ==
    LET w == fat32_write_file(k, n, data)
        c == fat32_create_file(w, n)
    IN  IF w.ok THEN w ELSE IF c.ok THEN fat32_write_file(c, n, data) ELSE c

SYS_write(n, data) ==
    /\ Running
    /\ \E f \in Faults :
         LET i == find_entry(Now, cwd, n)
             w == fat32_write_file(Disk(f), n, data)
         IN  /\ (i # 0 /\ Slots(Now, cwd)[i].dir) => "dirwrite" \in Workload
             /\ Become(f, IF w.ok THEN <<w>> ELSE <<w, do_write_fd(Disk(f), n, data)>>, i # 0 /\ ~w.ok)

unlinkat(k, p) ==
    LET there == resolve_at_path(k, p)
    IN  fat32_set_cwd(IF there.ok THEN fat32_delete_file(there, Last(p)) ELSE there, k.cwd)

SYS_unlinkat(p) ==
    /\ Running
    /\ \E f \in Faults : Become(f, <<unlinkat(Disk(f), p)>>, FALSE)

\* Mutant: a mkdir that fails returns before the current directory is put back.
mkdirat_Variant(k, p) ==
    LET there == resolve_at_path(k, p)
        made == fat32_mkdir(there, Last(p))
    IN  IF there.ok /\ made.ok THEN fat32_set_cwd(made, k.cwd)
        ELSE IF there.ok THEN made ELSE fat32_set_cwd(there, k.cwd)

mkdirat(k, p) ==
    LET there == resolve_at_path(k, p)
    IN  fat32_set_cwd(IF there.ok THEN fat32_mkdir(there, Last(p)) ELSE there, k.cwd)

SYS_mkdirat(p) ==
    /\ Running
    /\ \E f \in Faults : Become(f, <<mkdirat(Disk(f), p)>>, FALSE)

\* Only within one directory: the walks of the two paths must end in the same
\* cluster, so the new path is its last name.
renameat(k, p, new) ==
    LET there == resolve_at_path(k, p)
    IN  fat32_set_cwd(IF there.ok THEN fat32_rename(there, Last(p), new) ELSE there, k.cwd)

SYS_renameat(p, new) ==
    LET there == resolve_at_path(Now, p)
    IN  /\ Running
        /\ (there.ok /\ find_entry(there, there.cwd, new) # 0) => "clobber" \in Workload
        /\ \E f \in Faults : Become(f, <<renameat(Disk(f), p, new)>>, FALSE)

\* rmdir takes a name of the current directory only.
SYS_rmdir2(n) ==
    /\ Running
    /\ \E f \in Faults : Become(f, <<fat32_rmdir(Disk(f), n)>>, FALSE)

Init ==
    /\ fat = [c \in Clusters |-> IF c = Root THEN Eoc ELSE 0]
    /\ blk = [c \in Clusters |-> [slot |-> IF c = Root THEN [i \in 1..RootSlots |-> Unused] ELSE <<>>,
                                  val |-> 0]]
    /\ cwd = 0
    /\ faults = 0 /\ exposed = FALSE /\ spoiled = FALSE
    /\ tree = <<>>

Next ==
    \/ fat32_init
    \/ \E n \in Names : SYS_rmdir2(n) \/ \E d \in Payloads : SYS_write(n, d)
    \/ \E p \in Paths : SYS_unlinkat(p) \/ SYS_mkdirat(p) \/ \E n \in Names \ {Last(p)} : SYS_renameat(p, n)

Spec == Init /\ [][Next]_vars

-----------------------------------------------------------------------------
(* Properties. *)

\* The table, the clusters and every slot keep their types, and no file is
\* ever said to be longer than what one call writes.
TypeOK ==
    /\ fat \in [Clusters -> Clusters \cup {0, Eoc}]
    /\ \A c \in Clusters :
         \A i \in DOMAIN blk[c].slot :
             blk[c].slot[i] \in [name : Names \cup {"00", "E5"}, dir : BOOLEAN,
                                 cl : Clusters \cup {0}, size : 0..MaxLen]
    /\ faults \in 0..MaxFaults /\ {exposed, spoiled} \subseteq BOOLEAN

\* No two entries lead to the same cluster and none to the root's, for as long
\* as no live chain has run into a cluster the table calls free: sharing never
\* comes from anything but that.
ChainsApart ==
    ~exposed =>
        \A x \in Entries(Now) :
            /\ Root \notin ToSet(ChainOf(Now, x))
            /\ \A y \in Entries(Now) \ {x} : ToSet(ChainOf(Now, x)) \cap ToSet(ChainOf(Now, y)) = {}

\* A live chain reaches a free cluster only through a fault, and only one in
\* the middle of growing a file (write_chain links before it marks), of mkdir
\* (the entry names the cluster before the table does) or of rmdir (the chain
\* is freed before the entry is erased); a fault in unlink, in rename or in
\* the first write of a short file never does it.
DanglingOnlyFromFaults ==
    [][(~exposed /\ exposed') =>
          /\ faults' > faults
          /\ \/ \E n \in Names : SYS_rmdir2(n)
             \/ \E n \in Names, d \in Payloads : Len(d) > 1 /\ SYS_write(n, d)
             \/ \E p \in Paths : SYS_mkdirat(p)]_vars

\* What do_write_fd's comment says of its second attempt, that it is for a file
\* that does not exist yet: no directory ever holds a name twice.
CreatedOnlyIfNew ==
    \A x, y \in Entries(Now) : (x[1] = y[1] /\ x # y) => At(Now, x).name # At(Now, y).name

\* A directory never holds one name twice unless a write to an existing file
\* has failed: that is when do_write_fd creates the name a second time.
NamesUnique ==
    (~spoiled /\ ~exposed) => CreatedOnlyIfNew

\* After every call, failed walks and faults included, the kernel's one current
\* directory is the one before it.
CwdRestored == cwd \in {0, Root}

-----------------------------------------------------------------------------
Tree == INSTANCE FileTree WITH lost <- faults > 0 \/ spoiled

\* Without a fault and without a failed write, the calls implement a tree of
\* files: each touches the file or directory it names and nothing else, and
\* what is not touched keeps its contents.
ImplementsTree == Tree!Spec
=============================================================================
