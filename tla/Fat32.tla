------------------------------- MODULE Fat32 -------------------------------
(***************************************************************************)
(* The FAT32 driver, src/OvsbMk/fs/fat32.c over drivers/ata.c.  The disk   *)
(* is the allocation table k.fat and the clusters k.blk, each holding the  *)
(* slots of a directory or one value of file data; sizes are counted in    *)
(* clusters.  k.cwd is current_dir_cluster.  An operation is a chain of    *)
(* sector writes threaded through k: k.left is the number of writes the    *)
(* drive still performs before the next one fails, k.crash says whether    *)
(* that failure is the machine going down (nothing is written any more) or *)
(* one write that ata_write_sector reports with -1, and k.ok is the result *)
(* of the last step.  Names are the ones that fit in 8.3; the constant "." *)
(* and ".." entries of a directory are left out.                           *)
(***************************************************************************)
EXTENDS Integers, Sequences, FiniteSets, SequencesExt

CONSTANTS
    LastCluster,    \* the volume's clusters are 2..LastCluster
    RootSlots,      \* entries the root directory has room for
    SubSlots        \* entries a directory made by mkdir has room for

ASSUME Fat32Assumption ==
    /\ LastCluster \in Nat /\ LastCluster > 2
    /\ RootSlots \in Nat \ {0} /\ SubSlots \in Nat \ {0}

Clusters == 2..LastCluster
Root == 2
Eoc == -1
Never == -1

Unused == [name |-> "00", dir |-> FALSE, cl |-> 0, size |-> 0]
Erased == [Unused EXCEPT !.name = "E5"]
\* What an erased slot still says of the file it named is never read.
Live(e) == e.name \notin {"00", "E5"}

-----------------------------------------------------------------------------
(* The drive. *)

\* One sector write: the disk becomes "after", or keeps its contents and the
\* write is reported as failed.
ata_write_sector(k, after) ==
    IF k.left = 0 THEN [k EXCEPT !.ok = FALSE, !.left = IF k.crash THEN 0 ELSE Never]
    ELSE [after EXCEPT !.ok = TRUE, !.left = IF k.left = Never THEN Never ELSE k.left - 1]

fat_read_entry(k, c) == k.fat[c]
fat_write_entry(k, c, v) == ata_write_sector(k, [k EXCEPT !.fat[c] = v])

\* Mutant: the scan stops one cluster short of the end of the volume and then
\* gives the last one out without looking.
fat_find_free_Variant(k) ==
    LET F == {c \in Clusters \ {LastCluster} : k.fat[c] = 0}
    IN  IF F = {} THEN LastCluster ELSE CHOOSE c \in F : \A x \in F : c <= x

\* The first cluster the table calls free; 0 when there is none.
fat_find_free(k) ==
    LET F == {c \in Clusters : fat_read_entry(k, c) = 0}
    IN  IF F = {} THEN 0 ELSE CHOOSE c \in F : \A x \in F : c <= x

\* The clusters a walk from c visits, in order; a walk that comes back to a
\* cluster it has seen is cut there (the code would not end).
Chain(k, c) ==
    LET from[s \in Seq(Clusters)] ==
            LET n == IF s = <<>> THEN c ELSE k.fat[s[Len(s)]]
            IN  IF n \in Clusters /\ n \notin ToSet(s) THEN from[Append(s, n)] ELSE s
    IN  from[<<>>]

-----------------------------------------------------------------------------
(* File data. *)

\* The first n clusters' worth of a chain.
read_chain(k, c, n) ==
    LET s == Chain(k, c)
        m == IF n < Len(s) THEN n ELSE Len(s)
    IN  [i \in 1..m |-> k.blk[s[i]].val]

\* Mutant: the cluster added to a chain is not marked as its end.
NextCluster_Variant(k) ==
    LET next == fat_read_entry(k, k.at)
        f == fat_find_free(k)
        linked == fat_write_entry(k, k.at, f)
    IN  IF next \notin {0, Eoc} THEN [k EXCEPT !.at = next]
        ELSE IF f = 0 THEN [k EXCEPT !.ok = FALSE]
        ELSE IF linked.ok THEN [linked EXCEPT !.at = f] ELSE linked

\* The cluster after k.at: the chain's, or a free one, linked first and marked
\* as the end of the chain second.
NextCluster(k) ==
    LET next == fat_read_entry(k, k.at)
        f == fat_find_free(k)
        linked == fat_write_entry(k, k.at, f)
        marked == IF linked.ok THEN fat_write_entry(linked, f, Eoc) ELSE linked
    IN  IF next \notin {0, Eoc} THEN [k EXCEPT !.at = next]
        ELSE IF f = 0 THEN [k EXCEPT !.ok = FALSE]
        ELSE IF marked.ok THEN [marked EXCEPT !.at = f] ELSE marked

\* The data, a cluster at a time, from cluster c on.
write_chain(k, c, data) ==
    FoldLeft(LAMBDA s, i :
                 LET t == IF s.ok /\ i > 1 THEN NextCluster(s) ELSE s
                 IN  IF t.ok THEN ata_write_sector(t, [t EXCEPT !.blk[t.at] = [slot |-> <<>>, val |-> data[i]]])
                     ELSE t,
             [k EXCEPT !.at = c, !.ok = TRUE], [i \in 1..Len(data) |-> i])

-----------------------------------------------------------------------------
(* Directory entries.  A directory is one cluster: no operation makes it   *)
(* longer.                                                                 *)

Slots(k, d) == k.blk[d].slot
First(S) == IF S = {} THEN 0 ELSE CHOOSE i \in S : \A j \in S : i <= j

\* The slot of name n in directory d, 0 if none: the scan ends at the first
\* slot never used.
find_entry(k, d, n) ==
    First({i \in DOMAIN Slots(k, d) :
             /\ Slots(k, d)[i].name = n
             /\ \A j \in 1..i : Slots(k, d)[j].name # "00"})

SetSlot(k, d, i, e) == ata_write_sector(k, [k EXCEPT !.blk[d].slot[i] = e])

\* The first slot never used or erased gets the name; whether the directory
\* has the name already is not looked at.
create_entry_at(k, d, n, isdir) ==
    LET i == First({j \in DOMAIN Slots(k, d) : ~Live(Slots(k, d)[j])})
    IN  IF i = 0 THEN [k EXCEPT !.ok = FALSE]
        ELSE SetSlot(k, d, i, [name |-> n, dir |-> isdir, cl |-> 0, size |-> 0])

\* The slot is erased; the clusters stay allocated.
delete_entry_at(k, d, n) ==
    LET i == find_entry(k, d, n)
    IN  IF i = 0 THEN [k EXCEPT !.ok = FALSE]
        ELSE SetSlot(k, d, i, Erased)

-----------------------------------------------------------------------------
(* The driver's interface; every operation works in k.cwd. *)

fat32_create_file(k, n) == create_entry_at(k, k.cwd, n, FALSE)
fat32_delete_file(k, n) == delete_entry_at(k, k.cwd, n)

\* The contents of a file, <<>> also when it has no cluster yet.
fat32_read_file(k, d, n) ==
    LET e == Slots(k, d)[find_entry(k, d, n)]
    IN  IF e.cl = 0 THEN <<>> ELSE read_chain(k, e.cl, e.size)

\* A first cluster is marked in the table, the data is written, and only then
\* the entry gets its size and cluster; an error on the way leaves the entry
\* as it was.
fat32_write_file(k, n, data) ==
    LET i == find_entry(k, k.cwd, n)
        e == Slots(k, k.cwd)[i]
        c == IF e.cl = 0 THEN fat_find_free(k) ELSE e.cl
        first == IF e.cl = 0 THEN fat_write_entry(k, c, Eoc) ELSE [k EXCEPT !.ok = TRUE]
        done == IF first.ok THEN write_chain(first, c, data) ELSE first
    IN  IF i = 0 \/ c = 0 THEN [k EXCEPT !.ok = FALSE]
        ELSE IF done.ok THEN SetSlot(done, k.cwd, i, [Slots(done, k.cwd)[i] EXCEPT !.size = Len(data), !.cl = c])
        ELSE done

\* The cluster of a directory of k.cwd becomes the current one; an entry
\* without a cluster leads to the root.
fat32_change_dir(k, n) ==
    LET i == find_entry(k, k.cwd, n)
        e == Slots(k, k.cwd)[i]
    IN  IF i = 0 \/ ~e.dir THEN [k EXCEPT !.ok = FALSE]
        ELSE [k EXCEPT !.ok = TRUE, !.cwd = IF e.cl = 0 THEN Root ELSE e.cl]

\* Mutant: the name is not looked up before the entry is made.
fat32_mkdir_Variant(k, n) ==
    LET c == fat_find_free(k)
        made == create_entry_at(k, k.cwd, n, TRUE)
        i == find_entry(made, k.cwd, n)
        named == SetSlot(made, k.cwd, i, [Slots(made, k.cwd)[i] EXCEPT !.cl = c])
        marked == IF named.ok THEN fat_write_entry(named, c, Eoc) ELSE named
    IN  IF c = 0 THEN [k EXCEPT !.ok = FALSE]
        ELSE IF ~made.ok THEN made
        ELSE IF ~marked.ok THEN marked
        ELSE ata_write_sector(marked, [marked EXCEPT !.blk[c] = [slot |-> [j \in 1..SubSlots |-> Unused], val |-> 0]])

\* Entry, its cluster, the table, the new directory: four writes in that order.
fat32_mkdir(k, n) ==
    LET c == fat_find_free(k)
        made == create_entry_at(k, k.cwd, n, TRUE)
        i == find_entry(made, k.cwd, n)
        named == SetSlot(made, k.cwd, i, [Slots(made, k.cwd)[i] EXCEPT !.cl = c])
        marked == IF named.ok THEN fat_write_entry(named, c, Eoc) ELSE named
    IN  IF c = 0 \/ find_entry(k, k.cwd, n) # 0 THEN [k EXCEPT !.ok = FALSE]
        ELSE IF ~made.ok THEN made
        ELSE IF ~marked.ok THEN marked
        ELSE ata_write_sector(marked, [marked EXCEPT !.blk[c] = [slot |-> [j \in 1..SubSlots |-> Unused], val |-> 0]])

\* Mutant: the renamed entry is built afresh and forgets its file.
fat32_rename_Variant(k, old, new) ==
    LET i == find_entry(k, k.cwd, old)
    IN  IF i = 0 THEN [k EXCEPT !.ok = FALSE]
        ELSE SetSlot(k, k.cwd, i, [Unused EXCEPT !.name = new])

\* The first entry of the old name gets the new one, whoever else has it.
fat32_rename(k, old, new) ==
    LET i == find_entry(k, k.cwd, old)
    IN  IF i = 0 THEN [k EXCEPT !.ok = FALSE]
        ELSE SetSlot(k, k.cwd, i, [Slots(k, k.cwd)[i] EXCEPT !.name = new])

\* The chain of an empty directory is freed, errors unheeded, and the entry
\* erased last.
fat32_rmdir(k, n) ==
    LET i == find_entry(k, k.cwd, n)
        e == Slots(k, k.cwd)[i]
        empty == e.cl = 0 \/ \A j \in DOMAIN Slots(k, e.cl) : ~Live(Slots(k, e.cl)[j])
        freed == FoldLeft(LAMBDA s, c : fat_write_entry(s, c, 0), k, IF e.cl = 0 THEN <<>> ELSE Chain(k, e.cl))
    IN  IF i = 0 \/ ~e.dir \/ ~empty THEN [k EXCEPT !.ok = FALSE]
        ELSE SetSlot(freed, k.cwd, i, Erased)
=============================================================================
