------------------------------ MODULE FileTree ------------------------------
(***************************************************************************)
(* What the file operations promise: a tree of directories and files, each *)
(* step of which touches one path.  A drive fault, or a directory left     *)
(* with two entries of one name, ends the promise ("lost").                *)
(***************************************************************************)
EXTENDS Sequences, SequencesExt, TLC

CONSTANT Names

VARIABLES
    tree,   \* a function from paths to [dir, data]
    lost    \* TRUE once the promise is off

Paths == {<<n>> : n \in Names} \cup (Names \X Names)
IsDir(p) == p = <<>> \/ (p \in DOMAIN tree /\ tree[p].dir)
Below(p) == {q \in DOMAIN tree : IsPrefix(p, q)}
Without(S) == [q \in DOMAIN tree \ S |-> tree[q]]

Init == tree = <<>> /\ lost = FALSE

Mkdir(p) ==
    /\ IsDir(Front(p)) /\ p \notin DOMAIN tree
    /\ tree' = (p :> [dir |-> TRUE, data |-> <<>>]) @@ tree

\* A file is written whole, or (disk full) left with contents nobody promises.
Put(p) ==
    /\ IsDir(Front(p)) /\ ~IsDir(p)
    /\ DOMAIN tree' = DOMAIN tree \cup {p}
    /\ ~tree'[p].dir
    /\ \A q \in DOMAIN tree \ {p} : tree'[q] = tree[q]

Unlink(p) == p \in DOMAIN tree /\ tree' = Without(Below(p))

Rename(p, q) ==
    /\ p \in DOMAIN tree /\ q \notin DOMAIN tree /\ Front(p) = Front(q)
    /\ tree' = [r \in (DOMAIN tree \ Below(p)) \cup
                      {q \o SubSeq(b, Len(p) + 1, Len(b)) : b \in Below(p)} |->
                   IF IsPrefix(q, r) THEN tree[p \o SubSeq(r, Len(q) + 1, Len(r))] ELSE tree[r]]

Next ==
    \/ ~lost /\ ~lost' /\ \E p \in Paths : Mkdir(p) \/ Put(p) \/ Unlink(p) \/ \E q \in Paths : Rename(p, q)
    \/ lost'

Spec == Init /\ [][Next]_<<tree, lost>>
=============================================================================
