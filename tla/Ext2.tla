-------------------------------- MODULE Ext2 --------------------------------
(***************************************************************************)
(* The reading half of the ext2 driver, src/OvsbMk/fs/ext2_new.zig: a      *)
(* block cache, group descriptors, inodes, the block map, directories and  *)
(* files.  Its writing half has no caller in the kernel, so no slot is     *)
(* ever dirty and the volume never changes.  e is the driver's state: the  *)
(* cache, the slot to evict next, whether the next read of the drive is    *)
(* going to fail, and in e.data, e.blk, e.ino, e.node and e.ok what the    *)
(* last step returned.  A slot says which block it is for (blk) and which  *)
(* block's bytes it holds (of).                                            *)
(***************************************************************************)
EXTENDS Integers, Sequences, SequencesExt

CONSTANT CacheSlots     \* CACHE_SLOTS, 64 in the code

ASSUME Ext2Assumption == CacheSlots \in Nat \ {0}

(* The geometry, scaled down: 12 direct blocks, 256 pointers and 1024      *)
(* bytes to a block in the code.                                           *)
N_DIRECT == 1
PTRS_PER_BLOCK == 2
BLOCK_SIZE == 2
InodesPerGroup == 3
InodesPerBlock == 2
FirstGd == 2
ROOT_INO == 2

\* op applied to s and each element of seq in turn.
Through(op(_, _), s, seq) ==
    LET upto[i \in 0..Len(seq)] == IF i = 0 THEN s ELSE op(upto[i - 1], seq[i])
    IN  upto[Len(seq)]

Min2(a, b) == IF a < b THEN a ELSE b
Lower(n) == IF n = "S" THEN "s" ELSE n

-----------------------------------------------------------------------------
(* A volume: what a reader should find, and the blocks it is laid out in.  *)

FileBytes == [p \in {<<"s">>, <<"d", "b">>} |->
                 IF p = <<"s">> THEN <<1, 2, 0>> ELSE <<3, 4, 5, 6, 0, 0, 7, 8>>]

Node(m, n, b) == [mode |-> m, size |-> n, block |-> b]
Nothing == Node("none", 0, <<0, 0, 0>>)
Dirent(i, n) == [ino |-> i, name |-> n]

\* Blocks 2 and 3 are the group descriptors, 4 to 6 the inodes; "s" ends in a
\* hole, "d" begins with one, and "d/b" has blocks of all three kinds.
Volume == <<
    <<>>, <<4>>, <<6>>,
    <<Nothing, Node("dir", 2, <<7, 0, 0>>)>>, <<Node("reg", 3, <<9, 0, 0>>)>>,
    <<Node("dir", 4, <<0, 16, 0>>), Node("reg", 8, <<10, 11, 13>>)>>,
    <<Dirent(2, "."), Dirent(2, ".."), Dirent(3, "s"), Dirent(4, "d")>>,
    <<Dirent(4, "."), Dirent(2, ".."), Dirent(0, "b"), Dirent(5, "b")>>,
    <<1, 2>>, <<3, 4>>, <<12, 0>>, <<5, 6>>, <<14, 0>>, <<15, 0>>, <<7, 8>>, <<8, 0>> >>
DataBlocks == {9, 10, 12, 15}
Garbled == <<-1, -1>>   \* the bytes of a block that is not a file's, or of none

-----------------------------------------------------------------------------
(* The block cache. *)

NoSlot == [valid |-> FALSE, blk |-> 0, of |-> 0]

\* The slot that holds block b, or the next one in turn, filled from the drive;
\* a read that fails is not noticed and leaves the bytes of the block before.
cacheGet(e, b) ==
    LET hit == {i \in DOMAIN e.cache : e.cache[i].valid /\ e.cache[i].blk = b}
        i == IF hit # {} THEN CHOOSE j \in hit : TRUE ELSE e.next + 1
        new == [valid |-> TRUE, blk |-> b, of |-> IF e.fail THEN e.cache[i].of ELSE b]
    IN  IF hit # {} THEN [e EXCEPT !.data = e.cache[i].of]
        ELSE [e EXCEPT !.cache[i] = new, !.next = (@ + 1) % CacheSlots, !.data = new.of, !.fail = FALSE]

-----------------------------------------------------------------------------
(* Inodes and the block map. *)

readGD(e, bg) == cacheGet(e, FirstGd + bg)

Inode(t, i) == [t EXCEPT !.node = Volume[t.data][i + 1]]
InTable(g, idx) == Inode(cacheGet(g, Volume[g.data][1] + (idx \div InodesPerBlock)), idx % InodesPerBlock)
readIno(e, ino) == InTable(readGD(e, (ino - 1) \div InodesPerGroup), (ino - 1) % InodesPerGroup)

\* The entry i of the pointer block b, in e.blk; 0 if there is no such block.
Entry(g, i) == [g EXCEPT !.blk = Volume[g.data][i + 1]]
Pointer(e, b, i) == IF b = 0 THEN [e EXCEPT !.blk = 0] ELSE Entry(cacheGet(e, b), i)
Second(e, i) == Pointer(e, e.blk, i)

\* Mutant: the entries of the indirect block are counted from the file's start.
bmapRead_Variant(e, n, logical) ==
    LET rem == logical - N_DIRECT
        rem2 == rem - PTRS_PER_BLOCK
    IN  IF logical < N_DIRECT THEN [e EXCEPT !.blk = n.block[logical + 1]]
        ELSE IF rem < PTRS_PER_BLOCK THEN Pointer(e, n.block[2], logical % PTRS_PER_BLOCK)
        ELSE IF rem2 >= PTRS_PER_BLOCK * PTRS_PER_BLOCK THEN [e EXCEPT !.blk = 0]
        ELSE Second(Pointer(e, n.block[3], rem2 \div PTRS_PER_BLOCK), rem2 % PTRS_PER_BLOCK)

\* The block of a file's logical block, 0 for a hole.
bmapRead(e, n, logical) ==
    LET rem == logical - N_DIRECT
        rem2 == rem - PTRS_PER_BLOCK
    IN  IF logical < N_DIRECT THEN [e EXCEPT !.blk = n.block[logical + 1]]
        ELSE IF rem < PTRS_PER_BLOCK THEN Pointer(e, n.block[2], rem)
        ELSE IF rem2 >= PTRS_PER_BLOCK * PTRS_PER_BLOCK THEN [e EXCEPT !.blk = 0]
        ELSE Second(Pointer(e, n.block[3], rem2 \div PTRS_PER_BLOCK), rem2 % PTRS_PER_BLOCK)

-----------------------------------------------------------------------------
(* Names and files.  A path is a record: whether it begins with a slash,   *)
(* and its parts.                                                          *)

Blocks(bytes) == [i \in 1..((bytes + BLOCK_SIZE - 1) \div BLOCK_SIZE) |-> i - 1]

Match(g, name) ==
    LET found == SelectInSeq(Volume[g.data], LAMBDA x : x.ino # 0 /\ Lower(x.name) = Lower(name))
    IN  [g EXCEPT !.ino = IF found = 0 THEN 0 ELSE Volume[g.data][found].ino]
InBlock(m, name) == IF m.blk = 0 THEN m ELSE Match(cacheGet(m, m.blk), name)
InDir(d, name) ==
    IF d.node.mode # "dir" THEN d
    ELSE Through(LAMBDA s, l : IF s.ino # 0 THEN s ELSE InBlock(bmapRead(s, d.node, l), name),
                 d, Blocks(d.node.size))

\* The inode a directory gives a name, 0 if none; holes are passed over.
lookup(e, dir, name) == InDir([readIno(e, dir) EXCEPT !.ino = 0], name)

\* Only a path from the root is looked at, and empty parts are skipped.
resolve(e, path) ==
    IF ~path.abs THEN [e EXCEPT !.ino = 0]
    ELSE Through(LAMBDA s, n : IF n = "" \/ s.ino = 0 THEN s ELSE lookup(s, s.ino, n),
                  [e EXCEPT !.ino = ROOT_INO], path.c)

\* e.node is the inode, e.ok says whether there is one.
Found(r) ==
    IF r.ino = 0 THEN [r EXCEPT !.ok = FALSE, !.node = Nothing]
    ELSE [readIno(r, r.ino) EXCEPT !.ok = TRUE]
statPath(e, path) == Found(resolve(e, path))

Bytes(b) == IF b \in DataBlocks THEN Volume[b] ELSE Garbled

\* One block's part of a read, zeros for a hole; only this read of the drive
\* may fail.
Taken(g, from, upto) == [g EXCEPT !.bytes = @ \o SubSeq(Bytes(g.data), from + 1, upto)]
Chunk(m, fail, from, upto) ==
    IF m.blk = 0 THEN [m EXCEPT !.fail = fail, !.bytes = @ \o [i \in 1..(upto - from) |-> 0]]
    ELSE Taken(cacheGet([m EXCEPT !.fail = fail], m.blk), from, upto)

ReadFrom(r, fail, count, offset) ==
    LET first == offset \div BLOCK_SIZE
        end == Min2(offset + count, r.node.size)
    IN  IF ~r.ok \/ r.node.mode # "reg" THEN [r EXCEPT !.ok = FALSE, !.bytes = <<>>]
        ELSE Through(LAMBDA s, l : Chunk(bmapRead([s EXCEPT !.fail = FALSE], r.node, l), s.fail,
                                         IF l = first THEN offset % BLOCK_SIZE ELSE 0,
                                         Min2(BLOCK_SIZE, end - l * BLOCK_SIZE)),
                     [r EXCEPT !.bytes = <<>>, !.fail = fail],
                     IF offset >= r.node.size THEN <<>> ELSE SelectSeq(Blocks(end), LAMBDA l : l >= first))

\* count bytes from offset on, block by block, into e.bytes.
readFileAt(e, path, count, offset) ==
    ReadFrom(statPath([e EXCEPT !.fail = FALSE], path), e.fail, count, offset)
=============================================================================
