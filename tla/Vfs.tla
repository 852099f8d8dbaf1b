--------------------------------- MODULE Vfs --------------------------------
(***************************************************************************)
(* The two backends behind src/OvsbMk/fs/vfs.c.  vfs_mount takes ext2 if   *)
(* the disk has one and FAT32 otherwise.  On a FAT32 volume the calls are  *)
(* those of Storage; on an ext2 volume this module has the descriptors of  *)
(* one program: files by name and offset, the console device, event and    *)
(* timer descriptors, which all live in the same slots, and the shell's    *)
(* own file calls.                                                         *)
(*                                                                         *)
(* vfs_mount initialises neither FAT32 nor the older ext2 driver: nothing  *)
(* calls fat32_init or ext2_init (docs/KERNEL.md has kmain call the first).*)
(* So every write to an ext2 volume ends in the old driver's "not mounted",*)
(* and fat32_init of Storage is the mount that document describes.         *)
(***************************************************************************)
EXTENDS Storage, Ext2

CONSTANTS
    MaxFd,      \* the descriptors are 3..MaxFd (MAX_FDS - 1)
    MaxComps,   \* parts of a path vfs_abs_path keeps (32)
    PosMod,     \* offsets count modulo this (2^32)
    MaxCount    \* bound on an event counter

\* Workload may also hold "badread" (one read of file data fails) and "cdfile"
\* (cd is given the path of a file).

VARIABLES
    backend,    \* g_vfs_backend: 0 ext2, 1 FAT32, -1 before the mount
    cache, next,\* ext2_new's cache and cache_next, modulo the slots
    fd,         \* the program's descriptors
    shcwd,      \* the shell's cwd; a started program's is the root
    badread     \* has a read of the drive failed?

fvars == <<backend, cache, next, fd, shcwd, badread>>

ASSUME VfsAssumption ==
    /\ MaxFd \in Nat /\ MaxFd >= 3
    /\ MaxComps \in Nat \ {0} /\ PosMod \in Nat \ {0} /\ MaxCount \in Nat \ {0}

Fds == 3..MaxFd
P(a, c) == [abs |-> a, c |-> c]
FilePaths == {P(TRUE, <<"d", "..", "S">>), P(TRUE, <<"prefix", "d", ".", "b">>), P(FALSE, <<"..", "d">>)}
Console == P(TRUE, <<"dev", "tty0">>)

FILE == 0
EVENT == 1
TIMER == 2
TTY == 6

Driver(bad) == [cache |-> cache, next |-> next, fail |-> bad, data |-> 0, blk |-> 0, ino |-> 0,
                node |-> Nothing, ok |-> TRUE, bytes |-> <<>>]
Volatile == Driver(FALSE)
Cached(e) == cache' = e.cache /\ next' = e.next
Mounted == backend = 0 /\ UNCHANGED <<vars, backend>>

-----------------------------------------------------------------------------
(* Paths. *)

\* The prefix the X server was built with stands for the root.
fixpath(p) == IF p.abs /\ Head(p.c) = "prefix" THEN P(TRUE, Tail(p.c)) ELSE p

\* Mutant: ".." goes up only while two parts are left.
vfs_abs_path_Variant(at, p) ==
    P(TRUE, Through(LAMBDA s, n : IF n \in {"", "."} THEN s
                                  ELSE IF n = ".." THEN IF Len(s) <= 1 THEN s ELSE Front(s)
                                  ELSE IF Len(s) < MaxComps THEN Append(s, n) ELSE s,
                    <<>>, IF p.abs THEN p.c ELSE at \o p.c))

\* The path joined to a directory, without empty parts, "." and ".."; parts
\* beyond the last one there is room for are dropped.
vfs_abs_path(at, p) ==
    P(TRUE, Through(LAMBDA s, n : IF n \in {"", "."} THEN s
                                  ELSE IF n = ".." THEN IF s = <<>> THEN s ELSE Front(s)
                                  ELSE IF Len(s) < MaxComps THEN Append(s, n) ELSE s,
                    <<>>, IF p.abs THEN p.c ELSE at \o p.c))

-----------------------------------------------------------------------------
(* Descriptors.                                                          *)

Free == {f \in Fds : ~fd[f].used}
alloc_fd == CHOOSE f \in Free : \A g \in Free : f <= g
Put(f, r) == fd' = [fd EXCEPT ![f] = r]

open_dev ==
    Put(alloc_fd, [fd[alloc_fd] EXCEPT !.used = TRUE, !.type = TTY, !.name = Console,
                                       !.pos = 0])

\* The path is kept as it was given; type and flags are what the slot had.
SYS_open(p) ==
    /\ Mounted /\ Free # {}
    /\ IF p = Console THEN open_dev
       ELSE Put(alloc_fd, [fd[alloc_fd] EXCEPT !.used = TRUE, !.name = fixpath(p), !.pos = 0])
    /\ UNCHANGED <<cache, next, shcwd, badread>>

SYS_openat(p) ==
    /\ Mounted /\ Free # {}
    /\ IF p = Console THEN open_dev
       ELSE Put(alloc_fd, [fd[alloc_fd] EXCEPT !.used = TRUE, !.type = FILE, !.pos = 0,
                                               !.name = vfs_abs_path(<<>>, fixpath(p))])
    /\ UNCHANGED <<cache, next, shcwd, badread>>

SYS_close(f) ==
    /\ Mounted /\ fd[f].used
    /\ Put(f, [fd[f] EXCEPT !.used = FALSE])
    /\ UNCHANGED <<cache, next, shcwd, badread>>

\* eventfd2, timerfd_create and epoll_create leave the name and the offset.
SYS_make(t, c) ==
    /\ Mounted /\ Free # {}
    /\ Put(alloc_fd, [fd[alloc_fd] EXCEPT !.used = TRUE, !.type = t,
                                          !.counter = IF t = FILE THEN @ ELSE c,
                                          !.name = IF t = FILE THEN P(FALSE, <<>>) ELSE @])
    /\ UNCHANGED <<cache, next, shcwd, badread>>

timerfd_settime(f, ms) ==
    /\ Mounted /\ fd[f].used /\ fd[f].type = TIMER
    /\ Put(f, [fd[f] EXCEPT !.counter = IF ms = 0 THEN 1 ELSE ms])
    /\ UNCHANGED <<cache, next, shcwd, badread>>

-----------------------------------------------------------------------------
(* Reading, writing and seeking. *)

Bad == IF "badread" \in Workload /\ ~badread THEN BOOLEAN ELSE {FALSE}
Moved(f, n) == Put(f, [fd[f] EXCEPT !.pos = (@ + n) % PosMod])

\* The drive's failure, if one was to come, has come.
Served(r, bad) ==
    /\ bad => ~r.fail
    /\ Cached(r)
    /\ badread' = (badread \/ bad)

GotBytes(f, r, bad) == Served(r, bad) /\ Moved(f, Len(r.bytes))

ReadFile(f, n) ==
    \E bad \in Bad :
        /\ GotBytes(f, readFileAt(Driver(bad), fd[f].name, n, fd[f].pos), bad)
        /\ UNCHANGED shcwd

\* Scan codes come from elsewhere; an event's counter is taken whole; a timer
\* has always expired once.
ReadOther(f) ==
    /\ Put(f, [fd[f] EXCEPT !.counter = IF fd[f].type = EVENT THEN 0 ELSE @])
    /\ UNCHANGED <<cache, next, shcwd, badread>>

SYS_read(f, n) ==
    /\ Mounted /\ fd[f].used
    /\ IF fd[f].type = FILE THEN ReadFile(f, n) ELSE ReadOther(f)

\* Two pieces, the second only if the first was filled, of the file the slot
\* names, whatever the slot's type.
BothPieces(f, one, two) == Cached(two) /\ Moved(f, Len(one.bytes) + Len(two.bytes))
Pieces(f, one, n, m) ==
    IF one.ok /\ Len(one.bytes) = n
    THEN BothPieces(f, one, readFileAt(one, fd[f].name, m, (fd[f].pos + n) % PosMod))
    ELSE Cached(one) /\ Moved(f, Len(one.bytes))

SYS_readv(f, n, m) ==
    /\ Mounted /\ fd[f].used
    /\ Pieces(f, readFileAt(Volatile, fd[f].name, n, fd[f].pos), n, m)
    /\ UNCHANGED <<shcwd, badread>>

\* The older driver, which is never mounted.
ext2_create_file(e) == [e EXCEPT !.ok = FALSE]
ext2_write_at(e) == [e EXCEPT !.ok = FALSE]

\* An offset of 0 becomes the file's size, whether or not the write succeeds.
WriteAt(f, done, at) ==
    Cached(done) /\ Put(f, [fd[f] EXCEPT !.pos = IF done.ok THEN at + 1 ELSE at])
WriteThere(f, e, size) ==
    IF e.ok THEN WriteAt(f, ext2_write_at(e), IF fd[f].pos = 0 THEN size ELSE fd[f].pos)
    ELSE Cached(e) /\ UNCHANGED fd
WriteStat(f, st) == WriteThere(f, IF st.ok THEN st ELSE ext2_create_file(st), st.node.size)
WriteFile(f) == WriteStat(f, statPath(Volatile, fd[f].name))

WriteEvent(f) ==
    /\ fd[f].counter < MaxCount
    /\ Put(f, [fd[f] EXCEPT !.counter = @ + 1])
    /\ UNCHANGED <<cache, next>>

SYS_writeFd(f) ==
    /\ Mounted /\ fd[f].used
    /\ IF fd[f].type = EVENT THEN WriteEvent(f) ELSE WriteFile(f)
    /\ UNCHANGED <<shcwd, badread>>

\* From the start, the offset or the end; nothing is refused.
Seek(f, st, from, off) ==
    Cached(st) /\ Put(f, [fd[f] EXCEPT !.pos = IF st.ok THEN (from + off) % PosMod ELSE @])
SeekEnd(f, st, off) == Seek(f, st, st.node.size, off)
SYS_lseek(f, off, whence) ==
    /\ Mounted /\ fd[f].used
    /\ IF whence = 2 THEN SeekEnd(f, statPath(Volatile, fd[f].name), off)
       ELSE Seek(f, Volatile, IF whence = 0 THEN 0 ELSE fd[f].pos, off)
    /\ UNCHANGED <<shcwd, badread>>

SYS_fstat(f) ==
    /\ Mounted /\ fd[f].used
    /\ Cached(IF fd[f].type = TTY THEN Volatile ELSE statPath(Volatile, fd[f].name))
    /\ UNCHANGED <<fd, shcwd, badread>>

SYS_stat(p) ==
    /\ Mounted
    /\ Cached(statPath(Volatile, vfs_abs_path(<<>>, fixpath(p))))
    /\ UNCHANGED <<fd, shcwd, badread>>

\* What poll and ppoll report: no file, no timer, and a console or an event
\* that has something.
fd_readable(f, keys) == fd[f].used /\ fd[f].type = TTY /\ keys
SYS_poll(f, keys) == fd_readable(f, keys) \/ (fd[f].used /\ fd[f].type = EVENT /\ fd[f].counter > 0)

-----------------------------------------------------------------------------
(* The shell. *)

\* Whatever can be looked up will do as a directory.
vfs_chdir_isdir(e) == e.ok

ChangeTo(new, st) ==
    /\ st.node.mode = "reg" => "cdfile" \in Workload
    /\ Cached(st)
    /\ shcwd' = IF vfs_chdir_isdir(st) THEN new.c ELSE shcwd

cmd_cd(p) ==
    /\ Mounted
    /\ ChangeTo(vfs_abs_path(shcwd, p), statPath(Volatile, vfs_abs_path(shcwd, p)))
    /\ UNCHANGED <<fd, badread>>

MinImage == 4   \* smallest program file, 32 bytes in the code

\* exec looks for a bare name in /bin, and reads the whole file.
Loaded(abs, st) ==
    Cached(IF st.ok /\ st.node.size >= MinImage THEN readFileAt(st, abs, st.node.size, 0) ELSE st)
ExecAt(abs) == Loaded(abs, statPath(Volatile, abs))

cmd_exec(p) ==
    /\ Mounted
    /\ ExecAt(vfs_abs_path(shcwd, IF p.abs THEN p ELSE P(TRUE, <<"bin">> \o p.c)))
    /\ UNCHANGED <<fd, shcwd, badread>>

vfs_mount(be) ==
    /\ backend = -1
    /\ backend' = be
    /\ UNCHANGED <<vars, cache, next, fd, shcwd, badread>>

VfsInit ==
    /\ Init
    /\ backend = -1
    /\ cache = [i \in 1..CacheSlots |-> NoSlot] /\ next = 0
    /\ fd = [f \in Fds |-> [used |-> FALSE, type |-> FILE, name |-> P(FALSE, <<>>),
                            pos |-> 0, counter |-> 0]]
    /\ shcwd = <<>> /\ badread = FALSE

Program ==
    \/ \E p \in FilePaths \cup {Console} : SYS_open(p) \/ SYS_openat(p) \/ SYS_stat(p)
    \/ SYS_make(EVENT, 0) \/ SYS_make(EVENT, 1) \/ SYS_make(TIMER, 0) \/ SYS_make(FILE, 0)
    \/ \E f \in Fds :
         \/ SYS_close(f) \/ SYS_writeFd(f) \/ SYS_fstat(f) \/ timerfd_settime(f, 0)
         \/ SYS_read(f, 3) \/ SYS_readv(f, 1, 2)
         \/ SYS_lseek(f, -1, 0) \/ SYS_lseek(f, 0, 1) \/ SYS_lseek(f, 0, 2)

VfsNext ==
    \/ vfs_mount(0) \/ vfs_mount(1)
    \/ backend = 1 /\ Next /\ UNCHANGED fvars
    \/ Program
    \/ \E p \in FilePaths : cmd_cd(p) \/ cmd_exec(p)

VfsSpec == VfsInit /\ [][VfsNext]_<<vars, fvars>>

-----------------------------------------------------------------------------
(* Properties. *)

Spoiled == {i \in DOMAIN cache : cache[i].valid /\ cache[i].of # cache[i].blk}

\* What the cache is taken for: a block that is served from it is the block on
\* the disk.  A read that fails refutes it: cacheGet drops the result.
ServedIsOnDisk == Spoiled = {}

\* Whatever the cache holds, a read from any offset gives the bytes the file was
\* made with, holes as zeros, through all kinds of blocks; a failed read of the
\* drive spoils one slot, and reads are right again once that one is reused.
ReadsFaithful ==
    /\ Cardinality(Spoiled) <= IF badread THEN 1 ELSE 0
    /\ Spoiled = {} =>
         \A p \in DOMAIN FileBytes : \A off \in 0..Len(FileBytes[p]) :
             readFileAt(Volatile, P(TRUE, p), 3, off).bytes =
                 SubSeq(FileBytes[p], off + 1, Min2(off + 3, Len(FileBytes[p])))

\* A descriptor does what it was opened as, however its slot was used before.
\* open refutes it: it leaves the type to the slot, and close does not clear it.
OpenedIsFile ==
    [][\A p \in FilePaths : SYS_open(p) => fd'[alloc_fd].type = FILE]_<<vars, fvars>>

\* The name survives in a path unless a later ".." takes it back.
Kept(s, i) ==
    /\ s[i] \notin {"", ".", ".."}
    /\ \A j \in i..Len(s) :
         Cardinality({k \in (i + 1)..j : s[k] = ".."}) <= Cardinality({k \in (i + 1)..j : s[k] \notin {"", ".", ".."}})

\* vfs_abs_path is the normal form of the path: exactly the names no later
\* ".." takes back, in order, from wherever cd has led the shell.
PathsNormalised ==
    \A p \in FilePaths :
        LET s == IF p.abs THEN p.c ELSE shcwd \o p.c
        IN  vfs_abs_path(shcwd, p).c =
                Through(LAMBDA t, i : IF Kept(s, i) THEN Append(t, s[i]) ELSE t, <<>>, [i \in 1..Len(s) |-> i])

\* vfs.h says of vfs_chdir_isdir that it tells a directory one can go to: the
\* shell is always in a directory.
CwdIsDirectory ==
    backend = 0 => statPath(Volatile, P(TRUE, shcwd)).node.mode = "dir"

\* A write that fails leaves the offset: no write can succeed here, so none
\* moves it.
FailedWriteKeepsPos == [][\A f \in Fds : SYS_writeFd(f) => fd'[f].pos = fd[f].pos]_<<vars, fvars>>

\* fd_readable's comment, 1 if there is something to read: a timer that has
\* been set is reported once it can be read.
PollSeesTimer == \A f \in Fds : (fd[f].used /\ fd[f].type = TIMER /\ fd[f].counter > 0) => SYS_poll(f, TRUE)
=============================================================================
