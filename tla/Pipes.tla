------------------------------- MODULE Pipes -------------------------------
(***************************************************************************)
(* Pipes and the per-process file-descriptor tables of                     *)
(* OvsbMk/kernel/syscall.c: pipe, pipe2, dup, dup2, dup3, fcntl(F_SETFL),  *)
(* close, read, write, and what fork, clone, execve, exit and wait4 do to  *)
(* the tables.  A system call is atomic except where it calls schedule():  *)
(* a read of an empty pipe and wait4, which give the processor to another  *)
(* process and look again when they get it back.                           *)
(*                                                                         *)
(* A slot of the process table is used once here; what happens to a reused *)
(* slot is the subject of ProcessTable.                                    *)
(***************************************************************************)
EXTENDS Integers, Sequences, FiniteSetsExt

CONSTANTS
    NProc,      \* process slots 1..NProc; slot 0 is the shell
    MaxFds,     \* MAX_FDS
    Std,        \* descriptors below this are stdin, stdout, stderr (3)
    NPipes,     \* MAX_PIPES
    Cap,        \* bytes in a pipe's buffer (4096)
    Wrap,       \* rpos and wpos are counters modulo this (2^32)
    Bytes,      \* the values a byte is told apart by
    MaxWrite,   \* bound: bytes in one write
    Flags,      \* the values of O_NONBLOCK programs ask for
    Workload    \* what programs do: "onto" a dup2 onto an open pipe end,
                \* "redirected" an exit with a pipe as standard stream,
                \* "outlived" an exit before the threads on the same table,
                \* "readv" a readv, which never waits

ASSUME PipeAssumption ==
    /\ {NProc, MaxFds, Std, NPipes, Cap, Wrap, MaxWrite} \subseteq Nat
    /\ 0 < Std /\ Std < MaxFds /\ 0 < Cap /\ Cap < Wrap /\ Wrap % Cap = 0
    /\ Bytes # {} /\ Flags \subseteq BOOLEAN
    /\ Workload \subseteq {"onto", "redirected", "outlived", "readv"}

VARIABLES
    cur,        \* the slot that runs; 0 when the shell has the processor
    state,      \* "FREE", "LIVE", "ZOMBIE", "GONE" (FREE and GONE: PROC_EMPTY)
    parent,     \* parent slot
    thread,     \* th_parent_pid >= 0
    tab,        \* fds_tab: the slot whose table the process uses
    fds,        \* fd_tables
    pipes,      \* the pipe table
    doing,      \* what a process is blocked in
    out         \* the pipe the last read was of (-1: none yet) and what it returned

tables == <<tab, fds>>
procs  == <<state, parent, thread>>
vars   == <<cur, state, parent, thread, tab, fds, pipes, doing, out>>

Procs == 1..NProc
Fds   == 0..(MaxFds - 1)
Pipe  == 0..(NPipes - 1)
Data  == UNION {[1..n -> Bytes] : n \in 1..MaxWrite}

Closed == [kind |-> "closed", p |-> 0, wend |-> FALSE, nonblock |-> FALSE]
Tty    == [Closed EXCEPT !.kind = "tty"]
PipeEnd(p, wend, nb) == [kind |-> "pipe", p |-> p, wend |-> wend, nonblock |-> nb]
Entries == {e \in [kind : {"closed", "tty", "pipe"}, p : Nat, wend : BOOLEAN, nonblock : BOOLEAN] :
              e.kind = "pipe" => e.p \in Pipe}

Zero == CHOOSE b \in Bytes : TRUE
Fresh == [i \in 0..(Cap - 1) |-> Zero]
Idle    == [op |-> "none", on |-> 0]
Read(p) == [op |-> "read", on |-> p]
Wait(c) == [op |-> "wait", on |-> c]

\* fds_bind_current: the table a process gets with its first system call.
Console == [fd \in Fds |-> IF fd < Std THEN Tty ELSE Closed]

Init ==
    /\ cur = 0
    /\ state = [q \in Procs |-> IF q = 1 THEN "LIVE" ELSE "FREE"]
    /\ parent = [q \in Procs |-> 0]
    /\ thread = [q \in Procs |-> FALSE]
    /\ tab = [q \in Procs |-> q]
    /\ fds = [q \in Procs |-> Console]
    /\ pipes = [p \in Pipe |-> [used |-> FALSE, rpos |-> 0, wpos |-> 0, buf |-> Fresh]]
    /\ doing = [q \in Procs |-> Idle]
    /\ out = [p |-> -1, data |-> << >>]

-----------------------------------------------------------------------------
\* The running process's table, with `fds` of the code.
Table(q) == fds[tab[q]]
Set(q, t) == fds' = [fds EXCEPT ![tab[q]] = t]
Calls(q) == cur = q /\ doing[q] = Idle
FreeFds(t) == {fd \in Std..(MaxFds - 1) : t[fd].kind = "closed"}

\* alloc_fd, for a caller that has checked that there is one.
alloc_fd(t) == Min(FreeFds(t))

Fill(p) == (pipes[p].wpos - pipes[p].rpos) % Wrap

IsEmpty(p) == pipes[p].rpos = pipes[p].wpos

\* The bytes in the pipe: the positions from rpos on, masked to the buffer.
Content(p) ==
    [i \in 1..Fill(p) |-> pipes[p].buf[(pipes[p].rpos + i - 1) % Cap]]

\* pipe_writers_alive(p)
pipe_writers_alive(p) ==
    \E q \in Procs : /\ state[q] \in {"LIVE", "ZOMBIE"}
                     /\ \E fd \in Fds : LET e == fds[tab[q]][fd]
                                        IN  e.kind = "pipe" /\ e.p = p /\ e.wend

\* schedule(), left to choose: any process that is not finished, or the shell.
Yield(ready) == cur' \in {q \in Procs : ready[q] = "LIVE"} \union {0}

-----------------------------------------------------------------------------
\* SYS_pipe and SYS_pipe2: the first unused pipe, then the two lowest free
\* descriptors, the read end marked used before the second is looked for.
\* Without a pipe or without both descriptors nothing changes.
pipe(q, nb) ==
    LET free == {p \in Pipe : ~pipes[p].used}
        t    == Table(q)
    IN  /\ Calls(q)
        /\ free # {}
        /\ FreeFds(t) # {} /\ FreeFds(t) \ {alloc_fd(t)} # {}
        /\ LET pi  == Min(free)
               rfd == alloc_fd(t)
               t1  == [t EXCEPT ![rfd] = PipeEnd(pi, FALSE, nb)]
               wfd == alloc_fd(t1)
           IN  /\ Set(q, [t1 EXCEPT ![wfd] = PipeEnd(pi, TRUE, nb)])
               /\ pipes' = [pipes EXCEPT ![pi] = [used |-> TRUE, rpos |-> 0,
                                                  wpos |-> 0, buf |-> Fresh]]
        /\ UNCHANGED <<cur, procs, tab, doing, out>>

\* SYS_dup
dup(q, oldfd) ==
    LET t == Table(q) IN
    /\ Calls(q)
    /\ t[oldfd].kind # "closed"
    /\ FreeFds(t) # {}
    /\ Set(q, [t EXCEPT ![alloc_fd(t)] = t[oldfd]])
    /\ UNCHANGED <<cur, procs, tab, pipes, doing, out>>

\* What dup2 and dup3 share: an open newfd is marked unused first, and its
\* pipe with it, then oldfd is copied.  With oldfd = newfd what is copied is
\* the entry just marked unused.  nb is O_NONBLOCK of the copy.
DupOnto(q, oldfd, newfd, nb) ==
    LET t     == Table(q)
        over  == newfd >= Std /\ t[newfd].kind # "closed"
        t1    == IF over THEN [t EXCEPT ![newfd] = Closed] ELSE t
        entry == t1[oldfd]
    IN  /\ Calls(q)
        /\ t[oldfd].kind # "closed"
        /\ "onto" \in Workload \/ ~(over /\ t[newfd].kind = "pipe")
        /\ Set(q, [t1 EXCEPT ![newfd] =
                      IF entry.kind = "pipe" THEN [entry EXCEPT !.nonblock = nb]
                                             ELSE entry])
        /\ pipes' = IF over /\ t[newfd].kind = "pipe"
                    THEN [pipes EXCEPT ![t[newfd].p].used = FALSE] ELSE pipes
        /\ UNCHANGED <<cur, procs, tab, doing, out>>

\* SYS_dup2 copies the flags too, SYS_dup3 sets its own.
dup2(q, oldfd, newfd) == DupOnto(q, oldfd, newfd, Table(q)[oldfd].nonblock)
dup3(q, oldfd, newfd, nb) == DupOnto(q, oldfd, newfd, nb)

\* SYS_fcntl with F_SETFL, as far as O_NONBLOCK goes.
fcntl_setfl(q, fd, nb) ==
    LET t == Table(q) IN
    /\ Calls(q)
    /\ t[fd].kind = "pipe"
    /\ Set(q, [t EXCEPT ![fd].nonblock = nb])
    /\ UNCHANGED <<cur, procs, tab, pipes, doing, out>>

\* Defective form: the pipe dies with the first end that is closed.
close_fd_KillsPipe(q, fd) ==
    LET e == Table(q)[fd] IN
    /\ Calls(q)
    /\ fd >= Std /\ e.kind # "closed"
    /\ Set(q, [Table(q) EXCEPT ![fd] = Closed])
    /\ pipes' = IF e.kind = "pipe" THEN [pipes EXCEPT ![e.p].used = FALSE] ELSE pipes
    /\ UNCHANGED <<cur, procs, tab, doing, out>>

\* close_fd: a standard stream is never closed, and the pipe stays.
close_fd(q, fd) ==
    /\ Calls(q)
    /\ fd >= Std /\ Table(q)[fd].kind # "closed"
    /\ Set(q, [Table(q) EXCEPT ![fd] = Closed])
    /\ UNCHANGED <<cur, procs, tab, pipes, doing, out>>

\* do_write_fd on a pipe: the bytes that fit, one after the other at wpos; a
\* full pipe is an error (-11 or -1) and changes nothing, and so does a pipe
\* that is not in use.  Which end the descriptor is of is not looked at.
do_write_fd(q, fd, bs) ==
    LET e == Table(q)[fd]
        P == pipes[e.p]
        n == Min({Len(bs), Cap - Fill(e.p)})
    IN  /\ Calls(q)
        /\ e.kind = "pipe"
        /\ P.used
        /\ Fill(e.p) < Cap
        /\ pipes' = [pipes EXCEPT ![e.p] =
               [P EXCEPT !.wpos = (@ + n) % Wrap,
                         !.buf = [i \in 0..(Cap - 1) |->
                                    LET k == ((i - P.wpos) % Cap) + 1
                                    IN  IF k <= n THEN bs[k] ELSE @[i]]]]
        /\ UNCHANGED <<cur, procs, tables, doing, out>>

\* Defective form: rpos advances by what was asked for.
TakeSkips(p, n) ==
    LET m == Min({n, Fill(p)}) IN
    /\ out' = [p |-> p, data |-> [i \in 1..m |->
                                    pipes[p].buf[(pipes[p].rpos + i - 1) % Cap]]]
    /\ pipes' = [pipes EXCEPT ![p].rpos = (@ + n) % Wrap]

\* The copying loop of SYS_read and of readv: at most n bytes from rpos on.
Take(p, n) ==
    LET m == Min({n, Fill(p)}) IN
    /\ out' = [p |-> p, data |-> [i \in 1..m |->
                                    pipes[p].buf[(pipes[p].rpos + i - 1) % Cap]]]
    /\ pipes' = [pipes EXCEPT ![p].rpos = (@ + m) % Wrap]

\* Defective form: an empty pipe is end of file, whoever may still write.
ReadNow_AtOnce(q, fd, n) ==
    LET e == Table(q)[fd] IN
    /\ Calls(q)
    /\ e.kind = "pipe"
    /\ pipes[e.p].used
    /\ e.nonblock => ~IsEmpty(e.p)
    /\ Take(e.p, n)
    /\ UNCHANGED <<cur, procs, tables, doing>>

\* SYS_read of a pipe that has bytes, or has no writer left.
ReadNow(q, fd, n) ==
    LET e == Table(q)[fd] IN
    /\ Calls(q)
    /\ e.kind = "pipe"
    /\ pipes[e.p].used
    /\ IF e.nonblock THEN ~IsEmpty(e.p)
                     ELSE ~IsEmpty(e.p) \/ ~pipe_writers_alive(e.p)
    /\ Take(e.p, n)
    /\ UNCHANGED <<cur, procs, tables, doing>>

\* SYS_read of an empty pipe: the loop's first schedule().
ReadWaits(q, fd) ==
    LET e == Table(q)[fd] IN
    /\ Calls(q)
    /\ e.kind = "pipe"
    /\ pipes[e.p].used
    /\ ~e.nonblock
    /\ IsEmpty(e.p) /\ pipe_writers_alive(e.p)
    /\ doing' = [doing EXCEPT ![q] = Read(e.p)]
    /\ Yield(state)
    /\ UNCHANGED <<procs, tables, pipes, out>>

\* The rest of the loop, each time schedule() comes back: p is what the
\* descriptor held when the call began.
ReadTurn(q, n) ==
    LET p == doing[q].on IN
    /\ cur = q
    /\ doing[q].op = "read"
    /\ IF IsEmpty(p) /\ pipe_writers_alive(p)
       THEN Yield(state) /\ UNCHANGED <<pipes, out, doing>>
       ELSE /\ Take(p, n)
            /\ doing' = [doing EXCEPT ![q] = Idle]
            /\ UNCHANGED cur
    /\ UNCHANGED <<procs, tables>>

\* readv on a pipe: copies what there is, and does not wait.
readv(q, fd, n) ==
    LET e == Table(q)[fd] IN
    /\ "readv" \in Workload
    /\ Calls(q)
    /\ fd >= Std /\ e.kind = "pipe"
    /\ pipes[e.p].used
    /\ Take(e.p, n)
    /\ UNCHANGED <<cur, procs, tables, doing>>

-----------------------------------------------------------------------------
Empty == {q \in Procs : state[q] = "FREE"}

\* Defective form: the child is given its parent's table.
proc_fork_SharesTable(q) ==
    /\ Calls(q)
    /\ Empty # {}
    /\ LET c == Min(Empty) IN
           /\ state' = [state EXCEPT ![c] = "LIVE"]
           /\ parent' = [parent EXCEPT ![c] = q]
           /\ tab' = [tab EXCEPT ![c] = tab[q]]
    /\ UNCHANGED <<cur, thread, fds, pipes, doing, out>>

\* proc_fork: the child's slot gets a copy of the caller's table.
proc_fork(q) ==
    /\ Calls(q)
    /\ Empty # {}
    /\ LET c == Min(Empty) IN
           /\ state' = [state EXCEPT ![c] = "LIVE"]
           /\ parent' = [parent EXCEPT ![c] = q]
           /\ thread' = [thread EXCEPT ![c] = FALSE]
           /\ tab' = [tab EXCEPT ![c] = c]
           /\ fds' = [fds EXCEPT ![c] = Table(q)]
    /\ UNCHANGED <<cur, pipes, doing, out>>

\* proc_clone_thread: the thread uses the caller's table.
proc_clone_thread(q) ==
    /\ Calls(q)
    /\ Empty # {}
    /\ LET c == Min(Empty) IN
           /\ state' = [state EXCEPT ![c] = "LIVE"]
           /\ parent' = [parent EXCEPT ![c] = q]
           /\ thread' = [thread EXCEPT ![c] = TRUE]
           /\ tab' = [tab EXCEPT ![c] = tab[q]]
    /\ UNCHANGED <<cur, fds, pipes, doing, out>>

HighClosed(t) == [fd \in Fds |-> IF fd < Std THEN t[fd] ELSE Closed]

\* SYS_execve, as far as the descriptors go.
sys_execve(q) ==
    /\ Calls(q)
    /\ Set(q, HighClosed(Table(q)))
    /\ UNCHANGED <<cur, procs, tab, pipes, doing, out>>

\* Defective form: the exit leaves the descriptors as they are.
sys_exit_LeavesOpen(q) ==
    /\ Calls(q)
    /\ state' = [state EXCEPT ![q] = IF thread[q] THEN "GONE" ELSE "ZOMBIE"]
    /\ Yield(state')
    /\ UNCHANGED <<parent, thread, tables, pipes, doing, out>>

\* SYS_exit: of a thread (proc_thread_exit) only the slot is emptied; of a
\* process (process_exit_current) descriptors from Std on are closed.
Redirected(q) == \E fd \in 0..(Std - 1) : Table(q)[fd].kind = "pipe"
Outlived(q) == ~thread[q] /\ \E r \in Procs \ {q} : state[r] = "LIVE" /\ tab[r] = tab[q]

sys_exit(q) ==
    /\ Calls(q)
    /\ "redirected" \in Workload \/ ~Redirected(q)
    /\ "outlived" \in Workload \/ ~Outlived(q)
    /\ IF thread[q]
       THEN state' = [state EXCEPT ![q] = "GONE"] /\ UNCHANGED fds
       ELSE /\ state' = [state EXCEPT ![q] = "ZOMBIE"]
            /\ Set(q, HighClosed(Table(q)))
    /\ Yield(state')
    /\ UNCHANGED <<parent, thread, tab, pipes, doing, out>>

\* proc_waitpid for a child: reap it if it is a zombie, else give way.
proc_waitpid(q, c) ==
    /\ cur = q
    /\ doing[q] \in {Idle, Wait(c)}
    /\ parent[c] = q /\ ~thread[c]
    /\ IF state[c] = "ZOMBIE"
       THEN /\ state' = [state EXCEPT ![c] = "GONE"]
            /\ doing' = [doing EXCEPT ![q] = Idle]
            /\ UNCHANGED cur
       ELSE /\ state[c] = "LIVE"
            /\ doing' = [doing EXCEPT ![q] = Wait(c)]
            /\ Yield(state)
            /\ UNCHANGED state
    /\ UNCHANGED <<parent, thread, tables, pipes, out>>

\* The shell's turn in kmain's loop.
Shell ==
    /\ cur = 0
    /\ Yield(state)
    /\ UNCHANGED <<procs, tables, pipes, doing, out>>

Next ==
    \/ \E q \in Procs :
          \/ \E nb \in Flags : pipe(q, nb)
          \/ \E fd \in Fds :
                \/ dup(q, fd)
                \/ \E newfd \in Fds, nb \in Flags : dup3(q, fd, newfd, nb)
                \/ \E newfd \in Fds : dup2(q, fd, newfd)
                \/ \E nb \in Flags : fcntl_setfl(q, fd, nb)
                \/ close_fd(q, fd)
                \/ \E bs \in Data : do_write_fd(q, fd, bs)
                \/ \E n \in 1..MaxWrite : ReadNow(q, fd, n) \/ readv(q, fd, n)
                \/ ReadWaits(q, fd)
          \/ \E n \in 1..MaxWrite : ReadTurn(q, n)
          \/ proc_fork(q)
          \/ proc_clone_thread(q)
          \/ sys_execve(q)
          \/ sys_exit(q)
          \/ \E c \in Procs : proc_waitpid(q, c)
    \/ Shell

Spec == Init /\ [][Next]_vars

-----------------------------------------------------------------------------
\* Every variable has the shape the code declares; no pipe holds more than
\* its buffer (the `< 4096` of do_write_fd, across the wrap of the counters).
TypeOK ==
    /\ cur \in 0..NProc
    /\ state \in [Procs -> {"FREE", "LIVE", "ZOMBIE", "GONE"}]
    /\ parent \in [Procs -> 0..NProc]
    /\ thread \in [Procs -> BOOLEAN]
    /\ tab \in [Procs -> Procs]
    /\ fds \in [Procs -> [Fds -> Entries]]
    /\ pipes \in [Pipe -> [used : BOOLEAN, rpos : 0..(Wrap - 1), wpos : 0..(Wrap - 1),
                           buf : [0..(Cap - 1) -> Bytes]]]
    /\ \A p \in Pipe : Fill(p) <= Cap
    /\ doing \in [Procs -> {Idle} \union {Read(p) : p \in Pipe} \union {Wait(c) : c \in Procs}]
    /\ out.p \in Pipe \union {-1} /\ out.data \in Seq(Bytes)

Holds(q, p, wend) ==
    \E fd \in Fds : LET e == Table(q)[fd]
                    IN  e.kind = "pipe" /\ e.p = p /\ e.wend = wend

\* The buffers behave as bounded first-in first-out channels: what reads
\* return is what was written, in order, none lost and none twice, though the
\* counters wrap and the pipe is shared by forked processes.
Channels == INSTANCE PipeChannels WITH
                chan <- [p \in Pipe |-> Content(p)], out <- out.data
ImplementsChannels == Channels!Spec

\* A pipe lives as long as a running process has an end of it open: closing
\* one end must not kill it for the others (close_fd's comment).
PipeOutlivesItsEnds ==
    \A q \in Procs, p \in Pipe :
        state[q] = "LIVE" /\ (\E w \in BOOLEAN : Holds(q, p, w)) => pipes[p].used

\* A reader left waiting on an empty pipe waits for somebody: as long as
\* pipe_writers_alive keeps it in its loop, some process that has not exited
\* has a write end.
ReaderWaitsForAWriter ==
    \A q \in Procs :
        /\ state[q] = "LIVE" /\ doing[q].op = "read"
        /\ IsEmpty(doing[q].on) /\ pipe_writers_alive(doing[q].on)
        => \E r \in Procs : state[r] = "LIVE" /\ Holds(r, doing[q].on, TRUE)

\* A read returns 0 bytes, end of file, only when no process has a write end.
EofMeansNoWriter ==
    [][out' # out /\ out'.data = << >> => ~pipe_writers_alive(out'.p)]_vars

\* Two processes share a descriptor table only if one is a thread: the child
\* of a fork has its own, so that its close() is not its parent's.
TablesApart ==
    \A q, r \in Procs :
        q # r /\ {state[q], state[r]} \subseteq {"LIVE", "ZOMBIE"} /\ tab[q] = tab[r]
        => thread[q] \/ thread[r]

=============================================================================
