---------------------------- MODULE PipesProofs -----------------------------
(***************************************************************************)
(* The pipes of syscall.c and the descriptor tables of their users, for    *)
(* any number of processes, descriptors and pipes, any size of the buffer  *)
(* and any width of the counters the size divides: the properties of Pipes *)
(* and the refinement of PipeChannels, proved.                             *)
(***************************************************************************)
EXTENDS Pipes, NumberLemmas, SequenceTheorems

-----------------------------------------------------------------------------
(* Types. *)

\* What the assumptions on the constants say of the sizes.
LEMMA Sizes ==
    /\ NProc \in Nat /\ MaxFds \in Nat /\ Std \in Nat /\ NPipes \in Nat
    /\ Cap \in Nat /\ Wrap \in Nat /\ MaxWrite \in Nat
    /\ 0 < Std /\ Std < MaxFds /\ 0 < Cap /\ Cap < Wrap /\ Wrap % Cap = 0
    /\ Zero \in Bytes
<1>1. Zero \in Bytes
  BY PipeAssumption, Zenon DEF Zero
<1>2. QED
  BY <1>1, PipeAssumption

\* What a descriptor may be.
LEMMA EntryFacts ==
    /\ Closed \in Entries /\ Tty \in Entries
    /\ \A p \in Pipe, w, nb \in BOOLEAN : PipeEnd(p, w, nb) \in Entries
    /\ \A e \in Entries, nb \in BOOLEAN :
          /\ e.kind \in {"closed", "tty", "pipe"} /\ e.nonblock \in BOOLEAN
          /\ e.kind = "pipe" => /\ e.p \in Pipe /\ e.wend \in BOOLEAN
                                /\ [e EXCEPT !.nonblock = nb] \in Entries
<1>1. Closed \in Entries /\ Tty \in Entries
  BY ZenonT(40) DEF Entries, Closed, Tty
<1>2. ASSUME NEW p \in Pipe, NEW w \in BOOLEAN, NEW nb \in BOOLEAN
      PROVE  PipeEnd(p, w, nb) \in Entries
  BY <1>2, Sizes DEF Entries, PipeEnd, Pipe
<1>3. ASSUME NEW e \in Entries, NEW nb \in BOOLEAN
      PROVE  /\ e.kind \in {"closed", "tty", "pipe"} /\ e.nonblock \in BOOLEAN
             /\ e.kind = "pipe" => /\ e.p \in Pipe /\ e.wend \in BOOLEAN
                                   /\ [e EXCEPT !.nonblock = nb] \in Entries
  <2>1. [e EXCEPT !.nonblock = nb] \in [kind : {"closed", "tty", "pipe"}, p : Nat,
                                       wend : BOOLEAN, nonblock : BOOLEAN]
    BY <1>3 DEF Entries
  <2>2. [e EXCEPT !.nonblock = nb].kind = e.kind /\ [e EXCEPT !.nonblock = nb].p = e.p
    BY <1>3 DEF Entries
  <2>3. QED
    BY <1>3, <2>1, <2>2 DEF Entries
<1>4. QED
  BY <1>1, <1>2, <1>3, Zenon

\* alloc_fd returns a descriptor that is closed and not a standard stream.
LEMMA AllocFd ==
  ASSUME NEW t, FreeFds(t) # {}
  PROVE  /\ alloc_fd(t) \in Fds /\ alloc_fd(t) >= Std /\ t[alloc_fd(t)].kind = "closed"
<1>1. FreeFds(t) \in SUBSET Nat
  BY Sizes DEF FreeFds
<1>2. alloc_fd(t) \in FreeFds(t)
  BY <1>1, MinIn DEF alloc_fd
<1>3. QED
  BY <1>2, Sizes DEF FreeFds, Fds

\* A call that changes only the caller's table keeps the tables' type.
LEMMA SetType ==
  ASSUME TypeOK, NEW q \in Procs, NEW t \in [Fds -> Entries], Set(q, t)
  PROVE  fds' \in [Procs -> [Fds -> Entries]] /\ fds' = [fds EXCEPT ![tab[q]] = t] /\ tab[q] \in Procs
  BY DEF TypeOK, Set

\* The table of a process is a table.
LEMMA TableType ==
  ASSUME TypeOK, NEW q \in Procs
  PROVE  Table(q) \in [Fds -> Entries]
  BY DEF TypeOK, Table

\* The fill of a pipe is a number the counters can tell.
LEMMA FillRange ==
  ASSUME TypeOK, NEW p \in Pipe
  PROVE  /\ Fill(p) \in 0..Cap
         /\ IsEmpty(p) <=> Fill(p) = 0
<1> DEFINE w == pipes[p].wpos
           r == pipes[p].rpos
<1>1. w \in 0..(Wrap - 1) /\ r \in 0..(Wrap - 1) /\ Fill(p) <= Cap
  BY DEF TypeOK
<1>2. Fill(p) = (w - r) % Wrap /\ (IsEmpty(p) <=> r = w)
  BY DEF Fill, IsEmpty
<1> HIDE DEF w, r
<1>3. (w - r) % Wrap \in 0..(Wrap - 1)
  BY <1>1, Sizes, DivMod
<1>4. w >= r => (w - r) % Wrap = w - r
  BY <1>1, Sizes, ModOnce
<1>5. w < r => (w - r) % Wrap = w - r + Wrap
  <2>1. SUFFICES ASSUME w < r PROVE (w - r) % Wrap = w - r + Wrap
    OBVIOUS
  <2>2. w - r + Wrap \in 0..(Wrap - 1) /\ w - r \in Int
    BY <1>1, <2>1, Sizes
  <2>3. (w - r + Wrap) % Wrap = (w - r) % Wrap /\ (w - r + Wrap) % Wrap = w - r + Wrap
    BY <2>2, Sizes, ModOnce
  <2>4. QED
    BY <2>3
<1>6. QED
  BY <1>1, <1>2, <1>3, <1>4, <1>5, Sizes

\* Taking bytes off a pipe, as SYS_read and readv do.
LEMMA TakeType ==
  ASSUME TypeOK, NEW p \in Pipe, NEW n \in 1..MaxWrite, Take(p, n)
  PROVE  /\ pipes' \in [Pipe -> [used : BOOLEAN, rpos : 0..(Wrap - 1), wpos : 0..(Wrap - 1),
                                 buf : [0..(Cap - 1) -> Bytes]]]
         /\ \A x \in Pipe : Fill(x)' <= Cap
         /\ out'.p \in Pipe /\ out'.data \in Seq(Bytes)
         /\ \A x \in Pipe : pipes'[x].used = pipes[x].used
         /\ \A x \in Pipe : x # p => pipes'[x] = pipes[x]
         /\ Min({n, Fill(p)}) \in 0..Fill(p)
         /\ Fill(p)' = Fill(p) - Min({n, Fill(p)})
<1> DEFINE m == Min({n, Fill(p)})
           r == pipes[p].rpos
           w == pipes[p].wpos
           b == pipes[p].buf
<1>1. Fill(p) \in 0..Cap /\ n \in Nat
  BY FillRange, Sizes
<1>2. m \in 0..Fill(p)
  BY <1>1, MinOfTwo
<1>3. r \in 0..(Wrap - 1) /\ w \in 0..(Wrap - 1) /\ b \in [0..(Cap - 1) -> Bytes]
  BY DEF TypeOK
<1>4. pipes' = [pipes EXCEPT ![p].rpos = (r + m) % Wrap]
  BY DEF Take
<1>5. out' = [p |-> p, data |-> [i \in 1..m |-> b[(r + i - 1) % Cap]]]
  BY DEF Take
<1>6. Fill(p) = (w - r) % Wrap
  BY DEF Fill
<1> HIDE DEF m, r, w, b
<1>a. /\ m \in Int /\ -m \in Int /\ r \in Int /\ w \in Int
      /\ r + m \in Int /\ w - r \in Int /\ Wrap \in Nat /\ Wrap > 0
  BY <1>1, <1>2, <1>3, Sizes
<1>7. (r + m) % Wrap \in 0..(Wrap - 1)
  BY <1>a, DivMod
<1>8. pipes' \in [Pipe -> [used : BOOLEAN, rpos : 0..(Wrap - 1), wpos : 0..(Wrap - 1),
                          buf : [0..(Cap - 1) -> Bytes]]]
  BY ZenonT(40), <1>4, <1>7 DEF TypeOK
<1>9. /\ pipes'[p].rpos = (r + m) % Wrap /\ pipes'[p].wpos = w
      /\ \A x \in Pipe : x # p => pipes'[x] = pipes[x]
      /\ \A x \in Pipe : pipes'[x].used = pipes[x].used
  BY <1>4 DEF TypeOK, r, w
<1>10. (w - ((r + m) % Wrap)) % Wrap = Fill(p) - m
  <2>1. (w - ((r + m) % Wrap)) % Wrap = (w - (r + m)) % Wrap
    BY ZenonT(40), <1>a, ModSum
  <2>2. (((w - r) % Wrap) + (-m)) % Wrap = ((w - r) + (-m)) % Wrap
    BY ZenonT(40), <1>a, ModSum
  <2>3. (Fill(p) - m) % Wrap = Fill(p) - m
    BY <1>1, <1>2, ModOnce, Sizes
  <2>4. (w - r) + (-m) = w - (r + m) /\ Fill(p) + (-m) = Fill(p) - m
    BY <1>1, <1>2, <1>3
  <2>5. QED
    BY <1>6, <2>1, <2>2, <2>3, <2>4
<1>b. Fill(p)' = Fill(p) - m
  BY <1>9, <1>10 DEF Fill
<1>11. \A x \in Pipe : Fill(x)' <= Cap
  <2>2. \A x \in Pipe : x # p => Fill(x)' = Fill(x)
    BY <1>9 DEF Fill
  <2>3. QED
    BY <1>1, <1>2, <1>b, <2>2, Sizes, FillRange
<1>12. out'.data \in Seq(Bytes)
  <2>1. \A i \in 1..m : b[(r + i - 1) % Cap] \in Bytes
    <3>1. SUFFICES ASSUME NEW i \in 1..m PROVE b[(r + i - 1) % Cap] \in Bytes
      OBVIOUS
    <3>2. (r + i - 1) % Cap \in 0..(Cap - 1)
      BY <1>1, <1>2, <1>3, DivMod, Sizes
    <3>3. QED
      BY <1>3, <3>2
  <2>2. [i \in 1..m |-> b[(r + i - 1) % Cap]] \in [1..m -> Bytes]
    BY <2>1
  <2>3. m \in Nat
    BY <1>1, <1>2
  <2>4. QED
    BY <1>5, <2>2, <2>3, SeqDef
<1>13. QED
  BY <1>2, <1>5, <1>8, <1>9, <1>b, <1>11, <1>12 DEF m

\* What do_write_fd does to the pipe p: it puts in the first n bytes of bs.
Written(p, n, bs) ==
    /\ n \in 1..Len(bs) /\ n <= Cap - Fill(p) /\ bs \in Seq(Bytes)
    /\ pipes' \in [Pipe -> [used : BOOLEAN, rpos : 0..(Wrap - 1), wpos : 0..(Wrap - 1),
                            buf : [0..(Cap - 1) -> Bytes]]]
    /\ Fill(p)' = Fill(p) + n
    /\ \A x \in Pipe : pipes'[x].used = pipes[x].used
    /\ \A x \in Pipe : x # p => pipes'[x] = pipes[x]
    /\ pipes'[p].rpos = pipes[p].rpos
    /\ \A i \in 0..(Cap - 1) :
         pipes'[p].buf[i] = LET k == ((i - pipes[p].wpos) % Cap) + 1
                            IN  IF k <= n THEN bs[k] ELSE pipes[p].buf[i]

\* What do_write_fd leaves in the pipe p: n bytes of bs after those that were
\* there.
LEMMA WriteType ==
  ASSUME TypeOK, NEW q \in Procs, NEW fd \in Fds, NEW bs \in Data, do_write_fd(q, fd, bs)
  PROVE  \E p \in Pipe, n \in Nat : Written(p, n, bs)
<1>1. PICK p \in Pipe : p = Table(q)[fd].p
  BY ZenonT(40), TableType, EntryFacts DEF do_write_fd
<1>2. PICK n : n = Min({Len(bs), Cap - Fill(p)})
  OBVIOUS
<1> DEFINE w == pipes[p].wpos
           r == pipes[p].rpos
           b == pipes[p].buf
           k(i) == ((i - w) % Cap) + 1
           c == [i \in 0..(Cap - 1) |-> IF k(i) <= n THEN bs[k(i)] ELSE b[i]]
<1>14. bs \in Seq(Bytes) /\ Len(bs) \in Nat /\ Len(bs) >= 1
  <2>1. PICK l \in 1..MaxWrite : bs \in [1..l -> Bytes]
    BY DEF Data
  <2>2. l \in Nat /\ l >= 1
    BY Sizes
  <2>3. bs \in Seq(Bytes) /\ Len(bs) = l
    BY SMTT(30), Z3T(30), <2>1, <2>2, SeqDef
  <2>4. QED
    BY <2>2, <2>3
<1>3. Fill(p) \in 0..Cap /\ Fill(p) < Cap /\ Fill(p) = (w - r) % Wrap
  BY ZenonT(40), <1>1, FillRange DEF do_write_fd, Fill
<1>4. n \in Nat /\ n >= 1 /\ n <= Len(bs) /\ n <= Cap - Fill(p)
  <2>1. Cap - Fill(p) \in Int /\ Cap - Fill(p) >= 1
    BY <1>3, Sizes
  <2>2. n = IF Len(bs) <= Cap - Fill(p) THEN Len(bs) ELSE Cap - Fill(p)
    BY <1>2, <1>14, <2>1, MinOfTwo
  <2>3. QED
    BY <1>14, <2>1, <2>2
<1>5. w \in 0..(Wrap - 1) /\ r \in 0..(Wrap - 1) /\ b \in [0..(Cap - 1) -> Bytes]
  BY SMTT(30), Z3T(30) DEF TypeOK
<1>6. pipes' = [pipes EXCEPT ![p] = [pipes[p] EXCEPT !.wpos = (w + n) % Wrap, !.buf = c]]
  BY ZenonT(40), <1>1, <1>2 DEF do_write_fd
<1> HIDE DEF w, r, b
<1>7. /\ w \in Int /\ r \in Int /\ n \in Int /\ -r \in Int /\ w + n \in Int /\ w - r \in Int
      /\ Wrap \in Nat /\ Wrap > 0 /\ Cap \in Nat /\ Cap > 0
  BY <1>4, <1>5, Sizes
<1>8. (w + n) % Wrap \in 0..(Wrap - 1)
  BY <1>7, DivMod
<1>9. c \in [0..(Cap - 1) -> Bytes]
  <2>1. ASSUME NEW i \in 0..(Cap - 1) PROVE c[i] \in Bytes
    <3>1. (i - w) % Cap \in 0..(Cap - 1)
      BY <1>7, DivMod
    <3>2. k(i) \in Nat /\ k(i) >= 1
      BY <1>7, <3>1
    <3> HIDE DEF k
    <3>3. k(i) <= n => bs[k(i)] \in Bytes
      BY <1>14, <1>4, <3>2, ElementOfSeq
    <3>4. b[i] \in Bytes
      BY <1>5
    <3>5. QED
      BY <3>3, <3>4
  <2>2. QED
    BY <2>1
<1>10. /\ pipes' \in [Pipe -> [used : BOOLEAN, rpos : 0..(Wrap - 1), wpos : 0..(Wrap - 1),
                                buf : [0..(Cap - 1) -> Bytes]]]
       /\ pipes'[p].wpos = (w + n) % Wrap /\ pipes'[p].rpos = r /\ pipes'[p].buf = c
       /\ \A x \in Pipe : pipes'[x].used = pipes[x].used
       /\ \A x \in Pipe : x # p => pipes'[x] = pipes[x]
  <2> HIDE DEF c
  <2>1. QED
    BY ZenonT(40), <1>6, <1>8, <1>9 DEF TypeOK, r
<1>11. Fill(p)' = Fill(p) + n
  <2>1. (((w + n) % Wrap) + (-r)) % Wrap = ((w + n) + (-r)) % Wrap
    BY ZenonT(40), <1>7, ModSum
  <2>2. (((w - r) % Wrap) + n) % Wrap = ((w - r) + n) % Wrap
    BY ZenonT(40), <1>7, ModSum
  <2>3. (w + n) + (-r) = (w - r) + n
    BY <1>7
  <2>4. (Fill(p) + n) % Wrap = Fill(p) + n
    <3>1. Fill(p) + n \in 0..(Wrap - 1)
      BY <1>3, <1>4, Sizes
    <3>2. QED
      BY <3>1, <1>7, ModOnce
  <2>5. Fill(p)' = (((w + n) % Wrap) - r) % Wrap
    BY <1>10 DEF Fill
  <2>6. ((w + n) % Wrap) - r = ((w + n) % Wrap) + (-r)
    BY <1>7, <1>8
  <2>7. QED
    BY <1>3, <2>1, <2>2, <2>3, <2>4, <2>5, <2>6
<1>12. \A i \in 0..(Cap - 1) : pipes'[p].buf[i] = IF k(i) <= n THEN bs[k(i)] ELSE b[i]
  BY <1>10
<1>13. QED
  <2>1. n \in 1..Len(bs)
    BY <1>14, <1>4
  <2>2. QED
    BY ZenonT(40), <1>14, <1>4, <1>10, <1>11, <1>12, <2>1 DEF w, r, b, Written

PipeTable == [Pipe -> [used : BOOLEAN, rpos : 0..(Wrap - 1), wpos : 0..(Wrap - 1),
                       buf : [0..(Cap - 1) -> Bytes]]]

\* SYS_pipe takes an unused pipe and gives it two ends in the caller's table.
LEMMA PipeMakes ==
  ASSUME TypeOK, NEW q \in Procs, NEW nb \in BOOLEAN, pipe(q, nb)
  PROVE  \E pi \in Pipe, rfd, wfd \in Fds :
           /\ ~pipes[pi].used
           /\ fds' = [fds EXCEPT ![tab[q]] = [Table(q) EXCEPT ![rfd] = PipeEnd(pi, FALSE, nb),
                                                             ![wfd] = PipeEnd(pi, TRUE, nb)]]
           /\ pipes' = [pipes EXCEPT ![pi] = [used |-> TRUE, rpos |-> 0, wpos |-> 0, buf |-> Fresh]]
<1> DEFINE free == {p \in Pipe : ~pipes[p].used}
           pi == Min(free)
           t == Table(q)
           rfd == alloc_fd(t)
           t1 == [t EXCEPT ![rfd] = PipeEnd(pi, FALSE, nb)]
           wfd == alloc_fd(t1)
<1>1. pi \in Pipe /\ ~pipes[pi].used
  <2>1. free \in SUBSET Nat /\ free # {}
    BY Sizes DEF pipe, Pipe
  <2>2. Min(free) \in free
    BY <2>1, MinIn
  <2>3. QED
    BY <2>2
<1>2. FreeFds(t) # {} /\ FreeFds(t1) # {}
  <2>1. PICK x \in FreeFds(t) : x # rfd
    BY DEF pipe
  <2>2. t1[x] = t[x]
    BY <2>1, TableType, Sizes DEF FreeFds, Fds
  <2>3. QED
    BY ZenonT(40), <2>1, <2>2 DEF FreeFds
<1>3. rfd \in Fds /\ wfd \in Fds
  BY ZenonT(40), <1>2, AllocFd
<1>4. /\ fds' = [fds EXCEPT ![tab[q]] = [t1 EXCEPT ![wfd] = PipeEnd(pi, TRUE, nb)]]
      /\ pipes' = [pipes EXCEPT ![pi] = [used |-> TRUE, rpos |-> 0, wpos |-> 0, buf |-> Fresh]]
  BY DEF pipe, Set
<1> HIDE DEF pi, rfd, wfd
<1>5. QED
  BY ZenonT(40), <1>1, <1>3, <1>4

\* A pipe made by SYS_pipe is empty, and the others are as they were.
LEMMA NewPipe ==
  ASSUME TypeOK, NEW pi \in Pipe,
         pipes' = [pipes EXCEPT ![pi] = [used |-> TRUE, rpos |-> 0, wpos |-> 0, buf |-> Fresh]]
  PROVE  pipes' \in PipeTable /\ \A x \in Pipe : Fill(x)' = IF x = pi THEN 0 ELSE Fill(x)
<1>1. Fresh \in [0..(Cap - 1) -> Bytes] /\ 0 \in 0..(Wrap - 1)
  BY Sizes DEF Fresh
<1>2. pipes' \in PipeTable
  BY <1>1 DEF TypeOK, PipeTable
<1>3. (0 - 0) % Wrap = 0
  BY Sizes, ModOnce
<1>4. QED
  BY SMTT(30), Z3T(30), <1>2, <1>3 DEF TypeOK, Fill

\* TypeOK, with the pipes' part under one name.
LEMMA TypeUnfold ==
    TypeOK <=>
      /\ cur \in 0..NProc
      /\ state \in [Procs -> {"FREE", "LIVE", "ZOMBIE", "GONE"}]
      /\ parent \in [Procs -> 0..NProc] /\ thread \in [Procs -> BOOLEAN]
      /\ tab \in [Procs -> Procs] /\ fds \in [Procs -> [Fds -> Entries]]
      /\ pipes \in PipeTable /\ (\A p \in Pipe : Fill(p) <= Cap)
      /\ doing \in [Procs -> {Idle} \union {Read(p) : p \in Pipe} \union {Wait(c) : c \in Procs}]
      /\ out.p \in Pipe \union {-1} /\ out.data \in Seq(Bytes)
  BY ZenonT(40) DEF TypeOK, PipeTable

\* The descriptor tables are well typed at boot.
LEMMA TypeInit == Init => TypeOK
<1>1. SUFFICES ASSUME Init PROVE TypeOK
  OBVIOUS
<1>2. Console \in [Fds -> Entries]
  BY EntryFacts DEF Console
<1>3. /\ pipes \in PipeTable
      /\ \A p \in Pipe : Fill(p) = 0
  <2>1. Fresh \in [0..(Cap - 1) -> Bytes] /\ 0 \in 0..(Wrap - 1)
    BY Sizes DEF Fresh
  <2>2. (0 - 0) % Wrap = 0
    BY Sizes, ModOnce
  <2>3. QED
    BY <1>1, <2>1, <2>2 DEF Init, PipeTable, Fill
<1>4. /\ cur \in 0..NProc
      /\ state \in [Procs -> {"FREE", "LIVE", "ZOMBIE", "GONE"}]
      /\ parent \in [Procs -> 0..NProc] /\ thread \in [Procs -> BOOLEAN]
      /\ tab \in [Procs -> Procs]
  BY <1>1, Sizes DEF Init
<1>5. fds \in [Procs -> [Fds -> Entries]]
  BY <1>1, <1>2 DEF Init
<1>6. doing \in [Procs -> {Idle} \union {Read(p) : p \in Pipe} \union {Wait(c) : c \in Procs}]
  BY <1>1 DEF Init
<1>7. out.p = -1 /\ out.data = << >> /\ << >> \in Seq(Bytes)
  BY <1>1, EmptySeq DEF Init
<1>8. QED
  BY SMTT(30), Z3T(30), <1>3, <1>4, <1>5, <1>6, <1>7, Sizes, TypeUnfold

\* A call that may change one table and the marks of use, and nothing else.
TableStep(q) ==
    /\ \E t \in [Fds -> Entries] : fds' = [fds EXCEPT ![tab[q]] = t]
    /\ UNCHANGED <<cur, procs, tab, doing, out>>

\* dup, dup2, dup3, F_SETFL, close and execve are such calls.
LEMMA DescriptorCalls ==
  ASSUME TypeOK, NEW q \in Procs
  PROVE  /\ \A nb \in Flags : pipe(q, nb) => TableStep(q)
         /\ \A fd \in Fds : dup(q, fd) \/ close_fd(q, fd) => TableStep(q) /\ UNCHANGED pipes
         /\ \A fd, newfd \in Fds, nb \in BOOLEAN : DupOnto(q, fd, newfd, nb) => TableStep(q)
         /\ \A fd \in Fds, nb \in BOOLEAN :
              fcntl_setfl(q, fd, nb) => TableStep(q) /\ UNCHANGED pipes
         /\ sys_execve(q) => TableStep(q) /\ UNCHANGED pipes
         /\ HighClosed(Table(q)) \in [Fds -> Entries]
<1>1. Table(q) \in [Fds -> Entries]
  BY TableType
<1>2. ASSUME NEW nb \in Flags, pipe(q, nb) PROVE TableStep(q)
  <2>1. nb \in BOOLEAN
    BY PipeAssumption
  <2>2. PICK pi \in Pipe, rfd \in Fds, wfd \in Fds :
           /\ ~pipes[pi].used
           /\ fds' = [fds EXCEPT ![tab[q]] = [Table(q) EXCEPT ![rfd] = PipeEnd(pi, FALSE, nb),
                                                             ![wfd] = PipeEnd(pi, TRUE, nb)]]
           /\ pipes' = [pipes EXCEPT ![pi] = [used |-> TRUE, rpos |-> 0, wpos |-> 0, buf |-> Fresh]]
    BY ZenonT(40), <1>2, <2>1, PipeMakes
  <2>3. PipeEnd(pi, FALSE, nb) \in Entries /\ PipeEnd(pi, TRUE, nb) \in Entries
    BY ZenonT(40), <2>1, EntryFacts
  <2>4. [Table(q) EXCEPT ![rfd] = PipeEnd(pi, FALSE, nb), ![wfd] = PipeEnd(pi, TRUE, nb)]
          \in [Fds -> Entries]
    BY ZenonT(40), <1>1, <2>3
  <2>5. QED
    BY ZenonT(40), <1>2, <2>2, <2>4 DEF TableStep, pipe
<1>3. ASSUME NEW fd \in Fds, dup(q, fd) PROVE TableStep(q) /\ UNCHANGED pipes
  <2>1. [Table(q) EXCEPT ![alloc_fd(Table(q))] = Table(q)[fd]] \in [Fds -> Entries]
    BY ZenonT(40), <1>1
  <2>2. QED
    BY ZenonT(40), <1>3, <2>1 DEF TableStep, dup, Set
<1>4. ASSUME NEW fd \in Fds, close_fd(q, fd) PROVE TableStep(q) /\ UNCHANGED pipes
  <2>1. [Table(q) EXCEPT ![fd] = Closed] \in [Fds -> Entries]
    BY <1>1, EntryFacts
  <2>2. QED
    BY ZenonT(40), <1>4, <2>1 DEF TableStep, close_fd, Set
<1>5. ASSUME NEW fd \in Fds, NEW newfd \in Fds, NEW nb \in BOOLEAN, DupOnto(q, fd, newfd, nb)
      PROVE  TableStep(q)
  <2> DEFINE t == Table(q)
             over == newfd >= Std /\ t[newfd].kind # "closed"
             t1 == IF over THEN [t EXCEPT ![newfd] = Closed] ELSE t
             entry == t1[fd]
             e == IF entry.kind = "pipe" THEN [entry EXCEPT !.nonblock = nb] ELSE entry
  <2>1. t1 \in [Fds -> Entries]
    BY <1>1, EntryFacts
  <2>2. e \in Entries
    <3> HIDE DEF t1
    <3>1. entry \in Entries
      BY <2>1
    <3>2. QED
      BY <3>1, EntryFacts
  <2>3. fds' = [fds EXCEPT ![tab[q]] = [t1 EXCEPT ![newfd] = e]]
    BY <1>5 DEF DupOnto, Set
  <2> HIDE DEF e, t1
  <2>4. [t1 EXCEPT ![newfd] = e] \in [Fds -> Entries]
    BY <2>1, <2>2
  <2>5. QED
    BY ZenonT(40), <1>5, <2>3, <2>4 DEF TableStep, DupOnto
<1>6. ASSUME NEW fd \in Fds, NEW nb \in BOOLEAN, fcntl_setfl(q, fd, nb)
      PROVE  TableStep(q) /\ UNCHANGED pipes
  <2>1. [Table(q)[fd] EXCEPT !.nonblock = nb] \in Entries
    BY <1>1, <1>6, EntryFacts DEF fcntl_setfl
  <2>2. [Table(q) EXCEPT ![fd].nonblock = nb] = [Table(q) EXCEPT ![fd] = [Table(q)[fd] EXCEPT !.nonblock = nb]]
    BY <1>1
  <2>3. [Table(q) EXCEPT ![fd].nonblock = nb] \in [Fds -> Entries]
    BY <1>1, <2>1, <2>2
  <2>4. QED
    BY ZenonT(40), <1>6, <2>3 DEF TableStep, fcntl_setfl, Set
<1>7. HighClosed(Table(q)) \in [Fds -> Entries]
  BY <1>1, EntryFacts DEF HighClosed
<1>8. sys_execve(q) => TableStep(q) /\ UNCHANGED pipes
  BY ZenonT(40), <1>7 DEF TableStep, sys_execve, Set
<1>9. QED
  BY <1>2, <1>3, <1>4, <1>5, <1>6, <1>7, <1>8

\* A table step keeps the types if the pipes keep theirs.
LEMMA TableStepType ==
  ASSUME TypeOK, NEW q \in Procs, TableStep(q), pipes' \in PipeTable, \A p \in Pipe : Fill(p)' <= Cap
  PROVE  TypeOK'
<1>1. fds' \in [Procs -> [Fds -> Entries]]
  BY DEF TableStep, TypeOK
<1>2. /\ cur' = cur /\ state' = state /\ parent' = parent /\ thread' = thread
      /\ tab' = tab /\ doing' = doing /\ out' = out
  BY DEF TableStep, procs
<1>3. QED
  BY ZenonT(40), <1>1, <1>2 DEF TypeOK, PipeTable

\* The slot fork and clone take is a free one.
LEMMA SlotFound ==
  ASSUME Empty # {}
  PROVE  Min(Empty) \in Procs /\ state[Min(Empty)] = "FREE"
<1>1. Empty \in SUBSET Nat
  BY Sizes DEF Empty, Procs
<1>2. Min(Empty) \in Empty
  BY <1>1, MinIn
<1>3. QED
  BY <1>2 DEF Empty

\* A process in the middle of a read has a pipe to read.
LEMMA ReadsAPipe ==
  ASSUME TypeOK, NEW q \in Procs, doing[q].op = "read"
  PROVE  doing[q].on \in Pipe
<1>1. doing[q] \in {Idle} \union {Read(p) : p \in Pipe} \union {Wait(c) : c \in Procs}
  BY ZenonT(40) DEF TypeOK
<1>2. doing[q] # Idle /\ \A c \in Procs : doing[q] # Wait(c)
  BY DEF Idle, Wait
<1>3. PICK p \in Pipe : doing[q] = Read(p)
  BY <1>1, <1>2
<1>4. QED
  BY <1>3 DEF Read

\* No call makes a table or a pipe ill typed; do_write_fd, which stops at a full
\* buffer, is the only one that fills it.
LEMMA TypeStep == TypeOK /\ [Next]_vars => TypeOK'
<1>1. SUFFICES ASSUME TypeOK, [Next]_vars PROVE TypeOK'
  OBVIOUS
<1>u. TypeOK
  BY <1>1
<1>2. ASSUME UNCHANGED pipes PROVE pipes' \in PipeTable /\ \A p \in Pipe : Fill(p)' <= Cap
  BY <1>u, <1>2 DEF TypeOK, PipeTable, Fill
<1>3. Flags \subseteq BOOLEAN
  BY PipeAssumption
<1>4. ASSUME NEW q \in Procs, NEW nb \in Flags, pipe(q, nb) PROVE TypeOK'
  <2>1. TableStep(q)
    BY <1>u, <1>4, DescriptorCalls
  <2>2. PICK pi \in Pipe : pipes' = [pipes EXCEPT ![pi] = [used |-> TRUE, rpos |-> 0,
                                                           wpos |-> 0, buf |-> Fresh]]
    BY <1>u, <1>3, <1>4, PipeMakes, Zenon
  <2>3. pipes' \in PipeTable /\ \A p \in Pipe : Fill(p)' <= Cap
    <3>1. \A p \in Pipe : Fill(p) \in 0..Cap
      BY <1>u, FillRange
    <3>2. pipes' \in PipeTable /\ \A x \in Pipe : Fill(x)' = IF x = pi THEN 0 ELSE Fill(x)
      BY ZenonT(40), <1>u, <2>2, NewPipe
    <3>3. QED
      BY <3>1, <3>2, Sizes
  <2>4. QED
    BY <1>u, <2>1, <2>3, TableStepType
<1>5. ASSUME NEW q \in Procs, NEW fd \in Fds, dup(q, fd) \/ close_fd(q, fd) PROVE TypeOK'
  BY <1>u, <1>2, <1>5, DescriptorCalls, TableStepType
<1>6. ASSUME NEW q \in Procs, NEW fd \in Fds, NEW newfd \in Fds, NEW nb \in BOOLEAN,
             DupOnto(q, fd, newfd, nb)
      PROVE  TypeOK'
  <2>1. TableStep(q)
    BY <1>u, <1>6, DescriptorCalls
  <2>2. CASE UNCHANGED pipes
    BY <1>u, <1>2, <2>1, <2>2, TableStepType
  <2>3. CASE pipes' # pipes
    <3>1. PICK p \in Pipe : pipes' = [pipes EXCEPT ![p].used = FALSE]
      BY ZenonT(40), <1>u, <1>6, <2>3, TableType, EntryFacts DEF DupOnto
    <3>2. pipes' \in PipeTable /\ \A x \in Pipe : pipes'[x].rpos = pipes[x].rpos /\ pipes'[x].wpos = pipes[x].wpos
      BY ZenonT(40), <1>u, <3>1 DEF TypeOK, PipeTable
    <3>3. \A x \in Pipe : Fill(x)' <= Cap
      BY SMTT(30), Z3T(30), <1>u, <3>2 DEF Fill, TypeOK
    <3>4. QED
      BY SMTT(30), Z3T(30), <1>u, <2>1, <3>2, <3>3, TableStepType
  <2>4. QED
    BY <2>2, <2>3
<1>7. ASSUME NEW q \in Procs, NEW fd \in Fds, NEW nb \in Flags, fcntl_setfl(q, fd, nb) PROVE TypeOK'
  BY SMTT(30), Z3T(30), <1>u, <1>2, <1>3, <1>7, DescriptorCalls, TableStepType
<1>8. ASSUME NEW q \in Procs, NEW fd \in Fds, NEW bs \in Data, do_write_fd(q, fd, bs) PROVE TypeOK'
  <2>1. PICK p \in Pipe, n \in Nat :
           /\ n <= Cap - Fill(p) /\ pipes' \in PipeTable /\ Fill(p)' = Fill(p) + n
           /\ \A x \in Pipe : x # p => pipes'[x] = pipes[x]
    BY <1>u, <1>8, WriteType, Zenon DEF Written, PipeTable
  <2>2. \A x \in Pipe : Fill(x)' <= Cap
    <3>1. \A x \in Pipe : x # p => Fill(x)' = Fill(x)
      BY <2>1 DEF Fill
    <3>2. QED
      BY SMTT(30), Z3T(30), <1>u, <2>1, <3>1, FillRange, Sizes
  <2>3. QED
    BY ZenonT(40), <1>u, <1>8, <2>1, <2>2 DEF TypeOK, do_write_fd, PipeTable, procs, tables
<1>9. ASSUME NEW p \in Pipe, NEW n \in 1..MaxWrite, Take(p, n), UNCHANGED <<cur, procs, tables>>,
             doing' \in [Procs -> {Idle} \union {Read(x) : x \in Pipe} \union {Wait(c) : c \in Procs}]
      PROVE  TypeOK'
  <2>1. /\ pipes' \in PipeTable /\ \A x \in Pipe : Fill(x)' <= Cap
        /\ out'.p \in Pipe /\ out'.data \in Seq(Bytes)
    BY ZenonT(40), <1>u, <1>9, TakeType DEF PipeTable
  <2>2. QED
    BY ZenonT(40), <1>u, <1>9, <2>1 DEF TypeOK, PipeTable, procs, tables
<1>10. ASSUME NEW q \in Procs, NEW fd \in Fds, NEW n \in 1..MaxWrite, ReadNow(q, fd, n) \/ readv(q, fd, n)
       PROVE  TypeOK'
  <2>1. PICK p \in Pipe : Take(p, n)
    BY ZenonT(40), <1>u, <1>10, TableType, EntryFacts DEF ReadNow, readv
  <2>2. QED
    BY ZenonT(40), <1>u, <1>9, <1>10, <2>1 DEF ReadNow, readv, TypeOK
<1>11. ASSUME NEW q \in Procs, NEW fd \in Fds, ReadWaits(q, fd) PROVE TypeOK'
  <2>1. PICK p \in Pipe : doing' = [doing EXCEPT ![q] = Read(p)]
    BY ZenonT(40), <1>u, <1>11, TableType, EntryFacts DEF ReadWaits
  <2>2. doing' \in [Procs -> {Idle} \union {Read(x) : x \in Pipe} \union {Wait(c) : c \in Procs}]
    BY ZenonT(40), <1>u, <2>1 DEF TypeOK
  <2>3. cur' \in 0..NProc
    <3>1. Yield(state)
      BY <1>11, Zenon DEF ReadWaits
    <3>2. QED
      BY <3>1, Sizes DEF Yield, Procs
  <2>4. QED
    BY ZenonT(40), <1>u, <1>2, <1>11, <2>2, <2>3 DEF TypeOK, ReadWaits, procs, tables, PipeTable
<1>12. ASSUME NEW q \in Procs, NEW n \in 1..MaxWrite, ReadTurn(q, n) PROVE TypeOK'
  <2>1. doing[q].on \in Pipe
    BY <1>u, <1>12, ReadsAPipe DEF ReadTurn
  <2>2. PICK p \in Pipe : p = doing[q].on
    BY <2>1
  <2>3. CASE Take(p, n)
    <3>1. UNCHANGED <<cur, procs, tables>> \/ UNCHANGED <<pipes, out, doing>>
      BY <1>12 DEF ReadTurn
    <3>2. doing' \in [Procs -> {Idle} \union {Read(x) : x \in Pipe} \union {Wait(c) : c \in Procs}]
      BY ZenonT(40), <1>u, <1>12 DEF ReadTurn, TypeOK
    <3>3. cur' \in 0..NProc
      <4>1. Yield(state) \/ cur' = cur
        BY <1>12 DEF ReadTurn
      <4>2. Yield(state) => cur' \in 0..NProc
        BY Sizes DEF Yield, Procs
      <4>3. QED
        BY <1>u, <4>1, <4>2 DEF TypeOK
    <3>4. CASE UNCHANGED <<cur, procs, tables>>
      BY SMTT(30), Z3T(30), <1>9, <2>3, <3>2, <3>4
    <3>5. CASE UNCHANGED <<pipes, out, doing>>
      BY ZenonT(40), <1>u, <1>2, <1>12, <3>3, <3>5 DEF ReadTurn, TypeOK, procs, tables, PipeTable
    <3>6. QED
      BY <3>1, <3>4, <3>5
  <2>4. CASE ~Take(p, n)
    <3>1. UNCHANGED <<pipes, out, doing>> /\ Yield(state)
      BY <1>12, <2>2, <2>4 DEF ReadTurn
    <3>2. cur' \in 0..NProc
      BY <3>1, Sizes DEF Yield, Procs
    <3>3. QED
      BY ZenonT(40), <1>u, <1>2, <1>12, <3>1, <3>2 DEF ReadTurn, TypeOK, procs, tables, PipeTable
  <2>5. QED
    BY <2>3, <2>4
<1>13. ASSUME NEW q \in Procs, proc_fork(q) \/ proc_clone_thread(q) PROVE TypeOK'
  <2>1. PICK c \in Procs : c = Min(Empty)
    BY <1>13, SlotFound DEF proc_fork, proc_clone_thread
  <2>2. Table(q) \in [Fds -> Entries] /\ q \in 0..NProc /\ tab[q] \in Procs
    <3>1. Table(q) \in [Fds -> Entries]
      BY <1>u, TableType
    <3>2. tab[q] \in Procs
      BY <1>u DEF TypeOK
    <3>3. q \in 0..NProc
      BY DEF Procs
    <3>4. QED
      BY <3>1, <3>2, <3>3
  <2>3. CASE proc_fork(q)
    BY ZenonT(40), <1>u, <1>2, <2>1, <2>2, <2>3 DEF proc_fork, TypeOK, PipeTable
  <2>4. CASE proc_clone_thread(q)
    BY ZenonT(40), <1>u, <1>2, <2>1, <2>2, <2>4 DEF proc_clone_thread, TypeOK, PipeTable
  <2>5. QED
    BY <1>13, <2>3, <2>4
<1>14. ASSUME NEW q \in Procs, sys_execve(q) PROVE TypeOK'
  BY <1>u, <1>2, <1>14, DescriptorCalls, TableStepType
<1>15. ASSUME NEW q \in Procs, sys_exit(q) PROVE TypeOK'
  <2>1. fds' \in [Procs -> [Fds -> Entries]]
    <3>1. HighClosed(Table(q)) \in [Fds -> Entries]
      BY <1>u, DescriptorCalls
    <3>2. fds' = fds \/ fds' = [fds EXCEPT ![tab[q]] = HighClosed(Table(q))]
      BY <1>15 DEF sys_exit, Set
    <3>3. QED
      BY ZenonT(30), <1>u, <3>1, <3>2 DEF TypeOK
  <2>2. state' \in [Procs -> {"FREE", "LIVE", "ZOMBIE", "GONE"}]
    BY ZenonT(40), <1>u, <1>15 DEF sys_exit, TypeOK
  <2>3. cur' \in 0..NProc
    BY <1>15, Sizes DEF sys_exit, Yield, Procs
  <2>4. QED
    BY ZenonT(40), <1>u, <1>2, <1>15, <2>1, <2>2, <2>3 DEF sys_exit, TypeOK, PipeTable
<1>16. ASSUME NEW q \in Procs, NEW c \in Procs, proc_waitpid(q, c) PROVE TypeOK'
  <2>1. state' \in [Procs -> {"FREE", "LIVE", "ZOMBIE", "GONE"}]
    BY ZenonT(40), <1>u, <1>16 DEF proc_waitpid, TypeOK
  <2>2. doing' \in [Procs -> {Idle} \union {Read(x) : x \in Pipe} \union {Wait(d) : d \in Procs}]
    <3>1. doing' = [doing EXCEPT ![q] = Idle] \/ doing' = [doing EXCEPT ![q] = Wait(c)]
      BY <1>16 DEF proc_waitpid
    <3>2. QED
      BY ZenonT(40), <1>u, <3>1 DEF TypeOK
  <2>3. cur' \in 0..NProc
    BY SMTT(30), Z3T(30), <1>u, <1>16, Sizes DEF proc_waitpid, Yield, Procs, TypeOK
  <2>4. QED
    BY ZenonT(40), <1>u, <1>2, <1>16, <2>1, <2>2, <2>3 DEF proc_waitpid, TypeOK, PipeTable, tables
<1>17. ASSUME Shell PROVE TypeOK'
  <2>1. cur' \in 0..NProc
    BY <1>17, Sizes DEF Shell, Yield, Procs
  <2>2. QED
    BY ZenonT(40), <1>u, <1>2, <1>17, <2>1 DEF Shell, TypeOK, PipeTable, tables, procs
<1>18. ASSUME UNCHANGED vars PROVE TypeOK'
  BY ZenonT(40), <1>u, <1>2, <1>18 DEF vars, TypeOK, PipeTable
<1>19. ASSUME NEW q \in Procs, NEW fd \in Fds, NEW newfd \in Fds,
              dup2(q, fd, newfd) \/ \E nb \in Flags : dup3(q, fd, newfd, nb)
       PROVE  TypeOK'
  <2>1. Table(q)[fd].nonblock \in BOOLEAN
    BY ZenonT(40), <1>u, TableType, EntryFacts
  <2>2. QED
    BY <1>3, <1>6, <1>19, <2>1 DEF dup2, dup3
<1>20. QED
  BY ZenonT(40), <1>1, <1>4, <1>5, <1>7, <1>8, <1>10, <1>11, <1>12, <1>13, <1>14, <1>15, <1>16, <1>17,
     <1>18, <1>19 DEF Next

-----------------------------------------------------------------------------
(* The tables.  A step is a call on the caller's own table, a step that     *)
(* touches neither tables nor marks of use, or one of the four that change  *)
(* the processes.                                                           *)

Quiet ==
    /\ UNCHANGED <<procs, tables>>
    /\ cur' = cur \/ Yield(state)
    /\ \A p \in Pipe : pipes'[p].used = pipes[p].used

\* Reads, writes and the shell's turns are quiet.
LEMMA QuietSteps ==
  ASSUME TypeOK
  PROVE  /\ \A q \in Procs, fd \in Fds, bs \in Data : do_write_fd(q, fd, bs) => Quiet
         /\ \A q \in Procs, fd \in Fds, n \in 1..MaxWrite : ReadNow(q, fd, n) \/ readv(q, fd, n) => Quiet
         /\ \A q \in Procs, fd \in Fds : ReadWaits(q, fd) => Quiet
         /\ \A q \in Procs, n \in 1..MaxWrite : ReadTurn(q, n) => Quiet
         /\ Shell \/ UNCHANGED vars => Quiet
<1>1. ASSUME NEW q \in Procs, NEW fd \in Fds, NEW bs \in Data, do_write_fd(q, fd, bs) PROVE Quiet
  <2>1. \A x \in Pipe : pipes'[x].used = pipes[x].used
    BY <1>1, WriteType, Zenon DEF Written
  <2>2. QED
    BY ZenonT(40), <1>1, <2>1 DEF Quiet, do_write_fd
<1>2. ASSUME NEW p \in Pipe, NEW n \in 1..MaxWrite, Take(p, n), UNCHANGED <<cur, procs, tables>>
      PROVE  Quiet
  BY ZenonT(40), <1>2, TakeType DEF Quiet
<1>3. ASSUME NEW q \in Procs, NEW fd \in Fds, NEW n \in 1..MaxWrite, ReadNow(q, fd, n) \/ readv(q, fd, n)
      PROVE  Quiet
  <2>1. PICK p \in Pipe : Take(p, n)
    BY ZenonT(40), <1>3, TableType, EntryFacts DEF ReadNow, readv
  <2>2. QED
    BY <1>2, <1>3, <2>1 DEF ReadNow, readv
<1>4. ASSUME NEW q \in Procs, NEW fd \in Fds, ReadWaits(q, fd) PROVE Quiet
  BY <1>4 DEF ReadWaits, Quiet
<1>5. ASSUME NEW q \in Procs, NEW n \in 1..MaxWrite, ReadTurn(q, n) PROVE Quiet
  <2>1. CASE UNCHANGED <<pipes, out, doing>>
    BY <1>5, <2>1 DEF ReadTurn, Quiet
  <2>2. CASE ~UNCHANGED <<pipes, out, doing>>
    <3>1. Take(doing[q].on, n) /\ UNCHANGED <<cur, procs, tables>> /\ doing[q].op = "read"
      BY <1>5, <2>2 DEF ReadTurn
    <3>2. doing[q].on \in Pipe
      BY <3>1, ReadsAPipe
    <3>3. QED
      BY <1>2, <3>1, <3>2
  <2>3. QED
    BY <2>1, <2>2
<1>6. Shell => Quiet
  BY DEF Shell, Quiet
<1>7. UNCHANGED vars => Quiet
  BY DEF vars, Quiet, procs, tables
<1>8. QED
  BY SMTT(30), Z3T(30), <1>1, <1>3, <1>4, <1>5, <1>6, <1>7

\* A step changes one table, or none, or is one of the calls that make or end a
\* process.
LEMMA Kinds ==
  ASSUME TypeOK, [Next]_vars
  PROVE  \/ \E q \in Procs : Calls(q) /\ TableStep(q)
         \/ Quiet
         \/ \E q \in Procs : \/ proc_fork(q) \/ proc_clone_thread(q) \/ sys_exit(q)
                             \/ \E c \in Procs : proc_waitpid(q, c)
<1>1. Flags \subseteq BOOLEAN
  BY PipeAssumption
<1>2. ASSUME NEW q \in Procs, NEW fd \in Fds,
             \/ \E nb \in Flags : pipe(q, nb) \/ fcntl_setfl(q, fd, nb)
             \/ dup(q, fd) \/ close_fd(q, fd) \/ sys_execve(q)
             \/ \E newfd \in Fds : dup2(q, fd, newfd) \/ \E nb \in Flags : dup3(q, fd, newfd, nb)
      PROVE  Calls(q) /\ TableStep(q)
  <2>1. Table(q)[fd].nonblock \in BOOLEAN
    BY ZenonT(40), TableType, EntryFacts
  <2>2. TableStep(q)
    BY <1>1, <1>2, <2>1, DescriptorCalls DEF dup2, dup3
  <2>3. Calls(q)
    BY ZenonT(40), <1>2 DEF pipe, fcntl_setfl, dup, close_fd, sys_execve, dup2, dup3, DupOnto
  <2>4. QED
    BY <2>2, <2>3
<1>3. 0 \in Fds
  BY Sizes DEF Fds
<1>4. QED
  BY <1>2, <1>3, QuietSteps DEF Next

\* The inductive invariant behind TablesApart: the processor runs a live
\* process, and whoever is not a thread has the table of its own slot.
Own ==
    /\ cur # 0 => cur \in Procs /\ state[cur] = "LIVE"
    /\ \A q \in Procs : ~thread[q] => tab[q] = q

\* fork gives the child a table of its own and clone shares the caller's; every
\* other call leaves the tables where they are.
LEMMA OwnStep == TypeOK /\ Own /\ [Next]_vars => Own'
<1>1. SUFFICES ASSUME TypeOK, Own, [Next]_vars PROVE Own'
  OBVIOUS
<1>2. Yield(state) => (cur' # 0 => cur' \in Procs /\ state[cur'] = "LIVE")
  BY DEF Yield
<1>3. CASE \E q \in Procs : Calls(q) /\ TableStep(q)
  BY <1>1, <1>3 DEF TableStep, procs, Own
<1>4. CASE Quiet
  BY <1>1, <1>2, <1>4 DEF Quiet, procs, tables, Own
<1>5. ASSUME NEW q \in Procs, proc_fork(q) \/ proc_clone_thread(q) PROVE Own'
  <2>1. PICK c \in Procs : c = Min(Empty)
    BY <1>5, SlotFound DEF proc_fork, proc_clone_thread
  <2>2. /\ state' = [state EXCEPT ![c] = "LIVE"] /\ cur' = cur
        /\ \/ thread' = [thread EXCEPT ![c] = FALSE] /\ tab' = [tab EXCEPT ![c] = c]
           \/ thread' = [thread EXCEPT ![c] = TRUE] /\ tab' = [tab EXCEPT ![c] = tab[q]]
    BY <1>5, <2>1 DEF proc_fork, proc_clone_thread
  <2>3. /\ cur' # 0 => cur' \in Procs /\ state'[cur'] = "LIVE"
    BY <1>1, <2>2 DEF Own, TypeOK
  <2>4. ASSUME NEW x \in Procs, ~thread'[x] PROVE tab'[x] = x
    <3>1. x = c => tab'[x] = x
      <4>1. CASE thread' = [thread EXCEPT ![c] = FALSE] /\ tab' = [tab EXCEPT ![c] = c]
        BY <1>1, <4>1 DEF TypeOK
      <4>2. CASE thread' = [thread EXCEPT ![c] = TRUE] /\ tab' = [tab EXCEPT ![c] = tab[q]]
        BY ZenonT(40), <1>1, <2>4, <4>2 DEF TypeOK
      <4>3. QED
        BY <2>2, <4>1, <4>2
    <3>2. x # c => thread'[x] = thread[x] /\ tab'[x] = tab[x]
      BY <1>1, <2>2 DEF TypeOK
    <3>3. QED
      BY <1>1, <2>4, <3>1, <3>2 DEF Own
  <2>5. QED
    BY <2>3, <2>4 DEF Own
<1>6. ASSUME NEW q \in Procs, sys_exit(q) PROVE Own'
  BY <1>1, <1>6 DEF sys_exit, Yield, Own
<1>7. ASSUME NEW q \in Procs, NEW c \in Procs, proc_waitpid(q, c) PROVE Own'
  <2>1. thread' = thread /\ tab' = tab
    BY <1>7 DEF proc_waitpid, tables
  <2>2. CASE state[c] = "ZOMBIE"
    <3>1. cur = q /\ cur' = cur /\ state' = [state EXCEPT ![c] = "GONE"] /\ q # c
      BY <1>1, <1>7, <2>2, Sizes DEF proc_waitpid, Own, Procs
    <3>2. QED
      BY ZenonT(40), <1>1, <2>1, <3>1 DEF Own, TypeOK
  <2>3. CASE state[c] # "ZOMBIE"
    BY <1>1, <1>2, <1>7, <2>1, <2>3 DEF proc_waitpid, Own
  <2>4. QED
    BY <2>2, <2>3
<1>8. QED
  BY ZenonT(40), <1>1, <1>3, <1>4, <1>5, <1>6, <1>7, Kinds

\* The types hold whatever programs do; among them, that no pipe ever holds more
\* than its buffer though its two counters wrap (the `< 4096` of do_write_fd).
THEOREM TypesAlways == Spec => []TypeOK
<1>1. QED
  BY TypeInit, TypeStep, PTL DEF Spec

\* After any mixture of fork, clone, exec, exit and wait4 two processes share a
\* descriptor table only if one is a thread (fds_dup_into_slot, proc_clone_thread).
THEOREM TablesApartAlways == Spec => []TablesApart
<1>1. Init => Own
  BY DEF Init, Own
<1>2. TypeOK /\ Own => TablesApart
  BY ZenonT(40) DEF Own, TablesApart, TypeOK
<1>3. QED
  BY <1>1, <1>2, TypeInit, TypeStep, OwnStep, PTL DEF Spec

-----------------------------------------------------------------------------
(* No descriptor is of a pipe that is not in use.  A dup2 onto an open end  *)
(* frees the pipe under whoever else has it, and is left out.               *)

Ends == \A q \in Procs, fd \in Fds : fds[q][fd].kind = "pipe" => pipes[fds[q][fd].p].used

\* The entries of the new table that are pipe ends are ends of the pipes the
\* caller had, or of a pipe just made.
LEMMA TableEnds ==
  ASSUME TypeOK, Ends, NEW q \in Procs, NEW t \in [Fds -> Entries],
         fds' = [fds EXCEPT ![tab[q]] = t],
         \A p \in Pipe : pipes[p].used => pipes'[p].used,
         \A fd \in Fds : t[fd].kind = "pipe" =>
            \/ pipes'[t[fd].p].used
            \/ \E old \in Fds : Table(q)[old].kind = "pipe" /\ Table(q)[old].p = t[fd].p
  PROVE  Ends'
<1>1. SUFFICES ASSUME NEW r \in Procs, NEW fd \in Fds, fds'[r][fd].kind = "pipe"
               PROVE  pipes'[fds'[r][fd].p].used
  BY ZenonT(40) DEF Ends
<1>2. \A x \in Procs, y \in Fds : fds[x][y] \in Entries /\ tab[q] \in Procs
  BY ZenonT(40) DEF TypeOK
<1>3. CASE r = tab[q]
  <2>1. fds'[r] = t
    BY ZenonT(40), <1>2, <1>3 DEF TypeOK
  <2>2. CASE pipes'[t[fd].p].used
    BY <2>1, <2>2
  <2>3. CASE \E old \in Fds : Table(q)[old].kind = "pipe" /\ Table(q)[old].p = t[fd].p
    <3>1. PICK old \in Fds : Table(q)[old].kind = "pipe" /\ Table(q)[old].p = t[fd].p
      BY <2>3
    <3>2. pipes[t[fd].p].used
      BY <1>2, <3>1 DEF Ends, Table
    <3>3. t[fd].p \in Pipe
      BY ZenonT(40), <1>1, <2>1, EntryFacts
    <3>4. QED
      BY <2>1, <3>2, <3>3
  <2>4. QED
    BY ZenonT(40), <1>1, <2>1, <2>2, <2>3
<1>4. CASE r # tab[q]
  <2>1. fds'[r] = fds[r]
    BY <1>4 DEF TypeOK
  <2>2. fds[r][fd].p \in Pipe /\ pipes[fds[r][fd].p].used
    BY ZenonT(40), <1>1, <1>2, <2>1, EntryFacts DEF Ends
  <2>3. QED
    BY ZenonT(40), <2>1, <2>2
<1>5. QED
  BY ZenonT(40), <1>3, <1>4

\* close_fd, dup2, exec and exit free a pipe only when no running process has an
\* end of it left.
LEMMA EndsStep ==
  ASSUME "onto" \notin Workload
  PROVE  TypeOK /\ Ends /\ [Next]_vars => Ends'
<1>1. SUFFICES ASSUME TypeOK, Ends, [Next]_vars PROVE Ends'
  OBVIOUS
<1>2. Flags \subseteq BOOLEAN
  BY ZenonT(40), PipeAssumption
<1>3. CASE Quiet
  <2>1. fds' = fds /\ \A p \in Pipe : pipes'[p].used = pipes[p].used
    BY <1>3 DEF Quiet, tables
  <2>2. \A q \in Procs, fd \in Fds : fds[q][fd] \in Entries
    BY <1>1 DEF TypeOK
  <2>3. \A q \in Procs, fd \in Fds : fds[q][fd].kind = "pipe" => fds[q][fd].p \in Pipe
    BY ZenonT(40), <2>2, EntryFacts
  <2>4. QED
    BY ZenonT(40), <1>1, <2>1, <2>3 DEF Ends
<1>4. ASSUME NEW q \in Procs, NEW nb \in Flags, pipe(q, nb) PROVE Ends'
  <2>1. nb \in BOOLEAN
    BY <1>2
  <2>2. PICK pi \in Pipe, rfd \in Fds, wfd \in Fds :
           /\ ~pipes[pi].used
           /\ fds' = [fds EXCEPT ![tab[q]] = [Table(q) EXCEPT ![rfd] = PipeEnd(pi, FALSE, nb),
                                                             ![wfd] = PipeEnd(pi, TRUE, nb)]]
           /\ pipes' = [pipes EXCEPT ![pi] = [used |-> TRUE, rpos |-> 0, wpos |-> 0, buf |-> Fresh]]
    BY ZenonT(40), <1>1, <1>4, <2>1, PipeMakes
  <2>3. pipes'[pi].used /\ \A p \in Pipe : pipes[p].used => pipes'[p].used
    BY <1>1, <2>2 DEF TypeOK
  <2> DEFINE t == [Table(q) EXCEPT ![rfd] = PipeEnd(pi, FALSE, nb), ![wfd] = PipeEnd(pi, TRUE, nb)]
  <2>4. t \in [Fds -> Entries]
    <3>1. PipeEnd(pi, FALSE, nb) \in Entries /\ PipeEnd(pi, TRUE, nb) \in Entries
      BY ZenonT(40), <2>1, EntryFacts
    <3>2. QED
      BY ZenonT(40), <1>1, <3>1, TableType
  <2>5. ASSUME NEW fd \in Fds, t[fd].kind = "pipe"
        PROVE  \/ pipes'[t[fd].p].used
               \/ \E old \in Fds : Table(q)[old].kind = "pipe" /\ Table(q)[old].p = t[fd].p
    <3>1. t[fd] = IF fd = wfd THEN PipeEnd(pi, TRUE, nb)
                  ELSE IF fd = rfd THEN PipeEnd(pi, FALSE, nb) ELSE Table(q)[fd]
      BY ZenonT(40), <1>1, TableType
    <3> HIDE DEF t
    <3>2. CASE fd \in {rfd, wfd}
      <4>1. t[fd].p = pi
        BY <3>1, <3>2 DEF PipeEnd
      <4>2. QED
        BY <2>3, <4>1
    <3>3. CASE fd \notin {rfd, wfd}
      BY ZenonT(40), <2>5, <3>1, <3>3
    <3>4. QED
      BY <3>2, <3>3
  <2> HIDE DEF t
  <2>6. fds' = [fds EXCEPT ![tab[q]] = t]
    BY <2>2 DEF t
  <2>7. QED
    BY ZenonT(40), <1>1, <2>3, <2>4, <2>5, <2>6, TableEnds
<1>5. ASSUME NEW q \in Procs, NEW t \in [Fds -> Entries], fds' = [fds EXCEPT ![tab[q]] = t], UNCHANGED pipes,
             \A fd \in Fds : t[fd].kind = "pipe" =>
               \E old \in Fds : Table(q)[old].kind = "pipe" /\ Table(q)[old].p = t[fd].p
      PROVE  Ends'
  BY ZenonT(40), <1>1, <1>5, TableEnds
<1>6. ASSUME NEW q \in Procs PROVE Table(q) \in [Fds -> Entries]
  BY <1>1, TableType
<1>7. ASSUME NEW q \in Procs, NEW fd \in Fds, dup(q, fd) PROVE Ends'
  <2> DEFINE t == [Table(q) EXCEPT ![alloc_fd(Table(q))] = Table(q)[fd]]
  <2>1. t \in [Fds -> Entries] /\ \A x \in Fds : t[x] = Table(q)[x] \/ t[x] = Table(q)[fd]
    BY ZenonT(40), <1>6
  <2>2. fds' = [fds EXCEPT ![tab[q]] = t] /\ UNCHANGED pipes
    BY <1>7 DEF dup, Set
  <2> HIDE DEF t
  <2>3. QED
    BY ZenonT(40), <1>5, <2>1, <2>2
<1>8. ASSUME NEW q \in Procs, NEW fd \in Fds, close_fd(q, fd) PROVE Ends'
  <2> DEFINE t == [Table(q) EXCEPT ![fd] = Closed]
  <2>1. t \in [Fds -> Entries] /\ \A x \in Fds : t[x] = Table(q)[x] \/ t[x] = Closed
    BY <1>6, EntryFacts
  <2>2. fds' = [fds EXCEPT ![tab[q]] = t] /\ UNCHANGED pipes
    BY <1>8 DEF close_fd, Set
  <2> HIDE DEF t
  <2>3. \A x \in Fds : t[x].kind = "pipe" => t[x] = Table(q)[x]
    BY <2>1 DEF Closed
  <2>4. QED
    BY ZenonT(40), <1>5, <2>1, <2>2, <2>3
<1>9. ASSUME NEW q \in Procs, NEW fd \in Fds, NEW newfd \in Fds, NEW nb \in BOOLEAN,
             DupOnto(q, fd, newfd, nb)
      PROVE  Ends'
  <2> DEFINE t0 == Table(q)
             over == newfd >= Std /\ t0[newfd].kind # "closed"
             t1 == IF over THEN [t0 EXCEPT ![newfd] = Closed] ELSE t0
             entry == t1[fd]
             e == IF entry.kind = "pipe" THEN [entry EXCEPT !.nonblock = nb] ELSE entry
             t == [t1 EXCEPT ![newfd] = e]
  <2>1. t1 \in [Fds -> Entries] /\ \A x \in Fds : t1[x] = t0[x] \/ t1[x] = Closed
    BY <1>6, EntryFacts
  <2>2. fds' = [fds EXCEPT ![tab[q]] = t] /\ UNCHANGED pipes
    BY <1>9 DEF DupOnto, Set
  <2> HIDE DEF t1
  <2>3. e \in Entries /\ (e.kind = "pipe" => entry.kind = "pipe" /\ e.p = entry.p)
    <3>1. entry \in Entries
      BY <2>1
    <3>2. [entry EXCEPT !.nonblock = nb].p = entry.p
      BY <3>1 DEF Entries
    <3>3. QED
      BY <3>1, <3>2, EntryFacts
  <2> HIDE DEF e
  <2>4. t \in [Fds -> Entries] /\ \A x \in Fds : t[x] = IF x = newfd THEN e ELSE t1[x]
    BY <2>1, <2>3
  <2> HIDE DEF t
  <2>5. ASSUME NEW x \in Fds, t[x].kind = "pipe"
        PROVE  \E old \in Fds : t0[old].kind = "pipe" /\ t0[old].p = t[x].p
    <3>1. CASE x = newfd
      <4>1. entry.kind = "pipe" /\ t[x].p = entry.p
        BY ZenonT(40), <2>3, <2>4, <2>5, <3>1
      <4>2. entry = t0[fd]
        BY <2>1, <4>1 DEF Closed
      <4>3. QED
        BY <4>1, <4>2
    <3>2. CASE x # newfd
      <4>1. t[x] = t0[x]
        BY SMTT(30), Z3T(30), <2>1, <2>4, <2>5, <3>2 DEF Closed
      <4>2. QED
        BY <2>5, <4>1
    <3>3. QED
      BY <3>1, <3>2
  <2>6. QED
    BY ZenonT(40), <1>5, <2>2, <2>4, <2>5
<1>10. ASSUME NEW q \in Procs, NEW fd \in Fds, NEW nb \in BOOLEAN, fcntl_setfl(q, fd, nb) PROVE Ends'
  <2> DEFINE e == [Table(q)[fd] EXCEPT !.nonblock = nb]
             t == [Table(q) EXCEPT ![fd] = e]
  <2>1. e \in Entries /\ e.kind = Table(q)[fd].kind /\ e.p = Table(q)[fd].p
    BY <1>6, <1>10, EntryFacts DEF fcntl_setfl, Entries
  <2>2. fds' = [fds EXCEPT ![tab[q]] = t] /\ UNCHANGED pipes
    BY <1>10 DEF fcntl_setfl, Set
  <2> HIDE DEF e
  <2>3. t \in [Fds -> Entries] /\ \A x \in Fds : t[x] = IF x = fd THEN e ELSE Table(q)[x]
    BY <1>6, <2>1
  <2> HIDE DEF t
  <2>4. QED
    BY ZenonT(40), <1>5, <2>1, <2>2, <2>3
<1>11. ASSUME NEW q \in Procs PROVE \A x \in Fds : HighClosed(Table(q))[x].kind = "pipe"
                                                 => HighClosed(Table(q))[x] = Table(q)[x]
  BY DEF HighClosed, Closed
<1>12. ASSUME NEW q \in Procs, fds' = [fds EXCEPT ![tab[q]] = HighClosed(Table(q))], UNCHANGED pipes PROVE Ends'
  <2>1. HighClosed(Table(q)) \in [Fds -> Entries]
    BY <1>1, DescriptorCalls
  <2>2. QED
    BY ZenonT(40), <1>5, <1>11, <1>12, <2>1
<1>13. ASSUME UNCHANGED <<fds, pipes>> PROVE Ends'
  BY ZenonT(40), <1>1, <1>13 DEF Ends
<1>14. ASSUME NEW q \in Procs, proc_fork(q) PROVE Ends'
  <2>1. PICK c \in Procs : c = Min(Empty)
    BY <1>14, SlotFound DEF proc_fork
  <2>2. fds' = [fds EXCEPT ![c] = fds[tab[q]]] /\ pipes' = pipes
    BY <1>14, <2>1 DEF proc_fork, Table
  <2>3. tab[q] \in Procs
    BY ZenonT(40), <1>1 DEF TypeOK
  <2>4. QED
    BY ZenonT(40), <1>1, <2>2, <2>3 DEF Ends, TypeOK
<1>15. ASSUME NEW q \in Procs, sys_execve(q) \/ sys_exit(q) PROVE Ends'
  BY SMTT(30), Z3T(30), <1>12, <1>13, <1>15 DEF sys_execve, sys_exit, Set
<1>16. ASSUME NEW q \in Procs, proc_clone_thread(q) \/ \E c \in Procs : proc_waitpid(q, c) PROVE Ends'
  BY <1>13, <1>16 DEF proc_clone_thread, proc_waitpid, tables
<1>17. ASSUME NEW q \in Procs, NEW fd \in Fds, NEW newfd \in Fds,
              dup2(q, fd, newfd) \/ \E nb \in Flags : dup3(q, fd, newfd, nb)
       PROVE  Ends'
  <2>1. Table(q)[fd].nonblock \in BOOLEAN
    BY ZenonT(40), <1>6, EntryFacts
  <2>2. QED
    BY <1>2, <1>9, <1>17, <2>1 DEF dup2, dup3
<1>18. QED
  BY ZenonT(40), <1>1, <1>2, <1>3, <1>4, <1>7, <1>8, <1>10, <1>14, <1>15, <1>16, <1>17, QuietSteps DEF Next

\* As long as no dup2 is onto an open pipe end, a pipe lives as long as some
\* running process has an end of it: closing one end, exec and exit never take it
\* from the others (close_fd's comment), and pipe() never gives it out again.
THEOREM PipeOutlivesItsEndsAlways ==
  ASSUME "onto" \notin Workload
  PROVE  Spec => []PipeOutlivesItsEnds
<1>1. Init => Ends
  BY DEF Init, Ends, Console, Closed, Tty
<1>2. TypeOK /\ Ends => PipeOutlivesItsEnds
  BY DEF Ends, PipeOutlivesItsEnds, Holds, Table, TypeOK
<1>3. QED
  BY <1>1, <1>2, TypeInit, TypeStep, EndsStep, PTL DEF Spec

-----------------------------------------------------------------------------
(* What pipe_writers_alive sees.  It looks at the tables of zombies too, so  *)
(* the table of a zombie must have no pipe left in it, now and later.        *)

\* The table of a zombie has no pipe end, and nobody is left to open one in it.
\* An exit with a redirected stream and an exit before the threads that use the
\* table are left out: each leaves a write end that nobody will close.
Dead ==
    \A z \in Procs : state[z] = "ZOMBIE" =>
        /\ ~thread[z]
        /\ \A fd \in Fds : fds[z][fd].kind # "pipe"
        /\ \A r \in Procs : state[r] = "LIVE" => tab[r] # z

\* A process that has ended keeps no end of a pipe: process_exit_current closes
\* what it has, and nobody opens anything in its table afterwards.
LEMMA DeadStep ==
  ASSUME Workload \cap {"redirected", "outlived"} = {}
  PROVE  TypeOK /\ Own /\ Dead /\ [Next]_vars => Dead'
<1>1. SUFFICES ASSUME TypeOK, Own, Dead, [Next]_vars PROVE Dead'
  OBVIOUS
<1>2. CASE \E q \in Procs : Calls(q) /\ TableStep(q)
  <2>1. PICK q \in Procs : Calls(q) /\ TableStep(q)
    BY <1>2
  <2>2. state[q] = "LIVE"
    BY <1>1, <2>1, Sizes DEF Calls, Own, Procs
  <2>3. PICK t \in [Fds -> Entries] : fds' = [fds EXCEPT ![tab[q]] = t]
    BY ZenonT(40), <2>1 DEF TableStep
  <2>4. \A z \in Procs : state[z] = "ZOMBIE" => fds'[z] = fds[z]
    BY <1>1, <2>2, <2>3 DEF Dead, TypeOK
  <2>5. state' = state /\ thread' = thread /\ tab' = tab
    BY <2>1 DEF TableStep, procs
  <2>6. QED
    BY <1>1, <2>4, <2>5 DEF Dead
<1>3. CASE Quiet
  BY <1>1, <1>3 DEF Quiet, procs, tables, Dead
<1>4. ASSUME NEW q \in Procs, proc_fork(q) \/ proc_clone_thread(q) PROVE Dead'
  <2>1. PICK c \in Procs : c = Min(Empty) /\ state[c] = "FREE"
    BY <1>4, SlotFound DEF proc_fork, proc_clone_thread
  <2>2. state[q] = "LIVE"
    BY SMTT(30), Z3T(30), <1>1, <1>4, Sizes DEF proc_fork, proc_clone_thread, Calls, Own, Procs
  <2>3. state' = [state EXCEPT ![c] = "LIVE"]
    BY <1>4, <2>1 DEF proc_fork, proc_clone_thread
  <2>4. tab' = [tab EXCEPT ![c] = c] \/ tab' = [tab EXCEPT ![c] = tab[q]]
    BY ZenonT(40), <1>4, <2>1 DEF proc_fork, proc_clone_thread
  <2>5. \A z \in Procs : z # c => thread'[z] = thread[z] /\ fds'[z] = fds[z] /\ state'[z] = state[z]
    BY ZenonT(40), <1>1, <1>4, <2>1 DEF proc_fork, proc_clone_thread, TypeOK
  <2>6. ASSUME NEW z \in Procs, state'[z] = "ZOMBIE", NEW r \in Procs, state'[r] = "LIVE"
        PROVE  tab'[r] # z
    <3>1. z # c /\ state[z] = "ZOMBIE"
      BY ZenonT(40), <1>1, <2>3, <2>6 DEF TypeOK
    <3>2. CASE r = c
      BY ZenonT(40), <1>1, <2>2, <2>4, <3>1, <3>2 DEF Dead, TypeOK
    <3>3. CASE r # c
      <4>1. tab'[r] = tab[r] /\ state[r] = "LIVE"
        BY ZenonT(40), <1>1, <2>3, <2>4, <2>6, <3>3 DEF TypeOK
      <4>2. QED
        BY ZenonT(40), <1>1, <3>1, <4>1 DEF Dead
    <3>4. QED
      BY <3>2, <3>3
  <2>7. ASSUME NEW z \in Procs, state'[z] = "ZOMBIE" PROVE z # c
    BY ZenonT(40), <1>1, <2>3, <2>7 DEF TypeOK
  <2>8. QED
    BY SMTT(30), Z3T(30), <1>1, <2>5, <2>6, <2>7 DEF Dead
<1>5. ASSUME NEW q \in Procs, sys_exit(q) PROVE Dead'
  <2>1. state[q] = "LIVE" /\ ~Redirected(q) /\ ~Outlived(q) /\ thread' = thread /\ tab' = tab
    BY SMTT(30), Z3T(30), <1>1, <1>5, Sizes DEF sys_exit, Calls, Own, Procs
  <2>2. CASE thread[q]
    <3>1. state' = [state EXCEPT ![q] = "GONE"] /\ fds' = fds
      BY <1>5, <2>2 DEF sys_exit
    <3>2. QED
      BY ZenonT(40), <1>1, <2>1, <3>1 DEF Dead, TypeOK
  <2>3. CASE ~thread[q]
    <3>1. state' = [state EXCEPT ![q] = "ZOMBIE"] /\ fds' = [fds EXCEPT ![q] = HighClosed(fds[q])]
      BY ZenonT(40), <1>1, <1>5, <2>3 DEF sys_exit, Set, Own, Table
    <3>2. \A r \in Procs : state'[r] = "LIVE" => tab[r] # q
      BY ZenonT(40), <1>1, <2>1, <2>3, <3>1 DEF Outlived, Own, TypeOK
    <3>3. \A fd \in Fds : fds'[q][fd].kind # "pipe"
      <4>1. fds'[q] = HighClosed(fds[q])
        BY ZenonT(40), <1>1, <3>1 DEF TypeOK
      <4>2. \A fd \in Fds : fd < Std => fds[q][fd].kind # "pipe"
        BY SMTT(30), Z3T(30), <1>1, <2>1, <2>3, Sizes DEF Redirected, Table, Own, Fds
      <4>3. QED
        BY <4>1, <4>2 DEF HighClosed, Closed
    <3>4. ASSUME NEW z \in Procs, z # q, state'[z] = "ZOMBIE"
          PROVE  /\ ~thread'[z] /\ \A fd \in Fds : fds'[z][fd].kind # "pipe"
                 /\ \A r \in Procs : state'[r] = "LIVE" => tab'[r] # z
      <4>1. state[z] = "ZOMBIE" /\ fds'[z] = fds[z] /\ \A r \in Procs : state'[r] = "LIVE" => state[r] = "LIVE"
        BY ZenonT(40), <1>1, <3>1, <3>4 DEF TypeOK
      <4>2. QED
        BY ZenonT(40), <1>1, <2>1, <4>1 DEF Dead
    <3>5. QED
      BY ZenonT(40), <2>1, <2>3, <3>2, <3>3, <3>4 DEF Dead
  <2>4. QED
    BY SMTT(30), Z3T(30), <2>2, <2>3
<1>6. ASSUME NEW q \in Procs, NEW c \in Procs, proc_waitpid(q, c) PROVE Dead'
  <2>1. thread' = thread /\ tab' = tab /\ fds' = fds /\ (state' = state \/ state' = [state EXCEPT ![c] = "GONE"])
    BY <1>6 DEF proc_waitpid, tables
  <2>2. QED
    BY ZenonT(40), <1>1, <2>1 DEF Dead, TypeOK
<1>7. QED
  BY ZenonT(40), <1>1, <1>2, <1>3, <1>4, <1>5, <1>6, Kinds

\* As long as programs exit with their own standard streams and after their
\* threads, a reader left waiting waits for a process that can still write or
\* close: pipe_writers_alive, which counts zombies, is never kept true by the dead
\* (fds_close_exec's comment).
THEOREM ReaderWaitsForAWriterAlways ==
  ASSUME Workload \cap {"redirected", "outlived"} = {}
  PROVE  Spec => []ReaderWaitsForAWriter
<1>1. Init => Own /\ Dead
  BY DEF Init, Own, Dead
<1>2. TypeOK /\ Own /\ Dead => ReaderWaitsForAWriter
  <2>1. SUFFICES ASSUME TypeOK, Own, Dead, NEW p, pipe_writers_alive(p)
                 PROVE  \E r \in Procs : state[r] = "LIVE" /\ Holds(r, p, TRUE)
    BY ZenonT(40) DEF ReaderWaitsForAWriter
  <2>2. PICK q \in Procs, fd \in Fds : /\ state[q] \in {"LIVE", "ZOMBIE"} /\ fds[tab[q]][fd].kind = "pipe"
                                       /\ fds[tab[q]][fd].p = p /\ fds[tab[q]][fd].wend
    BY ZenonT(40), <2>1 DEF pipe_writers_alive
  <2>3. state[q] # "ZOMBIE"
    BY <2>1, <2>2 DEF Dead, Own
  <2>4. fds[tab[q]][fd].wend = TRUE
    <3>1. fds[tab[q]][fd] \in Entries
      BY SMTT(30), Z3T(30), <2>1 DEF TypeOK
    <3>2. QED
      BY <2>2, <3>1 DEF Entries
  <2>5. Holds(q, p, TRUE)
    BY <2>2, <2>4 DEF Holds, Table
  <2>6. QED
    BY ZenonT(40), <2>2, <2>3, <2>5
<1>3. QED
  BY <1>1, <1>2, TypeInit, TypeStep, OwnStep, DeadStep, PTL DEF Spec

-----------------------------------------------------------------------------
(* End of file. *)

\* Without readv, which does not wait, a read that returns no byte saw the pipe
\* empty and no write end left: not when the call began, but at the very turn of
\* the loop of SYS_read that returns.
THEOREM EofMeansNoWriterAlways ==
  ASSUME "readv" \notin Workload
  PROVE  Spec => EofMeansNoWriter
<1>1. TypeOK /\ [Next]_vars => [out' # out /\ out'.data = << >> => ~pipe_writers_alive(out'.p)]_vars
  <2>1. SUFFICES ASSUME TypeOK, Next, out' # out, out'.data = << >>
                 PROVE  ~pipe_writers_alive(out'.p)
    BY DEF vars
  <2>2. \E p \in Pipe, n \in 1..MaxWrite : Take(p, n) /\ (IsEmpty(p) => ~pipe_writers_alive(p))
    <3>1. ASSUME NEW q \in Procs, NEW fd \in Fds, NEW n \in 1..MaxWrite, ReadNow(q, fd, n)
          PROVE  \E p \in Pipe : Take(p, n) /\ (IsEmpty(p) => ~pipe_writers_alive(p))
      BY ZenonT(30), <2>1, <3>1, TableType, EntryFacts DEF ReadNow
    <3>2. ASSUME NEW q \in Procs, NEW n \in 1..MaxWrite, ReadTurn(q, n)
          PROVE  \E p \in Pipe : Take(p, n) /\ (IsEmpty(p) => ~pipe_writers_alive(p))
      BY ZenonT(40), <2>1, <3>2, ReadsAPipe DEF ReadTurn
    <3>3. \/ \E q \in Procs, fd \in Fds, n \in 1..MaxWrite : ReadNow(q, fd, n)
          \/ \E q \in Procs, n \in 1..MaxWrite : ReadTurn(q, n)
      <4>1. ASSUME NEW q \in Procs, NEW fd \in Fds
            PROVE  /\ \A nb \in Flags : ~pipe(q, nb) /\ ~fcntl_setfl(q, fd, nb)
                   /\ ~dup(q, fd) /\ ~close_fd(q, fd) /\ ~ReadWaits(q, fd)
                   /\ \A bs \in Data : ~do_write_fd(q, fd, bs)
                   /\ \A n \in 1..MaxWrite : ~readv(q, fd, n)
        BY ZenonT(40), <2>1 DEF pipe, fcntl_setfl, dup, close_fd, ReadWaits, do_write_fd, readv
      <4>2. \A q \in Procs, fd, newfd \in Fds : ~dup2(q, fd, newfd) /\ \A nb \in Flags : ~dup3(q, fd, newfd, nb)
        BY <2>1 DEF dup2, dup3, DupOnto
      <4>3. \A q \in Procs : ~proc_fork(q) /\ ~proc_clone_thread(q) /\ ~sys_execve(q) /\ ~sys_exit(q)
        BY ZenonT(40), <2>1 DEF proc_fork, proc_clone_thread, sys_execve, sys_exit
      <4>4. ~Shell /\ \A q, c \in Procs : ~proc_waitpid(q, c)
        BY <2>1 DEF Shell, proc_waitpid
      <4>5. 0 \in Fds
        BY Sizes DEF Fds
      <4>6. QED
        BY ZenonT(40), <2>1, <4>1, <4>2, <4>3, <4>4, <4>5 DEF Next
    <3>4. QED
      BY <3>1, <3>2, <3>3
  <2>3. PICK p \in Pipe, n \in 1..MaxWrite : Take(p, n) /\ (IsEmpty(p) => ~pipe_writers_alive(p))
    BY ZenonT(40), <2>2
  <2>4. PICK m \in 0..Fill(p) : m = Min({n, Fill(p)})
    BY ZenonT(40), <2>1, <2>3, TakeType
  <2>5. Fill(p) \in 0..Cap /\ n \in Nat /\ n >= 1 /\ (m = n \/ m = Fill(p))
    BY SMTT(30), Z3T(30), <2>1, <2>4, FillRange, MinOfTwo, Sizes
  <2>6. out'.p = p /\ DOMAIN out'.data = 1..m
    BY <2>3, <2>4 DEF Take
  <2>7. m = 0
    <3>1. 1 \notin DOMAIN out'.data
      BY <2>1
    <3>2. QED
      BY <2>5, <2>6, <3>1
  <2>8. IsEmpty(p)
    BY SMTT(30), Z3T(30), <2>1, <2>5, <2>7, FillRange
  <2>9. QED
    BY <2>3, <2>6, <2>8
<1>2. QED
  BY <1>1, TypeInit, TypeStep, PTL DEF Spec, EofMeansNoWriter

-----------------------------------------------------------------------------
(* The buffers are channels: every step of Pipes is a step of PipeChannels   *)
(* or leaves what the channels hold alone.                                   *)

\* n bytes of a ring, from position r on, are a sequence of bytes.
LEMMA RingSeq ==
  ASSUME NEW r \in Int, NEW n \in Nat, NEW b \in [0..(Cap - 1) -> Bytes],
         NEW c, c = [i \in 1..n |-> b[(r + i - 1) % Cap]]
  PROVE  /\ c \in Seq(Bytes) /\ Len(c) = n
         /\ \A i \in 1..n : c[i] = b[(r + i - 1) % Cap] /\ (r + i - 1) % Cap \in 0..(Cap - 1)
<1>1. \A i \in 1..n : (r + i - 1) % Cap \in 0..(Cap - 1)
  BY Sizes, DivMod
<1>2. c \in [1..n -> Bytes]
  BY ZenonT(40), <1>1
<1>3. c \in Seq(Bytes) /\ Len(c) = n
  BY SMTT(30), Z3T(30), <1>2, SeqDef
<1>4. QED
  BY <1>1, <1>3

\* What a pipe holds is a sequence of bytes, as long as its fill.
LEMMA ContentIs ==
  ASSUME TypeOK, NEW p \in Pipe
  PROVE  /\ Content(p) \in Seq(Bytes) /\ Len(Content(p)) = Fill(p)
         /\ \A i \in 1..Fill(p) : Content(p)[i] = pipes[p].buf[(pipes[p].rpos + i - 1) % Cap]
<1> DEFINE r == pipes[p].rpos
           b == pipes[p].buf
           n == Fill(p)
<1>1. r \in 0..(Wrap - 1) /\ b \in [0..(Cap - 1) -> Bytes]
  BY DEF TypeOK
<1>2. n \in Nat /\ r \in Int
  BY <1>1, FillRange, Sizes
<1>3. Content(p) = [i \in 1..n |-> b[(r + i - 1) % Cap]]
  BY DEF Content
<1> HIDE DEF r, b, n
<1>4. /\ Content(p) \in Seq(Bytes) /\ Len(Content(p)) = n
      /\ \A i \in 1..n : Content(p)[i] = b[(r + i - 1) % Cap] /\ (r + i - 1) % Cap \in 0..(Cap - 1)
  BY ZenonT(40), <1>1, <1>2, <1>3, RingSeq
<1>5. QED
  BY <1>4 DEF r, b, n

\* Only the positions, the fill and the bytes matter to what is in a pipe.
LEMMA ContentSame ==
  ASSUME NEW p \in Pipe, pipes'[p].rpos = pipes[p].rpos, pipes'[p].wpos = pipes[p].wpos,
         pipes'[p].buf = pipes[p].buf
  PROVE  Content(p)' = Content(p)
  BY DEF Content, Fill

\* wpos is rpos and the fill, but for whole turns of the buffer.
LEMMA WposIs ==
  ASSUME TypeOK, NEW p \in Pipe
  PROVE  \E k \in Int : pipes[p].rpos + Fill(p) = pipes[p].wpos + Cap * k
<1> DEFINE r == pipes[p].rpos
           w == pipes[p].wpos
           d == (w - r) \div Wrap
           c == Wrap \div Cap
<1>1. r \in Int /\ w \in Int
  BY SMTT(30), Z3T(30), Sizes DEF TypeOK
<1>2. Fill(p) = (w - r) % Wrap
  BY DEF Fill
<1> HIDE DEF r, w
<1>3. d \in Int /\ (w - r) % Wrap \in Int /\ w - r = Wrap * d + ((w - r) % Wrap)
  BY <1>1, Sizes, DivMod
<1>4. c \in Int /\ Wrap = Cap * c
  BY Sizes, DivMod
<1> HIDE DEF d, c
<1>5. Wrap * d = Cap * (c * d) /\ c * d \in Int
  BY SMTT(30), Z3T(30), <1>3, <1>4, Sizes
<1>6. r + Fill(p) = w - Cap * (c * d)
  BY SMTT(30), Z3T(30), <1>1, <1>2, <1>3, <1>5, Sizes
<1>7. PICK k \in Int : k = -(c * d)
  BY <1>5
<1>8. Cap * k = -(Cap * (c * d))
  BY SMTT(30), Z3T(30), <1>5, <1>7, Sizes
<1>9. QED
  BY ZenonT(40), <1>1, <1>5, <1>6, <1>7, <1>8, Sizes DEF r, w

\* do_write_fd appends what it accepted to what was there.
LEMMA WritePuts ==
  ASSUME TypeOK, NEW q \in Procs, NEW fd \in Fds, NEW bs \in Data, do_write_fd(q, fd, bs)
  PROVE  \E p \in Pipe : Channels!Put(p)
<1>0. PICK p \in Pipe, n \in Nat : Written(p, n, bs)
  BY WriteType
<1>1. /\ n \in 1..Len(bs) /\ n <= Cap - Fill(p) /\ bs \in Seq(Bytes)
      /\ pipes' \in [Pipe -> [used : BOOLEAN, rpos : 0..(Wrap - 1), wpos : 0..(Wrap - 1),
                               buf : [0..(Cap - 1) -> Bytes]]]
      /\ Fill(p)' = Fill(p) + n
      /\ \A x \in Pipe : pipes'[x].used = pipes[x].used
      /\ \A x \in Pipe : x # p => pipes'[x] = pipes[x]
      /\ pipes'[p].rpos = pipes[p].rpos
      /\ \A i \in 0..(Cap - 1) :
           pipes'[p].buf[i] = LET k == ((i - pipes[p].wpos) % Cap) + 1
                              IN  IF k <= n THEN bs[k] ELSE pipes[p].buf[i]
  BY <1>0, Zenon DEF Written
<1> DEFINE r == pipes[p].rpos
           w == pipes[p].wpos
           F == Fill(p)
           new == SubSeq(bs, 1, n)
           old == Content(p)
<1>2. r \in 0..(Wrap - 1) /\ w \in 0..(Wrap - 1) /\ F \in 0..Cap
  <2>1. F \in 0..Cap
    BY ZenonT(40), FillRange
  <2>2. QED
    BY <2>1 DEF TypeOK
<1>3. PICK k \in Int : r + F = w + Cap * k
  BY WposIs
<1>4. /\ r \in Int /\ w \in Int /\ F \in Nat /\ F <= Cap /\ Cap \in Nat /\ Cap > 0
      /\ n \in Nat /\ n >= 1 /\ n <= Cap - F /\ F + n \in Nat /\ n <= Len(bs)
  <2>1. n \in 1..Len(bs) /\ bs \in Seq(Bytes)
    BY <1>1, Zenon
  <2>2. Len(bs) \in Nat
    BY <2>1
  <2>3. n <= Cap - F
    BY <1>1, Zenon
  <2>4. Cap \in Nat /\ Cap > 0 /\ Wrap \in Nat
    BY Sizes, SMT
  <2> HIDE DEF r, w, F
  <2>5. n \in Nat /\ n >= 1 /\ n <= Len(bs)
    BY SMTT(30), Z3T(30), <2>1, <2>2
  <2>6. QED
    BY <1>2, <2>3, <2>4, <2>5
<1>5. new \in Seq(Bytes) /\ Len(new) = n /\ \A i \in 1..n : new[i] = bs[i]
  <2>1. \A i \in 1..n : bs[i] \in Bytes
    BY SMTT(30), Z3T(30), <1>1, ElementOfSeq
  <2>2. QED
    BY SMTT(30), Z3T(30), <1>1, <2>1, SubSeqProperties
<1>6. old \in Seq(Bytes) /\ Len(old) = F
  BY ContentIs
<1>7. old \o new \in Seq(Bytes) /\ Len(old \o new) = F + n
      /\ \A i \in 1..(F + n) : (old \o new)[i] = IF i <= F THEN old[i] ELSE new[i - F]
  <2> HIDE DEF old, new, F
  <2>1. QED
    BY ZenonT(30), <1>5, <1>6, ConcatProperties
<1>8. /\ Content(p)' \in Seq(Bytes) /\ Len(Content(p)') = F + n
      /\ \A i \in 1..(F + n) : /\ Content(p)'[i] = pipes'[p].buf[(r + i - 1) % Cap]
                               /\ (r + i - 1) % Cap \in 0..(Cap - 1)
  <2>1. pipes'[p].buf \in [0..(Cap - 1) -> Bytes]
    BY ZenonT(40), <1>1
  <2>2. Content(p)' = [i \in 1..(F + n) |-> pipes'[p].buf[(r + i - 1) % Cap]]
    BY ZenonT(40), <1>1 DEF Content
  <2> HIDE DEF F, r
  <2>3. QED
    BY ZenonT(40), <1>4, <2>1, <2>2, RingSeq
<1>a. /\ \A i \in 0..(Cap - 1) :
           pipes'[p].buf[i] = LET x == ((i - w) % Cap) + 1
                              IN  IF x <= n THEN bs[x] ELSE pipes[p].buf[i]
      /\ \A i \in 1..F : old[i] = pipes[p].buf[(r + i - 1) % Cap]
  BY <1>1, ContentIs
<1> HIDE DEF F, r, w, old, new
<1>9. ASSUME NEW i \in 1..(F + n) PROVE Content(p)'[i] = (old \o new)[i]
  <2> DEFINE j == (r + i - 1) % Cap
             a == (j - w) % Cap
  <2>0. i \in Int /\ i >= 1 /\ i <= F + n
    BY SMTT(30), Z3T(30), <1>4
  <2>1. j \in 0..(Cap - 1) /\ Content(p)'[i] = pipes'[p].buf[j]
    BY ZenonT(40), <1>8
  <2>2. pipes'[p].buf[j] = IF a + 1 <= n THEN bs[a + 1] ELSE pipes[p].buf[j]
    BY ZenonT(40), <1>a, <2>1
  <2>3. a = (r + i - 1 - w) % Cap
    <3>1. r + i - 1 \in Int /\ -w \in Int /\ j + (-w) = j - w /\ (r + i - 1) + (-w) = r + i - 1 - w
      <4> HIDE DEF j
      <4>1. QED
        BY SMTT(30), Z3T(30), <1>4, <2>0, <2>1
    <3>2. (((r + i - 1) % Cap) + (-w)) % Cap = ((r + i - 1) + (-w)) % Cap
      BY ZenonT(40), <3>1, ModSum, Sizes
    <3>3. QED
      BY ZenonT(40), <3>1, <3>2
  <2>4. r + i - 1 - w = (i - 1 - F) + Cap * k
    BY SMTT(30), Z3T(30), <1>3, <1>4, <2>0
  <2>5. a = (i - 1 - F) % Cap
    <3>1. i - 1 - F \in Int
      BY <1>4, <2>0
    <3>2. ((i - 1 - F) + Cap * k) % Cap = (i - 1 - F) % Cap
      BY ZenonT(40), <3>1, ModTurns, Sizes
    <3>3. QED
      BY ZenonT(40), <2>3, <2>4, <3>2
  <2> HIDE DEF a, j
  <2>6. CASE i > F
    <3>1. i - 1 - F \in 0..(Cap - 1)
      BY SMTT(30), Z3T(30), <1>4, <2>0, <2>6
    <3>2. a = i - 1 - F
      BY SMTT(30), Z3T(30), <2>5, <3>1, ModOnce, Sizes
    <3>3. a + 1 <= n /\ a + 1 = i - F /\ i - F \in 1..n
      BY SMTT(30), Z3T(30), <1>4, <2>0, <2>6, <3>2
    <3>4. Content(p)'[i] = new[i - F]
      BY ZenonT(40), <1>5, <2>1, <2>2, <3>3
    <3>5. (old \o new)[i] = new[i - F]
      BY SMTT(30), Z3T(30), <1>4, <1>7, <2>6
    <3>6. QED
      BY <3>4, <3>5
  <2>7. CASE i <= F
    <3>1. i - 1 - F + Cap \in 0..(Cap - 1) /\ i - 1 - F \in Int
      BY SMTT(30), Z3T(30), <1>4, <2>0, <2>7
    <3>2. a = i - 1 - F + Cap
      <4>1. (i - 1 - F + Cap) % Cap = (i - 1 - F) % Cap
        BY ZenonT(40), <3>1, ModOnce, Sizes
      <4>2. (i - 1 - F + Cap) % Cap = i - 1 - F + Cap
        BY SMTT(30), Z3T(30), <3>1, ModOnce, Sizes
      <4>3. QED
        BY ZenonT(40), <2>5, <4>1, <4>2
    <3>3. ~(a + 1 <= n) /\ i \in 1..F
      BY SMTT(30), Z3T(30), <1>4, <2>0, <2>7, <3>2
    <3>4. old[i] = pipes[p].buf[j]
      BY <1>a, <3>3 DEF j
    <3>5. QED
      BY ZenonT(40), <1>7, <2>1, <2>2, <2>7, <3>3, <3>4
  <2>8. i > F \/ i <= F
    BY SMTT(30), Z3T(30), <1>4, <2>0
  <2>9. QED
    BY ZenonT(40), <2>6, <2>7, <2>8
<1>10. Content(p)' = old \o new
  BY SMTT(30), Z3T(30), <1>7, <1>8, <1>9, SeqEqual
<1>11. \A x \in Pipe : x # p => Content(x)' = Content(x)
  BY ZenonT(30), <1>1, ContentSame
<1>12. new \in Channels!Data(Cap - Len(old))
  <2>1. new \in [1..n -> Bytes]
    BY <1>5, LenProperties
  <2>2. n \in 1..(Cap - Len(old))
    BY <1>4, <1>6
  <2>3. QED
    BY <2>1, <2>2 DEF Channels!Data
<1>13. out' = out
  BY ZenonT(40) DEF do_write_fd
<1>14. [x \in Pipe |-> Content(x)]' = [[x \in Pipe |-> Content(x)] EXCEPT ![p] = old \o new]
  BY ZenonT(40), <1>10, <1>11
<1>15. [x \in Pipe |-> Content(x)][p] = old
  BY DEF old
<1>16. QED
  BY ZenonT(40), <1>12, <1>13, <1>14, <1>15 DEF Channels!Put

\* The copying loop of a read hands out the oldest bytes and keeps the others.
LEMMA TakeGets ==
  ASSUME TypeOK, NEW p \in Pipe, NEW n \in 1..MaxWrite, Take(p, n)
  PROVE  Channels!Get(p)
<1> DEFINE r == pipes[p].rpos
           F == Fill(p)
           b == pipes[p].buf
           old == Content(p)
<1>1. PICK m \in 0..F : m = Min({n, F})
  BY ZenonT(40), TakeType
<1>2. r \in 0..(Wrap - 1) /\ b \in [0..(Cap - 1) -> Bytes] /\ F \in 0..Cap
  <2>1. F \in 0..Cap
    BY ZenonT(40), FillRange
  <2>2. QED
    BY <2>1 DEF TypeOK
<1>3. /\ r \in Int /\ F \in Nat /\ m \in Nat /\ m <= F /\ Cap \in Nat /\ Cap > 0
      /\ Wrap \in Nat /\ Wrap > 0 /\ F - m \in Nat /\ r + m \in Int
  BY SMTT(30), Z3T(30), <1>1, <1>2, Sizes
<1>4. (m = 0) = (F = 0)
  <2>1. n \in Nat /\ n >= 1
    BY Sizes
  <2>2. m = n \/ m = F
    <3> HIDE DEF F
    <3>1. QED
      BY SMTT(30), Z3T(30), <1>1, <1>3, <2>1, MinOfTwo
  <2>3. QED
    BY <1>3, <2>1, <2>2
<1>5. old \in Seq(Bytes) /\ Len(old) = F /\ \A i \in 1..F : old[i] = b[(r + i - 1) % Cap]
  BY ContentIs
<1>6. out'.data = [i \in 1..m |-> b[(r + i - 1) % Cap]]
  BY <1>1 DEF Take
<1>7. /\ pipes'[p].rpos = (r + m) % Wrap /\ pipes'[p].buf = b /\ Fill(p)' = F - m
      /\ \A x \in Pipe : x # p => pipes'[x] = pipes[x]
  <2>1. pipes' = [pipes EXCEPT ![p].rpos = (r + m) % Wrap]
    BY ZenonT(40), <1>1 DEF Take
  <2>2. Fill(p)' = F - m
    BY ZenonT(40), <1>1, TakeType
  <2>3. QED
    BY SMTT(30), Z3T(30), <2>1, <2>2 DEF TypeOK
<1>8. Content(p)' = [i \in 1..(F - m) |-> b[(((r + m) % Wrap) + i - 1) % Cap]]
  BY <1>7 DEF Content
<1> HIDE DEF r, F, b, old
<1>9. /\ out'.data \in Seq(Bytes) /\ Len(out'.data) = m
      /\ \A i \in 1..m : out'.data[i] = b[(r + i - 1) % Cap] /\ (r + i - 1) % Cap \in 0..(Cap - 1)
  BY ZenonT(40), <1>2, <1>3, <1>6, RingSeq
<1>10. \A i \in 1..F : old[i] \in Bytes
  BY <1>5, ElementOfSeq
<1>11. out'.data = SubSeq(old, 1, m)
  <2>1. \A i \in 1..m : old[i] \in Bytes
    BY <1>3, <1>10
  <2>2. SubSeq(old, 1, m) \in Seq(Bytes) /\ Len(SubSeq(old, 1, m)) = m
        /\ \A i \in 1..m : SubSeq(old, 1, m)[i] = old[i]
    BY SMTT(30), Z3T(30), <1>3, <2>1, SubSeqProperties
  <2>3. \A i \in 1..m : out'.data[i] = SubSeq(old, 1, m)[i]
    BY SMTT(30), Z3T(30), <1>3, <1>5, <1>9, <2>2
  <2>4. QED
    BY ZenonT(40), <1>9, <2>2, <2>3, SeqEqual
<1>12. Content(p)' = SubSeq(old, m + 1, F)
  <2>1. \A i \in (m + 1)..F : old[i] \in Bytes
    BY <1>3, <1>10
  <2> DEFINE rest == SubSeq(old, m + 1, F)
  <2>2. rest \in Seq(Bytes) /\ Len(rest) = F - m /\ \A i \in 1..(F - m) : rest[i] = old[m + i]
    <3>1. /\ rest \in Seq(Bytes) /\ Len(rest) = (IF m + 1 <= F THEN F - (m + 1) + 1 ELSE 0)
          /\ \A i \in 1..(F - (m + 1) + 1) : rest[i] = old[(m + 1) + i - 1]
      BY SMTT(30), Z3T(30), <1>3, <2>1, SubSeqProperties
    <3>2. F - (m + 1) + 1 = F - m /\ (~(m + 1 <= F) => F - m = 0)
          /\ \A i \in 1..(F - m) : (m + 1) + i - 1 = m + i
      BY <1>3
    <3> HIDE DEF rest
    <3>3. QED
      BY <3>1, <3>2
  <2> HIDE DEF rest
  <2>3. (r + m) % Wrap \in Int
    BY SMTT(30), Z3T(30), <1>3, DivMod
  <2>4. /\ Content(p)' \in Seq(Bytes) /\ Len(Content(p)') = F - m
        /\ \A i \in 1..(F - m) : /\ Content(p)'[i] = b[(((r + m) % Wrap) + i - 1) % Cap]
                                 /\ (((r + m) % Wrap) + i - 1) % Cap \in 0..(Cap - 1)
    BY ZenonT(40), <1>2, <1>3, <1>8, <2>3, RingSeq
  <2>5. ASSUME NEW i \in 1..(F - m) PROVE Content(p)'[i] = rest[i]
    <3>1. i \in Int /\ i - 1 \in Int /\ m + i \in 1..F
      BY <1>3
    <3>2. ((r + m) % Wrap) % Cap = (r + m) % Cap
      BY ZenonT(30), <1>3, ModMod, Sizes
    <3>3. ((((r + m) % Wrap) % Cap) + (i - 1)) % Cap = (((r + m) % Wrap) + (i - 1)) % Cap
      BY ZenonT(30), <1>3, <2>3, <3>1, ModSum
    <3>4. (((r + m) % Cap) + (i - 1)) % Cap = ((r + m) + (i - 1)) % Cap
      BY ZenonT(40), <1>3, <3>1, ModSum
    <3>5. ((r + m) % Wrap) + i - 1 = ((r + m) % Wrap) + (i - 1) /\ (r + m) + (i - 1) = r + (m + i) - 1
      BY SMTT(30), Z3T(30), <1>3, <2>3, <3>1
    <3>6. Content(p)'[i] = b[(r + (m + i) - 1) % Cap]
      BY ZenonT(40), <2>4, <3>2, <3>3, <3>4, <3>5
    <3>7. QED
      BY ZenonT(40), <1>5, <2>2, <3>1, <3>6
  <2>6. QED
    BY ZenonT(40), <2>2, <2>4, <2>5, SeqEqual DEF rest
<1>13. \A x \in Pipe : x # p => Content(x)' = Content(x)
  BY <1>7, ContentSame
<1>14. [x \in Pipe |-> Content(x)]' = [[x \in Pipe |-> Content(x)] EXCEPT ![p] = SubSeq(old, m + 1, Len(old))]
  BY ZenonT(40), <1>5, <1>12, <1>13
<1>15. [x \in Pipe |-> Content(x)][p] = old
  BY DEF old
<1>16. (m = 0) = (old = << >>) /\ m \in 0..Len(old)
  BY ZenonT(40), <1>3, <1>4, <1>5, EmptySeq
<1>17. QED
  BY ZenonT(40), <1>11, <1>14, <1>15, <1>16 DEF Channels!Get

\* SYS_pipe hands out an empty pipe.
LEMMA PipeEmpties ==
  ASSUME TypeOK, NEW pi \in Pipe, UNCHANGED out,
         pipes' = [pipes EXCEPT ![pi] = [used |-> TRUE, rpos |-> 0, wpos |-> 0, buf |-> Fresh]]
  PROVE  Channels!Make(pi)
<1>1. Fill(pi)' = 0
  BY ZenonT(40), NewPipe
<1>2. Content(pi)' = << >>
  <2>1. Content(pi)' = [i \in 1..0 |-> pipes'[pi].buf[(pipes'[pi].rpos + i - 1) % Cap]]
    BY <1>1 DEF Content
  <2>2. QED
    BY <2>1
<1>3. \A x \in Pipe : x # pi => Content(x)' = Content(x)
  <2>1. \A x \in Pipe : x # pi => pipes'[x] = pipes[x]
    BY DEF TypeOK
  <2>2. QED
    BY ZenonT(40), <2>1, ContentSame
<1>4. [x \in Pipe |-> Content(x)]' = [[x \in Pipe |-> Content(x)] EXCEPT ![pi] = << >>]
  BY ZenonT(40), <1>2, <1>3
<1>5. QED
  BY <1>4 DEF Channels!Make

\* A step that leaves counters and bytes alone leaves the channels alone.
LEMMA ChannelsRest ==
  ASSUME \A p \in Pipe : /\ pipes'[p].rpos = pipes[p].rpos /\ pipes'[p].wpos = pipes[p].wpos
                         /\ pipes'[p].buf = pipes[p].buf,
         UNCHANGED out
  PROVE  UNCHANGED <<[p \in Pipe |-> Content(p)], out.data>>
<1>1. \A p \in Pipe : Content(p)' = Content(p)
  BY ContentSame
<1>2. QED
  BY <1>1

\* For any number of users, any size of the buffer and any width of the counters
\* the size divides, the buffers are bounded first-in first-out channels: what
\* SYS_read and readv return is what do_write_fd accepted, in order, none lost and
\* none twice, though the counters wrap (the masks `& 4095` of both loops).
THEOREM PipesAreChannels == Spec => ImplementsChannels
<1>1. Init => Channels!Init
  <2>1. SUFFICES ASSUME Init PROVE Channels!Init
    OBVIOUS
  <2>2. \A p \in Pipe : Content(p) = << >>
    <3>1. (0 - 0) % Wrap = 0
      BY Sizes, ModOnce
    <3>2. \A p \in Pipe : Fill(p) = 0
      BY <2>1, <3>1 DEF Init, Fill
    <3>3. \A p \in Pipe : Content(p) = [i \in 1..0 |-> pipes[p].buf[(pipes[p].rpos + i - 1) % Cap]]
      BY ZenonT(40), <3>2 DEF Content
    <3>4. QED
      BY SMTT(30), Z3T(30), <3>3
  <2>3. out.data = << >>
    BY ZenonT(40), <2>1 DEF Init
  <2>4. QED
    BY <2>2, <2>3 DEF Channels!Init, Pipe
<1>2. TypeOK /\ [Next]_vars => [Channels!Next]_<<[p \in Pipe |-> Content(p)], out.data>>
  <2> DEFINE Goal == [Channels!Next]_<<[p \in Pipe |-> Content(p)], out.data>>
  <2>1. SUFFICES ASSUME TypeOK, [Next]_vars PROVE Goal
    BY ZenonT(40)
  <2>u. TypeOK
    BY <2>1
  <2>2. ASSUME NEW p \in Pipe, Channels!Make(p) \/ Channels!Put(p) \/ Channels!Get(p) PROVE Goal
    BY ZenonT(40), <2>2 DEF Channels!Next, Pipe
  <2>3. (\A p \in Pipe : /\ pipes'[p].rpos = pipes[p].rpos /\ pipes'[p].wpos = pipes[p].wpos
                         /\ pipes'[p].buf = pipes[p].buf) /\ UNCHANGED out => Goal
    BY ChannelsRest
  <2>4. UNCHANGED <<pipes, out>> => Goal
    BY <2>3
  <2> HIDE DEF Goal
  <2>5. ASSUME NEW q \in Procs, NEW nb \in Flags, pipe(q, nb) PROVE Goal
    <3>1. nb \in BOOLEAN
      BY PipeAssumption
    <3>2. PICK pi \in Pipe : pipes' = [pipes EXCEPT ![pi] = [used |-> TRUE, rpos |-> 0,
                                                             wpos |-> 0, buf |-> Fresh]]
      BY <2>u, <2>5, <3>1, PipeMakes, Zenon
    <3>3. out' = out
      BY <2>5 DEF pipe
    <3>4. QED
      BY ZenonT(40), <2>u, <2>2, <3>2, <3>3, PipeEmpties
  <2>6. ASSUME NEW q \in Procs, NEW fd \in Fds, NEW newfd \in Fds, NEW nb, DupOnto(q, fd, newfd, nb) PROVE Goal
    <3>1. out' = out /\ (pipes' = pipes \/ \E x : pipes' = [pipes EXCEPT ![x].used = FALSE])
      BY ZenonT(40), <2>6 DEF DupOnto
    <3>2. \A p \in Pipe : /\ pipes'[p].rpos = pipes[p].rpos /\ pipes'[p].wpos = pipes[p].wpos
                          /\ pipes'[p].buf = pipes[p].buf
      <4>1. ASSUME NEW x, pipes' = [pipes EXCEPT ![x].used = FALSE], NEW p \in Pipe
            PROVE  /\ pipes'[p].rpos = pipes[p].rpos /\ pipes'[p].wpos = pipes[p].wpos
                   /\ pipes'[p].buf = pipes[p].buf
        <5>1. pipes[p] \in [used : BOOLEAN, rpos : 0..(Wrap - 1), wpos : 0..(Wrap - 1),
                            buf : [0..(Cap - 1) -> Bytes]] /\ p \in DOMAIN pipes
          BY <2>u DEF TypeOK
        <5>2. pipes'[p] = pipes[p] \/ pipes'[p] = [pipes[p] EXCEPT !.used = FALSE]
          BY ZenonT(40), <4>1, <5>1
        <5>3. QED
          BY ZenonT(40), <5>1, <5>2
      <4>2. QED
        BY <3>1, <4>1
    <3>3. QED
      BY SMTT(30), Z3T(30), <2>3, <3>1, <3>2
  <2>7. ASSUME NEW q \in Procs, NEW fd \in Fds, NEW bs \in Data, do_write_fd(q, fd, bs) PROVE Goal
    BY ZenonT(40), <2>u, <2>2, <2>7, WritePuts
  <2>8. ASSUME NEW p \in Pipe, NEW n \in 1..MaxWrite, Take(p, n) PROVE Goal
    BY <2>u, <2>2, <2>8, TakeGets
  <2>9. ASSUME NEW q \in Procs, NEW fd \in Fds, NEW n \in 1..MaxWrite, ReadNow(q, fd, n) \/ readv(q, fd, n)
        PROVE  Goal
    BY ZenonT(40), <2>u, <2>8, <2>9, TableType, EntryFacts DEF ReadNow, readv
  <2>10. ASSUME NEW q \in Procs, NEW n \in 1..MaxWrite, ReadTurn(q, n) PROVE Goal
    BY ZenonT(40), <2>u, <2>4, <2>8, <2>10, ReadsAPipe DEF ReadTurn
  <2>11. ASSUME NEW q \in Procs, NEW fd \in Fds, NEW nb \in Flags, fcntl_setfl(q, fd, nb)
         PROVE  Goal
    BY ZenonT(40), <2>4, <2>11 DEF fcntl_setfl
  <2>12. ASSUME NEW q \in Procs, \/ proc_fork(q) \/ proc_clone_thread(q) \/ sys_execve(q) \/ sys_exit(q)
                                 \/ \E c \in Procs : proc_waitpid(q, c)
         PROVE  Goal
    BY ZenonT(40), <2>4, <2>12 DEF proc_fork, proc_clone_thread, sys_execve, sys_exit, proc_waitpid
  <2>13. Shell \/ UNCHANGED vars => Goal
    BY ZenonT(40), <2>4 DEF Shell, vars
  <2>14. \A q \in Procs, fd \in Fds : dup(q, fd) \/ close_fd(q, fd) \/ ReadWaits(q, fd) => Goal
    BY <2>4 DEF dup, close_fd, ReadWaits
  <2>15. QED
    BY ZenonT(40), <2>1, <2>5, <2>6, <2>7, <2>9, <2>10, <2>11, <2>12, <2>13, <2>14 DEF Next, dup2, dup3
<1>3. QED
  BY <1>1, <1>2, TypeInit, TypeStep, PTL DEF Spec, ImplementsChannels, Channels!Spec
=============================================================================
