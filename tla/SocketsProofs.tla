--------------------------- MODULE SocketsProofs ----------------------------
(***************************************************************************)
(* Three results about the sockets, for any number of processes,           *)
(* descriptors and sockets.                                                *)
(*                                                                         *)
(* FdOwnsSocket: every open descriptor has a socket of its own.  A call    *)
(* may do three things to the descriptors and to the marks of use: leave   *)
(* both alone (Kept), give a free descriptor a free socket (Given), or     *)
(* clear marks of descriptors and, with them, of no socket another         *)
(* descriptor has (close_fd, fds_close_exec).  Each operator is shown to   *)
(* do one of the three.  A socket pair and a fork do a fourth, one socket  *)
(* for two descriptors, and are left out.                                  *)
(*                                                                         *)
(* StrangersOnlyAfterReuse and PairsMutual: whom a socket may send to.     *)
(* The queue of a listener holds sockets that wait to be accepted, so the  *)
(* invariants (Acquainted, Mutual) speak of the peers, the queues and the  *)
(* ids the sockets were made with at once.  What a call does to these is   *)
(* one of four effects: nothing, a fresh socket, a connection, an          *)
(* acceptance (NextEffect); each effect keeps both invariants.             *)
(***************************************************************************)
EXTENDS Sockets, WellFoundedInduction, TLAPS

Queues == Seq([at: Socks, id: Nat])
Buffers == Seq(Nat)
Tables == [Procs -> [Fds -> [used: BOOLEAN, sock: 0..NSocks]]]

SocketType ==
    [used: BOOLEAN, path: Nat, listening: BOOLEAN, peer: 0..NSocks,
     pending: Queues, buf: Buffers, id: Nat, mates: SUBSET Nat]

KernelType == [sock: [Socks -> SocketType], fd: Tables, made: Nat, reused: BOOLEAN]

OpenIn(k, p, i) == k.fd[p][i].used /\ k.fd[p][i].sock # None

\* FdOwnsSocket of a kernel state.
Owns(k) ==
    \A p, q \in Procs, i, j \in Fds :
        (OpenIn(k, p, i) /\ OpenIn(k, q, j)) =>
            /\ k.sock[k.fd[p][i].sock].used
            /\ k.fd[p][i].sock = k.fd[q][j].sock => (p = q /\ i = j)

\* The inductive invariant.
Good(k) == k \in KernelType /\ Owns(k)

-----------------------------------------------------------------------------
(* What the operators return. *)

\* The loops that look for a first entry return one of those they look for.
LEMMA FirstIn ==
  ASSUME NEW S \in SUBSET Nat, S # {}
  PROVE  First(S) \in S
<1> DEFINE R == OpToRel(<, Nat)
<1>1. IsWellFoundedOn(R, Nat)
  BY NatLessThanWellFounded, Zenon
<1>2. \A x, y \in Nat : y < x => <<y, x>> \in R
  BY ZenonT(40) DEF OpToRel
<1> HIDE DEF R
<1>3. PICK x \in S : \A y \in S : <<y, x>> \notin R
  BY <1>1, WFMin, Zenon
<1>4. \A y \in S : x <= y
  <2>1. SUFFICES ASSUME NEW y \in S, y < x PROVE FALSE
    OBVIOUS
  <2>2. <<y, x>> \in R
    BY <1>2, <2>1
  <2>3. QED
    BY <1>3, <2>2
<1>5. QED
  BY <1>4, Zenon DEF First, None

\* The sizes are numbers.
LEMMA Constants == NSocks \in Nat /\ NFds \in Nat
  BY SocketsAssumption, Zenon

\* sock_alloc and alloc_fd return something free, or None.
LEMMA Allocated ==
  ASSUME NEW k, NEW p
  PROVE  /\ sock_alloc(k) # None => sock_alloc(k) \in Socks /\ ~k.sock[sock_alloc(k)].used
         /\ alloc_fd(k, p) # None => alloc_fd(k, p) \in Fds /\ ~k.fd[p][alloc_fd(k, p)].used
<1> DEFINE S == {s \in Socks : ~k.sock[s].used}
           F == {i \in Fds : ~k.fd[p][i].used}
<1>1. S \subseteq Nat /\ F \subseteq Nat
  BY Constants DEF Socks, Fds
<1>2. S # {} => First(S) \in S
  BY <1>1, FirstIn, Zenon
<1>3. F # {} => First(F) \in F
  BY <1>1, FirstIn, Zenon
<1>4. sock_alloc(k) = First(S) /\ alloc_fd(k, p) = First(F)
  BY DEF sock_alloc, alloc_fd
<1>5. (S = {} => First(S) = None) /\ (F = {} => First(F) = None)
  BY DEF First
<1> HIDE DEF S, F
<1>6. /\ First(S) # None => First(S) \in S
      /\ First(F) # None => First(F) \in F
  BY <1>2, <1>3, <1>5
<1>7. QED
  BY <1>4, <1>6 DEF S, F

\* sock_by_path returns a listener in use, or None.
LEMMA ByPath ==
  ASSUME NEW k, NEW path, sock_by_path(k, path) # None
  PROVE  /\ sock_by_path(k, path) \in Socks
         /\ k.sock[sock_by_path(k, path)].used /\ k.sock[sock_by_path(k, path)].listening
<1> DEFINE S == {s \in Socks : k.sock[s].used /\ k.sock[s].listening /\ k.sock[s].path = path}
<1>1. S \subseteq Nat
  BY Constants DEF Socks
<1>2. sock_by_path(k, path) = First(S)
  BY DEF sock_by_path
<1>3. S # {}
  BY <1>2 DEF First
<1>4. sock_by_path(k, path) \in S
  BY <1>1, <1>2, <1>3, FirstIn
<1>5. QED
  BY <1>4, Zenon

\* Making a socket marks it as used, and touches neither the other marks nor the
\* descriptors.
LEMMA FreshMakes ==
  ASSUME NEW k \in KernelType, NEW s \in Socks, NEW peer \in 0..NSocks
  PROVE  /\ Fresh(k, s, peer) \in KernelType
         /\ Fresh(k, s, peer).fd = k.fd
         /\ \A t \in Socks : Fresh(k, s, peer).sock[t].used <=> (t = s \/ k.sock[t].used)
<1> DEFINE new == Made(peer, k.made + 1)
           held == k.reused \/ Held(k, s)
<1>1. new \in SocketType /\ new.used
  <2>1. k.made + 1 \in Nat
    BY DEF KernelType
  <2>2. <<>> \in Queues /\ <<>> \in Buffers /\ {} \in SUBSET Nat
    BY DEF Queues, Buffers
  <2>3. QED
    BY <2>1, <2>2 DEF SocketType, Made
<1>2. held \in BOOLEAN
  OBVIOUS
<1> HIDE DEF new, held
<1>3. Fresh(k, s, peer) = [k EXCEPT !.sock[s] = new, !.made = k.made + 1, !.reused = held]
  BY DEF Fresh, new, held
<1>4. [k EXCEPT !.sock[s] = new, !.made = k.made + 1, !.reused = held] \in KernelType
  <2>1. [k.sock EXCEPT ![s] = new] \in [Socks -> SocketType] /\ k.made + 1 \in Nat
    BY <1>1 DEF KernelType
  <2>2. \A f \in [Socks -> SocketType], n \in Nat, v \in BOOLEAN :
          [k EXCEPT !.sock = f, !.made = n, !.reused = v] \in KernelType
    BY ZenonT(40) DEF KernelType
  <2>3. QED
    BY <1>2, <2>1, <2>2, Zenon
<1>5. /\ Fresh(k, s, peer).fd = k.fd
      /\ \A t \in Socks : Fresh(k, s, peer).sock[t] = IF t = s THEN new ELSE k.sock[t]
  BY <1>3 DEF KernelType
<1>6. QED
  BY <1>1, <1>3, <1>4, <1>5, Zenon

\* Replacing a socket changes no descriptor and no other socket.
LEMMA PutKeeps ==
  ASSUME NEW k \in KernelType, NEW s \in Socks, NEW r \in SocketType
  PROVE  /\ [k EXCEPT !.sock[s] = r] \in KernelType
         /\ [k EXCEPT !.sock[s] = r].fd = k.fd
         /\ \A t \in Socks : [k EXCEPT !.sock[s] = r].sock[t] = IF t = s THEN r ELSE k.sock[t]
  BY DEF KernelType

\* An entry of the socket table is a socket.
LEMMA SockAt ==
  ASSUME NEW k \in KernelType, NEW s \in Socks
  PROVE  k.sock[s] \in SocketType
  BY DEF KernelType

\* The state k2 has the descriptors of k and its marks of use.
Kept(k, k2) ==
    k2 \in KernelType /\ k2.fd = k.fd /\ \A t \in Socks : k2.sock[t].used = k.sock[t].used

\* Noting a mate changes no descriptor and no mark of use.
LEMMA MateKeeps ==
  ASSUME NEW k \in KernelType, NEW s \in Socks, NEW i \in Nat
  PROVE  Kept(k, Mate(k, s, i))
<1> DEFINE r == [k.sock[s] EXCEPT !.mates = @ \cup {i}]
<1>1. r \in SocketType /\ r.used = k.sock[s].used
  BY SockAt DEF SocketType
<1>2. Mate(k, s, i) = [k EXCEPT !.sock[s] = r]
  BY DEF Mate
<1> HIDE DEF r
<1>3. QED
  BY <1>1, <1>2, PutKeeps DEF Kept

\* An open descriptor leads to an entry of the socket table.
LEMMA OpenHasSocket ==
  ASSUME NEW k \in KernelType, NEW p \in Procs, NEW i \in Fds, OpenIn(k, p, i)
  PROVE  k.fd[p][i].sock \in Socks
<1>1. k.fd[p][i].sock \in 0..NSocks
  BY ZenonT(40) DEF KernelType, Tables
<1>2. QED
  BY <1>1, Constants DEF OpenIn, Socks, None

-----------------------------------------------------------------------------
(* The three things a call may do. *)

\* What leaves the descriptors and the marks of use alone keeps the invariant.
LEMMA KeptGood ==
  ASSUME NEW k, NEW k2, Good(k), Kept(k, k2)
  PROVE  Good(k2)
  BY SMTT(30), Z3T(30), OpenHasSocket DEF Good, Kept, Owns, OpenIn

\* A free descriptor i of p gets the free socket s.
Given(k, k2, p, i, s) ==
    /\ k2 \in KernelType
    /\ ~k.fd[p][i].used /\ ~k.sock[s].used
    /\ k2.fd = [k.fd EXCEPT ![p][i] = [used |-> TRUE, sock |-> s]]
    /\ \A t \in Socks : k2.sock[t].used <=> (t = s \/ k.sock[t].used)

\* Giving a free socket to a free descriptor keeps the invariant.
LEMMA GivenGood ==
  ASSUME NEW k, NEW k2, NEW p \in Procs, NEW i \in Fds, NEW s \in Socks,
         Good(k), Given(k, k2, p, i, s)
  PROVE  Good(k2)
<1>1. \A q \in Procs, j \in Fds :
        k2.fd[q][j] = IF q = p /\ j = i THEN [used |-> TRUE, sock |-> s] ELSE k.fd[q][j]
  BY DEF Good, KernelType, Tables, Given
<1>2. ASSUME NEW q \in Procs, NEW j \in Fds, OpenIn(k2, q, j), ~(q = p /\ j = i)
      PROVE  /\ OpenIn(k, q, j) /\ k2.fd[q][j].sock = k.fd[q][j].sock
             /\ k.fd[q][j].sock \in Socks /\ k.sock[k.fd[q][j].sock].used
  <2>1. k2.fd[q][j] = k.fd[q][j]
    BY <1>1, <1>2, Zenon
  <2>2. OpenIn(k, q, j)
    BY <2>1, <1>2, Zenon DEF OpenIn
  <2>3. QED
    BY <2>1, <2>2, OpenHasSocket, Zenon DEF Good, Owns
<1>3. ASSUME NEW q \in Procs, NEW j \in Fds, OpenIn(k2, q, j)
      PROVE  k2.sock[k2.fd[q][j].sock].used
  <2>1. CASE q = p /\ j = i
    BY SMTT(30), Z3T(30), <1>1, <2>1 DEF Given
  <2>2. CASE ~(q = p /\ j = i)
    BY ZenonT(40), <1>2, <1>3, <2>2 DEF Given
  <2>3. QED
    BY <2>1, <2>2, Zenon
<1>4. ASSUME NEW q \in Procs, NEW r \in Procs, NEW j \in Fds, NEW l \in Fds,
             OpenIn(k2, q, j), OpenIn(k2, r, l), k2.fd[q][j].sock = k2.fd[r][l].sock
      PROVE  q = r /\ j = l
  <2>1. CASE (q = p /\ j = i) /\ (r = p /\ l = i)
    BY <2>1, Zenon
  <2>2. CASE (q = p /\ j = i) /\ ~(r = p /\ l = i)
    BY SMTT(30), Z3T(30), <1>1, <1>2, <1>4, <2>2 DEF Given
  <2>3. CASE ~(q = p /\ j = i) /\ (r = p /\ l = i)
    BY SMTT(30), Z3T(30), <1>1, <1>2, <1>4, <2>3 DEF Given
  <2>4. CASE ~(q = p /\ j = i) /\ ~(r = p /\ l = i)
    BY <1>2, <1>4, <2>4 DEF Good, Owns
  <2>5. QED
    BY <2>1, <2>2, <2>3, <2>4, Zenon
<1>5. Owns(k2)
  BY <1>3, <1>4, Zenon DEF Owns
<1>6. QED
  BY <1>5 DEF Good, Given

\* close_fd frees the socket with its only descriptor.
LEMMA close_fdGood ==
  ASSUME NEW k, NEW p \in Procs, NEW i \in Fds, Good(k), OpenIn(k, p, i)
  PROVE  Good(close_fd(k, p, i))
<1> DEFINE s == k.fd[p][i].sock
           r == [k.sock[s] EXCEPT !.used = FALSE]
           e == [k.fd[p][i] EXCEPT !.used = FALSE]
           k2 == [k EXCEPT !.sock[s] = r, !.fd[p][i] = e]
<1>1. s \in Socks
  BY OpenHasSocket, Zenon DEF Good
<1>2. r \in SocketType
  BY ZenonT(30), <1>1, SockAt DEF Good, SocketType
<1>3. e \in [used: BOOLEAN, sock: 0..NSocks] /\ ~e.used
  <2>1. k.fd[p][i] \in [used: BOOLEAN, sock: 0..NSocks]
    BY DEF Good, KernelType, Tables
  <2>2. \A o \in [used: BOOLEAN, sock: 0..NSocks] :
          [o EXCEPT !.used = FALSE] \in [used: BOOLEAN, sock: 0..NSocks] /\ ~[o EXCEPT !.used = FALSE].used
    BY Zenon
  <2>3. QED
    BY <2>1, <2>2, Zenon
<1>4. close_fd(k, p, i) = k2
  BY DEF close_fd
<1> HIDE DEF r, e, s
<1>5. k2 \in KernelType
  <2>1. [k.fd EXCEPT ![p][i] = e] \in Tables
    BY <1>3 DEF Good, KernelType, Tables
  <2>2. [k.sock EXCEPT ![s] = r] \in [Socks -> SocketType]
    BY <1>1, <1>2 DEF Good, KernelType
  <2>3. \A f \in [Socks -> SocketType], g \in Tables : [k EXCEPT !.sock = f, !.fd = g] \in KernelType
    BY ZenonT(40) DEF Good, KernelType
  <2>4. QED
    BY <2>1, <2>2, <2>3, Zenon
<1>6. /\ \A q \in Procs, j \in Fds : k2.fd[q][j] = IF q = p /\ j = i THEN e ELSE k.fd[q][j]
      /\ \A t \in Socks : t # s => k2.sock[t] = k.sock[t]
  BY <1>1 DEF Good, KernelType, Tables
<1> HIDE DEF k2
<1>7. ASSUME NEW q \in Procs, NEW j \in Fds, OpenIn(k2, q, j)
      PROVE  /\ OpenIn(k, q, j) /\ k2.fd[q][j].sock = k.fd[q][j].sock
             /\ k2.sock[k2.fd[q][j].sock].used
  <2>1. ~(q = p /\ j = i)
    BY <1>3, <1>6, <1>7, Zenon DEF OpenIn
  <2>2. OpenIn(k, q, j) /\ k2.fd[q][j] = k.fd[q][j]
    BY <1>6, <1>7, <2>1, ZenonT(40) DEF OpenIn
  <2>3. k.fd[q][j].sock # s /\ k.fd[q][j].sock \in Socks /\ k.sock[k.fd[q][j].sock].used
    BY SMTT(30), Z3T(30), <2>1, <2>2, OpenHasSocket DEF Good, Owns, s
  <2>4. QED
    BY <1>6, <2>2, <2>3
<1>8. Owns(k2)
  BY <1>7 DEF Good, Owns
<1>9. QED
  BY <1>4, <1>5, <1>8, Zenon DEF Good

\* fds_close_exec closes the descriptors of one process and leaves the sockets of
\* the others in use.
LEMMA fds_close_execGood ==
  ASSUME NEW k, NEW p \in Procs, Good(k)
  PROVE  Good(fds_close_exec(k, p))
<1> DEFINE k2 == [k EXCEPT !.fd[p] = Closed]
<1>1. Closed \in [Fds -> [used: BOOLEAN, sock: 0..NSocks]] /\ \A i \in Fds : ~Closed[i].used
  BY Constants DEF Closed, None
<1>2. k2 \in KernelType
  BY <1>1, Zenon DEF Good, KernelType, Tables
<1>3. k2.sock = k.sock /\ \A q \in Procs : k2.fd[q] = IF q = p THEN Closed ELSE k.fd[q]
  BY DEF Good, KernelType, Tables
<1> HIDE DEF k2
<1>4. \A q \in Procs, j \in Fds : OpenIn(k2, q, j) => OpenIn(k, q, j) /\ k2.fd[q][j] = k.fd[q][j]
  BY ZenonT(40), <1>1, <1>3 DEF OpenIn
<1>5. Owns(k2)
  BY SMTT(30), Z3T(30), <1>3, <1>4 DEF Good, Owns
<1>6. QED
  BY <1>2, <1>5 DEF Good, k2, fds_close_exec
-----------------------------------------------------------------------------
(* Each call does one of them. *)

\* Changing one socket, but not its mark, keeps both tables.
LEMMA PutKept ==
  ASSUME NEW k \in KernelType, NEW s \in Socks, NEW r \in SocketType, r.used = k.sock[s].used
  PROVE  Kept(k, [k EXCEPT !.sock[s] = r])
  BY PutKeeps DEF Kept

\* Two changes that keep the descriptors keep them together.
LEMMA KeptTransitive ==
  ASSUME NEW k, NEW k2, NEW k3, Kept(k, k2), Kept(k2, k3)
  PROVE  Kept(k, k3)
  BY DEF Kept

\* No change keeps the descriptors.
LEMMA SameKept ==
  ASSUME NEW k \in KernelType
  PROVE  Kept(k, k)
  BY DEF Kept

\* bind sets a path.
LEMMA bindKept ==
  ASSUME NEW k \in KernelType, NEW s \in Socks, NEW path \in Nat
  PROVE  Kept(k, [k EXCEPT !.sock[s].path = path])
<1> DEFINE r == [k.sock[s] EXCEPT !.path = path]
<1>1. r \in SocketType /\ r.used = k.sock[s].used
  BY SockAt DEF SocketType
<1>2. [k EXCEPT !.sock[s].path = path] = [k EXCEPT !.sock[s] = r]
  OBVIOUS
<1> HIDE DEF r
<1>3. QED
  BY <1>1, <1>2, PutKept, Zenon

\* listen sets a mark that is not the mark of use.
LEMMA listenKept ==
  ASSUME NEW k \in KernelType, NEW s \in Socks
  PROVE  Kept(k, [k EXCEPT !.sock[s].listening = TRUE])
<1> DEFINE r == [k.sock[s] EXCEPT !.listening = TRUE]
<1>1. r \in SocketType /\ r.used = k.sock[s].used
  BY SockAt, Zenon DEF SocketType
<1>2. [k EXCEPT !.sock[s].listening = TRUE] = [k EXCEPT !.sock[s] = r]
  OBVIOUS
<1> HIDE DEF r
<1>3. QED
  BY <1>1, <1>2, PutKept

\* connect and accept set a peer.
LEMMA PeerKept ==
  ASSUME NEW k \in KernelType, NEW s \in Socks, NEW peer \in 0..NSocks
  PROVE  Kept(k, [k EXCEPT !.sock[s].peer = peer])
<1> DEFINE r == [k.sock[s] EXCEPT !.peer = peer]
<1>1. r \in SocketType /\ r.used = k.sock[s].used
  BY SockAt DEF SocketType
<1>2. [k EXCEPT !.sock[s].peer = peer] = [k EXCEPT !.sock[s] = r]
  OBVIOUS
<1> HIDE DEF r
<1>3. QED
  BY <1>1, <1>2, PutKept

\* A queue of pending connections may change.
LEMMA PendingKept ==
  ASSUME NEW k \in KernelType, NEW s \in Socks, NEW q \in Queues
  PROVE  Kept(k, [k EXCEPT !.sock[s].pending = q])
<1> DEFINE r == [k.sock[s] EXCEPT !.pending = q]
<1>1. r \in SocketType /\ r.used = k.sock[s].used
  BY SockAt DEF SocketType
<1>2. [k EXCEPT !.sock[s].pending = q] = [k EXCEPT !.sock[s] = r]
  OBVIOUS
<1> HIDE DEF r
<1>3. QED
  BY <1>1, <1>2, PutKept

\* A buffer may change.
LEMMA BufKept ==
  ASSUME NEW k \in KernelType, NEW s \in Socks, NEW b \in Buffers
  PROVE  Kept(k, [k EXCEPT !.sock[s].buf = b])
<1> DEFINE r == [k.sock[s] EXCEPT !.buf = b]
<1>1. r \in SocketType /\ r.used = k.sock[s].used
  BY SockAt DEF SocketType
<1>2. [k EXCEPT !.sock[s].buf = b] = [k EXCEPT !.sock[s] = r]
  OBVIOUS
<1> HIDE DEF r
<1>3. QED
  BY <1>1, <1>2, PutKept, Zenon

\* A write into a socket changes its buffer at most.
LEMMA sock_pushKept ==
  ASSUME NEW k \in KernelType, NEW s \in 0..NSocks, NEW from \in Socks
  PROVE  Kept(k, sock_push(k, s, from))
<1>1. CASE sock_push(k, s, from) = k
  BY <1>1, SameKept
<1>2. CASE sock_push(k, s, from) # k
  <2>1. s \in Socks
    BY <1>2, Constants DEF sock_push, Socks, None
  <2>2. k.sock[s].buf \in Buffers /\ k.sock[from].id \in Nat
    BY <2>1, SockAt DEF SocketType
  <2>3. Append(k.sock[s].buf, k.sock[from].id) \in Buffers
    BY <2>2 DEF Buffers
  <2> DEFINE b == Append(k.sock[s].buf, k.sock[from].id)
  <2>4. sock_push(k, s, from) = [k EXCEPT !.sock[s].buf = b]
    BY <1>2 DEF sock_push
  <2>5. b \in Buffers
    BY <2>3
  <2> HIDE DEF b
  <2>6. QED
    BY <2>1, <2>4, <2>5, BufKept
<1>3. QED
  BY <1>1, <1>2

\* A read from a socket changes its buffer at most.
LEMMA sock_popKept ==
  ASSUME NEW k \in KernelType, NEW s \in Socks
  PROVE  Kept(k, sock_pop(k, s))
<1>1. CASE sock_pop(k, s) = k
  BY <1>1, SameKept
<1>2. CASE sock_pop(k, s) # k
  <2>1. k.sock[s].buf \in Buffers /\ k.sock[s].buf # <<>>
    BY <1>2, SockAt DEF SocketType, sock_pop
  <2>2. Tail(k.sock[s].buf) \in Buffers
    BY <2>1 DEF Buffers
  <2> DEFINE b == Tail(k.sock[s].buf)
  <2>3. sock_pop(k, s) = [k EXCEPT !.sock[s].buf = b] /\ b \in Buffers
    BY <1>2, <2>2 DEF sock_pop
  <2> HIDE DEF b
  <2>4. QED
    BY <2>3, BufKept
<1>3. QED
  BY <1>1, <1>2

\* connect links two sockets in use and queues one of them.
LEMMA connectKept ==
  ASSUME NEW k \in KernelType, NEW s \in Socks, NEW path
  PROVE  Kept(k, connect(k, s, path))
<1> DEFINE srv == sock_by_path(k, path)
           k1 == [k EXCEPT !.sock[s].peer = srv]
           q == Append(k1.sock[srv].pending, [at |-> s, id |-> k.sock[s].id])
           k2 == [k1 EXCEPT !.sock[srv].pending = q]
           k3 == Mate(k2, s, k.sock[srv].id)
           k4 == Mate(k3, srv, k.sock[s].id)
<1>1. CASE connect(k, s, path) = k
  BY <1>1, SameKept, Zenon
<1>2. CASE connect(k, s, path) # k
  <2>1. srv \in Socks
    BY <1>2, ByPath DEF connect
  <2>2. srv \in 0..NSocks
    BY <2>1, Constants DEF Socks
  <2>3. connect(k, s, path) = k4
    BY <1>2, Zenon DEF connect
  <2> HIDE DEF srv
  <2>4. Kept(k, k1)
    BY <2>2, PeerKept
  <2> HIDE DEF k1
  <2>5. q \in Queues
    <3>1. k1.sock[srv].pending \in Queues /\ k.sock[s].id \in Nat
      BY <2>1, <2>4, SockAt DEF Kept, SocketType
    <3>2. QED
      BY <3>1 DEF Queues
  <2> HIDE DEF q
  <2>6. Kept(k1, k2)
    BY <2>1, <2>4, <2>5, PendingKept DEF Kept
  <2> HIDE DEF k2
  <2>7. k.sock[s].id \in Nat /\ k.sock[srv].id \in Nat
    BY <2>1, SockAt, Zenon DEF SocketType
  <2>8. Kept(k2, k3)
    BY <2>6, <2>7, MateKeeps, Zenon DEF Kept
  <2> HIDE DEF k3
  <2>9. Kept(k3, k4)
    BY <2>1, <2>7, <2>8, MateKeeps, ZenonT(40) DEF Kept
  <2> HIDE DEF k4
  <2>10. QED
    BY <2>3, <2>4, <2>6, <2>8, <2>9, KeptTransitive
<1>3. QED
  BY <1>1, <1>2, Zenon

\* A free descriptor opened on a socket just made from a free index.
LEMMA InstallGives ==
  ASSUME NEW k \in KernelType, NEW p \in Procs, NEW i \in Fds, NEW s \in Socks,
         ~k.fd[p][i].used, ~k.sock[s].used,
         NEW made2 \in KernelType, made2.fd = k.fd,
         \A t \in Socks : made2.sock[t].used <=> (t = s \/ k.sock[t].used)
  PROVE  Given(k, Install(made2, p, i, s), p, i, s)
<1> DEFINE e == [used |-> TRUE, sock |-> s]
<1>1. [made2.fd EXCEPT ![p][i] = e] \in Tables
  <2>1. e \in [used: BOOLEAN, sock: 0..NSocks]
    BY Constants DEF Socks
  <2>2. QED
    BY <2>1, Zenon DEF KernelType, Tables
<1>2. Install(made2, p, i, s) = [made2 EXCEPT !.fd = [made2.fd EXCEPT ![p][i] = e]]
  BY DEF Install, KernelType
<1> HIDE DEF e
<1>3. \A g \in Tables : [made2 EXCEPT !.fd = g] \in KernelType
  BY DEF KernelType
<1>4. Install(made2, p, i, s) \in KernelType
  BY <1>1, <1>2, <1>3, Zenon
<1>5. /\ Install(made2, p, i, s).fd = [k.fd EXCEPT ![p][i] = e]
      /\ Install(made2, p, i, s).sock = made2.sock
  BY <1>2 DEF KernelType
<1>6. QED
  BY <1>4, <1>5 DEF Given, e

\* SYS_socket gives a free socket to a free descriptor, or fails.
LEMMA socketGood ==
  ASSUME NEW k, NEW p \in Procs, Good(k)
  PROVE  Good(socket(k, p))
<1> DEFINE s == sock_alloc(k)
           i == alloc_fd(k, p)
<1>1. CASE s = None \/ i = None
  BY <1>1, Zenon DEF socket
<1>2. CASE ~(s = None \/ i = None)
  <2>1. s \in Socks /\ ~k.sock[s].used /\ i \in Fds /\ ~k.fd[p][i].used
    BY <1>2, Allocated, Zenon
  <2>2. socket(k, p) = Install(Fresh(k, s, None), p, i, s)
    BY <1>2 DEF socket
  <2> HIDE DEF s, i
  <2>3. None \in 0..NSocks
    BY Constants DEF None
  <2>4. /\ Fresh(k, s, None) \in KernelType
        /\ Fresh(k, s, None).fd = k.fd
        /\ \A t \in Socks : Fresh(k, s, None).sock[t].used <=> (t = s \/ k.sock[t].used)
    BY <2>1, <2>3, FreshMakes, Zenon DEF Good
  <2>5. Given(k, socket(k, p), p, i, s)
    BY <2>1, <2>2, <2>4, InstallGives DEF Good
  <2>6. QED
    BY <2>1, <2>5, GivenGood, Zenon
<1>3. QED
  BY <1>1, <1>2, Zenon

\* The first of a queue and the rest of it have its types.
LEMMA HeadTail ==
  ASSUME NEW T, NEW q \in Seq(T), q # <<>>
  PROVE  Head(q) \in T /\ Tail(q) \in Seq(T)
  OBVIOUS

\* SYS_accept gives a free socket to a free descriptor and links it with the
\* client, or fails.
LEMMA acceptGood ==
  ASSUME NEW k, NEW p \in Procs, NEW i \in Fds, Good(k), OpenIn(k, p, i),
         k.sock[k.fd[p][i].sock].pending # <<>>
  PROVE  Good(accept(k, p, i))
<1> DEFINE s == k.fd[p][i].sock
           cli == Head(k.sock[s].pending)
           nfd == alloc_fd(k, p)
           ns == sock_alloc(k)
           popped == [k EXCEPT !.sock[s].pending = Tail(k.sock[s].pending)]
           made1 == Fresh(k, ns, cli.at)
           new == [made1 EXCEPT !.sock[s].pending = Tail(made1.sock[s].pending)]
           peered == [new EXCEPT !.sock[cli.at].peer = ns]
           told == Install(peered, p, nfd, ns)
           mated == Mate(told, ns, cli.id)
<1>1. k \in KernelType /\ s \in Socks /\ k.sock[s].used
  BY OpenHasSocket, ZenonT(40) DEF Good, Owns
<1>2. k.sock[s].pending \in Queues /\ k.sock[s].pending # <<>>
  BY <1>1, SockAt DEF SocketType
<1>3. cli.at \in Socks /\ cli.id \in Nat /\ Tail(k.sock[s].pending) \in Queues
  <2>1. \A q \in Queues : q # <<>> => Head(q) \in [at: Socks, id: Nat] /\ Tail(q) \in Queues
    BY HeadTail, Zenon DEF Queues
  <2>2. cli \in [at: Socks, id: Nat] /\ Tail(k.sock[s].pending) \in Queues
    BY <1>2, <2>1, Zenon
  <2> HIDE DEF cli
  <2>3. QED
    BY <2>2, Zenon
<1>4. CASE nfd = None \/ ns = None
  <2>1. accept(k, p, i) = popped
    BY <1>4, Zenon DEF accept
  <2> DEFINE q == Tail(k.sock[s].pending)
  <2>2. popped = [k EXCEPT !.sock[s].pending = q] /\ q \in Queues
    BY <1>3, Zenon
  <2> HIDE DEF q
  <2>3. Kept(k, popped)
    BY <1>1, <2>2, PendingKept, Zenon
  <2>4. QED
    BY <2>1, <2>3, KeptGood, Zenon
<1>5. CASE ~(nfd = None \/ ns = None)
  <2>1. ns \in Socks /\ ~k.sock[ns].used /\ nfd \in Fds /\ ~k.fd[p][nfd].used
    BY <1>5, Allocated, Zenon
  <2>2. accept(k, p, i) = IF new.sock[cli.at].id = cli.id THEN Mate(mated, cli.at, new.sock[ns].id) ELSE mated
    BY <1>5, Zenon DEF accept
  <2>3. s # ns
    BY <1>1, <2>1, Zenon
  <2> HIDE DEF s, cli, nfd, ns
  <2>4. cli.at \in 0..NSocks /\ ns \in 0..NSocks
    BY <1>3, <2>1, Constants DEF Socks
  <2>5. /\ made1 \in KernelType
        /\ made1.fd = k.fd
        /\ \A t \in Socks : made1.sock[t].used <=> (t = ns \/ k.sock[t].used)
    BY ZenonT(40), <1>1, <2>1, <2>4, FreshMakes
  <2>6. made1.sock[s] = k.sock[s]
    BY <1>1, <2>1, <2>3 DEF Fresh, KernelType
  <2> HIDE DEF made1
  <2> DEFINE q == Tail(made1.sock[s].pending)
  <2>7. new = [made1 EXCEPT !.sock[s].pending = q] /\ q \in Queues
    BY <1>3, <2>6, ZenonT(40)
  <2> HIDE DEF q
  <2>8. Kept(made1, new)
    BY ZenonT(40), <1>1, <2>5, <2>7, PendingKept
  <2> HIDE DEF new
  <2>9. Kept(new, peered)
    BY <1>3, <2>4, <2>8, PeerKept DEF Kept
  <2> HIDE DEF peered
  <2>10. Kept(made1, peered)
    BY ZenonT(40), <2>8, <2>9, KeptTransitive
  <2>11. Given(k, told, p, nfd, ns)
    BY SMTT(30), Z3T(30), <1>1, <2>1, <2>5, <2>10, InstallGives DEF Kept
  <2> HIDE DEF told
  <2>12. Good(told)
    BY <2>1, <2>11, GivenGood, Zenon
  <2>13. Kept(told, mated)
    BY <1>3, <2>1, <2>12, MateKeeps DEF Good
  <2> HIDE DEF mated
  <2>14. Good(mated)
    BY <2>12, <2>13, KeptGood, Zenon
  <2>15. Kept(mated, Mate(mated, cli.at, new.sock[ns].id))
    <3>1. new.sock[ns].id \in Nat
      BY <2>1, <2>8, SockAt, Zenon DEF Kept, SocketType
    <3>2. QED
      BY <1>3, <2>14, <3>1, MateKeeps, Zenon DEF Good
  <2>16. Good(Mate(mated, cli.at, new.sock[ns].id))
    BY <2>14, <2>15, KeptGood, Zenon
  <2>17. QED
    BY <2>2, <2>14, <2>16, Zenon
<1>6. QED
  BY <1>4, <1>5, Zenon
-----------------------------------------------------------------------------
(* Who knows whom.  While no index named by another socket was given out    *)
(* (reused), a socket in use has in its buffer only ids of its mates, is a   *)
(* mate of its peer, and its queue names the sockets that queued.            *)

Entries(q) == {q[i] : i \in DOMAIN q}

KnownTo(k, s) ==
    /\ Entries(k.sock[s].buf) \subseteq k.sock[s].mates
    /\ \A t \in Socks : (k.sock[t].used /\ k.sock[s].peer = t) => k.sock[s].id \in k.sock[t].mates
    /\ \A e \in Entries(k.sock[s].pending) : k.sock[e.at].used => k.sock[e.at].id = e.id

Acquainted(k) == ~k.reused => \A s \in Socks : k.sock[s].used => KnownTo(k, s)

\* Whoever is in the queue q of s is there once, names s, and is not named by s.
Waiting(k, s, q) ==
    \A i \in DOMAIN q :
        /\ k.sock[q[i].at].used => k.sock[q[i].at].peer = s /\ k.sock[s].peer # q[i].at
        /\ \A j \in DOMAIN q : q[j].at = q[i].at => i = j

\* Whom s names as its peer names s, unless it listens; only a listener has a
\* queue.
Paired(k, s) ==
    /\ \A t \in Socks :
         (k.sock[t].used /\ ~k.sock[t].listening /\ k.sock[s].peer = t) => k.sock[t].peer = s
    /\ k.sock[s].pending # <<>> => k.sock[s].listening
    /\ Waiting(k, s, k.sock[s].pending)

Mutual(k) == ~k.reused => \A s \in Socks : k.sock[s].used => Paired(k, s)

\* A longer queue has one more entry, at its end.
LEMMA Appended ==
  ASSUME NEW T, NEW q \in Seq(T), NEW e \in T
  PROVE  /\ \A i \in DOMAIN Append(q, e) :
              \/ i \in DOMAIN q /\ Append(q, e)[i] = q[i]
              \/ i = Len(q) + 1 /\ Append(q, e)[i] = e
         /\ Entries(Append(q, e)) \subseteq Entries(q) \cup {e}
<1>1. \A i \in DOMAIN Append(q, e) :
        \/ i \in DOMAIN q /\ Append(q, e)[i] = q[i]
        \/ i = Len(q) + 1 /\ Append(q, e)[i] = e
  OBVIOUS
<1>2. QED
  BY <1>1, Zenon DEF Entries

\* A queue without its first entry has the other ones, one place earlier.
LEMMA Shortened ==
  ASSUME NEW T, NEW q \in Seq(T), q # <<>>
  PROVE  /\ 1 \in DOMAIN q /\ Head(q) = q[1] /\ Head(q) \in Entries(q)
         /\ \A i \in DOMAIN Tail(q) :
              i \in Nat \ {0} /\ i + 1 \in DOMAIN q /\ Tail(q)[i] = q[i + 1]
         /\ Entries(Tail(q)) \subseteq Entries(q)
<1>1. 1 \in DOMAIN q /\ Head(q) = q[1]
  OBVIOUS
<1>2. \A i \in DOMAIN Tail(q) :
        i \in Nat \ {0} /\ i + 1 \in DOMAIN q /\ Tail(q)[i] = q[i + 1]
  OBVIOUS
<1>3. Head(q) \in Entries(q)
  BY <1>1, Zenon DEF Entries
<1>4. ASSUME NEW e \in Entries(Tail(q)) PROVE e \in Entries(q)
  <2>1. PICK i \in DOMAIN Tail(q) : e = Tail(q)[i]
    BY <1>4, Zenon DEF Entries
  <2>2. QED
    BY <1>2, <2>1, Zenon DEF Entries
<1>5. QED
  BY <1>1, <1>2, <1>3, <1>4, Zenon

\* The entries of a queue have its type.
LEMMA EntryType ==
  ASSUME NEW T, NEW q \in Seq(T), NEW e \in Entries(q)
  PROVE  e \in T
  BY DEF Entries

\* Nobody in use names a socket that is not held.
LEMMA NotHeld ==
  ASSUME NEW k, NEW n \in Socks, ~Held(k, n), NEW s \in Socks, s # n, k.sock[s].used
  PROVE  /\ k.sock[s].peer # n
         /\ \A i \in DOMAIN k.sock[s].pending : k.sock[s].pending[i].at # n
         /\ \A e \in Entries(k.sock[s].pending) : e.at # n
  BY ZenonT(40) DEF Held, Entries

\* From k to k2 the sockets in N are made anew, from indices nobody holds, and
\* the others keep their ids, lose no mate, and gain no byte, peer or queue entry
\* but from a socket they know.
Carries(k, k2, N) ==
    /\ k \in KernelType /\ k2 \in KernelType
    /\ k.reused => k2.reused
    /\ \A n \in N : n \in Socks /\ ~k.sock[n].used /\ (~k2.reused => ~Held(k, n) /\ KnownTo(k2, n))
    /\ \A s \in Socks \ N : k2.sock[s].used =>
         /\ k.sock[s].used /\ k2.sock[s].id = k.sock[s].id
         /\ k.sock[s].mates \subseteq k2.sock[s].mates
         /\ Entries(k2.sock[s].buf) \subseteq Entries(k.sock[s].buf) \cup k2.sock[s].mates
         /\ \A t \in Socks : (k2.sock[t].used /\ k2.sock[s].peer = t /\ k.sock[s].peer # t) =>
              k2.sock[s].id \in k2.sock[t].mates
         /\ \A e \in Entries(k2.sock[s].pending) \ Entries(k.sock[s].pending) :
              k2.sock[e.at].used => k2.sock[e.at].id = e.id

\* An entry of a queue is of a socket.
LEMMA EntryAt ==
  ASSUME NEW k \in KernelType, NEW s \in Socks, NEW e \in Entries(k.sock[s].pending)
  PROVE  e.at \in Socks /\ e.id \in Nat
<1>1. k.sock[s].pending \in Seq([at: Socks, id: Nat])
  BY ZenonT(40), SockAt DEF SocketType, Queues
<1>2. e \in [at: Socks, id: Nat]
  BY <1>1, EntryType, Zenon
<1>3. QED
  BY <1>2

\* Such a change keeps everybody acquainted.
LEMMA CarriesOn ==
  ASSUME NEW k, NEW k2, NEW N, Acquainted(k), Carries(k, k2, N)
  PROVE  Acquainted(k2)
<1>1. SUFFICES ASSUME ~k2.reused, NEW s \in Socks, k2.sock[s].used, s \notin N
               PROVE  KnownTo(k2, s)
  BY ZenonT(40) DEF Acquainted, Carries
<1>2. k.sock[s].used /\ KnownTo(k, s) /\ k \in KernelType /\ k2 \in KernelType
  BY <1>1, Zenon DEF Acquainted, Carries
<1>3. \A t \in Socks \ N : k2.sock[t].used =>
        k.sock[t].used /\ k2.sock[t].id = k.sock[t].id /\ k.sock[t].mates \subseteq k2.sock[t].mates
  BY ZenonT(40) DEF Carries
<1>4. \A n \in N : k.sock[s].peer # n /\ \A e \in Entries(k.sock[s].pending) : e.at # n
  BY <1>1, <1>2, NotHeld, ZenonT(40) DEF Carries
<1>5. Entries(k2.sock[s].buf) \subseteq k2.sock[s].mates
  <2>1. Entries(k2.sock[s].buf) \subseteq Entries(k.sock[s].buf) \cup k2.sock[s].mates
    BY <1>1, Zenon DEF Carries
  <2>2. QED
    BY <1>1, <1>2, <1>3, <2>1, Zenon DEF KnownTo
<1>6. ASSUME NEW t \in Socks, k2.sock[t].used, k2.sock[s].peer = t
      PROVE  k2.sock[s].id \in k2.sock[t].mates
  <2>1. CASE k.sock[s].peer # t
    BY <1>1, <1>6, <2>1, Zenon DEF Carries
  <2>2. CASE k.sock[s].peer = t
    <3>1. t \notin N
      BY <1>4, <2>2, Zenon
    <3>2. k.sock[t].used /\ k.sock[s].id \in k.sock[t].mates
      BY <1>2, <1>3, <1>6, <2>2, <3>1, Zenon DEF KnownTo
    <3>3. QED
      BY <1>1, <1>3, <1>6, <3>1, <3>2, Zenon
  <2>3. QED
    BY <2>1, <2>2, Zenon
<1>7. ASSUME NEW e \in Entries(k2.sock[s].pending), k2.sock[e.at].used
      PROVE  k2.sock[e.at].id = e.id
  <2>1. CASE e \notin Entries(k.sock[s].pending)
    BY <1>1, <1>7, <2>1, Zenon DEF Carries
  <2>2. CASE e \in Entries(k.sock[s].pending)
    <3>1. e.at \in Socks \ N
      BY <1>2, <1>4, <2>2, EntryAt, Zenon
    <3>2. k.sock[e.at].used /\ k2.sock[e.at].id = k.sock[e.at].id
      BY <1>3, <1>7, <3>1, Zenon
    <3>3. QED
      BY <1>2, <2>2, <3>2, Zenon DEF KnownTo
  <2>3. QED
    BY <2>1, <2>2, Zenon
<1>8. QED
  BY <1>5, <1>6, <1>7, Zenon DEF KnownTo
-----------------------------------------------------------------------------
(* What each call does to the sockets. *)

\* The calls that link nobody: marks of use may go and listeners may come, a
\* queue may lose its first entry.  Buffers are looked at apart.
Steady(k, k2) ==
    /\ k \in KernelType /\ k2 \in KernelType /\ k2.reused = k.reused
    /\ \A t \in Socks :
         /\ k2.sock[t].used => k.sock[t].used
         /\ k.sock[t].listening => k2.sock[t].listening
         /\ k2.sock[t].id = k.sock[t].id /\ k2.sock[t].mates = k.sock[t].mates
         /\ k2.sock[t].peer = k.sock[t].peer
         /\ \/ k2.sock[t].pending = k.sock[t].pending
            \/ k.sock[t].pending # <<>> /\ k2.sock[t].pending = Tail(k.sock[t].pending)

\* No buffer gains a byte.
NoneSent(k, k2) == \A t \in Socks : Entries(k2.sock[t].buf) \subseteq Entries(k.sock[t].buf)

\* A byte of s went to its peer.
Sent(k, k2, s) ==
    /\ k.sock[s].used
    /\ \A t \in Socks : \/ Entries(k2.sock[t].buf) \subseteq Entries(k.sock[t].buf)
                        \/ /\ k.sock[s].peer = t /\ k.sock[t].used
                           /\ Entries(k2.sock[t].buf) \subseteq Entries(k.sock[t].buf) \cup {k.sock[s].id}

\* The queue of a socket, and a shorter one.
LEMMA QueueAt ==
  ASSUME NEW k \in KernelType, NEW s \in Socks
  PROVE  k.sock[s].pending \in Seq([at: Socks, id: Nat])
  BY ZenonT(40), SockAt DEF SocketType, Queues

\* What links nobody and sends to no stranger leaves all acquainted.
LEMMA SteadyAcquainted ==
  ASSUME NEW k, NEW k2, Acquainted(k), Steady(k, k2),
         NoneSent(k, k2) \/ \E s \in Socks : Sent(k, k2, s)
  PROVE  Acquainted(k2)
<1>1. CASE k.reused
  BY <1>1, Zenon DEF Acquainted, Steady
<1>2. CASE ~k.reused
  <2>1. ASSUME NEW t \in Socks, k2.sock[t].used
        PROVE  Entries(k2.sock[t].buf) \subseteq Entries(k.sock[t].buf) \cup k2.sock[t].mates
    <3>1. CASE NoneSent(k, k2)
      BY <3>1, Zenon DEF NoneSent
    <3>2. ASSUME NEW s \in Socks, Sent(k, k2, s), k.sock[s].peer = t, k.sock[t].used
          PROVE  k.sock[s].id \in k2.sock[t].mates
      <4>1. KnownTo(k, s)
        BY <1>2, <3>2, Zenon DEF Acquainted, Sent
      <4>2. k.sock[s].id \in k.sock[t].mates
        BY <3>2, <4>1, Zenon DEF KnownTo
      <4>3. QED
        BY <4>2, Zenon DEF Steady
    <3>3. ASSUME NEW s \in Socks, Sent(k, k2, s)
          PROVE  Entries(k2.sock[t].buf) \subseteq Entries(k.sock[t].buf) \cup k2.sock[t].mates
      <4>1. CASE Entries(k2.sock[t].buf) \subseteq Entries(k.sock[t].buf)
        BY <4>1, Zenon
      <4>2. CASE /\ k.sock[s].peer = t /\ k.sock[t].used
                 /\ Entries(k2.sock[t].buf) \subseteq Entries(k.sock[t].buf) \cup {k.sock[s].id}
        BY <3>2, <3>3, <4>2, Zenon
      <4>3. QED
        BY <3>3, <4>1, <4>2, Zenon DEF Sent
    <3>4. QED
      BY <3>1, <3>3, Zenon
  <2>2. \A t \in Socks : Entries(k2.sock[t].pending) \subseteq Entries(k.sock[t].pending)
    BY QueueAt, Shortened, Zenon DEF Steady
  <2>3. Carries(k, k2, {})
    BY <2>1, <2>2, Zenon DEF Carries, Steady
  <2>4. QED
    BY <2>3, CarriesOn, Zenon
<1>3. QED
  BY <1>1, <1>2, Zenon

\* A queue that loses its first entry keeps the others waiting.
LEMMA TailWaits ==
  ASSUME NEW k, NEW s, NEW T, NEW q \in Seq(T), q # <<>>, Waiting(k, s, q)
  PROVE  Waiting(k, s, Tail(q))
<1>1. PICK r : r = Tail(q)
  BY Zenon
<1>2. \A i \in DOMAIN r : i \in Nat \ {0} /\ i + 1 \in DOMAIN q /\ r[i] = q[i + 1]
  BY <1>1, Shortened, Zenon
<1>3. ASSUME NEW i \in DOMAIN r
      PROVE  k.sock[r[i].at].used => k.sock[r[i].at].peer = s /\ k.sock[s].peer # r[i].at
  <2>1. PICK m \in DOMAIN q : r[i] = q[m]
    BY <1>2, Zenon
  <2>2. QED
    BY <2>1, Zenon DEF Waiting
<1>4. ASSUME NEW i \in DOMAIN r, NEW j \in DOMAIN r, r[j].at = r[i].at PROVE i = j
  <2>1. i + 1 = j + 1
    <3>1. PICK m \in DOMAIN q, n \in DOMAIN q : m = i + 1 /\ n = j + 1 /\ r[i] = q[m] /\ r[j] = q[n]
      BY <1>2, Zenon
    <3>2. n = m
      BY <1>4, <3>1, Zenon DEF Waiting
    <3>3. QED
      BY <3>1, <3>2, Zenon
  <2>2. i \in Nat /\ j \in Nat
    BY <1>2, Zenon
  <2>3. QED
    BY <2>1, <2>2
<1>5. QED
  BY <1>1, <1>3, <1>4, Zenon DEF Waiting

\* An entry of a queue, by its place.
LEMMA PlaceAt ==
  ASSUME NEW k \in KernelType, NEW s \in Socks, NEW i \in DOMAIN k.sock[s].pending
  PROVE  k.sock[s].pending[i].at \in Socks /\ k.sock[s].pending[i] \in Entries(k.sock[s].pending)
  BY EntryAt, Zenon DEF Entries

\* Paired survives a change that links nobody.
LEMMA SteadyMutual ==
  ASSUME NEW k, NEW k2, Mutual(k), Steady(k, k2)
  PROVE  Mutual(k2)
<1>1. SUFFICES ASSUME ~k2.reused, NEW s \in Socks, k2.sock[s].used
               PROVE  Paired(k2, s)
  BY ZenonT(40) DEF Mutual
<1>2. k.sock[s].used /\ Paired(k, s) /\ k \in KernelType
  BY <1>1, Zenon DEF Mutual, Steady
<1>3. \A t \in Socks :
        /\ k2.sock[t].used => k.sock[t].used
        /\ k.sock[t].listening => k2.sock[t].listening
        /\ k2.sock[t].peer = k.sock[t].peer
  BY ZenonT(40) DEF Steady
<1>4. \A t \in Socks :
        (k2.sock[t].used /\ ~k2.sock[t].listening /\ k2.sock[s].peer = t) => k2.sock[t].peer = s
  BY <1>2, <1>3, Zenon DEF Paired
<1>5. PICK q : q = k.sock[s].pending
  BY Zenon
<1>6. \A i \in DOMAIN q : q[i].at \in Socks
  BY <1>2, <1>5, PlaceAt, Zenon
<1>7. Waiting(k, s, q)
  BY <1>2, <1>5, Zenon DEF Paired
<1>8. Waiting(k2, s, q)
  BY <1>3, <1>6, <1>7, Zenon DEF Waiting
<1>9. k2.sock[s].pending = q \/ (q # <<>> /\ k2.sock[s].pending = Tail(q))
  BY <1>5, Zenon DEF Steady
<1>10. Waiting(k2, s, k2.sock[s].pending)
  BY <1>2, <1>5, <1>8, <1>9, QueueAt, TailWaits, Zenon
<1>11. k2.sock[s].pending # <<>> => k2.sock[s].listening
  BY <1>2, <1>3, <1>5, <1>9, Zenon DEF Paired
<1>12. QED
  BY <1>4, <1>10, <1>11, Zenon DEF Paired

\* SYS_socket: the index n, free before, is a socket with no peer and no queue.
Opened(k, k2, n) ==
    /\ k \in KernelType /\ k2 \in KernelType /\ n \in Socks /\ ~k.sock[n].used
    /\ k2.reused = (k.reused \/ Held(k, n))
    /\ k2.sock[n].peer = None /\ k2.sock[n].pending = <<>> /\ k2.sock[n].buf = <<>>
    /\ \A t \in Socks \ {n} : k2.sock[t] = k.sock[t]

\* An empty queue has no entry.
LEMMA NoEntries == Entries(<<>>) = {}
  BY DEF Entries

\* A new socket is no peer of anybody yet.
LEMMA OpenedAcquainted ==
  ASSUME NEW k, NEW k2, NEW n, Acquainted(k), Opened(k, k2, n)
  PROVE  Acquainted(k2)
<1>1. \A t \in Socks : t # None
  BY Constants DEF Socks, None
<1>2. KnownTo(k2, n)
  BY <1>1, NoEntries, Zenon DEF KnownTo, Opened
<1>3. Carries(k, k2, {n})
  BY <1>2, Zenon DEF Carries, Opened
<1>4. QED
  BY <1>3, CarriesOn, Zenon

\* A new socket pairs with nobody yet.
LEMMA OpenedMutual ==
  ASSUME NEW k, NEW k2, NEW n, Mutual(k), Opened(k, k2, n)
  PROVE  Mutual(k2)
<1>1. SUFFICES ASSUME ~k2.reused, NEW s \in Socks, k2.sock[s].used
               PROVE  Paired(k2, s)
  BY ZenonT(40) DEF Mutual
<1>2. ~k.reused /\ ~Held(k, n) /\ n \in Socks /\ k \in KernelType
  BY <1>1, Zenon DEF Opened
<1>3. CASE s = n
  <2>1. \A t \in Socks : t # None
    BY Constants DEF Socks, None
  <2>2. Waiting(k2, n, <<>>)
    BY DEF Waiting
  <2>3. QED
    BY <1>3, <2>1, <2>2, Zenon DEF Paired, Opened
<1>4. CASE s # n
  <2>1. k2.sock[s] = k.sock[s] /\ \A t \in Socks \ {n} : k2.sock[t] = k.sock[t]
    BY <1>4, Zenon DEF Opened
  <2>2. k.sock[s].used /\ Paired(k, s)
    BY <1>1, <1>2, <2>1, Zenon DEF Mutual
  <2>3. k.sock[s].peer # n /\ \A i \in DOMAIN k.sock[s].pending : k.sock[s].pending[i].at # n
    BY <1>2, <1>4, <2>2, NotHeld, Zenon
  <2>4. \A i \in DOMAIN k.sock[s].pending : k.sock[s].pending[i].at \in Socks \ {n}
    BY <1>2, <2>3, PlaceAt, Zenon
  <2>5. Waiting(k2, s, k.sock[s].pending)
    <3>1. PICK q : q = k.sock[s].pending
      BY Zenon
    <3>2. Waiting(k, s, q) /\ \A i \in DOMAIN q : q[i].at \in Socks \ {n}
      BY <2>2, <2>4, <3>1, Zenon DEF Paired
    <3>3. Waiting(k2, s, q)
      BY <2>1, <3>2, Zenon DEF Waiting
    <3>4. QED
      BY <3>1, <3>3, Zenon
  <2>6. QED
    BY <2>1, <2>2, <2>3, <2>5, Zenon DEF Paired
<1>5. QED
  BY <1>3, <1>4, Zenon

\* SYS_connect: s names the listener srv, is queued there, and the two are mates.
Connected(k, k2, s, srv) ==
    /\ k \in KernelType /\ k2 \in KernelType /\ k2.reused = k.reused
    /\ s \in Socks /\ srv \in Socks /\ k.sock[s].used /\ k.sock[srv].used /\ k.sock[srv].listening
    /\ \A t \in Socks :
         /\ k2.sock[t].used = k.sock[t].used /\ k2.sock[t].listening = k.sock[t].listening
         /\ k2.sock[t].id = k.sock[t].id /\ k2.sock[t].buf = k.sock[t].buf
         /\ k.sock[t].mates \subseteq k2.sock[t].mates
         /\ k2.sock[t].peer = IF t = s THEN srv ELSE k.sock[t].peer
         /\ k2.sock[t].pending =
              IF t = srv THEN Append(k.sock[t].pending, [at |-> s, id |-> k.sock[s].id]) ELSE k.sock[t].pending
    /\ k.sock[s].id \in k2.sock[srv].mates

\* A connection acquaints the two.
LEMMA ConnectedAcquainted ==
  ASSUME NEW k, NEW k2, NEW s, NEW srv, Acquainted(k), Connected(k, k2, s, srv)
  PROVE  Acquainted(k2)
<1> DEFINE e == [at |-> s, id |-> k.sock[s].id]
<1>1. e \in [at: Socks, id: Nat] /\ e.at = s /\ e.id = k.sock[s].id
  BY SockAt DEF Connected, SocketType
<1>2. \A t \in Socks : k2.sock[t].pending = IF t = srv THEN Append(k.sock[t].pending, e) ELSE k.sock[t].pending
  BY ZenonT(40) DEF Connected
<1> HIDE DEF e
<1>3. \A t \in Socks : Entries(k2.sock[t].pending) \subseteq Entries(k.sock[t].pending) \cup {e}
  <2>1. TAKE t \in Socks
  <2>2. PICK q \in Seq([at: Socks, id: Nat]) : q = k.sock[t].pending
    BY QueueAt, Zenon DEF Connected
  <2>3. Entries(Append(q, e)) \subseteq Entries(q) \cup {e}
    <3>1. PICK T : T = [at: Socks, id: Nat]
      BY Zenon
    <3>2. q \in Seq(T) /\ e \in T
      BY <1>1, <2>2, <3>1
    <3>3. QED
      BY <3>2, Appended, Zenon
  <2>4. QED
    BY <1>2, <2>2, <2>3, Zenon
<1>4. \A t \in Socks : \A f \in Entries(k2.sock[t].pending) \ Entries(k.sock[t].pending) :
        k2.sock[f.at].id = f.id
  <2>1. k2.sock[e.at].id = e.id
    BY <1>1, Zenon DEF Connected
  <2>2. QED
    BY <1>3, <2>1, Zenon
<1>5. \A t \in Socks, u \in Socks : (k2.sock[t].peer = u /\ k.sock[t].peer # u) =>
        k2.sock[t].id \in k2.sock[u].mates
  BY ZenonT(40) DEF Connected
<1>6. Carries(k, k2, {})
  BY <1>4, <1>5, Zenon DEF Carries, Connected
<1>7. QED
  BY <1>6, CarriesOn, Zenon

\* A connection of a socket with no peer that does not listen.
LEMMA ConnectedMutual ==
  ASSUME NEW k, NEW k2, NEW s, NEW srv, Mutual(k), Connected(k, k2, s, srv),
         k.sock[s].peer = None, ~k.sock[s].listening
  PROVE  Mutual(k2)
<1> DEFINE e == [at |-> s, id |-> k.sock[s].id]
<1>1. SUFFICES ASSUME ~k2.reused, NEW x \in Socks, k2.sock[x].used
               PROVE  Paired(k2, x)
  BY ZenonT(40) DEF Mutual
<1>2. /\ ~k.reused /\ k \in KernelType /\ s \in Socks /\ srv \in Socks /\ s # srv
      /\ k.sock[s].used /\ k.sock[srv].used /\ k.sock[srv].listening
  BY <1>1, Zenon DEF Connected
<1>3. \A t \in Socks :
        /\ k2.sock[t].used = k.sock[t].used /\ k2.sock[t].listening = k.sock[t].listening
        /\ t # s => k2.sock[t].peer = k.sock[t].peer
        /\ t # srv => k2.sock[t].pending = k.sock[t].pending
  BY ZenonT(40) DEF Connected
<1>4. k2.sock[s].peer = srv /\ k2.sock[srv].pending = Append(k.sock[srv].pending, e)
  BY ZenonT(40) DEF Connected
<1>5. e \in [at: Socks, id: Nat] /\ e.at = s
  BY SockAt DEF Connected, SocketType
<1> HIDE DEF e
<1>6. \A t \in Socks : k.sock[t].used => Paired(k, t)
  BY <1>2, Zenon DEF Mutual
<1>7. \A t \in Socks : t # None
  BY Constants DEF Socks, None
\* Nobody names s, neither as a peer nor in a queue.
<1>8. \A t \in Socks : k.sock[t].used => k.sock[t].peer # s
  BY <1>2, <1>6, <1>7, Zenon DEF Paired
<1>9. \A t \in Socks : k.sock[t].used => \A i \in DOMAIN k.sock[t].pending : k.sock[t].pending[i].at # s
  <2>1. SUFFICES ASSUME NEW t \in Socks, k.sock[t].used, NEW i \in DOMAIN k.sock[t].pending,
                        k.sock[t].pending[i].at = s
                 PROVE  FALSE
    BY Zenon
  <2>2. Waiting(k, t, k.sock[t].pending)
    BY <1>6, <2>1, Zenon DEF Paired
  <2>3. k.sock[s].peer = t
    BY <1>2, <2>1, <2>2, Zenon DEF Waiting
  <2>4. QED
    BY <1>7, <2>3, Zenon
<1>10. \A t \in Socks :
         (k2.sock[t].used /\ ~k2.sock[t].listening /\ k2.sock[x].peer = t) => k2.sock[t].peer = x
  <2>1. SUFFICES ASSUME NEW t \in Socks, k2.sock[t].used, ~k2.sock[t].listening, k2.sock[x].peer = t
                 PROVE  k2.sock[t].peer = x
    BY Zenon
  <2>2. k.sock[t].used /\ ~k.sock[t].listening /\ k.sock[x].used
    BY <1>1, <1>3, <2>1, Zenon
  <2>3. x # s /\ k.sock[x].peer = t
    BY <1>2, <1>3, <1>4, <2>1, <2>2, Zenon
  <2>4. t # s /\ k.sock[t].peer = x
    BY <1>6, <1>8, <2>2, <2>3, Zenon DEF Paired
  <2>5. QED
    BY <1>3, <2>4, Zenon
<1>11. k2.sock[x].pending # <<>> => k2.sock[x].listening
  BY <1>1, <1>2, <1>3, <1>6, Zenon DEF Paired
<1>12. PICK q : q = k.sock[x].pending
  BY Zenon
<1>13. /\ Waiting(k, x, q) /\ q \in Seq([at: Socks, id: Nat])
       /\ \A i \in DOMAIN q : q[i].at \in Socks /\ q[i].at # s
  <2>1. k.sock[x].used
    BY <1>1, <1>3, Zenon
  <2>2. Waiting(k, x, q) /\ \A i \in DOMAIN q : q[i].at # s
    BY <1>6, <1>9, <1>12, <2>1, Zenon DEF Paired
  <2>3. q \in Seq([at: Socks, id: Nat]) /\ \A i \in DOMAIN q : q[i].at \in Socks
    BY <1>2, <1>12, QueueAt, PlaceAt, Zenon
  <2>4. QED
    BY <2>2, <2>3, Zenon
<1>14. Waiting(k2, x, q)
  <2>1. CASE x = s
    <3>1. q = <<>>
      BY <1>2, <1>6, <1>12, <2>1, Zenon DEF Paired
    <3>2. QED
      BY <3>1 DEF Waiting
  <2>2. CASE x # s
    BY <1>3, <1>13, <2>2, ZenonT(40) DEF Waiting
  <2>3. QED
    BY <2>1, <2>2, Zenon
<1>15. Waiting(k2, x, k2.sock[x].pending)
  <2>1. CASE x # srv
    BY <1>3, <1>12, <1>14, <2>1, Zenon
  <2>2. CASE x = srv
    <3>1. PICK r : r = k2.sock[x].pending
      BY Zenon
    <3>2. r = Append(q, e)
      BY <1>4, <1>12, <2>2, <3>1, Zenon
    <3>3. \A i \in DOMAIN r : (i \in DOMAIN q /\ r[i] = q[i]) \/ (i = Len(q) + 1 /\ r[i] = e)
      <4>1. PICK T : T = [at: Socks, id: Nat]
        BY Zenon
      <4>2. q \in Seq(T) /\ e \in T
        BY <1>5, <1>13, <4>1
      <4>3. \A i \in DOMAIN Append(q, e) :
              (i \in DOMAIN q /\ Append(q, e)[i] = q[i]) \/ (i = Len(q) + 1 /\ Append(q, e)[i] = e)
        BY <4>2, Appended, Zenon
      <4>4. QED
        BY <3>2, <4>3, Zenon
    <3>4. k2.sock[s].peer = x /\ k2.sock[x].peer # s
      BY <1>2, <1>3, <1>4, <1>8, <2>2, Zenon
    <3>5. \A i \in DOMAIN r : k2.sock[r[i].at].used => k2.sock[r[i].at].peer = x /\ k2.sock[x].peer # r[i].at
      BY <1>5, <1>14, <3>3, <3>4, ZenonT(40) DEF Waiting
    <3>6. \A i, j \in DOMAIN r : r[j].at = r[i].at => i = j
      <4>1. \A i \in DOMAIN q : q[i].at # e.at
        BY <1>5, <1>13, Zenon
      <4>2. \A i, j \in DOMAIN q : q[j].at = q[i].at => i = j
        BY <1>14, Zenon DEF Waiting
      <4>3. QED
        BY <3>3, <4>1, <4>2, Zenon
    <3>7. QED
      BY <3>1, <3>5, <3>6, Zenon DEF Waiting
  <2>3. QED
    BY <2>1, <2>2, Zenon
<1>16. QED
  BY <1>10, <1>11, <1>15, Zenon DEF Paired

\* SYS_accept: the first in the queue of s, at c, leaves it for the new socket n.
Accepted(k, k2, s, c, n) ==
    /\ k \in KernelType /\ k2 \in KernelType
    /\ s \in Socks /\ n \in Socks /\ c \in Socks /\ k.sock[s].used /\ ~k.sock[n].used
    /\ k.sock[s].pending # <<>> /\ Head(k.sock[s].pending).at = c
    /\ k2.reused = (k.reused \/ Held(k, n))
    /\ \A t \in Socks \ {n} :
         /\ k2.sock[t].used = k.sock[t].used /\ k2.sock[t].listening = k.sock[t].listening
         /\ k2.sock[t].id = k.sock[t].id /\ k2.sock[t].buf = k.sock[t].buf
         /\ k.sock[t].mates \subseteq k2.sock[t].mates
         /\ k2.sock[t].peer = IF t = c THEN n ELSE k.sock[t].peer
         /\ k2.sock[t].pending = IF t = s THEN Tail(k.sock[t].pending) ELSE k.sock[t].pending
    /\ k2.sock[n].pending = <<>> /\ k2.sock[n].buf = <<>>
    /\ c # n => k2.sock[n].peer = c
    /\ Head(k.sock[s].pending).id \in k2.sock[n].mates
    /\ (c # n /\ k.sock[c].id = Head(k.sock[s].pending).id) => k2.sock[n].id \in k2.sock[c].mates

\* The client that leaves the queue of s is not the new socket, unless an index
\* is given out that s holds.
LEMMA AcceptedApart ==
  ASSUME NEW k, NEW k2, NEW s, NEW c, NEW n, Accepted(k, k2, s, c, n), ~k2.reused
  PROVE  /\ ~k.reused /\ ~Held(k, n) /\ c # n /\ s # n
         /\ 1 \in DOMAIN k.sock[s].pending /\ k.sock[s].pending[1] = Head(k.sock[s].pending)
         /\ Head(k.sock[s].pending) \in Entries(k.sock[s].pending)
<1>1. ~k.reused /\ ~Held(k, n) /\ s # n /\ k \in KernelType /\ s \in Socks /\ n \in Socks
  BY ZenonT(40) DEF Accepted
<1>2. PICK q \in Seq([at: Socks, id: Nat]) : q = k.sock[s].pending
  BY <1>1, QueueAt, Zenon
<1>3. 1 \in DOMAIN q /\ Head(q) = q[1] /\ Head(q) \in Entries(q)
  <2>1. q # <<>>
    BY <1>2, Zenon DEF Accepted
  <2>2. QED
    BY <2>1, Shortened, Zenon
<1>4. \A e \in Entries(q) : e.at # n
  <2>1. k.sock[s].used
    BY ZenonT(40) DEF Accepted
  <2>2. QED
    BY <1>1, <1>2, <2>1, NotHeld, Zenon
<1>5. QED
  BY <1>1, <1>2, <1>3, <1>4, Zenon DEF Accepted

\* An accept acquaints the client with the new socket.
LEMMA AcceptedAcquainted ==
  ASSUME NEW k, NEW k2, NEW s, NEW c, NEW n, Acquainted(k), Accepted(k, k2, s, c, n)
  PROVE  Acquainted(k2)
<1>1. SUFFICES ASSUME ~k2.reused PROVE Acquainted(k2)
  BY DEF Acquainted
<1>2. /\ ~k.reused /\ ~Held(k, n) /\ c # n /\ s # n
      /\ 1 \in DOMAIN k.sock[s].pending /\ k.sock[s].pending[1] = Head(k.sock[s].pending)
      /\ Head(k.sock[s].pending) \in Entries(k.sock[s].pending)
  BY <1>1, AcceptedApart, Zenon
<1>3. PICK e : e = Head(k.sock[s].pending)
  BY Zenon
<1>4. e.at = c /\ (k.sock[c].used => k.sock[c].id = e.id)
  <2>1. KnownTo(k, s) /\ e.at = c /\ e \in Entries(k.sock[s].pending)
    BY <1>2, <1>3, Zenon DEF Acquainted, Accepted
  <2>2. QED
    BY <2>1, Zenon DEF KnownTo
<1>5. c \in Socks \ {n} /\ k2.sock[c].used = k.sock[c].used /\ k2.sock[c].id = k.sock[c].id
  BY <1>2, Zenon DEF Accepted
<1>6. k2.sock[c].used => k2.sock[c].id \in k2.sock[n].mates /\ k2.sock[n].id \in k2.sock[c].mates
  BY <1>2, <1>3, <1>4, <1>5, Zenon DEF Accepted
<1>7. KnownTo(k2, n)
  <2>1. k2.sock[n].peer = c /\ k2.sock[n].pending = <<>> /\ k2.sock[n].buf = <<>>
    BY <1>2, Zenon DEF Accepted
  <2>2. QED
    BY <1>6, <2>1, NoEntries, Zenon DEF KnownTo
<1>8. \A t \in Socks : t # n => Entries(k2.sock[t].pending) \subseteq Entries(k.sock[t].pending)
  <2>1. SUFFICES ASSUME NEW t \in Socks, t # n
                 PROVE  Entries(k2.sock[t].pending) \subseteq Entries(k.sock[t].pending)
    BY Zenon
  <2>2. PICK q \in Seq([at: Socks, id: Nat]) : q = k.sock[t].pending
    BY QueueAt, Zenon DEF Accepted
  <2>3. k2.sock[t].pending = q \/ (q # <<>> /\ k2.sock[t].pending = Tail(q))
    BY <2>1, <2>2, Zenon DEF Accepted
  <2>4. q # <<>> => Entries(Tail(q)) \subseteq Entries(q)
    BY Shortened, Zenon
  <2>5. QED
    BY <2>2, <2>3, <2>4, Zenon
<1>9. ASSUME NEW t \in Socks, t # n, NEW u \in Socks, k2.sock[t].used, k2.sock[t].peer = u, k.sock[t].peer # u
      PROVE  k2.sock[t].id \in k2.sock[u].mates
  <2>1. t = c /\ u = n
    BY <1>9, Zenon DEF Accepted
  <2>2. QED
    BY <1>6, <1>9, <2>1, Zenon
<1>10. Carries(k, k2, {n})
  <2>1. k \in KernelType /\ k2 \in KernelType /\ n \in Socks /\ ~k.sock[n].used
    BY ZenonT(40) DEF Accepted
  <2>2. ASSUME NEW t \in Socks \ {n}, k2.sock[t].used
        PROVE  /\ k.sock[t].used /\ k2.sock[t].id = k.sock[t].id
               /\ k.sock[t].mates \subseteq k2.sock[t].mates
               /\ Entries(k2.sock[t].buf) \subseteq Entries(k.sock[t].buf) \cup k2.sock[t].mates
    BY <2>2, Zenon DEF Accepted
  <2>3. QED
    BY <1>2, <1>7, <1>8, <1>9, <2>1, <2>2, Zenon DEF Carries
<1>11. QED
  BY <1>10, CarriesOn, Zenon

\* An accept pairs the client with the new socket, and leaves the others alone.
LEMMA AcceptedMutual ==
  ASSUME NEW k, NEW k2, NEW s, NEW c, NEW n, Mutual(k), Accepted(k, k2, s, c, n)
  PROVE  Mutual(k2)
<1>1. SUFFICES ASSUME ~k2.reused, NEW x \in Socks, k2.sock[x].used
               PROVE  Paired(k2, x)
  BY ZenonT(40) DEF Mutual
<1>2. /\ ~k.reused /\ ~Held(k, n) /\ c # n /\ s # n
      /\ 1 \in DOMAIN k.sock[s].pending /\ k.sock[s].pending[1] = Head(k.sock[s].pending)
  BY <1>1, AcceptedApart, Zenon
<1>3. /\ k \in KernelType /\ s \in Socks /\ n \in Socks /\ c \in Socks
      /\ k.sock[s].used /\ k.sock[s].pending # <<>> /\ k.sock[s].pending[1].at = c
  BY <1>2, Zenon DEF Accepted
<1>4. \A t \in Socks \ {n} :
        /\ k2.sock[t].used = k.sock[t].used /\ k2.sock[t].listening = k.sock[t].listening
        /\ t # c => k2.sock[t].peer = k.sock[t].peer
        /\ t # s => k2.sock[t].pending = k.sock[t].pending
  BY ZenonT(40) DEF Accepted
<1>5. /\ k2.sock[c].peer = n /\ k2.sock[n].peer = c
      /\ k2.sock[n].pending = <<>> /\ k2.sock[s].pending = Tail(k.sock[s].pending)
  BY <1>2, Zenon DEF Accepted
<1>6. \A t \in Socks : k.sock[t].used => Paired(k, t) /\ Waiting(k, t, k.sock[t].pending)
  BY <1>2, Zenon DEF Mutual, Paired
\* Before, the client named the listener and the listener did not name it.
<1>7. k.sock[c].used => k.sock[c].peer = s /\ k.sock[s].peer # c
  <2>1. Waiting(k, s, k.sock[s].pending)
    BY <1>3, <1>6, Zenon
  <2>2. QED
    BY <1>2, <1>3, <2>1, Zenon DEF Waiting
<1>8. CASE x = n
  <2>1. Waiting(k2, n, <<>>)
    BY DEF Waiting
  <2>2. QED
    BY <1>5, <1>8, <2>1, Zenon DEF Paired
<1>9. CASE x # n
  <2>1. k.sock[x].used /\ Paired(k, x)
    BY <1>1, <1>4, <1>6, <1>9, Zenon
  <2>2. k.sock[x].peer # n /\ \A i \in DOMAIN k.sock[x].pending : k.sock[x].pending[i].at # n
    BY <1>2, <1>3, <1>9, <2>1, NotHeld, Zenon
  <2>3. ASSUME NEW t \in Socks, k2.sock[t].used, ~k2.sock[t].listening, k2.sock[x].peer = t
        PROVE  k2.sock[t].peer = x
    <3>1. CASE x = c
      BY <1>5, <2>3, <3>1, Zenon
    <3>2. CASE x # c
      <4>1. k.sock[x].peer = t /\ t # n
        BY <1>4, <1>9, <2>2, <2>3, <3>2, Zenon
      <4>2. k.sock[t].used /\ k.sock[t].peer = x
        BY <1>4, <2>1, <2>3, <4>1, Zenon DEF Paired
      <4>3. t # c
        BY <1>7, <4>1, <4>2, Zenon
      <4>4. QED
        BY <1>4, <4>1, <4>2, <4>3, Zenon
    <3>3. QED
      BY <3>1, <3>2, Zenon
  <2>4. PICK q \in Seq([at: Socks, id: Nat]) : q = k.sock[x].pending
    BY <1>3, QueueAt, Zenon
  <2>5. k2.sock[x].pending = (IF x = s THEN Tail(q) ELSE q)
    BY <1>4, <1>5, <1>9, <2>4, Zenon
  <2>6. k2.sock[x].pending # <<>> => k2.sock[x].listening
    BY <1>3, <1>4, <1>9, <2>1, <2>4, <2>5, Zenon DEF Paired
  <2>7. Waiting(k, x, q) /\ \A i \in DOMAIN q : q[i].at \in Socks \ {n}
    BY <1>3, <2>1, <2>2, <2>4, PlaceAt, Zenon DEF Paired
  <2>8. ASSUME NEW r, Waiting(k, x, r), \A i \in DOMAIN r : r[i].at \in Socks \ {n} /\ (k.sock[c].used => r[i].at # c)
        PROVE  Waiting(k2, x, r)
    <3>1. \A i, j \in DOMAIN r : r[j].at = r[i].at => i = j
      BY <2>8, Zenon DEF Waiting
    <3>2. ASSUME NEW i \in DOMAIN r, k2.sock[r[i].at].used
          PROVE  k2.sock[r[i].at].peer = x /\ k2.sock[x].peer # r[i].at
      <4>1. PICK d : d = r[i].at
        BY Zenon
      <4>2. d \in Socks \ {n} /\ k.sock[d].used /\ k.sock[d].peer = x /\ k.sock[x].peer # d
        BY <1>4, <2>8, <3>2, <4>1, Zenon DEF Waiting
      <4>3. d # c
        BY <2>8, <4>1, <4>2, Zenon
      <4>4. k2.sock[d].peer = x /\ k2.sock[x].peer # d
        BY <1>4, <1>5, <1>9, <4>2, <4>3, Zenon
      <4>5. QED
        BY <4>1, <4>4, Zenon
    <3>3. QED
      BY <3>1, <3>2, Zenon DEF Waiting
  <2>9. CASE x # s
    <3>1. \A i \in DOMAIN q : k.sock[c].used => q[i].at # c
      BY <1>7, <2>7, <2>9, Zenon DEF Waiting
    <3>2. Waiting(k2, x, q)
      BY <2>7, <2>8, <3>1, Zenon
    <3>3. QED
      BY <2>3, <2>5, <2>6, <2>9, <3>2, Zenon DEF Paired
  <2>10. CASE x = s
    <3>1. PICK r : r = Tail(q)
      BY Zenon
    <3>2. q # <<>> /\ 1 \in DOMAIN q /\ q[1].at = c
      BY <1>2, <1>3, <2>4, <2>10, Zenon
    <3>3. \A i \in DOMAIN r : i \in Nat \ {0} /\ i + 1 \in DOMAIN q /\ r[i] = q[i + 1]
      BY <3>1, <3>2, Shortened, ZenonT(40)
    <3>4. Waiting(k, x, r)
      BY <2>7, <3>1, <3>2, TailWaits, Zenon
    <3>5. ASSUME NEW i \in DOMAIN r
          PROVE  r[i].at \in Socks \ {n} /\ r[i].at # c
      <4>1. PICK m \in DOMAIN q : m = i + 1 /\ r[i] = q[m]
        BY <3>3, Zenon
      <4>2. m # 1
        BY <3>3, <4>1
      <4>3. QED
        BY <2>7, <3>2, <4>1, <4>2, Zenon DEF Waiting
    <3>6. Waiting(k2, x, r)
      BY <2>8, <3>4, <3>5, Zenon
    <3>7. QED
      BY <2>3, <2>5, <2>6, <2>10, <3>1, <3>6, Zenon DEF Paired
  <2>11. QED
    BY <2>9, <2>10, Zenon
<1>10. QED
  BY <1>8, <1>9, Zenon
-----------------------------------------------------------------------------
(* Each call is one of these. *)

\* The socket s gets the fields of r, nothing else changes.
Put(k, k2, s, r) ==
    /\ k2 \in KernelType /\ k2.reused = k.reused
    /\ \A t \in Socks : k2.sock[t] = IF t = s THEN r ELSE k.sock[t]

\* An update of one socket is a Put.
LEMMA PutPuts ==
  ASSUME NEW k \in KernelType, NEW s \in Socks, NEW r \in SocketType
  PROVE  Put(k, [k EXCEPT !.sock[s] = r], s, r)
<1>1. [k EXCEPT !.sock[s] = r].reused = k.reused
  BY DEF KernelType
<1>2. QED
  BY <1>1, PutKeeps, Zenon DEF Put

\* A Put that leaves the links alone is steady.
LEMMA PutSteady ==
  ASSUME NEW k \in KernelType, NEW s \in Socks, NEW r \in SocketType, NEW k2, Put(k, k2, s, r),
         r.used => k.sock[s].used, k.sock[s].listening => r.listening,
         r.id = k.sock[s].id, r.mates = k.sock[s].mates, r.peer = k.sock[s].peer,
         \/ r.pending = k.sock[s].pending
         \/ k.sock[s].pending # <<>> /\ r.pending = Tail(k.sock[s].pending)
  PROVE  Steady(k, k2)
  BY ZenonT(40) DEF Steady, Put

\* bind and listen link nobody.
LEMMA bindSteady ==
  ASSUME NEW k \in KernelType, NEW s \in Socks, NEW path \in Nat
  PROVE  /\ Steady(k, [k EXCEPT !.sock[s].path = path]) /\ NoneSent(k, [k EXCEPT !.sock[s].path = path])
         /\ Steady(k, [k EXCEPT !.sock[s].listening = TRUE])
         /\ NoneSent(k, [k EXCEPT !.sock[s].listening = TRUE])
<1> DEFINE r1 == [k.sock[s] EXCEPT !.path = path]
           r2 == [k.sock[s] EXCEPT !.listening = TRUE]
<1>1. /\ r1 \in SocketType /\ r1.used = k.sock[s].used /\ r1.listening = k.sock[s].listening
      /\ r1.id = k.sock[s].id /\ r1.mates = k.sock[s].mates /\ r1.peer = k.sock[s].peer
      /\ r1.pending = k.sock[s].pending /\ r1.buf = k.sock[s].buf
  BY SockAt DEF SocketType
<1>2. /\ r2 \in SocketType /\ r2.used = k.sock[s].used /\ r2.listening
      /\ r2.id = k.sock[s].id /\ r2.mates = k.sock[s].mates /\ r2.peer = k.sock[s].peer
      /\ r2.pending = k.sock[s].pending /\ r2.buf = k.sock[s].buf
  BY ZenonT(40), SockAt DEF SocketType
<1>3. /\ [k EXCEPT !.sock[s].path = path] = [k EXCEPT !.sock[s] = r1]
      /\ [k EXCEPT !.sock[s].listening = TRUE] = [k EXCEPT !.sock[s] = r2]
  OBVIOUS
<1> HIDE DEF r1, r2
<1>4. PICK k1, k2 : k1 = [k EXCEPT !.sock[s] = r1] /\ k2 = [k EXCEPT !.sock[s] = r2]
  BY Zenon
<1>5. Put(k, k1, s, r1) /\ Put(k, k2, s, r2)
  BY <1>1, <1>2, <1>4, PutPuts, Zenon
<1>6. Steady(k, k1) /\ Steady(k, k2)
  BY <1>1, <1>2, <1>5, PutSteady, Zenon
<1>7. NoneSent(k, k1) /\ NoneSent(k, k2)
  BY <1>1, <1>2, <1>5, Zenon DEF NoneSent, Put
<1>8. QED
  BY <1>3, <1>4, <1>6, <1>7, Zenon

\* A change of the descriptors alone links nobody.
LEMMA SameSteady ==
  ASSUME NEW k \in KernelType, NEW k2 \in KernelType, k2.sock = k.sock, k2.reused = k.reused
  PROVE  Steady(k, k2) /\ NoneSent(k, k2)
  BY ZenonT(40) DEF Steady, NoneSent

\* close_fd takes a mark of use away.
LEMMA closeSteady ==
  ASSUME NEW k, NEW p \in Procs, NEW i \in Fds, Good(k), OpenIn(k, p, i)
  PROVE  Steady(k, close_fd(k, p, i)) /\ NoneSent(k, close_fd(k, p, i))
<1> DEFINE s == k.fd[p][i].sock
           r == [k.sock[s] EXCEPT !.used = FALSE]
<1>1. k \in KernelType /\ s \in Socks
  BY OpenHasSocket, ZenonT(40) DEF Good
<1>2. /\ r \in SocketType /\ ~r.used /\ r.listening = k.sock[s].listening
      /\ r.id = k.sock[s].id /\ r.mates = k.sock[s].mates /\ r.peer = k.sock[s].peer
      /\ r.pending = k.sock[s].pending /\ r.buf = k.sock[s].buf
  BY ZenonT(30), <1>1, SockAt DEF SocketType
<1>3. PICK k2 : k2 = close_fd(k, p, i)
  BY Zenon
<1>4. k2 \in KernelType
  BY <1>3, close_fdGood, Zenon DEF Good
<1>5. k2.reused = k.reused /\ k2.sock = [k.sock EXCEPT ![s] = r]
  BY <1>1, <1>3 DEF close_fd, KernelType
<1> HIDE DEF s, r
<1>6. Put(k, k2, s, r)
  BY <1>1, <1>4, <1>5 DEF Put, KernelType
<1>7. Steady(k, k2)
  BY <1>1, <1>2, <1>6, PutSteady, Zenon
<1>8. NoneSent(k, k2)
  BY <1>2, <1>6, Zenon DEF NoneSent, Put
<1>9. QED
  BY <1>3, <1>7, <1>8, Zenon

\* The state k2 is k with the buffer b for s.
Buffered(k, k2, s, b) == k2 = [k EXCEPT !.sock[s].buf = b]

\* A buffer changes.
LEMMA BufPut ==
  ASSUME NEW k \in KernelType, NEW s \in Socks, NEW b \in Buffers, NEW k2, Buffered(k, k2, s, b)
  PROVE  /\ Steady(k, k2)
         /\ k2.sock[s].buf = b /\ \A t \in Socks \ {s} : k2.sock[t].buf = k.sock[t].buf
<1> DEFINE r == [k.sock[s] EXCEPT !.buf = b]
<1>1. /\ r \in SocketType /\ r.used = k.sock[s].used /\ r.listening = k.sock[s].listening
      /\ r.id = k.sock[s].id /\ r.mates = k.sock[s].mates /\ r.peer = k.sock[s].peer
      /\ r.pending = k.sock[s].pending /\ r.buf = b
  BY SockAt DEF SocketType
<1>2. k2 = [k EXCEPT !.sock[s] = r]
  BY DEF Buffered
<1> HIDE DEF r
<1>3. Put(k, k2, s, r)
  <2>1. Put(k, [k EXCEPT !.sock[s] = r], s, r)
    BY <1>1, PutPuts, Zenon
  <2>2. QED
    BY <1>2, <2>1, Zenon
<1>4. Steady(k, k2)
  BY <1>1, <1>3, PutSteady, Zenon
<1>5. QED
  BY <1>1, <1>3, <1>4, Zenon DEF Put

\* sock_pop takes a byte away.
LEMMA popSteady ==
  ASSUME NEW k \in KernelType, NEW s \in Socks
  PROVE  Steady(k, sock_pop(k, s)) /\ NoneSent(k, sock_pop(k, s))
<1>1. CASE sock_pop(k, s) = k
  BY <1>1, SameSteady, Zenon
<1>2. CASE sock_pop(k, s) # k
  <2>1. PICK q \in Seq(Nat) : q = k.sock[s].buf
    BY SockAt, Zenon DEF SocketType, Buffers
  <2>2. q # <<>> /\ sock_pop(k, s) = [k EXCEPT !.sock[s].buf = Tail(q)]
    BY <1>2, <2>1 DEF sock_pop
  <2>3. Tail(q) \in Buffers
    BY <2>2, HeadTail, Zenon DEF Buffers
  <2>4. Entries(Tail(q)) \subseteq Entries(q)
    BY <2>2, Shortened, Zenon
  <2>5. PICK k2 : k2 = sock_pop(k, s)
    BY Zenon
  <2>6. PICK b \in Buffers : b = Tail(q)
    BY <2>3, Zenon
  <2>7. Buffered(k, k2, s, b)
    BY <2>2, <2>5, <2>6, Zenon DEF Buffered
  <2>8. /\ Steady(k, k2)
        /\ k2.sock[s].buf = b /\ \A t \in Socks \ {s} : k2.sock[t].buf = k.sock[t].buf
    BY <2>7, BufPut
  <2>9. NoneSent(k, k2)
    BY <2>1, <2>4, <2>6, <2>8, Zenon DEF NoneSent
  <2>10. QED
    BY <2>5, <2>8, <2>9, Zenon
<1>3. QED
  BY <1>1, <1>2, Zenon

\* sock_push sends a byte of s to its peer, or nothing.
LEMMA pushSent ==
  ASSUME NEW k \in KernelType, NEW s \in Socks, k.sock[s].used, NEW k2,
         k2 = sock_push(k, k.sock[s].peer, s)
  PROVE  Steady(k, k2) /\ (NoneSent(k, k2) \/ Sent(k, k2, s))
<1>1. CASE k2 = k
  BY <1>1, SameSteady, Zenon
<1>2. CASE k2 # k
  <2>1. PICK t \in 0..NSocks : t = k.sock[s].peer
    BY SockAt, ZenonT(40) DEF SocketType
  <2>2. t # None /\ k.sock[t].used /\ k2 = [k EXCEPT !.sock[t].buf = Append(k.sock[t].buf, k.sock[s].id)]
    BY ZenonT(40), <1>2, <2>1 DEF sock_push
  <2>3. t \in Socks
    BY <2>2, Constants DEF Socks, None
  <2>4. PICK q \in Seq(Nat) : q = k.sock[t].buf
    BY <2>3, SockAt, Zenon DEF SocketType, Buffers
  <2>5. PICK id \in Nat : id = k.sock[s].id
    BY SockAt, Zenon DEF SocketType
  <2>6. Entries(Append(q, id)) \subseteq Entries(q) \cup {id}
    BY Appended, Zenon
  <2>7. PICK b \in Buffers : b = Append(q, id)
    <3>1. Append(q, id) \in Seq(Nat)
      OBVIOUS
    <3>2. QED
      BY <3>1, Zenon DEF Buffers
  <2>8. Buffered(k, k2, t, b)
    BY <2>2, <2>4, <2>5, <2>7, ZenonT(40) DEF Buffered
  <2>9. /\ Steady(k, k2)
        /\ k2.sock[t].buf = b /\ \A u \in Socks \ {t} : k2.sock[u].buf = k.sock[u].buf
    BY <2>3, <2>8, BufPut
  <2>10. Sent(k, k2, s)
    BY <2>1, <2>2, <2>4, <2>5, <2>6, <2>7, <2>9, Zenon DEF Sent
  <2>11. QED
    BY <2>9, <2>10, Zenon
<1>3. QED
  BY <1>1, <1>2, Zenon

\* The index n is a socket made anew, and an index that is held is noted.
FreshIs(k, f, n, peer) ==
    /\ f.reused = (k.reused \/ Held(k, n))
    /\ f.sock[n] = Made(peer, k.made + 1)
    /\ f.sock[n].used /\ f.sock[n].peer = peer /\ f.sock[n].pending = <<>> /\ f.sock[n].buf = <<>>
    /\ \A t \in Socks \ {n} : f.sock[t] = k.sock[t]

\* Making a socket does that.
LEMMA FreshDoes ==
  ASSUME NEW k \in KernelType, NEW n \in Socks, NEW peer \in 0..NSocks
  PROVE  Fresh(k, n, peer) \in KernelType /\ FreshIs(k, Fresh(k, n, peer), n, peer)
<1>1. Fresh(k, n, peer) \in KernelType
  BY FreshMakes, Zenon
<1> DEFINE new == Made(peer, k.made + 1)
           held == k.reused \/ Held(k, n)
<1>2. new.used /\ new.peer = peer /\ new.pending = <<>> /\ new.buf = <<>>
  BY DEF Made
<1>3. Fresh(k, n, peer) = [k EXCEPT !.sock[n] = new, !.made = k.made + 1, !.reused = held]
  BY DEF Fresh
<1> HIDE DEF new, held
<1>4. /\ Fresh(k, n, peer).reused = held
      /\ \A t \in Socks : Fresh(k, n, peer).sock[t] = IF t = n THEN new ELSE k.sock[t]
  BY <1>3 DEF KernelType
<1>5. QED
  BY <1>1, <1>2, <1>4, Zenon DEF FreshIs, new, held

\* The call SYS_socket opens a socket, or does nothing.
LEMMA socketOpens ==
  ASSUME NEW k, NEW p \in Procs, Good(k), NEW k2, k2 = socket(k, p), k2 # k
  PROVE  \E n \in Socks : Opened(k, k2, n)
<1>1. PICK n, i : n = sock_alloc(k) /\ i = alloc_fd(k, p)
  BY Zenon
<1>2. n # None /\ i # None /\ k2 = Install(Fresh(k, n, None), p, i, n)
  BY <1>1 DEF socket
<1>3. n \in Socks /\ ~k.sock[n].used
  BY <1>1, <1>2, Allocated, Zenon
<1>4. k \in KernelType /\ k2 \in KernelType
  BY socketGood, Zenon DEF Good
<1>5. PICK f : f = Fresh(k, n, None)
  BY Zenon
<1>6. f \in KernelType /\ FreshIs(k, f, n, None)
  BY <1>3, <1>4, <1>5, FreshDoes, Constants DEF None
<1>7. k2.sock = f.sock /\ k2.reused = f.reused
  BY <1>2, <1>5, <1>6 DEF Install, KernelType
<1>8. Opened(k, k2, n)
  BY <1>3, <1>4, <1>6, <1>7, Zenon DEF Opened, FreshIs
<1>9. QED
  BY <1>3, <1>8, Zenon

\* The peer of s becomes x.
PeerSet(k, k2, s, x) ==
    /\ k2 \in KernelType /\ k2.reused = k.reused
    /\ \A t \in Socks :
         /\ k2.sock[t].used = k.sock[t].used /\ k2.sock[t].listening = k.sock[t].listening
         /\ k2.sock[t].id = k.sock[t].id /\ k2.sock[t].buf = k.sock[t].buf
         /\ k2.sock[t].mates = k.sock[t].mates /\ k2.sock[t].pending = k.sock[t].pending
         /\ k2.sock[t].peer = IF t = s THEN x ELSE k.sock[t].peer

\* The queue of s becomes q.
QueueSet(k, k2, s, q) ==
    /\ k2 \in KernelType /\ k2.reused = k.reused
    /\ \A t \in Socks :
         /\ k2.sock[t].used = k.sock[t].used /\ k2.sock[t].listening = k.sock[t].listening
         /\ k2.sock[t].id = k.sock[t].id /\ k2.sock[t].buf = k.sock[t].buf
         /\ k2.sock[t].mates = k.sock[t].mates /\ k2.sock[t].peer = k.sock[t].peer
         /\ k2.sock[t].pending = IF t = s THEN q ELSE k.sock[t].pending

\* The socket s gets a mate.
MateAdded(k, k2, s, id) ==
    /\ k2 \in KernelType /\ k2.reused = k.reused
    /\ \A t \in Socks :
         /\ k2.sock[t].used = k.sock[t].used /\ k2.sock[t].listening = k.sock[t].listening
         /\ k2.sock[t].id = k.sock[t].id /\ k2.sock[t].buf = k.sock[t].buf
         /\ k2.sock[t].pending = k.sock[t].pending /\ k2.sock[t].peer = k.sock[t].peer
         /\ k.sock[t].mates \subseteq k2.sock[t].mates
    /\ id \in k2.sock[s].mates

\* Setting the peer of a socket changes nothing else.
LEMMA PeerSets ==
  ASSUME NEW k \in KernelType, NEW s \in Socks, NEW x \in 0..NSocks
  PROVE  PeerSet(k, [k EXCEPT !.sock[s].peer = x], s, x)
<1> DEFINE r == [k.sock[s] EXCEPT !.peer = x]
<1>1. /\ r \in SocketType /\ r.used = k.sock[s].used /\ r.listening = k.sock[s].listening
      /\ r.id = k.sock[s].id /\ r.mates = k.sock[s].mates /\ r.peer = x
      /\ r.pending = k.sock[s].pending /\ r.buf = k.sock[s].buf
  BY SockAt DEF SocketType
<1>2. [k EXCEPT !.sock[s].peer = x] = [k EXCEPT !.sock[s] = r]
  OBVIOUS
<1> HIDE DEF r
<1>3. PICK k2 : k2 = [k EXCEPT !.sock[s] = r]
  BY Zenon
<1>4. Put(k, k2, s, r)
  BY <1>1, <1>3, PutPuts
<1>5. PeerSet(k, k2, s, x)
  BY <1>1, <1>4, Zenon DEF Put, PeerSet
<1>6. QED
  BY <1>2, <1>3, <1>5, Zenon

\* Setting the queue of a socket changes nothing else.
LEMMA QueueSets ==
  ASSUME NEW k \in KernelType, NEW s \in Socks, NEW q \in Queues
  PROVE  QueueSet(k, [k EXCEPT !.sock[s].pending = q], s, q)
<1> DEFINE r == [k.sock[s] EXCEPT !.pending = q]
<1>1. /\ r \in SocketType /\ r.used = k.sock[s].used /\ r.listening = k.sock[s].listening
      /\ r.id = k.sock[s].id /\ r.mates = k.sock[s].mates /\ r.peer = k.sock[s].peer
      /\ r.pending = q /\ r.buf = k.sock[s].buf
  BY SockAt DEF SocketType
<1>2. [k EXCEPT !.sock[s].pending = q] = [k EXCEPT !.sock[s] = r]
  OBVIOUS
<1> HIDE DEF r
<1>3. PICK k2 : k2 = [k EXCEPT !.sock[s] = r]
  BY Zenon
<1>4. Put(k, k2, s, r)
  BY <1>1, <1>3, PutPuts
<1>5. QueueSet(k, k2, s, q)
  BY <1>1, <1>4, Zenon DEF Put, QueueSet
<1>6. QED
  BY <1>2, <1>3, <1>5, Zenon

\* Noting a mate changes nothing else.
LEMMA MateAdds ==
  ASSUME NEW k \in KernelType, NEW s \in Socks, NEW id \in Nat
  PROVE  MateAdded(k, Mate(k, s, id), s, id)
<1> DEFINE r == [k.sock[s] EXCEPT !.mates = @ \cup {id}]
<1>1. /\ r \in SocketType /\ r.used = k.sock[s].used /\ r.listening = k.sock[s].listening
      /\ r.id = k.sock[s].id /\ r.mates = k.sock[s].mates \cup {id} /\ r.peer = k.sock[s].peer
      /\ r.pending = k.sock[s].pending /\ r.buf = k.sock[s].buf
  BY SockAt DEF SocketType
<1>2. Mate(k, s, id) = [k EXCEPT !.sock[s] = r]
  BY DEF Mate
<1> HIDE DEF r
<1>3. PICK k2 : k2 = [k EXCEPT !.sock[s] = r]
  BY Zenon
<1>4. Put(k, k2, s, r)
  BY <1>1, <1>3, PutPuts
<1>5. MateAdded(k, k2, s, id)
  BY <1>1, <1>4, Zenon DEF Put, MateAdded
<1>6. QED
  BY <1>2, <1>3, <1>5, Zenon

\* The call SYS_connect connects s with a listener, or does nothing.
LEMMA connectConnects ==
  ASSUME NEW k \in KernelType, NEW s \in Socks, k.sock[s].used, NEW path,
         NEW k2, k2 = connect(k, s, path), k2 # k
  PROVE  \E srv \in Socks : Connected(k, k2, s, srv)
<1>1. PICK srv : srv = sock_by_path(k, path)
  BY Zenon
<1>2. srv # None
  BY <1>1 DEF connect
<1>3. srv \in Socks /\ k.sock[srv].used /\ k.sock[srv].listening
  BY <1>1, <1>2, ByPath, Zenon
<1>4. PICK id \in Nat, id2 \in Nat : id = k.sock[s].id /\ id2 = k.sock[srv].id
  BY <1>3, SockAt, Zenon DEF SocketType
<1>5. PICK e : e = [at |-> s, id |-> id]
  BY Zenon
<1>6. PICK k1 : k1 = [k EXCEPT !.sock[s].peer = srv]
  BY Zenon
<1>7. PICK q : q = Append(k1.sock[srv].pending, e)
  BY Zenon
<1>8. PICK k3 : k3 = [k1 EXCEPT !.sock[srv].pending = q]
  BY Zenon
<1>9. PICK k4 : k4 = Mate(k3, s, id2)
  BY Zenon
<1>10. k2 = Mate(k4, srv, id)
  BY <1>1, <1>2, <1>4, <1>5, <1>6, <1>7, <1>8, <1>9, ZenonT(40) DEF connect
<1>11. PeerSet(k, k1, s, srv)
  <2>1. srv \in 0..NSocks
    BY <1>3, Constants DEF Socks
  <2>2. QED
    BY <1>6, <2>1, PeerSets
<1>12. q = Append(k.sock[srv].pending, e) /\ q \in Queues
  <2>1. k1.sock[srv].pending = k.sock[srv].pending
    BY <1>3, <1>11, Zenon DEF PeerSet
  <2>2. k.sock[srv].pending \in Queues
    BY <1>3, QueueAt, ZenonT(40) DEF Queues
  <2>3. QED
    BY <1>5, <1>7, <2>1, <2>2 DEF Queues
<1>13. QueueSet(k1, k3, srv, q)
  <2>1. k1 \in KernelType
    BY <1>11, Zenon DEF PeerSet
  <2>2. QED
    BY ZenonT(40), <1>3, <1>8, <1>12, <2>1, QueueSets
<1>14. MateAdded(k3, k4, s, id2)
  <2>1. k3 \in KernelType
    BY <1>13, Zenon DEF QueueSet
  <2>2. QED
    BY <1>9, <2>1, MateAdds
<1>15. MateAdded(k4, k2, srv, id)
  <2>1. k4 \in KernelType
    BY <1>14, Zenon DEF MateAdded
  <2>2. QED
    BY <1>3, <1>10, <2>1, MateAdds
<1>16. k2 \in KernelType /\ k2.reused = k.reused /\ id \in k2.sock[srv].mates
  BY <1>11, <1>13, <1>14, <1>15, ZenonT(40) DEF PeerSet, QueueSet, MateAdded
<1>17. ASSUME NEW t \in Socks
       PROVE  /\ k2.sock[t].used = k.sock[t].used /\ k2.sock[t].listening = k.sock[t].listening
              /\ k2.sock[t].id = k.sock[t].id /\ k2.sock[t].buf = k.sock[t].buf
              /\ k.sock[t].mates \subseteq k2.sock[t].mates
              /\ k2.sock[t].peer = IF t = s THEN srv ELSE k.sock[t].peer
              /\ k2.sock[t].pending = IF t = srv THEN q ELSE k.sock[t].pending
  <2>1. /\ k1.sock[t].used = k.sock[t].used /\ k1.sock[t].listening = k.sock[t].listening
        /\ k1.sock[t].id = k.sock[t].id /\ k1.sock[t].buf = k.sock[t].buf
        /\ k1.sock[t].mates = k.sock[t].mates /\ k1.sock[t].pending = k.sock[t].pending
        /\ k1.sock[t].peer = IF t = s THEN srv ELSE k.sock[t].peer
    BY <1>11, Zenon DEF PeerSet
  <2>2. /\ k3.sock[t].used = k1.sock[t].used /\ k3.sock[t].listening = k1.sock[t].listening
        /\ k3.sock[t].id = k1.sock[t].id /\ k3.sock[t].buf = k1.sock[t].buf
        /\ k3.sock[t].mates = k1.sock[t].mates /\ k3.sock[t].peer = k1.sock[t].peer
        /\ k3.sock[t].pending = IF t = srv THEN q ELSE k1.sock[t].pending
    BY <1>13, Zenon DEF QueueSet
  <2>3. /\ k4.sock[t].used = k3.sock[t].used /\ k4.sock[t].listening = k3.sock[t].listening
        /\ k4.sock[t].id = k3.sock[t].id /\ k4.sock[t].buf = k3.sock[t].buf
        /\ k4.sock[t].pending = k3.sock[t].pending /\ k4.sock[t].peer = k3.sock[t].peer
        /\ k3.sock[t].mates \subseteq k4.sock[t].mates
    BY <1>14, Zenon DEF MateAdded
  <2>4. /\ k2.sock[t].used = k4.sock[t].used /\ k2.sock[t].listening = k4.sock[t].listening
        /\ k2.sock[t].id = k4.sock[t].id /\ k2.sock[t].buf = k4.sock[t].buf
        /\ k2.sock[t].pending = k4.sock[t].pending /\ k2.sock[t].peer = k4.sock[t].peer
        /\ k4.sock[t].mates \subseteq k2.sock[t].mates
    BY <1>15, Zenon DEF MateAdded
  <2>5. QED
    BY <2>1, <2>2, <2>3, <2>4, ZenonT(40)
<1>18. Connected(k, k2, s, srv)
  BY <1>3, <1>4, <1>5, <1>12, <1>16, <1>17, ZenonT(40) DEF Connected
<1>19. QED
  BY <1>3, <1>18, Zenon

\* A queue that loses its first entry links nobody.
LEMMA QueueSteady ==
  ASSUME NEW k \in KernelType, NEW k2, NEW s \in Socks, k.sock[s].pending # <<>>,
         QueueSet(k, k2, s, Tail(k.sock[s].pending))
  PROVE  Steady(k, k2) /\ NoneSent(k, k2)
  BY ZenonT(40) DEF QueueSet, Steady, NoneSent

\* The call SYS_accept takes the first of the queue: for a new socket, or for
\* nothing when there is none or no descriptor.
LEMMA acceptAccepts ==
  ASSUME NEW k, NEW p \in Procs, NEW i \in Fds, Good(k), OpenIn(k, p, i),
         k.sock[k.fd[p][i].sock].pending # <<>>, NEW k2, k2 = accept(k, p, i)
  PROVE  \/ Steady(k, k2) /\ NoneSent(k, k2)
         \/ \E s, c, n \in Socks : Accepted(k, k2, s, c, n)
<1>1. PICK s, nfd, n : s = k.fd[p][i].sock /\ nfd = alloc_fd(k, p) /\ n = sock_alloc(k)
  BY Zenon
<1>2. k \in KernelType /\ k2 \in KernelType /\ s \in Socks /\ k.sock[s].used
  BY <1>1, OpenHasSocket, acceptGood, Zenon DEF Good, Owns
<1>3. PICK q \in Seq([at: Socks, id: Nat]) : q = k.sock[s].pending /\ q # <<>>
  BY <1>1, <1>2, QueueAt, Zenon
<1>4. PICK cli : cli = Head(q)
  BY Zenon
<1>5. PICK rest \in Queues : rest = Tail(q)
  BY <1>3, HeadTail, ZenonT(40) DEF Queues
<1>6. PICK c \in Socks, id \in Nat : c = cli.at /\ id = cli.id
  <2>1. cli \in [at: Socks, id: Nat]
    BY <1>3, <1>4, HeadTail, Zenon
  <2>2. QED
    BY <2>1
<1>7. CASE nfd = None \/ n = None
  <2>1. k2 = [k EXCEPT !.sock[s].pending = Tail(k.sock[s].pending)]
    BY <1>1, <1>7, Zenon DEF accept
  <2>2. k2 = [k EXCEPT !.sock[s].pending = rest]
    BY <1>3, <1>5, <2>1, ZenonT(40)
  <2>3. QueueSet(k, k2, s, rest)
    BY SMTT(30), Z3T(30), <1>2, <2>2, QueueSets
  <2>4. QED
    BY <1>2, <1>3, <1>5, <2>3, QueueSteady, Zenon
<1>8. CASE ~(nfd = None \/ n = None)
  <2>1. n \in Socks /\ ~k.sock[n].used /\ n # s
    BY <1>1, <1>2, <1>8, Allocated, Zenon
  <2>2. PICK f : f = Fresh(k, n, c)
    BY Zenon
  <2>3. PICK a : a = [f EXCEPT !.sock[s].pending = Tail(f.sock[s].pending)]
    BY Zenon
  <2>4. PICK b : b = [a EXCEPT !.sock[c].peer = n]
    BY Zenon
  <2>5. PICK d : d = Install(b, p, nfd, n)
    BY Zenon
  <2>6. PICK m : m = Mate(d, n, id)
    BY Zenon
  <2>7. k2 = IF a.sock[c].id = id THEN Mate(m, c, a.sock[n].id) ELSE m
    <3> DEFINE s0 == k.fd[p][i].sock
               cli0 == Head(k.sock[s0].pending)
               f0 == Fresh(k, sock_alloc(k), cli0.at)
               a0 == [f0 EXCEPT !.sock[s0].pending = Tail(f0.sock[s0].pending)]
               b0 == [a0 EXCEPT !.sock[cli0.at].peer = sock_alloc(k)]
               m0 == Mate(Install(b0, p, alloc_fd(k, p), sock_alloc(k)), sock_alloc(k), cli0.id)
    <3>1. k2 = IF a0.sock[cli0.at].id = cli0.id THEN Mate(m0, cli0.at, a0.sock[sock_alloc(k)].id) ELSE m0
      BY <1>1, <1>8, Zenon DEF accept
    <3> HIDE DEF m0, b0, a0, f0, cli0, s0
    <3>2. s0 = s /\ cli0.at = c /\ cli0.id = id
      BY <1>1, <1>3, <1>4, <1>6, Zenon DEF s0, cli0
    <3>3. f0 = f
      BY <1>1, <2>2, <3>2, Zenon DEF f0
    <3>4. a0 = a
      BY <2>3, <3>2, <3>3, Zenon DEF a0
    <3>5. b0 = b
      BY <1>1, <2>4, <3>2, <3>4, Zenon DEF b0
    <3>6. m0 = m
      BY <1>1, <2>5, <2>6, <3>2, <3>5, ZenonT(40) DEF m0
    <3>7. QED
      BY <1>1, <3>1, <3>2, <3>4, <3>6, Zenon
  <2>8. c \in 0..NSocks /\ n \in 0..NSocks
    BY <2>1, Constants DEF Socks
  <2>9. f \in KernelType /\ FreshIs(k, f, n, c)
    BY <1>2, <2>1, <2>2, <2>8, FreshDoes, Zenon
  <2>10. f.sock[s].pending = q
    BY <1>2, <1>3, <2>1, <2>9, ZenonT(40) DEF FreshIs
  <2>11. QueueSet(f, a, s, rest)
    <3>1. a = [f EXCEPT !.sock[s].pending = rest]
      BY <1>5, <2>3, <2>10, Zenon
    <3>2. QED
      BY ZenonT(40), <1>2, <2>9, <3>1, QueueSets
  <2>12. PeerSet(a, b, c, n)
    <3>1. a \in KernelType
      BY <2>11, ZenonT(40) DEF QueueSet
    <3>2. QED
      BY <2>4, <2>8, <3>1, PeerSets
  <2>13. d \in KernelType /\ d.sock = b.sock /\ d.reused = b.reused
    <3>1. b \in KernelType /\ nfd \in Fds /\ [used |-> TRUE, sock |-> n] \in [used: BOOLEAN, sock: 0..NSocks]
      BY <1>1, <1>8, <2>8, <2>12, Allocated DEF PeerSet
    <3>2. [b.fd EXCEPT ![p][nfd] = [used |-> TRUE, sock |-> n]] \in Tables
      BY <3>1, Zenon DEF KernelType, Tables
    <3>3. PICK g \in Tables : d = [b EXCEPT !.fd = g]
      BY ZenonT(40), <2>5, <3>2 DEF Install
    <3>4. QED
      BY ZenonT(40), <3>1, <3>3 DEF KernelType
  <2>14. MateAdded(d, m, n, id)
    BY <2>1, <2>6, <2>13, MateAdds
  <2>15. m \in KernelType /\ a \in KernelType
    BY <2>11, <2>14, Zenon DEF MateAdded, QueueSet
  <2>16. PICK nid \in Nat : nid = a.sock[n].id
    BY <2>1, <2>15, SockAt, Zenon DEF SocketType
  <2>17. k2 = m \/ MateAdded(m, k2, c, nid)
    BY ZenonT(40), <2>7, <2>15, <2>16, MateAdds
  <2>18. a.sock[c].id = id => MateAdded(m, k2, c, nid)
    BY <2>7, <2>15, <2>16, MateAdds
  <2>19. ASSUME NEW t \in Socks
         PROVE  /\ k2.sock[t].used = f.sock[t].used /\ k2.sock[t].listening = f.sock[t].listening
                /\ k2.sock[t].id = f.sock[t].id /\ k2.sock[t].buf = f.sock[t].buf
                /\ f.sock[t].mates \subseteq k2.sock[t].mates
                /\ k2.sock[t].peer = IF t = c THEN n ELSE f.sock[t].peer
                /\ k2.sock[t].pending = IF t = s THEN rest ELSE f.sock[t].pending
                /\ m.sock[t].mates \subseteq k2.sock[t].mates
                /\ a.sock[t].id = f.sock[t].id
    <3>1. /\ a.sock[t].used = f.sock[t].used /\ a.sock[t].listening = f.sock[t].listening
          /\ a.sock[t].id = f.sock[t].id /\ a.sock[t].buf = f.sock[t].buf
          /\ a.sock[t].mates = f.sock[t].mates /\ a.sock[t].peer = f.sock[t].peer
          /\ a.sock[t].pending = IF t = s THEN rest ELSE f.sock[t].pending
      BY <2>11, Zenon DEF QueueSet
    <3>2. /\ d.sock[t].used = a.sock[t].used /\ d.sock[t].listening = a.sock[t].listening
          /\ d.sock[t].id = a.sock[t].id /\ d.sock[t].buf = a.sock[t].buf
          /\ d.sock[t].mates = a.sock[t].mates /\ d.sock[t].pending = a.sock[t].pending
          /\ d.sock[t].peer = IF t = c THEN n ELSE a.sock[t].peer
      <4>1. /\ b.sock[t].used = a.sock[t].used /\ b.sock[t].listening = a.sock[t].listening
            /\ b.sock[t].id = a.sock[t].id /\ b.sock[t].buf = a.sock[t].buf
            /\ b.sock[t].mates = a.sock[t].mates /\ b.sock[t].pending = a.sock[t].pending
            /\ b.sock[t].peer = IF t = c THEN n ELSE a.sock[t].peer
        BY <2>12, Zenon DEF PeerSet
      <4>2. d.sock[t] = b.sock[t]
        BY <2>13, Zenon
      <4>3. QED
        BY <4>1, <4>2, Zenon
    <3>3. /\ m.sock[t].used = d.sock[t].used /\ m.sock[t].listening = d.sock[t].listening
          /\ m.sock[t].id = d.sock[t].id /\ m.sock[t].buf = d.sock[t].buf
          /\ m.sock[t].pending = d.sock[t].pending /\ m.sock[t].peer = d.sock[t].peer
          /\ d.sock[t].mates \subseteq m.sock[t].mates
      BY <2>14, Zenon DEF MateAdded
    <3>4. /\ k2.sock[t].used = m.sock[t].used /\ k2.sock[t].listening = m.sock[t].listening
          /\ k2.sock[t].id = m.sock[t].id /\ k2.sock[t].buf = m.sock[t].buf
          /\ k2.sock[t].pending = m.sock[t].pending /\ k2.sock[t].peer = m.sock[t].peer
          /\ m.sock[t].mates \subseteq k2.sock[t].mates
      BY <2>17, Zenon DEF MateAdded
    <3>5. QED
      BY <3>1, <3>2, <3>3, <3>4, ZenonT(40)
  <2>20. k2.reused = (k.reused \/ Held(k, n))
    <3>1. f.reused = (k.reused \/ Held(k, n))
      BY <2>9, Zenon DEF FreshIs
    <3>2. a.reused = f.reused /\ b.reused = a.reused /\ d.reused = b.reused /\ m.reused = d.reused
      BY <2>11, <2>12, <2>13, <2>14, Zenon DEF QueueSet, PeerSet, MateAdded
    <3>3. k2.reused = m.reused
      BY <2>17, Zenon DEF MateAdded
    <3>4. QED
      BY <3>1, <3>2, <3>3, Zenon
  <2>21. id \in k2.sock[n].mates
    BY <2>1, <2>14, <2>19, Zenon DEF MateAdded
  <2>22. ASSUME c # n, k.sock[c].id = id
         PROVE  k2.sock[n].id \in k2.sock[c].mates
    <3>1. f.sock[c] = k.sock[c]
      BY <2>9, <2>22, Zenon DEF FreshIs
    <3>2. a.sock[c].id = id
      BY <2>19, <2>22, <3>1, ZenonT(40)
    <3>3. nid \in k2.sock[c].mates
      BY <2>18, <3>2, Zenon DEF MateAdded
    <3>4. nid = k2.sock[n].id
      BY <2>1, <2>16, <2>19, Zenon
    <3>5. QED
      BY <3>3, <3>4, Zenon
  <2>23. /\ k2.sock[n].pending = <<>> /\ k2.sock[n].buf = <<>> /\ (c # n => k2.sock[n].peer = c)
    BY <2>1, <2>9, <2>19, Zenon DEF FreshIs
  <2>24. \A t \in Socks \ {n} :
           /\ k2.sock[t].used = k.sock[t].used /\ k2.sock[t].listening = k.sock[t].listening
           /\ k2.sock[t].id = k.sock[t].id /\ k2.sock[t].buf = k.sock[t].buf
           /\ k.sock[t].mates \subseteq k2.sock[t].mates
           /\ k2.sock[t].peer = IF t = c THEN n ELSE k.sock[t].peer
           /\ k2.sock[t].pending = IF t = s THEN Tail(k.sock[t].pending) ELSE k.sock[t].pending
    <3>1. TAKE t \in Socks \ {n}
    <3>2. f.sock[t] = k.sock[t]
      BY <2>9, Zenon DEF FreshIs
    <3>3. t = s => Tail(k.sock[t].pending) = rest
      BY <1>3, <1>5, Zenon
    <3>4. /\ k2.sock[t].used = f.sock[t].used /\ k2.sock[t].listening = f.sock[t].listening
          /\ k2.sock[t].id = f.sock[t].id /\ k2.sock[t].buf = f.sock[t].buf
          /\ f.sock[t].mates \subseteq k2.sock[t].mates
          /\ k2.sock[t].peer = IF t = c THEN n ELSE f.sock[t].peer
          /\ k2.sock[t].pending = IF t = s THEN rest ELSE f.sock[t].pending
      BY <2>19, Zenon
    <3>5. QED
      BY <3>2, <3>3, <3>4, ZenonT(40)
  <2>25. k.sock[s].pending # <<>> /\ Head(k.sock[s].pending).at = c /\ Head(k.sock[s].pending).id = id
    BY <1>3, <1>4, <1>6, Zenon
  <2>26. Accepted(k, k2, s, c, n)
    BY <1>2, <2>1, <2>20, <2>21, <2>22, <2>23, <2>24, <2>25, ZenonT(40) DEF Accepted
  <2>27. QED
    BY <1>2, <2>1, <2>26, Zenon
<1>9. QED
  BY <1>7, <1>8, Zenon
-----------------------------------------------------------------------------
(* The specification. *)

\* No descriptor is open at boot.
LEMMA InitGood == Init => Good(Kernel)
<1>1. SUFFICES ASSUME Init PROVE Good(Kernel)
  OBVIOUS
<1>2. Unmade \in SocketType
  <2>1. <<>> \in Queues /\ <<>> \in Buffers /\ {} \in SUBSET Nat
    BY DEF Queues, Buffers
  <2>2. QED
    BY <2>1, Constants DEF SocketType, Unmade, None
<1>3. Closed \in [Fds -> [used: BOOLEAN, sock: 0..NSocks]] /\ \A i \in Fds : ~Closed[i].used
  BY Constants DEF Closed, None
<1>4. Kernel \in KernelType
  <2>1. sock \in [Socks -> SocketType] /\ fd \in Tables /\ made \in Nat /\ reused \in BOOLEAN
    BY <1>1, <1>2, <1>3, Zenon DEF Init, Tables
  <2>2. QED
    BY <2>1, Zenon DEF Kernel, KernelType
<1>5. \A p \in Procs, i \in Fds : ~OpenIn(Kernel, p, i)
  BY <1>1, <1>3 DEF Init, Kernel, OpenIn
<1>6. QED
  BY <1>4, <1>5, Zenon DEF Good, Owns

\* A step to a good kernel state ends in one.
LEMMA BecomeGood ==
  ASSUME NEW k, Good(k), Become(k)
  PROVE  Good(Kernel)'
<1>1. k = [sock |-> k.sock, fd |-> k.fd, made |-> k.made, reused |-> k.reused]
  BY DEF Good, KernelType
<1>2. Kernel' = k
  BY <1>1 DEF Become, Kernel
<1>3. QED
  BY <1>2

\* No call breaks the invariant, while no socket is shared.
LEMMA NextGood ==
  ASSUME Workload \subseteq {"reconnect"}, Good(Kernel), [Next]_vars
  PROVE  Good(Kernel)'
<1>1. CASE UNCHANGED vars
  <2>1. Kernel' = Kernel
    BY <1>1, Zenon DEF vars, Kernel
  <2>2. QED
    BY <2>1, Zenon
<1>2. CASE Next
  <2>1. PICK p \in Procs :
          \/ \E pair \in {FALSE} \cup {w = "pair" : w \in Workload} : SYS_socket(p, pair)
          \/ \E parent \in {p} \cup {q \in Procs : "fork" \in Workload} : Renew(p, parent)
          \/ \E i \in Fds :
               \/ SYS_listen(p, i) \/ SYS_accept(p, i) \/ SYS_sendto(p, i) \/ SYS_recvfrom(p, i) \/ SYS_close(p, i)
               \/ \E path \in 1..NPaths : SYS_bind(p, i, path) \/ SYS_connect(p, i, path)
    BY <1>2, Zenon DEF Next
  <2>2. CASE \E pair \in {FALSE} \cup {w = "pair" : w \in Workload} : SYS_socket(p, pair)
    <3>1. \A w \in Workload : (w = "pair") = FALSE
      <4>1. "reconnect" # "pair"
        OBVIOUS
      <4>2. QED
        BY <4>1
    <3>2. SYS_socket(p, FALSE)
      BY <2>2, <3>1, Zenon
    <3>3. Become(socket(Kernel, p))
      BY <3>2 DEF SYS_socket
    <3>4. QED
      BY <3>3, socketGood, BecomeGood
  <2>3. CASE \E parent \in {p} \cup {q \in Procs : "fork" \in Workload} : Renew(p, parent)
    <3>1. Renew(p, p)
      BY <2>3, Zenon
    <3>2. Become(fds_close_exec(Kernel, p)) /\ Good(fds_close_exec(Kernel, p))
      BY <3>1, fds_close_execGood, Zenon DEF Renew
    <3>3. QED
      BY <3>2, BecomeGood, Zenon
  <2>4. ASSUME NEW i \in Fds, Open(p, i)
        PROVE  /\ OpenIn(Kernel, p, i) /\ SockOf(p, i) = Kernel.fd[p][i].sock
               /\ SockOf(p, i) \in Socks /\ Kernel.sock = sock /\ Kernel \in KernelType
    <3>1. OpenIn(Kernel, p, i) /\ SockOf(p, i) = Kernel.fd[p][i].sock /\ Kernel.sock = sock
      BY <2>4, Zenon DEF Open, SockOf, OpenIn, Kernel
    <3>2. QED
      BY <3>1, OpenHasSocket, Zenon DEF Good
  <2>5. ASSUME NEW k, Kept(Kernel, k), Become(k)
        PROVE  Good(Kernel)'
    BY <2>5, KeptGood, BecomeGood, Zenon
  <2>6. ASSUME NEW i \in Fds, SYS_listen(p, i)
        PROVE  Good(Kernel)'
    BY <2>4, <2>5, <2>6, listenKept DEF SYS_listen
  <2>7. ASSUME NEW i \in Fds, SYS_accept(p, i)
        PROVE  Good(Kernel)'
    <3>1. Good(accept(Kernel, p, i)) /\ Become(accept(Kernel, p, i))
      BY <2>4, <2>7, acceptGood, Zenon DEF SYS_accept
    <3>2. QED
      BY <3>1, BecomeGood, Zenon
  <2>8. ASSUME NEW i \in Fds, SYS_sendto(p, i)
        PROVE  Good(Kernel)'
    <3>1. sock[SockOf(p, i)].peer \in 0..NSocks
      BY <2>4, <2>8, SockAt, Zenon DEF SYS_sendto, SocketType
    <3>2. QED
      BY <2>4, <2>5, <2>8, <3>1, sock_pushKept DEF SYS_sendto
  <2>9. ASSUME NEW i \in Fds, SYS_recvfrom(p, i)
        PROVE  Good(Kernel)'
    BY <2>4, <2>5, <2>9, sock_popKept DEF SYS_recvfrom
  <2>10. ASSUME NEW i \in Fds, SYS_close(p, i)
         PROVE  Good(Kernel)'
    <3>1. Good(close_fd(Kernel, p, i)) /\ Become(close_fd(Kernel, p, i))
      BY <2>4, <2>10, close_fdGood, Zenon DEF SYS_close
    <3>2. QED
      BY <3>1, BecomeGood
  <2>11. ASSUME NEW i \in Fds, NEW path \in 1..NPaths, SYS_bind(p, i, path)
         PROVE  Good(Kernel)'
    <3>1. path \in Nat
      BY SocketsAssumption
    <3>2. QED
      BY <2>4, <2>5, <2>11, <3>1, bindKept DEF SYS_bind
  <2>12. ASSUME NEW i \in Fds, NEW path \in 1..NPaths, SYS_connect(p, i, path)
         PROVE  Good(Kernel)'
    BY <2>4, <2>5, <2>12, connectKept, Zenon DEF SYS_connect
  <2>13. QED
    BY ZenonT(40), <2>1, <2>2, <2>3, <2>6, <2>7, <2>8, <2>9, <2>10, <2>11, <2>12
<1>3. QED
  BY <1>1, <1>2, Zenon

\* What a step may do to the links between sockets.
Effect(k, k2) ==
    \/ Steady(k, k2) /\ (NoneSent(k, k2) \/ \E s \in Socks : Sent(k, k2, s))
    \/ \E n \in Socks : Opened(k, k2, n)
    \/ \E s, srv \in Socks :
         /\ Connected(k, k2, s, srv)
         /\ (k.sock[s].peer = None /\ ~k.sock[s].listening) \/ "reconnect" \in Workload
    \/ \E s, c, n \in Socks : Accepted(k, k2, s, c, n)

\* Every call has one of these effects, while no socket is shared.
LEMMA NextEffect ==
  ASSUME Workload \subseteq {"reconnect"}, Good(Kernel), [Next]_vars
  PROVE  Effect(Kernel, Kernel')
<1>1. PICK k : k = Kernel
  BY Zenon
<1>2. k \in KernelType /\ Good(k) /\ k.sock = sock /\ k.fd = fd
  BY <1>1, Zenon DEF Good, Kernel
<1>3. ASSUME NEW k2, Become(k2), k2 \in KernelType
      PROVE  Kernel' = k2
  <2>1. k2 = [sock |-> k2.sock, fd |-> k2.fd, made |-> k2.made, reused |-> k2.reused]
    BY <1>3 DEF KernelType
  <2>2. QED
    BY <1>3, <2>1 DEF Become, Kernel
<1>4. ASSUME NEW k2, Become(k2), Steady(k, k2), NoneSent(k, k2) \/ \E s \in Socks : Sent(k, k2, s)
      PROVE  Effect(k, Kernel')
  <2>1. Kernel' = k2
    BY <1>3, <1>4, Zenon DEF Steady
  <2>2. QED
    BY <1>4, <2>1, Zenon DEF Effect
<1>5. Effect(k, k)
  BY <1>2, SameSteady, Zenon DEF Effect
<1>6. CASE UNCHANGED vars
  <2>1. Kernel' = k
    BY <1>1, <1>6, Zenon DEF vars, Kernel
  <2>2. QED
    BY <1>1, <1>5, <2>1, Zenon
<1>7. CASE Next
  <2>1. PICK p \in Procs :
          \/ \E pair \in {FALSE} \cup {w = "pair" : w \in Workload} : SYS_socket(p, pair)
          \/ \E parent \in {p} \cup {q \in Procs : "fork" \in Workload} : Renew(p, parent)
          \/ \E i \in Fds :
               \/ SYS_listen(p, i) \/ SYS_accept(p, i) \/ SYS_sendto(p, i) \/ SYS_recvfrom(p, i) \/ SYS_close(p, i)
               \/ \E path \in 1..NPaths : SYS_bind(p, i, path) \/ SYS_connect(p, i, path)
    BY <1>7, Zenon DEF Next
  <2>2. CASE \E pair \in {FALSE} \cup {w = "pair" : w \in Workload} : SYS_socket(p, pair)
    <3>1. \A w \in Workload : (w = "pair") = FALSE
      <4>1. "reconnect" # "pair"
        OBVIOUS
      <4>2. QED
        BY <4>1
    <3>2. SYS_socket(p, FALSE)
      BY <2>2, <3>1, Zenon
    <3>3. PICK k2 : k2 = socket(k, p) /\ Become(k2)
      BY <1>1, <3>2 DEF SYS_socket
    <3>4. Kernel' = k2
      BY <1>2, <1>3, <3>3, socketGood, Zenon DEF Good
    <3>5. Effect(k, k2)
      BY <1>2, <1>5, <3>3, socketOpens, Zenon DEF Effect
    <3>6. QED
      BY <1>1, <3>4, <3>5, Zenon
  <2>3. CASE \E parent \in {p} \cup {q \in Procs : "fork" \in Workload} : Renew(p, parent)
    <3>1. Renew(p, p)
      BY <2>3, Zenon
    <3>2. PICK k2 : k2 = fds_close_exec(k, p) /\ Become(k2)
      BY <1>1, <3>1, Zenon DEF Renew
    <3>3. k2 \in KernelType
      BY <1>2, <3>2, fds_close_execGood, Zenon DEF Good
    <3>4. k2.sock = k.sock /\ k2.reused = k.reused
      BY <1>2, <3>2 DEF fds_close_exec, KernelType
    <3>5. Steady(k, k2) /\ NoneSent(k, k2)
      BY <1>2, <3>3, <3>4, SameSteady, Zenon
    <3>6. QED
      BY <1>1, <1>4, <3>2, <3>5, Zenon
  <2>4. ASSUME NEW i \in Fds, Open(p, i)
        PROVE  /\ OpenIn(k, p, i) /\ SockOf(p, i) = k.fd[p][i].sock
               /\ SockOf(p, i) \in Socks /\ k.sock[SockOf(p, i)].used
    <3>1. OpenIn(k, p, i) /\ SockOf(p, i) = k.fd[p][i].sock
      BY <1>2, <2>4, Zenon DEF Open, SockOf, OpenIn
    <3>2. k.fd[p][i].sock \in Socks /\ k.sock[k.fd[p][i].sock].used
      BY <1>2, <3>1, OpenHasSocket, Zenon DEF Good, Owns
    <3>3. QED
      BY <3>1, <3>2, Zenon
  <2>5. ASSUME NEW i \in Fds, SYS_listen(p, i)
        PROVE  Effect(Kernel, Kernel')
    <3>1. PICK s \in Socks : s = SockOf(p, i)
      BY <2>4, <2>5, Zenon DEF SYS_listen
    <3>2. Become([k EXCEPT !.sock[s].listening = TRUE])
      BY <1>1, <2>5, <3>1, Zenon DEF SYS_listen
    <3>3. /\ Steady(k, [k EXCEPT !.sock[s].listening = TRUE])
          /\ NoneSent(k, [k EXCEPT !.sock[s].listening = TRUE])
      <4>1. 0 \in Nat
        OBVIOUS
      <4>2. QED
        BY <1>2, <4>1, bindSteady, Zenon
    <3>4. QED
      BY <1>1, <1>4, <3>2, <3>3, Zenon
  <2>6. ASSUME NEW i \in Fds, NEW path \in 1..NPaths, SYS_bind(p, i, path)
        PROVE  Effect(Kernel, Kernel')
    <3>1. PICK s \in Socks : s = SockOf(p, i)
      BY <2>4, <2>6, Zenon DEF SYS_bind
    <3>2. Become([k EXCEPT !.sock[s].path = path])
      BY <1>1, <2>6, <3>1, Zenon DEF SYS_bind
    <3>3. path \in Nat
      BY SocketsAssumption
    <3>4. Steady(k, [k EXCEPT !.sock[s].path = path]) /\ NoneSent(k, [k EXCEPT !.sock[s].path = path])
      BY <1>2, <3>3, bindSteady, Zenon
    <3>5. QED
      BY <1>1, <1>4, <3>2, <3>4, Zenon
  <2>7. ASSUME NEW i \in Fds, SYS_accept(p, i)
        PROVE  Effect(Kernel, Kernel')
    <3>1. OpenIn(k, p, i) /\ k.sock[k.fd[p][i].sock].pending # <<>>
      BY <1>2, <2>4, <2>7, Zenon DEF SYS_accept
    <3>2. PICK k2 : k2 = accept(k, p, i) /\ Become(k2)
      BY <1>1, <2>7, Zenon DEF SYS_accept
    <3>3. Kernel' = k2
      BY <1>2, <1>3, <3>1, <3>2, acceptGood, Zenon DEF Good
    <3>4. Effect(k, k2)
      BY <1>2, <3>1, <3>2, acceptAccepts, Zenon DEF Effect
    <3>5. QED
      BY <1>1, <3>3, <3>4, Zenon
  <2>8. ASSUME NEW i \in Fds, SYS_sendto(p, i)
        PROVE  Effect(Kernel, Kernel')
    <3>1. PICK s \in Socks : s = SockOf(p, i) /\ k.sock[s].used
      BY <2>4, <2>8, Zenon DEF SYS_sendto
    <3>2. PICK k2 : k2 = sock_push(k, k.sock[s].peer, s) /\ Become(k2)
      BY <1>1, <1>2, <2>8, <3>1, Zenon DEF SYS_sendto
    <3>3. Steady(k, k2) /\ (NoneSent(k, k2) \/ Sent(k, k2, s))
      BY <1>2, <3>1, <3>2, pushSent, Zenon
    <3>4. QED
      BY <1>1, <1>4, <3>2, <3>3, Zenon
  <2>9. ASSUME NEW i \in Fds, SYS_recvfrom(p, i)
        PROVE  Effect(Kernel, Kernel')
    <3>1. PICK s \in Socks : s = SockOf(p, i)
      BY <2>4, <2>9, Zenon DEF SYS_recvfrom
    <3>2. Become(sock_pop(k, s))
      BY <1>1, <2>9, <3>1, Zenon DEF SYS_recvfrom
    <3>3. QED
      BY <1>1, <1>2, <1>4, <3>2, popSteady, Zenon
  <2>10. ASSUME NEW i \in Fds, SYS_close(p, i)
         PROVE  Effect(Kernel, Kernel')
    <3>1. OpenIn(k, p, i) /\ Become(close_fd(k, p, i))
      BY <1>1, <2>4, <2>10, Zenon DEF SYS_close
    <3>2. QED
      BY <1>1, <1>2, <1>4, <3>1, closeSteady, Zenon
  <2>11. ASSUME NEW i \in Fds, NEW path \in 1..NPaths, SYS_connect(p, i, path)
         PROVE  Effect(Kernel, Kernel')
    <3>1. PICK s \in Socks : s = SockOf(p, i) /\ k.sock[s].used
      BY <2>4, <2>11, Zenon DEF SYS_connect
    <3>2. (k.sock[s].peer = None /\ ~k.sock[s].listening) \/ "reconnect" \in Workload
      BY <1>2, <2>11, <3>1, Zenon DEF SYS_connect
    <3>3. PICK k2 : k2 = connect(k, s, path) /\ Become(k2)
      BY <1>1, <2>11, <3>1, Zenon DEF SYS_connect
    <3>4. Kernel' = k2
      BY <1>2, <1>3, <3>3, connectKept, Zenon DEF Kept
    <3>5. Effect(k, k2)
      <4>1. CASE k2 = k
        BY <1>5, <4>1, Zenon
      <4>2. CASE k2 # k
        <5>1. PICK srv \in Socks : Connected(k, k2, s, srv)
          BY <1>2, <3>1, <3>3, <4>2, connectConnects, Zenon
        <5>2. QED
          BY <3>2, <5>1, Zenon DEF Effect
      <4>3. QED
        BY <4>1, <4>2, Zenon
    <3>6. QED
      BY <1>1, <3>4, <3>5, Zenon
  <2>12. QED
    BY ZenonT(40), <2>1, <2>2, <2>3, <2>5, <2>6, <2>7, <2>8, <2>9, <2>10, <2>11
<1>8. QED
  BY <1>6, <1>7, Zenon

\* No effect makes a stranger.
LEMMA EffectAcquainted ==
  ASSUME NEW k, NEW k2, Acquainted(k), Effect(k, k2)
  PROVE  Acquainted(k2)
  BY SteadyAcquainted, OpenedAcquainted, ConnectedAcquainted, AcceptedAcquainted, Zenon DEF Effect

\* No effect parts a pair, while only a socket with no peer connects.
LEMMA EffectMutual ==
  ASSUME NEW k, NEW k2, Mutual(k), Effect(k, k2), "reconnect" \notin Workload
  PROVE  Mutual(k2)
  BY SteadyMutual, OpenedMutual, ConnectedMutual, AcceptedMutual, Zenon DEF Effect

\* Every open descriptor is of a socket in use that no other descriptor has, for
\* any number of processes, descriptors and sockets, whatever the order of
\* socket, bind, listen, connect, accept, send, receive, close and exit: what
\* sock_alloc, alloc_fd and close_fd (syscall.c) keep with no count of users,
\* as long as no process asks for a socket pair or forks.
THEOREM FdOwnsSocketAlways ==
  ASSUME Workload \subseteq {"reconnect"}
  PROVE  Spec => []FdOwnsSocket
<1>1. Init => Good(Kernel)
  BY InitGood, Zenon
<1>2. Good(Kernel) /\ [Next]_vars => Good(Kernel)'
  BY NextGood, Zenon
<1>3. Good(Kernel) => FdOwnsSocket
  BY DEF Good, Owns, OpenIn, FdOwnsSocket, Open, SockOf, Kernel
<1>4. QED
  BY <1>1, <1>2, <1>3, PTL DEF Spec

\* A socket reads only what a socket it was connected to has sent, unless an
\* index was given out while another socket named it: for any number of
\* processes, descriptors, sockets, paths, queue and buffer sizes, and also when
\* connected and listening sockets connect again (syscall.c SYS_connect has no
\* guard against it).
THEOREM StrangersOnlyAfterReuseAlways ==
  ASSUME Workload \subseteq {"reconnect"}
  PROVE  Spec => []StrangersOnlyAfterReuse
<1> DEFINE IInv == Good(Kernel) /\ Acquainted(Kernel)
<1>1. Init => IInv
  <2>1. Init => \A s \in Socks : ~Kernel.sock[s].used
    BY DEF Init, Unmade, Kernel
  <2>2. Init => Acquainted(Kernel)
    BY <2>1, Zenon DEF Acquainted
  <2>3. QED
    BY <2>2, InitGood, Zenon
<1>2. IInv /\ [Next]_vars => IInv'
  <2>1. SUFFICES ASSUME Good(Kernel), Acquainted(Kernel), [Next]_vars
                 PROVE  Good(Kernel)' /\ Acquainted(Kernel')
    BY DEF Acquainted, KnownTo
  <2>2. Good(Kernel)'
    BY <2>1, NextGood, Zenon
  <2>3. Effect(Kernel, Kernel')
    BY <2>1, NextEffect, Zenon
  <2>4. QED
    BY <2>1, <2>2, <2>3, EffectAcquainted, Zenon
<1>3. IInv => StrangersOnlyAfterReuse
  <2>1. SUFFICES ASSUME Acquainted(Kernel), ~reused, NEW s \in Socks, sock[s].used
                 PROVE  Entries(sock[s].buf) \subseteq sock[s].mates
    BY ZenonT(40) DEF StrangersOnlyAfterReuse, Entries
  <2>2. Kernel.sock = sock /\ Kernel.reused = reused
    BY ZenonT(40) DEF Kernel
  <2>3. QED
    BY <2>1, <2>2, Zenon DEF Acquainted, KnownTo
<1>4. QED
  BY <1>1, <1>2, <1>3, PTL DEF Spec

\* After accept the two ends name each other, unless an index was given out
\* while another socket named it (syscall.c SYS_connect, SYS_accept), for any
\* number of processes, descriptors, sockets and paths, when no socket with a
\* peer, and no listener, connects.
THEOREM PairsMutualAlways ==
  ASSUME Workload = {}
  PROVE  Spec => []PairsMutual
<1> DEFINE IInv == Good(Kernel) /\ Mutual(Kernel)
<1>1. Init => IInv
  <2>1. Init => \A s \in Socks : ~Kernel.sock[s].used
    BY DEF Init, Unmade, Kernel
  <2>2. Init => Mutual(Kernel)
    BY <2>1, Zenon DEF Mutual
  <2>3. QED
    BY <2>2, InitGood, Zenon
<1>2. IInv /\ [Next]_vars => IInv'
  <2>1. SUFFICES ASSUME Good(Kernel), Mutual(Kernel), [Next]_vars
                 PROVE  Good(Kernel)' /\ Mutual(Kernel')
    BY ZenonT(40) DEF Mutual, Paired, Waiting
  <2>2. Workload \subseteq {"reconnect"} /\ "reconnect" \notin Workload
    OBVIOUS
  <2>3. Good(Kernel)'
    BY <2>1, <2>2, NextGood, Zenon
  <2>4. Effect(Kernel, Kernel')
    BY <2>1, <2>2, NextEffect, Zenon
  <2>5. QED
    BY <2>1, <2>2, <2>3, <2>4, EffectMutual, ZenonT(40)
<1>3. IInv => PairsMutual
  <2>1. SUFFICES ASSUME Mutual(Kernel) PROVE PairsMutual
    BY Zenon
  <2>2. Kernel.sock = sock /\ Kernel.reused = reused
    BY ZenonT(40) DEF Kernel
  <2>3. QED
    BY <2>1, <2>2, Zenon DEF Mutual, Paired, PairsMutual
<1>4. QED
  BY <1>1, <1>2, <1>3, PTL DEF Spec
=============================================================================
