------------------------------ MODULE Sockets -------------------------------
(***************************************************************************)
(* The AF_UNIX sockets of src/OvsbMk/kernel/syscall.c: a table of sockets, *)
(* each with the buffer its peer writes into, the index of that peer and,  *)
(* for a listener, the queue of clients that wait for accept; and the      *)
(* descriptors of each process.  Indices are never counted or checked: a   *)
(* closed socket's index goes to the next one made.  Each socket made has  *)
(* an identity of its own here (id), which the code does not have: bytes   *)
(* and queued clients carry it, and mates are the identities a socket was  *)
(* connected to.                                                           *)
(***************************************************************************)
EXTENDS Integers, Sequences, TLC

CONSTANTS
    Procs,      \* processes
    NFds,       \* descriptors of a process
    NSocks,     \* MAX_SOCKS
    SockQueue,  \* SOCK_QUEUE
    SockBuf,    \* bytes a socket's buffer holds
    NPaths,     \* names a socket may be bound to
    MaxIds,     \* how many sockets are ever made
    Workload    \* "pair" a socketpair, "reconnect" a second connect, "fork" a fork with sockets open

ASSUME SocketsAssumption ==
    /\ {NFds, NSocks, SockQueue, SockBuf, NPaths, MaxIds} \subseteq Nat \ {0}
    /\ Workload \subseteq {"pair", "reconnect", "fork"}

Fds == 1..NFds
Socks == 1..NSocks
None == 0

VARIABLES
    sock,       \* socks[]
    fd,         \* fd[p][i]: descriptor i of p; closing one leaves its sock_idx in place
    made,       \* sockets made so far
    reused      \* has an index been given out while another socket held it?

vars == <<sock, fd, made, reused>>

Unmade == [used |-> FALSE, path |-> 0, listening |-> FALSE, peer |-> None,
           pending |-> <<>>, buf |-> <<>>, id |-> 0, mates |-> {}]

\* A socket just made.
Made(peer, id) == [used |-> TRUE, path |-> 0, listening |-> FALSE, peer |-> peer,
                   pending |-> <<>>, buf |-> <<>>, id |-> id, mates |-> {}]

Closed == [i \in Fds |-> [used |-> FALSE, sock |-> None]]

Kernel == [sock |-> sock, fd |-> fd, made |-> made, reused |-> reused]
Become(k) == sock' = k.sock /\ fd' = k.fd /\ made' = k.made /\ reused' = k.reused

First(S) == IF S = {} THEN None ELSE CHOOSE i \in S : \A j \in S : i <= j

-----------------------------------------------------------------------------
(* The helpers. *)

sock_alloc(k) == First({s \in Socks : ~k.sock[s].used})
alloc_fd(k, p) == First({i \in Fds : ~k.fd[p][i].used})
Install(k, p, i, s) == [k EXCEPT !.fd[p][i] = [used |-> TRUE, sock |-> s]]
sock_by_path(k, path) ==
    First({s \in Socks : k.sock[s].used /\ k.sock[s].listening /\ k.sock[s].path = path})

\* Does another socket still hold the index s, as peer or in its queue?
Held(k, s) ==
    \E t \in Socks \ {s} : /\ k.sock[t].used
                           /\ k.sock[t].peer = s \/ \E i \in DOMAIN k.sock[t].pending : k.sock[t].pending[i].at = s

\* Mutant: the buffer of the socket that had the index before is kept.
Fresh_Variant(k, s, peer) ==
    [k EXCEPT !.sock[s] = [Made(peer, k.made + 1) EXCEPT !.buf = k.sock[s].buf],
              !.made = k.made + 1, !.reused = k.reused \/ Held(k, s)]

\* The fields socket, accept and socketpair all set on a socket they take.
Fresh(k, s, peer) ==
    [k EXCEPT !.sock[s] = Made(peer, k.made + 1),
              !.made = k.made + 1, !.reused = k.reused \/ Held(k, s)]

Mate(k, s, i) == [k EXCEPT !.sock[s].mates = @ \cup {i}]

\* A byte into the buffer of s; nothing if s is closed or full.
sock_push(k, s, from) ==
    IF s = None \/ ~k.sock[s].used \/ Len(k.sock[s].buf) >= SockBuf THEN k
    ELSE [k EXCEPT !.sock[s].buf = Append(@, k.sock[from].id)]

sock_pop(k, s) ==
    IF ~k.sock[s].used \/ k.sock[s].buf = <<>> THEN k ELSE [k EXCEPT !.sock[s].buf = Tail(@)]

\* Mutant: the socket is released and the descriptor is not.
close_fd_Variant(k, p, i) == [k EXCEPT !.sock[k.fd[p][i].sock].used = FALSE]

\* The last word on a socket: whoever else has its index is not asked.
close_fd(k, p, i) ==
    [k EXCEPT !.sock[k.fd[p][i].sock].used = FALSE, !.fd[p][i].used = FALSE]

-----------------------------------------------------------------------------
(* The calls of process p on its descriptor i. *)

socket(k, p) ==
    LET s == sock_alloc(k) i == alloc_fd(k, p)
    IN  IF s = None \/ i = None THEN k ELSE Install(Fresh(k, s, None), p, i, s)

\* Both indices are taken before either is marked as used.  Without a free
\* socket the two descriptors stay open, with the sock_idx they last had.
socketpair(k, p) ==
    LET s1 == sock_alloc(k)
        s2 == sock_alloc(k)
        i1 == alloc_fd(k, p)
        one == [k EXCEPT !.fd[p][i1].used = TRUE]
        i2 == alloc_fd(one, p)
        two == [one EXCEPT !.fd[p][i2].used = TRUE]
        both == Fresh(Fresh(two, s1, s2), s2, s1)
        joined == Mate(Mate(both, s1, both.sock[s2].id), s2, both.sock[s1].id)
    IN  CASE i1 = None -> k
          [] i1 # None /\ i2 = None -> k
          [] i1 # None /\ i2 # None /\ s1 = None -> two
          [] OTHER -> Install(Install(joined, p, i1, s1), p, i2, s2)

SYS_socket(p, pair) ==
    /\ made + (IF pair THEN 2 ELSE 1) <= MaxIds
    /\ Become(IF pair THEN socketpair(Kernel, p) ELSE socket(Kernel, p))

SockOf(p, i) == fd[p][i].sock
Open(p, i) == fd[p][i].used /\ SockOf(p, i) # None

SYS_bind(p, i, path) == Open(p, i) /\ Become([Kernel EXCEPT !.sock[SockOf(p, i)].path = path])

SYS_listen(p, i) == Open(p, i) /\ Become([Kernel EXCEPT !.sock[SockOf(p, i)].listening = TRUE])

\* Until accept, the client's peer is the listener itself.
connect(k, s, path) ==
    LET srv == sock_by_path(k, path)
        queued == [k EXCEPT !.sock[s].peer = srv,
                            !.sock[srv].pending = Append(@, [at |-> s, id |-> k.sock[s].id])]
    IN  IF srv = None THEN k
        ELSE IF Len(k.sock[srv].pending) >= SockQueue THEN k
        ELSE Mate(Mate(queued, s, k.sock[srv].id), srv, k.sock[s].id)

SYS_connect(p, i, path) ==
    /\ Open(p, i)
    /\ \/ sock[SockOf(p, i)].peer = None /\ ~sock[SockOf(p, i)].listening
       \/ "reconnect" \in Workload
    /\ Become(connect(Kernel, SockOf(p, i), path))

\* Mutant: the client goes on talking to the listener.
accept_Variant(k, p, i) ==
    LET s == k.fd[p][i].sock
        cli == Head(k.sock[s].pending)
        popped == [k EXCEPT !.sock[s].pending = Tail(@)]
        nfd == alloc_fd(k, p)
        ns == sock_alloc(k)
    IN  IF nfd = None \/ ns = None THEN popped
        ELSE Mate(Install([Fresh(k, ns, cli.at) EXCEPT !.sock[s].pending = Tail(@)], p, nfd, ns), ns, cli.id)

\* The first client leaves the queue before a descriptor and a socket are
\* found for it, and is told its new peer by its index.
accept(k, p, i) ==
    LET s == k.fd[p][i].sock
        cli == Head(k.sock[s].pending)
        popped == [k EXCEPT !.sock[s].pending = Tail(@)]
        nfd == alloc_fd(k, p)
        ns == sock_alloc(k)
        new == [Fresh(k, ns, cli.at) EXCEPT !.sock[s].pending = Tail(@)]
        told == Install([new EXCEPT !.sock[cli.at].peer = ns], p, nfd, ns)
        mated == Mate(told, ns, cli.id)
    IN  IF nfd = None \/ ns = None THEN popped
        ELSE IF new.sock[cli.at].id = cli.id THEN Mate(mated, cli.at, new.sock[ns].id) ELSE mated

SYS_accept(p, i) ==
    /\ Open(p, i) /\ sock[SockOf(p, i)].pending # <<>> /\ made < MaxIds
    /\ Become(accept(Kernel, p, i))

SYS_sendto(p, i) == Open(p, i) /\ Become(sock_push(Kernel, sock[SockOf(p, i)].peer, SockOf(p, i)))
SYS_recvfrom(p, i) == Open(p, i) /\ Become(sock_pop(Kernel, SockOf(p, i)))
SYS_close(p, i) == Open(p, i) /\ Become(close_fd(Kernel, p, i))

\* At exit the descriptors go and the sockets stay.
fds_close_exec(k, p) == [k EXCEPT !.fd[p] = Closed]

\* A fork copies the table, and counts nothing.
fds_dup_into_slot(k, p, child) == [k EXCEPT !.fd[child] = k.fd[p]]

\* Process p ends, and its slot goes to a new program or to a child of parent.
Renew(p, parent) ==
    Become(IF parent = p THEN fds_close_exec(Kernel, p)
           ELSE fds_dup_into_slot(fds_close_exec(Kernel, p), parent, p))

Init ==
    /\ sock = [s \in Socks |-> Unmade]
    /\ fd = [p \in Procs |-> Closed]
    /\ made = 0 /\ reused = FALSE

Next ==
    \E p \in Procs :
        \/ \E pair \in {FALSE} \cup {w = "pair" : w \in Workload} : SYS_socket(p, pair)
        \/ \E parent \in {p} \cup {q \in Procs : "fork" \in Workload} : Renew(p, parent)
        \/ \E i \in Fds :
             \/ SYS_listen(p, i) \/ SYS_accept(p, i) \/ SYS_sendto(p, i) \/ SYS_recvfrom(p, i) \/ SYS_close(p, i)
             \/ \E path \in 1..NPaths : SYS_bind(p, i, path) \/ SYS_connect(p, i, path)

Spec == Init /\ [][Next]_vars

\* No process is told apart from another.
Symmetry == Permutations(Procs)

-----------------------------------------------------------------------------
Socket ==
    [used: BOOLEAN, path: 0..NPaths, listening: BOOLEAN, peer: 0..NSocks,
     pending: Seq([at: Socks, id: 1..MaxIds]), buf: Seq(1..MaxIds),
     id: 0..MaxIds, mates: SUBSET (1..MaxIds)]

\* Indices stay in the table, the queue of a listener within SOCK_QUEUE and a
\* buffer within its size.
TypeOK ==
    /\ \A s \in Socks : sock[s] \in Socket /\ Len(sock[s].pending) <= SockQueue /\ Len(sock[s].buf) <= SockBuf
    /\ fd \in [Procs -> [Fds -> [used: BOOLEAN, sock: 0..NSocks]]]
    /\ made \in 0..MaxIds /\ reused \in BOOLEAN

\* Every open descriptor is of a socket that is in use, and no two descriptors
\* are of the same one: close on one end cannot close another.  This is what
\* sock_alloc, alloc_fd and close_fd keep between them with no count of users.
FdOwnsSocket ==
    \A p, q \in Procs, i, j \in Fds :
        (Open(p, i) /\ Open(q, j)) =>
            /\ sock[SockOf(p, i)].used
            /\ SockOf(p, i) = SockOf(q, j) => (p = q /\ i = j)

\* A socket reads only what a socket it was connected to has sent, unless an
\* index was given out while another socket still named it as its peer or
\* queued it (its own accept included): no other order of connect, accept, send, close and exit mixes two
\* conversations.
StrangersOnlyAfterReuse ==
    ~reused => \A s \in Socks : sock[s].used => \A i \in DOMAIN sock[s].buf : sock[s].buf[i] \in sock[s].mates

\* After accept the two ends name each other: what one sends, the other reads
\* (syscall.c "cliente agora fala com o servidor"), again unless an index was
\* given out while held.
PairsMutual ==
    ~reused => \A s, t \in Socks :
        (sock[s].used /\ sock[t].used /\ ~sock[t].listening /\ sock[s].peer = t) => sock[t].peer = s

\* The table is only full of sockets someone can use.  The exit of a process
\* refutes it: fds_close_exec clears the descriptors and not the sockets.
SocketsReachable ==
    \A s \in Socks : sock[s].used => \E p \in Procs, i \in Fds : Open(p, i) /\ SockOf(p, i) = s

\* What a client sends reaches the socket accept makes for it.  A send before
\* the accept refutes it: it goes to the buffer of the listener.
ListenerBufferEmpty == \A s \in Socks : sock[s].pending # <<>> => sock[s].buf = <<>>

\* A client that still has the listener as its peer is waiting in its queue.
\* An accept with no descriptor or socket left refutes it: the client has left
\* the queue by then, and nobody will ever answer it.
WaitingIsQueued ==
    \A s, t \in Socks :
        (~reused /\ sock[s].used /\ sock[t].used /\ sock[t].listening /\ sock[s].peer = t /\ sock[t].peer # s)
        => \E i \in DOMAIN sock[t].pending : sock[t].pending[i].at = s
=============================================================================
