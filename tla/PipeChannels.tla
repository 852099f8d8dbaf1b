--------------------------- MODULE PipeChannels ---------------------------
(***************************************************************************)
(* What the pipes of OvsbMk/kernel/syscall.c promise: each one is a bounded  *)
(* first-in first-out channel of bytes.  A write appends a prefix of what   *)
(* it was given, a read removes a prefix of what is there and hands exactly *)
(* that to the caller, and only making the pipe anew empties it otherwise.  *)
(***************************************************************************)
EXTENDS Naturals, Sequences

CONSTANTS
    NPipes,     \* MAX_PIPES
    Cap,        \* bytes a pipe holds (4096)
    Bytes       \* the values a byte is told apart by

VARIABLES
    chan,       \* the bytes in each pipe, oldest first
    out         \* the bytes the last read returned

Data(n) == UNION {[1..m -> Bytes] : m \in 1..n}

Init ==
    /\ chan = [p \in 0..(NPipes - 1) |-> << >>]
    /\ out = << >>

Make(p) ==
    /\ chan' = [chan EXCEPT ![p] = << >>]
    /\ UNCHANGED out

Put(p) ==
    /\ \E bs \in Data(Cap - Len(chan[p])) :
           chan' = [chan EXCEPT ![p] = @ \o bs]
    /\ UNCHANGED out

Get(p) ==
    /\ \E n \in 0..Len(chan[p]) :
           /\ (n = 0) = (chan[p] = << >>)
           /\ out' = SubSeq(chan[p], 1, n)
           /\ chan' = [chan EXCEPT ![p] = SubSeq(@, n + 1, Len(@))]

Next == \E p \in 0..(NPipes - 1) : Make(p) \/ Put(p) \/ Get(p)

Spec == Init /\ [][Next]_<<chan, out>>

=============================================================================
