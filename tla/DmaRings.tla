------------------------------ MODULE DmaRings ------------------------------
(***************************************************************************)
(* The two drivers that hand memory to a device and poll for it to be done *)
(* with it: the control queue of src/OvsbMk/drivers/virtio_gpu.c and the   *)
(* transmit ring of src/OvsbMk/drivers/e1000.c.  A driver's globals are a  *)
(* record; the device's own steps are at the end of each part.             *)
(***************************************************************************)
EXTENDS Integers, Sequences, FiniteSets, Functions

CONSTANTS
    QSize,      \* descriptors of the virtqueue (256)
    TxCount     \* TX_DESC_COUNT

ASSUME DmaAssumption ==
    /\ QSize \in Nat /\ QSize % 4 = 0 /\ QSize >= 8
    /\ TxCount \in Nat /\ TxCount >= 2

-----------------------------------------------------------------------------
(* virtio_gpu.c.  A command has two descriptors, and the first one's index  *)
(* is its name.  Boot sends four commands, each flush two.                  *)

InitCommands == 4

\* posted and used are the two rings; mine is the command being waited for;
\* freed are commands whose buffers went back to the heap; got is the last
\* answer that was taken, for which command.
vq_init == [next |-> 0, posted |-> <<>>, used |-> <<>>, last |-> 0, active |-> FALSE,
            stage |-> 1, at |-> "post", mine |-> -1, freed |-> {}, got |-> <<-1, -1>>, late |-> FALSE]

\* Without a device, its capabilities or its features there is no first command.
virtio_gpu_init(found) == IF found THEN vq_init ELSE [vq_init EXCEPT !.stage = 0, !.at = "idle"]

InFlight(g) == Range(g.posted) \ Range(g.used)

\* Stages 1..4 are virtio_gpu_init, 5 and 6 virtio_gpu_flush; 0 is neither.
\* The boot commands' buffers are freed whatever vg_cmd returned.
Release(g) == IF g.stage <= InitCommands THEN [g EXCEPT !.freed = @ \cup {g.mine}] ELSE g

Fail(g) == [Release(g) EXCEPT !.stage = 0, !.at = "idle"]

Succeed(g) ==
    LET r == Release(g)
    IN  IF g.stage = InitCommands THEN [r EXCEPT !.active = TRUE, !.stage = 0, !.at = "idle"]
        ELSE IF g.stage = InitCommands + 2 THEN [r EXCEPT !.stage = 0, !.at = "idle"]
        ELSE [r EXCEPT !.stage = @ + 1, !.at = "post"]

\* vg_cmd up to its wait: descriptors are taken in order and never given back.
vq_post(g) ==
    IF g.next + 1 >= QSize THEN [g EXCEPT !.stage = 0, !.at = "idle"]
    ELSE [g EXCEPT !.next = @ + 2, !.posted = Append(@, g.next), !.mine = g.next, !.at = "wait"]

\* Mutant: the answer is looked at and not consumed.
vq_wait_Variant(g, display) == Succeed([g EXCEPT !.got = <<g.mine, g.used[g.last + 1]>>])

\* The oldest answer not taken yet, whosever it is.  The first command asks
\* for the display; boot goes no further without one.
vq_wait(g, display) ==
    LET taken == [g EXCEPT !.last = @ + 1, !.got = <<g.mine, g.used[g.last + 1]>>]
    IN  IF g.stage = 1 /\ ~display THEN Fail(taken) ELSE Succeed(taken)

vq_timeout(g) == [Fail(g) EXCEPT !.late = TRUE]

virtio_gpu_flush(g) == IF g.active THEN [g EXCEPT !.stage = InitCommands + 1, !.at = "post"] ELSE g

GpuAnswers(g, c) == [g EXCEPT !.used = Append(@, c)]

-----------------------------------------------------------------------------
(* e1000.c.  slot[i] is the packet descriptor i was last filled with.      *)

e1000_init(up) ==
    [up |-> up, cur |-> 0, done |-> [i \in 0..(TxCount - 1) |-> up], slot |-> [i \in 0..(TxCount - 1) |-> 0],
     tdh |-> 0, tdt |-> 0, at |-> "idle", sent |-> 0, gone |-> {}, late |-> FALSE]

\* The descriptor is filled and handed over whatever its state; the wait that
\* follows looks at the one after it.
e1000_send(n) ==
    LET next == (n.cur + 1) % TxCount
    IN  [n EXCEPT !.slot[n.cur] = n.sent + 1, !.done[n.cur] = FALSE, !.tdt = next, !.cur = next,
                  !.sent = @ + 1, !.at = "wait"]

\* Mutant: the status is not looked at.
TxDone_Variant(n) == TRUE

TxDone(n) == n.done[n.cur]

\* With the link down at boot the registers are never set up.
CanTransmit(n) == n.up /\ n.tdh # n.tdt
Transmit(n) == [n EXCEPT !.gone = @ \cup {n.slot[n.tdh]}, !.done[n.tdh] = TRUE, !.tdh = (@ + 1) % TxCount]
=============================================================================
