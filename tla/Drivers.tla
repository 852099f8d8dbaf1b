------------------------------ MODULE Drivers -------------------------------
(***************************************************************************)
(* The drivers on the one processor of the machine: the main loop of kmain *)
(* (src/OvsbMk/kernel/kernel.c), which reads keys and polls the PS/2 port; *)
(* the interrupts that come between any two of its steps; the system calls *)
(* of a process, during which IA32_FMASK keeps interrupts out (boot64.asm);*)
(* and the two drivers that wait for a device in a loop.  The devices act  *)
(* on their own.                                                           *)
(***************************************************************************)
EXTENDS Ps2Input, DmaRings

CONSTANTS
    Machines,       \* sets of devices a machine may have: "ps2", "gpu", "nic"
    Keys,           \* scan codes the keyboard sends
    Flags, Moves,   \* first bytes and further bytes of mouse packets
    MaxBytes,       \* bytes the keyboard and the mouse send
    MaxPackets,     \* packets sent over the network
    Workload        \* subset of {"spin"}: may a process read an empty stdin?

ASSUME DriversAssumption ==
    /\ Keys \subseteq Codes
    /\ \A b \in Flags : b \in 0..255 /\ Bit(b, 3)
    /\ Moves \subseteq 0..255 /\ {MaxBytes, MaxPackets} \subseteq Nat /\ Workload \subseteq {"spin"}

VARIABLES
    machine,    \* the devices of this machine
    kbd, mouse, \* globals of keyboard.zig and mouse.zig
    ps2,        \* the controller: its byte (a scan code or the mouse's), is it the mouse's, is it unread, interrupts latched
    arrived,    \* bytes it got so far
    phase,      \* which byte of a packet the mouse sends next
    cpu,        \* where kmain is, and what it has read from the ports and the ring
    gpu, nic,   \* globals of virtio_gpu.c and e1000.c with the devices
    queue,      \* bytes each ring accepted and nobody has read
    raced,      \* was a byte read twice, out of turn, or for the other device's?
    taken       \* did kmain's poll take a byte of the keyboard?

input == <<kbd, mouse, ps2, arrived, phase, queue, raced, taken>>
vars == <<machine, kbd, mouse, ps2, arrived, phase, cpu, gpu, nic, queue, raced, taken>>

Init ==
    /\ machine \in Machines
    /\ kbd = keyboard_init /\ mouse = mouse_init
    /\ ps2 = [code |-> "NUL", byte |-> 0, aux |-> FALSE, full |-> FALSE, irq |-> {}]
    /\ phase = 0 /\ arrived = 0
    /\ cpu = [at |-> "avail", seen |-> FALSE, byte |-> 0, ch |-> "NUL"]
    /\ gpu = virtio_gpu_init("gpu" \in machine)
    /\ \E up \in IF "nic" \in machine THEN BOOLEAN ELSE {FALSE} : nic = e1000_init(up)
    /\ queue = [key |-> <<>>, raw |-> <<>>, mice |-> <<>>]
    /\ raced = FALSE /\ taken = FALSE

\* A driver that waits for its device holds the processor.
Waiting == gpu.at # "idle" \/ nic.at # "idle"

\* Interrupts are off in a system call: a read that spins, or a flush.
IF_on == cpu.at # "spin" /\ gpu.stage <= InitCommands

Accept(q, n, b) == IF Len(q) < n - 1 THEN Append(q, b) ELSE q

-----------------------------------------------------------------------------
(* The controller and its two interrupts. *)

\* inb(0x60): the last byte, read before or not.
PortRead == ps2' = [ps2 EXCEPT !.full = FALSE]

\* A run ends with the first race.
KeyArrives(code) ==
    /\ "ps2" \in machine /\ ~ps2.full /\ ~raced /\ arrived < MaxBytes /\ arrived' = arrived + 1
    /\ ps2' = [code |-> code, byte |-> 0, aux |-> FALSE, full |-> TRUE, irq |-> ps2.irq \cup {"kbd"}]
    /\ UNCHANGED <<machine, kbd, mouse, phase, cpu, gpu, nic, queue, raced, taken>>

MouseByteArrives(b) ==
    /\ "ps2" \in machine /\ ~ps2.full /\ ~raced /\ arrived < MaxBytes /\ arrived' = arrived + 1
    /\ b \in IF phase = 0 THEN Flags ELSE Moves
    /\ ps2' = [code |-> "NUL", byte |-> b, aux |-> TRUE, full |-> TRUE, irq |-> ps2.irq \cup {"aux"}]
    /\ phase' = (phase + 1) % 3
    /\ UNCHANGED <<machine, kbd, mouse, cpu, gpu, nic, queue, raced, taken>>

\* A byte of the mouse taken for a scan code may be any of them.
KeyCodes == IF ps2.aux THEN Keys ELSE {ps2.code}

keyboard_irq_handler ==
    /\ IF_on /\ "kbd" \in ps2.irq
    /\ ps2' = [ps2 EXCEPT !.full = FALSE, !.irq = @ \ {"kbd"}]
    /\ raced' = (raced \/ ~ps2.full \/ ps2.aux)
    /\ \E code \in KeyCodes :
         /\ kbd' = keyboard_handler(kbd, code)
         /\ queue' = [queue EXCEPT !.raw = Accept(@, RawBuf, code),
                                   !.key = IF code = "c" THEN Accept(@, KeyBuf, Char(kbd)) ELSE @]
    /\ UNCHANGED <<machine, mouse, arrived, phase, cpu, gpu, nic, taken>>

\* Likewise a scan code taken for a byte of the mouse is one of its moves.
MouseBytes == IF ps2.aux THEN {ps2.byte} ELSE Moves

mouse_irq_handler ==
    /\ IF_on /\ "aux" \in ps2.irq
    /\ ps2' = [ps2 EXCEPT !.full = FALSE, !.irq = @ \ {"aux"}]
    /\ raced' = (raced \/ ~ps2.full \/ ~ps2.aux \/ cpu.at = "process")
    /\ \E b \in MouseBytes :
         /\ mouse' = mouse_process_byte(mouse, b)
         /\ queue' = [queue EXCEPT !.mice = Accept(@, MiceBuf, b)]
    /\ UNCHANGED <<machine, kbd, arrived, phase, cpu, gpu, nic, taken>>

-----------------------------------------------------------------------------
(* The loop of kmain, in the steps an interrupt can come between. *)

At(a) == cpu.at = a /\ ~Waiting
Goto(a) == cpu' = [cpu EXCEPT !.at = a]

\* keyboard_avail, and keyboard_read up to the byte.
keyboard_read ==
    /\ At("avail")
    /\ cpu' = IF Avail(kbd.key) THEN [cpu EXCEPT !.at = "advance", !.ch = Oldest(kbd.key)]
              ELSE [cpu EXCEPT !.at = "status"]
    /\ UNCHANGED <<machine, input, gpu, nic>>

\* The rest of keyboard_read: the character goes to shell_input.
shell_input ==
    /\ At("advance") /\ cpu' = [cpu EXCEPT !.at = "status", !.ch = "NUL"]
    /\ kbd' = [kbd EXCEPT !.key = Advance(@, KeyBuf, "NUL")]
    /\ queue' = [queue EXCEPT !.key = Tail(@)]
    /\ UNCHANGED <<machine, mouse, ps2, arrived, phase, gpu, nic, raced, taken>>

PollStatus ==
    /\ At("status")
    /\ cpu' = [cpu EXCEPT !.at = IF ps2.full THEN "data" ELSE "yield", !.seen = ps2.full /\ ps2.aux]
    /\ UNCHANGED <<machine, input, gpu, nic>>

\* A byte the status did not announce as the mouse's is read and dropped.
PollData ==
    /\ At("data")
    /\ PortRead
    /\ raced' = (raced \/ ~ps2.full \/ ps2.aux # cpu.seen)
    /\ taken' = (taken \/ (ps2.full /\ ~ps2.aux))
    /\ \E b \in MouseBytes :
         cpu' = IF cpu.seen THEN [cpu EXCEPT !.at = "process", !.byte = b] ELSE [cpu EXCEPT !.at = "yield"]
    /\ UNCHANGED <<machine, kbd, mouse, arrived, phase, gpu, nic, queue>>

PollProcess ==
    /\ At("process")
    /\ mouse' = mouse_process_byte(mouse, cpu.byte)
    /\ queue' = [queue EXCEPT !.mice = Accept(@, MiceBuf, cpu.byte)]
    /\ cpu' = [cpu EXCEPT !.at = "yield", !.byte = 0, !.seen = FALSE]
    /\ UNCHANGED <<machine, kbd, ps2, arrived, phase, gpu, nic, raced, taken>>

\* Other processes have run; hlt ends with the next tick.
Loop == At("yield") /\ cpu' = [cpu EXCEPT !.at = "avail", !.seen = FALSE] /\ UNCHANGED <<machine, input, gpu, nic>>

-----------------------------------------------------------------------------
(* System calls of a process, while kmain has yielded. *)

\* read on stdin, of one byte: with the ring empty it spins.
SYS_read_stdin ==
    /\ At("yield") /\ "ps2" \in machine
    /\ Avail(kbd.key) \/ "spin" \in Workload
    /\ Goto("spin")
    /\ UNCHANGED <<machine, input, gpu, nic>>

ReadReturns ==
    /\ At("spin") /\ Avail(kbd.key)
    /\ kbd' = [kbd EXCEPT !.key = Advance(@, KeyBuf, "NUL")]
    /\ queue' = [queue EXCEPT !.key = Tail(@)]
    /\ Goto("yield")
    /\ UNCHANGED <<machine, mouse, ps2, arrived, phase, gpu, nic, raced, taken>>

\* read on /dev/ttyN, opened O_NONBLOCK by open_dev: what is there, or EAGAIN.
SYS_read_tty ==
    /\ At("yield") /\ Avail(kbd.raw)
    /\ kbd' = [kbd EXCEPT !.raw = Advance(@, RawBuf, "NUL")]
    /\ queue' = [queue EXCEPT !.raw = Tail(@)]
    /\ UNCHANGED <<machine, mouse, ps2, arrived, phase, cpu, gpu, nic, raced, taken>>

SYS_read_mice ==
    /\ At("yield") /\ Avail(mouse.ring)
    /\ mouse' = [mouse EXCEPT !.ring = Advance(@, MiceBuf, 0)]
    /\ queue' = [queue EXCEPT !.mice = Tail(@)]
    /\ UNCHANGED <<machine, kbd, ps2, arrived, phase, cpu, gpu, nic, raced, taken>>

\* SYS_disp_flush and SYS_disp_flush_rect.
SYS_disp_flush ==
    /\ At("yield") /\ gpu.active /\ gpu' = virtio_gpu_flush(gpu)
    /\ UNCHANGED <<machine, input, cpu, nic>>

-----------------------------------------------------------------------------
(* The drivers that wait, and their devices. *)

Gpu(g) == gpu' = g /\ UNCHANGED <<machine, input, cpu, nic>>
Nic(n) == nic' = n /\ UNCHANGED <<machine, input, cpu, gpu>>

\* One command of a run times out.
vg_cmd == gpu.at = "post" /\ Gpu(vq_post(gpu))
GpuAnswered == gpu.at = "wait" /\ gpu.last < Len(gpu.used) /\ \E display \in BOOLEAN : Gpu(vq_wait(gpu, display))
GpuTimeout == gpu.at = "wait" /\ gpu.last = Len(gpu.used) /\ ~gpu.late /\ Gpu(vq_timeout(gpu))
GpuStep == \E c \in InFlight(gpu) : Gpu(GpuAnswers(gpu, c))

\* The shell's sendpacket.
SendPacket == At("status") /\ "nic" \in machine /\ nic.sent < MaxPackets /\ Nic(e1000_send(nic))
TxReturns == nic.at = "wait" /\ TxDone(nic) /\ Nic([nic EXCEPT !.at = "idle"])
TxTimeout == nic.at = "wait" /\ ~TxDone(nic) /\ Nic([nic EXCEPT !.at = "idle", !.late = TRUE])
NicStep == CanTransmit(nic) /\ Nic(Transmit(nic))

Kmain == keyboard_read \/ shell_input \/ PollStatus \/ PollData \/ PollProcess \/ Loop

Next ==
    \/ \E code \in Keys : KeyArrives(code)
    \/ \E b \in Flags \cup Moves : MouseByteArrives(b)
    \/ keyboard_irq_handler \/ mouse_irq_handler
    \/ Kmain
    \/ SYS_read_stdin \/ ReadReturns \/ SYS_read_tty \/ SYS_read_mice \/ SYS_disp_flush
    \/ vg_cmd \/ GpuAnswered \/ GpuTimeout \/ GpuStep
    \/ SendPacket \/ TxReturns \/ TxTimeout \/ NicStep

Spec == Init /\ [][Next]_vars

\* kmain runs on, a system call goes on while it can, and interrupts are taken
\* when they are on.
FairSpec == Spec /\ WF_vars(Kmain) /\ WF_vars(ReadReturns) /\ SF_vars(keyboard_irq_handler) /\ SF_vars(mouse_irq_handler)

-----------------------------------------------------------------------------
Ring(n, values) == [at: [0..(n - 1) -> values], head: 0..(n - 1), tail: 0..(n - 1)]

\* Indices stay in their rings, and the pointer on the screen (mouse.zig "A
\* posicao e clampada entre 0..1023 (X) e 0..767 (Y)").
TypeOK ==
    /\ machine \in Machines
    /\ kbd \in [key: Ring(KeyBuf, Chars \cup {"NUL"}), raw: Ring(RawBuf, Keys \cup {"NUL"}), shift: BOOLEAN, ctrl: BOOLEAN]
    /\ mouse.ring \in Ring(MiceBuf, Flags \cup Moves \cup {0}) /\ mouse.cycle \in 0..2
    /\ mouse.x \in 0..MaxX /\ mouse.y \in 0..MaxY /\ mouse.buttons \in 0..7
    /\ gpu.next \in 0..QSize /\ gpu.last \in 0..Len(gpu.used) /\ gpu.stage \in 0..(InitCommands + 2)
    /\ {nic.cur, nic.tdh, nic.tdt} \subseteq 0..(TxCount - 1)
    /\ raced \in BOOLEAN /\ taken \in BOOLEAN

\* Each ring holds exactly the bytes it accepted and nobody read, in the order
\* they came, and the character keyboard_read has in hand is the oldest, with
\* an interrupt pushing between any two steps of a reader.
RingsAreQueues ==
    /\ Held(kbd.key, KeyBuf) = queue.key
    /\ Held(kbd.raw, RawBuf) = queue.raw
    /\ Held(mouse.ring, MiceBuf) = queue.mice
    /\ cpu.at = "advance" => cpu.ch = Head(queue.key)

\* mouse_process_byte takes the first byte of a packet for its first byte, as
\* long as no byte was read twice, out of turn or by the other device's reader: only the
\* poll of kmain beside the interrupts puts a packet out of step.
PacketsFramed ==
    ~raced => (mouse.cycle + (IF ps2.full /\ ps2.aux THEN 1 ELSE 0) + (IF cpu.at = "process" THEN 1 ELSE 0)) % 3 = phase

\* As long as no command has timed out, the answer vq_wait takes is that of the
\* command it waits for, and no buffer goes back to the heap while the device
\* has it.  One time-out ends both for good.
AnswerIsOwn == ~gpu.late => (gpu.got[1] = gpu.got[2] /\ gpu.freed \cap InFlight(gpu) = {})

\* As long as no wait has run out, e1000_send never fills a descriptor that is
\* still to be sent: every packet has gone or is in one.  That is what the wait
\* for the next descriptor is good for.
NoPacketOverwritten ==
    ~nic.late => \A i \in 1..nic.sent :
        i \in nic.gone \/ \E j \in 0..(TxCount - 1) : nic.slot[j] = i /\ ~nic.done[j]

\* A full ring of characters is read again: typing never stops for good.  A
\* process that reads an empty stdin refutes it ("spin").
KeysGoOn == [](Len(queue.key) = KeyBuf - 1 => <>(Len(queue.key) < KeyBuf - 1))

\* A read of stdin that waits for a key returns once one is pressed
\* (keyboard.zig "fica em loop com pause ate ter algo").  With interrupts off
\* the key never gets to the ring.
StdinRead == (cpu.at = "spin" /\ ps2.full /\ ps2.code = "c") ~> cpu.at # "spin"

\* e1000_send returns when the packet has been sent ("Esperar transmissao").
SentWhenReturned == (nic.at = "idle" /\ ~nic.late) => 1..nic.sent \subseteq nic.gone

\* A packet still to be sent is between the head and the tail, where the card
\* looks.  With all descriptors filled the two are equal: the card sees none.
CardSeesPackets ==
    ~nic.late => \A j \in 0..(TxCount - 1) :
        (nic.slot[j] # 0 /\ ~nic.done[j]) => (j - nic.tdh) % TxCount < (nic.tdt - nic.tdh) % TxCount

\* A flush always finds descriptors.
FlushFindsDescriptors == gpu.stage > InitCommands /\ gpu.at = "post" => gpu.next + 2 <= QSize

\* The poll is of the mouse ("polling do mouse") and leaves keys alone.
PollLeavesKeys == ~taken

\* No byte is read twice, out of turn or by the wrong reader.
NoPortRace == ~raced
=============================================================================
