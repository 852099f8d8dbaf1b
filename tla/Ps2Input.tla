------------------------------ MODULE Ps2Input ------------------------------
(***************************************************************************)
(* The PS/2 keyboard and mouse of src/OvsbMk/kernel/drivers: keyboard.zig  *)
(* with its ring of characters and its ring of raw scan codes, mouse.zig   *)
(* with its ring of raw bytes and its assembly of three-byte packets.      *)
(* A driver's globals are a record; each operator gives them after a call. *)
(***************************************************************************)
EXTENDS Integers, Sequences

CONSTANTS
    KeyBuf, RawBuf, MiceBuf,    \* sizes of the three rings (256 in the code)
    MaxX, MaxY                  \* 1023 and 767

ASSUME Ps2Assumption == {KeyBuf, RawBuf, MiceBuf, MaxX, MaxY} \subseteq Nat \ {0, 1}

-----------------------------------------------------------------------------
(* A ring of size n: full when the next head would meet the tail. *)

Empty(n, zero) == [at |-> [i \in 0..(n - 1) |-> zero], head |-> 0, tail |-> 0]

\* Mutant: a full ring takes the byte.
Push_Variant(r, n, b) ==
    [r EXCEPT !.at[r.head] = b, !.head = (r.head + 1) % n]

Push(r, n, b) ==
    LET next == (r.head + 1) % n
    IN  IF next = r.tail THEN r ELSE [r EXCEPT !.at[r.head] = b, !.head = next]

\* Mutant: a head that has wrapped is taken for an empty ring.
Avail_Variant(r) == r.head > r.tail

Avail(r) == r.head # r.tail
Oldest(r) == r.at[r.tail]
\* The cell is cleared here, so that bytes nobody can read make no new states.
Advance(r, n, zero) == [r EXCEPT !.at[r.tail] = zero, !.tail = (r.tail + 1) % n]

\* What the ring holds, oldest first.
Held(r, n) ==
    [i \in 1..((r.head - r.tail + n) % n) |-> r.at[(r.tail + i - 1) % n]]

-----------------------------------------------------------------------------
(* keyboard.zig.  Scan codes: the c key, shift and ctrl, pressed or, with  *)
(* bit 7 set, released.                                                    *)

Codes == {"c", "shift", "ctrl", "c_up", "shift_up", "ctrl_up"}
Chars == {"c", "C", "ETX"}

kbd_push(k, ch) == [k EXCEPT !.key = Push(k.key, KeyBuf, ch)]
raw_push(k, b) == [k EXCEPT !.raw = Push(k.raw, RawBuf, b)]

keyboard_init == [key |-> Empty(KeyBuf, "NUL"), raw |-> Empty(RawBuf, "NUL"), shift |-> FALSE, ctrl |-> FALSE]

\* The character a press of the c key stands for.
Char(k) == IF k.shift THEN "C" ELSE IF k.ctrl THEN "ETX" ELSE "c"

keyboard_handler(k, code) ==
    LET raw == raw_push(k, code)
    IN  CASE code = "c" -> kbd_push(raw, Char(k))
          [] code \in {"shift", "shift_up"} -> [raw EXCEPT !.shift = (code = "shift")]
          [] code \in {"ctrl", "ctrl_up"} -> [raw EXCEPT !.ctrl = (code = "ctrl")]
          [] OTHER -> raw

-----------------------------------------------------------------------------
(* mouse.zig.  A byte is the number it is. *)

Bit(b, i) == (b \div 2^i) % 2 = 1

mouse_init == [ring |-> Empty(MiceBuf, 0), cycle |-> 0, packet |-> <<0, 0>>, x |-> 1, y |-> 1, buttons |-> 0]

Clamp(v, max) == IF v < 0 THEN 0 ELSE IF v > max THEN max ELSE v

\* A delta is extended with ones when its bit of the flags is clear.
Delta(flags, i, d) == IF Bit(flags, i) THEN d ELSE d - 256

\* Mutant: a packet ends with its second byte.
mouse_process_byte_Variant(m, d) ==
    LET r == [m EXCEPT !.ring = Push(m.ring, MiceBuf, d)]
    IN  IF m.cycle = 0 THEN [r EXCEPT !.packet[1] = d, !.cycle = 1] ELSE [r EXCEPT !.cycle = 0]

mouse_process_byte(m, d) ==
    LET r == [m EXCEPT !.ring = Push(m.ring, MiceBuf, d)]
        flags == m.packet[1]
    IN  CASE m.cycle = 0 -> [r EXCEPT !.packet[1] = d, !.cycle = IF Bit(d, 3) THEN 1 ELSE 0]
          [] m.cycle = 1 -> [r EXCEPT !.packet[2] = d, !.cycle = 2]
          [] m.cycle = 2 -> [r EXCEPT !.cycle = 0, !.packet = <<0, 0>>, !.buttons = flags % 8,
                                      !.x = Clamp(@ + Delta(flags, 4, m.packet[2]), MaxX),
                                      !.y = Clamp(@ - Delta(flags, 5, d), MaxY)]
=============================================================================
