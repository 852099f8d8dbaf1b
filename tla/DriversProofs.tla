--------------------------- MODULE DriversProofs ----------------------------
(***************************************************************************)
(* The drivers, for rings, queues and tables of any size, any number of    *)
(* bytes and packets and any workload: the invariants of Drivers, proved.  *)
(* Each device has an invariant of its own, on the record of its globals.  *)
(***************************************************************************)
EXTENDS Drivers, NumberLemmas, SequenceTheorems

-----------------------------------------------------------------------------
(* The rings of keyboard.zig and mouse.zig. *)

\* How many bytes a ring with this head and tail holds.
Count(r, n) == IF r.head >= r.tail THEN r.head - r.tail ELSE r.head - r.tail + n

\* What a ring holds, cell by cell.
LEMMA HeldIs ==
  ASSUME NEW n \in Nat, n > 1, NEW V, NEW r \in Ring(n, V)
  PROVE  /\ Count(r, n) \in 0..(n - 1)
         /\ Held(r, n) \in Seq(V) /\ Len(Held(r, n)) = Count(r, n)
         /\ \A i \in 1..Count(r, n) :
              Held(r, n)[i] = r.at[IF r.tail + i - 1 < n THEN r.tail + i - 1 ELSE r.tail + i - 1 - n]
<1> DEFINE h == r.head
           t == r.tail
           c == Count(r, n)
           at(i) == IF t + i - 1 < n THEN t + i - 1 ELSE t + i - 1 - n
<1>1. h \in 0..(n - 1) /\ t \in 0..(n - 1) /\ r.at \in [0..(n - 1) -> V]
  BY DEF Ring
<1>2. c = (IF h >= t THEN h - t ELSE h - t + n) /\ Held(r, n) = [i \in 1..((h - t + n) % n) |-> r.at[(t + i - 1) % n]]
  BY DEF Count, Held
<1> HIDE DEF h, t, c
<1>3. c \in 0..(n - 1)
  BY <1>1, <1>2
<1>4. (h - t + n) % n = c
  <2>1. h - t + n \in Int /\ 0 <= h - t + n /\ h - t + n < n + n /\ n > 0
    BY <1>1
  <2>2. /\ h - t + n < n => (h - t + n) % n = h - t + n
        /\ h - t + n >= n => (h - t + n) % n = h - t + n - n
    BY <1>1, <2>1, Wrapped
  <2>3. QED
    BY <1>1, <1>2, <2>2
<1>5. ASSUME NEW i \in 1..c PROVE (t + i - 1) % n = at(i) /\ at(i) \in 0..(n - 1)
  <2>1. t + i - 1 \in Int /\ 0 <= t + i - 1 /\ t + i - 1 < n + n /\ n > 0
    BY <1>1, <1>3
  <2>2. /\ t + i - 1 < n => (t + i - 1) % n = t + i - 1
        /\ t + i - 1 >= n => (t + i - 1) % n = t + i - 1 - n
    BY <1>1, <2>1, Wrapped
  <2>3. QED
    BY <2>1, <2>2
<1>6. Held(r, n) = [i \in 1..c |-> r.at[at(i)]]
  <2> HIDE DEF at
  <2>1. QED
    BY <1>2, <1>4, <1>5
<1>7. Held(r, n) \in [1..c -> V] /\ \A i \in 1..c : Held(r, n)[i] = r.at[at(i)]
  <2> HIDE DEF at
  <2>1. QED
    BY <1>1, <1>5, <1>6
<1>8. Held(r, n) \in Seq(V) /\ Len(Held(r, n)) = c
  BY <1>3, <1>7, SeqDef
<1>9. QED
  BY <1>3, <1>7, <1>8 DEF t, c

\* kbd_push, raw_push and the push of mouse_process_byte: a ring takes the byte
\* exactly when the queue of what it holds has room for it, at the end.
LEMMA PushAccepts ==
  ASSUME NEW n \in Nat, n > 1, NEW V, NEW r \in Ring(n, V), NEW b \in V
  PROVE  /\ Push(r, n, b) \in Ring(n, V)
         /\ Held(Push(r, n, b), n) = Accept(Held(r, n), n, b)
<1> DEFINE h == r.head
           t == r.tail
           c == Count(r, n)
           next == (h + 1) % n
           p == [r EXCEPT !.at[h] = b, !.head = next]
<1>1. h \in 0..(n - 1) /\ t \in 0..(n - 1) /\ r.at \in [0..(n - 1) -> V]
  BY DEF Ring
<1>2. next = IF h + 1 < n THEN h + 1 ELSE 0
  <2> HIDE DEF h
  <2>1. h + 1 \in Int /\ 0 <= h + 1 /\ h + 1 < n + n /\ n > 0
    BY <1>1
  <2>2. /\ h + 1 < n => (h + 1) % n = h + 1
        /\ h + 1 >= n => (h + 1) % n = h + 1 - n
    BY <1>1, <2>1, Wrapped
  <2>3. QED
    BY <1>1, <2>2
<1>3. c = IF h >= t THEN h - t ELSE h - t + n
  BY DEF Count
<1>4. /\ c \in 0..(n - 1) /\ Held(r, n) \in Seq(V) /\ Len(Held(r, n)) = c
      /\ \A i \in 1..c : Held(r, n)[i] = r.at[IF t + i - 1 < n THEN t + i - 1 ELSE t + i - 1 - n]
  BY HeldIs
<1>5. CASE next = t
  <2>1. Push(r, n, b) = r
    BY <1>5 DEF Push
  <2>2. ~(c < n - 1)
    <3> HIDE DEF next, h, t, c
    <3>1. QED
      BY <1>1, <1>2, <1>3, <1>5
  <2>3. QED
    BY <1>4, <2>1, <2>2 DEF Accept
<1>6. CASE next # t
  <2>1. Push(r, n, b) = p
    BY <1>6 DEF Push
  <2>2. p \in Ring(n, V) /\ p.at = [r.at EXCEPT ![h] = b] /\ p.head = next /\ p.tail = t
    <3>1. next \in 0..(n - 1)
      BY <1>1, <1>2
    <3> HIDE DEF next
    <3>2. QED
      BY ZenonT(40), <1>1, <3>1 DEF Ring
  <2> HIDE DEF p, next, h, t, c
  <2>3. Count(p, n) = c + 1 /\ c < n - 1
    <3>1. Count(p, n) = IF next >= t THEN next - t ELSE next - t + n
      BY <2>2, Zenon DEF Count
    <3>2. QED
      BY <1>1, <1>2, <1>3, <1>6, <3>1
  <2>4. /\ Held(p, n) \in Seq(V) /\ Len(Held(p, n)) = c + 1
        /\ \A i \in 1..(c + 1) : Held(p, n)[i] = p.at[IF t + i - 1 < n THEN t + i - 1 ELSE t + i - 1 - n]
    <3>1. /\ Held(p, n) \in Seq(V) /\ Len(Held(p, n)) = Count(p, n)
          /\ \A i \in 1..Count(p, n) :
               Held(p, n)[i] = p.at[IF p.tail + i - 1 < n THEN p.tail + i - 1 ELSE p.tail + i - 1 - n]
      BY ZenonT(40), <2>2, HeldIs
    <3>2. QED
      BY <2>2, <2>3, <3>1
  <2> DEFINE q == Append(Held(r, n), b)
  <2>5. q \in Seq(V) /\ Len(q) = c + 1 /\ \A i \in 1..(c + 1) : q[i] = IF i <= c THEN Held(r, n)[i] ELSE b
    BY <1>4
  <2> HIDE DEF q
  <2>6. ASSUME NEW i \in 1..(c + 1) PROVE Held(p, n)[i] = q[i]
    <3> DEFINE x == IF t + i - 1 < n THEN t + i - 1 ELSE t + i - 1 - n
    <3>1. x \in 0..(n - 1) /\ (x = h <=> i = c + 1)
      BY <1>1, <1>3, <1>4, <2>3
    <3>2. Held(p, n)[i] = p.at[x]
      BY <2>4
    <3>3. i <= c => Held(r, n)[i] = r.at[x]
      BY <1>4
    <3> HIDE DEF x
    <3>4. i <= c \/ i = c + 1
      BY <1>4
    <3>5. i = c + 1 => ~(i <= c)
      BY <1>4
    <3>6. QED
      BY SMTT(30), Z3T(30), <1>1, <2>2, <2>5, <3>1, <3>2, <3>3, <3>4, <3>5
  <2>7. Held(p, n) = q
    BY <2>4, <2>5, <2>6, SeqEqual
  <2>8. QED
    BY <1>4, <2>1, <2>2, <2>3, <2>7 DEF Accept, q
<1>7. QED
  BY <1>5, <1>6

\* The readers of the rings: the oldest byte is the head of the queue, and
\* taking it leaves the others.
LEMMA AdvanceTakes ==
  ASSUME NEW n \in Nat, n > 1, NEW V, NEW r \in Ring(n, V), NEW zero \in V, Avail(r)
  PROVE  /\ Advance(r, n, zero) \in Ring(n, V)
         /\ Held(r, n) # << >> /\ Oldest(r) = Head(Held(r, n))
         /\ Held(Advance(r, n, zero), n) = Tail(Held(r, n))
<1> DEFINE h == r.head
           t == r.tail
           c == Count(r, n)
           next == (t + 1) % n
           p == [r EXCEPT !.at[t] = zero, !.tail = next]
           s == Held(r, n)
<1>1. h \in 0..(n - 1) /\ t \in 0..(n - 1) /\ r.at \in [0..(n - 1) -> V] /\ h # t
  BY DEF Ring, Avail
<1>2. next = IF t + 1 < n THEN t + 1 ELSE 0
  <2> HIDE DEF t
  <2>1. t + 1 \in Int /\ 0 <= t + 1 /\ t + 1 < n + n /\ n > 0
    BY <1>1
  <2>2. /\ t + 1 < n => (t + 1) % n = t + 1
        /\ t + 1 >= n => (t + 1) % n = t + 1 - n
    BY <1>1, <2>1, Wrapped
  <2>3. QED
    BY <1>1, <2>2
<1>3. c = IF h >= t THEN h - t ELSE h - t + n
  BY DEF Count
<1>4. /\ c \in 0..(n - 1) /\ s \in Seq(V) /\ Len(s) = c
      /\ \A i \in 1..c : s[i] = r.at[IF t + i - 1 < n THEN t + i - 1 ELSE t + i - 1 - n]
  BY HeldIs
<1>5. p \in Ring(n, V) /\ p.at = [r.at EXCEPT ![t] = zero] /\ p.tail = next /\ p.head = h
  <2>1. next \in 0..(n - 1)
    BY <1>1, <1>2
  <2> HIDE DEF next
  <2>2. QED
    BY ZenonT(40), <1>1, <2>1 DEF Ring
<1>6. Advance(r, n, zero) = p /\ Oldest(r) = r.at[t]
  BY DEF Advance, Oldest
<1> HIDE DEF p, next, h, t, c, s
<1>7. Count(p, n) = c - 1 /\ c >= 1
  <2>1. Count(p, n) = IF h >= next THEN h - next ELSE h - next + n
    BY <1>5, Zenon DEF Count
  <2>2. h # t
    BY ZenonT(40) DEF Avail, h, t
  <2>3. QED
    BY <1>1, <1>2, <1>3, <2>1, <2>2
<1>8. /\ Held(p, n) \in Seq(V) /\ Len(Held(p, n)) = c - 1
      /\ \A i \in 1..(c - 1) : Held(p, n)[i] = p.at[IF next + i - 1 < n THEN next + i - 1 ELSE next + i - 1 - n]
  <2>1. /\ Held(p, n) \in Seq(V) /\ Len(Held(p, n)) = Count(p, n)
        /\ \A i \in 1..Count(p, n) :
             Held(p, n)[i] = p.at[IF p.tail + i - 1 < n THEN p.tail + i - 1 ELSE p.tail + i - 1 - n]
    BY ZenonT(40), <1>5, HeldIs
  <2>2. QED
    BY <1>5, <1>7, <2>1
<1>9. s # << >> /\ Head(s) = s[1] /\ s[1] = r.at[t]
  <2>1. 1 \in 1..c /\ t + 1 - 1 = t /\ t < n /\ Len(s) # 0
    BY <1>1, <1>4, <1>7
  <2>2. s[1] = r.at[t]
    BY <1>4, <2>1, Zenon
  <2>3. s # << >> /\ Head(s) = s[1]
    BY <1>4, <2>1, HeadTailProperties
  <2>4. QED
    BY <2>2, <2>3
<1>10. Tail(s) \in Seq(V) /\ Len(Tail(s)) = c - 1 /\ \A i \in 1..(c - 1) : Tail(s)[i] = s[i + 1]
  BY <1>4, <1>7, <1>9, HeadTailProperties
<1>11. ASSUME NEW i \in 1..(c - 1) PROVE Held(p, n)[i] = Tail(s)[i]
  <2> DEFINE x == IF next + i - 1 < n THEN next + i - 1 ELSE next + i - 1 - n
             y == IF t + (i + 1) - 1 < n THEN t + (i + 1) - 1 ELSE t + (i + 1) - 1 - n
  <2>1. x = y /\ x \in 0..(n - 1) /\ x # t /\ i + 1 \in 1..c
    BY <1>1, <1>2, <1>4, <1>7
  <2>2. Held(p, n)[i] = p.at[x]
    BY <1>8
  <2>3. Tail(s)[i] = r.at[y]
    BY SMTT(30), Z3T(30), <1>4, <1>10, <2>1
  <2> HIDE DEF x, y
  <2>4. QED
    BY ZenonT(40), <1>1, <1>5, <2>1, <2>2, <2>3
<1>12. Held(p, n) = Tail(s)
  BY <1>8, <1>10, <1>11, SeqEqual
<1>13. QED
  BY <1>5, <1>6, <1>9, <1>12 DEF s

-----------------------------------------------------------------------------
(* e1000.c. *)

NicType ==
    [up: BOOLEAN, cur: 0..(TxCount - 1), done: [0..(TxCount - 1) -> BOOLEAN],
     slot: [0..(TxCount - 1) -> Nat], tdh: 0..(TxCount - 1), tdt: 0..(TxCount - 1),
     at: {"idle", "wait"}, sent: Nat, gone: SUBSET Nat, late: BOOLEAN]

\* The inductive invariant of the transmit ring: outside e1000_send the next
\* descriptor is done, unless a wait ran out or nothing was sent yet.
NicInv(n) ==
    /\ n \in NicType
    /\ ~n.late => /\ \A i \in 1..n.sent : \/ i \in n.gone
                                          \/ \E j \in 0..(TxCount - 1) : n.slot[j] = i /\ ~n.done[j]
                  /\ n.at = "idle" => n.done[n.cur] \/ n.sent = 0

\* The ring as e1000_init leaves it, with the link up or down.
LEMMA NicInit ==
  ASSUME NEW up \in BOOLEAN
  PROVE  NicInv(e1000_init(up))
<1>1. 0 \in 0..(TxCount - 1)
  BY DmaAssumption
<1>2. e1000_init(up) \in NicType
  BY <1>1 DEF e1000_init, NicType
<1>3. e1000_init(up).sent = 0
  BY DEF e1000_init
<1>4. QED
  BY <1>2, <1>3 DEF NicInv

\* A step of e1000_send or of the card keeps the invariant; a send is only made
\* from outside e1000_send.
LEMMA NicSteps ==
  ASSUME NEW n, NicInv(n)
  PROVE  /\ n.at = "idle" => NicInv(e1000_send(n))
         /\ TxDone(n) => NicInv([n EXCEPT !.at = "idle"])
         /\ NicInv([n EXCEPT !.at = "idle", !.late = TRUE])
         /\ NicInv(Transmit(n))
<1>1. n \in NicType
  BY DEF NicInv
<1>2. TxCount \in Nat /\ TxCount > 0
  BY DmaAssumption
<1>3. ASSUME NEW i \in 0..(TxCount - 1) PROVE (i + 1) % TxCount \in 0..(TxCount - 1)
  BY <1>2, DivMod
<1>4. ASSUME n.at = "idle" PROVE NicInv(e1000_send(n))
  <2> DEFINE next == (n.cur + 1) % TxCount
             m == e1000_send(n)
  <2>1. next \in 0..(TxCount - 1) /\ n.cur \in 0..(TxCount - 1) /\ n.sent \in Nat
    BY ZenonT(40), <1>1, <1>3 DEF NicType
  <2>2. m = [n EXCEPT !.slot[n.cur] = n.sent + 1, !.done[n.cur] = FALSE, !.tdt = next, !.cur = next,
                      !.sent = n.sent + 1, !.at = "wait"]
    BY DEF e1000_send
  <2> HIDE DEF next, m
  <2>4. /\ n.slot \in [0..(TxCount - 1) -> Nat] /\ n.done \in [0..(TxCount - 1) -> BOOLEAN]
    BY <1>1 DEF NicType
  <2>8. /\ [n.slot EXCEPT ![n.cur] = n.sent + 1] \in [0..(TxCount - 1) -> Nat]
        /\ [n.done EXCEPT ![n.cur] = FALSE] \in [0..(TxCount - 1) -> BOOLEAN]
        /\ n.sent + 1 \in Nat
    BY <2>1, <2>4
  <2>9. m = [n EXCEPT !.slot = [n.slot EXCEPT ![n.cur] = n.sent + 1],
                      !.done = [n.done EXCEPT ![n.cur] = FALSE], !.tdt = next, !.cur = next,
                      !.sent = n.sent + 1, !.at = "wait"]
    BY <1>1, <2>2 DEF NicType
  <2>3. /\ m \in NicType
        /\ m.slot = [n.slot EXCEPT ![n.cur] = n.sent + 1] /\ m.done = [n.done EXCEPT ![n.cur] = FALSE]
        /\ m.sent = n.sent + 1 /\ m.at = "wait" /\ m.late = n.late /\ m.gone = n.gone
    BY ZenonT(40), <1>1, <2>1, <2>8, <2>9 DEF NicType
  <2>5. ASSUME ~n.late, NEW i \in 1..(n.sent + 1)
        PROVE  i \in m.gone \/ \E j \in 0..(TxCount - 1) : m.slot[j] = i /\ ~m.done[j]
    <3>1. CASE i = n.sent + 1
      BY ZenonT(40), <2>1, <2>3, <2>4, <3>1
    <3>2. CASE i # n.sent + 1
      <4>1. i \in 1..n.sent /\ n.sent # 0
        BY <2>1, <3>2
      <4>2. CASE i \in n.gone
        BY <2>3, <4>2
      <4>3. CASE i \notin n.gone
        <5>1. PICK j \in 0..(TxCount - 1) : n.slot[j] = i /\ ~n.done[j]
          BY <2>5, <4>1, <4>3 DEF NicInv
        <5>2. j # n.cur
          BY SMTT(30), Z3T(30), <1>4, <2>5, <4>1, <5>1 DEF NicInv
        <5>3. m.slot[j] = i /\ ~m.done[j]
          BY SMTT(30), Z3T(30), <2>1, <2>3, <2>4, <5>1, <5>2
        <5>4. QED
          BY <5>3
      <4>4. QED
        BY <4>2, <4>3
    <3>3. QED
      BY <3>1, <3>2
  <2>6. NicInv(m)
    BY <2>3, <2>5 DEF NicInv
  <2>7. QED
    BY <2>6 DEF m
<1>5. ASSUME TxDone(n) PROVE NicInv([n EXCEPT !.at = "idle"])
  BY ZenonT(40), <1>1, <1>5 DEF TxDone, NicInv, NicType
<1>6. NicInv([n EXCEPT !.at = "idle", !.late = TRUE])
  BY ZenonT(40), <1>1 DEF NicInv, NicType
<1>7. NicInv(Transmit(n))
  <2> DEFINE next == (n.tdh + 1) % TxCount
             m == Transmit(n)
  <2>1. next \in 0..(TxCount - 1) /\ n.tdh \in 0..(TxCount - 1) /\ n.cur \in 0..(TxCount - 1)
    BY ZenonT(40), <1>1, <1>3 DEF NicType
  <2>2. m = [n EXCEPT !.gone = n.gone \cup {n.slot[n.tdh]}, !.done[n.tdh] = TRUE, !.tdh = next]
    BY DEF Transmit
  <2>3. /\ n.slot \in [0..(TxCount - 1) -> Nat] /\ n.done \in [0..(TxCount - 1) -> BOOLEAN]
        /\ n.gone \in SUBSET Nat
    BY <1>1 DEF NicType
  <2> HIDE DEF next, m
  <2>4. n.gone \cup {n.slot[n.tdh]} \in SUBSET Nat
    BY ZenonT(40), <2>1, <2>3
  <2>5. /\ m \in NicType
        /\ m.gone = n.gone \cup {n.slot[n.tdh]} /\ m.done = [n.done EXCEPT ![n.tdh] = TRUE]
        /\ m.slot = n.slot /\ m.sent = n.sent /\ m.at = n.at /\ m.late = n.late /\ m.cur = n.cur
    BY ZenonT(40), <1>1, <2>1, <2>2, <2>4 DEF NicType
  <2>6. ASSUME ~n.late, NEW i \in 1..n.sent
        PROVE  i \in m.gone \/ \E j \in 0..(TxCount - 1) : m.slot[j] = i /\ ~m.done[j]
    <3>1. CASE i \in n.gone
      BY <2>5, <3>1
    <3>2. CASE i \notin n.gone
      <4>1. PICK j \in 0..(TxCount - 1) : n.slot[j] = i /\ ~n.done[j]
        BY <2>6, <3>2 DEF NicInv
      <4>2. j = n.tdh \/ ~m.done[j]
        BY <2>3, <2>5, <4>1
      <4>3. QED
        BY <2>5, <4>1, <4>2
    <3>3. QED
      BY <3>1, <3>2
  <2>7. n.done[n.cur] => m.done[m.cur]
    BY <2>1, <2>3, <2>5
  <2>8. NicInv(m)
    BY <2>5, <2>6, <2>7 DEF NicInv
  <2>9. QED
    BY <2>8 DEF m
<1>8. QED
  BY <1>4, <1>5, <1>6, <1>7

-----------------------------------------------------------------------------
(* virtio_gpu.c. *)

GpuType ==
    [next: 0..QSize, posted: Seq(Nat), used: Seq(Nat), last: Nat, active: BOOLEAN, stage: 0..(InitCommands + 2),
     at: {"idle", "post", "wait"}, mine: Int, freed: SUBSET Int, got: Int \X Int, late: BOOLEAN]

\* vq_wait has nothing to wait for, or its own command is the only one the
\* device has, or the only one whose answer is not taken.
OneInFlight(g) ==
    /\ g.at # "wait" => InFlight(g) = {} /\ g.last = Len(g.used)
    /\ g.at = "wait" => \/ InFlight(g) = {g.mine} /\ g.last = Len(g.used)
                        \/ InFlight(g) = {} /\ Len(g.used) = g.last + 1 /\ g.used[g.last + 1] = g.mine

\* The inductive invariant of the control queue.
GpuInv(g) ==
    /\ g \in GpuType
    /\ \A c \in Range(g.posted) : c < g.next
    /\ Range(g.used) \subseteq Range(g.posted)
    /\ g.last <= Len(g.used)
    /\ ~g.late => /\ g.got[1] = g.got[2] /\ g.freed \subseteq Range(g.used)
                  /\ OneInFlight(g)

\* What a ring holds once one more entry is written.
LEMMA SetAppended ==
  ASSUME NEW s \in Seq(Nat), NEW x \in Nat
  PROVE  Range(Append(s, x)) = Range(s) \cup {x}
<1> DEFINE t == Append(s, x)
<1>1. /\ t \in Seq(Nat) /\ Len(s) \in Nat /\ Len(t) = Len(s) + 1 /\ t[Len(s) + 1] = x
      /\ \A i \in 1..Len(s) : t[i] = s[i]
      /\ DOMAIN s = 1..Len(s) /\ DOMAIN t = 1..Len(t)
  OBVIOUS
<1> HIDE DEF t
<1>2. ASSUME NEW y \in Range(t) PROVE y \in Range(s) \cup {x}
  <2>1. PICK i \in 1..Len(t) : y = t[i]
    BY <1>1, <1>2 DEF Range
  <2>2. i = Len(s) + 1 \/ i \in 1..Len(s)
    BY <1>1, <2>1
  <2>3. QED
    BY ZenonT(40), <1>1, <2>1, <2>2 DEF Range
<1>3. ASSUME NEW y \in Range(s) \cup {x} PROVE y \in Range(t)
  <2>1. CASE y = x
    <3>1. Len(s) + 1 \in DOMAIN t
      BY <1>1
    <3>2. QED
      BY SMTT(30), Z3T(30), <1>1, <2>1, <3>1 DEF Range
  <2>2. CASE y \in Range(s)
    <3>1. PICK i \in 1..Len(s) : y = s[i]
      BY <1>1, <2>2 DEF Range
    <3>2. i \in DOMAIN t /\ t[i] = y
      BY <1>1, <3>1
    <3>3. QED
      BY <3>2 DEF Range
  <2>3. QED
    BY <1>3, <2>1, <2>2
<1>4. QED
  BY <1>2, <1>3 DEF t

\* The queue at boot, with or without the device.
LEMMA GpuInit ==
  ASSUME NEW found \in BOOLEAN
  PROVE  GpuInv(virtio_gpu_init(found))
<1> DEFINE g == virtio_gpu_init(found)
<1>1. /\ g.next = 0 /\ g.posted = << >> /\ g.used = << >> /\ g.last = 0 /\ g.got = <<-1, -1>>
      /\ g.freed = {} /\ g.at \in {"idle", "post"}
  BY DEF virtio_gpu_init, vq_init
<1>2. 0 \in 0..QSize /\ <<-1, -1>> \in Int \X Int
  BY DmaAssumption
<1>3. g \in GpuType
  <2>1. 0 \in 0..(InitCommands + 2) /\ 1 \in 0..(InitCommands + 2) /\ -1 \in Int
    BY DEF InitCommands
  <2>2. << >> \in Seq(Nat) /\ {} \in SUBSET Int
    OBVIOUS
  <2>3. vq_init \in GpuType
    BY <1>2, <2>1, <2>2 DEF vq_init, GpuType
  <2>4. [vq_init EXCEPT !.stage = 0, !.at = "idle"] \in GpuType
    BY ZenonT(40), <2>1, <2>3 DEF GpuType
  <2>5. QED
    BY <2>3, <2>4 DEF virtio_gpu_init
<1> HIDE DEF g
<1>4. Range(<< >>) = {}
  BY DEF Range
<1>5. InFlight(g) = {}
  BY <1>1, <1>4 DEF InFlight
<1>6. OneInFlight(g)
  BY <1>1, <1>5 DEF OneInFlight
<1>7. GpuInv(g)
  BY <1>1, <1>3, <1>4, <1>6 DEF GpuInv
<1>8. QED
  BY <1>7 DEF g

\* A command's end leaves the rings alone; only a boot command's buffer goes
\* back to the heap, and none but its own.
LEMMA EndOfCommand ==
  ASSUME NEW g \in GpuType
  PROVE  /\ Fail(g) \in GpuType /\ Succeed(g) \in GpuType
         /\ \A r \in {Fail(g), Succeed(g)} :
              /\ r.next = g.next /\ r.posted = g.posted /\ r.used = g.used /\ r.last = g.last
              /\ r.got = g.got /\ r.late = g.late /\ r.at # "wait" /\ r.freed \subseteq g.freed \cup {g.mine}
<1>1. Release(g) = g \/ Release(g) = [g EXCEPT !.freed = g.freed \cup {g.mine}]
  BY DEF Release
<1>2. g.freed \cup {g.mine} \in SUBSET Int
  BY DEF GpuType
<1>3. /\ Release(g) \in GpuType
      /\ \A f \in {"next", "posted", "used", "last", "got", "late", "stage"} : Release(g)[f] = g[f]
      /\ Release(g).freed \subseteq g.freed \cup {g.mine}
  BY ZenonT(30), <1>1, <1>2 DEF GpuType
<1>4. /\ Release(g).next = g.next /\ Release(g).posted = g.posted /\ Release(g).used = g.used
      /\ Release(g).last = g.last /\ Release(g).got = g.got /\ Release(g).late = g.late
      /\ Release(g).stage = g.stage
  BY <1>1 DEF GpuType
<1>5. 0 \in 0..(InitCommands + 2) /\ (g.stage # 6 => g.stage + 1 \in 0..(InitCommands + 2))
  BY DEF GpuType, InitCommands
<1> DEFINE q == Release(g)
<1>6. Fail(g) = [q EXCEPT !.stage = 0, !.at = "idle"]
  BY DEF Fail
<1>7. \/ Succeed(g) = [q EXCEPT !.active = TRUE, !.stage = 0, !.at = "idle"]
      \/ Succeed(g) = [q EXCEPT !.stage = 0, !.at = "idle"]
      \/ g.stage # 6 /\ Succeed(g) = [q EXCEPT !.stage = g.stage + 1, !.at = "post"]
  BY <1>4 DEF Succeed, InitCommands
<1>8. /\ q \in GpuType /\ q.next = g.next /\ q.posted = g.posted /\ q.used = g.used
      /\ q.last = g.last /\ q.got = g.got /\ q.late = g.late /\ q.freed \subseteq g.freed \cup {g.mine}
  BY <1>3, <1>4
<1> HIDE DEF q
<1>9. /\ Fail(g) \in GpuType
      /\ Fail(g).next = q.next /\ Fail(g).posted = q.posted /\ Fail(g).used = q.used /\ Fail(g).last = q.last
      /\ Fail(g).got = q.got /\ Fail(g).late = q.late /\ Fail(g).at = "idle" /\ Fail(g).freed = q.freed
  BY ZenonT(30), <1>5, <1>6, <1>8 DEF GpuType
<1>10. /\ Succeed(g) \in GpuType
       /\ Succeed(g).next = q.next /\ Succeed(g).posted = q.posted /\ Succeed(g).used = q.used
       /\ Succeed(g).last = q.last /\ Succeed(g).got = q.got /\ Succeed(g).late = q.late
       /\ Succeed(g).at \in {"idle", "post"} /\ Succeed(g).freed = q.freed
  <2>1. CASE Succeed(g) = [q EXCEPT !.active = TRUE, !.stage = 0, !.at = "idle"]
    BY ZenonT(30), <1>5, <1>8, <2>1 DEF GpuType
  <2>2. CASE Succeed(g) = [q EXCEPT !.stage = 0, !.at = "idle"]
    BY ZenonT(30), <1>5, <1>8, <2>2 DEF GpuType
  <2>3. CASE g.stage # 6 /\ Succeed(g) = [q EXCEPT !.stage = g.stage + 1, !.at = "post"]
    BY ZenonT(40), <1>5, <1>8, <2>3 DEF GpuType
  <2>4. QED
    BY <1>7, <2>1, <2>2, <2>3
<1>11. QED
  BY <1>8, <1>9, <1>10

\* Every step of the driver and of the device keeps the invariant.
LEMMA GpuSteps ==
  ASSUME NEW g, GpuInv(g)
  PROVE  /\ g.at = "post" => GpuInv(vq_post(g))
         /\ \A display \in BOOLEAN : g.at = "wait" /\ g.last < Len(g.used) => GpuInv(vq_wait(g, display))
         /\ GpuInv(vq_timeout(g))
         /\ g.at = "idle" => GpuInv(virtio_gpu_flush(g))
         /\ \A c \in InFlight(g) : GpuInv(GpuAnswers(g, c))
<1>1. g \in GpuType
  BY DEF GpuInv
<1>2. /\ g.next \in 0..QSize /\ g.posted \in Seq(Nat) /\ g.used \in Seq(Nat) /\ g.last \in Nat
      /\ g.mine \in Int /\ g.freed \in SUBSET Int /\ g.got \in Int \X Int /\ Len(g.used) \in Nat
  BY <1>1 DEF GpuType
<1>3. QSize \in Nat
  BY DmaAssumption
<1>4. ASSUME g.at = "post" PROVE GpuInv(vq_post(g))
  <2>1. CASE g.next + 1 >= QSize
    <3> DEFINE h == vq_post(g)
    <3>1. h = [g EXCEPT !.stage = 0, !.at = "idle"]
      BY <2>1 DEF vq_post
    <3> HIDE DEF h
    <3>2. 0 \in 0..(InitCommands + 2)
      BY DEF InitCommands
    <3>3. /\ h \in GpuType /\ h.next = g.next /\ h.posted = g.posted /\ h.used = g.used /\ h.last = g.last
          /\ h.got = g.got /\ h.late = g.late /\ h.at = "idle" /\ h.freed = g.freed
      BY ZenonT(40), <1>1, <3>1, <3>2 DEF GpuType
    <3>4. OneInFlight(g) => OneInFlight(h)
      BY <1>4, <3>3 DEF OneInFlight, InFlight
    <3>5. GpuInv(h)
      BY <3>3, <3>4 DEF GpuInv
    <3>6. QED
      BY <3>5 DEF h
  <2>2. CASE ~(g.next + 1 >= QSize)
    <3> DEFINE h == vq_post(g)
    <3>1. h = [g EXCEPT !.next = g.next + 2, !.posted = Append(g.posted, g.next), !.mine = g.next, !.at = "wait"]
      BY <2>2 DEF vq_post
    <3>2. g.next + 2 \in 0..QSize /\ Append(g.posted, g.next) \in Seq(Nat) /\ g.next \in Int /\ g.next \in Nat
      BY SMTT(30), Z3T(30), <1>2, <1>3, <2>2
    <3> HIDE DEF h
    <3>3. /\ h \in GpuType /\ h.next = g.next + 2 /\ h.posted = Append(g.posted, g.next) /\ h.used = g.used
          /\ h.last = g.last /\ h.mine = g.next /\ h.got = g.got /\ h.late = g.late /\ h.at = "wait" /\ h.freed = g.freed
      BY ZenonT(40), <1>1, <3>1, <3>2 DEF GpuType
    <3>4. Range(h.posted) = Range(g.posted) \cup {g.next} /\ Range(h.used) = Range(g.used)
      <4>1. Range(Append(g.posted, g.next)) = Range(g.posted) \cup {g.next}
        BY <1>2, <3>2, SetAppended
      <4>2. QED
        BY <3>3, <4>1
    <3>5. g.next \notin Range(g.used) /\ Range(h.used) \subseteq Range(h.posted)
      BY <1>2, <3>4 DEF GpuInv
    <3>6. Range(g.posted) \subseteq Nat
      BY SMTT(30), Z3T(30), <1>2 DEF Range
    <3>7. \A c \in Range(h.posted) : c < h.next
      BY SMTT(30), Z3T(30), <1>2, <3>3, <3>4, <3>6 DEF GpuInv
    <3>8. OneInFlight(g) => OneInFlight(h)
      BY <1>4, <3>3, <3>4, <3>5 DEF OneInFlight, InFlight
    <3>9. GpuInv(h)
      BY <3>3, <3>4, <3>5, <3>7, <3>8 DEF GpuInv
    <3>10. QED
      BY <3>9 DEF h
  <2>3. QED
    BY <2>1, <2>2
<1>5. ASSUME NEW display \in BOOLEAN, g.at = "wait", g.last < Len(g.used) PROVE GpuInv(vq_wait(g, display))
  <2> DEFINE t == [g EXCEPT !.last = g.last + 1, !.got = <<g.mine, g.used[g.last + 1]>>]
             h == vq_wait(g, display)
  <2>1. h \in {Fail(t), Succeed(t)}
    BY DEF vq_wait
  <2>2. g.last + 1 \in Nat /\ <<g.mine, g.used[g.last + 1]>> \in Int \X Int /\ g.last + 1 <= Len(g.used)
    <3>1. g.last + 1 \in Nat /\ g.last + 1 <= Len(g.used) /\ g.last + 1 \in 1..Len(g.used)
      <4>1. PICK a \in Nat : a = g.last
        BY ZenonT(40), <1>2
      <4>2. PICK b \in Nat : b = Len(g.used)
        BY <1>2, LenProperties
      <4>3. a < b
        BY ZenonT(40), <1>5, <4>1, <4>2
      <4>4. a + 1 \in Nat /\ a + 1 <= b /\ a + 1 \in 1..b
        BY <4>3
      <4>5. QED
        BY ZenonT(40), <4>1, <4>2, <4>4
    <3>2. g.used[g.last + 1] \in Nat
      BY <1>2, <3>1, ElementOfSeq, Zenon
    <3>3. g.used[g.last + 1] \in Int
      BY <3>2
    <3>4. QED
      BY <1>2, <3>1, <3>3, Zenon
  <2>3. /\ t \in GpuType /\ t.next = g.next /\ t.posted = g.posted /\ t.used = g.used /\ t.last = g.last + 1
        /\ t.got = <<g.mine, g.used[g.last + 1]>> /\ t.late = g.late /\ t.freed = g.freed /\ t.mine = g.mine
    BY ZenonT(40), <1>1, <2>2 DEF GpuType
  <2> HIDE DEF t, h
  <2>4. /\ h \in GpuType /\ h.next = t.next /\ h.posted = t.posted /\ h.used = t.used /\ h.last = t.last
        /\ h.got = t.got /\ h.late = t.late /\ h.at # "wait" /\ h.freed \subseteq t.freed \cup {t.mine}
    BY ZenonT(40), <2>1, <2>3, EndOfCommand
  <2>5. ~g.late => InFlight(g) = {} /\ Len(g.used) = g.last + 1 /\ g.used[g.last + 1] = g.mine
    BY <1>2, <1>5 DEF GpuInv, OneInFlight
  <2>6. ~g.late => g.mine \in Range(g.used)
    BY SMTT(30), Z3T(30), <1>2, <2>2, <2>5 DEF Range
  <2>7. InFlight(h) = InFlight(g)
    BY <2>3, <2>4 DEF InFlight
  <2>8. ~h.late => OneInFlight(h) /\ h.got[1] = h.got[2] /\ h.freed \subseteq Range(h.used)
    BY SMTT(30), Z3T(30), <2>3, <2>4, <2>5, <2>6, <2>7 DEF GpuInv, OneInFlight
  <2>9. GpuInv(h)
    BY <2>2, <2>3, <2>4, <2>8 DEF GpuInv
  <2>10. QED
    BY <2>9 DEF h
<1>6. GpuInv(vq_timeout(g))
  <2> DEFINE h == vq_timeout(g)
  <2>1. h = [Fail(g) EXCEPT !.late = TRUE]
    BY DEF vq_timeout
  <2>2. /\ Fail(g) \in GpuType /\ Fail(g).next = g.next /\ Fail(g).posted = g.posted /\ Fail(g).used = g.used
        /\ Fail(g).last = g.last
    BY <1>1, EndOfCommand
  <2> HIDE DEF h
  <2>3. /\ h \in GpuType /\ h.next = g.next /\ h.posted = g.posted /\ h.used = g.used /\ h.last = g.last /\ h.late
    BY ZenonT(40), <2>1, <2>2 DEF GpuType
  <2>4. GpuInv(h)
    BY <2>3 DEF GpuInv
  <2>5. QED
    BY <2>4 DEF h
<1>7. ASSUME g.at = "idle" PROVE GpuInv(virtio_gpu_flush(g))
  <2> DEFINE h == [g EXCEPT !.stage = InitCommands + 1, !.at = "post"]
  <2>1. InitCommands + 1 \in 0..(InitCommands + 2)
    BY DEF InitCommands
  <2>2. /\ h \in GpuType /\ h.next = g.next /\ h.posted = g.posted /\ h.used = g.used /\ h.last = g.last
        /\ h.got = g.got /\ h.late = g.late /\ h.at = "post" /\ h.freed = g.freed
    BY ZenonT(40), <1>1, <2>1 DEF GpuType
  <2> HIDE DEF h
  <2>3. OneInFlight(g) => OneInFlight(h)
    BY <1>7, <2>2 DEF OneInFlight, InFlight
  <2>4. GpuInv(h)
    BY <2>2, <2>3 DEF GpuInv
  <2>5. QED
    BY <2>4 DEF h, virtio_gpu_flush
<1>8. ASSUME NEW c \in InFlight(g) PROVE GpuInv(GpuAnswers(g, c))
  <2> DEFINE h == GpuAnswers(g, c)
  <2>1. h = [g EXCEPT !.used = Append(g.used, c)]
    BY DEF GpuAnswers
  <2>2. c \in Range(g.posted) /\ c \in Nat
    BY SMTT(30), Z3T(30), <1>2, <1>8 DEF InFlight, Range
  <2>3. Append(g.used, c) \in Seq(Nat) /\ Len(Append(g.used, c)) = Len(g.used) + 1 /\ Append(g.used, c)[Len(g.used) + 1] = c
    BY <1>2, <2>2
  <2> HIDE DEF h
  <2>4. /\ h \in GpuType /\ h.next = g.next /\ h.posted = g.posted /\ h.used = Append(g.used, c) /\ h.last = g.last
        /\ h.mine = g.mine /\ h.got = g.got /\ h.late = g.late /\ h.at = g.at /\ h.freed = g.freed
    BY ZenonT(40), <1>1, <2>1, <2>3 DEF GpuType
  <2>5. Range(h.used) = Range(g.used) \cup {c} /\ InFlight(h) = InFlight(g) \ {c}
    <3>1. Range(Append(g.used, c)) = Range(g.used) \cup {c}
      BY SMTT(30), Z3T(30), <1>2, <2>2, SetAppended
    <3>2. QED
      BY <2>4, <3>1 DEF InFlight
  <2>6. OneInFlight(g) => g.at = "wait" /\ InFlight(g) = {g.mine} /\ g.last = Len(g.used)
    BY <1>8 DEF OneInFlight
  <2>7. OneInFlight(g) => OneInFlight(h)
    BY ZenonT(40), <1>8, <2>3, <2>4, <2>5, <2>6 DEF OneInFlight
  <2>8. h.last <= Len(h.used)
    BY SMTT(30), Z3T(30), <1>2, <2>3, <2>4 DEF GpuInv
  <2>9. GpuInv(h)
    BY <2>2, <2>4, <2>5, <2>7, <2>8 DEF GpuInv
  <2>10. QED
    BY <2>9 DEF h
<1>9. QED
  BY <1>4, <1>5, <1>6, <1>7, <1>8

-----------------------------------------------------------------------------
(* The whole. *)

Bytes == Flags \cup Moves \cup {0}

KbdType == [key: Ring(KeyBuf, Chars \cup {"NUL"}), raw: Ring(RawBuf, Keys \cup {"NUL"}), shift: BOOLEAN, ctrl: BOOLEAN]

MouseType ==
    [ring: Ring(MiceBuf, Bytes), cycle: 0..2, packet: [1..2 -> 0..255], x: 0..MaxX, y: 0..MaxY, buttons: 0..7]

\* The port and the loop of kmain: a latched interrupt has a byte of its kind
\* to read, unless the other handler or the poll read it.
PortType ==
    /\ ps2 \in [code: Keys \cup {"NUL"}, byte: Bytes, aux: BOOLEAN, full: BOOLEAN, irq: SUBSET {"kbd", "aux"}]
    /\ ~ps2.aux /\ ps2.irq # {} => ps2.code \in Keys
    /\ ps2.aux => ps2.byte \in Flags \cup Moves
    /\ cpu \in [at: {"avail", "advance", "status", "data", "process", "yield", "spin"}, seen: BOOLEAN,
                byte: Bytes, ch: Chars \cup {"NUL"}]
    /\ cpu.at = "process" => cpu.byte \in Flags \cup Moves
    /\ phase \in 0..2

QueueType == queue \in [key: Seq(Chars \cup {"NUL"}), raw: Seq(Keys \cup {"NUL"}), mice: Seq(Bytes)]

Types == /\ machine \in Machines /\ kbd \in KbdType /\ mouse \in MouseType /\ PortType /\ QueueType
         /\ raced \in BOOLEAN /\ taken \in BOOLEAN

\* keyboard_read has a character in hand only while the ring still holds it.
Queues == RingsAreQueues /\ (cpu.at = "advance" => queue.key # << >>)

\* Bytes of the mouse that are read and not yet processed, and not yet read.
InHand == IF cpu.at = "process" THEN 1 ELSE 0
InPort == IF ps2.full /\ ps2.aux THEN 1 ELSE 0

\* A byte the mouse sent first in its packet has bit 3, in hand or in the port.
Framed ==
    ~raced => /\ (mouse.cycle + InPort + InHand) % 3 = phase
              /\ InHand = 1 /\ mouse.cycle = 0 => Bit(cpu.byte, 3)
              /\ InPort = 1 /\ (mouse.cycle + InHand) % 3 = 0 => Bit(ps2.byte, 3)

DriversInv == Types /\ GpuInv(gpu) /\ NicInv(nic) /\ Queues /\ Framed

\* A reader finds a byte exactly when the ring holds one.
LEMMA AvailIs ==
  ASSUME NEW n \in Nat, n > 1, NEW V, NEW r \in Ring(n, V)
  PROVE  Avail(r) <=> Held(r, n) # << >>
<1>1. Count(r, n) \in 0..(n - 1) /\ Held(r, n) \in Seq(V) /\ Len(Held(r, n)) = Count(r, n)
  BY HeldIs
<1>2. r.head \in 0..(n - 1) /\ r.tail \in 0..(n - 1)
  BY DEF Ring
<1>3. Count(r, n) = 0 <=> r.head = r.tail
  BY <1>2 DEF Count
<1>4. Held(r, n) = << >> <=> Len(Held(r, n)) = 0
  BY <1>1
<1>5. QED
  BY <1>1, <1>3, <1>4 DEF Avail

\* The sizes of the rings, and what bytes are.
LEMMA Constants ==
  /\ KeyBuf \in Nat /\ KeyBuf > 1 /\ RawBuf \in Nat /\ RawBuf > 1 /\ MiceBuf \in Nat /\ MiceBuf > 1
  /\ MaxX \in Nat /\ MaxX > 1 /\ MaxY \in Nat /\ MaxY > 1
  /\ Keys \subseteq Codes /\ Bytes \subseteq 0..255 /\ \A b \in Flags : Bit(b, 3)
<1>1. \A n \in Nat \ {0, 1} : n \in Nat /\ n > 1
  OBVIOUS
<1>2. {KeyBuf, RawBuf, MiceBuf, MaxX, MaxY} \subseteq Nat \ {0, 1}
  BY Ps2Assumption
<1>3. Keys \subseteq Codes /\ (\A b \in Flags : Bit(b, 3)) /\ Flags \subseteq 0..255 /\ Moves \subseteq 0..255
  BY DriversAssumption
<1>4. Bytes \subseteq 0..255
  BY <1>3 DEF Bytes
<1>5. QED
  BY <1>1, <1>2, <1>3, <1>4

\* keyboard_handler: the code goes to one ring, the character of a pressed key
\* to the other.
LEMMA KeyHandled ==
  ASSUME NEW k \in KbdType, NEW code \in Keys
  PROVE  /\ keyboard_handler(k, code) \in KbdType
         /\ Char(k) \in Chars
         /\ keyboard_handler(k, code).raw = Push(k.raw, RawBuf, code)
         /\ keyboard_handler(k, code).key = IF code = "c" THEN Push(k.key, KeyBuf, Char(k)) ELSE k.key
<1> DEFINE raw == Push(k.raw, RawBuf, code)
           key == Push(k.key, KeyBuf, Char(k))
           h == keyboard_handler(k, code)
<1>1. k.key \in Ring(KeyBuf, Chars \cup {"NUL"}) /\ k.raw \in Ring(RawBuf, Keys \cup {"NUL"})
  BY DEF KbdType
<1>2. Char(k) \in Chars
  BY DEF Char, Chars
<1>3. raw \in Ring(RawBuf, Keys \cup {"NUL"})
  BY <1>1, Constants, PushAccepts
<1>4. key \in Ring(KeyBuf, Chars \cup {"NUL"})
  BY SMTT(30), Z3T(30), <1>1, <1>2, Constants, PushAccepts
<1>5. \/ code = "c" /\ h = [[k EXCEPT !.raw = raw] EXCEPT !.key = Push([k EXCEPT !.raw = raw].key, KeyBuf, Char(k))]
      \/ code # "c" /\ (\E b \in BOOLEAN : h = [[k EXCEPT !.raw = raw] EXCEPT !.shift = b])
      \/ code # "c" /\ (\E b \in BOOLEAN : h = [[k EXCEPT !.raw = raw] EXCEPT !.ctrl = b])
      \/ code # "c" /\ h = [k EXCEPT !.raw = raw]
  BY ZenonT(40), Constants DEF keyboard_handler, raw_push, kbd_push, Codes
<1>6. [k EXCEPT !.raw = raw].key = k.key
  BY DEF KbdType
<1> HIDE DEF raw, key, h
<1>7. CASE code = "c" /\ h = [[k EXCEPT !.raw = raw] EXCEPT !.key = Push([k EXCEPT !.raw = raw].key, KeyBuf, Char(k))]
  <2>1. h = [[k EXCEPT !.raw = raw] EXCEPT !.key = key]
    BY <1>6, <1>7 DEF key
  <2>2. h \in KbdType /\ h.raw = raw /\ h.key = key
    BY ZenonT(40), <1>3, <1>4, <2>1 DEF KbdType
  <2>3. QED
    BY <1>2, <1>7, <2>2 DEF raw, key, h
<1>8. CASE code # "c" /\ (\E b \in BOOLEAN : h = [[k EXCEPT !.raw = raw] EXCEPT !.shift = b])
  <2>1. h \in KbdType /\ h.raw = raw /\ h.key = k.key
    BY ZenonT(40), <1>3, <1>8 DEF KbdType
  <2>2. QED
    BY <1>2, <1>8, <2>1 DEF raw, h
<1>9. CASE code # "c" /\ (\E b \in BOOLEAN : h = [[k EXCEPT !.raw = raw] EXCEPT !.ctrl = b])
  <2>1. h \in KbdType /\ h.raw = raw /\ h.key = k.key
    BY ZenonT(40), <1>3, <1>9 DEF KbdType
  <2>2. QED
    BY <1>2, <1>9, <2>1 DEF raw, h
<1>10. CASE code # "c" /\ h = [k EXCEPT !.raw = raw]
  <2>1. h \in KbdType /\ h.raw = raw /\ h.key = k.key
    BY <1>3, <1>10 DEF KbdType
  <2>2. QED
    BY <1>2, <1>10, <2>1 DEF raw, h
<1>11. QED
  BY ZenonT(40), <1>5, <1>7, <1>8, <1>9, <1>10

\* A coordinate is on the screen whatever the packet says.
LEMMA Clamped ==
  ASSUME NEW v \in Int, NEW max \in Nat
  PROVE  Clamp(v, max) \in 0..max
BY SMTT(30), Z3T(30) DEF Clamp

\* mouse_process_byte keeps the pointer on the screen, and goes on to the next
\* byte of the packet when a first byte has its bit 3.
LEMMA ByteHandled ==
  ASSUME NEW m \in MouseType, NEW d \in Flags \cup Moves
  PROVE  /\ mouse_process_byte(m, d) \in MouseType
         /\ mouse_process_byte(m, d).ring = Push(m.ring, MiceBuf, d)
         /\ (m.cycle = 0 => Bit(d, 3)) =>
              mouse_process_byte(m, d).cycle = IF m.cycle = 2 THEN 0 ELSE m.cycle + 1
<1> DEFINE ring == Push(m.ring, MiceBuf, d)
           r == [m EXCEPT !.ring = ring]
           h == mouse_process_byte(m, d)
<1>1. d \in Bytes /\ d \in 0..255 /\ MiceBuf \in Nat /\ MiceBuf > 1 /\ MaxX \in Nat /\ MaxY \in Nat
  BY SMTT(30), Z3T(30), Constants DEF Bytes
<1>2. /\ m.ring \in Ring(MiceBuf, Bytes) /\ m.cycle \in 0..2 /\ m.packet \in [1..2 -> 0..255]
      /\ m.x \in 0..MaxX /\ m.y \in 0..MaxY
  BY SMTT(30), Z3T(30) DEF MouseType
<1>3. ring \in Ring(MiceBuf, Bytes)
  BY SMTT(30), Z3T(30), <1>1, <1>2, PushAccepts
<1> HIDE DEF ring
<1>4. r \in MouseType /\ r.ring = ring /\ r.packet = m.packet /\ r.x = m.x /\ r.y = m.y /\ r.cycle = m.cycle
  BY <1>3 DEF MouseType
<1> DEFINE packet == <<0, 0>>
           flags == m.packet[1]
           x == Clamp(r.x + Delta(flags, 4, m.packet[2]), MaxX)
           y == Clamp(r.y - Delta(flags, 5, d), MaxY)
<1>5. /\ m.cycle = 0 => h = [r EXCEPT !.packet[1] = d, !.cycle = IF Bit(d, 3) THEN 1 ELSE 0]
      /\ m.cycle = 1 => h = [r EXCEPT !.packet[2] = d, !.cycle = 2]
      /\ m.cycle = 2 => h = [r EXCEPT !.cycle = 0, !.packet = packet, !.buttons = flags % 8, !.x = x, !.y = y]
  BY DEF mouse_process_byte, ring
<1> HIDE DEF r, h
<1>6. CASE m.cycle = 0
  <2> DEFINE p == [r.packet EXCEPT ![1] = d]
             c == IF Bit(d, 3) THEN 1 ELSE 0
  <2>1. h = [r EXCEPT !.packet = p, !.cycle = c]
    BY ZenonT(40), <1>4, <1>5, <1>6 DEF MouseType
  <2>2. p \in [1..2 -> 0..255] /\ c \in 0..2
    BY <1>1, <1>2, <1>4
  <2>3. c = 1 <=> Bit(d, 3)
    BY SMTT(30), Z3T(30)
  <2> HIDE DEF p, c
  <2>4. h \in MouseType /\ h.ring = ring /\ h.cycle = c
    BY ZenonT(30), <1>4, <2>1, <2>2 DEF MouseType
  <2>5. QED
    BY SMTT(30), Z3T(30), <1>6, <2>3, <2>4 DEF ring, h
<1>7. CASE m.cycle = 1
  <2> DEFINE p == [r.packet EXCEPT ![2] = d]
             c == 2
  <2>1. h = [r EXCEPT !.packet = p, !.cycle = c]
    BY ZenonT(40), <1>4, <1>5, <1>7 DEF MouseType
  <2>2. p \in [1..2 -> 0..255] /\ c \in 0..2
    BY <1>1, <1>2, <1>4
  <2> HIDE DEF p, c
  <2>3. h \in MouseType /\ h.ring = ring /\ h.cycle = c
    BY ZenonT(30), <1>4, <2>1, <2>2 DEF MouseType
  <2>4. QED
    BY <1>7, <2>3 DEF c, ring, h
<1>8. CASE m.cycle = 2
  <2>1. flags \in Int /\ m.packet[2] \in Int /\ d \in Int
    BY SMTT(30), Z3T(30), <1>1, <1>2
  <2>2. Delta(flags, 4, m.packet[2]) \in Int /\ Delta(flags, 5, d) \in Int
    BY <2>1 DEF Delta
  <2>3. x \in 0..MaxX
    <3>1. r.x + Delta(flags, 4, m.packet[2]) \in Int
      BY <1>2, <1>4, <2>2
    <3>2. QED
      BY ZenonT(40), <1>1, <3>1, Clamped
  <2>4. y \in 0..MaxY
    <3>1. r.y - Delta(flags, 5, d) \in Int
      BY <1>2, <1>4, <2>2
    <3>2. QED
      BY ZenonT(40), <1>1, <3>1, Clamped
  <2>5. flags % 8 \in 0..7
    BY <2>1, DivMod
  <2>6. packet \in [1..2 -> 0..255]
    OBVIOUS
  <2> DEFINE b == flags % 8
             c == 0
  <2>7. h = [r EXCEPT !.cycle = c, !.packet = packet, !.buttons = b, !.x = x, !.y = y] /\ b \in 0..7 /\ c \in 0..2
    BY SMTT(30), Z3T(30), <1>5, <1>8, <2>5
  <2> HIDE DEF x, y, b, c, packet
  <2>8. h \in MouseType /\ h.ring = ring /\ h.cycle = c
    BY ZenonT(30), <1>4, <2>3, <2>4, <2>6, <2>7 DEF MouseType
  <2>9. QED
    BY <1>8, <2>8 DEF c, ring, h
<1>9. QED
  BY <1>2, <1>6, <1>7, <1>8

\* A ring of the boot holds nothing.
LEMMA EmptyRing ==
  ASSUME NEW n \in Nat, n > 1, NEW V, NEW zero \in V
  PROVE  Empty(n, zero) \in Ring(n, V) /\ Held(Empty(n, zero), n) = << >>
<1>1. Empty(n, zero) \in Ring(n, V) /\ ~Avail(Empty(n, zero))
  BY DEF Empty, Ring, Avail
<1>2. QED
  BY <1>1, AvailIs

\* The invariant holds at boot, with any of the machines.
LEMMA InvInit == Init => DriversInv
<1> SUFFICES ASSUME Init PROVE DriversInv
  OBVIOUS
<1>2. /\ kbd \in KbdType /\ Held(kbd.key, KeyBuf) = << >> /\ Held(kbd.raw, RawBuf) = << >>
  <2>1. Empty(KeyBuf, "NUL") \in Ring(KeyBuf, Chars \cup {"NUL"}) /\ Held(Empty(KeyBuf, "NUL"), KeyBuf) = << >>
    BY Constants, EmptyRing
  <2>2. Empty(RawBuf, "NUL") \in Ring(RawBuf, Keys \cup {"NUL"}) /\ Held(Empty(RawBuf, "NUL"), RawBuf) = << >>
    BY ZenonT(40), Constants, EmptyRing
  <2>3. QED
    BY <2>1, <2>2 DEF Init, keyboard_init, KbdType
<1>3. mouse \in MouseType /\ Held(mouse.ring, MiceBuf) = << >> /\ mouse.cycle = 0
  <2>1. Empty(MiceBuf, 0) \in Ring(MiceBuf, Bytes) /\ Held(Empty(MiceBuf, 0), MiceBuf) = << >>
    BY Constants, EmptyRing DEF Bytes
  <2>2. <<0, 0>> \in [1..2 -> 0..255] /\ 1 \in 0..MaxX /\ 1 \in 0..MaxY /\ 0 \in 0..2 /\ 0 \in 0..7
    BY Constants
  <2>3. QED
    BY <2>1, <2>2 DEF Init, mouse_init, MouseType
<1>4. PortType /\ QueueType
  BY DEF Init, PortType, QueueType, Bytes
<1>5. Types
  BY ZenonT(40), <1>2, <1>3, <1>4 DEF Types, Init
<1>6. GpuInv(gpu)
  <2>1. gpu = virtio_gpu_init("gpu" \in machine) /\ ("gpu" \in machine) \in BOOLEAN
    BY DEF Init
  <2>2. QED
    BY ZenonT(40), <2>1, GpuInit
<1>7. NicInv(nic)
  <2>1. PICK up \in BOOLEAN : nic = e1000_init(up)
    BY ZenonT(40) DEF Init
  <2>2. QED
    BY <2>1, NicInit
<1>8. Queues
  BY <1>2, <1>3 DEF Queues, RingsAreQueues, Init
<1>9. Framed
  <2>1. InPort = 0 /\ InHand = 0 /\ phase = 0
    BY DEF Init, InPort, InHand
  <2>2. 0 % 3 = 0
    OBVIOUS
  <2>3. QED
    BY <1>3, <2>1, <2>2 DEF Framed
<1>10. QED
  BY <1>5, <1>6, <1>7, <1>8, <1>9 DEF DriversInv

\* Each device's steps keep its own invariant, and all others leave it alone.
LEMMA DevicesStep ==
  ASSUME GpuInv(gpu), NicInv(nic), [Next]_vars
  PROVE  GpuInv(gpu)' /\ NicInv(nic)'
<1>1. CASE UNCHANGED <<gpu, nic>>
  BY <1>1
<1>2. CASE vg_cmd \/ GpuAnswered \/ GpuTimeout \/ GpuStep \/ SYS_disp_flush
  <2>1. GpuInv(gpu)'
    BY <1>2, GpuSteps DEF vg_cmd, GpuAnswered, GpuTimeout, GpuStep, SYS_disp_flush, Gpu, At, Waiting
  <2>2. nic' = nic
    BY <1>2 DEF vg_cmd, GpuAnswered, GpuTimeout, GpuStep, SYS_disp_flush, Gpu
  <2>3. QED
    BY <2>1, <2>2
<1>3. CASE SendPacket \/ TxReturns \/ TxTimeout \/ NicStep
  <2>1. NicInv(nic)'
    BY ZenonT(40), <1>3, NicSteps DEF SendPacket, TxReturns, TxTimeout, NicStep, Nic, At, Waiting
  <2>2. gpu' = gpu
    BY <1>3 DEF SendPacket, TxReturns, TxTimeout, NicStep, Nic
  <2>3. QED
    BY SMTT(30), Z3T(30), <2>1, <2>2
<1>4. QED
  BY ZenonT(40), <1>1, <1>2, <1>3 DEF Next, vars, KeyArrives, MouseByteArrives, keyboard_irq_handler, mouse_irq_handler, Kmain,
        keyboard_read, shell_input, PollStatus, PollData, PollProcess, Loop, SYS_read_stdin, ReadReturns,
        SYS_read_tty, SYS_read_mice

\* What a handler or the poll reads from the port.
LEMMA PortGives ==
  ASSUME PortType
  PROVE  /\ ps2.irq # {} => KeyCodes \subseteq Keys
         /\ MouseBytes \subseteq Flags \cup Moves
BY DEF PortType, KeyCodes, MouseBytes

\* The actions by what they do to the input; the drivers that wait leave it
\* alone.
LEMMA InputSteps ==
  ASSUME [Next]_vars
  PROVE  \/ \E code \in Keys : KeyArrives(code)
         \/ \E b \in Flags \cup Moves : MouseByteArrives(b)
         \/ keyboard_irq_handler \/ mouse_irq_handler \/ keyboard_read \/ shell_input \/ PollStatus \/ PollData
         \/ PollProcess \/ Loop \/ SYS_read_stdin \/ ReadReturns \/ SYS_read_tty \/ SYS_read_mice
         \/ UNCHANGED <<machine, input, cpu>>
BY DEF Next, vars, input, Kmain, SYS_disp_flush, vg_cmd, GpuAnswered, GpuTimeout, GpuStep, SendPacket, TxReturns,
       TxTimeout, NicStep, Gpu, Nic

\* Accepting a byte keeps a queue a queue, and its oldest byte the oldest.
LEMMA Accepted ==
  ASSUME NEW V, NEW q \in Seq(V), NEW n \in Nat, NEW b \in V
  PROVE  /\ Accept(q, n, b) \in Seq(V)
         /\ q # << >> => Accept(q, n, b) # << >> /\ Head(Accept(q, n, b)) = Head(q)
<1>1. Append(q, b) \in Seq(V) /\ Len(Append(q, b)) = Len(q) + 1 /\ Len(q) \in Nat
  OBVIOUS
<1>2. ASSUME q # << >> PROVE Append(q, b) # << >> /\ Head(Append(q, b)) = Head(q)
  <2>1. Len(q) > 0 /\ 1 \in 1..Len(q)
    BY <1>1, <1>2
  <2>2. Append(q, b)[1] = q[1]
    BY <2>1
  <2>3. QED
    BY <1>1, <2>1, <2>2
<1>3. QED
  BY <1>1, <1>2 DEF Accept

\* What the handlers of one byte do to the driver and to the queues.
LEMMA KeyStep ==
  ASSUME Types, Queues, keyboard_irq_handler
  PROVE  /\ kbd' \in KbdType /\ QueueType' /\ UNCHANGED <<mouse, cpu>>
         /\ Held(kbd'.key, KeyBuf) = queue'.key /\ Held(kbd'.raw, RawBuf) = queue'.raw /\ queue'.mice = queue.mice
         /\ queue.key # << >> => queue'.key # << >> /\ Head(queue'.key) = Head(queue.key)
<1>1. PICK code \in KeyCodes :
        /\ kbd' = keyboard_handler(kbd, code)
        /\ queue' = [queue EXCEPT !.raw = Accept(queue.raw, RawBuf, code),
                                  !.key = IF code = "c" THEN Accept(queue.key, KeyBuf, Char(kbd)) ELSE queue.key]
  BY ZenonT(40) DEF keyboard_irq_handler
<1>2. code \in Keys
  BY PortGives DEF keyboard_irq_handler, Types
<1>3. /\ kbd' \in KbdType /\ Char(kbd) \in Chars
      /\ kbd'.raw = Push(kbd.raw, RawBuf, code)
      /\ kbd'.key = IF code = "c" THEN Push(kbd.key, KeyBuf, Char(kbd)) ELSE kbd.key
  BY <1>1, <1>2, KeyHandled DEF Types
<1>4. kbd.key \in Ring(KeyBuf, Chars \cup {"NUL"}) /\ kbd.raw \in Ring(RawBuf, Keys \cup {"NUL"})
  BY DEF Types, KbdType
<1>5. queue.key \in Seq(Chars \cup {"NUL"}) /\ queue.raw \in Seq(Keys \cup {"NUL"})
  BY DEF Types, QueueType
<1> DEFINE key == IF code = "c" THEN Accept(queue.key, KeyBuf, Char(kbd)) ELSE queue.key
           raw == Accept(queue.raw, RawBuf, code)
<1>6. raw \in Seq(Keys \cup {"NUL"}) /\ Held(kbd'.raw, RawBuf) = raw
  <2>1. code \in Keys \cup {"NUL"} /\ RawBuf \in Nat /\ RawBuf > 1
    BY <1>2, Constants
  <2>2. Held(Push(kbd.raw, RawBuf, code), RawBuf) = Accept(Held(kbd.raw, RawBuf), RawBuf, code)
    BY <1>4, <2>1, PushAccepts
  <2>3. Held(kbd.raw, RawBuf) = queue.raw
    BY DEF Queues, RingsAreQueues
  <2>4. raw \in Seq(Keys \cup {"NUL"})
    BY ZenonT(40), <1>5, <2>1, Accepted
  <2>5. QED
    BY <1>3, <2>2, <2>3, <2>4
<1>7. /\ key \in Seq(Chars \cup {"NUL"}) /\ Held(kbd'.key, KeyBuf) = key
      /\ queue.key # << >> => key # << >> /\ Head(key) = Head(queue.key)
  <2>1. Char(kbd) \in Chars \cup {"NUL"} /\ KeyBuf \in Nat /\ KeyBuf > 1
    BY <1>3, Constants
  <2>2. Held(Push(kbd.key, KeyBuf, Char(kbd)), KeyBuf) = Accept(Held(kbd.key, KeyBuf), KeyBuf, Char(kbd))
    BY <1>4, <2>1, PushAccepts
  <2>3. Held(kbd.key, KeyBuf) = queue.key
    BY DEF Queues, RingsAreQueues
  <2>4. /\ Accept(queue.key, KeyBuf, Char(kbd)) \in Seq(Chars \cup {"NUL"})
        /\ queue.key # << >> => /\ Accept(queue.key, KeyBuf, Char(kbd)) # << >>
                                /\ Head(Accept(queue.key, KeyBuf, Char(kbd))) = Head(queue.key)
    <3> DEFINE V == Chars \cup {"NUL"}
               q == queue.key
               c == Char(kbd)
    <3>1. q \in Seq(V) /\ c \in V /\ KeyBuf \in Nat
      BY <1>5, <2>1
    <3> HIDE DEF V, q, c
    <3>2. /\ Accept(q, KeyBuf, c) \in Seq(V)
          /\ q # << >> => Accept(q, KeyBuf, c) # << >> /\ Head(Accept(q, KeyBuf, c)) = Head(q)
      BY ZenonT(30), <3>1, Accepted
    <3>3. QED
      BY <3>2 DEF V, q, c
  <2>5. CASE code = "c"
    BY ZenonT(40), <1>3, <2>2, <2>3, <2>4, <2>5
  <2>6. CASE code # "c"
    BY <1>3, <1>5, <2>3, <2>6
  <2>7. QED
    BY <2>5, <2>6
<1> HIDE DEF key, raw
<1>8. queue' = [queue EXCEPT !.raw = raw, !.key = key]
  BY <1>1 DEF raw, key
<1>9. QueueType' /\ queue'.key = key /\ queue'.raw = raw /\ queue'.mice = queue.mice
  BY ZenonT(40), <1>6, <1>7, <1>8 DEF Types, QueueType
<1>10. QED
  BY SMTT(30), Z3T(30), <1>3, <1>6, <1>7, <1>9 DEF keyboard_irq_handler

\* A byte of the mouse processed, by the handler or by the poll of kmain.
LEMMA MouseStep ==
  ASSUME Types, Queues, NEW b \in Flags \cup Moves,
         mouse' = mouse_process_byte(mouse, b),
         queue' = [queue EXCEPT !.mice = Accept(queue.mice, MiceBuf, b)]
  PROVE  /\ mouse' \in MouseType /\ QueueType'
         /\ Held(mouse'.ring, MiceBuf) = queue'.mice /\ queue'.key = queue.key /\ queue'.raw = queue.raw
         /\ (mouse.cycle = 0 => Bit(b, 3)) => mouse'.cycle = IF mouse.cycle = 2 THEN 0 ELSE mouse.cycle + 1
<1>1. /\ mouse' \in MouseType /\ mouse'.ring = Push(mouse.ring, MiceBuf, b)
      /\ (mouse.cycle = 0 => Bit(b, 3)) => mouse'.cycle = IF mouse.cycle = 2 THEN 0 ELSE mouse.cycle + 1
  BY ByteHandled DEF Types
<1>2. b \in Bytes /\ MiceBuf \in Nat /\ MiceBuf > 1 /\ mouse.ring \in Ring(MiceBuf, Bytes) /\ queue.mice \in Seq(Bytes)
  BY Constants DEF Bytes, Types, MouseType, QueueType
<1>3. Held(Push(mouse.ring, MiceBuf, b), MiceBuf) = Accept(Held(mouse.ring, MiceBuf), MiceBuf, b)
  BY <1>2, PushAccepts
<1>4. Held(mouse.ring, MiceBuf) = queue.mice
  BY DEF Queues, RingsAreQueues
<1> DEFINE mice == Accept(queue.mice, MiceBuf, b)
<1>5. mice \in Seq(Bytes)
  BY <1>2, Accepted
<1>6. Held(mouse'.ring, MiceBuf) = mice
  BY <1>1, <1>3, <1>4
<1> HIDE DEF mice
<1>7. queue' = [queue EXCEPT !.mice = mice]
  BY DEF mice
<1>8. QueueType' /\ queue'.mice = mice /\ queue'.key = queue.key /\ queue'.raw = queue.raw
  BY <1>5, <1>7 DEF Types, QueueType
<1>9. QED
  BY <1>1, <1>6, <1>8

\* A reader that takes the oldest byte of a ring takes it off the queue.
LEMMA Taken ==
  ASSUME NEW n \in Nat, n > 1, NEW V, NEW r \in Ring(n, V), NEW zero \in V,
         NEW q \in Seq(V), Held(r, n) = q, q # << >>
  PROVE  /\ Advance(r, n, zero) \in Ring(n, V) /\ Held(Advance(r, n, zero), n) = Tail(q) /\ Tail(q) \in Seq(V)
<1>1. Avail(r)
  BY ZenonT(40), AvailIs
<1>2. QED
  BY <1>1, AdvanceTakes

\* keyboard_read looks at the oldest byte, the head of the queue, if there is one.
LEMMA OldestIsHead ==
  ASSUME NEW n \in Nat, n > 1, NEW V, NEW r \in Ring(n, V), NEW zero \in V
  PROVE  Avail(r) => Held(r, n) # << >> /\ Oldest(r) = Head(Held(r, n))
BY ZenonT(40), AdvanceTakes

\* Each reader of a ring: shell_input and a read of stdin, of /dev/ttyN and of
\* the mouse.
LEMMA ReadStep ==
  ASSUME Types, Queues, shell_input \/ ReadReturns \/ SYS_read_tty \/ SYS_read_mice
  PROVE  /\ kbd' \in KbdType /\ mouse' \in MouseType /\ QueueType' /\ mouse'.cycle = mouse.cycle
         /\ Held(kbd'.key, KeyBuf) = queue'.key /\ Held(kbd'.raw, RawBuf) = queue'.raw
         /\ Held(mouse'.ring, MiceBuf) = queue'.mice
         /\ queue'.key = queue.key \/ cpu'.at # "advance"
<1>1. /\ Held(kbd.key, KeyBuf) = queue.key /\ Held(kbd.raw, RawBuf) = queue.raw
      /\ Held(mouse.ring, MiceBuf) = queue.mice
  BY DEF Queues, RingsAreQueues
<1>2. /\ kbd.key \in Ring(KeyBuf, Chars \cup {"NUL"}) /\ kbd.raw \in Ring(RawBuf, Keys \cup {"NUL"})
      /\ mouse.ring \in Ring(MiceBuf, Bytes)
      /\ queue.key \in Seq(Chars \cup {"NUL"}) /\ queue.raw \in Seq(Keys \cup {"NUL"}) /\ queue.mice \in Seq(Bytes)
  BY DEF Types, KbdType, MouseType, QueueType
<1>3. KeyBuf \in Nat /\ KeyBuf > 1 /\ RawBuf \in Nat /\ RawBuf > 1 /\ MiceBuf \in Nat /\ MiceBuf > 1
  BY Constants
<1>4. /\ kbd \in KbdType /\ mouse \in MouseType /\ QueueType
      /\ cpu \in [at: {"avail", "advance", "status", "data", "process", "yield", "spin"}, seen: BOOLEAN,
                  byte: Bytes, ch: Chars \cup {"NUL"}]
  BY DEF Types, PortType
<1>5. CASE shell_input \/ ReadReturns
  <2> DEFINE r == Advance(kbd.key, KeyBuf, "NUL")
             q == Tail(queue.key)
  <2>1. kbd' = [kbd EXCEPT !.key = r] /\ queue' = [queue EXCEPT !.key = q] /\ mouse' = mouse
    BY <1>5 DEF shell_input, ReadReturns
  <2>2. queue.key # << >>
    <3>1. CASE shell_input
      BY <3>1 DEF shell_input, At, Queues
    <3>2. CASE ReadReturns
      BY SMTT(30), Z3T(30), <1>1, <1>2, <1>3, <3>2, AvailIs DEF ReadReturns
    <3>3. QED
      BY <1>5, <3>1, <3>2
  <2>3. r \in Ring(KeyBuf, Chars \cup {"NUL"}) /\ Held(r, KeyBuf) = q /\ q \in Seq(Chars \cup {"NUL"})
    BY ZenonT(40), <1>1, <1>2, <1>3, <2>2, Taken
  <2> HIDE DEF r, q
  <2>4. /\ kbd' \in KbdType /\ kbd'.key = r /\ kbd'.raw = kbd.raw
        /\ QueueType' /\ queue'.key = q /\ queue'.raw = queue.raw /\ queue'.mice = queue.mice
    BY ZenonT(40), <1>4, <2>1, <2>3 DEF KbdType, QueueType
  <2>5. cpu'.at # "advance"
    BY ZenonT(40), <1>4, <1>5 DEF shell_input, ReadReturns, Goto
  <2>6. QED
    BY ZenonT(40), <1>1, <1>4, <2>1, <2>3, <2>4, <2>5
<1>6. CASE SYS_read_tty
  <2> DEFINE r == Advance(kbd.raw, RawBuf, "NUL")
             q == Tail(queue.raw)
  <2>1. kbd' = [kbd EXCEPT !.raw = r] /\ queue' = [queue EXCEPT !.raw = q] /\ mouse' = mouse
    BY <1>6 DEF SYS_read_tty
  <2>2. queue.raw # << >>
    BY SMTT(30), Z3T(30), <1>1, <1>2, <1>3, <1>6, AvailIs DEF SYS_read_tty
  <2>3. r \in Ring(RawBuf, Keys \cup {"NUL"}) /\ Held(r, RawBuf) = q /\ q \in Seq(Keys \cup {"NUL"})
    BY ZenonT(40), <1>1, <1>2, <1>3, <2>2, Taken
  <2> HIDE DEF r, q
  <2>4. /\ kbd' \in KbdType /\ kbd'.raw = r /\ kbd'.key = kbd.key
        /\ QueueType' /\ queue'.raw = q /\ queue'.key = queue.key /\ queue'.mice = queue.mice
    BY ZenonT(40), <1>4, <2>1, <2>3 DEF KbdType, QueueType
  <2>5. QED
    BY <1>1, <1>4, <2>1, <2>3, <2>4
<1>7. CASE SYS_read_mice
  <2> DEFINE r == Advance(mouse.ring, MiceBuf, 0)
             q == Tail(queue.mice)
  <2>1. mouse' = [mouse EXCEPT !.ring = r] /\ queue' = [queue EXCEPT !.mice = q] /\ kbd' = kbd
    BY <1>7 DEF SYS_read_mice
  <2>2. queue.mice # << >>
    BY SMTT(30), Z3T(30), <1>1, <1>2, <1>3, <1>7, AvailIs DEF SYS_read_mice
  <2>3. r \in Ring(MiceBuf, Bytes) /\ Held(r, MiceBuf) = q /\ q \in Seq(Bytes)
    <3>1. 0 \in Bytes
      BY DEF Bytes
    <3>2. QED
      BY ZenonT(40), <1>1, <1>2, <1>3, <2>2, <3>1, Taken
  <2> HIDE DEF r, q
  <2>4. /\ mouse' \in MouseType /\ mouse'.ring = r /\ mouse'.cycle = mouse.cycle
        /\ QueueType' /\ queue'.mice = q /\ queue'.key = queue.key /\ queue'.raw = queue.raw
    BY ZenonT(40), <1>4, <2>1, <2>3 DEF MouseType, QueueType
  <2>5. QED
    BY <1>1, <1>4, <2>1, <2>3, <2>4
<1>8. QED
  BY <1>5, <1>6, <1>7

\* Every step keeps the port and the loop typed.
LEMMA PortStep ==
  ASSUME Types, [Next]_vars
  PROVE  PortType'
<1>0. PortType
  BY DEF Types
<1>1. ASSUME NEW code \in Keys, KeyArrives(code) PROVE PortType'
  BY ZenonT(40), <1>0, <1>1 DEF KeyArrives, PortType, Bytes
<1>2. ASSUME NEW b \in Flags \cup Moves, MouseByteArrives(b) PROVE PortType'
  <2>1. (phase + 1) % 3 \in 0..2
    BY SMTT(30), Z3T(30), <1>0, DivMod DEF PortType
  <2>2. phase' \in 0..2
    BY <1>2, <2>1 DEF MouseByteArrives
  <2>3. QED
    BY <1>0, <1>2, <2>2 DEF MouseByteArrives, PortType, Bytes
<1>3. CASE keyboard_irq_handler \/ mouse_irq_handler
  <2>1. /\ ps2' \in [code: Keys \cup {"NUL"}, byte: Bytes, aux: BOOLEAN, full: BOOLEAN, irq: SUBSET {"kbd", "aux"}]
        /\ ps2'.irq \subseteq ps2.irq /\ ps2'.code = ps2.code /\ ps2'.byte = ps2.byte /\ ps2'.aux = ps2.aux
    <3>1. PICK S \in SUBSET ps2.irq : ps2' = [ps2 EXCEPT !.full = FALSE, !.irq = S]
      BY ZenonT(40), <1>3 DEF keyboard_irq_handler, mouse_irq_handler
    <3>2. S \in SUBSET {"kbd", "aux"}
      BY SMTT(30), Z3T(30), <1>0 DEF PortType
    <3>3. QED
      BY ZenonT(40), <1>0, <3>1, <3>2 DEF PortType
  <2>2. UNCHANGED <<cpu, phase>>
    BY ZenonT(40), <1>3 DEF keyboard_irq_handler, mouse_irq_handler
  <2>3. QED
    BY SMTT(30), Z3T(30), <1>0, <2>1, <2>2 DEF PortType
<1>4. CASE keyboard_read
  <2>1. UNCHANGED <<ps2, phase>>
    BY <1>4 DEF keyboard_read, input
  <2>2. Oldest(kbd.key) \in Chars \cup {"NUL"}
    BY ZenonT(40) DEF Types, KbdType, Ring, Oldest
  <2>3. QED
    BY ZenonT(40), <1>0, <1>4, <2>1, <2>2 DEF keyboard_read, PortType
<1>5. CASE shell_input
  BY ZenonT(40), <1>0, <1>5 DEF shell_input, PortType
<1>6. CASE PollStatus
  BY ZenonT(40), <1>0, <1>6 DEF PollStatus, PortType, input
<1>7. CASE PollData
  <2>1. ps2' \in [code: Keys \cup {"NUL"}, byte: Bytes, aux: BOOLEAN, full: BOOLEAN, irq: SUBSET {"kbd", "aux"}]
    BY <1>0, <1>7, Zenon DEF PollData, PortRead, PortType
  <2>2. ps2'.irq = ps2.irq /\ ps2'.code = ps2.code /\ ps2'.byte = ps2.byte /\ ps2'.aux = ps2.aux
    BY <1>0, <1>7 DEF PollData, PortRead, PortType
  <2>3. PICK b \in MouseBytes :
           cpu' = IF cpu.seen THEN [cpu EXCEPT !.at = "process", !.byte = b] ELSE [cpu EXCEPT !.at = "yield"]
    BY <1>7, Zenon DEF PollData
  <2>4. b \in Flags \cup Moves /\ b \in Bytes
    BY <1>0, <2>3, PortGives DEF Bytes
  <2>5. /\ cpu' \in [at: {"avail", "advance", "status", "data", "process", "yield", "spin"}, seen: BOOLEAN,
                    byte: Bytes, ch: Chars \cup {"NUL"}]
        /\ cpu'.at = "process" => cpu'.byte \in Flags \cup Moves
    BY ZenonT(40), <1>0, <2>3, <2>4 DEF PortType
  <2>6. phase' = phase
    BY <1>7 DEF PollData
  <2>7. QED
    BY <1>0, <2>1, <2>2, <2>5, <2>6 DEF PortType
<1>8. CASE PollProcess
  BY ZenonT(40), <1>0, <1>8 DEF PollProcess, PortType, Bytes
<1>9. CASE Loop
  BY ZenonT(40), <1>0, <1>9 DEF Loop, PortType, input
<1>10. CASE SYS_read_stdin
  BY <1>0, <1>10 DEF SYS_read_stdin, Goto, PortType, input
<1>11. CASE ReadReturns
  BY <1>0, <1>11 DEF ReadReturns, Goto, PortType
<1>12. CASE SYS_read_tty \/ SYS_read_mice \/ UNCHANGED <<machine, input, cpu>>
  BY <1>0, <1>12 DEF SYS_read_tty, SYS_read_mice, PortType, input
<1>13. QED
  BY ZenonT(40), <1>1, <1>2, <1>3, <1>4, <1>5, <1>6, <1>7, <1>8, <1>9, <1>10, <1>11, <1>12, InputSteps

\* Every step keeps the drivers typed and their rings equal to the queues.
LEMMA QueuesStep ==
  ASSUME Types, Queues, [Next]_vars
  PROVE  Types' /\ Queues'
<1>1. PortType'
  BY PortStep
<1>2. machine' \in Machines /\ raced' \in BOOLEAN /\ taken' \in BOOLEAN
  <2>1. machine \in Machines /\ raced \in BOOLEAN /\ taken \in BOOLEAN
    BY DEF Types
  <2>2. machine' = machine /\ raced' \in BOOLEAN /\ taken' \in BOOLEAN
    BY <2>1, InputSteps, Zenon DEF KeyArrives, MouseByteArrives, keyboard_irq_handler, mouse_irq_handler, keyboard_read,
        shell_input, PollStatus, PollData, PollProcess, Loop, SYS_read_stdin, ReadReturns, SYS_read_tty, SYS_read_mice,
        input
  <2>3. QED
    BY <2>1, <2>2
<1>3. /\ kbd \in KbdType /\ mouse \in MouseType /\ QueueType
      /\ cpu \in [at: {"avail", "advance", "status", "data", "process", "yield", "spin"}, seen: BOOLEAN,
                  byte: Bytes, ch: Chars \cup {"NUL"}]
  BY DEF Types, PortType
<1>4. CASE keyboard_irq_handler
  <2>1. /\ kbd' \in KbdType /\ QueueType' /\ UNCHANGED <<mouse, cpu>>
        /\ Held(kbd'.key, KeyBuf) = queue'.key /\ Held(kbd'.raw, RawBuf) = queue'.raw /\ queue'.mice = queue.mice
        /\ queue.key # << >> => queue'.key # << >> /\ Head(queue'.key) = Head(queue.key)
    BY <1>4, KeyStep
  <2>2. Types'
    BY ZenonT(40), <1>1, <1>2, <1>3, <2>1 DEF Types
  <2>3. Queues'
    BY <2>1 DEF Queues, RingsAreQueues
  <2>4. QED
    BY <2>2, <2>3
<1>5. CASE mouse_irq_handler \/ PollProcess
  <2>1. PICK b \in Flags \cup Moves :
          /\ mouse' = mouse_process_byte(mouse, b)
          /\ queue' = [queue EXCEPT !.mice = Accept(queue.mice, MiceBuf, b)]
    <3>1. CASE mouse_irq_handler
      BY <3>1, PortGives DEF mouse_irq_handler, Types
    <3>2. CASE PollProcess
      BY <3>2 DEF PollProcess, At, Types, PortType
    <3>3. QED
      BY <1>5, <3>1, <3>2
  <2>2. /\ mouse' \in MouseType /\ QueueType'
        /\ Held(mouse'.ring, MiceBuf) = queue'.mice /\ queue'.key = queue.key /\ queue'.raw = queue.raw
    BY <2>1, MouseStep
  <2>3. kbd' = kbd /\ (cpu'.at = "advance" => cpu' = cpu)
    BY ZenonT(40), <1>3, <1>5 DEF mouse_irq_handler, PollProcess
  <2>4. Types'
    BY ZenonT(40), <1>1, <1>2, <1>3, <2>2, <2>3 DEF Types
  <2>5. Queues'
    BY ZenonT(40), <2>2, <2>3 DEF Queues, RingsAreQueues
  <2>6. QED
    BY <2>4, <2>5
<1>6. CASE shell_input \/ ReadReturns \/ SYS_read_tty \/ SYS_read_mice
  <2>1. /\ kbd' \in KbdType /\ mouse' \in MouseType /\ QueueType'
        /\ Held(kbd'.key, KeyBuf) = queue'.key /\ Held(kbd'.raw, RawBuf) = queue'.raw
        /\ Held(mouse'.ring, MiceBuf) = queue'.mice
        /\ queue'.key = queue.key \/ cpu'.at # "advance"
    BY SMTT(30), Z3T(30), <1>6, ReadStep
  <2>2. cpu'.at = "advance" => cpu' = cpu
    BY ZenonT(40), <1>3, <1>6 DEF shell_input, ReadReturns, SYS_read_tty, SYS_read_mice, Goto
  <2>3. Types'
    BY ZenonT(40), <1>1, <1>2, <2>1 DEF Types
  <2>4. Queues'
    BY <2>1, <2>2 DEF Queues, RingsAreQueues
  <2>5. QED
    BY <2>3, <2>4
<1>7. CASE keyboard_read
  <2>1. UNCHANGED <<kbd, mouse, queue>>
    BY <1>7 DEF keyboard_read, input
  <2>2. Avail(kbd.key) => queue.key # << >> /\ Oldest(kbd.key) = Head(queue.key)
    <3>1. kbd.key \in Ring(KeyBuf, Chars \cup {"NUL"}) /\ KeyBuf \in Nat /\ KeyBuf > 1 /\ Held(kbd.key, KeyBuf) = queue.key
      BY ZenonT(40), <1>3, Constants DEF KbdType, Queues, RingsAreQueues
    <3>2. Avail(kbd.key) => Held(kbd.key, KeyBuf) # << >> /\ Oldest(kbd.key) = Head(Held(kbd.key, KeyBuf))
      <4>1. "NUL" \in Chars \cup {"NUL"}
        OBVIOUS
      <4>2. QED
        BY ZenonT(40), <3>1, <4>1, OldestIsHead
    <3>3. QED
      BY <3>1, <3>2
  <2>3. cpu'.at = "advance" => Avail(kbd.key) /\ cpu'.ch = Oldest(kbd.key)
    BY <1>3, <1>7 DEF keyboard_read
  <2>4. Types'
    BY ZenonT(40), <1>1, <1>2, <1>3, <2>1 DEF Types, QueueType
  <2>5. Queues'
    BY ZenonT(40), <2>1, <2>2, <2>3 DEF Queues, RingsAreQueues
  <2>6. QED
    BY <2>4, <2>5
<1>8. CASE UNCHANGED <<kbd, mouse, queue>> /\ (cpu'.at = "advance" => cpu' = cpu)
  <2>1. Types'
    BY ZenonT(40), <1>1, <1>2, <1>3, <1>8 DEF Types, QueueType
  <2>2. Queues'
    BY SMTT(30), Z3T(30), <1>8 DEF Queues, RingsAreQueues
  <2>3. QED
    BY <2>1, <2>2
<1>9. ASSUME \/ \E code \in Keys : KeyArrives(code)
             \/ \E b \in Flags \cup Moves : MouseByteArrives(b)
             \/ PollStatus \/ PollData \/ Loop \/ SYS_read_stdin \/ UNCHANGED <<machine, input, cpu>>
      PROVE  UNCHANGED <<kbd, mouse, queue>> /\ (cpu'.at = "advance" => cpu' = cpu)
  BY ZenonT(40), <1>3, <1>9 DEF KeyArrives, MouseByteArrives, PollStatus, PollData, Loop, SYS_read_stdin, Goto, input
<1>10. QED
  BY ZenonT(40), <1>4, <1>5, <1>6, <1>7, <1>8, <1>9, InputSteps

\* Adding three small numbers around a packet of three bytes.
LEMMA ModThree ==
  ASSUME NEW x \in 0..4
  PROVE  x % 3 = IF x < 3 THEN x ELSE x - 3
<1>1. (x < 3 => x % 3 = x) /\ (x >= 3 => x % 3 = x - 3)
  BY Wrapped
<1>2. QED
  BY <1>1

\* The framing only depends on the cycle, the port, the loop and the phase.
LEMMA FramedStep ==
  ASSUME Types, Queues, Framed, [Next]_vars
  PROVE  Framed'
<1>1. /\ mouse.cycle \in 0..2 /\ phase \in 0..2 /\ raced \in BOOLEAN
      /\ ps2 \in [code: Keys \cup {"NUL"}, byte: Bytes, aux: BOOLEAN, full: BOOLEAN, irq: SUBSET {"kbd", "aux"}]
      /\ cpu \in [at: {"avail", "advance", "status", "data", "process", "yield", "spin"}, seen: BOOLEAN,
                  byte: Bytes, ch: Chars \cup {"NUL"}]
  BY DEF Types, PortType, MouseType
<1>2. InHand \in 0..1 /\ InPort \in 0..1 /\ (InHand = 1 <=> cpu.at = "process") /\ (InPort = 1 <=> ps2.full /\ ps2.aux)
  BY DEF InHand, InPort
<1>3. /\ InHand' \in 0..1 /\ InPort' \in 0..1
      /\ (InHand' = 1 <=> cpu'.at = "process") /\ (InPort' = 1 <=> ps2'.full /\ ps2'.aux)
  BY DEF InHand, InPort
<1>4. CASE \E code \in Keys : KeyArrives(code)
  <2>1. UNCHANGED <<mouse, cpu, phase, raced>> /\ ~ps2.full /\ ~ps2'.aux
    BY <1>4 DEF KeyArrives
  <2>2. InPort = 0 /\ InPort' = 0 /\ InHand' = InHand
    BY SMTT(30), Z3T(30), <1>2, <1>3, <2>1
  <2>3. QED
    BY SMTT(30), Z3T(30), <2>1, <2>2 DEF Framed
<1>5. CASE \E b \in Flags \cup Moves : MouseByteArrives(b)
  <2>1. PICK b \in Flags \cup Moves : MouseByteArrives(b)
    BY ZenonT(40), <1>5
  <2>2. /\ UNCHANGED <<mouse, cpu, raced>> /\ ~ps2.full /\ ps2'.full /\ ps2'.aux /\ ps2'.byte = b
        /\ phase' = (phase + 1) % 3 /\ (phase = 0 => Bit(b, 3))
    BY <2>1, Constants DEF MouseByteArrives
  <2>3. InPort = 0 /\ InPort' = 1 /\ InHand' = InHand
    BY <1>2, <1>3, <2>2
  <2> DEFINE n == mouse.cycle + InHand
  <2>4. n \in 0..3 /\ n + 1 \in 0..4 /\ mouse.cycle + InPort + InHand = n /\ mouse.cycle + 1 + InHand = n + 1
    BY SMTT(30), Z3T(30), <1>1, <1>2, <2>3
  <2>5. ASSUME ~raced PROVE phase = n % 3
    BY <2>4, <2>5 DEF Framed
  <2>6. /\ n % 3 = IF n < 3 THEN n ELSE n - 3
        /\ (n + 1) % 3 = IF n + 1 < 3 THEN n + 1 ELSE n + 1 - 3
    BY SMTT(30), Z3T(30), <2>4, ModThree
  <2>7. phase + 1 \in 0..4 /\ phase' = IF phase + 1 < 3 THEN phase + 1 ELSE phase + 1 - 3
    BY <1>1, <2>2, ModThree
  <2>8. ~raced => (n + 1) % 3 = phase'
    <3> DEFINE p == (n + 1) % 3
               q == n % 3
    <3>1. /\ q = IF n < 3 THEN n ELSE n - 3
          /\ p = IF n + 1 < 3 THEN n + 1 ELSE n + 1 - 3
          /\ ~raced => phase = q
      BY <2>5, <2>6
    <3> HIDE DEF n, p, q
    <3>2. ~raced => p = phase'
      BY SMTT(30), Z3T(30), <2>4, <2>7, <3>1
    <3>3. QED
      BY <3>2 DEF p
  <2>9. QED
    BY ZenonT(40), <2>2, <2>3, <2>4, <2>5, <2>8 DEF Framed
<1>6. CASE keyboard_irq_handler
  <2>1. /\ UNCHANGED <<mouse, cpu, phase>> /\ ~ps2'.full
        /\ raced' = (raced \/ ~ps2.full \/ ps2.aux)
    BY <1>1, <1>6 DEF keyboard_irq_handler
  <2>2. ~raced' => ~raced /\ InPort = 0 /\ InPort' = 0 /\ InHand' = InHand
    BY SMTT(30), Z3T(30), <1>1, <1>2, <1>3, <2>1
  <2>3. QED
    BY <2>1, <2>2 DEF Framed
<1>7. CASE mouse_irq_handler
  <2>1. PICK b \in MouseBytes :
          /\ mouse' = mouse_process_byte(mouse, b)
          /\ queue' = [queue EXCEPT !.mice = Accept(queue.mice, MiceBuf, b)]
    BY <1>7 DEF mouse_irq_handler
  <2>2. b \in Flags \cup Moves
    BY PortGives DEF Types
  <2>3. /\ UNCHANGED <<cpu, phase>> /\ ~ps2'.full
        /\ raced' = (raced \/ ~ps2.full \/ ~ps2.aux \/ cpu.at = "process")
    BY ZenonT(40), <1>1, <1>7 DEF mouse_irq_handler
  <2>4. SUFFICES ASSUME ~raced' PROVE Framed'
    BY DEF Framed
  <2>5. ~raced /\ ps2.full /\ ps2.aux /\ cpu.at # "process" /\ b = ps2.byte
    BY ZenonT(40), <1>1, <2>1, <2>3, <2>4 DEF MouseBytes
  <2>6. InPort = 1 /\ InHand = 0 /\ InPort' = 0 /\ InHand' = 0
    BY <1>2, <1>3, <2>3, <2>5
  <2>7. mouse.cycle % 3 = mouse.cycle /\ mouse.cycle + InHand = mouse.cycle
    BY SMTT(30), Z3T(30), <1>1, <2>6, ModThree
  <2>8. mouse.cycle = 0 => Bit(b, 3)
    BY SMTT(30), Z3T(30), <2>5, <2>6, <2>7 DEF Framed
  <2>9. mouse'.cycle = IF mouse.cycle = 2 THEN 0 ELSE mouse.cycle + 1
    BY ZenonT(40), <2>1, <2>2, <2>8, MouseStep
  <2>10. (mouse.cycle + 1) % 3 = phase
    <3>1. mouse.cycle + InPort + InHand = mouse.cycle + 1
      BY <1>1, <2>6
    <3>2. QED
      BY <2>5, <3>1 DEF Framed
  <2>11. (mouse'.cycle + 0 + 0) % 3 = phase
    <3>1. mouse.cycle + 1 \in 0..4 /\ (mouse.cycle + 1) % 3 = IF mouse.cycle + 1 < 3 THEN mouse.cycle + 1 ELSE mouse.cycle + 1 - 3
      BY <1>1, ModThree
    <3>2. phase = mouse'.cycle /\ mouse'.cycle \in 0..4 /\ mouse'.cycle < 3 /\ mouse'.cycle + 0 + 0 = mouse'.cycle
      BY SMTT(30), Z3T(30), <1>1, <2>9, <2>10, <3>1
    <3>3. mouse'.cycle % 3 = mouse'.cycle
      BY <3>2, ModThree
    <3>4. QED
      BY SMTT(30), Z3T(30), <3>2, <3>3
  <2>12. QED
    BY <2>3, <2>6, <2>11 DEF Framed
<1>8. CASE PollData
  <2>1. PICK b \in MouseBytes : cpu' = IF cpu.seen THEN [cpu EXCEPT !.at = "process", !.byte = b] ELSE [cpu EXCEPT !.at = "yield"]
    BY ZenonT(40), <1>8 DEF PollData
  <2>2. /\ UNCHANGED <<mouse, phase>> /\ ~ps2'.full /\ cpu.at = "data"
        /\ raced' = (raced \/ ~ps2.full \/ ps2.aux # cpu.seen)
    BY <1>1, <1>8 DEF PollData, PortRead, At
  <2>3. SUFFICES ASSUME ~raced' PROVE Framed'
    BY DEF Framed
  <2>4. ~raced /\ ps2.full /\ ps2.aux = cpu.seen
    BY ZenonT(40), <1>1, <2>2, <2>3
  <2>5. InHand = 0 /\ InPort' = 0
    BY SMTT(30), Z3T(30), <1>2, <1>3, <2>2
  <2>6. CASE cpu.seen
    <3>1. b = ps2.byte /\ cpu'.at = "process" /\ cpu'.byte = b
      BY ZenonT(40), <1>1, <2>1, <2>4, <2>6 DEF MouseBytes
    <3>2. InPort = 1 /\ InHand' = 1
      BY ZenonT(40), <1>2, <1>3, <2>4, <2>6, <3>1
    <3>3. /\ mouse.cycle % 3 = mouse.cycle /\ mouse.cycle + InHand = mouse.cycle
          /\ mouse.cycle + InPort + InHand = mouse.cycle + 1 /\ mouse.cycle + InPort' + InHand' = mouse.cycle + 1
      BY SMTT(30), Z3T(30), <1>1, <2>5, <3>2, ModThree
    <3>4. mouse'.cycle = 0 => Bit(cpu'.byte, 3)
      BY ZenonT(40), <2>2, <2>4, <3>1, <3>2, <3>3 DEF Framed
    <3>5. (mouse'.cycle + InPort' + InHand') % 3 = phase'
      BY ZenonT(40), <2>2, <2>4, <3>3 DEF Framed
    <3>6. QED
      BY <2>5, <3>4, <3>5 DEF Framed
  <2>7. CASE ~cpu.seen
    <3>1. cpu'.at = "yield"
      BY ZenonT(40), <1>1, <2>1, <2>7
    <3>2. InPort = 0 /\ InHand' = 0
      BY SMTT(30), Z3T(30), <1>1, <1>2, <1>3, <2>4, <2>7, <3>1
    <3>3. QED
      BY SMTT(30), Z3T(30), <2>2, <2>4, <2>5, <3>2 DEF Framed
  <2>8. QED
    BY SMTT(30), Z3T(30), <2>6, <2>7
<1>9. CASE PollProcess
  <2>1. /\ cpu.at = "process" /\ cpu'.at = "yield" /\ UNCHANGED <<ps2, phase, raced>>
        /\ mouse' = mouse_process_byte(mouse, cpu.byte)
        /\ queue' = [queue EXCEPT !.mice = Accept(queue.mice, MiceBuf, cpu.byte)]
    BY <1>1, <1>9 DEF PollProcess, At
  <2>2. cpu.byte \in Flags \cup Moves
    BY <2>1 DEF Types, PortType
  <2>3. SUFFICES ASSUME ~raced PROVE Framed'
    BY <2>1 DEF Framed
  <2>4. InHand = 1 /\ InHand' = 0 /\ InPort' = InPort
    BY <1>2, <1>3, <2>1
  <2>5. mouse.cycle = 0 => Bit(cpu.byte, 3)
    BY <2>3, <2>4 DEF Framed
  <2>6. mouse'.cycle = IF mouse.cycle = 2 THEN 0 ELSE mouse.cycle + 1
    BY ZenonT(40), <2>1, <2>2, <2>5, MouseStep
  <2> DEFINE c == mouse.cycle
             d == mouse'.cycle
             i == InPort
  <2>7. /\ c \in 0..2 /\ i \in 0..1 /\ d = (IF c = 2 THEN 0 ELSE c + 1) /\ d \in 0..2
        /\ c + i + 1 \in 0..4 /\ d + i + 0 \in 0..4 /\ c + 1 \in 0..4 /\ d + 0 \in 0..4
    BY SMTT(30), Z3T(30), <1>1, <1>2, <2>6
  <2>8. /\ (c + i + 1) % 3 = phase
        /\ i = 1 /\ (c + 1) % 3 = 0 => Bit(ps2.byte, 3)
    BY <2>3, <2>4 DEF Framed
  <2> HIDE DEF c, d, i
  <2>9. (d + i + 0) % 3 = (c + i + 1) % 3
    <3>1. (c + i + 1) % 3 = IF c + i + 1 < 3 THEN c + i + 1 ELSE c + i + 1 - 3
      BY SMTT(30), Z3T(30), <2>7, ModThree
    <3>2. (d + i + 0) % 3 = IF d + i + 0 < 3 THEN d + i + 0 ELSE d + i + 0 - 3
      BY <2>7, ModThree
    <3>3. QED
      BY <2>7, <3>1, <3>2
  <2>10. (d + 0) % 3 = (c + 1) % 3
    <3>1. (c + 1) % 3 = IF c + 1 < 3 THEN c + 1 ELSE c + 1 - 3
      BY <2>7, ModThree
    <3>2. (d + 0) % 3 = IF d + 0 < 3 THEN d + 0 ELSE d + 0 - 3
      BY SMTT(30), Z3T(30), <2>7, ModThree
    <3>3. QED
      BY <2>7, <3>1, <3>2
  <2>11. QED
    BY SMTT(30), Z3T(30), <2>1, <2>4, <2>8, <2>9, <2>10 DEF Framed, d, i
<1>10. CASE SYS_read_mice
  <2>1. mouse'.cycle = mouse.cycle /\ UNCHANGED <<ps2, cpu, phase, raced>>
    BY ZenonT(40), <1>10, ReadStep DEF SYS_read_mice
  <2>2. QED
    BY <2>1 DEF Framed, InPort, InHand
<1>11. CASE UNCHANGED <<mouse, ps2, phase, raced>> /\ cpu.at # "process" /\ cpu'.at # "process"
  BY SMTT(30), Z3T(30), <1>11 DEF Framed, InPort, InHand
<1>12. CASE UNCHANGED <<mouse, ps2, phase, raced, cpu>>
  BY <1>12 DEF Framed, InPort, InHand
<1>13. ASSUME keyboard_read \/ shell_input \/ PollStatus \/ Loop \/ SYS_read_stdin \/ ReadReturns
       PROVE  UNCHANGED <<mouse, ps2, phase, raced>> /\ cpu.at # "process" /\ cpu'.at # "process"
  BY ZenonT(40), <1>1, <1>13 DEF keyboard_read, shell_input, PollStatus, Loop, SYS_read_stdin, ReadReturns, At, Goto, input
<1>14. ASSUME SYS_read_tty \/ UNCHANGED <<machine, input, cpu>> PROVE UNCHANGED <<mouse, ps2, phase, raced, cpu>>
  BY <1>14 DEF SYS_read_tty, input
<1>15. QED
  BY ZenonT(40), <1>4, <1>5, <1>6, <1>7, <1>8, <1>9, <1>10, <1>11, <1>12, <1>13, <1>14, InputSteps

-----------------------------------------------------------------------------
(* The theorems. *)

\* Every step keeps the invariant.
LEMMA InvStep ==
  ASSUME DriversInv, [Next]_vars
  PROVE  DriversInv'
BY QueuesStep, FramedStep, DevicesStep DEF DriversInv

\* The inductive invariant of the drivers holds always.
LEMMA InvAlways == Spec => []DriversInv
<1>1. Init => DriversInv
  BY InvInit
<1>2. DriversInv /\ [Next]_vars => DriversInv'
  BY InvStep
<1>3. QED
  BY <1>1, <1>2, PTL DEF Spec

\* Indices stay in their rings and the pointer of mouse.zig on the screen,
\* whatever bytes reach mouse_process_byte, raced or not.
THEOREM TypesAlways == Spec => []TypeOK
<1>1. DriversInv => TypeOK
  <2> SUFFICES ASSUME DriversInv PROVE TypeOK
    BY ZenonT(40)
  <2>1. Types /\ gpu \in GpuType /\ gpu.last <= Len(gpu.used) /\ nic \in NicType
    BY DEF DriversInv, GpuInv, NicInv
  <2>2. gpu.next \in 0..QSize /\ gpu.last \in 0..Len(gpu.used) /\ gpu.stage \in 0..(InitCommands + 2)
    BY <2>1 DEF GpuType
  <2>3. {nic.cur, nic.tdh, nic.tdt} \subseteq 0..(TxCount - 1)
    BY <2>1 DEF NicType
  <2>4. /\ mouse.ring \in Ring(MiceBuf, Flags \cup Moves \cup {0}) /\ mouse.cycle \in 0..2
        /\ mouse.x \in 0..MaxX /\ mouse.y \in 0..MaxY /\ mouse.buttons \in 0..7
    BY ZenonT(40), <2>1 DEF Types, MouseType, Bytes
  <2>5. QED
    BY <2>1, <2>2, <2>3, <2>4 DEF Types, KbdType, TypeOK
<1>2. QED
  BY <1>1, InvAlways, PTL

\* The rings of keyboard.zig and mouse.zig, of any sizes, are queues that drop
\* what comes when they are full, with interrupts between any two steps of
\* keyboard_read.
THEOREM RingsAreQueuesAlways == Spec => []RingsAreQueues
<1>1. DriversInv => RingsAreQueues
  BY DEF DriversInv, Queues
<1>2. QED
  BY <1>1, InvAlways, PTL

\* Only the poll of kmain beside the interrupts puts mouse_process_byte out of
\* step with the mouse, however many bytes are sent.
THEOREM PacketsFramedAlways == Spec => []PacketsFramed
<1>1. DriversInv => PacketsFramed
  BY ZenonT(40) DEF DriversInv, Framed, PacketsFramed, InPort, InHand
<1>2. QED
  BY <1>1, InvAlways, PTL

\* Until a command of virtio_gpu.c times out, vq_wait takes its own answer and no
\* buffer is freed while the device has it, with a queue of any size.
THEOREM AnswerIsOwnAlways == Spec => []AnswerIsOwn
<1>1. DriversInv => AnswerIsOwn
  BY DEF DriversInv, GpuInv, InFlight, AnswerIsOwn
<1>2. QED
  BY <1>1, InvAlways, PTL

\* Until a wait of e1000_send runs out, no packet's descriptor is filled again
\* before it was sent, with a ring of any size and any number of packets.
THEOREM NoPacketOverwrittenAlways == Spec => []NoPacketOverwritten
<1>1. DriversInv => NoPacketOverwritten
  BY DEF DriversInv, NicInv, NoPacketOverwritten
<1>2. QED
  BY <1>1, InvAlways, PTL
=============================================================================
