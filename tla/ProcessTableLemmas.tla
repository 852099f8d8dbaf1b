------------------------- MODULE ProcessTableLemmas -------------------------
(***************************************************************************)
(* What the kernel's routines on the process table keep true of it: saving *)
(* and resuming a flow, schedule(), creating a process, the end of a       *)
(* thread, of a process and of its group.  ProcessTableProofs composes     *)
(* them into the steps of the system.                                      *)
(***************************************************************************)
EXTENDS ProcessTable, NumberLemmas

-----------------------------------------------------------------------------
(* The invariant, of a kernel k with the pids below n given out. *)

PcbType ==
    [pid : Pids \cup {None}, state : States, is_user : BOOLEAN, parent_pid : Pids, th_parent_pid : Pids \cup {None},
     in_kern : BOOLEAN, pml4 : Pids, kernel_rsp : Contexts]

KernelType ==
    [pcb : [Slots -> PcbType], at : [Pids -> [loc : Locations, on : Pids]], run : Pids \cup {None}, cur : Slots,
     sys : BOOLEAN]

\* What never changes in a slot once it is filled: slot s has pid s, its parent
\* is older, a thread's parent is not the shell, and a process has an address
\* space of its own or the kernel's.
Slot(p, s) ==
    /\ p.pid = s /\ p.pml4 <= s
    /\ s = 0 => ~p.is_user /\ p.parent_pid = 0 /\ p.th_parent_pid = None
    /\ s # 0 => /\ p.is_user /\ p.parent_pid < s
                /\ p.th_parent_pid = None => p.pml4 \in {0, s}
                /\ p.th_parent_pid # None => p.parent_pid # 0

Occupied(k, n) == \A s \in Slots : IF s < n THEN Slot(k.pcb[s], s) ELSE k.pcb[s] = EmptyPcb

Live(k, s) == k.pcb[s].state \notin {"EMPTY", "ZOMBIE"}

\* No live process has lost its parent.
Families(k, n) == Live(k, 0) /\ \A s \in 1..(n - 1) : Live(k, s) => Live(k, k.pcb[s].parent_pid)

\* Only r may be RUNNING, and only the shell is ever BLOCKED.
Turns(k, r) == \A s \in Slots : /\ k.pcb[s].state = "RUNNING" => s = r
                                /\ k.pcb[s].state = "BLOCKED" => s = 0 /\ s # r

\* The context of s can be resumed: the shell's own, a system call that waits,
\* or the frame of a process that has not run yet.
Resumable(k, s) ==
    LET p == k.pcb[s]
    IN  /\ p.kernel_rsp = Ctx(IF p.in_kern \/ ~p.is_user THEN "cflow" ELSE "frame", s)
        /\ k.at[s].loc \in IF s = 0 THEN {"loop", "fg"} ELSE IF p.in_kern THEN Waiting ELSE {"new"}

\* Where the flows are: none halts, a zombie is one, and who waits waits for a
\* child of its own.
Flows(k, n) ==
    /\ \A p \in Pids : /\ k.at[p].loc # "hlt"
                       /\ k.at[p].loc = "wait" =>
                            k.at[p].on < n /\ k.at[p].on # p /\ k.pcb[k.at[p].on].parent_pid = p
    /\ \A s \in 0..(n - 1) : k.pcb[s].state = "ZOMBIE" => k.at[s].loc = "zombie"

NoneWaits(k) == \A p \in Pids : k.at[p].loc \notin Waiting

\* What holds between any two steps whoever has the CPU.
Sound(k, n) == k \in KernelType /\ n \in 1..(MaxPid + 1) /\ Occupied(k, n) /\ Families(k, n) /\ Flows(k, n)

OthersResume(k, n) == \A s \in 0..(n - 1) : s # k.run /\ Live(k, s) => Resumable(k, s)

\* The flow r has the CPU.
Good(k, n) ==
    /\ Sound(k, n)
    /\ k.cur = k.run /\ k.run \in 0..(n - 1) /\ Live(k, k.run)
    /\ Turns(k, k.run) /\ OthersResume(k, n)
    /\ k.at[k.run].loc \in IF k.run = 0 THEN {"loop", "fg"} ELSE {"user"} \cup Waiting
    /\ k.sys \/ k.at[k.run].loc = "user" \/ NoneWaits(k)

Table == Good(Kernel, next_pid) /\ pcb_count = next_pid /\ need_sched \in BOOLEAN

-----------------------------------------------------------------------------
(* Looking up slots. *)

\* The bounds: a pid is also the index of a slot.
LEMMA Sizes ==
  /\ NSlots \in Nat /\ NSlots > 1 /\ MaxPid \in Nat /\ MaxPid >= 1 /\ MaxPid < NSlots
  /\ Pids \subseteq Slots /\ 0 \in Pids /\ 0 \in Slots /\ None \notin Slots /\ Slots \subseteq Nat
<1>1. NSlots \in Nat /\ NSlots > 1 /\ MaxPid \in 1..(NSlots - 1)
  BY TableAssumption
<1>2. QED
  BY <1>1 DEF Pids, Slots, None

\* The first of a set with one member is that member.
LEMMA FirstOfOne ==
  ASSUME NEW S, NEW x \in Nat, S = {x}
  PROVE  First(S) = x
<1>1. Min(S) \in S
  BY MinIn
<1>2. QED
  BY <1>1 DEF First

\* As long as no slot is used twice, the slot of a pid is that pid, in use or
\* not; so the loops over the table that look for one find its slot.
LEMMA SlotOfPid ==
  ASSUME NEW k \in KernelType, NEW n \in 1..(MaxPid + 1), Occupied(k, n), NEW p \in 0..(n - 1)
  PROVE  /\ p \in Slots /\ p \in Pids /\ Slot(k.pcb[p], p)
         /\ First({t \in Slots : k.pcb[t].pid = p}) = p
         /\ k.pcb[p].state # "EMPTY" => First({t \in Slots : k.pcb[t].state # "EMPTY" /\ k.pcb[t].pid = p}) = p
<1>1. p \in Slots /\ p \in Nat /\ p \in Pids
  BY Sizes DEF Slots, Pids
<1>2. Slot(k.pcb[p], p)
  BY <1>1 DEF Occupied
<1>3. ASSUME NEW t \in Slots, k.pcb[t].pid = p PROVE t = p
  <2>1. CASE t < n
    BY <1>3, <2>1 DEF Occupied, Slot
  <2>2. CASE ~(t < n)
    <3>1. k.pcb[t].pid = None
      BY <2>2 DEF Occupied, EmptyPcb
    <3>2. QED
      BY <1>1, <1>3, <3>1, Sizes
  <2>3. QED
    BY <2>1, <2>2
<1>4. k.pcb[p].pid = p
  BY <1>2 DEF Slot
<1>5. {t \in Slots : k.pcb[t].pid = p} = {p}
  BY ZenonT(40), <1>1, <1>3, <1>4
<1>6. k.pcb[p].state # "EMPTY" => {t \in Slots : k.pcb[t].state # "EMPTY" /\ k.pcb[t].pid = p} = {p}
  BY ZenonT(40), <1>1, <1>3, <1>4
<1>7. QED
  BY <1>1, <1>2, <1>5, <1>6, FirstOfOne

\* find_next_ready finds a READY slot if there is one.
LEMMA NextReady ==
  ASSUME NEW k \in KernelType
  PROVE  LET m == find_next_ready(k)
         IN  /\ m # None => m \in Slots /\ k.pcb[m].state = "READY"
             /\ \A s \in Slots : k.pcb[s].state = "READY" => m # None
<1> DEFINE R == {i \in 1..NSlots : k.pcb[(k.cur + i) % NSlots].state = "READY"}
           m == find_next_ready(k)
<1>1. m = IF R = {} THEN None ELSE (k.cur + Min(R)) % NSlots
  BY DEF find_next_ready
<1>2. NSlots \in Nat /\ NSlots > 0 /\ k.cur \in Slots /\ k.cur \in Nat /\ k.cur < NSlots
  BY Sizes DEF KernelType, Slots
<1>3. R \in SUBSET Nat
  OBVIOUS
<1>4. ASSUME R # {} PROVE m \in Slots /\ k.pcb[m].state = "READY"
  <2>1. Min(R) \in R
    BY ZenonT(40), <1>3, <1>4, MinIn
  <2>2. PICK i : i = Min(R)
    BY Zenon
  <2>3. m = (k.cur + i) % NSlots
    BY ZenonT(40), <1>1, <1>4, <2>2
  <2>4. i \in R
    BY ZenonT(40), <2>1, <2>2
  <2>5. i \in Nat /\ k.pcb[(k.cur + i) % NSlots].state = "READY"
    BY <2>4
  <2>6. (k.cur + i) % NSlots \in Slots
    <3>1. k.cur + i \in Int
      BY <1>2, <2>5
    <3>2. QED
      BY <1>2, <3>1, DivMod DEF Slots
  <2>7. QED
    BY <2>3, <2>5, <2>6
<1>5. ASSUME NEW s \in Slots, k.pcb[s].state = "READY" PROVE R # {}
  <2> DEFINE i == IF s > k.cur THEN s - k.cur ELSE s - k.cur + NSlots
  <2>1. s \in Nat /\ s < NSlots
    BY Sizes DEF Slots
  <2>2. i \in 1..NSlots /\ k.cur + i \in Int /\ 0 <= k.cur + i /\ k.cur + i < NSlots + NSlots
        /\ (k.cur + i = s \/ k.cur + i = s + NSlots)
    BY <1>2, <2>1
  <2> HIDE DEF i
  <2>3. /\ k.cur + i < NSlots => (k.cur + i) % NSlots = k.cur + i
        /\ k.cur + i >= NSlots => (k.cur + i) % NSlots = k.cur + i - NSlots
    BY <1>2, <2>2, Wrapped
  <2>4. (k.cur + i) % NSlots = s
    BY <1>2, <2>1, <2>2, <2>3
  <2>5. QED
    BY <1>5, <2>2, <2>4
<1>6. None \notin Slots
  BY Sizes
<1>7. QED
  BY ZenonT(40), <1>1, <1>4, <1>5, <1>6

-----------------------------------------------------------------------------
(* Switching. *)

Placed(a, p, loc, on) == [a EXCEPT ![p] = At(loc, on)]

\* m is k with the flow p at another place.
Moved(k, m, p, loc, on) ==
    /\ m.at = Placed(k.at, p, loc, on)
    /\ m \in KernelType /\ m.pcb = k.pcb /\ m.run = k.run /\ m.cur = k.cur /\ m.sys = k.sys
    /\ m.at[p].loc = loc /\ m.at[p].on = on /\ \A q \in Pids : q # p => m.at[q] = k.at[q]

\* A flow goes to another place.
LEMMA GoesIs ==
  ASSUME NEW k \in KernelType, NEW p \in Pids, NEW loc \in Locations, NEW on \in Pids,
         NEW m, m = Goes(k, p, loc, on)
  PROVE  Moved(k, m, p, loc, on)
<1> DEFINE a == [k.at EXCEPT ![p] = At(loc, on)]
<1>1. m = [k EXCEPT !.at = a]
  BY DEF Goes, KernelType
<1>2. At(loc, on) \in [loc : Locations, on : Pids] /\ At(loc, on).loc = loc /\ At(loc, on).on = on
  BY DEF At
<1>3. /\ a \in [Pids -> [loc : Locations, on : Pids]] /\ a[p] = At(loc, on)
      /\ \A q \in Pids : q # p => a[q] = k.at[q]
  BY <1>2 DEF KernelType
<1> HIDE DEF a
<1>4. m \in KernelType /\ m.pcb = k.pcb /\ m.run = k.run /\ m.cur = k.cur /\ m.sys = k.sys /\ m.at = a
  BY <1>1, <1>3 DEF KernelType
<1>5. m.at = Placed(k.at, p, loc, on)
  BY <1>4 DEF a, Placed
<1>6. QED
  BY <1>2, <1>3, <1>4, <1>5 DEF Moved

\* The table of m is that of k but for what may change in a filled slot, its
\* state, its context and in_kern.
SameSlots(k, m) ==
    \A s \in Slots : /\ m.pcb[s].pid = k.pcb[s].pid /\ m.pcb[s].pml4 = k.pcb[s].pml4
                     /\ m.pcb[s].is_user = k.pcb[s].is_user /\ m.pcb[s].parent_pid = k.pcb[s].parent_pid
                     /\ m.pcb[s].th_parent_pid = k.pcb[s].th_parent_pid

\* m is k with slot s changed in that way.
Changed(k, m, s) ==
    /\ m \in KernelType /\ m.at = k.at /\ m.run = k.run /\ m.cur = k.cur /\ m.sys = k.sys
    /\ SameSlots(k, m) /\ \A t \in Slots : t # s => m.pcb[t] = k.pcb[t]

\* The filled slots come first.
LEMMA FilledBelow ==
  ASSUME NEW k, NEW n, Occupied(k, n), NEW s \in Slots, k.pcb[s].state # "EMPTY"
  PROVE  s < n
  BY DEF Occupied, EmptyPcb

\* What stays the same in two changes stays the same in both.
LEMMA SameSlotsTwice ==
  ASSUME NEW k, NEW l, NEW m, SameSlots(k, l), SameSlots(l, m)
  PROVE  SameSlots(k, m)
  BY DEF SameSlots

\* The assignments to one of these fields.
WithState(k, s, v) == [k EXCEPT !.pcb[s].state = v]
WithInKern(k, s, v) == [k EXCEPT !.pcb[s].in_kern = v]
WithRsp(k, s, v) == [k EXCEPT !.pcb[s].kernel_rsp = v]

\* An assignment to the state of a slot.
LEMMA SetState ==
  ASSUME NEW k \in KernelType, NEW s \in Slots, NEW v \in States, NEW m, m = WithState(k, s, v)
  PROVE  /\ Changed(k, m, s) /\ m.pcb[s].state = v
         /\ m.pcb[s].in_kern = k.pcb[s].in_kern /\ m.pcb[s].kernel_rsp = k.pcb[s].kernel_rsp
<1> DEFINE p == [k.pcb[s] EXCEPT !.state = v]
           t == [k.pcb EXCEPT ![s] = p]
<1>1. k.pcb \in [Slots -> PcbType] /\ k.pcb[s] \in PcbType
  BY DEF KernelType
<1>2. /\ p \in PcbType /\ p.state = v /\ p.in_kern = k.pcb[s].in_kern /\ p.kernel_rsp = k.pcb[s].kernel_rsp
      /\ p.pid = k.pcb[s].pid /\ p.pml4 = k.pcb[s].pml4 /\ p.is_user = k.pcb[s].is_user
      /\ p.parent_pid = k.pcb[s].parent_pid /\ p.th_parent_pid = k.pcb[s].th_parent_pid
  BY <1>1 DEF PcbType
<1>3. m = [k EXCEPT !.pcb = t]
  BY DEF WithState
<1> HIDE DEF p
<1>4. t \in [Slots -> PcbType] /\ t[s] = p /\ \A x \in Slots : x # s => t[x] = k.pcb[x]
  BY <1>1, <1>2
<1> HIDE DEF t
<1>5. m \in KernelType /\ m.at = k.at /\ m.run = k.run /\ m.cur = k.cur /\ m.sys = k.sys /\ m.pcb = t
  BY <1>3, <1>4 DEF KernelType
<1>6. SameSlots(k, m)
  BY <1>2, <1>4, <1>5 DEF SameSlots
<1>7. QED
  BY <1>2, <1>4, <1>5, <1>6 DEF Changed

\* The same for in_kern.
LEMMA SetInKern ==
  ASSUME NEW k \in KernelType, NEW s \in Slots, NEW v \in BOOLEAN, NEW m, m = WithInKern(k, s, v)
  PROVE  /\ Changed(k, m, s) /\ m.pcb[s].in_kern = v
         /\ m.pcb[s].state = k.pcb[s].state /\ m.pcb[s].kernel_rsp = k.pcb[s].kernel_rsp
<1> DEFINE p == [k.pcb[s] EXCEPT !.in_kern = v]
           t == [k.pcb EXCEPT ![s] = p]
<1>1. k.pcb \in [Slots -> PcbType] /\ k.pcb[s] \in PcbType
  BY DEF KernelType
<1>2. /\ p \in PcbType /\ p.in_kern = v /\ p.state = k.pcb[s].state /\ p.kernel_rsp = k.pcb[s].kernel_rsp
      /\ p.pid = k.pcb[s].pid /\ p.pml4 = k.pcb[s].pml4 /\ p.is_user = k.pcb[s].is_user
      /\ p.parent_pid = k.pcb[s].parent_pid /\ p.th_parent_pid = k.pcb[s].th_parent_pid
  BY <1>1 DEF PcbType
<1>3. m = [k EXCEPT !.pcb = t]
  BY DEF WithInKern
<1> HIDE DEF p
<1>4. t \in [Slots -> PcbType] /\ t[s] = p /\ \A x \in Slots : x # s => t[x] = k.pcb[x]
  BY <1>1, <1>2
<1> HIDE DEF t
<1>5. m \in KernelType /\ m.at = k.at /\ m.run = k.run /\ m.cur = k.cur /\ m.sys = k.sys /\ m.pcb = t
  BY <1>3, <1>4 DEF KernelType
<1>6. SameSlots(k, m)
  BY <1>2, <1>4, <1>5 DEF SameSlots
<1>7. QED
  BY <1>2, <1>4, <1>5, <1>6 DEF Changed

\* The same for kernel_rsp.
LEMMA SetRsp ==
  ASSUME NEW k \in KernelType, NEW s \in Slots, NEW v \in Contexts, NEW m, m = WithRsp(k, s, v)
  PROVE  /\ Changed(k, m, s) /\ m.pcb[s].kernel_rsp = v
         /\ m.pcb[s].state = k.pcb[s].state /\ m.pcb[s].in_kern = k.pcb[s].in_kern
<1> DEFINE p == [k.pcb[s] EXCEPT !.kernel_rsp = v]
           t == [k.pcb EXCEPT ![s] = p]
<1>1. k.pcb \in [Slots -> PcbType] /\ k.pcb[s] \in PcbType
  BY DEF KernelType
<1>2. /\ p \in PcbType /\ p.kernel_rsp = v /\ p.state = k.pcb[s].state /\ p.in_kern = k.pcb[s].in_kern
      /\ p.pid = k.pcb[s].pid /\ p.pml4 = k.pcb[s].pml4 /\ p.is_user = k.pcb[s].is_user
      /\ p.parent_pid = k.pcb[s].parent_pid /\ p.th_parent_pid = k.pcb[s].th_parent_pid
  BY <1>1 DEF PcbType
<1>3. m = [k EXCEPT !.pcb = t]
  BY DEF WithRsp
<1> HIDE DEF p
<1>4. t \in [Slots -> PcbType] /\ t[s] = p /\ \A x \in Slots : x # s => t[x] = k.pcb[x]
  BY <1>1, <1>2
<1> HIDE DEF t
<1>5. m \in KernelType /\ m.at = k.at /\ m.run = k.run /\ m.cur = k.cur /\ m.sys = k.sys /\ m.pcb = t
  BY <1>3, <1>4 DEF KernelType
<1>6. SameSlots(k, m)
  BY <1>2, <1>4, <1>5 DEF SameSlots
<1>7. QED
  BY <1>2, <1>4, <1>5, <1>6 DEF Changed

\* An assignment to current_pid.
LEMMA SetCur ==
  ASSUME NEW k \in KernelType, NEW c \in Slots, NEW m, m = [k EXCEPT !.cur = c]
  PROVE  m \in KernelType /\ m.at = k.at /\ m.run = k.run /\ m.cur = c /\ m.sys = k.sys /\ m.pcb = k.pcb
  BY DEF KernelType

\* An assignment to what may change leaves the rest of the table alone.
LEMMA OccupiedKept ==
  ASSUME NEW k, NEW m, NEW n \in 1..(MaxPid + 1), Occupied(k, n), SameSlots(k, m),
         \A s \in Slots : s >= n => m.pcb[s] = k.pcb[s]
  PROVE  Occupied(m, n)
<1>1. ASSUME NEW s \in Slots, s < n PROVE Slot(m.pcb[s], s)
  BY <1>1 DEF Occupied, SameSlots, Slot
<1>2. ASSUME NEW s \in Slots, ~(s < n) PROVE m.pcb[s] = EmptyPcb
  <2>1. s >= n
    BY <1>2, Sizes
  <2>2. QED
    BY <1>2, <2>1 DEF Occupied
<1>3. QED
  BY <1>1, <1>2 DEF Occupied

\* Every flow stays where it is, but a new one may start.
Starts(k, m) == \A q \in Pids : m.at[q] = k.at[q] \/ (k.at[q].loc = "new" /\ m.at[q].loc = "user")

\* The kernel has chosen r and has only to resume it.
Parked(k, n, r) ==
    /\ Sound(k, n) /\ k.cur = r /\ r \in 0..(n - 1) /\ Live(k, r) /\ Turns(k, r)
    /\ \A s \in 0..(n - 1) : Live(k, s) => Resumable(k, s)
    /\ k.sys \/ NoneWaits(k)

\* The restoring half of a switch finds the context it expects, and the flow
\* it goes on with is the one current_pid names.
LEMMA ResumeGood ==
  ASSUME NEW k, NEW n, NEW r, Parked(k, n, r)
  PROVE  Good(Resume(k, r), n) /\ Starts(k, Resume(k, r))
<1>1. /\ k \in KernelType /\ n \in 1..(MaxPid + 1) /\ Occupied(k, n) /\ Families(k, n) /\ Flows(k, n)
      /\ k.cur = r /\ r \in 0..(n - 1) /\ Live(k, r) /\ Turns(k, r) /\ Resumable(k, r)
  BY DEF Parked, Sound
<1>2. r \in Slots /\ r \in Pids /\ Slot(k.pcb[r], r)
  BY ZenonT(40), <1>1, SlotOfPid
<1> DEFINE p == [k.pcb[r] EXCEPT !.in_kern = FALSE]
           c == k.pcb[r].kernel_rsp
           intoC == k.pcb[r].in_kern \/ ~k.pcb[r].is_user
           k1 == [k EXCEPT !.pcb[r].in_kern = FALSE]
           k2 == [k1 EXCEPT !.run = r]
           m == Resume(k, r)
<1>3. k.pcb[r] \in PcbType
  BY <1>1, <1>2 DEF KernelType
<1>4. c.of = r /\ c.kind = (IF intoC THEN "cflow" ELSE "frame")
  BY <1>1 DEF Resumable, Ctx
<1>5. m = IF intoC THEN k2 ELSE Goes(k2, r, "user", 0)
  BY <1>4 DEF Resume
<1>6. /\ k2 \in KernelType /\ k2.at = k.at /\ k2.run = r /\ k2.cur = r /\ k2.sys = k.sys
      /\ k2.pcb = [k.pcb EXCEPT ![r] = p]
  <2>1. p \in PcbType
    BY ZenonT(40), <1>3 DEF PcbType
  <2>2. k1 = [k EXCEPT !.pcb = [k.pcb EXCEPT ![r] = p]]
    BY <1>1 DEF KernelType
  <2>3. [k.pcb EXCEPT ![r] = p] \in [Slots -> PcbType]
    BY <1>1, <2>1 DEF KernelType
  <2> HIDE DEF p
  <2>4. QED
    BY ZenonT(40), <1>1, <1>2, <2>2, <2>3 DEF KernelType
<1>7. /\ p.state = k.pcb[r].state /\ p.pid = k.pcb[r].pid /\ p.pml4 = k.pcb[r].pml4 /\ p.is_user = k.pcb[r].is_user
      /\ p.parent_pid = k.pcb[r].parent_pid /\ p.th_parent_pid = k.pcb[r].th_parent_pid
  BY <1>3 DEF PcbType
<1>8. /\ SameSlots(k, k2) /\ (\A s \in Slots : s # r => k2.pcb[s] = k.pcb[s])
      /\ (\A s \in Slots : k2.pcb[s].state = k.pcb[s].state)
  <2> HIDE DEF p, k2
  <2>1. \A s \in Slots : k2.pcb[s] = IF s = r THEN p ELSE k.pcb[s]
    BY <1>1, <1>6 DEF KernelType
  <2>2. QED
    BY <1>7, <2>1 DEF SameSlots
<1> HIDE DEF p, c, k1, k2, m
<1>9. /\ m \in KernelType /\ m.pcb = k2.pcb /\ m.run = r /\ m.cur = r /\ m.sys = k.sys
      /\ \A q \in Pids : q # r => m.at[q] = k.at[q]
      /\ m.at[r] = k.at[r] \/ (m.at[r].loc = "user" /\ r # 0)
      /\ intoC => m.at[r] = k.at[r]
      /\ ~intoC => m.at[r].loc = "user" /\ r # 0
  <2>1. CASE intoC
    BY <1>5, <1>6, <2>1
  <2>2. CASE ~intoC
    <3>1. r # 0
      BY <1>2, <2>2 DEF Slot
    <3>2. PICK loc \in Locations, on \in Pids : loc = "user" /\ m = Goes(k2, r, loc, on)
      BY <1>5, <2>2, Sizes DEF Locations
    <3>3. /\ m \in KernelType /\ m.pcb = k2.pcb /\ m.run = k2.run /\ m.cur = k2.cur /\ m.sys = k2.sys
          /\ m.at[r].loc = loc /\ \A q \in Pids : q # r => m.at[q] = k2.at[q]
      <4>1. k2 \in KernelType /\ r \in Pids
        BY <1>2, <1>6
      <4>2. Moved(k2, m, r, loc, on)
        BY <3>2, <4>1, GoesIs
      <4>3. QED
        BY <4>2 DEF Moved
    <3>4. QED
      BY <1>6, <2>2, <3>1, <3>2, <3>3
  <2>3. QED
    BY <2>1, <2>2
<1>10. Occupied(m, n)
  <2>1. SameSlots(k, m) /\ \A s \in Slots : s >= n => m.pcb[s] = k.pcb[s]
    BY <1>1, <1>8, <1>9 DEF SameSlots
  <2>2. QED
    BY <1>1, <2>1, OccupiedKept
<1>11. \A s \in Slots : Live(m, s) <=> Live(k, s)
  BY <1>8, <1>9 DEF Live
<1>12. \A s \in 0..(n - 1) : s \in Slots /\ s \in Pids /\ k.pcb[s].parent_pid \in Slots /\ m.pcb[s].parent_pid = k.pcb[s].parent_pid
  <2>1. ASSUME NEW s \in 0..(n - 1) PROVE s \in Slots /\ s \in Pids
    BY ZenonT(40), <1>1, SlotOfPid
  <2>2. ASSUME NEW s \in Slots PROVE k.pcb[s].parent_pid \in Slots
    BY ZenonT(40), <1>1, Sizes DEF KernelType, PcbType
  <2>3. QED
    BY <1>8, <1>9, <2>1, <2>2 DEF SameSlots
<1>13. Families(m, n)
  BY SMTT(30), Z3T(30), <1>1, <1>11, <1>12, Sizes DEF Families
<1>14. Flows(m, n)
  <2>1. ASSUME NEW q \in Pids
        PROVE  /\ m.at[q].loc # "hlt"
               /\ m.at[q].loc = "wait" => m.at[q].on < n /\ m.at[q].on # q /\ m.pcb[m.at[q].on].parent_pid = q
    <3>1. k.at[q].on \in Slots
      BY ZenonT(40), <1>1, Sizes DEF KernelType
    <3>2. CASE m.at[q] = k.at[q]
      BY <1>1, <1>8, <1>9, <3>1, <3>2 DEF Flows, SameSlots
    <3>3. CASE m.at[q].loc = "user"
      BY SMTT(30), Z3T(30), <3>3
    <3>4. QED
      BY <1>9, <3>2, <3>3
  <2>2. ASSUME NEW s \in 0..(n - 1), m.pcb[s].state = "ZOMBIE" PROVE m.at[s].loc = "zombie"
    <3>1. s # r
      BY <1>1, <1>8, <1>9, <1>12, <2>2 DEF Live
    <3>2. QED
      BY <1>1, <1>8, <1>9, <1>12, <2>2, <3>1 DEF Flows
  <2>3. QED
    BY ZenonT(40), <2>1, <2>2 DEF Flows
<1>15. Turns(m, r)
  BY <1>1, <1>8, <1>9 DEF Turns
<1>16. OthersResume(m, n)
  <2> SUFFICES ASSUME NEW s \in 0..(n - 1), s # r, Live(m, s) PROVE Resumable(m, s)
    BY <1>9 DEF OthersResume
  <2>1. Resumable(k, s) /\ m.pcb[s] = k.pcb[s] /\ m.at[s] = k.at[s]
    BY <1>8, <1>9, <1>11, <1>12 DEF Parked
  <2>2. QED
    BY <2>1 DEF Resumable
<1>17. m.at[m.run].loc \in IF m.run = 0 THEN {"loop", "fg"} ELSE {"user"} \cup Waiting
  <2>1. CASE ~intoC
    BY ZenonT(40), <1>9, <2>1
  <2>2. CASE intoC
    <3>1. r # 0 => k.pcb[r].in_kern
      BY <1>2, <2>2 DEF Slot
    <3>2. QED
      BY ZenonT(40), <1>1, <1>9, <2>2, <3>1 DEF Resumable
  <2>3. QED
    BY <2>1, <2>2
<1>18. m.sys \/ m.at[m.run].loc = "user" \/ NoneWaits(m)
  <2>1. CASE ~intoC
    BY <1>9, <2>1
  <2>2. CASE intoC
    BY <1>9, <2>2 DEF Parked, NoneWaits
  <2>3. QED
    BY <2>1, <2>2
<1>19. Good(m, n)
  BY ZenonT(40), <1>1, <1>2, <1>9, <1>10, <1>11, <1>13, <1>14, <1>15, <1>16, <1>17, <1>18 DEF Good, Sound
<1>20. Starts(k, m)
  <2>1. CASE ~intoC
    <3>1. k.at[r].loc = "new"
      BY <1>1, <1>2, <2>1 DEF Resumable, Slot
    <3>2. QED
      BY <1>9, <2>1, <3>1 DEF Starts
  <2>2. CASE intoC
    BY <1>9, <2>2 DEF Starts
  <2>3. QED
    BY <2>1, <2>2
<1>21. QED
  BY <1>19, <1>20 DEF m

\* The kernel k2 is k with the flow of slot c saved and slot m chosen.
Saved(k, k2, n, c, m) ==
    /\ k2 \in KernelType /\ k2.cur = m /\ k2.sys = k.sys /\ k2.at = k.at
    /\ SameSlots(k, k2) /\ \A s \in Slots \ {c, m} : k2.pcb[s] = k.pcb[s]
    /\ \A s \in Slots : /\ Live(k2, s) <=> Live(k, s)
                        /\ k2.pcb[s].state = "ZOMBIE" <=> k.pcb[s].state = "ZOMBIE"
    /\ k2.pcb[m].in_kern = k.pcb[m].in_kern /\ k2.pcb[m].kernel_rsp = k.pcb[m].kernel_rsp
    /\ Turns(k2, m) /\ (Live(k2, c) => Resumable(k2, c))

\* After the saving half of a switch the kernel has only to resume slot m.
LEMMA SavedGood ==
  ASSUME NEW k, NEW k2, NEW n, NEW c \in 0..(n - 1), NEW m \in 0..(n - 1),
         Sound(k, n), Saved(k, k2, n, c, m), Live(k, m), k.sys \/ NoneWaits(k),
         \A s \in 0..(n - 1) : s # c /\ Live(k, s) => Resumable(k, s), m # c
  PROVE  Good(Resume(k2, m), n) /\ Starts(k, Resume(k2, m))
<1>1. k \in KernelType /\ n \in 1..(MaxPid + 1) /\ Occupied(k, n) /\ Families(k, n) /\ Flows(k, n)
  BY DEF Sound
<1>2. \A s \in 0..(n - 1) : s \in Slots /\ s \in Pids
  BY ZenonT(40), <1>1, SlotOfPid
<1>3. Occupied(k2, n)
  <2>1. \A s \in Slots : s >= n => k2.pcb[s] = k.pcb[s]
    BY <1>1 DEF Saved
  <2>2. QED
    BY <1>1, <2>1, OccupiedKept DEF Saved
<1>4. \A s \in Slots : k.pcb[s].parent_pid \in Slots /\ k2.pcb[s].parent_pid = k.pcb[s].parent_pid
  BY ZenonT(40), <1>1, Sizes DEF Saved, SameSlots, KernelType, PcbType
<1>5. Families(k2, n)
  <2>1. \A s \in Slots : Live(k2, s) <=> Live(k, s)
    BY DEF Saved
  <2>2. 1..(n - 1) \subseteq 0..(n - 1)
    OBVIOUS
  <2>3. QED
    BY ZenonT(40), <1>1, <1>2, <1>4, <2>1, <2>2, Sizes DEF Families
<1>6. Flows(k2, n)
  <2>1. ASSUME NEW q \in Pids
        PROVE  /\ k2.at[q].loc # "hlt"
               /\ k2.at[q].loc = "wait" => k2.at[q].on < n /\ k2.at[q].on # q /\ k2.pcb[k2.at[q].on].parent_pid = q
    <3>1. k.at[q].on \in Slots /\ k2.at[q] = k.at[q]
      BY ZenonT(40), <1>1, Sizes DEF KernelType, Saved
    <3>2. QED
      BY <1>1, <1>4, <3>1 DEF Flows
  <2>2. ASSUME NEW s \in 0..(n - 1), k2.pcb[s].state = "ZOMBIE" PROVE k2.at[s].loc = "zombie"
    BY <1>1, <1>2, <2>2 DEF Saved, Flows
  <2>3. QED
    BY <2>1, <2>2 DEF Flows
<1>7. ASSUME NEW s \in 0..(n - 1), Live(k2, s) PROVE Resumable(k2, s)
  <2>1. CASE s = c
    BY <1>7, <2>1 DEF Saved
  <2>2. CASE s # c
    <3>1. Resumable(k, s) /\ s \in Slots
      BY <1>2, <1>7, <2>2 DEF Saved
    <3>2. /\ k2.pcb[s].in_kern = k.pcb[s].in_kern /\ k2.pcb[s].kernel_rsp = k.pcb[s].kernel_rsp
          /\ k2.pcb[s].is_user = k.pcb[s].is_user /\ k2.at = k.at
      BY <2>2, <3>1 DEF Saved, SameSlots
    <3>3. QED
      BY <3>1, <3>2 DEF Resumable
  <2>3. QED
    BY <2>1, <2>2
<1>8. k2.sys \/ NoneWaits(k2)
  BY DEF Saved, NoneWaits
<1>9. Live(k2, m)
  BY <1>2 DEF Saved
<1>10. Parked(k2, n, m)
  BY <1>1, <1>3, <1>5, <1>6, <1>7, <1>8, <1>9 DEF Parked, Sound, Saved
<1>11. Good(Resume(k2, m), n) /\ Starts(k2, Resume(k2, m))
  BY <1>10, ResumeGood
<1>12. QED
  BY <1>11 DEF Saved, Starts

\* The running flow may give the CPU away: it is the shell, it waits in a
\* system call, or it has ended.
Leaving(k, n) ==
    /\ Sound(k, n) /\ k.cur = k.run /\ k.run \in 0..(n - 1)
    /\ Turns(k, k.run) /\ OthersResume(k, n)
    /\ k.sys \/ NoneWaits(k)
    /\ Live(k, k.run) => IF k.run = 0 THEN k.at[0].loc \in {"loop", "fg"} ELSE k.sys /\ k.at[k.run].loc \in Waiting

\* schedule() switches to the READY slot it found.
LEMMA ScheduleSwitches ==
  ASSUME NEW k, NEW n, Leaving(k, n), find_next_ready(k) \notin {None, k.cur}
  PROVE  Good(schedule(k), n) /\ Starts(k, schedule(k))
<1> DEFINE c == k.cur
           m == find_next_ready(k)
           old == k.pcb[c].state
           new == IF old = "RUNNING" THEN "READY" ELSE old
           kern == k.sys /\ k.pcb[c].is_user
           ctx == Ctx(IF kern \/ ~k.pcb[c].is_user THEN "cflow" ELSE "rbx", k.run)
           a1 == [k EXCEPT !.pcb[c].in_kern = FALSE]
           a2 == [a1 EXCEPT !.pcb[c].state = new]
           a3 == [a2 EXCEPT !.pcb[m].state = "RUNNING"]
           a4 == [a3 EXCEPT !.cur = m]
           a5 == [a4 EXCEPT !.pcb[c].kernel_rsp = ctx]
           k2 == IF kern THEN [a5 EXCEPT !.pcb[c].in_kern = TRUE] ELSE a5
<1>1. /\ k \in KernelType /\ n \in 1..(MaxPid + 1) /\ Occupied(k, n) /\ c \in 0..(n - 1) /\ k.run = c
      /\ Turns(k, c)
  BY DEF Leaving, Sound
<1>2. m \in Slots /\ k.pcb[m].state = "READY" /\ m # c
  BY <1>1, NextReady
<1>3. c \in Slots /\ c \in Pids /\ Slot(k.pcb[c], c)
  BY ZenonT(40), <1>1, SlotOfPid
<1>4. m \in 0..(n - 1)
  <2>1. m < n
    BY <1>1, <1>2 DEF Occupied, EmptyPcb
  <2>2. QED
    BY <1>1, <1>2, <2>1, Sizes DEF Slots
<1>5. schedule(k) = IF kern THEN context_switch_kern(a4, c, m) ELSE context_switch(a4, c, m)
  BY <1>2, ZenonT(40) DEF schedule
<1> HIDE DEF m
<1>6. new \in States /\ "RUNNING" \in States /\ ctx \in Contexts
  BY <1>1, <1>3 DEF KernelType, PcbType, States, Contexts, Ctx
<1> HIDE DEF c, new, kern, ctx, a1, a2, a3, a4, a5
<1>7. Changed(k, a1, c) /\ a1.pcb[c].state = k.pcb[c].state
  <2>1. PICK v \in BOOLEAN : a1 = WithInKern(k, c, v)
    BY ZenonT(40) DEF a1, WithInKern
  <2>2. QED
    BY <1>1, <1>3, <2>1, SetInKern
<1>8. Changed(a1, a2, c) /\ a2.pcb[c].state = new
  <2>1. a2 = WithState(a1, c, new)
    BY DEF a2, WithState
  <2>2. a1 \in KernelType
    BY <1>7 DEF Changed
  <2>3. QED
    BY <1>3, <1>6, <2>1, <2>2, SetState
<1>9. /\ Changed(a2, a3, m) /\ a3.pcb[m].state = "RUNNING"
      /\ a3.pcb[m].in_kern = a2.pcb[m].in_kern /\ a3.pcb[m].kernel_rsp = a2.pcb[m].kernel_rsp
  <2>1. PICK v \in States : v = "RUNNING" /\ a3 = WithState(a2, m, v)
    BY <1>6 DEF a3, WithState
  <2>2. a2 \in KernelType
    BY <1>8 DEF Changed
  <2>3. QED
    BY <1>2, <2>1, <2>2, SetState
<1>10. a4 \in KernelType /\ a4.at = a3.at /\ a4.run = a3.run /\ a4.cur = m /\ a4.sys = a3.sys /\ a4.pcb = a3.pcb
  BY <1>2, <1>9, SetCur DEF a4, Changed
<1>11. Changed(a4, a5, c) /\ a5.pcb[c].kernel_rsp = ctx /\ a5.pcb[c].state = a4.pcb[c].state
  <2>1. a5 = WithRsp(a4, c, ctx)
    BY DEF a5, WithRsp
  <2>2. QED
    BY <1>3, <1>6, <1>10, <2>1, SetRsp
<1>12. /\ Changed(a5, k2, c) /\ k2.pcb[c].kernel_rsp = ctx /\ k2.pcb[c].state = a5.pcb[c].state
       /\ kern => k2.pcb[c].in_kern
  <2>1. CASE kern
    <3>1. PICK v \in BOOLEAN : v = TRUE /\ k2 = WithInKern(a5, c, v)
      BY ZenonT(40), <2>1 DEF WithInKern
    <3> HIDE DEF k2
    <3>2. a5 \in KernelType /\ k2 = WithInKern(a5, c, v)
      BY <1>11, <3>1 DEF Changed
    <3>3. Changed(a5, k2, c) /\ k2.pcb[c].kernel_rsp = a5.pcb[c].kernel_rsp /\ k2.pcb[c].state = a5.pcb[c].state
          /\ k2.pcb[c].in_kern = v
      BY <1>3, <3>2, SetInKern
    <3>4. QED
      BY <1>11, <3>1, <3>3
  <2>2. CASE ~kern
    BY <1>11, <2>2 DEF Changed, SameSlots
  <2>3. QED
    BY <2>1, <2>2
<1>13. schedule(k) = Resume(k2, m)
  <2>1. k.run = a4.run /\ k.pcb[c].is_user = a4.pcb[c].is_user
    BY <1>3, <1>7, <1>8, <1>9, <1>10 DEF Changed, SameSlots
  <2>2. CASE kern
    <3>1. ctx = Ctx("cflow", a4.run)
      BY <2>1, <2>2 DEF ctx
    <3>2. QED
      BY <1>5, <2>2, <3>1, ZenonT(40) DEF context_switch_kern, a5
  <2>3. CASE ~kern
    <3>1. ctx = Ctx(IF a4.pcb[c].is_user THEN "rbx" ELSE "cflow", a4.run)
      BY ZenonT(40), <2>1, <2>3 DEF ctx
    <3>2. QED
      BY <1>5, <2>3, <3>1, Zenon DEF context_switch, a5
  <2>4. QED
    BY ZenonT(40), <2>2, <2>3
<1> HIDE DEF k2
<1>14. /\ k2 \in KernelType /\ k2.cur = m /\ k2.sys = k.sys /\ k2.at = k.at /\ SameSlots(k, k2)
       /\ \A s \in Slots \ {c, m} : k2.pcb[s] = k.pcb[s]
       /\ k2.pcb[m].in_kern = k.pcb[m].in_kern /\ k2.pcb[m].kernel_rsp = k.pcb[m].kernel_rsp
       /\ k2.pcb[m].state = "RUNNING" /\ k2.pcb[c].state = new
  <2>1. \A s \in Slots \ {c, m} : k2.pcb[s] = k.pcb[s]
    <3>1. ASSUME NEW s \in Slots, s # c, s # m PROVE k2.pcb[s] = k.pcb[s]
      <4>1. a1.pcb[s] = k.pcb[s] /\ a2.pcb[s] = a1.pcb[s]
        BY ZenonT(40), <1>7, <1>8, <3>1 DEF Changed
      <4>2. a3.pcb[s] = a2.pcb[s] /\ a4.pcb[s] = a3.pcb[s]
        BY ZenonT(40), <1>9, <1>10, <3>1 DEF Changed
      <4>3. a5.pcb[s] = a4.pcb[s] /\ k2.pcb[s] = a5.pcb[s]
        BY ZenonT(40), <1>11, <1>12, <3>1 DEF Changed
      <4>4. QED
        BY ZenonT(40), <4>1, <4>2, <4>3
    <3>2. QED
      BY ZenonT(40), <3>1
  <2>2. SameSlots(k, k2)
    <3>1. SameSlots(k, a2)
      BY ZenonT(40), <1>7, <1>8, SameSlotsTwice DEF Changed
    <3>2. SameSlots(k, a3)
      BY ZenonT(40), <1>9, <3>1, SameSlotsTwice DEF Changed
    <3>3. SameSlots(k, a4)
      BY ZenonT(40), <1>10, <3>2 DEF SameSlots
    <3>4. SameSlots(k, a5)
      BY ZenonT(40), <1>11, <3>3, SameSlotsTwice DEF Changed
    <3>5. QED
      BY ZenonT(40), <1>12, <3>4, SameSlotsTwice DEF Changed
  <2>3. /\ k2.pcb[m].in_kern = k.pcb[m].in_kern /\ k2.pcb[m].kernel_rsp = k.pcb[m].kernel_rsp
        /\ k2.pcb[m].state = "RUNNING"
    <3>1. a1.pcb[m] = k.pcb[m] /\ a2.pcb[m] = a1.pcb[m]
      BY ZenonT(40), <1>2, <1>7, <1>8 DEF Changed
    <3>2. a4.pcb[m] = a3.pcb[m] /\ a5.pcb[m] = a4.pcb[m] /\ k2.pcb[m] = a5.pcb[m]
      BY ZenonT(40), <1>2, <1>10, <1>11, <1>12 DEF Changed
    <3>3. QED
      BY ZenonT(40), <1>9, <3>1, <3>2
  <2>4. k2.pcb[c].state = new
    BY <1>2, <1>3, <1>8, <1>9, <1>10, <1>11, <1>12 DEF Changed
  <2>5. QED
    <3>1. a2.sys = k.sys /\ a2.at = k.at
      BY ZenonT(40), <1>7, <1>8 DEF Changed
    <3>2. a4.sys = a2.sys /\ a4.at = a2.at /\ a4.cur = m
      BY ZenonT(40), <1>9, <1>10 DEF Changed
    <3>3. k2.sys = a4.sys /\ k2.at = a4.at /\ k2.cur = a4.cur /\ k2 \in KernelType
      BY ZenonT(40), <1>11, <1>12 DEF Changed
    <3>4. k2.sys = k.sys /\ k2.at = k.at /\ k2.cur = m
      BY ZenonT(40), <3>1, <3>2, <3>3
    <3>5. QED
      BY ZenonT(40), <2>1, <2>2, <2>3, <2>4, <3>3, <3>4
<1>15. /\ \A s \in Slots : /\ Live(k2, s) <=> Live(k, s)
                           /\ k2.pcb[s].state = "ZOMBIE" <=> k.pcb[s].state = "ZOMBIE"
  <2>1. /\ new \notin {"EMPTY", "ZOMBIE"} <=> k.pcb[c].state \notin {"EMPTY", "ZOMBIE"}
        /\ new = "ZOMBIE" <=> k.pcb[c].state = "ZOMBIE"
    BY DEF new
  <2>2. QED
    BY <1>2, <1>14, <2>1 DEF Live
<1>16. Turns(k2, m)
  <2>1. new \notin {"RUNNING", "BLOCKED"}
    BY <1>1, <1>3 DEF Turns, new
  <2>2. QED
    BY <1>1, <1>2, <1>14, <2>1 DEF Turns
<1>17. ASSUME Live(k2, c) PROVE Resumable(k2, c)
  <2>1. /\ Live(k, c)
        /\ IF c = 0 THEN k.at[0].loc \in {"loop", "fg"} ELSE k.sys /\ k.at[c].loc \in Waiting
    BY ZenonT(40), <1>1, <1>3, <1>15, <1>17 DEF Leaving
  <2>2. k2.pcb[c].is_user = k.pcb[c].is_user /\ k.pcb[c].is_user = (c # 0)
    BY <1>3, <1>14 DEF SameSlots, Slot, KernelType, PcbType
  <2>3. kern <=> c # 0
    BY ZenonT(40), <2>1, <2>2 DEF kern
  <2>4. ctx = Ctx("cflow", c)
    BY ZenonT(40), <1>1, <2>2, <2>3 DEF ctx
  <2>5. QED
    BY ZenonT(40), <1>12, <1>14, <2>1, <2>2, <2>3, <2>4 DEF Resumable
<1>18. Saved(k, k2, n, c, m)
  BY <1>14, <1>15, <1>16, <1>17 DEF Saved
<1>19. Live(k, m)
  BY <1>2 DEF Live
<1>20. \A s \in 0..(n - 1) : s # c /\ Live(k, s) => Resumable(k, s)
  BY ZenonT(40), <1>1 DEF Leaving, OthersResume
<1>21. Good(Resume(k2, m), n) /\ Starts(k, Resume(k2, m))
  BY <1>1, <1>2, <1>4, <1>18, <1>19, <1>20, SavedGood DEF Leaving
<1>22. QED
  BY <1>13, <1>21

\* A flow in the kernel may call schedule() at any time.
LEMMA ScheduleGood ==
  ASSUME NEW k, NEW n, Good(k, n), k.at[k.run].loc # "user"
  PROVE  Good(schedule(k), n) /\ Starts(k, schedule(k))
<1>1. Leaving(k, n)
  <2>1. k.run \in Pids
    BY ZenonT(40), SlotOfPid DEF Good, Sound
  <2>2. k.sys \/ NoneWaits(k)
    BY DEF Good
  <2>3. k.run # 0 => k.sys /\ k.at[k.run].loc \in Waiting
    BY <2>1, <2>2 DEF Good, NoneWaits
  <2>4. QED
    BY <2>2, <2>3 DEF Good, Leaving
<1>2. CASE find_next_ready(k) \in {None, k.cur}
  BY <1>2 DEF schedule, Starts
<1>3. CASE find_next_ready(k) \notin {None, k.cur}
  BY ZenonT(40), <1>1, <1>3, ScheduleSwitches
<1>4. QED
  BY <1>2, <1>3

\* A program enters a system call that waits, or comes back from one.
LEMMA MovedGood ==
  ASSUME NEW k, NEW m, NEW n, Good(k, n), k.run # 0,
         m \in KernelType, m.pcb = k.pcb, m.run = k.run, m.cur = k.cur,
         \A q \in Pids : q # k.run => m.at[q] = k.at[q],
         m.at[k.run].loc \in {"user"} \cup Waiting, m.sys \/ m.at[k.run].loc = "user",
         m.at[k.run].loc = "wait" =>
            m.at[k.run].on < n /\ m.at[k.run].on # k.run /\ k.pcb[m.at[k.run].on].parent_pid = k.run
  PROVE  Good(m, n)
<1>1. /\ k \in KernelType /\ n \in 1..(MaxPid + 1) /\ Occupied(k, n) /\ Families(k, n) /\ Flows(k, n)
      /\ k.run \in 0..(n - 1) /\ k.cur = k.run /\ Live(k, k.run) /\ Turns(k, k.run) /\ OthersResume(k, n)
  BY ZenonT(40) DEF Good, Sound
<1>2. Occupied(m, n) /\ Families(m, n) /\ Turns(m, k.run) /\ Live(m, k.run)
  BY <1>1 DEF Occupied, Families, Turns, Live
<1>3. \A s \in 0..(n - 1) : s \in Slots /\ s \in Pids
  BY ZenonT(40), <1>1, SlotOfPid
<1>4. Flows(m, n)
  <2>1. ASSUME NEW q \in Pids
        PROVE  /\ m.at[q].loc # "hlt"
               /\ m.at[q].loc = "wait" => m.at[q].on < n /\ m.at[q].on # q /\ m.pcb[m.at[q].on].parent_pid = q
    <3>1. CASE q = k.run
      <4>1. m.at[q].loc # "hlt"
        BY <3>1 DEF Waiting
      <4>2. QED
        BY ZenonT(40), <3>1, <4>1
    <3>2. CASE q # k.run
      <4>1. m.at[q] = k.at[q]
        BY ZenonT(40), <3>2
      <4>2. QED
        BY ZenonT(40), <1>1, <4>1 DEF Flows
    <3>3. QED
      BY ZenonT(40), <3>1, <3>2
  <2>2. ASSUME NEW s \in 0..(n - 1), m.pcb[s].state = "ZOMBIE" PROVE m.at[s].loc = "zombie"
    BY ZenonT(40), <1>1, <1>3, <2>2 DEF Flows, Live
  <2>3. QED
    BY ZenonT(40), <2>1, <2>2 DEF Flows
<1>5. OthersResume(m, n)
  BY <1>1, <1>3 DEF OthersResume, Live, Resumable
<1>6. QED
  BY ZenonT(40), <1>1, <1>2, <1>4, <1>5 DEF Good, Sound

\* The flow that runs comes to loc, and no other moves.
Comes(k, m, loc) == m.at[k.run].loc = loc /\ \A q \in Pids : q # k.run => m.at[q] = k.at[q]

\* A system call that waited comes back.
LEMMA ReturnedGood ==
  ASSUME NEW k, NEW n, Good(k, n), k.run # 0
  PROVE  Good(Returned(k), n) /\ Comes(k, Returned(k), "user")
<1> DEFINE k1 == [k EXCEPT !.sys = FALSE]
           m == Returned(k)
<1>1. k \in KernelType /\ k.run \in Pids
  BY ZenonT(40), SlotOfPid DEF Good, Sound
<1>2. /\ k1 \in KernelType /\ k1.pcb = k.pcb /\ k1.run = k.run /\ k1.cur = k.cur /\ k1.at = k.at
  BY ZenonT(40), <1>1 DEF KernelType
<1>3. PICK loc \in Locations, on \in Pids : loc = "user" /\ m = Goes(k1, k.run, loc, on)
  BY Sizes DEF Locations, Returned
<1> HIDE DEF k1, m
<1>4. PICK r \in Pids : r = k.run
  BY <1>1
<1>5. /\ m \in KernelType /\ m.pcb = k1.pcb /\ m.run = k1.run /\ m.cur = k1.cur
      /\ m.at[k.run].loc = loc /\ \A q \in Pids : q # k.run => m.at[q] = k1.at[q]
  <2>1. k1 \in KernelType /\ m = Goes(k1, r, loc, on)
    BY <1>2, <1>3, <1>4
  <2>2. Moved(k1, m, r, loc, on)
    BY <2>1, GoesIs
  <2>3. QED
    BY <1>4, <2>2 DEF Moved
<1>6. /\ m \in KernelType /\ m.pcb = k.pcb /\ m.run = k.run /\ m.cur = k.cur
      /\ m.at[k.run].loc = "user" /\ \A q \in Pids : q # k.run => m.at[q] = k.at[q]
  BY <1>2, <1>3, <1>5
<1>7. Good(m, n)
  BY <1>6, MovedGood
<1>8. Comes(k, m, "user")
  BY <1>6 DEF Comes
<1>9. QED
  BY <1>7, <1>8 DEF m

\* A system call begins to wait.
LEMMA EnteredGood ==
  ASSUME NEW k, NEW n, Good(k, n), k.run # 0, NEW loc \in Waiting, NEW on \in Pids,
         loc = "wait" => on < n /\ on # k.run /\ k.pcb[on].parent_pid = k.run,
         NEW m, m = Goes(Entered(k), k.run, loc, on)
  PROVE  Good(m, n) /\ m.run = k.run /\ m.at[m.run].on = on /\ m.pcb = k.pcb /\ Comes(k, m, loc)
<1> DEFINE k1 == Entered(k)
<1>1. k \in KernelType /\ k.run \in Pids /\ loc \in Locations
  BY ZenonT(40), SlotOfPid DEF Good, Sound, Waiting, Locations
<1>2. k1 \in KernelType /\ k1.pcb = k.pcb /\ k1.run = k.run /\ k1.cur = k.cur /\ k1.at = k.at /\ k1.sys
  BY ZenonT(40), <1>1 DEF KernelType, Entered
<1> HIDE DEF k1
<1>3. PICK r \in Pids : r = k.run
  BY <1>1
<1>4. /\ m \in KernelType /\ m.pcb = k1.pcb /\ m.run = k1.run /\ m.cur = k1.cur /\ m.sys = k1.sys
      /\ m.at[k.run].loc = loc /\ m.at[k.run].on = on /\ \A q \in Pids : q # k.run => m.at[q] = k1.at[q]
  <2>1. k1 \in KernelType /\ loc \in Locations /\ m = Goes(k1, r, loc, on)
    BY <1>1, <1>2, <1>3 DEF k1
  <2>2. Moved(k1, m, r, loc, on)
    BY <2>1, GoesIs
  <2>3. QED
    BY <1>3, <2>2 DEF Moved
<1>5. /\ m \in KernelType /\ m.pcb = k.pcb /\ m.run = k.run /\ m.cur = k.cur /\ m.sys
      /\ m.at[k.run].loc = loc /\ m.at[k.run].on = on /\ \A q \in Pids : q # k.run => m.at[q] = k.at[q]
  BY ZenonT(40), <1>2, <1>4
<1>6. Good(m, n)
  BY <1>5, MovedGood
<1>7. QED
  BY <1>5, <1>6 DEF Comes

-----------------------------------------------------------------------------
(* Creation. *)

\* p is what a creation writes in slot n.
NewPcb(k, n, p) ==
    /\ p \in PcbType /\ p.pid = n /\ p.state = "READY" /\ p.is_user /\ ~p.in_kern
    /\ p.kernel_rsp = Ctx("frame", n) /\ p.pml4 <= n /\ p.parent_pid < n /\ Live(k, p.parent_pid)
    /\ p.th_parent_pid = None => p.pml4 \in {0, n}
    /\ p.th_parent_pid # None => p.parent_pid # 0

\* m is k with one more process, in slot n.
Grown(k, m, n, p) ==
    /\ Good(m, n + 1) /\ m.run = k.run /\ m.cur = k.cur /\ m.sys = k.sys
    /\ m.pcb[n] = p /\ (\A s \in Slots : s # n => m.pcb[s] = k.pcb[s])
    /\ m.at[n].loc = "new" /\ (\A q \in Pids : q # n => m.at[q] = k.at[q])
    /\ k.at[n].loc # "wait"

\* A creation fills a slot nobody used and leaves the others alone.
LEMMA CreatedGood ==
  ASSUME NEW k, NEW n \in Pids, Good(k, n), NEW p, NewPcb(k, n, p),
         NEW m, m = Goes([k EXCEPT !.pcb[n] = p], n, "new", 0)
  PROVE  Grown(k, m, n, p)
<1> DEFINE t == [k.pcb EXCEPT ![n] = p]
           k1 == [k EXCEPT !.pcb = t]
<1>1. /\ k \in KernelType /\ n \in 1..(MaxPid + 1) /\ Occupied(k, n) /\ Families(k, n) /\ Flows(k, n)
      /\ k.run \in 0..(n - 1) /\ k.cur = k.run /\ Live(k, k.run) /\ Turns(k, k.run) /\ OthersResume(k, n)
  BY DEF Good, Sound
<1>2. p \in PcbType /\ n \in Slots /\ n \in 1..MaxPid /\ n + 1 \in 1..(MaxPid + 1)
  BY <1>1, Sizes DEF NewPcb, Pids
<1>3. t \in [Slots -> PcbType] /\ t[n] = p /\ \A s \in Slots : s # n => t[s] = k.pcb[s]
  BY <1>1, <1>2 DEF KernelType
<1>4. PICK loc \in Locations, on \in Pids : loc = "new" /\ m = Goes(k1, n, loc, on)
  BY Sizes DEF Locations
<1> HIDE DEF t
<1>5. k1 \in KernelType /\ k1.pcb = t /\ k1.at = k.at /\ k1.run = k.run /\ k1.cur = k.cur /\ k1.sys = k.sys
  BY <1>1, <1>3 DEF KernelType
<1> HIDE DEF k1
<1>6. Moved(k1, m, n, loc, on)
  <2>1. k1 \in KernelType /\ m = Goes(k1, n, loc, on)
    BY <1>4, <1>5
  <2>2. QED
    BY <2>1, GoesIs
<1>7. /\ m \in KernelType /\ m.run = k.run /\ m.cur = k.cur /\ m.sys = k.sys
      /\ m.pcb[n] = p /\ (\A s \in Slots : s # n => m.pcb[s] = k.pcb[s])
      /\ m.at[n].loc = "new" /\ (\A q \in Pids : q # n => m.at[q] = k.at[q])
  BY <1>3, <1>4, <1>5, <1>6 DEF Moved
<1>8. \A s \in 0..(n - 1) : s \in Slots /\ s \in Pids /\ s # n
  <2>1. \A s \in 0..(n - 1) : s \in Slots /\ s \in Pids
    BY ZenonT(40), <1>1, SlotOfPid
  <2>2. QED
    BY <1>2, <2>1
<1>9. Occupied(m, n + 1)
  <2>1. Slot(p, n)
    BY <1>2 DEF NewPcb, Slot
  <2>2. ASSUME NEW s \in Slots PROVE IF s < n + 1 THEN Slot(m.pcb[s], s) ELSE m.pcb[s] = EmptyPcb
    <3>1. s \in Int /\ n \in Int
      BY <1>2, Sizes
    <3>2. CASE s < n
      BY <1>1, <1>7, <3>1, <3>2 DEF Occupied
    <3>3. CASE s = n
      BY <1>7, <2>1, <3>1, <3>3
    <3>4. CASE s > n
      BY <1>1, <1>7, <3>1, <3>4 DEF Occupied
    <3>5. QED
      BY <3>1, <3>2, <3>3, <3>4
  <2>3. QED
    BY <2>2 DEF Occupied
<1>10. \A s \in Slots : s # n => (Live(m, s) <=> Live(k, s))
  BY <1>7 DEF Live
<1>11. Families(m, n + 1)
  <2>1. Live(m, 0)
    BY <1>1, <1>2, <1>10, Sizes DEF Families
  <2>2. ASSUME NEW s \in 1..n, Live(m, s) PROVE Live(m, m.pcb[s].parent_pid)
    <3>1. CASE s = n
      <4>1. p.parent_pid \in Slots /\ p.parent_pid # n
        BY <1>2, Sizes DEF NewPcb, PcbType
      <4>2. QED
        BY <1>7, <1>10, <3>1, <4>1 DEF NewPcb
    <3>2. CASE s # n
      <4>1. s \in 1..(n - 1) /\ s \in 0..(n - 1)
        BY <1>2, <3>2
      <4>2. Live(k, s) /\ m.pcb[s] = k.pcb[s] /\ Slot(k.pcb[s], s)
        BY ZenonT(40), <1>1, <1>7, <1>8, <1>10, <2>2, <3>2, <4>1, SlotOfPid
      <4>3. k.pcb[s].parent_pid \in Slots /\ k.pcb[s].parent_pid # n
        BY SMTT(30), Z3T(30), <1>1, <1>2, <1>8, <4>1, <4>2, Sizes DEF KernelType, PcbType, Slot
      <4>4. QED
        BY <1>1, <1>10, <4>1, <4>2, <4>3 DEF Families
    <3>3. QED
      BY <3>1, <3>2
  <2>3. (n + 1) - 1 = n
    BY <1>2
  <2>4. QED
    BY <2>1, <2>2, <2>3 DEF Families
<1>12. \A s \in 0..n : s = n \/ s \in 0..(n - 1)
  BY Sizes
<1>13. Flows(m, n + 1)
  <2>1. ASSUME NEW q \in Pids
        PROVE  /\ m.at[q].loc # "hlt"
               /\ m.at[q].loc = "wait" => m.at[q].on < n + 1 /\ m.at[q].on # q /\ m.pcb[m.at[q].on].parent_pid = q
    <3>1. CASE q = n
      BY ZenonT(40), <1>7, <3>1
    <3>2. CASE q # n
      <4>1. m.at[q] = k.at[q] /\ k.at[q].on \in Slots /\ k.at[q].on \in Int
        <5>1. k.at[q].on \in Pids
          BY SMTT(30), Z3T(30), <1>1 DEF KernelType
        <5>2. QED
          BY <1>7, <3>2, <5>1, Sizes DEF Pids
      <4>2. k.at[q].loc # "hlt" /\ (k.at[q].loc = "wait" => k.at[q].on < n /\ k.at[q].on # q /\ k.pcb[k.at[q].on].parent_pid = q)
        BY <1>1 DEF Flows
      <4>3. QED
        <5>1. ASSUME k.at[q].loc = "wait"
              PROVE  k.at[q].on < n + 1 /\ k.at[q].on # q /\ m.pcb[k.at[q].on].parent_pid = q
          <6>1. k.at[q].on < n
            BY ZenonT(40), <4>2, <5>1
          <6>2. k.at[q].on < n + 1 /\ k.at[q].on # n
            BY <1>2, <4>1, <6>1
          <6>3. m.pcb[k.at[q].on] = k.pcb[k.at[q].on]
            BY ZenonT(40), <1>7, <4>1, <6>2
          <6>4. QED
            BY ZenonT(40), <4>2, <5>1, <6>2, <6>3
        <5>2. QED
          BY ZenonT(40), <4>1, <4>2, <5>1
    <3>3. QED
      BY ZenonT(40), <3>1, <3>2
  <2>2. ASSUME NEW s \in 0..n, m.pcb[s].state = "ZOMBIE" PROVE m.at[s].loc = "zombie"
    <3>1. s # n
      BY <1>7, <2>2 DEF NewPcb
    <3>2. QED
      BY SMTT(30), Z3T(30), <1>1, <1>7, <1>8, <1>12, <2>2, <3>1 DEF Flows
  <2>3. (n + 1) - 1 = n
    BY <1>2
  <2>4. QED
    BY ZenonT(40), <2>1, <2>2, <2>3 DEF Flows
<1>14. Turns(m, m.run)
  BY <1>1, <1>7 DEF Turns, NewPcb
<1>15. OthersResume(m, n + 1)
  <2>1. ASSUME NEW s \in 0..n, s # m.run, Live(m, s) PROVE Resumable(m, s)
    <3>1. CASE s = n
      BY <1>2, <1>7, <3>1 DEF Resumable, NewPcb
    <3>2. CASE s # n
      <4>1. s \in 0..(n - 1) /\ m.pcb[s] = k.pcb[s] /\ m.at[s] = k.at[s] /\ Live(k, s)
        BY <1>7, <1>8, <1>10, <1>12, <2>1, <3>2
      <4>2. QED
        BY <1>1, <1>7, <2>1, <4>1 DEF OthersResume, Resumable
    <3>3. QED
      BY <3>1, <3>2
  <2>2. (n + 1) - 1 = n
    BY <1>2
  <2>3. QED
    BY <2>1, <2>2 DEF OthersResume
<1>16. m.at[m.run] = k.at[k.run] /\ Live(m, m.run) /\ m.run \in 0..((n + 1) - 1)
  <2>1. m.run = k.run /\ k.run \in Slots /\ k.run \in Pids /\ k.run # n
    BY <1>1, <1>2, <1>7, <1>8
  <2>2. m.at[m.run] = k.at[k.run] /\ Live(m, m.run)
    BY ZenonT(40), <1>1, <1>7, <1>10, <2>1
  <2>3. k.run \in 0..((n + 1) - 1)
    BY <1>1, <1>2
  <2>4. QED
    BY ZenonT(40), <2>1, <2>2, <2>3
<1>17. m.sys \/ m.at[m.run].loc = "user" \/ NoneWaits(m)
  BY ZenonT(40), <1>7, <1>16 DEF Good, NoneWaits, Waiting
<1>18. Good(m, n + 1)
  BY ZenonT(40), <1>1, <1>2, <1>7, <1>9, <1>11, <1>13, <1>14, <1>15, <1>16, <1>17 DEF Good, Sound
<1>19. k.at[n].loc # "wait"
  <2> SUFFICES ASSUME k.at[n].loc = "wait" PROVE FALSE
    OBVIOUS
  <2>1. PICK c : c = k.at[n].on
    OBVIOUS
  <2>2. c \in Pids /\ c < n /\ c # n /\ k.pcb[c].parent_pid = n
    BY <1>1, <2>1 DEF Flows, KernelType
  <2>3. c \in 0..(n - 1)
    BY <1>1, <2>2, Sizes DEF Pids
  <2>4. Slot(k.pcb[c], c)
    BY ZenonT(40), <1>1, <2>3, SlotOfPid
  <2>5. QED
    BY <1>2, <2>2, <2>3, <2>4 DEF Slot
<1>20. QED
  BY <1>7, <1>18, <1>19 DEF Grown

-----------------------------------------------------------------------------
(* The end of a process or of a thread. *)

\* The running process has no live child.
Childless(k, n) == \A s \in 1..(n - 1) : Live(k, s) => k.pcb[s].parent_pid # k.run

\* m is k with the running process ended, before the CPU goes on.
Ended(k, m, n, loc) ==
    /\ Leaving(m, n) /\ ~Live(m, k.run) /\ m.run = k.run /\ m.cur = k.run /\ m.sys /\ SameSlots(k, m)
    /\ \A s \in Slots : s # k.run => m.pcb[s] = k.pcb[s]
    /\ m.at[k.run].loc = loc /\ (\A q \in Pids : q # k.run => m.at[q] = k.at[q])

\* The flow that ran has come to loc; another may have started.
EndsAs(k, m, loc) ==
    /\ m.at[k.run].loc = loc
    /\ \A q \in Pids : q # k.run => m.at[q] = k.at[q] \/ (k.at[q].loc = "new" /\ m.at[q].loc = "user")

\* Looking up the current process finds the one that runs.
LEMMA CurrentFound ==
  ASSUME NEW k, NEW n, Good(k, n)
  PROVE  /\ k \in KernelType /\ n \in 1..(MaxPid + 1) /\ k.run \in 0..(n - 1) /\ k.cur = k.run
         /\ k.run \in Slots /\ k.run \in Pids /\ Slot(k.pcb[k.run], k.run) /\ process_current(k) = k.run
<1>1. /\ k \in KernelType /\ n \in 1..(MaxPid + 1) /\ Occupied(k, n) /\ k.run \in 0..(n - 1)
      /\ k.cur = k.run /\ k.pcb[k.run].state # "EMPTY"
  BY DEF Good, Sound, Live
<1>2. PICK r \in 0..(n - 1) : r = k.run
  BY <1>1
<1>3. /\ r \in Slots /\ r \in Pids /\ Slot(k.pcb[r], r)
      /\ k.pcb[r].state # "EMPTY" => First({t \in Slots : k.pcb[t].state # "EMPTY" /\ k.pcb[t].pid = r}) = r
  BY ZenonT(40), <1>1, SlotOfPid
<1>4. process_current(k) = r
  BY ZenonT(40), <1>1, <1>2, <1>3 DEF process_current
<1>5. QED
  BY <1>1, <1>2, <1>3, <1>4

\* A process without live children ends: it leaves no orphan and no waiter of
\* its own behind.
LEMMA EndedLeaves ==
  ASSUME NEW k, NEW n, Good(k, n), k.run # 0, k.sys, Childless(k, n),
         NEW st \in {"ZOMBIE", "EMPTY"}, NEW loc \in {"zombie", "gone"}, st = "ZOMBIE" => loc = "zombie",
         NEW on \in Pids, NEW m, m = Goes(WithState(k, k.run, st), k.run, loc, on)
  PROVE  Ended(k, m, n, loc)
<1>1. /\ k \in KernelType /\ n \in 1..(MaxPid + 1) /\ Occupied(k, n) /\ Families(k, n) /\ Flows(k, n)
      /\ k.run \in 0..(n - 1) /\ k.cur = k.run /\ Turns(k, k.run) /\ OthersResume(k, n)
  BY DEF Good, Sound
<1>2. PICK r \in Pids : r = k.run /\ r \in Slots
  BY CurrentFound
<1> DEFINE k1 == WithState(k, r, st)
<1>3. st \in States /\ loc \in Locations
  BY DEF States, Locations
<1> HIDE DEF k1
<1>4. Changed(k, k1, r) /\ k1.pcb[r].state = st
  BY <1>1, <1>2, <1>3, SetState DEF k1
<1>5. Moved(k1, m, r, loc, on)
  <2>1. k1 \in KernelType /\ m = Goes(k1, r, loc, on)
    BY ZenonT(40), <1>2, <1>4 DEF Changed, k1
  <2>2. QED
    BY <1>3, <2>1, GoesIs
<1>6. /\ m \in KernelType /\ m.run = r /\ m.cur = r /\ m.sys /\ SameSlots(k, m) /\ m.pcb[r].state = st
      /\ (\A s \in Slots : s # r => m.pcb[s] = k.pcb[s])
      /\ m.at[r].loc = loc /\ (\A q \in Pids : q # r => m.at[q] = k.at[q])
  <2>1. m.pcb = k1.pcb /\ m.run = k1.run /\ m.cur = k1.cur /\ m.sys = k1.sys /\ m \in KernelType
    BY ZenonT(40), <1>5 DEF Moved
  <2>2. m.at[r].loc = loc /\ (\A q \in Pids : q # r => m.at[q] = k1.at[q])
    BY ZenonT(40), <1>5 DEF Moved
  <2>3. /\ k1.run = k.run /\ k1.cur = k.cur /\ k1.sys = k.sys /\ k1.at = k.at /\ SameSlots(k, k1)
        /\ \A s \in Slots : s # r => k1.pcb[s] = k.pcb[s]
    BY ZenonT(40), <1>4 DEF Changed
  <2>4. SameSlots(k, m)
    BY <2>1, <2>3 DEF SameSlots
  <2>5. QED
    BY <1>1, <1>2, <1>4, <2>1, <2>2, <2>3, <2>4
<1>7. \A s \in 0..(n - 1) : s \in Slots /\ s \in Pids
  BY ZenonT(40), <1>1, SlotOfPid
<1>8. Occupied(m, n)
  <2>1. \A s \in Slots : s >= n => m.pcb[s] = k.pcb[s]
    BY <1>1, <1>2, <1>6
  <2>2. SameSlots(k, m) /\ n \in 1..(MaxPid + 1) /\ Occupied(k, n)
    BY ZenonT(40), <1>1, <1>6
  <2>3. PICK x : x = m
    OBVIOUS
  <2>4. SameSlots(k, x) /\ \A s \in Slots : s >= n => x.pcb[s] = k.pcb[s]
    BY ZenonT(40), <2>1, <2>2, <2>3
  <2>5. Occupied(x, n)
    BY <2>2, <2>4, OccupiedKept
  <2>6. QED
    BY ZenonT(40), <2>3, <2>5
<1>9. ~Live(m, r) /\ \A s \in Slots : s # r => (Live(m, s) <=> Live(k, s))
  BY <1>6 DEF Live
<1>10. Families(m, n)
  <2>1. Live(m, 0)
    BY ZenonT(40), <1>1, <1>2, <1>9, Sizes DEF Families
  <2>2. ASSUME NEW s \in 1..(n - 1), Live(m, s) PROVE Live(m, m.pcb[s].parent_pid)
    <3>1. s \in Slots /\ s # r
      BY <1>1, <1>7, <1>9, <2>2
    <3>2. k.pcb[s].parent_pid \in Slots /\ m.pcb[s] = k.pcb[s] /\ Live(k, s)
      BY ZenonT(40), <1>1, <1>6, <1>9, <2>2, <3>1, Sizes DEF KernelType, PcbType
    <3>3. k.pcb[s].parent_pid # r
      BY <1>2, <3>2 DEF Childless
    <3>4. QED
      BY <1>1, <1>9, <3>2, <3>3 DEF Families
  <2>3. QED
    BY <2>1, <2>2 DEF Families
<1>11. Flows(m, n)
  <2>1. ASSUME NEW q \in Pids
        PROVE  /\ m.at[q].loc # "hlt"
               /\ m.at[q].loc = "wait" => m.at[q].on < n /\ m.at[q].on # q /\ m.pcb[m.at[q].on].parent_pid = q
    <3>1. CASE q = r
      BY ZenonT(40), <1>6, <3>1
    <3>2. CASE q # r
      <4>1. m.at[q] = k.at[q] /\ k.at[q].on \in Slots
        BY ZenonT(40), <1>1, <1>6, <3>2, Sizes DEF KernelType
      <4>2. QED
        <5>1. m.pcb[k.at[q].on].parent_pid = k.pcb[k.at[q].on].parent_pid
          BY <1>6, <4>1, Zenon DEF SameSlots
        <5>2. /\ k.at[q].loc # "hlt"
              /\ k.at[q].loc = "wait" => k.at[q].on < n /\ k.at[q].on # q /\ k.pcb[k.at[q].on].parent_pid = q
          BY <1>1, Zenon DEF Flows
        <5>3. QED
          BY <4>1, <5>1, <5>2, Zenon
    <3>3. QED
      BY ZenonT(40), <3>1, <3>2
  <2>2. ASSUME NEW s \in 0..(n - 1), m.pcb[s].state = "ZOMBIE" PROVE m.at[s].loc = "zombie"
    <3>1. CASE s = r
      <4>1. st = "ZOMBIE"
        BY ZenonT(40), <1>6, <2>2, <3>1
      <4>2. QED
        BY ZenonT(40), <1>6, <3>1, <4>1
    <3>2. CASE s # r
      <4>1. m.pcb[s] = k.pcb[s] /\ m.at[s] = k.at[s]
        BY ZenonT(40), <1>6, <1>7, <3>2
      <4>2. QED
        BY ZenonT(40), <1>1, <2>2, <4>1 DEF Flows
    <3>3. QED
      BY ZenonT(40), <3>1, <3>2
  <2>3. QED
    BY ZenonT(40), <2>1, <2>2 DEF Flows
<1>12. Turns(m, r)
  BY <1>1, <1>2, <1>6 DEF Turns
<1>13. OthersResume(m, n)
  <2>1. ASSUME NEW s \in 0..(n - 1), s # r, Live(m, s) PROVE Resumable(m, s)
    <3>1. m.pcb[s] = k.pcb[s] /\ m.at[s] = k.at[s] /\ Live(k, s)
      BY ZenonT(40), <1>6, <1>7, <1>9, <2>1
    <3>2. Resumable(k, s)
      BY ZenonT(40), <1>1, <1>2, <2>1, <3>1 DEF OthersResume
    <3>3. QED
      BY ZenonT(40), <3>1, <3>2 DEF Resumable
  <2>2. QED
    BY ZenonT(40), <1>6, <2>1 DEF OthersResume
<1>14. Leaving(m, n)
  BY ZenonT(40), <1>1, <1>2, <1>6, <1>8, <1>9, <1>10, <1>11, <1>12, <1>13 DEF Leaving, Sound
<1>15. QED
  BY ZenonT(40), <1>2, <1>6, <1>9, <1>14 DEF Ended

\* What follows the end of the running process goes on with another.
LEMMA EndsAfter ==
  ASSUME NEW k, NEW m, NEW m2, NEW n, NEW loc \in {"zombie", "gone"}, k.run \in Pids,
         Ended(k, m, n, loc), Starts(m, m2)
  PROVE  EndsAs(k, m2, loc)
  BY DEF Ended, Starts, EndsAs

\* A thread that ends always finds a READY process to go on with, its parent if
\* no other: the hlt loop behind schedule() is not reached.
LEMMA ThreadExitGood ==
  ASSUME NEW k, NEW n, Good(k, n), k.run # 0, k.sys, Childless(k, n), k.pcb[k.run].th_parent_pid # None
  PROVE  Good(proc_thread_exit(k), n) /\ EndsAs(k, proc_thread_exit(k), "gone")
<1> DEFINE k1 == Goes([k EXCEPT !.pcb[k.run].state = "EMPTY"], k.run, "gone", 0)
           p == k.pcb[k.run].parent_pid
<1>1. proc_thread_exit(k) = IF schedule(k1) = k1 THEN Goes(k1, k.run, "hlt", 0) ELSE schedule(k1)
  BY CurrentFound, Zenon DEF proc_thread_exit
<1>2. PICK st \in {"ZOMBIE", "EMPTY"}, loc \in {"zombie", "gone"}, on \in Pids :
        st = "EMPTY" /\ loc = "gone" /\ k1 = Goes(WithState(k, k.run, st), k.run, loc, on)
  BY Sizes, Zenon DEF WithState
<1> HIDE DEF k1
<1>3. Ended(k, k1, n, loc)
  <2>1. st = "ZOMBIE" => loc = "zombie"
    BY <1>2
  <2>2. k1 = Goes(WithState(k, k.run, st), k.run, loc, on)
    BY <1>2
  <2>3. QED
    BY <2>1, <2>2, EndedLeaves
<1>4. p \in Slots /\ p \in 1..(n - 1) /\ p # k.run /\ Live(k, p)
  <2>1. /\ k.run \in 1..(n - 1) /\ k.run \in Slots /\ Slot(k.pcb[k.run], k.run) /\ k \in KernelType
        /\ n \in 1..(MaxPid + 1)
    BY CurrentFound
  <2>2. p \in Pids /\ p < k.run /\ p # 0
    BY ZenonT(40), <2>1 DEF Slot, KernelType, PcbType
  <2>3. Live(k, p)
    BY ZenonT(40), <2>1 DEF Good, Sound, Families
  <2>4. QED
    BY <2>1, <2>2, <2>3, Sizes DEF Pids
<1>5. k.pcb[p].state = "READY"
  <2>1. k.pcb[p].state \in States
    BY ZenonT(40), <1>4 DEF Good, Sound, KernelType, PcbType
  <2>2. QED
    <3>0. Turns(k, k.run) /\ p # 0
      BY <1>4 DEF Good
    <3>1. k.pcb[p].state # "RUNNING" /\ k.pcb[p].state # "BLOCKED"
      BY ZenonT(40), <1>4, <3>0 DEF Turns
    <3>2. k.pcb[p].state # "EMPTY" /\ k.pcb[p].state # "ZOMBIE"
      BY ZenonT(40), <1>4 DEF Live
    <3>3. QED
      BY <2>1, <3>1, <3>2 DEF States
<1>6. k1 \in KernelType /\ Leaving(k1, n) /\ k1.pcb[p].state = "READY" /\ k1.run = k.run /\ k1.cur = k.run /\ ~Live(k1, k.run)
  BY ZenonT(40), <1>3, <1>4, <1>5 DEF Ended, Leaving, Sound
<1>7. find_next_ready(k1) \notin {None, k1.cur}
  <2>1. find_next_ready(k1) # None /\ k1.pcb[find_next_ready(k1)].state = "READY"
    BY ZenonT(40), <1>4, <1>6, NextReady
  <2>2. QED
    BY ZenonT(40), <1>6, <2>1 DEF Live
<1>8. Good(schedule(k1), n) /\ Starts(k1, schedule(k1))
  BY ZenonT(40), <1>6, <1>7, ScheduleSwitches
<1>9. schedule(k1) # k1
  BY <1>6, <1>8 DEF Good
<1>10. EndsAs(k, schedule(k1), loc)
  BY ZenonT(40), <1>3, <1>8, CurrentFound, EndsAfter
<1>11. QED
  BY <1>1, <1>2, <1>8, <1>9, <1>10

\* m is k, or k with p woken.
Woken(k, m, p) ==
    /\ Changed(k, m, p) /\ m.pcb[p].in_kern = k.pcb[p].in_kern /\ m.pcb[p].kernel_rsp = k.pcb[p].kernel_rsp
    /\ m.pcb[p].state = k.pcb[p].state \/ (k.pcb[p].state = "BLOCKED" /\ m.pcb[p].state = "READY")

\* proc_wake_parent wakes nobody or the parent, which is then the shell.
LEMMA WakeParent ==
  ASSUME NEW k, NEW n, Sound(k, n), NEW r \in 0..(n - 1), r # 0, Turns(k, r), NEW m, m = proc_wake_parent(k, r),
         NEW p, p = k.pcb[r].parent_pid
  PROVE  Woken(k, m, p)
<1> DEFINE W == {i \in Slots : /\ k.pcb[i].state = "BLOCKED"
                               /\ \E j \in Slots : k.pcb[j].pid = r /\ k.pcb[j].parent_pid = k.pcb[i].pid}
<1>1. k \in KernelType /\ n \in 1..(MaxPid + 1) /\ Occupied(k, n)
  BY ZenonT(40) DEF Sound
<1>2. m = IF W = {} THEN k ELSE [k EXCEPT !.pcb[Min(W)].state = "READY"]
  BY DEF proc_wake_parent
<1>3. CASE W = {}
  BY ZenonT(40), <1>1, <1>2, <1>3 DEF Woken, Changed, SameSlots
<1>4. CASE W # {}
  <2>1. PICK i \in Slots, j \in Slots : /\ k.pcb[i].state = "BLOCKED"
                                        /\ k.pcb[j].pid = r /\ k.pcb[j].parent_pid = k.pcb[i].pid
    BY <1>4
  <2>2. i = 0 /\ \A x \in W : x = 0
    BY <2>1 DEF Turns
  <2>3. W = {0}
    BY ZenonT(40), <1>4, <2>2
  <2>4. j = r
    <3>1. j < n
      <4>1. ~(j < n) => k.pcb[j].pid = None
        BY <1>1 DEF Occupied, EmptyPcb
      <4>2. QED
        BY <2>1, <4>1, Sizes DEF None
    <3>2. QED
      BY <1>1, <2>1, <3>1 DEF Occupied, Slot
  <2>5. p = 0
    <3>1. Slot(k.pcb[0], 0)
      BY <1>1, Sizes DEF Occupied
    <3>2. QED
      BY <2>1, <2>2, <2>4, <3>1 DEF Slot
  <2>6. PICK z \in Slots, v \in States : z = 0 /\ v = "READY" /\ m = WithState(k, z, v)
    <3>1. Min(W) = 0
      BY <2>3, MinIn
    <3> HIDE DEF W
    <3>2. 0 \in Slots /\ "READY" \in States
      BY Sizes DEF States
    <3>3. m = WithState(k, 0, "READY")
      BY <1>2, <1>4, <3>1, Zenon DEF WithState
    <3>4. QED
      BY <3>2, <3>3
  <2>7. m = WithState(k, z, v)
    BY <2>6
  <2>8. Changed(k, m, z) /\ m.pcb[z].state = v /\ m.pcb[z].in_kern = k.pcb[z].in_kern /\ m.pcb[z].kernel_rsp = k.pcb[z].kernel_rsp
    BY <1>1, <2>7, SetState
  <2>9. QED
    BY <2>1, <2>2, <2>5, <2>6, <2>8 DEF Woken
<1>5. QED
  BY <1>3, <1>4

\* process_exit_current of the process in slot me with the flow r.
ExitOf(k, me, r, pid) ==
    LET k1 == proc_wake_parent(Goes([k EXCEPT !.pcb[me].state = "ZOMBIE"], r, "zombie", 0), pid)
        parent == k1.pcb[me].parent_pid
        old == k1.pcb[parent].state
    IN  context_switch([k1 EXCEPT !.pcb[parent].state = IF old = "BLOCKED" THEN "READY" ELSE old,
                                  !.cur = parent], me, parent)

\* A process that ends goes on with its parent, which is there, and which no
\* other flow has overtaken: it is READY, or the shell in process_switch_to.
LEMMA ExitGood ==
  ASSUME NEW k, NEW n, Good(k, n), k.run # 0, k.sys, Childless(k, n)
  PROVE  Good(process_exit_current(k), n) /\ EndsAs(k, process_exit_current(k), "zombie")
<1>1. /\ k \in KernelType /\ n \in 1..(MaxPid + 1) /\ k.run \in 0..(n - 1) /\ k.cur = k.run
      /\ k.run \in Slots /\ k.run \in Pids /\ Slot(k.pcb[k.run], k.run) /\ process_current(k) = k.run
  BY CurrentFound
<1>2. PICK r \in 0..(n - 1) : r = k.run /\ r # 0 /\ r \in Slots /\ r \in Pids
  BY <1>1
<1> DEFINE e == Goes([k EXCEPT !.pcb[r].state = "ZOMBIE"], r, "zombie", 0)
           b1 == proc_wake_parent(e, r)
           p == b1.pcb[r].parent_pid
           old == b1.pcb[p].state
           new == IF old = "BLOCKED" THEN "READY" ELSE old
           b2 == [b1 EXCEPT !.pcb[p].state = new]
           b3 == [b2 EXCEPT !.cur = p]
           ctx == Ctx(IF b3.pcb[r].is_user THEN "rbx" ELSE "cflow", b3.run)
           b4 == [b3 EXCEPT !.pcb[r].kernel_rsp = ctx]
<1>3. process_exit_current(k) = Resume(b4, p)
  <2>1. k.pcb[r].pid = r /\ r # None
    BY <1>1, <1>2, Sizes DEF Slot
  <2>2. process_exit_current(k) = IF process_current(k) = None THEN Goes(k, k.run, "hlt", 0)
                                  ELSE ExitOf(k, process_current(k), k.run, k.pcb[process_current(k)].pid)
    BY ZenonT(40) DEF process_exit_current, ExitOf
  <2>3. process_exit_current(k) = ExitOf(k, r, r, r)
    BY <1>1, <1>2, <2>1, <2>2
  <2>4. process_exit_current(k) = context_switch(b3, r, p)
    BY <2>3, Zenon DEF ExitOf
  <2>5. QED
    BY <2>4, ZenonT(40) DEF context_switch
<1>4. PICK st \in {"ZOMBIE", "EMPTY"}, loc \in {"zombie", "gone"}, on \in Pids :
        st = "ZOMBIE" /\ loc = "zombie" /\ e = Goes(WithState(k, r, st), r, loc, on)
  BY Sizes, Zenon DEF WithState
<1> HIDE DEF e, b1, b2, b3, b4, p, old, new, ctx
<1>5. Ended(k, e, n, loc)
  <2>1. st = "ZOMBIE" => loc = "zombie"
    BY <1>4
  <2>2. e = Goes(WithState(k, k.run, st), k.run, loc, on)
    BY ZenonT(40), <1>2, <1>4
  <2>3. QED
    BY <2>1, <2>2, EndedLeaves
<1>6. /\ Sound(e, n) /\ Turns(e, r) /\ OthersResume(e, n) /\ ~Live(e, r) /\ e.run = r /\ e.cur = r /\ e.sys
      /\ \A s \in Slots : s # r => e.pcb[s] = k.pcb[s]
      /\ SameSlots(k, e) /\ e \in KernelType
  BY <1>2, <1>5 DEF Ended, Leaving, Sound
<1>7. PICK q : q = e.pcb[r].parent_pid
  OBVIOUS
<1>8. q \in 0..(n - 1) /\ q # r /\ q \in Slots /\ Live(e, q)
  <2>1. q = k.pcb[r].parent_pid /\ q \in Pids /\ q < r
    <3>1. q = k.pcb[r].parent_pid
      BY ZenonT(40), <1>2, <1>6, <1>7 DEF SameSlots
    <3>2. k.pcb[r].parent_pid < r /\ k.pcb[r].parent_pid \in Pids
      BY ZenonT(40), <1>1, <1>2 DEF Slot, KernelType, PcbType
    <3>3. QED
      BY ZenonT(40), <3>1, <3>2
  <2>2. Live(k, q)
    <3>1. r \in 1..(n - 1) /\ Live(k, r)
      <4>1. Live(k, k.run)
        BY ZenonT(40) DEF Good
      <4>2. QED
        BY <1>1, <1>2, <4>1
    <3>2. QED
      BY ZenonT(40), <2>1, <3>1 DEF Good, Sound, Families
  <2>3. q \in 0..(n - 1) /\ q # r /\ q \in Slots
    BY <1>1, <1>2, <2>1, Sizes DEF Pids
  <2>4. QED
    BY ZenonT(40), <1>6, <2>2, <2>3 DEF Live
<1>9. /\ Changed(e, b1, q) /\ b1.pcb[q].in_kern = e.pcb[q].in_kern /\ b1.pcb[q].kernel_rsp = e.pcb[q].kernel_rsp
      /\ b1.pcb[q].state = e.pcb[q].state \/ (e.pcb[q].state = "BLOCKED" /\ b1.pcb[q].state = "READY")
  <2>1. b1 = proc_wake_parent(e, r)
    BY ZenonT(40) DEF b1
  <2>2. Woken(e, b1, q)
    BY <1>2, <1>6, <1>7, <2>1, WakeParent
  <2>3. QED
    BY <2>2 DEF Woken
<1>10. p = q
  BY ZenonT(40), <1>2, <1>7, <1>9 DEF p, Changed, SameSlots
<1>11. new \in States /\ new # "BLOCKED"
  BY <1>8, <1>9, <1>10 DEF new, old, Changed, KernelType, PcbType, States
<1>12. Changed(b1, b2, q) /\ b2.pcb[q].state = new /\ b2.pcb[q].in_kern = b1.pcb[q].in_kern /\ b2.pcb[q].kernel_rsp = b1.pcb[q].kernel_rsp
  <2>1. b2 = WithState(b1, q, new)
    BY <1>10 DEF b2, WithState
  <2>2. b1 \in KernelType
    BY <1>9 DEF Changed
  <2>3. QED
    BY <1>8, <1>11, <2>1, <2>2, SetState
<1>13. b3 \in KernelType /\ b3.at = b2.at /\ b3.run = b2.run /\ b3.cur = q /\ b3.sys = b2.sys /\ b3.pcb = b2.pcb
  <2>1. b2 \in KernelType /\ b3 = [b2 EXCEPT !.cur = q]
    BY ZenonT(40), <1>10, <1>12 DEF b3, Changed
  <2>2. q \in Slots
    BY ZenonT(40), <1>8
  <2>3. QED
    BY <2>1, <2>2, SetCur
<1>14. Changed(b3, b4, r) /\ b4.pcb[r].state = b3.pcb[r].state
  <2>1. ctx \in Contexts
    BY <1>13 DEF ctx, Ctx, Contexts, KernelType
  <2>2. b4 = WithRsp(b3, r, ctx)
    BY ZenonT(40) DEF b4, WithRsp
  <2>3. QED
    <3>1. b3 \in KernelType /\ r \in Slots
      BY ZenonT(40), <1>2, <1>13
    <3>2. QED
      BY <2>1, <2>2, <3>1, SetRsp
<1>15. /\ b4 \in KernelType /\ b4.cur = q /\ b4.sys = e.sys /\ b4.at = e.at /\ SameSlots(e, b4)
       /\ \A s \in Slots \ {r, q} : b4.pcb[s] = e.pcb[s]
       /\ b4.pcb[q].in_kern = e.pcb[q].in_kern /\ b4.pcb[q].kernel_rsp = e.pcb[q].kernel_rsp
       /\ b4.pcb[q].state = new /\ b4.pcb[r].state = e.pcb[r].state
  <2>1. SameSlots(e, b4)
    <3>1. SameSlots(e, b2)
      BY ZenonT(40), <1>9, <1>12, SameSlotsTwice DEF Changed
    <3>2. SameSlots(e, b3)
      BY ZenonT(40), <1>13, <3>1 DEF SameSlots
    <3>3. QED
      BY ZenonT(40), <1>14, <3>2, SameSlotsTwice DEF Changed
  <2>2. \A s \in Slots \ {r, q} : b4.pcb[s] = e.pcb[s]
    <3>1. ASSUME NEW s \in Slots, s # r, s # q PROVE b4.pcb[s] = e.pcb[s]
      <4>1. b1.pcb[s] = e.pcb[s] /\ b2.pcb[s] = b1.pcb[s]
        BY ZenonT(40), <1>9, <1>12, <3>1 DEF Changed
      <4>2. b3.pcb[s] = b2.pcb[s] /\ b4.pcb[s] = b3.pcb[s]
        BY ZenonT(40), <1>13, <1>14, <3>1 DEF Changed
      <4>3. QED
        BY ZenonT(40), <4>1, <4>2
    <3>2. QED
      BY ZenonT(40), <3>1
  <2>3. b4.pcb[q].in_kern = e.pcb[q].in_kern /\ b4.pcb[q].kernel_rsp = e.pcb[q].kernel_rsp /\ b4.pcb[q].state = new
    <3>1. b3.pcb[q] = b2.pcb[q] /\ b4.pcb[q] = b3.pcb[q]
      BY ZenonT(40), <1>8, <1>13, <1>14 DEF Changed
    <3>2. QED
      BY ZenonT(40), <1>9, <1>12, <3>1
  <2>4. b4.pcb[r].state = e.pcb[r].state
    BY ZenonT(40), <1>2, <1>8, <1>9, <1>12, <1>13, <1>14 DEF Changed
  <2>5. QED
    <3>1. b2.sys = e.sys /\ b2.at = e.at
      BY ZenonT(40), <1>9, <1>12 DEF Changed
    <3>2. b4.sys = b2.sys /\ b4.at = b2.at /\ b4.cur = q /\ b4 \in KernelType
      BY ZenonT(40), <1>13, <1>14 DEF Changed
    <3>3. b4.sys = e.sys /\ b4.at = e.at
      BY ZenonT(40), <3>1, <3>2
    <3>4. QED
      BY ZenonT(40), <2>1, <2>2, <2>3, <2>4, <3>2, <3>3
<1>16. /\ new \notin {"EMPTY", "ZOMBIE"} <=> e.pcb[q].state \notin {"EMPTY", "ZOMBIE"}
       /\ new = "ZOMBIE" <=> e.pcb[q].state = "ZOMBIE"
       /\ new = "RUNNING" <=> e.pcb[q].state = "RUNNING"
  BY ZenonT(40), <1>9, <1>10 DEF new, old
<1>17. \A s \in Slots : /\ Live(b4, s) <=> Live(e, s)
                        /\ b4.pcb[s].state = "ZOMBIE" <=> e.pcb[s].state = "ZOMBIE"
  BY ZenonT(40), <1>15, <1>16 DEF Live
<1>18. Turns(b4, q)
  <2>1. e.pcb[r].state # "RUNNING" /\ e.pcb[r].state # "BLOCKED"
    BY ZenonT(40), <1>2, <1>6 DEF Turns, Live
  <2>2. b4.pcb[r].state # "RUNNING" /\ b4.pcb[r].state # "BLOCKED" /\ b4.pcb[q].state # "BLOCKED"
    BY ZenonT(40), <1>11, <1>15, <2>1
  <2>3. ASSUME NEW s \in Slots, s # r, s # q
        PROVE  b4.pcb[s].state # "RUNNING" /\ (b4.pcb[s].state = "BLOCKED" => s = 0)
    <3>1. b4.pcb[s] = e.pcb[s]
      BY ZenonT(40), <1>15, <2>3
    <3>2. QED
      BY ZenonT(40), <1>6, <2>3, <3>1 DEF Turns
  <2>4. QED
    BY ZenonT(40), <2>2, <2>3 DEF Turns
<1>19. Saved(e, b4, n, r, q)
  BY ZenonT(40), <1>2, <1>6, <1>15, <1>17, <1>18 DEF Saved
<1>20. Good(Resume(b4, q), n) /\ Starts(e, Resume(b4, q))
  <2>1. \A s \in 0..(n - 1) : s # r /\ Live(e, s) => Resumable(e, s)
    BY ZenonT(40), <1>6 DEF OthersResume
  <2>2. QED
    BY ZenonT(40), <1>6, <1>8, <1>19, <2>1, SavedGood
<1>21. EndsAs(k, Resume(b4, q), loc)
  BY <1>1, <1>5, <1>20, EndsAfter
<1>22. QED
  BY <1>3, <1>4, <1>10, <1>20, <1>21

\* m is k with the siblings of the running process gone.
Alone(k, m, n) ==
    /\ Good(m, n) /\ m.run = k.run /\ m.sys = k.sys /\ Childless(m, n)
    /\ m.at[k.run] = k.at[k.run] /\ \A q \in Pids : m.at[q] = k.at[q] \/ m.at[q].loc = "killed"

\* The group of the running process is a group of its own, with its children.
OwnGroup(k, n) ==
    /\ k.pcb[k.run].th_parent_pid = None /\ 0 \notin Siblings(k)
    /\ \A s \in 1..(n - 1) : Live(k, s) /\ k.pcb[s].parent_pid \in {k.run} \cup Siblings(k)
                            => s \in {k.run} \cup Siblings(k)

\* The group of a process with an address space of its own is younger than the
\* process, so emptying it takes nobody's parent away, if its children are in it.
LEMMA EmptiedGood ==
  ASSUME NEW k, NEW n, Good(k, n), k.run # 0, k.sys, OwnGroup(k, n)
  PROVE  Alone(k, Emptied(k), n)
<1>1. /\ k \in KernelType /\ n \in 1..(MaxPid + 1) /\ k.run \in 0..(n - 1) /\ k.cur = k.run
      /\ k.run \in Slots /\ k.run \in Pids /\ Slot(k.pcb[k.run], k.run) /\ process_current(k) = k.run
  BY ZenonT(40), CurrentFound
<1>2. /\ Occupied(k, n) /\ Families(k, n) /\ Flows(k, n) /\ Live(k, k.run) /\ Turns(k, k.run) /\ OthersResume(k, n)
  BY DEF Good, Sound
<1>3. PICK r \in 0..(n - 1) : r = k.run /\ r # 0 /\ r \in Slots /\ r \in Pids
  BY <1>1
<1> DEFINE S == Siblings(k)
           P == {k.pcb[s].pid : s \in S} \ {0}
           t == [s \in Slots |-> IF s \in S THEN [k.pcb[s] EXCEPT !.state = "EMPTY"] ELSE k.pcb[s]]
           a == [p \in Pids |-> IF p \in P THEN At("killed", 0) ELSE k.at[p]]
           m == Emptied(k)
<1>4. S = {s \in Slots \ {r} : k.pcb[s].state # "EMPTY" /\ k.pcb[s].pml4 = k.pcb[r].pml4}
  BY <1>1, <1>3, Sizes DEF Siblings
<1>5. m = [k EXCEPT !.pcb = t, !.at = a]
  BY ZenonT(40) DEF Emptied
<1> HIDE DEF S
<1>6. /\ t \in [Slots -> PcbType]
      /\ \A s \in Slots : /\ s \notin S => t[s] = k.pcb[s]
                          /\ s \in S => t[s].state = "EMPTY"
                          /\ t[s].pid = k.pcb[s].pid /\ t[s].pml4 = k.pcb[s].pml4 /\ t[s].is_user = k.pcb[s].is_user
                          /\ t[s].parent_pid = k.pcb[s].parent_pid /\ t[s].th_parent_pid = k.pcb[s].th_parent_pid
  <2>1. ASSUME NEW s \in Slots
        PROVE  LET e == [k.pcb[s] EXCEPT !.state = "EMPTY"]
               IN  /\ e \in PcbType /\ e.state = "EMPTY" /\ e.pid = k.pcb[s].pid /\ e.pml4 = k.pcb[s].pml4
                   /\ e.is_user = k.pcb[s].is_user /\ e.parent_pid = k.pcb[s].parent_pid
                   /\ e.th_parent_pid = k.pcb[s].th_parent_pid
    BY <1>1 DEF KernelType, PcbType, States
  <2>2. ASSUME NEW s \in Slots
        PROVE  /\ t[s] \in PcbType
               /\ s \notin S => t[s] = k.pcb[s]
               /\ s \in S => t[s].state = "EMPTY"
               /\ t[s].pid = k.pcb[s].pid /\ t[s].pml4 = k.pcb[s].pml4 /\ t[s].is_user = k.pcb[s].is_user
               /\ t[s].parent_pid = k.pcb[s].parent_pid /\ t[s].th_parent_pid = k.pcb[s].th_parent_pid
    <3>1. CASE s \in S
      BY ZenonT(40), <2>1, <3>1
    <3>2. CASE s \notin S
      BY <1>1, <3>2 DEF KernelType
    <3>3. QED
      BY <3>1, <3>2
  <2>3. t \in [Slots -> PcbType]
    BY <2>2
  <2>4. QED
    BY <2>2, <2>3
<1>7. P = S
  <2>1. ASSUME NEW s \in S PROVE k.pcb[s].pid = s /\ s # 0
    <3>1. s \in Slots /\ k.pcb[s].state # "EMPTY"
      BY ZenonT(40), <1>4
    <3>2. s < n
      BY ZenonT(40), <1>2, <3>1, FilledBelow
    <3>3. QED
      BY <1>2, <3>1, <3>2 DEF Occupied, Slot, S, OwnGroup
  <2>2. QED
    BY ZenonT(40), <2>1
<1>8. /\ a \in [Pids -> [loc : Locations, on : Pids]]
      /\ \A q \in Pids : /\ q \notin S => a[q] = k.at[q]
                         /\ q \in S => a[q].loc = "killed"
  <2>1. At("killed", 0) \in [loc : Locations, on : Pids] /\ At("killed", 0).loc = "killed"
    BY Sizes DEF At, Locations
  <2>2. k.at \in [Pids -> [loc : Locations, on : Pids]]
    BY <1>1 DEF KernelType
  <2>3. PICK z : z = At("killed", 0)
    OBVIOUS
  <2>4. QED
    BY <1>7, <2>1, <2>2, <2>3
<1> HIDE DEF P, t, a, m
<1>9. m \in KernelType /\ m.pcb = t /\ m.at = a /\ m.run = k.run /\ m.cur = k.cur /\ m.sys = k.sys
  BY ZenonT(40), <1>1, <1>5, <1>6, <1>8 DEF KernelType
<1>10. \A s \in 0..(n - 1) : s \in Slots /\ s \in Pids
  BY ZenonT(40), <1>1, <1>2, SlotOfPid
<1>11. \A s \in Slots : (Live(m, s) <=> Live(k, s) /\ s \notin S) /\ (s \notin S => m.pcb[s] = k.pcb[s])
  BY <1>6, <1>9 DEF Live
<1>12. \A s \in S : s \in Slots /\ s > r
  <2>1. ASSUME NEW s \in S PROVE s \in Slots /\ s > r
    <3>1. s \in Slots /\ s # r /\ k.pcb[s].state # "EMPTY" /\ k.pcb[s].pml4 = k.pcb[r].pml4
      BY ZenonT(40), <1>4
    <3>2. s < n
      BY ZenonT(40), <1>2, <3>1, FilledBelow
    <3>3. k.pcb[s].pml4 <= s /\ k.pcb[r].pml4 \in {0, r}
      BY ZenonT(40), <1>1, <1>2, <1>3, <3>1, <3>2 DEF Occupied, Slot, OwnGroup
    <3>4. k.pcb[r].pml4 # 0
      <4>1. k.pcb[0].pml4 <= 0 /\ k.pcb[0].pml4 \in Pids /\ k.pcb[0].state # "EMPTY"
        BY SMTT(30), Z3T(30), <1>1, <1>2, Sizes DEF Occupied, Slot, Families, Live, KernelType, PcbType
      <4>2. k.pcb[0].pml4 = 0
        BY <4>1 DEF Pids
      <4>3. QED
        BY ZenonT(40), <1>3, <1>4, <4>1, <4>2, Sizes DEF S, OwnGroup
    <3>5. QED
      BY SMTT(30), Z3T(30), <1>3, <3>1, <3>3, <3>4, Sizes
  <2>2. QED
    BY <2>1
<1>13. r \notin S /\ 0 \notin S
  BY ZenonT(40), <1>4 DEF S, OwnGroup
<1>14. SameSlots(k, m) /\ Occupied(m, n)
  <2>1. SameSlots(k, m)
    BY <1>6, <1>9 DEF SameSlots
  <2>2. ASSUME NEW s \in Slots, s >= n PROVE m.pcb[s] = k.pcb[s]
    <3>1. k.pcb[s].state = "EMPTY"
      BY <1>1, <1>2, <2>2, Sizes DEF Occupied, EmptyPcb
    <3>2. s \notin S
      BY ZenonT(40), <1>4, <3>1
    <3>3. QED
      BY ZenonT(40), <1>11, <3>2
  <2>3. QED
    BY ZenonT(40), <1>1, <1>2, <2>1, <2>2, OccupiedKept
<1>15. ASSUME NEW s \in 1..(n - 1), Live(m, s)
       PROVE  /\ s \in Slots /\ Live(k, s) /\ s \notin S /\ m.pcb[s] = k.pcb[s] /\ k.pcb[s].parent_pid \in Slots
              /\ k.pcb[s].parent_pid \notin S /\ k.pcb[s].parent_pid # r
  <2>1. s \in Slots /\ Live(k, s) /\ s \notin S /\ m.pcb[s] = k.pcb[s]
    <3>1. s \in 0..(n - 1)
      OBVIOUS
    <3>2. s \in Slots
      BY ZenonT(40), <1>10, <3>1
    <3>3. QED
      BY ZenonT(40), <1>11, <1>15, <3>2
  <2>2. k.pcb[s].parent_pid \in Slots /\ Slot(k.pcb[s], s)
    <3>1. k.pcb[s].parent_pid \in Slots
      BY ZenonT(40), <1>1, <2>1, Sizes DEF KernelType, PcbType
    <3>2. s < n
      BY <1>1
    <3>3. QED
      BY <1>2, <2>1, <3>1, <3>2 DEF Occupied
  <2>3. k.pcb[s].parent_pid \in Int /\ k.pcb[s].parent_pid < s
    <3>1. s # 0
      BY <1>1
    <3>2. k.pcb[s].parent_pid < s
      BY <2>2, <3>1, Zenon DEF Slot
    <3>3. k.pcb[s].parent_pid \in Nat
      BY <2>2, Sizes, ZenonT(40)
    <3>4. QED
      BY <3>2, <3>3
  <2>4. k.pcb[s].parent_pid \in {r} \cup S => s \in {r} \cup S
    BY <1>3, <2>1 DEF S, OwnGroup
  <2>5. k.pcb[s].parent_pid \in S => s # r
    BY <1>3, <1>12, <2>3
  <2>6. k.pcb[s].parent_pid = r => s # r
    BY <2>3
  <2>7. QED
    BY ZenonT(40), <2>1, <2>2, <2>4, <2>5, <2>6
<1>16. Families(m, n)
  <2>1. Live(m, 0)
    BY ZenonT(40), <1>2, <1>11, <1>13, Sizes DEF Families
  <2>2. ASSUME NEW s \in 1..(n - 1), Live(m, s) PROVE Live(m, m.pcb[s].parent_pid)
    BY ZenonT(40), <1>2, <1>11, <1>15, <2>2 DEF Families
  <2>3. QED
    BY ZenonT(40), <2>1, <2>2 DEF Families
<1>17. Childless(m, n)
  BY ZenonT(40), <1>3, <1>9, <1>15 DEF Childless
<1>18. Flows(m, n)
  <2>1. ASSUME NEW q \in Pids
        PROVE  /\ m.at[q].loc # "hlt"
               /\ m.at[q].loc = "wait" => m.at[q].on < n /\ m.at[q].on # q /\ m.pcb[m.at[q].on].parent_pid = q
    <3>1. CASE q \in S
      BY <1>8, <1>9, <3>1
    <3>2. CASE q \notin S
      <4>1. m.at[q] = k.at[q] /\ k.at[q].on \in Slots
        BY ZenonT(40), <1>1, <1>8, <1>9, <3>2, Sizes DEF KernelType
      <4>2. m.pcb[k.at[q].on].parent_pid = k.pcb[k.at[q].on].parent_pid
        BY <1>14, <4>1, Zenon DEF SameSlots
      <4>3. /\ k.at[q].loc # "hlt"
            /\ k.at[q].loc = "wait" => k.at[q].on < n /\ k.at[q].on # q /\ k.pcb[k.at[q].on].parent_pid = q
        BY <1>2, Zenon DEF Flows
      <4>4. QED
        BY <4>1, <4>2, <4>3, ZenonT(40)
    <3>3. QED
      BY <3>1, <3>2
  <2>2. ASSUME NEW s \in 0..(n - 1), m.pcb[s].state = "ZOMBIE" PROVE m.at[s].loc = "zombie"
    <3>1. s \in Slots /\ s \in Pids /\ s \notin S
      BY ZenonT(40), <1>6, <1>9, <1>10, <2>2
    <3>2. m.pcb[s] = k.pcb[s]
      BY ZenonT(40), <1>11, <3>1
    <3>3. m.at[s] = k.at[s]
      BY ZenonT(40), <1>8, <1>9, <3>1
    <3>4. QED
      BY ZenonT(40), <1>2, <2>2, <3>2, <3>3 DEF Flows
  <2>3. QED
    BY ZenonT(40), <2>1, <2>2 DEF Flows
<1>19. Turns(m, r)
  <2>1. ASSUME NEW s \in Slots PROVE m.pcb[s].state = "EMPTY" \/ m.pcb[s] = k.pcb[s]
    BY <1>6, <1>9, <1>11, Zenon
  <2>2. QED
    BY <1>2, <1>3, <2>1 DEF Turns
<1>20. OthersResume(m, n)
  <2>1. ASSUME NEW s \in 0..(n - 1), s # r, Live(m, s) PROVE Resumable(m, s)
    <3>1. s \notin S /\ Live(k, s) /\ m.pcb[s] = k.pcb[s] /\ m.at[s] = k.at[s]
      BY ZenonT(40), <1>8, <1>9, <1>10, <1>11, <2>1
    <3>2. QED
      BY ZenonT(40), <1>2, <1>3, <2>1, <3>1 DEF OthersResume, Resumable
  <2>2. QED
    BY ZenonT(40), <1>3, <1>9, <2>1 DEF OthersResume
<1>21. m.at[r] = k.at[r] /\ Live(m, r)
  BY ZenonT(40), <1>2, <1>3, <1>8, <1>9, <1>11, <1>13
<1>22. Good(m, n)
  BY ZenonT(40), <1>1, <1>3, <1>9, <1>14, <1>16, <1>18, <1>19, <1>20, <1>21 DEF Good, Sound
<1>23. \A q \in Pids : m.at[q] = k.at[q] \/ m.at[q].loc = "killed"
  BY ZenonT(40), <1>8, <1>9
<1>24. Alone(k, m, n)
  BY <1>3, <1>9, <1>17, <1>21, <1>22, <1>23 DEF Alone
<1>25. QED
  BY <1>24 DEF m
=============================================================================
