------------------------- MODULE ProcessTableProofs -------------------------
(***************************************************************************)
(* The life of processes, for a table of any size and any number of        *)
(* processes: as long as no slot is used twice, no program ends before its *)
(* children and none ends its group in the kernel's address space, every   *)
(* system call finds its own PCB, every READY process can be resumed and   *)
(* the CPU is never lost.  Each of the three conditions is one of Workload.*)
(***************************************************************************)
EXTENDS ProcessTableLemmas

-----------------------------------------------------------------------------
(* The shell. *)

\* The shell goes on, or begins to wait for a program in the foreground.
LEMMA ShellMoves ==
  ASSUME NEW k, NEW n, Good(k, n), k.run = 0, NEW loc \in {"loop", "fg"}, NEW on \in Pids, NEW z \in Pids, z = 0,
         NEW m, m = Goes(k, z, loc, on)
  PROVE  Good(m, n) /\ Moved(k, m, z, loc, on)
<1>1. /\ k \in KernelType /\ n \in 1..(MaxPid + 1) /\ Occupied(k, n) /\ Families(k, n) /\ Flows(k, n)
      /\ k.cur = 0 /\ Live(k, 0) /\ Turns(k, 0) /\ OthersResume(k, n)
  BY DEF Good, Sound
<1>2. Moved(k, m, z, loc, on)
  <2>1. loc \in Locations
    BY DEF Locations
  <2>2. QED
    BY <1>1, <2>1, GoesIs
<1>3. /\ m \in KernelType /\ m.pcb = k.pcb /\ m.run = 0 /\ m.cur = 0 /\ m.sys = k.sys /\ m.at[0].loc = loc
      /\ \A q \in Pids : q # 0 => m.at[q] = k.at[q]
  BY ZenonT(40), <1>1, <1>2 DEF Moved
<1>4. Occupied(m, n) /\ Families(m, n) /\ Turns(m, 0) /\ Live(m, 0)
  BY <1>1, <1>3 DEF Occupied, Families, Turns, Live
<1>5. \A s \in 0..(n - 1) : s \in Slots /\ s \in Pids
  BY ZenonT(40), <1>1, SlotOfPid
<1>6. Flows(m, n)
  BY SMTT(30), Z3T(30), <1>1, <1>3, <1>5 DEF Flows, Live
<1>7. OthersResume(m, n)
  BY <1>1, <1>3, <1>5 DEF OthersResume, Live, Resumable
<1>8. m.sys \/ NoneWaits(m)
  BY ZenonT(40), <1>3 DEF Good, NoneWaits, Waiting
<1>9. Good(m, n)
  BY <1>1, <1>3, <1>4, <1>6, <1>7, <1>8 DEF Good, Sound
<1>10. QED
  BY <1>2, <1>9

\* process_switch_to, once both processes have been looked up.
SwitchOf(k, cur, me, r, s, pid) ==
    context_switch(Goes([k EXCEPT !.pcb[cur].state = "BLOCKED", !.pcb[s].state = "RUNNING", !.cur = pid], r, "fg", pid),
                   me, s)

\* The shell starts a program in the foreground: it is BLOCKED with a context to
\* come back to, and the program runs.
LEMMA SwitchToGood ==
  ASSUME NEW k, NEW n, Good(k, n), k.run = 0, NEW p \in 1..(n - 1), Live(k, p)
  PROVE  Good(process_switch_to(k, p), n) /\ EndsAs(k, process_switch_to(k, p), "fg")
<1>1. k \in KernelType /\ n \in 1..(MaxPid + 1) /\ k.cur = 0 /\ process_current(k) = 0 /\ Slot(k.pcb[0], 0)
  BY CurrentFound
<1>2. Occupied(k, n) /\ Turns(k, 0)
  BY DEF Good, Sound
<1>3. p \in Slots /\ p \in Pids /\ p # 0 /\ First({s \in Slots : k.pcb[s].state # "EMPTY" /\ k.pcb[s].pid = p}) = p
  <2>1. p \in 0..(n - 1) /\ k.pcb[p].state # "EMPTY"
    BY <1>1 DEF Live
  <2>2. /\ p \in Slots /\ p \in Pids
        /\ k.pcb[p].state # "EMPTY" => First({s \in Slots : k.pcb[s].state # "EMPTY" /\ k.pcb[s].pid = p}) = p
    <3>1. k \in KernelType /\ n \in 1..(MaxPid + 1) /\ Occupied(k, n) /\ p \in 0..(n - 1)
      BY <1>1, <1>2, <2>1
    <3>2. QED
      BY ZenonT(40), <3>1, SlotOfPid
  <2>3. QED
    BY <2>1, <2>2
<1>4. PICK z \in Pids : z = 0 /\ z \in Slots
  BY Sizes
<1> DEFINE m == process_switch_to(k, p)
           c1 == [k EXCEPT !.pcb[z].state = "BLOCKED"]
           c2 == [c1 EXCEPT !.pcb[p].state = "RUNNING"]
           c3 == [c2 EXCEPT !.cur = p]
           c4 == Goes(c3, z, "fg", p)
           ctx == Ctx(IF c4.pcb[z].is_user THEN "rbx" ELSE "cflow", c4.run)
           c5 == [c4 EXCEPT !.pcb[z].kernel_rsp = ctx]
<1>5. m = Resume(c5, p)
  <2>1. m = IF process_current(k) = None THEN Goes(k, k.run, "fg", p)
            ELSE SwitchOf(k, k.cur, process_current(k), k.run,
                          First({s \in Slots : k.pcb[s].state # "EMPTY" /\ k.pcb[s].pid = p}), p)
    BY ZenonT(40) DEF process_switch_to, SwitchOf
  <2>2. m = SwitchOf(k, z, z, z, p, p)
    BY <1>1, <1>3, <1>4, <2>1, Sizes
  <2>3. m = context_switch(c4, z, p)
    BY <2>2, Zenon DEF SwitchOf
  <2>4. QED
    BY <2>3, Zenon DEF context_switch
<1>6. PICK fg \in {"loop", "fg"} : fg = "fg" /\ c4 = Goes(c3, z, fg, p)
  OBVIOUS
<1> HIDE DEF m, c1, c2, c3, c4, c5, ctx
<1> DEFINE f == Goes(k, z, fg, p)
<1> HIDE DEF f
<1>7. Good(f, n) /\ Moved(k, f, z, fg, p)
  BY <1>3, <1>4, ShellMoves DEF f
<1>8. Changed(k, c1, z) /\ c1.pcb[z].state = "BLOCKED"
  <2>1. PICK v \in States : v = "BLOCKED" /\ c1 = WithState(k, z, v)
    BY DEF States, c1, WithState
  <2>2. c1 = WithState(k, z, v)
    BY <2>1
  <2>3. Changed(k, c1, z) /\ c1.pcb[z].state = v
    BY <1>1, <1>4, <2>2, SetState
  <2>4. QED
    BY <2>1, <2>3
<1>9. /\ Changed(c1, c2, p) /\ c2.pcb[p].state = "RUNNING"
      /\ c2.pcb[p].in_kern = c1.pcb[p].in_kern /\ c2.pcb[p].kernel_rsp = c1.pcb[p].kernel_rsp
  <2>1. PICK v \in States : v = "RUNNING" /\ c2 = WithState(c1, p, v)
    BY DEF States, c2, WithState
  <2>2. c2 = WithState(c1, p, v) /\ c1 \in KernelType
    BY <1>8, <2>1 DEF Changed
  <2>3. /\ Changed(c1, c2, p) /\ c2.pcb[p].state = v
        /\ c2.pcb[p].in_kern = c1.pcb[p].in_kern /\ c2.pcb[p].kernel_rsp = c1.pcb[p].kernel_rsp
    BY <1>3, <2>2, SetState
  <2>4. QED
    BY <2>1, <2>3
<1>10. c3 \in KernelType /\ c3.at = c2.at /\ c3.run = c2.run /\ c3.cur = p /\ c3.sys = c2.sys /\ c3.pcb = c2.pcb
  BY <1>3, <1>9, SetCur DEF c3, Changed
<1>11. Moved(c3, c4, z, fg, p)
  <2>1. c3 \in KernelType /\ fg \in Locations /\ c4 = Goes(c3, z, fg, p)
    BY <1>6, <1>10 DEF Locations
  <2>2. QED
    BY <1>3, <2>1, GoesIs
<1>12. Changed(c4, c5, z) /\ c5.pcb[z].kernel_rsp = ctx /\ c5.pcb[z].state = c4.pcb[z].state /\ ctx = Ctx("cflow", 0)
  <2>1. c4 \in KernelType /\ c5 = WithRsp(c4, z, ctx)
    BY SMTT(30), Z3T(30), <1>11 DEF Moved, c5, WithRsp
  <2>2. ~c4.pcb[z].is_user /\ c4.run = 0
    BY SMTT(30), Z3T(30), <1>1, <1>4, <1>8, <1>9, <1>10, <1>11 DEF Changed, SameSlots, Moved, Slot
  <2>3. ctx = Ctx("cflow", 0)
    BY <2>2 DEF ctx
  <2>4. ctx \in Contexts
    BY <2>3, Sizes DEF Ctx, Contexts
  <2>5. QED
    BY SMTT(30), Z3T(30), <1>4, <2>1, <2>3, <2>4, SetRsp
<1>13. /\ f.pcb = k.pcb /\ f.sys = k.sys /\ f.at = Placed(k.at, z, fg, p) /\ f.at[0].loc = "fg"
       /\ \A q \in Pids : q # 0 => f.at[q] = k.at[q]
  BY SMTT(30), Z3T(30), <1>4, <1>6, <1>7 DEF Moved
<1>14. c5.at = f.at
  BY ZenonT(40), <1>8, <1>9, <1>10, <1>11, <1>12, <1>13 DEF Changed, Moved
<1>15. /\ c5 \in KernelType /\ c5.cur = p /\ c5.sys = f.sys /\ SameSlots(f, c5)
       /\ \A s \in Slots \ {z, p} : c5.pcb[s] = f.pcb[s]
       /\ c5.pcb[p].in_kern = f.pcb[p].in_kern /\ c5.pcb[p].kernel_rsp = f.pcb[p].kernel_rsp
       /\ c5.pcb[p].state = "RUNNING" /\ c5.pcb[z].state = "BLOCKED"
  <2>1. SameSlots(f, c5)
    <3>1. SameSlots(f, c1)
      BY ZenonT(40), <1>8, <1>13 DEF Changed, SameSlots
    <3>2. SameSlots(f, c2)
      BY ZenonT(40), <1>9, <3>1, SameSlotsTwice DEF Changed
    <3>3. SameSlots(f, c4)
      <4>1. c4.pcb = c2.pcb
        BY ZenonT(40), <1>10, <1>11 DEF Moved
      <4>2. QED
        BY ZenonT(40), <3>2, <4>1 DEF SameSlots
    <3>4. QED
      BY ZenonT(40), <1>12, <3>3, SameSlotsTwice DEF Changed
  <2>2. \A s \in Slots \ {z, p} : c5.pcb[s] = f.pcb[s]
    <3>1. ASSUME NEW s \in Slots, s # z, s # p PROVE c5.pcb[s] = f.pcb[s]
      <4>1. c1.pcb[s] = k.pcb[s] /\ c2.pcb[s] = c1.pcb[s]
        BY ZenonT(40), <1>8, <1>9, <3>1 DEF Changed
      <4>2. c3.pcb[s] = c2.pcb[s] /\ c4.pcb[s] = c3.pcb[s]
        BY ZenonT(40), <1>10, <1>11 DEF Moved
      <4>3. c5.pcb[s] = c4.pcb[s] /\ f.pcb[s] = k.pcb[s]
        BY ZenonT(40), <1>12, <1>13, <3>1 DEF Changed
      <4>4. QED
        BY ZenonT(40), <4>1, <4>2, <4>3
    <3>2. QED
      BY ZenonT(40), <3>1
  <2>3. c5.pcb[p].in_kern = f.pcb[p].in_kern /\ c5.pcb[p].kernel_rsp = f.pcb[p].kernel_rsp /\ c5.pcb[p].state = "RUNNING"
    <3>1. c1.pcb[p] = f.pcb[p]
      BY ZenonT(40), <1>3, <1>4, <1>8, <1>13 DEF Changed
    <3>2. c3.pcb[p] = c2.pcb[p] /\ c4.pcb[p] = c3.pcb[p]
      BY ZenonT(40), <1>10, <1>11 DEF Moved
    <3>3. c5.pcb[p] = c4.pcb[p]
      BY ZenonT(40), <1>3, <1>4, <1>12 DEF Changed
    <3>4. QED
      BY ZenonT(40), <1>9, <3>1, <3>2, <3>3
  <2>4. c5.pcb[z].state = "BLOCKED"
    <3>1. c2.pcb[z] = c1.pcb[z]
      BY ZenonT(40), <1>3, <1>4, <1>9 DEF Changed
    <3>2. c3.pcb[z] = c2.pcb[z] /\ c4.pcb[z] = c3.pcb[z]
      BY ZenonT(40), <1>10, <1>11 DEF Moved
    <3>3. QED
      BY ZenonT(40), <1>8, <1>12, <3>1, <3>2
  <2>5. QED
    BY ZenonT(40), <1>8, <1>9, <1>10, <1>11, <1>12, <1>13, <2>1, <2>2, <2>3, <2>4 DEF Changed, Moved
<1>16. \A s \in Slots : /\ Live(c5, s) <=> Live(f, s)
                        /\ c5.pcb[s].state = "ZOMBIE" <=> f.pcb[s].state = "ZOMBIE"
  <2>1. Live(f, 0) /\ Live(f, p)
    BY <1>13 DEF Good, Live
  <2>2. QED
    BY SMTT(30), Z3T(30), <1>4, <1>15, <2>1 DEF Live
<1>17. Turns(c5, p)
  BY SMTT(30), Z3T(30), <1>2, <1>3, <1>4, <1>13, <1>15 DEF Turns
<1>18. Resumable(c5, z)
  BY SMTT(30), Z3T(30), <1>1, <1>4, <1>12, <1>13, <1>14, <1>15 DEF Resumable, SameSlots, Slot
<1>19. Saved(f, c5, n, z, p)
  BY SMTT(30), Z3T(30), <1>14, <1>15, <1>16, <1>17, <1>18 DEF Saved
<1>20. Good(Resume(c5, p), n) /\ Starts(f, Resume(c5, p))
  <2>1. \A s \in 0..(n - 1) : s # z /\ Live(f, s) => Resumable(f, s)
    BY SMTT(30), Z3T(30), <1>4, <1>7, <1>13 DEF Good, OthersResume, Moved
  <2>2. Sound(f, n) /\ (f.sys \/ NoneWaits(f)) /\ Live(f, p)
    <3>1. f.run = 0
      BY <1>7 DEF Moved
    <3>2. QED
      BY <1>7, <1>13, <3>1 DEF Good, Live
  <2>3. z \in 0..(n - 1) /\ p \in 0..(n - 1) /\ p # z
    BY <1>1, <1>3, <1>4
  <2>4. QED
    BY ZenonT(40), <1>19, <2>1, <2>2, <2>3, SavedGood
<1>21. Good(m, n) /\ Starts(f, m)
  BY SMTT(30), Z3T(30), <1>5, <1>20
<1>22. EndsAs(k, m, "fg")
  BY <1>4, <1>13, <1>21 DEF Starts, EndsAs
<1>23. QED
  BY <1>21, <1>22 DEF m

-----------------------------------------------------------------------------
(* wait4. *)

\* The zombie c is taken out of the table.
LEMMA ReapedGood ==
  ASSUME NEW k, NEW n, Good(k, n), NEW c \in 0..(n - 1), k.pcb[c].state = "ZOMBIE",
         NEW m, m = Goes([k EXCEPT !.pcb[c].state = "EMPTY"], c, "reaped", 0)
  PROVE  Good(m, n) /\ m.run = k.run /\ m.at[c].loc = "reaped" /\ \A q \in Pids : q # c => m.at[q] = k.at[q]
<1>1. /\ k \in KernelType /\ n \in 1..(MaxPid + 1) /\ Occupied(k, n) /\ Families(k, n) /\ Flows(k, n)
      /\ k.run \in 0..(n - 1) /\ k.cur = k.run /\ Live(k, k.run) /\ Turns(k, k.run) /\ OthersResume(k, n)
  BY DEF Good, Sound
<1>2. \A s \in 0..(n - 1) : s \in Slots /\ s \in Pids
  BY ZenonT(40), <1>1, SlotOfPid
<1>3. c \in Slots /\ c \in Pids /\ k.run \in Slots /\ k.run \in Pids /\ c # k.run
  BY <1>1, <1>2 DEF Live
<1> DEFINE k1 == [k EXCEPT !.pcb[c].state = "EMPTY"]
<1>4. PICK loc \in Locations, on \in Pids, v \in States :
        loc = "reaped" /\ v = "EMPTY" /\ m = Goes(k1, c, loc, on) /\ k1 = WithState(k, c, v)
  BY Sizes DEF Locations, States, WithState
<1> HIDE DEF k1
<1>5. Changed(k, k1, c) /\ k1.pcb[c].state = "EMPTY"
  <2>1. k1 = WithState(k, c, v)
    BY <1>4
  <2>2. Changed(k, k1, c) /\ k1.pcb[c].state = v
    BY <1>1, <1>3, <2>1, SetState
  <2>3. QED
    BY <1>4, <2>2
<1>6. Moved(k1, m, c, loc, on)
  <2>1. k1 \in KernelType /\ m = Goes(k1, c, loc, on)
    BY ZenonT(40), <1>4, <1>5 DEF Changed
  <2>2. QED
    BY <1>3, <2>1, GoesIs
<1>7. /\ m \in KernelType /\ m.run = k.run /\ m.cur = k.cur /\ m.sys = k.sys /\ SameSlots(k, m)
      /\ m.pcb[c].state = "EMPTY" /\ (\A s \in Slots : s # c => m.pcb[s] = k.pcb[s])
      /\ m.at[c].loc = "reaped" /\ \A q \in Pids : q # c => m.at[q] = k.at[q]
  BY SMTT(30), Z3T(30), <1>4, <1>5, <1>6 DEF Changed, Moved, SameSlots
<1>8. Occupied(m, n)
  <2>1. \A s \in Slots : s >= n => m.pcb[s] = k.pcb[s]
    BY <1>1, <1>7
  <2>2. QED
    BY SMTT(30), Z3T(30), <1>1, <1>7, <2>1, OccupiedKept
<1>9. \A s \in Slots : Live(m, s) <=> Live(k, s)
  BY <1>7 DEF Live
<1>10. Families(m, n)
  <2>1. \A s \in 1..(n - 1) : s \in Slots /\ k.pcb[s].parent_pid \in Slots /\ m.pcb[s].parent_pid = k.pcb[s].parent_pid
    <3>1. \A s \in 1..(n - 1) : s \in Slots
      BY <1>2
    <3>2. QED
      BY ZenonT(40), <1>1, <1>7, <3>1, Sizes DEF KernelType, PcbType, SameSlots
  <2>2. QED
    BY <1>1, <1>9, <2>1, Sizes DEF Families
<1>11. Flows(m, n)
  <2>1. ASSUME NEW q \in Pids
        PROVE  /\ m.at[q].loc # "hlt"
               /\ m.at[q].loc = "wait" => m.at[q].on < n /\ m.at[q].on # q /\ m.pcb[m.at[q].on].parent_pid = q
    <3>1. CASE q = c
      BY <1>7, <3>1
    <3>2. CASE q # c
      <4>1. m.at[q] = k.at[q] /\ k.at[q].on \in Slots
        BY ZenonT(40), <1>1, <1>7, <3>2, Sizes DEF KernelType
      <4>2. m.pcb[k.at[q].on].parent_pid = k.pcb[k.at[q].on].parent_pid
        BY ZenonT(40), <1>7, <4>1 DEF SameSlots
      <4>3. QED
        BY ZenonT(40), <1>1, <4>1, <4>2 DEF Flows
    <3>3. QED
      BY ZenonT(40), <3>1, <3>2
  <2>2. ASSUME NEW s \in 0..(n - 1), m.pcb[s].state = "ZOMBIE" PROVE m.at[s].loc = "zombie"
    BY SMTT(30), Z3T(30), <1>1, <1>2, <1>7, <2>2 DEF Flows
  <2>3. QED
    BY ZenonT(40), <2>1, <2>2 DEF Flows
<1>12. Turns(m, k.run)
  BY SMTT(30), Z3T(30), <1>1, <1>7 DEF Turns
<1>13. OthersResume(m, n)
  <2>1. ASSUME NEW s \in 0..(n - 1), s # k.run, Live(m, s) PROVE Resumable(m, s)
    <3>1. s # c /\ s \in Slots /\ s \in Pids /\ Live(k, s)
      BY ZenonT(40), <1>2, <1>7, <1>9, <2>1 DEF Live
    <3>2. QED
      BY SMTT(30), Z3T(30), <1>1, <1>7, <2>1, <3>1 DEF OthersResume, Resumable
  <2>2. QED
    BY SMTT(30), Z3T(30), <1>7, <2>1 DEF OthersResume
<1>14. m.sys \/ m.at[m.run].loc = "user" \/ NoneWaits(m)
  BY SMTT(30), Z3T(30), <1>3, <1>7 DEF Good, NoneWaits, Waiting
<1>15. m.at[m.run] = k.at[k.run] /\ Live(m, m.run)
  BY ZenonT(40), <1>1, <1>3, <1>7, <1>9
<1>16. Good(m, n)
  BY ZenonT(40), <1>1, <1>7, <1>8, <1>10, <1>11, <1>12, <1>13, <1>14, <1>15 DEF Good, Sound
<1>17. QED
  BY <1>7, <1>16

\* What one look of wait4 does: it reaps its child, a zombie, and comes back, or
\* it reaps nothing and does not come back.
Looked(k, m) ==
    LET c == k.at[k.run].on
    IN  \/ /\ k.pcb[c].pid = c /\ k.pcb[c].parent_pid = k.run /\ k.at[c].loc = "zombie" /\ c # k.run
           /\ m.at[c].loc = "reaped" /\ m.at[k.run].loc = "user"
           /\ \A q \in Pids : q # c /\ q # k.run => m.at[q] = k.at[q]
        \/ Starts(k, m)

\* One turn of proc_waitpid.
LEMMA WaitGood ==
  ASSUME NEW k, NEW n, Good(k, n), k.run # 0, k.at[k.run].loc = "wait"
  PROVE  Good(proc_waitpid(k), n) /\ Looked(k, proc_waitpid(k))
<1>1. /\ k \in KernelType /\ n \in 1..(MaxPid + 1) /\ k.run \in Pids /\ Occupied(k, n) /\ Flows(k, n)
  BY CurrentFound DEF Good, Sound
<1>2. PICK c : c = k.at[k.run].on
  OBVIOUS
<1>3. c \in 0..(n - 1) /\ c # k.run /\ k.pcb[c].parent_pid = k.run
  <2>1. c \in Pids /\ c < n /\ c # k.run /\ k.pcb[c].parent_pid = k.run
    BY ZenonT(40), <1>1, <1>2 DEF Flows, KernelType
  <2>2. QED
    BY <1>1, <2>1, Sizes DEF Pids
<1>4. c \in Slots /\ c \in Pids /\ k.pcb[c].pid = c /\ First({t \in Slots : k.pcb[t].pid = c}) = c /\ c # None
  <2>1. c \in Slots /\ c \in Pids /\ Slot(k.pcb[c], c) /\ First({t \in Slots : k.pcb[t].pid = c}) = c
    BY ZenonT(40), <1>1, <1>3, SlotOfPid
  <2>2. QED
    BY <2>1, Sizes DEF Slot
<1> DEFINE e == Goes([k EXCEPT !.pcb[c].state = "EMPTY"], c, "reaped", 0)
<1>5. proc_waitpid(k) = IF k.pcb[c].state = "ZOMBIE" THEN Returned(e) ELSE schedule(k)
  BY <1>2, <1>4, Zenon DEF proc_waitpid
<1>6. CASE k.pcb[c].state = "ZOMBIE"
  <2> HIDE DEF e
  <2>1. Good(e, n) /\ e.run = k.run /\ e.at[c].loc = "reaped" /\ \A q \in Pids : q # c => e.at[q] = k.at[q]
    BY <1>3, <1>6, ReapedGood DEF e
  <2>2. Good(Returned(e), n) /\ Comes(e, Returned(e), "user")
    BY <2>1, ReturnedGood
  <2>3. Returned(e).at[k.run].loc = "user" /\ \A q \in Pids : q # k.run => Returned(e).at[q] = e.at[q]
    BY <2>1, <2>2 DEF Comes
  <2>4. k.at[c].loc = "zombie"
    BY <1>1, <1>3, <1>6 DEF Flows
  <2>5. Looked(k, Returned(e))
    BY ZenonT(40), <1>2, <1>3, <1>4, <2>1, <2>3, <2>4 DEF Looked
  <2>6. QED
    BY SMTT(30), Z3T(30), <1>5, <1>6, <2>2, <2>5
<1>7. CASE k.pcb[c].state # "ZOMBIE"
  <2>1. Good(schedule(k), n) /\ Starts(k, schedule(k))
    BY ScheduleGood
  <2>2. QED
    BY <1>5, <1>7, <2>1 DEF Looked
<1>8. QED
  BY <1>6, <1>7

-----------------------------------------------------------------------------
(* The steps. *)

\* Nobody is reaped and no wait4 comes back.
Quiet(k, m) == \A q \in Pids : /\ m.at[q].loc = "reaped" => k.at[q].loc = "reaped"
                               /\ m.at[q].loc = "user" => k.at[q].loc # "wait"

\* What WaitReaps says of a step from k to m.
Reaps(k, m) ==
    \A p \in Pids :
        /\ k.at[p].loc # "reaped" /\ m.at[p].loc = "reaped" =>
             k.at[p].loc = "zombie" /\ \E s \in Slots : k.pcb[s].pid = p /\ k.pcb[s].parent_pid = k.run
        /\ k.at[p].loc = "wait" /\ m.at[p].loc = "user" => m.at[k.at[p].on].loc = "reaped"

\* A step that reaps nobody and ends no wait reaps as it should.
LEMMA QuietReaps ==
  ASSUME NEW k, NEW m, Quiet(k, m)
  PROVE  Reaps(k, m)
  BY DEF Quiet, Reaps

\* Starting a process reaps nobody.
LEMMA StartsQuiet ==
  ASSUME NEW k, NEW m, Starts(k, m)
  PROVE  Quiet(k, m)
  BY DEF Quiet, Starts

\* A flow that comes to a place other than "reaped" reaps nobody.
LEMMA ComesQuiet ==
  ASSUME NEW k, NEW m, k.run \in Pids, NEW loc, Comes(k, m, loc), loc # "reaped", k.at[k.run].loc # "wait"
  PROVE  Quiet(k, m)
  BY DEF Quiet, Comes

\* The end of a process leaves it a zombie, not reaped.
LEMMA EndsQuiet ==
  ASSUME NEW k, NEW m, k.run \in Pids, NEW loc, EndsAs(k, m, loc), loc \notin {"reaped", "user"}
  PROVE  Quiet(k, m)
  BY DEF Quiet, EndsAs

\* One turn of proc_waitpid reaps the zombie it waits for, or nobody.
LEMMA LookedReaps ==
  ASSUME NEW k, NEW m, NEW n, Good(k, n), Looked(k, m), k.at[k.run].loc = "wait"
  PROVE  Reaps(k, m)
<1>1. k \in KernelType /\ k.run \in Pids
  BY CurrentFound
<1>2. CASE Starts(k, m)
  BY <1>2, QuietReaps, StartsQuiet
<1>3. CASE ~Starts(k, m)
  <2>1. PICK c \in Pids : c = k.at[k.run].on
    BY <1>1 DEF KernelType
  <2>2. /\ k.pcb[c].pid = c /\ k.pcb[c].parent_pid = k.run /\ k.at[c].loc = "zombie" /\ c # k.run
        /\ m.at[c].loc = "reaped" /\ m.at[k.run].loc = "user"
        /\ \A q \in Pids : q # c /\ q # k.run => m.at[q] = k.at[q]
    BY ZenonT(40), <1>3, <2>1 DEF Looked
  <2>3. QED
    BY ZenonT(40), <1>1, <2>1, <2>2, Sizes DEF Reaps
<1>4. QED
  BY <1>2, <1>3

\* The variables after a step are those of the kernel it computes.
LEMMA BecomeIs ==
  ASSUME NEW m \in KernelType, Become(m)
  PROVE  Kernel' = m
  BY DEF KernelType, Become, Kernel

\* A step that leads from the kernel to m and gives no pid away.
LEMMA StepGood ==
  ASSUME Table, NEW m, Good(m, next_pid), Reaps(Kernel, m), Become(m),
         UNCHANGED <<next_pid, pcb_count>>, need_sched' \in BOOLEAN
  PROVE  Table' /\ Reaps(Kernel, Kernel')
<1>1. Kernel' = m
  BY BecomeIs DEF Good, Sound
<1>2. Good(Kernel', next_pid') /\ Reaps(Kernel, Kernel')
  BY <1>1
<1>3. QED
  BY <1>2 DEF Table

\* A step that creates a process.
LEMMA CreationGood ==
  ASSUME Table, NEW m, next_pid \in Pids, Good(m, next_pid + 1), Reaps(Kernel, m), Become(m),
         NEW s, s = next_pid, Counted(s), UNCHANGED need_sched
  PROVE  Table' /\ Reaps(Kernel, Kernel')
<1>1. Kernel' = m
  BY BecomeIs DEF Good, Sound
<1>2. next_pid' = next_pid + 1 /\ pcb_count' = next_pid + 1
  <2>1. next_pid \in Int /\ pcb_count = next_pid
    BY Sizes DEF Table, Pids
  <2>2. Max({next_pid, next_pid + 1}) = next_pid + 1
    BY <2>1, MaxOfTwo
  <2>3. QED
    BY <2>1, <2>2 DEF Counted
<1>3. Good(Kernel', next_pid') /\ Reaps(Kernel, Kernel')
  BY <1>1, <1>2
<1>4. QED
  BY <1>2, <1>3 DEF Table

\* The fields of the kernel.
LEMMA KernelIs ==
  /\ Kernel.pcb = pcb /\ Kernel.at = at /\ Kernel.run = run /\ Kernel.cur = current_pid /\ Kernel.sys = g_in_syscall
  BY DEF Kernel

\* A program runs: it is not the shell.
LEMMA InUserIs ==
  ASSUME Table, InUser
  PROVE  /\ Good(Kernel, next_pid) /\ run # 0 /\ run \in Pids /\ run \in 1..(next_pid - 1)
         /\ process_current(Kernel) = run /\ Slot(pcb[run], run)
<1>1. Good(Kernel, next_pid)
  BY DEF Table
<1>2. run # 0
  BY <1>1, KernelIs DEF Good, InUser
<1>3. run \in Pids /\ run \in 0..(next_pid - 1) /\ process_current(Kernel) = run /\ next_pid \in Int /\ Slot(pcb[run], run)
  BY <1>1, CurrentFound, KernelIs
<1>4. QED
  BY <1>1, <1>2, <1>3

\* A turn of a waiting system call, and its return.
LEMMA PollStep ==
  ASSUME Table, Stays, run # 0, NEW loc \in Waiting, Polls(loc),
         \/ Become(schedule(Kernel))
         \/ Become(Returned(Kernel)) /\ loc # "wait"
         \/ Become(proc_waitpid(Kernel)) /\ loc = "wait"
  PROVE  Table' /\ Reaps(Kernel, Kernel')
<1>1. PICK k : k = Kernel
  OBVIOUS
<1>2. Good(k, next_pid) /\ k.run # 0 /\ k.at[k.run].loc = loc /\ loc # "user" /\ k.run \in Pids
  <2>1. Good(Kernel, next_pid) /\ run # 0 /\ at[run].loc = loc /\ loc # "user"
    BY DEF Table, Polls, Waiting
  <2>2. QED
    BY SMTT(30), Z3T(30), <1>1, <2>1, KernelIs, CurrentFound
<1>3. UNCHANGED <<next_pid, pcb_count>> /\ need_sched' \in BOOLEAN
  BY DEF Stays, Table
<1>4. CASE Become(schedule(Kernel))
  <2>1. Good(schedule(k), next_pid) /\ Starts(k, schedule(k))
    BY <1>2, ScheduleGood
  <2>2. Reaps(k, schedule(k))
    BY <2>1, StartsQuiet, QuietReaps
  <2>3. PICK m : m = schedule(k)
    OBVIOUS
  <2>4. Good(m, next_pid) /\ Reaps(Kernel, m) /\ Become(m)
    BY ZenonT(40), <1>1, <1>4, <2>1, <2>2, <2>3
  <2>5. QED
    BY <1>3, <2>4, StepGood
<1>5. CASE Become(Returned(Kernel)) /\ loc # "wait"
  <2>1. Good(Returned(k), next_pid) /\ Comes(k, Returned(k), "user")
    BY <1>2, ReturnedGood
  <2>2. Quiet(k, Returned(k))
    BY <1>2, <1>5, <2>1, ComesQuiet
  <2>3. PICK m : m = Returned(k)
    OBVIOUS
  <2>4. Good(m, next_pid) /\ Reaps(Kernel, m) /\ Become(m)
    BY ZenonT(40), <1>1, <1>5, <2>1, <2>2, <2>3, QuietReaps
  <2>5. QED
    BY <1>3, <2>4, StepGood
<1>6. CASE Become(proc_waitpid(Kernel)) /\ loc = "wait"
  <2>1. Good(proc_waitpid(k), next_pid) /\ Looked(k, proc_waitpid(k))
    BY <1>2, <1>6, WaitGood
  <2>2. Reaps(k, proc_waitpid(k))
    BY <1>2, <1>6, <2>1, LookedReaps
  <2>3. PICK m : m = proc_waitpid(k)
    OBVIOUS
  <2>4. Good(m, next_pid) /\ Reaps(Kernel, m) /\ Become(m)
    BY <1>1, <1>6, <2>1, <2>2, <2>3
  <2>5. QED
    BY <1>3, <2>4, StepGood
<1>7. QED
  BY <1>4, <1>5, <1>6

\* The shell's own steps that create nothing.
LEMMA ShellStep ==
  ASSUME Table, kmain_loop \/ exec_returns
  PROVE  Table' /\ Reaps(Kernel, Kernel')
<1>1. PICK k : k = Kernel
  OBVIOUS
<1>2. Good(k, next_pid) /\ k.run = 0 /\ k.at[0].loc \in {"loop", "fg"}
  BY <1>1, KernelIs DEF Table, kmain_loop, exec_returns, ShellAt
<1>3. UNCHANGED <<next_pid, pcb_count>> /\ need_sched' \in BOOLEAN
  BY ZenonT(40) DEF kmain_loop, exec_returns, Stays, Table
<1>4. CASE kmain_loop
  <2>1. Good(schedule(k), next_pid) /\ Starts(k, schedule(k))
    BY <1>2, ScheduleGood
  <2>2. Reaps(k, schedule(k))
    BY <2>1, StartsQuiet, QuietReaps
  <2>3. PICK m : m = schedule(k)
    OBVIOUS
  <2>4. Good(m, next_pid) /\ Reaps(Kernel, m) /\ Become(m)
    BY <1>1, <1>4, <2>1, <2>2, <2>3 DEF kmain_loop
  <2>5. QED
    BY <1>3, <2>4, StepGood
<1>5. CASE exec_returns
  <2> DEFINE m == Goes(k, 0, "loop", 0)
  <2>1. PICK loc \in {"loop", "fg"}, z \in Pids : loc = "loop" /\ z = 0 /\ m = Goes(k, z, loc, z)
    BY Sizes
  <2> HIDE DEF m
  <2>2. m = Goes(k, z, loc, z) /\ z = 0
    BY <2>1
  <2>3. Good(m, next_pid) /\ Moved(k, m, z, loc, z)
    BY <1>2, <2>2, ShellMoves
  <2>4. Comes(k, m, loc) /\ k.run \in Pids
    BY <1>2, <2>2, <2>3 DEF Comes, Moved
  <2>5. Quiet(k, m)
    BY SMTT(30), Z3T(30), <1>2, <2>4, ComesQuiet
  <2>6. Good(m, next_pid) /\ Reaps(Kernel, m) /\ Become(m)
    BY ZenonT(40), <1>1, <1>5, <2>3, <2>5, QuietReaps DEF exec_returns, m
  <2>7. QED
    BY <1>3, <2>6, StepGood
<1>6. QED
  BY <1>4, <1>5

\* The first look of a wait4 that begins.
LEMMA LookedFrom ==
  ASSUME NEW k, NEW k1, NEW m, NEW n, Good(k1, n), Looked(k1, m), k1.run = k.run, k1.pcb = k.pcb,
         Comes(k, k1, "wait"), k.at[k.run].loc = "user"
  PROVE  Reaps(k, m)
<1>1. Reaps(k1, m) /\ k1.at[k.run].loc = "wait" /\ \A q \in Pids : q # k.run => k1.at[q] = k.at[q]
  BY LookedReaps DEF Comes
<1>2. k.run \in Pids
  BY CurrentFound
<1>3. m.at[k.run].loc # "reaped"
  BY ZenonT(40), <1>1, <1>2 DEF Looked, Starts
<1>4. QED
  BY <1>1, <1>2, <1>3 DEF Reaps

\* A system call that begins to wait for anything but a child.
LEMMA BeginStep ==
  ASSUME Table, NEW loc \in {"join", "read"}, NEW on \in Pids, Begin(loc, on)
  PROVE  Table' /\ Reaps(Kernel, Kernel')
<1>1. PICK k : k = Kernel
  OBVIOUS
<1>2. Good(k, next_pid) /\ k.run # 0 /\ k.at[k.run].loc = "user" /\ k.run \in Pids /\ k.run = run
  BY <1>1, InUserIs, KernelIs DEF Begin, InUser
<1>3. UNCHANGED <<next_pid, pcb_count>> /\ need_sched' \in BOOLEAN
  BY DEF Begin, Stays, Table
<1> DEFINE k1 == Goes(Entered(k), k.run, loc, on)
           m == schedule(k1)
<1>4. Become(m)
  BY <1>1, <1>2 DEF Begin
<1> HIDE DEF k1, m
<1>5. Good(k1, next_pid) /\ Comes(k, k1, loc) /\ k1.run = k.run
  <2>1. loc \in Waiting /\ loc # "wait" /\ k1 = Goes(Entered(k), k.run, loc, on)
    BY DEF Waiting, k1
  <2>2. QED
    BY <1>2, <2>1, EnteredGood
<1>6. Good(m, next_pid) /\ Starts(k1, m)
  <2>1. k1.at[k1.run].loc # "user"
    BY <1>5 DEF Comes
  <2>2. QED
    BY <1>5, <2>1, ScheduleGood DEF m
<1>7. Quiet(k, m)
  BY <1>2, <1>5, <1>6 DEF Comes, Starts, Quiet
<1>8. Reaps(Kernel, m)
  BY <1>1, <1>7, QuietReaps
<1>9. QED
  BY <1>3, <1>4, <1>6, <1>8, StepGood

\* A wait4 that begins looks for its child at once.
LEMMA WaitBegins ==
  ASSUME Table, sys_wait4
  PROVE  Table' /\ Reaps(Kernel, Kernel')
<1>1. PICK k : k = Kernel
  OBVIOUS
<1>2. PICK s \in Slots :
        /\ pcb[s].state # "EMPTY" /\ pcb[s].parent_pid = run /\ pcb[s].pid # run /\ InUser /\ Stays
        /\ Become(proc_waitpid(Goes(Entered(Kernel), run, "wait", pcb[s].pid)))
  BY ZenonT(40) DEF sys_wait4
<1>3. /\ Good(k, next_pid) /\ k.run # 0 /\ k.at[k.run].loc = "user" /\ k.run \in Pids /\ k.run = run
      /\ k.pcb = pcb /\ k \in KernelType /\ Occupied(k, next_pid) /\ next_pid \in 1..(MaxPid + 1)
  BY ZenonT(40), <1>1, <1>2, InUserIs, KernelIs DEF InUser, Good, Sound
<1>4. s < next_pid /\ pcb[s].pid = s /\ s \in Pids
  <2>1. s < next_pid
    BY <1>2, <1>3 DEF Occupied, EmptyPcb
  <2>2. QED
    BY SMTT(30), Z3T(30), <1>3, <2>1, Sizes DEF Occupied, Slot, Slots, Pids
<1>5. UNCHANGED <<next_pid, pcb_count>> /\ need_sched' \in BOOLEAN
  BY <1>2 DEF Stays, Table
<1> DEFINE k1 == Goes(Entered(k), k.run, "wait", s)
           m == proc_waitpid(k1)
<1>6. Become(m)
  BY <1>1, <1>2, <1>3, <1>4
<1>7. PICK loc \in Waiting : loc = "wait" /\ k1 = Goes(Entered(k), k.run, loc, s)
  BY DEF Waiting
<1> HIDE DEF k1, m
<1>8. Good(k1, next_pid) /\ Comes(k, k1, loc) /\ k1.run = k.run /\ k1.pcb = k.pcb
  <2>1. s < next_pid /\ s # k.run /\ k.pcb[s].parent_pid = k.run
    BY <1>2, <1>3, <1>4
  <2>2. k1 = Goes(Entered(k), k.run, loc, s)
    BY <1>7
  <2>3. QED
    BY SMTT(30), Z3T(30), <1>3, <1>4, <2>1, <2>2, EnteredGood
<1>9. Good(m, next_pid) /\ Looked(k1, m)
  <2>1. k1.run # 0 /\ k1.at[k1.run].loc = "wait"
    BY ZenonT(40), <1>3, <1>7, <1>8 DEF Comes
  <2>2. QED
    BY ZenonT(40), <1>8, <2>1, WaitGood DEF m
<1>10. Reaps(Kernel, m)
  BY ZenonT(40), <1>1, <1>3, <1>7, <1>8, <1>9, LookedFrom
<1>11. QED
  BY <1>5, <1>6, <1>9, <1>10, StepGood

\* A system call has begun; nothing else has changed.
Within(k, e, n) == Good(e, n) /\ e.run = k.run /\ e.pcb = k.pcb /\ e.at = k.at /\ e.sys /\ e.run # 0 /\ e.run \in Pids

\* Entering a system call keeps the table good.
LEMMA EnteredWithin ==
  ASSUME NEW k, NEW n, Good(k, n), k.run # 0, k.at[k.run].loc = "user"
  PROVE  Within(k, Entered(k), n)
<1> DEFINE e == Entered(k)
<1>1. k \in KernelType /\ k.run \in Pids
  BY CurrentFound
<1>2. e \in KernelType /\ e.pcb = k.pcb /\ e.at = k.at /\ e.run = k.run /\ e.cur = k.cur /\ e.sys
  BY ZenonT(40), <1>1 DEF Entered, KernelType
<1> HIDE DEF e
<1>3. Good(e, n)
  BY <1>1, <1>2, MovedGood
<1>4. Within(k, e, n)
  BY <1>1, <1>2, <1>3 DEF Within
<1>5. QED
  BY <1>4 DEF e

\* Without orphans, the live children of those that end end with them.
LEMMA ChildrenEnd ==
  ASSUME Table, "orphan" \notin Workload, NEW P, MayEnd(P), NEW s \in 1..(next_pid - 1), Live(Kernel, s),
         pcb[s].parent_pid \in P
  PROVE  s \in P
<1>1. Good(Kernel, next_pid) /\ Kernel.pcb = pcb
  BY KernelIs DEF Table
<1>2. Occupied(Kernel, next_pid) /\ Kernel \in KernelType /\ next_pid \in 1..(MaxPid + 1)
  BY <1>1 DEF Good, Sound
<1>3. s \in Slots /\ Slot(pcb[s], s)
  <2>1. s \in 0..(next_pid - 1)
    BY <1>2
  <2>2. QED
    BY ZenonT(40), <1>1, <1>2, <2>1, SlotOfPid
<1>4. PICK p \in P : p = pcb[s].parent_pid
  OBVIOUS
<1>5. pcb[s].pid = s /\ s # p
  BY SMTT(30), Z3T(30), <1>2, <1>3, <1>4 DEF Slot
<1>6. s \in Children(p)
  BY <1>1, <1>3, <1>4, <1>5 DEF Children, Live
<1>7. Children(p) \subseteq {t \in Slots : pcb[t].pid \in P}
  BY DEF MayEnd
<1>8. QED
  BY <1>5, <1>6, <1>7

\* Whether the running process is a thread.
LEMMA ThreadIs ==
  ASSUME NEW k, NEW n, Good(k, n)
  PROVE  IsThread(k) <=> k.pcb[k.run].th_parent_pid # None
<1>1. /\ k \in KernelType /\ k.run \in Slots /\ process_current(k) = k.run /\ k.run # None
  BY CurrentFound, Sizes
<1>2. k.pcb[k.run].th_parent_pid \in Pids \cup {None}
  BY <1>1 DEF KernelType, PcbType
<1>3. (k.pcb[k.run].th_parent_pid >= 0) <=> k.pcb[k.run].th_parent_pid # None
  BY <1>2, Sizes DEF Pids, None
<1>4. QED
  BY <1>1, <1>3 DEF IsThread

\* The running process ends alone, as a thread or as a process.
LEMMA EndStep ==
  ASSUME Table, "orphan" \notin Workload, InUser, MayEnd({run}), UNCHANGED <<next_pid, pcb_count, need_sched>>,
         Become(IF IsThread(Entered(Kernel)) THEN proc_thread_exit(Entered(Kernel))
                ELSE process_exit_current(Entered(Kernel)))
  PROVE  Table' /\ Reaps(Kernel, Kernel')
<1>1. PICK k : k = Kernel
  OBVIOUS
<1>2. PICK e : e = Entered(k)
  OBVIOUS
<1>3. Good(k, next_pid) /\ k.run # 0 /\ k.at[k.run].loc = "user" /\ k.run = run /\ k.pcb = pcb
  BY ZenonT(40), <1>1, InUserIs, KernelIs DEF InUser
<1>4. Within(k, e, next_pid)
  BY <1>2, <1>3, EnteredWithin
<1>5. UNCHANGED <<next_pid, pcb_count>> /\ need_sched' \in BOOLEAN
  BY DEF Table
<1>6. Good(e, next_pid) /\ e.run = k.run /\ e.pcb = k.pcb /\ e.at = k.at /\ e.sys /\ e.run # 0 /\ e.run \in Pids
  BY <1>4 DEF Within
<1>7. Childless(e, next_pid)
  <2>1. ASSUME NEW s \in 1..(next_pid - 1), Live(e, s), e.pcb[s].parent_pid = e.run PROVE FALSE
    <3>1. Live(Kernel, s) /\ pcb[s].parent_pid \in {run}
      BY ZenonT(40), <1>1, <1>3, <1>6, <2>1 DEF Live
    <3>2. s \in {run}
      BY <3>1, ChildrenEnd
    <3>3. Slot(pcb[run], run) /\ run \in Pids
      BY InUserIs
    <3>4. QED
      BY SMTT(30), Z3T(30), <3>1, <3>2, <3>3, Sizes DEF Slot
  <2>2. QED
    BY <2>1 DEF Childless
<1>8. ASSUME NEW m, NEW loc \in {"zombie", "gone"}, Good(m, next_pid), EndsAs(e, m, loc), Become(m)
      PROVE  Table' /\ Reaps(Kernel, Kernel')
  <2>1. Quiet(e, m)
    BY <1>6, <1>8, EndsQuiet
  <2>2. Quiet(k, m)
    BY <1>6, <2>1 DEF Quiet
  <2>3. Reaps(Kernel, m)
    BY <1>1, <2>2, QuietReaps
  <2>4. QED
    BY ZenonT(40), <1>5, <1>8, <2>3, StepGood
<1>9. CASE IsThread(e)
  <2>1. e.pcb[e.run].th_parent_pid # None
    BY ZenonT(40), <1>6, <1>9, ThreadIs
  <2>2. Good(proc_thread_exit(e), next_pid) /\ EndsAs(e, proc_thread_exit(e), "gone")
    BY SMTT(30), Z3T(30), <1>6, <1>7, <2>1, ThreadExitGood
  <2>3. Become(proc_thread_exit(e))
    BY <1>1, <1>2, <1>9
  <2>4. QED
    BY ZenonT(40), <1>8, <2>2, <2>3
<1>10. CASE ~IsThread(e)
  <2>1. Good(process_exit_current(e), next_pid) /\ EndsAs(e, process_exit_current(e), "zombie")
    BY <1>6, <1>7, ExitGood
  <2>2. Become(process_exit_current(e))
    BY <1>1, <1>2, <1>10
  <2>3. QED
    BY ZenonT(40), <1>8, <2>1, <2>2
<1>11. QED
  BY <1>9, <1>10

\* A process ends with its group.
LEMMA GroupEnds ==
  ASSUME Table, Workload \cap {"orphan", "group0"} = {}, sys_exit_group
  PROVE  Table' /\ Reaps(Kernel, Kernel')
<1>1. PICK k : k = Kernel
  OBVIOUS
<1>2. PICK e : e = Entered(k)
  BY ZenonT(40)
<1>3. Good(k, next_pid) /\ k.run # 0 /\ k.at[k.run].loc = "user" /\ k.run = run /\ k.pcb = pcb
  BY <1>1, InUserIs, KernelIs DEF InUser, sys_exit_group
<1>4. Good(e, next_pid) /\ e.run = k.run /\ e.pcb = k.pcb /\ e.at = k.at /\ e.sys /\ e.run # 0 /\ e.run \in Pids
  <2>1. Within(k, e, next_pid)
    BY ZenonT(40), <1>2, <1>3, EnteredWithin
  <2>2. QED
    BY <2>1 DEF Within
<1>5. UNCHANGED <<next_pid, pcb_count>> /\ need_sched' \in BOOLEAN
  BY DEF Table, sys_exit_group
<1>6. CASE IsThread(Entered(Kernel))
  <2>1. /\ InUser /\ MayEnd({run}) /\ UNCHANGED <<next_pid, pcb_count, need_sched>>
        /\ Become(IF IsThread(Entered(Kernel)) THEN proc_thread_exit(Entered(Kernel))
                  ELSE process_exit_current(Entered(Kernel)))
    BY <1>6 DEF sys_exit_group
  <2>2. QED
    BY <2>1, EndStep
<1>7. CASE ~IsThread(Entered(Kernel))
  <2>1. /\ MayEnd({run} \cup {pcb[s].pid : s \in Siblings(e)}) /\ \A s \in Siblings(e) : s # 0
        /\ Become(process_exit_current(Emptied(e)))
    BY <1>1, <1>2, <1>7 DEF sys_exit_group
  <2>2. e.pcb[e.run].th_parent_pid = None
    BY ZenonT(40), <1>1, <1>2, <1>4, <1>7, ThreadIs
  <2>3. Siblings(e) = {pcb[s].pid : s \in Siblings(e)}
    <3>1. ASSUME NEW s \in Siblings(e) PROVE pcb[s].pid = s
      <4>1. s \in Slots /\ e.pcb[s].state # "EMPTY"
        BY DEF Siblings
      <4>2. Occupied(e, next_pid)
        BY <1>4 DEF Good, Sound
      <4>3. s < next_pid
        BY <4>1, <4>2 DEF Occupied, EmptyPcb
      <4>4. QED
        BY SMTT(30), Z3T(30), <1>3, <1>4, <4>1, <4>2, <4>3 DEF Occupied, Slot
    <3>2. QED
      BY <3>1
  <2>4. ASSUME NEW s \in 1..(next_pid - 1), Live(e, s), e.pcb[s].parent_pid \in {e.run} \cup Siblings(e)
        PROVE  s \in {e.run} \cup Siblings(e)
    <3>1. PICK P : P = {run} \cup Siblings(e)
      BY Zenon
    <3>2. MayEnd(P) /\ Live(Kernel, s) /\ pcb[s].parent_pid \in P
      BY ZenonT(40), <1>1, <1>3, <1>4, <2>1, <2>3, <2>4, <3>1 DEF Live
    <3>3. s \in P
      BY <3>2, ChildrenEnd
    <3>4. QED
      BY SMTT(30), Z3T(30), <1>3, <1>4, <3>1, <3>3
  <2>5. PICK a : a = Emptied(e)
    OBVIOUS
  <2>6. Alone(e, a, next_pid)
    <3>1. OwnGroup(e, next_pid)
      BY SMTT(30), Z3T(30), <1>4, <2>1, <2>2, <2>4 DEF OwnGroup
    <3>2. QED
      BY ZenonT(40), <1>4, <2>1, <2>5, <3>1, EmptiedGood
  <2>7. Good(a, next_pid) /\ a.run = e.run /\ a.sys /\ Childless(a, next_pid) /\ a.run # 0 /\ a.run \in Pids
    BY <1>4, <2>6 DEF Alone
  <2>8. PICK m : m = process_exit_current(a)
    OBVIOUS
  <2>9. Good(m, next_pid) /\ EndsAs(a, m, "zombie")
    BY <2>7, <2>8, ExitGood
  <2>10. Quiet(a, m)
    BY SMTT(30), Z3T(30), <2>7, <2>9, EndsQuiet
  <2>11. Quiet(k, m)
    <3>1. \A q \in Pids : a.at[q] = k.at[q] \/ a.at[q].loc = "killed"
      BY ZenonT(40), <1>4, <2>6 DEF Alone
    <3>2. \A q \in Pids : a.at[q].loc = "killed" => m.at[q].loc \notin {"user", "reaped"}
      BY <2>9 DEF EndsAs
    <3>3. QED
      BY ZenonT(40), <2>10, <3>1, <3>2 DEF Quiet
  <2>12. Reaps(Kernel, m) /\ Become(m)
    BY ZenonT(40), <1>1, <2>1, <2>5, <2>8, <2>11, QuietReaps
  <2>13. QED
    BY ZenonT(40), <1>5, <2>9, <2>12, StepGood
<1>8. QED
  BY <1>6, <1>7

\* A creation takes slot next_pid, which nobody used.
LEMMA SlotIsNext ==
  ASSUME Table, "recycle" \notin Workload, NEW s, MayUse(s)
  PROVE  s = next_pid /\ next_pid \in Pids /\ next_pid \in Slots /\ next_pid \in 1..MaxPid /\ pcb[next_pid] = EmptyPcb
<1>1. s = next_pid /\ next_pid <= MaxPid
  BY DEF MayUse
<1>2. next_pid \in 1..(MaxPid + 1) /\ Occupied(Kernel, next_pid)
  BY DEF Table, Good, Sound
<1>3. next_pid \in Pids /\ next_pid \in Slots /\ next_pid \in 1..MaxPid /\ ~(next_pid < next_pid)
  BY <1>1, <1>2, Sizes DEF Pids
<1>4. QED
  BY <1>1, <1>2, <1>3, KernelIs DEF Occupied

\* What is written there.
LEMMA FilledIs ==
  ASSUME NEW n \in Pids, n = next_pid, NEW parent \in Pids, NEW space \in Pids, NEW th \in Pids \cup {None}, NEW f,
         f = [Filled(EmptyPcb, parent, space) EXCEPT !.th_parent_pid = th] \/ (th = None /\ f = Filled(EmptyPcb, parent, space)),
         NEW k, parent < n, Live(k, parent), space <= n, th = None => space \in {0, n}, th # None => parent # 0
  PROVE  NewPcb(k, n, f)
<1> DEFINE c == Ctx("frame", n)
           g == [pid |-> n, state |-> "READY", is_user |-> TRUE, parent_pid |-> parent, th_parent_pid |-> th,
                 in_kern |-> FALSE, pml4 |-> space, kernel_rsp |-> c]
<1>1. f = g
  BY ZenonT(40) DEF Filled, EmptyPcb
<1>2. c \in Contexts
  BY DEF Ctx, Contexts
<1> HIDE DEF c
<1>3. g \in PcbType
  BY <1>2 DEF PcbType, States
<1>4. NewPcb(k, n, g)
  BY <1>3 DEF NewPcb, c
<1>5. QED
  BY <1>1, <1>4

\* fork and clone.
LEMMA ForkStep ==
  ASSUME Table, "recycle" \notin Workload, proc_fork \/ proc_clone_thread
  PROVE  Table' /\ Reaps(Kernel, Kernel')
<1>1. PICK k : k = Kernel
  OBVIOUS
<1>2. PICK n : n = next_pid
  OBVIOUS
<1>3. InUser /\ MayUse(FirstEmpty) /\ Counted(FirstEmpty) /\ UNCHANGED need_sched
  BY DEF proc_fork, proc_clone_thread
<1>4. FirstEmpty = n /\ n \in Pids /\ n \in Slots /\ n \in 1..MaxPid /\ pcb[n] = EmptyPcb
  BY ZenonT(40), <1>2, <1>3, SlotIsNext
<1>5. /\ Good(k, n) /\ k.run # 0 /\ k.run = run /\ run \in Pids /\ run < n /\ process_current(Kernel) = run /\ Slot(pcb[run], run)
      /\ k.at[k.run].loc = "user" /\ Live(k, run) /\ k.pcb = pcb /\ run \in Slots
  <2>1. Good(k, n)
    BY <1>1, <1>2 DEF Table
  <2>2. QED
    <3>1. k.pcb = pcb /\ k.run = run /\ k.at[k.run].loc = "user" /\ k.run # 0 /\ process_current(Kernel) = run
      BY ZenonT(40), <1>1, <1>3, InUserIs, KernelIs DEF InUser
    <3>2. /\ k.run \in 0..(n - 1) /\ k.run \in Slots /\ k.run \in Pids /\ Slot(k.pcb[k.run], k.run)
          /\ n \in 1..(MaxPid + 1)
      BY ZenonT(40), <2>1, <3>1, CurrentFound
    <3>3. Live(k, k.run)
      BY ZenonT(40), <2>1 DEF Good
    <3>4. run \in 0..(n - 1) /\ n \in 1..(MaxPid + 1)
      BY ZenonT(40), <3>1, <3>2
    <3>5. run < n
      BY <3>4
    <3>6. QED
      BY ZenonT(40), <2>1, <3>1, <3>2, <3>3, <3>5
<1>6. ASSUME NEW f, NewPcb(k, n, f), Become(Returned(Goes([k EXCEPT !.pcb[n] = f], n, "new", 0)))
      PROVE  Table' /\ Reaps(Kernel, Kernel')
  <2>1. PICK g : g = Goes([k EXCEPT !.pcb[n] = f], n, "new", 0)
    OBVIOUS
  <2>2. Grown(k, g, n, f)
    BY ZenonT(40), <1>4, <1>5, <1>6, <2>1, CreatedGood
  <2>3. /\ Good(g, n + 1) /\ g.run = k.run /\ g.run # 0 /\ g.run # n /\ g.at[n].loc = "new"
        /\ \A q \in Pids : q # n => g.at[q] = k.at[q]
    BY <1>4, <1>5, <2>2 DEF Grown
  <2>4. PICK m : m = Returned(g)
    OBVIOUS
  <2>5. Good(m, n + 1) /\ Comes(g, m, "user")
    BY ZenonT(40), <2>3, <2>4, ReturnedGood
  <2>6. Quiet(k, m)
    BY <1>5, <2>3, <2>5 DEF Comes, Quiet
  <2>7. Become(m)
    BY <1>6, <2>1, <2>4
  <2>8. Good(m, next_pid + 1) /\ Reaps(Kernel, m) /\ next_pid \in Pids /\ FirstEmpty = next_pid
    BY ZenonT(40), <1>1, <1>2, <1>4, <2>5, <2>6, QuietReaps
  <2>9. QED
    BY SMTT(30), Z3T(30), <1>3, <2>7, <2>8, CreationGood
<1>7. CASE proc_fork
  <2> DEFINE f == Filled(EmptyPcb, run, n)
  <2>1. Become(Returned(Goes([k EXCEPT !.pcb[n] = f], n, "new", 0)))
    <3>1. Become(Returned(Created(Kernel, FirstEmpty, Filled(pcb[FirstEmpty], pcb[process_current(Kernel)].pid, next_pid))))
      BY <1>7, Zenon DEF proc_fork
    <3>2. pcb[run].pid = run
      BY ZenonT(40), <1>5 DEF Slot
    <3>3. Become(Returned(Created(k, n, f)))
      BY ZenonT(40), <1>1, <1>2, <1>4, <1>5, <3>1, <3>2
    <3>4. QED
      BY <1>2, <3>3 DEF Created
  <2>2. NewPcb(k, n, f)
    <3>1. PICK th \in Pids \cup {None} : th = None
      OBVIOUS
    <3> HIDE DEF f
    <3>2. th = None /\ f = Filled(EmptyPcb, run, n) /\ n <= n /\ n \in {0, n}
      BY <1>4, <3>1 DEF f
    <3>3. QED
      BY ZenonT(40), <1>2, <1>4, <1>5, <3>2, FilledIs
  <2>3. QED
    BY <1>6, <2>1, <2>2
<1>8. CASE proc_clone_thread
  <2> DEFINE sp == pcb[run].pml4
             f == [Filled(EmptyPcb, run, sp) EXCEPT !.th_parent_pid = run]
  <2>1. Become(Returned(Goes([k EXCEPT !.pcb[n] = f], n, "new", 0)))
    <3>1. Become(Returned(Created(Kernel, FirstEmpty,
                    [Filled(EmptyPcb, pcb[process_current(Kernel)].pid, pcb[process_current(Kernel)].pml4)
                        EXCEPT !.th_parent_pid = pcb[process_current(Kernel)].pid])))
      BY <1>8, Zenon DEF proc_clone_thread
    <3>2. pcb[run].pid = run
      BY <1>5 DEF Slot
    <3>3. Become(Returned(Created(k, n, f)))
      BY ZenonT(40), <1>1, <1>2, <1>4, <1>5, <3>1, <3>2
    <3>4. QED
      BY <1>2, <3>3 DEF Created
  <2>2. NewPcb(k, n, f)
    <3>1. sp \in Pids /\ sp <= run
      BY ZenonT(40), <1>5 DEF Good, Sound, KernelType, PcbType, Slot
    <3>2. sp <= n /\ run # None /\ run # 0
      BY SMTT(30), Z3T(30), <1>4, <1>5, <3>1, Sizes DEF Pids
    <3>3. f = [Filled(EmptyPcb, run, sp) EXCEPT !.th_parent_pid = run]
      OBVIOUS
    <3> HIDE DEF f, sp
    <3>4. PICK r \in Pids, th \in Pids \cup {None} :
            r = run /\ th = run /\ f = [Filled(EmptyPcb, r, sp) EXCEPT !.th_parent_pid = th]
      BY <1>5, <3>3
    <3>5. r < n /\ Live(k, r) /\ th # None /\ r # 0
      BY ZenonT(40), <1>5, <3>2, <3>4
    <3>6. QED
      BY ZenonT(40), <1>2, <1>4, <3>1, <3>2, <3>4, <3>5, FilledIs
  <2>3. QED
    BY SMTT(30), Z3T(30), <1>6, <2>1, <2>2
<1>9. QED
  BY <1>7, <1>8

\* The shell starts a program in the background or in the foreground.
LEMMA ExecStep ==
  ASSUME Table, "recycle" \notin Workload, exec_bg \/ exec_elf \/ exec_macho
  PROVE  Table' /\ Reaps(Kernel, Kernel')
<1>1. PICK k : k = Kernel
  OBVIOUS
<1>2. PICK n : n = next_pid
  OBVIOUS
<1>3. PICK s : MayUse(s) /\ Counted(s) /\ UNCHANGED need_sched /\ ShellAt("loop")
               /\ \/ Become(schedule(proc_spawn(Kernel, s)))
                  \/ Become(process_switch_to(proc_spawn(Kernel, s), next_pid))
                  \/ Become(process_switch_to(process_create_user(Kernel, s), next_pid))
  BY DEF exec_bg, exec_elf, exec_macho
<1>4. s = n /\ n \in Pids /\ n \in Slots /\ n \in 1..MaxPid /\ pcb[n] = EmptyPcb
  BY ZenonT(40), <1>2, <1>3, SlotIsNext
<1>5. Good(k, n) /\ k.run = 0 /\ k.cur = 0 /\ k.at[0].loc = "loop" /\ Live(k, 0) /\ k.pcb = pcb
  BY ZenonT(40), <1>1, <1>2, <1>3, KernelIs DEF Table, ShellAt, Good
<1> DEFINE new(space) == [Filled(EmptyPcb, 0, space) EXCEPT !.th_parent_pid = None]
           g(space) == Goes([k EXCEPT !.pcb[n] = new(space)], n, "new", 0)
<1>6. proc_spawn(Kernel, s) = g(n) /\ process_create_user(Kernel, s) = g(0)
  <2>1. Kernel.cur = 0 /\ Kernel.pcb[s] = EmptyPcb
    BY SMTT(30), Z3T(30), <1>1, <1>4, <1>5
  <2>2. proc_spawn(Kernel, s) = Created(Kernel, s, new(n))
    BY <1>2, <2>1 DEF proc_spawn
  <2>3. process_create_user(Kernel, s) = Created(Kernel, s, new(0))
    BY <2>1 DEF process_create_user
  <2>4. QED
    BY ZenonT(40), <1>1, <1>2, <1>4, <2>2, <2>3 DEF Created
<1>7. ASSUME NEW space \in {0, n} PROVE Grown(k, g(space), n, new(space))
  <2>1. PICK f, h : f = new(space) /\ h = g(space)
    BY Zenon
  <2>2. PICK z \in Pids, th \in Pids \cup {None} :
          z = 0 /\ th = None /\ f = [Filled(EmptyPcb, z, space) EXCEPT !.th_parent_pid = th]
    BY <2>1, Sizes
  <2> HIDE DEF new, g
  <2>3. NewPcb(k, n, f)
    <3>1. space \in Pids /\ space <= n /\ z < n /\ Live(k, z)
      BY SMTT(30), Z3T(30), <1>4, <1>5, <2>2, Sizes DEF Pids
    <3>2. f = [Filled(EmptyPcb, z, space) EXCEPT !.th_parent_pid = th] /\ th = None
      BY <2>2
    <3>3. QED
      BY ZenonT(40), <1>2, <1>4, <3>1, <3>2, FilledIs
  <2>4. h = Goes([k EXCEPT !.pcb[n] = f], n, "new", 0)
    BY <2>1 DEF g
  <2>5. Grown(k, h, n, f)
    BY ZenonT(40), <1>4, <1>5, <2>3, <2>4, CreatedGood
  <2>6. QED
    BY <2>1, <2>5
<1> HIDE DEF new, g
<1>8. ASSUME NEW space \in {0, n}, NEW m, Good(m, n + 1), Quiet(g(space), m), m.at[n].loc # "reaped", Become(m)
      PROVE  Table' /\ Reaps(Kernel, Kernel')
  <2>1. (\A q \in Pids : q # n => g(space).at[q] = k.at[q]) /\ k.at[n].loc # "wait"
    BY ZenonT(40), <1>7 DEF Grown
  <2>2. Quiet(k, m)
    BY ZenonT(40), <1>8, <2>1 DEF Quiet
  <2>3. Good(m, next_pid + 1) /\ Reaps(Kernel, m) /\ next_pid \in Pids /\ s = next_pid
    BY ZenonT(40), <1>1, <1>2, <1>4, <1>8, <2>2, QuietReaps
  <2>4. QED
    BY ZenonT(40), <1>3, <1>8, <2>3, CreationGood
<1>9. ASSUME NEW space \in {0, n}
      PROVE  /\ Good(g(space), n + 1) /\ g(space).run = 0 /\ Live(g(space), n) /\ g(space).at[n].loc = "new"
             /\ g(space).at[0].loc = "loop"
  <2>1. new(space).state = "READY"
    BY ZenonT(40) DEF new, Filled, EmptyPcb
  <2>2. QED
    BY SMTT(30), Z3T(30), <1>4, <1>5, <1>7, <2>1, Sizes DEF Grown, Live
<1>10. CASE Become(schedule(proc_spawn(Kernel, s)))
  <2>1. PICK h, m : h = g(n) /\ m = schedule(h)
    OBVIOUS
  <2>2. Good(h, n + 1) /\ h.run = 0 /\ h.at[0].loc = "loop" /\ h.at[n].loc = "new"
    BY <1>9, <2>1
  <2>3. Good(m, n + 1) /\ Starts(h, m)
    BY ZenonT(40), <2>1, <2>2, ScheduleGood
  <2>4. Quiet(h, m) /\ m.at[n].loc # "reaped"
    BY ZenonT(40), <1>4, <2>2, <2>3, StartsQuiet DEF Starts
  <2>5. Become(m)
    BY ZenonT(40), <1>6, <1>10, <2>1
  <2>6. QED
    BY ZenonT(40), <1>8, <2>1, <2>3, <2>4, <2>5
<1>11. ASSUME NEW space \in {0, n}, Become(process_switch_to(g(space), next_pid))
       PROVE  Table' /\ Reaps(Kernel, Kernel')
  <2>1. PICK h, m : h = g(space) /\ m = process_switch_to(h, n)
    BY ZenonT(40)
  <2>2. Good(h, n + 1) /\ h.run = 0 /\ Live(h, n) /\ h.at[n].loc = "new" /\ n \in 1..((n + 1) - 1) /\ n # 0
    BY SMTT(30), Z3T(30), <1>4, <1>9, <2>1
  <2>3. Good(m, n + 1) /\ EndsAs(h, m, "fg")
    BY ZenonT(40), <2>1, <2>2, SwitchToGood
  <2>4. Quiet(h, m) /\ m.at[n].loc # "reaped"
    BY SMTT(30), Z3T(30), <1>4, <2>2, <2>3, EndsQuiet, Sizes DEF EndsAs
  <2>5. Become(m)
    BY <1>2, <1>11, <2>1
  <2>6. QED
    BY ZenonT(40), <1>8, <2>1, <2>3, <2>4, <2>5
<1>12. QED
  BY ZenonT(40), <1>3, <1>6, <1>10, <1>11

-----------------------------------------------------------------------------
(* The invariant, and the theorems. *)

\* After process_init only the shell is there.
LEMMA TableInit ==
  ASSUME Init
  PROVE  Table
<1>1. PICK k : k = Kernel
  OBVIOUS
<1> DEFINE z == [EmptyPcb EXCEPT !.pid = 0, !.state = "READY", !.kernel_rsp = Ctx("cflow", 0)]
<1>2. /\ k.pcb = [s \in Slots |-> IF s = 0 THEN z ELSE EmptyPcb]
      /\ k.at = [p \in Pids |-> IF p = 0 THEN At("loop", 0) ELSE At("none", 0)]
      /\ k.run = 0 /\ k.cur = 0 /\ k.sys = FALSE
  BY <1>1, KernelIs DEF Init
<1>3. EmptyPcb \in PcbType /\ EmptyPcb.state = "EMPTY"
  <2> DEFINE c == Ctx("none", None)
             no == None
             zero == 0
  <2>1. c \in Contexts /\ no \in Pids \cup {None} /\ zero \in Pids
    BY Sizes DEF Ctx, Contexts
  <2>2. EmptyPcb = [pid |-> no, state |-> "EMPTY", is_user |-> FALSE, parent_pid |-> zero, th_parent_pid |-> no,
                    in_kern |-> FALSE, pml4 |-> zero, kernel_rsp |-> c]
    BY DEF EmptyPcb
  <2> HIDE DEF c, no, zero
  <2>3. QED
    BY <2>1, <2>2 DEF PcbType, States
<1>4. /\ z \in PcbType /\ z.pid = 0 /\ z.state = "READY" /\ z.kernel_rsp = Ctx("cflow", 0) /\ ~z.in_kern /\ ~z.is_user
      /\ z.parent_pid = 0 /\ z.th_parent_pid = None /\ z.pml4 = 0
  <2> DEFINE e1 == [EmptyPcb EXCEPT !.pid = 0]
             e2 == [e1 EXCEPT !.state = "READY"]
             c == Ctx("cflow", 0)
  <2>1. c \in Contexts /\ 0 \in Pids
    BY Sizes DEF Ctx, Contexts
  <2>2. /\ ~EmptyPcb.in_kern /\ ~EmptyPcb.is_user /\ EmptyPcb.parent_pid = 0 /\ EmptyPcb.th_parent_pid = None
        /\ EmptyPcb.pml4 = 0
    BY DEF EmptyPcb
  <2>3. /\ e1 \in PcbType /\ e1.pid = 0 /\ ~e1.in_kern /\ ~e1.is_user /\ e1.parent_pid = 0 /\ e1.th_parent_pid = None
        /\ e1.pml4 = 0
    BY <1>3, <2>1, <2>2 DEF PcbType
  <2>4. z = [e2 EXCEPT !.kernel_rsp = c]
    OBVIOUS
  <2> HIDE DEF e1, c
  <2>5. /\ e2 \in PcbType /\ e2.pid = 0 /\ e2.state = "READY" /\ ~e2.in_kern /\ ~e2.is_user /\ e2.parent_pid = 0
        /\ e2.th_parent_pid = None /\ e2.pml4 = 0
    BY <2>3 DEF PcbType, States
  <2> HIDE DEF e2, z
  <2>6. /\ z \in PcbType /\ z.pid = 0 /\ z.state = "READY" /\ z.kernel_rsp = c /\ ~z.in_kern /\ ~z.is_user
        /\ z.parent_pid = 0 /\ z.th_parent_pid = None /\ z.pml4 = 0
    BY ZenonT(40), <2>1, <2>4, <2>5 DEF PcbType
  <2>7. QED
    BY <2>6 DEF c
<1> HIDE DEF z
<1>5. 0 \in Slots /\ 0 \in Pids /\ k.pcb[0] = z /\ \A s \in Slots : s # 0 => k.pcb[s] = EmptyPcb
  BY ZenonT(40), <1>2, Sizes
<1>6. /\ k.at \in [Pids -> [loc : Locations, on : Pids]] /\ k.at[0].loc = "loop"
      /\ \A p \in Pids : p # 0 => k.at[p].loc = "none"
  BY <1>2, Sizes DEF At, Locations
<1>7. k \in KernelType
  <2>1. k.pcb \in [Slots -> PcbType]
    BY ZenonT(40), <1>2, <1>3, <1>4
  <2>2. k = [pcb |-> k.pcb, at |-> k.at, run |-> k.run, cur |-> k.cur, sys |-> k.sys]
    BY <1>1 DEF Kernel
  <2>3. k.run \in Pids \cup {None} /\ k.cur \in Slots /\ k.sys \in BOOLEAN
    BY ZenonT(40), <1>2, <1>5
  <2>4. PICK t, a, r, c, y : t = k.pcb /\ a = k.at /\ r = k.run /\ c = k.cur /\ y = k.sys
    BY ZenonT(40)
  <2>5. [pcb |-> t, at |-> a, run |-> r, cur |-> c, sys |-> y] \in KernelType
    BY ZenonT(40), <1>6, <2>1, <2>3, <2>4 DEF KernelType
  <2>6. QED
    BY <2>2, <2>4, <2>5
<1>8. Occupied(k, 1)
  <2>1. Slot(z, 0)
    BY <1>4 DEF Slot
  <2>2. \A s \in Slots : s < 1 <=> s = 0
    BY Sizes DEF Slots
  <2>3. QED
    BY ZenonT(40), <1>5, <2>1, <2>2 DEF Occupied
<1>9. Live(k, 0) /\ Families(k, 1)
  BY SMTT(30), Z3T(30), <1>4, <1>5 DEF Live, Families
<1>10. Flows(k, 1)
  BY SMTT(30), Z3T(30), <1>4, <1>5, <1>6 DEF Flows
<1>11. Turns(k, 0)
  BY <1>3, <1>4, <1>5 DEF Turns
<1>12. OthersResume(k, 1)
  BY SMTT(30), Z3T(30), <1>2 DEF OthersResume
<1>13. NoneWaits(k)
  BY <1>6 DEF NoneWaits, Waiting
<1>14. 1 \in 1..(MaxPid + 1)
  BY SMTT(30), Z3T(30), Sizes
<1>15. Good(k, 1)
  BY SMTT(30), Z3T(30), <1>2, <1>6, <1>7, <1>8, <1>9, <1>10, <1>11, <1>12, <1>13, <1>14 DEF Good, Sound
<1>16. QED
  BY ZenonT(40), <1>1, <1>15 DEF Table, Init

\* A system call that waits is not the shell's.
LEMMA PollsIs ==
  ASSUME Table, NEW loc \in Waiting, Polls(loc)
  PROVE  run # 0
  BY ZenonT(40), KernelIs DEF Table, Good, Polls, Waiting

\* Every step keeps the invariant, and reaps as WaitReaps says.
LEMMA TableStep ==
  ASSUME Workload \cap {"recycle", "orphan", "group0"} = {}, Table, [Next]_vars
  PROVE  Table' /\ Reaps(Kernel, Kernel')
<1>1. "recycle" \notin Workload /\ "orphan" \notin Workload /\ Workload \cap {"orphan", "group0"} = {}
  OBVIOUS
<1>2. CASE proc_fork \/ proc_clone_thread
  BY <1>1, <1>2, ForkStep
<1>3. CASE sys_exit
  BY <1>1, <1>3, EndStep DEF sys_exit
<1>4. CASE sys_exit_group
  BY <1>1, <1>4, GroupEnds
<1>5. CASE sys_wait4
  BY <1>5, WaitBegins
<1>6. CASE WaitTurn
  <2>1. "wait" \in Waiting /\ Polls("wait") /\ Stays /\ Become(proc_waitpid(Kernel))
    BY <1>6 DEF WaitTurn, Waiting
  <2>2. QED
    BY <2>1, PollsIs, PollStep
<1>7. CASE sys_futex
  <2>1. PICK s \in Slots : pcb[s].state # "EMPTY" /\ Begin("join", pcb[s].pid)
    BY ZenonT(40), <1>7 DEF sys_futex
  <2>2. pcb[s].pid \in Pids
    <3>1. Occupied(Kernel, next_pid) /\ Kernel \in KernelType /\ next_pid \in 1..(MaxPid + 1)
      BY ZenonT(40) DEF Table, Good, Sound
    <3>2. s < next_pid
      BY ZenonT(40), <2>1, <3>1, KernelIs, FilledBelow
    <3>3. pcb[s].pid = s
      BY ZenonT(40), <3>1, <3>2, KernelIs DEF Occupied, Slot
    <3>4. s \in Pids
      BY <2>1, <3>1, <3>2, Sizes DEF Pids, Slots
    <3>5. QED
      BY ZenonT(40), <3>3, <3>4
  <2>3. QED
    BY <2>1, <2>2, BeginStep
<1>8. CASE JoinTurn \/ JoinGivesUp
  <2>1. "join" \in Waiting /\ Polls("join") /\ Stays /\ (Become(schedule(Kernel)) \/ Become(Returned(Kernel)))
    BY <1>8 DEF JoinTurn, JoinGivesUp, Waiting
  <2>2. QED
    BY ZenonT(40), <2>1, PollsIs, PollStep
<1>9. CASE sys_read
  BY ZenonT(40), <1>9, BeginStep, Sizes DEF sys_read
<1>10. CASE ReadTurn \/ ReadDone
  <2>1. "read" \in Waiting /\ Polls("read") /\ Stays /\ (Become(schedule(Kernel)) \/ Become(Returned(Kernel)))
    BY <1>10 DEF ReadTurn, ReadDone, Waiting
  <2>2. QED
    BY ZenonT(40), <2>1, PollsIs, PollStep
<1>11. CASE exec_bg \/ exec_elf \/ exec_macho
  BY <1>1, <1>11, ExecStep
<1>12. CASE exec_returns \/ kmain_loop
  BY <1>12, ShellStep
<1>13. CASE timer_tick_handler \/ UNCHANGED vars
  <2>1. UNCHANGED <<pcb, at, run, current_pid, next_pid, pcb_count, g_in_syscall>> /\ need_sched' \in BOOLEAN
    BY ZenonT(40), <1>13 DEF timer_tick_handler, vars, Table
  <2>2. Kernel' = Kernel
    BY <2>1 DEF Kernel
  <2>3. Reaps(Kernel, Kernel)
    BY DEF Reaps
  <2>4. Good(Kernel', next_pid') /\ Reaps(Kernel, Kernel')
    BY <2>1, <2>2, <2>3 DEF Table
  <2>5. QED
    BY <2>1, <2>4 DEF Table
<1>14. QED
  BY ZenonT(40), <1>2, <1>3, <1>4, <1>5, <1>6, <1>7, <1>8, <1>9, <1>10, <1>11, <1>12, <1>13 DEF Next

\* The table stays sound through any mixture of fork, clone, exec, exit, wait
\* and join.
THEOREM TableAlways ==
  ASSUME Workload \cap {"recycle", "orphan", "group0"} = {}
  PROVE  Spec => []Table
<1>1. Init => Table
  BY TableInit
<1>2. Table /\ [Next]_vars => Table'
  BY TableStep
<1>3. QED
  BY <1>1, <1>2, PTL DEF Spec

\* Every variable keeps its type: current_pid is always the index of a slot and
\* pcb_count never exceeds the table.
THEOREM TypesAlways ==
  ASSUME Workload \cap {"recycle", "orphan", "group0"} = {}
  PROVE  Spec => []TypeOK
<1>1. Table => TypeOK
  <2> SUFFICES ASSUME Table PROVE TypeOK
    BY ZenonT(40)
  <2>1. Kernel \in KernelType /\ next_pid \in 1..(MaxPid + 1) /\ pcb_count = next_pid /\ need_sched \in BOOLEAN
    BY DEF Table, Good, Sound
  <2>2. pcb_count \in 1..NSlots
    BY <2>1, Sizes
  <2>3. /\ pcb \in [Slots -> PcbType] /\ at \in [Pids -> [loc : Locations, on : Pids]] /\ run \in Pids \cup {None}
        /\ current_pid \in Slots /\ g_in_syscall \in BOOLEAN
    BY ZenonT(40), <2>1, KernelIs DEF KernelType
  <2>4. QED
    BY <2>1, <2>2, <2>3 DEF TypeOK, PcbType
<1>2. QED
  BY <1>1, TableAlways, PTL

\* process_current() finds the PCB of the program that runs, in every system call.
THEOREM CurrentIsRunningAlways ==
  ASSUME Workload \cap {"recycle", "orphan", "group0"} = {}
  PROVE  Spec => []CurrentIsRunning
<1>1. Table => CurrentIsRunning
  BY ZenonT(40), InUserIs, Sizes DEF CurrentIsRunning, Slot
<1>2. QED
  BY <1>1, TableAlways, PTL

\* Every READY process that does not run has a context of its own to resume, of
\* the kind that in_kern says.
THEOREM ReadyCanResumeAlways ==
  ASSUME Workload \cap {"recycle", "orphan", "group0"} = {}
  PROVE  Spec => []ReadyCanResume
<1>1. Table => ReadyCanResume
  <2> SUFFICES ASSUME Table, NEW s \in Slots, pcb[s].state = "READY", pcb[s].pid # run
               PROVE  pcb[s].kernel_rsp = Ctx(IF pcb[s].in_kern \/ ~pcb[s].is_user THEN "cflow" ELSE "frame", pcb[s].pid)
    BY DEF ReadyCanResume
  <2>1. PICK k : k = Kernel
    OBVIOUS
  <2>2. Good(k, next_pid) /\ k.pcb = pcb /\ k.run = run
    BY ZenonT(40), <2>1, KernelIs DEF Table
  <2>3. s < next_pid /\ next_pid \in Int
    <3>1. Occupied(k, next_pid) /\ next_pid \in 1..(MaxPid + 1) /\ k.pcb[s].state # "EMPTY"
      BY ZenonT(40), <2>2 DEF Good, Sound
    <3>2. s < next_pid
      BY ZenonT(40), <3>1, FilledBelow
    <3>3. QED
      BY <3>1, <3>2
  <2>4. pcb[s].pid = s
    BY <2>2, <2>3 DEF Good, Sound, Occupied, Slot
  <2>5. s \in 0..(next_pid - 1)
    BY SMTT(30), Z3T(30), <2>3, Sizes DEF Slots
  <2>6. Resumable(k, s)
    BY ZenonT(40), <2>2, <2>4, <2>5 DEF Good, OthersResume, Live
  <2>7. QED
    BY ZenonT(40), <2>2, <2>4, <2>6 DEF Resumable
<1>2. QED
  BY <1>1, TableAlways, PTL

\* The CPU never goes on with a context that is not there, and no exit comes
\* back to the hlt loop behind it.
THEOREM CpuNeverLostAlways ==
  ASSUME Workload \cap {"recycle", "orphan", "group0"} = {}
  PROVE  Spec => []CpuNeverLost
<1>1. Table => CpuNeverLost
  <2> SUFFICES ASSUME Table PROVE CpuNeverLost
    OBVIOUS
  <2>1. Good(Kernel, next_pid)
    BY DEF Table
  <2>2. run \in Slots
    BY ZenonT(40), <2>1, CurrentFound, KernelIs
  <2>3. \A p \in Pids : at[p].loc # "hlt"
    BY <2>1, KernelIs DEF Good, Sound, Flows
  <2>4. QED
    BY <2>2, <2>3, Sizes DEF CpuNeverLost
<1>2. QED
  BY <1>1, TableAlways, PTL

\* A process is reaped once, as a zombie, by its parent, and a wait4 that comes
\* back has reaped its child.
THEOREM WaitReapsAlways ==
  ASSUME Workload \cap {"recycle", "orphan", "group0"} = {}
  PROVE  Spec => WaitReaps
<1>1. Table /\ [Next]_vars => Reaps(Kernel, Kernel')
  BY TableStep
<1>2. Reaps(Kernel, Kernel') =>
        \A p \in Pids :
          /\ at[p].loc # "reaped" /\ at'[p].loc = "reaped" =>
               /\ at[p].loc = "zombie"
               /\ \E s \in Slots : pcb[s].pid = p /\ pcb[s].parent_pid = run
          /\ at[p].loc = "wait" /\ at'[p].loc = "user" => at'[at[p].on].loc = "reaped"
  <2>1. Kernel.at = at /\ Kernel'.at = at' /\ Kernel.pcb = pcb /\ Kernel.run = run
    BY DEF Kernel
  <2>2. QED
    BY <2>1 DEF Reaps
<1>3. QED
  BY <1>1, <1>2, TableAlways, PTL DEF Spec, WaitReaps
=============================================================================
