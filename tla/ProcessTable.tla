---------------------------- MODULE ProcessTable -----------------------------
(***************************************************************************)
(* The life of processes and threads (process.c): the PCB table, proc_spawn, *)
(* process_create_user, proc_fork, proc_clone_thread, the exits, wait4, the   *)
(* futex wait of pthread_join, the blocking read, the cooperative round robin *)
(* of schedule(), the shell's exec (shell.c) and kmain's loop.               *)
(*                                                                         *)
(* A slot of the table and the process that runs are different things here:  *)
(* a flow of control is named by its pid, each slot says which flow its saved *)
(* context belongs to, and current_pid is whatever the code assigned to it.   *)
(***************************************************************************)
EXTENDS Integers, FiniteSets, FiniteSetsExt

CONSTANTS
    NSlots,            \* MAX_PROC
    MaxPid,            \* bound on the processes created
    Workload           \* what programs may do beyond the basic workload:
                       \*   "poll"     read empty pipes, give up a join
                       \*   "recycle"  create a process in a slot used before
                       \*   "orphan"   end before the children have ended
                       \*   "group0"   exit_group in the kernel's address space

ASSUME TableAssumption == NSlots \in Nat \ {0, 1} /\ MaxPid \in 1..(NSlots - 1)

Slots == 0..(NSlots - 1)
Pids == 0..MaxPid
None == -1

VARIABLES
    pcb,               \* pcb_table
    at,                \* where the control of each flow is
    run,               \* the flow the CPU executes; None if it is lost
    current_pid, next_pid, pcb_count, need_sched, g_in_syscall

vars == <<pcb, at, run, current_pid, next_pid, pcb_count, need_sched, g_in_syscall>>

At(loc, on) == [loc |-> loc, on |-> on]
Ctx(kind, of) == [kind |-> kind, of |-> of]

\* "none"; "new": has an iretq frame only; "user": in ring 3; "wait", "join",
\* "read": polling in wait4, futex, read; "loop", "fg": the shell in its loop or
\* in process_switch_to; "zombie", "reaped", "gone", "killed": ended; "hlt".
Locations == {"none", "new", "user", "wait", "join", "read", "loop", "fg",
              "zombie", "reaped", "gone", "killed", "hlt"}
Waiting == {"wait", "join", "read"}
States == {"EMPTY", "READY", "RUNNING", "BLOCKED", "ZOMBIE"}

EmptyPcb == [pid |-> None, state |-> "EMPTY", is_user |-> FALSE, parent_pid |-> 0,
             th_parent_pid |-> None, in_kern |-> FALSE, pml4 |-> 0,
             kernel_rsp |-> Ctx("none", None)]

\* process_init, and kmain has become slot 0.
Init ==
    /\ pcb = [s \in Slots |-> IF s = 0 THEN [EmptyPcb EXCEPT !.pid = 0, !.state = "READY",
                                                           !.kernel_rsp = Ctx("cflow", 0)]
                              ELSE EmptyPcb]
    /\ at = [p \in Pids |-> IF p = 0 THEN At("loop", 0) ELSE At("none", 0)]
    /\ run = 0 /\ current_pid = 0 /\ next_pid = 1 /\ pcb_count = 1
    /\ need_sched = FALSE /\ g_in_syscall = FALSE

-----------------------------------------------------------------------------
(* The kernel as a value that the functions below transform.               *)

Kernel == [pcb |-> pcb, at |-> at, run |-> run, cur |-> current_pid, sys |-> g_in_syscall]

Become(k) ==
    /\ pcb' = k.pcb /\ at' = k.at /\ run' = k.run
    /\ current_pid' = k.cur /\ g_in_syscall' = k.sys

First(S) == IF S = {} THEN None ELSE Min(S)

process_current(k) == First({s \in Slots : k.pcb[s].state # "EMPTY" /\ k.pcb[s].pid = k.cur})
FirstEmpty == First({s \in Slots : pcb[s].state = "EMPTY"})

\* Where the flow p stands now.
Goes(k, p, loc, on) == [k EXCEPT !.at[p] = At(loc, on)]

\* The restoring half of both switches: in_kern or a kernel process returns into
\* C, anything else is popped as an iretq frame.
Resume(k, n) ==
    LET c == k.pcb[n].kernel_rsp
        intoC == k.pcb[n].in_kern \/ ~k.pcb[n].is_user
        k1 == [k EXCEPT !.pcb[n].in_kern = FALSE]
    IN IF intoC /\ c.kind = "cflow" THEN [k1 EXCEPT !.run = c.of]
       ELSE IF ~intoC /\ c.kind = "frame" THEN Goes([k1 EXCEPT !.run = c.of], c.of, "user", 0)
       ELSE [k1 EXCEPT !.run = None]

\* Mutant: the process is not marked as waiting in the kernel.
context_switch_kern_Unmarked(k, s, n) ==
    Resume([k EXCEPT !.pcb[s].kernel_rsp = Ctx("cflow", k.run)], n)

context_switch_kern(k, s, n) ==
    Resume([k EXCEPT !.pcb[s].kernel_rsp = Ctx("cflow", k.run), !.pcb[s].in_kern = TRUE], n)

context_switch(k, s, n) ==
    Resume([k EXCEPT !.pcb[s].kernel_rsp =
                Ctx(IF k.pcb[s].is_user THEN "rbx" ELSE "cflow", k.run)], n)

\* Mutant: the search starts with the current slot.
find_next_ready_FromSelf(k) ==
    LET R == {i \in 0..(NSlots - 1) : k.pcb[(k.cur + i) % NSlots].state = "READY"}
    IN IF R = {} THEN None ELSE (k.cur + Min(R)) % NSlots

\* Mutant: the search stops before it has been round the table.
find_next_ready_StopsShort(k) ==
    LET R == {i \in 1..(NSlots - 2) : k.pcb[(k.cur + i) % NSlots].state = "READY"}
    IN IF R = {} THEN None ELSE (k.cur + Min(R)) % NSlots

find_next_ready(k) ==
    LET R == {i \in 1..NSlots : k.pcb[(k.cur + i) % NSlots].state = "READY"}
    IN IF R = {} THEN None ELSE (k.cur + Min(R)) % NSlots

schedule(k) ==
    LET n == find_next_ready(k)
        old == k.pcb[k.cur].state
        k1 == [k EXCEPT !.pcb[k.cur].in_kern = FALSE,
                        !.pcb[k.cur].state = IF old = "RUNNING" THEN "READY" ELSE old,
                        !.pcb[n].state = "RUNNING",
                        !.cur = n]
    IN IF n \in {None, k.cur} THEN k
       ELSE IF k.sys /\ k.pcb[k.cur].is_user THEN context_switch_kern(k1, k.cur, n)
       ELSE context_switch(k1, k.cur, n)

\* A system call begins and ends.
Entered(k) == [k EXCEPT !.sys = TRUE]
Returned(k) == Goes([k EXCEPT !.sys = FALSE], k.run, "user", 0)

InUser == run # None /\ at[run].loc = "user"

-----------------------------------------------------------------------------
(* Creation.  Each takes a slot, gives it the next pid and an iretq frame.  *)

\* A creation in slot s is part of the workload.
MayUse(s) == s # None /\ next_pid <= MaxPid /\ ("recycle" \in Workload \/ s = next_pid)

\* What proc_spawn, proc_fork and process_create_user all write.
Filled(old, parent, space) ==
    [old EXCEPT !.pid = next_pid, !.state = "READY", !.is_user = TRUE,
                !.parent_pid = parent, !.pml4 = space,
                !.kernel_rsp = Ctx("frame", next_pid)]

Created(k, s, new) == Goes([k EXCEPT !.pcb[s] = new], next_pid, "new", 0)

Counted(s) ==
    /\ next_pid' = next_pid + 1
    /\ pcb_count' = Max({pcb_count, s + 1})

\* th_parent_pid is reset, in_kern is not.
proc_spawn(k, s) ==
    Created(k, s, [Filled(k.pcb[s], k.cur, next_pid) EXCEPT !.th_parent_pid = None])

\* The same fields, but the slot comes from alloc_pcb and the address space is
\* the kernel's own.
process_create_user(k, s) ==
    Created(k, s, [Filled(k.pcb[s], k.cur, 0) EXCEPT !.th_parent_pid = None])

\* Neither in_kern nor th_parent_pid is written.
proc_fork ==
    LET me == process_current(Kernel)
    IN /\ InUser /\ me # None /\ MayUse(FirstEmpty)
       /\ Become(Returned(Created(Kernel, FirstEmpty,
                     Filled(pcb[FirstEmpty], pcb[me].pid, next_pid))))
       /\ Counted(FirstEmpty)
       /\ UNCHANGED need_sched

\* The whole PCB is cleared; the thread shares the address space.
proc_clone_thread ==
    LET me == process_current(Kernel)
    IN /\ InUser /\ me # None /\ MayUse(FirstEmpty)
       /\ Become(Returned(Created(Kernel, FirstEmpty,
                     [Filled(EmptyPcb, pcb[me].pid, pcb[me].pml4)
                         EXCEPT !.th_parent_pid = pcb[me].pid])))
       /\ Counted(FirstEmpty)
       /\ UNCHANGED need_sched

-----------------------------------------------------------------------------
(* The end of a process or of a thread.                                     *)

\* The first BLOCKED slot whose pid is the parent of the process becomes READY.
proc_wake_parent(k, pid) ==
    LET W == {i \in Slots : /\ k.pcb[i].state = "BLOCKED"
                            /\ \E j \in Slots : /\ k.pcb[j].pid = pid
                                                /\ k.pcb[j].parent_pid = k.pcb[i].pid}
    IN IF W = {} THEN k ELSE [k EXCEPT !.pcb[Min(W)].state = "READY"]

\* ZOMBIE, then on with the parent's slot (the parent's pid is used as an index),
\* whatever is in it.  Without a current process the caller halts.
process_exit_current(k) ==
    LET me == process_current(k)
        k1 == proc_wake_parent(Goes([k EXCEPT !.pcb[me].state = "ZOMBIE"], k.run, "zombie", 0),
                               k.pcb[me].pid)
        parent == k1.pcb[me].parent_pid
        old == k1.pcb[parent].state
        k2 == [k1 EXCEPT !.pcb[parent].state = IF old = "BLOCKED" THEN "READY" ELSE old,
                         !.cur = parent]
    IN IF me = None THEN Goes(k, k.run, "hlt", 0)
       ELSE context_switch(k2, me, parent)

\* The slot becomes EMPTY at once; clear_tid lets the joiner go (at = "gone").
\* With no READY process schedule() comes back, and the caller halts.
proc_thread_exit(k) ==
    LET me == process_current(k)
        k1 == Goes([k EXCEPT !.pcb[me].state = "EMPTY"], k.run, "gone", 0)
        k2 == schedule(k1)
    IN IF k2 = k1 THEN Goes(k1, k.run, "hlt", 0) ELSE k2

IsThread(k) == LET me == process_current(k)
               IN me # None /\ k.pcb[me].th_parent_pid >= 0

Children(p) == {s \in Slots : pcb[s].state \notin {"EMPTY", "ZOMBIE"} /\ pcb[s].parent_pid = p
                              /\ pcb[s].pid # p}

\* A program may end here: it has no child or thread left, unless the workload
\* has orphans.
MayEnd(P) == "orphan" \in Workload \/ \A p \in P : Children(p) \subseteq {s \in Slots : pcb[s].pid \in P}

\* The system call exit.
sys_exit ==
    /\ InUser /\ MayEnd({run})
    /\ Become(IF IsThread(Entered(Kernel)) THEN proc_thread_exit(Entered(Kernel))
              ELSE process_exit_current(Entered(Kernel)))
    /\ UNCHANGED <<next_pid, pcb_count, need_sched>>

\* The other slots in use with the page tables of the caller.
Siblings(k) ==
    LET me == process_current(k)
    IN IF me = None THEN {}
       ELSE {s \in Slots \ {me} : k.pcb[s].state # "EMPTY" /\ k.pcb[s].pml4 = k.pcb[me].pml4}

\* exit_group empties them without a word.
Emptied(k) ==
    LET S == Siblings(k)
        P == {k.pcb[s].pid : s \in S} \ {0}
    IN [k EXCEPT !.pcb = [s \in Slots |-> IF s \in S THEN [k.pcb[s] EXCEPT !.state = "EMPTY"]
                                          ELSE k.pcb[s]],
                 !.at = [p \in Pids |-> IF p \in P THEN At("killed", 0) ELSE k.at[p]]]

\* The system call exit_group.
sys_exit_group ==
    LET k == Entered(Kernel)
    IN /\ InUser
       /\ MayEnd(IF IsThread(k) THEN {run} ELSE {run} \cup {pcb[s].pid : s \in Siblings(k)})
       /\ "group0" \in Workload \/ IsThread(k) \/ \A s \in Siblings(k) : s # 0
       /\ Become(IF IsThread(k) THEN proc_thread_exit(k)
                 ELSE process_exit_current(Emptied(k)))
       /\ UNCHANGED <<next_pid, pcb_count, need_sched>>

-----------------------------------------------------------------------------
(* Waiting: each system call polls, giving the CPU away between two looks.  *)

Stays == UNCHANGED <<next_pid, pcb_count, need_sched>>

\* Mutant: the process is reaped whatever its state.
proc_waitpid_AnyState(k) ==
    LET s == First({t \in Slots : k.pcb[t].pid = k.at[k.run].on})
    IN IF s = None THEN Returned(k)
       ELSE Returned(Goes([k EXCEPT !.pcb[s].state = "EMPTY"], k.at[k.run].on, "reaped", 0))

\* One turn of proc_waitpid: reap the zombie, or schedule() and look again.
proc_waitpid(k) ==
    LET s == First({t \in Slots : k.pcb[t].pid = k.at[k.run].on})
    IN IF s = None THEN Returned(k)
       ELSE IF k.pcb[s].state = "ZOMBIE"
         THEN Returned(Goes([k EXCEPT !.pcb[s].state = "EMPTY"], k.at[k.run].on, "reaped", 0))
       ELSE schedule(k)

\* A process waits for a child, a thread is joined, an empty pipe is read: the
\* first look finds nothing and the CPU is given away (a call that need not wait
\* changes nothing here).
Begin(loc, on) == InUser /\ Become(schedule(Goes(Entered(Kernel), run, loc, on))) /\ Stays

sys_wait4 ==
    \E s \in Slots :
        /\ pcb[s].state # "EMPTY" /\ pcb[s].parent_pid = run /\ pcb[s].th_parent_pid = None
        /\ pcb[s].pid # run
        /\ InUser
        /\ Become(proc_waitpid(Goes(Entered(Kernel), run, "wait", pcb[s].pid)))
        /\ Stays
sys_futex ==
    \E s \in Slots : /\ pcb[s].state # "EMPTY" /\ pcb[s].th_parent_pid = run
                     /\ Begin("join", pcb[s].pid)
sys_read == "poll" \in Workload /\ Begin("read", 0)

Polls(loc) == run # None /\ at[run].loc = loc

WaitTurn == Polls("wait") /\ Become(proc_waitpid(Kernel)) /\ Stays

\* One turn of the futex loop: the word changes when the thread has gone.
JoinTurn ==
    /\ Polls("join")
    /\ Become(IF at[at[run].on].loc = "gone" THEN Returned(Kernel) ELSE schedule(Kernel))
    /\ Stays
\* The safety net of the futex loop: it gives up after 4000000 turns.
JoinGivesUp ==
    /\ "poll" \in Workload
    /\ Polls("join") /\ at[at[run].on].loc # "gone"
    /\ Become(Returned(Kernel))
    /\ Stays

\* One turn of the blocking read; module Pipes says when there is data.
ReadTurn == Polls("read") /\ Become(schedule(Kernel)) /\ Stays
ReadDone == Polls("read") /\ Become(Returned(Kernel)) /\ Stays

-----------------------------------------------------------------------------
(* The kernel's own thread, and the timer.                                  *)

ShellAt(loc) == run = 0 /\ at[0].loc = loc

\* exec ... &: create, then proc_yield.
exec_bg ==
    /\ ShellAt("loop") /\ MayUse(FirstEmpty)
    /\ Become(schedule(proc_spawn(Kernel, FirstEmpty)))
    /\ Counted(FirstEmpty)
    /\ UNCHANGED need_sched

\* Mutant: current_pid still names the shell.
process_switch_to_KeepsCurrent(k, pid) ==
    LET me == process_current(k)
        n == First({s \in Slots : k.pcb[s].state # "EMPTY" /\ k.pcb[s].pid = pid})
        k1 == Goes([k EXCEPT !.pcb[k.cur].state = "BLOCKED", !.pcb[n].state = "RUNNING"],
                   k.run, "fg", pid)
    IN IF me = None THEN Goes(k, k.run, "fg", pid) ELSE context_switch(k1, me, n)

\* process_switch_to: the shell is BLOCKED and the process runs at once; without
\* a current process it returns.
process_switch_to(k, pid) ==
    LET me == process_current(k)
        n == First({s \in Slots : k.pcb[s].state # "EMPTY" /\ k.pcb[s].pid = pid})
        k1 == Goes([k EXCEPT !.pcb[k.cur].state = "BLOCKED", !.pcb[n].state = "RUNNING",
                             !.cur = pid], k.run, "fg", pid)
    IN IF me = None THEN Goes(k, k.run, "fg", pid) ELSE context_switch(k1, me, n)

exec_elf ==
    /\ ShellAt("loop") /\ MayUse(FirstEmpty)
    /\ Become(process_switch_to(proc_spawn(Kernel, FirstEmpty), next_pid))
    /\ Counted(FirstEmpty)
    /\ UNCHANGED need_sched

exec_macho ==
    /\ ShellAt("loop") /\ pcb_count < NSlots /\ MayUse(pcb_count)
    /\ Become(process_switch_to(process_create_user(Kernel, pcb_count), next_pid))
    /\ Counted(pcb_count)
    /\ UNCHANGED need_sched

\* process_switch_to comes back: the exit code is printed, the stack is freed.
exec_returns == ShellAt("fg") /\ Become(Goes(Kernel, 0, "loop", 0)) /\ Stays

\* kmain's loop: schedule() if the timer asked for it, and proc_yield.
kmain_loop ==
    /\ ShellAt("loop")
    /\ Become(schedule(Kernel))
    /\ need_sched' = FALSE
    /\ UNCHANGED <<next_pid, pcb_count>>

\* IRQ0 in ring 3; in ring 0 it is only acknowledged.
timer_tick_handler ==
    /\ InUser
    /\ need_sched' = TRUE
    /\ UNCHANGED <<pcb, at, run, current_pid, next_pid, pcb_count, g_in_syscall>>

Next ==
    \/ proc_fork \/ proc_clone_thread \/ sys_exit \/ sys_exit_group
    \/ sys_wait4 \/ WaitTurn \/ sys_futex \/ JoinTurn \/ JoinGivesUp
    \/ sys_read \/ ReadTurn \/ ReadDone
    \/ exec_bg \/ exec_elf \/ exec_macho \/ exec_returns \/ kmain_loop
    \/ timer_tick_handler

Spec == Init /\ [][Next]_vars

\* The CPU does not stop: whatever kernel code is on it takes its next step, and
\* the timer ticks in ring 3.
KernelSteps == WaitTurn \/ JoinTurn \/ ReadTurn \/ ReadDone \/ kmain_loop \/ exec_returns
KernelFairness == WF_vars(KernelSteps) /\ WF_vars(timer_tick_handler)

KernelSpec == Spec /\ KernelFairness

\* The flow on the CPU takes its next step if that changes anything: no program
\* computes for ever, nor keeps creating others instead of waiting or ending.
\* (With the workload "poll" a program could also read for ever.)  CanProgress is
\* ENABLED <<Progress>>_vars written out, so this is weak fairness of Progress.
Progress == KernelSteps \/ sys_wait4 \/ sys_futex \/ sys_exit \/ sys_exit_group
CanProgress ==
    \/ InUser
    \/ Polls("wait") /\ proc_waitpid(Kernel) # Kernel
    \/ Polls("join") /\ (at[at[run].on].loc = "gone" \/ schedule(Kernel) # Kernel)
    \/ ShellAt("loop") /\ (need_sched \/ schedule(Kernel) # Kernel)
    \/ ShellAt("fg")
FairSpec == Spec /\ ([]<>~CanProgress \/ []<><<Progress>>_vars)

-----------------------------------------------------------------------------
Contexts == [kind : {"none", "frame", "cflow", "rbx"}, of : Pids \cup {None}]

\* Every variable keeps its type; above all current_pid is always the index of
\* a slot and pcb_count never exceeds the table, which the code indexes with them.
TypeOK ==
    /\ pcb \in [Slots -> [pid : Pids \cup {None}, state : States, is_user : BOOLEAN,
                          parent_pid : Pids, th_parent_pid : Pids \cup {None},
                          in_kern : BOOLEAN, pml4 : Pids, kernel_rsp : Contexts]]
    /\ at \in [Pids -> [loc : Locations, on : Pids]]
    /\ run \in Pids \cup {None}
    /\ current_pid \in Slots
    /\ next_pid \in 1..(MaxPid + 1)
    /\ pcb_count \in 1..NSlots
    /\ need_sched \in BOOLEAN /\ g_in_syscall \in BOOLEAN

\* Whenever a program runs, process_current() finds the PCB of that program:
\* every system call looks up its descriptors, its memory map and its exit there.
CurrentIsRunning ==
    InUser => LET me == process_current(Kernel)
              IN me # None /\ pcb[me].pid = run

\* Every READY process that does not run can be resumed: its kernel_rsp is its
\* own context, of the kind that in_kern says, through any mixture of fork,
\* clone, exits, waits and foreground or background exec.
ReadyCanResume ==
    \A s \in Slots :
        LET p == pcb[s]
        IN p.state = "READY" /\ p.pid # run =>
             p.kernel_rsp = Ctx(IF p.in_kern \/ ~p.is_user THEN "cflow" ELSE "frame", p.pid)

\* The CPU never goes on with a context that is not there, and no system call
\* ends in the hlt loop that follows an exit that came back.
CpuNeverLost == run # None /\ \A p \in Pids : at[p].loc # "hlt"

\* wait4 "blocks until the child is a zombie": a process is reaped once, as a
\* zombie, by its parent, and a wait that comes back has reaped its child.
WaitReaps ==
    [][\A p \in Pids :
          /\ at[p].loc # "reaped" /\ at'[p].loc = "reaped" =>
               /\ at[p].loc = "zombie"
               /\ \E s \in Slots : pcb[s].pid = p /\ pcb[s].parent_pid = run
          /\ at[p].loc = "wait" /\ at'[p].loc = "user" => at'[at[p].on].loc = "reaped"]_vars

\* The shell's exec says "process ended" and frees the stack of the program: it
\* goes on only when the program it started in the foreground has ended.
ForegroundEnded == run = 0 /\ at[0].loc = "fg" => at[at[0].on].loc = "zombie"

\* exit_group "kills sibling threads": the only slots it empties are threads'.
GroupEmptiesThreads ==
    [][\A s \in Slots : pcb[s].state \notin {"EMPTY", "ZOMBIE"} /\ pcb'[s].state = "EMPTY"
          => pcb[s].th_parent_pid # None]_vars

\* A wait4 for a child returns, whatever else runs: the polling parent always
\* gets the CPU back, and so does the child it waits for.
WaitReturns == \A p \in Pids : at[p].loc = "wait" ~> at[p].loc # "wait"

\* The timer "calls schedule() on every tick": a READY process gets the CPU.
ReadyRuns == \A s \in Slots \ {0} : pcb[s].state = "READY" ~> pcb[s].state # "READY"
=============================================================================
