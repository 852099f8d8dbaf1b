---------------------------- MODULE ContextSwitch ----------------------------
(***************************************************************************)
(* How the kernel leaves one process and goes on with another: the tail of  *)
(* schedule() (process.c), context_switch and context_switch_kern           *)
(* (switch.asm), the two ways into the kernel (syscall_entry.asm and the     *)
(* int 0x80 handler of idt.asm) and arch_prctl, for a fixed set of live      *)
(* processes.                                                               *)
(*                                                                         *)
(* Slot 0 is the kernel's own thread (kmain; is_user = 0), the others are    *)
(* user processes.  All of them stay READY or RUNNING: a process that has to *)
(* wait polls, calling schedule() inside its system call.  Which READY slot  *)
(* find_next_ready picks is left open; ProcessTable has the round robin, and *)
(* the creation and the end of processes.                                   *)
(***************************************************************************)
EXTENDS Integers

CONSTANTS
    NProc,             \* live slots, 0..NProc-1
    TlsValues          \* values a process may load into FS.base

ASSUME NProcAssumption == NProc \in Nat \ {0, 1}

Slots == 0..(NProc - 1)
Users == Slots \ {0}
NoTls == "none"

VARIABLES
    cur,               \* current_pid
    at,                \* what each process is doing: where its control is
    saved,             \* pcb.kernel_rsp: the kind of context it points to
    in_kern,           \* pcb.in_kern
    g_in_syscall,      \* the flag of that name
    current_rsp0,      \* the variable of that name
    tss_rsp0,          \* the RSP0 field of the TSS
    kstack,            \* the kernel stack each process entered the kernel on
    user_rsp,          \* the stack pointer each process has in ring 3
    entry,             \* how the process came into the kernel
    fs_base,           \* pcb.fs_base
    msr_fs,            \* the FS.base register
    tls                \* history: the value the process itself set

stacks == <<current_rsp0, tss_rsp0, kstack, user_rsp, entry>>
fs == <<fs_base, msr_fs, tls>>
vars == <<cur, at, saved, in_kern, g_in_syscall, stacks, fs>>

Top(s) == <<"top", s>>         \* pcb.rsp0: the top of the kernel stack of s
Stack(s) == <<"user", s>>      \* a stack address of s in ring 3
Boot == <<"boot", 0>>          \* what current_rsp0 and the TSS hold at boot

\* A process that was created and never ran; in ring 3; in a system call; the
\* kernel's own thread; or restored from something that is not its context.
Control == {"new", "user", "kern", "thread", "lost"}

\* What kernel_rsp can point to: an iretq frame of 20 words; a C stack whose top
\* is the return address into schedule(); nothing useful (RBX of some C frame).
Context == {"frame", "cflow", "rbx"}

-----------------------------------------------------------------------------
\* proc_spawn has built an iretq frame for every user process, kmain runs.
Init ==
    /\ cur = 0
    /\ at = [s \in Slots |-> IF s = 0 THEN "thread" ELSE "new"]
    /\ saved = [s \in Slots |-> IF s = 0 THEN "cflow" ELSE "frame"]
    /\ in_kern = [s \in Slots |-> FALSE]
    /\ g_in_syscall = FALSE
    /\ current_rsp0 = Boot
    /\ tss_rsp0 = Boot
    /\ kstack = [s \in Slots |-> Boot]
    /\ user_rsp = [s \in Slots |-> Stack(s)]
    /\ entry = [s \in Slots |-> "none"]
    /\ fs_base = [s \in Slots |-> NoTls]
    /\ msr_fs = NoTls
    /\ tls = [s \in Slots |-> NoTls]

\* The instruction syscall exchanges RSP and current_rsp0; int 0x80 takes its
\* stack from the TSS.  Both end in syscall_handler, which raises the flag.
Enter(s, how) ==
    /\ cur = s /\ at[s] = "user"
    /\ at' = [at EXCEPT ![s] = "kern"]
    /\ entry' = [entry EXCEPT ![s] = how]
    /\ kstack' = [kstack EXCEPT ![s] = IF how = "syscall" THEN current_rsp0 ELSE tss_rsp0]
    /\ current_rsp0' = IF how = "syscall" THEN user_rsp[s] ELSE current_rsp0
    /\ g_in_syscall' = TRUE
    /\ UNCHANGED <<cur, saved, in_kern, tss_rsp0, user_rsp, fs>>

\* Mutant: the exit path loads the user's RSP without storing the kernel's.
LeaveWithoutExchange(s) ==
    /\ cur = s /\ at[s] = "kern"
    /\ at' = [at EXCEPT ![s] = "user"]
    /\ g_in_syscall' = FALSE
    /\ user_rsp' = IF entry[s] = "syscall" THEN [user_rsp EXCEPT ![s] = current_rsp0]
                   ELSE user_rsp
    /\ UNCHANGED <<cur, saved, in_kern, current_rsp0, tss_rsp0, kstack, entry, fs>>

\* The end of syscall_handler lowers the flag; syscall_entry exchanges RSP and
\* current_rsp0 again, int 0x80 takes RSP from its iretq frame.
Leave(s) ==
    /\ cur = s /\ at[s] = "kern"
    /\ at' = [at EXCEPT ![s] = "user"]
    /\ g_in_syscall' = FALSE
    /\ IF entry[s] = "syscall"
         THEN /\ user_rsp' = [user_rsp EXCEPT ![s] = current_rsp0]
              /\ current_rsp0' = kstack[s]
         ELSE UNCHANGED <<user_rsp, current_rsp0>>
    /\ UNCHANGED <<cur, saved, in_kern, tss_rsp0, kstack, entry, fs>>

\* ARCH_SET_FS writes the PCB and the register.
arch_prctl(s, v) ==
    /\ cur = s /\ at[s] = "kern"
    /\ fs_base' = [fs_base EXCEPT ![s] = v]
    /\ msr_fs' = v
    /\ tls' = [tls EXCEPT ![s] = v]
    /\ UNCHANGED <<cur, at, saved, in_kern, g_in_syscall, stacks>>

\* What slot n does next when the CPU takes up its context: .restore_in_kern
\* and .kernel_proc return into C, the rest is 15 pops and an iretq.
Resumed(n) ==
    IF in_kern[n] \/ n = 0
      THEN IF saved[n] = "cflow" THEN (IF n = 0 THEN "thread" ELSE "kern") ELSE "lost"
      ELSE IF saved[n] = "frame" THEN "user" ELSE "lost"

\* Mutants: the process is not marked; RBX is saved as in context_switch.
context_switch_kern_Unmarked(s, n) ==
    /\ saved' = [saved EXCEPT ![s] = "cflow"]
    /\ in_kern' = [in_kern EXCEPT ![s] = FALSE, ![n] = FALSE]
    /\ UNCHANGED <<fs_base, msr_fs>>
context_switch_kern_SavesRbx(s, n) ==
    /\ saved' = [saved EXCEPT ![s] = "rbx"]
    /\ in_kern' = [in_kern EXCEPT ![s] = TRUE, ![n] = FALSE]
    /\ UNCHANGED <<fs_base, msr_fs>>

\* context_switch_kern saves RSP, sets in_kern, and leaves FS.base alone.
context_switch_kern(s, n) ==
    /\ saved' = [saved EXCEPT ![s] = "cflow"]
    /\ in_kern' = [in_kern EXCEPT ![s] = TRUE, ![n] = FALSE]
    /\ UNCHANGED <<fs_base, msr_fs>>

\* context_switch saves RBX for a user process and RSP for the kernel's own, and
\* FS.base; it restores FS.base only when it does not go to .restore_in_kern.
\* schedule() has cleared in_kern of the process it leaves.
context_switch(s, n) ==
    /\ saved' = [saved EXCEPT ![s] = IF s = 0 THEN "cflow" ELSE "rbx"]
    /\ in_kern' = [in_kern EXCEPT ![s] = FALSE, ![n] = FALSE]
    /\ fs_base' = [fs_base EXCEPT ![s] = msr_fs]
    /\ msr_fs' = IF in_kern[n] THEN msr_fs ELSE fs_base[n]

\* Mutant: the timer switches a process away in ring 3.
schedule_Preempts(s, n) ==
    /\ cur = s /\ at[s] \in {"kern", "thread", "user"}
    /\ cur' = n
    /\ tss_rsp0' = Top(n)
    /\ current_rsp0' = Top(n)
    /\ at' = [at EXCEPT ![n] = Resumed(n)]
    /\ IF g_in_syscall /\ s # 0 THEN context_switch_kern(s, n)
       ELSE context_switch(s, n)
    /\ UNCHANGED <<g_in_syscall, kstack, user_rsp, entry, tls>>

\* schedule(), called by the polling loop of a system call or by kmain's loop,
\* with find_next_ready answering n.
schedule(s, n) ==
    /\ cur = s /\ at[s] \in {"kern", "thread"}
    /\ cur' = n
    /\ tss_rsp0' = Top(n)
    /\ current_rsp0' = Top(n)
    /\ at' = [at EXCEPT ![n] = Resumed(n)]
    /\ IF g_in_syscall /\ s # 0 THEN context_switch_kern(s, n)
       ELSE context_switch(s, n)
    /\ UNCHANGED <<g_in_syscall, kstack, user_rsp, entry, tls>>

Next ==
    \/ \E s \in Users, how \in {"syscall", "int80"} : Enter(s, how)
    \/ \E s \in Users : Leave(s)
    \/ \E s \in Users, v \in TlsValues : arch_prctl(s, v)
    \/ \E s \in Slots : \E n \in Slots \ {s} : schedule(s, n)

Spec == Init /\ [][Next]_vars

-----------------------------------------------------------------------------
Addresses == {Boot} \cup {Top(s) : s \in Slots} \cup {Stack(s) : s \in Slots}

\* Every variable keeps its type, and only one process is in ring 3 at a time:
\* schedule() never leaves a process whose control is in user mode.
TypeOK ==
    /\ cur \in Slots
    /\ at \in [Slots -> Control]
    /\ saved \in [Slots -> Context]
    /\ in_kern \in [Slots -> BOOLEAN]
    /\ g_in_syscall \in BOOLEAN
    /\ current_rsp0 \in Addresses
    /\ tss_rsp0 \in Addresses
    /\ kstack \in [Slots -> Addresses]
    /\ user_rsp \in [Slots -> Addresses]
    /\ entry \in [Slots -> {"none", "syscall", "int80"}]
    /\ fs_base \in [Slots -> TlsValues \cup {NoTls}]
    /\ msr_fs \in TlsValues \cup {NoTls}
    /\ tls \in [Slots -> TlsValues \cup {NoTls}]
    /\ \A s \in Slots : at[s] = "user" => s = cur

\* schedule() says of a process that blocks inside a system call that its switch
\* "preserves the C flow": whatever the interleaving, no process is ever resumed
\* from a kernel_rsp that is not its own context of the right kind.
FlowPreserved == \A s \in Slots : at[s] # "lost"

\* A system call runs on the kernel stack of the process that made it, whichever
\* of the two entries it used and whatever was switched before (current_rsp0 and
\* the TSS are both right whenever a process is in ring 3).
OwnKernelStack == \A s \in Users : at[s] = "kern" => kstack[s] = Top(s)

\* A process never leaves a system call with a context it is to be resumed from:
\* in_kern is set exactly on the processes that wait inside a system call.
MarkedIffWaiting ==
    \A s \in Slots : in_kern[s] <=> (at[s] = "kern" /\ s # cur)

\* The exit path of syscall_entry "restores the user RSP the xchg saved".
UserRspOwn == \A s \in Users : at[s] = "user" => user_rsp[s] = Stack(s)

\* FS.base is "saved and restored per process": a process that runs in ring 3
\* finds there the value it set itself.
FsBaseOwn == \A s \in Users : at[s] = "user" /\ tls[s] # NoTls => msr_fs = tls[s]
=============================================================================
