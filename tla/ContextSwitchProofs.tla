------------------------- MODULE ContextSwitchProofs -------------------------
(***************************************************************************)
(* The switch between processes is right for any number of processes: the   *)
(* safety invariants of ContextSwitch, proved.                              *)
(*                                                                         *)
(* None of them is inductive alone.  A process in the kernel can be resumed  *)
(* because it was marked when it left, it was marked because the flag was up *)
(* when it called schedule(), and the flag was up because every way back     *)
(* into C, too, starts from a system call: IInv says these together, and     *)
(* says what current_rsp0 and the TSS hold while a process is in ring 3.     *)
(***************************************************************************)
EXTENDS ContextSwitch, TLAPS

\* The context a process that does not run was saved with.
Parked(s) ==
    CASE at[s] = "new"    -> saved[s] = "frame" /\ ~in_kern[s]
      [] at[s] = "kern"   -> saved[s] = "cflow" /\ in_kern[s]
      [] at[s] = "thread" -> saved[s] = "cflow" /\ ~in_kern[s]
      [] OTHER            -> FALSE

\* The inductive invariant.
IInv ==
    /\ TypeOK
    /\ \A s \in Slots : at[s] = "thread" <=> s = 0
    /\ at[cur] \in {"user", "kern", "thread"}
    /\ ~in_kern[cur]
    /\ at[cur] # "user" => \A s \in Slots : at[s] = "kern" => g_in_syscall
    /\ \A s \in Slots : s # cur => Parked(s)
    /\ cur # 0 => tss_rsp0 = Top(cur)
    /\ at[cur] = "user" \/ (at[cur] = "kern" /\ entry[cur] # "syscall")
         => current_rsp0 = Top(cur)
    /\ OwnKernelStack

-----------------------------------------------------------------------------

\* The boot process has a slot.
LEMMA ZeroIsASlot == 0 \in Slots
  BY NProcAssumption DEF Slots

\* Boot establishes the invariant: nobody waits in the kernel yet.
LEMMA InitIInv == Init => IInv
<1>1. SUFFICES ASSUME Init PROVE IInv
  OBVIOUS
<1>2. TypeOK
  <2>1. Boot \in Addresses /\ user_rsp \in [Slots -> Addresses]
    BY <1>1 DEF Init, Addresses
  <2>2. QED
    BY ZenonT(40), <1>1, <2>1, ZeroIsASlot DEF Init, TypeOK, Control, Context
<1>3. \A s \in Slots : s # cur => Parked(s)
  BY <1>1 DEF Init, Parked
<1>4. QED
  BY <1>1, <1>2, <1>3, ZeroIsASlot DEF Init, IInv, OwnKernelStack, Users

\* A process that is taken up again goes on where it was: in C if it waited in a
\* system call or is the kernel's own thread, in ring 3 if it never ran.
LEMMA ResumedRight ==
  ASSUME IInv, NEW n \in Slots, n # cur
  PROVE  /\ Resumed(n) = IF at[n] = "new" THEN "user" ELSE at[n]
         /\ at[n] \in {"new", "kern", "thread"}
  BY DEF IInv, TypeOK, Parked, Resumed, Control

\* A system call by syscall or by int 0x80 saves the program on the kernel stack
\* of its own process.
LEMMA EnterIInv ==
  ASSUME IInv, NEW s \in Users, NEW how \in {"syscall", "int80"}, Enter(s, how)
  PROVE  IInv'
<1>1. TypeOK'
  BY DEF IInv, TypeOK, Enter, Users, Control, fs
<1>2. /\ \A t \in Slots : at'[t] = "thread" <=> t = 0
      /\ at'[cur'] \in {"user", "kern", "thread"}
      /\ at'[cur'] # "user" => \A t \in Slots : at'[t] = "kern" => g_in_syscall'
      /\ ~in_kern'[cur']
      /\ at'[cur'] = "user" \/ (at'[cur'] = "kern" /\ entry'[cur'] # "syscall")
           => current_rsp0' = Top(cur')
      /\ cur' # 0 => tss_rsp0' = Top(cur')
  BY DEF IInv, TypeOK, Enter, Users
<1>3. \A t \in Slots : t # cur' => Parked(t)'
  BY DEF IInv, TypeOK, Enter, Users, Parked
<1>4. OwnKernelStack'
  BY DEF IInv, TypeOK, Enter, Users, OwnKernelStack
<1>5. QED
  BY <1>1, <1>2, <1>3, <1>4 DEF IInv

\* sysret and iretq bring back the program that entered, and clear nothing that
\* another process has saved.
LEMMA LeaveIInv ==
  ASSUME IInv, NEW s \in Users, Leave(s)
  PROVE  IInv'
<1>1. TypeOK'
  <2>1. CASE entry[s] = "syscall"
    <3>1. user_rsp' = [user_rsp EXCEPT ![s] = current_rsp0] /\ current_rsp0' = kstack[s]
      BY <2>1 DEF Leave
    <3>2. user_rsp' \in [Slots -> Addresses] /\ current_rsp0' \in Addresses
      BY <3>1 DEF IInv, TypeOK, Users
    <3>3. QED
      BY ZenonT(40), <3>2 DEF IInv, TypeOK, Leave, Users, Control, fs
  <2>2. CASE entry[s] # "syscall"
    BY ZenonT(40), <2>2 DEF IInv, TypeOK, Leave, Users, Control, fs
  <2>3. QED
    BY <2>1, <2>2
<1>2. kstack[s] = Top(s)
  BY DEF IInv, Leave, OwnKernelStack
<1>3. /\ \A t \in Slots : at'[t] = "thread" <=> t = 0
      /\ at'[cur'] \in {"user", "kern", "thread"}
      /\ at'[cur'] # "user" => \A t \in Slots : at'[t] = "kern" => g_in_syscall'
      /\ ~in_kern'[cur']
      /\ cur' # 0 => tss_rsp0' = Top(cur')
  BY DEF IInv, TypeOK, Leave, Users
<1>4. /\ at'[cur'] = "user"
      /\ current_rsp0' = Top(cur')
  BY <1>2 DEF IInv, TypeOK, Leave, Users
<1>5. \A t \in Slots : t # cur' => Parked(t)'
  BY DEF IInv, TypeOK, Leave, Users, Parked
<1>6. OwnKernelStack'
  BY DEF IInv, TypeOK, Leave, Users, OwnKernelStack
<1>7. QED
  BY <1>1, <1>3, <1>4, <1>5, <1>6 DEF IInv

\* arch_prctl changes the thread pointer of the caller and nothing that is saved.
LEMMA PrctlIInv ==
  ASSUME IInv, NEW s \in Users, NEW v \in TlsValues, arch_prctl(s, v)
  PROVE  IInv'
<1>1. TypeOK'
  BY DEF IInv, TypeOK, arch_prctl, Users, stacks
<1>2. QED
  BY <1>1 DEF IInv, TypeOK, arch_prctl, stacks, OwnKernelStack, Parked

\* schedule() parks the process it leaves and resumes the next one from what that
\* one parked, whether it waits in the kernel or has not run yet.
LEMMA ScheduleIInv ==
  ASSUME IInv, NEW s \in Slots, NEW n \in Slots \ {s}, schedule(s, n)
  PROVE  IInv'
<1>1. /\ cur = s /\ cur' = n
      /\ at' = [at EXCEPT ![n] = IF at[n] = "new" THEN "user" ELSE at[n]]
      /\ at[n] \in {"new", "kern", "thread"}
  BY ZenonT(40), ResumedRight DEF schedule
<1>2. \/ at[s] = "kern" /\ s # 0 /\ g_in_syscall
      \/ at[s] = "thread" /\ s = 0
  BY DEF IInv, TypeOK, schedule
<1>3. CASE at[s] = "kern" /\ s # 0 /\ g_in_syscall
  <2>1. context_switch_kern(s, n)
    BY <1>3 DEF schedule
  <2>2. TypeOK'
    <3>1. /\ saved' \in [Slots -> Context] /\ in_kern' \in [Slots -> BOOLEAN]
          /\ UNCHANGED <<fs_base, msr_fs>>
      BY ZenonT(40), <2>1 DEF IInv, TypeOK, context_switch_kern, Context
    <3>2. /\ at' \in [Slots -> Control] /\ cur' \in Slots
          /\ \A t \in Slots : at'[t] = "user" => t = cur'
      BY <1>1, <1>3 DEF IInv, TypeOK, Control
    <3>3. QED
      BY <3>1, <3>2, <1>1 DEF IInv, TypeOK, schedule, Addresses
  <2>3. \A t \in Slots : t # cur' => Parked(t)'
    BY <1>1, <1>3, <2>1 DEF IInv, TypeOK, schedule, context_switch_kern, Parked
  <2>4. /\ \A t \in Slots : at'[t] = "thread" <=> t = 0
        /\ at'[cur'] \in {"user", "kern", "thread"}
        /\ ~in_kern'[cur']
        /\ at'[cur'] # "user" => \A t \in Slots : at'[t] = "kern" => g_in_syscall'
        /\ tss_rsp0' = Top(cur') /\ current_rsp0' = Top(cur')
    BY <1>1, <1>3, <2>1 DEF IInv, TypeOK, schedule, context_switch_kern
  <2>5. OwnKernelStack'
    BY <1>1 DEF IInv, TypeOK, schedule, OwnKernelStack, Users
  <2>6. QED
    BY <2>2, <2>3, <2>4, <2>5 DEF IInv
<1>4. CASE at[s] = "thread" /\ s = 0
  <2>1. context_switch(s, n)
    BY <1>4 DEF schedule
  <2>2. TypeOK'
    <3>1. /\ saved' \in [Slots -> Context] /\ in_kern' \in [Slots -> BOOLEAN]
          /\ fs_base' \in [Slots -> TlsValues \cup {NoTls}]
          /\ msr_fs' \in TlsValues \cup {NoTls}
      BY ZenonT(40), <2>1 DEF IInv, TypeOK, context_switch, Context
    <3>2. /\ at' \in [Slots -> Control] /\ cur' \in Slots
          /\ \A t \in Slots : at'[t] = "user" => t = cur'
      BY <1>1, <1>4 DEF IInv, TypeOK, Control
    <3>3. QED
      BY <3>1, <3>2, <1>1 DEF IInv, TypeOK, schedule, Addresses
  <2>3. \A t \in Slots : t # cur' => Parked(t)'
    BY <1>1, <1>4, <2>1 DEF IInv, TypeOK, schedule, context_switch, Parked
  <2>4. /\ \A t \in Slots : at'[t] = "thread" <=> t = 0
        /\ at'[cur'] \in {"user", "kern", "thread"}
        /\ ~in_kern'[cur']
        /\ at'[cur'] # "user" => \A t \in Slots : at'[t] = "kern" => g_in_syscall'
        /\ tss_rsp0' = Top(cur') /\ current_rsp0' = Top(cur')
    BY <1>1, <1>4, <2>1 DEF IInv, TypeOK, schedule, context_switch
  <2>5. OwnKernelStack'
    BY <1>1 DEF IInv, TypeOK, schedule, OwnKernelStack, Users
  <2>6. QED
    BY <2>2, <2>3, <2>4, <2>5 DEF IInv
<1>5. QED
  BY <1>2, <1>3, <1>4

\* IInv holds in every reachable state: it is inductive, one lemma per action.
THEOREM Inductive == Spec => []IInv
<1>1. IInv /\ [Next]_vars => IInv'
  <2>1. SUFFICES ASSUME IInv, [Next]_vars PROVE IInv'
    OBVIOUS
  <2>2. CASE \E s \in Users, how \in {"syscall", "int80"} : Enter(s, how)
    BY <2>1, <2>2, EnterIInv
  <2>3. CASE \E s \in Users : Leave(s)
    BY <2>1, <2>3, LeaveIInv
  <2>4. CASE \E s \in Users, v \in TlsValues : arch_prctl(s, v)
    BY <2>1, <2>4, PrctlIInv
  <2>5. CASE \E s \in Slots : \E n \in Slots \ {s} : schedule(s, n)
    BY <2>1, <2>5, ScheduleIInv
  <2>6. CASE UNCHANGED vars
    BY <2>1, <2>6 DEF vars, stacks, fs, IInv, TypeOK, OwnKernelStack, Parked
  <2>7. QED
    BY <2>1, <2>2, <2>3, <2>4, <2>5, <2>6 DEF Next
<1>2. QED
  BY InitIInv, <1>1, PTL DEF Spec

\* Every variable of the switch keeps its type, and a process that does not run
\* is never in ring 3, for any number of processes.
THEOREM TypeCorrect == Spec => []TypeOK
  BY Inductive, PTL DEF IInv

\* schedule()'s promise to a process that blocks inside a system call: no process
\* is ever resumed from something that is not its own context.
THEOREM FlowPreservedAlways == Spec => []FlowPreserved
<1>1. IInv => FlowPreserved
  BY DEF IInv, FlowPreserved, Parked
<1>2. QED
  BY Inductive, <1>1, PTL

\* Both entries of the kernel put a system call on the stack of its own process.
THEOREM OwnKernelStackAlways == Spec => []OwnKernelStack
  BY Inductive, PTL DEF IInv

\* in_kern marks exactly the processes that wait inside a system call.
THEOREM MarkedIffWaitingAlways == Spec => []MarkedIffWaiting
<1>1. IInv => MarkedIffWaiting
  BY DEF IInv, TypeOK, MarkedIffWaiting, Parked
<1>2. QED
  BY Inductive, <1>1, PTL
=============================================================================
