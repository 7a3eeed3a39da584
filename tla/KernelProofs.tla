---------------------------- MODULE KernelProofs ----------------------------
(***************************************************************************)
(* For every number of slots, terminals and descriptors, and for every     *)
(* behaviour of users and devices (any Env): the type invariant, and the   *)
(* agreement of curr_process with the executing terminal.  As long as no   *)
(* disorder has happened (orderly, a variable of module Kernel): the page, *)
(* the kernel stacks, the saved contexts, the process table and the        *)
(* descriptors are those of the process they are used for, by one          *)
(* inductive invariant (SlotsInv).                                         *)
(* The programs of module Syscalls run on that kernel: their behaviours    *)
(* implement it, a read of standard input reaches the keyboard, the shell  *)
(* learns how each program ended, and each program ends as its source says *)
(* (by a second invariant, TrackInv).                                      *)
(***************************************************************************)
EXTENDS Syscalls, FiniteSetTheorems, SequenceTheorems, TLAPS

-----------------------------------------------------------------------------
(* Facts about the pieces the actions are built from.                       *)

\* The frame an interrupt leaves is a frame, and the pointer to it a pointer.
LEMMA IrqTyped ==
  ASSUME TypeOK, Interruptible, NEW via \in {"tick", "key"}
  PROVE  /\ IrqStack \in Procs
         /\ IrqFrame(via) \in Frames
         /\ IrqPointer(via) \in Pointers
         /\ LocalsSet(IrqFrame(via))
         /\ IrqFrame(via).user <=> IrqFrame(via).pc = "user"
         /\ IrqFrame(via).pc = cpu.pc
  BY DEF TypeOK, Interruptible, IrqStack, IrqFrame, IrqPointer, Frames, Pointers,
         CPUs, ContextsOK, LocalsSet, Vias, Slots, HaltPCs

\* System call frames and free stacks are frames that need no locals.
LEMMA FrameTyped ==
  ASSUME NEW i \in Insts \cup {0}
  PROVE  /\ Free \in Frames /\ Free.via = "free"
         /\ SyscallFrame(i) \in Frames /\ SyscallFrame(i).via = "syscall"
  BY DEF Free, SyscallFrame, Frames, Vias, PCs, Slots

\* the part of TypeOK that speaks of the stacks
StacksOK(ks) ==
  /\ ks \in [Procs -> Frames]
  /\ \A p \in Procs : ks[p].via \in {"tick", "key"} =>
       LocalsSet(ks[p]) /\ (ks[p].user <=> ks[p].pc = "user")

\* the part of TypeOK that speaks of the CPU
CpuOK(c) ==
  /\ c \in CPUs
  /\ LocalsSet(c)
  /\ c.pc \in HaltPCs \cup {"syscall", "exc"} => c.stack # None

\* Writing a frame onto one stack leaves stacks.
LEMMA StacksUpdate ==
  ASSUME NEW ks, StacksOK(ks), NEW p \in Procs, NEW f \in Frames,
         f.via \in {"tick", "key"} => LocalsSet(f) /\ (f.user <=> f.pc = "user")
  PROVE  StacksOK([ks EXCEPT ![p] = f])
  BY DEF StacksOK

\* A CPU is one if its fields are, and its locals are set where halt reads them.
LEMMA CpuTyped ==
  ASSUME NEW i \in Insts \cup {0}, NEW s \in Procs
  PROVE  /\ CpuOK(InUser(i)) /\ InUser(i).pc = "user"
         /\ CpuOK(Wild) /\ CpuOK(Spin) /\ Wild.pc = "wild" /\ Spin.pc = "spin"
         /\ CpuOK(CpuIn(i, "h_pcb", s)) /\ CpuOK(CpuIn(i, "syscall", s))
         /\ CpuOK(CpuIn(i, "exc", s))
  BY DEF CpuOK, CPUs, InUser, Wild, Spin, CpuIn, LocalsSet, PCs, HaltPCs, Slots, Procs, None

\* Whatever stack pointer is loaded, the CPU ends in a context of the model.
LEMMA ResumeTyped ==
  ASSUME NEW ks, StacksOK(ks), NEW ptr \in Pointers, Resume(ptr, ks)
  PROVE  CpuOK(cpu') /\ StacksOK(kstack')
<1>1. CASE ptr.stack # None /\ ks[ptr.stack].via = ptr.via /\ ks[ptr.stack].user = ptr.user
             /\ ptr.via \in {"tick", "key"}
  <2> DEFINE f == ks[ptr.stack]
  <2>1. ptr.stack \in Procs BY <1>1 DEF Pointers, Slots
  <2>2. f \in Frames /\ LocalsSet(f) /\ (f.user <=> f.pc = "user")
    BY <1>1, <2>1 DEF StacksOK
  <2>3. /\ cpu' = [inst |-> f.inst, pc |-> f.pc,
                   stack |-> IF f.user THEN None ELSE ptr.stack,
                   child |-> f.child, ppid |-> f.ppid]
        /\ kstack' = [ks EXCEPT ![ptr.stack] = IF f.user THEN Free ELSE SyscallFrame(f.inst)]
    BY <1>1 DEF Resume
  <2>4. CpuOK(cpu')
    BY <2>1, <2>2, <2>3 DEF CpuOK, CPUs, Frames, LocalsSet, Slots, HaltPCs, Procs, None
  <2>5. f.inst \in Insts \cup {0} BY <2>2 DEF Frames
  <2>6. StacksOK(kstack')
    <3>1. CASE f.user BY <3>1, <2>1, <2>3, <2>5, FrameTyped, StacksUpdate
    <3>2. CASE ~f.user BY <3>2, <2>1, <2>3, <2>5, FrameTyped, StacksUpdate
    <3> QED BY <3>1, <3>2
  <2> QED BY <2>4, <2>6
<1>2. CASE ~(ptr.stack # None /\ ks[ptr.stack].via = ptr.via /\ ks[ptr.stack].user = ptr.user
             /\ ptr.via \in {"tick", "key"})
  <2>1. cpu' = Wild /\ kstack' = ks BY <1>2 DEF Resume
  <2>2. CpuOK(Wild)
    BY DEF CpuOK, CPUs, Wild, CpuIn, LocalsSet, PCs, HaltPCs, Slots, None
  <2> QED BY <2>1, <2>2
<1> QED BY <1>1, <1>2
-----------------------------------------------------------------------------
(* TypeOK without the stacks and the CPU.                                   *)
RestOK ==
  /\ process_array \in [Procs -> BOOLEAN]
  /\ curr_process \in Procs
  /\ current_pcb \in Slots
  /\ ppid \in [Procs -> Slots]
  /\ esp_exec \in [Procs -> Slots]
  /\ esp_switch \in [Procs -> Pointers]
  /\ fds \in [Procs -> [FDs -> Flags]]
  /\ active \in [Terms -> BOOLEAN]
  /\ current_process \in [Terms -> Slots]
  /\ curr_terminal_number \in Terms
  /\ curr_term \in Terms
  /\ page \in Slots
  /\ image \in [Procs -> Insts \cup {0}]
  /\ esp0 \in Procs
  /\ vid \in Terms \cup {VIDEO, Unmapped}
  /\ execs \in 0 .. MaxExecs
  /\ parent \in [Insts -> Insts \cup {0}]

\* TypeOK in the parts that the actions treat differently.
LEMMA TypeSplit ==
  TypeOK <=> RestOK /\ StacksOK(kstack) /\ CpuOK(cpu) /\ orderly \in BOOLEAN
  BY DEF TypeOK, RestOK, StacksOK, CpuOK, ContextsOK

\* The same in the next state.
LEMMA TypeSplitPrime ==
  TypeOK' <=> RestOK' /\ StacksOK(kstack)' /\ CpuOK(cpu)' /\ orderly' \in BOOLEAN
  BY DEF TypeOK, RestOK, StacksOK, CpuOK, ContextsOK

\* A descriptor array as execute fills it in.
LEMMA InitFDsTyped == InitFDs \in [FDs -> Flags]
  BY DEF InitFDs, Flags

\* Starting a program keeps every table in its type.
LEMMA LaunchTyped ==
  ASSUME RestOK, NEW p \in Procs, NEW s \in Slots, NEW disp \in Terms, NEW ct \in Terms,
         NEW by \in Insts \cup {0}, Launch(p, s, disp, ct, by),
         esp_switch' \in [Procs -> Pointers],
         curr_terminal_number' \in Terms, curr_term' \in Terms, vid' = vid
  PROVE  RestOK' /\ CpuOK(cpu)' /\ cpu'.pc = "user"
<1>1. execs' \in Insts /\ execs' \in 0 .. MaxExecs
  BY ConstantsAssumption DEF Launch, RestOK, Insts
<1>2. InitFDs \in [FDs -> Flags] BY InitFDsTyped
<1>3. NewPPID(disp) \in Slots BY DEF NewPPID, RestOK, Slots
<1>4. CpuOK(cpu)' /\ cpu'.pc = "user"
  BY <1>1 DEF Launch, CpuOK, CPUs, InUser, CpuIn, LocalsSet, PCs, HaltPCs, Slots
<1>5. RestOK'
  BY <1>1, <1>2, <1>3 DEF Launch, RestOK, Slots, KernelStackTop, map, Activated
<1> QED BY <1>4, <1>5

\* The type invariant holds at boot.
LEMMA TypeInit == Init => TypeOK
<1> SUFFICES ASSUME Init PROVE TypeOK OBVIOUS
<1>1. RestOK
  BY ConstantsAssumption
  DEF Init, RestOK, Procs, Terms, Slots, None, Pointers, NoPointer, Vias, Flags, VIDEO, Unmapped
<1>2. StacksOK(kstack)
  BY DEF Init, StacksOK, Free, Frames, Vias, PCs, Slots
<1>3. CpuOK(cpu)
  BY DEF Init, CpuOK, CPUs, CpuIn, LocalsSet, PCs, HaltPCs, Slots
<1>4. orderly \in BOOLEAN BY DEF Init
<1> QED BY <1>1, <1>2, <1>3, <1>4, TypeSplit

\* A system call that returned, or a handler that interrupted user code, leaves the
\* kernel stack of esp0 free.
LEMMA FreedTyped ==
  ASSUME StacksOK(kstack), NEW s \in Procs
  PROVE  StacksOK([kstack EXCEPT ![s] = Free])
  BY StacksUpdate, FrameTyped

\* The frame of a system call is a frame.
LEMMA SyscallFrameTyped ==
  ASSUME StacksOK(kstack), NEW s \in Procs, NEW i \in Insts \cup {0}
  PROVE  StacksOK([kstack EXCEPT ![s] = SyscallFrame(i)])
  BY StacksUpdate, FrameTyped

\* The frame that an interrupt leaves has the locals of what it interrupted.
LEMMA IrqFrameTyped ==
  ASSUME TypeOK, Interruptible, NEW via \in {"tick", "key"}
  PROVE  StacksOK([kstack EXCEPT ![IrqStack] = IrqFrame(via)])
<1>1. StacksOK(kstack) BY TypeSplit
<1> QED BY <1>1, IrqTyped, StacksUpdate

\* What Noted leaves in orderly.
LEMMA NotedGives ==
  ASSUME orderly \in BOOLEAN, NEW b, Noted(b)
  PROVE  orderly' \in BOOLEAN /\ (orderly' => orderly /\ ~b)
  BY DEF Noted

\* A disorder is never forgotten.
LEMMA OrderlyStep ==
  ASSUME [Next]_vars, orderly \in BOOLEAN
  PROVE  orderly' \in BOOLEAN /\ (orderly' => orderly)
<1>1. CASE \/ ExecuteMissing \/ ExecuteNoexec \/ Tick \/ TickSpin
           \/ \E t \in Terms : SwitchActive(t) \/ SwitchFresh(t) \/ SwitchWild(t)
  <2>1. \E b : Noted(b)
    BY <1>1 DEF ExecuteMissing, ExecuteNoexec, Tick, TickSpin, SwitchActive, SwitchFresh, SwitchWild
  <2> QED BY <2>1, NotedGives
<1>2. CASE UNCHANGED orderly BY <1>2
<1>3. CASE UNCHANGED vars BY <1>2, <1>3 DEF vars, history
<1> QED BY <1>1, <1>2, <1>3
    DEF history, Next, UserStep, HaltStep, Boot, Execute, CallReturns, ExecuteFull, Halt, Exception,
        Syscall, Open, OpenStd, Close, Vidmap, HaltPcb, HaltInactive, HaltExecute, HaltPpid,
        HaltEsp0, HaltCurr, HaltTerm, HaltMap, HaltClose, HaltReturn, ExceptionHalt, SyscallReturn

\* The type invariant is inductive.
LEMMA TypeNext == TypeOK /\ [Next]_vars => TypeOK'
<1> SUFFICES ASSUME TypeOK, [Next]_vars PROVE TypeOK' OBVIOUS
<1>r. RestOK /\ StacksOK(kstack) /\ CpuOK(cpu) BY TypeSplit
<1>b. orderly' \in BOOLEAN BY OrderlyStep DEF TypeOK
<1>i. cpu.inst \in Insts \cup {0} /\ esp0 \in Procs /\ curr_process \in Procs
  BY <1>r DEF CpuOK, CPUs, RestOK
<1>u. BackInUser => StacksOK(kstack') /\ CpuOK(cpu')
  BY <1>r, <1>i, FreedTyped DEF BackInUser
<1> USE DEF procVars, termVars, memVars, history
<1>1. CASE Boot
  <2>1. 0 \in Procs BY ConstantsAssumption DEF Procs
  <2>2. RestOK' /\ CpuOK(cpu)'
    BY <1>1, <1>r, <2>1, LaunchTyped DEF Boot, RestOK, Slots
  <2> QED BY <1>1, <1>r, <2>2, <1>b, TypeSplitPrime DEF Boot
<1>2. CASE Execute
  <2>1. PICK p \in Procs : Launch(p, esp0, curr_terminal_number, curr_term, cpu.inst)
    BY <1>2 DEF Execute
  <2>2. RestOK' /\ CpuOK(cpu)'
    BY <1>2, <1>r, <1>i, <2>1, LaunchTyped DEF Execute, RestOK, Slots
  <2>3. StacksOK(kstack') BY <1>2, <1>r, <1>i, SyscallFrameTyped DEF Execute
  <2> QED BY <2>2, <2>3, <1>b, TypeSplitPrime
<1>3. CASE ExecuteFull \/ CallReturns
  <2>1. RestOK' BY <1>3, <1>r DEF ExecuteFull, CallReturns, RestOK
  <2> QED BY <1>3, <1>u, <2>1, <1>b, TypeSplitPrime DEF ExecuteFull, CallReturns
<1>4. CASE ExecuteMissing
  <2>1. RestOK' BY <1>4, <1>r DEF ExecuteMissing, RestOK, Slots
  <2> QED BY <1>4, <1>u, <2>1, <1>b, TypeSplitPrime DEF ExecuteMissing
<1>5. CASE ExecuteNoexec
  <2>1. RestOK' BY <1>5, <1>r DEF ExecuteNoexec, RestOK, Slots
  <2> QED BY <1>5, <1>u, <2>1, <1>b, TypeSplitPrime DEF ExecuteNoexec
<1>6. CASE Halt
  <2>1. RestOK' BY <1>6, <1>r DEF Halt, RestOK, end_process
  <2>2. StacksOK(kstack') BY <1>6, <1>r, <1>i, SyscallFrameTyped DEF Halt
  <2>3. CpuOK(cpu') BY <1>6, <1>i, CpuTyped DEF Halt
  <2> QED BY <2>1, <2>2, <2>3, <1>b, TypeSplitPrime
<1>7. CASE Syscall
  <2>1. RestOK' BY <1>7, <1>r DEF Syscall, RestOK
  <2>2. StacksOK(kstack') BY <1>7, <1>r, <1>i, SyscallFrameTyped DEF Syscall
  <2>3. CpuOK(cpu') BY <1>7, <1>i, CpuTyped DEF Syscall
  <2> QED BY <2>1, <2>2, <2>3, <1>b, TypeSplitPrime
<1>e. CASE Exception
  <2>1. RestOK' BY <1>e, <1>r DEF Exception, RestOK
  <2>2. StacksOK(kstack') BY <1>e, <1>r, <1>i, SyscallFrameTyped DEF Exception
  <2>3. CpuOK(cpu') BY <1>e, <1>i, CpuTyped DEF Exception
  <2> QED BY <2>1, <2>2, <2>3, <1>b, TypeSplitPrime
<1>h. CASE ExceptionHalt
  <2>1. RestOK' BY <1>h, <1>r DEF ExceptionHalt, RestOK, end_process
  <2>2. CpuOK(cpu')
    BY <1>h, <1>r DEF ExceptionHalt, CpuOK, CPUs, LocalsSet, HaltPCs, PCs
  <2>3. StacksOK(kstack') BY <1>h, <1>r DEF ExceptionHalt
  <2> QED BY <2>1, <2>2, <2>3, <1>b, TypeSplitPrime
<1>8. CASE Open
  <2>1. RestOK' BY <1>8, <1>r DEF Open, RestOK, FDOwner, Flags
  <2> QED BY <1>8, <1>u, <2>1, <1>b, TypeSplitPrime DEF Open
<1>o. CASE OpenStd
  <2>1. curr_process \in Procs /\ fds \in [Procs -> [FDs -> Flags]] /\ 1 \in FDs
    BY <1>r, ConstantsAssumption DEF RestOK, FDs
  <2>2. "STDIN" \in Flags /\ "STDOUT" \in Flags BY DEF Flags
  <2>3. fds' \in [Procs -> [FDs -> Flags]] BY <1>o, <2>1, <2>2 DEF OpenStd, FDOwner
  <2>4. RestOK' BY <1>o, <1>r, <2>3 DEF OpenStd, RestOK
  <2> QED BY <1>o, <1>u, <2>4, <1>b, TypeSplitPrime DEF OpenStd
<1>9. CASE Close
  <2>1. RestOK' BY <1>9, <1>r DEF Close, RestOK, FDOwner, Flags
  <2> QED BY <1>9, <1>u, <2>1, <1>b, TypeSplitPrime DEF Close
<1>10. CASE Vidmap
  <2>1. RestOK' BY <1>10, <1>r DEF Vidmap, RestOK
  <2> QED BY <1>10, <1>u, <2>1, <1>b, TypeSplitPrime DEF Vidmap
<1>11. CASE HaltStep
  <2> USE DEF CpuOK, CPUs, LocalsSet, HaltPCs, PCs
  <2>1. CASE HaltPcb
    <3>1. RestOK' BY <2>1, <1>r DEF HaltPcb, RestOK
    <3>2. CpuOK(cpu') BY <2>1, <1>r, <1>i DEF HaltPcb, Slots, Procs, None
    <3>3. StacksOK(kstack') BY <2>1, <1>r DEF HaltPcb
    <3> QED BY <3>1, <3>2, <3>3, <1>b, TypeSplitPrime
  <2>2. CASE HaltInactive
    <3>1. RestOK' BY <2>2, <1>r DEF HaltInactive, RestOK
    <3>2. CpuOK(cpu') BY <2>2, <1>r DEF HaltInactive
    <3>3. StacksOK(kstack') BY <2>2, <1>r DEF HaltInactive
    <3> QED BY <3>1, <3>2, <3>3, <1>b, TypeSplitPrime
  <2>3. CASE HaltExecute
    <3>s. cpu.stack \in Procs BY <2>3, <1>r DEF HaltExecute, Slots
    <3>1. CASE TableFull /\ cpu' = Wild
                /\ UNCHANGED <<procVars, fds, termVars, memVars, kstack, history>>
      <4>1. RestOK' BY <2>3, <3>1, <1>r DEF HaltExecute, RestOK
      <4>2. CpuOK(cpu') BY <3>1 DEF Wild, CpuIn, Slots
      <4> QED BY <3>1, <1>r, <4>1, <4>2, <1>b, TypeSplitPrime
    <3>2. CASE /\ \E p \in Procs : get_process(p)
                     /\ Launch(p, cpu.stack, curr_terminal_number, curr_term, 0)
               /\ kstack' = [kstack EXCEPT ![cpu.stack] = Free]
      <4>1. PICK p \in Procs : Launch(p, cpu.stack, curr_terminal_number, curr_term, 0)
        BY <3>2
      <4>2. RestOK' /\ CpuOK(cpu)'
        BY <2>3, <1>r, <3>s, <4>1, LaunchTyped DEF HaltExecute, RestOK, Slots
      <4>3. StacksOK(kstack') BY <3>2, <3>s, <1>r, FreedTyped
      <4> QED BY <4>2, <4>3, <1>b, TypeSplitPrime
    <3> QED BY <2>3, <3>1, <3>2 DEF HaltExecute
  <2>4. CASE HaltPpid
    <3>1. RestOK' BY <2>4, <1>r DEF HaltPpid, RestOK
    <3>2. ppid[curr_process] \in Slots BY <1>r, <1>i DEF RestOK
    <3>3. CpuOK(cpu') BY <2>4, <1>r, <1>i, <3>2 DEF HaltPpid, Wild, CpuIn, Slots
    <3>4. StacksOK(kstack') BY <2>4, <1>r DEF HaltPpid
    <3> QED BY <3>1, <3>3, <3>4, <1>b, TypeSplitPrime
  <2>5. CASE HaltEsp0
    <3>1. RestOK' BY <2>5, <1>r DEF HaltEsp0, RestOK, Slots, KernelStackTop
    <3>2. CpuOK(cpu') BY <2>5, <1>r DEF HaltEsp0
    <3>3. StacksOK(kstack') BY <2>5, <1>r DEF HaltEsp0
    <3> QED BY <3>1, <3>2, <3>3, <1>b, TypeSplitPrime
  <2>6. CASE HaltCurr
    <3>1. RestOK' BY <2>6, <1>r DEF HaltCurr, RestOK, Slots
    <3>2. CpuOK(cpu') BY <2>6, <1>r DEF HaltCurr
    <3>3. StacksOK(kstack') BY <2>6, <1>r DEF HaltCurr
    <3> QED BY <3>1, <3>2, <3>3, <1>b, TypeSplitPrime
  <2>7. CASE HaltTerm
    <3>1. RestOK' BY <2>7, <1>r DEF HaltTerm, RestOK, Slots
    <3>2. CpuOK(cpu') BY <2>7, <1>r DEF HaltTerm
    <3>3. StacksOK(kstack') BY <2>7, <1>r DEF HaltTerm
    <3> QED BY <3>1, <3>2, <3>3, <1>b, TypeSplitPrime
  <2>8. CASE HaltMap
    <3>1. RestOK' BY <2>8, <1>r DEF HaltMap, RestOK, map
    <3>2. CpuOK(cpu') BY <2>8, <1>r DEF HaltMap
    <3>3. StacksOK(kstack') BY <2>8, <1>r DEF HaltMap
    <3> QED BY <3>1, <3>2, <3>3, <1>b, TypeSplitPrime
  <2>9. CASE HaltClose
    <3>1. RestOK' BY <2>9, <1>r DEF HaltClose, RestOK, Flags
    <3>2. CpuOK(cpu') BY <2>9, <1>r DEF HaltClose
    <3>3. StacksOK(kstack') BY <2>9, <1>r DEF HaltClose
    <3> QED BY <3>1, <3>2, <3>3, <1>b, TypeSplitPrime
  <2>10. CASE HaltReturn
    <3> DEFINE s == ReturnStack
               own == [kstack EXCEPT ![cpu.stack] = Free]
    <3>1. RestOK' BY <2>10, <1>r DEF HaltReturn, RestOK
    <3>2. cpu.stack \in Procs /\ cpu.child \in Procs BY <2>10, <1>r DEF HaltReturn, Slots
    <3>3. StacksOK(own) BY <3>2, <1>r, FreedTyped
    <3>4. CASE s # None /\ s # cpu.stack /\ kstack[s].via = "syscall"
      <4>1. s \in Procs BY <3>2, <3>4, <1>r DEF RestOK, Slots, ReturnStack
      <4>2. kstack[s].inst \in Insts \cup {0} BY <4>1, <1>r DEF StacksOK, Frames
      <4>3. cpu' = InUser(kstack[s].inst) /\ kstack' = [own EXCEPT ![s] = Free]
        BY <2>10, <3>4 DEF HaltReturn
      <4>4. CpuOK(cpu') BY <4>2, <4>3 DEF InUser, CpuIn, Slots
      <4>5. StacksOK(kstack') BY <4>1, <4>3, <3>3, FrameTyped, StacksUpdate
      <4> QED BY <3>1, <4>4, <4>5, <1>b, TypeSplitPrime
    <3>5. CASE ~(s # None /\ s # cpu.stack /\ kstack[s].via = "syscall")
      <4>1. cpu' = Wild /\ kstack' = own BY <2>10, <3>5 DEF HaltReturn
      <4>2. CpuOK(cpu') BY <4>1 DEF Wild, CpuIn, Slots
      <4> QED BY <3>1, <3>3, <4>1, <4>2, <1>b, TypeSplitPrime
    <3> QED BY <3>4, <3>5
  <2> QED BY <1>11, <2>1, <2>2, <2>3, <2>4, <2>5, <2>6, <2>7, <2>8, <2>9, <2>10 DEF HaltStep
<1>12. CASE SyscallReturn
  <2>1. RestOK' BY <1>12, <1>r DEF SyscallReturn, RestOK
  <2>2. cpu.stack \in Procs
    BY <1>12, <1>r DEF SyscallReturn, CpuOK, CPUs, Slots
  <2>3. kstack[cpu.stack].inst \in Insts \cup {0} BY <2>2, <1>r DEF StacksOK, Frames
  <2>4. StacksOK([kstack EXCEPT ![cpu.stack] = Free]) BY <2>2, <1>r, FreedTyped
  <2>5. CpuOK(InUser(kstack[cpu.stack].inst)) /\ CpuOK(Wild) BY <2>2, <2>3, CpuTyped
  <2> QED BY <1>12, <1>r, <2>1, <2>4, <2>5, <1>b, TypeSplitPrime DEF SyscallReturn, ReturnThrough
<1>13. CASE Tick
  <2>1. PICK t \in Terms :
          LET old == current_process[curr_term]
              new == current_process[t]
              ks  == [kstack EXCEPT ![IrqStack] = IrqFrame("tick")]
          IN IF old = None \/ new = None
             THEN /\ cpu' = Wild
                  /\ UNCHANGED <<curr_term, current_pcb, curr_process, page, vid,
                                 esp0, esp_switch, kstack>>
             ELSE /\ curr_term' = t
                  /\ current_pcb' = new
                  /\ curr_process' = new
                  /\ map(new)
                  /\ vid' = UserVideo(t)
                  /\ esp0' = KernelStackTop(new)
                  /\ esp_switch' = SaveSwitch(old, IrqPointer("tick"))
                  /\ Resume(esp_switch'[new], ks)
    BY <1>13 DEF Tick
  <2> DEFINE old == current_process[curr_term]
             new == current_process[t]
             ks  == [kstack EXCEPT ![IrqStack] = IrqFrame("tick")]
  <2>2. CASE old = None \/ new = None
    <3>1. RestOK' BY <1>13, <2>1, <2>2, <1>r DEF Tick, RestOK
    <3>2. CpuOK(cpu') BY <2>1, <2>2, <1>i, CpuTyped
    <3>3. StacksOK(kstack') BY <2>1, <2>2, <1>r
    <3> QED BY <3>1, <3>2, <3>3, <1>b, TypeSplitPrime
  <2>3. CASE ~(old = None \/ new = None)
    <3>1. old \in Procs /\ new \in Procs BY <2>3, <1>r DEF RestOK, Slots
    <3>2. IrqPointer("tick") \in Pointers BY <1>13, IrqTyped DEF Tick
    <3>3. esp_switch' \in [Procs -> Pointers]
      BY <2>1, <2>3, <3>1, <3>2, <1>r DEF RestOK, SaveSwitch
    <3>4. StacksOK(ks) BY <1>13, IrqFrameTyped DEF Tick
    <3>5. esp_switch'[new] \in Pointers BY <3>1, <3>3
    <3>6. Resume(esp_switch'[new], ks) BY <2>1, <2>3
    <3>7. CpuOK(cpu') /\ StacksOK(kstack') BY <3>4, <3>5, <3>6, ResumeTyped
    <3>8. RestOK'
      BY <1>13, <2>1, <2>3, <3>1, <3>3, <1>r DEF Tick, RestOK, Slots, KernelStackTop, map, UserVideo
    <3> QED BY <3>7, <3>8, <1>b, TypeSplitPrime
  <2> QED BY <2>2, <2>3
<1>14. CASE TickSpin
  <2>1. RestOK' BY <1>14, <1>r DEF TickSpin, RestOK
  <2> QED BY <1>14, <1>r, <1>i, <2>1, CpuTyped, <1>b, TypeSplitPrime DEF TickSpin
<1>15. ASSUME NEW t \in Terms, SwitchActive(t) PROVE TypeOK'
  <2>1. RestOK' BY <1>15, <1>r DEF SwitchActive, RestOK
  <2>2. StacksOK(kstack') BY <1>15, <1>r, <1>i, FreedTyped DEF SwitchActive
  <2> QED BY <1>15, <1>r, <2>1, <2>2, <1>b, TypeSplitPrime DEF SwitchActive
<1>16. ASSUME NEW t \in Terms, SwitchFresh(t) PROVE TypeOK'
  <2> DEFINE old == current_process[curr_terminal_number]
  <2>1. old \in Procs BY <1>16, <1>r DEF SwitchFresh, RestOK, Slots
  <2>2. IrqPointer("key") \in Pointers /\ IrqStack \in Procs
    BY <1>16, IrqTyped DEF SwitchFresh
  <2>3. esp_switch' \in [Procs -> Pointers]
    BY <1>16, <2>1, <2>2, <1>r DEF SwitchFresh, RestOK, SaveSwitch
  <2>4. CASE /\ \E p \in Procs : get_process(p) /\ Launch(p, IrqStack, t, t, 0)
             /\ kstack' = [kstack EXCEPT ![IrqStack] = IrqFrame("key")]
    <3>1. PICK p \in Procs : Launch(p, IrqStack, t, t, 0) BY <2>4
    <3>2. RestOK' /\ CpuOK(cpu)'
      BY <1>16, <1>r, <2>2, <2>3, <3>1, LaunchTyped DEF SwitchFresh, Slots
    <3>3. StacksOK(kstack') BY <1>16, <2>4, IrqFrameTyped DEF SwitchFresh
    <3> QED BY <3>2, <3>3, <1>b, TypeSplitPrime
  <2>5. CASE /\ kstack' = IF cpu.pc = "user" THEN [kstack EXCEPT ![esp0] = Free] ELSE kstack
             /\ UNCHANGED <<procVars, fds, termVars, memVars, cpu, execs, parent>>
    <3>1. RestOK' BY <1>16, <2>3, <2>5, <1>r DEF SwitchFresh, RestOK
    <3>2. StacksOK(kstack') BY <2>5, <1>r, <1>i, FreedTyped
    <3> QED BY <2>5, <1>r, <3>1, <3>2, <1>b, TypeSplitPrime
  <2> QED BY <1>16, <2>4, <2>5 DEF SwitchFresh
<1>17. ASSUME NEW t \in Terms, SwitchWild(t) PROVE TypeOK'
  <2>1. RestOK' BY <1>17, <1>r DEF SwitchWild, RestOK
  <2> QED BY <1>17, <1>r, <1>i, <2>1, CpuTyped, <1>b, TypeSplitPrime DEF SwitchWild
<1>18. CASE UNCHANGED vars
  <2>1. RestOK' BY <1>18, <1>r DEF vars, RestOK
  <2> QED BY <1>18, <1>r, <2>1, <1>b, TypeSplitPrime DEF vars
<1> QED
  BY <1>1, <1>2, <1>3, <1>4, <1>5, <1>6, <1>7, <1>e, <1>h, <1>8, <1>o, <1>9, <1>10, <1>11, <1>12,
      <1>13,
     <1>14, <1>15, <1>16, <1>17, <1>18 DEF Next, UserStep

\* The tables of the kernel, the saved contexts and the CPU keep their types whatever
\* users and devices do: no slot number leaves its range, and halt never runs a statement
\* before the locals it reads are set.
THEOREM TypeCorrect == Spec => []TypeOK
<1>1. Init => TypeOK BY TypeInit
<1>2. TypeOK /\ [Next]_vars => TypeOK' BY TypeNext
<1> QED BY <1>1, <1>2, PTL DEF Spec

-----------------------------------------------------------------------------
(* Between the assignments of curr_process and of the terminal's            *)
(* current_process in halt the two differ, and interrupts are on; a tick    *)
(* there sets curr_process back.                                            *)
AgreeInv ==
  cpu.pc \in {"user", "syscall", "exc"} \cup (HaltPCs \ {"h_term"}) /\ active[curr_term] =>
     curr_process = current_process[curr_term]

\* execute sets curr_process and the process of the executing terminal to the new slot.
LEMMA AgreeLaunch ==
  ASSUME TypeOK, NEW p \in Procs, NEW s, NEW disp \in Terms, NEW by,
         NEW ct \in Terms, Launch(p, s, disp, ct, by), curr_term' = ct
  PROVE  AgreeInv'
  BY DEF Launch, AgreeInv, TypeOK, Activated

\* No step parts curr_process from the executing terminal, but for the one statement of
\* halt between the two assignments.
LEMMA AgreeNext == TypeOK /\ AgreeInv /\ [Next]_vars => AgreeInv'
<1> SUFFICES ASSUME TypeOK, AgreeInv, [Next]_vars PROVE AgreeInv' OBVIOUS
<1>t. /\ curr_term \in Terms /\ curr_terminal_number \in Terms
      /\ current_process \in [Terms -> Slots] /\ active \in [Terms -> BOOLEAN]
      /\ cpu \in CPUs
  BY DEF TypeOK
<1>w. Wild.pc = "wild" /\ Spin.pc = "spin" /\ \A i : InUser(i).pc = "user"
  BY DEF Wild, Spin, InUser, CpuIn
<1> USE DEF procVars, termVars, memVars, history, AgreeInv
<1>1. CASE Boot
  <2>1. 0 \in Procs BY ConstantsAssumption DEF Procs
  <2> QED BY <1>1, <1>t, <2>1, AgreeLaunch DEF Boot
<1>2. CASE Execute BY <1>2, <1>t, AgreeLaunch DEF Execute
<1>3. CASE ExecuteFull \/ CallReturns \/ ExecuteMissing \/ ExecuteNoexec \/ Open \/ OpenStd
             \/ Close \/ Vidmap
  BY <1>3 DEF ExecuteFull, CallReturns, ExecuteMissing, ExecuteNoexec, Open, OpenStd, Close, Vidmap,
     BackInUser
<1>4. CASE Halt BY <1>4 DEF Halt
<1>5. CASE Syscall BY <1>5 DEF Syscall
<1>e. CASE Exception BY <1>e DEF Exception
<1>h. CASE ExceptionHalt BY <1>h DEF ExceptionHalt
<1>6. CASE SyscallReturn BY <1>6 DEF SyscallReturn
<1>7. CASE HaltPcb BY <1>7 DEF HaltPcb, HaltPCs
<1>8. CASE HaltInactive BY <1>8, <1>t DEF HaltInactive, HaltPCs
<1>9. CASE HaltExecute
  <2>1. CASE cpu' = Wild BY <2>1, <1>w DEF HaltPCs
  <2>2. CASE cpu' # Wild BY <1>9, <1>t, <2>2, AgreeLaunch DEF HaltExecute
  <2> QED BY <2>1, <2>2
<1>10. CASE HaltPpid BY <1>10 DEF HaltPpid, HaltPCs
<1>11. CASE HaltEsp0 BY <1>11 DEF HaltEsp0, HaltPCs
<1>12. CASE HaltCurr BY <1>12, <1>t DEF HaltCurr, HaltPCs, CPUs
<1>13. CASE HaltTerm BY <1>13, <1>t DEF HaltTerm
<1>14. CASE HaltMap BY <1>14 DEF HaltMap, HaltPCs
<1>15. CASE HaltClose BY <1>15 DEF HaltClose, HaltPCs
<1>16. CASE HaltReturn BY <1>16 DEF HaltReturn, HaltPCs
<1>17. CASE Tick
  <2>1. CASE cpu' = Wild BY <2>1, <1>w DEF HaltPCs
  <2>2. CASE cpu' # Wild BY <1>17, <2>2 DEF Tick
  <2> QED BY <2>1, <2>2
<1>18. CASE TickSpin BY <1>18, <1>w DEF TickSpin, HaltPCs
<1>19. ASSUME NEW t \in Terms, SwitchActive(t) PROVE AgreeInv'
  BY <1>19 DEF SwitchActive
<1>20. ASSUME NEW t \in Terms, SwitchFresh(t) PROVE AgreeInv'
  <2>1. CASE \E p \in Procs : Launch(p, IrqStack, t, t, 0)
    BY <1>20, <2>1, AgreeLaunch DEF SwitchFresh
  <2>2. CASE UNCHANGED <<procVars, fds, termVars, memVars, cpu, execs, parent>>
    BY <1>20, <2>2 DEF SwitchFresh
  <2> QED BY <1>20, <2>1, <2>2 DEF SwitchFresh
<1>21. ASSUME NEW t \in Terms, SwitchWild(t) PROVE AgreeInv'
  BY <1>21, <1>w DEF SwitchWild, HaltPCs
<1>22. CASE UNCHANGED vars BY <1>22 DEF vars
<1> QED
  BY <1>1, <1>2, <1>3, <1>4, <1>5, <1>e, <1>h, <1>6, <1>7, <1>8, <1>9, <1>10, <1>11,
     <1>12, <1>13, <1>14, <1>15, <1>16, <1>17, <1>18, <1>19, <1>20, <1>21, <1>22
  DEF Next, UserStep, HaltStep

\* Wherever interrupts arrive, in halt too, and whatever programs users name: in user mode
\* and in a waiting system call curr_process is the process of the executing terminal.
THEOREM CurrProcessCorrect == Spec => []CurrProcessAgrees
<1>1. Init => TypeOK /\ AgreeInv
  <2>1. Init => AgreeInv BY DEF Init, AgreeInv, CpuIn, HaltPCs
  <2> QED BY <2>1, TypeInit
<1>2. TypeOK /\ AgreeInv /\ [Next]_vars => (TypeOK /\ AgreeInv)'
  BY TypeNext, AgreeNext
<1>3. AgreeInv => CurrProcessAgrees BY DEF AgreeInv, CurrProcessAgrees, Quiet
<1> QED BY <1>1, <1>2, <1>3, PTL DEF Spec

-----------------------------------------------------------------------------
(* The process table, the kernel stacks and the saved contexts fit together *)
(* until a user names no program, a new shell is started while another      *)
(* terminal executes or finds no slot, or an interrupt arrives within halt  *)
(* that is more than a change of the display (orderly); what goes wrong     *)
(* then is in the README.  Descriptors may be opened and closed in any way. *)

\* IrqStack is the slot of the process that runs.  In halt its entry of process_array is
\* already given back, and an interrupt would still use its stack.
Live(p) == process_array[p] \/ p = IrqStack

\* Terminals that have a process; halt makes the displayed one inactive just before it
\* executes a new shell.
Occupied(t) == active[t] \/ (cpu.pc = "h_execute" /\ t = curr_terminal_number)

ProcessOf(t) == IF t = curr_term THEN IrqStack ELSE current_process[t]

\* The process that runs, in which order halt turns to its parent, and what the machine
\* has of either in between.
RunInv ==
  /\ cpu.pc \in {"user", "syscall", "exc"} \cup HaltPCs
  /\ IrqStack \in Procs
  /\ cpu.inst = image[IrqStack]
  /\ process_array[IrqStack] <=> cpu.pc \notin HaltPCs
  /\ kstack[IrqStack] = IF cpu.pc = "user" THEN Free ELSE SyscallFrame(cpu.inst)
  /\ cpu.pc \in HaltPCs \ {"h_pcb"} => cpu.child = IrqStack
  /\ cpu.pc \in {"h_inactive", "h_execute"} => ppid[IrqStack] = None
  /\ cpu.pc = "h_execute" => ~active[curr_terminal_number]
  /\ cpu.pc \in HaltPCs \ {"h_pcb", "h_inactive", "h_execute"} => ppid[IrqStack] # None
  /\ cpu.pc \in HaltPCs \ {"h_pcb", "h_inactive", "h_execute", "h_ppid"} =>
       cpu.ppid = ppid[IrqStack]
  /\ esp0 = IF cpu.pc \in {"h_curr", "h_term", "h_map", "h_close", "h_return"}
            THEN cpu.ppid ELSE IrqStack
  /\ curr_process = IF cpu.pc \in {"h_term", "h_map", "h_close", "h_return"}
                    THEN cpu.ppid ELSE IrqStack
  /\ current_process[curr_term] = IF cpu.pc \in {"h_map", "h_close", "h_return"}
                                  THEN cpu.ppid ELSE IrqStack
  /\ page = IF cpu.pc \in {"h_close", "h_return"} THEN cpu.ppid ELSE IrqStack

\* Every occupied terminal has a live process of its own.
TermInv ==
  /\ Occupied(curr_term) /\ Occupied(curr_terminal_number)
  /\ \A t \in Terms : Occupied(t) => ProcessOf(t) \in Procs /\ Live(ProcessOf(t))
  /\ \A t, u \in Terms : Occupied(t) /\ Occupied(u) /\ ProcessOf(t) = ProcessOf(u) => t = u

\* A process with a parent was started by it from its own stack, where the parent waits;
\* a parent waits for one child only and is not the process of a terminal.
ChainInv ==
  /\ \A r \in Procs : Live(r) => image[r] \in 1 .. execs
  /\ \A r \in Procs : Live(r) /\ ppid[r] # None =>
       /\ Live(ppid[r])
       /\ kstack[ppid[r]] = SyscallFrame(image[ppid[r]])
       /\ esp_exec[r] = ppid[r] /\ parent[image[r]] = image[ppid[r]]
       /\ \A t \in Terms : Occupied(t) => ProcessOf(t) # ppid[r]
       /\ \A q \in Procs : Live(q) /\ ppid[q] = ppid[r] => q = r

\* Every live process is of a terminal or waits for a child; other stacks are free.
CoverInv ==
  /\ \A p \in Procs : Live(p) => \/ \E t \in Terms : Occupied(t) /\ ProcessOf(t) = p
                                 \/ \E r \in Procs : Live(r) /\ ppid[r] = p
  /\ \A p \in Procs : ~Live(p) => kstack[p] = Free

\* The terminals that do not execute can be resumed.
ContextInv ==
  \A t \in Terms : Occupied(t) /\ t # curr_term =>
     LET p == current_process[t] IN
       /\ esp_switch[p] = [stack |-> p, via |-> kstack[p].via, user |-> kstack[p].user]
       /\ kstack[p].via \in {"tick", "key"} /\ kstack[p].inst = image[p]
       /\ kstack[p].pc \in {"user", "syscall", "exc"}

\* Before the first shell there is no process.
AtBoot ==
  /\ cpu.pc = "boot" /\ curr_term = curr_terminal_number
  /\ \A p \in Procs : ~process_array[p] /\ kstack[p] = Free
  /\ \A t \in Terms : ~active[t]

Together == RunInv /\ TermInv /\ ChainInv /\ CoverInv /\ ContextInv
SlotsInv == TypeOK /\ (AtBoot \/ Together)

\* A step that leaves the tables and the other stacks alone.
LEMMA TablesKept ==
  ASSUME TypeOK, TermInv, ChainInv, CoverInv, ContextInv, RunInv,
         IrqStack' = IrqStack, curr_term' = curr_term,
         \A p \in Procs : Live(p)' <=> Live(p),
         \A t \in Terms : Occupied(t)' <=> Occupied(t),
         curr_terminal_number' \in Terms, Occupied(curr_terminal_number)',
         UNCHANGED <<ppid, esp_exec, image, execs, parent>>,
         \A p \in Procs : p # IrqStack => esp_switch'[p] = esp_switch[p] /\ kstack'[p] = kstack[p],
         \A t \in Terms : t # curr_term => current_process'[t] = current_process[t]
  PROVE  TermInv' /\ ChainInv' /\ CoverInv' /\ ContextInv'
<1>t. /\ curr_term \in Terms /\ IrqStack \in Procs /\ image \in [Procs -> Insts \cup {0}]
      /\ ppid \in [Procs -> Slots] /\ Occupied(curr_term)
  BY DEF TypeOK, RunInv, TermInv
<1>1. \A t \in Terms : ProcessOf(t)' = ProcessOf(t) BY DEF ProcessOf
<1>p. \A t \in Terms : Occupied(t) => ProcessOf(t) \in Procs BY DEF TermInv
<1>2. TermInv'
  <2>1. \A t \in Terms : Occupied(t)' => ProcessOf(t)' \in Procs /\ Live(ProcessOf(t))'
    BY <1>1, <1>p DEF TermInv, Live
  <2>2. \A t, u \in Terms : Occupied(t)' /\ Occupied(u)' /\ ProcessOf(t)' = ProcessOf(u)' => t = u
    BY <1>1 DEF TermInv
  <2>3. Occupied(curr_term)' BY <1>t DEF Occupied
  <2> QED BY <2>1, <2>2, <2>3 DEF TermInv
<1>3. ChainInv'
  <2>1. \A r \in Procs : Live(r)' => (image[r] \in 1 .. execs)' BY DEF ChainInv
  <2>2. ASSUME NEW r \in Procs, Live(r)', ppid'[r] # None
        PROVE  /\ Live(ppid[r])'
               /\ (kstack[ppid[r]] = SyscallFrame(image[ppid[r]]))'
               /\ (esp_exec[r] = ppid[r] /\ parent[image[r]] = image[ppid[r]])'
               /\ \A t \in Terms : Occupied(t)' => ProcessOf(t)' # ppid'[r]
               /\ \A q \in Procs : Live(q)' /\ ppid'[q] = ppid'[r] => q = r
    <3>1. Live(r) /\ ppid[r] # None /\ ppid[r] \in Procs BY <2>2, <1>t DEF Slots
    <3>2. /\ Live(ppid[r])
          /\ kstack[ppid[r]] = SyscallFrame(image[ppid[r]])
          /\ esp_exec[r] = ppid[r] /\ parent[image[r]] = image[ppid[r]]
          /\ \A t \in Terms : Occupied(t) => ProcessOf(t) # ppid[r]
          /\ \A q \in Procs : Live(q) /\ ppid[q] = ppid[r] => q = r
      BY <3>1 DEF ChainInv
    <3>3. ppid[r] # IrqStack BY <3>2, <1>t DEF ProcessOf
    <3>4. (kstack[ppid[r]] = SyscallFrame(image[ppid[r]]))' BY <3>1, <3>2, <3>3 DEF SyscallFrame
    <3>5. Live(ppid[r])' BY <3>1, <3>2 DEF Live
    <3> QED BY <3>2, <3>4, <3>5, <1>1
  <2> QED BY <2>1, <2>2 DEF ChainInv
<1>4. CoverInv'
  <2>1. \A p \in Procs : Live(p)' => \/ \E t \in Terms : Occupied(t)' /\ ProcessOf(t)' = p
                                     \/ \E r \in Procs : Live(r)' /\ ppid'[r] = p
    BY <1>1 DEF CoverInv
  <2>2. \A p \in Procs : ~Live(p)' => kstack'[p] = Free
    BY DEF CoverInv, Live
  <2> QED BY <2>1, <2>2 DEF CoverInv
<1>5. ContextInv'
  <2>1. \A t \in Terms : Occupied(t) /\ t # curr_term => current_process[t] \in Procs
        /\ current_process[t] # IrqStack
    BY <1>t, <1>p DEF TermInv, ProcessOf
  <2> QED BY <2>1 DEF ContextInv
<1> QED BY <1>2, <1>3, <1>4, <1>5

\* In user mode and in a system call that waits, everything is the running process's.
LEMMA QuietFacts ==
  ASSUME TypeOK, RunInv, Quiet
  PROVE  /\ IrqStack \in Procs /\ esp0 = IrqStack /\ curr_process = IrqStack
         /\ current_process[curr_term] = IrqStack /\ page = IrqStack
         /\ process_array[IrqStack] /\ cpu.inst = image[IrqStack]
         /\ kstack[IrqStack] = IF cpu.pc = "user" THEN Free ELSE SyscallFrame(cpu.inst)
         /\ \A t \in Terms : Occupied(t) <=> active[t]
         /\ cpu.pc # "user" => cpu.stack = IrqStack
  BY DEF RunInv, Quiet, HaltPCs, Occupied, IrqStack

\* A system call that returns at once, and a change of the display.
LEMMA CallInv ==
  ASSUME TypeOK, Together, Quiet, cpu' = cpu,
         kstack' = kstack \/ (cpu.pc = "user" /\ kstack' = [kstack EXCEPT ![esp0] = Free]),
         UNCHANGED <<process_array, curr_process, ppid, esp_exec, esp_switch, termVars,
             curr_term, memVars, execs, parent>>,
         curr_terminal_number' \in Terms, active[curr_terminal_number']
  PROVE  Together'
<1> USE DEF Together
<1>1. /\ IrqStack \in Procs /\ esp0 = IrqStack
      /\ kstack[IrqStack] = IF cpu.pc = "user" THEN Free ELSE SyscallFrame(cpu.inst)
      /\ \A t \in Terms : Occupied(t) <=> active[t]
  BY QuietFacts
<1>2. kstack \in [Procs -> Frames] BY DEF TypeOK
<1>3. \A p \in Procs : kstack'[p] = kstack[p] BY <1>1, <1>2
<1>4. IrqStack' = IrqStack BY DEF IrqStack, memVars
<1>5. \A p \in Procs : Live(p)' <=> Live(p) BY <1>4 DEF Live
<1>6. \A t \in Terms : Occupied(t)' <=> active[t] BY DEF Occupied, Quiet, termVars
<1>7. RunInv'
  BY <1>1, <1>3, <1>4 DEF RunInv, Quiet, HaltPCs, memVars, termVars
<1> QED BY <1>1, <1>3, <1>4, <1>5, <1>6, <1>7, TablesKept DEF termVars, memVars

\* A system call or an exception begins, or halt ends the process that runs.
LEMMA EnterInv ==
  ASSUME TypeOK, Together, cpu.pc = "user", NEW c \in {"syscall", "exc", "h_pcb"},
         cpu' = CpuIn(cpu.inst, c, esp0),
         kstack' = [kstack EXCEPT ![esp0] = SyscallFrame(cpu.inst)],
         process_array' = IF c = "h_pcb" THEN [process_array EXCEPT ![curr_process] = FALSE]
                          ELSE process_array,
         UNCHANGED <<curr_process, ppid, esp_exec, esp_switch, termVars, curr_terminal_number,
             curr_term, memVars, execs, parent>>
  PROVE  Together'
<1> USE DEF Together, memVars, termVars
<1>0. Quiet BY DEF Quiet
<1>1. /\ IrqStack \in Procs /\ esp0 = IrqStack /\ curr_process = IrqStack
      /\ current_process[curr_term] = IrqStack /\ page = IrqStack
      /\ process_array[IrqStack] /\ cpu.inst = image[IrqStack]
      /\ \A t \in Terms : Occupied(t) <=> active[t]
  BY <1>0, QuietFacts
<1>2. kstack \in [Procs -> Frames] /\ process_array \in [Procs -> BOOLEAN] BY DEF TypeOK
<1>3. cpu'.pc = c /\ cpu'.stack = esp0 /\ cpu'.inst = cpu.inst BY DEF CpuIn
<1>4. IrqStack' = IrqStack BY <1>1, <1>3 DEF IrqStack
<1>5. \A p \in Procs : Live(p)' <=> Live(p) BY <1>1, <1>2, <1>4 DEF Live
<1>6. \A t \in Terms : Occupied(t)' <=> active[t] BY <1>3 DEF Occupied
<1>7. /\ \A p \in Procs : p # IrqStack => kstack'[p] = kstack[p]
      /\ kstack'[IrqStack] = SyscallFrame(cpu.inst)
      /\ process_array'[IrqStack] <=> c # "h_pcb"
  BY <1>1, <1>2
<1>8. RunInv'
  BY <1>1, <1>3, <1>4, <1>7 DEF RunInv, HaltPCs, SyscallFrame
<1>9. Occupied(curr_terminal_number)' BY <1>1, <1>6 DEF TypeOK, TermInv
<1> QED BY <1>1, <1>4, <1>5, <1>6, <1>7, <1>8, <1>9, TablesKept DEF TypeOK

\* A system call returns through the frame of its own entry.
LEMMA SyscallReturnInv == ASSUME TypeOK, Together, SyscallReturn PROVE Together'
<1> USE DEF Together, memVars, history, termVars, procVars
<1>0. Quiet /\ cpu.pc = "syscall" BY DEF Quiet, SyscallReturn
<1>1. /\ IrqStack \in Procs /\ esp0 = IrqStack /\ curr_process = IrqStack
      /\ current_process[curr_term] = IrqStack /\ page = IrqStack
      /\ process_array[IrqStack] /\ cpu.inst = image[IrqStack] /\ cpu.stack = IrqStack
      /\ kstack[IrqStack] = SyscallFrame(cpu.inst)
      /\ \A t \in Terms : Occupied(t) <=> active[t]
  BY <1>0, QuietFacts
<1>2. kstack \in [Procs -> Frames] BY DEF TypeOK
<1>3. cpu.stack # None BY <1>1 DEF Procs, None
<1>4. cpu' = InUser(cpu.inst) /\ kstack' = [kstack EXCEPT ![IrqStack] = Free]
  BY <1>1, <1>3 DEF SyscallReturn, ReturnThrough, SyscallFrame
<1>5. cpu'.pc = "user" /\ cpu'.inst = cpu.inst BY <1>4 DEF InUser, CpuIn
<1>6. IrqStack' = IrqStack BY <1>1, <1>5 DEF IrqStack, SyscallReturn
<1>7. \A p \in Procs : Live(p)' <=> Live(p) BY <1>6 DEF Live, SyscallReturn
<1>8. \A t \in Terms : Occupied(t)' <=> active[t] BY <1>5 DEF Occupied, SyscallReturn
<1>9. /\ \A p \in Procs : p # IrqStack => kstack'[p] = kstack[p]
      /\ kstack'[IrqStack] = Free
  BY <1>1, <1>2, <1>4
<1>10. RunInv'
  BY <1>1, <1>5, <1>6, <1>9 DEF RunInv, HaltPCs, SyscallReturn
<1>11. Occupied(curr_terminal_number)' BY <1>1, <1>8 DEF TypeOK, TermInv, SyscallReturn
<1> QED BY <1>1, <1>6, <1>7, <1>8, <1>9, <1>10, <1>11, TablesKept DEF TypeOK, SyscallReturn

\* A fault ends the process: halt_from_exc gives its slot back.
LEMMA ExceptionHaltInv == ASSUME TypeOK, Together, ExceptionHalt PROVE Together'
<1> USE DEF Together, memVars, history, termVars, ExceptionHalt
<1>0. Quiet BY DEF Quiet
<1>1. /\ IrqStack \in Procs /\ esp0 = IrqStack /\ curr_process = IrqStack
      /\ current_process[curr_term] = IrqStack /\ page = IrqStack
      /\ process_array[IrqStack] /\ cpu.inst = image[IrqStack] /\ cpu.stack = IrqStack
      /\ kstack[IrqStack] = SyscallFrame(cpu.inst)
      /\ \A t \in Terms : Occupied(t) <=> active[t]
  BY <1>0, QuietFacts
<1>2. cpu \in CPUs /\ process_array \in [Procs -> BOOLEAN] BY DEF TypeOK
<1>3. cpu'.pc = "h_pcb" /\ cpu'.inst = cpu.inst /\ cpu'.stack = IrqStack BY <1>1, <1>2 DEF CPUs
<1>4. IrqStack' = IrqStack BY <1>1, <1>3 DEF IrqStack
<1>5. \A p \in Procs : Live(p)' <=> Live(p) BY <1>1, <1>2, <1>4 DEF Live, end_process
<1>6. \A t \in Terms : Occupied(t)' <=> active[t] BY <1>3 DEF Occupied
<1>7. ~process_array'[IrqStack] BY <1>1, <1>2 DEF end_process
<1>8. RunInv'
  BY <1>1, <1>3, <1>4, <1>7 DEF RunInv, HaltPCs, SyscallFrame
<1>9. Occupied(curr_terminal_number)' BY <1>1, <1>6 DEF TypeOK, TermInv
<1> QED BY <1>1, <1>4, <1>5, <1>6, <1>8, <1>9, TablesKept DEF TypeOK

\* The statements of halt up to its return; the table, the stacks and the terminals other
\* than the executing one stay as they are.
LEMMA HaltWalks ==
  ASSUME TypeOK, Together, cpu.pc \in HaltPCs, RunInv', cpu'.pc \in HaltPCs \ {"h_execute"},
         cpu.pc # "h_execute", cpu'.stack = cpu.stack,
         UNCHANGED <<process_array, ppid, esp_exec, esp_switch, active, curr_terminal_number,
             curr_term, image, kstack, execs, parent>>,
         \A t \in Terms : t # curr_term => current_process'[t] = current_process[t]
  PROVE  Together'
<1> USE DEF Together
<1>1. IrqStack' = IrqStack BY DEF IrqStack, HaltPCs
<1>2. \A p \in Procs : Live(p)' <=> Live(p) BY <1>1 DEF Live
<1>3. \A t \in Terms : Occupied(t)' <=> Occupied(t) BY DEF Occupied, HaltPCs
<1>4. Occupied(curr_terminal_number)' BY <1>3 DEF TypeOK, TermInv
<1> QED BY <1>1, <1>2, <1>3, <1>4, TablesKept DEF TypeOK

\* Each statement of halt up to the last keeps the tables together, or is one of the two
\* that leave halt.
LEMMA HaltStepInv == ASSUME TypeOK, Together, HaltStep PROVE HaltExecute \/ HaltReturn \/ Together'
<1> USE DEF procVars, termVars, memVars, history
<1>0. /\ RunInv /\ cpu \in CPUs /\ curr_term \in Terms /\ ppid \in [Procs -> Slots]
         /\ curr_process \in Procs
      /\ current_process \in [Terms -> Slots] /\ kstack \in [Procs -> Frames]
  BY DEF Together, TypeOK
<1>1. CASE HaltPcb
  <2>1. /\ cpu'.pc = IF ppid[curr_process] = None THEN "h_inactive" ELSE "h_ppid"
        /\ cpu'.stack = cpu.stack /\ cpu'.inst = cpu.inst /\ cpu'.child = curr_process
    BY <1>1 DEF HaltPcb
  <2>2. RunInv' BY <1>0, <1>1, <2>1 DEF HaltPcb, RunInv, HaltPCs, IrqStack, SyscallFrame
  <2> QED BY <1>1, <2>1, <2>2, HaltWalks DEF HaltPcb, HaltPCs
<1>2. CASE HaltInactive
  <2>1. cpu'.pc = "h_execute" /\ cpu'.stack = cpu.stack /\ cpu'.inst = cpu.inst
        /\ cpu'.child = cpu.child
    BY <1>0, <1>2 DEF HaltInactive, CPUs
  <2>0. ~active'[curr_terminal_number] BY <1>2 DEF HaltInactive, TypeOK
  <2>2. RunInv' BY <1>0, <1>2, <2>0, <2>1 DEF HaltInactive, RunInv, HaltPCs, IrqStack, SyscallFrame
  <2>3. IrqStack' = IrqStack BY <1>2, <2>1 DEF IrqStack, HaltInactive
  <2>4. \A p \in Procs : Live(p)' <=> Live(p) BY <1>2, <2>3 DEF Live, HaltInactive
  <2>5. curr_terminal_number \in Terms /\ active \in [Terms -> BOOLEAN] BY DEF TypeOK
  <2>6. active[curr_terminal_number] BY <1>2 DEF HaltInactive, Together, TermInv, Occupied
  <2>7. \A t \in Terms : Occupied(t)' <=> Occupied(t)
    BY <1>2, <2>1, <2>5, <2>6 DEF Occupied, HaltInactive
  <2>8. Occupied(curr_terminal_number)' BY <1>2, <2>1 DEF Occupied, HaltInactive
  <2> QED BY <1>2, <2>2, <2>3, <2>4, <2>5, <2>7, <2>8, TablesKept DEF HaltInactive, Together
<1>3. CASE HaltPpid
  <2>0. ppid[curr_process] # None BY <1>0, <1>3 DEF HaltPpid, RunInv, HaltPCs
  <2>1. /\ cpu'.pc = "h_esp0" /\ cpu'.stack = cpu.stack /\ cpu'.inst = cpu.inst
        /\ cpu'.child = cpu.child /\ cpu'.ppid = ppid[curr_process]
    BY <1>3, <2>0 DEF HaltPpid
  <2>2. RunInv' BY <1>0, <1>3, <2>1 DEF HaltPpid, RunInv, HaltPCs, IrqStack, SyscallFrame
  <2> QED BY <1>3, <2>1, <2>2, HaltWalks DEF HaltPpid, HaltPCs
<1>4. CASE HaltEsp0
  <2>1. /\ cpu'.pc = "h_curr" /\ cpu'.stack = cpu.stack /\ cpu'.inst = cpu.inst
        /\ cpu'.child = cpu.child /\ cpu'.ppid = cpu.ppid
    BY <1>0, <1>4 DEF HaltEsp0, CPUs
  <2>2. RunInv' BY <1>0, <1>4, <2>1 DEF HaltEsp0, RunInv, HaltPCs, IrqStack, SyscallFrame,
        KernelStackTop
  <2> QED BY <1>4, <2>1, <2>2, HaltWalks DEF HaltEsp0, HaltPCs
<1>5. CASE HaltCurr
  <2>1. /\ cpu'.pc = "h_term" /\ cpu'.stack = cpu.stack /\ cpu'.inst = cpu.inst
        /\ cpu'.child = cpu.child /\ cpu'.ppid = cpu.ppid
    BY <1>0, <1>5 DEF HaltCurr, CPUs
  <2>2. RunInv' BY <1>0, <1>5, <2>1 DEF HaltCurr, RunInv, HaltPCs, IrqStack, SyscallFrame
  <2> QED BY <1>5, <2>1, <2>2, HaltWalks DEF HaltCurr, HaltPCs
<1>6. CASE HaltTerm
  <2>1. /\ cpu'.pc = "h_map" /\ cpu'.stack = cpu.stack /\ cpu'.inst = cpu.inst
        /\ cpu'.child = cpu.child /\ cpu'.ppid = cpu.ppid
    BY <1>0, <1>6 DEF HaltTerm, CPUs
  <2>2. current_process'[curr_term] = curr_process /\ \A t \in Terms : t # curr_term
        => current_process'[t] = current_process[t]
    BY <1>0, <1>6 DEF HaltTerm
  <2>3. RunInv' BY <1>0, <1>6, <2>1, <2>2 DEF HaltTerm, RunInv, HaltPCs, IrqStack, SyscallFrame
  <2> QED BY <1>6, <2>1, <2>2, <2>3, HaltWalks DEF HaltTerm, HaltPCs
<1>7. CASE HaltMap
  <2>1. /\ cpu'.pc = "h_close" /\ cpu'.stack = cpu.stack /\ cpu'.inst = cpu.inst
        /\ cpu'.child = cpu.child /\ cpu'.ppid = cpu.ppid
    BY <1>0, <1>7 DEF HaltMap, CPUs
  <2>2. RunInv' BY <1>0, <1>7, <2>1 DEF HaltMap, RunInv, HaltPCs, IrqStack, SyscallFrame, map
  <2> QED BY <1>7, <2>1, <2>2, HaltWalks DEF HaltMap, HaltPCs
<1>8. CASE HaltClose
  <2>1. /\ cpu'.pc = "h_return" /\ cpu'.stack = cpu.stack /\ cpu'.inst = cpu.inst
        /\ cpu'.child = cpu.child /\ cpu'.ppid = cpu.ppid
    BY <1>0, <1>8 DEF HaltClose, CPUs
  <2>2. RunInv' BY <1>0, <1>8, <2>1 DEF HaltClose, RunInv, HaltPCs, IrqStack, SyscallFrame
  <2> QED BY <1>8, <2>1, <2>2, HaltWalks DEF HaltClose, HaltPCs
<1> QED BY <1>1, <1>2, <1>3, <1>4, <1>5, <1>6, <1>7, <1>8 DEF HaltStep

\* execute starts a program in slot p for terminal ct.  L are the slots of the other
\* processes, A the other terminals that have one, as they are without it.
Fits(p, s, disp, ct, by, L, A) ==
  /\ L \in SUBSET Procs /\ A \in SUBSET Terms /\ p \notin L /\ ct \notin A
  /\ disp \in A \cup {ct}
  /\ curr_term' = ct /\ curr_terminal_number' = disp
  /\ \A q \in Procs : q # p => (process_array[q] <=> q \in L)
  /\ \A t \in Terms : active'[t] <=> t \in A \cup {ct}
  /\ \A t \in A : current_process[t] \in L
  /\ \A t, u \in A : current_process[t] = current_process[u] => t = u
  /\ \A t \in A : LET q == current_process[t] IN
       /\ esp_switch'[q] = [stack |-> q, via |-> kstack'[q].via, user |-> kstack'[q].user]
       /\ kstack'[q].via \in {"tick", "key"} /\ kstack'[q].inst = image[q]
       /\ kstack'[q].pc \in {"user", "syscall", "exc"}
  /\ \A r \in L : image[r] \in 1 .. execs
  /\ \A r \in L : ppid[r] # None =>
       /\ ppid[r] \in L /\ kstack'[ppid[r]] = SyscallFrame(image[ppid[r]])
       /\ esp_exec[r] = ppid[r] /\ parent[image[r]] = image[ppid[r]]
       /\ \A t \in A : current_process[t] # ppid[r]
       /\ \A q \in L : ppid[q] = ppid[r] => q = r
  /\ NewPPID(disp) # None =>
       /\ NewPPID(disp) \in L /\ s = NewPPID(disp) /\ by = image[NewPPID(disp)]
       /\ kstack'[NewPPID(disp)] = SyscallFrame(image[NewPPID(disp)])
       /\ \A t \in A : current_process[t] # NewPPID(disp)
       /\ \A r \in L : ppid[r] # NewPPID(disp)
  /\ \A q \in L : \/ \E t \in A : current_process[t] = q
                  \/ \E r \in L : ppid[r] = q
                  \/ q = NewPPID(disp)
  /\ \A q \in Procs \ L : kstack'[q] = Free

\* execute from the check of the file on: if the others fit (Fits), they and the new
\* process do.
LEMMA LaunchInv ==
  ASSUME TypeOK, NEW p \in Procs, NEW s, NEW disp \in Terms, NEW ct \in Terms, NEW by,
         NEW L, NEW A, Launch(p, s, disp, ct, by), Fits(p, s, disp, ct, by, L, A)
  PROVE  Together'
<1> USE DEF Fits
<1> DEFINE pp == NewPPID(disp)
           i  == execs + 1
<1>t. /\ process_array \in [Procs -> BOOLEAN] /\ ppid \in [Procs -> Slots]
         /\ esp_exec \in [Procs -> Slots]
      /\ image \in [Procs -> Insts \cup {0}] /\ parent \in [Insts -> Insts \cup {0}]
      /\ current_process \in [Terms -> Slots] /\ execs \in 0 .. MaxExecs /\ curr_process \in Procs
  BY DEF TypeOK
<1>pp. pp \in Slots BY <1>t DEF NewPPID, Slots
<1>i. i \in Insts /\ i \in Nat /\ i > execs /\ execs \in Nat
  BY <1>t, ConstantsAssumption DEF Launch, Insts
<1>1. /\ execs' = i
      /\ parent' = [parent EXCEPT ![i] = by]
      /\ process_array' = [process_array EXCEPT ![p] = TRUE]
      /\ ppid' = [ppid EXCEPT ![p] = pp]
      /\ current_process' = [current_process EXCEPT ![ct] = p]
      /\ image' = [image EXCEPT ![p] = i]
      /\ esp_exec' = [esp_exec EXCEPT ![p] = s]
      /\ esp0' = p /\ page' = p /\ curr_process' = p
      /\ cpu'.pc = "user" /\ cpu'.inst = i
  BY DEF Launch, map, KernelStackTop, InUser, CpuIn
<1> HIDE DEF pp, i
<1>2. IrqStack' = p BY <1>1 DEF IrqStack
<1>3. \A q \in Procs : Live(q)' <=> q \in L \cup {p} BY <1>t, <1>1, <1>2 DEF Live
<1>4. \A t \in Terms : Occupied(t)' <=> t \in A \cup {ct} BY <1>1 DEF Occupied
<1>5. /\ ProcessOf(ct)' = p
      /\ \A t \in A : ProcessOf(t)' = current_process[t] /\ current_process'[t] = current_process[t]
  BY <1>t, <1>1, <1>2 DEF ProcessOf
<1>6. /\ image'[p] = i /\ \A q \in L : image'[q] = image[q]
      /\ ppid'[p] = pp /\ \A q \in L : ppid'[q] = ppid[q]
      /\ esp_exec'[p] = s /\ \A q \in L : esp_exec'[q] = esp_exec[q]
      /\ parent'[i] = by /\ \A q \in L : parent'[image[q]] = parent[image[q]]
      /\ current_process'[ct] = p /\ process_array'[p]
  <2>1. \A q \in L : image[q] # i /\ image[q] \in Insts
    BY <1>t, <1>i DEF Insts
  <2> QED BY <1>t, <1>i, <1>1, <2>1
<1>7. RunInv'
  BY <1>1, <1>2, <1>6 DEF RunInv, HaltPCs
<1>8. TermInv'
  <2>1. Occupied(ct)' /\ Occupied(disp)' BY <1>4
  <2>2. \A t \in Terms : Occupied(t)' => ProcessOf(t)' \in L \cup {p} BY <1>4, <1>5
  <2>3. \A t \in Terms : Occupied(t)' => ProcessOf(t)' \in Procs /\ Live(ProcessOf(t))'
    BY <2>2, <1>3 DEF Live
  <2>4. \A t, u \in Terms : Occupied(t)' /\ Occupied(u)' /\ ProcessOf(t)' = ProcessOf(u)' => t = u
    BY <1>4, <1>5
  <2>5. Occupied(curr_term)' /\ Occupied(curr_terminal_number)' BY <2>1 DEF Occupied
  <2> QED BY <2>3, <2>4, <2>5 DEF TermInv
<1>9. ChainInv'
  <2>1. \A r \in Procs : Live(r)' => image'[r] \in 1 .. execs'
    BY <1>1, <1>3, <1>6, <1>i
  <2>2. ASSUME NEW r \in Procs, Live(r)', ppid'[r] # None
        PROVE  /\ Live(ppid[r])'
               /\ (kstack[ppid[r]] = SyscallFrame(image[ppid[r]]))'
               /\ (esp_exec[r] = ppid[r] /\ parent[image[r]] = image[ppid[r]])'
               /\ \A t \in Terms : Occupied(t)' => ProcessOf(t)' # ppid'[r]
               /\ \A q \in Procs : Live(q)' /\ ppid'[q] = ppid'[r] => q = r
    <3> DEFINE n == ppid'[r]
    <3>1. n \in L /\ kstack'[n] = SyscallFrame(image[n])
      BY <2>2, <1>3, <1>6 DEF pp
    <3>2. esp_exec'[r] = n /\ parent'[image'[r]] = image[n]
      BY <2>2, <1>3, <1>6 DEF pp
    <3>3. \A t \in Terms : Occupied(t)' => ProcessOf(t)' # n
      BY <2>2, <3>1, <1>3, <1>4, <1>5, <1>6 DEF pp
    <3>4. \A q \in Procs : Live(q)' /\ ppid'[q] = n => q = r
      BY <2>2, <1>3, <1>6 DEF pp
    <3> HIDE DEF n
    <3>5. n \in Procs /\ image'[n] = image[n] BY <3>1, <1>6
    <3>6. process_array'[n] \/ n = IrqStack' BY <3>1, <3>5, <1>3 DEF Live
    <3>7. kstack'[n] = SyscallFrame(image'[n]) BY <3>1, <3>5
    <3>8. Live(ppid[r])' BY <3>6 DEF n, Live
    <3>9. (kstack[ppid[r]] = SyscallFrame(image[ppid[r]]))' BY <3>7 DEF n, SyscallFrame
    <3> QED BY <3>2, <3>3, <3>4, <3>5, <3>8, <3>9 DEF n
  <2> QED BY <2>1, <2>2 DEF ChainInv
<1>10. CoverInv'
  <2>1. \A q \in Procs : Live(q)' => \/ \E t \in Terms : Occupied(t)' /\ ProcessOf(t)' = q
                                     \/ \E r \in Procs : Live(r)' /\ ppid'[r] = q
    BY <1>3, <1>4, <1>5, <1>6 DEF pp
  <2>2. \A q \in Procs : ~Live(q)' => kstack'[q] = Free
    BY <1>3
  <2> QED BY <2>1, <2>2 DEF CoverInv
<1>11. ContextInv'
  <2>1. ASSUME NEW t \in Terms, Occupied(t)', t # ct
        PROVE  LET q == current_process'[t] IN
               /\ esp_switch'[q] = [stack |-> q, via |-> kstack'[q].via, user |-> kstack'[q].user]
               /\ kstack'[q].via \in {"tick", "key"} /\ kstack'[q].inst = image'[q]
               /\ kstack'[q].pc \in {"user", "syscall", "exc"}
    <3>1. t \in A BY <2>1, <1>4
    <3> QED BY <3>1, <1>5, <1>6
  <2> QED BY <2>1 DEF ContextInv
<1> QED BY <1>7, <1>8, <1>9, <1>10, <1>11 DEF Together

\* The first shell.
LEMMA BootInv == ASSUME TypeOK, AtBoot, Boot PROVE Together'
<1>1. 0 \in Procs BY ConstantsAssumption DEF Procs
<1>2. /\ curr_term \in Terms /\ curr_terminal_number = curr_term /\ kstack' = kstack
      /\ curr_term' = curr_term /\ curr_terminal_number' = curr_term
      /\ Launch(0, None, curr_term, curr_term, 0)
      /\ kstack \in [Procs -> Frames] /\ active \in [Terms -> BOOLEAN]
  BY DEF Boot, AtBoot, TypeOK
<1>3. NewPPID(curr_term) = None BY <1>2 DEF NewPPID, AtBoot
<1>4. \A t \in Terms : active'[t] <=> t = curr_term
  BY <1>2 DEF Launch, Activated, AtBoot
<1>5. \A q \in Procs : ~process_array[q] /\ kstack'[q] = Free BY <1>2 DEF AtBoot
<1>6. Fits(0, None, curr_term, curr_term, 0, {}, {})
  BY <1>2, <1>3, <1>4, <1>5 DEF Fits
<1> QED BY <1>1, <1>2, <1>6, LaunchInv

\* Together without the process that runs: L and A are the other live slots and the other
\* occupied terminals.
Rest(L, A) ==
  /\ L \in SUBSET Procs /\ A \in SUBSET Terms /\ IrqStack \notin L /\ curr_term \notin A
  /\ curr_term \in Terms /\ IrqStack \in Procs
  /\ \A t \in A : current_process[t] \in L
  /\ \A t, u \in A : current_process[t] = current_process[u] => t = u
  /\ \A t \in A : LET q == current_process[t] IN
       /\ esp_switch[q] = [stack |-> q, via |-> kstack[q].via, user |-> kstack[q].user]
       /\ kstack[q].via \in {"tick", "key"} /\ kstack[q].inst = image[q]
       /\ kstack[q].pc \in {"user", "syscall", "exc"}
  /\ \A r \in L \cup {IrqStack} : image[r] \in 1 .. execs
  /\ \A r \in L \cup {IrqStack} : ppid[r] # None =>
       /\ ppid[r] \in L /\ kstack[ppid[r]] = SyscallFrame(image[ppid[r]])
       /\ esp_exec[r] = ppid[r] /\ parent[image[r]] = image[ppid[r]]
       /\ \A t \in A : current_process[t] # ppid[r]
       /\ \A q \in L \cup {IrqStack} : ppid[q] = ppid[r] => q = r
  /\ \A r \in L \cup {IrqStack} : ppid[r] # IrqStack
  /\ \A q \in L : \/ \E t \in A : current_process[t] = q
                  \/ \E r \in L \cup {IrqStack} : ppid[r] = q
  /\ \A q \in Procs : q \notin L /\ q # IrqStack => kstack[q] = Free

OtherSlots == {q \in Procs : Live(q) /\ q # IrqStack}
OtherTerms == {t \in Terms : Occupied(t) /\ t # curr_term}

\* What the invariant says of the slots and terminals other than the running ones.
LEMMA Others ==
  ASSUME TypeOK, Together
  PROVE  Rest(OtherSlots, OtherTerms)
<1> DEFINE L == OtherSlots
           A == OtherTerms
<1> USE DEF OtherSlots, OtherTerms
<1> USE DEF Together
<1>1. curr_term \in Terms /\ IrqStack \in Procs /\ Occupied(curr_term) /\ ppid \in [Procs -> Slots]
  BY DEF TypeOK, RunInv, TermInv
<1>2. Live(IrqStack) BY DEF Live
<1>3. ProcessOf(curr_term) = IrqStack /\ \A t \in A : ProcessOf(t) = current_process[t]
  BY DEF ProcessOf
<1>4. \A t \in A : current_process[t] \in L
  BY <1>1, <1>3 DEF TermInv
<1>5. \A t, u \in A : current_process[t] = current_process[u] => t = u
  BY <1>3 DEF TermInv
<1>6. \A r \in L \cup {IrqStack} : Live(r) /\ r \in Procs BY <1>1, <1>2
<1>7. ASSUME NEW r \in L \cup {IrqStack}, ppid[r] # None
      PROVE  /\ ppid[r] \in L /\ kstack[ppid[r]] = SyscallFrame(image[ppid[r]])
             /\ esp_exec[r] = ppid[r] /\ parent[image[r]] = image[ppid[r]]
             /\ \A t \in A : current_process[t] # ppid[r]
             /\ \A q \in L \cup {IrqStack} : ppid[q] = ppid[r] => q = r
             /\ ppid[r] # IrqStack
  <2>1. Live(r) /\ r \in Procs /\ ppid[r] \in Procs BY <1>1, <1>6, <1>7 DEF Slots
  <2>2. /\ Live(ppid[r])
        /\ kstack[ppid[r]] = SyscallFrame(image[ppid[r]])
        /\ esp_exec[r] = ppid[r] /\ parent[image[r]] = image[ppid[r]]
        /\ \A t \in Terms : Occupied(t) => ProcessOf(t) # ppid[r]
        /\ \A q \in Procs : Live(q) /\ ppid[q] = ppid[r] => q = r
    BY <1>7, <2>1 DEF ChainInv
  <2>3. ppid[r] # IrqStack BY <1>1, <1>3, <2>2
  <2> QED BY <2>1, <2>2, <2>3, <1>3, <1>6
<1>8. \A r \in L \cup {IrqStack} : ppid[r] # IrqStack
  BY <1>1, <1>7 DEF Procs, None
<1>9. \A q \in L : \/ \E t \in A : current_process[t] = q
                   \/ \E r \in L \cup {IrqStack} : ppid[r] = q
  <2> SUFFICES ASSUME NEW q \in L, ~\E t \in A : current_process[t] = q
               PROVE  \E r \in L \cup {IrqStack} : ppid[r] = q
    OBVIOUS
  <2>1. ~\E t \in Terms : Occupied(t) /\ ProcessOf(t) = q BY <1>3
  <2>2. PICK r \in Procs : Live(r) /\ ppid[r] = q BY <1>6, <2>1 DEF CoverInv
  <2> QED BY <2>2
<1>10. \A q \in Procs : q \notin L /\ q # IrqStack => kstack[q] = Free BY DEF CoverInv
<1>11. \A r \in L \cup {IrqStack} : image[r] \in 1 .. execs BY <1>6 DEF ChainInv
<1>12. \A t \in A : LET q == current_process[t] IN
            /\ esp_switch[q] = [stack |-> q, via |-> kstack[q].via, user |-> kstack[q].user]
            /\ kstack[q].via \in {"tick", "key"} /\ kstack[q].inst = image[q]
            /\ kstack[q].pc \in {"user", "syscall", "exc"}
  BY DEF ContextInv
<1>13. L \in SUBSET Procs /\ A \in SUBSET Terms /\ IrqStack \notin L /\ curr_term \notin A
  OBVIOUS
<1> HIDE DEF L, A, OtherSlots, OtherTerms
<1> QED BY <1>1, <1>4, <1>5, <1>7, <1>8, <1>9, <1>10, <1>11, <1>12, <1>13 DEF Rest, L, A

\* execute: the caller waits in its own slot for the new process.
LEMMA ExecuteInv == ASSUME TypeOK, Together, Execute PROVE Together'
<1> DEFINE R == IrqStack
           L == OtherSlots \cup {R}
           A == OtherTerms
<1>0. RunInv /\ TermInv /\ Quiet BY DEF Together, Execute, Quiet
<1>1. /\ R \in Procs /\ esp0 = R /\ curr_process = R /\ process_array[R] /\ cpu.inst = image[R]
      /\ \A t \in Terms : Occupied(t) <=> active[t]
  BY <1>0, QuietFacts
<1>2. Rest(OtherSlots, OtherTerms) BY Others
<1>3. PICK p \in Procs : get_process(p) /\ Launch(p, R, curr_terminal_number, curr_term, cpu.inst)
  BY <1>1 DEF Execute
<1>t. /\ kstack \in [Procs -> Frames] /\ active \in [Terms -> BOOLEAN]
         /\ process_array \in [Procs -> BOOLEAN]
      /\ curr_terminal_number \in Terms
  BY DEF TypeOK
<1>4. /\ kstack'[R] = SyscallFrame(image[R]) /\ \A q \in Procs : q # R => kstack'[q] = kstack[q]
      /\ UNCHANGED <<esp_switch, curr_terminal_number, curr_term>>
  BY <1>1, <1>t DEF Execute
<1>5. active[curr_terminal_number] /\ active[curr_term] BY <1>0, <1>1, <1>t DEF TermInv, TypeOK
<1>6. NewPPID(curr_terminal_number) = R BY <1>1, <1>5 DEF NewPPID
<1>7. \A t \in Terms : active'[t] <=> active[t] BY <1>t, <1>3, <1>5 DEF Launch, Activated
<1>8. ~process_array[p] /\ p # R BY <1>1, <1>3 DEF get_process
<1>9. \A t \in Terms : active'[t] <=> t \in A \cup {curr_term}
  BY <1>1, <1>5, <1>7 DEF OtherTerms
<1>10. p \notin L /\ \A q \in Procs : process_array[q] <=> q \in L
  BY <1>1, <1>8 DEF OtherSlots, Live
<1>11. \A q \in OtherSlots : q # R BY DEF OtherSlots
<1> HIDE DEF R
<1>12. R = IrqStack BY DEF R
<1>13. Fits(p, R, curr_terminal_number, curr_term, cpu.inst, L, A)
  <2>1. curr_terminal_number \in A \cup {curr_term} BY <1>5, <1>7, <1>9, <1>t
  <2>2. R \in Slots /\ R # None BY <1>1 DEF Slots, Procs, None
  <2> HIDE DEF A
  <2>3. L \in SUBSET Procs /\ A \in SUBSET Terms /\ curr_term \notin A
    BY <1>1, <1>2, <1>12 DEF Rest, A
  <2>4. \A t \in A : current_process[t] \in OtherSlots /\ current_process[t] # R
    BY <1>2, <1>11 DEF Rest, A
  <2>5. \A t \in A : LET q == current_process[t] IN
       /\ esp_switch'[q] = [stack |-> q, via |-> kstack'[q].via, user |-> kstack'[q].user]
       /\ kstack'[q].via \in {"tick", "key"} /\ kstack'[q].inst = image[q]
       /\ kstack'[q].pc \in {"user", "syscall", "exc"}
    BY <1>2, <1>4, <2>3, <2>4 DEF Rest, A
  <2>6. \A r \in L : ppid[r] # None =>
       /\ ppid[r] \in L /\ kstack'[ppid[r]] = SyscallFrame(image[ppid[r]])
       /\ esp_exec[r] = ppid[r] /\ parent[image[r]] = image[ppid[r]]
       /\ \A t \in A : current_process[t] # ppid[r]
       /\ \A q \in L : ppid[q] = ppid[r] => q = r
    BY <1>2, <1>4, <1>11, <1>12, <2>3 DEF Rest, A
  <2>7. \A q \in L : \/ \E t \in A : current_process[t] = q
                     \/ \E r \in L : ppid[r] = q
                     \/ q = R
    BY <1>2, <1>12 DEF Rest, A
  <2>8. \A q \in Procs \ L : kstack'[q] = Free
    BY <1>2, <1>4, <1>12 DEF Rest
  <2>9. \A r \in L : image[r] \in 1 .. execs /\ ppid[r] # R BY <1>2, <1>12 DEF Rest
  <2>10. \A t, u \in A : current_process[t] = current_process[u] => t = u BY <1>2 DEF Rest, A
  <2> HIDE DEF L
  <2> QED BY <1>1, <1>4, <1>6, <1>9, <1>10, <2>1, <2>2, <2>3, <2>4, <2>5, <2>6, <2>7, <2>8, <2>9,
          <2>10
      DEF Fits, L
<1> QED BY <1>2, <1>3, <1>13, <1>t, LaunchInv DEF Rest

\* halt of a shell: another shell takes its place, perhaps in another slot.
LEMMA HaltExecuteInv == ASSUME TypeOK, Together, HaltExecute PROVE Together'
<1> DEFINE R == IrqStack
           L == OtherSlots
           A == OtherTerms
           disp == curr_terminal_number
<1>0. RunInv /\ TermInv /\ cpu.pc = "h_execute" BY DEF Together, HaltExecute
<1>1. R \in Procs /\ cpu.stack = R /\ ~process_array[R] /\ ppid[R] = None
  BY <1>0 DEF RunInv, HaltPCs, IrqStack
<1>2. Rest(L, A) BY Others
<1>3. ~TableFull BY <1>1 DEF TableFull
<1>4. PICK p \in Procs : get_process(p) /\ Launch(p, R, disp, curr_term, 0)
  BY <1>1, <1>3 DEF HaltExecute
<1>t. /\ kstack \in [Procs -> Frames] /\ active \in [Terms -> BOOLEAN]
         /\ process_array \in [Procs -> BOOLEAN]
      /\ disp \in Terms /\ curr_term \in Terms
  BY DEF TypeOK
<1>5. /\ kstack'[R] = Free /\ \A q \in Procs : q # R => kstack'[q] = kstack[q]
      /\ UNCHANGED <<esp_switch, curr_terminal_number, curr_term>>
  BY <1>1, <1>3, <1>t DEF HaltExecute
<1>6. ~active[disp] BY <1>0 DEF RunInv
<1>7. \A t \in Terms : Occupied(t) <=> active[t] \/ t = disp BY <1>0 DEF Occupied
<1>8. \A t \in Terms : active'[t] <=> active[t] \/ t = disp BY <1>t, <1>4 DEF Launch, Activated
<1>9. \A t \in Terms : active'[t] <=> t \in A \cup {curr_term}
  BY <1>0, <1>7, <1>8, <1>t DEF OtherTerms, TermInv
<1>10. ~process_array[p] BY <1>4 DEF get_process
<1>11. p \notin L /\ \A q \in Procs : process_array[q] <=> q \in L
  BY <1>1, <1>10 DEF OtherSlots, Live
<1>12. NewPPID(disp) = None BY <1>6 DEF NewPPID
<1>13. \A r \in L : ppid[r] # None => ppid[r] # R BY <1>2 DEF Rest
<1> HIDE DEF R, L, A, disp
<1>14. R = IrqStack BY DEF R
<1>15. Fits(p, R, disp, curr_term, 0, L, A)
  <2>1. disp \in A \cup {curr_term} BY <1>8, <1>9, <1>t
  <2>2. L \in SUBSET Procs /\ A \in SUBSET Terms /\ curr_term \notin A /\ R \notin L
    BY <1>2, <1>14 DEF Rest
  <2>3. \A t \in A : current_process[t] \in L /\ current_process[t] # R
    BY <1>2, <2>2 DEF Rest
  <2>4. \A t \in A : LET q == current_process[t] IN
       /\ esp_switch'[q] = [stack |-> q, via |-> kstack'[q].via, user |-> kstack'[q].user]
       /\ kstack'[q].via \in {"tick", "key"} /\ kstack'[q].inst = image[q]
       /\ kstack'[q].pc \in {"user", "syscall", "exc"}
    BY <1>2, <1>5, <2>2, <2>3 DEF Rest
  <2>5. \A r \in L : ppid[r] # None =>
       /\ ppid[r] \in L /\ kstack'[ppid[r]] = SyscallFrame(image[ppid[r]])
       /\ esp_exec[r] = ppid[r] /\ parent[image[r]] = image[ppid[r]]
       /\ \A t \in A : current_process[t] # ppid[r]
       /\ \A q \in L : ppid[q] = ppid[r] => q = r
    BY <1>2, <1>5, <2>2 DEF Rest
  <2>6. \A q \in L : \/ \E t \in A : current_process[t] = q
                     \/ \E r \in L : ppid[r] = q
    BY <1>1, <1>2, <1>14, <2>2 DEF Rest, Procs, None
  <2>7. \A q \in Procs \ L : kstack'[q] = Free
    BY <1>2, <1>5, <1>14 DEF Rest
  <2>8. \A r \in L : image[r] \in 1 .. execs BY <1>2 DEF Rest
  <2>9. \A t, u \in A : current_process[t] = current_process[u] => t = u BY <1>2 DEF Rest
  <2>10. curr_terminal_number' = disp BY <1>5 DEF disp
  <2> QED BY <1>5, <1>9, <1>11, <1>12, <2>1, <2>2, <2>3, <2>4, <2>5, <2>6, <2>7, <2>8, <2>9, <2>10
      DEF Fits
<1> QED BY <1>4, <1>15, <1>t, LaunchInv

\* An interrupt after which things are in order did not arrive within halt.
LEMMA QuietIrq ==
  ASSUME TypeOK, Interruptible, orderly', Noted(InHalt) PROVE Quiet
<1>1. ~InHalt BY NotedGives DEF TypeOK
<1> QED BY <1>1 DEF Interruptible, Quiet, InHalt

\* The same of a new terminal, which was opened from the executing one into a free slot.
LEMMA QuietFresh ==
  ASSUME TypeOK, orderly', NEW t, SwitchFresh(t)
  PROVE  Quiet /\ ~TableFull /\ curr_term = curr_terminal_number
<1>1. ~(InHalt \/ curr_term # curr_terminal_number \/ TableFull)
  BY NotedGives DEF TypeOK, SwitchFresh
<1> QED BY <1>1 DEF SwitchFresh, Interruptible, Quiet, InHalt

\* The commands that cannot be executed.
LEMMA NoBadCommand == ASSUME TypeOK, orderly' PROVE ~ExecuteMissing /\ ~ExecuteNoexec
  BY NotedGives DEF TypeOK, ExecuteMissing, ExecuteNoexec

\* What a step is not when things are in order after it.
Calm ==
  /\ ~ExecuteMissing /\ ~ExecuteNoexec
  /\ Tick => Quiet
  /\ \A t : SwitchFresh(t) => Quiet /\ ~TableFull /\ curr_term = curr_terminal_number

LEMMA CalmStep == ASSUME TypeOK, orderly' PROVE Calm
<1>1. ~ExecuteMissing /\ ~ExecuteNoexec BY NoBadCommand
<1>2. ASSUME Tick PROVE Quiet
  <2>1. Interruptible /\ Noted(InHalt) BY <1>2 DEF Tick
  <2> QED BY <2>1, QuietIrq
<1>3. ASSUME NEW t, SwitchFresh(t) PROVE Quiet /\ ~TableFull /\ curr_term = curr_terminal_number
  BY <1>3, QuietFresh
<1> QED BY <1>1, <1>2, <1>3 DEF Calm

\* The frame of an interrupt, and the pointer to it.
LEMMA IrqFields ==
  ASSUME NEW via
  PROVE  /\ IrqFrame(via).via = via /\ IrqFrame(via).inst = cpu.inst /\ IrqFrame(via).pc = cpu.pc
         /\ IrqFrame(via).user = (cpu.pc = "user")
         /\ IrqFrame(via).child = cpu.child /\ IrqFrame(via).ppid = cpu.ppid
         /\ IrqPointer(via) = [stack |-> IrqStack, via |-> via, user |-> (cpu.pc = "user")]
  BY DEF IrqFrame, IrqPointer

\* Alt-F: a shell for a terminal without one.  The interrupted process keeps its context
\* under the handler's frame.
LEMMA SwitchFreshInv ==
  ASSUME orderly', TypeOK, Together, NEW newt \in Terms, SwitchFresh(newt)
  PROVE  Together'
<1> DEFINE R == IrqStack
           L == OtherSlots \cup {R}
           A == OtherTerms \cup {curr_term}
<1>0. RunInv /\ TermInv /\ Quiet BY QuietFresh DEF Together
<1>1. /\ R \in Procs /\ process_array[R] /\ cpu.inst = image[R]
      /\ current_process[curr_term] = R
      /\ \A t \in Terms : Occupied(t) <=> active[t]
  BY <1>0, QuietFacts
<1>2. Rest(OtherSlots, OtherTerms) BY Others
<1>t. /\ kstack \in [Procs -> Frames] /\ active \in [Terms -> BOOLEAN]
         /\ process_array \in [Procs -> BOOLEAN]
      /\ esp_switch \in [Procs -> Pointers] /\ curr_term \in Terms
  BY DEF TypeOK
<1>3. ~TableFull /\ curr_term = curr_terminal_number BY QuietFresh
<1>4. /\ ~active[newt] /\ curr_term' = newt /\ curr_terminal_number' = newt
      /\ esp_switch' = [esp_switch EXCEPT ![R] = IrqPointer("key")]
      /\ kstack' = [kstack EXCEPT ![R] = IrqFrame("key")]
  BY <1>1, <1>3 DEF SwitchFresh, SaveSwitch
<1>5. PICK p \in Procs : get_process(p) /\ Launch(p, R, newt, newt, 0)
  BY <1>3 DEF SwitchFresh
<1>6. /\ kstack'[R] = IrqFrame("key") /\ \A q \in Procs : q # R => kstack'[q] = kstack[q]
      /\ esp_switch'[R] = IrqPointer("key") /\ \A q \in Procs : q # R
         => esp_switch'[q] = esp_switch[q]
  BY <1>1, <1>4, <1>t
<1>7. NewPPID(newt) = None BY <1>4 DEF NewPPID
<1>8. \A t \in Terms : active'[t] <=> active[t] \/ t = newt BY <1>t, <1>5 DEF Launch, Activated
<1>9. (\A t \in Terms : t \in A <=> active[t]) /\ newt \notin A
  BY <1>0, <1>1, <1>4, <1>t DEF OtherTerms, TermInv
<1>10. ~process_array[p] /\ p # R BY <1>1, <1>5 DEF get_process
<1>11. p \notin L /\ \A q \in Procs : process_array[q] <=> q \in L
  BY <1>1, <1>10 DEF OtherSlots, Live
<1>12. /\ kstack'[R].via = "key" /\ kstack'[R].inst = image[R]
          /\ kstack'[R].pc \in {"user", "syscall", "exc"}
       /\ esp_switch'[R] = [stack |-> R, via |-> kstack'[R].via, user |-> kstack'[R].user]
  BY <1>0, <1>1, <1>6, IrqFields DEF Quiet
<1>13. A \in SUBSET Terms BY <1>2, <1>t DEF Rest
<1> HIDE DEF R
<1>14. R = IrqStack BY DEF R
<1>15. Fits(p, R, newt, newt, 0, L, A)
  <2>2. L \in SUBSET Procs /\ R \notin OtherSlots /\ curr_term \notin OtherTerms
        /\ OtherTerms \in SUBSET Terms
    BY <1>1, <1>2, <1>14 DEF Rest
  <2>3. \A t \in OtherTerms : current_process[t] \in OtherSlots /\ current_process[t] # R
        /\ current_process[t] \in Procs
    BY <1>2, <2>2 DEF Rest
  <2>4. \A t \in A : LET q == current_process[t] IN
       /\ esp_switch'[q] = [stack |-> q, via |-> kstack'[q].via, user |-> kstack'[q].user]
       /\ kstack'[q].via \in {"tick", "key"} /\ kstack'[q].inst = image[q]
       /\ kstack'[q].pc \in {"user", "syscall", "exc"}
    <3>1. ASSUME NEW t \in OtherTerms
          PROVE  LET q == current_process[t] IN
                 /\ esp_switch'[q] = [stack |-> q, via |-> kstack'[q].via, user |-> kstack'[q].user]
                 /\ kstack'[q].via \in {"tick", "key"} /\ kstack'[q].inst = image[q]
                 /\ kstack'[q].pc \in {"user", "syscall", "exc"}
      BY <1>2, <1>6, <2>2, <2>3 DEF Rest
    <3> QED BY <3>1, <1>1, <1>12
  <2>5. \A r \in L : ppid[r] # None =>
       /\ ppid[r] \in L /\ kstack'[ppid[r]] = SyscallFrame(image[ppid[r]])
       /\ esp_exec[r] = ppid[r] /\ parent[image[r]] = image[ppid[r]]
       /\ \A t \in A : current_process[t] # ppid[r]
       /\ \A q \in L : ppid[q] = ppid[r] => q = r
    <3> SUFFICES ASSUME NEW r \in L, ppid[r] # None
                 PROVE  /\ ppid[r] \in L /\ kstack'[ppid[r]] = SyscallFrame(image[ppid[r]])
                        /\ esp_exec[r] = ppid[r] /\ parent[image[r]] = image[ppid[r]]
                        /\ \A t \in A : current_process[t] # ppid[r]
                        /\ \A q \in L : ppid[q] = ppid[r] => q = r
      OBVIOUS
    <3>1. ppid[r] \in OtherSlots /\ ppid[r] # R /\ ppid[r] \in Procs BY <1>2, <1>14, <2>2 DEF Rest
    <3> QED BY <3>1, <1>1, <1>2, <1>6, <1>14 DEF Rest
  <2>6. \A q \in L : \/ \E t \in A : current_process[t] = q
                     \/ \E r \in L : ppid[r] = q
    BY <1>1, <1>2, <1>14 DEF Rest
  <2>7. \A q \in Procs \ L : kstack'[q] = Free
    BY <1>2, <1>6, <1>14 DEF Rest
  <2>8. \A r \in L : image[r] \in 1 .. execs BY <1>2, <1>14 DEF Rest
  <2>9. \A t, u \in A : current_process[t] = current_process[u] => t = u BY <1>1, <1>2, <2>3 DEF Rest
  <2>10. \A t \in A : current_process[t] \in L BY <1>1, <2>3
  <2>11. \A t \in Terms : active'[t] <=> t \in A \cup {newt} BY <1>8, <1>9
  <2> HIDE DEF L, A
  <2> QED BY <1>4, <1>7, <1>9, <1>11, <1>13, <2>2, <2>4, <2>5, <2>6, <2>7, <2>8, <2>9, <2>10, <2>11
      DEF Fits
<1> QED BY <1>5, <1>15, LaunchInv

\* The converse of Others.
LEMMA RestMakes ==
  ASSUME NEW L, NEW A, RunInv', Rest(L, A)', Occupied(curr_terminal_number)',
         \A q \in Procs : Live(q)' <=> q \in L \cup {IrqStack'},
         \A t \in Terms : Occupied(t)' <=> t \in A \cup {curr_term'}
  PROVE  Together'
<1> DEFINE R == IrqStack'
<1>1. ProcessOf(curr_term)' = R /\ \A t \in A : ProcessOf(t)' = current_process'[t]
  BY DEF ProcessOf, Rest
<1>2. TermInv'
  <2>1. \A t \in Terms : Occupied(t)' => ProcessOf(t)' \in L \cup {R}
    BY <1>1 DEF Rest, ProcessOf
  <2>2. \A t \in Terms : Occupied(t)' => ProcessOf(t)' \in Procs /\ Live(ProcessOf(t))'
    BY <2>1 DEF Live, Rest
  <2>3. \A t, u \in Terms : Occupied(t)' /\ Occupied(u)' /\ ProcessOf(t)' = ProcessOf(u)' => t = u
    BY DEF Rest, ProcessOf
  <2>4. Occupied(curr_term)' BY DEF Occupied, Rest
  <2> QED BY <2>2, <2>3, <2>4 DEF TermInv
<1>3. ChainInv'
  <2>1. \A r \in Procs : Live(r)' => (image[r] \in 1 .. execs)' BY DEF Rest
  <2>2. ASSUME NEW r \in Procs, Live(r)', ppid'[r] # None
        PROVE  /\ Live(ppid[r])'
               /\ (kstack[ppid[r]] = SyscallFrame(image[ppid[r]]))'
               /\ (esp_exec[r] = ppid[r] /\ parent[image[r]] = image[ppid[r]])'
               /\ \A t \in Terms : Occupied(t)' => ProcessOf(t)' # ppid'[r]
               /\ \A q \in Procs : Live(q)' /\ ppid'[q] = ppid'[r] => q = r
    <3>1. r \in L \cup {R} BY <2>2
    <3>2. /\ ppid'[r] \in L /\ (kstack[ppid[r]] = SyscallFrame(image[ppid[r]]))'
          /\ (esp_exec[r] = ppid[r] /\ parent[image[r]] = image[ppid[r]])'
          /\ \A t \in A : current_process'[t] # ppid'[r]
          /\ \A q \in L \cup {R} : ppid'[q] = ppid'[r] => q = r
          /\ L \in SUBSET Procs /\ ppid'[r] # R
      BY <3>1, <2>2 DEF Rest, SyscallFrame
    <3>3. Live(ppid[r])' BY <3>2 DEF Live
    <3>4. \A t \in Terms : Occupied(t)' => ProcessOf(t)' # ppid'[r] BY <3>2 DEF ProcessOf
    <3> QED BY <3>2, <3>3, <3>4
  <2> QED BY <2>1, <2>2 DEF ChainInv
<1>4. CoverInv'
  <2>1. \A p \in Procs : Live(p)' => \/ \E t \in Terms : Occupied(t)' /\ ProcessOf(t)' = p
                                     \/ \E r \in Procs : Live(r)' /\ ppid'[r] = p
    <3> SUFFICES ASSUME NEW p \in Procs, Live(p)'
                 PROVE  \/ \E t \in Terms : Occupied(t)' /\ ProcessOf(t)' = p
                        \/ \E r \in Procs : Live(r)' /\ ppid'[r] = p
      OBVIOUS
    <3>1. CASE p = R BY <3>1, <1>1 DEF Rest
    <3>2. CASE p \in L
      <4>1. CASE \E t \in A : current_process'[t] = p BY <4>1, <1>1 DEF Rest
      <4>2. CASE \E r \in L \cup {R} : ppid'[r] = p BY <4>2 DEF Rest
      <4> QED BY <3>2, <4>1, <4>2 DEF Rest
    <3> QED BY <3>1, <3>2
  <2>2. \A p \in Procs : ~Live(p)' => kstack'[p] = Free
    BY DEF Rest
  <2> QED BY <2>1, <2>2 DEF CoverInv
<1>5. ContextInv' BY DEF ContextInv, Rest
<1> QED BY <1>2, <1>3, <1>4, <1>5 DEF Together

\* halt returns: the parent goes on from the frame of its execute.
LEMMA HaltReturnInv ==
  ASSUME TypeOK, Together, HaltReturn
  PROVE  Together' /\ cpu'.pc = "user" /\ cpu'.inst = parent[cpu.inst]
<1> USE DEF procVars, termVars, memVars, history
<1> DEFINE R == IrqStack
           s == ppid[IrqStack]
<1>0. RunInv /\ TermInv /\ cpu.pc = "h_return" BY DEF Together, HaltReturn
<1>1. /\ R \in Procs /\ cpu.stack = R /\ ~process_array[R] /\ s # None /\ cpu.child = R
         /\ cpu.ppid = s
      /\ esp0 = s /\ curr_process = s /\ current_process[curr_term] = s /\ page = s
      /\ cpu.inst = image[R]
  BY <1>0 DEF RunInv, HaltPCs, IrqStack
<1>2. Rest(OtherSlots, OtherTerms) BY Others
<1>3. /\ s \in OtherSlots /\ s # R /\ s \in Procs /\ esp_exec[R] = s
      /\ kstack[s] = SyscallFrame(image[s]) /\ parent[image[R]] = image[s]
      /\ \A t \in OtherTerms : current_process[t] # s
      /\ \A q \in OtherSlots : ppid[q] # s
  BY <1>1, <1>2 DEF Rest
<1>t. kstack \in [Procs -> Frames] BY DEF TypeOK
<1>4. kstack[s].via = "syscall" /\ kstack[s].inst = image[s] BY <1>3 DEF SyscallFrame
<1>5. /\ cpu' = InUser(image[s])
      /\ kstack' = [[kstack EXCEPT ![R] = Free] EXCEPT ![s] = Free]
  BY <1>1, <1>3, <1>4 DEF HaltReturn, ReturnStack
<1>6. /\ UNCHANGED <<process_array, curr_process, ppid, esp_exec, esp_switch, active,
         current_process>>
      /\ UNCHANGED <<curr_terminal_number, curr_term, page, image, esp0, execs, parent>>
  BY DEF HaltReturn
<1>7. cpu'.pc = "user" /\ cpu'.inst = image[s] BY <1>5 DEF InUser, CpuIn
<1> HIDE DEF R, s
<1>8. IrqStack' = s BY <1>1, <1>6, <1>7 DEF IrqStack
<1>9. \A q \in Procs : kstack'[q] = IF q \in {R, s} THEN Free ELSE kstack[q] BY <1>1, <1>3, <1>5, <1>t
<1>10. R = IrqStack BY DEF R
<1>11. process_array[s] /\ \A q \in Procs : process_array[q] <=> q \in OtherSlots
  BY <1>1, <1>3, <1>10 DEF OtherSlots, Live
<1>12. PICK L : L = OtherSlots \ {s} OBVIOUS
<1>13. PICK A : A = OtherTerms OBVIOUS
<1>14. RunInv' BY <1>1, <1>3, <1>6, <1>7, <1>8, <1>9, <1>11 DEF RunInv, HaltPCs
<1>15. Rest(L, A)'
  <2>1. L \in SUBSET Procs /\ A \in SUBSET Terms /\ s \notin L /\ R \notin L /\ curr_term \notin A
        /\ curr_term \in Terms
    BY <1>2, <1>10, <1>12, <1>13 DEF Rest
  <2>2. \A t \in A : current_process[t] \in L BY <1>2, <1>3, <1>12, <1>13 DEF Rest
  <2>3. \A t, u \in A : current_process[t] = current_process[u] => t = u BY <1>2, <1>13 DEF Rest
  <2>4. \A q \in L : kstack'[q] = kstack[q] BY <2>1, <1>9
  <2>5. \A t \in A : LET q == current_process[t] IN
       /\ esp_switch[q] = [stack |-> q, via |-> kstack'[q].via, user |-> kstack'[q].user]
       /\ kstack'[q].via \in {"tick", "key"} /\ kstack'[q].inst = image[q]
       /\ kstack'[q].pc \in {"user", "syscall", "exc"}
    BY <1>2, <1>13, <2>2, <2>4 DEF Rest
  <2>6. \A r \in L \cup {s} : r \in OtherSlots /\ image[r] \in 1 .. execs /\ ppid[r] # s
    BY <1>2, <1>3, <1>12 DEF Rest
  <2>7. \A r \in L \cup {s} : ppid[r] # None =>
       /\ ppid[r] \in L /\ kstack'[ppid[r]] = SyscallFrame(image[ppid[r]])
       /\ esp_exec[r] = ppid[r] /\ parent[image[r]] = image[ppid[r]]
       /\ \A t \in A : current_process[t] # ppid[r]
       /\ \A q \in L \cup {s} : ppid[q] = ppid[r] => q = r
    <3> SUFFICES ASSUME NEW r \in L \cup {s}, ppid[r] # None
                 PROVE  /\ ppid[r] \in L /\ kstack'[ppid[r]] = SyscallFrame(image[ppid[r]])
                        /\ esp_exec[r] = ppid[r] /\ parent[image[r]] = image[ppid[r]]
                        /\ \A t \in A : current_process[t] # ppid[r]
                        /\ \A q \in L \cup {s} : ppid[q] = ppid[r] => q = r
      OBVIOUS
    <3>1. ppid[r] \in OtherSlots /\ ppid[r] # s BY <1>2, <2>6 DEF Rest
    <3>2. ppid[r] \in L BY <3>1, <1>12
    <3> QED BY <3>2, <1>2, <1>13, <2>4, <2>6 DEF Rest
  <2>8. \A q \in L : \/ \E t \in A : current_process[t] = q
                     \/ \E r \in L \cup {s} : ppid[r] = q
    BY <1>2, <1>12, <1>13 DEF Rest, s
  <2>9. \A q \in Procs : q \notin L /\ q # s => kstack'[q] = Free
    BY <1>2, <1>9, <1>10, <1>12 DEF Rest
  <2> QED BY <1>3, <1>6, <1>8, <2>1, <2>2, <2>3, <2>5, <2>6, <2>7, <2>8, <2>9 DEF Rest, SyscallFrame
<1>16. \A q \in Procs : Live(q)' <=> q \in L \cup {s} BY <1>3, <1>6, <1>8, <1>11, <1>12 DEF Live
<1>17. \A t \in Terms : Occupied(t)' <=> t \in A \cup {curr_term}
  BY <1>0, <1>6, <1>7, <1>13 DEF Occupied, OtherTerms, TermInv
<1>18. Occupied(curr_terminal_number)' BY <1>0, <1>6, <1>7 DEF Occupied, TermInv
<1>19. Together' BY <1>6, <1>8, <1>14, <1>15, <1>16, <1>17, <1>18, RestMakes
<1> QED BY <1>1, <1>3, <1>7, <1>19

\* switch_task: the next active terminal goes on from the context it was left in.
LEMMA TickInv == ASSUME orderly', TypeOK, Together, Tick PROVE Together'
<1> USE DEF history, termVars
<1> DEFINE R == IrqStack
           f == IrqFrame("tick")
           ks == [kstack EXCEPT ![R] = f]
<1>0. RunInv /\ TermInv /\ Quiet BY QuietIrq DEF Together, Tick
<1>1. /\ R \in Procs /\ process_array[R] /\ cpu.inst = image[R]
      /\ current_process[curr_term] = R
      /\ kstack[R] = IF cpu.pc = "user" THEN Free ELSE SyscallFrame(cpu.inst)
      /\ \A t \in Terms : Occupied(t) <=> active[t]
  BY <1>0, QuietFacts
<1>2. Rest(OtherSlots, OtherTerms) BY Others
<1>t. /\ kstack \in [Procs -> Frames] /\ esp_switch \in [Procs -> Pointers] /\ curr_term \in Terms
      /\ curr_terminal_number \in Terms
  BY DEF TypeOK
<1>3. PICK t \in Terms :
        /\ NextActive(t)
        /\ LET old == current_process[curr_term]
               new == current_process[t]
               kst == [kstack EXCEPT ![IrqStack] = IrqFrame("tick")]
           IN IF old = None \/ new = None
              THEN /\ cpu' = Wild
                   /\ UNCHANGED <<curr_term, current_pcb, curr_process, page, vid,
                                  esp0, esp_switch, kstack>>
              ELSE /\ curr_term' = t
                   /\ current_pcb' = new
                   /\ curr_process' = new
                   /\ map(new)
                   /\ vid' = UserVideo(t)
                   /\ esp0' = KernelStackTop(new)
                   /\ esp_switch' = SaveSwitch(old, IrqPointer("tick"))
                   /\ Resume(esp_switch'[new], kst)
  BY DEF Tick
<1> DEFINE n == current_process[t]
<1>4. active[t] BY <1>3 DEF NextActive
<1>5. n \in Procs /\ n # None /\ R # None
  BY <1>0, <1>1, <1>4 DEF TermInv, ProcessOf, Procs, None
<1>6. /\ curr_term' = t /\ curr_process' = n /\ page' = n /\ esp0' = n
      /\ esp_switch' = [esp_switch EXCEPT ![R] = IrqPointer("tick")]
      /\ Resume(esp_switch'[n], ks)
      /\ UNCHANGED <<process_array, ppid, esp_exec, active, current_process,
         curr_terminal_number, image, execs, parent>>
  BY <1>1, <1>3, <1>5 DEF Tick, map, KernelStackTop, SaveSwitch
<1>7. /\ esp_switch'[R] = IrqPointer("tick") /\ \A q \in Procs : q # R
         => esp_switch'[q] = esp_switch[q]
      /\ ks[R] = f /\ \A q \in Procs : q # R => ks[q] = kstack[q]
      /\ DOMAIN ks = Procs
  BY <1>1, <1>6, <1>t
<1>8. /\ f.via = "tick" /\ f.inst = cpu.inst /\ f.pc = cpu.pc /\ f.user = (cpu.pc = "user")
      /\ IrqPointer("tick") = [stack |-> R, via |-> "tick", user |-> (cpu.pc = "user")]
  BY IrqFields
<1>9. Occupied(curr_terminal_number) /\ active[curr_terminal_number] /\ active[curr_term]
  BY <1>0, <1>1, <1>t DEF TermInv
<1> HIDE DEF R, f, ks, n
<1>10. R = IrqStack BY DEF R
\* the frame that is resumed
<1>11. /\ esp_switch'[n] = [stack |-> n, via |-> ks[n].via, user |-> ks[n].user]
       /\ ks[n].via \in {"tick", "key"} /\ ks[n].inst = image[n]
          /\ ks[n].pc \in {"user", "syscall", "exc"}
       /\ ks[n].user <=> ks[n].pc = "user"
  <2>1. CASE t = curr_term
    <3>1. n = R BY <2>1, <1>1 DEF n
    <3> QED BY <3>1, <1>0, <1>1, <1>7, <1>8 DEF Quiet
  <2>2. CASE t # curr_term
    <3>1. t \in OtherTerms BY <2>2, <1>1, <1>4 DEF OtherTerms
    <3>2. n \in OtherSlots /\ n # R BY <3>1, <1>2, <1>10 DEF Rest, n
    <3>3. /\ esp_switch[n] = [stack |-> n, via |-> kstack[n].via, user |-> kstack[n].user]
          /\ kstack[n].via \in {"tick", "key"} /\ kstack[n].inst = image[n]
          /\ kstack[n].pc \in {"user", "syscall", "exc"}
      BY <3>1, <1>2 DEF Rest, n
    <3>4. kstack[n].user <=> kstack[n].pc = "user" BY <3>3, <1>5 DEF TypeOK, ContextsOK
    <3> QED BY <3>2, <3>3, <3>4, <1>5, <1>7
  <2> QED BY <2>1, <2>2
<1>12. /\ cpu'.inst = image[n] /\ cpu'.pc = ks[n].pc /\ (cpu'.pc # "user" => cpu'.stack = n)
       /\ kstack' = [ks EXCEPT ![n] = IF ks[n].user THEN Free ELSE SyscallFrame(image[n])]
  <2>1. esp_switch'[n].stack = n /\ esp_switch'[n].via = ks[n].via /\ esp_switch'[n].user = ks[n].user
    BY <1>11
  <2> QED BY <1>5, <1>6, <1>11, <2>1 DEF Resume
<1>13. IrqStack' = n BY <1>6, <1>12 DEF IrqStack
<1>14. /\ kstack'[n] = (IF cpu'.pc = "user" THEN Free ELSE SyscallFrame(image[n]))
       /\ \A q \in Procs : q # n => kstack'[q] = ks[q]
  BY <1>5, <1>7, <1>11, <1>12
<1>15. \A u \in Terms : Occupied(u)' <=> active[u] BY <1>6, <1>11, <1>12 DEF Occupied
<1>16. CASE t = curr_term
  <2>1. n = R BY <1>1, <1>16 DEF n
  <2>2. \A q \in Procs : Live(q)' <=> Live(q) BY <2>1, <1>6, <1>10, <1>13 DEF Live
  <2>3. \A q \in Procs : q # R => esp_switch'[q] = esp_switch[q] /\ kstack'[q] = kstack[q]
    BY <2>1, <1>7, <1>14
  <2>4. RunInv'
    BY <2>1, <1>1, <1>6, <1>8, <1>10, <1>11, <1>12, <1>13, <1>14, <1>16
        DEF RunInv, HaltPCs, SyscallFrame
  <2>5. IrqStack' = IrqStack /\ curr_term' = curr_term BY <2>1, <1>6, <1>10, <1>13, <1>16
  <2>6. \A u \in Terms : Occupied(u)' <=> Occupied(u) BY <1>1, <1>15
  <2>7. Occupied(curr_terminal_number)' BY <1>6, <1>9, <1>15, <1>t
  <2>8. TermInv' /\ ChainInv' /\ CoverInv' /\ ContextInv'
    BY <2>2, <2>3, <2>5, <2>6, <2>7, <1>6, <1>10, <1>t, TablesKept DEF Together
  <2> QED BY <2>4, <2>8 DEF Together
<1>17. CASE t # curr_term
  <2>1. t \in OtherTerms BY <1>17, <1>1, <1>4 DEF OtherTerms
  <2>2. n \in OtherSlots /\ n # R /\ curr_term \notin OtherTerms /\ R \notin OtherSlots
    BY <2>1, <1>2, <1>10 DEF Rest, n
  <2>3. process_array[n] /\ \A q \in Procs : process_array[q] <=> q \in OtherSlots \cup {R}
    BY <2>2, <1>1, <1>10 DEF OtherSlots, Live
  <2>4. PICK L : L = (OtherSlots \ {n}) \cup {R} OBVIOUS
  <2>5. PICK A : A = (OtherTerms \ {t}) \cup {curr_term} OBVIOUS
  <2>6. RunInv'
    <3>1. current_process'[t] = n BY <1>6 DEF n
    <3> QED BY <3>1, <2>3, <1>5, <1>6, <1>11, <1>12, <1>13, <1>14 DEF RunInv, HaltPCs, SyscallFrame
  <2>7. Rest(L, A)'
    <3>1. L \in SUBSET Procs /\ A \in SUBSET Terms /\ n \notin L /\ t \notin A
          /\ L \cup {n} = OtherSlots \cup {R}
      BY <2>2, <2>4, <2>5, <1>1, <1>2, <1>17, <1>t DEF Rest
    <3>2. \A u \in OtherTerms : current_process[u] \in OtherSlots /\ current_process[u] # R
          /\ (u # t => current_process[u] # n)
      BY <2>1, <2>2, <1>2 DEF Rest, n
    <3>3. \A u \in A : current_process[u] \in L BY <3>2, <2>4, <2>5, <1>1
    <3>4. \A u, v \in A : current_process[u] = current_process[v] => u = v
      BY <3>2, <2>5, <1>1, <1>2 DEF Rest
    <3>5. \A q \in OtherSlots : q # n => kstack'[q] = kstack[q]
          /\ esp_switch'[q] = esp_switch[q] /\ q \in Procs
      BY <1>7, <1>14, <2>2, <1>2 DEF Rest
    <3>6. kstack'[R] = f BY <1>1, <1>7, <1>14, <2>2
    <3>7. \A u \in A : LET q == current_process[u] IN
         /\ esp_switch'[q] = [stack |-> q, via |-> kstack'[q].via, user |-> kstack'[q].user]
         /\ kstack'[q].via \in {"tick", "key"} /\ kstack'[q].inst = image[q]
         /\ kstack'[q].pc \in {"user", "syscall", "exc"}
      <4>1. ASSUME NEW u \in OtherTerms, u # t
            PROVE  LET q == current_process[u] IN
                   /\ esp_switch'[q] = [stack |-> q, via |-> kstack'[q].via, user |-> kstack'[q].user]
                   /\ kstack'[q].via \in {"tick", "key"} /\ kstack'[q].inst = image[q]
                   /\ kstack'[q].pc \in {"user", "syscall", "exc"}
        BY <4>1, <3>2, <3>5, <1>2 DEF Rest
      <4>2. /\ esp_switch'[R] = [stack |-> R, via |-> kstack'[R].via, user |-> kstack'[R].user]
            /\ kstack'[R].via \in {"tick", "key"} /\ kstack'[R].inst = image[R]
            /\ kstack'[R].pc \in {"user", "syscall", "exc"}
        BY <3>6, <1>0, <1>1, <1>7, <1>8 DEF Quiet
      <4> QED BY <4>1, <4>2, <2>5, <1>1
    <3>8. \A r \in L \cup {n} : image[r] \in 1 .. execs BY <3>1, <1>2, <1>10 DEF Rest
    <3>9. ASSUME NEW r \in L \cup {n}, ppid[r] # None
          PROVE  /\ ppid[r] \in L /\ kstack'[ppid[r]] = SyscallFrame(image[ppid[r]])
                 /\ esp_exec[r] = ppid[r] /\ parent[image[r]] = image[ppid[r]]
                 /\ \A u \in A : current_process[u] # ppid[r]
                 /\ \A q \in L \cup {n} : ppid[q] = ppid[r] => q = r
                 /\ ppid[r] # n
      <4>1. r \in OtherSlots \cup {R} BY <3>1
      <4>2. /\ ppid[r] \in OtherSlots /\ kstack[ppid[r]] = SyscallFrame(image[ppid[r]])
            /\ esp_exec[r] = ppid[r] /\ parent[image[r]] = image[ppid[r]]
            /\ \A u \in OtherTerms : current_process[u] # ppid[r]
            /\ \A q \in OtherSlots \cup {R} : ppid[q] = ppid[r] => q = r
            /\ ppid[r] # R
        BY <4>1, <3>9, <1>2, <1>10 DEF Rest
      <4>3. ppid[r] # n BY <4>2, <2>1 DEF n
      <4>4. ppid[r] \in L /\ kstack'[ppid[r]] = kstack[ppid[r]] BY <4>2, <4>3, <2>4, <3>5
      <4>5. \A u \in A : current_process[u] # ppid[r] BY <4>2, <2>5, <1>1
      <4> QED BY <4>2, <4>3, <4>4, <4>5, <3>1
    <3>10. \A q \in L : \/ \E u \in A : current_process[u] = q
                        \/ \E r \in L \cup {n} : ppid[r] = q
      <4> SUFFICES ASSUME NEW q \in L, q # R
                   PROVE  \/ \E u \in A : current_process[u] = q
                          \/ \E r \in L \cup {n} : ppid[r] = q
        BY <1>1, <2>5
      <4>1. q \in OtherSlots /\ q # n BY <2>4, <3>1
      <4>2. CASE \E u \in OtherTerms : current_process[u] = q BY <4>1, <4>2, <2>5 DEF n
      <4>3. CASE \E r \in OtherSlots \cup {R} : ppid[r] = q BY <4>3, <3>1
      <4> QED BY <4>1, <4>2, <4>3, <1>2, <1>10 DEF Rest
    <3>11. \A q \in Procs : q \notin L /\ q # n => kstack'[q] = Free
      <4> SUFFICES ASSUME NEW q \in Procs, q \notin L, q # n PROVE kstack'[q] = Free OBVIOUS
      <4>1. q \notin OtherSlots /\ q # R BY <2>4
      <4> QED BY <4>1, <1>2, <1>7, <1>10, <1>14 DEF Rest
    <3>12. \A r \in L \cup {n} : ppid[r] # n
      BY <3>9, <1>5
    <3> QED BY <1>5, <1>6, <1>13, <3>1, <3>3, <3>4, <3>7, <3>8, <3>9, <3>10, <3>11, <3>12
        DEF Rest, SyscallFrame
  <2>8. \A q \in Procs : Live(q)' <=> q \in L \cup {n}
    BY <2>2, <2>3, <2>4, <1>6, <1>13 DEF Live
  <2>9. \A u \in Terms : Occupied(u)' <=> u \in A \cup {t}
    BY <2>1, <2>5, <1>1, <1>9, <1>15 DEF OtherTerms
  <2>10. Occupied(curr_terminal_number)' BY <1>6, <1>9, <1>15, <1>t
  <2> QED BY <2>6, <2>7, <2>8, <2>9, <2>10, <1>6, <1>13, RestMakes
<1> QED BY <1>16, <1>17

\* Before boot nothing but kernel_main can take a step.
LEMMA BootOnly == ASSUME AtBoot, Next PROVE Boot
  BY DEF AtBoot, Next, UserStep, HaltStep, Execute, CallReturns, ExecuteFull, ExecuteMissing,
         ExecuteNoexec, Halt, Exception, Syscall, Open, OpenStd, Close, Vidmap, HaltPcb,
         HaltInactive, HaltExecute, HaltPpid, HaltEsp0, HaltCurr, HaltTerm, HaltMap, HaltClose,
         HaltReturn, ExceptionHalt, SyscallReturn, Tick, TickSpin, SwitchActive, SwitchFresh,
         SwitchWild, Interruptible, HaltPCs

\* The displayed terminal has a process whenever an interrupt may arrive, so that neither
\* switch_task nor switch_terminal finds a terminal without one.
LEMMA DisplayedRuns ==
  ASSUME orderly', Noted(InHalt), TypeOK, Together, Interruptible
  PROVE  /\ active[curr_terminal_number] /\ active[curr_term]
         /\ current_process[curr_terminal_number] \in Procs
<1>1. Quiet /\ RunInv /\ TermInv BY QuietIrq DEF Together
<1>2. /\ IrqStack \in Procs /\ current_process[curr_term] = IrqStack
      /\ \A t \in Terms : Occupied(t) <=> active[t]
  BY <1>1, QuietFacts
<1>3. curr_terminal_number \in Terms /\ curr_term \in Terms BY DEF TypeOK
<1> QED BY <1>1, <1>2, <1>3 DEF TermInv, ProcessOf

\* A system call of the running process, other than an execute that starts a program.
LEMMA UserStepInv ==
  ASSUME orderly', TypeOK, Together, UserStep
  PROVE  Together'
<1> USE DEF procVars, termVars, memVars, history
<1>1. Quiet /\ RunInv /\ TermInv /\ cpu.pc = "user"
  BY DEF Together, UserStep, Quiet, Execute, CallReturns, ExecuteFull, ExecuteMissing,
         ExecuteNoexec, Halt, Exception, Syscall, Open, OpenStd, Close, Vidmap
<1>2. curr_terminal_number \in Terms /\ active[curr_terminal_number]
  <2>1. \A t \in Terms : Occupied(t) <=> active[t] BY <1>1, QuietFacts
  <2> QED BY <1>1, <2>1 DEF TypeOK, TermInv
<1>3. CASE ExecuteFull \/ CallReturns
  BY <1>1, <1>2, <1>3, CallInv DEF ExecuteFull, CallReturns, BackInUser
<1>4. CASE Open BY <1>1, <1>2, <1>4, CallInv DEF Open, BackInUser
<1>5. CASE OpenStd BY <1>1, <1>2, <1>5, CallInv DEF OpenStd, BackInUser
<1>6. CASE Close BY <1>1, <1>2, <1>6, CallInv DEF Close, BackInUser
<1>7. CASE Vidmap BY <1>1, <1>2, <1>7, CallInv DEF Vidmap, BackInUser
<1>8. CASE Halt BY <1>1, <1>8, EnterInv DEF Halt, end_process
<1>9. CASE Exception BY <1>1, <1>9, EnterInv DEF Exception
<1>10. CASE Syscall BY <1>1, <1>10, EnterInv DEF Syscall
<1>11. CASE Execute BY <1>11, ExecuteInv
<1>12. CASE ExecuteMissing \/ ExecuteNoexec BY <1>12, NoBadCommand
<1> QED BY <1>3, <1>4, <1>5, <1>6, <1>7, <1>8, <1>9, <1>10, <1>11, <1>12 DEF UserStep

\* Alt-F to a terminal with a shell changes the display only.
LEMMA SwitchActiveInv ==
  ASSUME orderly', TypeOK, Together, NEW t \in Terms, SwitchActive(t)
  PROVE  Together'
<1> USE DEF procVars, termVars, memVars, history
<1>1. CASE Quiet BY <1>1, CallInv DEF SwitchActive
<1>2. CASE cpu.pc \in HaltPCs \ {"h_execute"}
  <2>1. /\ UNCHANGED <<process_array, curr_process, ppid, esp_exec, esp_switch, active,
                      current_process, curr_term, page, image, esp0, kstack, cpu, execs, parent>>
        /\ curr_terminal_number' = t /\ active[t]
    BY <1>2 DEF SwitchActive, HaltPCs
  <2>2. IrqStack' = IrqStack BY <2>1 DEF IrqStack
  <2>3. \A p \in Procs : Live(p)' <=> Live(p) BY <2>1, <2>2 DEF Live
  <2>4. \A u \in Terms : Occupied(u)' <=> Occupied(u) BY <1>2, <2>1 DEF Occupied
  <2>5. Occupied(curr_terminal_number)' BY <2>1 DEF Occupied
  <2>6. RunInv' BY <1>2, <2>1, <2>2 DEF Together, RunInv, SyscallFrame
  <2> QED BY <2>1, <2>2, <2>3, <2>4, <2>5, <2>6, TablesKept DEF Together
<1>3. cpu.pc # "h_execute" BY NotedGives DEF TypeOK, SwitchActive
<1> QED BY <1>1, <1>2, <1>3 DEF SwitchActive, Interruptible, Quiet

\* Every step keeps the tables together.
LEMMA SlotsNext == ASSUME orderly', SlotsInv, [Next]_vars PROVE SlotsInv'
<1>1. TypeOK /\ TypeOK' BY TypeNext DEF SlotsInv
<1>2. CASE AtBoot /\ Next
  BY <1>1, <1>2, BootOnly, BootInv DEF SlotsInv
<1>3. CASE Together /\ Next
  <2>1. CASE Boot BY <1>3, <2>1 DEF Boot, Together, RunInv, HaltPCs
  <2>2. CASE UserStep BY <1>1, <1>3, <2>2, UserStepInv DEF SlotsInv
  <2>3. CASE HaltStep
    BY <1>1, <1>3, <2>3, HaltStepInv, HaltExecuteInv, HaltReturnInv DEF SlotsInv
  <2>4. CASE ExceptionHalt BY <1>1, <1>3, <2>4, ExceptionHaltInv DEF SlotsInv
  <2>5. CASE SyscallReturn BY <1>1, <1>3, <2>5, SyscallReturnInv DEF SlotsInv
  <2>6. CASE Tick BY <1>1, <1>3, <2>6, TickInv DEF SlotsInv
  <2>7. CASE TickSpin BY <1>1, <1>3, <2>7, DisplayedRuns DEF TickSpin, TypeOK
  <2>8. ASSUME NEW t \in Terms, SwitchActive(t) PROVE SlotsInv'
    BY <1>1, <1>3, <2>8, SwitchActiveInv DEF SlotsInv
  <2>9. ASSUME NEW t \in Terms, SwitchFresh(t) PROVE SlotsInv'
    BY <1>1, <1>3, <2>9, SwitchFreshInv DEF SlotsInv
  <2>10. ASSUME NEW t \in Terms, SwitchWild(t) PROVE SlotsInv'
    BY <1>1, <1>3, <2>10, DisplayedRuns DEF SwitchWild, Procs, None
  <2> QED BY <1>3, <2>1, <2>2, <2>3, <2>4, <2>5, <2>6, <2>7, <2>8, <2>9, <2>10 DEF Next
<1>4. CASE UNCHANGED vars
  <2> USE <1>4 DEF vars, procVars, termVars, memVars, history
  <2>1. AtBoot => AtBoot' BY DEF AtBoot
  <2>2. IrqStack' = IrqStack BY DEF IrqStack
  <2>3. \A p : Live(p)' <=> Live(p) BY <2>2 DEF Live
  <2>4. \A t : Occupied(t)' <=> Occupied(t) BY DEF Occupied
  <2>5. \A t : ProcessOf(t)' = ProcessOf(t) BY <2>2 DEF ProcessOf
  <2>6. RunInv => RunInv' BY <2>2 DEF RunInv, SyscallFrame, Free
  <2>7. TermInv => TermInv' BY <2>3, <2>4, <2>5 DEF TermInv
  <2>8. ChainInv => ChainInv' BY <2>3, <2>4, <2>5 DEF ChainInv, SyscallFrame
  <2>9. CoverInv => CoverInv' BY <2>3, <2>4, <2>5 DEF CoverInv
  <2>10. ContextInv => ContextInv' BY <2>4 DEF ContextInv
  <2> QED BY <1>1, <2>1, <2>6, <2>7, <2>8, <2>9, <2>10 DEF SlotsInv, Together
<1> QED BY <1>1, <1>2, <1>3, <1>4 DEF SlotsInv

\* The tables before boot.
LEMMA SlotsInit == Init => SlotsInv
  BY TypeInit DEF SlotsInv, AtBoot, Init, CpuIn, Procs, Terms

\* The inductive invariant of the process table.
THEOREM TablesCorrect == Spec => [](orderly => SlotsInv)
<1>1. TypeOK /\ (orderly => SlotsInv) /\ [Next]_vars => (orderly => SlotsInv)'
  <2> SUFFICES ASSUME TypeOK, orderly => SlotsInv, [Next]_vars, orderly' PROVE SlotsInv' OBVIOUS
  <2>1. orderly BY OrderlyStep DEF TypeOK
  <2> QED BY <2>1, SlotsNext
<1> QED BY <1>1, SlotsInit, TypeCorrect, PTL DEF Spec

\* What the invariant says while a process runs or waits in a system call.
LEMMA QuietSlots ==
  ASSUME SlotsInv, Quiet
  PROVE  /\ TypeOK /\ RunInv /\ TermInv /\ ChainInv /\ CoverInv /\ ContextInv
         /\ IrqStack \in Procs /\ esp0 = IrqStack /\ curr_process = IrqStack
         /\ current_process[curr_term] = IrqStack /\ page = IrqStack
         /\ process_array[IrqStack] /\ cpu.inst = image[IrqStack]
         /\ kstack[IrqStack] = IF cpu.pc = "user" THEN Free ELSE SyscallFrame(cpu.inst)
         /\ \A t \in Terms : Occupied(t) <=> active[t]
         /\ \A t \in Terms : ProcessOf(t) = current_process[t]
         /\ \A p \in Procs : Live(p) <=> process_array[p]
<1>1. TypeOK /\ Together BY DEF SlotsInv, AtBoot, Quiet
<1>2. RunInv /\ TermInv /\ ChainInv /\ CoverInv /\ ContextInv BY <1>1 DEF Together
<1>3. /\ IrqStack \in Procs /\ esp0 = IrqStack /\ curr_process = IrqStack
      /\ current_process[curr_term] = IrqStack /\ page = IrqStack
      /\ process_array[IrqStack] /\ cpu.inst = image[IrqStack]
      /\ kstack[IrqStack] = IF cpu.pc = "user" THEN Free ELSE SyscallFrame(cpu.inst)
      /\ \A t \in Terms : Occupied(t) <=> active[t]
  BY <1>1, <1>2, QuietFacts
<1>4. \A t \in Terms : ProcessOf(t) = current_process[t] BY <1>3 DEF ProcessOf
<1>5. \A p \in Procs : Live(p) <=> process_array[p] BY <1>3 DEF Live
<1> QED BY <1>1, <1>2, <1>3, <1>4, <1>5

\* Whenever a program runs in user mode, the page at its address is the one that execute
\* loaded it into, whichever of execute, halt and switch_task mapped it last.
THEOREM PageCorrect == Spec => [](orderly => PageHoldsRunning)
<1>1. SlotsInv => PageHoldsRunning
  <2> SUFFICES ASSUME SlotsInv, cpu.pc = "user" PROVE page # None /\ image[page] = cpu.inst
    BY DEF PageHoldsRunning
  <2>1. IrqStack \in Procs /\ page = IrqStack /\ cpu.inst = image[IrqStack]
    BY QuietSlots DEF Quiet
  <2> QED BY <2>1 DEF Procs, None
<1> QED BY <1>1, TablesCorrect, PTL

\* tss.esp0 never points at a stack with a frame that somebody still returns through.
THEOREM StackCorrect == Spec => [](orderly => KernelStackFree)
<1>1. SlotsInv => KernelStackFree BY QuietSlots DEF KernelStackFree, Quiet
<1> QED BY <1>1, TablesCorrect, PTL

\* A terminal that waits for its turn has an intact frame on the stack of its own process,
\* where ESP_SWITCH points.
THEOREM ContextsCorrect == Spec => [](orderly => SavedContexts)
<1>1. SlotsInv => SavedContexts
  <2> SUFFICES ASSUME SlotsInv, Quiet, NEW t \in Terms, active[t], t # curr_term
               PROVE  LET p == current_process[t] IN
                        /\ p # None
                        /\ esp_switch[p] = [stack |-> p, via |-> kstack[p].via, user |-> kstack[p].user]
                        /\ kstack[p].via \in {"tick", "key"} /\ kstack[p].inst = image[p]
    BY DEF SavedContexts
  <2>1. TermInv /\ ContextInv /\ Occupied(t) /\ ProcessOf(t) = current_process[t] BY QuietSlots
  <2>2. current_process[t] \in Procs BY <2>1 DEF TermInv
  <2>3. current_process[t] # None BY <2>2 DEF Procs, None
  <2> QED BY <2>1, <2>3 DEF ContextInv
<1> QED BY <1>1, TablesCorrect, PTL

\* A set all of whose elements are equal has at most one.
LEMMA AtMostOne ==
  ASSUME NEW S, \A x, y \in S : x = y
  PROVE  Cardinality(S) <= 1
<1>1. CASE S = {} BY <1>1, FS_EmptySet
<1>2. CASE S # {}
  <2>1. PICK x \in S : TRUE BY <1>2
  <2>2. S = {x} BY <2>1
  <2>3. Cardinality({x}) = 1 BY FS_Singleton
  <2> QED BY <2>2, <2>3
<1> QED BY <1>1, <1>2

\* process_array marks the slots of live processes and no others, and no two of them
\* share a slot.
THEOREM SlotsCorrect == Spec => [](orderly => SlotsExact)
<1>1. SlotsInv => SlotsExact
  <2> SUFFICES ASSUME SlotsInv, Quiet, NEW p \in Procs
               PROVE  /\ Cardinality(Claims(p)) <= 1
                      /\ process_array[p] <=> Claims(p) # {}
    BY DEF SlotsExact
  <2>1. /\ TypeOK /\ TermInv /\ ChainInv /\ CoverInv
        /\ \A t \in Terms : Occupied(t) <=> active[t]
        /\ \A t \in Terms : ProcessOf(t) = current_process[t]
        /\ \A q \in Procs : Live(q) <=> process_array[q]
    BY QuietSlots
  <2>p. p # None BY DEF Procs, None
  <2>2. \A t, u \in Terms : active[t] /\ active[u] /\ current_process[t] = p
                            /\ current_process[u] = p => t = u
    BY <2>1 DEF TermInv
  <2>3. \A q, r \in Procs : process_array[q] /\ process_array[r] /\ ppid[q] = p /\ ppid[r] = p
        => q = r
    BY <2>1, <2>p DEF ChainInv
  <2>4. \A t \in Terms, r \in Procs :
          ~(active[t] /\ current_process[t] = p /\ process_array[r] /\ ppid[r] = p)
    BY <2>1, <2>p DEF ChainInv
  <2>5. \A x, y \in Claims(p) : x = y
    <3> SUFFICES ASSUME NEW x \in Claims(p), NEW y \in Claims(p) PROVE x = y OBVIOUS
    <3>1. \/ \E t \in Terms : active[t] /\ current_process[t] = p /\ x = <<"terminal", t>>
          \/ \E r \in Procs : process_array[r] /\ ppid[r] = p /\ x = <<"child", r>>
      BY DEF Claims
    <3>2. \/ \E t \in Terms : active[t] /\ current_process[t] = p /\ y = <<"terminal", t>>
          \/ \E r \in Procs : process_array[r] /\ ppid[r] = p /\ y = <<"child", r>>
      BY DEF Claims
    <3> QED BY <2>2, <2>3, <2>4, <3>1, <3>2
  <2>6. process_array[p] => Claims(p) # {}
    <3>1. ASSUME NEW t \in Terms, active[t], current_process[t] = p PROVE Claims(p) # {}
      BY <3>1 DEF Claims
    <3>2. ASSUME NEW r \in Procs, process_array[r], ppid[r] = p PROVE Claims(p) # {}
      BY <3>2 DEF Claims
    <3> QED BY <2>1, <3>1, <3>2 DEF CoverInv
  <2>7. Claims(p) # {} => process_array[p]
    <3>1. ASSUME NEW t \in Terms, active[t], current_process[t] = p PROVE process_array[p]
      BY <2>1, <3>1 DEF TermInv
    <3>2. ASSUME NEW r \in Procs, process_array[r], ppid[r] = p PROVE process_array[p]
      BY <2>1, <2>p, <3>2 DEF ChainInv
    <3> QED BY <3>1, <3>2 DEF Claims
  <2> QED BY <2>5, <2>6, <2>7, AtMostOne
<1> QED BY <1>1, TablesCorrect, PTL

\* halt gives control back to the instance that called execute, as long as things are in
\* order.
THEOREM HaltCorrect == Spec => [][orderly => ReturnStep]_vars /\ ([]orderly => ReturnsToParent)
<1>1. (orderly => SlotsInv) /\ [Next]_vars => [orderly => ReturnStep]_vars
  <2> SUFFICES ASSUME SlotsInv, HaltReturn PROVE cpu'.pc = "user" /\ cpu'.inst = parent[cpu.inst]
    BY DEF ReturnStep
  <2>1. TypeOK /\ Together BY DEF SlotsInv, AtBoot, HaltReturn
  <2> QED BY <2>1, HaltReturnInv
<1>2. Spec => [][orderly => ReturnStep]_vars BY <1>1, TablesCorrect, PTL DEF Spec
<1>3. orderly /\ [orderly => ReturnStep]_vars => [ReturnStep]_vars OBVIOUS
<1> QED BY <1>2, <1>3, PTL DEF ReturnsToParent

\* The process of a terminal that does not execute: marked in the table, not the one that
\* runs, and nobody's parent.
LEMMA OtherTerminal ==
  ASSUME TypeOK, Together, NEW t \in Terms, active[t], t # curr_term
  PROVE  LET q == current_process[t] IN
         /\ q \in Procs /\ process_array[q] /\ q # IrqStack
         /\ ppid[IrqStack] # None => q # ppid[IrqStack]
<1>1. RunInv /\ TermInv /\ ChainInv /\ Occupied(t) /\ Occupied(curr_term) /\ curr_term \in Terms
  BY DEF Together, TermInv, Occupied, TypeOK
<1>2. ProcessOf(t) = current_process[t] /\ ProcessOf(curr_term) = IrqStack BY DEF ProcessOf
<1>3. current_process[t] # IrqStack /\ current_process[t] \in Procs /\ Live(current_process[t])
  BY <1>1, <1>2 DEF TermInv
<1>4. IrqStack \in Procs /\ Live(IrqStack) BY <1>1 DEF RunInv, Live
<1>5. ppid[IrqStack] # None => current_process[t] # ppid[IrqStack]
  BY <1>1, <1>2, <1>4 DEF ChainInv
<1> QED BY <1>3, <1>5 DEF Live

\* No system call, no halt and no new shell changes a descriptor of a process that another
\* terminal runs, as long as things are in order.
THEOREM DescriptorsIsolated == Spec => [][orderly => FdsStep]_vars /\ ([]orderly => FdIsolation)
<1>1. ASSUME SlotsInv, Next, NEW t \in Terms, active[t], t # curr_term
      PROVE  fds'[current_process[t]] = fds[current_process[t]]
  <2>1. TypeOK /\ Together /\ RunInv BY <1>1 DEF SlotsInv, AtBoot, Together
  <2>2. /\ current_process[t] \in Procs /\ process_array[current_process[t]]
        /\ current_process[t] # IrqStack
        /\ ppid[IrqStack] # None => current_process[t] # ppid[IrqStack]
    BY <1>1, <2>1, OtherTerminal
  <2>3. fds \in [Procs -> [FDs -> Flags]] BY <2>1 DEF TypeOK
  <2>4. ASSUME NEW p \in Procs, get_process(p), fds' = [fds EXCEPT ![p] = InitFDs]
        PROVE  fds'[current_process[t]] = fds[current_process[t]]
    BY <2>2, <2>3, <2>4 DEF get_process
  <2>5. ASSUME cpu.pc = "user" PROVE current_process[t] # curr_process
    BY <2>1, <2>2, <2>5, QuietFacts DEF Quiet
  <2>6. CASE Execute BY <2>4, <2>6 DEF Execute, Launch
  <2>7. CASE HaltExecute BY <2>4, <2>7 DEF HaltExecute, Launch
  <2>8. ASSUME NEW n \in Terms, SwitchFresh(n)
        PROVE  fds'[current_process[t]] = fds[current_process[t]]
    BY <2>4, <2>8 DEF SwitchFresh, Launch
  <2>9. CASE Open \/ OpenStd \/ Close
    <3>1. cpu.pc = "user" BY <2>9 DEF Open, OpenStd, Close
    <3>2. \E g : fds' = [fds EXCEPT ![curr_process] = g]
      BY <2>9 DEF Open, OpenStd, Close, FDOwner
    <3> QED BY <2>2, <2>3, <2>5, <3>1, <3>2
  <2>10. CASE HaltClose
    <3>1. cpu.pc = "h_close" BY <2>10 DEF HaltClose
    <3>2. curr_process = ppid[IrqStack] /\ ppid[IrqStack] # None
      BY <2>1, <3>1 DEF RunInv, HaltPCs
    <3>3. \E g : fds' = [fds EXCEPT ![curr_process] = g] BY <2>10 DEF HaltClose
    <3> QED BY <2>2, <2>3, <3>2, <3>3
  <2>11. CASE Boot BY <2>1, <2>11 DEF Boot, RunInv, HaltPCs
  <2>12. CASE UNCHANGED fds BY <2>12
  <2> QED BY <1>1, <2>6, <2>7, <2>8, <2>9, <2>10, <2>11, <2>12
      DEF Next, UserStep, HaltStep, CallReturns, ExecuteFull, ExecuteMissing, ExecuteNoexec, Halt,
          Exception, Syscall, Vidmap, HaltPcb, HaltInactive, HaltPpid, HaltEsp0, HaltCurr, HaltTerm,
          HaltMap, HaltReturn, ExceptionHalt, SyscallReturn, Tick, TickSpin, SwitchActive,
          SwitchWild
<1>2. (orderly => SlotsInv) /\ [Next]_vars => [orderly => FdsStep]_vars BY <1>1 DEF FdsStep
<1>3. Spec => [][orderly => FdsStep]_vars BY <1>2, TablesCorrect, PTL DEF Spec
<1>4. orderly /\ [orderly => FdsStep]_vars => [FdsStep]_vars OBVIOUS
<1> QED BY <1>3, <1>4, PTL DEF FdIsolation

\* What the disorders are: while users name programs that exist and open terminals in
\* order, and no interrupt arrives within halt, there is none.
THEOREM OrderlyUsers ==
  ASSUME Env \subseteq {"open_std"} PROVE Spec => []orderly
<1>1. Init => orderly BY DEF Init
<1>2. TypeOK /\ orderly /\ [Next]_vars => orderly'
  <2> SUFFICES ASSUME TypeOK, orderly, [Next]_vars PROVE orderly' OBVIOUS
  <2>1. Interruptible => ~InHalt /\ cpu.pc # "h_execute" BY DEF Interruptible, InHalt, HaltPCs
  <2>2. ~ExecuteMissing /\ ~ExecuteNoexec BY DEF ExecuteMissing, ExecuteNoexec
  <2>3. CASE Tick \/ TickSpin \/ \E t \in Terms : SwitchWild(t)
    BY <2>1, <2>3 DEF Tick, TickSpin, SwitchWild, Noted
  <2>4. ASSUME NEW t \in Terms, SwitchActive(t) PROVE orderly'
    BY <2>1, <2>4 DEF SwitchActive, Noted
  <2>5. ASSUME NEW t \in Terms, SwitchFresh(t) PROVE orderly'
    <3>1. ~(InHalt \/ curr_term # curr_terminal_number \/ TableFull)
      BY <2>1, <2>5 DEF SwitchFresh
    <3> QED BY <2>5, <3>1 DEF SwitchFresh, Noted
  <2>6. CASE UNCHANGED orderly BY <2>6
  <2>7. CASE UNCHANGED vars BY <2>7 DEF vars, history
  <2> QED BY <2>2, <2>3, <2>4, <2>5, <2>6, <2>7
      DEF history, Next, UserStep, HaltStep, Boot, Execute, CallReturns, ExecuteFull, Halt,
          Exception, Syscall, Open, OpenStd, Close, Vidmap, HaltPcb, HaltInactive, HaltExecute,
          HaltPpid, HaltEsp0, HaltCurr, HaltTerm, HaltMap, HaltClose, HaltReturn, ExceptionHalt,
          SyscallReturn
<1> QED BY <1>1, <1>2, TypeCorrect, PTL DEF Spec

-----------------------------------------------------------------------------
(* The programs of module Syscalls run on the kernel: every step of theirs  *)
(* is a step of the kernel.                                                 *)

\* Calls of a program, as steps of the kernel.
LEMMA CallStep ==
  ASSUME SystemCall
  PROVE  \/ CallReturns \/ Syscall \/ Open \/ Close \/ Vidmap \/ Execute \/ ExecuteFull
         \/ ExecuteNoexec \/ Halt \/ UNCHANGED vars
<1>1. cpu.pc = "user" BY DEF SystemCall
<1>2. CASE \/ Invalid \/ ReadFails \/ ReadDir \/ ReadFile \/ WriteFails \/ Write
           \/ WriteKeyboard \/ OpenFails \/ CloseFails \/ Getargs \/ VidmapFails
  BY <1>1, <1>2 DEF Invalid, ReadFails, ReadDir, ReadFile, WriteFails, Write, WriteKeyboard,
     OpenFails, CloseFails, Getargs, VidmapFails, Fails, NoChange
<1>3. CASE ReadWaits \/ OpenFile \/ CloseFile \/ VidmapUser
  BY <1>3 DEF ReadWaits, OpenFile, CloseFile, VidmapUser
<1>4. CASE ExecuteProgram \/ ExecuteTooMany \/ ExecuteNotElf \/ ExitTyped \/ HaltProgram
  BY <1>4 DEF ExecuteProgram, ExecuteTooMany, ExecuteNotElf, ExitTyped, HaltProgram
<1> QED BY <1>2, <1>3, <1>4 DEF SystemCall

\* Every step of a behaviour with programs, as a step of the kernel.
LEMMA SysStep == ASSUME [SysNext]_allVars PROVE [Next]_vars
<1>1. CASE SystemCall
  BY <1>1, CallStep DEF Next, UserStep
<1>2. CASE Fault \/ ReadReturns BY <1>2 DEF Fault, ReadReturns, Next, UserStep
<1>3. CASE HaltTo \/ HaltCloses BY <1>3 DEF HaltTo, HaltCloses, Next, HaltStep
<1>4. CASE ExecuteShell \/ KernelStep
  BY <1>4 DEF ExecuteShell, KernelStep, Next, HaltStep
<1>5. CASE UNCHANGED allVars BY <1>5 DEF allVars
<1> QED BY <1>1, <1>2, <1>3, <1>4, <1>5 DEF SysNext

-----------------------------------------------------------------------------
(* Standard input.  Whatever a program or the kernel does, descriptor 0 of  *)
(* a slot that a program was loaded into is the keyboard.                   *)
StdinInv ==
  /\ TypeOK
  /\ cpu.pc = "boot" \/ current_pcb # None
  /\ \A p \in Procs : image[p] # 0 => fds[p][0] = "STDIN"

\* execute sets descriptor 0 of the slot it fills.
LEMMA StdinLaunch ==
  ASSUME StdinInv, NEW p \in Procs, NEW s, NEW d, NEW c, NEW b, Launch(p, s, d, c, b)
  PROVE  /\ current_pcb' # None
         /\ \A q \in Procs : image'[q] # 0 => fds'[q][0] = "STDIN"
<1>1. 0 \in FDs BY ConstantsAssumption DEF FDs
<1>2. InitFDs[0] = "STDIN" BY <1>1 DEF InitFDs
<1>3. fds \in [Procs -> [FDs -> Flags]] /\ image \in [Procs -> Insts \cup {0}]
  BY DEF StdinInv, TypeOK
<1> QED BY <1>2, <1>3 DEF Launch, StdinInv, Procs, None

\* Neither open, close and halt nor a failed execute touch descriptor 0.
LEMMA StdinNext == ASSUME StdinInv, [Next]_vars PROVE StdinInv'
<1> USE DEF procVars, termVars, memVars, history
<1>t. TypeOK' BY TypeNext DEF StdinInv
<1>1. /\ fds \in [Procs -> [FDs -> Flags]] /\ image \in [Procs -> Insts \cup {0}]
      /\ 0 \in FDs /\ 0 \in Procs
  BY ConstantsAssumption DEF StdinInv, TypeOK, FDs, Procs
<1>2. CASE Boot BY <1>t, <1>1, <1>2, StdinLaunch DEF Boot, StdinInv
<1>3. CASE Execute BY <1>t, <1>3, StdinLaunch DEF Execute, StdinInv
<1>4. CASE HaltExecute
  BY <1>t, <1>4, StdinLaunch DEF HaltExecute, StdinInv
<1>5. ASSUME NEW t \in Terms, SwitchFresh(t) PROVE StdinInv'
  BY <1>t, <1>5, StdinLaunch DEF SwitchFresh, StdinInv, Interruptible, HaltPCs
<1>6. CASE Open \/ OpenStd \/ Close
  <2>1. \E fd \in FDs \ {0} : \E v : fds' = [fds EXCEPT ![curr_process][fd] = v]
    BY <1>6 DEF Open, OpenStd, Close, FDOwner, FDs
  <2>2. UNCHANGED <<image, current_pcb, cpu>>
    BY <1>6 DEF Open, OpenStd, Close, BackInUser
  <2> QED BY <1>t, <1>1, <2>1, <2>2 DEF StdinInv
<1>7. CASE HaltClose
  <2>1. \A p \in Procs : fds'[p][0] = fds[p][0] BY <1>1, <1>7 DEF HaltClose, StdinInv
  <2> QED BY <1>t, <2>1, <1>7 DEF StdinInv, HaltClose
<1>8. CASE ExecuteMissing \/ ExecuteNoexec
  <2>1. current_pcb' \in Procs /\ UNCHANGED <<image, fds>>
    BY <1>8 DEF ExecuteMissing, ExecuteNoexec
  <2> QED BY <1>t, <2>1 DEF StdinInv, Procs, None
<1>9. CASE Tick
  <2>1. current_pcb' = current_pcb \/ current_pcb' # None BY <1>9 DEF Tick
  <2> QED BY <1>t, <2>1, <1>9 DEF StdinInv, Tick, Interruptible, HaltPCs
<1>10. CASE UNCHANGED vars BY <1>t, <1>10 DEF StdinInv, vars
<1>11. CASE \/ CallReturns \/ ExecuteFull \/ Halt \/ Exception \/ Syscall \/ Vidmap \/ ExceptionHalt
            \/ SyscallReturn \/ TickSpin \/ \E t \in Terms : SwitchActive(t) \/ SwitchWild(t)
  <2>1. UNCHANGED <<current_pcb, image, fds>> /\ cpu.pc # "boot"
    BY <1>11 DEF CallReturns, ExecuteFull, Halt, Exception, Syscall, Vidmap, ExceptionHalt, SyscallReturn,
       TickSpin, SwitchActive, SwitchWild, Interruptible, HaltPCs
  <2> QED BY <1>t, <2>1 DEF StdinInv
<1>12. CASE \/ HaltPcb \/ HaltInactive \/ HaltPpid \/ HaltEsp0 \/ HaltCurr \/ HaltTerm \/ HaltMap
            \/ HaltReturn
  <2>1. UNCHANGED <<current_pcb, image, fds>> /\ cpu.pc # "boot"
    BY <1>12 DEF HaltPcb, HaltInactive, HaltPpid, HaltEsp0, HaltCurr, HaltTerm, HaltMap, HaltReturn
  <2> QED BY <1>t, <2>1 DEF StdinInv
<1> QED BY <1>2, <1>3, <1>4, <1>5, <1>6, <1>7, <1>8, <1>9, <1>10, <1>11, <1>12
    DEF Next, UserStep, HaltStep

\* Every read of standard input reaches the keyboard, whatever users and devices do: the
\* descriptors of a halted child, which current_pcb may still name, have it too.
THEOREM StdinCorrect == SysSpec => []StdinReached
<1>1. SysInit => StdinInv
  <2>1. Init => TypeOK BY TypeInit
  <2>2. Init => cpu.pc = "boot" /\ \A p \in Procs : image[p] = 0 BY DEF Init, CpuIn
  <2> QED BY <2>1, <2>2 DEF SysInit, StdinInv
<1>2. StdinInv /\ [SysNext]_allVars => StdinInv'
  <2> SUFFICES ASSUME StdinInv, [SysNext]_allVars PROVE StdinInv' OBVIOUS
  <2>1. [Next]_vars BY SysStep
  <2> QED BY <2>1, StdinNext
<1>3. StdinInv => StdinReached
  <2>1. 0 \in FDs BY ConstantsAssumption DEF FDs
  <2> QED BY <2>1 DEF StdinInv, StdinReached, FlagsOf, TypeOK, Slots
<1> QED BY <1>1, <1>2, <1>3, PTL DEF SysSpec

-----------------------------------------------------------------------------
\* The system calls as programs make them implement the kernel: what is proved of Kernel's
\* Spec holds of every behaviour of the programs, for every Env.
THEOREM CallsRefineKernel == SysSpec => Spec
<1>1. SysInit => Init BY DEF SysInit
<1>2. [SysNext]_allVars => [Next]_vars BY SysStep
<1> QED BY <1>1, <1>2, PTL DEF SysSpec, Spec

\* No call of a program changes a descriptor of a process on another terminal, as long as
\* things are in order.
THEOREM CallsIsolated ==
  SysSpec => [][orderly => FdsStep]_vars /\ ([]orderly => FdIsolation)
  BY CallsRefineKernel, DescriptorsIsolated

-----------------------------------------------------------------------------
(* What the shell says.  halt hands its status to the instance that called  *)
(* execute; what the programs themselves keep is sound as long as a program *)
(* that has ended never executes again.                                     *)

\* The instances that will execute user code again: the one that runs or waits in a
\* system call, the callers of execute, and the interrupted programs.
Going ==
  {i \in Insts : \/ cpu.pc \in {"user", "syscall"} /\ cpu.inst = i
                 \/ \E p \in Procs : /\ kstack[p].inst = i
                                     /\ \/ p # IrqStack /\ kstack[p].via = "syscall"
                                        \/ /\ kstack[p].via \in {"tick", "key"}
                                           /\ kstack[p].pc \in {"user", "syscall"}}

\* No two slots hold the same instance.
ImagesDiffer ==
  /\ \A p \in Procs : image[p] <= execs
  /\ \A p, q \in Procs : image[p] # 0 /\ image[p] = image[q] => p = q

\* Where a program may be: at one of its calls, or at an end that all have in common.
Ends == {"exit0", "exit2", "exit3", "exit", "fault", "test"}

Places(p) == DOMAIN Programs[p] \cup Ends

\* What a program keeps is of its type, and the call of syserr it has come to exists.
Sane(u) ==
  /\ DOMAIN u = DOMAIN Begin("shell", NoName)
  /\ u.prog \in DOMAIN Programs
  /\ u.at \in Places(u.prog) \cup {"ended", "faulted"}
  /\ u.status \in Int /\ u.fail \in Int
  /\ u.test \in 1 .. Len(syserr) /\ u.k \in 1 .. Len(syserr[u.test])

GoesOn(u) == Sane(u) /\ u.at \in Places(u.prog)

UserInv ==
  /\ DOMAIN user = Insts
  /\ \A i \in Insts : Sane(user[i])
  /\ \A i \in Going : GoesOn(user[i])

\* A frame on a stack other than the running process's is of the program in that slot.
LEMMA FrameOwner ==
  ASSUME TypeOK, Together, ImagesDiffer, NEW p \in Procs, p # IrqStack, kstack[p].via # "free"
  PROVE  kstack[p].inst = image[p] /\ image[p] \in 1 .. execs /\ image[p] # cpu.inst
<1>0. RunInv /\ TermInv /\ ChainInv /\ CoverInv /\ ContextInv BY DEF Together
<1>1. Live(p) BY <1>0 DEF CoverInv, Free
<1>2. kstack[p].inst = image[p]
  <2>1. CASE \E t \in Terms : Occupied(t) /\ ProcessOf(t) = p
    BY <1>0, <2>1 DEF ContextInv, ProcessOf
  <2>2. CASE \E r \in Procs : Live(r) /\ ppid[r] = p
    <3>1. p # None BY DEF Procs, None
    <3>2. PICK r \in Procs : Live(r) /\ ppid[r] = p BY <2>2
    <3>3. kstack[ppid[r]] = SyscallFrame(image[ppid[r]]) BY <1>0, <3>1, <3>2 DEF ChainInv
    <3>4. kstack[p] = SyscallFrame(image[p]) BY <3>2, <3>3
    <3> QED BY <3>4 DEF SyscallFrame
  <2> QED BY <1>0, <1>1, <2>1, <2>2 DEF CoverInv
<1>3. image[p] \in 1 .. execs BY <1>0, <1>1 DEF ChainInv
<1>4. image[p] # cpu.inst
  BY <1>0, <1>3 DEF RunInv, ImagesDiffer, TypeOK
<1> QED BY <1>2, <1>3, <1>4

\* The instances that go on have been started.
LEMMA GoingStarted == ASSUME SlotsInv, ImagesDiffer PROVE Going \subseteq 1 .. execs
<1> SUFFICES ASSUME NEW i \in Going PROVE i \in 1 .. execs OBVIOUS
<1>1. CASE AtBoot
  BY <1>1 DEF Going, AtBoot, Free
<1>2. CASE TypeOK /\ Together
  <2>1. RunInv /\ ChainInv /\ IrqStack \in Procs /\ cpu.inst = image[IrqStack] /\ Live(IrqStack)
    BY <1>2 DEF Together, RunInv, Live
  <2>2. cpu.inst \in 1 .. execs BY <2>1 DEF ChainInv
  <2>3. ASSUME NEW p \in Procs, kstack[p].inst = i, kstack[p].via # "free", p # IrqStack
        PROVE  i \in 1 .. execs
    BY <1>2, <2>3, FrameOwner
  <2>4. ASSUME kstack[IrqStack].via \in {"tick", "key"} PROVE FALSE
    BY <2>1, <2>4 DEF RunInv, Free, SyscallFrame
  <2> QED BY <2>2, <2>3, <2>4 DEF Going
<1> QED BY <1>1, <1>2 DEF SlotsInv

\* A step lets no instance go on that did not before, but the one it starts.
LEMMA GoingStep ==
  ASSUME Calm, SlotsInv, SlotsInv', ImagesDiffer, [Next]_vars
  PROVE  /\ \A i \in Going' : i \in Going \/ (i = execs' /\ execs' # execs)
         /\ Halt \/ Exception => cpu.inst \notin Going'
<1> USE DEF procVars, termVars, memVars, history
<1>t. kstack \in [Procs -> Frames] /\ execs \in Int BY DEF SlotsInv, TypeOK
<1> DEFINE Less == \A i \in Going' : i \in Going \/ (i = execs' /\ execs' # execs)
           Keeps(p) == kstack'[p] = kstack[p]
           Runs == cpu'.pc \in {"user", "syscall"}
               => cpu'.inst \in Going \/ (cpu'.inst = execs' /\ execs' # execs)
\* frames that did not change, or are free, or belong to an instance that went on
<1>a. ASSUME Runs,
             \A p \in Procs : \/ kstack'[p] = kstack[p] /\ (p # IrqStack \/ p = IrqStack')
                              \/ kstack'[p].via = "free"
                              \/ p = IrqStack' /\ kstack'[p].via = "syscall"
                              \/ kstack'[p].inst \in Going
                              \/ kstack'[p].pc \notin {"user", "syscall"}
                                 /\ kstack'[p].via # "syscall"
      PROVE  Less
  <2> SUFFICES ASSUME NEW i \in Going' PROVE i \in Going \/ (i = execs' /\ execs' # execs)
    OBVIOUS
  <2>1. i \in Insts BY DEF Going
  <2>2. CASE cpu'.pc \in {"user", "syscall"} /\ cpu'.inst = i BY <1>a, <2>2
  <2>3. ASSUME NEW p \in Procs, kstack'[p].inst = i,
               \/ p # IrqStack' /\ kstack'[p].via = "syscall"
               \/ kstack'[p].via \in {"tick", "key"} /\ kstack'[p].pc \in {"user", "syscall"}
        PROVE  i \in Going
    <3>1. \/ kstack'[p] = kstack[p] /\ (p # IrqStack \/ p = IrqStack')
          \/ kstack'[p].inst \in Going
      BY <1>a, <2>3
    <3> QED BY <2>1, <2>3, <3>1 DEF Going
  <2> QED BY <2>2, <2>3 DEF Going
<1> HIDE DEF Less
<1>1. CASE AtBoot /\ Next
  <2>1. Boot BY <1>1, BootOnly
  <2>2. kstack' = kstack /\ cpu' = InUser(execs') /\ execs' = execs + 1 BY <2>1 DEF Boot, Launch
  <2>3. \A p \in Procs : kstack'[p].via = "free" BY <1>1, <2>2 DEF AtBoot, Free
  <2>4. Runs BY <1>t, <2>2 DEF InUser, CpuIn
  <2>5. Less BY <1>a, <2>3, <2>4
  <2>6. ~(Halt \/ Exception) BY <1>1 DEF AtBoot, Halt, Exception
  <2> QED BY <2>5, <2>6 DEF Less
<1>2. ASSUME Together, Next PROVE Less /\ (Halt \/ Exception => cpu.inst \notin Going')
  <2>0. /\ TypeOK /\ RunInv /\ ChainInv /\ IrqStack \in Procs /\ cpu.inst = image[IrqStack]
        /\ esp0 \in Procs /\ Live(IrqStack)
    BY <1>2 DEF SlotsInv, Together, RunInv, Live, TypeOK
  <2>g. /\ cpu.inst \in Insts
        /\ cpu.pc \in {"user", "syscall"} => cpu.inst \in Going
    <3>1. cpu.inst \in 1 .. execs /\ execs \in 0 .. MaxExecs BY <2>0 DEF ChainInv, TypeOK
    <3>2. cpu.inst \in Insts BY <3>1, ConstantsAssumption DEF Insts
    <3> QED BY <3>2 DEF Going
  <2>w. cpu'.pc \notin {"wild", "spin"}
    BY DEF SlotsInv, AtBoot, Together, RunInv, HaltPCs
  <2>f. ASSUME NEW p \in Procs, p # IrqStack, kstack[p].via # "free" PROVE kstack[p].inst # cpu.inst
    BY <1>2, <2>0, <2>f, FrameOwner
  <2>q. cpu.pc = "user" => esp0 = IrqStack BY DEF IrqStack
  <2>1. CASE \/ CallReturns \/ ExecuteFull \/ Open \/ OpenStd \/ Close \/ Vidmap
             \/ \E t \in Terms : SwitchActive(t)
    <3>1. cpu' = cpu /\ (kstack' = kstack \/ kstack' = [kstack EXCEPT ![esp0] = Free])
          /\ esp0' = esp0
      BY <2>1 DEF CallReturns, ExecuteFull, Open, OpenStd, Close, Vidmap, SwitchActive, BackInUser
    <3>2. IrqStack' = IrqStack BY <3>1 DEF IrqStack
    <3>3. \A p \in Procs : kstack'[p] = kstack[p] \/ kstack'[p].via = "free" BY <1>t, <3>1 DEF Free
    <3>4. Runs BY <2>g, <3>1
    <3>5. Less BY <1>a, <3>2, <3>3, <3>4
    <3>6. ~(Halt \/ Exception) BY <3>1 DEF Halt, Exception, CpuIn
    <3> QED BY <3>5, <3>6
  <2>2. CASE Halt \/ Exception \/ Syscall
    <3>1. /\ cpu.pc = "user" /\ cpu'.stack = esp0 /\ cpu'.pc \in {"h_pcb", "exc", "syscall"}
          /\ Halt \/ Exception => cpu'.pc # "syscall"
          /\ cpu'.inst = cpu.inst
          /\ kstack' = [kstack EXCEPT ![esp0] = SyscallFrame(cpu.inst)]
      BY <2>2 DEF Halt, Exception, Syscall, CpuIn
    <3>2. IrqStack' = IrqStack /\ esp0 = IrqStack BY <3>1 DEF IrqStack
    <3>3. /\ kstack'[IrqStack].via = "syscall"
          /\ \A p \in Procs : p # IrqStack => kstack'[p] = kstack[p]
      BY <1>t, <2>0, <3>1, <3>2 DEF SyscallFrame
    <3>4. Runs BY <2>g, <3>1
    <3>5. Less BY <1>a, <3>2, <3>3, <3>4
    <3>6. ASSUME Halt \/ Exception PROVE cpu.inst \notin Going'
      BY <2>f, <3>1, <3>2, <3>3, <3>6 DEF Going
    <3> QED BY <3>5, <3>6
  <2>3. CASE Execute
    <3>1. PICK p \in Procs : Launch(p, esp0, curr_terminal_number, curr_term, cpu.inst)
      BY <2>3 DEF Execute
    <3>2. /\ cpu.pc = "user" /\ kstack' = [kstack EXCEPT ![esp0] = SyscallFrame(cpu.inst)]
          /\ cpu' = InUser(execs') /\ execs' = execs + 1
      BY <2>3, <3>1 DEF Execute, Launch
    <3>3. /\ kstack'[IrqStack].inst = cpu.inst
          /\ \A q \in Procs : q # IrqStack => kstack'[q] = kstack[q]
      BY <1>t, <2>0, <2>q, <3>2 DEF SyscallFrame
    <3>4. Runs BY <1>t, <3>2 DEF InUser, CpuIn
    <3>5. Less BY <1>a, <2>g, <3>2, <3>3, <3>4
    <3>6. ~(Halt \/ Exception) BY <3>2 DEF Halt, Exception, CpuIn, InUser
    <3> QED BY <3>5, <3>6
  <2>4. CASE \/ ExceptionHalt \/ HaltPcb \/ HaltInactive \/ HaltPpid \/ HaltEsp0 \/ HaltCurr
             \/ HaltTerm \/ HaltMap \/ HaltClose
    <3>1. /\ kstack' = kstack /\ cpu'.stack = cpu.stack /\ cpu'.pc \in HaltPCs
          /\ cpu.pc # "user"
      BY <2>0, <2>4, <2>w DEF ExceptionHalt, HaltPcb, HaltInactive, HaltPpid, HaltEsp0, HaltCurr,
         HaltTerm, HaltMap, HaltClose, HaltPCs, Wild, CpuIn, TypeOK, CPUs
    <3>2. IrqStack' = IrqStack BY <3>1 DEF IrqStack, HaltPCs
    <3>3. Runs BY <3>1 DEF HaltPCs
    <3>4. Less BY <1>a, <3>1, <3>2, <3>3
    <3>5. ~(Halt \/ Exception) BY <3>1 DEF Halt, Exception
    <3> QED BY <3>4, <3>5
  <2>5. CASE HaltExecute
    <3>1. cpu.pc = "h_execute" /\ cpu.stack = IrqStack BY <2>5 DEF HaltExecute, IrqStack
    <3>2. /\ cpu' = InUser(execs') /\ execs' = execs + 1
          /\ kstack' = [kstack EXCEPT ![IrqStack] = Free]
      BY <2>5, <2>w, <3>1 DEF HaltExecute, Launch, Wild, CpuIn
    <3>3. \A p \in Procs : IF p = IrqStack THEN kstack'[p].via = "free" ELSE kstack'[p] = kstack[p]
      BY <1>t, <3>2 DEF Free
    <3>4. Runs BY <1>t, <3>2 DEF InUser, CpuIn
    <3>5. Less BY <1>a, <3>3, <3>4
    <3>6. ~(Halt \/ Exception) BY <3>1 DEF Halt, Exception
    <3> QED BY <3>5, <3>6
  <2>6. CASE HaltReturn
    <3>1. cpu.pc = "h_return" /\ cpu.stack = IrqStack BY <2>6 DEF HaltReturn, IrqStack
    <3>2. PICK s : /\ s # None /\ s # IrqStack /\ kstack[s].via = "syscall" /\ s = esp_exec[cpu.child]
                   /\ cpu' = InUser(kstack[s].inst)
                   /\ kstack' = [[kstack EXCEPT ![IrqStack] = Free] EXCEPT ![s] = Free]
      BY <2>6, <2>w, <3>1 DEF HaltReturn, ReturnStack, Wild, CpuIn
    <3>3. s \in Procs
      <4>1. cpu.child = IrqStack BY <2>0, <3>1 DEF RunInv, HaltPCs
      <4> QED BY <2>0, <3>2, <4>1 DEF TypeOK, Slots
    <3>4. \A p \in Procs : IF p \in {IrqStack, s} THEN kstack'[p].via = "free" ELSE kstack'[p] = kstack[p]
      BY <1>t, <3>2, <3>3 DEF Free
    <3>5. kstack[s].inst \in Going
      <4>1. kstack[s].inst \in 1 .. execs BY <1>2, <2>0, <3>2, <3>3, FrameOwner
      <4>2. kstack[s].inst \in Insts BY <2>0, <4>1, ConstantsAssumption DEF TypeOK, Insts
      <4> QED BY <3>2, <3>3, <4>2 DEF Going
    <3>6. Runs BY <3>2, <3>5 DEF InUser, CpuIn
    <3>7. Less BY <1>a, <3>4, <3>6
    <3>8. ~(Halt \/ Exception) BY <3>1 DEF Halt, Exception
    <3> QED BY <3>7, <3>8
  <2>7. CASE SyscallReturn
    <3>1. /\ cpu.pc = "syscall" /\ cpu.stack = IrqStack /\ kstack[IrqStack].inst = cpu.inst
      BY <2>0, <2>7 DEF SyscallReturn, IrqStack, RunInv, SyscallFrame
    <3>2. /\ cpu' = InUser(cpu.inst)
          /\ kstack' = [kstack EXCEPT ![IrqStack] = Free]
      BY <2>7, <2>w, <3>1 DEF SyscallReturn, ReturnThrough, Wild, CpuIn
    <3>3. \A p \in Procs : IF p = IrqStack THEN kstack'[p].via = "free" ELSE kstack'[p] = kstack[p]
      BY <1>t, <3>2 DEF Free
    <3>4. Runs BY <2>g, <3>1, <3>2 DEF InUser, CpuIn
    <3>5. Less BY <1>a, <3>3, <3>4
    <3>6. ~(Halt \/ Exception) BY <3>1 DEF Halt, Exception
    <3> QED BY <3>5, <3>6
  <2>8. CASE Tick
    <3>1. cpu.pc \in {"user", "syscall", "exc"} BY <2>8 DEF Calm, Quiet
    <3>2. PICK ptr, ks :
            /\ ks = [kstack EXCEPT ![IrqStack] = IrqFrame("tick")]
            /\ ptr.stack \in Slots
            /\ Resume(ptr, ks)
      <4>1. PICK t \in Terms : /\ current_process[curr_term] # None /\ current_process[t] # None
                               /\ esp_switch' = SaveSwitch(current_process[curr_term],
                                  IrqPointer("tick"))
                               /\ Resume(esp_switch'[current_process[t]],
                                         [kstack EXCEPT ![IrqStack] = IrqFrame("tick")])
        BY <2>8, <2>w DEF Tick, Wild, CpuIn
      <4>2. esp_switch' \in [Procs -> Pointers] BY DEF SlotsInv, TypeOK
      <4>3. current_process[t] \in Procs BY <2>0, <4>1 DEF TypeOK, Slots
      <4>4. esp_switch'[current_process[t]].stack \in Slots BY <4>2, <4>3 DEF Pointers
      <4> QED BY <4>1, <4>4
    <3>3. /\ ptr.stack \in Procs /\ ks[ptr.stack].via \in {"tick", "key"}
          /\ cpu'.inst = ks[ptr.stack].inst /\ cpu'.pc = ks[ptr.stack].pc
          /\ cpu'.stack = IF ks[ptr.stack].user THEN None ELSE ptr.stack
          /\ kstack' = [ks EXCEPT ![ptr.stack] =
                          IF ks[ptr.stack].user THEN Free ELSE SyscallFrame(ks[ptr.stack].inst)]
      BY <2>w, <3>2 DEF Resume, Wild, CpuIn, Slots
    <3>4. /\ \A p \in Procs : p # IrqStack => ks[p] = kstack[p]
          /\ ks[IrqStack].inst = cpu.inst /\ ks[IrqStack].pc = cpu.pc /\ ks[IrqStack].via = "tick"
      BY <1>t, <2>0, <3>2 DEF IrqFrame
    <3>5. ks[ptr.stack].user <=> ks[ptr.stack].pc = "user"
      <4>1. CASE ptr.stack = IrqStack BY <4>1, <1>t, <2>0, <3>2 DEF IrqFrame
      <4>2. CASE ptr.stack # IrqStack BY <4>2, <2>0, <3>3, <3>4 DEF TypeOK, ContextsOK
      <4> QED BY <4>1, <4>2
    <3>6. cpu'.pc # "user" => IrqStack' = ptr.stack BY <3>3, <3>5 DEF IrqStack
    <3>7. Runs
      <4>1. CASE ptr.stack = IrqStack BY <4>1, <2>g, <3>3, <3>4
      <4>2. CASE ptr.stack # IrqStack
        <5>1. ks[ptr.stack] = kstack[ptr.stack] BY <4>2, <3>3, <3>4
        <5>2. cpu'.inst \in Insts
          <6>1. cpu'.inst \in 1 .. execs BY <1>2, <2>0, <3>3, <4>2, <5>1, FrameOwner
          <6> QED BY <2>0, <6>1, ConstantsAssumption DEF TypeOK, Insts
        <5> QED BY <3>3, <5>1, <5>2 DEF Going
      <4> QED BY <4>1, <4>2
    <3>8. \A p \in Procs : \/ kstack'[p] = kstack[p] /\ (p # IrqStack \/ p = IrqStack')
                           \/ kstack'[p].via = "free"
                           \/ p = IrqStack' /\ kstack'[p].via = "syscall"
                           \/ kstack'[p].inst \in Going
                           \/ kstack'[p].pc \notin {"user", "syscall"} /\ kstack'[p].via # "syscall"
      <4> SUFFICES ASSUME NEW p \in Procs
                   PROVE  \/ kstack'[p] = kstack[p] /\ (p # IrqStack \/ p = IrqStack')
                          \/ kstack'[p].via = "free"
                          \/ p = IrqStack' /\ kstack'[p].via = "syscall"
                          \/ kstack'[p].inst \in Going
                          \/ kstack'[p].pc \notin {"user", "syscall"} /\ kstack'[p].via # "syscall"
        OBVIOUS
      <4>0. ks \in [Procs -> {ks[q] : q \in Procs}] BY <1>t, <3>2
      <4>1. CASE p = ptr.stack
        <5>1. kstack'[p] = IF ks[p].user THEN Free ELSE SyscallFrame(ks[p].inst)
          BY <3>3, <4>0, <4>1
        <5> QED BY <3>3, <3>5, <3>6, <4>1, <5>1 DEF Free, SyscallFrame
      <4>2. CASE p # ptr.stack /\ p = IrqStack
        <5>1. kstack'[p] = ks[p] BY <3>3, <4>0, <4>2
        <5> QED BY <2>g, <3>4, <4>2, <5>1
      <4>3. CASE p # ptr.stack /\ p # IrqStack BY <3>3, <3>4, <4>0, <4>3
      <4> QED BY <4>1, <4>2, <4>3
    <3>9. Less BY <1>a, <3>7, <3>8
    <3>10. ~(Halt \/ Exception)
      <4> SUFFICES ASSUME Halt \/ Exception PROVE FALSE OBVIOUS
      <4>1. cpu.pc = "user" /\ cpu'.inst = cpu.inst /\ cpu'.pc # "user"
        BY DEF Halt, Exception, CpuIn
      <4>2. ptr.stack # IrqStack BY <3>3, <3>4, <4>1
      <4> QED BY <2>f, <3>3, <3>4, <4>1, <4>2
    <3> QED BY <3>9, <3>10
  <2>9. ASSUME NEW t \in Terms, SwitchFresh(t) PROVE Less /\ (Halt \/ Exception
        => cpu.inst \notin Going')
    <3>1. cpu.pc \in {"user", "syscall", "exc"} BY <2>9 DEF Calm, Quiet
    <3>2. /\ kstack' = [kstack EXCEPT ![IrqStack] = IrqFrame("key")]
          /\ cpu' = InUser(execs') /\ execs' = execs + 1
      BY <2>9 DEF Calm, SwitchFresh, Launch
    <3>3. /\ \A p \in Procs : p # IrqStack => kstack'[p] = kstack[p]
          /\ kstack'[IrqStack].inst = cpu.inst /\ kstack'[IrqStack].pc = cpu.pc
          /\ kstack'[IrqStack].via = "key"
      BY <1>t, <2>0, <3>2 DEF IrqFrame
    <3>4. Runs BY <1>t, <3>2 DEF InUser, CpuIn
    <3>5. Less BY <1>a, <2>g, <3>3, <3>4
    <3>6. ~(Halt \/ Exception) BY <3>2 DEF Halt, Exception, CpuIn, InUser
    <3> QED BY <3>5, <3>6
  <2>10. CASE TickSpin \/ \E t \in Terms : SwitchWild(t)
    BY <2>10, <2>w DEF TickSpin, SwitchWild, Wild, Spin, CpuIn
  <2>11. CASE Boot BY <2>0, <2>11 DEF Boot, RunInv, HaltPCs
  <2>12. CASE ExecuteMissing \/ ExecuteNoexec BY <2>12 DEF Calm
  <2> QED BY <1>2, <2>1, <2>2, <2>3, <2>4, <2>5, <2>6, <2>7, <2>8, <2>9, <2>10, <2>11, <2>12
      DEF Next, UserStep, HaltStep
<1>3. CASE UNCHANGED vars
  <2>1. cpu' = cpu /\ kstack' = kstack /\ IrqStack' = IrqStack BY <1>3 DEF vars, IrqStack
  <2>2. Less BY <2>1 DEF Less, Going
  <2>3. ~(Halt \/ Exception) BY <2>1 DEF Halt, Exception, CpuIn
  <2> QED BY <2>2, <2>3 DEF Less
<1> QED BY <1>1, <1>2, <1>3 DEF SlotsInv, Less

\* execute gives every instance a number of its own.
LEMMA ImagesStep == ASSUME TypeOK, ImagesDiffer, [Next]_vars PROVE ImagesDiffer'
<1> USE DEF procVars, termVars, memVars, history
<1>t. image \in [Procs -> Insts \cup {0}] /\ execs \in Nat BY DEF TypeOK
<1>1. ASSUME NEW p \in Procs, NEW s, NEW d, NEW c, NEW b, Launch(p, s, d, c, b)
      PROVE  ImagesDiffer'
  <2>1. execs' = execs + 1 /\ image' = [image EXCEPT ![p] = execs + 1] BY <1>1 DEF Launch
  <2>2. \A q \in Procs : image[q] \in Int BY <1>t DEF Insts
  <2> QED BY <1>t, <2>1, <2>2 DEF ImagesDiffer
<1>2. CASE Boot
  <2>1. 0 \in Procs BY ConstantsAssumption DEF Procs
  <2> QED BY <1>1, <1>2, <2>1 DEF Boot
<1>3. CASE Execute BY <1>1, <1>3 DEF Execute
<1>4. CASE UNCHANGED <<image, execs>> BY <1>4 DEF ImagesDiffer
<1>5. CASE HaltExecute BY <1>1, <1>4, <1>5 DEF HaltExecute
<1>6. ASSUME NEW t \in Terms, SwitchFresh(t) PROVE ImagesDiffer'
  BY <1>1, <1>4, <1>6 DEF SwitchFresh
<1>7. CASE UNCHANGED vars BY <1>4, <1>7 DEF vars
<1> QED BY <1>2, <1>3, <1>4, <1>5, <1>6, <1>7
    DEF Next, UserStep, HaltStep, CallReturns, ExecuteFull, ExecuteMissing, ExecuteNoexec, Halt,
        Exception, Open, OpenStd, Close,
        Syscall, Vidmap, HaltPcb, HaltInactive, HaltPpid, HaltEsp0, HaltCurr, HaltTerm,
        HaltMap, HaltClose, HaltReturn, ExceptionHalt, SyscallReturn, Tick, TickSpin, SwitchActive,
        SwitchWild

\* A call of a program: its argument is a number, and its results lead to places of P.
CallOK(c, P) == c.fd \in Int /\ c.err \subseteq P /\ c.zero \subseteq P /\ c.some \subseteq P

\* A program starts, and goes from each of its calls to one of its calls or ends.
FlowOK(P) ==
  "start" \in DOMAIN P /\ \A at \in DOMAIN P : \A c \in P[at] : CallOK(c, DOMAIN P \cup Ends)

\* the shell
LEMMA FlowShell == FlowOK(shell)
<1>0. DOMAIN shell = {"start", "read", "exec"} BY DEF shell
<1>1. ASSUME NEW c \in shell.exec PROVE CallOK(c, {"start"})
  <2>1. PICK d : c = [Call(Sysnum.execute, 0, d.prog, {"start"}, {"start"}, {"start"}) EXCEPT !.arg = d.arg]
    BY <1>1 DEF shell, Execute_
  <2>2. c.fd = 0 /\ c.err = {"start"} /\ c.zero = {"start"} /\ c.some = {"start"}
    BY <2>1 DEF Call
  <2> QED BY <2>2 DEF CallOK
<1>2. \A c \in shell.start \cup shell.read : CallOK(c, {"start", "read", "exec", "exit3"})
  BY DEF shell, Fdputs, Read, Call, CallOK
<1> QED BY <1>0, <1>1, <1>2 DEF FlowOK, CallOK, Ends

\* cat
LEMMA FlowCat == FlowOK(cat)
<1>0. DOMAIN cat = {"start", "open", "none", "read", "write"} BY DEF cat
<1> QED BY <1>0 DEF FlowOK, cat, Fdputs, Read, Call, CallOK, Ends, Opened

\* ls
LEMMA FlowLs == FlowOK(ls)
<1>0. DOMAIN ls = {"start", "none", "read", "write"} BY DEF ls
<1> QED BY <1>0 DEF FlowOK, ls, Fdputs, Read, Call, CallOK, Ends, Opened

\* hello
LEMMA FlowHello == FlowOK(hello)
<1>0. DOMAIN hello = {"start", "read", "greet"} BY DEF hello
<1> QED BY <1>0 DEF FlowOK, hello, Fdputs, Read, Call, CallOK, Ends

\* counter
LEMMA FlowCounter == FlowOK(counter)
<1>0. DOMAIN counter = {"start", "read", "wrong", "count"} BY DEF counter
<1> QED BY <1>0 DEF FlowOK, counter, Fdputs, Read, Call, CallOK, Ends

\* testprint
LEMMA FlowTestprint == FlowOK(testprint)
<1>0. DOMAIN testprint = {"start"} BY DEF testprint
<1> QED BY <1>0 DEF FlowOK, testprint, Fdputs, Call, CallOK, Ends

\* sigtest, which ends by a fault
LEMMA FlowSigtest == FlowOK(sigtest)
<1>0. DOMAIN sigtest = {"start", "install", "alarm", "ask", "read"} BY DEF sigtest
<1> QED BY <1>0 DEF FlowOK, sigtest, Fdputs, Read, Call, CallOK, Ends

\* pingpong, which never ends
LEMMA FlowPingpong == FlowOK(pingpong)
<1>0. DOMAIN pingpong = {"start", "rate", "draw", "wait"} BY DEF pingpong
<1> QED BY <1>0 DEF FlowOK, pingpong, Fdputs, Read, Call, CallOK, Ends, Opened

\* syserr, up to its tests
LEMMA FlowSyserr == FlowOK(syserr_main)
<1>0. DOMAIN syserr_main = {"start", "select"} BY DEF syserr_main
<1> QED BY <1>0 DEF FlowOK, syserr_main, Fdputs, Read, Call, CallOK, Ends

\* any other program
LEMMA FlowOther == FlowOK([start |-> other])
<1>1. \A fd \in FDs : fd \in Int BY DEF FDs
<1>2. \A c \in other : CallOK(c, {"start"} \cup Ends)
  BY <1>1 DEF other, Call, CallOK, Ends
<1> QED BY <1>2 DEF FlowOK

\* The calls that the tests of syserr make.
TestCalls ==
  [sys : Int, fd : Int, name : {"helloo", "shel", NoName, ".", "null", "kernel"},
   arg : {NoName}, err : {{"test"}}, zero : {{"test"}}, some : {{"test"}}]

Tried == {"read", "write", "open", "close", "vidmap"}

\* The calls of the tests are calls.
LEMMA TryIn ==
  ASSUME NEW sys \in Tried, NEW fd \in Int,
         NEW name \in {"helloo", "shel", NoName, ".", "null", "kernel"}
  PROVE  Try(sys, fd, name) \in TestCalls
<1>1. Sysnum[sys] \in Int BY DEF Sysnum, Tried
<1> QED BY <1>1 DEF Try, Call, TestCalls

\* A call with a number of its own is a call
LEMMA NumberIn == ASSUME NEW n \in Int PROVE Number(n) \in TestCalls
<1>1. Try("read", 0, NoName) \in TestCalls BY TryIn DEF Tried
<1> QED BY <1>1 DEF Number, TestCalls

\* A call for each descriptor of a range.
LEMMA OnFdsIn ==
  ASSUME NEW sys \in Tried, NEW from \in Int, NEW to \in Int,
         to - from + 1 \in Nat
  PROVE  OnFds(sys, from, to) \in Seq(TestCalls) /\ Len(OnFds(sys, from, to)) = to - from + 1
<1> DEFINE N == to - from + 1
           e(n) == Try(sys, from + n - 1, NoName)
<1>1. \A n \in 1 .. N : e(n) \in TestCalls BY TryIn
<1>2. OnFds(sys, from, to) = [n \in 1 .. N |-> e(n)] BY DEF OnFds
<1>3. N \in Nat OBVIOUS
<1> HIDE DEF N, e
<1>4. [n \in 1 .. N |-> e(n)] \in Seq(TestCalls) /\ Len([n \in 1 .. N |-> e(n)]) = N BY <1>1, <1>3
<1> QED BY <1>2, <1>4 DEF N

\* Concatenation.
LEMMA Joined ==
  ASSUME NEW S, NEW s \in Seq(S), NEW t \in Seq(S)
  PROVE  s \o t \in Seq(S) /\ Len(s \o t) = Len(s) + Len(t)
  BY ConcatProperties

\* Each of the eight tests is a sequence of at least one such call.
LEMMA TestsIn ==
  /\ Len(syserr) = 8
  /\ \A t \in 1 .. 8 : syserr[t] \in Seq(TestCalls) /\ Len(syserr[t]) >= 1
<1>m. MAX_FILE \in Nat /\ MAX_FILE >= 2 BY ConstantsAssumption
<1>s. {"read", "write", "open", "close", "vidmap"} \subseteq Tried BY DEF Tried
<1>fd. ASSUME NEW fd \in Int PROVE OnFd(fd) \in Seq(TestCalls) /\ Len(OnFd(fd)) >= 1
  <2>1. Try("read", fd, NoName) \in TestCalls /\ Try("write", fd, NoName) \in TestCalls
        /\ Try("close", fd, NoName) \in TestCalls
    BY <1>s, TryIn
  <2> QED BY <2>1 DEF OnFd
<1>1. err_neg_fd \in Seq(TestCalls) /\ Len(err_neg_fd) >= 1 BY <1>fd DEF err_neg_fd, NEG_FD
<1>2. err_big_fd \in Seq(TestCalls) /\ Len(err_big_fd) >= 1 BY <1>fd DEF err_big_fd, BIG_FD
<1>3. err_open_lots \in Seq(TestCalls) /\ Len(err_open_lots) >= 1
  <2> DEFINE a == [n \in 1 .. MAX_FILE - 1 |-> Try("open", 0, ".")]
             b == OnFds("close", 2, MAX_FILE - 1)
  <2>1. Try("open", 0, ".") \in TestCalls BY <1>s, TryIn
  <2>2. a \in Seq(TestCalls) /\ Len(a) = MAX_FILE - 1 BY <1>m, <2>1
  <2>3. b \in Seq(TestCalls) /\ Len(b) \in Nat BY <1>m, <1>s, OnFdsIn
  <2>4. err_open_lots = a \o b BY DEF err_open_lots
  <2> HIDE DEF a, b
  <2>5. a \o b \in Seq(TestCalls) /\ Len(a \o b) = Len(a) + Len(b) BY <2>2, <2>3, Joined
  <2> QED BY <1>m, <2>2, <2>3, <2>4, <2>5
<1>4. err_open \in Seq(TestCalls) /\ Len(err_open) >= 1
  <2>1. Try("open", 0, "helloo") \in TestCalls /\ Try("open", 0, "shel") \in TestCalls
        /\ Try("open", 0, NoName) \in TestCalls
    BY <1>s, TryIn
  <2> QED BY <2>1 DEF err_open
<1>5. err_unopened \in Seq(TestCalls) /\ Len(err_unopened) >= 1
  <2>0. PICK M \in Nat : M = MAX_FILE - 1 /\ M >= 1 BY <1>m
  <2> DEFINE a == OnFds("close", 0, M)
             b == OnFds("read", 2, M)
             c == OnFds("write", 2, M)
  <2>1. a \in Seq(TestCalls) /\ Len(a) = M - 0 + 1
    <3>1. M - 0 + 1 \in Nat BY <2>0
    <3> QED BY <3>1, <1>s, OnFdsIn
  <2>2. M - 2 + 1 \in Nat BY <2>0
  <2>3. b \in Seq(TestCalls) /\ Len(b) = M - 2 + 1 BY <2>2, <1>s, OnFdsIn
  <2>4. c \in Seq(TestCalls) /\ Len(c) = M - 2 + 1 BY <2>2, <1>s, OnFdsIn
  <2>5. err_unopened = a \o b \o c BY <2>0 DEF err_unopened
  <2> HIDE DEF a, b, c
  <2>6. a \o b \in Seq(TestCalls) /\ Len(a \o b) = Len(a) + Len(b) BY <2>1, <2>3, Joined
  <2>7. (a \o b) \o c \in Seq(TestCalls) /\ Len((a \o b) \o c) = Len(a \o b) + Len(c)
    BY <2>4, <2>6, Joined
  <2> QED BY <2>0, <2>1, <2>2, <2>3, <2>4, <2>5, <2>6, <2>7
<1>6. err_vidmap \in Seq(TestCalls) /\ Len(err_vidmap) >= 1
  <2>1. Try("vidmap", 0, "null") \in TestCalls /\ Try("vidmap", 0,
        "kernel") \in TestCalls BY <1>s, TryIn
  <2> QED BY <2>1 DEF err_vidmap
<1>7. err_stdin_out \in Seq(TestCalls) /\ Len(err_stdin_out) >= 1
  <2>1. Try("write", 0, NoName) \in TestCalls /\ Try("read", 1, NoName) \in TestCalls BY <1>s, TryIn
  <2> QED BY <2>1 DEF err_stdin_out
<1>8. err_syscall_num \in Seq(TestCalls) /\ Len(err_syscall_num) >= 1
  <2>1. Number(1073741823) \in TestCalls /\ Number(-1073741823) \in TestCalls
        /\ Number(0) \in TestCalls
    BY NumberIn
  <2> QED BY <2>1 DEF err_syscall_num
<1> QED BY <1>1, <1>2, <1>3, <1>4, <1>5, <1>6, <1>7, <1>8 DEF syserr

\* Every program is such a flow.
LEMMA ProgramsFlow == \A p \in DOMAIN Programs : FlowOK(Programs[p])
<1>1. DOMAIN Programs = {"shell", "cat", "ls", "hello", "counter", "testprint", "sigtest",
                         "pingpong", "syserr", "other"}
  BY DEF Programs
<1>2. FlowOK(Programs.shell) /\ FlowOK(Programs.cat) /\ FlowOK(Programs.ls) BY FlowShell,
      FlowCat, FlowLs DEF Programs
<1>3. FlowOK(Programs.hello) /\ FlowOK(Programs.counter) /\ FlowOK(Programs.testprint)
  BY FlowHello, FlowCounter, FlowTestprint DEF Programs
<1>4. FlowOK(Programs.sigtest) /\ FlowOK(Programs.pingpong) /\ FlowOK(Programs.syserr)
  BY FlowSigtest, FlowPingpong, FlowSyserr DEF Programs
<1>5. FlowOK(Programs.other) BY FlowOther DEF Programs
<1> QED BY <1>1, <1>2, <1>3, <1>4, <1>5

\* The calls of a program that goes on.
LEMMA CallsOK ==
  ASSUME NEW u, GoesOn(u), NEW c \in Calls(u)
  PROVE  CallOK(c, Places(u.prog))
<1>1. u.prog \in DOMAIN Programs /\ u.at \in Places(u.prog) /\ u.fail \in Int BY DEF GoesOn, Sane
<1>2. CASE u.at \in DOMAIN Exit
  <2>1. DOMAIN Exit = {"exit0", "exit2", "exit3"} /\ Exit[u.at] \in Int BY <1>2 DEF Exit
  <2>2. c = Call(Sysnum.halt, Exit[u.at], NoName, {}, {}, {})
    BY <1>2, <2>1 DEF Calls
  <2> QED BY <2>1, <2>2 DEF Call, CallOK
<1>x. DOMAIN Exit = {"exit0", "exit2", "exit3"} BY DEF Exit
<1>3. CASE u.at = "exit"
  <2>1. c = Call(Sysnum.halt, u.fail, NoName, {}, {}, {}) BY <1>3, <1>x DEF Calls
  <2> QED BY <1>1, <2>1 DEF Call, CallOK
<1>4. CASE u.at = "fault" BY <1>4, <1>x DEF Calls
<1>5. CASE u.at = "test"
  <2>1. c = syserr[u.test][u.k] BY <1>5, <1>x DEF Calls
  <2>2. PICK s \in Seq(TestCalls) : s = syserr[u.test] /\ u.k \in 1 .. Len(s)
    BY TestsIn DEF GoesOn, Sane
  <2>3. c \in TestCalls BY <2>1, <2>2
  <2> QED BY <2>3 DEF TestCalls, CallOK, Places, Ends
<1>6. CASE u.at \notin DOMAIN Exit \cup {"exit", "fault", "test"}
  <2>1. c \in Programs[u.prog][u.at] BY <1>6 DEF Calls
  <2>2. u.at \in DOMAIN Programs[u.prog] BY <1>1, <1>6, <1>x DEF Places, Ends
  <2> QED BY <1>1, <2>1, <2>2, ProgramsFlow DEF FlowOK, Places
<1> QED BY <1>2, <1>3, <1>4, <1>5, <1>6

\* A program that starts is at a place of its own.
LEMMA BeginGoes == ASSUME NEW p \in DOMAIN Programs, NEW a PROVE GoesOn(Begin(p, a))
<1>1. Begin(p, a).prog = p /\ Begin(p, a).at = "start" /\ Begin(p, a).status = 0
      /\ Begin(p, a).fail = 0 /\ Begin(p, a).test = 1 /\ Begin(p, a).k = 1
      /\ DOMAIN Begin(p, a) = DOMAIN Begin("shell", NoName)
  BY DEF Begin
<1>2. "start" \in Places(p) BY ProgramsFlow DEF FlowOK, Places
<1>3. 1 \in 1 .. Len(syserr) /\ 1 \in 1 .. Len(syserr[1])
  <2>1. syserr[1] \in Seq(TestCalls) /\ Len(syserr[1]) >= 1 /\ Len(syserr) = 8 BY TestsIn
  <2> QED BY <2>1
<1> QED BY <1>1, <1>2, <1>3 DEF GoesOn, Sane

\* A change of fields that the program's flow does not depend on.
LEMMA SameFlow ==
  ASSUME NEW u, NEW v, GoesOn(u), DOMAIN v = DOMAIN u, v.prog = u.prog, v.at \in Places(u.prog),
         v.status = u.status, v.fail = u.fail, v.test = u.test, v.k = u.k
  PROVE  GoesOn(v)
  BY DEF GoesOn, Sane

\* The fields of what a program keeps.
LEMMA Fields ==
  DOMAIN Begin("shell", NoName) = {"prog", "arg", "at", "fd", "buf", "seen", "test", "k", "cnt",
                                   "fail", "echo", "said", "status"}
  BY DEF Begin

\* The shell goes on after execute.
LEMMA AfterExecuteGoes == ASSUME NEW u, GoesOn(u), NEW r PROVE GoesOn(AfterExecute(u, r))
<1>1. DOMAIN u = DOMAIN Begin("shell", NoName) /\ u.prog \in DOMAIN Programs BY DEF GoesOn, Sane
<1>2. "start" \in Places(u.prog) BY <1>1, ProgramsFlow DEF FlowOK, Places
<1> QED BY <1>1, <1>2, Fields, SameFlow DEF AfterExecute

\* syserr goes on after a call of a test: to a call that exists, or to its end.
LEMMA AfterTestGoes ==
  ASSUME NEW u, GoesOn(u), u.at = "test", NEW c, NEW r PROVE GoesOn(AfterTest(u, c, r))
<1> DEFINE n == Count(u, c, r)
<1>1. /\ DOMAIN u = DOMAIN Begin("shell", NoName) /\ u.prog \in DOMAIN Programs
      /\ u.test \in 1 .. 8 /\ u.k \in 1 .. Len(syserr[u.test]) /\ u.fail \in Int /\ u.status \in Int
      /\ u.at \in Places(u.prog)
  BY TestsIn DEF GoesOn, Sane
<1>2. "exit" \in Places(u.prog) BY DEF Places, Ends
<1>3. \A t \in 1 .. 8 : Len(syserr[t]) \in Nat /\ 1 \in 1 .. Len(syserr[t])
  <2>1. \A t \in 1 .. 8 : syserr[t] \in Seq(TestCalls) /\ Len(syserr[t]) >= 1 BY TestsIn
  <2> TAKE t \in 1 .. 8
  <2>2. PICK q : q = syserr[t] OBVIOUS
  <2>3. q \in Seq(TestCalls) /\ Len(q) >= 1 BY <2>1, <2>2
  <2>4. Len(q) \in Nat BY <2>3
  <2>5. 1 \in 1 .. Len(q) BY <2>3, <2>4
  <2> QED BY <2>2, <2>4, <2>5
<1>4. Len(syserr) = 8 BY TestsIn
<1> HIDE DEF n
<1>5. Failed(u, n) \in Int
  <2>1. Failed(u, n) = u.fail \/ Failed(u, n) = u.fail + 2 BY DEF Failed
  <2> QED BY <1>1, <2>1
<1>6. CASE u.k < Len(syserr[u.test])
  <2>1. AfterTest(u, c, r) = [u EXCEPT !.k = u.k + 1, !.cnt = n] BY <1>6 DEF AfterTest, n
  <2>n. PICK N \in Nat : N = Len(syserr[u.test]) BY <1>1, <1>3
  <2>2. u.k + 1 \in 1 .. Len(syserr[u.test]) BY <1>1, <1>6, <2>n
  <2> QED BY <1>1, <1>4, <2>1, <2>2, Fields DEF GoesOn, Sane
<1>7. CASE ~(u.k < Len(syserr[u.test])) /\ u.test = 8
  <2>1. AfterTest(u, c, r) = [u EXCEPT !.at = "exit", !.fail = Failed(u, n), !.k = 1, !.cnt = 0]
    BY <1>4, <1>7 DEF AfterTest, n
  <2> QED BY <1>1, <1>2, <1>3, <1>4, <1>5, <2>1, Fields DEF GoesOn, Sane
<1>8. CASE ~(u.k < Len(syserr[u.test])) /\ u.test # 8
  <2>1. AfterTest(u, c, r) = [u EXCEPT !.test = u.test + 1, !.fail = Failed(u, n), !.k = 1, !.cnt = 0]
    BY <1>4, <1>8 DEF AfterTest, n
  <2>2. u.test + 1 \in 1 .. 8 BY <1>1, <1>8
  <2> QED BY <1>1, <1>3, <1>4, <1>5, <2>1, <2>2, Fields DEF GoesOn, Sane
<1> QED BY <1>6, <1>7, <1>8

\* A program goes on after each of its calls, whatever the call returned.
LEMMA AfterGoes ==
  ASSUME NEW u, GoesOn(u), NEW c \in Calls(u), NEW r, NEW v \in After(u, c, r)
  PROVE  GoesOn(v)
<1>1. DOMAIN u = DOMAIN Begin("shell", NoName) BY DEF GoesOn, Sane
<1>2. Place(c, r) \subseteq Places(u.prog) BY CallsOK DEF CallOK, Place
<1>3. CASE u.at = "test" BY <1>3, AfterTestGoes DEF After
<1>4. CASE u.at # "test" /\ c.sys = Sysnum.execute BY <1>4, AfterExecuteGoes DEF After
<1>5. CASE u.at # "test" /\ c.sys # Sysnum.execute
  <2>1. PICK p \in Place(c, r) : v = [u EXCEPT !.at = p, !.fd = r] \/ v = [u EXCEPT !.at = p, !.said = "nothing"]
    BY <1>5 DEF After
  <2>2. /\ DOMAIN v = DOMAIN u /\ v.prog = u.prog /\ v.at = p /\ v.status = u.status
           /\ v.fail = u.fail
        /\ v.test = u.test /\ v.k = u.k
    BY <1>1, <2>1, Fields
  <2>3. v.at \in Places(u.prog) BY <1>2, <2>2
  <2> QED BY <2>2, <2>3, SameFlow
<1> QED BY <1>3, <1>4, <1>5

\* The process that runs or waits goes on.
LEMMA RunningGoes == ASSUME SlotsInv, cpu.pc \in {"user", "syscall"} PROVE cpu.inst \in Going
<1>1. TypeOK /\ RunInv /\ ChainInv /\ IrqStack \in Procs /\ cpu.inst = image[IrqStack]
      /\ Live(IrqStack)
  BY QuietSlots DEF Quiet, Live
<1>2. cpu.inst \in 1 .. execs /\ execs \in 0 .. MaxExecs BY <1>1 DEF ChainInv, TypeOK
<1>3. cpu.inst \in Insts BY <1>2, ConstantsAssumption DEF Insts
<1> QED BY <1>3 DEF Going

\* halt returns to another instance, which waits in execute.
LEMMA HaltsTo ==
  ASSUME TypeOK, Together, ImagesDiffer, HaltReturn
  PROVE  /\ cpu'.pc = "user" /\ cpu'.inst = parent[cpu.inst]
         /\ cpu.inst \in Insts /\ parent[cpu.inst] \in Insts /\ parent[cpu.inst] # cpu.inst
<1>1. cpu'.pc = "user" /\ cpu'.inst = parent[cpu.inst] BY HaltReturnInv
<1>2. /\ RunInv /\ TermInv /\ ChainInv /\ IrqStack \in Procs /\ cpu.inst = image[IrqStack]
      /\ Live(IrqStack) /\ ppid[IrqStack] # None
  BY DEF Together, RunInv, Live, HaltReturn, HaltPCs
<1>3. PICK s \in Procs : s = ppid[IrqStack] BY <1>2 DEF TypeOK, Slots
<1>4. Live(s) /\ parent[cpu.inst] = image[s] BY <1>2, <1>3 DEF ChainInv
<1>5. s # IrqStack
  <2>1. curr_term \in Terms /\ Occupied(curr_term) /\ ProcessOf(curr_term) = IrqStack
    BY <1>2 DEF TermInv, TypeOK, ProcessOf
  <2> QED BY <1>2, <1>3, <2>1 DEF ChainInv
<1>6. image[s] \in 1 .. execs /\ image[IrqStack] \in 1 .. execs /\ execs \in 0 .. MaxExecs
  BY <1>2, <1>4 DEF ChainInv, TypeOK
<1>7. image[s] # image[IrqStack] BY <1>2, <1>5, <1>6 DEF ImagesDiffer
<1> QED BY <1>1, <1>2, <1>4, <1>6, <1>7, ConstantsAssumption DEF Insts

\* What programs keep stays sound when a step changes it for programs that go on, for the
\* program it starts, and for one that executes no more.
LEMMA UserKept ==
  ASSUME UserInv, DOMAIN user' = Insts,
         \A i \in Going' : i \in Going \/ (i = execs' /\ execs' # execs),
         \A i \in Insts : \/ user'[i] = user[i] /\ (i = execs' => execs' = execs)
                          \/ GoesOn(user'[i])
                          \/ Sane(user'[i]) /\ i \notin Going'
  PROVE  UserInv'
<1>1. \A i \in Insts : Sane(user'[i])
  BY DEF UserInv, GoesOn
<1>2. ASSUME NEW i \in Going' PROVE GoesOn(user'[i])
  <2>1. i \in Insts BY DEF Going
  <2> QED BY <2>1 DEF UserInv
<1> QED BY <1>1, <1>2 DEF UserInv

\* The program that runs goes on to v.
LEMMA UserReturns ==
  ASSUME UserInv, NEW v, GoesOn(v), user' = [user EXCEPT ![cpu.inst] = v], execs' = execs,
         \A i \in Going' : i \in Going \/ (i = execs' /\ execs' # execs)
  PROVE  UserInv'
<1>1. DOMAIN user' = Insts BY DEF UserInv
<1>2. \A i \in Insts : user'[i] = user[i] \/ GoesOn(user'[i]) BY DEF UserInv
<1> QED BY <1>1, <1>2, UserKept

\* A program starts.
LEMMA UserStarts ==
  ASSUME SlotsInv', UserInv, NEW p \in DOMAIN Programs, NEW a, user' = Started(p, a),
         \A i \in Going' : i \in Going \/ (i = execs' /\ execs' # execs)
  PROVE  UserInv'
<1>1. CASE execs' = execs
  <2>1. user' = user BY <1>1 DEF Started
  <2> QED BY <1>1, <2>1, UserKept DEF UserInv
<1>2. CASE execs' # execs
  <2>1. user' = [user EXCEPT ![execs'] = Begin(p, a)] BY <1>2 DEF Started
  <2>2. DOMAIN user' = Insts BY <2>1 DEF UserInv
  <2>3. GoesOn(Begin(p, a)) BY BeginGoes
  <2>4. \A i \in Insts : (user'[i] = user[i] /\ i # execs') \/ GoesOn(user'[i])
    BY <2>1, <2>3 DEF UserInv
  <2> QED BY <2>2, <2>4, UserKept
<1> QED BY <1>1, <1>2

\* A program ends with a status.
LEMMA OverSane ==
  ASSUME NEW u, Sane(u), NEW how \in {"ended", "faulted"}, NEW st \in Int
  PROVE  Sane(Over(u, how, st))
<1>1. PICK b : b = Begin(u.prog, u.arg) OBVIOUS
<1>2. Sane(b) /\ b.prog = u.prog BY <1>1, BeginGoes DEF GoesOn, Sane, Begin
<1>3. Over(u, how, st) = [b EXCEPT !.at = how, !.status = st, !.seen = u.seen, !.echo = u.echo]
  BY <1>1 DEF Over
<1> QED BY <1>2, <1>3, Fields DEF Sane

\* What programs keep stays sound.
LEMMA UserNext ==
  ASSUME orderly', SlotsInv, SlotsInv', ImagesDiffer, UserInv, [SysNext]_allVars
  PROVE  UserInv'
<1> USE DEF procVars, termVars, memVars, history
<1>1. [Next]_vars BY SysStep
<1>2. /\ \A i \in Going' : i \in Going \/ (i = execs' /\ execs' # execs)
      /\ Halt \/ Exception => cpu.inst \notin Going'
  <2>1. Calm BY CalmStep DEF SlotsInv
  <2> QED BY <1>1, <2>1, GoingStep
<1>3. CASE user' = user /\ execs' = execs
  BY <1>2, <1>3, UserKept DEF UserInv
<1>4. ASSUME cpu.pc \in {"user", "syscall"} PROVE GoesOn(Running) /\ cpu.inst \in Insts
  BY <1>4, RunningGoes DEF UserInv, Running, Going
<1>5. ASSUME cpu.pc \in {"user", "syscall"}, NEW c \in Calls(Running), NEW r, Return(c, r),
      execs' = execs
      PROVE  UserInv'
  <2>1. PICK v \in After(Running, c, r) : user' = [user EXCEPT ![cpu.inst] = v] BY <1>5 DEF Return
  <2>2. GoesOn(v) BY <1>4, <1>5, AfterGoes
  <2> QED BY <1>2, <1>5, <2>1, <2>2, UserReturns
<1>6. CASE SystemCall
  <2>1. cpu.pc = "user" BY <1>6 DEF SystemCall
  <2>2. CASE Invalid \/ ReadFails \/ WriteFails \/ OpenFails \/ CloseFails \/ VidmapFails
    BY <1>5, <2>1, <2>2 DEF Invalid, ReadFails, WriteFails, OpenFails, CloseFails, VidmapFails,
        Fails, NoChange, CallReturns
  <2>3. CASE ReadDir \/ Write
    BY <1>5, <2>1, <2>3 DEF ReadDir, Write, NoChange, CallReturns
  <2>4. CASE OpenFile \/ CloseFile \/ VidmapUser \/ ExecuteTooMany
    BY <1>5, <2>1, <2>4 DEF OpenFile, CloseFile, VidmapUser, ExecuteTooMany, Open, Close, Vidmap,
        ExecuteFull
  <2>5. CASE ReadWaits BY <1>3, <2>5 DEF ReadWaits, Syscall
  <2>6. CASE ReadFile
    <3>1. PICK c \in Calls(Running) :
            LET f == file_name[curr_process][Fd(c)]
                r == 1 - position[curr_process][Fd(c)]
            IN \E v \in After(Running, c, r) :
                 user' = [user EXCEPT ![cpu.inst] = IF r = 1 THEN [v EXCEPT !.seen = @ \cup {f}] ELSE v]
      BY <2>6 DEF ReadFile
    <3>a. PICK f : f = file_name[curr_process][Fd(c)] OBVIOUS
    <3>b. PICK r : r = 1 - position[curr_process][Fd(c)] OBVIOUS
    <3>2. PICK v \in After(Running, c, r) :
            user' = [user EXCEPT ![cpu.inst] = IF r = 1 THEN [v EXCEPT !.seen = @ \cup {f}] ELSE v]
      BY <3>1, <3>a, <3>b
    <3>3. GoesOn(v) BY <1>4, <2>1, <3>2, AfterGoes
    <3>4. PICK w : w = [v EXCEPT !.seen = @ \cup {f}] OBVIOUS
    <3>5. GoesOn(w)
      <4>1. DOMAIN v = DOMAIN Begin("shell", NoName) /\ v.at \in Places(v.prog) BY <3>3
            DEF GoesOn, Sane
      <4> QED BY <3>3, <3>4, <4>1, Fields, SameFlow
    <3>6. execs' = execs BY <2>6 DEF ReadFile, CallReturns
    <3> QED BY <1>2, <3>2, <3>3, <3>4, <3>5, <3>6, UserReturns
  <2>7. CASE Getargs
    <3>1. PICK c \in Calls(Running) : \E v \in After(Running, c, 0) :
            user' = [user EXCEPT ![cpu.inst] = [v EXCEPT !.buf = args[curr_process]]]
      BY <2>7 DEF Getargs
    <3>v. PICK v \in After(Running, c, 0) :
            user' = [user EXCEPT ![cpu.inst] = [v EXCEPT !.buf = args[curr_process]]]
      BY <3>1
    <3>2. GoesOn(v) BY <1>4, <2>1, <3>v, AfterGoes
    <3>3. PICK w : w = [v EXCEPT !.buf = args[curr_process]] OBVIOUS
    <3>4. GoesOn(w)
      <4>1. DOMAIN v = DOMAIN Begin("shell", NoName) /\ v.at \in Places(v.prog) BY <3>2
            DEF GoesOn, Sane
      <4> QED BY <3>2, <3>3, <4>1, Fields, SameFlow
    <3>5. execs' = execs BY <2>7 DEF Getargs, NoChange, CallReturns
    <3> QED BY <1>2, <3>v, <3>3, <3>4, <3>5, UserReturns
  <2>8. CASE ExitTyped
    <3>1. PICK w : w = [Running EXCEPT !.at = "exit0"] OBVIOUS
    <3>2. user' = [user EXCEPT ![cpu.inst] = w] BY <2>8, <3>1 DEF ExitTyped, Running
    <3>3. GoesOn(w)
      <4>1. DOMAIN Running = DOMAIN Begin("shell", NoName) BY <1>4, <2>1 DEF GoesOn, Sane
      <4>2. "exit0" \in Places(Running.prog) BY DEF Places, Ends
      <4> QED BY <1>4, <2>1, <3>1, <4>1, <4>2, Fields, SameFlow
    <3>4. execs' = execs BY <2>8 DEF ExitTyped, vars
    <3> QED BY <1>2, <3>2, <3>3, <3>4, UserReturns
  <2>9. CASE ExecuteProgram
    <3>1. PICK c : c.name \in DOMAIN Programs /\ user' = Started(c.name, c.arg) BY <2>9
          DEF ExecuteProgram
    <3> QED BY <1>2, <3>1, UserStarts
  <2>10. CASE HaltProgram
    <3>1. PICK c \in Calls(Running) : Halt
          /\ user' = [user EXCEPT ![cpu.inst] = Over(@, "ended", c.fd)]
      BY <2>10 DEF HaltProgram
    <3>2. c.fd \in Int BY <1>4, <2>1, CallsOK DEF CallOK
    <3>3. Sane(Running) BY <1>4, <2>1 DEF GoesOn
    <3>4. Sane(Over(Running, "ended", c.fd)) BY <3>2, <3>3, OverSane
    <3>5. user' = [user EXCEPT ![cpu.inst] = Over(Running, "ended", c.fd)] BY <3>1 DEF Running
    <3>6. execs' = execs BY <3>1 DEF Halt
    <3>7. \A i \in Insts : user'[i] = user[i] \/ (Sane(user'[i]) /\ i \notin Going')
      BY <1>2, <3>1, <3>4, <3>5 DEF UserInv
    <3>8. DOMAIN user' = Insts BY <3>5 DEF UserInv
    <3> QED BY <1>2, <3>6, <3>7, <3>8, UserKept
  <2>11. CASE ExecuteNotElf BY <2>11, NoBadCommand DEF ExecuteNotElf, SlotsInv
  <2>12. CASE WriteKeyboard
    <3>1. PICK c \in Calls(Running), r \in {-1, 1} : \E v \in After(Running, c, r) :
            user' = [user EXCEPT ![cpu.inst] = IF r = -1 THEN v ELSE [v EXCEPT !.echo = 1]]
      BY <2>12 DEF WriteKeyboard
    <3>2. PICK v \in After(Running, c, r) :
            user' = [user EXCEPT ![cpu.inst] = IF r = -1 THEN v ELSE [v EXCEPT !.echo = 1]]
      BY <3>1
    <3>3. GoesOn(v) BY <1>4, <2>1, <3>2, AfterGoes
    <3>4. PICK w : w = [v EXCEPT !.echo = 1] OBVIOUS
    <3>5. GoesOn(w)
      <4>1. DOMAIN v = DOMAIN Begin("shell", NoName) /\ v.at \in Places(v.prog) BY <3>3
            DEF GoesOn, Sane
      <4> QED BY <3>3, <3>4, <4>1, Fields, SameFlow
    <3>6. execs' = execs BY <2>12 DEF WriteKeyboard, NoChange, CallReturns
    <3> QED BY <1>2, <3>2, <3>3, <3>4, <3>5, <3>6, UserReturns
  <2> QED BY <1>6, <2>2, <2>3, <2>4, <2>5, <2>6, <2>7, <2>8, <2>9, <2>10, <2>11, <2>12
      DEF SystemCall
<1>7. CASE Fault
  <2>1. cpu.pc = "user" /\ Exception /\ execs' = execs BY <1>7 DEF Fault, Exception
  <2>2. user' = [user EXCEPT ![cpu.inst] = Over(Running, "faulted", 0)] BY <1>7 DEF Fault, Running
  <2>3. Sane(Over(Running, "faulted", 0)) BY <1>4, <2>1, OverSane DEF GoesOn
  <2>4. \A i \in Insts : user'[i] = user[i] \/ (Sane(user'[i]) /\ i \notin Going')
    BY <1>2, <2>1, <2>2, <2>3 DEF UserInv
  <2>5. DOMAIN user' = Insts BY <2>2 DEF UserInv
  <2> QED BY <1>2, <2>1, <2>4, <2>5, UserKept
<1>8. CASE ReadReturns
  <2>1. cpu.pc = "syscall" /\ execs' = execs BY <1>8 DEF ReadReturns, SyscallReturn
  <2> QED BY <1>5, <1>8, <2>1 DEF ReadReturns
<1>9. CASE HaltCloses BY <1>3, <1>9 DEF HaltCloses, HaltClose
<1>10. CASE ExecuteShell
  <2>1. "shell" \in DOMAIN Programs BY DEF Programs
  <2> QED BY <1>2, <1>10, <2>1, UserStarts DEF ExecuteShell
<1>11. CASE KernelStep
  BY <1>3, <1>11 DEF KernelStep, HaltPcb, HaltInactive, HaltPpid, HaltEsp0, HaltCurr, HaltTerm,
     HaltMap, ExceptionHalt, Tick, SwitchActive
<1>12. CASE UNCHANGED allVars BY <1>3, <1>12 DEF allVars, vars
<1>13. CASE HaltTo
  <2>1. HaltReturn /\ execs' = execs BY <1>13 DEF HaltTo, HaltReturn
  <2>2. CASE cpu'.pc # "user" BY <1>3, <1>13, <2>1, <2>2 DEF HaltTo
  <2>3. CASE cpu'.pc = "user"
    <3>v. PICK v : v = AfterExecute(user[cpu'.inst], HaltValue(Running)) OBVIOUS
    <3>1. PICK w : w = Begin("shell", NoName) OBVIOUS
    <3>2. user' = [[user EXCEPT ![cpu'.inst] = v] EXCEPT ![cpu.inst] = w]
      BY <1>13, <2>3, <3>1, <3>v DEF HaltTo
    <3>3. cpu'.inst \in Going
      <4>0. TypeOK /\ Together BY <2>1 DEF SlotsInv, AtBoot, HaltReturn
      <4>1. cpu'.inst \in Going' BY <2>1, <2>3, <4>0, HaltsTo DEF Going
      <4> QED BY <1>2, <2>1, <4>1
    <3>4. GoesOn(v) BY <3>v, <3>3, AfterExecuteGoes DEF UserInv
    <3>5. "shell" \in DOMAIN Programs BY DEF Programs
    <3>6. GoesOn(w) BY <3>1, <3>5, BeginGoes
    <3>7. DOMAIN user' = Insts BY <3>2 DEF UserInv
    <3>8. \A i \in Insts : user'[i] = user[i] \/ GoesOn(user'[i]) BY <3>2, <3>4, <3>6 DEF UserInv
    <3> QED BY <1>2, <2>1, <3>7, <3>8, UserKept
  <2> QED BY <2>2, <2>3
<1> QED BY <1>6, <1>7, <1>8, <1>9, <1>10, <1>11, <1>12, <1>13 DEF SysNext

\* The inductive invariant.
SysInv == SlotsInv /\ ImagesDiffer /\ UserInv

\* Before boot.
LEMMA SysInvInit == SysInit => SysInv
<1> SUFFICES ASSUME SysInit PROVE SysInv OBVIOUS
<1>1. SlotsInv BY SlotsInit DEF SysInit
<1>2. Init BY DEF SysInit
<1>3. ImagesDiffer BY <1>2 DEF Init, ImagesDiffer
<1>4. \A i \in Going : FALSE BY <1>2 DEF Init, Going, CpuIn, Free
<1>5. "shell" \in DOMAIN Programs BY DEF Programs
<1>6. GoesOn(Begin("shell", NoName)) BY <1>5, BeginGoes
<1>7. UserInv BY <1>4, <1>6 DEF SysInit, UserInv, GoesOn
<1> QED BY <1>1, <1>3, <1>7 DEF SysInv

\* The invariant of the programs and of the kernel under them is inductive.
LEMMA SysInvNext == ASSUME orderly', SysInv, [SysNext]_allVars PROVE SysInv'
<1>1. SlotsInv /\ ImagesDiffer /\ UserInv /\ TypeOK BY DEF SysInv, SlotsInv
<1>2. [Next]_vars BY <1>1, SysStep
<1>3. SlotsInv' BY <1>1, <1>2, SlotsNext
<1>4. ImagesDiffer' BY <1>1, <1>2, ImagesStep
<1>5. UserInv' BY <1>1, <1>3, UserNext
<1> QED BY <1>3, <1>4, <1>5 DEF SysInv

\* The invariant holds of the programs as long as things are in order.
LEMMA SysInvCorrect == SysSpec => [](TypeOK /\ (orderly => SysInv))
<1>1. SysInit => TypeOK /\ SysInv BY SysInvInit DEF SysInv, SlotsInv
<1>2. TypeOK /\ (orderly => SysInv) /\ [SysNext]_allVars => (TypeOK /\ (orderly => SysInv))'
  <2> SUFFICES ASSUME TypeOK, orderly => SysInv, [SysNext]_allVars
               PROVE  TypeOK' /\ (orderly' => SysInv')
    OBVIOUS
  <2>1. [Next]_vars BY SysStep
  <2>2. TypeOK' BY <2>1, TypeNext
  <2>3. ASSUME orderly' PROVE SysInv'
    <3>1. orderly BY <2>1, <2>3, OrderlyStep DEF TypeOK
    <3> QED BY <2>3, <3>1, SysInvNext
  <2> QED BY <2>2, <2>3
<1> QED BY <1>1, <1>2, PTL DEF SysSpec

\* The report of the shell on the value that halt returned.
LEMMA Reported ==
  ASSUME NEW u, Sane(u)
  PROVE  Message(HaltValue(u)) =
           IF u.at = "faulted" THEN "terminated by exception"
           ELSE IF u.status % 256 = 0 THEN "nothing" ELSE "terminated abnormally"
<1>1. u.status % 256 \in 0 .. 255
  <2>1. \A m \in Int : m % 256 \in 0 .. 255 OBVIOUS
  <2> QED BY <2>1 DEF Sane
<1>2. CASE u.at = "faulted" BY <1>2 DEF Message, HaltValue
<1>3. CASE u.at # "faulted"
  <2>1. PICK n \in 0 .. 255 : n = u.status % 256 BY <1>1
  <2>2. HaltValue(u) = n BY <1>3, <2>1 DEF HaltValue
  <2>3. n # -1 /\ n # 256 BY <2>1
  <2>4. Message(n) = IF n = 0 THEN "nothing" ELSE "terminated abnormally" BY <2>3 DEF Message
  <2> QED BY <1>3, <2>1, <2>2, <2>4
<1> QED BY <1>2, <1>3

\* A step in which halt returns is HaltTo.
LEMMA ReturnIsHaltTo ==
  ASSUME TypeOK, orderly, SysNext, HaltReturn PROVE HaltTo
<1>1. cpu.pc = "h_return" /\ orderly' /\ InHalt BY DEF HaltReturn, history, InHalt, HaltPCs
<1>2. /\ ~Tick /\ \A t : ~SwitchFresh(t)
      /\ \A t : ~SwitchActive(t)
  <2>1. ~Noted(InHalt) BY <1>1, NotedGives DEF TypeOK
  <2>2. \A t : ~SwitchFresh(t) BY <1>1, QuietFresh DEF Quiet
  <2>3. cpu' # cpu BY <1>1 DEF HaltReturn, InUser, Wild, CpuIn
  <2> QED BY <2>1, <2>2, <2>3 DEF Tick, SwitchActive
<1>3. ~SystemCall /\ ~Fault /\ ~ReadReturns /\ ~HaltCloses
  BY <1>1 DEF SystemCall, Fault, ReadReturns, SyscallReturn, HaltCloses, HaltClose
<1>4. ~ExecuteShell BY <1>1, <1>2 DEF ExecuteShell, Boot, HaltExecute
<1>5. ~KernelStep
  BY <1>1, <1>2 DEF KernelStep, HaltPcb, HaltInactive, HaltPpid, HaltEsp0, HaltCurr, HaltTerm,
     HaltMap, ExceptionHalt
<1> QED BY <1>3, <1>4, <1>5 DEF SysNext

\* The shell is told the exit status of the program that halted, as an eight-bit number, or
\* that it faulted, and no other shell is told anything, as long as things are in order.
THEOREM ReportsCorrect ==
  SysSpec => [][orderly => ReportStep]_allVars /\ ([]orderly => ShellReports)
<1>1. ASSUME orderly, SysInv, SysNext, NEW i \in Insts, i = cpu.inst, HaltReturn
      PROVE  LET u == user[i]  told == user'[parent[i]].said
             IN told = IF u.at = "faulted" THEN "terminated by exception"
                       ELSE IF u.status % 256 = 0 THEN "nothing" ELSE "terminated abnormally"
  <2>1. /\ SlotsInv /\ ImagesDiffer /\ UserInv /\ TypeOK /\ Together
    BY <1>1 DEF SysInv, SlotsInv, AtBoot, HaltReturn
  <2>2. /\ cpu'.pc = "user" /\ cpu'.inst = parent[i] /\ parent[i] \in Insts /\ parent[i] # i
    BY <1>1, <2>1, HaltsTo
  <2>3. PICK u : u = user[i] OBVIOUS
  <2>4. Sane(u) BY <1>1, <2>1, <2>3 DEF UserInv
  <2>5. PICK v : v = user[parent[i]] OBVIOUS
  <2>6. user' = [[user EXCEPT ![parent[i]] = AfterExecute(v, HaltValue(u))] EXCEPT ![i] = Begin("shell", NoName)]
    BY <1>1, <2>1, <2>2, <2>3, <2>5, ReturnIsHaltTo DEF HaltTo, Running
  <2>7. user'[parent[i]] = AfterExecute(v, HaltValue(u)) BY <2>1, <2>2, <2>6 DEF UserInv
  <2>8. "said" \in DOMAIN v BY <2>1, <2>2, <2>5, Fields DEF UserInv, Sane
  <2>9. user'[parent[i]].said = Message(HaltValue(u)) BY <2>7, <2>8 DEF AfterExecute
  <2> QED BY <2>3, <2>4, <2>9, Reported
<1>2. (orderly => SysInv) /\ [SysNext]_allVars => [orderly => ReportStep]_allVars
  BY <1>1 DEF ReportStep
<1>3. SysSpec => [][orderly => ReportStep]_allVars BY <1>2, SysInvCorrect, PTL DEF SysSpec
<1>4. orderly /\ [orderly => ReportStep]_allVars => [ReportStep]_allVars OBVIOUS
<1> QED BY <1>3, <1>4, PTL DEF ShellReports

-----------------------------------------------------------------------------
(* How the programs end.  What a call may return is told from the           *)
(* descriptors F of the program's slot, the names N of its open files and   *)
(* its argument a; each program is shown to reach no place that its source  *)
(* reaches only after a call has failed.                                    *)

\* Only the standard streams are open.
Fresh(F) == \A fd \in FDs : fd >= 2 => F[fd] = "NOT_SET"

\* The descriptors open may take.
FreeIn(F) == {fd \in FDs : fd >= 2 /\ F[fd] = "NOT_SET"}

\* The descriptor a call names, what it is set to, and the file name a call gives.
FdOf(u, c) == IF c.fd = Opened THEN u.fd ELSE c.fd

FlagIn(F, fd) == IF fd \in FDs THEN F[fd] ELSE "bad"

NameFor(u, c) == IF c.name = "(buf)" THEN u.buf ELSE c.name

\* The calls that return -1, and the write to standard input that may.
Refused(u, c, F) ==
  \/ Handler(c.sys) \in {"not_valid", "set_handler", "sigreturn"}
  \/ Is(c, "read") /\ FlagIn(F, FdOf(u, c)) \in {"bad", "NOT_SET", "STDOUT"}
  \/ Is(c, "write") /\ FlagIn(F, FdOf(u, c)) \notin {"STDOUT", "RTC"}
  \/ Is(c, "open") /\ (NameFor(u, c) \notin DOMAIN Directory \/ FreeIn(F) = {})
  \/ Is(c, "close") /\ FdOf(u, c) \notin FDs \ ({0, 1} \cup FreeIn(F))
  \/ Is(c, "vidmap") /\ c.name \in {"null", "kernel"}

\* The program goes from u to v by call c; no descriptor changes.
Answer(u, c, F, N, a, v) ==
  \/ Refused(u, c, F) /\ v \in After(u, c, -1)
  \/ /\ Is(c, "read") /\ (u.at = "test" => FlagIn(F, FdOf(u, c)) = "DIR")
     /\ \E r \in {0, 1} : v \in After(u, c, r)
  \/ /\ Is(c, "read") /\ FlagIn(F, FdOf(u, c)) = "FILE"
     /\ \E w \in After(u, c, 1) : v = [w EXCEPT !.seen = @ \cup {N[FdOf(u, c)]}]
  \/ Is(c, "read") /\ FlagIn(F, FdOf(u, c)) = "FILE" /\ v \in After(u, c, 0)
  \/ Is(c, "write") /\ FlagIn(F, FdOf(u, c)) \in {"STDOUT", "RTC"} /\ v \in After(u, c, 1)
  \/ /\ Is(c, "write") /\ FlagIn(F, FdOf(u, c)) = "STDIN"
     /\ \E w \in After(u, c, 1) : v = [w EXCEPT !.echo = 1]
  \/ Is(c, "getargs") /\ \E w \in After(u, c, 0) : v = [w EXCEPT !.buf = a]
  \/ Is(c, "vidmap") /\ c.name = "user" /\ v \in After(u, c, 0)

\* open takes the first free descriptor.
Opens(u, c, F, N, v, G, M) ==
  /\ Is(c, "open") /\ NameFor(u, c) \in DOMAIN Directory
  /\ \E fd \in FreeIn(F) :
       /\ \A f \in 2 .. fd - 1 : F[f] # "NOT_SET"
       /\ G = [F EXCEPT ![fd] = Directory[NameFor(u, c)]]
       /\ M = IF Directory[NameFor(u, c)] = "RTC" THEN N ELSE [N EXCEPT ![fd] = NameFor(u, c)]
       /\ v \in After(u, c, fd)

\* close gives one back that is not a standard stream.
Closes(u, c, F, v, G) ==
  /\ Is(c, "close") /\ FdOf(u, c) \in FDs \ ({0, 1} \cup FreeIn(F))
  /\ G = [F EXCEPT ![FdOf(u, c)] = "NOT_SET"]
  /\ v \in After(u, c, 0)

\* What call c does to the program, to its descriptors and to the names of its files.
Outcome(u, c, F, N, a, v, G, M) ==
  \/ Answer(u, c, F, N, a, v) /\ G = F /\ M = N
  \/ Opens(u, c, F, N, v, G, M)
  \/ Closes(u, c, F, v, G) /\ M = N

\* Descriptor fd is the file n.
OpenAs(F, N, fd, n) ==
  /\ n \in DOMAIN Directory /\ fd \in FDs /\ fd >= 2
  /\ F[fd] = Directory[n]
  /\ Directory[n] = "FILE" => N[fd] = n

\* cat has copied its argument, then opened that name, and reads no other file.
CatOK(u, F, N, a) ==
  /\ u.at \in {"start", "open", "none", "read", "write", "exit0", "exit2"}
  /\ u.at \in {"start", "open"} => Fresh(F)
  /\ u.at = "start" => a = u.arg
  /\ u.at = "open" => u.buf = u.arg
  /\ u.at \in {"none", "exit2"} => u.arg \notin DOMAIN Directory
  /\ u.at \in {"read", "write"} => OpenAs(F, N, u.fd, u.arg)
  /\ u.at = "exit0" => u.arg \in DOMAIN Directory
  /\ u.seen \subseteq {u.arg}

\* ls reads the directory it opened.
LsOK(u, F, N) ==
  /\ u.at \in {"start", "read", "write", "exit0"}
  /\ u.at = "start" => Fresh(F)
  /\ u.at \in {"read", "write"} => OpenAs(F, N, u.fd, ".")

\* err_open_lots has opened the descriptors up to its k-th, and then closed those below.
LotsOK(u, F) ==
  /\ u.cnt = IF u.k < MAX_FILE THEN 0 ELSE 1
  /\ \A fd \in FDs : fd >= 2 =>
       (F[fd] # "NOT_SET" <=> IF u.k < MAX_FILE THEN fd <= u.k ELSE fd >= u.k - MAX_FILE + 2)

\* No test of syserr has failed but err_stdin_out, and that only after its write found
\* characters; each test begins with only the standard streams open.
SyserrOK(u, F) ==
  /\ u.at \in {"start", "select", "test", "exit", "exit0"}
  /\ u.echo \in {0, 1}
  /\ u.at \in {"start", "select", "exit0"} \/ (u.at = "test" /\ u.test < 7) => u.echo = 0
  /\ u.at = "test" /\ u.test = 7 /\ u.k = 1 => u.echo = 0
  /\ u.fail = IF u.at = "test" /\ u.test = 7 THEN 0 ELSE 2 * u.echo
  /\ u.at \in {"start", "select"} => u.test = 1 /\ u.k = 1
  /\ u.at \in {"start", "select", "test"} =>
       IF u.test = 3 THEN LotsOK(u, F)
       ELSE Fresh(F) /\ u.cnt = IF u.test = 7 THEN u.echo ELSE 0

\* The places the other programs reach.
Reached == [shell     |-> {"start", "read", "exec", "exit0", "exit3"},
            hello     |-> {"start", "read", "greet", "exit0"},
            counter   |-> {"start", "read", "count", "wrong", "exit0"},
            testprint |-> {"start", "exit0"},
            sigtest   |-> {"start", "install", "alarm", "ask", "read", "fault"},
            pingpong  |-> {"start", "rate", "draw", "wait"},
            other     |-> {"start"}]

\* Where a program has come to, and what it has open there.
OnTrack(u, F, N, a) ==
  CASE u.prog = "cat"    -> CatOK(u, F, N, a)
    [] u.prog = "ls"     -> LsOK(u, F, N)
    [] u.prog = "syserr" -> SyserrOK(u, F)
    [] OTHER             -> u.at \in Reached[u.prog]

-----------------------------------------------------------------------------
\* The table of system calls.
LEMMA Handlers ==
  /\ Handler(Sysnum.halt) = "halt" /\ Handler(Sysnum.execute) = "execute"
  /\ Handler(Sysnum.read) = "read" /\ Handler(Sysnum.write) = "write"
  /\ Handler(Sysnum.open) = "open" /\ Handler(Sysnum.close) = "close"
  /\ Handler(Sysnum.getargs) = "getargs" /\ Handler(Sysnum.vidmap) = "vidmap"
  /\ Handler(Sysnum.set_handler) = "set_handler" /\ Handler(Sysnum.sigreturn) = "sigreturn"
  BY DEF Handler, Sysnum, jump_table

\* The numbers differ.
LEMMA Numbers ==
  /\ Sysnum.halt = 1 /\ Sysnum.execute = 2 /\ Sysnum.read = 3 /\ Sysnum.write = 4
  /\ Sysnum.open = 5 /\ Sysnum.close = 6 /\ Sysnum.getargs = 7 /\ Sysnum.vidmap = 8
  /\ Sysnum.set_handler = 9 /\ Sysnum.sigreturn = 10
  BY DEF Sysnum

\* The empty name is not in the directory.
LEMMA NotThere ==
  /\ DOMAIN Directory = {".", "rtc", "frame0.txt"}
  /\ "helloo" \notin DOMAIN Directory /\ "shel" \notin DOMAIN Directory
  /\ NoName \notin DOMAIN Directory
<1>1. DOMAIN Directory = {".", "rtc", "frame0.txt"} BY DEF Directory
<1>2. NoName # "." /\ NoName # "rtc" /\ NoName # "frame0.txt" BY Zenon DEF NoName
<1> QED BY <1>1, <1>2

\* The types of what is in the directory.
LEMMA Entries ==
  /\ Directory["."] = "DIR" /\ Directory["rtc"] = "RTC" /\ Directory["frame0.txt"] = "FILE"
  BY DEF Directory

\* A call, not of a test of syserr and not execute, leads to one of its places.
LEMMA AfterFields ==
  ASSUME NEW u, DOMAIN u = DOMAIN Begin("shell", NoName), u.at # "test", NEW c, NEW r,
         c.sys # Sysnum.execute, NEW v \in After(u, c, r)
  PROVE  /\ DOMAIN v = DOMAIN u /\ v.at \in Place(c, r)
         /\ v.prog = u.prog /\ v.arg = u.arg /\ v.buf = u.buf /\ v.seen = u.seen
         /\ v.test = u.test /\ v.k = u.k /\ v.cnt = u.cnt /\ v.fail = u.fail /\ v.echo = u.echo
         /\ v.fd = IF c.sys = Sysnum.open THEN r ELSE u.fd
<1>1. PICK p \in Place(c, r) : v = IF c.sys = Sysnum.open THEN [u EXCEPT !.at = p, !.fd = r]
                                   ELSE [u EXCEPT !.at = p, !.said = "nothing"]
  BY DEF After
<1>2. CASE c.sys = Sysnum.open BY <1>1, <1>2, Fields
<1>3. CASE c.sys # Sysnum.open BY <1>1, <1>3, Fields
<1> QED BY <1>2, <1>3

\* The program has gone on to v by call c.
Went(u, c, F, v) ==
  /\ DOMAIN v = DOMAIN u /\ v.prog = u.prog /\ v.arg = u.arg
  /\ v.test = u.test /\ v.k = u.k /\ v.cnt = u.cnt /\ v.fail = u.fail
  /\ v.at \in c.zero \cup c.some \/ (v.at \in c.err /\ Refused(u, c, F))
  /\ v.echo = u.echo \/ (Is(c, "write") /\ FlagIn(F, FdOf(u, c)) = "STDIN")

\* A call that changes no descriptor.
LEMMA AnswerGoes ==
  ASSUME NEW u, DOMAIN u = DOMAIN Begin("shell", NoName), u.at # "test", NEW c,
         c.sys # Sysnum.execute, NEW F, NEW N, NEW a, NEW v, Answer(u, c, F, N, a, v)
  PROVE  /\ Went(u, c, F, v)
         /\ c.sys # Sysnum.open => v.fd = u.fd
         /\ v.buf = IF Is(c, "getargs") THEN a ELSE u.buf
         /\ v.seen = u.seen \/ ( /\ Is(c, "read") /\ FlagIn(F, FdOf(u, c)) = "FILE"
                                 /\ v.seen = u.seen \cup {N[FdOf(u, c)]} )
         /\ Is(c, "open") => Refused(u, c, F) /\ v.at \in c.err
<1> USE DEF Place, Went
<1>1. CASE Refused(u, c, F) /\ v \in After(u, c, -1)
  <2>1. ~Is(c, "getargs") BY <1>1 DEF Refused, Is
  <2>2. Place(c, -1) = c.err OBVIOUS
  <2> QED BY <1>1, <2>1, <2>2, AfterFields
<1>2. ASSUME NEW r \in {0, 1}, v \in After(u, c, r), ~Is(c, "getargs") PROVE
         Went(u, c, F, v) /\ (c.sys # Sysnum.open => v.fd = u.fd) /\ v.buf = u.buf /\ v.seen = u.seen
  <2>1. Place(c, r) \subseteq c.zero \cup c.some BY <1>2
  <2> QED BY <1>2, <2>1, AfterFields
<1>3. CASE /\ Is(c, "read") /\ FlagIn(F, FdOf(u, c)) = "FILE"
           /\ \E w \in After(u, c, 1) : v = [w EXCEPT !.seen = @ \cup {N[FdOf(u, c)]}]
  <2>1. PICK w \in After(u, c, 1) : v = [w EXCEPT !.seen = @ \cup {N[FdOf(u, c)]}] BY <1>3
  <2>2. /\ DOMAIN w = DOMAIN u /\ w.at \in Place(c, 1)
        /\ w.prog = u.prog /\ w.arg = u.arg /\ w.buf = u.buf /\ w.seen = u.seen
        /\ w.test = u.test /\ w.k = u.k /\ w.cnt = u.cnt /\ w.fail = u.fail /\ w.echo = u.echo
        /\ w.fd = IF c.sys = Sysnum.open THEN 1 ELSE u.fd
    BY <2>1, AfterFields
  <2>3. PICK S : S = u.seen \cup {N[FdOf(u, c)]} OBVIOUS
  <2>4. v = [w EXCEPT !.seen = S] BY <2>1, <2>2, <2>3
  <2>5. /\ DOMAIN v = DOMAIN w /\ v.seen = S /\ v.at = w.at /\ v.prog = w.prog /\ v.arg = w.arg
        /\ v.buf = w.buf /\ v.test = w.test /\ v.k = w.k /\ v.cnt = w.cnt /\ v.fail = w.fail
        /\ v.fd = w.fd /\ v.echo = w.echo
    BY <2>2, <2>4, Fields
  <2>6. ~Is(c, "getargs") /\ ~Is(c, "open") BY <1>3 DEF Is
  <2>7. w.at \in c.some BY <2>2
  <2> QED BY <1>3, <2>2, <2>3, <2>5, <2>6, <2>7
<1>4. CASE Is(c, "getargs") /\ \E w \in After(u, c, 0) : v = [w EXCEPT !.buf = a]
  <2>1. PICK w \in After(u, c, 0) : v = [w EXCEPT !.buf = a] BY <1>4
  <2>2. /\ DOMAIN w = DOMAIN u /\ w.at \in Place(c, 0)
        /\ w.prog = u.prog /\ w.arg = u.arg /\ w.buf = u.buf /\ w.seen = u.seen
        /\ w.test = u.test /\ w.k = u.k /\ w.cnt = u.cnt /\ w.fail = u.fail /\ w.echo = u.echo
        /\ w.fd = IF c.sys = Sysnum.open THEN 0 ELSE u.fd
    BY <2>1, AfterFields
  <2>5. /\ DOMAIN v = DOMAIN w /\ v.seen = w.seen /\ v.at = w.at /\ v.prog = w.prog /\ v.arg = w.arg
        /\ v.buf = a /\ v.test = w.test /\ v.k = w.k /\ v.cnt = w.cnt /\ v.fail = w.fail
        /\ v.fd = w.fd /\ v.echo = w.echo
    BY <2>1, <2>2, Fields
  <2>6. ~Is(c, "open") BY <1>4 DEF Is
  <2> QED BY <1>4, <2>2, <2>5, <2>6
<1>5. ASSUME NEW r \in {0, 1}, Is(c, "read") \/ Is(c, "write") \/ Is(c, "vidmap"), v \in After(u,
      c, r)
      PROVE  /\ Went(u, c, F, v) /\ (c.sys # Sysnum.open => v.fd = u.fd) /\ v.buf = u.buf
             /\ v.seen = u.seen /\ ~Is(c, "getargs") /\ ~Is(c, "open")
  BY <1>2, <1>5 DEF Is
<1>6. CASE /\ Is(c, "write") /\ FlagIn(F, FdOf(u, c)) = "STDIN"
           /\ \E w \in After(u, c, 1) : v = [w EXCEPT !.echo = 1]
  <2>1. PICK w \in After(u, c, 1) : v = [w EXCEPT !.echo = 1] BY <1>6
  <2>2. /\ DOMAIN w = DOMAIN u /\ w.at \in Place(c, 1)
        /\ w.prog = u.prog /\ w.arg = u.arg /\ w.buf = u.buf /\ w.seen = u.seen
        /\ w.test = u.test /\ w.k = u.k /\ w.cnt = u.cnt /\ w.fail = u.fail
        /\ w.fd = IF c.sys = Sysnum.open THEN 1 ELSE u.fd
    BY <2>1, AfterFields
  <2>5. /\ DOMAIN v = DOMAIN w /\ v.seen = w.seen /\ v.at = w.at /\ v.prog = w.prog /\ v.arg = w.arg
        /\ v.buf = w.buf /\ v.test = w.test /\ v.k = w.k /\ v.cnt = w.cnt /\ v.fail = w.fail
        /\ v.fd = w.fd
    BY <2>1, <2>2, Fields
  <2>6. ~Is(c, "getargs") /\ ~Is(c, "open") BY <1>6 DEF Is
  <2>7. w.at \in c.some BY <2>2
  <2> QED BY <1>6, <2>2, <2>5, <2>6, <2>7
<1> HIDE DEF Went, Place
<1> QED BY <1>1, <1>3, <1>4, <1>5, <1>6 DEF Answer

\* open and close.
LEMMA OpensGoes ==
  ASSUME NEW u, DOMAIN u = DOMAIN Begin("shell", NoName), u.at # "test", NEW c,
         c.sys = Sysnum.open, NEW F, NEW N, NEW v, NEW G, NEW M, Opens(u, c, F, N, v, G, M)
  PROVE  /\ Went(u, c, F, v) /\ v.at \in c.some /\ v.buf = u.buf /\ v.seen = u.seen
         /\ v.fd \in FreeIn(F) /\ G = [F EXCEPT ![v.fd] = Directory[NameFor(u, c)]]
         /\ M = IF Directory[NameFor(u, c)] = "RTC" THEN N ELSE [N EXCEPT ![v.fd] = NameFor(u, c)]
<1>1. PICK fd \in FreeIn(F) :
         /\ G = [F EXCEPT ![fd] = Directory[NameFor(u, c)]]
         /\ M = IF Directory[NameFor(u, c)] = "RTC" THEN N ELSE [N EXCEPT ![fd] = NameFor(u, c)]
         /\ v \in After(u, c, fd)
  BY DEF Opens
<1>2. fd # -1 /\ fd # 0 BY DEF FreeIn, FDs
<1>3. Place(c, fd) = c.some BY <1>2 DEF Place
<1>4. c.sys # Sysnum.execute BY Numbers
<1>5. /\ DOMAIN v = DOMAIN u /\ v.at \in c.some /\ v.prog = u.prog /\ v.arg = u.arg
      /\ v.buf = u.buf /\ v.seen = u.seen /\ v.test = u.test /\ v.k = u.k /\ v.cnt = u.cnt
      /\ v.fail = u.fail /\ v.echo = u.echo /\ v.fd = fd
  BY <1>1, <1>3, <1>4, AfterFields
<1> QED BY <1>1, <1>5 DEF Went

\* After a close a program is at the place of the result 0.
LEMMA ClosesGoes ==
  ASSUME NEW u, DOMAIN u = DOMAIN Begin("shell", NoName), u.at # "test", NEW c,
         c.sys # Sysnum.execute, NEW F, NEW v, NEW G, Closes(u, c, F, v, G)
  PROVE  Went(u, c, F, v)
<1>1. v \in After(u, c, 0) BY DEF Closes
<1>2. Place(c, 0) = c.zero BY DEF Place
<1> QED BY <1>1, <1>2, AfterFields DEF Went

\* Every call with a number of the table is of one kind.
LEMMA Kinds ==
  ASSUME NEW c
  PROVE  /\ c.sys = Sysnum.read => Is(c, "read") /\ ~Is(c, "open") /\ ~Is(c, "close")
         /\ c.sys = Sysnum.write => Is(c, "write") /\ ~Is(c, "open") /\ ~Is(c, "close")
         /\ c.sys = Sysnum.open => Is(c, "open") /\ ~Is(c, "close")
         /\ c.sys = Sysnum.getargs => Is(c, "getargs") /\ ~Is(c, "open") /\ ~Is(c, "close")
         /\ c.sys = Sysnum.set_handler => ~Is(c, "open") /\ ~Is(c, "close")
         /\ c.sys = Sysnum.close => Is(c, "close") /\ ~Is(c, "open")
         /\ c.sys = Sysnum.vidmap => Is(c, "vidmap") /\ ~Is(c, "open") /\ ~Is(c, "close")
  BY Handlers DEF Is

\* Where any call but execute leads.
LEMMA OutcomeGoes ==
  ASSUME NEW u, DOMAIN u = DOMAIN Begin("shell", NoName), u.at # "test", NEW c,
         c.sys \in {Sysnum.read, Sysnum.write, Sysnum.open, Sysnum.close, Sysnum.getargs,
                    Sysnum.vidmap, Sysnum.set_handler},
         NEW F, NEW N, NEW a, NEW v, NEW G, NEW M, Outcome(u, c, F, N, a, v, G, M)
  PROVE  Went(u, c, F, v)
<1>1. c.sys # Sysnum.execute BY Numbers
<1>2. CASE Answer(u, c, F, N, a, v) BY <1>1, <1>2, AnswerGoes
<1>3. CASE Opens(u, c, F, N, v, G, M)
  <2>1. Is(c, "open") BY <1>3 DEF Opens
  <2>2. c.sys = Sysnum.open BY <2>1, Kinds, Numbers
  <2> QED BY <1>3, <2>2, OpensGoes
<1>4. CASE Closes(u, c, F, v, G) BY <1>1, <1>4, ClosesGoes
<1> QED BY <1>2, <1>3, <1>4 DEF Outcome

\* halt and execute do not return to the program that calls them.
LEMMA NoOutcome ==
  ASSUME NEW u, NEW c, c.sys \in {Sysnum.halt, Sysnum.execute},
         NEW F, NEW N, NEW a, NEW v, NEW G, NEW M
  PROVE  ~Outcome(u, c, F, N, a, v, G, M)
<1>1. Handler(c.sys) \in {"halt", "execute"} BY Handlers
<1>2. ~Answer(u, c, F, N, a, v) BY <1>1 DEF Answer, Refused, Is
<1>3. ~Opens(u, c, F, N, v, G, M) /\ ~Closes(u, c, F, v, G) BY <1>1 DEF Opens, Closes, Is
<1> QED BY <1>2, <1>3 DEF Outcome

\* The calls of a program at a place of its own, and at an end.
LEMMA CallsAt ==
  ASSUME NEW u, u.at \notin Ends
  PROVE  Calls(u) = Programs[u.prog][u.at]
<1>1. DOMAIN Exit = {"exit0", "exit2", "exit3"} BY DEF Exit
<1> QED BY <1>1 DEF Calls, Ends

\* A program at its end calls halt with the status of that end; at a fault it calls nothing.
LEMMA CallsEnd ==
  ASSUME NEW u, NEW c \in Calls(u), u.at \in {"exit0", "exit2", "exit3", "exit", "fault"}
  PROVE  /\ u.at # "fault" /\ c.sys = Sysnum.halt
         /\ c.fd = IF u.at = "exit0" THEN 0 ELSE IF u.at = "exit2" THEN 2
                   ELSE IF u.at = "exit3" THEN 3 ELSE u.fail
<1>1. DOMAIN Exit = {"exit0", "exit2", "exit3"} /\ Exit["exit0"] = 0 /\ Exit["exit2"] = 2
      /\ Exit["exit3"] = 3
  BY DEF Exit
<1>2. CASE u.at \in {"exit0", "exit2", "exit3"}
  <2>1. c = Call(Sysnum.halt, Exit[u.at], NoName, {}, {}, {}) BY <1>1, <1>2 DEF Calls
  <2> QED BY <1>1, <1>2, <2>1 DEF Call
<1>3. CASE u.at = "exit"
  <2>1. c = Call(Sysnum.halt, u.fail, NoName, {}, {}, {}) BY <1>1, <1>3 DEF Calls
  <2> QED BY <1>1, <1>3, <2>1 DEF Call
<1>4. CASE u.at = "fault" BY <1>1, <1>4 DEF Calls
<1> QED BY <1>2, <1>3, <1>4

\* The fields of a call.
LEMMA CallFields ==
  ASSUME NEW sys, NEW fd, NEW name, NEW e, NEW z, NEW s, NEW c, c = Call(sys, fd, name, e, z, s)
  PROVE  c.sys = sys /\ c.fd = fd /\ c.name = name /\ c.err = e /\ c.zero = z /\ c.some = s
  BY DEF Call

\* A message on standard output.
LEMMA FdputsIs ==
  ASSUME NEW n, NEW c \in Fdputs(n)
  PROVE  c.sys = Sysnum.write /\ c.fd = 1 /\ c.err = n /\ c.zero = n /\ c.some = n
<1>1. c = Call(Sysnum.write, 1, NoName, n, n, n) BY DEF Fdputs
<1> QED BY <1>1, CallFields

\* A read.
LEMMA ReadIs ==
  ASSUME NEW fd, NEW e, NEW z, NEW s, NEW c \in Read(fd, e, z, s)
  PROVE  c.sys = Sysnum.read /\ c.fd = fd /\ c.err = {e} /\ c.zero = z /\ c.some = s
<1>1. c = Call(Sysnum.read, fd, NoName, {e}, z, s) BY DEF Read
<1> QED BY <1>1, CallFields

\* The standard streams of a program's descriptors.
Std(F) == F[0] = "STDIN" /\ F[1] = "STDOUT"

\* A read of standard input and a write to standard output do not fail.
LEMMA StdWorks ==
  ASSUME NEW u, NEW c, NEW F, Std(F), c.fd \in Int,
         (c.sys = Sysnum.read /\ c.fd = 0) \/ (c.sys = Sysnum.write /\ c.fd = 1)
  PROVE  ~Refused(u, c, F)
<1>1. FdOf(u, c) = c.fd BY DEF FdOf, Opened
<1>2. 0 \in FDs /\ 1 \in FDs BY ConstantsAssumption DEF FDs
<1>3. CASE c.sys = Sysnum.read /\ c.fd = 0
  <2>1. Handler(c.sys) = "read" /\ FlagIn(F, FdOf(u, c)) = "STDIN"
    BY <1>1, <1>2, <1>3, Handlers DEF FlagIn, Std
  <2> QED BY <2>1 DEF Refused, Is
<1>4. CASE c.sys = Sysnum.write /\ c.fd = 1
  <2>1. Handler(c.sys) = "write" /\ FlagIn(F, FdOf(u, c)) = "STDOUT"
    BY <1>1, <1>2, <1>4, Handlers DEF FlagIn, Std
  <2> QED BY <2>1 DEF Refused, Is
<1> QED BY <1>3, <1>4

\* A program of which only the places matter goes from place to place.
LEMMA PlainGoes ==
  ASSUME NEW u, Sane(u), NEW R, u.at \in R, R \cap {"test"} = {}, NEW c \in Calls(u), NEW F, Std(F),
         NEW N, NEW a, NEW v, NEW G, NEW M, Outcome(u, c, F, N, a, v, G, M),
         u.at \notin Ends =>
           /\ c.sys \in {Sysnum.read, Sysnum.write, Sysnum.open, Sysnum.close, Sysnum.getargs,
                         Sysnum.vidmap, Sysnum.set_handler, Sysnum.halt}
           /\ c.zero \cup c.some \subseteq R
           /\ c.err \subseteq R \/ (c.sys = Sysnum.read /\ c.fd = 0)
              \/ c.sys = Sysnum.getargs
  PROVE  v.at \in R /\ v.prog = u.prog
<1>0. u.at # "test" /\ DOMAIN u = DOMAIN Begin("shell", NoName) BY DEF Sane
<1>1. CASE u.at \in Ends
  <2>1. c.sys = Sysnum.halt BY <1>0, <1>1, CallsEnd DEF Ends
  <2> QED BY <2>1, NoOutcome
<1>2. CASE u.at \notin Ends
  <2>1. c.sys # Sysnum.halt BY NoOutcome
  <2>2. Went(u, c, F, v) BY <1>0, <1>2, <2>1, OutcomeGoes
  <2>3. ASSUME c.sys = Sysnum.getargs PROVE ~Refused(u, c, F)
    BY <2>3, Handlers DEF Refused, Is
  <2>4. ASSUME c.sys = Sysnum.read, c.fd = 0 PROVE ~Refused(u, c, F) BY <2>4, StdWorks
  <2> QED BY <1>2, <2>2, <2>3, <2>4 DEF Went
<1> QED BY <1>1, <1>2

\* The places of each program.
LEMMA ReachedAre ==
  /\ Reached["shell"] = {"start", "read", "exec", "exit0", "exit3"}
  /\ Reached["hello"] = {"start", "read", "greet", "exit0"}
  /\ Reached["counter"] = {"start", "read", "count", "wrong", "exit0"}
  /\ Reached["testprint"] = {"start", "exit0"}
  /\ Reached["sigtest"] = {"start", "install", "alarm", "ask", "read", "fault"}
  /\ Reached["pingpong"] = {"start", "rate", "draw", "wait"}
  /\ Reached["other"] = {"start"}
  BY DEF Reached

\* What PlainGoes asks of the calls of a program.
Plain(u, c, R) ==
  u.at \notin Ends =>
    /\ c.sys \in {Sysnum.read, Sysnum.write, Sysnum.open, Sysnum.close, Sysnum.getargs,
                  Sysnum.vidmap, Sysnum.set_handler, Sysnum.halt}
    /\ c.zero \cup c.some \subseteq R
    /\ c.err \subseteq R \/ (c.sys = Sysnum.read /\ c.fd = 0) \/ c.sys = Sysnum.getargs

\* hello, counter, testprint
LEMMA PlainHello ==
  ASSUME NEW u, u.prog \in {"hello", "counter", "testprint"}, u.at \in Reached[u.prog],
         NEW c \in Calls(u)
  PROVE  Plain(u, c, Reached[u.prog])
<1> SUFFICES ASSUME u.at \notin Ends PROVE Plain(u, c, Reached[u.prog]) BY DEF Plain
<1>1. c \in Programs[u.prog][u.at] BY CallsAt
<1>2. CASE u.prog = "hello"
  <2>1. Programs[u.prog] = hello BY <1>2 DEF Programs
  <2>2. u.at \in {"start", "read", "greet"} BY <1>2, ReachedAre DEF Ends
  <2>3. c \in Fdputs({"read"}) \/ c \in Fdputs({"exit0"}) \/ c \in Read(0, "exit3", {"greet"},
        {"greet"})
    BY <1>1, <2>1, <2>2 DEF hello
  <2> QED BY <1>2, <2>3, FdputsIs, ReadIs, ReachedAre DEF Plain
<1>3. CASE u.prog = "counter"
  <2>1. Programs[u.prog] = counter BY <1>3 DEF Programs
  <2>2. u.at \in {"start", "read", "wrong", "count"} BY <1>3, ReachedAre DEF Ends
  <2>3. \/ c \in Fdputs({"read"}) \/ c \in Fdputs({"exit0"}) \/ c \in Fdputs({"count", "exit0"})
        \/ c \in Read(0, "exit3", {"count", "wrong", "exit0"}, {"count", "wrong", "exit0"})
    BY <1>1, <2>1, <2>2 DEF counter
  <2> QED BY <1>3, <2>3, FdputsIs, ReadIs, ReachedAre DEF Plain
<1>4. CASE u.prog = "testprint"
  <2>1. Programs[u.prog] = testprint BY <1>4 DEF Programs
  <2>2. u.at \in {"start"} BY <1>4, ReachedAre DEF Ends
  <2>3. c \in Fdputs({"exit0"}) BY <1>1, <2>1, <2>2 DEF testprint
  <2> QED BY <1>4, <2>3, FdputsIs, ReachedAre DEF Plain
<1> QED BY <1>2, <1>3, <1>4

\* sigtest, pingpong and any other program
LEMMA PlainOther ==
  ASSUME NEW u, u.prog \in {"sigtest", "pingpong", "other"}, u.at \in Reached[u.prog],
         NEW c \in Calls(u)
  PROVE  Plain(u, c, Reached[u.prog])
<1> SUFFICES ASSUME u.at \notin Ends PROVE Plain(u, c, Reached[u.prog]) BY DEF Plain
<1>1. c \in Programs[u.prog][u.at] BY CallsAt
<1>2. CASE u.prog = "sigtest"
  <2>1. Programs[u.prog] = sigtest BY <1>2 DEF Programs
  <2>2. u.at \in {"start", "install", "alarm", "ask", "read"} BY <1>2, ReachedAre DEF Ends
  <2>3. \/ c = Call(Sysnum.getargs, 0, NoName, {"exit3"}, {"install", "ask"}, {})
        \/ c = Call(Sysnum.set_handler, 0, NoName, {"alarm"}, {"alarm"}, {"alarm"})
        \/ c = Call(Sysnum.set_handler, 0, NoName, {"ask"}, {"ask"}, {"ask"})
        \/ c \in Fdputs({"read"}) \/ c \in Read(0, "exit3", {"fault"}, {"fault"})
    BY <1>1, <2>1, <2>2 DEF sigtest
  <2>4. \/ c.sys = Sysnum.getargs /\ c.zero = {"install", "ask"} /\ c.some = {}
        \/ c.sys = Sysnum.set_handler /\ c.err = {"alarm"} /\ c.zero = {"alarm"} /\ c.some = {"alarm"}
        \/ c.sys = Sysnum.set_handler /\ c.err = {"ask"} /\ c.zero = {"ask"} /\ c.some = {"ask"}
        \/ c.sys = Sysnum.write /\ c.err = {"read"} /\ c.zero = {"read"} /\ c.some = {"read"}
        \/ c.sys = Sysnum.read /\ c.fd = 0 /\ c.zero = {"fault"} /\ c.some = {"fault"}
    BY <2>3, CallFields, FdputsIs, ReadIs
  <2> QED BY <1>2, <2>4, ReachedAre DEF Plain
<1>3. CASE u.prog = "pingpong"
  <2>1. Programs[u.prog] = pingpong BY <1>3 DEF Programs
  <2>2. u.at \in {"start", "rate", "draw", "wait"} BY <1>3, ReachedAre DEF Ends
  <2>3. \/ c = Call(Sysnum.open, 0, "rtc", {"rate"}, {"rate"}, {"rate"})
        \/ c = Call(Sysnum.write, Opened, NoName, {"draw"}, {"draw"}, {"draw"})
        \/ c \in Fdputs({"wait"}) \/ c \in Read(Opened, "draw", {"draw"}, {"draw"})
    BY <1>1, <2>1, <2>2 DEF pingpong
  <2>4. \/ c.sys = Sysnum.open /\ c.err = {"rate"} /\ c.zero = {"rate"} /\ c.some = {"rate"}
        \/ c.sys = Sysnum.write /\ c.err = {"draw"} /\ c.zero = {"draw"} /\ c.some = {"draw"}
        \/ c.sys = Sysnum.write /\ c.err = {"wait"} /\ c.zero = {"wait"} /\ c.some = {"wait"}
        \/ c.sys = Sysnum.read /\ c.err = {"draw"} /\ c.zero = {"draw"} /\ c.some = {"draw"}
    BY <2>3, CallFields, FdputsIs, ReadIs
  <2> QED BY <1>3, <2>4, ReachedAre DEF Plain
<1>4. CASE u.prog = "other"
  <2>1. u.at = "start" BY <1>4, ReachedAre
  <2>2. c \in other BY <1>1, <1>4, <2>1 DEF Programs
  <2>3. \/ c.sys = Sysnum.halt /\ c.err = {} /\ c.zero = {} /\ c.some = {}
        \/ c.sys \in {Sysnum.open, Sysnum.close, Sysnum.vidmap}
           /\ c.err = {"start"} /\ c.zero = {"start"} /\ c.some = {"start"}
    BY <2>2 DEF other, Call
  <2> QED BY <1>4, <2>3, ReachedAre DEF Plain
<1> QED BY <1>2, <1>3, <1>4

\* Where the programs go of which only the places matter.
LEMMA SimpleGoes ==
  ASSUME NEW u, Sane(u), u.prog \in DOMAIN Reached \ {"shell"}, u.at \in Reached[u.prog],
         NEW c \in Calls(u), NEW F, Std(F), NEW N, NEW a, NEW v, NEW G, NEW M,
         Outcome(u, c, F, N, a, v, G, M)
  PROVE  v.prog = u.prog /\ v.at \in Reached[u.prog]
<1>1. u.prog \in {"hello", "counter", "testprint", "sigtest", "pingpong", "other"} BY DEF Reached
<1>2. Reached[u.prog] \cap {"test"} = {} BY <1>1, ReachedAre
<1>3. Plain(u, c, Reached[u.prog]) BY <1>1, PlainHello, PlainOther
<1> QED BY <1>2, <1>3, PlainGoes DEF Plain

\* A fresh program finds a descriptor to open.
LEMMA FreshFree == ASSUME MAX_FILE >= 3, NEW F, Fresh(F) PROVE 2 \in FreeIn(F)
  BY ConstantsAssumption DEF FreeIn, Fresh, FDs

\* A call that is neither open nor close.
LEMMA OnlyAnswer ==
  ASSUME NEW u, NEW c, c.sys \in {Sysnum.read, Sysnum.write, Sysnum.getargs},
         NEW F, NEW N, NEW a, NEW v, NEW G, NEW M, Outcome(u, c, F, N, a, v, G, M)
  PROVE  Answer(u, c, F, N, a, v) /\ G = F /\ M = N /\ c.sys \notin {Sysnum.execute, Sysnum.open}
<1>1. ~Is(c, "open") /\ ~Is(c, "close") BY Kinds
<1>2. ~Opens(u, c, F, N, v, G, M) /\ ~Closes(u, c, F, v, G) BY <1>1 DEF Opens, Closes
<1> QED BY <1>2, Numbers DEF Outcome

\* open returns a descriptor of the file, or there is no such file.
LEMMA OpenResult ==
  ASSUME MAX_FILE >= 3, NEW u, Sane(u), u.at # "test", NEW c, c.sys = Sysnum.open,
         NEW F \in [FDs -> Flags], Fresh(F), NEW N, DOMAIN N = FDs,
         NEW a, NEW v, NEW G, NEW M, Outcome(u, c, F, N, a, v, G, M),
         NEW n, n = NameFor(u, c)
  PROVE  /\ v.prog = u.prog /\ v.arg = u.arg /\ v.seen \subseteq u.seen
         /\ \/ v.at \in c.err /\ n \notin DOMAIN Directory
            \/ v.at \in c.some /\ OpenAs(G, M, v.fd, n)
<1>0. DOMAIN u = DOMAIN Begin("shell", NoName) BY DEF Sane
<1>1. Is(c, "open") /\ ~Is(c, "close") /\ ~Is(c, "read") /\ c.sys # Sysnum.execute
  BY Handlers, Numbers DEF Is
<1>2. CASE Answer(u, c, F, N, a, v)
  <2>1. /\ Went(u, c, F, v) /\ v.seen = u.seen /\ Refused(u, c, F) /\ v.at \in c.err
    BY <1>0, <1>1, <1>2, AnswerGoes
  <2>2. 2 \in FreeIn(F) BY FreshFree
  <2>3. n \notin DOMAIN Directory BY <1>1, <2>1, <2>2, Handlers DEF Refused, Is
  <2> QED BY <2>1, <2>3 DEF Went
<1>3. CASE Opens(u, c, F, N, v, G, M)
  <2>1. /\ Went(u, c, F, v) /\ v.at \in c.some /\ v.seen = u.seen
        /\ v.fd \in FreeIn(F) /\ G = [F EXCEPT ![v.fd] = Directory[n]]
        /\ M = IF Directory[n] = "RTC" THEN N ELSE [N EXCEPT ![v.fd] = n]
    BY <1>0, <1>3, OpensGoes
  <2>2. n \in DOMAIN Directory BY <1>3 DEF Opens
  <2>3. v.fd \in FDs /\ v.fd >= 2 BY <2>1 DEF FreeIn
  <2>4. G[v.fd] = Directory[n] BY <2>1, <2>3
  <2>5. Directory[n] = "FILE" => M[v.fd] = n BY <2>1, <2>3
  <2>6. OpenAs(G, M, v.fd, n) BY <2>2, <2>3, <2>4, <2>5 DEF OpenAs
  <2> QED BY <2>1, <2>6 DEF Went
<1>4. ~Closes(u, c, F, v, G) BY <1>1 DEF Closes
<1> QED BY <1>2, <1>3, <1>4 DEF Outcome

\* A read of the file n that was opened does not fail, and sees that file.
ReadOn(u, c, v, n) ==
  /\ v.prog = u.prog /\ v.arg = u.arg /\ v.fd = u.fd /\ v.at \in c.zero \cup c.some
  /\ v.seen \subseteq u.seen \cup {n}

\* A read of a descriptor that open gave neither fails nor changes a descriptor.
LEMMA ReadResult ==
  ASSUME NEW u, Sane(u), u.at # "test", NEW c, c.sys = Sysnum.read, c.fd = Opened,
         NEW F, NEW N, NEW a, NEW v, NEW G, NEW M, Outcome(u, c, F, N, a, v, G, M),
         NEW n, OpenAs(F, N, u.fd, n)
  PROVE  ReadOn(u, c, v, n) /\ G = F /\ M = N
<1>0. DOMAIN u = DOMAIN Begin("shell", NoName) BY DEF Sane
<1>1. FdOf(u, c) = u.fd BY DEF FdOf
<1>2. Answer(u, c, F, N, a, v) /\ G = F /\ M = N /\ c.sys \notin {Sysnum.execute, Sysnum.open}
  BY OnlyAnswer
<1>3. Is(c, "read") /\ Handler(c.sys) = "read" BY Handlers DEF Is
<1>4. FlagIn(F, FdOf(u, c)) = Directory[n] BY <1>1 DEF FlagIn, OpenAs
<1>5. Directory[n] \in {"DIR", "RTC", "FILE"} BY NotThere, Entries DEF OpenAs
<1>6. ~Refused(u, c, F) BY <1>3, <1>4, <1>5 DEF Refused, Is
<1>7. /\ Went(u, c, F, v) /\ v.fd = u.fd
      /\ \/ v.seen = u.seen
         \/ FlagIn(F, FdOf(u, c)) = "FILE" /\ v.seen = u.seen \cup {N[FdOf(u, c)]}
  BY <1>0, <1>2, AnswerGoes
<1>8. v.seen \subseteq u.seen \cup {n}
  <2>1. CASE v.seen = u.seen BY <2>1
  <2>2. CASE FlagIn(F, FdOf(u, c)) = "FILE" /\ v.seen = u.seen \cup {N[FdOf(u, c)]}
    <3>1. N[FdOf(u, c)] = n BY <1>1, <1>4, <2>2 DEF OpenAs
    <3> QED BY <2>2, <3>1
  <2> QED BY <1>7, <2>1, <2>2
<1> QED BY <1>2, <1>6, <1>7, <1>8 DEF Went, ReadOn

\* A message or data on standard output.
LEMMA WriteResult ==
  ASSUME NEW u, Sane(u), u.at # "test", NEW c, c.sys = Sysnum.write, c.fd = 1,
         NEW F, Std(F), NEW N, NEW a, NEW v, NEW G, NEW M, Outcome(u, c, F, N, a, v, G, M)
  PROVE  /\ v.prog = u.prog /\ v.arg = u.arg /\ v.fd = u.fd /\ v.at \in c.zero \cup c.some
         /\ v.seen = u.seen /\ G = F /\ M = N
<1>0. DOMAIN u = DOMAIN Begin("shell", NoName) BY DEF Sane
<1>1. Answer(u, c, F, N, a, v) /\ G = F /\ M = N /\ c.sys \notin {Sysnum.execute, Sysnum.open}
  BY OnlyAnswer
<1>2. ~Is(c, "read") BY Handlers DEF Is
<1>3. ~Refused(u, c, F) BY StdWorks
<1>4. Went(u, c, F, v) /\ v.fd = u.fd /\ v.seen = u.seen BY <1>0, <1>1, <1>2, AnswerGoes
<1> QED BY <1>1, <1>3, <1>4 DEF Went

\* cat
LEMMA CatGoes ==
  ASSUME MAX_FILE >= 3, NEW u, Sane(u), u.prog = "cat", NEW c \in Calls(u),
         NEW F \in [FDs -> Flags], Std(F), NEW N, DOMAIN N = FDs, NEW a, CatOK(u, F, N, a),
         NEW v, NEW G, NEW M, Outcome(u, c, F, N, a, v, G, M)
  PROVE  v.prog = "cat" /\ CatOK(v, G, M, a)
<1>0. DOMAIN u = DOMAIN Begin("shell", NoName) BY DEF Sane
<1>1. Programs["cat"] = cat BY DEF Programs
<1>2. CASE u.at \in {"exit0", "exit2"} BY <1>2, CallsEnd, NoOutcome
<1>3. CASE u.at \notin {"exit0", "exit2"}
  <2>1. u.at \in {"start", "open", "none", "read", "write"} /\ u.at # "test" BY <1>3 DEF CatOK
  <2>2. c \in cat[u.at] BY <1>1, <2>1, CallsAt DEF Ends
  <2>3. CASE u.at = "start"
    <3>1. c = Call(Sysnum.getargs, 0, NoName, {"exit3"}, {"open"}, {"open"}) BY <2>2, <2>3 DEF cat
    <3>2. c.sys = Sysnum.getargs /\ c.zero = {"open"} /\ c.some = {"open"} BY <3>1, CallFields
    <3>3. Answer(u, c, F, N, a, v) /\ G = F /\ M = N /\ c.sys # Sysnum.execute BY <3>2, OnlyAnswer
    <3>4. Handler(c.sys) = "getargs" BY <3>2, Handlers
    <3>5. ~Refused(u, c, F) /\ Is(c, "getargs") /\ ~Is(c, "read") BY <3>4 DEF Refused, Is
    <3>6. Went(u, c, F, v) /\ v.buf = a /\ v.seen = u.seen BY <1>0, <2>1, <3>3, <3>5, AnswerGoes
    <3>7. v.at = "open" /\ v.prog = "cat" /\ v.arg = u.arg BY <3>2, <3>5, <3>6 DEF Went
    <3> QED BY <2>3, <3>3, <3>6, <3>7 DEF CatOK
  <2>4. CASE u.at = "open"
    <3>1. c = Call(Sysnum.open, 0, "(buf)", {"none"}, {"read"}, {"read"}) BY <2>2, <2>4 DEF cat
    <3>2. c.sys = Sysnum.open /\ c.name = "(buf)" /\ c.err = {"none"} /\ c.some = {"read"}
      BY <3>1, CallFields
    <3>3. NameFor(u, c) = u.arg /\ Fresh(F) BY <2>4, <3>2 DEF NameFor, CatOK
    <3>4. /\ v.prog = "cat" /\ v.arg = u.arg /\ v.seen \subseteq u.seen
          /\ \/ v.at = "none" /\ v.arg \notin DOMAIN Directory
             \/ v.at = "read" /\ OpenAs(G, M, v.fd, v.arg)
      BY <2>1, <3>2, <3>3, OpenResult
    <3> QED BY <3>4 DEF CatOK
  <2>5. CASE u.at = "none"
    <3>1. c \in Fdputs({"exit2"}) BY <2>2, <2>5 DEF cat
    <3>2. v.prog = u.prog /\ v.arg = u.arg /\ v.at = "exit2" /\ v.seen = u.seen
      BY <2>1, <3>1, FdputsIs, WriteResult
    <3> QED BY <2>5, <3>2 DEF CatOK
  <2>6. CASE u.at = "read"
    <3>1. c \in Read(Opened, "exit3", {"exit0"}, {"write"}) BY <2>2, <2>6 DEF cat
    <3>2. c.sys = Sysnum.read /\ c.fd = Opened BY <3>1, ReadIs
    <3>w. c.zero = {"exit0"} /\ c.some = {"write"} BY <3>1, ReadIs
    <3>3. OpenAs(F, N, u.fd, u.arg) BY <2>6 DEF CatOK
    <3>4. ReadOn(u, c, v, u.arg) /\ G = F /\ M = N BY <2>1, <3>2, <3>3, ReadResult
    <3>5. v.at \in {"exit0", "write"} BY <3>w, <3>4 DEF ReadOn
    <3> QED BY <3>3, <3>4, <3>5 DEF CatOK, OpenAs, ReadOn
  <2>7. CASE u.at = "write"
    <3>1. c = Call(Sysnum.write, 1, NoName, {"exit3"}, {"read"}, {"read"}) BY <2>2, <2>7 DEF cat
    <3>2. c.sys = Sysnum.write /\ c.fd = 1 /\ c.zero = {"read"} /\ c.some = {"read"}
      BY <3>1, CallFields
    <3>3. /\ v.prog = u.prog /\ v.arg = u.arg /\ v.fd = u.fd /\ v.at = "read" /\ v.seen = u.seen
          /\ G = F /\ M = N
      BY <2>1, <3>2, WriteResult
    <3> QED BY <2>7, <3>3 DEF CatOK
  <2> QED BY <2>1, <2>3, <2>4, <2>5, <2>6, <2>7
<1> QED BY <1>2, <1>3

\* ls
LEMMA LsGoes ==
  ASSUME MAX_FILE >= 3, NEW u, Sane(u), u.prog = "ls", NEW c \in Calls(u),
         NEW F \in [FDs -> Flags], Std(F), NEW N, DOMAIN N = FDs, NEW a, LsOK(u, F, N),
         NEW v, NEW G, NEW M, Outcome(u, c, F, N, a, v, G, M)
  PROVE  v.prog = "ls" /\ LsOK(v, G, M)
<1>1. Programs["ls"] = ls BY DEF Programs
<1>2. CASE u.at = "exit0" BY <1>2, CallsEnd, NoOutcome
<1>3. CASE u.at # "exit0"
  <2>1. u.at \in {"start", "read", "write"} /\ u.at # "test" BY <1>3 DEF LsOK
  <2>2. c \in ls[u.at] BY <1>1, <2>1, CallsAt DEF Ends
  <2>4. CASE u.at = "start"
    <3>1. c = Call(Sysnum.open, 0, ".", {"none"}, {"read"}, {"read"}) BY <2>2, <2>4 DEF ls
    <3>2. c.sys = Sysnum.open /\ c.name = "." /\ c.err = {"none"} /\ c.some = {"read"}
      BY <3>1, CallFields
    <3>3. NameFor(u, c) = "." /\ Fresh(F) /\ "." \in DOMAIN Directory
      BY <2>4, <3>2, NotThere DEF NameFor, LsOK
    <3>4. v.prog = "ls" /\ v.at = "read" /\ OpenAs(G, M, v.fd, ".")
      BY <2>1, <3>2, <3>3, OpenResult
    <3> QED BY <3>4 DEF LsOK
  <2>6. CASE u.at = "read"
    <3>1. c \in Read(Opened, "exit3", {"exit0"}, {"write"}) BY <2>2, <2>6 DEF ls
    <3>2. c.sys = Sysnum.read /\ c.fd = Opened BY <3>1, ReadIs
    <3>w. c.zero = {"exit0"} /\ c.some = {"write"} BY <3>1, ReadIs
    <3>3. OpenAs(F, N, u.fd, ".") BY <2>6 DEF LsOK
    <3>4. ReadOn(u, c, v, ".") /\ G = F /\ M = N BY <2>1, <3>2, <3>3, ReadResult
    <3>5. v.at \in {"exit0", "write"} BY <3>w, <3>4 DEF ReadOn
    <3> QED BY <3>3, <3>4, <3>5 DEF LsOK, ReadOn
  <2>7. CASE u.at = "write"
    <3>1. c = Call(Sysnum.write, 1, NoName, {"exit3"}, {"read"}, {"read"}) BY <2>2, <2>7 DEF ls
    <3>2. c.sys = Sysnum.write /\ c.fd = 1 /\ c.zero = {"read"} /\ c.some = {"read"}
      BY <3>1, CallFields
    <3>3. v.prog = u.prog /\ v.fd = u.fd /\ v.at = "read" /\ G = F /\ M = N
      BY <2>1, <3>2, WriteResult
    <3> QED BY <2>7, <3>3 DEF LsOK
  <2> QED BY <2>1, <2>4, <2>6, <2>7
<1> QED BY <1>2, <1>3

\* The calls that fail in a program that has opened nothing.
FailCalls ==
  {c \in TestCalls :
     /\ c.fd # Opened
     /\ \/ c.sys \in {1073741823, -1073741823, 0}
        \/ c.sys = Sysnum.read /\ c.fd # 0
        \/ c.sys = Sysnum.write /\ c.fd \notin {0, 1}
        \/ c.sys = Sysnum.close
        \/ c.sys = Sysnum.open /\ c.name \notin DOMAIN Directory
        \/ c.sys = Sysnum.vidmap /\ c.name \in {"null", "kernel"}}

\* One of them.
LEMMA TryFails ==
  ASSUME NEW sys \in Tried, NEW fd \in Int,
         NEW name \in {"helloo", "shel", NoName, ".", "null", "kernel"}, fd # Opened,
         \/ sys = "read" /\ fd # 0
         \/ sys = "write" /\ fd \notin {0, 1}
         \/ sys = "close"
         \/ sys = "open" /\ name \notin DOMAIN Directory
         \/ sys = "vidmap" /\ name \in {"null", "kernel"}
  PROVE  Try(sys, fd, name) \in FailCalls
<1>1. Try(sys, fd, name) \in TestCalls BY TryIn
<1>2. PICK c : c = Try(sys, fd, name) OBVIOUS
<1>3. c.sys = Sysnum[sys] /\ c.fd = fd /\ c.name = name BY <1>2, CallFields DEF Try
<1> QED BY <1>1, <1>2, <1>3 DEF FailCalls

\* A row of such calls, one for each descriptor of a range, is made of calls that fail.
LEMMA OnFdsFail ==
  ASSUME NEW sys \in {"read", "write", "close"}, NEW from \in Nat, NEW to \in Nat,
         from >= 2 \/ sys = "close", to - from + 1 \in Nat
  PROVE  OnFds(sys, from, to) \in Seq(FailCalls) /\ Len(OnFds(sys, from, to)) = to - from + 1
<1> DEFINE L == to - from + 1
           e(n) == Try(sys, from + n - 1, NoName)
<1>1. ASSUME NEW n \in 1 .. L PROVE e(n) \in FailCalls
  <2>1. PICK fd \in Int : fd = from + n - 1 OBVIOUS
  <2>2. fd >= 0 /\ (sys # "close" => fd >= 2) BY <2>1
  <2>3. fd # Opened BY <2>2 DEF Opened
  <2>4. sys \in Tried BY DEF Tried
  <2>5. Try(sys, fd, NoName) \in FailCalls BY <2>2, <2>3, <2>4, TryFails
  <2> QED BY <2>1, <2>5
<1>2. OnFds(sys, from, to) = [n \in 1 .. L |-> e(n)] BY DEF OnFds
<1>3. L \in Nat OBVIOUS
<1> HIDE DEF L, e
<1>4. [n \in 1 .. L |-> e(n)] \in Seq(FailCalls) /\ Len([n \in 1 .. L |-> e(n)]) = L BY <1>1, <1>3
<1> QED BY <1>2, <1>4 DEF L

\* Six of the tests make no other calls.
LEMMA TestsFail == \A t \in 1 .. 8 : t \notin {3, 7} => syserr[t] \in Seq(FailCalls)
<1>m. MAX_FILE \in Nat /\ MAX_FILE >= 2 BY ConstantsAssumption
<1>s. {"read", "write", "open", "close", "vidmap"} \subseteq Tried BY DEF Tried
<1>fd. ASSUME NEW fd \in {NEG_FD, BIG_FD} PROVE OnFd(fd) \in Seq(FailCalls)
  <2>0. fd \in Int /\ fd # Opened /\ fd # 0 /\ fd # 1 BY DEF NEG_FD, BIG_FD, Opened
  <2>1. Try("read", fd, NoName) \in FailCalls /\ Try("write", fd, NoName) \in FailCalls
        /\ Try("close", fd, NoName) \in FailCalls
    BY <1>s, <2>0, TryFails
  <2> QED BY <2>1 DEF OnFd
<1>1. err_neg_fd \in Seq(FailCalls) BY <1>fd DEF err_neg_fd
<1>2. err_big_fd \in Seq(FailCalls) BY <1>fd DEF err_big_fd
<1>0. 0 # Opened /\ 1 # Opened BY DEF Opened
<1>4. err_open \in Seq(FailCalls)
  <2>1. Try("open", 0, "helloo") \in FailCalls /\ Try("open", 0, "shel") \in FailCalls
        /\ Try("open", 0, NoName) \in FailCalls
    BY <1>0, <1>s, NotThere, TryFails
  <2> QED BY <2>1 DEF err_open
<1>5. err_unopened \in Seq(FailCalls)
  <2>0. PICK M \in Nat : M = MAX_FILE - 1 /\ M >= 1 BY <1>m
  <2> DEFINE a == OnFds("close", 0, M)
             b == OnFds("read", 2, M)
             c == OnFds("write", 2, M)
  <2>2. M - 2 + 1 \in Nat /\ M - 0 + 1 \in Nat BY <2>0
  <2>1. a \in Seq(FailCalls) BY <2>2, OnFdsFail
  <2>3. b \in Seq(FailCalls) /\ c \in Seq(FailCalls) BY <2>2, OnFdsFail
  <2>5. err_unopened = a \o b \o c BY <2>0 DEF err_unopened
  <2> HIDE DEF a, b, c
  <2>6. a \o b \in Seq(FailCalls) BY <2>1, <2>3, Joined
  <2>7. (a \o b) \o c \in Seq(FailCalls) BY <2>3, <2>6, Joined
  <2> QED BY <2>5, <2>7
<1>6. err_vidmap \in Seq(FailCalls)
  <2>1. Try("vidmap", 0, "null") \in FailCalls /\ Try("vidmap", 0, "kernel") \in FailCalls
    BY <1>0, <1>s, TryFails
  <2> QED BY <2>1 DEF err_vidmap
<1>8. err_syscall_num \in Seq(FailCalls)
  <2>1. ASSUME NEW n \in {1073741823, -1073741823, 0} PROVE Number(n) \in FailCalls
    <3>1. Try("read", 0, NoName) \in TestCalls /\ Number(n) \in TestCalls
      BY <1>s, TryIn, NumberIn
    <3>2. PICK c : c = Number(n) OBVIOUS
    <3>3. PICK d : d = Try("read", 0, NoName) OBVIOUS
    <3>4. d.fd = 0 BY <3>3, CallFields DEF Try
    <3>5. c = [d EXCEPT !.sys = n] BY <3>2, <3>3 DEF Number
    <3>6. c.sys = n /\ c.fd = 0 BY <3>1, <3>3, <3>4, <3>5 DEF TestCalls
    <3> QED BY <1>0, <3>1, <3>2, <3>6 DEF FailCalls
  <2>2. Number(1073741823) \in FailCalls /\ Number(-1073741823) \in FailCalls
        /\ Number(0) \in FailCalls
    BY <2>1
  <2> QED BY <2>2 DEF err_syscall_num
<1>9. /\ syserr[1] = err_neg_fd /\ syserr[2] = err_big_fd /\ syserr[4] = err_open
      /\ syserr[5] = err_unopened /\ syserr[6] = err_vidmap
      /\ syserr[8] = err_syscall_num
  BY DEF syserr
<1> QED BY <1>1, <1>2, <1>4, <1>5, <1>6, <1>8, <1>9

\* err_stdin_out writes to standard input and reads from standard output.
LEMMA StdinOutCalls ==
  /\ Len(syserr[7]) = 2
  /\ syserr[7][1] = Try("write", 0, NoName)
  /\ syserr[7][2] = Try("read", 1, NoName) /\ Try("read", 1, NoName) \in FailCalls
<1>1. syserr[7] = <<Try("write", 0, NoName), Try("read", 1, NoName)>> BY DEF syserr, err_stdin_out
<1>2. "read" \in Tried /\ 1 # Opened BY DEF Tried, Opened
<1>3. Try("read", 1, NoName) \in FailCalls BY <1>2, TryFails
<1> QED BY <1>1, <1>3

\* err_open_lots opens one file more than there are descriptors for, and closes them.
LEMMA LotsCalls ==
  /\ Len(syserr[3]) = 2 * MAX_FILE - 3
  /\ \A k \in 1 .. 2 * MAX_FILE - 3 :
       syserr[3][k] = IF k < MAX_FILE THEN Try("open", 0, ".")
                      ELSE Try("close", k - MAX_FILE + 2, NoName)
<1>m. MAX_FILE \in Nat /\ MAX_FILE >= 2 BY ConstantsAssumption
<1> DEFINE a == [n \in 1 .. MAX_FILE - 1 |-> Try("open", 0, ".")]
           b == OnFds("close", 2, MAX_FILE - 1)
<1>s. {"open", "close"} \subseteq Tried BY DEF Tried
<1>1. Try("open", 0, ".") \in TestCalls BY <1>s, TryIn
<1>2. a \in Seq(TestCalls) /\ Len(a) = MAX_FILE - 1 BY <1>m, <1>1
<1>n. MAX_FILE - 1 - 2 + 1 \in Nat /\ MAX_FILE - 1 \in Int BY <1>m
<1>3. b \in Seq(TestCalls) /\ Len(b) = MAX_FILE - 2
  <2>1. b \in Seq(TestCalls) /\ Len(b) = MAX_FILE - 1 - 2 + 1 BY <1>s, <1>n, OnFdsIn
  <2> QED BY <1>m, <2>1
<1>4. \A n \in 1 .. MAX_FILE - 1 : a[n] = Try("open", 0, ".") OBVIOUS
<1>5. \A n \in 1 .. MAX_FILE - 2 : b[n] = Try("close", 2 + n - 1, NoName)
  BY <1>m DEF OnFds
<1>6. syserr[3] = a \o b BY DEF syserr, err_open_lots
<1> HIDE DEF a, b
<1>7. /\ Len(a \o b) = Len(a) + Len(b)
      /\ \A i \in 1 .. Len(a) + Len(b) : (a \o b)[i] = IF i <= Len(a) THEN a[i] ELSE b[i - Len(a)]
  BY <1>2, <1>3, ConcatProperties
<1>8. ASSUME NEW k \in 1 .. 2 * MAX_FILE - 3
      PROVE  (a \o b)[k] = IF k < MAX_FILE THEN Try("open", 0, ".")
                           ELSE Try("close", k - MAX_FILE + 2, NoName)
  <2>1. CASE k < MAX_FILE
    <3>1. (a \o b)[k] = a[k] /\ k \in 1 .. MAX_FILE - 1 BY <1>m, <1>2, <1>3, <1>7, <2>1
    <3> QED BY <1>4, <2>1, <3>1
  <2>2. CASE ~(k < MAX_FILE)
    <3>1. PICK n \in 1 .. MAX_FILE - 2 : n = k - (MAX_FILE - 1) BY <1>m, <2>2
    <3>2. (a \o b)[k] = b[n] BY <1>m, <1>2, <1>3, <1>7, <2>2, <3>1
    <3>3. 2 + n - 1 = k - MAX_FILE + 2 BY <1>m, <3>1
    <3> QED BY <1>5, <2>2, <3>2, <3>3
  <2> QED BY <2>1, <2>2
<1> QED BY <1>m, <1>2, <1>3, <1>6, <1>7, <1>8

\* The names of a test are no buffers.
LEMMA NoBuffer == NoName # "(buf)" BY Zenon DEF NoName

\* Each of them returns -1.
LEMMA FailsFresh ==
  ASSUME NEW u, u.at = "test", NEW c \in FailCalls, NEW F, Fresh(F), Std(F),
         NEW N, NEW a, NEW v, NEW G, NEW M, Outcome(u, c, F, N, a, v, G, M)
  PROVE  v \in After(u, c, -1) /\ G = F
<1>0. c.fd \in Int /\ FdOf(u, c) = c.fd /\ NameFor(u, c) = c.name
  <2>1. c.fd \in Int /\ c.fd # Opened /\ c.name \in {"helloo", "shel", NoName, ".", "null", "kernel"}
    BY DEF FailCalls, TestCalls
  <2>2. c.name # "(buf)" BY <2>1, NoBuffer
  <2> QED BY <2>1, <2>2 DEF FdOf, NameFor
<1>1. ASSUME NEW fd \in Int
      PROVE  FlagIn(F, fd) = IF fd = 0 THEN "STDIN" ELSE IF fd = 1 THEN "STDOUT"
                             ELSE IF fd \in FDs THEN "NOT_SET" ELSE "bad"
  BY ConstantsAssumption DEF FlagIn, Fresh, Std, FDs
<1>2. FDs \ ({0, 1} \cup FreeIn(F)) = {}
  BY DEF FreeIn, Fresh, FDs
<1>h. \A n \in {1073741823, -1073741823, 0} : Handler(n) = "not_valid" BY DEF Handler
<1>k. /\ Is(c, "read") => c.fd # 0
      /\ Is(c, "write") => c.fd \notin {0, 1}
      /\ ~Is(c, "getargs")
      /\ ~(Is(c, "vidmap") /\ c.name = "user")
      /\ Is(c, "open") => c.name \notin DOMAIN Directory
  BY <1>h, Handlers DEF FailCalls, Is
<1>3. ASSUME Is(c, "read") PROVE FlagIn(F, FdOf(u, c)) \in {"STDOUT", "NOT_SET", "bad"}
  BY <1>0, <1>1, <1>3, <1>k
<1>4. ASSUME Is(c, "write") PROVE FlagIn(F, FdOf(u, c)) \in {"NOT_SET", "bad"}
  BY <1>0, <1>1, <1>4, <1>k
<1>7. ~Opens(u, c, F, N, v, G, M) BY <1>0, <1>k DEF Opens
<1>8. ~Closes(u, c, F, v, G) BY <1>2 DEF Closes
<1>9. Answer(u, c, F, N, a, v) /\ G = F BY <1>7, <1>8 DEF Outcome
<1>10. v \in After(u, c, -1) BY <1>3, <1>4, <1>k, <1>9 DEF Answer
<1> QED BY <1>9, <1>10

\* A test goes on after a call, with the count n, and fail is f if it ends.
LEMMA AfterTestIs ==
  ASSUME NEW u, Sane(u), u.at = "test", NEW c, NEW r, NEW v \in After(u, c, r),
         NEW n, n = Count(u, c, r), NEW f, f = Failed(u, n)
  PROVE  /\ DOMAIN v = DOMAIN u /\ v.prog = u.prog /\ v.echo = u.echo
         /\ \/ /\ u.k < Len(syserr[u.test]) /\ v.at = "test" /\ v.test = u.test
               /\ v.k = u.k + 1 /\ v.cnt = n /\ v.fail = u.fail
            \/ /\ u.k = Len(syserr[u.test]) /\ v.at = "test" /\ v.test = u.test + 1 /\ v.k = 1
               /\ v.cnt = 0 /\ v.fail = f /\ u.test # 8
            \/ u.k = Len(syserr[u.test]) /\ v.at = "exit" /\ v.fail = f /\ u.test = 8
<1>0. DOMAIN u = DOMAIN Begin("shell", NoName) BY DEF Sane
<1>1. v = AfterTest(u, c, r) BY DEF After
<1>2. PICK L \in Nat : L = Len(syserr[u.test]) /\ u.k \in 1 .. L
  <2>1. syserr[u.test] \in Seq(TestCalls) /\ u.k \in 1 .. Len(syserr[u.test])
    BY TestsIn DEF Sane
  <2> QED BY <2>1
<1>8. Len(syserr) = 8 BY DEF syserr
<1>3. CASE u.k < L
  <2>1. v = [u EXCEPT !.k = u.k + 1, !.cnt = n] BY <1>1, <1>2, <1>3 DEF AfterTest
  <2> QED BY <1>0, <1>2, <1>3, <2>1, Fields
<1>4. CASE ~(u.k < L) /\ u.test = Len(syserr)
  <2>1. v = [u EXCEPT !.at = "exit", !.fail = Failed(u, n), !.k = 1, !.cnt = 0]
    BY <1>1, <1>2, <1>4 DEF AfterTest
  <2>2. u.k = L BY <1>2, <1>4
  <2> QED BY <1>0, <1>2, <1>4, <1>8, <2>1, <2>2, Fields
<1>5. CASE ~(u.k < L) /\ u.test # Len(syserr)
  <2>1. v = [u EXCEPT !.test = u.test + 1, !.fail = Failed(u, n), !.k = 1, !.cnt = 0]
    BY <1>1, <1>2, <1>5 DEF AfterTest
  <2>2. u.k = L BY <1>2, <1>5
  <2> QED BY <1>0, <1>2, <1>5, <1>8, <2>1, <2>2, Fields
<1> QED BY <1>3, <1>4, <1>5

\* A test other than err_open_lots and err_stdin_out.
LEMMA FailTestGoes ==
  ASSUME NEW u, Sane(u), u.prog = "syserr", u.at = "test", u.test \in 1 .. 8 \ {3, 7},
         NEW F, SyserrOK(u, F), Std(F),
         NEW c \in FailCalls, NEW N, NEW a, NEW v, NEW G, NEW M, Outcome(u, c, F, N, a, v, G, M)
  PROVE  v.prog = u.prog /\ SyserrOK(v, G)
<1>1. u.fail = 2 * u.echo /\ u.cnt = 0 /\ Fresh(F) /\ u.echo \in {0, 1} /\ (u.test < 7 => u.echo = 0)
  BY DEF SyserrOK
<1>2. v \in After(u, c, -1) /\ G = F BY <1>1, FailsFresh
<1>3. Count(u, c, -1) = 0 BY <1>1 DEF Count
<1>4. Failed(u, 0) = u.fail BY <1>1 DEF Failed
<1>5. /\ v.prog = u.prog /\ v.fail = u.fail /\ v.echo = u.echo
      /\ \/ v.at = "test" /\ v.test = u.test /\ v.cnt = 0
         \/ v.at = "test" /\ v.test = u.test + 1 /\ v.k = 1 /\ v.cnt = 0 /\ u.test # 8
         \/ v.at = "exit"
  BY <1>1, <1>2, <1>3, <1>4, AfterTestIs
<1>6. ASSUME v.k = 1, v.cnt = 0 PROVE LotsOK(v, F)
  BY <1>1, <1>6, ConstantsAssumption DEF LotsOK, Fresh, FDs
<1>7. ASSUME v.at = "test"
      PROVE  /\ v.test # u.test => u.echo = 0
             /\ IF v.test = 3 THEN LotsOK(v, F) ELSE v.cnt = 0 /\ Fresh(F)
             /\ v.test < 7 => u.test < 7
             /\ v.test = 7 => u.test < 7
  BY <1>1, <1>5, <1>6, <1>7
<1>8. v.fail = IF v.at = "test" /\ v.test = 7 THEN 0 ELSE 2 * v.echo BY <1>1, <1>5, <1>7
<1> QED BY <1>1, <1>2, <1>5, <1>7, <1>8 DEF SyserrOK

\* err_stdin_out: its write may find characters, and then the test fails.
LEMMA StdinOutGoes ==
  ASSUME NEW u, Sane(u), u.prog = "syserr", u.at = "test", u.test = 7, NEW F, SyserrOK(u, F), Std(F),
         NEW c, c = syserr[7][u.k],
         NEW N, NEW a, NEW v, NEW G, NEW M, Outcome(u, c, F, N, a, v, G, M)
  PROVE  v.prog = u.prog /\ SyserrOK(v, G)
<1>0. DOMAIN u = DOMAIN Begin("shell", NoName) BY DEF Sane
<1>1. u.fail = 0 /\ u.cnt = u.echo /\ Fresh(F) /\ u.echo \in {0, 1} /\ (u.k = 1 => u.echo = 0)
  BY DEF SyserrOK
<1>2. u.k \in {1, 2}
  <2>1. u.k \in 1 .. Len(syserr[u.test]) BY DEF Sane
  <2> QED BY <2>1, StdinOutCalls
<1>3. CASE u.k = 1
  <2>1. c.sys = Sysnum.write /\ c.fd = 0 BY <1>3, StdinOutCalls, CallFields DEF Try
  <2>2. Is(c, "write") /\ Handler(c.sys) = "write" BY <2>1, Handlers DEF Is
  <2>3. FlagIn(F, FdOf(u, c)) = "STDIN"
    BY <2>1, ConstantsAssumption DEF FlagIn, FdOf, Opened, Std, FDs
  <2>4. Answer(u, c, F, N, a, v) /\ G = F BY <2>2 DEF Outcome, Opens, Closes, Is
  <2>5. \/ v \in After(u, c, -1)
        \/ \E w \in After(u, c, 1) : v = [w EXCEPT !.echo = 1]
    BY <2>2, <2>3, <2>4 DEF Answer, Is
  <2>6. ASSUME NEW r \in {-1, 1}, NEW w \in After(u, c, r)
        PROVE  /\ DOMAIN w = DOMAIN u /\ w.prog = u.prog /\ w.echo = 0 /\ w.fail = 0
               /\ w.at = "test" /\ w.test = 7 /\ w.k = 2 /\ w.cnt = IF r = -1 THEN 0 ELSE 1
    <3>1. Count(u, c, r) = IF r = -1 THEN 0 ELSE 1 BY <1>1, <1>3 DEF Count
    <3>2. PICK f : f = Failed(u, Count(u, c, r)) OBVIOUS
    <3> QED BY <1>1, <1>3, <2>6, <3>1, <3>2, StdinOutCalls, AfterTestIs
  <2>7. CASE v \in After(u, c, -1) BY <1>1, <2>4, <2>6, <2>7 DEF SyserrOK
  <2>8. ASSUME NEW w \in After(u, c, 1), v = [w EXCEPT !.echo = 1] PROVE v.prog = u.prog /\ SyserrOK(v, G)
    <3>1. /\ DOMAIN w = DOMAIN u /\ w.prog = u.prog /\ w.fail = 0
          /\ w.at = "test" /\ w.test = 7 /\ w.k = 2 /\ w.cnt = 1
      BY <2>6, <2>8
    <3>2. /\ v.prog = u.prog /\ v.fail = 0 /\ v.at = "test" /\ v.test = 7 /\ v.k = 2 /\ v.cnt = 1
          /\ v.echo = 1
      BY <1>0, <2>8, <3>1, Fields
    <3> QED BY <1>1, <2>4, <3>2 DEF SyserrOK
  <2> QED BY <2>5, <2>7, <2>8
<1>4. CASE u.k = 2
  <2>1. c \in FailCalls BY <1>4, StdinOutCalls
  <2>2. v \in After(u, c, -1) /\ G = F BY <1>1, <2>1, FailsFresh
  <2>3. PICK n : n = Count(u, c, -1) OBVIOUS
  <2>4. PICK f : f = Failed(u, n) OBVIOUS
  <2>6. n = u.echo BY <1>1, <2>3 DEF Count
  <2>7. f = 2 * u.echo BY <1>1, <2>4, <2>6 DEF Failed
  <2>8. Len(syserr[7]) = 2 BY StdinOutCalls
  <2>10. /\ v.prog = u.prog /\ v.echo = u.echo
         /\ \/ /\ u.k < Len(syserr[u.test]) /\ v.at = "test" /\ v.test = u.test
               /\ v.k = u.k + 1 /\ v.cnt = n /\ v.fail = u.fail
            \/ /\ u.k = Len(syserr[u.test]) /\ v.at = "test" /\ v.test = u.test + 1 /\ v.k = 1
               /\ v.cnt = 0 /\ v.fail = f /\ u.test # 8
            \/ u.k = Len(syserr[u.test]) /\ v.at = "exit" /\ v.fail = f /\ u.test = 8
    BY <2>2, <2>3, <2>4, AfterTestIs
  <2>9. /\ v.prog = u.prog /\ v.echo = u.echo /\ v.fail = f
        /\ v.at = "test" /\ v.test = u.test + 1 /\ v.k = 1 /\ v.cnt = 0
    BY <1>4, <2>8, <2>10
  <2>5. /\ v.prog = u.prog /\ v.fail = 2 * u.echo /\ v.echo = u.echo
        /\ v.at = "test" /\ v.test = 8 /\ v.k = 1 /\ v.cnt = 0
    BY <2>7, <2>9
  <2> QED BY <1>1, <2>2, <2>5 DEF SyserrOK
<1> QED BY <1>2, <1>3, <1>4

\* An open of err_open_lots: every one but the last finds the next descriptor.
LEMMA LotsOpens ==
  ASSUME MAX_FILE >= 3, NEW u, Sane(u), u.prog = "syserr", u.at = "test", u.test = 3,
         u.k < MAX_FILE, NEW F \in [FDs -> Flags], SyserrOK(u, F),
         NEW c, c = Try("open", 0, "."),
         NEW N, NEW a, NEW v, NEW G, NEW M, Outcome(u, c, F, N, a, v, G, M)
  PROVE  v.prog = u.prog /\ SyserrOK(v, G)
<1>m. MAX_FILE \in Nat BY ConstantsAssumption
<1>0. u.fail = 0 /\ u.echo = 0 /\ u.cnt = 0 /\ \A fd \in FDs : fd >= 2 => (F[fd] # "NOT_SET" <=> fd <= u.k)
  BY DEF SyserrOK, LotsOK
<1>1. c.sys = Sysnum.open /\ c.name = "." BY CallFields DEF Try
<1>2. /\ Is(c, "open") /\ ~Is(c, "close") /\ Handler(c.sys) = "open"
      /\ NameFor(u, c) = "." /\ "." \in DOMAIN Directory /\ Directory["."] = "DIR"
  BY <1>1, Handlers, NotThere, Entries DEF Is, NameFor
<1>k. PICK k \in Nat : k = u.k /\ k >= 1 BY LotsCalls, <1>m DEF Sane
<1>L. Len(syserr[3]) = 2 * MAX_FILE - 3 BY LotsCalls
<1>3. CASE Answer(u, c, F, N, a, v) /\ G = F
  <2>1. Refused(u, c, F) /\ v \in After(u, c, -1) BY <1>2, <1>3 DEF Answer, Is
  <2>2. FreeIn(F) = {} BY <1>2, <2>1 DEF Refused, Is
  <2>3. k = MAX_FILE - 1
    <3>1. ASSUME k + 1 \in FDs PROVE FALSE
      <4>1. F[k + 1] = "NOT_SET" BY <1>0, <1>k, <3>1
      <4> QED BY <1>k, <2>2, <3>1, <4>1 DEF FreeIn
    <3> QED BY <1>m, <1>k, <3>1 DEF FDs
  <2>4. Count(u, c, -1) = 1 BY <1>0, <1>1 DEF Count
  <2>5. Failed(u, 1) = 0 BY <1>0 DEF Failed
  <2>6. /\ v.prog = u.prog /\ v.fail = 0 /\ v.echo = 0
        /\ \/ v.at = "test" /\ v.test = 3 /\ v.k = u.k + 1 /\ v.cnt = 1
           \/ u.k = Len(syserr[3])
    BY <1>0, <2>1, <2>4, <2>5, AfterTestIs
  <2>7. u.k # Len(syserr[3]) BY <1>m, <1>k, <1>L, <2>3
  <2>8. ASSUME v.k = u.k + 1, v.cnt = 1 PROVE LotsOK(v, F)
    <3>0. PICK j : j = v.k OBVIOUS
    <3>1. j = MAX_FILE
      <4>1. j = k + 1 BY <1>k, <2>8, <3>0
      <4> QED BY <1>m, <2>3, <4>1
    <3>2. \A fd \in FDs : fd >= 2 => F[fd] # "NOT_SET" BY <1>m, <1>0, <1>k, <2>3 DEF FDs
    <3> QED BY <1>m, <2>8, <3>0, <3>1, <3>2 DEF LotsOK, FDs
  <2> QED BY <1>3, <2>6, <2>7, <2>8 DEF SyserrOK
<1>4. CASE Opens(u, c, F, N, v, G, M)
  <2>1. PICK fd \in FreeIn(F) :
           /\ \A f \in 2 .. fd - 1 : F[f] # "NOT_SET"
           /\ G = [F EXCEPT ![fd] = "DIR"]
           /\ v \in After(u, c, fd)
    BY <1>2, <1>4 DEF Opens
  <2>2. fd \in FDs /\ fd >= 2 /\ F[fd] = "NOT_SET" /\ fd \in Int BY DEF FreeIn, FDs
  <2>3. fd = k + 1
    <3>1. fd > k BY <1>0, <1>k, <2>2
    <3>2. ASSUME fd > k + 1 PROVE FALSE
      <4>1. k + 1 \in 2 .. fd - 1 /\ k + 1 \in FDs BY <1>m, <1>k, <2>2, <3>2 DEF FDs
      <4>2. F[k + 1] = "NOT_SET" BY <1>0, <1>k, <4>1
      <4> QED BY <2>1, <4>1, <4>2
    <3> QED BY <1>k, <2>2, <3>1, <3>2
  <2>4. Count(u, c, fd) = 0 BY <1>0, <2>2 DEF Count
  <2>5. k + 1 < MAX_FILE BY <1>m, <2>2, <2>3 DEF FDs
  <2>6. u.k < Len(syserr[3]) BY <1>m, <1>k, <1>L, <2>5
  <2>7. v = [u EXCEPT !.k = u.k + 1, !.cnt = 0] BY <2>1, <2>4, <2>6 DEF After, AfterTest
  <2>8. DOMAIN u = DOMAIN Begin("shell", NoName) BY DEF Sane
  <2>9. /\ v.prog = u.prog /\ v.fail = 0 /\ v.at = "test" /\ v.test = 3 /\ v.k = k + 1 /\ v.cnt = 0
        /\ v.echo = 0
    BY <1>0, <1>k, <2>7, <2>8, Fields
  <2>10. \A f \in FDs : f >= 2 => (G[f] # "NOT_SET" <=> f <= k + 1)
    <3> SUFFICES ASSUME NEW f \in FDs, f >= 2 PROVE G[f] # "NOT_SET" <=> f <= k + 1 OBVIOUS
    <3>1. CASE f = fd BY <2>1, <2>2, <2>3, <3>1
    <3>2. CASE f # fd
      <4>1. G[f] = F[f] BY <2>1, <3>2
      <4> QED BY <1>0, <1>k, <2>3, <3>2, <4>1 DEF FDs
    <3> QED BY <3>1, <3>2
  <2>11. LotsOK(v, G) BY <2>5, <2>9, <2>10 DEF LotsOK
  <2> QED BY <2>9, <2>11 DEF SyserrOK
<1>5. ~Closes(u, c, F, v, G) BY <1>2 DEF Closes
<1> QED BY <1>3, <1>4, <1>5 DEF Outcome

\* A close of err_open_lots gives back the next of the descriptors it opened.
LEMMA LotsCloses ==
  ASSUME MAX_FILE >= 3, NEW u, Sane(u), u.prog = "syserr", u.at = "test", u.test = 3,
         ~(u.k < MAX_FILE), NEW F \in [FDs -> Flags], SyserrOK(u, F),
         NEW c, c = Try("close", u.k - MAX_FILE + 2, NoName),
         NEW N, NEW a, NEW v, NEW G, NEW M, Outcome(u, c, F, N, a, v, G, M)
  PROVE  v.prog = u.prog /\ SyserrOK(v, G)
<1>m. MAX_FILE \in Nat BY ConstantsAssumption
<1>0. /\ u.fail = 0 /\ u.echo = 0 /\ u.cnt = 1
      /\ \A fd \in FDs : fd >= 2 => (F[fd] # "NOT_SET" <=> fd >= u.k - MAX_FILE + 2)
  BY DEF SyserrOK, LotsOK
<1>L. Len(syserr[3]) = 2 * MAX_FILE - 3 BY LotsCalls
<1>k. PICK k \in Nat : k = u.k /\ k >= MAX_FILE /\ k <= 2 * MAX_FILE - 3 BY <1>m, <1>L DEF Sane
<1>f. PICK f \in FDs : f = u.k - MAX_FILE + 2 /\ f >= 2 BY <1>m, <1>k DEF FDs
<1>1. c.sys = Sysnum.close /\ c.fd = f BY <1>f, CallFields DEF Try
<1>2. /\ Is(c, "close") /\ ~Is(c, "open") /\ Handler(c.sys) = "close" /\ FdOf(u, c) = f
  BY <1>1, <1>f, Handlers DEF Is, FdOf, Opened
<1>3. f \in FDs \ ({0, 1} \cup FreeIn(F))
  <2>1. F[f] # "NOT_SET" BY <1>0, <1>f DEF FDs
  <2> QED BY <1>f, <2>1 DEF FreeIn
<1>4. ~Opens(u, c, F, N, v, G, M) BY <1>2 DEF Opens
<1>5. ~Answer(u, c, F, N, a, v) BY <1>2, <1>3 DEF Answer, Refused, Is
<1>6. G = [F EXCEPT ![f] = "NOT_SET"] /\ v \in After(u, c, 0)
  BY <1>2, <1>4, <1>5 DEF Outcome, Closes
<1>7. Count(u, c, 0) = 1 BY <1>0 DEF Count
<1>8. Failed(u, 1) = 0 BY <1>0 DEF Failed
<1>9. /\ v.prog = u.prog /\ v.fail = 0 /\ v.echo = 0
      /\ \/ v.at = "test" /\ v.test = 3 /\ v.k = u.k + 1 /\ v.cnt = 1
         \/ u.k = Len(syserr[3]) /\ v.at = "test" /\ v.test = 4 /\ v.k = 1 /\ v.cnt = 0
  BY <1>0, <1>6, <1>7, <1>8, AfterTestIs
<1>10. \A fd \in FDs : fd >= 2 => (G[fd] # "NOT_SET" <=> fd >= f + 1)
  <2> SUFFICES ASSUME NEW fd \in FDs, fd >= 2 PROVE G[fd] # "NOT_SET" <=> fd >= f + 1 OBVIOUS
  <2>1. CASE fd = f BY <1>6, <2>1 DEF FDs
  <2>2. CASE fd # f
    <3>1. G[fd] = F[fd] BY <1>6, <2>2
    <3> QED BY <1>0, <1>f, <2>2, <3>1 DEF FDs
  <2> QED BY <2>1, <2>2
<1>11. ASSUME v.k = u.k + 1, v.cnt = 1 PROVE LotsOK(v, G)
  <2>1. v.k - MAX_FILE + 2 = f + 1 /\ ~(v.k < MAX_FILE) BY <1>m, <1>k, <1>f, <1>11
  <2> QED BY <1>10, <1>11, <2>1 DEF LotsOK
<1>12. ASSUME u.k = Len(syserr[3]) PROVE Fresh(G)
  <2>1. f = MAX_FILE - 1 BY <1>m, <1>L, <1>f, <1>k, <1>12
  <2> QED BY <1>m, <1>10, <2>1 DEF Fresh, FDs
<1> QED BY <1>9, <1>11, <1>12 DEF SyserrOK

\* syserr
LEMMA SyserrGoes ==
  ASSUME MAX_FILE >= 3, NEW u, Sane(u), u.prog = "syserr", NEW c \in Calls(u),
         NEW F \in [FDs -> Flags], Std(F), SyserrOK(u, F), NEW N, NEW a,
         NEW v, NEW G, NEW M, Outcome(u, c, F, N, a, v, G, M)
  PROVE  v.prog = "syserr" /\ SyserrOK(v, G)
<1>0. DOMAIN u = DOMAIN Begin("shell", NoName) BY DEF Sane
<1>1. Programs["syserr"] = syserr_main BY DEF Programs
<1>2. CASE u.at \in {"exit", "exit0"} BY <1>2, CallsEnd, NoOutcome
<1>3. CASE u.at \in {"start", "select"}
  <2>1. c \in syserr_main[u.at] /\ u.at # "test" BY <1>1, <1>3, CallsAt DEF Ends
  <2>2. \/ u.at = "start" /\ c \in Fdputs({"select"})
        \/ u.at = "select" /\ c \in Read(0, "exit2", {"test", "exit0"}, {"test", "exit0"})
    BY <1>3, <2>1 DEF syserr_main
  <2>3. \/ c.sys = Sysnum.write /\ c.fd = 1 /\ c.zero = {"select"} /\ c.some = {"select"}
        \/ /\ c.sys = Sysnum.read /\ c.fd = 0 /\ c.zero = {"test", "exit0"}
           /\ c.some = {"test", "exit0"}
    BY <2>2, FdputsIs, ReadIs
  <2>4. ~Refused(u, c, F) BY <2>3, StdWorks
  <2>5. G = F BY <2>3, OnlyAnswer
  <2>6. Went(u, c, F, v) BY <1>0, <2>1, <2>3, OutcomeGoes
  <2>7. v.at \in {"select", "test", "exit0"} BY <2>3, <2>4, <2>6 DEF Went
  <2>8. u.fail = 0 /\ u.echo = 0 /\ u.test = 1 /\ u.k = 1 /\ u.cnt = 0 /\ Fresh(F)
    BY <1>3 DEF SyserrOK
  <2>9. v.echo = u.echo
    <3>1. c.sys = Sysnum.write => FlagIn(F, FdOf(u, c)) = "STDOUT"
      BY <2>3, Numbers, ConstantsAssumption DEF FlagIn, FdOf, Opened, Std, FDs
    <3>2. c.sys # Sysnum.write => ~Is(c, "write") BY <2>3, Handlers DEF Is
    <3> QED BY <2>6, <3>1, <3>2 DEF Went
  <2> QED BY <2>5, <2>6, <2>7, <2>8, <2>9 DEF Went, SyserrOK
<1>4. CASE u.at = "test"
  <2>1. c = syserr[u.test][u.k]
    <3>1. "test" \notin DOMAIN Exit BY DEF Exit
    <3> QED BY <1>4, <3>1 DEF Calls
  <2>2. u.test \in 1 .. 8 /\ u.k \in 1 .. Len(syserr[u.test]) BY TestsIn DEF Sane
  <2>7. CASE u.test = 7 BY <1>4, <2>1, <2>7, StdinOutGoes
  <2>3. CASE u.test \notin {3, 7}
    <3>1. PICK s \in Seq(FailCalls) : s = syserr[u.test] BY <2>2, <2>3, TestsFail
    <3>2. c \in FailCalls BY <2>1, <2>2, <3>1
    <3> QED BY <1>4, <2>2, <2>3, <3>2, FailTestGoes
  <2>4. CASE u.test = 3
    <3>1. u.k \in 1 .. 2 * MAX_FILE - 3 BY <2>2, <2>4, LotsCalls
    <3>2. CASE u.k < MAX_FILE
      <4>1. c = Try("open", 0, ".") BY <2>1, <2>4, <3>1, <3>2, LotsCalls
      <4> QED BY <1>4, <2>4, <3>2, <4>1, LotsOpens
    <3>3. CASE ~(u.k < MAX_FILE)
      <4>1. c = Try("close", u.k - MAX_FILE + 2, NoName) BY <2>1, <2>4, <3>1, <3>3, LotsCalls
      <4> QED BY <1>4, <2>4, <3>3, <4>1, LotsCloses
    <3> QED BY <3>2, <3>3
  <2> QED BY <2>3, <2>4, <2>7
<1> QED BY <1>2, <1>3, <1>4 DEF SyserrOK

\* The programs.
LEMMA ProgramNames ==
  DOMAIN Programs = {"shell", "cat", "ls", "hello", "counter", "testprint", "sigtest",
                     "pingpong", "syserr", "other"}
  BY DEF Programs

\* Every program but the shell stays on its track.
LEMMA TrackGoes ==
  ASSUME MAX_FILE >= 3, NEW u, Sane(u), u.prog # "shell", NEW c \in Calls(u),
         NEW F \in [FDs -> Flags], Std(F), NEW N, DOMAIN N = FDs, NEW a, OnTrack(u, F, N, a),
         NEW v, NEW G, NEW M, Outcome(u, c, F, N, a, v, G, M)
  PROVE  OnTrack(v, G, M, a)
<1>0. u.prog \in DOMAIN Programs BY DEF Sane
<1>1. CASE u.prog = "cat"
  <2>1. v.prog = "cat" /\ CatOK(v, G, M, a) BY <1>1, CatGoes DEF OnTrack
  <2> QED BY <2>1 DEF OnTrack
<1>2. CASE u.prog = "ls"
  <2>1. v.prog = "ls" /\ LsOK(v, G, M) BY <1>2, LsGoes DEF OnTrack
  <2> QED BY <2>1 DEF OnTrack
<1>3. CASE u.prog = "syserr"
  <2>1. v.prog = "syserr" /\ SyserrOK(v, G) BY <1>3, SyserrGoes DEF OnTrack
  <2> QED BY <2>1 DEF OnTrack
<1>4. CASE u.prog \notin {"cat", "ls", "syserr"}
  <2>1. u.prog \in DOMAIN Reached \ {"shell"} BY <1>0, <1>4, ProgramNames DEF Reached
  <2>2. u.at \in Reached[u.prog] BY <1>4 DEF OnTrack
  <2>3. v.prog = u.prog /\ v.at \in Reached[u.prog] BY <2>1, <2>2, SimpleGoes
  <2> QED BY <1>4, <2>3 DEF OnTrack
<1> QED BY <1>1, <1>2, <1>3, <1>4

\* The calls of the shell.
LEMMA ShellCalls ==
  ASSUME NEW u, u.prog = "shell", u.at \in {"start", "read", "exec"}, NEW c \in Calls(u)
  PROVE  /\ c.sys \in {Sysnum.read, Sysnum.write, Sysnum.execute}
         /\ c.err \cup c.zero \cup c.some \subseteq Reached["shell"]
<1>1. Programs["shell"] = shell BY DEF Programs
<1>2. c \in shell[u.at] BY <1>1, CallsAt DEF Ends
<1>3. CASE u.at = "exec"
  <2>1. PICK d : c = [Call(Sysnum.execute, 0, d.prog, {"start"}, {"start"}, {"start"}) EXCEPT !.arg = d.arg]
    BY <1>2, <1>3 DEF shell, Execute_
  <2>2. c.sys = Sysnum.execute /\ c.err = {"start"} /\ c.zero = {"start"} /\ c.some = {"start"}
    BY <2>1 DEF Call
  <2> QED BY <2>2, ReachedAre
<1>4. CASE u.at \in {"start", "read"}
  <2>1. c \in Fdputs({"read"}) \/ c \in Read(0, "exit3", {"start", "exec"}, {"start", "exec"})
    BY <1>2, <1>4 DEF shell
  <2>2. \/ c.sys = Sysnum.write /\ c.err = {"read"} /\ c.zero = {"read"} /\ c.some = {"read"}
        \/ /\ c.sys = Sysnum.read /\ c.err = {"exit3"} /\ c.zero = {"start", "exec"}
           /\ c.some = {"start", "exec"}
    BY <2>1, FdputsIs, ReadIs
  <2> QED BY <2>2, ReachedAre
<1> QED BY <1>3, <1>4

\* The shell goes on whatever a call of it returned.
LEMMA ShellGoes ==
  ASSUME NEW u, Sane(u), u.prog = "shell", u.at \in Reached["shell"], NEW c \in Calls(u),
         ~Is(c, "halt"), NEW r, NEW v \in After(u, c, r)
  PROVE  v.prog = "shell" /\ v.at \in Reached["shell"]
<1>0. DOMAIN u = DOMAIN Begin("shell", NoName) BY DEF Sane
<1>1. u.at \in {"start", "read", "exec"}
  <2>1. CASE u.at \in {"exit0", "exit3"}
    <3>1. c.sys = Sysnum.halt BY <2>1, CallsEnd
    <3> QED BY <3>1, Handlers DEF Is
  <2> QED BY <2>1, ReachedAre
<1>2. CASE c.sys = Sysnum.execute
  <2>1. v = AfterExecute(u, r) BY <1>1, <1>2 DEF After
  <2>2. v = [u EXCEPT !.said = Message(r), !.at = "start"] BY <2>1 DEF AfterExecute
  <2>3. v.prog = "shell" /\ v.at = "start" BY <1>0, <2>2, Fields
  <2> QED BY <2>3, ReachedAre
<1>3. CASE c.sys # Sysnum.execute
  <2>1. v.at \in Place(c, r) /\ v.prog = u.prog BY <1>0, <1>1, <1>3, AfterFields
  <2>2. Place(c, r) \subseteq Reached["shell"] BY <1>1, ShellCalls DEF Place
  <2> QED BY <2>1, <2>2
<1> QED BY <1>2, <1>3

\* What calls cat, ls and syserr make where they have come to.
LEMMA TrackCalls ==
  ASSUME NEW u, Sane(u), NEW F, NEW N, NEW a, OnTrack(u, F, N, a),
         u.prog \in {"cat", "ls", "syserr"}, NEW c \in Calls(u),
         u.at \notin {"exit0", "exit2", "exit3", "exit", "fault"}
  PROVE  Handler(c.sys) \notin {"halt", "execute"}
<1>1. CASE u.prog = "cat"
  <2>1. u.at \in {"start", "open", "none", "read", "write"} BY <1>1 DEF OnTrack, CatOK
  <2>2. c \in cat[u.at]
    <3>1. Programs["cat"] = cat BY DEF Programs
    <3> QED BY <1>1, <2>1, <3>1, CallsAt DEF Ends
  <2>3. c.sys \in {Sysnum.getargs, Sysnum.open, Sysnum.write, Sysnum.read}
    BY <2>1, <2>2 DEF cat, Fdputs, Read, Call
  <2> QED BY <2>3, Handlers
<1>2. CASE u.prog = "ls"
  <2>1. u.at \in {"start", "read", "write"} BY <1>2 DEF OnTrack, LsOK
  <2>2. c \in ls[u.at]
    <3>1. Programs["ls"] = ls BY DEF Programs
    <3> QED BY <1>2, <2>1, <3>1, CallsAt DEF Ends
  <2>3. c.sys \in {Sysnum.open, Sysnum.write, Sysnum.read}
    BY <2>1, <2>2 DEF ls, Fdputs, Read, Call
  <2> QED BY <2>3, Handlers
<1>3. CASE u.prog = "syserr" /\ u.at # "test"
  <2>1. u.at \in {"start", "select"} BY <1>3 DEF OnTrack, SyserrOK
  <2>2. c \in syserr_main[u.at]
    <3>1. Programs["syserr"] = syserr_main BY DEF Programs
    <3> QED BY <1>3, <2>1, <3>1, CallsAt DEF Ends
  <2>3. c.sys \in {Sysnum.write, Sysnum.read} BY <2>1, <2>2 DEF syserr_main, Fdputs, Read, Call
  <2> QED BY <2>3, Handlers
<1>4. CASE u.at = "test"
  <2>1. c = syserr[u.test][u.k]
    <3>1. "test" \notin DOMAIN Exit BY DEF Exit
    <3> QED BY <1>4, <3>1 DEF Calls
  <2>2. u.test \in 1 .. 8 /\ u.k \in 1 .. Len(syserr[u.test]) BY TestsIn DEF Sane
  <2>7. CASE u.test = 7
    <3>1. u.k \in {1, 2} BY <2>2, <2>7, StdinOutCalls
    <3>2. c = Try("write", 0, NoName) \/ c = Try("read", 1, NoName)
      BY <2>1, <2>7, <3>1, StdinOutCalls
    <3>3. c.sys \in {Sysnum.write, Sysnum.read} BY <3>2, CallFields DEF Try
    <3> QED BY <3>3, Handlers
  <2>3. CASE u.test \notin {3, 7}
    <3>1. PICK s \in Seq(FailCalls) : s = syserr[u.test] BY <2>2, <2>3, TestsFail
    <3>2. c \in FailCalls BY <2>1, <2>2, <3>1
    <3>3. \A n \in {1073741823, -1073741823, 0} : Handler(n) = "not_valid" BY DEF Handler
    <3> QED BY <3>2, <3>3, Handlers DEF FailCalls
  <2>4. CASE u.test = 3
    <3>1. u.k \in 1 .. 2 * MAX_FILE - 3 BY <2>2, <2>4, LotsCalls
    <3>2. c = Try("open", 0, ".") \/ c = Try("close", u.k - MAX_FILE + 2, NoName)
      BY <2>1, <2>4, <3>1, LotsCalls
    <3>3. c.sys \in {Sysnum.open, Sysnum.close} BY <3>2, CallFields DEF Try
    <3> QED BY <3>3, Handlers
  <2> QED BY <2>3, <2>4, <2>7
<1> QED BY <1>1, <1>2, <1>3, <1>4

\* Only the shell calls execute, and a program that calls halt has come to its end.
LEMMA EndsWell ==
  ASSUME NEW u, Sane(u), NEW F, NEW N, NEW a, OnTrack(u, F, N, a), NEW c \in Calls(u)
  PROVE  /\ Is(c, "execute") => u.prog = "shell"
         /\ Is(c, "halt") => c.fd \in Expected(u)
<1>0. u.prog \in DOMAIN Programs BY DEF Sane
<1>1. CASE u.at \in {"exit0", "exit2", "exit3", "exit", "fault"}
  <2>1. /\ u.at # "fault" /\ c.sys = Sysnum.halt
        /\ c.fd = IF u.at = "exit0" THEN 0 ELSE IF u.at = "exit2" THEN 2
                   ELSE IF u.at = "exit3" THEN 3 ELSE u.fail
    BY <1>1, CallsEnd
  <2>2. ~Is(c, "execute") BY <2>1, Handlers DEF Is
  <2>3. CASE u.prog = "cat"
    <3>1. \/ u.at = "exit0" /\ c.fd = 0 /\ u.arg \in DOMAIN Directory
          \/ u.at = "exit2" /\ c.fd = 2 /\ u.arg \notin DOMAIN Directory
      BY <1>1, <2>1, <2>3 DEF OnTrack, CatOK
    <3> QED BY <2>2, <2>3, <3>1 DEF Expected
  <2>4. CASE u.prog = "ls"
    <3>1. c.fd = 0 BY <1>1, <2>1, <2>4 DEF OnTrack, LsOK
    <3> QED BY <2>2, <2>4, <3>1 DEF Expected
  <2>5. CASE u.prog = "syserr"
    <3>1. c.fd = 2 * u.echo /\ u.echo \in {0, 1} BY <1>1, <2>1, <2>5 DEF OnTrack, SyserrOK
    <3> QED BY <2>2, <2>5, <3>1 DEF Expected
  <2>6. CASE u.prog \in {"shell", "hello", "counter", "testprint", "sigtest", "pingpong", "other"}
    <3>1. u.at \in Reached[u.prog] BY <2>6 DEF OnTrack
    <3>2. u.prog \notin {"sigtest", "pingpong", "other"} BY <1>1, <2>1, <3>1, ReachedAre
    <3>3. CASE u.prog = "shell"
      <4>1. c.fd \in {0, 3} BY <1>1, <2>1, <3>1, <3>3, ReachedAre
      <4> QED BY <2>2, <3>3, <4>1 DEF Expected
    <3>4. CASE u.prog \in {"hello", "counter", "testprint"}
      <4>1. c.fd = 0 BY <1>1, <2>1, <3>1, <3>4, ReachedAre
      <4> QED BY <2>2, <3>4, <4>1 DEF Expected
    <3> QED BY <2>6, <3>2, <3>3, <3>4
  <2> QED BY <1>0, <2>3, <2>4, <2>5, <2>6, ProgramNames
<1>2. CASE u.at \notin {"exit0", "exit2", "exit3", "exit", "fault"}
  <2>1. CASE u.prog \in {"cat", "ls", "syserr"} BY <1>2, <2>1, TrackCalls DEF Is
  <2>2. CASE u.prog = "shell"
    <3>1. u.at \in {"start", "read", "exec"} BY <1>2, <2>2, ReachedAre DEF OnTrack
    <3>2. c.sys # Sysnum.halt /\ c.sys \in {Sysnum.read, Sysnum.write, Sysnum.execute}
      BY <2>2, <3>1, ShellCalls, Numbers
    <3> QED BY <2>2, <3>2, Handlers DEF Is
  <2>3. CASE u.prog \in {"hello", "counter", "testprint"}
    <3>1. u.at \in Reached[u.prog] BY <2>3 DEF OnTrack
    <3>2. u.at \notin Ends BY <1>2, <2>3, <3>1, ReachedAre DEF Ends
    <3>3. c \in Programs[u.prog][u.at] BY <3>2, CallsAt
    <3>4. c.sys \in {Sysnum.read, Sysnum.write}
      <4>1. CASE u.prog = "hello"
        <5>1. u.at \in {"start", "read", "greet"} BY <1>2, <3>1, <4>1, ReachedAre
        <5> QED BY <3>3, <4>1, <5>1 DEF Programs, hello, Fdputs, Read, Call
      <4>2. CASE u.prog = "counter"
        <5>1. u.at \in {"start", "read", "wrong", "count"} BY <1>2, <3>1, <4>2, ReachedAre
        <5> QED BY <3>3, <4>2, <5>1 DEF Programs, counter, Fdputs, Read, Call
      <4>3. CASE u.prog = "testprint"
        <5>1. u.at = "start" BY <1>2, <3>1, <4>3, ReachedAre
        <5> QED BY <3>3, <4>3, <5>1 DEF Programs, testprint, Fdputs, Read, Call
      <4> QED BY <2>3, <4>1, <4>2, <4>3
    <3> QED BY <3>4, Handlers DEF Is
  <2>4. CASE u.prog = "sigtest"
    <3>1. u.at \in {"start", "install", "alarm", "ask", "read"} BY <1>2, <2>4, ReachedAre DEF OnTrack
    <3>2. c \in sigtest[u.at] BY <2>4, <3>1, CallsAt DEF Ends, Programs
    <3>3. c.sys \in {Sysnum.getargs, Sysnum.set_handler, Sysnum.read, Sysnum.write}
      BY <3>1, <3>2 DEF sigtest, Fdputs, Read, Call
    <3> QED BY <3>3, Handlers DEF Is
  <2>5. CASE u.prog = "pingpong"
    <3>1. u.at \in {"start", "rate", "draw", "wait"} BY <2>5, ReachedAre DEF OnTrack
    <3>2. c \in pingpong[u.at] BY <2>5, <3>1, CallsAt DEF Ends, Programs
    <3>3. c.sys \in {Sysnum.open, Sysnum.read, Sysnum.write}
      BY <3>1, <3>2 DEF pingpong, Fdputs, Read, Call
    <3> QED BY <3>3, Handlers DEF Is
  <2>6. CASE u.prog = "other"
    <3>1. u.at = "start" BY <2>6, ReachedAre DEF OnTrack
    <3>2. c \in other BY <2>6, <3>1, CallsAt DEF Ends, Programs
    <3>3. \/ c.sys = Sysnum.halt /\ c.fd \in {255, 256}
          \/ c.sys \in {Sysnum.open, Sysnum.close, Sysnum.vidmap}
      BY <3>2 DEF other, Call
    <3>4. Expected(u) = {255, 256} BY <2>6 DEF Expected
    <3> QED BY <3>3, <3>4, Handlers DEF Is
  <2> QED BY <1>0, <2>1, <2>2, <2>3, <2>4, <2>5, <2>6, ProgramNames
<1> QED BY <1>1, <1>2

\* The instances that wait in a system call, interrupted or not.
Waiting ==
  {i \in Insts : \/ cpu.pc = "syscall" /\ cpu.inst = i
                 \/ \E p \in Procs : /\ kstack[p].inst = i /\ kstack[p].pc = "syscall"
                                     /\ kstack[p].via \in {"tick", "key"}}

\* A program in user mode is not among them.
LEMMA NotWaiting ==
  ASSUME SlotsInv, ImagesDiffer, cpu.pc = "user" PROVE cpu.inst \notin Waiting
<1>1. TypeOK /\ Together /\ RunInv BY DEF SlotsInv, AtBoot, Together
<1>2. kstack[IrqStack].via = "free" BY <1>1 DEF RunInv, Free
<1>3. ASSUME NEW p \in Procs, p # IrqStack, kstack[p].via # "free" PROVE kstack[p].inst # cpu.inst
  BY <1>1, <1>3, FrameOwner
<1> QED BY <1>2, <1>3 DEF Waiting

\* Only Syscall makes a program wait, and its return ends that; it is no step of Tick.
LEMMA WaitStep ==
  ASSUME Calm, SlotsInv, SlotsInv', ImagesDiffer, [Next]_vars
  PROVE  /\ \A i \in Waiting' : i \in Waiting \/ (Syscall /\ i = cpu.inst)
         /\ SyscallReturn => cpu.inst \notin Waiting'
         /\ Tick => ~Syscall
<1> USE DEF procVars, termVars, memVars, history
<1>t. kstack \in [Procs -> Frames] /\ esp_switch' \in [Procs -> Pointers]
      /\ current_process \in [Terms -> Slots]
  BY DEF SlotsInv, TypeOK
<1>w. ASSUME NEW i \in Insts, cpu.pc = "syscall", cpu.inst = i PROVE i \in Waiting
  BY <1>w DEF Waiting
<1> DEFINE Held(f) == f.via \in {"tick", "key"} /\ f.pc = "syscall" /\ f.inst \in Insts
                        => f.inst \in Waiting
<1>h. \A p \in Procs : Held(kstack[p]) BY DEF Waiting
<1>i. Held(IrqFrame("tick")) /\ Held(IrqFrame("key")) BY <1>w DEF IrqFrame
<1>f. Held(Free) /\ \A i : Held(SyscallFrame(i)) BY DEF Free, SyscallFrame
<1> HIDE DEF Held
<1>a. ASSUME cpu'.pc = "syscall" /\ cpu'.inst \in Insts
               => cpu'.inst \in Waiting \/ (Syscall /\ cpu'.inst = cpu.inst),
             \A p \in Procs : Held(kstack'[p])
      PROVE  \A i \in Waiting' : i \in Waiting \/ (Syscall /\ i = cpu.inst)
  BY <1>a DEF Waiting, Held
<1>b. ASSUME NEW x, NEW f, Held(f), kstack' = [kstack EXCEPT ![x] = f]
      PROVE  \A p \in Procs : Held(kstack'[p])
  BY <1>b, <1>h, <1>t
<1>k. Tick => ~Syscall
  <2> SUFFICES ASSUME Tick, Syscall PROVE FALSE OBVIOUS
  <2>1. /\ cpu.pc = "user" /\ esp0 = IrqStack /\ esp0 \in Procs /\ cpu'.pc = "syscall"
        /\ kstack' = [kstack EXCEPT ![esp0] = SyscallFrame(cpu.inst)]
    BY DEF Syscall, IrqStack, CpuIn, SlotsInv, TypeOK
  <2>2. kstack'[IrqStack].via = "syscall" BY <1>t, <2>1 DEF SyscallFrame
  <2>3. PICK ptr, ks : ks = [kstack EXCEPT ![IrqStack] = IrqFrame("tick")] /\ Resume(ptr, ks)
    <3>1. \E t \in Terms : Resume(esp_switch'[current_process[t]],
                                  [kstack EXCEPT ![IrqStack] = IrqFrame("tick")])
      BY <2>1 DEF Tick, Wild, CpuIn
    <3> QED BY <3>1
  <2>4. PICK g : /\ kstack' = [ks EXCEPT ![ptr.stack] = g]
                 /\ ks[ptr.stack].user => g = Free
    <3>1. kstack' = [ks EXCEPT ![ptr.stack] =
                       IF ks[ptr.stack].user THEN Free ELSE SyscallFrame(ks[ptr.stack].inst)]
      BY <2>1, <2>3 DEF Resume, Wild, CpuIn
    <3> QED BY <3>1
  <2>5. ks[IrqStack] = IrqFrame("tick") /\ IrqStack \in DOMAIN ks BY <1>t, <2>1, <2>3
  <2>6. IrqFrame("tick").via = "tick" /\ IrqFrame("tick").user BY <2>1 DEF IrqFrame
  <2>7. kstack'[IrqStack] = IrqFrame("tick") \/ kstack'[IrqStack] = Free BY <2>4, <2>5, <2>6
  <2> QED BY <2>2, <2>6, <2>7 DEF Free
<1>r. SyscallReturn => cpu.inst \notin Waiting'
  <2> SUFFICES ASSUME SyscallReturn PROVE cpu.inst \notin Waiting' OBVIOUS
  <2>1. TypeOK /\ Together /\ RunInv /\ cpu.pc = "syscall" /\ cpu.stack = IrqStack
        /\ IrqStack \in Procs
    BY DEF SlotsInv, AtBoot, Together, SyscallReturn, IrqStack, RunInv
  <2>2. cpu'.pc # "syscall" /\ \A p \in Procs : p # IrqStack => kstack'[p] = kstack[p]
    BY <1>t, <2>1 DEF SyscallReturn, ReturnThrough, InUser, Wild, CpuIn
  <2>3. kstack'[IrqStack].via \notin {"tick", "key"}
    BY <1>t, <2>1 DEF SyscallReturn, ReturnThrough, Free, RunInv, SyscallFrame
  <2>4. \A p \in Procs : p # IrqStack /\ kstack[p].via # "free" => kstack[p].inst # cpu.inst
    BY <2>1, FrameOwner
  <2> QED BY <2>2, <2>3, <2>4 DEF Waiting
<1>1. CASE \/ CallReturns \/ ExecuteFull \/ Open \/ OpenStd \/ Close \/ Vidmap \/ ExecuteMissing
           \/ ExecuteNoexec
  <2>1. cpu' = cpu /\ cpu.pc = "user" /\ kstack' = [kstack EXCEPT ![esp0] = Free]
    BY <1>1 DEF CallReturns, ExecuteFull, Open, OpenStd, Close, Vidmap, ExecuteMissing,
       ExecuteNoexec, BackInUser
  <2> QED BY <1>a, <1>b, <1>f, <1>k, <1>r, <2>1
<1>2. CASE Halt \/ Exception \/ Syscall
  <2>1. /\ Syscall \/ cpu'.pc # "syscall"
        /\ cpu'.inst = cpu.inst
        /\ kstack' = [kstack EXCEPT ![esp0] = SyscallFrame(cpu.inst)]
    BY <1>2 DEF Halt, Exception, Syscall, CpuIn
  <2>2. \A p \in Procs : Held(kstack'[p]) BY <1>b, <1>f, <2>1
  <2> QED BY <1>a, <1>k, <1>r, <2>1, <2>2
<1>3. CASE Execute
  <2>1. cpu' = InUser(execs') BY <1>3 DEF Execute, Launch
  <2>2. kstack' = [kstack EXCEPT ![esp0] = SyscallFrame(cpu.inst)] BY <1>3 DEF Execute
  <2>3. \A p \in Procs : Held(kstack'[p]) BY <1>b, <1>f, <2>2
  <2> QED BY <1>a, <1>k, <1>r, <2>1, <2>3 DEF InUser, CpuIn
<1>4. CASE \/ ExceptionHalt \/ HaltPcb \/ HaltInactive \/ HaltPpid \/ HaltEsp0 \/ HaltCurr
           \/ HaltTerm \/ HaltMap \/ HaltClose \/ TickSpin \/ \E t \in Terms : SwitchWild(t)
  <2>1. kstack' = kstack /\ cpu'.pc # "syscall"
    BY <1>4 DEF ExceptionHalt, HaltPcb, HaltInactive, HaltPpid, HaltEsp0, HaltCurr, SlotsInv,
        TypeOK, CPUs,
       HaltTerm, HaltMap, HaltClose, Wild, Spin, CpuIn, TickSpin, SwitchWild
  <2> QED BY <1>a, <1>h, <1>k, <1>r, <2>1
<1>5. CASE HaltExecute \/ HaltReturn \/ SyscallReturn
  <2>1. cpu'.pc # "syscall"
    BY <1>5 DEF HaltExecute, HaltReturn, SyscallReturn, ReturnThrough, Launch, Wild, InUser, CpuIn
  <2>2. \A p \in Procs : kstack'[p] = kstack[p] \/ kstack'[p] = Free
    BY <1>5, <1>t DEF HaltExecute, HaltReturn, SyscallReturn, ReturnThrough
  <2> QED BY <1>a, <1>f, <1>h, <1>k, <1>r, <2>1, <2>2
<1>6. CASE Boot
  <2>1. cpu' = InUser(execs') /\ kstack' = kstack BY <1>6 DEF Boot, Launch
  <2> QED BY <1>a, <1>h, <1>k, <1>r, <2>1 DEF InUser, CpuIn
<1>7. CASE Tick
  <2>w. cpu'.pc \notin {"wild", "spin"}
    BY DEF SlotsInv, AtBoot, Together, RunInv, HaltPCs
  <2>1. PICK ptr, ks : /\ ks = [kstack EXCEPT ![IrqStack] = IrqFrame("tick")]
                       /\ ptr.stack \in Slots /\ Resume(ptr, ks)
    <3>1. PICK t \in Terms : /\ current_process[t] # None
                             /\ Resume(esp_switch'[current_process[t]],
                                       [kstack EXCEPT ![IrqStack] = IrqFrame("tick")])
      BY <1>7, <2>w DEF Tick, Wild, CpuIn
    <3>2. current_process[t] \in Procs BY <1>t, <3>1 DEF Slots
    <3>3. esp_switch'[current_process[t]].stack \in Slots BY <1>t, <3>2 DEF Pointers
    <3> QED BY <3>1, <3>3
  <2>2. /\ ptr.stack \in Procs /\ ks[ptr.stack].via \in {"tick", "key"}
        /\ cpu'.inst = ks[ptr.stack].inst /\ cpu'.pc = ks[ptr.stack].pc
        /\ kstack' = [ks EXCEPT ![ptr.stack] =
                        IF ks[ptr.stack].user THEN Free ELSE SyscallFrame(ks[ptr.stack].inst)]
    BY <2>w, <2>1 DEF Resume, Wild, CpuIn, Slots
  <2>3. \A p \in Procs : Held(ks[p]) BY <1>h, <1>i, <1>t, <2>1
  <2>4. cpu'.pc = "syscall" /\ cpu'.inst \in Insts => cpu'.inst \in Waiting BY <2>2, <2>3 DEF Held
  <2>5. \A p \in Procs : Held(kstack'[p])
    <3>1. ks \in [Procs -> {ks[q] : q \in Procs}] BY <1>t, <2>1
    <3>2. \A p \in Procs : kstack'[p] = ks[p] \/ kstack'[p] = Free
                           \/ kstack'[p] = SyscallFrame(ks[ptr.stack].inst)
      BY <2>2, <3>1
    <3> QED BY <1>f, <2>3, <3>2
  <2> QED BY <1>a, <1>k, <1>r, <2>4, <2>5
<1>8. ASSUME NEW t \in Terms, SwitchActive(t)
      PROVE  \A i \in Waiting' : i \in Waiting \/ (Syscall /\ i = cpu.inst)
  <2>1. cpu' = cpu /\ \A p \in Procs : kstack'[p] = kstack[p] \/ kstack'[p] = Free
    BY <1>8, <1>t DEF SwitchActive
  <2>2. \A p \in Procs : Held(kstack'[p]) BY <1>f, <1>h, <2>1
  <2> QED BY <1>a, <1>w, <2>1, <2>2
<1>9. ASSUME NEW t \in Terms, SwitchFresh(t)
      PROVE  \A i \in Waiting' : i \in Waiting \/ (Syscall /\ i = cpu.inst)
  <2>1. kstack' = [kstack EXCEPT ![IrqStack] = IrqFrame("key")] /\ cpu' = InUser(execs')
    BY <1>9 DEF Calm, SwitchFresh, Launch
  <2>2. \A p \in Procs : Held(kstack'[p]) BY <1>b, <1>i, <2>1
  <2> QED BY <1>a, <2>1, <2>2 DEF InUser, CpuIn
<1>10. CASE UNCHANGED vars
  <2>1. cpu' = cpu /\ kstack' = kstack BY <1>10 DEF vars
  <2> QED BY <1>a, <1>h, <1>k, <1>r, <1>w, <2>1
<1> QED BY <1>1, <1>2, <1>3, <1>4, <1>5, <1>6, <1>7, <1>8, <1>9, <1>10, <1>k, <1>r
    DEF Next, UserStep, HaltStep

\* The fields of descriptors are of their types.
FilesOK ==
  /\ position \in [Procs -> [FDs -> {0, 1}]] /\ file_name \in [Procs -> [FDs -> Names]]
  /\ DOMAIN args = Procs

\* A program with a parent was executed by a shell.
ParentsInv ==
  \A i \in Insts : parent[i] # 0 => parent[i] \in 1 .. execs /\ user[parent[i]].prog = "shell"

\* read and write of a program other than the shell use its own descriptors: current_pcb is
\* stale only after halt has returned to a shell, until the next tick or execute.
PcbInv ==
  cpu.pc \in {"user", "syscall"} /\ Running.prog # "shell" => current_pcb = curr_process

\* A process has its standard streams.
Streams == \A p \in Procs : image[p] # 0 => Std(fds[p])

\* Every program that goes on is on its track, with the descriptors of its slot.
Tracks ==
  \A p \in Procs : image[p] \in Going =>
     OnTrack(user[image[p]], fds[p], file_name[p], args[p])

\* No test of syserr waits.
WaitInv == \A i \in Waiting : user[i].at # "test"

\* The inductive invariant, together with SysInv.
TrackInv == FilesOK /\ ParentsInv /\ PcbInv /\ Streams /\ Tracks /\ WaitInv /\ ProgramsSucceed

\* A program keeps its name.
LEMMA AfterProg ==
  ASSUME NEW u, DOMAIN u = DOMAIN Begin("shell", NoName), NEW c, NEW r, NEW v \in After(u, c, r)
  PROVE  v.prog = u.prog
<1>1. CASE u.at = "test"
  <2>1. v = AfterTest(u, c, r) BY <1>1 DEF After
  <2> QED BY <2>1, Fields DEF AfterTest
<1>2. CASE u.at # "test" /\ c.sys = Sysnum.execute BY <1>2, Fields DEF After, AfterExecute
<1>3. CASE u.at # "test" /\ c.sys # Sysnum.execute BY <1>3, AfterFields
<1> QED BY <1>1, <1>2, <1>3

\* The slot of the program that runs or waits.
LEMMA OwnSlot ==
  ASSUME SysInv, cpu.pc \in {"user", "syscall"}
  PROVE  /\ curr_process \in Procs /\ image[curr_process] = cpu.inst /\ esp0 = curr_process
         /\ cpu.inst \in Going /\ cpu.inst \in Insts /\ Sane(Running) /\ GoesOn(Running)
         /\ fds \in [Procs -> [FDs -> Flags]] /\ cpu.inst # 0 /\ cpu.inst \in 1 .. execs
<1>1. SlotsInv /\ UserInv BY DEF SysInv
<1>2. curr_process = IrqStack /\ IrqStack \in Procs /\ cpu.inst = image[IrqStack] /\ TypeOK
      /\ esp0 = IrqStack
      /\ ChainInv /\ Live(IrqStack)
  BY <1>1, QuietSlots DEF Quiet, Live
<1>3. cpu.inst \in Going /\ cpu.inst \in Insts BY <1>1, RunningGoes DEF Going
<1>4. Sane(Running) /\ GoesOn(Running) BY <1>1, <1>3 DEF UserInv, Running
<1>5. cpu.inst \in 1 .. execs /\ execs \in Nat BY <1>2 DEF ChainInv, TypeOK
<1> QED BY <1>2, <1>3, <1>4, <1>5 DEF TypeOK

\* The program that runs stays on its track by an outcome of its call.
LEMMA Proceeds ==
  ASSUME MAX_FILE >= 3, SysInv, TrackInv, cpu.pc \in {"user", "syscall"},
         NEW c \in Calls(Running), ~Is(c, "halt"),
         NEW r, NEW w \in After(Running, c, r), NEW v, v.prog = w.prog, v.at = w.at, NEW G, NEW M,
         Running.prog # "shell" =>
           Outcome(Running, c, fds[curr_process], file_name[curr_process], args[curr_process], v,
               G, M)
  PROVE  v.prog = Running.prog /\ OnTrack(v, G, M, args[curr_process])
<1> DEFINE p == curr_process
<1>1. p \in Procs /\ image[p] = cpu.inst /\ cpu.inst \in Going /\ Sane(Running)
      /\ fds \in [Procs -> [FDs -> Flags]] /\ image[p] # 0
  BY OwnSlot
<1>2. v.prog = Running.prog BY <1>1, AfterProg DEF Sane
<1>3. OnTrack(Running, fds[p], file_name[p], args[p]) BY <1>1 DEF TrackInv, Tracks, Running
<1>4. CASE Running.prog = "shell"
  <2>1. Running.at \in Reached["shell"] BY <1>3, <1>4 DEF OnTrack
  <2>2. v.prog = "shell" /\ v.at \in Reached["shell"] BY <1>1, <1>4, <2>1, ShellGoes
  <2> QED BY <1>2, <2>2 DEF OnTrack
<1>5. CASE Running.prog # "shell"
  <2>1. PICK u, F, N, a : u = Running /\ F = fds[p] /\ N = file_name[p] /\ a = args[p] OBVIOUS
  <2>2. F \in [FDs -> Flags] /\ Std(F) /\ DOMAIN N = FDs
    BY <1>1, <2>1 DEF TrackInv, Streams, FilesOK
  <2>3. OnTrack(v, G, M, a) BY <1>1, <1>3, <1>5, <2>1, <2>2, TrackGoes
  <2> QED BY <1>2, <2>1, <2>3
<1> QED BY <1>4, <1>5

\* A program started with its argument is on its track.
LEMMA BeginTrack ==
  ASSUME MAX_FILE >= 3, NEW p \in DOMAIN Programs, NEW N, NEW a
  PROVE  OnTrack(Begin(p, a), InitFDs, N, a) /\ Std(InitFDs)
<1>1. MAX_FILE \in Nat BY ConstantsAssumption
<1>2. Std(InitFDs) BY <1>1 DEF Std, InitFDs, FDs
<1>3. Fresh(InitFDs) BY <1>1 DEF Fresh, InitFDs, FDs
<1>4. PICK u : u = Begin(p, a) OBVIOUS
<1>5. u.prog = p /\ u.at = "start" /\ u.arg = a /\ u.test = 1 /\ u.k = 1 /\ u.cnt = 0 /\ u.fail = 0
      /\ u.seen = {} /\ u.echo = 0
  BY <1>4 DEF Begin
<1>6. OnTrack(u, InitFDs, N, a)
  <2>1. CASE p = "cat" BY <1>3, <1>5, <2>1 DEF OnTrack, CatOK
  <2>2. CASE p = "ls" BY <1>3, <1>5, <2>2 DEF OnTrack, LsOK
  <2>3. CASE p = "syserr" BY <1>3, <1>5, <2>3 DEF OnTrack, SyserrOK
  <2>4. CASE p \notin {"cat", "ls", "syserr"}
    <3>1. u.at \in Reached[p] BY <1>5, <2>4, ProgramNames, ReachedAre
    <3> QED BY <1>5, <2>4, <3>1 DEF OnTrack
  <2> QED BY <2>1, <2>2, <2>3, <2>4
<1> QED BY <1>2, <1>4, <1>6

\* A program on its track has not ended, and only sigtest comes to a fault.
LEMMA TrackRuns ==
  ASSUME NEW u, u.prog \in DOMAIN Programs, NEW F, NEW N, NEW a, OnTrack(u, F, N, a)
  PROVE  /\ u.at \notin {"ended", "faulted"} /\ (u.at = "fault" => u.prog = "sigtest")
         /\ u.prog = "cat" => u.seen \subseteq {u.arg}
<1>1. CASE u.prog = "cat" BY <1>1 DEF OnTrack, CatOK
<1>2. CASE u.prog = "ls" BY <1>2 DEF OnTrack, LsOK
<1>3. CASE u.prog = "syserr" BY <1>3 DEF OnTrack, SyserrOK
<1>4. CASE u.prog \notin {"cat", "ls", "syserr"}
  <2>1. u.at \in Reached[u.prog] BY <1>4 DEF OnTrack
  <2> QED BY <1>4, <2>1, ReachedAre, ProgramNames
<1> QED BY <1>1, <1>2, <1>3, <1>4

\* A call changed what the program that runs keeps to v, its descriptors to G and the names
\* of its files to M.
Did(v, G, M) ==
  /\ user' = [user EXCEPT ![cpu.inst] = v]
  /\ fds' = [fds EXCEPT ![curr_process] = G]
  /\ file_name' = [file_name EXCEPT ![curr_process] = M]
  /\ UNCHANGED <<args, image, parent, execs, current_pcb, curr_process>>
  /\ cpu'.pc = "user" /\ cpu'.inst = cpu.inst
  /\ v.prog = Running.prog /\ OnTrack(v, G, M, args[curr_process]) /\ Std(G)

\* What a call leaves alone of the kernel's.
Apart == /\ UNCHANGED <<args, image, parent, execs, current_pcb, curr_process>>
         /\ cpu'.pc = "user" /\ cpu'.inst = cpu.inst

\* A call that changes no descriptor.
LEMMA AnswerDid ==
  ASSUME MAX_FILE >= 3, SysInv, TrackInv, cpu.pc \in {"user", "syscall"},
         NEW c \in Calls(Running), ~Is(c, "halt"), Apart, UNCHANGED <<fds, file_name>>,
         NEW r, NEW w \in After(Running, c, r), NEW v, v.prog = w.prog, v.at = w.at,
         user' = [user EXCEPT ![cpu.inst] = v],
         Running.prog # "shell" =>
           Answer(Running, c, fds[curr_process], file_name[curr_process], args[curr_process], v)
  PROVE  \E u, G, M : Did(u, G, M)
<1> DEFINE p == curr_process
<1>1. /\ p \in Procs /\ fds \in [Procs -> [FDs -> Flags]] /\ image[p] # 0 BY OwnSlot
<1>2. PICK G, M : G = fds[p] /\ M = file_name[p] OBVIOUS
<1>3. Running.prog # "shell" => Outcome(Running, c, fds[p], file_name[p], args[p], v, G, M)
  BY <1>2 DEF Outcome
<1>4. v.prog = Running.prog /\ OnTrack(v, G, M, args[p]) BY <1>3, Proceeds
<1>5. fds' = [fds EXCEPT ![p] = G] BY <1>1, <1>2
<1>6. file_name' = [file_name EXCEPT ![p] = M] BY <1>1, <1>2 DEF TrackInv, FilesOK
<1>7. Std(G) BY <1>1, <1>2 DEF TrackInv, Streams
<1>8. Did(v, G, M) BY <1>4, <1>5, <1>6, <1>7 DEF Did, Apart
<1> QED BY <1>8

\* The calls that do not execute, open or close anything.
LEMMA PlainDid ==
  ASSUME MAX_FILE >= 3, SysInv, TrackInv, cpu.pc = "user",
         \/ Invalid \/ ReadFails \/ ReadDir \/ WriteFails \/ Write
         \/ WriteKeyboard \/ OpenFails \/ CloseFails \/ VidmapFails \/ VidmapUser
  PROVE  \E u, G, M : Did(u, G, M)
<1> DEFINE p == curr_process
<1> USE DEF procVars, termVars, memVars, history, sysVars
<1>f. PICK F, N, a : F = fds[p] /\ N = file_name[p] /\ a = args[p] OBVIOUS
<1>p. Running.prog # "shell" => \A fd : FlagsOf(fd) = FlagIn(F, fd)
  BY <1>f DEF FlagsOf, FlagIn, TrackInv, PcbInv
<1>q. /\ \A c : Fd(c) = FdOf(Running, c) /\ NameOf(c) = NameFor(Running, c)
      /\ FreeFds = FreeIn(F)
  BY <1>f DEF Fd, FdOf, NameOf, NameFor, FreeFds, FreeIn, FDOwner
<1>1. ASSUME NEW c \in Calls(Running), NoChange, NEW r, Return(c, r), ~Is(c, "halt"),
             Running.prog # "shell" => \A v \in After(Running, c, r) : Answer(Running, c, F, N, a, v)
      PROVE  \E u, G, M : Did(u, G, M)
  <2>1. PICK v \in After(Running, c, r) : user' = [user EXCEPT ![cpu.inst] = v] BY <1>1 DEF Return
  <2>2. Apart /\ UNCHANGED <<fds, file_name>> BY <1>1 DEF NoChange, CallReturns, BackInUser, Apart
  <2> QED BY <1>1, <1>f, <2>1, <2>2, AnswerDid
<1>2. ASSUME NEW c \in Calls(Running), Fails(c), ~Is(c, "halt"),
             Running.prog # "shell" => Refused(Running, c, F)
      PROVE  \E u, G, M : Did(u, G, M)
  <2>1. Running.prog # "shell" => \A v \in After(Running, c, -1) : Answer(Running, c, F, N, a, v)
    BY <1>2 DEF Answer
  <2> QED BY <1>1, <1>2, <2>1 DEF Fails
<1>3. CASE Invalid BY <1>2, <1>3 DEF Invalid, Refused, Is
<1>4. CASE ReadFails BY <1>2, <1>4, <1>p, <1>q DEF ReadFails, Refused, Is
<1>5. CASE WriteFails BY <1>2, <1>5, <1>p, <1>q DEF WriteFails, Refused, Is
<1>6. CASE OpenFails BY <1>2, <1>6, <1>q DEF OpenFails, Refused, Is
<1>7. CASE CloseFails BY <1>2, <1>7, <1>q DEF CloseFails, Refused, Is
<1>8. CASE VidmapFails BY <1>2, <1>8 DEF VidmapFails, Refused, Is
<1>9. CASE ReadDir
  <2>1. PICK c \in Calls(Running), r \in {0, 1} :
           Is(c, "read") /\ FlagsOf(Fd(c)) = "DIR" /\ NoChange /\ Return(c, r)
    BY <1>9 DEF ReadDir
  <2>2. Running.prog # "shell" => \A v \in After(Running, c, r) : Answer(Running, c, F, N, a, v)
    BY <1>p, <1>q, <2>1 DEF Answer
  <2> QED BY <1>1, <2>1, <2>2 DEF Is
<1>10. CASE Write
  <2>1. PICK c \in Calls(Running) :
           Is(c, "write") /\ FlagsOf(Fd(c)) \in {"STDOUT", "RTC"} /\ NoChange /\ Return(c, 1)
    BY <1>10 DEF Write
  <2>2. Running.prog # "shell" => \A v \in After(Running, c, 1) : Answer(Running, c, F, N, a, v)
    BY <1>p, <1>q, <2>1 DEF Answer
  <2> QED BY <1>1, <2>1, <2>2 DEF Is
<1>11. CASE VidmapUser
  <2>1. PICK c \in Calls(Running) : Is(c, "vidmap") /\ c.name = "user" /\ Return(c, 0)
    BY <1>11 DEF VidmapUser
  <2>2. PICK v \in After(Running, c, 0) : user' = [user EXCEPT ![cpu.inst] = v] BY <2>1 DEF Return
  <2>3. Apart /\ UNCHANGED <<fds, file_name>> BY <1>11 DEF VidmapUser, Vidmap, BackInUser, Apart
  <2>4. Answer(Running, c, F, N, a, v) BY <2>1, <2>2 DEF Answer
  <2>5. ~Is(c, "halt") BY <2>1 DEF Is
  <2> QED BY <1>f, <2>2, <2>3, <2>4, <2>5, AnswerDid
<1>12. CASE WriteKeyboard
  <2>1. PICK c \in Calls(Running), r \in {-1, 1} :
          /\ Is(c, "write") /\ FlagsOf(Fd(c)) = "STDIN"
          /\ \E w \in After(Running, c, r) :
               user' = [user EXCEPT ![cpu.inst] = IF r = -1 THEN w ELSE [w EXCEPT !.echo = 1]]
    BY <1>12 DEF WriteKeyboard
  <2>2. PICK w \in After(Running, c, r) :
          user' = [user EXCEPT ![cpu.inst] = IF r = -1 THEN w ELSE [w EXCEPT !.echo = 1]]
    BY <2>1
  <2>3. Apart /\ UNCHANGED <<fds, file_name>>
    BY <1>12 DEF WriteKeyboard, NoChange, CallReturns, BackInUser, Apart
  <2>4. ~Is(c, "halt") BY <2>1 DEF Is
  <2>5. CASE r = -1
    <3>1. Running.prog # "shell" => Refused(Running, c, F) BY <1>p, <1>q, <2>1 DEF Refused
    <3>2. Running.prog # "shell" => Answer(Running, c, F, N, a, w) BY <2>2, <2>5, <3>1 DEF Answer
    <3>3. user' = [user EXCEPT ![cpu.inst] = w] BY <2>2, <2>5
    <3> QED BY <1>f, <2>2, <2>3, <2>4, <3>2, <3>3, AnswerDid
  <2>6. CASE r = 1
    <3>1. PICK v : v = [w EXCEPT !.echo = 1] OBVIOUS
    <3>2. user' = [user EXCEPT ![cpu.inst] = v] BY <2>2, <2>6, <3>1
    <3>3. Running.prog # "shell" => Answer(Running, c, F, N, a, v)
      <4>1. \E x \in After(Running, c, 1) : v = [x EXCEPT !.echo = 1] BY <2>2, <2>6, <3>1
      <4> QED BY <1>p, <1>q, <2>1, <4>1 DEF Answer
    <3>g. GoesOn(Running)
      <4>1. UserInv /\ SlotsInv /\ ImagesDiffer BY DEF SysInv
      <4> QED BY <4>1, RunningGoes DEF UserInv, Running, Going
    <3>4. GoesOn(w) BY <2>2, <3>g, AfterGoes
    <3>5. v.prog = w.prog /\ v.at = w.at BY <3>1, <3>4, Fields DEF GoesOn, Sane
    <3>6. Running.prog # "shell" =>
            Answer(Running, c, fds[curr_process], file_name[curr_process], args[curr_process], v)
      BY <1>f, <3>3
    <3>7. w \in After(Running, c, 1) BY <2>2, <2>6
    <3> QED BY <2>3, <2>4, <3>2, <3>5, <3>6, <3>7, AnswerDid
  <2> QED BY <2>5, <2>6
<1> QED BY <1>3, <1>4, <1>5, <1>6, <1>7, <1>8, <1>9, <1>10, <1>11, <1>12

\* A read that waited; no test of syserr is among those.
LEMMA ReturnsDid ==
  ASSUME MAX_FILE >= 3, SysInv, SysInv', TrackInv, ReadReturns
  PROVE  \E u, G, M : Did(u, G, M)
<1> USE DEF procVars, termVars, memVars, history, sysVars
<1>1. PICK c \in Calls(Running), r \in {0, 1} : Is(c, "read") /\ Return(c, r) BY DEF ReadReturns
<1>2. PICK v \in After(Running, c, r) : user' = [user EXCEPT ![cpu.inst] = v] BY <1>1 DEF Return
<1>3. cpu.pc = "syscall" /\ cpu.stack = IrqStack BY DEF ReadReturns, SyscallReturn, IrqStack
<1>4. TypeOK /\ Together /\ RunInv BY <1>3 DEF SysInv, SlotsInv, AtBoot, Together
<1>5. cpu'.pc # "wild" BY DEF SysInv, SlotsInv, AtBoot, Together, RunInv, HaltPCs
<1>6. cpu' = InUser(cpu.inst)
  BY <1>3, <1>4, <1>5 DEF ReadReturns, SyscallReturn, ReturnThrough, RunInv, SyscallFrame, Wild, CpuIn
<1>7. Apart /\ UNCHANGED <<fds, file_name>>
  BY <1>6 DEF ReadReturns, SyscallReturn, Apart, InUser, CpuIn
<1>8. cpu.inst \in Insts BY <1>3, OwnSlot
<1>9. Running.at # "test" BY <1>3, <1>8 DEF TrackInv, WaitInv, Waiting, Running
<1>10. Answer(Running, c, fds[curr_process], file_name[curr_process], args[curr_process], v)
  BY <1>1, <1>2, <1>9 DEF Answer
<1>11. ~Is(c, "halt") BY <1>1 DEF Is
<1> QED BY <1>2, <1>3, <1>7, <1>10, <1>11, AnswerDid

\* file_read_setup and getargs.
LEMMA FileDid ==
  ASSUME MAX_FILE >= 3, SysInv, TrackInv, cpu.pc = "user", ReadFile \/ Getargs
  PROVE  \E u, G, M : Did(u, G, M)
<1> DEFINE p == curr_process
<1> USE DEF procVars, termVars, memVars, history, sysVars
<1>f. PICK F, N, a : F = fds[p] /\ N = file_name[p] /\ a = args[p] OBVIOUS
<1>p. Running.prog # "shell" => \A fd : FlagsOf(fd) = FlagIn(F, fd)
  BY <1>f DEF FlagsOf, FlagIn, TrackInv, PcbInv
<1>q. \A c : Fd(c) = FdOf(Running, c) BY DEF Fd, FdOf
<1>g. p \in Procs /\ GoesOn(Running) BY OwnSlot
<1>1. CASE ReadFile
  <2>1. PICK c \in Calls(Running) :
          /\ Is(c, "read") /\ FlagsOf(Fd(c)) = "FILE"
          /\ LET f == file_name[curr_process][Fd(c)]
                 r == 1 - position[curr_process][Fd(c)]
             IN \E w \in After(Running, c, r) :
                  user' = [user EXCEPT ![cpu.inst] = IF r = 1 THEN [w EXCEPT !.seen = @ \cup {f}] ELSE w]
    BY <1>1 DEF ReadFile
  <2>2. PICK f, r : f = file_name[curr_process][Fd(c)]
        /\ r = 1 - position[curr_process][Fd(c)] OBVIOUS
  <2>3. PICK w \in After(Running, c, r) :
          user' = [user EXCEPT ![cpu.inst] = IF r = 1 THEN [w EXCEPT !.seen = @ \cup {f}] ELSE w]
    BY <2>1, <2>2
  <2>4. Fd(c) \in FDs BY <2>1 DEF FlagsOf
  <2>5. r \in {0, 1}
    <3>1. position[p][Fd(c)] \in {0, 1} BY <1>g, <2>4 DEF TrackInv, FilesOK
    <3> QED BY <2>2, <3>1
  <2>6. Apart /\ UNCHANGED <<fds, file_name>> BY <1>1 DEF ReadFile, CallReturns, BackInUser, Apart
  <2>7. ~Is(c, "halt") BY <2>1 DEF Is
  <2>8. GoesOn(w) BY <1>g, <2>3, AfterGoes
  <2>9. f = N[FdOf(Running, c)] BY <1>f, <1>q, <2>2
  <2>10. CASE r = 1
    <3>1. PICK v : v = [w EXCEPT !.seen = @ \cup {f}] OBVIOUS
    <3>2. v.prog = w.prog /\ v.at = w.at BY <2>8, <3>1, Fields DEF GoesOn, Sane
    <3>3. Running.prog # "shell" => Answer(Running, c, F, N, a, v)
      <4>1. \E x \in After(Running, c, 1) : v = [x EXCEPT !.seen = @ \cup {N[FdOf(Running, c)]}]
        BY <2>3, <2>9, <2>10, <3>1
      <4> QED BY <1>p, <1>q, <2>1, <4>1 DEF Answer
    <3>4. user' = [user EXCEPT ![cpu.inst] = v] BY <2>3, <2>10, <3>1
    <3>5. w \in After(Running, c, 1) BY <2>3, <2>10
    <3> QED BY <1>f, <2>6, <2>7, <3>2, <3>3, <3>4, <3>5, AnswerDid
  <2>11. CASE r = 0
    <3>1. Running.prog # "shell" => Answer(Running, c, F, N, a, w)
      BY <1>p, <1>q, <2>1, <2>3, <2>11 DEF Answer
    <3>2. user' = [user EXCEPT ![cpu.inst] = w] BY <2>3, <2>11
    <3> QED BY <1>f, <2>3, <2>6, <2>7, <3>1, <3>2, AnswerDid
  <2> QED BY <2>5, <2>10, <2>11
<1>2. CASE Getargs
  <2>1. PICK c \in Calls(Running) : Is(c, "getargs") /\ \E w \in After(Running, c, 0) :
          user' = [user EXCEPT ![cpu.inst] = [w EXCEPT !.buf = args[curr_process]]]
    BY <1>2 DEF Getargs
  <2>2. PICK w \in After(Running, c, 0) :
          user' = [user EXCEPT ![cpu.inst] = [w EXCEPT !.buf = args[curr_process]]]
    BY <2>1
  <2>3. PICK v : v = [w EXCEPT !.buf = a] OBVIOUS
  <2>4. GoesOn(w) BY <1>g, <2>2, AfterGoes
  <2>5. v.prog = w.prog /\ v.at = w.at BY <2>3, <2>4, Fields DEF GoesOn, Sane
  <2>6. Answer(Running, c, F, N, a, v) BY <2>1, <2>2, <2>3 DEF Answer
  <2>7. user' = [user EXCEPT ![cpu.inst] = v] BY <1>f, <2>2, <2>3
  <2>8. Apart /\ UNCHANGED <<fds, file_name>> BY <1>2 DEF Getargs, NoChange, CallReturns, BackInUser, Apart
  <2>9. ~Is(c, "halt") BY <2>1 DEF Is
  <2> QED BY <1>f, <2>2, <2>5, <2>6, <2>7, <2>8, <2>9, AnswerDid
<1> QED BY <1>1, <1>2

\* open takes the descriptor that it returns.
LEMMA OpenDid ==
  ASSUME MAX_FILE >= 3, SysInv, TrackInv, cpu.pc = "user", OpenFile
  PROVE  \E u, G, M : Did(u, G, M)
<1> DEFINE p == curr_process
<1> USE DEF procVars, termVars, memVars, history, sysVars
<1>f. PICK F, N, a : F = fds[p] /\ N = file_name[p] /\ a = args[p] OBVIOUS
<1>g. p \in Procs /\ fds \in [Procs -> [FDs -> Flags]] /\ F \in [FDs -> Flags] /\ image[p] # 0
  BY <1>f, OwnSlot
<1>n. file_name \in [Procs -> [FDs -> Names]] BY DEF TrackInv, FilesOK
<1>1. PICK c \in Calls(Running), fd \in FreeFds :
        /\ Is(c, "open") /\ NameOf(c) \in DOMAIN Directory
        /\ Open /\ fds'[FDOwner][fd] = Directory[NameOf(c)]
        /\ file_name' = IF Directory[NameOf(c)] = "RTC" THEN file_name
                        ELSE [file_name EXCEPT ![FDOwner][fd] = NameOf(c)]
        /\ Return(c, fd)
  BY DEF OpenFile
<1>2. PICK n : n = NameOf(c) /\ n = NameFor(Running, c) BY DEF NameOf, NameFor
<1>3. PICK e : e = Directory[n] OBVIOUS
<1>4. e # "NOT_SET" BY <1>1, <1>2, <1>3, NotThere, Entries
<1>5. PICK ft \in FileTypes, d \in FDs :
        /\ d >= 2 /\ F[d] = "NOT_SET" /\ \A f \in 2 .. d - 1 : F[f] # "NOT_SET"
        /\ fds' = [fds EXCEPT ![p][d] = ft]
  BY <1>1, <1>f DEF Open, FDOwner
<1>6. fd \in FDs /\ fd \in FreeIn(F) /\ F[fd] = "NOT_SET" BY <1>1, <1>f DEF FreeFds, FreeIn, FDOwner
<1>7. fds'[p] = [F EXCEPT ![d] = ft] BY <1>5, <1>f, <1>g
<1>8. fds'[p][fd] = e BY <1>1, <1>2, <1>3 DEF FDOwner
<1>9. d = fd BY <1>4, <1>6, <1>7, <1>8, <1>g
<1>10. ft = e BY <1>6, <1>7, <1>8, <1>9, <1>g
<1>11. PICK G : G = [F EXCEPT ![fd] = e] OBVIOUS
<1>12. PICK M : M = IF e = "RTC" THEN N ELSE [N EXCEPT ![fd] = n] OBVIOUS
<1>13. fds' = [fds EXCEPT ![p] = G] BY <1>5, <1>9, <1>10, <1>11, <1>f
<1>14. file_name' = [file_name EXCEPT ![p] = M]
  <2>1. CASE e = "RTC" BY <1>1, <1>2, <1>3, <1>12, <1>f, <1>g, <1>n, <2>1
  <2>2. CASE e # "RTC"
    <3>1. file_name' = [file_name EXCEPT ![p][fd] = n] BY <1>1, <1>2, <1>3, <2>2 DEF FDOwner
    <3> QED BY <1>12, <1>f, <2>2, <3>1
  <2> QED BY <2>1, <2>2
<1>15. PICK v \in After(Running, c, fd) : user' = [user EXCEPT ![cpu.inst] = v] BY <1>1 DEF Return
<1>16. Opens(Running, c, F, N, v, G, M)
  BY <1>1, <1>2, <1>3, <1>5, <1>6, <1>9, <1>11, <1>12, <1>15 DEF Opens
<1>17. Outcome(Running, c, F, N, a, v, G, M) BY <1>16 DEF Outcome
<1>18. ~Is(c, "halt") BY <1>1 DEF Is
<1>19. v.prog = Running.prog /\ OnTrack(v, G, M, args[p]) BY <1>f, <1>15, <1>17, <1>18, Proceeds
<1>20. Std(G)
  <2>1. Std(F) BY <1>f, <1>g DEF TrackInv, Streams
  <2>2. fd # 0 /\ fd # 1 BY <1>6 DEF FreeIn, FDs
  <2> QED BY <1>11, <1>g, <2>1, <2>2 DEF Std
<1>21. Did(v, G, M)
  BY <1>1, <1>13, <1>14, <1>15, <1>19, <1>20 DEF Did, OpenFile, Open, BackInUser
<1> QED BY <1>21

\* close gives back the descriptor that it was called with.
LEMMA CloseDid ==
  ASSUME MAX_FILE >= 3, SysInv, TrackInv, cpu.pc = "user", CloseFile
  PROVE  \E u, G, M : Did(u, G, M)
<1> DEFINE p == curr_process
<1> USE DEF procVars, termVars, memVars, history, sysVars
<1>f. PICK F, N, a : F = fds[p] /\ N = file_name[p] /\ a = args[p] OBVIOUS
<1>g. p \in Procs /\ fds \in [Procs -> [FDs -> Flags]] /\ F \in [FDs -> Flags] /\ image[p] # 0
  BY <1>f, OwnSlot
<1>n. file_name \in [Procs -> [FDs -> Names]] BY DEF TrackInv, FilesOK
<1>1. PICK c \in Calls(Running) :
        /\ Is(c, "close") /\ Fd(c) \in FDs \ ({0, 1} \cup FreeFds)
        /\ Close /\ fds'[FDOwner][Fd(c)] = "NOT_SET"
        /\ Return(c, 0)
  BY DEF CloseFile
<1>2. PICK fd : fd = Fd(c) /\ fd = FdOf(Running, c) BY DEF Fd, FdOf
<1>3. fd \in FDs \ ({0, 1} \cup FreeIn(F)) BY <1>1, <1>2, <1>f DEF FreeFds, FreeIn, FDOwner
<1>4. F[fd] # "NOT_SET"
  <2>1. fd >= 2 BY <1>3 DEF FDs
  <2> QED BY <1>3, <2>1 DEF FreeIn
<1>5. PICK d \in FDs : fds' = [fds EXCEPT ![p][d] = "NOT_SET"] BY <1>1 DEF Close, FDOwner
<1>6. fds'[p] = [F EXCEPT ![d] = "NOT_SET"] BY <1>5, <1>f, <1>g
<1>7. fds'[p][fd] = "NOT_SET" BY <1>1, <1>2 DEF FDOwner
<1>8. d = fd BY <1>3, <1>4, <1>6, <1>7, <1>g
<1>9. PICK G : G = [F EXCEPT ![fd] = "NOT_SET"] OBVIOUS
<1>10. fds' = [fds EXCEPT ![p] = G] BY <1>5, <1>8, <1>9, <1>f
<1>11. file_name' = [file_name EXCEPT ![p] = N] BY <1>f, <1>g, <1>n DEF CloseFile
<1>12. PICK v \in After(Running, c, 0) : user' = [user EXCEPT ![cpu.inst] = v] BY <1>1 DEF Return
<1>13. Closes(Running, c, F, v, G) BY <1>1, <1>2, <1>3, <1>9, <1>12 DEF Closes
<1>14. Outcome(Running, c, F, N, a, v, G, N) BY <1>13 DEF Outcome
<1>15. ~Is(c, "halt") BY <1>1 DEF Is
<1>16. v.prog = Running.prog /\ OnTrack(v, G, N, args[p]) BY <1>f, <1>12, <1>14, <1>15, Proceeds
<1>17. Std(G)
  <2>1. Std(F) BY <1>f, <1>g DEF TrackInv, Streams
  <2>2. fd # 0 /\ fd # 1 BY <1>3
  <2> QED BY <1>9, <1>g, <2>1, <2>2 DEF Std
<1>18. Did(v, G, N)
  BY <1>1, <1>10, <1>11, <1>12, <1>16, <1>17 DEF Did, CloseFile, Close, BackInUser
<1> QED BY <1>18

\* The shell finds the table full, or was told to exit.
LEMMA ShellDid ==
  ASSUME MAX_FILE >= 3, SysInv, TrackInv, cpu.pc = "user", ExecuteTooMany \/ ExitTyped
  PROVE  \E u, G, M : Did(u, G, M)
<1> DEFINE p == curr_process
<1> USE DEF procVars, termVars, memVars, history, sysVars
<1>g. /\ p \in Procs /\ fds \in [Procs -> [FDs -> Flags]] /\ image[p] # 0
      /\ image[p] = cpu.inst /\ cpu.inst \in Going /\ Sane(Running)
  BY OwnSlot
<1>t. OnTrack(Running, fds[p], file_name[p], args[p]) BY <1>g DEF TrackInv, Tracks, Running
<1>1. CASE ExecuteTooMany
  <2>1. PICK c \in Calls(Running) : Is(c, "execute") /\ Return(c, 0) BY <1>1 DEF ExecuteTooMany
  <2>2. PICK v \in After(Running, c, 0) : user' = [user EXCEPT ![cpu.inst] = v] BY <2>1 DEF Return
  <2>3. Running.prog = "shell" /\ ~Is(c, "halt") BY <1>g, <1>t, <2>1, EndsWell DEF Is
  <2>4. Apart /\ UNCHANGED <<fds, file_name>>
    BY <1>1 DEF ExecuteTooMany, ExecuteFull, BackInUser, Apart
  <2> QED BY <2>2, <2>3, <2>4, AnswerDid
<1>2. CASE ExitTyped
  <2>1. PICK v : v = [Running EXCEPT !.at = "exit0"] OBVIOUS
  <2>2. user' = [user EXCEPT ![cpu.inst] = v] /\ Running.prog = "shell"
    BY <1>2, <2>1 DEF ExitTyped, Running
  <2>3. v.prog = "shell" /\ v.at = "exit0" BY <1>g, <2>1, <2>2, Fields DEF Sane
  <2>4. PICK G, M : G = fds[p] /\ M = file_name[p] OBVIOUS
  <2>5. OnTrack(v, G, M, args[p]) BY <2>3, ReachedAre DEF OnTrack
  <2>6. fds' = [fds EXCEPT ![p] = G] BY <1>2, <1>g, <2>4 DEF ExitTyped, vars
  <2>7. file_name' = [file_name EXCEPT ![p] = M]
    BY <1>2, <1>g, <2>4 DEF ExitTyped, TrackInv, FilesOK
  <2>8. Std(G) BY <1>g, <2>4 DEF TrackInv, Streams
  <2>9. Did(v, G, M) BY <1>2, <2>2, <2>3, <2>5, <2>6, <2>7, <2>8 DEF Did, ExitTyped, vars
  <2> QED BY <2>9
<1> QED BY <1>1, <1>2

\* What GoingStep and WaitStep say of a step.
Bounded ==
  /\ \A i \in Going' : i \in Going \/ (i = execs' /\ execs' # execs)
  /\ \A i \in Waiting' : i \in Waiting \/ (Syscall /\ i = cpu.inst)
  /\ Tick => ~Syscall

\* A step that touches nothing that programs see.
LEMMA StillTrack ==
  ASSUME TrackInv, FilesOK', Bounded, PcbInv', Syscall => Running.at # "test",
         UNCHANGED <<user, fds, file_name, args, image, parent, execs>>
  PROVE  TrackInv'
<1> USE DEF TrackInv
<1>1. ParentsInv' BY DEF ParentsInv
<1>2. Streams' BY DEF Streams
<1>3. Tracks' BY DEF Tracks, Bounded
<1>4. WaitInv' BY DEF WaitInv, Bounded, Running
<1>5. ProgramsSucceed' BY DEF ProgramsSucceed
<1> QED BY <1>1, <1>2, <1>3, <1>4, <1>5

\* What a program keeps where it may be, for ProgramsSucceed.
Good(u) ==
  /\ u.at = "ended" => u.status \in Expected(u)
  /\ u.at = "faulted" => u.prog \in {"sigtest", "other"}
  /\ u.prog = "cat" => u.seen \subseteq {u.arg}

\* A call of the program that runs.
LEMMA DidTrack ==
  ASSUME SysInv, SysInv', TrackInv, FilesOK', Bounded, cpu.pc \in {"user", "syscall"},
         cpu.inst \notin Waiting', NEW v, NEW G, NEW M, Did(v, G, M)
  PROVE  TrackInv'
<1> DEFINE p == curr_process
           j == cpu.inst
<1> USE DEF TrackInv
<1>1. /\ p \in Procs /\ image[p] = j /\ j \in Going /\ j \in Insts /\ Sane(Running)
      /\ fds \in [Procs -> [FDs -> Flags]] /\ j # 0
  BY OwnSlot
<1>2. /\ user' = [user EXCEPT ![j] = v] /\ fds' = [fds EXCEPT ![p] = G]
      /\ file_name' = [file_name EXCEPT ![p] = M]
      /\ UNCHANGED <<args, image, parent, execs, current_pcb, curr_process>>
      /\ cpu'.pc = "user" /\ cpu'.inst = j
      /\ v.prog = user[j].prog /\ OnTrack(v, G, M, args[p]) /\ Std(G)
  BY DEF Did, Running
<1>3. DOMAIN user = Insts /\ ImagesDiffer BY DEF SysInv, UserInv
<1>4. user'[j] = v /\ \A i \in Insts : i # j => user'[i] = user[i] BY <1>1, <1>2, <1>3
<1>5. \A i \in Insts : user'[i].prog = user[i].prog BY <1>2, <1>4
<1>6. ParentsInv'
  <2>1. \A i \in 1 .. execs : i \in Insts
    <3>1. execs \in 0 .. MaxExecs BY DEF SysInv, SlotsInv, TypeOK
    <3> QED BY <3>1, ConstantsAssumption DEF Insts
  <2> QED BY <1>2, <1>5, <2>1 DEF ParentsInv
<1>7. PcbInv' BY <1>1, <1>2, <1>5 DEF PcbInv, Running
<1>8. Streams' BY <1>1, <1>2 DEF Streams
<1>9. Tracks'
  <2> SUFFICES ASSUME NEW q \in Procs, image[q] \in Going'
               PROVE  OnTrack(user'[image[q]], fds'[q], file_name'[q], args[q])
    BY <1>2 DEF Tracks
  <2>1. image[q] \in Going /\ image[q] \in Insts BY <1>2 DEF Bounded, Going
  <2>f. file_name \in [Procs -> [FDs -> Names]] BY DEF FilesOK
  <2>2. CASE q = p
    <3>1. fds'[q] = G /\ file_name'[q] = M BY <1>1, <1>2, <2>2, <2>f
    <3> QED BY <1>1, <1>2, <1>4, <2>2, <3>1
  <2>3. CASE q # p
    <3>1. image[q] # j BY <1>1, <1>3, <2>3 DEF ImagesDiffer
    <3>2. user'[image[q]] = user[image[q]] /\ fds'[q] = fds[q] /\ file_name'[q] = file_name[q]
      BY <1>1, <1>2, <1>4, <2>1, <2>3, <2>f, <3>1
    <3>3. OnTrack(user[image[q]], fds[q], file_name[q], args[q]) BY <2>1 DEF Tracks
    <3> QED BY <3>2, <3>3
  <2> QED BY <2>2, <2>3
<1>10. WaitInv'
  <2> SUFFICES ASSUME NEW i \in Waiting' PROVE user'[i].at # "test" BY DEF WaitInv
  <2>1. i # j /\ i \in Insts /\ i \in Waiting BY DEF Bounded, Waiting
  <2> QED BY <1>4, <2>1 DEF WaitInv
<1>11. ProgramsSucceed'
  <2>1. v.prog \in DOMAIN Programs BY <1>1, <1>2 DEF Sane, Running
  <2>2. Good(v) BY <1>2, <2>1, TrackRuns DEF Good
  <2>3. \A i \in Insts : Good(user'[i]) BY <1>4, <2>2 DEF ProgramsSucceed, Good
  <2> QED BY <2>3 DEF ProgramsSucceed, Good
<1> QED BY <1>6, <1>7, <1>8, <1>9, <1>10, <1>11

\* A program starts in slot p.
LEMMA StartTrack ==
  ASSUME MAX_FILE >= 3, SysInv, SysInv', TrackInv, FilesOK', Bounded,
         NEW n \in DOMAIN Programs, NEW a, NEW p \in Procs, NEW s, NEW d, NEW t, NEW by,
         Launch(p, s, d, t, by), by = 0 \/ (by \in 1 .. execs /\ user[by].prog = "shell"),
         user' = Started(n, a), args' = ArgsWritten(p, a), UNCHANGED file_name
  PROVE  TrackInv'
<1> USE DEF TrackInv
<1>1. /\ execs' = execs + 1 /\ parent' = [parent EXCEPT ![execs'] = by]
      /\ current_pcb' = p /\ curr_process' = p /\ fds' = [fds EXCEPT ![p] = InitFDs]
      /\ image' = [image EXCEPT ![p] = execs'] /\ cpu' = InUser(execs')
  BY DEF Launch
<1>2. /\ execs \in 0 .. MaxExecs /\ execs' \in 0 .. MaxExecs /\ image \in [Procs -> Insts \cup {0}]
      /\ fds \in [Procs -> [FDs -> Flags]] /\ parent \in [Insts -> Insts \cup {0}]
      /\ DOMAIN user = Insts /\ ImagesDiffer
  BY DEF SysInv, SlotsInv, TypeOK, UserInv
<1>3. execs' # execs /\ execs' \in Insts /\ execs' \notin 1 .. execs
      /\ \A i \in 1 .. execs : i \in Insts
  BY <1>1, <1>2, ConstantsAssumption DEF Insts
<1>u. PICK u : u = Begin(n, a) OBVIOUS
<1>4. user' = [user EXCEPT ![execs'] = u] BY <1>3, <1>u DEF Started
<1>5. user'[execs'] = u /\ \A i \in Insts : i # execs' => user'[i] = user[i] BY <1>2, <1>3, <1>4
<1>6. u.prog = n /\ u.at = "start" /\ u.seen = {} BY <1>u DEF Begin
<1>7. ParentsInv'
  <2> SUFFICES ASSUME NEW i \in Insts, parent'[i] # 0
               PROVE  parent'[i] \in 1 .. execs' /\ user'[parent'[i]].prog = "shell"
    BY DEF ParentsInv
  <2>1. parent'[i] \in 1 .. execs /\ user[parent'[i]].prog = "shell"
    BY <1>1, <1>2 DEF ParentsInv
  <2>2. parent'[i] \in Insts /\ parent'[i] # execs' BY <1>3, <2>1
  <2>3. user'[parent'[i]] = user[parent'[i]] BY <1>5, <2>2
  <2>4. parent'[i] \in 1 .. execs' BY <1>1, <1>2, <2>1
  <2> QED BY <2>1, <2>3, <2>4
<1>8. PcbInv' BY <1>1 DEF PcbInv
<1>9. Streams' BY <1>1, <1>2, BeginTrack DEF Streams
<1>10. Tracks'
  <2> SUFFICES ASSUME NEW q \in Procs, image'[q] \in Going'
               PROVE  OnTrack(user'[image'[q]], fds'[q], file_name[q], args'[q])
    BY DEF Tracks
  <2>1. args' = [args EXCEPT ![p] = a] /\ DOMAIN args = Procs BY DEF ArgsWritten, FilesOK
  <2>2. CASE q = p
    <3>1. image'[q] = execs' /\ fds'[q] = InitFDs /\ args'[q] = a BY <1>1, <1>2, <2>1, <2>2
    <3>2. OnTrack(u, InitFDs, file_name[q], a) BY <1>u, BeginTrack
    <3> QED BY <1>5, <3>1, <3>2
  <2>3. CASE q # p
    <3>1. image'[q] = image[q] /\ fds'[q] = fds[q] /\ args'[q] = args[q] BY <1>1, <1>2, <2>1, <2>3
    <3>2. image[q] \in Insts /\ image[q] # execs'
      <4>1. image'[q] \in Insts BY DEF Going
      <4>2. image[q] <= execs BY <1>2 DEF ImagesDiffer
      <4> QED BY <1>1, <1>2, <3>1, <4>1, <4>2 DEF Insts
    <3>3. image[q] \in Going BY <3>1, <3>2 DEF Bounded
    <3>4. OnTrack(user[image[q]], fds[q], file_name[q], args[q]) BY <3>3 DEF Tracks
    <3> QED BY <1>5, <3>1, <3>2, <3>4
  <2> QED BY <2>2, <2>3
<1>11. WaitInv'
  <2> SUFFICES ASSUME NEW i \in Waiting' PROVE user'[i].at # "test" BY DEF WaitInv
  <2>1. ~Syscall BY <1>1 DEF Syscall, InUser, CpuIn
  <2>2. i \in Insts /\ i \in Waiting BY <2>1 DEF Bounded, Waiting
  <2> QED BY <1>5, <1>6, <2>2 DEF WaitInv
<1>12. ProgramsSucceed'
  <2>2. Good(u) BY <1>6 DEF Good
  <2>3. \A i \in Insts : Good(user'[i]) BY <1>5, <2>2 DEF ProgramsSucceed, Good
  <2> QED BY <2>3 DEF ProgramsSucceed, Good
<1> QED BY <1>7, <1>8, <1>9, <1>10, <1>11, <1>12

\* A program ends; it executes no more.
LEMMA EndTrack ==
  ASSUME SysInv, TrackInv, FilesOK', Bounded, cpu.pc = "user", cpu.inst \notin Going',
         cpu'.pc \notin {"user", "syscall"},
         UNCHANGED <<fds, file_name, args, image, parent, execs>>,
         NEW how, NEW st, user' = [user EXCEPT ![cpu.inst] = Over(Running, how, st)],
         \/ how = "ended" /\ st \in Expected(Running)
         \/ how = "faulted" /\ Running.prog \in {"sigtest", "other"}
  PROVE  TrackInv'
<1> DEFINE j == cpu.inst
<1> USE DEF TrackInv
<1>1. /\ j \in Insts /\ Sane(Running) /\ image[curr_process] = j /\ j \in Going
         /\ curr_process \in Procs
  BY OwnSlot
<1>2. DOMAIN user = Insts BY DEF SysInv, UserInv
<1>u. PICK u : u = Running OBVIOUS
<1>b. PICK b : b = Begin(u.prog, u.arg) OBVIOUS
<1>c. DOMAIN b = DOMAIN Begin("shell", NoName) /\ b.prog = u.prog /\ b.arg = u.arg BY <1>b DEF Begin
<1>v. PICK v : v = [b EXCEPT !.at = how, !.status = st, !.seen = u.seen, !.echo = u.echo] OBVIOUS
<1>3. v.prog = u.prog /\ v.arg = u.arg /\ v.seen = u.seen /\ v.echo = u.echo /\ v.at = how /\ v.status = st
  BY <1>c, <1>v, Fields
<1>4. user' = [user EXCEPT ![j] = v] BY <1>b, <1>u, <1>v DEF Over
<1>5. user'[j] = v /\ \A i \in Insts : i # j => user'[i] = user[i] BY <1>1, <1>2, <1>4
<1>6. \A i \in Insts : user'[i].prog = user[i].prog BY <1>3, <1>5, <1>u DEF Running
<1>7. ParentsInv'
  <2>1. \A i \in 1 .. execs : i \in Insts
    <3>1. execs \in 0 .. MaxExecs BY DEF SysInv, SlotsInv, TypeOK
    <3> QED BY <3>1, ConstantsAssumption DEF Insts
  <2> QED BY <1>6, <2>1 DEF ParentsInv
<1>8. PcbInv' BY DEF PcbInv
<1>9. Streams' BY DEF Streams
<1>10. Tracks'
  <2> SUFFICES ASSUME NEW q \in Procs, image[q] \in Going'
               PROVE  OnTrack(user'[image[q]], fds[q], file_name[q], args[q])
    BY DEF Tracks
  <2>1. image[q] \in Going /\ image[q] \in Insts /\ image[q] # j BY DEF Bounded, Going
  <2> QED BY <1>5, <2>1 DEF Tracks
<1>11. WaitInv'
  <2> SUFFICES ASSUME NEW i \in Waiting' PROVE user'[i].at # "test" BY DEF WaitInv
  <2>1. ~Syscall BY DEF Syscall, CpuIn
  <2>2. i \in Insts /\ i \in Waiting BY <2>1 DEF Bounded, Waiting
  <2>3. how # "test" OBVIOUS
  <2> QED BY <1>3, <1>5, <2>2, <2>3 DEF WaitInv
<1>12. ProgramsSucceed'
  <2>1. Expected(v) = Expected(u) BY <1>3 DEF Expected
  <2>2. Good(u) BY <1>1, <1>u DEF ProgramsSucceed, Good, Running
  <2>3. Good(v) BY <1>3, <1>u, <2>1, <2>2 DEF Good
  <2>4. \A i \in Insts : Good(user'[i]) BY <1>5, <2>3 DEF ProgramsSucceed, Good
  <2> QED BY <2>4 DEF ProgramsSucceed, Good
<1> QED BY <1>7, <1>8, <1>9, <1>10, <1>11, <1>12

\* The programs that call halt, and those that fault.
LEMMA EndsTrack ==
  ASSUME SysInv, TrackInv, FilesOK', Bounded,
         Halt \/ Exception => cpu.inst \notin Going', cpu.pc = "user", HaltProgram \/ Fault
  PROVE  TrackInv'
<1> DEFINE p == curr_process
<1> USE DEF procVars, termVars, memVars, history, sysVars
<1>g. p \in Procs /\ image[p] = cpu.inst /\ cpu.inst \in Going /\ Sane(Running) BY OwnSlot
<1>t. OnTrack(Running, fds[p], file_name[p], args[p]) BY <1>g DEF TrackInv, Tracks, Running
<1>1. CASE HaltProgram
  <2>1. PICK c \in Calls(Running) : /\ Is(c, "halt") /\ Halt
                                    /\ user' = [user EXCEPT ![cpu.inst] = Over(@, "ended", c.fd)]
    BY <1>1 DEF HaltProgram
  <2>2. c.fd \in Expected(Running) BY <1>g, <1>t, <2>1, EndsWell
  <2>3. user' = [user EXCEPT ![cpu.inst] = Over(Running, "ended", c.fd)] BY <2>1 DEF Running
  <2>4. /\ cpu'.pc \notin {"user", "syscall"} /\ cpu.inst \notin Going'
        /\ UNCHANGED <<fds, file_name, args, image, parent, execs>>
    BY <1>1, <2>1 DEF HaltProgram, Halt, CpuIn
  <2> QED BY <2>2, <2>3, <2>4, EndTrack
<1>2. CASE Fault
  <2>1. Running.prog \in {"sigtest", "other"}
    <3>1. Running.prog \in DOMAIN Programs BY <1>g DEF Sane
    <3>2. Running.at = "fault" => Running.prog = "sigtest" BY <1>t, <3>1, TrackRuns
    <3> QED BY <1>2, <3>2 DEF Fault
  <2>2. user' = [user EXCEPT ![cpu.inst] = Over(Running, "faulted", 0)] BY <1>2 DEF Fault, Running
  <2>3. /\ cpu'.pc \notin {"user", "syscall"} /\ cpu.inst \notin Going'
        /\ UNCHANGED <<fds, file_name, args, image, parent, execs>>
    BY <1>2 DEF Fault, Exception, CpuIn
  <2> QED BY <2>1, <2>2, <2>3, EndTrack
<1> QED BY <1>1, <1>2

\* halt returns to a shell.
LEMMA ReturnTrack ==
  ASSUME SysInv, TrackInv, FilesOK', Bounded, HaltTo
  PROVE  TrackInv'
<1> USE DEF procVars, termVars, memVars, history, sysVars, TrackInv
<1> DEFINE j == cpu.inst
           k == parent[cpu.inst]
<1>1. HaltReturn /\ cpu.pc = "h_return" BY DEF HaltTo, HaltReturn
<1>2. TypeOK /\ Together /\ ImagesDiffer /\ UserInv BY <1>1 DEF SysInv, SlotsInv, AtBoot
<1>3. cpu'.pc = "user" /\ cpu'.inst = k /\ j \in Insts /\ k \in Insts /\ k # j BY <1>1, <1>2, HaltsTo
<1>4. user[k].prog = "shell"
  <2>1. k # 0 BY <1>3, ConstantsAssumption DEF Insts
  <2> QED BY <1>3, <2>1 DEF ParentsInv
<1>5. PICK v : v = AfterExecute(user[k], HaltValue(Running)) OBVIOUS
<1>6. PICK w : w = Begin("shell", NoName) OBVIOUS
<1>7. user' = [[user EXCEPT ![k] = v] EXCEPT ![j] = w] BY <1>3, <1>5, <1>6 DEF HaltTo
<1>8. v.prog = "shell" /\ v.at = "start"
  <2>1. DOMAIN user[k] = DOMAIN Begin("shell", NoName) BY <1>2, <1>3 DEF UserInv, Sane
  <2> QED BY <1>4, <1>5, <2>1, Fields DEF AfterExecute
<1>9. w.prog = "shell" /\ w.at = "start" BY <1>6 DEF Begin
<1>10. \A i \in Insts : user'[i] = user[i] \/ (user'[i].prog = "shell" /\ user'[i].at = "start")
  BY <1>2, <1>7, <1>8, <1>9 DEF UserInv
<1>11. UNCHANGED <<fds, file_name, args, image, parent, execs>> BY <1>1 DEF HaltTo, HaltReturn
<1>12. ParentsInv'
  <2>1. \A i \in 1 .. execs : i \in Insts
    <3>1. execs \in 0 .. MaxExecs BY <1>2 DEF TypeOK
    <3> QED BY <3>1, ConstantsAssumption DEF Insts
  <2> QED BY <1>10, <1>11, <2>1 DEF ParentsInv
<1>13. PcbInv'
  <2>1. user'[k] = v BY <1>2, <1>3, <1>7 DEF UserInv
  <2> QED BY <1>3, <1>8, <2>1 DEF PcbInv, Running
<1>14. Streams' BY <1>11 DEF Streams
<1>15. Tracks'
  <2> SUFFICES ASSUME NEW q \in Procs, image[q] \in Going'
               PROVE  OnTrack(user'[image[q]], fds[q], file_name[q], args[q])
    BY <1>11 DEF Tracks
  <2>1. image[q] \in Going /\ image[q] \in Insts BY <1>11 DEF Bounded, Going
  <2>2. CASE user'[image[q]] = user[image[q]] BY <2>1, <2>2 DEF Tracks
  <2>3. CASE user'[image[q]].prog = "shell" /\ user'[image[q]].at = "start"
    BY <2>3, ReachedAre DEF OnTrack
  <2> QED BY <1>10, <2>1, <2>2, <2>3
<1>16. WaitInv'
  <2> SUFFICES ASSUME NEW i \in Waiting' PROVE user'[i].at # "test" BY DEF WaitInv
  <2>1. ~Syscall BY <1>1 DEF Syscall
  <2>2. i \in Insts /\ i \in Waiting BY <2>1 DEF Bounded, Waiting
  <2> QED BY <1>10, <2>2 DEF WaitInv
<1>17. ProgramsSucceed' BY <1>10 DEF ProgramsSucceed
<1> QED BY <1>12, <1>13, <1>14, <1>15, <1>16, <1>17

\* The descriptors that halt closes are those of a shell.
LEMMA CloseTrack ==
  ASSUME SysInv, TrackInv, FilesOK', Bounded, HaltCloses
  PROVE  TrackInv'
<1> USE DEF procVars, termVars, memVars, history, sysVars, TrackInv
<1> DEFINE s == curr_process
<1>1. HaltClose /\ cpu.pc = "h_close" BY DEF HaltCloses, HaltClose
<1>2. TypeOK /\ RunInv /\ ChainInv BY <1>1 DEF SysInv, SlotsInv, AtBoot, Together
<1>3. /\ IrqStack \in Procs /\ Live(IrqStack) /\ cpu.inst = image[IrqStack]
      /\ s = ppid[IrqStack] /\ ppid[IrqStack] # None /\ s \in Procs
  BY <1>1, <1>2 DEF RunInv, HaltPCs, Live, TypeOK
<1>4. image[s] = parent[cpu.inst] /\ image[s] \in 1 .. execs /\ cpu.inst \in 1 .. execs
  BY <1>2, <1>3 DEF ChainInv
<1>5. user[image[s]].prog = "shell"
  <2>1. cpu.inst \in Insts /\ image[s] # 0
    BY <1>2, <1>4, ConstantsAssumption DEF Insts, TypeOK
  <2> QED BY <1>4, <2>1 DEF ParentsInv
<1>6. /\ UNCHANGED <<user, file_name, args, image, parent, execs>>
      /\ cpu'.pc = "h_return"
  BY <1>1, <1>2 DEF HaltCloses, HaltClose, TypeOK, CPUs
<1>7. \A q \in Procs : /\ q # s => fds'[q] = fds[q]
                       /\ \A fd \in FDs : fd < 2 => fds'[q][fd] = fds[q][fd]
  BY <1>1, <1>2, <1>3 DEF HaltClose, TypeOK, FDs
<1>8. ParentsInv' BY <1>6 DEF ParentsInv
<1>9. PcbInv' BY <1>6 DEF PcbInv
<1>10. Streams'
  <2>1. 0 \in FDs /\ 1 \in FDs BY ConstantsAssumption DEF FDs
  <2> QED BY <1>6, <1>7, <2>1 DEF Streams, Std
<1>11. Tracks'
  <2> SUFFICES ASSUME NEW q \in Procs, image[q] \in Going'
               PROVE  OnTrack(user[image[q]], fds'[q], file_name[q], args[q])
    BY <1>6 DEF Tracks
  <2>1. image[q] \in Going BY <1>6 DEF Bounded
  <2>2. OnTrack(user[image[q]], fds[q], file_name[q], args[q]) BY <2>1 DEF Tracks
  <2>3. CASE q = s BY <1>5, <2>2, <2>3 DEF OnTrack
  <2>4. CASE q # s BY <1>7, <2>2, <2>4
  <2> QED BY <2>3, <2>4
<1>12. WaitInv'
  <2>1. ~Syscall BY <1>1 DEF Syscall
  <2> QED BY <1>6, <2>1 DEF WaitInv, Bounded
<1>13. ProgramsSucceed' BY <1>6 DEF ProgramsSucceed
<1> QED BY <1>8, <1>9, <1>10, <1>11, <1>12, <1>13

\* The fields of descriptors keep their types.
LEMMA FilesNext ==
  ASSUME SysInv, FilesOK, [SysNext]_allVars PROVE FilesOK'
<1> USE DEF sysVars
<1>t. curr_process \in Procs /\ FDOwner = curr_process BY DEF SysInv, SlotsInv, TypeOK, FDOwner
<1>1. CASE UNCHANGED sysVars BY <1>1 DEF FilesOK
<1>2. CASE ReadFile
  <2>1. PICK c \in Calls(Running) :
          /\ FlagsOf(Fd(c)) = "FILE"
          /\ LET r == 1 - position[curr_process][Fd(c)]
             IN position' = [position EXCEPT ![curr_process][Fd(c)] = @ + r]
          /\ UNCHANGED <<args, file_name>>
    BY <1>2 DEF ReadFile
  <2>2. Fd(c) \in FDs BY <2>1 DEF FlagsOf
  <2>3. PICK x, y : x = position[curr_process][Fd(c)] /\ y = x + (1 - x) OBVIOUS
  <2>4. x \in {0, 1} BY <1>t, <2>2, <2>3 DEF FilesOK
  <2>5. y = 1 BY <2>3, <2>4
  <2>6. position' = [position EXCEPT ![curr_process][Fd(c)] = y] BY <2>1, <2>3
  <2>7. PICK fd \in FDs : fd = Fd(c) BY <2>2
  <2>8. position' = [position EXCEPT ![curr_process][fd] = 1] BY <2>5, <2>6, <2>7
  <2>9. position' \in [Procs -> [FDs -> {0, 1}]] BY <1>t, <2>8 DEF FilesOK
  <2> QED BY <2>1, <2>9 DEF FilesOK
<1>3. CASE OpenFile
  <2>1. PICK n \in DOMAIN Directory, fd \in FreeFds :
          /\ position' = [position EXCEPT ![curr_process][fd] = 0] /\ UNCHANGED args
          /\ \/ file_name' = file_name
             \/ file_name' = [file_name EXCEPT ![curr_process][fd] = n]
    BY <1>3, <1>t DEF OpenFile
  <2>2. n \in Names /\ fd \in FDs BY DEF Names, FreeFds
  <2>p. PICK e \in FDs : position' = [position EXCEPT ![curr_process][e] = 0] BY <2>1, <2>2
  <2>q. position \in [Procs -> [FDs -> {0, 1}]] BY DEF FilesOK
  <2>3. position' \in [Procs -> [FDs -> {0, 1}]] BY <1>t, <2>p, <2>q
  <2>r. PICK d, m : /\ d \in FDs /\ m \in Names
                    /\ \/ file_name' = file_name
                       \/ file_name' = [file_name EXCEPT ![curr_process][d] = m]
    BY <2>1, <2>2
  <2>s. file_name \in [Procs -> [FDs -> Names]] BY DEF FilesOK
  <2>4. file_name' \in [Procs -> [FDs -> Names]]
    <3>1. CASE file_name' = file_name BY <2>s, <3>1
    <3>2. CASE file_name' = [file_name EXCEPT ![curr_process][d] = m] BY <1>t, <2>r, <2>s, <3>2
    <3> QED BY <2>r, <3>1, <3>2
  <2> QED BY <2>1, <2>3, <2>4 DEF FilesOK
<1>4. CASE CloseFile
  <2>1. PICK fd \in FDs : position' = [position EXCEPT ![curr_process][fd] = 0]
                          /\ UNCHANGED <<args, file_name>>
    BY <1>4, <1>t DEF CloseFile
  <2> QED BY <1>t, <2>1 DEF FilesOK
<1>5. CASE HaltCloses
  <2>1. PICK g \in [FDs -> {0, 1}] : position' = [position EXCEPT ![curr_process] = g]
    BY <1>5, <1>t DEF HaltCloses, FilesOK
  <2> QED BY <1>5, <1>t, <2>1 DEF HaltCloses, FilesOK
<1>6. CASE ExecuteProgram \/ ExecuteShell
  <2>1. PICK a : /\ args' = [args EXCEPT ![current_pcb'] = a] /\ UNCHANGED file_name
                 /\ position' = [position EXCEPT ![current_pcb'] = [fd \in FDs |-> 0]]
    BY <1>6 DEF ExecuteProgram, ExecuteShell, ArgsWritten, NewDescriptors
  <2> QED BY <2>1 DEF FilesOK
<1>7. CASE ExecuteNotElf BY <1>7 DEF ExecuteNotElf, ArgsWritten, FilesOK
<1>8. CASE \/ Invalid \/ ReadFails \/ ReadDir \/ WriteFails \/ Write \/ OpenFails \/ CloseFails
           \/ WriteKeyboard \/ Getargs \/ VidmapFails
  BY <1>1, <1>8 DEF Invalid, ReadFails, ReadDir, WriteFails, Write, WriteKeyboard, OpenFails, CloseFails,
     Getargs, VidmapFails, Fails, NoChange, CallReturns
<1>9. CASE \/ ReadWaits \/ VidmapUser \/ ExecuteTooMany \/ ExitTyped \/ HaltProgram \/ Fault
           \/ ReadReturns \/ HaltTo \/ KernelStep \/ UNCHANGED allVars
  BY <1>1, <1>9 DEF ReadWaits, VidmapUser, ExecuteTooMany, ExitTyped, HaltProgram, Fault,
     ReadReturns, HaltTo, KernelStep, allVars
<1> QED BY <1>2, <1>3, <1>4, <1>5, <1>6, <1>7, <1>8, <1>9 DEF SysNext, SystemCall

\* A test of syserr reads no descriptor that waits.
LEMMA TestsDoNotWait ==
  ASSUME SysInv, TrackInv, cpu.pc = "user", ReadWaits PROVE Running.at # "test"
<1> SUFFICES ASSUME Running.at = "test" PROVE FALSE OBVIOUS
<1> DEFINE p == curr_process
<1>g. /\ p \in Procs /\ image[p] = cpu.inst /\ cpu.inst \in Going /\ Sane(Running)
      /\ fds \in [Procs -> [FDs -> Flags]] /\ image[p] # 0
  BY OwnSlot
<1>t. OnTrack(Running, fds[p], file_name[p], args[p]) BY <1>g DEF TrackInv, Tracks, Running
<1>u. PICK u : u = Running OBVIOUS
<1>f. PICK F : F = fds[p] OBVIOUS
<1>1. u.prog = "syserr" /\ SyserrOK(u, F)
  <2>1. u.prog \in DOMAIN Programs BY <1>g, <1>u DEF Sane
  <2>2. u.prog # "cat" /\ u.prog # "ls" BY <1>t, <1>u DEF OnTrack, CatOK, LsOK
  <2>3. CASE u.prog \notin {"cat", "ls", "syserr"}
    <3>1. u.at \in Reached[u.prog] BY <1>t, <1>u, <2>3 DEF OnTrack
    <3> QED BY <1>u, <2>1, <2>3, <3>1, ProgramNames, ReachedAre
  <2>4. CASE u.prog = "syserr" BY <1>t, <1>u, <1>f, <2>4 DEF OnTrack
  <2> QED BY <2>2, <2>3, <2>4
<1>2. PICK c \in Calls(u) : Is(c, "read") /\ FlagsOf(Fd(c)) \in {"STDIN", "RTC"}
  BY <1>u DEF ReadWaits
<1>3. FlagsOf(Fd(c)) = FlagIn(F, Fd(c)) BY <1>1, <1>f, <1>u DEF FlagsOf, FlagIn, TrackInv, PcbInv
<1>4. c = syserr[u.test][u.k]
  <2>1. "test" \notin DOMAIN Exit BY DEF Exit
  <2> QED BY <1>u, <1>2, <2>1 DEF Calls
<1>5. u.test \in 1 .. 8 /\ u.k \in 1 .. Len(syserr[u.test]) BY <1>g, <1>u, TestsIn DEF Sane
<1>8. CASE u.test = 7
  <2>1. u.k \in {1, 2} BY <1>5, <1>8, StdinOutCalls
  <2>2. c = Try("write", 0, NoName) \/ c = Try("read", 1, NoName)
    BY <1>4, <1>8, <2>1, StdinOutCalls
  <2>3. c.sys = Sysnum.write \/ (c.sys = Sysnum.read /\ c.fd = 1) BY <2>2, CallFields DEF Try
  <2>4. c.fd = 1 BY <1>2, <2>3, Handlers DEF Is
  <2>5. FlagIn(F, Fd(c)) = "STDOUT"
    BY <1>f, <1>g, <2>4, ConstantsAssumption DEF FlagIn, Fd, Opened, TrackInv, Streams, Std, FDs
  <2> QED BY <1>2, <1>3, <2>5
<1>6. CASE u.test \notin {3, 7}
  <2>1. PICK s \in Seq(FailCalls) : s = syserr[u.test] BY <1>5, <1>6, TestsFail
  <2>2. c \in FailCalls BY <1>4, <1>5, <2>1
  <2>3. Fd(c) = c.fd /\ c.fd \in Int BY <2>2 DEF FailCalls, TestCalls, Fd
  <2>4. c.fd # 0
    <3>1. \A n \in {1073741823, -1073741823, 0} : Handler(n) = "not_valid" BY DEF Handler
    <3> QED BY <1>2, <2>2, <3>1, Handlers DEF FailCalls, Is
  <2>5. Fresh(F) /\ Std(F) BY <1>1, <1>6, <1>f, <1>g, <1>u DEF SyserrOK, TrackInv, Streams
  <2>6. FlagIn(F, c.fd) \notin {"STDIN", "RTC"}
    BY <2>3, <2>4, <2>5 DEF FlagIn, Fresh, Std, FDs
  <2> QED BY <1>2, <1>3, <2>3, <2>6
<1>7. CASE u.test = 3
  <2>1. u.k \in 1 .. 2 * MAX_FILE - 3 BY <1>5, <1>7, LotsCalls
  <2>2. c = Try("open", 0, ".") \/ c = Try("close", u.k - MAX_FILE + 2, NoName)
    BY <1>4, <1>7, <2>1, LotsCalls
  <2>3. c.sys \in {Sysnum.open, Sysnum.close} BY <2>2, CallFields DEF Try
  <2> QED BY <1>2, <2>3, Handlers DEF Is
<1> QED BY <1>6, <1>7, <1>8

\* execute by a shell, by boot, halt and switch_terminal.
LEMMA LaunchTrack ==
  ASSUME MAX_FILE >= 3, orderly', SysInv, SysInv', TrackInv, FilesOK', Bounded,
         (cpu.pc = "user" /\ ExecuteProgram) \/ ExecuteShell
  PROVE  TrackInv'
<1>1. CASE cpu.pc = "user" /\ ExecuteProgram
  <2>1. PICK c \in Calls(Running) :
          /\ Is(c, "execute") /\ c.name \in DOMAIN Programs /\ Execute
          /\ args' = ArgsWritten(current_pcb', c.arg) /\ user' = Started(c.name, c.arg)
          /\ UNCHANGED file_name
    BY <1>1 DEF ExecuteProgram
  <2>2. PICK p \in Procs : Launch(p, esp0, curr_terminal_number, curr_term, cpu.inst)
    BY <2>1 DEF Execute
  <2>3. current_pcb' = p BY <2>2 DEF Launch
  <2>4. /\ curr_process \in Procs /\ image[curr_process] = cpu.inst /\ cpu.inst \in Going
        /\ Sane(Running) /\ cpu.inst \in 1 .. execs
    BY <1>1, OwnSlot
  <2>5. OnTrack(Running, fds[curr_process], file_name[curr_process], args[curr_process])
    BY <2>4 DEF TrackInv, Tracks, Running
  <2>6. user[cpu.inst].prog = "shell" BY <2>1, <2>4, <2>5, EndsWell DEF Running
  <2> QED BY <2>1, <2>2, <2>3, <2>4, <2>6, StartTrack
<1>2. CASE ExecuteShell
  <2>1. "shell" \in DOMAIN Programs BY ProgramNames
  <2>2. \E p \in Procs : \E s, d, t : Launch(p, s, d, t, 0)
    <3>1. CASE Boot
      <4>1. 0 \in Procs BY ConstantsAssumption DEF Procs
      <4> QED BY <3>1, <4>1 DEF Boot
    <3>2. CASE HaltExecute
      <4>1. cpu'.pc # "wild" BY DEF SysInv, SlotsInv, AtBoot, Together, RunInv, HaltPCs
      <4> QED BY <3>2, <4>1 DEF HaltExecute, Wild, CpuIn
    <3>3. ASSUME NEW t \in Terms, SwitchFresh(t) PROVE \E p \in Procs : \E s, d, n : Launch(p, s,
          d, n, 0)
      BY <3>3, QuietFresh DEF SwitchFresh, SysInv, SlotsInv
    <3> QED BY <1>2, <3>1, <3>2, <3>3 DEF ExecuteShell
  <2>p. PICK p \in Procs : \E s, d, t : Launch(p, s, d, t, 0) BY <2>2
  <2>3. PICK s, d, t : Launch(p, s, d, t, 0) BY <2>p
  <2>4. current_pcb' = p BY <2>3 DEF Launch
  <2> QED BY <1>2, <2>1, <2>3, <2>4, StartTrack DEF ExecuteShell
<1> QED BY <1>1, <1>2

\* The steps of the kernel.
LEMMA KernelTrack ==
  ASSUME SysInv, SysInv', TrackInv, FilesOK', Bounded,
         KernelStep \/ (cpu.pc = "user" /\ ReadWaits) \/ UNCHANGED allVars
  PROVE  TrackInv'
<1> USE DEF procVars, termVars, memVars, history, sysVars
<1>1. CASE \/ HaltPcb \/ HaltInactive \/ HaltPpid \/ HaltEsp0 \/ HaltCurr \/ HaltTerm \/ HaltMap
           \/ ExceptionHalt
  <2>1. cpu \in CPUs BY DEF SysInv, SlotsInv, TypeOK
  <2>2. cpu'.pc \notin {"user", "syscall"}
    BY <1>1, <2>1 DEF HaltPcb, HaltInactive, HaltPpid, HaltEsp0, HaltCurr, HaltTerm, HaltMap,
       ExceptionHalt, Wild, CpuIn, CPUs
  <2>3. UNCHANGED <<fds, image, parent, execs>>
    BY <1>1 DEF HaltPcb, HaltInactive, HaltPpid, HaltEsp0, HaltCurr, HaltTerm, HaltMap, ExceptionHalt
  <2>4. UNCHANGED <<user, file_name, args>> \/ UNCHANGED allVars \/ ReadWaits BY DEF KernelStep
  <2>5. ~Syscall BY <2>2 DEF Syscall, CpuIn
  <2>6. UNCHANGED <<user, file_name, args>> BY <2>4, <2>5 DEF allVars, ReadWaits
  <2>7. PcbInv' BY <2>2 DEF PcbInv
  <2> QED BY <2>3, <2>5, <2>6, <2>7, StillTrack
<1>2. CASE Tick /\ UNCHANGED <<sysVars, user>>
  <2>1. cpu'.pc # "wild" BY DEF SysInv, SlotsInv, AtBoot, Together, RunInv, HaltPCs
  <2>2. current_pcb' = curr_process' BY <1>2, <2>1 DEF Tick, Wild, CpuIn
  <2>3. UNCHANGED <<fds, image, parent, execs>> BY <1>2 DEF Tick
  <2>4. PcbInv' BY <2>2 DEF PcbInv
  <2>5. ~Syscall BY <1>2 DEF Bounded
  <2> QED BY <1>2, <2>3, <2>4, <2>5, StillTrack
<1>3. ASSUME NEW t \in Terms, SwitchActive(t), UNCHANGED <<sysVars, user>> PROVE TrackInv'
  <2>1. UNCHANGED <<fds, image, parent, execs, cpu, curr_process, current_pcb>>
    BY <1>3 DEF SwitchActive
  <2>2. ~Syscall BY <2>1 DEF Syscall, CpuIn
  <2>3. PcbInv' BY <1>3, <2>1 DEF TrackInv, PcbInv, Running
  <2> QED BY <1>3, <2>1, <2>2, <2>3, StillTrack
<1>4. CASE cpu.pc = "user" /\ ReadWaits
  <2>1. UNCHANGED <<fds, image, parent, execs, curr_process, current_pcb, file_name, args, user>>
        /\ cpu'.inst = cpu.inst
    BY <1>4 DEF ReadWaits, Syscall, CpuIn
  <2>2. PcbInv' BY <1>4, <2>1 DEF TrackInv, PcbInv, Running
  <2> QED BY <1>4, <2>1, <2>2, StillTrack, TestsDoNotWait
<1>5. CASE UNCHANGED allVars
  <2>1. UNCHANGED <<fds, image, parent, execs, cpu, curr_process, current_pcb, user, file_name, args>>
    BY <1>5 DEF allVars, vars
  <2>2. ~Syscall BY <2>1 DEF Syscall, CpuIn
  <2>3. PcbInv' BY <2>1 DEF TrackInv, PcbInv, Running
  <2> QED BY <2>1, <2>2, <2>3, StillTrack
<1> QED BY <1>1, <1>2, <1>3, <1>4, <1>5 DEF KernelStep

\* Before boot no program goes on.
LEMMA TrackInit == SysInit => TrackInv
<1> SUFFICES ASSUME SysInit PROVE TrackInv OBVIOUS
<1>1. Init BY DEF SysInit
<1>2. /\ cpu.pc = "boot" /\ \A p \in Procs : image[p] = 0 /\ kstack[p] = Free
      /\ \A i \in Insts : parent[i] = 0
  BY <1>1 DEF Init, CpuIn
<1>3. Going = {} /\ Waiting = {} BY <1>2 DEF Going, Waiting, Free
<1>4. FilesOK BY DEF SysInit, FilesOK, Names
<1>5. PICK b : b = Begin("shell", NoName) OBVIOUS
<1>6. b.prog = "shell" /\ b.at = "start" BY <1>5 DEF Begin
<1>7. \A i \in Insts : user[i] = b BY <1>5 DEF SysInit
<1>8. ParentsInv BY <1>2 DEF ParentsInv
<1>9. PcbInv BY <1>2 DEF PcbInv
<1>10. Streams BY <1>2 DEF Streams
<1>11. Tracks BY <1>3 DEF Tracks
<1>12. WaitInv BY <1>3 DEF WaitInv
<1>13. ProgramsSucceed BY <1>6, <1>7 DEF ProgramsSucceed
<1> QED BY <1>4, <1>8, <1>9, <1>10, <1>11, <1>12, <1>13 DEF TrackInv

\* Every step keeps every program on its track.
LEMMA TrackNext ==
  ASSUME orderly', MAX_FILE >= 3, SysInv, TrackInv, [SysNext]_allVars
  PROVE  TrackInv'
<1>1. SysInv' BY SysInvNext
<1>2. SlotsInv /\ SlotsInv' /\ ImagesDiffer BY <1>1 DEF SysInv
<1>3. [Next]_vars BY SysStep
<1>4. Bounded /\ (Halt \/ Exception => cpu.inst \notin Going')
      /\ (SyscallReturn => cpu.inst \notin Waiting')
  <2>1. Calm BY <1>2, CalmStep DEF SlotsInv
  <2> QED BY <1>2, <1>3, <2>1, GoingStep, WaitStep DEF Bounded
<1>5. FilesOK' BY FilesNext DEF TrackInv
<1>6. ASSUME NEW v, NEW G, NEW M, Did(v, G, M), cpu.pc = "user" PROVE TrackInv'
  <2>1. cpu.inst \notin Waiting'
    <3>1. ~Syscall BY <1>6 DEF Did, Syscall, CpuIn
    <3>2. cpu.inst \notin Waiting BY <1>2, <1>6, NotWaiting
    <3> QED BY <1>4, <3>1, <3>2 DEF Bounded
  <2> QED BY <1>1, <1>4, <1>5, <1>6, <2>1, DidTrack
<1>7. CASE SystemCall
  <2>1. cpu.pc = "user" BY <1>7 DEF SystemCall
  <2>2. CASE \/ Invalid \/ ReadFails \/ ReadDir \/ WriteFails \/ Write
             \/ WriteKeyboard \/ OpenFails \/ CloseFails \/ VidmapFails \/ VidmapUser
    <3>1. \E u, G, M : Did(u, G, M) BY <2>1, <2>2, PlainDid
    <3> QED BY <1>6, <2>1, <3>1
  <2>3. CASE ReadFile \/ Getargs
    <3>1. \E u, G, M : Did(u, G, M) BY <2>1, <2>3, FileDid
    <3> QED BY <1>6, <2>1, <3>1
  <2>4. CASE OpenFile \/ CloseFile
    <3>1. \E u, G, M : Did(u, G, M) BY <2>1, <2>4, OpenDid, CloseDid
    <3> QED BY <1>6, <2>1, <3>1
  <2>5. CASE ExecuteTooMany \/ ExitTyped
    <3>1. \E u, G, M : Did(u, G, M) BY <2>1, <2>5, ShellDid
    <3> QED BY <1>6, <2>1, <3>1
  <2>6. CASE ReadWaits BY <1>1, <1>4, <1>5, <2>1, <2>6, KernelTrack
  <2>7. CASE ExecuteProgram BY <1>1, <1>4, <1>5, <2>1, <2>7, LaunchTrack
  <2>8. CASE HaltProgram BY <1>4, <1>5, <2>1, <2>8, EndsTrack
  <2>9. CASE ExecuteNotElf BY <1>2, <2>9, NoBadCommand DEF ExecuteNotElf, SlotsInv
  <2> QED BY <1>7, <2>2, <2>3, <2>4, <2>5, <2>6, <2>7, <2>8, <2>9 DEF SystemCall
<1>8. CASE ReadReturns
  <2>1. \E u, G, M : Did(u, G, M) BY <1>1, <1>8, ReturnsDid
  <2>2. PICK v, G, M : Did(v, G, M) BY <2>1
  <2>3. SyscallReturn /\ cpu.pc = "syscall" BY <1>8 DEF ReadReturns, SyscallReturn
  <2> QED BY <1>1, <1>4, <1>5, <2>2, <2>3, DidTrack
<1>9. CASE Fault
  <2>1. cpu.pc = "user" BY <1>9 DEF Fault
  <2> QED BY <1>4, <1>5, <1>9, <2>1, EndsTrack
<1>10. CASE HaltTo BY <1>4, <1>5, <1>10, ReturnTrack
<1>11. CASE HaltCloses BY <1>4, <1>5, <1>11, CloseTrack
<1>12. CASE ExecuteShell BY <1>1, <1>4, <1>5, <1>12, LaunchTrack
<1>13. CASE KernelStep \/ UNCHANGED allVars BY <1>1, <1>4, <1>5, <1>13, KernelTrack
<1> QED BY <1>7, <1>8, <1>9, <1>10, <1>11, <1>12, <1>13 DEF SysNext

\* Every program ends as its source says, whatever runs on the other terminals and whenever
\* the timer and the keyboard interrupt, as long as things are in order: the tests of syserr
\* pass (but err_stdin_out, when its write met a key), cat finds the file of its argument
\* and prints no other, and of the programs modelled only sigtest faults.  The descriptor
\* table has room for a file besides the two standard streams.
THEOREM ProgramsCorrect ==
  ASSUME MAX_FILE >= 3 PROVE SysSpec => [](orderly => ProgramsSucceed)
<1>1. SysInit => TypeOK /\ TrackInv BY TrackInit, SysInvInit DEF SysInv, SlotsInv
<1>2. /\ TypeOK /\ (orderly => SysInv) /\ (orderly => TrackInv) /\ [SysNext]_allVars
      => (orderly => TrackInv)'
  <2> SUFFICES ASSUME TypeOK, orderly => SysInv, orderly => TrackInv, [SysNext]_allVars, orderly'
               PROVE  TrackInv'
    OBVIOUS
  <2>1. [Next]_vars BY SysStep
  <2>2. orderly BY <2>1, OrderlyStep DEF TypeOK
  <2> QED BY <2>2, TrackNext
<1>3. TrackInv => ProgramsSucceed BY DEF TrackInv
<1> QED BY <1>1, <1>2, <1>3, SysInvCorrect, PTL DEF SysSpec
=============================================================================
