------------------------------- MODULE Kernel -------------------------------
(***************************************************************************)
(* Processes, terminals and the scheduler of the kernel: execute, halt,    *)
(* open, close and vidmap of syscall.c, switch_task of scheduler.c and     *)
(* switch_terminal of terminal.c, down to the machine state they share     *)
(* (the user page, tss.esp0, the kernel stacks and the saved stack         *)
(* pointers).                                                              *)
(*                                                                         *)
(* The machine has one CPU.  execute, switch_task and switch_terminal run  *)
(* with interrupts off and are one step each.  halt runs with interrupts   *)
(* on (int $0x80 is a trap gate) and is one step per C statement that      *)
(* touches shared state.  A system call that only waits or copies is the   *)
(* state "syscall" between its entry and its return; "exc" is an exception *)
(* handler of idt.c, whose gates are trap gates as well, before it halts.  *)
(*                                                                         *)
(* A process slot p stands for process_array[p], the PCB of p, the 8 KB    *)
(* kernel stack of p and the 4 MB page of p.  An instance is one run of a  *)
(* program; the slot it occupies is what the kernel knows of it.           *)
(***************************************************************************)
EXTENDS Integers, FiniteSets

CONSTANTS
  NProc,      \* NUM_PROCESSES: process slots (6 in the code)
  NTerm,      \* terminals (3 in the code)
  MAX_FILE,   \* file descriptors of a process (8 in the code)
  FileTypes,  \* types of the directory entries that open can find
  MaxExecs,   \* bound: program instances that a behaviour starts
  Env         \* behaviours of users and devices that a run allows, see EnvKinds

(***************************************************************************)
(* "missing"    a user names a program that is not in the file system      *)
(* "noexec"     a user names a file that is not an ELF executable          *)
(* "irq_halt"   timer and keyboard interrupts also arrive inside halt      *)
(* "fresh_bg"   Alt-F opens a new terminal although the process that runs  *)
(*              belongs to a terminal that is not displayed                *)
(* "fresh_full" Alt-F opens a new terminal although all slots are taken    *)
(* "open_std"   a program opens a file whose name begins with stdin or     *)
(*              stdout                                                     *)
(***************************************************************************)
EnvKinds == {"missing", "noexec", "irq_halt", "fresh_bg", "fresh_full", "open_std"}

ASSUME ConstantsAssumption ==
  /\ NProc \in Nat \ {0} /\ NTerm \in Nat \ {0}
  /\ MAX_FILE \in Nat /\ MAX_FILE >= 2
  /\ MaxExecs \in Nat \ {0}
  /\ FileTypes \subseteq {"RTC", "DIR", "FILE"}
  /\ Env \subseteq EnvKinds

Procs == 0 .. NProc - 1
Terms == 0 .. NTerm - 1
FDs   == 0 .. MAX_FILE - 1
Insts == 1 .. MaxExecs

None  == -1                    \* the -1 of PPID and current_process
Slots == Procs \cup {None}

VIDEO    == -1                 \* vid: the user video page shows the screen,
Unmapped == -2                 \* nothing yet, or (t \in Terms) terminals[t].screen

Flags == {"NOT_SET", "STDIN", "STDOUT"} \cup FileTypes

HaltPCs == {"h_pcb", "h_inactive", "h_execute", "h_ppid", "h_esp0", "h_curr",
            "h_term", "h_map", "h_close", "h_return"}
\* "spin": switch_task loops with interrupts off.  "wild": the CPU has loaded a
\* stack pointer that no longer points at the frame it was saved for.
PCs == {"boot", "user", "syscall", "exc", "spin", "wild"} \cup HaltPCs

VARIABLES
  \* syscall.c
  process_array, curr_process, current_pcb,
  ppid, esp_exec, esp_switch, fds,     \* PCB fields PPID, ESP0, ESP_SWITCH, FDs_array
  \* terminal.c and scheduler.c
  active, current_process, curr_terminal_number, curr_term,
  \* the machine
  page,       \* slot whose 4 MB page is mapped at VIRTUAL_FILE_PAGE
  image,      \* instance whose program was last loaded into the page of a slot
  esp0,       \* slot whose kernel stack tss.esp0 points at
  kstack,     \* innermost frame on the kernel stack of a slot
  vid,        \* what the user video page maps
  cpu,        \* what the CPU executes: instance, pc, stack, locals of halt
  \* history
  execs,      \* instances started so far
  parent,     \* instance that called execute for an instance, 0 for shells
  orderly     \* no step so far was one that Noted calls a disorder

procVars == <<process_array, curr_process, current_pcb, ppid, esp_exec>>
termVars == <<active, current_process>>
memVars  == <<page, image, esp0>>
history  == <<execs, parent, orderly>>
vars == <<procVars, esp_switch, fds, termVars, curr_terminal_number, curr_term,
          memVars, kstack, vid, cpu, history>>

-----------------------------------------------------------------------------
(* Kernel stacks.  An entry from user mode starts at the top of the stack   *)
(* of slot esp0 and so overwrites whatever was there; an interrupt in the   *)
(* kernel goes below the frame of the system call.  A saved stack pointer   *)
(* finds its frame again only if the stack still holds one of that depth.   *)

Vias == {"free", "syscall", "tick", "key"}

Frames == [via : Vias, user : BOOLEAN, inst : Insts \cup {0}, pc : PCs,
           child : Slots, ppid : Slots]

Pointers == [stack : Slots, via : Vias, user : BOOLEAN]

Free == [via |-> "free", user |-> FALSE, inst |-> 0, pc |-> "boot",
         child |-> None, ppid |-> None]

SyscallFrame(i) == [via |-> "syscall", user |-> FALSE, inst |-> i, pc |-> "boot",
                    child |-> None, ppid |-> None]

NoPointer == [stack |-> None, via |-> "free", user |-> FALSE]

CPUs == [inst : Insts \cup {0}, pc : PCs, stack : Slots, child : Slots, ppid : Slots]

CpuIn(i, pc, s) == [inst |-> i, pc |-> pc, stack |-> s, child |-> None, ppid |-> None]

InUser(i) == CpuIn(i, "user", None)
Wild      == CpuIn(0, "wild", None)
Spin      == CpuIn(0, "spin", None)

\* the stack an interrupt of the running code uses, and the frame it leaves there
IrqStack == IF cpu.pc = "user" THEN esp0 ELSE cpu.stack

IrqFrame(via) == [via |-> via, user |-> cpu.pc = "user", inst |-> cpu.inst,
                  pc |-> cpu.pc, child |-> cpu.child, ppid |-> cpu.ppid]

IrqPointer(via) == [stack |-> IrqStack, via |-> via, user |-> cpu.pc = "user"]

\* interrupts are enabled, and this run lets one arrive
Interruptible ==
  cpu.pc \in {"user", "syscall", "exc"} \cup (IF "irq_halt" \in Env THEN HaltPCs ELSE {})

(* The code takes some steps after which its tables need not fit together   *)
(* any more; that one was taken is remembered for the theorems, which say   *)
(* what holds until then.                                                   *)
Noted(disorder) == orderly' = (orderly /\ ~disorder)

InHalt == cpu.pc \in HaltPCs

(* The PCB of slot old gets ESP_SWITCH and EBP_SWITCH.                      *)
\* mutant: the stack pointer is not saved
SaveNothing(old, ptr) == esp_switch

SaveSwitch(old, ptr) == [esp_switch EXCEPT ![old] = ptr]

(* The value of tss.esp0 for slot p, PHYS_FILE_START - EIGHT_KB * p - 4.    *)
\* mutants: tss.esp0 left alone, or computed for the slot above
StackTopStale(p) == esp0
StackTopNext(p)  == p + 1

KernelStackTop(p) == p

(* map: the directory entry of VIRTUAL_FILE_PAGE points at the 4 MB page of *)
(* slot p, PHYS_FILE_START + PHYS_FILE_OFFSET * p, and the TLB is flushed.  *)
map(p) == page' = p

(* What switch_task lets the user video page of terminal t show, with       *)
(* map_w_pt and, when t is not displayed, map_video_w_pt.                   *)
UserVideo(t) == IF t = curr_terminal_number THEN VIDEO ELSE t

(* Load ESP_SWITCH and return from the interrupt frame it points at, the    *)
(* stacks being ks.                                                         *)
Resume(ptr, ks) ==
  IF ptr.stack # None /\ ks[ptr.stack].via = ptr.via /\ ks[ptr.stack].user = ptr.user
                      /\ ptr.via \in {"tick", "key"}
  THEN LET f == ks[ptr.stack] IN
       /\ cpu' = [inst |-> f.inst, pc |-> f.pc,
                  stack |-> IF f.user THEN None ELSE ptr.stack,
                  child |-> f.child, ppid |-> f.ppid]
       /\ kstack' = [ks EXCEPT ![ptr.stack] = IF f.user THEN Free ELSE SyscallFrame(f.inst)]
  ELSE cpu' = Wild /\ kstack' = ks

(* Return to user mode through the system call frame on stack s.            *)
ReturnThrough(s) ==
  IF s # None /\ kstack[s].via = "syscall"
  THEN cpu' = InUser(kstack[s].inst) /\ kstack' = [kstack EXCEPT ![s] = Free]
  ELSE cpu' = Wild /\ kstack' = kstack

-----------------------------------------------------------------------------
(* The slot that get_process returns: the first entry that is 0.            *)
get_process(p) == ~process_array[p] /\ \A q \in Procs : q < p => process_array[q]

TableFull == \A p \in Procs : process_array[p]

(* PPID of a new process: the shell of a terminal that was not active has   *)
(* no parent.                                                               *)
NewPPID(disp) == IF active[disp] THEN curr_process ELSE None

(* The displayed terminal has a shell from now on.                          *)
Activated(disp) == [active EXCEPT ![disp] = TRUE]

\* mutant: both standard streams are written to entry 0
InitFDsAtZero == [fd \in FDs |-> IF fd = 0 THEN "STDOUT" ELSE "NOT_SET"]

InitFDs == [fd \in FDs |-> CASE fd = 0 -> "STDIN" [] fd = 1 -> "STDOUT" [] OTHER -> "NOT_SET"]

(* execute from the check for a valid executable on: fill the PCB of slot p,*)
(* map and load its page, and drop to user mode.  The caller runs on stack  *)
(* s; disp and ct are the displayed and the executing terminal, the first   *)
(* of which decides whether this is the first shell of a terminal.          *)
Launch(p, s, disp, ct, by) ==
  /\ execs < MaxExecs
  /\ execs' = execs + 1
  /\ parent' = [parent EXCEPT ![execs'] = by]
  /\ process_array' = [process_array EXCEPT ![p] = TRUE]
  /\ current_pcb' = p
  /\ active' = Activated(disp)
  /\ ppid' = [ppid EXCEPT ![p] = NewPPID(disp)]
  /\ curr_process' = p
  /\ current_process' = [current_process EXCEPT ![ct] = p]
  /\ fds' = [fds EXCEPT ![p] = InitFDs]
  /\ map(p)
  /\ image' = [image EXCEPT ![p] = execs']
  /\ esp0' = KernelStackTop(p)
  /\ esp_exec' = [esp_exec EXCEPT ![p] = s]
  /\ cpu' = InUser(execs')

(* kernel.c: clear_process() and execute("shell") on the boot stack.        *)
Boot ==
  /\ cpu.pc = "boot"
  /\ Launch(0, None, curr_terminal_number, curr_term, 0)
  /\ UNCHANGED <<esp_switch, curr_terminal_number, curr_term, kstack, vid, orderly>>

(* System call execute of a program in the file system.                     *)
Execute ==
  /\ cpu.pc = "user"
  /\ \E p \in Procs :
       /\ get_process(p)
       /\ Launch(p, esp0, curr_terminal_number, curr_term, cpu.inst)
  /\ kstack' = [kstack EXCEPT ![esp0] = SyscallFrame(cpu.inst)]
  /\ UNCHANGED <<esp_switch, curr_terminal_number, curr_term, vid, orderly>>

(* A system call that came back: its frames are popped off the stack.       *)
BackInUser == cpu' = cpu /\ kstack' = [kstack EXCEPT ![esp0] = Free]

(* A system call that fails, and one that reads or writes without waiting,  *)
(* leaves nothing of what this module keeps changed.                        *)
CallReturns ==
  /\ cpu.pc = "user"
  /\ BackInUser
  /\ UNCHANGED <<procVars, esp_switch, fds, termVars, curr_terminal_number,
                 curr_term, memVars, vid, history>>

(* "too many processes": returns 0 before anything is changed.              *)
ExecuteFull ==
  /\ cpu.pc = "user"
  /\ TableFull
  /\ BackInUser
  /\ UNCHANGED <<procVars, esp_switch, fds, termVars, curr_terminal_number,
                 curr_term, memVars, vid, history>>

(* No such file: clear_process frees every slot.  current_pcb keeps the     *)
(* slot that was to be used.                                                *)
ExecuteMissing ==
  /\ cpu.pc = "user" /\ "missing" \in Env
  /\ \E p \in Procs : get_process(p) /\ current_pcb' = p
  /\ process_array' = [p \in Procs |-> FALSE]
  /\ BackInUser
  /\ Noted(TRUE)
  /\ UNCHANGED <<curr_process, ppid, esp_exec, esp_switch, fds, termVars,
                 curr_terminal_number, curr_term, memVars, vid, execs, parent>>

(* Not an executable: the slot that get_process marked stays marked.        *)
ExecuteNoexec ==
  /\ cpu.pc = "user" /\ "noexec" \in Env
  /\ \E p \in Procs :
       /\ get_process(p)
       /\ current_pcb' = p
       /\ process_array' = [process_array EXCEPT ![p] = TRUE]
  /\ BackInUser
  /\ Noted(TRUE)
  /\ UNCHANGED <<curr_process, ppid, esp_exec, esp_switch, fds, termVars,
                 curr_terminal_number, curr_term, memVars, vid, execs, parent>>

-----------------------------------------------------------------------------
(* halt, and halt_from_exc, which differs in the value it returns only.     *)

\* mutant: the slot is not given back
EndNothing(p) == process_array

end_process(p) == [process_array EXCEPT ![p] = FALSE]

(* Enter the kernel and end_process(curr_process).                          *)
Halt ==
  /\ cpu.pc = "user"
  /\ execs < MaxExecs \/ ppid[curr_process] # None    \* bound: a shell is restarted
  /\ process_array' = end_process(curr_process)
  /\ cpu' = CpuIn(cpu.inst, "h_pcb", esp0)
  /\ kstack' = [kstack EXCEPT ![esp0] = SyscallFrame(cpu.inst)]
  /\ UNCHANGED <<curr_process, current_pcb, ppid, esp_exec, esp_switch, fds, termVars,
                 curr_terminal_number, curr_term, memVars, vid, history>>

(* The program faults: a handler of idt.c prints what it was.               *)
Exception ==
  /\ cpu.pc = "user"
  /\ cpu' = CpuIn(cpu.inst, "exc", esp0)
  /\ kstack' = [kstack EXCEPT ![esp0] = SyscallFrame(cpu.inst)]
  /\ UNCHANGED <<procVars, esp_switch, fds, termVars, curr_terminal_number,
                 curr_term, memVars, vid, history>>

(* halt_from_exc, which works on curr_process as it is by then.             *)
ExceptionHalt ==
  /\ cpu.pc = "exc"
  /\ execs < MaxExecs \/ ppid[curr_process] # None    \* bound: a shell is restarted
  /\ process_array' = end_process(curr_process)
  /\ cpu' = [cpu EXCEPT !.pc = "h_pcb"]
  /\ UNCHANGED <<curr_process, current_pcb, ppid, esp_exec, esp_switch, fds, termVars,
                 curr_terminal_number, curr_term, memVars, kstack, vid, history>>

(* child_pcb, and the test for the shell of a terminal.                     *)
HaltPcb ==
  /\ cpu.pc = "h_pcb"
  /\ cpu' = [inst |-> cpu.inst, stack |-> cpu.stack, ppid |-> None, child |-> curr_process,
             pc |-> IF ppid[curr_process] = None THEN "h_inactive" ELSE "h_ppid"]
  /\ UNCHANGED <<procVars, esp_switch, fds, termVars, curr_terminal_number,
                 curr_term, memVars, kstack, vid, history>>

(* terminals[get_cur_term()].active = 0: the displayed terminal.            *)
HaltInactive ==
  /\ cpu.pc = "h_inactive"
  /\ active' = [active EXCEPT ![curr_terminal_number] = FALSE]
  /\ cpu' = [cpu EXCEPT !.pc = "h_execute"]
  /\ UNCHANGED <<procVars, esp_switch, fds, current_process, curr_terminal_number,
                 curr_term, memVars, kstack, vid, history>>

(* execute("shell") in place of the shell that ended.  With no slot left it *)
(* returns, and halt goes on to index its tables with -1.                   *)
HaltExecute ==
  /\ cpu.pc = "h_execute"
  /\ \/ /\ \E p \in Procs : get_process(p)
                 /\ Launch(p, cpu.stack, curr_terminal_number, curr_term, 0)
        \* a new program starts on an empty stack
        /\ kstack' = [kstack EXCEPT ![cpu.stack] = Free]
     \/ /\ TableFull
        /\ cpu' = Wild
        /\ UNCHANGED <<procVars, fds, termVars, memVars, kstack, history>>
  /\ UNCHANGED <<esp_switch, curr_terminal_number, curr_term, vid, orderly>>

HaltPpid ==
  /\ cpu.pc = "h_ppid"
  /\ cpu' = IF ppid[curr_process] = None THEN Wild
            ELSE [inst |-> cpu.inst, stack |-> cpu.stack, child |-> cpu.child,
                  ppid |-> ppid[curr_process], pc |-> "h_esp0"]
  /\ UNCHANGED <<procVars, esp_switch, fds, termVars, curr_terminal_number,
                 curr_term, memVars, kstack, vid, history>>

HaltEsp0 ==
  /\ cpu.pc = "h_esp0"
  /\ esp0' = KernelStackTop(cpu.ppid)
  /\ cpu' = [cpu EXCEPT !.pc = "h_curr"]
  /\ UNCHANGED <<procVars, esp_switch, fds, termVars, curr_terminal_number,
                 curr_term, page, image, kstack, vid, history>>

HaltCurr ==
  /\ cpu.pc = "h_curr"
  /\ curr_process' = cpu.ppid
  /\ cpu' = [cpu EXCEPT !.pc = "h_term"]
  /\ UNCHANGED <<process_array, current_pcb, ppid, esp_exec, esp_switch, fds, termVars,
                 curr_terminal_number, curr_term, memVars, kstack, vid, history>>

\* mutant: the terminal keeps the child as its process
HaltTermSkipped ==
  /\ cpu.pc = "h_term"
  /\ cpu' = [cpu EXCEPT !.pc = "h_map"]
  /\ UNCHANGED <<procVars, esp_switch, fds, termVars, curr_terminal_number,
                 curr_term, memVars, kstack, vid, history>>

(* set_curr_process(curr_process), which reads the variable again.          *)
HaltTerm ==
  /\ cpu.pc = "h_term"
  /\ current_process' = [current_process EXCEPT ![curr_term] = curr_process]
  /\ cpu' = [cpu EXCEPT !.pc = "h_map"]
  /\ UNCHANGED <<procVars, esp_switch, fds, active, curr_terminal_number,
                 curr_term, memVars, kstack, vid, history>>

\* mutant: the parent's page is not mapped again
HaltMapSkipped ==
  /\ cpu.pc = "h_map"
  /\ cpu' = [cpu EXCEPT !.pc = "h_close"]
  /\ UNCHANGED <<procVars, esp_switch, fds, termVars, curr_terminal_number,
                 curr_term, memVars, kstack, vid, history>>

HaltMap ==
  /\ cpu.pc = "h_map"
  /\ map(cpu.ppid)
  /\ cpu' = [cpu EXCEPT !.pc = "h_close"]
  /\ UNCHANGED <<procVars, esp_switch, fds, termVars, curr_terminal_number,
                 curr_term, image, esp0, kstack, vid, history>>

(* The loop over the descriptors of cur_pcb, which is the parent's PCB;     *)
(* close works on the PCB of curr_process.                                  *)
HaltClose ==
  /\ cpu.pc = "h_close"
  /\ fds' = [fds EXCEPT ![curr_process] =
               [fd \in FDs |-> IF fd >= 2 /\ fds[cpu.ppid][fd] # "NOT_SET"
                               THEN "NOT_SET" ELSE @[fd]]]
  /\ cpu' = [cpu EXCEPT !.pc = "h_return"]
  /\ UNCHANGED <<procVars, esp_switch, termVars, curr_terminal_number,
                 curr_term, memVars, kstack, vid, history>>

(* child_pcb->ESP0: the stack on which execute started the child.           *)
\* mutant: the pointer is taken from the parent's PCB
ReturnStackOfParent == esp_exec[cpu.ppid]

ReturnStack == esp_exec[cpu.child]

(* Load that stack pointer and return from the parent's execute.            *)
HaltReturn ==
  /\ cpu.pc = "h_return"
  /\ LET s == ReturnStack
         own == [kstack EXCEPT ![cpu.stack] = Free]   \* halt's own stack is left
     IN IF s # None /\ s # cpu.stack /\ kstack[s].via = "syscall"
        THEN cpu' = InUser(kstack[s].inst) /\ kstack' = [own EXCEPT ![s] = Free]
        ELSE cpu' = Wild /\ kstack' = own
  /\ UNCHANGED <<procVars, esp_switch, fds, termVars, curr_terminal_number,
                 curr_term, memVars, vid, history>>

HaltStep ==
  \/ HaltPcb \/ HaltInactive \/ HaltExecute \/ HaltPpid \/ HaltEsp0
  \/ HaltCurr \/ HaltTerm \/ HaltMap \/ HaltClose \/ HaltReturn

-----------------------------------------------------------------------------
(* The other system calls.                                                  *)

(* A system call that waits with interrupts on, such as read.               *)
Syscall ==
  /\ cpu.pc = "user"
  /\ cpu' = CpuIn(cpu.inst, "syscall", esp0)
  /\ kstack' = [kstack EXCEPT ![esp0] = SyscallFrame(cpu.inst)]
  /\ UNCHANGED <<procVars, esp_switch, fds, termVars, curr_terminal_number,
                 curr_term, memVars, vid, history>>

SyscallReturn ==
  /\ cpu.pc = "syscall"
  /\ ReturnThrough(cpu.stack)
  /\ UNCHANGED <<procVars, esp_switch, fds, termVars, curr_terminal_number,
                 curr_term, memVars, vid, history>>

(* The process whose descriptors open and close work on.                    *)
\* mutant: the process of the displayed terminal
FDOwnerDisplayed == current_process[curr_terminal_number]

FDOwner == curr_process

(* open of an entry of type ft: the first free descriptor from 2 on; the    *)
(* call fails when there is none.                                           *)
Open ==
  /\ cpu.pc = "user"
  /\ \E ft \in FileTypes, fd \in FDs :
       /\ fd >= 2 /\ fds[FDOwner][fd] = "NOT_SET"
       /\ \A f \in 2 .. fd - 1 : fds[FDOwner][f] # "NOT_SET"
       /\ fds' = [fds EXCEPT ![FDOwner][fd] = ft]
  /\ BackInUser
  /\ UNCHANGED <<procVars, esp_switch, termVars, curr_terminal_number,
                 curr_term, memVars, vid, history>>

(* open of "stdin" or "stdout" sets the descriptor with the number of the   *)
(* flag, 1 or 2, whatever it was.                                           *)
OpenStd ==
  /\ cpu.pc = "user" /\ "open_std" \in Env
  /\ \E fd \in FDs \cap {1, 2} :
       fds' = [fds EXCEPT ![FDOwner][fd] = IF fd = 1 THEN "STDIN" ELSE "STDOUT"]
  /\ BackInUser
  /\ UNCHANGED <<procVars, esp_switch, termVars, curr_terminal_number,
                 curr_term, memVars, vid, history>>

Close ==
  /\ cpu.pc = "user"
  /\ \E fd \in FDs :
       /\ fd >= 2 /\ fds[FDOwner][fd] # "NOT_SET"
       /\ fds' = [fds EXCEPT ![FDOwner][fd] = "NOT_SET"]
  /\ BackInUser
  /\ UNCHANGED <<procVars, esp_switch, termVars, curr_terminal_number,
                 curr_term, memVars, vid, history>>

Vidmap ==
  /\ cpu.pc = "user"
  /\ vid' = VIDEO
  /\ BackInUser
  /\ UNCHANGED <<procVars, esp_switch, fds, termVars, curr_terminal_number,
                 curr_term, memVars, history>>

-----------------------------------------------------------------------------
(* Interrupts.                                                              *)

(* The terminal at which the search of switch_task stops: the first active  *)
(* one after curr_term, cyclically, and curr_term itself last.              *)
StepsTo(t) == (t - curr_term - 1) % NTerm

\* mutant: the search starts again at terminal 0 on every tick
NextLowest(t) == active[t] /\ \A u \in Terms : active[u] => t <= u

NextActive(t) == active[t] /\ \A u \in Terms : active[u] => StepsTo(t) <= StepsTo(u)

(* switch_task, the PIT handler.  The terminal whose process was            *)
(* interrupted is curr_term; its PCB gets the stack pointer, and the PCB of *)
(* the next terminal's process gives one.                                   *)
Tick ==
  /\ Interruptible
  /\ \E t \in Terms :
       /\ NextActive(t)
       /\ LET old == current_process[curr_term]
              new == current_process[t]
              ks  == [kstack EXCEPT ![IrqStack] = IrqFrame("tick")]
          IN IF old = None \/ new = None
             THEN /\ cpu' = Wild
                  /\ UNCHANGED <<curr_term, current_pcb, curr_process, page, vid,
                                 esp0, esp_switch, kstack>>
             ELSE /\ curr_term' = t
                  /\ current_pcb' = new
                  /\ curr_process' = new
                  /\ map(new)
                  /\ vid' = UserVideo(t)
                  /\ esp0' = KernelStackTop(new)
                  /\ esp_switch' = SaveSwitch(old, IrqPointer("tick"))
                  /\ Resume(esp_switch'[new], ks)
  /\ Noted(InHalt)
  /\ UNCHANGED <<process_array, ppid, esp_exec, fds, termVars, curr_terminal_number,
                 image, execs, parent>>

(* No terminal is active: the loop of switch_task never ends.               *)
TickSpin ==
  /\ Interruptible
  /\ \A t \in Terms : ~active[t]
  /\ cpu' = Spin
  /\ Noted(InHalt)
  /\ UNCHANGED <<procVars, esp_switch, fds, termVars, curr_terminal_number,
                 curr_term, memVars, kstack, vid, execs, parent>>

(* switch_terminal to a terminal that has a shell: the display changes, the *)
(* interrupted process goes on.                                             *)
SwitchActive(newt) ==
  /\ Interruptible
  /\ newt # curr_terminal_number /\ active[newt]
  /\ curr_terminal_number' = newt
  /\ vid' = IF curr_term # newt THEN newt ELSE VIDEO
  \* an interrupt of user code starts at the top of the stack of esp0
  /\ kstack' = IF cpu.pc = "user" THEN [kstack EXCEPT ![esp0] = Free] ELSE kstack
  /\ Noted(cpu.pc = "h_execute")
  /\ UNCHANGED <<procVars, esp_switch, fds, termVars, curr_term, memVars, cpu, execs, parent>>

(* switch_terminal to a terminal without a shell: the stack pointer of the  *)
(* interrupted code goes into the PCB of the displayed terminal's process,  *)
(* and the handler executes a shell on the new terminal.                    *)
SwitchFresh(newt) ==
  /\ Interruptible
  /\ newt # curr_terminal_number /\ ~active[newt]
  /\ "fresh_bg" \in Env \/ curr_term = curr_terminal_number
  /\ "fresh_full" \in Env \/ ~TableFull
  /\ current_process[curr_terminal_number] # None
  /\ curr_terminal_number' = newt
  /\ curr_term' = newt
  /\ esp_switch' = SaveSwitch(current_process[curr_terminal_number], IrqPointer("key"))
  /\ \/ /\ \E p \in Procs : get_process(p) /\ Launch(p, IrqStack, newt, newt, 0)
        /\ kstack' = [kstack EXCEPT ![IrqStack] = IrqFrame("key")]
     \/ /\ TableFull
        /\ kstack' = IF cpu.pc = "user" THEN [kstack EXCEPT ![esp0] = Free] ELSE kstack
        /\ UNCHANGED <<procVars, fds, termVars, memVars, cpu, execs, parent>>
  /\ Noted(InHalt \/ curr_term # curr_terminal_number \/ TableFull)
  /\ UNCHANGED vid

(* The displayed terminal never got a process: the PCB of slot -1 is not    *)
(* memory of the kernel.                                                    *)
SwitchWild(newt) ==
  /\ Interruptible
  /\ newt # curr_terminal_number /\ ~active[newt]
  /\ current_process[curr_terminal_number] = None
  /\ cpu' = Wild
  /\ Noted(InHalt)
  /\ UNCHANGED <<procVars, esp_switch, fds, termVars, curr_terminal_number,
                 curr_term, memVars, kstack, vid, execs, parent>>

-----------------------------------------------------------------------------
Init ==
  /\ process_array = [p \in Procs |-> FALSE]
  /\ curr_process = 0
  /\ current_pcb = None
  /\ ppid = [p \in Procs |-> None]
  /\ esp_exec = [p \in Procs |-> None]
  /\ esp_switch = [p \in Procs |-> NoPointer]
  /\ fds = [p \in Procs |-> [fd \in FDs |-> "NOT_SET"]]
  /\ active = [t \in Terms |-> FALSE]
  /\ current_process = [t \in Terms |-> None]
  /\ curr_terminal_number = 0
  /\ curr_term = 0
  /\ page = None
  /\ image = [p \in Procs |-> 0]
  /\ esp0 = 0
  /\ kstack = [p \in Procs |-> Free]
  /\ vid = Unmapped
  /\ cpu = CpuIn(0, "boot", None)
  /\ execs = 0
  /\ parent = [i \in Insts |-> 0]
  /\ orderly = TRUE

(* What the running process asks of the kernel.                             *)
UserStep ==
  \/ Execute \/ CallReturns \/ ExecuteFull \/ ExecuteMissing \/ ExecuteNoexec \/ Halt
  \/ Exception \/ Syscall \/ Open \/ OpenStd \/ Close \/ Vidmap

Next ==
  \/ Boot \/ UserStep \/ HaltStep \/ ExceptionHalt \/ SyscallReturn
  \/ Tick \/ TickSpin
  \/ \E t \in Terms : SwitchActive(t) \/ SwitchFresh(t) \/ SwitchWild(t)

Spec == Init /\ [][Next]_vars

-----------------------------------------------------------------------------
(* Code that was interrupted, or runs: halt has set its locals, and code in *)
(* the kernel has a stack.                                                  *)
LocalsSet(c) ==
  /\ c.pc \in HaltPCs \ {"h_pcb"} => c.child # None
  /\ c.pc \in {"h_esp0", "h_curr", "h_term", "h_map", "h_close", "h_return"} => c.ppid # None

ContextsOK ==
  /\ LocalsSet(cpu)
  /\ cpu.pc \in HaltPCs \cup {"syscall", "exc"} => cpu.stack # None
  /\ \A p \in Procs : kstack[p].via \in {"tick", "key"} =>
       /\ LocalsSet(kstack[p])
       /\ kstack[p].user <=> kstack[p].pc = "user"

TypeOK ==
  /\ process_array \in [Procs -> BOOLEAN]
  /\ curr_process \in Procs
  /\ current_pcb \in Slots
  /\ ppid \in [Procs -> Slots]
  /\ esp_exec \in [Procs -> Slots]
  /\ esp_switch \in [Procs -> Pointers]
  /\ fds \in [Procs -> [FDs -> Flags]]
  /\ active \in [Terms -> BOOLEAN]
  /\ current_process \in [Terms -> Slots]
  /\ curr_terminal_number \in Terms
  /\ curr_term \in Terms
  /\ page \in Slots
  /\ image \in [Procs -> Insts \cup {0}]
  /\ esp0 \in Procs
  /\ kstack \in [Procs -> Frames]
  /\ vid \in Terms \cup {VIDEO, Unmapped}
  /\ cpu \in CPUs
  /\ execs \in 0 .. MaxExecs
  /\ parent \in [Insts -> Insts \cup {0}]
  /\ orderly \in BOOLEAN
  /\ ContextsOK

(***************************************************************************)
(* Properties.  The page, the kernel stack and the saved stack pointers    *)
(* are switched by five different functions; the first five properties say *)
(* that the switches fit together.                                         *)
(***************************************************************************)
Quiet == cpu.pc \in {"user", "syscall", "exc"}

\* A process in user mode runs with its own program in the user page: map() is called
\* with the right slot by execute, halt and switch_task, in whatever order they run.
PageHoldsRunning == cpu.pc = "user" => page # None /\ image[page] = cpu.inst

\* The next trap or interrupt from user mode starts at the top of the stack of tss.esp0:
\* no frame that some process still has to return through lies there.
KernelStackFree == cpu.pc = "user" => kstack[esp0] = Free

\* Every active terminal that is not running can be resumed: ESP_SWITCH of its process
\* points at an interrupt frame on the process's own stack, which leads back into the
\* program in its page.  It is saved by switch_task or by switch_terminal.
SavedContexts ==
  Quiet => \A t \in Terms : active[t] /\ t # curr_term =>
     LET p == current_process[t] IN
       /\ p # None
       /\ esp_switch[p] = [stack |-> p, via |-> kstack[p].via, user |-> kstack[p].user]
       /\ kstack[p].via \in {"tick", "key"} /\ kstack[p].inst = image[p]

\* who may still run in slot p: the process of a terminal, or the parent that waits in
\* execute for the process in slot q
Claims(p) == {<<"terminal", t>> : t \in {u \in Terms : active[u] /\ current_process[u] = p}}
        \cup {<<"child", q>> : q \in {r \in Procs : process_array[r] /\ ppid[r] = p}}

\* process_array is exact: no two terminals, and no terminal and a waiting parent, share a
\* slot; a slot in use is marked, so that get_process skips it; and a marked slot is in
\* use, so that get_process reports a full table only when NUM_PROCESSES processes exist
\* (syscall.c:557).
SlotsExact ==
  Quiet => \A p \in Procs :
     /\ Cardinality(Claims(p)) <= 1
     /\ process_array[p] <=> Claims(p) # {}

ReturnStep == HaltReturn => cpu'.pc = "user" /\ cpu'.inst = parent[cpu.inst]

\* halt returns control to the process that called execute for the one that halts, in
\* user mode (syscall.c:266).
ReturnsToParent == [][ReturnStep]_vars

\* Whatever runs, and wherever in halt an interrupt arrives, curr_process (on which open,
\* close, getargs and halt work) is the process that switch_task and set_curr_process
\* recorded for the executing terminal.
CurrProcessAgrees ==
  Quiet /\ active[curr_term] => curr_process = current_process[curr_term]

FdsStep ==
  \A t \in Terms : active[t] /\ t # curr_term =>
     fds'[current_process[t]] = fds[current_process[t]]

\* No process opens or closes descriptors of a process that another terminal runs.
FdIsolation == [][FdsStep]_vars

(***************************************************************************)
(* Fairness: the PIT interrupts forever, and a tick that arrives while     *)
(* interrupts are off stays pending in the 8259A until they are on again,  *)
(* hence strong fairness; the code of halt runs when it is not             *)
(* interrupted.                                                            *)
(***************************************************************************)
FairSpec == Spec /\ SF_vars(Tick) /\ WF_vars(HaltStep) /\ WF_vars(Boot)

\* Round robin: every terminal with a shell gets the CPU again and again.
EveryTerminalRuns == \A t \in Terms : active[t] ~> curr_term = t
=============================================================================
