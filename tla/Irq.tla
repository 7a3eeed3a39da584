-------------------------------- MODULE Irq ---------------------------------
(***************************************************************************)
(* Interrupts: the two i8259 controllers as i8259.c programs them, the     *)
(* interrupt flag of the processor, and the handlers of the PIT, of the    *)
(* keyboard and of the RTC with lock, rtc_lock and the end-of-interrupt    *)
(* commands.  Every terminal has a process with a kernel stack of its own, *)
(* on which handlers leave their frames; switch_task exchanges the stacks. *)
(*                                                                         *)
(* A handler does what it does with interrupts off in one step.  "sti;     *)
(* lock = 0" is one step too: the processor takes no interrupt between sti *)
(* and the next instruction, which is the store of lock.  The text that    *)
(* keys produce is in modules Keyboard and Console; here they set and      *)
(* clear shift, ctrl, alt and caps.                                        *)
(***************************************************************************)
EXTENDS Integers, Sequences, FiniteSets

CONSTANTS
  NTerm,      \* terminals, 3 in the code
  Keys,       \* a subset of AllKeys
  ListWrites, \* calls of terminal_write for Ctrl-1, Ctrl-2 or Ctrl-3
  MaxDepth,   \* bound: frames on a kernel stack
  MaxHeld     \* bound: keys held at once

\* Keys that are held or not; "digit" is the key 1, 2 or 3.
Shifts   == {"shift_l", "shift_r"}
Holdable == Shifts \cup {"ctrl", "alt"}
AllKeys  == Holdable \cup {"caps", "digit"}

ASSUME ConstantsAssumption ==
  /\ NTerm \in Nat \ {0}
  /\ Keys \subseteq AllKeys
  /\ ListWrites \in Nat \ {0} /\ MaxDepth \in Nat \ {0} /\ MaxHeld \in Nat

Terms == 0 .. NTerm - 1

\* Interrupt lines; the slave is on line 2 of the master.
PIT_IRQ      == 0
KEYBOARD_IRQ == 1
SLAVE_IDX    == 2
RTC_IRQ      == 8
Irqs         == {PIT_IRQ, KEYBOARD_IRQ, RTC_IRQ}
Lines        == Irqs \cup {SLAVE_IDX}

\* Codes of the keyboard: make and break of a key, or Alt with F1, F2, F3.
Codes == [down : Keys] \cup [up : Keys \cap Holdable] \cup [fn : Terms]
NoCode == [none |-> TRUE]

\* Registers: ebx and ebp, which every C function keeps, and the rest.  A value is the
\* terminal whose program put it there, or Lost.
Lost == -1
Registers == [kept : Terms \cup {Lost}, rest : Terms \cup {Lost}]
Own(t) == [kept |-> t, rest |-> t]

Frames == [irq : Irqs, pc : {"start", "body", "list", "end", "late", "iret"},
           left : 0 .. ListWrites, saved : Registers]

VARIABLES
  boot,         \* what entry of kernel.c does next, "run" after execute
  enabled,      \* lines that are not masked
  irr, isr,     \* requested lines, lines in service
  iflag,        \* the interrupt flag
  data,         \* the code in KEYBOARD_DATA_PORT
  held, mods,   \* what the user holds; shift, ctrl, alt, caps
  file_key,     \* history: Ctrl-1, Ctrl-2 or Ctrl-3 was pressed
  lock, rtc_lock,
  curr_term, curr_terminal_number, active,
  stack,        \* frames of handlers on the kernel stack of a terminal
  regs,         \* registers of the processor
  ticked        \* history: terminals whose program a tick interrupted since it last
                \* loaded its registers

pic      == <<enabled, irr, isr>>
user     == <<held, file_key>>
kbdVars  == <<data, user, mods>>
termVars == <<curr_term, curr_terminal_number, active>>
regVars  == <<regs, ticked>>
vars == <<boot, pic, iflag, kbdVars, lock, rtc_lock, termVars, stack, regVars>>

-----------------------------------------------------------------------------
(* i8259.c.                                                                 *)

\* mutant: the line of the slave stays masked
EnableNoCascade(irq) == enabled \cup {irq}

enable_irq(irq) == enabled \cup (IF irq = RTC_IRQ THEN {RTC_IRQ, SLAVE_IDX} ELSE {irq})

(* The specific end-of-interrupt command, to both controllers for a line of *)
(* the slave.                                                               *)
send_eoi(irq) == isr \ (IF irq = RTC_IRQ THEN {RTC_IRQ, SLAVE_IDX} ELSE {irq})

(* Lines that an interrupt occupies while it is in service, and the line of *)
(* the master on which it arrives: lower lines go first.                    *)
Occupies(irq) == IF irq = RTC_IRQ THEN {RTC_IRQ, SLAVE_IDX} ELSE {irq}
Master(irq)   == IF irq = RTC_IRQ THEN SLAVE_IDX ELSE irq

Passes(irq) ==
  /\ irq \in irr
  /\ Occupies(irq) \subseteq enabled
  /\ \A l \in isr : l # irq /\ (l < 8 => Master(irq) < l)

-----------------------------------------------------------------------------
(* Frames on the kernel stack of the terminal that executes.                *)

Current == stack[curr_term]
Top     == Current[Len(Current)]
Handling(irq, pc) == Current # <<>> /\ Top.irq = irq /\ Top.pc = pc

Goto(f)  == stack' = [stack EXCEPT ![curr_term] = [@ EXCEPT ![Len(@)] = f]]
GotoPc(pc) == Goto([Top EXCEPT !.pc = pc])

(* Alt-F for a terminal without a shell is taken while the displayed        *)
(* terminal executes: otherwise switch_terminal saves the context in the    *)
(* wrong PCB, which is the subject of module Kernel.                        *)
SwitchKey(code) == "fn" \in DOMAIN code /\ "alt" \in mods
Launches(code)  == SwitchKey(code) /\ ~active[code.fn]

(* The processor takes the interrupt that goes first, through an interrupt  *)
(* gate.                                                                    *)
Deliver(irq) ==
  /\ boot = "run" /\ iflag
  /\ Passes(irq) /\ \A i \in Irqs : Passes(i) => Master(irq) <= Master(i)
  /\ Len(Current) < MaxDepth
  /\ irq = KEYBOARD_IRQ /\ Launches(data) => curr_term = curr_terminal_number
  /\ irr' = irr \ {irq}
  /\ isr' = isr \cup Occupies(irq)
  /\ iflag' = FALSE
  /\ stack' = [stack EXCEPT ![curr_term] =
                 Append(@, [irq |-> irq, pc |-> "start", left |-> 0, saved |-> regs])]
  /\ regs' = [regs EXCEPT !.rest = Lost]
  /\ ticked' = IF irq = PIT_IRQ /\ Current = <<>> THEN ticked \cup {curr_term} ELSE ticked
  /\ UNCHANGED <<boot, enabled, kbdVars, lock, rtc_lock, termVars>>

(* The linkages of the keyboard and of the RTC push and pop all registers,  *)
(* pit_linkage none: switch_task itself keeps what a C function has to.     *)
\* mutant: the other linkages do not push them either
KeptOnly(f) == [kept |-> f.saved.kept, rest |-> Lost]

Restored(f) == IF f.irq = PIT_IRQ THEN [kept |-> f.saved.kept, rest |-> Lost] ELSE f.saved

(* iret: the flags of the interrupted code come back.                       *)
Iret ==
  /\ Current # <<>> /\ Top.pc = "iret"
  /\ stack' = [stack EXCEPT ![curr_term] = SubSeq(@, 1, Len(@) - 1)]
  /\ iflag' = TRUE
  /\ regs' = Restored(Top)
  /\ UNCHANGED <<boot, pic, kbdVars, lock, rtc_lock, termVars, ticked>>

-----------------------------------------------------------------------------
(* keyboard_handler.                                                        *)

(* The handler is locked: it returns at once.                               *)
KeyboardLocked ==
  /\ Handling(KEYBOARD_IRQ, "start") /\ lock
  /\ GotoPc("iret")
  /\ UNCHANGED <<boot, pic, iflag, kbdVars, lock, rtc_lock, termVars, regVars>>

\* mutant: the end of the interrupt is left to later
LockNoEoi ==
  /\ Handling(KEYBOARD_IRQ, "start") /\ ~lock
  /\ lock' = TRUE
  /\ GotoPc("body")
  /\ UNCHANGED <<boot, pic, iflag, kbdVars, rtc_lock, termVars, regVars>>

KeyboardLock ==
  /\ Handling(KEYBOARD_IRQ, "start") /\ ~lock
  /\ lock' = TRUE
  /\ isr' = send_eoi(KEYBOARD_IRQ)
  /\ GotoPc("body")
  /\ UNCHANGED <<boot, enabled, irr, iflag, kbdVars, rtc_lock, termVars, regVars>>

Flag(key) == IF key \in Shifts THEN "shift" ELSE key

(* shift, ctrl, alt and caps after a code.                                  *)
\* mutant: ctrl stays down
ModsCtrlStuck(code) ==
  IF code = NoCode \/ "fn" \in DOMAIN code THEN mods
  ELSE IF "up" \in DOMAIN code THEN mods \ ({Flag(code.up)} \ {"ctrl"})
  ELSE IF code.down = "caps" /\ "caps" \in mods THEN mods \ {"caps"}
  ELSE mods \cup ({Flag(code.down)} \ {"digit"})

ModsAfter(code) ==
  IF code = NoCode \/ "fn" \in DOMAIN code THEN mods
  ELSE IF "up" \in DOMAIN code THEN mods \ {Flag(code.up)}
  ELSE IF code.down = "caps" /\ "caps" \in mods THEN mods \ {"caps"}
  ELSE mods \cup ({Flag(code.down)} \ {"digit"})

ListKey(code) == "down" \in DOMAIN code /\ code.down = "digit" /\ "ctrl" \in mods

(* The code in the port, if there is one; Alt-F is below.                   *)
KeyboardCode ==
  /\ Handling(KEYBOARD_IRQ, "body")
  /\ ~SwitchKey(data)
  /\ data' = NoCode
  /\ mods' = ModsAfter(data)
  /\ Goto(IF ListKey(data) THEN [Top EXCEPT !.pc = "list", !.left = ListWrites]
          ELSE [Top EXCEPT !.pc = "end"])
  /\ UNCHANGED <<boot, pic, iflag, user, lock, rtc_lock, termVars, regVars>>

(* Ctrl-1, Ctrl-2, Ctrl-3: terminal_write ends with sti.                    *)
KeyboardList ==
  /\ Handling(KEYBOARD_IRQ, "list") /\ Top.left > 0
  /\ iflag' = TRUE
  /\ Goto([Top EXCEPT !.left = @ - 1])
  /\ UNCHANGED <<boot, pic, kbdVars, lock, rtc_lock, termVars, regVars>>

KeyboardListed ==
  /\ Handling(KEYBOARD_IRQ, "list") /\ Top.left = 0
  /\ GotoPc("end")
  /\ UNCHANGED <<boot, pic, iflag, kbdVars, lock, rtc_lock, termVars, regVars>>

(* Alt-F1, F2, F3: the lock is released before switch_terminal.             *)
SwitchActive ==
  /\ Handling(KEYBOARD_IRQ, "body")
  /\ SwitchKey(data) /\ active[data.fn]
  /\ data' = NoCode
  /\ lock' = FALSE
  /\ curr_terminal_number' = data.fn
  /\ GotoPc("late")
  /\ UNCHANGED <<boot, pic, iflag, user, mods, rtc_lock, curr_term, active, regVars>>

(* A shell is executed: the handler stays on its stack until the PIT gives  *)
(* the processor back to the old terminal.                                  *)
\* mutant: the lock is not released
LaunchLocked ==
  /\ Handling(KEYBOARD_IRQ, "body") /\ Launches(data)
  /\ data' = NoCode
  /\ curr_terminal_number' = data.fn /\ curr_term' = data.fn
  /\ active' = [active EXCEPT ![data.fn] = TRUE]
  /\ iflag' = TRUE
  /\ GotoPc("late")
  /\ regs' = Own(data.fn)
  /\ UNCHANGED <<boot, pic, user, mods, lock, rtc_lock, ticked>>

SwitchFresh ==
  /\ Handling(KEYBOARD_IRQ, "body") /\ Launches(data)
  /\ data' = NoCode
  /\ lock' = FALSE
  /\ curr_terminal_number' = data.fn /\ curr_term' = data.fn
  /\ active' = [active EXCEPT ![data.fn] = TRUE]
  /\ iflag' = TRUE
  /\ GotoPc("late")
  /\ regs' = Own(data.fn)
  /\ UNCHANGED <<boot, pic, user, mods, rtc_lock, ticked>>

(* sti; lock = 0, also after switch_terminal.                               *)
KeyboardEnd ==
  /\ Handling(KEYBOARD_IRQ, "end") \/ Handling(KEYBOARD_IRQ, "late")
  /\ iflag' = TRUE
  /\ lock' = FALSE
  /\ GotoPc("iret")
  /\ UNCHANGED <<boot, pic, kbdVars, rtc_lock, termVars, regVars>>

-----------------------------------------------------------------------------
(* rtc_handler.                                                             *)

RtcEnter ==
  /\ Handling(RTC_IRQ, "start")
  /\ rtc_lock' = TRUE
  /\ isr' = IF rtc_lock THEN isr ELSE send_eoi(RTC_IRQ)
  /\ GotoPc(IF rtc_lock THEN "iret" ELSE "end")
  /\ UNCHANGED <<boot, enabled, irr, iflag, kbdVars, lock, termVars, regVars>>

RtcEnd ==
  /\ Handling(RTC_IRQ, "end")
  /\ iflag' = TRUE
  /\ rtc_lock' = FALSE
  /\ GotoPc("iret")
  /\ UNCHANGED <<boot, pic, kbdVars, lock, termVars, regVars>>

-----------------------------------------------------------------------------
(* switch_task: the handler of the PIT.                                     *)

(* The next active terminal, round robin; the same one if there is no other.*)
Distance(t) == (t - curr_term - 1) % NTerm
NextActive  == CHOOSE t \in Terms : active[t] /\ \A u \in Terms : active[u] => Distance(t) <= Distance(u)

PitSwitch ==
  /\ Handling(PIT_IRQ, "start")
  /\ isr' = send_eoi(PIT_IRQ)
  /\ GotoPc("end")
  /\ curr_term' = NextActive
  /\ UNCHANGED <<boot, enabled, irr, iflag, kbdVars, lock, rtc_lock, curr_terminal_number, active, regVars>>

PitEnd ==
  /\ Handling(PIT_IRQ, "end")
  /\ iflag' = TRUE
  /\ GotoPc("iret")
  /\ UNCHANGED <<boot, pic, kbdVars, lock, rtc_lock, termVars, regVars>>

-----------------------------------------------------------------------------
(* Programs.  A program loads its registers again.                          *)
Compute ==
  /\ boot = "run" /\ iflag /\ Current = <<>>
  /\ regs' = Own(curr_term)
  /\ ticked' = ticked \ {curr_term}
  /\ UNCHANGED <<boot, pic, iflag, kbdVars, lock, rtc_lock, termVars, stack>>

(* terminal_write of a system call runs with interrupts off.                *)
WriteBegin ==
  /\ boot = "run" /\ iflag /\ Current = <<>>
  /\ iflag' = FALSE
  /\ UNCHANGED <<boot, pic, kbdVars, lock, rtc_lock, termVars, stack, regVars>>

WriteEnd ==
  /\ boot = "run" /\ ~iflag /\ Current = <<>>
  /\ iflag' = TRUE
  /\ UNCHANGED <<boot, pic, kbdVars, lock, rtc_lock, termVars, stack, regVars>>

-----------------------------------------------------------------------------
(* Devices.  Ticks and keys do not come while a handler has interrupts off, *)
(* which takes it far less time than a period of the PIT or a keystroke, or *)
(* while the stack is at its bound.                                         *)
Calm == Current = <<>> \/ (iflag /\ Len(Current) < MaxDepth)

PitPulse ==
  /\ Calm
  /\ irr' = irr \cup {PIT_IRQ}
  /\ UNCHANGED <<boot, enabled, isr, iflag, kbdVars, lock, rtc_lock, termVars, stack, regVars>>

(* rtc_init turns the periodic interrupt on.                                *)
RtcPulse ==
  /\ boot \in {"pit", "execute", "run"}
  /\ irr' = irr \cup {RTC_IRQ}
  /\ UNCHANGED <<boot, enabled, isr, iflag, kbdVars, lock, rtc_lock, termVars, stack, regVars>>

(* The keyboard has a code for the port when the last one was read.  Keys   *)
(* before the kernel runs are for the boot loader.                          *)
Ready(code) == boot # "i8259" /\ Calm /\ data = NoCode /\ data' = code /\ irr' = irr \cup {KEYBOARD_IRQ}

Press(key) ==
  /\ key \notin held \/ key = "caps"
  /\ key \notin held \cup {"digit"} => Cardinality(held) < MaxHeld
  /\ Ready([down |-> key])
  /\ held' = IF key \in held THEN held \ {key} ELSE held \cup ({key} \ {"digit"})
  /\ file_key' = (file_key \/ (key = "digit" /\ "ctrl" \in held))
  /\ UNCHANGED <<boot, enabled, isr, iflag, mods, lock, rtc_lock, termVars, stack, regVars>>

Release(key) ==
  /\ key \in held \cap Holdable
  /\ Ready([up |-> key])
  /\ held' = held \ {key}
  /\ UNCHANGED <<boot, enabled, isr, iflag, file_key, mods, lock, rtc_lock, termVars, stack, regVars>>

PressFn(t) ==
  /\ Ready([fn |-> t])
  /\ UNCHANGED <<boot, enabled, isr, iflag, user, mods, lock, rtc_lock, termVars, stack, regVars>>

-----------------------------------------------------------------------------
(* entry of kernel.c, with interrupts off until the first program runs.     *)

i8259_init ==
  /\ boot = "i8259"
  /\ boot' = "keyboard"
  /\ enabled' = {} /\ irr' = {} /\ isr' = {}
  /\ UNCHANGED <<iflag, kbdVars, lock, rtc_lock, termVars, stack, regVars>>

BootEnable(irq, from, to) ==
  /\ boot = from
  /\ boot' = to
  /\ enabled' = enable_irq(irq)
  /\ UNCHANGED <<irr, isr, iflag, kbdVars, lock, rtc_lock, termVars, stack, regVars>>

BootExecute ==
  /\ boot = "execute"
  /\ boot' = "run"
  /\ iflag' = TRUE
  /\ UNCHANGED <<pic, kbdVars, lock, rtc_lock, termVars, stack, regVars>>

Boot ==
  \/ i8259_init
  \/ BootEnable(KEYBOARD_IRQ, "keyboard", "rtc")
  \/ BootEnable(RTC_IRQ, "rtc", "pit")
  \/ BootEnable(PIT_IRQ, "pit", "execute")
  \/ BootExecute

Init ==
  /\ boot = "i8259"
  /\ enabled = {} /\ irr = {} /\ isr = {}
  /\ iflag = FALSE
  /\ data = NoCode /\ held = {} /\ mods = {} /\ file_key = FALSE
  /\ lock = FALSE /\ rtc_lock = FALSE
  /\ curr_term = 0 /\ curr_terminal_number = 0
  /\ active = [t \in Terms |-> t = 0]
  /\ stack = [t \in Terms |-> <<>>]
  /\ regs = Own(0) /\ ticked = {}

Handlers ==
  \/ KeyboardLocked \/ KeyboardLock \/ KeyboardCode
  \/ KeyboardList \/ KeyboardListed \/ SwitchActive \/ SwitchFresh \/ KeyboardEnd
  \/ RtcEnter \/ RtcEnd
  \/ PitSwitch \/ PitEnd
  \/ Iret

Devices ==
  \/ PitPulse \/ RtcPulse
  \/ \E k \in Keys : Press(k) \/ Release(k)
  \/ \E t \in Terms : PressFn(t)

Next ==
  \/ Boot \/ Handlers \/ Devices
  \/ \E irq \in Irqs : Deliver(irq)
  \/ Compute \/ WriteBegin \/ WriteEnd

Spec == Init /\ [][Next]_vars

(* The processor runs, takes an interrupt that waits, and the PIT ticks.    *)
FairSpec ==
  /\ Spec
  /\ WF_vars(Boot) /\ WF_vars(Handlers) /\ WF_vars(WriteEnd)
  /\ WF_vars(PitPulse)
  /\ \A irq \in Irqs : SF_vars(Deliver(irq))

-----------------------------------------------------------------------------
TypeOK ==
  /\ boot \in {"i8259", "keyboard", "rtc", "pit", "execute", "run"}
  /\ enabled \subseteq Lines /\ irr \subseteq Irqs /\ isr \subseteq Lines
  /\ iflag \in BOOLEAN
  /\ data \in Codes \cup {NoCode}
  /\ held \subseteq Keys /\ file_key \in BOOLEAN
  /\ mods \subseteq {"shift", "ctrl", "alt", "caps"}
  /\ lock \in BOOLEAN /\ rtc_lock \in BOOLEAN
  /\ curr_term \in Terms /\ curr_terminal_number \in Terms
  /\ active \in [Terms -> BOOLEAN]
  /\ stack \in [Terms -> Seq(Frames)]
  /\ regs \in Registers /\ ticked \subseteq Terms

HandledNow(l) == Current # <<>> /\ Top.pc = "start" /\ l \in Occupies(Top.irq)

(* Every interrupt in service has its handler on top of the stack, before   *)
(* its send_eoi.                                                            *)
Acknowledged(lines) == \A l \in isr \cap lines : HandledNow(l)

\* No handler leaves an interrupt unacknowledged, after which the controller would hold
\* back that line and the ones below it for good: for the timer and the clock always, for
\* the keyboard until Ctrl-1, Ctrl-2 or Ctrl-3 is pressed (which turns interrupts on while
\* lock is set, although keyboard.c:189 says that the lock "blocks intrrupts").
InServiceHandled ==
  /\ Acknowledged(Lines \ {KEYBOARD_IRQ})
  /\ ~file_key => Acknowledged(Lines)

Locks(f) == f.irq = KEYBOARD_IRQ /\ f.pc \in {"body", "list", "end"}

\* lock is set exactly while one keyboard_handler, the one that runs now, is in its
\* critical section, until Ctrl-1, Ctrl-2 or Ctrl-3 is pressed.  In particular a handler
\* that was left behind by switch_terminal never unlocks another.
LockOwned ==
  ~file_key =>
    /\ lock <=> Current # <<>> /\ Locks(Top)
    /\ \A t \in Terms : \A i \in 1 .. Len(stack[t]) :
         Locks(stack[t][i]) => t = curr_term /\ i = Len(stack[t])

\* ctrl, alt and caps are what the user holds once the code was handled: no make or break
\* code is lost, whichever handlers run between.  So is shift, except that with both
\* shift keys down the first one that is released ends it.
ModsFollowKeys ==
  data = NoCode =>
    LET wanted == {Flag(k) : k \in held} IN
    /\ mods \ {"shift"} = wanted \ {"shift"}
    /\ "shift" \in mods => "shift" \in wanted
    /\ ~(Shifts \subseteq Keys) => mods = wanted

\* A program finds ebx and ebp as it left them whatever interrupts it, and all registers as
\* it left them if that was no tick: keys, the clock, a handler that a tick interrupts and
\* one that switch_terminal leaves behind for a new shell are all without effect on them.
\* What a tick takes besides is what pit_linkage does not save (syscall_link.S:97).
RegistersKept ==
  boot = "run" /\ Current = <<>> =>
    /\ regs.kept = curr_term
    /\ curr_term \notin ticked => regs.rest = curr_term

\* A key that was pressed is handled, whatever the timer, the clock and the programs do,
\* and the clock's interrupt reaches rtc_handler through both controllers, until Ctrl-1,
\* Ctrl-2 or Ctrl-3 is pressed.
InterruptsHandled ==
  /\ data # NoCode ~> data = NoCode \/ file_key
  /\ RTC_IRQ \in irr ~> Handling(RTC_IRQ, "start") \/ file_key
=============================================================================
