-------------------------------- MODULE Rtc ---------------------------------
(***************************************************************************)
(* The real-time clock: rtc_handler, rtc_read, rtc_write, set_rate and     *)
(* toggle_freq of rtc.c, with the part of the chip that they use.          *)
(*                                                                         *)
(* rtc_handler and rtc_write run with interrupts off and are one step      *)
(* each.  rtc_read runs with interrupts on in any number of processes,     *)
(* which share the one flag rtc_interrupt: leaving its loop and clearing   *)
(* the flag are two steps.                                                 *)
(***************************************************************************)
EXTENDS Integers

CONSTANTS
  Procs,        \* processes that read the clock
  Frequencies,  \* frequencies that programs ask for
  Env           \* see EnvKinds

(***************************************************************************)
(* "rate_0" a program stops the clock, or the user does with Ctrl-5        *)
(* "toggle" the user changes the frequency with Ctrl-4                     *)
(***************************************************************************)
EnvKinds == {"rate_0", "toggle"}

ASSUME ConstantsAssumption ==
  /\ Frequencies \subseteq Nat
  /\ Env \subseteq EnvKinds

VARIABLES
  divider, rate,     \* upper and lower four bits of register A
  irq,               \* register C holds an interrupt that was not read yet
  irr,               \* the edge of the chip's line, latched at the i8259
  rtc_interrupt,
  pc,                \* rtc_read in a process
  since_return       \* history: a handler ran since the last rtc_read of a process

chip == <<divider, rate, irq, irr>>
vars == <<chip, rtc_interrupt, pc, since_return>>

(* Register A for a frequency: the switch of set_rate, with the HZ_ values  *)
(* of rtc.h.  Other frequencies change nothing.                             *)
RateFor(freq) ==
  CASE freq = 1024 -> 6 [] freq = 512 -> 7 [] freq = 256 -> 8 [] freq = 128 -> 9
    [] freq = 64 -> 10 [] freq = 32 -> 11 [] freq = 16 -> 12 [] freq = 8 -> 13
    [] freq = 4 -> 14 [] freq = 2 -> 15 [] freq = 0 -> 0 [] OTHER -> rate

-----------------------------------------------------------------------------
(* The chip raises its line; it does so again only when register C was read.*)
Pulse ==
  /\ rate # 0 /\ ~irq
  /\ irq' = TRUE
  /\ irr' = TRUE
  /\ UNCHANGED <<divider, rate, rtc_interrupt, pc, since_return>>

\* mutant: the handler does not read register C
HandlerNoRead ==
  /\ irr
  /\ irr' = FALSE
  /\ rtc_interrupt' = TRUE
  /\ since_return' = [p \in Procs |-> TRUE]
  /\ UNCHANGED <<divider, rate, irq, pc>>

rtc_handler ==
  /\ irr
  /\ irr' = FALSE
  /\ irq' = FALSE
  /\ rtc_interrupt' = TRUE
  /\ since_return' = [p \in Procs |-> TRUE]
  /\ UNCHANGED <<divider, rate, pc>>

-----------------------------------------------------------------------------
ReadCall(p) ==
  /\ pc[p] = "idle"
  /\ pc' = [pc EXCEPT ![p] = "wait"]
  /\ UNCHANGED <<chip, rtc_interrupt, since_return>>

(* The loop of rtc_read ends when it finds the flag set.                    *)
ReadWait(p) ==
  /\ pc[p] = "wait" /\ rtc_interrupt
  /\ pc' = [pc EXCEPT ![p] = "clear"]
  /\ UNCHANGED <<chip, rtc_interrupt, since_return>>

\* mutant: the flag is not cleared
ReadKeep(p) ==
  /\ pc[p] = "clear"
  /\ pc' = [pc EXCEPT ![p] = "idle"]
  /\ since_return' = [since_return EXCEPT ![p] = FALSE]
  /\ UNCHANGED <<chip, rtc_interrupt>>

ReadClear(p) ==
  /\ pc[p] = "clear"
  /\ rtc_interrupt' = FALSE
  /\ pc' = [pc EXCEPT ![p] = "idle"]
  /\ since_return' = [since_return EXCEPT ![p] = FALSE]
  /\ UNCHANGED chip

rtc_write(p, freq) ==
  /\ pc[p] = "idle"
  /\ "rate_0" \in Env \/ freq # 0
  /\ rate' = RateFor(freq)
  /\ UNCHANGED <<divider, irq, irr, rtc_interrupt, pc, since_return>>

(* Ctrl-5: set_rate(0).                                                     *)
StopClock ==
  /\ "rate_0" \in Env
  /\ rate' = RateFor(0)
  /\ UNCHANGED <<divider, irq, irr, rtc_interrupt, pc, since_return>>

(* One less than register A as a whole, or'ed into its upper bits: the      *)
(* borrow from lower bits of 0 ends up in the upper bits, 2 or 3.           *)
toggle_freq ==
  /\ "toggle" \in Env
  /\ \/ rate > 0 /\ rate' = rate - 1 /\ divider' = divider
     \/ rate = 0 /\ rate' = 15 /\ divider' = 3
  /\ UNCHANGED <<irq, irr, rtc_interrupt, pc, since_return>>

-----------------------------------------------------------------------------
(* rtc_init and rtc_open: 2 Hz.                                             *)
Init ==
  /\ divider = 2 /\ rate = 15
  /\ irq = FALSE /\ irr = FALSE
  /\ rtc_interrupt = FALSE
  /\ pc = [p \in Procs |-> "idle"]
  /\ since_return = [p \in Procs |-> FALSE]

Read(p) == ReadWait(p) \/ ReadClear(p)

Next ==
  \/ Pulse \/ rtc_handler \/ toggle_freq \/ StopClock
  \/ \E p \in Procs : ReadCall(p) \/ Read(p) \/ \E f \in Frequencies : rtc_write(p, f)

Spec == Init /\ [][Next]_vars

-----------------------------------------------------------------------------
TypeOK ==
  /\ divider \in {2, 3} /\ rate \in 0 .. 15
  /\ irq \in BOOLEAN /\ irr \in BOOLEAN /\ rtc_interrupt \in BOOLEAN
  /\ pc \in [Procs -> {"idle", "wait", "clear"}]
  /\ since_return \in [Procs -> BOOLEAN]

\* A program that calls rtc_read in a loop is paced by the clock: between two returns of
\* rtc_read in one process lies an interrupt, although all processes share the flag.
PacedByClock == \A p \in Procs : pc[p] = "clear" => since_return[p]

\* However the shared flag is set and cleared, it is not lost for all: while processes
\* wait, one of them goes on, unless the clock is stopped.
SomeReaderReturns ==
  (\E p \in Procs : pc[p] = "wait") ~> (\E p \in Procs : pc[p] = "clear") \/ rate = 0
=============================================================================
