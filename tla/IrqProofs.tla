----------------------------- MODULE IrqProofs ------------------------------
(***************************************************************************)
(* For every number of terminals, every set of keys and every depth of     *)
(* nesting: interrupts are acknowledged, lock has one owner, the modifiers *)
(* follow the keys, and programs keep their registers.                     *)
(***************************************************************************)
EXTENDS Irq, TLAPS, WellFoundedInduction

\* the frames on the kernel stack of terminal t
Depths(t) == 1 .. Len(stack[t])

\* A frame is the one that the processor executes, with interrupts off.
Alone(t, d) == t = curr_term /\ d = Len(stack[t]) /\ ~iflag

\* An interrupt in service that is not acknowledged yet, or rtc_handler with rtc_lock set.
Critical(f) == f.pc = "start" \/ (f.irq = RTC_IRQ /\ f.pc = "end")

\* Critical frames are never left or interrupted.
CriticalInv ==
  /\ \A t \in Terms : \A d \in Depths(t) : Critical(stack[t][d]) => Alone(t, d)
  /\ rtc_lock => Handling(RTC_IRQ, "end")

\* Neither is keyboard_handler while it has the lock, but for Ctrl-1, Ctrl-2 and Ctrl-3.
LockInv ==
  /\ ListKey(data) => file_key
  /\ ~file_key =>
       /\ lock <=> Current # <<>> /\ Locks(Top)
       /\ \A t \in Terms : \A d \in Depths(t) :
            Locks(stack[t][d]) => Alone(t, d) /\ stack[t][d].pc # "list"

\* Before the first program runs there is nothing to return to.
BootInv == boot # "run" => ~iflag /\ isr = {} /\ \A t \in Terms : stack[t] = <<>>

\* The modifiers agree with the keys once the code in the port is handled.
ModsInv ==
  LET wanted == {Flag(k) : k \in held}
      mine   == ModsAfter(data)
  IN  /\ held \subseteq Keys \ {"digit"}
      /\ mine \ {"shift"} = wanted \ {"shift"}
      /\ "shift" \in mine => "shift" \in wanted
      /\ ~(Shifts \subseteq Keys) => mine = wanted

\* The outermost frame of a terminal has the registers of its program, and a terminal that
\* does not execute has such a frame.
RegsInv ==
  /\ active[curr_term]
  /\ \A t \in Terms : active[t] /\ t # curr_term => stack[t] # <<>>
  /\ \A t \in Terms : stack[t] # <<>> =>
       /\ stack[t][1].saved.kept = t
       /\ t \notin ticked => stack[t][1].irq # PIT_IRQ /\ stack[t][1].saved.rest = t
  /\ Current = <<>> => regs.kept = curr_term /\ (curr_term \notin ticked => regs.rest = curr_term)

IInv == TypeOK /\ CriticalInv /\ InServiceHandled /\ LockInv /\ BootInv /\ ModsInv /\ RegsInv

-----------------------------------------------------------------------------
(* Facts about the pieces the actions are built from.                       *)

\* A set of numbers has a least element.
LEMMA Least ==
  ASSUME NEW T, T \subseteq Nat, T # {}
  PROVE  \E x \in T : \A y \in T : x <= y
<1>1. PICK x \in T : \A y \in T : ~(<<y, x>> \in OpToRel(<, Nat))
  BY WFMin, NatLessThanWellFounded
<1>2. \A y \in T : ~(y < x)
  BY <1>1 DEF OpToRel
<1> QED BY <1>2

\* switch_task finds an active terminal.
LEMMA NextActiveFound ==
  ASSUME TypeOK, active[curr_term]
  PROVE  NextActive \in Terms /\ active[NextActive]
<1> DEFINE D == {Distance(t) : t \in {u \in Terms : active[u]}}
<1>1. D \subseteq Nat
  BY ConstantsAssumption DEF Distance, TypeOK, Terms
<1>2. D # {}
  BY DEF TypeOK
<1>3. PICK x \in D : \A y \in D : x <= y
  BY <1>1, <1>2, Least
<1>4. \E t \in Terms : active[t] /\ \A u \in Terms : active[u] => Distance(t) <= Distance(u)
  BY <1>3
<1> QED BY <1>4 DEF NextActive

\* The top frame changes.
LEMMA GotoFacts ==
  ASSUME TypeOK, Current # <<>>, NEW f \in Frames, Goto(f)
  PROVE  /\ stack' \in [Terms -> Seq(Frames)]
         /\ \A t \in Terms : Len(stack'[t]) = Len(stack[t])
         /\ Len(Current) > 0
         /\ \A t \in Terms : \A d \in Depths(t) :
              stack'[t][d] = IF t = curr_term /\ d = Len(Current) THEN f ELSE stack[t][d]
  BY DEF TypeOK, Goto, Current, Depths

\* A frame is pushed.
LEMMA PushFacts ==
  ASSUME TypeOK, NEW f \in Frames, stack' = [stack EXCEPT ![curr_term] = Append(@, f)]
  PROVE  /\ stack' \in [Terms -> Seq(Frames)]
         /\ \A t \in Terms : t # curr_term => stack'[t] = stack[t]
         /\ Len(stack'[curr_term]) = Len(Current) + 1
         /\ stack'[curr_term][Len(Current) + 1] = f
         /\ \A d \in 1 .. Len(Current) : stack'[curr_term][d] = Current[d]
  BY DEF TypeOK, Current

\* The first n elements of a sequence.
LEMMA Front ==
  ASSUME NEW S, NEW q \in Seq(S), NEW n \in Nat, n <= Len(q)
  PROVE  /\ SubSeq(q, 1, n) \in Seq(S) /\ Len(SubSeq(q, 1, n)) = n
         /\ \A d \in 1 .. n : SubSeq(q, 1, n)[d] = q[d]
  OBVIOUS

\* The top frame is popped.
LEMMA PopFacts ==
  ASSUME TypeOK, Current # <<>>,
         stack' = [stack EXCEPT ![curr_term] = SubSeq(@, 1, Len(@) - 1)]
  PROVE  /\ stack' \in [Terms -> Seq(Frames)]
         /\ \A t \in Terms : t # curr_term => stack'[t] = stack[t]
         /\ Len(Current) > 0 /\ Len(stack'[curr_term]) = Len(Current) - 1
         /\ \A d \in 1 .. Len(Current) - 1 : stack'[curr_term][d] = Current[d]
<1> DEFINE s == SubSeq(Current, 1, Len(Current) - 1)
<1>1. /\ Current \in Seq(Frames) /\ curr_term \in Terms
      /\ Len(Current) > 0 /\ Len(Current) - 1 \in Nat /\ Len(Current) - 1 <= Len(Current)
  BY DEF TypeOK, Current
<1>2. /\ s \in Seq(Frames) /\ Len(Current) > 0 /\ Len(s) = Len(Current) - 1
      /\ \A d \in 1 .. Len(Current) - 1 : s[d] = Current[d]
  BY <1>1, Front
<1>3. stack' = [stack EXCEPT ![curr_term] = s] BY DEF Current
<1> HIDE DEF s
<1> QED BY <1>1, <1>2, <1>3 DEF TypeOK

\* The top frame is a frame.
LEMMA TopTyped ==
  ASSUME TypeOK, Current # <<>>
  PROVE  /\ Top \in Frames /\ Len(Current) \in Depths(curr_term)
         /\ Top = stack[curr_term][Len(Current)] /\ Len(Current) = Len(stack[curr_term])
  BY DEF TypeOK, Current, Top, Depths

\* What can be in the port.
LEMMA CodeCases ==
  ASSUME TypeOK
  PROVE  \/ data = NoCode
         \/ \E k \in Keys : data = [down |-> k]
         \/ \E k \in Keys \cap Holdable : data = [up |-> k]
         \/ \E t \in Terms : data = [fn |-> t]
  BY DEF TypeOK, Codes

\* What a code says.
LEMMA CodeFacts ==
  ASSUME NEW k, NEW t
  PROVE  /\ DOMAIN NoCode = {"none"}
         /\ DOMAIN [down |-> k] = {"down"} /\ [down |-> k].down = k /\ [down |-> k] # NoCode
         /\ DOMAIN [up |-> k] = {"up"} /\ [up |-> k].up = k /\ [up |-> k] # NoCode
         /\ DOMAIN [fn |-> t] = {"fn"} /\ [fn |-> t].fn = t /\ [fn |-> t] # NoCode
  BY DEF NoCode

-----------------------------------------------------------------------------
(* A step within a handler: the pc of its frame changes.                    *)

TopGoesTo(c) ==
  /\ Current # <<>> /\ Len(Current) > 0
  /\ stack' \in [Terms -> Seq(Frames)]
  /\ \A t \in Terms : Len(stack'[t]) = Len(stack[t])
  /\ \A t \in Terms : \A d \in Depths(t) :
       ~(t = curr_term /\ d = Len(Current)) => stack'[t][d] = stack[t][d]
  /\ stack'[curr_term][Len(Current)].pc = c
  /\ stack'[curr_term][Len(Current)].irq = Top.irq
  /\ stack'[curr_term][Len(Current)].saved = Top.saved

\* A handler that stores another frame of its own goes to the pc of that frame.
LEMMA GotoMoves ==
  ASSUME TypeOK, Current # <<>>, NEW f \in Frames, Goto(f),
         f.irq = Top.irq, f.saved = Top.saved
  PROVE  TopGoesTo(f.pc)
<1>1. Len(Current) \in Depths(curr_term) /\ curr_term \in Terms
  BY TopTyped DEF TypeOK
<1>2. /\ stack' \in [Terms -> Seq(Frames)]
      /\ \A t \in Terms : Len(stack'[t]) = Len(stack[t])
      /\ Len(Current) > 0
      /\ \A t \in Terms : \A d \in Depths(t) :
           stack'[t][d] = IF t = curr_term /\ d = Len(Current) THEN f ELSE stack[t][d]
  BY GotoFacts
<1> QED BY <1>1, <1>2 DEF TopGoesTo

\* What the pc of a frame can be, as a set.
Pcs == {"start", "body", "list", "end", "late", "iret"}

\* Another pc or another count of writes makes a frame with the same registers.
LEMMA FrameFields ==
  ASSUME NEW f \in Frames, NEW c \in Pcs, NEW n \in 0 .. ListWrites
  PROVE  /\ [f EXCEPT !.pc = c] \in Frames /\ [f EXCEPT !.pc = c].pc = c
         /\ [f EXCEPT !.pc = c].irq = f.irq /\ [f EXCEPT !.pc = c].saved = f.saved
         /\ [f EXCEPT !.pc = c, !.left = n] \in Frames /\ [f EXCEPT !.pc = c, !.left = n].pc = c
         /\ [f EXCEPT !.pc = c, !.left = n].irq = f.irq /\ [f EXCEPT !.pc = c, !.left = n].saved = f.saved
         /\ [f EXCEPT !.left = n] \in Frames /\ [f EXCEPT !.left = n].pc = f.pc
         /\ [f EXCEPT !.left = n].irq = f.irq /\ [f EXCEPT !.left = n].saved = f.saved
  BY DEF Frames, Pcs

\* So does a handler that only goes on.
LEMMA GotoPcMoves ==
  ASSUME TypeOK, Current # <<>>, NEW c \in Pcs, GotoPc(c)
  PROVE  TopGoesTo(c)
<1> DEFINE f == [Top EXCEPT !.pc = c]
<1>1. 0 \in 0 .. ListWrites BY ConstantsAssumption
<1>2. f \in Frames /\ f.pc = c /\ f.irq = Top.irq /\ f.saved = Top.saved
  BY <1>1, TopTyped, FrameFields
<1>3. Goto(f) BY DEF GotoPc
<1> HIDE DEF f
<1> QED BY <1>2, <1>3, GotoMoves

\* A handler goes on: the unacknowledged interrupt and rtc_lock stay with the frame on top.
LEMMA StepCritical ==
  ASSUME TypeOK, CriticalInv, NEW c, TopGoesTo(c), curr_term' \in Terms,
         c = "start" \/ (Top.irq = RTC_IRQ /\ c = "end") => curr_term' = curr_term /\ ~iflag',
         rtc_lock' => curr_term' = curr_term /\ Top.irq = RTC_IRQ /\ c = "end"
  PROVE  CriticalInv'
<1>1. ASSUME NEW t \in Terms, NEW d \in 1 .. Len(stack'[t]), Critical(stack'[t][d])
      PROVE  t = curr_term' /\ d = Len(stack'[t]) /\ ~iflag'
  <2>1. d \in Depths(t) BY DEF TopGoesTo, Depths
  <2>2. CASE t = curr_term /\ d = Len(Current)
    BY <2>2, <1>1 DEF TopGoesTo, Critical, Current
  <2>3. CASE ~(t = curr_term /\ d = Len(Current))
    <3>1. stack'[t][d] = stack[t][d] BY <2>1, <2>3 DEF TopGoesTo
    <3>2. Alone(t, d) BY <3>1, <2>1, <1>1 DEF CriticalInv
    <3> QED BY <3>2, <2>3 DEF Alone, Current
  <2> QED BY <2>2, <2>3
<1>2. rtc_lock' => Handling(RTC_IRQ, "end")'
  BY DEF TopGoesTo, Handling, Current, Top, TypeOK
<1> QED BY <1>1, <1>2 DEF CriticalInv, Depths, Alone, Critical

\* A handler goes on: lock stays with the keyboard_handler on top.
LEMMA StepLock ==
  ASSUME TypeOK, LockInv, NEW c, TopGoesTo(c), curr_term' \in Terms,
         file_key' = file_key, ListKey(data)' => file_key,
         ~file_key => /\ lock' <=> curr_term' = curr_term /\ Top.irq = KEYBOARD_IRQ /\ c \in {"body", "list", "end"}
                      /\ lock' => ~iflag' /\ c # "list",
         Top.irq = KEYBOARD_IRQ /\ c \in {"body", "list", "end"} => curr_term' = curr_term
  PROVE  LockInv'
<1> SUFFICES ASSUME ~file_key
             PROVE  /\ lock' <=> (Current # <<>> /\ Locks(Top))'
                    /\ \A t \in Terms : \A d \in 1 .. Len(stack'[t]) :
                         Locks(stack'[t][d]) => /\ t = curr_term' /\ d = Len(stack'[t]) /\ ~iflag'
                                                /\ stack'[t][d].pc # "list"
  BY DEF LockInv, Depths, Alone, Locks
<1>1. \A t \in Terms : \A d \in Depths(t) : Locks(stack[t][d]) => t = curr_term /\ d = Len(Current)
  BY DEF LockInv, Alone, Current
<1>2. ASSUME NEW t \in Terms, NEW d \in 1 .. Len(stack'[t]), Locks(stack'[t][d])
      PROVE  /\ t = curr_term /\ d = Len(Current)
             /\ Top.irq = KEYBOARD_IRQ /\ c \in {"body", "list", "end"}
  <2>1. d \in Depths(t) BY DEF TopGoesTo, Depths
  <2>2. CASE t = curr_term /\ d = Len(Current)
    BY <2>2, <1>2 DEF TopGoesTo, Locks
  <2>3. CASE ~(t = curr_term /\ d = Len(Current))
    <3>1. stack'[t][d] = stack[t][d] BY <2>1, <2>3 DEF TopGoesTo
    <3> QED BY <3>1, <2>1, <2>3, <1>1, <1>2
  <2> QED BY <2>2, <2>3
<1>3. ASSUME NEW t \in Terms, NEW d \in 1 .. Len(stack'[t]), Locks(stack'[t][d])
      PROVE  t = curr_term' /\ d = Len(stack'[t]) /\ ~iflag' /\ stack'[t][d].pc # "list"
  BY <1>2, <1>3 DEF TopGoesTo, Current
<1>4. lock' => (Current # <<>> /\ Locks(Top))'
  BY DEF TopGoesTo, Current, Top, TypeOK, Locks
<1>5. ASSUME (Current # <<>> /\ Locks(Top))' PROVE lock'
  <2>1. Len(stack'[curr_term']) \in 1 .. Len(stack'[curr_term']) /\ Locks(stack'[curr_term'][Len(stack'[curr_term'])])
    BY <1>5 DEF Current, Top, TopGoesTo, Locks
  <2> QED BY <2>1, <1>2
<1> QED BY <1>3, <1>4, <1>5

\* A handler goes on past its send_eoi: no interrupt is left in service.
LEMMA StepService ==
  ASSUME TypeOK, InServiceHandled, NEW c, TopGoesTo(c), c # "start",
         file_key' = file_key, isr' \subseteq isr,
         \A l \in isr' : HandledNow(l) => l = KEYBOARD_IRQ /\ file_key
  PROVE  InServiceHandled'
<1>1. \A l \in isr' \cap (Lines \ {KEYBOARD_IRQ}) : FALSE
  BY DEF InServiceHandled, Acknowledged
<1>2. ~file_key => \A l \in isr' \cap Lines : FALSE
  BY DEF InServiceHandled, Acknowledged
<1> QED BY <1>1, <1>2 DEF InServiceHandled, Acknowledged

\* A handler goes on: the registers that the outermost frames saved are kept.
LEMMA BottomKept ==
  ASSUME TypeOK, NEW c, TopGoesTo(c)
  PROVE  \A t \in Terms : stack[t] # <<>> =>
           stack'[t][1].saved = stack[t][1].saved /\ stack'[t][1].irq = stack[t][1].irq
<1> TAKE t \in Terms
<1> HAVE stack[t] # <<>>
<1>1. 1 \in Depths(t) BY DEF Depths, TypeOK
<1>2. CASE t = curr_term /\ Len(Current) = 1
  BY <1>2, TopTyped DEF TopGoesTo
<1>3. CASE ~(t = curr_term /\ Len(Current) = 1)
  BY <1>1, <1>3 DEF TopGoesTo
<1> QED BY <1>2, <1>3

\* A handler goes on in the same terminal: programs keep their registers.
LEMMA StepRegs ==
  ASSUME TypeOK, RegsInv, NEW c, TopGoesTo(c), UNCHANGED <<curr_term, active, regVars>>
  PROVE  RegsInv'
<1>1. \A t \in Terms : stack'[t] # <<>> <=> stack[t] # <<>>
  BY DEF TypeOK, TopGoesTo
<1>2. \A t \in Terms : stack[t] # <<>> =>
        stack'[t][1].saved = stack[t][1].saved /\ stack'[t][1].irq = stack[t][1].irq
  BY BottomKept
<1> QED BY <1>1, <1>2 DEF RegsInv, TypeOK, regVars, Current, TopGoesTo

-----------------------------------------------------------------------------
(* The modifiers.                                                           *)

\* The modifiers after a make code.
LEMMA MakeAfter ==
  ASSUME NEW k
  PROVE  ModsAfter([down |-> k]) = IF k = "caps" /\ "caps" \in mods THEN mods \ {"caps"}
                                   ELSE mods \cup ({Flag(k)} \ {"digit"})
<1> DEFINE c == [down |-> k]
<1>1. c # NoCode /\ DOMAIN c = {"down"} /\ c.down = k BY CodeFacts
<1> SUFFICES ModsAfter(c) = IF k = "caps" /\ "caps" \in mods THEN mods \ {"caps"}
                            ELSE mods \cup ({Flag(k)} \ {"digit"})
  OBVIOUS
<1> HIDE DEF c
<1> QED BY <1>1 DEF ModsAfter

\* The modifiers after a break code.
LEMMA BreakAfter == ASSUME NEW k PROVE ModsAfter([up |-> k]) = mods \ {Flag(k)}
<1> DEFINE c == [up |-> k]
<1>1. c # NoCode /\ DOMAIN c = {"up"} /\ c.up = k BY CodeFacts
<1> SUFFICES ModsAfter(c) = mods \ {Flag(k)} OBVIOUS
<1> HIDE DEF c
<1> QED BY <1>1 DEF ModsAfter

\* F1, F2 and F3 are no modifiers.
LEMMA FnAfter == ASSUME NEW t PROVE ModsAfter([fn |-> t]) = mods
<1> DEFINE c == [fn |-> t]
<1>1. DOMAIN c = {"fn"} BY CodeFacts
<1> HIDE DEF c
<1> QED BY <1>1 DEF ModsAfter

\* The modifiers are shift, ctrl, alt and caps.
LEMMA ModsTyped ==
  ASSUME TypeOK
  PROVE  ModsAfter(data) \subseteq {"shift", "ctrl", "alt", "caps"}
<1>1. mods \subseteq {"shift", "ctrl", "alt", "caps"} BY DEF TypeOK
<1>2. CASE data = NoCode BY <1>1, <1>2 DEF ModsAfter
<1>3. ASSUME NEW k \in Keys, data = [down |-> k] PROVE ModsAfter(data) \subseteq {"shift", "ctrl", "alt", "caps"}
  <2>1. Flag(k) \in {"shift", "ctrl", "alt", "caps", "digit"}
    BY ConstantsAssumption DEF Flag, AllKeys, Holdable, Shifts
  <2>2. ModsAfter(data) \subseteq mods \cup ({Flag(k)} \ {"digit"})
    BY <1>3, MakeAfter
  <2> QED BY <1>1, <2>1, <2>2
<1>4. ASSUME NEW k \in Keys \cap Holdable, data = [up |-> k] PROVE ModsAfter(data) \subseteq {"shift", "ctrl", "alt", "caps"}
  BY <1>1, <1>4, BreakAfter
<1>5. ASSUME NEW t \in Terms, data = [fn |-> t] PROVE ModsAfter(data) \subseteq {"shift", "ctrl", "alt", "caps"}
  BY <1>1, <1>5, FnAfter
<1> QED BY <1>2, <1>3, <1>4, <1>5, CodeCases

\* Without a code and a key the modifiers agree as before.
LEMMA ModsSame ==
  ASSUME ModsInv, UNCHANGED <<data, held, mods>>
  PROVE  ModsInv'
  BY DEF ModsInv, ModsAfter

\* A handled code makes the modifiers what they were to be.
LEMMA ModsHandled ==
  ASSUME ModsInv, held' = held, data' = NoCode, mods' = ModsAfter(data)
  PROVE  ModsInv'
<1>1. ModsAfter(data)' = mods' BY DEF ModsAfter
<1> QED BY <1>1 DEF ModsInv

\* An empty port holds no Ctrl-1, Ctrl-2 or Ctrl-3.
LEMMA NoListKey == ASSUME data' = NoCode PROVE ~ListKey(data)'
  BY CodeFacts DEF ListKey

-----------------------------------------------------------------------------
(* The handlers.                                                            *)

\* Handlers run only after execute.
LEMMA Running == ASSUME TypeOK, BootInv, Current # <<>> PROVE boot = "run"
  BY DEF BootInv, Current, TypeOK

\* A step of a handler that leaves the terminal that executes as it is.
LEMMA StepInv ==
  ASSUME IInv, NEW c, TopGoesTo(c), c # "start",
         UNCHANGED <<boot, enabled, irr, user, curr_term, active, regVars>>,
         isr' \subseteq isr, iflag' \in BOOLEAN, lock' \in BOOLEAN, rtc_lock' \in BOOLEAN,
         curr_terminal_number' \in Terms,
         UNCHANGED <<data, mods>> \/ (data' = NoCode /\ mods' = ModsAfter(data)),
         Top.irq = RTC_IRQ /\ c = "end" => ~iflag',
         rtc_lock' => Top.irq = RTC_IRQ /\ c = "end",
         ~file_key => /\ lock' <=> Top.irq = KEYBOARD_IRQ /\ c \in {"body", "list", "end"}
                      /\ lock' => ~iflag' /\ c # "list",
         \A l \in isr' : HandledNow(l) => l = KEYBOARD_IRQ /\ file_key
  PROVE  IInv'
<1>1. TypeOK /\ CriticalInv /\ InServiceHandled /\ LockInv /\ BootInv /\ ModsInv /\ RegsInv
  BY DEF IInv
<1>2. TypeOK'
  <2>1. data' \in Codes \cup {NoCode} /\ mods' \subseteq {"shift", "ctrl", "alt", "caps"}
    BY <1>1, ModsTyped DEF TypeOK
  <2> QED BY <1>1, <2>1 DEF TypeOK, TopGoesTo, user, regVars
<1>3. CriticalInv'
  BY <1>1, StepCritical DEF TypeOK
<1>4. LockInv'
  <2>1. ListKey(data)' => file_key
    BY <1>1, NoListKey DEF LockInv, ListKey
  <2> QED BY <1>1, <2>1, StepLock DEF TypeOK, user
<1>5. InServiceHandled'
  BY <1>1, StepService DEF user
<1>6. BootInv'
  BY <1>1, Running DEF TopGoesTo, BootInv
<1>7. ModsInv'
  BY <1>1, ModsSame, ModsHandled DEF user
<1>8. RegsInv'
  BY <1>1, StepRegs
<1> QED BY <1>2, <1>3, <1>4, <1>5, <1>6, <1>7, <1>8 DEF IInv

\* keyboard_handler returns at once: only after Ctrl-1, Ctrl-2 or Ctrl-3.
LEMMA KeyboardLockedInv == ASSUME IInv, KeyboardLocked PROVE IInv'
<1> USE DEF pic, kbdVars, user, termVars
<1>1. /\ TypeOK /\ CriticalInv /\ LockInv /\ Current # <<>> /\ GotoPc("iret") /\ lock
      /\ Top.irq = KEYBOARD_IRQ /\ Top.pc = "start"
  BY DEF IInv, KeyboardLocked, Handling
<1>2. TopGoesTo("iret") BY <1>1, GotoPcMoves DEF Pcs
<1>3. file_key BY <1>1 DEF LockInv, Locks
<1>4. ~rtc_lock BY <1>1 DEF CriticalInv, Handling
<1>5. \A l : HandledNow(l) => l = KEYBOARD_IRQ
  BY <1>1 DEF HandledNow, Occupies, KEYBOARD_IRQ, RTC_IRQ
<1> QED BY <1>1, <1>2, <1>3, <1>4, <1>5, StepInv DEF KeyboardLocked, TypeOK

\* keyboard_handler takes the lock and acknowledges.
LEMMA KeyboardLockInv == ASSUME IInv, KeyboardLock PROVE IInv'
<1> USE DEF kbdVars, user, termVars
<1>1. /\ TypeOK /\ CriticalInv /\ Current # <<>> /\ GotoPc("body")
      /\ Top.irq = KEYBOARD_IRQ /\ Top.pc = "start"
  BY DEF IInv, KeyboardLock, Handling
<1>2. TopGoesTo("body") BY <1>1, GotoPcMoves DEF Pcs
<1>3. ~rtc_lock BY <1>1 DEF CriticalInv, Handling
<1>4. ~iflag BY <1>1, TopTyped DEF CriticalInv, Critical, Alone, TypeOK
<1>5. \A l \in isr' : ~HandledNow(l)
  BY <1>1 DEF KeyboardLock, HandledNow, Occupies, send_eoi, KEYBOARD_IRQ, RTC_IRQ
<1>6. isr' \subseteq isr BY DEF KeyboardLock, send_eoi
<1> QED BY <1>1, <1>2, <1>3, <1>4, <1>5, <1>6, StepInv DEF KeyboardLock, TypeOK

\* keyboard_handler between its lock and its end.
LEMMA Locked ==
  ASSUME IInv, Current # <<>>, Top.irq = KEYBOARD_IRQ, Top.pc \in {"body", "list", "end"}
  PROVE  /\ TypeOK /\ ~rtc_lock
         /\ ~file_key => lock /\ ~iflag /\ Top.pc # "list"
         /\ \A l : ~HandledNow(l)
<1>1. TypeOK /\ CriticalInv /\ LockInv BY DEF IInv
<1>2. ~file_key => lock /\ ~iflag /\ Top.pc # "list"
  BY <1>1, TopTyped DEF LockInv, Locks, Alone, TypeOK
<1> QED BY <1>1, <1>2 DEF CriticalInv, Handling, HandledNow, KEYBOARD_IRQ, RTC_IRQ

\* keyboard_handler handles the code in the port.
LEMMA KeyboardCodeInv == ASSUME IInv, KeyboardCode PROVE IInv'
<1> USE DEF pic, kbdVars, user, termVars
<1> DEFINE c == IF ListKey(data) THEN "list" ELSE "end"
           f == IF ListKey(data) THEN [Top EXCEPT !.pc = "list", !.left = ListWrites]
                ELSE [Top EXCEPT !.pc = "end"]
<1>1. /\ TypeOK /\ LockInv /\ Current # <<>> /\ Goto(f) /\ Top.irq = KEYBOARD_IRQ /\ Top.pc = "body"
  BY DEF IInv, KeyboardCode, Handling
<1>2. /\ TypeOK /\ ~rtc_lock
      /\ ~file_key => lock /\ ~iflag /\ Top.pc # "list"
      /\ \A l : ~HandledNow(l)
  BY <1>1, Locked
<1>3. ListWrites \in 0 .. ListWrites BY ConstantsAssumption
<1>4. f \in Frames /\ f.pc = c /\ f.irq = Top.irq /\ f.saved = Top.saved
  <2>1. Top \in Frames /\ "list" \in Pcs /\ "end" \in Pcs BY <1>1, TopTyped DEF Pcs
  <2> DEFINE g == [Top EXCEPT !.pc = "list", !.left = ListWrites]
             h == [Top EXCEPT !.pc = "end"]
  <2>2. /\ g \in Frames /\ g.pc = "list" /\ g.irq = Top.irq /\ g.saved = Top.saved
        /\ h \in Frames /\ h.pc = "end" /\ h.irq = Top.irq /\ h.saved = Top.saved
    <3>1. g \in Frames /\ g.pc = "list" /\ g.irq = Top.irq /\ g.saved = Top.saved
      BY <2>1, <1>3 DEF Frames
    <3>2. h \in Frames /\ h.pc = "end" /\ h.irq = Top.irq /\ h.saved = Top.saved
      BY <2>1 DEF Frames
    <3> QED BY <3>1, <3>2
  <2>3. f = IF ListKey(data) THEN g ELSE h OBVIOUS
  <2> HIDE DEF f, g, h
  <2> QED BY <2>2, <2>3
<1>5. c \in {"list", "end"} /\ (~file_key => c = "end")
  BY <1>1 DEF LockInv
<1> HIDE DEF f, c
<1>6. TopGoesTo(c) BY <1>1, <1>4, GotoMoves
<1> QED BY <1>1, <1>2, <1>5, <1>6, StepInv DEF KeyboardCode, TypeOK, KEYBOARD_IRQ, RTC_IRQ

\* terminal_write within keyboard_handler turns interrupts on.
LEMMA KeyboardListInv == ASSUME IInv, KeyboardList PROVE IInv'
<1> USE DEF pic, kbdVars, user, termVars
<1> DEFINE f == [Top EXCEPT !.left = @ - 1]
<1>1. /\ TypeOK /\ Current # <<>> /\ Goto(f) /\ Top.irq = KEYBOARD_IRQ /\ Top.pc = "list"
  BY DEF IInv, KeyboardList, Handling
<1>2. /\ TypeOK /\ ~rtc_lock
      /\ ~file_key => lock /\ ~iflag /\ Top.pc # "list"
      /\ \A l : ~HandledNow(l)
  BY <1>1, Locked
<1>3. Top \in Frames /\ Top.left - 1 \in 0 .. ListWrites
  <2>1. Top \in Frames /\ Top.left > 0 BY <1>1, TopTyped DEF KeyboardList
  <2>2. Top.left \in 0 .. ListWrites BY <2>1 DEF Frames
  <2> QED BY <2>1, <2>2, ConstantsAssumption
<1>4. f = [Top EXCEPT !.left = Top.left - 1] BY <1>3 DEF Frames
<1>5. f \in Frames /\ f.pc = "list" /\ f.irq = Top.irq /\ f.saved = Top.saved
  <2>1. "list" \in Pcs BY DEF Pcs
  <2> QED BY <2>1, <1>1, <1>3, <1>4, FrameFields
<1> HIDE DEF f
<1>6. TopGoesTo("list") BY <1>1, <1>5, GotoMoves
<1> QED BY <1>1, <1>2, <1>6, StepInv DEF KeyboardList, TypeOK, KEYBOARD_IRQ, RTC_IRQ

\* The files are listed.
LEMMA KeyboardListedInv == ASSUME IInv, KeyboardListed PROVE IInv'
<1> USE DEF pic, kbdVars, user, termVars
<1>1. TypeOK /\ Current # <<>> /\ GotoPc("end") /\ Top.irq = KEYBOARD_IRQ /\ Top.pc = "list"
  BY DEF IInv, KeyboardListed, Handling
<1>2. ~rtc_lock /\ file_key /\ \A l : ~HandledNow(l)
  BY <1>1, Locked
<1>3. TopGoesTo("end") BY <1>1, GotoPcMoves DEF Pcs
<1> QED BY <1>1, <1>2, <1>3, StepInv DEF KeyboardListed, TypeOK, KEYBOARD_IRQ, RTC_IRQ

\* The code of Alt-F1, F2, F3 names a terminal and changes no modifier.
LEMMA SwitchCode ==
  ASSUME TypeOK, SwitchKey(data)
  PROVE  data.fn \in Terms /\ mods = ModsAfter(data)
  BY CodeCases, CodeFacts DEF SwitchKey, ModsAfter

\* Alt-F to a terminal with a shell.
LEMMA SwitchActiveInv == ASSUME IInv, SwitchActive PROVE IInv'
<1> USE DEF pic, kbdVars, user, termVars
<1>1. TypeOK /\ Current # <<>> /\ GotoPc("late") /\ Top.irq = KEYBOARD_IRQ /\ Top.pc = "body"
  BY DEF IInv, SwitchActive, Handling
<1>2. ~rtc_lock /\ \A l : ~HandledNow(l)
  BY <1>1, Locked
<1>3. TopGoesTo("late") BY <1>1, GotoPcMoves DEF Pcs
<1>4. data.fn \in Terms /\ mods = ModsAfter(data)
  BY <1>1, SwitchCode DEF SwitchActive
<1> QED BY <1>1, <1>2, <1>3, <1>4, StepInv DEF SwitchActive, TypeOK, KEYBOARD_IRQ, RTC_IRQ

\* sti; lock = 0.
LEMMA KeyboardEndInv == ASSUME IInv, KeyboardEnd PROVE IInv'
<1> USE DEF pic, kbdVars, user, termVars
<1>1. /\ TypeOK /\ CriticalInv /\ Current # <<>> /\ GotoPc("iret") /\ Top.irq = KEYBOARD_IRQ
      /\ Top.pc \in {"end", "late"}
  BY DEF IInv, KeyboardEnd, Handling
<1>2. ~rtc_lock /\ \A l : ~HandledNow(l)
  BY <1>1 DEF CriticalInv, Handling, HandledNow, KEYBOARD_IRQ, RTC_IRQ
<1>3. TopGoesTo("iret") BY <1>1, GotoPcMoves DEF Pcs
<1> QED BY <1>1, <1>2, <1>3, StepInv DEF KeyboardEnd, TypeOK

\* rtc_handler finds rtc_lock free, takes it and acknowledges.
LEMMA RtcEnterInv == ASSUME IInv, RtcEnter PROVE IInv'
<1> USE DEF kbdVars, user, termVars
<1>1. /\ TypeOK /\ CriticalInv /\ LockInv /\ Current # <<>>
      /\ Top.irq = RTC_IRQ /\ Top.pc = "start"
  BY DEF IInv, RtcEnter, Handling
<1>2. ~rtc_lock BY <1>1 DEF CriticalInv, Handling
<1>3. GotoPc("end") /\ isr' = send_eoi(RTC_IRQ) BY <1>2 DEF RtcEnter
<1>4. TopGoesTo("end") BY <1>1, <1>3, GotoPcMoves DEF Pcs
<1>5. ~iflag BY <1>1, TopTyped DEF CriticalInv, Critical, Alone, TypeOK
<1>6. \A l \in isr' : ~HandledNow(l)
  BY <1>1, <1>3 DEF HandledNow, Occupies, send_eoi
<1>7. isr' \subseteq isr BY <1>3 DEF send_eoi
<1>8. ~file_key => ~lock BY <1>1 DEF LockInv, Locks, KEYBOARD_IRQ, RTC_IRQ
<1> QED BY <1>1, <1>4, <1>5, <1>6, <1>7, <1>8, StepInv DEF RtcEnter, TypeOK, KEYBOARD_IRQ, RTC_IRQ

\* rtc_handler ends.
LEMMA RtcEndInv == ASSUME IInv, RtcEnd PROVE IInv'
<1> USE DEF pic, kbdVars, user, termVars
<1>1. /\ TypeOK /\ LockInv /\ Current # <<>> /\ GotoPc("iret")
      /\ Top.irq = RTC_IRQ /\ Top.pc = "end"
  BY DEF IInv, RtcEnd, Handling
<1>2. TopGoesTo("iret") BY <1>1, GotoPcMoves DEF Pcs
<1>3. ~file_key => ~lock BY <1>1 DEF LockInv, Locks, KEYBOARD_IRQ, RTC_IRQ
<1>4. \A l : ~HandledNow(l) BY <1>1 DEF HandledNow
<1> QED BY <1>1, <1>2, <1>3, <1>4, StepInv DEF RtcEnd, TypeOK

\* The terminal that switch_task chose goes on.
LEMMA PitEndInv == ASSUME IInv, PitEnd PROVE IInv'
<1> USE DEF pic, kbdVars, user, termVars
<1>1. /\ TypeOK /\ LockInv /\ CriticalInv /\ Current # <<>> /\ GotoPc("iret")
      /\ Top.irq = PIT_IRQ /\ Top.pc = "end"
  BY DEF IInv, PitEnd, Handling
<1>2. TopGoesTo("iret") BY <1>1, GotoPcMoves DEF Pcs
<1>3. ~file_key => ~lock BY <1>1 DEF LockInv, Locks, KEYBOARD_IRQ, PIT_IRQ
<1>4. (\A l : ~HandledNow(l)) /\ ~rtc_lock
  BY <1>1 DEF HandledNow, CriticalInv, Handling, PIT_IRQ, RTC_IRQ
<1> QED BY <1>1, <1>2, <1>3, <1>4, StepInv DEF PitEnd, TypeOK

\* Alt-F to a terminal without a shell: the handler stays behind on its stack, unlocked.
LEMMA SwitchFreshInv == ASSUME IInv, SwitchFresh PROVE IInv'
<1> USE DEF pic, kbdVars, user, termVars
<1> DEFINE n == data.fn
<1>1. /\ TypeOK /\ CriticalInv /\ InServiceHandled /\ LockInv /\ BootInv /\ ModsInv /\ RegsInv
      /\ Current # <<>> /\ GotoPc("late") /\ Top.irq = KEYBOARD_IRQ /\ Top.pc = "body"
  BY DEF IInv, SwitchFresh, Handling
<1>2. ~rtc_lock /\ \A l : ~HandledNow(l)
  BY <1>1, Locked
<1>3. TopGoesTo("late") BY <1>1, GotoPcMoves DEF Pcs
<1>4. n \in Terms /\ mods = ModsAfter(data) /\ ~active[n]
  BY <1>1, SwitchCode DEF SwitchFresh, Launches
<1>5. /\ data' = NoCode /\ mods' = ModsAfter(data)
      /\ UNCHANGED <<boot, enabled, irr, isr, held, file_key, rtc_lock, ticked>>
      /\ lock' = FALSE /\ curr_terminal_number' = n /\ curr_term' = n /\ iflag' = TRUE
      /\ active' = [active EXCEPT ![n] = TRUE] /\ regs' = Own(n)
  BY <1>4 DEF SwitchFresh
<1> HIDE DEF n
<1>6. curr_term \in Terms /\ curr_term # n BY <1>1, <1>4 DEF TypeOK, RegsInv
<1>7. TypeOK'
  <2>1. mods' \subseteq {"shift", "ctrl", "alt", "caps"} BY <1>1, <1>5, ModsTyped
  <2>2. Own(n) \in Registers BY <1>4 DEF Own, Registers
  <2> QED BY <1>1, <1>3, <1>4, <1>5, <2>1, <2>2 DEF TypeOK, TopGoesTo
<1>8. CriticalInv'
  BY <1>1, <1>2, <1>3, <1>4, <1>5, StepCritical DEF RTC_IRQ, KEYBOARD_IRQ
<1>9. LockInv'
  BY <1>1, <1>3, <1>4, <1>5, NoListKey, StepLock
<1>10. InServiceHandled'
  BY <1>1, <1>2, <1>3, <1>5, StepService
<1>11. BootInv'
  BY <1>1, <1>5, Running DEF BootInv
<1>12. ModsInv'
  BY <1>1, <1>5, ModsHandled
<1>13. RegsInv'
  <2>1. \A t \in Terms : stack'[t] # <<>> <=> stack[t] # <<>>
    BY <1>1, <1>3 DEF TypeOK, TopGoesTo
  <2>2. \A t \in Terms : stack[t] # <<>> =>
          stack'[t][1].saved = stack[t][1].saved /\ stack'[t][1].irq = stack[t][1].irq
    BY <1>1, <1>3, BottomKept
  <2>3. \A t \in Terms : active'[t] /\ t # n => stack'[t] # <<>>
    BY <1>1, <1>4, <1>5, <2>1 DEF RegsInv, TypeOK, Current
  <2>4. \A t \in Terms : stack'[t] # <<>> =>
          /\ stack'[t][1].saved.kept = t
          /\ t \notin ticked => stack'[t][1].irq # PIT_IRQ /\ stack'[t][1].saved.rest = t
    BY <1>1, <2>1, <2>2 DEF RegsInv
  <2>5. regs'.kept = n /\ regs'.rest = n BY <1>5 DEF Own
  <2>6. active'[n] BY <1>1, <1>4, <1>5 DEF TypeOK
  <2> QED BY <1>5, <2>3, <2>4, <2>5, <2>6 DEF RegsInv, Current
<1> QED BY <1>7, <1>8, <1>9, <1>10, <1>11, <1>12, <1>13 DEF IInv

\* switch_task gives the processor to a terminal that has a frame to return to.
LEMMA PitSwitchInv == ASSUME IInv, PitSwitch PROVE IInv'
<1> USE DEF kbdVars, user, termVars, regVars
<1> DEFINE n == NextActive
<1>1. /\ TypeOK /\ CriticalInv /\ InServiceHandled /\ LockInv /\ BootInv /\ ModsInv /\ RegsInv
      /\ Current # <<>> /\ GotoPc("end") /\ Top.irq = PIT_IRQ /\ Top.pc = "start"
  BY DEF IInv, PitSwitch, Handling
<1>2. ~rtc_lock BY <1>1 DEF CriticalInv, Handling
<1>3. TopGoesTo("end") BY <1>1, GotoPcMoves DEF Pcs
<1>4. n \in Terms /\ active[n]
  BY <1>1, NextActiveFound DEF RegsInv
<1>5. /\ UNCHANGED <<boot, enabled, irr, iflag, data, held, file_key, mods, lock, rtc_lock>>
      /\ UNCHANGED <<curr_terminal_number, active, regs, ticked>>
      /\ isr' = send_eoi(PIT_IRQ) /\ curr_term' = n
  BY DEF PitSwitch
<1> HIDE DEF n
<1>6. isr' \subseteq isr /\ \A l \in isr' : ~HandledNow(l)
  BY <1>1, <1>5 DEF send_eoi, HandledNow, Occupies
<1>7. TypeOK'
  BY <1>1, <1>3, <1>4, <1>5, <1>6 DEF TypeOK, TopGoesTo
<1>8. CriticalInv'
  BY <1>1, <1>2, <1>3, <1>4, <1>5, StepCritical DEF RTC_IRQ, PIT_IRQ
<1>9. LockInv'
  <2>1. ~file_key => ~lock BY <1>1 DEF LockInv, Locks, PIT_IRQ, KEYBOARD_IRQ
  <2>2. ListKey(data)' => file_key BY <1>1, <1>5 DEF LockInv, ListKey
  <2> QED BY <1>1, <1>3, <1>4, <1>5, <2>1, <2>2, StepLock DEF PIT_IRQ, KEYBOARD_IRQ
<1>10. InServiceHandled'
  BY <1>1, <1>3, <1>5, <1>6, StepService
<1>11. BootInv'
  BY <1>1, <1>5, Running DEF BootInv
<1>12. ModsInv'
  BY <1>1, <1>5, ModsSame
<1>13. RegsInv'
  <2>1. \A t \in Terms : stack'[t] # <<>> <=> stack[t] # <<>>
    BY <1>1, <1>3 DEF TypeOK, TopGoesTo
  <2>2. \A t \in Terms : stack[t] # <<>> =>
          stack'[t][1].saved = stack[t][1].saved /\ stack'[t][1].irq = stack[t][1].irq
    BY <1>1, <1>3, BottomKept
  <2>3. \A t \in Terms : active[t] => stack'[t] # <<>>
    BY <1>1, <2>1 DEF RegsInv, TypeOK, Current
  <2>4. \A t \in Terms : stack'[t] # <<>> =>
          /\ stack'[t][1].saved.kept = t
          /\ t \notin ticked => stack'[t][1].irq # PIT_IRQ /\ stack'[t][1].saved.rest = t
    BY <1>1, <2>1, <2>2 DEF RegsInv
  <2> QED BY <1>4, <1>5, <2>3, <2>4 DEF RegsInv, Current
<1> QED BY <1>7, <1>8, <1>9, <1>10, <1>11, <1>12, <1>13 DEF IInv

\* iret: what the frame had saved comes back.
LEMMA IretInv == ASSUME IInv, Iret PROVE IInv'
<1> USE DEF pic, kbdVars, user, termVars
<1>1. /\ TypeOK /\ CriticalInv /\ InServiceHandled /\ LockInv /\ BootInv /\ ModsInv /\ RegsInv
      /\ Current # <<>> /\ Top.pc = "iret" /\ curr_term \in Terms
  BY DEF IInv, Iret, TypeOK
<1>2. /\ stack' \in [Terms -> Seq(Frames)]
      /\ \A t \in Terms : t # curr_term => stack'[t] = stack[t]
      /\ Len(Current) > 0 /\ Len(stack'[curr_term]) = Len(Current) - 1
      /\ \A d \in 1 .. Len(Current) - 1 : stack'[curr_term][d] = Current[d]
  BY <1>1, PopFacts DEF Iret
<1>3. /\ UNCHANGED <<boot, enabled, irr, isr, data, held, file_key, mods, lock, rtc_lock>>
      /\ UNCHANGED <<curr_term, curr_terminal_number, active, ticked>>
      /\ iflag' = TRUE /\ regs' = Restored(Top)
  BY DEF Iret
<1>4. Top \in Frames /\ Len(Current) = Len(stack[curr_term]) /\ Top = stack[curr_term][Len(Current)]
  BY <1>1, TopTyped
<1>5. TypeOK'
  <2>1. Restored(Top) \in Registers
    BY <1>4 DEF Restored, Frames, Registers
  <2> QED BY <1>1, <1>2, <1>3, <2>1 DEF TypeOK
\* a frame that is there after the step was there, and was not on top
<1>6. ASSUME NEW t \in Terms, NEW d \in 1 .. Len(stack'[t])
      PROVE  d \in Depths(t) /\ stack'[t][d] = stack[t][d] /\ ~(t = curr_term /\ d = Len(stack[t]))
  <2>1. CASE t = curr_term
    BY <2>1, <1>1, <1>2, <1>4 DEF Depths, Current
  <2>2. CASE t # curr_term
    BY <2>2, <1>2 DEF Depths
  <2> QED BY <2>1, <2>2
<1>7. CriticalInv'
  <2>1. ~rtc_lock BY <1>1 DEF CriticalInv, Handling
  <2>2. \A t \in Terms : \A d \in 1 .. Len(stack'[t]) : ~Critical(stack'[t][d])
    BY <1>1, <1>6 DEF CriticalInv, Alone
  <2> QED BY <1>3, <2>1, <2>2 DEF CriticalInv, Depths, Critical
<1>8. LockInv'
  <2>1. ListKey(data)' <=> ListKey(data) BY <1>3 DEF ListKey
  <2>2. ASSUME ~file_key PROVE /\ ~lock
                               /\ \A t \in Terms : \A d \in 1 .. Len(stack'[t]) : ~Locks(stack'[t][d])
    BY <1>1, <1>6, <2>2 DEF LockInv, Locks, Alone
  <2>3. ASSUME ~file_key, Current' # <<>> PROVE ~Locks(Top)'
    <3>1. Len(stack'[curr_term]) \in 1 .. Len(stack'[curr_term]) BY <1>1, <1>2, <1>3, <2>3 DEF Current
    <3> QED BY <3>1, <2>2, <2>3, <1>1, <1>3 DEF Top, Current, Locks
  <2> QED BY <1>1, <1>3, <2>1, <2>2, <2>3 DEF LockInv, Locks, Depths
<1>9. InServiceHandled'
  BY <1>1, <1>3 DEF InServiceHandled, Acknowledged, HandledNow
<1>10. BootInv'
  BY <1>1, <1>3, Running DEF BootInv
<1>11. ModsInv'
  BY <1>1, <1>3, ModsSame
<1>12. RegsInv'
  <2>1. \A t \in Terms : stack'[t] # <<>> => /\ stack[t] # <<>> /\ stack'[t][1] = stack[t][1]
    <3> SUFFICES ASSUME NEW t \in Terms, stack'[t] # <<>> PROVE stack[t] # <<>> /\ stack'[t][1] = stack[t][1]
      OBVIOUS
    <3>1. 1 \in 1 .. Len(stack'[t]) BY <1>2
    <3>2. 1 \in Depths(t) BY <3>1, <1>6
    <3> QED BY <3>1, <3>2, <1>1, <1>6 DEF Depths, TypeOK
  <2>2. \A t \in Terms : stack'[t] # <<>> =>
          /\ stack'[t][1].saved.kept = t
          /\ t \notin ticked => stack'[t][1].irq # PIT_IRQ /\ stack'[t][1].saved.rest = t
    BY <1>1, <2>1 DEF RegsInv
  <2>3. ASSUME Current' = <<>>
        PROVE  regs'.kept = curr_term /\ (curr_term \notin ticked => regs'.rest = curr_term)
    <3>1. Len(Current) = 1 BY <1>1, <1>2, <1>3, <1>4, <2>3 DEF Current, TypeOK
    <3>2. Top = stack[curr_term][1] BY <3>1, <1>4
    <3>3. Top.saved.kept = curr_term /\ (curr_term \notin ticked => Top.irq # PIT_IRQ /\ Top.saved.rest = curr_term)
      BY <3>2, <1>1 DEF RegsInv, Current
    <3> QED BY <3>3, <1>3 DEF Restored
  <2>4. \A t \in Terms : active[t] /\ t # curr_term => stack'[t] # <<>>
    BY <1>1, <1>2 DEF RegsInv
  <2> QED BY <1>1, <1>3, <2>2, <2>3, <2>4 DEF RegsInv
<1> QED BY <1>5, <1>7, <1>8, <1>9, <1>10, <1>11, <1>12 DEF IInv

-----------------------------------------------------------------------------
(* The processor and the devices.                                           *)

\* An interrupt is taken: no other one is then in service or unacknowledged.
LEMMA DeliverInv == ASSUME IInv, NEW irq \in Irqs, Deliver(irq) PROVE IInv'
<1> USE DEF kbdVars, user, termVars
<1> DEFINE f == [irq |-> irq, pc |-> "start", left |-> 0, saved |-> regs]
<1>1. /\ TypeOK /\ CriticalInv /\ InServiceHandled /\ LockInv /\ BootInv /\ ModsInv /\ RegsInv
      /\ curr_term \in Terms /\ iflag /\ boot = "run"
  BY DEF IInv, TypeOK, Deliver
<1>2. f \in Frames /\ f.irq = irq /\ f.pc = "start" /\ f.saved = regs
  BY <1>1, ConstantsAssumption DEF Frames, TypeOK
<1>3. /\ UNCHANGED <<boot, enabled, data, held, file_key, mods, lock, rtc_lock>>
      /\ UNCHANGED <<curr_term, curr_terminal_number, active>>
      /\ irr' = irr \ {irq} /\ isr' = isr \cup Occupies(irq) /\ iflag' = FALSE
      /\ regs' = [regs EXCEPT !.rest = Lost]
      /\ ticked' = IF irq = PIT_IRQ /\ Current = <<>> THEN ticked \cup {curr_term} ELSE ticked
      /\ stack' = [stack EXCEPT ![curr_term] = Append(@, f)]
  BY DEF Deliver
<1> HIDE DEF f
<1>4. /\ stack' \in [Terms -> Seq(Frames)]
      /\ \A t \in Terms : t # curr_term => stack'[t] = stack[t]
      /\ Len(stack'[curr_term]) = Len(Current) + 1
      /\ stack'[curr_term][Len(Current) + 1] = f
      /\ \A d \in 1 .. Len(Current) : stack'[curr_term][d] = Current[d]
  BY <1>1, <1>2, <1>3, PushFacts
<1>5. Len(Current) \in Nat /\ Current' # <<>> /\ Top' = f
  <2>1. Len(Current) \in Nat BY <1>1 DEF TypeOK, Current
  <2>2. Current' = stack'[curr_term] BY <1>3 DEF Current
  <2>3. Current' # <<>> BY <2>1, <2>2, <1>4
  <2>4. Top' = Current'[Len(Current')] BY DEF Top
  <2> QED BY <2>1, <2>2, <2>3, <2>4, <1>4
<1>6. TypeOK'
  <2>1. isr' \subseteq Lines BY <1>1, <1>3 DEF Occupies, Lines, Irqs, TypeOK
  <2>2. regs' \in Registers BY <1>1, <1>3 DEF TypeOK, Registers
  <2> QED BY <1>1, <1>3, <1>4, <2>1, <2>2 DEF TypeOK
\* a frame that is there after the step was there, or is the new one
<1>7. ASSUME NEW t \in Terms, NEW d \in 1 .. Len(stack'[t])
      PROVE  \/ d \in Depths(t) /\ stack'[t][d] = stack[t][d]
             \/ t = curr_term' /\ d = Len(stack'[t]) /\ stack'[t][d] = f
  <2>1. CASE t = curr_term
    BY <2>1, <1>1, <1>3, <1>4, <1>5 DEF Depths, Current
  <2>2. CASE t # curr_term
    BY <2>2, <1>4 DEF Depths
  <2> QED BY <2>1, <2>2
<1>8. CriticalInv'
  <2>1. ~rtc_lock
    BY <1>1, TopTyped DEF CriticalInv, Handling, Critical, Alone
  <2>2. \A t \in Terms : \A d \in 1 .. Len(stack'[t]) : Critical(stack'[t][d]) => t = curr_term' /\ d = Len(stack'[t])
    BY <1>1, <1>7 DEF CriticalInv, Alone
  <2> QED BY <1>3, <2>1, <2>2 DEF CriticalInv, Depths, Critical, Alone
<1>9. LockInv'
  <2>1. ListKey(data)' <=> ListKey(data) BY <1>3 DEF ListKey
  <2>2. ASSUME ~file_key PROVE /\ ~lock
                               /\ \A t \in Terms : \A d \in 1 .. Len(stack'[t]) : ~Locks(stack'[t][d])
    <3>1. ~Locks(f) BY <1>2 DEF Locks
    <3>2. \A t \in Terms : \A d \in 1 .. Len(stack'[t]) : ~Locks(stack'[t][d])
      BY <1>1, <1>7, <2>2, <3>1 DEF LockInv, Alone
    <3>3. ~lock
      BY <1>1, <2>2, TopTyped DEF LockInv, Alone
    <3> QED BY <3>2, <3>3
  <2>3. ASSUME ~file_key PROVE ~Locks(Top)'
    BY <1>2, <1>5 DEF Locks
  <2> QED BY <1>1, <1>3, <2>1, <2>2, <2>3 DEF LockInv, Locks, Depths
<1>10. InServiceHandled'
  <2>1. \A l : ~HandledNow(l)
    BY <1>1, TopTyped DEF CriticalInv, HandledNow, Critical, Alone
  <2>2. \A l \in Occupies(irq) : HandledNow(l)'
    BY <1>2, <1>5 DEF HandledNow, Occupies
  <2> QED BY <1>1, <1>3, <2>1, <2>2 DEF InServiceHandled, Acknowledged
<1>11. BootInv'
  BY <1>1, <1>3 DEF BootInv
<1>12. ModsInv'
  BY <1>1, <1>3, ModsSame
<1>13. RegsInv'
  <2>1. \A t \in Terms : t # curr_term => stack'[t] = stack[t] /\ (t \in ticked' <=> t \in ticked)
    BY <1>3, <1>4
  <2>2. ASSUME Current = <<>> PROVE stack'[curr_term][1] = f /\ (curr_term \notin ticked' => curr_term \notin ticked /\ irq # PIT_IRQ)
    BY <1>1, <1>3, <1>4, <2>2 DEF TypeOK
  <2>3. ASSUME Current # <<>> PROVE stack'[curr_term][1] = stack[curr_term][1] /\ ticked' = ticked
    BY <1>1, <1>3, <1>4, <2>3 DEF TypeOK, Current
  <2>4. /\ stack'[curr_term][1].saved.kept = curr_term
        /\ curr_term \notin ticked' => stack'[curr_term][1].irq # PIT_IRQ /\ stack'[curr_term][1].saved.rest = curr_term
    <3>1. CASE Current = <<>> BY <3>1, <2>2, <1>1, <1>2 DEF RegsInv
    <3>2. CASE Current # <<>> BY <3>2, <2>3, <1>1 DEF RegsInv, Current
    <3> QED BY <3>1, <3>2
  <2>5. \A t \in Terms : stack'[t] # <<>> =>
          /\ stack'[t][1].saved.kept = t
          /\ t \notin ticked' => stack'[t][1].irq # PIT_IRQ /\ stack'[t][1].saved.rest = t
    BY <1>1, <2>1, <2>4 DEF RegsInv
  <2> QED BY <1>1, <1>3, <1>5, <2>1, <2>5 DEF RegsInv
<1> QED BY <1>6, <1>8, <1>9, <1>10, <1>11, <1>12, <1>13 DEF IInv

\* A step that leaves the handlers, the modifiers and the port alone.
LEMMA QuietInv ==
  ASSUME IInv, TypeOK', BootInv', RegsInv', isr' \subseteq isr,
         UNCHANGED <<kbdVars, lock, rtc_lock, curr_term, stack>>,
         iflag' = iflag \/ Current = <<>>
  PROVE  IInv'
<1> USE DEF kbdVars, user
<1>1. TypeOK /\ CriticalInv /\ InServiceHandled /\ LockInv /\ ModsInv /\ curr_term \in Terms
  BY DEF IInv, TypeOK
<1>2. Current = <<>> => \A d \in Depths(curr_term) : FALSE
  BY DEF Current, Depths
<1>3. CriticalInv'
  BY <1>1, <1>2 DEF CriticalInv, Depths, Alone, Critical, Handling, Current, Top
<1>4. LockInv'
  BY <1>1, <1>2 DEF LockInv, Depths, Alone, Locks, Current, Top, ListKey
<1>5. InServiceHandled'
  BY <1>1 DEF InServiceHandled, Acknowledged, HandledNow, Current, Top
<1>6. ModsInv' BY <1>1, ModsSame
<1> QED BY <1>3, <1>4, <1>5, <1>6 DEF IInv

\* entry of kernel.c.
LEMMA BootStepInv == ASSUME IInv, Boot PROVE IInv'
<1> USE DEF pic, termVars, regVars
<1>1. TypeOK /\ BootInv /\ RegsInv /\ curr_term \in Terms BY DEF IInv, TypeOK
<1>2. /\ UNCHANGED <<kbdVars, lock, rtc_lock, termVars, stack, regVars>>
      /\ boot # "run" /\ irr' \subseteq irr
      /\ isr' = {} /\ enabled' \subseteq Lines /\ iflag' \in BOOLEAN
      /\ boot' \in {"keyboard", "rtc", "pit", "execute", "run"}
      /\ boot' # "run" => ~iflag'
  <2>1. boot # "run" => isr = {} /\ ~iflag BY <1>1 DEF BootInv
  <2>2. iflag \in BOOLEAN /\ enabled \subseteq Lines BY <1>1 DEF TypeOK
  <2>3. CASE i8259_init BY <2>1, <2>2, <2>3 DEF i8259_init
  <2>4. ASSUME NEW irq \in Irqs, NEW from \in {"keyboard", "rtc", "pit"}, NEW to \in {"rtc", "pit", "execute"},
               BootEnable(irq, from, to)
        PROVE  <1>2!:
    <3>1. enable_irq(irq) \subseteq Lines BY <2>2 DEF enable_irq, Lines, Irqs
    <3> QED BY <2>1, <2>2, <2>4, <3>1 DEF BootEnable
  <2>5. CASE BootExecute BY <2>1, <2>2, <2>5 DEF BootExecute
  <2> QED BY <2>3, <2>4, <2>5 DEF Boot, Irqs
<1>3. TypeOK' BY <1>1, <1>2 DEF TypeOK, kbdVars, user
<1>4. Current = <<>> BY <1>1, <1>2 DEF BootInv, Current
<1>5. BootInv' BY <1>1, <1>2 DEF BootInv
<1>6. RegsInv' BY <1>1, <1>2 DEF RegsInv, Current
<1> QED BY <1>2, <1>3, <1>4, <1>5, <1>6, QuietInv

\* A program computes or writes.
LEMMA ProgramInv == ASSUME IInv, Compute \/ WriteBegin \/ WriteEnd PROVE IInv'
<1> USE DEF pic, termVars
<1>1. TypeOK /\ BootInv /\ RegsInv /\ curr_term \in Terms BY DEF IInv, TypeOK
<1>2. /\ UNCHANGED <<boot, pic, kbdVars, lock, rtc_lock, termVars, stack>>
      /\ boot = "run" /\ Current = <<>> /\ iflag' \in BOOLEAN
      /\ UNCHANGED regVars \/ (regs' = Own(curr_term) /\ ticked' = ticked \ {curr_term})
  BY <1>1 DEF Compute, WriteBegin, WriteEnd, TypeOK, regVars
<1>3. regs' \in Registers BY <1>1, <1>2 DEF TypeOK, Own, Registers, regVars
<1>4. TypeOK' BY <1>1, <1>2, <1>3 DEF TypeOK, kbdVars, user, regVars
<1>5. BootInv' BY <1>2 DEF BootInv
<1>6. RegsInv' BY <1>1, <1>2 DEF RegsInv, Current, regVars, Own
<1> QED BY <1>2, <1>4, <1>5, <1>6, QuietInv

\* The timer or the clock requests an interrupt.
LEMMA PulseInv == ASSUME IInv, PitPulse \/ RtcPulse PROVE IInv'
<1> USE DEF termVars
<1>1. TypeOK /\ BootInv /\ RegsInv BY DEF IInv
<1>2. /\ UNCHANGED <<boot, enabled, isr, iflag, kbdVars, lock, rtc_lock, termVars, stack, regVars>>
      /\ irr' \subseteq irr \cup Irqs
  BY DEF PitPulse, RtcPulse, Irqs
<1>3. TypeOK' BY <1>1, <1>2 DEF TypeOK, kbdVars, user, regVars
<1>4. BootInv' BY <1>1, <1>2 DEF BootInv
<1>5. RegsInv' BY <1>1, <1>2 DEF RegsInv, Current, regVars
<1> QED BY <1>2, <1>3, <1>4, <1>5, QuietInv

-----------------------------------------------------------------------------
(* Keys.                                                                    *)

\* A flag belongs to one key, but for shift.
LEMMA FlagFacts ==
  ASSUME NEW k \in Keys
  PROVE  /\ k \in Shifts => Flag(k) = "shift"
         /\ k \notin Shifts => Flag(k) = k
         /\ Flag(k) = "shift" => k \in Shifts
  BY ConstantsAssumption DEF Flag, AllKeys, Holdable, Shifts

\* With an empty port the modifiers are those of the keys that are held.
LEMMA WantedFacts ==
  ASSUME ModsInv, data = NoCode
  PROVE  /\ held \subseteq Keys \ {"digit"}
         /\ \A k \in held \ Shifts : k \in mods
         /\ \A m \in mods \ {"shift"} : m \in held \ Shifts
         /\ "shift" \in mods => held \cap Shifts # {}
         /\ ~(Shifts \subseteq Keys) /\ held \cap Shifts # {} => "shift" \in mods
<1> DEFINE wanted == {Flag(k) : k \in held}
<1>1. ModsAfter(data) = mods BY DEF ModsAfter
<1>2. /\ held \subseteq Keys \ {"digit"}
      /\ mods \ {"shift"} = wanted \ {"shift"}
      /\ "shift" \in mods => "shift" \in wanted
      /\ ~(Shifts \subseteq Keys) => mods = wanted
  BY <1>1 DEF ModsInv
<1>3. \A k \in held : /\ k \in Shifts => Flag(k) = "shift"
                      /\ k \notin Shifts => Flag(k) = k
                      /\ Flag(k) = "shift" => k \in Shifts
  BY <1>2, FlagFacts
<1>4. \A k \in held \ Shifts : k \in wanted /\ k # "shift" BY <1>3
<1>5. \A m \in wanted \ {"shift"} : m \in held \ Shifts BY <1>3
<1>6. "shift" \in wanted <=> held \cap Shifts # {} BY <1>3
<1> HIDE DEF wanted
<1> QED BY <1>2, <1>4, <1>5, <1>6

\* The converse, after the step.
LEMMA WantedMakes ==
  ASSUME NEW mine, ModsAfter(data)' = mine, held' \subseteq Keys \ {"digit"},
         \A k \in held' \ Shifts : k \in mine,
         \A m \in mine \ {"shift"} : m \in held' \ Shifts,
         "shift" \in mine => held' \cap Shifts # {},
         ~(Shifts \subseteq Keys) /\ held' \cap Shifts # {} => "shift" \in mine
  PROVE  ModsInv'
<1> DEFINE wanted == {Flag(k) : k \in held'}
<1>1. \A k \in held' : /\ k \in Shifts => Flag(k) = "shift"
                       /\ k \notin Shifts => Flag(k) = k
                       /\ Flag(k) = "shift" => k \in Shifts
  BY FlagFacts
<1>2. \A k \in held' \ Shifts : k \in wanted /\ k # "shift" BY <1>1
<1>3. \A m \in wanted \ {"shift"} : m \in held' \ Shifts BY <1>1
<1>4. "shift" \in wanted <=> held' \cap Shifts # {} BY <1>1
<1>5. wanted = {Flag(k) : k \in held}' BY DEF Flag
<1> HIDE DEF wanted
<1>6. mine \ {"shift"} = wanted \ {"shift"} BY <1>2, <1>3
<1>7. "shift" \in mine => "shift" \in wanted BY <1>4
<1>8. ~(Shifts \subseteq Keys) => mine = wanted BY <1>4, <1>6
<1> QED BY <1>5, <1>6, <1>7, <1>8 DEF ModsInv

\* A code comes to the port.
LEMMA CodeInv ==
  ASSUME IInv, UNCHANGED <<boot, enabled, isr, iflag, mods, lock, rtc_lock, termVars, stack, regVars>>,
         irr' = irr \cup {KEYBOARD_IRQ}, data' \in Codes, held' \subseteq Keys, file_key' \in BOOLEAN,
         ModsInv', ListKey(data)' => file_key', file_key => file_key'
  PROVE  IInv'
<1> USE DEF termVars, regVars
<1>1. TypeOK /\ CriticalInv /\ InServiceHandled /\ LockInv /\ BootInv /\ RegsInv
  BY DEF IInv
<1>2. TypeOK' BY <1>1 DEF TypeOK, Irqs
<1>3. CriticalInv' BY <1>1 DEF CriticalInv, Depths, Alone, Critical, Handling, Current, Top
<1>4. LockInv' BY <1>1 DEF LockInv, Depths, Alone, Locks, Current, Top
<1>5. InServiceHandled' BY <1>1 DEF InServiceHandled, Acknowledged, HandledNow, Current, Top
<1>6. BootInv' BY <1>1 DEF BootInv
<1>7. RegsInv' BY <1>1 DEF RegsInv, Current
<1> QED BY <1>2, <1>3, <1>4, <1>5, <1>6, <1>7 DEF IInv

\* A key goes down, or caps lock changes.
LEMMA PressInv == ASSUME IInv, NEW key \in Keys, Press(key) PROVE IInv'
<1> DEFINE c == [down |-> key]
<1>1. /\ TypeOK /\ ModsInv /\ data = NoCode /\ data' = c /\ mods' = mods
      /\ key \notin held \/ key = "caps"
      /\ held' = IF key \in held THEN held \ {key} ELSE held \cup ({key} \ {"digit"})
      /\ file_key' = (file_key \/ (key = "digit" /\ "ctrl" \in held))
      /\ irr' = irr \cup {KEYBOARD_IRQ}
  BY DEF IInv, Press, Ready
<1>2. c \in Codes /\ c # NoCode /\ DOMAIN c = {"down"} /\ c.down = key
  BY CodeFacts DEF Codes
<1> HIDE DEF c
<1>3. /\ held \subseteq Keys \ {"digit"}
      /\ \A k \in held \ Shifts : k \in mods
      /\ \A m \in mods \ {"shift"} : m \in held \ Shifts
      /\ "shift" \in mods => held \cap Shifts # {}
      /\ ~(Shifts \subseteq Keys) /\ held \cap Shifts # {} => "shift" \in mods
  BY <1>1, WantedFacts
<1>4. ModsInv'
  <2> DEFINE mine == IF key = "caps" /\ "caps" \in mods THEN mods \ {"caps"}
                     ELSE mods \cup ({Flag(key)} \ {"digit"})
  <2>1. ModsAfter(data)' = mine BY <1>1, <1>2 DEF ModsAfter, Flag
  <2>2. held' \subseteq Keys \ {"digit"} BY <1>1, <1>3
  <2>3. "caps" \notin Shifts /\ "digit" \notin Shifts BY DEF Shifts
  <2>4. /\ key \in Shifts => Flag(key) = "shift"
        /\ key \notin Shifts => Flag(key) = key
        /\ Flag(key) = "shift" => key \in Shifts
    BY FlagFacts
  <2>5. \A k \in held' \ Shifts : k \in mine
    BY <1>1, <1>3, <2>3, <2>4
  <2>6. \A m \in mine \ {"shift"} : m \in held' \ Shifts
    BY <1>1, <1>3, <2>3, <2>4
  <2>7. "shift" \in mine => held' \cap Shifts # {}
    BY <1>1, <1>3, <2>3, <2>4
  <2>8. ~(Shifts \subseteq Keys) /\ held' \cap Shifts # {} => "shift" \in mine
    BY <1>1, <1>3, <2>3, <2>4
  <2> HIDE DEF mine
  <2> QED BY <2>1, <2>2, <2>5, <2>6, <2>7, <2>8, WantedMakes
<1>5. ListKey(data)' => file_key'
  <2>1. ListKey(data)' => key = "digit" /\ "ctrl" \in mods BY <1>1, <1>2 DEF ListKey
  <2> QED BY <1>1, <1>3, <2>1
<1>6. held' \subseteq Keys BY <1>1, <1>3
<1>7. file_key' \in BOOLEAN /\ (file_key => file_key') BY <1>1
<1> QED BY <1>1, <1>2, <1>4, <1>5, <1>6, <1>7, CodeInv DEF Press

\* A key goes up.
LEMMA ReleaseInv == ASSUME IInv, NEW key \in Keys, Release(key) PROVE IInv'
<1> DEFINE c == [up |-> key]
<1>1. /\ TypeOK /\ ModsInv /\ data = NoCode /\ data' = c /\ mods' = mods
      /\ key \in held \cap Holdable
      /\ held' = held \ {key}
      /\ irr' = irr \cup {KEYBOARD_IRQ} /\ file_key' = file_key /\ file_key \in BOOLEAN
  BY DEF IInv, Release, Ready, TypeOK
<1>2. c \in Codes /\ c # NoCode /\ DOMAIN c = {"up"} /\ c.up = key
  BY <1>1, CodeFacts DEF Codes
<1> HIDE DEF c
<1>3. /\ held \subseteq Keys \ {"digit"}
      /\ \A k \in held \ Shifts : k \in mods
      /\ \A m \in mods \ {"shift"} : m \in held \ Shifts
      /\ "shift" \in mods => held \cap Shifts # {}
      /\ ~(Shifts \subseteq Keys) /\ held \cap Shifts # {} => "shift" \in mods
  BY <1>1, WantedFacts
<1>4. ModsInv'
  <2> DEFINE mine == mods \ {Flag(key)}
  <2>1. ModsAfter(data)' = mine BY <1>1, <1>2 DEF ModsAfter, Flag
  <2>2. held' \subseteq Keys \ {"digit"} BY <1>1, <1>3
  <2>3. /\ key \in Shifts => Flag(key) = "shift"
        /\ key \notin Shifts => Flag(key) = key
        /\ Flag(key) = "shift" => key \in Shifts
    BY FlagFacts
  <2>4. \A k \in held \ Shifts : k # "shift" BY <1>3, ConstantsAssumption DEF AllKeys, Holdable, Shifts
  <2>5. \A k \in held' \ Shifts : k \in mine
    BY <1>1, <1>3, <2>3, <2>4
  <2>6. \A m \in mine \ {"shift"} : m \in held' \ Shifts
    BY <1>1, <1>3, <2>3
  <2>7. "shift" \in mine => held' \cap Shifts # {}
    BY <1>1, <1>3, <2>3
  <2>8. ~(Shifts \subseteq Keys) /\ held' \cap Shifts # {} => "shift" \in mine
    BY <1>1, <1>3, <2>3 DEF Shifts
  <2> HIDE DEF mine
  <2> QED BY <2>1, <2>2, <2>5, <2>6, <2>7, <2>8, WantedMakes
<1>5. ~ListKey(data)'
  BY <1>1, <1>2 DEF ListKey
<1>6. held' \subseteq Keys BY <1>1, <1>3
<1> QED BY <1>1, <1>2, <1>4, <1>5, <1>6, CodeInv DEF Release

\* F1, F2 or F3 goes down.
LEMMA PressFnInv == ASSUME IInv, NEW t \in Terms, PressFn(t) PROVE IInv'
<1> USE DEF user
<1> DEFINE c == [fn |-> t]
<1>1. /\ TypeOK /\ ModsInv /\ data = NoCode /\ data' = c /\ UNCHANGED <<mods, held, file_key>>
      /\ irr' = irr \cup {KEYBOARD_IRQ} /\ file_key \in BOOLEAN /\ held \subseteq Keys
  BY DEF IInv, PressFn, Ready, TypeOK
<1>2. c \in Codes /\ c # NoCode /\ DOMAIN c = {"fn"}
  BY CodeFacts DEF Codes
<1> HIDE DEF c
<1>3. ModsAfter(data) = mods /\ ModsAfter(data)' = mods BY <1>1, <1>2 DEF ModsAfter
<1>4. ModsInv' BY <1>1, <1>3 DEF ModsInv
<1>5. ~ListKey(data)' BY <1>1, <1>2 DEF ListKey
<1> QED BY <1>1, <1>2, <1>4, <1>5, CodeInv DEF PressFn

-----------------------------------------------------------------------------
(* The theorems.                                                            *)

\* The invariant holds when the kernel starts.
LEMMA InitInv == ASSUME Init PROVE IInv
<1> USE DEF Init
<1>1. 0 \in Terms BY ConstantsAssumption DEF Terms
<1>2. Own(0) \in Registers /\ Own(0).kept = 0 /\ Own(0).rest = 0 BY <1>1 DEF Own, Registers
<1>3. TypeOK BY <1>1, <1>2 DEF TypeOK
<1>4. Current = <<>> BY <1>1 DEF Current
<1>5. \A t \in Terms : \A d \in Depths(t) : FALSE BY DEF Depths
<1>6. CriticalInv BY <1>5 DEF CriticalInv
<1>7. ~ListKey(data) BY CodeFacts DEF ListKey
<1>8. LockInv BY <1>4, <1>5, <1>7 DEF LockInv
<1>9. InServiceHandled BY DEF InServiceHandled, Acknowledged
<1>10. BootInv BY DEF BootInv
<1>11. ModsInv BY DEF ModsInv, ModsAfter
<1>12. RegsInv BY <1>1, <1>2 DEF RegsInv
<1> QED BY <1>3, <1>6, <1>8, <1>9, <1>10, <1>11, <1>12 DEF IInv

\* Every step keeps the invariant.
LEMMA NextInv == ASSUME IInv, [Next]_vars PROVE IInv'
<1>1. CASE Boot BY <1>1, BootStepInv
<1>2. CASE Handlers
  BY <1>2, KeyboardLockedInv, KeyboardLockInv, KeyboardCodeInv, KeyboardListInv, KeyboardListedInv,
     SwitchActiveInv, SwitchFreshInv, KeyboardEndInv, RtcEnterInv, RtcEndInv, PitSwitchInv,
     PitEndInv, IretInv
  DEF Handlers
<1>3. CASE Devices BY <1>3, PulseInv, PressInv, ReleaseInv, PressFnInv DEF Devices
<1>4. CASE \E irq \in Irqs : Deliver(irq) BY <1>4, DeliverInv
<1>5. CASE Compute \/ WriteBegin \/ WriteEnd BY <1>5, ProgramInv
<1>6. CASE UNCHANGED vars
  <2>1. TypeOK' /\ BootInv' /\ RegsInv'
    BY <1>6 DEF IInv, TypeOK, BootInv, RegsInv, Current, vars, pic, kbdVars, user, termVars, regVars
  <2> QED BY <1>6, <2>1, QuietInv DEF vars, pic, termVars
<1> QED BY <1>1, <1>2, <1>3, <1>4, <1>5, <1>6 DEF Next

\* The invariant that the theorems below rest on: it adds to the properties which frames are
\* never interrupted, and which registers the outermost frame of each terminal has saved.
THEOREM Inductive == Spec => []IInv
<1>1. Init => IInv BY InitInv
<1>2. IInv /\ [Next]_vars => IInv' BY NextInv
<1> QED BY <1>1, <1>2, PTL DEF Spec

\* The state of the controllers, the handlers and the keyboard is what its comments say.
THEOREM TypeCorrect == Spec => []TypeOK
<1>1. IInv => TypeOK BY DEF IInv
<1> QED BY <1>1, Inductive, PTL

\* For any number of terminals, any depth of nested interrupts and any keys: no handler of
\* the timer or of the clock leaves its line in service, and none of the keyboard until
\* Ctrl-1, Ctrl-2 or Ctrl-3 is pressed (send_eoi in i8259.c and its callers).
THEOREM Acknowledges == Spec => []InServiceHandled
<1>1. IInv => InServiceHandled BY DEF IInv
<1> QED BY <1>1, Inductive, PTL

\* lock of keyboard.c has exactly one owner, the handler that runs, until one of those keys
\* is pressed; a handler that switch_terminal left behind for a new shell is none.
THEOREM OneLockOwner == Spec => []LockOwned
<1>1. IInv => LockOwned BY DEF IInv, LockInv, LockOwned, Alone, Depths
<1> QED BY <1>1, Inductive, PTL

\* No make or break code is lost, whichever handlers run between the key and its handler.
THEOREM NoCodeLost == Spec => []ModsFollowKeys
<1>1. IInv => ModsFollowKeys BY DEF IInv, ModsInv, ModsAfter, ModsFollowKeys
<1> QED BY <1>1, Inductive, PTL

\* A program finds ebx and ebp as it left them, and the other registers too unless a tick
\* interrupted it: the linkages of syscall_link.S restore what they have saved.
THEOREM ProgramRegisters == Spec => []RegistersKept
<1>1. IInv => RegistersKept BY DEF IInv, RegsInv, RegistersKept
<1> QED BY <1>1, Inductive, PTL
=============================================================================
