----------------------------- MODULE RtcProofs ------------------------------
(***************************************************************************)
(* PacedByClock for any number of processes and any requests.  The flag    *)
(* alone does not tell that a process was not served yet by the interrupt  *)
(* that set it: PacedInv adds that while the flag is set an interrupt came *)
(* after the last return of every process, because every return clears it. *)
(*                                                                         *)
(* From it FrameHeld: the characters of a picture come to their end in the *)
(* same run of the tasklet, and every run but the first needs an interrupt.*)
(*                                                                         *)
(* FrameShown last: add_frames, which reads two files side by side, has    *)
(* registered the characters of both in the rows and columns of their      *)
(* lines (TextsInv, PicInv), and their slots have the same status.         *)
(***************************************************************************)
EXTENDS Fish, WellFoundedInduction, SequenceTheorems, FiniteSetTheorems, TLAPS

Control ==
  /\ rtc_interrupt \in BOOLEAN
  /\ pc \in [Procs -> {"idle", "wait", "clear"}]
  /\ since_return \in [Procs -> BOOLEAN]

FlagIsNew == rtc_interrupt => \A p \in Procs : since_return[p]

PacedInv == Control /\ FlagIsNew /\ PacedByClock

\* The steps of the chip, of other programs and of the user leave rtc_read alone.
LEMMA OthersKeep ==
  ASSUME PacedInv, UNCHANGED <<rtc_interrupt, pc, since_return>>
  PROVE  PacedInv'
BY DEF PacedInv, Control, FlagIsNew, PacedByClock

\* Every step of Next preserves PacedInv.
LEMMA PacedInductive == PacedInv /\ [Next]_vars => PacedInv'
<1> SUFFICES ASSUME PacedInv, [Next]_vars PROVE PacedInv'
  OBVIOUS
<1>1. CASE Pulse \/ toggle_freq \/ StopClock \/ UNCHANGED vars
  BY <1>1, OthersKeep DEF Pulse, toggle_freq, StopClock, vars, chip
<1>2. CASE rtc_handler
  BY <1>2 DEF rtc_handler, PacedInv, Control, FlagIsNew, PacedByClock
<1>3. ASSUME NEW p \in Procs, NEW f \in Frequencies, rtc_write(p, f) PROVE PacedInv'
  BY <1>3, OthersKeep DEF rtc_write
<1>4. ASSUME NEW p \in Procs, ReadCall(p) PROVE PacedInv'
  BY <1>4 DEF ReadCall, chip, PacedInv, Control, FlagIsNew, PacedByClock
<1>5. ASSUME NEW p \in Procs, ReadWait(p) PROVE PacedInv'
  BY <1>5 DEF ReadWait, chip, PacedInv, Control, FlagIsNew, PacedByClock
<1>6. ASSUME NEW p \in Procs, ReadClear(p) PROVE PacedInv'
  BY <1>6 DEF ReadClear, chip, PacedInv, Control, FlagIsNew, PacedByClock
<1> QED
  BY <1>1, <1>2, <1>3, <1>4, <1>5, <1>6 DEF Next, Read

\* Between two returns of rtc_read in one process lies an interrupt of the clock, for any
\* number of processes that share rtc_interrupt.
THEOREM ReadersArePaced == Spec => []PacedByClock
<1>1. Init => PacedInv
  BY DEF Init, PacedInv, Control, FlagIsNew, PacedByClock
<1>2. PacedInv => PacedByClock
  BY DEF PacedInv
<1> QED
  BY <1>1, <1>2, PacedInductive, PTL DEF Spec

-----------------------------------------------------------------------------
(* fish.  The blinker counts runs of the tasklet, the clock its interrupts. *)

\* A value is a record of blink.h.
IsBlink(b) ==
  b = [location |-> b.location, on_char |-> b.on_char, off_char |-> b.off_char,
       on_length |-> b.on_length, off_length |-> b.off_length,
       countdown |-> b.countdown, status |-> b.status]

Listed(s) == \E k \in 1 .. Len(list) : list[k] = s

\* Slots that hold a character of the pictures.
InPicture(s) == Listed(s) /\ blink_array[s].location # MARK

\* The list holds slots that are in use, each once; a slot is in use if its location is
\* not 0.
ListInv ==
  /\ list \in Seq(Slots)
  /\ \A j, k \in 1 .. Len(list) : list[j] = list[k] => j = k
  /\ blink_array = [s \in Slots |-> blink_array[s]]
  /\ \A s \in Slots : IsBlink(blink_array[s])
  /\ \A s \in Slots : Listed(s) => blink_array[s].location # 0

\* The characters of the pictures have the same time left.
EvenInv ==
  /\ \A s \in Slots : InPicture(s) => /\ blink_array[s].on_length = LENGTH
                                      /\ blink_array[s].off_length = LENGTH
                                      /\ blink_array[s].countdown \in 1 .. LENGTH
  /\ \A s, t \in Slots : InPicture(s) /\ InPicture(t) =>
                           blink_array[s].countdown = blink_array[t].countdown

One(b) == IF b THEN 1 ELSE 0

\* Returns of rtc_read since the picture changed that a character in slot s knows of: the
\* runs it has counted, and one that is due.
Returns(s) == LENGTH - blink_array[s].countdown + One(due)

\* Every return but the first had an interrupt of its own, and one may have come since.
HeldInv ==
  /\ row \in Nat /\ col \in Nat /\ held \in 0 .. LENGTH /\ due \in BOOLEAN /\ n \in Nat
  /\ due => stage \in Loops /\ n < WAIT
  /\ stage \in {"frames", "rate"} => \A s \in Slots : InPicture(s)
     => blink_array[s].countdown = LENGTH
  /\ stage \in Loops => \A s \in Slots : InPicture(s)
     => held + 1 >= Returns(s) + One(since_return[fish])

FishInv == PacedInv /\ ListInv /\ EvenInv /\ HeldInv

\* A nonempty set of natural numbers has a smallest element.
LEMMA SmallestNat ==
  ASSUME NEW T \in SUBSET Nat, T # {}
  PROVE  \E x \in T : \A y \in T : x <= y
<1>1. PICK x \in T : \A y \in T : ~(<<y, x>> \in OpToRel(<, Nat))
  BY WFMin, NatLessThanWellFounded
<1>2. \A y \in T : ~(y < x)
  BY <1>1 DEF OpToRel
<1> QED BY <1>2

\* mp1_malloc gives a slot that is free.
LEMMA MallocIsFree ==
  ASSUME FreeSlots # {}
  PROVE  mp1_malloc \in FreeSlots
<1>1. FreeSlots \in SUBSET Nat BY DEF FreeSlots, Slots
<1>2. \E s \in FreeSlots : \A t \in FreeSlots : s <= t BY <1>1, SmallestNat
<1> QED BY <1>2 DEF mp1_malloc

\* mp1_find_helper gives a place of the list with the location.
LEMMA HelperFinds ==
  ASSUME NEW loc, list \in Seq(Slots), Registered(loc)
  PROVE  /\ mp1_find_helper(loc) \in 1 .. Len(list)
         /\ blink_array[list[mp1_find_helper(loc)]].location = loc
<1> DEFINE T == {k \in 1 .. Len(list) : blink_array[list[k]].location = loc}
<1>1. T \in SUBSET Nat /\ T # {} BY DEF Registered
<1>2. PICK k \in T : \A j \in T : k <= j BY <1>1, SmallestNat
<1>3. k \in 1 .. Len(list) /\ blink_array[list[k]].location = loc BY <1>2
<1>4. \A j \in 1 .. k - 1 : blink_array[list[j]].location # loc BY <1>2, <1>3
<1> QED BY <1>3, <1>4 DEF mp1_find_helper

\* A run of the tasklet changes the time left and the status of a character.
LEMMA TickedIs ==
  ASSUME NEW b, IsBlink(b)
  PROVE  /\ IsBlink(Ticked(b))
         /\ Ticked(b).location = b.location
         /\ Ticked(b).on_length = b.on_length /\ Ticked(b).off_length = b.off_length
         /\ Expires(b) => Ticked(b).countdown \in {b.on_length, b.off_length}
         /\ ~Expires(b) => Ticked(b).countdown = b.countdown - 1
BY DEF IsBlink, Ticked

\* RTC_ADD keeps the list sound; the new slot has the time of its on_length.
LEMMA AddKeeps ==
  ASSUME ListInv, NEW loc, loc # 0, NEW on, NEW off, NEW on_length, NEW off_length,
         RTC_ADD(loc, on, off, on_length, off_length)
  PROVE  /\ ListInv'
         /\ \A s \in Slots : Listed(s)' =>
              \/ Listed(s) /\ blink_array'[s] = blink_array[s]
              \/ /\ blink_array'[s].location = loc
                 /\ blink_array'[s].on_length = on_length
                 /\ blink_array'[s].off_length = off_length
                 /\ blink_array'[s].countdown = on_length
<1>1. CASE UNCHANGED blinker BY <1>1 DEF blinker, ListInv, Listed
<1>2. CASE ~UNCHANGED blinker
  <2>1. PICK m : m = mp1_malloc OBVIOUS
  <2>2. PICK b : b = [location |-> loc, on_char |-> on, off_char |-> off,
                      on_length |-> on_length, off_length |-> off_length,
                      countdown |-> on_length, status |-> 1] OBVIOUS
  <2>3. /\ FreeSlots # {} /\ blink_array' = [blink_array EXCEPT ![m] = b]
        /\ list' = <<m>> \o list
    BY <1>2, <2>1, <2>2 DEF RTC_ADD
  <2>4. m \in Slots /\ blink_array[m].location = 0
    BY <2>1, <2>3, MallocIsFree DEF FreeSlots
  <2>5. /\ list' \in Seq(Slots) /\ Len(list') = Len(list) + 1 /\ Len(list) \in Nat
        /\ list'[1] = m /\ \A k \in 2 .. Len(list) + 1 : list'[k] = list[k - 1]
    BY <2>3, <2>4 DEF ListInv
  <2>6. ~Listed(m) BY <2>4 DEF ListInv
  <2>7. \A s \in Slots : Listed(s)' => s = m \/ Listed(s)
    <3> SUFFICES ASSUME NEW s \in Slots, NEW k \in 1 .. Len(list'), list'[k] = s, s # m
                 PROVE  Listed(s)
      BY DEF Listed
    <3>1. k - 1 \in 1 .. Len(list) /\ list[k - 1] = s BY <2>5
    <3> QED BY <3>1 DEF Listed
  <2>8. \A j, k \in 1 .. Len(list') : list'[j] = list'[k] => j = k
    <3> SUFFICES ASSUME NEW j \in 1 .. Len(list'), NEW k \in 1 .. Len(list'), list'[j] = list'[k]
                 PROVE  j = k
      OBVIOUS
    <3>1. \A i \in 1 .. Len(list') : i # 1 => i - 1 \in 1 .. Len(list) /\ list'[i] = list[i - 1]
      BY <2>5
    <3>2. \A i \in 1 .. Len(list') : list'[i] = m => i = 1 BY <2>6, <3>1 DEF Listed
    <3>3. CASE j = 1 BY <3>2, <3>3, <2>5
    <3>4. CASE k = 1 BY <3>2, <3>4, <2>5
    <3>5. CASE j # 1 /\ k # 1
      <4>1. j - 1 = k - 1 BY <3>1, <3>5 DEF ListInv
      <4> QED BY <4>1
    <3> QED BY <3>3, <3>4, <3>5
  <2>9. /\ blink_array'[m] = b /\ \A s \in Slots : s # m => blink_array'[s] = blink_array[s]
        /\ blink_array' = [s \in Slots |-> blink_array'[s]]
    BY <2>3, <2>4 DEF ListInv
  <2>10. /\ IsBlink(b) /\ b.location = loc /\ b.on_length = on_length
         /\ b.off_length = off_length /\ b.countdown = on_length
    BY <2>2 DEF IsBlink
  <2>11. ListInv' BY <2>5, <2>7, <2>8, <2>9, <2>10 DEF ListInv
  <2> QED BY <2>7, <2>9, <2>10, <2>11
<1> QED BY <1>1, <1>2

\* RTC_SYNC changes a slot of its second location only, and not its location.
LEMMA SyncKeeps ==
  ASSUME ListInv, NEW from, NEW to, RTC_SYNC(from, to)
  PROVE  /\ ListInv'
         /\ \A s \in Slots : Listed(s)' => Listed(s)
         /\ \A s \in Slots : \/ blink_array'[s] = blink_array[s]
                             \/ blink_array'[s].location = to
<1>1. CASE UNCHANGED blinker BY <1>1 DEF blinker, ListInv, Listed
<1>2. CASE ~UNCHANGED blinker
  <2>1. PICK d : d = list[mp1_find_helper(to)] OBVIOUS
  <2>2. PICK b : b = blink_array[list[mp1_find_helper(from)]] OBVIOUS
  <2>3. /\ Registered(to) /\ list' = list
        /\ blink_array' = [blink_array EXCEPT
                 ![d].on_length = b.on_length, ![d].off_length = b.off_length,
                 ![d].countdown = b.countdown, ![d].status = b.status]
    BY <1>2, <2>1, <2>2 DEF RTC_SYNC
  <2>4. d \in Slots /\ blink_array[d].location = to
    <3>1. PICK i : i = mp1_find_helper(to) OBVIOUS
    <3>2. i \in 1 .. Len(list) /\ blink_array[list[i]].location = to
      BY <2>3, <3>1, HelperFinds DEF ListInv
    <3> QED BY <2>1, <3>1, <3>2 DEF ListInv
  <2>5. /\ \A s \in Slots : s # d => blink_array'[s] = blink_array[s]
        /\ blink_array' = [s \in Slots |-> blink_array'[s]]
        /\ blink_array'[d] = [blink_array[d] EXCEPT !.on_length = b.on_length,
               !.off_length = b.off_length, !.countdown = b.countdown, !.status = b.status]
    BY <2>3, <2>4 DEF ListInv
  <2>6. IsBlink(blink_array'[d]) /\ blink_array'[d].location = to
    BY <2>4, <2>5 DEF ListInv, IsBlink
  <2>7. \A s \in Slots : IsBlink(blink_array'[s])
    BY <2>5, <2>6 DEF ListInv
  <2>8. \A s \in Slots : blink_array'[s].location = blink_array[s].location
    BY <2>4, <2>5, <2>6
  <2> QED BY <2>3, <2>5, <2>6, <2>7, <2>8 DEF ListInv, Listed
<1> QED BY <1>1, <1>2

\* RTC_REMOVE frees one slot and takes it off the list.
LEMMA RemoveKeeps ==
  ASSUME ListInv, NEW loc, RTC_REMOVE(loc)
  PROVE  /\ ListInv'
         /\ \A s \in Slots : Listed(s)' => Listed(s) /\ blink_array'[s] = blink_array[s]
         /\ Registered(loc) => \A s \in Slots :
              IF s = list[mp1_find_helper(loc)]
                THEN blink_array'[s].location = 0
                ELSE blink_array'[s] = blink_array[s] /\ (Listed(s) => Listed(s)')
<1>1. CASE ~Registered(loc) BY <1>1 DEF RTC_REMOVE, ListInv, Listed
<1>2. CASE Registered(loc)
  <2>1. PICK i : i = mp1_find_helper(loc) OBVIOUS
  <2>2. /\ i \in 1 .. Len(list) /\ list[i] \in Slots
    BY <1>2, <2>1, HelperFinds DEF ListInv
  <2>3. list' = RemoveAt(list, i) /\ blink_array' = [blink_array EXCEPT ![list[i]] = Free]
    BY <1>2, <2>1 DEF RTC_REMOVE
  <2>4. /\ list' \in Seq(Slots) /\ Len(list') = Len(list) - 1
        /\ \A k \in 1 .. Len(list') : list'[k] = list[IF k < i THEN k ELSE k + 1]
    <3> DEFINE s1 == SubSeq(list, 1, i - 1)
               s2 == SubSeq(list, i + 1, Len(list))
    <3>1. s1 \in Seq(Slots) /\ Len(s1) = i - 1 /\ \A k \in 1 .. i - 1 : s1[k] = list[k]
      BY <2>2, SubSeqProperties DEF ListInv
    <3>2. /\ s2 \in Seq(Slots) /\ Len(s2) = Len(list) - i
          /\ \A k \in 1 .. Len(list) - i : s2[k] = list[i + k]
      BY <2>2, SubSeqProperties DEF ListInv
    <3>3. list' = s1 \o s2 BY <2>3 DEF RemoveAt
    <3> HIDE DEF s1, s2
    <3>4. /\ s1 \o s2 \in Seq(Slots) /\ Len(s1 \o s2) = Len(list) - 1
          /\ \A k \in 1 .. Len(list) - 1 :
               (s1 \o s2)[k] = IF k <= i - 1 THEN s1[k] ELSE s2[k - (i - 1)]
      BY <3>1, <3>2, <2>2, ConcatProperties DEF ListInv
    <3>5. ASSUME NEW k \in 1 .. Len(list) - 1
          PROVE  (s1 \o s2)[k] = list[IF k < i THEN k ELSE k + 1]
      <4>1. CASE k < i BY <4>1, <3>1, <3>4, <2>2
      <4>2. CASE ~(k < i)
        <5>1. k - (i - 1) \in 1 .. Len(list) - i BY <4>2, <2>2 DEF ListInv
        <5>2. s2[k - (i - 1)] = list[k + 1] BY <3>2, <5>1, <2>2 DEF ListInv
        <5> QED BY <4>2, <3>4, <5>2, <2>2
      <4> QED BY <4>1, <4>2
    <3> QED BY <3>3, <3>4, <3>5
  <2> DEFINE From(k) == IF k < i THEN k ELSE k + 1
  <2>5. \A k \in 1 .. Len(list') : From(k) \in 1 .. Len(list) /\ From(k) # i
    BY <2>2, <2>4 DEF ListInv
  <2>6. \A j, k \in 1 .. Len(list') : From(j) = From(k) => j = k BY <2>2, <2>4
  <2>7. \A k \in 1 .. Len(list') : list'[k] = list[From(k)] BY <2>4
  <2> HIDE DEF From
  <2>8. \A j, k \in 1 .. Len(list') : list'[j] = list'[k] => j = k
    BY <2>5, <2>6, <2>7 DEF ListInv
  <2>9. \A s \in Slots : Listed(s)' => Listed(s) /\ s # list[i]
    BY <2>2, <2>5, <2>7 DEF ListInv, Listed
  <2>10. /\ \A s \in Slots : s # list[i] => blink_array'[s] = blink_array[s]
         /\ blink_array'[list[i]] = Free
         /\ blink_array' = [s \in Slots |-> blink_array'[s]]
    BY <2>2, <2>3 DEF ListInv
  <2>11. IsBlink(Free) BY DEF Free, IsBlink
  <2>12. \A s \in Slots : IsBlink(blink_array'[s]) BY <2>10, <2>11 DEF ListInv
  <2>13. \A s \in Slots : Listed(s)' => blink_array'[s].location # 0
    BY <2>9, <2>10 DEF ListInv
  <2>14. ListInv' BY <2>4, <2>8, <2>10, <2>12, <2>13 DEF ListInv
  <2>15. ASSUME NEW s \in Slots, s # list[i], Listed(s) PROVE Listed(s)'
    <3>1. PICK j \in 1 .. Len(list) : list[j] = s BY <2>15 DEF Listed
    <3>2. PICK k : k = IF j < i THEN j ELSE j - 1 OBVIOUS
    <3>3. j # i BY <3>1, <2>15
    <3>4. k \in 1 .. Len(list') /\ From(k) = j BY <2>2, <2>4, <3>2, <3>3 DEF From, ListInv
    <3> QED BY <2>7, <3>1, <3>4 DEF Listed
  <2>16. blink_array'[list[i]].location = 0
    <3>1. Free.location = 0 BY DEF Free
    <3> QED BY <3>1, <2>10
  <2>17. \A s \in Slots : IF s = list[i] THEN blink_array'[s].location = 0
           ELSE blink_array'[s] = blink_array[s] /\ (Listed(s) => Listed(s)')
    BY <2>10, <2>15, <2>16
  <2> QED BY <2>1, <2>9, <2>10, <2>14, <2>17
<1> QED BY <1>1, <1>2

\* What the steps of the picture's slots have to keep for EvenInv: slots stay as they are,
\* or are new with the full time, or are the mark.
LEMMA EvenKept ==
  ASSUME EvenInv,
         \A s \in Slots : InPicture(s)' => InPicture(s) /\ blink_array'[s] = blink_array[s]
  PROVE  EvenInv'
BY DEF EvenInv

\* The tasklet keeps the list; the characters of the picture come to their end together.
LEMMA TaskletKeeps ==
  ASSUME ListInv, EvenInv, LENGTH \in Nat \ {0}, mp1_rtc_tasklet
  PROVE  /\ ListInv' /\ EvenInv'
         /\ \A s \in Slots : InPicture(s)' => InPicture(s)
         /\ \A s \in Slots : InPicture(s) =>
              IF Toggles THEN blink_array[s].countdown = 1 /\ blink_array'[s].countdown = LENGTH
                         ELSE blink_array'[s].countdown = blink_array[s].countdown - 1
<1>1. /\ list' = list /\ blink_array' = [s \in Slots |-> blink_array'[s]]
      /\ \A s \in Slots : blink_array'[s] = IF Listed(s) THEN Ticked(blink_array[s])
                                                         ELSE blink_array[s]
  BY DEF mp1_rtc_tasklet, Listed
<1>2. \A s \in Slots : Listed(s)' = Listed(s) BY <1>1 DEF Listed
<1>3. \A s \in Slots : IsBlink(blink_array[s]) BY DEF ListInv
<1>4. \A s \in Slots : /\ IsBlink(blink_array'[s])
                       /\ blink_array'[s].location = blink_array[s].location
                       /\ blink_array'[s].on_length = blink_array[s].on_length
                       /\ blink_array'[s].off_length = blink_array[s].off_length
  BY <1>1, <1>3, TickedIs
<1>5. ListInv' BY <1>1, <1>2, <1>4 DEF ListInv
<1>6. \A s \in Slots : InPicture(s)' = InPicture(s) BY <1>2, <1>4 DEF InPicture
<1>7. Toggles <=> \E s \in Slots : InPicture(s) /\ Expires(blink_array[s])
  BY DEF Toggles, InPicture, Listed, ListInv
<1>8. \A s \in Slots : InPicture(s) =>
        /\ Expires(blink_array[s]) <=> blink_array[s].countdown = 1
        /\ Expires(blink_array[s]) <=> Toggles
  BY <1>7 DEF EvenInv, Expires
<1>9. ASSUME NEW s \in Slots, InPicture(s)
      PROVE  IF Toggles THEN blink_array[s].countdown = 1 /\ blink_array'[s].countdown = LENGTH
                        ELSE blink_array'[s].countdown = blink_array[s].countdown - 1
  <2>1. blink_array'[s] = Ticked(blink_array[s]) BY <1>1, <1>9 DEF InPicture
  <2>2. blink_array[s].on_length = LENGTH /\ blink_array[s].off_length = LENGTH
    BY <1>9 DEF EvenInv
  <2> QED BY <2>1, <2>2, <1>3, <1>8, <1>9, TickedIs
<1>10. EvenInv'
  <2>1. ASSUME NEW s \in Slots, InPicture(s)'
        PROVE  /\ blink_array'[s].on_length = LENGTH /\ blink_array'[s].off_length = LENGTH
               /\ blink_array'[s].countdown \in 1 .. LENGTH
    <3>1. InPicture(s) BY <1>6, <2>1
    <3>2. blink_array[s].countdown \in 1 .. LENGTH BY <3>1 DEF EvenInv
    <3> QED BY <1>4, <1>8, <1>9, <3>1, <3>2 DEF EvenInv
  <2>2. ASSUME NEW s \in Slots, NEW t \in Slots, InPicture(s)', InPicture(t)'
        PROVE  blink_array'[s].countdown = blink_array'[t].countdown
    <3>1. InPicture(s) /\ InPicture(t) BY <1>6, <2>2
    <3> QED BY <1>9, <3>1 DEF EvenInv
  <2> QED BY <2>1, <2>2 DEF EvenInv
<1> QED BY <1>5, <1>6, <1>9, <1>10

\* Every step of fish, of the clock and of the other processes preserves PacedInv.
LEMMA PacedFish == PacedInv /\ [FishNext]_fvars => PacedInv'
<1> SUFFICES ASSUME PacedInv, [FishNext]_fvars PROVE PacedInv'
  OBVIOUS
<1>1. CASE UNCHANGED vars BY <1>1, PacedInductive
<1>2. CASE SetRate BY <1>2, OthersKeep DEF SetRate, rtc_write
<1>3. CASE FishRead
  BY <1>3, FishAssumption, PacedInductive DEF FishRead, Next
<1>4. CASE Others \/ Interrupt
  BY <1>4, PacedInductive DEF Others, Interrupt, Next
<1> QED BY <1>1, <1>2, <1>3, <1>4
     DEF FishNext, FishStep, AddFrames, Tasklet, Ioctl, fvars

\* Every step preserves FishInv.
LEMMA FishInductive == FishInv /\ [FishNext]_fvars => FishInv'
<1> SUFFICES ASSUME FishInv, [FishNext]_fvars PROVE FishInv'
  OBVIOUS
<1>p. PacedInv' BY PacedFish DEF FishInv
<1>c. /\ LENGTH \in Nat \ {0} /\ WAIT \in Nat \ {0} /\ COLS \in Nat /\ OFFSET \in Nat \ {0}
      /\ MARK \in Nat \ {0} /\ fish \in Procs
  BY FishAssumption
<1>i. ListInv /\ EvenInv /\ HeldInv /\ since_return[fish] \in BOOLEAN
  BY <1>c DEF FishInv, PacedInv, Control
<1>1. CASE AddFrames
  <2>1. PICK loc : loc = row * COLS + col + OFFSET OBVIOUS
  <2>2. loc \in Nat \ {0}
    <3>1. row * COLS \in Nat BY <1>c, <1>i DEF HeldInv
    <3> QED BY <2>1, <3>1, <1>c, <1>i DEF HeldInv
  <2>3. \/ UNCHANGED blinker
        \/ \E on, off : RTC_ADD(loc, on, off, LENGTH, LENGTH)
    BY <1>1, <2>1 DEF AddFrames
  <2>4. /\ stage = "frames" /\ stage' \in {"frames", "rate"} /\ row' \in Nat /\ col' \in Nat
        /\ UNCHANGED <<held, due, n, since_return>>
    BY <1>1, <1>i DEF AddFrames, HeldInv, vars
  <2>5. /\ ListInv'
        /\ \A s \in Slots : Listed(s)' =>
             \/ Listed(s) /\ blink_array'[s] = blink_array[s]
             \/ /\ blink_array'[s].on_length = LENGTH /\ blink_array'[s].off_length = LENGTH
                /\ blink_array'[s].countdown = LENGTH
    <3>1. CASE UNCHANGED blinker BY <3>1, <1>i DEF blinker, ListInv, Listed
    <3>2. CASE \E on, off : RTC_ADD(loc, on, off, LENGTH, LENGTH)
      BY <3>2, <2>2, <1>i, AddKeeps
    <3> QED BY <2>3, <3>1, <3>2
  <2>6. \A s \in Slots : InPicture(s)' => /\ blink_array'[s].on_length = LENGTH
                                          /\ blink_array'[s].off_length = LENGTH
                                          /\ blink_array'[s].countdown = LENGTH
    BY <2>4, <2>5, <1>i DEF InPicture, EvenInv, HeldInv
  <2>7. EvenInv' BY <2>6, <1>c DEF EvenInv
  <2>8. HeldInv' BY <2>4, <2>6, <1>i DEF HeldInv, Loops
  <2> QED BY <1>p, <2>5, <2>7, <2>8 DEF FishInv
<1>2. CASE SetRate \/ FishRead \/ Others \/ Interrupt \/ UNCHANGED fvars
  <2>2. UNCHANGED <<blink_array, list>>
    BY <1>2 DEF SetRate, FishRead, Others, Interrupt, fvars, blinker
  <2>1. ListInv' /\ EvenInv' /\ \A s \in Slots : InPicture(s)' = InPicture(s)
    BY <2>2, <1>i DEF ListInv, EvenInv, InPicture, Listed
  <2>3. CASE SetRate
    <3>1. /\ stage = "rate" /\ stage' = "picture" /\ held' = 0 /\ due = FALSE
          /\ UNCHANGED <<row, col, n, due>>
      BY <2>3, <1>i DEF SetRate, frames, HeldInv, Loops
    <3>2. \A s \in Slots : InPicture(s)' => blink_array'[s].countdown = LENGTH
      BY <2>1, <2>2, <3>1, <1>i DEF HeldInv
    <3> QED BY <1>p, <1>c, <2>1, <3>1, <3>2, <1>i DEF FishInv, HeldInv, Returns, One, Loops
  <2>4. CASE FishRead
    <3>1. stage \in Loops /\ n < WAIT /\ due = FALSE /\ UNCHANGED <<row, col, n, stage, held>>
      BY <2>4, <1>i DEF FishRead, frames, HeldInv
    <3>2. \/ due' = FALSE /\ since_return' = since_return
          \/ due' = TRUE /\ since_return[fish] = TRUE /\ since_return'[fish] = FALSE
      BY <2>4, <1>c, <1>i DEF FishRead, ReadCall, Read, ReadWait, ReadClear, FishInv, PacedInv,
         Control, PacedByClock
    <3>3. \A s \in Slots : InPicture(s) => blink_array[s].countdown \in 1 .. LENGTH
      BY <1>i DEF EvenInv
    <3>4. \A s \in Slots : InPicture(s)' => held' + 1 >= Returns(s)' + One(since_return[fish])'
      BY <2>1, <2>2, <3>1, <3>2, <3>3, <1>i, <1>c DEF HeldInv, Returns, One
    <3>5. HeldInv' BY <3>1, <3>2, <3>4, <1>i DEF HeldInv, Loops
    <3> QED BY <1>p, <2>1, <3>5 DEF FishInv
  <2>5. CASE Others \/ UNCHANGED fvars
    <3>1. /\ UNCHANGED <<row, col, n, stage, held, due>>
          /\ since_return'[fish] = since_return[fish]
      BY <2>5, <1>c, <1>i DEF Others, frames, fvars, vars, Pulse, toggle_freq, StopClock,
          ReadCall, Read,
         ReadWait, ReadClear, rtc_write, FishInv, PacedInv, Control
    <3>2. HeldInv' BY <2>1, <2>2, <3>1, <1>i DEF HeldInv, Returns, One
    <3> QED BY <1>p, <2>1, <3>2 DEF FishInv
  <2>6. CASE Interrupt
    <3>1. /\ UNCHANGED <<row, col, n, stage, due>> /\ since_return'[fish] = TRUE
          /\ held' = IF held < LENGTH THEN held + 1 ELSE held
      BY <2>6, <1>c DEF Interrupt, frames, rtc_handler
    <3>2. \A s \in Slots : InPicture(s) => blink_array[s].countdown \in 1 .. LENGTH
      BY <1>i DEF EvenInv
    <3>3. ASSUME stage \in Loops, NEW s \in Slots, InPicture(s)'
          PROVE  held' + 1 >= Returns(s)' + One(since_return[fish])'
      BY <2>1, <2>2, <3>1, <3>2, <3>3, <1>i, <1>c DEF HeldInv, Returns, One
    <3>4. HeldInv' BY <2>1, <2>2, <3>1, <3>3, <1>i, <1>c DEF HeldInv
    <3> QED BY <1>p, <2>1, <3>4 DEF FishInv
  <2> QED BY <1>2, <2>3, <2>4, <2>5, <2>6
<1>3. CASE Tasklet
  <2>1. /\ due = TRUE /\ due' = FALSE /\ n' = n + 1 /\ UNCHANGED <<row, col, stage, since_return>>
        /\ held' = (IF Toggles THEN 0 ELSE held) /\ mp1_rtc_tasklet
    BY <1>3, <1>i DEF Tasklet, frames, vars, HeldInv
  <2>2. /\ ListInv' /\ EvenInv'
        /\ \A s \in Slots : InPicture(s)' => InPicture(s)
        /\ \A s \in Slots : InPicture(s) =>
              IF Toggles THEN blink_array[s].countdown = 1 /\ blink_array'[s].countdown = LENGTH
                         ELSE blink_array'[s].countdown = blink_array[s].countdown - 1
    BY <2>1, <1>c, <1>i, TaskletKeeps
  <2>3. \A s \in Slots : InPicture(s) => blink_array[s].countdown \in 1 .. LENGTH
    BY <1>i DEF EvenInv
  <2>4. ASSUME NEW s \in Slots, InPicture(s)'
        PROVE  held' + 1 >= Returns(s)' + One(since_return[fish])'
    BY <2>1, <2>2, <2>3, <2>4, <1>c, <1>i DEF HeldInv, Returns, One, Loops
  <2>5. held' \in 0 .. LENGTH /\ n' \in Nat /\ row' \in Nat /\ col' \in Nat
    BY <2>1, <1>c, <1>i DEF HeldInv
  <2>6. stage' \notin {"frames", "rate"} BY <2>1, <1>i DEF HeldInv, Loops
  <2>7. HeldInv' BY <2>1, <2>4, <2>5, <2>6 DEF HeldInv
  <2> QED BY <1>p, <2>2, <2>7 DEF FishInv
<1>4. CASE Ioctl
  <2>1. /\ stage \in Loops /\ stage' \in Loops \cup {"over"} /\ n' = 0 /\ n = WAIT
        /\ UNCHANGED <<row, col, due, since_return, held>>
    BY <1>4 DEF Ioctl, frames, vars, Loops
  <2>2. /\ ListInv'
        /\ \A s \in Slots : InPicture(s)' => InPicture(s) /\ blink_array'[s] = blink_array[s]
    <3>1. CASE UNCHANGED blinker BY <3>1, <1>i DEF blinker, ListInv, InPicture, Listed
    <3>2. CASE RTC_ADD(MARK, "I", "M", MARK_ON, MARK_OFF)
      BY <3>2, <1>c, <1>i, AddKeeps DEF InPicture
    <3>3. CASE RTC_SYNC(OFFSET, MARK) BY <3>3, <1>i, SyncKeeps DEF InPicture
    <3>4. CASE RTC_REMOVE(MARK) BY <3>4, <1>i, RemoveKeeps DEF InPicture
    <3> QED BY <1>4, <3>1, <3>2, <3>3, <3>4 DEF Ioctl
  <2>3. EvenInv' BY <2>2, <1>i, EvenKept
  <2>4. due = FALSE BY <2>1, <1>c, <1>i DEF HeldInv
  <2>5. ASSUME stage' \in Loops, NEW s \in Slots, InPicture(s)'
        PROVE  held' + 1 >= Returns(s)' + One(since_return[fish])'
    BY <2>1, <2>2, <2>5, <1>i DEF HeldInv, Returns
  <2>6. stage' \notin {"frames", "rate"} BY <2>1 DEF Loops
  <2>7. HeldInv' BY <2>1, <2>4, <2>5, <2>6, <1>c, <1>i DEF HeldInv
  <2> QED BY <1>p, <2>2, <2>3, <2>7 DEF FishInv
<1> QED BY <1>1, <1>2, <1>3, <1>4 DEF FishNext, FishStep

\* FishInv holds of every behaviour of fish among other users of the clock.
LEMMA FishInvariant == FishSpec => []FishInv
<1>1. FishInit => FishInv
  <2> SUFFICES ASSUME FishInit PROVE FishInv
    OBVIOUS
  <2>1. PacedInv BY DEF FishInit, Init, PacedInv, Control, FlagIsNew, PacedByClock
  <2>2. list = <<>> /\ Len(list) = 0 /\ blink_array = [s \in Slots |-> Free] BY DEF FishInit
  <2>3. IsBlink(Free) BY DEF IsBlink, Free
  <2>4. \A s \in Slots : ~Listed(s) BY <2>2 DEF Listed
  <2>5. ListInv BY <2>2, <2>3, <2>4 DEF ListInv
  <2>6. EvenInv BY <2>4 DEF EvenInv, InPicture
  <2>7. /\ row = 0 /\ col = 0 /\ n = 0 /\ due = FALSE /\ held = 0 /\ stage = "frames"
        /\ LENGTH \in Nat
    BY FishAssumption DEF FishInit
  <2>8. HeldInv
    <3>1. \A s \in Slots : ~InPicture(s) BY <2>4 DEF InPicture
    <3>2. stage \notin Loops BY <2>7 DEF Loops
    <3>3. 0 \in Nat /\ 0 \in 0 .. LENGTH BY <2>7
    <3> QED BY <2>7, <3>1, <3>2, <3>3, Zenon DEF HeldInv
  <2> QED BY <2>1, <2>5, <2>6, <2>8 DEF FishInv
<1> QED BY <1>1, FishInductive, PTL DEF FishSpec

\* fish is paced by the clock too: between two of its returns from rtc_read, and between
\* those of every other process, lies an interrupt.
THEOREM FishIsPaced == FishSpec => []PacedByClock
<1>1. FishInv => PacedByClock BY DEF FishInv, PacedInv
<1> QED BY <1>1, FishInvariant, PTL

\* A picture stays for LENGTH - 1 interrupts at least, whichever files fish shows, however
\* long its loops are, and however many processes read and set the clock.
THEOREM PictureHeld == FishSpec => FrameHeld
<1>1. ASSUME FishInv, Tasklet, Toggles PROVE held + 1 >= LENGTH
  <2>1. due = TRUE /\ stage \in Loops /\ held \in 0 .. LENGTH
    BY <1>1 DEF Tasklet, FishInv, HeldInv
  <2>2. PICK k \in 1 .. Len(list) :
          blink_array[list[k]].location # MARK /\ Expires(blink_array[list[k]])
    BY <1>1 DEF Toggles
  <2>3. PICK s : s = list[k] OBVIOUS
  <2>4. s \in Slots /\ InPicture(s) /\ Expires(blink_array[s])
    BY <1>1, <2>2, <2>3 DEF FishInv, ListInv, InPicture, Listed
  <2>5. blink_array[s].countdown \in 1 .. LENGTH BY <1>1, <2>4 DEF FishInv, EvenInv
  <2>6. blink_array[s].countdown = 1
    BY <2>4, <2>5, FishAssumption DEF Expires
  <2>7. held + 1 >= Returns(s) + One(since_return[fish])
    BY <1>1, <2>1, <2>4 DEF FishInv, HeldInv
  <2> QED BY <2>1, <2>6, <2>7, FishAssumption DEF Returns, One
<1>2. FishInv => [Tasklet /\ Toggles => held + 1 >= LENGTH]_fvars BY <1>1
<1> QED BY <1>2, FishInvariant, PTL DEF FrameHeld

-----------------------------------------------------------------------------
(* The pictures.  First the lines of a text.                                *)

\* A place where a line starts, or would behind the end.
LineStart(t, s) == s \in 1 .. Len(t) + 1 /\ (s = 1 \/ t[s - 1] = "NL")

\* The line that starts at k ends before e.
EndOf(t, k, e) ==
  /\ e \in k .. Len(t) + 1
  /\ e = Len(t) + 1 \/ t[e] = "NL"
  /\ \A j \in k .. e - 1 : t[j] # "NL"

\* Every line ends.
LEMMA EndExists ==
  ASSUME NEW t \in Seq(STRING), NEW k \in 1 .. Len(t) + 1
  PROVE  \E e : EndOf(t, k, e)
<1>0. Len(t) \in Nat BY LenProperties
<1> DEFINE T == {e \in k .. Len(t) + 1 : e = Len(t) + 1 \/ t[e] = "NL"}
<1>1. T \in SUBSET Nat /\ Len(t) + 1 \in T BY <1>0
<1>2. PICK e \in T : \A y \in T : e <= y BY <1>1, SmallestNat
<1>3. \A j \in k .. e - 1 : t[j] # "NL" BY <1>2, <1>0
<1> QED BY <1>2, <1>3 DEF EndOf

\* A line is what lies before its end.
LEMMA LineIs ==
  ASSUME NEW t \in Seq(STRING), NEW k \in 1 .. Len(t) + 1, NEW e, EndOf(t, k, e)
  PROVE  /\ Len(LineAt(t, k)) = e - k
         /\ \A j \in 1 .. e - k : LineAt(t, k)[j] = t[k + j - 1]
<1>0. Len(t) \in Nat /\ \A j \in 1 .. Len(t) : t[j] \in STRING BY LenProperties, ElementOfSeq
<1>e. e \in k .. Len(t) + 1 /\ e \in Int BY <1>0 DEF EndOf
<1> DEFINE F(x) == (x = Len(t) + 1 \/ t[x] = "NL") /\ \A j \in k .. x - 1 : t[j] # "NL"
<1>1. F(e) BY DEF EndOf
<1>2. \A x \in k .. Len(t) + 1 : F(x) => x = e BY <1>0, <1>1, <1>e
<1>3. e = CHOOSE x \in k .. Len(t) + 1 : F(x) BY <1>1, <1>2, <1>e
<1>4. LineAt(t, k) = SubSeq(t, k, e - 1) BY <1>3 DEF LineAt
<1>5. \A j \in k .. e - 1 : t[j] \in STRING BY <1>0, <1>e
<1>6. k \in Int /\ e - 1 \in Int BY <1>0, <1>e
<1>7. /\ Len(SubSeq(t, k, e - 1)) = IF k <= e - 1 THEN e - 1 - k + 1 ELSE 0
      /\ \A j \in 1 .. e - 1 - k + 1 : SubSeq(t, k, e - 1)[j] = t[k + j - 1]
  BY <1>5, <1>6, SubSeqProperties
<1>8. e - 1 - k + 1 = e - k /\ (k > e - 1 => e - k = 0) BY <1>6, <1>e, <1>0
<1>9. Len(SubSeq(t, k, e - 1)) = e - k BY <1>6, <1>7, <1>8
<1> QED BY <1>4, <1>7, <1>8, <1>9, Zenon

\* The number of a line.
LEMMA Number ==
  ASSUME NEW t, NEW k \in Nat
  PROVE  IsFiniteSet({j \in 1 .. k - 1 : t[j] = "NL"}) /\ LineNumber(t, k) \in Nat
<1>1. IsFiniteSet(1 .. k - 1) BY FS_Interval
<1>2. {j \in 1 .. k - 1 : t[j] = "NL"} \in SUBSET (1 .. k - 1) OBVIOUS
<1>3. IsFiniteSet({j \in 1 .. k - 1 : t[j] = "NL"}) BY <1>1, <1>2, FS_Subset
<1> QED BY <1>3, FS_CardinalityType DEF LineNumber

\* The line behind the next newline has the next number.
LEMMA NextNumber ==
  ASSUME NEW t, NEW s \in Nat \ {0}, NEW a \in Nat, s <= a, t[a] = "NL",
         \A j \in s .. a - 1 : t[j] # "NL"
  PROVE  LineNumber(t, a + 1) = LineNumber(t, s) + 1
<1> DEFINE S == {j \in 1 .. s - 1 : t[j] = "NL"}
           T == {j \in 1 .. (a + 1) - 1 : t[j] = "NL"}
<1>1. IsFiniteSet(S) BY Number
<1>2. T = S \cup {a} OBVIOUS
<1>3. a \notin S OBVIOUS
<1>4. Cardinality(S \cup {a}) = Cardinality(S) + 1 BY <1>1, <1>3, FS_AddElement
<1> QED BY <1>2, <1>4 DEF LineNumber

\* Lines that start earlier have smaller numbers.
LEMMA NumbersGrow ==
  ASSUME NEW t, NEW z \in Nat \ {0}, NEW s \in Nat, z < s, t[s - 1] = "NL"
  PROVE  LineNumber(t, z) < LineNumber(t, s)
<1> DEFINE S == {j \in 1 .. z - 1 : t[j] = "NL"}
           T == {j \in 1 .. s - 1 : t[j] = "NL"}
<1>1. IsFiniteSet(S) /\ IsFiniteSet(T) /\ Cardinality(S) \in Nat /\ Cardinality(T) \in Nat
  BY Number DEF LineNumber
<1>2. S \cup {s - 1} \in SUBSET T /\ s - 1 \notin S OBVIOUS
<1>3. Cardinality(S \cup {s - 1}) = Cardinality(S) + 1 BY <1>1, <1>2, FS_AddElement
<1>4. Cardinality(S \cup {s - 1}) <= Cardinality(T)
  <2> HIDE DEF S, T
  <2> QED BY <1>1, <1>2, FS_Subset
<1>5. Cardinality(S) < Cardinality(T) BY <1>1, <1>3, <1>4
<1> QED BY <1>5 DEF LineNumber

\* So a number belongs to one line.
LEMMA OneLine ==
  ASSUME NEW t \in Seq(STRING), NEW s, LineStart(t, s), NEW z, LineStart(t, z),
         LineNumber(t, s) = LineNumber(t, z)
  PROVE  s = z
<1>0. Len(t) \in Nat BY LenProperties
<1>1. s \in Nat \ {0} /\ z \in Nat \ {0} BY <1>0 DEF LineStart
<1>2. LineNumber(t, s) \in Nat /\ LineNumber(t, z) \in Nat BY <1>1, Number
<1>3. ~(s < z) BY <1>1, <1>2, NumbersGrow DEF LineStart
<1>4. ~(z < s) BY <1>1, <1>2, NumbersGrow DEF LineStart
<1> QED BY <1>1, <1>3, <1>4

\* The characters of a line by its number.
LEMMA LineByNumber ==
  ASSUME NEW t \in Seq(STRING), NEW s, LineStart(t, s), NEW r, LineNumber(t, s) = r
  PROVE  /\ s <= Len(t) => Line(t, r) = LineAt(t, s)
         /\ s = Len(t) + 1 => Line(t, r) = <<>>
<1>0. Len(t) \in Nat BY LenProperties
<1>1. \A z \in Starts(t) : LineStart(t, z) BY <1>0 DEF Starts, LineStart
<1>2. \A z \in Starts(t) : LineNumber(t, z) = r => z = s BY <1>1, OneLine
<1>3. ASSUME s <= Len(t) PROVE Line(t, r) = LineAt(t, s)
  <2>1. s \in Starts(t) BY <1>0, <1>3 DEF LineStart, Starts
  <2>2. s = CHOOSE z \in Starts(t) : LineNumber(t, z) = r BY <2>1, <1>2
  <2> QED BY <2>1, <2>2 DEF Line
<1>4. ASSUME s = Len(t) + 1 PROVE Line(t, r) = <<>>
  <2>1. s \notin Starts(t) BY <1>0, <1>4 DEF Starts
  <2> QED BY <2>1, <1>2 DEF Line
<1> QED BY <1>3, <1>4

\* A line that is not empty starts somewhere.
LEMMA LineStarts ==
  ASSUME NEW t \in Seq(STRING), NEW r, Line(t, r) # <<>>
  PROVE  \E s \in Starts(t) : LineNumber(t, s) = r /\ Line(t, r) = LineAt(t, s)
<1>1. PICK z \in Starts(t) : LineNumber(t, z) = r BY DEF Line
<1>2. PICK s : s = CHOOSE s1 \in Starts(t) : LineNumber(t, s1) = r OBVIOUS
<1>3. s \in Starts(t) /\ LineNumber(t, s) = r BY <1>1, <1>2
<1>4. Line(t, r) = LineAt(t, s) BY <1>1, <1>2 DEF Line
<1> QED BY <1>3, <1>4

Space == " "

\* What is put on the screen for a character.
LEMMA BlankIs == Blank("NL") = Space /\ \A ch : ch # "NL" => Blank(ch) = ch
BY Zenon DEF Blank, Space

\* The character of a text in a row and a column.
CharOf(t, r, k) == IF k < Len(Line(t, r)) THEN Line(t, r)[k + 1] ELSE Space

\* It is a character of the text on the line, and blank behind it.
LEMMA CharIs ==
  ASSUME NEW t \in Seq(STRING), NEW s, LineStart(t, s), NEW r, LineNumber(t, s) = r,
         NEW e, EndOf(t, s, e), NEW k \in Nat
  PROVE  CharOf(t, r, k) = IF k < e - s THEN t[s + k] ELSE Space
<1>0. Len(t) \in Nat /\ s \in Nat \ {0} /\ s <= Len(t) + 1 /\ e \in s .. Len(t) + 1 /\ e \in Nat
      /\ s \in 1 .. Len(t) + 1
  BY LenProperties DEF LineStart, EndOf
<1>1. CASE s = Len(t) + 1
  <2>1. Line(t, r) = <<>> BY <1>1, LineByNumber
  <2>2. Len(Line(t, r)) = 0 BY <2>1
  <2>3. ~(k < Len(Line(t, r))) /\ ~(k < e - s) BY <2>2, <1>0, <1>1
  <2> QED BY <2>3 DEF CharOf
<1>2. CASE s <= Len(t)
  <2>1. Line(t, r) = LineAt(t, s) BY <1>2, LineByNumber
  <2>2. /\ Len(LineAt(t, s)) = e - s
        /\ \A j \in 1 .. e - s : LineAt(t, s)[j] = t[s + j - 1]
    BY <1>0, LineIs
  <2>3. CASE k < e - s
    <3>1. k + 1 \in 1 .. e - s /\ s + (k + 1) - 1 = s + k BY <2>3, <1>0
    <3> QED BY <2>1, <2>2, <2>3, <3>1 DEF CharOf
  <2>4. CASE ~(k < e - s) BY <2>1, <2>2, <2>4 DEF CharOf
  <2> QED BY <2>3, <2>4
<1>3. s = Len(t) + 1 \/ s <= Len(t) BY <1>0
<1> QED BY <1>1, <1>2, <1>3

(* Where add_frames is in a text when it is at row r and column k: on the    *)
(* line of the row, behind its newline, or at the end of the text.           *)
OnLine(t, a, s, r, k) ==
  /\ LineStart(t, s) /\ LineNumber(t, s) = r /\ s = a + 1 - k
  /\ \A j \in s .. a : t[j] # "NL"

BehindLine(t, a, s, r, k) ==
  /\ LineStart(t, s) /\ LineNumber(t, s) = r /\ s <= a /\ a - s <= k
  /\ t[a] = "NL" /\ \A j \in s .. a - 1 : t[j] # "NL"

BehindText(t, r, k) ==
  \A s \in Starts(t) :
    LineNumber(t, s) < r \/ (LineNumber(t, s) = r /\ Len(t) + 1 - s <= k)

ReadOK(t, a, ch, e, r, k) ==
  /\ t \in Seq(STRING) /\ a \in 0 .. Len(t) /\ e \in BOOLEAN
  /\ ch # "NL" => ~e /\ \E s : OnLine(t, a, s, r, k)
  /\ ch = "NL" /\ ~e => \E s : BehindLine(t, a, s, r, k)
  /\ e => ch = "NL" /\ a = Len(t) /\ BehindText(t, r, k)

\* What add_frames finds next in a text.
NextIn(t, a, ch) == IF ch # "NL" /\ a # Len(t) THEN t[a + 1] ELSE "NL"

\* It is the character of the text in the row and the column; behind a newline the row is
\* blank.
LEMMA NextIsChar ==
  ASSUME NEW t, NEW a, NEW ch, NEW e, NEW r, NEW k \in Nat, ReadOK(t, a, ch, e, r, k)
  PROVE  /\ CharOf(t, r, k) = Blank(NextIn(t, a, ch))
         /\ NextIn(t, a, ch) = "NL" => \A j \in Nat : j >= k => CharOf(t, r, j) = Space
<1>0. t \in Seq(STRING) /\ Len(t) \in Nat /\ a \in Nat /\ a <= Len(t) /\ e \in BOOLEAN
  BY LenProperties DEF ReadOK
<1>s. ASSUME NextIn(t, a, ch) = "NL", \A j \in Nat : j >= k => CharOf(t, r, j) = Space
      PROVE  /\ CharOf(t, r, k) = Blank(NextIn(t, a, ch))
             /\ NextIn(t, a, ch) = "NL" => \A j \in Nat : j >= k => CharOf(t, r, j) = Space
  BY <1>s, BlankIs
<1>1. CASE ch # "NL"
  <2>1. PICK s : OnLine(t, a, s, r, k) BY <1>1 DEF ReadOK
  <2>2. /\ LineStart(t, s) /\ LineNumber(t, s) = r /\ s = a + 1 - k /\ s \in 1 .. Len(t) + 1
        /\ \A j \in s .. a : t[j] # "NL"
    BY <2>1 DEF OnLine, LineStart
  <2>3. CASE a = Len(t) \/ t[a + 1] = "NL"
    <3>1. EndOf(t, s, a + 1) BY <2>2, <2>3, <1>0 DEF EndOf
    <3>2. \A j \in Nat : j >= k => ~(j < (a + 1) - s) BY <2>2, <1>0
    <3>3. \A j \in Nat : j >= k => CharOf(t, r, j) = Space BY <3>1, <3>2, <2>2, <1>0, CharIs
    <3>4. NextIn(t, a, ch) = "NL" BY <2>3, <1>1 DEF NextIn
    <3> QED BY <3>3, <3>4, <1>s
  <2>5. CASE a # Len(t) /\ t[a + 1] # "NL"
    <3>1. PICK x : EndOf(t, s, x) BY <2>2, <1>0, EndExists
    <3>2. x \in s .. Len(t) + 1 /\ (x = Len(t) + 1 \/ t[x] = "NL") BY <3>1 DEF EndOf
    <3>3. x > a + 1
      <4>1. x # a + 1 BY <3>2, <2>5, <1>0
      <4>2. ~(x \in s .. a) BY <3>2, <2>2, <2>5, <1>0
      <4> QED BY <4>1, <4>2, <3>2, <2>2, <1>0
    <3>4. k < x - s /\ s + k = a + 1 BY <3>2, <3>3, <2>2, <1>0
    <3>5. CharOf(t, r, k) = t[a + 1] BY <3>1, <3>4, <2>2, <1>0, CharIs
    <3>6. NextIn(t, a, ch) = t[a + 1] BY <2>5, <1>1 DEF NextIn
    <3> QED BY <3>5, <3>6, <2>5, BlankIs
  <2> QED BY <2>3, <2>5
<1>2. CASE ch = "NL" /\ ~e
  <2>1. PICK s : BehindLine(t, a, s, r, k) BY <1>2 DEF ReadOK
  <2>2. /\ LineStart(t, s) /\ LineNumber(t, s) = r /\ s \in 1 .. Len(t) + 1
        /\ s <= a /\ a - s <= k /\ t[a] = "NL" /\ \A j \in s .. a - 1 : t[j] # "NL"
    BY <2>1 DEF BehindLine, LineStart
  <2>3. EndOf(t, s, a) BY <2>2, <1>0 DEF EndOf
  <2>4. \A j \in Nat : j >= k => ~(j < a - s) BY <2>2, <1>0
  <2>5. \A j \in Nat : j >= k => CharOf(t, r, j) = Space BY <2>2, <2>3, <2>4, <1>0, CharIs
  <2> QED BY <2>5, <1>2, <1>s DEF NextIn
<1>3. CASE ch = "NL" /\ e
  <2>1. BehindText(t, r, k) BY <1>3 DEF ReadOK
  <2>2. ASSUME NEW j \in Nat, j >= k PROVE CharOf(t, r, j) = Space
    <3>1. CASE Line(t, r) = <<>>
      <4>1. Len(Line(t, r)) = 0 BY <3>1
      <4>2. ~(j < Len(Line(t, r))) BY <4>1
      <4> QED BY <4>2 DEF CharOf
    <3>2. CASE Line(t, r) # <<>>
      <4>1. PICK s \in Starts(t) : LineNumber(t, s) = r BY <3>2, <1>0, LineStarts
      <4>2. s \in 1 .. Len(t) /\ s \in Nat /\ LineStart(t, s) BY <4>1, <1>0 DEF Starts, LineStart
      <4>3. LineNumber(t, s) \in Nat BY <4>2, Number
      <4>4. Len(t) + 1 - s <= k BY <2>1, <4>1, <4>3 DEF BehindText
      <4>5. PICK x : EndOf(t, s, x) BY <4>2, <1>0, EndExists
      <4>6. x \in s .. Len(t) + 1 BY <4>5 DEF EndOf
      <4>7. ~(j < x - s) BY <2>2, <4>2, <4>4, <4>6, <1>0
      <4> QED BY <4>1, <4>2, <4>5, <4>7, <1>0, CharIs
    <3> QED BY <3>1, <3>2
  <2> QED BY <2>2, <1>3, <1>s DEF NextIn
<1> QED BY <1>1, <1>2, <1>3, <1>0

\* How far it has come then, whether the text has ended, and what a new row starts with.
NextAt(t, a, ch)     == IF ch # "NL" /\ a # Len(t) THEN a + 1 ELSE a
NextEof(t, a, ch, e) == e \/ (ch # "NL" /\ a = Len(t))
RowChar(e)           == IF e THEN "NL" ELSE "0"

\* The next character, in the same row or at the end of it.
LEMMA ReadStep ==
  ASSUME NEW t, NEW a, NEW ch, NEW e, NEW r \in Nat, NEW k \in Nat, ReadOK(t, a, ch, e, r, k),
         NEW b, b = NextAt(t, a, ch), NEW d, d = NextEof(t, a, ch, e)
  PROVE  /\ ReadOK(t, b, NextIn(t, a, ch), d, r, k + 1)
         /\ NextIn(t, a, ch) = "NL" => ReadOK(t, b, RowChar(d), d, r + 1, 0)
<1>0. t \in Seq(STRING) /\ Len(t) \in Nat /\ a \in Nat /\ a <= Len(t) /\ e \in BOOLEAN
  BY LenProperties DEF ReadOK
<1>n. \A z \in Starts(t) : z \in Nat \ {0} /\ z <= Len(t) /\ LineNumber(t, z) \in Nat
  <2> TAKE z \in Starts(t)
  <2>1. z \in Nat \ {0} /\ z <= Len(t) BY <1>0 DEF Starts
  <2> QED BY <2>1, Number
<1>1. CASE ch # "NL" /\ a # Len(t)
  <2>1. PICK s : OnLine(t, a, s, r, k) BY <1>1 DEF ReadOK, RowChar
  <2>2. /\ LineStart(t, s) /\ LineNumber(t, s) = r /\ s = a + 1 - k /\ s \in Nat \ {0}
        /\ \A j \in s .. a : t[j] # "NL"
    BY <2>1, <1>0 DEF OnLine, LineStart
  <2>3. b = a + 1 /\ d = FALSE /\ NextIn(t, a, ch) = t[a + 1] /\ b \in 0 .. Len(t)
    BY <1>0, <1>1 DEF NextIn, ReadOK, NextAt, NextEof
  <2>4. CASE t[a + 1] # "NL"
    <3>1. OnLine(t, b, s, r, k + 1) BY <2>2, <2>3, <2>4, <1>0 DEF OnLine
    <3> QED BY <3>1, <2>3, <2>4, <1>0 DEF ReadOK, RowChar
  <2>5. CASE t[a + 1] = "NL"
    <3>1. BehindLine(t, b, s, r, k + 1) BY <2>2, <2>3, <2>5, <1>0 DEF BehindLine
    <3>2. LineNumber(t, b + 1) = r + 1
      <4>1. s <= b /\ b \in Nat /\ t[b] = "NL" /\ \A j \in s .. b - 1 : t[j] # "NL"
        BY <2>2, <2>3, <2>5, <1>0
      <4> QED BY <4>1, <2>2, NextNumber
    <3>3. OnLine(t, b, b + 1, r + 1, 0)
      <4>1. LineStart(t, b + 1) BY <2>3, <2>5, <1>0 DEF LineStart
      <4> QED BY <4>1, <3>2, <2>3, <1>0 DEF OnLine
    <3> QED BY <3>1, <3>3, <2>3, <2>5, <1>0 DEF ReadOK, RowChar
  <2> QED BY <2>4, <2>5
<1>2. CASE ch # "NL" /\ a = Len(t)
  <2>1. PICK s : OnLine(t, a, s, r, k) BY <1>2 DEF ReadOK, RowChar
  <2>2. /\ LineStart(t, s) /\ LineNumber(t, s) = r /\ s = a + 1 - k /\ s \in Nat \ {0}
        /\ \A j \in s .. a : t[j] # "NL"
    BY <2>1, <1>0 DEF OnLine, LineStart
  <2>3. b = a /\ d = TRUE /\ NextIn(t, a, ch) = "NL" BY <1>2 DEF NextIn, NextAt, NextEof
  <2>4. ASSUME NEW z \in Starts(t)
        PROVE  LineNumber(t, z) < r \/ (LineNumber(t, z) = r /\ Len(t) + 1 - z <= k)
    <3>1. CASE z = s BY <3>1, <2>2, <1>2, <1>0
    <3>2. CASE z < s
      <4>1. t[s - 1] = "NL" BY <3>2, <2>2, <1>n DEF LineStart
      <4> QED BY <4>1, <3>2, <2>2, <1>n, NumbersGrow
    <3>3. CASE z > s
      <4>1. z - 1 \in s .. a /\ z # 1 BY <3>3, <2>2, <1>n, <1>2, <1>0
      <4> QED BY <4>1, <2>2 DEF Starts
    <3> QED BY <3>1, <3>2, <3>3, <1>n, <2>2
  <2>5. BehindText(t, r, k + 1) BY <2>4, <1>n, <1>0 DEF BehindText
  <2>6. BehindText(t, r + 1, 0) BY <2>4, <1>n, <1>0 DEF BehindText
  <2> QED BY <2>3, <2>5, <2>6, <1>0, <1>2 DEF ReadOK, RowChar
<1>3. CASE ch = "NL" /\ ~e
  <2>1. PICK s : BehindLine(t, a, s, r, k) BY <1>3 DEF ReadOK, RowChar
  <2>2. /\ LineStart(t, s) /\ LineNumber(t, s) = r /\ s \in Nat \ {0}
        /\ s <= a /\ a - s <= k /\ t[a] = "NL" /\ \A j \in s .. a - 1 : t[j] # "NL"
    BY <2>1, <1>0 DEF BehindLine, LineStart
  <2>3. b = a /\ d = FALSE /\ NextIn(t, a, ch) = "NL" BY <1>3, <1>0 DEF NextIn, NextAt, NextEof
  <2>4. BehindLine(t, b, s, r, k + 1) BY <2>2, <2>3, <1>0 DEF BehindLine
  <2>5. LineNumber(t, b + 1) = r + 1 BY <2>2, <2>3, <1>0, NextNumber
  <2>6. OnLine(t, b, b + 1, r + 1, 0)
    <3>1. LineStart(t, b + 1) BY <2>2, <2>3, <1>0 DEF LineStart
    <3> QED BY <3>1, <2>3, <2>5, <1>0 DEF OnLine
  <2> QED BY <2>3, <2>4, <2>6, <1>0 DEF ReadOK, RowChar
<1>4. CASE ch = "NL" /\ e
  <2>1. a = Len(t) /\ BehindText(t, r, k) BY <1>4 DEF ReadOK, RowChar
  <2>2. b = a /\ d = TRUE /\ NextIn(t, a, ch) = "NL" BY <1>4 DEF NextIn, NextAt, NextEof
  <2>3. BehindText(t, r, k + 1) BY <2>1, <1>n, <1>0 DEF BehindText
  <2>4. BehindText(t, r + 1, 0) BY <2>1, <1>n, <1>0 DEF BehindText
  <2> QED BY <2>1, <2>2, <2>3, <2>4, <1>0 DEF ReadOK, RowChar
<1> QED BY <1>1, <1>2, <1>3, <1>4, <1>0

\* All characters of a text that has ended lie in rows before.
LEMMA CharsBefore ==
  ASSUME NEW t \in Seq(STRING), NEW r \in Nat, BehindText(t, r, 0),
         NEW q \in Nat, NEW k \in Nat, CharOf(t, q, k) # Space
  PROVE  q < r
<1>0. Len(t) \in Nat BY LenProperties
<1>1. Line(t, q) # <<>>
  <2> SUFFICES ASSUME Line(t, q) = <<>> PROVE FALSE OBVIOUS
  <2>1. Len(Line(t, q)) = 0 OBVIOUS
  <2>2. ~(k < Len(Line(t, q))) BY <2>1
  <2> QED BY <2>2 DEF CharOf
<1>2. PICK s \in Starts(t) : LineNumber(t, s) = q BY <1>0, <1>1, LineStarts
<1>3. s \in 1 .. Len(t) BY <1>2 DEF Starts
<1>4. q < r \/ (q = r /\ Len(t) + 1 - s <= 0) BY <1>0, <1>2 DEF BehindText
<1>5. ~(Len(t) + 1 - s <= 0) BY <1>0, <1>3
<1> QED BY <1>4, <1>5

-----------------------------------------------------------------------------
(* What is registered and shown.                                            *)

Done(r, k) == r < row \/ (r = row /\ k < col)
Loc(r, k)  == r * COLS + k + OFFSET
Vis(r, k)  == CharOf(files[1], r, k) # Space \/ CharOf(files[2], r, k) # Space

\* The mark is the head of the list; the other slots of the list are the pictures'.
Marked == stage \in {"mark", "synced"}
Pic(s) == Listed(s) /\ (Marked => s # list[1])

\* Where add_frames is in the two files.
TextsInv ==
  /\ files \in Pictures
  /\ \A f \in 1 .. 2 : ReadOK(files[f], at[f], c[f], eof[f], row, col)
  /\ stage # "frames" => eof[1] /\ eof[2] /\ col = 0

\* The places that were read and are not blank have a slot each, with their characters, and
\* there are no other slots in use.
PicInv ==
  /\ \A s \in Slots : ~Listed(s) => blink_array[s].location = 0
  /\ \A s \in Slots : Pic(s) => \E r, k \in Nat :
       /\ Done(r, k) /\ k < COLS /\ blink_array[s].location = Loc(r, k) /\ Loc(r, k) \in Locations
       /\ blink_array[s].off_char = CharOf(files[2], r, k)
  /\ \A s, t \in Slots :
       Pic(s) /\ Pic(t) /\ blink_array[s].location = blink_array[t].location => s = t
  /\ \A r, k \in Nat : Done(r, k) /\ Vis(r, k) /\ Loc(r, k) \in Locations => \E s \in Slots :
       /\ Pic(s) /\ blink_array[s].location = Loc(r, k)
       /\ blink_array[s].on_char = CharOf(files[1], r, k)
       /\ blink_array[s].off_char = CharOf(files[2], r, k)

Same(s, t) ==
  /\ blink_array[s].countdown = blink_array[t].countdown
  /\ blink_array[s].status = blink_array[t].status

\* The slots of the pictures count alike and have the same status.
TimeInv ==
  /\ \A s \in Slots : Pic(s) =>
       /\ blink_array[s].on_length = LENGTH /\ blink_array[s].off_length = LENGTH
       /\ blink_array[s].countdown \in 1 .. LENGTH /\ blink_array[s].status \in {0, 1}
  /\ \A s, t \in Slots : Pic(s) /\ Pic(t) => Same(s, t)
  /\ stage \in {"frames", "rate"} => \A s \in Slots : Pic(s) =>
       blink_array[s].countdown = LENGTH /\ blink_array[s].status = 1

ScreenInv ==
  /\ screen = [l \in Locations |-> screen[l]]
  /\ \A s \in Slots : Pic(s) /\ blink_array[s].location # MARK =>
       screen[blink_array[s].location] = Shows(blink_array[s])

\* The mark, and that it follows the pictures once it is synchronised.
MarkInv ==
  Marked =>
    /\ list # <<>>
    /\ blink_array[list[1]].location = MARK
    /\ blink_array[list[1]].on_char = "I" /\ blink_array[list[1]].off_char = "M"
    /\ stage = "synced" /\ Registered(OFFSET) =>
         /\ \A s \in Slots : Pic(s) => Same(s, list[1])
         /\ blink_array[list[1]].on_length = LENGTH /\ blink_array[list[1]].off_length = LENGTH
         /\ screen[MARK] = "I" => blink_array[list[1]].status = 1

ShowInv == TextsInv /\ PicInv /\ TimeInv /\ ScreenInv /\ MarkInv

\* CharAt is the character of a file.
LEMMA CharAtIs == \A f, r, k : CharAt(f, r, k) = CharOf(files[f], r, k)
BY Zenon DEF CharAt, CharOf, Space

\* add_frames registers what is not blank.
LEMMA VisibleIs == \A ch : Visible(ch) <=> Blank(ch) # Space
BY Zenon DEF Visible, Blank, Space

\* What the constants and the texts give.
LEMMA ShowFacts ==
  /\ COLS \in Nat \ {0} /\ ROWS \in Nat \ {0} /\ COLS * ROWS \in Nat \ {0} /\ OFFSET \in Nat \ {0}
  /\ MARK \in Nat \ {0} /\ MARK \in Locations /\ MARK # OFFSET /\ LENGTH \in Nat \ {0}
<1>1. COLS \in Nat /\ ROWS \in Nat /\ OFFSET \in 1 .. COLS - 1 /\ MARK \in 1 .. COLS * ROWS - 1
      /\ LENGTH \in Nat \ {0} /\ MARK # OFFSET
  BY FishAssumption, PicturesAssumption
<1>2. COLS * ROWS \in Nat BY <1>1
<1>3. COLS \in Nat \ {0} /\ OFFSET \in Nat \ {0} /\ MARK \in Nat \ {0} /\ COLS * ROWS \in Nat \ {0}
  BY <1>1, <1>2
<1>4. ROWS # 0
  <2>1. COLS * 0 = 0 BY <1>1
  <2> QED BY <2>1, <1>3
<1> QED BY <1>1, <1>2, <1>3, <1>4 DEF Locations

\* Different places of the pictures have different locations.
LEMMA Apart ==
  ASSUME NEW r \in Nat, NEW q \in Nat, r < q, NEW k \in Nat, k < COLS, NEW j \in Nat
  PROVE  Loc(r, k) # Loc(q, j)
<1>0. COLS \in Nat /\ OFFSET \in Nat BY ShowFacts
<1>1. PICK d \in Nat : q = r + 1 + d BY SMT
<1>2. q * COLS = r * COLS + COLS + d * COLS BY <1>0, <1>1
<1>3. r * COLS \in Nat /\ d * COLS \in Nat BY <1>0
<1>4. PICK x, y \in Nat : x = r * COLS /\ y = d * COLS BY <1>3
<1>5. x + k + OFFSET # (x + COLS + y) + j + OFFSET BY <1>0, <1>4
<1> QED BY <1>2, <1>4, <1>5 DEF Loc

\* While only the pictures are registered a slot is free.
LEMMA SlotFree ==
  ASSUME ListInv, PicInv, ~Marked
  PROVE  FreeSlots # {}
<1> SUFFICES ASSUME FreeSlots = {} PROVE FALSE OBVIOUS
<1>0. COLS * ROWS \in Nat \ {0} /\ OFFSET \in Nat \ {0} /\ COLS \in Nat BY ShowFacts
<1>n. PICK N \in Nat \ {0} : N = COLS * ROWS BY <1>0
<1>1. \A s \in Slots : Pic(s) BY DEF FreeSlots, PicInv, Pic
<1>2. \A s \in Slots : blink_array[s].location \in 1 .. N - 1
  <2> TAKE s \in Slots
  <2>1. PICK r \in Nat, k \in Nat : blink_array[s].location = Loc(r, k) /\ Loc(r, k) \in Locations
    BY <1>1 DEF PicInv
  <2>2. r * COLS \in Nat BY <1>0
  <2>3. Loc(r, k) # 0 BY <2>2, <1>0 DEF Loc
  <2> QED BY <2>1, <2>3, <1>n DEF Locations
<1> DEFINE g == [s \in Slots |-> blink_array[s].location]
<1>3. g \in [1 .. N -> 1 .. N - 1] BY <1>2, <1>n DEF Slots
<1>4. /\ IsFiniteSet(1 .. N) /\ IsFiniteSet(1 .. N - 1)
      /\ Cardinality(1 .. N) = N /\ Cardinality(1 .. N - 1) = N - 1
  BY FS_Interval
<1>5. Cardinality(1 .. N - 1) < Cardinality(1 .. N) BY <1>4
<1>6. PICK x \in 1 .. N, y \in 1 .. N : x # y /\ g[x] = g[y]
  <2>1. PICK S, T : S = 1 .. N /\ T = 1 .. N - 1 OBVIOUS
  <2> HIDE DEF g
  <2>2. /\ IsFiniteSet(S) /\ IsFiniteSet(T) /\ Cardinality(T) < Cardinality(S) /\ g \in [S -> T]
    BY <1>3, <1>4, <1>5, <2>1
  <2>3. \E x, y \in S : x # y /\ g[x] = g[y] BY <2>2, FS_PigeonHole
  <2> QED BY <2>1, <2>3
<1>7. x \in Slots /\ y \in Slots BY <1>n DEF Slots
<1> QED BY <1>1, <1>6, <1>7 DEF PicInv

\* RTC_ADD puts a free slot at the head of the list.
LEMMA AddIs ==
  ASSUME ListInv, NEW loc \in Locations, NEW on, NEW off, NEW on_length, NEW off_length,
         RTC_ADD(loc, on, off, on_length, off_length), FreeSlots # {},
         screen = [l \in Locations |-> screen[l]]
  PROVE  \E m \in Slots :
           /\ ~Listed(m) /\ list' # <<>> /\ list'[1] = m
           /\ \A s \in Slots : Listed(s)' <=> s = m \/ Listed(s)
           /\ \A s \in Slots : s # m => blink_array'[s] = blink_array[s]
           /\ blink_array'[m].location = loc
           /\ blink_array'[m].on_char = on /\ blink_array'[m].off_char = off
           /\ blink_array'[m].on_length = on_length /\ blink_array'[m].off_length = off_length
           /\ blink_array'[m].countdown = on_length /\ blink_array'[m].status = 1
           /\ screen' = [l \in Locations |-> screen'[l]] /\ screen'[loc] = on
           /\ \A l \in Locations : l # loc => screen'[l] = screen[l]
<1>1. PICK m : m = mp1_malloc OBVIOUS
<1>2. PICK b : b = [location |-> loc, on_char |-> on, off_char |-> off,
                    on_length |-> on_length, off_length |-> off_length,
                    countdown |-> on_length, status |-> 1] OBVIOUS
<1>3. /\ blink_array' = [blink_array EXCEPT ![m] = b]
      /\ list' = <<m>> \o list /\ screen' = [screen EXCEPT ![loc] = on]
  BY <1>1, <1>2 DEF RTC_ADD
<1>4. m \in Slots /\ blink_array[m].location = 0 BY <1>1, MallocIsFree DEF FreeSlots
<1>5. /\ Len(list) \in Nat /\ Len(list') = Len(list) + 1 /\ list'[1] = m
      /\ \A k \in 2 .. Len(list) + 1 : list'[k] = list[k - 1]
  BY <1>3, <1>4 DEF ListInv
<1>6. ~Listed(m) BY <1>4 DEF ListInv
<1>7. ASSUME NEW s \in Slots PROVE Listed(s)' <=> s = m \/ Listed(s)
  <2>1. ASSUME NEW k \in 1 .. Len(list'), list'[k] = s, s # m PROVE Listed(s)
    <3>1. k - 1 \in 1 .. Len(list) /\ list[k - 1] = s BY <1>5, <2>1
    <3> QED BY <3>1 DEF Listed
  <2>2. ASSUME NEW k \in 1 .. Len(list), list[k] = s PROVE Listed(s)'
    <3>1. k + 1 \in 1 .. Len(list') /\ list'[k + 1] = s BY <1>5, <2>2
    <3> QED BY <3>1 DEF Listed
  <2>3. s = m => Listed(s)' BY <1>5 DEF Listed
  <2> QED BY <2>1, <2>2, <2>3 DEF Listed
<1>8. /\ blink_array'[m] = b /\ \A s \in Slots : s # m => blink_array'[s] = blink_array[s]
  BY <1>3, <1>4 DEF ListInv
<1>9. /\ b.location = loc /\ b.on_char = on /\ b.off_char = off /\ b.on_length = on_length
      /\ b.off_length = off_length /\ b.countdown = on_length /\ b.status = 1
  BY <1>2
<1>10. /\ screen' = [l \in Locations |-> screen'[l]] /\ screen'[loc] = on
       /\ \A l \in Locations : l # loc => screen'[l] = screen[l]
  BY <1>3
<1>11. list' # <<>> BY <1>5
<1> QED BY <1>4, <1>5, <1>6, <1>7, <1>8, <1>9, <1>10, <1>11

\* What AddFrames does to a file.
LEMMA FramesRead ==
  ASSUME TextsInv, row \in Nat, col \in Nat, AddFrames, NEW f \in 1 .. 2
  PROVE  /\ NextChar(f) = NextIn(files[f], at[f], c[f])
         /\ ReadOK(files[f], at[f], c[f], eof[f], row, col)
         /\ ReadOK(files[f], at[f], c[f], eof[f], row, col)'
<1>1. /\ at'[f] = IF Reads(f) /\ ~Ended(f) THEN at[f] + 1 ELSE at[f]
      /\ eof'[f] = (eof[f] \/ Ended(f))
      /\ files' = files
  BY DEF AddFrames
<1>2. ReadOK(files[f], at[f], c[f], eof[f], row, col) BY DEF TextsInv
<1>3. NextChar(f) = NextIn(files[f], at[f], c[f]) BY DEF NextChar, NextIn, Reads, Ended
<1>4. PICK t, a, ch, e, b, d : /\ t = files[f] /\ a = at[f] /\ ch = c[f] /\ e = eof[f]
                               /\ b = at'[f] /\ d = eof'[f]
  OBVIOUS
<1>r. PICK r \in Nat, k \in Nat : r = row /\ k = col OBVIOUS
<1>5. b = NextAt(t, a, ch) BY <1>1, <1>4 DEF Reads, Ended, NextAt
<1>6. d = NextEof(t, a, ch, e) BY <1>1, <1>4 DEF Reads, Ended, NextEof
<1>t. ReadOK(t, a, ch, e, r, k) BY <1>2, <1>4, <1>r
<1>s. /\ ReadOK(t, b, NextIn(t, a, ch), d, r, k + 1)
      /\ NextIn(t, a, ch) = "NL" => ReadOK(t, b, RowChar(d), d, r + 1, 0)
  BY <1>5, <1>6, <1>t, ReadStep
<1>7. /\ ReadOK(t, b, NextIn(t, a, ch), d, row, col + 1)
      /\ NextIn(t, a, ch) = "NL" => ReadOK(t, b, RowChar(d), d, row + 1, 0)
  BY <1>s, <1>r
<1>8. \/ /\ NextChar(f) = "NL" /\ c'[f] = RowChar(d) /\ row' = row + 1 /\ col' = 0
      \/ c'[f] = NextChar(f) /\ row' = row /\ col' = col + 1
  <2>1. CASE NextChar(1) = "NL" /\ NextChar(2) = "NL"
    <3>1. c' = [x \in 1 .. 2 |-> NewRow(x)] /\ row' = row + 1 /\ col' = 0 BY <2>1 DEF AddFrames
    <3>2. f = 1 \/ f = 2 OBVIOUS
    <3>3. NextChar(f) = "NL" BY <2>1, <3>2
    <3>4. c'[f] = NewRow(f) BY <3>1
    <3> QED BY <3>1, <3>3, <3>4, <1>4 DEF NewRow, RowChar
  <2>2. CASE ~(NextChar(1) = "NL" /\ NextChar(2) = "NL")
    <3>1. c' = [x \in 1 .. 2 |-> NextChar(x)] /\ row' = row /\ col' = col + 1
      BY <2>2 DEF AddFrames
    <3> QED BY <3>1
  <2> QED BY <2>1, <2>2
<1>9. ReadOK(files[f], at[f], c[f], eof[f], row, col)'
  <2>1. CASE NextChar(f) = "NL" /\ c'[f] = RowChar(d) /\ row' = row + 1 /\ col' = 0
    BY <2>1, <1>1, <1>3, <1>4, <1>7
  <2>2. CASE c'[f] = NextChar(f) /\ row' = row /\ col' = col + 1
    BY <2>2, <1>1, <1>3, <1>4, <1>7
  <2> QED BY <2>1, <2>2, <1>8
<1> QED BY <1>2, <1>3, <1>9

\* AddFrames keeps its place in the texts.
LEMMA FramesTexts ==
  ASSUME TextsInv, row \in Nat, col \in Nat, AddFrames
  PROVE  TextsInv'
<1>1. files' = files BY DEF AddFrames
<1>2. \A f \in 1 .. 2 : ReadOK(files[f], at[f], c[f], eof[f], row, col)' BY FramesRead
<1>3. stage' # "frames" => eof'[1] /\ eof'[2] /\ col' = 0 BY DEF AddFrames
<1> QED BY <1>1, <1>2, <1>3 DEF TextsInv

\* The length of a line.
LEMMA LineLen ==
  ASSUME NEW t \in Seq(STRING), NEW r
  PROVE  Len(Line(t, r)) \in Nat
<1>1. CASE Line(t, r) = <<>>
  <2>1. Len(<<>>) = 0 OBVIOUS
  <2> QED BY <2>1, <1>1
<1>2. CASE Line(t, r) # <<>>
  <2>1. PICK s \in Starts(t) : Line(t, r) = LineAt(t, s) BY <1>2, LineStarts
  <2>2. Len(t) \in Nat /\ s \in 1 .. Len(t) + 1 BY <2>1, LenProperties DEF Starts
  <2>3. PICK e : EndOf(t, s, e) BY <2>2, EndExists
  <2>4. e \in s .. Len(t) + 1 BY <2>2, <2>3 DEF EndOf
  <2>5. Len(LineAt(t, s)) = e - s BY <2>2, <2>3, LineIs
  <2> QED BY <2>1, <2>2, <2>4, <2>5
<1> QED BY <1>1, <1>2

\* A character that is not blank lies on a line, and lines fit on the screen.
LEMMA VisFits ==
  ASSUME TextsInv, NEW r \in Nat, NEW k \in Nat, Vis(r, k)
  PROVE  k < COLS
<1>0. COLS \in Nat BY ShowFacts
<1>1. PICK f \in 1 .. 2 : CharOf(files[f], r, k) # Space BY DEF Vis
<1>2. PICK t : t = files[f] OBVIOUS
<1>3. /\ t \in Seq(STRING) /\ \A s \in Starts(t) : Len(LineAt(t, s)) <= COLS
  BY <1>2, PicturesAssumption DEF TextsInv, ReadOK
<1>4. k < Len(Line(t, r)) BY <1>1, <1>2 DEF CharOf
<1>5. Line(t, r) # <<>>
  <2> SUFFICES ASSUME Line(t, r) = <<>> PROVE FALSE OBVIOUS
  <2>1. Len(Line(t, r)) = 0 OBVIOUS
  <2> QED BY <2>1, <1>4
<1>6. PICK s \in Starts(t) : Line(t, r) = LineAt(t, s) BY <1>3, <1>5, LineStarts
<1>7. Len(LineAt(t, s)) <= COLS /\ k < Len(LineAt(t, s)) BY <1>3, <1>4, <1>6
<1> QED BY <1>0, <1>3, <1>6, <1>7, LineLen

\* Nothing of the pictures changes, on the screen outside the mark and in the list.
LEMMA KeepShow ==
  ASSUME PicInv, TimeInv, ScreenInv, UNCHANGED <<files, row, col>>,
         stage' \in {"frames", "rate"} => stage \in {"frames", "rate"},
         \A s \in Slots : ~Listed(s)' => blink_array'[s].location = 0,
         \A s \in Slots : Pic(s)' <=> Pic(s),
         \A s \in Slots : Pic(s) => blink_array'[s] = blink_array[s],
         screen' = [l \in Locations |-> screen'[l]],
         \A l \in Locations : l # MARK => screen'[l] = screen[l]
  PROVE  PicInv' /\ TimeInv' /\ ScreenInv'
<1>1. \A r, k \in Nat : /\ Done(r, k)' = Done(r, k) /\ Loc(r, k)' = Loc(r, k)
                        /\ Vis(r, k)' = Vis(r, k)
  BY DEF Done, Loc, Vis, CharOf
<1>2. \A f, r, k : CharOf(files[f], r, k)' = CharOf(files[f], r, k) BY DEF CharOf
<1>3. ASSUME NEW s \in Slots, Pic(s)'
      PROVE  \E r, k \in Nat :
       /\ Done(r, k)' /\ k < COLS /\ blink_array'[s].location = Loc(r, k) /\ Loc(r, k) \in Locations
       /\ blink_array'[s].off_char = CharOf(files[2], r, k)'
  <2>1. Pic(s) /\ blink_array'[s] = blink_array[s] BY <1>3
  <2>2. PICK r \in Nat, k \in Nat :
       /\ Done(r, k) /\ k < COLS /\ blink_array[s].location = Loc(r, k) /\ Loc(r, k) \in Locations
       /\ blink_array[s].off_char = CharOf(files[2], r, k)
    BY <2>1 DEF PicInv
  <2> QED BY <2>1, <2>2, <1>1, <1>2
<1>4. ASSUME NEW r \in Nat, NEW k \in Nat, Done(r, k)', Vis(r, k)', Loc(r, k) \in Locations
      PROVE  \E s \in Slots :
               /\ Pic(s)' /\ blink_array'[s].location = Loc(r, k)
               /\ blink_array'[s].on_char = CharOf(files[1], r, k)'
               /\ blink_array'[s].off_char = CharOf(files[2], r, k)'
  <2>1. PICK s \in Slots :
               /\ Pic(s) /\ blink_array[s].location = Loc(r, k)
               /\ blink_array[s].on_char = CharOf(files[1], r, k)
               /\ blink_array[s].off_char = CharOf(files[2], r, k)
    BY <1>1, <1>4 DEF PicInv
  <2> QED BY <2>1, <1>2
<1>5. \A s, t \in Slots :
       Pic(s)' /\ Pic(t)' /\ blink_array'[s].location = blink_array'[t].location => s = t
  BY DEF PicInv
<1>6. PicInv' BY <1>1, <1>3, <1>4, <1>5 DEF PicInv
<1>7. TimeInv' BY DEF TimeInv, Same
<1>8. ASSUME NEW s \in Slots, Pic(s)', blink_array'[s].location # MARK
      PROVE  screen'[blink_array'[s].location] = Shows(blink_array[s])'
  <2>1. Pic(s) /\ blink_array'[s] = blink_array[s] BY <1>8
  <2>2. blink_array[s].location \in Locations BY <2>1 DEF PicInv
  <2> QED BY <2>1, <2>2, <1>8 DEF ScreenInv, Shows
<1>9. ScreenInv' BY <1>8 DEF ScreenInv
<1> QED BY <1>6, <1>7, <1>9

\* add_frames goes on, and registers nothing because there is nothing to register.
LEMMA GrowShow ==
  ASSUME PicInv, TimeInv, ScreenInv, UNCHANGED <<files, blinker>>,
         stage = "frames", stage' \in {"frames", "rate"},
         \A r, k \in Nat : Done(r, k) => Done(r, k)',
         \A r, k \in Nat : Done(r, k)' /\ Vis(r, k) /\ Loc(r, k) \in Locations => Done(r, k)
  PROVE  PicInv' /\ TimeInv' /\ ScreenInv'
<1>1. \A r, k \in Nat : Loc(r, k)' = Loc(r, k) /\ Vis(r, k)' = Vis(r, k) BY DEF Loc, Vis, CharOf
<1>2. \A f, r, k : CharOf(files[f], r, k)' = CharOf(files[f], r, k) BY DEF CharOf
<1>3. UNCHANGED <<blink_array, list, screen>> BY DEF blinker
<1>4. \A s : (Pic(s)' <=> Pic(s)) /\ (Listed(s)' <=> Listed(s))
  BY <1>3 DEF Pic, Listed, Marked
<1>5. ASSUME NEW s \in Slots, Pic(s)'
      PROVE  \E r, k \in Nat :
       /\ Done(r, k)' /\ k < COLS /\ blink_array'[s].location = Loc(r, k) /\ Loc(r, k) \in Locations
       /\ blink_array'[s].off_char = CharOf(files[2], r, k)'
  <2>1. Pic(s) /\ blink_array'[s] = blink_array[s] BY <1>3, <1>4, <1>5
  <2>2. PICK r \in Nat, k \in Nat :
       /\ Done(r, k) /\ k < COLS /\ blink_array[s].location = Loc(r, k) /\ Loc(r, k) \in Locations
       /\ blink_array[s].off_char = CharOf(files[2], r, k)
    BY <2>1 DEF PicInv
  <2> QED BY <2>1, <2>2, <1>2
<1>6. ASSUME NEW r \in Nat, NEW k \in Nat, Done(r, k)', Vis(r, k)', Loc(r, k) \in Locations
      PROVE  \E s \in Slots :
               /\ Pic(s)' /\ blink_array'[s].location = Loc(r, k)
               /\ blink_array'[s].on_char = CharOf(files[1], r, k)'
               /\ blink_array'[s].off_char = CharOf(files[2], r, k)'
  <2>1. PICK s \in Slots :
               /\ Pic(s) /\ blink_array[s].location = Loc(r, k)
               /\ blink_array[s].on_char = CharOf(files[1], r, k)
               /\ blink_array[s].off_char = CharOf(files[2], r, k)
    BY <1>1, <1>6 DEF PicInv
  <2> QED BY <2>1, <1>2, <1>3, <1>4
<1>7. /\ \A s, t \in Slots :
           Pic(s)' /\ Pic(t)' /\ blink_array'[s].location = blink_array'[t].location => s = t
      /\ \A s \in Slots : ~Listed(s)' => blink_array'[s].location = 0
  BY <1>3, <1>4 DEF PicInv
<1>8. PicInv' BY <1>1, <1>5, <1>6, <1>7 DEF PicInv
<1>9. TimeInv' BY <1>3, <1>4 DEF TimeInv, Same
<1>10. ScreenInv' BY <1>3, <1>4 DEF ScreenInv, Shows
<1> QED BY <1>8, <1>9, <1>10

\* add_frames registers a place with the characters of both pictures.
LEMMA AddShow ==
  ASSUME ListInv, TextsInv, PicInv, TimeInv, ScreenInv, row \in Nat, col \in Nat,
         stage = "frames", stage' = "frames", files' = files, row' = row, col' = col + 1,
         Vis(row, col), Loc(row, col) \in Locations,
         RTC_ADD(Loc(row, col), CharOf(files[1], row, col), CharOf(files[2], row, col),
                 LENGTH, LENGTH)
  PROVE  PicInv' /\ TimeInv' /\ ScreenInv'
<1>0. LENGTH \in Nat \ {0} /\ COLS \in Nat /\ OFFSET \in Nat BY ShowFacts
<1>1. PICK loc, on, off : /\ loc = Loc(row, col)
                          /\ on = CharOf(files[1], row, col) /\ off = CharOf(files[2], row, col)
  OBVIOUS
<1>2. ~Marked /\ ~Marked' BY DEF Marked
<1>3. loc \in Locations /\ RTC_ADD(loc, on, off, LENGTH, LENGTH) /\ FreeSlots # {}
      /\ screen = [l \in Locations |-> screen[l]]
  BY <1>1, <1>2, SlotFree DEF ScreenInv
<1>4. PICK m \in Slots :
           /\ ~Listed(m) /\ list' # <<>> /\ list'[1] = m
           /\ \A s \in Slots : Listed(s)' <=> s = m \/ Listed(s)
           /\ \A s \in Slots : s # m => blink_array'[s] = blink_array[s]
           /\ blink_array'[m].location = loc
           /\ blink_array'[m].on_char = on /\ blink_array'[m].off_char = off
           /\ blink_array'[m].on_length = LENGTH /\ blink_array'[m].off_length = LENGTH
           /\ blink_array'[m].countdown = LENGTH /\ blink_array'[m].status = 1
           /\ screen' = [l \in Locations |-> screen'[l]] /\ screen'[loc] = on
           /\ \A l \in Locations : l # loc => screen'[l] = screen[l]
  BY <1>3, AddIs
<1>5. \A s \in Slots : (Pic(s) <=> Listed(s)) /\ (Pic(s)' <=> s = m \/ Pic(s))
  BY <1>2, <1>4 DEF Pic
<1>6. \A r, k \in Nat : /\ Loc(r, k)' = Loc(r, k) /\ Vis(r, k)' = Vis(r, k)
                        /\ Done(r, k)' <=> Done(r, k) \/ (r = row /\ k = col)
  BY DEF Loc, Vis, CharOf, Done
<1>7. \A f, r, k : CharOf(files[f], r, k)' = CharOf(files[f], r, k) BY DEF CharOf
<1>8. col < COLS BY VisFits
<1>9. ASSUME NEW r \in Nat, NEW k \in Nat, Done(r, k), k < COLS PROVE Loc(r, k) # loc
  <2>1. CASE r < row BY <2>1, <1>1, <1>9, Apart
  <2>2. CASE r = row /\ k < col
    <3>1. row * COLS \in Int BY <1>0
    <3> QED BY <3>1, <2>2, <1>0, <1>1 DEF Loc
  <2> QED BY <2>1, <2>2, <1>9 DEF Done
<1>10. ASSUME NEW s \in Slots, Pic(s), s # m
       PROVE  /\ blink_array'[s] = blink_array[s] /\ blink_array[s].location # loc
              /\ blink_array[s].location \in Locations
  <2>1. PICK r \in Nat, k \in Nat :
       /\ Done(r, k) /\ k < COLS /\ blink_array[s].location = Loc(r, k) /\ Loc(r, k) \in Locations
    BY <1>10 DEF PicInv
  <2> QED BY <2>1, <1>4, <1>9, <1>10
<1>11. ASSUME NEW s \in Slots, Pic(s)'
      PROVE  \E r, k \in Nat :
       /\ Done(r, k)' /\ k < COLS /\ blink_array'[s].location = Loc(r, k) /\ Loc(r, k) \in Locations
       /\ blink_array'[s].off_char = CharOf(files[2], r, k)'
  <2>1. CASE s = m
    <3>1. PICK r \in Nat, k \in Nat : r = row /\ k = col OBVIOUS
    <3>2. Done(r, k)' /\ off = CharOf(files[2], r, k)' BY <3>1, <1>1, <1>6, <1>7
    <3>3. k < COLS /\ loc = Loc(r, k) BY <3>1, <1>1, <1>8
    <3> QED BY <2>1, <3>2, <3>3, <1>3, <1>4
  <2>2. CASE s # m
    <3>1. Pic(s) /\ blink_array'[s] = blink_array[s] BY <2>2, <1>4, <1>5, <1>11
    <3>2. PICK r \in Nat, k \in Nat :
       /\ Done(r, k) /\ k < COLS /\ blink_array[s].location = Loc(r, k) /\ Loc(r, k) \in Locations
       /\ blink_array[s].off_char = CharOf(files[2], r, k)
      BY <3>1 DEF PicInv
    <3> QED BY <3>1, <3>2, <1>6, <1>7
  <2> QED BY <2>1, <2>2
<1>12. ASSUME NEW r \in Nat, NEW k \in Nat, Done(r, k)', Vis(r, k)', Loc(r, k) \in Locations
      PROVE  \E s \in Slots :
               /\ Pic(s)' /\ blink_array'[s].location = Loc(r, k)
               /\ blink_array'[s].on_char = CharOf(files[1], r, k)'
               /\ blink_array'[s].off_char = CharOf(files[2], r, k)'
  <2>1. CASE r = row /\ k = col
    <3>1. /\ Pic(m)' /\ on = CharOf(files[1], r, k)' /\ off = CharOf(files[2], r, k)'
          /\ loc = Loc(r, k)
      BY <2>1, <1>1, <1>5, <1>7
    <3> QED BY <3>1, <1>4
  <2>2. CASE Done(r, k)
    <3>1. PICK s \in Slots :
               /\ Pic(s) /\ blink_array[s].location = Loc(r, k)
               /\ blink_array[s].on_char = CharOf(files[1], r, k)
               /\ blink_array[s].off_char = CharOf(files[2], r, k)
      BY <2>2, <1>6, <1>12 DEF PicInv
    <3>2. s # m BY <3>1, <1>4, <1>5
    <3> QED BY <3>1, <3>2, <1>4, <1>5, <1>7
  <2> QED BY <2>1, <2>2, <1>6, <1>12
<1>13. ASSUME NEW s \in Slots, NEW t \in Slots, Pic(s)', Pic(t)',
              blink_array'[s].location = blink_array'[t].location
       PROVE  s = t
  <2>1. (s = m \/ Pic(s)) /\ (t = m \/ Pic(t)) BY <1>5, <1>13
  <2>2. CASE s # m /\ t # m BY <2>1, <2>2, <1>10, <1>13 DEF PicInv
  <2>3. CASE s = m /\ t # m BY <2>1, <2>3, <1>4, <1>10, <1>13
  <2>4. CASE s # m /\ t = m BY <2>1, <2>4, <1>4, <1>10, <1>13
  <2> QED BY <2>2, <2>3, <2>4
<1>14. \A s \in Slots : ~Listed(s)' => blink_array'[s].location = 0 BY <1>4 DEF PicInv
<1>15. PicInv' BY <1>6, <1>11, <1>12, <1>13, <1>14 DEF PicInv
<1>16. \A s \in Slots : Pic(s)' =>
       /\ blink_array'[s].on_length = LENGTH /\ blink_array'[s].off_length = LENGTH
       /\ blink_array'[s].countdown = LENGTH /\ blink_array'[s].status = 1
  BY <1>4, <1>5 DEF TimeInv
<1>17. TimeInv' BY <1>0, <1>16 DEF TimeInv, Same
<1>18. ASSUME NEW s \in Slots, Pic(s)', blink_array'[s].location # MARK
      PROVE  screen'[blink_array'[s].location] = Shows(blink_array[s])'
  <2>1. CASE s = m BY <2>1, <1>4 DEF Shows
  <2>2. CASE s # m
    <3>1. Pic(s) BY <2>2, <1>5, <1>18
    <3>2. blink_array'[s] = blink_array[s] /\ blink_array[s].location # loc
          /\ blink_array[s].location \in Locations
      BY <2>2, <3>1, <1>10
    <3>3. screen'[blink_array[s].location] = screen[blink_array[s].location] BY <3>2, <1>4
    <3> QED BY <3>1, <3>2, <3>3, <1>18 DEF ScreenInv, Shows
  <2> QED BY <2>1, <2>2
<1>19. ScreenInv' BY <1>4, <1>18 DEF ScreenInv
<1> QED BY <1>15, <1>17, <1>19

\* AddFrames keeps the pictures sound.
LEMMA FramesShow ==
  ASSUME ListInv, ShowInv, row \in Nat, col \in Nat, AddFrames
  PROVE  ShowInv'
<1>0. TextsInv /\ PicInv /\ TimeInv /\ ScreenInv /\ stage = "frames" /\ files' = files
  BY DEF ShowInv, AddFrames
<1>1. TextsInv' BY <1>0, FramesTexts
<1>2. PICK u, v : u = NextChar(1) /\ v = NextChar(2) OBVIOUS
<1>3. ASSUME NEW f \in 1 .. 2
      PROVE  /\ CharOf(files[f], row, col) = Blank(NextChar(f))
             /\ NextChar(f) = "NL" =>
                  \A j \in Nat : j >= col => CharOf(files[f], row, j) = Space
  <2>1. /\ NextChar(f) = NextIn(files[f], at[f], c[f])
        /\ ReadOK(files[f], at[f], c[f], eof[f], row, col)
    BY <1>0, FramesRead
  <2>2. PICK t, a, ch, e, r : /\ t = files[f] /\ a = at[f] /\ ch = c[f] /\ e = eof[f] /\ r = row
    OBVIOUS
  <2>3. PICK k \in Nat : k = col OBVIOUS
  <2>4. ReadOK(t, a, ch, e, r, k) BY <2>1, <2>2, <2>3
  <2>5. /\ CharOf(t, r, k) = Blank(NextIn(t, a, ch))
        /\ NextIn(t, a, ch) = "NL" => \A j \in Nat : j >= k => CharOf(t, r, j) = Space
    BY <2>4, NextIsChar
  <2> QED BY <2>1, <2>2, <2>3, <2>5
<1>4. /\ CharOf(files[1], row, col) = Blank(u) /\ CharOf(files[2], row, col) = Blank(v)
      /\ u = "NL" /\ v = "NL" => \A j \in Nat : j >= col => ~Vis(row, j)
  BY <1>2, <1>3 DEF Vis
<1>5. (Visible(u) \/ Visible(v)) <=> Vis(row, col) BY <1>4, VisibleIs DEF Vis
<1>6. PicInv' /\ TimeInv' /\ ScreenInv' /\ stage' \in {"frames", "rate"}
  <2>1. CASE u = "NL" /\ v = "NL"
    <3>1. row' = row + 1 /\ col' = 0 /\ UNCHANGED blinker /\ stage' \in {"frames", "rate"}
      BY <2>1, <1>2 DEF AddFrames
    <3>2. \A r, k \in Nat : Done(r, k)' <=> r <= row BY <3>1 DEF Done
    <3>3. \A r, k \in Nat : Done(r, k) => Done(r, k)' BY <3>2 DEF Done
    <3>4. \A r, k \in Nat : Done(r, k)' /\ Vis(r, k) => Done(r, k)
      BY <3>2, <2>1, <1>4 DEF Done
    <3> QED BY <3>1, <3>3, <3>4, <1>0, GrowShow
  <2>2. CASE ~(u = "NL" /\ v = "NL") /\ (~Vis(row, col) \/ Loc(row, col) \notin Locations)
    <3>1. row' = row /\ col' = col + 1 /\ UNCHANGED blinker /\ stage' = "frames"
      <4>1. row' = row /\ col' = col + 1 /\ stage' = "frames"
        BY <2>2, <1>0, <1>2 DEF AddFrames
      <4>2. CASE ~Vis(row, col) BY <4>2, <2>2, <1>2, <1>5 DEF AddFrames
      <4>3. CASE Vis(row, col)
        <5>1. RTC_ADD(Loc(row, col), Blank(u), Blank(v), LENGTH, LENGTH)
          BY <4>3, <2>2, <1>2, <1>5 DEF AddFrames, Loc
        <5>2. Loc(row, col) \notin Locations BY <4>3, <2>2
        <5> QED BY <4>1, <5>1, <5>2 DEF RTC_ADD
      <4> QED BY <4>1, <4>2, <4>3
    <3>2. \A r, k \in Nat : Done(r, k)' <=> Done(r, k) \/ (r = row /\ k = col)
      BY <3>1 DEF Done
    <3>3. \A r, k \in Nat : Done(r, k) => Done(r, k)' BY <3>2
    <3>4. \A r, k \in Nat : Done(r, k)' /\ Vis(r, k) /\ Loc(r, k) \in Locations => Done(r, k)
      BY <3>2, <2>2
    <3> QED BY <3>1, <3>3, <3>4, <1>0, GrowShow
  <2>3. CASE ~(u = "NL" /\ v = "NL") /\ Vis(row, col) /\ Loc(row, col) \in Locations
    <3>1. row' = row /\ col' = col + 1 /\ stage' = "frames"
      BY <2>3, <1>0, <1>2 DEF AddFrames
    <3>2. RTC_ADD(Loc(row, col), Blank(u), Blank(v), LENGTH, LENGTH)
      BY <2>3, <1>2, <1>5 DEF AddFrames, Loc
    <3>3. RTC_ADD(Loc(row, col), CharOf(files[1], row, col), CharOf(files[2], row, col),
                  LENGTH, LENGTH)
      BY <3>2, <1>4
    <3> QED BY <2>3, <3>1, <3>3, <1>0, AddShow
  <2> QED BY <2>1, <2>2, <2>3
<1>7. MarkInv' BY <1>6 DEF MarkInv, Marked
<1> QED BY <1>1, <1>6, <1>7 DEF ShowInv

\* The largest number of a set.
LEMMA MaxIs ==
  ASSUME NEW N \in Nat, NEW T \in SUBSET (1 .. N), T # {}
  PROVE  Max(T) \in T
<1>1. PICK D : D = {N - y : y \in T} OBVIOUS
<1>2. D \in SUBSET Nat /\ D # {}
  <2>1. \A y \in T : N - y \in Nat OBVIOUS
  <2>2. \A d \in D : d \in Nat BY <2>1, <1>1
  <2>3. PICK y \in T : TRUE OBVIOUS
  <2>4. N - y \in D BY <1>1
  <2> QED BY <2>2, <2>4
<1>3. PICK d \in D : \A z \in D : d <= z BY <1>2, SmallestNat
<1>4. PICK x \in T : d = N - x BY <1>1
<1>5. \A y \in T : x >= y
  <2> TAKE y \in T
  <2>1. N - y \in D BY <1>1
  <2>2. N - x <= N - y BY <2>1, <1>3, <1>4
  <2> QED BY <2>2
<1>6. \E x1 \in T : \A y \in T : x1 >= y BY <1>5
<1> QED BY <1>6, Zenon DEF Max

\* The second picture does not show the letter of the mark at its place.
LEMMA NoLetter ==
  ASSUME TextsInv, PicInv, NEW s \in Slots, Pic(s), blink_array[s].location = MARK
  PROVE  blink_array[s].off_char # "I"
<1>0. COLS \in Nat /\ ROWS \in Nat /\ OFFSET \in Nat /\ COLS * ROWS \in Nat BY ShowFacts
<1>1. PICK r \in Nat, k \in Nat :
       /\ MARK = Loc(r, k) /\ Loc(r, k) \in Locations
       /\ blink_array[s].off_char = CharOf(files[2], r, k)
  BY DEF PicInv
<1>2. PICK t : t = files[2] OBVIOUS
<1>3. t \in Seq(STRING) /\ Len(Line(t, r)) \in Nat
  <2>1. t \in Seq(STRING) BY <1>2 DEF TextsInv, ReadOK
  <2> QED BY <2>1, LineLen
<1>4. r \in 0 .. ROWS - 1
  <2> SUFFICES ASSUME r >= ROWS PROVE FALSE BY <1>0
  <2>1. PICK d \in Nat : r = ROWS + d BY <1>0
  <2>2. r * COLS = COLS * ROWS + d * COLS BY <2>1, <1>0
  <2>3. r * COLS \in Nat /\ d * COLS \in Nat BY <2>1, <1>0
  <2>4. PICK x \in Nat, y \in Nat, z \in Nat : x = r * COLS /\ y = COLS * ROWS /\ z = d * COLS
    BY <2>3, <1>0
  <2>5. x + k + OFFSET < y BY <2>4, <1>0, <1>1 DEF Loc, Locations
  <2>6. x = y + z BY <2>2, <2>4
  <2> QED BY <2>5, <2>6, <1>0
<1>5. CASE k < Len(Line(t, r))
  <2>1. PICK j : j = k + 1 OBVIOUS
  <2>2. j \in 1 .. Len(Line(t, r)) BY <2>1, <1>3, <1>5
  <2>3. r * COLS + (j - 1) + OFFSET = MARK
    <3>1. j - 1 = k BY <2>1
    <3> QED BY <3>1, <1>1 DEF Loc
  <2>4. Line(t, r)[j] # "I" BY <2>2, <2>3, <1>2, <1>4, PicturesAssumption DEF TextsInv
  <2> QED BY <2>1, <2>4, <1>1, <1>2, <1>5 DEF CharOf
<1>6. CASE ~(k < Len(Line(t, r)))
  <2>1. CharOf(t, r, k) = Space BY <1>6 DEF CharOf
  <2>2. Space # "I" BY Zenon DEF Space
  <2> QED BY <2>1, <2>2, <1>1, <1>2
<1> QED BY <1>5, <1>6

\* A step that leaves add_frames alone.
LEMMA TextsKept ==
  ASSUME TextsInv, UNCHANGED frames, stage' # "frames" => stage # "frames"
  PROVE  TextsInv'
<1>1. UNCHANGED <<files, at, c, eof, row, col>> BY DEF frames
<1> QED BY <1>1 DEF TextsInv

\* What a run of the tasklet does to a character.
LEMMA TickedShows ==
  ASSUME NEW b, IsBlink(b)
  PROVE  /\ Ticked(b).on_char = b.on_char /\ Ticked(b).off_char = b.off_char
         /\ Expires(b) => /\ Ticked(b).status = 1 - b.status
                          /\ Ticked(b).countdown =
                               IF b.status = 1 THEN b.off_length ELSE b.on_length
         /\ ~Expires(b) => Ticked(b).status = b.status /\ Ticked(b).countdown = b.countdown - 1
BY DEF IsBlink, Ticked

\* The pictures change as a whole in a run of the tasklet, and the mark with them.
LEMMA TaskletShow ==
  ASSUME ListInv, ShowInv, mp1_rtc_tasklet, UNCHANGED <<frames, stage>>, stage \in Loops
  PROVE  ShowInv'
<1>0. /\ TextsInv /\ PicInv /\ TimeInv /\ ScreenInv /\ MarkInv
      /\ LENGTH \in Nat \ {0} /\ MARK \in Locations
      /\ stage \notin {"frames", "rate"} /\ UNCHANGED <<files, row, col>>
  BY ShowFacts DEF ShowInv, Loops, frames
<1>1. /\ list' = list /\ blink_array' = [s \in Slots |-> blink_array'[s]]
      /\ \A s \in Slots : blink_array'[s] = IF Listed(s) THEN Ticked(blink_array[s])
                                                         ELSE blink_array[s]
  BY DEF mp1_rtc_tasklet, Listed
<1>2. /\ \A s : Listed(s)' = Listed(s) /\ Pic(s)' = Pic(s)
      /\ Marked' = Marked
  BY <1>1 DEF Listed, Pic, Marked
<1>3. ASSUME NEW s \in Slots, Listed(s)
      PROVE  /\ blink_array'[s].location = blink_array[s].location
             /\ blink_array'[s].on_length = blink_array[s].on_length
             /\ blink_array'[s].off_length = blink_array[s].off_length
             /\ blink_array'[s].on_char = blink_array[s].on_char
             /\ blink_array'[s].off_char = blink_array[s].off_char
             /\ Expires(blink_array[s]) =>
                  /\ blink_array'[s].status = 1 - blink_array[s].status
                  /\ blink_array'[s].countdown = IF blink_array[s].status = 1
                       THEN blink_array[s].off_length ELSE blink_array[s].on_length
             /\ ~Expires(blink_array[s]) =>
                  /\ blink_array'[s].status = blink_array[s].status
                  /\ blink_array'[s].countdown = blink_array[s].countdown - 1
  <2>1. PICK b : b = blink_array[s] OBVIOUS
  <2>2. IsBlink(b) /\ blink_array'[s] = Ticked(b) BY <2>1, <1>1, <1>3 DEF ListInv
  <2> QED BY <2>1, <2>2, TickedIs, TickedShows
<1>4. ASSUME NEW s \in Slots PROVE blink_array'[s].location = blink_array[s].location
  BY <1>1, <1>3
<1>5. TextsInv' BY <1>0, TextsKept
<1>6. PicInv'
  <2>1. \A r, k \in Nat : /\ Done(r, k)' = Done(r, k) /\ Loc(r, k)' = Loc(r, k)
                          /\ Vis(r, k)' = Vis(r, k)
    BY <1>0 DEF Done, Loc, Vis, CharOf
  <2>2. \A f, r, k : CharOf(files[f], r, k)' = CharOf(files[f], r, k) BY <1>0 DEF CharOf
  <2>3. ASSUME NEW s \in Slots, Pic(s)'
        PROVE  \E r, k \in Nat :
       /\ Done(r, k)' /\ k < COLS /\ blink_array'[s].location = Loc(r, k) /\ Loc(r, k) \in Locations
       /\ blink_array'[s].off_char = CharOf(files[2], r, k)'
    <3>1. Pic(s) /\ Listed(s) BY <1>2, <2>3 DEF Pic
    <3>2. PICK r \in Nat, k \in Nat :
       /\ Done(r, k) /\ k < COLS /\ blink_array[s].location = Loc(r, k) /\ Loc(r, k) \in Locations
       /\ blink_array[s].off_char = CharOf(files[2], r, k)
      BY <3>1, <1>0 DEF PicInv
    <3> QED BY <3>1, <3>2, <2>1, <2>2, <1>3
  <2>4. ASSUME NEW r \in Nat, NEW k \in Nat, Done(r, k)', Vis(r, k)', Loc(r, k) \in Locations
        PROVE  \E s \in Slots :
                 /\ Pic(s)' /\ blink_array'[s].location = Loc(r, k)
                 /\ blink_array'[s].on_char = CharOf(files[1], r, k)'
                 /\ blink_array'[s].off_char = CharOf(files[2], r, k)'
    <3>1. PICK s \in Slots :
                 /\ Pic(s) /\ blink_array[s].location = Loc(r, k)
                 /\ blink_array[s].on_char = CharOf(files[1], r, k)
                 /\ blink_array[s].off_char = CharOf(files[2], r, k)
      BY <2>1, <2>4, <1>0 DEF PicInv
    <3>2. Pic(s)' /\ Listed(s) BY <3>1, <1>2 DEF Pic
    <3> QED BY <3>1, <3>2, <2>2, <1>3
  <2>5. /\ \A s, t \in Slots :
             Pic(s)' /\ Pic(t)' /\ blink_array'[s].location = blink_array'[t].location => s = t
        /\ \A s \in Slots : ~Listed(s)' => blink_array'[s].location = 0
    BY <1>0, <1>2, <1>4 DEF PicInv
  <2> QED BY <2>1, <2>3, <2>4, <2>5 DEF PicInv
<1>7. \A s \in Slots : Pic(s) =>
        /\ Listed(s) /\ blink_array[s].on_length = LENGTH /\ blink_array[s].off_length = LENGTH
        /\ blink_array[s].countdown \in 1 .. LENGTH /\ blink_array[s].status \in {0, 1}
        /\ Expires(blink_array[s]) <=> blink_array[s].countdown = 1
  BY <1>0 DEF TimeInv, Pic, Expires
<1>8. TimeInv'
  <2>1. ASSUME NEW s \in Slots, Pic(s)
        PROVE  /\ blink_array'[s].on_length = LENGTH /\ blink_array'[s].off_length = LENGTH
               /\ blink_array'[s].countdown \in 1 .. LENGTH /\ blink_array'[s].status \in {0, 1}
    <3>1. CASE Expires(blink_array[s]) BY <3>1, <2>1, <1>0, <1>3, <1>7
    <3>2. CASE ~Expires(blink_array[s]) BY <3>2, <2>1, <1>0, <1>3, <1>7
    <3> QED BY <3>1, <3>2
  <2>2. ASSUME NEW s \in Slots, NEW t \in Slots, Pic(s), Pic(t) PROVE Same(s, t)'
    <3>1. Same(s, t) BY <2>2, <1>0 DEF TimeInv
    <3>2. Expires(blink_array[s]) <=> Expires(blink_array[t]) BY <3>1 DEF Same, Expires
    <3>3. CASE Expires(blink_array[s]) BY <3>1, <3>2, <3>3, <2>2, <1>3, <1>7 DEF Same
    <3>4. CASE ~Expires(blink_array[s]) BY <3>1, <3>2, <3>4, <2>2, <1>3, <1>7 DEF Same
    <3> QED BY <3>3, <3>4
  <2> QED BY <2>1, <2>2, <1>0, <1>2 DEF TimeInv
<1>w. ASSUME NEW l \in Locations
      PROVE  /\ Writes(l) = {} => screen'[l] = screen[l]
             /\ Writes(l) # {} => \E s \in Slots :
                  /\ Listed(s) /\ blink_array[s].location = l /\ Expires(blink_array[s])
                  /\ screen'[l] = Shows(blink_array[s])'
  <2>1. screen'[l] = IF Writes(l) = {} THEN screen[l] ELSE Shows(blink_array'[list[Max(Writes(l))]])
    BY DEF mp1_rtc_tasklet
  <2>2. ASSUME Writes(l) # {}
        PROVE  \E s \in Slots :
                  /\ Listed(s) /\ blink_array[s].location = l /\ Expires(blink_array[s])
                  /\ screen'[l] = Shows(blink_array[s])'
    <3>1. PICK T, N : T = Writes(l) /\ N = Len(list) OBVIOUS
    <3>2. N \in Nat /\ T \in SUBSET (1 .. N) BY <3>1 DEF ListInv, Writes
    <3>3. Max(T) \in T BY <3>1, <3>2, <2>2, MaxIs
    <3>4. PICK k : k = Max(T) OBVIOUS
    <3>5. /\ k \in 1 .. Len(list) /\ blink_array[list[k]].location = l
          /\ Expires(blink_array[list[k]])
      BY <3>1, <3>3, <3>4 DEF Writes
    <3>6. PICK s \in Slots : s = list[k] BY <3>5 DEF ListInv
    <3>7. screen'[l] = Shows(blink_array'[s]) BY <3>1, <3>4, <3>6, <2>1, <2>2
    <3> QED BY <3>5, <3>6, <3>7 DEF Listed, Shows
  <2> QED BY <2>1, <2>2
<1>9. ScreenInv'
  <2>1. screen' = [l \in Locations |-> screen'[l]] BY DEF mp1_rtc_tasklet
  <2>2. ASSUME NEW s \in Slots, Pic(s), blink_array[s].location # MARK
        PROVE  screen'[blink_array[s].location] = Shows(blink_array[s])'
    <3>1. PICK l \in Locations : l = blink_array[s].location BY <2>2, <1>0 DEF PicInv
    <3>2. ASSUME NEW t \in Slots, Listed(t), blink_array[t].location = l PROVE t = s
      <4>1. Pic(t) BY <3>1, <3>2, <2>2, <1>0 DEF Pic, MarkInv
      <4> QED BY <4>1, <3>1, <3>2, <2>2, <1>0 DEF PicInv
    <3>3. CASE Writes(l) # {}
      <4>1. PICK t \in Slots : /\ Listed(t) /\ blink_array[t].location = l
                               /\ screen'[l] = Shows(blink_array[t])'
        BY <3>3, <1>w
      <4>2. t = s BY <4>1, <3>2
      <4> QED BY <4>1, <4>2, <3>1
    <3>4. CASE Writes(l) = {}
      <4>1. PICK k \in 1 .. Len(list) : list[k] = s BY <2>2 DEF Pic, Listed
      <4>2. ~Expires(blink_array[s]) BY <4>1, <3>1, <3>4 DEF Writes
      <4>3. screen'[l] = screen[l] BY <3>4, <1>w
      <4>4. screen[l] = Shows(blink_array[s]) BY <3>1, <2>2, <1>0 DEF ScreenInv
      <4>5. /\ blink_array'[s].status = blink_array[s].status
            /\ blink_array'[s].on_char = blink_array[s].on_char
            /\ blink_array'[s].off_char = blink_array[s].off_char
        BY <4>2, <2>2, <1>3, <1>7
      <4> QED BY <4>3, <4>4, <4>5, <3>1 DEF Shows
    <3> QED BY <3>3, <3>4
  <2> QED BY <2>1, <2>2, <1>2, <1>4 DEF ScreenInv
<1>10. MarkInv'
  <2> SUFFICES ASSUME Marked' PROVE
    /\ list' # <<>>
    /\ blink_array'[list'[1]].location = MARK
    /\ blink_array'[list'[1]].on_char = "I" /\ blink_array'[list'[1]].off_char = "M"
    /\ stage' = "synced" /\ Registered(OFFSET)' =>
         /\ \A s \in Slots : Pic(s)' => Same(s, list[1])'
         /\ blink_array'[list'[1]].on_length = LENGTH /\ blink_array'[list'[1]].off_length = LENGTH
         /\ screen'[MARK] = "I" => blink_array'[list'[1]].status = 1
    BY DEF MarkInv
  <2>1. Marked /\ list # <<>> BY <1>0, <1>2 DEF MarkInv
  <2>2. PICK m \in Slots : m = list[1] /\ Listed(m)
    <3>1. 1 \in 1 .. Len(list) BY <2>1 DEF ListInv
    <3>2. list[1] \in Slots /\ Listed(list[1]) BY <3>1 DEF ListInv, Listed
    <3> QED BY <3>2
  <2>3. /\ blink_array[m].location = MARK /\ blink_array[m].on_char = "I"
        /\ blink_array[m].off_char = "M"
    BY <2>1, <2>2, <1>0 DEF MarkInv
  <2>4. ASSUME stage' = "synced", Registered(OFFSET)'
        PROVE  /\ \A s \in Slots : Pic(s)' => Same(s, m)'
               /\ blink_array'[m].on_length = LENGTH /\ blink_array'[m].off_length = LENGTH
               /\ screen'[MARK] = "I" => blink_array'[m].status = 1
    <3>1. Registered(OFFSET)
      <4>1. PICK k \in 1 .. Len(list) : blink_array'[list[k]].location = OFFSET
        BY <2>4, <1>1 DEF Registered
      <4>2. list[k] \in Slots BY <4>1 DEF ListInv
      <4> QED BY <4>1, <4>2, <1>4 DEF Registered
    <3>2. /\ \A s \in Slots : Pic(s) => Same(s, m)
          /\ blink_array[m].on_length = LENGTH /\ blink_array[m].off_length = LENGTH
          /\ screen[MARK] = "I" => blink_array[m].status = 1
      BY <3>1, <2>1, <2>2, <2>4, <1>0 DEF MarkInv
    <3>3. \A s \in Slots : Pic(s) => (Expires(blink_array[s]) <=> Expires(blink_array[m]))
      BY <3>2 DEF Same, Expires
    <3>4. ASSUME NEW s \in Slots, Pic(s) PROVE Same(s, m)'
      <4>1. Same(s, m) BY <3>2, <3>4
      <4>3. CASE Expires(blink_array[s]) BY <4>1, <4>3, <3>2, <3>3, <3>4, <2>2, <1>3, <1>7 DEF Same
      <4>4. CASE ~Expires(blink_array[s]) BY <4>1, <4>4, <3>3, <3>4, <2>2, <1>3, <1>7 DEF Same
      <4> QED BY <4>3, <4>4
    <3>5. ASSUME NEW s \in Slots, Listed(s), blink_array[s].location = MARK
          PROVE  /\ Expires(blink_array[s]) <=> Expires(blink_array[m])
                 /\ blink_array'[s].status = blink_array'[m].status
                 /\ blink_array'[s].off_char # "I"
      <4>1. CASE s = m BY <4>1, <3>5, <2>3, <1>3
      <4>2. CASE s # m
        <5>1. Pic(s) BY <4>2, <3>5, <2>2 DEF Pic
        <5>2. blink_array[s].off_char # "I" BY <5>1, <3>5, <1>0, NoLetter
        <5> QED BY <5>1, <5>2, <3>3, <3>4, <3>5, <1>3 DEF Same
      <4> QED BY <4>1, <4>2
    <3>6. ASSUME screen'[MARK] = "I" PROVE blink_array'[m].status = 1
      <4>1. CASE Writes(MARK) # {}
        <5>1. PICK s \in Slots : /\ Listed(s) /\ blink_array[s].location = MARK
                                 /\ screen'[MARK] = Shows(blink_array[s])'
          BY <4>1, <1>0, <1>w
        <5> QED BY <5>1, <3>5, <3>6 DEF Shows
      <4>2. CASE Writes(MARK) = {}
        <5>1. PICK k \in 1 .. Len(list) : list[k] = m BY <2>2 DEF Listed
        <5>2. ~Expires(blink_array[m]) BY <5>1, <4>2, <2>3 DEF Writes
        <5>3. screen[MARK] = "I" BY <4>2, <3>6, <1>0, <1>w
        <5> QED BY <5>2, <5>3, <3>2, <2>2, <1>3
      <4> QED BY <4>1, <4>2
    <3> QED BY <3>2, <3>4, <3>6, <2>2, <1>2, <1>3
  <2>5. list'[1] = m BY <2>2, <1>1
  <2>6. \A s : Same(s, list[1])' <=> Same(s, m)' BY <2>5 DEF Same
  <2> QED BY <2>1, <2>2, <2>3, <2>4, <2>5, <2>6, <1>1, <1>3
<1> QED BY <1>5, <1>6, <1>8, <1>9, <1>10 DEF ShowInv

\* While the mark is registered, mp1_find_helper finds it at the head of the list.
LEMMA MarkFound ==
  ASSUME ListInv, MarkInv, Marked
  PROVE  /\ Registered(MARK) /\ mp1_find_helper(MARK) = 1
         /\ list[1] \in Slots /\ Listed(list[1]) /\ ~Pic(list[1])
<1>1. list # <<>> /\ blink_array[list[1]].location = MARK BY DEF MarkInv
<1>2. Len(list) \in Nat /\ 1 \in 1 .. Len(list) BY <1>1 DEF ListInv
<1>3. Registered(MARK) BY <1>1, <1>2 DEF Registered
<1> DEFINE F(k) == /\ blink_array[list[k]].location = MARK
                   /\ \A j \in 1 .. k - 1 : blink_array[list[j]].location # MARK
<1>4. F(1) BY <1>1
<1>5. \A k \in 1 .. Len(list) : F(k) => k = 1
  <2> SUFFICES ASSUME NEW k \in 1 .. Len(list), F(k), k # 1 PROVE FALSE OBVIOUS
  <2>1. 1 \in 1 .. k - 1 BY <1>2
  <2> QED BY <2>1, <1>1
<1>6. 1 = CHOOSE k \in 1 .. Len(list) : F(k) BY <1>2, <1>4, <1>5
<1>7. mp1_find_helper(MARK) = 1 BY <1>6 DEF mp1_find_helper
<1>8. list[1] \in Slots /\ Listed(list[1]) /\ ~Pic(list[1])
  BY <1>2 DEF ListInv, Listed, Pic
<1> QED BY <1>3, <1>7, <1>8

\* The mark is registered while the slots of the pictures stay as they are.
LEMMA MarkAdded ==
  ASSUME ListInv, ShowInv, UNCHANGED frames, stage = "picture", stage' = "mark",
         RTC_ADD(MARK, "I", "M", MARK_ON, MARK_OFF)
  PROVE  ShowInv'
<1>0. TextsInv /\ PicInv /\ TimeInv /\ ScreenInv /\ MARK \in Locations /\ ~Marked /\ Marked'
      /\ UNCHANGED <<files, row, col>>
  BY ShowFacts DEF ShowInv, Marked, frames
<1>1. FreeSlots # {} /\ screen = [l \in Locations |-> screen[l]]
  BY <1>0, SlotFree DEF ScreenInv
<1>2. PICK m \in Slots :
           /\ ~Listed(m) /\ list' # <<>> /\ list'[1] = m
           /\ \A s \in Slots : Listed(s)' <=> s = m \/ Listed(s)
           /\ \A s \in Slots : s # m => blink_array'[s] = blink_array[s]
           /\ blink_array'[m].location = MARK
           /\ blink_array'[m].on_char = "I" /\ blink_array'[m].off_char = "M"
           /\ screen' = [l \in Locations |-> screen'[l]]
           /\ \A l \in Locations : l # MARK => screen'[l] = screen[l]
  <2>1. PICK loc, on, off, x, y : loc = MARK /\ on = "I" /\ off = "M" /\ x = MARK_ON /\ y = MARK_OFF
    OBVIOUS
  <2>2. RTC_ADD(loc, on, off, x, y) /\ loc \in Locations BY <2>1, <1>0
  <2>3. \E m \in Slots :
           /\ ~Listed(m) /\ list' # <<>> /\ list'[1] = m
           /\ \A s \in Slots : Listed(s)' <=> s = m \/ Listed(s)
           /\ \A s \in Slots : s # m => blink_array'[s] = blink_array[s]
           /\ blink_array'[m].location = loc
           /\ blink_array'[m].on_char = on /\ blink_array'[m].off_char = off
           /\ screen' = [l \in Locations |-> screen'[l]]
           /\ \A l \in Locations : l # loc => screen'[l] = screen[l]
    BY <2>2, <1>1, AddIs
  <2> QED BY <2>1, <2>3
<1>3. \A s \in Slots : (Pic(s) <=> Listed(s)) /\ (Pic(s)' <=> Listed(s)' /\ s # m)
  BY <1>0, <1>2 DEF Pic
<1>4. /\ \A s \in Slots : Pic(s)' <=> Pic(s)
      /\ \A s \in Slots : Pic(s) => blink_array'[s] = blink_array[s]
      /\ \A s \in Slots : ~Listed(s)' => blink_array'[s].location = 0
  BY <1>0, <1>2, <1>3 DEF PicInv
<1>5. PicInv' /\ TimeInv' /\ ScreenInv' BY <1>0, <1>2, <1>4, KeepShow
<1>6. TextsInv' BY <1>0, TextsKept
<1>7. MarkInv' BY <1>2 DEF MarkInv
<1> QED BY <1>5, <1>6, <1>7 DEF ShowInv

\* The mark takes the timing of a character of the pictures, and with it that of all.
LEMMA MarkSynced ==
  ASSUME ListInv, ShowInv, UNCHANGED frames, stage = "mark", stage' = "synced",
         RTC_SYNC(OFFSET, MARK)
  PROVE  ShowInv'
<1>0. /\ TextsInv /\ PicInv /\ TimeInv /\ ScreenInv /\ MarkInv /\ Marked /\ Marked'
      /\ MARK \in Locations /\ MARK # OFFSET /\ UNCHANGED <<files, row, col>>
  BY ShowFacts DEF ShowInv, Marked, frames
<1>1. /\ Registered(MARK) /\ mp1_find_helper(MARK) = 1
      /\ list[1] \in Slots /\ Listed(list[1]) /\ ~Pic(list[1])
  BY <1>0, MarkFound
<1>2. PICK d \in Slots : d = list[1] BY <1>1
<1>3. /\ list # <<>> /\ blink_array[d].location = MARK
      /\ blink_array[d].on_char = "I" /\ blink_array[d].off_char = "M"
  BY <1>0, <1>2 DEF MarkInv
<1>4. TextsInv' BY <1>0, TextsKept
<1>5. CASE ~Registered(OFFSET)
  <2>1. UNCHANGED <<blink_array, list, screen>> BY <1>5 DEF RTC_SYNC, blinker
  <2>2. \A s : (Listed(s)' <=> Listed(s)) /\ (Pic(s)' <=> Pic(s))
    BY <2>1, <1>0 DEF Listed, Pic
  <2>3. PicInv' /\ TimeInv' /\ ScreenInv'
    BY <2>1, <2>2, <1>0, KeepShow DEF PicInv, ScreenInv
  <2>4. ~Registered(OFFSET)' BY <2>1, <1>5 DEF Registered
  <2>5. MarkInv' BY <2>1, <2>4, <1>2, <1>3 DEF MarkInv
  <2> QED BY <2>3, <2>5, <1>4 DEF ShowInv
<1>6. CASE Registered(OFFSET)
  <2>1. PICK i : i = mp1_find_helper(OFFSET) OBVIOUS
  <2>2. i \in 1 .. Len(list) /\ blink_array[list[i]].location = OFFSET
    BY <2>1, <1>6, HelperFinds DEF ListInv
  <2>3. PICK o \in Slots : o = list[i] BY <2>2 DEF ListInv
  <2>4. Pic(o) BY <2>2, <2>3, <1>0, <1>2, <1>3 DEF Pic, Listed
  <2>5. PICK b : b = blink_array[o] OBVIOUS
  <2>6. /\ list' = list /\ screen' = [screen EXCEPT ![MARK] = blink_array[d].off_char]
        /\ blink_array' = [blink_array EXCEPT
                 ![d].on_length = b.on_length, ![d].off_length = b.off_length,
                 ![d].countdown = b.countdown, ![d].status = b.status]
    BY <2>1, <2>3, <2>5, <1>1, <1>2, <1>6 DEF RTC_SYNC, blinker
  <2>7. /\ \A s \in Slots : s # d => blink_array'[s] = blink_array[s]
        /\ blink_array'[d] = [blink_array[d] EXCEPT !.on_length = b.on_length,
               !.off_length = b.off_length, !.countdown = b.countdown, !.status = b.status]
    BY <2>6 DEF ListInv
  <2>8. /\ blink_array'[d].location = MARK
        /\ blink_array'[d].on_char = "I" /\ blink_array'[d].off_char = "M"
        /\ blink_array'[d].on_length = b.on_length /\ blink_array'[d].off_length = b.off_length
        /\ blink_array'[d].countdown = b.countdown /\ blink_array'[d].status = b.status
    <3>1. IsBlink(blink_array[d]) BY DEF ListInv
    <3> QED BY <3>1, <2>7, <1>3 DEF IsBlink
  <2>9. \A s : (Listed(s)' <=> Listed(s)) /\ (Pic(s)' <=> Pic(s))
    BY <2>6, <1>0 DEF Listed, Pic
  <2>10. \A s \in Slots : Pic(s) => s # d /\ blink_array'[s] = blink_array[s]
    BY <2>7, <1>1, <1>2
  <2>11. \A s \in Slots : ~Listed(s)' => blink_array'[s].location = 0
    BY <2>7, <2>9, <1>0, <1>1, <1>2 DEF PicInv
  <2>12. /\ screen' = [l \in Locations |-> screen'[l]] /\ screen'[MARK] = "M"
         /\ \A l \in Locations : l # MARK => screen'[l] = screen[l]
    <3>1. screen = [l \in Locations |-> screen[l]] BY <1>0 DEF ScreenInv
    <3> QED BY <3>1, <2>6, <1>0, <1>3
  <2>13. PicInv' /\ TimeInv' /\ ScreenInv' BY <2>9, <2>10, <2>11, <2>12, <1>0, KeepShow
  <2>14. list'[1] = d /\ list' # <<>> BY <2>6, <1>2, <1>3
  <2>15. ASSUME NEW s \in Slots, Pic(s)' PROVE Same(s, list[1])'
    <3>1. Pic(s) /\ blink_array'[s] = blink_array[s] BY <2>9, <2>10, <2>15
    <3>2. Same(s, o) BY <3>1, <2>4, <1>0 DEF TimeInv
    <3> QED BY <3>1, <3>2, <2>5, <2>8, <2>14 DEF Same
  <2>16. b.on_length = LENGTH /\ b.off_length = LENGTH BY <2>4, <2>5, <1>0 DEF TimeInv
  <2>17. MarkInv' BY <2>8, <2>12, <2>14, <2>15, <2>16 DEF MarkInv
  <2> QED BY <2>13, <2>17, <1>4 DEF ShowInv
<1> QED BY <1>5, <1>6

\* The mark is removed, and nothing else.
LEMMA MarkRemoved ==
  ASSUME ListInv, ShowInv, UNCHANGED frames, stage = "synced", stage' = "last", RTC_REMOVE(MARK)
  PROVE  ShowInv'
<1>0. /\ TextsInv /\ PicInv /\ TimeInv /\ ScreenInv /\ MarkInv /\ Marked /\ ~Marked'
      /\ UNCHANGED <<files, row, col>>
  BY DEF ShowInv, Marked, frames
<1>1. /\ Registered(MARK) /\ mp1_find_helper(MARK) = 1
      /\ list[1] \in Slots /\ Listed(list[1]) /\ ~Pic(list[1])
  BY <1>0, MarkFound
<1>2. PICK d \in Slots : d = list[1] BY <1>1
<1>3. /\ \A s \in Slots : Listed(s)' => Listed(s) /\ blink_array'[s] = blink_array[s]
      /\ \A s \in Slots : IF s = d THEN blink_array'[s].location = 0
           ELSE blink_array'[s] = blink_array[s] /\ (Listed(s) => Listed(s)')
      /\ ListInv'
  BY <1>1, <1>2, RemoveKeeps
<1>4. ~Listed(d)' BY <1>2, <1>3 DEF ListInv
<1>5. /\ \A s \in Slots : Pic(s)' <=> Pic(s)
      /\ \A s \in Slots : Pic(s) => blink_array'[s] = blink_array[s]
      /\ \A s \in Slots : ~Listed(s)' => blink_array'[s].location = 0
  BY <1>0, <1>2, <1>3, <1>4 DEF PicInv, Pic
<1>6. screen' = screen BY DEF RTC_REMOVE
<1>7. PicInv' /\ TimeInv' /\ ScreenInv' BY <1>0, <1>5, <1>6, KeepShow DEF ScreenInv
<1>8. TextsInv' BY <1>0, TextsKept
<1>9. MarkInv' BY <1>0 DEF MarkInv
<1> QED BY <1>7, <1>8, <1>9 DEF ShowInv

\* Steps that leave the blinker alone.
LEMMA BlinkerKept ==
  ASSUME ShowInv, UNCHANGED <<frames, blinker>>,
         \/ stage' = stage
         \/ stage = "rate" /\ stage' = "picture"
         \/ stage = "last" /\ stage' = "over"
  PROVE  ShowInv'
<1>0. /\ TextsInv /\ PicInv /\ TimeInv /\ ScreenInv /\ MarkInv
      /\ UNCHANGED <<files, row, col, blink_array, list, screen>>
      /\ Marked' <=> Marked
  BY DEF ShowInv, Marked, frames, blinker
<1>1. \A s : (Listed(s)' <=> Listed(s)) /\ (Pic(s)' <=> Pic(s)) BY <1>0 DEF Listed, Pic
<1>2. PicInv' /\ TimeInv' /\ ScreenInv' BY <1>0, <1>1, KeepShow DEF PicInv, ScreenInv
<1>3. TextsInv' BY <1>0, TextsKept
<1>4. MarkInv'
  <2>1. Registered(OFFSET)' = Registered(OFFSET) BY <1>0 DEF Registered
  <2>2. \A s : Same(s, list[1])' = Same(s, list[1]) BY <1>0 DEF Same
  <2>3. stage' = "synced" => stage = "synced" OBVIOUS
  <2> QED BY <2>1, <2>2, <2>3, <1>0, <1>1 DEF MarkInv
<1> QED BY <1>2, <1>3, <1>4 DEF ShowInv

\* Every step preserves ShowInv.
LEMMA ShowInductive == FishInv /\ ShowInv /\ [FishNext]_fvars => ShowInv'
<1> SUFFICES ASSUME FishInv, ShowInv, [FishNext]_fvars PROVE ShowInv'
  OBVIOUS
<1>i. ListInv /\ row \in Nat /\ col \in Nat /\ (due => stage \in Loops)
  BY DEF FishInv, HeldInv
<1>1. CASE AddFrames BY <1>1, <1>i, FramesShow
<1>2. CASE SetRate \/ FishRead \/ Others \/ Interrupt \/ UNCHANGED fvars
  BY <1>2, BlinkerKept DEF SetRate, FishRead, Others, Interrupt, fvars
<1>3. CASE Tasklet BY <1>3, <1>i, TaskletShow DEF Tasklet
<1>4. CASE Ioctl
  <2>1. UNCHANGED frames BY <1>4 DEF Ioctl
  <2>2. CASE stage = "picture" BY <2>1, <2>2, <1>4, <1>i, MarkAdded DEF Ioctl
  <2>3. CASE stage = "mark" BY <2>1, <2>3, <1>4, <1>i, MarkSynced DEF Ioctl
  <2>4. CASE stage = "synced" BY <2>1, <2>4, <1>4, <1>i, MarkRemoved DEF Ioctl
  <2>5. CASE stage = "last" BY <2>1, <2>5, <1>4, BlinkerKept DEF Ioctl
  <2> QED BY <2>2, <2>3, <2>4, <2>5, <1>4 DEF Ioctl
<1> QED BY <1>1, <1>2, <1>3, <1>4 DEF FishNext, FishStep

\* The screen shows a picture when all its characters do.
LEMMA ShowsIs ==
  ASSUME ShowInv, row \in Nat, stage # "frames", NEW f \in 1 .. 2,
         \A s \in Slots : Pic(s) => Shows(blink_array[s]) =
           IF f = 1 THEN blink_array[s].on_char ELSE blink_array[s].off_char
  PROVE  ShowsFrame(f)
<1>0. /\ TextsInv /\ PicInv /\ ScreenInv /\ COLS \in Nat /\ ROWS \in Nat
  BY ShowFacts DEF ShowInv
<1>1. \A p \in Places : /\ p \in (0 .. ROWS - 1) \X (0 .. COLS - 1)
                        /\ p[1] * COLS + p[2] + OFFSET \in Locations \ {MARK}
                        /\ CharAt(1, p[1], p[2]) # Space \/ CharAt(2, p[1], p[2]) # Space
  BY Zenon DEF Places, Space
<1> SUFFICES ASSUME NEW p \in Places
             PROVE  screen[p[1] * COLS + p[2] + OFFSET] = CharAt(f, p[1], p[2])
  BY DEF ShowsFrame
<1>2. PICK r \in Nat, k \in Nat : r = p[1] /\ k = p[2] BY <1>0, <1>1
<1>3. Loc(r, k) \in Locations \ {MARK} /\ Vis(r, k) BY <1>1, <1>2, CharAtIs DEF Loc, Vis
<1>4. Done(r, k)
  <2>1. PICK g \in 1 .. 2 : CharOf(files[g], r, k) # Space BY <1>3 DEF Vis
  <2>2. PICK t : t = files[g] OBVIOUS
  <2>3. eof[g] /\ col = 0 BY <2>1, <1>0 DEF TextsInv
  <2>4. t \in Seq(STRING) /\ BehindText(t, row, 0) BY <2>2, <2>3, <1>0 DEF TextsInv, ReadOK
  <2>5. r < row BY <2>1, <2>2, <2>4, CharsBefore
  <2> QED BY <2>5 DEF Done
<1>5. PICK s \in Slots :
       /\ Pic(s) /\ blink_array[s].location = Loc(r, k)
       /\ blink_array[s].on_char = CharOf(files[1], r, k)
       /\ blink_array[s].off_char = CharOf(files[2], r, k)
  BY <1>0, <1>3, <1>4 DEF PicInv
<1>6. screen[Loc(r, k)] = Shows(blink_array[s]) BY <1>0, <1>3, <1>5 DEF ScreenInv
<1>7. screen[Loc(r, k)] = CharOf(files[f], r, k) BY <1>5, <1>6
<1> QED BY <1>2, <1>7, CharAtIs DEF Loc

\* For every pair of pictures and every screen their lines fit on, fish shows one of its
\* pictures whole, and once the mark follows the upper left character its first letter
\* stands with the first picture.
THEOREM FrameCorrect == FishSpec => []FrameShown
<1>1. FishInit => ShowInv
  <2> SUFFICES ASSUME FishInit PROVE ShowInv
    OBVIOUS
  <2>1. /\ list = <<>> /\ Len(list) = 0 /\ blink_array = [s \in Slots |-> Free]
        /\ stage = "frames" /\ row = 0 /\ col = 0 /\ at = <<0, 0>> /\ c = <<"0", "0">>
        /\ eof = <<FALSE, FALSE>> /\ files \in Pictures
        /\ screen = [l \in Locations |-> screen[l]]
    BY DEF FishInit
  <2>2. \A s \in Slots : ~Listed(s) /\ ~Pic(s) BY <2>1 DEF Listed, Pic
  <2>3. ASSUME NEW f \in 1 .. 2 PROVE ReadOK(files[f], at[f], c[f], eof[f], row, col)
    <3>1. files[f] \in Seq(STRING) /\ Len(files[f]) \in Nat
      BY <2>1, PicturesAssumption, LenProperties
    <3>2. at[f] = 0 /\ c[f] = "0" BY <2>1
    <3>e. eof[f] = FALSE
      <4>1. f = 1 \/ f = 2 OBVIOUS
      <4>2. eof[1] = FALSE /\ eof[2] = FALSE BY <2>1, Zenon
      <4> QED BY <4>1, <4>2, Zenon
    <3>3. PICK t : t = files[f] OBVIOUS
    <3>4. LineNumber(t, 1) = 0
      <4>1. {j \in 1 .. 1 - 1 : t[j] = "NL"} = {} OBVIOUS
      <4> QED BY <4>1, FS_EmptySet DEF LineNumber
    <3>5. LineStart(t, 1) BY <3>1, <3>3 DEF LineStart
    <3>6. OnLine(t, 0, 1, 0, 0) BY <3>4, <3>5 DEF OnLine
    <3>7. t \in Seq(STRING) /\ 0 \in 0 .. Len(t) BY <3>1, <3>3
    <3>8. ReadOK(t, 0, "0", FALSE, 0, 0) BY <3>6, <3>7 DEF ReadOK
    <3>9. PICK x : x = FALSE OBVIOUS
    <3>10. ReadOK(t, 0, "0", x, 0, 0) BY <3>8, <3>9, Zenon
    <3>11. eof[f] = x BY <3>e, <3>9, Zenon
    <3> QED BY <2>1, <3>2, <3>3, <3>10, <3>11
  <2>4. TextsInv BY <2>1, <2>3 DEF TextsInv
  <2>5. PicInv
    <3>1. Free.location = 0 BY DEF Free
    <3>2. \A s \in Slots : blink_array[s].location = 0 BY <2>1, <3>1
    <3>3. \A r, k \in Nat : ~Done(r, k) BY <2>1 DEF Done
    <3> QED BY <2>2, <3>2, <3>3 DEF PicInv
  <2>6. TimeInv BY <2>2 DEF TimeInv
  <2>7. ScreenInv BY <2>1, <2>2 DEF ScreenInv
  <2>8. MarkInv BY <2>1 DEF MarkInv, Marked
  <2> QED BY <2>4, <2>5, <2>6, <2>7, <2>8 DEF ShowInv
<1>2. FishInv /\ ShowInv => FrameShown
  <2> SUFFICES ASSUME FishInv, ShowInv, stage # "frames"
               PROVE  /\ ShowsFrame(1) \/ ShowsFrame(2)
                      /\ stage = "synced" /\ Registered(OFFSET) /\ screen[MARK] = "I"
                           => ShowsFrame(1)
    BY DEF FrameShown
  <2>1. row \in Nat BY DEF FishInv, HeldInv
  <2>2. ASSUME \A s \in Slots : Pic(s) => blink_array[s].status = 1 PROVE ShowsFrame(1)
    <3>1. \A s \in Slots : Pic(s) => Shows(blink_array[s]) =
            IF 1 = 1 THEN blink_array[s].on_char ELSE blink_array[s].off_char
      BY <2>2 DEF Shows
    <3> QED BY <3>1, <2>1, ShowsIs
  <2>3. ASSUME \A s \in Slots : Pic(s) => blink_array[s].status = 0 PROVE ShowsFrame(2)
    <3>1. \A s \in Slots : Pic(s) => Shows(blink_array[s]) =
            IF 2 = 1 THEN blink_array[s].on_char ELSE blink_array[s].off_char
      BY <2>3 DEF Shows
    <3> QED BY <3>1, <2>1, ShowsIs
  <2>4. \/ \A s \in Slots : Pic(s) => blink_array[s].status = 1
        \/ \A s \in Slots : Pic(s) => blink_array[s].status = 0
    BY DEF ShowInv, TimeInv, Same
  <2>5. ASSUME stage = "synced", Registered(OFFSET), screen[MARK] = "I"
        PROVE  \A s \in Slots : Pic(s) => blink_array[s].status = 1
    BY <2>5 DEF ShowInv, MarkInv, Marked, Same
  <2> QED BY <2>2, <2>3, <2>4, <2>5
<1>3. FishSpec => []ShowInv BY <1>1, ShowInductive, FishInvariant, PTL DEF FishSpec
<1> QED BY <1>2, <1>3, FishInvariant, PTL
=============================================================================
