------------------------------ MODULE Keyboard ------------------------------
(***************************************************************************)
(* The keyboard buffer: keyboard_handler and keyboard_read of keyboard.c,  *)
(* and save_terminal_state and restore_terminal_state of terminal.c, which *)
(* exchange the one live buffer with the buffer of a terminal.             *)
(*                                                                         *)
(* keyboard_handler runs with interrupts off and is one step.              *)
(* keyboard_read runs with interrupts on, in the process of some terminal, *)
(* and is one step per access to what it shares: keys, terminal switches   *)
(* and the readers of other terminals come in between.  (memset is one     *)
(* instruction per four cells, and one step.)  The position on the screen, *)
(* which decides what Backspace does, belongs to the console.              *)
(***************************************************************************)
EXTENDS Integers, Sequences

CONSTANTS
  MAX_BUF_SIZE,  \* characters of a line (128 in the code)
  UINT8,         \* values of a uint8_t (256 in the code)
  Terms,         \* terminals, 0 is the one that is displayed first
  Chars,         \* characters that keys produce
  Requests,      \* values of nbytes
  Env            \* behaviours of the user that a run allows, see EnvKinds

(***************************************************************************)
(* "type_ahead"     keys are hit while no program waits for the line, or   *)
(*                  after Enter and before the program has read it         *)
(* "switch_pending" Alt-F after Enter and before the program has read      *)
(* "fresh_text"     Alt-F opens a new terminal in the middle of a line     *)
(***************************************************************************)
EnvKinds == {"type_ahead", "switch_pending", "fresh_text"}

NL  == "newline"
NUL == "nul"
SP  == "space"

ASSUME ConstantsAssumption ==
  /\ MAX_BUF_SIZE \in Nat \ {0} /\ UINT8 \in Nat /\ UINT8 > MAX_BUF_SIZE + 1
  /\ 0 \in Terms
  /\ NL \notin Chars /\ NUL \notin Chars
  /\ Requests \subseteq Nat \ {0}
  /\ Env \subseteq EnvKinds

Cells   == Chars \cup {NL, NUL, SP}
Byte    == 0 .. UINT8 - 1                     \* keyboard_idx and last_idx
Buffer  == [0 .. MAX_BUF_SIZE -> Cells]       \* keyboard_buf, one cell longer than a line
Saved   == [0 .. MAX_BUF_SIZE - 1 -> Cells]   \* what the two memcpy move

VARIABLES
  keyboard_buf, keyboard_idx, last_idx,
  term_enter,                     \* terminals[t].term_enter
  input_buf, keyboard_index, keyboard_last_index,   \* saved in terminals[t]
  curr_terminal_number, active,
  \* keyboard_read in the process of a terminal
  pc, nbytes, i, j, count, buf,
  got                             \* what a read returned, until the program reads again

liveVars  == <<keyboard_buf, keyboard_idx, last_idx>>
savedVars == <<input_buf, keyboard_index, keyboard_last_index>>
termVars  == <<curr_terminal_number, active>>
readVars  == <<pc, nbytes, i, j, count, buf, got>>
vars == <<liveVars, term_enter, savedVars, termVars, readVars>>

\* memset(keyboard_buf, ' ', MAX_BUF_SIZE): the last cell is left alone
Blanked(b) == [k \in 0 .. MAX_BUF_SIZE |-> IF k < MAX_BUF_SIZE THEN SP ELSE b[k]]

-----------------------------------------------------------------------------
(* keyboard_handler.                                                        *)

disp == curr_terminal_number

Waiting(t) == pc[t] = "wait" /\ ~term_enter[t]

MayType == "type_ahead" \in Env \/ Waiting(disp)

(* A key with a character: stored and counted, then keyboard_write echoes   *)
(* the cells from last_idx on.  A full line ignores the key.                *)
\* mutant: the test for a full line is one too late
StoreLate(c) ==
  /\ keyboard_idx # MAX_BUF_SIZE + 1
  /\ keyboard_buf' = [keyboard_buf EXCEPT ![keyboard_idx] = c]
  /\ keyboard_idx' = (keyboard_idx + 1) % UINT8
  /\ last_idx' = (last_idx + 1) % UINT8

Store(c) ==
  /\ keyboard_idx # MAX_BUF_SIZE
  /\ keyboard_buf' = [keyboard_buf EXCEPT ![keyboard_idx] = c]
  /\ keyboard_idx' = (keyboard_idx + 1) % UINT8
  /\ last_idx' = (last_idx + 1) % UINT8

Key(c) ==
  /\ MayType
  /\ Store(c)
  /\ UNCHANGED <<term_enter, savedVars, termVars, readVars>>

(* Enter: the new line goes into the next cell, keyboard_idx stays.         *)
\* mutant: the new line is counted as a character of the line
EnterCounted ==
  /\ MayType
  /\ keyboard_buf' = [keyboard_buf EXCEPT ![keyboard_idx] = NL]
  /\ keyboard_idx' = keyboard_idx + 1
  /\ last_idx' = last_idx
  /\ term_enter' = [term_enter EXCEPT ![disp] = TRUE]
  /\ UNCHANGED <<savedVars, termVars, readVars>>

Enter ==
  /\ MayType
  /\ keyboard_buf' = [keyboard_buf EXCEPT ![keyboard_idx] = NL]
  /\ term_enter' = [term_enter EXCEPT ![disp] = TRUE]
  /\ UNCHANGED <<keyboard_idx, last_idx, savedVars, termVars, readVars>>

(* handle_backspace.                                                        *)
\* mutant: last_idx does not follow
BackspaceForgetsEcho ==
  /\ MayType
  /\ keyboard_idx # 0
  /\ keyboard_buf' = [keyboard_buf EXCEPT ![keyboard_idx - 1] = NUL]
  /\ keyboard_idx' = keyboard_idx - 1
  /\ UNCHANGED <<last_idx, term_enter, savedVars, termVars, readVars>>

Backspace ==
  /\ MayType
  /\ keyboard_idx # 0
  /\ keyboard_buf' = [keyboard_buf EXCEPT ![keyboard_idx - 1] = NUL]
  /\ last_idx' = (last_idx - 1) % UINT8
  /\ keyboard_idx' = keyboard_idx - 1
  /\ UNCHANGED <<term_enter, savedVars, termVars, readVars>>

(* At the top left corner Backspace is taken for the character the map has  *)
(* for it, a space.  (Below a blank row it only moves the cursor.)          *)
BackspaceAtOrigin ==
  /\ MayType
  /\ Store(SP)
  /\ UNCHANGED <<term_enter, savedVars, termVars, readVars>>

CtrlL ==
  /\ MayType
  /\ keyboard_buf' = Blanked(keyboard_buf)
  /\ keyboard_idx' = 0
  /\ last_idx' = 0
  /\ UNCHANGED <<term_enter, savedVars, termVars, readVars>>

-----------------------------------------------------------------------------
(* switch_terminal.                                                         *)

MaySwitch == "switch_pending" \in Env \/ (~term_enter[disp] /\ pc[disp] \in {"idle", "wait"})

save_terminal_state ==
  /\ input_buf' = [input_buf EXCEPT ![disp] = [k \in 0 .. MAX_BUF_SIZE - 1 |-> keyboard_buf[k]]]
  /\ keyboard_index' = [keyboard_index EXCEPT ![disp] = keyboard_idx]
  /\ keyboard_last_index' = [keyboard_last_index EXCEPT ![disp] = last_idx]

\* mutant: the index of the terminal is not restored
RestoreNoIndex(newt) ==
  /\ keyboard_buf' = [k \in 0 .. MAX_BUF_SIZE |->
                        IF k < MAX_BUF_SIZE THEN input_buf[newt][k] ELSE keyboard_buf[k]]
  /\ last_idx' = keyboard_last_index[newt]
  /\ keyboard_idx' = keyboard_idx

restore_terminal_state(newt) ==
  /\ keyboard_buf' = [k \in 0 .. MAX_BUF_SIZE |->
                        IF k < MAX_BUF_SIZE THEN input_buf[newt][k] ELSE keyboard_buf[k]]
  /\ last_idx' = keyboard_last_index[newt]
  /\ keyboard_idx' = keyboard_index[newt]

SwitchActive(newt) ==
  /\ MaySwitch
  /\ newt # disp /\ active[newt]
  /\ save_terminal_state
  /\ restore_terminal_state(newt)
  /\ curr_terminal_number' = newt
  /\ UNCHANGED <<term_enter, active, readVars>>

(* The first switch to a terminal: the live buffer is not touched.          *)
SwitchFresh(newt) ==
  /\ MaySwitch
  /\ "fresh_text" \in Env \/ keyboard_idx = 0
  /\ newt # disp /\ ~active[newt]
  /\ save_terminal_state
  /\ curr_terminal_number' = newt
  /\ active' = [active EXCEPT ![newt] = TRUE]
  /\ UNCHANGED <<liveVars, term_enter, readVars>>

-----------------------------------------------------------------------------
(* keyboard_read in the process of terminal t.                              *)

Call(t) ==
  /\ active[t] /\ pc[t] = "idle"
  /\ \E n \in Requests : nbytes' = [nbytes EXCEPT ![t] = n]
  /\ got' = [got EXCEPT ![t] = <<>>]
  /\ pc' = [pc EXCEPT ![t] = "wait"]
  /\ UNCHANGED <<liveVars, term_enter, savedVars, termVars, i, j, count, buf>>

Woken(t) ==
  /\ pc[t] = "wait" /\ term_enter[t]
  /\ pc' = [pc EXCEPT ![t] = "fetch"]
  /\ UNCHANGED <<liveVars, term_enter, savedVars, termVars, nbytes, i, j, count, buf, got>>

(* get_keyboard_idx: i is the number of cells that the search has to look at. *)
Fetch(t) ==
  /\ pc[t] = "fetch"
  /\ i' = [i EXCEPT ![t] = keyboard_idx]
  /\ pc' = [pc EXCEPT ![t] = "scan"]
  /\ UNCHANGED <<liveVars, term_enter, savedVars, termVars, nbytes, j, count, buf, got>>

(* The search goes down from the end of the line; at the second new line it  *)
(* stops, and the copy starts behind it, else at 0.                         *)
Scan(t) ==
  /\ pc[t] = "scan" /\ i[t] > 0
  /\ LET newline == keyboard_buf[i[t] - 1] = NL IN
       \/ /\ newline /\ count[t] = 1
          /\ j' = [j EXCEPT ![t] = i[t]]
          /\ pc' = [pc EXCEPT ![t] = "copy"]
          /\ UNCHANGED <<i, count>>
       \/ /\ ~(newline /\ count[t] = 1)
          /\ i' = [i EXCEPT ![t] = @ - 1]
          /\ count' = [count EXCEPT ![t] = IF newline THEN 1 ELSE @]
          /\ UNCHANGED <<j, pc>>
  /\ UNCHANGED <<liveVars, term_enter, savedVars, termVars, nbytes, buf, got>>

ScanEnd(t) ==
  /\ pc[t] = "scan" /\ i[t] = 0
  /\ pc' = [pc EXCEPT ![t] = "copy"]
  /\ UNCHANGED <<liveVars, term_enter, savedVars, termVars, nbytes, i, j, count, buf, got>>

(* A cell as the copy loop reads it.  The byte before keyboard_buf is       *)
(* padding and 0; the bytes behind it are not known to end a line.          *)
Cell(k) == IF k < 0 THEN NUL ELSE IF k <= MAX_BUF_SIZE THEN keyboard_buf[k] ELSE SP

(* The copy loop tests the cell, the one before it and the number of bytes, *)
(* and reads the cell again to copy it.                                     *)
AtNul(t) == Cell(i[t]) = NUL

\* mutant: the loop does not stop behind the new line
OnlyFull(t) == i[t] - j[t] = nbytes[t]

BehindLine(t) == Cell(i[t] - 1) = NL \/ i[t] - j[t] = nbytes[t]

TestCell(t) ==
  /\ pc[t] = "copy" /\ ~AtNul(t)
  /\ pc' = [pc EXCEPT ![t] = "prev"]
  /\ UNCHANGED <<liveVars, term_enter, savedVars, termVars, nbytes, i, j, count, buf, got>>

TestPrev(t) ==
  /\ pc[t] = "prev" /\ ~BehindLine(t)
  /\ pc' = [pc EXCEPT ![t] = "cell"]
  /\ UNCHANGED <<liveVars, term_enter, savedVars, termVars, nbytes, i, j, count, buf, got>>

Copy(t) ==
  /\ pc[t] = "cell"
  /\ buf' = [buf EXCEPT ![t] = Append(@, Cell(i[t]))]
  /\ i' = [i EXCEPT ![t] = @ + 1]
  /\ pc' = [pc EXCEPT ![t] = "copy"]
  /\ UNCHANGED <<liveVars, term_enter, savedVars, termVars, nbytes, j, count, got>>

(* The loop ends: the caller's array is complete, and the locals are dead.  *)
Terminate(t) ==
  /\ (pc[t] = "copy" /\ AtNul(t)) \/ (pc[t] = "prev" /\ BehindLine(t))
  /\ got' = [got EXCEPT ![t] = buf[t]]
  /\ buf' = [buf EXCEPT ![t] = <<>>]
  /\ i' = [i EXCEPT ![t] = 0]
  /\ j' = [j EXCEPT ![t] = 0]
  /\ count' = [count EXCEPT ![t] = 0]
  /\ pc' = [pc EXCEPT ![t] = "enter"]
  /\ UNCHANGED <<liveVars, term_enter, savedVars, termVars, nbytes>>

ClearEnter(t) ==
  /\ pc[t] = "enter"
  /\ term_enter' = [term_enter EXCEPT ![t] = FALSE]
  /\ pc' = [pc EXCEPT ![t] = "blank"]
  /\ UNCHANGED <<liveVars, savedVars, termVars, nbytes, i, j, count, buf, got>>

Blank(t) ==
  /\ pc[t] = "blank"
  /\ keyboard_buf' = Blanked(keyboard_buf)
  /\ pc' = [pc EXCEPT ![t] = "index"]
  /\ UNCHANGED <<keyboard_idx, last_idx, term_enter, savedVars, termVars, nbytes, i, j, count, buf, got>>

ResetIdx(t) ==
  /\ pc[t] = "index"
  /\ keyboard_idx' = 0
  /\ pc' = [pc EXCEPT ![t] = "last"]
  /\ UNCHANGED <<keyboard_buf, last_idx, term_enter, savedVars, termVars, nbytes, i, j, count, buf, got>>

\* mutant: the loop goes back to waiting instead of returning
ResetLastWaits(t) ==
  /\ pc[t] = "last"
  /\ last_idx' = 0
  /\ pc' = [pc EXCEPT ![t] = "wait"]
  /\ UNCHANGED <<keyboard_buf, keyboard_idx, term_enter, savedVars, termVars, nbytes, i, j, count, buf, got>>

ResetLast(t) ==
  /\ pc[t] = "last"
  /\ last_idx' = 0
  /\ pc' = [pc EXCEPT ![t] = "idle"]
  /\ UNCHANGED <<keyboard_buf, keyboard_idx, term_enter, savedVars, termVars, nbytes, i, j, count, buf, got>>

Reader(t) ==
  \/ Woken(t) \/ Fetch(t) \/ Scan(t) \/ ScanEnd(t)
  \/ TestCell(t) \/ TestPrev(t) \/ Copy(t) \/ Terminate(t)
  \/ ClearEnter(t) \/ Blank(t) \/ ResetIdx(t) \/ ResetLast(t)

-----------------------------------------------------------------------------
(* keyboard_init and terminal_init; the shell of terminal 0 runs.           *)
Init ==
  /\ keyboard_buf = [k \in 0 .. MAX_BUF_SIZE |-> IF k < MAX_BUF_SIZE THEN SP ELSE NUL]
  /\ keyboard_idx = 0
  /\ last_idx = 0
  /\ term_enter = [t \in Terms |-> FALSE]
  /\ input_buf = [t \in Terms |-> [k \in 0 .. MAX_BUF_SIZE - 1 |-> SP]]
  /\ keyboard_index = [t \in Terms |-> 0]
  /\ keyboard_last_index = [t \in Terms |-> 0]
  /\ curr_terminal_number = 0
  /\ active = [t \in Terms |-> t = 0]
  /\ pc = [t \in Terms |-> "idle"]
  /\ nbytes = [t \in Terms |-> 0]
  /\ i = [t \in Terms |-> 0]
  /\ j = [t \in Terms |-> 0]
  /\ count = [t \in Terms |-> 0]
  /\ buf = [t \in Terms |-> <<>>]
  /\ got = [t \in Terms |-> <<>>]

Handler ==
  \/ \E c \in Chars : Key(c)
  \/ Enter \/ Backspace \/ BackspaceAtOrigin \/ CtrlL
  \/ \E t \in Terms : SwitchActive(t) \/ SwitchFresh(t)

Next == Handler \/ \E t \in Terms : Call(t) \/ Reader(t)

Spec == Init /\ [][Next]_vars

(* The scheduler runs every terminal again and again (EveryTerminalRuns of  *)
(* module Kernel), so a reader that can go on does.                         *)
FairSpec == Spec /\ \A t \in Terms : WF_vars(Reader(t))

-----------------------------------------------------------------------------
Copying == {"copy", "prev", "cell"}
Reading == {"fetch", "scan"} \cup Copying

PCs == {"idle", "wait", "enter", "blank", "index", "last"} \cup Reading

TypeOK ==
  /\ keyboard_buf \in Buffer
  /\ keyboard_idx \in Byte /\ last_idx \in Byte
  /\ term_enter \in [Terms -> BOOLEAN]
  /\ input_buf \in [Terms -> Saved]
  /\ keyboard_index \in [Terms -> Byte]
  /\ keyboard_last_index \in [Terms -> Byte]
  /\ curr_terminal_number \in Terms
  /\ active \in [Terms -> BOOLEAN]
  /\ pc \in [Terms -> PCs]
  /\ nbytes \in [Terms -> Nat]
  /\ i \in [Terms -> Nat] /\ j \in [Terms -> Nat] /\ count \in [Terms -> {0, 1}]
  /\ buf \in [Terms -> Seq(Cells)]
  /\ got \in [Terms -> Seq(Cells)]

\* The line never outgrows its buffer, live or saved, whatever the readers of several
\* terminals reset between two keys (keyboard.c:393 tests for equality only).
IndexInBuffer ==
  /\ keyboard_idx <= MAX_BUF_SIZE
  /\ \A t \in Terms : keyboard_index[t] <= MAX_BUF_SIZE

\* Whatever is typed when, and whichever terminal's reader blanks the live buffer, no new
\* line lies inside a line, live or saved: Enter writes it behind the line and leaves the
\* index alone, and every later key overwrites it (keyboard.c:298).
NoNewLineInside ==
  /\ \A k \in 0 .. keyboard_idx - 1 : keyboard_buf[k] # NL
  /\ \A t \in Terms : \A k \in 0 .. keyboard_index[t] - 1 : input_buf[t][k] # NL

\* The copy loop of keyboard_read has no bound of its own but nbytes, and rereads a buffer
\* that keys, other readers and terminal switches change under it: it still never copies
\* from behind keyboard_buf.
CopyInBuffer == \A t \in Terms : i[t] <= MAX_BUF_SIZE + 1

\* Once Enter was pressed on a terminal, a program that reads there gets an answer, whatever
\* the line, the bytes it asks for and what the other terminals read.
ReadReturns == \A t \in Terms : pc[t] = "wait" /\ term_enter[t] ~> pc[t] = "idle"

\* last_idx, "the index of the last written character" (keyboard.c:441), is the end of
\* the line between two keys, so that a key echoes its own character and nothing else.
EchoInSync == (\A t \in Terms : pc[t] # "last") => last_idx = keyboard_idx

-----------------------------------------------------------------------------
(* Refinement: the text of a terminal is in the live buffer while it is     *)
(* displayed, else in the terminal; it is taken when the copy ends.         *)
Taken(t) == pc[t] \in {"enter", "blank", "index", "last"}

Text(b, n) == [k \in 1 .. n |-> b[k - 1]]

Line(t) == IF Taken(t) THEN <<>>
           ELSE IF t = disp THEN Text(keyboard_buf, keyboard_idx)
           ELSE Text(input_buf[t], keyboard_index[t])

Discipline == INSTANCE LineDiscipline WITH
  MaxLine <- MAX_BUF_SIZE,
  Chars   <- Chars \cup {SP},
  line    <- [t \in Terms |-> Line(t)],
  entered <- [t \in Terms |-> term_enter[t] /\ pc[t] # "enter"],
  asked   <- [t \in Terms |-> IF pc[t] \in {"wait"} \cup Reading THEN nbytes[t] ELSE 0]

\* Every terminal has a line of its own, and each read of its program takes what was
\* typed on it up to Enter: keyboard_handler, keyboard_read and the exchange of buffers in
\* switch_terminal together implement LineDiscipline.
LineSpec == Discipline!Spec
=============================================================================
