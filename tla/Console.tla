------------------------------ MODULE Console -------------------------------
(***************************************************************************)
(* The screen: putc, vert_scroll, find_last_char, update_cursor and clear  *)
(* of lib.c, terminal_write and the exchange of screens in switch_terminal *)
(* of terminal.c, and what keyboard_handler does to the screen.            *)
(*                                                                         *)
(* A console is an array of cells and the position of the next character.  *)
(* The terminal that is displayed has video memory, screen_x and screen_y; *)
(* the others have the fields screen, x and y of their terminal_t.  The    *)
(* functions with and without "_nodisplay" do the same to either.          *)
(*                                                                         *)
(* keyboard_handler runs with interrupts off and is one step.              *)
(* terminal_write runs with interrupts off too: it is one step for each    *)
(* character, and nothing else happens until it is done.  The keys that    *)
(* show files, Ctrl-1, 2 and 3, call terminal_write from the handler: it   *)
(* turns interrupts on there, and the clock can come in between, while the *)
(* lock of keyboard.c keeps other keys out.  The text that is typed is     *)
(* that of module LineDiscipline, which module Keyboard implements.        *)
(***************************************************************************)
EXTENDS Integers, Sequences

CONSTANTS
  NUM_ROWS, NUM_COLS,  \* 25 and 80 in the code
  MAX_BUF_SIZE,        \* characters of a line
  Terms,               \* terminals, 0 is the one that is displayed first
  Chars,               \* characters that keys produce
  Outputs,             \* strings that programs write
  FileTexts,           \* what Ctrl-1, 2 and 3 write, see FileChars
  Envs                 \* sets of EnvKinds: what users and programs may do

(***************************************************************************)
(* "ahead"   keys and Alt-F after Enter and before the program has read    *)
(* "wrap"    Backspace in the first column                                 *)
(* "mixed"   a program writes while the user types on its terminal         *)
(***************************************************************************)
EnvKinds == {"ahead", "wrap", "mixed"}

NL  == "newline"
NUL == "nul"
SP  == "space"

Cells == Chars \cup {NUL, SP}

(* A character that the handler writes for Ctrl-1, 2 or 3: with putc to the *)
(* screen (direct) or with terminal_write; on says that interrupts are on   *)
(* before it, because a terminal_write has ended.                           *)
FileChars == [char : Cells \cup {NL}, direct : BOOLEAN, on : BOOLEAN]

ASSUME ConstantsAssumption ==
  /\ NUM_ROWS \in Nat \ {0} /\ NUM_COLS \in Nat \ {0, 1}
  /\ MAX_BUF_SIZE \in Nat
  /\ 0 \in Terms
  /\ NL \notin Chars /\ NUL \notin Chars
  /\ Outputs \subseteq Seq(Chars \cup {NL, SP})
  /\ FileTexts \subseteq Seq(FileChars)
  /\ Envs \subseteq SUBSET EnvKinds

(* A line that is typed fits on the screen (128 characters of 2000), also   *)
(* when it scrolls: the corner stays empty then, and with it one cell of    *)
(* every row.                                                               *)
ASSUME LineFits == MAX_BUF_SIZE <= (NUM_ROWS - 1) * (NUM_COLS - 1) + 1

Positions == 0 .. NUM_ROWS * NUM_COLS - 1
\* Backspace can leave the position behind the last column
Consoles  == [cells : [Positions -> Cells], x : 0 .. NUM_COLS, y : 0 .. NUM_ROWS - 1]

VARIABLES
  env,           \* one of Envs, chosen at the start
  screen,        \* video_mem, screen_x, screen_y
  saved,         \* screen, x, y of terminals[t]
  cursor,        \* the cursor of the VGA
  curr_terminal_number, curr_term, active,
  line, entered, \* text typed on a terminal, and whether Enter was pressed
  hidden,        \* how many characters of it a key has cleared from the screen
  out,           \* what terminal_write has still to write
  file           \* what the handler of Ctrl-1, 2 or 3 has still to write, by the
                 \* terminal whose process it interrupted

termVars == <<curr_terminal_number, curr_term, active>>
lineVars == <<line, entered, hidden>>
vars == <<env, screen, saved, cursor, termVars, lineVars, out, file>>

disp == curr_terminal_number

-----------------------------------------------------------------------------
(* lib.c.                                                                   *)

Blank == [cells |-> [p \in Positions |-> NUL], x |-> 0, y |-> 0]

Position(k) == NUM_COLS * k.y + k.x

Corner(k) == k.x = NUM_COLS - 1 /\ k.y = NUM_ROWS - 1

(* The rows move up by one; the cursor goes to the start of the last row.   *)
vert_scroll(k) ==
  [cells |-> [p \in Positions |-> IF p + NUM_COLS \in Positions THEN k.cells[p + NUM_COLS]
                                  ELSE NUL],
   x |-> 0, y |-> NUM_ROWS - 1]

NewLine(k) ==
  IF k.y = NUM_ROWS - 1 THEN vert_scroll(k) ELSE [k EXCEPT !.y = @ + 1, !.x = 0]

Written(k, c) ==
  [k EXCEPT !.cells = [p \in Positions |-> IF p = Position(k) THEN c ELSE @[p]]]

(* The position after a character that did not fill the screen.             *)
\* mutant: the column does not wrap
AdvanceNoWrap(k) == [k EXCEPT !.x = @ + 1]

Advance(k) ==
  LET col == (k.x + 1) % NUM_COLS IN
    [k EXCEPT !.x = col, !.y = IF col = 0 THEN @ + 1 ELSE @]

putc(k, c) ==
  IF c = NL THEN NewLine(k)
  ELSE IF Corner(k) THEN vert_scroll(Written(k, c)) ELSE Advance(Written(k, c))

(* The columns of a row before its first empty cell: find_last_char(row)+1. *)
RowLength(k, row, n) ==
  /\ n \in 0 .. NUM_COLS
  /\ \A c \in 0 .. n - 1 : k.cells[NUM_COLS * row + c] # NUL
  /\ n < NUM_COLS => k.cells[NUM_COLS * row + n] = NUL

(* The console at which Backspace erases a character: one column back, or   *)
(* behind the text of the row above.                                        *)
ErasedAt(k, e) ==
  IF k.x = 0 /\ k.y # 0
  THEN \E n \in 1 .. NUM_COLS : RowLength(k, k.y - 1, n) /\ e = [k EXCEPT !.x = n, !.y = @ - 1]
  ELSE e = [k EXCEPT !.x = @ - 1]

-----------------------------------------------------------------------------
(* keyboard_handler.                                                        *)

(* No terminal_write, and no handler that holds the lock.                   *)
Idle == out = <<>> /\ \A t \in Terms : file[t] = <<>>

MayType == Idle /\ ("ahead" \in env \/ ~entered[disp])

(* The screen changes, and update_cursor.                                   *)
Show(k) == screen' = k /\ cursor' = Position(k)

(* A key with a character.  In the last cell the screen scrolls before the  *)
(* character is echoed.                                                     *)
KeyEcho(c) == putc(IF Corner(screen) THEN vert_scroll(screen) ELSE screen, c)

Type(c) ==
  /\ Len(line[disp]) < MAX_BUF_SIZE
  /\ line' = [line EXCEPT ![disp] = Append(@, c)]
  /\ Show(KeyEcho(c))
  /\ UNCHANGED <<env, saved, termVars, entered, hidden, out, file>>

Key(c) == MayType /\ Type(c)

Enter ==
  /\ MayType
  /\ entered' = [entered EXCEPT ![disp] = TRUE]
  /\ Show(NewLine(screen))
  /\ UNCHANGED <<env, saved, termVars, line, hidden, out, file>>

AtOrigin == screen.x + screen.y = 0

(* Backspace: a 0 is written over the character, and the cursor stays.      *)
\* mutant: the cursor is not put back
EraseAdvances(e) == putc(e, NUL)

Erase(e) == [putc(e, NUL) EXCEPT !.x = e.x, !.y = e.y]

Backspace ==
  /\ MayType /\ ~AtOrigin /\ line[disp] # <<>>
  /\ "wrap" \in env \/ screen.x # 0
  /\ \E n \in 0 .. NUM_COLS, m \in 0 .. NUM_ROWS - 1 :
       LET e == [screen EXCEPT !.x = n, !.y = m] IN ErasedAt(screen, e) /\ Show(Erase(e))
  /\ line' = [line EXCEPT ![disp] = SubSeq(@, 1, Len(@) - 1)]
  /\ hidden' = [hidden EXCEPT ![disp] = IF @ < Len(line[disp]) THEN @ ELSE Len(line[disp]) - 1]
  /\ UNCHANGED <<env, saved, termVars, entered, out, file>>

(* The row above is empty: only the position moves.                         *)
BackspaceEmptyRow ==
  /\ MayType /\ ~AtOrigin /\ line[disp] # <<>>
  /\ "wrap" \in env /\ screen.x = 0 /\ RowLength(screen, screen.y - 1, 0)
  /\ screen' = [screen EXCEPT !.y = @ - 1]
  /\ UNCHANGED <<env, saved, cursor, termVars, lineVars, out, file>>

(* Nothing was typed: the cursor is set again.                              *)
BackspaceEmptyLine ==
  /\ MayType /\ ~AtOrigin /\ line[disp] = <<>>
  /\ Show(screen)
  /\ UNCHANGED <<env, saved, termVars, lineVars, out, file>>

(* In the first cell Backspace is taken for a space.                        *)
BackspaceAtOrigin == MayType /\ AtOrigin /\ Type(SP)

(* clear empties the console of the terminal that executes, displayed or    *)
(* not, and does not move the cursor.                                       *)
clear ==
  /\ IF curr_term # disp
     THEN saved' = [saved EXCEPT ![curr_term] = Blank] /\ UNCHANGED screen
     ELSE screen' = Blank /\ UNCHANGED saved
  /\ UNCHANGED cursor

Hide(T) == [t \in Terms |-> IF t \in T THEN Len(line'[t]) ELSE hidden[t]]

(* Ctrl-L also empties the line.                                            *)
CtrlL ==
  /\ MayType
  /\ clear
  /\ line' = [line EXCEPT ![disp] = <<>>]
  /\ hidden' = Hide({disp, curr_term})
  /\ UNCHANGED <<env, termVars, entered, out, file>>

(* Ctrl-4 and Ctrl-5, and Ctrl-2 and Ctrl-3 when there is no such file, keep *)
(* the line that they clear from the screen.                                *)
CtrlClear ==
  /\ MayType
  /\ clear
  /\ UNCHANGED <<env, termVars, line, entered, out, file>>
  /\ hidden' = Hide({curr_term})

(* Ctrl-1, 2 and 3 go on to show files.                                     *)
CtrlFile ==
  /\ MayType
  /\ clear
  /\ \E f \in FileTexts : file' = [file EXCEPT ![curr_term] = f]
  /\ UNCHANGED <<env, termVars, line, entered, out>>
  /\ hidden' = Hide({disp, curr_term})

-----------------------------------------------------------------------------
(* switch_terminal.                                                         *)

MaySwitch == Idle /\ ("ahead" \in env \/ ~entered[disp])

\* mutant: the cells without the position
SaveCells == [saved EXCEPT ![disp].cells = screen.cells]

save_terminal_state == [saved EXCEPT ![disp] = screen]

SwitchActive(newt) ==
  /\ MaySwitch
  /\ newt # disp /\ active[newt]
  /\ saved' = save_terminal_state
  /\ Show(saved[newt])
  /\ curr_terminal_number' = newt
  /\ UNCHANGED <<env, curr_term, active, lineVars, out, file>>

(* A terminal without a shell executes from now on, and clear empties the   *)
(* screen.                                                                  *)
SwitchFresh(newt) ==
  /\ MaySwitch /\ line[disp] = <<>>
  /\ newt # disp /\ ~active[newt]
  /\ saved' = save_terminal_state
  /\ screen' = Blank
  /\ curr_terminal_number' = newt
  /\ curr_term' = newt
  /\ active' = [active EXCEPT ![newt] = TRUE]
  /\ UNCHANGED <<env, cursor, lineVars, out, file>>

-----------------------------------------------------------------------------
(* Programs.  switch_task lets the process of another terminal execute,     *)
(* also in the middle of Ctrl-1, 2 or 3 once interrupts are on.             *)
Tick(t) ==
  /\ out = <<>>
  /\ file[curr_term] # <<>> => Head(file[curr_term]).on
  /\ active[t] /\ t # curr_term
  /\ curr_term' = t
  /\ UNCHANGED <<env, screen, saved, cursor, curr_terminal_number, active, lineVars, out, file>>

(* The process of the terminal that executes runs, not the handler above it. *)
Runs == out = <<>> /\ file[curr_term] = <<>>

(* keyboard_read takes the line, and empties the live buffer.               *)
Take ==
  /\ Runs
  /\ entered[curr_term]
  /\ entered' = [entered EXCEPT ![curr_term] = FALSE]
  /\ line' = [line EXCEPT ![disp] = <<>>]
  /\ hidden' = [hidden EXCEPT ![disp] = 0]
  /\ UNCHANGED <<env, screen, saved, cursor, termVars, out, file>>

Write(s) ==
  /\ Runs
  /\ "mixed" \in env \/ line[curr_term] = <<>>
  /\ out' = s
  /\ UNCHANGED <<env, screen, saved, cursor, termVars, lineVars, file>>

(* A character of terminal_write goes to the screen, or to the saved        *)
(* console of the terminal that executes.                                   *)
OnScreen == curr_term = disp

Emit(c) ==
  \/ OnScreen /\ Show(putc(screen, c)) /\ UNCHANGED saved
  \/ /\ ~OnScreen
     /\ saved' = [saved EXCEPT ![curr_term] = putc(@, c)]
     /\ UNCHANGED <<screen, cursor>>

WriteChar ==
  /\ out # <<>>
  /\ Emit(Head(out))
  /\ out' = Tail(out)
  /\ UNCHANGED <<env, termVars, lineVars, file>>

(* The handler of Ctrl-1, 2 or 3 goes on.                                   *)
FileChar ==
  /\ out = <<>> /\ file[curr_term] # <<>>
  /\ LET f == Head(file[curr_term]) IN
       \/ f.direct /\ Show(putc(screen, f.char)) /\ UNCHANGED saved
       \/ ~f.direct /\ Emit(f.char)
  /\ file' = [file EXCEPT ![curr_term] = Tail(@)]
  /\ UNCHANGED <<env, termVars, lineVars, out>>

-----------------------------------------------------------------------------
(* entry of kernel.c clears the screen that the boot loader left.           *)
Init ==
  /\ env \in Envs
  /\ screen = Blank
  /\ saved = [t \in Terms |-> Blank]
  /\ cursor \in Positions
  /\ curr_terminal_number = 0
  /\ curr_term = 0
  /\ active = [t \in Terms |-> t = 0]
  /\ line = [t \in Terms |-> <<>>]
  /\ entered = [t \in Terms |-> FALSE]
  /\ hidden = [t \in Terms |-> 0]
  /\ out = <<>>
  /\ file = [t \in Terms |-> <<>>]

Handler ==
  \/ \E c \in Chars : Key(c)
  \/ Enter \/ CtrlL \/ CtrlClear \/ CtrlFile
  \/ Backspace \/ BackspaceEmptyRow \/ BackspaceEmptyLine \/ BackspaceAtOrigin
  \/ \E t \in Terms : SwitchActive(t) \/ SwitchFresh(t)

Next ==
  \/ Handler
  \/ \E t \in Terms : Tick(t)
  \/ Take \/ WriteChar \/ FileChar
  \/ \E s \in Outputs : Write(s)

Spec == Init /\ [][Next]_vars

-----------------------------------------------------------------------------
TypeOK ==
  /\ env \in Envs
  /\ screen \in Consoles
  /\ saved \in [Terms -> Consoles]
  /\ cursor \in Nat
  /\ curr_terminal_number \in Terms /\ curr_term \in Terms
  /\ active \in [Terms -> BOOLEAN]
  /\ line \in [Terms -> Seq(Chars \cup {SP})]
  /\ entered \in [Terms -> BOOLEAN]
  /\ hidden \in [Terms -> Nat]
  /\ out \in Seq(Chars \cup {NL, SP})
  /\ file \in [Terms -> Seq(FileChars)]

On(k) == k.x < NUM_COLS /\ k.y < NUM_ROWS

\* The next character of every terminal, displayed or not, goes into a cell of its screen,
\* whatever putc, vert_scroll, handle_backspace and the exchange of screens did before:
\* behind screen lie other fields of terminal_t.  Backspace in the first column is the
\* exception: it goes behind the text of the row above, also when that is full.
CursorOnScreen == "wrap" \notin env => On(screen) /\ \A t \in Terms : On(saved[t])

(* The characters of s stand on a console before its position: at[i] is the *)
(* cell of the i-th, and there are only empty cells between and behind them.*)
StandsAt(k, s, at) ==
  /\ \A i \in 1 .. Len(s) : at[i] < Position(k) /\ k.cells[at[i]] = s[i]
  /\ \A i, j \in 1 .. Len(s) : i < j => at[i] < at[j]
  /\ s # <<>> => \A p \in at[1] .. Position(k) - 1 :
                   k.cells[p] # NUL => \E i \in 1 .. Len(s) : at[i] = p

Stands(k, s) == \E at \in [1 .. Len(s) -> Positions] : StandsAt(k, s, at)

(* The part of a line that was typed since a key cleared its terminal.      *)
Shown(t) == SubSeq(line[t], hidden[t] + 1, Len(line[t]))

\* The line that the program will read stands before the cursor on the screen, and the
\* cursor blinks behind it (lib.c:273): key echo, scrolling and Backspace keep screen,
\* cursor and keyboard_buf together, unless Backspace is pressed in the first column, the
\* program writes into the line, or keys come after Enter.  Ctrl-1 to Ctrl-5 clear the
\* screen and keep the line: what stands there is what was typed since.  clear leaves the
\* cursor where it was.
EchoShown ==
  env = {} /\ ~entered[disp] =>
    Stands(screen, Shown(disp)) /\ (screen = Blank \/ cursor = Position(screen))

(* What a terminal shows, or will show when it is displayed.                *)
Image(t) == IF t = disp THEN screen ELSE saved[t]

\* Each terminal has a screen of its own: a program's output changes its own terminal only,
\* keys change the displayed terminal only, and switching changes none.  The exceptions are
\* the keys that call clear, Ctrl-L and Ctrl-1 to Ctrl-5, which empties the terminal that
\* executes, and the text of Ctrl-1, 2 and 3, part of which goes to the displayed terminal
\* and part, by terminal_write, to the one that executes.
OwnScreenOnly ==
  [][\A t \in Terms : active[t] /\ Image(t)' # Image(t) =>
        /\ disp' = disp
        /\ IF out # <<>> THEN t = curr_term
           ELSE IF file[curr_term] # <<>>
                THEN t = IF Head(file[curr_term]).direct THEN disp ELSE curr_term
           ELSE t = disp \/ (t = curr_term /\ Image(t)' = Blank)]_vars
=============================================================================
