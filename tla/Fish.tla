-------------------------------- MODULE Fish --------------------------------
(***************************************************************************)
(* The program fish over the clock of Rtc: it reads two pictures from text *)
(* files (add_frames), registers every character of them with the blinker  *)
(* of blink.S, and lets the blinker run once for every rtc_read, while     *)
(* other processes read and set the same clock.                            *)
(*                                                                         *)
(* The list of the blinker is the sequence of its slots, head first.  An   *)
(* ioctl and a run of the tasklet are one step each: they touch only the   *)
(* program's own memory and the screen.                                    *)
(***************************************************************************)
EXTENDS Rtc, Text

CONSTANTS
  fish,              \* the process
  Pictures,          \* pairs of files: frame0.txt and frame1.txt
  COLS, ROWS,        \* the screen (80 and 25)
  OFFSET,            \* column of the pictures (40)
  WAIT,              \* rounds of each loop of main (100)
  LENGTH,            \* on_length and off_length of the pictures (15 and 15)
  MARK_ON, MARK_OFF, \* the same of the mark (7 and 6)
  MARK               \* location of the mark (6*80+60)

ASSUME FishAssumption ==
  /\ fish \in Procs
  /\ COLS \in Nat /\ ROWS \in Nat
  /\ OFFSET \in 1 .. COLS - 1 /\ MARK \in 1 .. COLS * ROWS - 1
  /\ {WAIT, LENGTH, MARK_ON, MARK_OFF} \subseteq Nat \ {0}

(* The mark is not at the corner of the pictures, their lines are no longer *)
(* than those of the screen, and the second picture has no "I" at the mark. *)
ASSUME PicturesAssumption ==
  /\ MARK # OFFSET
  /\ \A p \in Pictures :
       /\ p \in Seq(STRING) \X Seq(STRING)
       /\ \A f \in 1 .. 2 : \A k \in Starts(p[f]) : Len(LineAt(p[f], k)) <= COLS
       /\ \A r \in 0 .. ROWS - 1 : \A k \in 1 .. Len(Line(p[2], r)) :
            r * COLS + (k - 1) + OFFSET = MARK => Line(p[2], r)[k] # "I"

Locations == 0 .. COLS * ROWS - 1
Slots     == 1 .. COLS * ROWS

VARIABLES
  files,                        \* the two files
  at, c, eof, row, col,         \* locals of add_frames; 1 is frame0, 2 is frame1
  stage, n, due,                \* where main is; due: rtc_read has returned
  blink_array, list, screen,
  held                          \* history: interrupts since the picture changed

frames  == <<files, at, c, eof, row, col>>
blinker == <<blink_array, list, screen>>
fvars   == <<vars, frames, stage, n, due, blinker, held>>

Free == [location |-> 0, on_char |-> " ", off_char |-> " ", on_length |-> 0,
         off_length |-> 0, countdown |-> 0, status |-> 0]

-----------------------------------------------------------------------------
(* blink.S.  A slot whose location is 0 is free for mp1_malloc.             *)
FreeSlots == {s \in Slots : blink_array[s].location = 0}
mp1_malloc == CHOOSE s \in FreeSlots : \A t \in FreeSlots : s <= t

RTC_ADD(loc, on, off, on_length, off_length) ==
  \/ /\ loc \in Locations /\ FreeSlots # {}
     /\ blink_array' = [blink_array EXCEPT ![mp1_malloc] =
                          [location |-> loc, on_char |-> on, off_char |-> off,
                           on_length |-> on_length, off_length |-> off_length,
                           countdown |-> on_length, status |-> 1]]
     /\ list' = <<mp1_malloc>> \o list
     /\ screen' = [screen EXCEPT ![loc] = on]
  \/ (loc \notin Locations \/ FreeSlots = {}) /\ UNCHANGED blinker

Registered(loc) == \E k \in 1 .. Len(list) : blink_array[list[k]].location = loc

(* The first place of the list with a location.                             *)
mp1_find_helper(loc) ==
  CHOOSE k \in 1 .. Len(list) :
    /\ blink_array[list[k]].location = loc
    /\ \A j \in 1 .. k - 1 : blink_array[list[j]].location # loc

RTC_REMOVE(loc) ==
  /\ IF Registered(loc)
       THEN /\ list' = RemoveAt(list, mp1_find_helper(loc))
            /\ blink_array' = [blink_array EXCEPT ![list[mp1_find_helper(loc)]] = Free]
       ELSE UNCHANGED <<list, blink_array>>
  /\ UNCHANGED screen

(* The timing of one location is copied to another.  The character that is  *)
(* put on the screen is always the one for off: testb leaves the sign flag  *)
(* and the overflow flag clear, so cmovl never moves.                       *)
RTC_SYNC(from, to) ==
  \/ /\ Registered(from) /\ Registered(to)
     /\ LET s == blink_array[list[mp1_find_helper(from)]]
            d == list[mp1_find_helper(to)]
        IN  /\ blink_array' = [blink_array EXCEPT
                 ![d].on_length = s.on_length, ![d].off_length = s.off_length,
                 ![d].countdown = s.countdown, ![d].status = s.status]
            /\ screen' = [screen EXCEPT ![to] = blink_array[d].off_char]
     /\ UNCHANGED list
  \/ ~(Registered(from) /\ Registered(to)) /\ UNCHANGED blinker

Expires(b) == b.countdown - 1 <= 0

\* mutant: the countdown is not loaded again
TickedOnce(b) ==
  IF Expires(b) THEN [b EXCEPT !.countdown = 0, !.status = 1 - @]
                ELSE [b EXCEPT !.countdown = @ - 1]

(* One character, in a run of the tasklet.                                  *)
Ticked(b) ==
  IF Expires(b) THEN [b EXCEPT !.countdown = IF b.status = 1 THEN b.off_length ELSE b.on_length,
                               !.status = 1 - @]
                ELSE [b EXCEPT !.countdown = @ - 1]

Shows(b) == IF b.status = 1 THEN b.on_char ELSE b.off_char

(* The places of the list that the tasklet writes to a location, in order.  *)
Writes(loc) == {k \in 1 .. Len(list) : /\ blink_array[list[k]].location = loc
                                       /\ Expires(blink_array[list[k]])}

mp1_rtc_tasklet ==
  /\ blink_array' = [s \in Slots |-> IF \E k \in 1 .. Len(list) : list[k] = s
                                       THEN Ticked(blink_array[s]) ELSE blink_array[s]]
  /\ screen' = [loc \in Locations |-> IF Writes(loc) = {} THEN screen[loc]
                                        ELSE Shows(blink_array'[list[Max(Writes(loc))]])]
  /\ UNCHANGED list

-----------------------------------------------------------------------------
(* add_frames.  A file whose line has ended is not read again in this row;  *)
(* at its end the file has an endless run of empty lines.                   *)
\* mutant: a file is read on when its line has ended before the line of the other
ReadsAlways(f) == TRUE

Reads(f)    == c[f] # "NL"
Ended(f)    == Reads(f) /\ at[f] = Len(files[f])
NextChar(f) == IF Reads(f) /\ ~Ended(f) THEN files[f][at[f] + 1] ELSE "NL"
Visible(ch) == ch \notin {" ", "NL"}
Blank(ch)   == IF ch = "NL" THEN " " ELSE ch

(* What a row starts with: '0', so that the file is read, or not.           *)
NewRow(f) == IF eof'[f] THEN "NL" ELSE "0"

AddFrames ==
  /\ stage = "frames"
  /\ at' = [f \in 1 .. 2 |-> IF Reads(f) /\ ~Ended(f) THEN at[f] + 1 ELSE at[f]]
  /\ eof' = [f \in 1 .. 2 |-> eof[f] \/ Ended(f)]
  /\ \/ /\ NextChar(1) = "NL" /\ NextChar(2) = "NL"
        /\ c' = [f \in 1 .. 2 |-> NewRow(f)]
        /\ row' = row + 1 /\ col' = 0
        /\ stage' = IF eof'[1] /\ eof'[2] THEN "rate" ELSE "frames"
        /\ UNCHANGED blinker
     \/ /\ NextChar(1) # "NL" \/ NextChar(2) # "NL"
        /\ c' = [f \in 1 .. 2 |-> NextChar(f)]
        /\ IF Visible(NextChar(1)) \/ Visible(NextChar(2))
             THEN RTC_ADD(row * COLS + col + OFFSET, Blank(NextChar(1)), Blank(NextChar(2)), LENGTH, LENGTH)
             ELSE UNCHANGED blinker
        /\ col' = col + 1
        /\ UNCHANGED <<row, stage>>
  /\ UNCHANGED <<vars, files, n, due, held>>

(* main: rtc at 32 Hz, and four loops of WAIT rounds with an ioctl between. *)
Loops == {"picture", "mark", "synced", "last"}

SetRate ==
  /\ stage = "rate"
  /\ rtc_write(fish, 32)
  /\ stage' = "picture"
  /\ held' = 0
  /\ UNCHANGED <<frames, n, due, blinker>>

FishRead ==
  /\ stage \in Loops /\ n < WAIT /\ ~due
  /\ ReadCall(fish) \/ Read(fish)
  /\ due' = (pc[fish] = "clear")
  /\ UNCHANGED <<frames, stage, n, blinker, held>>

Toggles == \E k \in 1 .. Len(list) :
             blink_array[list[k]].location # MARK /\ Expires(blink_array[list[k]])

Tasklet ==
  /\ due
  /\ mp1_rtc_tasklet
  /\ due' = FALSE
  /\ n' = n + 1
  /\ held' = IF Toggles THEN 0 ELSE held
  /\ UNCHANGED <<vars, frames, stage>>

(* The loops are over one after the other; the rtc is closed after the last.*)
Ioctl ==
  /\ stage \in Loops /\ n = WAIT
  /\ \/ stage = "picture" /\ stage' = "mark" /\ RTC_ADD(MARK, "I", "M", MARK_ON, MARK_OFF)
     \/ stage = "mark" /\ stage' = "synced" /\ RTC_SYNC(OFFSET, MARK)
     \/ stage = "synced" /\ stage' = "last" /\ RTC_REMOVE(MARK)
     \/ stage = "last" /\ stage' = "over" /\ UNCHANGED blinker
  /\ n' = 0
  /\ UNCHANGED <<vars, frames, due, held>>

FishStep == AddFrames \/ SetRate \/ FishRead \/ Tasklet \/ Ioctl

(* The clock, the user and the other processes.                             *)
Others ==
  /\ \/ Pulse \/ toggle_freq \/ StopClock
     \/ \E p \in Procs \ {fish} :
          ReadCall(p) \/ Read(p) \/ \E f \in Frequencies : rtc_write(p, f)
  /\ UNCHANGED <<frames, stage, n, due, blinker, held>>

Interrupt ==
  /\ rtc_handler
  /\ held' = IF held < LENGTH THEN held + 1 ELSE held
  /\ UNCHANGED <<frames, stage, n, due, blinker>>

FishInit ==
  /\ Init
  /\ files \in Pictures
  /\ at = <<0, 0>> /\ c = <<"0", "0">> /\ eof = <<FALSE, FALSE>> /\ row = 0 /\ col = 0
  /\ stage = "frames" /\ n = 0 /\ due = FALSE
  /\ blink_array = [s \in Slots |-> Free] /\ list = <<>>
  /\ screen = [loc \in Locations |-> "?"]
  /\ held = 0

FishNext == FishStep \/ Others \/ Interrupt

(* A chip with a rate ticks, its interrupt is taken, and the scheduler runs *)
(* every terminal again and again: a program that can go on does.           *)
FishSpec ==
  /\ FishInit /\ [][FishNext]_fvars
  /\ WF_fvars(Others /\ Pulse) /\ WF_fvars(Interrupt) /\ WF_fvars(FishStep)
  /\ \A p \in Procs \ {fish} : WF_fvars(Others /\ Read(p))

-----------------------------------------------------------------------------
(* What a picture is: the character of a file in a row and a column.        *)
CharAt(f, r, k) == IF k < Len(Line(files[f], r)) THEN Line(files[f], r)[k + 1] ELSE " "

Places == {p \in (0 .. ROWS - 1) \X (0 .. COLS - 1) :
             /\ p[1] * COLS + p[2] + OFFSET \in Locations \ {MARK}
             /\ CharAt(1, p[1], p[2]) # " " \/ CharAt(2, p[1], p[2]) # " "}

ShowsFrame(f) == \A p \in Places : screen[p[1] * COLS + p[2] + OFFSET] = CharAt(f, p[1], p[2])

\* fish shows one of its pictures whole, never a mixture of both, wherever the files end
\* their lines and whichever has more of them; and once the mark follows the upper left
\* character, it never shows its first letter with the second picture.
FrameShown ==
  stage # "frames" =>
    /\ ShowsFrame(1) \/ ShowsFrame(2)
    /\ stage = "synced" /\ Registered(OFFSET) /\ screen[MARK] = "I" => ShowsFrame(1)

\* A picture stays for its time: the clock has interrupted LENGTH - 1 times at least
\* before the next one is shown (the first rtc_read may find a flag that was set before),
\* although other processes clear and wait for the same flag and set the same rate.
FrameHeld == [][Tasklet /\ Toggles => held + 1 >= LENGTH]_fvars
=============================================================================
