# A TLA+ model of the kernel in `student-distrib`

The repository is a small 32-bit x86 operating system: a kernel (`src/student-distrib`) with
a read-only file system, six processes, three terminals, a round-robin scheduler and ten
system calls, and a set of user programs (`src/syscalls`, `src/fish`). This directory holds
TLA+ modules that model the kernel and its programs, TLC configurations that check them on small instances, and
proofs of the most important invariants for all values of the parameters.

Paths below are relative to `src/student-distrib` unless they begin with `src/`.

## 1. The system

| part | code | state | operations |
|---|---|---|---|
| processes | `syscall.c`, `syscall_link.S` | `process_array`, `curr_process`, one PCB per slot (PPID, saved stack pointers, `fds`, `args`), one 8 KB kernel stack and one 4 MB page per slot, `tss.esp0` | `execute`, `halt`, `halt_from_exc`, `open`, `close`, `read`, `write`, `vidmap`, `getargs` |
| scheduler | `scheduler.c`, `pit.c` | `curr_term`, `ESP_SWITCH` in the PCBs | `switch_task`, 1 per PIT interrupt |
| terminals | `terminal.c` | `curr_terminal_number`, and for each terminal `active`, its current process, a saved keyboard buffer, a saved screen | `switch_terminal`, `terminal_read`, `terminal_write` |
| keyboard | `keyboard.c` | the live buffer with `keyboard_idx`, `last_idx`; `term_enter` per terminal; shift, ctrl, alt, caps; `lock` | `keyboard_handler`, `keyboard_read` |
| console | `lib.c` | video memory, `screen_x`, `screen_y`, the VGA cursor | `putc`, `vert_scroll`, `clear`, `update_cursor` and the `_nodisplay` versions |
| file system | `files.c`, `syscall.c` | the image (never written), descriptors, one directory cursor for all processes | `read_dentry_by_name`, `read_data`, `dir_readnew` |
| RTC | `rtc.c` | register A, `rtc_interrupt`, `rtc_lock` | `rtc_handler`, `rtc_read`, `rtc_write`, `toggle_freq` |
| interrupts | `i8259.c`, `idt.c`, `syscall_link.S` | masks, lines in service, the interrupt flag, frames on the kernel stacks | `enable_irq`, `send_eoi`, the linkage code, `iret` |
| paging | `paging.c` | one 4 MB page for the user program, one 4 KB page for video | `map`, `map_w_pt`, `map_video_w_pt` |
| memory and strings | `lib.c` | none | `memcpy`, `memmove`, `memset`, `strcpy`, ... |
| user programs | `src/syscalls` | their own pages | shell, `cat`, `grep`, `ls`, `hello`, `counter`, `pingpong`, `sigtest`, `testprint`, `syserr` |
| fish | `src/fish` | `blink_array` and its list, the rows and columns of two pictures | `add_frames`, `mp1_ioctl_add`, `_remove`, `_sync`, `mp1_rtc_tasklet` |

**How the parts interact.** There is one CPU. User code enters the kernel through `int 0x80`
and through exceptions, both *trap* gates: the interrupt flag stays on, so `halt`,
`keyboard_read`, `dir_readnew` and `rtc_read` can be interrupted between any two instructions.
Device interrupts come through interrupt gates; their handlers run with interrupts off and
signal the rest of the kernel through plain global variables. Two of them do not return where
they came from: `switch_task` continues on the stack of another process, and `Alt-F`*n* for a
terminal that is not open yet calls `execute` from within the keyboard handler. The keyboard
buffer and the screen exist once, live, and are exchanged with copies when terminals switch;
what is "current" is stored four times (`curr_process`, `current_pcb`,
`terminals[curr_term].current_process`, `curr_terminal_number`), and different functions use
different ones. Programs meet the kernel in the jump table of `syscall_link.S` only; `read` and `write`
pick the driver by the flags in the PCB of `current_pcb`, the other calls work on the PCB of
`curr_process`. A program ends by `halt` or by an exception, and its status is the value that
`execute` returns to the shell.

**What is hard.** Interleavings of handlers with system calls that read the same globals
twice; five places that each switch a part of (page, stack, saved pointer, current process);
a reader that waits in a loop for a flag which a handler sets for one terminal while another is
displayed; interrupts whose end nobody signals; boundaries (a full process table, a line of
128 characters, a name of 32, offsets at the end of a block, the last cell of the screen).
Nothing is persisted and nothing is sent over a network, so there is no crash recovery and no
unreliable channel; the only messages are the edges on the interrupt lines.

`PROJECT.json` lists the parts under `components` and, under `hazards`, each place where one of
these difficulties bites, with the property that would catch it.

## 2. The modules

| module | models | variables | steps |
|---|---|---|---|
| `Kernel` | processes, scheduler, terminals as owners of processes, exceptions, paging | process table, PCB chain, `page`, `esp0`, what lies on each kernel stack, the saved pointers, descriptor flags, the CPU | `Execute`, `ExecuteFull`, `ExecuteMissing`, `ExecuteNoexec`, ten steps of `halt`, `Exception`, `Tick`, `TickSpin`, `SwitchActive`, `SwitchFresh`, `SwitchWild`, `Open`, `OpenStd`, `Close`, `Vidmap`, `CallReturns` (a call that changes nothing of this state) |
| `Keyboard` | the line buffer | live and saved buffers, indices, `term_enter`, the local variables of `keyboard_read` | one step per key; `keyboard_read` one step per access to the buffer, its indices and the flag |
| `LineDiscipline` | *abstract*: what reading a line promises | a line and a flag per terminal | type, erase, enter, read |
| `Console` | the screens | live and saved consoles, cursor, typed text, what a write or Ctrl-1, 2, 3 has still to print | keys with their echo, Ctrl-L and Ctrl-1 to Ctrl-5, `terminal_write` and the text of Ctrl-1, 2, 3 per character, switches |
| `Files` | descriptors, lookup, directory reads | flags, positions and names of descriptors, the cursor, the locals of `dir_readnew` | `Open`, `OpenStd`, `Close`, `Execute`, `Read`, six steps of `dir_readnew` |
| `Syscalls` | the jump table, dispatch, results, arguments, exit status; the programs as clients | `args`, names and positions of descriptors, what each program keeps; and those of `Kernel` | one or two per system call and result, `Fault`, the interrupts of `Kernel` |
| `ReadData` | `read_data` and `file_read_setup` | the inode, the locals of `read_data`, the position | one step per turn of the loop |
| `Grep` | `cat`, and `do_one_file` of `grep`, over `ReadData` | the buffer and the locals of `do_one_file` | one step per read, per line and per line moved down |
| `Text` | the lines of a text | none | |
| `Rtc` | the clock and its readers | register A, flag, latch, `rtc_read` of every process | chip, handler, two steps of `rtc_read`, `rtc_write`, `toggle_freq` |
| `Fish` | fish and the blinker of `blink.S`, over `Rtc` | positions in the two files, `blink_array`, the list, the screen, where `main` is | one step per column of the pictures, per ioctl, per run of the tasklet, and those of `rtc_read` |
| `Irq` | controllers, handlers, locks, modifiers, saved registers | masks, in-service lines, interrupt flag, `lock`, frames on every kernel stack, whether a program has its registers | delivery, each handler in the pieces between which interrupts are on, devices, boot order |
| `Lib` | memory and string functions | ten bytes of memory, registers, direction flag, locals | one step per turn of a loop |

`MCSyscalls`, `MCKeyboard`, `MCFiles`, `MCFish`, `MCConsole` and `MCLib` give the constants and views that a
`.cfg` cannot write down. The modules `*Proofs` hold the theorems.

**Composition.** Three modules are compositions: `Syscalls` runs the programs on the processes,
terminals and interrupts of `Kernel` (each call is a step of `Kernel` joined with one of the
program), `Grep` reads through `ReadData`, and `Fish` waits for the clock of `Rtc` beside other
readers. The others meet at variables that two of them model from their own side:
`Console` takes the text that is typed from the line that `LineDiscipline` describes, which
`Keyboard` implements; `Keyboard` and `Rtc` take their fairness from `EveryTerminalRuns` of
`Kernel`; `Kernel` treats handlers as atomic, and `Irq` shows where that is true (everywhere but
in Ctrl-1, 2, 3). `Files` counts the bytes that `ReadData` copies; `Syscalls` keeps of a read only
whether it is at the end.

**Size of a step.** A function that runs with interrupts off is one action, with every call it
makes. A function that runs with interrupts on is split at each access to shared state. The
kernel is compiled without optimisation, so a C statement that reads or writes a global is one
load or store. In each handler `sti` is followed directly by the store that releases the lock;
the processor takes no interrupt between the two, so they are one step. During boot interrupts
are off until the first `iret`.

**What users may do.** The code has deviations (section 6) that a user reaches by unusual input.
So that the properties can say what holds apart from them, most modules have a parameter `Env`
(or `Envs`, a set of choices of which a behaviour takes one) that lists the unusual inputs a
run allows. A theorem holds for every `Env` unless section 4 names a hypothesis on it.

### 2.1 Kernel

A slot *p* stands for `process_array[p]`, its PCB, its kernel stack and its page. An *instance* is
one run of a program; `image[p]` is the instance that was loaded into page *p* last and
`parent` (a history variable) the instance that started another. `kstack[p]` is the frame
that lies at the top of the stack of *p*: who put it there (`syscall`, `tick`, `key`), whether
it came from user mode, and what is to go on. `esp_switch` and `esp_exec` are pointers to such
frames. Loading a pointer to a frame that has been overwritten makes the CPU `"wild"`, the search of
`switch_task` for an active terminal when there is none makes it `"spin"`. `halt` is ten steps
(`HaltPcb` ... `HaltReturn`), because interrupts are on.

`orderly` is a history variable: it is true until the first step after which the tables no longer fit
together. Those steps are (`Noted`): `execute` of a name that is no executable file; a tick, or the
opening of a terminal, within `halt`; Alt-F at the point of `halt` where it restarts a shell; the opening
of a terminal while a process of another one executes, or while the table is full. No action reads
`orderly`; the properties of section 4 that do not hold in general are stated up to that step.

### 2.2 Syscalls

A program is a record of places; at each place it may make the calls listed, and every call says
where the program goes on after -1, 0 or a positive result. So a program that ignores a result
and one that tests it differ in the model as in the source. `Handler` is the range check and the
jump table, `FlagsOf` the lookup through `current_pcb`. `syserr` is modelled with its lists of
calls and its count of wrong results: its eight tests are the repository's own statement of what
the calls return, and `ProgramsSucceed` says that they pass, on either terminal, with the other one
running. One test has an exception. `err_stdin_out` writes to descriptor 0 and expects -1, but
`keyboard_write` returns the difference of two indices that it reads one after the other, and -1 only if they
agree (`keyboard.c:132`): a key between its two reads, or a reader of another terminal that was preempted between its
two resets, gives another result, negative or positive. `WriteKeyboard` chooses between the results, the field `echo` remembers
that it was not -1, and `ProgramsSucceed` says that `err_stdin_out` then fails and no other
test does. The user's input is nondeterministic: a shell reads a line and executes any command of its
terminal in the behaviour's session, or none. `other` opens, closes, maps video, faults and ends with any status.

### 2.3 Keyboard and LineDiscipline

`LineDiscipline` says: the characters typed since the last line, less the erased ones, are what a
read of that terminal returns, cut to the size asked for, once Enter was pressed. `LineSpec` says
that `Keyboard` implements it, with the line mapped to the live or saved buffer up to its index.
The abstract read happens in the concrete step that has copied the last character.

`keyboard_read` is split at each access, because keys, switches and readers of other terminals can
come between any two: it is woken by the flag (`Woken`), fetches the index (`Fetch`), searches
back from it for a new line cell by cell (`Scan`, `ScanEnd`), tests and copies (`TestCell`, `TestPrev`,
`Copy`, `Terminate`), and resets flag, buffer and the two indices (`ClearEnter`, `Blank`, `ResetIdx`,
`ResetLast`). The index of the search may therefore be older than the buffer it looks at: Backspace and Enter
in between put new lines below it, and the search finds one. What does not depend on the user's patience is checked with all
of `Env`, in `keyboard_any_env`.

### 2.4 Console

Keys are one step each with their echo, also those that clear the screen. Ctrl-L empties the line; Ctrl-1 to Ctrl-5
keep it (`CtrlClear`, `CtrlFile`), so a program reads characters that are on no screen: `hidden` counts
them. All six clear the terminal that *executes*. Ctrl-1, 2 and 3 then write: `file` holds the
characters still to come, each with where it goes (`putc` to the displayed terminal,
`terminal_write` to the executing one) and whether interrupts are on before it. `Envs` lists keys and switches
after Enter (`ahead`), Backspace in the first column (`wrap`) and programs that write into a line
(`mixed`).

### 2.5 ReadData, Grep and Files

The bytes of a file are identified by their place, so `ReadsFile` can say that a read returned
exactly the bytes at the position, in order. `Grep` chooses the characters when they are read, among
a newline, a NUL, one that matches and one that does not; `got` is the text that was read, and
`GrepPrints` compares what grep wrote with `Matches`, the lines of the text with the pattern in
the order in which they start. What the stack held before is a
choice (`garbage`), because grep looks at a byte that nothing has written. `Files` leaves the content out and models which file a
descriptor denotes: the kernel stores the *name* and looks it up again at every read. Names of
32 characters fill a row of the array without a terminating zero; `StringAt` is what a reader of
the array then sees. The directory cursor is shared and `dir_readnew` runs with interrupts on:
`DirTest`, `DirEnd`, `DirCopy`, `DirLength`, and the increment, which is a load (`DirLoad`, into `reg`) and
a store (`DirStore`). A late store can undo a reset and increments of others, so the cursor may pass the end of the directory by any
number; all values there are tested alike, and `MaxCursor` stands for them.

### 2.6 Irq

Each terminal's process has a stack of handler frames. `Deliver` pushes one when the flag is on,
the line is not masked and no line of higher or equal priority is in service (`Passes`, from the
i8259's fully nested mode); `PitSwitch` continues on another stack. `KeyboardCode` ... `KeyboardEnd`
are the parts of the handler between which `terminal_write` turns interrupts on. `regs` says of
each process whether it has the registers it computed with; a frame restores them if its linkage
saved them (`Restored`).

### 2.7 Rtc and Fish

`Rtc` has any number of readers that clear and wait for one flag. `Fish` makes one of them the
program: `AddFrames` is one column of both files, read in step although their lines end in
different places; the blinker is its array of slots and its list, in the order in which
`mp1_rtc_tasklet` writes. `held` counts interrupts since the picture changed.

### 2.8 Lib

A behaviour is one call of one function, from some memory, arguments within the memory, and
either direction flag. `memset` and `memcpy` share their actions, because their loops are the
same but for the source of a byte.

## 3. Runs

| run | instance | shows |
|---|---|---|
| `kernel_terminals` | 3 slots, 3 terminals, 4 instances | timer and key interrupts anywhere but in `halt`: user code runs with its own page (`PageHoldsRunning`), on a free kernel stack (`KernelStackFree`), every process that waits has an intact context (`SavedContexts`), the slots in use are those of live programs, one each (`SlotsExact`), a halt returns to the parent (`ReturnsToParent`), and every terminal runs again (`EveryTerminalRuns`) |
| `kernel_any_env` | 2 slots, 3 terminals, 2 instances (the table fills before the terminals do), every `Env` | what holds even with interrupts in `halt`, missing programs and a full table (`TypeOK`, `CurrProcessAgrees`) |
| `kernel_missing` | 3 slots, 1 terminal | **violation**: after `execute` of a name that does not exist, a halt does not return to its parent |
| `syscalls` | 4 slots, 2 terminals, 3 descriptors, 4 instances, five sessions of commands | every program ends as its source says, the tests of `syserr` pass but for the case of section 2.2 (`ProgramsSucceed`); a program that reads its standard input reaches the keyboard although `current_pcb` may be stale (`StdinReached`); the shell reports how its own command ended (`ShellReports`); nobody touches the descriptors of another terminal's process (`FdIsolation`) |
| `keyboard` | lines of 2, two terminals, `Env = {}` | a user who waits for the read before he types on, and switches terminals in mid-line: `EchoInSync`, the refinement `LineSpec`, and `ReadReturns` |
| `keyboard_any_env` | lines of 2, two terminals, every `Env` | keys, switches, new terminals and other readers between any two accesses of `keyboard_read`: index and copy stay in the buffer (`IndexInBuffer`, `CopyInBuffer`) and a line has no new line inside (`NoNewLineInside`) |
| `readdata` | module `Grep`: blocks of 5 bytes, files up to 3 blocks, bad blocks included; for grep a buffer of 4 and texts up to 7 | a read returns the bytes of the file (`ReadsFile`, `PositionInFile`), grep stays in its buffer, reads all of the file and writes the lines with the pattern (`GrepPrints`), and a reader is told the end (`ReadersEnd`) |
| `files` | 2 processes, 4 directory entries, one with a long name | a read finds the file that was opened (`ReadsOpenedFile`), a listing that is alone is in order and complete (`ListsInOrder`, `ListsAll`), and two at the same time still come to the end (`EndIsTold`) |
| `rtc` | module `Fish`: fish and another reader, screens of 3 x 3, three pairs of pictures | readers are paced (`PacedByClock`), fish shows one picture whole (`FrameShown`) and long enough (`FrameHeld`), and somebody returns (`SomeReaderReturns`) |
| `console` | 2 x 2 cells, 2 terminals, a tame and an arbitrary user | with all keys that clear or write: the line stands on the screen as far as it was typed since, and the cursor behind it (`EchoShown`), the next character has a cell (`CursorOnScreen`), terminals do not draw on each other (`OwnScreenOnly`) |
| `irq` | 2 terminals, Ctrl or Alt held, a digit, stacks of 2 frames | `InServiceHandled`, `LockOwned`, `ModsFollowKeys`, a program has its registers unless a tick took them (`RegistersKept`), and key and clock interrupts are handled (`InterruptsHandled`) |
| `lib` | 10 bytes | `MemoryResult`, `StringResult` (with what they leave alone) |

**Bounds, and why they are enough.** Three terminals are those of the code; they are needed
because round robin with an inactive terminal between two active ones is a case of its own. Three
slots, instead of six, make the table full with one shell per terminal, and leave room for a
child of a child with one terminal; `MaxExecs` bounds the programs started, so that a slot is
reused at least once. In `syscalls` four slots hold two shells and two commands, so that a command of
one terminal runs while one of the other starts or ends; three descriptors are the two standard ones
and one to open, which `err_open_lots` exhausts; each session pairs commands that interfere. Lines of two characters have a first, a last and a refused character;
request sizes lie below and above them. `UINT8` only has to exceed the buffer, as 256 does. Blocks
of five bytes have a first, an inner and a last byte, and three of them give a first, a middle and
a last block; a buffer of four is shorter than a block and the texts longer than the buffer, so a
line is cut by the buffer, moved down and continued. The pictures of fish have rows of different
lengths and different numbers of rows, and 2 rounds per picture in loops of 5 let every loop end
within a picture. A screen of the console of 2 x 2 has the last column, the last row and the last cell, and scrolls
after four characters. Two frames per stack are one handler above another; with three
levels of priority a third is possible in the code and is beyond this bound. The modifiers are flags of
their own in the code, so one held at a time is enough. Ten bytes of memory hold two word boundaries and a range before,
between and behind them. `Requests`, `Chars` and the outputs are small for speed only; in `keyboard_any_env` there are no characters
but the space that Backspace in the first cell leaves and the new line, because its properties tell no others apart. Two texts for
Ctrl-1, 2 and 3 cover the four combinations of `putc` or `terminal_write` and interrupts on or off.

Two runs have a `VIEW`. In `console` and `keyboard_any_env` what the displayed terminal saved last is overwritten
before it is read again; in `keyboard_any_env` also no guard and no invariant reads the echo index
or the copied text. States that differ in nothing else are taken as one.

`CHECK_DEADLOCK FALSE` is set where the system may stop: in `kernel_any_env` and `kernel_missing`
(a wild or spinning CPU is the end of the modelled behaviour), in `readdata` (grep ends) and in
`lib` (a call returns).

**Fairness.**
* `Kernel`: `SF(Tick)`: the PIT never stops, and a tick that arrives while interrupts are off stays
  latched in the controller until they are on. `WF(HaltStep)`, `WF(Boot)`: kernel code goes on.
  No fairness for user programs.
* `Keyboard`: `WF(Reader(t))`: a reader that can go on does, because every terminal runs again
  (`EveryTerminalRuns`). No fairness for keys: `ReadReturns` says that a read returns *if*
  Enter was pressed on its terminal.
* `Fish`: `WF` of the chip while it has a rate, of the handler, of fish and of the other readers.
* `Irq`: `SF(Deliver)`: a latched request is delivered if it is deliverable again and again;
  `WF` of the handlers, of the timer, of boot and of the end of `terminal_write`. Devices are slower
  than handlers: a key arrives only when the last one was fetched.
* `Files`: `WF(InRead(p))`: a call of `dir_readnew` that was begun goes on. The listings themselves need none:
  `EndIsTold` is about a program that reads on.
* `Grep`: `WF(GrepNext)`: the kernel goes on, and the program reads until it is told the end.

Each property has a mutant in `PROJECT.json`: a definition with a plausible mistake, under which
TLC finds the property violated.

## 4. Proofs

Proved for every value of the constants, from the named assumptions of each module:
`ConstantsAssumption` (sizes are natural numbers, characters differ from the control codes, `Env` is a
set of known kinds), and in `Console` also `LineFits` (a line of `MAX_BUF_SIZE` characters fits on
a screen: 128 on 25 x 80). `Fish` has `PicturesAssumption`, all of which is true of `frame0.txt`,
`frame1.txt` and the numbers in `fish.c`: no line is longer than a row of the screen (24 characters of
80; a longer one would overlap the next row), the mark is not at the corner of the pictures, and the
second picture has no `I` where the mark is. TLC evaluates the assumptions in every run.

The theorems about the kernel hold for every `Env`, so with interrupts within `halt`, terminals opened at
any time and commands that do not exist. What such a step destroys cannot hold after it; the theorems
that depend on it are stated up to the first one, with the history variable `orderly` of section 2.1: an invariant
holds in every state with `orderly`, and an action property of every step from such a state. The code does
not prevent those steps (a user does not choose which terminal executes when a key arrives, and `halt` runs with
interrupts on): section 6 lists what they do, and `kernel_missing` shows one. `OrderlyUsers` says where the flag never falls: if
`Env` holds nothing but `open_std`, so that the theorems then hold without it.
`TypeCorrect`, `CurrProcessCorrect`, `StdinCorrect` and `CallsRefineKernel` need no flag.

Two theorems of `KeyboardProofs` have a hypothesis on `Env`, because what they say is false after the
inputs it excludes: `Turns` for `EchoCorrect` (nobody types between Enter and the read or switches terminals there) and `Env = {}` for
`LineRefinement`, as in the run. `ListsInOrder`, `ListsAll`, `EchoShown`, `CursorOnScreen` and the properties of `Irq` have
their condition in the property.

| theorem | says | invariant |
|---|---|---|
| `KernelProofs!TypeCorrect` | all indices are those of the tables, and an interrupted context has what it needs to go on | `TypeOK` is inductive, because `ContextsOK` is part of it: a frame of `halt` has its locals set |
| `KernelProofs!CurrProcessCorrect` | `CurrProcessAgrees`, with interrupts in `halt` too | `AgreeInv` adds the steps within `halt`: the two variables differ only between the two assignments, where `h_term` is the only place left out |
| `KernelProofs!TablesCorrect`, and from it `PageCorrect`, `StackCorrect`, `ContextsCorrect`, `SlotsCorrect` | `Spec => [](orderly => ...)` of the tables and of four safety properties of `kernel_terminals`; also that the CPU is not wild and does not spin | `SlotsInv`, see below |
| `KernelProofs!HaltCorrect`, `DescriptorsIsolated` | a step from a state with `orderly` satisfies `ReturnStep`, `FdsStep`; so `ReturnsToParent` and `FdIsolation` hold of a behaviour that stays orderly | `SlotsInv` |
| `KernelProofs!OrderlyUsers` | `orderly` is never lowered if `Env` is a subset of `{"open_std"}` | none needed beyond `TypeOK` |
| `KernelProofs!StdinCorrect` | `StdinReached`, for every `Env` | `StdinInv`: descriptor 0 of every slot that ever held a program is the keyboard, and `current_pcb` names a slot once the first shell runs |
| `KernelProofs!CallsRefineKernel` | `SysSpec => Spec`: the programs and their calls implement `Kernel`, so the theorems above hold of them | every call is a step of the kernel; one that only returned is `CallReturns` |
| `KernelProofs!CallsIsolated` | as `DescriptorsIsolated`, of every call of a program | from the two theorems |
| `KernelProofs!ReportsCorrect` | a step from a state with `orderly` satisfies `ReportStep`; so `ShellReports` | `SysInv`, see below |
| `KernelProofs!ProgramsCorrect` (`MAX_FILE >= 3`) | while `orderly`, `ProgramsSucceed`: the tests of `syserr` pass (but for `err_stdin_out` when its write did not return -1), `cat` finds the file of its argument and prints no other, only `sigtest` faults, for any number of slots, terminals, descriptors and programs | `SysInv` and `TrackInv`, see below |
| `KeyboardProofs!IndexStaysInBuffer`, `CopyStaysInBuffer`, `LinesHaveNoNewLine` | for every user: the index never passes the buffer although the handler tests for equality; the copy stays in it although keys, switches and other readers change it between its accesses; no line, live or saved, has a new line inside | the conjunction with `LastCellStops`: the cell behind the buffer ends the copy loop (`PastLast`: a loop that is past the last cell has seen the new line in it). No part is inductive alone |
| `KeyboardProofs!EchoCorrect` (`Turns`), `LineRefinement` (`Env = {}`) | what is echoed is what the buffer holds; `Keyboard` implements `LineDiscipline` | `LineInv`: `TurnInv` (only the displayed terminal has had Enter, and only its program copies), `EchoInv` (the two indices differ only between their two resets, and both are saved at a switch), `TextInv` (a line holds characters only, with the new line behind it once Enter was pressed), `ReadInv` (the copy loop has copied the beginning of the line) |
| `ReadDataProofs!WalkStaysInInode`, `ReadIsCorrect`, `PositionStaysInFile` | `read_data` stays in the inode and returns the bytes of the file | `Walk` (which block and byte the loop is at, as a function of the bytes copied), `Copied` (what is in the buffer), `Entered` and `Returned` (the call) |
| `FilesProofs!ReadFindsOpenedFile` | a read never returns bytes of another file, whatever the lengths of names | `RowsInv`: a row of the name array holds the opened name, or reads as no name |
| `FilesProofs!ListingInOrder`, `ListingComplete` | `ListsInOrder`; `ListsAll`, an action property | `TurnInv`: while programs take turns, one is within a listing (`OneLister`), the cursor is the number of entries it has seen (`CursorFollows`), and the entry it is about to return is the one it tested (`CopyFollows`) |
| `ReadDataProofs!ReadersCallRead`, `GrepReadsFile` | cat and grep implement `ReadData`'s `Spec` from the side of the caller; `GrepReadsAll`, the first part of `GrepPrints` | `GrepInv`: `BufferInv` (a kept rest leaves room, because a line that begins the buffer is never kept), `AskedInv` (a call asks for the room that is left), `GotInv` (what grep has got is the file up to the position, and an answer of 0 came at the end) |
| `ReadDataProofs!GrepCorrect` | `GrepPrints`, for every size of the buffer and of the blocks and every text | `GrepInv` and `PrintInv`, see below |
| `RtcProofs!ReadersArePaced`, `FishIsPaced` | an interrupt between two returns of `rtc_read` | `FlagIsNew`: a set flag means that a handler ran since every reader's last return |
| `RtcProofs!PictureHeld` | `FrameHeld`, an action property, for every picture, screen and length of the loops | `FishInv`: `ListInv` (the list of the blinker holds slots in use, each once, through every `RTC_ADD`, `RTC_SYNC` and `RTC_REMOVE`), `EvenInv` (all characters of the pictures have the same time left), `HeldInv` (every return of `rtc_read` since the picture changed, but the first, had an interrupt of its own) |
| `RtcProofs!FrameCorrect` | `FrameShown`: one picture whole, never a mixture, and the mark in step with it, for all files and screens | `ShowInv`: `TextsInv` (where `add_frames` is in the two files, relative to the line of its row), `PicInv` (the characters read so far have a slot each and nothing else has), `TimeInv` (the slots agree in countdown and status), `ScreenInv`, `MarkInv` |
| `ConsoleProofs!ConsolesStayConsoles`, `CursorStaysOnScreen` | every screen keeps its shape; the next character goes into a cell | `GoodInv` |
| `ConsoleProofs!ScreensAreSeparate` | `OwnScreenOnly`, an action property, for every user and every text of Ctrl-1, 2, 3; the keys that clear and these texts are its exceptions | `GoodInv` and the cases of `putc`, `clear` and the switch |
| `ConsoleProofs!EchoCorrect` | `EchoShown` | `EchoInv`, for `env = {}`: the displayed terminal is active, a program that writes has no line typed on its terminal, the cursor is shown, and on *every* terminal, displayed or not, the image is blank behind the position and what was typed of the line since a key cleared it (`Shown`) stands before it unless it was entered; `hidden` is at most the length of the line. The hidden terminals are needed for the switch back, and `LineFits` for scrolling: it must not push the first character out |
| `IrqProofs!Acknowledges`, `OneLockOwner`, `NoCodeLost`, `ProgramRegisters` | the four safety properties of `irq`, for any number of terminals and any depth of stacks | `IInv`: `CriticalInv` (a frame before its `send_eoi`, or of `rtc_handler` with `rtc_lock` set, is on top of the stack that executes and is not interrupted), `LockInv` (the same for `keyboard_handler` with the lock, until Ctrl-1, 2 or 3), `BootInv` (before the first program interrupts are off and nothing is in service), `ModsInv` (the modifiers agree with the keys once the code in the port is handled), `RegsInv` (the outermost frame of a terminal has the registers of its program, and a terminal that does not execute has such a frame) |
| `LibProofs!MemoryCorrect` | `memset`, `memcpy`, `memmove` equal a loop over bytes | `MemInv`: the bytes behind the registers are final, the others those of the call; the source that is still to be read is untouched because of the direction |
| `LibProofs!StringsCorrect` | `StringResult`: the copies, the padding, the order, the reverse and the numeral in every base, and that nothing outside the destination is written | `TextInv`: `StrInv` says how far each loop has come (`CopyOf`, `SamePrefix`; `Reversing`, both ends exchanged up to the indices; `Converting`, the digits written are those of the value divided so far, through the chain of quotients), `Outside` what stays |

**`SlotsInv`.** None of the kernel's safety properties is inductive, because each switch relies on what
four other functions left behind. `Together` has five parts: `RunInv`, what is true of the process
that runs, at each step of `halt`: which of `esp0`, `curr_process`, `current_process` and `page`
already name the parent; `TermInv`, every terminal with a shell has a live process, each its
own; `ChainInv`, a live process with a parent was started from the parent's stack, on which nothing
but the frame of that `execute` lies, and a parent waits for one child and is no terminal's
process; `CoverInv`, a live slot is of a terminal or of a waiting parent, and other stacks are
free, so that a reused slot starts empty; `ContextInv`, a terminal that waits has an interrupt frame on
its own stack. Each preservation proof is one lemma per step. Those that start a program share
`LaunchInv`; `Tick`, `halt`'s return and `Alt-F` to a new terminal are reduced to facts about the
slots and terminals other than the running ones (`Others`, `RestMakes`).

**`SysInv`.** `halt` hands its status to whoever `ChainInv` says waits; that the number is one the
shell understands needs that programs keep sound records (`Sane`: a program is at one of its own
places and `syserr` at a call that exists), which holds only of a program that still executes. So
`Going` collects the instances that will execute user code again, from the CPU and from all
kernel stacks, and `GoingStep` shows that no step of the kernel brings one back that has ended (under `Calm`, what a step that keeps `orderly` is not);
`ImagesDiffer` says that slots hold different instances, so that the end of one is not the end of
another. `FlowOK` is checked program by program.

**`TrackInv`.** That a program ends well depends on what its calls return, and that on the descriptors of
its slot, which other programs used before it and which the kernel finds through `current_pcb` or
through the stack pointer. `Tracks` says of every program that goes on where it has come to and what
is open there: `CatOK` and `LsOK`, that the descriptor they read is the file they named; `SyserrOK`, that
no test has failed, other than `err_stdin_out` after a write that did not return -1, that each test begins with the standard streams alone, and in `err_open_lots`
(`LotsOK`) exactly which descriptors its k-th call finds taken, while it fills the table and while it
empties it. The programs' own steps are lemmas over one call (`Outcome`), without any kernel.
`Did` ties the two levels: a call of `Syscalls` changes the slot of its caller only and is
an `Outcome` on it. This needs `PcbInv` (`read` and `write` use the caller's descriptors: `current_pcb` is
stale only in a shell, after `halt`), `WaitInv` with `Waiting` (a program that waits in a read is
not at a test, so it is moved once), `Streams` and `FilesOK`, and `ParentsInv` (the return from `halt`
moves a shell and nobody else). `MAX_FILE >= 3` leaves room for one file beside the two standard streams;
the code has 8.

**`PrintInv`.** A line may lie in the buffer in pieces of several reads, be moved down, or fill the
buffer without its newline, which then arrives alone. `PrintInv` names a place `P` in the text that is
done: `Found(P)`, what is printed is what the lines that start up to `P` give; `Rest`, the buffer holds
the characters behind `P`; and the character behind `P` starts a line (`Fresh`), or is the newline of a line
that filled the buffer (`FullLine`: because lines fit, nothing else can follow one), or is the end.
`SameFound` shows that what a read appends changes none of the lines that are done. The byte
behind the buffer must not be a newline: it is either what the stack held (`garbage`) or the NUL
that grep wrote there.

**`ShowInv`.** fish reads two files side by side whose lines end in different places, and either file may
end first. `TextsInv` says for each file where `add_frames` is: on the line of its row (`OnLine`), behind
the newline of that line (`BehindLine`), or at the end of the file, with all its lines in earlier rows
(`BehindText`); so the next character is the one the picture has in that row and column
(`NextIsChar`), and when both lines have ended the rest of the row is blank. Lines are told apart by the number of
newlines before them (`OneLine`). `PicInv` needs that places differ in their location (`Apart`) and that
`mp1_malloc` always finds a slot (`SlotFree`, by counting: location 0 is never used, so the pictures
take fewer slots than there are). The tasklet then writes each location once, except the one of the mark,
which a picture may cover too: the later one of the list wins (`MaxIs`), and both have the
same status once they are synchronised.

What the recursive definitions of the references compute (`Matches`, `Denotes`, `Pow2`) is shown
by induction over sets of numbers (`InductionBySet`, from the least element of a set); the library's
induction rule takes an operator and cannot be used.

Only model-checked: everything that must eventually happen (`EveryTerminalRuns`, `ReadReturns`,
`EndIsTold`, `ReadersEnd`, `SomeReaderReturns`, `InterruptsHandled`), because fairness and `ENABLED` are outside the
prover's reach. Every invariant and every action property of a passing run is proved, up to the first disorder where the
table says so.

## 5. What is not modelled

* Formatting (`printf`), wording of messages, the table from scan codes to characters: data. The text of
  Ctrl-1, 2, 3 is any text over a small alphabet, with where each character goes (`FileTexts`).
* On the screen: a key within the last three stores of `keyboard_read`, whose echo the line may lack or
  have twice (`Take` is one step; the stores are apart in `Keyboard`); the characters that `keyboard_write`
  prints when it does not fail; a terminal opened in the middle of a line, which starts with the
  text of the old one (`SwitchFresh` of `Console` wants an empty line, `Keyboard` has the case as
  `fresh_text`).
* The copy of the ELF image and its entry point, bits of page tables and descriptors, multiboot
  checks: constant data.
* The messages of exceptions on the screen. `puts` runs with interrupts on and `putc` is not atomic:
  a key between its test for the last cell and its step moves the position off the screen. No
  property of the screen holds during a message, and `Console` has none. That the message can be
  interrupted before the halt is in `Kernel` (`Exception`, `ExceptionHalt`).
* `memset_word`, `memset_dword`, `test_rtc`, `pit_handler`, `disable_irq` and `mp1_ioctl_find`: never
  called.
* Of the programs: what they print; `main` of grep, which lists the directory as `ls` does and calls
  `do_one_file` for each name; the handlers of `sigtest`, which the kernel never calls; the answers 1
  to 8 to `syserr`, which run one of the tests that 0 runs; fish without its frame files.
* `src/syscalls/ece391emulate.c` and its like stand in for the kernel on Linux.

## 6. Where code and comments disagree

One is a run with the result `violation`; see `findings` in `PROJECT.json`:

* `syscall.c:423`: `execute` of a program that does not exist calls `clear_process`, which frees every
  slot, although `syscall.c:600` says it is "used before executing shell in kernel.c"
  (`kernel_missing`).

The others are built into the model and left out of the properties by `orderly`, by `Env` or by a condition:

* `keyboard.c:326`: Ctrl-1, 2 and 3 turn interrupts on while `lock` is set, although `keyboard.c:189`
  says the lock "blocks intrrupts"; a key at that time is never acknowledged, and the controller holds the
  keyboard back from then on (`file_key` of `Irq`).
* `syscall.c:428`: a file that is no executable keeps the slot it was given (`noexec`).
* `syscall.c:408`: with a full table `execute` returns 0, so that the shell reports nothing, although
  `syscall.c:377` says -1.
* `syscall.c:411`: after a failed `execute` into a slot that was never used, `current_pcb` names a PCB
  without descriptors: until the next tick the shell's message and its read fail, and the shell ends
  with status 3.
* `syscall_link.S:97`: `pit_linkage` saves no registers, although `syscall_link.S:82` says "save all
  registers and pop all registers before calling interrupt handlers"; what `switch_task` and the
  compiler do not restore is lost to the interrupted program.
* `syscall.c:284`: a tick between two steps of `halt` leaves the wrong page mapped (`irq_halt`).
* `scheduler.c:30`: a tick while the last shell is inactive in `halt` loops with interrupts off.
  The index passes the last terminal before it is reset, and reads one entry behind the array,
  which is padding, and zero, in the committed build.
* `terminal.c:132`: opening a terminal while a process of another one runs saves the context in the
  wrong PCB (`fresh_bg`).
* `terminal.c:145`: with a full table the new terminal is shown without a shell (`fresh_full`).
* `syscall.c:292`: `halt` closes the descriptors of the parent.
* `syscall.c:73`: `current_pcb` is that of the child after a halt, until the next tick.
* `terminal.c:153`: a switch of terminals maps the video page of the running program by the terminal
  that is displayed.
* `keyboard.c:298`: a key after Enter overwrites the new line that ends it (`type_ahead`).
* `keyboard.c:115`: a key between the two resets of the indices is kept in one of them only.
* `keyboard.c:106`: a switch between Enter and the read hands the text of another terminal to the
  reader (`switch_pending`).
* `keyboard.c:95`: the search for an earlier new line uses an index that may be older than the buffer, and
  finds one that keys typed meanwhile have put there; the read then returns a part of the line.
* `keyboard.c:132`: `keyboard_write` fails only if two indices agree, which it reads one after the other; otherwise it
  returns their difference, of either sign.
* `terminal.c:130`: a new terminal starts with the text of the old one in its buffer (`fresh_text`).
* `files.c:289`: a read at an offset of exactly one block starts in the first block again, so `cat`
  repeats the first block of a file that is longer than 4096 bytes.
* `syscall.c:189`: a name of 32 characters is copied without room for its end; the file opens but
  cannot be read, and in the last descriptor the copy reaches the low byte of ESP0 (`long_name`).
* `files.c:138`: two programs that list the directory share one cursor (`two_listers`).
* `files.c:165`: the increment of that cursor is a load and a store with interrupts on; two listers lose
  increments, and a late store after a reset puts the cursor back, by any number past the end.
* `rtc.c:86`: `rtc_read` returns at once if an interrupt came before the call.
* `rtc.c:204`: `toggle_freq` at rate 0 borrows from the divider (`toggle`).
* `keyboard.c:463`: Backspace in the first column can leave the position behind the last one (`wrap`).
* `lib.c:24`: Ctrl-L and Ctrl-1 to Ctrl-5 clear the screen of the terminal that executes, displayed or not.
* `keyboard.c:377`: Ctrl-1 to Ctrl-5 clear the screen but keep the line, so a program reads characters that
  the user no longer sees.
* `lib.c:589`: `memmove` leaves the direction flag set; it is never called, and the other functions
  clear it themselves.
* `src/syscalls/ece391grep.c:33`: when a read has filled the buffer, grep tests the byte behind it,
  which nothing has written; a newline there cuts a line in two. NULs cut a line, and a line longer
  than the buffer is taken as several.
* `src/fish/blink.S:282`: `RTC_SYNC` draws the off character whatever the status; in `main` the status is
  off at that time.
* `idt.c:112`: an exception writes its message to the terminal that is displayed.

## 7. Plan

Done: `Kernel`, then the buffers (`Keyboard`, `LineDiscipline`), the file system (`ReadData`, `Files`),
`Rtc`, `Console`, `Irq`, `Lib`, each with its proofs where listed; then the dispatch of system calls
and the programs as their clients (`Syscalls`, `Grep`, `Fish`) and the registers (`Irq`).

Then the proofs: the tables of the kernel and what follows from them, the echo and the refinement of
the line discipline, listings of the directory, the screens, the interrupts, the system calls
over the kernel, how the programs end, the string functions, what
grep prints and what fish shows.

Last, what runs with interrupts on was split further, access by access (`keyboard_read`, the directory cursor, the
texts of Ctrl-1, 2, 3), and the theorems about the kernel were freed of their hypothesis on `Env`.

Next: `printf` against a reference.
