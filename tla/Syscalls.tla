------------------------------ MODULE Syscalls ------------------------------
(***************************************************************************)
(* The system calls as programs see them: the number in eax and the jump   *)
(* table of syscall_link.S, the dispatch of read and write through the     *)
(* descriptor's flags, arguments, names and positions of open files, and   *)
(* the values that calls return.  The programs are those of syscalls/,     *)
(* each as the calls it makes and what it does with their results; they    *)
(* run on the processes, terminals and interrupts of module Kernel.        *)
(*                                                                         *)
(* A call that does not wait is one step.  A result is -1, 0 or another    *)
(* number, and 1 stands for every count of bytes.  Buffers, text and the   *)
(* data of files are left out; what a program prints is kept only as the   *)
(* name of the file it came from.  No command names a file that does not   *)
(* exist: what that does to the process table is Kernel's ExecuteMissing.  *)
(***************************************************************************)
EXTENDS Kernel, Sequences

CONSTANT Sessions   \* what the user of one behaviour types on each terminal: sets of [prog, arg]

Commands == UNION {s[t] : s \in Sessions, t \in Terms}

VARIABLES
  args,       \* PCB field args
  file_name,  \* PCB field file_name
  position,   \* file_position of a descriptor: 0, or 1 at the end of the file
  user,       \* what the program of an instance keeps in its own page
  session     \* the commands of this behaviour

sysVars == <<args, file_name, position>>
allVars == <<vars, sysVars, user, session>>

NoName == ""   \* the empty string

(* The directory of the file system.  "helloo", "shel" and NoName are names *)
(* syserr opens that are not in it.                                         *)
Directory == [n \in {".", "rtc", "frame0.txt"} |->
                CASE n = "." -> "DIR" [] n = "rtc" -> "RTC" [] OTHER -> "FILE"]

Names == DOMAIN Directory \cup {"helloo", "shel", NoName}

-----------------------------------------------------------------------------
(* Calls.  fd is the descriptor of a call, or Opened for the one that open  *)
(* gave the program; name is what it opens or executes, or "(buf)" for what *)
(* getargs wrote; err, zero and some are the places where the program may   *)
(* go on after -1, 0 and a positive result.                                 *)
Sysnum == [halt |-> 1, execute |-> 2, read |-> 3, write |-> 4, open |-> 5, close |-> 6,
           getargs |-> 7, vidmap |-> 8, set_handler |-> 9, sigreturn |-> 10]

jump_table == <<"halt", "execute", "read", "write", "open", "close", "getargs",
                "vidmap", "set_handler", "sigreturn">>

NEG_FD == -1073741823
BIG_FD == 1073741823
Opened == -3

Call(sys, fd, name, err, zero, some) ==
  [sys |-> sys, fd |-> fd, name |-> name, arg |-> NoName, err |-> err, zero |-> zero, some |-> some]

(* ece391_fdputs, which ignores the result.                                 *)
Fdputs(next) == {Call(Sysnum.write, 1, NoName, next, next, next)}

Read(fd, err, zero, some) == {Call(Sysnum.read, fd, NoName, {err}, zero, some)}

Execute_(next) ==
  {[Call(Sysnum.execute, 0, c.prog, next, next, next) EXCEPT !.arg = c.arg] : c \in Commands}

-----------------------------------------------------------------------------
(* The programs.  A program starts at "start"; "exit0" to "exit3" return    *)
(* from main, and "fault" is an access that no page allows.  Messages whose *)
(* result a program ignores are kept where it starts, asks or fails to open *)
(* a file; the others are left out.  syserr is answered 0, for all tests,   *)
(* or with something that is not the number of a test.                      *)

shell == [start |-> Fdputs({"read"}),
          read  |-> Read(0, "exit3", {"start", "exec"}, {"start", "exec"}),
          exec  |-> Execute_({"start"})]

cat == [start |-> {Call(Sysnum.getargs, 0, NoName, {"exit3"}, {"open"}, {"open"})},
        open  |-> {Call(Sysnum.open, 0, "(buf)", {"none"}, {"read"}, {"read"})},
        none  |-> Fdputs({"exit2"}),
        read  |-> Read(Opened, "exit3", {"exit0"}, {"write"}),
        write |-> {Call(Sysnum.write, 1, NoName, {"exit3"}, {"read"}, {"read"})}]

ls == [start |-> {Call(Sysnum.open, 0, ".", {"none"}, {"read"}, {"read"})},
       none  |-> Fdputs({"exit2"}),
       read  |-> Read(Opened, "exit3", {"exit0"}, {"write"}),
       write |-> {Call(Sysnum.write, 1, NoName, {"exit3"}, {"read"}, {"read"})}]

hello == [start |-> Fdputs({"read"}),
          read  |-> Read(0, "exit3", {"greet"}, {"greet"}),
          greet |-> Fdputs({"exit0"})]

counter == [start |-> Fdputs({"read"}),
            read  |-> Read(0, "exit3", {"count", "wrong", "exit0"}, {"count", "wrong", "exit0"}),
            wrong |-> Fdputs({"exit0"}),
            count |-> Fdputs({"count", "exit0"})]

testprint == [start |-> Fdputs({"exit0"})]

sigtest == [start   |-> {Call(Sysnum.getargs, 0, NoName, {"exit3"}, {"install", "ask"}, {})},
            install |-> {Call(Sysnum.set_handler, 0, NoName, {"alarm"}, {"alarm"}, {"alarm"})},
            alarm   |-> {Call(Sysnum.set_handler, 0, NoName, {"ask"}, {"ask"}, {"ask"})},
            ask     |-> Fdputs({"read"}),
            read    |-> Read(0, "exit3", {"fault"}, {"fault"})]

pingpong == [start |-> {Call(Sysnum.open, 0, "rtc", {"rate"}, {"rate"}, {"rate"})},
             rate  |-> {Call(Sysnum.write, Opened, NoName, {"draw"}, {"draw"}, {"draw"})},
             draw  |-> Fdputs({"wait"}),
             wait  |-> Read(Opened, "draw", {"draw"}, {"draw"})]

(* The tests of syserr: the calls each makes.                               *)
Try(sys, fd, name) == Call(Sysnum[sys], fd, name, {"test"}, {"test"}, {"test"})

OnFds(sys, from, to) == [n \in 1 .. to - from + 1 |-> Try(sys, from + n - 1, NoName)]

Number(n) == [Try("read", 0, NoName) EXCEPT !.sys = n]

OnFd(fd) == <<Try("read", fd, NoName), Try("write", fd, NoName), Try("close", fd, NoName)>>

err_neg_fd    == OnFd(NEG_FD)
err_big_fd    == OnFd(BIG_FD)
err_open_lots == [n \in 1 .. MAX_FILE - 1 |-> Try("open", 0, ".")]
                 \o OnFds("close", 2, MAX_FILE - 1)
err_open      == <<Try("open", 0, "helloo"), Try("open", 0, "shel"), Try("open", 0, NoName)>>
err_unopened  == OnFds("close", 0, MAX_FILE - 1)
                 \o OnFds("read", 2, MAX_FILE - 1) \o OnFds("write", 2, MAX_FILE - 1)
err_vidmap    == <<Try("vidmap", 0, "null"), Try("vidmap", 0, "kernel")>>
err_stdin_out == <<Try("write", 0, NoName), Try("read", 1, NoName)>>
err_syscall_num == <<Number(1073741823), Number(-1073741823), Number(0)>>

syserr == <<err_neg_fd, err_big_fd, err_open_lots, err_open, err_unopened, err_vidmap,
            err_stdin_out, err_syscall_num>>

syserr_main == [start |-> Fdputs({"select"}),
                select |-> Read(0, "exit2", {"test", "exit0"}, {"test", "exit0"})]

(* Any other program: it opens and closes what it likes and ends as it      *)
(* likes.                                                                   *)
other == {Call(Sysnum.open, 0, n, {"start"}, {"start"}, {"start"}) : n \in {"frame0.txt"}}
    \cup {Call(Sysnum.close, fd, NoName, {"start"}, {"start"}, {"start"}) : fd \in FDs}
    \cup {Call(Sysnum.vidmap, 0, "user", {"start"}, {"start"}, {"start"})}
    \cup {Call(Sysnum.halt, s, NoName, {}, {}, {}) : s \in {255, 256}}

Programs == [shell |-> shell, cat |-> cat, ls |-> ls, hello |-> hello, counter |-> counter,
             testprint |-> testprint, sigtest |-> sigtest, pingpong |-> pingpong,
             syserr |-> syserr_main, other |-> [start |-> other]]

Exit == [exit0 |-> 0, exit2 |-> 2, exit3 |-> 3]

(* What a program keeps: its name and argument (for the properties), the    *)
(* place it has come to, the descriptor from open, what getargs wrote, the  *)
(* files it has read from, the test of syserr it runs, the call of that     *)
(* test, the results that differ from the expected, and fail; whether its   *)
(* write to standard input found characters to echo; what the shell has to  *)
(* say of the last command, and the exit status.                            *)
Begin(p, a) ==
  [prog |-> p, arg |-> a, at |-> "start", fd |-> 0, buf |-> NoName, seen |-> {},
   test |-> 1, k |-> 1, cnt |-> 0, fail |-> 0, echo |-> 0,
   said |-> "nothing", status |-> 0]

(* The calls that a program can make where it is.                           *)
Calls(u) ==
  CASE u.at \in DOMAIN Exit -> {Call(Sysnum.halt, Exit[u.at], NoName, {}, {}, {})}
    [] u.at = "exit"        -> {Call(Sysnum.halt, u.fail, NoName, {}, {}, {})}
    [] u.at = "fault"       -> {}
    [] u.at = "test"        -> {syserr[u.test][u.k]}
    [] OTHER                -> Programs[u.prog][u.at]

-----------------------------------------------------------------------------
(* The program goes on with the result r of call c.                         *)

Place(c, r) == IF r = -1 THEN c.err ELSE IF r = 0 THEN c.zero ELSE c.some

(* A test of syserr counts the calls that did not fail, err_open_lots the   *)
(* opens that did.                                                          *)
Count(u, c, r) ==
  IF u.test = 3 THEN u.cnt + (IF c.sys = Sysnum.open /\ r = -1 THEN 1 ELSE 0)
                ELSE u.cnt + (IF r # -1 THEN 1 ELSE 0)

Failed(u, cnt) == IF cnt = (IF u.test = 3 THEN 1 ELSE 0) THEN u.fail ELSE u.fail + 2

AfterTest(u, c, r) ==
  LET cnt == Count(u, c, r) IN
  IF u.k < Len(syserr[u.test]) THEN [u EXCEPT !.k = u.k + 1, !.cnt = cnt]
  ELSE IF u.test = Len(syserr)
       THEN [u EXCEPT !.at = "exit", !.fail = Failed(u, cnt), !.k = 1, !.cnt = 0]
       ELSE [u EXCEPT !.test = u.test + 1, !.fail = Failed(u, cnt), !.k = 1, !.cnt = 0]

(* What the shell says of the value that execute returned.                  *)
Message(r) == CASE r = -1  -> "no such command"
                [] r = 256 -> "terminated by exception"
                [] r = 0   -> "nothing"
                [] OTHER   -> "terminated abnormally"

AfterExecute(u, r) == [u EXCEPT !.said = Message(r), !.at = "start"]

After(u, c, r) ==
  IF u.at = "test" THEN {AfterTest(u, c, r)}
  ELSE IF c.sys = Sysnum.execute THEN {AfterExecute(u, r)}
  ELSE IF c.sys = Sysnum.open THEN {[u EXCEPT !.at = p, !.fd = r] : p \in Place(c, r)}
  ELSE {[u EXCEPT !.at = p, !.said = "nothing"] : p \in Place(c, r)}

Running == user[cpu.inst]

Return(c, r) == \E u \in After(Running, c, r) : user' = [user EXCEPT ![cpu.inst] = u]

(* A call that changes nothing of the kernel's.                             *)
NoChange == CallReturns /\ UNCHANGED sysVars

Fails(c) == NoChange /\ Return(c, -1)

-----------------------------------------------------------------------------
(* syscall_link: the function that number n calls.                          *)
Handler(n) == IF n <= 0 \/ n >= 11 THEN "not_valid" ELSE jump_table[n]

Is(c, f) == Handler(c.sys) = f

Typed(c) == [prog |-> c.name, arg |-> c.arg] \in session[curr_term]

Fd(c) == IF c.fd = Opened THEN Running.fd ELSE c.fd

(* read and write look the flags up in the PCB of current_pcb, the other    *)
(* calls work on the PCB of curr_process.                                   *)
\* mutant: the PCB of the displayed terminal's process
FlagsDisplayed(fd) ==
  IF fd \in FDs THEN fds[current_process[curr_terminal_number]][fd] ELSE "bad"

FlagsOf(fd) == IF fd \in FDs THEN fds[current_pcb][fd] ELSE "bad"

Invalid ==
  \E c \in Calls(Running) :
    /\ Handler(c.sys) \in {"not_valid", "set_handler", "sigreturn"}
    /\ Fails(c)

(* The descriptor is out of range or not open, or is standard output.       *)
ReadFails ==
  \E c \in Calls(Running) :
    /\ Is(c, "read") /\ FlagsOf(Fd(c)) \in {"bad", "NOT_SET", "STDOUT"}
    /\ Fails(c)

(* keyboard_read and rtc_read wait, with interrupts on.                     *)
ReadWaits ==
  /\ \E c \in Calls(Running) : Is(c, "read") /\ FlagsOf(Fd(c)) \in {"STDIN", "RTC"}
  /\ Syscall
  /\ UNCHANGED <<sysVars, user>>

ReadReturns ==
  /\ SyscallReturn
  /\ \E c \in Calls(Running), r \in {0, 1} : Is(c, "read") /\ Return(c, r)
  /\ UNCHANGED sysVars

(* dir_readnew: the next entry, or 0 after the last one (module Files).     *)
ReadDir ==
  \E c \in Calls(Running), r \in {0, 1} :
    /\ Is(c, "read") /\ FlagsOf(Fd(c)) = "DIR"
    /\ NoChange /\ Return(c, r)

(* file_read_setup: a file of the PCB of curr_process.                      *)
ReadFile ==
  \E c \in Calls(Running) :
    /\ Is(c, "read") /\ FlagsOf(Fd(c)) = "FILE"
    /\ LET f == file_name[curr_process][Fd(c)]
           r == 1 - position[curr_process][Fd(c)]
       IN /\ position' = [position EXCEPT ![curr_process][Fd(c)] = @ + r]
          /\ \E u \in After(Running, c, r) :
               user' = [user EXCEPT ![cpu.inst] =
                          IF r = 1 THEN [u EXCEPT !.seen = @ \cup {f}] ELSE u]
    /\ CallReturns
    /\ UNCHANGED <<args, file_name>>

(* Files and directories cannot be written.                                 *)
WriteFails ==
  \E c \in Calls(Running) :
    /\ Is(c, "write") /\ FlagsOf(Fd(c)) \notin {"STDIN", "STDOUT", "RTC"}
    /\ Fails(c)

(* keyboard_write reads last_idx and keyboard_idx, one after the other and  *)
(* with interrupts on.  Equal, as they are between two keys, they make the  *)
(* call fail.  When a key arrives between the two reads, or the reader of   *)
(* another terminal was interrupted between its two resets (module          *)
(* Keyboard), the result is their difference, of either sign.               *)
WriteKeyboard ==
  \E c \in Calls(Running), r \in {-1, 1} :
    /\ Is(c, "write") /\ FlagsOf(Fd(c)) = "STDIN"
    /\ \E u \in After(Running, c, r) :
         user' = [user EXCEPT ![cpu.inst] = IF r = -1 THEN u ELSE [u EXCEPT !.echo = 1]]
    /\ NoChange

(* terminal_write, and rtc_write of four bytes.                             *)
Write ==
  \E c \in Calls(Running) :
    /\ Is(c, "write") /\ FlagsOf(Fd(c)) \in {"STDOUT", "RTC"}
    /\ NoChange /\ Return(c, 1)

NameOf(c) == IF c.name = "(buf)" THEN Running.buf ELSE c.name

FreeFds == {fd \in FDs : fd >= 2 /\ fds[FDOwner][fd] = "NOT_SET"}

OpenFile ==
  \E c \in Calls(Running), fd \in FreeFds :
    /\ Is(c, "open") /\ NameOf(c) \in DOMAIN Directory
    /\ Open /\ fds'[FDOwner][fd] = Directory[NameOf(c)]
    /\ position' = [position EXCEPT ![FDOwner][fd] = 0]
    /\ file_name' = IF Directory[NameOf(c)] = "RTC" THEN file_name
                    ELSE [file_name EXCEPT ![FDOwner][fd] = NameOf(c)]
    /\ Return(c, fd)
    /\ UNCHANGED args

OpenFails ==
  \E c \in Calls(Running) :
    /\ Is(c, "open") /\ (NameOf(c) \notin DOMAIN Directory \/ FreeFds = {})
    /\ Fails(c)

CloseFile ==
  \E c \in Calls(Running) :
    /\ Is(c, "close") /\ Fd(c) \in FDs \ ({0, 1} \cup FreeFds)
    /\ Close /\ fds'[FDOwner][Fd(c)] = "NOT_SET"
    /\ position' = [position EXCEPT ![FDOwner][Fd(c)] = 0]
    /\ Return(c, 0)
    /\ UNCHANGED <<args, file_name>>

CloseFails ==
  \E c \in Calls(Running) :
    /\ Is(c, "close") /\ Fd(c) \notin FDs \ ({0, 1} \cup FreeFds)
    /\ Fails(c)

Getargs ==
  \E c \in Calls(Running) :
    /\ Is(c, "getargs")
    /\ \E u \in After(Running, c, 0) :
         user' = [user EXCEPT ![cpu.inst] = [u EXCEPT !.buf = args[curr_process]]]
    /\ NoChange

VidmapFails ==
  \E c \in Calls(Running) : Is(c, "vidmap") /\ c.name \in {"null", "kernel"} /\ Fails(c)

VidmapUser ==
  \E c \in Calls(Running) :
    /\ Is(c, "vidmap") /\ c.name = "user" /\ Vidmap /\ Return(c, 0)
    /\ UNCHANGED sysVars

-----------------------------------------------------------------------------
(* execute and halt.                                                        *)

(* The shells that execute starts by itself have no argument.               *)
Started(p, a) ==
  IF execs' = execs THEN user ELSE [user EXCEPT ![execs'] = Begin(p, a)]

(* The PCB that gets the argument: the one that get_process found, before   *)
(* the command is known to be executable.                                   *)
ArgsWritten(p, a) == [args EXCEPT ![p] = a]

NewDescriptors(p) == position' = [position EXCEPT ![p] = [fd \in FDs |-> 0]]

ExecuteProgram ==
  \E c \in Calls(Running) :
    /\ Is(c, "execute") /\ Typed(c) /\ c.name \in DOMAIN Programs
    /\ Execute
    /\ args' = ArgsWritten(current_pcb', c.arg)
    /\ NewDescriptors(current_pcb')
    /\ user' = Started(c.name, c.arg)
    /\ UNCHANGED file_name

ExecuteTooMany ==
  \E c \in Calls(Running) :
    /\ Is(c, "execute") /\ Typed(c) /\ ExecuteFull
    /\ Return(c, 0)
    /\ UNCHANGED sysVars

ExecuteNotElf ==
  \E c \in Calls(Running) :
    /\ Is(c, "execute") /\ Typed(c) /\ c.name \in DOMAIN Directory /\ ExecuteNoexec
    /\ args' = ArgsWritten(current_pcb', c.arg)
    /\ Return(c, -1)
    /\ UNCHANGED <<file_name, position>>

(* The shell compares what was typed with "exit" itself.                    *)
ExitTyped ==
  /\ Running.prog = "shell" /\ Running.at = "exec"
  /\ [prog |-> "exit", arg |-> NoName] \in session[curr_term]
  /\ user' = [user EXCEPT ![cpu.inst].at = "exit0"]
  /\ UNCHANGED <<vars, sysVars>>

(* A program that has ended: how it ended is all that is left of it.        *)
Over(u, how, status) ==
  [Begin(u.prog, u.arg) EXCEPT !.at = how, !.status = status, !.seen = u.seen, !.echo = u.echo]

HaltProgram ==
  \E c \in Calls(Running) :
    /\ Is(c, "halt") /\ Halt
    /\ user' = [user EXCEPT ![cpu.inst] = Over(@, "ended", c.fd)]
    /\ UNCHANGED sysVars

Fault ==
  /\ cpu.pc = "user"
  /\ Running.at = "fault" \/ Running.prog = "other"
  /\ Exception
  /\ user' = [user EXCEPT ![cpu.inst] = Over(@, "faulted", 0)]
  /\ UNCHANGED sysVars

(* What halt and halt_from_exc leave in eax for the parent.                 *)
\* mutant: the status is not an uint8_t
HaltValueWide(u) == IF u.at = "faulted" THEN 256 ELSE u.status

HaltValue(u) == IF u.at = "faulted" THEN 256 ELSE u.status % 256

HaltTo ==
  /\ HaltReturn
  /\ user' = IF cpu'.pc # "user" THEN user
             ELSE [user EXCEPT ![cpu'.inst] = AfterExecute(@, HaltValue(Running)),
                               ![cpu.inst]  = Begin("shell", NoName)]
  /\ UNCHANGED sysVars

(* The loop of halt closes descriptors of curr_process.                     *)
HaltCloses ==
  /\ HaltClose
  /\ position' = [position EXCEPT ![curr_process] =
                    [fd \in FDs |-> IF fds'[curr_process][fd] # fds[curr_process][fd]
                                    THEN 0 ELSE @[fd]]]
  /\ UNCHANGED <<args, file_name, user>>

(* boot, halt of a shell and switch_terminal execute a shell.               *)
ExecuteShell ==
  /\ Boot \/ HaltExecute \/ \E t \in Terms : SwitchFresh(t)
  /\ user' = Started("shell", NoName)
  /\ args' = ArgsWritten(current_pcb', NoName)
  /\ NewDescriptors(current_pcb')
  /\ UNCHANGED file_name

(* The steps of the kernel that touch nothing of this module.               *)
KernelStep ==
  /\ \/ HaltPcb \/ HaltInactive \/ HaltPpid \/ HaltEsp0 \/ HaltCurr \/ HaltTerm \/ HaltMap
     \/ ExceptionHalt \/ Tick
     \/ \E t \in Terms : SwitchActive(t)
  /\ UNCHANGED <<sysVars, user>>

SysInit ==
  /\ Init
  /\ args = [p \in Procs |-> NoName]
  /\ file_name = [p \in Procs |-> [fd \in FDs |-> NoName]]
  /\ position = [p \in Procs |-> [fd \in FDs |-> 0]]
  /\ user = [i \in Insts |-> Begin("shell", NoName)]
  /\ session \in Sessions

SystemCall ==
  /\ cpu.pc = "user"
  /\ \/ Invalid \/ ReadFails \/ ReadWaits \/ ReadDir \/ ReadFile \/ WriteFails \/ Write
     \/ WriteKeyboard \/ OpenFile \/ OpenFails \/ CloseFile \/ CloseFails \/ Getargs \/ VidmapFails \/ VidmapUser
     \/ ExecuteProgram \/ ExecuteTooMany \/ ExecuteNotElf \/ ExitTyped \/ HaltProgram

SysNext ==
  /\ \/ SystemCall \/ Fault \/ ReadReturns
     \/ HaltTo \/ HaltCloses \/ ExecuteShell \/ KernelStep
  /\ UNCHANGED session

SysSpec == SysInit /\ [][SysNext]_allVars

-----------------------------------------------------------------------------
(* How a program ends, according to its source.                             *)
Expected(u) ==
  CASE u.prog \in {"ls", "hello", "counter", "testprint"} -> {0}
    [] u.prog = "syserr" -> IF u.echo = 0 THEN {0} ELSE {2}
    [] u.prog = "cat"   -> IF u.arg \in DOMAIN Directory THEN {0} ELSE {2}
    [] u.prog = "shell" -> {0, 3}
    [] u.prog \in {"pingpong", "sigtest"} -> {}
    [] OTHER -> {255, 256}

\* Every program of the repository ends as its source says, whatever the programs on the
\* other terminals do and however the scheduler interleaves them: all eight tests of
\* syserr pass, cat finds the file that the command line named and prints nothing else,
\* no write to standard output fails, and only sigtest faults (ece391syserr.c,
\* ece391cat.c, ece391ls.c, ece391hello.c, ece391counter.c, ece391sigtest.c).  The one
\* exception: err_stdin_out fails, and it alone, when its write to standard input found
\* the two indices of the keyboard apart (keyboard.c:132-137).
ProgramsSucceed ==
  \A i \in Insts : LET u == user[i] IN
    /\ u.at = "ended" => u.status \in Expected(u)
    /\ u.at = "faulted" => u.prog \in {"sigtest", "other"}
    /\ u.prog = "cat" => u.seen \subseteq {u.arg}

\* A read of standard input reaches the keyboard although current_pcb, which read uses, is
\* the PCB of a child that has halted until the next tick (syscall.c:73, :411).  The one
\* exception: execute failed and left current_pcb at a slot that no program has used.
StdinReached ==
  cpu.pc = "user" => \A c \in Calls(Running) :
     Is(c, "read") /\ c.fd = 0 => FlagsOf(0) = "STDIN" \/ image[current_pcb] = 0

ReportStep ==
  \A i \in Insts : i = cpu.inst /\ HaltReturn =>
    LET u == user[i]  told == user'[parent[i]].said
    IN told = IF u.at = "faulted" THEN "terminated by exception"
              ELSE IF u.status % 256 = 0 THEN "nothing" ELSE "terminated abnormally"

\* The shell says of a command what became of it: nothing when the program returned 0,
\* "terminated abnormally" for another status, "terminated by exception" when it faulted
\* and only then, "no such command" when it was not executable (ece391shell.c:27-33,
\* syscall.c:376-379).  A full process table is not reported (syscall.c:408).
ShellReports == [][ReportStep]_allVars
=============================================================================
