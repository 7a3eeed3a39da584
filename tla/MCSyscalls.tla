---------------------------- MODULE MCSyscalls ----------------------------
(* Syscalls with what the user types in one behaviour, on terminal 0 and on *)
(* terminal 1.  Each program of syscalls/ occurs, cat with a file that      *)
(* exists and with one that does not, and a command that is not executable. *)
EXTENDS Syscalls

Run(p, a) == [prog |-> p, arg |-> a]

On(first, second) == [t \in Terms |-> IF t = 0 THEN first ELSE second]

MCSessions ==
  { On({Run("syserr", "")}, {Run("testprint", "")}),
    On({Run("cat", "helloo"), Run("ls", ""), Run("exit", "")}, {Run("cat", "frame0.txt")}),
    On({Run("frame0.txt", "helloo")}, {Run("hello", "")}),
    On({Run("sigtest", "1")}, {Run("pingpong", ""), Run("counter", "")}),
    On({Run("other", "")}, {Run("cat", "frame0.txt")}) }
=============================================================================
