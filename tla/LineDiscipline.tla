--------------------------- MODULE LineDiscipline ---------------------------
(***************************************************************************)
(* What reading the keyboard promises a program (syscall.c:36: a read of   *)
(* STDIN "reads the last line that was terminated with a new line"): each  *)
(* terminal edits a line of its own, Enter hands the line over, and the    *)
(* next read of that terminal takes it, cut to the bytes asked for.        *)
(***************************************************************************)
EXTENDS Naturals, Sequences

CONSTANTS Terms,     \* terminals
          Chars,     \* characters that keys produce
          NL,        \* the new line character
          MaxLine,   \* longest line
          Requests   \* numbers of bytes that programs ask for

VARIABLES line,      \* text typed on a terminal since its last line was taken
          entered,   \* Enter was pressed for that text
          asked,     \* bytes the program of a terminal waits for, 0 if it does not read
          got        \* what its last read returned, until it reads again

vars == <<line, entered, asked, got>>

Init ==
  /\ line = [t \in Terms |-> <<>>]
  /\ entered = [t \in Terms |-> FALSE]
  /\ asked = [t \in Terms |-> 0]
  /\ got = [t \in Terms |-> <<>>]

Type(t, c) ==
  /\ ~entered[t] /\ Len(line[t]) < MaxLine
  /\ line' = [line EXCEPT ![t] = Append(@, c)]
  /\ UNCHANGED <<entered, asked, got>>

Erase(t) ==
  /\ ~entered[t] /\ line[t] # <<>>
  /\ line' = [line EXCEPT ![t] = SubSeq(@, 1, Len(@) - 1)]
  /\ UNCHANGED <<entered, asked, got>>

Discard(t) ==
  /\ ~entered[t]
  /\ line' = [line EXCEPT ![t] = <<>>]
  /\ UNCHANGED <<entered, asked, got>>

Enter(t) ==
  /\ ~entered[t]
  /\ entered' = [entered EXCEPT ![t] = TRUE]
  /\ UNCHANGED <<line, asked, got>>

Ask(t, n) ==
  /\ asked[t] = 0
  /\ asked' = [asked EXCEPT ![t] = n]
  /\ got' = [got EXCEPT ![t] = <<>>]
  /\ UNCHANGED <<line, entered>>

Cut(s, n) == SubSeq(s, 1, IF Len(s) < n THEN Len(s) ELSE n)

Take(t) ==
  /\ asked[t] # 0 /\ entered[t]
  /\ got' = [got EXCEPT ![t] = Cut(Append(line[t], NL), asked[t])]
  /\ line' = [line EXCEPT ![t] = <<>>]
  /\ entered' = [entered EXCEPT ![t] = FALSE]
  /\ asked' = [asked EXCEPT ![t] = 0]

Next == \E t \in Terms :
  \/ \E c \in Chars : Type(t, c)
  \/ Erase(t) \/ Discard(t) \/ Enter(t)
  \/ \E n \in Requests : Ask(t, n)
  \/ Take(t)

Spec == Init /\ [][Next]_vars
=============================================================================
