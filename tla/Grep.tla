-------------------------------- MODULE Grep --------------------------------
(***************************************************************************)
(* The programs that read a file to its end, over ReadData: cat, or any    *)
(* program that asks again until it is told to end, and do_one_file of     *)
(* grep, which cuts what it reads into lines in a buffer of BUFSIZE bytes  *)
(* and one more for a NUL.                                                 *)
(*                                                                         *)
(* The contents of the file of grep are chosen when they are read: got is  *)
(* all that read returned.  The pattern is one character, "s".             *)
(***************************************************************************)
EXTENDS ReadData, Text

CONSTANTS
  BUFSIZE,     \* 1024 in the code
  MaxText      \* bound: length of a file of grep

ASSUME GrepAssumption == BUFSIZE \in Nat \ {0} /\ 1 .. BUFSIZE \subseteq Requests

Chars == {"NL", "NUL", "s", "x"}

VARIABLES
  reader,                            \* "cat" or "grep"
  gpc,                               \* where do_one_file is
  data, last, line_start, cnt,       \* its locals
  garbage,                           \* what its stack held before
  got, printed                       \* history: bytes read, lines written

grep == <<data, last, line_start, cnt, got, printed>>
gvars == <<vars, reader, gpc, garbage, grep>>

GrepInit ==
  /\ Init
  /\ reader \in {"cat", "grep"}
  /\ reader = "grep" => /\ inode_length <= MaxText
                        /\ inode_blocks \in [1 .. MaxBlocks -> {0, NumDataBlocks}]
  /\ gpc = "read"
  /\ garbage \in IF reader = "grep" THEN {"NL", "x"} ELSE {"x"}
  /\ data = [k \in 0 .. BUFSIZE |-> garbage]
  /\ last = 0 /\ line_start = 0 /\ cnt = 0
  /\ got = <<>> /\ printed = <<>>

Cat ==
  /\ reader = "cat"
  /\ (\E n \in Requests : Call(n)) \/ Consume
  /\ UNCHANGED <<reader, gpc, garbage, grep>>

(* read, in the kernel.                                                     *)
KernelRead ==
  /\ StartEnd \/ Start \/ Loop \/ LoopEnd
  /\ UNCHANGED <<reader, gpc, garbage, grep>>

-----------------------------------------------------------------------------
GrepRead ==
  /\ reader = "grep" /\ gpc = "read" /\ pc = "idle"
  /\ Call(BUFSIZE - last)
  /\ UNCHANGED <<reader, gpc, garbage, grep>>

GrepReadFailed ==
  /\ reader = "grep" /\ pc = "done" /\ result = -1
  /\ Consume
  /\ gpc' = "failed"
  /\ UNCHANGED <<reader, garbage, grep>>

GrepGot ==
  /\ reader = "grep" /\ pc = "done" /\ result # -1
  /\ \E bytes \in [1 .. result -> Chars] :
       /\ data' = [k \in 0 .. BUFSIZE |->
                     IF k - last + 1 \in 1 .. result THEN bytes[k - last + 1] ELSE data[k]]
       /\ got' = got \o bytes
  /\ cnt' = result
  /\ last' = last + result
  /\ line_start' = 0
  /\ gpc' = "line"
  /\ Consume
  /\ UNCHANGED <<reader, garbage, printed>>

(* The end of the line that begins at line_start: a newline, or last.  The  *)
(* byte at last is not one that was read.                                   *)
line_end ==
  CHOOSE e \in line_start .. last :
    /\ e = last \/ data[e] = "NL"
    /\ \A k \in line_start .. e - 1 : data[k] # "NL"

(* A line that goes on behind the buffer, unless it begins the buffer.      *)
Partial == data[line_end] # "NL" /\ cnt # 0 /\ line_start # 0

(* The buffer once the line ends in a NUL, and the string at a place of it. *)
Ended == [data EXCEPT ![line_end] = "NUL"]
Nul(from) == CHOOSE e \in from .. BUFSIZE : Ended[e] = "NUL" /\ \A k \in from .. e - 1 : Ended[k] # "NUL"

\* mutant: last is not fixed
MoveDownAll == last

(* What is left of last when the rest of a line has been moved down.        *)
MovedDown == last - line_start

(* ece391_strcpy moves the rest of the line down, to its first NUL.         *)
GrepMove ==
  /\ gpc = "line" /\ Partial
  /\ data' = [k \in 0 .. BUFSIZE |->
                IF k <= Nul(line_start) - line_start THEN Ended[k + line_start] ELSE Ended[k]]
  /\ last' = MovedDown
  /\ gpc' = "read"
  /\ UNCHANGED <<vars, reader, garbage, line_start, cnt, got, printed>>

(* The line is searched, and written up to its first NUL.                   *)
GrepLine ==
  /\ gpc = "line" /\ ~Partial
  /\ printed' = IF \E check \in line_start .. line_end - 1 : data[check] = "s"
                  THEN Append(printed, [k \in 1 .. Nul(line_start) - line_start |->
                                          data[line_start + k - 1]])
                  ELSE printed
  /\ data' = Ended
  /\ line_start' = line_end + 1
  /\ \/ line_end + 1 < last /\ UNCHANGED <<last, gpc>>
     \/ /\ line_end + 1 >= last
        /\ last' = 0
        /\ gpc' = IF cnt = 0 THEN "closed" ELSE "read"
  /\ UNCHANGED <<vars, reader, garbage, cnt, got>>

-----------------------------------------------------------------------------
GrepNext == Cat \/ KernelRead \/ GrepRead \/ GrepReadFailed \/ GrepGot \/ GrepMove \/ GrepLine

(* The kernel and the program go on; cat asks again until it is told to end. *)
GrepSpec == GrepInit /\ [][GrepNext]_gvars /\ WF_gvars(GrepNext)

-----------------------------------------------------------------------------
HasPattern(line) == \E k \in 1 .. Len(line) : line[k] = "s"

TextFits(t) ==
  /\ \A k \in 1 .. Len(t) : t[k] # "NUL"
  /\ \A k \in Starts(t) : Len(LineAt(t, k)) <= BUFSIZE

(* The lines with the pattern, in the order in which they start.            *)
WithLine(found, t, k) ==
  IF k \in Starts(t) /\ HasPattern(LineAt(t, k)) THEN Append(found, LineAt(t, k)) ELSE found

Matches(t) ==
  LET found[k \in 0 .. Len(t)] == IF k = 0 THEN <<>> ELSE WithLine(found[k - 1], t, k)
  IN  found[Len(t)]

(* The rest of a line that is kept leaves room for the next read, and what  *)
(* read returns fits behind it; grep never asks for 0 bytes and takes the   *)
(* answer for the end.                                                      *)
GrepReadsAll ==
  /\ last <= BUFSIZE
  /\ gpc = "closed" => Len(got) = inode_length

\* grep stays in its buffer, reads its file to the end, and writes the lines that contain
\* the pattern, each once, whole and in order, however reads cut them: for a text without
\* NULs whose lines fit into the buffer.  It also looks at one byte of the buffer that
\* nothing has written (ece391grep.c:33, data[BUFSIZE] when the first read filled the
\* buffer); a newline there would cut the last line of the buffer.
GrepPrints ==
  /\ GrepReadsAll
  /\ gpc = "closed" /\ garbage # "NL" /\ TextFits(got) => printed = Matches(got)

\* A program that reads again and again is told the end of the file or a failure in the
\* end, also across bad blocks and from every position.
ReadersEnd == (pc = "idle" /\ gpc = "read") ~> (pc = "done" /\ result \in {0, -1})
=============================================================================
