-------------------------------- MODULE Files --------------------------------
(***************************************************************************)
(* File descriptors and directory reads: open, close, read and             *)
(* file_read_setup of syscall.c, read_dentry_by_name and dir_readnew of    *)
(* files.c.                                                                *)
(*                                                                         *)
(* Descriptors belong to a process; the file system image is read only.    *)
(* The cursor of directory reads, dir_read_idx_new, is one variable for    *)
(* all processes, and dir_readnew runs with interrupts on: it is one step  *)
(* per access to the cursor, the increment a load and a store.  What       *)
(* read_data copies is the subject of module ReadData; here it is the      *)
(* number of bytes.                                                        *)
(*                                                                         *)
(* A name is what fits the 32 characters of a directory entry.  The names  *)
(* in Long have all 32, and no room for the terminating 0 in a row of the  *)
(* array file_name, nor does any name lie in the byte behind the array.    *)
(***************************************************************************)
EXTENDS Integers, Sequences, FiniteSets

CONSTANTS
  Procs,      \* processes
  Readers,    \* bound: processes that open any file, see OpensAny
  MAX_FILE,   \* file descriptors of a process (8 in the code)
  Dir,        \* the directory: a sequence of [name, type, length]
  Long,       \* names of 32 characters
  Requests,   \* values of nbytes
  UINT32,     \* values of a uint32_t
  MaxCursor,  \* bound: the cursor, see Index
  Envs        \* sets of EnvKinds: what programs may do

(***************************************************************************)
(* "long_name"    a program opens a file whose name has 32 characters      *)
(* "two_listers"  a program reads the directory while another one does     *)
(* "partial_list" a program stops before it has read the whole directory   *)
(***************************************************************************)
EnvKinds == {"long_name", "two_listers", "partial_list"}

NumDentries == Len(Dir)
Entries     == 1 .. NumDentries
Names       == {Dir[e].name : e \in Entries}

ASSUME ConstantsAssumption ==
  /\ IsFiniteSet(Procs) /\ Readers \subseteq Procs
  /\ MAX_FILE \in Nat /\ MAX_FILE >= 3
  /\ Dir \in Seq([name : STRING, type : {"RTC", "DIR", "FILE"}, length : Nat])
  /\ NumDentries > 0
  /\ \A e, f \in Entries : Dir[e].name = Dir[f].name => e = f
  /\ "" \notin Names /\ "too long" \notin Names
  /\ Requests \subseteq Nat
  /\ UINT32 \in Nat /\ \A e \in Entries : Dir[e].length < UINT32
  /\ MaxCursor \in Nat /\ MaxCursor > NumDentries
  /\ Envs \subseteq SUBSET EnvKinds

FDs    == 0 .. MAX_FILE - 1
Flags  == {"NOT_SET", "STDIN", "STDOUT", "RTC", "DIR", "FILE"}
NoName == ""

VARIABLES
  env,               \* one of Envs, chosen at the start
  flags, file_position, file_name,   \* of a process
  esp0_low,          \* the byte behind file_name, the lowest of ESP0, is unharmed
  dir_read_idx_new,
  pc, name, len,     \* dir_readnew in a process: name it stored, length it returns
  reg,               \* the register of a process that increments the cursor
  opened,            \* history: the name that open was given for a descriptor
  listed, in_order   \* history: how many names a process has read of the
                     \* directory, and that they were the first ones, in order

pcbVars  == <<flags, file_position, file_name, esp0_low>>
listVars == <<pc, name, len, reg, listed, in_order>>
vars == <<env, pcbVars, dir_read_idx_new, listVars, opened>>

-----------------------------------------------------------------------------
(* The string that starts in row fd of file_name: a name with no room for   *)
(* its 0 goes on in the next row, and is too long for a name then.          *)
TooLong == "too long"

StringAt(p, fd) ==
  LET n == file_name[p][fd] IN
    IF n \in Long /\ fd + 1 \in FDs /\ file_name[p][fd + 1] # NoName THEN TooLong ELSE n

(* read_dentry_by_name: the entry with that name, if there is one.          *)
read_dentry_by_name(n) == {e \in Entries : Dir[e].name = n}

(* strcpy of a name into row fd: the 0 behind a long name falls into the    *)
(* next row, or into ESP0.                                                  *)
\* mutant: only a row that was never used is filled
CopiedOnce(p, fd, n) ==
  IF file_name[p][fd] = NoName THEN [file_name[p] EXCEPT ![fd] = n] ELSE file_name[p]

Copied(p, fd, n) ==
  [f \in FDs |-> IF f = fd THEN n
                 ELSE IF f = fd + 1 /\ n \in Long THEN NoName ELSE file_name[p][f]]

InitFlags == [fd \in FDs |-> CASE fd = 0 -> "STDIN" [] fd = 1 -> "STDOUT" [] OTHER -> "NOT_SET"]

(* open of entry e: the first free descriptor from 2 on.                    *)
FirstFree(p, fd) ==
  fd >= 2 /\ flags[p][fd] = "NOT_SET" /\ \A f \in 2 .. fd - 1 : flags[p][f] # "NOT_SET"

(* Bound: the others open the directory and no more, and so does everyone   *)
(* where two read it.                                                       *)
OpensAny(p) == p \in Readers /\ "two_listers" \notin env

Open(p, e) ==
  /\ pc[p] = "idle"
  /\ OpensAny(p) \/ (Dir[e].type = "DIR" /\ flags[p] = InitFlags)
  /\ "long_name" \in env \/ Dir[e].name \notin Long
  /\ \E fd \in FDs :
       /\ FirstFree(p, fd)
       /\ flags' = [flags EXCEPT ![p][fd] = Dir[e].type]
       /\ file_position' = [file_position EXCEPT ![p][fd] = 0]
       /\ IF Dir[e].type = "RTC"
          THEN UNCHANGED <<file_name, esp0_low>>
          ELSE /\ file_name' = [file_name EXCEPT ![p] = Copied(p, fd, Dir[e].name)]
               /\ esp0_low' = [esp0_low EXCEPT ![p] =
                                 @ /\ ~(fd = MAX_FILE - 1 /\ Dir[e].name \in Long)]
       /\ opened' = [opened EXCEPT ![p][fd] = Dir[e].name]
  /\ UNCHANGED <<env, dir_read_idx_new, listVars>>

(* open of "stdin" and "stdout" sets the descriptor that has the number of  *)
(* the flag, 1 or 2.                                                        *)
OpenStd(p) ==
  /\ pc[p] = "idle" /\ OpensAny(p)
  /\ \/ flags' = [flags EXCEPT ![p][1] = "STDIN"]
     \/ flags' = [flags EXCEPT ![p][2] = "STDOUT"]
  /\ UNCHANGED <<env, file_position, file_name, esp0_low, dir_read_idx_new, listVars, opened>>

(* A program that lists the directory, and has not yet been told the end.   *)
Listing(p) == pc[p] # "idle" \/ listed[p] # 0

Unlisted(p) ==
  /\ listed' = [listed EXCEPT ![p] = 0]
  /\ in_order' = [in_order EXCEPT ![p] = TRUE]

Close(p) ==
  /\ pc[p] = "idle"
  /\ "partial_list" \in env \/ ~Listing(p)
  /\ \E fd \in FDs :
       /\ fd >= 2 /\ flags[p][fd] # "NOT_SET"
       /\ flags' = [flags EXCEPT ![p][fd] = "NOT_SET"]
       /\ file_position' = [file_position EXCEPT ![p][fd] = 0]
       /\ opened' = [opened EXCEPT ![p][fd] = NoName]
  /\ Unlisted(p)
  /\ UNCHANGED <<env, file_name, esp0_low, dir_read_idx_new, pc, name, len, reg>>

(* halt, and execute of the next program in the same slot: the descriptors  *)
(* and ESP0 are set anew, file_name keeps the names.                        *)
Execute(p) ==
  /\ pc[p] = "idle"
  /\ "partial_list" \in env \/ ~Listing(p)
  /\ flags' = [flags EXCEPT ![p] = InitFlags]
  /\ file_position' = [file_position EXCEPT ![p] = [fd \in FDs |-> 0]]
  /\ esp0_low' = [esp0_low EXCEPT ![p] = TRUE]
  /\ Unlisted(p)
  /\ opened' = [opened EXCEPT ![p] = [fd \in FDs |-> NoName]]
  /\ UNCHANGED <<env, file_name, dir_read_idx_new, pc, name, len, reg>>

-----------------------------------------------------------------------------
(* read of a file: file_read looks the file up by the name in the row of    *)
(* the descriptor; the result, -1 too, is added to the position.            *)
Found(p, fd) == read_dentry_by_name(StringAt(p, fd))

Smaller(a, b) == IF a < b THEN a ELSE b

ReadResult(p, fd, n) ==
  IF Found(p, fd) = {} THEN -1
  ELSE LET l == Dir[CHOOSE e \in Found(p, fd) : TRUE].length IN
       IF file_position[p][fd] > l THEN -1 ELSE Smaller(n, l - file_position[p][fd])

Read(p, fd, n) ==
  /\ pc[p] = "idle"
  /\ flags[p][fd] = "FILE"
  /\ file_position' = [file_position EXCEPT ![p][fd] = (@ + ReadResult(p, fd, n)) % UINT32]
  /\ UNCHANGED <<env, flags, file_name, esp0_low, dir_read_idx_new, listVars, opened>>

-----------------------------------------------------------------------------
(* dir_readnew.                                                             *)

(* Programs read the directory one after the other, each to its end.        *)
InTurn == env \cap {"two_listers", "partial_list"} = {}

MayList(p) == "two_listers" \in env \/ \A q \in Procs \ {p} : ~Listing(q)

(* Behind the last entry my_dentry is 0 up to its end, and every index      *)
(* there tests and reads alike: MaxCursor stands for all that are larger.   *)
Index(i) == Smaller(i, MaxCursor)

\* mutant: the last entry counts as the end
AtEndEarly == dir_read_idx_new >= NumDentries - 1

\* mutant: only the index behind the last entry counts as the end
AtEndExactly == dir_read_idx_new = NumDentries

AtEnd == dir_read_idx_new >= NumDentries

DirTest(p) ==
  /\ pc[p] = "idle" /\ MayList(p)
  /\ \E fd \in FDs : flags[p][fd] = "DIR"
  /\ pc' = [pc EXCEPT ![p] = IF AtEnd THEN "end" ELSE "copy"]
  /\ UNCHANGED <<env, pcbVars, dir_read_idx_new, name, len, reg, listed, in_order, opened>>

(* At the end the cursor starts again, and the program is told 0.           *)
DirEnd(p) ==
  /\ pc[p] = "end"
  /\ dir_read_idx_new' = 0
  /\ Unlisted(p)
  /\ pc' = [pc EXCEPT ![p] = "idle"]
  /\ UNCHANGED <<env, pcbVars, name, len, reg, opened>>

\* mutant: the name behind the cursor
NameBehind(idx) == IF idx + 1 < NumDentries THEN Dir[idx + 2].name ELSE NoName

(* The name at the cursor; my_dentry is 0 behind the last entry.            *)
NameAt(idx) == IF idx < NumDentries THEN Dir[idx + 1].name ELSE NoName

DirCopy(p) ==
  /\ pc[p] = "copy"
  /\ name' = [name EXCEPT ![p] = NameAt(dir_read_idx_new)]
  /\ pc' = [pc EXCEPT ![p] = "length"]
  /\ UNCHANGED <<env, pcbVars, dir_read_idx_new, len, reg, listed, in_order, opened>>

(* strlen of the name at the cursor, which is read again.  A length is      *)
(* represented by the name that has it.                                     *)
DirLength(p) ==
  /\ pc[p] = "length"
  /\ len' = [len EXCEPT ![p] = NameAt(dir_read_idx_new)]
  /\ pc' = [pc EXCEPT ![p] = "load"]
  /\ UNCHANGED <<env, pcbVars, dir_read_idx_new, name, reg, listed, in_order, opened>>

(* dir_read_idx_new++                                                       *)
DirLoad(p) ==
  /\ pc[p] = "load"
  /\ reg' = [reg EXCEPT ![p] = dir_read_idx_new]
  /\ pc' = [pc EXCEPT ![p] = "store"]
  /\ UNCHANGED <<env, pcbVars, dir_read_idx_new, name, len, listed, in_order, opened>>

(* The history is kept as far as it is used: out of turn, whether a process  *)
(* has read a name.                                                         *)
MaxListed == IF InTurn THEN NumDentries + 1 ELSE 1

(* What a process gets is the next name, with its length.                   *)
NextListed(p) ==
  LET k == listed[p] + 1 IN k \in Entries /\ name[p] = Dir[k].name /\ len[p] = Dir[k].name

DirStore(p) ==
  /\ pc[p] = "store"
  /\ dir_read_idx_new' = Index(reg[p] + 1)
  /\ listed' = [listed EXCEPT ![p] = Smaller(@ + 1, MaxListed)]
  /\ in_order' = [in_order EXCEPT ![p] = @ /\ (InTurn => NextListed(p))]
  /\ name' = [name EXCEPT ![p] = NoName]
  /\ len' = [len EXCEPT ![p] = NoName]
  /\ reg' = [reg EXCEPT ![p] = 0]
  /\ pc' = [pc EXCEPT ![p] = "idle"]
  /\ UNCHANGED <<env, pcbVars, opened>>

-----------------------------------------------------------------------------
Init ==
  /\ env \in Envs
  /\ flags = [p \in Procs |-> InitFlags]
  /\ file_position = [p \in Procs |-> [fd \in FDs |-> 0]]
  /\ file_name = [p \in Procs |-> [fd \in FDs |-> NoName]]
  /\ esp0_low = [p \in Procs |-> TRUE]
  /\ dir_read_idx_new = 0
  /\ pc = [p \in Procs |-> "idle"]
  /\ name = [p \in Procs |-> NoName]
  /\ len = [p \in Procs |-> NoName]
  /\ reg = [p \in Procs |-> 0]
  /\ opened = [p \in Procs |-> [fd \in FDs |-> NoName]]
  /\ listed = [p \in Procs |-> 0]
  /\ in_order = [p \in Procs |-> TRUE]

(* dir_readnew once it is called.                                           *)
InRead(p) == DirEnd(p) \/ DirCopy(p) \/ DirLength(p) \/ DirLoad(p) \/ DirStore(p)

Lister(p) == DirTest(p) \/ InRead(p)

Next ==
  \E p \in Procs :
    \/ \E e \in Entries : Open(p, e)
    \/ OpenStd(p) \/ Close(p) \/ Execute(p)
    \/ \E fd \in FDs, n \in Requests : Read(p, fd, n)
    \/ Lister(p)

Spec == Init /\ [][Next]_vars

(* Every terminal's process runs again and again, so a call returns.        *)
FairSpec == Spec /\ \A p \in Procs : WF_vars(InRead(p))

-----------------------------------------------------------------------------
Rows == Names \cup {NoName}

TypeOK ==
  /\ env \in Envs
  /\ flags \in [Procs -> [FDs -> Flags]]
  /\ file_position \in [Procs -> [FDs -> 0 .. UINT32 - 1]]
  /\ file_name \in [Procs -> [FDs -> Rows]]
  /\ esp0_low \in [Procs -> BOOLEAN]
  /\ dir_read_idx_new \in Nat
  /\ pc \in [Procs -> {"idle", "end", "copy", "length", "load", "store"}]
  /\ reg \in [Procs -> Nat]
  /\ name \in [Procs -> Rows] /\ len \in [Procs -> Rows]
  /\ opened \in [Procs -> [FDs -> Rows]]
  /\ listed \in [Procs -> Nat]
  /\ in_order \in [Procs -> BOOLEAN]

\* Whatever was opened and closed before, and however long the names are, a read never
\* returns bytes of a file other than the one that was opened on the descriptor.
ReadsOpenedFile ==
  \A p \in Procs, fd \in FDs : flags[p][fd] = "FILE" =>
     \A e \in Found(p, fd) : Dir[e].name = opened[p][fd]

\* Each read of the directory "Stores the next filename" (files.c:135): from the first
\* on, without a gap, and with its length.
ListsInOrder == InTurn => \A p \in Procs : in_order[p]

\* A program is told the end of the directory when it has seen all of it.
ListsAll == [][InTurn => \A p \in Procs : DirEnd(p) => listed[p] = NumDentries]_vars

\* Programs that list the directory at the same time lose each other's increments and move
\* the cursor past the end (files.c:165).  Still the cursor is not trapped anywhere: as long
\* as the directory is read again and again, the end is told again and again.
EndIsTold ==
  ([]<>\E p \in Procs : pc[p] = "copy") => []<>\E p \in Procs : pc[p] = "end"
=============================================================================
