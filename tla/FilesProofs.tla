----------------------------- MODULE FilesProofs -----------------------------
(***************************************************************************)
(* Reads find the file that was opened, and programs that take turns are   *)
(* given the whole directory, for every directory and every set of         *)
(* processes.                                                              *)
(***************************************************************************)
EXTENDS Files, TLAPS

\* The directory has entries, and each has a type.
LEMMA DirFacts ==
  /\ NumDentries \in Nat \ {0}
  /\ \A e \in Entries : Dir[e].type \in {"RTC", "DIR", "FILE"}
<1> DEFINE R == [name : STRING, type : {"RTC", "DIR", "FILE"}, length : Nat]
<1>1. Dir \in Seq(R) /\ NumDentries > 0 BY ConstantsAssumption
<1>2. ASSUME NEW x \in R PROVE x.type \in {"RTC", "DIR", "FILE"} OBVIOUS
<1> HIDE DEF R
<1>3. Len(Dir) \in Nat /\ \A e \in 1 .. Len(Dir) : Dir[e] \in R BY <1>1
<1>4. NumDentries \in Nat \ {0} BY <1>1, <1>3 DEF NumDentries
<1>5. \A e \in Entries : Dir[e] \in R BY <1>3 DEF Entries, NumDentries
<1> QED BY <1>2, <1>4, <1>5

-----------------------------------------------------------------------------
(* The row of an open file holds its name, or nothing any more: another     *)
(* row's name may have spilled a 0 into it, but never a character.          *)
RowsInv ==
  /\ flags \in [Procs -> [FDs -> Flags]]
  /\ DOMAIN file_name = Procs /\ \A p \in Procs : DOMAIN file_name[p] = FDs
  /\ opened \in [Procs -> [FDs -> Names \cup {NoName}]]
  /\ \A p \in Procs, fd \in FDs :
       flags[p][fd] = "FILE" => file_name[p][fd] \in {opened[p][fd], NoName}

\* No file is open at first.
LEMMA RowsInit == Init => RowsInv
<1> SUFFICES ASSUME Init PROVE RowsInv OBVIOUS
<1>1. InitFlags \in [FDs -> Flags] BY DEF InitFlags, Flags
<1> QED BY <1>1 DEF Init, RowsInv, NoName

\* open writes the row of the descriptor it returns, and at most a 0 into the next.
LEMMA RowsStep == RowsInv /\ [Next]_vars => RowsInv'
<1> SUFFICES ASSUME RowsInv, [Next]_vars PROVE RowsInv' OBVIOUS
<1> USE DEF RowsInv, pcbVars, listVars
<1>s. ASSUME UNCHANGED <<flags, file_name, opened>> PROVE RowsInv' BY <1>s
<1>1. ASSUME NEW p \in Procs, NEW e \in Entries, Open(p, e) PROVE RowsInv'
  <2>1. PICK fd \in FDs :
          /\ FirstFree(p, fd)
          /\ flags' = [flags EXCEPT ![p][fd] = Dir[e].type]
          /\ IF Dir[e].type = "RTC"
             THEN UNCHANGED <<file_name, esp0_low>>
             ELSE /\ file_name' = [file_name EXCEPT ![p] = Copied(p, fd, Dir[e].name)]
                  /\ esp0_low' = [esp0_low EXCEPT ![p] =
                                    @ /\ ~(fd = MAX_FILE - 1 /\ Dir[e].name \in Long)]
          /\ opened' = [opened EXCEPT ![p][fd] = Dir[e].name]
    BY <1>1 DEF Open
  <2>2. Dir[e].name \in Names BY DEF Names
  <2>3. Dir[e].type \in {"RTC", "DIR", "FILE"}
    BY DirFacts
  <2>4. flags' \in [Procs -> [FDs -> Flags]] BY <2>1, <2>3 DEF Flags
  <2>5. opened' \in [Procs -> [FDs -> Names \cup {NoName}]] BY <2>1, <2>2
  <2>6. CASE Dir[e].type = "RTC"
    <3>1. file_name' = file_name BY <2>1, <2>6
    <3>2. ASSUME NEW q \in Procs, NEW f \in FDs, flags'[q][f] = "FILE"
          PROVE  flags[q][f] = "FILE" /\ opened'[q][f] = opened[q][f]
      <4>1. CASE q = p /\ f = fd BY <4>1, <2>1, <2>6, <3>2
      <4>2. CASE q # p \/ f # fd BY <4>2, <2>1, <3>2
      <4> QED BY <4>1, <4>2
    <3> QED BY <3>1, <3>2, <2>4, <2>5
  <2>7. CASE Dir[e].type # "RTC"
    <3>1. file_name' = [file_name EXCEPT ![p] = Copied(p, fd, Dir[e].name)] BY <2>1, <2>7
    <3>2. DOMAIN Copied(p, fd, Dir[e].name) = FDs BY DEF Copied
    <3>3. DOMAIN file_name' = Procs /\ \A q \in Procs : DOMAIN file_name'[q] = FDs
      BY <3>1, <3>2
    <3>4. ASSUME NEW q \in Procs, NEW f \in FDs, flags'[q][f] = "FILE"
          PROVE  file_name'[q][f] \in {opened'[q][f], NoName}
      <4>1. CASE q = p /\ f = fd
        <5>1. opened'[q][f] = Dir[e].name BY <4>1, <2>1
        <5>2. file_name'[q][f] = Dir[e].name BY <4>1, <3>1 DEF Copied
        <5> QED BY <5>1, <5>2
      <4>2. CASE q = p /\ f # fd
        <5>1. flags[q][f] = "FILE" /\ opened'[q][f] = opened[q][f] BY <4>2, <2>1, <3>4
        <5>2. file_name'[q][f] \in {file_name[q][f], NoName} BY <4>2, <3>1 DEF Copied
        <5> QED BY <5>1, <5>2
      <4>3. CASE q # p
        <5>1. flags[q][f] = "FILE" /\ opened'[q][f] = opened[q][f] BY <4>3, <2>1, <3>4
        <5>2. file_name'[q] = file_name[q] BY <4>3, <3>1
        <5> QED BY <5>1, <5>2
      <4> QED BY <4>1, <4>2, <4>3
    <3> QED BY <3>3, <3>4, <2>4, <2>5
  <2> QED BY <2>6, <2>7
<1>2. ASSUME NEW p \in Procs, OpenStd(p) \/ Close(p) PROVE RowsInv'
  <2>1. PICK fd \in FDs, fl \in {"STDIN", "STDOUT", "NOT_SET"} :
          /\ flags' = [flags EXCEPT ![p][fd] = fl] /\ UNCHANGED file_name
          /\ UNCHANGED opened \/ opened' = [opened EXCEPT ![p][fd] = NoName]
    <3>0. MAX_FILE \in Nat /\ MAX_FILE >= 3 BY Zenon, ConstantsAssumption
    <3>1. 1 \in FDs /\ 2 \in FDs BY <3>0 DEF FDs
    <3>2. CASE OpenStd(p)
      <4>1. UNCHANGED <<file_name, opened>> BY <3>2 DEF OpenStd
      <4>2. CASE flags' = [flags EXCEPT ![p][1] = "STDIN"] BY <3>1, <4>1, <4>2
      <4>3. CASE flags' = [flags EXCEPT ![p][2] = "STDOUT"] BY <3>1, <4>1, <4>3
      <4> QED BY <3>2, <4>2, <4>3 DEF OpenStd
    <3>3. CASE Close(p) BY <3>3 DEF Close
    <3> QED BY <1>2, <3>2, <3>3
  <2>2. flags' \in [Procs -> [FDs -> Flags]] BY <2>1 DEF Flags
  <2>3. ASSUME NEW q \in Procs, NEW f \in FDs, flags'[q][f] = "FILE"
        PROVE  flags[q][f] = "FILE" /\ opened'[q][f] = opened[q][f]
    <3>1. q # p \/ f # fd BY <2>1, <2>3
    <3> QED BY <2>1, <2>3, <3>1
  <2>4. opened' \in [Procs -> [FDs -> Names \cup {NoName}]]
    <3>1. CASE UNCHANGED opened BY <3>1
    <3>2. CASE opened' = [opened EXCEPT ![p][fd] = NoName] BY <3>2
    <3> QED BY <2>1, <3>1, <3>2
  <2> QED BY <2>1, <2>2, <2>3, <2>4
<1>3. ASSUME NEW p \in Procs, Execute(p) PROVE RowsInv'
  <2>1. InitFlags \in [FDs -> Flags] /\ \A f \in FDs : InitFlags[f] # "FILE"
    BY DEF InitFlags, Flags
  <2>2. /\ flags' = [flags EXCEPT ![p] = InitFlags] /\ file_name' = file_name
        /\ opened' = [opened EXCEPT ![p] = [fd \in FDs |-> NoName]]
    BY <1>3 DEF Execute
  <2>3. flags' \in [Procs -> [FDs -> Flags]] BY <2>1, <2>2
  <2>4. opened' \in [Procs -> [FDs -> Names \cup {NoName}]] BY <2>2
  <2>5. ASSUME NEW q \in Procs, NEW f \in FDs, flags'[q][f] = "FILE"
        PROVE  q # p
    BY <2>1, <2>2, <2>5
  <2> QED BY <2>2, <2>3, <2>4, <2>5
<1>4. ASSUME NEW p \in Procs, NEW fd \in FDs, NEW n \in Requests, Read(p, fd, n)
      PROVE RowsInv'
  BY <1>4, <1>s DEF Read
<1>5. ASSUME NEW p \in Procs, Lister(p) PROVE RowsInv'
  BY <1>5, <1>s DEF Lister, InRead, DirTest, DirEnd, DirCopy, DirLength, DirLoad, DirStore
<1>6. CASE UNCHANGED vars BY <1>6, <1>s DEF vars
<1> QED BY <1>1, <1>2, <1>3, <1>4, <1>5, <1>6 DEF Next

\* A read never returns bytes of another file than the one that was opened, although the
\* kernel looks files up again by name on every read and names spill between descriptors.
THEOREM ReadFindsOpenedFile == Spec => []ReadsOpenedFile
<1>1. RowsInv => ReadsOpenedFile
  <2> SUFFICES ASSUME RowsInv, NEW p \in Procs, NEW fd \in FDs, flags[p][fd] = "FILE",
                      NEW e \in Found(p, fd)
               PROVE  Dir[e].name = opened[p][fd]
    BY DEF ReadsOpenedFile
  <2>1. Dir[e].name = StringAt(p, fd) /\ Dir[e].name \in Names
    BY DEF Found, read_dentry_by_name, Names
  <2>2. Dir[e].name # NoName /\ Dir[e].name # TooLong
    BY <2>1, ConstantsAssumption DEF NoName, TooLong
  <2>3. Dir[e].name = file_name[p][fd] BY <2>1, <2>2 DEF StringAt
  <2> QED BY <2>2, <2>3 DEF RowsInv
<1> QED BY <1>1, RowsInit, RowsStep, PTL DEF Spec

-----------------------------------------------------------------------------
(* Programs that read the directory in turn: at most one is Listing, and    *)
(* the shared cursor is the number of names it has read; when none is, the  *)
(* cursor is back at the first entry.                                       *)
TurnTypes ==
  /\ dir_read_idx_new \in Nat
  /\ pc \in [Procs -> {"idle", "end", "copy", "length", "load", "store"}]
  /\ DOMAIN name = Procs /\ DOMAIN len = Procs /\ reg \in [Procs -> Nat]
  /\ listed \in [Procs -> Nat]
  /\ DOMAIN in_order = Procs

OneLister == \A p, q \in Procs : Listing(p) /\ Listing(q) => p = q

CursorFollows ==
  /\ (\A p \in Procs : ~Listing(p)) => dir_read_idx_new = 0
  /\ \A p \in Procs : Listing(p) => dir_read_idx_new = listed[p]

(* What a process has found at the cursor still holds: the end, or the      *)
(* entry that it has copied.                                                *)
CopyFollows ==
  \A p \in Procs :
    /\ pc[p] = "end" => dir_read_idx_new >= NumDentries
    /\ pc[p] \in {"copy", "length", "load", "store"} => dir_read_idx_new < NumDentries
    /\ pc[p] \in {"length", "load", "store"} => name[p] = NameAt(dir_read_idx_new)
    /\ pc[p] \in {"load", "store"} => len[p] = NameAt(dir_read_idx_new)
    /\ pc[p] = "store" => reg[p] = dir_read_idx_new

TurnInv ==
  /\ TurnTypes
  /\ dir_read_idx_new <= NumDentries \/ ~InTurn
  /\ InTurn => OneLister /\ CursorFollows /\ CopyFollows /\ \A p \in Procs : in_order[p]

\* At first nobody lists the directory.
LEMMA TurnInit == Init => TurnInv
<1> SUFFICES ASSUME Init PROVE TurnInv OBVIOUS
<1>1. \A p \in Procs : ~Listing(p) /\ pc[p] = "idle" /\ in_order[p] BY DEF Init, Listing
<1>2. TurnTypes /\ dir_read_idx_new = 0 BY DEF Init, TurnTypes
<1> QED BY <1>1, <1>2, DirFacts DEF TurnInv, OneLister, CursorFollows, CopyFollows

(* A step that leaves the cursor and every copy as they are.                *)
LEMMA TurnSame ==
  ASSUME TurnInv, UNCHANGED <<env, dir_read_idx_new, pc, name, len, reg, listed, in_order>>
  PROVE  TurnInv'
<1>1. InTurn' = InTurn BY DEF InTurn
<1>2. \A p : Listing(p)' = Listing(p) BY DEF Listing
<1>3. \A p \in Procs : in_order'[p] = in_order[p] OBVIOUS
<1>4. NameAt(dir_read_idx_new)' = NameAt(dir_read_idx_new) BY DEF NameAt
<1> QED BY <1>1, <1>2, <1>3, <1>4 DEF TurnInv, TurnTypes, OneLister, CursorFollows, CopyFollows

(* Close and Execute start the count of their process anew, which in turn   *)
(* is not one that lists.                                                   *)
LEMMA TurnUnlisted ==
  ASSUME TurnInv, NEW p \in Procs, pc[p] = "idle", "partial_list" \in env \/ ~Listing(p),
         Unlisted(p), UNCHANGED <<env, dir_read_idx_new, pc, name, len, reg>>
  PROVE  TurnInv'
<1>t. TurnTypes' BY DEF TurnInv, TurnTypes, Unlisted
<1>1. CASE InTurn
  <2>1. ~Listing(p) BY <1>1 DEF InTurn
  <2>2. listed' = listed /\ \A q \in Procs : in_order'[q] = in_order[q] \/ in_order'[q] = TRUE
    BY <2>1 DEF Listing, Unlisted, TurnInv, TurnTypes
  <2>3. \A q : Listing(q)' = Listing(q) BY <2>2 DEF Listing
  <2>4. NameAt(dir_read_idx_new)' = NameAt(dir_read_idx_new) BY DEF NameAt
  <2>5. OneLister' BY <1>1, <2>3 DEF TurnInv, OneLister
  <2>6. CursorFollows' BY <1>1, <2>2, <2>3 DEF TurnInv, CursorFollows
  <2>7. CopyFollows' BY <1>1, <2>4 DEF TurnInv, CopyFollows
  <2>8. \A q \in Procs : in_order'[q] BY <1>1, <2>2 DEF TurnInv
  <2> QED BY <1>1, <1>t, <2>5, <2>6, <2>7, <2>8 DEF TurnInv, InTurn
<1>2. CASE ~InTurn
  <2>1. ~InTurn' BY <1>2 DEF InTurn
  <2> QED BY <1>t, <2>1 DEF TurnInv
<1> QED BY <1>1, <1>2

(* Whoever reads the directory in turn is the only one that lists it.       *)
LEMMA TurnAlone ==
  ASSUME TurnInv, InTurn, NEW p \in Procs, MayList(p) \/ Listing(p)
  PROVE  /\ \A q \in Procs \ {p} : ~Listing(q)
         /\ dir_read_idx_new = listed[p]
<1>1. \A q \in Procs \ {p} : ~Listing(q)
  <2>1. CASE MayList(p) BY <2>1 DEF MayList, InTurn
  <2>2. CASE Listing(p) BY <2>2 DEF TurnInv, OneLister
  <2> QED BY <2>1, <2>2
<1>2. CASE Listing(p) BY <1>1, <1>2 DEF TurnInv, CursorFollows
<1>3. CASE ~Listing(p)
  <2>1. dir_read_idx_new = 0 BY <1>1, <1>3 DEF TurnInv, CursorFollows
  <2> QED BY <1>1, <1>3, <2>1 DEF Listing
<1> QED BY <1>1, <1>2, <1>3

\* The end of the directory: whoever is told has read all of it.
LEMMA TurnEnd ==
  ASSUME TurnInv, NEW p \in Procs, DirEnd(p)
  PROVE  TurnInv' /\ (InTurn => listed[p] = NumDentries)
<1> USE DirFacts DEF pcbVars, listVars
<1>e. /\ pc[p] = "end" /\ pc' = [pc EXCEPT ![p] = "idle"] /\ Listing(p)
      /\ dir_read_idx_new' = 0
      /\ listed' = [listed EXCEPT ![p] = 0] /\ in_order' = [in_order EXCEPT ![p] = TRUE]
      /\ UNCHANGED <<env, name, len, reg>>
  BY DEF DirEnd, Unlisted, Listing
<1>t. TurnTypes' BY <1>e DEF TurnInv, TurnTypes
<1>1. CASE InTurn
  <2>1. dir_read_idx_new = listed[p] /\ \A q \in Procs \ {p} : ~Listing(q)
    BY <1>1, <1>e, TurnAlone
  <2>2. listed[p] = NumDentries BY <1>1, <1>e, <2>1 DEF TurnInv, TurnTypes, CopyFollows
  <2>3. ASSUME NEW q \in Procs PROVE ~Listing(q)' /\ pc'[q] = "idle" /\ in_order'[q]
    <3>1. CASE q = p BY <3>1, <1>e DEF Listing, TurnInv, TurnTypes
    <3>2. CASE q # p
      <4>1. ~Listing(q) BY <3>2, <2>1
      <4> QED BY <3>2, <4>1, <1>1, <1>e DEF Listing, TurnInv, TurnTypes
    <3> QED BY <3>1, <3>2
  <2>4. OneLister' /\ CursorFollows' /\ CopyFollows'
    BY <2>3, <1>e DEF OneLister, CursorFollows, CopyFollows
  <2> QED BY <1>e, <1>t, <2>2, <2>3, <2>4 DEF TurnInv
<1>2. CASE ~InTurn
  <2>1. ~InTurn' BY <1>2, <1>e DEF InTurn
  <2> QED BY <1>t, <1>2, <2>1 DEF TurnInv
<1> QED BY <1>1, <1>2

\* The test of the cursor, the two reads of the entry there and the load of the increment.
LEMMA TurnWalk ==
  ASSUME TurnInv, NEW p \in Procs, DirTest(p) \/ DirCopy(p) \/ DirLength(p) \/ DirLoad(p)
  PROVE  TurnInv'
<1> USE DirFacts DEF pcbVars, listVars
<1>u. UNCHANGED <<env, dir_read_idx_new, listed, in_order>>
  BY DEF DirTest, DirCopy, DirLength, DirLoad
<1>p. PICK c \in {"end", "copy", "length", "load", "store"} :
        pc' = [pc EXCEPT ![p] = c] /\ (MayList(p) \/ Listing(p))
  BY DEF DirTest, DirCopy, DirLength, DirLoad, Listing
<1>n. /\ DOMAIN name' = Procs /\ DOMAIN len' = Procs /\ reg' \in [Procs -> Nat]
      /\ \A q \in Procs \ {p} : name'[q] = name[q] /\ len'[q] = len[q]
  BY DEF DirTest, DirCopy, DirLength, DirLoad, TurnInv, TurnTypes
<1>t. TurnTypes' BY <1>u, <1>p, <1>n DEF TurnInv, TurnTypes
<1>1. CASE InTurn
  <2>0. NameAt(dir_read_idx_new)' = NameAt(dir_read_idx_new) BY <1>u DEF NameAt
  <2>1. dir_read_idx_new = listed[p] /\ \A q \in Procs \ {p} : ~Listing(q)
    BY <1>1, <1>p, TurnAlone
  <2>2. \A q \in Procs \ {p} : ~Listing(q)'
    BY <2>1, <1>p, <1>u DEF Listing, TurnInv, TurnTypes
  <2>3. Listing(p)' BY <1>p DEF Listing, TurnInv, TurnTypes
  <2>4. OneLister' BY <2>2 DEF OneLister
  <2>5. CursorFollows' BY <2>1, <2>2, <2>3, <1>u DEF CursorFollows
  <2>6. \A q \in Procs \ {p} : pc'[q] = "idle" BY <2>2 DEF Listing
  <2>7. /\ pc'[p] = "end" => dir_read_idx_new >= NumDentries
        /\ pc'[p] # "end" => dir_read_idx_new < NumDentries
        /\ pc'[p] \in {"length", "load", "store"} => name'[p] = NameAt(dir_read_idx_new)
        /\ pc'[p] \in {"load", "store"} => len'[p] = NameAt(dir_read_idx_new)
        /\ pc'[p] = "store" => reg'[p] = dir_read_idx_new
    <3>1. CASE DirTest(p)
      <4>1. pc'[p] = IF AtEnd THEN "end" ELSE "copy" BY <3>1 DEF DirTest, TurnInv, TurnTypes
      <4>2. dir_read_idx_new \in Nat BY DEF TurnInv, TurnTypes
      <4> QED BY <4>1, <4>2 DEF AtEnd
    <3>2. CASE DirCopy(p) BY <3>2, <1>1 DEF DirCopy, TurnInv, TurnTypes, CopyFollows
    <3>3. CASE DirLength(p) BY <3>3, <1>1 DEF DirLength, TurnInv, TurnTypes, CopyFollows
    <3>4. CASE DirLoad(p) BY <3>4, <1>1 DEF DirLoad, TurnInv, TurnTypes, CopyFollows
    <3> QED BY <3>1, <3>2, <3>3, <3>4
  <2>8. CopyFollows' BY <2>0, <2>6, <2>7, <1>u DEF CopyFollows
  <2> QED BY <1>1, <1>t, <1>u, <2>4, <2>5, <2>8 DEF TurnInv
<1>2. CASE ~InTurn
  <2>1. ~InTurn' BY <1>2, <1>u DEF InTurn
  <2> QED BY <1>t, <2>1 DEF TurnInv
<1> QED BY <1>1, <1>2

\* The name that is returned is the next one, and the cursor moves on with the count.
LEMMA TurnStore ==
  ASSUME TurnInv, NEW p \in Procs, DirStore(p)
  PROVE  TurnInv'
<1> USE DirFacts DEF pcbVars, listVars
<1>e. /\ pc[p] = "store" /\ pc' = [pc EXCEPT ![p] = "idle"]
      /\ dir_read_idx_new' = Index(reg[p] + 1)
      /\ listed' = [listed EXCEPT ![p] = Smaller(@ + 1, MaxListed)]
      /\ in_order' = [in_order EXCEPT ![p] = @ /\ (InTurn => NextListed(p))]
      /\ UNCHANGED env
      /\ DOMAIN name' = Procs /\ DOMAIN len' = Procs /\ reg' \in [Procs -> Nat]
  BY DEF DirStore, TurnInv, TurnTypes
<1>b. MaxCursor \in Nat /\ MaxCursor > NumDentries BY ConstantsAssumption
<1>t. TurnTypes'
  <2>1. Smaller(listed[p] + 1, MaxListed) \in Nat /\ Index(reg[p] + 1) \in Nat
    BY <1>b DEF TurnInv, TurnTypes, Smaller, Index, MaxListed
  <2> QED BY <1>e, <2>1 DEF TurnInv, TurnTypes
<1>1. CASE InTurn
  <2>0. Listing(p) BY <1>e DEF Listing
  <2>1. dir_read_idx_new = listed[p] /\ \A q \in Procs \ {p} : ~Listing(q)
    BY <1>1, <2>0, TurnAlone
  <2>2. dir_read_idx_new < NumDentries BY <1>1, <1>e DEF TurnInv, CopyFollows
  <2>3. NextListed(p)
    <3>1. name[p] = NameAt(dir_read_idx_new) /\ len[p] = NameAt(dir_read_idx_new)
      BY <1>1, <1>e DEF TurnInv, CopyFollows
    <3>2. listed[p] \in Nat /\ listed[p] + 1 \in Entries
      BY <2>1, <2>2 DEF TurnInv, TurnTypes, Entries
    <3> QED BY <2>1, <2>2, <3>1, <3>2 DEF NextListed, NameAt
  <2>4. ASSUME NEW q \in Procs \ {p} PROVE ~Listing(q)' /\ in_order'[q]
    <3>1. ~Listing(q) /\ in_order[q] BY <2>1, <1>1 DEF TurnInv
    <3> QED BY <1>e, <3>1 DEF Listing, TurnInv, TurnTypes
  <2>5. in_order'[p] BY <1>1, <1>e, <2>3 DEF TurnInv, TurnTypes
  <2>6. /\ listed'[p] = listed[p] + 1 /\ listed[p] \in Nat
        /\ dir_read_idx_new' = dir_read_idx_new + 1
    <3>1. reg[p] = dir_read_idx_new BY <1>1, <1>e DEF TurnInv, CopyFollows
    <3>0. dir_read_idx_new \in Nat BY DEF TurnInv, TurnTypes
    <3>2. Index(reg[p] + 1) = dir_read_idx_new + 1
      BY <1>b, <2>2, <3>0, <3>1 DEF Smaller, Index
    <3>3. Smaller(listed[p] + 1, MaxListed) = listed[p] + 1
      BY <1>1, <2>1, <2>2 DEF TurnInv, TurnTypes, Smaller, MaxListed
    <3> QED BY <1>e, <3>2, <3>3 DEF TurnInv, TurnTypes
  <2>7. Listing(p)' BY <2>6 DEF Listing
  <2>8. OneLister' BY <2>4 DEF OneLister
  <2>9. CursorFollows' BY <2>1, <2>4, <2>6, <2>7 DEF CursorFollows
  <2>10. \A q \in Procs : pc'[q] = "idle"
    BY <1>e, <2>1 DEF Listing, TurnInv, TurnTypes
  <2>11. CopyFollows' BY <2>10 DEF CopyFollows
  <2>12. dir_read_idx_new' <= NumDentries BY <2>2, <2>6 DEF TurnInv, TurnTypes
  <2>13. \A q \in Procs : in_order'[q] BY <2>4, <2>5
  <2> QED BY <1>t, <2>8, <2>9, <2>11, <2>12, <2>13 DEF TurnInv
<1>2. CASE ~InTurn
  <2>1. ~InTurn' BY <1>2, <1>e DEF InTurn
  <2> QED BY <1>t, <2>1 DEF TurnInv
<1> QED BY <1>1, <1>2

\* Every step keeps TurnInv.
LEMMA TurnStep == TurnInv /\ [Next]_vars => TurnInv'
<1> SUFFICES ASSUME TurnInv, [Next]_vars PROVE TurnInv' OBVIOUS
<1> USE DEF pcbVars, listVars
<1>1. ASSUME NEW p \in Procs, NEW e \in Entries, Open(p, e) PROVE TurnInv'
  BY <1>1, TurnSame DEF Open
<1>2. ASSUME NEW p \in Procs, OpenStd(p) PROVE TurnInv'
  BY <1>2, TurnSame DEF OpenStd
<1>3. ASSUME NEW p \in Procs, Close(p) \/ Execute(p) PROVE TurnInv'
  BY <1>3, TurnUnlisted DEF Close, Execute
<1>4. ASSUME NEW p \in Procs, NEW fd \in FDs, NEW n \in Requests, Read(p, fd, n)
      PROVE TurnInv'
  BY <1>4, TurnSame DEF Read
<1>5. ASSUME NEW p \in Procs, Lister(p) PROVE TurnInv'
  BY <1>5, TurnEnd, TurnWalk, TurnStore DEF Lister, InRead
<1>6. CASE UNCHANGED vars BY <1>6, TurnSame DEF vars
<1> QED BY <1>1, <1>2, <1>3, <1>4, <1>5, <1>6 DEF Next

\* When programs read the directory in turn, each to its end, every one is given all names
\* from the first on, in order and each with its own length, although dir_readnew reads the
\* shared cursor four times.
THEOREM ListingInOrder == Spec => []ListsInOrder
<1>1. TurnInv => ListsInOrder BY DEF TurnInv, ListsInOrder
<1> QED BY <1>1, TurnInit, TurnStep, PTL DEF Spec

\* And the end of the directory is told to nobody who has not read all of its names.
THEOREM ListingComplete == Spec => ListsAll
<1>1. TurnInv => [InTurn => \A p \in Procs : DirEnd(p) => listed[p] = NumDentries]_vars
  BY TurnEnd
<1> QED BY <1>1, TurnInit, TurnStep, PTL DEF Spec, ListsAll
=============================================================================
