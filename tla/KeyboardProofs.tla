--------------------------- MODULE KeyboardProofs ---------------------------
(***************************************************************************)
(* keyboard_read stays inside keyboard_buf, for every length of the buffer,*)
(* every number of terminals and every behaviour of the user.  When users  *)
(* wait for the program (Turns) the echo is in step with the line, and     *)
(* without any of the unusual inputs the buffers of all terminals and      *)
(* keyboard_read implement LineDiscipline.                                 *)
(***************************************************************************)
EXTENDS Keyboard, SequenceTheorems, TLAPS

(* The cell behind the longest line is never written by a character, by     *)
(* memset or by memcpy: it is what stops the copy loop.  A loop that has    *)
(* passed it has seen the new line in it, which stays.                      *)
PastLast(t) == i[t] = MAX_BUF_SIZE + 1 \/ (i[t] = MAX_BUF_SIZE /\ pc[t] \in {"prev", "cell"})

LastCellStops ==
  /\ keyboard_buf[MAX_BUF_SIZE] \in {NUL, NL}
  /\ \A t \in Terms : PastLast(t) => keyboard_buf[MAX_BUF_SIZE] = NL
  /\ \A t \in Terms : pc[t] = "cell" => i[t] <= MAX_BUF_SIZE

IInv == TypeOK /\ IndexInBuffer /\ NoNewLineInside /\ CopyInBuffer /\ LastCellStops

\* The buffers after keyboard_init.
LEMMA InitInv == Init => IInv
<1> SUFFICES ASSUME Init PROVE IInv OBVIOUS
<1> USE ConstantsAssumption DEF Init
<1>1. TypeOK BY DEF TypeOK, Buffer, Byte, Saved, Cells, PCs
<1>2. IndexInBuffer /\ NoNewLineInside /\ CopyInBuffer
  BY DEF IndexInBuffer, NoNewLineInside, CopyInBuffer
<1>3. LastCellStops BY DEF LastCellStops, PastLast
<1> QED BY <1>1, <1>2, <1>3 DEF IInv

\* A character is stored below the last cell, and the line grows to at most that cell.
LEMMA StoreInv ==
  ASSUME IInv, NEW c \in Chars \cup {SP}, Store(c),
         UNCHANGED <<term_enter, savedVars, termVars, readVars>>
  PROVE  IInv'
<1> USE ConstantsAssumption DEF savedVars, termVars, readVars, Store
<1>0. /\ keyboard_idx \in 0 .. MAX_BUF_SIZE - 1
      /\ keyboard_idx' = keyboard_idx + 1
      /\ c \in Cells /\ c # NL
      /\ keyboard_buf \in Buffer /\ last_idx \in Byte
  <2>1. keyboard_idx \in 0 .. MAX_BUF_SIZE - 1
    BY DEF IInv, TypeOK, IndexInBuffer, Byte
  <2>2. keyboard_idx + 1 \in 0 .. UINT8 - 1 BY <2>1
  <2>3. (keyboard_idx + 1) % UINT8 = keyboard_idx + 1 BY <2>2
  <2>4. keyboard_idx' = keyboard_idx + 1 BY <2>3
  <2>5. c \in Cells /\ c # NL BY DEF Cells, NL, SP
  <2>6. keyboard_buf \in Buffer /\ last_idx \in Byte BY DEF IInv, TypeOK
  <2> QED BY <2>1, <2>4, <2>5, <2>6
<1>1. last_idx' \in Byte BY <1>0 DEF Byte
<1>2. keyboard_buf' \in Buffer BY <1>0 DEF Buffer
<1>x. keyboard_idx' \in Byte BY <1>0 DEF Byte
<1>3. TypeOK'
  <2> HIDE DEF Store
  <2> QED BY <1>1, <1>2, <1>x DEF IInv, TypeOK
<1>4. IndexInBuffer' BY <1>0 DEF IInv, IndexInBuffer
<1>5. NoNewLineInside' BY <1>0 DEF IInv, NoNewLineInside, Buffer
<1>6. CopyInBuffer' BY DEF IInv, CopyInBuffer
<1>7. LastCellStops' BY <1>0 DEF IInv, LastCellStops, PastLast, Buffer
<1> QED BY <1>3, <1>4, <1>5, <1>6, <1>7 DEF IInv

\* Blanking leaves the last cell, and leaves no new line in a line that is empty or kept.
LEMMA BlankedFacts ==
  ASSUME NEW b \in Buffer
  PROVE  /\ Blanked(b) \in Buffer
         /\ Blanked(b)[MAX_BUF_SIZE] = b[MAX_BUF_SIZE]
         /\ \A k \in 0 .. MAX_BUF_SIZE - 1 : Blanked(b)[k] # NL
<1> USE ConstantsAssumption
<1>1. SP \in Cells /\ SP # NL BY DEF Cells, SP, NL
<1>2. b \in [0 .. MAX_BUF_SIZE -> Cells] BY DEF Buffer
<1>3. Blanked(b) \in Buffer BY <1>1, <1>2 DEF Blanked, Buffer
<1>4. Blanked(b)[MAX_BUF_SIZE] = b[MAX_BUF_SIZE] BY DEF Blanked
<1>5. \A k \in 0 .. MAX_BUF_SIZE - 1 : Blanked(b)[k] # NL BY <1>1 DEF Blanked
<1> QED BY <1>3, <1>4, <1>5

\* Saving the live line into a terminal keeps the facts about saved lines.
LEMMA SaveFacts ==
  ASSUME IInv, save_terminal_state
  PROVE  /\ input_buf' \in [Terms -> Saved]
         /\ keyboard_index' \in [Terms -> Byte]
         /\ keyboard_last_index' \in [Terms -> Byte]
         /\ \A t \in Terms : keyboard_index'[t] <= MAX_BUF_SIZE
         /\ \A t \in Terms : \A k \in 0 .. keyboard_index'[t] - 1 : input_buf'[t][k] # NL
<1> USE ConstantsAssumption
<1> DEFINE b == [k \in 0 .. MAX_BUF_SIZE - 1 |-> keyboard_buf[k]]
<1>1. b \in Saved BY DEF IInv, TypeOK, Buffer, Saved
<1>2. /\ input_buf' = [input_buf EXCEPT ![disp] = b]
      /\ keyboard_index' = [keyboard_index EXCEPT ![disp] = keyboard_idx]
      /\ keyboard_last_index' = [keyboard_last_index EXCEPT ![disp] = last_idx]
  BY DEF save_terminal_state
<1>3. disp \in Terms BY DEF disp, IInv, TypeOK
<1>4. \A k \in 0 .. keyboard_idx - 1 : b[k] # NL
  <2>1. keyboard_idx \in 0 .. MAX_BUF_SIZE BY DEF IInv, TypeOK, IndexInBuffer, Byte
  <2>2. \A k \in 0 .. keyboard_idx - 1 : keyboard_buf[k] # NL BY DEF IInv, NoNewLineInside
  <2> QED BY <2>1, <2>2
<1> HIDE DEF b
<1>5. input_buf' \in [Terms -> Saved] BY <1>1, <1>2, <1>3 DEF IInv, TypeOK
<1>6. keyboard_index' \in [Terms -> Byte] /\ keyboard_last_index' \in [Terms -> Byte]
  BY <1>2, <1>3 DEF IInv, TypeOK
<1>7. \A t \in Terms : keyboard_index'[t] <= MAX_BUF_SIZE
  BY <1>2, <1>3 DEF IInv, TypeOK, IndexInBuffer
<1>8. \A t \in Terms : \A k \in 0 .. keyboard_index'[t] - 1 : input_buf'[t][k] # NL
  BY <1>2, <1>3, <1>4 DEF IInv, TypeOK, NoNewLineInside
<1> QED BY <1>5, <1>6, <1>7, <1>8

\* The steps of keyboard_handler.
LEMMA HandlerInv == IInv /\ Handler => IInv'
<1> SUFFICES ASSUME IInv, Handler PROVE IInv' OBVIOUS
<1> USE ConstantsAssumption DEF liveVars, savedVars, termVars, readVars
<1>d. disp \in Terms /\ keyboard_idx \in 0 .. MAX_BUF_SIZE /\ keyboard_buf \in Buffer
  BY DEF disp, IInv, TypeOK, IndexInBuffer, Byte
<1>1. ASSUME NEW c \in Chars, Key(c) PROVE IInv'
  BY <1>1, StoreInv DEF Key
<1>2. CASE Enter
  <2>1. keyboard_buf' \in Buffer /\ term_enter' \in [Terms -> BOOLEAN]
    BY <1>2, <1>d DEF Enter, Buffer, Cells, IInv, TypeOK
  <2>2. TypeOK' BY <1>2, <2>1 DEF Enter, IInv, TypeOK
  <2>3. IndexInBuffer' /\ CopyInBuffer' BY <1>2 DEF Enter, IInv, IndexInBuffer, CopyInBuffer
  <2>4. NoNewLineInside' BY <1>2, <1>d DEF Enter, IInv, NoNewLineInside, Buffer
  <2>5. LastCellStops' BY <1>2, <1>d DEF Enter, IInv, LastCellStops, PastLast, Buffer
  <2> QED BY <2>2, <2>3, <2>4, <2>5 DEF IInv
<1>3. CASE Backspace
  <2>1. /\ keyboard_idx \in 1 .. MAX_BUF_SIZE /\ keyboard_idx' = keyboard_idx - 1
        /\ keyboard_buf' = [keyboard_buf EXCEPT ![keyboard_idx - 1] = NUL]
    BY <1>3, <1>d DEF Backspace
  <2>2. keyboard_buf' \in Buffer BY <2>1, <1>d DEF Buffer, Cells
  <2>3. last_idx' \in Byte BY <1>3 DEF Backspace, IInv, TypeOK, Byte
  <2>4. keyboard_idx' \in Byte BY <2>1 DEF Byte
  <2>5. TypeOK' BY <1>3, <2>2, <2>3, <2>4 DEF Backspace, IInv, TypeOK
  <2>6. IndexInBuffer' /\ CopyInBuffer'
    BY <1>3, <2>1 DEF Backspace, IInv, IndexInBuffer, CopyInBuffer
  <2>7. NoNewLineInside'
    BY <1>3, <1>d, <2>1 DEF Backspace, IInv, NoNewLineInside, Buffer, NUL, NL
  <2>8. LastCellStops' BY <1>3, <1>d, <2>1 DEF Backspace, IInv, LastCellStops, PastLast, Buffer
  <2> QED BY <2>5, <2>6, <2>7, <2>8 DEF IInv
<1>4. CASE BackspaceAtOrigin
  BY <1>4, StoreInv DEF BackspaceAtOrigin
<1>5. CASE CtrlL
  <2>1. /\ keyboard_buf' \in Buffer
        /\ keyboard_buf'[MAX_BUF_SIZE] = keyboard_buf[MAX_BUF_SIZE]
    BY <1>5, <1>d, BlankedFacts DEF CtrlL
  <2>2. keyboard_idx' = 0 /\ last_idx' = 0 /\ 0 \in Byte BY <1>5 DEF CtrlL, Byte
  <2>3. TypeOK' BY <1>5, <2>1, <2>2 DEF CtrlL, IInv, TypeOK
  <2>4. IndexInBuffer' /\ NoNewLineInside' /\ CopyInBuffer'
    BY <1>5, <2>2 DEF CtrlL, IInv, IndexInBuffer, NoNewLineInside, CopyInBuffer
  <2>5. LastCellStops' BY <1>5, <2>1 DEF CtrlL, IInv, LastCellStops, PastLast
  <2> QED BY <2>3, <2>4, <2>5 DEF IInv
<1>6. ASSUME NEW t \in Terms, SwitchActive(t) PROVE IInv'
  <2>1. /\ save_terminal_state
        /\ keyboard_buf' = [k \in 0 .. MAX_BUF_SIZE |->
                              IF k < MAX_BUF_SIZE THEN input_buf[t][k] ELSE keyboard_buf[k]]
        /\ last_idx' = keyboard_last_index[t]
        /\ keyboard_idx' = keyboard_index[t]
        /\ curr_terminal_number' = t
        /\ UNCHANGED <<term_enter, active, readVars>>
    BY <1>6 DEF SwitchActive, restore_terminal_state
  <2>2. /\ input_buf[t] \in Saved
        /\ keyboard_index[t] \in 0 .. MAX_BUF_SIZE
        /\ keyboard_index[t] \in Byte /\ keyboard_last_index[t] \in Byte
        /\ \A k \in 0 .. keyboard_index[t] - 1 : input_buf[t][k] # NL
    BY DEF IInv, TypeOK, IndexInBuffer, NoNewLineInside, Byte
  <2>3. /\ keyboard_buf' \in Buffer
        /\ keyboard_buf'[MAX_BUF_SIZE] = keyboard_buf[MAX_BUF_SIZE]
        /\ \A k \in 0 .. MAX_BUF_SIZE - 1 : keyboard_buf'[k] = input_buf[t][k]
    BY <2>1, <2>2, <1>d DEF Saved, Buffer
  <2>4. TypeOK' BY <2>1, <2>2, <2>3, SaveFacts DEF IInv, TypeOK
  <2>5. IndexInBuffer' BY <2>1, <2>2, SaveFacts DEF IndexInBuffer
  <2>6. NoNewLineInside'
    BY <2>1, <2>2, <2>3, SaveFacts DEF IInv, NoNewLineInside
  <2>7. CopyInBuffer' /\ LastCellStops'
    BY <2>1, <2>3 DEF IInv, CopyInBuffer, LastCellStops, PastLast
  <2> QED BY <2>4, <2>5, <2>6, <2>7 DEF IInv
<1>7. ASSUME NEW t \in Terms, SwitchFresh(t) PROVE IInv'
  <2>1. /\ save_terminal_state
        /\ curr_terminal_number' = t
        /\ active' = [active EXCEPT ![t] = TRUE]
        /\ UNCHANGED <<liveVars, term_enter, readVars>>
    BY <1>7 DEF SwitchFresh
  <2>2. TypeOK' BY <2>1, SaveFacts DEF IInv, TypeOK
  <2>3. IndexInBuffer' /\ NoNewLineInside'
    BY <2>1, SaveFacts DEF IInv, IndexInBuffer, NoNewLineInside
  <2>4. CopyInBuffer' /\ LastCellStops'
    BY <2>1 DEF IInv, CopyInBuffer, LastCellStops, PastLast
  <2> QED BY <2>2, <2>3, <2>4 DEF IInv
<1> QED BY <1>1, <1>2, <1>3, <1>4, <1>5, <1>6, <1>7 DEF Handler

\* The steps of keyboard_read.
LEMMA ReaderInv == ASSUME IInv, NEW t \in Terms, Call(t) \/ Reader(t) PROVE IInv'
<1> USE ConstantsAssumption DEF liveVars, savedVars, termVars
<1>d. keyboard_idx \in 0 .. MAX_BUF_SIZE /\ keyboard_buf \in Buffer
  BY DEF IInv, TypeOK, IndexInBuffer, Byte
<1>e. <<>> \in Seq(Cells) OBVIOUS
<1>1. CASE Call(t)
  <2>1. TypeOK' BY <1>1, <1>e DEF Call, IInv, TypeOK, PCs
  <2> QED BY <1>1, <2>1
      DEF Call, IInv, TypeOK, IndexInBuffer, NoNewLineInside, CopyInBuffer, LastCellStops, PastLast
<1>2. CASE Woken(t)
  <2>1. TypeOK' BY <1>2 DEF Woken, IInv, TypeOK, PCs, Reading
  <2> QED BY <1>2, <2>1
      DEF Woken, IInv, TypeOK, IndexInBuffer, NoNewLineInside, CopyInBuffer, LastCellStops, PastLast
<1>3. CASE Fetch(t)
  <2>0. i' \in [Terms -> Nat] /\ pc' \in [Terms -> PCs]
    BY <1>3, <1>d DEF Fetch, IInv, TypeOK, PCs, Reading
  <2>1. TypeOK' BY <1>3, <2>0 DEF Fetch, IInv, TypeOK
  <2>2. IndexInBuffer' /\ NoNewLineInside' BY <1>3 DEF Fetch, IInv, IndexInBuffer, NoNewLineInside
  <2>3. /\ i'[t] \in 0 .. MAX_BUF_SIZE /\ pc'[t] = "scan" /\ keyboard_buf' = keyboard_buf
        /\ \A u \in Terms : u # t => i'[u] = i[u] /\ pc'[u] = pc[u]
    BY <1>3, <1>d DEF Fetch, IInv, TypeOK
  <2>4. CopyInBuffer' BY <2>3 DEF IInv, CopyInBuffer
  <2>5. LastCellStops' BY <2>3 DEF IInv, LastCellStops, PastLast
  <2> QED BY <2>1, <2>2, <2>4, <2>5 DEF IInv
<1>4. CASE Scan(t) \/ ScanEnd(t)
  <2>0. /\ i[t] \in 0 .. MAX_BUF_SIZE + 1 /\ i \in [Terms -> Nat] /\ pc \in [Terms -> PCs]
        /\ pc[t] = "scan" /\ {"scan", "copy"} \subseteq PCs
    BY <1>4 DEF Scan, ScanEnd, IInv, TypeOK, CopyInBuffer, PCs, Reading, Copying
  <2>a. PICK n \in 0 .. i[t] : i' = [i EXCEPT ![t] = n]
    <3>1. i = [i EXCEPT ![t] = i[t]] BY <2>0
    <3>2. CASE i' = i BY <2>0, <3>1, <3>2
    <3>3. CASE i[t] > 0 /\ i' = [i EXCEPT ![t] = i[t] - 1]
      <4>1. i[t] - 1 \in 0 .. i[t] BY <2>0, <3>3
      <4> QED BY <3>3, <4>1
    <3> QED BY <1>4, <3>2, <3>3 DEF Scan, ScanEnd
  <2>b. PICK p \in {"scan", "copy"} : pc' = [pc EXCEPT ![t] = p]
    <3>1. pc = [pc EXCEPT ![t] = "scan"] BY <2>0
    <3> QED BY <1>4, <3>1 DEF Scan, ScanEnd
  <2>c. n \in Nat BY <2>0, <2>a
  <2>1. /\ i[t] \in 0 .. MAX_BUF_SIZE + 1 /\ i'[t] \in 0 .. i[t] /\ i' \in [Terms -> Nat]
        /\ \A u \in Terms : u # t => i'[u] = i[u] /\ pc'[u] = pc[u]
        /\ pc'[t] \in {"scan", "copy"} /\ pc' \in [Terms -> PCs]
    BY <2>0, <2>a, <2>b, <2>c
  <2>2. j' \in [Terms -> Nat] /\ count' \in [Terms -> {0, 1}]
    BY <1>4 DEF Scan, ScanEnd, IInv, TypeOK
  <2>3. TypeOK' BY <1>4, <2>1, <2>2 DEF Scan, ScanEnd, IInv, TypeOK
  <2>4. IndexInBuffer' /\ NoNewLineInside'
    BY <1>4 DEF Scan, ScanEnd, IInv, IndexInBuffer, NoNewLineInside
  <2>5. keyboard_buf' = keyboard_buf BY <1>4 DEF Scan, ScanEnd
  <2>6. CopyInBuffer' BY <2>1 DEF IInv, CopyInBuffer
  <2>7. LastCellStops' BY <2>1, <2>5 DEF IInv, LastCellStops, PastLast
  <2> QED BY <2>3, <2>4, <2>6, <2>7 DEF IInv
<1>5. CASE TestCell(t) \/ TestPrev(t)
  <2>1. /\ i[t] \in 0 .. MAX_BUF_SIZE + 1 /\ i' = i /\ keyboard_buf' = keyboard_buf
        /\ \A u \in Terms : u # t => pc'[u] = pc[u]
        /\ pc' \in [Terms -> PCs]
    <3>1. i[t] \in 0 .. MAX_BUF_SIZE + 1 BY DEF IInv, TypeOK, CopyInBuffer
    <3>2. pc \in [Terms -> PCs] /\ {"prev", "cell"} \subseteq PCs
      BY DEF IInv, TypeOK, PCs, Reading, Copying
    <3> QED BY <1>5, <3>1, <3>2 DEF TestCell, TestPrev
  <2>2. TypeOK' BY <1>5, <2>1 DEF TestCell, TestPrev, IInv, TypeOK
  <2>3. IndexInBuffer' /\ NoNewLineInside' /\ CopyInBuffer'
    BY <1>5 DEF TestCell, TestPrev, IInv, IndexInBuffer, NoNewLineInside, CopyInBuffer
  <2>4. PastLast(t)' => keyboard_buf[MAX_BUF_SIZE] = NL
    <3>1. CASE i[t] = MAX_BUF_SIZE + 1 BY <3>1 DEF IInv, LastCellStops, PastLast
    <3>2. CASE i[t] = MAX_BUF_SIZE /\ TestCell(t)
      BY <3>2, <1>d DEF IInv, LastCellStops, TestCell, AtNul, Cell
    <3>3. CASE i[t] = MAX_BUF_SIZE /\ TestPrev(t)
      BY <3>3 DEF IInv, LastCellStops, PastLast, TestPrev
    <3> QED BY <1>5, <2>1, <3>1, <3>2, <3>3 DEF PastLast
  <2>5. pc'[t] = "cell" => i[t] # MAX_BUF_SIZE + 1
    <3>1. CASE TestCell(t) BY <3>1 DEF TestCell, IInv, TypeOK
    <3>2. CASE TestPrev(t) /\ i[t] = MAX_BUF_SIZE + 1
      <4>1. Cell(i[t] - 1) = NL BY <3>2 DEF IInv, LastCellStops, PastLast, Cell
      <4> QED BY <3>2, <4>1 DEF TestPrev, BehindLine
    <3> QED BY <1>5, <3>1, <3>2
  <2>6. LastCellStops'
    BY <2>1, <2>4, <2>5 DEF IInv, LastCellStops, PastLast
  <2> QED BY <2>2, <2>3, <2>6 DEF IInv
<1>6. CASE Copy(t)
  <2>1. /\ i[t] \in 0 .. MAX_BUF_SIZE /\ i \in [Terms -> Nat]
        /\ i' = [i EXCEPT ![t] = i[t] + 1] /\ keyboard_buf' = keyboard_buf
        /\ pc'[t] = "copy" /\ pc' \in [Terms -> PCs]
        /\ \A u \in Terms : u # t => pc'[u] = pc[u]
    BY <1>6 DEF Copy, IInv, TypeOK, LastCellStops, PCs, Reading, Copying
  <2>2. Cell(i[t]) \in Cells BY <2>1, <1>d DEF Cell, Buffer
  <2>3. i[t] = MAX_BUF_SIZE => keyboard_buf[MAX_BUF_SIZE] = NL
    BY <1>6 DEF Copy, IInv, LastCellStops, PastLast
  <2>4. buf' \in [Terms -> Seq(Cells)] BY <1>6, <2>2 DEF Copy, IInv, TypeOK
  <2>5. i' \in [Terms -> Nat] BY <2>1
  <2>6. TypeOK' BY <1>6, <2>1, <2>4, <2>5 DEF Copy, IInv, TypeOK
  <2>7. IndexInBuffer' /\ NoNewLineInside'
    BY <1>6 DEF Copy, IInv, IndexInBuffer, NoNewLineInside
  <2>8. CopyInBuffer' BY <2>1 DEF IInv, CopyInBuffer
  <2>9. LastCellStops' BY <2>1, <2>3 DEF IInv, LastCellStops, PastLast
  <2> QED BY <2>6, <2>7, <2>8, <2>9 DEF IInv
<1>7. CASE Terminate(t)
  <2>1. TypeOK' BY <1>7, <1>e DEF Terminate, IInv, TypeOK, PCs
  <2>2. IndexInBuffer' /\ NoNewLineInside'
    BY <1>7 DEF Terminate, IInv, TypeOK, IndexInBuffer, NoNewLineInside
  <2>3. /\ i'[t] = 0 /\ pc'[t] = "enter" /\ keyboard_buf' = keyboard_buf
        /\ \A u \in Terms : u # t => i'[u] = i[u] /\ pc'[u] = pc[u]
    BY <1>7 DEF Terminate, IInv, TypeOK
  <2>4. CopyInBuffer' BY <2>3 DEF IInv, CopyInBuffer
  <2>5. LastCellStops' BY <2>3 DEF IInv, LastCellStops, PastLast
  <2> QED BY <2>1, <2>2, <2>4, <2>5 DEF IInv
<1>8. CASE ClearEnter(t)
  <2>1. TypeOK' BY <1>8 DEF ClearEnter, IInv, TypeOK, PCs
  <2> QED BY <1>8, <2>1
      DEF ClearEnter, IInv, IndexInBuffer, NoNewLineInside, CopyInBuffer, LastCellStops, PastLast,
          TypeOK
<1>9. CASE Blank(t)
  <2>1. /\ keyboard_buf' \in Buffer
        /\ keyboard_buf'[MAX_BUF_SIZE] = keyboard_buf[MAX_BUF_SIZE]
        /\ \A k \in 0 .. MAX_BUF_SIZE - 1 : keyboard_buf'[k] # NL
    BY <1>9, <1>d, BlankedFacts DEF Blank
  <2>2. TypeOK' BY <1>9, <2>1 DEF Blank, IInv, TypeOK, PCs
  <2>3. IndexInBuffer' /\ CopyInBuffer' BY <1>9 DEF Blank, IInv, IndexInBuffer, CopyInBuffer
  <2>4. NoNewLineInside' BY <1>9, <1>d, <2>1 DEF Blank, IInv, NoNewLineInside
  <2>5. LastCellStops' BY <1>9, <2>1 DEF Blank, IInv, TypeOK, LastCellStops, PastLast
  <2> QED BY <2>2, <2>3, <2>4, <2>5 DEF IInv
<1>10. CASE ResetIdx(t)
  <2>1. 0 \in Byte BY DEF Byte
  <2>0. pc' \in [Terms -> PCs] BY <1>10 DEF ResetIdx, IInv, TypeOK, PCs
  <2>2. TypeOK' BY <1>10, <2>0, <2>1 DEF ResetIdx, IInv, TypeOK
  <2>3. IndexInBuffer' /\ NoNewLineInside'
    BY <1>10 DEF ResetIdx, IInv, IndexInBuffer, NoNewLineInside
  <2>4. CopyInBuffer' BY <1>10 DEF ResetIdx, IInv, CopyInBuffer
  <2>5. pc'[t] = "last" /\ \A u \in Terms : u # t => pc'[u] = pc[u]
    BY <1>10 DEF ResetIdx, IInv, TypeOK
  <2>6. keyboard_buf' = keyboard_buf /\ i' = i BY <1>10 DEF ResetIdx
  <2>7. LastCellStops' BY <2>5, <2>6 DEF IInv, LastCellStops, PastLast
  <2> QED BY <2>2, <2>3, <2>4, <2>7 DEF IInv
<1>11. CASE ResetLast(t)
  <2>1. 0 \in Byte BY DEF Byte
  <2>2. TypeOK' BY <1>11, <2>1 DEF ResetLast, IInv, TypeOK, PCs
  <2> QED BY <1>11, <2>2
      DEF ResetLast, IInv, IndexInBuffer, NoNewLineInside, CopyInBuffer, LastCellStops, PastLast,
          TypeOK
<1> QED BY <1>1, <1>2, <1>3, <1>4, <1>5, <1>6, <1>7, <1>8, <1>9, <1>10, <1>11 DEF Reader

\* No step breaks the invariant.
LEMMA NextInv == IInv /\ [Next]_vars => IInv'
<1> SUFFICES ASSUME IInv, [Next]_vars PROVE IInv' OBVIOUS
<1>1. CASE Handler BY <1>1, HandlerInv
<1>2. CASE \E t \in Terms : Call(t) \/ Reader(t) BY <1>2, ReaderInv
<1>3. CASE UNCHANGED vars
  BY <1>3 DEF vars, liveVars, savedVars, termVars, readVars, IInv, TypeOK, IndexInBuffer,
              NoNewLineInside, CopyInBuffer, LastCellStops, PastLast
<1> QED BY <1>1, <1>2, <1>3 DEF Next

\* The inductive invariant.
LEMMA Invariant == Spec => []IInv
<1>1. Init => IInv BY InitInv
<1>2. IInv /\ [Next]_vars => IInv' BY NextInv
<1> QED BY <1>1, <1>2, PTL DEF Spec

\* The copy loop of keyboard_read never reads a character from behind keyboard_buf,
\* although keys, Ctrl-L, other readers and terminal switches change the buffer under it.
THEOREM CopyStaysInBuffer == Spec => []CopyInBuffer
<1>1. IInv => CopyInBuffer BY DEF IInv
<1> QED BY <1>1, Invariant, PTL

\* keyboard_idx stays within the buffer, live and saved, although the handler only tests
\* it for equality with MAX_BUF_SIZE.
THEOREM IndexStaysInBuffer == Spec => []IndexInBuffer
<1>1. IInv => IndexInBuffer BY DEF IInv
<1> QED BY <1>1, Invariant, PTL

\* No new line ever lies inside a line, live or saved, whatever is typed when and whoever
\* blanks the buffer: Enter does not count the new line that it writes.
THEOREM LinesHaveNoNewLine == Spec => []NoNewLineInside
<1>1. IInv => NoNewLineInside BY DEF IInv
<1> QED BY <1>1, Invariant, PTL

-----------------------------------------------------------------------------
(* Texts, as sequences.                                                     *)

\* The first n cells of b hold elements of S.
Holds(b, n, S) == \A k \in 0 .. n - 1 : b[k] \in S

\* s is the sequence of the first n cells of b.
Spells(s, b, n, S) == s \in Seq(S) /\ Len(s) = n /\ \A k \in 1 .. n : s[k] = b[k - 1]

\* The text of n cells is the sequence of them.
LEMMA TextSpells ==
  ASSUME NEW S, NEW b, NEW n \in Nat, Holds(b, n, S)
  PROVE  Spells(Text(b, n), b, n, S)
<1>1. \A k \in 1 .. n : b[k - 1] \in S BY DEF Holds
<1>2. Text(b, n) \in [1 .. n -> S] BY <1>1 DEF Text
<1>3. Text(b, n) \in Seq(S) BY <1>2, SeqDef
<1>4. DOMAIN Text(b, n) = 1 .. n BY DEF Text
<1>5. Len(Text(b, n)) = n BY <1>3, <1>4, LenProperties
<1>6. \A k \in 1 .. n : Text(b, n)[k] = b[k - 1] BY DEF Text
<1> QED BY <1>3, <1>5, <1>6 DEF Spells

\* There is one such sequence only.
LEMMA SpellsOne ==
  ASSUME NEW S, NEW b, NEW n \in Nat, NEW s, NEW t, Spells(s, b, n, S), Spells(t, b, n, S)
  PROVE  s = t
<1>1. /\ s \in Seq(S) /\ t \in Seq(S) /\ Len(s) = Len(t)
      /\ \A k \in 1 .. Len(s) : s[k] = t[k]
  BY DEF Spells
<1> QED BY <1>1, SeqEqual

\* The text depends on the cells in it only.
LEMMA TextSame ==
  ASSUME NEW b, NEW c, NEW n \in Nat, \A k \in 0 .. n - 1 : b[k] = c[k]
  PROVE  Text(b, n) = Text(c, n)
<1>1. \A k \in 1 .. n : b[k - 1] = c[k - 1] OBVIOUS
<1> QED BY <1>1 DEF Text

\* A line without characters.
LEMMA TextEmpty == ASSUME NEW b PROVE Text(b, 0) = <<>>
<1>1. Holds(b, 0, {}) BY DEF Holds
<1>2. Spells(Text(b, 0), b, 0, {}) BY <1>1, TextSpells
<1>3. Text(b, 0) \in Seq({}) /\ Len(Text(b, 0)) = 0 BY <1>2 DEF Spells
<1> QED BY <1>3, EmptySeq

\* One more cell is one more character at the end.
LEMMA TextAppend ==
  ASSUME NEW S, NEW b, NEW n \in Nat, Holds(b, n + 1, S)
  PROVE  Append(Text(b, n), b[n]) = Text(b, n + 1)
<1>1. Holds(b, n, S) /\ b[n] \in S BY DEF Holds
<1> DEFINE s == Text(b, n)
<1> HIDE DEF s
<1>2. Spells(s, b, n, S) BY <1>1, TextSpells DEF s
<1>3. s \in Seq(S) /\ Len(s) = n /\ \A k \in 1 .. n : s[k] = b[k - 1] BY <1>2 DEF Spells
<1>4. Append(s, b[n]) \in Seq(S) /\ Len(Append(s, b[n])) = n + 1 BY <1>1, <1>3
<1>5. \A k \in 1 .. n + 1 : Append(s, b[n])[k] = b[k - 1] BY <1>1, <1>3
<1>6. Spells(Append(s, b[n]), b, n + 1, S) BY <1>4, <1>5 DEF Spells
<1>7. n + 1 \in Nat OBVIOUS
<1>8. Spells(Text(b, n + 1), b, n + 1, S) BY <1>7, TextSpells
<1> QED BY <1>6, <1>7, <1>8, SpellsOne DEF s

\* The first cells are the beginning of the text.
LEMMA TextPrefix ==
  ASSUME NEW S, NEW b, NEW n \in Nat, NEW m \in Nat, m <= n, Holds(b, n, S)
  PROVE  SubSeq(Text(b, n), 1, m) = Text(b, m)
<1> DEFINE s == Text(b, n)
<1> HIDE DEF s
<1>1. Holds(b, m, S) BY DEF Holds
<1>2. Spells(s, b, n, S) BY TextSpells DEF s
<1>3. s \in Seq(S) /\ Len(s) = n /\ \A k \in 1 .. n : s[k] = b[k - 1] BY <1>2 DEF Spells
<1>4. \A k \in 1 .. m : s[k] \in S BY <1>3
<1>5. /\ SubSeq(s, 1, m) \in Seq(S) /\ Len(SubSeq(s, 1, m)) = IF 1 <= m THEN m - 1 + 1 ELSE 0
      /\ \A k \in 1 .. m - 1 + 1 : SubSeq(s, 1, m)[k] = s[1 + k - 1]
  BY <1>4, SubSeqProperties
<1>6. Len(SubSeq(s, 1, m)) = m /\ \A k \in 1 .. m : SubSeq(s, 1, m)[k] = b[k - 1]
  BY <1>3, <1>5
<1>7. Spells(SubSeq(s, 1, m), b, m, S) BY <1>5, <1>6 DEF Spells
<1>8. Spells(Text(b, m), b, m, S) BY <1>1, TextSpells
<1> QED BY <1>7, <1>8, SpellsOne DEF s

-----------------------------------------------------------------------------
(* The user takes turns with the program: no key before a program waits for *)
(* it and after Enter, and no change of terminals after Enter.              *)
Turns == Env \cap {"type_ahead", "switch_pending"} = {}

\* Only the terminal that is displayed has had Enter, and only its program copies.
TurnInv ==
  /\ active[disp]
  /\ term_enter[disp] => pc[disp] \in {"wait", "enter"} \cup Reading
  /\ pc[disp] \in {"enter"} \cup Reading => term_enter[disp]
  /\ \A t \in Terms : t # disp => ~term_enter[t] /\ pc[t] \in {"idle", "wait"}
  /\ \A t \in Terms : ~active[t] => pc[t] = "idle" /\ keyboard_index[t] = 0

\* The two indices differ only between their two resets; both are saved.
EchoInv ==
  /\ IF pc[disp] = "last" THEN keyboard_idx = 0 ELSE last_idx = keyboard_idx
  /\ \A t \in Terms : t # disp => keyboard_last_index[t] = keyboard_index[t]

\* A line has characters only, and a new line behind it once Enter was pressed.
TextInv ==
  /\ Holds(keyboard_buf, keyboard_idx, Chars \cup {SP})
  /\ \A t \in Terms : t # disp => Holds(input_buf[t], keyboard_index[t], Chars \cup {SP})
  /\ term_enter[disp] => keyboard_buf[keyboard_idx] = NL

\* The search looks at the line, in which it finds no new line, and the copy loop has
\* copied the beginning of the line.
ReadInv ==
  /\ \A t \in Terms : pc[t] \in {"wait"} \cup Reading => nbytes[t] \in Requests
  /\ \A t \in Terms : j[t] = 0
  /\ \A t \in Terms : pc[t] \notin {"scan"} \cup Copying => i[t] = 0
  /\ \A t \in Terms : pc[t] \notin Copying => buf[t] = <<>>
  /\ \A t \in Terms : pc[t] = "scan" => i[t] <= keyboard_idx
  /\ \A t \in Terms : pc[t] \in Copying =>
       i[t] <= keyboard_idx + 1 /\ i[t] <= nbytes[t] /\ buf[t] = Text(keyboard_buf, i[t])
  /\ \A t \in Terms : pc[t] = "cell" => i[t] <= keyboard_idx /\ i[t] < nbytes[t]

LineInv == TurnInv /\ EchoInv /\ TextInv /\ ReadInv

\* Types, in the form in which the steps use them.
LEMMA Sizes ==
  ASSUME IInv
  PROVE  /\ disp \in Terms /\ keyboard_idx \in 0 .. MAX_BUF_SIZE
         /\ keyboard_buf \in Buffer /\ DOMAIN keyboard_buf = 0 .. MAX_BUF_SIZE
         /\ pc \in [Terms -> PCs] /\ term_enter \in [Terms -> BOOLEAN]
         /\ active \in [Terms -> BOOLEAN] /\ nbytes \in [Terms -> Nat]
         /\ i \in [Terms -> Nat] /\ j \in [Terms -> Nat] /\ count \in [Terms -> {0, 1}]
         /\ buf \in [Terms -> Seq(Cells)] /\ got \in [Terms -> Seq(Cells)]
         /\ input_buf \in [Terms -> Saved]
         /\ keyboard_index \in [Terms -> Byte] /\ keyboard_last_index \in [Terms -> Byte]
         /\ \A t \in Terms : keyboard_index[t] \in 0 .. MAX_BUF_SIZE
<1> USE ConstantsAssumption
<1>1. TypeOK /\ IndexInBuffer /\ NoNewLineInside BY DEF IInv
<1>2. keyboard_idx \in 0 .. MAX_BUF_SIZE /\ \A t \in Terms : keyboard_index[t] \in 0 .. MAX_BUF_SIZE
  BY <1>1 DEF TypeOK, IndexInBuffer, Byte
<1> QED BY <1>1, <1>2 DEF TypeOK, NoNewLineInside, disp, Buffer

\* The lines after keyboard_init.
LEMMA LineInit == Init => LineInv
<1> SUFFICES ASSUME Init PROVE LineInv OBVIOUS
<1> USE ConstantsAssumption DEF Init, disp
<1>1. TurnInv /\ EchoInv BY DEF TurnInv, EchoInv, Reading, Copying
<1>2. TextInv BY DEF TextInv, Holds
<1>3. ReadInv BY DEF ReadInv, Reading, Copying
<1> QED BY <1>1, <1>2, <1>3 DEF LineInv

\* A key comes while the program of the displayed terminal waits: nobody copies.
LEMMA KeyTurn ==
  ASSUME Turns, LineInv, MayType, disp \in Terms
  PROVE  /\ pc[disp] = "wait" /\ ~term_enter[disp]
         /\ \A t \in Terms : pc[t] \notin Reading /\ ~Taken(t)
  BY DEF Turns, LineInv, TurnInv, MayType, Waiting, Taken, Reading, Copying

\* Likewise for Alt-F.
LEMMA SwitchTurn ==
  ASSUME Turns, LineInv, MaySwitch, disp \in Terms
  PROVE  /\ pc[disp] \in {"idle", "wait"} /\ ~term_enter[disp]
         /\ \A t \in Terms : pc[t] \notin Reading /\ ~Taken(t)
  BY DEF Turns, LineInv, TurnInv, MaySwitch, Taken, Reading, Copying

\* A key of the displayed line.
LEMMA EditInv ==
  ASSUME Turns, IInv, LineInv, MayType,
         UNCHANGED <<savedVars, termVars, readVars>>,
         keyboard_idx' \in Nat, last_idx' = keyboard_idx',
         Holds(keyboard_buf', keyboard_idx', Chars \cup {SP}),
         \A t \in Terms : t # disp => term_enter'[t] = term_enter[t],
         term_enter'[disp] => keyboard_buf'[keyboard_idx'] = NL
  PROVE  LineInv'
<1> USE DEF savedVars, termVars, readVars
<1>1. disp \in Terms /\ disp' = disp BY Sizes DEF disp
<1>2. /\ pc[disp] = "wait" /\ ~term_enter[disp]
      /\ \A t \in Terms : pc[t] \notin Reading
  BY <1>1, KeyTurn
<1>3. TurnInv' BY <1>1, <1>2 DEF LineInv, TurnInv
<1>4. EchoInv' BY <1>1, <1>2 DEF LineInv, EchoInv
<1>5. TextInv' BY <1>1 DEF LineInv, TextInv
<1>6. ReadInv' BY <1>2 DEF LineInv, ReadInv, Reading, Copying
<1> QED BY <1>3, <1>4, <1>5, <1>6 DEF LineInv

\* What a character, Backspace and Enter do to the live line.
LEMMA StoreLine ==
  ASSUME Turns, IInv, LineInv, MayType, NEW c \in Chars \cup {SP}, Store(c)
  PROVE  /\ keyboard_idx' = keyboard_idx + 1 /\ last_idx' = keyboard_idx'
         /\ keyboard_idx \in 0 .. MAX_BUF_SIZE - 1
         /\ keyboard_buf'[keyboard_idx] = c
         /\ \A k \in 0 .. keyboard_idx - 1 : keyboard_buf'[k] = keyboard_buf[k]
         /\ Holds(keyboard_buf', keyboard_idx', Chars \cup {SP})
<1> USE ConstantsAssumption
<1>1. /\ disp \in Terms /\ keyboard_idx \in 0 .. MAX_BUF_SIZE
      /\ DOMAIN keyboard_buf = 0 .. MAX_BUF_SIZE /\ keyboard_buf \in Buffer
  BY Sizes
<1>2. last_idx = keyboard_idx BY <1>1, KeyTurn DEF LineInv, EchoInv
<1>3. /\ keyboard_idx \in 0 .. MAX_BUF_SIZE - 1 /\ keyboard_idx + 1 \in 0 .. UINT8 - 1
      /\ keyboard_buf' = [keyboard_buf EXCEPT ![keyboard_idx] = c]
  BY <1>1 DEF Store
<1>4. (keyboard_idx + 1) % UINT8 = keyboard_idx + 1 BY <1>3
<1>5. keyboard_idx' = keyboard_idx + 1 /\ last_idx' = keyboard_idx' BY <1>2, <1>4 DEF Store
<1>6. /\ keyboard_buf'[keyboard_idx] = c
      /\ \A k \in 0 .. keyboard_idx - 1 : keyboard_buf'[k] = keyboard_buf[k]
  BY <1>1, <1>3 DEF Buffer
<1>7. Holds(keyboard_buf', keyboard_idx', Chars \cup {SP})
  BY <1>3, <1>5, <1>6 DEF Holds, LineInv, TextInv
<1> QED BY <1>3, <1>5, <1>6, <1>7

\* Backspace gives the last cell of the line back.
LEMMA BackspaceLine ==
  ASSUME Turns, IInv, LineInv, Backspace
  PROVE  /\ keyboard_idx \in 1 .. MAX_BUF_SIZE
         /\ keyboard_idx' = keyboard_idx - 1 /\ last_idx' = keyboard_idx'
         /\ \A k \in 0 .. keyboard_idx - 2 : keyboard_buf'[k] = keyboard_buf[k]
         /\ Holds(keyboard_buf', keyboard_idx', Chars \cup {SP})
<1> USE ConstantsAssumption
<1>1. /\ disp \in Terms /\ keyboard_idx \in 0 .. MAX_BUF_SIZE
      /\ keyboard_buf \in Buffer
  BY Sizes
<1>2. last_idx = keyboard_idx BY <1>1, KeyTurn DEF LineInv, EchoInv, Backspace
<1>3. /\ keyboard_idx \in 1 .. MAX_BUF_SIZE /\ keyboard_idx - 1 \in 0 .. UINT8 - 1
      /\ keyboard_idx' = keyboard_idx - 1
      /\ keyboard_buf' = [keyboard_buf EXCEPT ![keyboard_idx - 1] = NUL]
  BY <1>1 DEF Backspace
<1>4. (keyboard_idx - 1) % UINT8 = keyboard_idx - 1 BY <1>3
<1>5. last_idx' = keyboard_idx' BY <1>2, <1>3, <1>4 DEF Backspace
<1>6. \A k \in 0 .. keyboard_idx - 2 : keyboard_buf'[k] = keyboard_buf[k]
  BY <1>1, <1>3 DEF Buffer
<1>7. Holds(keyboard_buf', keyboard_idx', Chars \cup {SP})
  BY <1>3, <1>6 DEF Holds, LineInv, TextInv
<1> QED BY <1>3, <1>5, <1>6, <1>7

\* Enter writes behind the line.
LEMMA EnterLine ==
  ASSUME Turns, IInv, LineInv, Enter
  PROVE  /\ \A k \in 0 .. keyboard_idx - 1 : keyboard_buf'[k] = keyboard_buf[k]
         /\ keyboard_buf'[keyboard_idx] = NL /\ last_idx = keyboard_idx
         /\ Holds(keyboard_buf', keyboard_idx', Chars \cup {SP})
<1> USE ConstantsAssumption
<1>1. disp \in Terms /\ keyboard_idx \in 0 .. MAX_BUF_SIZE /\ keyboard_buf \in Buffer BY Sizes
<1>2. last_idx = keyboard_idx BY <1>1, KeyTurn DEF LineInv, EchoInv, Enter
<1>3. /\ \A k \in 0 .. keyboard_idx - 1 : keyboard_buf'[k] = keyboard_buf[k]
      /\ keyboard_buf'[keyboard_idx] = NL
  BY <1>1 DEF Enter, Buffer
<1>4. Holds(keyboard_buf', keyboard_idx', Chars \cup {SP})
  BY <1>3 DEF Enter, Holds, LineInv, TextInv
<1> QED BY <1>2, <1>3, <1>4

\* The keys.
LEMMA KeysInv ==
  ASSUME Turns, IInv, LineInv,
         \/ \E c \in Chars : Key(c)
         \/ Enter \/ Backspace \/ BackspaceAtOrigin \/ CtrlL
  PROVE  LineInv'
<1>1. disp \in Terms /\ keyboard_idx \in 0 .. MAX_BUF_SIZE /\ term_enter \in [Terms -> BOOLEAN]
  BY Sizes
<1>2. ASSUME NEW c \in Chars \cup {SP}, MayType, Store(c),
             UNCHANGED <<term_enter, savedVars, termVars, readVars>>
      PROVE  LineInv'
  <2>1. ~term_enter[disp] BY <1>1, <1>2, KeyTurn
  <2>2. /\ keyboard_idx' = keyboard_idx + 1 /\ last_idx' = keyboard_idx'
        /\ Holds(keyboard_buf', keyboard_idx', Chars \cup {SP})
    BY <1>2, StoreLine
  <2> QED BY <1>1, <1>2, <2>1, <2>2, EditInv
<1>3. ASSUME NEW c \in Chars, Key(c) PROVE LineInv' BY <1>2, <1>3 DEF Key
<1>4. CASE BackspaceAtOrigin BY <1>2, <1>4 DEF BackspaceAtOrigin
<1>5. CASE Enter
  <2>1. \A t \in Terms : t # disp => term_enter'[t] = term_enter[t] BY <1>1, <1>5 DEF Enter
  <2>2. MayType /\ UNCHANGED <<keyboard_idx, last_idx, savedVars, termVars, readVars>>
    BY <1>5 DEF Enter
  <2>3. /\ keyboard_buf'[keyboard_idx] = NL /\ last_idx = keyboard_idx
        /\ Holds(keyboard_buf', keyboard_idx', Chars \cup {SP})
    BY <1>5, EnterLine
  <2> QED BY <1>1, <2>1, <2>2, <2>3, EditInv
<1>6. CASE Backspace
  <2>1. MayType /\ UNCHANGED <<term_enter, savedVars, termVars, readVars>>
    BY <1>6 DEF Backspace
  <2>2. ~term_enter[disp] BY <1>1, <2>1, KeyTurn
  <2>3. /\ keyboard_idx \in 1 .. MAX_BUF_SIZE
        /\ keyboard_idx' = keyboard_idx - 1 /\ last_idx' = keyboard_idx'
        /\ Holds(keyboard_buf', keyboard_idx', Chars \cup {SP})
    BY <1>6, BackspaceLine
  <2> QED BY <2>1, <2>2, <2>3, EditInv
<1>7. CASE CtrlL
  <2>1. /\ MayType /\ UNCHANGED <<term_enter, savedVars, termVars, readVars>>
        /\ keyboard_idx' = 0 /\ last_idx' = 0
    BY <1>7 DEF CtrlL
  <2>2. ~term_enter[disp] BY <1>1, <2>1, KeyTurn
  <2>3. Holds(keyboard_buf', keyboard_idx', Chars \cup {SP}) BY <2>1 DEF Holds
  <2> QED BY <2>1, <2>2, <2>3, EditInv
<1> QED BY <1>3, <1>4, <1>5, <1>6, <1>7

\* save_terminal_state copies the whole line of the displayed terminal.
LEMMA SaveLine ==
  ASSUME IInv, save_terminal_state
  PROVE  /\ \A k \in 0 .. keyboard_idx - 1 : input_buf'[disp][k] = keyboard_buf[k]
         /\ keyboard_index'[disp] = keyboard_idx /\ keyboard_last_index'[disp] = last_idx
         /\ \A t \in Terms : t # disp =>
              /\ input_buf'[t] = input_buf[t] /\ keyboard_index'[t] = keyboard_index[t]
              /\ keyboard_last_index'[t] = keyboard_last_index[t]
<1>1. /\ disp \in Terms /\ keyboard_idx \in 0 .. MAX_BUF_SIZE
      /\ input_buf \in [Terms -> Saved]
      /\ keyboard_index \in [Terms -> Byte] /\ keyboard_last_index \in [Terms -> Byte]
  BY Sizes
<1>2. input_buf'[disp] = [k \in 0 .. MAX_BUF_SIZE - 1 |-> keyboard_buf[k]]
  BY <1>1 DEF save_terminal_state
<1>3. \A k \in 0 .. keyboard_idx - 1 : input_buf'[disp][k] = keyboard_buf[k]
  BY <1>1, <1>2, ConstantsAssumption
<1> QED BY <1>1, <1>3 DEF save_terminal_state

\* restore_terminal_state brings the whole line back.
LEMMA RestoreLine ==
  ASSUME IInv, NEW newt \in Terms, restore_terminal_state(newt)
  PROVE  /\ \A k \in 0 .. keyboard_index[newt] - 1 : keyboard_buf'[k] = input_buf[newt][k]
         /\ keyboard_idx' = keyboard_index[newt] /\ last_idx' = keyboard_last_index[newt]
<1>1. keyboard_index[newt] \in 0 .. MAX_BUF_SIZE BY Sizes
<1>2. \A k \in 0 .. MAX_BUF_SIZE - 1 : keyboard_buf'[k] = input_buf[newt][k]
  BY ConstantsAssumption DEF restore_terminal_state
<1> QED BY <1>1, <1>2, ConstantsAssumption DEF restore_terminal_state

\* Cells that are equal hold the same elements.
LEMMA HoldsSame ==
  ASSUME NEW b, NEW c, NEW n \in Nat, NEW S, Holds(b, n, S),
         \A k \in 0 .. n - 1 : c[k] = b[k]
  PROVE  Holds(c, n, S)
  BY DEF Holds

\* Alt-F, whichever terminal it shows: the lines of all terminals but the new one are
\* where they were, or saved.
LEMMA SwitchInv ==
  ASSUME Turns, IInv, LineInv, MaySwitch, save_terminal_state,
         NEW newt \in Terms, newt # disp, curr_terminal_number' = newt,
         UNCHANGED <<term_enter, readVars>>,
         active'[newt], \A t \in Terms : t # newt => active'[t] = active[t],
         Holds(keyboard_buf', keyboard_idx', Chars \cup {SP}), last_idx' = keyboard_idx'
  PROVE  LineInv'
<1> USE DEF readVars
<1>1. /\ disp \in Terms /\ keyboard_idx \in 0 .. MAX_BUF_SIZE /\ disp' = newt
      /\ active \in [Terms -> BOOLEAN]
      /\ \A t \in Terms : keyboard_index[t] \in 0 .. MAX_BUF_SIZE
  BY Sizes DEF disp
<1>2. /\ pc[disp] \in {"idle", "wait"} /\ ~term_enter[disp]
      /\ \A t \in Terms : pc[t] \notin Reading
  BY <1>1, SwitchTurn
<1>3. /\ \A k \in 0 .. keyboard_idx - 1 : input_buf'[disp][k] = keyboard_buf[k]
      /\ keyboard_index'[disp] = keyboard_idx /\ keyboard_last_index'[disp] = last_idx
      /\ \A t \in Terms : t # disp =>
           /\ input_buf'[t] = input_buf[t] /\ keyboard_index'[t] = keyboard_index[t]
           /\ keyboard_last_index'[t] = keyboard_last_index[t]
  BY SaveLine
<1>5. TurnInv'
  BY <1>1, <1>2, <1>3 DEF LineInv, TurnInv
<1>6. EchoInv'
  <2>1. pc[newt] # "last" /\ pc[disp] # "last" BY <1>1, <1>2 DEF LineInv, TurnInv
  <2>2. last_idx = keyboard_idx BY <2>1 DEF LineInv, EchoInv
  <2>3. \A t \in Terms : t # newt => keyboard_last_index'[t] = keyboard_index'[t]
    BY <2>2, <1>3 DEF LineInv, EchoInv
  <2> QED BY <1>1, <2>1, <2>3 DEF EchoInv
<1>7. TextInv'
  <2>1. \A t \in Terms : t # disp => Holds(input_buf'[t], keyboard_index'[t], Chars \cup {SP})
    BY <1>3 DEF LineInv, TextInv
  <2>2. Holds(input_buf'[disp], keyboard_index'[disp], Chars \cup {SP})
    BY <1>1, <1>3 DEF LineInv, TextInv, Holds
  <2>3. ~term_enter[newt] BY DEF LineInv, TurnInv
  <2>4. \A t \in Terms : t # newt => Holds(input_buf'[t], keyboard_index'[t], Chars \cup {SP})
    BY <2>1, <2>2
  <2> QED BY <1>1, <2>3, <2>4 DEF TextInv
<1>8. ReadInv' BY <1>2 DEF LineInv, ReadInv, Reading, Copying
<1> QED BY <1>5, <1>6, <1>7, <1>8 DEF LineInv

\* Alt-F to a terminal with a shell restores its line, to another leaves the live one.
LEMMA AltInv ==
  ASSUME Turns, IInv, LineInv, NEW t \in Terms, SwitchActive(t) \/ SwitchFresh(t)
  PROVE  LineInv'
<1>0. /\ disp \in Terms /\ keyboard_idx \in 0 .. MAX_BUF_SIZE
      /\ keyboard_index[t] \in 0 .. MAX_BUF_SIZE /\ active \in [Terms -> BOOLEAN]
  BY Sizes
<1>1. CASE SwitchActive(t)
  <2>1. /\ MaySwitch /\ save_terminal_state /\ restore_terminal_state(t) /\ t # disp
        /\ curr_terminal_number' = t /\ active' = active /\ active[t]
        /\ UNCHANGED <<term_enter, readVars>>
    BY <1>1 DEF SwitchActive
  <2>2. /\ \A k \in 0 .. keyboard_index[t] - 1 : keyboard_buf'[k] = input_buf[t][k]
        /\ keyboard_idx' = keyboard_index[t] /\ last_idx' = keyboard_last_index[t]
    BY <2>1, RestoreLine
  <2>3. /\ Holds(input_buf[t], keyboard_index[t], Chars \cup {SP})
        /\ keyboard_last_index[t] = keyboard_index[t]
    BY <2>1 DEF LineInv, TextInv, EchoInv
  <2>4. Holds(keyboard_buf', keyboard_idx', Chars \cup {SP}) /\ last_idx' = keyboard_idx'
    BY <1>0, <2>2, <2>3, HoldsSame
  <2> QED BY <2>1, <2>4, SwitchInv
<1>2. CASE SwitchFresh(t)
  <2>1. /\ MaySwitch /\ save_terminal_state /\ t # disp
        /\ curr_terminal_number' = t /\ active' = [active EXCEPT ![t] = TRUE]
        /\ UNCHANGED <<term_enter, readVars>>
        /\ keyboard_buf' = keyboard_buf /\ keyboard_idx' = keyboard_idx /\ last_idx' = last_idx
    BY <1>2 DEF SwitchFresh, liveVars
  <2>2. last_idx = keyboard_idx BY <1>0, <2>1, SwitchTurn DEF LineInv, EchoInv
  <2>3. Holds(keyboard_buf', keyboard_idx', Chars \cup {SP}) BY <2>1 DEF LineInv, TextInv
  <2>4. last_idx' = keyboard_idx' BY <2>1, <2>2
  <2>5. active'[t] /\ \A u \in Terms : u # t => active'[u] = active[u] BY <1>0, <2>1
  <2> QED BY <2>1, <2>3, <2>4, <2>5, SwitchInv
<1> QED BY <1>1, <1>2

\* The copy loop is at a cell of the line, or behind its new line, and ends there.
LEMMA CopyPlace ==
  ASSUME Turns, IInv, LineInv, NEW t \in Terms, pc[t] \in Copying
  PROVE  /\ t = disp /\ term_enter[t] /\ i[t] \in 0 .. keyboard_idx + 1 /\ i[t] <= nbytes[t]
         /\ nbytes[t] \in Requests /\ nbytes[t] \in Nat \ {0}
         /\ buf[t] = Text(keyboard_buf, i[t])
         /\ i[t] <= keyboard_idx => Cell(i[t]) = keyboard_buf[i[t]]
         /\ AtNul(t) => i[t] = keyboard_idx + 1
         /\ BehindLine(t) => i[t] = keyboard_idx + 1 \/ i[t] = nbytes[t]
         /\ ~BehindLine(t) => i[t] <= keyboard_idx /\ i[t] < nbytes[t]
<1> USE ConstantsAssumption
<1>1. t = disp /\ term_enter[t] BY DEF LineInv, TurnInv, Reading, Copying
<1>2. /\ i[t] <= keyboard_idx + 1 /\ i[t] <= nbytes[t] /\ nbytes[t] \in Requests
      /\ buf[t] = Text(keyboard_buf, i[t]) /\ j[t] = 0
  BY DEF LineInv, ReadInv, Reading
<1>3. /\ i[t] \in Nat /\ nbytes[t] \in Nat \ {0} /\ keyboard_idx \in 0 .. MAX_BUF_SIZE
      /\ keyboard_buf \in Buffer
  BY <1>2, Sizes
<1>4. keyboard_buf[keyboard_idx] = NL BY <1>1 DEF LineInv, TextInv
<1>5. \A k \in 0 .. keyboard_idx : Cell(k) = keyboard_buf[k] BY <1>3 DEF Cell
<1>6. \A k \in 0 .. keyboard_idx - 1 : Cell(k) # NL /\ Cell(k) # NUL
  BY <1>3, <1>5 DEF LineInv, TextInv, Holds, NL, NUL, SP
<1>7. Cell(keyboard_idx) = NL /\ NL # NUL BY <1>3, <1>4, <1>5 DEF NL, NUL
<1>8. Cell(-1) = NUL BY DEF Cell
<1>9. i[t] <= keyboard_idx => Cell(i[t]) = keyboard_buf[i[t]] BY <1>3, <1>5
<1>10. AtNul(t) => i[t] = keyboard_idx + 1
  <2>1. ASSUME i[t] # keyboard_idx + 1 PROVE Cell(i[t]) # NUL
    <3>1. i[t] \in 0 .. keyboard_idx BY <1>2, <1>3, <2>1
    <3> QED BY <3>1, <1>3, <1>6, <1>7
  <2> QED BY <2>1 DEF AtNul
<1>11. BehindLine(t) => i[t] = keyboard_idx + 1 \/ i[t] = nbytes[t]
  <2> SUFFICES ASSUME i[t] # keyboard_idx + 1, i[t] # nbytes[t] PROVE ~BehindLine(t) OBVIOUS
  <2>1. i[t] \in 0 .. keyboard_idx BY <1>2, <1>3
  <2>2. Cell(i[t] - 1) # NL
    <3>1. CASE i[t] = 0 BY <3>1, <1>8 DEF NL, NUL
    <3>2. CASE i[t] # 0
      <4>1. i[t] - 1 \in 0 .. keyboard_idx - 1 BY <3>2, <2>1, <1>3
      <4> QED BY <4>1, <1>6
    <3> QED BY <3>1, <3>2
  <2>3. i[t] - j[t] # nbytes[t] BY <1>2, <1>3
  <2> QED BY <2>2, <2>3 DEF BehindLine
<1>12. ~BehindLine(t) => i[t] <= keyboard_idx /\ i[t] < nbytes[t]
  <2> SUFFICES ASSUME ~BehindLine(t) PROVE i[t] <= keyboard_idx /\ i[t] < nbytes[t] OBVIOUS
  <2>1. i[t] - 1 # keyboard_idx BY <1>3, <1>7 DEF BehindLine
  <2>2. i[t] # nbytes[t] BY <1>2, <1>3 DEF BehindLine
  <2> QED BY <2>1, <2>2, <1>2, <1>3
<1> QED BY <1>1, <1>2, <1>3, <1>9, <1>10, <1>11, <1>12

\* A reader that goes on reading leaves the lines and whose turn it is alone.
LEMMA ReadingTurn ==
  ASSUME IInv, LineInv, NEW t \in Terms, NEW p \in {"enter"} \cup Reading,
         pc[t] \in {"wait"} \cup Reading, term_enter[t], pc' = [pc EXCEPT ![t] = p],
         UNCHANGED <<liveVars, term_enter, savedVars, termVars>>
  PROVE  /\ t = disp /\ disp' = disp /\ TurnInv' /\ EchoInv' /\ TextInv'
         /\ pc'[t] = p /\ \A u \in Terms : u # t => pc'[u] = pc[u] /\ pc[u] \in {"idle", "wait"}
<1> USE DEF liveVars, savedVars, termVars
<1>0. disp \in Terms /\ pc \in [Terms -> PCs] /\ disp' = disp BY Sizes DEF disp
<1>1. t = disp BY DEF LineInv, TurnInv
<1>2. TurnInv' BY <1>0, <1>1 DEF LineInv, TurnInv, Reading, Copying
<1>3. EchoInv' BY <1>0, <1>1 DEF LineInv, EchoInv, Reading, Copying
<1>4. TextInv' BY <1>0 DEF LineInv, TextInv
<1>5. \A u \in Terms : u # t => pc[u] \in {"idle", "wait"} BY <1>1 DEF LineInv, TurnInv
<1> QED BY <1>0, <1>1, <1>2, <1>3, <1>4, <1>5

\* keyboard_read up to the end of the copy.
LEMMA ReadingInv ==
  ASSUME Turns, IInv, LineInv, NEW t \in Terms,
         \/ Woken(t) \/ Fetch(t) \/ Scan(t) \/ ScanEnd(t)
         \/ TestCell(t) \/ TestPrev(t) \/ Copy(t) \/ Terminate(t)
  PROVE  LineInv'
<1> USE DEF liveVars, savedVars, termVars
<1>0. /\ keyboard_idx \in 0 .. MAX_BUF_SIZE /\ keyboard_idx \in Nat /\ keyboard_buf \in Buffer
      /\ pc \in [Terms -> PCs] /\ nbytes \in [Terms -> Nat] /\ i \in [Terms -> Nat]
      /\ j \in [Terms -> Nat] /\ buf \in [Terms -> Seq(Cells)]
  <2>1. keyboard_idx \in 0 .. MAX_BUF_SIZE BY Sizes
  <2>2. keyboard_idx \in Nat BY <2>1
  <2> QED BY <2>2, Sizes
<1>1. /\ pc[t] \in {"wait"} \cup Reading /\ term_enter[t]
      /\ UNCHANGED <<keyboard_buf, keyboard_idx, nbytes>>
      /\ UNCHANGED <<liveVars, term_enter, savedVars, termVars>>
  <2>1. pc[t] \in Reading => term_enter[t] BY DEF LineInv, TurnInv, Reading, Copying
  <2> QED BY <2>1 DEF Woken, Fetch, Scan, ScanEnd, TestCell, TestPrev, Copy, Terminate, Reading, Copying
<1>2. PICK p \in {"enter"} \cup Reading : pc' = [pc EXCEPT ![t] = p]
  <2>1. pc[t] = "scan" => pc = [pc EXCEPT ![t] = "scan"] BY <1>0
  <2> QED BY <2>1 DEF Woken, Fetch, Scan, ScanEnd, TestCell, TestPrev, Copy, Terminate, Reading, Copying
<1>3. /\ t = disp /\ TurnInv' /\ EchoInv' /\ TextInv'
      /\ pc'[t] = p /\ \A u \in Terms : u # t => pc'[u] = pc[u] /\ pc[u] \in {"idle", "wait"}
  BY <1>1, <1>2, ReadingTurn
<1>4. /\ \A u \in Terms : u # t => i'[u] = i[u] /\ j'[u] = j[u] /\ buf'[u] = buf[u]
      /\ nbytes[t] \in Requests
  <2>1. nbytes[t] \in Requests BY <1>1 DEF LineInv, ReadInv
  <2> QED BY <1>0, <2>1 DEF Woken, Fetch, Scan, ScanEnd, TestCell, TestPrev, Copy, Terminate
\* What is left to show is about the reader's own variables.
<1>5. ASSUME j'[t] = 0,
             p \notin {"scan"} \cup Copying => i'[t] = 0,
             p \notin Copying => buf'[t] = <<>>,
             p = "scan" => i'[t] <= keyboard_idx,
             p \in Copying => /\ i'[t] <= keyboard_idx + 1 /\ i'[t] <= nbytes[t]
                              /\ buf'[t] = Text(keyboard_buf, i'[t]),
             p = "cell" => i'[t] <= keyboard_idx /\ i'[t] < nbytes[t]
      PROVE  LineInv'
  <2>1. ReadInv' BY <1>1, <1>3, <1>4, <1>5 DEF LineInv, ReadInv, Reading, Copying
  <2> QED BY <1>3, <2>1 DEF LineInv
<1>6. j[t] = 0 /\ (pc[t] \notin Copying => buf[t] = <<>>) BY DEF LineInv, ReadInv
<1>7. CASE Woken(t)
  <2>1. p = "fetch" /\ i'[t] = 0 /\ buf'[t] = buf[t] /\ j'[t] = j[t] /\ pc[t] = "wait"
    BY <1>0, <1>2, <1>7 DEF Woken, LineInv, ReadInv, Copying
  <2> QED BY <1>5, <1>6, <2>1 DEF Copying
<1>8. CASE Fetch(t)
  <2>1. p = "scan" /\ i'[t] = keyboard_idx /\ buf'[t] = buf[t] /\ j'[t] = j[t] /\ pc[t] = "fetch"
    BY <1>0, <1>2, <1>8 DEF Fetch
  <2> QED BY <1>0, <1>5, <1>6, <2>1 DEF Copying
<1>9. CASE Scan(t)
  <2>1. i[t] \in 1 .. keyboard_idx /\ pc[t] = "scan" /\ i[t] \in Nat
    BY <1>0, <1>9 DEF Scan, LineInv, ReadInv
  <2>2. keyboard_buf[i[t] - 1] # NL
    <3>1. i[t] - 1 \in 0 .. keyboard_idx - 1 BY <1>0, <2>1
    <3> QED BY <3>1 DEF IInv, NoNewLineInside
  <2>3. i' = [i EXCEPT ![t] = @ - 1] /\ j' = j /\ buf' = buf /\ pc' = pc
    BY <1>9, <2>2 DEF Scan
  <2>4. p = "scan" /\ i'[t] = i[t] - 1 BY <1>0, <1>2, <2>1, <2>3
  <2>5. i'[t] <= keyboard_idx BY <1>0, <2>1, <2>4
  <2> QED BY <1>5, <1>6, <2>1, <2>3, <2>4, <2>5 DEF Copying
<1>10. CASE ScanEnd(t)
  <2>1. p = "copy" /\ i'[t] = 0 /\ buf'[t] = buf[t] /\ j'[t] = j[t] /\ pc[t] = "scan"
    BY <1>0, <1>2, <1>10 DEF ScanEnd
  <2>2. buf'[t] = Text(keyboard_buf, 0) BY <1>6, <2>1, TextEmpty DEF Copying
  <2>3. 0 <= nbytes[t] /\ 0 <= keyboard_idx + 1 BY <1>0
  <2> QED BY <1>5, <1>6, <2>1, <2>2, <2>3 DEF Copying
<1>11. CASE TestCell(t) \/ TestPrev(t)
  <2>1. /\ p \in {"prev", "cell"}
        /\ p = "cell" => TestPrev(t)
        /\ i' = i /\ buf' = buf /\ j' = j /\ pc[t] \in Copying
    BY <1>0, <1>2, <1>11 DEF TestCell, TestPrev, Copying
  <2>2. /\ i[t] \in 0 .. keyboard_idx + 1 /\ i[t] <= nbytes[t] /\ buf[t] = Text(keyboard_buf, i[t])
        /\ ~BehindLine(t) => i[t] <= keyboard_idx /\ i[t] < nbytes[t]
    BY <2>1, CopyPlace
  <2>3. p = "cell" => i[t] <= keyboard_idx /\ i[t] < nbytes[t] BY <2>1, <2>2 DEF TestPrev
  <2>4. i[t] <= keyboard_idx + 1 BY <1>0, <2>2
  <2>5. p # "scan" /\ p \in Copying /\ i'[t] = i[t] /\ buf'[t] = buf[t] /\ j'[t] = 0
    <3>1. p # "scan" /\ p \in Copying BY <2>1 DEF Copying
    <3>2. i'[t] = i[t] /\ buf'[t] = buf[t] /\ j'[t] = 0 BY <1>6, <2>1
    <3> QED BY <3>1, <3>2
  <2> QED BY <1>5, <2>2, <2>3, <2>4, <2>5 DEF Copying
<1>12. CASE Copy(t)
  <2>1. /\ pc[t] = "cell" /\ p = "copy" /\ j'[t] = j[t]
        /\ buf'[t] = Append(buf[t], Cell(i[t])) /\ i'[t] = i[t] + 1
    BY <1>0, <1>2, <1>12 DEF Copy
  <2>2. pc[t] \in Copying BY <2>1 DEF Copying
  <2>3. i[t] <= keyboard_idx /\ i[t] < nbytes[t] /\ i[t] \in Nat /\ nbytes[t] \in Nat
    BY <1>0, <2>1 DEF LineInv, ReadInv
  <2>4. Cell(i[t]) = keyboard_buf[i[t]] /\ buf[t] = Text(keyboard_buf, i[t])
    BY <2>2, <2>3, CopyPlace
  <2>5. Append(buf[t], Cell(i[t])) = Text(keyboard_buf, i[t] + 1)
    <3>1. \A k \in 0 .. MAX_BUF_SIZE : keyboard_buf[k] \in Cells BY <1>0 DEF Buffer
    <3>2. i[t] <= MAX_BUF_SIZE BY <1>0, <2>3, ConstantsAssumption
    <3>3. Holds(keyboard_buf, i[t] + 1, Cells) BY <2>3, <3>1, <3>2, ConstantsAssumption DEF Holds
    <3> QED BY <2>3, <2>4, <3>3, TextAppend
  <2>6. i'[t] <= keyboard_idx + 1 /\ i'[t] <= nbytes[t] BY <1>0, <2>1, <2>3
  <2> QED BY <1>5, <1>6, <2>1, <2>5, <2>6 DEF Copying
<1>13. CASE Terminate(t)
  <2>1. p = "enter" /\ i'[t] = 0 /\ j'[t] = 0 /\ buf'[t] = <<>>
    BY <1>0, <1>2, <1>13 DEF Terminate
  <2> QED BY <1>5, <2>1 DEF Copying
<1> QED BY <1>7, <1>8, <1>9, <1>10, <1>11, <1>12, <1>13

\* keyboard_read.
LEMMA ReadLineInv ==
  ASSUME Turns, IInv, LineInv, NEW t \in Terms, Call(t) \/ Reader(t)
  PROVE  LineInv'
<1> USE DEF liveVars, savedVars, termVars
<1>0. /\ disp \in Terms /\ keyboard_idx \in 0 .. MAX_BUF_SIZE /\ keyboard_buf \in Buffer
      /\ pc \in [Terms -> PCs] /\ term_enter \in [Terms -> BOOLEAN] /\ nbytes \in [Terms -> Nat]
      /\ i \in [Terms -> Nat] /\ j \in [Terms -> Nat]
      /\ buf \in [Terms -> Seq(Cells)]
  BY Sizes
<1>c. disp' = disp BY DEF disp, Call, Reader, Woken, Fetch, Scan, ScanEnd, TestCell, TestPrev,
      Copy, Terminate, ClearEnter, Blank, ResetIdx, ResetLast
<1>u. \A u \in Terms : u # disp => pc[u] \in {"idle", "wait"} /\ ~term_enter[u]
  BY DEF LineInv, TurnInv
<1>1. CASE Call(t)
  <2>1. PICK n \in Requests : nbytes' = [nbytes EXCEPT ![t] = n] BY <1>1 DEF Call
  <2>2. /\ pc[t] = "idle" /\ active[t] /\ pc' = [pc EXCEPT ![t] = "wait"]
        /\ UNCHANGED <<liveVars, term_enter, savedVars, termVars, i, j, buf>>
    BY <1>1 DEF Call
  <2>3. TurnInv' BY <1>0, <1>c, <2>2 DEF LineInv, TurnInv, Reading, Copying
  <2>4. EchoInv' BY <1>0, <1>c, <2>2 DEF LineInv, EchoInv
  <2>5. TextInv' BY <1>c, <2>2 DEF LineInv, TextInv
  <2>6. ReadInv' BY <1>0, <2>1, <2>2 DEF LineInv, ReadInv, Reading, Copying
  <2> QED BY <2>3, <2>4, <2>5, <2>6 DEF LineInv
<1>2. CASE \/ Woken(t) \/ Fetch(t) \/ Scan(t) \/ ScanEnd(t)
           \/ TestCell(t) \/ TestPrev(t) \/ Copy(t) \/ Terminate(t)
  BY <1>2, ReadingInv
<1>3. CASE ClearEnter(t)
  <2>1. /\ pc[t] = "enter" /\ pc' = [pc EXCEPT ![t] = "blank"]
        /\ term_enter' = [term_enter EXCEPT ![t] = FALSE]
        /\ UNCHANGED <<liveVars, savedVars, termVars, nbytes, i, j, buf, got>>
    BY <1>3 DEF ClearEnter
  <2>2. t = disp BY <2>1, <1>u
  <2>3. TurnInv' BY <1>0, <1>c, <2>1, <2>2 DEF LineInv, TurnInv, Reading, Copying
  <2>4. EchoInv' BY <1>0, <1>c, <2>1, <2>2 DEF LineInv, EchoInv
  <2>5. TextInv' BY <1>0, <1>c, <2>1, <2>2 DEF LineInv, TextInv
  <2>6. ReadInv' BY <1>0, <2>1 DEF LineInv, ReadInv, Reading, Copying
  <2> QED BY <2>3, <2>4, <2>5, <2>6 DEF LineInv
<1>4. CASE Blank(t)
  <2>1. /\ pc[t] = "blank" /\ pc' = [pc EXCEPT ![t] = "index"]
        /\ keyboard_buf' = Blanked(keyboard_buf)
        /\ UNCHANGED <<keyboard_idx, last_idx, term_enter, savedVars, termVars, nbytes, i, j,
           buf, got>>
    BY <1>4 DEF Blank
  <2>2. t = disp /\ ~term_enter[t] BY <2>1, <1>u DEF LineInv, TurnInv, Reading, Copying
  <2>3. TurnInv' BY <1>0, <1>c, <2>1, <2>2 DEF LineInv, TurnInv, Reading, Copying
  <2>4. EchoInv' BY <1>0, <1>c, <2>1, <2>2 DEF LineInv, EchoInv
  <2>5. TextInv'
    <3>1. \A k \in 0 .. keyboard_idx - 1 : keyboard_buf'[k] = SP
      BY <1>0, <2>1, ConstantsAssumption DEF Blanked
    <3>2. Holds(keyboard_buf', keyboard_idx', Chars \cup {SP}) BY <2>1, <3>1 DEF Holds
    <3> QED BY <1>c, <2>1, <2>2, <3>2 DEF LineInv, TextInv
  <2>6. ReadInv'
    <3>1. \A u \in Terms : pc'[u] \notin Reading /\ (u # t => pc'[u] = pc[u]) BY <1>0, <1>u, <2>1, <2>2 DEF Reading, Copying
    <3> QED BY <1>0, <2>1, <3>1 DEF LineInv, ReadInv, Reading, Copying
  <2> QED BY <2>3, <2>4, <2>5, <2>6 DEF LineInv
<1>5. CASE ResetIdx(t) \/ ResetLast(t)
  <2>1. /\ \/ pc[t] = "index" /\ keyboard_idx' = 0 /\ pc' = [pc EXCEPT ![t] = "last"]
           \/ pc[t] = "last" /\ last_idx' = 0 /\ keyboard_idx' = keyboard_idx
              /\ pc' = [pc EXCEPT ![t] = "idle"]
        /\ UNCHANGED <<keyboard_buf, term_enter, savedVars, termVars, nbytes, i, j, buf, got>>
    BY <1>5 DEF ResetIdx, ResetLast
  <2>2. t = disp /\ ~term_enter[t] BY <2>1, <1>u DEF LineInv, TurnInv, Reading, Copying
  <2>3. keyboard_idx' = 0 BY <2>1, <2>2 DEF LineInv, EchoInv
  <2>4. TurnInv' BY <1>0, <1>c, <2>1, <2>2 DEF LineInv, TurnInv, Reading, Copying
  <2>5. EchoInv' BY <1>0, <1>c, <2>1, <2>2, <2>3 DEF LineInv, EchoInv
  <2>6. TextInv'
    <3>1. Holds(keyboard_buf', keyboard_idx', Chars \cup {SP}) BY <2>3 DEF Holds
    <3> QED BY <1>c, <2>1, <2>2, <3>1 DEF LineInv, TextInv
  <2>7. ReadInv'
    <3>1. \A u \in Terms : pc'[u] \notin Reading /\ (u # t => pc'[u] = pc[u]) /\ pc'[t] # "wait"
      BY <1>0, <1>u, <2>1, <2>2 DEF Reading, Copying
    <3> QED BY <1>0, <2>1, <3>1 DEF LineInv, ReadInv, Reading, Copying
  <2> QED BY <2>4, <2>5, <2>6, <2>7 DEF LineInv
<1> QED BY <1>1, <1>2, <1>3, <1>4, <1>5 DEF Reader

\* No step breaks the invariant of the lines.
LEMMA LineNext == ASSUME Turns, IInv, LineInv, [Next]_vars PROVE LineInv'
<1>1. CASE Handler BY <1>1, KeysInv, AltInv DEF Handler
<1>2. CASE \E t \in Terms : Call(t) \/ Reader(t) BY <1>2, ReadLineInv
<1>3. CASE UNCHANGED vars
  <2> USE <1>3 DEF vars, liveVars, savedVars, termVars, readVars
  <2>1. disp' = disp BY DEF disp
  <2>2. TurnInv' BY <2>1 DEF LineInv, TurnInv
  <2>3. EchoInv' BY <2>1 DEF LineInv, EchoInv
  <2>4. TextInv' BY <2>1 DEF LineInv, TextInv
  <2>5. ReadInv' BY DEF LineInv, ReadInv
  <2> QED BY <2>2, <2>3, <2>4, <2>5 DEF LineInv
<1> QED BY <1>1, <1>2, <1>3 DEF Next

\* Both invariants, for users who take turns with the program.
LEMMA LinesKept == ASSUME Turns PROVE Spec => [](IInv /\ LineInv)
<1>1. Init => IInv /\ LineInv BY InitInv, LineInit
<1>2. IInv /\ LineInv /\ [Next]_vars => (IInv /\ LineInv)' BY NextInv, LineNext
<1> QED BY <1>1, <1>2, PTL DEF Spec

\* last_idx follows keyboard_idx through keys, saves, restores and reads: a key echoes its
\* own character and nothing else.
THEOREM EchoCorrect == ASSUME Turns PROVE Spec => []EchoInSync
<1>1. IInv /\ LineInv => EchoInSync BY Sizes DEF LineInv, EchoInv, EchoInSync
<1> QED BY <1>1, LinesKept, PTL

-----------------------------------------------------------------------------
(* The refinement, one concrete step at a time.                             *)

Lines   == [t \in Terms |-> Line(t)]
Entered == [t \in Terms |-> term_enter[t] /\ pc[t] # "enter"]
Asked   == [t \in Terms |-> IF pc[t] \in {"wait"} \cup Reading THEN nbytes[t] ELSE 0]

\* A step that changes the line of at most one terminal.
LEMMA LinesUpdate ==
  ASSUME NEW d \in Terms, NEW x, Line(d)' = x, \A t \in Terms : t # d => Line(t)' = Line(t)
  PROVE  Lines' = [Lines EXCEPT ![d] = x]
  BY DEF Lines

\* A step that changes no line.
LEMMA LinesSame ==
  ASSUME \A t \in Terms : Line(t)' = Line(t)
  PROVE  Lines' = Lines
  BY DEF Lines

\* A key changes the line of the displayed terminal only.
LEMMA EditLines ==
  ASSUME Turns, IInv, LineInv, MayType, UNCHANGED <<savedVars, termVars, readVars>>
  PROVE  /\ Line(disp) = Text(keyboard_buf, keyboard_idx)
         /\ Line(disp)' = Text(keyboard_buf', keyboard_idx')
         /\ Lines' = [Lines EXCEPT ![disp] = Text(keyboard_buf', keyboard_idx')]
         /\ Lines[disp] = Text(keyboard_buf, keyboard_idx)
         /\ Asked' = Asked /\ got' = got /\ ~Entered[disp]
         /\ UNCHANGED term_enter => Entered' = Entered
<1> USE DEF savedVars, termVars, readVars
<1>1. disp \in Terms /\ disp' = disp BY Sizes DEF disp
<1>2. pc[disp] = "wait" /\ ~term_enter[disp] /\ \A t \in Terms : ~Taken(t) BY <1>1, KeyTurn
<1>3. \A t \in Terms : Taken(t)' <=> Taken(t) BY DEF Taken
<1>4. \A t \in Terms : t # disp => Line(t)' = Line(t)
  <2> SUFFICES ASSUME NEW t \in Terms, t # disp PROVE Line(t)' = Line(t) OBVIOUS
  <2>1. Line(t) = Text(input_buf[t], keyboard_index[t]) BY <1>2 DEF Line
  <2>2. Line(t)' = Text(input_buf[t], keyboard_index[t])' BY <1>1, <1>2, <1>3 DEF Line
  <2> QED BY <2>1, <2>2 DEF Text
<1>5. Line(disp) = Text(keyboard_buf, keyboard_idx) BY <1>1, <1>2 DEF Line
<1>6. Line(disp)' = Text(keyboard_buf', keyboard_idx') BY <1>1, <1>2, <1>3 DEF Line, Text
<1>7. PICK d \in Terms : d = disp BY <1>1
<1>8. Line(d)' = Text(keyboard_buf', keyboard_idx') BY <1>1, <1>6, <1>7
<1>9. Lines' = [Lines EXCEPT ![d] = Text(keyboard_buf', keyboard_idx')]
  BY <1>4, <1>7, <1>8, LinesUpdate
<1>10. Lines[disp] = Line(disp) BY <1>1 DEF Lines
<1>11. Asked' = Asked /\ ~Entered[disp] BY <1>1, <1>2 DEF Asked, Entered
<1>12. UNCHANGED term_enter => Entered' = Entered BY DEF Entered
<1> QED BY <1>5, <1>6, <1>7, <1>9, <1>10, <1>11, <1>12

\* A character is typed.
LEMMA KeyMaps ==
  ASSUME Turns, IInv, LineInv, MayType, NEW c \in Chars \cup {SP}, Store(c),
         UNCHANGED <<term_enter, savedVars, termVars, readVars>>
  PROVE  Discipline!Next
<1>1. /\ Lines' = [Lines EXCEPT ![disp] = Text(keyboard_buf', keyboard_idx')]
      /\ Lines[disp] = Text(keyboard_buf, keyboard_idx)
      /\ Asked' = Asked /\ got' = got /\ ~Entered[disp] /\ Entered' = Entered
  BY EditLines
<1>2. /\ keyboard_idx' = keyboard_idx + 1
      /\ keyboard_idx \in 0 .. MAX_BUF_SIZE - 1
      /\ keyboard_buf'[keyboard_idx] = c
      /\ \A k \in 0 .. keyboard_idx - 1 : keyboard_buf'[k] = keyboard_buf[k]
      /\ Holds(keyboard_buf', keyboard_idx', Chars \cup {SP})
  BY StoreLine
<1>3. disp \in Terms /\ keyboard_idx \in Nat BY <1>2, Sizes
<1>4. Text(keyboard_buf, keyboard_idx) = Text(keyboard_buf', keyboard_idx)
  BY <1>2, <1>3, TextSame
<1>5. Holds(keyboard_buf', keyboard_idx + 1, Chars \cup {SP}) BY <1>2
<1>6. Append(Text(keyboard_buf', keyboard_idx), keyboard_buf'[keyboard_idx])
        = Text(keyboard_buf', keyboard_idx + 1)
  BY <1>3, <1>5, TextAppend
<1>7. Text(keyboard_buf', keyboard_idx') = Append(Lines[disp], c)
  BY <1>1, <1>2, <1>4, <1>6
<1>8. Len(Lines[disp]) < MAX_BUF_SIZE
  <2>1. Spells(Text(keyboard_buf, keyboard_idx), keyboard_buf, keyboard_idx, Chars \cup {SP})
    BY <1>3, TextSpells DEF LineInv, TextInv
  <2> QED BY <1>1, <1>2, <1>3, <2>1, ConstantsAssumption DEF Spells
<1>9. Discipline!Type(disp, c) BY <1>1, <1>7, <1>8 DEF Discipline!Type, Lines, Entered, Asked
<1> QED BY <1>3, <1>9 DEF Discipline!Next

\* The last character is erased.
LEMMA BackspaceMaps ==
  ASSUME Turns, IInv, LineInv, Backspace
  PROVE  Discipline!Next
<1>0. MayType /\ UNCHANGED <<term_enter, savedVars, termVars, readVars>> BY DEF Backspace
<1>1. /\ Lines' = [Lines EXCEPT ![disp] = Text(keyboard_buf', keyboard_idx')]
      /\ Lines[disp] = Text(keyboard_buf, keyboard_idx)
      /\ Asked' = Asked /\ got' = got /\ ~Entered[disp] /\ Entered' = Entered
  BY <1>0, EditLines
<1>2. /\ keyboard_idx \in 1 .. MAX_BUF_SIZE /\ keyboard_idx' = keyboard_idx - 1
      /\ \A k \in 0 .. keyboard_idx - 2 : keyboard_buf'[k] = keyboard_buf[k]
  BY BackspaceLine
<1>3. /\ disp \in Terms /\ keyboard_idx \in Nat /\ keyboard_idx - 1 \in Nat
      /\ keyboard_idx - 1 <= keyboard_idx
      /\ \A k \in 0 .. (keyboard_idx - 1) - 1 : keyboard_buf'[k] = keyboard_buf[k]
  <2>1. disp \in Terms BY Sizes
  <2>2. keyboard_idx \in Nat /\ keyboard_idx - 1 \in Nat /\ (keyboard_idx - 1) - 1 = keyboard_idx - 2
    BY <1>2, ConstantsAssumption
  <2> QED BY <1>2, <2>1, <2>2
<1>4. Text(keyboard_buf', keyboard_idx') = Text(keyboard_buf, keyboard_idx - 1)
  BY <1>2, <1>3, TextSame
<1>5. Holds(keyboard_buf, keyboard_idx, Chars \cup {SP}) BY DEF LineInv, TextInv
<1>6. SubSeq(Text(keyboard_buf, keyboard_idx), 1, keyboard_idx - 1)
        = Text(keyboard_buf, keyboard_idx - 1)
  BY <1>3, <1>5, TextPrefix
<1>7. Spells(Text(keyboard_buf, keyboard_idx), keyboard_buf, keyboard_idx, Chars \cup {SP})
  BY <1>3, <1>5, TextSpells
<1>8. Len(Lines[disp]) = keyboard_idx BY <1>1, <1>7 DEF Spells
<1>9. Lines[disp] # <<>> BY <1>2, <1>8, ConstantsAssumption
<1>10. Text(keyboard_buf', keyboard_idx') = SubSeq(Lines[disp], 1, Len(Lines[disp]) - 1)
  BY <1>1, <1>4, <1>6, <1>8
<1>11. Discipline!Erase(disp)
  BY <1>1, <1>9, <1>10 DEF Discipline!Erase, Lines, Entered, Asked
<1> QED BY <1>3, <1>11 DEF Discipline!Next

\* Ctrl-L discards the line.
LEMMA CtrlLMaps ==
  ASSUME Turns, IInv, LineInv, CtrlL
  PROVE  Discipline!Next
<1>0. MayType /\ keyboard_idx' = 0 /\ UNCHANGED <<term_enter, savedVars, termVars, readVars>>
  BY DEF CtrlL
<1>1. /\ Lines' = [Lines EXCEPT ![disp] = Text(keyboard_buf', keyboard_idx')]
      /\ Asked' = Asked /\ got' = got /\ ~Entered[disp] /\ Entered' = Entered
  BY <1>0, EditLines
<1>2. Text(keyboard_buf', keyboard_idx') = <<>> BY <1>0, TextEmpty
<1>3. Discipline!Discard(disp) BY <1>1, <1>2 DEF Discipline!Discard, Lines, Entered, Asked
<1> QED BY <1>3, Sizes DEF Discipline!Next

\* Enter hands the line over.
LEMMA EnterMaps ==
  ASSUME Turns, IInv, LineInv, Enter
  PROVE  Discipline!Next
<1>0. /\ MayType /\ keyboard_idx' = keyboard_idx /\ UNCHANGED <<savedVars, termVars, readVars>>
      /\ term_enter' = [term_enter EXCEPT ![disp] = TRUE] /\ pc' = pc
  BY DEF Enter, readVars
<1>1. /\ Lines' = [Lines EXCEPT ![disp] = Text(keyboard_buf', keyboard_idx')]
      /\ Lines[disp] = Text(keyboard_buf, keyboard_idx)
      /\ Asked' = Asked /\ got' = got /\ ~Entered[disp]
  BY <1>0, EditLines
<1>2. /\ disp \in Terms /\ keyboard_idx \in Nat /\ term_enter \in [Terms -> BOOLEAN]
      /\ \A k \in 0 .. keyboard_idx - 1 : keyboard_buf'[k] = keyboard_buf[k]
  BY EnterLine, Sizes, ConstantsAssumption
<1>3. Text(keyboard_buf', keyboard_idx') = Lines[disp] BY <1>0, <1>1, <1>2, TextSame
<1>4. Lines' = Lines BY <1>1, <1>3 DEF Lines
<1>5. pc[disp] = "wait" BY <1>0, <1>2, KeyTurn
<1>6. Entered' = [Entered EXCEPT ![disp] = TRUE] BY <1>0, <1>2, <1>5 DEF Entered
<1>7. Discipline!Enter(disp) <=> /\ ~Entered[disp]
                                 /\ Entered' = [Entered EXCEPT ![disp] = TRUE]
                                 /\ UNCHANGED <<Lines, Asked, got>>
  BY Zenon DEF Discipline!Enter, Lines, Entered, Asked
<1>8. UNCHANGED <<Lines, Asked, got>> BY <1>1, <1>4
<1>9. Discipline!Enter(disp) BY <1>1, <1>6, <1>7, <1>8, Zenon
<1>10. disp \in Terms BY <1>2
<1> QED BY <1>9, <1>10, Zenon DEF Discipline!Next, Discipline!Enter

\* The terminals change places: every line stays the same.
LEMMA SwitchMaps ==
  ASSUME Turns, IInv, LineInv, NEW newt \in Terms, "fresh_text" \notin Env,
         SwitchActive(newt) \/ SwitchFresh(newt)
  PROVE  UNCHANGED <<Lines, Entered, Asked, got>>
<1> USE DEF readVars
<1>0. /\ MaySwitch /\ save_terminal_state /\ newt # disp /\ curr_terminal_number' = newt
      /\ UNCHANGED <<term_enter, readVars>>
  BY DEF SwitchActive, SwitchFresh
<1>1. /\ disp \in Terms /\ keyboard_idx \in Nat /\ disp' = newt /\ keyboard_index[newt] \in Nat
      /\ \A t \in Terms : ~Taken(t)
  BY <1>0, SwitchTurn, Sizes, ConstantsAssumption DEF disp
<1>2. \A t \in Terms : ~Taken(t)' BY <1>0, <1>1 DEF Taken
<1>3. /\ \A k \in 0 .. keyboard_idx - 1 : input_buf'[disp][k] = keyboard_buf[k]
      /\ keyboard_index'[disp] = keyboard_idx
      /\ \A t \in Terms : t # disp =>
           input_buf'[t] = input_buf[t] /\ keyboard_index'[t] = keyboard_index[t]
  BY <1>0, SaveLine
<1>4. ASSUME NEW t \in Terms, t # disp, t # newt PROVE Line(t)' = Line(t)
  <2>1. Line(t) = Text(input_buf[t], keyboard_index[t]) BY <1>1, <1>4 DEF Line
  <2>2. Line(t)' = Text(input_buf[t], keyboard_index[t])' BY <1>1, <1>2, <1>4 DEF Line
  <2> QED BY <1>3, <1>4, <2>1, <2>2 DEF Text
<1>5. ASSUME NEW t \in Terms, t = disp PROVE Line(t)' = Line(t)
  <2>1. Line(t) = Text(keyboard_buf, keyboard_idx) BY <1>1, <1>5 DEF Line
  <2>2. Line(t)' = Text(input_buf'[t], keyboard_index'[t]) BY <1>0, <1>1, <1>2, <1>5 DEF Line, Text
  <2>3. Text(input_buf'[t], keyboard_idx) = Text(keyboard_buf, keyboard_idx)
    BY <1>1, <1>3, <1>5, TextSame
  <2> QED BY <1>3, <1>5, <2>1, <2>2, <2>3
<1>6. Line(newt)' = Line(newt)
  <2>1. Line(newt) = Text(input_buf[newt], keyboard_index[newt]) BY <1>0, <1>1 DEF Line
  <2>2. Line(newt)' = Text(keyboard_buf', keyboard_idx') BY <1>1, <1>2 DEF Line, Text
  <2>3. CASE SwitchActive(newt)
    <3>1. /\ \A k \in 0 .. keyboard_index[newt] - 1 : keyboard_buf'[k] = input_buf[newt][k]
          /\ keyboard_idx' = keyboard_index[newt]
      BY <2>3, RestoreLine DEF SwitchActive
    <3>2. Text(keyboard_buf', keyboard_index[newt]) = Text(input_buf[newt], keyboard_index[newt])
      BY <1>1, <3>1, TextSame
    <3> QED BY <2>1, <2>2, <3>1, <3>2
  <2>4. CASE SwitchFresh(newt)
    <3>1. keyboard_idx' = 0 /\ keyboard_index[newt] = 0
      BY <2>4 DEF SwitchFresh, liveVars, LineInv, TurnInv
    <3> QED BY <2>1, <2>2, <3>1, TextEmpty
  <2> QED BY <2>3, <2>4
<1>7. Lines' = Lines BY <1>4, <1>5, <1>6, LinesSame
<1>8. Entered' = Entered /\ Asked' = Asked /\ got' = got BY <1>0 DEF Entered, Asked
<1> QED BY <1>7, <1>8

\* A step of the reader of t that leaves the buffers alone, or that runs after the text was
\* taken, keeps every other terminal's line.
LEMMA ReaderLines ==
  ASSUME IInv, LineInv, NEW t \in Terms, UNCHANGED <<savedVars, termVars>>,
         UNCHANGED <<keyboard_buf, keyboard_idx>> \/ t = disp,
         \A u \in Terms : u # t => pc'[u] = pc[u]
  PROVE  \A u \in Terms : u # t => Line(u)' = Line(u)
<1> USE DEF savedVars, termVars
<1>1. disp' = disp BY DEF disp
<1> SUFFICES ASSUME NEW u \in Terms, u # t PROVE Line(u)' = Line(u) OBVIOUS
<1>2. Taken(u)' <=> Taken(u) BY DEF Taken
<1>3. CASE Taken(u) BY <1>2, <1>3 DEF Line
<1>4. CASE ~Taken(u) /\ u = disp BY <1>1, <1>2, <1>4 DEF Line, Text
<1>5. CASE ~Taken(u) /\ u # disp BY <1>1, <1>2, <1>5 DEF Line, Text
<1> QED BY <1>3, <1>4, <1>5

\* The program asks for a line.
LEMMA CallMaps ==
  ASSUME Turns, IInv, LineInv, NEW t \in Terms, Call(t)
  PROVE  Discipline!Next
<1>1. PICK n \in Requests : nbytes' = [nbytes EXCEPT ![t] = n] BY DEF Call
<1>2. /\ pc[t] = "idle" /\ pc' = [pc EXCEPT ![t] = "wait"] /\ got' = [got EXCEPT ![t] = <<>>]
      /\ UNCHANGED <<savedVars, termVars, keyboard_buf, keyboard_idx, term_enter>>
  BY DEF Call, liveVars
<1>3. /\ pc \in [Terms -> PCs] /\ nbytes \in [Terms -> Nat] BY Sizes
<1>4. pc'[t] = "wait" /\ \A u \in Terms : u # t => pc'[u] = pc[u] /\ nbytes'[u] = nbytes[u]
  BY <1>1, <1>2, <1>3
<1>5. Line(t)' = Line(t)
  <2>1. ~Taken(t) /\ ~Taken(t)' BY <1>2, <1>4 DEF Taken
  <2>2. disp' = disp BY <1>2 DEF disp, termVars
  <2> QED BY <1>2, <2>1, <2>2 DEF Line, Text, savedVars
<1>6. Lines' = Lines
  <2>1. \A u \in Terms : u # t => Line(u)' = Line(u) BY <1>2, <1>4, ReaderLines
  <2> QED BY <1>5, <2>1, LinesSame
<1>7. Entered' = Entered BY <1>2, <1>3, <1>4 DEF Entered
<1>8. Asked[t] = 0 /\ Asked' = [Asked EXCEPT ![t] = n]
  BY <1>1, <1>2, <1>3, <1>4 DEF Asked, Reading, Copying
<1>9. Discipline!Ask(t, n) <=> /\ Asked[t] = 0 /\ Asked' = [Asked EXCEPT ![t] = n]
                               /\ got' = [got EXCEPT ![t] = <<>>]
                               /\ UNCHANGED <<Lines, Entered>>
  BY Zenon DEF Discipline!Ask, Lines, Entered, Asked
<1>10. UNCHANGED <<Lines, Entered>> BY <1>6, <1>7
<1>11. Discipline!Ask(t, n) BY <1>2, <1>8, <1>9, <1>10, Zenon
<1> QED BY <1>1, <1>11, Zenon DEF Discipline!Next

\* The text up to the new line, cut to the bytes asked for, is what was copied.
LEMMA CutLine ==
  ASSUME NEW b, NEW n \in Nat, NEW m \in Nat, NEW k \in Nat, NEW S, Holds(b, n, S), b[n] = NL,
         NL \in S, k <= n + 1, k <= m, k = n + 1 \/ k = m
  PROVE  Discipline!Cut(Append(Text(b, n), NL), m) = Text(b, k)
<1>1. Holds(b, n + 1, S) BY DEF Holds
<1>2. Append(Text(b, n), NL) = Text(b, n + 1) BY <1>1, TextAppend
<1>3. n + 1 \in Nat OBVIOUS
<1>4. Spells(Text(b, n + 1), b, n + 1, S) BY <1>1, <1>3, TextSpells
<1>5. Len(Text(b, n + 1)) = n + 1 BY <1>4 DEF Spells
<1>6. (IF n + 1 < m THEN n + 1 ELSE m) = k OBVIOUS
<1>7. SubSeq(Text(b, n + 1), 1, k) = Text(b, k) BY <1>1, <1>3, TextPrefix
<1> QED BY <1>2, <1>5, <1>6, <1>7 DEF Discipline!Cut

\* The copy ends: the program has taken the line.
LEMMA TerminateMaps ==
  ASSUME Turns, IInv, LineInv, NEW t \in Terms, Terminate(t)
  PROVE  Discipline!Next
<1>1. /\ pc[t] \in Copying /\ (AtNul(t) \/ BehindLine(t)) /\ got' = [got EXCEPT ![t] = buf[t]]
      /\ pc' = [pc EXCEPT ![t] = "enter"]
      /\ UNCHANGED <<savedVars, termVars, keyboard_buf, keyboard_idx, term_enter, nbytes>>
  BY DEF Terminate, liveVars, Copying
<1>2. /\ pc \in [Terms -> PCs] /\ term_enter \in [Terms -> BOOLEAN] /\ keyboard_idx \in Nat
      /\ nbytes \in [Terms -> Nat]
  <2>1. keyboard_idx \in 0 .. MAX_BUF_SIZE BY Sizes
  <2>2. keyboard_idx \in Nat BY <2>1
  <2> QED BY <2>2, Sizes
<1>3. /\ t = disp /\ term_enter[t] /\ i[t] \in 0 .. keyboard_idx + 1 /\ i[t] <= nbytes[t]
      /\ nbytes[t] \in Nat \ {0} /\ buf[t] = Text(keyboard_buf, i[t])
      /\ i[t] = keyboard_idx + 1 \/ i[t] = nbytes[t]
  BY <1>1, CopyPlace
<1>4. pc'[t] = "enter" /\ \A u \in Terms : u # t => pc'[u] = pc[u] BY <1>1, <1>2
<1>5. Lines[t] = Text(keyboard_buf, keyboard_idx)
  <2>1. ~Taken(t) BY <1>1 DEF Taken, Copying
  <2> QED BY <1>3, <2>1 DEF Lines, Line
<1>6. Lines' = [Lines EXCEPT ![t] = <<>>]
  <2>1. \A u \in Terms : u # t => Line(u)' = Line(u) BY <1>1, <1>4, ReaderLines
  <2>2. Line(t)' = <<>> BY <1>4 DEF Line, Taken
  <2> QED BY <2>1, <2>2, LinesUpdate
<1>7. Discipline!Cut(Append(Lines[t], NL), Asked[t]) = buf[t]
  <2>1. /\ Holds(keyboard_buf, keyboard_idx, Chars \cup {SP}) /\ keyboard_buf[keyboard_idx] = NL
    BY <1>3 DEF LineInv, TextInv
  <2>2. Holds(keyboard_buf, keyboard_idx, Chars \cup {SP, NL}) BY <2>1 DEF Holds
  <2>3. Asked[t] = nbytes[t] BY <1>1 DEF Asked, Reading
  <2>4. i[t] \in Nat /\ i[t] <= keyboard_idx + 1 BY <1>2, <1>3
  <2>5. Discipline!Cut(Append(Text(keyboard_buf, keyboard_idx), NL), nbytes[t])
          = Text(keyboard_buf, i[t])
    BY <1>2, <1>3, <2>1, <2>2, <2>4, CutLine
  <2> QED BY <1>3, <1>5, <2>3, <2>5
<1>8. Asked[t] # 0 /\ Asked' = [Asked EXCEPT ![t] = 0]
  BY <1>1, <1>2, <1>3, <1>4 DEF Asked, Reading, Copying
<1>9. Entered[t] /\ Entered' = [Entered EXCEPT ![t] = FALSE]
  BY <1>1, <1>2, <1>3, <1>4 DEF Entered, Copying
<1>10. Discipline!Take(t) <=>
         /\ Asked[t] # 0 /\ Entered[t]
         /\ got' = [got EXCEPT ![t] = Discipline!Cut(Append(Lines[t], NL), Asked[t])]
         /\ Lines' = [Lines EXCEPT ![t] = <<>>]
         /\ Entered' = [Entered EXCEPT ![t] = FALSE]
         /\ Asked' = [Asked EXCEPT ![t] = 0]
  BY Zenon DEF Discipline!Take, Lines, Entered, Asked
<1>11. got' = [got EXCEPT ![t] = Discipline!Cut(Append(Lines[t], NL), Asked[t])]
  BY <1>1, <1>7
<1>12. Discipline!Take(t) BY <1>6, <1>8, <1>9, <1>10, <1>11, Zenon
<1> QED BY <1>12, Zenon DEF Discipline!Next

\* The rest of keyboard_read is not seen from outside.
LEMMA ReaderStutters ==
  ASSUME Turns, IInv, LineInv, NEW t \in Terms,
         \/ Woken(t) \/ Fetch(t) \/ Scan(t) \/ ScanEnd(t) \/ TestCell(t) \/ TestPrev(t) \/ Copy(t)
         \/ ClearEnter(t) \/ Blank(t) \/ ResetIdx(t) \/ ResetLast(t)
  PROVE  UNCHANGED <<Lines, Entered, Asked, got>>
<1> USE DEF liveVars
<1>0. /\ pc \in [Terms -> PCs] /\ term_enter \in [Terms -> BOOLEAN] /\ disp \in Terms
      /\ UNCHANGED <<savedVars, termVars, nbytes, got>> /\ disp' = disp
  BY Sizes DEF Woken, Fetch, Scan, ScanEnd, TestCell, TestPrev,
     Copy, ClearEnter, Blank, ResetIdx, ResetLast, disp, termVars
<1>1. \A u \in Terms : u # t => pc'[u] = pc[u] /\ term_enter'[u] = term_enter[u]
  BY <1>0 DEF Woken, Fetch, Scan, ScanEnd, TestCell, TestPrev,
     Copy, ClearEnter, Blank, ResetIdx, ResetLast
<1>2. pc[t] \in {"idle", "wait"} \/ t = disp BY DEF LineInv, TurnInv
<1>3. UNCHANGED <<keyboard_buf, keyboard_idx>> \/ t = disp
  BY <1>2 DEF Woken, Fetch, Scan, ScanEnd, TestCell, TestPrev,
     Copy, ClearEnter, Blank, ResetIdx, ResetLast
<1>4. \A u \in Terms : u # t => Line(u)' = Line(u) BY <1>0, <1>1, <1>3, ReaderLines
<1>5. Line(t)' = Line(t)
  <2>1. CASE \/ Woken(t) \/ Fetch(t) \/ Scan(t) \/ ScanEnd(t)
            \/ TestCell(t) \/ TestPrev(t) \/ Copy(t)
    <3>1. ~Taken(t) /\ ~Taken(t)' BY <1>0, <2>1 DEF Woken, Fetch, Scan, ScanEnd, TestCell, TestPrev,
     Copy, Taken
    <3>2. UNCHANGED <<keyboard_buf, keyboard_idx>> BY <2>1 DEF Woken, Fetch, Scan, ScanEnd, TestCell, TestPrev,
     Copy
    <3> QED BY <1>0, <3>1, <3>2 DEF Line, Text, savedVars
  <2>2. CASE ClearEnter(t) \/ Blank(t) \/ ResetIdx(t)
    <3>1. Taken(t) /\ Taken(t)' BY <1>0, <2>2 DEF ClearEnter, Blank, ResetIdx, Taken
    <3> QED BY <3>1 DEF Line
  <2>3. CASE ResetLast(t)
    <3>1. pc[t] = "last" /\ pc'[t] = "idle" /\ UNCHANGED <<keyboard_buf, keyboard_idx>>
      BY <1>0, <2>3 DEF ResetLast
    <3>2. t = disp BY <1>2, <3>1
    <3>3. keyboard_idx' = 0 BY <3>1, <3>2 DEF LineInv, EchoInv
    <3>4. Line(t) = <<>> BY <3>1 DEF Line, Taken
    <3>5. Line(t)' = Text(keyboard_buf', 0) BY <1>0, <3>1, <3>2, <3>3 DEF Line, Taken, Text
    <3> QED BY <3>4, <3>5, TextEmpty
  <2> QED BY <2>1, <2>2, <2>3
<1>6. Lines' = Lines BY <1>4, <1>5, LinesSame
<1>7. pc[t] \in {"wait"} \cup Reading <=> pc'[t] \in {"wait"} \cup Reading
  BY <1>0 DEF Woken, Fetch, Scan, ScanEnd, TestCell, TestPrev,
     Copy, ClearEnter, Blank, ResetIdx, ResetLast, Reading, Copying
<1>8. Asked' = Asked BY <1>0, <1>1, <1>7 DEF Asked
<1>9. (term_enter[t] /\ pc[t] # "enter") <=> (term_enter'[t] /\ pc'[t] # "enter")
  BY <1>0 DEF Woken, Fetch, Scan, ScanEnd, TestCell, TestPrev,
     Copy, ClearEnter, Blank, ResetIdx, ResetLast
<1>10. Entered' = Entered BY <1>1, <1>9 DEF Entered
<1> QED BY <1>0, <1>6, <1>8, <1>10

\* Every step of the keyboard is a step of LineDiscipline or changes nothing there.
LEMMA LineStep ==
  ASSUME Env = {}, IInv, LineInv, [Next]_vars
  PROVE  [Discipline!Next]_(Discipline!vars)
<1>0. Turns /\ "fresh_text" \notin Env BY DEF Turns
<1>1. UNCHANGED <<Lines, Entered, Asked, got>> => UNCHANGED Discipline!vars
  BY Zenon DEF Discipline!vars, Lines, Entered, Asked
<1>2. ASSUME NEW c \in Chars, Key(c) PROVE Discipline!Next
  <2>1. c \in Chars \cup {SP} OBVIOUS
  <2> QED BY <1>0, <1>2, <2>1, KeyMaps DEF Key
<1>3. CASE BackspaceAtOrigin
  <2>1. SP \in Chars \cup {SP} OBVIOUS
  <2> QED BY <1>0, <1>3, <2>1, KeyMaps DEF BackspaceAtOrigin
<1>4. CASE Enter BY <1>0, <1>4, EnterMaps
<1>5. CASE Backspace BY <1>0, <1>5, BackspaceMaps
<1>6. CASE CtrlL BY <1>0, <1>6, CtrlLMaps
<1>7. ASSUME NEW t \in Terms, SwitchActive(t) \/ SwitchFresh(t) PROVE UNCHANGED Discipline!vars
  BY <1>0, <1>1, <1>7, SwitchMaps
<1>8. ASSUME NEW t \in Terms, Call(t) PROVE Discipline!Next BY <1>0, <1>8, CallMaps
<1>9. ASSUME NEW t \in Terms, Reader(t) PROVE Discipline!Next \/ UNCHANGED Discipline!vars
  BY <1>0, <1>1, <1>9, TerminateMaps, ReaderStutters DEF Reader
<1>10. CASE UNCHANGED vars
  <2> USE <1>10 DEF vars, liveVars, savedVars, termVars, readVars
  <2>1. disp' = disp /\ \A t \in Terms : Taken(t)' <=> Taken(t) BY DEF disp, Taken
  <2>2. \A t \in Terms : Line(t)' = Line(t) BY <2>1 DEF Line, Text
  <2>3. Lines' = Lines BY <2>2, LinesSame
  <2>4. Entered' = Entered /\ Asked' = Asked /\ got' = got BY DEF Entered, Asked
  <2> QED BY <1>1, <2>3, <2>4
<1> QED BY <1>2, <1>3, <1>4, <1>5, <1>6, <1>7, <1>8, <1>9, <1>10 DEF Next, Handler

\* keyboard_handler, keyboard_read and the exchange of buffers in switch_terminal implement
\* LineDiscipline: what a read returns is the text typed on its own terminal up to Enter,
\* cut to the bytes asked for, however the terminals are switched in between.
THEOREM LineRefinement == ASSUME Env = {} PROVE Spec => LineSpec
<1>1. Init => Discipline!Init
  <2> SUFFICES ASSUME Init PROVE Discipline!Init OBVIOUS
  <2>1. \A t \in Terms : Line(t) = <<>>
    BY TextEmpty DEF Init, Line, Taken
  <2> QED BY <2>1 DEF Discipline!Init, Init
<1>2. Turns BY DEF Turns
<1>3. IInv /\ LineInv /\ [Next]_vars => [Discipline!Next]_(Discipline!vars) BY LineStep
<1> QED BY <1>1, <1>2, <1>3, LinesKept, PTL DEF Spec, LineSpec, Discipline!Spec
=============================================================================
