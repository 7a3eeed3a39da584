--------------------------- MODULE ConsoleProofs ----------------------------
(***************************************************************************)
(* For screens of any size, any terminals and any output: TypeOK, which    *)
(* bounds the position on every screen, CursorOnScreen, OwnScreenOnly and  *)
(* EchoShown.  The first two are inductive: the lemmas say that putc,      *)
(* vert_scroll and Backspace take a console to a console.  EchoShown needs *)
(* EchoInv: where on its console the line of a terminal stands.            *)
(***************************************************************************)
EXTENDS Console, SequenceTheorems, TLAPS

\* The column after x: the step of putc and its % NUM_COLS.
LEMMA NextColumn ==
  ASSUME NEW x \in 0 .. NUM_COLS
  PROVE  (x + 1) % NUM_COLS = IF x < NUM_COLS - 1 THEN x + 1 ELSE IF x = NUM_COLS - 1 THEN 0 ELSE 1
<1>c. NUM_COLS \in Nat /\ NUM_COLS > 1 BY ConstantsAssumption
<1>1. CASE x < NUM_COLS - 1 BY <1>1, <1>c
<1>2. CASE x = NUM_COLS - 1
  <2>1. x + 1 = NUM_COLS BY <1>2, <1>c
  <2>2. NUM_COLS % NUM_COLS = 0 BY <1>c
  <2> QED BY <2>1, <2>2, <1>2, <1>c
<1>3. CASE x = NUM_COLS
  <2>1. (NUM_COLS + 1) % NUM_COLS = 1 BY <1>c
  <2> QED BY <2>1, <1>3, <1>c
<1> QED BY <1>1, <1>2, <1>3, <1>c

\* A console that is cleared is a console, with its position on the screen.
LEMMA BlankOK == Blank \in Consoles /\ On(Blank)
BY ConstantsAssumption DEF Blank, Consoles, Cells, On

\* Scrolling gives a console with its position on the screen.
LEMMA ScrollOK ==
  ASSUME NEW k \in Consoles
  PROVE  vert_scroll(k) \in Consoles /\ On(vert_scroll(k))
<1> DEFINE f == [p \in Positions |-> IF p + NUM_COLS \in Positions THEN k.cells[p + NUM_COLS]
                                     ELSE NUL]
<1>1. f \in [Positions -> Cells]
  BY DEF Consoles, Cells
<1> HIDE DEF f
<1>2. vert_scroll(k) = [cells |-> f, x |-> 0, y |-> NUM_ROWS - 1]
  BY DEF vert_scroll, f
<1> QED
  BY <1>1, <1>2, ConstantsAssumption DEF Consoles, On

\* A new line is a console with its position on the screen.
LEMMA NewLineOK ==
  ASSUME NEW k \in Consoles
  PROVE  NewLine(k) \in Consoles /\ On(NewLine(k))
<1>1. CASE k.y = NUM_ROWS - 1
  BY <1>1, ScrollOK DEF NewLine
<1>2. CASE k.y # NUM_ROWS - 1
  <2>1. k.cells \in [Positions -> Cells] /\ k.y \in 0 .. NUM_ROWS - 1
    BY DEF Consoles
  <2>2. NewLine(k) = [cells |-> k.cells, x |-> 0, y |-> k.y + 1]
    BY <1>2 DEF NewLine, Consoles
  <2> QED
    BY <2>1, <2>2, <1>2, ConstantsAssumption DEF Consoles, On
<1> QED
  BY <1>1, <1>2

\* Writing a character leaves the position alone.
LEMMA WrittenOK ==
  ASSUME NEW k \in Consoles, NEW c \in Cells
  PROVE  Written(k, c) \in Consoles /\ Written(k, c).x = k.x /\ Written(k, c).y = k.y
<1> DEFINE f == [p \in Positions |-> IF p = Position(k) THEN c ELSE k.cells[p]]
<1>1. f \in [Positions -> Cells]
  BY DEF Consoles
<1> HIDE DEF f
<1>2. Written(k, c) = [k EXCEPT !.cells = f]
  BY DEF Written, f
<1> QED
  BY <1>1, <1>2 DEF Consoles

\* Moving the position keeps the cells.
LEMMA MovedOK ==
  ASSUME NEW k \in Consoles, NEW a \in 0 .. NUM_COLS, NEW b \in 0 .. NUM_ROWS - 1
  PROVE  /\ [k EXCEPT !.x = a, !.y = b] \in Consoles
         /\ [k EXCEPT !.x = a, !.y = b].x = a
         /\ [k EXCEPT !.x = a, !.y = b].y = b
BY DEF Consoles

\* The position after a character is on the screen, unless the character was the last.
LEMMA AdvanceOK ==
  ASSUME NEW k \in Consoles, ~Corner(k)
  PROVE  Advance(k) \in Consoles /\ On(Advance(k))
<1> DEFINE col == (k.x + 1) % NUM_COLS
<1> DEFINE row == IF col = 0 THEN k.y + 1 ELSE k.y
<1>1. k.x \in 0 .. NUM_COLS /\ k.y \in 0 .. NUM_ROWS - 1
  BY DEF Consoles
<1>2. col = IF k.x < NUM_COLS - 1 THEN k.x + 1 ELSE IF k.x = NUM_COLS - 1 THEN 0 ELSE 1
  BY <1>1, NextColumn
<1>3. Advance(k) = [k EXCEPT !.x = col, !.y = row]
  BY DEF Advance
<1> HIDE DEF col
<1>4. col \in 0 .. NUM_COLS - 1 /\ row \in 0 .. NUM_ROWS - 1
  BY <1>1, <1>2, ConstantsAssumption DEF Corner
<1> HIDE DEF row
<1>5. Advance(k) \in Consoles /\ Advance(k).x = col /\ Advance(k).y = row
  <2>1. col \in 0 .. NUM_COLS
    BY <1>4, ConstantsAssumption
  <2> QED
    BY <1>3, <1>4, <2>1 DEF Consoles
<1> QED
  BY <1>4, <1>5, ConstantsAssumption DEF On

\* Wherever the position was, putc leaves it on the screen.
LEMMA PutcOK ==
  ASSUME NEW k \in Consoles, NEW c \in Cells \cup {NL}
  PROVE  putc(k, c) \in Consoles /\ On(putc(k, c))
<1>1. CASE c = NL
  BY <1>1, NewLineOK DEF putc
<1>2. CASE c # NL
  <2>1. c \in Cells BY <1>2
  <2>2. Written(k, c) \in Consoles /\ (Corner(Written(k, c)) <=> Corner(k))
    BY <2>1, WrittenOK DEF Corner
  <2>3. CASE Corner(k)
    BY <1>2, <2>2, <2>3, ScrollOK DEF putc
  <2>4. CASE ~Corner(k)
    BY <1>2, <2>2, <2>4, AdvanceOK DEF putc
  <2> QED BY <2>3, <2>4
<1> QED BY <1>1, <1>2

\* The echo of a key.
LEMMA KeyEchoOK ==
  ASSUME NEW k \in Consoles, k = screen, NEW c \in Cells
  PROVE  KeyEcho(c) \in Consoles /\ On(KeyEcho(c))
<1>1. (IF Corner(screen) THEN vert_scroll(screen) ELSE screen) \in Consoles
  BY ScrollOK
<1> QED
  BY <1>1, PutcOK DEF KeyEcho

\* Erasing a character leaves the position where it was.
LEMMA EraseOK ==
  ASSUME NEW e \in Consoles
  PROVE  Erase(e) \in Consoles /\ (On(e) => On(Erase(e)))
<1>1. putc(e, NUL) \in Consoles
  BY PutcOK DEF Cells
<1> QED
  BY <1>1 DEF Erase, Consoles, On

-----------------------------------------------------------------------------
(* Consoles that hold a position on the screen unless Backspace may go to   *)
(* the row above.                                                           *)
Good(k) == k \in Consoles /\ ("wrap" \notin env => On(k))

GoodInv == TypeOK /\ CursorOnScreen

\* Where Backspace erases: the console there is good if the screen is.
LEMMA ErasedAtOK ==
  ASSUME GoodInv, ~AtOrigin, "wrap" \in env \/ screen.x # 0,
         NEW n \in 0 .. NUM_COLS, NEW m \in 0 .. NUM_ROWS - 1,
         ErasedAt(screen, [screen EXCEPT !.x = n, !.y = m])
  PROVE  Good([screen EXCEPT !.x = n, !.y = m])
<1> DEFINE e == [screen EXCEPT !.x = n, !.y = m]
<1>1. screen \in Consoles /\ ("wrap" \notin env => On(screen))
  BY DEF GoodInv, TypeOK, CursorOnScreen
<1>3. e \in Consoles
  BY <1>1, MovedOK
<1>4. ASSUME "wrap" \notin env PROVE On(e)
  <2>1. screen.x # 0 BY <1>4
  <2>2. e = [screen EXCEPT !.x = screen.x - 1]
    BY <2>1 DEF ErasedAt
  <2>3. e.x = screen.x - 1 /\ e.y = screen.y
    BY <2>2, <1>1 DEF Consoles
  <2> QED
    BY <2>3, <1>1, <1>4, ConstantsAssumption DEF On, Consoles
<1> QED
  BY <1>3, <1>4 DEF Good

\* The lines, the output and the texts of files keep their types.
LinesOK ==
  /\ line \in [Terms -> Seq(Chars \cup {SP})]
  /\ entered \in [Terms -> BOOLEAN]
  /\ hidden \in [Terms -> Nat]
  /\ out \in Seq(Chars \cup {NL, SP})
  /\ file \in [Terms -> Seq(FileChars)]

\* A step that changes neither lines nor output.
LEMMA LinesKept ==
  ASSUME GoodInv, UNCHANGED <<lineVars, out, file>>
  PROVE  LinesOK'
BY DEF GoodInv, TypeOK, LinesOK, lineVars

\* The steps of keyboard_handler on the displayed terminal, of the scheduler and of
\* programs change the screen or the saved console of one terminal.
LEMMA GoodStep ==
  ASSUME GoodInv, Good(screen'), env' = env,
         \/ saved' = saved
         \/ \E t \in Terms, k \in Consoles : Good(k) /\ saved' = [saved EXCEPT ![t] = k],
         cursor' \in Nat,
         curr_terminal_number' \in Terms, curr_term' \in Terms,
         active' \in [Terms -> BOOLEAN],
         LinesOK'
  PROVE  GoodInv'
<1>1. saved' \in [Terms -> Consoles]
  BY DEF GoodInv, TypeOK
<1>2. ASSUME "wrap" \notin env, NEW t \in Terms PROVE On(saved'[t])
  BY <1>2 DEF GoodInv, TypeOK, CursorOnScreen, Good
<1>3. TypeOK'
  BY <1>1 DEF GoodInv, TypeOK, Good, LinesOK
<1> QED
  BY <1>2, <1>3 DEF GoodInv, CursorOnScreen, Good, On

\* The cursor of the VGA is set to a natural number.
LEMMA PositionNat ==
  ASSUME NEW k \in Consoles
  PROVE  Position(k) \in Nat
<1>1. k.x \in Nat /\ k.y \in Nat
  BY ConstantsAssumption DEF Consoles
<1>2. NUM_COLS * k.y \in Nat
  BY <1>1, ConstantsAssumption
<1> QED
  BY <1>1, <1>2 DEF Position

\* A step that shows a good console and leaves the saved ones and the terminals alone.
LEMMA ShowStep ==
  ASSUME GoodInv, NEW k, Good(k), Show(k), UNCHANGED <<env, saved, termVars>>, LinesOK'
  PROVE  GoodInv'
<1>1. Good(screen')
  BY DEF Show
<1>2. cursor' \in Nat
  BY PositionNat DEF Show, Good
<1>3. /\ saved' = saved /\ env' = env
      /\ curr_terminal_number' \in Terms /\ curr_term' \in Terms
      /\ active' \in [Terms -> BOOLEAN]
  BY DEF GoodInv, TypeOK, termVars
<1> QED
  BY <1>1, <1>2, <1>3, GoodStep

\* The screen and the saved consoles are good ones.
LEMMA GoodConsoles ==
  ASSUME GoodInv
  PROVE  Good(screen) /\ \A t \in Terms : Good(saved[t])
BY DEF GoodInv, TypeOK, CursorOnScreen, Good

\* Keys with a character, and Backspace that is taken for one.
LEMMA TypeStep ==
  ASSUME GoodInv, NEW c \in Chars \cup {SP}, Type(c)
  PROVE  GoodInv'
<1>1. Good(KeyEcho(c))
  BY KeyEchoOK DEF GoodInv, TypeOK, Good, Cells
<1>2. LinesOK'
  <2>1. disp \in Terms /\ line \in [Terms -> Seq(Chars \cup {SP})]
    BY DEF GoodInv, TypeOK, disp
  <2>2. Append(line[disp], c) \in Seq(Chars \cup {SP})
    BY <2>1
  <2>3. line' \in [Terms -> Seq(Chars \cup {SP})]
    BY <2>1, <2>2 DEF Type
  <2> QED
    BY <2>3 DEF Type, GoodInv, TypeOK, LinesOK
<1>4. Show(KeyEcho(c)) /\ UNCHANGED <<env, saved, termVars>>
  BY DEF Type
<1> QED
  BY <1>1, <1>2, <1>4, ShowStep

\* Enter.
LEMMA EnterStep ==
  ASSUME GoodInv, Enter
  PROVE  GoodInv'
<1>1. Good(NewLine(screen))
  BY NewLineOK DEF GoodInv, TypeOK, Good
<1>2. LinesOK'
  BY DEF GoodInv, TypeOK, LinesOK, Enter
<1>3. Show(NewLine(screen)) /\ UNCHANGED <<env, saved, termVars>>
  BY DEF Enter
<1> QED
  BY <1>1, <1>2, <1>3, ShowStep

\* Backspace that erases a character.
LEMMA BackspaceStep ==
  ASSUME GoodInv, Backspace
  PROVE  GoodInv'
<1>1. PICK n \in 0 .. NUM_COLS, m \in 0 .. NUM_ROWS - 1 :
        /\ ErasedAt(screen, [screen EXCEPT !.x = n, !.y = m])
        /\ Show(Erase([screen EXCEPT !.x = n, !.y = m]))
  BY DEF Backspace
<1> DEFINE e == [screen EXCEPT !.x = n, !.y = m]
<1>2. Good(e)
  BY <1>1, ErasedAtOK DEF Backspace
<1>3. Show(Erase(e))
  BY <1>1
<1> HIDE DEF e
<1>4. Good(Erase(e))
  BY <1>2, EraseOK DEF Good
<1>5. LinesOK'
  <2>1. disp \in Terms /\ line \in [Terms -> Seq(Chars \cup {SP})] /\ line[disp] # <<>>
    BY DEF GoodInv, TypeOK, disp, Backspace
  <2>2. SubSeq(line[disp], 1, Len(line[disp]) - 1) \in Seq(Chars \cup {SP})
    BY <2>1
  <2>3. line' \in [Terms -> Seq(Chars \cup {SP})]
    BY <2>1, <2>2 DEF Backspace
  <2>4. PICK h : h = IF hidden[disp] < Len(line[disp]) THEN hidden[disp] ELSE Len(line[disp]) - 1
    OBVIOUS
  <2>5. h \in Nat
    <3>1. hidden[disp] \in Nat BY <2>1 DEF GoodInv, TypeOK
    <3>2. Len(line[disp]) \in Nat /\ Len(line[disp]) # 0 BY <2>1
    <3> QED BY <2>4, <3>1, <3>2
  <2>6. hidden' = [hidden EXCEPT ![disp] = h]
    BY <2>4 DEF Backspace
  <2> QED
    BY <2>3, <2>5, <2>6 DEF Backspace, GoodInv, TypeOK, LinesOK
<1>7. UNCHANGED <<env, saved, termVars>>
  BY DEF Backspace
<1> QED
  BY <1>3, <1>4, <1>5, <1>7, ShowStep

\* Backspace in the first column, below an empty row: the position moves up.
LEMMA EmptyRowStep ==
  ASSUME GoodInv, BackspaceEmptyRow
  PROVE  GoodInv'
<1> USE DEF BackspaceEmptyRow
<1>1. screen.x = 0 /\ screen \in Consoles /\ screen.y \in 0 .. NUM_ROWS - 1
  BY DEF GoodInv, TypeOK, Consoles
<1>2. screen.y # 0
  BY <1>1 DEF AtOrigin
<1>3. screen.y - 1 \in 0 .. NUM_ROWS - 1
  BY <1>1, <1>2, ConstantsAssumption
<1>4. Good(screen')
  BY <1>1, <1>3 DEF Good, Consoles
<1>5. /\ env' = env /\ saved' = saved /\ cursor' \in Nat
      /\ curr_terminal_number' \in Terms /\ curr_term' \in Terms
      /\ active' \in [Terms -> BOOLEAN]
  BY DEF GoodInv, TypeOK, termVars
<1> QED
  BY <1>4, <1>5, LinesKept, GoodStep

\* Backspace when nothing was typed.
LEMMA EmptyLineStep ==
  ASSUME GoodInv, BackspaceEmptyLine
  PROVE  GoodInv'
<1>1. LinesOK'
  BY LinesKept DEF BackspaceEmptyLine
<1>2. Show(screen) /\ UNCHANGED <<env, saved, termVars>>
  BY DEF BackspaceEmptyLine
<1> QED
  BY <1>1, <1>2, GoodConsoles, ShowStep

\* The keys that call clear.
LEMMA ClearStep ==
  ASSUME GoodInv, clear, UNCHANGED <<env, termVars>>, LinesOK'
  PROVE  GoodInv'
<1> USE DEF clear
<1>1. Good(Blank)
  BY BlankOK DEF Good
<1>2. Good(screen')
  BY <1>1, GoodConsoles
<1>3. \/ saved' = saved
      \/ \E t \in Terms, k \in Consoles : Good(k) /\ saved' = [saved EXCEPT ![t] = k]
  BY <1>1 DEF GoodInv, TypeOK, Good
<1>5. /\ env' = env /\ cursor' \in Nat
      /\ curr_terminal_number' \in Terms /\ curr_term' \in Terms
      /\ active' \in [Terms -> BOOLEAN]
  BY DEF GoodInv, TypeOK, termVars
<1> QED
  BY <1>2, <1>3, <1>5, GoodStep

\* What a key hides are numbers of characters.
LEMMA HideNat ==
  ASSUME GoodInv, NEW T, line' \in [Terms -> Seq(Chars \cup {SP})]
  PROVE  Hide(T) \in [Terms -> Nat]
<1>1. ASSUME NEW t \in Terms PROVE Len(line'[t]) \in Nat /\ hidden[t] \in Nat
  BY DEF GoodInv, TypeOK
<1> QED BY <1>1 DEF Hide

\* Ctrl-L, and Ctrl-1 to Ctrl-5.
LEMMA CtrlStep ==
  ASSUME GoodInv, CtrlL \/ CtrlClear \/ CtrlFile
  PROVE  GoodInv'
<1>1. line' \in [Terms -> Seq(Chars \cup {SP})]
  <2>1. disp \in Terms /\ <<>> \in Seq(Chars \cup {SP})
    BY DEF GoodInv, TypeOK, disp
  <2> QED
    BY <2>1 DEF GoodInv, TypeOK, CtrlL, CtrlClear, CtrlFile
<1>2. hidden' \in [Terms -> Nat]
  BY <1>1, HideNat DEF CtrlL, CtrlClear, CtrlFile
<1>3. file' \in [Terms -> Seq(FileChars)]
  <2>1. FileTexts \subseteq Seq(FileChars) /\ file \in [Terms -> Seq(FileChars)]
    BY ConstantsAssumption DEF GoodInv, TypeOK
  <2> QED
    BY <2>1 DEF CtrlL, CtrlClear, CtrlFile
<1>4. entered' = entered /\ out' = out /\ clear /\ UNCHANGED <<env, termVars>>
  BY DEF CtrlL, CtrlClear, CtrlFile
<1>5. LinesOK'
  BY <1>1, <1>2, <1>3, <1>4 DEF GoodInv, TypeOK, LinesOK
<1> QED
  BY <1>4, <1>5, ClearStep

\* Alt-F1, F2, F3 for a terminal that has a shell.
LEMMA SwitchActiveStep ==
  ASSUME GoodInv, NEW newt \in Terms, SwitchActive(newt)
  PROVE  GoodInv'
<1> USE DEF SwitchActive
<1>1. Good(screen')
  BY GoodConsoles DEF Show
<1>2. \E t \in Terms, k \in Consoles : Good(k) /\ saved' = [saved EXCEPT ![t] = k]
  BY GoodConsoles DEF GoodInv, TypeOK, disp, save_terminal_state
<1>3. cursor' \in Nat
  BY GoodConsoles, PositionNat DEF Show, Good
<1>4. /\ env' = env /\ curr_terminal_number' \in Terms /\ curr_term' \in Terms
      /\ active' \in [Terms -> BOOLEAN]
  BY DEF GoodInv, TypeOK
<1> QED
  BY <1>1, <1>2, <1>3, <1>4, LinesKept, GoodStep

\* The same for a terminal that has none.
LEMMA SwitchFreshStep ==
  ASSUME GoodInv, NEW newt \in Terms, SwitchFresh(newt)
  PROVE  GoodInv'
<1> USE DEF SwitchFresh
<1>1. Good(screen')
  BY BlankOK DEF Good
<1>2. \E t \in Terms, k \in Consoles : Good(k) /\ saved' = [saved EXCEPT ![t] = k]
  BY GoodConsoles DEF GoodInv, TypeOK, disp, save_terminal_state
<1>3. /\ env' = env /\ cursor' \in Nat
      /\ curr_terminal_number' \in Terms /\ curr_term' \in Terms
      /\ active' \in [Terms -> BOOLEAN]
  BY DEF GoodInv, TypeOK
<1> QED
  BY <1>1, <1>2, <1>3, LinesKept, GoodStep

\* switch_task, keyboard_read and the start of terminal_write leave every console alone.
LEMMA ProgramStep ==
  ASSUME GoodInv, (\E t \in Terms : Tick(t)) \/ Take \/ (\E s \in Outputs : Write(s))
  PROVE  GoodInv'
<1>1. env' = env /\ screen' = screen /\ saved' = saved /\ cursor' = cursor
  BY DEF Tick, Take, Write
<1>2. /\ curr_terminal_number' \in Terms /\ curr_term' \in Terms
      /\ active' \in [Terms -> BOOLEAN]
  BY DEF GoodInv, TypeOK, Tick, Take, Write, termVars
<1>3. entered' \in [Terms -> BOOLEAN] /\ file' = file
  BY DEF GoodInv, TypeOK, Tick, Take, Write, lineVars
<1>h. hidden' \in [Terms -> Nat]
  <2>1. hidden' = hidden \/ hidden' = [hidden EXCEPT ![disp] = 0]
    BY DEF Tick, Take, Write, lineVars
  <2>2. hidden \in [Terms -> Nat] /\ 0 \in Nat
    BY DEF GoodInv, TypeOK
  <2> QED
    BY <2>1, <2>2
<1>4. line' \in [Terms -> Seq(Chars \cup {SP})]
  <2>1. <<>> \in Seq(Chars \cup {SP}) /\ disp \in Terms
        /\ line \in [Terms -> Seq(Chars \cup {SP})]
    BY DEF GoodInv, TypeOK, disp
  <2> QED
    BY <2>1 DEF Tick, Take, Write, lineVars
<1>5. out' \in Seq(Chars \cup {NL, SP})
  <2>1. Outputs \subseteq Seq(Chars \cup {NL, SP}) /\ out \in Seq(Chars \cup {NL, SP})
    BY ConstantsAssumption DEF GoodInv, TypeOK
  <2> QED
    BY <2>1 DEF Tick, Take, Write
<1>6. Good(screen') /\ cursor' \in Nat
  BY <1>1, GoodConsoles DEF GoodInv, TypeOK
<1>7. LinesOK'
  BY <1>3, <1>h, <1>4, <1>5 DEF GoodInv, TypeOK, LinesOK
<1> QED
  BY <1>1, <1>2, <1>6, <1>7, GoodStep

\* A character of terminal_write goes to the screen or to a saved console.
LEMMA EmitStep ==
  ASSUME GoodInv, NEW c \in Cells \cup {NL}, Emit(c), UNCHANGED <<env, termVars>>, LinesOK'
  PROVE  GoodInv'
<1>4. curr_term \in Terms
  BY DEF GoodInv, TypeOK
<1>5. CASE OnScreen
  <2>1. Good(putc(screen, c))
    BY PutcOK, GoodConsoles DEF Good
  <2>2. Show(putc(screen, c)) /\ UNCHANGED <<env, saved, termVars>>
    BY <1>5 DEF Emit
  <2> QED
    BY <2>1, <2>2, ShowStep
<1>6. CASE ~OnScreen
  <2> DEFINE k == putc(saved[curr_term], c)
  <2>1. Good(k) /\ k \in Consoles
    BY <1>4, PutcOK, GoodConsoles DEF Good
  <2>2. saved' = [saved EXCEPT ![curr_term] = k]
    BY <1>6 DEF Emit
  <2> HIDE DEF k
  <2>3. \E t \in Terms, j \in Consoles : Good(j) /\ saved' = [saved EXCEPT ![t] = j]
    BY <2>1, <2>2, <1>4
  <2>4. Good(screen') /\ cursor' \in Nat
    BY <1>6, GoodConsoles DEF GoodInv, TypeOK, Emit
  <2>5. /\ env' = env /\ curr_terminal_number' \in Terms /\ curr_term' \in Terms
        /\ active' \in [Terms -> BOOLEAN]
    BY DEF GoodInv, TypeOK, termVars
  <2> QED
    BY <2>3, <2>4, <2>5, GoodStep
<1> QED
  BY <1>5, <1>6

\* A character that a program writes.
LEMMA WriteCharStep ==
  ASSUME GoodInv, WriteChar
  PROVE  GoodInv'
<1>1. out \in Seq(Chars \cup {NL, SP}) /\ out # <<>>
  BY DEF GoodInv, TypeOK, WriteChar
<1>2. Head(out) \in Cells \cup {NL} /\ Tail(out) \in Seq(Chars \cup {NL, SP})
  BY <1>1 DEF Cells
<1>3. LinesOK'
  BY <1>2 DEF GoodInv, TypeOK, LinesOK, WriteChar, lineVars
<1>4. Emit(Head(out)) /\ UNCHANGED <<env, termVars>>
  BY DEF WriteChar
<1> QED
  BY <1>2, <1>3, <1>4, EmitStep

\* The first character that the handler of Ctrl-1, 2 or 3 has still to write.
LEMMA FileHead ==
  ASSUME GoodInv, file[curr_term] # <<>>
  PROVE  /\ Head(file[curr_term]) \in FileChars /\ Head(file[curr_term]).char \in Cells \cup {NL}
         /\ Tail(file[curr_term]) \in Seq(FileChars)
<1>1. file[curr_term] \in Seq(FileChars)
  BY DEF GoodInv, TypeOK
<1>2. Head(file[curr_term]) \in FileChars /\ Tail(file[curr_term]) \in Seq(FileChars)
  BY <1>1
<1> QED
  BY <1>2 DEF FileChars

\* A character of a file that Ctrl-1, 2 or 3 shows.
LEMMA FileCharStep ==
  ASSUME GoodInv, FileChar
  PROVE  GoodInv'
<1>1. PICK f : f = Head(file[curr_term]) OBVIOUS
<1>2. f.char \in Cells \cup {NL} /\ Tail(file[curr_term]) \in Seq(FileChars)
  BY <1>1, FileHead DEF FileChar
<1>3. LinesOK'
  <2>1. file' = [file EXCEPT ![curr_term] = Tail(file[curr_term])]
    BY DEF FileChar
  <2> QED
    BY <1>2, <2>1 DEF GoodInv, TypeOK, LinesOK, FileChar, lineVars
<1>4. UNCHANGED <<env, termVars>>
  BY DEF FileChar
<1>5. CASE ~f.direct /\ Emit(f.char)
  BY <1>2, <1>3, <1>4, <1>5, EmitStep
<1>6. CASE Show(putc(screen, f.char)) /\ UNCHANGED saved
  <2>1. Good(putc(screen, f.char))
    BY <1>2, PutcOK, GoodConsoles DEF Good
  <2> QED
    BY <2>1, <1>3, <1>4, <1>6, ShowStep
<1> QED
  BY <1>1, <1>5, <1>6 DEF FileChar

-----------------------------------------------------------------------------
\* GoodInv is an invariant: it holds at boot and every action preserves it.
LEMMA GoodInvariant == Spec => []GoodInv
<1>1. Init => GoodInv
  <2> SUFFICES ASSUME Init PROVE GoodInv
    OBVIOUS
  <2>1. screen \in Consoles /\ On(screen)
    BY BlankOK DEF Init
  <2>2. saved \in [Terms -> Consoles] /\ \A t \in Terms : On(saved[t])
    BY BlankOK DEF Init
  <2>3. cursor \in Nat
    BY ConstantsAssumption DEF Init, Positions
  <2>4. LinesOK
    BY DEF Init, LinesOK
  <2> QED
    BY <2>1, <2>2, <2>3, <2>4, ConstantsAssumption
    DEF Init, GoodInv, TypeOK, CursorOnScreen, LinesOK
<1>2. ASSUME GoodInv, [Next]_vars PROVE GoodInv'
  <2>1. ASSUME NEW c \in Chars, Key(c) PROVE GoodInv'
    BY <1>2, <2>1, TypeStep DEF Key
  <2>2. CASE BackspaceAtOrigin
    BY <1>2, <2>2, TypeStep DEF BackspaceAtOrigin
  <2>3. ASSUME NEW t \in Terms, SwitchActive(t) \/ SwitchFresh(t) PROVE GoodInv'
    BY <1>2, <2>3, SwitchActiveStep, SwitchFreshStep
  <2>4. CASE Handler
    BY <1>2, <2>1, <2>2, <2>3, <2>4, EnterStep, CtrlStep, BackspaceStep, EmptyRowStep,
       EmptyLineStep DEF Handler
  <2>5. CASE (\E t \in Terms : Tick(t)) \/ Take \/ (\E s \in Outputs : Write(s))
    BY <1>2, <2>5, ProgramStep
  <2>6. CASE WriteChar \/ FileChar
    BY <1>2, <2>6, WriteCharStep, FileCharStep
  <2>7. CASE UNCHANGED vars
    BY <1>2, <2>7 DEF GoodInv, TypeOK, CursorOnScreen, On, vars, termVars, lineVars
  <2> QED
    BY <1>2, <2>4, <2>5, <2>6, <2>7 DEF Next
<1> QED
  BY <1>1, <1>2, PTL DEF Spec

\* Every console is a console of its terminal for every size of the screen and whatever
\* is typed and written: in particular the row never passes the last one.
THEOREM ConsolesStayConsoles == Spec => []TypeOK
<1>1. GoodInv => TypeOK
  BY DEF GoodInv
<1> QED
  BY <1>1, GoodInvariant, PTL

\* Unless Backspace is pressed in the first column, the next character of every terminal
\* goes into a cell of its screen.
THEOREM CursorStaysOnScreen == Spec => []CursorOnScreen
<1>1. GoodInv => CursorOnScreen
  BY DEF GoodInv
<1> QED
  BY <1>1, GoodInvariant, PTL

-----------------------------------------------------------------------------
(* The step of OwnScreenOnly.                                               *)
Own ==
  \A t \in Terms : active[t] /\ Image(t)' # Image(t) =>
     /\ disp' = disp
     /\ IF out # <<>> THEN t = curr_term
        ELSE IF file[curr_term] # <<>>
             THEN t = IF Head(file[curr_term]).direct THEN disp ELSE curr_term
        ELSE t = disp \/ (t = curr_term /\ Image(t)' = Blank)

\* A key that changes only the screen and the line changes the displayed terminal.
LEMMA OwnKey ==
  ASSUME GoodInv, Idle, saved' = saved, disp' = disp
  PROVE  Own
<1>1. ASSUME NEW t \in Terms, t # disp PROVE Image(t)' = Image(t)
  BY <1>1 DEF Image
<1>2. out = <<>> /\ file[curr_term] = <<>> BY DEF Idle, GoodInv, TypeOK
<1> QED BY <1>1, <1>2 DEF Own

\* Exchanging screen and saved consoles changes what no active terminal shows.
LEMMA OwnSwitch ==
  ASSUME GoodInv, NEW newt \in Terms, SwitchActive(newt) \/ SwitchFresh(newt)
  PROVE  Own
<1>1. /\ newt # disp /\ disp' = newt /\ saved' = [saved EXCEPT ![disp] = screen]
      /\ active[newt] => screen' = saved[newt]
  BY DEF SwitchActive, SwitchFresh, save_terminal_state, Show, disp
<1>2. DOMAIN saved = Terms /\ disp \in Terms BY DEF GoodInv, TypeOK, disp
<1>3. ASSUME NEW t \in Terms, active[t] PROVE Image(t)' = Image(t)
  <2>1. CASE t = newt BY <2>1, <1>1, <1>3 DEF Image
  <2>2. CASE t = disp BY <2>2, <1>1, <1>2 DEF Image
  <2>3. CASE t # newt /\ t # disp BY <2>3, <1>1, <1>2 DEF Image
  <2> QED BY <2>1, <2>2, <2>3
<1> QED BY <1>3 DEF Own

\* clear empties the displayed terminal or the one that executes.
LEMMA OwnClear ==
  ASSUME GoodInv, CtrlL \/ CtrlClear \/ CtrlFile
  PROVE  Own
<1>1. Idle /\ disp' = disp /\ clear
  BY DEF CtrlL, CtrlClear, CtrlFile, MayType, termVars, disp
<1>2. CASE curr_term = disp
  <2>1. saved' = saved BY <1>1, <1>2 DEF clear
  <2> QED BY <1>1, <2>1, OwnKey
<1>3. CASE curr_term # disp
  <2>1. saved' = [saved EXCEPT ![curr_term] = Blank] /\ screen' = screen
    BY <1>1, <1>3 DEF clear
  <2>2. DOMAIN saved = Terms /\ curr_term \in Terms BY DEF GoodInv, TypeOK
  <2>3. ASSUME NEW t \in Terms, t = curr_term PROVE Image(t)' = Blank
    BY <1>1, <1>3, <2>1, <2>2, <2>3 DEF Image
  <2>4. ASSUME NEW t \in Terms, t # curr_term PROVE Image(t)' = Image(t)
    BY <1>1, <2>1, <2>2, <2>4 DEF Image
  <2>5. out = <<>> /\ file[curr_term] = <<>> BY <1>1, <2>2 DEF Idle
  <2> QED BY <1>1, <2>3, <2>4, <2>5 DEF Own
<1> QED BY <1>2, <1>3

\* A character of terminal_write goes to the terminal that executes.
LEMMA OwnEmit ==
  ASSUME GoodInv, NEW c, Emit(c), disp' = disp, NEW t \in Terms, t # curr_term
  PROVE  Image(t)' = Image(t)
<1>1. DOMAIN saved = Terms /\ curr_term \in Terms BY DEF GoodInv, TypeOK
<1>2. CASE OnScreen
  <2>1. saved' = saved BY <1>2 DEF Emit
  <2> QED BY <1>2, <2>1 DEF Image, OnScreen
<1>3. CASE ~OnScreen
  <2>1. screen' = screen /\ \A s \in Terms \ {curr_term} : saved'[s] = saved[s]
    BY <1>1, <1>3 DEF Emit
  <2> QED BY <2>1 DEF Image
<1> QED BY <1>2, <1>3

\* A character goes to the terminal of the program that writes it.
LEMMA OwnWrite ==
  ASSUME GoodInv, WriteChar
  PROVE  Own
<1>1. out # <<>> /\ disp' = disp /\ Emit(Head(out)) BY DEF WriteChar, termVars, disp
<1>2. ASSUME NEW t \in Terms, t # curr_term PROVE Image(t)' = Image(t)
  BY <1>1, <1>2, OwnEmit
<1> QED BY <1>1, <1>2 DEF Own

\* A character of a file goes to the displayed terminal or to the one that executes.
LEMMA OwnFile ==
  ASSUME GoodInv, FileChar
  PROVE  Own
<1>1. PICK f : f = Head(file[curr_term]) OBVIOUS
<1>2. out = <<>> /\ file[curr_term] # <<>> /\ disp' = disp BY DEF FileChar, termVars, disp
<1>3. CASE f.direct /\ UNCHANGED saved
  <2>1. ASSUME NEW t \in Terms, t # disp PROVE Image(t)' = Image(t)
    BY <1>2, <1>3, <2>1 DEF Image
  <2> QED BY <1>1, <1>2, <1>3, <2>1 DEF Own
<1>4. CASE ~f.direct /\ Emit(f.char)
  <2>1. ASSUME NEW t \in Terms, t # curr_term PROVE Image(t)' = Image(t)
    BY <1>2, <1>4, <2>1, OwnEmit
  <2> QED BY <1>1, <1>2, <1>4, <2>1 DEF Own
<1> QED BY <1>1, <1>3, <1>4 DEF FileChar

\* Every step that does not change a console.
LEMMA OwnNothing ==
  ASSUME screen' = screen, saved' = saved, disp' = disp
  PROVE  Own
<1>1. ASSUME NEW t \in Terms PROVE Image(t)' = Image(t) BY DEF Image
<1> QED BY <1>1 DEF Own

\* For any number of terminals, whoever types and writes: output changes the terminal of
\* the program that wrote it, a key the displayed one, and exchanging the screens of two
\* terminals in switch_terminal none.  Keys that call clear may also empty the terminal that
\* executes, and Ctrl-1, 2 and 3 write to that one and to the displayed one.
THEOREM ScreensAreSeparate == Spec => OwnScreenOnly
<1>1. ASSUME GoodInv, Next PROVE Own
  <2> USE DEF disp, termVars, lineVars
  <2>1. ASSUME NEW c \in Chars \cup {SP}, MayType, Type(c) PROVE Own
    BY <1>1, <2>1, OwnKey DEF MayType, Type
  <2>2. CASE Enter \/ Backspace \/ BackspaceEmptyRow \/ BackspaceEmptyLine
    BY <1>1, <2>2, OwnKey DEF MayType, Enter, Backspace, BackspaceEmptyRow, BackspaceEmptyLine
  <2>3. CASE Handler
    BY <1>1, <2>1, <2>2, <2>3, OwnSwitch, OwnClear DEF Handler, Key, BackspaceAtOrigin
  <2>4. CASE (\E t \in Terms : Tick(t)) \/ Take \/ (\E s \in Outputs : Write(s))
    BY <2>4, OwnNothing DEF Tick, Take, Write
  <2> QED BY <1>1, <2>3, <2>4, OwnWrite, OwnFile DEF Next
<1>2. GoodInv /\ [Next]_vars => [Own]_vars BY <1>1
<1>3. OwnScreenOnly <=> [][Own]_vars BY DEF OwnScreenOnly, Own
<1> QED BY <1>2, <1>3, GoodInvariant, PTL DEF Spec

-----------------------------------------------------------------------------
(* EchoShown.                                                               *)

\* The constants of the screen, and the number of its cells.
LEMMA ScreenSize ==
  /\ NUM_ROWS \in Nat /\ NUM_ROWS >= 1 /\ NUM_COLS \in Nat /\ NUM_COLS >= 2
  /\ NUM_ROWS * NUM_COLS \in Nat
  /\ NUM_COLS * (NUM_ROWS - 1) = NUM_ROWS * NUM_COLS - NUM_COLS
  /\ NUM_COLS * (NUM_ROWS - 1) \in Nat
<1>1. NUM_ROWS \in Nat /\ NUM_ROWS >= 1 /\ NUM_COLS \in Nat /\ NUM_COLS >= 2
  BY ConstantsAssumption
<1>2. NUM_ROWS * NUM_COLS \in Nat /\ NUM_COLS * (NUM_ROWS - 1) \in Nat BY <1>1
<1>3. NUM_COLS * (NUM_ROWS - 1) = NUM_ROWS * NUM_COLS - NUM_COLS BY <1>1
<1> QED BY <1>1, <1>2, <1>3

\* A row and a column of the screen are a cell of it.
LEMMA CellOnScreen ==
  ASSUME NEW y \in 0 .. NUM_ROWS - 1, NEW x \in 0 .. NUM_COLS - 1
  PROVE  /\ NUM_COLS * y \in Nat /\ NUM_COLS * y + x \in Positions
         /\ NUM_COLS * (y + 1) = NUM_COLS * y + NUM_COLS
<1>1. NUM_COLS * y \in Nat /\ NUM_COLS * (y + 1) = NUM_COLS * y + NUM_COLS
  BY ScreenSize
<1>2. NUM_COLS * y <= NUM_COLS * (NUM_ROWS - 1)
  <2>1. PICK d \in Nat : NUM_ROWS - 1 = y + d
    <3>1. NUM_ROWS - 1 - y \in Nat /\ NUM_ROWS - 1 = y + (NUM_ROWS - 1 - y) BY ScreenSize
    <3> QED BY <3>1
  <2>2. NUM_COLS * (y + d) = NUM_COLS * y + NUM_COLS * d /\ NUM_COLS * d \in Nat
    BY ScreenSize
  <2> QED BY <2>1, <2>2, <1>1
<1>3. NUM_COLS * y + x \in 0 .. NUM_ROWS * NUM_COLS - 1
  BY <1>1, <1>2, ScreenSize
<1> QED BY <1>1, <1>3 DEF Positions

\* The parts of a console.
LEMMA ConsoleFacts ==
  ASSUME NEW k \in Consoles, On(k)
  PROVE  /\ k.x \in 0 .. NUM_COLS - 1 /\ k.y \in 0 .. NUM_ROWS - 1
         /\ Position(k) \in Positions /\ Position(k) = NUM_COLS * k.y + k.x
         /\ k.cells \in [Positions -> Cells]
         /\ Position(k) \in Nat /\ NUM_COLS * k.y \in Nat
<1>1. k.x \in 0 .. NUM_COLS - 1 /\ k.y \in 0 .. NUM_ROWS - 1 /\ k.cells \in [Positions -> Cells]
  BY ScreenSize DEF Consoles, On
<1>2. NUM_COLS * k.y + k.x \in Positions /\ NUM_COLS * k.y \in Nat BY <1>1, CellOnScreen
<1> QED BY <1>1, <1>2 DEF Position, Positions

(* One character that is not in the corner.                                 *)
Put(k, q, c) ==
  /\ Position(q) = Position(k) + 1
  /\ \A p \in Positions : q.cells[p] = IF p = Position(k) THEN c ELSE k.cells[p]
  /\ \/ q.y = k.y /\ q.x = k.x + 1 /\ q.x < NUM_COLS
     \/ q.y = k.y + 1 /\ q.x = 0 /\ k.x = NUM_COLS - 1

\* putc writes the cell at the position and goes on to the next one.
LEMMA PutcPuts ==
  ASSUME NEW k \in Consoles, On(k), ~Corner(k), NEW c \in Cells
  PROVE  Put(k, putc(k, c), c)
<1>0. c # NL BY ConstantsAssumption DEF Cells, NL, NUL, SP
<1>k. /\ k.x \in 0 .. NUM_COLS - 1 /\ k.y \in 0 .. NUM_ROWS - 1
      /\ Position(k) = NUM_COLS * k.y + k.x
      /\ NUM_COLS * k.y \in Nat
  BY ConsoleFacts
<1>1. PICK w : w = Written(k, c) OBVIOUS
<1>2. w \in Consoles /\ w.x = k.x /\ w.y = k.y BY <1>1, WrittenOK
<1>3. w.cells = [p \in Positions |-> IF p = Position(k) THEN c ELSE k.cells[p]]
  BY <1>1 DEF Written, Consoles
<1>4. putc(k, c) = Advance(w) BY <1>0, <1>1 DEF putc
<1>5. PICK col : col = (w.x + 1) % NUM_COLS OBVIOUS
<1>6. PICK q : q = Advance(w) OBVIOUS
<1>7. q.cells = w.cells /\ q.x = col /\ q.y = IF col = 0 THEN w.y + 1 ELSE w.y
  BY <1>5, <1>6, <1>2 DEF Advance, Consoles
<1>8. col = IF k.x < NUM_COLS - 1 THEN k.x + 1 ELSE 0
  <2>1. k.x \in 0 .. NUM_COLS BY <1>k, ScreenSize
  <2>2. col = IF k.x < NUM_COLS - 1 THEN k.x + 1 ELSE IF k.x = NUM_COLS - 1 THEN 0 ELSE 1
    BY <1>2, <1>5, <2>1, NextColumn
  <2> QED BY <1>k, <2>2, ScreenSize
<1>9. \/ q.y = k.y /\ q.x = k.x + 1 /\ q.x < NUM_COLS
      \/ q.y = k.y + 1 /\ q.x = 0 /\ k.x = NUM_COLS - 1
  BY <1>2, <1>7, <1>8, <1>k, ScreenSize
<1>10. Position(q) = Position(k) + 1
  <2>1. NUM_COLS * (k.y + 1) = NUM_COLS * k.y + NUM_COLS BY <1>k, CellOnScreen
  <2> QED BY <1>9, <1>k, <2>1, ScreenSize DEF Position
<1> QED BY <1>3, <1>4, <1>6, <1>7, <1>9, <1>10 DEF Put

\* vert_scroll: every cell moves up by a row, and the last row is empty.
LEMMA ScrollMoves ==
  ASSUME NEW k \in Consoles
  PROVE  /\ vert_scroll(k).x = 0 /\ vert_scroll(k).y = NUM_ROWS - 1
         /\ Position(vert_scroll(k)) = NUM_ROWS * NUM_COLS - NUM_COLS
         /\ \A p \in Positions : vert_scroll(k).cells[p] =
              IF p < NUM_ROWS * NUM_COLS - NUM_COLS THEN k.cells[p + NUM_COLS] ELSE NUL
<1>1. vert_scroll(k).x = 0 /\ vert_scroll(k).y = NUM_ROWS - 1 BY DEF vert_scroll
<1>2. Position(vert_scroll(k)) = NUM_ROWS * NUM_COLS - NUM_COLS
  BY <1>1, ScreenSize DEF Position
<1>3. ASSUME NEW p \in Positions
      PROVE  p + NUM_COLS \in Positions <=> p < NUM_ROWS * NUM_COLS - NUM_COLS
  BY ScreenSize DEF Positions
<1> QED BY <1>1, <1>2, <1>3 DEF vert_scroll

-----------------------------------------------------------------------------
(* There is nothing on a console from its position on.                      *)
Clean(k) == \A p \in Positions : p >= Position(k) => k.cells[p] = NUL

\* An empty screen is clean.
LEMMA BlankClean == Clean(Blank) /\ Position(Blank) = 0
<1>1. NUM_COLS * 0 = 0 BY ScreenSize
<1> QED BY <1>1 DEF Clean, Blank, Position

\* A scrolled screen is clean.
LEMMA ScrollClean ==
  ASSUME NEW k \in Consoles
  PROVE  Clean(vert_scroll(k))
BY ScrollMoves, ScreenSize DEF Clean, Positions

\* A new line leaves a clean screen clean.
LEMMA NewLineClean ==
  ASSUME NEW k \in Consoles, On(k), Clean(k)
  PROVE  Clean(NewLine(k))
<1>1. CASE k.y = NUM_ROWS - 1 BY <1>1, ScrollClean DEF NewLine
<1>2. CASE k.y # NUM_ROWS - 1
  <2>k. /\ k.x \in 0 .. NUM_COLS - 1 /\ k.y \in 0 .. NUM_ROWS - 1
        /\ Position(k) = NUM_COLS * k.y + k.x /\ NUM_COLS * k.y \in Nat
    BY ConsoleFacts
  <2>1. PICK q : q = NewLine(k) OBVIOUS
  <2>2. q.cells = k.cells /\ q.x = 0 /\ q.y = k.y + 1 BY <1>2, <2>1 DEF NewLine, Consoles
  <2>3. NUM_COLS * (k.y + 1) = NUM_COLS * k.y + NUM_COLS BY <2>k, CellOnScreen
  <2>4. Position(q) >= Position(k) BY <2>2, <2>3, <2>k, ScreenSize DEF Position
  <2>5. Position(q) \in Nat BY <2>2, <2>3, <2>k, ScreenSize DEF Position
  <2> QED BY <2>1, <2>2, <2>4, <2>5, <2>k DEF Clean, Positions
<1> QED BY <1>1, <1>2

\* putc leaves a clean screen clean.
LEMMA PutcClean ==
  ASSUME NEW k \in Consoles, On(k), Clean(k), NEW c \in Cells \cup {NL}
  PROVE  Clean(putc(k, c))
<1>1. CASE c = NL BY <1>1, NewLineClean DEF putc
<1>2. CASE c # NL /\ Corner(k)
  <2>1. c \in Cells BY <1>2
  <2> QED BY <1>2, <2>1, WrittenOK, ScrollClean DEF putc
<1>3. CASE c # NL /\ ~Corner(k)
  <2>1. c \in Cells BY <1>3
  <2>2. PICK q : q = putc(k, c) OBVIOUS
  <2>3. Put(k, q, c) BY <1>3, <2>1, <2>2, PutcPuts
  <2>4. Position(k) \in Nat BY ConsoleFacts
  <2>5. ASSUME NEW p \in Positions, p >= Position(q) PROVE q.cells[p] = NUL
    <3>1. p # Position(k) /\ p >= Position(k) BY <2>3, <2>4, <2>5 DEF Put, Positions
    <3> QED BY <3>1, <2>3 DEF Put, Clean
  <2> QED BY <2>2, <2>5 DEF Clean
<1> QED BY <1>1, <1>2, <1>3

-----------------------------------------------------------------------------
(* Where the line stands, as far as keys need to know it.  In the row of    *)
(* the position there is no empty cell behind the start of the line, so     *)
(* that Backspace finds its last character there; and the row r or one      *)
(* below it holds that start, the rows since then NUM_COLS - 1 characters   *)
(* each, so that the line never scrolls off the screen.                     *)
RowTyped(k, from) ==
  \A p \in Positions : NUM_COLS * k.y <= p /\ from <= p /\ p < Position(k) => k.cells[p] # NUL

RowsUsed(k, n, from, r, m) ==
  /\ r \in 0 .. NUM_ROWS - 1 /\ m \in 0 .. NUM_COLS - 2
  /\ NUM_COLS * r <= from
  /\ n >= (k.y - r) * (NUM_COLS - 1) + k.x - m

PlacedAt(k, s, at) ==
  /\ at \in [1 .. Len(s) -> Positions]
  /\ StandsAt(k, s, at)
  /\ s # <<>> => RowTyped(k, at[1]) /\ \E r, m : RowsUsed(k, Len(s), at[1], r, m)

Placed(k, s) == \E at : PlacedAt(k, s, at)

Line == Seq(Chars \cup {SP})

\* The empty line stands everywhere.
LEMMA PlacedEmpty == \A k : Placed(k, <<>>)
<1> TAKE k
<1>1. PICK at : at = [i \in 1 .. 0 |-> 0] OBVIOUS
<1>2. Len(<<>>) = 0 OBVIOUS
<1>3. at \in [1 .. Len(<<>>) -> Positions] BY <1>1, <1>2
<1>4. StandsAt(k, <<>>, at) BY <1>2 DEF StandsAt
<1> QED BY <1>3, <1>4 DEF Placed, PlacedAt

\* Multiplication of the height of a line by the characters of a row.
LEMMA RowsTimes ==
  ASSUME NEW y \in Int, NEW r \in Int
  PROVE  /\ (y - r) * (NUM_COLS - 1) \in Int
         /\ (y + 1 - r) * (NUM_COLS - 1) = (y - r) * (NUM_COLS - 1) + (NUM_COLS - 1)
         /\ (y - (r - 1)) * (NUM_COLS - 1) = (y - r) * (NUM_COLS - 1) + (NUM_COLS - 1)
         /\ (y - y) * (NUM_COLS - 1) = 0
<1>1. PICK w \in Int : w = NUM_COLS - 1 BY ScreenSize
<1>2. PICK d \in Int : d = y - r OBVIOUS
<1>3. d * w \in Int /\ (d + 1) * w = d * w + w /\ 0 * w = 0 OBVIOUS
<1>4. y + 1 - r = d + 1 /\ y - (r - 1) = d + 1 /\ y - y = 0 BY <1>2
<1> QED BY <1>1, <1>2, <1>3, <1>4

\* A character that is typed stands behind the line.
LEMMA PlacedPut ==
  ASSUME NEW k \in Consoles, On(k), NEW q, NEW c \in Chars \cup {SP}, Put(k, q, c),
         NEW s \in Line, Placed(k, s)
  PROVE  Placed(q, Append(s, c))
<1>k. /\ k.x \in 0 .. NUM_COLS - 1 /\ k.y \in 0 .. NUM_ROWS - 1
      /\ Position(k) \in Positions /\ Position(k) = NUM_COLS * k.y + k.x
      /\ Position(k) \in Nat /\ NUM_COLS * k.y \in Nat
  BY ConsoleFacts
<1>q. /\ Position(q) = Position(k) + 1
      /\ \A p \in Positions : q.cells[p] = IF p = Position(k) THEN c ELSE k.cells[p]
      /\ \/ q.y = k.y /\ q.x = k.x + 1 /\ q.x < NUM_COLS
         \/ q.y = k.y + 1 /\ q.x = 0 /\ k.x = NUM_COLS - 1
  BY DEF Put
<1>c. c # NUL BY ConstantsAssumption DEF NUL, SP
<1>1. PICK at : PlacedAt(k, s, at) BY DEF Placed
<1>2. PICK n \in Nat : n = Len(s) BY DEF Line
<1>3. PICK u : u = Append(s, c) OBVIOUS
<1>4. Len(u) = n + 1 /\ u # <<>> /\ u[n + 1] = c /\ \A i \in 1 .. n : u[i] = s[i]
  <2>1. s \in Seq(Chars \cup {SP}) BY DEF Line
  <2> QED BY <1>2, <1>3, <2>1
<1>5. PICK bt : bt = [i \in 1 .. n + 1 |-> IF i = n + 1 THEN Position(k) ELSE at[i]] OBVIOUS
<1>6. /\ bt[n + 1] = Position(k)
      /\ \A i \in 1 .. n : /\ bt[i] = at[i] /\ at[i] \in Positions /\ at[i] < Position(k)
                           /\ k.cells[at[i]] = s[i]
      /\ \A i, j \in 1 .. n : i < j => at[i] < at[j]
      /\ bt \in [1 .. n + 1 -> Positions]
  <2>1. at \in [1 .. n -> Positions] /\ StandsAt(k, s, at) BY <1>1, <1>2 DEF PlacedAt
  <2>2. \A i \in 1 .. n + 1 : i # n + 1 => i \in 1 .. n OBVIOUS
  <2>3. \A i \in 1 .. n : i \in 1 .. n + 1 /\ i # n + 1 OBVIOUS
  <2>4. n + 1 \in 1 .. n + 1 OBVIOUS
  <2>5. \A i \in 1 .. n : bt[i] = at[i] BY <1>5, <2>3
  <2>6. bt[n + 1] = Position(k) BY <1>5, <2>4
  <2>7. bt \in [1 .. n + 1 -> Positions] BY <1>5, <1>k, <2>1, <2>2
  <2> QED BY <1>2, <2>1, <2>5, <2>6, <2>7 DEF StandsAt
<1>p. \A p \in Positions : p \in Int BY DEF Positions
<1>7. ASSUME NEW p \in bt[1] .. Position(q) - 1, p # Position(k)
      PROVE  n > 0 /\ at[1] <= p /\ p < Position(k) /\ p \in at[1] .. Position(k) - 1
  <2>1. bt[1] \in Int /\ bt[1] <= p /\ p <= Position(k) BY <1>6, <1>p, <1>q, <1>k, <1>7
  <2>2. n # 0 BY <2>1, <1>6, <1>7, <1>k
  <2>3. bt[1] = at[1] BY <2>2, <1>6
  <2> QED BY <2>1, <2>2, <2>3, <1>k, <1>7
<1>8. StandsAt(q, u, bt)
  <2>1. ASSUME NEW i \in 1 .. n + 1 PROVE bt[i] < Position(q) /\ q.cells[bt[i]] = u[i]
    <3>1. CASE i = n + 1 BY <3>1, <1>4, <1>6, <1>q, <1>k
    <3>2. CASE i # n + 1
      <4>1. i \in 1 .. n BY <3>2
      <4>2. at[i] \in Int /\ at[i] < Position(k) BY <4>1, <1>6, <1>p
      <4> QED BY <4>1, <4>2, <1>4, <1>6, <1>q, <1>k
    <3> QED BY <3>1, <3>2
  <2>2. ASSUME NEW i \in 1 .. n + 1, NEW j \in 1 .. n + 1, i < j PROVE bt[i] < bt[j]
    <3>1. i \in 1 .. n BY <2>2
    <3>2. CASE j = n + 1
      <4>1. bt[j] = Position(k) BY <3>2, <1>6
      <4>2. bt[i] < Position(k) BY <3>1, <1>6
      <4> QED BY <4>1, <4>2
    <3>3. CASE j # n + 1
      <4>1. j \in 1 .. n BY <3>3
      <4> QED BY <2>2, <3>1, <4>1, <1>6
    <3> QED BY <3>2, <3>3
  <2>3. ASSUME NEW p \in bt[1] .. Position(q) - 1, q.cells[p] # NUL
        PROVE  \E i \in 1 .. n + 1 : bt[i] = p
    <3>1. CASE p = Position(k)
      <4>1. n + 1 \in 1 .. n + 1 OBVIOUS
      <4> QED BY <3>1, <4>1, <1>6
    <3>2. CASE p # Position(k)
      <4>1. n > 0 /\ at[1] <= p /\ p < Position(k) /\ p \in at[1] .. Position(k) - 1
        BY <3>2, <1>7
      <4>2. at[1] \in Positions BY <4>1, <1>6
      <4>3. p \in Positions BY <4>1, <4>2, <1>k, ScreenSize DEF Positions
      <4>4. k.cells[p] # NUL BY <3>2, <4>3, <2>3, <1>q
      <4>5. s # <<>> BY <4>1, <1>2
      <4>6. PICK i \in 1 .. n : at[i] = p BY <4>1, <4>4, <4>5, <1>1, <1>2 DEF PlacedAt, StandsAt
      <4>7. i \in 1 .. n + 1 OBVIOUS
      <4> QED BY <4>6, <4>7, <1>6
    <3> QED BY <3>1, <3>2
  <2> QED BY <1>4, <2>1, <2>2, <2>3 DEF StandsAt
<1>9. RowTyped(q, bt[1])
  <2> SUFFICES ASSUME NEW p \in Positions, NUM_COLS * q.y <= p, bt[1] <= p, p < Position(q)
               PROVE  q.cells[p] # NUL
    BY DEF RowTyped
  <2>1. CASE p = Position(k) BY <2>1, <1>q, <1>c
  <2>2. CASE p # Position(k)
    <3>0. bt[1] \in Int BY <1>6, <1>p
    <3>1. p \in bt[1] .. Position(q) - 1 BY <3>0, <1>p, <1>q, <1>k
    <3>2. n > 0 /\ at[1] <= p /\ p < Position(k) BY <2>2, <3>1, <1>7
    <3>3. NUM_COLS * (k.y + 1) = NUM_COLS * k.y + NUM_COLS BY <1>k, CellOnScreen
    <3>4. q.y = k.y BY <3>2, <3>3, <1>q, <1>k, <1>p, ScreenSize
    <3>5. s # <<>> BY <3>2, <1>2
    <3>6. RowTyped(k, at[1]) BY <3>5, <1>1 DEF PlacedAt
    <3> QED BY <2>2, <3>2, <3>4, <3>6, <1>q DEF RowTyped
  <2> QED BY <2>1, <2>2
<1>10. \E r, m : RowsUsed(q, n + 1, bt[1], r, m)
  <2>1. CASE n = 0
    <3>1. PICK m : m = IF k.x <= NUM_COLS - 2 THEN k.x ELSE NUM_COLS - 2 OBVIOUS
    <3>2. m \in 0 .. NUM_COLS - 2 BY <3>1, <1>k, ScreenSize
    <3>3. NUM_COLS * k.y <= bt[1] BY <2>1, <1>6, <1>k
    <3>4. k.y \in Int BY <1>k
    <3>5. /\ (k.y - k.y) * (NUM_COLS - 1) = 0
          /\ (k.y + 1 - k.y) * (NUM_COLS - 1) = (k.y - k.y) * (NUM_COLS - 1) + (NUM_COLS - 1)
      BY <3>4, RowsTimes
    <3>6. n + 1 >= (q.y - k.y) * (NUM_COLS - 1) + q.x - m
      <4>1. CASE q.y = k.y /\ q.x = k.x + 1 /\ q.x < NUM_COLS
        <5>1. (q.y - k.y) * (NUM_COLS - 1) = 0 BY <4>1, <3>5
        <5>2. k.x <= NUM_COLS - 2 /\ m = k.x BY <4>1, <1>k, <3>1, ScreenSize
        <5> QED BY <2>1, <4>1, <5>1, <5>2, <1>k
      <4>2. CASE q.y = k.y + 1 /\ q.x = 0 /\ k.x = NUM_COLS - 1
        <5>1. (q.y - k.y) * (NUM_COLS - 1) = NUM_COLS - 1 BY <4>2, <3>4, <3>5, ScreenSize
        <5> QED BY <2>1, <4>2, <5>1, <3>1, <1>k, ScreenSize
      <4> QED BY <4>1, <4>2, <1>q
    <3> QED BY <3>2, <3>3, <3>6, <1>k DEF RowsUsed
  <2>2. CASE n # 0
    <3>1. s # <<>> /\ bt[1] = at[1] BY <2>2, <1>2, <1>6
    <3>2. PICK r, m : RowsUsed(k, n, at[1], r, m) BY <3>1, <1>1, <1>2 DEF PlacedAt
    <3>3. r \in Int /\ m \in Int /\ k.y \in Int BY <3>2, <1>k, ScreenSize DEF RowsUsed
    <3>4. /\ (k.y - r) * (NUM_COLS - 1) \in Int
          /\ (k.y + 1 - r) * (NUM_COLS - 1) = (k.y - r) * (NUM_COLS - 1) + (NUM_COLS - 1)
      BY <3>3, RowsTimes
    <3>5. n >= (k.y - r) * (NUM_COLS - 1) + k.x - m BY <3>2 DEF RowsUsed
    <3>6. n + 1 >= (q.y - r) * (NUM_COLS - 1) + q.x - m
      <4>1. CASE q.y = k.y /\ q.x = k.x + 1 /\ q.x < NUM_COLS BY <4>1, <3>3, <3>4, <3>5, <1>k
      <4>2. CASE q.y = k.y + 1 /\ q.x = 0 /\ k.x = NUM_COLS - 1
        <5>1. (q.y - r) * (NUM_COLS - 1) = (k.y - r) * (NUM_COLS - 1) + (NUM_COLS - 1)
          BY <4>2, <3>3, <3>4, ScreenSize
        <5> QED BY <4>2, <5>1, <3>3, <3>4, <3>5, <1>k, ScreenSize
      <4> QED BY <4>1, <4>2, <1>q
    <3> QED BY <3>1, <3>2, <3>6 DEF RowsUsed
  <2> QED BY <2>1, <2>2
<1> QED BY <1>3, <1>4, <1>6, <1>8, <1>9, <1>10 DEF Placed, PlacedAt

\* A full screen that scrolls keeps the whole line: what is in its first row is older.
LEMMA PlacedScroll ==
  ASSUME NEW k \in Consoles, Corner(k), Clean(k), NEW s \in Line, Placed(k, s),
         Len(s) < MAX_BUF_SIZE
  PROVE  Placed(vert_scroll(k), s)
<1>1. CASE s = <<>> BY <1>1, PlacedEmpty
<1>2. CASE s # <<>>
  <2>k. /\ k.x = NUM_COLS - 1 /\ k.y = NUM_ROWS - 1
        /\ Position(k) = NUM_ROWS * NUM_COLS - 1 /\ Position(k) \in Positions
    <3>1. k.x = NUM_COLS - 1 /\ k.y = NUM_ROWS - 1 BY DEF Corner
    <3>2. Position(k) = NUM_ROWS * NUM_COLS - 1 BY <3>1, ScreenSize DEF Position
    <3>3. On(k) BY <3>1, ScreenSize DEF On
    <3> QED BY <3>1, <3>2, <3>3, ConsoleFacts
  <2>q. PICK q : q = vert_scroll(k) OBVIOUS
  <2>v. /\ q.x = 0 /\ q.y = NUM_ROWS - 1 /\ Position(q) = NUM_ROWS * NUM_COLS - NUM_COLS
        /\ \A p \in Positions : q.cells[p] =
             IF p < NUM_ROWS * NUM_COLS - NUM_COLS THEN k.cells[p + NUM_COLS] ELSE NUL
    BY <2>q, ScrollMoves
  <2>p. \A p \in Positions : p \in Int /\ p >= 0 /\ p < NUM_ROWS * NUM_COLS
    BY ScreenSize DEF Positions
  <2>1. PICK at : PlacedAt(k, s, at) BY DEF Placed
  <2>2. PICK n \in Nat : n = Len(s) BY DEF Line
  <2>3. n > 0 BY <1>2, <2>2 DEF Line
  <2>4. PICK r, m : RowsUsed(k, n, at[1], r, m) BY <1>2, <2>1, <2>2 DEF PlacedAt
  <2>5. /\ r \in Int /\ r >= 0 /\ r <= NUM_ROWS - 1 /\ m \in 0 .. NUM_COLS - 2
        /\ NUM_COLS * r <= at[1]
        /\ n >= (NUM_ROWS - 1 - r) * (NUM_COLS - 1) + (NUM_COLS - 1) - m
    BY <2>4, <2>k, ScreenSize DEF RowsUsed
  <2>6. r # 0
    <3>1. SUFFICES ASSUME r = 0 PROVE FALSE OBVIOUS
    <3>2. NUM_ROWS - 1 - r = NUM_ROWS - 1 BY <3>1, ScreenSize
    <3>3. n >= (NUM_ROWS - 1) * (NUM_COLS - 1) + (NUM_COLS - 1) - m BY <2>5, <3>2
    <3>4. PICK a \in Int : a = (NUM_ROWS - 1) * (NUM_COLS - 1)
      <4>1. NUM_ROWS - 1 \in Int /\ NUM_COLS - 1 \in Int BY ScreenSize
      <4>2. (NUM_ROWS - 1) * (NUM_COLS - 1) \in Int BY <4>1
      <4> QED BY <4>2
    <3>5. MAX_BUF_SIZE <= a + 1 /\ MAX_BUF_SIZE \in Nat
      BY <3>4, LineFits, ConstantsAssumption
    <3>6. n < MAX_BUF_SIZE BY <2>2
    <3> QED BY <3>3, <3>4, <3>5, <3>6, <2>5, ScreenSize
  <2>7. NUM_COLS * (r - 1) = NUM_COLS * r - NUM_COLS /\ NUM_COLS * r >= NUM_COLS
        /\ NUM_COLS * r \in Int
    <3>1. PICK d \in Nat : r = d + 1
      <4>1. r - 1 \in Nat /\ r = (r - 1) + 1 BY <2>5, <2>6
      <4> QED BY <4>1
    <3>2. NUM_COLS * (d + 1) = NUM_COLS * d + NUM_COLS /\ NUM_COLS * d \in Nat BY ScreenSize
    <3>3. r - 1 = d BY <3>1
    <3> QED BY <3>1, <3>2, <3>3, ScreenSize
  <2>8. /\ at \in [1 .. n -> Positions]
        /\ \A i \in 1 .. n : at[i] < Position(k) /\ k.cells[at[i]] = s[i]
        /\ \A i, j \in 1 .. n : i < j => at[i] < at[j]
        /\ \A p \in at[1] .. Position(k) - 1 : k.cells[p] # NUL => \E i \in 1 .. n : at[i] = p
    BY <1>2, <2>1, <2>2 DEF PlacedAt, StandsAt
  <2>9. ASSUME NEW i \in 1 .. n PROVE at[i] \in Positions /\ at[i] \in Int /\ at[i] >= NUM_COLS
    <3>1. at[i] \in Positions /\ at[1] \in Positions BY <2>3, <2>8
    <3>2. at[1] <= at[i]
      <4>1. CASE i = 1 BY <4>1, <3>1, <2>p
      <4>2. CASE i # 1
        <5>1. 1 \in 1 .. n /\ 1 < i BY <4>2
        <5> QED BY <5>1, <2>8, <3>1, <2>p
      <4> QED BY <4>1, <4>2
    <3> QED BY <3>1, <3>2, <2>5, <2>7, <2>p, ScreenSize
  <2>10. PICK bt : bt = [i \in 1 .. n |-> at[i] - NUM_COLS] OBVIOUS
  <2>11. ASSUME NEW i \in 1 .. n
         PROVE  /\ bt[i] = at[i] - NUM_COLS /\ bt[i] \in Positions /\ bt[i] \in Int
                /\ bt[i] < Position(q) /\ bt[i] + NUM_COLS = at[i]
    <3>1. at[i] \in Int /\ at[i] >= NUM_COLS /\ at[i] < NUM_ROWS * NUM_COLS - 1
      BY <2>8, <2>9, <2>k
    <3>2. bt[i] = at[i] - NUM_COLS BY <2>10
    <3> QED BY <3>1, <3>2, <2>v, ScreenSize DEF Positions
  <2>12. bt \in [1 .. n -> Positions] BY <2>10, <2>11
  <2>13. ASSUME NEW i \in 1 .. n PROVE bt[i] < Position(q) /\ q.cells[bt[i]] = s[i]
    BY <2>8, <2>11, <2>v
  <2>14. ASSUME NEW i \in 1 .. n, NEW j \in 1 .. n, i < j PROVE bt[i] < bt[j]
    <3>1. at[i] < at[j] /\ at[i] \in Int /\ at[j] \in Int BY <2>8, <2>9, <2>14
    <3>2. bt[i] = at[i] - NUM_COLS /\ bt[j] = at[j] - NUM_COLS BY <2>11
    <3> QED BY <3>1, <3>2, ScreenSize
  <2>15. ASSUME NEW p \in bt[1] .. Position(q) - 1, q.cells[p] # NUL
         PROVE  \E i \in 1 .. n : bt[i] = p
    <3>1. 1 \in 1 .. n BY <2>3
    <3>2. bt[1] \in Int /\ bt[1] >= 0 /\ bt[1] = at[1] - NUM_COLS /\ at[1] \in Int
      BY <3>1, <2>11, <2>9, <2>p
    <3>3. p \in Int /\ bt[1] <= p /\ p < NUM_ROWS * NUM_COLS - NUM_COLS
      BY <3>2, <2>v, ScreenSize
    <3>4. p \in Positions /\ p + NUM_COLS \in Positions BY <3>2, <3>3, ScreenSize DEF Positions
    <3>5. k.cells[p + NUM_COLS] # NUL BY <3>3, <3>4, <2>15, <2>v
    <3>6. p + NUM_COLS < Position(k)
      <4>1. SUFFICES ASSUME p + NUM_COLS >= Position(k) PROVE FALSE
        BY <3>3, <2>k, ScreenSize
      <4> QED BY <4>1, <3>4, <3>5 DEF Clean
    <3>7. p + NUM_COLS \in at[1] .. Position(k) - 1 BY <3>2, <3>3, <3>6, <2>k, ScreenSize
    <3>8. PICK i \in 1 .. n : at[i] = p + NUM_COLS BY <3>5, <3>7, <2>8
    <3>9. bt[i] = p BY <3>3, <3>8, <2>11, ScreenSize
    <3> QED BY <3>9
  <2>16. StandsAt(q, s, bt) BY <2>2, <2>13, <2>14, <2>15 DEF StandsAt
  <2>17. RowTyped(q, bt[1])
    <3>1. NUM_COLS * q.y = Position(q) /\ Position(q) \in Int BY <2>v, ScreenSize
    <3> QED BY <3>1, <2>p DEF RowTyped
  <2>18. RowsUsed(q, n, bt[1], r - 1, m)
    <3>1. (NUM_ROWS - 1 - (r - 1)) * (NUM_COLS - 1)
            = (NUM_ROWS - 1 - r) * (NUM_COLS - 1) + (NUM_COLS - 1)
      <4>1. NUM_ROWS - 1 \in Int BY ScreenSize
      <4> QED BY <4>1, <2>5, RowsTimes
    <3>2. (NUM_ROWS - 1 - r) * (NUM_COLS - 1) \in Int
      <4>1. NUM_ROWS - 1 \in Int BY ScreenSize
      <4> QED BY <4>1, <2>5, RowsTimes
    <3>3. n >= (q.y - (r - 1)) * (NUM_COLS - 1) + q.x - m
      <4>1. PICK a \in Int : a = (NUM_ROWS - 1 - (r - 1)) * (NUM_COLS - 1)
        BY <3>1, <3>2, ScreenSize
      <4>2. n >= a - m BY <4>1, <3>1, <3>2, <2>5, ScreenSize
      <4>3. (q.y - (r - 1)) * (NUM_COLS - 1) = a BY <4>1, <2>v
      <4> QED BY <4>2, <4>3, <2>v, <2>5, ScreenSize
    <3>4. r - 1 \in 0 .. NUM_ROWS - 1 BY <2>5, <2>6, ScreenSize
    <3>5. 1 \in 1 .. n BY <2>3
    <3>6. NUM_COLS * (r - 1) <= bt[1] BY <3>5, <2>5, <2>7, <2>9, <2>11, ScreenSize
    <3> QED BY <3>3, <3>4, <3>6, <2>5 DEF RowsUsed
  <2> QED BY <2>q, <2>2, <2>12, <2>16, <2>17, <2>18 DEF Placed, PlacedAt
<1> QED BY <1>1, <1>2

(* Backspace that does not leave the row.                                   *)
Erased(k, q) ==
  /\ q.x = k.x - 1 /\ q.y = k.y /\ Position(q) = Position(k) - 1
  /\ \A p \in Positions : q.cells[p] = IF p = Position(q) THEN NUL ELSE k.cells[p]

\* The cell before the position is emptied, and the position goes there.
LEMMA EraseErases ==
  ASSUME NEW k \in Consoles, On(k), k.x # 0
  PROVE  Erased(k, Erase([k EXCEPT !.x = @ - 1]))
<1>k. /\ k.x \in 0 .. NUM_COLS - 1 /\ k.y \in 0 .. NUM_ROWS - 1
      /\ Position(k) = NUM_COLS * k.y + k.x /\ NUM_COLS * k.y \in Nat
  BY ConsoleFacts
<1>1. PICK e : e = [k EXCEPT !.x = @ - 1] OBVIOUS
<1>2. e.x = k.x - 1 /\ e.y = k.y /\ e.cells = k.cells BY <1>1 DEF Consoles
<1>3. e \in Consoles
  <2>1. k.x - 1 \in 0 .. NUM_COLS BY <1>k, ScreenSize
  <2> QED BY <1>1, <2>1 DEF Consoles
<1>4. On(e) /\ ~Corner(e) BY <1>2, <1>k, ScreenSize DEF On, Corner
<1>5. Position(e) = Position(k) - 1 BY <1>2, <1>k, ScreenSize DEF Position
<1>6. PICK w : w = putc(e, NUL) OBVIOUS
<1>7. NUL \in Cells BY DEF Cells
<1>8. Put(e, w, NUL) /\ w \in Consoles BY <1>3, <1>4, <1>6, <1>7, PutcPuts, PutcOK
<1>9. PICK q : q = Erase(e) OBVIOUS
<1>10. q.x = e.x /\ q.y = e.y /\ q.cells = w.cells BY <1>6, <1>8, <1>9 DEF Erase, Consoles
<1>11. Position(q) = Position(e) BY <1>10 DEF Position
<1>12. \A p \in Positions : q.cells[p] = IF p = Position(q) THEN NUL ELSE k.cells[p]
  BY <1>2, <1>8, <1>10, <1>11 DEF Put
<1> QED BY <1>1, <1>2, <1>5, <1>9, <1>10, <1>11, <1>12 DEF Erased

\* The screen stays clean then.
LEMMA EraseClean ==
  ASSUME NEW k \in Consoles, On(k), k.x # 0, Clean(k), NEW q, Erased(k, q)
  PROVE  Clean(q)
<1>k. Position(k) \in Nat BY ConsoleFacts
<1>q. /\ Position(q) = Position(k) - 1
      /\ \A p \in Positions : q.cells[p] = IF p = Position(q) THEN NUL ELSE k.cells[p]
  BY DEF Erased
<1>p. \A p \in Positions : p \in Int /\ p >= 0 BY ScreenSize DEF Positions
<1> SUFFICES ASSUME NEW p \in Positions, p >= Position(q) PROVE q.cells[p] = NUL BY DEF Clean
<1>1. CASE p = Position(q) BY <1>1, <1>q
<1>2. CASE p # Position(q)
  <2>1. p >= Position(k) BY <1>2, <1>q, <1>k, <1>p
  <2> QED BY <1>2, <2>1, <1>q DEF Clean
<1> QED BY <1>1, <1>2

\* Backspace takes the last character of the line, and no other, off the screen.
LEMMA PlacedErase ==
  ASSUME NEW k \in Consoles, On(k), k.x # 0, Clean(k), NEW q, Erased(k, q),
         NEW s \in Line, s # <<>>, Placed(k, s)
  PROVE  Placed(q, SubSeq(s, 1, Len(s) - 1)) /\ Clean(q)
<1>k. /\ k.x \in 0 .. NUM_COLS - 1 /\ k.y \in 0 .. NUM_ROWS - 1
      /\ Position(k) \in Positions /\ Position(k) = NUM_COLS * k.y + k.x
      /\ Position(k) \in Nat /\ NUM_COLS * k.y \in Nat
  BY ConsoleFacts
<1>q. /\ q.x = k.x - 1 /\ q.y = k.y /\ Position(q) = Position(k) - 1
      /\ \A p \in Positions : q.cells[p] = IF p = Position(q) THEN NUL ELSE k.cells[p]
  BY DEF Erased
<1>p. \A p \in Positions : p \in Int /\ p >= 0 BY ScreenSize DEF Positions
<1>b. ASSUME NEW p \in Int, p >= 0, p <= Position(k) PROVE p \in Positions
  <2>1. Position(k) <= NUM_ROWS * NUM_COLS - 1 BY <1>k, ScreenSize DEF Positions
  <2> QED BY <1>b, <1>k, <2>1, ScreenSize DEF Positions
<1>1. Clean(q) BY EraseClean
<1>2. PICK n \in Nat : n = Len(s) BY DEF Line
<1>3. n > 0 BY <1>2 DEF Line
<1>4. PICK u : u = SubSeq(s, 1, Len(s) - 1) OBVIOUS
<1>5. u \in Line /\ Len(u) = n - 1 /\ \A i \in 1 .. n - 1 : u[i] = s[i]
  <2>1. s \in Seq(Chars \cup {SP}) BY DEF Line
  <2> QED BY <1>2, <1>3, <1>4, <2>1 DEF Line
<1>6. CASE n = 1
  <2>1. u = <<>> BY <1>5, <1>6 DEF Line
  <2> QED BY <1>1, <1>4, <2>1, PlacedEmpty
<1>7. CASE n # 1
  <2>1. PICK at : PlacedAt(k, s, at) BY DEF Placed
  <2>2. /\ at \in [1 .. n -> Positions]
        /\ \A i \in 1 .. n : at[i] < Position(k) /\ k.cells[at[i]] = s[i]
        /\ \A i, j \in 1 .. n : i < j => at[i] < at[j]
        /\ \A p \in at[1] .. Position(k) - 1 : k.cells[p] # NUL => \E i \in 1 .. n : at[i] = p
        /\ RowTyped(k, at[1])
    BY <2>1, <1>2 DEF PlacedAt, StandsAt
  <2>3. PICK r, m : RowsUsed(k, n, at[1], r, m) BY <2>1, <1>2 DEF PlacedAt
  <2>4. /\ \A i \in 1 .. n : at[i] \in Positions /\ at[i] \in Int
        /\ 1 \in 1 .. n /\ n \in 1 .. n /\ n - 1 \in Nat /\ n - 1 >= 1
        /\ \A i \in 1 .. n - 1 : i \in 1 .. n /\ i < n
        /\ 1 \in 1 .. n - 1
    BY <1>3, <1>7, <2>2, <1>p
  <2>5. at[n] = Position(q)
    <3>0. /\ Position(q) \in Int /\ NUM_COLS * k.y <= Position(q) /\ Position(q) >= 0
          /\ Position(q) < Position(k)
      BY <1>q, <1>k
    <3>1. /\ Position(q) \in Positions /\ Position(q) \in Int /\ NUM_COLS * k.y <= Position(q)
          /\ Position(q) < Position(k)
      BY <3>0, <1>b, <1>k
    <3>2. at[1] \in Int /\ at[1] <= Position(q) BY <2>2, <2>4, <1>q, <1>k
    <3>3. k.cells[Position(q)] # NUL BY <2>2, <3>1, <3>2 DEF RowTyped
    <3>4. Position(q) \in at[1] .. Position(k) - 1 BY <3>1, <3>2, <1>k
    <3>5. PICK i \in 1 .. n : at[i] = Position(q) BY <2>2, <3>3, <3>4
    <3>6. CASE i = n BY <3>5, <3>6
    <3>7. CASE i # n
      <4>1. i < n BY <3>7
      <4>2. at[i] < at[n] /\ at[n] < Position(k) /\ at[n] \in Int BY <4>1, <2>2, <2>4
      <4> QED BY <4>2, <3>1, <3>5, <1>q, <1>k
    <3> QED BY <3>6, <3>7
  <2>6. PICK bt : bt = [i \in 1 .. n - 1 |-> at[i]] OBVIOUS
  <2>7. /\ bt \in [1 .. n - 1 -> Positions]
        /\ \A i \in 1 .. n - 1 : bt[i] = at[i] /\ at[i] < Position(q) /\ at[i] \in Positions
    <3>1. ASSUME NEW i \in 1 .. n - 1 PROVE at[i] < Position(q) /\ at[i] \in Positions
      BY <2>2, <2>4, <2>5
    <3> QED BY <2>6, <3>1
  <2>8. StandsAt(q, u, bt)
    <3>1. ASSUME NEW i \in 1 .. n - 1 PROVE bt[i] < Position(q) /\ q.cells[bt[i]] = u[i]
      <4>1. at[i] # Position(q) BY <2>7, <1>p, <2>4
      <4> QED BY <4>1, <2>2, <2>4, <2>7, <1>5, <1>q
    <3>2. ASSUME NEW i \in 1 .. n - 1, NEW j \in 1 .. n - 1, i < j PROVE bt[i] < bt[j]
      <4>1. at[i] < at[j] BY <3>2, <2>2, <2>4
      <4> QED BY <4>1, <2>7
    <3>3. ASSUME NEW p \in bt[1] .. Position(q) - 1, q.cells[p] # NUL
          PROVE  \E i \in 1 .. n - 1 : bt[i] = p
      <4>1. bt[1] = at[1] /\ at[1] \in Positions /\ at[1] \in Int BY <2>4, <2>7
      <4>2. Position(q) \in Int BY <1>q, <1>k
      <4>3. p \in Int /\ at[1] <= p /\ p < Position(q) BY <4>1, <4>2
      <4>4. p \in Positions /\ p \in at[1] .. Position(k) - 1
        BY <4>1, <4>3, <1>q, <1>k, <1>p, <1>b
      <4>5. k.cells[p] # NUL BY <3>3, <4>3, <4>4, <1>q
      <4>6. PICK i \in 1 .. n : at[i] = p BY <2>2, <4>4, <4>5
      <4>7. i # n BY <2>5, <4>3, <4>6
      <4>8. i \in 1 .. n - 1 BY <4>7
      <4> QED BY <4>6, <4>8, <2>7
    <3> QED BY <1>5, <3>1, <3>2, <3>3 DEF StandsAt
  <2>9. RowTyped(q, bt[1])
    <3> SUFFICES ASSUME NEW p \in Positions, NUM_COLS * q.y <= p, bt[1] <= p, p < Position(q)
                 PROVE  q.cells[p] # NUL
      BY DEF RowTyped
    <3>1. bt[1] = at[1] BY <2>4, <2>7
    <3>2. p # Position(q) /\ p < Position(k) BY <1>q, <1>k, <1>p
    <3> QED BY <3>1, <3>2, <2>2, <1>q DEF RowTyped
  <2>10. RowsUsed(q, n - 1, bt[1], r, m)
    <3>1. bt[1] = at[1] BY <2>4, <2>7
    <3>2. r \in Int /\ m \in Int /\ k.y \in Int /\ n >= (k.y - r) * (NUM_COLS - 1) + k.x - m
      BY <2>3, <1>k, ScreenSize DEF RowsUsed
    <3>3. (k.y - r) * (NUM_COLS - 1) \in Int BY <3>2, RowsTimes
    <3>4. PICK a \in Int : a = (k.y - r) * (NUM_COLS - 1) BY <3>3
    <3>5. n - 1 >= a + (k.x - 1) - m BY <3>2, <3>4, <1>k
    <3>6. n - 1 >= (q.y - r) * (NUM_COLS - 1) + q.x - m BY <3>4, <3>5, <1>q
    <3> QED BY <3>1, <3>6, <2>3 DEF RowsUsed
  <2> QED BY <1>1, <1>4, <1>5, <2>7, <2>8, <2>9, <2>10 DEF Placed, PlacedAt
<1> QED BY <1>6, <1>7

-----------------------------------------------------------------------------
(* What is left of a line behind its first h characters.                    *)
Rest(s, h) == SubSeq(s, h + 1, Len(s))

\* It is a line, no longer than the whole.
LEMMA RestLine ==
  ASSUME NEW s \in Line, NEW h \in Nat
  PROVE  /\ Rest(s, h) \in Line
         /\ Len(Rest(s, h)) = IF h < Len(s) THEN Len(s) - h ELSE 0
         /\ \A i \in 1 .. Len(s) - h : Rest(s, h)[i] = s[h + i]
<1>1. s \in Seq(Chars \cup {SP}) /\ Len(s) \in Nat BY DEF Line
<1>2. PICK n \in Nat : n = Len(s) BY <1>1
<1>3. \A i \in h + 1 .. n : s[i] \in Chars \cup {SP}
  <2>1. \A i \in h + 1 .. n : i \in 1 .. n OBVIOUS
  <2> QED BY <1>1, <1>2, <2>1
<1>4. PICK u : u = SubSeq(s, h + 1, n) OBVIOUS
<1>5. /\ u \in Seq(Chars \cup {SP})
      /\ Len(u) = IF h + 1 <= n THEN n - (h + 1) + 1 ELSE 0
      /\ \A i \in 1 .. n - (h + 1) + 1 : u[i] = s[h + 1 + i - 1]
  BY <1>3, <1>4, SubSeqProperties
<1>6. Len(u) = IF h < n THEN n - h ELSE 0 BY <1>5
<1>7. ASSUME NEW i \in 1 .. n - h PROVE u[i] = s[h + i]
  <2>1. i \in 1 .. n - (h + 1) + 1 /\ h + 1 + i - 1 = h + i OBVIOUS
  <2> QED BY <1>5, <2>1
<1> QED BY <1>2, <1>4, <1>5, <1>6, <1>7 DEF Rest, Line

\* Nothing is left behind the last character.
LEMMA RestNone ==
  ASSUME NEW s \in Line, NEW h \in Nat, h >= Len(s)
  PROVE  Rest(s, h) = <<>>
<1>1. Rest(s, h) \in Seq(Chars \cup {SP}) /\ Len(Rest(s, h)) = 0
  BY RestLine DEF Line
<1> QED BY <1>1

\* A character that is typed is the last of the rest.
LEMMA RestAppend ==
  ASSUME NEW s \in Line, NEW h \in Nat, h <= Len(s), NEW c \in Chars \cup {SP}
  PROVE  Rest(Append(s, c), h) = Append(Rest(s, h), c)
<1>1. PICK n \in Nat : n = Len(s) BY DEF Line
<1>2. PICK u : u = Append(s, c) OBVIOUS
<1>3. u \in Line /\ Len(u) = n + 1 /\ u[n + 1] = c /\ \A i \in 1 .. n : u[i] = s[i]
  <2>1. s \in Seq(Chars \cup {SP}) BY DEF Line
  <2> QED BY <1>1, <1>2, <2>1, AppendProperties DEF Line
<1>4. PICK v : v = Rest(u, h) OBVIOUS
<1>5. v \in Line /\ Len(v) = n + 1 - h /\ \A i \in 1 .. n + 1 - h : v[i] = u[h + i]
  <2>1. /\ v \in Line /\ Len(v) = IF h < Len(u) THEN Len(u) - h ELSE 0
        /\ \A i \in 1 .. Len(u) - h : v[i] = u[h + i]
    BY <1>3, <1>4, RestLine
  <2>2. h < n + 1 BY <1>1
  <2> QED BY <1>3, <2>1, <2>2
<1>6. PICK w : w = Rest(s, h) OBVIOUS
<1>7. w \in Line /\ Len(w) = n - h /\ \A i \in 1 .. n - h : w[i] = s[h + i]
  <2>1. /\ w \in Line /\ Len(w) = IF h < n THEN n - h ELSE 0
        /\ \A i \in 1 .. n - h : w[i] = s[h + i]
    BY <1>1, <1>6, RestLine
  <2>2. h <= n BY <1>1
  <2> QED BY <2>1, <2>2
<1>8. PICK z : z = Append(w, c) OBVIOUS
<1>9. z \in Line /\ Len(z) = n - h + 1 /\ z[n - h + 1] = c /\ \A i \in 1 .. n - h : z[i] = w[i]
  <2>1. w \in Seq(Chars \cup {SP}) BY <1>7 DEF Line
  <2> QED BY <1>7, <1>8, <2>1, AppendProperties DEF Line
<1>10. ASSUME NEW i \in 1 .. n + 1 - h PROVE v[i] = z[i]
  <2>1. CASE i = n - h + 1
    <3>1. h + i = n + 1 BY <2>1, <1>1
    <3> QED BY <2>1, <3>1, <1>3, <1>5, <1>9
  <2>2. CASE i # n - h + 1
    <3>1. i \in 1 .. n - h /\ h + i \in 1 .. n BY <2>2, <1>1
    <3> QED BY <3>1, <1>3, <1>5, <1>7, <1>9
  <2> QED BY <2>1, <2>2
<1>11. Len(v) = Len(z) /\ \A i \in 1 .. Len(v) : v[i] = z[i] BY <1>1, <1>5, <1>9, <1>10
<1>12. v \in Seq(Chars \cup {SP}) /\ z \in Seq(Chars \cup {SP}) BY <1>5, <1>9 DEF Line
<1>13. v = z BY <1>11, <1>12, SeqEqual
<1> QED BY <1>2, <1>4, <1>6, <1>8, <1>13

\* Backspace takes the last character of the rest.
LEMMA RestErase ==
  ASSUME NEW s \in Line, NEW h \in Nat, h < Len(s)
  PROVE  /\ Rest(s, h) \in Line /\ Rest(s, h) # <<>>
         /\ Rest(SubSeq(s, 1, Len(s) - 1), h) = SubSeq(Rest(s, h), 1, Len(Rest(s, h)) - 1)
<1>1. PICK n \in Nat : n = Len(s) BY DEF Line
<1>2. PICK u : u = SubSeq(s, 1, n - 1) OBVIOUS
<1>3. u \in Line /\ Len(u) = n - 1 /\ \A i \in 1 .. n - 1 : u[i] = s[i]
  <2>1. s \in Seq(Chars \cup {SP}) BY DEF Line
  <2> QED BY <1>1, <1>2, <2>1 DEF Line
<1>4. PICK v : v = Rest(u, h) OBVIOUS
<1>5. v \in Line /\ Len(v) = n - 1 - h /\ \A i \in 1 .. n - 1 - h : v[i] = u[h + i]
  <2>1. /\ v \in Line /\ Len(v) = IF h < Len(u) THEN Len(u) - h ELSE 0
        /\ \A i \in 1 .. Len(u) - h : v[i] = u[h + i]
    BY <1>3, <1>4, RestLine
  <2>2. h < n BY <1>1
  <2> QED BY <1>3, <2>1, <2>2
<1>6. PICK w : w = Rest(s, h) OBVIOUS
<1>7. w \in Line /\ Len(w) = n - h /\ \A i \in 1 .. n - h : w[i] = s[h + i]
  <2>1. /\ w \in Line /\ Len(w) = IF h < n THEN n - h ELSE 0
        /\ \A i \in 1 .. n - h : w[i] = s[h + i]
    BY <1>1, <1>6, RestLine
  <2>2. h <= n BY <1>1
  <2> QED BY <2>1, <2>2
<1>8. w # <<>> BY <1>1, <1>7
<1>9. PICK z : z = SubSeq(w, 1, Len(w) - 1) OBVIOUS
<1>10. z \in Line /\ Len(z) = n - h - 1 /\ \A i \in 1 .. n - h - 1 : z[i] = w[i]
  <2>1. w \in Seq(Chars \cup {SP}) BY <1>7 DEF Line
  <2> QED BY <1>1, <1>7, <1>9, <2>1 DEF Line
<1>11. ASSUME NEW i \in 1 .. n - 1 - h PROVE v[i] = z[i]
  <2>1. h + i \in 1 .. n - 1 /\ i \in 1 .. n - h /\ i \in 1 .. n - h - 1 BY <1>1
  <2> QED BY <2>1, <1>3, <1>5, <1>7, <1>10
<1>12. Len(v) = Len(z) /\ \A i \in 1 .. Len(v) : v[i] = z[i] BY <1>1, <1>5, <1>10, <1>11
<1>13. v \in Seq(Chars \cup {SP}) /\ z \in Seq(Chars \cup {SP}) BY <1>5, <1>10 DEF Line
<1>14. v = z BY <1>12, <1>13, SeqEqual
<1> QED BY <1>1, <1>2, <1>4, <1>6, <1>7, <1>8, <1>9, <1>14

-----------------------------------------------------------------------------
(* What is shown of the line of every terminal stands on its console,       *)
(* displayed or not; a program that writes, and a key that shows a file,    *)
(* have no line there that they would write into; and a line that has been  *)
(* entered is on the displayed terminal.                                    *)
EchoOn(t) ==
  /\ Clean(Image(t))
  /\ hidden[t] <= Len(line[t])
  /\ ~active[t] => Shown(t) = <<>>
  /\ entered[t] => t = disp
  /\ ~entered[t] => Placed(Image(t), Shown(t))
  /\ file[t] # <<>> => Shown(t) = <<>> /\ Shown(disp) = <<>>

CursorShown == screen = Blank \/ cursor = Position(screen)

EchoInv ==
  env = {} =>
    /\ active[disp]
    /\ out # <<>> => Shown(curr_term) = <<>>
    /\ CursorShown
    /\ \A t \in Terms : EchoOn(t)

\* What the invariants say of the displayed terminal.
LEMMA EchoFacts ==
  ASSUME GoodInv, EchoInv, env = {}
  PROVE  /\ disp \in Terms /\ curr_term \in Terms /\ active[disp]
         /\ screen \in Consoles /\ On(screen) /\ Clean(screen)
         /\ line \in [Terms -> Line] /\ entered \in [Terms -> BOOLEAN] /\ hidden \in [Terms -> Nat]
         /\ hidden[disp] <= Len(line[disp])
         /\ ~entered[disp] => Placed(screen, Shown(disp))
<1>1. disp \in Terms /\ curr_term \in Terms BY DEF GoodInv, TypeOK, disp
<1>2. screen \in Consoles /\ On(screen) BY DEF GoodInv, TypeOK, CursorOnScreen
<1>3. line \in [Terms -> Line] /\ entered \in [Terms -> BOOLEAN] /\ hidden \in [Terms -> Nat]
  BY DEF GoodInv, TypeOK, Line
<1>4. EchoOn(disp) /\ active[disp] BY <1>1 DEF EchoInv
<1>5. Image(disp) = screen BY DEF Image
<1> QED BY <1>1, <1>2, <1>3, <1>4, <1>5 DEF EchoOn

\* A key changes the screen and the line of the displayed terminal.
LEMMA EchoKey ==
  ASSUME GoodInv, EchoInv, env = {}, Idle, UNCHANGED <<env, saved, termVars, out, file>>,
         NEW d, d = disp,
         \A t \in Terms : t # d => /\ line'[t] = line[t] /\ entered'[t] = entered[t]
                                   /\ hidden'[t] = hidden[t],
         Clean(screen'), hidden'[d] <= Len(line'[d]),
         ~entered'[d] => Placed(screen', Shown(d)'), CursorShown'
  PROVE  EchoInv'
<1>1. disp' = d /\ active' = active /\ active[d] BY EchoFacts DEF termVars, disp
<1>2. ASSUME NEW t \in Terms PROVE EchoOn(t)'
  <2>0. file'[t] = <<>> BY DEF Idle
  <2>1. CASE t = d
    <3>1. Image(t)' = screen' BY <2>1, <1>1 DEF Image
    <3>2. active'[t] BY <2>1, <1>1
    <3> QED BY <2>0, <2>1, <1>1, <3>1, <3>2 DEF EchoOn
  <2>2. CASE t # d
    <3>1. Image(t)' = Image(t) BY <2>2, <1>1 DEF Image
    <3>2. EchoOn(t) BY DEF EchoInv
    <3>3. line'[t] = line[t] /\ entered'[t] = entered[t] /\ hidden'[t] = hidden[t] BY <2>2
    <3>4. Shown(t)' = Shown(t) BY <3>3 DEF Shown
    <3> QED BY <1>1, <2>0, <2>2, <3>1, <3>2, <3>3, <3>4 DEF EchoOn
  <2> QED BY <2>1, <2>2
<1>3. active'[disp'] BY <1>1
<1>4. out' = <<>> BY DEF Idle
<1> QED BY <1>2, <1>3, <1>4 DEF EchoInv

\* The echo of a key stands behind the line.
LEMMA EchoPlaced ==
  ASSUME NEW s \in Line, screen \in Consoles, On(screen), Clean(screen), Placed(screen, s),
         Len(s) < MAX_BUF_SIZE, NEW c \in Chars \cup {SP}
  PROVE  Placed(KeyEcho(c), Append(s, c)) /\ Clean(KeyEcho(c))
<1>1. PICK k : k = IF Corner(screen) THEN vert_scroll(screen) ELSE screen OBVIOUS
<1>2. k \in Consoles /\ On(k) /\ Clean(k) BY <1>1, ScrollOK, ScrollClean
<1>3. Placed(k, s) BY <1>1, PlacedScroll
<1>4. ~Corner(k)
  <2>1. CASE Corner(screen)
    <3>1. k.x = 0 BY <1>1, <2>1, ScrollMoves
    <3> QED BY <3>1, ScreenSize DEF Corner
  <2>2. CASE ~Corner(screen) BY <1>1, <2>2
  <2> QED BY <2>1, <2>2
<1>5. c \in Cells /\ c \in Cells \cup {NL} BY DEF Cells
<1>6. KeyEcho(c) = putc(k, c) BY <1>1 DEF KeyEcho
<1>7. Put(k, putc(k, c), c) BY <1>2, <1>4, <1>5, PutcPuts
<1>8. Placed(putc(k, c), Append(s, c)) BY <1>2, <1>3, <1>7, PlacedPut
<1>9. Clean(putc(k, c)) BY <1>2, <1>5, PutcClean
<1> QED BY <1>6, <1>8, <1>9

\* Keys with a character, and Backspace that is taken for one.
LEMMA EchoType ==
  ASSUME GoodInv, EchoInv, env = {}, NEW c \in Chars \cup {SP}, MayType, Type(c)
  PROVE  EchoInv'
<1>1. PICK d : d = disp OBVIOUS
<1>2. /\ d \in Terms /\ screen \in Consoles /\ On(screen) /\ Clean(screen)
      /\ line \in [Terms -> Line] /\ hidden \in [Terms -> Nat]
      /\ hidden[d] <= Len(line[d])
      /\ Placed(screen, Shown(d))
  BY <1>1, EchoFacts DEF MayType
<1>3. /\ line' = [line EXCEPT ![d] = Append(line[d], c)] /\ entered' = entered /\ hidden' = hidden
      /\ Idle /\ Len(line[d]) < MAX_BUF_SIZE
      /\ screen' = KeyEcho(c) /\ cursor' = Position(screen')
      /\ UNCHANGED <<env, saved, termVars, out, file>>
  BY <1>1 DEF Type, Show, MayType
<1>4. PICK s \in Line, h \in Nat : s = line[d] /\ h = hidden[d] BY <1>2
<1>5. Shown(d) = Rest(s, h) BY <1>4 DEF Shown, Rest
<1>6. line'[d] = Append(s, c) /\ hidden'[d] = h BY <1>2, <1>3, <1>4
<1>7. Shown(d)' = Append(Rest(s, h), c)
  <2>1. Shown(d)' = Rest(Append(s, c), h) BY <1>6 DEF Shown, Rest
  <2> QED BY <2>1, <1>2, <1>4, RestAppend
<1>8. Rest(s, h) \in Line /\ Len(Rest(s, h)) < MAX_BUF_SIZE
  <2>1. Len(s) \in Nat /\ MAX_BUF_SIZE \in Nat /\ Len(s) < MAX_BUF_SIZE
    BY <1>3, <1>4, ConstantsAssumption DEF Line
  <2>2. Rest(s, h) \in Line /\ Len(Rest(s, h)) = IF h < Len(s) THEN Len(s) - h ELSE 0
    BY RestLine
  <2> QED BY <2>1, <2>2
<1>9. Placed(screen', Shown(d)') /\ Clean(screen')
  BY <1>2, <1>3, <1>5, <1>7, <1>8, EchoPlaced
<1>10. \A t \in Terms : t # d => /\ line'[t] = line[t] /\ entered'[t] = entered[t]
                                 /\ hidden'[t] = hidden[t]
  BY <1>2, <1>3
<1>11. CursorShown' BY <1>3 DEF CursorShown
<1>12. hidden'[d] <= Len(line'[d])
  <2>1. Len(Append(s, c)) = Len(s) + 1 /\ Len(s) \in Nat BY DEF Line
  <2> QED BY <2>1, <1>2, <1>4, <1>6
<1> QED BY <1>1, <1>3, <1>9, <1>10, <1>11, <1>12, EchoKey

\* Backspace: it takes the last character that is shown, or, when none of the line is,
\* what stands before the position.
LEMMA EchoErase ==
  ASSUME GoodInv, EchoInv, env = {}, Backspace
  PROVE  EchoInv'
<1>1. PICK d : d = disp OBVIOUS
<1>2. /\ d \in Terms /\ screen \in Consoles /\ On(screen) /\ Clean(screen)
      /\ line \in [Terms -> Line] /\ hidden \in [Terms -> Nat]
      /\ hidden[d] <= Len(line[d])
      /\ Placed(screen, Shown(d))
  BY <1>1, EchoFacts DEF Backspace, MayType
<1>3. PICK n, m : /\ ErasedAt(screen, [screen EXCEPT !.x = n, !.y = m])
                  /\ Show(Erase([screen EXCEPT !.x = n, !.y = m]))
  BY DEF Backspace
<1>4. screen.x # 0 BY DEF Backspace
<1>5. [screen EXCEPT !.x = n, !.y = m] = [screen EXCEPT !.x = @ - 1]
  BY <1>3, <1>4 DEF ErasedAt
<1>6. Show(Erase([screen EXCEPT !.x = @ - 1])) BY <1>3, <1>5
<1>7. Erased(screen, screen') /\ cursor' = Position(screen')
  BY <1>2, <1>4, <1>6, EraseErases DEF Show
<1>8. PICK s \in Line, h \in Nat : s = line[d] /\ h = hidden[d] BY <1>2
<1>9. PICK g : g = IF h < Len(s) THEN h ELSE Len(s) - 1 OBVIOUS
<1>10. /\ line' = [line EXCEPT ![d] = SubSeq(s, 1, Len(s) - 1)]
       /\ hidden' = [hidden EXCEPT ![d] = g]
       /\ entered' = entered /\ s # <<>>
       /\ Idle /\ UNCHANGED <<env, saved, termVars, out, file>>
  BY <1>1, <1>8, <1>9 DEF Backspace, MayType
<1>11. line'[d] = SubSeq(s, 1, Len(s) - 1) /\ hidden'[d] = g BY <1>2, <1>10
<1>12. /\ Len(s) \in Nat /\ Len(s) > 0
       /\ SubSeq(s, 1, Len(s) - 1) \in Line /\ Len(SubSeq(s, 1, Len(s) - 1)) = Len(s) - 1
  <2>1. s \in Seq(Chars \cup {SP}) /\ s # <<>> BY <1>10 DEF Line
  <2>2. PICK n1 \in Nat : n1 = Len(s) BY <2>1
  <2>3. n1 > 0 BY <2>1, <2>2
  <2>4. SubSeq(s, 1, n1 - 1) \in Seq(Chars \cup {SP}) /\ Len(SubSeq(s, 1, n1 - 1)) = n1 - 1
    BY <2>1, <2>2, <2>3
  <2> QED BY <2>2, <2>3, <2>4 DEF Line
<1>13. g \in Nat /\ g <= Len(s) - 1 BY <1>9, <1>12
<1>14. Shown(d) = Rest(s, h) /\ Shown(d)' = Rest(SubSeq(s, 1, Len(s) - 1), g)
  BY <1>8, <1>11 DEF Shown, Rest
<1>15. Clean(screen') BY <1>2, <1>7, <1>4, EraseClean
<1>16. Placed(screen', Shown(d)')
  <2>1. CASE h < Len(s)
    <3>1. g = h BY <1>9, <2>1
    <3>2. PICK w \in Line : w = Rest(s, h) /\ w # <<>> BY <2>1, RestErase
    <3>3. Shown(d)' = SubSeq(w, 1, Len(w) - 1) BY <1>14, <2>1, <3>1, <3>2, RestErase
    <3>4. Placed(screen', SubSeq(w, 1, Len(w) - 1))
      BY <1>2, <1>4, <1>7, <1>14, <3>2, PlacedErase
    <3> QED BY <3>3, <3>4
  <2>2. CASE ~(h < Len(s))
    <3>1. g = Len(s) - 1 BY <1>9, <2>2
    <3>2. Shown(d)' = <<>> BY <1>12, <1>13, <1>14, <3>1, RestNone
    <3> QED BY <3>2, PlacedEmpty
  <2> QED BY <2>1, <2>2
<1>17. \A t \in Terms : t # d => /\ line'[t] = line[t] /\ entered'[t] = entered[t]
                                 /\ hidden'[t] = hidden[t]
  BY <1>2, <1>10
<1>18. CursorShown' BY <1>7 DEF CursorShown
<1>19. hidden'[d] <= Len(line'[d]) BY <1>11, <1>12, <1>13
<1> QED BY <1>1, <1>10, <1>15, <1>16, <1>17, <1>18, <1>19, EchoKey

\* Enter, which ends the line, and Backspace without a line.
LEMMA EchoOther ==
  ASSUME GoodInv, EchoInv, env = {}, Enter \/ BackspaceEmptyLine
  PROVE  EchoInv'
<1>1. PICK d : d = disp OBVIOUS
<1>2. /\ d \in Terms /\ screen \in Consoles /\ On(screen) /\ Clean(screen)
      /\ entered \in [Terms -> BOOLEAN] /\ hidden[d] <= Len(line[d])
      /\ ~entered[d] => Placed(screen, Shown(d))
  BY <1>1, EchoFacts
<1>3. Idle /\ UNCHANGED <<env, saved, termVars, out, file, line, hidden>>
  BY DEF Enter, BackspaceEmptyLine, MayType, lineVars
<1>4. CASE Enter
  <2>1. /\ entered' = [entered EXCEPT ![d] = TRUE]
        /\ screen' = NewLine(screen) /\ cursor' = Position(screen')
    BY <1>1, <1>4 DEF Enter, Show
  <2>2. Clean(screen') /\ CursorShown' BY <1>2, <2>1, NewLineClean DEF CursorShown
  <2>3. entered'[d] BY <1>2, <2>1
  <2>4. \A t \in Terms : t # d => /\ line'[t] = line[t] /\ entered'[t] = entered[t]
                                  /\ hidden'[t] = hidden[t]
    BY <1>2, <1>3, <2>1
  <2>5. hidden'[d] <= Len(line'[d]) BY <1>2, <1>3
  <2> QED BY <1>1, <1>3, <2>2, <2>3, <2>4, <2>5, EchoKey
<1>5. CASE BackspaceEmptyLine
  <2>1. screen' = screen /\ cursor' = Position(screen') /\ entered' = entered
    BY <1>5 DEF BackspaceEmptyLine, Show, lineVars
  <2>2. Shown(d)' = Shown(d) BY <1>3 DEF Shown
  <2>3. Clean(screen') /\ CursorShown' /\ (~entered'[d] => Placed(screen', Shown(d)'))
    BY <1>2, <2>1, <2>2 DEF CursorShown
  <2>4. \A t \in Terms : t # d => /\ line'[t] = line[t] /\ entered'[t] = entered[t]
                                  /\ hidden'[t] = hidden[t]
    BY <1>3, <2>1
  <2>5. hidden'[d] <= Len(line'[d]) BY <1>2, <1>3
  <2> QED BY <1>1, <1>3, <2>3, <2>4, <2>5, EchoKey
<1> QED BY <1>4, <1>5

\* The keys that call clear: of the line that they clear from the screen nothing is shown,
\* and nothing of the displayed one if they go on to show a file.
LEMMA EchoClear ==
  ASSUME GoodInv, EchoInv, env = {}, CtrlL \/ CtrlClear \/ CtrlFile
  PROVE  EchoInv'
<1>1. PICK d, e : d = disp /\ e = curr_term OBVIOUS
<1>2. /\ d \in Terms /\ e \in Terms /\ active[d] /\ line \in [Terms -> Line]
      /\ hidden \in [Terms -> Nat] /\ DOMAIN saved = Terms
  BY <1>1, EchoFacts DEF GoodInv, TypeOK
<1>3. /\ Idle /\ ~entered[d] /\ clear /\ UNCHANGED <<env, termVars, entered, out>>
      /\ disp' = d
  BY <1>1 DEF CtrlL, CtrlClear, CtrlFile, MayType, termVars, disp
<1>4. \E T : hidden' = Hide(T) /\ e \in T /\ T \subseteq {d, e} /\ (CtrlL => d \in T)
             /\ ((\E t \in Terms : file'[t] # <<>>) => d \in T /\ \A t \in Terms : file'[t] # <<>> => t = e)
  <2>1. CASE CtrlL \/ CtrlClear
    <3>1. file' = file BY <2>1 DEF CtrlL, CtrlClear
    <3>2. \A t \in Terms : file'[t] = <<>> BY <1>3, <3>1 DEF Idle
    <3>3. hidden' = Hide({d, e}) \/ (hidden' = Hide({e}) /\ ~CtrlL)
      BY <1>1, <2>1 DEF CtrlL, CtrlClear
    <3> QED BY <3>2, <3>3
  <2>2. CASE CtrlFile
    <3>1. PICK f : file' = [file EXCEPT ![e] = f] BY <1>1, <2>2 DEF CtrlFile
    <3>2. \A t \in Terms : t # e => file'[t] = <<>> BY <1>3, <3>1 DEF Idle, GoodInv, TypeOK
    <3>3. hidden' = Hide({d, e}) BY <1>1, <2>2 DEF CtrlFile
    <3> QED BY <3>2, <3>3
  <2> QED BY <2>1, <2>2
<1>5. PICK T : /\ hidden' = Hide(T) /\ e \in T /\ T \subseteq {d, e} /\ (CtrlL => d \in T)
               /\ (\E t \in Terms : file'[t] # <<>>) =>
                    d \in T /\ \A t \in Terms : file'[t] # <<>> => t = e
  BY <1>4
<1>6. /\ line' \in [Terms -> Line]
      /\ \A t \in Terms : t # d => line'[t] = line[t]
      /\ line'[d] = line[d] \/ (line'[d] = <<>> /\ d \in T)
  <2>1. CASE CtrlL
    <3>1. line' = [line EXCEPT ![d] = <<>>] /\ d \in T BY <1>1, <1>5, <2>1 DEF CtrlL
    <3>2. <<>> \in Line BY DEF Line
    <3> QED BY <1>2, <3>1, <3>2
  <2>2. CASE CtrlClear \/ CtrlFile BY <1>2, <2>2 DEF CtrlClear, CtrlFile
  <2> QED BY <2>1, <2>2
<1>7. ASSUME NEW t \in Terms, t \in T PROVE hidden'[t] <= Len(line'[t]) /\ Shown(t)' = <<>>
  <2>1. hidden'[t] = Len(line'[t]) BY <1>5, <1>7 DEF Hide
  <2>2. line'[t] \in Line /\ Len(line'[t]) \in Nat BY <1>6 DEF Line
  <2>3. Shown(t)' = Rest(line'[t], hidden'[t]) BY DEF Shown, Rest
  <2> QED BY <2>1, <2>2, <2>3, RestNone
<1>8. ASSUME NEW t \in Terms, t \notin T, line'[t] = line[t]
      PROVE  hidden'[t] = hidden[t] /\ Shown(t)' = Shown(t)
  <2>1. hidden'[t] = hidden[t] BY <1>5, <1>8 DEF Hide
  <2> QED BY <2>1, <1>8 DEF Shown
<1>9. Image(e)' = Blank /\ (\A t \in Terms : t # e => Image(t)' = Image(t)) /\ CursorShown'
  <2>1. CASE e = d
    <3>1. screen' = Blank /\ saved' = saved BY <1>1, <1>3, <2>1 DEF clear
    <3> QED BY <1>1, <1>3, <2>1, <3>1 DEF Image, CursorShown
  <2>2. CASE e # d
    <3>1. screen' = screen /\ cursor' = cursor /\ saved' = [saved EXCEPT ![e] = Blank]
      BY <1>1, <1>3, <2>2 DEF clear
    <3> QED BY <1>1, <1>2, <1>3, <2>2, <3>1 DEF Image, CursorShown, EchoInv
  <2> QED BY <2>1, <2>2
<1>10. ASSUME NEW t \in Terms PROVE EchoOn(t)'
  <2>0. EchoOn(t) BY DEF EchoInv
  <2>1. Clean(Image(t)') BY <2>0, <1>9, BlankClean DEF EchoOn
  <2>2. (entered[t] => t = disp) /\ entered' = entered /\ active' = active
    BY <2>0, <1>3 DEF EchoOn, termVars
  <2>3. file'[t] # <<>> => Shown(t)' = <<>> /\ Shown(d)' = <<>>
    BY <1>2, <1>5, <1>7
  <2>4. CASE t \in T
    <3>1. hidden'[t] <= Len(line'[t]) /\ Shown(t)' = <<>> BY <1>7, <2>4
    <3>2. Placed(Image(t)', Shown(t)') BY <3>1, PlacedEmpty
    <3> QED BY <1>1, <1>3, <2>1, <2>2, <2>3, <3>1, <3>2 DEF EchoOn
  <2>5. CASE t \notin T
    <3>1. line'[t] = line[t] BY <1>6, <2>5
    <3>2. hidden'[t] = hidden[t] /\ Shown(t)' = Shown(t) BY <1>8, <2>5, <3>1
    <3>3. Image(t)' = Image(t) BY <1>5, <1>9, <2>5
    <3> QED BY <1>1, <1>3, <2>0, <2>1, <2>2, <2>3, <3>1, <3>2, <3>3 DEF EchoOn
  <2> QED BY <2>4, <2>5
<1>11. active'[disp'] /\ out' = <<>> BY <1>1, <1>2, <1>3 DEF termVars, Idle
<1> QED BY <1>9, <1>10, <1>11 DEF EchoInv

\* Switching takes each line along with its console.
LEMMA EchoSwitch ==
  ASSUME GoodInv, EchoInv, env = {}, NEW newt \in Terms, SwitchActive(newt) \/ SwitchFresh(newt)
  PROVE  EchoInv'
<1>1. /\ newt # disp /\ disp' = newt /\ saved' = [saved EXCEPT ![disp] = screen]
      /\ active[newt] => screen' = saved[newt]
      /\ ~active[newt] => screen' = Blank
      /\ Idle /\ ~entered[disp] /\ UNCHANGED <<env, line, entered, hidden, out, file>>
      /\ active'[newt] /\ \A t \in Terms : t # newt => active'[t] = active[t]
      /\ CursorShown'
  BY DEF SwitchActive, SwitchFresh, save_terminal_state, Show, disp, MaySwitch, lineVars,
         CursorShown, GoodInv, TypeOK
<1>2. DOMAIN saved = Terms /\ disp \in Terms BY DEF GoodInv, TypeOK, disp
<1>3. ASSUME NEW t \in Terms PROVE EchoOn(t)'
  <2>0. EchoOn(t) BY DEF EchoInv
  <2>1. file'[t] = <<>> /\ ~entered'[t] /\ hidden'[t] <= Len(line'[t]) /\ Shown(t)' = Shown(t)
    BY <2>0, <1>1 DEF EchoOn, Idle, Shown
  <2>2. CASE t = newt /\ ~active[newt]
    <3>1. Image(t)' = Blank /\ Shown(t)' = <<>> BY <2>0, <2>1, <2>2, <1>1 DEF Image, EchoOn
    <3>2. Clean(Image(t)') BY <3>1, BlankClean
    <3>3. Placed(Image(t)', Shown(t)') BY <3>1, PlacedEmpty
    <3> QED BY <2>1, <2>2, <3>1, <3>2, <3>3 DEF EchoOn
  <2>3. CASE ~(t = newt /\ ~active[newt])
    <3>1. Image(t)' = Image(t)
      <4>1. CASE t = newt BY <4>1, <2>3, <1>1 DEF Image
      <4>2. CASE t = disp BY <4>2, <1>1, <1>2 DEF Image
      <4>3. CASE t # newt /\ t # disp BY <4>3, <1>1, <1>2 DEF Image
      <4> QED BY <4>1, <4>2, <4>3
    <3>2. ~active'[t] => ~active[t] BY <1>1
    <3>3. ~entered[t] BY <2>1, <1>1
    <3> QED BY <2>0, <2>1, <3>1, <3>2, <3>3 DEF EchoOn
  <2> QED BY <2>2, <2>3
<1>4. out' = <<>> BY <1>1 DEF Idle
<1> QED BY <1>1, <1>3, <1>4 DEF EchoInv

\* The scheduler and the start of terminal_write.
LEMMA EchoProgram ==
  ASSUME GoodInv, EchoInv, env = {}, (\E t \in Terms : Tick(t)) \/ (\E s \in Outputs : Write(s))
  PROVE  EchoInv'
<1>1. /\ UNCHANGED <<env, screen, saved, cursor, curr_terminal_number, active, file>>
      /\ UNCHANGED <<line, entered, hidden>>
  BY DEF Tick, Write, lineVars, termVars
<1>2. \A t : Shown(t)' = Shown(t) BY <1>1 DEF Shown
<1>3. out' # <<>> => Shown(curr_term)' = <<>>
  <2>1. ASSUME NEW t \in Terms, Tick(t) PROVE out' = <<>> BY <2>1 DEF Tick
  <2>2. ASSUME NEW s \in Outputs, Write(s) PROVE Shown(curr_term)' = <<>>
    <3>1. line[curr_term] = <<>> /\ curr_term' = curr_term BY <2>2 DEF Write, termVars
    <3>2. <<>> \in Line /\ hidden[curr_term] \in Nat /\ Len(<<>>) = 0
      BY DEF Line, GoodInv, TypeOK
    <3>3. Rest(<<>>, hidden[curr_term]) = <<>> BY <3>2, RestNone
    <3>4. Shown(curr_term)' = Rest(<<>>, hidden[curr_term]) BY <1>1, <3>1 DEF Shown, Rest
    <3> QED BY <3>3, <3>4
  <2> QED BY <2>1, <2>2
<1>4. ASSUME NEW t \in Terms PROVE EchoOn(t)'
  <2>0. EchoOn(t) BY DEF EchoInv
  <2>1. Image(t)' = Image(t) /\ disp' = disp BY <1>1 DEF Image, disp
  <2>2. Shown(t)' = Shown(t) /\ Shown(disp)' = Shown(disp) BY <1>1 DEF Shown, disp
  <2> QED BY <1>1, <2>0, <2>1, <2>2 DEF EchoOn
<1>5. active'[disp'] /\ CursorShown' BY <1>1 DEF EchoInv, CursorShown, disp
<1> QED BY <1>3, <1>4, <1>5 DEF EchoInv

\* keyboard_read takes the line of the terminal that is displayed: no other has had Enter.
LEMMA EchoTake ==
  ASSUME GoodInv, EchoInv, env = {}, Take
  PROVE  EchoInv'
<1>1. PICK d : d = disp OBVIOUS
<1>2. /\ d \in Terms /\ curr_term \in Terms /\ line \in [Terms -> Line]
      /\ entered \in [Terms -> BOOLEAN] /\ hidden \in [Terms -> Nat]
  BY <1>1, EchoFacts
<1>3. curr_term = d BY <1>1, <1>2 DEF Take, EchoInv, EchoOn
<1>4. /\ entered' = [entered EXCEPT ![d] = FALSE] /\ line' = [line EXCEPT ![d] = <<>>]
      /\ hidden' = [hidden EXCEPT ![d] = 0] /\ out' = <<>>
      /\ UNCHANGED <<env, screen, saved, cursor, curr_terminal_number, curr_term, active, file>>
  BY <1>1, <1>3 DEF Take, Runs, termVars
<1>5. line'[d] = <<>> /\ hidden'[d] = 0 /\ ~entered'[d] BY <1>2, <1>4
<1>6. Shown(d)' = <<>>
  <2>1. <<>> \in Line /\ 0 \in Nat /\ Len(<<>>) = 0 BY DEF Line
  <2>2. Rest(<<>>, 0) = <<>> BY <2>1, RestNone
  <2>3. Shown(d)' = Rest(<<>>, 0) BY <1>5 DEF Shown, Rest
  <2> QED BY <2>2, <2>3
<1>7. ASSUME NEW t \in Terms PROVE EchoOn(t)'
  <2>0. EchoOn(t) BY DEF EchoInv
  <2>1. Image(t)' = Image(t) /\ disp' = d BY <1>1, <1>4 DEF Image, disp
  <2>2. CASE t = d
    <3>1. Placed(Image(t)', Shown(t)') BY <1>6, <2>2, PlacedEmpty
    <3>2. hidden'[t] <= Len(line'[t]) BY <1>5, <2>2
    <3>3. Clean(Image(t)') BY <2>0, <2>1 DEF EchoOn
    <3> QED BY <1>5, <1>6, <2>1, <2>2, <3>1, <3>2, <3>3 DEF EchoOn
  <2>3. CASE t # d
    <3>1. line'[t] = line[t] /\ hidden'[t] = hidden[t] /\ entered'[t] = entered[t]
      BY <1>2, <1>4, <2>3
    <3>2. Shown(t)' = Shown(t) BY <3>1 DEF Shown
    <3> QED BY <1>1, <1>4, <1>6, <2>0, <2>1, <3>1, <3>2 DEF EchoOn
  <2> QED BY <2>2, <2>3
<1>8. active'[disp'] /\ CursorShown' BY <1>4 DEF EchoInv, CursorShown, disp
<1> QED BY <1>4, <1>7, <1>8 DEF EchoInv

\* A character on a console of which no line is shown.
LEMMA EchoPut ==
  ASSUME GoodInv, EchoInv, env = {}, NEW e \in Terms, Shown(e) = <<>>, NEW c \in Cells \cup {NL},
         Image(e)' = putc(Image(e), c), \A t \in Terms : t # e => Image(t)' = Image(t),
         CursorShown',
         UNCHANGED <<env, curr_terminal_number, curr_term, active, line, entered, hidden>>,
         out' = <<>> \/ Shown(curr_term) = <<>>,
         \A t \in Terms : file'[t] # <<>> => file[t] # <<>>
  PROVE  EchoInv'
<1>1. Image(e) \in Consoles /\ On(Image(e)) /\ Clean(Image(e))
  BY DEF GoodInv, TypeOK, CursorOnScreen, EchoInv, EchoOn, Image
<1>2. Clean(Image(e)') BY <1>1, PutcClean
<1>3. \A t : Shown(t)' = Shown(t) BY DEF Shown
<1>4. ASSUME NEW t \in Terms PROVE EchoOn(t)'
  <2>0. EchoOn(t) BY DEF EchoInv
  <2>1. disp' = disp /\ Shown(t)' = Shown(t) /\ Shown(disp)' = Shown(disp) BY <1>3 DEF disp
  <2>2. file'[t] # <<>> => file[t] # <<>> OBVIOUS
  <2>3. CASE t = e
    <3>1. Clean(Image(t)') /\ Placed(Image(t)', Shown(t)') BY <1>2, <2>1, <2>3, PlacedEmpty
    <3> QED BY <2>0, <2>1, <2>2, <3>1 DEF EchoOn
  <2>4. CASE t # e
    <3>1. Image(t)' = Image(t) BY <2>4
    <3> QED BY <2>0, <2>1, <2>2, <3>1 DEF EchoOn
  <2> QED BY <2>3, <2>4
<1>5. active'[disp'] BY DEF EchoInv, disp
<1>6. out' # <<>> => Shown(curr_term)' = <<>> BY <1>3
<1> QED BY <1>4, <1>5, <1>6 DEF EchoInv

\* A character of terminal_write.
LEMMA EmitPuts ==
  ASSUME GoodInv, EchoInv, env = {}, NEW c, Emit(c), UNCHANGED <<curr_terminal_number, curr_term>>
  PROVE  /\ Image(curr_term)' = putc(Image(curr_term), c)
         /\ \A t \in Terms : t # curr_term => Image(t)' = Image(t)
         /\ CursorShown'
<1>1. DOMAIN saved = Terms /\ curr_term \in Terms /\ disp' = disp
  BY DEF GoodInv, TypeOK, disp
<1>2. PICK e, k : e = curr_term /\ k = putc(Image(e), c) OBVIOUS
<1>3. CASE OnScreen
  <2>1. screen' = k /\ saved' = saved /\ e = disp /\ cursor' = Position(screen')
    BY <1>2, <1>3 DEF Emit, OnScreen, Show, Image
  <2> QED BY <1>1, <1>2, <2>1 DEF Image, CursorShown
<1>4. CASE ~OnScreen
  <2>1. /\ screen' = screen /\ cursor' = cursor /\ e # disp
        /\ saved' = [saved EXCEPT ![e] = k]
    BY <1>2, <1>4 DEF Emit, OnScreen, Image
  <2> QED BY <1>1, <1>2, <2>1 DEF Image, CursorShown, EchoInv
<1> QED BY <1>3, <1>4

\* Output of a program.
LEMMA EchoWrite ==
  ASSUME GoodInv, EchoInv, env = {}, WriteChar
  PROVE  EchoInv'
<1>1. /\ UNCHANGED <<env, curr_terminal_number, curr_term, active, line, entered, hidden, file>>
      /\ out # <<>> /\ Emit(Head(out))
  BY DEF WriteChar, termVars, lineVars
<1>2. curr_term \in Terms /\ Shown(curr_term) = <<>> BY <1>1 DEF GoodInv, TypeOK, EchoInv
<1>3. PICK c \in Cells \cup {NL} : c = Head(out)
  <2>1. Head(out) \in Cells \cup {NL} BY <1>1 DEF GoodInv, TypeOK, Cells
  <2> QED BY <2>1
<1>4. PICK e \in Terms : e = curr_term BY <1>2
<1>5. /\ Image(e)' = putc(Image(e), c)
      /\ \A t \in Terms : t # e => Image(t)' = Image(t)
      /\ CursorShown'
  <2>1. Emit(c) BY <1>1, <1>3
  <2>2. Image(curr_term)' = Image(e)' BY <1>1, <1>4 DEF Image
  <2> QED BY <1>1, <1>4, <2>1, <2>2, EmitPuts
<1> QED BY <1>1, <1>2, <1>4, <1>5, EchoPut

\* A character of a file: nothing of a line is shown on either of the two terminals.
LEMMA EchoFile ==
  ASSUME GoodInv, EchoInv, env = {}, FileChar
  PROVE  EchoInv'
<1>1. /\ UNCHANGED <<env, curr_terminal_number, curr_term, active, line, entered, hidden>>
      /\ out' = <<>> /\ file[curr_term] # <<>>
      /\ file' = [file EXCEPT ![curr_term] = Tail(file[curr_term])]
  BY DEF FileChar, termVars, lineVars
<1>2. curr_term \in Terms /\ disp \in Terms BY DEF GoodInv, TypeOK, disp
<1>3. Shown(curr_term) = <<>> /\ Shown(disp) = <<>> BY <1>1, <1>2 DEF EchoInv, EchoOn
<1>4. \A t \in Terms : file'[t] # <<>> => file[t] # <<>>
  BY <1>1, <1>2 DEF GoodInv, TypeOK
<1>f. PICK f : f = Head(file[curr_term]) OBVIOUS
<1>5. PICK c \in Cells \cup {NL} : c = f.char
  BY <1>1, <1>f, FileHead
<1>6. CASE Emit(c)
  <2>1. PICK e \in Terms : e = curr_term BY <1>2
  <2>2. /\ Image(e)' = putc(Image(e), c)
        /\ \A t \in Terms : t # e => Image(t)' = Image(t)
        /\ CursorShown'
    <3>1. Image(curr_term)' = Image(e)' BY <1>1, <2>1 DEF Image
    <3> QED BY <1>1, <1>6, <2>1, <3>1, EmitPuts
  <2> QED BY <1>1, <1>3, <1>4, <2>1, <2>2, EchoPut
<1>7. CASE Show(putc(screen, c)) /\ UNCHANGED saved
  <2>1. PICK e \in Terms : e = disp BY <1>2
  <2>2. screen' = putc(screen, c) /\ cursor' = Position(screen') /\ saved' = saved /\ disp' = e
    BY <1>1, <1>7, <2>1 DEF Show, disp
  <2>3. /\ Image(e)' = putc(Image(e), c)
        /\ \A t \in Terms : t # e => Image(t)' = Image(t)
        /\ CursorShown'
    BY <2>1, <2>2 DEF Image, CursorShown
  <2> QED BY <1>1, <1>3, <1>4, <2>1, <2>3, EchoPut
<1> QED BY <1>f, <1>5, <1>6, <1>7 DEF FileChar

\* What the user has typed since the terminal was last cleared stands before the cursor on
\* the terminal he looks at, for every size of the screen and every line that fits on it, as
\* long as Backspace stays in its row, keys wait for the program to read the line before and
\* programs do not write into a line: also after the screen has scrolled, after output and
\* files that Ctrl-1, 2 and 3 show, and after switching away and back.
THEOREM EchoCorrect == Spec => []EchoShown
<1>1. Init => EchoInv
  <2> SUFFICES ASSUME Init PROVE EchoInv OBVIOUS
  <2>1. ASSUME NEW t \in Terms PROVE EchoOn(t)
    <3>1. line[t] = <<>> /\ hidden[t] = 0 /\ ~entered[t] /\ file[t] = <<>> /\ Image(t) = Blank
      BY DEF Init, Image
    <3>2. <<>> \in Line /\ 0 \in Nat /\ Len(<<>>) = 0 BY DEF Line
    <3>3. Rest(<<>>, 0) = <<>> BY <3>2, RestNone
    <3>4. Shown(t) = Rest(<<>>, 0) BY <3>1 DEF Shown, Rest
    <3>5. hidden[t] <= Len(line[t]) BY <3>1, <3>2
    <3> QED BY <3>1, <3>3, <3>4, <3>5, BlankClean, PlacedEmpty DEF EchoOn
  <2>2. active[disp] BY ConstantsAssumption DEF Init, disp
  <2> QED BY <2>1, <2>2 DEF Init, EchoInv, CursorShown
<1>2. GoodInv /\ EchoInv /\ [Next]_vars => EchoInv'
  <2> SUFFICES ASSUME GoodInv, EchoInv, [Next]_vars PROVE EchoInv' OBVIOUS
  <2>1. env' = env
    BY DEF Next, Handler, Key, Type, Enter, CtrlL, CtrlClear, CtrlFile, Backspace,
           BackspaceEmptyRow, BackspaceEmptyLine, BackspaceAtOrigin, SwitchActive, SwitchFresh,
           Tick, Take, WriteChar, FileChar, Write, vars
  <2>2. CASE env # {} BY <2>1, <2>2 DEF EchoInv
  <2>3. CASE env = {}
    <3>1. ASSUME NEW c \in Chars, Key(c) PROVE EchoInv' BY <2>3, <3>1, EchoType DEF Key
    <3>2. CASE BackspaceAtOrigin BY <2>3, <3>2, EchoType DEF BackspaceAtOrigin
    <3>3. CASE BackspaceEmptyRow BY <2>3, <3>3 DEF BackspaceEmptyRow
    <3>4. CASE Handler
      BY <2>3, <3>1, <3>2, <3>3, <3>4, EchoErase, EchoOther, EchoClear, EchoSwitch DEF Handler
    <3>5. CASE (\E t \in Terms : Tick(t)) \/ (\E s \in Outputs : Write(s))
      BY <2>3, <3>5, EchoProgram
    <3>6. CASE Take \/ WriteChar \/ FileChar BY <2>3, <3>6, EchoTake, EchoWrite, EchoFile
    <3>7. CASE UNCHANGED vars
      BY <2>3, <3>7
      DEF EchoInv, EchoOn, Image, Shown, CursorShown, vars, termVars, lineVars, disp
    <3> QED BY <3>4, <3>5, <3>6, <3>7 DEF Next
  <2> QED BY <2>2, <2>3
<1>3. GoodInv /\ EchoInv => EchoShown
  <2> SUFFICES ASSUME GoodInv, EchoInv, env = {}, ~entered[disp]
               PROVE  Stands(screen, Shown(disp)) /\ (screen = Blank \/ cursor = Position(screen))
    BY DEF EchoShown
  <2>1. Placed(screen, Shown(disp)) BY EchoFacts
  <2> QED BY <2>1 DEF Placed, PlacedAt, Stands, EchoInv, CursorShown
<1> QED BY <1>1, <1>2, <1>3, GoodInvariant, PTL DEF Spec
=============================================================================
