----------------------------- MODULE MCKeyboard -----------------------------
(***************************************************************************)
(* What the invariants of the run with every user depend on.  No guard of  *)
(* the keyboard, and none of those invariants, reads where the echo stands *)
(* or what was copied, and the buffer that the displayed terminal saved    *)
(* last is overwritten before it is read again; states that differ in      *)
(* nothing else are one.                                                   *)
(***************************************************************************)
EXTENDS Keyboard

SavedLine(t) == IF t = disp THEN <<>> ELSE <<input_buf[t], keyboard_index[t]>>

WhatIsRead == <<keyboard_buf, keyboard_idx, term_enter, [t \in Terms |-> SavedLine(t)],
                termVars, pc, nbytes, i, j, count>>
=============================================================================
