------------------------------ MODULE MCConsole ------------------------------
(***************************************************************************)
(* Strings and surroundings for the run of module Console.                 *)
(***************************************************************************)
EXTENDS Console

OutputsLine == {<<"a", NL>>}

(* Ctrl-1 with one file: its name, and a new line.  Ctrl-2 with an empty    *)
(* file: a new line, "file_name:" and the name.                             *)
Direct(c, on)  == [char |-> c, direct |-> TRUE, on |-> on]
ByWrite(c, on) == [char |-> c, direct |-> FALSE, on |-> on]

OneFile == {<<ByWrite("a", FALSE), Direct(NL, TRUE)>>,
            <<Direct(NL, FALSE), ByWrite("a", FALSE), ByWrite("a", TRUE)>>}

(* Users and programs that keep to the rules, and others that do not.       *)
TwoEnvs == {{}, EnvKinds}

(* The console that the displayed terminal saved last is overwritten before *)
(* it is read again; states that differ in nothing else are one.            *)
WhatIsRead == <<env, screen, [t \in Terms \ {disp} |-> saved[t]], cursor, termVars, lineVars, out,
                file>>
=============================================================================
