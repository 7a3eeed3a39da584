------------------------------- MODULE MCFiles -------------------------------
(***************************************************************************)
(* A directory for the runs of module Files: the directory itself, the     *)
(* clock, and two files, one of which has a name that fills the 32         *)
(* characters of an entry, as fsdir/verylargetextwithverylongname.txt has. *)
(***************************************************************************)
EXTENDS Files

DirLong == <<[name |-> ".", type |-> "DIR", length |-> 0],
             [name |-> "rtc", type |-> "RTC", length |-> 0],
             [name |-> "frame0.txt", type |-> "FILE", length |-> 1],
             [name |-> "verylongname", type |-> "FILE", length |-> 1]>>

LongName == {"verylongname"}

(* Programs that take turns and open short names; programs that open long   *)
(* names and leave listings unfinished; programs that list together.        *)
ThreeEnvs == {{}, {"long_name", "partial_list"}, {"two_listers", "partial_list"}}
=============================================================================
