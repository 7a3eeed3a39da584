-------------------------------- MODULE Text --------------------------------
(***************************************************************************)
(* The lines of a text, a sequence of characters in which "NL" ends a      *)
(* line: the reference for the programs that read text files.              *)
(***************************************************************************)
EXTENDS Integers, Sequences, FiniteSets, SequencesExt

Starts(t) == {k \in 1 .. Len(t) : k = 1 \/ t[k - 1] = "NL"}

LineAt(t, k) ==
  LET e == CHOOSE e \in k .. Len(t) + 1 :
             (e = Len(t) + 1 \/ t[e] = "NL") /\ \A j \in k .. e - 1 : t[j] # "NL"
  IN  SubSeq(t, k, e - 1)

(* Lines are numbered from 0: as many lines end before a place.             *)
LineNumber(t, k) == Cardinality({j \in 1 .. k - 1 : t[j] = "NL"})

(* A line by its number; behind the last one there are empty ones.          *)
Line(t, r) ==
  IF \E s \in Starts(t) : LineNumber(t, s) = r
    THEN LineAt(t, CHOOSE s \in Starts(t) : LineNumber(t, s) = r)
    ELSE <<>>
=============================================================================
