------------------------------- MODULE MCLib --------------------------------
(***************************************************************************)
(* Memories for the run of module Lib: different bytes with a 0 in some    *)
(* places, bytes of both signs included, and repeated texts, of which      *)
(* strncmp finds equal and different ones.                                 *)
(***************************************************************************)
EXTENDS Lib

Distinct(zeros) == [a \in Addr |-> IF a \in zeros THEN NUL ELSE 100 + 10 * a]

Repeated(zeros) == [a \in Addr |-> IF a \in zeros THEN NUL ELSE 127 + (a % 2)]

MCMemories == {Distinct({M - 1}), Distinct({3, M - 1}), Distinct({4, 7}),
               Repeated({5, M - 1}), Repeated({3, 4, M - 1})}
=============================================================================
