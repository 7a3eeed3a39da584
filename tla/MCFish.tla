------------------------------- MODULE MCFish -------------------------------
EXTENDS Fish

(* Lines of equal and of different length, one file with more lines, blank  *)
(* lines, a last line without an end, more rows than the screen has, and a  *)
(* picture that the mark lies in.                                           *)
MCPictures == {
  << <<"a", "NL", "b", "NL">>, <<"c", "d", "NL", " ", "e">> >>,
  << <<"a">>, <<"NL", " ", "c", "NL", "NL", "d", "NL">> >>,
  << <<"NL", "a", "NL", "NL", "b", "NL">>, <<>> >> }
=============================================================================
