-------------------------------- MODULE MCStr --------------------------------
(* Str for TLC: characters of one, two and three bytes, and a blank.         *)
EXTENDS Str

MCBlanks == {9, 10, 11, 12, 13, 32}

\* Two bytes of UTF-8, "a" and three bytes, blanks around a character: each as a string
\* of either width, as the literals in bin/test.cpp are.
MCArgs ==
  {[data |-> d, width |-> w] :
     d \in {<<195, 169>>, <<97, 228, 189, 160>>, <<32, 97, 32>>}, w \in {"ASCII", "UTF8"}}
==============================================================================
