------------------------------ MODULE MCFraming ------------------------------
(* Framing for TLC: bytes below 4 and headers of three bytes, so that a      *)
(* length is a number of six bits, from -32 to 31.                           *)
EXTENDS Framing

OfLength(n, byte) == [k \in 1..n |-> byte]

\* A short message, an empty one, one whose end is the first that is no int, one
\* whose length is negative, one whose end is zero, and one of length zero modulo 64.
MCMessages ==
  {OfLength(0, 0), OfLength(5, 3), OfLength(29, 2), OfLength(32, 0),
   OfLength(61, 1), OfLength(64, 3)}
==============================================================================
