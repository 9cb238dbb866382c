----------------------------- MODULE CharString ------------------------------
(***************************************************************************)
(* What a Str promises to those who change it: a sequence of characters.   *)
(* A change puts whole characters in at one place, or takes a run of whole *)
(* characters out; trimming takes only blanks, and only from the ends.     *)
(***************************************************************************)
EXTENDS Naturals, Sequences

CONSTANTS
  Texts,            \* the sequences of characters that may be put in
  BlankChars        \* the characters that are blanks

VARIABLE chars

PutIn(now, then) ==
  \E pos \in 0..Len(now), text \in Texts :
    then = SubSeq(now, 1, pos) \o text \o SubSeq(now, pos + 1, Len(now))

TakeOut(now, then) ==
  \E pos \in 0..Len(now) : \E n \in 0..Len(now) - pos :
    then = SubSeq(now, 1, pos) \o SubSeq(now, pos + n + 1, Len(now))

TrimEnds(now, then) ==
  \E first \in 1..Len(now) + 1, last \in 0..Len(now) :
    /\ \A i \in 1..Len(now) : i \notin first..last => now[i] \in BlankChars
    /\ then = SubSeq(now, first, last)

Next ==
  \E now \in {chars}, then \in {chars'} :
    PutIn(now, then) \/ TakeOut(now, then) \/ TrimEnds(now, then)

Spec == chars \in Texts /\ [][Next]_chars
==============================================================================
