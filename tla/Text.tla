-------------------------------- MODULE Text ---------------------------------
(***************************************************************************)
(* The operations of Str (util/Str.{h,cpp}) that the server uses, with one *)
(* byte for a character (CharWidth::ASCII).  A string is a sequence; its   *)
(* elements stand for bytes, or for words that the program never takes     *)
(* apart.  Every delimiter of the program is one byte.                     *)
(***************************************************************************)
EXTENDS Naturals, FiniteSetsExt, SequencesExt

CONSTANT Blanks     \* the bytes for which std::isspace is true

\* The parts found so far, after the next byte.
AddByte(parts, byte, delimiter) ==
  IF byte = delimiter THEN Append(parts, <<>>)
  ELSE [parts EXCEPT ![Len(parts)] = Append(@, byte)]

Split(s, delimiter) ==
  FoldLeft(LAMBDA parts, byte : AddByte(parts, byte, delimiter), <<<<>>>>, s)

\* Empty when pos lies beyond the end, as size() - 1 of an empty string does.
SubStr(s, pos, len) ==
  IF pos \in 0..Len(s) - 1 THEN SubSeq(s, pos + 1, Min({pos + len, Len(s)})) ELSE <<>>

At(s, index) == SubStr(s, index, 1)

Solid(s) == {i \in 1..Len(s) : s[i] \notin Blanks}

\* Nothing is done unless there is a blank at the front, and then one byte after the
\* last that is not blank is kept.
Trim(s) ==
  IF s = <<>> \/ s[1] \notin Blanks THEN s
  ELSE IF Solid(s) = {} THEN <<>>
  ELSE SubSeq(s, Min(Solid(s)), Min({Max(Solid(s)) + 1, Len(s)}))
==============================================================================
