--------------------------------- MODULE Str ---------------------------------
(***************************************************************************)
(* One Str object (util/Str.{h,cpp}) under the operations that change it,  *)
(* and what the others return of it.  Data is bytes; a character is one    *)
(* byte or as many as its first byte says, by m_CharWidth.  The number of  *)
(* characters is kept in m_Length, which Append and Insert do not count    *)
(* again but add up, although the two strings may differ in m_CharWidth.   *)
(***************************************************************************)
EXTENDS Text, Integers

CONSTANTS
  Args,             \* contents and width of the Strs that are passed as arguments
  MaxBytes          \* bound: bytes of m_Data

VARIABLES
  data, length, width,   \* m_Data, m_Length, m_CharWidth
  mixed             \* history: characters of another width came in since m_Length
                    \* was last counted

strVars == <<data, length, width, mixed>>

NPOS == -1

\* How many bytes a character that begins with this byte has.
Step(byte) ==
  IF byte >= 240 THEN 4 ELSE IF byte >= 224 THEN 3 ELSE IF byte >= 192 THEN 2 ELSE 1

\* Where character pos begins, or the end for one there is not.  It lies beyond Len(s)
\* when the last character is cut off.
BytePosition(s, w, pos) ==
  IF w = "ASCII" THEN pos
  ELSE LET at[k \in 0..pos] ==
             IF k = 0 THEN 0
             ELSE LET before == at[k - 1] IN
                  IF before < Len(s) THEN before + Step(s[before + 1]) ELSE before IN
       at[pos]

CalculateLength(s, w) ==
  CHOOSE n \in 0..Len(s) :
    /\ BytePosition(s, w, n) >= Len(s)
    /\ n > 0 => BytePosition(s, w, n - 1) < Len(s)

CharactersOf(s, w) ==
  [i \in 1..CalculateLength(s, w) |->
     SubSeq(s, BytePosition(s, w, i - 1) + 1, BytePosition(s, w, i))]

-----------------------------------------------------------------------------
(* Whole characters: what a literal of the program consists of.            *)

Octet == 0..255

\* A byte of UTF-8 that no character begins with.
Continuation == 128..191

\* As many bytes as the first one says, and the others only go on.
Character ==
  {c \in Seq(Octet) : /\ c # <<>> /\ Len(c) = Step(c[1]) /\ c[1] \notin Continuation
                     /\ \A k \in 2..Len(c) : c[k] \in Continuation}

Whole(s) ==
  /\ CharactersOf(s, "UTF8") \in Seq(Character)
  /\ FlattenSeq(CharactersOf(s, "UTF8")) = s

\* std::isspace knows only bytes of ASCII: the program stays in the locale "C".  Where
\* there are strings of UTF-8, all strings are whole characters, as the literals are,
\* whatever their own width is; with CharWidth::ASCII alone they are any bytes.
ASSUME StrAssumption ==
  /\ MaxBytes \in Nat /\ Blanks \subseteq 0..127
  /\ Args \subseteq [data : Seq(Octet), width : {"ASCII", "UTF8"}]
  /\ \A arg \in Args : Len(arg.data) <= MaxBytes
  /\ \A utf8 \in Args : utf8.width = "UTF8" => \A arg \in Args : Whole(arg.data)

-----------------------------------------------------------------------------
(* The object.                                                             *)

StrInit ==
  /\ \E arg \in Args :
       /\ data = arg.data /\ width = arg.width
       /\ length = CalculateLength(arg.data, arg.width)
  /\ mixed = FALSE

MixedBy(arg) ==
  CalculateLength(arg.data, arg.width) # CalculateLength(arg.data, width)

\* Append and operator+
AppendStr(arg) ==
  /\ Len(data) + Len(arg.data) <= MaxBytes
  /\ data' = data \o arg.data
  /\ length' = length + CalculateLength(arg.data, arg.width)
  /\ mixed' = (mixed \/ MixedBy(arg))
  /\ UNCHANGED width

\* Mutant: pos is taken for a number of bytes.
InsertStrAtByte(pos, arg) ==
  /\ pos <= length
  /\ Len(data) + Len(arg.data) <= MaxBytes
  /\ data' = SubSeq(data, 1, pos) \o arg.data \o SubSeq(data, pos + 1, Len(data))
  /\ length' = length + CalculateLength(arg.data, arg.width)
  /\ mixed' = (mixed \/ MixedBy(arg))
  /\ UNCHANGED width

\* Mutant: the bytes of the argument are added to the characters.
InsertStrBytes(pos, arg) ==
  /\ pos <= length
  /\ Len(data) + Len(arg.data) <= MaxBytes
  /\ LET at == BytePosition(data, width, pos) IN
     data' = SubSeq(data, 1, at) \o arg.data \o SubSeq(data, at + 1, Len(data))
  /\ length' = length + Len(arg.data)
  /\ mixed' = (mixed \/ MixedBy(arg))
  /\ UNCHANGED width

\* Beyond m_Length it throws, and nothing changes.
InsertStr(pos, arg) ==
  /\ pos <= length
  /\ Len(data) + Len(arg.data) <= MaxBytes
  /\ LET at == BytePosition(data, width, pos) IN
     data' = SubSeq(data, 1, at) \o arg.data \o SubSeq(data, at + 1, Len(data))
  /\ length' = length + CalculateLength(arg.data, arg.width)
  /\ mixed' = (mixed \/ MixedBy(arg))
  /\ UNCHANGED width

Erase(pos, len) ==
  /\ pos < length
  /\ LET start == BytePosition(data, width, pos)
         end == IF len = NPOS THEN Len(data) ELSE BytePosition(data, width, pos + len) IN
     data' = SubSeq(data, 1, start) \o SubSeq(data, end + 1, Len(data))
  /\ length' = CalculateLength(data', width)
  /\ mixed' = FALSE
  /\ UNCHANGED width

\* m_Length is counted again only if there was a blank at the front.
TrimStr ==
  /\ data' = Trim(data)
  /\ \/ /\ Trim(data) # data
        /\ length' = CalculateLength(data', width) /\ mixed' = FALSE
     \/ Trim(data) = data /\ UNCHANGED <<length, mixed>>
  /\ UNCHANGED width

StrNext ==
  \/ \E arg \in Args : AppendStr(arg)
  \/ \E pos \in 0..length, arg \in Args : InsertStr(pos, arg)
  \/ \E pos \in 0..length : \E len \in {NPOS} \cup 1..length - pos + 1 : Erase(pos, len)
  \/ TrimStr

StrSpec == StrInit /\ [][StrNext]_strVars

-----------------------------------------------------------------------------
(* What the operations that change nothing return.                         *)

\* SubStr: the bytes returned.  Beyond the end of the data the code clips.
SubStrOf(pos, len) ==
  IF pos >= length THEN <<>>
  ELSE IF width = "ASCII"
  THEN SubSeq(data, pos + 1, IF len = NPOS THEN Len(data) ELSE Min({pos + len, Len(data)}))
  ELSE SubSeq(data, BytePosition(data, width, pos) + 1,
              IF len = NPOS THEN Len(data) ELSE BytePosition(data, width, pos + len))

\* With one byte to a character m_Length bytes are taken, with UTF-8 all the data.
Chars ==
  IF width = "ASCII" THEN [i \in 1..length |-> <<data[i]>>] ELSE CharactersOf(data, width)

-----------------------------------------------------------------------------
(* Properties                                                              *)

StrTypeOK ==
  /\ data \in Seq(Octet) /\ Len(data) <= MaxBytes
  /\ length \in 0..MaxBytes
  /\ \E arg \in Args : width = arg.width
  /\ mixed \in BOOLEAN

\* m_Length is the number of characters, unless characters of another width came in
\* and were added as that width counts them (Str.cpp:142-167).
LengthRight == ~mixed => length = CalculateLength(data, width)

\* A stale m_Length errs on the safe side: it never makes Chars or Insert leave the
\* bytes of a string of one-byte characters, nor refuse a character that a string of
\* UTF-8 has, and it counts no more than the bytes (Str.cpp:88, 105, 150, 159).
StaleLengthIsSafe ==
  /\ length <= Len(data)
  /\ width = "UTF8" => length >= CalculateLength(data, width)

\* The types, m_Length as stated above, and whole characters in a string of UTF-8.
StrInv ==
  /\ StrTypeOK /\ LengthRight /\ StaleLengthIsSafe
  /\ width = "UTF8" => Whole(data)

\* A string of UTF-8 that got whole characters consists of whole characters, and SubStr
\* and Chars return whole characters of it, whatever m_Length says (Str.cpp:28-43, 83-135).
WholeCharacters ==
  width = "UTF8" =>
    LET chars == CharactersOf(data, width) IN
    /\ FlattenSeq(Chars) = data /\ chars \in Seq(Character)
    /\ \A pos \in 0..length, len \in {NPOS} \cup 0..Len(data) :
         SubStrOf(pos, len) =
           FlattenSeq(SubSeq(chars, pos + 1,
             IF len = NPOS THEN Len(chars) ELSE Min({pos + len, Len(chars)})))

\* A Str is a sequence of characters: no operation tears one, and Trim takes nothing
\* but blanks from the ends, also when m_Length is stale.
Characters == INSTANCE CharString WITH
  Texts <- {CharactersOf(arg.data, w) : arg \in Args, w \in {"ASCII", "UTF8"}},
  BlankChars <- {<<b>> : b \in Blanks},
  chars <- CharactersOf(data, width)

ImplementsCharacters == Characters!Spec
==============================================================================
