--------------------------- MODULE HttpRouterProofs ---------------------------
(***************************************************************************)
(* Proofs about HttpRouter, HttpRequest and Text, for any number of        *)
(* threads, any patterns and requests of any length: what a message is     *)
(* split and parsed to, that RouterInv is inductive and with it every      *)
(* request gets the first pattern that fits, and that the race for the     *)
(* split form of the patterns ends.                                        *)
(*                                                                         *)
(* What a fold computes for every input is proved by induction without the *)
(* library's theorems that take an operator: LeastNatural and AllSequences *)
(* of QueueLemmas state induction about a set.                             *)
(***************************************************************************)
EXTENDS HttpRouter, QueueLemmas

-----------------------------------------------------------------------------
(* Splitting a text at a delimiter (util/Str.cpp:70-81).                   *)

\* The value that Split has after the bytes at the places in t: FoldLeft is defined by a
\* recursive function on sets of places, of which this is the equation.
SplitIter(s, d, n, f) ==
  f = [t \in SUBSET (1..n) |->
         IF t = {} THEN <<<<>>>> ELSE AddByte(f[t \ {Max(t)}], s[Max(t)], d)]

\* There is such a function, by induction on the number of bytes.
LEMMA SplitIterExists ==
  ASSUME NEW s, NEW d, NEW n \in Nat
  PROVE  \E f : SplitIter(s, d, n, f)
<1> DEFINE T == {k \in Nat : ~ \E f : SplitIter(s, d, k, f)}
<1>1. SUFFICES ASSUME T # {} PROVE FALSE
  OBVIOUS
<1>2. PICK k \in T : \A m \in T : k <= m
  BY <1>1, LeastNatural
<1>3. k # 0
  <2>1. SplitIter(s, d, 0, [t \in SUBSET (1..0) |-> <<<<>>>>])
    BY DEF SplitIter
  <2> QED BY <2>1
<1>4. PICK j \in Nat : k = j + 1
  BY <1>3
<1>5. PICK g : SplitIter(s, d, j, g)
  <2>1. j \notin T
    <3> HIDE DEF T
    <3> QED BY <1>2, <1>4
  <2> QED BY <2>1
<1> DEFINE h == [t \in SUBSET (1..k) |->
                   IF k \in t THEN AddByte(g[t \ {k}], s[k], d) ELSE g[t]]
<1>6. SplitIter(s, d, k, h)
  <2>1. ASSUME NEW t \in SUBSET (1..k)
        PROVE  h[t] = IF t = {} THEN <<<<>>>>
                      ELSE AddByte(h[t \ {Max(t)}], s[Max(t)], d)
    <3>1. CASE k \in t
      <4>1. Max(t) = k
        BY <3>1, <1>4, GreatestOf
      <4>2. t \ {k} \in SUBSET (1..j) /\ k \notin t \ {k} /\ t \ {k} \in SUBSET (1..k)
        BY <1>4
      <4>3. h[t \ {k}] = g[t \ {k}]
        BY <4>2
      <4> QED BY <3>1, <4>1, <4>3
    <3>2. CASE k \notin t /\ t # {}
      <4>1. t \in SUBSET (1..j)
        BY <3>2, <1>4
      <4>2. Max(t) \in t
        BY <4>1, <3>2, GreatestIn
      <4>3. t \ {Max(t)} \in SUBSET (1..j) /\ t \ {Max(t)} \in SUBSET (1..k) /\ k \notin t \ {Max(t)}
        BY <4>1, <3>2
      <4>4. g[t] = AddByte(g[t \ {Max(t)}], s[Max(t)], d)
        BY <1>5, <4>1, <3>2 DEF SplitIter
      <4>5. h[t] = g[t] /\ h[t \ {Max(t)}] = g[t \ {Max(t)}]
        BY <3>2, <4>3
      <4> QED BY <3>2, <4>4, <4>5
    <3>3. CASE t = {}
      <4>1. g[{}] = <<<<>>>>
        BY <1>5 DEF SplitIter
      <4> QED BY <3>3, <4>1
    <3> QED BY <3>1, <3>2, <3>3
  <2> HIDE DEF h
  <2>2. h = [t \in SUBSET (1..k) |-> h[t]]
    BY DEF h
  <2> QED BY <2>1, <2>2, Zenon DEF SplitIter
<1> QED BY <1>2, <1>6

\* Split is its value at the set of all places.
LEMMA SplitIterated ==
  ASSUME NEW s, NEW d, Len(s) \in Nat, DOMAIN s = 1..Len(s)
  PROVE  \E f : SplitIter(s, d, Len(s), f) /\ Split(s, d) = f[1..Len(s)]
<1> DEFINE P(g) == g = [t \in SUBSET (1..Len(s)) |->
         IF t = {} THEN <<<<>>>> ELSE AddByte(g[t \ {Max(t)}], s[Max(t)], d)]
      f == CHOOSE g : P(g)
<1>0. \E g : P(g)
  <2>1. PICK g : SplitIter(s, d, Len(s), g)
    BY SplitIterExists
  <2>2. P(g)
    BY <2>1, Zenon DEF SplitIter
  <2> HIDE DEF P
  <2> QED BY <2>2
<1>1. P(f)
  <2> HIDE DEF P
  <2> QED BY <1>0
<1>2. Split(s, d) = f[1..Len(s)]
  BY DEF Split, FoldLeft, MapThenFoldSet
<1>3. SplitIter(s, d, Len(s), f)
  <2> HIDE DEF f
  <2> QED BY <1>1 DEF SplitIter
<1> QED BY <1>3, <1>2

\* The byte at j + 1 is added to what the j bytes before it gave.
LEMMA SplitIterStep ==
  ASSUME NEW s, NEW d, NEW n \in Nat, NEW f, SplitIter(s, d, n, f), NEW j \in 0..n - 1
  PROVE  f[1..j + 1] = AddByte(f[1..j], s[j + 1], d)
<1> DEFINE t == 1..j + 1
<1>1. j + 1 \in t /\ \A i \in t : i \in 1..n
  OBVIOUS
<1>2. Max(t) = j + 1
  BY GreatestOf
<1>3. t \ {j + 1} = 1..j
  OBVIOUS
<1> HIDE DEF t
<1>4. f[t] = AddByte(f[t \ {Max(t)}], s[Max(t)], d)
  BY <1>1 DEF SplitIter
<1> QED BY <1>2, <1>3, <1>4 DEF t

\* Two texts with the same first n bytes are split alike up to there.
LEMMA SplitIterSame ==
  ASSUME NEW s, NEW z, NEW d, NEW n \in Nat, NEW m \in Nat, NEW f, NEW g, n <= m,
         SplitIter(s, d, n, f), SplitIter(z, d, m, g), \A i \in 1..n : s[i] = z[i]
  PROVE  \A k \in 0..n : f[1..k] = g[1..k]
<1> DEFINE T == {k \in 0..n : f[1..k] # g[1..k]}
<1>1. SUFFICES ASSUME T # {} PROVE FALSE
  OBVIOUS
<1>a. T \in SUBSET Nat
  OBVIOUS
<1>2. PICK k \in T : \A j \in T : k <= j
  BY <1>1, <1>a, LeastNatural
<1>3. k # 0
  <2>1. f[{}] = g[{}]
    BY DEF SplitIter
  <2> QED BY <2>1
<1>4. PICK j \in 0..n : k = j + 1
  BY <1>3
<1>5. f[1..j] = g[1..j]
  <2>1. j \notin T
    <3> HIDE DEF T
    <3> QED BY <1>2, <1>4
  <2> QED BY <2>1
<1>6. k \in 1..n /\ k = j + 1 /\ f[1..k] # g[1..k]
  BY <1>4
<1> HIDE DEF T
<1>7. f[1..k] = AddByte(f[1..j], s[k], d)
  BY <1>6, SplitIterStep
<1>8. g[1..k] = AddByte(g[1..j], z[k], d)
  BY <1>6, SplitIterStep
<1> QED BY <1>5, <1>6, <1>7, <1>8

\* The empty text has one part, which is empty.
LEMMA SplitEmpty == ASSUME NEW d PROVE Split(<<>>, d) = <<<<>>>>
<1>1. Len(<<>>) = 0 /\ DOMAIN <<>> = 1..0 /\ 1..0 = {}
  OBVIOUS
<1>2. PICK f : SplitIter(<<>>, d, 0, f) /\ Split(<<>>, d) = f[{}]
  BY <1>1, SplitIterated
<1> QED BY <1>1, <1>2 DEF SplitIter

\* Appending a byte to a text adds it to the text's parts (util/Str.cpp:70-81).
LEMMA SplitAppend ==
  ASSUME NEW S, NEW s \in Seq(S), NEW b \in S, NEW d
  PROVE  Split(Append(s, b), d) = AddByte(Split(s, d), b, d)
<1> DEFINE z == Append(s, b)
           n == Len(s)
<1>1. /\ n \in Nat /\ DOMAIN s = 1..n
      /\ Len(z) = n + 1 /\ DOMAIN z = 1..n + 1
      /\ \A i \in 1..n : z[i] = s[i]
      /\ z[n + 1] = b
  OBVIOUS
<1>a. n + 1 \in Nat /\ n <= n + 1 /\ n \in 0..(n + 1) - 1 /\ \A i \in 1..n : s[i] = z[i]
  BY <1>1
<1> HIDE DEF z, n
<1>2. PICK f : SplitIter(s, d, n, f) /\ Split(s, d) = f[1..n]
  BY <1>1, SplitIterated DEF n
<1>3. PICK g : SplitIter(z, d, n + 1, g) /\ Split(z, d) = g[1..n + 1]
  BY <1>1, SplitIterated
<1>4. f[1..n] = g[1..n]
  <2>0. /\ n \in Nat /\ n + 1 \in Nat /\ n <= n + 1
        /\ SplitIter(s, d, n, f) /\ SplitIter(z, d, n + 1, g)
        /\ \A i \in 1..n : s[i] = z[i]
    BY <1>1, <1>a, <1>2, <1>3
  <2>1. \A k \in 0..n : f[1..k] = g[1..k]
    BY ONLY <2>0, SplitIterSame
  <2> QED BY <1>1, <2>1
<1>6. g[1..n + 1] = AddByte(g[1..n], z[n + 1], d)
  BY <1>1, <1>a, <1>3, SplitIterStep
<1> QED BY <1>1, <1>2, <1>3, <1>4, <1>6 DEF z

\* A byte is added to the last part.
LEMMA AddByteType ==
  ASSUME NEW S, NEW p \in Seq(Seq(S)), p # <<>>, NEW b \in S, NEW d
  PROVE  AddByte(p, b, d) \in Seq(Seq(S)) /\ AddByte(p, b, d) # <<>>
<1>1. CASE b = d
  BY <1>1, EmptySeq, AppendProperties DEF AddByte
<1>2. CASE b # d
  <2>1. Len(p) \in 1..Len(p)
    BY EmptySeq, LenProperties
  <2>2. p[Len(p)] \in Seq(S)
    BY <2>1, ElementOfSeq
  <2>3. Append(p[Len(p)], b) \in Seq(S)
    BY <2>2, AppendProperties
  <2>4. AddByte(p, b, d) = [p EXCEPT ![Len(p)] = Append(p[Len(p)], b)]
    BY <1>2 DEF AddByte
  <2> DEFINE e == Append(p[Len(p)], b)
             q == [p EXCEPT ![Len(p)] = e]
  <2>5. q \in Seq(Seq(S)) /\ Len(q) = Len(p)
    <3> HIDE DEF e
    <3> QED BY <2>1, <2>3, ExceptSeq DEF e
  <2>6. q # <<>>
    <3> HIDE DEF q
    <3> QED BY <2>1, <2>5
  <2> QED BY <2>4, <2>5, <2>6
<1> QED BY <1>1, <1>2

\* Parts on the left are not touched by a byte that is added.
LEMMA AddByteConcat ==
  ASSUME NEW S, NEW o \in Seq(Seq(S)), NEW p \in Seq(Seq(S)), p # <<>>, NEW b \in S, NEW d
  PROVE  AddByte(o \o p, b, d) = o \o AddByte(p, b, d)
<1> DEFINE W == Seq(S)
<1>0. o \in Seq(W) /\ p \in Seq(W) /\ <<>> \in W
  BY EmptySeq
<1>1. CASE b = d
  <2>1. PICK V : V = Seq(S)
    OBVIOUS
  <2>2. o \in Seq(V) /\ p \in Seq(V)
    BY <2>1
  <2>3. Append(o \o p, <<>>) = o \o Append(p, <<>>)
    BY ONLY <2>1, <2>2, AppendEmpty
  <2> QED BY <1>1, <2>3 DEF AddByte
<1>2. CASE b # d
  <2>1. Len(p) \in 1..Len(p) /\ Len(o \o p) = Len(o) + Len(p)
        /\ (o \o p)[Len(o) + Len(p)] = p[Len(p)]
    BY EmptySeq, LenProperties, ConcatProperties
  <2> DEFINE e == Append(p[Len(p)], b)
  <2>2. e \in Seq(S)
    BY <2>1, ElementOfSeq, AppendProperties
  <2>3. e \in W
    BY <2>2
  <2> HIDE DEF e, W
  <2> DEFINE i == Len(p)
  <2>a. i \in 1..Len(p)
    BY <2>1
  <2> HIDE DEF i
  <2>b. [o \o p EXCEPT ![Len(o) + i] = e] = o \o [p EXCEPT ![i] = e]
    BY ONLY <1>0, <2>a, <2>3, ChangeInConcat
  <2>4. [o \o p EXCEPT ![Len(o) + Len(p)] = e] = o \o [p EXCEPT ![Len(p)] = e]
    BY <2>b DEF i
  <2> QED BY <1>2, <2>1, <2>4 DEF AddByte, e
<1> QED BY <1>1, <1>2

\* A text always has at least one part.
LEMMA SplitType ==
  ASSUME NEW S, NEW s \in Seq(S), NEW d
  PROVE  Split(s, d) \in Seq(Seq(S)) /\ Split(s, d) # <<>>
<1> DEFINE T == {z \in Seq(S) : Split(z, d) \in Seq(Seq(S)) /\ Split(z, d) # <<>>}
<1>1. <<>> \in T
  <2>1. \A z \in Seq(S) : (Split(z, d) \in Seq(Seq(S)) /\ Split(z, d) # <<>>) => z \in T
    OBVIOUS
  <2> HIDE DEF T
  <2>2. PICK z \in Seq(S) : z = <<>>
    BY EmptySeq
  <2>3. <<z>> \in Seq(Seq(S)) /\ <<z>> # <<>>
    OBVIOUS
  <2>4. Split(z, d) = <<z>>
    BY <2>2, SplitEmpty
  <2> QED BY <2>1, <2>2, <2>3, <2>4, Zenon
<1>2. \A z \in Seq(S), b \in S : z \in T => Append(z, b) \in T
  BY AppendProperties, SplitAppend, AddByteType
<1> HIDE DEF T
<1>3. s \in T
  BY <1>1, <1>2, AllSequences
<1> QED BY <1>3 DEF T

\* A text without the delimiter is one part, ...
LEMMA SplitNone ==
  ASSUME NEW S, NEW d, d \notin S, NEW s \in Seq(S)
  PROVE  Split(s, d) = <<s>>
<1> DEFINE T == {z \in Seq(S) : Split(z, d) = <<z>>}
<1>1. <<>> \in T
  <2>1. Split(<<>>, d) = <<<<>>>> /\ <<>> \in Seq(S)
    BY SplitEmpty, EmptySeq
  <2>2. \A z \in Seq(S) : Split(z, d) = <<z>> => z \in T
    OBVIOUS
  <2> HIDE DEF T
  <2>3. PICK z \in Seq(S) : z = <<>>
    BY <2>1
  <2>4. Split(z, d) = <<z>>
    BY <2>1, <2>3
  <2>5. z \in T
    BY <2>2, <2>4
  <2> QED BY <2>3, <2>5, Zenon
<1>2. ASSUME NEW z \in Seq(S), NEW b \in S, z \in T PROVE Append(z, b) \in T
  <2>1. b # d /\ Append(z, b) \in Seq(S)
    BY AppendProperties
  <2>2. AddByte(<<z>>, b, d) = <<Append(z, b)>>
    BY <2>1 DEF AddByte
  <2> QED BY <1>2, <2>1, <2>2, SplitAppend
<1> HIDE DEF T
<1>3. s \in T
  BY <1>1, <1>2, AllSequences
<1> QED BY <1>3 DEF T

\* ... and a delimiter separates what is on its left from what is on its right.
LEMMA SplitConcat ==
  ASSUME NEW S, NEW d \in S, NEW a \in Seq(S), NEW s \in Seq(S)
  PROVE  Split(a \o <<d>> \o s, d) = Split(a, d) \o Split(s, d)
<1> DEFINE T == {z \in Seq(S) : Split(a \o <<d>> \o z, d) = Split(a, d) \o Split(z, d)}
           o == Split(a, d)
           ad == a \o <<d>>
<1>0. o \in Seq(Seq(S)) /\ ad \in Seq(S) /\ ad = Append(a, d)
  BY SplitType
<1>1. <<>> \in T
  <2>1. ad \o <<>> = ad
    BY <1>0
  <2>2. Split(ad, d) = Append(o, <<>>)
    <3>1. Split(Append(a, d), d) = AddByte(o, d, d)
      BY SplitAppend
    <3> QED BY <1>0, <3>1 DEF AddByte
  <2>3. Append(o, <<>>) = o \o <<<<>>>>
    BY <1>0
  <2> QED BY <2>1, <2>2, <2>3, SplitEmpty, EmptySeq
<1>2. ASSUME NEW z \in Seq(S), NEW b \in S, z \in T PROVE Append(z, b) \in T
  <2> HIDE DEF o
  <2>1. ad \o Append(z, b) = Append(ad \o z, b) /\ ad \o z \in Seq(S) /\ Append(z, b) \in Seq(S)
    BY <1>0
  <2>2. Split(ad \o Append(z, b), d) = AddByte(Split(ad \o z, d), b, d)
    BY <2>1, SplitAppend
  <2>3. Split(ad \o z, d) = o \o Split(z, d)
    BY <1>2 DEF o
  <2>4. AddByte(o \o Split(z, d), b, d) = o \o AddByte(Split(z, d), b, d)
    BY <1>0, SplitType, AddByteConcat
  <2>5. AddByte(Split(z, d), b, d) = Split(Append(z, b), d)
    BY SplitAppend
  <2> QED BY <2>1, <2>2, <2>3, <2>4, <2>5 DEF o
<1> HIDE DEF T
<1>3. s \in T
  BY <1>1, <1>2, AllSequences
<1> QED BY <1>3 DEF T

-----------------------------------------------------------------------------
(* Parsing a message line by line (http/HttpRequest.cpp:7-44).             *)

\* The same for the lines of a message: the request after the lines at the places in t.
ParseIter(s, n, f) ==
  f = [t \in SUBSET (1..n) |->
         IF t = {} THEN DefaultRequest ELSE ParseLine(f[t \ {Max(t)}], s[Max(t)])]

\* The request that the lines of a message make (http/HttpRequest.cpp:14-43).
ParseLines(lines) == FoldLeft(ParseLine, DefaultRequest, lines)

\* There is such a function, by induction on the number of lines.
LEMMA ParseIterExists ==
  ASSUME NEW s, NEW n \in Nat
  PROVE  \E f : ParseIter(s, n, f)
<1> DEFINE T == {k \in Nat : ~ \E f : ParseIter(s, k, f)}
<1>1. SUFFICES ASSUME T # {} PROVE FALSE
  OBVIOUS
<1>2. PICK k \in T : \A m \in T : k <= m
  BY <1>1, LeastNatural
<1>3. k # 0
  <2>1. ParseIter(s, 0, [t \in SUBSET (1..0) |-> DefaultRequest])
    BY DEF ParseIter
  <2> QED BY <2>1
<1>4. PICK j \in Nat : k = j + 1
  BY <1>3
<1>5. PICK g : ParseIter(s, j, g)
  <2>1. j \notin T
    <3> HIDE DEF T
    <3> QED BY <1>2, <1>4
  <2> QED BY <2>1
<1> DEFINE h == [t \in SUBSET (1..k) |->
                   IF k \in t THEN ParseLine(g[t \ {k}], s[k]) ELSE g[t]]
<1>6. ParseIter(s, k, h)
  <2>1. ASSUME NEW t \in SUBSET (1..k)
        PROVE  h[t] = IF t = {} THEN DefaultRequest
                      ELSE ParseLine(h[t \ {Max(t)}], s[Max(t)])
    <3>1. CASE k \in t
      <4>1. Max(t) = k
        BY <3>1, <1>4, GreatestOf
      <4>2. t \ {k} \in SUBSET (1..j) /\ k \notin t \ {k} /\ t \ {k} \in SUBSET (1..k)
        BY <1>4
      <4>3. h[t \ {k}] = g[t \ {k}]
        BY <4>2
      <4> QED BY <3>1, <4>1, <4>3
    <3>2. CASE k \notin t /\ t # {}
      <4>1. t \in SUBSET (1..j)
        BY <3>2, <1>4
      <4>2. Max(t) \in t
        BY <4>1, <3>2, GreatestIn
      <4>3. t \ {Max(t)} \in SUBSET (1..j) /\ t \ {Max(t)} \in SUBSET (1..k) /\ k \notin t \ {Max(t)}
        BY <4>1, <3>2
      <4>4. g[t] = ParseLine(g[t \ {Max(t)}], s[Max(t)])
        BY <1>5, <4>1, <3>2 DEF ParseIter
      <4>5. h[t] = g[t] /\ h[t \ {Max(t)}] = g[t \ {Max(t)}]
        BY <3>2, <4>3
      <4> QED BY <3>2, <4>4, <4>5
    <3>3. CASE t = {}
      <4>1. g[{}] = DefaultRequest
        BY <1>5 DEF ParseIter
      <4> QED BY <3>3, <4>1
    <3> QED BY <3>1, <3>2, <3>3
  <2> HIDE DEF h
  <2>2. h = [t \in SUBSET (1..k) |-> h[t]]
    BY DEF h
  <2> QED BY <2>1, <2>2, Zenon DEF ParseIter
<1> QED BY <1>2, <1>6

\* ParseLines is its value at the set of all places.
LEMMA ParseIterated ==
  ASSUME NEW s, Len(s) \in Nat, DOMAIN s = 1..Len(s)
  PROVE  \E f : ParseIter(s, Len(s), f) /\ ParseLines(s) = f[1..Len(s)]
<1> DEFINE P(g) == g = [t \in SUBSET (1..Len(s)) |->
         IF t = {} THEN DefaultRequest ELSE ParseLine(g[t \ {Max(t)}], s[Max(t)])]
      f == CHOOSE g : P(g)
<1>0. \E g : P(g)
  <2>1. PICK g : ParseIter(s, Len(s), g)
    BY ParseIterExists
  <2>2. P(g)
    BY <2>1, Zenon DEF ParseIter
  <2> HIDE DEF P
  <2> QED BY <2>2
<1>1. P(f)
  <2> HIDE DEF P
  <2> QED BY <1>0
<1>2. ParseLines(s) = f[1..Len(s)]
  BY DEF ParseLines, FoldLeft, MapThenFoldSet
<1>3. ParseIter(s, Len(s), f)
  <2> HIDE DEF f
  <2> QED BY <1>1 DEF ParseIter
<1> QED BY <1>3, <1>2

\* The line at j + 1 is parsed after the j lines before it.
LEMMA ParseIterStep ==
  ASSUME NEW s, NEW n \in Nat, NEW f, ParseIter(s, n, f), NEW j \in 0..n - 1
  PROVE  f[1..j + 1] = ParseLine(f[1..j], s[j + 1])
<1> DEFINE t == 1..j + 1
<1>1. j + 1 \in t /\ \A i \in t : i \in 1..n
  OBVIOUS
<1>2. Max(t) = j + 1
  BY GreatestOf
<1>3. t \ {j + 1} = 1..j
  OBVIOUS
<1> HIDE DEF t
<1>4. f[t] = ParseLine(f[t \ {Max(t)}], s[Max(t)])
  BY <1>1 DEF ParseIter
<1> QED BY <1>2, <1>3, <1>4 DEF t

\* Two messages with the same first n lines are parsed alike up to there.
LEMMA ParseIterSame ==
  ASSUME NEW s, NEW z, NEW n \in Nat, NEW m \in Nat, NEW f, NEW g, n <= m,
         ParseIter(s, n, f), ParseIter(z, m, g), \A i \in 1..n : s[i] = z[i]
  PROVE  \A k \in 0..n : f[1..k] = g[1..k]
<1> DEFINE T == {k \in 0..n : f[1..k] # g[1..k]}
<1>1. SUFFICES ASSUME T # {} PROVE FALSE
  OBVIOUS
<1>a. T \in SUBSET Nat
  OBVIOUS
<1>2. PICK k \in T : \A j \in T : k <= j
  BY <1>1, <1>a, LeastNatural
<1>3. k # 0
  <2>1. f[{}] = g[{}]
    BY DEF ParseIter
  <2> QED BY <2>1
<1>4. PICK j \in 0..n : k = j + 1
  BY <1>3
<1>5. f[1..j] = g[1..j]
  <2>1. j \notin T
    <3> HIDE DEF T
    <3> QED BY <1>2, <1>4
  <2> QED BY <2>1
<1>6. k \in 1..n /\ k = j + 1 /\ f[1..k] # g[1..k]
  BY <1>4
<1> HIDE DEF T
<1>7. f[1..k] = ParseLine(f[1..j], s[k])
  BY <1>6, ParseIterStep
<1>8. g[1..k] = ParseLine(g[1..j], z[k])
  BY <1>6, ParseIterStep
<1> QED BY <1>5, <1>6, <1>7, <1>8

\* No line leaves the request as it was constructed.
LEMMA ParseLinesEmpty == ParseLines(<<>>) = DefaultRequest
<1>1. Len(<<>>) = 0 /\ DOMAIN <<>> = 1..0 /\ 1..0 = {}
  OBVIOUS
<1>2. PICK f : ParseIter(<<>>, 0, f) /\ ParseLines(<<>>) = f[{}]
  BY <1>1, ParseIterated
<1> QED BY <1>1, <1>2 DEF ParseIter

\* A line that is appended is parsed last.
LEMMA ParseLinesAppend ==
  ASSUME NEW S, NEW s \in Seq(S), NEW b \in S
  PROVE  ParseLines(Append(s, b)) = ParseLine(ParseLines(s), b)
<1> DEFINE z == Append(s, b)
           n == Len(s)
<1>1. /\ n \in Nat /\ DOMAIN s = 1..n
      /\ Len(z) = n + 1 /\ DOMAIN z = 1..n + 1
      /\ \A i \in 1..n : z[i] = s[i]
      /\ z[n + 1] = b
  OBVIOUS
<1>a. n + 1 \in Nat /\ n <= n + 1 /\ n \in 0..(n + 1) - 1 /\ \A i \in 1..n : s[i] = z[i]
  BY <1>1
<1> HIDE DEF z, n
<1>2. PICK f : ParseIter(s, n, f) /\ ParseLines(s) = f[1..n]
  BY <1>1, ParseIterated DEF n
<1>3. PICK g : ParseIter(z, n + 1, g) /\ ParseLines(z) = g[1..n + 1]
  BY <1>1, ParseIterated
<1>4. f[1..n] = g[1..n]
  <2>0. /\ n \in Nat /\ n + 1 \in Nat /\ n <= n + 1
        /\ ParseIter(s, n, f) /\ ParseIter(z, n + 1, g)
        /\ \A i \in 1..n : s[i] = z[i]
    BY <1>1, <1>a, <1>2, <1>3
  <2>1. \A k \in 0..n : f[1..k] = g[1..k]
    BY ONLY <2>0, ParseIterSame
  <2> QED BY <1>1, <2>1
<1>6. g[1..n + 1] = ParseLine(g[1..n], z[n + 1])
  BY <1>1, <1>a, <1>3, ParseIterStep
<1> QED BY <1>1, <1>2, <1>3, <1>4, <1>6 DEF z

-----------------------------------------------------------------------------
(* Paths.                                                                  *)

\* The segments of a path as they are written, each after a slash, ...
Slashed(p) == [i \in 1..Len(p) |-> <<"/", p[i]>>]

\* ... and as they are found, each a part of its own.
Parts(p) == [i \in 1..Len(p) |-> <<p[i]>>]

\* A word has no delimiter and no blank in it.
LEMMA WordFacts ==
  /\ Words \subseteq STRING
  /\ "/" \notin Words /\ ":" \notin Words /\ " " \notin Words
  /\ "\r" \notin Words /\ "\n" \notin Words
  /\ \A w \in Words : w \notin Blanks
BY ClientAssumption DEF Words

\* Segments are made of words and slashes.
LEMMA SlashedType ==
  ASSUME NEW p \in Seq(Words)
  PROVE  Slashed(p) \in Seq(Seq(Words \cup {"/"}))
<1> DEFINE V == Words \cup {"/"}
<1>1. \A i \in 1..Len(p) : <<"/", p[i]>> \in Seq(V)
  <2>1. ASSUME NEW i \in 1..Len(p) PROVE <<"/", p[i]>> \in Seq(V)
    <3>1. p[i] \in V /\ "/" \in V
      BY ElementOfSeq
    <3> HIDE DEF V
    <3> QED BY <3>1
  <2> QED BY <2>1
<1>2. Len(p) \in Nat
  BY LenProperties
<1> QED BY <1>1, <1>2, IsASeq DEF Slashed

\* One more segment is one more slash and word.
LEMMA SlashedAppend ==
  ASSUME NEW p \in Seq(Words), NEW e \in Words
  PROVE  Slashed(Append(p, e)) = Append(Slashed(p), <<"/", e>>)
<1> DEFINE q == Append(p, e)
           n == Len(p)
<1>1. /\ n \in Nat /\ Len(q) = n + 1
      /\ \A i \in 1..n : q[i] = p[i]
      /\ q[n + 1] = e
  BY AppendProperties, LenProperties
<1> HIDE DEF q, n
<1>2. Slashed(q) = [i \in 1..n + 1 |-> IF i = n + 1 THEN <<"/", e>> ELSE <<"/", p[i]>>]
  BY <1>1 DEF Slashed
<1> QED BY <1>1, <1>2 DEF Slashed, q, n

\* There are as many parts as segments.
LEMMA PartsType ==
  ASSUME NEW S, NEW p \in Seq(S)
  PROVE  Parts(p) \in Seq(Seq(S)) /\ Len(Parts(p)) = Len(p)
<1>1. \A i \in 1..Len(p) : <<p[i]>> \in Seq(S)
  <2>1. ASSUME NEW i \in 1..Len(p) PROVE <<p[i]>> \in Seq(S)
    <3>1. p[i] \in S
      BY ElementOfSeq
    <3> QED BY <3>1
  <2> QED BY <2>1
<1>2. Len(p) \in Nat
  BY LenProperties
<1> QED BY <1>1, <1>2, IsASeq, LenProperties DEF Parts

\* One more segment is one more part.
LEMMA PartsAppend ==
  ASSUME NEW p \in Seq(Words), NEW e \in Words
  PROVE  Parts(Append(p, e)) = Append(Parts(p), <<e>>)
<1> DEFINE q == Append(p, e)
           n == Len(p)
<1>1. /\ n \in Nat /\ Len(q) = n + 1
      /\ \A i \in 1..n : q[i] = p[i]
      /\ q[n + 1] = e
  BY AppendProperties, LenProperties
<1> HIDE DEF q, n
<1>2. Parts(q) = [i \in 1..n + 1 |-> IF i = n + 1 THEN <<e>> ELSE <<p[i]>>]
  BY <1>1 DEF Parts
<1> QED BY <1>1, <1>2 DEF Parts, q, n

\* A path is made of words and slashes.
LEMMA PathType ==
  ASSUME NEW r \in Requests
  PROVE  Path(r) \in Seq(Words \cup {"/"})
<1> DEFINE V == Words \cup {"/"}
           end == IF r.path = <<>> \/ r.slash THEN <<"/">> ELSE <<>>
<1>0. r.path \in Seq(Words)
  BY ClientAssumption
<1>1. CASE r.path = <<"*">>
  <2>1. r.path \in Seq(V)
    <3>1. \A i \in 1..Len(r.path) : r.path[i] \in V
      BY <1>0, ElementOfSeq
    <3> QED BY <1>0, <3>1, SeqDef
  <2> QED BY <1>1, <2>1 DEF Path
<1>2. CASE r.path # <<"*">>
  <2>1. FlattenSeq(Slashed(r.path)) \in Seq(V)
    BY <1>0, SlashedType, FlattenSeqType
  <2>2. end \in Seq(V)
    <3>1. "/" \in V
      OBVIOUS
    <3> HIDE DEF V
    <3> QED BY <3>1
  <2>3. Path(r) = FlattenSeq(Slashed(r.path)) \o end
    BY <1>2 DEF Path, Slashed
  <2> QED BY <2>1, <2>2, <2>3, ConcatProperties
<1> QED BY <1>1, <1>2

\* Splitting at the slashes finds an empty part before the first slash, and the segments.
LEMMA SplitSegments ==
  ASSUME NEW s \in Seq(Words)
  PROVE  Split(FlattenSeq(Slashed(s)), "/") = <<<<>>>> \o Parts(s)
<1> DEFINE T == {p \in Seq(Words) : Split(FlattenSeq(Slashed(p)), "/") = <<<<>>>> \o Parts(p)}
           V == Words \cup {"/"}
<1>1. <<>> \in T
  <2>1. Slashed(<<>>) = <<>> /\ Parts(<<>>) = <<>>
    BY DEF Slashed, Parts
  <2>2. <<<<>>>> = <<<<>>>> \o <<>>
    OBVIOUS
  <2>3. Split(FlattenSeq(<<>>), "/") = <<<<>>>>
    BY FlattenSeqEmpty, SplitEmpty
  <2>4. \A p \in Seq(Words) : Split(FlattenSeq(Slashed(p)), "/") = <<<<>>>> \o Parts(p) => p \in T
    OBVIOUS
  <2> HIDE DEF T
  <2>5. PICK p \in Seq(Words) : p = <<>>
    BY EmptySeq
  <2>6. Split(FlattenSeq(Slashed(p)), "/") = <<<<>>>> \o Parts(p)
    BY <2>1, <2>2, <2>3, <2>5
  <2>7. p \in T
    BY <2>4, <2>6
  <2> QED BY <2>5, <2>7, Zenon
<1>2. ASSUME NEW p \in Seq(Words), NEW e \in Words, p \in T PROVE Append(p, e) \in T
  <2> DEFINE f == FlattenSeq(Slashed(p))
  <2>1. f \in Seq(V) /\ Slashed(p) \in Seq(Seq(V)) /\ "/" \in V /\ e \in V /\ Append(p, e) \in Seq(Words)
    BY SlashedType, FlattenSeqType, AppendProperties
  <2>2. Split(f, "/") = <<<<>>>> \o Parts(p)
    BY <1>2
  <2> HIDE DEF V, f
  <2>3. <<"/", e>> \in Seq(V) /\ <<e>> \in Seq(V) /\ f \o <<"/", e>> = f \o <<"/">> \o <<e>>
    <3>1. f \in Seq(V) /\ "/" \in V /\ e \in V
      BY <2>1
    <3>2. <<"/", e>> \in Seq(V) /\ <<e>> \in Seq(V)
      BY ONLY <3>1
    <3> QED BY <3>1, <3>2, TwoAtEnd
  <2>4. FlattenSeq(Slashed(Append(p, e))) = f \o <<"/">> \o <<e>>
    BY <2>1, <2>3, SlashedAppend, FlattenSeqAppend DEF f
  <2>5. Split(f \o <<"/">> \o <<e>>, "/") = Split(f, "/") \o Split(<<e>>, "/")
    BY <2>1, <2>3, SplitConcat
  <2>6. Split(<<e>>, "/") = <<<<e>>>>
    <3>1. <<e>> \in Seq(Words)
      OBVIOUS
    <3> QED BY <3>1, WordFacts, SplitNone
  <2>7. Parts(Append(p, e)) = Append(Parts(p), <<e>>) /\ Parts(p) \in Seq(Seq(Words)) /\ <<e>> \in Seq(Words)
    BY PartsAppend, PartsType
  <2>8. (<<<<>>>> \o Parts(p)) \o <<<<e>>>> = <<<<>>>> \o Append(Parts(p), <<e>>)
    <3>1. PICK W : W = Seq(Words)
      OBVIOUS
    <3>2. <<e>> \in W /\ Parts(p) \in Seq(W)
      BY <2>7, <3>1
    <3>3. W = Seq(Words)
      BY <3>1
    <3> QED BY ONLY <3>2, <3>3, EmptyThenOne
  <2>9. Split(FlattenSeq(Slashed(Append(p, e))), "/") = <<<<>>>> \o Parts(Append(p, e))
    BY <2>2, <2>4, <2>5, <2>6, <2>7, <2>8
  <2> QED BY <2>1, <2>9
<1> HIDE DEF T
<1>3. s \in T
  BY <1>1, <1>2, AllSequences
<1> QED BY <1>3 DEF T

\* SplitPath drops the empty part before the first slash and an empty one behind the last
\* (http/HttpRouter.cpp:81-86).
LEMMA SplitPathOf ==
  ASSUME NEW S, NEW W, W = Seq(S), NEW q \in Seq(W), NEW e \in W, NEW path,
         Split(path, "/") = <<<<>>>> \o Append(q, e)
  PROVE  SplitPath(path) = IF e = <<>> THEN q ELSE Append(q, e)
<1> DEFINE parts == Append(q, e)
<1>1. PICK a \in W : a = <<>>
  BY EmptySeq
<1>2. parts \in Seq(W) /\ Len(parts) = Len(q) + 1 /\ Len(q) \in Nat
  OBVIOUS
<1>3. Tail(<<a>> \o parts) = parts
  BY <1>2, TailOfOne
<1>4. Last(parts) = e
  BY <1>2 DEF Last
<1>5. Front(parts) = q
  <2>1. SubSeq(parts, 1, Len(q)) = q
    BY <1>2
  <2> QED BY <1>2, <2>1 DEF Front
<1> HIDE DEF parts
<1>6. Tail(Split(path, "/")) = parts
  BY <1>1, <1>3 DEF parts
<1> QED BY <1>4, <1>5, <1>6 DEF SplitPath, parts

\* The path of a request splits into its segments, for a path of any length.
LEMMA SegmentsOfPath ==
  ASSUME NEW r \in Requests, r.path # <<"*">>
  PROVE  SplitPath(Path(r)) = Parts(r.path)
<1> DEFINE p == r.path
           f == FlattenSeq(Slashed(p))
           V == Words \cup {"/"}
<1>0. p \in Seq(Words)
  BY ClientAssumption
<1>1. Split(f, "/") = <<<<>>>> \o Parts(p)
  BY <1>0, SplitSegments
<1>2. f \in Seq(V) /\ "/" \in V
  BY <1>0, SlashedType, FlattenSeqType
<1>3. Parts(p) \in Seq(Seq(Words)) /\ Len(Parts(p)) = Len(p) /\ Len(p) \in Nat
  BY <1>0, PartsType, LenProperties
<1>4. CASE p = <<>> \/ r.slash
  <2>1. Path(r) = f \o <<"/">>
    BY <1>4 DEF Path, Slashed
  <2>2. Path(r) = Append(f, "/")
    <3> HIDE DEF f, V
    <3>1. f \o <<"/">> = Append(f, "/")
      BY <1>2
    <3> QED BY <2>1, <3>1
  <2>3. Split(Path(r), "/") = Append(Split(f, "/"), <<>>)
    <3> HIDE DEF f, V
    <3> QED BY <1>2, <2>2, SplitAppend DEF AddByte
  <2>4. PICK W : W = Seq(Words)
    OBVIOUS
  <2>5. PICK z \in W : z = <<>>
    BY <2>4, EmptySeq
  <2>6. Parts(p) \in Seq(W)
    BY <1>3, <2>4
  <2>7. Append(<<z>> \o Parts(p), z) = <<z>> \o Append(Parts(p), z)
    BY ONLY <2>6
  <2>8. Split(Path(r), "/") = <<<<>>>> \o Append(Parts(p), z)
    BY <1>1, <2>3, <2>5, <2>7
  <2>9. SplitPath(Path(r)) = Parts(p)
    BY <2>4, <2>5, <2>6, <2>8, SplitPathOf
  <2> QED BY <2>9
<1>5. CASE p # <<>> /\ ~r.slash
  <2>1. Path(r) = f
    <3>1. Path(r) = f \o <<>>
      BY <1>5 DEF Path, Slashed
    <3> HIDE DEF f, V
    <3> QED BY <1>2, <3>1, ConcatEmptySeq
  <2>2. Len(p) \in 1..Len(p)
    BY <1>0, <1>3, <1>5, EmptySeq
  <2>3. PICK q \in Seq(Words), e \in Words : p = Append(q, e)
    <3>1. p = Append(SubSeq(p, 1, Len(p) - 1), p[Len(p)]) /\ SubSeq(p, 1, Len(p) - 1) \in Seq(Words)
      <4> HIDE DEF p
      <4> QED BY <1>0, <2>2
    <3>2. p[Len(p)] \in Words
      BY <1>0, <2>2, ElementOfSeq
    <3> QED BY <3>1, <3>2
  <2>4. Parts(p) = Append(Parts(q), <<e>>) /\ Parts(q) \in Seq(Seq(Words))
    BY <2>3, PartsAppend, PartsType
  <2>5. PICK W : W = Seq(Words)
    OBVIOUS
  <2>6. PICK z \in W : z = <<e>>
    <3>1. <<e>> \in Seq(Words)
      OBVIOUS
    <3> QED BY <2>5, <3>1
  <2>7. z # <<>>
    BY <2>6
  <2>8. Split(Path(r), "/") = <<<<>>>> \o Append(Parts(q), z)
    BY <1>1, <2>1, <2>4, <2>6
  <2>9. SplitPath(Path(r)) = Append(Parts(q), z)
    BY <2>4, <2>5, <2>7, <2>8, SplitPathOf
  <2> QED BY <2>4, <2>6, <2>9
<1> QED BY <1>4, <1>5

-----------------------------------------------------------------------------
(* The first line of a message.                                            *)

\* What a text contains, every text that ends in it contains.
LEMMA ContainsRight ==
  ASSUME NEW S, NEW a \in Seq(S), NEW b \in Seq(S), NEW e, Contains(b, e)
  PROVE  Contains(a \o b, e)
<1>1. PICK i \in 1..Len(b) : b[i] = e
  BY DEF Contains
<1>2. Len(a) \in Nat /\ Len(b) \in Nat /\ Len(a \o b) = Len(a) + Len(b)
  BY LenProperties, ConcatProperties
<1>3. Len(a) + i \in 1..Len(a \o b) /\ (a \o b)[Len(a) + i] = b[i]
  BY <1>2, ConcatProperties
<1> QED BY <1>1, <1>3 DEF Contains

\* All strings are elements of a text; the prover does not know of a literal that it is
\* one of STRING.
Elements == STRING \cup {" ", "\r", "\n", "/", ":", "HTTP", "1.1"}

\* The literals are elements.
LEMMA Literals ==
  /\ " " \in Elements /\ "\r" \in Elements /\ "\n" \in Elements /\ "/" \in Elements
  /\ ":" \in Elements /\ "HTTP" \in Elements /\ "1.1" \in Elements
BY DEF Elements

\* The last word of the first line: a line that ends in "\r\n" keeps its "\r".
VersionWords(r) ==
  IF r.crlf THEN <<"HTTP", "/", "1.1">> \o <<"\r">> ELSE <<"HTTP", "/", "1.1">>

\* The first line, as the parser gets it, ...
FirstLine(r) == <<r.method>> \o <<" ">> \o (Path(r) \o <<" ">> \o VersionWords(r))

\* ... and what follows its "\n".
Rest(r) ==
  FlattenSeq([i \in 1..Len(r.headers) |-> HeaderLine(r.headers[i]) \o Eol(r)])
    \o Eol(r)
    \o r.body

\* The types of the pieces of a request.
LEMMA PieceTypes ==
  ASSUME NEW r \in Requests
  PROVE  /\ r.method \in Words /\ r.method \in Elements /\ r.path \in Seq(Words)
         /\ r.headers \in Seq(Words \X HeaderValues) /\ r.body \in Seq(Elements)
         /\ Path(r) \in Seq(Elements)
         /\ Eol(r) \in Seq(Elements)
         /\ VersionWords(r) \in Seq(Elements)
         /\ r.crlf \in BOOLEAN /\ r.whole \in BOOLEAN
<1>1. /\ r.method \in Words /\ r.path \in Seq(Words)
      /\ r.headers \in Seq(Words \X HeaderValues) /\ r.body \in Seq(Elements)
      /\ r.crlf \in BOOLEAN /\ r.whole \in BOOLEAN
  <2>1. r.body \in Seq(STRING) /\ STRING \subseteq Elements
    BY ClientAssumption DEF Elements
  <2>2. r.body \in Seq(Elements)
    BY <2>1, SeqMonotonic
  <2> QED BY <2>2, ClientAssumption
<1>2. Path(r) \in Seq(Elements)
  <2>1. Words \cup {"/"} \subseteq Elements
    BY WordFacts DEF Elements
  <2> QED BY <2>1, PathType, SeqMonotonic
<1>3. Eol(r) \in Seq(Elements)
  <2>1. <<"\n">> \in Seq(Elements) /\ <<"\r", "\n">> \in Seq(Elements)
    BY Literals, ShortTypes
  <2> QED BY <2>1 DEF Eol
<1>4. VersionWords(r) \in Seq(Elements)
  <2>1. <<"HTTP", "/", "1.1">> \in Seq(Elements) /\ <<"\r">> \in Seq(Elements)
    BY DEF Elements
  <2>2. <<"HTTP", "/", "1.1">> \o <<"\r">> \in Seq(Elements)
    BY <2>1, ConcatProperties
  <2> QED BY <2>1, <2>2 DEF VersionWords
<1> QED BY <1>1, <1>2, <1>3, <1>4, WordFacts DEF Elements

\* The version after its space.
LEMMA SpaceVersion ==
  <<" ", "HTTP", "/", "1.1">> = <<" ">> \o <<"HTTP", "/", "1.1">>
<1>1. PICK S : S = {" ", "HTTP", "/", "1.1"}
  OBVIOUS
<1>2. PICK g \in S, h \in S, k \in S, m \in S :
                  g = " " /\ h = "HTTP" /\ k = "/" /\ m = "1.1"
  BY <1>1
<1>3. <<g, h, k, m>> = <<g>> \o <<h, k, m>>
  BY ONLY FourElements
<1> QED BY <1>2, <1>3

\* The request line that is sent is the first line and its "\n".
LEMMA RequestLineIs ==
  ASSUME NEW r \in Requests, r.whole
  PROVE  RequestLine(r) = FirstLine(r) \o <<"\n">>
<1>1. PICK a \in Seq(Elements), b \in Seq(Elements), x \in Seq(Elements), e \in Seq(Elements),
           v \in Seq(Elements), p \in Seq(Elements) :
        /\ a = <<r.method>> /\ b = <<" ">> /\ x = <<"\r">> /\ e = <<"\n">>
        /\ v = <<"HTTP", "/", "1.1">> /\ p = Path(r)
  <2>1. r.method \in Elements /\ Path(r) \in Seq(Elements)
    BY PieceTypes
  <2>2. <<r.method>> \in Seq(Elements) /\ <<" ">> \in Seq(Elements) /\ <<"\r">> \in Seq(Elements)
        /\ <<"\n">> \in Seq(Elements) /\ <<"HTTP", "/", "1.1">> \in Seq(Elements)
    BY <2>1, Literals, ShortTypes
  <2> QED BY <2>1, <2>2
<1>2. <<r.method, " ">> = a \o b
  <2>1. r.method \in Elements /\ " " \in Elements
    BY PieceTypes DEF Elements
  <2>2. <<r.method, " ">> = <<r.method>> \o <<" ">>
    BY <2>1, TwoElements
  <2> QED BY <1>1, <2>2
<1>3. <<" ", "HTTP", "/", "1.1">> = b \o v
  <2>1. <<" ", "HTTP", "/", "1.1">> = <<" ">> \o <<"HTTP", "/", "1.1">>
    BY SpaceVersion
  <2> QED BY <1>1, <2>1
<1>4. <<"\r", "\n">> = x \o e
  <2>1. <<"\r", "\n">> = <<"\r">> \o <<"\n">>
    <3>1. PICK g \in Elements, h \in Elements : g = "\r" /\ h = "\n"
      BY Literals
    <3>2. <<g, h>> = <<g>> \o <<h>>
      BY TwoElements
    <3> QED BY <3>1, <3>2
  <2> QED BY <1>1, <2>1
<1>5. ((a \o b) \o p) \o (b \o v) = a \o b \o (p \o b \o v)
  <2>0. a \o b \in Seq(Elements)
    OBVIOUS
  <2>1. PICK u \in Seq(Elements) : u = a \o b
    BY <2>0
  <2>2. (u \o p) \o (b \o v) = u \o (p \o b \o v)
    BY ONLY TRUE
  <2> QED BY <2>1, <2>2
<1>6. a \o b \o (p \o b \o v) \o x = a \o b \o (p \o b \o (v \o x))
  <2>0. a \o b \in Seq(Elements) /\ p \o b \in Seq(Elements)
    OBVIOUS
  <2>1. PICK u \in Seq(Elements), w \in Seq(Elements) : u = a \o b /\ w = p \o b
    BY <2>0
  <2>2. (u \o (w \o v)) \o x = u \o (w \o (v \o x))
    BY ONLY TRUE
  <2> QED BY <2>1, <2>2
<1>7. CASE r.crlf
  <2>1. RequestLine(r) = ((a \o b) \o p) \o (b \o v) \o (x \o e)
    BY <1>1, <1>2, <1>3, <1>4, <1>7 DEF RequestLine, Eol
  <2>2. FirstLine(r) = a \o b \o (p \o b \o (v \o x))
    BY <1>1, <1>7 DEF FirstLine, VersionWords
  <2>3. PICK y \in Seq(Elements) : y = a \o b \o (p \o b \o v)
    <3>1. a \o b \in Seq(Elements) /\ p \o b \o v \in Seq(Elements)
      OBVIOUS
    <3> QED BY <3>1, ConcatProperties
  <2>4. y \o (x \o e) = (y \o x) \o e
    BY ONLY TRUE
  <2> QED BY <1>1, <1>5, <1>6, <2>1, <2>2, <2>3, <2>4
<1>8. CASE ~r.crlf
  <2>1. RequestLine(r) = ((a \o b) \o p) \o (b \o v) \o e
    BY <1>1, <1>2, <1>3, <1>8 DEF RequestLine, Eol
  <2>2. FirstLine(r) = a \o b \o (p \o b \o v)
    BY <1>1, <1>8 DEF FirstLine, VersionWords
  <2> QED BY <1>1, <1>5, <2>1, <2>2
<1> QED BY <1>7, <1>8

\* The first line is a text.
LEMMA FirstLineType ==
  ASSUME NEW r \in Requests
  PROVE  FirstLine(r) \in Seq(Elements)
<1>1. <<r.method>> \in Seq(Elements) /\ <<" ">> \in Seq(Elements)
  BY PieceTypes, Literals, ShortTypes
<1>2. <<r.method>> \o <<" ">> \in Seq(Elements)
  BY <1>1, ConcatProperties
<1>3. Path(r) \o <<" ">> \in Seq(Elements)
  BY <1>1, PieceTypes, ConcatProperties
<1>4. Path(r) \o <<" ">> \o VersionWords(r) \in Seq(Elements)
  BY <1>3, PieceTypes, ConcatProperties
<1> QED BY <1>2, <1>4, ConcatProperties DEF FirstLine

\* The words of a value after the first begin with a colon, if there are any.
LEMMA MoreWordsType ==
  ASSUME NEW v \in HeaderValues
  PROVE  /\ Head(v) \in Words
         /\ MoreWords(v) \in Seq(Words \cup {":"})
         /\ MoreWords(v) # <<>> => MoreWords(v)[1] = ":"
<1> DEFINE n == 2 * (Len(v) - 1)
           e(k) == IF k % 2 = 1 THEN ":" ELSE v[k \div 2 + 1]
<1>1. v \in Seq(Words) /\ v # <<>>
  BY DEF HeaderValues
<1>2. Len(v) \in Nat /\ Len(v) # 0 /\ \A k \in 1..Len(v) : v[k] \in Words
  BY <1>1, EmptySeq, LenProperties, ElementOfSeq
<1>3. Head(v) \in Words
  BY <1>1, HeadTailProperties
<1>4. \A k \in 1..n : e(k) \in Words \cup {":"}
  <2>1. ASSUME NEW k \in 1..n PROVE e(k) \in Words \cup {":"}
    <3>1. k % 2 # 1 => k \div 2 + 1 \in 1..Len(v)
      BY <1>2
    <3> QED BY <1>2, <3>1
  <2> QED BY <2>1
<1>5. n \in Nat /\ MoreWords(v) = [k \in 1..n |-> e(k)]
  BY <1>2 DEF MoreWords
<1>6. MoreWords(v) # <<>> => 1 \in 1..n /\ e(1) = ":"
  BY <1>2, <1>5
<1> HIDE DEF n, e
<1>7. MoreWords(v) \in Seq(Words \cup {":"})
  BY <1>4, <1>5, IsASeq
<1> QED BY <1>3, <1>5, <1>6, <1>7

\* A header is one line of a text, ...
LEMMA HeaderLineType ==
  ASSUME NEW h \in Words \X HeaderValues
  PROVE  /\ <<h[1], ":", " ", Head(h[2])>> \in Seq(Elements \ {"\n"})
         /\ MoreWords(h[2]) \in Seq(Elements \ {"\n"})
         /\ HeaderLine(h) \in Seq(Elements \ {"\n"})
         /\ HeaderLine(h) \in Seq(Elements)
<1>1. h[1] \in Words /\ h[2] \in HeaderValues
  OBVIOUS
<1>2. PICK E : E = Elements \ {"\n"}
  OBVIOUS
<1>3. Words \cup {":"} \subseteq E /\ " " \in E /\ E \subseteq Elements
  BY <1>2, WordFacts, Literals DEF Elements
<1>4. <<h[1], ":", " ", Head(h[2])>> \in Seq(E)
  <2>1. h[1] \in E /\ ":" \in E /\ " " \in E /\ Head(h[2]) \in E
    BY <1>1, <1>3, MoreWordsType
  <2> QED BY <2>1, FourType
<1>5. MoreWords(h[2]) \in Seq(E)
  BY <1>1, <1>3, MoreWordsType, SeqMonotonic
<1>6. HeaderLine(h) \in Seq(E)
  BY <1>4, <1>5, ConcatProperties DEF HeaderLine
<1>7. HeaderLine(h) \in Seq(Elements)
  BY <1>3, <1>6, SeqMonotonic
<1> QED BY <1>2, <1>4, <1>5, <1>6, <1>7

\* A message is its first line, "\n" and the rest.
LEMMA EncodeWhole ==
  ASSUME NEW r \in Requests, r.whole
  PROVE  /\ FirstLine(r) \in Seq(Elements) /\ Rest(r) \in Seq(Elements)
         /\ Encode(r) = FirstLine(r) \o <<"\n">> \o Rest(r)
<1> DEFINE H == FlattenSeq([i \in 1..Len(r.headers) |-> HeaderLine(r.headers[i]) \o Eol(r)])
           L == RequestLine(r)
<1>1. FirstLine(r) \in Seq(Elements)
  BY FirstLineType
<1>2. L = FirstLine(r) \o <<"\n">>
  BY RequestLineIs
<1>3. L \in Seq(Elements)
  <2>1. <<"\n">> \in Seq(Elements)
    BY Literals, ShortTypes
  <2> QED BY <1>1, <1>2, <2>1, ConcatProperties
<1>4. H \in Seq(Elements)
  <2>1. ASSUME NEW i \in 1..Len(r.headers)
        PROVE  HeaderLine(r.headers[i]) \o Eol(r) \in Seq(Elements)
    <3>1. r.headers[i] \in Words \X HeaderValues
      BY PieceTypes, ElementOfSeq
    <3>2. HeaderLine(r.headers[i]) \in Seq(Elements)
      BY <3>1, HeaderLineType
    <3> QED BY <3>2, PieceTypes, ConcatProperties
  <2>2. Len(r.headers) \in Nat
    BY PieceTypes, LenProperties
  <2> DEFINE e(i) == HeaderLine(r.headers[i]) \o Eol(r)
  <2>3. [i \in 1..Len(r.headers) |-> e(i)] \in Seq(Seq(Elements))
    <3> HIDE DEF e
    <3>1. \A i \in 1..Len(r.headers) : e(i) \in Seq(Elements)
      BY <2>1 DEF e
    <3> QED BY <2>2, <3>1, IsASeq
  <2> QED BY <2>3, FlattenSeqType
<1> HIDE DEF H, L
<1>5. Eol(r) \in Seq(Elements) /\ r.body \in Seq(Elements)
  BY PieceTypes
<1>6. Rest(r) = H \o Eol(r) \o r.body
  BY DEF Rest, H
<1>7. Rest(r) \in Seq(Elements)
  <2>1. H \o Eol(r) \in Seq(Elements)
    BY <1>4, <1>5, ConcatProperties
  <2> QED BY <1>5, <1>6, <2>1, ConcatProperties
<1>8. Encode(r) = L \o H \o Eol(r) \o r.body
  BY DEF Encode, H, L
<1>9. Encode(r) = L \o Rest(r)
  <2>1. PICK l \in Seq(Elements), h \in Seq(Elements), e \in Seq(Elements), b \in Seq(Elements) :
          l = L /\ h = H /\ e = Eol(r) /\ b = r.body
    BY <1>3, <1>4, <1>5
  <2>2. ((l \o h) \o e) \o b = l \o (h \o e \o b)
    BY ONLY TRUE
  <2> QED BY <1>6, <1>8, <2>1, <2>2
<1> QED BY <1>1, <1>2, <1>7, <1>9

\* The first line has three words, is one line, has no blank to trim, and names HTTP.
LEMMA FirstLineSplit ==
  ASSUME NEW r \in Requests
  PROVE  /\ Split(FirstLine(r), " ") = <<<<r.method>>>> \o (<<Path(r)>> \o <<VersionWords(r)>>)
         /\ Split(FirstLine(r), "\n") = <<FirstLine(r)>>
         /\ Trim(FirstLine(r)) = FirstLine(r)
         /\ Contains(FirstLine(r), "HTTP")
<1> DEFINE v == VersionWords(r)
           p == Path(r)
           rest == p \o <<" ">> \o v
<1>0. r.method \in Words /\ r.method \in Elements
  BY PieceTypes
<1>1. /\ v \in Seq(Elements \ {" ", "\n"})
      /\ v \in Seq(Elements)
      /\ v # <<>> /\ v[1] = "HTTP"
  <2>1. "HTTP" \in Elements \ {" ", "\n"} /\ "/" \in Elements \ {" ", "\n"}
        /\ "1.1" \in Elements \ {" ", "\n"} /\ "\r" \in Elements \ {" ", "\n"}
    BY Literals
  <2>2. PICK V : V = Elements \ {" ", "\n"}
    OBVIOUS
  <2>3. <<"HTTP", "/", "1.1">> \in Seq(V) /\ <<"\r">> \in Seq(V)
    BY <2>1, <2>2, ShortTypes
  <2>4. PICK a \in Seq(V), b \in Seq(V) : a = <<"HTTP", "/", "1.1">> /\ b = <<"\r">>
    BY <2>3
  <2>5. Len(a) = 3 /\ a[1] = "HTTP"
    BY <2>4
  <2>6. a \o b \in Seq(V) /\ Len(a \o b) # 0 /\ (a \o b)[1] = "HTTP"
    <3>1. a \in Seq(V) /\ b \in Seq(V) /\ Len(a) # 0
      BY <2>5
    <3>2. a \o b \in Seq(V) /\ Len(a \o b) # 0 /\ (a \o b)[1] = a[1]
      BY ONLY <3>1, FirstOfTwo
    <3> QED BY <2>5, <3>2
  <2>7. v = a \o b \/ v = a
    BY <2>4 DEF VersionWords
  <2>8. a \in Seq(V) /\ Len(a) # 0
    BY <2>5
  <2>9. v \in Seq(V) /\ v # <<>> /\ v[1] = "HTTP"
    <3> HIDE DEF v
    <3> QED BY <2>5, <2>6, <2>7, <2>8, EmptySeq
  <2> QED BY <2>2, <2>9, PieceTypes
<1>2. /\ p \in Seq(Elements \ {" ", "\n"}) /\ p \in Seq(Elements)
  <2>1. Words \cup {"/"} \subseteq Elements \ {" ", "\n"}
    BY WordFacts DEF Elements
  <2>2. PICK V : V = Elements \ {" ", "\n"}
    OBVIOUS
  <2>3. p \in Seq(V)
    BY <2>1, <2>2, PathType, SeqMonotonic
  <2> QED BY <2>2, <2>3, PieceTypes
<1>3. <<r.method>> \in Seq(Elements) /\ <<r.method>> \in Seq(Words)
  BY <1>0
<1>4. <<" ">> \in Seq(Elements) /\ " " \in Elements
  BY Literals, ShortTypes
<1>5. rest \in Seq(Elements)
  <2>1. p \o <<" ">> \in Seq(Elements)
    BY <1>2, <1>4, ConcatProperties
  <2> QED BY <1>1, <2>1, ConcatProperties
<1> HIDE DEF v, p
<1>6. Split(FirstLine(r), " ") = <<<<r.method>>>> \o (<<p>> \o <<v>>)
  <2>1. Split(rest, " ") = Split(p, " ") \o Split(v, " ")
    BY <1>1, <1>2, <1>4, SplitConcat
  <2>2. Split(p, " ") = <<p>> /\ Split(v, " ") = <<v>>
    <3>1. " " \notin Elements \ {" ", "\n"}
      OBVIOUS
    <3> QED BY <1>1, <1>2, <3>1, SplitNone
  <2>3. Split(<<r.method>>, " ") = <<<<r.method>>>>
    BY <1>3, WordFacts, SplitNone
  <2>4. FirstLine(r) = <<r.method>> \o <<" ">> \o rest
    BY DEF FirstLine, p, v
  <2> HIDE DEF rest
  <2>5. Split(<<r.method>> \o <<" ">> \o rest, " ") = Split(<<r.method>>, " ") \o Split(rest, " ")
    BY <1>3, <1>4, <1>5, SplitConcat
  <2> QED BY <2>1, <2>2, <2>3, <2>4, <2>5
<1>7. Split(FirstLine(r), "\n") = <<FirstLine(r)>>
  <2>1. PICK V : V = Elements \ {"\n"}
    OBVIOUS
  <2>2. Elements \ {" ", "\n"} \subseteq V
    BY <2>1
  <2>3. p \in Seq(V) /\ v \in Seq(V)
    BY <1>1, <1>2, <2>2, SeqMonotonic
  <2>4. " " \in V /\ r.method \in V /\ "\n" \notin V
    BY <1>0, <2>1, Literals, WordFacts
  <2>5. <<" ">> \in Seq(V) /\ <<r.method>> \in Seq(V)
    BY <2>4, ShortTypes
  <2>6. rest \in Seq(V)
    <3>1. p \o <<" ">> \in Seq(V)
      BY <2>3, <2>5, ConcatProperties
    <3> QED BY <2>3, <3>1, ConcatProperties
  <2>7. FirstLine(r) \in Seq(V)
    <3>1. <<r.method>> \o <<" ">> \in Seq(V)
      BY <2>5, ConcatProperties
    <3>2. FirstLine(r) = <<r.method>> \o <<" ">> \o rest
      BY DEF FirstLine, p, v
    <3> HIDE DEF rest
    <3> QED BY <2>6, <3>1, <3>2, ConcatProperties
  <2> QED BY <2>4, <2>7, SplitNone
<1>8. Trim(FirstLine(r)) = FirstLine(r)
  <2>1. FirstLine(r) = <<r.method>> \o <<" ">> \o rest
    BY DEF FirstLine, p, v
  <2> HIDE DEF rest
  <2>2. PICK a \in Seq(Elements), b \in Seq(Elements) : a = <<r.method>> /\ b = <<" ">>
    BY <1>3, <1>4
  <2>3. Len(a) = 1 /\ a[1] = r.method
    BY <2>2
  <2>4. (a \o b \o rest)[1] = a[1]
    <3>1. a \o b \in Seq(Elements) /\ Len(a \o b) # 0 /\ (a \o b)[1] = a[1]
      BY <2>3, FirstOfTwo
    <3>2. PICK c \in Seq(Elements) : c = a \o b
      BY <3>1
    <3> QED BY <1>5, <3>1, <3>2, FirstOfTwo
  <2> QED BY <1>0, <2>1, <2>2, <2>3, <2>4, WordFacts DEF Trim
<1>9. Contains(FirstLine(r), "HTTP")
  <2>1. Contains(v, "HTTP")
    <3>1. Len(v) \in Nat \ {0}
      BY <1>1, EmptySeq, LenProperties
    <3>2. 1 \in 1..Len(v)
      BY <3>1
    <3> QED BY <1>1, <3>2 DEF Contains
  <2>2. <<r.method>> \o <<" ">> \in Seq(Elements) /\ p \o <<" ">> \in Seq(Elements)
    BY <1>2, <1>3, <1>4, ConcatProperties
  <2>3. Contains(rest, "HTTP")
    BY <1>1, <2>1, <2>2, ContainsRight
  <2>4. FirstLine(r) = <<r.method>> \o <<" ">> \o rest
    BY DEF FirstLine, p, v
  <2> HIDE DEF rest
  <2> QED BY <1>5, <2>2, <2>3, <2>4, ContainsRight
<1> QED BY <1>6, <1>7, <1>8, <1>9 DEF p, v

\* The cases of ParseLine exclude each other: the request line, ...
LEMMA ParseLineFirst ==
  ASSUME NEW q, NEW line, q.processStatus = 0, Contains(line, "HTTP")
  PROVE  ParseLine(q, line) = ParseRequestLine(q, line)
BY DEF ParseLine

\* ... a header, ...
LEMMA ParseLineHeader ==
  ASSUME NEW q, NEW line, q.processStatus = 1, Contains(line, ":")
  PROVE  ParseLine(q, line) = ParseHeader(q, line)
<1>1. q.processStatus # 0 /\ q.processStatus # 2 /\ line # <<>>
  BY DEF Contains
<1> QED BY <1>1, Zenon DEF ParseLine

\* ... the empty line behind the headers, ...
LEMMA ParseLineEmpty ==
  ASSUME NEW q, NEW line, q.processStatus = 1, ~Contains(line, ":"), line = <<>>
  PROVE  ParseLine(q, line) = [q EXCEPT !.processStatus = 2]
BY DEF ParseLine

\* ... a line of the body, ...
LEMMA ParseLineBody ==
  ASSUME NEW q, NEW line, q.processStatus = 2
  PROVE  ParseLine(q, line) = [q EXCEPT !.body = @ \o line]
BY DEF ParseLine

\* ... and a line that is none of these.
LEMMA ParseLineOther ==
  ASSUME NEW q, NEW line, q.processStatus = 1, ~Contains(line, ":"), line # <<>>
  PROVE  ParseLine(q, line) = q
BY DEF ParseLine

\* A request with the method, the path and the version of the first line of r.
After(r, headers, body, processStatus) ==
  [method |-> String2Method(<<r.method>>),
   version |-> IF r.crlf THEN "UNKNOW" ELSE "V1_1",
   path |-> Path(r), headers |-> headers, body |-> body, processStatus |-> processStatus]

\* The first line sets the method, the path and the version (http/HttpRequest.cpp:16-28).
LEMMA FirstLineParsed ==
  ASSUME NEW r \in Requests
  PROVE  ParseLines(<<FirstLine(r)>>) = After(r, EmptyMap, <<>>, 1)
<1> DEFINE line == FirstLine(r)
           element == Split(Trim(line), " ")
<1>1. Contains(line, "HTTP") /\ element = <<<<r.method>>>> \o (<<Path(r)>> \o <<VersionWords(r)>>)
  BY FirstLineSplit
<1>2. /\ Len(element) = 3
      /\ element[1] = <<r.method>> /\ element[2] = Path(r) /\ element[3] = VersionWords(r)
  <2>1. PICK W : W = Seq(Elements)
    OBVIOUS
  <2>2. PICK a \in W, b \in W, c \in W : a = <<r.method>> /\ b = Path(r) /\ c = VersionWords(r)
    <3>1. <<r.method>> \in Seq(Elements)
      BY PieceTypes, ShortTypes
    <3> QED BY <2>1, <3>1, PieceTypes
  <2> DEFINE e == <<a>> \o (<<b>> \o <<c>>)
  <2>3. Len(e) = 3 /\ e[1] = a /\ e[2] = b /\ e[3] = c
    OBVIOUS
  <2>4. element = e
    BY <1>1, <2>2
  <2> HIDE DEF e, element
  <2> QED BY <2>2, <2>3, <2>4
<1>3. String2Version(VersionWords(r)) = IF r.crlf THEN "UNKNOW" ELSE "V1_1"
  <2>1. CASE r.crlf
    <3>1. Len(VersionWords(r)) = 4
      BY <2>1 DEF VersionWords
    <3>2. Len(<<"HTTP", "/", "1.1">>) = 3 /\ Len(<<"HTTP", "/", "2.0">>) = 3
      OBVIOUS
    <3>3. VersionWords(r) # <<"HTTP", "/", "1.1">> /\ VersionWords(r) # <<"HTTP", "/", "2.0">>
      BY <3>1, <3>2
    <3> QED BY <2>1, <3>3 DEF String2Version
  <2>2. CASE ~r.crlf
    BY <2>2 DEF VersionWords, String2Version
  <2> QED BY <2>1, <2>2
<1>4. ParseRequestLine(DefaultRequest, line) = After(r, EmptyMap, <<>>, 1)
  <2> HIDE DEF element
  <2>1. ParseRequestLine(DefaultRequest, line) =
          [DefaultRequest EXCEPT
             !.method = String2Method(element[1]),
             !.path = IF Len(element) >= 2 THEN element[2] ELSE @,
             !.version = IF Len(element) >= 3 THEN String2Version(element[3]) ELSE @,
             !.processStatus = 1]
    BY DEF ParseRequestLine, element
  <2> HIDE DEF line
  <2>2. ParseRequestLine(DefaultRequest, line) =
          [DefaultRequest EXCEPT
             !.method = String2Method(<<r.method>>),
             !.path = Path(r),
             !.version = IF r.crlf THEN "UNKNOW" ELSE "V1_1",
             !.processStatus = 1]
    <3>1. /\ (Len(element) >= 2) = TRUE /\ (Len(element) >= 3) = TRUE
          /\ String2Method(element[1]) = String2Method(<<r.method>>)
          /\ String2Version(element[3]) = IF r.crlf THEN "UNKNOW" ELSE "V1_1"
      BY <1>2, <1>3
    <3> QED BY <1>2, <2>1, <3>1, Zenon
  <2> QED BY <2>2 DEF DefaultRequest, After
<1>5. ParseLine(DefaultRequest, line) = After(r, EmptyMap, <<>>, 1)
  <2>1. DefaultRequest.processStatus = 0
    BY DEF DefaultRequest
  <2> HIDE DEF line
  <2>2. ParseLine(DefaultRequest, line) = ParseRequestLine(DefaultRequest, line)
    BY <1>1, <2>1, ParseLineFirst
  <2> QED BY <1>4, <2>2
<1>6. ParseLines(<<line>>) = ParseLine(DefaultRequest, line)
  <2>1. PICK S : S = {line}
    OBVIOUS
  <2>2. <<>> \in Seq(S) /\ line \in S
    BY <2>1, EmptySeq
  <2>3. Append(<<>>, line) = <<line>>
    OBVIOUS
  <2> HIDE DEF line
  <2>4. ParseLines(Append(<<>>, line)) = ParseLine(ParseLines(<<>>), line)
    BY <2>2, ParseLinesAppend
  <2> QED BY <2>3, <2>4, ParseLinesEmpty
<1> QED BY <1>5, <1>6

\* What a later line makes of such a request.
LEMMA LaterLine ==
  ASSUME NEW r, NEW h, NEW b, NEW line
  PROVE  /\ Contains(line, ":") =>
              ParseLine(After(r, h, b, 1), line) =
                After(r, Put(h, Trim(Split(Trim(line), ":")[1]),
                                Trim(Split(Trim(line), ":")[2])), b, 1)
         /\ ~Contains(line, ":") /\ line = <<>> =>
              ParseLine(After(r, h, b, 1), line) = After(r, h, b, 2)
         /\ ~Contains(line, ":") /\ line # <<>> =>
              ParseLine(After(r, h, b, 1), line) = After(r, h, b, 1)
         /\ ParseLine(After(r, h, b, 2), line) = After(r, h, b \o line, 2)
<1> DEFINE q == After(r, h, b, 1)
           k == Trim(Split(Trim(line), ":")[1])
           v == Trim(Split(Trim(line), ":")[2])
<1>0. q.processStatus = 1 /\ After(r, h, b, 2).processStatus = 2
  BY DEF After
<1>1. ASSUME Contains(line, ":") PROVE ParseLine(q, line) = After(r, Put(h, k, v), b, 1)
  <2>1. ParseLine(q, line) = ParseHeader(q, line)
    <3> HIDE DEF q
    <3> QED BY <1>0, <1>1, ParseLineHeader
  <2>2. ParseHeader(q, line) = [q EXCEPT !.headers = Put(q.headers, k, v)]
    <3> HIDE DEF q
    <3> QED BY DEF ParseHeader
  <2>3. q.headers = h
    BY DEF After
  <2>4. [q EXCEPT !.headers = Put(h, k, v)] = After(r, Put(h, k, v), b, 1)
    <3> HIDE DEF k, v
    <3> QED BY DEF After
  <2> QED BY <2>1, <2>2, <2>3, <2>4
<1>2. ASSUME ~Contains(line, ":"), line = <<>> PROVE ParseLine(q, line) = After(r, h, b, 2)
  <2>1. ParseLine(q, line) = [q EXCEPT !.processStatus = 2]
    <3> HIDE DEF q
    <3> QED BY <1>0, <1>2, ParseLineEmpty
  <2> QED BY <2>1 DEF After
<1>3. ASSUME ~Contains(line, ":"), line # <<>> PROVE ParseLine(q, line) = q
  <2> HIDE DEF q
  <2> QED BY <1>0, <1>3, ParseLineOther
<1>4. ParseLine(After(r, h, b, 2), line) = After(r, h, b \o line, 2)
  <2> DEFINE p == After(r, h, b, 2)
  <2>1. ParseLine(p, line) = [p EXCEPT !.body = p.body \o line]
    <3>1. p.processStatus = 2
      BY <1>0
    <3> HIDE DEF p
    <3> QED BY <3>1, ParseLineBody
  <2>2. p.body = b
    BY DEF After
  <2>3. \A c : [p EXCEPT !.body = c] = After(r, h, c, 2)
    BY DEF After
  <2> HIDE DEF p
  <2>4. ParseLine(p, line) = [p EXCEPT !.body = b \o line]
    BY <2>1, <2>2
  <2> QED BY <2>3, <2>4 DEF p
<1> QED BY <1>1, <1>2, <1>3, <1>4

\* No later line changes the method, the path or the version.
LEMMA LaterLines ==
  ASSUME NEW r \in Requests, NEW lines \in Seq(Seq(Elements))
  PROVE  \E h, b, s : /\ ParseLines(<<FirstLine(r)>> \o lines) = After(r, h, b, s)
                      /\ s \in {1, 2}
<1> DEFINE Good(q) == \E h, b, s : q = After(r, h, b, s) /\ s \in {1, 2}
           first == <<FirstLine(r)>>
           T == {L \in Seq(Seq(Elements)) : Good(ParseLines(first \o L))}
           W == Seq(Elements)
<1>0. first \in Seq(Seq(Elements))
  <2>1. FirstLine(r) \in W
    BY FirstLineType
  <2> HIDE DEF W
  <2>2. <<FirstLine(r)>> \in Seq(W)
    BY <2>1
  <2> QED BY <2>2 DEF W
<1>1. <<>> \in T
  <2>1. first \o <<>> = first
    BY <1>0, ConcatEmptySeq
  <2>2. Good(ParseLines(first))
    BY FirstLineParsed
  <2> HIDE DEF Good, first
  <2>3. Good(ParseLines(first \o <<>>))
    BY <2>1, <2>2
  <2> QED BY <2>3, EmptySeq
<1>2. ASSUME NEW L \in Seq(W), NEW line \in W, L \in T PROVE Append(L, line) \in T
  <2>1. PICK h, b, s : ParseLines(first \o L) = After(r, h, b, s) /\ s \in {1, 2}
    BY <1>2
  <2>2. Good(ParseLine(After(r, h, b, s), line))
    <3>0. \A c, d, n : n \in {1, 2} => Good(After(r, c, d, n))
      OBVIOUS
    <3> HIDE DEF Good
    <3>a. \A c, d : Good(After(r, c, d, 1)) /\ Good(After(r, c, d, 2))
      BY <3>0
    <3>1. s = 1 \/ s = 2
      BY <2>1
    <3>2. CASE s = 1
      <4>1. CASE Contains(line, ":")
        <5>1. ParseLine(After(r, h, b, 1), line) =
                After(r, Put(h, Trim(Split(Trim(line), ":")[1]),
                                Trim(Split(Trim(line), ":")[2])), b, 1)
          BY <4>1, LaterLine
        <5> QED BY <3>a, <3>2, <5>1
      <4>2. CASE ~Contains(line, ":") /\ line = <<>>
        <5>1. ParseLine(After(r, h, b, 1), line) = After(r, h, b, 2)
          BY <4>2, LaterLine
        <5> QED BY <3>a, <3>2, <5>1
      <4>3. CASE ~Contains(line, ":") /\ line # <<>>
        <5>1. ParseLine(After(r, h, b, 1), line) = After(r, h, b, 1)
          BY <4>3, LaterLine
        <5> QED BY <3>a, <3>2, <5>1
      <4> QED BY <4>1, <4>2, <4>3
    <3>3. CASE s = 2
      <4>1. ParseLine(After(r, h, b, 2), line) = After(r, h, b \o line, 2)
        BY LaterLine
      <4> QED BY <3>a, <3>3, <4>1
    <3> QED BY <3>1, <3>2, <3>3
  <2>3. first \o Append(L, line) = Append(first \o L, line)
    <3> HIDE DEF W, first
    <3>1. PICK f \in Seq(W) : f = first
      BY <1>0 DEF W
    <3>2. f \o Append(L, line) = Append(f \o L, line)
      BY ONLY TRUE
    <3> QED BY <3>1, <3>2
  <2>4. first \o L \in Seq(W) /\ Append(L, line) \in Seq(W)
    <3> HIDE DEF first
    <3> QED BY <1>0, ConcatProperties, AppendProperties
  <2> HIDE DEF first, Good, W
  <2>5. ParseLines(Append(first \o L, line)) = ParseLine(ParseLines(first \o L), line)
    BY <2>4, ParseLinesAppend
  <2>6. Good(ParseLines(first \o Append(L, line)))
    BY <2>1, <2>2, <2>3, <2>5
  <2> QED BY <2>4, <2>6 DEF W
<1> HIDE DEF T
<1>3. lines \in T
  BY <1>1, <1>2, AllSequences
<1> QED BY <1>3 DEF T

\* A message that begins with a request line is a request with its method and its path,
\* whatever its headers and its body are.
THEOREM MeaningOfMessage ==
  ASSUME NEW r \in Requests, r.whole
  PROVE  /\ Parse(Encode(r)).method = String2Method(<<r.method>>)
         /\ Parse(Encode(r)).path = Path(r)
<1> DEFINE lines == Split(Rest(r), "\n")
<1>1. FirstLine(r) \in Seq(Elements) /\ Rest(r) \in Seq(Elements)
      /\ Encode(r) = FirstLine(r) \o <<"\n">> \o Rest(r)
  BY EncodeWhole
<1>2. Split(Encode(r), "\n") = <<FirstLine(r)>> \o lines
  <2>1. Split(FirstLine(r) \o <<"\n">> \o Rest(r), "\n") = Split(FirstLine(r), "\n") \o Split(Rest(r), "\n")
    BY <1>1, Literals, SplitConcat
  <2> QED BY <1>1, <2>1, FirstLineSplit
<1>3. lines \in Seq(Seq(Elements))
  BY <1>1, SplitType
<1> HIDE DEF lines
<1>4. PICK h, b, s : ParseLines(<<FirstLine(r)>> \o lines) = After(r, h, b, s)
  BY <1>3, LaterLines
<1>5. Parse(Encode(r)) = After(r, h, b, s)
  BY <1>2, <1>4 DEF Parse, ParseLines
<1> QED BY <1>5 DEF After

-----------------------------------------------------------------------------
(* A pattern and a path.                                                   *)

\* The loop over the parts finds one that is neither a key nor equal if there is one
\* (http/HttpRouter.cpp:52-73).
LEMMA FirstUnequalIs ==
  ASSUME NEW a, NEW p, Len(a) \in Nat
  PROVE  /\ FirstUnequal(a, p) \in 1..Len(a) + 1
         /\ FirstUnequal(a, p) > Len(a) <=> \A i \in 1..Len(a) : IsKey(p[i]) \/ a[i] = p[i]
<1> DEFINE U == {i \in 1..Len(a) : ~IsKey(p[i]) /\ a[i] # p[i]}
           t == U \cup {Len(a) + 1}
<1>1. t \in SUBSET Nat /\ t # {} /\ Len(a) + 1 \in t /\ U \subseteq t
  OBVIOUS
<1>2. t \subseteq 1..Len(a) + 1
  OBVIOUS
<1>3. Min(t) \in t /\ \A m \in t : Min(t) <= m
  <2> HIDE DEF t
  <2> QED BY <1>1, LeastIn
<1>4. Min(t) = FirstUnequal(a, p)
  BY DEF FirstUnequal
<1>5. FirstUnequal(a, p) > Len(a) <=> U = {}
  <2> HIDE DEF t
  <2>1. \A i \in U : Min(t) <= i
    BY <1>1, <1>3
  <2>2. \A i \in U : i <= Len(a) /\ i \in Nat
    OBVIOUS
  <2> HIDE DEF U
  <2>3. Min(t) \in Nat
    BY <1>1, <1>3
  <2>4. U # {} => Min(t) <= Len(a)
    BY <2>1, <2>2, <2>3
  <2>5. U = {} => Min(t) = Len(a) + 1
    BY <1>3 DEF t
  <2> QED BY <1>4, <2>3, <2>4, <2>5
<1> HIDE DEF t
<1>6. FirstUnequal(a, p) \in 1..Len(a) + 1
  BY <1>2, <1>3, <1>4
<1> QED BY <1>5, <1>6

\* The parts of a path with a slash.
LEMMA SplitPathType ==
  ASSUME NEW path \in Seq(STRING), Contains(path, "/")
  PROVE  SplitPath(path) \in Seq(Seq(STRING \cup {"/"}))
<1> DEFINE V == STRING \cup {"/"}
<1>1. PICK k \in 1..Len(path) : path[k] = "/"
  BY DEF Contains
<1>2. path \in Seq(V) /\ Len(path) \in Nat
  <2>1. STRING \subseteq V
    OBVIOUS
  <2> HIDE DEF V
  <2> QED BY <2>1, SeqMonotonic, LenProperties
<1> DEFINE a == SubSeq(path, 1, k - 1)
           b == SubSeq(path, k + 1, Len(path))
<1>3. a \in Seq(V) /\ b \in Seq(V) /\ path = a \o <<"/">> \o b
  <2> HIDE DEF V
  <2>1. k \in 0..Len(path) /\ k - 1 \in 0..Len(path) /\ k \in Nat
    BY <1>2
  <2>2. /\ a \in Seq(V) /\ b \in Seq(V)
        /\ SubSeq(path, 1, k) \o b = path
    BY <1>2, <2>1, CutInTwo
  <2>3. SubSeq(path, 1, k) = Append(a, "/")
    BY <1>1, <1>2
  <2>4. Append(a, "/") = a \o <<"/">>
    BY <2>2
  <2> QED BY <2>2, <2>3, <2>4
<1> HIDE DEF a, b
<1>4. Split(path, "/") = Split(a, "/") \o Split(b, "/")
  <2>1. "/" \in V
    OBVIOUS
  <2> HIDE DEF V
  <2> QED BY <1>3, <2>1, SplitConcat
<1>5. PICK W : W = Seq(V)
  OBVIOUS
<1>6. PICK p \in Seq(W), q \in Seq(W) :
        p = Split(a, "/") /\ q = Split(b, "/") /\ p # <<>> /\ q # <<>>
  BY <1>3, <1>5, SplitType
<1>7. Split(path, "/") = p \o q
  BY <1>4, <1>6
<1>8. Tail(p \o q) = Tail(p) \o q
  BY <1>6, HeadTailOfConcat
<1>9. Tail(p) \in Seq(W)
  BY <1>6
<1> DEFINE parts == Tail(p) \o q
<1>10. parts \in Seq(W) /\ parts # <<>>
  <2>1. Len(q) \in Nat /\ Len(q) # 0 /\ Len(Tail(p)) \in Nat
    BY <1>6, <1>9, EmptySeq, LenProperties
  <2>2. parts \in Seq(W) /\ Len(parts) = Len(Tail(p)) + Len(q)
    BY <1>9, ConcatProperties
  <2> HIDE DEF parts
  <2> QED BY <2>1, <2>2, EmptySeq
<1> HIDE DEF parts
<1>11. Front(parts) \in Seq(W)
  <2>1. Len(parts) \in Nat /\ Len(parts) # 0
    BY <1>10, EmptySeq, LenProperties
  <2>2. SubSeq(parts, 1, Len(parts) - 1) \in Seq(W)
    BY <1>10, <2>1
  <2> QED BY <2>2 DEF Front
<1>12. SplitPath(path) = IF Last(parts) = <<>> THEN Front(parts) ELSE parts
  BY <1>7, <1>8 DEF SplitPath, parts
<1> QED BY <1>5, <1>10, <1>11, <1>12

\* A pattern has parts and a method.
LEMMA PatternSplit ==
  ASSUME NEW i \in 1..Len(Patterns)
  PROVE  /\ Len(SplitPath(Patterns[i].path)) \in Nat
         /\ Patterns[i].method \in {"GET", "POST", "UNKNOW"}
<1>1. Patterns[i] \in [method : {"GET", "POST", "UNKNOW"}, path : Seq(STRING)]
  BY RouterAssumption, ElementOfSeq
<1>2. Contains(Patterns[i].path, "/") /\ Patterns[i].path \in Seq(STRING)
  BY <1>1, RouterAssumption
<1>3. SplitPath(Patterns[i].path) \in Seq(Seq(STRING \cup {"/"}))
  BY <1>2, SplitPathType
<1> QED BY <1>1, <1>3, LenProperties

\* The parser's view of a method.
LEMMA MethodOf ==
  ASSUME NEW m
  PROVE  String2Method(<<m>>) = IF m \in {"GET", "POST"} THEN m ELSE "UNKNOW"
<1>1. <<m>> = <<"GET">> <=> m = "GET"
  OBVIOUS
<1>2. <<m>> = <<"POST">> <=> m = "POST"
  OBVIOUS
<1> QED BY <1>1, <1>2 DEF String2Method

\* What a thread knows of the request it searches for: method and parts of the path.
LEMMA AskedParsed ==
  ASSUME NEW r \in Requests, r.whole, Contains(Parse(Encode(r)).path, "/")
  PROVE  /\ Parse(Encode(r)).method = IF r.method \in {"GET", "POST"} THEN r.method ELSE "UNKNOW"
         /\ SplitPath(Parse(Encode(r)).path) = Parts(r.path)
         /\ Len(Parts(r.path)) = Len(r.path) /\ Len(r.path) \in Nat
<1>1. Parse(Encode(r)).method = String2Method(<<r.method>>) /\ Parse(Encode(r)).path = Path(r)
  BY MeaningOfMessage
<1>2. r.path # <<"*">>
  <2>1. SUFFICES ASSUME r.path = <<"*">> PROVE FALSE
    OBVIOUS
  <2>2. Path(r) = <<"*">>
    BY <2>1 DEF Path
  <2>3. Contains(<<"*">>, "/")
    BY <1>1, <2>2
  <2> QED BY <2>3 DEF Contains
<1>3. r.path \in Seq(Words)
  BY PieceTypes
<1> QED BY <1>1, <1>2, <1>3, MethodOf, SegmentsOfPath, PartsType, LenProperties

\* The tests of the loop decide whether the pattern fits.
LEMMA FitsIs ==
  ASSUME NEW r \in Requests, NEW i \in 1..Len(Patterns), r.whole,
         Contains(Parse(Encode(r)).path, "/")
  PROVE  LET arrPath == SplitPath(Parse(Encode(r)).path)
             arrPatt == SplitPath(Patterns[i].path) IN
         Fits(r, i) <=>
           /\ Parse(Encode(r)).method = Patterns[i].method
           /\ Len(arrPath) = Len(arrPatt)
           /\ FirstUnequal(arrPath, arrPatt) > Len(arrPath)
<1> DEFINE a == Parts(r.path)
           p == SplitPath(Patterns[i].path)
<1>1. /\ Parse(Encode(r)).method = IF r.method \in {"GET", "POST"} THEN r.method ELSE "UNKNOW"
      /\ SplitPath(Parse(Encode(r)).path) = a
      /\ Len(a) = Len(r.path) /\ Len(r.path) \in Nat
  BY AskedParsed
<1>2. \A n \in 1..Len(r.path) : a[n] = <<r.path[n]>>
  BY DEF Parts
<1>3. FirstUnequal(a, p) > Len(a) <=> \A n \in 1..Len(a) : IsKey(p[n]) \/ a[n] = p[n]
  <2> HIDE DEF a, p
  <2> QED BY <1>1, FirstUnequalIs
<1>4. Fits(r, i) <=>
        /\ Patterns[i].method = IF r.method \in {"GET", "POST"} THEN r.method ELSE "UNKNOW"
        /\ Len(r.path) = Len(p)
        /\ \A n \in 1..Len(p) : IsKey(p[n]) \/ p[n] = <<r.path[n]>>
  BY DEF Fits
<1> HIDE DEF a, p
<1>5. Len(a) = Len(p) =>
        ((\A n \in 1..Len(p) : IsKey(p[n]) \/ p[n] = <<r.path[n]>>)
           <=> FirstUnequal(a, p) > Len(a))
  BY <1>1, <1>2, <1>3
<1>6. Fits(r, i) <=>
        /\ Parse(Encode(r)).method = Patterns[i].method
        /\ Len(a) = Len(p)
        /\ FirstUnequal(a, p) > Len(a)
  BY <1>1, <1>4, <1>5
<1> QED BY <1>1, <1>6 DEF p

\* The keys that are stored are those of the pattern, each with a part in its place.
LEMMA ParametersFound ==
  ASSUME NEW r \in Requests, NEW i \in 1..Len(Patterns), r.whole,
         Contains(Parse(Encode(r)).path, "/"),
         Len(SplitPath(Parse(Encode(r)).path)) = Len(SplitPath(Patterns[i].path))
  PROVE  LET arrPath == SplitPath(Parse(Encode(r)).path)
             arrPatt == SplitPath(Patterns[i].path) IN
         ParametersOf(r, i, Over(KeysBound(arrPath, arrPatt, Len(arrPath)), EmptyMap))
<1> DEFINE a == SplitPath(Parse(Encode(r)).path)
           p == SplitPath(Patterns[i].path)
           keys == {n \in 1..Len(p) : IsKey(p[n])}
           names == {KeyName(p[n]) : n \in keys}
           bound == KeysBound(a, p, Len(a))
           kvs == Over(bound, EmptyMap)
<1>1. /\ Len(a) = Len(p) /\ Len(p) \in Nat /\ Len(p) = Len(r.path)
      /\ \A n \in 1..Len(p) : a[n] = <<r.path[n]>>
  <2>1. a = Parts(r.path) /\ Len(a) = Len(r.path) /\ Len(r.path) \in Nat
    BY AskedParsed
  <2> HIDE DEF a, p
  <2> QED BY <2>1 DEF Parts, a, p
<1> HIDE DEF a, p
<1>2. bound = [k \in names |-> a[Max({n \in keys : KeyName(p[n]) = k})]]
  BY <1>1 DEF KeysBound
<1>3. \A k \in names : Max({n \in keys : KeyName(p[n]) = k}) \in {n \in keys : KeyName(p[n]) = k}
  <2>1. ASSUME NEW k \in names
        PROVE  Max({n \in keys : KeyName(p[n]) = k}) \in {n \in keys : KeyName(p[n]) = k}
    <3> DEFINE t == {n \in keys : KeyName(p[n]) = k}
    <3>1. t \in SUBSET (1..Len(p)) /\ t # {}
      OBVIOUS
    <3> HIDE DEF t
    <3>2. Max(t) \in t
      BY <1>1, <3>1, GreatestIn
    <3> QED BY <3>2 DEF t
  <2> QED BY <2>1
<1>4. DOMAIN kvs = names /\ \A k \in names : kvs[k] = bound[k]
  <2>1. DOMAIN bound = names
    BY <1>2
  <2> HIDE DEF bound, names
  <2> QED BY <2>1 DEF Over, EmptyMap
<1>5. \A k \in names : \E n \in keys : KeyName(p[n]) = k /\ kvs[k] = <<r.path[n]>>
  <2>1. ASSUME NEW k \in names
        PROVE  \E n \in keys : KeyName(p[n]) = k /\ kvs[k] = <<r.path[n]>>
    <3> DEFINE n == Max({m \in keys : KeyName(p[m]) = k})
    <3>1. n \in keys /\ KeyName(p[n]) = k /\ n \in 1..Len(p)
      BY <1>3
    <3>2. kvs[k] = a[n]
      BY <1>2, <1>4
    <3> HIDE DEF n, kvs
    <3>3. a[n] = <<r.path[n]>>
      BY <1>1, <3>1
    <3> QED BY <3>1, <3>2, <3>3
  <2> QED BY <2>1
<1> HIDE DEF kvs
<1>6. ParametersOf(r, i, kvs)
  BY <1>4, <1>5 DEF ParametersOf, p
<1> QED BY <1>6 DEF kvs, bound, a, p

-----------------------------------------------------------------------------
(* The threads.                                                            *)

\* The router invariant holds before the first message.
LEMMA InitInv == Init => RouterInv
<1> SUFFICES ASSUME Init PROVE RouterInv
  OBVIOUS
<1>1. Len(Patterns) \in Nat
  BY RouterAssumption, LenProperties
<1>2. NoRequest \in Requests
  BY ClientAssumption DEF NoRequest
<1>3. TypeOK
  BY <1>1, <1>2 DEF Init, TypeOK
<1>4. CachedIsSplit /\ SplitWhenUsed
  BY DEF Init, CachedIsSplit, SplitWhenUsed
<1>5. RequestOfMessage /\ SlashInPath
  BY DEF Init, RequestOfMessage, SlashInPath
<1>6. SearchedInOrder /\ AnswerRight
  BY DEF Init, SearchedInOrder, AnswerRight
<1> QED BY <1>3, <1>4, <1>5, <1>6 DEF RouterInv

\* A search that has passed the first i patterns goes on, or ends.
LEMMA NextPatternType ==
  ASSUME TypeOK, NEW t \in Threads, NEW i \in 0..Len(Patterns), NextPattern(t, i)
  PROVE  /\ idx' \in [Threads -> 0..Len(Patterns)]
         /\ pc' \in [Threads -> {"idle", "test", "split", "assign", "mark", "match", "copy",
                                 "answer"}]
         /\ pc'[t] \in {"test", "answer"}
         /\ pc'[t] = "test" => idx'[t] = i + 1 /\ idx'[t] # 0 /\ i < Len(Patterns)
         /\ pc'[t] = "answer" => idx'[t] = 0 /\ i = Len(Patterns)
         /\ \A u \in Threads \ {t} : pc'[u] = pc[u] /\ idx'[u] = idx[u]
<1>1. Len(Patterns) \in Nat
  BY RouterAssumption, LenProperties
<1> QED BY <1>1 DEF NextPattern, TypeOK

\* Every step keeps the types.
LEMMA TypeStep ==
  ASSUME TypeOK, [Next]_vars
  PROVE  TypeOK'
<1> DEFINE Splits == {<<>>} \cup {SplitPath(Patterns[i].path) : i \in 1..Len(Patterns)}
           States == {"idle", "test", "split", "assign", "mark", "match", "copy", "answer"}
<1>0. Len(Patterns) \in Nat /\ NoRequest \in Requests
  BY RouterAssumption, LenProperties, ClientAssumption DEF NoRequest
<1>1. ASSUME NEW t \in Threads, NEW r \in Requests, OnMessage(t, r) PROVE TypeOK'
  <2>1. NextPattern(t, 0) /\ 0 \in 0..Len(Patterns)
    BY <1>0, <1>1 DEF OnMessage
  <2>2. idx' \in [Threads -> 0..Len(Patterns)] /\ pc' \in [Threads -> States]
        /\ pc'[t] \in {"test", "answer"} /\ (pc'[t] = "test" => idx'[t] # 0)
        /\ \A u \in Threads \ {t} : pc'[u] = pc[u] /\ idx'[u] = idx[u]
    BY <2>1, NextPatternType
  <2>3. process' \in {"running", "undefined"} /\ asked' \in [Threads -> Requests]
        /\ DOMAIN request' = Threads /\ DOMAIN outKvs' = Threads
        /\ splited' = splited /\ cached' = cached
    BY <1>1 DEF OnMessage, TypeOK
  <2> QED BY <2>2, <2>3 DEF TypeOK
<1>2. ASSUME NEW t \in Threads, SkipMethod(t) \/ SkipLength(t) PROVE TypeOK'
  <2>1. NextPattern(t, idx[t]) /\ idx[t] \in 0..Len(Patterns)
    BY <1>2 DEF SkipMethod, SkipLength, TypeOK
  <2>2. idx' \in [Threads -> 0..Len(Patterns)] /\ pc' \in [Threads -> States]
        /\ pc'[t] \in {"test", "answer"} /\ (pc'[t] = "test" => idx'[t] # 0)
        /\ \A u \in Threads \ {t} : pc'[u] = pc[u] /\ idx'[u] = idx[u]
    BY <2>1, NextPatternType
  <2> QED BY <1>2, <2>2 DEF SkipMethod, SkipLength, TypeOK
<1>3. ASSUME NEW t \in Threads, TestCached(t) \/ BeginAssign(t) \/ MarkCached(t) PROVE TypeOK'
  <2>1. idx[t] \in 1..Len(Patterns)
    BY <1>0, <1>3 DEF TestCached, BeginAssign, MarkCached, TypeOK
  <2> QED BY <1>3, <2>1 DEF TestCached, BeginAssign, MarkCached, TypeOK
<1>4. ASSUME NEW t \in Threads, EndAssign(t) PROVE TypeOK'
  <2>1. idx[t] \in 1..Len(Patterns)
    BY <1>0, <1>4 DEF EndAssign, TypeOK
  <2>2. splited' \in [1..Len(Patterns) -> Splits]
    BY <1>4, <2>1 DEF EndAssign, TypeOK
  <2> QED BY <1>4, <2>1, <2>2 DEF EndAssign, TypeOK
<1>5. ASSUME NEW t \in Threads, Match(t) PROVE TypeOK'
  <2>1. CASE pc' = [pc EXCEPT ![t] = "copy"] /\ UNCHANGED idx
    BY <1>5, <2>1 DEF Match, TypeOK
  <2>2. CASE NextPattern(t, idx[t])
    <3>1. idx[t] \in 0..Len(Patterns)
      BY DEF TypeOK
    <3>2. idx' \in [Threads -> 0..Len(Patterns)] /\ pc' \in [Threads -> States]
          /\ pc'[t] \in {"test", "answer"} /\ (pc'[t] = "test" => idx'[t] # 0)
          /\ \A u \in Threads \ {t} : pc'[u] = pc[u] /\ idx'[u] = idx[u]
      BY <2>2, <3>1, NextPatternType
    <3>3. UNCHANGED <<splited, cached, process, asked, request>> /\ DOMAIN outKvs' = Threads
      BY <1>5 DEF Match, TypeOK
    <3> QED BY <3>2, <3>3 DEF TypeOK
  <2> QED BY <1>5, <2>1, <2>2 DEF Match
<1>6. ASSUME NEW t \in Threads, CopyPattern(t) PROVE TypeOK'
  BY <1>6 DEF CopyPattern, TypeOK
<1>7. ASSUME NEW t \in Threads, Answer(t) PROVE TypeOK'
  BY <1>0, <1>7 DEF Answer, TypeOK
<1>8. ASSUME UNCHANGED vars PROVE TypeOK'
  BY <1>8 DEF vars, TypeOK
<1> QED BY <1>1, <1>2, <1>3, <1>4, <1>5, <1>6, <1>7, <1>8 DEF Next, Route, Undefined

\* The split form of a pattern, once in place, stays.
LEMMA SharedStep ==
  ASSUME TypeOK, CachedIsSplit, SplitWhenUsed, [Next]_vars
  PROVE  CachedIsSplit' /\ SplitWhenUsed'
<1>1. ASSUME NEW t \in Threads, NEW i \in 0..Len(Patterns), NextPattern(t, i),
             UNCHANGED <<splited, cached>>, process = "running"
      PROVE  CachedIsSplit' /\ SplitWhenUsed'
  <2>1. pc'[t] \in {"test", "answer"} /\ \A u \in Threads \ {t} : pc'[u] = pc[u] /\ idx'[u] = idx[u]
    BY <1>1, NextPatternType
  <2> QED BY <1>1, <2>1 DEF CachedIsSplit, SplitWhenUsed
<1>2. ASSUME NEW t \in Threads, NEW r \in Requests, OnMessage(t, r)
      PROVE  CachedIsSplit' /\ SplitWhenUsed'
  <2>1. Len(Patterns) \in Nat
    BY RouterAssumption, LenProperties
  <2> QED BY <1>1, <1>2, <2>1 DEF OnMessage
<1>3. ASSUME NEW t \in Threads, SkipMethod(t) \/ SkipLength(t)
      PROVE  CachedIsSplit' /\ SplitWhenUsed'
  <2>1. idx[t] \in 0..Len(Patterns)
    BY DEF TypeOK
  <2> QED BY <1>1, <1>3, <2>1 DEF SkipMethod, SkipLength
<1>4. ASSUME NEW t \in Threads, TestCached(t)
      PROVE  CachedIsSplit' /\ SplitWhenUsed'
  <2>1. CachedIsSplit'
    BY <1>4 DEF TestCached, CachedIsSplit
  <2>2. SplitWhenUsed'
    BY <1>4 DEF TestCached, CachedIsSplit, SplitWhenUsed, TypeOK
  <2> QED BY <2>1, <2>2
<1>5. ASSUME NEW t \in Threads, BeginAssign(t)
      PROVE  CachedIsSplit' /\ SplitWhenUsed'
  BY <1>5 DEF BeginAssign, CachedIsSplit, SplitWhenUsed, TypeOK
<1>6. ASSUME NEW t \in Threads, EndAssign(t)
      PROVE  CachedIsSplit' /\ SplitWhenUsed'
  <2>1. /\ process = "running" /\ idx[t] \in 1..Len(Patterns) /\ cached' = cached /\ idx' = idx
        /\ cached \subseteq 1..Len(Patterns)
        /\ \A u \in Threads : pc[u] \in {"mark", "match", "copy"} => idx[u] \in 1..Len(Patterns)
    <3>1. process = "running" /\ pc[t] = "assign" /\ cached' = cached /\ idx' = idx
      BY <1>6 DEF EndAssign
    <3>2. \A u \in Threads : pc[u] \notin {"idle", "answer"} => idx[u] \in 1..Len(Patterns)
      <4>1. Len(Patterns) \in Nat
        BY RouterAssumption, LenProperties
      <4>2. \A u \in Threads : idx[u] \in 0..Len(Patterns)
        BY DEF TypeOK
      <4> QED BY <4>1, <4>2 DEF TypeOK
    <3>3. idx[t] \in 1..Len(Patterns)
      BY <3>1, <3>2
    <3>4. \A u \in Threads : pc[u] \in {"mark", "match", "copy"} => idx[u] \in 1..Len(Patterns)
      BY <3>2
    <3> QED BY <3>1, <3>3, <3>4 DEF TypeOK
  <2>2. \A i \in 1..Len(Patterns) :
          splited'[i] = IF i = idx[t] THEN SplitPath(Patterns[i].path) ELSE splited[i]
    BY <1>6, <2>1 DEF EndAssign, TypeOK
  <2>3. CachedIsSplit'
    BY <2>1, <2>2 DEF CachedIsSplit
  <2>4. \A u \in Threads : pc'[u] = IF u = t THEN "mark" ELSE pc[u]
    BY <1>6 DEF EndAssign, TypeOK
  <2>5. SplitWhenUsed'
    BY <2>1, <2>2, <2>4 DEF SplitWhenUsed
  <2> QED BY <2>3, <2>5
<1>7. ASSUME NEW t \in Threads, MarkCached(t)
      PROVE  CachedIsSplit' /\ SplitWhenUsed'
  <2>1. process = "running" /\ splited[idx[t]] = SplitPath(Patterns[idx[t]].path)
    BY <1>7 DEF MarkCached, SplitWhenUsed
  <2>2. CachedIsSplit'
    BY <1>7, <2>1 DEF MarkCached, CachedIsSplit
  <2>3. SplitWhenUsed'
    BY <1>7, <2>1 DEF MarkCached, SplitWhenUsed, TypeOK
  <2> QED BY <2>2, <2>3
<1>8. ASSUME NEW t \in Threads, Match(t)
      PROVE  CachedIsSplit' /\ SplitWhenUsed'
  <2>1. CASE pc' = [pc EXCEPT ![t] = "copy"] /\ UNCHANGED idx
    <3>1. pc[t] = "match" /\ process = "running" /\ UNCHANGED <<splited, cached, process>>
      BY <1>8 DEF Match
    <3>2. \A u \in Threads : pc'[u] \in {"mark", "match", "copy"} => pc[u] \in {"mark", "match", "copy"}
      BY <2>1, <3>1 DEF TypeOK
    <3> QED BY <2>1, <3>1, <3>2 DEF CachedIsSplit, SplitWhenUsed
  <2>2. CASE NextPattern(t, idx[t])
    <3>1. idx[t] \in 0..Len(Patterns)
      BY DEF TypeOK
    <3>2. process = "running" /\ UNCHANGED <<splited, cached>>
      BY <1>8 DEF Match
    <3> QED BY <1>1, <2>2, <3>1, <3>2
  <2> QED BY <1>8, <2>1, <2>2 DEF Match
<1>9. ASSUME NEW t \in Threads, CopyPattern(t) \/ Answer(t)
      PROVE  CachedIsSplit' /\ SplitWhenUsed'
  <2>1. process = "running" /\ UNCHANGED <<splited, cached, process>>
    BY <1>9 DEF CopyPattern, Answer
  <2>2. \A u \in Threads : pc'[u] \in {"mark", "match", "copy"} =>
          pc[u] \in {"mark", "match", "copy"} /\ idx'[u] = idx[u]
    BY <1>9 DEF CopyPattern, Answer, TypeOK
  <2> QED BY <2>1, <2>2 DEF CachedIsSplit, SplitWhenUsed
<1>10. ASSUME UNCHANGED vars
       PROVE  CachedIsSplit' /\ SplitWhenUsed'
  BY <1>10 DEF vars, CachedIsSplit, SplitWhenUsed
<1> QED BY <1>2, <1>3, <1>4, <1>5, <1>6, <1>7, <1>8, <1>9, <1>10 DEF Next, Route,
     Undefined

\* The request of a thread stays that of its message until it is answered.
LEMMA RequestStep ==
  ASSUME TypeOK, RequestOfMessage, SlashInPath, [Next]_vars
  PROVE  RequestOfMessage' /\ SlashInPath'
<1>1. ASSUME NEW t \in Threads, NEW r \in Requests, OnMessage(t, r)
      PROVE  RequestOfMessage' /\ SlashInPath'
  <2>1. NextPattern(t, 0) /\ process = "running"
    BY <1>1 DEF OnMessage
  <2>2. pc'[t] \in {"test", "answer"} /\ \A u \in Threads \ {t} : pc'[u] = pc[u]
    <3>1. 0 \in 0..Len(Patterns)
      BY RouterAssumption, LenProperties
    <3> QED BY <2>1, <3>1, NextPatternType
  <2>3. /\ asked'[t] = r /\ request'[t] = Parse(Encode(r))
        /\ \A u \in Threads \ {t} : asked'[u] = asked[u] /\ request'[u] = request[u]
    BY <1>1 DEF OnMessage, TypeOK
  <2>4. process' = "running" => Contains(request'[t].path, "/")
    BY <1>1 DEF OnMessage
  <2>5. RequestOfMessage'
    BY <2>2, <2>3 DEF RequestOfMessage
  <2>6. SlashInPath'
    BY <2>1, <2>2, <2>3, <2>4 DEF SlashInPath
  <2> QED BY <2>5, <2>6
<1>2. ASSUME UNCHANGED <<asked, request>>, process' = "running" => process = "running",
             \A u \in Threads : pc'[u] = "idle" <=> pc[u] = "idle"
      PROVE  RequestOfMessage' /\ SlashInPath'
  BY <1>2 DEF RequestOfMessage, SlashInPath
<1>3. ASSUME NEW t \in Threads, SkipMethod(t) \/ SkipLength(t) \/ Match(t)
      PROVE  RequestOfMessage' /\ SlashInPath'
  <2>1. /\ UNCHANGED <<asked, request, process>> /\ pc[t] # "idle"
        /\ NextPattern(t, idx[t]) \/ pc' = [pc EXCEPT ![t] = "copy"]
    BY <1>3 DEF SkipMethod, SkipLength, Match
  <2>2. \A u \in Threads : pc'[u] = "idle" <=> pc[u] = "idle"
    <3>1. CASE NextPattern(t, idx[t])
      <4>1. idx[t] \in 0..Len(Patterns)
        BY DEF TypeOK
      <4>2. pc'[t] \in {"test", "answer"} /\ \A u \in Threads \ {t} : pc'[u] = pc[u]
        BY <3>1, <4>1, NextPatternType
      <4> QED BY <2>1, <4>2
    <3>2. CASE pc' = [pc EXCEPT ![t] = "copy"]
      BY <2>1, <3>2 DEF TypeOK
    <3> QED BY <2>1, <3>1, <3>2
  <2> QED BY <1>2, <2>1, <2>2
<1>4. ASSUME NEW t \in Threads,
             \/ TestCached(t) \/ BeginAssign(t) \/ EndAssign(t) \/ MarkCached(t) \/ CopyPattern(t)
      PROVE  RequestOfMessage' /\ SlashInPath'
  <2>1. UNCHANGED <<asked, request>> /\ process = "running" /\ pc[t] # "idle"
    BY <1>4 DEF TestCached, BeginAssign, EndAssign, MarkCached, CopyPattern
  <2>2. \A u \in Threads : pc'[u] = "idle" <=> pc[u] = "idle"
    BY <1>4, <2>1 DEF TestCached, BeginAssign, EndAssign, MarkCached, CopyPattern,
         TypeOK
  <2> QED BY <1>2, <2>1, <2>2
<1>5. ASSUME NEW t \in Threads, Answer(t)
      PROVE  RequestOfMessage' /\ SlashInPath'
  <2>1. /\ pc'[t] = "idle" /\ request'[t] = DefaultRequest /\ process' = process
        /\ \A u \in Threads \ {t} : pc'[u] = pc[u] /\ request'[u] = request[u] /\ asked'[u] = asked[u]
    BY <1>5 DEF Answer, TypeOK
  <2> QED BY <2>1 DEF RequestOfMessage, SlashInPath
<1>6. ASSUME UNCHANGED vars
      PROVE  RequestOfMessage' /\ SlashInPath'
  BY <1>6 DEF vars, RequestOfMessage, SlashInPath
<1> QED BY <1>1, <1>3, <1>4, <1>5, <1>6 DEF Next, Route, Undefined

\* A thread that has passed the first i patterns, none of which fits, has searched them.
LEMMA NextPatternSearched ==
  ASSUME TypeOK, NEW t \in Threads, NEW i \in 0..Len(Patterns), NextPattern(t, i),
         \A j \in 1..i : ~Fits(asked'[t], j), outKvs'[t] = EmptyMap
  PROVE  Searched(t)'
<1>1. /\ pc'[t] \in {"test", "answer"}
      /\ pc'[t] = "test" => idx'[t] = i + 1 /\ idx'[t] # 0
      /\ pc'[t] = "answer" => idx'[t] = 0 /\ i = Len(Patterns)
  BY NextPatternType
<1>2. \A j \in 1..(IF idx'[t] = 0 THEN Len(Patterns) ELSE idx'[t] - 1) : ~Fits(asked'[t], j)
  BY <1>1
<1> QED BY <1>1, <1>2 DEF Searched

\* The threads that do not move have searched as far as before.
LEMMA OthersSearched ==
  ASSUME SearchedInOrder, process = "running", NEW t \in Threads,
         \A u \in Threads \ {t} :
           /\ pc'[u] = pc[u] /\ idx'[u] = idx[u]
           /\ asked'[u] = asked[u] /\ request'[u] = request[u] /\ outKvs'[u] = outKvs[u],
         process' = "running" /\ pc'[t] # "idle" /\ asked'[t].whole => Searched(t)'
  PROVE  SearchedInOrder'
<1>1. ASSUME NEW u \in Threads \ {t}, pc'[u] # "idle", asked'[u].whole
      PROVE  Searched(u)'
  <2>1. Searched(u)
    BY <1>1 DEF SearchedInOrder
  <2> QED BY <2>1 DEF Searched
<1> QED BY <1>1 DEF SearchedInOrder

\* Every step of a search leaves behind it only patterns that do not fit.
LEMMA SearchedStep ==
  ASSUME TypeOK, SplitWhenUsed, RequestOfMessage, SlashInPath, SearchedInOrder, [Next]_vars
  PROVE  SearchedInOrder'
<1>0. Len(Patterns) \in Nat
  BY RouterAssumption, LenProperties
  \* Of a thread in the middle of a search.
<1>a. ASSUME NEW t \in Threads, process = "running", pc[t] \notin {"idle", "answer"}
      PROVE  /\ idx[t] \in 1..Len(Patterns) /\ idx[t] \in 0..Len(Patterns)
             /\ request[t] = Parse(Encode(asked[t])) /\ asked[t] \in Requests
             /\ Contains(request[t].path, "/")
             /\ asked[t].whole => Searched(t)
             /\ asked[t].whole => \A j \in 1..idx[t] - 1 : ~Fits(asked[t], j)
  <2>1. idx[t] \in 0..Len(Patterns) /\ idx[t] # 0 /\ asked[t] \in Requests
    BY <1>a DEF TypeOK
  <2>2. request[t] = Parse(Encode(asked[t])) /\ Contains(request[t].path, "/")
    BY <1>a DEF RequestOfMessage, SlashInPath
  <2>3. asked[t].whole => Searched(t)
    BY <1>a DEF SearchedInOrder
  <2> QED BY <1>0, <2>1, <2>2, <2>3 DEF Searched
<1>1. ASSUME NEW t \in Threads, NEW r \in Requests, OnMessage(t, r)
      PROVE  SearchedInOrder'
  <2>1. NextPattern(t, 0) /\ 0 \in 0..Len(Patterns) /\ process = "running"
    BY <1>0, <1>1 DEF OnMessage
  <2>2. \A u \in Threads \ {t} : pc'[u] = pc[u] /\ idx'[u] = idx[u]
    BY <2>1, NextPatternType
  <2>3. /\ outKvs'[t] = EmptyMap
        /\ \A u \in Threads \ {t} :
             asked'[u] = asked[u] /\ request'[u] = request[u] /\ outKvs'[u] = outKvs[u]
    BY <1>1 DEF OnMessage, TypeOK
  <2>4. Searched(t)'
    <3>1. \A j \in 1..0 : ~Fits(asked'[t], j)
      OBVIOUS
    <3> QED BY <2>1, <2>3, <3>1, NextPatternSearched
  <2> QED BY <2>1, <2>2, <2>3, <2>4, OthersSearched
  \* A pattern that does not fit is passed.
<1>2. ASSUME NEW t \in Threads, process = "running", pc[t] \in {"test", "match"},
             NextPattern(t, idx[t]), UNCHANGED <<asked, request>>,
             outKvs'[t] = EmptyMap, \A u \in Threads \ {t} : outKvs'[u] = outKvs[u],
             asked[t].whole => ~Fits(asked[t], idx[t])
      PROVE  SearchedInOrder'
  <2>1. idx[t] \in 1..Len(Patterns) /\ idx[t] \in 0..Len(Patterns)
        /\ (asked[t].whole => \A j \in 1..idx[t] - 1 : ~Fits(asked[t], j))
    BY <1>2, <1>a
  <2>2. \A u \in Threads \ {t} : pc'[u] = pc[u] /\ idx'[u] = idx[u]
    BY <1>2, <2>1, NextPatternType
  <2>3. ASSUME asked'[t].whole PROVE Searched(t)'
    <3>1. \A j \in 1..idx[t] : ~Fits(asked'[t], j)
      BY <1>0, <1>2, <2>1, <2>3
    <3> QED BY <1>2, <2>1, <3>1, NextPatternSearched
  <2> QED BY <1>2, <2>2, <2>3, OthersSearched
<1>3. ASSUME NEW t \in Threads, SkipMethod(t)
      PROVE  SearchedInOrder'
  <2>1. /\ process = "running" /\ pc[t] = "test" /\ NextPattern(t, idx[t])
        /\ request[t].method # Patterns[idx[t]].method
        /\ UNCHANGED <<asked, request, outKvs>>
    BY <1>3 DEF SkipMethod
  <2>2. asked[t].whole => ~Fits(asked[t], idx[t])
    BY <1>a, <2>1, FitsIs
  <2>3. outKvs'[t] = EmptyMap \/ ~asked[t].whole
    BY <1>a, <2>1 DEF Searched
  <2>4. CASE asked[t].whole
    BY <1>2, <2>1, <2>2, <2>3, <2>4
  <2>5. CASE ~asked[t].whole
    <3>1. idx[t] \in 0..Len(Patterns)
      BY <1>a, <2>1
    <3>2. \A u \in Threads \ {t} : pc'[u] = pc[u] /\ idx'[u] = idx[u]
      BY <2>1, <3>1, NextPatternType
    <3> QED BY <2>1, <2>5, <3>2, OthersSearched
  <2> QED BY <2>4, <2>5
<1>4. ASSUME NEW t \in Threads, SkipLength(t)
      PROVE  SearchedInOrder'
  <2>1. /\ process = "running" /\ pc[t] = "match" /\ NextPattern(t, idx[t])
        /\ Len(SplitPath(request[t].path)) # Len(splited[idx[t]])
        /\ UNCHANGED <<asked, request, outKvs>>
    BY <1>4 DEF SkipLength
  <2>2. splited[idx[t]] = SplitPath(Patterns[idx[t]].path)
    BY <2>1 DEF SplitWhenUsed
  <2>3. asked[t].whole => ~Fits(asked[t], idx[t])
    BY <1>a, <2>1, <2>2, FitsIs
  <2>4. outKvs'[t] = EmptyMap \/ ~asked[t].whole
    BY <1>a, <2>1 DEF Searched
  <2>5. CASE asked[t].whole
    BY <1>2, <2>1, <2>3, <2>4, <2>5
  <2>6. CASE ~asked[t].whole
    <3>1. idx[t] \in 0..Len(Patterns)
      BY <1>a, <2>1
    <3>2. \A u \in Threads \ {t} : pc'[u] = pc[u] /\ idx'[u] = idx[u]
      BY <2>1, <3>1, NextPatternType
    <3> QED BY <2>1, <2>6, <3>2, OthersSearched
  <2> QED BY <2>5, <2>6
<1>5. ASSUME NEW t \in Threads, TestCached(t)
      PROVE  SearchedInOrder'
  <2>1. /\ process = "running" /\ pc[t] = "test"
        /\ request[t].method = Patterns[idx[t]].method
        /\ UNCHANGED <<asked, request, idx, outKvs>>
        /\ pc'[t] \in {"match", "split"}
        /\ \A u \in Threads \ {t} : pc'[u] = pc[u]
    BY <1>5 DEF TestCached, TypeOK
  <2>2. asked'[t].whole => Searched(t)'
    BY <1>a, <2>1 DEF Searched
  <2> QED BY <2>1, <2>2, OthersSearched
<1>6. ASSUME NEW t \in Threads, BeginAssign(t) \/ EndAssign(t) \/ MarkCached(t)
      PROVE  SearchedInOrder'
  <2>1. /\ process = "running" /\ pc[t] \in {"split", "assign", "mark"}
        /\ UNCHANGED <<asked, request, idx, outKvs>>
        /\ pc'[t] \in {"assign", "mark", "match"}
        /\ \A u \in Threads \ {t} : pc'[u] = pc[u]
    BY <1>6 DEF BeginAssign, EndAssign, MarkCached, TypeOK
  <2>2. asked'[t].whole => Searched(t)'
    BY <1>a, <2>1 DEF Searched
  <2> QED BY <2>1, <2>2, OthersSearched
<1>7. ASSUME NEW t \in Threads, Match(t)
      PROVE  SearchedInOrder'
  <2> DEFINE a == SplitPath(request[t].path)
             p == splited[idx[t]]
  <2>1. /\ process = "running" /\ pc[t] = "match" /\ Len(a) = Len(p)
        /\ UNCHANGED <<asked, request, process>>
        /\ \A u \in Threads \ {t} : outKvs'[u] = outKvs[u]
    BY <1>7 DEF Match, TypeOK
  <2>2. p = SplitPath(Patterns[idx[t]].path)
    BY <2>1 DEF SplitWhenUsed
  <2>3. /\ idx[t] \in 1..Len(Patterns) /\ idx[t] \in 0..Len(Patterns)
        /\ request[t] = Parse(Encode(asked[t])) /\ asked[t] \in Requests
        /\ Contains(request[t].path, "/")
        /\ (asked[t].whole => Searched(t))
    BY <1>a, <2>1
  <2>4. CASE /\ FirstUnequal(a, p) > Len(a)
             /\ outKvs' = [outKvs EXCEPT ![t] = Over(KeysBound(a, p, Len(a)), @)]
             /\ pc' = [pc EXCEPT ![t] = "copy"] /\ UNCHANGED idx
    <3>1. /\ pc'[t] = "copy" /\ \A u \in Threads \ {t} : pc'[u] = pc[u] /\ idx'[u] = idx[u]
          /\ outKvs'[t] = Over(KeysBound(a, p, Len(a)), outKvs[t])
      BY <2>4 DEF TypeOK
    <3>2. ASSUME asked'[t].whole PROVE Searched(t)'
      <4>1. asked[t].whole /\ asked'[t] = asked[t] /\ request'[t] = request[t] /\ idx'[t] = idx[t]
        BY <2>1, <2>4, <3>2
      <4>2. /\ outKvs[t] = EmptyMap
            /\ \A j \in 1..(IF idx[t] = 0 THEN Len(Patterns) ELSE idx[t] - 1) : ~Fits(asked[t], j)
            /\ request[t].method = Patterns[idx[t]].method
        BY <2>1, <2>3, <4>1 DEF Searched
      <4>3. Fits(asked[t], idx[t])
        <5>1. Fits(asked[t], idx[t]) <=>
                /\ request[t].method = Patterns[idx[t]].method
                /\ Len(a) = Len(p)
                /\ FirstUnequal(a, p) > Len(a)
          BY <2>2, <2>3, <4>1, FitsIs
        <5>2. FirstUnequal(a, p) > Len(a)
          BY <2>4
        <5>3. Len(a) = Len(p)
          BY <2>1
        <5>4. request[t].method = Patterns[idx[t]].method
          BY <4>2
        <5> HIDE DEF a, p
        <5> QED BY <5>1, <5>2, <5>3, <5>4, Zenon
      <4>4. ParametersOf(asked[t], idx[t], outKvs'[t])
        BY <2>1, <2>2, <2>3, <3>1, <4>1, <4>2, ParametersFound
      <4>5. idx[t] # 0
        BY <2>3
      <4> QED BY <3>1, <4>1, <4>2, <4>3, <4>4, <4>5 DEF Searched
    <3> QED BY <2>1, <3>1, <3>2, OthersSearched
  <2>5. CASE /\ FirstUnequal(a, p) <= Len(a)
             /\ outKvs' = [outKvs EXCEPT ![t] = EmptyMap]
             /\ NextPattern(t, idx[t])
    <3>1. outKvs'[t] = EmptyMap
      BY <2>5 DEF TypeOK
    <3>2. asked[t].whole => ~Fits(asked[t], idx[t])
      <4>1. SUFFICES ASSUME asked[t].whole PROVE ~(FirstUnequal(a, p) > Len(a))
        BY <2>2, <2>3, FitsIs
      <4>2. Len(a) \in Nat
        BY <2>3, <4>1, AskedParsed
      <4>3. FirstUnequal(a, p) \in 1..Len(a) + 1
        <5> HIDE DEF a, p
        <5> QED BY <4>2, FirstUnequalIs
      <4> HIDE DEF a, p
      <4> QED BY <2>5, <4>2, <4>3
    <3> QED BY <1>2, <2>1, <2>5, <3>1, <3>2
  <2> QED BY <1>7, <2>4, <2>5 DEF Match
<1>8. ASSUME NEW t \in Threads, CopyPattern(t)
      PROVE  SearchedInOrder'
  <2>1. /\ process = "running" /\ pc[t] = "copy" /\ UNCHANGED <<asked, request, idx, outKvs>>
        /\ pc'[t] = "answer" /\ \A u \in Threads \ {t} : pc'[u] = pc[u]
    BY <1>8 DEF CopyPattern, TypeOK
  <2>2. asked'[t].whole => Searched(t)'
    BY <1>a, <2>1 DEF Searched
  <2> QED BY <2>1, <2>2, OthersSearched
<1>9. ASSUME NEW t \in Threads, Answer(t)
      PROVE  SearchedInOrder'
  <2>1. /\ process = "running" /\ pc'[t] = "idle"
        /\ \A u \in Threads \ {t} :
             /\ pc'[u] = pc[u] /\ idx'[u] = idx[u]
             /\ asked'[u] = asked[u] /\ request'[u] = request[u] /\ outKvs'[u] = outKvs[u]
    BY <1>9 DEF Answer, TypeOK
  <2> QED BY <2>1, OthersSearched
<1>10. ASSUME UNCHANGED vars
       PROVE  SearchedInOrder'
  BY <1>10 DEF vars, SearchedInOrder, Searched
<1> QED BY <1>1, <1>3, <1>4, <1>5, <1>6, <1>7, <1>8, <1>9, <1>10 DEF Next, Route,
     Undefined

\* A search that is over has found the first pattern that fits, or there is none.
LEMMA AnswerOfSearch == TypeOK /\ SearchedInOrder => AnswerRight
<1> SUFFICES ASSUME TypeOK, SearchedInOrder, NEW t \in Threads,
                    process = "running", pc[t] = "answer", asked[t].whole
             PROVE  /\ idx[t] = Chosen(asked[t])
                    /\ idx[t] # 0 => ParametersOf(asked[t], idx[t], outKvs[t])
  BY DEF AnswerRight
<1> DEFINE r == asked[t]
           fitting == {i \in 1..Len(Patterns) : Fits(r, i)}
<1>0. Len(Patterns) \in Nat /\ idx[t] \in 0..Len(Patterns)
  BY RouterAssumption, LenProperties DEF TypeOK
<1>1. Searched(t)
  BY DEF SearchedInOrder
<1>2. CASE idx[t] = 0
  <2>1. \A i \in 1..Len(Patterns) : ~Fits(r, i)
    BY <1>1, <1>2 DEF Searched
  <2>2. fitting = {}
    BY <2>1
  <2>3. Chosen(r) = 0
    BY <2>2 DEF Chosen
  <2> QED BY <1>2, <2>3
<1>3. CASE idx[t] # 0
  <2>1. /\ \A i \in 1..idx[t] - 1 : ~Fits(r, i)
        /\ Fits(r, idx[t]) /\ ParametersOf(r, idx[t], outKvs[t])
    BY <1>1, <1>3 DEF Searched
  <2>2. idx[t] \in fitting /\ fitting \in SUBSET Nat
    BY <1>0, <1>3, <2>1
  <2>3. \A m \in fitting : m \in Nat /\ m >= idx[t]
    BY <1>0, <2>1
  <2> HIDE DEF fitting
  <2>4. Min(fitting) \in fitting /\ Min(fitting) <= idx[t]
    BY <2>2, LeastIn
  <2>5. Min(fitting) = idx[t]
    BY <1>0, <2>3, <2>4
  <2>6. Chosen(r) = Min(fitting)
    BY <2>2, Zenon DEF Chosen, fitting
  <2> QED BY <2>1, <2>5, <2>6
<1> QED BY <1>2, <1>3

\* The router invariant is inductive.
LEMMA InvStep == RouterInv /\ [Next]_vars => RouterInv'
<1> SUFFICES ASSUME RouterInv, [Next]_vars PROVE RouterInv'
  OBVIOUS
<1>0. /\ TypeOK /\ CachedIsSplit /\ SplitWhenUsed
      /\ RequestOfMessage /\ SlashInPath /\ SearchedInOrder
  BY DEF RouterInv
<1>1. TypeOK'
  BY <1>0, TypeStep
<1>2. CachedIsSplit' /\ SplitWhenUsed'
  BY <1>0, SharedStep
<1>3. RequestOfMessage' /\ SlashInPath'
  BY <1>0, RequestStep
<1>4. SearchedInOrder'
  BY <1>0, SearchedStep
<1>5. AnswerRight'
  BY <1>1, <1>4, AnswerOfSearch, PTL
<1> QED BY <1>1, <1>2, <1>3, <1>4, <1>5 DEF RouterInv

\* For any number of threads, any patterns of a router and any requests, in every interleaving of
\* the threads in HttpRouter::CheckPathPattern (http/HttpRouter.cpp:30-79): a pattern is marked as split
\* only with its split form in place, a thread uses it only then, a thread's request is that of its
\* message, its search has passed over patterns that do not fit and no others, and its answer is
\* the first pattern that fits, with the parameters of the path.
THEOREM RouterInvHolds == Spec => []RouterInv
BY InitInv, InvStep, PTL DEF Spec

\* The last of these alone, what a client sees: the handler of the first pattern that fits the
\* request is called with the parameters of its path (http/HttpRouter.cpp:12-23, 30-79).
THEOREM AnswerRightHolds == Spec => []AnswerRight
<1>1. RouterInv => AnswerRight
  BY DEF RouterInv
<1> QED BY <1>1, RouterInvHolds, PTL

\* One step of the end of the race.
LEMMA RaceStep ==
  ASSUME TypeOK, AllSplit, [Next]_vars
  PROVE  /\ AllSplit'
         /\ process' # process => \E t \in Threads : ~Contains(request'[t].path, "/")
<1>0. Len(Patterns) \in Nat
  BY RouterAssumption, LenProperties
<1>1. ASSUME NEW t \in Threads, NEW i \in 0..Len(Patterns), NextPattern(t, i), cached' = cached
      PROVE  AllSplit'
  <2>1. pc'[t] \in {"test", "answer"} /\ \A u \in Threads \ {t} : pc'[u] = pc[u]
    BY <1>1, NextPatternType
  <2> QED BY <1>1, <2>1 DEF AllSplit
<1>2. ASSUME NEW t \in Threads, NEW r \in Requests, OnMessage(t, r)
      PROVE  /\ AllSplit'
             /\ process' # process => ~Contains(request'[t].path, "/")
  <2>1. AllSplit'
    BY <1>0, <1>1, <1>2 DEF OnMessage
  <2> QED BY <1>2, <2>1 DEF OnMessage
<1>3. ASSUME NEW t \in Threads, SkipMethod(t) \/ SkipLength(t)
      PROVE  AllSplit' /\ process' = process
  <2>1. idx[t] \in 0..Len(Patterns)
    BY DEF TypeOK
  <2> QED BY <1>1, <1>3, <2>1 DEF SkipMethod, SkipLength
<1>4. ASSUME NEW t \in Threads, TestCached(t)
      PROVE  AllSplit' /\ process' = process
  <2>1. idx[t] \in 1..Len(Patterns)
    <3>1. idx[t] \in 0..Len(Patterns) /\ pc[t] = "test"
      BY <1>4 DEF TestCached, TypeOK
    <3> QED BY <1>0, <3>1 DEF TypeOK
  <2>2. idx[t] \in cached /\ ~ \E u \in Threads : Assigns(u, idx[t])
    BY <2>1 DEF AllSplit, Assigns
  <2> QED BY <1>4, <2>2 DEF TestCached, AllSplit, TypeOK
<1>5. ASSUME NEW t \in Threads, BeginAssign(t) \/ EndAssign(t)
      PROVE  FALSE
  BY <1>5 DEF BeginAssign, EndAssign, AllSplit
<1>6. ASSUME NEW t \in Threads, MarkCached(t)
      PROVE  AllSplit' /\ process' = process
  <2>1. idx[t] \in 1..Len(Patterns)
    <3>1. idx[t] \in 0..Len(Patterns) /\ pc[t] = "mark"
      BY <1>6 DEF MarkCached, TypeOK
    <3> QED BY <1>0, <3>1 DEF TypeOK
  <2>2. ~ \E u \in Threads : Assigns(u, idx[t])
    BY DEF AllSplit, Assigns
  <2> QED BY <1>6, <2>1, <2>2 DEF MarkCached, AllSplit, TypeOK
<1>7. ASSUME NEW t \in Threads, Match(t)
      PROVE  AllSplit' /\ process' = process
  <2>1. UNCHANGED <<cached, process>> /\ idx[t] \in 0..Len(Patterns)
    BY <1>7 DEF Match, TypeOK
  <2>2. NextPattern(t, idx[t]) \/ pc' = [pc EXCEPT ![t] = "copy"]
    BY <1>7 DEF Match
  <2>3. CASE NextPattern(t, idx[t])
    BY <1>1, <2>1, <2>3
  <2>4. CASE pc' = [pc EXCEPT ![t] = "copy"]
    BY <2>1, <2>4 DEF AllSplit, TypeOK
  <2> QED BY <2>2, <2>3, <2>4
<1>8. ASSUME NEW t \in Threads, CopyPattern(t) \/ Answer(t)
      PROVE  AllSplit' /\ process' = process
  BY <1>8 DEF CopyPattern, Answer, AllSplit, TypeOK
<1>9. ASSUME UNCHANGED vars
      PROVE  AllSplit' /\ process' = process
  BY <1>9 DEF vars, AllSplit
<1> QED BY <1>2, <1>3, <1>4, <1>5, <1>6, <1>7, <1>8, <1>9 DEF Next, Route, Undefined

\* Once every pattern is split, no step of a thread writes to shared patterns again, and the process
\* ends only by a path without a slash (http/HttpRouter.cpp:43,84).
THEOREM RaceEndsHolds == Spec => RaceEnds
<1>1. RouterInv /\ [Next]_vars =>
        [AllSplit =>
           /\ AllSplit'
           /\ process' # process => \E t \in Threads : ~Contains(request'[t].path, "/")]_vars
  BY RaceStep DEF RouterInv
<1> QED BY <1>1, RouterInvHolds, PTL DEF Spec, RaceEnds

-----------------------------------------------------------------------------
(* Headers and body.                                                       *)

\* Four elements of which the second is the delimiter.
LEMMA SplitAtSecond ==
  ASSUME NEW S, NEW a \in S, NEW b \in S, NEW c \in S, NEW d \in S, b \notin {a, c, d}
  PROVE  Split(<<a, b, c, d>>, b) = <<<<a>>>> \o <<<<c, d>>>>
<1>1. <<a, b, c, d>> = <<a>> \o <<b>> \o <<c, d>>
  BY FourElementsCut
<1>2. <<a>> \in Seq(S) /\ <<c, d>> \in Seq(S)
  BY ShortTypes
<1>3. Split(<<a>> \o <<b>> \o <<c, d>>, b) = Split(<<a>>, b) \o Split(<<c, d>>, b)
  BY <1>2, SplitConcat
<1>4. PICK V : V = {a, c, d}
  OBVIOUS
<1>5. <<a>> \in Seq(V) /\ <<c, d>> \in Seq(V) /\ b \notin V
  <2>1. a \in V /\ c \in V /\ d \in V /\ b \notin V
    BY <1>4
  <2> QED BY <2>1, ShortTypes
<1>6. Split(<<a>>, b) = <<<<a>>>> /\ Split(<<c, d>>, b) = <<<<c, d>>>>
  BY <1>5, SplitNone
<1> QED BY <1>1, <1>3, <1>6

\* The value of a header loses the space before it.
LEMMA ValueTrimmed ==
  ASSUME NEW v \in Words
  PROVE  Trim(<<" ", v>>) = <<v>>
<1> DEFINE s == <<" ", v>>
<1>1. Len(s) = 2
  OBVIOUS
<1>a. s[1] \in Blanks /\ s[2] \notin Blanks /\ s # <<>>
  BY ClientAssumption, WordFacts
<1>2. SubSeq(s, 2, 2) = <<v>>
  <2>1. PICK S : S = {" ", v}
    OBVIOUS
  <2>2. PICK a \in S, b \in S : a = " " /\ b = v
    BY <2>1
  <2>3. SubSeq(<<a, b>>, 2, 2) = <<b>>
    BY SecondOfTwo
  <2> QED BY <2>2, <2>3
<1> HIDE DEF s
<1>3. Solid(s) = {2}
  <2>1. 1 \notin Solid(s) /\ 2 \in Solid(s)
    <3>1. 1 \in 1..Len(s) /\ 2 \in 1..Len(s)
      BY <1>1
    <3> QED BY <1>a, <3>1, Zenon DEF Solid
  <2>2. \A i \in Solid(s) : i = 1 \/ i = 2
    <3>1. \A i \in 1..Len(s) : i = 1 \/ i = 2
      BY <1>1
    <3> QED BY <3>1, Zenon DEF Solid
  <2> QED BY <2>1, <2>2
<1>4. Min({2}) = 2 /\ Max({2}) = 2
  <2>1. Min({2}) \in {2}
    <3>1. {2} \in SUBSET Nat /\ {2} # {}
      OBVIOUS
    <3> QED BY <3>1, LeastIn
  <2>2. Max({2}) \in {2}
    <3>1. {2} \in SUBSET (1..2) /\ {2} # {} /\ 2 \in Nat
      OBVIOUS
    <3> QED BY <3>1, GreatestIn
  <2> QED BY <2>1, <2>2
<1>5. Min({3, 2}) = 2
  <2>1. {3, 2} \in SUBSET Nat /\ {3, 2} # {} /\ 2 \in {3, 2}
    OBVIOUS
  <2>2. Min({3, 2}) \in {3, 2} /\ Min({3, 2}) <= 2
    BY <2>1, LeastIn
  <2> QED BY <2>2
<1>6. Trim(s) = SubSeq(s, Min(Solid(s)), Min({Max(Solid(s)) + 1, Len(s)}))
  <2>1. ~(s = <<>> \/ s[1] \notin Blanks) /\ Solid(s) # {}
    BY <1>a, <1>3
  <2> QED BY <2>1, Zenon DEF Trim
<1>7. Max(Solid(s)) + 1 = 3 /\ Len(s) = 2 /\ Min(Solid(s)) = 2
  <2>1. Max(Solid(s)) = 2 /\ Min(Solid(s)) = 2
    BY <1>3, <1>4, Zenon
  <2>2. Len(s) = 2
    BY <1>1
  <2>3. 2 + 1 = 3
    OBVIOUS
  <2> QED BY <2>1, <2>2, <2>3, Zenon
<1>8. Trim(s) = SubSeq(s, 2, 2)
  BY <1>5, <1>6, <1>7
<1> QED BY <1>2, <1>8 DEF s

\* ... and is parsed into its name and the first word of its value: the rest begins with
\* a colon (http/HttpRequest.cpp:30-33).
LEMMA HeaderLineParsed ==
  ASSUME NEW h \in Words \X HeaderValues
  PROVE  /\ HeaderLine(h) \in Seq(Elements \ {"\n"})
         /\ Contains(HeaderLine(h), ":")
         /\ Trim(Split(Trim(HeaderLine(h)), ":")[1]) = <<h[1]>>
         /\ Trim(Split(Trim(HeaderLine(h)), ":")[2]) = <<Head(h[2])>>
<1> DEFINE line == HeaderLine(h)
           v == Head(h[2])
           name == <<h[1], ":", " ", v>>
           more == MoreWords(h[2])
<1>0. h[1] \in Words /\ h[2] \in HeaderValues /\ v \in Words
  <2>1. h[1] \in Words /\ h[2] \in HeaderValues
    OBVIOUS
  <2> QED BY <2>1, MoreWordsType
<1>1. line \in Seq(Elements \ {"\n"}) /\ name \in Seq(Elements) /\ more \in Seq(Elements)
  <2>1. Elements \ {"\n"} \subseteq Elements
    OBVIOUS
  <2> QED BY <2>1, HeaderLineType, SeqMonotonic
<1>2. Len(name) = 4 /\ name[1] = h[1] /\ name[2] = ":"
  OBVIOUS
<1>a. line = name \o more
  BY DEF HeaderLine
<1>b. v \notin {":", " "} /\ h[1] \notin {":", " "}
  BY <1>0, WordFacts
<1> HIDE DEF v
<1>3. Len(line) >= 4 /\ line[1] = h[1] /\ line[2] = ":" /\ line # <<>>
  <2> HIDE DEF name, more, line
  <2>1. Len(line) = Len(name) + Len(more) /\ Len(more) \in Nat
        /\ \A i \in 1..Len(name) : line[i] = name[i]
    BY <1>1, <1>a, ConcatProperties, LenProperties
  <2> QED BY <1>2, <2>1
<1>4. Contains(line, ":")
  <2> HIDE DEF line
  <2>1. 2 \in 1..Len(line) /\ line[2] = ":"
    <3>1. Len(line) \in Nat
      BY <1>1, LenProperties
    <3> QED BY <1>3, <3>1
  <2> QED BY <2>1 DEF Contains
<1>5. Trim(line) = line
  <2>1. line[1] \notin Blanks
    BY <1>0, <1>3, WordFacts
  <2> QED BY <2>1 DEF Trim
<1>6. Split(name, ":") = <<<<h[1]>>>> \o <<<<" ", v>>>>
  <2>1. PICK S : S = Words \cup {":", " "}
    OBVIOUS
  <2>2. PICK a \in S, b \in S, c \in S, d \in S : a = h[1] /\ b = ":" /\ c = " " /\ d = v
    BY <1>0, <2>1
  <2>3. b \notin {a, c, d}
    BY <1>b, <2>2
  <2>4. Split(<<a, b, c, d>>, b) = <<<<a>>>> \o <<<<c, d>>>>
    BY <2>3, SplitAtSecond
  <2> QED BY <2>2, <2>4
<1>7. PICK W : W = Seq(Elements)
  OBVIOUS
<1>8. <<h[1]>> \in W /\ <<" ", v>> \in W
  BY <1>0, <1>7, WordFacts, Literals, ShortTypes DEF Elements
<1>9. \E z \in Seq(W) : Split(line, ":") = (<<<<h[1]>>>> \o <<<<" ", v>>>>) \o z
  <2>1. CASE more = <<>>
    <3>1. line = name
      BY <1>1, <1>a, <2>1, ConcatEmptySeq
    <3>2. PICK a \in W, b \in W : a = <<h[1]>> /\ b = <<" ", v>>
      BY <1>8
    <3>3. <<a>> \o <<b>> \in Seq(W)
      BY ONLY TRUE
    <3>4. PICK c \in Seq(W) : c = <<a>> \o <<b>>
      BY <3>3
    <3>5. c \o <<>> = c /\ <<>> \in Seq(W)
      BY ONLY ConcatEmptySeq, EmptySeq
    <3>6. Split(line, ":") = c
      BY <1>6, <3>1, <3>2, <3>4
    <3>7. Split(line, ":") = (<<<<h[1]>>>> \o <<<<" ", v>>>>) \o <<>>
      BY <3>2, <3>4, <3>5, <3>6
    <3>8. <<>> \in Seq(W)
      BY ONLY EmptySeq
    <3> HIDE DEF line, name, more
    <3> QED BY <3>7, <3>8, Zenon
  <2>2. CASE more # <<>>
    <3> DEFINE u == Tail(more)
    <3>1. u \in Seq(Elements) /\ more = <<":">> \o u
      <4>1. more[1] = ":"
        BY <1>0, <2>2, MoreWordsType
      <4> HIDE DEF more
      <4>2. PICK m \in Seq(Elements) : m = more /\ m # <<>>
        BY <1>1, <2>2
      <4>3. m = <<m[1]>> \o Tail(m) /\ Tail(m) \in Seq(Elements)
        BY ONLY <4>2
      <4> QED BY <4>1, <4>2, <4>3
    <3> HIDE DEF name, more, u
    <3>2. line = name \o <<":">> \o u
      <4>1. PICK a \in Seq(Elements), b \in Seq(Elements), c \in Seq(Elements) :
              a = name /\ b = <<":">> /\ c = u
        BY <1>1, <3>1, Literals, ShortTypes
      <4>2. a \o (b \o c) = (a \o b) \o c
        BY ONLY TRUE
      <4> QED BY <1>a, <3>1, <4>1, <4>2
    <3>3. Split(line, ":") = Split(name, ":") \o Split(u, ":")
      BY <1>1, <3>1, <3>2, Literals, SplitConcat
    <3>4. Split(u, ":") \in Seq(W)
      BY <1>7, <3>1, SplitType
    <3> QED BY <1>6, <3>3, <3>4
  <2> QED BY <2>1, <2>2
<1>10. Split(line, ":")[1] = <<h[1]>> /\ Split(line, ":")[2] = <<" ", v>>
  <2>1. PICK z \in Seq(W) : Split(line, ":") = (<<<<h[1]>>>> \o <<<<" ", v>>>>) \o z
    BY <1>9
  <2>2. PICK a \in W, b \in W : a = <<h[1]>> /\ b = <<" ", v>>
    BY <1>8
  <2>3. ((<<a>> \o <<b>>) \o z)[1] = a /\ ((<<a>> \o <<b>>) \o z)[2] = b
    BY ONLY TRUE
  <2> QED BY <2>1, <2>2, <2>3
<1>11. Trim(<<h[1]>>) = <<h[1]>>
  BY <1>0, WordFacts DEF Trim
<1>12. Trim(<<" ", v>>) = <<v>>
  BY <1>0, ValueTrimmed
<1> QED BY <1>1, <1>4, <1>5, <1>10, <1>11, <1>12 DEF v

\* The headers as lines, ...
HeaderLines(H) == [i \in 1..Len(H) |-> HeaderLine(H[i])]

\* ... and as they are sent.
SentHeaders(H) == [i \in 1..Len(H) |-> HeaderLine(H[i]) \o <<"\n">>]

\* A name and a value.
Pairs == Words \X HeaderValues

\* One more header is one more line.
LEMMA HeadersAppend ==
  ASSUME NEW H \in Seq(Pairs), NEW h \in Pairs
  PROVE  /\ HeaderLines(Append(H, h)) = Append(HeaderLines(H), HeaderLine(h))
         /\ SentHeaders(Append(H, h)) = Append(SentHeaders(H), HeaderLine(h) \o <<"\n">>)
<1> DEFINE q == Append(H, h)
           n == Len(H)
<1>1. /\ n \in Nat /\ Len(q) = n + 1
      /\ \A i \in 1..n : q[i] = H[i]
      /\ q[n + 1] = h
  BY AppendProperties, LenProperties
<1> HIDE DEF q, n
<1>2. HeaderLines(q) = [i \in 1..n + 1 |-> IF i = n + 1 THEN HeaderLine(h) ELSE HeaderLine(H[i])]
  BY <1>1 DEF HeaderLines
<1>3. SentHeaders(q) = [i \in 1..n + 1 |-> IF i = n + 1 THEN HeaderLine(h) \o <<"\n">>
                                           ELSE HeaderLine(H[i]) \o <<"\n">>]
  BY <1>1 DEF SentHeaders
<1>4. HeaderLines(q) = Append(HeaderLines(H), HeaderLine(h))
  BY <1>1, <1>2 DEF HeaderLines, n
<1> DEFINE e(i) == HeaderLine(H[i]) \o <<"\n">>
           z == HeaderLine(h) \o <<"\n">>
<1>5. SentHeaders(q) = Append(SentHeaders(H), z)
  <2>1. SentHeaders(q) = [i \in 1..n + 1 |-> IF i = n + 1 THEN z ELSE e(i)]
    BY <1>3
  <2>2. SentHeaders(H) = [i \in 1..n |-> e(i)]
    BY DEF SentHeaders, n
  <2> HIDE DEF e, z
  <2> QED BY <1>1, <2>1, <2>2
<1> QED BY <1>4, <1>5 DEF q

\* The lines are texts.
LEMMA HeadersType ==
  ASSUME NEW H \in Seq(Pairs)
  PROVE  HeaderLines(H) \in Seq(Seq(Elements)) /\ SentHeaders(H) \in Seq(Seq(Elements))
<1>0. Len(H) \in Nat
  BY LenProperties
<1>1. ASSUME NEW i \in 1..Len(H)
      PROVE  HeaderLine(H[i]) \in Seq(Elements) /\ HeaderLine(H[i]) \o <<"\n">> \in Seq(Elements)
  <2>1. H[i] \in Words \X HeaderValues
    BY ElementOfSeq DEF Pairs
  <2>2. HeaderLine(H[i]) \in Seq(Elements \ {"\n"})
    BY <2>1, HeaderLineParsed
  <2>3. HeaderLine(H[i]) \in Seq(Elements)
    <3>1. Elements \ {"\n"} \subseteq Elements
      OBVIOUS
    <3> QED BY <2>2, <3>1, SeqMonotonic
  <2>4. <<"\n">> \in Seq(Elements)
    BY Literals, ShortTypes
  <2> QED BY <2>3, <2>4, ConcatProperties
<1> DEFINE e(i) == HeaderLine(H[i]) \o <<"\n">>
           f(i) == HeaderLine(H[i])
<1>2. \A i \in 1..Len(H) : e(i) \in Seq(Elements) /\ f(i) \in Seq(Elements)
  BY <1>1
<1>3. HeaderLines(H) = [i \in 1..Len(H) |-> f(i)] /\ SentHeaders(H) = [i \in 1..Len(H) |-> e(i)]
  BY DEF HeaderLines, SentHeaders
<1> HIDE DEF e, f
<1> QED BY <1>0, <1>2, <1>3, IsASeq

\* The headers are split into their lines, whatever follows.
LEMMA SplitHeaders ==
  ASSUME NEW G \in Seq(Pairs), NEW rest \in Seq(Elements)
  PROVE  Split(FlattenSeq(SentHeaders(G)) \o rest, "\n") = HeaderLines(G) \o Split(rest, "\n")
<1> DEFINE Good(H) == \A s \in Seq(Elements) :
             Split(FlattenSeq(SentHeaders(H)) \o s, "\n") = HeaderLines(H) \o Split(s, "\n")
           T == {H \in Seq(Pairs) : Good(H)}
<1>1. <<>> \in T
  <2>1. SentHeaders(<<>>) = <<>> /\ HeaderLines(<<>>) = <<>>
    BY DEF SentHeaders, HeaderLines
  <2>2. ASSUME NEW s \in Seq(Elements)
        PROVE  Split(FlattenSeq(SentHeaders(<<>>)) \o s, "\n") = HeaderLines(<<>>) \o Split(s, "\n")
    <3>1. FlattenSeq(SentHeaders(<<>>)) \o s = s
      BY <2>1, FlattenSeqEmpty, ConcatEmptySeq
    <3>2. Split(s, "\n") \in Seq(Seq(Elements))
      BY SplitType
    <3>3. <<>> \o Split(s, "\n") = Split(s, "\n")
      BY <3>2, ConcatEmptySeq
    <3> QED BY <2>1, <3>1, <3>3
  <2>3. Good(<<>>)
    BY <2>2
  <2>4. \A H \in Seq(Pairs) : Good(H) => H \in T
    OBVIOUS
  <2> HIDE DEF Good, T
  <2> QED BY <2>3, <2>4, EmptySeq, Zenon
<1>2. ASSUME NEW H \in Seq(Pairs), NEW h \in Pairs, H \in T PROVE Append(H, h) \in T
  <2> DEFINE f == FlattenSeq(SentHeaders(H))
             line == HeaderLine(h)
             N == <<"\n">>
  <2>0. Append(H, h) \in Seq(Pairs)
    BY AppendProperties
  <2>1. /\ f \in Seq(Elements) /\ N \in Seq(Elements) /\ SentHeaders(H) \in Seq(Seq(Elements))
        /\ line \in Seq(Elements) /\ line \in Seq(Elements \ {"\n"})
    <3>1. line \in Seq(Elements \ {"\n"})
      BY HeaderLineParsed DEF Pairs
    <3>2. line \in Seq(Elements)
      <4>1. Elements \ {"\n"} \subseteq Elements
        OBVIOUS
      <4> QED BY <3>1, <4>1, SeqMonotonic
    <3> QED BY <3>1, <3>2, HeadersType, FlattenSeqType, Literals, ShortTypes
  <2>2. line \o N \in Seq(Elements)
    <3> HIDE DEF line, N
    <3> QED BY <2>1, ConcatProperties
  <2>3. FlattenSeq(SentHeaders(Append(H, h))) = f \o (line \o N)
    BY <2>1, <2>2, HeadersAppend, FlattenSeqAppend
  <2>4. ASSUME NEW s \in Seq(Elements)
        PROVE  Split(f \o (line \o N) \o s, "\n")
                 = HeaderLines(Append(H, h)) \o Split(s, "\n")
    <3> HIDE DEF f, line, N
    <3>1. f \o (line \o N) \o s = f \o (line \o N \o s) /\ line \o N \o s \in Seq(Elements)
      <4>1. PICK a \in Seq(Elements), b \in Seq(Elements), c \in Seq(Elements) : a = f /\ b = line /\ c = N
        BY <2>1
      <4>2. (a \o (b \o c)) \o s = a \o (b \o c \o s) /\ b \o c \o s \in Seq(Elements)
        BY ONLY TRUE
      <4> QED BY <4>1, <4>2
    <3>2. Split(f \o (line \o N \o s), "\n") = HeaderLines(H) \o Split(line \o N \o s, "\n")
      BY <1>2, <3>1 DEF f
    <3>3. Split(line \o N \o s, "\n") = <<line>> \o Split(s, "\n")
      <4>1. Split(line \o <<"\n">> \o s, "\n") = Split(line, "\n") \o Split(s, "\n")
        BY <2>1, Literals, SplitConcat
      <4>2. Split(line, "\n") = <<line>>
        <5>1. "\n" \notin Elements \ {"\n"}
          OBVIOUS
        <5> QED BY <2>1, <5>1, SplitNone
      <4> QED BY <4>1, <4>2 DEF N
    <3>4. HeaderLines(Append(H, h)) = Append(HeaderLines(H), line)
      BY HeadersAppend DEF line
    <3>5. HeaderLines(H) \o (<<line>> \o Split(s, "\n")) = Append(HeaderLines(H), line) \o Split(s, "\n")
      <4>1. PICK W : W = Seq(Elements)
        OBVIOUS
      <4>2. HeaderLines(H) \in Seq(W) /\ line \in W /\ Split(s, "\n") \in Seq(W)
        BY <2>1, <4>1, HeadersType, SplitType
      <4>3. PICK a \in Seq(W), b \in W, c \in Seq(W) :
              a = HeaderLines(H) /\ b = line /\ c = Split(s, "\n")
        BY <4>2
      <4>4. a \o (<<b>> \o c) = Append(a, b) \o c
        <5>0. <<b>> \in Seq(W)
          OBVIOUS
        <5>1. PICK d \in Seq(W) : d = <<b>>
          BY <5>0
        <5>2. a \o (d \o c) = (a \o d) \o c
          BY ONLY TRUE
        <5>3. a \o <<b>> = Append(a, b)
          BY ONLY TRUE
        <5> QED BY <5>1, <5>2, <5>3
      <4> QED BY <4>3, <4>4
    <3> QED BY <3>1, <3>2, <3>3, <3>4, <3>5
  <2>5. Good(Append(H, h))
    <3> HIDE DEF f, line, N
    <3> QED BY <2>3, <2>4
  <2> QED BY <2>0, <2>5
<1> HIDE DEF T
<1>3. G \in T
  BY <1>1, <1>2, AllSequences
<1> QED BY <1>3 DEF T

\* A map has the values of the headers, the last of each name.
Stored(h, H) ==
  /\ DOMAIN h = {<<H[i][1]>> : i \in 1..Len(H)}
  /\ \A i \in 1..Len(H) :
       (\A j \in i + 1..Len(H) : H[j][1] # H[i][1]) => h[<<H[i][1]>>] = <<Head(H[i][2])>>

\* A header that is put into the map replaces one of the same name.
LEMMA StoredPut ==
  ASSUME NEW H \in Seq(Pairs), NEW p \in Pairs, NEW h, Stored(h, H)
  PROVE  Stored(Put(h, <<p[1]>>, <<Head(p[2])>>), Append(H, p))
<1> DEFINE q == Append(H, p)
           n == Len(H)
           k == <<p[1]>>
           v == <<Head(p[2])>>
           g == Put(h, k, v)
<1>1. /\ n \in Nat /\ Len(q) = n + 1
      /\ \A i \in 1..n : q[i] = H[i]
      /\ q[n + 1] = p
  BY AppendProperties, LenProperties
<1>2. /\ DOMAIN g = DOMAIN h \cup {k} /\ g[k] = v
      /\ \A x \in DOMAIN h : x # k => g[x] = h[x]
  <2> HIDE DEF k, v
  <2> QED BY DEF Put
<1> HIDE DEF q, n, g
<1>3. DOMAIN g = {<<q[i][1]>> : i \in 1..Len(q)}
  <2>1. DOMAIN h = {<<H[i][1]>> : i \in 1..n}
    BY DEF Stored, n
  <2>2. \A i \in 1..n : <<q[i][1]>> = <<H[i][1]>>
    BY <1>1
  <2>3. <<q[n + 1][1]>> = k
    BY <1>1
  <2> DEFINE f(i) == <<q[i][1]>>
             e(i) == <<H[i][1]>>
  <2> HIDE DEF k
  <2>4. DOMAIN h = {e(i) : i \in 1..n} /\ (\A i \in 1..n : f(i) = e(i)) /\ f(n + 1) = k
    BY <2>1, <2>2, <2>3
  <2> HIDE DEF e, f
  <2>5. DOMAIN g = {f(i) : i \in 1..n + 1}
    BY <1>1, <1>2, <2>4
  <2> QED BY <1>1, <2>5 DEF f
<1>4. ASSUME NEW i \in 1..Len(q), \A j \in i + 1..Len(q) : q[j][1] # q[i][1]
      PROVE  g[<<q[i][1]>>] = <<Head(q[i][2])>>
  <2>1. CASE i = n + 1
    BY <1>1, <1>2, <2>1
  <2>2. CASE i # n + 1
    <3>1. i \in 1..n /\ q[i] = H[i] /\ n + 1 \in i + 1..Len(q)
      BY <1>1, <2>2
    <3>2. p[1] # H[i][1]
      BY <1>1, <1>4, <3>1
    <3>3. \A j \in i + 1..n : H[j][1] # H[i][1]
      BY <1>1, <1>4, <3>1
    <3>4. h[<<H[i][1]>>] = <<Head(H[i][2])>>
      BY <3>1, <3>3 DEF Stored, n
    <3>5. <<H[i][1]>> # k
      BY <3>2
    <3>6. <<H[i][1]>> \in DOMAIN h
      BY <3>1 DEF Stored, n
    <3>7. g[<<H[i][1]>>] = h[<<H[i][1]>>]
      BY <1>2, <3>5, <3>6, Zenon
    <3> QED BY <3>1, <3>4, <3>7
  <2> QED BY <2>1, <2>2
<1> QED BY <1>3, <1>4 DEF Stored, g, q

\* After the headers, ...
LEMMA HeadersParsed ==
  ASSUME NEW r \in Requests, NEW G \in Seq(Pairs)
  PROVE  \E h : /\ ParseLines(<<FirstLine(r)>> \o HeaderLines(G)) = After(r, h, <<>>, 1)
               /\ Stored(h, G)
<1> DEFINE first == <<FirstLine(r)>>
           Good(H) == \E h : ParseLines(first \o HeaderLines(H)) = After(r, h, <<>>, 1) /\ Stored(h, H)
           T == {H \in Seq(Pairs) : Good(H)}
<1>0. first \in Seq(Seq(Elements))
  <2>1. PICK W : W = Seq(Elements)
    OBVIOUS
  <2>2. FirstLine(r) \in W
    BY <2>1, FirstLineType
  <2>3. <<FirstLine(r)>> \in Seq(W)
    BY <2>2
  <2> QED BY <2>1, <2>3
<1>1. <<>> \in T
  <2>1. HeaderLines(<<>>) = <<>>
    BY DEF HeaderLines
  <2>2. first \o <<>> = first
    <3> HIDE DEF first
    <3> QED BY <1>0, ConcatEmptySeq
  <2>3. ParseLines(first \o HeaderLines(<<>>)) = After(r, EmptyMap, <<>>, 1)
    BY <2>1, <2>2, FirstLineParsed
  <2>4. Stored(EmptyMap, <<>>)
    BY DEF Stored, EmptyMap
  <2>5. Good(<<>>)
    BY <2>3, <2>4
  <2>6. \A H \in Seq(Pairs) : Good(H) => H \in T
    OBVIOUS
  <2> HIDE DEF Good, T
  <2> QED BY <2>5, <2>6, EmptySeq, Zenon
<1>2. ASSUME NEW H \in Seq(Pairs), NEW p \in Pairs, H \in T PROVE Append(H, p) \in T
  <2>1. PICK h : ParseLines(first \o HeaderLines(H)) = After(r, h, <<>>, 1) /\ Stored(h, H)
    BY <1>2
  <2> DEFINE line == HeaderLine(p)
             g == Put(h, <<p[1]>>, <<Head(p[2])>>)
  <2>2. line \in Seq(Elements) /\ HeaderLines(H) \in Seq(Seq(Elements))
    <3>1. line \in Seq(Elements \ {"\n"})
      BY HeaderLineParsed DEF Pairs
    <3>2. Elements \ {"\n"} \subseteq Elements
      OBVIOUS
    <3> QED BY <3>1, <3>2, SeqMonotonic, HeadersType
  <2>3. ParseLine(After(r, h, <<>>, 1), line) = After(r, g, <<>>, 1)
    <3>1. Contains(line, ":")
      BY HeaderLineParsed DEF Pairs
    <3>2. /\ Trim(Split(Trim(line), ":")[1]) = <<p[1]>>
          /\ Trim(Split(Trim(line), ":")[2]) = <<Head(p[2])>>
      BY HeaderLineParsed DEF Pairs
    <3> HIDE DEF line
    <3>3. ParseLine(After(r, h, <<>>, 1), line) =
            After(r, Put(h, Trim(Split(Trim(line), ":")[1]),
                            Trim(Split(Trim(line), ":")[2])), <<>>, 1)
      BY <3>1, LaterLine
    <3> QED BY <3>2, <3>3
  <2>4. Stored(g, Append(H, p))
    BY <2>1, StoredPut
  <2>5. first \o HeaderLines(Append(H, p)) = Append(first \o HeaderLines(H), line)
        /\ first \o HeaderLines(H) \in Seq(Seq(Elements))
    <3> HIDE DEF first, line
    <3>1. PICK W : W = Seq(Elements)
      OBVIOUS
    <3>2. PICK a \in Seq(W), b \in Seq(W), c \in W : a = first /\ b = HeaderLines(H) /\ c = line
      BY <1>0, <2>2, <3>1
    <3>3. a \o Append(b, c) = Append(a \o b, c) /\ a \o b \in Seq(W)
      BY ONLY TRUE
    <3>4. HeaderLines(Append(H, p)) = Append(HeaderLines(H), line)
      BY HeadersAppend DEF line
    <3> QED BY <3>1, <3>2, <3>3, <3>4
  <2> HIDE DEF first, line, g
  <2>6. ParseLines(Append(first \o HeaderLines(H), line)) = ParseLine(ParseLines(first \o HeaderLines(H)), line)
    BY <2>2, <2>5, ParseLinesAppend
  <2>7. ParseLines(first \o HeaderLines(Append(H, p))) = After(r, g, <<>>, 1)
    BY <2>1, <2>3, <2>5, <2>6
  <2>8. Append(H, p) \in Seq(Pairs)
    BY AppendProperties
  <2> QED BY <2>4, <2>7, <2>8
<1> HIDE DEF T
<1>3. G \in T
  BY <1>1, <1>2, AllSequences
<1> QED BY <1>3 DEF T

\* ... every line is one of the body.
LEMMA BodyParsed ==
  ASSUME NEW r, NEW h, NEW start \in Seq(Seq(Elements)),
         ParseLines(start) = After(r, h, <<>>, 2), NEW lines \in Seq(Seq(Elements))
  PROVE  ParseLines(start \o lines) = After(r, h, FlattenSeq(lines), 2)
<1> DEFINE Good(L) == ParseLines(start \o L) = After(r, h, FlattenSeq(L), 2)
           T == {L \in Seq(Seq(Elements)) : Good(L)}
<1>1. <<>> \in T
  <2>1. start \o <<>> = start
    BY ConcatEmptySeq
  <2>2. Good(<<>>)
    BY <2>1, FlattenSeqEmpty
  <2>3. \A L \in Seq(Seq(Elements)) : Good(L) => L \in T
    OBVIOUS
  <2> HIDE DEF Good, T
  <2> QED BY <2>2, <2>3, EmptySeq, Zenon
<1>2. ASSUME NEW L \in Seq(Seq(Elements)), NEW line \in Seq(Elements), L \in T
      PROVE  Append(L, line) \in T
  <2>1. ParseLines(start \o L) = After(r, h, FlattenSeq(L), 2)
    BY <1>2
  <2>2. start \o Append(L, line) = Append(start \o L, line) /\ start \o L \in Seq(Seq(Elements))
        /\ Append(L, line) \in Seq(Seq(Elements))
    <3>1. PICK W : W = Seq(Elements)
      OBVIOUS
    <3>2. PICK a \in Seq(W), b \in Seq(W), c \in W : a = start /\ b = L /\ c = line
      BY <3>1
    <3>3. a \o Append(b, c) = Append(a \o b, c) /\ a \o b \in Seq(W) /\ Append(b, c) \in Seq(W)
      BY ONLY TRUE
    <3> QED BY <3>1, <3>2, <3>3
  <2>3. ParseLines(Append(start \o L, line)) = ParseLine(ParseLines(start \o L), line)
    BY <2>2, ParseLinesAppend
  <2>4. ParseLine(After(r, h, FlattenSeq(L), 2), line) = After(r, h, FlattenSeq(L) \o line, 2)
    BY LaterLine
  <2>5. FlattenSeq(Append(L, line)) = FlattenSeq(L) \o line
    BY FlattenSeqAppend
  <2>6. Good(Append(L, line))
    BY <2>1, <2>2, <2>3, <2>4, <2>5
  <2> QED BY <2>2, <2>6
<1> HIDE DEF T
<1>3. lines \in T
  BY <1>1, <1>2, AllSequences
<1> QED BY <1>3 DEF T

\* The parser's view of a whole request whose lines end in "\n".
LEMMA LfMessage ==
  ASSUME NEW r \in Requests, r.whole, ~r.crlf
  PROVE  \E h : /\ Parse(Encode(r)) = After(r, h, FlattenSeq(Split(r.body, "\n")), 2)
               /\ Stored(h, r.headers)
<1> DEFINE H == r.headers
           f == FlattenSeq(SentHeaders(H))
           N == <<"\n">>
           B == Split(r.body, "\n")
           first == <<FirstLine(r)>>
           hl == HeaderLines(H)
<1>0. H \in Seq(Pairs) /\ r.body \in Seq(Elements)
  BY PieceTypes DEF Pairs
<1>1. N \in Seq(Elements) /\ "\n" \in Elements
  BY Literals, ShortTypes
<1>2. f \in Seq(Elements) /\ hl \in Seq(Seq(Elements)) /\ B \in Seq(Seq(Elements))
  BY <1>0, HeadersType, FlattenSeqType, SplitType
<1>3. Rest(r) = f \o N \o r.body
  BY DEF Rest, SentHeaders, HeaderLine, Eol
<1>4. N \o r.body \in Seq(Elements) /\ f \o N \o r.body = f \o (N \o r.body)
  <2> HIDE DEF N, f
  <2>1. PICK a \in Seq(Elements), b \in Seq(Elements), c \in Seq(Elements) :
          a = f /\ b = N /\ c = r.body
    BY <1>0, <1>1, <1>2
  <2>2. (a \o b) \o c = a \o (b \o c) /\ b \o c \in Seq(Elements)
    BY ONLY TRUE
  <2> QED BY <2>1, <2>2
<1>5. Split(N \o r.body, "\n") = <<<<>>>> \o B
  <2>1. <<>> \o N = N /\ <<>> \in Seq(Elements)
    BY <1>1, ConcatEmptySeq, EmptySeq
  <2>2. Split(<<>> \o <<"\n">> \o r.body, "\n") = Split(<<>>, "\n") \o Split(r.body, "\n")
    BY <1>0, <1>1, <2>1, SplitConcat
  <2> QED BY <2>1, <2>2, SplitEmpty
<1>6. Split(Rest(r), "\n") = hl \o (<<<<>>>> \o B)
  <2>1. Split(f \o (N \o r.body), "\n") = hl \o Split(N \o r.body, "\n")
    BY <1>0, <1>4, SplitHeaders
  <2> HIDE DEF N, f, hl, B
  <2> QED BY <1>3, <1>4, <1>5, <2>1
<1>7. Split(Encode(r), "\n") = first \o (hl \o (<<<<>>>> \o B))
  <2>1. FirstLine(r) \in Seq(Elements) /\ Rest(r) \in Seq(Elements)
        /\ Encode(r) = FirstLine(r) \o <<"\n">> \o Rest(r)
    BY EncodeWhole
  <2>2. Split(FirstLine(r) \o <<"\n">> \o Rest(r), "\n") = Split(FirstLine(r), "\n") \o Split(Rest(r), "\n")
    BY <2>1, Literals, SplitConcat
  <2> HIDE DEF hl, B
  <2> QED BY <1>6, <2>1, <2>2, FirstLineSplit
<1>8. first \o (hl \o (<<<<>>>> \o B)) = Append(first \o hl, <<>>) \o B
      /\ first \o hl \in Seq(Seq(Elements)) /\ Append(first \o hl, <<>>) \in Seq(Seq(Elements))
  <2>1. PICK W : W = Seq(Elements)
    OBVIOUS
  <2>2. FirstLine(r) \in W
    BY <2>1, FirstLineType
  <2>3. <<FirstLine(r)>> \in Seq(W)
    BY <2>2
  <2> HIDE DEF hl, B, first
  <2>4. PICK a \in Seq(W), b \in Seq(W), c \in W, d \in Seq(W) :
          a = first /\ b = hl /\ c = <<>> /\ d = B
    BY <1>2, <2>1, <2>3, EmptySeq DEF first
  <2>5. a \o (b \o (<<c>> \o d)) = Append(a \o b, c) \o d
    <3>1. <<c>> \in Seq(W) /\ a \o b \in Seq(W)
      OBVIOUS
    <3>2. PICK e \in Seq(W), g \in Seq(W) : e = <<c>> /\ g = a \o b
      BY <3>1
    <3>3. a \o (b \o (e \o d)) = (a \o b) \o (e \o d)
      <4>1. e \o d \in Seq(W)
        OBVIOUS
      <4>2. PICK i \in Seq(W) : i = e \o d
        BY <4>1
      <4>3. a \o (b \o i) = (a \o b) \o i
        BY ONLY TRUE
      <4> QED BY <4>2, <4>3
    <3>4. g \o (e \o d) = (g \o e) \o d
      BY ONLY TRUE
    <3>5. g \o <<c>> = Append(g, c)
      BY ONLY TRUE
    <3> QED BY <3>2, <3>3, <3>4, <3>5
  <2>6. a \o b \in Seq(W) /\ Append(a \o b, c) \in Seq(W)
    BY ONLY TRUE
  <2> QED BY <2>1, <2>4, <2>5, <2>6
<1> HIDE DEF first, hl, B
<1>9. PICK h : ParseLines(first \o hl) = After(r, h, <<>>, 1) /\ Stored(h, H)
  BY <1>0, HeadersParsed DEF first, hl
<1>10. ParseLines(Append(first \o hl, <<>>)) = After(r, h, <<>>, 2)
  <2>1. ParseLines(Append(first \o hl, <<>>)) = ParseLine(ParseLines(first \o hl), <<>>)
    <3>1. <<>> \in Seq(Elements)
      BY EmptySeq
    <3> QED BY <1>8, <3>1, ParseLinesAppend
  <2>2. ~Contains(<<>>, ":")
    BY DEF Contains
  <2> QED BY <1>9, <2>1, <2>2, LaterLine
<1>11. ParseLines(Append(first \o hl, <<>>) \o B) = After(r, h, FlattenSeq(B), 2)
  BY <1>2, <1>8, <1>10, BodyParsed
<1>12. Parse(Encode(r)) = After(r, h, FlattenSeq(B), 2)
  BY <1>7, <1>8, <1>11 DEF Parse, ParseLines
<1> QED BY <1>9, <1>12 DEF B

\* Hence a thread whose message is such a request knows all of it.
LEMMA MessageParsed == TypeOK /\ RequestOfMessage => LfRequestParsed
<1> SUFFICES ASSUME TypeOK, RequestOfMessage, NEW t \in Threads,
                    pc[t] # "idle", asked[t].whole, ~asked[t].crlf
             PROVE  LET r == asked[t]
                        q == request[t] IN
                    /\ q.version = "V1_1"
                    /\ q.body = FlattenSeq(Split(r.body, "\n"))
                    /\ DOMAIN q.headers = {<<r.headers[i][1]>> : i \in 1..Len(r.headers)}
                    /\ \A i \in 1..Len(r.headers) :
                         (\A j \in i + 1..Len(r.headers) : r.headers[j][1] # r.headers[i][1])
                           => q.headers[<<r.headers[i][1]>>] = <<Head(r.headers[i][2])>>
  BY DEF LfRequestParsed
<1>1. asked[t] \in Requests /\ request[t] = Parse(Encode(asked[t]))
  BY DEF TypeOK, RequestOfMessage
<1>2. PICK h : /\ request[t] = After(asked[t], h, FlattenSeq(Split(asked[t].body, "\n")), 2)
               /\ Stored(h, asked[t].headers)
  BY <1>1, LfMessage
<1>3. /\ request[t].version = "V1_1" /\ request[t].headers = h
      /\ request[t].body = FlattenSeq(Split(asked[t].body, "\n"))
  BY <1>2 DEF After
<1> QED BY <1>2, <1>3 DEF Stored

\* For any path, headers and body of a whole request whose lines end in "\n" alone: the
\* version and every header are found, each name with the value given last for it, of which
\* only what stands before its first colon is kept; the body is its lines without their
\* ends, and no line of it is taken for a header (http/HttpRequest.cpp:7-44).
THEOREM LfRequestParsedHolds == Spec => []LfRequestParsed
<1>1. RouterInv => LfRequestParsed
  BY MessageParsed DEF RouterInv
<1> QED BY <1>1, RouterInvHolds, PTL

===============================================================================
