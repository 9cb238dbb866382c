----------------------------- MODULE QueueLemmas ------------------------------
(***************************************************************************)
(* Facts about sequences that the proofs share.                            *)
(*                                                                         *)
(* Of a queue and the sequence of what was taken from it: both the task    *)
(* queue of an EventLoop and that of a ThreadPool are a suffix of the      *)
(* tasks pushed so far.  Of FlattenSeq: the bytes and the replies of a     *)
(* connection are those of its messages, one after the other, and those of *)
(* a Str those of its characters, and where they lie in it.  Of            *)
(* IsPrefix: what has been sent is a beginning of what is to be sent.  And *)
(* of short sequences, the pieces that a message is made of.               *)
(***************************************************************************)
EXTENDS Naturals, SequencesExt, SequenceTheorems, WellFoundedInduction, TLAPS

\* Moving the head of the queue to the end of what was executed leaves their
\* concatenation as it is.
LEMMA MoveHead ==
  ASSUME NEW S, NEW e \in Seq(S), NEW q \in Seq(S), q # <<>>
  PROVE  /\ Append(e, Head(q)) \o Tail(q) = e \o q
         /\ Len(e) < Len(e \o q)
         /\ (e \o q)[Len(e) + 1] = Head(q)
<1> DEFINE l == Append(e, Head(q)) \o Tail(q)
           r == e \o q
<1>1. /\ Append(e, Head(q)) \in Seq(S)
      /\ Tail(q) \in Seq(S)
      /\ Len(Tail(q)) = Len(q) - 1
      /\ \A i \in 1..Len(Tail(q)) : Tail(q)[i] = q[i + 1]
      /\ Head(q) \in S /\ Head(q) = q[1]
      /\ Len(q) \in Nat \ {0} /\ Len(e) \in Nat
  BY HeadTailProperties, EmptySeq, LenProperties
<1>2. /\ Len(Append(e, Head(q))) = Len(e) + 1
      /\ \A i \in 1..Len(e) : Append(e, Head(q))[i] = e[i]
      /\ Append(e, Head(q))[Len(e) + 1] = Head(q)
  BY <1>1, AppendProperties
<1>3. /\ l \in Seq(S)
      /\ Len(l) = Len(e) + Len(q)
      /\ \A i \in 1..(Len(e) + Len(q)) :
           l[i] = IF i <= Len(e) + 1 THEN Append(e, Head(q))[i]
                                     ELSE Tail(q)[i - (Len(e) + 1)]
  BY <1>1, <1>2, ConcatProperties
<1>4. /\ r \in Seq(S)
      /\ Len(r) = Len(e) + Len(q)
      /\ \A i \in 1..(Len(e) + Len(q)) :
           r[i] = IF i <= Len(e) THEN e[i] ELSE q[i - Len(e)]
  BY ConcatProperties
<1>5. ASSUME NEW i \in 1..Len(l)
      PROVE  l[i] = r[i]
  <2>1. CASE i <= Len(e)
    BY <2>1, <1>1, <1>2, <1>3, <1>4
  <2>2. CASE i = Len(e) + 1
    BY <2>2, <1>1, <1>2, <1>3, <1>4
  <2>3. CASE i > Len(e) + 1
    BY <2>3, <1>1, <1>3, <1>4
  <2> QED BY <2>1, <2>2, <2>3, <1>1
<1>6. l = r
  BY <1>3, <1>4, <1>5, SeqEqual
<1>7. r[Len(e) + 1] = Head(q)
  BY <1>1, <1>4
<1> QED BY <1>1, <1>4, <1>6, <1>7

\* A set of natural numbers has a least element: induction, stated about a set.
LEMMA LeastNatural ==
  ASSUME NEW T \in SUBSET Nat, T # {}
  PROVE  \E n \in T : \A m \in T : n <= m
<1> DEFINE R == OpToRel(<, Nat)
<1>1. IsWellFoundedOn(R, Nat)
  BY NatLessThanWellFounded
<1>2. \A x, y \in Nat : x < y => <<x, y>> \in R
  BY DEF OpToRel
<1> HIDE DEF R
<1>3. PICK n \in T : \A m \in T : ~ (<<m, n>> \in R)
  BY <1>1, WFMin
<1>4. \A m \in T : ~ (m < n)
  BY <1>2, <1>3
<1> QED BY <1>3, <1>4

\* A set of sequences that the empty one is in, and with a sequence those that are one
\* element longer, holds all of them: induction again.
LEMMA AllSequences ==
  ASSUME NEW S, NEW T, <<>> \in T,
         \A s \in Seq(S), e \in S : s \in T => Append(s, e) \in T
  PROVE  \A s \in Seq(S) : s \in T
<1> DEFINE N == {n \in Nat : \E s \in Seq(S) : Len(s) = n /\ s \notin T}
<1>1. SUFFICES ASSUME N # {} PROVE FALSE
  <2>1. \A s \in Seq(S) : Len(s) \in Nat
    BY LenProperties
  <2> QED BY <2>1
<1>2. PICK n \in N : \A m \in N : n <= m
  BY <1>1, LeastNatural
<1>3. PICK s \in Seq(S) : Len(s) = n /\ s \notin T
  BY <1>2
<1>4. PICK v \in Seq(S), e \in S : s = Append(v, e)
  BY <1>3, SequenceEmptyOrAppend
<1>5. Len(v) \in Nat /\ n = Len(v) + 1 /\ v \notin T
  BY <1>3, <1>4, AppendProperties, LenProperties
<1>6. Len(v) \in N
  BY <1>5
<1> HIDE DEF N
<1> QED BY <1>2, <1>5, <1>6

\* Induction from 0 to n.
LEMMA UpTo ==
  ASSUME NEW n \in Nat, NEW T \in SUBSET (0..n), 0 \in T,
         \A k \in 1..n : k - 1 \in T => k \in T
  PROVE  0..n \subseteq T
<1> DEFINE U == {k \in 0..n : k \notin T}
<1>1. SUFFICES ASSUME U # {} PROVE FALSE
  OBVIOUS
<1>2. PICK k \in U : \A m \in U : k <= m
  <2>1. U \in SUBSET Nat
    OBVIOUS
  <2> QED BY <1>1, <2>1, LeastNatural
<1>3. k \in 1..n
  OBVIOUS
<1>4. k - 1 \in T
  <2>1. k - 1 \notin U
    <3> HIDE DEF U
    <3> QED BY <1>2, <1>3
  <2> QED BY <2>1, <1>3
<1> QED BY <1>3, <1>4

-----------------------------------------------------------------------------
(* The laws of FlattenSeq.                                                 *)

\* f[i] is what the first i sequences of seqs are together.
Flattens(f, seqs) ==
  \A i \in 1..Len(seqs) : f[i] = IF i = 1 THEN seqs[i] ELSE f[i - 1] \o seqs[i]

\* The recursive function in FlattenSeq exists, for every length.
LEMMA FlattenExists ==
  ASSUME NEW seqs, NEW n \in Nat
  PROVE  \E f : f = [i \in 1..n |-> IF i = 1 THEN seqs[i] ELSE f[i - 1] \o seqs[i]]
<1> DEFINE Def(k, f) ==
             f = [i \in 1..k |-> IF i = 1 THEN seqs[i] ELSE f[i - 1] \o seqs[i]]
           T == {k \in Nat : ~ \E f : Def(k, f)}
<1>1. SUFFICES ASSUME T # {} PROVE FALSE
  OBVIOUS
<1>2. PICK k \in T : \A m \in T : k <= m
  BY <1>1, LeastNatural
<1>3. k # 0
  <2>1. SUFFICES ASSUME k = 0 PROVE FALSE
    OBVIOUS
  <2>2. Def(0, [i \in 1..0 |-> seqs[i]])
    OBVIOUS
  <2> QED BY <2>1, <2>2
<1>4. k \in Nat /\ k - 1 \in Nat /\ k - 1 \notin T
  <2>1. k \in Nat
    OBVIOUS
  <2> HIDE DEF T
  <2>2. k - 1 \in Nat /\ ~ (k <= k - 1)
    BY <2>1, <1>3
  <2> QED BY <2>1, <2>2, <1>2
<1>5. PICK g : Def(k - 1, g)
  BY Zenon, <1>4
<1> DEFINE h == [i \in 1..k |-> IF i = k THEN IF k = 1 THEN seqs[k] ELSE g[k - 1] \o seqs[k]
                                ELSE g[i]]
<1>6. Def(k, h)
  <2>1. ASSUME NEW i \in 1..k
        PROVE  h[i] = IF i = 1 THEN seqs[i] ELSE h[i - 1] \o seqs[i]
    <3>1. CASE i = k
      BY <3>1, <1>4
    <3>2. CASE i # k
      <4>1. i \in 1..(k - 1) /\ (i # 1 => i - 1 \in 1..k /\ i - 1 # k)
        BY <3>2, <1>4
      <4>2. g[i] = IF i = 1 THEN seqs[i] ELSE g[i - 1] \o seqs[i]
        BY <4>1, <1>5
      <4> QED BY <3>2, <4>1, <4>2
    <3> QED BY <3>1, <3>2
  <2> HIDE DEF h
  <2>2. [i \in 1..k |-> IF i = 1 THEN seqs[i] ELSE h[i - 1] \o seqs[i]] = [i \in 1..k |-> h[i]]
    BY <2>1
  <2>3. h = [i \in 1..k |-> h[i]]
    BY DEF h
  <2> QED BY <2>2, <2>3
<1> QED BY <1>2, <1>6

\* FlattenSeq is the last value of such a function.
LEMMA FlattenFunction ==
  ASSUME NEW seqs, Len(seqs) \in Nat \ {0}
  PROVE  \E f : Flattens(f, seqs) /\ FlattenSeq(seqs) = f[Len(seqs)]
<1> DEFINE f == CHOOSE g : g = [i \in 1..Len(seqs) |->
                                 IF i = 1 THEN seqs[i] ELSE g[i - 1] \o seqs[i]]
<1>1. f = [i \in 1..Len(seqs) |-> IF i = 1 THEN seqs[i] ELSE f[i - 1] \o seqs[i]]
  BY FlattenExists
<1>2. FlattenSeq(seqs) = f[Len(seqs)]
  BY DEF FlattenSeq
<1> HIDE DEF f
<1>3. Flattens(f, seqs)
  BY <1>1 DEF Flattens
<1> QED BY <1>2, <1>3

\* The same sequences give the same values.
LEMMA FlattensSame ==
  ASSUME NEW s, NEW t, NEW f, NEW g, Len(s) \in Nat, Len(t) \in Nat,
         Flattens(f, s), Flattens(g, t), Len(s) <= Len(t),
         \A i \in 1..Len(s) : s[i] = t[i]
  PROVE  \A i \in 1..Len(s) : f[i] = g[i]
<1> DEFINE T == {i \in 1..Len(s) : f[i] # g[i]}
<1>1. SUFFICES ASSUME T # {} PROVE FALSE
  OBVIOUS
<1>2. T \in SUBSET Nat
  OBVIOUS
<1>3. PICK k \in T : \A m \in T : k <= m
  BY <1>1, <1>2, LeastNatural
<1>4. k \in 1..Len(s) /\ f[k] # g[k] /\ (k # 1 => k - 1 \in 1..Len(s) /\ f[k - 1] = g[k - 1])
  BY <1>3
<1>5. f[k] = IF k = 1 THEN s[k] ELSE f[k - 1] \o s[k]
  BY <1>4 DEF Flattens
<1>6. g[k] = IF k = 1 THEN t[k] ELSE g[k - 1] \o t[k]
  BY <1>4 DEF Flattens
<1> QED BY <1>4, <1>5, <1>6

\* What is flattened is a sequence of what the sequences hold.
LEMMA FlattenSeqType ==
  ASSUME NEW S, NEW seqs \in Seq(Seq(S))
  PROVE  FlattenSeq(seqs) \in Seq(S)
<1>1. CASE seqs = <<>>
  BY <1>1, EmptySeq DEF FlattenSeq
<1>2. CASE seqs # <<>>
  <2>1. Len(seqs) \in Nat \ {0} /\ \A i \in 1..Len(seqs) : seqs[i] \in Seq(S)
    BY <1>2, EmptySeq, ElementOfSeq
  <2>2. PICK f : Flattens(f, seqs) /\ FlattenSeq(seqs) = f[Len(seqs)]
    BY <2>1, FlattenFunction
  <2> DEFINE T == {i \in 1..Len(seqs) : f[i] \notin Seq(S)}
  <2>3. SUFFICES ASSUME T # {} PROVE FALSE
    BY <2>1, <2>2
  <2>4. T \in SUBSET Nat
    OBVIOUS
  <2>5. PICK k \in T : \A m \in T : k <= m
    BY <2>3, <2>4, LeastNatural
  <2>6. k \in 1..Len(seqs) /\ f[k] \notin Seq(S)
        /\ (k # 1 => k - 1 \in 1..Len(seqs) /\ f[k - 1] \in Seq(S))
    BY <2>1, <2>5
  <2>7. f[k] = IF k = 1 THEN seqs[k] ELSE f[k - 1] \o seqs[k]
    BY <2>2, <2>6 DEF Flattens
  <2> QED BY <2>1, <2>6, <2>7, ConcatProperties
<1> QED BY <1>1, <1>2

\* One more sequence comes to the end, ...
LEMMA FlattenSeqAppend ==
  ASSUME NEW S, NEW seqs \in Seq(Seq(S)), NEW s \in Seq(S)
  PROVE  FlattenSeq(Append(seqs, s)) = FlattenSeq(seqs) \o s
<1> DEFINE all == Append(seqs, s)
<1>1. /\ all \in Seq(Seq(S)) /\ Len(all) = Len(seqs) + 1 /\ Len(seqs) \in Nat
      /\ \A i \in 1..Len(seqs) : all[i] = seqs[i]
      /\ all[Len(seqs) + 1] = s
  BY AppendProperties, LenProperties
<1> HIDE DEF all
<1>2. PICK f : Flattens(f, all) /\ FlattenSeq(all) = f[Len(all)]
  BY <1>1, FlattenFunction
<1>3. CASE seqs = <<>>
  <2>1. Len(seqs) = 0 /\ FlattenSeq(seqs) = <<>>
    BY <1>3, EmptySeq DEF FlattenSeq
  <2>2. f[1] = s
    BY <1>1, <1>2, <2>1 DEF Flattens
  <2> QED BY <1>1, <1>2, <2>1, <2>2, ConcatEmptySeq DEF all
<1>4. CASE seqs # <<>>
  <2>1. Len(seqs) \in Nat \ {0}
    BY <1>4, EmptySeq
  <2>2. PICK g : Flattens(g, seqs) /\ FlattenSeq(seqs) = g[Len(seqs)]
    BY <2>1, FlattenFunction
  <2>3. \A i \in 1..Len(seqs) : f[i] = g[i]
    <3>1. /\ Flattens(f, all) /\ Flattens(g, seqs)
          /\ Len(seqs) \in Nat /\ Len(all) \in Nat /\ Len(seqs) <= Len(all)
          /\ \A i \in 1..Len(seqs) : seqs[i] = all[i]
      BY <1>1, <1>2, <2>2
    <3> QED BY <3>1, FlattensSame
  <2>4. f[Len(all)] = f[Len(seqs)] \o s
    <3> DEFINE l == Len(seqs) + 1
    <3>1. l \in 1..Len(all) /\ l # 1 /\ l - 1 = Len(seqs) /\ Len(all) = l /\ all[l] = s
      BY <1>1, <2>1
    <3> HIDE DEF l
    <3>2. f[l] = IF l = 1 THEN all[l] ELSE f[l - 1] \o all[l]
      BY <1>2, <3>1 DEF Flattens
    <3> QED BY <3>1, <3>2
  <2>5. Len(seqs) \in 1..Len(seqs)
    BY <2>1
  <2>6. f[Len(seqs)] = g[Len(seqs)]
    BY <2>3, <2>5
  <2> QED BY <1>2, <2>2, <2>4, <2>6 DEF all
<1> QED BY <1>3, <1>4

\* ... and so do several of them.
LEMMA FlattenSeqConcat ==
  ASSUME NEW S, NEW s \in Seq(Seq(S)), NEW t \in Seq(Seq(S))
  PROVE  FlattenSeq(s \o t) = FlattenSeq(s) \o FlattenSeq(t)
<1> DEFINE Wrong(u) == FlattenSeq(s \o u) # FlattenSeq(s) \o FlattenSeq(u)
           T == {n \in Nat : \E u \in Seq(Seq(S)) : Len(u) = n /\ Wrong(u)}
<1>1. SUFFICES ASSUME T # {} PROVE FALSE
  <2>1. Len(t) \in Nat
    BY LenProperties
  <2> QED BY <2>1
<1>2. PICK n \in T : \A m \in T : n <= m
  BY <1>1, LeastNatural
<1>3. PICK u \in Seq(Seq(S)) : Len(u) = n /\ Wrong(u)
  BY <1>2
<1>4. u # <<>>
  <2>1. FlattenSeq(<<>>) = <<>>
    BY EmptySeq DEF FlattenSeq
  <2>2. s \o <<>> = s /\ FlattenSeq(s) \o <<>> = FlattenSeq(s)
    BY ConcatEmptySeq, FlattenSeqType
  <2> QED BY <1>3, <2>1, <2>2
<1>5. PICK v \in Seq(Seq(S)), e \in Seq(S) : u = Append(v, e)
  BY <1>4, SequenceEmptyOrAppend
<1>6. Len(v) \in Nat /\ n = Len(v) + 1
  BY <1>3, <1>5, AppendProperties, LenProperties
<1>7. ~ Wrong(v)
  <2>1. ~ (n <= Len(v))
    BY <1>6
  <2>2. Len(v) \notin T
    BY <2>1, <1>2
  <2> QED BY Zenon, <2>2, <1>6
<1> HIDE DEF T, Wrong
<1>8. s \o u = Append(s \o v, e) /\ s \o v \in Seq(Seq(S))
  <2>1. u = v \o <<e>> /\ <<e>> \in Seq(Seq(S))
    BY <1>5, AppendIsConcat
  <2>2. s \o v \in Seq(Seq(S)) /\ Append(s \o v, e) = (s \o v) \o <<e>>
    BY ConcatProperties, AppendIsConcat
  <2>3. (s \o v) \o <<e>> = s \o (v \o <<e>>)
    BY <2>1, ConcatAssociative
  <2> QED BY <2>1, <2>2, <2>3
<1>9. FlattenSeq(s \o u) = (FlattenSeq(s) \o FlattenSeq(v)) \o e
  <2>1. FlattenSeq(s \o u) = FlattenSeq(s \o v) \o e
    BY <1>8, FlattenSeqAppend
  <2> QED BY <2>1, <1>7 DEF Wrong
<1>10. FlattenSeq(u) = FlattenSeq(v) \o e
  BY <1>5, FlattenSeqAppend
<1>11. (FlattenSeq(s) \o FlattenSeq(v)) \o e = FlattenSeq(s) \o (FlattenSeq(v) \o e)
  <2> DEFINE x == FlattenSeq(s)
             y == FlattenSeq(v)
  <2>1. x \in Seq(S) /\ y \in Seq(S)
    BY FlattenSeqType
  <2> HIDE DEF x, y
  <2>2. (x \o y) \o e = x \o (y \o e)
    BY <2>1, ConcatAssociative
  <2> QED BY <2>2 DEF x, y
<1> QED BY <1>3, <1>9, <1>10, <1>11 DEF Wrong

\* No sequences flatten to the empty one.
LEMMA FlattenSeqEmpty == FlattenSeq(<<>>) = <<>>
BY EmptySeq DEF FlattenSeq

\* The first sequence comes first.
LEMMA FlattenSeqHead ==
  ASSUME NEW S, NEW seqs \in Seq(Seq(S)), seqs # <<>>
  PROVE  FlattenSeq(seqs) = Head(seqs) \o FlattenSeq(Tail(seqs))
<1> DEFINE h == Head(seqs)
           t == Tail(seqs)
<1>1. h \in Seq(S) /\ t \in Seq(Seq(S))
  BY HeadTailProperties
<1>2. seqs = Append(<<>>, h) \o t
  BY <1>1
<1>3. Append(<<>>, h) \in Seq(Seq(S)) /\ <<>> \in Seq(Seq(S))
  BY <1>1
<1> HIDE DEF h, t
<1>4. FlattenSeq(Append(<<>>, h)) = <<>> \o h
  BY <1>1, <1>3, FlattenSeqAppend, FlattenSeqEmpty
<1>5. <<>> \o h = h
  BY <1>1, ConcatEmptySeq
<1>6. FlattenSeq(seqs) = FlattenSeq(Append(<<>>, h)) \o FlattenSeq(t)
  BY <1>1, <1>2, <1>3, FlattenSeqConcat
<1> QED BY <1>4, <1>5, <1>6 DEF h, t

-----------------------------------------------------------------------------
(* A change in a part of a sequence.                                       *)

\* A change of an element of p is one of o \o p.
LEMMA ChangeInConcat ==
  ASSUME NEW S, NEW o \in Seq(S), NEW p \in Seq(S), NEW i \in 1..Len(p), NEW e \in S
  PROVE  [o \o p EXCEPT ![Len(o) + i] = e] = o \o [p EXCEPT ![i] = e]
<1> DEFINE a == o \o p
           k == Len(o) + i
           l == [a EXCEPT ![k] = e]
           q == [p EXCEPT ![i] = e]
<1>1. a \in Seq(S) /\ Len(a) = Len(o) + Len(p) /\ Len(o) \in Nat /\ Len(p) \in Nat
      /\ \A j \in 1..Len(o) + Len(p) : a[j] = IF j <= Len(o) THEN o[j] ELSE p[j - Len(o)]
  BY ConcatProperties, LenProperties
<1>2. k \in 1..Len(a)
  BY <1>1
<1> HIDE DEF a, k
<1>3. l \in Seq(S) /\ Len(l) = Len(a) /\ \A j \in 1..Len(a) : l[j] = IF j = k THEN e ELSE a[j]
  BY <1>1, <1>2, ExceptSeq
<1>4. q \in Seq(S) /\ Len(q) = Len(p) /\ \A j \in 1..Len(p) : q[j] = IF j = i THEN e ELSE p[j]
  BY ExceptSeq
<1> HIDE DEF l, q
<1> DEFINE r == o \o q
<1>5. r \in Seq(S) /\ Len(r) = Len(o) + Len(q)
      /\ \A j \in 1..Len(o) + Len(q) : r[j] = IF j <= Len(o) THEN o[j] ELSE q[j - Len(o)]
  BY <1>4, ConcatProperties
<1> HIDE DEF r
<1>6. ASSUME NEW j \in 1..Len(l) PROVE l[j] = r[j]
  <2>0. j \in 1..Len(o) + Len(p)
    BY <1>1, <1>3
  <2>1. CASE j <= Len(o)
    <3>1. j # k
      BY <1>1, <2>0, <2>1 DEF k
    <3> QED BY <1>1, <1>3, <1>4, <1>5, <2>0, <2>1, <3>1
  <2>2. CASE j > Len(o)
    <3>1. j - Len(o) \in 1..Len(p) /\ (j = k <=> j - Len(o) = i)
      BY <1>1, <2>0, <2>2 DEF k
    <3>2. r[j] = q[j - Len(o)] /\ a[j] = p[j - Len(o)]
      BY <1>1, <1>4, <1>5, <2>0, <2>2
    <3> QED BY <1>1, <1>3, <1>4, <2>0, <3>1, <3>2
  <2> QED BY <1>1, <2>0, <2>1, <2>2
<1>7. l = r
  BY <1>1, <1>3, <1>4, <1>5, <1>6, SeqEqual
<1> QED BY <1>7 DEF l, r, q, a, k
-----------------------------------------------------------------------------
(* Beginnings of a sequence.                                               *)

\* Cutting a sequence in two loses nothing.
LEMMA CutInTwo ==
  ASSUME NEW S, NEW s \in Seq(S), NEW n \in 0..Len(s)
  PROVE  /\ SubSeq(s, 1, n) \in Seq(S)
         /\ SubSeq(s, n + 1, Len(s)) \in Seq(S)
         /\ Len(SubSeq(s, 1, n)) = n
         /\ Len(SubSeq(s, n + 1, Len(s))) = Len(s) - n
         /\ SubSeq(s, 1, n) \o SubSeq(s, n + 1, Len(s)) = s
<1>1. Len(s) \in Nat /\ \A i \in 1..Len(s) : s[i] \in S
  BY LenProperties, ElementOfSeq
<1>2. SubSeq(s, 1, n) \in Seq(S) /\ Len(SubSeq(s, 1, n)) = n
  <2>1. \A i \in 1..n : s[i] \in S
    BY <1>1
  <2> QED BY <1>1, <2>1, SubSeqProperties
<1>3. SubSeq(s, n + 1, Len(s)) \in Seq(S) /\ Len(SubSeq(s, n + 1, Len(s))) = Len(s) - n
  <2>1. \A i \in (n + 1)..Len(s) : s[i] \in S
    BY <1>1
  <2> QED BY <1>1, <2>1, SubSeqProperties
<1>4. SubSeq(s, 1, n) \o SubSeq(s, n + 1, Len(s)) = SubSeq(s, 1, Len(s))
  <2>1. /\ 1 \in 1..Len(s) + 1
        /\ n \in 1 - 1..Len(s)
        /\ Len(s) \in n..Len(s)
    BY <1>1
  <2> QED BY ONLY s \in Seq(S), <2>1, ConcatAdjacentSubSeq
<1> QED BY <1>2, <1>3, <1>4, SubSeqFull

\* A prefix is what something can be appended to.
LEMMA PrefixIsConcat ==
  ASSUME NEW S, NEW s \in Seq(S), NEW t \in Seq(S)
  PROVE  IsPrefix(s, t) <=> \E u \in Seq(S) : t = s \o u
<1>1. ASSUME IsPrefix(s, t)
      PROVE  \E u \in Seq(S) : t = s \o u
  <2> DEFINE u == SubSeq(t, Len(s) + 1, Len(t))
  <2>1. Len(s) \in Nat /\ Len(t) \in Nat /\ Len(s) <= Len(t)
        /\ SubSeq(s, 1, Len(s)) = SubSeq(t, 1, Len(s))
    BY <1>1, LenProperties DEF IsPrefix
  <2>2. u \in Seq(S) /\ SubSeq(t, 1, Len(s)) \o u = t
    <3>1. Len(s) \in 0..Len(t)
      BY <2>1
    <3> QED BY <3>1, CutInTwo
  <2>3. t = s \o u
    BY <2>1, <2>2, SubSeqFull
  <2> QED BY <2>2, <2>3
<1>2. ASSUME NEW u \in Seq(S), t = s \o u
      PROVE  IsPrefix(s, t)
  <2>1. Len(s) \in Nat /\ Len(u) \in Nat /\ Len(t) = Len(s) + Len(u)
        /\ \A i \in 1..Len(s) : t[i] = s[i]
    BY <1>2, LenProperties, ConcatProperties
  <2>2. SubSeq(s, 1, Len(s)) = SubSeq(t, 1, Len(s))
    <3>1. SubSeq(s, 1, Len(s)) = [i \in 1..Len(s) |-> s[i]]
      BY <2>1, SubSeqFull, LenProperties
    <3>2. SubSeq(t, 1, Len(s)) = [i \in 1..Len(s) |-> t[i]]
      BY <2>1
    <3> QED BY <2>1, <3>1, <3>2
  <2> QED BY <2>1, <2>2 DEF IsPrefix
<1> QED BY <1>1, <1>2

\* The left part of a concatenation is cut off again.
LEMMA FirstOfConcat ==
  ASSUME NEW S, NEW s \in Seq(S), NEW t \in Seq(S)
  PROVE  /\ Len(s) \in 0..Len(s \o t)
         /\ SubSeq(s \o t, 1, Len(s)) = s
<1>1. /\ Len(s) \in Nat /\ Len(t) \in Nat /\ s \o t \in Seq(S)
      /\ Len(s \o t) = Len(s) + Len(t)
      /\ \A i \in 1..Len(s) : (s \o t)[i] = s[i]
  BY LenProperties, ConcatProperties
<1>2. SubSeq(s \o t, 1, Len(s)) \in Seq(S) /\ Len(SubSeq(s \o t, 1, Len(s))) = Len(s)
  <2>1. Len(s) \in 0..Len(s \o t)
    BY <1>1
  <2> QED BY <1>1, <2>1, CutInTwo
<1>3. \A i \in 1..Len(s) : SubSeq(s \o t, 1, Len(s))[i] = s[i]
  BY <1>1
<1> QED BY <1>1, <1>2, <1>3, SeqEqual

\* Head and tail of a concatenation are those of its left part.
LEMMA HeadTailOfConcat ==
  ASSUME NEW S, NEW s \in Seq(S), NEW t \in Seq(S), s # <<>>
  PROVE  /\ s \o t # <<>>
         /\ Head(s \o t) = Head(s)
         /\ Tail(s \o t) = Tail(s) \o t
<1>1. /\ Len(s) \in Nat \ {0} /\ Len(t) \in Nat
      /\ s \o t \in Seq(S) /\ Len(s \o t) = Len(s) + Len(t)
      /\ \A i \in 1..Len(s) + Len(t) :
           (s \o t)[i] = IF i <= Len(s) THEN s[i] ELSE t[i - Len(s)]
  BY EmptySeq, LenProperties, ConcatProperties
<1>2. s \o t # <<>>
  BY <1>1, EmptySeq
<1>3. Head(s \o t) = Head(s)
  BY <1>1, <1>2
<1>4. /\ Tail(s) \in Seq(S) /\ Len(Tail(s)) = Len(s) - 1
      /\ \A i \in 1..Len(Tail(s)) : Tail(s)[i] = s[i + 1]
      /\ Tail(s \o t) \in Seq(S) /\ Len(Tail(s \o t)) = Len(s) + Len(t) - 1
      /\ \A i \in 1..Len(Tail(s \o t)) : Tail(s \o t)[i] = (s \o t)[i + 1]
  BY <1>1, <1>2, HeadTailProperties
<1>5. /\ Tail(s) \o t \in Seq(S) /\ Len(Tail(s) \o t) = Len(s) - 1 + Len(t)
      /\ \A i \in 1..Len(s) - 1 + Len(t) :
           (Tail(s) \o t)[i] = IF i <= Len(s) - 1 THEN Tail(s)[i] ELSE t[i - (Len(s) - 1)]
  BY <1>1, <1>4, ConcatProperties
<1>6. ASSUME NEW i \in 1..Len(s) + Len(t) - 1
      PROVE  Tail(s \o t)[i] = (Tail(s) \o t)[i]
  BY <1>1, <1>4, <1>5
<1> QED BY <1>1, <1>2, <1>3, <1>4, <1>5, <1>6, SeqEqual

\* A beginning of a beginning is one, and stays one when the sequence grows.
LEMMA PrefixShorter ==
  ASSUME NEW S, NEW s \in Seq(S), NEW t \in Seq(S), NEW u \in Seq(S), IsPrefix(s \o t, u)
  PROVE  IsPrefix(s, u)
<1>1. s \o t \in Seq(S)
  BY ConcatProperties
<1>2. PICK v \in Seq(S) : u = (s \o t) \o v
  BY <1>1, PrefixIsConcat
<1>3. u = s \o (t \o v) /\ t \o v \in Seq(S)
  BY <1>2, ConcatAssociative, ConcatProperties
<1> QED BY <1>3, PrefixIsConcat

\* A prefix stays one when more is appended.
LEMMA PrefixOfLonger ==
  ASSUME NEW S, NEW s \in Seq(S), NEW t \in Seq(S), NEW u \in Seq(S), IsPrefix(s, t)
  PROVE  IsPrefix(s, t \o u)
<1>1. PICK v \in Seq(S) : t = s \o v
  BY PrefixIsConcat
<1>2. t \o u = s \o (v \o u) /\ v \o u \in Seq(S) /\ t \o u \in Seq(S)
  BY <1>1, ConcatAssociative, ConcatProperties
<1> QED BY <1>2, PrefixIsConcat

\* The right part of a concatenation is cut off again.
LEMMA SecondOfConcat ==
  ASSUME NEW S, NEW s \in Seq(S), NEW t \in Seq(S)
  PROVE  SubSeq(s \o t, Len(s) + 1, Len(s \o t)) = t
<1> DEFINE u == s \o t
           v == SubSeq(u, Len(s) + 1, Len(u))
<1>1. /\ Len(s) \in Nat /\ Len(t) \in Nat /\ u \in Seq(S)
      /\ Len(u) = Len(s) + Len(t)
      /\ \A i \in 1..Len(t) : u[Len(s) + i] = t[i]
  BY LenProperties, ConcatProperties
<1> HIDE DEF u
<1>2. v \in Seq(S) /\ Len(v) = Len(t)
  <2>1. Len(s) \in 0..Len(u)
    BY <1>1
  <2>2. v \in Seq(S) /\ Len(v) = Len(u) - Len(s)
    BY <1>1, <2>1, CutInTwo
  <2> QED BY <1>1, <2>2
<1>3. ASSUME NEW i \in 1..Len(t) PROVE v[i] = t[i]
  BY <1>1
<1> HIDE DEF v
<1>4. v = t
  BY <1>2, <1>3, SeqEqual
<1> QED BY <1>4 DEF u, v

\* Parts of a beginning are parts of the whole.
LEMMA PartsOfBeginning ==
  ASSUME NEW S, NEW s \in Seq(S), NEW n \in 0..Len(s), NEW m \in 0..n
  PROVE  /\ SubSeq(SubSeq(s, 1, n), 1, m) = SubSeq(s, 1, m)
         /\ SubSeq(SubSeq(s, 1, n), m + 1, n) = SubSeq(s, m + 1, n)
<1> DEFINE b == SubSeq(s, 1, n)
<1>1. /\ b \in Seq(S) /\ Len(b) = n /\ Len(s) \in Nat /\ m \in 0..Len(s)
      /\ \A i \in 1..n : b[i] = s[i]
  BY LenProperties, CutInTwo
<1> HIDE DEF b
<1>2. SubSeq(b, 1, m) = SubSeq(s, 1, m)
  <2>1. \A i \in 1..m : b[i] = s[i]
    BY <1>1
  <2>2. SubSeq(b, 1, m) \in Seq(S) /\ Len(SubSeq(b, 1, m)) = m
        /\ \A i \in 1..m : SubSeq(b, 1, m)[i] = b[i]
    BY <1>1, CutInTwo
  <2>3. SubSeq(s, 1, m) \in Seq(S) /\ Len(SubSeq(s, 1, m)) = m
        /\ \A i \in 1..m : SubSeq(s, 1, m)[i] = s[i]
    BY <1>1, CutInTwo
  <2> QED BY ONLY <2>1, <2>2, <2>3, SeqEqual
<1>3. SubSeq(b, m + 1, n) = SubSeq(s, m + 1, n)
  <2>1. \A i \in m + 1..n : b[i] = s[i] /\ s[i] \in S
    BY <1>1, ElementOfSeq
  <2>2. SubSeq(b, m + 1, n) = [i \in 1..n - (m + 1) + 1 |-> b[(m + 1) + i - 1]]
        /\ SubSeq(s, m + 1, n) = [i \in 1..n - (m + 1) + 1 |-> s[(m + 1) + i - 1]]
    BY <1>1
  <2>3. \A i \in 1..n - (m + 1) + 1 : (m + 1) + i - 1 \in m + 1..n
    BY <1>1
  <2> QED BY <2>1, <2>2, <2>3
<1> QED BY <1>2, <1>3 DEF b

\* One sequence alone.
LEMMA FlattenOne ==
  ASSUME NEW S, NEW x \in Seq(S)
  PROVE  FlattenSeq(<<x>>) = x
<1>1. PICK e \in Seq(Seq(S)) : e = <<>>
  BY EmptySeq
<1>2. FlattenSeq(Append(e, x)) = FlattenSeq(e) \o x
  BY FlattenSeqAppend
<1>3. Append(e, x) = <<x>> /\ FlattenSeq(e) = <<>> /\ <<>> \o x = x
  BY <1>1, FlattenSeqEmpty, ConcatEmptySeq
<1> QED BY <1>2, <1>3

-----------------------------------------------------------------------------
(* Where the sequences lie in what they flatten to.                        *)

\* The length of the first k together.
Offset(seqs, k) == Len(FlattenSeq(SubSeq(seqs, 1, k)))

\* A cut between two of them.
LEMMA CutFlat ==
  ASSUME NEW S, NEW seqs \in Seq(Seq(S)), NEW k \in 0..Len(seqs)
  PROVE  /\ FlattenSeq(seqs) \in Seq(S)
         /\ Offset(seqs, k) \in 0..Len(FlattenSeq(seqs))
         /\ SubSeq(FlattenSeq(seqs), 1, Offset(seqs, k)) = FlattenSeq(SubSeq(seqs, 1, k))
         /\ SubSeq(FlattenSeq(seqs), Offset(seqs, k) + 1, Len(FlattenSeq(seqs)))
              = FlattenSeq(SubSeq(seqs, k + 1, Len(seqs)))
<1> DEFINE a == SubSeq(seqs, 1, k)
           b == SubSeq(seqs, k + 1, Len(seqs))
<1>1. a \in Seq(Seq(S)) /\ b \in Seq(Seq(S)) /\ a \o b = seqs
  BY CutInTwo
<1> HIDE DEF a, b
<1>2. PICK x \in Seq(S), y \in Seq(S) : x = FlattenSeq(a) /\ y = FlattenSeq(b)
  BY <1>1, FlattenSeqType
<1>3. FlattenSeq(seqs) = x \o y
  BY <1>1, <1>2, FlattenSeqConcat
<1>4. Offset(seqs, k) = Len(x)
  BY <1>2 DEF Offset, a
<1>5. x \o y \in Seq(S) /\ Len(x) \in 0..Len(x \o y) /\ SubSeq(x \o y, 1, Len(x)) = x
      /\ SubSeq(x \o y, Len(x) + 1, Len(x \o y)) = y
  BY ConcatProperties, FirstOfConcat, SecondOfConcat
<1> QED BY <1>2, <1>3, <1>4, <1>5 DEF a, b

\* A run of them between two cuts.
LEMMA MiddleFlat ==
  ASSUME NEW S, NEW seqs \in Seq(Seq(S)), NEW j \in 0..Len(seqs), NEW i \in 0..j
  PROVE  /\ Offset(seqs, i) \in 0..Offset(seqs, j)
         /\ Offset(seqs, j) \in 0..Len(FlattenSeq(seqs))
         /\ SubSeq(FlattenSeq(seqs), Offset(seqs, i) + 1, Offset(seqs, j))
              = FlattenSeq(SubSeq(seqs, i + 1, j))
<1> DEFINE p == SubSeq(seqs, 1, j)
           s == FlattenSeq(seqs)
<1>1. p \in Seq(Seq(S)) /\ Len(p) = j
  BY CutInTwo
<1>2. SubSeq(p, 1, i) = SubSeq(seqs, 1, i) /\ SubSeq(p, i + 1, j) = SubSeq(seqs, i + 1, j)
  BY PartsOfBeginning
<1>3. /\ s \in Seq(S) /\ Offset(seqs, j) \in 0..Len(s)
      /\ SubSeq(s, 1, Offset(seqs, j)) = FlattenSeq(p)
      /\ Offset(seqs, j) = Len(FlattenSeq(p))
  BY CutFlat DEF Offset
<1> HIDE DEF p, s
<1>4. Offset(p, i) = Offset(seqs, i)
  BY <1>2 DEF Offset
<1>5. /\ Offset(p, i) \in 0..Len(FlattenSeq(p))
      /\ SubSeq(FlattenSeq(p), Offset(p, i) + 1, Len(FlattenSeq(p)))
           = FlattenSeq(SubSeq(p, i + 1, Len(p)))
  <2>1. i \in 0..Len(p)
    BY <1>1
  <2> QED BY <1>1, <2>1, CutFlat
<1>6. Offset(seqs, i) \in 0..Offset(seqs, j)
  BY <1>3, <1>4, <1>5
<1>7. SubSeq(SubSeq(s, 1, Offset(seqs, j)), Offset(seqs, i) + 1, Offset(seqs, j))
        = SubSeq(s, Offset(seqs, i) + 1, Offset(seqs, j))
  BY <1>3, <1>6, PartsOfBeginning
<1>8. SubSeq(s, Offset(seqs, i) + 1, Offset(seqs, j)) = FlattenSeq(SubSeq(seqs, i + 1, j))
  BY <1>1, <1>2, <1>3, <1>4, <1>5, <1>7
<1> QED BY <1>3, <1>6, <1>8 DEF s

\* Each of them.
LEMMA OneFlat ==
  ASSUME NEW S, NEW seqs \in Seq(Seq(S)), NEW k \in 1..Len(seqs)
  PROVE  /\ SubSeq(FlattenSeq(seqs), Offset(seqs, k - 1) + 1, Offset(seqs, k)) = seqs[k]
         /\ Offset(seqs, k) = Offset(seqs, k - 1) + Len(seqs[k])
         /\ \A j \in 1..Len(seqs[k]) : FlattenSeq(seqs)[Offset(seqs, k - 1) + j] = seqs[k][j]
<1>0. Len(seqs) \in Nat /\ k - 1 \in 0..k /\ k \in 0..Len(seqs)
  BY LenProperties
<1>1. PICK c \in Seq(S) : c = seqs[k]
  BY ElementOfSeq
<1>2. SubSeq(seqs, k, k) = <<c>>
  <2>1. SubSeq(seqs, k, k) = [i \in 1..1 |-> seqs[k + i - 1]]
    BY <1>0
  <2>2. \A i \in 1..1 : seqs[k + i - 1] = c
    BY <1>0, <1>1
  <2>3. SubSeq(seqs, k, k) = [i \in 1..1 |-> c]
    BY <2>1, <2>2
  <2> QED BY <2>3
<1>3. PICK n \in Nat, m \in Nat, s \in Seq(S) :
        /\ m <= n
        /\ m = Offset(seqs, k - 1) /\ n = Offset(seqs, k) /\ s = FlattenSeq(seqs)
        /\ n <= Len(s)
        /\ SubSeq(s, m + 1, n) = FlattenSeq(SubSeq(seqs, (k - 1) + 1, k))
  <2>1. /\ Offset(seqs, k - 1) \in 0..Offset(seqs, k)
        /\ Offset(seqs, k) \in 0..Len(FlattenSeq(seqs))
        /\ SubSeq(FlattenSeq(seqs), Offset(seqs, k - 1) + 1, Offset(seqs, k))
              = FlattenSeq(SubSeq(seqs, (k - 1) + 1, k))
    BY <1>0, MiddleFlat
  <2>2. FlattenSeq(seqs) \in Seq(S)
    BY FlattenSeqType
  <2>3. Offset(seqs, k) \in Nat /\ Len(FlattenSeq(seqs)) \in Nat
    BY <2>1, <2>2, LenProperties
  <2>4. PICK n \in Nat : n = Offset(seqs, k)
    BY <2>3
  <2>5. PICK m \in Nat : m = Offset(seqs, k - 1) /\ m <= n
    BY <2>1, <2>4
  <2>6. PICK s \in Seq(S) : s = FlattenSeq(seqs)
    BY <2>2
  <2>7. n <= Len(s)
    BY <2>1, <2>3, <2>4, <2>6
  <2> QED BY <2>1, <2>4, <2>5, <2>6, <2>7
<1>4. SubSeq(s, m + 1, n) = c
  <2>1. (k - 1) + 1 = k
    BY <1>0
  <2> QED BY <1>2, <1>3, <2>1, FlattenOne
<1>5. ASSUME NEW i \in 1..n - m
      PROVE  SubSeq(s, m + 1, n)[i] = s[m + i]
  OBVIOUS
<1>6. Len(c) = n - m
  <2>1. n - (m + 1) + 1 = n - m
    OBVIOUS
  <2>2. \A i \in m + 1..n : s[i] \in S
    BY <1>3, ElementOfSeq
  <2>3. Len(SubSeq(s, m + 1, n)) = IF m + 1 <= n THEN n - (m + 1) + 1 ELSE 0
    BY <2>2, SubSeqProperties
  <2>4. m <= n
    BY Zenon, <1>3
  <2>5. SubSeq(s, m + 1, n) = c
    BY Zenon, <1>4
  <2>6. Len(c) = IF m + 1 <= n THEN n - (m + 1) + 1 ELSE 0
    BY Zenon, <2>3, <2>5
  <2> QED BY ONLY n \in Nat, m \in Nat, <2>4, <2>6
<1>7. \A i \in 1..n - m : c[i] = s[m + i]
  BY <1>4, <1>5
<1> QED BY <1>1, <1>3, <1>4, <1>6, <1>7

\* From the first to the last of them.
LEMMA EndsFlat ==
  ASSUME NEW S, NEW seqs \in Seq(Seq(S))
  PROVE  Offset(seqs, 0) = 0 /\ Offset(seqs, Len(seqs)) = Len(FlattenSeq(seqs))
<1>1. SubSeq(seqs, 1, 0) = <<>>
  BY LenProperties
<1>2. SubSeq(seqs, 1, Len(seqs)) = seqs
  BY SubSeqFull
<1> QED BY <1>1, <1>2, FlattenSeqEmpty, EmptySeq DEF Offset

-----------------------------------------------------------------------------
(* The greatest and the least of a set of numbers, and short sequences.     *)

\* The greatest element of a set of numbers up to n + 1 that n + 1 is in.
LEMMA GreatestOf ==
  ASSUME NEW n \in Nat, NEW t \in SUBSET (1..n + 1), n + 1 \in t
  PROVE  Max(t) = n + 1
<1>1. \A y \in t : n + 1 >= y
  OBVIOUS
<1>2. \A x \in t : (\A y \in t : x >= y) => x = n + 1
  OBVIOUS
<1> QED BY <1>1, <1>2 DEF Max

\* The greatest element of a set of numbers up to n is in it.
LEMMA GreatestIn ==
  ASSUME NEW n \in Nat, NEW t \in SUBSET (1..n), t # {}
  PROVE  Max(t) \in t /\ \A m \in t : m <= Max(t)
<1> DEFINE T == {n - m : m \in t}
<1>1. T \in SUBSET Nat
  OBVIOUS
<1>a. T # {}
  <2>1. PICK m : m \in t
    OBVIOUS
  <2>2. n - m \in T
    BY <2>1
  <2> QED BY <2>2
<1>2. PICK k \in T : \A m \in T : k <= m
  BY <1>1, <1>a, LeastNatural
<1>3. PICK g \in t : k = n - g
  OBVIOUS
<1>4. \A m \in t : m <= g
  <2>1. ASSUME NEW m \in t PROVE m <= g
    <3>1. n - m \in T
      OBVIOUS
    <3> HIDE DEF T
    <3>2. k <= n - m
      BY <1>2, <3>1
    <3> QED BY <1>3, <3>2
  <2> QED BY <2>1
<1>5. \A x \in t : (\A y \in t : x >= y) => x = g
  BY <1>3, <1>4
<1>6. \A y \in t : g >= y
  BY <1>4
<1> HIDE DEF T
<1> QED BY <1>4, <1>6 DEF Max

\* The least element of a set of numbers is in it.
LEMMA LeastIn ==
  ASSUME NEW t \in SUBSET Nat, t # {}
  PROVE  Min(t) \in t /\ \A m \in t : Min(t) <= m
<1>1. PICK k \in t : \A m \in t : k <= m
  BY LeastNatural
<1>2. k \in t /\ \A m \in t : k <= m
  BY <1>1
<1> QED BY <1>2, Zenon DEF Min

\* An empty element may be appended before or after a concatenation.
LEMMA AppendEmpty ==
  ASSUME NEW S, NEW W, W = Seq(S), NEW o \in Seq(W), NEW p \in Seq(W)
  PROVE  Append(o \o p, <<>>) = o \o Append(p, <<>>)
<1>1. PICK e \in W : e = <<>>
  BY EmptySeq
<1>2. Append(o \o p, e) = o \o Append(p, e)
  BY ONLY TRUE
<1> QED BY <1>1, <1>2

\* Sequences of two, three and four elements, cut after the first ones.
LEMMA TwoElements ==
  ASSUME NEW S, NEW a \in S, NEW b \in S
  PROVE  <<a, b>> = <<a>> \o <<b>>
<1> DEFINE u == <<a>> \o <<b>>
           v == <<a, b>>
<1>1. <<a>> \in Seq(S) /\ <<b>> \in Seq(S)
  OBVIOUS
<1>2. u \in Seq(S) /\ Len(u) = 2 /\ u[1] = a /\ u[2] = b
  BY <1>1
<1>3. v \in Seq(S) /\ Len(v) = 2 /\ v[1] = a /\ v[2] = b
  OBVIOUS
<1> HIDE DEF u, v
<1>4. \A i \in 1..2 : i = 1 \/ i = 2
  OBVIOUS
<1>5. u = v
  BY <1>2, <1>3, <1>4, SeqEqual
<1> QED BY <1>5 DEF u, v

\* Two elements are added one by one.
LEMMA TwoAtEnd ==
  ASSUME NEW S, NEW s \in Seq(S), NEW a \in S, NEW b \in S
  PROVE  s \o <<a, b>> = s \o <<a>> \o <<b>>
<1>1. <<a, b>> = <<a>> \o <<b>>
  BY TwoElements
<1>0. <<a>> \in Seq(S) /\ <<b>> \in Seq(S)
  OBVIOUS
<1>2. PICK p \in Seq(S), q \in Seq(S) : p = <<a>> /\ q = <<b>>
  BY <1>0
<1>3. (s \o p) \o q = s \o (p \o q)
  BY ONLY TRUE
<1> QED BY <1>1, <1>2, <1>3

\* An element is added behind an empty first one.
LEMMA EmptyThenOne ==
  ASSUME NEW S, NEW W, W = Seq(S), NEW z \in W, NEW q \in Seq(W)
  PROVE  (<<<<>>>> \o q) \o <<z>> = <<<<>>>> \o Append(q, z)
<1>1. PICK a \in W : a = <<>>
  BY EmptySeq
<1>2. (<<a>> \o q) \o <<z>> = <<a>> \o Append(q, z)
  BY ONLY TRUE
<1> QED BY <1>1, <1>2

\* Three elements, cut after the first.
LEMMA ThreeElements == ASSUME NEW S, NEW b \in S, NEW c \in S, NEW d \in S
  PROVE <<b, c, d>> = <<b>> \o <<c, d>>
<1> DEFINE u == <<b>> \o <<c, d>>
           v == <<b, c, d>>
<1>1. <<b>> \in Seq(S) /\ <<c, d>> \in Seq(S)
  OBVIOUS
<1>2. u \in Seq(S) /\ Len(u) = 3 /\ u[1] = b /\ u[2] = c /\ u[3] = d
  BY <1>1
<1>3. v \in Seq(S) /\ Len(v) = 3 /\ v[1] = b /\ v[2] = c /\ v[3] = d
  OBVIOUS
<1> HIDE DEF u, v
<1>5. \A i \in 1..3 : i = 1 \/ i = 2 \/ i = 3
  OBVIOUS
<1>6. u = v
  BY <1>2, <1>3, <1>5, SeqEqual
<1> QED BY <1>6 DEF u, v

\* Four elements, cut after the first, ...
LEMMA FourElements ==
  ASSUME NEW S, NEW a \in S, NEW b \in S, NEW c \in S, NEW d \in S
  PROVE  <<a, b, c, d>> = <<a>> \o <<b, c, d>>
<1> DEFINE u == <<a>> \o <<b, c, d>>
           v == <<a, b, c, d>>
<1>1. <<a>> \in Seq(S) /\ <<b, c, d>> \in Seq(S)
  OBVIOUS
<1>2. u \in Seq(S) /\ Len(u) = 4 /\ u[1] = a /\ u[2] = b /\ u[3] = c /\ u[4] = d
  BY <1>1
<1>3. v \in Seq(S) /\ Len(v) = 4 /\ v[1] = a /\ v[2] = b /\ v[3] = c /\ v[4] = d
  OBVIOUS
<1> HIDE DEF u, v
<1>4. \A i \in 1..4 : i = 1 \/ i = 2 \/ i = 3 \/ i = 4
  OBVIOUS
<1>5. u = v
  BY <1>2, <1>3, <1>4, SeqEqual
<1> QED BY <1>5 DEF u, v

\* ... and after the second.
LEMMA FourElementsCut ==
  ASSUME NEW S, NEW a \in S, NEW b \in S, NEW c \in S, NEW d \in S
  PROVE  <<a, b, c, d>> = <<a>> \o <<b>> \o <<c, d>>
<1>1. <<a>> \in Seq(S) /\ <<b>> \in Seq(S) /\ <<c, d>> \in Seq(S)
  OBVIOUS
<1>2. <<b, c, d>> = <<b>> \o <<c, d>>
  BY ThreeElements
<1>3. PICK p \in Seq(S), q \in Seq(S), s \in Seq(S) : p = <<a>> /\ q = <<b>> /\ s = <<c, d>>
  BY <1>1
<1>4. (p \o q) \o s = p \o (q \o s)
  BY ONLY TRUE
<1>5. <<a, b, c, d>> = <<a>> \o <<b, c, d>>
  BY FourElements
<1> QED BY <1>2, <1>3, <1>4, <1>5

\* What follows a first element.
LEMMA TailOfOne ==
  ASSUME NEW S, NEW a \in S, NEW s \in Seq(S)
  PROVE  Tail(<<a>> \o s) = s
<1>1. <<a>> \in Seq(S) /\ <<a>> # <<>> /\ Tail(<<a>>) = <<>>
  OBVIOUS
<1>2. Tail(<<a>> \o s) = Tail(<<a>>) \o s
  BY <1>1, HeadTailOfConcat
<1> QED BY <1>1, <1>2, ConcatEmptySeq

\* The first element of a concatenation is that of its left part.
LEMMA FirstOfTwo ==
  ASSUME NEW S, NEW a \in Seq(S), NEW b \in Seq(S), Len(a) # 0
  PROVE  a \o b \in Seq(S) /\ a \o b # <<>> /\ Len(a \o b) # 0 /\ (a \o b)[1] = a[1]
<1>1. a \o b \in Seq(S) /\ Len(a \o b) = Len(a) + Len(b) /\ Len(a) \in Nat /\ Len(b) \in Nat
  BY ConcatProperties, LenProperties
<1>2. (a \o b)[1] = a[1]
  BY <1>1, ConcatProperties
<1>3. Len(a \o b) # 0
  BY <1>1
<1> QED BY <1>1, <1>2, <1>3, EmptySeq

\* The types of short sequences.
LEMMA ShortTypes ==
  ASSUME NEW S, NEW a \in S, NEW b \in S, NEW c \in S
  PROVE  <<a>> \in Seq(S) /\ <<a, b>> \in Seq(S) /\ <<a, b, c>> \in Seq(S)
OBVIOUS

\* The type of a sequence of four elements.
LEMMA FourType ==
  ASSUME NEW S, NEW a \in S, NEW b \in S, NEW c \in S, NEW d \in S
  PROVE  <<a, b, c, d>> \in Seq(S)
OBVIOUS

\* The second element of two.
LEMMA SecondOfTwo ==
  ASSUME NEW S, NEW a \in S, NEW b \in S
  PROVE  SubSeq(<<a, b>>, 2, 2) = <<b>>
<1> DEFINE s == <<a, b>>
           u == SubSeq(s, 2, 2)
           w == <<b>>
<1>1. s \in Seq(S) /\ Len(s) = 2 /\ s[2] = b
  OBVIOUS
<1>2. w \in Seq(S) /\ Len(w) = 1 /\ w[1] = b
  OBVIOUS
<1>3. u \in Seq(S) /\ Len(u) = 1 /\ u[1] = b
  <2> HIDE DEF s
  <2> QED BY <1>1
<1> HIDE DEF u, w
<1>4. u = w
  BY <1>2, <1>3, SeqEqual
<1> QED BY <1>4 DEF u, w
==============================================================================
