------------------------------ MODULE BytesProofs ------------------------------
(***************************************************************************)
(* Proofs about the two classes that keep bytes.                           *)
(*                                                                         *)
(* Of Framing, the Buffer at both ends of a stream, for any messages, any  *)
(* radix and length of the header, and any number of bytes that arrive     *)
(* together: the header is read back as the length, a part of a header is  *)
(* waited for, and FramingInv is inductive.                                *)
(*                                                                         *)
(* Of Str, for any strings and blanks: StrInv is inductive, a string of    *)
(* UTF-8 consists of whole characters and gives none but whole ones away,  *)
(* and every Str is a sequence of characters as CharString says.           *)
(***************************************************************************)
EXTENDS Framing, Str, QueueLemmas

-----------------------------------------------------------------------------
(* Headers: a length written in bytes and read back.                       *)

\* A recursive function is a CHOOSE of the functions that satisfy its equation: there is one
\* for the weights of the header's bytes, by induction on their number.
LEMMA WeightExists ==
  ASSUME NEW n \in Nat
  PROVE  \E f : f = [k \in 0..n |-> IF k = 0 THEN 1 ELSE Radix * f[k - 1]]
<1> DEFINE P(m, f) == f = [k \in 0..m |-> IF k = 0 THEN 1 ELSE Radix * f[k - 1]]
           T == {m \in Nat : ~ \E f : P(m, f)}
<1>1. SUFFICES ASSUME T # {} PROVE FALSE
  OBVIOUS
<1>2. PICK m \in T : \A k \in T : m <= k
  <2>1. T \in SUBSET Nat
    OBVIOUS
  <2> QED BY <1>1, <2>1, LeastNatural
<1>3. m # 0
  <2>1. P(0, [k \in 0..0 |-> 1])
    OBVIOUS
  <2> QED BY <2>1
<1>4. PICK j \in Nat : m = j + 1
  BY <1>3
<1>5. PICK g : P(j, g)
  <2>1. j \notin T
    <3> HIDE DEF T
    <3> QED BY <1>2, <1>4
  <2> QED BY <2>1
<1> DEFINE h == [k \in 0..m |-> IF k = m THEN Radix * g[j] ELSE g[k]]
<1>6. P(m, h)
  <2>1. ASSUME NEW k \in 0..m
        PROVE  h[k] = IF k = 0 THEN 1 ELSE Radix * h[k - 1]
    <3>1. CASE k = m
      BY <3>1, <1>4
    <3>2. CASE k # m
      <4>1. k \in 0..j /\ h[k] = g[k]
        BY <3>2, <1>4
      <4>2. g[k] = IF k = 0 THEN 1 ELSE Radix * g[k - 1]
        BY <4>1, <1>5
      <4>3. k # 0 => k - 1 \in 0..m /\ k - 1 # m
        BY <4>1, <1>4
      <4> QED BY <4>1, <4>2, <4>3
    <3> QED BY <3>1, <3>2
  <2> HIDE DEF h
  <2>2. h = [k \in 0..m |-> h[k]]
    BY DEF h
  <2> QED BY <2>1, <2>2, Zenon
<1> QED BY <1>2, <1>6

\* So the weights are the powers of the radix.
LEMMA WeightStep ==
  /\ Weight[0] = 1
  /\ \A k \in 1..HeaderLen : Weight[k] = Radix * Weight[k - 1]
<1> DEFINE P(f) == f = [k \in 0..HeaderLen |-> IF k = 0 THEN 1 ELSE Radix * f[k - 1]]
<1>0. HeaderLen \in Nat \ {0}
  BY FramingAssumption
<1>1. \E f : P(f)
  BY <1>0, WeightExists
<1>2. P(Weight)
  <2> DEFINE f == CHOOSE g : P(g)
  <2>1. P(f)
    <3> HIDE DEF P
    <3> QED BY <1>1
  <2>2. Weight = f
    BY DEF Weight
  <2> HIDE DEF f, P
  <2> QED BY <2>1, <2>2
<1>3. 0 \in 0..HeaderLen /\ \A k \in 1..HeaderLen : k \in 0..HeaderLen /\ k # 0
  BY <1>0
<1> QED BY <1>2, <1>3

\* Quotient and remainder, ...
LEMMA DivMod ==
  ASSUME NEW n \in Nat, NEW w \in Nat \ {0}
  PROVE  /\ n \div w \in Nat /\ n % w \in Nat /\ n % w < w
         /\ n = w * (n \div w) + (n % w)
OBVIOUS

\* ... of which there is only one pair.
LEMMA UniqueDiv ==
  ASSUME NEW n \in Nat, NEW w \in Nat \ {0}, NEW q \in Nat, NEW a \in Nat, a < w, n = w * q + a
  PROVE  n % w = a
<1>1. PICK p \in Nat, b \in Nat : p = n \div w /\ b = n % w /\ b < w /\ n = w * p + b
  BY DivMod
<1>2. w * q + a = w * p + b
  BY <1>1
<1>3. w * (q - p) = b - a
  BY <1>1, <1>2
<1>4. q - p = 0
  <2>1. CASE q - p >= 1
    <3>1. w * (q - p) >= w
      BY <2>1
    <3> QED BY <3>1, <1>1, <1>3
  <2>2. CASE p - q >= 1
    <3>1. w * (p - q) >= w
      BY <2>2
    <3>2. w * (p - q) = a - b
      BY <1>1, <1>2
    <3> QED BY <3>1, <3>2, <1>1
  <2> QED BY <2>1, <2>2
<1>5. b = a
  BY <1>3, <1>4
<1> QED BY <1>1, <1>5

LEMMA SmallMod ==
  ASSUME NEW n \in Nat, NEW w \in Nat \ {0}, n < w
  PROVE  n % w = n
<1>1. n = w * 0 + n
  OBVIOUS
<1> QED BY ONLY <1>1, n \in Nat, w \in Nat \ {0}, n < w, 0 \in Nat, UniqueDiv

\* The same for the number that a header stands for.
LEMMA ValueExists ==
  ASSUME NEW header, NEW n \in Nat
  PROVE  \E f : f = [k \in 0..n |-> IF k = 0 THEN 0 ELSE f[k - 1] + header[k] * Weight[k - 1]]
<1> DEFINE P(m, f) ==
             f = [k \in 0..m |-> IF k = 0 THEN 0 ELSE f[k - 1] + header[k] * Weight[k - 1]]
           T == {m \in Nat : ~ \E f : P(m, f)}
<1>1. SUFFICES ASSUME T # {} PROVE FALSE
  OBVIOUS
<1>2. PICK m \in T : \A k \in T : m <= k
  <2>1. T \in SUBSET Nat
    OBVIOUS
  <2> QED BY <1>1, <2>1, LeastNatural
<1>3. m # 0
  <2>1. P(0, [k \in 0..0 |-> 0])
    OBVIOUS
  <2> QED BY <2>1
<1>4. PICK j \in Nat : m = j + 1
  BY <1>3
<1>5. PICK g : P(j, g)
  <2>1. j \notin T
    <3> HIDE DEF T
    <3> QED BY <1>2, <1>4
  <2> QED BY <2>1
<1> DEFINE h == [k \in 0..m |-> IF k = m THEN g[j] + header[m] * Weight[j] ELSE g[k]]
<1>6. P(m, h)
  <2>1. ASSUME NEW k \in 0..m
        PROVE  h[k] = IF k = 0 THEN 0 ELSE h[k - 1] + header[k] * Weight[k - 1]
    <3>1. CASE k = m
      BY <3>1, <1>4
    <3>2. CASE k # m
      <4>1. k \in 0..j /\ h[k] = g[k]
        BY <3>2, <1>4
      <4>2. g[k] = IF k = 0 THEN 0 ELSE g[k - 1] + header[k] * Weight[k - 1]
        BY <4>1, <1>5
      <4>3. k # 0 => k - 1 \in 0..m /\ k - 1 # m
        BY <4>1, <1>4
      <4> QED BY <4>1, <4>2, <4>3
    <3> QED BY <3>1, <3>2
  <2> HIDE DEF h
  <2>2. h = [k \in 0..m |-> h[k]]
    BY DEF h
  <2> QED BY <2>1, <2>2, Zenon
<1> QED BY <1>2, <1>6

\* So it is the sum of its bytes, each times its weight.
LEMMA ValueStep ==
  ASSUME NEW header
  PROVE  \E v : /\ Value(header) = v[HeaderLen]
                /\ v[0] = 0
                /\ \A k \in 1..HeaderLen : v[k] = v[k - 1] + header[k] * Weight[k - 1]
<1> DEFINE P(f) == f = [k \in 0..HeaderLen |->
                          IF k = 0 THEN 0 ELSE f[k - 1] + header[k] * Weight[k - 1]]
<1>0. HeaderLen \in Nat \ {0}
  BY FramingAssumption
<1>1. \E f : P(f)
  BY <1>0, ValueExists
<1> DEFINE f == CHOOSE g : P(g)
<1>2. P(f)
  <2> HIDE DEF P
  <2> QED BY <1>1
<1>3. Value(header) = f[HeaderLen]
  BY DEF Value
<1>4. 0 \in 0..HeaderLen /\ \A k \in 1..HeaderLen : k \in 0..HeaderLen /\ k # 0
  BY <1>0
<1> HIDE DEF f
<1>5. f[0] = 0 /\ \A k \in 1..HeaderLen : f[k] = f[k - 1] + header[k] * Weight[k - 1]
  BY <1>2, <1>4
<1> QED BY <1>3, <1>5

\* The numbers that the constants are.
LEMMA Numbers == HeaderLen \in Nat \ {0} /\ Radix \in Nat /\ Radix > HeaderLen /\ Radix >= 2
BY FramingAssumption

\* Induction up to HeaderLen.
LEMMA UpToHeaderLen ==
  ASSUME NEW T \in SUBSET (0..HeaderLen), NEW n \in 0..HeaderLen, n \in T,
         \A k \in n + 1..HeaderLen : k - 1 \in T => k \in T
  PROVE  n..HeaderLen \subseteq T
<1> DEFINE U == {k \in n..HeaderLen : k \notin T}
<1>1. SUFFICES ASSUME U # {} PROVE FALSE
  OBVIOUS
<1>2. PICK k \in U : \A m \in U : k <= m
  <2>1. U \in SUBSET Nat
    BY Numbers
  <2> QED BY <1>1, <2>1, LeastNatural
<1>3. k \in n + 1..HeaderLen
  BY Numbers
<1>4. k - 1 \in T
  <2>1. k - 1 \notin U
    <3> HIDE DEF U
    <3> QED BY <1>2, <1>3, Numbers
  <2> QED BY <2>1, <1>3, Numbers
<1> QED BY <1>3, <1>4

\* The weights are positive, those from the second on at least the radix.
LEMMA WeightType ==
  /\ \A k \in 0..HeaderLen : Weight[k] \in Nat \ {0}
  /\ \A k \in 1..HeaderLen : Weight[k] >= Radix
<1> DEFINE T == {k \in 0..HeaderLen : Weight[k] \in Nat \ {0}}
<1>1. \A k \in 0..HeaderLen : Weight[k] \in Nat \ {0}
  <2>1. 0 \in T
    BY WeightStep, Numbers
  <2>2. ASSUME NEW k \in 0 + 1..HeaderLen, k - 1 \in T PROVE k \in T
    <3>1. k \in 1..HeaderLen /\ k \in 0..HeaderLen
      BY Numbers
    <3>2. Weight[k] = Radix * Weight[k - 1] /\ Weight[k - 1] \in Nat \ {0}
      BY <2>2, <3>1, WeightStep
    <3>3. PICK w \in Nat \ {0} : w = Weight[k - 1]
      BY <3>2
    <3>4. Radix * w \in Nat \ {0}
      BY Numbers
    <3> QED BY <3>1, <3>2, <3>3, <3>4
  <2> HIDE DEF T
  <2>3. T \in SUBSET (0..HeaderLen) /\ 0 \in 0..HeaderLen
    BY Numbers DEF T
  <2>4. 0..HeaderLen \subseteq T
    BY <2>1, <2>2, <2>3, UpToHeaderLen
  <2> QED BY <2>4 DEF T
<1>2. ASSUME NEW k \in 1..HeaderLen PROVE Weight[k] >= Radix
  <2>1. PICK w \in Nat \ {0} : w = Weight[k - 1]
    BY <1>1, Numbers
  <2>2. Weight[k] = Radix * w
    BY <2>1, WeightStep
  <2>3. Radix * w >= Radix
    <3>1. w - 1 \in Nat
      OBVIOUS
    <3>2. Radix * (w - 1) \in Nat
      BY <3>1, Numbers
    <3>3. Radix * (w - 1) = Radix * w - Radix
      BY Numbers
    <3>4. Radix * w \in Nat
      BY Numbers
    <3> QED BY <3>2, <3>3, <3>4, Numbers
  <2> QED BY <2>2, <2>3
<1> QED BY <1>1, <1>2

\* There are at least twice as many numbers as a header has bytes.
LEMMA ModulusType == Modulus \in Nat /\ 2 * HeaderLen <= Modulus /\ HeaderLen < Modulus
<1>1. Modulus \in Nat /\ Modulus >= Radix
  BY WeightType, Numbers DEF Modulus
<1>2. CASE HeaderLen = 1
  BY <1>1, <1>2, Numbers
<1>3. CASE HeaderLen # 1
  <2>1. HeaderLen - 1 \in 1..HeaderLen
    BY <1>3, Numbers
  <2>2. PICK w \in Nat : w = Weight[HeaderLen - 1] /\ w >= Radix
    BY <2>1, WeightType, Numbers
  <2>3. Modulus = Radix * w
    BY <2>2, WeightStep, Numbers DEF Modulus
  <2>4. Radix * w >= 2 * Radix
    <3>1. Radix * (w - 2) \in Nat
      BY <2>2, Numbers
    <3>2. Radix * (w - 2) = Radix * w - 2 * Radix
      BY Numbers
    <3>3. Radix * w \in Nat
      BY Numbers
    <3> QED BY <3>1, <3>2, <3>3, Numbers
  <2> QED BY <1>1, <2>3, <2>4, Numbers
<1> QED BY <1>2, <1>3

\* A header is written in bytes.
LEMMA HeaderType ==
  ASSUME NEW n \in Nat
  PROVE  Header(n) \in [1..HeaderLen -> 0..Radix - 1]
<1>1. ASSUME NEW k \in 1..HeaderLen PROVE (n \div Weight[k - 1]) % Radix \in 0..Radix - 1
  <2>1. PICK w \in Nat \ {0} : w = Weight[k - 1]
    BY WeightType, Numbers
  <2>2. n \div w \in Nat
    BY DivMod
  <2>3. PICK q \in Nat : q = n \div w
    BY <2>2
  <2>4. q % Radix \in Nat /\ q % Radix < Radix
    BY DivMod, Numbers
  <2> QED BY <2>1, <2>3, <2>4, Numbers
<1> QED BY <1>1 DEF Header

\* The header that AppendWithSeparator writes is read back as the length, without what does not
\* fit into its bytes (net/Buffer.cpp:25, 60-61).  By induction on the bytes read.
THEOREM ValueOfHeader ==
  ASSUME NEW n \in Nat
  PROVE  Value(Header(n)) = n % Modulus
<1>1. PICK v : /\ Value(Header(n)) = v[HeaderLen]
               /\ v[0] = 0
               /\ \A k \in 1..HeaderLen : v[k] = v[k - 1] + Header(n)[k] * Weight[k - 1]
  BY ValueStep
<1> DEFINE T == {k \in 0..HeaderLen : v[k] = n % Weight[k]}
<1>2. 0 \in T
  <2>1. n % 1 = 0
    <3>1. n % 1 < 1 /\ n % 1 \in Nat
      BY DivMod
    <3> QED BY <3>1
  <2> QED BY <1>1, <2>1, WeightStep, Numbers
<1>3. ASSUME NEW k \in 0 + 1..HeaderLen, k - 1 \in T PROVE k \in T
  <2>1. k \in 1..HeaderLen /\ k \in 0..HeaderLen
    BY Numbers
  <2>2. PICK w \in Nat \ {0} : w = Weight[k - 1]
    BY <2>1, WeightType, Numbers
  <2>3. Weight[k] = Radix * w
    BY <2>1, <2>2, WeightStep
  <2>4. Header(n)[k] = (n \div w) % Radix
    BY <2>1, <2>2 DEF Header
  <2>5. v[k] = (n % w) + ((n \div w) % Radix) * w
    BY <1>1, <1>3, <2>1, <2>2, <2>4
  <2>6. PICK z \in Nat : z = Weight[k]
    BY <2>1, WeightType
  <2>7. n % z = (n % w) + ((n \div w) % Radix) * w
    <3>0. PICK r \in Nat \ {0} : r = Radix /\ z = r * w
      BY <2>3, <2>6, Numbers
    <3>1. PICK q \in Nat, a \in Nat : q = n \div w /\ a = n % w /\ a < w /\ n = w * q + a
      BY DivMod
    <3>2. PICK p \in Nat, b \in Nat : p = q \div r /\ b = q % r /\ b < r /\ q = r * p + b
      BY DivMod
    <3>3. r * w \in Nat \ {0}
      OBVIOUS
    <3>4. n = (r * w) * p + (b * w + a)
      <4>1. n = w * (r * p + b) + a
        BY <3>1, <3>2
      <4>2. w * (r * p + b) = (r * w) * p + b * w
        BY ONLY TRUE
      <4> QED BY <4>1, <4>2
    <3>5. b * w + a \in Nat /\ b * w + a < r * w
      <4>1. b + 1 <= r /\ r - (b + 1) \in Nat
        BY <3>2
      <4>2. (r - (b + 1)) * w \in Nat
        BY <4>1
      <4>3. (r - (b + 1)) * w = r * w - (b * w + w)
        BY ONLY TRUE
      <4>4. b * w \in Nat /\ r * w \in Nat
        OBVIOUS
      <4> QED BY <4>2, <4>3, <4>4, <3>1
    <3>6. n % z = b * w + a
      <4>1. PICK y \in Nat : y = b * w + a
        BY <3>5
      <4>2. n = z * p + y /\ y < z /\ z \in Nat \ {0}
        BY <3>0, <3>3, <3>4, <3>5, <4>1
      <4>3. n % z = y
        BY <4>2, UniqueDiv
      <4> QED BY <4>1, <4>3
    <3> QED BY <3>0, <3>1, <3>2, <3>6
  <2> QED BY <2>1, <2>5, <2>6, <2>7
<1> HIDE DEF T
<1>4. T \in SUBSET (0..HeaderLen) /\ 0 \in 0..HeaderLen /\ HeaderLen \in 0..HeaderLen
  BY Numbers DEF T
<1>5. 0..HeaderLen \subseteq T
  BY <1>2, <1>3, <1>4, UpToHeaderLen
<1>6. v[HeaderLen] = n % Weight[HeaderLen]
  BY <1>4, <1>5 DEF T
<1> QED BY <1>1, <1>6 DEF Modulus

\* The headers there can be.
Headers == [1..HeaderLen -> 0..Radix - 1]

\* What a header counts; and if a byte behind the first is NUL, adding the length of the header
\* does not reach the next power (net/Buffer.cpp:60-63).
LEMMA ValueBound ==
  ASSUME NEW h \in Headers
  PROVE  /\ Value(h) \in Nat /\ Value(h) < Modulus
         /\ \A k \in 2..HeaderLen : h[k] = 0 => Value(h) + HeaderLen < Modulus
<1>1. PICK v : /\ Value(h) = v[HeaderLen]
               /\ v[0] = 0
               /\ \A k \in 1..HeaderLen : v[k] = v[k - 1] + h[k] * Weight[k - 1]
  BY ValueStep
<1> DEFINE T == {k \in 0..HeaderLen : v[k] \in Nat /\ v[k] < Weight[k]}
<1>2. 0 \in T
  BY <1>1, WeightStep, Numbers
  \* One more byte adds at most Radix - 1 times its weight.
<1>3. ASSUME NEW k \in 1..HeaderLen, NEW m \in Nat, v[k - 1] \in Nat, v[k - 1] + m < Weight[k - 1]
      PROVE  v[k] \in Nat /\ v[k] + m < Weight[k]
  <2>1. PICK w \in Nat \ {0}, x \in Nat : w = Weight[k - 1] /\ x = v[k - 1]
    BY <1>3, WeightType, Numbers
  <2>2. PICK b \in Nat : b = h[k] /\ b <= Radix - 1
    BY Numbers DEF Headers
  <2>3. Weight[k] = Radix * w
    BY <2>1, WeightStep
  <2>4. v[k] = x + b * w
    BY <1>1, <2>1, <2>2
  <2>5. Radix - 1 - b \in Nat /\ Radix \in Nat
    BY <2>2, Numbers
  <2>6. (Radix - 1 - b) * w \in Nat
    BY <2>5
  <2>7. (Radix - 1 - b) * w = Radix * w - w - b * w
    BY <2>5
  <2>8. b * w \in Nat /\ Radix * w \in Nat
    BY <2>5
  <2>9. x + m < w
    BY <1>3, <2>1
  <2> QED BY <2>3, <2>4, <2>6, <2>7, <2>8, <2>9
<1>4. ASSUME NEW k \in 0 + 1..HeaderLen, k - 1 \in T PROVE k \in T
  <2>1. k \in 1..HeaderLen /\ k \in 0..HeaderLen
    BY Numbers
  <2>2. v[k - 1] \in Nat /\ v[k - 1] + 0 < Weight[k - 1]
    BY <1>4
  <2>3. v[k] \in Nat /\ v[k] + 0 < Weight[k]
    BY <1>3, <2>1, <2>2
  <2> QED BY <2>1, <2>3
<1>5. 0..HeaderLen \subseteq T
  <2>1. T \in SUBSET (0..HeaderLen) /\ 0 \in 0..HeaderLen
    BY Numbers
  <2> HIDE DEF T
  <2> QED BY <1>2, <1>4, <2>1, UpToHeaderLen
<1>6. Value(h) \in Nat /\ Value(h) < Modulus
  <2>1. HeaderLen \in 0..HeaderLen
    BY Numbers
  <2> QED BY <1>1, <1>5, <2>1 DEF Modulus
<1>7. ASSUME NEW n \in 2..HeaderLen, h[n] = 0
      PROVE  Value(h) + HeaderLen < Modulus
  <2> DEFINE U == {k \in n..HeaderLen : v[k] \in Nat /\ v[k] + HeaderLen < Weight[k]}
  <2>0. n \in 1..HeaderLen /\ n \in 0..HeaderLen /\ n - 1 \in 1..HeaderLen /\ n - 1 \in 0..HeaderLen
        /\ n \in n..HeaderLen
    BY Numbers
  <2>1. n \in U
    <3>1. PICK w \in Nat \ {0} : w = Weight[n - 1] /\ w >= Radix
      BY <2>0, WeightType
    <3>2. Weight[n] = Radix * w
      BY <2>0, <3>1, WeightStep
    <3>3. v[n] = v[n - 1]
      <4>1. v[n] = v[n - 1] + h[n] * Weight[n - 1]
        BY <1>1, <2>0
      <4>2. n - 1 \in T
        BY <1>5, <2>0
      <4>3. 0 * w = 0
        OBVIOUS
      <4> QED BY <1>7, <3>1, <4>1, <4>2, <4>3
    <3>4. v[n - 1] \in Nat /\ v[n - 1] < w
      BY <1>5, <2>0, <3>1
    <3>5. Radix * w >= 2 * w
      <4>1. Radix - 2 \in Nat /\ Radix \in Nat
        BY Numbers
      <4>2. (Radix - 2) * w \in Nat
        BY <4>1
      <4>3. (Radix - 2) * w = Radix * w - 2 * w
        BY <4>1
      <4>4. Radix * w \in Nat
        BY <4>1
      <4> QED BY <4>2, <4>3, <4>4
    <3>6. Radix * w \in Nat
      BY Numbers
    <3> QED BY <2>0, <3>1, <3>2, <3>3, <3>4, <3>5, <3>6, Numbers
  <2>2. ASSUME NEW k \in n + 1..HeaderLen, k - 1 \in U PROVE k \in U
    <3>1. k \in 1..HeaderLen /\ k \in n..HeaderLen /\ HeaderLen \in Nat
      BY Numbers
    <3>2. v[k - 1] \in Nat /\ v[k - 1] + HeaderLen < Weight[k - 1]
      BY <2>2
    <3>3. v[k] \in Nat /\ v[k] + HeaderLen < Weight[k]
      BY <1>3, <3>1, <3>2
    <3> QED BY <3>1, <3>3
  <2>3. U \in SUBSET (0..HeaderLen)
    BY <2>0, Numbers
  <2>4. HeaderLen \in n..HeaderLen
    BY <2>0, Numbers
  <2>5. n..HeaderLen \subseteq U
    <3> HIDE DEF U
    <3> QED BY <2>0, <2>1, <2>2, <2>3, UpToHeaderLen
  <2>6. v[HeaderLen] + HeaderLen < Weight[HeaderLen]
    BY <2>4, <2>5
  <2> QED BY <1>1, <2>6 DEF Modulus
<1> QED BY <1>6, <1>7

\* The end that is compared with the size of the buffer: of a length that is not negative it is
\* the true one, or negative, and of a length read over a NUL it is never a small one.
LEMMA EndsOfLength ==
  ASSUME NEW v \in Nat, v < Modulus, NEW end \in Ends(Signed(v))
  PROVE  /\ Signed(v) \in Int /\ end \in Int
         /\ Signed(v) >= 0 /\ end >= 0 => end = Signed(v) + HeaderLen
         /\ Signed(v) >= 0 => Signed(v) = v
         /\ v + HeaderLen < Modulus /\ end >= 0 => end >= HeaderLen
<1>0. Modulus \in Nat /\ 2 * HeaderLen <= Modulus /\ HeaderLen < Modulus /\ HeaderLen \in Nat \ {0}
  BY ModulusType, Numbers
<1> DEFINE len == Signed(v)
           e == len + HeaderLen
<1>1. /\ len \in Int
      /\ 2 * v < Modulus => len = v
      /\ ~(2 * v < Modulus) => len = v - Modulus
  BY <1>0 DEF Signed
<1> HIDE DEF len
<1>2. end = e \/ end = Signed(e % Modulus)
  BY DEF Ends, len
<1>3. \A m \in Nat : m < Modulus => m % Modulus = m
  <2>1. PICK w \in Nat : w = Modulus
    BY <1>0
  <2>2. ASSUME NEW m \in Nat, m < w PROVE m % w = m
    <3>1. w \in Nat \ {0}
      BY ONLY <2>2, w \in Nat, m \in Nat
    <3> QED BY ONLY <2>2, <3>1, m \in Nat, SmallMod
  <2> QED BY ONLY <2>1, <2>2
<1>4. CASE 2 * v < Modulus
  <2>1. len = v /\ e = v + HeaderLen /\ e \in Nat
    BY <1>0, <1>1, <1>4
  <2>2. e < Modulus
    BY <1>0, <1>4, <2>1
  <2>3. e % Modulus = e
    BY <1>3, <2>1, <2>2
  <2>4. Signed(e) = e \/ Signed(e) = e - Modulus
    BY DEF Signed
  <2> HIDE DEF e
  <2>5. end = e \/ end = e - Modulus
    BY <1>2, <2>3, <2>4
  <2> QED BY <1>0, <2>1, <2>2, <2>5 DEF len
<1>5. CASE ~(2 * v < Modulus)
  <2>1. len = v - Modulus /\ len \in Int /\ len < 0
    BY <1>0, <1>1, <1>5
  <2>2. end \in Int
    <3>1. e \in Int
      BY <1>0, <2>1
    <3>2. e % Modulus \in Int
      BY <1>0, <3>1
    <3> HIDE DEF e
    <3> QED BY <1>0, <1>2, <3>1, <3>2 DEF Signed
  <2>3. ASSUME v + HeaderLen < Modulus PROVE end < 0
    <3>1. e < 0 /\ e \in Int /\ e + Modulus \in Nat /\ e + Modulus < Modulus
          /\ 2 * (e + Modulus) >= Modulus
      BY <1>0, <1>5, <2>1, <2>3
    <3> HIDE DEF e
    <3>2. e % Modulus = e + Modulus
      <4>1. PICK M \in Nat \ {0}, x \in Int, y \in Nat : M = Modulus /\ x = e /\ y = e + Modulus /\ y < M
        BY <1>0, <3>1
      <4>2. x = M * (-1) + y
        BY <4>1
      <4>3. x % M = y
        BY <4>1, <4>2
      <4> QED BY <4>1, <4>3
    <3>3. Signed(e + Modulus) = e
      BY <1>0, <3>1 DEF Signed
    <3> QED BY <1>2, <3>1, <3>2, <3>3
  <2> QED BY <2>1, <2>2, <2>3, <1>0 DEF len
<1> QED BY <1>4, <1>5

-----------------------------------------------------------------------------
(* The bytes of messages.                                                  *)

\* The elements of a stream.
Byte == 0..Radix - 1

\* A buffer that begins with a, m and more holds a in front, and m if it is long enough.
LEMMA TakeFrame ==
  ASSUME NEW S, NEW a \in Seq(S), NEW m \in Seq(S), NEW f \in Seq(S),
         NEW b \in Seq(S), NEW s \in Seq(S), b \o s = a \o m \o f, Len(b) >= Len(a)
  PROVE  /\ \A i \in 1..Len(a) : b[i] = a[i]
         /\ Len(b) >= Len(a) + Len(m) =>
              SubSeq(b, Len(a) + 1, Len(a) + Len(m)) = m
<1>1. Len(a) \in Nat /\ Len(m) \in Nat /\ Len(f) \in Nat /\ Len(b) \in Nat /\ Len(s) \in Nat
  BY LenProperties
<1>2. PICK z \in Seq(S) : z = a \o m \o f
  BY ConcatProperties
<1>3. /\ Len(z) = Len(a) + Len(m) + Len(f)
      /\ \A i \in 1..Len(a) : z[i] = a[i]
      /\ \A i \in 1..Len(m) : z[Len(a) + i] = m[i]
  <2>1. PICK y \in Seq(S) : y = m \o f
    BY ConcatProperties
  <2>2. Len(y) = Len(m) + Len(f) /\ \A i \in 1..Len(m) : y[i] = m[i]
    BY <2>1, <1>1, ConcatProperties
  <2>3. z = a \o y
    BY <1>2, <2>1
  <2>4. Len(z) = Len(a) + Len(y)
        /\ \A i \in 1..Len(a) + Len(y) : z[i] = IF i <= Len(a) THEN a[i] ELSE y[i - Len(a)]
    BY <2>3, ConcatProperties
  <2>5. ASSUME NEW i \in 1..Len(m) PROVE z[Len(a) + i] = m[i]
    <3>1. Len(a) + i \in 1..Len(a) + Len(y) /\ ~(Len(a) + i <= Len(a))
          /\ Len(a) + i - Len(a) = i
      BY <1>1, <2>2
    <3>2. z[Len(a) + i] = y[Len(a) + i - Len(a)]
      BY <2>4, <3>1
    <3> QED BY <2>2, <3>1, <3>2
  <2>6. \A i \in 1..Len(a) : z[i] = a[i]
    BY <1>1, <2>2, <2>4
  <2> QED BY <1>1, <2>2, <2>4, <2>5, <2>6
<1>4. /\ Len(z) = Len(b) + Len(s)
      /\ \A i \in 1..Len(b) : z[i] = b[i]
  <2>1. z = b \o s
    BY <1>2
  <2>2. /\ Len(b \o s) = Len(b) + Len(s)
        /\ \A i \in 1..Len(b) + Len(s) :
             (b \o s)[i] = IF i <= Len(b) THEN b[i] ELSE s[i - Len(b)]
    BY ONLY ConcatProperties
  <2>3. \A i \in 1..Len(b) : i \in 1..Len(b) + Len(s) /\ i <= Len(b)
    BY <1>1
  <2> QED BY <2>1, <2>2, <2>3
<1>5. \A i \in 1..Len(a) : b[i] = a[i]
  BY <1>1, <1>3, <1>4
<1>6. ASSUME Len(b) >= Len(a) + Len(m)
      PROVE  SubSeq(b, Len(a) + 1, Len(a) + Len(m)) = m
  <2> DEFINE t == SubSeq(b, Len(a) + 1, Len(a) + Len(m))
  <2>1. \A i \in Len(a) + 1..Len(a) + Len(m) : b[i] \in S
    BY <1>1, <1>6, ElementOfSeq
  <2>2. /\ t \in Seq(S) /\ Len(t) = Len(m)
        /\ \A i \in 1..Len(m) : t[i] = b[Len(a) + i]
    <3>1. Len(a) + 1 \in Int /\ Len(a) + Len(m) \in Int
      BY <1>1
    <3>2. /\ t \in Seq(S)
          /\ Len(t) = IF Len(a) + 1 <= Len(a) + Len(m)
                      THEN Len(a) + Len(m) - (Len(a) + 1) + 1 ELSE 0
          /\ \A i \in 1..Len(a) + Len(m) - (Len(a) + 1) + 1 : t[i] = b[Len(a) + 1 + i - 1]
      BY <2>1, <3>1, SubSeqProperties
    <3> QED BY <1>1, <3>2
  <2> HIDE DEF t
  <2>3. ASSUME NEW i \in 1..Len(m) PROVE t[i] = m[i]
    <3>1. Len(a) + i \in 1..Len(b)
      BY <1>1, <1>6
    <3>2. z[Len(a) + i] = b[Len(a) + i]
      BY <1>4, <3>1
    <3> QED BY <1>3, <2>2, <3>2
  <2>4. t = m
    BY <2>2, <2>3, SeqEqual
  <2> QED BY <2>4 DEF t
<1> QED BY <1>5, <1>6

\* Framed and Bytes, with the separator as a parameter.
FramedWith(s, message) == IF s = 1 THEN Header(Len(message)) \o message ELSE message

Frames(s, messages) == [i \in 1..Len(messages) |-> FramedWith(s, messages[i])]

\* Framed and Bytes are these with m_Sep.
LEMMA BytesIs ==
  /\ \A messages : Bytes(messages) = FlattenSeq(Frames(sep, messages))
  /\ \A message : Framed(message) = FramedWith(sep, message)
BY DEF Bytes, Frames, Framed, FramedWith

\* A header is a sequence of HeaderLen bytes.
LEMMA HeaderSeq ==
  ASSUME NEW n \in Nat
  PROVE  Header(n) \in Seq(Byte) /\ Len(Header(n)) = HeaderLen
BY HeaderType, Numbers, SeqDef DEF Byte

\* A message with or without its header, ...
LEMMA FramedType ==
  ASSUME NEW s, NEW m \in Seq(Byte)
  PROVE  FramedWith(s, m) \in Seq(Byte)
<1>1. Len(m) \in Nat
  BY LenProperties
<1>2. Header(Len(m)) \o m \in Seq(Byte)
  BY <1>1, HeaderSeq, ConcatProperties
<1> QED BY <1>2 DEF FramedWith

\* ... many messages, ...
LEMMA FramesType ==
  ASSUME NEW s, NEW p \in Seq(Seq(Byte))
  PROVE  Frames(s, p) \in Seq(Seq(Byte)) /\ Len(Frames(s, p)) = Len(p)
<1>1. Len(p) \in Nat
  BY LenProperties
<1>2. \A i \in 1..Len(p) : FramedWith(s, p[i]) \in Seq(Byte)
  BY FramedType, ElementOfSeq
<1>3. Frames(s, p) \in [1..Len(p) -> Seq(Byte)]
  BY <1>2 DEF Frames
<1> QED BY <1>1, <1>3, SeqDef

\* ... one more message, ...
LEMMA FramesAppend ==
  ASSUME NEW s, NEW p \in Seq(Seq(Byte)), NEW m \in Seq(Byte)
  PROVE  FlattenSeq(Frames(s, Append(p, m))) = FlattenSeq(Frames(s, p)) \o FramedWith(s, m)
<1>1. PICK W : W = Seq(Byte)
  OBVIOUS
<1>2. p \in Seq(W) /\ m \in W
  BY <1>1
<1>3. PICK a \in Seq(W) : a = Append(p, m)
  BY <1>2, AppendProperties
<1>4. /\ Len(a) = Len(p) + 1 /\ Len(p) \in Nat
      /\ \A i \in 1..Len(p) : a[i] = p[i]
      /\ a[Len(p) + 1] = m
  BY <1>2, <1>3, AppendProperties, LenProperties
<1>5. PICK f \in Seq(W) : f = Frames(s, p)
  BY <1>1, FramesType
<1>6. Len(f) = Len(p) /\ \A i \in 1..Len(p) : f[i] = FramedWith(s, p[i])
  BY <1>5, FramesType DEF Frames
<1>7. PICK e \in W : e = FramedWith(s, m)
  BY <1>1, FramedType
<1>8. PICK g \in Seq(W) : g = Frames(s, a)
  BY <1>1, <1>3, FramesType
<1>9. Len(g) = Len(a) /\ \A i \in 1..Len(a) : g[i] = FramedWith(s, a[i])
  <2>1. a \in Seq(Seq(Byte))
    BY <1>1
  <2>2. Len(Frames(s, a)) = Len(a)
    BY <2>1, FramesType
  <2> QED BY <1>8, <2>2 DEF Frames
<1>10. g = Append(f, e)
  <2>1. /\ Append(f, e) \in Seq(W) /\ Len(Append(f, e)) = Len(f) + 1
        /\ \A i \in 1..Len(f) : Append(f, e)[i] = f[i]
        /\ Append(f, e)[Len(f) + 1] = e
    BY AppendProperties
  <2>2. \A i \in 1..Len(g) : g[i] = Append(f, e)[i]
    BY <1>4, <1>6, <1>7, <1>9, <2>1
  <2> QED BY <1>4, <1>6, <1>9, <2>1, <2>2, SeqEqual
<1>11. FlattenSeq(Append(f, e)) = FlattenSeq(f) \o e
  BY <1>1, FlattenSeqAppend
<1> QED BY <1>3, <1>5, <1>7, <1>8, <1>10, <1>11

\* ... none, ...
LEMMA FramesEmpty == ASSUME NEW s PROVE FlattenSeq(Frames(s, <<>>)) = <<>>
<1>1. Frames(s, <<>>) = <<>>
  BY DEF Frames
<1> QED BY <1>1, FlattenSeqEmpty

\* ... and the messages of two sequences one after the other.
LEMMA FramesConcat ==
  ASSUME NEW s, NEW p \in Seq(Seq(Byte)), NEW r \in Seq(Seq(Byte))
  PROVE  FlattenSeq(Frames(s, p \o r)) = FlattenSeq(Frames(s, p)) \o FlattenSeq(Frames(s, r))
<1>1. PICK W : W = Seq(Byte)
  OBVIOUS
<1>2. p \in Seq(W) /\ r \in Seq(W)
  BY <1>1
<1> DEFINE B(q) == FlattenSeq(Frames(s, q))
           T == {q \in Seq(W) : B(p \o q) = B(p) \o B(q)}
<1>a. \A q \in Seq(W) : B(q) \in Seq(Byte)
  <2>1. \A q \in Seq(W) : Frames(s, q) \in Seq(Seq(Byte))
    BY <1>1, FramesType
  <2> QED BY <2>1, FlattenSeqType
<1>b. \A q \in Seq(W), m \in W : B(Append(q, m)) = B(q) \o FramedWith(s, m)
  BY <1>1, FramesAppend
<1>c. \A m \in W : FramedWith(s, m) \in Seq(Byte)
  BY <1>1, FramedType
<1>d. B(<<>>) = <<>>
  BY FramesEmpty
<1> HIDE DEF B
<1>3. <<>> \in T
  <2>1. p \o <<>> = p /\ B(p) \o <<>> = B(p) /\ <<>> \in Seq(W)
    BY <1>2, <1>a, ConcatEmptySeq, EmptySeq
  <2> QED BY <2>1, <1>d
<1>4. ASSUME NEW q \in Seq(W), NEW m \in W, q \in T PROVE Append(q, m) \in T
  <2>1. p \o Append(q, m) = Append(p \o q, m) /\ p \o q \in Seq(W) /\ Append(q, m) \in Seq(W)
    BY <1>2
  <2>2. B(Append(p \o q, m)) = B(p \o q) \o FramedWith(s, m)
    BY <1>b, <2>1
  <2>3. B(p \o q) = B(p) \o B(q)
    BY <1>4
  <2>4. (B(p) \o B(q)) \o FramedWith(s, m) = B(p) \o (B(q) \o FramedWith(s, m))
    BY <1>2, <1>a, <1>c, ConcatAssociative
  <2>5. B(Append(q, m)) = B(q) \o FramedWith(s, m)
    BY <1>b
  <2> QED BY <2>1, <2>2, <2>3, <2>4, <2>5
<1> HIDE DEF T
<1>5. r \in T
  BY <1>2, <1>3, <1>4, AllSequences
<1> QED BY <1>5 DEF T, B

\* The bytes of messages.
LEMMA BytesType ==
  ASSUME NEW s, NEW p \in Seq(Seq(Byte))
  PROVE  FlattenSeq(Frames(s, p)) \in Seq(Byte)
BY FramesType, FlattenSeqType

\* Without headers the bytes of messages are the messages.
LEMMA FramesNone ==
  ASSUME NEW s, s # 1, NEW p \in Seq(Seq(Byte))
  PROVE  Frames(s, p) = p
<1>1. PICK W : W = Seq(Byte)
  OBVIOUS
<1>2. p \in Seq(W) /\ Frames(s, p) \in Seq(W) /\ Len(Frames(s, p)) = Len(p)
  BY <1>1, FramesType
<1>3. \A i \in 1..Len(p) : Frames(s, p)[i] = p[i]
  BY DEF Frames, FramedWith
<1> QED BY <1>2, <1>3, SeqEqual

\* Brackets: a message is cut from the left of the buffer, ...
LEMMA CutLeft ==
  ASSUME NEW S, NEW a \in Seq(S), NEW f \in Seq(S), NEW c \in Seq(S), NEW t \in Seq(S)
  PROVE  (a \o f) \o c \o t = a \o (f \o c) \o t
OBVIOUS

\* ... added on the right of the stream, ...
LEMMA AddRight ==
  ASSUME NEW S, NEW a \in Seq(S), NEW b \in Seq(S), NEW t \in Seq(S), NEW f \in Seq(S)
  PROVE  a \o b \o (t \o f) = (a \o b \o t) \o f
<1>1. PICK c \in Seq(S) : c = a \o b
  BY ConcatProperties
<1>2. c \o (t \o f) = (c \o t) \o f
  BY ConcatAssociative
<1> QED BY <1>1, <1>2

-----------------------------------------------------------------------------
(* What PickMessage reads.                                                 *)

\* A header of which only a part is in the buffer makes an end behind the buffer, whatever the
\* stale bytes are: the NUL keeps the length away from the negative numbers whose end is
\* small (net/Buffer.cpp:60-63).
LEMMA PartWaits ==
  ASSUME TypeOK, buf # <<>>, Len(buf) < HeaderLen,
         NEW h \in HeadersRead, NEW end \in Ends(Signed(Value(h)))
  PROVE  Incomplete(end)
<1>1. h \in Headers /\ Len(buf) \in Nat /\ Len(buf) # 0
  <2>1. buf \in Seq(Byte)
    BY DEF TypeOK, Byte
  <2> QED BY <2>1, EmptySeq, LenProperties DEF HeadersRead, Headers
<1>2. Len(buf) + 1 \in 2..HeaderLen /\ Len(buf) + 1 \in 1..HeaderLen
  BY <1>1, Numbers
<1>3. h[Len(buf) + 1] = 0
  BY <1>2 DEF HeadersRead
<1>4. PICK v \in Nat : v = Value(h) /\ v < Modulus /\ v + HeaderLen < Modulus
  BY <1>1, <1>2, <1>3, ValueBound
<1>5. end \in Int /\ (end >= 0 => end >= HeaderLen)
  BY <1>4, EndsOfLength
<1> QED BY <1>1, <1>5, Numbers DEF Incomplete

\* With headers, what is in the buffer begins with the header of the next message to be picked.
LEMMA MessageIsNext ==
  ASSUME TypeOK, PickedAsSent, BytesAsSent, sep = 1, Fitting, buf # <<>>
  PROVE  \E m \in Seq(Byte), f \in Seq(Byte) :
           /\ Len(picked) + 1 \in 1..Len(sent) /\ m = sent[Len(picked) + 1]
           /\ IsPrefix(Append(picked, m), sent)
           /\ buf \o stream = Header(Len(m)) \o m \o f
<1>01. PICK W : W = Seq(Byte)
  OBVIOUS
<1>02. picked \in Seq(W) /\ sent \in Seq(W) /\ buf \in W /\ stream \in W
  <2>1. Messages \subseteq Seq(Byte)
    BY FramingAssumption DEF Byte
  <2>2. sent \in Seq(Seq(Byte))
    BY <2>1, SeqMonotonic DEF TypeOK
  <2> QED BY <1>01, <2>2 DEF TypeOK, Byte
<1>03. FlattenSeq(Frames(1, picked)) \o buf \o stream = FlattenSeq(Frames(1, sent))
  BY BytesIs DEF BytesAsSent
<1>04. PICK p \in Seq(W), s \in Seq(W), b \in W, t \in W :
         p = picked /\ s = sent /\ b = buf /\ t = stream
  BY <1>02
<1>05. /\ W = Seq(Byte)
       /\ IsPrefix(p, s) /\ b # <<>>
       /\ FlattenSeq(Frames(1, p)) \o b \o t = FlattenSeq(Frames(1, s))
  BY <1>01, <1>03, <1>04 DEF PickedAsSent
<1>1. PICK r \in Seq(W) : s = p \o r
  <2>1. IsPrefix(p, s)
    BY <1>05
  <2> QED BY ONLY <2>1, PrefixIsConcat
<1>a. p \in Seq(Seq(Byte)) /\ r \in Seq(Seq(Byte)) /\ b \in Seq(Byte) /\ t \in Seq(Byte)
  BY <1>01
<1>b. PICK P \in Seq(Byte), R \in Seq(Byte) : P = FlattenSeq(Frames(1, p)) /\ R = FlattenSeq(Frames(1, r))
  BY <1>a, BytesType
<1>2. P \o b \o t = P \o R
  BY <1>05, <1>1, <1>a, <1>b, FramesConcat
<1>3. b \o t = R
  <2>1. PICK c \in Seq(Byte) : c = b \o t
    BY <1>a, ConcatProperties
  <2>2. P \o b \o t = P \o c
    BY <1>a, <2>1, ConcatAssociative
  <2>3. P \o c = P \o R
    BY <1>2, <2>2
  <2> QED BY <2>1, <2>3, ConcatSimplifications
<1>4. r # <<>>
  <2>1. SUFFICES ASSUME r = <<>> PROVE FALSE
    OBVIOUS
  <2>2. R = <<>>
    BY <1>b, <2>1, FramesEmpty
  <2>3. b = <<>>
    BY <1>3, <1>a, <2>2, ConcatSimplifications
  <2> QED BY <2>3, <1>05
<1>5. PICK m \in W, q \in Seq(W) : r = <<m>> \o q
  <2>1. Head(r) \in W /\ Tail(r) \in Seq(W) /\ r = <<Head(r)>> \o Tail(r)
    BY <1>4
  <2> QED BY <2>1
<1>6. PICK d \in Seq(Byte) : d = FlattenSeq(Frames(1, q))
  <2>1. q \in Seq(Seq(Byte))
    BY <1>01
  <2> QED BY <2>1, BytesType
<1>7. R = FramedWith(1, m) \o d
  <2>1. <<m>> \in Seq(Seq(Byte)) /\ q \in Seq(Seq(Byte)) /\ m \in Seq(Byte)
    <3>1. <<m>> \in Seq(W)
      OBVIOUS
    <3> QED BY <1>01, <3>1
  <2>2. R = FlattenSeq(Frames(1, <<m>>)) \o d
    BY <1>b, <1>5, <1>6, <2>1, FramesConcat
  <2>3. FlattenSeq(Frames(1, <<m>>)) = FramedWith(1, m)
    <3>1. PICK e \in Seq(Seq(Byte)) : e = <<>>
      BY EmptySeq
    <3>2. Append(e, m) = <<m>>
      BY <3>1
    <3>3. FlattenSeq(Frames(1, Append(e, m))) = FlattenSeq(Frames(1, e)) \o FramedWith(1, m)
      BY <2>1, FramesAppend
    <3>4. FlattenSeq(Frames(1, e)) = <<>> /\ FramedWith(1, m) \in Seq(Byte)
      BY <2>1, <3>1, FramesEmpty, FramedType
    <3>5. <<>> \o FramedWith(1, m) = FramedWith(1, m)
      BY <3>4, ConcatEmptySeq
    <3> QED BY <3>2, <3>3, <3>4, <3>5
  <2> QED BY <2>2, <2>3
<1>8. b \o t = Header(Len(m)) \o m \o d
  <2>1. Header(Len(m)) \in Seq(Byte) /\ m \in Seq(Byte)
    <3>1. m \in Seq(Byte)
      BY <1>01
    <3>2. Len(m) \in Nat
      BY <3>1, LenProperties
    <3> QED BY <3>1, <3>2, HeaderSeq
  <2>2. FramedWith(1, m) = Header(Len(m)) \o m
    BY DEF FramedWith
  <2>3. (Header(Len(m)) \o m) \o d = Header(Len(m)) \o (m \o d)
    <3>1. PICK x \in Seq(Byte), y \in Seq(Byte) : x = Header(Len(m)) /\ y = m
      BY <2>1
    <3>2. (x \o y) \o d = x \o (y \o d)
      BY ONLY TRUE
    <3> QED BY <3>1, <3>2
  <2> QED BY <1>3, <1>7, <2>2, <2>3
<1>9. /\ Len(p) + 1 \in 1..Len(s) /\ m = s[Len(p) + 1]
      /\ IsPrefix(Append(p, m), s)
  <2>0. p \in Seq(W) /\ s \in Seq(W) /\ s = p \o r /\ r = <<m>> \o q /\ q \in Seq(W)
    BY <1>1, <1>5
  <2>1. s = Append(p, m) \o q
    BY ONLY <2>0
  <2>2. Append(p, m) \in Seq(W)
    BY ONLY <2>0, AppendProperties
  <2>3. IsPrefix(Append(p, m), s)
    BY ONLY <2>0, <2>1, <2>2, PrefixIsConcat
  <2>4. Len(p) + 1 \in 1..Len(s) /\ m = s[Len(p) + 1]
    BY ONLY <2>0
  <2> QED BY <2>3, <2>4
<1>10. m \in Seq(Byte)
  BY <1>01
<1> QED BY <1>04, <1>8, <1>9, <1>10

\* A whole header in the buffer has the length of that message, and a buffer that is long enough
\* holds the message (net/Buffer.cpp:58-68).
LEMMA WholeHeader ==
  ASSUME TypeOK, PickedAsSent, BytesAsSent, sep = 1, Fitting, buf # <<>>,
         HeaderLen <= Len(buf), NEW h \in HeadersRead
  PROVE  \E m \in Seq(Byte) :
           /\ Signed(Value(h)) = Len(m)
           /\ Ends(Signed(Value(h))) = {Len(m) + HeaderLen}
           /\ IsPrefix(Append(picked, m), sent)
           /\ HeaderLen + Len(m) <= Len(buf) =>
                /\ SubSeq(buf, HeaderLen + 1, HeaderLen + Len(m)) = m
                /\ FramedWith(1, m) \o SubSeq(buf, HeaderLen + Len(m) + 1, Len(buf)) = buf
<1>5. PICK m \in Seq(Byte), f \in Seq(Byte) :
        /\ Len(picked) + 1 \in 1..Len(sent) /\ m = sent[Len(picked) + 1]
        /\ IsPrefix(Append(picked, m), sent)
        /\ buf \o stream = Header(Len(m)) \o m \o f
  BY MessageIsNext
<1>6. Len(m) \in Nat /\ m \in Seq(Byte) /\ f \in Seq(Byte) /\ buf \in Seq(Byte)
      /\ stream \in Seq(Byte) /\ Len(buf) \in Nat
  <2>1. m \in Seq(Byte) /\ f \in Seq(Byte) /\ buf \in Seq(Byte) /\ stream \in Seq(Byte)
    BY DEF TypeOK, Byte
  <2> QED BY <2>1, LenProperties
<1>7. PICK a \in Seq(Byte) : a = Header(Len(m)) /\ Len(a) = HeaderLen
  BY <1>6, HeaderSeq
<1>8. /\ \A i \in 1..Len(a) : buf[i] = a[i]
      /\ Len(buf) >= Len(a) + Len(m) => SubSeq(buf, Len(a) + 1, Len(a) + Len(m)) = m
  <2>1. buf \o stream = a \o m \o f /\ Len(buf) >= Len(a)
    BY <1>5, <1>6, <1>7, Numbers
  <2>2. PICK x \in Seq(Byte), y \in Seq(Byte), b \in Seq(Byte), s \in Seq(Byte) :
          x = m /\ y = f /\ b = buf /\ s = stream
    BY <1>6
  <2>3. b \o s = a \o x \o y /\ Len(b) >= Len(a)
    BY <2>1, <2>2
  <2>4. /\ \A i \in 1..Len(a) : b[i] = a[i]
        /\ Len(b) >= Len(a) + Len(x) => SubSeq(b, Len(a) + 1, Len(a) + Len(x)) = x
    BY ONLY <2>3, TakeFrame
  <2> QED BY <2>2, <2>4
<1>9. h = Header(Len(m))
  <2>1. h \in [1..HeaderLen -> 0..Radix - 1] /\ Header(Len(m)) \in [1..HeaderLen -> 0..Radix - 1]
    BY <1>6, HeaderType DEF HeadersRead
  <2>2. \A i \in 1..HeaderLen : h[i] = buf[i]
    BY <1>6, Numbers DEF HeadersRead
  <2>3. \A i \in 1..HeaderLen : h[i] = Header(Len(m))[i]
    BY <1>7, <1>8, <2>2
  <2>4. PICK g \in [1..HeaderLen -> 0..Radix - 1] : g = Header(Len(m))
    BY <2>1
  <2>5. \A i \in 1..HeaderLen : h[i] = g[i]
    BY <2>3, <2>4
  <2>6. h = g
    <3>1. PICK x \in [1..HeaderLen -> 0..Radix - 1] : x = h
      BY <2>1
    <3>2. \A i \in 1..HeaderLen : x[i] = g[i]
      BY <2>5, <3>1
    <3>3. x = [i \in 1..HeaderLen |-> x[i]] /\ g = [i \in 1..HeaderLen |-> g[i]]
      BY ONLY TRUE
    <3>4. [i \in 1..HeaderLen |-> x[i]] = [i \in 1..HeaderLen |-> g[i]]
      BY ONLY <3>2, Zenon
    <3>5. x = g
      BY ONLY <3>3, <3>4
    <3> QED BY <3>1, <3>5
  <2> QED BY <2>4, <2>6
<1>10. 2 * (Len(m) + HeaderLen) < Modulus /\ Modulus \in Nat /\ HeaderLen \in Nat \ {0}
  BY <1>5, ModulusType, Numbers DEF Fitting
<1>11. \A n \in Nat : n < Modulus => n % Modulus = n
  <2>1. PICK w \in Nat : w = Modulus
    BY <1>10
  <2>2. ASSUME NEW n \in Nat, n < w PROVE n % w = n
    <3>1. w \in Nat \ {0}
      BY ONLY <2>2, w \in Nat, n \in Nat
    <3> QED BY ONLY <2>2, <3>1, n \in Nat, SmallMod
  <2> QED BY ONLY <2>1, <2>2
<1>12. Signed(Value(h)) = Len(m)
  <2>1. Value(h) = Len(m) % Modulus
    BY <1>6, <1>9, ValueOfHeader
  <2>2. Len(m) < Modulus /\ 2 * Len(m) < Modulus
    BY <1>6, <1>10
  <2>3. Value(h) = Len(m)
    BY <1>6, <1>11, <2>1, <2>2
  <2> QED BY <2>2, <2>3 DEF Signed
<1>13. Ends(Signed(Value(h))) = {Len(m) + HeaderLen}
  <2>1. PICK e \in Nat : e = Len(m) + HeaderLen
    BY <1>6, <1>10
  <2>2. e < Modulus /\ 2 * e < Modulus
    BY <1>10, <2>1
  <2>3. e % Modulus = e
    BY <1>11, <2>2
  <2>4. Signed(e) = e
    BY <2>2 DEF Signed
  <2> QED BY <1>12, <2>1, <2>3, <2>4 DEF Ends
<1>14. ASSUME HeaderLen + Len(m) <= Len(buf)
       PROVE  /\ SubSeq(buf, HeaderLen + 1, HeaderLen + Len(m)) = m
              /\ FramedWith(1, m) \o SubSeq(buf, HeaderLen + Len(m) + 1, Len(buf)) = buf
  <2>1. SubSeq(buf, HeaderLen + 1, HeaderLen + Len(m)) = m
    BY <1>6, <1>7, <1>8, <1>14
  <2>2. SubSeq(buf, 1, HeaderLen) = a
    <3> DEFINE c == SubSeq(buf, 1, HeaderLen)
    <3>1. c \in Seq(Byte) /\ Len(c) = HeaderLen /\ \A i \in 1..HeaderLen : c[i] = buf[i]
      <4>1. \A i \in 1..HeaderLen : buf[i] \in Byte
        BY <1>6, <1>10, ElementOfSeq
      <4>2. /\ c \in Seq(Byte)
            /\ Len(c) = IF 1 <= HeaderLen THEN HeaderLen - 1 + 1 ELSE 0
            /\ \A i \in 1..HeaderLen - 1 + 1 : c[i] = buf[1 + i - 1]
        BY <1>10, <4>1, SubSeqProperties
      <4> QED BY <1>10, <4>2
    <3> HIDE DEF c
    <3>2. \A i \in 1..Len(c) : c[i] = a[i]
      BY <1>7, <1>8, <3>1
    <3>3. c = a
      BY <1>7, <3>1, <3>2, SeqEqual
    <3> QED BY <3>3 DEF c
  <2>3. SubSeq(buf, 1, HeaderLen) \o SubSeq(buf, HeaderLen + 1, HeaderLen + Len(m))
          = SubSeq(buf, 1, HeaderLen + Len(m))
    <3>1. 1 \in 1..Len(buf) + 1 /\ HeaderLen \in 1 - 1..Len(buf)
          /\ HeaderLen + Len(m) \in HeaderLen..Len(buf)
      BY <1>6, <1>10, <1>14
    <3> QED BY <1>6, <3>1, ConcatAdjacentSubSeq
  <2>4. SubSeq(buf, 1, HeaderLen + Len(m)) \o SubSeq(buf, HeaderLen + Len(m) + 1, Len(buf)) = buf
    <3>1. HeaderLen + Len(m) \in 0..Len(buf)
      BY <1>6, <1>10, <1>14
    <3> QED BY <1>6, <3>1, CutInTwo
  <2> QED BY <1>7, <2>1, <2>2, <2>3, <2>4 DEF FramedWith
<1> QED BY <1>5, <1>6, <1>12, <1>13, <1>14

\* A message is picked only when all of it is in the buffer, and then it is the next one.
LEMMA NotPartNorTooLong ==
  ASSUME TypeOK, PickedAsSent, BytesAsSent, sep = 1, Fitting, buf # <<>>, NEW h \in HeadersRead,
         NEW end \in Ends(Signed(Value(h))), ~Incomplete(end)
  PROVE  \E m \in Seq(Byte) :
           /\ Signed(Value(h)) = Len(m) /\ Len(m) \in Nat
           /\ IsPrefix(Append(picked, m), sent)
           /\ HeaderLen + Len(m) <= Len(buf)
           /\ SubSeq(buf, HeaderLen + 1, HeaderLen + Len(m)) = m
           /\ FramedWith(1, m) \o SubSeq(buf, HeaderLen + Len(m) + 1, Len(buf)) = buf
<1>0. Len(buf) \in Nat /\ HeaderLen \in Nat
  <2>1. buf \in Seq(Byte)
    BY DEF TypeOK, Byte
  <2> QED BY <2>1, LenProperties, Numbers
<1>1. HeaderLen <= Len(buf)
  BY <1>0, PartWaits
<1>2. PICK m \in Seq(Byte) :
        /\ Signed(Value(h)) = Len(m)
        /\ Ends(Signed(Value(h))) = {Len(m) + HeaderLen}
        /\ IsPrefix(Append(picked, m), sent)
        /\ HeaderLen + Len(m) <= Len(buf) =>
             /\ SubSeq(buf, HeaderLen + 1, HeaderLen + Len(m)) = m
             /\ FramedWith(1, m) \o SubSeq(buf, HeaderLen + Len(m) + 1, Len(buf)) = buf
  BY <1>1, WholeHeader
<1>3. Len(m) \in Nat
  BY LenProperties
<1>4. HeaderLen + Len(m) <= Len(buf)
  BY <1>0, <1>2, <1>3 DEF Incomplete
<1> QED BY <1>2, <1>3, <1>4

-----------------------------------------------------------------------------
(* The steps.                                                              *)

\* The parts of the invariant, with the separator as a parameter.
LEMMA Stated ==
  /\ PickedAsSent <=> (sep = 1 /\ Fitting => IsPrefix(picked, sent))
  /\ BytesAsSent <=> ((sep = 1 => Fitting) =>
        FlattenSeq(Frames(sep, picked)) \o buf \o stream = FlattenSeq(Frames(sep, sent)))
  /\ BytesAsSent' <=> ((sep' = 1 => Fitting') =>
        FlattenSeq(Frames(sep', picked')) \o buf' \o stream' = FlattenSeq(Frames(sep', sent')))
BY DEF PickedAsSent, BytesAsSent, Bytes, Framed, Frames, FramedWith

\* The invariant holds before the first message.
LEMMA InitInv == Init => FramingInv
<1> SUFFICES ASSUME Init PROVE FramingInv
  OBVIOUS
<1>1. TypeOK
  <2>1. <<>> \in Seq(0..Radix - 1) /\ <<>> \in Seq(Messages) /\ <<>> \in Seq(Seq(0..Radix - 1))
        /\ Len(<<>>) = 0
    BY EmptySeq
  <2> QED BY <2>1, FramingAssumption DEF Init, TypeOK
<1>2. PickedAsSent
  <2>1. PICK e \in Seq(Byte) : e = <<>>
    BY EmptySeq
  <2>2. e = e \o e
    BY <2>1
  <2>3. IsPrefix(e, e)
    BY <2>2, PrefixIsConcat
  <2> QED BY <2>1, <2>3 DEF Init, PickedAsSent
<1>3. BytesAsSent
  <2>1. FlattenSeq(Frames(sep, picked)) = <<>> /\ FlattenSeq(Frames(sep, sent)) = <<>>
    BY FramesEmpty DEF Init
  <2>2. buf = <<>> /\ stream = <<>>
    BY DEF Init
  <2>3. <<>> \o <<>> \o <<>> = <<>>
    OBVIOUS
  <2> QED BY <2>1, <2>2, <2>3, BytesIs DEF BytesAsSent
<1>4. FittingNeverThrows
  BY DEF Init, FittingNeverThrows
<1> QED BY <1>1, <1>2, <1>3, <1>4 DEF FramingInv

\* Every step keeps the types.
LEMMA TypeStep ==
  ASSUME TypeOK, [Next]_vars
  PROVE  TypeOK'
<1>0. /\ Messages \subseteq Seq(Byte) /\ MaxSent \in Nat /\ ReadMax \in Nat
      /\ stream \in Seq(Byte) /\ buf \in Seq(Byte) /\ picked \in Seq(Seq(Byte))
  BY FramingAssumption DEF TypeOK, Byte
<1>1. ASSUME NEW m \in Messages, Send(m) PROVE TypeOK'
  <2>1. Framed(m) \in Seq(Byte)
    BY <1>0, BytesIs, FramedType
  <2>2. stream \o Framed(m) \in Seq(Byte)
    BY <1>0, <2>1, ConcatProperties
  <2>3. Append(sent, m) \in Seq(Messages) /\ Len(Append(sent, m)) = Len(sent) + 1 /\ Len(sent) \in Nat
    BY AppendProperties, LenProperties DEF TypeOK
  <2> QED BY <1>0, <1>1, <2>2, <2>3 DEF TypeOK, Send, Byte
<1>2. ASSUME Read PROVE TypeOK'
  <2>1. PICK n \in 1..ReadMax : AppendRead(n)
    BY <1>2 DEF Read
  <2>2. n \in 0..Len(stream)
    BY <1>0, <2>1, LenProperties DEF AppendRead
  <2>3. SubSeq(stream, 1, n) \in Seq(Byte) /\ SubSeq(stream, n + 1, Len(stream)) \in Seq(Byte)
    BY <1>0, <2>2, CutInTwo
  <2>4. buf \o SubSeq(stream, 1, n) \in Seq(Byte)
    BY <1>0, <2>3, ConcatProperties
  <2> QED BY <2>1, <2>3, <2>4 DEF TypeOK, AppendRead, Byte
<1>3. CASE PickNothing \/ PickIncomplete \/ PickThrows \/ PickSameAgain
  BY <1>3 DEF TypeOK, PickNothing, PickIncomplete, PickThrows, PickSameAgain, vars
<1>4. CASE PickAll
  <2>1. FlattenSeq(picked) \in Seq(Byte)
    BY <1>0, FlattenSeqType
  <2>2. FlattenSeq(picked) \o buf \in Seq(Byte)
    BY <1>0, <2>1, ConcatProperties
  <2>3. <<FlattenSeq(picked) \o buf>> \in Seq(Seq(Byte))
    BY <2>2
  <2>4. <<>> \in Seq(Byte)
    BY EmptySeq
  <2> QED BY <1>4, <2>3, <2>4 DEF TypeOK, PickAll, Byte
<1>5. CASE PickFramed
  <2>1. PICK h \in HeadersRead :
          /\ Signed(Value(h)) >= 0 /\ \E end \in Ends(Signed(Value(h))) : ~Incomplete(end)
          /\ picked' = Append(picked, SubSeq(buf, HeaderLen + 1, HeaderLen + Signed(Value(h))))
          /\ buf' = SubSeq(buf, HeaderLen + Signed(Value(h)) + 1, Len(buf))
    BY <1>5 DEF PickFramed
  <2>2. h \in Headers
    BY DEF HeadersRead, Headers
  <2>3. PICK v \in Nat : v = Value(h) /\ v < Modulus
    BY <2>2, ValueBound
  <2>4. PICK end \in Ends(Signed(v)) : ~Incomplete(end)
    BY <2>1, <2>3
  <2>5. Signed(v) = v /\ end = v + HeaderLen
    <3>1. Signed(v) >= 0
      BY <2>1, <2>3
    <3>2. end \in Int
      BY <2>3, EndsOfLength
    <3>3. end >= 0
      BY <2>4, <3>2 DEF Incomplete
    <3>4. /\ Signed(v) >= 0 /\ end >= 0 => end = Signed(v) + HeaderLen
          /\ Signed(v) >= 0 => Signed(v) = v
      BY <2>3, EndsOfLength
    <3> QED BY <3>1, <3>3, <3>4
  <2>6. v + HeaderLen <= Len(buf) /\ Len(buf) \in Nat
    <3>1. Len(buf) \in Nat
      BY <1>0, LenProperties
    <3> QED BY <2>4, <2>5, <3>1, Numbers DEF Incomplete
  <2>7. SubSeq(buf, HeaderLen + 1, HeaderLen + v) \in Seq(Byte)
    <3>1. \A i \in HeaderLen + 1..HeaderLen + v : buf[i] \in Byte
      BY <1>0, <2>6, Numbers, ElementOfSeq
    <3> QED BY <3>1, Numbers, SubSeqProperties
  <2>8. SubSeq(buf, HeaderLen + v + 1, Len(buf)) \in Seq(Byte)
    <3>1. HeaderLen + v \in 0..Len(buf)
      BY <2>6, Numbers
    <3> QED BY <1>0, <3>1, CutInTwo
  <2>9. picked' \in Seq(Seq(Byte)) /\ buf' \in Seq(Byte)
    BY <1>0, <2>1, <2>3, <2>5, <2>7, <2>8, AppendProperties
  <2>10. sep' = sep /\ stream' = stream /\ pc' = pc /\ sent' = sent
    BY <1>5 DEF PickFramed
  <2> QED BY <2>9, <2>10 DEF TypeOK, Byte
<1>6. CASE UNCHANGED vars
  BY <1>6 DEF TypeOK, vars
<1> QED BY <1>1, <1>2, <1>3, <1>4, <1>5, <1>6, Zenon
       DEF Next, Pick, AppendWithSeparator, AppendRaw

\* The types of what the invariant relates.
LEMMA TypesOf ==
  ASSUME TypeOK
  PROVE  /\ picked \in Seq(Seq(Byte)) /\ sent \in Seq(Seq(Byte))
         /\ buf \in Seq(Byte) /\ stream \in Seq(Byte)
         /\ FlattenSeq(Frames(sep, picked)) \in Seq(Byte)
         /\ FlattenSeq(Frames(sep, sent)) \in Seq(Byte)
<1>1. Messages \subseteq Seq(Byte)
  BY FramingAssumption DEF Byte
<1>2. sent \in Seq(Seq(Byte))
  BY <1>1, SeqMonotonic DEF TypeOK
<1>3. picked \in Seq(Seq(Byte)) /\ buf \in Seq(Byte) /\ stream \in Seq(Byte)
  BY DEF TypeOK, Byte
<1> QED BY <1>2, <1>3, BytesType

\* If all messages fit with one more, they did without it.
LEMMA FittingShrinks ==
  ASSUME TypeOK, NEW m \in Messages, Send(m), Fitting'
  PROVE  Fitting
<1>1. /\ sent' = Append(sent, m) /\ sent \in Seq(Messages)
  BY DEF Send, TypeOK
<1>2. Len(sent') = Len(sent) + 1 /\ Len(sent) \in Nat /\ \A i \in 1..Len(sent) : sent'[i] = sent[i]
  BY <1>1, AppendProperties, LenProperties
<1>3. \A i \in 1..Len(sent') : 2 * (Len(sent'[i]) + HeaderLen) < Modulus
  BY DEF Fitting
<1>4. ASSUME NEW i \in 1..Len(sent) PROVE 2 * (Len(sent[i]) + HeaderLen) < Modulus
  <2>1. i \in 1..Len(sent') /\ sent'[i] = sent[i]
    BY <1>2
  <2> QED BY <1>3, <2>1
<1> QED BY <1>4 DEF Fitting

\* A message that is appended, by AppendWithSeparator or by Append, keeps the invariant
\* (net/Buffer.cpp:16-32).
LEMMA SendStep ==
  ASSUME FramingInv, NEW m \in Messages, Send(m)
  PROVE  PickedAsSent' /\ BytesAsSent' /\ FittingNeverThrows'
<1>0. /\ TypeOK /\ sep' = sep /\ buf' = buf /\ pc' = pc /\ picked' = picked
      /\ sent' = Append(sent, m) /\ stream' = stream \o Framed(m)
  BY DEF FramingInv, Send
<1>1. /\ picked \in Seq(Seq(Byte)) /\ sent \in Seq(Seq(Byte)) /\ m \in Seq(Byte)
      /\ buf \in Seq(Byte) /\ stream \in Seq(Byte)
      /\ FlattenSeq(Frames(sep, picked)) \in Seq(Byte)
      /\ FramedWith(sep, m) \in Seq(Byte)
  BY <1>0, TypesOf, FramingAssumption, FramedType DEF Byte
<1>2. Fitting' => Fitting
  BY <1>0, FittingShrinks
<1>3. PickedAsSent'
  <2>1. SUFFICES ASSUME sep = 1, Fitting PROVE IsPrefix(picked, Append(sent, m))
    BY <1>0, <1>2 DEF PickedAsSent
  <2>2. PICK W : W = Seq(Byte)
    OBVIOUS
  <2>3. PICK p \in Seq(W), s \in Seq(W), e \in W : p = picked /\ s = sent /\ e = m
    BY <1>1, <2>2
  <2>4. IsPrefix(p, s)
    BY <2>1, <2>3 DEF FramingInv, PickedAsSent
  <2>5. <<e>> \in Seq(W) /\ Append(s, e) = s \o <<e>>
    BY ONLY TRUE
  <2>6. IsPrefix(p, s \o <<e>>)
    BY ONLY <2>4, <2>5, PrefixOfLonger
  <2> QED BY <2>3, <2>5, <2>6
<1>4. BytesAsSent'
  <2>1. SUFFICES ASSUME sep = 1 => Fitting
                 PROVE  FlattenSeq(Frames(sep, picked)) \o buf \o (stream \o FramedWith(sep, m))
                          = FlattenSeq(Frames(sep, Append(sent, m)))
    BY <1>0, <1>2, Stated, BytesIs
  <2>2. FlattenSeq(Frames(sep, picked)) \o buf \o stream = FlattenSeq(Frames(sep, sent))
    BY <2>1, Stated DEF FramingInv
  <2>3. FlattenSeq(Frames(sep, Append(sent, m))) = FlattenSeq(Frames(sep, sent)) \o FramedWith(sep, m)
    BY <1>1, FramesAppend
  <2>4. PICK a \in Seq(Byte), b \in Seq(Byte), t \in Seq(Byte), f \in Seq(Byte) :
          a = FlattenSeq(Frames(sep, picked)) /\ b = buf /\ t = stream /\ f = FramedWith(sep, m)
    BY <1>1
  <2>5. a \o b \o (t \o f) = (a \o b \o t) \o f
    BY ONLY AddRight
  <2> QED BY <2>2, <2>3, <2>4, <2>5
<1>5. FittingNeverThrows'
  BY <1>0, <1>2 DEF FramingInv, FittingNeverThrows
<1> QED BY <1>3, <1>4, <1>5

\* Append at the reader moves bytes from the stream to the buffer (net/Buffer.cpp:16-18).
LEMMA ReadStep ==
  ASSUME FramingInv, Read
  PROVE  PickedAsSent' /\ BytesAsSent' /\ FittingNeverThrows'
<1>1. PICK n \in 1..ReadMax : AppendRead(n)
  BY DEF Read
<1>2. /\ TypeOK /\ sep' = sep /\ sent' = sent /\ picked' = picked /\ pc' = "pick"
      /\ buf' = buf \o SubSeq(stream, 1, n)
      /\ stream' = SubSeq(stream, n + 1, Len(stream))
      /\ n \in 0..Len(stream)
      /\ picked \in Seq(Seq(Byte)) /\ buf \in Seq(Byte) /\ stream \in Seq(Byte)
      /\ FlattenSeq(Frames(sep, picked)) \in Seq(Byte)
  <2>1. TypeOK
    BY DEF FramingInv
  <2>2. stream \in Seq(Byte) /\ Len(stream) \in Nat
    BY <2>1, TypesOf, LenProperties
  <2> QED BY <1>1, <2>1, <2>2, TypesOf, FramingAssumption DEF AppendRead
<1>3. Fitting' <=> Fitting
  BY <1>2 DEF Fitting
<1>4. PickedAsSent' /\ FittingNeverThrows'
  BY <1>2, <1>3 DEF FramingInv, PickedAsSent, FittingNeverThrows
<1>5. BytesAsSent'
  <2>1. /\ SubSeq(stream, 1, n) \in Seq(Byte)
        /\ SubSeq(stream, n + 1, Len(stream)) \in Seq(Byte)
        /\ SubSeq(stream, 1, n) \o SubSeq(stream, n + 1, Len(stream)) = stream
    BY <1>2, CutInTwo
  <2>2. PICK a \in Seq(Byte), b \in Seq(Byte), c \in Seq(Byte), d \in Seq(Byte) :
          /\ a = FlattenSeq(Frames(sep, picked)) /\ b = buf
          /\ c = SubSeq(stream, 1, n) /\ d = SubSeq(stream, n + 1, Len(stream))
    BY <1>2, <2>1
  <2>3. a \o (b \o c) \o d = a \o b \o (c \o d)
    <3>1. PICK x \in Seq(Byte) : x = a \o b
      BY ConcatProperties
    <3>2. a \o (b \o c) = x \o c
      BY ONLY <3>1
    <3>3. (x \o c) \o d = x \o (c \o d)
      BY ONLY TRUE
    <3> QED BY <3>1, <3>2, <3>3
  <2>4. FlattenSeq(Frames(sep, picked)) \o buf' \o stream' = FlattenSeq(Frames(sep, picked)) \o buf \o stream
    BY <1>2, <2>1, <2>2, <2>3
  <2> QED BY <1>2, <1>3, <2>4, Stated DEF FramingInv
<1> QED BY <1>4, <1>5

\* Without headers all of the buffer is picked (net/Buffer.cpp:53-57).
LEMMA PickAllStep ==
  ASSUME FramingInv, PickAll
  PROVE  PickedAsSent' /\ BytesAsSent' /\ FittingNeverThrows'
<1>1. /\ TypeOK /\ sep = 0 /\ sep' = sep /\ stream' = stream /\ sent' = sent
      /\ picked' = <<FlattenSeq(picked) \o buf>> /\ buf' = <<>>
  BY DEF FramingInv, PickAll
<1>2. /\ picked \in Seq(Seq(Byte)) /\ buf \in Seq(Byte) /\ stream \in Seq(Byte)
  BY <1>1, TypesOf
<1>3. PickedAsSent' /\ FittingNeverThrows'
  BY <1>1 DEF PickedAsSent, FittingNeverThrows
<1>4. BytesAsSent'
  <2>1. FlattenSeq(picked) \o buf \in Seq(Byte)
    BY <1>2, FlattenSeqType, ConcatProperties
  <2>2. Frames(sep, picked) = picked
    BY <1>1, <1>2, FramesNone
  <2>3. PICK x \in Seq(Byte) : x = FlattenSeq(picked) \o buf
    BY <2>1
  <2>4. <<x>> \in Seq(Seq(Byte))
    OBVIOUS
  <2>5. Frames(sep, <<x>>) = <<x>>
    <3>1. PICK p \in Seq(Seq(Byte)) : p = <<x>>
      BY <2>4
    <3>2. sep # 1
      BY <1>1
    <3>3. Frames(sep, p) = p
      BY <3>2, FramesNone
    <3> QED BY <3>1, <3>3
  <2>6. FlattenSeq(<<x>>) = x
    BY FlattenOne
  <2>7. FlattenSeq(Frames(sep', picked')) = x
    BY <1>1, <2>3, <2>5, <2>6
  <2>8. x \o <<>> = x
    BY ConcatEmptySeq
  <2>9. FlattenSeq(Frames(sep', picked')) \o buf' \o stream' = FlattenSeq(Frames(sep, picked)) \o buf \o stream
    BY <1>1, <2>2, <2>3, <2>7, <2>8
  <2>10. FlattenSeq(Frames(sep, picked)) \o buf \o stream = FlattenSeq(Frames(sep, sent))
    BY <1>1, Stated DEF FramingInv
  <2> QED BY <1>1, <2>9, <2>10, Stated
<1> QED BY <1>3, <1>4

\* With headers the next message is (net/Buffer.cpp:58-69).
LEMMA PickFramedStep ==
  ASSUME FramingInv, PickFramed
  PROVE  PickedAsSent' /\ BytesAsSent' /\ FittingNeverThrows'
<1>1. /\ TypeOK /\ PickedAsSent /\ BytesAsSent
      /\ sep = 1 /\ sep' = sep /\ stream' = stream /\ sent' = sent /\ buf # <<>>
      /\ pc = "pick" /\ pc' = pc
  BY DEF FramingInv, PickFramed
<1>2. PICK h \in HeadersRead :
        /\ \E end \in Ends(Signed(Value(h))) : ~Incomplete(end)
        /\ picked' = Append(picked, SubSeq(buf, HeaderLen + 1, HeaderLen + Signed(Value(h))))
        /\ buf' = SubSeq(buf, HeaderLen + Signed(Value(h)) + 1, Len(buf))
  BY DEF PickFramed
<1>3. Fitting' <=> Fitting
  BY <1>1 DEF Fitting
<1>4. FittingNeverThrows'
  BY <1>1 DEF FittingNeverThrows
<1>5. SUFFICES ASSUME Fitting
               PROVE  IsPrefix(picked', sent') /\ BytesAsSent'
  BY <1>1, <1>3, <1>4, Stated DEF PickedAsSent
<1>6. PICK m \in Seq(Byte) :
        /\ Signed(Value(h)) = Len(m) /\ Len(m) \in Nat
        /\ IsPrefix(Append(picked, m), sent)
        /\ HeaderLen + Len(m) <= Len(buf)
        /\ SubSeq(buf, HeaderLen + 1, HeaderLen + Len(m)) = m
        /\ FramedWith(1, m) \o SubSeq(buf, HeaderLen + Len(m) + 1, Len(buf)) = buf
  BY <1>1, <1>2, <1>5, NotPartNorTooLong
<1>7. picked' = Append(picked, m) /\ FramedWith(1, m) \o buf' = buf
  BY <1>2, <1>6
<1>8. IsPrefix(picked', sent')
  BY <1>1, <1>6, <1>7
<1>9. FlattenSeq(Frames(1, picked')) \o buf' \o stream' = FlattenSeq(Frames(1, picked)) \o buf \o stream
  <2>1. /\ picked \in Seq(Seq(Byte)) /\ buf \in Seq(Byte) /\ stream \in Seq(Byte)
        /\ FlattenSeq(Frames(1, picked)) \in Seq(Byte)
        /\ FramedWith(1, m) \in Seq(Byte)
    BY <1>1, TypesOf, FramedType
  <2>2. buf' \in Seq(Byte)
    <3>1. Len(buf) \in Nat
      BY <2>1, LenProperties
    <3>2. HeaderLen + Len(m) \in 0..Len(buf)
      BY <1>6, <3>1, Numbers
    <3> QED BY <1>2, <1>6, <2>1, <3>2, CutInTwo
  <2>3. FlattenSeq(Frames(1, picked')) = FlattenSeq(Frames(1, picked)) \o FramedWith(1, m)
    BY <1>7, <2>1, FramesAppend
  <2>4. PICK a \in Seq(Byte), f \in Seq(Byte), c \in Seq(Byte), t \in Seq(Byte) :
          a = FlattenSeq(Frames(1, picked)) /\ f = FramedWith(1, m) /\ c = buf' /\ t = stream
    BY <2>1, <2>2
  <2>5. (a \o f) \o c \o t = a \o (f \o c) \o t
    BY ONLY CutLeft
  <2> QED BY <1>1, <1>7, <2>3, <2>4, <2>5
<1> QED BY <1>1, <1>5, <1>8, <1>9, Stated

\* Only a length that does not fit is negative and passes the comparison
\* (net/Buffer.cpp:60-65).
LEMMA PickThrowsStep ==
  ASSUME FramingInv, PickThrows
  PROVE  PickedAsSent' /\ BytesAsSent' /\ FittingNeverThrows'
<1>1. /\ TypeOK /\ PickedAsSent /\ BytesAsSent /\ sep = 1 /\ buf # <<>>
      /\ sep' = sep /\ stream' = stream /\ buf' = buf /\ sent' = sent /\ picked' = picked
  BY DEF FramingInv, PickThrows
<1>2. Fitting' <=> Fitting
  BY <1>1 DEF Fitting
<1>3. ~Fitting
  <2>1. SUFFICES ASSUME Fitting PROVE FALSE
    OBVIOUS
  <2>2. PICK h \in HeadersRead :
          Signed(Value(h)) < 0 /\ \E end \in Ends(Signed(Value(h))) : ~Incomplete(end)
    BY DEF PickThrows
  <2>3. PICK m \in Seq(Byte) : Signed(Value(h)) = Len(m) /\ Len(m) \in Nat
    BY <1>1, <2>1, <2>2, NotPartNorTooLong
  <2> QED BY <2>2, <2>3
<1> QED BY <1>1, <1>2, <1>3 DEF PickedAsSent, BytesAsSent, FittingNeverThrows

\* The invariant is inductive.
LEMMA FramingInvStep == FramingInv /\ [Next]_vars => FramingInv'
<1> SUFFICES ASSUME FramingInv, [Next]_vars PROVE FramingInv'
  OBVIOUS
<1>1. TypeOK'
  BY TypeStep DEF FramingInv
<1>2. PickedAsSent' /\ BytesAsSent' /\ FittingNeverThrows'
  <2>1. CASE \E m \in Messages : Send(m)
    BY <2>1, SendStep
  <2>2. CASE Read
    BY <2>2, ReadStep
  <2>3. CASE PickAll
    BY <2>3, PickAllStep
  <2>4. CASE PickFramed
    BY <2>4, PickFramedStep
  <2>5. CASE PickThrows
    BY <2>5, PickThrowsStep
  <2>6. CASE PickNothing \/ PickIncomplete \/ PickSameAgain \/ UNCHANGED vars
    <3>1. sep' = sep /\ buf' = buf /\ stream' = stream /\ sent' = sent /\ picked' = picked
          /\ (pc' = pc \/ pc' = "read")
      BY <2>6 DEF PickNothing, PickIncomplete, PickSameAgain, vars
    <3>2. Fitting' <=> Fitting
      BY <3>1 DEF Fitting
    <3>3. BytesAsSent'
      BY <3>1, <3>2, Stated DEF FramingInv
    <3> QED BY <3>1, <3>2, <3>3 DEF FramingInv, PickedAsSent, FittingNeverThrows
  <2> QED BY <2>1, <2>2, <2>3, <2>4, <2>5, <2>6, Zenon
          DEF Next, Pick, AppendWithSeparator, AppendRaw
<1> QED BY <1>1, <1>2 DEF FramingInv

\* For any messages and any separator, however the network cuts the stream, whatever stale bytes
\* are read behind a part of a header and whether or not its end wraps around: with headers
\* the messages that are picked are those sent, in their order, as long as their lengths
\* fit, no byte is lost, doubled or moved, and a message that fits never makes PickMessage
\* throw (net/Buffer.cpp:20-32, 49-71).
THEOREM FramingInvHolds == SafetySpec => []FramingInv
<1> QED BY InitInv, FramingInvStep, PTL DEF SafetySpec

\* No step takes a message while only a part of its header is there.
LEMMA PartStep ==
  ASSUME TypeOK, [Next]_vars, sep = 1, pc = "pick", Len(buf) < HeaderLen
  PROVE  picked' = picked /\ pc' # "thrown"
<1>1. ASSUME buf # <<>>, NEW h \in HeadersRead, NEW end \in Ends(Signed(Value(h)))
      PROVE  Incomplete(end)
  BY <1>1, PartWaits
<1>2. CASE \E m \in Messages : Send(m)
  BY <1>2 DEF Send
<1>3. CASE Read
  BY <1>3 DEF Read, AppendRead
<1>4. CASE PickNothing \/ PickAll \/ PickIncomplete \/ PickSameAgain \/ UNCHANGED vars
  BY <1>4 DEF PickNothing, PickAll, PickIncomplete, PickSameAgain, vars
<1>5. CASE PickThrows \/ PickFramed
  BY <1>1, <1>5 DEF PickThrows, PickFramed
<1> QED BY <1>2, <1>3, <1>4, <1>5, Zenon DEF Next, Pick, AppendWithSeparator, AppendRaw

\* A part of a header is always waited for (net/Buffer.cpp:60-63).
THEOREM PartOfHeaderWaitsHolds == SafetySpec => PartOfHeaderWaits
<1>1. FramingInv /\ [Next]_vars
        => [sep = 1 /\ pc = "pick" /\ Len(buf) < HeaderLen
              => picked' = picked /\ pc' # "thrown"]_vars
  BY PartStep DEF FramingInv
<1> QED BY <1>1, FramingInvHolds, PTL DEF SafetySpec, PartOfHeaderWaits

-----------------------------------------------------------------------------
(* Positions: where a character begins, and what characters there are.     *)

\* One step of the loop in BytePosition.
After(s, before) == IF before < Len(s) THEN before + Step(s[before + 1]) ELSE before

\* A recursive function is a CHOOSE of the functions that satisfy its equation: there is one
\* for the positions.
LEMMA PositionExists ==
  ASSUME NEW s, NEW n \in Nat
  PROVE  \E f : f = [k \in 0..n |-> IF k = 0 THEN 0 ELSE After(s, f[k - 1])]
<1> DEFINE P(m, f) == f = [k \in 0..m |-> IF k = 0 THEN 0 ELSE After(s, f[k - 1])]
           T == {m \in Nat : ~ \E f : P(m, f)}
<1>1. SUFFICES ASSUME T # {} PROVE FALSE
  OBVIOUS
<1>2. PICK m \in T : \A k \in T : m <= k
  <2>1. T \in SUBSET Nat
    OBVIOUS
  <2> QED BY <1>1, <2>1, LeastNatural
<1>3. m # 0
  <2>1. P(0, [k \in 0..0 |-> 0])
    OBVIOUS
  <2> QED BY <2>1
<1>4. PICK j \in Nat : m = j + 1
  BY <1>3
<1>5. PICK g : P(j, g)
  <2>1. j \notin T
    <3> HIDE DEF T
    <3> QED BY <1>2, <1>4
  <2> QED BY <2>1
<1> DEFINE h == [k \in 0..m |-> IF k = m THEN After(s, g[j]) ELSE g[k]]
<1>6. P(m, h)
  <2>1. ASSUME NEW k \in 0..m
        PROVE  h[k] = IF k = 0 THEN 0 ELSE After(s, h[k - 1])
    <3>1. CASE k = m
      BY <3>1, <1>4
    <3>2. CASE k # m
      <4>1. k \in 0..j /\ h[k] = g[k]
        BY <3>2, <1>4
      <4>2. g[k] = IF k = 0 THEN 0 ELSE After(s, g[k - 1])
        BY <4>1, <1>5
      <4>3. k # 0 => k - 1 \in 0..m /\ k - 1 # m
        BY <4>1, <1>4
      <4> QED BY <4>1, <4>2, <4>3
    <3> QED BY <3>1, <3>2
  <2> HIDE DEF h
  <2>2. h = [k \in 0..m |-> h[k]]
    BY DEF h
  <2> QED BY <2>1, <2>2, Zenon
<1> QED BY <1>2, <1>6

\* So they are found step by step from the front.
LEMMA PositionStep ==
  ASSUME NEW s, NEW n \in Nat
  PROVE  \E at : /\ BytePosition(s, "UTF8", n) = at[n]
                 /\ at[0] = 0
                 /\ \A k \in 1..n : at[k] = After(s, at[k - 1])
<1> DEFINE P(f) == f = [k \in 0..n |-> IF k = 0 THEN 0 ELSE After(s, f[k - 1])]
<1>1. \E f : P(f)
  BY PositionExists
<1> DEFINE f == CHOOSE g : P(g)
<1>2. P(f)
  <2> HIDE DEF P
  <2> QED BY <1>1
<1>3. BytePosition(s, "UTF8", n) = f[n]
  BY DEF BytePosition, After
<1>4. 0 \in 0..n /\ \A k \in 1..n : k \in 0..n /\ k # 0
  OBVIOUS
<1> HIDE DEF f
<1>5. f[0] = 0 /\ \A k \in 1..n : f[k] = After(s, f[k - 1])
  BY <1>2, <1>4
<1> QED BY <1>3, <1>5

\* With one byte to a character there is nothing to find.
LEMMA PositionASCII == \A s, n : BytePosition(s, "ASCII", n) = n
BY DEF BytePosition

-----------------------------------------------------------------------------
(* Strings and the characters they consist of.                             *)

\* The characters of a width.
CharOf(w) == IF w = "ASCII" THEN {<<b>> : b \in Octet} ELSE Character

\* s consists of these characters.
Spells(cs, s, w) == cs \in Seq(CharOf(w)) /\ s = FlattenSeq(cs)

\* A character is bytes, and not empty.
LEMMA CharType ==
  ASSUME NEW w, NEW c \in CharOf(w)
  PROVE  c \in Seq(Octet) /\ Len(c) \in Nat /\ Len(c) >= 1
<1>1. CASE w = "ASCII"
  <2>1. PICK b \in Octet : c = <<b>>
    BY <1>1 DEF CharOf
  <2> QED BY <2>1
<1>2. CASE w # "ASCII"
  <2>1. c \in Seq(Octet) /\ c # <<>>
    BY <1>2 DEF CharOf, Character
  <2> QED BY <2>1, EmptySeq, LenProperties
<1> QED BY <1>1, <1>2

\* So characters are sequences of bytes, as the laws of FlattenSeq want them.
LEMMA SpellsType ==
  ASSUME NEW w, NEW s, NEW cs, Spells(cs, s, w)
  PROVE  /\ cs \in Seq(Seq(Octet)) /\ s \in Seq(Octet) /\ s = FlattenSeq(cs)
         /\ Len(cs) \in Nat /\ Len(s) \in Nat
         /\ \A k \in 1..Len(cs) : cs[k] \in CharOf(w) /\ Len(cs[k]) \in Nat /\ Len(cs[k]) >= 1
<1>1. CharOf(w) \subseteq Seq(Octet)
  BY CharType
<1>2. cs \in Seq(CharOf(w)) /\ s = FlattenSeq(cs)
  BY DEF Spells
<1>3. cs \in Seq(Seq(Octet))
  BY <1>1, <1>2, SeqMonotonic
<1>4. s \in Seq(Octet)
  BY <1>2, <1>3, FlattenSeqType
<1>5. \A k \in 1..Len(cs) : cs[k] \in CharOf(w)
  BY <1>2, ElementOfSeq
<1> QED BY <1>2, <1>3, <1>4, <1>5, CharType, LenProperties

\* Each character lies behind the one before it.
LEMMA OffsetStep ==
  ASSUME NEW w, NEW s, NEW cs, Spells(cs, s, w)
  PROVE  /\ Offset(cs, 0) = 0 /\ Offset(cs, Len(cs)) = Len(s)
         /\ \A k \in 1..Len(cs) :
              /\ Offset(cs, k - 1) \in Nat
              /\ Offset(cs, k - 1) < Offset(cs, k)
              /\ Offset(cs, k) = Offset(cs, k - 1) + Len(cs[k])
              /\ Offset(cs, k - 1) + 1 \in 1..Len(s)
              /\ Offset(cs, k) \in 1..Len(s)
              /\ SubSeq(s, Offset(cs, k - 1) + 1, Offset(cs, k)) = cs[k]
              /\ \A j \in 1..Len(cs[k]) : s[Offset(cs, k - 1) + j] = cs[k][j]
<1>1. /\ cs \in Seq(Seq(Octet)) /\ s \in Seq(Octet) /\ s = FlattenSeq(cs)
      /\ Len(cs) \in Nat /\ Len(s) \in Nat
      /\ \A k \in 1..Len(cs) : Len(cs[k]) \in Nat /\ Len(cs[k]) >= 1
  BY SpellsType
<1>2. Offset(cs, 0) = 0 /\ Offset(cs, Len(cs)) = Len(s)
  BY <1>1, EndsFlat
<1>3. ASSUME NEW k \in 1..Len(cs)
      PROVE  /\ Offset(cs, k - 1) \in Nat
             /\ Offset(cs, k - 1) < Offset(cs, k)
             /\ Offset(cs, k) = Offset(cs, k - 1) + Len(cs[k])
             /\ Offset(cs, k - 1) + 1 \in 1..Len(s)
             /\ Offset(cs, k) \in 1..Len(s)
             /\ SubSeq(s, Offset(cs, k - 1) + 1, Offset(cs, k)) = cs[k]
             /\ \A j \in 1..Len(cs[k]) : s[Offset(cs, k - 1) + j] = cs[k][j]
  <2>1. k - 1 \in 0..Len(cs) /\ k \in 0..Len(cs)
    BY <1>1
  <2>2. Offset(cs, k - 1) \in 0..Len(s) /\ Offset(cs, k) \in 0..Len(s)
    BY <1>1, <2>1, CutFlat
  <2>3. /\ SubSeq(s, Offset(cs, k - 1) + 1, Offset(cs, k)) = cs[k]
        /\ Offset(cs, k) = Offset(cs, k - 1) + Len(cs[k])
        /\ \A j \in 1..Len(cs[k]) : s[Offset(cs, k - 1) + j] = cs[k][j]
    BY <1>1, OneFlat
  <2>4. Len(cs[k]) \in Nat /\ Len(cs[k]) >= 1
    BY <1>1
  <2>5. /\ Offset(cs, k - 1) \in Nat
        /\ Offset(cs, k - 1) < Offset(cs, k)
        /\ Offset(cs, k - 1) + 1 \in 1..Len(s)
        /\ Offset(cs, k) \in 1..Len(s)
    <3>1. PICK m \in Nat, n \in Nat, z \in Nat, l \in Nat :
            /\ m = Offset(cs, k - 1) /\ n = Offset(cs, k) /\ z = Len(s) /\ l = Len(cs[k])
      BY <1>1, <2>2, <2>4
    <3>2. n = m + l /\ l >= 1 /\ n <= z
      BY <2>2, <2>3, <2>4, <3>1
    <3>3. m < n /\ m + 1 \in 1..z /\ n \in 1..z
      BY ONLY m \in Nat, n \in Nat, z \in Nat, l \in Nat, <3>2
    <3> QED BY <3>1, <3>3
  <2> QED BY <2>3, <2>5
<1> QED BY <1>2, <1>3

\* m_CharWidth.
Widths == {"ASCII", "UTF8"}

\* A character of UTF-8 is as long as its first byte says.
LEMMA StepOfChar ==
  ASSUME NEW c \in CharOf("UTF8")
  PROVE  Len(c) = Step(c[1])
<1>1. c \in Character
  BY DEF CharOf
<1> QED BY <1>1 DEF Character

\* A character of one byte has one byte.
LEMMA LenOfChar ==
  ASSUME NEW c \in CharOf("ASCII")
  PROVE  Len(c) = 1
<1>1. PICK b \in Octet : c = <<b>>
  BY DEF CharOf
<1> QED BY <1>1

\* With one byte to a character the number of a character is that of its byte.
LEMMA OffsetASCII ==
  ASSUME NEW s, NEW cs, Spells(cs, s, "ASCII")
  PROVE  /\ \A k \in 0..Len(cs) : Offset(cs, k) = k
         /\ Len(cs) = Len(s)
<1>1. /\ Len(cs) \in Nat
      /\ \A k \in 1..Len(cs) : cs[k] \in CharOf("ASCII")
  BY SpellsType
<1>2. /\ Offset(cs, 0) = 0 /\ Offset(cs, Len(cs)) = Len(s)
      /\ \A k \in 1..Len(cs) : Offset(cs, k) = Offset(cs, k - 1) + Len(cs[k])
  BY OffsetStep
<1> DEFINE T == {k \in 0..Len(cs) : Offset(cs, k) = k}
<1>3. 0 \in T
  BY <1>1, <1>2
<1>4. ASSUME NEW k \in 1..Len(cs), k - 1 \in T PROVE k \in T
  <2>1. Len(cs[k]) = 1
    BY <1>1, LenOfChar
  <2>2. Offset(cs, k - 1) = k - 1
    BY <1>4
  <2>3. Offset(cs, k) = k - 1 + 1
    BY <1>2, <2>1, <2>2
  <2>4. k - 1 + 1 = k /\ k \in 0..Len(cs)
    BY <1>1
  <2> QED BY <2>3, <2>4
<1>5. 0..Len(cs) \subseteq T
  <2>1. T \in SUBSET (0..Len(cs))
    OBVIOUS
  <2> HIDE DEF T
  <2> QED BY <1>1, <1>3, <1>4, <2>1, UpTo
<1>6. Len(cs) \in 0..Len(cs)
  BY <1>1
<1> QED BY <1>2, <1>5, <1>6

\* BytePosition finds where a character begins, and for one there is not the end, or what lies
\* behind it if nothing is looked for (Str.cpp:28-43).
LEMMA PositionIs ==
  ASSUME NEW w \in Widths, NEW s, NEW cs, Spells(cs, s, w), NEW p \in Nat
  PROVE  /\ p <= Len(cs) => BytePosition(s, w, p) = Offset(cs, p)
         /\ p > Len(cs) /\ w = "UTF8" => BytePosition(s, w, p) = Len(s)
         /\ w = "ASCII" => BytePosition(s, w, p) = p
<1>0. Len(cs) \in Nat /\ Len(s) \in Nat
      /\ \A k \in 1..Len(cs) : cs[k] \in CharOf(w) /\ Len(cs[k]) \in Nat /\ Len(cs[k]) >= 1
  BY SpellsType
<1>1. CASE w = "ASCII"
  <2>1. p <= Len(cs) => Offset(cs, p) = p
    BY <1>0, <1>1, OffsetASCII
  <2>2. w # "UTF8"
    BY <1>1
  <2> QED BY <1>1, <2>1, <2>2, PositionASCII
<1>2. CASE w = "UTF8"
  <2> DEFINE Where(k) == IF k <= Len(cs) THEN Offset(cs, k) ELSE Len(s)
  <2>1. PICK at : /\ BytePosition(s, "UTF8", p) = at[p]
                  /\ at[0] = 0
                  /\ \A k \in 1..p : at[k] = After(s, at[k - 1])
    BY PositionStep
  <2> DEFINE T == {k \in 0..p : at[k] = Where(k)}
  <2>2. /\ Offset(cs, 0) = 0 /\ Offset(cs, Len(cs)) = Len(s)
        /\ \A k \in 1..Len(cs) :
             /\ Offset(cs, k - 1) + 1 \in 1..Len(s)
             /\ Offset(cs, k - 1) \in Nat
             /\ Offset(cs, k) = Offset(cs, k - 1) + Len(cs[k])
             /\ \A j \in 1..Len(cs[k]) : s[Offset(cs, k - 1) + j] = cs[k][j]
    BY OffsetStep
  <2>3. 0 \in T
    BY <1>0, <2>1, <2>2
  <2>4. ASSUME NEW k \in 1..p, k - 1 \in T PROVE k \in T
    <3>1. at[k - 1] = Where(k - 1) /\ at[k] = After(s, at[k - 1])
      BY <2>1, <2>4
    <3>2. CASE k <= Len(cs)
      <4>1. k \in 1..Len(cs) /\ k - 1 <= Len(cs)
        BY <1>0, <3>2
      <4>2. PICK m \in Nat : m = Offset(cs, k - 1) /\ m < Len(s)
        BY <1>0, <2>2, <4>1
      <4>3. s[m + 1] = cs[k][1] /\ Offset(cs, k) = m + Len(cs[k])
        <5>1. 1 \in 1..Len(cs[k])
          BY <1>0, <4>1
        <5> QED BY <2>2, <4>1, <4>2, <5>1
      <4>4. Len(cs[k]) = Step(cs[k][1])
        BY <1>0, <1>2, <4>1, StepOfChar
      <4>5. at[k - 1] = m
        BY <3>1, <4>1, <4>2
      <4>6. at[k] = m + Step(s[m + 1])
        BY <3>1, <4>2, <4>5 DEF After
      <4>7. at[k] = Offset(cs, k)
        BY <4>3, <4>4, <4>6
      <4> QED BY <3>2, <4>7
    <3>3. CASE k > Len(cs)
      <4>1. k - 1 >= Len(cs) /\ k - 1 \in Nat /\ ~ (k <= Len(cs))
        BY <1>0, <3>3
      <4>2. at[k - 1] = Len(s)
        <5>1. CASE k - 1 = Len(cs)
          BY <3>1, <5>1, <2>2, <1>0
        <5>2. CASE k - 1 # Len(cs)
          <6>1. ~ (k - 1 <= Len(cs))
            BY <4>1, <5>2, <1>0
          <6> QED BY <3>1, <6>1
        <5> QED BY <5>1, <5>2
      <4>3. at[k] = Len(s)
        BY <1>0, <3>1, <4>2 DEF After
      <4> QED BY <4>1, <4>3
    <3> QED BY <1>0, <3>2, <3>3
  <2>5. 0..p \subseteq T
    <3>1. T \in SUBSET (0..p)
      OBVIOUS
    <3> HIDE DEF T
    <3> QED BY <2>3, <2>4, <3>1, UpTo
  <2>6. at[p] = Where(p)
    <3>1. p \in 0..p
      OBVIOUS
    <3> QED BY <2>5, <3>1
  <2>7. BytePosition(s, w, p) = Where(p)
    BY <1>2, <2>1, <2>6
  <2>8. p > Len(cs) => ~ (p <= Len(cs))
    BY <1>0
  <2>9. w # "ASCII"
    BY <1>2
  <2> QED BY <2>7, <2>8, <2>9
<1> QED BY <1>1, <1>2 DEF Widths

\* There are no more characters than bytes.
LEMMA FewerChars ==
  ASSUME NEW w, NEW s, NEW cs, Spells(cs, s, w)
  PROVE  Len(cs) <= Len(s)
<1>0. Len(cs) \in Nat /\ Len(s) \in Nat
  BY SpellsType
<1>1. /\ Offset(cs, 0) = 0 /\ Offset(cs, Len(cs)) = Len(s)
      /\ \A k \in 1..Len(cs) :
           Offset(cs, k - 1) \in Nat /\ Offset(cs, k - 1) < Offset(cs, k) /\ Offset(cs, k) \in 1..Len(s)
  BY OffsetStep
<1> DEFINE T == {k \in 0..Len(cs) : Offset(cs, k) >= k}
<1>2. 0 \in T
  BY <1>0, <1>1
<1>3. ASSUME NEW k \in 1..Len(cs), k - 1 \in T PROVE k \in T
  <2>1. PICK m \in Nat : m = Offset(cs, k - 1) /\ m >= k - 1
    BY <1>1, <1>3
  <2>2. PICK n \in Nat : n = Offset(cs, k) /\ m < n
    BY <1>0, <1>1, <2>1
  <2>3. n >= k /\ k \in 0..Len(cs)
    BY <1>0, <2>1, <2>2
  <2> QED BY <2>2, <2>3
<1>4. 0..Len(cs) \subseteq T
  <2>1. T \in SUBSET (0..Len(cs))
    OBVIOUS
  <2> HIDE DEF T
  <2> QED BY <1>0, <1>2, <1>3, <2>1, UpTo
<1>5. Len(cs) \in 0..Len(cs)
  BY <1>0
<1> QED BY <1>1, <1>4, <1>5

\* CalculateLength counts the characters (Str.cpp:46-62), ...
LEMMA LengthIs ==
  ASSUME NEW w \in Widths, NEW s, NEW cs, Spells(cs, s, w)
  PROVE  CalculateLength(s, w) = Len(cs)
<1> DEFINE P(n) == /\ BytePosition(s, w, n) >= Len(s)
                   /\ n > 0 => BytePosition(s, w, n - 1) < Len(s)
<1>0. Len(cs) \in Nat /\ Len(s) \in Nat /\ Len(cs) <= Len(s)
  BY SpellsType, FewerChars
<1>1. /\ Offset(cs, 0) = 0 /\ Offset(cs, Len(cs)) = Len(s)
      /\ \A k \in 1..Len(cs) : Offset(cs, k - 1) \in Nat /\ Offset(cs, k - 1) + 1 \in 1..Len(s)
  BY OffsetStep
<1>2. ASSUME NEW n \in 0..Len(cs), n # Len(cs)
      PROVE  BytePosition(s, w, n) \in Nat /\ BytePosition(s, w, n) < Len(s)
  <2>1. n + 1 \in 1..Len(cs) /\ n + 1 - 1 = n /\ n \in Nat /\ n <= Len(cs)
    BY <1>0, <1>2
  <2>2. Offset(cs, n) \in Nat /\ Offset(cs, n) + 1 \in 1..Len(s)
    BY <1>1, <2>1
  <2>3. BytePosition(s, w, n) = Offset(cs, n)
    BY <2>1, PositionIs
  <2>4. Offset(cs, n) < Len(s)
    BY <1>0, <2>2
  <2> QED BY <2>2, <2>3, <2>4
<1>3. ASSUME NEW n \in Nat, n >= Len(cs)
      PROVE  BytePosition(s, w, n) \in Nat /\ BytePosition(s, w, n) >= Len(s)
  <2>1. CASE w = "ASCII"
    <3>1. BytePosition(s, w, n) = n
      BY <2>1, PositionASCII
    <3>2. Len(cs) = Len(s)
      BY <2>1, OffsetASCII
    <3> QED BY <1>0, <1>3, <3>1, <3>2
  <2>2. CASE w = "UTF8"
    <3>1. CASE n = Len(cs)
      <4>1. BytePosition(s, w, n) = Offset(cs, n)
        BY <3>1, <1>0, PositionIs
      <4> QED BY <1>0, <1>1, <3>1, <4>1
    <3>2. CASE n # Len(cs)
      <4>1. n > Len(cs)
        BY <1>0, <1>3, <3>2
      <4>2. BytePosition(s, w, n) = Len(s)
        BY <2>2, <4>1, PositionIs
      <4> QED BY <1>0, <4>2
    <3> QED BY <3>1, <3>2
  <2> QED BY <2>1, <2>2 DEF Widths
<1>4. P(Len(cs))
  <2>1. BytePosition(s, w, Len(cs)) >= Len(s)
    BY <1>0, <1>3
  <2>2. ASSUME Len(cs) > 0 PROVE BytePosition(s, w, Len(cs) - 1) < Len(s)
    <3>1. Len(cs) - 1 \in 0..Len(cs) /\ Len(cs) - 1 # Len(cs)
      BY <1>0, <2>2
    <3> QED BY <1>2, <3>1
  <2> QED BY <2>1, <2>2
<1>5. ASSUME NEW n \in 0..Len(s), P(n) PROVE n = Len(cs)
  <2>1. ~ (n < Len(cs))
    <3>1. SUFFICES ASSUME n < Len(cs) PROVE FALSE
      OBVIOUS
    <3>2. n \in 0..Len(cs) /\ n # Len(cs)
      BY <1>0, <3>1
    <3>3. BytePosition(s, w, n) \in Nat /\ BytePosition(s, w, n) < Len(s)
      BY <1>2, <3>2
    <3> QED BY <1>0, <1>5, <3>3
  <2>2. ~ (n > Len(cs))
    <3>1. SUFFICES ASSUME n > Len(cs) PROVE FALSE
      OBVIOUS
    <3>2. n - 1 \in Nat /\ n - 1 >= Len(cs) /\ n > 0
      BY <1>0, <3>1
    <3>3. BytePosition(s, w, n - 1) \in Nat /\ BytePosition(s, w, n - 1) >= Len(s)
      BY <1>3, <3>2
    <3> QED BY <1>0, <1>5, <3>2, <3>3
  <2> QED BY <1>0, <2>1, <2>2
<1>6. CalculateLength(s, w) = CHOOSE n \in 0..Len(s) : P(n)
  BY DEF CalculateLength
<1>7. Len(cs) \in 0..Len(s)
  BY <1>0
<1> HIDE DEF P
<1> QED BY <1>4, <1>5, <1>6, <1>7

\* ... and these are what CharactersOf returns.
LEMMA CharactersAre ==
  ASSUME NEW w \in Widths, NEW s, NEW cs, Spells(cs, s, w)
  PROVE  CharactersOf(s, w) = cs
<1>0. Len(cs) \in Nat /\ cs \in Seq(Seq(Octet))
  BY SpellsType
<1>1. CalculateLength(s, w) = Len(cs)
  BY LengthIs
<1>2. ASSUME NEW i \in 1..Len(cs)
      PROVE  SubSeq(s, BytePosition(s, w, i - 1) + 1, BytePosition(s, w, i)) = cs[i]
  <2>1. i \in Nat /\ i - 1 \in Nat /\ i <= Len(cs) /\ i - 1 <= Len(cs)
    BY <1>0
  <2>2. BytePosition(s, w, i) = Offset(cs, i)
    BY <2>1, PositionIs
  <2>3. BytePosition(s, w, i - 1) = Offset(cs, i - 1)
    BY <2>1, PositionIs
  <2>4. SubSeq(s, Offset(cs, i - 1) + 1, Offset(cs, i)) = cs[i]
    BY OffsetStep
  <2> QED BY <2>2, <2>3, <2>4
<1>3. CharactersOf(s, w) = [i \in 1..Len(cs) |-> cs[i]]
  BY <1>1, <1>2 DEF CharactersOf
<1>4. cs = [i \in 1..Len(cs) |-> cs[i]]
  BY <1>0, LenProperties
<1> QED BY <1>3, <1>4

\* Whole characters are what can be spelled in UTF-8, ...
LEMMA WholeSpells ==
  ASSUME NEW s
  PROVE  Whole(s) <=> \E cs : Spells(cs, s, "UTF8")
<1>0. CharOf("UTF8") = Character
  BY DEF CharOf
<1>1. ASSUME Whole(s) PROVE \E cs : Spells(cs, s, "UTF8")
  <2>1. Spells(CharactersOf(s, "UTF8"), s, "UTF8")
    BY <1>0, <1>1 DEF Whole, Spells
  <2> QED BY <2>1
<1>2. ASSUME NEW cs, Spells(cs, s, "UTF8") PROVE Whole(s)
  <2>1. CharactersOf(s, "UTF8") = cs
    BY <1>2, CharactersAre DEF Widths
  <2> QED BY <1>0, <1>2, <2>1 DEF Whole, Spells
<1> QED BY <1>1, <1>2

\* ... and all bytes are characters of one byte.
LEMMA BytesSpell ==
  ASSUME NEW s \in Seq(Octet)
  PROVE  \E cs : Spells(cs, s, "ASCII")
<1> DEFINE T == {t \in Seq(Octet) : \E cs : Spells(cs, t, "ASCII")}
<1>1. <<>> \in T
  <2>1. <<>> \in Seq(CharOf("ASCII")) /\ <<>> \in Seq(Octet)
    BY EmptySeq
  <2>2. Spells(<<>>, <<>>, "ASCII")
    BY <2>1, FlattenSeqEmpty DEF Spells
  <2> QED BY <2>1, <2>2
<1>2. ASSUME NEW t \in Seq(Octet), NEW b \in Octet, t \in T
      PROVE  Append(t, b) \in T
  <2>1. PICK cs : Spells(cs, t, "ASCII")
    BY <1>2
  <2>2. cs \in Seq(Seq(Octet)) /\ t = FlattenSeq(cs) /\ cs \in Seq(CharOf("ASCII"))
    BY <2>1, SpellsType DEF Spells
  <2>3. <<b>> \in CharOf("ASCII") /\ <<b>> \in Seq(Octet)
    BY DEF CharOf
  <2>4. Append(cs, <<b>>) \in Seq(CharOf("ASCII"))
    BY <2>2, <2>3, AppendProperties
  <2>5. FlattenSeq(Append(cs, <<b>>)) = t \o <<b>>
    BY <2>2, <2>3, FlattenSeqAppend
  <2>6. Append(t, b) = t \o <<b>> /\ Append(t, b) \in Seq(Octet)
    BY AppendIsConcat, AppendProperties
  <2>7. Spells(Append(cs, <<b>>), Append(t, b), "ASCII")
    BY <2>4, <2>5, <2>6 DEF Spells
  <2> QED BY <2>6, <2>7
<1> HIDE DEF T
<1>3. s \in T
  BY <1>1, <1>2, AllSequences
<1> QED BY <1>3 DEF T

\* So a string that may get in is characters of either width.
LEMMA TextSpells ==
  ASSUME NEW w \in Widths, NEW s \in Seq(Octet), w = "UTF8" => Whole(s)
  PROVE  \E cs : Spells(cs, s, w)
BY WholeSpells, BytesSpell DEF Widths

-----------------------------------------------------------------------------
(* What the operations do to the characters.                               *)

\* Both sides of a cut between two characters are characters, ...
LEMMA CutSpells ==
  ASSUME NEW w, NEW s, NEW cs, Spells(cs, s, w), NEW k \in 0..Len(cs)
  PROVE  /\ Offset(cs, k) \in 0..Len(s)
         /\ Spells(SubSeq(cs, 1, k), SubSeq(s, 1, Offset(cs, k)), w)
         /\ Spells(SubSeq(cs, k + 1, Len(cs)), SubSeq(s, Offset(cs, k) + 1, Len(s)), w)
<1>1. cs \in Seq(Seq(Octet)) /\ s = FlattenSeq(cs) /\ cs \in Seq(CharOf(w))
  BY SpellsType DEF Spells
<1>2. SubSeq(cs, 1, k) \in Seq(CharOf(w)) /\ SubSeq(cs, k + 1, Len(cs)) \in Seq(CharOf(w))
  BY <1>1, CutInTwo
<1>3. /\ Offset(cs, k) \in 0..Len(s)
      /\ SubSeq(s, 1, Offset(cs, k)) = FlattenSeq(SubSeq(cs, 1, k))
      /\ SubSeq(s, Offset(cs, k) + 1, Len(s)) = FlattenSeq(SubSeq(cs, k + 1, Len(cs)))
  BY <1>1, CutFlat
<1> QED BY <1>2, <1>3 DEF Spells

\* ... so is what lies between two cuts, ...
LEMMA MiddleSpells ==
  ASSUME NEW w, NEW s, NEW cs, Spells(cs, s, w), NEW j \in 0..Len(cs), NEW i \in 0..j
  PROVE  Spells(SubSeq(cs, i + 1, j), SubSeq(s, Offset(cs, i) + 1, Offset(cs, j)), w)
<1>1. cs \in Seq(Seq(Octet)) /\ s = FlattenSeq(cs) /\ cs \in Seq(CharOf(w)) /\ Len(cs) \in Nat
  BY SpellsType DEF Spells
<1>2. SubSeq(cs, i + 1, j) \in Seq(CharOf(w))
  <2>1. \A k \in i + 1..j : cs[k] \in CharOf(w)
    BY <1>1, ElementOfSeq
  <2> QED BY <2>1, SubSeqProperties
<1>3. SubSeq(s, Offset(cs, i) + 1, Offset(cs, j)) = FlattenSeq(SubSeq(cs, i + 1, j))
  BY <1>1, MiddleFlat
<1> QED BY <1>2, <1>3 DEF Spells

\* ... and what is put together of characters.
LEMMA ConcatSpells ==
  ASSUME NEW w, NEW s, NEW cs, Spells(cs, s, w), NEW t, NEW ds, Spells(ds, t, w)
  PROVE  Spells(cs \o ds, s \o t, w)
<1>1. /\ cs \in Seq(Seq(Octet)) /\ s = FlattenSeq(cs) /\ cs \in Seq(CharOf(w))
      /\ ds \in Seq(Seq(Octet)) /\ t = FlattenSeq(ds) /\ ds \in Seq(CharOf(w))
  BY SpellsType DEF Spells
<1>2. cs \o ds \in Seq(CharOf(w))
  BY <1>1, ConcatProperties
<1>3. FlattenSeq(cs \o ds) = s \o t
  BY <1>1, FlattenSeqConcat
<1> QED BY <1>2, <1>3 DEF Spells

\* A position that an operation may be given is one between two characters: the end, if
\* m_Length counts too many.
LEMMA PlaceOf ==
  ASSUME NEW w \in Widths, NEW s, NEW cs, Spells(cs, s, w),
         NEW pos \in Nat, w = "ASCII" => pos <= Len(s)
  PROVE  \E q \in 0..Len(cs) :
           /\ BytePosition(s, w, pos) = Offset(cs, q)
           /\ q = IF pos <= Len(cs) THEN pos ELSE Len(cs)
<1>0. Len(cs) \in Nat
  BY SpellsType
<1>1. CASE pos <= Len(cs)
  <2>1. pos \in 0..Len(cs)
    BY <1>0, <1>1
  <2> QED BY <1>1, <2>1, PositionIs
<1>2. CASE ~ (pos <= Len(cs))
  <2>1. pos > Len(cs)
    BY <1>0, <1>2
  <2>2. w = "UTF8"
    <3>1. w = "ASCII" => Len(cs) = Len(s)
      BY OffsetASCII
    <3> QED BY <1>2, <3>1 DEF Widths
  <2>3. BytePosition(s, w, pos) = Len(s)
    BY <2>1, <2>2, PositionIs
  <2>4. Offset(cs, Len(cs)) = Len(s) /\ Len(cs) \in 0..Len(cs)
    BY <1>0, OffsetStep
  <2> QED BY <1>2, <2>3, <2>4
<1> QED BY <1>1, <1>2

\* Insert (Str.cpp:149-157).
LEMMA InsertSpells ==
  ASSUME NEW w \in Widths, NEW s, NEW cs, Spells(cs, s, w),
         NEW pos \in Nat, w = "ASCII" => pos <= Len(s),
         NEW t, NEW ds, Spells(ds, t, w)
  PROVE  LET at == BytePosition(s, w, pos) IN
         \E q \in 0..Len(cs) :
           Spells(SubSeq(cs, 1, q) \o ds \o SubSeq(cs, q + 1, Len(cs)),
                  SubSeq(s, 1, at) \o t \o SubSeq(s, at + 1, Len(s)), w)
<1>1. PICK q \in 0..Len(cs) : BytePosition(s, w, pos) = Offset(cs, q)
  BY PlaceOf
<1>2. /\ Spells(SubSeq(cs, 1, q), SubSeq(s, 1, Offset(cs, q)), w)
      /\ Spells(SubSeq(cs, q + 1, Len(cs)), SubSeq(s, Offset(cs, q) + 1, Len(s)), w)
  BY CutSpells
<1>3. Spells(SubSeq(cs, 1, q) \o ds, SubSeq(s, 1, Offset(cs, q)) \o t, w)
  BY <1>2, ConcatSpells
<1>4. Spells(SubSeq(cs, 1, q) \o ds \o SubSeq(cs, q + 1, Len(cs)),
             SubSeq(s, 1, Offset(cs, q)) \o t \o SubSeq(s, Offset(cs, q) + 1, Len(s)), w)
  BY <1>2, <1>3, ConcatSpells
<1> QED BY <1>1, <1>4

\* Where Erase and SubStr end (Str.cpp:125-130, 164).
EndPosition(s, w, pos, len) ==
  IF len = NPOS THEN Len(s) ELSE BytePosition(s, w, pos + len)

\* r is the last character before this end, or the last one there is.
EndsBehind(s, w, cs, pos, len, r) ==
  /\ SubSeq(s, EndPosition(s, w, pos, len) + 1, Len(s)) = SubSeq(s, Offset(cs, r) + 1, Len(s))
  /\ w = "UTF8" => EndPosition(s, w, pos, len) = Offset(cs, r)
  /\ r = IF len # NPOS /\ pos + len <= Len(cs) THEN pos + len ELSE Len(cs)

\* There is one: the end that Erase takes for one-byte characters can lie one behind the data.
LEMMA EndOf ==
  ASSUME NEW w \in Widths, NEW s, NEW cs, Spells(cs, s, w),
         NEW pos \in Nat, w = "ASCII" => pos <= Len(s), NEW len \in Nat \cup {NPOS}
  PROVE  \E r \in 0..Len(cs) : EndsBehind(s, w, cs, pos, len, r)
<1> DEFINE end == EndPosition(s, w, pos, len)
<1>a. end = IF len = NPOS THEN Len(s) ELSE BytePosition(s, w, pos + len)
  BY DEF EndPosition
<1> HIDE DEF end
<1>0. Len(cs) \in Nat /\ Len(s) \in Nat /\ Offset(cs, Len(cs)) = Len(s)
      /\ Len(cs) \in 0..Len(cs)
  BY SpellsType, OffsetStep
<1>1. CASE len = NPOS
  BY <1>a, <1>0, <1>1 DEF end, EndsBehind
<1>2. CASE len # NPOS
  <2>0. len \in Nat /\ pos + len \in Nat
    BY <1>2
  <2>1. CASE pos + len <= Len(cs)
    <3>1. pos + len \in 0..Len(cs)
      BY <1>0, <2>0, <2>1
    <3>2. end = Offset(cs, pos + len)
      BY <1>a, <1>2, <2>0, <2>1, PositionIs
    <3> QED BY <1>2, <2>1, <3>1, <3>2 DEF end, EndsBehind
  <2>2. CASE ~ (pos + len <= Len(cs))
    <3>0. pos + len > Len(cs)
      BY <1>0, <2>0, <2>2
    <3>1. CASE w = "UTF8"
      <4>1. end = Len(s)
        BY <1>a, <1>2, <2>0, <3>0, <3>1, PositionIs
      <4> QED BY <1>0, <2>2, <4>1 DEF end, EndsBehind
    <3>2. CASE w = "ASCII"
      <4>1. end = pos + len /\ Len(cs) = Len(s)
        BY <1>a, <1>2, <2>0, <3>2, PositionASCII, OffsetASCII
      <4>2. SubSeq(s, end + 1, Len(s)) = <<>>
        <5>1. end + 1 \in Int /\ Len(s) \in Int /\ Len(s) < end + 1
          BY <1>0, <2>0, <3>0, <4>1
        <5> QED BY ONLY <5>1, SubSeqEmpty
      <4>3. SubSeq(s, Len(s) + 1, Len(s)) = <<>>
        <5>1. Len(s) + 1 \in Int /\ Len(s) \in Int /\ Len(s) < Len(s) + 1
          BY <1>0
        <5> QED BY ONLY <5>1, SubSeqEmpty
      <4> QED BY <1>0, <2>2, <3>2, <4>2, <4>3 DEF end, EndsBehind
    <3> QED BY <3>1, <3>2 DEF Widths
  <2> QED BY <2>1, <2>2
<1> QED BY <1>1, <1>2

\* Erase (Str.cpp:159-168).
LEMMA EraseSpells ==
  ASSUME NEW w \in Widths, NEW s, NEW cs, Spells(cs, s, w),
         NEW pos \in Nat, w = "ASCII" => pos <= Len(s), NEW len \in Nat \cup {NPOS}
  PROVE  \E q \in 0..Len(cs) : \E r \in q..Len(cs) :
           Spells(SubSeq(cs, 1, q) \o SubSeq(cs, r + 1, Len(cs)),
                  SubSeq(s, 1, BytePosition(s, w, pos))
                    \o SubSeq(s, EndPosition(s, w, pos, len) + 1, Len(s)), w)
<1>1. PICK q \in 0..Len(cs) : /\ BytePosition(s, w, pos) = Offset(cs, q)
                              /\ q = IF pos <= Len(cs) THEN pos ELSE Len(cs)
  BY PlaceOf
<1>2. PICK r \in 0..Len(cs) : EndsBehind(s, w, cs, pos, len, r)
  BY EndOf
<1>3. r \in q..Len(cs)
  <2>1. Len(cs) \in Nat
    BY SpellsType
  <2>2. CASE len # NPOS /\ pos + len <= Len(cs)
    <3>1. len \in Nat /\ pos <= Len(cs)
      BY <2>1, <2>2
    <3> QED BY <1>1, <1>2, <2>1, <2>2, <3>1 DEF EndsBehind
  <2>3. CASE ~ (len # NPOS /\ pos + len <= Len(cs))
    BY <1>1, <1>2, <2>1, <2>3 DEF EndsBehind
  <2> QED BY <2>2, <2>3
<1>4. /\ Spells(SubSeq(cs, 1, q), SubSeq(s, 1, Offset(cs, q)), w)
      /\ Spells(SubSeq(cs, r + 1, Len(cs)), SubSeq(s, Offset(cs, r) + 1, Len(s)), w)
  BY CutSpells
<1>5. Spells(SubSeq(cs, 1, q) \o SubSeq(cs, r + 1, Len(cs)),
             SubSeq(s, 1, Offset(cs, q)) \o SubSeq(s, Offset(cs, r) + 1, Len(s)), w)
  BY <1>4, ConcatSpells
<1> QED BY <1>1, <1>2, <1>3, <1>5 DEF EndsBehind

\* The characters that are blanks.
BlankChar == {<<b>> : b \in Blanks}

\* A byte that is a blank is a character: one that begins or ends with a blank is that blank.
LEMMA BlankIsChar ==
  ASSUME NEW w \in Widths, NEW c \in CharOf(w), c[1] \in Blanks \/ c[Len(c)] \in Blanks
  PROVE  c \in BlankChar
<1>1. Blanks \subseteq 0..127
  BY StrAssumption
<1>2. c \in Seq(Octet) /\ Len(c) \in Nat /\ Len(c) >= 1
  BY CharType
<1>3. Len(c) = 1
  <2>1. CASE w = "ASCII"
    BY <2>1, LenOfChar
  <2>2. CASE w = "UTF8"
    <3>1. /\ Len(c) = Step(c[1])
          /\ \A k \in 2..Len(c) : c[k] \in Continuation
      BY <2>2 DEF CharOf, Character
    <3>2. CASE c[1] \in Blanks
      <4>1. PICK b \in 0..127 : b = c[1]
        BY <1>1, <3>2
      <4>2. Step(b) = 1
        BY DEF Step
      <4> QED BY <3>1, <4>1, <4>2
    <3>3. CASE c[Len(c)] \in Blanks
      <4>1. c[Len(c)] \notin Continuation
        <5>1. PICK b \in 0..127 : b = c[Len(c)]
          BY <1>1, <3>3
        <5>2. b \notin Continuation
          BY ONLY b \in 0..127 DEF Continuation
        <5> QED BY <5>1, <5>2
      <4> QED BY <1>2, <3>1, <4>1
    <3> QED BY <3>2, <3>3
  <2> QED BY <2>1, <2>2 DEF Widths
<1>4. c = <<c[1]>>
  <2>1. c = [i \in 1..1 |-> c[i]]
    BY <1>2, <1>3, LenProperties
  <2> QED BY <2>1
<1>5. c[1] \in Blanks
  BY <1>3
<1> QED BY <1>4, <1>5 DEF BlankChar

\* A run of blank characters is a run of blank bytes.
LEMMA BlankRun ==
  ASSUME NEW w, NEW s, NEW cs, Spells(cs, s, w), NEW n \in 0..Len(cs), NEW m \in 0..n,
         \A k \in m + 1..n : cs[k] \in BlankChar
  PROVE  \A i \in Offset(cs, m) + 1..Offset(cs, n) : s[i] \in Blanks
<1>0. Len(cs) \in Nat /\ n \in Nat /\ m \in Nat
  BY SpellsType
<1>1. \A k \in 1..Len(cs) :
        /\ Offset(cs, k - 1) \in Nat
        /\ Offset(cs, k) = Offset(cs, k - 1) + Len(cs[k])
        /\ \A j \in 1..Len(cs[k]) : s[Offset(cs, k - 1) + j] = cs[k][j]
  BY OffsetStep
<1>2. Offset(cs, m) \in Nat
  <2>1. m \in 0..Len(cs)
    BY <1>0
  <2> QED BY <2>1, SpellsType, CutSpells
<1> DEFINE T == {j \in 0..n : j >= m => \A i \in Offset(cs, m) + 1..Offset(cs, j) : s[i] \in Blanks}
<1>3. ASSUME NEW j \in 0..n, j = m PROVE j \in T
  BY <1>2, <1>3
<1>4. 0 \in T
  <2>1. CASE m = 0
    BY <1>0, <1>3, <2>1
  <2>2. CASE m # 0
    <3>1. ~ (0 >= m) /\ 0 \in 0..n
      BY <1>0, <2>2
    <3> QED BY <3>1
  <2> QED BY <2>1, <2>2
<1>5. ASSUME NEW j \in 1..n, j - 1 \in T PROVE j \in T
  <2>0. j \in 0..n /\ j \in 1..Len(cs)
    BY <1>0
  <2>1. CASE j = m
    BY <2>0, <2>1, <1>3
  <2>2. CASE j < m
    <3>1. ~ (j >= m)
      BY <1>0, <2>2
    <3> QED BY <2>0, <3>1
  <2>3. CASE j > m
    <3>1. j \in m + 1..n /\ j - 1 >= m
      BY <1>0, <2>3
    <3>2. PICK b \in Blanks : cs[j] = <<b>>
      BY <3>1 DEF BlankChar
    <3>3. PICK p \in Nat : p = Offset(cs, j - 1)
      BY <1>1, <2>0
    <3>4. Len(cs[j]) = 1 /\ cs[j][1] = b
      BY <3>2
    <3>5. Offset(cs, j) = p + 1 /\ s[p + 1] = b
      <4>1. 1 \in 1..Len(cs[j])
        BY <3>4
      <4>2. s[Offset(cs, j - 1) + 1] = cs[j][1]
        BY <1>1, <2>0, <4>1
      <4>3. Offset(cs, j) = Offset(cs, j - 1) + Len(cs[j])
        BY <1>1, <2>0
      <4> QED BY <3>3, <3>4, <4>2, <4>3
    <3>6. \A i \in Offset(cs, m) + 1..p : s[i] \in Blanks
      BY <1>5, <3>1, <3>3
    <3>7. \A i \in Offset(cs, m) + 1..p + 1 : s[i] \in Blanks
      <4>1. ASSUME NEW i \in Offset(cs, m) + 1..p + 1 PROVE s[i] \in Blanks
        <5>1. i = p + 1 \/ i \in Offset(cs, m) + 1..p
          BY <1>2
        <5> QED BY <5>1, <3>5, <3>6
      <4> QED BY <4>1
    <3> QED BY <2>0, <3>5, <3>7
  <2> QED BY <1>0, <2>1, <2>2, <2>3
<1>6. 0..n \subseteq T
  <2>1. T \in SUBSET (0..n)
    OBVIOUS
  <2> HIDE DEF T
  <2> QED BY <1>0, <1>4, <1>5, <2>1, UpTo
<1>7. n \in 0..n /\ n >= m
  BY <1>0
<1> QED BY <1>6, <1>7

\* Trim takes blank characters from the ends, and nothing else (Str.cpp:171-189).
LEMMA TrimSpells ==
  ASSUME NEW w \in Widths, NEW s, NEW cs, Spells(cs, s, w)
  PROVE  \E first \in 1..Len(cs) + 1, last \in 0..Len(cs) :
           /\ \A i \in 1..Len(cs) : i \notin first..last => cs[i] \in BlankChar
           /\ Spells(SubSeq(cs, first, last), Trim(s), w)
<1>0. /\ cs \in Seq(Seq(Octet)) /\ s \in Seq(Octet) /\ Len(cs) \in Nat /\ Len(s) \in Nat
      /\ \A k \in 1..Len(cs) : cs[k] \in CharOf(w) /\ Len(cs[k]) \in Nat /\ Len(cs[k]) >= 1
  BY SpellsType
<1>1. /\ Offset(cs, 0) = 0 /\ Offset(cs, Len(cs)) = Len(s)
      /\ \A k \in 1..Len(cs) :
           /\ Offset(cs, k - 1) \in Nat
           /\ Offset(cs, k) = Offset(cs, k - 1) + Len(cs[k])
           /\ Offset(cs, k - 1) + 1 \in 1..Len(s)
           /\ Offset(cs, k) \in 1..Len(s)
           /\ \A j \in 1..Len(cs[k]) : s[Offset(cs, k - 1) + j] = cs[k][j]
  BY OffsetStep
  \* A character that is no blank begins and ends with a byte that is none.
<1>2. ASSUME NEW k \in 1..Len(cs), cs[k] \notin BlankChar
      PROVE  Offset(cs, k - 1) + 1 \in Solid(s) /\ Offset(cs, k) \in Solid(s)
  <2>1. cs[k][1] \notin Blanks /\ cs[k][Len(cs[k])] \notin Blanks
    BY <1>0, <1>2, BlankIsChar
  <2>2. 1 \in 1..Len(cs[k]) /\ Len(cs[k]) \in 1..Len(cs[k])
    BY <1>0
  <2>3. s[Offset(cs, k - 1) + 1] = cs[k][1] /\ s[Offset(cs, k)] = cs[k][Len(cs[k])]
    BY <1>1, <2>2
  <2> QED BY <1>1, <2>1, <2>3 DEF Solid
<1>3. CASE s = <<>> \/ s[1] \notin Blanks
  <2>1. Trim(s) = s
    BY <1>3 DEF Trim
  <2>2. SubSeq(cs, 1, Len(cs)) = cs
    BY <1>0, SubSeqFull
  <2>3. 1 \in 1..Len(cs) + 1 /\ Len(cs) \in 0..Len(cs)
    BY <1>0
  <2>4. Spells(SubSeq(cs, 1, Len(cs)), Trim(s), w)
    BY <2>1, <2>2
  <2> QED BY <2>3, <2>4
<1>4. CASE ~ (s = <<>> \/ s[1] \notin Blanks) /\ Solid(s) = {}
  <2>1. Trim(s) = <<>>
    BY <1>4 DEF Trim
  <2>2. SubSeq(cs, 1, 0) = <<>>
    BY SubSeqEmpty
  <2>3. \A k \in 1..Len(cs) : cs[k] \in BlankChar
    BY <1>2, <1>4
  <2>4. <<>> \in Seq(CharOf(w))
    BY EmptySeq
  <2>5. Spells(SubSeq(cs, 1, 0), Trim(s), w)
    BY <2>1, <2>2, <2>4, FlattenSeqEmpty DEF Spells
  <2>6. 1 \in 1..Len(cs) + 1 /\ 0 \in 0..Len(cs)
    BY <1>0
  <2> QED BY <2>3, <2>5, <2>6
<1>5. CASE ~ (s = <<>> \/ s[1] \notin Blanks) /\ Solid(s) # {}
  <2> DEFINE F == {k \in 1..Len(cs) : cs[k] \notin BlankChar}
  <2>1. Trim(s) = SubSeq(s, Min(Solid(s)), Min({Max(Solid(s)) + 1, Len(s)}))
    BY <1>5 DEF Trim
  <2>2. Solid(s) \in SUBSET (1..Len(s)) /\ \A i \in Solid(s) : s[i] \notin Blanks
    BY DEF Solid
  <2>3. F # {}
    <3>1. SUFFICES ASSUME F = {} PROVE FALSE
      OBVIOUS
    <3>2. \A k \in 0 + 1..Len(cs) : cs[k] \in BlankChar
      BY <3>1
    <3>3. Len(cs) \in 0..Len(cs) /\ 0 \in 0..Len(cs)
      BY <1>0
    <3>4. \A i \in Offset(cs, 0) + 1..Offset(cs, Len(cs)) : s[i] \in Blanks
      BY <3>2, <3>3, BlankRun
    <3>5. \A i \in 1..Len(s) : s[i] \in Blanks
      BY <1>0, <1>1, <3>4
    <3> QED BY <1>5, <2>2, <3>5
  <2>4. PICK f \in F : \A k \in F : f <= k
    <3>1. F \in SUBSET Nat
      OBVIOUS
    <3> QED BY <2>3, <3>1, LeastNatural
  <2>5. PICK g \in F : \A k \in F : k <= g
    <3>1. F \in SUBSET (1..Len(cs))
      OBVIOUS
    <3> HIDE DEF F
    <3> QED BY <1>0, <2>3, <3>1, GreatestIn
  <2>6. f \in 1..Len(cs) /\ g \in 1..Len(cs) /\ f <= g /\ cs[f] \notin BlankChar /\ cs[g] \notin BlankChar
        /\ \A k \in 1..Len(cs) : k < f \/ k > g => cs[k] \in BlankChar
    <3>1. f \in 1..Len(cs) /\ g \in 1..Len(cs) /\ f <= g /\ cs[f] \notin BlankChar /\ cs[g] \notin BlankChar
      BY <2>4, <2>5
    <3>2. ASSUME NEW k \in 1..Len(cs), k < f \/ k > g PROVE k \notin F
      <4> HIDE DEF F
      <4> QED BY <3>1, <3>2, <2>4, <2>5
    <3> QED BY <3>1, <3>2
  <2> HIDE DEF F
  <2>7. PICK b \in Nat : b = Offset(cs, f - 1) + 1 /\ b \in 1..Len(s) /\ b \in Solid(s)
    BY <1>1, <1>2, <2>6
  <2>8. PICK e \in Nat : e = Offset(cs, g) /\ e \in 1..Len(s) /\ e \in Solid(s)
    BY <1>1, <1>2, <2>6
  <2>9. \A i \in Solid(s) : b <= i
    <3>1. f - 1 \in 0..Len(cs) /\ 0 \in 0..f - 1 /\ \A k \in 0 + 1..f - 1 : cs[k] \in BlankChar
      BY <1>0, <2>6
    <3>2. \A i \in Offset(cs, 0) + 1..Offset(cs, f - 1) : s[i] \in Blanks
      BY <3>1, BlankRun
    <3>3. \A i \in 1..b - 1 : s[i] \in Blanks
      BY <1>1, <2>6, <2>7, <3>2
    <3> QED BY <1>0, <2>2, <2>7, <3>3
  <2>10. \A i \in Solid(s) : i <= e
    <3>1. Len(cs) \in 0..Len(cs) /\ g \in 0..Len(cs) /\ \A k \in g + 1..Len(cs) : cs[k] \in BlankChar
      BY <1>0, <2>6
    <3>2. \A i \in Offset(cs, g) + 1..Offset(cs, Len(cs)) : s[i] \in Blanks
      BY <3>1, BlankRun
    <3>3. \A i \in e + 1..Len(s) : s[i] \in Blanks
      BY <1>1, <2>8, <3>2
    <3> QED BY <1>0, <2>2, <2>8, <3>3
  <2>11. Min(Solid(s)) = b
    <3>1. Solid(s) \in SUBSET Nat
      BY <1>0, <2>2
    <3>2. Min(Solid(s)) \in Solid(s) /\ \A i \in Solid(s) : Min(Solid(s)) <= i
      BY <1>5, <3>1, LeastIn
    <3> QED BY <2>7, <2>9, <3>1, <3>2
  <2>12. Max(Solid(s)) = e
    <3>1. Max(Solid(s)) \in Solid(s) /\ \A i \in Solid(s) : i <= Max(Solid(s))
      BY <1>0, <1>5, <2>2, GreatestIn
    <3>2. Max(Solid(s)) \in Nat
      BY <1>0, <2>2, <3>1
    <3> QED BY <2>8, <2>10, <3>1, <3>2
  <2>13. PICK l \in g..Len(cs) : Offset(cs, l) = Min({e + 1, Len(s)})
    <3>1. {e + 1, Len(s)} \in SUBSET Nat /\ {e + 1, Len(s)} # {}
      BY <1>0, <2>8
    <3>2. Min({e + 1, Len(s)}) \in {e + 1, Len(s)}
          /\ \A i \in {e + 1, Len(s)} : Min({e + 1, Len(s)}) <= i
      BY <3>1, LeastIn
    <3>3. CASE g = Len(cs)
      <4>1. e = Len(s)
        BY <1>1, <2>8, <3>3
      <4>2. Min({e + 1, Len(s)}) = Len(s)
        BY <1>0, <3>2, <4>1
      <4> QED BY <1>0, <1>1, <2>6, <3>3, <4>2
    <3>4. CASE g # Len(cs)
      <4>1. g + 1 \in 1..Len(cs) /\ g + 1 - 1 = g /\ g + 1 \in g..Len(cs) /\ g + 1 > g
        BY <1>0, <2>6, <3>4
      <4>2. cs[g + 1] \in BlankChar
        BY <2>6, <4>1
      <4>3. Len(cs[g + 1]) = 1
        BY <4>2 DEF BlankChar
      <4>4. Offset(cs, g + 1) = e + 1 /\ e + 1 <= Len(s)
        <5>1. PICK h \in 1..Len(cs) : h = g + 1 /\ h - 1 = g
          BY <1>0, <2>6, <4>1
        <5>2. Offset(cs, h) = Offset(cs, h - 1) + Len(cs[h]) /\ Offset(cs, h) \in 1..Len(s)
          BY <1>1
        <5>3. Offset(cs, h) = e + 1
          BY <2>8, <4>3, <5>1, <5>2
        <5> QED BY <1>0, <5>1, <5>2, <5>3
      <4>5. Min({e + 1, Len(s)}) = e + 1
        BY <1>0, <3>2, <4>4
      <4> QED BY <4>1, <4>4, <4>5
    <3> QED BY <3>3, <3>4
  <2>14. Spells(SubSeq(cs, (f - 1) + 1, l), SubSeq(s, Offset(cs, f - 1) + 1, Offset(cs, l)), w)
    <3>1. l \in 0..Len(cs) /\ f - 1 \in 0..l
      BY <1>0, <2>6, <2>13
    <3> QED BY <3>1, MiddleSpells
  <2>15. Spells(SubSeq(cs, f, l), Trim(s), w)
    <3>1. (f - 1) + 1 = f
      BY <2>6
    <3> QED BY <2>1, <2>7, <2>11, <2>12, <2>13, <2>14, <3>1
  <2>16. \A i \in 1..Len(cs) : i \notin f..l => cs[i] \in BlankChar
    BY <1>0, <2>6, <2>13
  <2>17. f \in 1..Len(cs) + 1 /\ l \in 0..Len(cs)
    BY <1>0, <2>6, <2>13
  <2> QED BY <2>15, <2>16, <2>17
<1> QED BY <1>3, <1>4, <1>5

-----------------------------------------------------------------------------
(* The invariant.                                                          *)

\* StrInv, of a state and with the characters: they are there for either width, and with
\* UTF-8 they are whole.
StrState(d, l, w, mix) ==
  /\ \E arg \in Args : w = arg.width
  /\ Len(d) <= MaxBytes /\ l \in Nat /\ l <= Len(d) /\ mix \in BOOLEAN
  /\ \E cs : /\ Spells(cs, d, w)
             /\ ~mix => l = Len(cs)
             /\ w = "UTF8" => l >= Len(cs)

\* StrInv, with the state as parameters.
StrInvOf(d, l, w, mix) ==
  /\ d \in Seq(Octet) /\ Len(d) <= MaxBytes
  /\ l \in 0..MaxBytes
  /\ \E arg \in Args : w = arg.width
  /\ mix \in BOOLEAN
  /\ ~mix => l = CalculateLength(d, w)
  /\ l <= Len(d)
  /\ w = "UTF8" => l >= CalculateLength(d, w)
  /\ w = "UTF8" => Whole(d)

\* It is this, now and after a step.
LEMMA StrInvIs ==
  /\ StrInv <=> StrInvOf(data, length, width, mixed)
  /\ StrInv' <=> StrInvOf(data', length', width', mixed')
BY DEF StrInv, StrTypeOK, LengthRight, StaleLengthIsSafe, StrInvOf

\* The two widths there are.
LEMMA WidthType ==
  ASSUME NEW arg \in Args
  PROVE  /\ arg.width \in Widths /\ arg.data \in Seq(Octet)
         /\ Len(arg.data) \in Nat /\ Len(arg.data) <= MaxBytes
BY StrAssumption, LenProperties DEF Widths

\* The strings that get in are characters of the width of the string they get into, and
\* their own length is no less than the number of those.
LEMMA ArgSpells ==
  ASSUME NEW w, \E other \in Args : w = other.width, NEW arg \in Args
  PROVE  \E ds : /\ Spells(ds, arg.data, w)
                 /\ Len(ds) = CalculateLength(arg.data, w)
                 /\ ds = CharactersOf(arg.data, w)
                 /\ CalculateLength(arg.data, arg.width) \in Nat
                 /\ CalculateLength(arg.data, arg.width) <= Len(arg.data)
                 /\ w = "UTF8" => CalculateLength(arg.data, arg.width) >= Len(ds)
<1>0. /\ arg.width \in Widths /\ arg.data \in Seq(Octet) /\ w \in Widths
      /\ Len(arg.data) \in Nat
  BY WidthType
<1>1. /\ w = "UTF8" => Whole(arg.data)
      /\ arg.width = "UTF8" => Whole(arg.data)
  BY StrAssumption
<1>2. PICK ds : Spells(ds, arg.data, w)
  BY <1>0, <1>1, TextSpells
<1>3. PICK es : Spells(es, arg.data, arg.width)
  BY <1>0, <1>1, TextSpells
<1>4. /\ Len(ds) = CalculateLength(arg.data, w) /\ Len(es) = CalculateLength(arg.data, arg.width)
      /\ ds = CharactersOf(arg.data, w)
  BY <1>0, <1>2, <1>3, LengthIs, CharactersAre
<1>5. Len(es) \in Nat /\ Len(es) <= Len(arg.data) /\ Len(ds) \in Nat /\ Len(ds) <= Len(arg.data)
  BY <1>2, <1>3, SpellsType, FewerChars
<1>6. ASSUME w = "UTF8" PROVE Len(es) >= Len(ds)
  <2>1. CASE arg.width = "UTF8"
    BY <1>4, <1>5, <1>6, <2>1
  <2>2. CASE arg.width = "ASCII"
    <3>1. Len(es) = Len(arg.data)
      BY <1>3, <2>2, OffsetASCII
    <3> QED BY <1>5, <3>1
  <2> QED BY <1>0, <2>1, <2>2 DEF Widths
<1> QED BY <1>2, <1>4, <1>5, <1>6

\* The two say the same.
LEMMA StateIs ==
  ASSUME NEW d, NEW l, NEW w, NEW mix
  PROVE  StrInvOf(d, l, w, mix) <=> StrState(d, l, w, mix)
<1>1. ASSUME StrInvOf(d, l, w, mix) PROVE StrState(d, l, w, mix)
  <2>1. w \in Widths /\ d \in Seq(Octet) /\ (w = "UTF8" => Whole(d)) /\ MaxBytes \in Nat
        /\ Len(d) \in Nat
    BY <1>1, WidthType, StrAssumption, LenProperties DEF StrInvOf
  <2>2. PICK cs : Spells(cs, d, w)
    BY <2>1, TextSpells
  <2>3. CalculateLength(d, w) = Len(cs)
    BY <2>1, <2>2, LengthIs
  <2> QED BY <1>1, <2>1, <2>2, <2>3 DEF StrInvOf, StrState
<1>2. ASSUME StrState(d, l, w, mix) PROVE StrInvOf(d, l, w, mix)
  <2>1. PICK cs : /\ Spells(cs, d, w)
                  /\ ~mix => l = Len(cs)
                  /\ w = "UTF8" => l >= Len(cs)
    BY <1>2 DEF StrState
  <2>2. w \in Widths /\ MaxBytes \in Nat
    BY <1>2, WidthType, StrAssumption DEF StrState
  <2>3. CalculateLength(d, w) = Len(cs) /\ d \in Seq(Octet) /\ Len(d) \in Nat
    BY <2>1, <2>2, LengthIs, SpellsType
  <2>4. w = "UTF8" => Whole(d)
    BY <2>1, WholeSpells
  <2>5. l \in 0..MaxBytes
    BY <1>2, <2>2, <2>3 DEF StrState
  <2> QED BY <1>2, <2>1, <2>3, <2>4, <2>5 DEF StrInvOf, StrState
<1> QED BY <1>1, <1>2

\* In a state there is one way to read the characters.
LEMMA StateSpells ==
  ASSUME NEW d, NEW l, NEW w, NEW mix, StrState(d, l, w, mix)
  PROVE  /\ w \in Widths
         /\ Spells(CharactersOf(d, w), d, w)
         /\ ~mix => l = Len(CharactersOf(d, w))
         /\ w = "UTF8" => l >= Len(CharactersOf(d, w))
         /\ l \in Nat /\ l <= Len(d) /\ Len(d) \in Nat /\ mix \in BOOLEAN
<1>1. PICK cs : /\ Spells(cs, d, w)
                /\ ~mix => l = Len(cs)
                /\ w = "UTF8" => l >= Len(cs)
  BY DEF StrState
<1>2. w \in Widths /\ l \in Nat /\ l <= Len(d) /\ mix \in BOOLEAN
  BY WidthType DEF StrState
<1>3. CharactersOf(d, w) = cs /\ Len(d) \in Nat
  BY <1>1, <1>2, CharactersAre, SpellsType
<1> QED BY <1>1, <1>2, <1>3

\* What the abstract string allows, from the one sequence of characters to the other.
CharStep(now, then) ==
  \/ Characters!PutIn(now, then) \/ Characters!TakeOut(now, then)
  \/ Characters!TrimEnds(now, then) \/ then = now

\* The sequences of characters that may be put in.
StrTexts == {CharactersOf(arg.data, w) : arg \in Args, w \in {"ASCII", "UTF8"}}

\* PutIn of the abstract string, with what this one gives it.
LEMMA PutInIs ==
  ASSUME NEW now, NEW then
  PROVE  Characters!PutIn(now, then) <=>
           \E pos \in 0..Len(now), text \in StrTexts :
             then = SubSeq(now, 1, pos) \o text \o SubSeq(now, pos + 1, Len(now))
BY DEF Characters!PutIn, StrTexts

\* The length of a sequence into which another one is put.
LEMMA LenOfPutIn ==
  ASSUME NEW S, NEW s \in Seq(S), NEW t \in Seq(S), NEW n \in 0..Len(s)
  PROVE  Len(SubSeq(s, 1, n) \o t \o SubSeq(s, n + 1, Len(s))) = Len(s) + Len(t)
<1>1. /\ SubSeq(s, 1, n) \in Seq(S) /\ SubSeq(s, n + 1, Len(s)) \in Seq(S)
      /\ Len(SubSeq(s, 1, n)) = n /\ Len(SubSeq(s, n + 1, Len(s))) = Len(s) - n
  BY CutInTwo
<1>2. PICK a \in Seq(S), b \in Seq(S) :
        a = SubSeq(s, 1, n) /\ b = SubSeq(s, n + 1, Len(s))
  BY <1>1
<1>3. Len(a \o t) = Len(a) + Len(t) /\ a \o t \in Seq(S)
  BY ConcatProperties
<1>4. Len((a \o t) \o b) = Len(a \o t) + Len(b)
  BY <1>3, ConcatProperties
<1>5. Len(a) = n /\ Len(b) = Len(s) - n /\ Len(s) \in Nat /\ Len(t) \in Nat
  BY <1>1, <1>2, LenProperties
<1>6. Len((a \o t) \o b) = n + Len(t) + (Len(s) - n)
  BY <1>3, <1>4, <1>5
<1>7. n + Len(t) + (Len(s) - n) = Len(s) + Len(t)
  BY <1>5
<1> QED BY <1>2, <1>6, <1>7

\* A string whose characters are counted again is in order.
LEMMA CountedAgain ==
  ASSUME NEW d, NEW w, NEW cs, Spells(cs, d, w), \E arg \in Args : w = arg.width,
         Len(d) <= MaxBytes
  PROVE  StrState(d, CalculateLength(d, w), w, FALSE)
<1>1. w \in Widths
  BY WidthType
<1>2. CalculateLength(d, w) = Len(cs) /\ Len(cs) \in Nat /\ Len(cs) <= Len(d)
  BY <1>1, LengthIs, SpellsType, FewerChars
<1>3. FALSE \in BOOLEAN /\ Len(cs) >= Len(cs)
  BY <1>2
<1> QED BY <1>2, <1>3 DEF StrState

\* So is a string into which another one was put, with the two lengths added up.
LEMMA PutInState ==
  ASSUME NEW d, NEW l, NEW w, NEW mix, StrState(d, l, w, mix), NEW arg \in Args,
         NEW e, Len(e) = Len(d) + Len(arg.data), Len(e) <= MaxBytes,
         NEW cs, Spells(cs, d, w), NEW ds, Spells(ds, arg.data, w), NEW q \in 0..Len(cs),
         Spells(SubSeq(cs, 1, q) \o ds \o SubSeq(cs, q + 1, Len(cs)), e, w)
  PROVE  /\ StrState(e, l + CalculateLength(arg.data, arg.width), w,
                     mix \/ CalculateLength(arg.data, arg.width) # CalculateLength(arg.data, w))
         /\ CharStep(CharactersOf(d, w), CharactersOf(e, w))
<1> DEFINE es == SubSeq(cs, 1, q) \o ds \o SubSeq(cs, q + 1, Len(cs))
           n == CalculateLength(arg.data, arg.width)
           mix2 == mix \/ n # CalculateLength(arg.data, w)
<1>1. /\ w \in Widths /\ l \in Nat /\ l <= Len(d) /\ Len(d) \in Nat /\ mix \in BOOLEAN
      /\ CharactersOf(d, w) = cs
      /\ ~mix => l = Len(cs)
      /\ w = "UTF8" => l >= Len(cs)
      /\ \E other \in Args : w = other.width
  BY StateSpells, CharactersAre DEF StrState
<1>2. /\ CharactersOf(arg.data, w) = ds /\ Len(ds) = CalculateLength(arg.data, w)
      /\ CalculateLength(arg.data, arg.width) \in Nat
      /\ CalculateLength(arg.data, arg.width) <= Len(arg.data)
      /\ w = "UTF8" => CalculateLength(arg.data, arg.width) >= Len(ds)
  <2>1. CharactersOf(arg.data, w) = ds
    BY <1>1, CharactersAre
  <2>2. PICK x : /\ Spells(x, arg.data, w)
                 /\ Len(x) = CalculateLength(arg.data, w)
                 /\ x = CharactersOf(arg.data, w)
                 /\ CalculateLength(arg.data, arg.width) \in Nat
                 /\ CalculateLength(arg.data, arg.width) <= Len(arg.data)
                 /\ w = "UTF8" => CalculateLength(arg.data, arg.width) >= Len(x)
    BY <1>1, ArgSpells
  <2>3. x = ds
    BY <2>1, <2>2
  <2> QED BY <2>1, <2>2, <2>3
<1>3. CharactersOf(e, w) = es
  BY <1>1, CharactersAre
<1>4. Len(es) = Len(cs) + Len(ds) /\ Len(cs) \in Nat /\ Len(ds) \in Nat /\ Len(arg.data) \in Nat
  <2>1. cs \in Seq(Seq(Octet)) /\ ds \in Seq(Seq(Octet)) /\ Len(cs) \in Nat /\ Len(ds) \in Nat
    BY SpellsType
  <2>5. Len(es) = Len(cs) + Len(ds)
    BY <2>1, LenOfPutIn
  <2>6. Len(arg.data) \in Nat
    BY WidthType
  <2> QED BY <2>1, <2>5, <2>6
<1> HIDE DEF es, n
<1>5. StrState(e, l + n, w, mix2)
  <2>1. mix2 \in BOOLEAN
    OBVIOUS
  <2>2. n \in Nat /\ n <= Len(arg.data) /\ (w = "UTF8" => n >= Len(ds))
    BY <1>2 DEF n
  <2>3. l + n \in Nat /\ l + n <= Len(e)
    BY <1>1, <1>4, <2>2
  <2>4. ~mix2 => l + n = Len(es)
    BY <1>1, <1>2, <1>4
  <2>5. w = "UTF8" => l + n >= Len(es)
    BY <1>1, <1>4, <2>2
  <2>6. Spells(es, e, w)
    BY DEF es
  <2> HIDE DEF mix2
  <2> QED BY <1>1, <2>1, <2>3, <2>4, <2>5, <2>6 DEF StrState
<1>6. CharStep(cs, es)
  <2>1. ds \in StrTexts
    BY <1>1, <1>2 DEF StrTexts, Widths
  <2>2. es = SubSeq(cs, 1, q) \o ds \o SubSeq(cs, q + 1, Len(cs))
    BY DEF es
  <2>3. Characters!PutIn(cs, es)
    BY Zenon, <2>1, <2>2, PutInIs
  <2> QED BY <2>3 DEF CharStep
<1> QED BY <1>1, <1>3, <1>5, <1>6 DEF n

\* What a step leaves behind: a string in order, and a step of the abstract one.
Kept ==
  /\ StrState(data', length', width', mixed')
  /\ CharStep(CharactersOf(data, width), CharactersOf(data', width'))

\* The start.
LEMMA StrInitStep ==
  ASSUME StrInit
  PROVE  StrInv /\ CharactersOf(data, width) \in StrTexts
<1>1. PICK arg \in Args : /\ data = arg.data /\ width = arg.width /\ mixed = FALSE
                          /\ length = CalculateLength(arg.data, arg.width)
  BY DEF StrInit
<1>2. PICK ds : Spells(ds, arg.data, arg.width)
  BY ArgSpells
<1>3. arg.width \in Widths /\ Len(arg.data) <= MaxBytes
  BY WidthType
<1>4. StrState(arg.data, CalculateLength(arg.data, arg.width), arg.width, FALSE)
  BY <1>2, <1>3, CountedAgain
<1>5. StrInv
  BY <1>1, <1>4, StateIs, StrInvIs
<1> QED BY <1>1, <1>3, <1>5 DEF StrTexts, Widths

\* Append (Str.cpp:142-146).
LEMMA AppendStrStep ==
  ASSUME StrState(data, length, width, mixed), NEW arg \in Args, AppendStr(arg)
  PROVE  Kept
<1> DEFINE cs == CharactersOf(data, width)
<1>1. width \in Widths /\ Spells(cs, data, width) /\ Len(data) \in Nat
  BY StateSpells
<1>2. PICK ds : Spells(ds, arg.data, width)
  BY ArgSpells DEF StrState
<1> HIDE DEF cs
<1>3. /\ Len(data) + Len(arg.data) <= MaxBytes
      /\ data' = data \o arg.data
      /\ length' = length + CalculateLength(arg.data, arg.width)
      /\ mixed' = (mixed \/ CalculateLength(arg.data, arg.width) # CalculateLength(arg.data, width))
      /\ width' = width
  BY DEF AppendStr, MixedBy
<1>4. Spells(cs \o ds, data \o arg.data, width)
  BY <1>1, <1>2, ConcatSpells
<1>5. SubSeq(cs, 1, Len(cs)) \o ds \o SubSeq(cs, Len(cs) + 1, Len(cs)) = cs \o ds
      /\ Len(cs) \in 0..Len(cs)
  <2>1. cs \in Seq(Seq(Octet)) /\ ds \in Seq(Seq(Octet)) /\ Len(cs) \in Nat
    BY <1>1, <1>2, SpellsType
  <2>2. SubSeq(cs, 1, Len(cs)) = cs
    BY <2>1, SubSeqFull
  <2>3. SubSeq(cs, Len(cs) + 1, Len(cs)) = <<>>
    <3>1. Len(cs) + 1 \in Int /\ Len(cs) \in Int /\ Len(cs) < Len(cs) + 1
      BY <2>1
    <3> QED BY ONLY <3>1, SubSeqEmpty
  <2>4. cs \o ds \in Seq(Seq(Octet))
    BY <2>1, ConcatProperties
  <2>5. (cs \o ds) \o <<>> = cs \o ds
    BY <2>4, ConcatEmptySeq
  <2>6. Len(cs) \in 0..Len(cs)
    BY <2>1
  <2> QED BY Zenon, <2>2, <2>3, <2>5, <2>6
<1>6. Len(data \o arg.data) = Len(data) + Len(arg.data)
  BY <1>1, <1>2, SpellsType, ConcatProperties
<1>a. Spells(SubSeq(cs, 1, Len(cs)) \o ds \o SubSeq(cs, Len(cs) + 1, Len(cs)), data \o arg.data, width)
  BY <1>4, <1>5
<1>7. /\ StrState(data \o arg.data, length + CalculateLength(arg.data, arg.width), width,
                  mixed \/ CalculateLength(arg.data, arg.width) # CalculateLength(arg.data, width))
      /\ CharStep(CharactersOf(data, width), CharactersOf(data \o arg.data, width))
  BY <1>1, <1>2, <1>3, <1>5, <1>6, <1>a, PutInState
<1> QED BY <1>3, <1>7 DEF Kept

\* Insert (Str.cpp:149-157).
LEMMA InsertStrStep ==
  ASSUME StrState(data, length, width, mixed), NEW arg \in Args,
         NEW pos \in 0..length, InsertStr(pos, arg)
  PROVE  Kept
<1> DEFINE cs == CharactersOf(data, width)
           at == BytePosition(data, width, pos)
           e == SubSeq(data, 1, at) \o arg.data \o SubSeq(data, at + 1, Len(data))
<1>1. /\ width \in Widths /\ Spells(cs, data, width) /\ Len(data) \in Nat
      /\ length \in Nat /\ length <= Len(data)
  BY StateSpells
<1>2. PICK ds : Spells(ds, arg.data, width)
  BY ArgSpells DEF StrState
<1>3. /\ Len(data) + Len(arg.data) <= MaxBytes
      /\ data' = e
      /\ length' = length + CalculateLength(arg.data, arg.width)
      /\ mixed' = (mixed \/ CalculateLength(arg.data, arg.width) # CalculateLength(arg.data, width))
      /\ width' = width
  BY DEF InsertStr, MixedBy
<1>4. pos \in Nat /\ pos <= Len(data)
  BY <1>1
<1> HIDE DEF cs
<1>5. PICK q \in 0..Len(cs) :
        Spells(SubSeq(cs, 1, q) \o ds \o SubSeq(cs, q + 1, Len(cs)), e, width)
  BY <1>1, <1>2, <1>4, InsertSpells
<1>6. Len(e) = Len(data) + Len(arg.data)
  <2>1. at \in 0..Len(data) /\ data \in Seq(Octet) /\ arg.data \in Seq(Octet) /\ Len(arg.data) \in Nat
    <3>1. PICK r \in 0..Len(cs) : at = Offset(cs, r)
      BY <1>1, <1>4, PlaceOf
    <3> QED BY <1>1, <1>2, <3>1, CutSpells, SpellsType
  <2> HIDE DEF at
  <2> QED BY <2>1, LenOfPutIn
<1> HIDE DEF e
<1>7. /\ StrState(e, length + CalculateLength(arg.data, arg.width), width,
                  mixed \/ CalculateLength(arg.data, arg.width) # CalculateLength(arg.data, width))
      /\ CharStep(CharactersOf(data, width), CharactersOf(e, width))
  BY <1>1, <1>2, <1>3, <1>5, <1>6, PutInState
<1> QED BY <1>3, <1>7 DEF Kept

\* TakeOut of the abstract string.
LEMMA TakeOutIs ==
  ASSUME NEW cs \in Seq(Seq(Octet)), NEW q \in 0..Len(cs), NEW r \in q..Len(cs)
  PROVE  Characters!TakeOut(cs, SubSeq(cs, 1, q) \o SubSeq(cs, r + 1, Len(cs)))
<1>1. Len(cs) \in Nat
  BY LenProperties
<1>2. PICK n \in 0..Len(cs) - q : r = q + n
  <2>1. r - q \in 0..Len(cs) - q /\ r = q + (r - q)
    BY <1>1
  <2> QED BY <2>1
<1>3. q + n + 1 = r + 1
  BY <1>2
<1> QED BY <1>2, <1>3 DEF Characters!TakeOut

\* Erase (Str.cpp:159-168).
LEMMA EraseStep ==
  ASSUME StrState(data, length, width, mixed),
         NEW pos \in 0..length, NEW len \in {NPOS} \cup 1..length - pos + 1, Erase(pos, len)
  PROVE  Kept
<1> DEFINE cs == CharactersOf(data, width)
           e == SubSeq(data, 1, BytePosition(data, width, pos))
                  \o SubSeq(data, EndPosition(data, width, pos, len) + 1, Len(data))
<1>1. /\ width \in Widths /\ Spells(cs, data, width) /\ Len(data) \in Nat
      /\ length \in Nat /\ length <= Len(data)
  BY StateSpells
<1>2. /\ data' = e
      /\ length' = CalculateLength(e, width)
      /\ mixed' = FALSE /\ width' = width
  BY DEF Erase, EndPosition
<1>3. pos \in Nat /\ pos <= Len(data) /\ len \in Nat \cup {NPOS}
  BY <1>1
<1>4. cs \in Seq(Seq(Octet)) /\ Len(cs) \in Nat
  BY <1>1, SpellsType
<1> HIDE DEF cs
<1>5. PICK q \in 0..Len(cs) : \E r \in q..Len(cs) :
        Spells(SubSeq(cs, 1, q) \o SubSeq(cs, r + 1, Len(cs)), e, width)
  BY <1>1, <1>3, EraseSpells
<1>6. PICK r \in q..Len(cs) :
        Spells(SubSeq(cs, 1, q) \o SubSeq(cs, r + 1, Len(cs)), e, width)
  BY <1>5
<1> DEFINE es == SubSeq(cs, 1, q) \o SubSeq(cs, r + 1, Len(cs))
<1>7. CharactersOf(e, width) = es
  BY <1>1, <1>6, CharactersAre
<1>8. Len(e) <= MaxBytes
  <2>1. PICK p \in 0..Len(cs) : BytePosition(data, width, pos) = Offset(cs, p)
                                /\ p = IF pos <= Len(cs) THEN pos ELSE Len(cs)
    BY <1>1, <1>3, PlaceOf
  <2>2. PICK t \in 0..Len(cs) : EndsBehind(data, width, cs, pos, len, t)
    BY <1>1, <1>3, EndOf
  <2>3. p <= t
    <3>1. CASE len # NPOS /\ pos + len <= Len(cs)
      <4>1. len \in Nat
        BY <1>3, <3>1
      <4> QED BY <1>3, <1>4, <2>1, <2>2, <3>1, <4>1 DEF EndsBehind
    <3>2. CASE ~ (len # NPOS /\ pos + len <= Len(cs))
      BY <1>3, <1>4, <2>1, <2>2, <3>2 DEF EndsBehind
    <3> QED BY <3>1, <3>2
  <2>4. data \in Seq(Octet) /\ data = FlattenSeq(cs)
    BY <1>1, SpellsType
  <2>5. Offset(cs, p) \in 0..Offset(cs, t) /\ Offset(cs, t) \in 0..Len(data)
    <3>1. p \in 0..t
      BY <1>4, <2>3
    <3> QED BY <1>4, <2>4, <3>1, MiddleFlat
  <2>6. PICK m \in Nat, n \in Nat : m = Offset(cs, p) /\ n = Offset(cs, t) /\ m <= n /\ n <= Len(data)
    BY <1>1, <2>5
  <2>7. m \in 0..Len(data) /\ n \in 0..Len(data)
    BY <1>1, <2>6
  <2>8. /\ SubSeq(data, 1, m) \in Seq(Octet) /\ Len(SubSeq(data, 1, m)) = m
        /\ SubSeq(data, n + 1, Len(data)) \in Seq(Octet)
        /\ Len(SubSeq(data, n + 1, Len(data))) = Len(data) - n
    BY <2>4, <2>7, CutInTwo
  <2>9. Len(SubSeq(data, 1, m) \o SubSeq(data, n + 1, Len(data))) = m + (Len(data) - n)
    BY <2>8, ConcatProperties
  <2>10. e = SubSeq(data, 1, m) \o SubSeq(data, n + 1, Len(data))
    BY <2>1, <2>2, <2>6 DEF EndsBehind
  <2>11. m + (Len(data) - n) <= Len(data)
    BY <1>1, <2>6
  <2>12. Len(data) <= MaxBytes /\ MaxBytes \in Nat
    BY StrAssumption DEF StrState
  <2>13. Len(e) = m + (Len(data) - n)
    BY <2>9, <2>10
  <2> HIDE DEF e
  <2> QED BY <1>1, <2>6, <2>11, <2>12, <2>13
<1> HIDE DEF e
<1>9. StrState(e, CalculateLength(e, width), width, FALSE)
  <2>1. \E arg \in Args : width = arg.width
    BY DEF StrState
  <2> QED BY <1>6, <1>8, <2>1, CountedAgain
<1>10. CharStep(cs, es)
  BY <1>4, TakeOutIs DEF CharStep
<1> QED BY <1>2, <1>7, <1>9, <1>10 DEF Kept, cs

\* Trim makes nothing longer.
LEMMA TrimShorter ==
  ASSUME NEW s \in Seq(Octet)
  PROVE  Len(Trim(s)) <= Len(s)
<1>0. Len(s) \in Nat
  BY LenProperties
<1>1. CASE s = <<>> \/ s[1] \notin Blanks
  BY <1>0, <1>1 DEF Trim
<1>2. CASE ~ (s = <<>> \/ s[1] \notin Blanks) /\ Solid(s) = {}
  <2>1. Trim(s) = <<>>
    BY <1>2 DEF Trim
  <2> QED BY <1>0, <2>1
<1>3. CASE ~ (s = <<>> \/ s[1] \notin Blanks) /\ Solid(s) # {}
  <2>1. Trim(s) = SubSeq(s, Min(Solid(s)), Min({Max(Solid(s)) + 1, Len(s)}))
    BY <1>3 DEF Trim
  <2>2. Solid(s) \in SUBSET (1..Len(s))
    BY DEF Solid
  <2>3. Min(Solid(s)) \in 1..Len(s)
    <3>1. Solid(s) \in SUBSET Nat
      BY <2>2
    <3>2. Min(Solid(s)) \in Solid(s)
      BY <1>3, <3>1, LeastIn
    <3> QED BY <2>2, <3>2
  <2>4. Max(Solid(s)) \in 1..Len(s)
    <3>1. Max(Solid(s)) \in Solid(s)
      BY <1>0, <1>3, <2>2, GreatestIn
    <3> QED BY <2>2, <3>1
  <2>5. PICK b \in 1..Len(s) : b = Min(Solid(s))
    BY <2>3
  <2>6. PICK e \in Nat : e = Min({Max(Solid(s)) + 1, Len(s)}) /\ e <= Len(s)
    <3>1. {Max(Solid(s)) + 1, Len(s)} \in SUBSET Nat /\ {Max(Solid(s)) + 1, Len(s)} # {}
      BY <1>0, <2>4
    <3>2. Min({Max(Solid(s)) + 1, Len(s)}) \in {Max(Solid(s)) + 1, Len(s)}
          /\ \A i \in {Max(Solid(s)) + 1, Len(s)} : Min({Max(Solid(s)) + 1, Len(s)}) <= i
      BY <3>1, LeastIn
    <3> QED BY <3>1, <3>2
  <2>7. Len(SubSeq(s, b, e)) = IF b <= e THEN e - b + 1 ELSE 0
    <3>1. \A i \in b..e : s[i] \in Octet
      BY <1>0, <2>6, ElementOfSeq
    <3> QED BY <1>0, <3>1, SubSeqProperties
  <2> QED BY <1>0, <2>1, <2>5, <2>6, <2>7
<1> QED BY <1>1, <1>2, <1>3

\* Trim (Str.cpp:171-189).
LEMMA TrimStrStep ==
  ASSUME StrState(data, length, width, mixed), TrimStr
  PROVE  Kept
<1> DEFINE cs == CharactersOf(data, width)
           e == Trim(data)
<1>1. /\ width \in Widths /\ Spells(cs, data, width) /\ Len(data) \in Nat
      /\ length \in Nat /\ length <= Len(data)
  BY StateSpells
<1>2. data' = e /\ width' = width
      /\ (\/ length' = CalculateLength(e, width) /\ mixed' = FALSE
          \/ e = data /\ length' = length /\ mixed' = mixed)
  BY DEF TrimStr
<1>3. CASE e = data /\ length' = length /\ mixed' = mixed
  BY <1>2, <1>3 DEF Kept, CharStep
<1>4. CASE length' = CalculateLength(e, width) /\ mixed' = FALSE
  <2> HIDE DEF cs
  <2>1. PICK first \in 1..Len(cs) + 1, last \in 0..Len(cs) :
          /\ \A i \in 1..Len(cs) : i \notin first..last => cs[i] \in BlankChar
          /\ Spells(SubSeq(cs, first, last), e, width)
    BY <1>1, TrimSpells
  <2>2. CharactersOf(e, width) = SubSeq(cs, first, last)
    BY <1>1, <2>1, CharactersAre
  <2>3. CharStep(cs, SubSeq(cs, first, last))
    <3>1. Characters!TrimEnds(cs, SubSeq(cs, first, last))
      BY <2>1 DEF Characters!TrimEnds, BlankChar
    <3> QED BY <3>1 DEF CharStep
  <2>4. Len(e) <= MaxBytes
    <3>1. Len(e) <= Len(data)
      BY <1>1, SpellsType, TrimShorter
    <3>2. Len(data) <= MaxBytes /\ MaxBytes \in Nat /\ Len(e) \in Nat
      BY <2>1, SpellsType, StrAssumption DEF StrState
    <3> QED BY <1>1, <3>1, <3>2
  <2>5. StrState(e, CalculateLength(e, width), width, FALSE)
    <3>1. \E arg \in Args : width = arg.width
      BY DEF StrState
    <3> QED BY <2>1, <2>4, <3>1, CountedAgain
  <2> QED BY <1>2, <1>4, <2>2, <2>3, <2>5 DEF Kept, cs
<1> QED BY <1>2, <1>3, <1>4

\* No step tears a character or gets the length wrong.
LEMMA StrStep ==
  ASSUME StrState(data, length, width, mixed), [StrNext]_strVars
  PROVE  Kept
<1>1. CASE \E arg \in Args : AppendStr(arg)
  BY <1>1, AppendStrStep
<1>2. CASE \E pos \in 0..length, arg \in Args : InsertStr(pos, arg)
  BY <1>2, InsertStrStep
<1>3. CASE \E pos \in 0..length : \E len \in {NPOS} \cup 1..length - pos + 1 : Erase(pos, len)
  BY <1>3, EraseStep
<1>4. CASE TrimStr
  BY <1>4, TrimStrStep
<1>5. CASE UNCHANGED strVars
  BY <1>5 DEF Kept, CharStep, strVars
<1> QED BY <1>1, <1>2, <1>3, <1>4, <1>5 DEF StrNext

\* StrInv is inductive, and every step of a state where it holds is one of the abstract string
\* or leaves the characters alone.
LEMMA StrInvStep == StrInv /\ [StrNext]_strVars => StrInv' /\ Kept
<1> SUFFICES ASSUME StrInv, [StrNext]_strVars PROVE StrInv' /\ Kept
  OBVIOUS
<1>1. StrState(data, length, width, mixed)
  BY StrInvIs, StateIs
<1>2. Kept
  BY <1>1, StrStep
<1>3. StrInvOf(data', length', width', mixed')
  BY <1>2, StateIs DEF Kept
<1> QED BY <1>2, <1>3, StrInvIs

\* For any strings and blanks, as long as strings of whole characters get into a string of
\* UTF-8: m_Length is the number of characters unless strings of another width came in since
\* it was counted, it is never more than the bytes nor, with UTF-8, less than the characters,
\* and every character of UTF-8 is whole (Str.cpp:46-62, 142-189).
THEOREM StrInvHolds == StrSpec => []StrInv
<1> QED BY StrInitStep, StrInvStep, PTL DEF StrSpec

\* So every step is one of the abstract string.
LEMMA StrImplements ==
  ASSUME StrInv, [StrNext]_strVars
  PROVE  [Characters!Next]_(CharactersOf(data, width))
<1> DEFINE now == CharactersOf(data, width)
           then == CharactersOf(data', width')
<1>1. CharStep(now, then)
  BY StrInvStep DEF Kept
<1>2. CharactersOf(data, width)' = then
  OBVIOUS
<1> HIDE DEF now, then
<1>3. CASE then = now
  BY <1>2, <1>3 DEF now
<1>4. CASE \/ Characters!PutIn(now, then) \/ Characters!TakeOut(now, then)
           \/ Characters!TrimEnds(now, then)
  BY <1>2, <1>4 DEF Characters!Next, now
<1> QED BY <1>1, <1>3, <1>4 DEF CharStep

\* Every Str is a sequence of characters, of one byte or of UTF-8: Append and Insert put whole
\* ones in at one place, also when pos counts more characters than there are, Erase takes a
\* run of whole ones out, and Trim blanks from the ends, and nothing else changes them
\* (Str.cpp:142-189).
THEOREM ImplementsCharactersHolds == StrSpec => ImplementsCharacters
<1>1. StrInit => CharactersOf(data, width) \in StrTexts
  BY StrInitStep
<1>2. StrInv /\ [StrNext]_strVars => [Characters!Next]_(CharactersOf(data, width))
  BY StrImplements
<1> QED BY <1>1, <1>2, StrInvHolds, PTL DEF StrSpec, ImplementsCharacters,
     Characters!Spec, StrTexts

\* What SubStr returns of a string of UTF-8.
LEMMA SubStrSpells ==
  ASSUME StrState(data, length, width, mixed), width = "UTF8",
         NEW pos \in 0..length, NEW len \in {NPOS} \cup 0..Len(data)
  PROVE  LET chars == CharactersOf(data, width) IN
         SubStrOf(pos, len) =
           FlattenSeq(SubSeq(chars, pos + 1,
             IF len = NPOS THEN Len(chars) ELSE Min({pos + len, Len(chars)})))
<1> DEFINE cs == CharactersOf(data, width)
           last == IF len = NPOS THEN Len(cs) ELSE Min({pos + len, Len(cs)})
<1>1. /\ width \in Widths /\ Spells(cs, data, width) /\ Len(data) \in Nat
      /\ length \in Nat /\ length >= Len(cs)
  BY StateSpells
<1>2. cs \in Seq(Seq(Octet)) /\ data = FlattenSeq(cs) /\ Len(cs) \in Nat
  BY <1>1, SpellsType
<1> HIDE DEF cs
<1>3. pos \in Nat /\ len \in Nat \cup {NPOS} /\ NPOS \notin Nat
  BY <1>1 DEF NPOS
<1>4. last = IF len # NPOS /\ pos + len <= Len(cs) THEN pos + len ELSE Len(cs)
  <2>1. CASE len = NPOS
    BY <2>1
  <2>2. CASE len # NPOS
    <3>1. len \in Nat
      BY <1>3, <2>2
    <3>2. {pos + len, Len(cs)} \in SUBSET Nat /\ {pos + len, Len(cs)} # {}
      BY <1>2, <1>3, <3>1
    <3>3. PICK m : /\ m = Min({pos + len, Len(cs)}) /\ m \in {pos + len, Len(cs)}
                   /\ m <= pos + len /\ m <= Len(cs)
      BY <3>2, LeastIn
    <3>4. m = IF pos + len <= Len(cs) THEN pos + len ELSE Len(cs)
      BY <1>2, <1>3, <3>1, <3>3
    <3> QED BY <2>2, <3>3, <3>4
  <2> QED BY <2>1, <2>2
<1>5. last \in 0..Len(cs)
  <2>1. CASE len # NPOS /\ pos + len <= Len(cs)
    <3>1. len \in Nat
      BY <1>3, <2>1
    <3> QED BY <1>2, <1>3, <1>4, <2>1, <3>1
  <2>2. CASE ~ (len # NPOS /\ pos + len <= Len(cs))
    BY <1>2, <1>4, <2>2
  <2> QED BY <2>1, <2>2
<1> HIDE DEF last
<1>6. CASE pos > Len(cs) \/ pos >= length
  <2>1. SubSeq(cs, pos + 1, last) = <<>>
    <3>1. pos + 1 \in Int /\ last \in Int /\ last < pos + 1
      BY <1>1, <1>2, <1>3, <1>5, <1>6
    <3> QED BY <3>1, SubSeqEmpty
  <2>2. SubStrOf(pos, len) = <<>>
    <3>1. CASE pos >= length
      BY <3>1 DEF SubStrOf
    <3>2. CASE ~ (pos >= length)
      <4>0. pos > Len(cs) /\ width # "ASCII"
        BY <1>6, <3>2
      <4>1. BytePosition(data, width, pos) = Len(data)
        BY <1>1, <1>3, <4>0, PositionIs
      <4>2. EndPosition(data, width, pos, len) = Len(data)
        <5>1. CASE len = NPOS
          BY <5>1 DEF EndPosition
        <5>2. CASE len # NPOS
          <6>1. len \in Nat /\ pos + len \in Nat /\ pos + len > Len(cs)
            BY <1>2, <1>3, <4>0, <5>2
          <6>2. BytePosition(data, width, pos + len) = Len(data)
            BY <1>1, <6>1, PositionIs
          <6> QED BY <5>2, <6>2 DEF EndPosition
        <5> QED BY <5>1, <5>2
      <4>3. SubStrOf(pos, len) = SubSeq(data, Len(data) + 1, Len(data))
        BY <3>2, <4>0, <4>1, <4>2 DEF SubStrOf, EndPosition
      <4>4. Len(data) + 1 \in Int /\ Len(data) \in Int /\ Len(data) < Len(data) + 1
        BY <1>1
      <4> QED BY <4>3, <4>4, SubSeqEmpty
    <3> QED BY <3>1, <3>2
  <2> QED BY <2>1, <2>2, FlattenSeqEmpty DEF cs, last
<1>7. CASE ~ (pos > Len(cs) \/ pos >= length)
  <2>0. pos <= Len(cs) /\ width # "ASCII" /\ pos \in 0..last
    <3>1. pos <= Len(cs)
      BY <1>2, <1>3, <1>7
    <3>2. pos <= last
      <4>1. CASE len # NPOS /\ pos + len <= Len(cs)
        <5>1. len \in Nat
          BY <1>3, <4>1
        <5> QED BY <1>3, <1>4, <4>1, <5>1
      <4>2. CASE ~ (len # NPOS /\ pos + len <= Len(cs))
        BY <1>4, <3>1, <4>2
      <4> QED BY <4>1, <4>2
    <3> QED BY <1>3, <1>5, <3>1, <3>2
  <2>1. BytePosition(data, width, pos) = Offset(cs, pos)
    BY <1>1, <1>3, <2>0, PositionIs
  <2>2. PICK t \in 0..Len(cs) : EndsBehind(data, width, cs, pos, len, t)
    BY <1>1, <1>3, EndOf
  <2>3. t = last /\ EndPosition(data, width, pos, len) = Offset(cs, last)
    BY <1>4, <2>2 DEF EndsBehind
  <2>4. SubStrOf(pos, len) = SubSeq(data, Offset(cs, pos) + 1, Offset(cs, last))
    BY <1>7, <2>0, <2>1, <2>3 DEF SubStrOf, EndPosition
  <2>5. SubSeq(data, Offset(cs, pos) + 1, Offset(cs, last)) = FlattenSeq(SubSeq(cs, pos + 1, last))
    BY <1>2, <1>5, <2>0, MiddleFlat
  <2> QED BY <2>4, <2>5 DEF cs, last
<1> QED BY <1>6, <1>7

\* StrInv says enough of what Chars and SubStr return.
LEMMA InvWhole == StrInv => WholeCharacters
<1> SUFFICES ASSUME StrInv, width = "UTF8"
             PROVE  LET chars == CharactersOf(data, width) IN
                    /\ FlattenSeq(Chars) = data /\ chars \in Seq(Character)
                    /\ \A pos \in 0..length, len \in {NPOS} \cup 0..Len(data) :
                         SubStrOf(pos, len) =
                           FlattenSeq(SubSeq(chars, pos + 1,
                             IF len = NPOS THEN Len(chars) ELSE Min({pos + len, Len(chars)})))
  BY DEF WholeCharacters
<1>1. StrState(data, length, width, mixed)
  BY StrInvIs, StateIs
<1>2. Spells(CharactersOf(data, width), data, width)
  BY <1>1, StateSpells
<1>3. Chars = CharactersOf(data, width)
  BY DEF Chars
<1>4. FlattenSeq(Chars) = data /\ CharactersOf(data, width) \in Seq(Character)
  BY <1>2, <1>3 DEF Spells, CharOf
<1> QED BY <1>1, <1>4, SubStrSpells

\* In a string of UTF-8 Chars returns all characters, each of them whole, and SubStr those
\* from pos on, as many as there are up to len, whatever m_Length says (Str.cpp:83-135).
THEOREM WholeCharactersHolds == StrSpec => []WholeCharacters
<1> QED BY InvWhole, StrInvHolds, PTL

===============================================================================
