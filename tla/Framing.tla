------------------------------- MODULE Framing -------------------------------
(***************************************************************************)
(* Buffer (net/Buffer.{h,cpp}) at both ends of a stream: one end appends   *)
(* messages with AppendWithSeparator, or with Append where that does       *)
(* nothing (m_Sep = 2), the other appends what it reads, in pieces the     *)
(* network chooses, and calls PickMessage until it returns false, as       *)
(* Connection::OnMessage does.  m_Sep is the same at both ends.            *)
(*                                                                         *)
(* A byte is a number below Radix (256 in the code), the header has        *)
(* HeaderLen bytes (4), and int and size_t are told apart: the length is   *)
(* cut to the width of the header, read back as a signed number, and       *)
(* compared with the size as an unsigned one.                              *)
(***************************************************************************)
EXTENDS Naturals, Integers, SequencesExt

CONSTANTS
  Radix, HeaderLen,
  Messages,         \* the messages that are sent: sequences of bytes
  ReadMax,          \* bytes that arrive together at most
  MaxSent           \* bound: messages sent

\* The lowest byte of a header can hold HeaderLen: 4 < 256.
ASSUME FramingAssumption ==
  /\ HeaderLen \in Nat \ {0} /\ Radix \in Nat /\ Radix > HeaderLen
  /\ ReadMax \in Nat \ {0} /\ MaxSent \in Nat
  /\ Messages \subseteq Seq(0..Radix - 1)

VARIABLES
  sep,              \* m_Sep
  stream,           \* appended by the one end, not yet read by the other
  buf,              \* m_Buf of the reader
  pc,               \* the reader: "read", "pick", or "thrown" by std::string
  sent, picked      \* history: messages appended, messages picked (joined if m_Sep = 0)

vars == <<sep, stream, buf, pc, sent, picked>>

\* What the bytes of a header count, the lowest first, and how many numbers there are.
Weight[k \in 0..HeaderLen] == IF k = 0 THEN 1 ELSE Radix * Weight[k - 1]

Modulus == Weight[HeaderLen]

\* int32_t
Signed(n) == IF 2 * n < Modulus THEN n ELSE n - Modulus

\* The low bytes of a size_t, the lowest first.
Header(size) == [k \in 1..HeaderLen |-> (size \div Weight[k - 1]) % Radix]

Value(header) ==
  LET value[k \in 0..HeaderLen] ==
        IF k = 0 THEN 0 ELSE value[k - 1] + header[k] * Weight[k - 1] IN
  value[HeaderLen]

Framed(message) == IF sep = 1 THEN Header(Len(message)) \o message ELSE message

Init ==
  /\ sep \in {0, 1, 2}
  /\ stream = <<>> /\ buf = <<>>
  /\ pc = "read"
  /\ sent = <<>> /\ picked = <<>>

Send(message) ==
  /\ Len(sent) < MaxSent
  /\ sent' = Append(sent, message)
  /\ stream' = stream \o Framed(message)
  /\ UNCHANGED <<sep, buf, pc, picked>>

\* With m_Sep = 2 a line is printed and nothing is appended.
AppendWithSeparator(message) ==
  \/ sep \in {0, 1} /\ Send(message)
  \/ sep = 2 /\ UNCHANGED vars

\* Append, as it is, is then the only way to fill a buffer.
AppendRaw(message) == sep = 2 /\ Send(message)

\* read returns n bytes, the next read EAGAIN.
AppendRead(n) ==
  /\ pc = "read" /\ n <= Len(stream)
  /\ buf' = buf \o SubSeq(stream, 1, n)
  /\ stream' = SubSeq(stream, n + 1, Len(stream))
  /\ pc' = "pick"
  /\ UNCHANGED <<sep, sent, picked>>

PickNothing ==
  /\ pc = "pick" /\ buf = <<>>
  /\ pc' = "read"
  /\ UNCHANGED <<sep, stream, buf, sent, picked>>

PickAll ==
  /\ pc = "pick" /\ buf # <<>> /\ sep = 0
  /\ picked' = <<FlattenSeq(picked) \o buf>>
  /\ buf' = <<>>
  /\ UNCHANGED <<sep, stream, pc, sent>>

\* Mutant: the bytes behind the buffer are all stale.
HeadersReadStale ==
  {h \in [1..HeaderLen -> 0..Radix - 1] :
     \A k \in 1..HeaderLen : k <= Len(buf) => h[k] = buf[k]}

\* memcpy takes HeaderLen bytes.  Behind the bytes of a short buffer there is the NUL
\* that ends it, and then whatever the buffer held before.
HeadersRead ==
  {h \in [1..HeaderLen -> 0..Radix - 1] :
     \A k \in 1..HeaderLen :
       /\ k <= Len(buf) => h[k] = buf[k]
       /\ k = Len(buf) + 1 => h[k] = 0}

\* len + 4, which the build may or may not wrap around.
Ends(len) == {len + HeaderLen, Signed((len + HeaderLen) % Modulus)}

\* m_Buf.size() < len + 4, where a negative int becomes a huge size_t.
Incomplete(end) == end < 0 \/ Len(buf) < end

PickIncomplete ==
  /\ pc = "pick" /\ buf # <<>> /\ sep = 1
  /\ \E h \in HeadersRead : \E end \in Ends(Signed(Value(h))) : Incomplete(end)
  /\ pc' = "read"
  /\ UNCHANGED <<sep, stream, buf, sent, picked>>

\* std::string(data, len) with a negative len: std::length_error, which nobody catches.
PickThrows ==
  /\ pc = "pick" /\ buf # <<>> /\ sep = 1
  /\ \E h \in HeadersRead : LET len == Signed(Value(h)) IN
       len < 0 /\ \E end \in Ends(len) : ~Incomplete(end)
  /\ pc' = "thrown"
  /\ UNCHANGED <<sep, stream, buf, sent, picked>>

\* Mutant: the header is left in the buffer's count.
PickFramedNoHeader ==
  /\ pc = "pick" /\ buf # <<>> /\ sep = 1
  /\ \E h \in HeadersRead : LET len == Signed(Value(h)) IN
       /\ len >= 0 /\ \E end \in Ends(len) : ~Incomplete(end)
       /\ picked' = Append(picked, SubSeq(buf, HeaderLen + 1, HeaderLen + len))
       /\ buf' = SubSeq(buf, len + 1, Len(buf))
  /\ UNCHANGED <<sep, stream, pc, sent>>

\* Mutant: the first message is the only one that is looked for.
PickFramedOnce ==
  /\ pc = "pick" /\ buf # <<>> /\ sep = 1
  /\ \E h \in HeadersRead : LET len == Signed(Value(h)) IN
       /\ len >= 0 /\ \E end \in Ends(len) : ~Incomplete(end)
       /\ picked' = Append(picked, SubSeq(buf, HeaderLen + 1, HeaderLen + len))
       /\ buf' = SubSeq(buf, HeaderLen + len + 1, Len(buf))
  /\ pc' = "read"
  /\ UNCHANGED <<sep, stream, sent>>

PickFramed ==
  /\ pc = "pick" /\ buf # <<>> /\ sep = 1
  /\ \E h \in HeadersRead : LET len == Signed(Value(h)) IN
       /\ len >= 0 /\ \E end \in Ends(len) : ~Incomplete(end)
       /\ picked' = Append(picked, SubSeq(buf, HeaderLen + 1, HeaderLen + len))
       /\ buf' = SubSeq(buf, HeaderLen + len + 1, Len(buf))
  /\ UNCHANGED <<sep, stream, pc, sent>>

\* With m_Sep = 2 PickMessage returns true and takes nothing: the caller goes on.
PickSameAgain == pc = "pick" /\ buf # <<>> /\ sep = 2 /\ UNCHANGED vars

Pick ==
  \/ PickNothing \/ PickAll
  \/ PickIncomplete \/ PickThrows \/ PickFramed
  \/ PickSameAgain

Read == \E n \in 1..ReadMax : AppendRead(n)

Next ==
  \/ \E m \in Messages : AppendWithSeparator(m) \/ AppendRaw(m)
  \/ Read \/ Pick

SafetySpec == Init /\ [][Next]_vars

\* What was sent arrives, and the reader runs.
Spec == SafetySpec /\ WF_vars(Read) /\ WF_vars(Pick)

-----------------------------------------------------------------------------
(* Properties                                                              *)

\* The end of the message in the buffer is an int.
Fitting == \A i \in 1..Len(sent) : 2 * (Len(sent[i]) + HeaderLen) < Modulus

TypeOK ==
  /\ sep \in {0, 1, 2}
  /\ stream \in Seq(0..Radix - 1) /\ buf \in Seq(0..Radix - 1)
  /\ pc \in {"read", "pick", "thrown"}
  /\ sent \in Seq(Messages) /\ Len(sent) <= MaxSent
  /\ picked \in Seq(Seq(0..Radix - 1))

\* Whatever pieces the stream arrives in, the messages picked are those sent, whole and
\* in their order, as long as their lengths fit (Buffer.cpp:20-27, 58-68).
PickedAsSent == sep = 1 /\ Fitting => IsPrefix(picked, sent)

Bytes(messages) == FlattenSeq([i \in 1..Len(messages) |-> Framed(messages[i])])

\* No byte is lost, doubled or moved: what was picked, what is in the buffer and what is
\* under way are what was sent.  Without a separator this is all there is: messages are
\* joined and cut as the network likes (Buffer.cpp:20-32, 53-70).
BytesAsSent ==
  (sep = 1 => Fitting) => Bytes(picked) \o buf \o stream = Bytes(sent)

\* A message that fits is never what makes PickMessage throw (Buffer.cpp:60-65).
FittingNeverThrows == sep = 1 /\ Fitting => pc # "thrown"

\* The types, and the stream with and without separators as stated above.
FramingInv == TypeOK /\ PickedAsSent /\ BytesAsSent /\ FittingNeverThrows

\* A header of which only a part has arrived is waited for, although four bytes are
\* read: the NUL behind the buffer keeps the length from being taken for one of the
\* few negative ones that pass the comparison (Buffer.cpp:60-63).
PartOfHeaderWaits ==
  [][sep = 1 /\ pc = "pick" /\ Len(buf) < HeaderLen
       => picked' = picked /\ pc' # "thrown"]_vars

\* Every message sent is picked in the end: with headers as a message of its own, unless
\* a length does not fit, without separators as a part of some message.  In particular the
\* loop over the messages ends then (Buffer.cpp:50-71, Connection.cpp:68-82).
EveryMessagePicked ==
  \A n \in 1..MaxSent :
    /\ sep = 1 /\ Len(sent) >= n ~> Len(picked) >= n \/ ~Fitting
    /\ sep = 0 /\ Len(sent) >= n ~>
         /\ Len(sent) >= n
         /\ Len(FlattenSeq(picked)) >= Len(FlattenSeq(SubSeq(sent, 1, n)))
==============================================================================
