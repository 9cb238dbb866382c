-------------------------- MODULE ConnectionIOProofs -------------------------
(***************************************************************************)
(* Proofs about ConnectionIO for any workers, any length of a reply, any   *)
(* size of the send buffer and of a read, and any number of bytes: IOInv   *)
(* is inductive, hence no byte and no edge is lost, one worker or none     *)
(* keeps the replies in order, a connection ends the process in known      *)
(* ways, and a Connection is the stream that ReplyStream describes.        *)
(***************************************************************************)
EXTENDS ConnectionIO, QueueLemmas

-----------------------------------------------------------------------------
(* The replies.                                                            *)

\* A reply to a message is a sequence of units, and not empty.
LEMMA ReplyType ==
  ASSUME NEW m \in Messages
  PROVE  Reply(m) \in AllReplies /\ Reply(m) \in Seq(Units) /\ Reply(m) # <<>>
<1>1. Last(m) \in 1..MaxBytes
  <2>1. m \in Seq(1..MaxBytes) /\ m # <<>>
    BY DEF Messages, Bytes
  <2>2. Len(m) \in 1..Len(m)
    BY <2>1, EmptySeq
  <2> QED BY <2>1, <2>2, ElementOfSeq DEF Last
<1>2. Last(<<Last(m)>>) = Last(m)
  BY DEF Last
<1>3. Reply(m) = Reply(<<Last(m)>>)
  BY <1>2 DEF Reply
<1>4. Reply(m) \in [1..ReplyLen -> Units]
  BY <1>1 DEF Reply, Units
<1>5. ReplyLen \in Nat \ {0}
  BY IOAssumption
<1>6. Len(Reply(m)) = ReplyLen
  BY <1>5 DEF Reply
<1> QED BY <1>1, <1>3, <1>4, <1>5, <1>6 DEF AllReplies

\* So are all replies.
LEMMA AllRepliesAreUnits == AllReplies \subseteq Seq(Units)
<1> SUFFICES ASSUME NEW b \in 1..MaxBytes
             PROVE  Reply(<<b>>) \in Seq(Units)
  BY DEF AllReplies
<1>1. <<b>> \in Messages
  BY DEF Messages, Bytes
<1> QED BY <1>1, ReplyType

\* The replies to a sequence of messages, ...
LEMMA RepliesToType ==
  ASSUME NEW ms \in Seq(Messages)
  PROVE  /\ [i \in 1..Len(ms) |-> Reply(ms[i])] \in Seq(Seq(Units))
         /\ RepliesTo(ms) \in Seq(Units)
<1>1. \A i \in 1..Len(ms) : Reply(ms[i]) \in Seq(Units)
  BY ElementOfSeq, ReplyType
<1>2. [i \in 1..Len(ms) |-> Reply(ms[i])] \in Seq(Seq(Units))
  BY <1>1, LenProperties
<1> QED BY <1>2, FlattenSeqType DEF RepliesTo

\* ... to none, ...
LEMMA RepliesToEmpty == RepliesTo(<<>>) = <<>>
<1>1. [i \in 1..Len(<<>>) |-> Reply(<<>>[i])] = <<>>
  BY EmptySeq
<1> QED BY <1>1, FlattenSeqEmpty DEF RepliesTo

\* ... to one more, ...
LEMMA RepliesToAppend ==
  ASSUME NEW ms \in Seq(Messages), NEW m \in Messages
  PROVE  RepliesTo(Append(ms, m)) = RepliesTo(ms) \o Reply(m)
<1> DEFINE r == [i \in 1..Len(ms) |-> Reply(ms[i])]
           q == [i \in 1..Len(Append(ms, m)) |-> Reply(Append(ms, m)[i])]
<1>1. r \in Seq(Seq(Units)) /\ Reply(m) \in Seq(Units)
  BY RepliesToType, ReplyType
<1>2. /\ Len(ms) \in Nat
      /\ Len(Append(ms, m)) = Len(ms) + 1
      /\ \A i \in 1..Len(ms) : Append(ms, m)[i] = ms[i]
      /\ Append(ms, m)[Len(ms) + 1] = m
  BY AppendProperties, LenProperties
<1>3. /\ Len(r) = Len(ms)
      /\ Append(r, Reply(m)) = [i \in 1..(Len(r) + 1) |->
                                  IF i = Len(r) + 1 THEN Reply(m) ELSE r[i]]
  BY <1>1, <1>2
<1>4. q = Append(r, Reply(m))
  BY <1>2, <1>3
<1> QED BY <1>1, <1>4, FlattenSeqAppend DEF RepliesTo

\* ... and without the first.
LEMMA RepliesToHead ==
  ASSUME NEW ms \in Seq(Messages), ms # <<>>
  PROVE  RepliesTo(ms) = Reply(Head(ms)) \o RepliesTo(Tail(ms))
<1> DEFINE r == [i \in 1..Len(ms) |-> Reply(ms[i])]
           q == [i \in 1..Len(Tail(ms)) |-> Reply(Tail(ms)[i])]
<1>1. r \in Seq(Seq(Units))
  BY RepliesToType
<1>2. /\ Len(ms) \in Nat \ {0}
      /\ Len(Tail(ms)) = Len(ms) - 1
      /\ \A i \in 1..Len(Tail(ms)) : Tail(ms)[i] = ms[i + 1]
      /\ Head(ms) = ms[1]
  BY HeadTailProperties, EmptySeq
<1>3. r # <<>> /\ Len(r) = Len(ms) /\ Head(r) = Reply(Head(ms))
  BY <1>1, <1>2
<1>4. Tail(r) = q
  BY <1>1, <1>2, <1>3
<1> QED BY <1>1, <1>3, <1>4, FlattenSeqHead DEF RepliesTo

-----------------------------------------------------------------------------
\* The main thread takes one step of SetCallbacks and changes nothing else.
LEMMA MainStep ==
  ASSUME Main
  PROVE  /\ mainPc' \in {"setMessage", "setSendComplete", "done"}
         /\ UNCHANGED <<socketVars, epollVars, inputBuffer, outputBuffer, disconnect,
                        loopVars, pool, workQueue, workerVars, loopQueue, history>>
<1>1. CASE SetCloseCallback
  BY SMT, <1>1 DEF SetCloseCallback, SetCallback
<1>2. CASE SetMessageCallback
  BY SMT, <1>2 DEF SetMessageCallback, SetCallback
<1>3. CASE SetSendCompleteCallback
  BY SMT, <1>3 DEF SetSendCompleteCallback, SetCallback
<1> QED BY <1>1, <1>2, <1>3 DEF Main

\* Every step keeps the types, for which the loop has to have a report while it handles one,
\* and a worker a message while it carries one.
LEMMA NextTypeOK ==
  ASSUME TypeOK, ReportsServed, CarriedByPool, [Next]_vars
  PROVE  TypeOK'
<1> USE IOAssumption DEF TypeOK, Bytes, Messages, socketVars, epollVars, connVars,
     loopVars, workerVars, history
<1>1. ASSUME Arrive PROVE TypeOK'
  BY <1>1 DEF Arrive
<1>2. ASSUME Fin PROVE TypeOK'
  BY <1>2 DEF Fin
<1>3. ASSUME Reset PROVE TypeOK'
  BY <1>3 DEF Reset
<1>4. ASSUME ClientReceive PROVE TypeOK'
  <2>1. ready' \in BOOLEAN /\ nospace' \in BOOLEAN
    BY Zenon, <1>4 DEF ClientReceive
  <2>2. sockOut # <<>> /\ received' = Append(received, Head(sockOut)) /\ sockOut' = Tail(sockOut)
    BY <1>4 DEF ClientReceive
  <2>3. received' \in Seq(Units)
    BY <2>2, HeadTailProperties, AppendProperties
  <2>4. sockOut' \in Seq(Units) /\ Len(sockOut') <= SendCap
    BY <2>2, HeadTailProperties, LenProperties
  <2> QED BY <1>4, <2>1, <2>3, <2>4 DEF ClientReceive
<1>5. ASSUME Main PROVE TypeOK'
  <2>1. mainPc' \in {"setMessage", "setSendComplete", "done"}
    BY ONLY <1>5, MainStep
  <2>2. UNCHANGED <<sockIn, sockOut, fin, rst, error, nospace, interest, ready, inputBuffer,
                    outputBuffer, disconnect, loopPc, batch, revents, pool, workQueue,
                    workerPc, workerMsg, loopQueue, arrived, picked, handled, received>>
    BY ONLY <1>5, MainStep DEF socketVars, epollVars, loopVars, workerVars, history
  <2> QED BY <2>1, <2>2
<1>6. ASSUME EpollFails PROVE TypeOK'
  BY <1>6 DEF EpollFails
<1>7. ASSUME EpollWait PROVE TypeOK'
  BY <1>7 DEF EpollWait, Readiness
<1>8. ASSUME DispatchDone PROVE TypeOK'
  BY <1>8 DEF DispatchDone
<1>9. ASSUME HandleEvent PROVE TypeOK'
  BY <1>9 DEF HandleEvent
<1>10. ASSUME ReadBytes PROVE TypeOK'
  <2> DEFINE n == Least(ReadMax, Len(sockIn))
  <2>1. n \in 1..Len(sockIn)
    BY <1>10, EmptySeq, LenProperties DEF ReadBytes, Least
  <2>2. /\ inputBuffer' = inputBuffer \o SubSeq(sockIn, 1, n)
        /\ sockIn' = SubSeq(sockIn, n + 1, Len(sockIn))
    BY <1>10 DEF ReadBytes
  <2> HIDE DEF n
  <2>3. inputBuffer' \in Seq(1..MaxBytes) /\ sockIn' \in Seq(1..MaxBytes)
    <3>1. n \in 0..Len(sockIn) /\ sockIn \in Seq(1..MaxBytes)
      BY <2>1
    <3>2. SubSeq(sockIn, 1, n) \in Seq(1..MaxBytes)
          /\ SubSeq(sockIn, n + 1, Len(sockIn)) \in Seq(1..MaxBytes)
      BY <3>1, CutInTwo
    <3> QED BY <2>2, <3>2, ConcatProperties
  <2> QED BY <1>10, <2>3 DEF ReadBytes
<1>11. ASSUME ReadError PROVE TypeOK'
  BY <1>11 DEF ReadError
<1>12. ASSUME ReadEnd PROVE TypeOK'
  BY <1>12 DEF ReadEnd
<1>13. ASSUME ReadAgain PROVE TypeOK'
  BY <1>13 DEF ReadAgain
<1>14. ASSUME PickNothing PROVE TypeOK'
  BY <1>14 DEF PickNothing
<1>15. ASSUME IgnoreMessage PROVE TypeOK'
  BY <1>15 DEF IgnoreMessage, Picked
<1>16. ASSUME CallTornCallback PROVE TypeOK'
  <2>1. picked' \in Seq(Messages) /\ inputBuffer' \in Bytes
    BY <1>16, AppendProperties DEF CallTornCallback, Picked
  <2> QED BY <1>16, <2>1 DEF CallTornCallback, Picked
<1>17. ASSUME HandleMessage PROVE TypeOK'
  <2>1. picked' \in Seq(Messages) /\ handled' \in Seq(Messages) /\ inputBuffer' \in Bytes
    BY <1>17, AppendProperties DEF HandleMessage, Picked
  <2>2. CASE pool = {} /\ AppendAndEnable(Reply(inputBuffer)) /\ UNCHANGED workQueue
    <3>1. outputBuffer' \in Seq(Units)
      BY <1>17, <2>2, ReplyType, ConcatProperties DEF AppendAndEnable,
           HandleMessage, Picked
    <3>2. ready' \in BOOLEAN /\ nospace' \in BOOLEAN /\ interest' = {"IN", "OUT"}
      BY <2>2 DEF AppendAndEnable, UpdateChannel
    <3>3. ~ disconnect
      BY <1>17 DEF HandleMessage, Picked, ReportsServed
    <3> QED BY <1>17, <2>1, <2>2, <3>1, <3>2, <3>3 DEF HandleMessage
  <2>3. CASE /\ pool # {}
             /\ workQueue' = Append(workQueue, inputBuffer)
             /\ UNCHANGED <<outputBuffer, epollVars, nospace>>
    <3>1. workQueue' \in Seq(Messages)
      BY <1>17, <2>3, AppendProperties DEF HandleMessage, Picked
    <3> QED BY <1>17, <2>1, <2>3, <3>1 DEF HandleMessage
  <2> QED BY Zenon, <1>17, <2>2, <2>3 DEF HandleMessage
<1>18. ASSUME SendBytes PROVE TypeOK'
  <2> DEFINE n == Least(Len(outputBuffer), SendCap - Len(sockOut))
             rest == SubSeq(outputBuffer, n + 1, Len(outputBuffer))
             sent == SubSeq(outputBuffer, 1, n)
             out == sockOut \o sent
  <2>1. n \in 0..Len(outputBuffer) /\ n <= SendCap - Len(sockOut)
    BY LenProperties DEF Least
  <2>2. rest \in Seq(Units) /\ sent \in Seq(Units) /\ Len(sent) = n
    BY <2>1, CutInTwo
  <2>3. out \in Seq(Units) /\ Len(out) <= SendCap
    BY <2>1, <2>2, ConcatProperties, LenProperties
  <2>4. outputBuffer' \in Seq(Units) /\ sockOut' \in Seq(Units) /\ Len(sockOut') <= SendCap
    BY <1>18, <2>2, <2>3 DEF SendBytes
  <2>5. ~ disconnect /\ UNCHANGED disconnect
    BY <1>18 DEF SendBytes, ReportsServed
  <2> HIDE DEF rest, out
  <2>6. IF rest = <<>> THEN UpdateChannel({"IN"}, out)
                       ELSE nospace' = TRUE /\ UNCHANGED epollVars
    BY <1>18 DEF SendBytes, rest, out
  <2>7. /\ ready' \in BOOLEAN /\ nospace' \in BOOLEAN
        /\ interest' \in {{"IN"}, {"IN", "OUT"}}
    BY <2>5, <2>6 DEF UpdateChannel
  <2>8. loopPc' \in {"dispatch", "crash"}
    BY <1>18 DEF SendBytes
  <2>9. UNCHANGED <<sockIn, fin, rst, error, mainPc, inputBuffer, batch, revents, pool,
                    workQueue, workerVars, loopQueue, history>>
    BY <1>18 DEF SendBytes
  <2> QED BY <2>4, <2>5, <2>7, <2>8, <2>9
<1>19. ASSUME SendError PROVE TypeOK'
  BY <1>19 DEF SendError
<1>20. ASSUME SendKilled PROVE TypeOK'
  BY <1>20 DEF SendKilled
<1>21. ASSUME HandleWakeUp PROVE TypeOK'
  BY <1>21 DEF HandleWakeUp
<1>22. ASSUME SendInLoop PROVE TypeOK'
  <2>1. /\ loopQueue' \in Seq(AllReplies) /\ Head(loopQueue) \in Seq(Units)
    BY <1>22, HeadTailProperties, AllRepliesAreUnits DEF SendInLoop
  <2>2. outputBuffer' \in Seq(Units)
    <3>1. outputBuffer' = outputBuffer \o Head(loopQueue)
      BY <1>22 DEF SendInLoop, AppendAndEnable
    <3> QED BY <2>1, <3>1, ConcatProperties
  <2>3. CASE ~ disconnect
    <3>1. AppendAndEnable(Head(loopQueue)) /\ UNCHANGED loopPc
      BY <1>22, <2>3 DEF SendInLoop
    <3>2. ready' \in BOOLEAN /\ nospace' \in BOOLEAN /\ interest' = {"IN", "OUT"}
      BY <3>1 DEF AppendAndEnable, UpdateChannel
    <3> QED BY <1>22, <2>1, <2>2, <2>3, <3>1, <3>2 DEF SendInLoop
  <2>4. CASE disconnect
    BY <1>22, <2>1, <2>2, <2>4 DEF SendInLoop
  <2> QED BY <2>3, <2>4
<1>23. ASSUME DrainDone PROVE TypeOK'
  BY <1>23 DEF DrainDone
<1>24. ASSUME NEW w \in pool, TakeMessage(w) PROVE TypeOK'
  <2>1. /\ workQueue' \in Seq(Messages) /\ Head(workQueue) \in Messages
    BY <1>24, HeadTailProperties DEF TakeMessage
  <2>2. workerMsg' \in [Workers -> Bytes] /\ workerPc' \in [Workers -> {"idle", "send", "queue"}]
    BY <1>24, <2>1 DEF TakeMessage
  <2> QED BY <1>24, <2>1, <2>2 DEF TakeMessage
<1>25. ASSUME NEW w \in pool, TestDisconnect(w) PROVE TypeOK'
  BY <1>25 DEF TestDisconnect
<1>26. ASSUME NEW w \in pool, QueueReply(w) PROVE TypeOK'
  <2>1. Reply(workerMsg[w]) \in AllReplies
    BY <1>26, ReplyType DEF CarriedByPool, QueueReply
  <2>2. loopQueue' \in Seq(AllReplies)
    BY <1>26, <2>1, AppendProperties DEF QueueReply
  <2> QED BY <1>26, <2>2 DEF QueueReply
<1>27. ASSUME UNCHANGED vars PROVE TypeOK'
  BY <1>27 DEF vars
<1> QED BY <1>1, <1>2, <1>3, <1>4, <1>5, <1>6, <1>7, <1>8, <1>9, <1>10, <1>11, <1>12,
     <1>13, <1>14, <1>15, <1>16, <1>17, <1>18, <1>19, <1>20, <1>21, <1>22, <1>23,
     <1>24, <1>25, <1>26, <1>27 DEF Next, Client, Main, Loop, Worker

-----------------------------------------------------------------------------
(* The stream of the client.                                               *)

\* A byte of the client moves in three kinds of steps.
LEMMA StreamSteps ==
  ASSUME [Next]_vars
  PROVE  \/ Arrive \/ ReadBytes
         \/ Picked /\ UNCHANGED <<sockIn, arrived>>
         \/ UNCHANGED <<sockIn, inputBuffer, picked, arrived>>
BY DEF Next, Client, Main, Loop, Worker, vars, socketVars, epollVars, connVars,
     loopVars, workerVars, history, Arrive, Fin, Reset, ClientReceive,
     SetCloseCallback,
     SetMessageCallback, SetSendCompleteCallback, SetCallback, EpollWait, EpollFails, DispatchDone, HandleEvent,
     ReadBytes, ReadError, ReadEnd, ReadAgain, PickNothing, IgnoreMessage,
     CallTornCallback, HandleMessage, SendBytes, SendError, SendKilled, HandleWakeUp,
     SendInLoop, DrainDone, TakeMessage, TestDisconnect, QueueReply, AppendAndEnable,
     UpdateChannel

\* No step loses, doubles or moves a byte of the client.
LEMMA NextInputStreamKept ==
  ASSUME TypeOK, InputStreamKept, [Next]_vars
  PROVE  InputStreamKept'
<1> DEFINE B == 1..MaxBytes
           p == FlattenSeq(picked)
<1>1. /\ picked \in Seq(Seq(B)) /\ p \in Seq(B)
      /\ sockIn \in Seq(B) /\ inputBuffer \in Seq(B) /\ arrived \in Nat
  <2>1. Messages \subseteq Seq(B)
    BY DEF Messages, Bytes
  <2>2. picked \in Seq(Seq(B))
    BY <2>1, SeqMonotonic DEF TypeOK
  <2> QED BY <2>2, FlattenSeqType DEF TypeOK, Bytes
<1>2. p \o inputBuffer \in Seq(B)
  BY <1>1, ConcatProperties
<1>3. (p \o inputBuffer) \o sockIn = [i \in 1..arrived |-> i]
  BY DEF InputStreamKept
<1>4. CASE Arrive
  <2>1. /\ arrived' = arrived + 1 /\ arrived' \in B
        /\ sockIn' = Append(sockIn, arrived')
        /\ UNCHANGED <<picked, inputBuffer>>
    BY <1>1, <1>4, IOAssumption DEF Arrive, connVars
  <2>2. (p \o inputBuffer) \o sockIn' = Append((p \o inputBuffer) \o sockIn, arrived')
    BY <1>1, <1>2, <2>1
  <2>3. Append([i \in 1..arrived |-> i], arrived + 1) = [i \in 1..arrived + 1 |-> i]
    BY <1>1
  <2> QED BY <1>3, <2>1, <2>2, <2>3 DEF InputStreamKept
<1>5. CASE ReadBytes
  <2> DEFINE n == Least(ReadMax, Len(sockIn))
             head == SubSeq(sockIn, 1, n)
             tail == SubSeq(sockIn, n + 1, Len(sockIn))
  <2>1. n \in 0..Len(sockIn)
    BY <1>1, <1>5, LenProperties, IOAssumption DEF ReadBytes, Least
  <2>2. inputBuffer' = inputBuffer \o head /\ sockIn' = tail /\ UNCHANGED <<picked, arrived>>
    BY <1>5 DEF ReadBytes, history
  <2> HIDE DEF n
  <2>3. head \in Seq(B) /\ tail \in Seq(B) /\ head \o tail = sockIn
    BY <1>1, <2>1, CutInTwo
  <2> HIDE DEF head, tail
  <2> HIDE DEF p, B
  <2>4. (p \o (inputBuffer \o head)) \o tail = (p \o inputBuffer) \o (head \o tail)
    <3>1. p \in Seq(B) /\ inputBuffer \in Seq(B) /\ head \in Seq(B) /\ tail \in Seq(B)
      BY <1>1, <2>3
    <3> QED BY ONLY <3>1
  <2> QED BY <1>3, <2>2, <2>3, <2>4 DEF InputStreamKept, p
<1>6. CASE Picked /\ UNCHANGED <<sockIn, arrived>>
  <2>1. picked' = Append(picked, inputBuffer) /\ inputBuffer' = <<>>
    BY <1>6 DEF Picked
  <2>2. FlattenSeq(picked') = p \o inputBuffer
    BY <1>1, <2>1, FlattenSeqAppend
  <2>3. FlattenSeq(picked') \o inputBuffer' = p \o inputBuffer
    BY <1>2, <2>1, <2>2, ConcatEmptySeq
  <2> QED BY <1>3, <1>6, <2>3 DEF InputStreamKept
<1>7. CASE UNCHANGED <<sockIn, inputBuffer, picked, arrived>>
  BY <1>3, <1>7 DEF InputStreamKept
<1> QED BY <1>4, <1>5, <1>6, <1>7, StreamSteps

-----------------------------------------------------------------------------
(* The edges and the ends of the process.                                  *)

\* The parts of IOInv that are about control, not about what is in the queues.
ControlInv ==
  /\ ReportsServed /\ CarriedByPool
  /\ ReadEdgeKept /\ WriteEdgeKept /\ RepliesWereAsked
  /\ ResetSeen /\ ResetAloneKillsNot /\ OnlyQueuedRepliesExit

\* They are inductive together.
LEMMA NextControlInv ==
  ASSUME TypeOK, ControlInv, [Next]_vars
  PROVE  ControlInv'
<1> USE IOAssumption DEF TypeOK, Bytes, Messages, ControlInv, ReportsServed,
     CarriedByPool, ReadEdgeKept, WriteEdgeKept,
      RepliesWereAsked, ResetSeen, ResetAloneKillsNot,
      OnlyQueuedRepliesExit, ReplyUnderWay, Writable, Readiness, Running,
      socketVars, epollVars, connVars, loopVars, workerVars, history
<1>1. ASSUME Arrive PROVE ControlInv'
  <2>1. sockIn' # <<>>
    <3>1. sockIn' = Append(sockIn, arrived') /\ arrived' \in 1..MaxBytes
      BY <1>1 DEF Arrive
    <3>2. sockIn \in Seq(1..MaxBytes)
      OBVIOUS
    <3> QED BY ONLY <3>1, <3>2, AppendProperties
  <2>2. ready' = ~disconnect
    BY <1>1 DEF Arrive
  <2> QED BY <1>1, <2>1, <2>2 DEF Arrive
<1>2. ASSUME Fin PROVE ControlInv'
  BY <1>2 DEF Fin
<1>3. ASSUME Reset PROVE ControlInv'
  BY <1>3 DEF Reset
<1>4. ASSUME ClientReceive PROVE ControlInv'
  BY <1>4 DEF ClientReceive
<1>5. ASSUME Main PROVE ControlInv'
  <2>1. mainPc' \in {"setMessage", "setSendComplete", "done"}
    BY ONLY <1>5, MainStep
  <2>2. UNCHANGED <<sockIn, sockOut, fin, rst, error, nospace, interest, ready, inputBuffer,
                    outputBuffer, disconnect, loopPc, batch, revents, pool, workQueue,
                    workerPc, workerMsg, loopQueue, arrived, picked, handled, received>>
    BY ONLY <1>5, MainStep DEF socketVars, epollVars, loopVars, workerVars, history
  <2> QED BY <2>1, <2>2
<1>6. ASSUME EpollFails PROVE ControlInv'
  BY <1>6 DEF EpollFails
<1>7. ASSUME EpollWait PROVE ControlInv'
  BY <1>7 DEF EpollWait
<1>8. ASSUME DispatchDone PROVE ControlInv'
  BY <1>8 DEF DispatchDone
<1>9. ASSUME HandleEvent PROVE ControlInv'
  BY <1>9 DEF HandleEvent
<1>10. ASSUME ReadBytes PROVE ControlInv'
  <2> DEFINE n == Least(ReadMax, Len(sockIn))
  <2>1. n \in 1..Len(sockIn)
    <3>1. sockIn \in Seq(1..MaxBytes) /\ sockIn # <<>> /\ ReadMax \in Nat \ {0}
      BY <1>10 DEF ReadBytes
    <3>2. Len(sockIn) \in Nat /\ Len(sockIn) # 0
      BY ONLY <3>1, EmptySeq, LenProperties
    <3> QED BY ONLY <3>1, <3>2 DEF Least
  <2> HIDE DEF n
  <2>2. SubSeq(sockIn, 1, n) \in Seq(1..MaxBytes) /\ SubSeq(sockIn, 1, n) # <<>>
    <3>1. n \in 0..Len(sockIn) /\ n # 0 /\ sockIn \in Seq(1..MaxBytes)
      BY <2>1
    <3>2. SubSeq(sockIn, 1, n) \in Seq(1..MaxBytes) /\ Len(SubSeq(sockIn, 1, n)) = n
      BY <3>1, CutInTwo
    <3> QED BY <3>1, <3>2, EmptySeq
  <2>3. inputBuffer' = inputBuffer \o SubSeq(sockIn, 1, n)
    BY <1>10 DEF ReadBytes, n
  <2>4. inputBuffer' # <<>>
    BY <2>2, <2>3, ConcatEqualIffEmpty
  <2>5. UNCHANGED <<sockOut, fin, rst, error, nospace, epollVars, outputBuffer, disconnect,
                    loopVars, pool, workQueue, workerVars, loopQueue, handled>>
        /\ loopPc = "read"
    BY <1>10 DEF ReadBytes
  <2> QED BY <2>4, <2>5
<1>11. ASSUME ReadError PROVE ControlInv'
  BY <1>11 DEF ReadError
<1>12. ASSUME ReadEnd PROVE ControlInv'
  BY <1>12 DEF ReadEnd
<1>13. ASSUME ReadAgain PROVE ControlInv'
  BY <1>13 DEF ReadAgain
<1>14. ASSUME PickNothing PROVE ControlInv'
  BY <1>14 DEF PickNothing
<1>15. ASSUME IgnoreMessage PROVE ControlInv'
  BY <1>15 DEF IgnoreMessage, Picked
<1>16. ASSUME CallTornCallback PROVE ControlInv'
  BY <1>16 DEF CallTornCallback, Picked
<1>17. ASSUME HandleMessage PROVE ControlInv'
  <2>1. /\ loopPc = "pick" /\ ~ disconnect
        /\ inputBuffer # <<>>
        /\ UNCHANGED <<sockIn, sockOut, fin, rst, error, disconnect, loopVars, pool,
                       workerVars, loopQueue>>
    BY <1>17 DEF HandleMessage, Picked
  <2>2. handled' # <<>>
    <3>1. /\ handled' = Append(handled, inputBuffer)
          /\ handled \in Seq(Messages) /\ inputBuffer \in Messages
      BY <1>17 DEF HandleMessage, Picked
    <3> QED BY ONLY <3>1, AppendProperties
  <2>3. CASE pool = {} /\ AppendAndEnable(Reply(inputBuffer)) /\ UNCHANGED workQueue
    BY <2>1, <2>2, <2>3 DEF AppendAndEnable, UpdateChannel
  <2>4. CASE /\ pool # {}
             /\ workQueue' = Append(workQueue, inputBuffer)
             /\ UNCHANGED <<outputBuffer, epollVars, nospace>>
    <3>1. workQueue' # <<>>
      <4>1. workQueue \in Seq(Messages) /\ inputBuffer \in Messages
        BY <2>1
      <4> QED BY ONLY <2>4, <4>1, AppendProperties
    <3> QED BY <2>1, <2>2, <2>4, <3>1
  <2> QED BY Zenon, <1>17, <2>3, <2>4 DEF HandleMessage
<1>18. ASSUME SendBytes PROVE ControlInv'
  <2> DEFINE n == Least(Len(outputBuffer), SendCap - Len(sockOut))
             rest == SubSeq(outputBuffer, n + 1, Len(outputBuffer))
             sent == SubSeq(outputBuffer, 1, n)
             out == sockOut \o sent
  <2>1. /\ loopPc = "write" /\ loopPc' \in {"dispatch", "crash"} /\ ~ rst
        /\ outputBuffer' = rest /\ sockOut' = out
        /\ IF rest = <<>> THEN UpdateChannel({"IN"}, out)
                          ELSE nospace' = TRUE /\ UNCHANGED epollVars
        /\ UNCHANGED <<sockIn, fin, rst, error, disconnect, batch, revents, pool,
                       workQueue, workerVars, loopQueue, handled>>
    BY <1>18 DEF SendBytes
  <2>2. /\ n \in 0..Len(outputBuffer) /\ n <= SendCap - Len(sockOut)
        /\ n = Len(outputBuffer) \/ n = SendCap - Len(sockOut)
    <3>1. Len(outputBuffer) \in Nat /\ Len(sockOut) \in Nat /\ Len(sockOut) <= SendCap /\ SendCap \in Nat
      BY LenProperties
    <3> QED BY ONLY <3>1 DEF Least
  <2> HIDE DEF n
  <2>3. /\ rest \in Seq(Units) /\ Len(rest) = Len(outputBuffer) - n
        /\ sent \in Seq(Units) /\ Len(sent) = n
    <3>1. n \in 0..Len(outputBuffer) /\ outputBuffer \in Seq(Units)
      BY <2>2
    <3> QED BY ONLY <3>1, CutInTwo
  <2>4. rest # <<>> => Len(rest) # 0
    BY <2>3, EmptySeq
  <2>5. Len(out) = Len(sockOut) + n
    BY <2>3, ConcatProperties
  <2> HIDE DEF rest, sent, out
  <2>6. rest # <<>> => outputBuffer # <<>> /\ Len(out) = SendCap
    BY <2>2, <2>3, <2>4, <2>5, LenProperties
  <2>7. CASE rest = <<>>
    BY <2>1, <2>7 DEF UpdateChannel
  <2>8. CASE rest # <<>>
    <3>1. /\ outputBuffer # <<>> /\ handled # <<>> /\ "OUT" \in interest
          /\ nospace' = TRUE /\ UNCHANGED <<interest, ready>>
          /\ Len(sockOut') = SendCap
      BY <2>1, <2>6, <2>8
    <3>2. ~ Writable(sockOut)'
      BY <2>1, <3>1
    <3>3. WriteEdgeKept' /\ RepliesWereAsked'
      BY <2>1, <3>1, <3>2
    <3> QED BY <2>1, <3>1, <3>3
  <2> QED BY <2>7, <2>8
<1>19. ASSUME SendError PROVE ControlInv'
  BY <1>19 DEF SendError
<1>20. ASSUME SendKilled PROVE ControlInv'
  BY <1>20 DEF SendKilled
<1>21. ASSUME HandleWakeUp PROVE ControlInv'
  BY <1>21 DEF HandleWakeUp
<1>22. ASSUME SendInLoop PROVE ControlInv'
  <2>1. CASE ~ disconnect /\ AppendAndEnable(Head(loopQueue)) /\ UNCHANGED loopPc
    BY <1>22, <2>1 DEF SendInLoop, AppendAndEnable, UpdateChannel
  <2>2. CASE disconnect
    BY <1>22, <2>2 DEF SendInLoop
  <2> QED BY <1>22, <2>1, <2>2 DEF SendInLoop
<1>23. ASSUME DrainDone PROVE ControlInv'
  BY <1>23 DEF DrainDone
<1>24. ASSUME NEW w \in pool, TakeMessage(w) PROVE ControlInv'
  <2>1. Head(workQueue) \in Messages
    BY <1>24, HeadTailProperties DEF TakeMessage
  <2>2. workerMsg'[w] # <<>> /\ workerPc'[w] = "send"
        /\ \A v \in Workers \ {w} : workerMsg'[v] = workerMsg[v] /\ workerPc'[v] = workerPc[v]
    BY <1>24, <2>1 DEF TakeMessage
  <2>3. workQueue # <<>> /\ UNCHANGED <<socketVars, epollVars, connVars, loopVars, pool, loopQueue, history>>
    BY <1>24 DEF TakeMessage
  <2> QED BY <2>2, <2>3
<1>25. ASSUME NEW w \in pool, TestDisconnect(w) PROVE ControlInv'
  BY <1>25 DEF TestDisconnect
<1>26. ASSUME NEW w \in pool, QueueReply(w) PROVE ControlInv'
  <2>1. loopQueue' # <<>>
    <3>1. /\ loopQueue \in Seq(AllReplies) /\ Reply(workerMsg[w]) \in AllReplies
          /\ loopQueue' = Append(loopQueue, Reply(workerMsg[w]))
      BY <1>26, ReplyType DEF QueueReply
    <3> QED BY ONLY <3>1, AppendProperties
  <2> QED BY <1>26, <2>1 DEF QueueReply
<1>27. ASSUME UNCHANGED vars PROVE ControlInv'
  BY <1>27 DEF vars
<1> QED BY <1>1, <1>2, <1>3, <1>4, <1>5, <1>6, <1>7, <1>8, <1>9, <1>10, <1>11, <1>12,
     <1>13, <1>14, <1>15, <1>16, <1>17, <1>18, <1>19, <1>20, <1>21, <1>22, <1>23,
     <1>24, <1>25, <1>26, <1>27 DEF Next, Client, Main, Loop, Worker

\* A step asks for writing only when a message was handled, and a callback is called
\* half written only where it may be.
LEMMA NextTornCallbackCalled ==
  ASSUME TypeOK, ControlInv, WritingWasAsked, TornCallbackCalled, [Next]_vars
  PROVE  WritingWasAsked' /\ TornCallbackCalled'
<1> DEFINE Goal == WritingWasAsked' /\ TornCallbackCalled'
<1> USE DEF WritingWasAsked, TornCallbackCalled, socketVars, epollVars, connVars,
            loopVars, history
<1>1. ASSUME UNCHANGED <<interest, revents, handled, mainPc>>,
             loopPc' \notin {"write", "crash"} \/ UNCHANGED <<loopPc, disconnect, picked,
                                                            outputBuffer>>
      PROVE  Goal
  BY <1>1
<1>2. ASSUME Main PROVE Goal
  BY <1>2 DEF Main, SetCloseCallback, SetMessageCallback, SetSendCompleteCallback,
              SetCallback, Running
<1>3. ASSUME EpollWait PROVE Goal
  BY <1>3 DEF EpollWait
<1>4. ASSUME HandleEvent PROVE Goal
  <2>1. revents \subseteq {"IN", "OUT"} /\ revents # {}
    BY <1>4 DEF HandleEvent, ControlInv, ReportsServed, TypeOK
  <2>2. /\ UNCHANGED <<interest, revents, handled, mainPc>>
        /\ loopPc' = IF "IN" \in revents THEN "read" ELSE "write"
    BY <1>4 DEF HandleEvent
  <2> QED BY <2>1, <2>2
<1>5. ASSUME ReadEnd PROVE Goal
  <2>1. mainPc = "setClose" => handled = <<>>
    OBVIOUS
  <2> QED BY <1>5, <2>1 DEF ReadEnd
<1>6. ASSUME CallTornCallback PROVE Goal
  <2>1. picked' # <<>>
    BY <1>6, AppendProperties DEF CallTornCallback, Picked, TypeOK, Messages, Bytes
  <2> QED BY <1>6, <2>1 DEF CallTornCallback
<1>7. ASSUME HandleMessage PROVE Goal
  <2>1. handled' # <<>>
    <3>1. /\ handled \in Seq(Messages) /\ inputBuffer \in Messages
          /\ handled' = Append(handled, inputBuffer)
      BY <1>7 DEF HandleMessage, Picked, TypeOK, Messages
    <3> QED BY ONLY <3>1, AppendProperties
  <2>2. /\ mainPc # "setClose" /\ loopPc = "pick"
        /\ UNCHANGED <<mainPc, loopPc>>
    BY <1>7 DEF HandleMessage, Picked
  <2> QED BY <2>1, <2>2
<1>8. ASSUME SendBytes PROVE Goal
  <2>1. /\ handled # <<>> /\ UNCHANGED <<handled, mainPc, revents>>
        /\ loopPc' = "crash" => mainPc = "setSendComplete" /\ outputBuffer' = <<>>
        /\ loopPc' \in {"dispatch", "crash"}
    BY <1>8 DEF SendBytes
  <2> QED BY <2>1
<1>9. ASSUME SendInLoop PROVE Goal
  <2>1. handled # <<>> /\ UNCHANGED <<handled, mainPc, revents>>
    BY <1>9 DEF SendInLoop, ControlInv, RepliesWereAsked, ReplyUnderWay
  <2>2. loopPc' \in {"drain", "exit"}
    BY <1>9 DEF SendInLoop
  <2> QED BY <2>1, <2>2
<1>10. ASSUME NEW w \in pool, Worker(w) PROVE Goal
  BY <1>10 DEF Worker, TakeMessage, TestDisconnect, QueueReply
<1>11. ASSUME Client PROVE Goal
  BY <1>11 DEF Client, Arrive, Fin, Reset, ClientReceive
<1>12. ASSUME EpollFails \/ DispatchDone \/ ReadBytes \/ ReadError \/ ReadAgain
              \/ PickNothing \/ IgnoreMessage \/ SendError \/ SendKilled
              \/ HandleWakeUp \/ DrainDone
       PROVE  Goal
  <2>1. /\ UNCHANGED <<interest, revents, handled, mainPc>>
        /\ loopPc' \notin {"write", "crash"}
    BY <1>12 DEF EpollFails, DispatchDone, ReadBytes, ReadError, ReadAgain, PickNothing,
                 IgnoreMessage, Picked, SendError, SendKilled, HandleWakeUp, DrainDone
  <2> QED BY <1>1, <2>1
<1>13. ASSUME UNCHANGED vars PROVE Goal
  BY <1>13 DEF vars
<1> HIDE DEF Goal
<1>14. Goal
  BY <1>2, <1>3, <1>4, <1>5, <1>6, <1>7, <1>8, <1>9, <1>10, <1>11, <1>12, <1>13, Zenon
     DEF Next, Loop
<1> QED BY <1>14 DEF Goal

-----------------------------------------------------------------------------
(* The order of the replies.                                               *)

\* The types of what is on the way to the client.
LEMMA OnTheWayType ==
  ASSUME TypeOK, CarriedByPool
  PROVE  /\ received \in Seq(Units) /\ sockOut \in Seq(Units) /\ outputBuffer \in Seq(Units)
         /\ loopQueue \in Seq(Seq(Units)) /\ FlattenSeq(loopQueue) \in Seq(Units)
         /\ Carried \in Seq(Units)
         /\ RepliesTo(workQueue) \in Seq(Units) /\ RepliesTo(handled) \in Seq(Units)
<1>1. received \in Seq(Units) /\ sockOut \in Seq(Units) /\ outputBuffer \in Seq(Units)
  BY DEF TypeOK
<1>2. loopQueue \in Seq(Seq(Units)) /\ FlattenSeq(loopQueue) \in Seq(Units)
  <2>1. loopQueue \in Seq(AllReplies)
    BY DEF TypeOK
  <2>2. loopQueue \in Seq(Seq(Units))
    BY <2>1, AllRepliesAreUnits, SeqMonotonic
  <2> QED BY <2>2, FlattenSeqType
<1>3. Carried \in Seq(Units)
  <2>1. ASSUME NEW w \in pool, workerPc[w] # "idle"
        PROVE  Reply(workerMsg[w]) \in Seq(Units)
    <3>1. w \in Workers /\ workerMsg[w] # <<>>
      BY <2>1 DEF TypeOK, CarriedByPool
    <3>2. workerMsg[w] \in Messages
      BY <3>1 DEF TypeOK, Messages
    <3> QED BY <3>2, ReplyType
  <2>2. CASE pool = {}
    BY <2>2 DEF Carried
  <2>3. CASE pool # {}
    <3> DEFINE w == CHOOSE v \in pool : TRUE
    <3>1. w \in pool
      BY <2>3
    <3>2. Carried = IF workerPc[w] = "queue" \/ (workerPc[w] = "send" /\ ~disconnect)
                    THEN Reply(workerMsg[w]) ELSE <<>>
      BY <2>3 DEF Carried
    <3> HIDE DEF w
    <3> QED BY <2>1, <3>1, <3>2
  <2> QED BY <2>2, <2>3
<1>4. RepliesTo(workQueue) \in Seq(Units) /\ RepliesTo(handled) \in Seq(Units)
  BY RepliesToType DEF TypeOK
<1> QED BY <1>1, <1>2, <1>3, <1>4

\* The only worker is the one that carries a reply.
LEMMA CarriedByTheWorker ==
  ASSUME OneWorker, NEW w \in pool, UNCHANGED pool
  PROVE  /\ Carried = IF workerPc[w] = "queue" \/ (workerPc[w] = "send" /\ ~disconnect)
                      THEN Reply(workerMsg[w]) ELSE <<>>
         /\ Carried' = IF workerPc'[w] = "queue" \/ (workerPc'[w] = "send" /\ ~disconnect')
                       THEN Reply(workerMsg'[w]) ELSE <<>>
<1>1. (CHOOSE v \in pool : TRUE) = w /\ pool # {}
  BY DEF OneWorker
<1> QED BY <1>1 DEF Carried, Reply

\* The steps that move a reply.
LEMMA ReplySteps ==
  ASSUME [Next]_vars
  PROVE  /\ UNCHANGED pool
         /\ \/ Reset \/ ClientReceive \/ ReadEnd \/ HandleMessage \/ SendBytes \/ SendInLoop
            \/ \E w \in pool : Worker(w)
            \/ UNCHANGED <<received, sockOut, outputBuffer, loopQueue, workQueue, handled,
                           rst, disconnect, workerPc, workerMsg>>
BY DEF Next, Client, Main, Loop, Worker, vars, socketVars, epollVars, connVars,
     loopVars,
       workerVars, history, Arrive, Fin, Reset, ClientReceive, SetCloseCallback,
     SetMessageCallback, SetSendCompleteCallback, SetCallback, EpollWait, EpollFails, DispatchDone, HandleEvent, ReadBytes, ReadError,
       ReadEnd, ReadAgain, PickNothing, IgnoreMessage, CallTornCallback, HandleMessage,
       SendBytes, SendError, SendKilled, HandleWakeUp, SendInLoop, DrainDone,
       TakeMessage, TestDisconnect, QueueReply, Picked

\* What is on the way, regrouped: a beginning of it is a beginning of all.
LEMMA OnTheWayPrefix ==
  ASSUME TypeOK, CarriedByPool, NEW all \in Seq(Units), IsPrefix(OnTheWay, all)
  PROVE  /\ IsPrefix(received \o sockOut \o outputBuffer \o FlattenSeq(loopQueue), all)
         /\ IsPrefix(received \o sockOut \o outputBuffer, all)
         /\ IsPrefix(received, all)
<1> DEFINE f == FlattenSeq(loopQueue)
<1>1. /\ received \in Seq(Units) /\ sockOut \in Seq(Units) /\ outputBuffer \in Seq(Units)
      /\ f \in Seq(Units) /\ Carried \in Seq(Units)
  BY OnTheWayType
<1>2. OnTheWay = received \o sockOut \o outputBuffer \o f \o Carried
  BY DEF OnTheWay
<1> HIDE DEF f
<1>3. received \o sockOut \in Seq(Units)
  BY <1>1, ConcatProperties
<1>4. received \o sockOut \o outputBuffer \in Seq(Units)
  BY <1>1, <1>3, ConcatProperties
<1>5. received \o sockOut \o outputBuffer \o f \in Seq(Units)
  BY <1>1, <1>4, ConcatProperties
<1>6. IsPrefix(received \o sockOut \o outputBuffer \o f, all)
  BY <1>1, <1>2, <1>5, PrefixShorter
<1>7. IsPrefix(received \o sockOut \o outputBuffer, all)
  BY <1>1, <1>4, <1>6, PrefixShorter
<1>8. IsPrefix(received \o sockOut, all)
  BY <1>1, <1>3, <1>7, PrefixShorter
<1>9. IsPrefix(received, all)
  BY <1>1, <1>8, PrefixShorter
<1> QED BY <1>6, <1>7, <1>9 DEF f

\* A step that moves replies from one place on the way to the next one.
LEMMA OrderKeptWhenMoved ==
  ASSUME ReplyOrderKept,
         UNCHANGED <<pool, handled, workQueue, rst, disconnect>>,
         OneWorker => rst \/ UNCHANGED OnTheWay,
         OneWorker => ~rst \/ UNCHANGED received
  PROVE  ReplyOrderKept'
BY DEF ReplyOrderKept, OneWorker, RepliesTo, Reply

\* No step changes the order of the replies, as long as at most one worker carries them.
LEMMA NextReplyOrderKept ==
  ASSUME TypeOK, ControlInv, ReplyOrderKept, [Next]_vars
  PROVE  ReplyOrderKept'
<1> USE DEF ControlInv
<1> DEFINE f == FlattenSeq(loopQueue)
           base == received \o sockOut \o outputBuffer
<1>1. /\ received \in Seq(Units) /\ sockOut \in Seq(Units) /\ outputBuffer \in Seq(Units)
      /\ loopQueue \in Seq(Seq(Units)) /\ f \in Seq(Units) /\ Carried \in Seq(Units)
      /\ RepliesTo(workQueue) \in Seq(Units) /\ RepliesTo(handled) \in Seq(Units)
  BY OnTheWayType
<1>2. base \in Seq(Units) /\ base \o f \in Seq(Units) /\ OnTheWay \in Seq(Units)
      /\ OnTheWay = base \o f \o Carried
  BY <1>1, ConcatProperties DEF OnTheWay
<1>3. UNCHANGED pool
  BY ReplySteps
<1>4. ASSUME Reset
      PROVE  ReplyOrderKept'
  <2>1. ~ rst /\ rst' /\ UNCHANGED <<received, handled, pool>>
    BY <1>4 DEF Reset, history
  <2>2. OneWorker => IsPrefix(received, RepliesTo(handled))
    BY <1>1, <2>1, OnTheWayPrefix DEF ReplyOrderKept
  <2> QED BY <2>1, <2>2 DEF ReplyOrderKept, OneWorker, RepliesTo, Reply
<1>5. ASSUME ClientReceive
      PROVE  ReplyOrderKept'
  <2>1. /\ sockOut # <<>> /\ ~ rst
        /\ received' = Append(received, Head(sockOut)) /\ sockOut' = Tail(sockOut)
        /\ UNCHANGED <<outputBuffer, loopQueue, workQueue, handled, rst, disconnect, pool,
                       workerPc, workerMsg>>
    BY <1>5 DEF ClientReceive, connVars, workerVars, ResetSeen
  <2>2. received' \o sockOut' = received \o sockOut
    BY <1>1, <2>1, MoveHead
  <2>3. UNCHANGED Carried
    BY <2>1 DEF Carried, Reply
  <2>4. UNCHANGED OnTheWay
    BY <2>1, <2>2, <2>3 DEF OnTheWay
  <2> QED BY <2>1, <2>4, OrderKeptWhenMoved
<1>6. ASSUME ReadEnd
      PROVE  ReplyOrderKept'
  <2>1. /\ disconnect'
        /\ UNCHANGED <<received, sockOut, outputBuffer, loopQueue, workQueue, handled, rst,
                       pool, workerPc, workerMsg>>
    BY <1>6 DEF ReadEnd, socketVars, history, workerVars
  <2>2. Carried' = Carried \/ Carried' = <<>>
    BY <2>1 DEF Carried, Reply
  <2>3. CASE Carried' = Carried
    <3>1. UNCHANGED OnTheWay
      BY <2>1, <2>3 DEF OnTheWay
    <3> QED BY <2>1, <3>1 DEF ReplyOrderKept, OneWorker, RepliesTo, Reply
  <2>4. CASE Carried' = <<>>
    <3>1. OnTheWay' = base \o f
      BY <1>2, <2>1, <2>4, ConcatEmptySeq DEF OnTheWay
    <3>2. OneWorker /\ ~ rst => IsPrefix(base \o f, RepliesTo(handled))
      BY <1>1, OnTheWayPrefix DEF ReplyOrderKept
    <3> QED BY <2>1, <3>1, <3>2 DEF ReplyOrderKept, OneWorker, RepliesTo, Reply
  <2> QED BY <2>2, <2>3, <2>4
<1>7. ASSUME SendBytes
      PROVE  ReplyOrderKept'
  <2> DEFINE n == Least(Len(outputBuffer), SendCap - Len(sockOut))
             sent == SubSeq(outputBuffer, 1, n)
             rest == SubSeq(outputBuffer, n + 1, Len(outputBuffer))
  <2>1. /\ outputBuffer' = rest /\ sockOut' = sockOut \o sent
        /\ UNCHANGED <<received, loopQueue, workQueue, handled, rst, disconnect, pool,
                       workerPc, workerMsg>>
    BY <1>7 DEF SendBytes, history, workerVars
  <2>2. n \in 0..Len(outputBuffer)
    <3>1. /\ Len(outputBuffer) \in Nat /\ Len(sockOut) \in Nat
          /\ Len(sockOut) <= SendCap /\ SendCap \in Nat
      BY <1>1, LenProperties, IOAssumption DEF TypeOK
    <3> QED BY ONLY <3>1 DEF Least
  <2> HIDE DEF n
  <2>3. sent \in Seq(Units) /\ rest \in Seq(Units) /\ sent \o rest = outputBuffer
    <3>1. n \in 0..Len(outputBuffer) /\ outputBuffer \in Seq(Units)
      BY <1>1, <2>2
    <3> QED BY ONLY <3>1, CutInTwo
  <2> HIDE DEF sent, rest
  <2>4. received \o (sockOut \o sent) \o rest = received \o sockOut \o (sent \o rest)
    <3>1. /\ received \in Seq(Units) /\ sockOut \in Seq(Units)
          /\ sent \in Seq(Units) /\ rest \in Seq(Units)
      BY <1>1, <2>3
    <3> QED BY ONLY <3>1
  <2>5. UNCHANGED Carried
    BY <2>1 DEF Carried, Reply
  <2>6. UNCHANGED OnTheWay
    BY <2>1, <2>3, <2>4, <2>5 DEF OnTheWay
  <2> QED BY <2>1, <2>6, OrderKeptWhenMoved
<1>8. ASSUME SendInLoop
      PROVE  ReplyOrderKept'
  <2> DEFINE h == Head(loopQueue)
             t == FlattenSeq(Tail(loopQueue))
             rs == received \o sockOut
  <2>1. /\ loopQueue # <<>> /\ loopQueue' = Tail(loopQueue)
        /\ outputBuffer' = outputBuffer \o h
        /\ UNCHANGED <<received, sockOut, workQueue, handled, rst, disconnect, pool,
                       workerPc, workerMsg>>
    BY <1>8 DEF SendInLoop, AppendAndEnable, history, workerVars
  <2>2. h \in Seq(Units) /\ t \in Seq(Units) /\ f = h \o t
    BY <1>1, <2>1, HeadTailProperties, FlattenSeqHead, FlattenSeqType
  <2>3. rs \in Seq(Units)
    BY <1>1, ConcatProperties
  <2>4. UNCHANGED Carried
    BY <2>1 DEF Carried, Reply
  <2>5. OnTheWay' = rs \o (outputBuffer \o h) \o t \o Carried
    BY <2>1, <2>4 DEF OnTheWay
  <2>6. OnTheWay = rs \o outputBuffer \o f \o Carried
    BY DEF OnTheWay
  <2> HIDE DEF h, t, rs, f
  <2>7. rs \o (outputBuffer \o h) \o t = rs \o outputBuffer \o (h \o t)
    <3>1. /\ rs \in Seq(Units) /\ outputBuffer \in Seq(Units)
          /\ h \in Seq(Units) /\ t \in Seq(Units)
      BY <1>1, <2>2, <2>3
    <3> QED BY ONLY <3>1
  <2>8. UNCHANGED OnTheWay
    BY <2>2, <2>5, <2>6, <2>7
  <2> QED BY <2>1, <2>8, OrderKeptWhenMoved
<1>9. ASSUME HandleMessage
      PROVE  ReplyOrderKept'
  <2> DEFINE m == inputBuffer
             all == RepliesTo(handled)
             queued == RepliesTo(workQueue)
  <2>1. /\ m \in Messages /\ handled' = Append(handled, m)
        /\ handled \in Seq(Messages) /\ workQueue \in Seq(Messages)
        /\ ~ disconnect /\ ~ disconnect'
        /\ UNCHANGED <<received, sockOut, loopQueue, rst, pool, workerPc, workerMsg>>
    BY <1>9, <1>3 DEF HandleMessage, Picked, TypeOK, Messages, Bytes,
         ReportsServed, workerVars
  <2>2. /\ Reply(m) \in Seq(Units)
        /\ RepliesTo(handled') = all \o Reply(m)
        /\ RepliesTo(handled') \in Seq(Units)
    BY <1>1, <2>1, ReplyType, RepliesToAppend, ConcatProperties
  <2>3. UNCHANGED Carried
    BY <2>1 DEF Carried, Reply
  <2>4. CASE rst
    <3>1. OneWorker => IsPrefix(received, all)
      BY <2>4 DEF ReplyOrderKept
    <3>2. OneWorker => IsPrefix(received, RepliesTo(handled'))
      BY <1>1, <2>2, <3>1, PrefixOfLonger
    <3> QED BY <2>1, <2>4, <3>2 DEF ReplyOrderKept, OneWorker, RepliesTo, Reply
  <2>5. CASE ~ rst
    <3>1. SUFFICES ASSUME OneWorker
                   PROVE  OnTheWay' \in Seq(Units) /\ RepliesTo(workQueue') \in Seq(Units)
                          /\ OnTheWay' \o RepliesTo(workQueue') = RepliesTo(handled')
      <4>1. ASSUME OnTheWay' \in Seq(Units), RepliesTo(workQueue') \in Seq(Units),
                   OnTheWay' \o RepliesTo(workQueue') = RepliesTo(handled')
            PROVE  IsPrefix(OnTheWay', RepliesTo(handled'))
        BY <2>2, <4>1, PrefixIsConcat
      <4> QED BY <2>1, <2>5, <3>1, <4>1 DEF ReplyOrderKept, OneWorker, RepliesTo, Reply
    <3>2. OnTheWay \o queued = all
      BY <2>1, <2>5, <3>1 DEF ReplyOrderKept
    <3>3. CASE pool = {} /\ AppendAndEnable(Reply(m)) /\ UNCHANGED workQueue
      <4>1. workQueue = <<>> /\ loopQueue = <<>> /\ Carried = <<>>
        BY <3>3 DEF CarriedByPool, Carried
      <4>2. queued = <<>> /\ f = <<>>
        BY <4>1, RepliesToEmpty, FlattenSeqEmpty
      <4>3. base = all
        <5>1. base \o <<>> = base
          BY <1>2, ConcatEmptySeq
        <5>2. base \o <<>> \o <<>> \o <<>> = all
          BY <1>2, <3>2, <4>1, <4>2
        <5> HIDE DEF base, all
        <5> QED BY <5>1, <5>2
      <4>4. outputBuffer' = outputBuffer \o Reply(m)
        BY <3>3 DEF AppendAndEnable
      <4>5. received \o sockOut \o (outputBuffer \o Reply(m)) = base \o Reply(m)
        <5> DEFINE rs == received \o sockOut
                   r == Reply(m)
        <5>1. rs \in Seq(Units) /\ outputBuffer \in Seq(Units) /\ r \in Seq(Units)
          BY <1>1, <2>2, ConcatProperties
        <5> HIDE DEF rs, r
        <5>2. rs \o (outputBuffer \o r) = rs \o outputBuffer \o r
          BY ONLY <5>1
        <5> QED BY <5>2 DEF rs, r
      <4>6. OnTheWay' = all \o Reply(m) \o <<>> \o <<>>
        BY <2>1, <2>3, <4>1, <4>2, <4>3, <4>4, <4>5 DEF OnTheWay
      <4>7. OnTheWay' = RepliesTo(handled')
        BY <2>2, <4>6, ConcatEmptySeq
      <4>8. RepliesTo(workQueue') = <<>>
        BY <3>3, <4>1, RepliesToEmpty
      <4> QED BY <2>2, <4>7, <4>8, ConcatEmptySeq
    <3>4. CASE /\ pool # {}
               /\ workQueue' = Append(workQueue, m)
               /\ UNCHANGED <<outputBuffer, epollVars, nospace>>
      <4>1. UNCHANGED OnTheWay
        BY <2>1, <2>3, <3>4 DEF OnTheWay
      <4>2. RepliesTo(workQueue') = queued \o Reply(m)
        BY <2>1, <3>4, RepliesToAppend
      <4>3. OnTheWay \o (queued \o Reply(m)) = OnTheWay \o queued \o Reply(m)
        <5> DEFINE o == OnTheWay
                   r == Reply(m)
        <5>1. o \in Seq(Units) /\ queued \in Seq(Units) /\ r \in Seq(Units)
          BY <1>1, <1>2, <2>2
        <5> HIDE DEF o, queued, r
        <5>2. o \o (queued \o r) = o \o queued \o r
          BY ONLY <5>1
        <5> QED BY <5>2 DEF o, queued, r
      <4>4. queued \o Reply(m) \in Seq(Units)
        BY <1>1, <2>2, ConcatProperties
      <4> QED BY <1>2, <2>2, <3>2, <4>1, <4>2, <4>3, <4>4
    <3> QED BY <1>9, <3>3, <3>4 DEF HandleMessage
  <2> QED BY <2>4, <2>5
<1>10. ASSUME NEW w \in pool, TakeMessage(w)
       PROVE  ReplyOrderKept'
  <2> DEFINE m == Head(workQueue)
             q == RepliesTo(Tail(workQueue))
  <2>1. /\ workQueue \in Seq(Messages) /\ workQueue # <<>>
        /\ workerPc[w] = "idle"
        /\ workerPc'[w] = "send" /\ workerMsg'[w] = m /\ workQueue' = Tail(workQueue)
        /\ UNCHANGED <<received, sockOut, outputBuffer, loopQueue, handled, rst, disconnect, pool>>
    BY <1>10 DEF TakeMessage, TypeOK, socketVars, connVars, history
  <2>2. /\ m \in Messages /\ Reply(m) \in Seq(Units) /\ q \in Seq(Units)
        /\ RepliesTo(workQueue) = Reply(m) \o q
    BY <2>1, HeadTailProperties, ReplyType, RepliesToHead, RepliesToType
  <2>3. SUFFICES ASSUME OneWorker
                 PROVE  ReplyOrderKept'
    BY <2>1 DEF ReplyOrderKept, OneWorker
  <2>4. Carried = <<>> /\ Carried' = IF disconnect THEN <<>> ELSE Reply(m)
    BY <2>1, <2>3, CarriedByTheWorker
  <2>5. OnTheWay' = base \o f \o Carried'
    BY <2>1 DEF OnTheWay
  <2>6. CASE disconnect
    <3>1. UNCHANGED OnTheWay
      BY <1>2, <2>4, <2>5, <2>6
    <3> QED BY <2>1, <2>6, <3>1 DEF ReplyOrderKept, OneWorker, RepliesTo, Reply
  <2>7. CASE ~ disconnect /\ ~ rst
    <3>1. OnTheWay \o (Reply(m) \o q) = RepliesTo(handled) /\ OnTheWay = base \o f
      BY <1>2, <2>2, <2>3, <2>4, <2>7, ConcatEmptySeq DEF ReplyOrderKept
    <3>2. (base \o f) \o Reply(m) \o q = (base \o f) \o (Reply(m) \o q)
      <4> DEFINE o == base \o f
                 r == Reply(m)
      <4>1. o \in Seq(Units) /\ r \in Seq(Units) /\ q \in Seq(Units)
        BY <1>2, <2>2
      <4> HIDE DEF o, r, q
      <4>2. o \o r \o q = o \o (r \o q)
        BY ONLY <4>1
      <4> QED BY <4>2 DEF o, r, q
    <3>3. OnTheWay' = (base \o f) \o Reply(m) /\ OnTheWay' \in Seq(Units)
      BY <1>2, <2>2, <2>4, <2>5, <2>7, ConcatProperties
    <3>4. OnTheWay' \o q = RepliesTo(handled)
      BY <3>1, <3>2, <3>3
    <3>5. IsPrefix(OnTheWay', RepliesTo(handled))
      BY <1>1, <2>2, <3>3, <3>4, PrefixIsConcat
    <3>6. RepliesTo(workQueue') = q /\ RepliesTo(handled') = RepliesTo(handled)
      BY <2>1
    <3> QED BY <2>1, <2>7, <3>4, <3>5, <3>6 DEF ReplyOrderKept, OneWorker,
         RepliesTo, Reply
  <2>8. CASE rst
    BY <2>1, <2>8 DEF ReplyOrderKept, OneWorker, RepliesTo, Reply
  <2> QED BY <2>6, <2>7, <2>8
<1>11. ASSUME NEW w \in pool, TestDisconnect(w)
       PROVE  ReplyOrderKept'
  <2>1. /\ workerPc[w] = "send"
        /\ workerPc'[w] = IF disconnect THEN "idle" ELSE "queue"
        /\ UNCHANGED <<received, sockOut, outputBuffer, loopQueue, workQueue, handled, rst,
                       disconnect, pool, workerMsg>>
    BY <1>11 DEF TestDisconnect, TypeOK, socketVars, connVars, history
  <2>2. OneWorker => UNCHANGED Carried
    BY <2>1, CarriedByTheWorker
  <2>3. OneWorker => UNCHANGED OnTheWay
    BY <2>1, <2>2 DEF OnTheWay
  <2> QED BY <2>1, <2>3, OrderKeptWhenMoved
<1>12. ASSUME NEW w \in pool, QueueReply(w)
       PROVE  ReplyOrderKept'
  <2> DEFINE r == Reply(workerMsg[w])
  <2>1. /\ workerPc[w] = "queue" /\ workerPc'[w] = "idle"
        /\ loopQueue' = Append(loopQueue, r)
        /\ UNCHANGED <<received, sockOut, outputBuffer, workQueue, handled, rst,
                       disconnect, pool, workerMsg>>
    BY <1>12 DEF QueueReply, TypeOK, socketVars, connVars, history
  <2>2. r \in Seq(Units)
    <3>1. w \in Workers /\ workerMsg[w] # <<>>
      BY <2>1 DEF TypeOK, CarriedByPool
    <3>2. workerMsg[w] \in Messages
      BY <3>1 DEF TypeOK, Messages
    <3> QED BY <3>2, ReplyType
  <2>3. FlattenSeq(loopQueue') = f \o r
    BY <1>1, <2>1, <2>2, FlattenSeqAppend
  <2>4. OneWorker => Carried = r /\ Carried' = <<>>
    BY <2>1, CarriedByTheWorker
  <2>5. OneWorker => OnTheWay' = base \o (f \o r) \o <<>>
    BY <2>1, <2>3, <2>4 DEF OnTheWay
  <2>6. base \o (f \o r) = base \o f \o r /\ base \o (f \o r) \in Seq(Units)
    <3>1. base \in Seq(Units) /\ f \in Seq(Units) /\ r \in Seq(Units)
      BY <1>1, <1>2, <2>2
    <3> HIDE DEF base, f, r
    <3> QED BY ONLY <3>1
  <2>7. OneWorker => UNCHANGED OnTheWay
    BY <1>2, <2>4, <2>5, <2>6, ConcatEmptySeq
  <2> QED BY <2>1, <2>7, OrderKeptWhenMoved
<1>13. ASSUME UNCHANGED <<received, sockOut, outputBuffer, loopQueue, workQueue, handled,
                          rst, disconnect, workerPc, workerMsg>>
       PROVE  ReplyOrderKept'
  <2>1. UNCHANGED OnTheWay
    BY <1>3, <1>13 DEF OnTheWay, Carried, Reply
  <2> QED BY <1>3, <1>13, <2>1, OrderKeptWhenMoved
<1> QED BY <1>4, <1>5, <1>6, <1>7, <1>8, <1>9, <1>10, <1>11, <1>12, <1>13, ReplySteps
     DEF Worker

-----------------------------------------------------------------------------
(* The inductive invariant and what follows from it.                       *)

\* The invariant holds before the first byte.
LEMMA InitIOInv == Init => IOInv
<1> SUFFICES ASSUME Init PROVE IOInv
  OBVIOUS
<1>1. TypeOK
  <2>1. <<>> \in Bytes /\ <<>> \in Seq(Units) /\ <<>> \in Seq(Messages)
        /\ <<>> \in Seq(AllReplies) /\ Len(<<>>) = 0
    BY EmptySeq DEF Bytes
  <2>2. pool \subseteq Workers
    BY DEF Init
  <2>3. /\ workerPc \in [Workers -> {"idle", "send", "queue"}]
        /\ workerMsg \in [Workers -> Bytes]
    BY <2>1 DEF Init
  <2>4. /\ interest \in {{}, {"IN"}, {"IN", "OUT"}} /\ (interest = {} <=> disconnect)
        /\ batch \subseteq {"conn", "wake"} /\ revents \subseteq {"IN", "OUT"}
        /\ mainPc \in {"setClose", "setMessage", "setSendComplete", "done"}
        /\ arrived \in 0..MaxBytes /\ SendCap \in Nat
    BY IOAssumption DEF Init
  <2>5. /\ fin \in BOOLEAN /\ rst \in BOOLEAN /\ error \in BOOLEAN /\ (error => rst)
        /\ nospace \in BOOLEAN /\ ready \in BOOLEAN /\ disconnect \in BOOLEAN
    BY DEF Init
  <2>6. /\ sockIn = <<>> /\ sockOut = <<>> /\ inputBuffer = <<>> /\ outputBuffer = <<>>
        /\ workQueue = <<>> /\ loopQueue = <<>> /\ loopPc = "poll"
        /\ picked = <<>> /\ handled = <<>> /\ received = <<>>
    BY DEF Init
  <2> QED BY <2>1, <2>2, <2>3, <2>4, <2>5, <2>6 DEF TypeOK
<1>2. InputStreamKept
  <2>1. FlattenSeq(picked) = <<>> /\ inputBuffer = <<>> /\ sockIn = <<>> /\ arrived = 0
    BY FlattenSeqEmpty DEF Init
  <2>2. [i \in 1..0 |-> i] = <<>>
    OBVIOUS
  <2> QED BY <2>1, <2>2 DEF InputStreamKept
<1>3. /\ ReportsServed /\ CarriedByPool /\ ReadEdgeKept /\ WriteEdgeKept
      /\ RepliesWereAsked /\ WritingWasAsked /\ ResetSeen /\ EndsInKnownWays
  BY DEF Init, WritingWasAsked, EndsInKnownWays, ReportsServed, CarriedByPool, ReadEdgeKept, WriteEdgeKept,
         RepliesWereAsked, ResetSeen, ResetAloneKillsNot,
         OnlyQueuedRepliesExit, TornCallbackCalled, ReplyUnderWay, Readiness
<1>4. ReplyOrderKept
  <2>1. /\ received = <<>> /\ sockOut = <<>> /\ outputBuffer = <<>>
        /\ FlattenSeq(loopQueue) = <<>> /\ RepliesTo(workQueue) = <<>>
        /\ RepliesTo(handled) = <<>>
    BY FlattenSeqEmpty, RepliesToEmpty DEF Init
  <2>2. Carried = <<>>
    <3>1. \A w \in Workers : workerPc[w] = "idle"
      BY DEF Init
    <3>2. pool \subseteq Workers
      BY DEF Init
    <3> QED BY <3>1, <3>2 DEF Carried
  <2>3. OnTheWay = <<>>
    BY <2>1, <2>2 DEF OnTheWay
  <2>4. IsPrefix(<<>>, <<>>)
    BY DEF IsPrefix
  <2> QED BY <2>1, <2>3, <2>4 DEF ReplyOrderKept
<1> QED BY <1>1, <1>2, <1>3, <1>4 DEF IOInv

\* The invariant is inductive.
LEMMA NextIOInv == IOInv /\ [Next]_vars => IOInv'
BY NextTypeOK, NextInputStreamKept, NextControlInv, NextTornCallbackCalled,
   NextReplyOrderKept
   DEF IOInv, ControlInv, EndsInKnownWays

\* Whatever the client, the workers and the sizes: every byte that has arrived is in
\* one place, every readable socket and every unsent reply is on its way to the loop,
\* and one worker keeps the replies in order (Connection.cpp:51-152, Channel.cpp:60-78).
THEOREM IOInvHolds == SafetySpec => []IOInv
<1>1. Init => IOInv
  BY InitIOInv
<1>2. IOInv /\ [Next]_vars => IOInv'
  BY NextIOInv
<1> QED BY <1>1, <1>2, PTL DEF SafetySpec

\* The invariant says where an edge is, hence that it is not lost.
LEMMA IOInvImpliesNoEdgeLost == IOInv => NoEdgeLost
BY DEF IOInv, NoEdgeLost, TypeOK, ReportsServed, ReadEdgeKept, WriteEdgeKept, Running

\* No edge is lost: when the loop waits, what can be read is on the ready list, and
\* what is to be sent will be looked at again, although an OUT reported with an IN is
\* dropped (Channel.cpp:60-78, Connection.cpp:51-90, 129-152).
THEOREM NoEdgeLostHolds == SafetySpec => []NoEdgeLost
BY IOInvHolds, IOInvImpliesNoEdgeLost, PTL

\* When a connection ends the process by SIGPIPE, the client has closed and reset it; when
\* it does so by exit(-1) for a failed update, a worker had queued a reply and the
\* connection was closed; and when it does so by a callback called half written, it is in
\* one of the three situations of TornCallbackCalled (Channel.cpp:65,
\* Connection.cpp:40-41, 80-81, 110-150, Epoll.cpp:21-39, TcpServer.cpp:57-60).  The
\* failure of epoll_wait (Epoll.cpp:61-64) is the only other end of the model.
THEOREM EndsInKnownWaysHolds == SafetySpec => []EndsInKnownWays
<1>1. IOInv => EndsInKnownWays
  BY DEF IOInv
<1> QED BY <1>1, IOInvHolds, PTL

\* What was received is the beginning of what is in order.
LEMMA IOInvImpliesRepliesInOrder == IOInv => RepliesInOrder
<1> SUFFICES ASSUME IOInv, OneWorker
             PROVE  IsPrefix(IF rst THEN received ELSE received \o sockOut \o outputBuffer,
                             RepliesTo(handled))
  BY DEF RepliesInOrder
<1>1. RepliesTo(handled) \in Seq(Units)
  BY OnTheWayType DEF IOInv
<1>2. CASE rst
  BY <1>2 DEF IOInv, ReplyOrderKept
<1>3. CASE ~ rst
  BY <1>1, <1>3, OnTheWayPrefix DEF IOInv, ReplyOrderKept
<1> QED BY <1>2, <1>3

\* With one worker or none, partial sends neither tear nor mix replies, and no later
\* reply overtakes an earlier one (HttpServer.cpp:50-59, Connection.cpp:129-148).
THEOREM RepliesInOrderHolds == SafetySpec => []RepliesInOrder
BY IOInvHolds, IOInvImpliesRepliesInOrder, PTL

-----------------------------------------------------------------------------
(* A Connection is a stream of replies.                                    *)

\* The refinement mapping, by name: what is pending and whether the stream is open.
Pending ==
  IF rst THEN <<>> ELSE IF disconnect \/ ~Running THEN sockOut ELSE sockOut \o outputBuffer

\* Nobody has closed or reset the connection, and the process runs.
Open == ~disconnect /\ ~rst /\ Running

\* A step that appends a reply to what is pending is an Accept, ...
LEMMA StreamAccepts ==
  ASSUME NEW r \in AllReplies, Open, Pending' = Pending \o r, Open' = Open, received' = received
  PROVE  Stream!Next
<1>1. Stream!Accept(r)
  BY DEF Stream!Accept, Pending, Open
<1> QED BY <1>1 DEF Stream!Next

\* ... one that cuts it and closes is a Close, ...
LEMMA StreamCloses ==
  ASSUME NEW n \in 0..Len(Pending), Pending' = SubSeq(Pending, 1, n), Open' = FALSE,
         received' = received
  PROVE  Stream!Next
<1>1. Stream!Close
  BY DEF Stream!Close, Pending, Open
<1> QED BY <1>1 DEF Stream!Next

\* ... and one that touches none of it is none.
LEMMA StreamStutters ==
  ASSUME Pending' = Pending, Open' = Open, received' = received
  PROVE  UNCHANGED Stream!streamVars
BY DEF Stream!streamVars, Pending, Open

\* The steps that the stream can notice.
LEMMA StepsOfStream ==
  ASSUME IOInv, [Next]_vars
  PROVE  \/ ClientReceive \/ Reset \/ ReadEnd \/ CallTornCallback \/ HandleMessage
         \/ SendBytes \/ SendInLoop \/ SendKilled \/ EpollFails
         \/ UNCHANGED <<sockOut, outputBuffer, received, rst, disconnect>> /\ Running' = Running
BY DEF Next, Client, Main, Loop, Worker, vars, socketVars, epollVars, connVars,
     loopVars,
       workerVars, history, Arrive, Fin, SetCloseCallback,
     SetMessageCallback, SetSendCompleteCallback, SetCallback, EpollWait,
       DispatchDone, HandleEvent, ReadBytes, ReadError, ReadAgain, PickNothing,
       IgnoreMessage, SendError, HandleWakeUp, DrainDone, TakeMessage, TestDisconnect,
       QueueReply, Picked, Running

\* Seen from those who send through it, a Connection is a stream: every step accepts a
\* reply, delivers the next unit, closes the stream, which may give up the end of what
\* is pending, or does nothing to it (Connection.cpp:92-152, Channel.cpp:60-78).
THEOREM ImplementsReplyStreamSafety == SafetySpec => Stream!Safety
<1>1. Init => Stream!Init
  <2> SUFFICES ASSUME Init PROVE Stream!Init
    OBVIOUS
  <2>1. <<>> \o <<>> = <<>>
    BY EmptySeq, ConcatEmptySeq
  <2>2. Running /\ ~disconnect /\ ~rst /\ sockOut = <<>> /\ outputBuffer = <<>> /\ received = <<>>
    BY DEF Init, Running
  <2> QED BY <2>1, <2>2 DEF Stream!Init
<1>2. IOInv /\ [Next]_vars => [Stream!Next]_(Stream!streamVars)
  <2> SUFFICES ASSUME IOInv, [Next]_vars
               PROVE  Stream!Next \/ UNCHANGED Stream!streamVars
    BY Zenon
  <2> DEFINE all == sockOut \o outputBuffer
  <2>0. /\ received \in Seq(Units) /\ sockOut \in Seq(Units) /\ outputBuffer \in Seq(Units)
        /\ all \in Seq(Units) /\ Pending \in Seq(Units)
    <3>1. received \in Seq(Units) /\ sockOut \in Seq(Units) /\ outputBuffer \in Seq(Units)
      BY OnTheWayType DEF IOInv
    <3> QED BY <3>1, ConcatProperties DEF Pending
  <2>1. ASSUME ClientReceive PROVE Stream!Next
    <3>1. /\ sockOut # <<>> /\ ~ rst
          /\ received' = Append(received, Head(sockOut)) /\ sockOut' = Tail(sockOut)
          /\ UNCHANGED <<outputBuffer, rst, disconnect, loopPc>>
      BY <2>1 DEF ClientReceive, connVars, loopVars, IOInv, ResetSeen
    <3>2. /\ Pending # <<>> /\ Head(Pending) = Head(sockOut) /\ Pending' = Tail(Pending)
      BY <2>0, <3>1, HeadTailOfConcat DEF Pending, Running
    <3>3. Open' = Open
      BY <3>1 DEF Open, Running
    <3>4. Stream!Deliver
      BY <3>1, <3>2, <3>3 DEF Stream!Deliver, Pending, Open
    <3> QED BY <3>4 DEF Stream!Next
  <2>2. ASSUME Reset PROVE Stream!Next
    <3>1. rst' = TRUE /\ received' = received
      BY <2>2 DEF Reset, history
    <3>2. 0 \in 0..Len(Pending) /\ SubSeq(Pending, 1, 0) = <<>>
      BY <2>0, LenProperties, SubSeqEmpty
    <3>3. Pending' = SubSeq(Pending, 1, 0) /\ Open' = FALSE
      BY <3>1, <3>2 DEF Pending, Open
    <3> QED BY <3>1, <3>2, <3>3, StreamCloses
  <2>3. ASSUME /\ Running /\ ~ disconnect /\ (disconnect' \/ ~ Running')
               /\ UNCHANGED <<sockOut, received, rst>>
        PROVE  Stream!Next
    <3>1. CASE rst
      <4>1. 0 \in 0..Len(Pending) /\ SubSeq(Pending, 1, 0) = <<>>
        BY <2>0, LenProperties, SubSeqEmpty
      <4>2. Pending' = SubSeq(Pending, 1, 0) /\ Open' = FALSE
        BY <2>3, <3>1, <4>1 DEF Pending, Open
      <4> QED BY <2>3, <4>1, <4>2, StreamCloses
    <3>2. CASE ~ rst
      <4>1. Pending = all /\ Pending' = sockOut /\ Open' = FALSE
        BY <2>3, <3>2 DEF Pending, Open
      <4>2. Len(sockOut) \in 0..Len(Pending) /\ Pending' = SubSeq(Pending, 1, Len(sockOut))
        BY <2>0, <4>1, FirstOfConcat
      <4> QED BY <2>3, <4>1, <4>2, StreamCloses
    <3> QED BY <3>1, <3>2
  <2>4. ASSUME ReadEnd \/ CallTornCallback PROVE Stream!Next
    <3>1. /\ Running /\ ~ disconnect /\ (disconnect' \/ ~ Running')
          /\ UNCHANGED <<sockOut, received, rst>>
      BY <2>4 DEF ReadEnd, CallTornCallback, Picked, Running, IOInv, ReportsServed,
                  socketVars, history
    <3> QED BY <2>3, <3>1
  <2>5. ASSUME NEW r \in AllReplies, Running, ~ disconnect, outputBuffer' = outputBuffer \o r,
               UNCHANGED <<sockOut, received, rst, disconnect, loopPc>>
        PROVE  Stream!Next \/ UNCHANGED Stream!streamVars
    <3>1. Open' = Open /\ (rst => Pending' = Pending)
      BY <2>5 DEF Open, Pending, Running
    <3>2. CASE ~ rst
      <4>1. r \in Seq(Units)
        BY AllRepliesAreUnits
      <4>2. sockOut \o (outputBuffer \o r) = sockOut \o outputBuffer \o r
        BY ONLY <2>0, <4>1
      <4>3. Open /\ Pending' = Pending \o r
        BY <2>5, <3>2, <4>2 DEF Open, Pending, Running
      <4> QED BY <2>5, <3>1, <4>3, StreamAccepts
    <3> QED BY <2>5, <3>1, <3>2, StreamStutters
  <2>6. ASSUME UNCHANGED <<sockOut, outputBuffer, received, rst, disconnect>>, Running' = Running
        PROVE  UNCHANGED Stream!streamVars
    <3>1. Pending' = Pending /\ Open' = Open /\ received' = received
      BY <2>6 DEF Pending, Open
    <3> QED BY <3>1, StreamStutters
  <2>7. ASSUME HandleMessage PROVE Stream!Next \/ UNCHANGED Stream!streamVars
    <3>1. /\ Running /\ ~ disconnect /\ inputBuffer \in Messages
          /\ UNCHANGED <<sockOut, received, rst, disconnect, loopPc>>
      BY <2>7 DEF HandleMessage, Picked, Running, IOInv, ReportsServed, TypeOK,
           Messages,
                  loopVars
    <3>2. CASE AppendAndEnable(Reply(inputBuffer))
      BY <2>5, <3>1, <3>2, ReplyType DEF AppendAndEnable
    <3>3. CASE UNCHANGED outputBuffer
      BY <2>6, <3>1, <3>3 DEF Running
    <3> QED BY <2>7, <3>2, <3>3 DEF HandleMessage
  <2>8. ASSUME SendInLoop PROVE Stream!Next \/ UNCHANGED Stream!streamVars
    <3>1. /\ loopPc = "drain" /\ Running
          /\ outputBuffer' = outputBuffer \o Head(loopQueue)
          /\ UNCHANGED <<sockOut, received, rst, disconnect>>
          /\ disconnect \/ UNCHANGED loopPc
      BY <2>8 DEF SendInLoop, AppendAndEnable, Running, history
    <3>2. Head(loopQueue) \in AllReplies
      BY <2>8, HeadTailProperties DEF SendInLoop, IOInv, TypeOK
    <3>3. CASE disconnect
      <4>1. Pending' = Pending /\ Open' = Open
        BY <3>1, <3>3 DEF Pending, Open
      <4> QED BY <3>1, <4>1, StreamStutters
    <3>4. CASE ~ disconnect
      BY <2>5, <3>1, <3>2, <3>4
    <3> QED BY <3>3, <3>4
  <2>9. ASSUME SendKilled PROVE UNCHANGED Stream!streamVars
    <3>1. rst /\ UNCHANGED <<received, rst>>
      BY <2>9 DEF SendKilled, socketVars, history
    <3>2. Pending' = Pending /\ Open' = Open
      BY <3>1 DEF Pending, Open
    <3> QED BY <3>1, <3>2, StreamStutters
  <2>10. ASSUME SendBytes PROVE Stream!Next \/ UNCHANGED Stream!streamVars
    <3> DEFINE n == Least(Len(outputBuffer), SendCap - Len(sockOut))
               sent == SubSeq(outputBuffer, 1, n)
               rest == SubSeq(outputBuffer, n + 1, Len(outputBuffer))
    <3>1. /\ outputBuffer' = rest /\ sockOut' = sockOut \o sent
          /\ loopPc = "write" /\ ~ disconnect /\ ~ rst
          /\ loopPc' = "dispatch" \/ (rest = <<>> /\ loopPc' = "crash")
          /\ UNCHANGED <<received, rst, disconnect>>
      BY <2>10 DEF SendBytes, history, IOInv, ReportsServed
    <3>2. n \in 0..Len(outputBuffer)
      <4>1. /\ Len(outputBuffer) \in Nat /\ Len(sockOut) \in Nat
            /\ Len(sockOut) <= SendCap /\ SendCap \in Nat
        BY <2>0, LenProperties, IOAssumption DEF IOInv, TypeOK
      <4> QED BY ONLY <4>1 DEF Least
    <3> HIDE DEF n
    <3>3. sent \in Seq(Units) /\ rest \in Seq(Units) /\ sent \o rest = outputBuffer
      BY ONLY <2>0, <3>2, CutInTwo
    <3> HIDE DEF sent, rest
    <3>4. (sockOut \o sent) \o rest = sockOut \o (sent \o rest)
      <4>1. sockOut \in Seq(Units) /\ sent \in Seq(Units) /\ rest \in Seq(Units)
        BY <2>0, <3>3
      <4> QED BY ONLY <4>1
    <3>5. CASE loopPc' = "dispatch"
      <4>1. Pending' = Pending /\ Open' = Open
        BY <3>1, <3>3, <3>4, <3>5 DEF Pending, Open, Running
      <4> QED BY <3>1, <4>1, StreamStutters
    <3>6. CASE rest = <<>> /\ loopPc' = "crash"
      <4>1. sockOut \o sent = all
        BY <2>0, <3>3, <3>6, ConcatEmptySeq
      <4>2. Pending = all /\ Pending' = all /\ Open' = FALSE
        BY <3>1, <3>6, <4>1 DEF Pending, Open, Running
      <4>3. Len(all) \in 0..Len(Pending) /\ SubSeq(Pending, 1, Len(all)) = all
        BY <2>0, <4>2, LenProperties, SubSeqFull
      <4> QED BY <3>1, <4>2, <4>3, StreamCloses
    <3> QED BY <3>1, <3>5, <3>6
  <2>11. ASSUME EpollFails PROVE Stream!Next \/ UNCHANGED Stream!streamVars
    <3>1. /\ Running /\ ~ Running'
          /\ UNCHANGED <<sockOut, outputBuffer, received, rst, disconnect>>
      BY <2>11 DEF EpollFails, Running, socketVars, connVars, history
    <3>2. CASE disconnect
      <4>1. Pending' = Pending /\ Open' = Open
        BY <3>1, <3>2 DEF Pending, Open
      <4> QED BY <3>1, <4>1, StreamStutters
    <3>3. CASE ~ disconnect
      BY <2>3, <3>1, <3>3
    <3> QED BY <3>2, <3>3
  <2> QED BY <2>1, <2>2, <2>4, <2>6, <2>7, <2>8, <2>9, <2>10, <2>11, StepsOfStream
<1> QED BY <1>1, <1>2, IOInvHolds, PTL DEF SafetySpec, Stream!Safety
==============================================================================
