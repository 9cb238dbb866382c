----------------------------- MODULE HttpRouter ------------------------------
(***************************************************************************)
(* Requests on their way through HttpServer::OnMessage and HttpRouter,     *)
(* which all I/O threads (or all workers) execute at the same time, with   *)
(* one router and no lock.  The path of a pattern is split when a request  *)
(* first comes to it, into m_PatternSplited of the pattern that the        *)
(* threads share.                                                          *)
(*                                                                         *)
(* A client's request is given by what it means (method, segments of the   *)
(* path, headers, body, how lines end); Encode makes it the message that   *)
(* Parse gets.  Two threads at one vector, one of which assigns it, are a  *)
(* data race: anything can follow, or nothing.                             *)
(***************************************************************************)
EXTENDS HttpRequest

CONSTANTS
  Threads,          \* the threads that call HttpServer::OnMessage
  Requests,         \* the requests clients send
  Patterns          \* m_Pattern: a sequence of [method, path]

\* What a client writes between the bytes that the parser looks for; the value of a
\* header is words with a colon between each two, as in 127.0.0.1:5005.
Words == STRING \ (Blanks \cup {"/", ":"})
HeaderValues == Seq(Words) \ {<<>>}

ASSUME ClientAssumption ==
  /\ {" ", "\r", "\n"} \subseteq Blanks
  /\ Requests # {}
  /\ Requests \subseteq
       [whole : BOOLEAN, method : Words, path : Seq(Words), slash : BOOLEAN,
        crlf : BOOLEAN, headers : Seq(Words \X HeaderValues), body : Seq(STRING)]

ASSUME RouterAssumption ==
  /\ Patterns \in Seq([method : {"GET", "POST", "UNKNOW"}, path : Seq(STRING)])
  /\ \A i \in 1..Len(Patterns) : Contains(Patterns[i].path, "/")

VARIABLES
  splited,          \* m_PatternSplited of each pattern
  cached,           \* the patterns with m_PatternCached
  process,          \* "running", or "undefined" after undefined behaviour
  pc,               \* where each thread is
  asked,            \* the client's request a thread has got
  request,          \* the HttpRequset made of its message
  idx, outKvs       \* local variables of CheckPathPattern; idx counts from 1

vars == <<splited, cached, process, pc, asked, request, idx, outKvs>>

-----------------------------------------------------------------------------
(* The client.                                                             *)

NoRequest == CHOOSE r \in Requests : TRUE

Eol(r) == IF r.crlf THEN <<"\r", "\n">> ELSE <<"\n">>

\* "*" stands for a path that does not begin with a slash.
Path(r) ==
  IF r.path = <<"*">> THEN <<"*">>
  ELSE FlattenSeq([i \in 1..Len(r.path) |-> <<"/", r.path[i]>>])
         \o (IF r.path = <<>> \/ r.slash THEN <<"/">> ELSE <<>>)

\* A message that begins inside a request has no request line.
RequestLine(r) ==
  IF r.whole THEN <<r.method, " ">> \o Path(r) \o <<" ", "HTTP", "/", "1.1">> \o Eol(r)
  ELSE <<>>

\* The words of a value after the first.
MoreWords(value) ==
  [k \in 1..2 * (Len(value) - 1) |-> IF k % 2 = 1 THEN ":" ELSE value[k \div 2 + 1]]

HeaderLine(h) == <<h[1], ":", " ", Head(h[2])>> \o MoreWords(h[2])

Encode(r) ==
  RequestLine(r)
    \o FlattenSeq([i \in 1..Len(r.headers) |-> HeaderLine(r.headers[i]) \o Eol(r)])
    \o Eol(r)
    \o r.body

-----------------------------------------------------------------------------
(* HttpRouter                                                              *)

\* Undefined for a path without a slash: the last part of an empty vector is read.
SplitPath(path) ==
  LET parts == Tail(Split(path, "/")) IN
  IF Last(parts) = <<>> THEN Front(parts) ELSE parts

IsKey(token) == At(token, 0) = <<"{">> /\ At(token, Len(token) - 1) = <<"}">>
KeyName(token) == SubStr(token, 1, Len(token) - 2)

\* The values of kvs in the place of those of others.
Over(kvs, others) ==
  [k \in DOMAIN kvs \cup DOMAIN others |-> IF k \in DOMAIN kvs THEN kvs[k] ELSE others[k]]

\* The keys among the first n parts of a pattern, with the last value of each.
KeysBound(arrPath, arrPatt, n) ==
  LET keys == {i \in 1..n : IsKey(arrPatt[i])} IN
  [k \in {KeyName(arrPatt[i]) : i \in keys} |->
     arrPath[Max({i \in keys : KeyName(arrPatt[i]) = k})]]

\* The first part that is neither a key nor equal; one past the end if there is none.
FirstUnequal(arrPath, arrPatt) ==
  Min({i \in 1..Len(arrPath) : ~IsKey(arrPatt[i]) /\ arrPath[i] # arrPatt[i]}
        \cup {Len(arrPath) + 1})

\* Thread t is reading or writing the split form of pattern i.
Assigns(t, i) == pc[t] = "assign" /\ idx[t] = i
Uses(t, i) == pc[t] \in {"assign", "match", "copy"} /\ idx[t] = i

Init ==
  /\ splited = [i \in 1..Len(Patterns) |-> <<>>]
  /\ cached = {}
  /\ process = "running"
  /\ pc = [t \in Threads |-> "idle"]
  /\ asked = [t \in Threads |-> NoRequest]
  /\ request = [t \in Threads |-> DefaultRequest]
  /\ idx = [t \in Threads |-> 0]
  /\ outKvs = [t \in Threads |-> EmptyMap]

\* The end of the loop over the patterns, or its next step; i is 0 before it.
NextPattern(t, i) ==
  /\ idx' = [idx EXCEPT ![t] = IF i < Len(Patterns) THEN i + 1 ELSE 0]
  /\ pc' = [pc EXCEPT ![t] = IF i < Len(Patterns) THEN "test" ELSE "answer"]

\* HttpServer::OnMessage: the message becomes a HttpRequset, and CheckPathPattern
\* splits its path.
OnMessage(t, r) ==
  /\ process = "running"
  /\ pc[t] = "idle"
  /\ asked' = [asked EXCEPT ![t] = r]
  /\ request' = [request EXCEPT ![t] = Parse(Encode(r))]
  /\ NextPattern(t, 0)
  /\ outKvs' = [outKvs EXCEPT ![t] = EmptyMap]
  /\ process' = IF Contains(request'[t].path, "/") THEN "running" ELSE "undefined"
  /\ UNCHANGED <<splited, cached>>

\* if (request.p_Method != pattern.p_Method) continue
SkipMethod(t) ==
  /\ process = "running"
  /\ pc[t] = "test" /\ request[t].method # Patterns[idx[t]].method
  /\ NextPattern(t, idx[t])
  /\ UNCHANGED <<splited, cached, process, asked, request, outKvs>>

\* Mutant: the pattern is split for every request.
TestCachedIgnored(t) ==
  /\ process = "running"
  /\ pc[t] = "test" /\ request[t].method = Patterns[idx[t]].method
  /\ pc' = [pc EXCEPT ![t] = "split"]
  /\ UNCHANGED <<splited, cached, process, asked, request, idx, outKvs>>

\* if (!pattern.m_PatternCached)
TestCached(t) ==
  /\ process = "running"
  /\ pc[t] = "test" /\ request[t].method = Patterns[idx[t]].method
  /\ pc' = [pc EXCEPT ![t] = IF idx[t] \in cached THEN "match" ELSE "split"]
  /\ process' \in IF idx[t] \in cached /\ \E u \in Threads : Assigns(u, idx[t])
                  THEN {"running", "undefined"} ELSE {"running"}
  /\ UNCHANGED <<splited, cached, asked, request, idx, outKvs>>

\* arrPatt = SplitPath(...) begins: what the vector held is given up.
BeginAssign(t) ==
  /\ process = "running"
  /\ pc[t] = "split"
  /\ pc' = [pc EXCEPT ![t] = "assign"]
  /\ process' \in IF \E u \in Threads \ {t} : Uses(u, idx[t])
                  THEN {"running", "undefined"} ELSE {"running"}
  /\ UNCHANGED <<splited, cached, asked, request, idx, outKvs>>

EndAssign(t) ==
  /\ process = "running"
  /\ pc[t] = "assign"
  /\ splited' = [splited EXCEPT ![idx[t]] = SplitPath(Patterns[idx[t]].path)]
  /\ pc' = [pc EXCEPT ![t] = "mark"]
  /\ UNCHANGED <<cached, process, asked, request, idx, outKvs>>

\* m_PatternCached = true
MarkCached(t) ==
  /\ process = "running"
  /\ pc[t] = "mark"
  /\ cached' = cached \cup {idx[t]}
  /\ pc' = [pc EXCEPT ![t] = "match"]
  /\ process' \in IF \E u \in Threads : Assigns(u, idx[t])
                  THEN {"running", "undefined"} ELSE {"running"}
  /\ UNCHANGED <<splited, asked, request, idx, outKvs>>

\* if (arrPath.size() != arrPatt.size()) continue
SkipLength(t) ==
  /\ process = "running"
  /\ pc[t] = "match" /\ Len(SplitPath(request[t].path)) # Len(splited[idx[t]])
  /\ NextPattern(t, idx[t])
  /\ UNCHANGED <<splited, cached, process, asked, request, outKvs>>

\* Mutant: the keys of a pattern that does not match are kept.
MatchKeepKeys(t) ==
  LET arrPath == SplitPath(request[t].path)
      arrPatt == splited[idx[t]]
      end == FirstUnequal(arrPath, arrPatt) IN
  /\ process = "running"
  /\ pc[t] = "match" /\ Len(arrPath) = Len(arrPatt)
  /\ outKvs' = [outKvs EXCEPT ![t] = Over(KeysBound(arrPath, arrPatt, end - 1), @)]
  /\ IF end > Len(arrPath)
     THEN pc' = [pc EXCEPT ![t] = "copy"] /\ UNCHANGED idx
     ELSE NextPattern(t, idx[t])
  /\ UNCHANGED <<splited, cached, process, asked, request>>

\* The loop over the parts: keys are stored as they are met, and all are cleared
\* when a later part is not equal.
Match(t) ==
  LET arrPath == SplitPath(request[t].path)
      arrPatt == splited[idx[t]] IN
  /\ process = "running"
  /\ pc[t] = "match" /\ Len(arrPath) = Len(arrPatt)
  /\ \/ /\ FirstUnequal(arrPath, arrPatt) > Len(arrPath)
        /\ outKvs' = [outKvs EXCEPT ![t] = Over(KeysBound(arrPath, arrPatt, Len(arrPath)), @)]
        /\ pc' = [pc EXCEPT ![t] = "copy"] /\ UNCHANGED idx
     \/ /\ FirstUnequal(arrPath, arrPatt) <= Len(arrPath)
        /\ outKvs' = [outKvs EXCEPT ![t] = EmptyMap]
        /\ NextPattern(t, idx[t])
  /\ UNCHANGED <<splited, cached, process, asked, request>>

\* RequestPattern pattern = m_Pattern[idx]: the split form is copied as well.
CopyPattern(t) ==
  /\ process = "running"
  /\ pc[t] = "copy"
  /\ pc' = [pc EXCEPT ![t] = "answer"]
  /\ UNCHANGED <<splited, cached, process, asked, request, idx, outKvs>>

\* pattern.p_Handler(outKvs).Send(conn), or 404 when idx is none of the patterns; the
\* request and the local variables are gone.
Answer(t) ==
  /\ process = "running"
  /\ pc[t] = "answer"
  /\ pc' = [pc EXCEPT ![t] = "idle"]
  /\ asked' = [asked EXCEPT ![t] = NoRequest]
  /\ request' = [request EXCEPT ![t] = DefaultRequest]
  /\ idx' = [idx EXCEPT ![t] = 0]
  /\ outKvs' = [outKvs EXCEPT ![t] = EmptyMap]
  /\ UNCHANGED <<splited, cached, process>>

Undefined == process = "undefined" /\ UNCHANGED vars

Route(t) ==
  \/ SkipMethod(t) \/ TestCached(t)
  \/ BeginAssign(t) \/ EndAssign(t) \/ MarkCached(t)
  \/ SkipLength(t) \/ Match(t)
  \/ CopyPattern(t) \/ Answer(t)

Next ==
  \/ \E t \in Threads, r \in Requests : OnMessage(t, r)
  \/ \E t \in Threads : Route(t)
  \/ Undefined

Spec == Init /\ [][Next]_vars

-----------------------------------------------------------------------------
(* What a request means, for reference.                                    *)

\* A pattern for UNKNOW is for all the methods that the server does not know.
Fits(r, i) ==
  LET patt == SplitPath(Patterns[i].path) IN
  /\ Patterns[i].method = IF r.method \in {"GET", "POST"} THEN r.method ELSE "UNKNOW"
  /\ Len(r.path) = Len(patt)
  /\ \A n \in 1..Len(patt) : IsKey(patt[n]) \/ patt[n] = <<r.path[n]>>

\* The first pattern that fits; 0 when none does.
Chosen(r) ==
  LET fitting == {i \in 1..Len(Patterns) : Fits(r, i)} IN
  IF fitting = {} THEN 0 ELSE Min(fitting)

\* The parameters are exactly the keys of the pattern, each with a part in its place.
ParametersOf(r, i, kvs) ==
  LET patt == SplitPath(Patterns[i].path)
      keys == {n \in 1..Len(patt) : IsKey(patt[n])} IN
  /\ DOMAIN kvs = {KeyName(patt[n]) : n \in keys}
  /\ \A k \in DOMAIN kvs : \E n \in keys :
       KeyName(patt[n]) = k /\ kvs[k] = <<r.path[n]>>

-----------------------------------------------------------------------------
(* Properties                                                              *)

TypeOK ==
  /\ splited \in [1..Len(Patterns) ->
                    {<<>>} \cup {SplitPath(Patterns[i].path) : i \in 1..Len(Patterns)}]
  /\ cached \subseteq 1..Len(Patterns)
  /\ process \in {"running", "undefined"}
  /\ pc \in [Threads -> {"idle", "test", "split", "assign", "mark", "match", "copy",
                         "answer"}]
  /\ asked \in [Threads -> Requests]
  /\ idx \in [Threads -> 0..Len(Patterns)]
  /\ \A t \in Threads : pc[t] \notin {"idle", "answer"} => idx[t] # 0
  /\ DOMAIN request = Threads /\ DOMAIN outKvs = Threads

\* The handler that answers is that of the first pattern that fits the client's
\* request, with the keys of that pattern and no others, and 404 answers the rest:
\* whatever patterns fit in part before, whichever thread split them, and however the
\* lines of the request end (HttpRouter.cpp:29-86, HttpRequest.cpp:7-28).
AnswerRight ==
  \A t \in Threads : process = "running" /\ pc[t] = "answer" /\ asked[t].whole =>
    /\ idx[t] = Chosen(asked[t])
    /\ idx[t] # 0 => ParametersOf(asked[t], idx[t], outKvs[t])

\* Of a request whose lines end in "\n" the version and all headers are found, each with
\* the value given last, which is cut at its first colon: 127.0.0.1:5005 is 127.0.0.1.
\* The lines of the body are run together without their ends, and one with a colon is
\* no header (HttpRequest.cpp:30-42).
LfRequestParsed ==
  \A t \in Threads : pc[t] # "idle" /\ asked[t].whole /\ ~asked[t].crlf =>
    LET r == asked[t]
        q == request[t] IN
    /\ q.version = "V1_1"
    /\ q.body = FlattenSeq(Split(r.body, "\n"))
    /\ DOMAIN q.headers = {<<r.headers[i][1]>> : i \in 1..Len(r.headers)}
    /\ \A i \in 1..Len(r.headers) :
         (\A j \in i + 1..Len(r.headers) : r.headers[j][1] # r.headers[i][1])
           => q.headers[<<r.headers[i][1]>>] = <<Head(r.headers[i][2])>>

\* A pattern that is marked as split has its split form in place, unless a thread
\* that saw it unmarked is assigning the same value again (HttpRouter.cpp:43-46).
CachedIsSplit ==
  process = "running" =>
    \A i \in cached : splited[i] = SplitPath(Patterns[i].path)

\* A thread that has passed the test of m_PatternCached finds the split form in place,
\* by whichever thread it was put there.
SplitWhenUsed ==
  process = "running" =>
    \A t \in Threads : pc[t] \in {"mark", "match", "copy"} =>
      splited[idx[t]] = SplitPath(Patterns[idx[t]].path)

\* The request of a thread is the one of the message it got.
RequestOfMessage ==
  \A t \in Threads :
    request[t] = IF pc[t] = "idle" THEN DefaultRequest ELSE Parse(Encode(asked[t]))

\* The path that a thread has split contains a slash.
SlashInPath ==
  process = "running" =>
    \A t \in Threads : pc[t] # "idle" => Contains(request[t].path, "/")

\* The patterns that thread t has passed do not fit, the one it is at has the method of
\* the request, and the keys are those of a pattern that fits or none.
Searched(t) ==
  LET r == asked[t]
      found == pc[t] \in {"copy", "answer"} /\ idx[t] # 0 IN
  /\ \A i \in 1..(IF idx[t] = 0 THEN Len(Patterns) ELSE idx[t] - 1) : ~Fits(r, i)
  /\ pc[t] \in {"split", "assign", "mark", "match"} =>
       request[t].method = Patterns[idx[t]].method
  /\ found => Fits(r, idx[t]) /\ ParametersOf(r, idx[t], outKvs[t])
  /\ ~found => outKvs[t] = EmptyMap

SearchedInOrder ==
  process = "running" =>
    \A t \in Threads : pc[t] # "idle" /\ asked[t].whole => Searched(t)

\* The types, what the threads share, and what they find and answer, as stated above:
\* inductive.
RouterInv ==
  /\ TypeOK
  /\ CachedIsSplit /\ SplitWhenUsed
  /\ RequestOfMessage /\ SlashInPath /\ SearchedInOrder
  /\ AnswerRight

AllSplit ==
  cached = 1..Len(Patterns) /\ \A t \in Threads : pc[t] \notin {"split", "assign"}

\* The race ends: once every pattern is marked and no thread is left that saw one
\* unmarked, no request splits a pattern again, and only a path without a slash is
\* undefined (HttpRouter.cpp:43, 84).
RaceEnds ==
  [][AllSplit =>
       /\ AllSplit'
       /\ process' # process => \E t \in Threads : ~Contains(request'[t].path, "/")]_vars
==============================================================================
