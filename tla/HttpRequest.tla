---------------------------- MODULE HttpRequest ------------------------------
(***************************************************************************)
(* The parser of requests (http/HttpRequest.cpp): one pass over the lines  *)
(* of a message, in one of three states.  The elements of a string are     *)
(* words ("GET", "HTTP", "1.1", ...) and single bytes (blanks, ":", "/").  *)
(***************************************************************************)
EXTENDS Text

EmptyMap == [k \in {} |-> <<>>]

\* map[key] = value
Put(map, key, value) ==
  [k \in DOMAIN map \cup {key} |-> IF k = key THEN value ELSE map[k]]

String2Method(str) ==
  IF str = <<"GET">> THEN "GET" ELSE IF str = <<"POST">> THEN "POST" ELSE "UNKNOW"

String2Version(str) ==
  IF str = <<"HTTP", "/", "1.1">> THEN "V1_1"
  ELSE IF str = <<"HTTP", "/", "2.0">> THEN "V2_0" ELSE "UNKNOW"

\* processStatus: 0 - request line; 1 - headers; 2 - body
DefaultRequest ==
  [method |-> "GET", version |-> "V1_1", path |-> <<"HTTP", "/", "1.1">>,
   headers |-> EmptyMap, body |-> <<>>, processStatus |-> 0]

ParseRequestLine(request, line) ==
  LET element == Split(Trim(line), " ") IN
  [request EXCEPT
     !.method = String2Method(element[1]),
     !.path = IF Len(element) >= 2 THEN element[2] ELSE @,
     !.version = IF Len(element) >= 3 THEN String2Version(element[3]) ELSE @,
     !.processStatus = 1]

\* The value ends at the next colon.
ParseHeader(request, line) ==
  LET element == Split(Trim(line), ":") IN
  [request EXCEPT !.headers = Put(@, Trim(element[1]), Trim(element[2]))]

\* Mutant: a line with a colon is a header in the body too.
ParseLineAnyHeader(request, line) ==
  CASE request.processStatus = 0 /\ Contains(line, "HTTP") ->
         ParseRequestLine(request, line)
    [] request.processStatus > 0 /\ Contains(line, ":") -> ParseHeader(request, line)
    [] request.processStatus = 1 /\ line = <<>> -> [request EXCEPT !.processStatus = 2]
    [] request.processStatus = 2 /\ ~Contains(line, ":") ->
         [request EXCEPT !.body = @ \o line]
    [] OTHER -> request

\* A line that ends in "\r" is not empty.
ParseLine(request, line) ==
  CASE request.processStatus = 0 /\ Contains(line, "HTTP") ->
         ParseRequestLine(request, line)
    [] request.processStatus = 1 /\ Contains(line, ":") -> ParseHeader(request, line)
    [] request.processStatus = 1 /\ line = <<>> -> [request EXCEPT !.processStatus = 2]
    [] request.processStatus = 2 -> [request EXCEPT !.body = @ \o line]
    [] OTHER -> request

Parse(message) == FoldLeft(ParseLine, DefaultRequest, Split(message, "\n"))
==============================================================================
