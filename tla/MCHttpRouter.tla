---------------------------- MODULE MCHttpRouter -----------------------------
(* HttpRouter for TLC: patterns that fit in part before another one fits,   *)
(* requests with both line ends, colons in value and body, and odd paths.   *)
EXTENDS HttpRouter

Slash(s) == <<"/">> \o s
Key(k) == <<"{", k, "}">>

MCPatterns ==
  <<[method |-> "GET", path |-> <<"/">>],
    [method |-> "GET", path |-> Slash(Key("id"))],
    [method |-> "GET", path |-> Slash(Key("a")) \o Slash(<<"x">>)],
    [method |-> "POST", path |-> Slash(<<"x">>) \o Slash(Key("b"))],
    [method |-> "GET", path |-> Slash(Key("b")) \o Slash(Key("c")) \o <<"/">>]>>

Ask(whole, method, path, slash, crlf, headers, body) ==
  [whole |-> whole, method |-> method, path |-> path, slash |-> slash, crlf |-> crlf,
   headers |-> headers, body |-> body]

MCRequests ==
  {Ask(TRUE, "GET", path, FALSE, TRUE, <<>>, <<>>) : path \in {<<>>, <<"x", "x">>}}
  \cup {Ask(TRUE, "GET", path, FALSE, FALSE, <<>>, <<>>) : path \in {<<"y">>, <<"x", "y">>}}
  \cup {Ask(TRUE, "POST", <<"x", "y">>, TRUE, crlf,
            <<<<"k", <<"v">>>>, <<"Host", <<"127.0.0.1", "5005">>>>, <<"k", <<"w">>>>>>,
            <<"m", ":", "v", "\n", "HTTP">>) : crlf \in BOOLEAN}
  \cup {Ask(FALSE, "POST", <<>>, FALSE, FALSE, <<<<"k", <<"v">>>>>>, <<"n", "HTTP">>)}
  \cup {Ask(TRUE, "PUT", <<"y">>, FALSE, FALSE, <<>>, <<>>),
        Ask(TRUE, "GET", <<"*">>, FALSE, TRUE, <<<<"k", <<"v">>>>>>, <<>>)}

MCBlanks == {" ", "\r", "\n"}
==============================================================================
