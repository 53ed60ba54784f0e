----------------------------- MODULE MCPipeline ------------------------------
(* A small instance of Pipeline for TLC: every path of up to three segments,   *)
(* longer ones that begin with a modifier or with a redirect, and /mix with up *)
(* to three directives.                                                        *)
EXTENDS Pipeline, TLC

Words == {"delay", "status", "nocache", "header", "get", "redirect", "links", "cookies",
          "set", "redirect-to", "0", "2", "1-2", "302", "307", "x:y"}
Tails == {"delay", "status", "nocache", "get", "redirect", "2", "302"}
Mixes == {"s=302", "s=0", "d=2", "d=1", "d=1-2", "h=x:y", "h=bad", "b64=encoded", "x"}

MCNumber == ("0" :> 0) @@ ("1" :> 1) @@ ("2" :> 2) @@ ("3" :> 3) @@ ("103" :> 103) @@
            ("302" :> 302) @@ ("307" :> 307)
MCSpan == [s \in DOMAIN MCNumber |-> <<MCNumber[s], MCNumber[s]>>] @@ ("1-2" :> <<1, 2>>)
MCWeighted ==
    "200:1,302:2" :> <<<<200, 1>>, <<302, 2>>>> @@
    "200:0,301:3,404:0,308:1" :> <<<<200, 0>>, <<301, 3>>, <<404, 0>>, <<308, 1>>>> @@
    "200:0,302:0" :> <<<<200, 0>>, <<302, 0>>>> @@
    "200,7" :> <<<<200, 1>>, <<7, 1>>>>
MCDirective ==
    LET dir(k, v) == [kind |-> k, value |-> v]
    IN  "s=302" :> dir("s", "302") @@ "s=0" :> dir("s", "0") @@ "d=2" :> dir("d", "2") @@
        "d=1" :> dir("d", "1") @@ "d=1-2" :> dir("d", "1-2") @@ "h=x:y" :> dir("h", "x:y") @@
        "h=bad" :> dir("h", "bad") @@ "b64=encoded" :> dir("b64", "encoded")
MCReads ==
    LET read(k, s) == [kind |-> k, as |-> s]
    IN  "x:y?z" :> read("cut", "x:y") @@ "x:%79" :> read("altered", "x:y") @@
        "x:%" :> read("malformed", "x:%") @@ "?z" :> read("dropped", "?z") @@
        "2?absolute=true" :> read("cut", "2") @@ "redirect-to?url" :> read("cut", "redirect-to")
MCTargets == {Here(<<"get">>), Here(<<"..", "get">>), There("relative", <<"links", "2">>),
              There("relative", <<"..", "get">>), There("relative", <<"..", "..", "..">>),
              There("self", <<"get">>), There("other", <<>>), There("friend", <<"get">>)}
MCPrefix == <<"prefix">>

Strings(n, S) == [1 .. n -> S]

(* Large numbers only serve as status codes or delays: the handlers outside    *)
(* the pipeline would follow them down one by one.                             *)
NoLongChain(p) ==
    \A i \in 1 .. Len(p) - 1 : ~(p[i] \in Redirects /\ p[i + 1] \in {"302", "307"})

Heads == {<<"delay", "1-2">>, <<"status", "302">>, <<"status", "103">>, <<"redirect", "2">>,
          <<"nocache", "redirect", "3">>, <<"absolute-redirect", "2">>}

(* Chains with segments that do not survive in a location.                     *)
Odd == {m \o <<t, "2", d>> : m \in {<<"header", h>> : h \in {"x:y", "x:y?z", "x:%79", "x:%"}},
                             t \in Redirects, d \in {"get", "?z", "redirect-to?url"}} \cup
       {<<"redirect", "1">> \o d :
            d \in {<<"redirect", "2?absolute=true">>, <<"redirect-to?url">>, <<"?z">>}}

MCPaths ==
    {p \in UNION {Strings(n, Words) : n \in 1 .. 3} \cup
           {h \o t : h \in Heads, t \in UNION {Strings(n, Tails) : n \in 1 .. 4}} \cup
           {h \o <<"status", w>> : h \in {<<>>, <<"nocache">>}, w \in DOMAIN MCWeighted} \cup
           {<<"status", "307", "absolute-redirect", "3", "get">>, <<"absolute-redirect", "3">>} \cup
           Odd \cup
           {<<"mix">> \o m : m \in UNION {Strings(n, Mixes) : n \in 0 .. 3}} : NoLongChain(p)}
=============================================================================
