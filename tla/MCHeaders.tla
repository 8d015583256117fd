------------------------------- MODULE MCHeaders -------------------------------
(***************************************************************************)
(* HeadersMore for TLC.  Three servers, each to look at one side of the    *)
(* module: "config" has every directive of up to three arguments, and up   *)
(* to three directives at each level; "input" edits requests whose lines   *)
(* fill one part of the list or two; "output" edits responses.             *)
(***************************************************************************)
EXTENDS HeadersMore, TLC

MCCovered == [w \in {"x-*"} |-> {"x-a", "x-b"}]
MCText == {"v", "w", "5", "7", "text/html", "text/css"}
MCNumber == [t \in MCText |-> IF t = "5" THEN 5 ELSE IF t = "7" THEN 7 ELSE -1]

UpTo(S, m) == UNION {[1..k -> S] : k \in 0..m}

------------------------------------------------------------------------------
(* Arguments and directives                                                *)

Blank == [option |-> "none", key |-> "", value |-> "", types |-> {},
          statuses |-> NotDigits]
Header(k, v) == [Blank EXCEPT !.key = k, !.value = v]
Option(o) == [Blank EXCEPT !.option = o]
Types(S) == [Blank EXCEPT !.key = "text/css", !.types = S]
Statuses(S) == [Blank EXCEPT !.key = "404", !.statuses = S]

Set(args) == [input |-> FALSE, clear |-> FALSE, args |-> args]
Clear(args) == [input |-> FALSE, clear |-> TRUE, args |-> args]
SetIn(args) == [input |-> TRUE, clear |-> FALSE, args |-> args]
ClearIn(args) == [input |-> TRUE, clear |-> TRUE, args |-> args]

MCArg == {Header("x-a", "v"), Header("*", ""), Option("-t"), Option("-s"), Option("-r"),
          Option("empty"), Types({"text/css"}), Statuses({404})}

EveryDirective ==
    {<<<<>>, <<[input |-> i, clear |-> FALSE, args |-> a]>>>> :
        i \in BOOLEAN, a \in UpTo(MCArg, 3) \ {<<>>}}

\* Directives that can be told apart, in every number of them at each level.
Told(level) == [k \in 1..3 |-> IF k = 2 THEN SetIn(<<Header("x-a", level)>>)
                               ELSE ClearIn(<<Header(IF k = 1 THEN "x-a" ELSE "x-b", "")>>)]
EveryLevel ==
    {<<SubSeq(Told("v"), 1, i), SubSeq(Told("w"), 1, j)>> : i, j \in 0..3}

------------------------------------------------------------------------------
(* Requests                                                                *)

ValueOf == [k \in {"x-a", "x-b", "host"} |-> "v"] @@ ("content-length" :> "5")
            @@ ("content-type" :> "text/html")
LinesOf(keys) == [i \in DOMAIN keys |-> [key |-> keys[i], value |-> ValueOf[keys[i]]]]

\* "x-a" and "x-b" in every order, and Host, Content-Length and Content-Type
\* in front of one and behind it.
MCRequests ==
    {LinesOf(keys) : keys \in UpTo({"x-a", "x-b"}, 4)}
    \cup {LinesOf(<<"host">> \o keys) : keys \in [1..3 -> {"x-a", "x-b"}]}
    \cup {LinesOf(<<"x-a", "content-length", "content-type", "x-a", "host">>),
          LinesOf(<<"content-type">>), <<[key |-> "content-type", value |-> ""]>>}

InputEdits ==
    {ClearIn(<<Header("x-a", ""), Header("x-b", "")>>),
     ClearIn(<<Header("x-b", ""), Header("host", "")>>),
     SetIn(<<Header("host", "w"), Header("x-a", "w")>>),
     SetIn(<<Option("-r"), Header("content-length", "7"), Header("x-b", "w"),
             Header("content-type", "text/css")>>),
     SetIn(<<Header("content-length", "v")>>),
     SetIn(<<Header("content-type", "text/css"), Header("content-length", "7")>>),
     ClearIn(<<Header("content-length", ""), Option("-t"), Types({"text/css"}),
               Header("content-type", "")>>)}

------------------------------------------------------------------------------
(* Responses                                                               *)

Page == [lines |-> LinesOf(<<"x-a", "x-b", "x-a">>), type |-> "text/html",
         length |-> 5, ranges |-> TRUE, status |-> 200]

Cached == Page.lines \o <<[key |-> "cache-control", value |-> "v"],
                          [key |-> "www-authenticate", value |-> "v"],
                          [key |-> "cache-control", value |-> "w"],
                          [key |-> "server", value |-> "v"]>>

MCResponses == {Page, [Page EXCEPT !.status = 404, !.length = -1, !.ranges = FALSE],
                [Page EXCEPT !.lines = Cached, !.type = ""]}

OutputEdits ==
    {Clear(<<Header("server", ""), Header("cache-control", "")>>),
     Set(<<Header("server", "w"), Header("x-a", "w")>>),
     Set(<<Header("cache-control", "w"), Header("www-authenticate", "w")>>),
     Set(<<Option("-s"), Statuses({404}), Header("content-length", "7")>>),
     Set(<<Option("-t"), Types({"text/html"}), Header("content-type", "text/css"),
           Header("content-length", "v")>>),
     Clear(<<Header("x-*", ""), Header("content-length", ""), Header("accept-ranges", "")>>),
     Set(<<Option("-t"), Types({"text/css"}), Header("x-b", "w"), Header("accept-ranges", "w"),
           Header("content-type", "")>>)}

------------------------------------------------------------------------------
Triples(edits) == {<<<<t[1]>>, <<t[2], t[3]>>>> : t \in [1..3 -> edits]}

MCDirectives == [config |-> EveryDirective \cup EveryLevel,
                 input |-> Triples(InputEdits), output |-> Triples(OutputEdits)]
MCRequestsOf == [config |-> {<<>>}, input |-> MCRequests, output |-> {<<>>}]
MCResponsesOf == [config |-> {Page}, input |-> {Page}, output |-> MCResponses]
==============================================================================
