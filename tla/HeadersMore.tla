------------------------------ MODULE HeadersMore ------------------------------
(***************************************************************************)
(* ngx_headers_more from its directives to the response: the configuration *)
(* is read and merged, then one request passes the module twice.  In the   *)
(* rewrite phase the input commands of its location run, again after an    *)
(* internal redirect; in the header filter the output commands.  A command *)
(* is judged by the content type (and status) when it begins, and runs its *)
(* headers in order; the first one that fails ends the request.            *)
(***************************************************************************)
EXTENDS HeaderCommands, HeadersIn, HeadersOut

CONSTANTS
    Site,           \* the servers to look at
    Directives,     \* Directives[s]: what the configuration of s may say
    Requests,       \* Requests[s]: the lines a request to s may have
    Responses,      \* Responses[s]: what the handlers of s answer
    MaxRedirects    \* bound: internal redirects of a request

Answers == [lines : Seq(Line), type : Text \cup {""}, length : Nat \cup {-1},
            ranges : BOOLEAN, status : Nat]

ASSUME HeadersMoreAssumption ==
    /\ \A s \in Site :
        /\ Directives[s] \subseteq Configuration
        /\ Requests[s] \subseteq Seq(Line)
        /\ Responses[s] \subseteq Answers
    /\ MaxRedirects \in Nat

VARIABLES
    site,           \* the server, which never changes
    response,       \* what the content handler has answered
    phase,          \* "read", "rewrite", "content", "filter", "sent", "failed"
    n,              \* the command the phase is at
    header,         \* the header of it that is next; 0 before the command
    redirects,
    ran,            \* history: the headers run since the phase began
    began           \* history: the content type then, <<>> for none

atVars == <<site, response, phase, n, header, redirects, ran, began>>
vars == <<configVars, inVars, outVars, atVars>>

TypeOK ==
    /\ config \in {"parse", "merge", "ready", "refused"}
    /\ InTypeOK /\ OutTypeOK
    /\ phase \in {"read", "rewrite", "content", "filter", "sent", "failed"}
    /\ n \in Nat /\ header \in Nat /\ redirects \in 0..MaxRedirects

NoResponse == [lines |-> <<>>, type |-> "", length |-> -1, ranges |-> FALSE, status |-> 0]

Init ==
    /\ site \in Site
    /\ directives \in Directives[site]
    /\ ConfigInit /\ InInit /\ OutInit
    /\ response = NoResponse
    /\ phase = "read" /\ n = 1 /\ header = 0 /\ redirects = 0
    /\ ran = <<>> /\ began = <<>>

Configure == ConfigNext /\ UNCHANGED <<inVars, outVars, atVars>>

------------------------------------------------------------------------------
Commands == cmds[Levels]
Command == Commands[n]
Running == n <= Len(Commands) /\ header > 0
Current == Command.headers[header]

GoTo(where, type) ==
    /\ phase' = where /\ n' = 1 /\ header' = 0
    /\ ran' = <<>> /\ began' = type
    /\ UNCHANGED site
NextCommand ==
    /\ n' = n + 1 /\ header' = 0
    /\ UNCHANGED <<site, response, phase, redirects, ran, began>>
NextHeader ==
    /\ header' = header + 1
    /\ ran' = IF header > 0 THEN Append(ran, Current) ELSE ran
    /\ UNCHANGED <<site, response, phase, n, redirects, began>>

\* The content type of a request, if it has a line of that name.
TypeOf(lines) ==
    LET i == FirstNamed(lines, "content-type") IN IF i = 0 THEN <<>> ELSE <<lines[i].value>>

\* The request has been read and its location is found.
EnterRewrite(lines) ==
    /\ config = "ready" /\ phase = "read"
    /\ Receive(lines)
    /\ GoTo("rewrite", TypeOf(lines))
    /\ UNCHANGED <<configVars, outVars, response, redirects>>

\* check_type of the request: no pointer, or an empty value, fits no list.
InputFits ==
    \/ Command.types = {}
    \/ /\ slot["content-type"] # 0
       /\ cell[slot["content-type"]].value \in Command.types

\* Mutant: a list of types is enough, the statuses are not looked at.
OutputFits_AnyStatus == Command.types = {} \/ content_type \in Command.types

OutputFits ==
    /\ Command.types = {} \/ content_type \in Command.types
    /\ Command.statuses = {} \/ status \in Command.statuses

\* ngx_http_headers_more_exec_input_cmd and ngx_http_headers_more_exec_cmd, up
\* to the loop; a command of the other phase, without headers or for another
\* response is passed over.
BeginCommand ==
    /\ phase \in {"rewrite", "filter"} /\ n <= Len(Commands) /\ header = 0
    /\ IF /\ Command.is_input = (phase = "rewrite")
          /\ Command.headers # <<>>
          /\ IF Command.is_input THEN InputFits ELSE OutputFits
       THEN NextHeader ELSE NextCommand
    /\ UNCHANGED <<configVars, inVars, outVars>>

EndCommand ==
    /\ phase \in {"rewrite", "filter"} /\ Running /\ edit = NoEdit
    /\ header > Len(Command.headers)
    /\ NextCommand
    /\ UNCHANGED <<configVars, inVars, outVars>>

\* One header of an input command: its handler is entered, and ends.
BeginHeader ==
    /\ phase = "rewrite" /\ Running /\ header <= Len(Command.headers)
    /\ BeginEdit(Current)
    /\ UNCHANGED <<configVars, outVars, atVars>>

RunHeader ==
    /\ phase = "rewrite" /\ EditStep
    /\ IF edit' = NoEdit THEN NextHeader ELSE UNCHANGED atVars
    /\ UNCHANGED <<configVars, outVars>>

\* One header of an output command
ExecOutput ==
    /\ phase = "filter" /\ Running /\ header <= Len(Command.headers)
    /\ ExecHeader(Current)
    /\ NextHeader
    /\ UNCHANGED <<configVars, inVars>>

\* A length that is no number; an allocation that failed for the value or for
\* a new line.
FailHeader ==
    /\ Running /\ header <= Len(Command.headers)
    /\ \/ phase = "rewrite" /\ (edit = NoEdit \/ Pushes)
       \/ phase = "filter"
    /\ phase' = "failed"
    /\ UNCHANGED <<configVars, inVars, outVars, site, response, n, header, redirects,
                   ran, began>>

EndRewrite ==
    /\ phase = "rewrite" /\ n > Len(Commands)
    /\ GoTo("content", <<>>)
    /\ UNCHANGED <<configVars, inVars, outVars, response, redirects>>

\* ngx_http_internal_redirect: the phases run again, the request keeps its lines.
Redirect ==
    /\ phase = "content" /\ redirects < MaxRedirects
    /\ GoTo("rewrite", TypeOf(Lines))
    /\ redirects' = redirects + 1
    /\ UNCHANGED <<configVars, inVars, outVars, response>>

Answer(answer) ==
    /\ phase = "content"
    /\ response' = answer
    /\ Respond(answer)
    /\ GoTo("filter", IF answer.type = "" THEN <<>> ELSE <<answer.type>>)
    /\ UNCHANGED <<configVars, inVars, redirects>>

\* ngx_http_next_header_filter
Send ==
    /\ phase = "filter" /\ n > Len(Commands)
    /\ GoTo("sent", <<>>)
    /\ UNCHANGED <<configVars, inVars, outVars, response, redirects>>

Next ==
    \/ Configure \/ BeginCommand \/ EndCommand
    \/ \E lines \in Requests[site] : EnterRewrite(lines)
    \/ \E answer \in Responses[site] : Answer(answer)
    \/ BeginHeader \/ RunHeader \/ ExecOutput \/ FailHeader
    \/ EndRewrite \/ Redirect \/ Send

Spec == Init /\ [][Next]_vars

------------------------------------------------------------------------------
(* Properties of the response                                              *)

\* What becomes of the lines of a name when a header that names it runs.
LinesAfter(key, e) ==
    IF e.key \in Wildcard THEN OwnLine(key)     \* the core's own lines stay
    ELSE IF e.value = "" THEN <<>>
    ELSE IF key = "accept-ranges" THEN <<e.value>> \o OwnLine(key)
    ELSE <<e.value>>

\* A response with several lines of a name that has one pointer: only the last
\* one is ever changed.
Doubled(key) ==
    /\ key \in OutBuiltin
    /\ \E i, j \in DOMAIN response.lines :
        i # j /\ response.lines[i].key = key /\ response.lines[j].key = key

\* Cache-Control is to be cleared and there is none: the line made for it has a
\* hash, so the core sends it, empty.
ClearsAbsent(e) == e.key = "cache-control" /\ e.value = "" /\ cache_control = <<>>

\* Through any sequence of commands, a header that runs leaves one line of its
\* name with its value, or none if it clears, and with a * none of any name it
\* covers; and what is sent of every other name stays as it is.  (A key with a
\* * is for clearing.)  Not so of a Cache-Control that is cleared and is not
\* there: the code has an empty one sent (ClearsAbsent), and should not.
OutputEdited ==
    [][ExecOutput /\ ~(Current.key \in Wildcard /\ Current.value # "")
        => \A key \in Name : ~Doubled(key) =>
            IF ~Names(Current.key, key) THEN Sent(key)' = Sent(key)
            ELSE ClearsAbsent(Current) \/ Sent(key)' = LinesAfter(key, Current)]_vars

\* What a header makes of the content type, which is <<>> if there is none: -r is
\* an option of input directives, and changes no line there is not.
TypeAfter(input, e, type) ==
    IF e.key # "content-type" \/ (input /\ e.replace /\ type = <<>>) THEN type
    ELSE IF e.value = "" THEN <<>>
    ELSE <<e.value>>

TypesThrough(input, headers, type) ==
    LET after[j \in 0..Len(headers)] ==
            IF j = 0 THEN type ELSE TypeAfter(input, headers[j], after[j - 1])
    IN  after

\* A command is for the phase, and its conditions are met.
Suits(input, c, type, code) ==
    /\ c.is_input = input
    /\ c.types = {} \/ \E t \in c.types : type = <<t>>
    /\ input \/ c.statuses = {} \/ code \in c.statuses

\* The headers the first k of these commands have to run, and the content type
\* behind them: of every command for the phase, in their order, whose conditions
\* the message meets when the command's turn comes.
DueOf(commands, input, type, code) ==
    LET due[k \in 0..Len(commands)] ==
            IF k = 0 THEN [type |-> type, ran |-> <<>>]
            ELSE LET c == commands[k]
                     before == due[k - 1]
                 IN  IF ~Suits(input, c, before.type, code) THEN before
                     ELSE [type |-> TypesThrough(input, c.headers, before.type)[Len(c.headers)],
                           ran |-> before.ran \o c.headers]
    IN  due

\* The headers a phase has to run, by the words of the directives alone.
Due(input, type) ==
    LET written == FlattenSeq([l \in Level |-> MeantOf(l)])
    IN  DueOf(written, input, type, response.status)[Len(written)].ran

\* A request that leaves the phase has run the headers it had to, each once per
\* pass: none of a command for another type or status, and none of one whose
\* type an earlier command has just taken away, or has just set.
RightHeadersRun ==
    phase \in {"rewrite", "filter"} /\ n > Len(Commands) /\ ~spoiled
        => ran = Due(phase = "rewrite", began)

==============================================================================
