----------------------------- MODULE MinifyFilter -----------------------------
(***************************************************************************)
(* One response on its way through the minify filter and, behind it, the   *)
(* strip filter: the configuration of its location, what the two header    *)
(* filters make of it, and the chains of buffers the body filters are      *)
(* called with.                                                            *)
(*                                                                         *)
(* A byte of the body is its position in it.  What the minifiers do to a   *)
(* buffer is the subject of modules of their own; here one keeps some of   *)
(* the bytes it is given, in their order, and withholds some of the last   *)
(* ones for the next buffer.  The strip filter only drops bytes.           *)
(***************************************************************************)
EXTENDS Integers, Sequences, SequencesExt

CONSTANTS
    ContentType,    \* the values of Content-Type, "" for none
    DefaultTypes,   \* DefaultTypes[k]: the types minifier k is for by default
    TextHtm,        \* the types whose first eight characters are text/htm
    Level,          \* what a level of the configuration may say
    Response,       \* the responses the handlers of the location produce
    MaxBytes,       \* the longest body
    MaxBuffer,      \* the longest buffer it arrives in
    MaxLinks        \* the longest chain a body filter is called with

Kind == {"html", "js", "css"}

ASSUME FilterAssumption ==
    /\ Response \subseteq [status : Nat, header_only : BOOLEAN, content_type : ContentType,
                           encoded : BOOLEAN, length : BOOLEAN]
    /\ MaxBytes \in Nat /\ MaxBuffer \in Nat /\ MaxLinks \in Nat

VARIABLES
    levels,         \* the location's level of the configuration and those above it
    response,       \* r->headers_out, as the handler filled it in
    stage,          \* "headers", "strip headers", "body", "failed"
    type,           \* ctx->type of the minify filter; "none" without a ctx
    stripping,      \* the strip filter has a ctx
    announced,      \* Content-Length is sent
    received,       \* how many bytes of the body have arrived
    ended,          \* the buffer that ends the response has arrived
    chain,          \* the links minify has not come to
    passed,         \* the links it is done with
    cache,          \* ctx->cache[0 .. cachelen-1]
    sent,           \* the bytes behind both filters
    dropped,        \* history: the bytes a minifier or the strip filter removed
    lost,           \* history: withheld, and gone with a buffer that has no bytes
    overtaken       \* history: withheld when an allocation failed

headerVars == <<levels, response, type, stripping, announced>>
bodyVars == <<received, ended, chain, passed, cache, sent, dropped, lost, overtaken>>
vars == <<headerVars, stage, bodyVars>>

Bytes == 1..MaxBytes
Link == [bytes : Seq(Bytes), memory : BOOLEAN]

TypeOK ==
    /\ levels \in Seq(Level) /\ response \in Response
    /\ stage \in {"headers", "strip headers", "body", "failed"}
    /\ type \in Kind \cup {"none"}
    /\ stripping \in BOOLEAN /\ announced \in BOOLEAN /\ ended \in BOOLEAN
    /\ received \in 0..MaxBytes
    /\ chain \in Seq(Link) /\ passed \in Seq(Link)
    /\ cache \in Seq(Bytes) /\ sent \in Seq(Bytes)
    /\ dropped \subseteq Bytes /\ lost \subseteq Bytes /\ overtaken \subseteq Bytes

Init ==
    /\ levels \in Level \X Level
    /\ response \in Response
    /\ stage = "headers"
    /\ type = "none" /\ stripping = FALSE
    /\ announced = response.length
    /\ received = 0 /\ ended = FALSE
    /\ chain = <<>> /\ passed = <<>> /\ cache = <<>> /\ sent = <<>>
    /\ dropped = {} /\ lost = {} /\ overtaken = {}

------------------------------------------------------------------------------
(* The configuration                                                       *)

\* ngx_conf_merge_value(conf, prev, 0)
MergeFlag(child, parent) ==
    IF child # "unset" THEN child ELSE IF parent # "unset" THEN parent ELSE "off"

\* ngx_http_merge_types: the types of the innermost level that lists any
MergeTypes(child, parent, default) ==
    IF child # {} THEN child ELSE IF parent # {} THEN parent ELSE default

Enabled(k) == MergeFlag(levels[1].enable[k], levels[2].enable[k]) = "on"
Types(k) == MergeTypes(levels[1].types[k], levels[2].types[k], DefaultTypes[k])
StripEnabled == MergeFlag(levels[1].strip, levels[2].strip) = "on"

------------------------------------------------------------------------------
(* The header filters                                                      *)

\* Mutant: a body that is encoded is rewritten as well.
Rewritable_Encoded ==
    /\ response.status \in {200, 403, 404}
    /\ ~response.header_only
    /\ response.content_type # ""

\* What both header filters ask of a response first.
Rewritable ==
    /\ response.status \in {200, 403, 404}
    /\ ~response.header_only
    /\ response.content_type # ""
    /\ ~response.encoded

Wants(k) == Rewritable /\ Enabled(k) /\ response.content_type \in Types(k)

\* The first minifier, in the order html, js, css, that is on and whose list
\* has the type.
Chosen ==
    IF Wants("html") THEN "html"
    ELSE IF Wants("js") THEN "js"
    ELSE IF Wants("css") THEN "css"
    ELSE "none"

\* Mutant: the length of the unminified body stays announced.
MinifyHeader_KeepsLength ==
    /\ stage = "headers"
    /\ type' = Chosen
    /\ stage' = "strip headers"
    /\ UNCHANGED <<levels, response, stripping, announced, bodyVars>>

\* ngx_http_minify_header_filter
MinifyHeader ==
    /\ stage = "headers"
    /\ type' = Chosen
    /\ announced' = (announced /\ Chosen = "none")
    /\ stage' = "strip headers"
    /\ UNCHANGED <<levels, response, stripping, bodyVars>>

\* ngx_http_strip_header_filter: sizeof("text/html" - 1) is the size of a
\* pointer, so eight characters of the type are compared.
Strips == Rewritable /\ StripEnabled /\ response.content_type \in TextHtm

StripHeader ==
    /\ stage = "strip headers"
    /\ stripping' = Strips
    /\ announced' = (announced /\ ~Strips)
    /\ stage' = "body"
    /\ UNCHANGED <<levels, response, type, bodyVars>>

\* ngx_pcalloc of a context fails: NGX_ERROR.
HeaderFails ==
    /\ \/ stage = "headers" /\ Chosen # "none"
       \/ stage = "strip headers" /\ Strips
    /\ stage' = "failed"
    /\ UNCHANGED <<headerVars, bodyVars>>

------------------------------------------------------------------------------
(* The body filters                                                        *)

Flat(links) == FlattenSeq([i \in DOMAIN links |-> links[i].bytes])

\* The elements of s that are in kept, in their order.
Kept(s, kept) == FlattenSeq([i \in DOMAIN s |-> IF s[i] \in kept THEN <<s[i]>> ELSE <<>>])

\* The bytes behind the first a, up to b.
Run(a, b) == [i \in 1..(b - a) |-> a + i]

\* A chain of buffers that end at these bytes, with the bytes that come next.
\* A buffer that only flushes, or only ends the response, has none and is not
\* in memory.
Begin(ends, i) == IF i = 1 THEN received ELSE ends[i - 1]
Links(ends) ==
    [i \in DOMAIN ends |-> [bytes |-> Run(Begin(ends, i), ends[i]),
                           memory |-> Begin(ends, i) < ends[i]]]

\* The upstream calls the body filter with a chain.  (A call without a chain
\* does nothing, and is no step.)
Call(ends, last) ==
    /\ stage = "body" /\ ~response.header_only
    /\ ~ended /\ chain = <<>> /\ passed = <<>>
    /\ chain' = Links(ends)
    /\ received' = ends[Len(ends)]
    /\ ended' = last
    /\ UNCHANGED <<headerVars, stage, passed, cache, sent, dropped, lost, overtaken>>

\* No context: the chain goes to the next body filter as it is.
PassAll ==
    /\ chain # <<>> /\ type = "none"
    /\ passed' = chain
    /\ chain' = <<>>
    /\ UNCHANGED <<headerVars, stage, received, ended, cache, sent, dropped, lost, overtaken>>

\* Mutant: the withheld bytes are copied behind the buffer's own.
Prepended_Behind(bytes) == bytes \o cache

\* newbuf: the withheld bytes, and the buffer's own behind them
Prepended(bytes) == cache \o bytes

\* One link: the withheld bytes go in front of its own, the minifier keeps
\* some of them and withholds the last n anew.
MinifyLink(kept, n) ==
    LET link == Head(chain)
        bytes == Prepended(link.bytes)
        read == SubSeq(bytes, 1, Len(bytes) - n)
    IN  /\ chain # <<>> /\ type # "none" /\ link.memory
        /\ n <= Len(bytes)
        /\ kept \subseteq ToSet(read)
        /\ passed' = Append(passed, [link EXCEPT !.bytes = Kept(read, kept)])
        /\ dropped' = dropped \cup (ToSet(read) \ kept)
        /\ cache' = SubSeq(bytes, Len(bytes) - n + 1, Len(bytes))
        /\ chain' = Tail(chain)
        /\ UNCHANGED <<headerVars, stage, received, ended, sent, lost, overtaken>>

\* A link that is not in memory: the withheld bytes are copied to its newbuf,
\* of which ngx_buf_size sees none.
MinifySpecial ==
    /\ chain # <<>> /\ type # "none" /\ ~Head(chain).memory
    /\ passed' = Append(passed, Head(chain))
    /\ lost' = lost \cup ToSet(cache)
    /\ cache' = <<>>
    /\ chain' = Tail(chain)
    /\ UNCHANGED <<headerVars, stage, received, ended, sent, dropped, overtaken>>

\* Mutant: what is withheld is given up together with the chain.
MinifyFails_ForgetsCache ==
    /\ chain # <<>> /\ type # "none" /\ cache # <<>>
    /\ passed' = passed \o chain
    /\ chain' = <<>>
    /\ cache' = <<>>
    /\ overtaken' = overtaken \cup ToSet(cache)
    /\ UNCHANGED <<headerVars, stage, received, ended, sent, dropped, lost>>

\* ngx_palloc of newbuf fails: goto out.  This link and those behind it go on
\* as they are; what is withheld stays so.
MinifyFails ==
    /\ chain # <<>> /\ type # "none" /\ cache # <<>>
    /\ passed' = passed \o chain
    /\ chain' = <<>>
    /\ overtaken' = overtaken \cup ToSet(cache)
    /\ UNCHANGED <<headerVars, stage, received, ended, cache, sent, dropped, lost>>

\* ngx_http_next_body_filter: ngx_http_strip_body_filter, and the filters
\* behind it.
Deliver(kept) ==
    LET bytes == Flat(passed)
    IN  /\ chain = <<>> /\ passed # <<>>
        /\ kept \subseteq ToSet(bytes)
        /\ stripping \/ kept = ToSet(bytes)
        /\ sent' = sent \o Kept(bytes, kept)
        /\ dropped' = dropped \cup (ToSet(bytes) \ kept)
        /\ passed' = <<>>
        /\ UNCHANGED <<headerVars, stage, received, ended, chain, cache, lost, overtaken>>

Ends ==
    {ends \in UNION {[1..n -> received..MaxBytes] : n \in 1..MaxLinks} :
        \A i \in DOMAIN ends : ends[i] - Begin(ends, i) \in 0..MaxBuffer}

Next ==
    \/ MinifyHeader \/ StripHeader \/ HeaderFails
    \/ \E ends \in Ends, last \in BOOLEAN : Call(ends, last)
    \/ PassAll
    \/ \E kept \in SUBSET (1..received), n \in 0..received : MinifyLink(kept, n)
    \/ MinifySpecial \/ MinifyFails
    \/ \E kept \in SUBSET (1..received) : Deliver(kept)

Spec == Init /\ [][Next]_vars

------------------------------------------------------------------------------
(* Properties                                                              *)

InFlight == Flat(passed) \o cache \o Flat(chain)

\* No byte of the body is doubled, and none disappears: it was sent, or taken
\* out by a filter, or it was withheld when a buffer without bytes came, or it
\* is still on its way, be it behind a failed allocation.
Conserved ==
    LET everywhere == sent \o InFlight
    IN  /\ IsInjective(everywhere)
        /\ ToSet(everywhere) \cap (dropped \cup lost) = {}
        /\ ToSet(everywhere) \cup dropped \cup lost = 1..received

\* The body keeps its order through chains, withheld bytes and failures, but
\* for the bytes that were withheld when an allocation failed: they alone can
\* come behind later ones.
OnlyWithheldComesLate ==
    \A i, j \in DOMAIN sent : i < j /\ sent[i] > sent[j] => sent[j] \in overtaken

\* A response that announces a length has it: no filter changes the body of a
\* response whose Content-Length is still there, and none is left without one
\* that is sent as it came.
LengthHonest ==
    ended /\ chain = <<>> /\ passed = <<>> =>
        (announced <=> response.length /\ type = "none" /\ ~stripping)
        /\ (announced => Len(sent) = received)

\* The innermost level of the configuration that speaks of a flag.
Says(flag(_)) ==
    IF flag(levels[1]) # "unset" THEN flag(levels[1]) ELSE flag(levels[2])

\* A body is changed only where the configuration asks for it, in its innermost
\* word on the matter, and never one that is encoded or that has no type.
ChangedOnlyIfAsked ==
    sent # [i \in DOMAIN sent |-> i] \/ dropped # {} \/ lost # {} =>
        /\ ~response.encoded /\ response.content_type # ""
        /\ \/ \E k \in Kind : Says(LAMBDA l : l.enable[k]) = "on"
           \/ Says(LAMBDA l : l.strip) = "on" /\ response.content_type \in TextHtm

==============================================================================
