------------------------------ MODULE HeadersOut ------------------------------
(***************************************************************************)
(* The header of a response and what one header of an output command does  *)
(* to it.  No entry is ever removed: a cleared one loses its hash, and the *)
(* core does not send it.  For some names headers_out has a pointer to an  *)
(* entry and the core sends one of its own while the pointer is NULL; a    *)
(* clear of such a header therefore makes an entry only to point to it.    *)
(***************************************************************************)
EXTENDS HeaderEdit

CONSTANT
    OutBuiltin      \* the names headers_out has one pointer for

\* Two names have fields of their own instead; no name the module handles in a
\* way of its own ends in *.
ASSUME HeadersOutAssumption ==
    /\ {"server", "content-length", "accept-ranges"} \subseteq OutBuiltin
    /\ OutBuiltin \subseteq Name \ {"content-type", "cache-control"}
    /\ Wildcard \cap (OutBuiltin \cup {"content-type", "cache-control"}) = {}

VARIABLES
    entry,              \* headers_out.headers: [key, value, live], live a hash
    pointer,            \* pointer[b]: the entry for b, 0 for NULL
    cache_control,      \* headers_out.cache_control: the entries in the array
    content_type,       \* headers_out.content_type, "" for none
    out_length,         \* headers_out.content_length_n
    allow_ranges,       \* r->allow_ranges
    status              \* headers_out.status

outVars == <<entry, pointer, cache_control, content_type, out_length, allow_ranges, status>>

Entry == [key : Key, value : Text \cup {""}, live : BOOLEAN]

OutTypeOK ==
    /\ entry \in Seq(Entry)
    /\ pointer \in [OutBuiltin -> 0..Len(entry)]
    /\ cache_control \in Seq(1..Len(entry))
    /\ content_type \in Text \cup {""}
    /\ out_length \in Nat \cup {-1}
    /\ allow_ranges \in BOOLEAN

\* A response as its handler or upstream leaves it: a builtin name has a pointer
\* to its last entry, and all entries of Cache-Control are in the array.
Respond(response) ==
    LET lines == response.lines
        At(key) == {i \in DOMAIN lines : lines[i].key = key}
    IN  /\ entry' = [i \in DOMAIN lines |->
                        [key |-> lines[i].key, value |-> lines[i].value, live |-> TRUE]]
        /\ pointer' = [b \in OutBuiltin |->
                        IF At(b) = {} THEN 0 ELSE CHOOSE i \in At(b) : \A j \in At(b) : j <= i]
        /\ cache_control' = Picked([i \in DOMAIN lines |-> i], At("cache-control"))
        /\ content_type' = response.type
        /\ out_length' = response.length
        /\ allow_ranges' = response.ranges
        /\ status' = response.status

OutInit ==
    /\ entry = <<>> /\ pointer = [b \in OutBuiltin |-> 0] /\ cache_control = <<>>
    /\ content_type = "" /\ out_length = -1 /\ allow_ranges = FALSE /\ status = 0

------------------------------------------------------------------------------
(* The handlers                                                            *)

Matches(e) == {i \in DOMAIN entry : Names(e.key, entry[i].key)}

NewEntry(e) == [key |-> e.key, value |-> e.value, live |-> e.value # ""]

\* The loop of ngx_http_set_header_helper: the first match takes the value, the
\* others are cleared; without a value all are.
Rewritten(e, value) ==
    [i \in DOMAIN entry |->
        IF i \notin Matches(e) THEN entry[i]
        ELSE IF value # "" /\ \A j \in Matches(e) : i <= j
        THEN [entry[i] EXCEPT !.value = value, !.live = TRUE]
        ELSE [entry[i] EXCEPT !.value = "", !.live = FALSE]]

\* ngx_http_set_header_helper; the pointer is left at the last match.
Helper(e) ==
    LET found == Matches(e) # {}
        make == ~found /\ ~(e.key \in Wildcard /\ e.value = "")
        at == IF found THEN CHOOSE i \in Matches(e) : \A j \in Matches(e) : j <= i
              ELSE Len(entry) + 1
    IN  /\ entry' = IF make THEN Append(entry, NewEntry(e)) ELSE Rewritten(e, e.value)
        /\ pointer' = IF e.key \in OutBuiltin THEN [pointer EXCEPT ![e.key] = at] ELSE pointer

SetHeader(e) ==
    /\ e.key \notin OutBuiltin \cup {"content-type", "cache-control"}
    /\ Helper(e)
    /\ UNCHANGED <<cache_control, content_type, out_length, allow_ranges, status>>

\* Mutant: no entry is made for a cleared header that has none.
SetEntry_NoneIfEmpty(e) ==
    IF pointer[e.key] = 0 /\ e.value # "" THEN Helper(e)
    ELSE IF pointer[e.key] = 0 THEN UNCHANGED <<entry, pointer>>
    ELSE /\ entry' = [entry EXCEPT ![pointer[e.key]] = NewEntry(e)]
         /\ UNCHANGED pointer

\* ngx_http_set_builtin_header: the entry there is a pointer to
SetEntry(e) ==
    IF pointer[e.key] = 0 THEN Helper(e)
    ELSE /\ entry' = [entry EXCEPT ![pointer[e.key]] = NewEntry(e)]
         /\ UNCHANGED pointer

SetBuiltinHeader(e) ==
    /\ e.key \in OutBuiltin \ {"content-length", "accept-ranges"}
    /\ SetEntry(e)
    /\ UNCHANGED <<cache_control, content_type, out_length, allow_ranges, status>>

\* of a value that is no number: NGX_ERROR
SetContentLength(e) ==
    /\ e.key = "content-length"
    /\ e.value # "" => Number[e.value] # -1
    /\ out_length' = IF e.value = "" THEN -1 ELSE Number[e.value]
    /\ SetEntry(e)
    /\ UNCHANGED <<cache_control, content_type, allow_ranges, status>>

SetAcceptRanges(e) ==
    /\ e.key = "accept-ranges"
    /\ allow_ranges' = (allow_ranges /\ e.value # "")
    /\ SetEntry(e)
    /\ UNCHANGED <<cache_control, content_type, out_length, status>>

\* ngx_http_set_builtin_multi_header: the first of the array takes the value,
\* the others are cleared; without any, one is made, and it lives even if empty.
SetCacheControl(e) ==
    /\ e.key = "cache-control"
    /\ IF cache_control # <<>>
       THEN /\ entry' = [i \in DOMAIN entry |->
                            IF i = cache_control[1] THEN NewEntry(e)
                            ELSE IF i \in ToSet(cache_control)
                            THEN [entry[i] EXCEPT !.value = "", !.live = FALSE]
                            ELSE entry[i]]
            /\ UNCHANGED cache_control
       ELSE /\ entry' = Append(entry, [NewEntry(e) EXCEPT !.live = TRUE])
            /\ cache_control' = <<Len(entry) + 1>>
    /\ UNCHANGED <<pointer, content_type, out_length, allow_ranges, status>>

\* The core sends headers_out.content_type; entries of the name are cleared.
SetContentType(e) ==
    /\ e.key = "content-type"
    /\ content_type' = e.value
    /\ entry' = Rewritten(e, "")
    /\ UNCHANGED <<pointer, cache_control, out_length, allow_ranges, status>>

ExecHeader(e) ==
    \/ SetHeader(e) \/ SetBuiltinHeader(e) \/ SetContentLength(e)
    \/ SetAcceptRanges(e) \/ SetCacheControl(e) \/ SetContentType(e)

------------------------------------------------------------------------------
(* What the core sends.                                                    *)

Live(key) ==
    Picked([i \in DOMAIN entry |-> entry[i].value],
           {i \in DOMAIN entry : entry[i].key = key /\ entry[i].live})

\* A line the core makes itself: for a pointer that is NULL, of a field, or,
\* by its range filter, while ranges are allowed.
OwnLine(key) ==
    CASE key = "server" -> IF pointer[key] = 0 THEN <<"nginx">> ELSE <<>>
      [] key = "content-length" ->
            IF pointer[key] = 0 /\ out_length # -1
            THEN <<CHOOSE v \in Text : Number[v] = out_length>> ELSE <<>>
      [] key = "content-type" -> IF content_type = "" THEN <<>> ELSE <<content_type>>
      [] key = "accept-ranges" -> IF allow_ranges THEN <<"bytes">> ELSE <<>>
      [] OTHER -> <<>>

Sent(key) == Live(key) \o OwnLine(key)

==============================================================================
