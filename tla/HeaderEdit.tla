------------------------------ MODULE HeaderEdit ------------------------------
(***************************************************************************)
(* The vocabulary of ngx_headers_more: what a header of a command asks for *)
(* (ngx_http_headers_more_header_val_t) and what it is judged by.  Names   *)
(* are in lower case here, as the code compares them without case.         *)
(***************************************************************************)
EXTENDS Integers, Sequences, SequencesExt

CONSTANTS
    Name,           \* the names of header fields
    Covered,        \* Covered[w]: the names a key w that ends in * begins
    Text,           \* the values of header fields, "" apart
    Number          \* Number[v]: what ngx_atosz makes of v, or -1

Wildcard == DOMAIN Covered
Key == Name \cup Wildcard

ASSUME EditAssumption ==
    /\ \A w \in Wildcard : Covered[w] \subseteq Name
    /\ "" \notin Text /\ "" \notin Key
    /\ Number \in [Text -> Nat \cup {-1}]

\* value "" clears; replace is the option -r
Edit == [key : Key, value : Text \cup {""}, replace : BOOLEAN]
NoEdit == [key |-> "", value |-> "", replace |-> FALSE]

\* A key that ends in * names all names it begins.
Names(key, name) == name = key \/ (key \in Wildcard /\ name \in Covered[key])

Line == [key : Key, value : Text \cup {""}]

\* The elements of s at these places, in order.
Picked(s, places) == FlattenSeq([i \in DOMAIN s |-> IF i \in places THEN <<s[i]>> ELSE <<>>])
==============================================================================
