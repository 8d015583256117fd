------------------------------- MODULE HeadersIn -------------------------------
(***************************************************************************)
(* The header of a request and what one header of an input command does to *)
(* it.  The lines are in an ngx_list_t: parts, each a run of elements of   *)
(* one allocation, of which only the last one grows.  An element is never  *)
(* moved, since headers_in keeps pointers to some of them: a removed one   *)
(* is cut off at the end of its part, or the part is split behind it.      *)
(*                                                                         *)
(* An element is named by its number in cell, where it stays when it is    *)
(* removed.  Its hash is left out: nothing asks for it in a request.       *)
(* A request is a main request: what a subrequest copies back to its       *)
(* parents is not here.                                                    *)
(***************************************************************************)
EXTENDS HeaderEdit, FiniteSetsExt

CONSTANTS
    Builtin,        \* the names headers_in has a pointer for
    ListSize        \* the elements ngx_list_init makes room for

ASSUME HeadersInAssumption ==
    /\ "content-type" \in Builtin /\ Builtin \subseteq Name
    /\ ListSize \in Nat \ {0}

VARIABLES
    cell,               \* the elements ever made
    parts,              \* the list: [cells, room], room the elements a part may
                        \* have before it runs into what is behind it
    nalloc,             \* l->nalloc, the room the code believes the last part has
    slot,               \* slot[b]: the pointer for b, 0 for NULL
    server,             \* headers_in.server
    content_length_n,   \* headers_in.content_length_n
    edit,               \* the header being executed, or NoEdit
    was,                \* history: the lines when it began
    spoiled,            \* history: rm_header_helper has failed
    imposed             \* history: -r has set a length where there is no line

listVars == <<cell, parts, nalloc>>
inVars == <<listVars, slot, server, content_length_n, edit, was, spoiled, imposed>>

Part == [cells : Seq(Nat), room : Int]

InTypeOK ==
    /\ cell \in Seq(Line)
    /\ parts \in Seq(Part) /\ parts # <<>>
    /\ \A p \in DOMAIN parts : ToSet(parts[p].cells) \subseteq DOMAIN cell
    /\ nalloc \in Nat
    /\ slot \in [Builtin -> 0..Len(cell)]
    /\ server \in Text \cup {""} /\ content_length_n \in Nat \cup {-1}
    /\ edit \in Edit \cup {NoEdit} /\ was \in Seq(Line)
    /\ spoiled \in BOOLEAN /\ imposed \in BOOLEAN

\* The elements in the list, and their lines.
ListedIn(ps) == FlattenSeq([p \in DOMAIN ps |-> ps[p].cells])
Listed == ListedIn(parts)
Lines == [i \in DOMAIN Listed |-> cell[Listed[i]]]

First(s, Test(_)) ==
    IF \E i \in DOMAIN s : Test(s[i])
    THEN CHOOSE i \in DOMAIN s : Test(s[i]) /\ \A j \in 1..(i - 1) : ~Test(s[j])
    ELSE 0

FirstNamed(lines, key) == First(lines, LAMBDA l : l.key = key)
FirstValue(lines, key) ==
    LET i == FirstNamed(lines, key) IN IF i = 0 THEN "" ELSE lines[i].value

InInit ==
    /\ cell = <<>>
    /\ parts = <<[cells |-> <<>>, room |-> ListSize]>>
    /\ nalloc = ListSize
    /\ slot = [b \in Builtin |-> 0]
    /\ server = "" /\ content_length_n = -1
    /\ edit = NoEdit /\ was = <<>> /\ spoiled = FALSE /\ imposed = FALSE

\* A request as nginx has read it: ngx_list_push of every line, and a pointer
\* to the first one of a builtin name.
Receive(lines) ==
    LET all == [i \in DOMAIN lines |-> i]
        parted == {p \in 1..Len(lines) : (p - 1) * ListSize < Len(lines)} \cup {1}
        length == FirstValue(lines, "content-length")
    IN  /\ cell' = lines
        /\ parts' = [p \in parted |->
                [cells |-> SubSeq(all, (p - 1) * ListSize + 1, Min({p * ListSize, Len(lines)})),
                 room |-> ListSize]]
        /\ nalloc' = ListSize
        /\ slot' = [b \in Builtin |-> FirstNamed(lines, b)]
        /\ server' = FirstValue(lines, "host")
        /\ content_length_n' = IF length = "" THEN -1 ELSE Number[length]
        /\ UNCHANGED <<edit, was, spoiled, imposed>>

------------------------------------------------------------------------------
(* ngx_http_headers_more_rm_header_helper: element i of part p, counted from *)
(* 1.  The list it leaves, and whether it reports NGX_OK.                    *)

Outcome(ps, n, ok) == [parts |-> ps, nalloc |-> n, ok |-> ok]

\* Mutant: l->nalloc is left as it is.
RemoveHead_KeepsNalloc(p) ==
    LET rest == [cells |-> Tail(parts[p].cells), room |-> parts[p].room - 1]
        shorter == [parts EXCEPT ![p] = rest]
    IN  IF rest.cells # <<>> THEN Outcome(shorter, nalloc, TRUE)
        ELSE IF p = 1 THEN Outcome(shorter, nalloc, FALSE)
        ELSE Outcome(RemoveAt(parts, p), nalloc, TRUE)

\* The first element: elts moves on.  The search for the part before a part
\* that is left empty starts behind the first one, which it therefore never
\* finds: the element is gone, the part stays, and the error is reported.
RemoveHead(p) ==
    LET rest == [cells |-> Tail(parts[p].cells), room |-> parts[p].room - 1]
        shorter == [parts EXCEPT ![p] = rest]
        last == p = Len(parts)
    IN  IF rest.cells # <<>>
        THEN Outcome(shorter, IF last THEN Len(rest.cells) ELSE nalloc, TRUE)
        ELSE IF p = 1 THEN Outcome(shorter, nalloc, FALSE)
        ELSE Outcome(RemoveAt(parts, p),
                     IF last THEN Len(parts[p - 1].cells) ELSE nalloc, TRUE)

\* The last of several
RemoveEnd(p) ==
    Outcome([parts EXCEPT ![p].cells = Front(@)],
            IF p = Len(parts) THEN Len(parts[p].cells) - 1 ELSE nalloc, TRUE)

\* One in the middle: the part is split behind it.
Split(p, i) ==
    LET old == parts[p]
        new == [cells |-> SubSeq(old.cells, i + 1, Len(old.cells)), room |-> old.room - i]
        cut == [cells |-> SubSeq(old.cells, 1, i - 1), room |-> i]
    IN  Outcome(InsertAt([parts EXCEPT ![p] = cut], p + 1, new),
                IF p = Len(parts) THEN Len(new.cells) ELSE nalloc, TRUE)

Removals(p, i) ==
    IF i = 1 THEN {RemoveHead(p)}
    ELSE IF i = Len(parts[p].cells) THEN {RemoveEnd(p)}
    ELSE {Split(p, i), Outcome(parts, nalloc, FALSE)}       \* ngx_palloc failed

------------------------------------------------------------------------------
(* One header of an input command: ngx_http_set_header and the handlers of   *)
(* the builtin names, which all end in ngx_http_set_header_helper.           *)

IsBuiltin == edit.key \in Builtin
SlotCell == IF IsBuiltin THEN slot[edit.key] ELSE 0
SetSlotTo(c) == slot' = IF IsBuiltin THEN [slot EXCEPT ![edit.key] = c] ELSE slot
Finish == edit' = NoEdit
Sets == edit # NoEdit /\ edit.value # ""
Clears == edit # NoEdit /\ edit.value = ""

\* ngx_http_set_content_length_header: NGX_ERROR
NoNumber(e) == e.key = "content-length" /\ e.value # "" /\ Number[e.value] = -1

\* The handler is entered.  Host and Content-Length also set a field, and a
\* builtin header that is cleared is emptied before its lines are looked for.
BeginEdit(e) ==
    LET present == FirstNamed(Lines, e.key) # 0
    IN  /\ edit = NoEdit
        /\ ~NoNumber(e)
        /\ edit' = e
        /\ was' = Lines
        /\ server' = IF e.key = "host" THEN e.value ELSE server
        /\ content_length_n' =
                IF e.key # "content-length" THEN content_length_n
                ELSE IF e.value = "" THEN -1 ELSE Number[e.value]
        /\ imposed' = IF e.key # "content-length" THEN imposed
                      ELSE e.value # "" /\ e.replace /\ ~present
        /\ cell' = IF e.value = "" /\ e.key \in Builtin /\ slot[e.key] # 0
                   THEN [cell EXCEPT ![slot[e.key]].value = ""] ELSE cell
        /\ UNCHANGED <<parts, nalloc, slot, spoiled>>

\* ngx_http_set_builtin_header of a header there is a pointer to
SetThroughSlot ==
    /\ Sets /\ SlotCell # 0
    /\ cell' = [cell EXCEPT ![SlotCell].value = edit.value]
    /\ Finish
    /\ UNCHANGED <<parts, nalloc, slot, server, content_length_n, was, spoiled, imposed>>

\* Where ngx_http_set_header_helper first finds the name.
Match(p) == First(parts[p].cells, LAMBDA c : cell[c].key = edit.key)
MatchPart == First(parts, LAMBDA part : \E i \in DOMAIN part.cells :
                                            cell[part.cells[i]].key = edit.key)
MatchCell == parts[MatchPart].cells[Match(MatchPart)]
InHelper == edit # NoEdit /\ ~(Sets /\ SlotCell # 0)

\* Mutant: *output_header is not reset when its element goes.
RemoveMatch_KeepsSlot ==
    /\ InHelper /\ Clears /\ MatchPart # 0
    /\ \E o \in Removals(MatchPart, Match(MatchPart)) :
        /\ parts' = o.parts /\ nalloc' = o.nalloc
        /\ IF o.ok
           THEN UNCHANGED <<cell, edit, spoiled>>
           ELSE /\ cell' = [cell EXCEPT ![MatchCell].value = ""]
                /\ Finish /\ spoiled' = TRUE
    /\ UNCHANGED <<slot, server, content_length_n, was, imposed>>

\* Mutant: no retry: the first line of the name is removed and no other.
RemoveMatch_Once ==
    /\ InHelper /\ Clears /\ MatchPart # 0
    /\ \E o \in Removals(MatchPart, Match(MatchPart)) :
        /\ parts' = o.parts /\ nalloc' = o.nalloc
        /\ spoiled' = (spoiled \/ ~o.ok)
    /\ Finish /\ SetSlotTo(0)
    /\ UNCHANGED <<cell, server, content_length_n, was, imposed>>

\* A line is removed and the search begins anew, or its removal failed: then
\* it is emptied, becomes what the pointer points to, and all is well.
RemoveMatch ==
    /\ InHelper /\ Clears /\ MatchPart # 0
    /\ \E o \in Removals(MatchPart, Match(MatchPart)) :
        /\ parts' = o.parts /\ nalloc' = o.nalloc
        /\ IF o.ok
           THEN SetSlotTo(0) /\ UNCHANGED <<cell, edit, spoiled>>
           ELSE /\ cell' = [cell EXCEPT ![MatchCell].value = ""]
                /\ SetSlotTo(MatchCell) /\ Finish /\ spoiled' = TRUE
    /\ UNCHANGED <<server, content_length_n, was, imposed>>

\* The first line of the name takes the value.
ReplaceMatch ==
    /\ InHelper /\ Sets /\ MatchPart # 0
    /\ cell' = [cell EXCEPT ![MatchCell].value = edit.value]
    /\ SetSlotTo(MatchCell) /\ Finish
    /\ UNCHANGED <<parts, nalloc, server, content_length_n, was, spoiled, imposed>>

\* There is no (more) line of the name, and none is wanted.
NothingToDo ==
    /\ InHelper /\ MatchPart = 0
    /\ Clears \/ edit.replace
    /\ Finish
    /\ UNCHANGED <<listVars, slot, server, content_length_n, was, spoiled, imposed>>

Pushes == InHelper /\ Sets /\ MatchPart = 0 /\ ~edit.replace

\* ngx_list_push: into the last part, or into a new one of nalloc elements.
PushLine ==
    LET c == Len(cell) + 1
        last == Len(parts)
    IN  /\ Pushes
        /\ cell' = Append(cell, [key |-> edit.key, value |-> edit.value])
        /\ parts' = IF Len(parts[last].cells) = nalloc
                    THEN Append(parts, [cells |-> <<c>>, room |-> nalloc])
                    ELSE [parts EXCEPT ![last].cells = Append(@, c)]
        /\ SetSlotTo(c) /\ Finish
        /\ UNCHANGED <<nalloc, server, content_length_n, was, spoiled, imposed>>

EditStep ==
    \/ SetThroughSlot \/ RemoveMatch \/ ReplaceMatch \/ NothingToDo \/ PushLine

------------------------------------------------------------------------------
(* Properties                                                              *)

\* The lines of every other name, in order.
Without(lines, key) ==
    FlattenSeq([i \in DOMAIN lines |-> IF lines[i].key = key THEN <<>> ELSE <<lines[i]>>])

\* What a header of an input command means for a list of lines.
Edited(lines, e) ==
    LET i == FirstNamed(lines, e.key)
    IN  IF e.value = "" THEN Without(lines, e.key)
        ELSE IF i # 0 THEN [lines EXCEPT ![i].value = e.value]
        ELSE IF e.replace THEN lines
        ELSE Append(lines, [key |-> e.key, value |-> e.value])

\* Through any sequence of edits, splits and new parts, an edit does to the
\* request what it means and nothing else: a clear leaves no line of its name
\* and every other one, a set changes or adds one line.  Nothing is said once a
\* removal has failed.  That of the only line of the first part always does: the
\* line goes, but as an error, and the lines of its name in other parts stay.
InputEdited ==
    [][edit # NoEdit /\ edit' = NoEdit /\ ~spoiled'
        => Lines' = Edited(was, edit)]_inVars

\* The pointers headers_in keeps follow the list: each is to the first line of
\* its name and NULL without one, and content_length_n is the number of that
\* line, but where -r has set it without one.  Nothing is said of a request in
\* which a removal has failed: its pointer is to the line that was to go.
SlotsTrue ==
    edit = NoEdit /\ ~spoiled =>
        /\ \A b \in Builtin :
            LET i == FirstNamed(Lines, b)
            IN  slot[b] = IF i = 0 THEN 0 ELSE Listed[i]
        /\ server = FirstValue(Lines, "host") \/ FirstValue(Lines, "host") = ""
        /\ LET length == FirstValue(Lines, "content-length")
           IN  imposed \/ content_length_n = (IF length = "" THEN -1 ELSE Number[length])

\* The last part is as long as the code believes at most, and has that room.
PushInRoom ==
    /\ Len(Last(parts).cells) <= nalloc /\ nalloc <= Last(parts).room
    /\ nalloc > 0

\* ngx_list_push never writes behind the room of the last part, nor over the
\* elements a split has left to another one, and no element is in two places.
\* Nothing is said of a request in which a removal has failed: a first part that
\* has lost its only line so has room for one less than nalloc says.
RoomKept == ~spoiled => PushInRoom /\ IsInjective(Listed)

==============================================================================
