------------------------------ MODULE StripFilter ------------------------------
(***************************************************************************)
(* mod_strip's pass over a page, ngx_http_strip_process_buffer: an         *)
(* automaton of one byte of state per request, which reads the page byte   *)
(* by byte and drops some of its white space.  The end of a buffer moves   *)
(* reader and writer and nothing the next byte depends on, so that a page  *)
(* is one stream here, of any length.                                      *)
(*                                                                         *)
(* The states of CDATA sections are in the source but not here: nothing    *)
(* reaches them, because the case of "[" goes on into the default one.     *)
(***************************************************************************)
EXTENDS Integers, Sequences, FiniteSetsExt

CONSTANTS
    Byte,       \* the bytes of a page, one-character strings
    Letter,     \* the letters among them
    Lower       \* Lower[b]: b in lower case

ASSUME StripAssumption ==
    /\ {"p", "P"} \subseteq Letter /\ Letter \subseteq Byte \ {" ", "!", "/"}
    /\ Lower \in [Byte -> Byte]

\* Lower case changes none of the bytes the tokens are made of.
ASSUME LowerAssumption ==
    \A b \in Byte :
        /\ \A mark \in {" ", "!", "/", "<", ">", "-"} : Lower[b] = mark <=> b = mark
        /\ Lower[b] = "p" <=> b \in {"p", "P"}
        /\ Lower[b] = "r" <=> b \in {"r", "R"}
        /\ Lower[b] = "e" <=> b \in {"e", "E"}

VARIABLES
    state,      \* ctx->state
    written,    \* the last byte written
    skipped,    \* the last byte read was not written
    gap,        \* history: the white space read in the text since its last byte
    region,     \* history: what must stay as it is, by the tokens of the page
    begun       \* history: the part read of the token that begins or ends it

watched == <<gap, region, begun>>
stripVars == <<state, written, skipped, watched>>

Breaks == {"\r", "\n", "\t"}

TextState == {"text", "text_whitespace"}
NameState == {"tag_name", "tag_name_p", "tag_name_pr", "tag_name_pre"}
PreState ==
    {"pre", "pre_angle", "pre_angle_slash", "pre_angle_slash_p",
     "pre_angle_slash_pr", "pre_angle_slash_pre"}
BangState == {"bang", "bang_dash", "bang_stuff"}
CommentState == {"comment", "comment_dash", "comment_dash_dash"}
AttributeState ==
    {"tag_whitespace", "attribute_name", "attribute_equals", "attribute_value",
     "double_quote", "single_quote"}
State ==
    {"tag", "end_tag", "end_tag_name", "abort"} \cup TextState \cup NameState
        \cup PreState \cup BangState \cup CommentState \cup AttributeState

InText == state \in TextState

------------------------------------------------------------------------------
(* What the page itself says, kept beside the automaton to compare.        *)

Opening == [pre |-> {<<"<", "p", "r", "e", ">">>, <<"<", "p", "r", "e", " ">>},
            comment |-> {<<"<", "!", "-", "-">>}]
Closing == [pre |-> <<"<", "/", "p", "r", "e", ">">>,
            comment |-> <<"-", "-", ">">>]

Starts(token) == {SubSeq(token, 1, n) : n \in 1..Len(token)}

\* The longest end of s that the token begins with.
Match(token, s) ==
    LET fits == {n \in 0..Len(s) :
                    n <= Len(token)
                    /\ SubSeq(s, Len(s) - n + 1, Len(s)) = SubSeq(token, 1, n)}
    IN  SubSeq(s, Len(s) - Max(fits) + 1, Len(s))

WatchOutside(read) ==
    /\ begun' = IF read \in UNION {UNION {Starts(t) : t \in Opening[r]} : r \in DOMAIN Opening}
                THEN read ELSE <<>>
    /\ region' = IF \E r \in DOMAIN Opening : read \in Opening[r]
                 THEN CHOOSE r \in DOMAIN Opening : read \in Opening[r]
                 ELSE "open"

\* What white space the text has shown since its last other byte.
WatchGap(b) ==
    gap' = IF ~InText \/ b \notin Breaks \cup {" "} THEN "none"
           ELSE IF b = " " THEN "space"
           ELSE IF gap = "none" THEN "break" ELSE gap

\* A region opens with a token that a "<" of the text begins, and closes with
\* the first closing token.
WatchRegion(b) ==
    IF region = "open"
    THEN WatchOutside(CASE InText /\ b = "<" -> <<"<">>
                        [] begun # <<>>      -> Append(begun, Lower[b])
                        [] OTHER             -> <<>>)
    ELSE LET read == Match(Closing[region], Append(begun, Lower[b]))
         IN  IF read = Closing[region]
             THEN region' = "open" /\ begun' = <<>>
             ELSE region' = region /\ begun' = read

Watch(b) == WatchGap(b) /\ WatchRegion(b)

------------------------------------------------------------------------------
(* One iteration: the byte read is written, or the loop continues.         *)

Keep(b) == written' = b /\ skipped' = FALSE
Drop == written' = written /\ skipped' = TRUE
To(s) == state' = s
Stay == UNCHANGED state

\* Mutant: a blank behind a tag is taken for a superfluous one.
ReadText_DropsBehindTag(b) ==
    /\ state = "text"
    /\ \/ b \in Breaks /\ Drop /\ Stay
       \/ b = "<" /\ Keep(b) /\ To("tag")
       \/ b = " " /\ written = ">" /\ Drop /\ To("text_whitespace")
       \/ b = " " /\ written # ">" /\ Keep(b) /\ To("text_whitespace")
       \/ b \notin Breaks \cup {"<", " "} /\ Keep(b) /\ Stay

ReadText(b) ==
    /\ state = "text"
    /\ \/ b \in Breaks /\ Drop /\ Stay
       \/ b = "<" /\ Keep(b) /\ To("tag")
       \/ b = " " /\ Keep(b) /\ To("text_whitespace")
       \/ b \notin Breaks \cup {"<", " "} /\ Keep(b) /\ Stay

\* Mutant: a line break ends the run of blanks.
ReadTextWhitespace_BreakEnds(b) ==
    /\ state = "text_whitespace"
    /\ \/ b = " " /\ Drop /\ Stay
       \/ b \in Breaks /\ Drop /\ To("text")
       \/ b = "<" /\ Keep(b) /\ To("tag")
       \/ b \notin Breaks \cup {"<", " "} /\ Keep(b) /\ To("text")

ReadTextWhitespace(b) ==
    /\ state = "text_whitespace"
    /\ \/ b \in Breaks \cup {" "} /\ Drop /\ Stay
       \/ b = "<" /\ Keep(b) /\ To("tag")
       \/ b \notin Breaks \cup {"<", " "} /\ Keep(b) /\ To("text")

ReadTag(b) ==
    /\ state = "tag" /\ Keep(b)
    /\ \/ b = "!" /\ To("bang")
       \/ b = "/" /\ To("end_tag")
       \/ b \in {"p", "P"} /\ To("tag_name_p")
       \/ b = " " /\ Stay
       \/ b \in Letter \ {"p", "P"} /\ To("tag_name")
       \/ b \notin Letter \cup {"!", "/", " "} /\ To("abort")

\* Mutant: the name is compared in lower case only.
ReadTagName_LowerOnly(b) ==
    /\ state \in NameState /\ Keep(b)
    /\ \/ state = "tag_name_p" /\ b = "r" /\ To("tag_name_pr")
       \/ state = "tag_name_pr" /\ b = "e" /\ To("tag_name_pre")
       \/ state = "tag_name_pre" /\ b \in {" ", ">"} /\ To("pre")
       \/ state # "tag_name_pre" /\ b = " " /\ To("tag_whitespace")
       \/ state # "tag_name_pre" /\ b = ">" /\ To("text")
       \/ /\ b \notin {" ", ">"} /\ To("tag_name")
          /\ ~(state = "tag_name_p" /\ b = "r") /\ ~(state = "tag_name_pr" /\ b = "e")

\* The name of a tag, and whether it is pre.
ReadTagName(b) ==
    /\ state \in NameState /\ Keep(b)
    /\ \/ state = "tag_name_p" /\ b \in {"r", "R"} /\ To("tag_name_pr")
       \/ state = "tag_name_pr" /\ b \in {"e", "E"} /\ To("tag_name_pre")
       \/ state = "tag_name_pre" /\ b \in {" ", ">"} /\ To("pre")
       \/ state # "tag_name_pre" /\ b = " " /\ To("tag_whitespace")
       \/ state # "tag_name_pre" /\ b = ">" /\ To("text")
       \/ /\ b \notin {" ", ">"} /\ To("tag_name")
          /\ ~(state = "tag_name_p" /\ b \in {"r", "R"})
          /\ ~(state = "tag_name_pr" /\ b \in {"e", "E"})

\* The bytes of the end tag a preformatted text waits for.
EndOfPre ==
    [pre |-> {"<"}, pre_angle |-> {"/"}, pre_angle_slash |-> {"p", "P"},
     pre_angle_slash_p |-> {"r", "R"}, pre_angle_slash_pr |-> {"e", "E"},
     pre_angle_slash_pre |-> {">"}]
FurtherInPre ==
    [pre |-> "pre_angle", pre_angle |-> "pre_angle_slash",
     pre_angle_slash |-> "pre_angle_slash_p", pre_angle_slash_p |-> "pre_angle_slash_pr",
     pre_angle_slash_pr |-> "pre_angle_slash_pre", pre_angle_slash_pre |-> "text"]

ReadPre(b) ==
    /\ state \in PreState /\ Keep(b)
    /\ To(IF b \in EndOfPre[state] THEN FurtherInPre[state] ELSE "pre")

ReadBang(b) ==
    /\ state \in BangState /\ Keep(b)
    /\ \/ state = "bang" /\ To(IF b = "-" THEN "bang_dash" ELSE "bang_stuff")
       \/ state = "bang_dash" /\ To(IF b = "-" THEN "comment" ELSE "bang_stuff")
       \/ state = "bang_stuff" /\ To(IF b = ">" THEN "text" ELSE "bang_stuff")

ReadComment(b) ==
    /\ state \in CommentState /\ Keep(b)
    /\ \/ state = "comment" /\ To(IF b = "-" THEN "comment_dash" ELSE "comment")
       \/ state = "comment_dash" /\ To(IF b = "-" THEN "comment_dash_dash" ELSE "comment")
       \/ state = "comment_dash_dash" /\ To(IF b = ">" THEN "text" ELSE "comment")

ReadEndTag(b) ==
    \/ state = "end_tag" /\ b = " " /\ Drop /\ Stay
    \/ state = "end_tag" /\ b # " " /\ Keep(b) /\ To("end_tag_name")
    \/ state = "end_tag_name" /\ Keep(b) /\ To(IF b = ">" THEN "text" ELSE "end_tag_name")

\* Between the name of a tag and its ">".
ReadAttribute(b) ==
    \/ state = "tag_whitespace" /\ b = " " /\ Drop /\ Stay
    \/ state = "tag_whitespace" /\ b \notin {" ", ">"} /\ Keep(b) /\ To("attribute_name")
    \/ /\ state \in {"tag_whitespace", "attribute_name", "attribute_value"}
       /\ b = ">" /\ Keep(b) /\ To("text")
    \/ state \in {"attribute_name", "attribute_value"} /\ b = " " /\ Keep(b) /\ To("tag_whitespace")
    \/ state = "attribute_name" /\ b = "=" /\ Keep(b) /\ To("attribute_equals")
    \/ state = "attribute_name" /\ b \notin {">", " ", "="} /\ Keep(b) /\ Stay
    \/ state = "attribute_value" /\ b \notin {">", " "} /\ Keep(b) /\ Stay
    \/ /\ state = "attribute_equals" /\ Keep(b)
       /\ To(CASE b = "\"" -> "double_quote" [] b = "'" -> "single_quote"
               [] OTHER    -> "attribute_value")
    \/ state = "double_quote" /\ Keep(b) /\ To(IF b = "\"" THEN "attribute_value" ELSE state)
    \/ state = "single_quote" /\ Keep(b) /\ To(IF b = "'" THEN "attribute_value" ELSE state)

ReadAbort(b) == state = "abort" /\ Keep(b) /\ Stay

------------------------------------------------------------------------------
\* ngx_pcalloc: strip_state_text is 0.
StripInit ==
    /\ state = "text" /\ written = "NUL" /\ skipped = FALSE
    /\ gap = "none" /\ region = "open" /\ begun = <<>>

Read(b) ==
    \/ ReadText(b) \/ ReadTextWhitespace(b)
    \/ ReadTag(b) \/ ReadTagName(b) \/ ReadAttribute(b) \/ ReadEndTag(b)
    \/ ReadPre(b) \/ ReadBang(b) \/ ReadComment(b) \/ ReadAbort(b)

StripNext == \E b \in Byte : Read(b) /\ Watch(b)

StripSpec == StripInit /\ [][StripNext]_stripVars

------------------------------------------------------------------------------
(* Properties                                                              *)

\* The context's byte is a state of the text, of markup or of abort.
StripTypeOK ==
    /\ state \in State /\ written \in Byte \cup {"NUL"} /\ skipped \in BOOLEAN
    /\ gap \in {"none", "break", "space"}
    /\ region \in {"open"} \cup DOMAIN Opening
    /\ begun \in Seq(Byte)

\* "Remove unnecessary whitespace": a run of white space in the text that has
\* a ' ' leaves a ' ', whatever markup and breaks stand around it and wherever
\* buffers end; and what separates two attributes stays.
SeparatorKept ==
    /\ InText => (gap = "space" <=> written = " ")
    /\ state = "tag_whitespace" => written = " "

\* And it leaves no more than one: all behind the first ' ' is dropped.
BlanksCollapse == [][InText /\ gap = "space" /\ gap' = "space" => skipped']_stripVars

\* Nothing between a pre tag and its end tag, and nothing of a comment, is
\* dropped, though the automaton knows them only by the bytes it reads.
PreservedKept == [][region # "open" => ~skipped']_stripVars

==============================================================================
