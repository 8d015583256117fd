----------------------------- MODULE CssContract -----------------------------
(***************************************************************************)
(* What the CSS minifier promises of the whole response, however the       *)
(* upstream cuts it into buffers: the bytes sent are the bytes received,   *)
(* in order, less comments and less blanks that stand outside a quoted     *)
(* text.                                                                   *)
(***************************************************************************)
EXTENDS StreamContract

Blank == {" ", "\t", "\n", "\r"}
QuoteMark == {"\"", "'"}

Plain == Inside \in {"text", "brace"} /\ Sees(1)

OmitBlank == Plain /\ pending[1] \in Blank /\ OmitOne /\ UNCHANGED <<nest, opening>>

KeepByte ==
    /\ Plain
    /\ pending[1] \notin {"/"} \cup QuoteMark
    /\ KeepOne
    /\ nest' = CASE pending[1] = "{" /\ Inside = "text"  -> Append(nest, "brace")
                 [] pending[1] = "}" /\ Inside = "brace" -> <<"text">>
                 [] OTHER -> nest
    /\ UNCHANGED opening

\* A slash that opens no comment is sent with the byte after it.
KeepSlash ==
    /\ Plain /\ Sees(2)
    /\ pending[1] = "/" /\ pending[2] # "*"
    /\ KeepTwo
    /\ UNCHANGED <<nest, opening>>

KeepOpeningQuote ==
    /\ Plain
    /\ pending[1] \in QuoteMark
    /\ KeepOne
    /\ Enter("quote")
    /\ opening' = pending[1]

OmitCommentOpening ==
    /\ Plain /\ Sees(2)
    /\ pending[1] = "/" /\ pending[2] = "*"
    /\ OmitTwo
    /\ Enter("comment")
    /\ UNCHANGED opening

Rewrite ==
    \/ OmitBlank \/ KeepByte \/ KeepSlash \/ KeepOpeningQuote \/ KeepQuoted
    \/ OmitCommentOpening \/ OmitComment

CNext == Arrive \/ Flush \/ LoseBegun \/ ((Send \/ Rewrite) /\ UNCHANGED flushed)

CSpec == CInit /\ [][CNext]_cvars
==============================================================================
