----------------------------- MODULE JsContract ------------------------------
(***************************************************************************)
(* What the JavaScript minifier promises of the whole response, however    *)
(* the upstream cuts it into buffers: the bytes sent are the bytes         *)
(* received, in order, less comments and less blanks outside a quoted text *)
(* or a bracket, and a line comment leaves one ' ' where its line ended.   *)
(***************************************************************************)
EXTENDS StreamContract

Blank == {" ", "\t", "\n", "\r"}
QuoteMark == {"\"", "'"}

Plain == Inside = "text" /\ Sees(1)

OmitBlank == Plain /\ pending[1] \in Blank /\ OmitOne /\ UNCHANGED <<nest, opening>>

KeepByte ==
    /\ Plain
    /\ pending[1] \notin {"/", "[", "\r"} \cup QuoteMark
    /\ KeepOne
    /\ UNCHANGED <<nest, opening>>

\* A slash that opens no comment is sent with the byte after it.
KeepSlash ==
    /\ Plain /\ Sees(2)
    /\ pending[1] = "/" /\ pending[2] \notin {"*", "/"}
    /\ KeepTwo
    /\ UNCHANGED <<nest, opening>>

\* A bracket is kept like a quoted text, up to the first closing one.
KeepOpening ==
    /\ Plain
    /\ pending[1] \in QuoteMark \cup {"["}
    /\ KeepOne
    /\ Enter("quote")
    /\ opening' = IF pending[1] = "[" THEN "]" ELSE pending[1]

OmitCommentOpening ==
    /\ Plain /\ Sees(2)
    /\ pending[1] = "/"
    /\ \/ pending[2] = "*" /\ Enter("comment")
       \/ pending[2] = "/" /\ Enter("comment_line")
    /\ OmitTwo
    /\ UNCHANGED opening

OmitLineComment ==
    /\ Inside = "comment_line" /\ Sees(1)
    /\ \/ pending[1] # "\n" /\ OmitOne /\ UNCHANGED nest
       \/ /\ pending[1] = "\n" /\ Leave
          /\ pending' = Tail(pending) /\ out' = Append(out, " ")
    /\ UNCHANGED opening

Rewrite ==
    \/ OmitBlank \/ KeepByte \/ KeepSlash \/ KeepOpening \/ KeepQuoted
    \/ OmitCommentOpening \/ OmitComment \/ OmitLineComment

CNext == Arrive \/ Flush \/ LoseBegun \/ ((Send \/ Rewrite) /\ UNCHANGED flushed)

CSpec == CInit /\ [][CNext]_cvars
==============================================================================
