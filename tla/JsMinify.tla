------------------------------- MODULE JsMinify -------------------------------
(***************************************************************************)
(* The JavaScript minifier.  One action is one iteration of the innermost  *)
(* loop that reads a byte; strip_buffer sets nochange_pre before it calls  *)
(* strip_comment or strip_quote, so an iteration of theirs carries that    *)
(* assignment.  pre_char is also assigned outside the end of the loop:     *)
(* a dropped newline and the end of a line comment record "\n".            *)
(* minify_state_abort is left out: it needs a negative count or a state    *)
(* no push makes (StackShape).                                             *)
(***************************************************************************)
EXTENDS MinifyCtx

\* The bytes the minifier writes by itself, or compares with.
ASSUME ByteAssumption == {" ", "]"} \subseteq Byte

vars == ctxVars

Blanks == {" ", "\t"}
Openings == {"\"", "'", "["}
LineEnds == {NUL, "\n", ";", ":", "{", "}"}

State == {"text", "comment", "comment_line", "quote"}

TypeOK == CtxTypeOK(State)

Init == CtxInit

\* What every iteration leaves alone.
Iterate(s) ==
    /\ busy /\ rest # <<>> /\ CtxState = s
    /\ UNCHANGED <<size, busy, inMemory>>

------------------------------------------------------------------------------
(* case minify_state_text                                                  *)

\* Mutant: the test for a second blank is missing.
DropsBlank_HeadsOnly == Cur \in Blanks /\ (pre = "\n" \/ dst = <<>>)

\* A blank is dropped at the head of a line, behind a blank, and wherever
\* nothing has been written to the buffer yet.
DropsBlank == Cur \in Blanks /\ (pre \in Blanks \cup {"\n"} \/ dst = <<>>)

SkipBlank ==
    /\ DropsBlank
    /\ IncRpos
    /\ nochange' = TRUE
    /\ UpdatePre
    /\ UNCHANGED <<stack, quote>>

Slash ==
    /\ Cur = "/"
    /\ \/ StartsWith("/", "*") /\ IncRposTwice /\ PushState("comment")
       \/ StartsWith("/", "/") /\ IncRposTwice /\ PushState("comment_line")
       \/ /\ Count >= 2 /\ ~StartsWith("/", "*") /\ ~StartsWith("/", "/")
          /\ CopyRposTwice /\ UNCHANGED stack
       \/ CacheRpos /\ UNCHANGED stack
    /\ nochange' = FALSE
    /\ UpdatePre
    /\ UNCHANGED quote

\* A bracket is skipped like a quoted text: its closing one is the quote.
OpenQuote ==
    /\ Cur \in Openings
    /\ quote' = IF Cur = "[" THEN "]" ELSE Cur
    /\ CopyRpos
    /\ PushState("quote")
    /\ nochange' = TRUE
    /\ UpdatePre

KeepNewLine ==
    /\ Cur = "\n" /\ pre \notin LineEnds
    /\ CopyRpos
    /\ nochange' = FALSE
    /\ UpdatePre
    /\ UNCHANGED <<stack, quote>>

SkipNewLine ==
    /\ Cur = "\n" /\ pre \in LineEnds
    /\ IncRpos
    /\ nochange' = TRUE
    /\ pre' = "\n"
    /\ UNCHANGED <<stack, quote>>

SkipReturn ==
    /\ Cur = "\r"
    /\ IncRpos
    /\ nochange' = TRUE
    /\ UpdatePre
    /\ UNCHANGED <<stack, quote>>

TextOther ==
    /\ Cur \notin {"/", "\n", "\r"} \cup Openings /\ ~DropsBlank
    /\ CopyRpos
    /\ nochange' = FALSE
    /\ UpdatePre
    /\ UNCHANGED <<stack, quote>>

StripText ==
    /\ Iterate("text")
    /\ \/ SkipBlank \/ Slash \/ OpenQuote
       \/ KeepNewLine \/ SkipNewLine \/ SkipReturn \/ TextOther

------------------------------------------------------------------------------
(* ngx_minify_js_strip_comment and ngx_minify_js_strip_quote               *)

StripComment ==
    /\ Iterate("comment")
    /\ \/ StartsWith("*", "/") /\ IncRposTwice /\ PopState
       \/ Cur = "*" /\ CacheRpos /\ UNCHANGED stack
       \/ /\ ~StartsWith("*", "/") /\ ~(Cur = "*" /\ Count = 1)
          /\ IncRpos /\ UNCHANGED stack
    /\ nochange' = TRUE
    /\ UpdatePre
    /\ UNCHANGED quote

\* Mutant: the newline is kept behind the ' ' that stands for it.
StripLineComment_CopiesBoth ==
    /\ Iterate("comment_line")
    /\ \/ /\ Cur = "\n"
          /\ rest' = Tail(rest) /\ dst' = dst \o <<" ", "\n">> /\ UNCHANGED cache
          /\ PopState /\ pre' = "\n"
       \/ Cur # "\n" /\ IncRpos /\ UNCHANGED <<stack, pre>>
    /\ nochange' = TRUE
    /\ UNCHANGED quote

\* A line comment ends in a ' ' that keeps the two lines apart.
StripLineComment ==
    /\ Iterate("comment_line")
    /\ \/ Cur = "\n" /\ CopyChar(" ") /\ PopState /\ pre' = "\n"
       \/ Cur # "\n" /\ IncRpos /\ UNCHANGED <<stack, pre>>
    /\ nochange' = TRUE
    /\ UNCHANGED quote

\* Mutant: a backslash that ends its buffer is dropped, not withheld.
StripQuote_EscapeDropped ==
    /\ Iterate("quote")
    /\ \/ Cur = "\\" /\ Count > 1 /\ CopyRposTwice /\ UNCHANGED stack
       \/ Cur = "\\" /\ Count = 1 /\ IncRpos /\ UNCHANGED stack
       \/ Cur = quote /\ CopyRpos /\ PopState
       \/ Cur \notin {"\\", quote} /\ CopyRpos /\ UNCHANGED stack
    /\ nochange' = TRUE
    /\ UpdatePre
    /\ UNCHANGED quote

\* Mutant: a backslash that ends its buffer is left for another iteration.
StripQuote_EscapeWaits ==
    /\ Iterate("quote")
    /\ \/ Cur = "\\" /\ Count > 1 /\ CopyRposTwice /\ UNCHANGED stack
       \/ Cur = "\\" /\ Count = 1 /\ UNCHANGED <<rest, dst, cache, stack>>
       \/ Cur = quote /\ CopyRpos /\ PopState
       \/ Cur \notin {"\\", quote} /\ CopyRpos /\ UNCHANGED stack
    /\ nochange' = TRUE
    /\ UpdatePre
    /\ UNCHANGED quote

StripQuote ==
    /\ Iterate("quote")
    /\ \/ Cur = "\\" /\ Count > 1 /\ CopyRposTwice /\ UNCHANGED stack
       \/ Cur = "\\" /\ CacheRpos /\ UNCHANGED stack
       \/ Cur = quote /\ CopyRpos /\ PopState
       \/ Cur \notin {"\\", quote} /\ CopyRpos /\ UNCHANGED stack
    /\ nochange' = TRUE
    /\ UpdatePre
    /\ UNCHANGED quote

------------------------------------------------------------------------------
ReceiveBuffer == ReceiveSpecial \/ \E chunk \in Chunk : Receive(chunk)

StripBuffer == StripText \/ StripComment \/ StripLineComment \/ StripQuote

Next == ReceiveBuffer \/ StripBuffer \/ Deliver

\* The loop runs to its end inside one call of the filter, so the process
\* never abandons a buffer; nothing promises that more buffers arrive.
Fairness == WF_vars(StripBuffer \/ Deliver)

Spec == Init /\ [][Next]_vars /\ Fairness

------------------------------------------------------------------------------
(* Properties                                                              *)

\* The unchecked CTX_PUSH_STATE and CTX_POP_STATE use two of the stack's
\* eight entries: a comment or a quoted text stands directly on the text,
\* also when a buffer ends inside it.
StackShape ==
    /\ Len(stack) \in 1..2
    /\ stack[1] = "text"
    /\ Len(stack) = 2 => stack[2] \in {"comment", "comment_line", "quote"}

\* A byte is withheld only when the buffer is used up, one at a time, and
\* only a byte that may begin a two-byte token of the state the next buffer
\* resumes in.
WithheldOne ==
    cache # <<>> =>
        /\ rest = <<>>
        /\ Len(cache) = 1
        /\ \/ CtxState = "text" /\ cache[1] = "/"
           \/ CtxState = "comment" /\ cache[1] = "*"
           \/ CtxState = "quote" /\ cache[1] = "\\"

\* The first byte a step writes doubles the one before it: a blank behind a
\* blank or at the head of a line, or an empty line.
DoublesBlank ==
    /\ busy /\ dst # <<>> /\ Len(dst') > Len(dst)
    /\ LET last == dst[Len(dst)]
           next == dst'[Len(dst) + 1]
       IN  \/ next \in Blanks /\ last \in Blanks \cup {"\n"}
           \/ next = "\n" /\ last = "\n"

\* Outside a quoted text no step writes a blank behind a blank or behind a
\* newline, nor a newline behind a newline, whatever was stripped between the
\* two.  One ' ' is exempt, and no other byte: the one that takes the place of
\* a line comment is written whatever stands before it.
BlanksCollapse ==
    [][DoublesBlank /\ CtxState # "quote"
       => CtxState = "comment_line" /\ dst' = Append(dst, " ")]_vars

\* The loop of strip_buffer always ends and the buffer always goes on.
BufferDelivered == busy ~> ~busy

\* A newline is dropped behind ; : { } only: behind a quoted text it ends the
\* statement and is sent.
NewLineKept ==
    [][busy /\ rest # <<>> /\ CtxState = "text" /\ Cur = "\n"
       /\ dst # <<>> /\ dst[Len(dst)] \in {"\"", "'", "]"}
       => Len(dst') > Len(dst)]_vars

\* The detailed minifier implements JsContract: the withheld bytes and the
\* bytes rpos has not reached are the contract's pending stream.
Contract == INSTANCE JsContract WITH
    pending <- cache \o rest, out <- dst, nest <- stack, opening <- quote,
    flushed <- ~inMemory

\* However the response is cut into buffers, only comments and blanks outside
\* quoted text and brackets are lost, nothing is reordered or doubled, and
\* nothing is invented but the ' ' a line comment leaves.
\* A begun token is lost in front of a buffer that is not in memory
\* (LoseBegun), and nowhere else.
ImplementsContract == Contract!CSpec

==============================================================================
