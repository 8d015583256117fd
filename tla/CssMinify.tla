------------------------------ MODULE CssMinify ------------------------------
(***************************************************************************)
(* The CSS minifier.  One action is one iteration of the innermost loop    *)
(* that reads a byte, in the state the context's stack names; the calls    *)
(* of strip_comment, strip_quote and strip_brace only decide which         *)
(* nochange_pre assignments happen on the way, and braceLoop keeps that:   *)
(* it is TRUE while ngx_minify_css_strip_brace is on the C stack.          *)
(* minify_state_abort is left out: it needs a negative count or a state    *)
(* no push makes (StackShape).                                             *)
(***************************************************************************)
EXTENDS MinifyCtx

VARIABLE braceLoop

vars == <<ctxVars, braceLoop>>

Quotes == {"\"", "'"}
NewLines == {"\n", "\r"}

State == {"text", "brace", "comment", "quote"}

TypeOK == CtxTypeOK(State) /\ braceLoop \in BOOLEAN

Init == CtxInit /\ braceLoop = FALSE

\* What every iteration leaves alone.
Iterate(s) ==
    /\ busy /\ rest # <<>> /\ CtxState = s
    /\ UNCHANGED <<size, busy, inMemory>>

------------------------------------------------------------------------------
(* case minify_state_text                                                  *)

TextSpace ==
    /\ Cur \in {" ", "\t"}
    /\ IF pre \in {" ", "\t"} THEN IncRpos ELSE CopyRpos
    /\ UNCHANGED <<stack, quote>>

\* Mutant: a slash that ends its buffer is dropped, not withheld.
Slash_Dropped ==
    /\ Cur = "/"
    /\ \/ StartsWith("/", "*") /\ IncRposTwice /\ PushState("comment")
       \/ Count >= 2 /\ ~StartsWith("/", "*") /\ CopyRposTwice /\ UNCHANGED stack
       \/ Count = 1 /\ IncRpos /\ UNCHANGED stack
    /\ UNCHANGED quote

\* Outside a comment or a quoted text a slash opens a comment, is copied
\* with the byte after it, or, last in its buffer, waits for the next one.
Slash ==
    /\ Cur = "/"
    /\ \/ StartsWith("/", "*") /\ IncRposTwice /\ PushState("comment")
       \/ Count >= 2 /\ ~StartsWith("/", "*") /\ CopyRposTwice /\ UNCHANGED stack
       \/ CacheRpos /\ UNCHANGED stack
    /\ UNCHANGED quote

OpenQuote ==
    /\ Cur \in Quotes
    /\ quote' = Cur
    /\ CopyRpos
    /\ PushState("quote")

OpenBrace == Cur = "{" /\ CopyRpos /\ PushState("brace") /\ UNCHANGED quote

TextNewLine == Cur \in NewLines /\ IncRpos /\ UNCHANGED <<stack, quote>>

TextOther ==
    /\ Cur \notin {" ", "\t", "/", "{"} \cup Quotes \cup NewLines
    /\ CopyRpos
    /\ UNCHANGED <<stack, quote>>

\* Mutant: pre_char stays frozen behind a comment.
StripText_StaysFrozen ==
    /\ Iterate("text")
    /\ UNCHANGED nochange
    /\ TextSpace \/ Slash \/ OpenQuote \/ OpenBrace \/ TextNewLine \/ TextOther
    /\ braceLoop' = FALSE
    /\ UpdatePre

StripText ==
    /\ Iterate("text")
    /\ nochange' = FALSE
    /\ TextSpace \/ Slash \/ OpenQuote \/ OpenBrace \/ TextNewLine \/ TextOther
    /\ braceLoop' = FALSE
    /\ UpdatePre

------------------------------------------------------------------------------
(* ngx_minify_css_strip_brace                                              *)

CloseBrace == Cur = "}" /\ CopyRpos /\ SetState("text") /\ UNCHANGED quote

BraceBlank ==
    /\ \/ Cur = " " /\ pre = " "
       \/ Cur \in NewLines \cup {"\t"}
    /\ IncRpos
    /\ UNCHANGED <<stack, quote>>

\* Mutant: a brace inside a brace is nested.
BraceOther_Nested ==
    /\ Cur \notin {"}", "\t", "/"} \cup Quotes \cup NewLines
    /\ ~(Cur = " " /\ pre = " ")
    /\ CopyRpos
    /\ IF Cur = "{" THEN PushState("brace") ELSE UNCHANGED stack
    /\ UNCHANGED quote

BraceOther ==
    /\ Cur \notin {"}", "\t", "/"} \cup Quotes \cup NewLines
    /\ ~(Cur = " " /\ pre = " ")
    /\ CopyRpos
    /\ UNCHANGED <<stack, quote>>

\* A comment or a quoted text inside the braces returns here, and nothing
\* resets the nochange_pre the comment set.
StripBrace ==
    /\ Iterate("brace")
    /\ CloseBrace \/ BraceBlank \/ Slash \/ OpenQuote \/ BraceOther
    /\ braceLoop' = (stack' # <<"text">>)
    /\ UNCHANGED nochange
    /\ UpdatePre

------------------------------------------------------------------------------
(* ngx_minify_css_strip_comment and ngx_minify_css_strip_quote             *)

\* Mutant: a star that closes nothing is not stepped over.
StripComment_StarStays ==
    /\ Iterate("comment")
    /\ \/ StartsWith("*", "/") /\ IncRposTwice /\ PopState
       \/ Cur = "*" /\ CacheRpos /\ UNCHANGED stack
       \/ /\ ~StartsWith("*", "/") /\ Cur = "*" /\ Count > 1
          /\ UNCHANGED <<rest, dst, cache, stack>>
       \/ Cur # "*" /\ IncRpos /\ UNCHANGED stack
    /\ nochange' = TRUE
    /\ UpdatePre
    /\ UNCHANGED <<quote, braceLoop>>

StripComment ==
    /\ Iterate("comment")
    /\ \/ StartsWith("*", "/") /\ IncRposTwice /\ PopState
       \/ Cur = "*" /\ CacheRpos /\ UNCHANGED stack
       \/ /\ ~StartsWith("*", "/") /\ ~(Cur = "*" /\ Count = 1)
          /\ IncRpos /\ UNCHANGED stack
    /\ nochange' = TRUE
    /\ UpdatePre
    /\ UNCHANGED <<quote, braceLoop>>

StripQuote ==
    /\ Iterate("quote")
    /\ \/ Cur = "\\" /\ Count > 1 /\ CopyRposTwice /\ UNCHANGED stack
       \/ Cur = "\\" /\ CacheRpos /\ UNCHANGED stack
       \/ Cur = quote /\ CopyRpos /\ PopState
       \/ Cur \notin {"\\", quote} /\ CopyRpos /\ UNCHANGED stack
    /\ nochange' = IF braceLoop THEN nochange ELSE TRUE
    /\ UpdatePre
    /\ UNCHANGED <<quote, braceLoop>>

------------------------------------------------------------------------------
ReceiveBuffer ==
    /\ ReceiveSpecial \/ \E chunk \in Chunk : Receive(chunk)
    /\ braceLoop' = FALSE

DeliverBuffer == Deliver /\ UNCHANGED braceLoop

StripBuffer == StripText \/ StripBrace \/ StripComment \/ StripQuote

Next == ReceiveBuffer \/ StripBuffer \/ DeliverBuffer

\* The loop runs to its end inside one call of the filter, so the process
\* never abandons a buffer; nothing promises that more buffers arrive.
Fairness == WF_vars(StripBuffer \/ DeliverBuffer)

Spec == Init /\ [][Next]_vars /\ Fairness

------------------------------------------------------------------------------
(* Properties                                                              *)

\* The unchecked CTX_PUSH_STATE and CTX_POP_STATE never leave the eight-entry
\* stack: text is at the bottom, a brace only on it, a comment or a quote on
\* either, and a buffer that ends anywhere resumes in one of these shapes.
StackShape ==
    /\ Len(stack) \in 1..3
    /\ stack[1] = "text"
    /\ Len(stack) = 2 => stack[2] \in {"brace", "comment", "quote"}
    /\ Len(stack) = 3 => stack[2] = "brace" /\ stack[3] \in {"comment", "quote"}

\* A byte is withheld only when the buffer is used up, one at a time, and
\* only a byte that may begin a two-byte token of the state the next buffer
\* resumes in.
WithheldOne ==
    cache # <<>> =>
        /\ rest = <<>>
        /\ Len(cache) = 1
        /\ cache[1] = CASE CtxState = "comment" -> "*"
                        [] CtxState = "quote"   -> "\\"
                        [] OTHER                -> "/"

\* Outside the braces no blank is written behind a blank of the same buffer,
\* although pre_char, which the test reads, is frozen while a comment or a
\* quoted text is stripped and stays frozen in a brace after one.
TextBlanksCollapse ==
    [][/\ busy /\ rest # <<>> /\ CtxState = "text" /\ Cur \in {" ", "\t"}
       /\ dst # <<>> /\ dst[Len(dst)] \in {" ", "\t"}
       => dst' = dst]_vars

\* The loop of strip_buffer always ends and the buffer always goes on.
BufferDelivered == busy ~> ~busy

\* Only superfluous blanks are removed: a ' ' outside a comment and a quoted
\* text is sent when the byte sent before it in this buffer is neither a blank
\* nor a brace, for it may separate two values of a property.
LoneSpaceKept ==
    [][LET separates == /\ busy /\ rest # <<>> /\ dst # <<>>
                        /\ CtxState \in {"text", "brace"}
                        /\ Cur = " " /\ dst[Len(dst)] \notin {" ", "\t", "{", "}"}
       IN  separates => Len(dst') > Len(dst)]_vars

\* The detailed minifier implements CssContract: the withheld bytes and the
\* bytes rpos has not reached are the contract's pending stream, so that
\* withholding a byte is a stutter, and dropping it instead is none.
Contract == INSTANCE CssContract WITH
    pending <- cache \o rest, out <- dst, nest <- stack, opening <- quote,
    flushed <- ~inMemory

\* However the response is cut into buffers, only comments and blanks outside
\* quoted text are lost, nothing is reordered, doubled or invented, and a
\* quoted text is sent byte for byte.  A begun token is lost in front of a
\* buffer that is not in memory (LoseBegun), and nowhere else.
ImplementsContract == Contract!CSpec

==============================================================================
