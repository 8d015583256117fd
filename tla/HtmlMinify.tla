------------------------------ MODULE HtmlMinify ------------------------------
(***************************************************************************)
(* The HTML minifier.  One action is one iteration of the innermost loop,  *)
(* in the state the context's stack names.  strip_tag, strip_tagname and   *)
(* strip_comment call each other only to reach that state, and differ in   *)
(* when they copy the last byte written into pre_char: strip_buffer and    *)
(* strip_tagname after each iteration, the others not at all.  pre_char is *)
(* read in the text and in the attributes of a tag only, and there each    *)
(* way gives the value UpdatePre and TagPre give.                          *)
(* Of a tag's name the model keeps what its comparisons tell apart: the    *)
(* bytes, as long as they may become a name of html_skip_tag, and Other    *)
(* from then on.  The 64 bytes of tagcache are not a bound of the model.   *)
(***************************************************************************)
EXTENDS MinifyCtx

CONSTANTS
    Lower,      \* tolower
    SkipTag     \* html_skip_tag

ASSUME HtmlAssumption ==
    /\ Lower \in [Byte -> Byte]
    /\ SkipTag \subseteq Seq(Byte) \ {<<>>}
    /\ {"<", "!", "-", "[", "]", ">", "/", "i", "f", "C", "D", "A", "T"} \subseteq Byte

VARIABLES
    tagName,    \* tagcache[0 .. tagcachelen-1]
    endName,    \* tagendcache[0 .. tagendcachelen-1]
    overrun,    \* count is below zero: rpos has left the buffer
    headless    \* history: the withheld head of undecided markup is lost

vars == <<ctxVars, tagName, endName, overrun, headless>>
names == <<tagName, endName>>

\* A name that no name of html_skip_tag begins with.
Other == <<"other">>

InTag == {"tagname", "tagatt", "tagname_end"}
InComment == {"comment", "comment_ie", "comment_skip"}
Undecided == {"tag_bang", "comment"}
State == {"text", "abort", "skip", "tag", "tag_bang", "cdata"} \cup InTag \cup InComment

TypeOK ==
    /\ CtxTypeOK(State)
    /\ tagName \in Seq(Byte) \cup {Other} /\ endName \in Seq(Byte) \cup {Other}
    /\ overrun \in BOOLEAN /\ headless \in BOOLEAN

Init ==
    /\ CtxInit
    /\ tagName = <<>> /\ endName = <<>>
    /\ overrun = FALSE /\ headless = FALSE

CommentOpen == <<"<", "!", "-", "-">>
IeOpen == CommentOpen \o <<"[", "i", "f">>
CdataOpen == <<"<", "!", "[", "C", "D", "A", "T", "A", "[">>
IeClose == <<"]", "-", "-", ">">>
CommentClose == <<"-", "-", ">">>
CdataClose == <<"]", "]", ">">>

------------------------------------------------------------------------------
(* Helpers                                                                 *)

\* What every iteration leaves alone.
Iterate(s) ==
    /\ busy /\ rest # <<>> /\ CtxState = s
    /\ UNCHANGED <<size, quote, busy, inMemory>>

\* memcmp of a whole token, which the buffer must have room for
Has(token) == Count >= Len(token)
Matches(token) == Has(token) /\ SubSeq(rest, 1, Len(token)) = token
Differs(token) == Has(token) /\ ~Matches(token)

\* All that is left of the buffer begins the token, in either case.
Begins(token) ==
    Count <= Len(token) /\ \A i \in 1..Count : Lower[rest[i]] = Lower[token[i]]

\* Mutant: what begins a token is stepped over and not cached.
Withhold_Dropped(token) ==
    /\ Begins(token)
    /\ rest' = <<>>
    /\ UNCHANGED <<dst, cache>>

\* Mutant: what is cached is copied as well.
Withhold_AlsoCopied(token) ==
    /\ Begins(token)
    /\ cache' = cache \o rest
    /\ rest' = <<>>
    /\ dst' = dst \o rest

\* Mutant: ngx_minify_cache does not compare.
Withhold_Unmatched(token) ==
    /\ Count <= Len(token)
    /\ cache' = cache \o rest
    /\ rest' = <<>>
    /\ UNCHANGED dst

\* ngx_minify_cache and the loop of ngx_minify_inc_rpos behind it
Withhold(token) ==
    /\ Begins(token)
    /\ cache' = cache \o rest
    /\ rest' = <<>>
    /\ UNCHANGED dst

Skip(n) == rest' = SubSeq(rest, n + 1, Count) /\ UNCHANGED <<dst, cache>>
Copy(n) ==
    /\ dst' = dst \o SubSeq(rest, 1, n)
    /\ rest' = SubSeq(rest, n + 1, Count)
    /\ UNCHANGED cache

\* Mutant: the state is pushed and the one under it stays.
Replace_NotPopped(s) == PushState(s)

\* CTX_POP_STATE, CTX_PUSH_STATE
Replace(s) == stack' = [stack EXCEPT ![Len(stack)] = s]

Here == UNCHANGED <<rest, dst, cache>>

Lowered(name) == [i \in DOMAIN name |-> Lower[name[i]]]

\* ngx_minify_get_skip_tagname
IsSkipTag(name) == name # Other /\ Lowered(name) \in SkipTag

\* CTX_TAGCACHE_ADD, CTX_TAGENDCACHE_ADD
MayBeSkipTag(name) ==
    \E tag \in SkipTag :
        Len(name) <= Len(tag) /\ Lowered(name) = SubSeq(tag, 1, Len(name))
Add(name, c) ==
    IF name # Other /\ MayBeSkipTag(Append(name, c)) THEN Append(name, c) ELSE Other

\* strip_tagname clears pre_char on entry and follows the bytes written.
TagPre == IF dst = <<>> THEN NUL ELSE pre

------------------------------------------------------------------------------
(* ngx_minify_html_strip_buffer                                            *)

\* Mutant: two bytes are taken for enough to judge "<!".
TextLess_TwoBytes ==
    /\ Cur = "<"
    /\ \/ Count >= 2 /\ rest[2] # "!" /\ Copy(1) /\ PushState("tag")
       \/ Count >= 2 /\ rest[2] = "!" /\ Here /\ PushState("tag_bang")
       \/ Count = 1 /\ Withhold(<<"<">>) /\ UNCHANGED stack

\* A "<" that ends its buffer, alone or with its "!", waits for the next one.
TextLess ==
    /\ Cur = "<"
    /\ \/ Count >= 2 /\ rest[2] # "!" /\ Copy(1) /\ PushState("tag")
       \/ Count > 2 /\ rest[2] = "!" /\ Here /\ PushState("tag_bang")
       \/ Count <= 2 /\ Withhold(<<"<", "!">>) /\ UNCHANGED stack

TextBlank ==
    \/ Cur \in {"\n", "\r", "\t"} /\ Skip(1)
    \/ Cur = " " /\ IF pre = " " THEN Skip(1) ELSE Copy(1)

TextOther == Cur \notin {"<", " ", "\n", "\r", "\t"} /\ Copy(1)

\* Mutant: pre_char stays frozen behind a comment.
StripText_StaysFrozen ==
    /\ Iterate("text")
    /\ TextLess \/ ((TextBlank \/ TextOther) /\ UNCHANGED stack)
    /\ UNCHANGED <<nochange, names>>
    /\ UpdatePre

StripText ==
    /\ Iterate("text")
    /\ TextLess \/ ((TextBlank \/ TextOther) /\ UNCHANGED stack)
    /\ nochange' = FALSE
    /\ UpdatePre
    /\ UNCHANGED names

\* Inside pre, script and style all is kept, up to the next end tag, which
\* is read as a tag of the text.
StripSkip ==
    /\ Iterate("skip")
    /\ \/ Matches(<<"<", "/">>) /\ Here /\ SetState("text")
       \/ Cur = "<" /\ Count >= 2 /\ rest[2] # "/" /\ Copy(2) /\ UNCHANGED stack
       \/ Cur = "<" /\ CacheRpos /\ UNCHANGED stack
       \/ Cur # "<" /\ Copy(1) /\ UNCHANGED stack
    /\ UNCHANGED <<nochange, names>>
    /\ UpdatePre

StripAbort ==
    /\ Iterate("abort")
    /\ Copy(1)
    /\ UNCHANGED <<stack, nochange, names>>
    /\ UpdatePre

------------------------------------------------------------------------------
(* ngx_minify_html_strip_tag                                               *)

StripTag ==
    /\ Iterate("tag")
    /\ \/ Cur = " " /\ Skip(1) /\ UNCHANGED <<stack, names>>
       \/ Cur = "/" /\ Copy(1) /\ PushState("tagname_end") /\ UNCHANGED names
       \/ /\ Cur \notin {" ", "/"} /\ Here /\ PushState("tagname")
          /\ tagName' = <<>> /\ endName' = <<>>
    /\ UNCHANGED nochange
    /\ UpdatePre

\* "<!" is the head of a declaration or of something like a comment.  The
\* third byte and those behind it decide, whatever the first two are.  With
\* two bytes one is copied only: count shrinks under the loop's i.
BangShort == Count <= 2 /\ Copy(1) /\ SetState("text") /\ UNCHANGED nochange

BangTag ==
    /\ \/ rest[3] \notin {"-", "["} /\ Copy(2)
       \/ rest[3] = "-" /\ Differs(CommentOpen) /\ Copy(3)
    /\ Replace("tag")
    /\ UNCHANGED nochange

BangComment ==
    \/ Matches(CommentOpen) /\ Here /\ PushState("comment") /\ nochange' = TRUE
    \/ /\ rest[3] = "-" /\ ~Has(CommentOpen)
       /\ \/ Withhold(CommentOpen) /\ UNCHANGED stack
          \/ ~Begins(CommentOpen) /\ Here /\ SetState("abort")
       /\ UNCHANGED nochange

\* Nine bytes are copied unseen when they are not those of CDATA; when the
\* buffer has fewer of them, the rest of the response is copied.
BangCdata ==
    /\ rest[3] = "["
    /\ \/ Matches(CdataOpen) /\ Copy(9) /\ Replace("cdata")
       \/ Differs(CdataOpen) /\ Copy(9) /\ SetState("text")
       \/ ~Has(CdataOpen) /\ Withhold(CdataOpen) /\ UNCHANGED stack
       \/ ~Has(CdataOpen) /\ ~Begins(CdataOpen) /\ Here /\ SetState("abort")
    /\ UNCHANGED nochange

StripTagBang ==
    /\ Iterate("tag_bang")
    /\ BangShort \/ (Count > 2 /\ (BangTag \/ BangComment \/ BangCdata))
    /\ UpdatePre
    /\ UNCHANGED names

\* Mutant: a "]" that closes nothing is stepped over, not copied.
StripCdata_Skips ==
    /\ Iterate("cdata")
    /\ \/ Matches(CdataClose) /\ Copy(3) /\ SetState("text")
       \/ Cur = "]" /\ Differs(CdataClose) /\ Copy(3) /\ UNCHANGED stack
       \/ ~Has(CdataClose) /\ Withhold(CdataClose) /\ UNCHANGED stack
       \/ Cur = "]" /\ ~Has(CdataClose) /\ ~Begins(CdataClose) /\ Skip(1) /\ UNCHANGED stack
       \/ Cur # "]" /\ Copy(1) /\ UNCHANGED stack
    /\ UNCHANGED <<nochange, names>>
    /\ UpdatePre

StripCdata ==
    /\ Iterate("cdata")
    /\ \/ Matches(CdataClose) /\ Copy(3) /\ SetState("text")
       \/ Cur = "]" /\ Differs(CdataClose) /\ Copy(3) /\ UNCHANGED stack
       \/ ~Has(CdataClose) /\ Withhold(CdataClose) /\ UNCHANGED stack
       \/ Cur = "]" /\ ~Has(CdataClose) /\ ~Begins(CdataClose) /\ Copy(1) /\ UNCHANGED stack
       \/ Cur # "]" /\ Copy(1) /\ UNCHANGED stack
    /\ UNCHANGED <<nochange, names>>
    /\ UpdatePre

------------------------------------------------------------------------------
(* ngx_minify_html_strip_tagname                                           *)

\* Behind the ">" of a tag pre_char follows that byte, and is frozen when a
\* skipped region begins with bytes left in the buffer.
Freeze == nochange' = (nochange \/ (CtxState' = "skip" /\ rest' # <<>>))
FollowDst ==
    pre' = IF dst' = <<>> \/ nochange THEN NUL ELSE dst'[Len(dst')]

\* Mutant: the name of a tag with attributes is always kept.
StripTagname_KeepsName ==
    /\ Iterate("tagname")
    /\ Copy(1)
    /\ \/ /\ Cur = ">"
          /\ SetState(IF IsSkipTag(tagName) THEN "skip" ELSE "text")
          /\ tagName' = IF IsSkipTag(tagName) THEN tagName ELSE <<>>
       \/ Cur \in {" ", "/"} /\ Replace("tagatt") /\ UNCHANGED tagName
       \/ /\ Cur \notin {">", " ", "/"}
          /\ tagName' = Add(tagName, Cur)
          /\ UNCHANGED stack
    /\ Freeze /\ FollowDst
    /\ UNCHANGED endName

StripTagname ==
    /\ Iterate("tagname")
    /\ Copy(1)
    /\ \/ /\ Cur = ">"
          /\ SetState(IF IsSkipTag(tagName) THEN "skip" ELSE "text")
          /\ tagName' = IF IsSkipTag(tagName) THEN tagName ELSE <<>>
       \/ /\ Cur \in {" ", "/"}
          /\ Replace("tagatt")
          /\ tagName' = IF IsSkipTag(tagName) THEN tagName ELSE <<>>
       \/ /\ Cur \notin {">", " ", "/"}
          /\ tagName' = Add(tagName, Cur)
          /\ UNCHANGED stack
    /\ Freeze /\ FollowDst
    /\ UNCHANGED endName

StripTagatt ==
    /\ Iterate("tagatt")
    /\ \/ Cur = " " /\ TagPre = " " /\ Skip(1) /\ UNCHANGED <<stack, tagName>>
       \/ /\ Cur = ">" /\ Copy(1) /\ UNCHANGED tagName
          /\ SetState(IF tagName # <<>> THEN "skip" ELSE "text")
       \/ /\ Matches(<<"/", ">">>) /\ Copy(1) /\ UNCHANGED stack
          /\ tagName' = <<>>
       \/ Cur = "/" /\ Differs(<<"/", ">">>) /\ Copy(2) /\ UNCHANGED <<stack, tagName>>
       \/ Cur = "/" /\ CacheRpos /\ UNCHANGED <<stack, tagName>>
       \/ /\ Cur \notin {">", "/"} /\ ~(Cur = " " /\ TagPre = " ")
          /\ Copy(1) /\ UNCHANGED <<stack, tagName>>
    /\ Freeze /\ FollowDst
    /\ UNCHANGED endName

\* memcmp of tagcachelen bytes: the end tag's name has the tag's as a prefix,
\* and whatever is added to it then does not matter.
SameTag == Len(tagName) <= Len(endName) /\ SubSeq(endName, 1, Len(tagName)) = tagName

StripTagnameEnd ==
    /\ Iterate("tagname_end")
    /\ \/ Cur = " " /\ Skip(1) /\ UNCHANGED <<stack, names>>
       \/ /\ Cur = ">" /\ Copy(1)
          /\ IF endName = <<>>
             THEN SetState("text") /\ UNCHANGED names
             ELSE /\ SetState(IF SameTag THEN "text" ELSE "skip")
                  /\ tagName' = IF SameTag THEN <<>> ELSE tagName
                  /\ endName' = <<>>
       \/ /\ Cur \notin {" ", ">"} /\ Copy(1)
          /\ endName' = IF tagName = <<>> \/ SameTag THEN endName ELSE Add(endName, Cur)
          /\ UNCHANGED <<stack, tagName>>
    /\ Freeze /\ FollowDst

------------------------------------------------------------------------------
(* ngx_minify_html_strip_comment                                           *)

\* Mutant: bytes that cannot become "<!--[if" are not stepped over.
CommentHead_Waits ==
    \/ Count = 4 /\ Withhold(CommentOpen) /\ UNCHANGED stack
    \/ Count > 4 /\ rest[5] # "[" /\ Skip(4) /\ Replace("comment_skip")
    \/ Matches(IeOpen) /\ Here /\ Replace("comment_ie")
    \/ Count > 4 /\ rest[5] = "[" /\ ~Has(IeOpen) /\ Withhold(IeOpen) /\ UNCHANGED stack
    \/ /\ Count > 4 /\ rest[5] = "[" /\ ~Matches(IeOpen)
       /\ Has(IeOpen) /\ Skip(4) /\ Replace("comment_skip")
    \/ /\ Count > 4 /\ rest[5] = "[" /\ ~Has(IeOpen) /\ ~Begins(IeOpen)
       /\ Here /\ UNCHANGED stack

\* rpos is meant to be still at the "<" of "<!--": what follows decides.  Four
\* bytes that are not "<!--" are neither cached nor stepped over, for ever.
CommentHead ==
    \/ Count = 4 /\ Withhold(CommentOpen) /\ UNCHANGED stack
    \/ Count = 4 /\ ~Begins(CommentOpen) /\ Here /\ UNCHANGED stack
    \/ Count > 4 /\ rest[5] # "[" /\ Skip(4) /\ Replace("comment_skip")
    \/ Matches(IeOpen) /\ Here /\ Replace("comment_ie")
    \/ Count > 4 /\ rest[5] = "[" /\ ~Has(IeOpen) /\ Withhold(IeOpen) /\ UNCHANGED stack
    \/ /\ Count > 4 /\ rest[5] = "[" /\ ~Matches(IeOpen)
       /\ Has(IeOpen) \/ ~Begins(IeOpen)
       /\ Skip(4) /\ Replace("comment_skip")

\* Fewer bytes: the fifth is read behind the buffer.  A "[" found there may
\* have them cached; otherwise four are stepped over, count falls below zero
\* and the loop, which ends at zero, reads on behind the buffer until the
\* process dies or it meets a "-" that is neither cached nor stepped over.
CommentShort ==
    /\ Count < 4
    /\ \/ Withhold(IeOpen) /\ UNCHANGED <<stack, overrun>>
       \/ /\ rest' = <<>> /\ UNCHANGED <<dst, cache>>
          /\ Replace("comment_skip") /\ overrun' = TRUE

StripComment ==
    /\ Iterate("comment")
    /\ CommentShort \/ (CommentHead /\ UNCHANGED overrun)
    /\ UNCHANGED <<nochange, names>>
    /\ UpdatePre

\* A "]" near the end of a buffer that begins no "]-->" is stepped over.
StripCommentIe ==
    /\ Iterate("comment_ie")
    /\ \/ Matches(IeClose) /\ Copy(4) /\ SetState("text")
       \/ Cur = "]" /\ Differs(IeClose) /\ Copy(4) /\ UNCHANGED stack
       \/ ~Has(IeClose) /\ Withhold(IeClose) /\ UNCHANGED stack
       \/ Cur = "]" /\ ~Has(IeClose) /\ ~Begins(IeClose) /\ Skip(1) /\ UNCHANGED stack
       \/ Cur # "]" /\ Copy(1) /\ UNCHANGED stack
    /\ UNCHANGED <<nochange, names>>
    /\ UpdatePre

StripCommentSkip ==
    /\ Iterate("comment_skip")
    /\ \/ Matches(CommentClose) /\ Skip(3) /\ SetState("text")
       \/ Cur = "-" /\ Differs(CommentClose) /\ Skip(3) /\ UNCHANGED stack
       \/ ~Has(CommentClose) /\ Withhold(CommentClose) /\ UNCHANGED stack
       \/ Cur = "-" /\ ~Has(CommentClose) /\ ~Begins(CommentClose) /\ Skip(1) /\ UNCHANGED stack
       \/ Cur # "-" /\ Skip(1) /\ UNCHANGED stack
    /\ UNCHANGED <<nochange, names>>
    /\ UpdatePre

------------------------------------------------------------------------------
\* Nothing tells the state that what it waits to be continued is lost.
ReceiveBuffer ==
    /\ \/ /\ ReceiveSpecial
          /\ headless' = (headless \/ (cache # <<>> /\ CtxState \in Undecided))
       \/ (\E chunk \in Chunk : Receive(chunk)) /\ UNCHANGED headless
    /\ UNCHANGED <<names, overrun>>

DeliverBuffer == ~overrun /\ Deliver /\ UNCHANGED <<names, overrun, headless>>

StripBuffer ==
    /\ \/ /\ \/ StripText \/ StripSkip \/ StripAbort
             \/ StripTag \/ StripTagBang \/ StripCdata
             \/ StripTagname \/ StripTagatt \/ StripTagnameEnd
             \/ StripCommentIe \/ StripCommentSkip
          /\ UNCHANGED overrun
       \/ StripComment
    /\ headless' = (headless /\ stack' = stack)

Next == ReceiveBuffer \/ StripBuffer \/ DeliverBuffer

\* The loop runs to its end inside one call of the filter, so the process
\* never abandons a buffer; nothing promises that more buffers arrive.
Fairness == WF_vars(StripBuffer \/ DeliverBuffer)

Spec == Init /\ [][Next]_vars /\ Fairness
------------------------------------------------------------------------------
(* Properties                                                              *)

\* The eight entries of the stack are never overrun nor emptied: a tag or
\* markup stands on the text, its parts on it, and every region ends by
\* clearing the stack.
StackShape ==
    \/ stack \in {<<"text">>, <<"abort">>, <<"skip">>}
    \/ stack \in {<<"text", s>> : s \in {"tag", "tag_bang", "cdata"}}
    \/ stack \in {<<"text", "tag", s>> : s \in InTag}
    \/ stack \in {<<"text", "tag_bang", s>> : s \in InComment}

\* What the state a buffer resumes in may find in front of it: a part of the
\* token that state looks for, never all of it.
Awaited ==
    CASE CtxState = "tag_bang"     -> {CommentOpen, CdataOpen}
      [] CtxState = "comment"      -> {IeOpen}
      [] CtxState = "comment_ie"   -> {IeClose}
      [] CtxState = "comment_skip" -> {CommentClose}
      [] CtxState = "cdata"        -> {CdataClose}
      [] CtxState = "tagatt"       -> {<<"/", ">">>}
      [] CtxState = "skip"         -> {<<"<", "/">>}
      [] OTHER                     -> {<<"<", "!", "-">>}

WithheldToken ==
    cache # <<>> =>
        /\ rest = <<>>
        /\ CtxState \notin {"abort", "tag", "tagname", "tagname_end"}
        /\ \E token \in Awaited :
              /\ Len(cache) < Len(token)
              /\ \A i \in 1..Len(cache) : Lower[cache[i]] = Lower[token[i]]

\* "here ctx->count must >2 and *ctx->rpos == '<'", "here ctx->count >=4":
\* markup that is not yet decided is read at its "<", with enough bytes of
\* it in the buffer, also after any number of cuts, as long as no buffer that
\* is not in memory came while its head was withheld.
LookAhead ==
    busy /\ rest # <<>> /\ ~headless =>
        /\ CtxState = "tag_bang" => Count > 2 /\ Matches(<<"<", "!">>)
        /\ CtxState = "comment" => Matches(CommentOpen)

\* The same as the code takes it for granted, of every buffer.
ReadAtItsHead ==
    busy /\ rest # <<>> =>
        /\ CtxState = "tag_bang" => Count > 2 /\ Matches(<<"<", "!">>)
        /\ CtxState = "comment" => Count >= 4 /\ Cur = "<"

\* What is skipped is the inside of a tag of html_skip_tag, and its name is
\* there for the end tag to be compared with.
SkipNamed == CtxState = "skip" => IsSkipTag(tagName) /\ endName = <<>>

\* No blank is written behind a blank of the same buffer, in the text and
\* among the attributes of a tag, whatever stands between the two reads.
BlanksCollapse ==
    [][/\ busy /\ rest # <<>> /\ CtxState \in {"text", "tagatt"} /\ Cur = " "
       /\ dst # <<>> /\ dst[Len(dst)] = " "
       => dst' = dst]_vars

\* Four bytes that are not "<!--" where the comment's head should be.
Spins == rest # <<>> /\ CtxState = "comment" /\ Count = 4 /\ ~Begins(CommentOpen)

\* In every state and for every byte, the last of a buffer included, the loops
\* consume something until the buffer is used up and goes on.  They fail to
\* where the code has no way out, and nowhere else: at the bytes of Spins, and
\* behind the buffer's end (overrun), both only behind a comment's lost head.
BufferDelivered ==
    busy ~> (~busy \/ (headless /\ Spins) \/ overrun)

\* "<!-- -->": no byte of the "-->" that ends a comment is stepped over with
\* what stands before it.
CommentCloses ==
    [][/\ busy /\ CtxState = "comment_skip" /\ ~Matches(CommentClose)
       => \A i \in 1..(Count - 2) :
             SubSeq(rest, i, i + 2) = CommentClose => Len(rest') > Count - i]_vars

Region ==
    CASE CtxState = "tag_bang" /\ headless       -> "bang"
      [] CtxState = "comment" /\ headless        -> "dashes"
      [] CtxState \in Undecided /\ ~headless     -> "text"
      [] CtxState = "text"                       -> "text"
      [] CtxState \in {"tag"} \cup InTag         -> "tag"
      [] CtxState = "comment_skip"               -> "comment"
      [] CtxState = "comment_ie"                 -> "ie"
      [] CtxState \in {"abort", "skip", "cdata"} -> "kept"

\* The withheld bytes and the bytes rpos has not reached are the contract's
\* pending stream; markup not yet decided is still text, unless its head is
\* lost.
Contract == INSTANCE HtmlContract WITH
    pending <- cache \o rest, out <- dst, nest <- <<Region>>, opening <- NUL,
    flushed <- ~inMemory

\* However the response is cut into buffers, in memory or not, bytes are lost
\* only where and as HtmlContract says, none is doubled, reordered or invented.
ImplementsContract == Contract!HSpec

==============================================================================
