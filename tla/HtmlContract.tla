----------------------------- MODULE HtmlContract -----------------------------
(***************************************************************************)
(* What the html minifier promises of a response, said of one stream: only *)
(* comments, line breaks, tabs and blanks of the text, and blanks of tags  *)
(* are lost, a region kept as it is stays byte for byte, and a region ends *)
(* at its own closing token.  Inside is the region the stream is in:       *)
(*   text, tag, comment (dropped), ie (a comment kept for a browser),      *)
(*   kept (a CDATA section, the inside of pre, script or style, and all    *)
(*   that follows markup the minifier gives up on),                        *)
(*   bang, dashes (what follows a "<!" or "<!--" that a mark has lost).    *)
(* Two losses the code has, the contract has as well: a "]" of an ie       *)
(* comment that ends a buffer and closes nothing, and a begun token that   *)
(* a mark meets.  Behind a lost "<!" or "<!--" the bytes that follow are   *)
(* taken for the lost ones.                                                *)
(***************************************************************************)
EXTENDS StreamContract

CONSTANT Lower      \* tolower

Shows(token) == Sees(Len(token)) /\ SubSeq(pending, 1, Len(token)) = token

\* The stream ends inside the token, in either case.
Begun(token) ==
    /\ pending # <<>> /\ Len(pending) < Len(token)
    /\ \A i \in 1..Len(pending) : Lower[pending[i]] = Lower[token[i]]

Omit(n) ==
    /\ Sees(n) /\ pending' = SubSeq(pending, n + 1, Len(pending))
    /\ out' = out
Keep(n) ==
    /\ Sees(n) /\ pending' = SubSeq(pending, n + 1, Len(pending))
    /\ out' = out \o SubSeq(pending, 1, n)

Stay == UNCHANGED nest
To(region) == nest' = <<region>>
Look == UNCHANGED <<pending, out>>

Breaks == {"\n", "\r", "\t"}
CommentOpen == <<"<", "!", "-", "-">>
IeOpen == <<"<", "!", "-", "-", "[", "i", "f">>
CdataOpen == <<"<", "!", "[", "C", "D", "A", "T", "A", "[">>
CommentClose == <<"-", "-", ">">>
IeClose == <<"]", "-", "-", ">">>
CdataClose == <<"]", "]", ">">>

\* The bytes of the text, and what a "<" in it begins.
HText ==
    /\ Inside = "text" /\ Sees(1)
    /\ \/ pending[1] \in Breaks \cup {" "} /\ Omit(1) /\ Stay
       \/ pending[1] \notin Breaks \cup {"<"} /\ Keep(1) /\ Stay
       \/ Shows(<<"<">>) /\ ~Shows(<<"<", "!">>) /\ Sees(2) /\ Keep(1) /\ To("tag")

\* "<!" and what stands in its place: a declaration, a CDATA section, or bytes
\* that are given up on because the stream ends in nothing they may become.
HMarkup ==
    /\ (Inside = "text" /\ Shows(<<"<", "!">>)) \/ Inside = "bang"
    /\ Sees(3)
    /\ \/ pending[3] \notin {"-", "["} /\ Keep(2) /\ To("tag")
       \/ Sees(4) /\ pending[3] = "-" /\ ~Shows(CommentOpen) /\ Keep(3) /\ To("tag")
       \/ Shows(CdataOpen) /\ Keep(9) /\ To("kept")
       \/ pending[3] = "[" /\ ~Shows(CdataOpen) /\ Keep(9) /\ To("text")
       \/ /\ \/ pending[3] = "-" /\ ~Sees(4) /\ ~Begun(CommentOpen)
             \/ pending[3] = "[" /\ ~Sees(9) /\ ~Begun(CdataOpen)
          /\ Look /\ To("kept")

\* "<!--" and what stands in its place, once the stream shows more of it.
HDashes ==
    /\ (Inside = "text" /\ Shows(CommentOpen)) \/ Inside = "dashes"
    /\ Sees(5)
    /\ \/ /\ pending[5] # "[" \/ ~(Shows(IeOpen) \/ Begun(IeOpen))
          /\ Omit(4) /\ To("comment")
       \/ Shows(IeOpen) /\ Look /\ To("ie")

\* Behind a lost head: "<!--" is markup of the text again, and fewer bytes than
\* were lost are copied, one of them, or dropped, all of them.
HHeadless ==
    \/ Inside = "bang" /\ Shows(CommentOpen) /\ Look /\ To("text")
    \/ Inside = "bang" /\ ~Sees(3) /\ Keep(1) /\ To("text")
    \/ Inside = "dashes" /\ Sees(1) /\ ~Sees(4) /\ Omit(Len(pending)) /\ To("comment")

HTag ==
    /\ Inside = "tag" /\ Sees(1)
    /\ \/ pending[1] = " " /\ Omit(1) /\ Stay
       \/ pending[1] # ">" /\ Keep(1) /\ Stay
       \/ pending[1] = "/" /\ ~Shows(<<"/", ">">>) /\ Keep(2) /\ Stay
       \/ pending[1] = ">" /\ Keep(1) /\ (To("text") \/ To("kept"))

HKept ==
    /\ Inside = "kept" /\ Sees(1)
    /\ \/ Keep(1) /\ Stay
       \/ pending[1] = "<" /\ Keep(2) /\ Stay
       \/ pending[1] = "]" /\ Keep(3) /\ Stay
       \/ Shows(CdataClose) /\ Keep(3) /\ To("text")
       \/ Shows(<<"<", "/">>) /\ Look /\ To("text")

HComment ==
    /\ Inside = "comment" /\ Sees(1)
    /\ \/ pending[1] # "-" /\ Omit(1) /\ Stay
       \/ /\ pending[1] = "-" /\ ~Shows(CommentClose) /\ ~Begun(CommentClose)
          /\ (Omit(1) \/ Omit(3)) /\ Stay
       \/ Shows(CommentClose) /\ Omit(3) /\ To("text")

HIe ==
    /\ Inside = "ie" /\ Sees(1)
    /\ \/ pending[1] # "]" /\ Keep(1) /\ Stay
       \/ /\ pending[1] = "]" /\ ~Shows(IeClose) /\ ~Begun(IeClose)
          /\ (Omit(1) \/ Keep(4)) /\ Stay
       \/ Shows(IeClose) /\ Keep(4) /\ To("text")

\* What a mark may take with it: a token that the region may hold or end with.
HLose ==
    /\ LosePending
    /\ \/ Inside = "text" /\ Begun(<<"<", "!", "-">>) /\ Stay
       \/ /\ Inside \in {"text", "bang"} /\ Sees(3)
          /\ Begun(CommentOpen) \/ Begun(CdataOpen)
          /\ To("bang")
       \/ Inside = "text" /\ Sees(4) /\ Begun(IeOpen) /\ To("dashes")
       \/ Inside = "dashes" /\ Begun(IeOpen) /\ Stay
       \/ Inside = "tag" /\ Begun(<<"/", ">">>) /\ Stay
       \/ Inside = "kept" /\ (Begun(<<"<", "/">>) \/ Begun(CdataClose)) /\ Stay
       \/ Inside = "comment" /\ Begun(CommentClose) /\ Stay
       \/ Inside = "ie" /\ Begun(IeClose) /\ Stay

Rewrite ==
    \/ HText \/ HMarkup \/ HDashes \/ HHeadless
    \/ HTag \/ HKept \/ HComment \/ HIe

HNext ==
    \/ Arrive \/ Flush \/ HLose
    \/ (Send \/ (Rewrite /\ UNCHANGED opening)) /\ UNCHANGED flushed

HSpec == CInit /\ [][HNext]_cvars
==============================================================================
