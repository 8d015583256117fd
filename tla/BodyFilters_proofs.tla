-------------------------- MODULE BodyFilters_proofs --------------------------
(***************************************************************************)
(* Proofs about the body filters: StripFilter, byte by byte, for every set *)
(* of bytes and every page; MinifyFilter, buffer by buffer, for every      *)
(* configuration, response, bound on the bytes and on the links of a       *)
(* chain, whatever the minifiers keep and withhold; and CapCache, for any  *)
(* number of requests and of attempts.                                     *)
(*                                                                         *)
(* What a page has of StripFilter stands in StripInv and RegionInv.  For   *)
(* MinifyFilter FilterInv says where every byte of a body is: what is      *)
(* sent, passed, withheld and still in the chain is in order, but for the  *)
(* bytes overtaken, and with what is dropped or lost it is all that was    *)
(* received.  For CapCache CaptureInv relates where a request is to the    *)
(* files it has made.                                                      *)
(***************************************************************************)
EXTENDS StripFilter, MinifyFilter, CapCache, SequenceLemmas

-------------------------------------------------------------------------------
\* StripFilter

\* SeparatorKept alone is not inductive: that a blank behind a blank may be
\* dropped needs that text_whitespace means a ' ' was read and written, and
\* that text means none was since the last other byte.
StripInv ==
    /\ state = "text" => gap # "space" /\ written # " "
    /\ state = "text_whitespace" => gap = "space" /\ written = " "
    /\ state = "tag_whitespace" => written = " "

\* What the history of a run of white space becomes.
LEMMA GapFacts ==
    ASSUME NEW b, Watch(b)
    PROVE  /\ ~InText => gap' = "none"
           /\ b \notin Breaks \cup {" "} => gap' = "none"
           /\ InText /\ b = " " => gap' = "space"
           /\ InText /\ b \in Breaks => gap' = IF gap = "none" THEN "break" ELSE gap
BY DEF Watch, WatchGap, Breaks

\* A byte of the text.
LEMMA TextKeepsStripInv ==
    ASSUME StripInv, NEW b, ReadText(b) \/ ReadTextWhitespace(b), Watch(b)
    PROVE  StripInv'
<1>1. InText
  BY DEF ReadText, ReadTextWhitespace, InText, TextState
<1>2. CASE b \in Breaks
  <2>1. gap' = IF gap = "none" THEN "break" ELSE gap
    BY <1>1, <1>2, GapFacts
  <2>2. written' = written /\ state' = state
    BY <1>2 DEF ReadText, ReadTextWhitespace, Drop, Stay, Breaks
  <2>3. state \in TextState
    BY <1>1 DEF InText
  <2> QED BY <2>1, <2>2, <2>3 DEF StripInv, TextState
<1>3. CASE b = " "
  <2>1. gap' = "space"
    BY <1>1, <1>3, GapFacts
  <2>2. CASE ReadText(b)
    BY <1>3, <2>1, <2>2 DEF ReadText, Keep, To, Breaks, StripInv
  <2>3. CASE ReadTextWhitespace(b)
    BY <1>3, <2>1, <2>3 DEF ReadTextWhitespace, Drop, Stay, Breaks, StripInv
  <2> QED BY <2>2, <2>3
<1>4. CASE b \notin Breaks \cup {" "}
  <2>1. gap' = "none"
    BY <1>4, GapFacts
  <2>2. written' = b /\ state' \in {"tag", "text"}
    BY <1>4 DEF ReadText, ReadTextWhitespace, Keep, To, Stay
  <2> QED BY <1>4, <2>1, <2>2 DEF StripInv
<1> QED BY <1>2, <1>3, <1>4

\* Markup leaves for the text with a ">", and for the blanks of a tag with one.
Leaves ==
    /\ ~InText
    /\ state' \in TextState => state' = "text" /\ written' = ">"
    /\ state' = "tag_whitespace" => written' = " "

\* A byte of a tag.
LEMMA TagLeaves ==
    ASSUME StripInv, NEW b,
           ReadTag(b) \/ ReadTagName(b) \/ ReadAttribute(b) \/ ReadEndTag(b)
    PROVE  Leaves
<1>1. CASE ReadTag(b)
  BY <1>1 DEF ReadTag, Leaves, InText, TextState, To, Stay
<1>2. CASE ReadTagName(b)
  BY <1>2 DEF ReadTagName, NameState, Leaves, InText, TextState, To, Keep
<1>3. CASE ReadAttribute(b)
  <2>1. ~InText
    BY <1>3 DEF ReadAttribute, InText, TextState
  <2>2. state' \in TextState => state' = "text" /\ written' = ">"
    BY <1>3 DEF ReadAttribute, TextState, To, Stay, Keep
  <2>3. ASSUME state' = "tag_whitespace" PROVE written' = " "
    <3>1. CASE state = "tag_whitespace"
      BY <1>3, <2>3, <3>1 DEF ReadAttribute, To, Stay, Keep, Drop, StripInv
    <3>2. CASE state # "tag_whitespace"
      BY <1>3, <2>3, <3>2 DEF ReadAttribute, To, Stay, Keep
    <3> QED BY <3>1, <3>2
  <2> QED BY <2>1, <2>2, <2>3 DEF Leaves
<1>4. CASE ReadEndTag(b)
  BY <1>4 DEF ReadEndTag, Leaves, InText, TextState, To, Stay, Keep
<1> QED BY <1>1, <1>2, <1>3, <1>4

\* A byte of a preformatted text.
LEMMA PreLeaves == ASSUME NEW b, ReadPre(b) PROVE Leaves
<1>1. state \in PreState /\ written' = b
  BY DEF ReadPre, Keep
<1>2. CASE state = "pre_angle_slash_pre"
  BY <1>1, <1>2 DEF ReadPre, To, EndOfPre, FurtherInPre, Leaves, InText, TextState
<1>3. CASE state # "pre_angle_slash_pre"
  <2>1. /\ FurtherInPre["pre"] = "pre_angle"
        /\ FurtherInPre["pre_angle"] = "pre_angle_slash"
        /\ FurtherInPre["pre_angle_slash"] = "pre_angle_slash_p"
        /\ FurtherInPre["pre_angle_slash_p"] = "pre_angle_slash_pr"
        /\ FurtherInPre["pre_angle_slash_pr"] = "pre_angle_slash_pre"
    BY DEF FurtherInPre
  <2>2. FurtherInPre[state] \in PreState
    BY <1>1, <1>3, <2>1 DEF PreState
  <2>3. state' \in PreState
    BY <2>2 DEF ReadPre, To, PreState
  <2> QED BY <1>1, <2>3 DEF PreState, Leaves, InText, TextState
<1> QED BY <1>2, <1>3

\* A byte of a declaration, of a comment, or behind markup that was given up.
LEMMA BangLeaves ==
    ASSUME NEW b, ReadBang(b) \/ ReadComment(b) \/ ReadAbort(b) PROVE Leaves
BY DEF ReadBang, ReadComment, ReadAbort, BangState, CommentState, Leaves, InText, TextState,
       To, Stay, Keep

\* Every byte read keeps the invariant.
LEMMA StripNextInv ==
    ASSUME StripInv, [StripNext]_stripVars
    PROVE  StripInv'
<1>1. CASE UNCHANGED stripVars
  BY <1>1 DEF stripVars, watched, StripInv
<1>2. ASSUME NEW b \in Byte, Read(b), Watch(b) PROVE StripInv'
  <2>1. CASE ReadText(b) \/ ReadTextWhitespace(b)
    BY <1>2, <2>1, TextKeepsStripInv
  <2>2. CASE ~(ReadText(b) \/ ReadTextWhitespace(b))
    <3>1. Leaves
      BY <1>2, <2>2, TagLeaves, PreLeaves, BangLeaves DEF Read
    <3>2. gap' = "none"
      BY <1>2, <3>1, GapFacts DEF Leaves
    <3> QED BY <3>1, <3>2 DEF Leaves, StripInv, TextState
  <2> QED BY <2>1, <2>2
<1> QED BY <1>1, <1>2 DEF StripNext

\* It holds on every page.
THEOREM StripInvariance == StripSpec => []StripInv
<1>1. StripInit => StripInv
  BY DEF StripInit, StripInv
<1>2. StripInv /\ [StripNext]_stripVars => StripInv'
  BY StripNextInv
<1> QED BY <1>1, <1>2, PTL DEF StripSpec

\* A run of white space with a ' ' leaves a ' ', on every page.
THEOREM SeparatorIsKept == StripSpec => []SeparatorKept
<1>1. StripInv => SeparatorKept
  BY DEF StripInv, SeparatorKept, InText, TextState
<1> QED BY <1>1, StripInvariance, PTL

\* And it leaves one, whatever buffers it is spread over.
THEOREM BlanksAreCollapsed == StripSpec => BlanksCollapse
<1>1. ASSUME StripInv, [StripNext]_stripVars, InText, gap = "space", gap' = "space"
      PROVE  skipped' \/ UNCHANGED stripVars
  <2>1. state = "text_whitespace"
    BY <1>1 DEF StripInv, InText, TextState
  <2>2. ASSUME NEW b \in Byte, Read(b), Watch(b) PROVE skipped'
    <3>1. b \in Breaks \cup {" "}
      BY <1>1, <2>2, GapFacts
    <3>2. ReadTextWhitespace(b)
      BY <2>1, <2>2
         DEF Read, ReadText, ReadTag, ReadTagName, ReadAttribute, ReadEndTag, ReadPre,
             ReadBang, ReadComment, ReadAbort, NameState, PreState, BangState, CommentState
    <3> QED BY <3>1, <3>2 DEF ReadTextWhitespace, Drop, Breaks
  <2> QED BY <1>1, <2>2 DEF StripNext
<1>2. StripInv /\ [StripNext]_stripVars => [InText /\ gap = "space" /\ gap' = "space" => skipped']_stripVars
  BY <1>1
<1> QED BY <1>2, StripInvariance, PTL DEF StripSpec, BlanksCollapse

------------------------------------------------------------------------------
(* What is preserved.  The history follows the page's tokens, the          *)
(* automaton its own states: that they agree is what has to be shown.      *)

\* s is the first n bytes of t.
Begins(s, t, n) == Len(s) = n /\ \A i \in 1..n : s[i] = t[i]

PreTag == <<"<", "p", "r", "e", ">">>
PreTagBlank == <<"<", "p", "r", "e", " ">>
CommentTag == <<"<", "!", "-", "-">>
PreEnd == <<"<", "/", "p", "r", "e", ">">>
CommentEnd == <<"-", "-", ">">>
TagByte == {" ", "!", "/", "<", ">", "-", "p", "r", "e"}

\* Where nothing is preserved, the automaton knows how much of an opening token
\* has been read, if any.
OpenInv ==
    \/ begun = <<>>
    \/ state = "tag" /\ Begins(begun, PreTag, 1)
    \/ state = "tag_name_p" /\ Begins(begun, PreTag, 2)
    \/ state = "tag_name_pr" /\ Begins(begun, PreTag, 3)
    \/ state = "tag_name_pre" /\ Begins(begun, PreTag, 4)
    \/ state = "bang" /\ Begins(begun, CommentTag, 2)
    \/ state = "bang_dash" /\ Begins(begun, CommentTag, 3)

\* In a region the automaton is in its states, and how far it is in the closing
\* token is how much of it ends the bytes read.  It may have lost count in the
\* states that wait for the first byte: these say nothing of begun.
PreInv ==
    \/ state = "pre"
    \/ state = "pre_angle" /\ Begins(begun, PreEnd, 1)
    \/ state = "pre_angle_slash" /\ Begins(begun, PreEnd, 2)
    \/ state = "pre_angle_slash_p" /\ Begins(begun, PreEnd, 3)
    \/ state = "pre_angle_slash_pr" /\ Begins(begun, PreEnd, 4)
    \/ state = "pre_angle_slash_pre" /\ Begins(begun, PreEnd, 5)

CommentInv ==
    \/ state = "comment"
    \/ state = "comment_dash" /\ (Begins(begun, CommentEnd, 1) \/ Begins(begun, CommentEnd, 2))
    \/ state = "comment_dash_dash" /\ Begins(begun, CommentEnd, 2)

\* PreservedKept is not inductive: that a region is open or not follows from
\* the tokens, whether a byte is dropped from the state.
RegionInv ==
    /\ begun \in Seq(Byte)
    /\ region \in {"open", "pre", "comment"}
    /\ region = "open" => OpenInv
    /\ region = "pre" => PreInv
    /\ region = "comment" => CommentInv

\* The regions and their tokens.
LEMMA Regions ==
    /\ DOMAIN Opening = {"pre", "comment"}
    /\ Opening["pre"] = {PreTag, PreTagBlank} /\ Opening["comment"] = {CommentTag}
    /\ Closing["pre"] = PreEnd /\ Closing["comment"] = CommentEnd
BY DEF Opening, Closing, PreTag, PreTagBlank, CommentTag, PreEnd, CommentEnd

\* The tokens are sequences of bytes the automaton asks for.
LEMMA Tokens ==
    /\ PreTag \in Seq(TagByte) /\ Len(PreTag) = 5
    /\ PreTagBlank \in Seq(TagByte) /\ Len(PreTagBlank) = 5
    /\ CommentTag \in Seq(TagByte) /\ Len(CommentTag) = 4
    /\ PreEnd \in Seq(TagByte) /\ Len(PreEnd) = 6
    /\ CommentEnd \in Seq(TagByte) /\ Len(CommentEnd) = 3
BY DEF PreTag, PreTagBlank, CommentTag, PreEnd, CommentEnd, TagByte

\* The largest of some numbers up to m.
LEMMA Largest ==
    ASSUME NEW m \in Nat, NEW T, T \subseteq 0..m, T # {}
    PROVE  Max(T) \in T /\ \A y \in T : y <= Max(T)
<1>1. PICK x \in T : \A y \in T : y <= x
    BY GreatestNumber
<1> DEFINE P(z) == z \in T /\ \A y \in T : z >= y
<1>2. \E z : P(z)
    <2>1. \A y \in T : x >= y
        <3>1. x \in Int /\ \A y \in T : y \in Int
            OBVIOUS
        <3> QED BY <1>1, <3>1
    <2> QED BY <2>1
<1>3. P(CHOOSE z : P(z))
    <2> HIDE DEF P
    <2> QED BY <1>2, Zenon
<1>4. Max(T) = CHOOSE z : P(z)
    BY DEF Max
<1> QED BY <1>3, <1>4

\* The first bytes of a token.
LEMMA PrefixOf ==
    ASSUME NEW t \in Seq(TagByte), NEW k \in 1..Len(t)
    PROVE  Begins(SubSeq(t, 1, k), t, k)
<1>1. \A i \in 1..k : t[i] \in TagByte
    OBVIOUS
<1>2. k \in Int /\ 1 <= k
    OBVIOUS
<1>3. /\ Len(SubSeq(t, 1, k)) = k - 1 + 1
      /\ \A i \in 1..(k - 1 + 1) : SubSeq(t, 1, k)[i] = t[1 + i - 1]
    BY <1>1, <1>2, SubSeqProperties
<1> QED BY <1>2, <1>3 DEF Begins

\* What is left of the bytes read when a closing token is looked for: the
\* longest end of them that begins it.
LEMMA MatchFacts ==
    ASSUME NEW t \in Seq(TagByte), NEW s \in Seq(Byte)
    PROVE  \E m \in 0..Len(s) :
            /\ m <= Len(t) /\ Match(t, s) \in Seq(Byte) /\ Begins(Match(t, s), t, m)
            /\ m > 0 => t[m] = s[Len(s)]
            /\ \A k \in 0..Len(s) :
                k <= Len(t) /\ (\A i \in 1..k : s[Len(s) - k + i] = t[i]) => k <= m
<1> DEFINE len == Len(s)
           fits == {k \in 0..len : k <= Len(t)
                        /\ SubSeq(s, len - k + 1, len) = SubSeq(t, 1, k)}
           m == Max(fits)
<1>1. len \in Nat /\ Len(t) \in Nat
    OBVIOUS
<1>2. ASSUME NEW k \in 0..len
      PROVE  /\ SubSeq(s, len - k + 1, len) \in Seq(Byte)
             /\ Len(SubSeq(s, len - k + 1, len)) = k
             /\ \A i \in 1..k : SubSeq(s, len - k + 1, len)[i] = s[len - k + i]
    <2>1. len - k + 1 \in Int /\ len \in Int /\ len - k + 1 > 0 /\ k \in Nat
        BY <1>1
    <2>2. \A i \in (len - k + 1)..len : s[i] \in Byte
        BY <2>1
    <2>3. /\ SubSeq(s, len - k + 1, len) \in Seq(Byte)
          /\ Len(SubSeq(s, len - k + 1, len))
                = IF len - k + 1 <= len THEN len - (len - k + 1) + 1 ELSE 0
          /\ \A i \in 1..(len - (len - k + 1) + 1) :
                SubSeq(s, len - k + 1, len)[i] = s[(len - k + 1) + i - 1]
        BY <2>1, <2>2, SubSeqProperties
    <2>4. /\ len - (len - k + 1) + 1 = k
          /\ (IF len - k + 1 <= len THEN len - (len - k + 1) + 1 ELSE 0) = k
          /\ \A i \in 1..k : (len - k + 1) + i - 1 = len - k + i
        BY <2>1
    <2> HIDE DEF len
    <2> QED BY <2>3, <2>4
<1>3. ASSUME NEW k \in 0..len, k <= Len(t)
      PROVE  /\ SubSeq(t, 1, k) \in Seq(TagByte) /\ Len(SubSeq(t, 1, k)) = k
             /\ \A i \in 1..k : SubSeq(t, 1, k)[i] = t[i]
    <2>1. \A i \in 1..k : t[i] \in TagByte
        BY <1>1, <1>3
    <2>2. k \in Int
        BY <1>1
    <2>3. /\ SubSeq(t, 1, k) \in Seq(TagByte)
          /\ Len(SubSeq(t, 1, k)) = IF 1 <= k THEN k - 1 + 1 ELSE 0
          /\ \A i \in 1..(k - 1 + 1) : SubSeq(t, 1, k)[i] = t[1 + i - 1]
        BY <2>1, <2>2, SubSeqProperties
    <2> QED BY <1>1, <2>3
<1>4. ASSUME NEW k \in 0..len
      PROVE  k \in fits <=> k <= Len(t) /\ \A i \in 1..k : s[len - k + i] = t[i]
    <2>1. ASSUME k <= Len(t), \A i \in 1..k : s[len - k + i] = t[i]
          PROVE  SubSeq(s, len - k + 1, len) = SubSeq(t, 1, k)
        <3> DEFINE a == SubSeq(s, len - k + 1, len)
                   b == SubSeq(t, 1, k)
        <3>1. /\ a \in Seq(Byte \cup TagByte) /\ b \in Seq(Byte \cup TagByte) /\ Len(a) = Len(b)
              /\ \A i \in 1..Len(a) : a[i] = b[i]
            <4>1. /\ a \in Seq(Byte) /\ Len(a) = k /\ \A i \in 1..k : a[i] = s[len - k + i]
                  /\ b \in Seq(TagByte) /\ Len(b) = k /\ \A i \in 1..k : b[i] = t[i]
                BY <1>2, <1>3, <2>1
            <4> HIDE DEF a, b, len
            <4> QED BY <2>1, <4>1
        <3> HIDE DEF a, b
        <3>2. a = b
            BY <3>1, SeqEqual
        <3> QED BY <3>2 DEF a, b
    <2>2. ASSUME k <= Len(t), SubSeq(s, len - k + 1, len) = SubSeq(t, 1, k), NEW i \in 1..k
          PROVE  s[len - k + i] = t[i]
        <3>1. SubSeq(s, len - k + 1, len)[i] = s[len - k + i]
            BY <1>2
        <3>2. SubSeq(t, 1, k)[i] = t[i]
            BY <1>3, <2>2
        <3> QED BY <2>2, <3>1, <3>2
    <2> HIDE DEF len
    <2> QED BY <2>1, <2>2
<1>5. 0 \in fits
    <2>1. 0 \in 0..len /\ 0 <= Len(t) /\ \A i \in 1..0 : s[len - 0 + i] = t[i]
        BY <1>1
    <2> HIDE DEF fits, len
    <2> QED BY <1>4, <2>1
<1>6. m \in fits /\ \A k \in fits : k <= m
    <2>1. fits \subseteq 0..len /\ fits # {}
        BY <1>5
    <2> HIDE DEF fits
    <2> QED BY <1>1, <2>1, Largest
<1>7. Match(t, s) = SubSeq(s, len - m + 1, len)
    BY DEF Match
<1>8. m \in 0..len
    BY <1>6
<1> HIDE DEF fits, m, len
<1>9. m <= Len(t) /\ \A i \in 1..m : s[len - m + i] = t[i]
    BY <1>4, <1>6, <1>8
<1>10. Match(t, s) \in Seq(Byte) /\ Begins(Match(t, s), t, m)
    BY <1>2, <1>7, <1>8, <1>9 DEF Begins
<1>11. m > 0 => t[m] = s[len]
    <2>1. m > 0 => m \in 1..m /\ len - m + m = len
        BY <1>1, <1>8
    <2> QED BY <1>9, <2>1
<1>12. \A k \in 0..len : k <= Len(t) /\ (\A i \in 1..k : s[len - k + i] = t[i]) => k <= m
    BY <1>4, <1>6
<1> QED BY <1>8, <1>9, <1>10, <1>11, <1>12 DEF len

\* The bytes of the tokens.
LEMMA TokenBytes ==
    /\ PreTag[1] = "<" /\ PreTag[2] = "p" /\ PreTag[3] = "r" /\ PreTag[4] = "e" /\ PreTag[5] = ">"
    /\ PreTagBlank[1] = "<" /\ PreTagBlank[2] = "p" /\ PreTagBlank[3] = "r"
    /\ PreTagBlank[4] = "e" /\ PreTagBlank[5] = " "
    /\ CommentTag[1] = "<" /\ CommentTag[2] = "!" /\ CommentTag[3] = "-" /\ CommentTag[4] = "-"
    /\ PreEnd[1] = "<" /\ PreEnd[2] = "/" /\ PreEnd[3] = "p" /\ PreEnd[4] = "r"
    /\ PreEnd[5] = "e" /\ PreEnd[6] = ">"
    /\ CommentEnd[1] = "-" /\ CommentEnd[2] = "-" /\ CommentEnd[3] = ">"
BY DEF PreTag, PreTagBlank, CommentTag, PreEnd, CommentEnd

\* One byte more of a token.
LEMMA OneMore ==
    ASSUME NEW s \in Seq(Byte), NEW c \in Byte
    PROVE  /\ Append(s, c) \in Seq(Byte) /\ Len(Append(s, c)) = Len(s) + 1
           /\ Append(s, c)[Len(s) + 1] = c
           /\ \A i \in 1..Len(s) : Append(s, c)[i] = s[i]
BY AppendProperties

\* What becomes of a region that is open, by the bytes that may begin another.
LEMMA OutsideFacts ==
    ASSUME NEW read, WatchOutside(read)
    PROVE  /\ begun' \in {<<>>, read} /\ region' \in {"open", "pre", "comment"}
           /\ begun' # <<>> /\ region' = "open" =>
                \/ \E k \in 1..4 : Begins(read, PreTag, k)
                \/ \E k \in 1..3 : Begins(read, CommentTag, k)
           /\ region' = "pre" => Begins(read, PreTag, 5) \/ Begins(read, PreTagBlank, 5)
           /\ region' = "comment" => Begins(read, CommentTag, 4)
<1> DEFINE All == UNION {UNION {Starts(t) : t \in Opening[r]} : r \in DOMAIN Opening}
           P(r) == r \in {"pre", "comment"} /\ read \in Opening[r]
<1>1. begun' = IF read \in All THEN read ELSE <<>>
    BY DEF WatchOutside
<1>2. region' = IF \E r : P(r) THEN CHOOSE r : P(r) ELSE "open"
    BY Regions DEF WatchOutside
<1>3. IF \E r : P(r) THEN P(region') ELSE region' = "open"
    <2> HIDE DEF P
    <2> QED BY <1>2
<1>4. region' = "open" => read \notin {PreTag, PreTagBlank, CommentTag}
    BY <1>3, Regions
<1>5. ASSUME read \in All, region' = "open"
      PROVE  \/ \E k \in 1..4 : Begins(read, PreTag, k)
             \/ \E k \in 1..3 : Begins(read, CommentTag, k)
    <2>1. PICK r \in {"pre", "comment"} : \E t \in Opening[r] : read \in Starts(t)
        BY <1>5, Regions
    <2>2. PICK t \in Opening[r] : read \in Starts(t)
        BY <2>1
    <2>3. t \in {PreTag, PreTagBlank, CommentTag}
        BY <2>1, <2>2, Regions
    <2>4. PICK k \in 1..Len(t) : read = SubSeq(t, 1, k)
        BY <2>2 DEF Starts
    <2>5. t \in Seq(TagByte)
        BY <2>3, Tokens
    <2>6. Begins(read, t, k) /\ read \in Seq(TagByte)
        <3>1. \A i \in 1..k : t[i] \in TagByte
            BY <2>5
        <3> QED BY <2>4, <2>5, <3>1, PrefixOf, SubSeqProperties
    <2>7. k # Len(t)
        <3> SUFFICES ASSUME k = Len(t) PROVE FALSE
            OBVIOUS
        <3>1. Len(read) = Len(t) /\ \A i \in 1..Len(read) : read[i] = t[i]
            BY <2>6 DEF Begins
        <3>2. read = t
            BY <2>5, <2>6, <3>1, SeqEqual
        <3> QED BY <1>4, <1>5, <2>3, <3>2
    <2>8. CASE t = CommentTag
        <3>1. k \in 1..3
            <4>1. Len(t) = 4
                BY <2>8, Tokens
            <4> QED BY <2>7, <4>1
        <3> QED BY <2>6, <2>8, <3>1
    <2>9. CASE t \in {PreTag, PreTagBlank}
        <3>1. k \in 1..4
            <4>1. Len(t) = 5
                BY <2>9, Tokens
            <4> QED BY <2>7, <4>1
        <3>2. \A i \in 1..4 : t[i] = PreTag[i]
            <4>1. \A i \in 1..4 : i = 1 \/ i = 2 \/ i = 3 \/ i = 4
                OBVIOUS
            <4> QED BY <2>9, <4>1, TokenBytes
        <3>3. Begins(read, PreTag, k)
            <4>1. 1..k \subseteq 1..4
                BY <3>1
            <4> QED BY <2>6, <3>2, <4>1 DEF Begins
        <3> QED BY <3>1, <3>3
    <2> QED BY <2>3, <2>8, <2>9
<1>6. \A t \in {PreTag, PreTagBlank, CommentTag} : Begins(t, t, Len(t))
    BY Tokens DEF Begins
<1> HIDE DEF All
<1> QED BY <1>1, <1>3, <1>5, <1>6, Regions, Tokens

\* The byte that goes on with a token is the one the token has there.
LEMMA GoesOn ==
    ASSUME NEW s \in Seq(Byte), NEW c \in Byte, NEW t, NEW k \in Nat,
           Begins(Append(s, c), t, k)
    PROVE  k = Len(s) + 1 /\ c = t[k] /\ Begins(s, t, k - 1)
<1>1. k = Len(s) + 1 /\ Len(s) \in Nat
    BY OneMore DEF Begins
<1>2. k \in 1..k /\ k - 1 = Len(s) /\ 1..Len(s) \subseteq 1..k
    BY <1>1
<1>3. c = t[k]
    BY <1>1, <1>2, OneMore DEF Begins
<1>4. \A i \in 1..Len(s) : s[i] = t[i]
    BY <1>2, OneMore DEF Begins
<1> QED BY <1>1, <1>2, <1>3, <1>4 DEF Begins

\* Conversely.
LEMMA GoneOn ==
    ASSUME NEW s \in Seq(Byte), NEW c \in Byte, NEW t, NEW k \in Nat,
           Begins(s, t, k), c = t[k + 1]
    PROVE  Begins(Append(s, c), t, k + 1)
<1>1. Len(s) = k /\ \A i \in 1..k : s[i] = t[i]
    BY DEF Begins
<1>2. \A i \in 1..(k + 1) : i \in 1..k \/ i = k + 1
    OBVIOUS
<1> QED BY <1>1, <1>2, OneMore DEF Begins

\* What has been read begins a closing token as a whole.
LEMMA WholeMatches ==
    ASSUME NEW t \in Seq(TagByte), NEW s \in Seq(Byte), NEW k \in Nat, k <= Len(t), Begins(s, t, k)
    PROVE  Begins(Match(t, s), t, k) /\ (k = Len(t) => Match(t, s) = t)
<1>1. PICK m \in 0..Len(s) :
            /\ m <= Len(t) /\ Match(t, s) \in Seq(Byte) /\ Begins(Match(t, s), t, m)
            /\ \A j \in 0..Len(s) :
                j <= Len(t) /\ (\A i \in 1..j : s[Len(s) - j + i] = t[i]) => j <= m
    BY MatchFacts
<1>2. Len(s) = k /\ \A i \in 1..k : s[i] = t[i]
    BY DEF Begins
<1>3. k <= m
    <2>1. k \in 0..Len(s) /\ \A i \in 1..k : Len(s) - k + i = i
        BY <1>2
    <2>2. \A i \in 1..k : s[Len(s) - k + i] = t[i]
        BY <1>2, <2>1
    <2> QED BY <1>1, <2>1, <2>2
<1>4. m = k
    BY <1>2, <1>3
<1>5. k = Len(t) => Match(t, s) = t
    <2> SUFFICES ASSUME k = Len(t) PROVE Match(t, s) = t
        OBVIOUS
    <2> DEFINE a == Match(t, s)
    <2>1. a \in Seq(Byte \cup TagByte) /\ t \in Seq(Byte \cup TagByte) /\ Len(a) = Len(t)
          /\ \A i \in 1..Len(a) : a[i] = t[i]
        BY <1>1, <1>4 DEF Begins
    <2> HIDE DEF a
    <2>2. a = t
        BY <2>1, SeqEqual
    <2> QED BY <2>2 DEF a
<1> QED BY <1>1, <1>4, <1>5

\* The turns of the automaton in which a token goes on.
LEMMA Turns ==
    ASSUME NEW b, Read(b)
    PROVE  /\ InText /\ b = "<" => state' = "tag"
           /\ state = "tag" /\ b \in {"p", "P"} => state' = "tag_name_p"
           /\ state = "tag" /\ b = "!" => state' = "bang"
           /\ state = "tag_name_p" /\ b \in {"r", "R"} => state' = "tag_name_pr"
           /\ state = "tag_name_pr" /\ b \in {"e", "E"} => state' = "tag_name_pre"
           /\ state = "tag_name_pre" /\ b \in {" ", ">"} => state' = "pre"
           /\ state = "bang" /\ b = "-" => state' = "bang_dash"
           /\ state = "bang_dash" /\ b = "-" => state' = "comment"
           /\ state \in PreState => ReadPre(b)
           /\ state \in CommentState => ReadComment(b)
<1> USE DEF Read
<1>1. InText /\ b = "<" => state' = "tag"
    BY DEF ReadText, ReadTextWhitespace, ReadTag, ReadTagName, ReadAttribute, ReadEndTag,
           ReadPre, ReadBang, ReadComment, ReadAbort, NameState, PreState, BangState,
           CommentState, InText, TextState, To, Breaks
<1>2. state = "tag" => ReadTag(b)
    BY DEF ReadText, ReadTextWhitespace, ReadTagName, ReadAttribute, ReadEndTag,
           ReadPre, ReadBang, ReadComment, ReadAbort, NameState, PreState, BangState,
           CommentState
<1>3. state \in {"tag_name_p", "tag_name_pr", "tag_name_pre"} => ReadTagName(b)
    BY DEF ReadText, ReadTextWhitespace, ReadTag, ReadAttribute, ReadEndTag,
           ReadPre, ReadBang, ReadComment, ReadAbort, NameState, PreState, BangState,
           CommentState
<1>4. state \in {"bang", "bang_dash"} => ReadBang(b)
    BY DEF ReadText, ReadTextWhitespace, ReadTag, ReadTagName, ReadAttribute, ReadEndTag,
           ReadPre, ReadComment, ReadAbort, NameState, PreState, BangState, CommentState
<1>5. state \in PreState => ReadPre(b)
    BY DEF ReadText, ReadTextWhitespace, ReadTag, ReadTagName, ReadAttribute, ReadEndTag,
           ReadBang, ReadComment, ReadAbort, NameState, PreState, BangState, CommentState
<1>6. state \in CommentState => ReadComment(b)
    BY DEF ReadText, ReadTextWhitespace, ReadTag, ReadTagName, ReadAttribute, ReadEndTag,
           ReadPre, ReadBang, ReadAbort, NameState, PreState, BangState, CommentState
<1> USE ONLY TRUE
<1>7. /\ state = "tag" /\ b \in {"p", "P"} => state' = "tag_name_p"
      /\ state = "tag" /\ b = "!" => state' = "bang"
    BY <1>2, StripAssumption DEF ReadTag, To, Stay
<1>8. /\ state = "tag_name_p" /\ b \in {"r", "R"} => state' = "tag_name_pr"
      /\ state = "tag_name_pr" /\ b \in {"e", "E"} => state' = "tag_name_pre"
      /\ state = "tag_name_pre" /\ b \in {" ", ">"} => state' = "pre"
    BY <1>3 DEF ReadTagName, To
<1>9. /\ state = "bang" /\ b = "-" => state' = "bang_dash"
      /\ state = "bang_dash" /\ b = "-" => state' = "comment"
    BY <1>4 DEF ReadBang, To
<1> QED BY <1>1, <1>5, <1>6, <1>7, <1>8, <1>9

\* A byte behind the part of an opening token that has been read.
LEMMA TokenGoesOn ==
    ASSUME OpenInv, begun \in Seq(Byte), begun # <<>>, NEW b \in Byte, Read(b),
           NEW read, read = Append(begun, Lower[b])
    PROVE  /\ \A k \in 1..4 : Begins(read, PreTag, k) =>
                \/ k = 2 /\ state' = "tag_name_p"
                \/ k = 3 /\ state' = "tag_name_pr"
                \/ k = 4 /\ state' = "tag_name_pre"
           /\ \A k \in 1..3 : Begins(read, CommentTag, k) =>
                \/ k = 2 /\ state' = "bang"
                \/ k = 3 /\ state' = "bang_dash"
           /\ Begins(read, PreTag, 5) \/ Begins(read, PreTagBlank, 5) => state' = "pre"
           /\ Begins(read, CommentTag, 4) => state' = "comment"
<1> DEFINE c == Lower[b]
<1>1. c \in Byte
    BY StripAssumption
<1>2. \/ state = "tag" /\ Len(begun) = 1
      \/ state = "tag_name_p" /\ Len(begun) = 2 /\ begun[2] = "p"
      \/ state = "tag_name_pr" /\ Len(begun) = 3 /\ begun[2] = "p"
      \/ state = "tag_name_pre" /\ Len(begun) = 4 /\ begun[2] = "p"
      \/ state = "bang" /\ Len(begun) = 2 /\ begun[2] = "!"
      \/ state = "bang_dash" /\ Len(begun) = 3 /\ begun[2] = "!"
    <2>1. ASSUME NEW t, NEW k \in 2..4, Begins(begun, t, k)
          PROVE  Len(begun) = k /\ begun[2] = t[2]
        <3>1. 2 \in 1..k
            OBVIOUS
        <3> QED BY <2>1, <3>1 DEF Begins
    <2>2. ASSUME NEW t, Begins(begun, t, 1) PROVE Len(begun) = 1
        BY <2>2 DEF Begins
    <2>3. 2 \in 2..4 /\ 3 \in 2..4 /\ 4 \in 2..4
        OBVIOUS
    <2>4. state = "tag" /\ Begins(begun, PreTag, 1) => Len(begun) = 1
        BY <2>2
    <2>5. /\ Begins(begun, PreTag, 2) => Len(begun) = 2 /\ begun[2] = "p"
          /\ Begins(begun, PreTag, 3) => Len(begun) = 3 /\ begun[2] = "p"
          /\ Begins(begun, PreTag, 4) => Len(begun) = 4 /\ begun[2] = "p"
          /\ Begins(begun, CommentTag, 2) => Len(begun) = 2 /\ begun[2] = "!"
          /\ Begins(begun, CommentTag, 3) => Len(begun) = 3 /\ begun[2] = "!"
        BY <2>1, <2>3, TokenBytes
    <2> QED BY <2>4, <2>5 DEF OpenInv
<1>3. ASSUME NEW t, NEW k \in 1..5, Begins(read, t, k)
      PROVE  k = Len(begun) + 1 /\ c = t[k] /\ (k > 2 => begun[2] = t[2])
    <2>1. k \in Nat /\ Begins(Append(begun, c), t, k)
        BY <1>3
    <2>2. k = Len(begun) + 1 /\ c = t[k] /\ Begins(begun, t, k - 1)
        BY <1>1, <2>1, GoesOn
    <2>3. k > 2 => 2 \in 1..(k - 1)
        OBVIOUS
    <2> QED BY <2>2, <2>3 DEF Begins
<1>4. /\ c = "p" => b \in {"p", "P"}
      /\ c = "r" => b \in {"r", "R"}
      /\ c = "e" => b \in {"e", "E"}
      /\ c = "!" => b = "!"
      /\ c = "-" => b = "-"
      /\ c = ">" => b = ">"
      /\ c = " " => b = " "
    BY LowerAssumption
<1> HIDE DEF c
<1>5. /\ state = "tag" /\ c = "p" => state' = "tag_name_p"
      /\ state = "tag_name_p" /\ c = "r" => state' = "tag_name_pr"
      /\ state = "tag_name_pr" /\ c = "e" => state' = "tag_name_pre"
      /\ state = "tag_name_pre" /\ (c = " " \/ c = ">") => state' = "pre"
      /\ state = "tag" /\ c = "!" => state' = "bang"
      /\ state = "bang" /\ c = "-" => state' = "bang_dash"
      /\ state = "bang_dash" /\ c = "-" => state' = "comment"
    BY <1>4, Turns
<1>6. Len(begun) = 1 => state = "tag"
    BY <1>2
<1>7. Len(begun) = 2 =>
        \/ state = "tag_name_p" /\ begun[2] = "p"
        \/ state = "bang" /\ begun[2] = "!"
    BY <1>2
<1>8. Len(begun) = 3 =>
        \/ state = "tag_name_pr" /\ begun[2] = "p"
        \/ state = "bang_dash" /\ begun[2] = "!"
    BY <1>2
<1>9. Len(begun) = 4 => state = "tag_name_pre"
    BY <1>2
<1>10. Len(begun) \in 1..4
    BY <1>2
<1>11. ASSUME NEW t, t[2] = "p", t[3] = "r", t[4] = "e", NEW k \in 1..4, Begins(read, t, k)
       PROVE  \/ k = 2 /\ state' = "tag_name_p"
              \/ k = 3 /\ state' = "tag_name_pr"
              \/ k = 4 /\ state' = "tag_name_pre"
    <2>1. k = Len(begun) + 1 /\ c = t[k] /\ (k > 2 => begun[2] = "p")
        BY <1>3, <1>11
    <2>2. k = 2 \/ k = 3 \/ k = 4
        BY <1>10, <2>1
    <2>3. CASE k = 2
        <3>1. state = "tag" /\ c = "p"
            BY <1>10, <1>6, <1>11, <2>1, <2>3
        <3> QED BY <1>5, <2>3, <3>1
    <2>4. CASE k = 3
        <3>1. state = "tag_name_p" /\ c = "r"
            BY <1>10, <1>7, <1>11, <2>1, <2>4
        <3> QED BY <1>5, <2>4, <3>1
    <2>5. CASE k = 4
        <3>1. state = "tag_name_pr" /\ c = "e"
            BY <1>10, <1>8, <1>11, <2>1, <2>5
        <3> QED BY <1>5, <2>5, <3>1
    <2> QED BY <2>2, <2>3, <2>4, <2>5
<1>12. ASSUME NEW t, t[5] = " " \/ t[5] = ">", Begins(read, t, 5) PROVE state' = "pre"
    <2>1. 5 \in 1..5
        OBVIOUS
    <2>2. 5 = Len(begun) + 1 /\ c = t[5]
        BY <1>3, <1>12, <2>1
    <2>3. state = "tag_name_pre"
        BY <1>9, <1>10, <2>2
    <2> QED BY <1>5, <1>12, <2>2, <2>3
<1>13. ASSUME NEW k \in 1..4, Begins(read, CommentTag, k)
       PROVE  \/ k = 2 /\ state' = "bang"
              \/ k = 3 /\ state' = "bang_dash"
              \/ k = 4 /\ state' = "comment"
    <2>0. /\ CommentTag[2] = "!" /\ CommentTag[3] = "-" /\ CommentTag[4] = "-"
        BY ONLY TokenBytes
    <2>1. k = Len(begun) + 1 /\ c = CommentTag[k] /\ (k > 2 => begun[2] = "!")
        <3>1. k \in 1..5
            OBVIOUS
        <3> QED BY <1>3, <1>13, <2>0, <3>1
    <2>2. k = 2 \/ k = 3 \/ k = 4
        BY <1>10, <2>1
    <2>3. CASE k = 2
        <3>1. state = "tag" /\ c = "!"
            BY <1>10, <1>6, <2>1, <2>3, <2>0
        <3> QED BY <1>5, <2>3, <3>1
    <2>4. CASE k = 3
        <3>1. state = "bang" /\ c = "-"
            BY <1>10, <1>7, <2>1, <2>4, <2>0
        <3> QED BY <1>5, <2>4, <3>1
    <2>5. CASE k = 4
        <3>1. state = "bang_dash" /\ c = "-"
            BY <1>10, <1>8, <2>1, <2>5, <2>0
        <3> QED BY <1>5, <2>5, <3>1
    <2> QED BY <2>2, <2>3, <2>4, <2>5
<1>14. \A k \in 1..4 : Begins(read, PreTag, k) =>
        \/ k = 2 /\ state' = "tag_name_p"
        \/ k = 3 /\ state' = "tag_name_pr"
        \/ k = 4 /\ state' = "tag_name_pre"
    BY <1>11, TokenBytes
<1>15. Begins(read, PreTag, 5) \/ Begins(read, PreTagBlank, 5) => state' = "pre"
    BY <1>12, TokenBytes
<1>16. Begins(read, CommentTag, 4) => state' = "comment"
    BY <1>13
<1>17. \A k \in 1..3 : Begins(read, CommentTag, k) =>
        \/ k = 2 /\ state' = "bang"
        \/ k = 3 /\ state' = "bang_dash"
    BY <1>13
<1> QED BY <1>14, <1>15, <1>16, <1>17

\* A byte read where nothing is preserved.
LEMMA OpenStep ==
    ASSUME RegionInv, region = "open", NEW b \in Byte, Read(b), Watch(b)
    PROVE  RegionInv'
<1> DEFINE opens == InText /\ b = "<"
           read == CASE opens          -> <<"<">>
                     [] begun # <<>>   -> Append(begun, Lower[b])
                     [] OTHER          -> <<>>
<1>1. WatchOutside(read)
    BY DEF Watch, WatchRegion
<1>2. begun \in Seq(Byte) /\ OpenInv /\ Lower[b] \in Byte
    BY StripAssumption DEF RegionInv
<1>3. \/ opens /\ read = <<"<">>
      \/ begun # <<>> /\ read = Append(begun, Lower[b])
      \/ read = <<>>
    <2>1. CASE opens /\ begun = <<>>
        BY <2>1
    <2>2. CASE opens /\ begun # <<>>
        <3>1. ~InText
            BY <1>2, <2>2 DEF OpenInv, InText, TextState
        <3> QED BY <2>2, <3>1
    <2>3. CASE ~opens /\ begun = <<>>
        BY <2>3
    <2>4. CASE ~opens /\ begun # <<>>
        BY <2>4
    <2> QED BY <2>1, <2>2, <2>3, <2>4
<1> HIDE DEF read
<1>4. CASE opens /\ read = <<"<">>
    <2>1. state' = "tag"
        BY <1>4, Turns
    <2>2. Len(read) = 1 /\ read[1] = "<" /\ read \in Seq(Byte)
        BY <1>4
    <2>3. Begins(read, PreTag, 1)
        <3>1. \A i \in 1..1 : i = 1
            OBVIOUS
        <3> QED BY <2>2, <3>1, TokenBytes DEF Begins
    <2>4. begun' \in {<<>>, read} /\ region' \in {"open", "pre", "comment"}
        BY <1>1, OutsideFacts
    <2>5. region' = "open"
        <3>1. region' = "pre" => Begins(read, PreTag, 5) \/ Begins(read, PreTagBlank, 5)
            BY <1>1, OutsideFacts
        <3>2. region' = "comment" => Begins(read, CommentTag, 4)
            BY <1>1, OutsideFacts
        <3> QED BY <2>2, <2>4, <3>1, <3>2 DEF Begins
    <2>6. OpenInv'
        BY <2>1, <2>3, <2>4 DEF OpenInv
    <2>7. begun' \in Seq(Byte)
        <3>1. <<>> \in Seq(Byte)
            OBVIOUS
        <3> QED BY <2>2, <2>4, <3>1
    <2> QED BY <2>5, <2>6, <2>7 DEF RegionInv
<1>5. CASE read = <<>>
    <2>1. Len(read) = 0
        BY <1>5
    <2>2. begun' = <<>> /\ region' \in {"open", "pre", "comment"}
        BY <1>1, <1>5, OutsideFacts
    <2>3. region' = "open"
        <3>1. region' = "pre" => Begins(read, PreTag, 5) \/ Begins(read, PreTagBlank, 5)
            BY <1>1, OutsideFacts
        <3>2. region' = "comment" => Begins(read, CommentTag, 4)
            BY <1>1, OutsideFacts
        <3> QED BY <2>1, <2>2, <3>1, <3>2 DEF Begins
    <2> QED BY <2>2, <2>3 DEF RegionInv, OpenInv
<1>6. CASE begun # <<>> /\ read = Append(begun, Lower[b])
    <2>1. /\ \A k \in 1..4 : Begins(read, PreTag, k) =>
                \/ k = 2 /\ state' = "tag_name_p"
                \/ k = 3 /\ state' = "tag_name_pr"
                \/ k = 4 /\ state' = "tag_name_pre"
          /\ \A k \in 1..3 : Begins(read, CommentTag, k) =>
                \/ k = 2 /\ state' = "bang"
                \/ k = 3 /\ state' = "bang_dash"
          /\ Begins(read, PreTag, 5) \/ Begins(read, PreTagBlank, 5) => state' = "pre"
          /\ Begins(read, CommentTag, 4) => state' = "comment"
        BY <1>2, <1>6, TokenGoesOn
    <2>2. read \in Seq(Byte)
        BY <1>2, <1>6, OneMore
    <2>3. begun' \in {<<>>, read} /\ region' \in {"open", "pre", "comment"}
        BY <1>1, OutsideFacts
    <2>4. begun' \in Seq(Byte)
        <3>1. <<>> \in Seq(Byte)
            OBVIOUS
        <3> QED BY <2>2, <2>3, <3>1
    <2>5. ASSUME region' = "open" PROVE OpenInv'
        <3>1. CASE begun' = <<>>
            BY <3>1 DEF OpenInv
        <3>2. CASE begun' # <<>>
            <4>1. begun' = read
                BY <2>3, <3>2
            <4>2. \/ \E k \in 1..4 : Begins(read, PreTag, k)
                  \/ \E k \in 1..3 : Begins(read, CommentTag, k)
                BY <1>1, <2>5, <3>2, OutsideFacts
            <4>3. \/ state' = "tag_name_p" /\ Begins(read, PreTag, 2)
                  \/ state' = "tag_name_pr" /\ Begins(read, PreTag, 3)
                  \/ state' = "tag_name_pre" /\ Begins(read, PreTag, 4)
                  \/ state' = "bang" /\ Begins(read, CommentTag, 2)
                  \/ state' = "bang_dash" /\ Begins(read, CommentTag, 3)
                BY <2>1, <4>2
            <4> QED BY <4>1, <4>3 DEF OpenInv
        <3> QED BY <3>1, <3>2
    <2>6. region' = "pre" => PreInv'
        BY <1>1, <2>1, OutsideFacts DEF PreInv
    <2>7. region' = "comment" => CommentInv'
        BY <1>1, <2>1, OutsideFacts DEF CommentInv
    <2> QED BY <2>3, <2>4, <2>5, <2>6, <2>7 DEF RegionInv
<1> QED BY <1>3, <1>4, <1>5, <1>6

\* A byte that begins a closing token, behind anything.
LEMMA FirstMatches ==
    ASSUME NEW t \in Seq(TagByte), Len(t) > 0, NEW s \in Seq(Byte), NEW c \in Byte, c = t[1]
    PROVE  \E m \in 1..Len(t) : Begins(Match(t, Append(s, c)), t, m) /\ t[m] = c
<1> DEFINE a == Append(s, c)
<1>1. a \in Seq(Byte) /\ Len(a) = Len(s) + 1 /\ a[Len(a)] = c
    BY OneMore
<1>2. Len(s) \in Nat /\ Len(t) \in Nat
    OBVIOUS
<1> HIDE DEF a
<1>3. PICK m \in 0..Len(a) :
            /\ m <= Len(t) /\ Begins(Match(t, a), t, m)
            /\ m > 0 => t[m] = a[Len(a)]
            /\ \A k \in 0..Len(a) :
                k <= Len(t) /\ (\A i \in 1..k : a[Len(a) - k + i] = t[i]) => k <= m
    BY <1>1, MatchFacts
<1>4. 1 <= m
    <2>1. 1 \in 0..Len(a) /\ 1 <= Len(t) /\ \A i \in 1..1 : i = 1 /\ Len(a) - 1 + i = Len(a)
        BY <1>1, <1>2
    <2>2. \A i \in 1..1 : a[Len(a) - 1 + i] = t[i]
        BY <1>1, <2>1
    <2> QED BY <1>3, <2>1, <2>2
<1>5. m \in 1..Len(t) /\ t[m] = c
    BY <1>1, <1>2, <1>3, <1>4
<1> QED BY <1>3, <1>5 DEF a

\* A byte that goes on with a closing token.
LEMMA NextMatches ==
    ASSUME NEW t \in Seq(TagByte), NEW s \in Seq(Byte), NEW c \in Byte,
           NEW k \in Nat, k < Len(t), Begins(s, t, k), c = t[k + 1]
    PROVE  /\ Begins(Match(t, Append(s, c)), t, k + 1)
           /\ k + 1 = Len(t) => Match(t, Append(s, c)) = t
<1>1. Append(s, c) \in Seq(Byte) /\ Begins(Append(s, c), t, k + 1)
    BY OneMore, GoneOn
<1>2. k + 1 \in Nat /\ k + 1 <= Len(t)
    <2>1. Len(t) \in Nat
        OBVIOUS
    <2> QED BY <2>1
<1> QED BY <1>1, <1>2, WholeMatches

\* A third "-" leaves the last two.
LEMMA DashesMatch ==
    ASSUME NEW s \in Seq(Byte), "-" \in Byte, Begins(s, CommentEnd, 2)
    PROVE  Begins(Match(CommentEnd, Append(s, "-")), CommentEnd, 2)
<1> DEFINE a == Append(s, "-")
           t == CommentEnd
<1>1. t \in Seq(TagByte) /\ Len(t) = 3 /\ t[1] = "-" /\ t[2] = "-" /\ t[3] = ">"
    BY Tokens, TokenBytes
<1>2. Len(s) = 2 /\ s[2] = "-"
    <2>1. 2 \in 1..2
        OBVIOUS
    <2> QED BY <1>1, <2>1 DEF Begins
<1>3. a \in Seq(Byte) /\ Len(a) = 3 /\ a[2] = "-" /\ a[3] = "-"
    <2>1. 2 \in 1..Len(s) /\ Len(s) + 1 = 3
        BY <1>2
    <2>2. /\ a \in Seq(Byte) /\ Len(a) = Len(s) + 1 /\ a[Len(s) + 1] = "-"
          /\ \A i \in 1..Len(s) : a[i] = s[i]
        BY OneMore
    <2> HIDE DEF a
    <2> QED BY <1>2, <2>1, <2>2
<1> HIDE DEF a, t
<1>4. PICK m \in 0..Len(a) :
            /\ m <= Len(t) /\ Begins(Match(t, a), t, m)
            /\ m > 0 => t[m] = a[Len(a)]
            /\ \A k \in 0..Len(a) :
                k <= Len(t) /\ (\A i \in 1..k : a[Len(a) - k + i] = t[i]) => k <= m
    BY <1>1, <1>3, MatchFacts
<1>5. 2 <= m
    <2>1. 2 \in 0..Len(a) /\ 2 <= Len(t)
        BY <1>1, <1>3
    <2>2. \A i \in 1..2 : (i = 1 /\ Len(a) - 2 + i = 2) \/ (i = 2 /\ Len(a) - 2 + i = 3)
        <3>1. Len(a) = 3
            BY <1>3
        <3> HIDE DEF a
        <3> QED BY ONLY <3>1
    <2>3. \A i \in 1..2 : a[Len(a) - 2 + i] = t[i]
        BY <1>1, <1>3, <2>2
    <2> QED BY <1>4, <2>1, <2>3
<1>6. m # 3
    BY <1>1, <1>3, <1>4
<1>7. m = 2
    BY <1>3, <1>4, <1>5, <1>6
<1> QED BY <1>4, <1>7 DEF a, t

\* What becomes of a region that is not open.
LEMMA InsideFacts ==
    ASSUME NEW b, WatchRegion(b), region # "open", NEW t, t = Closing[region],
           NEW read, read = Match(t, Append(begun, Lower[b]))
    PROVE  IF read = t THEN region' = "open" /\ begun' = <<>>
                       ELSE region' = region /\ begun' = read
BY DEF WatchRegion

\* A byte read in a preformatted text.
LEMMA PreStep ==
    ASSUME RegionInv, region = "pre", NEW b \in Byte, Read(b), Watch(b)
    PROVE  RegionInv'
<1> DEFINE c == Lower[b]
           read == Match(PreEnd, Append(begun, c))
<1>1. PreEnd \in Seq(TagByte) /\ Len(PreEnd) = 6
    BY Tokens
<1>2. begun \in Seq(Byte) /\ c \in Byte /\ PreInv
    BY StripAssumption DEF RegionInv
<1>3. IF read = PreEnd THEN region' = "open" /\ begun' = <<>>
                       ELSE region' = "pre" /\ begun' = read
    BY InsideFacts, Regions DEF Watch
<1>4. read \in Seq(Byte)
    BY <1>1, <1>2, OneMore, MatchFacts
<1>5. state \in PreState
    BY <1>2 DEF PreInv, PreState
<1>6. state' = IF b \in EndOfPre[state] THEN FurtherInPre[state] ELSE "pre"
    BY <1>5, Turns DEF ReadPre, To
<1>7. /\ b = "<" => c = "<"
      /\ b = "/" => c = "/"
      /\ b = ">" => c = ">"
      /\ b \in {"p", "P"} => c = "p"
      /\ b \in {"r", "R"} => c = "r"
      /\ b \in {"e", "E"} => c = "e"
    BY LowerAssumption
<1>8. /\ PreEnd[1] = "<" /\ PreEnd[2] = "/" /\ PreEnd[3] = "p" /\ PreEnd[4] = "r"
      /\ PreEnd[5] = "e" /\ PreEnd[6] = ">"
    BY ONLY TokenBytes
<1> HIDE DEF c
<1>9. ASSUME NEW k \in 1..5, Begins(begun, PreEnd, k), c = PreEnd[k + 1]
      PROVE  Begins(read, PreEnd, k + 1) /\ (k = 5 => read = PreEnd)
    <2>1. k \in Nat /\ k < 6 /\ (k = 5 => k + 1 = 6)
        OBVIOUS
    <2> HIDE DEF read
    <2> QED BY <1>1, <1>2, <1>9, <2>1, NextMatches DEF read
<1>10. ASSUME read # PreEnd, state' # "pre" PROVE PreInv'
    <2>1. b \in EndOfPre[state] /\ state' = FurtherInPre[state] /\ begun' = read
        BY <1>3, <1>6, <1>10
    <2> HIDE DEF read
    <2>2. CASE state = "pre"
        <3>1. c = "<" /\ state' = "pre_angle"
            BY <1>7, <2>1, <2>2 DEF EndOfPre, FurtherInPre
        <3>2. PICK m \in 1..6 : Begins(read, PreEnd, m) /\ PreEnd[m] = c
            BY <1>1, <1>2, <1>8, <3>1, FirstMatches DEF read
        <3>3. m = 1
            BY <1>8, <3>1, <3>2
        <3> QED BY <2>1, <3>1, <3>2, <3>3 DEF PreInv
    <2>3. CASE state = "pre_angle"
        <3>1. c = PreEnd[1 + 1] /\ state' = "pre_angle_slash" /\ Begins(begun, PreEnd, 1)
            BY <1>2, <1>7, <1>8, <2>1, <2>3 DEF EndOfPre, FurtherInPre, PreInv
        <3> QED BY <1>9, <2>1, <3>1 DEF PreInv
    <2>4. CASE state = "pre_angle_slash"
        <3>1. c = PreEnd[2 + 1] /\ state' = "pre_angle_slash_p" /\ Begins(begun, PreEnd, 2)
            BY <1>2, <1>7, <1>8, <2>1, <2>4 DEF EndOfPre, FurtherInPre, PreInv
        <3> QED BY <1>9, <2>1, <3>1 DEF PreInv
    <2>5. CASE state = "pre_angle_slash_p"
        <3>1. c = PreEnd[3 + 1] /\ state' = "pre_angle_slash_pr" /\ Begins(begun, PreEnd, 3)
            BY <1>2, <1>7, <1>8, <2>1, <2>5 DEF EndOfPre, FurtherInPre, PreInv
        <3> QED BY <1>9, <2>1, <3>1 DEF PreInv
    <2>6. CASE state = "pre_angle_slash_pr"
        <3>1. c = PreEnd[4 + 1] /\ state' = "pre_angle_slash_pre" /\ Begins(begun, PreEnd, 4)
            BY <1>2, <1>7, <1>8, <2>1, <2>6 DEF EndOfPre, FurtherInPre, PreInv
        <3> QED BY <1>9, <2>1, <3>1 DEF PreInv
    <2>7. CASE state = "pre_angle_slash_pre"
        <3>1. c = PreEnd[5 + 1] /\ Begins(begun, PreEnd, 5)
            BY <1>2, <1>7, <1>8, <2>1, <2>7 DEF EndOfPre, PreInv
        <3> QED BY <1>9, <1>10, <3>1
    <2> QED BY <1>5, <2>2, <2>3, <2>4, <2>5, <2>6, <2>7 DEF PreState
<1> HIDE DEF read
<1>11. CASE read = PreEnd
    BY <1>3, <1>11 DEF RegionInv, OpenInv
<1>12. CASE read # PreEnd
    <2>1. PreInv'
        <3>1. CASE state' = "pre"
            BY <3>1 DEF PreInv
        <3> QED BY <1>10, <1>12, <3>1
    <2> QED BY <1>3, <1>4, <1>12, <2>1 DEF RegionInv
<1> QED BY <1>11, <1>12

\* A byte read in a comment.
LEMMA CommentStep ==
    ASSUME RegionInv, region = "comment", NEW b \in Byte, Read(b), Watch(b)
    PROVE  RegionInv'
<1> DEFINE c == Lower[b]
           t == CommentEnd
           read == Match(t, Append(begun, c))
<1>1. t \in Seq(TagByte) /\ Len(t) = 3 /\ t[1] = "-" /\ t[2] = "-" /\ t[3] = ">"
    BY Tokens, TokenBytes
<1>2. begun \in Seq(Byte) /\ c \in Byte /\ CommentInv
    BY StripAssumption DEF RegionInv
<1>3. IF read = t THEN region' = "open" /\ begun' = <<>>
                  ELSE region' = "comment" /\ begun' = read
    BY InsideFacts, Regions DEF Watch
<1>4. read \in Seq(Byte)
    BY <1>1, <1>2, OneMore, MatchFacts
<1>5. state \in CommentState
    BY <1>2 DEF CommentInv, CommentState
<1>6. /\ state = "comment" => state' = IF b = "-" THEN "comment_dash" ELSE "comment"
      /\ state = "comment_dash" => state' = IF b = "-" THEN "comment_dash_dash" ELSE "comment"
      /\ state = "comment_dash_dash" => state' = IF b = ">" THEN "text" ELSE "comment"
    BY <1>5, Turns DEF ReadComment, To
<1>7. (b = "-" => c = "-") /\ (b = ">" => c = ">")
    BY LowerAssumption
<1> HIDE DEF c, t
<1>8. ASSUME NEW k \in 1..2, Begins(begun, t, k), c = t[k + 1]
      PROVE  Begins(read, t, k + 1) /\ (k = 2 => read = t)
    <2>1. k \in Nat /\ k < 3 /\ (k = 2 => k + 1 = 3)
        OBVIOUS
    <2> HIDE DEF read
    <2> QED BY <1>1, <1>2, <1>8, <2>1, NextMatches DEF read
<1>9. ASSUME read # t, state' # "comment" PROVE CommentInv'
    <2>1. begun' = read
        BY <1>3, <1>9
    <2> HIDE DEF read
    <2>2. CASE state = "comment"
        <3>1. c = "-" /\ state' = "comment_dash"
            BY <1>6, <1>7, <1>9, <2>2
        <3>2. PICK m \in 1..3 : Begins(read, t, m) /\ t[m] = c
            BY <1>1, <1>2, <3>1, FirstMatches DEF read
        <3>3. m = 1 \/ m = 2
            BY <1>1, <3>1, <3>2
        <3> QED BY <2>1, <3>1, <3>2, <3>3 DEF CommentInv, t
    <2>3. CASE state = "comment_dash"
        <3>1. c = "-" /\ state' = "comment_dash_dash"
            BY <1>6, <1>7, <1>9, <2>3
        <3>2. Begins(begun, t, 1) \/ Begins(begun, t, 2)
            BY <1>2, <2>3 DEF CommentInv, t
        <3>3. CASE Begins(begun, t, 1)
            <4>1. Begins(read, t, 1 + 1)
                BY <1>1, <1>8, <3>1, <3>3
            <4> QED BY <2>1, <3>1, <4>1 DEF CommentInv, t
        <3>4. CASE Begins(begun, t, 2)
            <4>1. Begins(read, t, 2)
                BY <1>2, <3>1, <3>4, DashesMatch DEF read, t
            <4> QED BY <2>1, <3>1, <4>1 DEF CommentInv, t
        <3> QED BY <3>2, <3>3, <3>4
    <2>4. CASE state = "comment_dash_dash"
        <3>1. c = t[2 + 1]
            BY <1>1, <1>6, <1>7, <1>9, <2>4
        <3>2. Begins(begun, t, 2)
            BY <1>2, <2>4 DEF CommentInv, t
        <3> QED BY <1>8, <1>9, <3>1, <3>2
    <2> QED BY <1>5, <2>2, <2>3, <2>4 DEF CommentState
<1> HIDE DEF read
<1>10. CASE read = t
    BY <1>3, <1>10 DEF RegionInv, OpenInv
<1>11. CASE read # t
    <2>1. CommentInv'
        <3>1. CASE state' = "comment"
            BY <3>1 DEF CommentInv
        <3> QED BY <1>9, <1>11, <3>1
    <2> QED BY <1>3, <1>4, <1>11, <2>1 DEF RegionInv
<1> QED BY <1>10, <1>11

\* The regions are the automaton's own, on every page.
THEOREM RegionsAreSeen == StripSpec => []RegionInv
<1>1. StripInit => RegionInv
    <2>1. <<>> \in Seq(Byte)
        OBVIOUS
    <2> QED BY <2>1 DEF StripInit, RegionInv, OpenInv
<1>2. RegionInv /\ [StripNext]_stripVars => RegionInv'
    <2> SUFFICES ASSUME RegionInv, [StripNext]_stripVars PROVE RegionInv'
        OBVIOUS
    <2>1. CASE UNCHANGED stripVars
        BY <2>1 DEF stripVars, watched, RegionInv, OpenInv, PreInv, CommentInv
    <2>2. ASSUME NEW b \in Byte, Read(b), Watch(b) PROVE RegionInv'
        <3>1. region \in {"open", "pre", "comment"}
            BY DEF RegionInv
        <3> QED BY <2>2, <3>1, OpenStep, PreStep, CommentStep
    <2> QED BY <2>1, <2>2 DEF StripNext
<1> QED BY <1>1, <1>2, PTL DEF StripSpec

\* The automaton stays in one of its states, and the token that is being read is
\* made of bytes of the page.
THEOREM StripTypeCorrect == StripSpec => []StripTypeOK
<1> DEFINE Machine == /\ state \in State /\ written \in Byte \cup {"NUL"} /\ skipped \in BOOLEAN
                      /\ gap \in {"none", "break", "space"}
<1>1. StripInit => Machine
    BY DEF StripInit, State, TextState
<1>2. Machine /\ [StripNext]_stripVars => Machine'
    <2> SUFFICES ASSUME Machine, [StripNext]_stripVars PROVE Machine'
        OBVIOUS
    <2>1. CASE UNCHANGED stripVars
        BY <2>1 DEF stripVars, watched
    <2>2. ASSUME NEW b \in Byte, Read(b), Watch(b) PROVE Machine'
        <3>1. gap' \in {"none", "break", "space"}
            <4>1. gap' \in {"none", "space", "break", gap}
                <5>1. CASE ~InText \/ b \notin Breaks \cup {" "}
                    BY <2>2, <5>1, Zenon DEF Watch, WatchGap
                <5>2. CASE InText /\ b \in Breaks \cup {" "}
                    BY <2>2, <5>2, Zenon DEF Watch, WatchGap
                <5> QED BY <5>1, <5>2, Zenon
            <4> QED BY <4>1, Zenon
        <3>2. /\ written' \in {written, b} /\ skipped' \in BOOLEAN
              /\ state' \in State
            <4>0. Keep(b) \/ Drop => written' \in {written, b} /\ skipped' \in BOOLEAN
                BY DEF Keep, Drop
            <4>1. CASE ReadText(b) \/ ReadTextWhitespace(b) \/ ReadTag(b)
                <5>1. Keep(b) \/ Drop
                    BY <4>1, Zenon DEF ReadText, ReadTextWhitespace, ReadTag
                <5>2. state' \in {state, "text", "text_whitespace", "tag", "bang", "end_tag",
                                  "tag_name_p", "tag_name", "abort"}
                    BY <4>1, Zenon DEF ReadText, ReadTextWhitespace, ReadTag, To, Stay
                <5> QED BY <4>0, <5>1, <5>2 DEF State, TextState, NameState, BangState
            <4>2. CASE ReadTagName(b) \/ ReadEndTag(b) \/ ReadAbort(b)
                <5>1. Keep(b) \/ Drop
                    BY <4>2, Zenon DEF ReadTagName, ReadEndTag, ReadAbort
                <5>2. state' \in {state, "tag_name_pr", "tag_name_pre", "pre", "tag_whitespace",
                                  "text", "tag_name", "end_tag_name"}
                    BY <4>2, Zenon DEF ReadTagName, ReadEndTag, ReadAbort, To, Stay
                <5> QED BY <4>0, <5>1, <5>2 DEF State, TextState, NameState, PreState,
                                                AttributeState
            <4>3. CASE ReadAttribute(b)
                <5>1. Keep(b) \/ Drop
                    BY <4>3, Zenon DEF ReadAttribute
                <5>2. state' \in {state, "attribute_name", "text", "tag_whitespace",
                                  "attribute_equals", "double_quote", "single_quote",
                                  "attribute_value"}
                    BY <4>3, Zenon DEF ReadAttribute, To, Stay
                <5> QED BY <4>0, <5>1, <5>2 DEF State, TextState, AttributeState
            <4>4. CASE ReadBang(b) \/ ReadComment(b)
                BY <4>4 DEF ReadBang, ReadComment, Keep, To, State, TextState, BangState,
                            CommentState
            <4>5. CASE ReadPre(b)
                <5>1. state \in PreState /\ state' \in {"pre", FurtherInPre[state]} /\ Keep(b)
                    BY <4>5 DEF ReadPre, To
                <5>2. FurtherInPre[state] \in PreState \cup {"text"}
                    BY <5>1 DEF FurtherInPre, PreState
                <5> QED BY <5>1, <5>2 DEF Keep, State, PreState, TextState
            <4> QED BY <2>2, <4>1, <4>2, <4>3, <4>4, <4>5 DEF Read
        <3> QED BY <3>1, <3>2
    <2> QED BY <2>1, <2>2 DEF StripNext
<1>3. Machine /\ RegionInv => StripTypeOK
    BY DEF RegionInv, StripTypeOK, Opening
<1> HIDE DEF Machine
<1> QED BY <1>1, <1>2, <1>3, RegionsAreSeen, PTL DEF StripSpec

\* Nothing between a pre tag and its end tag, and nothing of a comment, is
\* dropped, on every page.
THEOREM PreservedIsKept == StripSpec => PreservedKept
<1>1. ASSUME RegionInv, [StripNext]_stripVars, region # "open" PROVE ~skipped' \/ UNCHANGED stripVars
    <2>1. state \in PreState \cup CommentState
        BY <1>1 DEF RegionInv, PreInv, CommentInv, PreState, CommentState
    <2>2. ASSUME NEW b \in Byte, Read(b), Watch(b) PROVE ~skipped'
        BY <2>1, <2>2, Turns DEF ReadPre, ReadComment, Keep
    <2> QED BY <1>1, <2>2 DEF StripNext
<1>2. RegionInv /\ [StripNext]_stripVars => [region # "open" => ~skipped']_stripVars
    BY <1>1
<1> QED BY <1>2, RegionsAreSeen, PTL DEF StripSpec, PreservedKept

-------------------------------------------------------------------------------
\* MinifyFilter: sequences of bytes in order

\* What comes behind an element of a sequence is larger, or one of late; and no
\* element comes twice.
InOrder(s, late) ==
    \A i, j \in DOMAIN s : i < j => s[i] < s[j] \/ (s[j] < s[i] /\ s[j] \in late)

\* The same of two sets, of which the second one comes behind the first.
Meets(a, b, late) == \A x \in a, y \in b : x < y \/ (y < x /\ y \in late)

\* Two sequences are joined in order if each is in order and they meet.
LEMMA InOrderConcat ==
    ASSUME NEW S, NEW a \in Seq(S), NEW b \in Seq(S), NEW late
    PROVE  InOrder(a \o b, late)
             <=> InOrder(a, late) /\ InOrder(b, late) /\ Meets(ToSet(a), ToSet(b), late)
<1> DEFINE c == a \o b
           m == Len(a)
           n == Len(b)
<1>1. /\ m \in Nat /\ n \in Nat /\ DOMAIN a = 1..m /\ DOMAIN b = 1..n /\ DOMAIN c = 1..(m + n)
      /\ \A i \in 1..(m + n) : c[i] = IF i <= m THEN a[i] ELSE b[i - m]
    <2>1. c \in Seq(S) /\ Len(c) = m + n
        BY ConcatProperties
    <2>2. DOMAIN c = 1..Len(c)
        BY <2>1, LenProperties
    <2> QED BY <2>1, <2>2, LenProperties, ConcatProperties
<1> HIDE DEF c, m, n
<1>2. \A i \in 1..m : i \in 1..(m + n) /\ c[i] = a[i]
    BY <1>1
<1>3. \A i \in 1..n : i + m \in 1..(m + n) /\ c[i + m] = b[i] /\ ~(i + m <= m)
    BY <1>1
<1>4. \A i \in 1..m : \A j \in 1..n : i < j + m
    BY <1>1
<1>5. \A i, j \in 1..n : i < j <=> i + m < j + m
    BY <1>1
<1>6. ToSet(a) = {a[i] : i \in 1..m} /\ ToSet(b) = {b[i] : i \in 1..n}
    BY <1>1 DEF ToSet
<1>7. ASSUME InOrder(c, late) PROVE InOrder(a, late) /\ InOrder(b, late) /\ Meets(ToSet(a), ToSet(b), late)
    <2>1. InOrder(a, late)
        BY <1>1, <1>2, <1>7 DEF InOrder
    <2>0. \A i, j \in 1..(m + n) : i < j => c[i] < c[j] \/ (c[j] < c[i] /\ c[j] \in late)
        BY <1>1, <1>7 DEF InOrder
    <2>2. InOrder(b, late)
        <3>1. ASSUME NEW i \in 1..n, NEW j \in 1..n, i < j
              PROVE  b[i] < b[j] \/ (b[j] < b[i] /\ b[j] \in late)
            <4>1. i + m \in 1..(m + n) /\ j + m \in 1..(m + n) /\ i + m < j + m
                BY <1>3, <1>5, <3>1
            <4>2. c[i + m] < c[j + m] \/ (c[j + m] < c[i + m] /\ c[j + m] \in late)
                BY ONLY <2>0, <4>1
            <4>3. c[i + m] = b[i] /\ c[j + m] = b[j]
                BY <1>3
            <4> QED BY ONLY <4>2, <4>3
        <3> QED BY <1>1, <3>1 DEF InOrder
    <2>3. Meets(ToSet(a), ToSet(b), late)
        <3>1. ASSUME NEW i \in 1..m, NEW j \in 1..n
              PROVE  a[i] < b[j] \/ (b[j] < a[i] /\ b[j] \in late)
            <4>1. i \in 1..(m + n) /\ j + m \in 1..(m + n) /\ i < j + m
                BY <1>2, <1>3, <1>4
            <4>2. c[i] < c[j + m] \/ (c[j + m] < c[i] /\ c[j + m] \in late)
                BY ONLY <2>0, <4>1
            <4>3. c[i] = a[i] /\ c[j + m] = b[j]
                BY <1>2, <1>3
            <4> QED BY ONLY <4>2, <4>3
        <3> QED BY ONLY <1>6, <3>1 DEF Meets
    <2> QED BY <2>1, <2>2, <2>3
<1>8. ASSUME InOrder(a, late), InOrder(b, late), Meets(ToSet(a), ToSet(b), late) PROVE InOrder(c, late)
    <2> SUFFICES ASSUME NEW i \in 1..(m + n), NEW j \in 1..(m + n), i < j
                 PROVE  c[i] < c[j] \/ (c[j] < c[i] /\ c[j] \in late)
        BY <1>1 DEF InOrder
    <2>1. CASE i \in 1..m /\ j \in 1..m
        BY <1>1, <1>2, <1>8, <2>1 DEF InOrder
    <2>2. CASE i \in 1..m /\ j \notin 1..m
        <3>1. j - m \in 1..n /\ c[j] = b[j - m] /\ c[i] = a[i]
            BY <1>1, <2>2
        <3> QED BY <1>6, <1>8, <2>2, <3>1 DEF Meets
    <2>3. CASE i \notin 1..m
        <3>1. i - m \in 1..n /\ c[i] = b[i - m] /\ j - m \in 1..n /\ c[j] = b[j - m] /\ i - m < j - m
            BY <1>1, <2>3
        <3> QED BY <1>1, <1>8, <3>1 DEF InOrder
    <2> QED BY <2>1, <2>2, <2>3
<1> QED BY <1>7, <1>8 DEF c

\* Sets that meet do so in their parts, and when more is excused.
LEMMA MeetsFacts ==
    ASSUME NEW a, NEW b, NEW c, NEW late
    PROVE  /\ \A d, e, more : d \subseteq a /\ e \subseteq b /\ late \subseteq more /\ Meets(a, b, late)
                => Meets(d, e, more)
           /\ Meets(a, b \cup c, late) <=> Meets(a, b, late) /\ Meets(a, c, late)
           /\ Meets(a \cup b, c, late) <=> Meets(a, c, late) /\ Meets(b, c, late)
           /\ Meets({}, b, late) /\ Meets(a, {}, late)
           /\ b \subseteq late /\ Meets(b, a, late) => \A x \in a, y \in b : x < y \/ y < x
BY DEF Meets

\* More may be excused.
LEMMA MoreIsLate ==
    ASSUME NEW s, NEW late, NEW more, late \subseteq more, InOrder(s, late)
    PROVE  InOrder(s, more)
BY DEF InOrder

\* Kept sequence by sequence.
LEMMA KeptAppend ==
    ASSUME NEW S, NEW s \in Seq(S), NEW x \in S, NEW kept
    PROVE  Kept(Append(s, x), kept) = Kept(s, kept) \o (IF x \in kept THEN <<x>> ELSE <<>>)
<1> DEFINE One(e) == IF e \in kept THEN <<e>> ELSE <<>>
           Ones(t) == [i \in DOMAIN t |-> One(t[i])]
           more == Append(s, x)
           last == One(x)
<1>1. /\ more \in Seq(S) /\ Len(more) = Len(s) + 1 /\ Len(s) \in Nat
      /\ \A i \in 1..Len(s) : more[i] = s[i]
      /\ more[Len(s) + 1] = x
      /\ DOMAIN s = 1..Len(s) /\ DOMAIN more = 1..(Len(s) + 1)
    BY AppendProperties, LenProperties
<1>2. \A e \in S : One(e) \in Seq(S)
    OBVIOUS
<1> HIDE DEF more, One
<1>3. Ones(s) \in Seq(Seq(S)) /\ last \in Seq(S) /\ Len(Ones(s)) = Len(s)
    BY <1>1, <1>2
<1> HIDE DEF last
<1>4. Ones(more) = Append(Ones(s), last)
    <2>1. /\ Append(Ones(s), last) \in Seq(Seq(S))
          /\ Len(Append(Ones(s), last)) = Len(s) + 1
          /\ \A i \in 1..Len(s) : Append(Ones(s), last)[i] = Ones(s)[i]
          /\ Append(Ones(s), last)[Len(s) + 1] = last
        BY <1>1, <1>3, AppendProperties
    <2>2. \A i \in 1..(Len(s) + 1) : Ones(more)[i] = Append(Ones(s), last)[i]
        <3>1. \A i \in 1..(Len(s) + 1) : i \in 1..Len(s) \/ i = Len(s) + 1
            BY <1>1
        <3> QED BY <1>1, <2>1, <3>1 DEF last
    <2>3. Ones(more) \in Seq(Seq(S)) /\ Len(Ones(more)) = Len(s) + 1
        BY <1>1, <1>2
    <2> DEFINE f == Ones(more)
               g == Append(Ones(s), last)
               V == Seq(S)
    <2>4. /\ f \in Seq(V) /\ g \in Seq(V) /\ Len(f) = Len(s) + 1 /\ Len(g) = Len(s) + 1
          /\ \A i \in 1..(Len(s) + 1) : f[i] = g[i]
        BY <2>1, <2>2, <2>3
    <2> HIDE DEF f, g, V
    <2>5. f = g
        BY <2>4, SeqEqual
    <2> QED BY <2>5 DEF f, g
<1>5. FlattenSeq(Append(Ones(s), last)) = FlattenSeq(Ones(s)) \o last
    <2> DEFINE o == Ones(s)
    <2>1. o \in Seq(Seq(S))
        BY <1>3
    <2> HIDE DEF o
    <2>2. FlattenSeq(Append(o, last)) = FlattenSeq(o) \o last
        BY <1>3, <2>1, FlattenAppend
    <2> QED BY <2>2 DEF o
<1>6. Kept(s, kept) = FlattenSeq(Ones(s)) /\ Kept(more, kept) = FlattenSeq(Ones(more))
    BY DEF Kept, One
<1> QED BY <1>4, <1>5, <1>6 DEF more, last, One

\* What a filter keeps of a sequence: what it was to keep, in order if that was,
\* and all if that is kept.
LEMMA KeptFacts ==
    ASSUME NEW S, NEW s \in Seq(S), NEW kept, NEW late
    PROVE  /\ Kept(s, kept) \in Seq(S)
           /\ ToSet(Kept(s, kept)) = ToSet(s) \cap kept
           /\ InOrder(s, late) => InOrder(Kept(s, kept), late)
           /\ ToSet(s) \subseteq kept => Kept(s, kept) = s
<1> DEFINE Good(t) == /\ Kept(t, kept) \in Seq(S)
                      /\ ToSet(Kept(t, kept)) = ToSet(t) \cap kept
                      /\ InOrder(t, late) => InOrder(Kept(t, kept), late)
                      /\ ToSet(t) \subseteq kept => Kept(t, kept) = t
           P == {t \in Seq(S) : Good(t)}
<1>1. <<>> \in P
    <2>1. Kept(<<>>, kept) = <<>>
        <3>1. [i \in DOMAIN <<>> |-> IF <<>>[i] \in kept THEN <<<<>>[i]>> ELSE <<>>] = <<>>
            OBVIOUS
        <3> QED BY <3>1, FlattenEmpty DEF Kept
    <2>2. <<>> \in Seq(S)
        OBVIOUS
    <2> QED BY <2>1, <2>2, SmallSets
<1>2. ASSUME NEW t \in Seq(S), NEW x \in S, Good(t) PROVE Append(t, x) \in Seq(S) /\ Good(Append(t, x))
    <2> DEFINE x1 == <<x>>
               k == Kept(t, kept)
               one == IF x \in kept THEN x1 ELSE <<>>
               more == Append(t, x)
    <2>1. more \in Seq(S) /\ more = t \o x1 /\ x1 \in Seq(S) /\ <<>> \in Seq(S) /\ ToSet(x1) = {x}
        BY AppendIsConcat, AppendProperties, SmallSets
    <2>2. Kept(more, kept) = k \o one
        BY KeptAppend
    <2>3. /\ k \in Seq(S) /\ ToSet(k) = ToSet(t) \cap kept
          /\ InOrder(t, late) => InOrder(k, late)
          /\ ToSet(t) \subseteq kept => k = t
        BY <1>2
    <2>4. InOrder(<<>>, late)
        BY DEF InOrder
    <2> HIDE DEF more, x1, k, Good
    <2>5. /\ one \in Seq(S) /\ (x \in kept => one = x1) /\ (x \notin kept => one = <<>>)
        BY <2>1
    <2>6. ToSet(one) = {x} \cap kept
        BY <2>1, <2>5, SmallSets
    <2> HIDE DEF one
    <2>7. k \o one \in Seq(S) /\ ToSet(k \o one) = ToSet(k) \cup ToSet(one)
        BY <2>3, <2>5, ConcatProperties, ConcatSet
    <2>8. ToSet(more) = ToSet(t) \cup {x}
        BY <2>1, ConcatSet
    <2>9. ToSet(k \o one) = ToSet(more) \cap kept
        BY <2>3, <2>6, <2>7, <2>8
    <2>10. ASSUME InOrder(more, late) PROVE InOrder(k \o one, late)
        <3>1. InOrder(t, late) /\ InOrder(x1, late) /\ Meets(ToSet(t), ToSet(x1), late)
            BY <2>1, <2>10, InOrderConcat
        <3>2. InOrder(k, late) /\ InOrder(one, late)
            BY <2>3, <2>4, <2>5, <3>1
        <3>3. Meets(ToSet(k), ToSet(one), late)
            BY <2>1, <2>3, <2>6, <3>1 DEF Meets
        <3> QED BY <2>3, <2>5, <3>2, <3>3, InOrderConcat
    <2>11. ASSUME ToSet(more) \subseteq kept PROVE k \o one = more
        <3>1. k = t /\ one = x1
            BY <2>3, <2>5, <2>8, <2>11
        <3> QED BY <2>1, <3>1
    <2> QED BY <2>1, <2>2, <2>7, <2>9, <2>10, <2>11 DEF more, Good
<1>3. \A t \in P : \A x \in S : Append(t, x) \in P
    <2> HIDE DEF Good
    <2> QED BY <1>2
<1>4. \A t \in Seq(S) : t \in P
    <2> HIDE DEF P
    <2> QED BY <1>1, <1>3, SequenceInduction
<1> QED BY <1>4

-------------------------------------------------------------------------------
\* The links of a chain and their bytes

\* The bytes of every link of a chain.
BytesOf(links) == [i \in DOMAIN links |-> links[i].bytes]

\* The bytes of the links of a chain, link by link.
LEMMA BytesOfFacts ==
    ASSUME NEW links \in Seq(Link)
    PROVE  /\ BytesOf(links) \in Seq(Seq(Bytes)) /\ Len(BytesOf(links)) = Len(links)
           /\ Flat(links) = FlattenSeq(BytesOf(links))
           /\ Flat(links) \in Seq(Bytes)
<1>1. DOMAIN links = 1..Len(links) /\ Len(links) \in Nat /\ \A i \in 1..Len(links) : links[i] \in Link
    BY LenProperties
<1>2. \A i \in 1..Len(links) : links[i].bytes \in Seq(Bytes)
    BY <1>1 DEF Link
<1>3. BytesOf(links) = [i \in 1..Len(links) |-> links[i].bytes]
    BY <1>1 DEF BytesOf
<1>4. BytesOf(links) \in Seq(Seq(Bytes)) /\ Len(BytesOf(links)) = Len(links)
    <2> DEFINE V == Seq(Bytes)
               b == [i \in 1..Len(links) |-> links[i].bytes]
    <2>1. \A i \in 1..Len(links) : links[i].bytes \in V
        BY <1>2
    <2> HIDE DEF V
    <2>2. b \in Seq(V) /\ Len(b) = Len(links)
        BY <1>1, <2>1
    <2> QED BY <1>3, <2>2 DEF V
<1>5. FlattenSeq(BytesOf(links)) \in Seq(Bytes)
    BY <1>4, FlattenType
<1> QED BY <1>4, <1>5 DEF Flat, BytesOf

\* The bytes of chains joined.
LEMMA FlatConcat ==
    ASSUME NEW a \in Seq(Link), NEW b \in Seq(Link)
    PROVE  a \o b \in Seq(Link) /\ Flat(a \o b) = Flat(a) \o Flat(b)
<1> DEFINE c == a \o b
           V == Seq(Bytes)
<1>1. /\ c \in Seq(Link) /\ Len(c) = Len(a) + Len(b) /\ Len(a) \in Nat /\ Len(b) \in Nat
      /\ DOMAIN c = 1..(Len(a) + Len(b)) /\ DOMAIN a = 1..Len(a) /\ DOMAIN b = 1..Len(b)
      /\ \A i \in 1..(Len(a) + Len(b)) : c[i] = IF i <= Len(a) THEN a[i] ELSE b[i - Len(a)]
    <2>1. c \in Seq(Link) /\ Len(c) = Len(a) + Len(b)
        BY ConcatProperties
    <2>2. DOMAIN c = 1..Len(c)
        BY <2>1, LenProperties
    <2> QED BY <2>1, <2>2, LenProperties, ConcatProperties
<1>2. /\ BytesOf(a) \in Seq(V) /\ Len(BytesOf(a)) = Len(a)
      /\ BytesOf(b) \in Seq(V) /\ Len(BytesOf(b)) = Len(b)
    BY BytesOfFacts
<1>3. BytesOf(c) \in Seq(V) /\ Len(BytesOf(c)) = Len(a) + Len(b)
    <2> HIDE DEF c
    <2>1. BytesOf(c) \in Seq(V) /\ Len(BytesOf(c)) = Len(c)
        BY <1>1, BytesOfFacts
    <2> QED BY <1>1, <2>1
<1> DEFINE d == BytesOf(a) \o BytesOf(b)
<1> HIDE DEF c, V
<1>4. /\ d \in Seq(V) /\ Len(d) = Len(a) + Len(b)
      /\ \A i \in 1..(Len(a) + Len(b)) :
            d[i] = IF i <= Len(a) THEN BytesOf(a)[i] ELSE BytesOf(b)[i - Len(a)]
    <2> DEFINE p == BytesOf(a)
               q == BytesOf(b)
    <2>1. p \in Seq(V) /\ q \in Seq(V) /\ Len(p) = Len(a) /\ Len(q) = Len(b)
        BY <1>2
    <2> HIDE DEF p, q
    <2>2. /\ p \o q \in Seq(V) /\ Len(p \o q) = Len(p) + Len(q)
          /\ \A i \in 1..(Len(p) + Len(q)) : (p \o q)[i] = IF i <= Len(p) THEN p[i] ELSE q[i - Len(p)]
        BY <2>1, ConcatProperties
    <2> QED BY <2>1, <2>2 DEF p, q
<1> HIDE DEF d
<1>5. \A i \in 1..(Len(a) + Len(b)) : BytesOf(c)[i] = d[i]
    <2> TAKE i \in 1..(Len(a) + Len(b))
    <2>1. BytesOf(c)[i] = c[i].bytes
        BY <1>1 DEF BytesOf
    <2>2. CASE i <= Len(a)
        <3>1. i \in DOMAIN a /\ c[i] = a[i]
            BY <1>1, <2>2
        <3> QED BY <1>4, <2>1, <2>2, <3>1 DEF BytesOf
    <2>3. CASE ~(i <= Len(a))
        <3>1. i - Len(a) \in DOMAIN b /\ c[i] = b[i - Len(a)]
            BY <1>1, <2>3
        <3> QED BY <1>4, <2>1, <2>3, <3>1 DEF BytesOf
    <2> QED BY <2>2, <2>3
<1>6. BytesOf(c) = d
    BY <1>1, <1>3, <1>4, <1>5, SeqEqual
<1>7. FlattenSeq(d) = FlattenSeq(BytesOf(a)) \o FlattenSeq(BytesOf(b))
    <2>1. BytesOf(a) \in Seq(Seq(Bytes)) /\ BytesOf(b) \in Seq(Seq(Bytes))
        BY <1>2 DEF V
    <2> QED BY <2>1, FlattenConcat DEF d
<1>8. Flat(a) = FlattenSeq(BytesOf(a)) /\ Flat(b) = FlattenSeq(BytesOf(b)) /\ Flat(c) = FlattenSeq(BytesOf(c))
    BY <1>1, BytesOfFacts
<1> QED BY <1>1, <1>6, <1>7, <1>8 DEF c

\* The bytes of a chain of one link, and of none.
LEMMA FlatFew ==
    /\ Flat(<<>>) = <<>>
    /\ \A l \in Link : <<l>> \in Seq(Link) /\ Flat(<<l>>) = l.bytes
<1>1. Flat(<<>>) = <<>>
    <2>1. [i \in DOMAIN <<>> |-> <<>>[i].bytes] = <<>>
        OBVIOUS
    <2> QED BY <2>1, FlattenEmpty DEF Flat
<1>2. ASSUME NEW l \in Link PROVE <<l>> \in Seq(Link) /\ Flat(<<l>>) = l.bytes
    <2>1. BytesOf(<<l>>) = <<l.bytes>>
        BY DEF BytesOf
    <2>2. l.bytes \in Seq(Bytes)
        BY DEF Link
    <2>3. FlattenSeq(<<l.bytes>>) = l.bytes
        BY <2>2, FlattenOne
    <2>4. <<l>> \in Seq(Link)
        <3> DEFINE V == Link
        <3>1. l \in V
            OBVIOUS
        <3> HIDE DEF V
        <3>2. <<l>> \in Seq(V)
            BY <3>1
        <3> QED BY <3>2 DEF V
    <2> QED BY <2>1, <2>3, <2>4 DEF Flat, BytesOf
<1> QED BY <1>1, <1>2

\* One more link, at the end.
LEMMA LastLink ==
    ASSUME NEW links \in Seq(Link), NEW l \in Link
    PROVE  Append(links, l) \in Seq(Link) /\ Flat(Append(links, l)) = Flat(links) \o l.bytes
<1>1. Append(links, l) = links \o <<l>>
    BY AppendIsConcat
<1>2. <<l>> \in Seq(Link) /\ Flat(<<l>>) = l.bytes
    BY FlatFew
<1> QED BY <1>1, <1>2, FlatConcat

\* The first link, and those behind it.
LEMMA FirstLink ==
    ASSUME NEW links \in Seq(Link), links # <<>>
    PROVE  /\ Head(links) \in Link /\ Tail(links) \in Seq(Link)
           /\ Head(links).bytes \in Seq(Bytes)
           /\ Flat(links) = Head(links).bytes \o Flat(Tail(links))
<1>1. Head(links) \in Link /\ Tail(links) \in Seq(Link)
    BY HeadTailProperties
<1>2. <<Head(links)>> \in Seq(Link) /\ Flat(<<Head(links)>>) = Head(links).bytes
    BY <1>1, FlatFew
<1>3. links = <<Head(links)>> \o Tail(links)
    <2>1. Len(links) \in Nat /\ Len(links) >= 1
        BY EmptySeq, LenProperties
    <2>2. SubSeq(links, 1, Len(links)) = <<links[1]>> \o SubSeq(links, 2, Len(links))
        <3>1. 1 \in 1..Len(links) /\ Len(links) \in 1..Len(links) /\ 1 + 1 = 2
            BY <2>1
        <3> DEFINE m == 1
                   k == Len(links)
        <3>2. m \in 1..Len(links) /\ k \in m..Len(links)
            BY <3>1
        <3> HIDE DEF m, k
        <3>3. SubSeq(links, m, k) = <<links[m]>> \o SubSeq(links, m + 1, k)
            BY <3>2, SubSeqRecursiveFirst
        <3> QED BY <3>1, <3>3 DEF m, k
    <2>3. SubSeq(links, 1, Len(links)) = links
        BY SubSeqFull
    <2>4. SubSeq(links, 2, Len(links)) = Tail(links)
        BY TailIsSubSeq
    <2>5. Head(links) = links[1]
        OBVIOUS
    <2> QED BY <2>2, <2>3, <2>4, <2>5
<1>4. Flat(<<Head(links)>> \o Tail(links)) = Flat(<<Head(links)>>) \o Flat(Tail(links))
    BY <1>1, <1>2, FlatConcat
<1>5. Head(links).bytes \in Seq(Bytes)
    BY <1>1 DEF Link
<1> QED BY <1>1, <1>2, <1>3, <1>4, <1>5

\* The bytes behind the first a, up to b.
LEMMA RunFacts ==
    ASSUME NEW a \in Nat, NEW b \in Nat, a <= b, NEW late
    PROVE  /\ Run(a, b) \in Seq(Nat) /\ Len(Run(a, b)) = b - a
           /\ \A i \in 1..(b - a) : Run(a, b)[i] = a + i
           /\ ToSet(Run(a, b)) = (a + 1)..b
           /\ InOrder(Run(a, b), late)
           /\ b <= MaxBytes => Run(a, b) \in Seq(Bytes)
<1> DEFINE m == b - a
           r == [i \in 1..m |-> a + i]
<1>1. m \in Nat /\ \A i \in 1..m : a + i \in Nat /\ a + i \in (a + 1)..b /\ a + i \in 1..b
    OBVIOUS
<1>2. DOMAIN r = 1..m /\ \A i \in 1..m : r[i] = a + i
    OBVIOUS
<1>3. Run(a, b) = r
    BY DEF Run
<1>4. \A x \in (a + 1)..b : x - a \in 1..m /\ r[x - a] = x
    OBVIOUS
<1>5. b <= MaxBytes => \A i \in 1..m : a + i \in Bytes
    <2> HAVE b <= MaxBytes
    <2>1. MaxBytes \in Nat
        BY FilterAssumption
    <2>2. \A x \in 1..b : x \in 1..MaxBytes
        BY <2>1
    <2> QED BY <1>1, <2>2 DEF Bytes
<1> HIDE DEF m
<1>6. r \in Seq(Nat) /\ Len(r) = m
    BY <1>1
<1>7. b <= MaxBytes => r \in Seq(Bytes)
    BY <1>1, <1>5
<1> HIDE DEF r
<1>8. ToSet(r) = (a + 1)..b
    <2>1. \A x \in ToSet(r) : x \in (a + 1)..b
        BY <1>1, <1>2 DEF ToSet
    <2>2. \A x \in (a + 1)..b : x \in ToSet(r)
        BY <1>2, <1>4 DEF ToSet
    <2> QED BY <2>1, <2>2
<1>9. InOrder(r, late)
    BY <1>1, <1>2 DEF InOrder
<1> QED BY <1>2, <1>3, <1>6, <1>7, <1>8, <1>9 DEF m

\* Runs in a row.
LEMMA RunsInARow ==
    ASSUME NEW a \in Nat, NEW b \in Nat, NEW c \in Nat, a <= b, b <= c
    PROVE  Run(a, b) \o Run(b, c) = Run(a, c)
<1>1. /\ Run(a, b) \in Seq(Nat) /\ Len(Run(a, b)) = b - a
      /\ \A i \in 1..(b - a) : Run(a, b)[i] = a + i
      /\ Run(b, c) \in Seq(Nat) /\ Len(Run(b, c)) = c - b
      /\ \A i \in 1..(c - b) : Run(b, c)[i] = b + i
    BY RunFacts
<1>2. /\ Run(a, c) \in Seq(Nat) /\ Len(Run(a, c)) = c - a
      /\ \A i \in 1..(c - a) : Run(a, c)[i] = a + i
    <2>1. a <= c
        OBVIOUS
    <2> QED BY <2>1, RunFacts
<1> DEFINE p == Run(a, b)
           q == Run(b, c)
           t == Run(a, c)
<1> HIDE DEF p, q, t
<1>3. /\ p \o q \in Seq(Nat) /\ Len(p \o q) = Len(p) + Len(q)
      /\ \A i \in 1..(Len(p) + Len(q)) : (p \o q)[i] = IF i <= Len(p) THEN p[i] ELSE q[i - Len(p)]
    <2>1. p \in Seq(Nat) /\ q \in Seq(Nat)
        BY <1>1 DEF p, q
    <2> QED BY <2>1, ConcatProperties
<1>4. /\ t \in Seq(Nat) /\ Len(t) = Len(p) + Len(q) /\ Len(p) = b - a /\ Len(q) = c - b
      /\ \A i \in 1..Len(p) : p[i] = a + i
      /\ \A i \in 1..Len(q) : q[i] = b + i
      /\ \A i \in 1..Len(t) : t[i] = a + i
    BY <1>1, <1>2 DEF p, q, t
<1>5. \A i \in 1..Len(t) : (p \o q)[i] = t[i]
    <2> TAKE i \in 1..Len(t)
    <2>1. /\ i \in 1..(Len(p) + Len(q)) /\ t[i] = a + i
          /\ i <= Len(p) => i \in 1..Len(p)
          /\ ~(i <= Len(p)) => i - Len(p) \in 1..Len(q) /\ b + (i - Len(p)) = a + i
        BY <1>4
    <2>2. CASE i <= Len(p)
        BY <1>3, <1>4, <2>1, <2>2
    <2>3. CASE ~(i <= Len(p))
        BY <1>3, <1>4, <2>1, <2>3
    <2> QED BY <2>2, <2>3
<1>6. p \o q = t
    BY <1>3, <1>4, <1>5, SeqEqual
<1> QED BY <1>6 DEF p, q, t

\* A chain has the bytes that come next, in their order.
LEMMA LinksFacts ==
    ASSUME received \in 0..MaxBytes, NEW ends \in Ends
    PROVE  /\ Links(ends) \in Seq(Link)
           /\ ends[Len(ends)] \in Nat
           /\ received <= ends[Len(ends)] /\ ends[Len(ends)] <= MaxBytes
           /\ Flat(Links(ends)) = Run(received, ends[Len(ends)])
<1>0. MaxBytes \in Nat /\ MaxLinks \in Nat /\ received \in Nat
    BY FilterAssumption
<1>1. PICK n \in 1..MaxLinks : ends \in [1..n -> received..MaxBytes]
    BY DEF Ends
<1>2. n \in Nat /\ n # 0 /\ DOMAIN ends = 1..n /\ Len(ends) = n /\ n \in 1..n /\ 1 \in 1..n
    <2>1. n \in Nat /\ n # 0 /\ DOMAIN ends = 1..n
        BY <1>0, <1>1
    <2>2. ends \in Seq(received..MaxBytes)
        BY <1>1, <2>1, SeqDef
    <2>3. Len(ends) \in Nat /\ DOMAIN ends = 1..Len(ends)
        BY <2>2, LenProperties
    <2>4. \A p, q \in Nat : 1..p = 1..q => p = q
        <3> SUFFICES ASSUME NEW p \in Nat, NEW q \in Nat, 1..p = 1..q PROVE p = q
            OBVIOUS
        <3>1. (p \in 1..p \/ p = 0) /\ (q \in 1..q \/ q = 0)
            OBVIOUS
        <3> QED BY <3>1
    <2> QED BY <2>1, <2>3, <2>4
<1>3. \A i \in 1..n : ends[i] \in Nat /\ received <= ends[i] /\ ends[i] <= MaxBytes
    BY <1>0, <1>1
<1>4. \A i \in 1..n : Begin(ends, i) \in Nat /\ Begin(ends, i) <= ends[i]
    <2> TAKE i \in 1..n
    <2>1. ends[i] - Begin(ends, i) \in 0..MaxBuffer
        BY <1>2 DEF Ends
    <2>2. Begin(ends, i) \in Nat
        <3>1. i # 1 => i - 1 \in 1..n
            BY <1>2
        <3> QED BY <1>0, <1>3, <3>1 DEF Begin
    <2> QED BY <1>3, <2>1, <2>2
<1> DEFINE l(i) == [bytes |-> Run(Begin(ends, i), ends[i]), memory |-> Begin(ends, i) < ends[i]]
           links == Links(ends)
<1>5. \A i \in 1..n : links[i] = l(i) /\ l(i) \in Link
    <2> TAKE i \in 1..n
    <2>1. Run(Begin(ends, i), ends[i]) \in Seq(Bytes)
        <3> DEFINE a == Begin(ends, i)
                   b == ends[i]
        <3>1. a \in Nat /\ b \in Nat /\ a <= b /\ b <= MaxBytes
            BY <1>3, <1>4
        <3> HIDE DEF a, b
        <3>2. Run(a, b) \in Seq(Bytes)
            BY <3>1, RunFacts
        <3> QED BY <3>2 DEF a, b
    <2>2. links[i] = l(i)
        BY <1>2 DEF Links
    <2> QED BY <2>1, <2>2 DEF Link
<1>6. links \in Seq(Link) /\ Len(links) = n /\ DOMAIN links = 1..n /\ links = [i \in 1..n |-> links[i]]
    <2>1. DOMAIN links = 1..n /\ links = [i \in 1..n |-> links[i]]
        BY <1>2 DEF Links
    <2> HIDE DEF links, l
    <2>2. links \in [1..n -> Link]
        BY <1>5, <2>1
    <2> QED BY <1>2, <2>1, <2>2
<1> HIDE DEF links
<1>7. \A i \in 1..n : links[i] \in Link /\ links[i].bytes = Run(Begin(ends, i), ends[i])
    <2> TAKE i \in 1..n
    <2>1. l(i).bytes = Run(Begin(ends, i), ends[i])
        OBVIOUS
    <2> HIDE DEF l
    <2> QED BY <1>5, <2>1
<1> HIDE DEF l
<1> DEFINE pre(k) == [i \in 1..k |-> links[i]]
           T == {k \in 1..n : pre(k) \in Seq(Link) /\ Flat(pre(k)) = Run(received, ends[k])}
<1>8. 1 \in T
    <2>1. pre(1) = <<links[1]>>
        OBVIOUS
    <2>2. links[1] \in Link /\ links[1].bytes = Run(received, ends[1])
        BY <1>2, <1>7 DEF Begin
    <2> QED BY <1>2, <2>1, <2>2, FlatFew
<1>9. ASSUME NEW m \in 1..n, m < n, m \in T PROVE m + 1 \in T
    <2>1. m \in Nat /\ m + 1 \in 1..n /\ (m + 1) - 1 = m /\ m + 1 # 1 /\ \A i \in 1..m : i \in 1..n
        BY <1>2, <1>9
    <2> DEFINE x == links[m + 1]
    <2>2. x \in Link /\ x.bytes = Run(ends[m], ends[m + 1])
        <3>1. Begin(ends, m + 1) = ends[m]
            BY <2>1 DEF Begin
        <3> QED BY <1>7, <2>1, <3>1
    <2>3. pre(m) \in Seq(Link) /\ Flat(pre(m)) = Run(received, ends[m])
        BY <1>9
    <2>4. pre(m + 1) = Append(pre(m), x)
        <3> DEFINE V == Link
        <3>1. /\ pre(m + 1) \in Seq(V) /\ Len(pre(m + 1)) = m + 1
              /\ pre(m) \in Seq(V) /\ Len(pre(m)) = m /\ x \in V
            BY <1>7, <2>1, <2>2, <2>3
        <3>2. /\ \A i \in 1..m : pre(m + 1)[i] = links[i] /\ pre(m)[i] = links[i]
              /\ pre(m + 1)[m + 1] = x
            BY <2>1
        <3> DEFINE f == pre(m + 1)
                   g == pre(m)
        <3>3. /\ f \in Seq(V) /\ Len(f) = m + 1 /\ g \in Seq(V) /\ Len(g) = m
              /\ (\A i \in 1..m : f[i] = g[i]) /\ f[m + 1] = x /\ x \in V
            BY <3>1, <3>2
        <3> HIDE DEF f, g, V, x
        <3>4. /\ Append(g, x) \in Seq(V) /\ Len(Append(g, x)) = m + 1
              /\ \A i \in 1..m : Append(g, x)[i] = g[i]
              /\ Append(g, x)[m + 1] = x
            BY <3>3, AppendProperties
        <3>5. \A i \in 1..(m + 1) : i \in 1..m \/ i = m + 1
            BY <2>1
        <3>6. f = Append(g, x)
            <4>1. \A i \in 1..Len(f) : f[i] = Append(g, x)[i]
                BY <3>3, <3>4, <3>5
            <4> QED BY <3>3, <3>4, <4>1, SeqEqual
        <3> QED BY <3>6 DEF f, g
    <2> HIDE DEF x, pre
    <2>5. Append(pre(m), x) \in Seq(Link) /\ Flat(Append(pre(m), x)) = Flat(pre(m)) \o x.bytes
        BY <2>2, <2>3, LastLink
    <2>6. Run(received, ends[m]) \o Run(ends[m], ends[m + 1]) = Run(received, ends[m + 1])
        <3>1. /\ ends[m] \in Nat /\ ends[m + 1] \in Nat /\ received <= ends[m]
              /\ ends[m] <= ends[m + 1]
            <4>1. Begin(ends, m + 1) = ends[m]
                BY <2>1 DEF Begin
            <4>2. ends[m] <= ends[m + 1]
                BY <1>4, <2>1, <4>1
            <4> QED BY <1>3, <2>1, <4>2
        <3> QED BY <1>0, <3>1, RunsInARow
    <2> QED BY <2>1, <2>2, <2>3, <2>4, <2>5, <2>6
<1>10. n \in T
    <2> HIDE DEF T
    <2>1. \A m \in 1..n : m \in T
        BY <1>2, <1>8, <1>9, Induction
    <2> QED BY <1>2, <2>1
<1>11. pre(n) = links
    BY <1>6
<1>12. ends[Len(ends)] = ends[n]
    BY <1>2
<1> QED BY <1>2, <1>3, <1>6, <1>10, <1>11, <1>12 DEF links

-------------------------------------------------------------------------------
\* Where the bytes of a body are

\* Four sequences that are in order one behind the other.
Ordered(s, p, c, h, late) ==
    /\ InOrder(s, late) /\ InOrder(p, late) /\ InOrder(c, late) /\ InOrder(h, late)
    /\ Meets(ToSet(s), ToSet(p), late) /\ Meets(ToSet(s), ToSet(c), late)
    /\ Meets(ToSet(s), ToSet(h), late) /\ Meets(ToSet(p), ToSet(c), late)
    /\ Meets(ToSet(p), ToSet(h), late) /\ Meets(ToSet(c), ToSet(h), late)

\* They have the first n bytes, but for those that are gone.
Hold(s, p, c, h, gone, n) ==
    LET there == ToSet(s) \cup ToSet(p) \cup ToSet(c) \cup ToSet(h)
    IN  there \cap gone = {} /\ there \cup gone = 1..n

\* What is sent, what is passed on, what is withheld and what is to come of a
\* body, and the bytes of it that a filter took out or that were lost.
Flow(s, p, c, h, late, gone, n) == Ordered(s, p, c, h, late) /\ Hold(s, p, c, h, gone, n)

\* Sets that meet are apart.
LEMMA Apart ==
    ASSUME NEW a, NEW b, a \subseteq Bytes, NEW late, Meets(a, b, late)
    PROVE  a \cap b = {}
<1>1. \A x \in a : ~(x < x)
    <2>1. \A x \in Bytes : ~(x < x)
        BY FilterAssumption DEF Bytes
    <2> QED BY <2>1
<1> QED BY <1>1 DEF Meets

\* The elements of a sequence of bytes are bytes.
LEMMA ElementsAre ==
    ASSUME NEW s \in Seq(Bytes)
    PROVE  ToSet(s) \subseteq Bytes
<1>1. DOMAIN s = 1..Len(s) /\ \A i \in 1..Len(s) : s[i] \in Bytes
    BY LenProperties, ElementOfSeq
<1> QED BY <1>1 DEF ToSet

\* Four sequences in order, joined.
LEMMA FourInOrder ==
    ASSUME NEW s \in Seq(Bytes), NEW p \in Seq(Bytes), NEW c \in Seq(Bytes), NEW h \in Seq(Bytes),
           NEW late, Ordered(s, p, c, h, late)
    PROVE  /\ InOrder(s \o ((p \o c) \o h), late)
           /\ s \o ((p \o c) \o h) \in Seq(Bytes)
           /\ ToSet(s \o ((p \o c) \o h)) = ToSet(s) \cup ToSet(p) \cup ToSet(c) \cup ToSet(h)
<1> DEFINE V == Bytes
           pc == p \o c
           pch == pc \o h
<1>0. s \in Seq(V) /\ p \in Seq(V) /\ c \in Seq(V) /\ h \in Seq(V)
    OBVIOUS
<1> HIDE DEF V
<1>1. pc \in Seq(V) /\ ToSet(pc) = ToSet(p) \cup ToSet(c)
    BY <1>0, ConcatProperties, ConcatSet
<1>2. InOrder(pc, late)
    BY <1>0, InOrderConcat DEF Ordered
<1> HIDE DEF pc
<1>3. pch \in Seq(V) /\ ToSet(pch) = ToSet(pc) \cup ToSet(h)
    <2>1. pc \in Seq(V) /\ h \in Seq(V)
        BY <1>0, <1>1
    <2> QED BY ONLY <2>1, ConcatType, ConcatSet DEF pch
<1>4. InOrder(pch, late)
    <2>1. Meets(ToSet(pc), ToSet(h), late)
        <3>1. Meets(ToSet(p), ToSet(h), late) /\ Meets(ToSet(c), ToSet(h), late)
            BY DEF Ordered
        <3> QED BY ONLY <1>1, <3>1 DEF Meets
    <2>2. pc \in Seq(V) /\ h \in Seq(V) /\ InOrder(h, late)
        BY <1>0, <1>1 DEF Ordered
    <2> QED BY ONLY <1>2, <2>1, <2>2, InOrderConcat DEF pch
<1> HIDE DEF pch
<1>5. s \o pch \in Seq(V) /\ ToSet(s \o pch) = ToSet(s) \cup ToSet(pch)
    <2>1. s \in Seq(V) /\ pch \in Seq(V)
        BY <1>0, <1>3
    <2> QED BY ONLY <2>1, ConcatType, ConcatSet
<1>6. InOrder(s \o pch, late)
    <2>1. Meets(ToSet(s), ToSet(pch), late)
        BY <1>1, <1>3 DEF Ordered, Meets
    <2>2. s \in Seq(V) /\ pch \in Seq(V) /\ InOrder(s, late)
        BY <1>0, <1>3 DEF Ordered
    <2> QED BY ONLY <1>4, <2>1, <2>2, InOrderConcat
<1> QED BY <1>1, <1>3, <1>5, <1>6 DEF pc, pch, V

\* A sequence without elements.
LEMMA NoBytes == \A late : InOrder(<<>>, late) /\ <<>> \in Seq(Bytes) /\ ToSet(<<>>) = {}
BY SmallSets DEF InOrder

\* Bytes arrive.
LEMMA FlowArrives ==
    ASSUME NEW s, NEW c, NEW late, NEW gone, NEW m \in Nat, NEW n \in Nat, m <= n,
           Flow(s, <<>>, c, <<>>, late, gone, m)
    PROVE  Flow(s, <<>>, c, Run(m, n), late, gone, n)
<1> DEFINE h == Run(m, n)
           S == ToSet(s)
           C == ToSet(c)
           H == ToSet(h)
<1>1. H = (m + 1)..n /\ InOrder(h, late) /\ ToSet(<<>>) = {}
    BY RunFacts, NoBytes
<1>2. (S \cup C) \cap gone = {} /\ (S \cup C) \cup gone = 1..m
    BY <1>1 DEF Flow, Hold
<1> HIDE DEF h
<1>3. \A x \in S \cup C \cup gone, y \in H : x < y /\ x # y
    <2>1. \A x \in 1..m, y \in (m + 1)..n : x < y /\ x # y
        OBVIOUS
    <2> HIDE DEF S, C, H
    <2>2. \A x \in S \cup C \cup gone : x \in 1..m
        BY <1>2
    <2> QED BY <1>1, <2>1, <2>2, Zenon
<1>4. 1..m \cup (m + 1)..n = 1..n
    OBVIOUS
<1>5. Meets(S, H, late) /\ Meets(C, H, late) /\ Meets({}, H, late)
    <2> HIDE DEF S, C, H
    <2> QED BY <1>3 DEF Meets
<1>6. Ordered(s, <<>>, c, h, late)
    BY <1>1, <1>5 DEF Flow, Ordered
<1>7. Hold(s, <<>>, c, h, gone, n)
    <2> HIDE DEF S, C, H
    <2>1. (S \cup C \cup H) \cap gone = {}
        BY <1>2, <1>3
    <2>2. (S \cup C \cup H) \cup gone = 1..n
        BY <1>1, <1>2, <1>4
    <2> QED BY <1>1, <2>1, <2>2 DEF Hold, S, C, H
<1> QED BY <1>6, <1>7 DEF Flow, h

\* All is passed on.
LEMMA FlowPasses ==
    ASSUME NEW s, NEW h, NEW late, NEW gone, NEW n, Flow(s, <<>>, <<>>, h, late, gone, n)
    PROVE  Flow(s, h, <<>>, <<>>, late, gone, n)
<1>1. ToSet(<<>>) = {} /\ InOrder(<<>>, late)
    BY NoBytes
<1>2. \A a : Meets({}, a, late) /\ Meets(a, {}, late)
    BY DEF Meets
<1>3. Ordered(s, h, <<>>, <<>>, late)
    BY <1>1, <1>2 DEF Flow, Ordered
<1>4. Hold(s, h, <<>>, <<>>, gone, n)
    BY <1>1 DEF Flow, Hold
<1> QED BY <1>3, <1>4 DEF Flow

\* An allocation fails: what is to come overtakes what is withheld.
LEMMA FlowFails ==
    ASSUME NEW s \in Seq(Bytes), NEW p \in Seq(Bytes), NEW c \in Seq(Bytes), NEW h \in Seq(Bytes),
           NEW late, NEW gone, NEW n, Flow(s, p, c, h, late, gone, n)
    PROVE  Flow(s, p \o h, c, <<>>, late \cup ToSet(c), gone, n)
<1> DEFINE more == late \cup ToSet(c)
<1>1. ToSet(<<>>) = {} /\ InOrder(<<>>, more)
    BY NoBytes
<1>2. ToSet(p \o h) = ToSet(p) \cup ToSet(h)
    BY ConcatSet
<1>3. InOrder(p \o h, late)
    BY InOrderConcat DEF Flow, Ordered
<1>4. late \subseteq more /\ ToSet(c) \subseteq more
    OBVIOUS
<1> HIDE DEF more
<1>5. InOrder(s, more) /\ InOrder(p \o h, more) /\ InOrder(c, more)
    BY <1>3, <1>4, MoreIsLate DEF Flow, Ordered
<1>6. Meets(ToSet(s), ToSet(p \o h), more) /\ Meets(ToSet(s), ToSet(c), more)
    BY <1>2, <1>4 DEF Flow, Ordered, Meets
<1>7. Meets(ToSet(p \o h), ToSet(c), more)
    BY <1>2, <1>4 DEF Flow, Ordered, Meets
<1>8. \A a : Meets(a, {}, more)
    BY DEF Meets
<1>9. Ordered(s, p \o h, c, <<>>, more)
    BY <1>1, <1>5, <1>6, <1>7, <1>8 DEF Ordered
<1>10. Hold(s, p \o h, c, <<>>, gone, n)
    BY <1>1, <1>2 DEF Flow, Hold
<1> QED BY <1>9, <1>10 DEF Flow, more

\* What is passed on is sent, but for what the strip filter drops.
LEMMA FlowDelivers ==
    ASSUME NEW s \in Seq(Bytes), NEW p \in Seq(Bytes), NEW c \in Seq(Bytes),
           NEW late, NEW gone, NEW n, NEW kept, Flow(s, p, c, <<>>, late, gone, n)
    PROVE  Flow(s \o Kept(p, kept), <<>>, c, <<>>, late, gone \cup (ToSet(p) \ kept), n)
<1> DEFINE k == Kept(p, kept)
<1>1. ToSet(<<>>) = {} /\ InOrder(<<>>, late)
    BY NoBytes
<1>2. k \in Seq(Bytes) /\ ToSet(k) = ToSet(p) \cap kept /\ InOrder(k, late)
    <2>1. InOrder(p, late)
        BY DEF Flow, Ordered
    <2> QED BY <2>1, KeptFacts
<1> HIDE DEF k
<1>3. ToSet(s \o k) = ToSet(s) \cup ToSet(k)
    BY <1>2, ConcatSet
<1>4. InOrder(s \o k, late)
    <2>1. Meets(ToSet(s), ToSet(k), late)
        BY <1>2 DEF Flow, Ordered, Meets
    <2> QED BY <1>2, <2>1, InOrderConcat DEF Flow, Ordered
<1>5. Meets(ToSet(s \o k), ToSet(c), late)
    BY <1>2, <1>3 DEF Flow, Ordered, Meets
<1>6. \A a : Meets(a, {}, late) /\ Meets({}, a, late)
    BY DEF Meets
<1>7. Ordered(s \o k, <<>>, c, <<>>, late)
    BY <1>1, <1>4, <1>5, <1>6 DEF Flow, Ordered
<1>8. Hold(s \o k, <<>>, c, <<>>, gone \cup (ToSet(p) \ kept), n)
    <2>1. ToSet(s) \cap ToSet(p) = {} /\ ToSet(p) \cap ToSet(c) = {}
        BY ElementsAre, Apart DEF Flow, Ordered
    <2> DEFINE S == ToSet(s)
               P == ToSet(p)
               C == ToSet(c)
    <2>2. (S \cup P \cup C) \cap gone = {} /\ (S \cup P \cup C) \cup gone = 1..n
        BY <1>1 DEF Flow, Hold
    <2>3. ToSet(s \o k) = S \cup (P \cap kept) /\ S \cap P = {} /\ P \cap C = {}
        BY <1>2, <1>3, <2>1
    <2> HIDE DEF S, P
    <2>4. ((S \cup (P \cap kept)) \cup C) \cap (gone \cup (P \ kept)) = {}
        BY <2>2, <2>3
    <2>5. ((S \cup (P \cap kept)) \cup C) \cup (gone \cup (P \ kept)) = 1..n
        BY <2>2
    <2> QED BY <1>1, <2>3, <2>4, <2>5 DEF Hold, P
<1> QED BY <1>7, <1>8 DEF Flow, k

\* A sequence, cut.
LEMMA SplitEnd ==
    ASSUME NEW S, NEW s \in Seq(S), NEW n \in Nat, n <= Len(s)
    PROVE  /\ SubSeq(s, 1, Len(s) - n) \in Seq(S) /\ SubSeq(s, Len(s) - n + 1, Len(s)) \in Seq(S)
           /\ SubSeq(s, 1, Len(s) - n) \o SubSeq(s, Len(s) - n + 1, Len(s)) = s
<1> DEFINE len == Len(s)
           k == len - n
           m == 1
<1>1. /\ len \in Nat /\ k \in Nat /\ k <= len /\ k + 1 \in Int
      /\ \A i \in 1..k : i \in 1..len
      /\ \A i \in (k + 1)..len : i \in 1..len
      /\ m \in 1..(len + 1) /\ k \in (m - 1)..len /\ len \in k..len
    <2>1. len \in Nat
        BY LenProperties
    <2> QED BY <2>1
<1> HIDE DEF len, k
<1>2. \A i \in 1..len : s[i] \in S
    BY ElementOfSeq DEF len
<1>3. SubSeq(s, 1, k) \in Seq(S) /\ SubSeq(s, k + 1, len) \in Seq(S)
    <2>1. \A i \in 1..k : s[i] \in S
        BY <1>1, <1>2
    <2>2. \A i \in (k + 1)..len : s[i] \in S
        BY <1>1, <1>2
    <2>3. SubSeq(s, 1, k) \in Seq(S)
        BY <1>1, <2>1, SubSeqProperties
    <2>4. SubSeq(s, k + 1, len) \in Seq(S)
        BY <1>1, <2>2, SubSeqProperties
    <2> QED BY <2>3, <2>4
<1>4. SubSeq(s, 1, k) \o SubSeq(s, k + 1, len) = s
    <2>1. m \in 1..(Len(s) + 1) /\ k \in (m - 1)..Len(s) /\ len \in k..Len(s)
        BY <1>1 DEF len
    <2> HIDE DEF m
    <2>2. SubSeq(s, m, k) \o SubSeq(s, k + 1, len) = SubSeq(s, m, len)
        BY <2>1, ConcatAdjacentSubSeq
    <2>3. SubSeq(s, 1, len) = s
        BY SubSeqFull DEF len
    <2> QED BY <2>2, <2>3 DEF m
<1> QED BY <1>3, <1>4 DEF k, len

\* The bytes of a link with the withheld ones in front of them: some are kept,
\* the last ones are withheld.
LEMMA FlowMinifies ==
    ASSUME NEW s \in Seq(Bytes), NEW p \in Seq(Bytes), NEW c \in Seq(Bytes),
           NEW l \in Seq(Bytes), NEW t \in Seq(Bytes), NEW late, NEW gone, NEW n,
           NEW read \in Seq(Bytes), NEW rest \in Seq(Bytes), read \o rest = c \o l, NEW kept,
           Flow(s, p, c, l \o t, late, gone, n)
    PROVE  Flow(s, p \o Kept(read, kept), rest, t, late, gone \cup (ToSet(read) \ kept), n)
<1> DEFINE k == Kept(read, kept)
           b == c \o l
           P == ToSet(p)
           S == ToSet(s)
           T == ToSet(t)
           R == ToSet(read)
           W == ToSet(rest)
<1>1. InOrder(l, late) /\ InOrder(t, late) /\ Meets(ToSet(l), T, late) /\ ToSet(l \o t) = ToSet(l) \cup T
    BY InOrderConcat, ConcatSet DEF Flow, Ordered
<1>2. /\ InOrder(s, late) /\ InOrder(p, late) /\ InOrder(c, late)
      /\ Meets(S, P, late) /\ Meets(S, ToSet(c), late) /\ Meets(S, ToSet(l) \cup T, late)
      /\ Meets(P, ToSet(c), late) /\ Meets(P, ToSet(l) \cup T, late)
      /\ Meets(ToSet(c), ToSet(l) \cup T, late)
    BY <1>1 DEF Flow, Ordered
<1>3. InOrder(b, late) /\ ToSet(b) = ToSet(c) \cup ToSet(l) /\ b \in Seq(Bytes)
    <2>1. Meets(ToSet(c), ToSet(l), late)
        BY <1>2 DEF Meets
    <2> QED BY <1>1, <1>2, <2>1, InOrderConcat, ConcatSet, ConcatProperties
<1>4. ToSet(c) \cup ToSet(l) = R \cup W
    <2>1. ToSet(read \o rest) = R \cup W
        <3> HIDE DEF b
        <3>1. read \in Seq(Bytes) /\ rest \in Seq(Bytes)
            OBVIOUS
        <3> QED BY ONLY <3>1, ConcatSet DEF R, W
    <2> QED BY <1>3, <2>1
<1>5. InOrder(read, late) /\ InOrder(rest, late) /\ Meets(R, W, late)
    <2>1. InOrder(read \o rest, late)
        BY <1>3
    <2> QED BY <2>1, InOrderConcat
<1>6. /\ Meets(S, R, late) /\ Meets(S, W, late) /\ Meets(S, T, late)
      /\ Meets(P, R, late) /\ Meets(P, W, late) /\ Meets(P, T, late)
      /\ Meets(R, T, late) /\ Meets(W, T, late)
    <2> DEFINE C == ToSet(c)
               L == ToSet(l)
    <2>1. /\ Meets(S, C, late) /\ Meets(S, L \cup T, late) /\ Meets(P, C, late)
          /\ Meets(P, L \cup T, late) /\ Meets(C, L \cup T, late) /\ Meets(L, T, late)
          /\ C \cup L = R \cup W
        BY <1>1, <1>2, <1>4
    <2> HIDE DEF C, L, S, P, T, R, W
    <2>2. \A x : x \in R \/ x \in W => x \in C \/ x \in L
        BY <2>1
    <2> QED BY <2>1, <2>2 DEF Meets
<1>7. k \in Seq(Bytes) /\ ToSet(k) = R \cap kept /\ InOrder(k, late)
    BY <1>5, KeptFacts
<1> HIDE DEF k, b
<1>8. ToSet(p \o k) = P \cup (R \cap kept)
    BY <1>7, ConcatSet
<1>9. InOrder(p \o k, late)
    <2>1. Meets(P, ToSet(k), late)
        BY <1>6, <1>7 DEF Meets
    <2> QED BY <1>2, <1>7, <2>1, InOrderConcat
<1>10. Ordered(s, p \o k, rest, t, late)
    <2> HIDE DEF S, P, T, R, W
    <2>1. Meets(S, P \cup (R \cap kept), late)
        BY <1>2, <1>6 DEF Meets
    <2>2. Meets(P \cup (R \cap kept), W, late)
        BY <1>5, <1>6 DEF Meets
    <2>3. Meets(P \cup (R \cap kept), T, late)
        BY <1>6 DEF Meets
    <2> USE DEF S, P, T, R, W
    <2> QED BY <1>1, <1>2, <1>5, <1>6, <1>8, <1>9, <2>1, <2>2, <2>3 DEF Ordered
<1>11. Hold(s, p \o k, rest, t, gone \cup (R \ kept), n)
    <2>1. R \cap S = {} /\ R \cap P = {} /\ R \cap W = {} /\ R \cap T = {}
        <3>1. S \subseteq Bytes /\ P \subseteq Bytes /\ R \subseteq Bytes
            BY ElementsAre
        <3> HIDE DEF S, P, T, R, W
        <3>2. S \cap R = {}
            BY <1>6, <3>1, Apart
        <3>3. P \cap R = {}
            BY <1>6, <3>1, Apart
        <3>4. R \cap W = {}
            BY <1>5, <3>1, Apart
        <3>5. R \cap T = {}
            BY <1>6, <3>1, Apart
        <3> QED BY <3>2, <3>3, <3>4, <3>5
    <2>2. /\ (S \cup P \cup (R \cup W) \cup T) \cap gone = {}
          /\ (S \cup P \cup (R \cup W) \cup T) \cup gone = 1..n
        <3> DEFINE C == ToSet(c)
                   L == ToSet(l)
        <3>1. /\ (S \cup P \cup C \cup (L \cup T)) \cap gone = {}
              /\ (S \cup P \cup C \cup (L \cup T)) \cup gone = 1..n
            BY <1>1 DEF Flow, Hold
        <3>2. C \cup L = R \cup W
            BY <1>4
        <3> HIDE DEF C, L, S, P, T, R, W
        <3>3. S \cup P \cup C \cup (L \cup T) = S \cup P \cup (R \cup W) \cup T
            BY <3>2
        <3> QED BY <3>1, <3>3
    <2> DEFINE there == S \cup (P \cup (R \cap kept)) \cup W \cup T
    <2> HIDE DEF S, P, T, R, W
    <2>3. there \cap (gone \cup (R \ kept)) = {}
        BY <2>1, <2>2
    <2>4. there \cup (gone \cup (R \ kept)) = 1..n
        BY <2>2
    <2> USE DEF S, T, W
    <2> QED BY <1>8, <2>3, <2>4 DEF Hold
<1> QED BY <1>10, <1>11 DEF Flow, k

\* A link goes on as it is, and what is withheld is lost.
LEMMA FlowLoses ==
    ASSUME NEW s \in Seq(Bytes), NEW p \in Seq(Bytes), NEW c \in Seq(Bytes),
           NEW l \in Seq(Bytes), NEW t \in Seq(Bytes), NEW late, NEW gone, NEW n,
           Flow(s, p, c, l \o t, late, gone, n)
    PROVE  Flow(s, p \o l, <<>>, t, late, gone \cup ToSet(c), n)
<1> DEFINE P == ToSet(p)
           S == ToSet(s)
           C == ToSet(c)
           L == ToSet(l)
           T == ToSet(t)
<1>1. InOrder(l, late) /\ InOrder(t, late) /\ Meets(L, T, late) /\ ToSet(l \o t) = L \cup T
    BY InOrderConcat, ConcatSet DEF Flow, Ordered
<1>2. /\ InOrder(s, late) /\ InOrder(p, late)
      /\ Meets(S, P, late) /\ Meets(S, C, late) /\ Meets(S, L \cup T, late)
      /\ Meets(P, C, late) /\ Meets(P, L \cup T, late) /\ Meets(C, L \cup T, late)
    BY <1>1 DEF Flow, Ordered
<1>3. Meets(P, L, late) /\ Meets(S, P \cup L, late) /\ Meets(S, T, late) /\ Meets(P \cup L, T, late)
    BY <1>1, <1>2 DEF Meets
<1>4. InOrder(p \o l, late) /\ ToSet(p \o l) = P \cup L
    BY <1>1, <1>2, <1>3, InOrderConcat, ConcatSet
<1>5. \A a : Meets(a, {}, late) /\ Meets({}, a, late)
    BY DEF Meets
<1>6. InOrder(<<>>, late) /\ ToSet(<<>>) = {}
    BY NoBytes
<1>7. Ordered(s, p \o l, <<>>, t, late)
    BY <1>1, <1>2, <1>3, <1>4, <1>5, <1>6 DEF Ordered
<1>8. Hold(s, p \o l, <<>>, t, gone \cup C, n)
    <2>1. C \cap S = {} /\ C \cap P = {} /\ C \cap (L \cup T) = {}
        <3>1. S \subseteq Bytes /\ P \subseteq Bytes /\ C \subseteq Bytes
            BY ElementsAre
        <3> HIDE DEF S, P, C, L, T
        <3>2. S \cap C = {}
            BY <1>2, <3>1, Apart
        <3>3. P \cap C = {}
            BY <1>2, <3>1, Apart
        <3>4. C \cap (L \cup T) = {}
            BY <1>2, <3>1, Apart
        <3> QED BY <3>2, <3>3, <3>4
    <2>2. /\ (S \cup P \cup C \cup (L \cup T)) \cap gone = {}
          /\ (S \cup P \cup C \cup (L \cup T)) \cup gone = 1..n
        BY <1>1 DEF Flow, Hold
    <2> DEFINE there == S \cup (P \cup L) \cup {} \cup T
    <2> HIDE DEF S, P, C, L, T
    <2>3. there \cap (gone \cup C) = {}
        BY <2>1, <2>2
    <2>4. there \cup (gone \cup C) = 1..n
        BY <2>2
    <2> USE DEF S, T
    <2> QED BY <1>4, <1>6, <2>3, <2>4 DEF Hold
<1> QED BY <1>7, <1>8 DEF Flow

-------------------------------------------------------------------------------
\* The invariant of the filters

\* The decisions of the header filters, and the length that is announced while
\* they are made and after.
HeaderInv ==
    /\ stage = "headers" => (announced <=> response.length) /\ type = "none" /\ ~stripping
    /\ stage = "strip headers" => (announced <=> response.length /\ type = "none") /\ ~stripping
    /\ stage = "body" => (announced <=> response.length /\ type = "none" /\ ~stripping)
    /\ type # "none" => type = Chosen
    /\ stripping => Strips

\* No byte comes before the header has passed, and without a context of minify
\* nothing is withheld and a chain is passed on as a whole.
StageInv ==
    /\ stage # "body" =>
        /\ chain = <<>> /\ passed = <<>> /\ cache = <<>> /\ sent = <<>>
        /\ received = 0 /\ dropped = {} /\ lost = {} /\ ~ended
    /\ type = "none" => cache = <<>> /\ (chain = <<>> \/ passed = <<>>)

\* Where the bytes are, and in which order.
FlowInv == Flow(sent, Flat(passed), cache, Flat(chain), overtaken, dropped \cup lost, received)

\* The body as it came.
Whole ==
    /\ (sent \o Flat(passed)) \o Flat(chain) = Run(0, received)
    /\ dropped = {} /\ lost = {}

PlainInv == type = "none" /\ ~stripping => Whole

FilterInv == TypeOK /\ HeaderInv /\ StageInv /\ FlowInv /\ PlainInv

\* The header filters decide by the response and the configuration, which stay.
LEMMA DecisionSame ==
    ASSUME levels' = levels, response' = response
    PROVE  Chosen' = Chosen /\ Strips' = Strips
<1>1. Rewritable' = Rewritable
    BY DEF Rewritable
<1>2. \A k \in Kind : Wants(k)' = Wants(k)
    BY <1>1 DEF Wants, Enabled, Types
<1>3. Chosen' = Chosen
    BY <1>2 DEF Chosen, Kind
<1>4. Strips' = Strips
    BY <1>1 DEF Strips, StripEnabled
<1> QED BY <1>3, <1>4

\* The minifier is one that wants the response, if there is any.
LEMMA ChosenFacts ==
    /\ Chosen \in Kind \cup {"none"}
    /\ Chosen # "none" => Chosen \in Kind /\ Wants(Chosen)
BY DEF Chosen, Kind

\* Nothing is the whole of a body of which nothing has come.
LEMMA NothingYet ==
    ASSUME chain = <<>>, passed = <<>>, cache = <<>>, sent = <<>>, received = 0,
           dropped = {}, lost = {}
    PROVE  FlowInv /\ Whole
<1>1. Flat(<<>>) = <<>> /\ ToSet(<<>>) = {} /\ \A late : InOrder(<<>>, late)
    BY FlatFew, NoBytes
<1>2. \A late : Meets({}, {}, late)
    BY DEF Meets
<1>3. 1..0 = {}
    OBVIOUS
<1>4. FlowInv
    BY <1>1, <1>2, <1>3 DEF FlowInv, Flow, Ordered, Hold
<1>5. (<<>> \o <<>>) \o <<>> = Run(0, 0)
    <2>1. \A a : a \in Seq(Nat) => a \o <<>> = a
        BY ConcatEmptySeq
    <2>2. <<>> \in Seq(Nat)
        OBVIOUS
    <2>3. Run(0, 0) = <<>>
        <3>1. 1..(0 - 0) = {}
            OBVIOUS
        <3>2. [i \in {} |-> 0 + i] = <<>>
            OBVIOUS
        <3> QED BY <3>1, <3>2 DEF Run
    <2> QED BY <2>1, <2>2, <2>3
<1> QED BY <1>1, <1>4, <1>5 DEF Whole

\* A response as the handler filled it in.
LEMMA FilterStarts == Init => FilterInv
<1> SUFFICES ASSUME Init PROVE FilterInv
    OBVIOUS
<1>1. /\ levels \in Level \X Level /\ response \in Response
      /\ stage = "headers" /\ type = "none" /\ stripping = FALSE
      /\ announced = response.length /\ received = 0 /\ ended = FALSE
      /\ chain = <<>> /\ passed = <<>> /\ cache = <<>> /\ sent = <<>>
      /\ dropped = {} /\ lost = {} /\ overtaken = {}
    BY DEF Init
<1>2. FlowInv /\ Whole
    BY <1>1, NothingYet
<1>3. TypeOK
    <2>1. levels \in Seq(Level)
        <3>1. levels[1] \in Level /\ levels[2] \in Level /\ levels = <<levels[1], levels[2]>>
            BY <1>1
        <3>2. \A x, y \in Level : <<x, y>> \in Seq(Level)
            OBVIOUS
        <3>3. <<levels[1], levels[2]>> \in Seq(Level)
            BY <3>1, <3>2
        <3> QED BY <3>1, <3>3, Zenon
    <2>2. announced \in BOOLEAN
        BY <1>1, FilterAssumption
    <2>3. chain \in Seq(Link) /\ passed \in Seq(Link) /\ cache \in Seq(Bytes) /\ sent \in Seq(Bytes)
        BY <1>1
    <2>4. received \in 0..MaxBytes
        BY <1>1, FilterAssumption
    <2> QED BY <1>1, <2>1, <2>2, <2>3, <2>4 DEF TypeOK
<1>4. HeaderInv
    BY <1>1 DEF HeaderInv
<1>5. StageInv
    BY <1>1 DEF StageInv
<1> QED BY <1>2, <1>3, <1>4, <1>5 DEF FilterInv, PlainInv

\* The header filters.
LEMMA HeaderStep ==
    ASSUME FilterInv, MinifyHeader \/ StripHeader \/ HeaderFails
    PROVE  FilterInv'
<1>1. /\ levels' = levels /\ response' = response /\ received' = received /\ ended' = ended
      /\ chain' = chain /\ passed' = passed /\ cache' = cache /\ sent' = sent
      /\ dropped' = dropped /\ lost' = lost /\ overtaken' = overtaken
    BY DEF MinifyHeader, StripHeader, HeaderFails, headerVars, bodyVars
<1>2. stage \in {"headers", "strip headers"} /\ stage' \in {"strip headers", "body", "failed"}
    BY DEF MinifyHeader, StripHeader, HeaderFails
<1>3. /\ chain = <<>> /\ passed = <<>> /\ cache = <<>> /\ sent = <<>>
      /\ received = 0 /\ dropped = {} /\ lost = {} /\ ~ended
    BY <1>2 DEF FilterInv, StageInv
<1>4. FlowInv' /\ Whole'
    <2>1. FlowInv /\ Whole
        BY <1>3, NothingYet
    <2> QED BY <1>1, <2>1 DEF FlowInv, Whole, Flat
<1>5. Chosen' = Chosen /\ Strips' = Strips
    BY <1>1, DecisionSame
<1>6. TypeOK /\ HeaderInv
    BY DEF FilterInv
<1>7. /\ type' \in Kind \cup {"none"} /\ stripping' \in BOOLEAN /\ announced' \in BOOLEAN
      /\ HeaderInv'
    <2>1. CASE MinifyHeader
        <3>1. /\ stage = "headers" /\ type' = Chosen /\ announced' = (announced /\ Chosen = "none")
              /\ stage' = "strip headers" /\ stripping' = stripping
            BY <2>1 DEF MinifyHeader
        <3>2. (announced <=> response.length) /\ ~stripping
            BY <1>6, <3>1 DEF HeaderInv
        <3>3. announced' <=> response'.length /\ type' = "none"
            BY <1>1, <3>1, <3>2, Zenon
        <3>4. HeaderInv'
            BY <1>5, <3>1, <3>2, <3>3 DEF HeaderInv
        <3> QED BY <1>6, <3>1, <3>4, ChosenFacts DEF TypeOK
    <2>2. CASE StripHeader
        <3>1. /\ stage = "strip headers" /\ stripping' = Strips
              /\ announced' = (announced /\ ~Strips)
              /\ stage' = "body" /\ type' = type
            BY <2>2 DEF StripHeader
        <3>2. (announced <=> response.length /\ type = "none") /\ (type # "none" => type = Chosen)
            BY <1>6, <3>1 DEF HeaderInv
        <3>3. announced' <=> response'.length /\ type' = "none" /\ ~stripping'
            BY <1>1, <3>1, <3>2, Zenon
        <3>4. stripping' => Strips'
            BY <1>5, <3>1, Zenon
        <3>5. HeaderInv'
            BY <1>5, <3>1, <3>2, <3>3, <3>4 DEF HeaderInv
        <3>6. stripping' \in BOOLEAN
            BY <3>1 DEF Strips
        <3> QED BY <1>6, <3>1, <3>5, <3>6 DEF TypeOK
    <2>3. CASE HeaderFails
        <3>1. stage' = "failed" /\ type' = type /\ stripping' = stripping /\ announced' = announced
            BY <2>3 DEF HeaderFails, headerVars
        <3>2. HeaderInv'
            BY <1>5, <1>6, <3>1 DEF HeaderInv
        <3> QED BY <1>6, <3>1, <3>2 DEF TypeOK
    <2> QED BY <2>1, <2>2, <2>3
<1>8. TypeOK'
    BY <1>1, <1>2, <1>6, <1>7 DEF TypeOK
<1>9. StageInv'
    BY <1>1, <1>3 DEF StageInv
<1> QED BY <1>4, <1>7, <1>8, <1>9 DEF FilterInv, PlainInv

\* A step of the body filters: what is to be shown of it.
LEMMA BodyStep ==
    ASSUME FilterInv, stage = "body", UNCHANGED <<headerVars, stage>>,
           received' \in 0..MaxBytes, ended' \in BOOLEAN,
           chain' \in Seq(Link), passed' \in Seq(Link), cache' \in Seq(Bytes), sent' \in Seq(Bytes),
           overtaken' \subseteq Bytes,
           Flow(sent', Flat(passed'), cache', Flat(chain'), overtaken', dropped' \cup lost', received'),
           type = "none" => cache' = <<>> /\ (chain' = <<>> \/ passed' = <<>>),
           type = "none" /\ ~stripping =>
               /\ (sent' \o Flat(passed')) \o Flat(chain') = Run(0, received')
               /\ dropped' = {} /\ lost' = {}
    PROVE  FilterInv'
<1>1. /\ levels' = levels /\ response' = response /\ type' = type /\ stripping' = stripping
      /\ announced' = announced /\ stage' = "body"
    BY DEF headerVars
<1>2. dropped' \subseteq Bytes /\ lost' \subseteq Bytes
    <2>1. dropped' \cup lost' \subseteq 1..received'
        BY DEF Flow, Hold
    <2>2. 1..received' \subseteq Bytes
        BY FilterAssumption DEF Bytes
    <2> QED BY <2>1, <2>2
<1>3. TypeOK'
    BY <1>1, <1>2 DEF FilterInv, TypeOK
<1>4. HeaderInv'
    <2>1. Chosen' = Chosen /\ Strips' = Strips
        BY <1>1, DecisionSame
    <2>2. HeaderInv
        BY DEF FilterInv
    <2> QED BY <1>1, <2>1, <2>2 DEF HeaderInv
<1>5. StageInv'
    BY <1>1 DEF StageInv
<1>6. FlowInv'
    BY DEF FlowInv, Flat
<1>7. PlainInv'
    BY <1>1 DEF PlainInv, Whole, Flat
<1> QED BY <1>3, <1>4, <1>5, <1>6, <1>7 DEF FilterInv

\* The parts of the invariant the steps need.
LEMMA BodyFacts ==
    ASSUME FilterInv
    PROVE  /\ received \in 0..MaxBytes /\ received \in Nat /\ ended \in BOOLEAN
           /\ chain \in Seq(Link) /\ passed \in Seq(Link) /\ cache \in Seq(Bytes) /\ sent \in Seq(Bytes)
           /\ overtaken \subseteq Bytes
           /\ Flat(passed) \in Seq(Bytes) /\ Flat(chain) \in Seq(Bytes)
           /\ Flow(sent, Flat(passed), cache, Flat(chain), overtaken, dropped \cup lost, received)
           /\ chain # <<>> \/ passed # <<>> => stage = "body"
           /\ type = "none" => cache = <<>> /\ (chain = <<>> \/ passed = <<>>)
           /\ type = "none" /\ ~stripping => Whole
<1>1. /\ received \in 0..MaxBytes /\ ended \in BOOLEAN
      /\ chain \in Seq(Link) /\ passed \in Seq(Link) /\ cache \in Seq(Bytes) /\ sent \in Seq(Bytes)
      /\ overtaken \subseteq Bytes
    BY DEF FilterInv, TypeOK
<1>2. received \in Nat
    BY <1>1, FilterAssumption
<1>3. Flat(passed) \in Seq(Bytes) /\ Flat(chain) \in Seq(Bytes)
    BY <1>1, BytesOfFacts
<1>4. Flow(sent, Flat(passed), cache, Flat(chain), overtaken, dropped \cup lost, received)
    BY DEF FilterInv, FlowInv
<1>5. /\ chain # <<>> \/ passed # <<>> => stage = "body"
      /\ type = "none" => cache = <<>> /\ (chain = <<>> \/ passed = <<>>)
    BY DEF FilterInv, StageInv
<1>6. type = "none" /\ ~stripping => Whole
    BY DEF FilterInv, PlainInv
<1> QED BY <1>1, <1>2, <1>3, <1>4, <1>5, <1>6

\* Nothing behind a sequence, or in front of it.
LEMMA NothingJoined ==
    \A s \in Seq(Bytes) : s \o <<>> = s /\ <<>> \o s = s
BY ConcatEmptySeq

\* A chain arrives.
LEMMA CallStep ==
    ASSUME FilterInv, NEW ends \in Ends, NEW last \in BOOLEAN, Call(ends, last)
    PROVE  FilterInv'
<1> DEFINE r == ends[Len(ends)]
<1>1. /\ stage = "body" /\ chain = <<>> /\ passed = <<>> /\ chain' = Links(ends) /\ received' = r
      /\ ended' = last /\ UNCHANGED <<headerVars, stage>>
      /\ passed' = passed /\ cache' = cache /\ sent' = sent /\ dropped' = dropped
      /\ lost' = lost /\ overtaken' = overtaken
    BY DEF Call
<1>2. /\ received \in 0..MaxBytes /\ received \in Nat
      /\ cache \in Seq(Bytes) /\ sent \in Seq(Bytes) /\ passed \in Seq(Link)
      /\ overtaken \subseteq Bytes
      /\ Flow(sent, Flat(passed), cache, Flat(chain), overtaken, dropped \cup lost, received)
      /\ type = "none" => cache = <<>>
      /\ type = "none" /\ ~stripping => Whole
    BY BodyFacts
<1>3. /\ Links(ends) \in Seq(Link) /\ r \in Nat /\ received <= r /\ r <= MaxBytes
      /\ Flat(Links(ends)) = Run(received, r)
    BY <1>2, LinksFacts
<1> HIDE DEF r
<1>4. Flat(<<>>) = <<>>
    BY FlatFew
<1>5. Flow(sent', Flat(passed'), cache', Flat(chain'), overtaken', dropped' \cup lost', received')
    <2> DEFINE gone == dropped \cup lost
    <2>1. Flow(sent, <<>>, cache, <<>>, overtaken, gone, received)
        BY <1>1, <1>2, <1>4
    <2> HIDE DEF gone
    <2>2. Flow(sent, <<>>, cache, Run(received, r), overtaken, gone, r)
        BY <1>2, <1>3, <2>1, FlowArrives
    <2> QED BY <1>1, <1>3, <1>4, <2>2 DEF gone
<1>6. ASSUME type = "none", ~stripping
      PROVE  /\ (sent' \o Flat(passed')) \o Flat(chain') = Run(0, received')
             /\ dropped' = {} /\ lost' = {}
    <2>1. (sent \o <<>>) \o <<>> = Run(0, received) /\ dropped = {} /\ lost = {}
        BY <1>1, <1>2, <1>4, <1>6 DEF Whole
    <2>2. sent \o <<>> = sent
        BY <1>2, NothingJoined
    <2>3. Run(0, received) \o Run(received, r) = Run(0, r)
        <3>1. 0 \in Nat /\ 0 <= received
            BY <1>2
        <3> QED BY <1>2, <1>3, <3>1, RunsInARow
    <2> QED BY <1>1, <1>3, <1>4, <2>1, <2>2, <2>3
<1>7. received' \in 0..MaxBytes
    BY <1>1, <1>3, FilterAssumption
<1> QED BY <1>1, <1>2, <1>3, <1>5, <1>6, <1>7, BodyStep

\* A chain passes.
LEMMA PassStep == ASSUME FilterInv, PassAll PROVE FilterInv'
<1>1. /\ chain # <<>> /\ type = "none" /\ passed' = chain /\ chain' = <<>>
      /\ UNCHANGED <<headerVars, stage>> /\ received' = received /\ ended' = ended
      /\ cache' = cache /\ sent' = sent /\ dropped' = dropped /\ lost' = lost
      /\ overtaken' = overtaken
    BY DEF PassAll
<1>2. /\ received \in 0..MaxBytes /\ ended \in BOOLEAN /\ stage = "body"
      /\ chain \in Seq(Link) /\ cache \in Seq(Bytes) /\ sent \in Seq(Bytes)
      /\ overtaken \subseteq Bytes /\ Flat(chain) \in Seq(Bytes)
      /\ Flow(sent, Flat(passed), cache, Flat(chain), overtaken, dropped \cup lost, received)
      /\ cache = <<>> /\ passed = <<>>
      /\ ~stripping => Whole
    BY <1>1, BodyFacts
<1>3. Flat(<<>>) = <<>>
    BY FlatFew
<1>4. Flow(sent', Flat(passed'), cache', Flat(chain'), overtaken', dropped' \cup lost', received')
    <2> DEFINE gone == dropped \cup lost
               h == Flat(chain)
    <2>1. Flow(sent, <<>>, <<>>, h, overtaken, gone, received)
        BY <1>2, <1>3
    <2> HIDE DEF gone, h
    <2>2. Flow(sent, h, <<>>, <<>>, overtaken, gone, received)
        BY <2>1, FlowPasses
    <2> QED BY <1>1, <1>2, <1>3, <2>2 DEF gone, h
<1>5. ASSUME ~stripping
      PROVE  /\ (sent' \o Flat(passed')) \o Flat(chain') = Run(0, received')
             /\ dropped' = {} /\ lost' = {}
    <2> DEFINE h == Flat(chain)
    <2>1. (sent \o <<>>) \o h = Run(0, received) /\ dropped = {} /\ lost = {}
        BY <1>2, <1>3, <1>5 DEF Whole
    <2>2. sent \o <<>> = sent
        BY <1>2, NothingJoined
    <2>3. (sent \o h) \o <<>> = sent \o h
        <3>1. sent \o h \in Seq(Bytes)
            <4>1. h \in Seq(Bytes)
                BY <1>2
            <4> HIDE DEF h
            <4> QED BY <1>2, <4>1, ConcatProperties
        <3> HIDE DEF h
        <3> QED BY <3>1, NothingJoined
    <2> QED BY <1>1, <1>3, <2>1, <2>2, <2>3
<1>6. chain' \in Seq(Link) /\ passed' \in Seq(Link)
    BY <1>1, <1>2
<1> QED BY <1>1, <1>2, <1>4, <1>5, <1>6, BodyStep

\* A link is minified.
LEMMA LinkStep ==
    ASSUME FilterInv, NEW kept, NEW n \in 0..received, MinifyLink(kept, n)
    PROVE  FilterInv'
<1> DEFINE link == Head(chain)
           l == link.bytes
           t == Flat(Tail(chain))
           b == cache \o l
           read == SubSeq(b, 1, Len(b) - n)
           rest == SubSeq(b, Len(b) - n + 1, Len(b))
           done == [link EXCEPT !.bytes = Kept(read, kept)]
<1>1. /\ chain # <<>> /\ type # "none" /\ n <= Len(b)
      /\ passed' = Append(passed, done) /\ dropped' = dropped \cup (ToSet(read) \ kept)
      /\ cache' = rest /\ chain' = Tail(chain)
      /\ UNCHANGED <<headerVars, stage>> /\ received' = received /\ ended' = ended
      /\ sent' = sent /\ lost' = lost /\ overtaken' = overtaken
    BY DEF MinifyLink, Prepended
<1>2. /\ received \in 0..MaxBytes /\ received \in Nat /\ ended \in BOOLEAN /\ stage = "body"
      /\ chain \in Seq(Link) /\ passed \in Seq(Link) /\ cache \in Seq(Bytes) /\ sent \in Seq(Bytes)
      /\ overtaken \subseteq Bytes /\ Flat(passed) \in Seq(Bytes)
      /\ Flow(sent, Flat(passed), cache, Flat(chain), overtaken, dropped \cup lost, received)
    BY <1>1, BodyFacts
<1>3. /\ link \in Link /\ Tail(chain) \in Seq(Link) /\ l \in Seq(Bytes) /\ t \in Seq(Bytes)
      /\ Flat(chain) = l \o t
    <2>1. link \in Link /\ Tail(chain) \in Seq(Link) /\ l \in Seq(Bytes) /\ Flat(chain) = l \o t
        BY <1>1, <1>2, FirstLink
    <2>2. t \in Seq(Bytes)
        BY <2>1, BytesOfFacts
    <2> QED BY <2>1, <2>2
<1> HIDE DEF l, t
<1>4. b \in Seq(Bytes)
    BY <1>2, <1>3, ConcatProperties
<1> HIDE DEF b
<1>5. read \in Seq(Bytes) /\ rest \in Seq(Bytes) /\ read \o rest = b
    <2>1. n \in Nat
        BY <1>2
    <2> QED BY <1>1, <1>4, <2>1, SplitEnd
<1> HIDE DEF read, rest
<1>6. Kept(read, kept) \in Seq(Bytes)
    BY <1>5, KeptFacts
<1>7. done \in Link /\ done.bytes = Kept(read, kept)
    BY <1>3, <1>6 DEF Link
<1> HIDE DEF done, link
<1>8. passed' \in Seq(Link) /\ Flat(passed') = Flat(passed) \o Kept(read, kept)
    BY <1>1, <1>2, <1>7, LastLink
<1>9. Flow(sent', Flat(passed'), cache', Flat(chain'), overtaken', dropped' \cup lost', received')
    <2> DEFINE p == Flat(passed)
               gone == dropped \cup lost
    <2>1. p \in Seq(Bytes) /\ Flow(sent, p, cache, l \o t, overtaken, gone, received)
        BY <1>2, <1>3
    <2>2. read \o rest = cache \o l
        BY <1>5 DEF b
    <2> HIDE DEF p, gone
    <2>3. Flow(sent, p \o Kept(read, kept), rest, t, overtaken, gone \cup (ToSet(read) \ kept), received)
        BY <1>2, <1>3, <1>5, <2>1, <2>2, FlowMinifies
    <2>4. dropped' \cup lost' = gone \cup (ToSet(read) \ kept)
        BY <1>1 DEF gone
    <2> QED BY <1>1, <1>8, <2>3, <2>4 DEF p, t
<1> QED BY <1>1, <1>2, <1>3, <1>5, <1>8, <1>9, BodyStep

\* A link without bytes goes on.
LEMMA SpecialStep == ASSUME FilterInv, MinifySpecial PROVE FilterInv'
<1> DEFINE l == Head(chain).bytes
           t == Flat(Tail(chain))
<1>1. /\ chain # <<>> /\ type # "none"
      /\ passed' = Append(passed, Head(chain)) /\ lost' = lost \cup ToSet(cache)
      /\ cache' = <<>> /\ chain' = Tail(chain)
      /\ UNCHANGED <<headerVars, stage>> /\ received' = received /\ ended' = ended
      /\ sent' = sent /\ dropped' = dropped /\ overtaken' = overtaken
    BY DEF MinifySpecial
<1>2. /\ received \in 0..MaxBytes /\ ended \in BOOLEAN /\ stage = "body"
      /\ chain \in Seq(Link) /\ passed \in Seq(Link) /\ cache \in Seq(Bytes) /\ sent \in Seq(Bytes)
      /\ overtaken \subseteq Bytes /\ Flat(passed) \in Seq(Bytes)
      /\ Flow(sent, Flat(passed), cache, Flat(chain), overtaken, dropped \cup lost, received)
    BY <1>1, BodyFacts
<1>3. /\ Head(chain) \in Link /\ Tail(chain) \in Seq(Link) /\ l \in Seq(Bytes) /\ t \in Seq(Bytes)
      /\ Flat(chain) = l \o t
    <2>1. Head(chain) \in Link /\ Tail(chain) \in Seq(Link) /\ l \in Seq(Bytes) /\ Flat(chain) = l \o t
        BY <1>1, <1>2, FirstLink
    <2>2. t \in Seq(Bytes)
        BY <2>1, BytesOfFacts
    <2> QED BY <2>1, <2>2
<1>4. passed' \in Seq(Link) /\ Flat(passed') = Flat(passed) \o l
    BY <1>1, <1>2, <1>3, LastLink
<1> HIDE DEF l, t
<1>5. Flow(sent', Flat(passed'), cache', Flat(chain'), overtaken', dropped' \cup lost', received')
    <2> DEFINE p == Flat(passed)
               gone == dropped \cup lost
    <2>1. p \in Seq(Bytes) /\ Flow(sent, p, cache, l \o t, overtaken, gone, received)
        BY <1>2, <1>3
    <2> HIDE DEF p, gone
    <2>2. Flow(sent, p \o l, <<>>, t, overtaken, gone \cup ToSet(cache), received)
        BY <1>2, <1>3, <2>1, FlowLoses
    <2>3. dropped' \cup lost' = gone \cup ToSet(cache)
        BY <1>1 DEF gone
    <2> QED BY <1>1, <1>4, <2>2, <2>3 DEF p, t
<1>6. cache' \in Seq(Bytes)
    BY <1>1
<1> QED BY <1>1, <1>2, <1>3, <1>4, <1>5, <1>6, BodyStep

\* An allocation fails.
LEMMA FailureStep == ASSUME FilterInv, MinifyFails PROVE FilterInv'
<1>1. /\ chain # <<>> /\ type # "none"
      /\ passed' = passed \o chain /\ chain' = <<>> /\ overtaken' = overtaken \cup ToSet(cache)
      /\ UNCHANGED <<headerVars, stage>> /\ received' = received /\ ended' = ended
      /\ cache' = cache /\ sent' = sent /\ dropped' = dropped /\ lost' = lost
    BY DEF MinifyFails
<1>2. /\ received \in 0..MaxBytes /\ ended \in BOOLEAN /\ stage = "body"
      /\ chain \in Seq(Link) /\ passed \in Seq(Link) /\ cache \in Seq(Bytes) /\ sent \in Seq(Bytes)
      /\ overtaken \subseteq Bytes /\ Flat(passed) \in Seq(Bytes) /\ Flat(chain) \in Seq(Bytes)
      /\ Flow(sent, Flat(passed), cache, Flat(chain), overtaken, dropped \cup lost, received)
    BY <1>1, BodyFacts
<1>3. passed' \in Seq(Link) /\ Flat(passed') = Flat(passed) \o Flat(chain)
    BY <1>1, <1>2, FlatConcat
<1>4. Flat(chain') = <<>> /\ chain' \in Seq(Link)
    BY <1>1, FlatFew
<1>5. Flow(sent', Flat(passed'), cache', Flat(chain'), overtaken', dropped' \cup lost', received')
    <2> DEFINE p == Flat(passed)
               h == Flat(chain)
               gone == dropped \cup lost
    <2>1. /\ p \in Seq(Bytes) /\ h \in Seq(Bytes)
          /\ Flow(sent, p, cache, h, overtaken, gone, received)
        BY <1>2
    <2> HIDE DEF p, h, gone
    <2>2. Flow(sent, p \o h, cache, <<>>, overtaken \cup ToSet(cache), gone, received)
        BY <1>2, <2>1, FlowFails
    <2> QED BY <1>1, <1>3, <1>4, <2>2 DEF p, h, gone
<1>6. overtaken' \subseteq Bytes
    BY <1>1, <1>2, ElementsAre
<1> QED BY <1>1, <1>2, <1>3, <1>4, <1>5, <1>6, BodyStep

\* A chain is delivered.
LEMMA DeliverStep == ASSUME FilterInv, NEW kept, Deliver(kept) PROVE FilterInv'
<1> DEFINE p == Flat(passed)
<1>1. /\ chain = <<>> /\ passed # <<>> /\ (stripping \/ kept = ToSet(p))
      /\ sent' = sent \o Kept(p, kept) /\ dropped' = dropped \cup (ToSet(p) \ kept)
      /\ passed' = <<>> /\ chain' = chain
      /\ UNCHANGED <<headerVars, stage>> /\ received' = received /\ ended' = ended
      /\ cache' = cache /\ lost' = lost /\ overtaken' = overtaken
    BY DEF Deliver
<1>2. /\ received \in 0..MaxBytes /\ ended \in BOOLEAN /\ stage = "body"
      /\ chain \in Seq(Link) /\ cache \in Seq(Bytes) /\ sent \in Seq(Bytes)
      /\ overtaken \subseteq Bytes /\ p \in Seq(Bytes)
      /\ Flow(sent, p, cache, Flat(chain), overtaken, dropped \cup lost, received)
      /\ type = "none" => cache = <<>>
      /\ type = "none" /\ ~stripping => Whole
    BY <1>1, BodyFacts
<1>3. Flat(<<>>) = <<>>
    BY FlatFew
<1>4. Kept(p, kept) \in Seq(Bytes) /\ (ToSet(p) \subseteq kept => Kept(p, kept) = p)
    BY <1>2, KeptFacts
<1>5. sent' \in Seq(Bytes) /\ passed' \in Seq(Link) /\ Flat(passed') = <<>> /\ Flat(chain') = <<>>
    <2>1. sent \o Kept(p, kept) \in Seq(Bytes)
        <3> HIDE DEF p
        <3> QED BY <1>2, <1>4, ConcatProperties
    <2> QED BY <1>1, <1>3, <2>1
<1>6. Flow(sent', Flat(passed'), cache', Flat(chain'), overtaken', dropped' \cup lost', received')
    <2> DEFINE gone == dropped \cup lost
    <2>1. Flow(sent, p, cache, <<>>, overtaken, gone, received)
        BY <1>1, <1>2, <1>3
    <2> HIDE DEF p, gone
    <2>2. Flow(sent \o Kept(p, kept), <<>>, cache, <<>>, overtaken, gone \cup (ToSet(p) \ kept), received)
        BY <1>2, <2>1, FlowDelivers
    <2>3. dropped' \cup lost' = gone \cup (ToSet(p) \ kept)
        BY <1>1 DEF gone
    <2> QED BY <1>1, <1>5, <2>2, <2>3
<1>7. ASSUME type = "none", ~stripping
      PROVE  /\ (sent' \o Flat(passed')) \o Flat(chain') = Run(0, received')
             /\ dropped' = {} /\ lost' = {}
    <2>1. kept = ToSet(p) /\ Kept(p, kept) = p
        BY <1>1, <1>4, <1>7
    <2>2. (sent \o p) \o <<>> = Run(0, received) /\ dropped = {} /\ lost = {}
        BY <1>1, <1>2, <1>3, <1>7 DEF Whole
    <2>3. (sent' \o <<>>) \o <<>> = sent' /\ sent' \o <<>> = sent'
        BY <1>5, NothingJoined
    <2>4. sent' = sent \o p
        BY <1>1, <2>1
    <2> QED BY <1>1, <1>5, <2>1, <2>2, <2>3, <2>4
<1> QED BY <1>1, <1>2, <1>5, <1>6, <1>7, BodyStep

\* A step that changes nothing.
LEMMA FilterStays == ASSUME FilterInv, UNCHANGED vars PROVE FilterInv'
<1>1. UNCHANGED <<levels, response, type, stripping, announced, stage, received, ended, chain,
                  passed, cache, sent, dropped, lost, overtaken>>
    BY DEF vars, headerVars, bodyVars
<1>2. Chosen' = Chosen /\ Strips' = Strips
    BY <1>1, DecisionSame
<1>3. TypeOK'
    BY <1>1 DEF FilterInv, TypeOK
<1>4. HeaderInv'
    BY <1>1, <1>2 DEF FilterInv, HeaderInv
<1>5. StageInv'
    BY <1>1 DEF FilterInv, StageInv
<1>6. FlowInv'
    BY <1>1 DEF FilterInv, FlowInv, Flat
<1>7. PlainInv'
    BY <1>1 DEF FilterInv, PlainInv, Whole, Flat
<1> QED BY <1>3, <1>4, <1>5, <1>6, <1>7 DEF FilterInv

\* Every step of the filters.
LEMMA FilterStep == FilterInv /\ [Next]_vars => FilterInv'
<1> SUFFICES ASSUME FilterInv, [Next]_vars PROVE FilterInv'
    OBVIOUS
<1>1. CASE MinifyHeader \/ StripHeader \/ HeaderFails
    BY <1>1, HeaderStep
<1>2. CASE \E ends \in Ends, last \in BOOLEAN : Call(ends, last)
    BY <1>2, CallStep
<1>3. CASE PassAll
    BY <1>3, PassStep
<1>4. CASE \E kept \in SUBSET (1..received), n \in 0..received : MinifyLink(kept, n)
    BY <1>4, LinkStep
<1>5. CASE MinifySpecial \/ MinifyFails
    BY <1>5, SpecialStep, FailureStep
<1>6. CASE \E kept \in SUBSET (1..received) : Deliver(kept)
    BY <1>6, DeliverStep
<1>7. CASE UNCHANGED vars
    BY <1>7, FilterStays
<1> QED BY <1>1, <1>2, <1>3, <1>4, <1>5, <1>6, <1>7 DEF Next

\* The invariant holds of every response, whatever its configuration and however
\* its body is cut into buffers.
THEOREM FilterInvariance == Spec => []FilterInv
BY FilterStarts, FilterStep, PTL DEF Spec

-------------------------------------------------------------------------------
\* The properties of the filters

\* The variables of the filters have their types.
THEOREM TypeCorrect == Spec => []TypeOK
BY FilterInvariance, PTL DEF FilterInv

\* No byte of a body is doubled and none disappears: it was sent, a filter took
\* it out, it was withheld when a buffer without bytes came, or it is still on its
\* way, whatever the minifiers keep and withhold and whichever allocations fail.
THEOREM BytesAreConserved == Spec => []Conserved
<1>1. FilterInv => Conserved
    <2> SUFFICES ASSUME FilterInv PROVE Conserved
        OBVIOUS
    <2> DEFINE p == Flat(passed)
               h == Flat(chain)
               all == sent \o ((p \o cache) \o h)
    <2>1. /\ p \in Seq(Bytes) /\ h \in Seq(Bytes) /\ cache \in Seq(Bytes) /\ sent \in Seq(Bytes)
          /\ Ordered(sent, p, cache, h, overtaken)
          /\ Hold(sent, p, cache, h, dropped \cup lost, received)
        BY BodyFacts DEF Flow
    <2>2. /\ InOrder(all, overtaken) /\ all \in Seq(Bytes)
          /\ ToSet(all) = ToSet(sent) \cup ToSet(p) \cup ToSet(cache) \cup ToSet(h)
        <3> HIDE DEF p, h
        <3> QED BY <2>1, FourInOrder
    <2>3. /\ ToSet(all) \cap (dropped \cup lost) = {}
          /\ ToSet(all) \cup (dropped \cup lost) = 1..received
        <3> HIDE DEF p, h, all
        <3> QED BY <2>1, <2>2 DEF Hold
    <2> HIDE DEF all
    <2>4. IsInjective(all)
        <3>1. DOMAIN all = 1..Len(all) /\ Len(all) \in Nat
            BY <2>2, LenProperties
        <3>2. \A i \in DOMAIN all : all[i] \in Int
            <4>1. \A i \in 1..Len(all) : all[i] \in Bytes
                BY <2>2, ElementOfSeq
            <4>2. \A x \in Bytes : x \in Int
                BY FilterAssumption DEF Bytes
            <4> QED BY <3>1, <4>1, <4>2
        <3>3. \A i, j \in DOMAIN all : i < j => all[i] # all[j]
            BY <2>2, <3>2 DEF InOrder
        <3>4. \A i, j \in DOMAIN all : i # j => i < j \/ j < i
            BY <3>1
        <3> QED BY <3>3, <3>4 DEF IsInjective
    <2> QED BY <2>3, <2>4 DEF Conserved, InFlight, all
<1> QED BY <1>1, FilterInvariance, PTL

\* The bytes that are sent are in the order they came in, but for those that were
\* withheld when an allocation failed.
THEOREM OnlyWithheldIsLate == Spec => []OnlyWithheldComesLate
<1>1. FilterInv => OnlyWithheldComesLate
    <2> SUFFICES ASSUME FilterInv, NEW i \in DOMAIN sent, NEW j \in DOMAIN sent,
                        i < j, sent[i] > sent[j]
                 PROVE  sent[j] \in overtaken
        BY DEF OnlyWithheldComesLate
    <2>1. sent \in Seq(Bytes) /\ InOrder(sent, overtaken)
        BY BodyFacts DEF Flow, Ordered
    <2>2. sent[i] \in Bytes /\ sent[j] \in Bytes
        BY <2>1, LenProperties, ElementOfSeq
    <2>3. ~(sent[i] < sent[j])
        BY <2>2, FilterAssumption DEF Bytes
    <2> QED BY <2>1, <2>3 DEF InOrder
<1> QED BY <1>1, FilterInvariance, PTL

\* What has been sent of a body nothing changes.
LEMMA WholeFacts ==
    ASSUME FilterInv, type = "none", ~stripping
    PROVE  /\ sent = [i \in DOMAIN sent |-> i] /\ dropped = {} /\ lost = {}
           /\ chain = <<>> /\ passed = <<>> => Len(sent) = received
<1> DEFINE p == Flat(passed)
           h == Flat(chain)
           sp == sent \o p
           n == received
           all == Run(0, n)
<1>1. /\ p \in Seq(Bytes) /\ h \in Seq(Bytes) /\ sent \in Seq(Bytes) /\ n \in Nat
      /\ sp \o h = all /\ dropped = {} /\ lost = {}
    BY BodyFacts DEF Whole
<1>2. Len(all) = n /\ \A i \in 1..n : all[i] = i
    <2>1. 0 \in Nat /\ 0 <= n /\ n - 0 = n
        BY <1>1
    <2>2. Len(Run(0, n)) = n - 0 /\ \A i \in 1..(n - 0) : Run(0, n)[i] = 0 + i
        <3> HIDE DEF n
        <3> QED BY <1>1, <2>1, RunFacts
    <2> QED BY <1>1, <2>1, <2>2
<1> HIDE DEF p, h, all, n
<1>3. /\ sp \in Seq(Bytes) /\ Len(sp) = Len(sent) + Len(p)
      /\ \A i \in 1..(Len(sent) + Len(p)) : sp[i] = IF i <= Len(sent) THEN sent[i] ELSE p[i - Len(sent)]
    BY <1>1, ConcatProperties
<1> HIDE DEF sp
<1>4. /\ Len(sp \o h) = Len(sp) + Len(h)
      /\ \A i \in 1..(Len(sp) + Len(h)) : (sp \o h)[i] = IF i <= Len(sp) THEN sp[i] ELSE h[i - Len(sp)]
    <2>1. sp \in Seq(Bytes) /\ h \in Seq(Bytes)
        BY <1>1, <1>3
    <2> QED BY ONLY <2>1, ConcatProperties
<1>5. Len(sent) \in Nat /\ Len(p) \in Nat /\ Len(h) \in Nat /\ DOMAIN sent = 1..Len(sent)
    BY <1>1, LenProperties
<1>6. ASSUME NEW i \in DOMAIN sent PROVE sent[i] = i
    <2>1. /\ i \in 1..(Len(sent) + Len(p)) /\ i <= Len(sent)
          /\ i \in 1..(Len(sp) + Len(h)) /\ i <= Len(sp) /\ i \in 1..n
        BY <1>1, <1>2, <1>3, <1>4, <1>5
    <2>2. sp[i] = sent[i]
        BY <1>3, <2>1
    <2>3. (sp \o h)[i] = sp[i]
        BY <1>4, <2>1
    <2> QED BY <1>1, <1>2, <2>1, <2>2, <2>3
<1>7. sent = [i \in DOMAIN sent |-> i]
    <2>1. sent = [i \in DOMAIN sent |-> sent[i]]
        BY <1>1, <1>5, LenProperties
    <2> QED BY <1>6, <2>1
<1>8. ASSUME chain = <<>>, passed = <<>> PROVE Len(sent) = received
    <2>1. p = <<>> /\ h = <<>>
        BY <1>8, FlatFew DEF p, h
    <2>2. Len(p) = 0 /\ Len(h) = 0
        BY <2>1
    <2> QED BY <1>1, <1>2, <1>3, <1>4, <1>5, <2>2 DEF n
<1> QED BY <1>1, <1>7, <1>8

\* A response that announces a length has it, and one whose body no filter was to
\* change keeps the announcement.
THEOREM LengthIsHonest == Spec => []LengthHonest
<1>1. FilterInv => LengthHonest
    <2> SUFFICES ASSUME FilterInv, ended, chain = <<>>, passed = <<>>
                 PROVE  /\ announced <=> response.length /\ type = "none" /\ ~stripping
                        /\ announced => Len(sent) = received
        BY DEF LengthHonest
    <2>1. stage = "body"
        BY DEF FilterInv, StageInv
    <2>2. announced <=> response.length /\ type = "none" /\ ~stripping
        BY <2>1 DEF FilterInv, HeaderInv
    <2>3. ASSUME announced PROVE Len(sent) = received
        BY <2>2, <2>3, WholeFacts
    <2> QED BY <2>2, <2>3
<1> QED BY <1>1, FilterInvariance, PTL

\* A body is changed only where the innermost word of the configuration asks for
\* it, and never one that is encoded or that has no type.
THEOREM ChangesAreAskedFor == Spec => []ChangedOnlyIfAsked
<1>1. FilterInv => ChangedOnlyIfAsked
    <2> SUFFICES ASSUME FilterInv, sent # [i \in DOMAIN sent |-> i] \/ dropped # {} \/ lost # {}
                 PROVE  /\ ~response.encoded /\ response.content_type # ""
                        /\ \/ \E k \in Kind : Says(LAMBDA l : l.enable[k]) = "on"
                           \/ Says(LAMBDA l : l.strip) = "on" /\ response.content_type \in TextHtm
        BY DEF ChangedOnlyIfAsked
    <2>1. type # "none" \/ stripping
        BY WholeFacts
    <2>2. CASE type # "none"
        <3>1. type = Chosen
            BY <2>2 DEF FilterInv, HeaderInv
        <3>2. type \in Kind /\ Wants(type)
            BY <2>2, <3>1, ChosenFacts
        <3>3. Rewritable /\ Enabled(type)
            BY <3>2 DEF Wants
        <3>4. Says(LAMBDA l : l.enable[type]) = "on"
            BY <3>3 DEF Says, Enabled, MergeFlag
        <3> QED BY <3>2, <3>3, <3>4 DEF Rewritable
    <2>3. CASE stripping
        <3>1. Strips
            BY <2>3 DEF FilterInv, HeaderInv
        <3>2. Says(LAMBDA l : l.strip) = "on"
            BY <3>1 DEF Strips, StripEnabled, Says, MergeFlag
        <3> QED BY <3>1, <3>2 DEF Strips, Rewritable
    <2> QED BY <2>1, <2>2, <2>3
<1> QED BY <1>1, FilterInvariance, PTL

-------------------------------------------------------------------------------
\* CapCache: the types, the requests and the files

CaptureTypes ==
    /\ at \in [Request -> Place]
    /\ is_cached \in [Request -> BOOLEAN]
    /\ entry \in [Request -> {"none", "unkeyed", "ready"}]
    /\ name \in [Request -> {"none", "null", "set"}]
    /\ made \in [Request -> 0..MaxTemp]
    /\ published \in [Request -> Nat] /\ unregistered \in [Request -> Nat]
    /\ unnamed \subseteq Request

FileTypes == file \subseteq File /\ temp \subseteq File /\ abandoned \subseteq File

\* Where a request is says what its context and its entry say: it is marked
\* only between two calls, and has published at most once since then.
RequestOK(r) ==
    /\ at[r] = "entry" => entry[r] = "none"
    /\ at[r] \in {"entry", "key", "buffer", "create"} => made[r] < MaxTemp
    /\ is_cached[r] => at[r] \in {"idle", "gone"}
    /\ at[r] = "mark" \/ is_cached[r] => published[r] > 0 \/ r \in unnamed
    /\ published[r] <= 1 + unregistered[r]
    /\ published[r] = 1 + unregistered[r] => at[r] \in {"mark", "gone"} \/ is_cached[r]

RequestInv == \A r \in Request : RequestOK(r)

\* A temporary file has a name of its own, and the one a request is about to
\* rename is whole.
TempInv ==
    /\ TempsAccounted
    /\ \A t \in temp : t.n <= made[t.owner]
    /\ \A t, u \in temp : t.owner = u.owner /\ t.n = u.n => t = u
    /\ \A t \in temp : at[t.owner] = "rename" /\ t.n = made[t.owner] => t.whole

FileInv == FileWhole /\ \A f, g \in file : f = g

CaptureInv == CaptureTypes /\ FileTypes /\ RequestInv /\ TempInv /\ FileInv

-------------------------------------------------------------------------------
\* CapCache: one step

\* A server that has served nothing satisfies the invariant.
LEMMA CaptureStarts == CaptureInit => CaptureInv
<1> SUFFICES ASSUME CaptureInit PROVE CaptureInv
    OBVIOUS
<1> USE CapCacheAssumption
<1>1. CaptureTypes
    BY DEF CaptureInit, CaptureTypes, Place
<1>2. FileTypes /\ TempInv /\ FileInv
    BY DEF CaptureInit, FileTypes, TempInv, TempsAccounted, FileInv, FileWhole
<1>3. ASSUME NEW r \in Request PROVE RequestOK(r)
    <2>1. at[r] = "headers" /\ ~is_cached[r] /\ published[r] = 0 /\ unregistered[r] = 0
        BY DEF CaptureInit
    <2> QED BY <2>1 DEF RequestOK
<1> QED BY <1>1, <1>2, <1>3 DEF CaptureInv, RequestInv

\* at is a function from requests to places after every move.
LEMMA GoTyped ==
    ASSUME CaptureTypes, NEW r \in Request, NEW from, NEW to \in Place, Go(r, from, to)
    PROVE  /\ at' \in [Request -> Place]
           /\ at[r] = from /\ at'[r] = to
           /\ \A q \in Request : q # r => at'[q] = at[q]
    BY DEF CaptureTypes, Go

\* A step keeps the types of what is known of the requests.
LEMMA TypesStep == CaptureInv /\ [CaptureNext]_captureVars => CaptureTypes'
<1> SUFFICES ASSUME CaptureInv, [CaptureNext]_captureVars PROVE CaptureTypes'
    OBVIOUS
<1>t. CaptureTypes
    BY DEF CaptureInv
<1>1. at' \in [Request -> Place]
    <2>1. ASSUME NEW r \in Request, NEW from, NEW to \in Place, Go(r, from, to)
          PROVE at' \in [Request -> Place]
        BY <1>t, <2>1, GoTyped
    <2>2. ASSUME NEW r \in Request, Kill(r) PROVE at' \in [Request -> Place]
        BY <2>1, <2>2 DEF Kill, Place
    <2>3. ASSUME NEW r \in Request, HeaderFilter(r) \/ Enter(r) \/ NewEntry(r) \/ CreateKey(r)
          PROVE at' \in [Request -> Place]
        BY <2>1, <2>3 DEF HeaderFilter, Enter, NewEntry, CreateKey, Place
    <2>4. ASSUME NEW r \in Request, FillBuffer(r) \/ CreateTemp(r) \/ WriteTemp(r)
          PROVE at' \in [Request -> Place]
        BY <2>1, <2>4 DEF FillBuffer, CreateTemp, WriteTemp, Place
    <2>5. ASSUME NEW r \in Request, Rename(r) \/ RenameUnkeyed(r) \/ Mark(r) \/ Finish(r)
          PROVE at' \in [Request -> Place]
        BY <2>1, <2>5 DEF Rename, RenameUnkeyed, Mark, Finish, Place
    <2>6. CASE Purge
        BY <1>t, <2>6 DEF Purge, CaptureTypes
    <2>7. CASE UNCHANGED captureVars
        BY <1>t, <2>7 DEF captureVars, CaptureTypes
    <2> QED BY <2>2, <2>3, <2>4, <2>5, <2>6, <2>7 DEF CaptureNext
<1>2. entry' \in [Request -> {"none", "unkeyed", "ready"}]
    <2>1. ASSUME NEW r \in Request, NewEntry(r) \/ CreateKey(r)
          PROVE entry' \in [Request -> {"none", "unkeyed", "ready"}]
        BY <1>t, <2>1 DEF NewEntry, CreateKey, CaptureTypes
    <2>2. CASE UNCHANGED entry
        BY <1>t, <2>2 DEF CaptureTypes
    <2> QED BY <2>1, <2>2 DEF CaptureNext, HeaderFilter, Enter, FillBuffer, CreateTemp, WriteTemp,
               Rename, RenameUnkeyed, Mark, Finish, Kill, Purge, captureVars
<1>3. name' \in [Request -> {"none", "null", "set"}]
    <2>1. ASSUME NEW r \in Request, Rename(r)
          PROVE name' \in [Request -> {"none", "null", "set"}]
        BY <1>t, <2>1 DEF Rename, Named, CaptureTypes
    <2>2. CASE UNCHANGED name
        BY <1>t, <2>2 DEF CaptureTypes
    <2> QED BY <2>1, <2>2 DEF CaptureNext, HeaderFilter, Enter, NewEntry, CreateKey, FillBuffer,
               CreateTemp, WriteTemp, RenameUnkeyed, Mark, Finish, Kill, Purge, captureVars
<1>4. made' \in [Request -> 0..MaxTemp]
    <2>1. ASSUME NEW r \in Request, CreateTemp(r) PROVE made' \in [Request -> 0..MaxTemp]
        <3>1. made[r] \in 0..MaxTemp /\ made[r] < MaxTemp
            BY <1>t, <2>1 DEF CreateTemp, Go, CaptureInv, CaptureTypes, RequestInv, RequestOK
        <3>2. made[r] + 1 \in 0..MaxTemp
            BY <3>1, CapCacheAssumption
        <3> QED BY <1>t, <2>1, <3>2 DEF CreateTemp, CaptureTypes
    <2>2. CASE UNCHANGED made
        BY <1>t, <2>2 DEF CaptureTypes
    <2> QED BY <2>1, <2>2 DEF CaptureNext, HeaderFilter, Enter, NewEntry, CreateKey, FillBuffer,
               WriteTemp, Rename, RenameUnkeyed, Mark, Finish, Kill, Purge, captureVars, disk
<1>5. is_cached' \in [Request -> BOOLEAN]
    <2>1. ASSUME NEW r \in Request, Mark(r) PROVE is_cached' \in [Request -> BOOLEAN]
        BY <1>t, <2>1 DEF Mark, CaptureTypes
    <2>2. CASE UNCHANGED is_cached
        BY <1>t, <2>2 DEF CaptureTypes
    <2> QED BY <2>1, <2>2 DEF CaptureNext, HeaderFilter, Enter, NewEntry, CreateKey, FillBuffer,
               CreateTemp, WriteTemp, Rename, RenameUnkeyed, Finish, Kill, Purge, captureVars
<1>6. published' \in [Request -> Nat]
    <2>1. ASSUME NEW r \in Request, Rename(r) PROVE published' \in [Request -> Nat]
        <3>1. published[r] + 1 \in Nat
            BY <1>t DEF CaptureTypes
        <3>2. published' = published \/ published' = [published EXCEPT ![r] = @ + 1]
            BY <2>1 DEF Rename
        <3> QED BY <1>t, <3>1, <3>2 DEF CaptureTypes
    <2>2. CASE UNCHANGED published
        BY <1>t, <2>2 DEF CaptureTypes
    <2> QED BY <2>1, <2>2 DEF CaptureNext, HeaderFilter, Enter, NewEntry, CreateKey, FillBuffer,
               CreateTemp, WriteTemp, RenameUnkeyed, Mark, Finish, Kill, Purge, captureVars, history
<1>7. unregistered' \in [Request -> Nat]
    <2>1. ASSUME NEW r \in Request, Mark(r) PROVE unregistered' \in [Request -> Nat]
        <3>1. unregistered[r] + 1 \in Nat
            BY <1>t DEF CaptureTypes
        <3>2. \/ unregistered' = unregistered
              \/ unregistered' = [unregistered EXCEPT ![r] = @ + 1]
            BY <2>1 DEF Mark
        <3> QED BY <1>t, <3>1, <3>2 DEF CaptureTypes
    <2>2. CASE UNCHANGED unregistered
        BY <1>t, <2>2 DEF CaptureTypes
    <2> QED BY <2>1, <2>2 DEF CaptureNext, HeaderFilter, Enter, NewEntry, CreateKey, FillBuffer,
               CreateTemp, WriteTemp, Rename, RenameUnkeyed, Finish, Kill, Purge,
               captureVars, history
<1>8. unnamed' \subseteq Request
    <2>1. ASSUME NEW r \in Request, Rename(r) PROVE unnamed' \subseteq Request
        BY <1>t, <2>1 DEF Rename, CaptureTypes
    <2>2. CASE UNCHANGED unnamed
        BY <1>t, <2>2 DEF CaptureTypes
    <2> QED BY <2>1, <2>2 DEF CaptureNext, HeaderFilter, Enter, NewEntry, CreateKey, FillBuffer,
               CreateTemp, WriteTemp, RenameUnkeyed, Mark, Finish, Kill, Purge, captureVars, history
<1> QED BY <1>1, <1>2, <1>3, <1>4, <1>5, <1>6, <1>7, <1>8 DEF CaptureTypes

\* A step keeps the sets of files sets of files.
LEMMA FileTypesStep == CaptureInv /\ [CaptureNext]_captureVars => FileTypes'
<1> SUFFICES ASSUME CaptureInv, [CaptureNext]_captureVars PROVE FileTypes'
    OBVIOUS
<1> USE CapCacheAssumption DEF CaptureInv, FileTypes, history, disk
<1>1. ASSUME NEW r \in Request, CreateTemp(r) PROVE FileTypes'
    <2>1. made'[r] \in 1..MaxTemp \/ made' = made
        BY <1>1 DEF CreateTemp, CaptureTypes, RequestInv, RequestOK, Go
    <2>2. CASE UNCHANGED <<made, temp>>
        BY <1>1, <2>2 DEF CreateTemp
    <2>3. CASE /\ made' = [made EXCEPT ![r] = @ + 1]
               /\ temp' = temp \cup {[owner |-> r, n |-> made'[r], whole |-> FALSE]}
        <3>1. made'[r] \in 1..MaxTemp
            BY <2>1, <2>3 DEF CaptureTypes
        <3>2. [owner |-> r, n |-> made'[r], whole |-> FALSE] \in File
            BY <3>1 DEF File
        <3> QED BY <1>1, <2>3, <3>2 DEF CreateTemp
    <2> QED BY <1>1, <2>2, <2>3 DEF CreateTemp
<1>2. ASSUME NEW r \in Request, WriteTemp(r) PROVE FileTypes'
    <2>1. \A t \in Mine(r) : [t EXCEPT !.whole = TRUE] \in File
        BY DEF Mine, File
    <2> QED BY <1>2, <2>1 DEF WriteTemp, Mine
<1>3. ASSUME NEW r \in Request, Rename(r) PROVE FileTypes'
    BY <1>3 DEF Rename, Mine
<1>4. ASSUME NEW r \in Request, RenameUnkeyed(r) \/ Kill(r) PROVE FileTypes'
    BY <1>4 DEF RenameUnkeyed, Kill, Mine
<1>5. CASE Purge
    BY <1>5 DEF Purge
<1>6. CASE UNCHANGED <<file, temp, abandoned>>
    BY <1>6
<1>7. CASE UNCHANGED captureVars
    BY <1>7 DEF captureVars
<1> QED BY <1>1, <1>2, <1>3, <1>4, <1>5, <1>6, <1>7
        DEF CaptureNext, HeaderFilter, Enter, NewEntry, CreateKey, FillBuffer, Mark, Finish

\* A request that does not move, and whose own data stay, is as it was.
LEMMA OtherRequests ==
    ASSUME RequestInv, NEW q \in Request, at'[q] = at[q], entry'[q] = entry[q],
           made'[q] = made[q], is_cached'[q] = is_cached[q], published'[q] = published[q],
           unregistered'[q] = unregistered[q], unnamed \subseteq unnamed'
    PROVE  RequestOK(q)'
    BY DEF RequestInv, RequestOK

\* A step keeps what is known of a request where it stands.
LEMMA RequestStep == CaptureInv /\ [CaptureNext]_captureVars => RequestInv'
<1> SUFFICES ASSUME CaptureInv, [CaptureNext]_captureVars, NEW q \in Request PROVE RequestOK(q)'
    BY DEF RequestInv
<1>t. CaptureTypes /\ RequestInv /\ RequestOK(q)
    BY DEF CaptureInv, RequestInv
<1>n. made[q] \in 0..MaxTemp /\ published[q] \in Nat /\ unregistered[q] \in Nat
    BY <1>t DEF CaptureTypes
<1>1. ASSUME NEW r \in Request, HeaderFilter(r) \/ Enter(r) PROVE RequestOK(q)'
    <2>1. UNCHANGED <<entry, made, is_cached, published, unregistered, unnamed>>
        BY <1>1 DEF HeaderFilter, Enter, disk, history
    <2>2. CASE q # r
        BY <1>t, <1>1, <2>1, <2>2, OtherRequests DEF HeaderFilter, Enter, Go, CaptureTypes
    <2>3. CASE q = r /\ HeaderFilter(q)
        <3>1. at[q] = "headers" /\ at'[q] \in {"idle", "plain"}
            BY <1>t, <2>3 DEF HeaderFilter, Go, CaptureTypes
        <3> QED BY <1>t, <1>n, <2>1, <3>1 DEF RequestOK
    <2>4. CASE q = r /\ Enter(q)
        <3>1. /\ at[q] = "idle" /\ ~is_cached[q] /\ made[q] < MaxTemp
              /\ at'[q] = (IF entry[q] = "none" THEN "entry" ELSE "buffer")
            BY <1>t, <2>4 DEF Enter, Go, CaptureTypes
        <3> QED BY <1>t, <1>n, <2>1, <3>1 DEF RequestOK
    <2> QED BY <1>1, <2>2, <2>3, <2>4
<1>2. ASSUME NEW r \in Request, NewEntry(r) \/ CreateKey(r) PROVE RequestOK(q)'
    <2>1. UNCHANGED <<made, is_cached, published, unregistered, unnamed>>
        BY <1>2 DEF NewEntry, CreateKey, disk, history
    <2>2. CASE q # r
        <3>1. at'[q] = at[q] /\ entry'[q] = entry[q]
            BY <1>t, <1>2, <2>2 DEF NewEntry, CreateKey, Go, CaptureTypes
        <3> QED BY <1>t, <2>1, <3>1, OtherRequests
    <2>3. CASE q = r
        <3>1. at[q] \in {"entry", "key"} /\ at'[q] \in {"key", "buffer", "idle"}
            BY <1>t, <1>2, <2>3 DEF NewEntry, CreateKey, Go, CaptureTypes
        <3> QED BY <1>t, <1>n, <2>1, <3>1 DEF RequestOK
    <2> QED BY <2>2, <2>3
<1>3. ASSUME NEW r \in Request, FillBuffer(r) \/ WriteTemp(r) PROVE RequestOK(q)'
    <2>1. UNCHANGED <<entry, made, is_cached, published, unregistered, unnamed>>
        BY <1>3 DEF FillBuffer, WriteTemp, disk, history
    <2>2. CASE q # r
        BY <1>t, <1>3, <2>1, <2>2, OtherRequests DEF FillBuffer, WriteTemp, Go, CaptureTypes
    <2>3. CASE q = r
        <3>1. \/ at[q] = "buffer" /\ at'[q] \in {"create", "idle", "gone"}
              \/ at[q] = "write" /\ at'[q] \in {"rename", "idle"}
            BY <1>t, <1>3, <2>3 DEF FillBuffer, WriteTemp, Go, CaptureTypes
        <3> QED BY <1>t, <1>n, <2>1, <3>1 DEF RequestOK
    <2> QED BY <2>2, <2>3
<1>4. ASSUME NEW r \in Request, CreateTemp(r) PROVE RequestOK(q)'
    <2>1. UNCHANGED <<entry, is_cached, published, unregistered, unnamed>>
        BY <1>4 DEF CreateTemp, history
    <2>2. CASE q # r
        <3>1. at'[q] = at[q] /\ made'[q] = made[q]
            BY <1>t, <1>4, <2>2 DEF CreateTemp, Go, CaptureTypes
        <3> QED BY <1>t, <2>1, <3>1, OtherRequests
    <2>3. CASE q = r
        <3>1. at[q] = "create" /\ at'[q] \in {"write", "idle"}
            BY <1>t, <1>4, <2>3 DEF CreateTemp, Go, CaptureTypes
        <3> QED BY <1>t, <1>n, <2>1, <3>1 DEF RequestOK
    <2> QED BY <2>2, <2>3
<1>5. ASSUME NEW r \in Request, Rename(r) PROVE RequestOK(q)'
    <2>1. UNCHANGED <<entry, made, is_cached, unregistered>> /\ unnamed \subseteq unnamed'
        BY <1>5 DEF Rename
    <2>2. CASE q # r
        <3>1. at'[q] = at[q] /\ published'[q] = published[q]
            BY <1>t, <1>5, <2>2 DEF Rename, Go, CaptureTypes
        <3> QED BY <1>t, <2>1, <3>1, OtherRequests
    <2>3. CASE q = r
        <3>1. at[q] = "rename" /\ at'[q] = "mark"
            BY <1>t, <1>5, <2>3 DEF Rename, Go, CaptureTypes
        <3>2. \/ published'[q] = published[q] + 1
              \/ published'[q] = published[q] /\ q \in unnamed'
            BY <1>t, <1>5, <2>3 DEF Rename, CaptureTypes
        <3>3. ~is_cached[q] /\ published[q] < 1 + unregistered[q]
            BY <1>t, <1>n, <3>1 DEF RequestOK
        <3>4. /\ published'[q] > 0 \/ q \in unnamed'
              /\ published'[q] <= 1 + unregistered[q]
            BY <1>n, <3>2, <3>3
        <3> QED BY <1>t, <2>1, <3>1, <3>3, <3>4 DEF RequestOK
    <2> QED BY <2>2, <2>3
<1>6. ASSUME NEW r \in Request, RenameUnkeyed(r) \/ Finish(r) \/ Kill(r)
      PROVE RequestOK(q)'
    <2>1. UNCHANGED <<entry, made, is_cached, published, unregistered, unnamed>>
        BY <1>6 DEF RenameUnkeyed, Finish, Kill, disk, history
    <2>2. CASE q # r
        BY <1>t, <1>6, <2>1, <2>2, OtherRequests DEF RenameUnkeyed, Finish, Kill, Go, CaptureTypes
    <2>3. CASE q = r
        <3>1. at'[q] = "gone"
            BY <1>t, <1>6, <2>3 DEF RenameUnkeyed, Finish, Kill, Go, CaptureTypes
        <3> QED BY <1>t, <1>n, <2>1, <3>1 DEF RequestOK
    <2> QED BY <2>2, <2>3
<1>7. ASSUME NEW r \in Request, Mark(r) PROVE RequestOK(q)'
    <2>1. UNCHANGED <<entry, made, published, unnamed>>
        BY <1>7 DEF Mark, disk
    <2>2. CASE q # r
        <3>1. /\ at'[q] = at[q] /\ is_cached'[q] = is_cached[q]
              /\ unregistered'[q] = unregistered[q]
            BY <1>t, <1>7, <2>2 DEF Mark, Go, CaptureTypes
        <3> QED BY <1>t, <2>1, <3>1, OtherRequests
    <2>3. CASE q = r
        <3>1. at[q] = "mark" /\ at'[q] = "idle"
            BY <1>t, <1>7, <2>3 DEF Mark, Go, CaptureTypes
        <3>2. \/ is_cached'[q] /\ unregistered'[q] = unregistered[q]
              \/ ~is_cached'[q] /\ unregistered'[q] = unregistered[q] + 1
            <4>1. ~is_cached[q]
                BY <1>t, <3>1 DEF RequestOK
            <4> QED BY <1>t, <1>7, <2>3, <4>1 DEF Mark, CaptureTypes
        <3>3. /\ published[q] <= 1 + unregistered'[q]
              /\ published[q] = 1 + unregistered'[q] => is_cached'[q]
            BY <1>t, <1>n, <3>2 DEF RequestOK
        <3> QED BY <1>t, <2>1, <3>1, <3>3 DEF RequestOK
    <2> QED BY <2>2, <2>3
<1>8. CASE Purge
    BY <1>t, <1>8, OtherRequests DEF Purge, history
<1>9. CASE UNCHANGED captureVars
    BY <1>t, <1>9, OtherRequests DEF captureVars, disk, history
<1> QED BY <1>1, <1>2, <1>3, <1>4, <1>5, <1>6, <1>7, <1>8, <1>9 DEF CaptureNext

\* Temporary files of requests that do not move keep their part of TempInv.
TempOK(t) ==
    /\ \/ t.n = made[t.owner] /\ at[t.owner] \in {"write", "rename"}
       \/ t \in abandoned
    /\ t.n <= made[t.owner]
    /\ at[t.owner] = "rename" /\ t.n = made[t.owner] => t.whole

TempNames == \A t, u \in temp : t.owner = u.owner /\ t.n = u.n => t = u

\* The part of the invariant on temporary files, one file at a time.
LEMMA TempParts == TempInv <=> TempNames /\ \A t \in temp : TempOK(t)
    BY DEF TempInv, TempsAccounted, TempNames, TempOK

\* The same of the next state.
LEMMA TempPartsNext ==
    ASSUME TempNames', \A t \in temp' : TempOK(t)'
    PROVE  TempInv'
    BY DEF TempInv, TempsAccounted, TempNames, TempOK

\* A step that makes no temporary file leaves each that stays in its place, if
\* its owner does not move, or moves and abandons what it was working on.
LEMMA TempStays ==
    ASSUME CaptureInv, temp' \subseteq temp, made' = made, abandoned \subseteq abandoned',
           \A t \in temp' : \/ at'[t.owner] = at[t.owner]
                            \/ /\ at[t.owner] \notin {"write", "rename"}
                               /\ at'[t.owner] # "rename"
                            \/ /\ at'[t.owner] # "rename"
                               /\ t.n = made[t.owner] => t \in abandoned'
    PROVE  TempInv'
<1>1. TempNames'
    BY TempParts DEF CaptureInv, TempNames
<1>2. ASSUME NEW t \in temp' PROVE TempOK(t)'
    <2>1. TempOK(t)
        BY TempParts DEF CaptureInv
    <2> QED BY <2>1 DEF TempOK
<1> QED BY <1>1, <1>2, TempPartsNext

\* A step keeps the part on temporary files.
LEMMA TempStep == CaptureInv /\ [CaptureNext]_captureVars => TempInv'
<1> SUFFICES ASSUME CaptureInv, [CaptureNext]_captureVars PROVE TempInv'
    OBVIOUS
<1>t. CaptureTypes /\ FileTypes /\ RequestInv /\ TempNames /\ \A t \in temp : TempOK(t)
    BY TempParts DEF CaptureInv
<1>o. \A t \in temp : t.owner \in Request /\ t.n \in 1..MaxTemp
    BY <1>t DEF FileTypes, File
<1>1. ASSUME NEW r \in Request,
             \/ HeaderFilter(r) \/ Enter(r) \/ NewEntry(r) \/ CreateKey(r) \/ FillBuffer(r)
             \/ Mark(r) \/ Finish(r)
      PROVE TempInv'
    <2>1. UNCHANGED <<temp, made, abandoned>>
        BY <1>1 DEF HeaderFilter, Enter, NewEntry, CreateKey, FillBuffer, Mark, Finish,
                    disk, history
    <2>2. /\ at[r] \notin {"write", "rename"} /\ at'[r] # "rename"
          /\ \A q \in Request : q # r => at'[q] = at[q]
        <3>1. CASE HeaderFilter(r) \/ Finish(r)
            BY <1>t, <3>1 DEF HeaderFilter, Finish, Go, CaptureTypes
        <3>2. CASE Enter(r) \/ NewEntry(r) \/ CreateKey(r)
            BY <1>t, <3>2 DEF Enter, NewEntry, CreateKey, Go, CaptureTypes
        <3>3. CASE FillBuffer(r) \/ Mark(r)
            BY <1>t, <3>3 DEF FillBuffer, Mark, Go, CaptureTypes
        <3> QED BY <1>1, <3>1, <3>2, <3>3
    <2> QED BY <1>o, <2>1, <2>2, TempStays
<1>2. ASSUME NEW r \in Request, CreateTemp(r) PROVE TempInv'
    <2>0. UNCHANGED abandoned
        BY <1>2 DEF CreateTemp, history
    <2>1. at[r] = "create" /\ \A q \in Request : q # r => at'[q] = at[q]
        BY <1>t, <1>2 DEF CreateTemp, Go, CaptureTypes
    <2>2. CASE at'[r] = "idle" /\ UNCHANGED <<made, temp>>
        BY <1>o, <2>0, <2>1, <2>2, TempStays
    <2>3. CASE /\ at'[r] = "write"
               /\ made' = [made EXCEPT ![r] = @ + 1]
               /\ temp' = temp \cup {[owner |-> r, n |-> made'[r], whole |-> FALSE]}
        <3>0. PICK new : new = [owner |-> r, n |-> made'[r], whole |-> FALSE]
            OBVIOUS
        <3>a. temp' = temp \cup {new} /\ new.owner = r /\ new.n = made'[r]
            BY <2>3, <3>0
        <3>1. /\ made[r] \in Nat /\ made'[r] = made[r] + 1
              /\ \A q \in Request : q # r => made'[q] = made[q]
            BY <1>t, <2>3 DEF CaptureTypes
        <3>2. \A t \in temp : t.owner = r => t.n <= made[r]
            BY <1>t DEF TempOK
        <3>3. \A t \in temp : t.owner = r => t.n # made'[r] /\ t.n <= made'[r]
            BY <1>o, <3>1, <3>2
        <3>4. TempNames'
            BY <1>t, <3>a, <3>3 DEF TempNames
        <3>5. ASSUME NEW t \in temp PROVE TempOK(t)'
            <4>1. CASE t.owner = r
                <5>1. t \in abandoned
                    BY <1>t, <2>1, <4>1 DEF TempOK
                <5> QED BY <2>0, <2>3, <3>3, <4>1, <5>1 DEF TempOK
            <4>2. CASE t.owner # r
                BY <1>t, <1>o, <2>0, <2>1, <3>1, <4>2 DEF TempOK
            <4> QED BY <4>1, <4>2
        <3>6. TempOK(new)'
            <4>1. made'[r] <= made'[r]
                BY <3>1
            <4> QED BY <2>3, <3>a, <4>1 DEF TempOK
        <3>7. \A t \in temp' : TempOK(t)'
            BY <3>a, <3>5, <3>6
        <3> QED BY <3>4, <3>7, TempPartsNext
    <2>4. \/ at'[r] = "idle" /\ UNCHANGED <<made, temp>>
          \/ /\ at'[r] = "write"
             /\ made' = [made EXCEPT ![r] = @ + 1]
             /\ temp' = temp \cup {[owner |-> r, n |-> made'[r], whole |-> FALSE]}
        BY <1>t, <1>2 DEF CreateTemp, Go, CaptureTypes
    <2> QED BY <2>2, <2>3, <2>4
<1>3. ASSUME NEW r \in Request, WriteTemp(r) PROVE TempInv'
    <2>1. /\ UNCHANGED made /\ at[r] = "write"
          /\ \A q \in Request : q # r => at'[q] = at[q]
        BY <1>t, <1>3 DEF WriteTemp, Go, CaptureTypes
    <2>2. CASE /\ at'[r] = "idle" /\ abandoned' = abandoned \cup Mine(r) /\ UNCHANGED temp
        BY <1>o, <2>1, <2>2, TempStays DEF Mine
    <2>3. CASE /\ at'[r] = "rename" /\ UNCHANGED abandoned
               /\ temp' = (temp \ Mine(r)) \cup {[t EXCEPT !.whole = TRUE] : t \in Mine(r)}
        <3>1. ASSUME NEW u \in temp'
              PROVE  \/ u \in temp /\ u \notin Mine(r)
                     \/ /\ u.owner = r /\ u.n = made[r] /\ u.whole
                        /\ \E t \in Mine(r) : u = [t EXCEPT !.whole = TRUE]
            BY <1>t, <2>3 DEF Mine, FileTypes, File
        <3>2. TempNames'
            <4> SUFFICES ASSUME NEW u \in temp', NEW v \in temp', u.owner = v.owner, u.n = v.n
                         PROVE  u = v
                BY DEF TempNames
            <4>1. CASE u \in temp /\ u \notin Mine(r)
                BY <1>t, <3>1, <4>1 DEF TempNames, Mine
            <4>2. CASE u \notin temp \/ u \in Mine(r)
                <5>1. PICK t \in Mine(r) : u = [t EXCEPT !.whole = TRUE]
                    BY <3>1, <4>2
                <5>2. u.owner = r /\ u.n = made[r]
                    BY <3>1, <4>2
                <5>3. PICK w \in Mine(r) : v = [w EXCEPT !.whole = TRUE]
                    BY <3>1, <5>2 DEF Mine
                <5>4. t = w
                    BY <1>t DEF TempNames, Mine
                <5> QED BY <5>1, <5>3, <5>4
            <4> QED BY <4>1, <4>2
        <3>3. made[r] \in Nat
            BY <1>t DEF CaptureTypes
        <3>4. ASSUME NEW u \in temp' PROVE TempOK(u)'
            <4>1. CASE u \in temp /\ u \notin Mine(r)
                BY <1>t, <1>o, <2>1, <2>3, <4>1 DEF TempOK, Mine
            <4>2. CASE u.owner = r /\ u.n = made[r] /\ u.whole
                BY <2>1, <2>3, <3>3, <4>2 DEF TempOK
            <4> QED BY <3>1, <4>1, <4>2
        <3> QED BY <3>2, <3>4, TempPartsNext
    <2>4. \/ /\ at'[r] = "idle" /\ abandoned' = abandoned \cup Mine(r) /\ UNCHANGED temp
          \/ /\ at'[r] = "rename" /\ UNCHANGED abandoned
             /\ temp' = (temp \ Mine(r)) \cup {[t EXCEPT !.whole = TRUE] : t \in Mine(r)}
        BY <1>t, <1>3 DEF WriteTemp, Go, CaptureTypes
    <2> QED BY <2>2, <2>3, <2>4
<1>4. ASSUME NEW r \in Request, Rename(r) PROVE TempInv'
    <2>1. /\ UNCHANGED <<made, abandoned>> /\ temp' = temp \ Mine(r)
          /\ at'[r] = "mark" /\ \A q \in Request : q # r => at'[q] = at[q]
        BY <1>t, <1>4 DEF Rename, Go, CaptureTypes
    <2> QED BY <1>o, <2>1, TempStays DEF Mine
<1>5. ASSUME NEW r \in Request, RenameUnkeyed(r) PROVE TempInv'
    <2>1. /\ UNCHANGED <<made, temp>> /\ abandoned' = abandoned \cup Mine(r)
          /\ at'[r] = "gone" /\ \A q \in Request : q # r => at'[q] = at[q]
        BY <1>t, <1>5 DEF RenameUnkeyed, Go, CaptureTypes, disk
    <2> QED BY <1>o, <2>1, TempStays DEF Mine
<1>6. ASSUME NEW r \in Request, Kill(r) PROVE TempInv'
    <2>1. /\ UNCHANGED <<made, temp>> /\ abandoned \subseteq abandoned'
          /\ at[r] \in {"write", "rename"} => abandoned' = abandoned \cup Mine(r)
          /\ at'[r] = "gone" /\ \A q \in Request : q # r => at'[q] = at[q]
        BY <1>t, <1>6 DEF Kill, Go, CaptureTypes, disk
    <2> QED BY <1>o, <2>1, TempStays DEF Mine
<1>7. CASE Purge
    BY <1>7, TempStays DEF Purge, history
<1>8. CASE UNCHANGED captureVars
    BY <1>8, TempStays DEF captureVars, disk, history
<1> QED BY <1>1, <1>2, <1>3, <1>4, <1>5, <1>6, <1>7, <1>8 DEF CaptureNext

\* A step keeps the part on the files in their final place.
LEMMA FileStep == CaptureInv /\ [CaptureNext]_captureVars => FileInv'
<1> SUFFICES ASSUME CaptureInv, [CaptureNext]_captureVars PROVE FileInv'
    OBVIOUS
<1>t. CaptureTypes /\ FileTypes /\ RequestInv /\ TempNames /\ FileInv
    BY TempParts DEF CaptureInv
<1>1. ASSUME NEW r \in Request, Rename(r) PROVE FileInv'
    <2>1. /\ UNCHANGED entry /\ at[r] = "rename" /\ entry[r] = "ready"
          /\ file' = Mine(r) \/ file' = file
        BY <1>t, <1>1 DEF Rename, Go
    <2>2. \A f \in Mine(r) : f.whole /\ f.owner = r
        BY <2>1 DEF Mine, CaptureInv, TempInv
    <2>3. \A f, g \in Mine(r) : f = g
        BY <1>t DEF Mine, TempNames
    <2> QED BY <1>t, <2>1, <2>2, <2>3 DEF FileInv, FileWhole
<1>2. ASSUME NEW r \in Request, NewEntry(r) \/ CreateKey(r) PROVE FileInv'
    <2>1. UNCHANGED file
        BY <1>2 DEF NewEntry, CreateKey, disk
    <2>2. \A q \in Request : entry[q] = "ready" => entry'[q] = "ready"
        <3>1. NewEntry(r) => entry[r] # "ready"
            BY <1>t DEF NewEntry, Go, RequestInv, RequestOK
        <3> QED BY <1>t, <1>2, <3>1 DEF NewEntry, CreateKey, CaptureTypes
    <2>3. \A f \in file : f.owner \in Request
        BY <1>t DEF FileTypes, File
    <2> QED BY <1>t, <2>1, <2>2, <2>3 DEF FileInv, FileWhole
<1>3. CASE UNCHANGED <<file, entry>>
    BY <1>t, <1>3 DEF FileInv, FileWhole
<1>4. CASE Purge
    BY <1>4 DEF Purge, FileInv, FileWhole
<1> QED BY <1>1, <1>2, <1>3, <1>4
        DEF CaptureNext, HeaderFilter, Enter, FillBuffer, CreateTemp, WriteTemp, RenameUnkeyed,
            Mark,
            Finish, Kill, captureVars, disk

-------------------------------------------------------------------------------
\* CapCache: the theorems

\* The invariant holds in every state of the capture cache.
LEMMA CaptureInvariance == CaptureSpec => []CaptureInv
<1>1. CaptureInv /\ [CaptureNext]_captureVars => CaptureInv'
    BY TypesStep, FileTypesStep, RequestStep, TempStep, FileStep DEF CaptureInv
<1> QED BY CaptureStarts, <1>1, PTL DEF CaptureSpec

\* The variables of the capture, of the disk and of the history keep their types.
THEOREM CaptureTypeCorrect == CaptureSpec => []CaptureTypeOK
<1>1. CaptureInv => CaptureTypeOK
    BY DEF CaptureInv, CaptureTypes, FileTypes, FileInv, CaptureTypeOK
<1> QED BY <1>1, CaptureInvariance, PTL

\* What has the name of the key is whole and written with a key, whichever
\* requests were interrupted, refused memory or killed in between.
THEOREM FileIsWhole == CaptureSpec => []FileWhole
<1>1. CaptureInv => FileWhole
    BY DEF CaptureInv, FileInv
<1> QED BY <1>1, CaptureInvariance, PTL

\* A temporary file has somebody working on it, or a failed write or a lost
\* worker to explain it.
THEOREM TempsAreAccounted == CaptureSpec => []TempsAccounted
<1>1. CaptureInv => TempsAccounted
    BY DEF CaptureInv, TempInv
<1> QED BY <1>1, CaptureInvariance, PTL

\* A response puts its page into the cache once for every cleanup that could
\* not be registered, and once more.
THEOREM PublishedAtMostOnce == CaptureSpec => []PublishedOnce
<1>1. CaptureInv => PublishedOnce
    BY DEF CaptureInv, RequestInv, RequestOK, PublishedOnce
<1> QED BY <1>1, CaptureInvariance, PTL

\* is_cached is set for no response whose page was neither put into the cache
\* nor refused by a rename.
THEOREM MarkedWasPublished == CaptureSpec => []MarkedIsPublished
<1>1. CaptureInv => MarkedIsPublished
    BY DEF CaptureInv, RequestInv, RequestOK, MarkedIsPublished
<1> QED BY <1>1, CaptureInvariance, PTL

===============================================================================
