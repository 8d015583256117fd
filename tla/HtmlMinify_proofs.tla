-------------------------- MODULE HtmlMinify_proofs --------------------------
(***************************************************************************)
(* Proofs about HtmlMinify, for every document, every set of bytes and of  *)
(* names to skip, and every way of cutting the document into buffers.      *)
(***************************************************************************)
EXTENDS HtmlMinify, MinifyCtx_proofs

------------------------------------------------------------------------------
(* The tokens                                                              *)

\* Their lengths, and the bytes the proofs ask for.
LEMMA TokenFacts ==
    /\ CommentOpen \in Seq(Byte) /\ Len(CommentOpen) = 4
    /\ CommentOpen[1] = "<" /\ CommentOpen[2] = "!" /\ CommentOpen[3] = "-"
    /\ CommentOpen[4] = "-"
    /\ CdataOpen \in Seq(Byte) /\ Len(CdataOpen) = 9
    /\ CdataOpen[1] = "<" /\ CdataOpen[2] = "!" /\ CdataOpen[3] = "["
    /\ IeClose \in Seq(Byte) /\ Len(IeClose) = 4 /\ IeClose[1] = "]" /\ IeClose[4] = ">"
    /\ CommentClose \in Seq(Byte) /\ Len(CommentClose) = 3 /\ CommentClose[1] = "-"
    /\ CdataClose \in Seq(Byte) /\ Len(CdataClose) = 3 /\ CdataClose[1] = "]"
BY HtmlAssumption DEF CommentOpen, CdataOpen, IeClose, CommentClose, CdataClose

LEMMA IeOpenFacts ==
    /\ IeOpen \in Seq(Byte) /\ Len(IeOpen) = 7
    /\ \A i \in 1..4 : IeOpen[i] = CommentOpen[i]
    /\ IeOpen[5] = "["
    /\ IeOpen = <<"<", "!", "-", "-", "[", "i", "f">>
<1> DEFINE tail == <<"[", "i", "f">>
           whole == <<"<", "!", "-", "-", "[", "i", "f">>
<1>1. /\ tail \in Seq(Byte) /\ Len(tail) = 3
      /\ tail[1] = "[" /\ tail[2] = "i" /\ tail[3] = "f"
  BY HtmlAssumption
<1>2. /\ CommentOpen \in Seq(Byte) /\ Len(CommentOpen) = 4
      /\ CommentOpen[1] = "<" /\ CommentOpen[2] = "!" /\ CommentOpen[3] = "-"
      /\ CommentOpen[4] = "-"
  BY TokenFacts
<1>3. /\ whole \in Seq(Byte) /\ Len(whole) = 7
      /\ whole[1] = "<" /\ whole[2] = "!" /\ whole[3] = "-" /\ whole[4] = "-"
      /\ whole[5] = "[" /\ whole[6] = "i" /\ whole[7] = "f"
  BY HtmlAssumption
<1>4. IeOpen = CommentOpen \o tail
  BY DEF IeOpen
<1> HIDE DEF tail, whole
<1>0. /\ CommentOpen \o tail \in Seq(Byte)
      /\ Len(CommentOpen \o tail) = Len(CommentOpen) + Len(tail)
      /\ \A i \in 1..(Len(CommentOpen) + Len(tail)) : (CommentOpen \o tail)[i] =
            IF i <= Len(CommentOpen) THEN CommentOpen[i] ELSE tail[i - Len(CommentOpen)]
  BY <1>1, <1>2, ConcatProperties
<1>5. /\ CommentOpen \o tail \in Seq(Byte) /\ Len(CommentOpen \o tail) = 7
      /\ \A i \in 1..7 : (CommentOpen \o tail)[i] =
                              IF i <= 4 THEN CommentOpen[i] ELSE tail[i - 4]
  BY <1>0, <1>1, <1>2
<1>6. ASSUME NEW i \in 1..7 PROVE IeOpen[i] = whole[i]
  BY <1>1, <1>2, <1>3, <1>4, <1>5, SMTT(30)
<1>7. IeOpen = whole
  BY <1>3, <1>4, <1>5, <1>6, SeqEqual
<1> QED BY <1>2, <1>3, <1>7 DEF whole

\* A token of a few bytes, read at once or byte for byte.
LEMMA MatchFacts ==
    ASSUME rest \in Seq(Byte), NEW token \in Seq(Byte), token # <<>>
    PROVE  Matches(token) <=> /\ Has(token)
                              /\ \A i \in 1..Len(token) : rest[i] = token[i]
<1>1. Len(token) \in Nat /\ Len(token) >= 1
  BY EmptySeq, LenProperties
<1>2. ASSUME Has(token)
      PROVE  /\ SubSeq(rest, 1, Len(token)) \in Seq(Byte)
             /\ Len(SubSeq(rest, 1, Len(token))) = Len(token)
             /\ \A i \in 1..Len(token) : SubSeq(rest, 1, Len(token))[i] = rest[i]
  BY <1>1, <1>2 DEF Has, Count
<1>3. ASSUME Matches(token), NEW i \in 1..Len(token) PROVE rest[i] = token[i]
  BY <1>2, <1>3 DEF Matches
<1>4. ASSUME Has(token), \A i \in 1..Len(token) : rest[i] = token[i]
      PROVE  SubSeq(rest, 1, Len(token)) = token
  BY <1>2, <1>4, SeqEqual
<1> QED BY <1>3, <1>4 DEF Matches

------------------------------------------------------------------------------
(* The state stack                                                         *)

\* A state has one stack it is on top of.
StackOf(s) ==
    IF s \in {"text", "abort", "skip"} THEN <<s>>
    ELSE IF s \in {"tag", "tag_bang", "cdata"} THEN <<"text", s>>
    ELSE IF s \in InTag THEN <<"text", "tag", s>>
    ELSE <<"text", "tag_bang", s>>

LEMMA ShapeOf == ASSUME StackShape PROVE CtxState \in State /\ stack = StackOf(CtxState)
<1>1. CASE stack \in {<<"text">>, <<"abort">>, <<"skip">>}
  BY <1>1 DEF CtxState, State, StackOf
<1>2. CASE stack \in {<<"text", s>> : s \in {"tag", "tag_bang", "cdata"}}
  BY <1>2 DEF CtxState, State, StackOf
<1>3. CASE stack \in {<<"text", "tag", s>> : s \in InTag}
  BY <1>3, SMTT(30) DEF CtxState, State, StackOf, InTag
<1>4. CASE stack \in {<<"text", "tag_bang", s>> : s \in InComment}
  BY <1>4 DEF CtxState, State, StackOf, InComment, InTag
<1> QED BY <1>1, <1>2, <1>3, <1>4 DEF StackShape

LEMMA ShapeTo ==
    ASSUME NEW s \in State, stack' = StackOf(s)
    PROVE  StackShape' /\ CtxState' = s /\ stack' \in Seq(State)
<1>1. CASE s \in {"text", "abort", "skip"}
  BY <1>1 DEF CtxState, State, StackOf, StackShape
<1>2. CASE s \in {"tag", "tag_bang", "cdata"}
  <2>1. stack' = <<"text", s>>
    BY <1>2 DEF StackOf
  <2>2. Len(stack') = 2 /\ stack'[2] = s /\ stack' \in Seq(State)
    BY <2>1 DEF State
  <2> QED BY <1>2, <2>1, <2>2 DEF CtxState, StackShape
<1>3. CASE s \in InTag
  <2>1. stack' = <<"text", "tag", s>>
    BY <1>3 DEF StackOf, InTag
  <2>2. Len(stack') = 3 /\ stack'[3] = s /\ stack' \in Seq(State)
    BY <2>1 DEF State
  <2> QED BY <1>3, <2>1, <2>2 DEF CtxState, StackShape
<1>4. CASE s \in InComment
  <2>1. stack' = <<"text", "tag_bang", s>>
    BY <1>4 DEF StackOf, InComment, InTag
  <2>2. Len(stack') = 3 /\ stack'[3] = s /\ stack' \in Seq(State)
    BY <2>1 DEF State
  <2> QED BY <1>4, <2>1, <2>2 DEF CtxState, StackShape
<1> QED BY <1>1, <1>2, <1>3, <1>4 DEF State

LEMMA AppendOne ==
    ASSUME NEW a, NEW b, NEW c
    PROVE  Append(<<a>>, b) = <<a, b>> /\ Append(<<a, b>>, c) = <<a, b, c>>
<1> DEFINE S == {a, b, c}
<1>1. /\ <<a>> \in Seq(S) /\ Len(<<a>>) = 1 /\ <<a>>[1] = a
      /\ <<a, b>> \in Seq(S) /\ Len(<<a, b>>) = 2
      /\ <<a, b>>[1] = a /\ <<a, b>>[2] = b
      /\ <<a, b, c>> \in Seq(S) /\ Len(<<a, b, c>>) = 3
      /\ <<a, b, c>>[1] = a /\ <<a, b, c>>[2] = b /\ <<a, b, c>>[3] = c
      /\ b \in S /\ c \in S
  OBVIOUS
<1> HIDE DEF S
<1>2. /\ Append(<<a>>, b) \in Seq(S) /\ Len(Append(<<a>>, b)) = 2
      /\ Append(<<a>>, b)[1] = a /\ Append(<<a>>, b)[2] = b
  BY <1>1, AppendProperties
<1>3. /\ Append(<<a, b>>, c) \in Seq(S) /\ Len(Append(<<a, b>>, c)) = 3
      /\ Append(<<a, b>>, c)[1] = a /\ Append(<<a, b>>, c)[2] = b
      /\ Append(<<a, b>>, c)[3] = c
  BY <1>1, AppendProperties
<1>4. Append(<<a>>, b) = <<a, b>>
  <2>1. \A i \in 1..2 : Append(<<a>>, b)[i] = <<a, b>>[i]
    BY <1>1, <1>2
  <2> QED BY <1>1, <1>2, <2>1, SeqEqual, Zenon
<1>5. Append(<<a, b>>, c) = <<a, b, c>>
  <2>1. \A i \in 1..3 : Append(<<a, b>>, c)[i] = <<a, b, c>>[i]
    BY <1>1, <1>3
  <2> QED BY <1>1, <1>3, <2>1, SeqEqual, Zenon
<1> QED BY <1>4, <1>5

\* Markup opens on the text, its parts on it.
LEMMA PushTo ==
    ASSUME StackShape, NEW s, PushState(s),
           \/ CtxState = "text" /\ s \in {"tag", "tag_bang"}
           \/ CtxState = "tag" /\ s \in {"tagname", "tagname_end"}
           \/ CtxState = "tag_bang" /\ s = "comment"
    PROVE  StackShape' /\ CtxState' = s /\ stack' \in Seq(State)
<1>1. stack = StackOf(CtxState) /\ stack' = Append(stack, s)
  BY ShapeOf DEF PushState
<1>2. s \in State
  BY DEF State, InTag, InComment
<1>3. CASE CtxState = "text"
  <2>1. stack = <<"text">> /\ StackOf(s) = <<"text", s>>
    BY <1>1, <1>3 DEF StackOf
  <2>2. Append(<<"text">>, s) = <<"text", s>>
    BY AppendOne
  <2> QED BY <1>1, <1>2, <2>1, <2>2, ShapeTo
<1>4. CASE CtxState = "tag"
  <2>1. stack = <<"text", "tag">> /\ StackOf(s) = <<"text", "tag", s>>
    BY <1>1, <1>4 DEF StackOf, InTag
  <2>2. Append(<<"text", "tag">>, s) = <<"text", "tag", s>>
    BY AppendOne
  <2> QED BY <1>1, <1>2, <2>1, <2>2, ShapeTo
<1>5. CASE CtxState = "tag_bang"
  <2>1. stack = <<"text", "tag_bang">> /\ StackOf(s) = <<"text", "tag_bang", s>>
    BY <1>1, <1>5 DEF StackOf, InTag
  <2>2. Append(<<"text", "tag_bang">>, s) = <<"text", "tag_bang", s>>
    BY AppendOne
  <2> QED BY <1>1, <1>2, <2>1, <2>2, ShapeTo
<1> QED BY <1>3, <1>4, <1>5

\* One part gives way to another of the same place.
LEMMA ReplaceTo ==
    ASSUME StackShape, NEW s, Replace(s),
           \/ CtxState = "tag_bang" /\ s \in {"tag", "cdata"}
           \/ CtxState = "tagname" /\ s = "tagatt"
           \/ CtxState = "comment" /\ s \in {"comment_ie", "comment_skip"}
    PROVE  StackShape' /\ CtxState' = s /\ stack' \in Seq(State)
<1>1. stack = StackOf(CtxState) /\ stack' = [stack EXCEPT ![Len(stack)] = s]
  BY ShapeOf DEF Replace
<1>2. stack' = StackOf(s) /\ s \in State
  BY <1>1 DEF StackOf, State, InTag, InComment
<1> QED BY <1>2, ShapeTo

\* The stack is cleared.
LEMMA SetTo ==
    ASSUME NEW s \in {"text", "abort", "skip"}, SetState(s)
    PROVE  StackShape' /\ CtxState' = s /\ stack' \in Seq(State)
<1>1. stack' = StackOf(s) /\ s \in State
  BY DEF SetState, StackOf, State
<1> QED BY <1>1, ShapeTo

LEMMA SameStack ==
    ASSUME StackShape, UNCHANGED stack
    PROVE  StackShape' /\ CtxState' = CtxState /\ stack' \in Seq(State)
<1>1. stack' = StackOf(CtxState) /\ CtxState \in State
  BY ShapeOf
<1> QED BY <1>1, ShapeTo

------------------------------------------------------------------------------
(* The inductive invariant                                                 *)

\* Between two buffers nothing is read or written.
Idle == ~busy => rest = <<>> /\ dst = <<>>

\* What the next iteration begins with, in this buffer or in the next one.
Ahead == IF cache = <<>> THEN rest ELSE cache

\* Why LookAhead survives a cut: markup that is not decided is withheld from
\* its "<" on, and in the case it is written in.
Opened ==
    ~headless =>
        /\ CtxState = "tag_bang" => Len(Ahead) > 2 /\ Ahead[1] = "<" /\ Ahead[2] = "!"
        /\ CtxState = "comment" =>
               Len(Ahead) >= 4 /\ \A i \in 1..4 : Ahead[i] = CommentOpen[i]

\* A head is lost in the two states that look for it again, and fewer than
\* three of the bytes in its place are not withheld.
HeadInv ==
    headless =>
        /\ CtxState \in Undecided
        /\ CtxState = "tag_bang" /\ cache # <<>> => Len(cache) > 2

\* Why SkipNamed holds: once it is read, a name that is kept is one of
\* html_skip_tag; and an end tag's name is gathered only to be compared with it.
NamesInv ==
    /\ tagName = <<>> \/ IsSkipTag(tagName) \/ CtxState = "tagname"
    /\ endName = <<>> \/ (CtxState = "tagname_end" /\ tagName # <<>>)
    /\ CtxState = "skip" => IsSkipTag(tagName)

IInv ==
    /\ TypeOK /\ StackShape /\ Idle /\ InPlace
    /\ WithheldToken /\ Opened /\ NamesInv /\ HeadInv /\ SpecialEmpty

------------------------------------------------------------------------------
(* One iteration of the loop                                               *)

\* A head stays lost as long as the state stays.
HeadKept == headless' = (headless /\ stack' = stack)

\* The loop goes on in this buffer, or withholds all that is left of it.
Moved == Here \/ \E m \in 1..Count : Skip(m) \/ Copy(m)
Held == cache' = rest /\ rest' = <<>> /\ UNCHANGED dst

IterationFacts ==
    /\ busy /\ rest # <<>> /\ UNCHANGED <<size, quote, busy, inMemory>>
    /\ Moved \/ Held
    /\ StackShape' /\ stack' \in Seq(State)
    /\ tagName' \in Seq(Byte) \cup {Other} /\ endName' \in Seq(Byte) \cup {Other}
    /\ nochange' \in BOOLEAN
    /\ UpdatePre \/ FollowDst
    /\ WithheldToken' /\ Opened' /\ NamesInv' /\ HeadInv'

\* What the lemmas about one iteration start from.
LEMMA Start ==
    ASSUME IInv, rest # <<>>
    PROVE  /\ Bytes /\ StackShape /\ NamesInv /\ cache = <<>> /\ Ahead = rest
           /\ Count \in Nat /\ Count >= 1 /\ 1 \in 1..Count
           /\ Cur \in Byte /\ Cur = rest[1] /\ rest \in Seq(Byte)
           /\ \A m \in Nat : m >= 1 /\ m <= Count => m \in 1..Count
           /\ tagName \in Seq(Byte) \cup {Other} /\ endName \in Seq(Byte) \cup {Other}
           /\ nochange \in BOOLEAN /\ headless \in BOOLEAN /\ inMemory
<1>1. /\ Bytes /\ tagName \in Seq(Byte) \cup {Other} /\ endName \in Seq(Byte) \cup {Other}
      /\ nochange \in BOOLEAN /\ rest \in Seq(Byte)
      /\ headless \in BOOLEAN /\ inMemory
  BY DEF IInv, TypeOK, CtxTypeOK, Bytes, SpecialEmpty
<1>2. cache = <<>>
  BY DEF IInv, WithheldToken
<1>3. Count \in Nat /\ Count >= 1 /\ Cur \in Byte
  BY <1>1, TailFacts DEF Count, Cur
<1>4. 1 \in 1..Count /\ \A m \in Nat : m >= 1 /\ m <= Count => m \in 1..Count
  BY ONLY <1>3
<1> QED BY <1>1, <1>2, <1>3, <1>4 DEF IInv, Ahead, Cur

\* Two ways to withhold the last bytes of a buffer.
LEMMA IsHeld ==
    ASSUME IInv, rest # <<>>, CacheRpos \/ \E token \in Seq(Byte) : Withhold(token)
    PROVE  Held
<1>1. cache = <<>> /\ rest \in Seq(Byte) /\ Cur = rest[1]
  BY Start
<1>2. CASE CacheRpos
  <2>1. Len(rest) = 1 /\ cache' = Append(<<>>, rest[1]) /\ rest' = Tail(rest)
    BY <1>1, <1>2 DEF CacheRpos, Count
  <2>2. rest = <<rest[1]>>
    BY ONLY <1>1, <2>1
  <2>3. Tail(rest) = <<>>
    BY <1>1, <2>1, TailFacts, EmptySeq
  <2>4. Append(<<>>, rest[1]) = <<rest[1]>>
    OBVIOUS
  <2> QED BY <1>2, <2>1, <2>2, <2>3, <2>4 DEF CacheRpos, Held
<1>3. CASE \E token \in Seq(Byte) : Withhold(token)
  <2>1. <<>> \o rest = rest
    BY <1>1
  <2> QED BY <1>1, <1>3, <2>1 DEF Withhold, Held
<1> QED BY <1>2, <1>3

\* Nothing is withheld while the buffer has more to read.
LEMMA MovedFacts ==
    ASSUME IInv, rest # <<>>, Moved, HeadKept
    PROVE  /\ cache' = <<>> /\ WithheldToken' /\ HeadInv'
           /\ CtxState' \notin {"tag_bang", "comment"} => Opened'
<1>1. cache' = <<>>
  BY Start DEF Moved, Here, Skip, Copy
<1>2. HeadInv'
  <2>1. headless' => headless /\ CtxState' = CtxState
    BY DEF HeadKept, CtxState
  <2> QED BY <1>1, <2>1 DEF IInv, HeadInv
<1> QED BY <1>1, <1>2 DEF WithheldToken, Opened

\* What is withheld is a part of the token its state looks for.
LEMMA HeldFacts ==
    ASSUME IInv, rest # <<>>, Held, UNCHANGED stack, HeadKept,
           CtxState \notin {"abort", "tag", "tagname", "tagname_end"},
           CtxState = "tag_bang" => Count > 2,
           NEW token \in Awaited, Count < Len(token),
           \A i \in 1..Count : Lower[rest[i]] = Lower[token[i]]
    PROVE  WithheldToken' /\ Opened' /\ HeadInv'
<1>1. CtxState' = CtxState
  BY DEF CtxState
<1>2. Awaited' = Awaited
  BY <1>1 DEF Awaited
<1>3. WithheldToken'
  BY <1>1, <1>2 DEF WithheldToken, Held, Count
<1>4. Ahead' = Ahead
  BY Start DEF Ahead, Held
<1>5. headless' = headless
  BY Start DEF HeadKept
<1>6. Opened'
  BY <1>1, <1>4, <1>5 DEF IInv, Opened
<1>7. HeadInv'
  BY <1>1, <1>5 DEF IInv, HeadInv, Held, Count
<1> QED BY <1>3, <1>6, <1>7

\* Outside the names of tags nothing is said of them that the state could change.
LEMMA SameNames ==
    ASSUME NamesInv, UNCHANGED names,
           \/ CtxState' = CtxState
           \/ CtxState \notin {"tagname", "tagname_end"} /\ CtxState' # "skip"
    PROVE  NamesInv'
BY DEF NamesInv, names, IsSkipTag, Lowered

\* An iteration outside the names of tags, which goes on or withholds.
Plain ==
    /\ busy /\ rest # <<>> /\ UNCHANGED <<size, quote, busy, inMemory, names>>
    /\ UpdatePre /\ nochange' \in BOOLEAN /\ HeadKept
    /\ CtxState \notin {"tagname", "tagname_end"}

LEMMA PlainMove ==
    ASSUME IInv, Plain, Moved, StackShape', stack' \in Seq(State),
           CtxState' \in {"tag_bang", "comment"} => Opened',
           CtxState' = "skip" => CtxState = "skip"
    PROVE  IterationFacts
<1>1. NamesInv' /\ tagName' = tagName /\ endName' = endName
  BY Start, SameNames DEF Plain, names
<1>2. WithheldToken' /\ Opened' /\ HeadInv'
  BY MovedFacts DEF Plain
<1> QED BY <1>1, <1>2, Start DEF Plain, IterationFacts

LEMMA PlainHold ==
    ASSUME IInv, Plain, UNCHANGED stack, CtxState \notin {"abort", "tag"},
           CtxState = "tag_bang" => Count > 2,
           CacheRpos \/ \E t \in Seq(Byte) : Withhold(t),
           NEW token \in Awaited, Count < Len(token),
           \A i \in 1..Count : Lower[rest[i]] = Lower[token[i]]
    PROVE  IterationFacts
<1>1. NamesInv' /\ tagName' = tagName /\ endName' = endName
  BY Start, SameNames, SameStack DEF Plain, names
<1>2. Held
  BY IsHeld DEF Plain
<1>3. WithheldToken' /\ Opened' /\ HeadInv'
  BY <1>2, HeldFacts DEF Plain
<1>4. StackShape' /\ stack' \in Seq(State)
  BY Start, SameStack DEF Plain
<1> QED BY <1>1, <1>2, <1>3, <1>4, Start DEF Plain, IterationFacts

\* A token that does not fit into the buffer, withheld by the state that
\* looks for it.
LEMMA PlainWait ==
    ASSUME IInv, Plain, UNCHANGED stack, CtxState \notin {"abort", "tag"},
           CtxState = "tag_bang" => Count > 2,
           NEW token \in Awaited, token \in Seq(Byte), ~Has(token), Withhold(token)
    PROVE  IterationFacts
<1>1. Count < Len(token)
  BY Start, LenProperties DEF Has, Plain
<1> QED BY <1>1, PlainHold DEF Withhold, Begins

\* An iteration in the text.
LEMMA TextFacts == ASSUME IInv, HeadKept, StripText PROVE IterationFacts
<1>1. Plain /\ CtxState = "text" /\ rest # <<>>
  BY DEF StripText, Iterate, Plain
<1>2. /\ StackShape /\ Count \in Nat /\ Count >= 1 /\ 1 \in 1..Count /\ cache = <<>>
      /\ Cur = rest[1] /\ Ahead = rest /\ Count = Len(rest)
  BY <1>1, Start DEF Count
<1>3. CASE rest[2] # "!" /\ Copy(1) /\ PushState("tag")
  BY <1>1, <1>2, <1>3, PushTo, PlainMove DEF Moved
<1>4. CASE Cur = "<" /\ Count > 2 /\ rest[2] = "!" /\ Here /\ PushState("tag_bang")
  <2>1. StackShape' /\ CtxState' = "tag_bang" /\ stack' \in Seq(State)
    BY <1>1, <1>2, <1>4, PushTo
  <2>2. Ahead' = rest
    BY <1>2, <1>4 DEF Here, Ahead
  <2>3. Opened'
    BY <1>2, <1>4, <2>1, <2>2 DEF Opened
  <2> QED BY <1>1, <1>4, <2>1, <2>3, PlainMove DEF Moved
<1>5. CASE Count <= 2 /\ Withhold(<<"<", "!">>) /\ UNCHANGED stack
  <2>1. /\ <<"<", "!">> \in Seq(Byte)
        /\ Len(<<"<", "!", "-">>) = 3
        /\ \A i \in 1..2 : <<"<", "!", "-">>[i] = <<"<", "!">>[i]
    BY HtmlAssumption
  <2>2. <<"<", "!", "-">> \in Awaited
    BY <1>1 DEF Awaited
  <2>3. \A i \in 1..Count : i \in 1..2 /\ Lower[rest[i]] = Lower[<<"<", "!">>[i]]
    BY <1>2, <1>5 DEF Withhold, Begins
  <2>4. Count < 3
    BY <1>2, <1>5
  <2> HIDE DEF Count
  <2>5. \A i \in 1..Count : Lower[rest[i]] = Lower[<<"<", "!", "-">>[i]]
    BY <2>1, <2>3
  <2>6. Count < Len(<<"<", "!", "-">>)
    BY <2>1, <2>4
  <2>7. \E t \in Seq(Byte) : Withhold(t)
    BY <1>5, <2>1
  <2> QED BY <1>1, <1>5, <2>2, <2>5, <2>6, <2>7, PlainHold
<1>6. CASE (Skip(1) \/ Copy(1)) /\ UNCHANGED stack
  <2>1. StackShape' /\ CtxState' = "text" /\ stack' \in Seq(State)
    BY <1>1, <1>2, <1>6, SameStack
  <2>2. Moved
    BY <1>2, <1>6 DEF Moved
  <2> QED BY <1>1, <2>1, <2>2, PlainMove
<1> QED BY <1>3, <1>4, <1>5, <1>6 DEF StripText, TextLess, TextBlank, TextOther

\* An iteration inside pre, script or style.
LEMMA SkipFacts == ASSUME IInv, HeadKept, StripSkip PROVE IterationFacts
<1>1. Plain /\ CtxState = "skip" /\ rest # <<>>
  BY Start DEF StripSkip, Iterate, Plain
<1>2. /\ StackShape /\ Count \in Nat /\ Count >= 1 /\ 1 \in 1..Count /\ cache = <<>>
      /\ Cur = rest[1]
  BY <1>1, Start
<1>3. CASE Here /\ SetState("text")
  BY <1>1, <1>3, SetTo, PlainMove DEF Moved
<1>4. CASE ((Count >= 2 /\ Copy(2)) \/ Copy(1)) /\ UNCHANGED stack
  <2>1. Moved
    BY <1>2, <1>4 DEF Moved
  <2> QED BY <1>1, <1>2, <1>4, <2>1, SameStack, PlainMove
<1>5. CASE Cur = "<" /\ CacheRpos /\ UNCHANGED stack
  <2>1. Len(<<"<", "/">>) = 2 /\ <<"<", "/">>[1] = "<" /\ <<"<", "/">> \in Awaited
    BY <1>1 DEF Awaited
  <2>2. Count < Len(<<"<", "/">>) /\ \A i \in 1..Count : i = 1
    BY <1>5, <2>1 DEF CacheRpos
  <2>3. \A i \in 1..Count : Lower[rest[i]] = Lower[<<"<", "/">>[i]]
    BY <1>2, <1>5, <2>1, <2>2
  <2> QED BY <1>1, <1>5, <2>1, <2>2, <2>3, PlainHold
<1> QED BY <1>3, <1>4, <1>5 DEF StripSkip

\* An iteration behind markup the minifier gave up on.
LEMMA AbortFacts == ASSUME IInv, HeadKept, StripAbort PROVE IterationFacts
<1>1. Plain /\ CtxState = "abort" /\ rest # <<>> /\ Copy(1) /\ UNCHANGED stack
  BY Start DEF StripAbort, Iterate, Plain
<1>2. StackShape /\ 1 \in 1..Count
  BY <1>1, Start
<1> QED BY <1>1, <1>2, SameStack, PlainMove DEF Moved

\* An iteration in front of a tag's name.
LEMMA TagFacts == ASSUME IInv, HeadKept, StripTag PROVE IterationFacts
<1>1. /\ CtxState = "tag" /\ busy /\ rest # <<>>
      /\ UNCHANGED <<size, quote, busy, inMemory>>
      /\ UpdatePre /\ nochange' = nochange
  BY DEF StripTag, Iterate
<1>2. /\ StackShape /\ NamesInv /\ 1 \in 1..Count /\ nochange' \in BOOLEAN
  BY <1>1, Start
<1>3. CASE Skip(1) /\ UNCHANGED <<stack, names>>
  <2>1. Plain
    BY <1>1, <1>2, <1>3 DEF Plain
  <2> QED BY <1>1, <1>2, <1>3, <2>1, SameStack, PlainMove DEF Moved
<1>4. CASE Copy(1) /\ PushState("tagname_end") /\ UNCHANGED names
  <2>1. Plain
    BY <1>1, <1>2, <1>4 DEF Plain
  <2> QED BY <1>1, <1>2, <1>4, <2>1, PushTo, PlainMove DEF Moved
<1>5. CASE Here /\ PushState("tagname") /\ tagName' = <<>> /\ endName' = <<>>
  <2>1. StackShape' /\ CtxState' = "tagname" /\ stack' \in Seq(State)
    BY <1>1, <1>2, <1>5, PushTo
  <2>2. Moved /\ WithheldToken' /\ Opened' /\ HeadInv'
    BY <1>1, <1>5, <2>1, MovedFacts DEF Moved
  <2>3. NamesInv' /\ <<>> \in Seq(Byte)
    BY <1>5, <2>1 DEF NamesInv
  <2> QED BY <1>1, <1>2, <1>5, <2>1, <2>2, <2>3 DEF IterationFacts
<1> QED BY <1>3, <1>4, <1>5 DEF StripTag

\* An iteration at "<!": what was seen of it is still there, or lost.
LEMMA BangFacts == ASSUME IInv, HeadKept, StripTagBang PROVE IterationFacts
<1>1. CtxState = "tag_bang" /\ rest # <<>>
  BY DEF StripTagBang, Iterate
<1>2. /\ StackShape /\ nochange \in BOOLEAN /\ cache = <<>> /\ Ahead = rest
      /\ Count \in Nat /\ rest \in Seq(Byte)
      /\ \A m \in Nat : m >= 1 /\ m <= Count => m \in 1..Count
  BY <1>1, Start
<1>3. 1 \in 1..Count
  BY <1>1, Start
<1>4. Plain
  <2>1. nochange' \in BOOLEAN
    BY <1>2 DEF StripTagBang, BangShort, BangTag, BangComment, BangCdata
  <2> QED BY <1>1, <2>1 DEF StripTagBang, Iterate, Plain
<1>5. CommentOpen \in Awaited /\ CdataOpen \in Awaited
  BY <1>1 DEF Awaited
<1>6. CASE Count > 2 /\ (Copy(2) \/ Copy(3)) /\ Replace("tag")
  <2>1. Moved
    BY <1>2, <1>6 DEF Moved
  <2> QED BY <1>1, <1>2, <1>4, <1>6, <2>1, ReplaceTo, PlainMove
<1>7. CASE Matches(CommentOpen) /\ Here /\ PushState("comment")
  <2>1. StackShape' /\ CtxState' = "comment" /\ stack' \in Seq(State)
    BY <1>1, <1>2, <1>7, PushTo
  <2>2. Count >= 4 /\ \A i \in 1..4 : rest[i] = CommentOpen[i]
    <3>1. CommentOpen # <<>> /\ CommentOpen \in Seq(Byte) /\ Len(CommentOpen) = 4
      BY TokenFacts, EmptySeq
    <3> QED BY <1>2, <1>7, <3>1, MatchFacts DEF Has
  <2>3. Ahead' = rest
    BY <1>2, <1>7 DEF Here, Ahead
  <2>4. Opened'
    BY <2>1, <2>2, <2>3 DEF Opened, Count
  <2> QED BY <1>1, <1>4, <1>7, <2>1, <2>4, PlainMove DEF Moved
<1>8. CASE Count > 2 /\ ~Has(CommentOpen) /\ Withhold(CommentOpen) /\ UNCHANGED stack
  BY <1>1, <1>4, <1>5, <1>8, TokenFacts, PlainWait
<1>9. CASE Has(CdataOpen) /\ Copy(9) /\ (Replace("cdata") \/ SetState("text"))
  <2>1. Moved
    BY <1>2, <1>9, TokenFacts DEF Moved, Has
  <2>2. /\ StackShape' /\ stack' \in Seq(State)
        /\ CtxState' \notin {"tag_bang", "comment", "skip"}
    BY <1>1, <1>2, <1>9, ReplaceTo, SetTo
  <2> QED BY <1>4, <2>1, <2>2, PlainMove
<1>10. CASE Count > 2 /\ ~Has(CdataOpen) /\ Withhold(CdataOpen) /\ UNCHANGED stack
  BY <1>1, <1>4, <1>5, <1>10, TokenFacts, PlainWait
<1>11. CASE (Here /\ SetState("abort")) \/ (Copy(1) /\ SetState("text"))
  BY <1>3, <1>4, <1>11, SetTo, PlainMove DEF Moved
<1>12. CASE BangShort
  BY <1>11, <1>12 DEF BangShort
<1>13. CASE Count > 2 /\ BangTag
  BY <1>6, <1>13 DEF BangTag
<1>14. CASE Count > 2 /\ BangComment
  BY <1>7, <1>8, <1>11, <1>14 DEF BangComment
<1>15. CASE Count > 2 /\ BangCdata
  BY <1>9, <1>10, <1>11, <1>15 DEF BangCdata, Matches, Differs
<1> QED BY <1>12, <1>13, <1>14, <1>15 DEF StripTagBang

\* An iteration inside a CDATA section.
LEMMA CdataFacts == ASSUME IInv, HeadKept, StripCdata PROVE IterationFacts
<1>1. Plain /\ CtxState = "cdata" /\ rest # <<>>
  BY Start DEF StripCdata, Iterate, Plain
<1>2. /\ StackShape /\ Count \in Nat /\ 1 \in 1..Count
      /\ \A m \in Nat : m >= 1 /\ m <= Count => m \in 1..Count
  BY <1>1, Start
<1>3. CASE Has(CdataClose) /\ Copy(3) /\ (SetState("text") \/ UNCHANGED stack)
  <2>1. Moved
    BY <1>2, <1>3, TokenFacts DEF Moved, Has
  <2>2. /\ StackShape' /\ stack' \in Seq(State)
        /\ CtxState' \notin {"tag_bang", "comment", "skip"}
    BY <1>1, <1>2, <1>3, SameStack, SetTo
  <2> QED BY <1>1, <2>1, <2>2, PlainMove
<1>4. CASE ~Has(CdataClose) /\ Withhold(CdataClose) /\ UNCHANGED stack
  <2>1. CdataClose \in Awaited
    BY <1>1 DEF Awaited
  <2> QED BY <1>1, <1>4, <2>1, TokenFacts, PlainWait
<1>5. CASE Copy(1) /\ UNCHANGED stack
  BY <1>1, <1>2, <1>5, SameStack, PlainMove DEF Moved
<1> QED BY <1>3, <1>4, <1>5 DEF StripCdata, Matches, Differs

\* Nothing is left behind the last byte.
LEMMA SkipAll ==
    ASSUME NEW S, NEW s \in Seq(S) PROVE SubSeq(s, Len(s) + 1, Len(s)) = <<>>
OBVIOUS

\* An iteration at "<!--", or at what a mark left of it.
LEMMA CommentFacts == ASSUME IInv, HeadKept, StripComment PROVE IterationFacts
<1>1. Plain /\ CtxState = "comment" /\ rest # <<>>
  BY Start DEF StripComment, Iterate, Plain
<1>2. /\ StackShape /\ Count \in Nat /\ 1 \in 1..Count /\ rest \in Seq(Byte)
      /\ cache = <<>> /\ Ahead = rest
      /\ \A m \in Nat : m >= 1 /\ m <= Count => m \in 1..Count
  BY <1>1, Start
<1>3. IeOpen \in Awaited /\ IeOpen \in Seq(Byte) /\ Len(IeOpen) = 7
  BY <1>1, IeOpenFacts DEF Awaited
<1>4. CASE Count = 4 /\ Withhold(CommentOpen) /\ UNCHANGED stack
  <2>1. \A i \in 1..4 : Lower[rest[i]] = Lower[CommentOpen[i]]
    BY <1>4 DEF Withhold, Begins
  <2>2. Count < Len(IeOpen) /\ \A i \in 1..Count : Lower[rest[i]] = Lower[IeOpen[i]]
    BY <1>3, <1>4, <2>1, IeOpenFacts
  <2> QED BY <1>1, <1>3, <1>4, <2>2, TokenFacts, PlainHold
<1>5. CASE Count >= 4 /\ Skip(4) /\ Replace("comment_skip")
  <2>1. Moved
    BY <1>2, <1>5 DEF Moved
  <2> QED BY <1>1, <1>2, <1>5, <2>1, ReplaceTo, PlainMove
<1>6. CASE Here /\ Replace("comment_ie")
  BY <1>1, <1>2, <1>6, ReplaceTo, PlainMove DEF Moved
<1>7. CASE ~Has(IeOpen) /\ Withhold(IeOpen) /\ UNCHANGED stack
  BY <1>1, <1>3, <1>7, PlainWait
<1>8. CASE Here /\ UNCHANGED stack
  <2>1. Opened'
    <3>1. Ahead' = Ahead /\ CtxState' = CtxState
      BY <1>2, <1>8 DEF Here, Ahead, CtxState
    <3> QED BY <1>8, <3>1 DEF IInv, Opened, HeadKept
  <2> QED BY <1>1, <1>2, <1>8, <2>1, SameStack, PlainMove DEF Moved
<1>9. CASE rest' = <<>> /\ UNCHANGED <<dst, cache>> /\ Replace("comment_skip")
  <2>1. Skip(Count)
    BY <1>2, <1>9, SkipAll DEF Skip, Count
  <2>2. Moved
    BY <1>2, <2>1 DEF Moved
  <2> QED BY <1>1, <1>2, <1>9, <2>2, ReplaceTo, PlainMove
<1>10. CASE CommentShort
  BY <1>2, <1>3, <1>7, <1>9, <1>10 DEF CommentShort, Has
<1>11. CASE CommentHead
  BY <1>2, <1>4, <1>5, <1>6, <1>7, <1>8, <1>11 DEF CommentHead
<1> QED BY <1>10, <1>11 DEF StripComment

\* An iteration inside a comment that is kept.
LEMMA CommentIeFacts == ASSUME IInv, HeadKept, StripCommentIe PROVE IterationFacts
<1>1. Plain /\ CtxState = "comment_ie" /\ rest # <<>>
  BY Start DEF StripCommentIe, Iterate, Plain
<1>2. /\ StackShape /\ Count \in Nat /\ 1 \in 1..Count
      /\ \A m \in Nat : m >= 1 /\ m <= Count => m \in 1..Count
  BY <1>1, Start
<1>3. CASE Has(IeClose) /\ Copy(4) /\ (SetState("text") \/ UNCHANGED stack)
  <2>1. Moved
    BY <1>2, <1>3, TokenFacts DEF Moved, Has
  <2>2. /\ StackShape' /\ stack' \in Seq(State)
        /\ CtxState' \notin {"tag_bang", "comment", "skip"}
    BY <1>1, <1>2, <1>3, SameStack, SetTo
  <2> QED BY <1>1, <2>1, <2>2, PlainMove
<1>4. CASE ~Has(IeClose) /\ Withhold(IeClose) /\ UNCHANGED stack
  <2>1. IeClose \in Awaited
    BY <1>1 DEF Awaited
  <2> QED BY <1>1, <1>4, <2>1, TokenFacts, PlainWait
<1>5. CASE (Skip(1) \/ Copy(1)) /\ UNCHANGED stack
  <2>1. Moved
    BY <1>2, <1>5 DEF Moved
  <2> QED BY <1>1, <1>2, <1>5, <2>1, SameStack, PlainMove
<1> QED BY <1>3, <1>4, <1>5 DEF StripCommentIe, Matches, Differs

\* An iteration inside a comment that is dropped.
LEMMA CommentSkipFacts == ASSUME IInv, HeadKept, StripCommentSkip PROVE IterationFacts
<1>1. Plain /\ CtxState = "comment_skip" /\ rest # <<>>
  BY Start DEF StripCommentSkip, Iterate, Plain
<1>2. /\ StackShape /\ Count \in Nat /\ 1 \in 1..Count
      /\ \A m \in Nat : m >= 1 /\ m <= Count => m \in 1..Count
  BY <1>1, Start
<1>3. CASE Has(CommentClose) /\ Skip(3) /\ (SetState("text") \/ UNCHANGED stack)
  <2>1. Moved
    BY <1>2, <1>3, TokenFacts DEF Moved, Has
  <2>2. /\ StackShape' /\ stack' \in Seq(State)
        /\ CtxState' \notin {"tag_bang", "comment", "skip"}
    BY <1>1, <1>2, <1>3, SameStack, SetTo
  <2> QED BY <1>1, <2>1, <2>2, PlainMove
<1>4. CASE ~Has(CommentClose) /\ Withhold(CommentClose) /\ UNCHANGED stack
  <2>1. CommentClose \in Awaited
    BY <1>1 DEF Awaited
  <2> QED BY <1>1, <1>4, <2>1, TokenFacts, PlainWait
<1>5. CASE Skip(1) /\ UNCHANGED stack
  BY <1>1, <1>2, <1>5, SameStack, PlainMove DEF Moved
<1> QED BY <1>3, <1>4, <1>5 DEF StripCommentSkip, Matches, Differs

------------------------------------------------------------------------------
(* The names of tags                                                       *)

\* A byte more leaves a name a name.
LEMMA AddType ==
    ASSUME NEW name \in Seq(Byte) \cup {Other}, NEW c \in Byte
    PROVE  Add(name, c) \in Seq(Byte) \cup {Other}
<1>1. CASE name \in Seq(Byte)
  <2>1. Append(name, c) \in Seq(Byte)
    BY <1>1, AppendProperties
  <2> QED BY <2>1 DEF Add
<1>2. CASE name = Other
  BY <1>2 DEF Add
<1> QED BY <1>1, <1>2

\* An iteration inside a tag, which ends with the freeze of pre_char.
InsideTag ==
    /\ busy /\ rest # <<>> /\ UNCHANGED <<size, quote, busy, inMemory>>
    /\ CtxState \in InTag /\ Freeze /\ FollowDst /\ HeadKept

LEMMA TagMove ==
    ASSUME IInv, InsideTag, Moved, NamesInv',
           tagName' \in Seq(Byte) \cup {Other}, endName' \in Seq(Byte) \cup {Other},
           \/ UNCHANGED stack
           \/ SetState("skip") \/ SetState("text")
           \/ CtxState = "tagname" /\ Replace("tagatt")
    PROVE  IterationFacts
<1>1. StackShape' /\ stack' \in Seq(State) /\ CtxState' \notin {"tag_bang", "comment"}
  <2>1. StackShape
    BY DEF IInv
  <2>2. CASE UNCHANGED stack
    BY <2>1, <2>2, SameStack DEF InsideTag, InTag
  <2>3. CASE SetState("skip") \/ SetState("text")
    BY <2>3, SetTo
  <2>4. CASE CtxState = "tagname" /\ Replace("tagatt")
    BY <2>1, <2>4, ReplaceTo
  <2> QED BY <2>2, <2>3, <2>4
<1>2. nochange' \in BOOLEAN
  BY DEF InsideTag, Freeze
<1>3. WithheldToken' /\ Opened' /\ HeadInv'
  BY <1>1, MovedFacts DEF InsideTag
<1> QED BY <1>1, <1>2, <1>3 DEF InsideTag, IterationFacts

\* NamesInv of what a step leaves.
LEMMA NamesTo ==
    ASSUME tagName' = <<>> \/ IsSkipTag(tagName') \/ CtxState' = "tagname",
           endName' = <<>> \/ (CtxState' = "tagname_end" /\ tagName' # <<>>),
           CtxState' = "skip" => IsSkipTag(tagName')
    PROVE  NamesInv'
BY DEF NamesInv, IsSkipTag, Lowered

\* An iteration in a tag's name.
LEMMA TagnameFacts == ASSUME IInv, HeadKept, StripTagname PROVE IterationFacts
<1>1. InsideTag /\ CtxState = "tagname" /\ rest # <<>> /\ Copy(1) /\ endName' = endName
  BY DEF StripTagname, Iterate, InsideTag, InTag
<1>2. /\ StackShape /\ NamesInv /\ 1 \in 1..Count /\ Cur \in Byte
      /\ tagName \in Seq(Byte) \cup {Other} /\ endName \in Seq(Byte) \cup {Other}
      /\ <<>> \in Seq(Byte)
  BY <1>1, Start
<1>3. Moved /\ endName' = <<>>
  BY <1>1, <1>2 DEF Moved, NamesInv
<1> DEFINE kept == IF IsSkipTag(tagName) THEN tagName ELSE <<>>
<1>4. kept \in Seq(Byte) \cup {Other} /\ (kept = <<>> \/ IsSkipTag(kept))
  BY <1>2
<1>5. CASE /\ SetState(IF IsSkipTag(tagName) THEN "skip" ELSE "text") /\ tagName' = kept
  <2>1. SetState("skip") \/ SetState("text")
    BY <1>5
  <2>2. CtxState' = "skip" => IsSkipTag(tagName')
    BY <1>5, SetTo
  <2>3. NamesInv'
    BY <1>3, <1>4, <1>5, <2>2, NamesTo
  <2> QED BY <1>1, <1>2, <1>3, <1>4, <1>5, <2>3, <2>1, TagMove
<1>6. CASE Replace("tagatt") /\ tagName' = kept
  <2>1. CtxState' = "tagatt"
    BY <1>1, <1>2, <1>6, ReplaceTo
  <2>2. NamesInv'
    BY <1>3, <1>4, <1>6, <2>1, NamesTo
  <2> QED BY <1>1, <1>2, <1>3, <1>4, <1>6, <2>2, TagMove
<1>7. CASE tagName' = Add(tagName, Cur) /\ UNCHANGED stack
  <2>1. CtxState' = "tagname"
    BY <1>1, <1>2, <1>7, SameStack
  <2>2. NamesInv'
    BY <1>3, <2>1, NamesTo
  <2>3. tagName' \in Seq(Byte) \cup {Other}
    BY <1>2, <1>7, AddType
  <2> QED BY <1>1, <1>2, <1>3, <1>7, <2>2, <2>3, TagMove
<1> QED BY <1>5, <1>6, <1>7 DEF StripTagname

\* An iteration among a tag's attributes.
LEMMA TagattFacts == ASSUME IInv, HeadKept, StripTagatt PROVE IterationFacts
<1>1. InsideTag /\ CtxState = "tagatt" /\ rest # <<>> /\ endName' = endName
  BY DEF StripTagatt, Iterate, InsideTag, InTag
<1>2. /\ StackShape /\ NamesInv /\ Count \in Nat /\ 1 \in 1..Count /\ Cur = rest[1]
      /\ tagName \in Seq(Byte) \cup {Other} /\ endName \in Seq(Byte) \cup {Other}
      /\ <<>> \in Seq(Byte) /\ nochange \in BOOLEAN
      /\ \A m \in Nat : m >= 1 /\ m <= Count => m \in 1..Count
  BY <1>1, Start
<1>3. endName' = <<>> /\ (tagName = <<>> \/ IsSkipTag(tagName))
  BY <1>1, <1>2 DEF NamesInv
<1>4. CASE /\ Skip(1) \/ Copy(1) \/ (Differs(<<"/", ">">>) /\ Copy(2))
           /\ \/ UNCHANGED stack /\ tagName' \in {tagName, <<>>}
              \/ /\ SetState(IF tagName # <<>> THEN "skip" ELSE "text")
                 /\ tagName' = tagName
  <2>1. Moved
    <3>1. Len(<<"/", ">">>) = 2
      OBVIOUS
    <3> QED BY <1>2, <1>4, <3>1 DEF Moved, Differs, Has
  <2>2. UNCHANGED stack \/ SetState("skip") \/ SetState("text")
    BY <1>4
  <2>3. CtxState' = "skip" => IsSkipTag(tagName')
    <3>1. CASE UNCHANGED stack
      BY <1>1, <1>2, <3>1, SameStack
    <3>2. CASE SetState(IF tagName # <<>> THEN "skip" ELSE "text") /\ tagName' = tagName
      BY <1>3, <3>2, SetTo
    <3> QED BY <1>4, <3>1, <3>2
  <2>4. NamesInv'
    BY <1>3, <1>4, <2>3, NamesTo
  <2> QED BY <1>1, <1>2, <1>4, <2>1, <2>4, <2>2, TagMove
<1>5. CASE Cur = "/" /\ CacheRpos /\ UNCHANGED <<stack, tagName>>
  <2>1. Len(<<"/", ">">>) = 2 /\ <<"/", ">">>[1] = "/" /\ <<"/", ">">> \in Awaited
    BY <1>1 DEF Awaited
  <2>2. Count < Len(<<"/", ">">>) /\ \A i \in 1..Count : i = 1
    BY <1>5, <2>1 DEF CacheRpos
  <2>3. \A i \in 1..Count : Lower[rest[i]] = Lower[<<"/", ">">>[i]]
    BY <1>2, <1>5, <2>1, <2>2
  <2>4. Held
    BY <1>1, <1>5, IsHeld
  <2>5. WithheldToken' /\ Opened' /\ HeadInv'
    BY <1>1, <1>5, <2>1, <2>2, <2>3, <2>4, HeldFacts
  <2>6. StackShape' /\ CtxState' = CtxState /\ stack' \in Seq(State)
    BY <1>2, <1>5, SameStack
  <2>7. NamesInv'
    BY <1>1, <1>3, <1>5, <2>6, NamesTo
  <2>8. nochange' \in BOOLEAN
    BY <1>1 DEF InsideTag, Freeze
  <2> QED BY <1>1, <1>2, <1>5, <2>4, <2>5, <2>6, <2>7, <2>8 DEF InsideTag, IterationFacts
<1> QED BY <1>4, <1>5 DEF StripTagatt

\* An iteration in an end tag's name.
LEMMA TagnameEndFacts == ASSUME IInv, HeadKept, StripTagnameEnd PROVE IterationFacts
<1>1. InsideTag /\ CtxState = "tagname_end" /\ rest # <<>>
  BY DEF StripTagnameEnd, Iterate, InsideTag, InTag
<1>2. /\ StackShape /\ NamesInv /\ 1 \in 1..Count /\ Cur \in Byte
      /\ tagName \in Seq(Byte) \cup {Other} /\ endName \in Seq(Byte) \cup {Other}
      /\ <<>> \in Seq(Byte)
  BY <1>1, Start
<1>3. tagName = <<>> \/ IsSkipTag(tagName)
  BY <1>1, <1>2 DEF NamesInv
<1>4. CASE Skip(1) /\ UNCHANGED <<stack, names>>
  <2>1. NamesInv'
    BY <1>2, <1>4, SameNames, SameStack
  <2> QED BY <1>1, <1>2, <1>4, <2>1, TagMove DEF Moved, names
<1>5. CASE Copy(1) /\ endName = <<>> /\ SetState("text") /\ UNCHANGED names
  <2>1. CtxState' = "text"
    BY <1>5, SetTo
  <2>2. NamesInv'
    BY <1>3, <1>5, <2>1, NamesTo DEF names
  <2> QED BY <1>1, <1>2, <1>5, <2>2, TagMove DEF Moved, names
<1>6. CASE /\ Copy(1) /\ endName # <<>> /\ SetState(IF SameTag THEN "text" ELSE "skip")
           /\ tagName' = (IF SameTag THEN <<>> ELSE tagName)
           /\ endName' = <<>>
  <2>1. SetState("skip") \/ SetState("text")
    BY <1>6
  <2>2. CtxState' = "skip" => IsSkipTag(tagName')
    <3>1. IsSkipTag(tagName)
      BY <1>2, <1>3, <1>6 DEF NamesInv
    <3> QED BY <1>6, <3>1, SetTo
  <2>3. NamesInv'
    BY <1>3, <1>6, <2>2, NamesTo
  <2> QED BY <1>1, <1>2, <1>6, <2>3, <2>1, TagMove DEF Moved
<1>7. CASE /\ Copy(1)
           /\ endName' = (IF tagName = <<>> \/ SameTag THEN endName ELSE Add(endName, Cur))
           /\ UNCHANGED <<stack, tagName>>
  <2>1. endName' \in Seq(Byte) \cup {Other}
    BY <1>2, <1>7, AddType
  <2>2. CtxState' = "tagname_end"
    BY <1>1, <1>2, <1>7, SameStack
  <2>3. NamesInv'
    BY <1>2, <1>3, <1>7, <2>2, NamesTo DEF NamesInv
  <2> QED BY <1>1, <1>2, <1>7, <2>1, <2>3, TagMove DEF Moved
<1> QED BY <1>4, <1>5, <1>6, <1>7 DEF StripTagnameEnd

------------------------------------------------------------------------------
(* Every step keeps the invariant                                          *)

\* The two parts of a sequence.
LEMMA SplitFacts ==
    ASSUME NEW S, NEW s \in Seq(S), NEW m \in 1..Len(s)
    PROVE  /\ SubSeq(s, 1, m) \in Seq(S) /\ Len(SubSeq(s, 1, m)) = m
           /\ \A i \in 1..m : SubSeq(s, 1, m)[i] = s[i]
           /\ SubSeq(s, m + 1, Len(s)) \in Seq(S)
           /\ Len(SubSeq(s, m + 1, Len(s))) = Len(s) - m
           /\ \A i \in 1..(Len(s) - m) : SubSeq(s, m + 1, Len(s))[i] = s[m + i]
<1>1. Len(s) \in Nat /\ m \in Nat /\ m >= 1 /\ m <= Len(s) /\ 1 \in Int
  BY LenProperties
<1>2. \A i \in 1..Len(s) : s[i] \in S
  BY ElementOfSeq
<1>3. \A i \in 1..m : i \in 1..Len(s)
  BY ONLY <1>1
<1>4. \A i \in (m + 1)..Len(s) : i \in 1..Len(s)
  BY ONLY <1>1
<1>5. /\ SubSeq(s, 1, m) \in Seq(S)
      /\ Len(SubSeq(s, 1, m)) = IF 1 <= m THEN m - 1 + 1 ELSE 0
      /\ \A i \in 1..(m - 1 + 1) : SubSeq(s, 1, m)[i] = s[1 + i - 1]
  BY <1>1, <1>2, <1>3, SubSeqProperties
<1>6. /\ SubSeq(s, m + 1, Len(s)) \in Seq(S)
      /\ Len(SubSeq(s, m + 1, Len(s))) =
            IF m + 1 <= Len(s) THEN Len(s) - (m + 1) + 1 ELSE 0
      /\ \A i \in 1..(Len(s) - (m + 1) + 1) :
            SubSeq(s, m + 1, Len(s))[i] = s[m + 1 + i - 1]
  <2>1. m + 1 \in Int /\ Len(s) \in Int
    BY ONLY <1>1
  <2> QED BY <1>2, <1>4, <2>1, SubSeqProperties
<1>7. /\ m - 1 + 1 = m /\ 1 <= m /\ \A i \in 1..m : 1 + i - 1 = i
      /\ Len(s) - (m + 1) + 1 = Len(s) - m
      /\ ~(m + 1 <= Len(s)) => Len(s) - m = 0
      /\ \A i \in 1..(Len(s) - m) : m + 1 + i - 1 = m + i
  BY ONLY <1>1
<1>8. /\ Len(SubSeq(s, 1, m)) = m
      /\ \A i \in 1..m : SubSeq(s, 1, m)[i] = s[i]
  BY ONLY <1>5, <1>7
<1>9. Len(SubSeq(s, m + 1, Len(s))) = Len(s) - m
  BY ONLY <1>6, <1>7
<1>10. \A i \in 1..(Len(s) - m) : SubSeq(s, m + 1, Len(s))[i] = s[m + i]
  BY ONLY <1>6, <1>7
<1> QED BY <1>5, <1>6, <1>8, <1>9, <1>10

\* What is written, left and withheld grows by nothing.
LEMMA MoveLengths ==
    ASSUME IInv, rest # <<>>, Moved \/ Held
    PROVE  /\ rest' \in Seq(Byte) /\ dst' \in Seq(Byte) /\ cache' \in Seq(Byte)
           /\ Len(dst') + Len(rest') + Len(cache') <= Len(dst) + Len(rest) + Len(cache)
<1>1. /\ rest \in Seq(Byte) /\ dst \in Seq(Byte) /\ cache = <<>> /\ <<>> \in Seq(Byte)
      /\ Len(rest) \in Nat /\ Len(dst) \in Nat /\ Len(cache) = 0 /\ Count = Len(rest)
  BY Start, LenProperties DEF Bytes, Count
<1>2. CASE Here \/ Held
  <2>1. \/ rest' = rest /\ dst' = dst /\ cache' = <<>>
        \/ rest' = <<>> /\ dst' = dst /\ cache' = rest
    BY <1>1, <1>2 DEF Here, Held
  <2>2. Len(<<>>) = 0
    OBVIOUS
  <2>3. /\ Len(dst) + Len(rest) + 0 <= Len(dst) + Len(rest) + 0
        /\ Len(dst) + 0 + Len(rest) <= Len(dst) + Len(rest) + 0
    BY ONLY <1>1
  <2> QED BY <1>1, <2>1, <2>2, <2>3, Zenon
<1>3. ASSUME NEW m \in 1..Count, Skip(m) \/ Copy(m)
      PROVE  /\ rest' \in Seq(Byte) /\ dst' \in Seq(Byte) /\ cache' \in Seq(Byte)
             /\ Len(dst') + Len(rest') + Len(cache') <= Len(dst) + Len(rest) + Len(cache)
  <2> DEFINE a == SubSeq(rest, 1, m)
             b == SubSeq(rest, m + 1, Count)
  <2>1. a \in Seq(Byte) /\ Len(a) = m /\ b \in Seq(Byte) /\ Len(b) = Len(rest) - m
    BY <1>1, SplitFacts
  <2>2. rest' = b /\ cache' = <<>> /\ dst' \in {dst, dst \o a}
    BY <1>1, <1>3 DEF Skip, Copy
  <2> HIDE DEF a, b
  <2>3. dst \o a \in Seq(Byte) /\ Len(dst \o a) = Len(dst) + m
    BY <1>1, <2>1, ConcatProperties
  <2>4. m \in Nat /\ m <= Len(rest)
    BY <1>1
  <2>5. /\ rest' \in Seq(Byte) /\ Len(rest') = Len(rest) - m
        /\ cache' \in Seq(Byte) /\ Len(cache') = 0
        /\ dst' \in Seq(Byte) /\ Len(dst') <= Len(dst) + m /\ Len(dst') \in Nat
    <3>1. rest' \in Seq(Byte) /\ Len(rest') = Len(rest) - m
      BY <2>1, <2>2
    <3>2. cache' \in Seq(Byte) /\ Len(cache') = 0
      BY <1>1, <2>2
    <3>3. /\ Len(dst) <= Len(dst) + m /\ Len(dst) + m <= Len(dst) + m
          /\ Len(dst) + m \in Nat
      BY ONLY <1>1, <2>4
    <3>4. dst' \in Seq(Byte) /\ Len(dst') <= Len(dst) + m /\ Len(dst') \in Nat
      BY <1>1, <2>2, <2>3, <3>3, Zenon
    <3> QED BY <3>1, <3>2, <3>4
  <2>6. Len(dst') + Len(rest') + Len(cache') <= Len(dst) + Len(rest) + Len(cache)
    BY ONLY <1>1, <2>4, <2>5
  <2> QED BY <2>5, <2>6
<1> QED BY <1>2, <1>3 DEF Moved

\* pre_char stays a byte or the zero it started with.
LEMMA PreType ==
    ASSUME IInv, UpdatePre \/ FollowDst, dst' \in Seq(Byte)
    PROVE  pre' \in Byte \cup {NUL}
<1>1. pre \in Byte \cup {NUL}
  BY DEF IInv, TypeOK, CtxTypeOK
<1>2. CASE UpdatePre
  BY <1>1, <1>2, UpdatePreType
<1>3. CASE FollowDst
  <2>1. dst' # <<>> => dst'[Len(dst')] \in Byte
    OBVIOUS
  <2> QED BY <1>3, <2>1 DEF FollowDst
<1> QED BY <1>2, <1>3

\* An iteration keeps the invariant.
LEMMA IterationKeepsIInv ==
    ASSUME IInv, IterationFacts, HeadKept, overrun' \in BOOLEAN PROVE IInv'
<1>1. /\ busy /\ rest # <<>> /\ size' = size /\ quote' = quote /\ busy' = busy
      /\ inMemory' = inMemory /\ inMemory /\ headless' \in BOOLEAN
  BY Start DEF IterationFacts, HeadKept
<1>2. /\ rest' \in Seq(Byte) /\ dst' \in Seq(Byte) /\ cache' \in Seq(Byte)
      /\ Len(dst') + Len(rest') + Len(cache') <= Len(dst) + Len(rest) + Len(cache)
  BY <1>1, MoveLengths DEF IterationFacts
<1>3. pre' \in Byte \cup {NUL}
  BY <1>2, PreType DEF IterationFacts
<1>4. TypeOK'
  BY <1>1, <1>2, <1>3 DEF IInv, TypeOK, CtxTypeOK, IterationFacts
<1>5. Idle'
  BY <1>1 DEF Idle
<1>6. InPlace'
  <2>1. Len(dst) + Len(rest) + Len(cache) <= size
    BY <1>1 DEF IInv, InPlace
  <2>2. /\ size' = size /\ size \in Nat
        /\ Len(dst) \in Nat /\ Len(rest) \in Nat /\ Len(cache) \in Nat
        /\ Len(dst') \in Nat /\ Len(rest') \in Nat /\ Len(cache') \in Nat
    BY <1>1, <1>2, LenProperties DEF IInv, TypeOK, CtxTypeOK
  <2>3. Len(dst') + Len(rest') + Len(cache') <= size'
    BY ONLY <1>2, <2>1, <2>2
  <2> QED BY <2>3 DEF InPlace
<1>7. SpecialEmpty'
  BY <1>1 DEF SpecialEmpty
<1> QED BY <1>4, <1>5, <1>6, <1>7 DEF IInv, IterationFacts

\* An iteration is one of the states' iterations.
LEMMA BufferFacts ==
    ASSUME IInv, StripBuffer
    PROVE  IterationFacts /\ HeadKept /\ overrun' \in BOOLEAN
<1>1. HeadKept
  BY DEF StripBuffer, HeadKept
<1>2. overrun' \in BOOLEAN
  BY DEF StripBuffer, StripComment, CommentShort, IInv, TypeOK
<1>3. IterationFacts
  BY <1>1, TextFacts, SkipFacts, AbortFacts, TagFacts, BangFacts, CdataFacts, TagnameFacts,
     TagattFacts, TagnameEndFacts, CommentFacts, CommentIeFacts, CommentSkipFacts
     DEF StripBuffer
<1> QED BY <1>1, <1>2, <1>3

\* A received buffer: what was withheld is read again, in front of it, or
\* lost, when the buffer is not in memory.
LEMMA ReceiveKeepsIInv == ASSUME IInv, ReceiveBuffer PROVE IInv'
<1>1. Bytes
  BY DEF IInv, TypeOK, CtxTypeOK, Bytes
<1>2. /\ rest' \in Seq(Byte) /\ dst' \in Seq(Byte) /\ cache' \in Seq(Byte)
      /\ dst' = <<>> /\ cache' = <<>> /\ ~busy /\ busy' = TRUE
      /\ size' = Len(rest') /\ size' \in Nat
      /\ stack' = stack /\ quote' = quote /\ pre' = pre /\ nochange' = nochange
      /\ tagName' = tagName /\ endName' = endName
      /\ inMemory' \in BOOLEAN /\ SpecialEmpty'
  BY <1>1, ReceiveFacts DEF ReceiveBuffer, names
<1>3. TypeOK'
  <2>1. headless' \in BOOLEAN /\ overrun' = overrun
    BY DEF ReceiveBuffer, IInv, TypeOK
  <2> QED BY <1>2, <2>1 DEF IInv, TypeOK, CtxTypeOK
<1>4. StackShape' /\ CtxState' = CtxState
  BY <1>2, SameStack DEF IInv
<1>5. Idle' /\ WithheldToken' /\ InPlace'
  BY <1>2 DEF Idle, WithheldToken, InPlace
<1>6. NamesInv'
  BY <1>2, <1>4, SameNames DEF IInv, names
<1>7. HeadInv'
  BY <1>2, <1>4 DEF ReceiveBuffer, IInv, HeadInv
<1>8. ASSUME NEW chunk \in Chunk, Receive(chunk), headless' = headless PROVE Opened'
  <2>1. rest' = cache \o chunk /\ chunk \in Seq(Byte)
    BY <1>1, <1>8, ReceiveAppends
  <2>2. /\ cache \o chunk \in Seq(Byte) /\ Len(cache \o chunk) = Len(cache) + Len(chunk)
        /\ Len(cache) \in Nat /\ Len(chunk) \in Nat
        /\ \A i \in 1..Len(cache) : (cache \o chunk)[i] = cache[i]
    <3>1. /\ cache \o chunk \in Seq(Byte) /\ Len(cache \o chunk) = Len(cache) + Len(chunk)
          /\ \A i \in 1..(Len(cache) + Len(chunk)) : (cache \o chunk)[i] =
                IF i <= Len(cache) THEN cache[i] ELSE chunk[i - Len(cache)]
      BY <1>1, <2>1, ConcatProperties DEF Bytes
    <3>2. Len(cache) \in Nat /\ Len(chunk) \in Nat
      BY <1>1, <2>1, LenProperties DEF Bytes
    <3>3. \A i \in 1..Len(cache) : i \in 1..(Len(cache) + Len(chunk)) /\ i <= Len(cache)
      BY ONLY <3>2
    <3> QED BY <3>1, <3>2, <3>3
  <2>3. rest = <<>>
    BY <1>2 DEF IInv, Idle
  <2>4. CtxState \in {"tag_bang", "comment"} /\ ~headless =>
           Ahead = cache /\ Len(cache) > 2
    <3>1. Len(<<>>) = 0
      OBVIOUS
    <3> QED BY <2>3, <3>1 DEF IInv, Opened, Ahead
  <2>5. Ahead' = rest'
    BY <1>2 DEF Ahead
  <2>6. CtxState = "tag_bang" /\ ~headless =>
           Len(rest') > 2 /\ rest'[1] = "<" /\ rest'[2] = "!"
    BY <2>1, <2>2, <2>4 DEF IInv, Opened
  <2>7. CtxState = "comment" /\ ~headless =>
           Len(rest') >= 4 /\ \A i \in 1..4 : rest'[i] = CommentOpen[i]
    BY <2>1, <2>2, <2>4 DEF IInv, Opened
  <2> QED BY <1>4, <1>8, <2>5, <2>6, <2>7 DEF Opened
<1>9. ASSUME ReceiveSpecial,
             headless' = (headless \/ (cache # <<>> /\ CtxState \in Undecided))
      PROVE  Opened'
  <2>1. cache = <<>> => Ahead = <<>>
    BY <1>2 DEF Ahead, IInv, Idle
  <2>2. Len(<<>>) = 0
    OBVIOUS
  <2>3. cache = <<>> /\ ~headless => CtxState \notin Undecided
    BY <2>1, <2>2 DEF IInv, Opened, Undecided
  <2> QED BY <1>4, <1>9, <2>3 DEF Opened, Undecided
<1>10. Opened'
  BY <1>8, <1>9 DEF ReceiveBuffer
<1> QED BY <1>2, <1>3, <1>4, <1>5, <1>6, <1>7, <1>10 DEF IInv

\* A delivered buffer leaves the context to the next one.
LEMMA DeliverKeepsIInv == ASSUME IInv, DeliverBuffer PROVE IInv'
<1>1. /\ busy' = FALSE /\ dst' = <<>> /\ rest = <<>> /\ tagName' = tagName
      /\ UNCHANGED <<rest, size, cache, stack, quote, pre, nochange, endName>>
      /\ UNCHANGED <<inMemory, overrun, headless>>
  BY DEF DeliverBuffer, Deliver, names
<1>2. TypeOK'
  BY <1>1 DEF IInv, TypeOK, CtxTypeOK
<1>3. StackShape' /\ CtxState' = CtxState
  BY <1>1, SameStack DEF IInv
<1>4. Idle' /\ InPlace'
  BY <1>1 DEF Idle, InPlace
<1>5. WithheldToken'
  <2>1. Awaited' = Awaited
    BY <1>3 DEF Awaited
  <2> QED BY <1>1, <1>3, <2>1 DEF IInv, WithheldToken
<1>6. Opened' /\ HeadInv' /\ SpecialEmpty'
  <2>1. Ahead' = Ahead
    BY <1>1 DEF Ahead
  <2> QED BY <1>1, <1>3, <2>1 DEF IInv, Opened, HeadInv, SpecialEmpty
<1>7. NamesInv'
  BY <1>1, <1>3, SameNames DEF IInv, names
<1> QED BY <1>2, <1>3, <1>4, <1>5, <1>6, <1>7 DEF IInv

\* The context ngx_pcalloc clears satisfies the invariant.
LEMMA InitInv == Init => IInv
<1> SUFFICES ASSUME Init PROVE IInv
  OBVIOUS
<1>1. stack = <<"text">> /\ CtxState = "text" /\ StackShape /\ stack \in Seq(State)
  BY DEF Init, CtxInit, CtxState, StackShape, State
<1>2. TypeOK
  <2>1. <<>> \in Seq(Byte)
    OBVIOUS
  <2> QED BY <1>1, <2>1 DEF Init, CtxInit, TypeOK, CtxTypeOK
<1> QED BY <1>1, <1>2
       DEF Init, CtxInit, IInv, Idle, InPlace, WithheldToken, Opened, NamesInv,
           HeadInv, SpecialEmpty

\* Every step keeps it.
LEMMA NextInv == IInv /\ [Next]_vars => IInv'
<1> SUFFICES ASSUME IInv, [Next]_vars PROVE IInv'
  OBVIOUS
<1>1. CASE ReceiveBuffer
  BY <1>1, ReceiveKeepsIInv
<1>2. CASE StripBuffer
  BY <1>2, BufferFacts, IterationKeepsIInv
<1>3. CASE DeliverBuffer
  BY <1>3, DeliverKeepsIInv
<1>4. CASE UNCHANGED vars
  BY <1>4 DEF vars, ctxVars, IInv, TypeOK, CtxTypeOK, StackShape, Idle, InPlace,
              WithheldToken, Opened, NamesInv, IsSkipTag, Lowered, Awaited, Ahead,
              CtxState, HeadInv, SpecialEmpty
<1> QED BY <1>1, <1>2, <1>3, <1>4 DEF Next

\* The invariant holds in every reachable state.
THEOREM Invariance == Spec => []IInv
<1>1. Init => IInv
  BY InitInv
<1>2. IInv /\ [Next]_vars => IInv'
  BY NextInv
<1> QED BY <1>1, <1>2, PTL DEF Spec

------------------------------------------------------------------------------
(* The properties of the runs                                              *)

\* The context never leaves its types.
THEOREM TypeCorrect == Spec => []TypeOK
<1>1. IInv => TypeOK
  BY DEF IInv
<1> QED BY <1>1, Invariance, PTL

\* The state stack of ngx_minify_ctx_t is never overrun nor emptied, however
\* long the response is and whatever markup it has.
THEOREM StackBounded == Spec => []StackShape
<1>1. IInv => StackShape
  BY DEF IInv
<1> QED BY <1>1, Invariance, PTL

\* The rewrite in place never writes a byte it has not read, also when a
\* buffer begins with up to eight bytes withheld from the one before.
THEOREM RewriteInPlace == Spec => []InPlace
<1>1. IInv => InPlace
  BY DEF IInv
<1> QED BY <1>1, Invariance, PTL

\* What is withheld is a part of a token its state looks for, never all of it.
THEOREM TokenWithheld == Spec => []WithheldToken
<1>1. IInv => WithheldToken
  BY DEF IInv
<1> QED BY <1>1, Invariance, PTL

\* Markup that is not decided is read at its "<", after any number of cuts,
\* unless a buffer that is not in memory has met a withheld part of its head:
\* behind it the code reads on wherever it is.
THEOREM MarkupReadAtItsHead == Spec => []LookAhead
<1>1. IInv => LookAhead
  <2> SUFFICES ASSUME IInv, rest # <<>>, ~headless PROVE LookAhead
    BY DEF LookAhead
  <2>1. Ahead = rest /\ rest \in Seq(Byte) /\ Count = Len(rest) /\ Opened
    BY Start DEF Count, IInv
  <2>2. ASSUME CtxState = "tag_bang" PROVE Count > 2 /\ Matches(<<"<", "!">>)
    <3>1. /\ <<"<", "!">> \in Seq(Byte) /\ <<"<", "!">> # <<>>
          /\ Len(<<"<", "!">>) = 2 /\ <<"<", "!">>[1] = "<" /\ <<"<", "!">>[2] = "!"
      BY HtmlAssumption
    <3>2. Count > 2 /\ rest[1] = "<" /\ rest[2] = "!" /\ Count \in Nat
      BY <2>1, <2>2, Start DEF Opened
    <3>3. \A i \in 1..2 : rest[i] = <<"<", "!">>[i]
      BY <3>1, <3>2
    <3>4. Has(<<"<", "!">>)
      BY <3>1, <3>2 DEF Has
    <3> QED BY <2>1, <3>1, <3>2, <3>3, <3>4, MatchFacts
  <2>3. ASSUME CtxState = "comment" PROVE Matches(CommentOpen)
    <3>1. CommentOpen # <<>> /\ CommentOpen \in Seq(Byte) /\ Len(CommentOpen) = 4
      BY TokenFacts, EmptySeq
    <3> QED BY <2>1, <2>3, <3>1, MatchFacts DEF Opened, Has
  <2> QED BY <2>2, <2>3 DEF LookAhead
<1> QED BY <1>1, Invariance, PTL

\* What is skipped is the inside of a tag of html_skip_tag, which the end tag
\* is compared with, for any set of such names.
THEOREM SkippedIsNamed == Spec => []SkipNamed
<1>1. IInv => SkipNamed
  <2>1. ASSUME IInv, CtxState = "skip" PROVE endName = <<>>
    BY <2>1 DEF IInv, NamesInv
  <2> QED BY <2>1 DEF IInv, NamesInv, SkipNamed
<1> QED BY <1>1, Invariance, PTL

------------------------------------------------------------------------------
(* Blanks                                                                  *)

\* What makes BlanksCollapse inductive: a blank at the end of what is written
\* is known to pre_char wherever the text or the attributes may go on next,
\* although pre_char is frozen in comments and in what is skipped; only what
\* is skipped leaves the text a "<" instead.
BlankSeen ==
    /\ CtxState \in {"tag", "tag_bang", "cdata"} \cup InTag => ~nochange
    /\ /\ CtxState \in {"text", "tagatt", "tag_bang", "comment", "comment_skip"}
       /\ dst # <<>> /\ dst[Len(dst)] = " "
       => pre = " " \/ (CtxState = "text" /\ rest # <<>> /\ Cur = "<")

\* pre_char has followed what is written.
Followed == ~nochange' /\ (dst' # <<>> => pre' = dst'[Len(dst')])

LEMMA FollowedIsSeen == ASSUME Followed PROVE BlankSeen'
BY DEF Followed, BlankSeen

\* States that the text is reached from by way of a known byte only.
LEMMA ElsewhereSeen ==
    ASSUME CtxState' \in {"skip", "abort", "comment_ie"} PROVE BlankSeen'
BY DEF BlankSeen, InTag

\* Nothing is written: what pre_char knew it still knows.
LEMMA StaysSeen ==
    ASSUME BlankSeen, CtxState \in {"tag_bang", "comment", "comment_skip"},
           CtxState' \in {"text", "comment", "comment_skip", "comment_ie"},
           UNCHANGED dst, UpdatePre
    PROVE  BlankSeen'
BY DEF BlankSeen, UpdatePre, InTag

\* An iteration inside a tag.
LEMMA TagKeepsSeen ==
    ASSUME BlankSeen, CtxState \in InTag, Freeze, FollowDst PROVE BlankSeen'
<1>1. ~nochange
  BY DEF BlankSeen
<1>2. CASE CtxState' = "skip"
  BY <1>2, ElsewhereSeen
<1>3. CASE CtxState' # "skip"
  <2>1. Followed
    BY <1>1, <1>3 DEF Freeze, FollowDst, Followed
  <2> QED BY <2>1, FollowedIsSeen
<1> QED BY <1>2, <1>3

\* Every iteration keeps BlankSeen.
LEMMA IterationKeepsSeen == ASSUME IInv, BlankSeen, StripBuffer PROVE BlankSeen'
<1>1. StackShape /\ (rest # <<>> => cache = <<>> /\ Cur = rest[1])
  BY Start DEF IInv
<1>2. CASE StripText
  <2>1. Followed
    BY <1>2 DEF StripText, UpdatePre, Followed
  <2> QED BY <2>1, FollowedIsSeen
<1>3. CASE StripSkip
  <2>1. CASE UNCHANGED stack
    <3>1. CtxState' = "skip"
      BY <1>1, <1>3, <2>1, SameStack DEF StripSkip, Iterate
    <3> QED BY <3>1, ElsewhereSeen
  <2>2. CASE Matches(<<"<", "/">>) /\ Here /\ SetState("text")
    <3>1. CtxState' = "text" /\ rest # <<>> /\ rest' = rest
      BY <1>3, <2>2, SetTo DEF StripSkip, Iterate, Here
    <3>2. rest[1] = "<"
      <4>1. /\ <<"<", "/">> \in Seq(Byte) /\ <<"<", "/">> # <<>>
            /\ 1 \in 1..Len(<<"<", "/">>) /\ <<"<", "/">>[1] = "<"
        BY HtmlAssumption
      <4> QED BY <2>2, <3>1, <4>1, Start, MatchFacts
    <3> QED BY <3>1, <3>2 DEF BlankSeen, Cur, InTag
  <2> QED BY <1>3, <2>1, <2>2 DEF StripSkip
<1>4. CASE StripAbort
  <2>1. CtxState' = "abort"
    BY <1>1, <1>4, SameStack DEF StripAbort, Iterate
  <2> QED BY <2>1, ElsewhereSeen
<1>5. CASE StripTag \/ StripCdata
  <2>1. ~nochange /\ nochange' = nochange /\ UpdatePre
    BY <1>5 DEF StripTag, StripCdata, Iterate, BlankSeen
  <2> QED BY <2>1, FollowedIsSeen DEF UpdatePre, Followed
<1>6. CASE StripTagBang
  <2>1. CtxState = "tag_bang" /\ UpdatePre /\ ~nochange
    BY <1>6 DEF StripTagBang, Iterate, BlankSeen
  <2>2. CASE nochange' = nochange
    BY <2>1, <2>2, FollowedIsSeen DEF UpdatePre, Followed
  <2>3. CASE Here /\ PushState("comment")
    <3>1. CtxState' = "comment"
      BY <1>1, <2>1, <2>3, PushTo
    <3> QED BY <2>1, <2>3, <3>1, StaysSeen DEF Here
  <2> QED BY <1>6, <2>2, <2>3 DEF StripTagBang, BangShort, BangTag, BangComment, BangCdata
<1>7. CASE StripTagname \/ StripTagatt \/ StripTagnameEnd
  BY <1>7, TagKeepsSeen DEF StripTagname, StripTagatt, StripTagnameEnd, Iterate, InTag
<1>8. CASE StripComment
  <2>1. CtxState = "comment" /\ UpdatePre /\ dst' = dst
    BY <1>8 DEF StripComment, CommentShort, CommentHead, Iterate, Withhold, Skip, Here
  <2>2. CtxState' \in {"comment", "comment_skip", "comment_ie"}
    BY <1>1, <1>8, <2>1, SameStack, ReplaceTo DEF StripComment, CommentShort, CommentHead
  <2> QED BY <2>1, <2>2, StaysSeen
<1>9. CASE StripCommentSkip
  <2>1. CtxState = "comment_skip" /\ UpdatePre /\ dst' = dst
    BY <1>9 DEF StripCommentSkip, Iterate, Withhold, Skip
  <2>2. CtxState' \in {"comment_skip", "text"}
    BY <1>1, <1>9, <2>1, SameStack, SetTo DEF StripCommentSkip
  <2> QED BY <2>1, <2>2, StaysSeen
<1>10. CASE StripCommentIe
  <2>1. CASE UNCHANGED stack
    <3>1. CtxState' = "comment_ie"
      BY <1>1, <1>10, <2>1, SameStack DEF StripCommentIe, Iterate
    <3> QED BY <3>1, ElsewhereSeen
  <2>2. CASE Matches(IeClose) /\ Copy(4) /\ SetState("text")
    <3>1. CtxState' = "text" /\ rest # <<>>
      BY <1>10, <2>2, SetTo DEF StripCommentIe, Iterate
    <3>2. dst \in Seq(Byte) /\ SubSeq(rest, 1, 4) = IeClose /\ dst' = dst \o SubSeq(rest, 1, 4)
      BY <2>2, <3>1, Start, TokenFacts DEF Matches, Copy, Bytes
    <3>3. dst'[Len(dst')] = ">"
      <4>1. IeClose \in Seq(Byte) /\ Len(IeClose) = 4 /\ IeClose[4] = ">"
        BY TokenFacts
      <4>2. /\ Len(dst \o IeClose) = Len(dst) + Len(IeClose)
            /\ \A i \in 1..(Len(dst) + Len(IeClose)) : (dst \o IeClose)[i] =
                  IF i <= Len(dst) THEN dst[i] ELSE IeClose[i - Len(dst)]
        BY <3>2, <4>1, ConcatProperties
      <4>3. /\ Len(dst) + 4 \in 1..(Len(dst) + 4) /\ ~(Len(dst) + 4 <= Len(dst))
            /\ Len(dst) + 4 - Len(dst) = 4
        <5>1. Len(dst) \in Nat
          BY <3>2, LenProperties
        <5> QED BY ONLY <5>1
      <4>4. (dst \o IeClose)[Len(dst) + 4] = ">"
        BY <4>1, <4>2, <4>3
      <4> QED BY <3>2, <4>1, <4>2, <4>4
    <3> QED BY <3>1, <3>3 DEF BlankSeen, InTag
  <2> QED BY <1>10, <2>1, <2>2 DEF StripCommentIe
<1> QED BY <1>2, <1>3, <1>4, <1>5, <1>6, <1>7, <1>8, <1>9, <1>10 DEF StripBuffer

LEMMA SeenStep == IInv /\ BlankSeen /\ [Next]_vars => BlankSeen'
<1> SUFFICES ASSUME IInv, BlankSeen, [Next]_vars PROVE BlankSeen'
  OBVIOUS
<1>1. CASE ReceiveBuffer \/ DeliverBuffer
  <2>1. dst' = <<>> /\ UNCHANGED <<stack, nochange>>
    BY <1>1 DEF ReceiveBuffer, DeliverBuffer, Receive, ReceiveSpecial, EnterMinifier, Deliver
  <2> QED BY <2>1 DEF BlankSeen, CtxState
<1>2. CASE StripBuffer
  BY <1>2, IterationKeepsSeen
<1>3. CASE UNCHANGED vars
  BY <1>3 DEF vars, ctxVars, BlankSeen, CtxState, Cur
<1> QED BY <1>1, <1>2, <1>3 DEF Next

\* No blank is written behind a blank of the same buffer, in the text and
\* among the attributes of a tag, whatever was stripped, kept or withheld in
\* between.
THEOREM BlanksAreCollapsed == Spec => BlanksCollapse
<1>1. Init => BlankSeen
  BY DEF Init, CtxInit, BlankSeen, CtxState, InTag
<1>2. /\ IInv /\ BlankSeen /\ [Next]_vars
      => [/\ busy /\ rest # <<>> /\ CtxState \in {"text", "tagatt"} /\ Cur = " "
          /\ dst # <<>> /\ dst[Len(dst)] = " "
          => dst' = dst]_vars
  <2> SUFFICES ASSUME IInv, BlankSeen, Next, busy, rest # <<>>, Cur = " ", dst # <<>>,
                      CtxState \in {"text", "tagatt"}, dst[Len(dst)] = " "
               PROVE  dst' = dst
    OBVIOUS
  <2>1. pre = " " /\ TagPre = " "
    BY DEF BlankSeen, TagPre
  <2>2. CASE CtxState = "text"
    <3>1. StripText
      BY <2>2 DEF Next, ReceiveBuffer, Receive, ReceiveSpecial, EnterMinifier, DeliverBuffer, Deliver,
         StripBuffer, StripSkip, StripAbort, StripTag, StripTagBang, StripCdata,
         StripTagname, StripTagatt, StripTagnameEnd, StripComment, StripCommentIe,
         StripCommentSkip, Iterate
    <3> QED BY <2>1, <3>1 DEF StripText, TextLess, TextBlank, TextOther, Skip
  <2>3. CASE CtxState = "tagatt"
    <3>1. StripTagatt
      BY <2>3 DEF Next, ReceiveBuffer, Receive, ReceiveSpecial, EnterMinifier, DeliverBuffer, Deliver,
         StripBuffer, StripSkip, StripAbort, StripTag, StripTagBang, StripCdata,
         StripTagname, StripText, StripTagnameEnd, StripComment, StripCommentIe,
         StripCommentSkip, Iterate
    <3>2. ~Matches(<<"/", ">">>)
      <4>1. <<"/", ">">> \in Seq(Byte)
        BY ONLY HtmlAssumption
      <4>2. Len(<<"/", ">">>) = 2 /\ <<"/", ">">>[1] = "/"
        OBVIOUS
      <4>5. 1 \in 1..Len(<<"/", ">">>) /\ <<"/", ">">> # <<>>
        BY ONLY <4>2
      <4>3. rest \in Seq(Byte) /\ Cur = rest[1] /\ " " # "/"
        BY Start
      <4>4. Matches(<<"/", ">">>) => rest[1] = <<"/", ">">>[1]
        BY <4>1, <4>3, <4>5, MatchFacts
      <4> QED BY <4>2, <4>3, <4>4
    <3> QED BY <2>1, <3>1, <3>2 DEF StripTagatt, Skip
  <2> QED BY <2>2, <2>3
<1>3. IInv /\ BlankSeen /\ [Next]_vars => BlankSeen'
  BY SeenStep
<1> QED BY <1>1, <1>2, <1>3, Invariance, PTL DEF Spec, BlanksCollapse

------------------------------------------------------------------------------
(* The contract of the whole stream                                        *)

Pending == cache \o rest

\* While a buffer is stripped nothing is withheld, and what is pending is what
\* rpos has not reached; between two buffers it is what is withheld.
LEMMA PendingIsAhead ==
    ASSUME rest \in Seq(Byte), cache \in Seq(Byte), cache = <<>> \/ rest = <<>>
    PROVE  Pending = Ahead
<1>1. <<>> \o rest = rest
  BY ONLY rest \in Seq(Byte)
<1>2. cache \o <<>> = cache
  BY ONLY cache \in Seq(Byte)
<1> QED BY <1>1, <1>2 DEF Pending, Ahead

\* The contract sees what the minifier looks at.
LEMMA Sight ==
    ASSUME IInv, rest # <<>>
    PROVE  /\ Pending = rest /\ Contract!Inside = Region /\ Contract!Sees(1)
           /\ \A m : Contract!Sees(m) <=> Count >= m
           /\ \A token : Contract!Shows(token) <=> Matches(token)
<1>1. Pending = rest
  BY Start, PendingIsAhead, <<>> \in Seq(Byte) DEF Ahead
<1>2. Contract!Inside = Region
  <2>1. Len(<<Region>>) = 1 /\ <<Region>>[1] = Region
    OBVIOUS
  <2> QED BY <2>1 DEF Contract!Inside
<1>3. \A m : Contract!Sees(m) <=> Count >= m
  BY <1>1 DEF Contract!Sees, Count, Pending
<1>4. \A token : Contract!Shows(token) <=> Matches(token)
  BY <1>1, <1>3 DEF Contract!Shows, Matches, Has, Pending
<1> QED BY <1>1, <1>2, <1>3, <1>4, Start

\* The region of a state.
LEMMA RegionOf ==
    /\ CtxState = "text" \/ (CtxState \in Undecided /\ ~headless) => Region = "text"
    /\ CtxState = "tag_bang" /\ headless => Region = "bang"
    /\ CtxState = "comment" /\ headless => Region = "dashes"
    /\ CtxState \in {"tag", "tagname", "tagatt", "tagname_end"} => Region = "tag"
    /\ CtxState = "comment_skip" => Region = "comment"
    /\ CtxState = "comment_ie" => Region = "ie"
    /\ CtxState \in {"skip", "abort", "cdata"} => Region = "kept"
BY DEF Region, InTag, Undecided

\* A token the stream has begun is one that all that is left begins.
LEMMA BegunBegins ==
    ASSUME IInv, rest # <<>>, NEW token \in Seq(Byte), Contract!Begun(token)
    PROVE  Begins(token) /\ ~Has(token)
<1>1. Pending = rest /\ Len(rest) \in Nat /\ Len(token) \in Nat
  BY Sight, Start, LenProperties
<1> QED BY <1>1 DEF Contract!Begun, Pending, Begins, Has, Count

\* Skip and Copy consume from the stream; to withhold bytes does not.
LEMMA StreamMoves ==
    ASSUME IInv, rest # <<>>
    PROVE  /\ \A m \in 1..Count : Skip(m) => Contract!Omit(m)
           /\ \A m \in 1..Count : Copy(m) => Contract!Keep(m)
           /\ Here \/ Held => Pending' = Pending /\ dst' = dst
<1>1. /\ cache = <<>> /\ rest \in Seq(Byte) /\ Pending = rest /\ <<>> \in Seq(Byte)
      /\ Count = Len(rest)
  BY Start, Sight DEF Count
<1>2. ASSUME NEW m \in 1..Count, Skip(m) \/ Copy(m)
      PROVE  /\ Contract!Sees(m)
             /\ Pending' = SubSeq(Pending, m + 1, Len(Pending))
  <2>1. cache' = <<>> /\ rest' = SubSeq(rest, m + 1, Len(rest))
    BY <1>1, <1>2 DEF Skip, Copy
  <2>2. rest' \in Seq(Byte)
    BY <1>1, <2>1, SplitFacts
  <2>3. <<>> \o rest' = rest'
    BY ONLY <2>2
  <2>4. m <= Count
    BY Start
  <2>5. Contract!Sees(m)
    BY <2>4, Start, Sight
  <2> QED BY <1>1, <2>1, <2>3, <2>5 DEF Pending
<1>3. ASSUME NEW m \in 1..Count, Skip(m) PROVE Contract!Omit(m)
  BY <1>2, <1>3 DEF Skip, Contract!Omit, Pending
<1>4. ASSUME NEW m \in 1..Count, Copy(m) PROVE Contract!Keep(m)
  BY <1>1, <1>2, <1>4 DEF Copy, Contract!Keep, Pending
<1>5. ASSUME Here \/ Held PROVE Pending' = Pending /\ dst' = dst
  <2>1. CASE Here
    BY <2>1 DEF Here, Pending
  <2>2. CASE Held
    <3>1. rest \o <<>> = rest
      BY ONLY <1>1
    <3> QED BY <1>1, <2>2, <3>1 DEF Held, Pending
  <2> QED BY <1>5, <2>1, <2>2
<1> QED BY <1>3, <1>4, <1>5

\* The region the stream is in follows the state.
LEMMA RegionTo ==
    ASSUME IInv, HeadKept
    PROVE
    /\ UNCHANGED stack => Contract!Stay
    /\ CtxState' \in Undecided /\ CtxState' # CtxState => Contract!To("text")
    /\ /\ CtxState' \in Undecided /\ CtxState' # CtxState /\ Region = "text"
       => Contract!Stay
    /\ /\ CtxState \in {"tag", "tagname", "tagatt", "tagname_end"}
       /\ CtxState' \in {"tag", "tagname", "tagatt", "tagname_end"}
       => Contract!Stay
    /\ CtxState' = "text" => Contract!To("text")
    /\ CtxState' \in {"tag", "tagname", "tagatt", "tagname_end"} => Contract!To("tag")
    /\ CtxState' \in {"skip", "abort", "cdata"} => Contract!To("kept")
    /\ CtxState' = "comment_skip" => Contract!To("comment")
    /\ CtxState' = "comment_ie" => Contract!To("ie")
<1>1. UNCHANGED stack => headless' = headless /\ CtxState' = CtxState
  BY DEF HeadKept, CtxState, IInv, TypeOK
<1>2. CtxState' # CtxState => ~headless'
  BY DEF HeadKept, CtxState
<1>3. UNCHANGED stack => Region' = Region
  <2> SUFFICES ASSUME stack' = stack PROVE Region' = Region
    OBVIOUS
  <2>1. headless' = headless
    BY <1>1
  <2> QED BY <2>1 DEF Region, CtxState
<1>4. CtxState' \in Undecided /\ CtxState' # CtxState => Region' = "text"
  BY <1>2 DEF Region, Undecided, InTag
<1> QED BY <1>3, <1>4 DEF Region, Contract!Stay, Contract!To, Undecided, InTag

Implements == [Contract!HNext]_(Contract!cvars)

\* What an iteration does to the stream.
Rewritten == Contract!Rewrite \/ UNCHANGED <<Pending, dst, Region>>

\* An iteration that withholds, or only looks and stays in its region, is no
\* step of the contract.
LEMMA Unseen ==
    ASSUME IInv, rest # <<>>, Here \/ Held, Contract!Stay
    PROVE  Rewritten
<1>1. Pending' = Pending /\ dst' = dst
  BY StreamMoves
<1> QED BY <1>1 DEF Rewritten, Contract!Stay

\* A step of the contract in some region.
LEMMA Rewrites ==
    Contract!Rewrite => Rewritten
BY DEF Rewritten

\* An iteration in the text.
LEMMA TextImplements == ASSUME IInv, HeadKept, StripText PROVE Rewritten
<1>1. CtxState = "text" /\ rest # <<>>
  BY DEF StripText, Iterate
<1>2. /\ StackShape /\ 1 \in 1..Count /\ Count \in Nat /\ rest \in Seq(Byte)
      /\ Cur = rest[1] /\ Pending = rest
      /\ Contract!Inside = "text" /\ Contract!Sees(1)
  BY <1>1, Start, Sight, RegionOf
<1>3. CASE (TextBlank \/ TextOther) /\ UNCHANGED stack
  <2>1. Contract!Stay
    BY <1>2, <1>3, SameStack, RegionTo
  <2>2. CASE Cur \in {" ", "\n", "\r", "\t"} /\ Skip(1)
    <3>1. Contract!Omit(1)
      BY <1>1, <1>2, <2>2, StreamMoves
    <3> QED BY <1>2, <2>1, <2>2, <3>1, Rewrites
            DEF Contract!Rewrite, Contract!HText, Contract!Breaks, Pending
  <2>3. CASE Cur \notin {"<", "\n", "\r", "\t"} /\ Copy(1)
    <3>1. Contract!Keep(1)
      BY <1>1, <1>2, <2>3, StreamMoves
    <3> QED BY <1>2, <2>1, <2>3, <3>1, Rewrites
            DEF Contract!Rewrite, Contract!HText, Contract!Breaks, Pending
  <2> QED BY <1>3, <2>2, <2>3 DEF TextBlank, TextOther
<1>4. CASE TextLess
  <2>1. CASE Cur = "<" /\ Count >= 2 /\ rest[2] # "!" /\ Copy(1) /\ PushState("tag")
    <3>1. Contract!Keep(1)
      BY <1>1, <1>2, <2>1, StreamMoves
    <3>2. Contract!To("tag")
      BY <1>1, <1>2, <2>1, PushTo, RegionTo
    <3>3. Matches(<<"<">>) /\ ~Matches(<<"<", "!">>)
      <4>1. /\ <<"<">> \in Seq(Byte) /\ Len(<<"<">>) = 1 /\ <<"<">>[1] = "<"
            /\ <<"<", "!">> \in Seq(Byte) /\ Len(<<"<", "!">>) = 2
            /\ <<"<", "!">>[2] = "!"
        BY HtmlAssumption
      <4>2. /\ <<"<">> # <<>> /\ <<"<", "!">> # <<>>
            /\ 2 \in 1..Len(<<"<", "!">>) /\ \A i \in 1..Len(<<"<">>) : i = 1
        BY <4>1, EmptySeq
      <4>3. Has(<<"<">>)
        BY <1>2, <2>1, <4>1 DEF Has
      <4> QED BY <1>2, <2>1, <4>1, <4>2, <4>3, MatchFacts
    <3>4. Contract!Shows(<<"<">>) /\ ~Contract!Shows(<<"<", "!">>) /\ Contract!Sees(2)
      BY <1>1, <2>1, <3>3, Sight
    <3> QED BY <1>2, <3>1, <3>2, <3>4, Rewrites DEF Contract!Rewrite, Contract!HText
  <2>2. CASE Here /\ PushState("tag_bang")
    <3>1. CtxState' = "tag_bang"
      BY <1>1, <1>2, <2>2, PushTo
    <3>2. Contract!Stay
      BY <1>1, <3>1, RegionOf, RegionTo DEF Undecided
    <3> QED BY <1>1, <2>2, <3>2, Unseen
  <2>3. CASE Withhold(<<"<", "!">>) /\ UNCHANGED stack
    <3>1. <<"<", "!">> \in Seq(Byte)
      BY HtmlAssumption
    <3>2. Held /\ Contract!Stay
      BY <1>1, <1>2, <2>3, <3>1, IsHeld, SameStack, RegionTo
    <3> QED BY <1>1, <3>2, Unseen
  <2> QED BY <1>4, <2>1, <2>2, <2>3 DEF TextLess
<1> QED BY <1>3, <1>4 DEF StripText

\* An iteration inside pre, script or style.
LEMMA SkipImplements == ASSUME IInv, HeadKept, StripSkip PROVE Rewritten
<1>1. CtxState = "skip" /\ rest # <<>>
  BY DEF StripSkip, Iterate
<1>2. /\ StackShape /\ 1 \in 1..Count /\ (Count >= 2 => 2 \in 1..Count)
      /\ Cur = rest[1] /\ Pending = rest
      /\ Contract!Inside = "kept" /\ Contract!Sees(1)
  BY <1>1, Start, Sight, RegionOf
<1>3. CASE Matches(<<"<", "/">>) /\ Here /\ SetState("text")
  <2>1. Contract!To("text")
    BY <1>3, SetTo, RegionTo
  <2>2. Contract!Look
    BY <1>1, <1>3, StreamMoves DEF Contract!Look, Pending
  <2>3. Contract!Shows(<<"<", "/">>)
    BY <1>1, <1>3, Sight
  <2> QED BY <1>2, <2>1, <2>2, <2>3, Rewrites DEF Contract!Rewrite, Contract!HKept
<1>4. CASE /\ (Cur = "<" /\ Count >= 2 /\ Copy(2)) \/ Copy(1)
           /\ UNCHANGED stack
  <2>1. Contract!Stay
    BY <1>2, <1>4, SameStack, RegionTo
  <2>2. (rest[1] = "<" /\ Contract!Keep(2)) \/ Contract!Keep(1)
    BY <1>1, <1>2, <1>4, StreamMoves DEF Pending
  <2> QED BY <1>2, <2>1, <2>2, Rewrites DEF Contract!Rewrite, Contract!HKept, Pending
<1>5. CASE CacheRpos /\ UNCHANGED stack
  <2>1. Held /\ Contract!Stay
    BY <1>1, <1>2, <1>5, IsHeld, SameStack, RegionTo
  <2> QED BY <1>1, <2>1, Unseen
<1> QED BY <1>3, <1>4, <1>5 DEF StripSkip

\* An iteration behind markup the minifier gave up on.
LEMMA AbortImplements == ASSUME IInv, HeadKept, StripAbort PROVE Rewritten
<1>1. CtxState = "abort" /\ rest # <<>> /\ Copy(1) /\ UNCHANGED stack
  BY DEF StripAbort, Iterate
<1>2. /\ StackShape /\ 1 \in 1..Count
      /\ Contract!Inside = "kept" /\ Contract!Sees(1)
  BY <1>1, Start, Sight, RegionOf
<1>3. Contract!Stay /\ Contract!Keep(1)
  BY <1>1, <1>2, SameStack, RegionTo, StreamMoves
<1> QED BY <1>2, <1>3, Rewrites DEF Contract!Rewrite, Contract!HKept

\* An iteration in front of a tag's name.
LEMMA TagImplements == ASSUME IInv, HeadKept, StripTag PROVE Rewritten
<1>1. CtxState = "tag" /\ rest # <<>>
  BY DEF StripTag, Iterate
<1>2. /\ StackShape /\ 1 \in 1..Count /\ Cur = rest[1] /\ Pending = rest
      /\ Contract!Inside = "tag" /\ Contract!Sees(1)
  BY <1>1, Start, Sight, RegionOf
<1>3. CASE Cur = " " /\ Skip(1) /\ UNCHANGED stack
  <2>1. Contract!Stay /\ Contract!Omit(1)
    BY <1>1, <1>2, <1>3, SameStack, RegionTo, StreamMoves
  <2> QED BY <1>2, <1>3, <2>1, Rewrites DEF Contract!Rewrite, Contract!HTag, Pending
<1>4. CASE Cur = "/" /\ Copy(1) /\ PushState("tagname_end")
  <2>1. CtxState' = "tagname_end"
    BY <1>1, <1>2, <1>4, PushTo
  <2>2. Contract!Stay /\ Contract!Keep(1)
    BY <1>1, <1>2, <1>4, <2>1, RegionTo, StreamMoves
  <2> QED BY <1>2, <1>4, <2>2, Rewrites DEF Contract!Rewrite, Contract!HTag, Pending
<1>5. CASE Here /\ PushState("tagname")
  <2>1. CtxState' = "tagname"
    BY <1>1, <1>2, <1>5, PushTo
  <2> QED BY <1>1, <1>5, <2>1, RegionTo, Unseen
<1> QED BY <1>3, <1>4, <1>5 DEF StripTag

\* An iteration in a tag's name.
LEMMA TagnameImplements == ASSUME IInv, HeadKept, StripTagname PROVE Rewritten
<1>1. CtxState = "tagname" /\ rest # <<>> /\ Copy(1)
  BY DEF StripTagname, Iterate
<1>2. /\ StackShape /\ 1 \in 1..Count /\ Cur = rest[1] /\ Pending = rest
      /\ Contract!Inside = "tag" /\ Contract!Sees(1)
  BY <1>1, Start, Sight, RegionOf
<1>3. Contract!Keep(1)
  BY <1>1, <1>2, StreamMoves
<1>4. CASE Cur = ">" /\ SetState(IF IsSkipTag(tagName) THEN "skip" ELSE "text")
  <2>1. Contract!To("text") \/ Contract!To("kept")
    BY <1>4, SetTo, RegionTo
  <2> QED BY <1>2, <1>3, <1>4, <2>1, Rewrites DEF Contract!Rewrite, Contract!HTag, Pending
<1>5. CASE Cur # ">" /\ (Replace("tagatt") \/ UNCHANGED stack)
  <2>1. CtxState' \in {"tagname", "tagatt"}
    BY <1>1, <1>2, <1>5, ReplaceTo, SameStack
  <2>2. Contract!Stay
    BY <1>1, <2>1, RegionTo
  <2> QED BY <1>2, <1>3, <1>5, <2>2, Rewrites DEF Contract!Rewrite, Contract!HTag, Pending
<1> QED BY <1>4, <1>5 DEF StripTagname

\* An iteration among a tag's attributes.
LEMMA TagattImplements == ASSUME IInv, HeadKept, StripTagatt PROVE Rewritten
<1>1. CtxState = "tagatt" /\ rest # <<>>
  BY DEF StripTagatt, Iterate
<1>2. /\ StackShape /\ 1 \in 1..Count /\ (Count >= 2 => 2 \in 1..Count)
      /\ Cur = rest[1] /\ Pending = rest /\ rest \in Seq(Byte)
      /\ Contract!Inside = "tag" /\ Contract!Sees(1)
  BY <1>1, Start, Sight, RegionOf
<1>3. CASE Cur = " " /\ Skip(1) /\ UNCHANGED stack
  <2>1. Contract!Stay /\ Contract!Omit(1)
    BY <1>1, <1>2, <1>3, SameStack, RegionTo, StreamMoves
  <2> QED BY <1>2, <1>3, <2>1, Rewrites DEF Contract!Rewrite, Contract!HTag, Pending
<1>4. CASE Cur = ">" /\ Copy(1) /\ SetState(IF tagName # <<>> THEN "skip" ELSE "text")
  <2>1. Contract!To("text") \/ Contract!To("kept")
    BY <1>4, SetTo, RegionTo
  <2>2. Contract!Keep(1)
    BY <1>1, <1>2, <1>4, StreamMoves
  <2> QED BY <1>2, <1>4, <2>1, <2>2, Rewrites DEF Contract!Rewrite, Contract!HTag, Pending
<1>5. CASE Cur # ">" /\ Copy(1) /\ UNCHANGED stack
  <2>1. Contract!Stay /\ Contract!Keep(1)
    BY <1>1, <1>2, <1>5, SameStack, RegionTo, StreamMoves
  <2> QED BY <1>2, <1>5, <2>1, Rewrites DEF Contract!Rewrite, Contract!HTag, Pending
<1>6. CASE Cur = "/" /\ Differs(<<"/", ">">>) /\ Copy(2) /\ UNCHANGED stack
  <2>1. Count >= 2
    <3>1. Len(<<"/", ">">>) = 2
      OBVIOUS
    <3> QED BY <1>6, <3>1 DEF Differs, Has
  <2>2. /\ Contract!Stay /\ Contract!Keep(2)
        /\ ~Contract!Shows(<<"/", ">">>)
    BY <1>1, <1>2, <1>6, <2>1, SameStack, RegionTo, StreamMoves, Sight DEF Differs
  <2> QED BY <1>2, <1>6, <2>2, Rewrites DEF Contract!Rewrite, Contract!HTag, Pending
<1>7. CASE CacheRpos /\ UNCHANGED stack
  <2>1. Held /\ Contract!Stay
    BY <1>1, <1>2, <1>7, IsHeld, SameStack, RegionTo
  <2> QED BY <1>1, <2>1, Unseen
<1>8. Matches(<<"/", ">">>) => Cur # ">"
  <2>1. <<"/", ">">> \in Seq(Byte)
    BY ONLY HtmlAssumption
  <2>2. Len(<<"/", ">">>) = 2 /\ <<"/", ">">>[1] = "/"
    OBVIOUS
  <2>3. 1 \in 1..Len(<<"/", ">">>) /\ <<"/", ">">> # <<>>
    BY ONLY <2>2
  <2>4. Matches(<<"/", ">">>) => rest[1] = <<"/", ">">>[1]
    BY <1>2, <2>1, <2>3, MatchFacts
  <2> QED BY <1>2, <2>2, <2>4
<1> QED BY <1>3, <1>4, <1>5, <1>6, <1>7, <1>8 DEF StripTagatt

\* An iteration in an end tag's name.
LEMMA TagnameEndImplements == ASSUME IInv, HeadKept, StripTagnameEnd PROVE Rewritten
<1>1. CtxState = "tagname_end" /\ rest # <<>>
  BY DEF StripTagnameEnd, Iterate
<1>2. /\ StackShape /\ 1 \in 1..Count /\ Cur = rest[1] /\ Pending = rest
      /\ Contract!Inside = "tag" /\ Contract!Sees(1)
  BY <1>1, Start, Sight, RegionOf
<1>3. CASE Cur = " " /\ Skip(1) /\ UNCHANGED stack
  <2>1. Contract!Stay /\ Contract!Omit(1)
    BY <1>1, <1>2, <1>3, SameStack, RegionTo, StreamMoves
  <2> QED BY <1>2, <1>3, <2>1, Rewrites DEF Contract!Rewrite, Contract!HTag, Pending
<1>4. CASE Cur = ">" /\ Copy(1) /\ (SetState("text") \/ SetState("skip"))
  <2>1. Contract!To("text") \/ Contract!To("kept")
    BY <1>4, SetTo, RegionTo
  <2>2. Contract!Keep(1)
    BY <1>1, <1>2, <1>4, StreamMoves
  <2> QED BY <1>2, <1>4, <2>1, <2>2, Rewrites DEF Contract!Rewrite, Contract!HTag, Pending
<1>5. CASE Cur # ">" /\ Copy(1) /\ UNCHANGED stack
  <2>1. Contract!Stay /\ Contract!Keep(1)
    BY <1>1, <1>2, <1>5, SameStack, RegionTo, StreamMoves
  <2> QED BY <1>2, <1>5, <2>1, Rewrites DEF Contract!Rewrite, Contract!HTag, Pending
<1> QED BY <1>3, <1>4, <1>5 DEF StripTagnameEnd

\* What a "<!" stands for, or what is read in its place.
LEMMA BangSight ==
    ASSUME IInv, rest # <<>>, CtxState = "tag_bang", Count > 2
    PROVE  /\ (Contract!Inside = "text" /\ Contract!Shows(<<"<", "!">>)) \/ Contract!Inside = "bang"
           /\ Contract!Sees(3)
<1>1. /\ Count \in Nat /\ rest \in Seq(Byte) /\ Contract!Inside = Region
  BY Start, Sight
<1>2. CASE headless
  BY <1>1, <1>2, Sight, RegionOf
<1>3. CASE ~headless
  <2>1. rest[1] = "<" /\ rest[2] = "!"
    BY <1>3, Start DEF IInv, Opened
  <2>2. <<"<", "!">> \in Seq(Byte)
    BY ONLY HtmlAssumption
  <2>3. Len(<<"<", "!">>) = 2 /\ <<"<", "!">>[1] = "<" /\ <<"<", "!">>[2] = "!"
    OBVIOUS
  <2>4. <<"<", "!">> # <<>> /\ \A i \in 1..Len(<<"<", "!">>) : i = 1 \/ i = 2
    BY ONLY <2>3
  <2>5. Has(<<"<", "!">>)
    BY <1>1, <2>3 DEF Has
  <2>6. \A i \in 1..Len(<<"<", "!">>) : rest[i] = <<"<", "!">>[i]
    BY <2>1, <2>3, <2>4
  <2>7. Matches(<<"<", "!">>)
    BY <1>1, <2>2, <2>4, <2>5, <2>6, MatchFacts
  <2>8. Region = "text"
    BY <1>3, RegionOf DEF Undecided
  <2> QED BY <1>1, <2>7, <2>8, Sight
<1> QED BY <1>2, <1>3

\* An iteration at "<!", or at what a mark left of it.
LEMMA BangImplements == ASSUME IInv, HeadKept, StripTagBang PROVE Rewritten
<1>1. CtxState = "tag_bang" /\ rest # <<>>
  BY DEF StripTagBang, Iterate
<1>2. /\ StackShape /\ Count \in Nat /\ rest \in Seq(Byte) /\ 1 \in 1..Count
      /\ \A m \in Nat : m >= 1 /\ m <= Count => m \in 1..Count
      /\ Pending = rest /\ Contract!Inside = Region
      /\ Region = IF headless THEN "bang" ELSE "text"
      /\ \A m : Contract!Sees(m) <=> Count >= m
      /\ \A token : Contract!Shows(token) <=> Matches(token)
  BY <1>1, Start, Sight, RegionOf DEF Undecided
<1>3. Contract!CommentOpen = CommentOpen /\ Contract!CdataOpen = CdataOpen
  BY DEF CommentOpen, CdataOpen, Contract!CommentOpen, Contract!CdataOpen
<1>4. CASE Count > 2 /\ BangTag
  <2>1. CtxState' = "tag"
    BY <1>1, <1>2, <1>4, ReplaceTo DEF BangTag
  <2>2. Contract!To("tag")
    BY <2>1, RegionTo
  <2>3. CASE rest[3] \notin {"-", "["} /\ Copy(2)
    <3>1. Contract!Keep(2)
      BY <1>1, <1>2, <1>4, <2>3, StreamMoves
    <3>2. Contract!HMarkup
      BY <1>1, <1>2, <1>4, <2>2, <2>3, <3>1, BangSight DEF Contract!HMarkup, Pending
    <3> QED BY <3>2, Rewrites DEF Contract!Rewrite
  <2>4. CASE rest[3] = "-" /\ Differs(CommentOpen) /\ Copy(3)
    <3>1. Contract!Keep(3)
      BY <1>1, <1>2, <1>4, <2>4, StreamMoves
    <3>2. ~Contract!Shows(Contract!CommentOpen) /\ Contract!Sees(4)
      BY <1>2, <1>3, <2>4, TokenFacts DEF Differs, Has
    <3>3. Contract!HMarkup
      BY <1>1, <1>2, <1>4, <2>2, <2>4, <3>1, <3>2, BangSight DEF Contract!HMarkup, Pending
    <3> QED BY <3>3, Rewrites DEF Contract!Rewrite
  <2> QED BY <1>4, <2>3, <2>4 DEF BangTag
<1>5. CASE Matches(CommentOpen) /\ Here /\ PushState("comment")
  <2>1. CtxState' = "comment"
    BY <1>1, <1>2, <1>5, PushTo
  <2>2. CASE headless
    <3>1. Contract!To("text")
      BY <1>1, <2>1, RegionTo DEF Undecided
    <3>2. Contract!Look
      BY <1>1, <1>5, StreamMoves DEF Contract!Look, Pending
    <3>3. Contract!HHeadless
      BY <1>2, <1>3, <1>5, <2>2, <3>1, <3>2 DEF Contract!HHeadless
    <3> QED BY <3>3, Rewrites DEF Contract!Rewrite
  <2>3. CASE ~headless
    <3>1. Contract!Stay
      BY <1>1, <1>2, <2>1, <2>3, RegionTo DEF Undecided
    <3> QED BY <1>1, <1>5, <3>1, Unseen
  <2> QED BY <2>2, <2>3
<1>6. CASE (Withhold(CommentOpen) \/ Withhold(CdataOpen)) /\ UNCHANGED stack
  <2>1. Held
    BY <1>1, <1>6, TokenFacts, IsHeld
  <2> QED BY <1>1, <1>6, <2>1, RegionTo, Unseen
<1>7. CASE /\ Has(CdataOpen) /\ Copy(9)
           /\ \/ Matches(CdataOpen) /\ Replace("cdata")
              \/ rest[3] = "[" /\ ~Matches(CdataOpen) /\ SetState("text")
  <2>1. 9 \in 1..Count /\ Count > 2
    BY <1>2, <1>7, TokenFacts DEF Has
  <2>2. Contract!Keep(9)
    BY <1>1, <1>7, <2>1, StreamMoves
  <2>3. CASE Matches(CdataOpen) /\ Replace("cdata")
    <3>1. CtxState' = "cdata"
      BY <1>1, <1>2, <2>3, ReplaceTo
    <3>2. Contract!To("kept") /\ Contract!Shows(Contract!CdataOpen)
      BY <1>2, <1>3, <2>3, <3>1, RegionTo
    <3>3. Contract!HMarkup
      BY <1>1, <2>1, <2>2, <3>2, BangSight DEF Contract!HMarkup
    <3> QED BY <3>3, Rewrites DEF Contract!Rewrite
  <2>4. CASE rest[3] = "[" /\ ~Matches(CdataOpen) /\ SetState("text")
    <3>1. Contract!To("text") /\ ~Contract!Shows(Contract!CdataOpen)
      BY <1>2, <1>3, <2>4, SetTo, RegionTo
    <3>2. Contract!HMarkup
      BY <1>1, <1>2, <2>1, <2>2, <2>4, <3>1, BangSight DEF Contract!HMarkup, Pending
    <3> QED BY <3>2, Rewrites DEF Contract!Rewrite
  <2> QED BY <1>7, <2>3, <2>4
<1>8. CASE /\ Count > 2 /\ Here /\ SetState("abort")
           /\ \/ rest[3] = "-" /\ ~Has(CommentOpen) /\ ~Begins(CommentOpen)
              \/ rest[3] = "[" /\ ~Has(CdataOpen) /\ ~Begins(CdataOpen)
  <2>1. Contract!To("kept")
    BY <1>8, SetTo, RegionTo
  <2>2. Contract!Look
    BY <1>1, <1>8, StreamMoves DEF Contract!Look, Pending
  <2>3. /\ ~Begins(CommentOpen) => ~Contract!Begun(Contract!CommentOpen)
        /\ ~Begins(CdataOpen) => ~Contract!Begun(Contract!CdataOpen)
    BY <1>1, <1>3, TokenFacts, BegunBegins
  <2>4. \/ rest[3] = "-" /\ ~Contract!Sees(4) /\ ~Contract!Begun(Contract!CommentOpen)
        \/ rest[3] = "[" /\ ~Contract!Sees(9) /\ ~Contract!Begun(Contract!CdataOpen)
    BY <1>2, <1>8, <2>3, TokenFacts DEF Has
  <2>5. Contract!HMarkup
    BY <1>1, <1>2, <1>8, <2>1, <2>2, <2>4, BangSight DEF Contract!HMarkup, Pending
  <2> QED BY <2>5, Rewrites DEF Contract!Rewrite
<1>9. CASE BangShort
  <2>1. Count <= 2 /\ Copy(1) /\ SetState("text")
    BY <1>9 DEF BangShort
  <2>2. headless
    BY <1>1, <1>2, <2>1, Start DEF IInv, Opened, Count
  <2>3. Contract!To("text") /\ Contract!Keep(1) /\ ~Contract!Sees(3)
    BY <1>1, <1>2, <2>1, SetTo, RegionTo, StreamMoves
  <2>4. Contract!HHeadless
    BY <1>2, <2>2, <2>3 DEF Contract!HHeadless
  <2> QED BY <2>4, Rewrites DEF Contract!Rewrite
<1>10. CASE Count > 2 /\ BangComment
  BY <1>5, <1>6, <1>8, <1>10 DEF BangComment
<1>11. CASE Count > 2 /\ BangCdata
  <2>1. /\ Matches(CdataOpen) => Has(CdataOpen)
        /\ Differs(CdataOpen) => Has(CdataOpen) /\ ~Matches(CdataOpen)
    BY DEF Differs, Matches
  <2> QED BY <1>6, <1>7, <1>8, <1>11, <2>1 DEF BangCdata
<1> QED BY <1>4, <1>9, <1>10, <1>11 DEF StripTagBang

\* An iteration inside a CDATA section.
LEMMA CdataImplements == ASSUME IInv, HeadKept, StripCdata PROVE Rewritten
<1>1. CtxState = "cdata" /\ rest # <<>>
  BY DEF StripCdata, Iterate
<1>2. /\ StackShape /\ 1 \in 1..Count /\ Count \in Nat
      /\ Cur = rest[1] /\ Pending = rest
      /\ Contract!Inside = "kept" /\ Contract!Sees(1)
  BY <1>1, Start, Sight, RegionOf
<1>3. Has(CdataClose) => 3 \in 1..Count
  BY <1>2, TokenFacts DEF Has
<1>4. CASE Matches(CdataClose) /\ Copy(3) /\ SetState("text")
  <2>1. Contract!To("text")
    BY <1>4, SetTo, RegionTo
  <2>2. Contract!Keep(3)
    BY <1>1, <1>3, <1>4, StreamMoves DEF Matches
  <2>3. Contract!Shows(Contract!CdataClose)
    BY <1>1, <1>4, Sight DEF CdataClose, Contract!CdataClose
  <2> QED BY <1>2, <2>1, <2>2, <2>3, Rewrites DEF Contract!Rewrite, Contract!HKept
<1>5. CASE /\ (Cur = "]" /\ Differs(CdataClose) /\ Copy(3)) \/ Copy(1)
           /\ UNCHANGED stack
  <2>1. Contract!Stay
    BY <1>2, <1>5, SameStack, RegionTo
  <2>2. (rest[1] = "]" /\ Contract!Keep(3)) \/ Contract!Keep(1)
    BY <1>1, <1>2, <1>3, <1>5, StreamMoves DEF Differs
  <2> QED BY <1>2, <2>1, <2>2, Rewrites DEF Contract!Rewrite, Contract!HKept, Pending
<1>6. CASE Withhold(CdataClose) /\ UNCHANGED stack
  <2>1. Held /\ Contract!Stay
    BY <1>1, <1>2, <1>6, TokenFacts, IsHeld, SameStack, RegionTo
  <2> QED BY <1>1, <2>1, Unseen
<1> QED BY <1>4, <1>5, <1>6 DEF StripCdata

\* What a "<!--" stands for, or what is read in its place.
LEMMA DashesSight ==
    ASSUME IInv, rest # <<>>, CtxState = "comment"
    PROVE  /\ (Contract!Inside = "text" /\ Contract!Shows(CommentOpen)) \/ Contract!Inside = "dashes"
           /\ Contract!Inside = "dashes" <=> headless
           /\ ~headless => Count >= 4
<1>1. /\ Count \in Nat /\ rest \in Seq(Byte) /\ Contract!Inside = Region
      /\ Count = Len(rest) /\ Ahead = rest
  BY Start, Sight DEF Count
<1>2. CASE headless
  BY <1>1, <1>2, RegionOf
<1>3. CASE ~headless
  <2>1. Count >= 4 /\ \A i \in 1..4 : rest[i] = CommentOpen[i]
    BY <1>1, <1>3 DEF IInv, Opened
  <2>2. CommentOpen # <<>> /\ CommentOpen \in Seq(Byte) /\ Len(CommentOpen) = 4
    BY TokenFacts, EmptySeq
  <2>3. Matches(CommentOpen)
    BY <1>1, <2>1, <2>2, MatchFacts DEF Has
  <2>4. Region = "text"
    BY <1>3, RegionOf DEF Undecided
  <2> QED BY <1>1, <1>3, <2>1, <2>3, <2>4, Sight
<1> QED BY <1>2, <1>3

\* An iteration at "<!--", or at what a mark left of it.
LEMMA CommentImplements == ASSUME IInv, HeadKept, StripComment PROVE Rewritten
<1>1. CtxState = "comment" /\ rest # <<>>
  BY DEF StripComment, Iterate
<1>2. /\ StackShape /\ Count \in Nat /\ rest \in Seq(Byte) /\ Count \in 1..Count
      /\ \A m \in Nat : m >= 1 /\ m <= Count => m \in 1..Count
      /\ Pending = rest /\ Contract!Sees(1) /\ Count = Len(rest)
      /\ \A m : Contract!Sees(m) <=> Count >= m
      /\ \A token : Contract!Shows(token) <=> Matches(token)
  BY <1>1, Start, Sight DEF Count
<1>3. Contract!CommentOpen = CommentOpen /\ Contract!IeOpen = IeOpen
  BY IeOpenFacts DEF CommentOpen, Contract!CommentOpen, Contract!IeOpen
<1>4. CASE /\ Count > 4 /\ Skip(4) /\ Replace("comment_skip")
           /\ \/ rest[5] # "["
              \/ ~Matches(IeOpen) /\ (Has(IeOpen) \/ ~Begins(IeOpen))
  <2>1. CtxState' = "comment_skip"
    BY <1>1, <1>2, <1>4, ReplaceTo
  <2>2. Contract!To("comment")
    BY <2>1, RegionTo
  <2>3. Contract!Omit(4) /\ Contract!Sees(5)
    BY <1>1, <1>2, <1>4, StreamMoves
  <2>4. rest[5] # "[" \/ ~(Contract!Shows(Contract!IeOpen) \/ Contract!Begun(Contract!IeOpen))
    BY <1>1, <1>2, <1>3, <1>4, IeOpenFacts, BegunBegins
  <2>5. Contract!HDashes
    BY <1>1, <1>2, <1>3, <2>2, <2>3, <2>4, DashesSight DEF Contract!HDashes, Pending
  <2> QED BY <2>5, Rewrites DEF Contract!Rewrite
<1>5. CASE Matches(IeOpen) /\ Here /\ Replace("comment_ie")
  <2>1. CtxState' = "comment_ie"
    BY <1>1, <1>2, <1>5, ReplaceTo
  <2>2. Contract!To("ie")
    BY <2>1, RegionTo
  <2>3. Contract!Look
    BY <1>1, <1>5, StreamMoves DEF Contract!Look, Pending
  <2>4. Contract!Sees(5)
    BY <1>2, <1>5, IeOpenFacts DEF Matches, Has
  <2>5. Contract!HDashes
    BY <1>1, <1>2, <1>3, <1>5, <2>2, <2>3, <2>4, DashesSight DEF Contract!HDashes
  <2> QED BY <2>5, Rewrites DEF Contract!Rewrite
<1>6. CASE (Withhold(CommentOpen) \/ Withhold(IeOpen)) /\ UNCHANGED stack
  <2>1. Held
    BY <1>1, <1>6, TokenFacts, IeOpenFacts, IsHeld
  <2> QED BY <1>1, <1>6, <2>1, RegionTo, Unseen
<1>7. CASE Here /\ UNCHANGED stack
  BY <1>1, <1>7, RegionTo, Unseen
<1>8. CASE CommentShort
  <2>1. CASE /\ rest' = <<>> /\ UNCHANGED <<dst, cache>>
             /\ Replace("comment_skip")
    <3>1. CtxState' = "comment_skip"
      BY <1>1, <1>2, <2>1, ReplaceTo
    <3>2. Contract!To("comment")
      BY <3>1, RegionTo
    <3>3. Skip(Count)
      BY <1>2, <2>1, SkipAll DEF Skip
    <3>4. Contract!Omit(Count) /\ Len(Pending) = Count
      BY <1>1, <1>2, <3>3, StreamMoves
    <3>5. Contract!Inside = "dashes" /\ ~Contract!Sees(4)
      BY <1>1, <1>2, <1>8, DashesSight DEF CommentShort
    <3>6. Contract!HHeadless
      BY <1>2, <3>2, <3>4, <3>5 DEF Contract!HHeadless, Pending
    <3> QED BY <3>6, Rewrites DEF Contract!Rewrite
  <2> QED BY <1>6, <1>8, <2>1 DEF CommentShort
<1>9. CASE CommentHead
  <2>1. Has(IeOpen) => Count > 4
    BY <1>2, IeOpenFacts DEF Has
  <2> QED BY <1>4, <1>5, <1>6, <1>7, <1>9, <2>1 DEF CommentHead
<1> QED BY <1>8, <1>9 DEF StripComment

\* An iteration inside a comment that is kept.
LEMMA CommentIeImplements == ASSUME IInv, HeadKept, StripCommentIe PROVE Rewritten
<1>1. CtxState = "comment_ie" /\ rest # <<>>
  BY DEF StripCommentIe, Iterate
<1>2. /\ StackShape /\ 1 \in 1..Count /\ Count \in Nat
      /\ Cur = rest[1] /\ Pending = rest
      /\ Contract!Inside = "ie" /\ Contract!Sees(1)
  BY <1>1, Start, Sight, RegionOf
<1>3. Has(IeClose) => 4 \in 1..Count
  BY <1>2, TokenFacts DEF Has
<1>4. CASE Matches(IeClose) /\ Copy(4) /\ SetState("text")
  <2>1. Contract!To("text")
    BY <1>4, SetTo, RegionTo
  <2>2. Contract!Keep(4)
    BY <1>1, <1>3, <1>4, StreamMoves DEF Matches
  <2>3. Contract!Shows(Contract!IeClose)
    BY <1>1, <1>4, Sight DEF IeClose, Contract!IeClose
  <2> QED BY <1>2, <2>1, <2>2, <2>3, Rewrites DEF Contract!Rewrite, Contract!HIe
<1>5. CASE /\ \/ Cur = "]" /\ Differs(IeClose) /\ Copy(4)
              \/ Cur = "]" /\ ~Has(IeClose) /\ ~Begins(IeClose) /\ Skip(1)
              \/ Cur # "]" /\ Copy(1)
           /\ UNCHANGED stack
  <2>1. Contract!Stay
    BY <1>2, <1>5, SameStack, RegionTo
  <2>3. /\ Contract!IeClose = IeClose
        /\ Contract!Shows(IeClose) => Matches(IeClose)
        /\ Contract!Begun(IeClose) => Begins(IeClose) /\ ~Has(IeClose)
    BY <1>1, Sight, TokenFacts, BegunBegins DEF IeClose, Contract!IeClose
  <2>2. \/ /\ rest[1] = "]" /\ (Contract!Keep(4) \/ Contract!Omit(1))
           /\ ~Contract!Shows(Contract!IeClose) /\ ~Contract!Begun(Contract!IeClose)
        \/ rest[1] # "]" /\ Contract!Keep(1)
    BY <1>1, <1>2, <1>3, <1>5, <2>3, StreamMoves DEF Differs, Matches
  <2> QED BY <1>2, <2>1, <2>2, Rewrites DEF Contract!Rewrite, Contract!HIe, Pending
<1>6. CASE Withhold(IeClose) /\ UNCHANGED stack
  <2>1. Held /\ Contract!Stay
    BY <1>1, <1>2, <1>6, TokenFacts, IsHeld, SameStack, RegionTo
  <2> QED BY <1>1, <2>1, Unseen
<1> QED BY <1>4, <1>5, <1>6 DEF StripCommentIe

\* An iteration inside a comment that is dropped.
LEMMA CommentSkipImplements == ASSUME IInv, HeadKept, StripCommentSkip PROVE Rewritten
<1>1. CtxState = "comment_skip" /\ rest # <<>>
  BY DEF StripCommentSkip, Iterate
<1>2. /\ StackShape /\ 1 \in 1..Count /\ Count \in Nat
      /\ Cur = rest[1] /\ Pending = rest
      /\ Contract!Inside = "comment" /\ Contract!Sees(1)
  BY <1>1, Start, Sight, RegionOf
<1>3. Has(CommentClose) => 3 \in 1..Count
  BY <1>2, TokenFacts DEF Has
<1>4. /\ Contract!CommentClose = CommentClose
      /\ Contract!Shows(CommentClose) <=> Matches(CommentClose)
      /\ Contract!Begun(CommentClose) => Begins(CommentClose) /\ ~Has(CommentClose)
  BY <1>1, Sight, TokenFacts, BegunBegins DEF CommentClose, Contract!CommentClose
<1>5. CASE Matches(CommentClose) /\ Skip(3) /\ SetState("text")
  <2>1. Contract!To("text")
    BY <1>5, SetTo, RegionTo
  <2>2. Contract!Omit(3)
    BY <1>1, <1>3, <1>5, StreamMoves DEF Matches
  <2> QED BY <1>2, <1>4, <1>5, <2>1, <2>2, Rewrites
          DEF Contract!Rewrite, Contract!HComment
<1>6. CASE /\ \/ Cur = "-" /\ Differs(CommentClose) /\ Skip(3)
              \/ Cur = "-" /\ ~Has(CommentClose) /\ ~Begins(CommentClose) /\ Skip(1)
              \/ Cur # "-" /\ Skip(1)
           /\ UNCHANGED stack
  <2>1. Contract!Stay
    BY <1>2, <1>6, SameStack, RegionTo
  <2>2. \/ /\ rest[1] = "-" /\ ~Matches(CommentClose) /\ ~Contract!Begun(CommentClose)
           /\ Contract!Omit(1) \/ Contract!Omit(3)
        \/ rest[1] # "-" /\ Contract!Omit(1)
    <3>1. Skip(1) => Contract!Omit(1)
      BY <1>1, <1>2, StreamMoves
    <3>2. Has(CommentClose) /\ Skip(3) => Contract!Omit(3)
      BY <1>1, <1>3, StreamMoves
    <3> QED BY <1>2, <1>4, <1>6, <3>1, <3>2 DEF Differs, Matches
  <2> QED BY <1>2, <1>4, <2>1, <2>2, Rewrites
          DEF Contract!Rewrite, Contract!HComment, Pending
<1>7. CASE Withhold(CommentClose) /\ UNCHANGED stack
  <2>1. Held /\ Contract!Stay
    BY <1>1, <1>2, <1>7, TokenFacts, IsHeld, SameStack, RegionTo
  <2> QED BY <1>1, <2>1, Unseen
<1> QED BY <1>5, <1>6, <1>7 DEF StripCommentSkip

\* What a mark finds withheld is the begun token it may take with it.
LEMMA HeldIsBegun ==
    ASSUME IInv, rest = <<>>, cache # <<>>, Pending = cache
    PROVE  /\ CtxState \notin {"abort", "tag", "tagname", "tagname_end"}
           /\ \E token \in Awaited : Contract!Begun(token)
           /\ CtxState = "tag_bang" => Contract!Sees(3)
           /\ CtxState = "comment" /\ ~headless => Contract!Sees(4)
<1>1. Len(cache) \in Nat /\ Ahead = cache
  BY LenProperties DEF IInv, TypeOK, CtxTypeOK, Ahead
<1>2. /\ CtxState \notin {"abort", "tag", "tagname", "tagname_end"}
      /\ \E token \in Awaited :
            /\ Len(cache) < Len(token)
            /\ \A i \in 1..Len(cache) : Lower[cache[i]] = Lower[token[i]]
  BY DEF IInv, WithheldToken
<1>3. \E token \in Awaited : Contract!Begun(token)
  BY <1>2 DEF Contract!Begun, Pending
<1>4. CtxState = "tag_bang" => Contract!Sees(3)
  BY <1>1 DEF IInv, Opened, HeadInv, Contract!Sees, Pending
<1>5. CtxState = "comment" /\ ~headless => Contract!Sees(4)
  BY <1>1 DEF IInv, Opened, Contract!Sees, Pending
<1> QED BY <1>2, <1>3, <1>4, <1>5

\* A buffer that is not in memory takes it.
LEMMA SpecialLoses ==
    ASSUME IInv, ReceiveSpecial, cache # <<>>, rest = <<>>, Contract!LosePending,
           Pending = cache, headless' = (headless \/ CtxState \in Undecided)
    PROVE  Contract!HLose
<1>1. stack' = stack /\ CtxState' = CtxState /\ CtxState \in State
  BY ShapeOf DEF ReceiveSpecial, EnterMinifier, CtxState, IInv
<1>2. /\ CtxState \notin {"abort", "tag", "tagname", "tagname_end"}
      /\ \E token \in Awaited : Contract!Begun(token)
      /\ CtxState = "tag_bang" => Contract!Sees(3)
      /\ CtxState = "comment" /\ ~headless => Contract!Sees(4)
  BY HeldIsBegun
<1>3. Contract!Inside = Region /\ headless \in BOOLEAN
  <2>1. Len(<<Region>>) = 1 /\ <<Region>>[1] = Region
    OBVIOUS
  <2> QED BY <2>1 DEF Contract!Inside, IInv, TypeOK
<1>4. CASE CtxState = "tag_bang"
  <2>1. Region \in {"text", "bang"} /\ Region' = "bang"
    BY <1>1, <1>3, <1>4 DEF Region, Undecided, InTag
  <2>2. Contract!Begun(Contract!CommentOpen) \/ Contract!Begun(Contract!CdataOpen)
    BY <1>2, <1>4 DEF Awaited, CommentOpen, CdataOpen, Contract!CommentOpen,
       Contract!CdataOpen
  <2> QED BY <1>2, <1>3, <1>4, <2>1, <2>2 DEF Contract!HLose, Contract!To
<1>5. CASE CtxState = "comment"
  <2>1. Region' = "dashes" /\ Region = IF headless THEN "dashes" ELSE "text"
    BY <1>1, <1>3, <1>5 DEF Region, Undecided, InTag
  <2>2. Contract!Begun(Contract!IeOpen)
    BY <1>2, <1>5, IeOpenFacts DEF Awaited, Contract!IeOpen
  <2> QED BY <1>2, <1>3, <1>5, <2>1, <2>2
          DEF Contract!HLose, Contract!To, Contract!Stay
<1>6. CASE CtxState \notin Undecided
  <2>1. ~headless /\ ~headless'
    BY <1>3, <1>6 DEF IInv, HeadInv
  <2>2. Region' = Region
    BY <1>1, <2>1 DEF Region
  <2>3. Contract!Stay
    BY <2>2 DEF Contract!Stay
  <2>4. /\ CtxState \in {"text", "skip", "cdata", "tagatt", "comment_ie", "comment_skip"}
        /\ CtxState = "text" => Awaited = {<<"<", "!", "-">>} /\ Region = "text"
        /\ CtxState = "skip" => Awaited = {<<"<", "/">>} /\ Region = "kept"
        /\ CtxState = "cdata" => Awaited = {Contract!CdataClose} /\ Region = "kept"
        /\ CtxState = "tagatt" => Awaited = {<<"/", ">">>} /\ Region = "tag"
        /\ CtxState = "comment_ie" => Awaited = {Contract!IeClose} /\ Region = "ie"
        /\ CtxState = "comment_skip" => Awaited = {Contract!CommentClose} /\ Region = "comment"
    BY <1>1, <1>2, <1>6, RegionOf
       DEF Undecided, State, InTag, InComment, Awaited, CdataClose, IeClose, CommentClose,
           Contract!CdataClose, Contract!IeClose, Contract!CommentClose
  <2> QED BY <1>2, <1>3, <2>3, <2>4 DEF Contract!HLose
<1> QED BY <1>4, <1>5, <1>6 DEF Undecided

\* A received buffer extends the stream behind the withheld bytes; one that is
\* not in memory loses them, or does nothing when there are none.
LEMMA ReceiveImplements == ASSUME IInv, ReceiveBuffer PROVE Implements
<1>1. Bytes /\ inMemory \in BOOLEAN /\ headless \in BOOLEAN
  BY DEF IInv, TypeOK, CtxTypeOK, Bytes
<1>2. /\ rest' \in Seq(Byte) /\ cache' = <<>> /\ dst' = <<>>
      /\ stack' = stack /\ ~busy
  BY <1>1, ReceiveFacts DEF ReceiveBuffer
<1>3. rest = <<>> /\ dst = <<>>
  BY <1>2 DEF IInv, Idle
<1>4. Pending = cache
  <2>1. cache \o <<>> = cache
    BY <1>1 DEF Bytes
  <2> QED BY <1>3, <2>1 DEF Pending
<1>5. Pending' = rest'
  <2>1. <<>> \o rest' = rest'
    BY ONLY <1>2
  <2> QED BY <1>2, <2>1 DEF Pending
<1>6. headless' = headless => Region' = Region
  BY <1>2 DEF Region, CtxState
<1>7. ASSUME NEW chunk \in Chunk, Receive(chunk), headless' = headless
      PROVE  Contract!Arrive
  <2>1. rest' = cache \o chunk /\ chunk \in Seq(Byte) /\ inMemory' = TRUE
    BY <1>1, <1>7, ReceiveAppends
  <2>2. /\ cache \o chunk \in Seq(Byte)
        /\ Len(cache \o chunk) >= Len(cache)
        /\ \A i \in 1..Len(cache) : (cache \o chunk)[i] = cache[i]
    BY <1>1, <2>1 DEF Bytes
  <2> QED BY <1>2, <1>3, <1>4, <1>5, <1>6, <1>7, <2>1, <2>2 DEF Contract!Arrive, Pending
<1>8. ASSUME ReceiveSpecial,
             headless' = (headless \/ (cache # <<>> /\ CtxState \in Undecided))
      PROVE  Contract!Flush \/ Contract!HLose
  <2>1. rest' = <<>> /\ inMemory' = FALSE
    BY <1>8 DEF ReceiveSpecial, EnterMinifier
  <2>2. CASE cache = <<>>
    <3>1. headless' = headless
      BY <1>1, <1>8, <2>2
    <3> QED BY <1>2, <1>3, <1>4, <1>5, <1>6, <2>1, <2>2, <3>1 DEF Contract!Flush, Pending
  <2>3. CASE cache # <<>>
    <3>1. inMemory
      BY <2>3 DEF IInv, SpecialEmpty
    <3>2. Contract!LosePending
      BY <1>2, <1>3, <1>4, <1>5, <2>1, <2>3, <3>1 DEF Contract!LosePending, Pending
    <3> QED BY <1>3, <1>4, <1>8, <2>3, <3>2, SpecialLoses
  <2> QED BY <2>2, <2>3
<1>9. CASE ReceiveSpecial /\ headless' = (headless \/ (cache # <<>> /\ CtxState \in Undecided))
  BY <1>8, <1>9 DEF Implements, Contract!HNext
<1>10. CASE (\E chunk \in Chunk : Receive(chunk)) /\ UNCHANGED headless
  BY <1>7, <1>10 DEF Implements, Contract!HNext
<1> QED BY <1>9, <1>10 DEF ReceiveBuffer

\* However the response is cut into buffers, in memory or not, the minifier is
\* a step-by-step implementation of the contract of the whole stream: what is
\* lost is lost where the contract says so, a begun token at a flush included,
\* and nothing is doubled, reordered or invented.
THEOREM Refinement == Spec => ImplementsContract
<1>1. Init => Contract!CInit
  <2>1. <<>> \o <<>> = <<>>
    OBVIOUS
  <2>2. CtxInit => Region = "text"
    BY RegionOf DEF CtxInit, CtxState
  <2> QED BY <2>1, <2>2 DEF Init, CtxInit, Contract!CInit, NUL
<1>2. IInv /\ [Next]_vars => Implements
  <2> SUFFICES ASSUME IInv, [Next]_vars PROVE Implements
    OBVIOUS
  <2>1. CASE ReceiveBuffer
    BY <2>1, ReceiveImplements
  <2>2. CASE StripBuffer
    <3>1. HeadKept /\ inMemory' = inMemory
      BY <2>2, BufferFacts DEF IterationFacts
    <3>2. Rewritten
      BY <2>2, <3>1, TextImplements, SkipImplements, AbortImplements, TagImplements,
         BangImplements, CdataImplements, TagnameImplements, TagattImplements,
         TagnameEndImplements, CommentImplements, CommentIeImplements,
         CommentSkipImplements DEF StripBuffer
    <3>3. CASE Contract!Rewrite
      BY <3>1, <3>3 DEF Implements, Contract!HNext
    <3>4. CASE UNCHANGED <<Pending, dst, Region>>
      BY <3>1, <3>4 DEF Implements, Contract!cvars, Pending
    <3> QED BY <3>2, <3>3, <3>4 DEF Rewritten
  <2>3. CASE DeliverBuffer
    <3>1. dst' = <<>> /\ UNCHANGED <<rest, cache, stack, headless, inMemory>>
      BY <2>3 DEF DeliverBuffer, Deliver
    <3>2. Region' = Region
      BY <3>1 DEF Region, CtxState
    <3>3. Contract!Send
      BY <3>1, <3>2 DEF Contract!Send
    <3> QED BY <3>1, <3>3 DEF Implements, Contract!HNext
  <2>4. CASE UNCHANGED vars
    <3>1. UNCHANGED <<rest, cache, stack, dst, headless, inMemory>>
      BY <2>4 DEF vars, ctxVars
    <3>2. Region' = Region
      BY <3>1 DEF Region, CtxState
    <3> QED BY <3>1, <3>2 DEF Implements, Contract!cvars
  <2> QED BY <2>1, <2>2, <2>3, <2>4 DEF Next
<1>3. IInv /\ [Next]_vars => [Contract!HNext]_(Contract!cvars)
  BY <1>2 DEF Implements
<1> QED BY <1>1, <1>3, Invariance, PTL DEF Spec, ImplementsContract, Contract!HSpec

==============================================================================
