-------------------------- MODULE JsMinify_proofs ---------------------------
(***************************************************************************)
(* Proofs about JsMinify, for every document, every set of bytes and every *)
(* way of cutting the document into buffers.                               *)
(***************************************************************************)
EXTENDS JsMinify, MinifyCtx_proofs

\* Between two buffers nothing is read or written.
Idle == ~busy => rest = <<>> /\ dst = <<>>

StackInv == stack \in Seq(State) /\ StackShape

IInv == TypeOK /\ StackInv /\ Idle /\ InPlace /\ WithheldOne /\ SpecialEmpty

\* What makes BlanksCollapse inductive: wherever the text goes on next, a
\* blank or newline at the end of the buffer is known to pre_char.
BlankSeen ==
    /\ dst # <<>> /\ CtxState \in {"text", "comment"} =>
           /\ dst[Len(dst)] \in Blanks => pre \in Blanks \cup {"\n"}
           /\ dst[Len(dst)] = "\n" => pre = "\n"
    /\ CtxState = "quote" => quote \in {"\"", "'", "]"}

------------------------------------------------------------------------------
(* The state stack                                                         *)

\* Everything opens on the text.
LEMMA PushFacts ==
    ASSUME StackInv, NEW s \in {"comment", "comment_line", "quote"},
           CtxState = "text", PushState(s)
    PROVE  StackInv' /\ CtxState' = s
<1>1. stack \in Seq(State) /\ s \in State /\ stack' = Append(stack, s)
  BY DEF StackInv, PushState, State
<1>2. Len(stack) = 1 /\ stack[1] = "text"
  BY DEF StackInv, StackShape, CtxState
<1>3. /\ stack' \in Seq(State) /\ Len(stack') = Len(stack) + 1
      /\ stack'[Len(stack) + 1] = s
      /\ \A i \in 1..Len(stack) : stack'[i] = stack[i]
  BY ONLY <1>1
<1> QED BY <1>2, <1>3 DEF StackInv, StackShape, CtxState

\* And is left for the text.
LEMMA PopFacts ==
    ASSUME StackInv, CtxState # "text", PopState
    PROVE  StackInv' /\ CtxState' = "text"
<1>1. stack \in Seq(State) /\ stack' = SubSeq(stack, 1, Len(stack) - 1)
  BY DEF StackInv, PopState
<1>2. Len(stack) = 2 /\ stack[1] = "text"
  BY DEF StackInv, StackShape, CtxState
<1>3. 1 \in 1..Len(stack) /\ Len(stack) - 1 = 1
  BY ONLY <1>2
<1>4. /\ SubSeq(stack, 1, 1) \in Seq(State) /\ Len(SubSeq(stack, 1, 1)) = 1
      /\ SubSeq(stack, 1, 1)[1] = stack[1]
  BY ONLY <1>1, <1>3
<1>5. stack' = SubSeq(stack, 1, 1)
  BY ONLY <1>1, <1>3
<1> QED BY <1>2, <1>4, <1>5 DEF StackInv, StackShape, CtxState

\* The shape is about the stack alone.
LEMMA SameStack ==
    ASSUME StackInv, UNCHANGED stack PROVE StackInv' /\ CtxState' = CtxState
BY DEF StackInv, StackShape, CtxState

------------------------------------------------------------------------------
(* One iteration of the loop                                               *)

\* The byte whose token the state completes in the next buffer.
Awaited(c) ==
    \/ CtxState = "text" /\ c = "/"
    \/ CtxState = "comment" /\ c = "*"
    \/ CtxState = "quote" /\ c = "\\"

\* Every iteration is one of the moves, keeps the stack in shape, and
\* withholds a byte only if it is the one its state waits for.
IterationFacts ==
    /\ busy /\ rest # <<>> /\ UNCHANGED <<size, busy, inMemory>>
    /\ Moves
    /\ StackInv'
    /\ quote' \in Byte \cup {NUL}
    /\ nochange' \in BOOLEAN
    /\ UpdatePre \/ pre' \in Byte \cup {NUL}
    /\ CacheRpos => stack' = stack /\ Awaited(Cur)

\* What the lemmas about one iteration start from.
LEMMA Start ==
    ASSUME IInv, rest # <<>>
    PROVE  /\ Bytes /\ StackInv /\ Cur \in Byte
           /\ quote \in Byte \cup {NUL} /\ pre \in Byte \cup {NUL}
<1>1. Bytes
  BY DEF IInv, TypeOK, CtxTypeOK, Bytes
<1> QED BY <1>1, CurIsByte DEF IInv, TypeOK, CtxTypeOK

\* An iteration in the text.
LEMMA TextFacts ==
    ASSUME IInv, StripText
    PROVE  IterationFacts
<1>1. /\ busy /\ rest # <<>> /\ CtxState = "text" /\ UNCHANGED <<size, busy, inMemory>>
  BY DEF StripText, Iterate
<1>2. Bytes /\ StackInv /\ Cur \in Byte /\ quote \in Byte \cup {NUL}
  BY <1>1, Start
<1>3. CASE SkipBlank
  BY <1>1, <1>2, <1>3, SameStack, OnlyCacheRposCaches DEF SkipBlank, IterationFacts, Moves
<1>4. CASE Slash
  <2>1. CASE StartsWith("/", "*") /\ IncRposTwice /\ PushState("comment")
    BY <1>1, <1>2, <1>4, <2>1, PushFacts, OnlyCacheRposCaches
       DEF Slash, IterationFacts, Moves, StartsWith
  <2>2. CASE StartsWith("/", "/") /\ IncRposTwice /\ PushState("comment_line")
    BY <1>1, <1>2, <1>4, <2>2, PushFacts, OnlyCacheRposCaches
       DEF Slash, IterationFacts, Moves, StartsWith
  <2>3. CASE Count >= 2 /\ CopyRposTwice /\ UNCHANGED stack
    BY <1>1, <1>2, <1>4, <2>3, SameStack, OnlyCacheRposCaches DEF Slash, IterationFacts, Moves
  <2>4. CASE CacheRpos /\ UNCHANGED stack
    BY <1>1, <1>2, <1>4, <2>4, SameStack DEF Slash, IterationFacts, Moves, Awaited
  <2> QED BY <1>4, <2>1, <2>2, <2>3, <2>4 DEF Slash
<1>5. CASE OpenQuote
  <2>1. quote' \in Byte
    BY <1>2, <1>5, ByteAssumption DEF OpenQuote
  <2> QED BY <1>1, <1>2, <1>5, <2>1, PushFacts, OnlyCacheRposCaches
             DEF OpenQuote, IterationFacts, Moves
<1>6. CASE KeepNewLine
  BY <1>1, <1>2, <1>6, SameStack, OnlyCacheRposCaches DEF KeepNewLine, IterationFacts, Moves
<1>7. CASE SkipNewLine
  BY <1>1, <1>2, <1>7, SameStack, OnlyCacheRposCaches DEF SkipNewLine, IterationFacts, Moves
<1>8. CASE SkipReturn
  BY <1>1, <1>2, <1>8, SameStack, OnlyCacheRposCaches DEF SkipReturn, IterationFacts, Moves
<1>9. CASE TextOther
  BY <1>1, <1>2, <1>9, SameStack, OnlyCacheRposCaches DEF TextOther, IterationFacts, Moves
<1> QED BY <1>3, <1>4, <1>5, <1>6, <1>7, <1>8, <1>9 DEF StripText

\* An iteration inside a comment.
LEMMA CommentFacts ==
    ASSUME IInv, StripComment
    PROVE  IterationFacts
<1>1. /\ busy /\ rest # <<>> /\ CtxState = "comment" /\ UNCHANGED <<size, busy, inMemory>>
      /\ nochange' \in BOOLEAN /\ UpdatePre /\ quote' = quote
  BY DEF StripComment, Iterate
<1>2. Bytes /\ StackInv /\ quote \in Byte \cup {NUL}
  BY <1>1, Start
<1>3. CASE StartsWith("*", "/") /\ IncRposTwice /\ PopState
  BY <1>1, <1>2, <1>3, PopFacts, OnlyCacheRposCaches DEF IterationFacts, Moves, StartsWith
<1>4. CASE Cur = "*" /\ CacheRpos /\ UNCHANGED stack
  BY <1>1, <1>2, <1>4, SameStack DEF IterationFacts, Moves, Awaited
<1>5. CASE IncRpos /\ UNCHANGED stack
  BY <1>1, <1>2, <1>5, SameStack, OnlyCacheRposCaches DEF IterationFacts, Moves
<1> QED BY <1>3, <1>4, <1>5 DEF StripComment

\* An iteration inside a line comment.
LEMMA LineCommentFacts ==
    ASSUME IInv, StripLineComment
    PROVE  IterationFacts
<1>1. /\ busy /\ rest # <<>> /\ CtxState = "comment_line" /\ UNCHANGED <<size, busy, inMemory>>
      /\ nochange' \in BOOLEAN /\ quote' = quote
  BY DEF StripLineComment, Iterate
<1>2. /\ Bytes /\ StackInv /\ Cur \in Byte /\ quote \in Byte \cup {NUL}
      /\ pre \in Byte \cup {NUL}
  BY <1>1, Start
<1>3. CASE Cur = "\n" /\ CopyChar(" ") /\ PopState /\ pre' = "\n"
  <2>1. \E c \in Byte : CopyChar(c)
    BY <1>3, ByteAssumption
  <2> QED BY <1>1, <1>2, <1>3, <2>1, PopFacts, OnlyCacheRposCaches DEF IterationFacts, Moves
<1>4. CASE IncRpos /\ UNCHANGED <<stack, pre>>
  BY <1>1, <1>2, <1>4, SameStack, OnlyCacheRposCaches DEF IterationFacts, Moves
<1> QED BY <1>3, <1>4 DEF StripLineComment

\* An iteration inside a quoted text.
LEMMA QuoteFacts ==
    ASSUME IInv, StripQuote
    PROVE  IterationFacts
<1>1. /\ busy /\ rest # <<>> /\ CtxState = "quote" /\ UNCHANGED <<size, busy, inMemory>>
      /\ nochange' \in BOOLEAN /\ UpdatePre /\ quote' = quote
  BY DEF StripQuote, Iterate
<1>2. Bytes /\ StackInv /\ quote \in Byte \cup {NUL}
  BY <1>1, Start
<1>3. CASE Count > 1 /\ CopyRposTwice /\ UNCHANGED stack
  <2>1. Count >= 2
    BY <1>2, <1>3 DEF Count, Bytes
  <2> QED BY <1>1, <1>2, <1>3, <2>1, SameStack, OnlyCacheRposCaches DEF IterationFacts, Moves
<1>4. CASE Cur = "\\" /\ CacheRpos /\ UNCHANGED stack
  BY <1>1, <1>2, <1>4, SameStack DEF IterationFacts, Moves, Awaited
<1>5. CASE CopyRpos /\ PopState
  BY <1>1, <1>2, <1>5, PopFacts, OnlyCacheRposCaches DEF IterationFacts, Moves
<1>6. CASE CopyRpos /\ UNCHANGED stack
  BY <1>1, <1>2, <1>6, SameStack, OnlyCacheRposCaches DEF IterationFacts, Moves
<1> QED BY <1>3, <1>4, <1>5, <1>6 DEF StripQuote

\* An iteration keeps the invariant.
LEMMA IterationKeepsIInv ==
    ASSUME IInv, IterationFacts
    PROVE  IInv'
<1>1. Bytes /\ rest # <<>> /\ Moves /\ busy /\ cache = <<>>
  BY DEF IInv, TypeOK, CtxTypeOK, Bytes, IterationFacts, WithheldOne
<1>2. /\ rest' \in Seq(Byte) /\ dst' \in Seq(Byte) /\ cache' \in Seq(Byte)
      /\ Len(dst') + Len(rest') + Len(cache') <= Len(dst) + Len(rest) + Len(cache)
      /\ cache' = cache \/ (rest' = <<>> /\ cache' = Append(cache, Cur))
  BY <1>1, MoveFacts
<1>3. pre' \in Byte \cup {NUL}
  BY <1>2, UpdatePreType DEF IInv, TypeOK, CtxTypeOK, IterationFacts
<1>4. TypeOK'
  BY <1>2, <1>3 DEF IInv, TypeOK, CtxTypeOK, IterationFacts, StackInv
<1>5. Idle' /\ StackInv'
  BY <1>1 DEF IterationFacts, Idle
<1>6. InPlace'
  <2>1. Len(dst) + Len(rest) + Len(cache) <= size
    BY <1>1 DEF IInv, InPlace
  <2>2. /\ size' = size /\ size \in Nat
        /\ Len(dst) \in Nat /\ Len(rest) \in Nat /\ Len(cache) \in Nat
        /\ Len(dst') \in Nat /\ Len(rest') \in Nat /\ Len(cache') \in Nat
    BY <1>1, <1>2 DEF IterationFacts, IInv, TypeOK, CtxTypeOK, Bytes
  <2>3. Len(dst') + Len(rest') + Len(cache') <= size'
    BY ONLY <1>2, <2>1, <2>2
  <2> QED BY <2>3 DEF InPlace
<1>7. WithheldOne'
  <2>1. CASE CacheRpos
    <3>1. rest' = <<>> /\ cache' = <<Cur>>
      <4>1. cache' = Append(<<>>, Cur) /\ Cur \in Byte
        BY <1>1, <2>1, CurIsByte DEF CacheRpos
      <4>2. Len(cache') = 1
        BY <4>1
      <4> QED BY <1>1, <1>2, <4>1, <4>2
    <3>2. CtxState' = CtxState
      BY <2>1 DEF IterationFacts, CtxState
    <3>3. Awaited(Cur)
      BY <2>1 DEF IterationFacts
    <3> QED BY <3>1, <3>2, <3>3 DEF WithheldOne, Awaited
  <2>2. CASE ~CacheRpos
    BY <1>1, <2>2, OnlyCacheRposCaches DEF Moves, WithheldOne
  <2> QED BY <2>1, <2>2
<1>8. SpecialEmpty'
  BY <1>1 DEF IInv, SpecialEmpty, IterationFacts
<1> QED BY <1>4, <1>5, <1>6, <1>7, <1>8 DEF IInv

\* A received buffer: its size is what it holds, the withheld bytes included.
LEMMA ReceiveKeepsIInv ==
    ASSUME IInv, ReceiveBuffer
    PROVE  IInv'
<1>3. Bytes
  BY DEF IInv, TypeOK, CtxTypeOK, Bytes
<1>4. /\ rest' \in Seq(Byte) /\ dst' \in Seq(Byte) /\ cache' \in Seq(Byte)
      /\ dst' = <<>> /\ cache' = <<>> /\ busy' = TRUE
      /\ size' = Len(rest') /\ size' \in Nat
      /\ stack' = stack /\ quote' = quote /\ pre' = pre /\ nochange' = nochange
      /\ inMemory' \in BOOLEAN /\ SpecialEmpty'
  BY <1>3, ReceiveFacts DEF ReceiveBuffer
<1>6. TypeOK'
  BY <1>4 DEF IInv, TypeOK, CtxTypeOK
<1>7. StackInv' /\ Idle' /\ WithheldOne'
  BY <1>4, SameStack DEF IInv, Idle, WithheldOne
<1>8. InPlace'
  BY <1>4 DEF InPlace
<1> QED BY <1>4, <1>6, <1>7, <1>8 DEF IInv

\* A delivered buffer leaves the context to the next one.
LEMMA DeliverKeepsIInv ==
    ASSUME IInv, Deliver
    PROVE  IInv'
<1>1. TypeOK'
  BY DEF IInv, TypeOK, CtxTypeOK, Deliver
<1>2. StackInv'
  BY SameStack DEF IInv, Deliver
<1>3. Idle' /\ InPlace'
  BY DEF Deliver, Idle, InPlace
<1>4. WithheldOne' /\ SpecialEmpty'
  BY DEF IInv, Deliver, WithheldOne, SpecialEmpty, CtxState
<1> QED BY <1>1, <1>2, <1>3, <1>4 DEF IInv

\* The context ngx_pcalloc clears satisfies the invariant.
LEMMA InitInv == Init => IInv /\ BlankSeen
<1> SUFFICES ASSUME Init PROVE IInv /\ BlankSeen
  OBVIOUS
<1>1. StackInv /\ CtxState = "text"
  <2>1. <<"text">> \in Seq(State) /\ Len(<<"text">>) = 1 /\ <<"text">>[1] = "text"
    BY DEF State
  <2> QED BY <2>1 DEF Init, CtxInit, StackInv, StackShape, CtxState
<1>2. TypeOK
  <2>1. rest \in Seq(Byte) /\ dst \in Seq(Byte) /\ cache \in Seq(Byte)
    BY DEF Init, CtxInit
  <2>2. stack \in Seq(State)
    BY <1>1 DEF StackInv
  <2>3. /\ size \in Nat /\ quote \in Byte \cup {NUL} /\ pre \in Byte \cup {NUL}
        /\ nochange \in BOOLEAN /\ busy \in BOOLEAN /\ inMemory \in BOOLEAN
    BY DEF Init, CtxInit
  <2> QED BY <2>1, <2>2, <2>3 DEF TypeOK, CtxTypeOK
<1>3. IInv
  BY <1>1, <1>2 DEF Init, CtxInit, IInv, Idle, InPlace, WithheldOne, SpecialEmpty
<1>4. BlankSeen
  BY <1>1 DEF Init, CtxInit, BlankSeen
<1> QED BY <1>3, <1>4

\* Every step keeps it.
LEMMA NextInv == IInv /\ [Next]_vars => IInv'
<1> SUFFICES ASSUME IInv, [Next]_vars PROVE IInv'
  OBVIOUS
<1>1. CASE ReceiveBuffer
  BY <1>1, ReceiveKeepsIInv
<1>2. CASE StripBuffer
  BY <1>2, TextFacts, CommentFacts, LineCommentFacts, QuoteFacts, IterationKeepsIInv
     DEF StripBuffer
<1>3. CASE Deliver
  BY <1>3, DeliverKeepsIInv
<1>4. CASE UNCHANGED vars
  BY <1>4 DEF vars, ctxVars, IInv, TypeOK, CtxTypeOK, StackInv, StackShape, Idle, InPlace,
              WithheldOne, SpecialEmpty, CtxState
<1> QED BY <1>1, <1>2, <1>3, <1>4 DEF Next

\* The invariant holds in every reachable state.
THEOREM Invariance == Spec => []IInv
<1>1. Init => IInv
  BY InitInv
<1>2. IInv /\ [Next]_vars => IInv'
  BY NextInv
<1> QED BY <1>1, <1>2, PTL DEF Spec

------------------------------------------------------------------------------
(* The properties of the runs                                              *)

\* The context never leaves its types.
THEOREM TypeCorrect == Spec => []TypeOK
<1>1. IInv => TypeOK
  BY DEF IInv
<1> QED BY <1>1, Invariance, PTL

\* The state stack of ngx_minify_ctx_t is never overrun nor emptied, however
\* long the response is.
THEOREM StackBounded == Spec => []StackShape
<1>1. IInv => StackShape
  BY DEF IInv, StackInv
<1> QED BY <1>1, Invariance, PTL

\* The rewrite in place never writes a byte it has not read, the ' ' that
\* replaces a newline included.
THEOREM RewriteInPlace == Spec => []InPlace
<1>1. IInv => InPlace
  BY DEF IInv
<1> QED BY <1>1, Invariance, PTL

\* What is withheld is one byte, of the state that resumes.
THEOREM OneByteWithheld == Spec => []WithheldOne
<1>1. IInv => WithheldOne
  BY DEF IInv
<1> QED BY <1>1, Invariance, PTL

------------------------------------------------------------------------------
(* Blanks and empty lines                                                  *)

\* An iteration in the text keeps BlankSeen.
LEMMA TextKeepsBlankSeen ==
    ASSUME IInv, BlankSeen, StripText
    PROVE  BlankSeen'
<1>1. StackInv /\ CtxState = "text" /\ rest # <<>>
  BY DEF IInv, StripText, Iterate
<1>2. CASE SkipBlank \/ SkipReturn
  <2>1. dst' = dst /\ pre' = pre /\ CtxState' = "text"
    BY <1>1, <1>2, SameStack DEF SkipBlank, SkipReturn, IncRpos, UpdatePre
  <2> QED BY <1>1, <2>1 DEF BlankSeen
<1>3. CASE SkipNewLine
  <2>1. pre' = "\n" /\ CtxState' = "text"
    BY <1>1, <1>3, SameStack DEF SkipNewLine
  <2> QED BY <2>1 DEF BlankSeen
<1>4. CASE OpenQuote
  <2>1. CtxState' = "quote" /\ quote' \in {"\"", "'", "]"}
    BY <1>1, <1>4, PushFacts DEF OpenQuote, Openings
  <2> QED BY <2>1 DEF BlankSeen
<1>5. CASE Slash \/ KeepNewLine \/ TextOther
  <2>1. dst' # <<>> => pre' = dst'[Len(dst')]
    BY <1>5 DEF Slash, KeepNewLine, TextOther, UpdatePre
  <2>2. CtxState' # "quote"
    <3>1. CASE UNCHANGED stack
      BY <1>1, <3>1, SameStack
    <3>2. CASE PushState("comment") \/ PushState("comment_line")
      BY <1>1, <3>2, PushFacts
    <3> QED BY <1>5, <3>1, <3>2 DEF Slash, KeepNewLine, TextOther
  <2> QED BY <2>1, <2>2 DEF BlankSeen
<1> QED BY <1>2, <1>3, <1>4, <1>5 DEF StripText

\* An iteration in a comment or a quoted text keeps it.
LEMMA NestedKeepsBlankSeen ==
    ASSUME IInv, BlankSeen, StripComment \/ StripLineComment \/ StripQuote
    PROVE  BlankSeen'
<1>1. StackInv
  BY DEF IInv
<1>2. CASE StripComment
  <2>1. CtxState = "comment" /\ dst' = dst /\ pre' = pre
    BY <1>2 DEF StripComment, Iterate, IncRpos, IncRposTwice, CacheRpos, UpdatePre
  <2>2. CtxState' \in {"text", "comment"}
    BY <1>1, <1>2, <2>1, SameStack, PopFacts DEF StripComment
  <2> QED BY <2>1, <2>2 DEF BlankSeen
<1>3. CASE StripLineComment
  <2>1. CtxState = "comment_line"
    BY <1>3 DEF StripLineComment, Iterate
  <2>2. CASE PopState /\ pre' = "\n"
    <3>1. CtxState' = "text"
      BY <1>1, <2>1, <2>2, PopFacts
    <3> QED BY <2>2, <3>1 DEF BlankSeen
  <2>3. CASE UNCHANGED <<stack, pre>>
    <3>1. CtxState' = "comment_line"
      BY <1>1, <2>1, <2>3, SameStack
    <3> QED BY <3>1 DEF BlankSeen
  <2> QED BY <1>3, <2>2, <2>3 DEF StripLineComment
<1>4. CASE StripQuote
  <2>1. CtxState = "quote" /\ quote' = quote /\ rest # <<>>
    BY <1>4 DEF StripQuote, Iterate
  <2>2. CASE UNCHANGED stack
    <3>1. CtxState' = "quote"
      BY <1>1, <2>1, <2>2, SameStack
    <3> QED BY <2>1, <3>1 DEF BlankSeen
  <2>3. CASE Cur = quote /\ CopyRpos /\ PopState
    <3>1. dst \in Seq(Byte) /\ Cur \in Byte /\ dst' = Append(dst, Cur)
      BY <2>1, <2>3, Start DEF CopyRpos, CopyChar, Bytes
    <3>2. dst'[Len(dst')] = Cur
      BY <3>1, LastAppended
    <3>3. dst'[Len(dst')] \notin Blanks \cup {"\n"}
      BY <2>1, <2>3, <3>2 DEF BlankSeen, Blanks
    <3>4. CtxState' = "text"
      BY <1>1, <2>1, <2>3, PopFacts
    <3> QED BY <3>3, <3>4 DEF BlankSeen
  <2> QED BY <1>4, <2>2, <2>3 DEF StripQuote
<1> QED BY <1>2, <1>3, <1>4

\* Every step keeps it.
LEMMA BlankSeenKept ==
    ASSUME IInv, BlankSeen, [Next]_vars
    PROVE  BlankSeen'
<1>1. CASE ReceiveBuffer \/ Deliver
  BY <1>1 DEF ReceiveBuffer, Receive, ReceiveSpecial, EnterMinifier, Deliver, BlankSeen, CtxState
<1>2. CASE StripBuffer
  BY <1>2, TextKeepsBlankSeen, NestedKeepsBlankSeen DEF StripBuffer
<1>3. CASE UNCHANGED vars
  BY <1>3 DEF vars, ctxVars, BlankSeen, CtxState
<1> QED BY <1>1, <1>2, <1>3 DEF Next

\* The byte a sequence is extended with stands behind what it held.
LEMMA NextAppended ==
    ASSUME NEW S, NEW s \in Seq(S), NEW a \in S, NEW b \in S
    PROVE  /\ Append(s, a)[Len(s) + 1] = a
           /\ Append(Append(s, a), b)[Len(s) + 1] = a
<1>1. Append(s, a)[Len(s) + 1] = a
  OBVIOUS
<1>2. /\ Append(s, a) \in Seq(S) /\ Len(Append(s, a)) = Len(s) + 1
      /\ Len(s) + 1 \in 1..Len(Append(s, a))
  OBVIOUS
<1>3. Append(Append(s, a), b)[Len(s) + 1] = Append(s, a)[Len(s) + 1]
  BY <1>2
<1> QED BY <1>1, <1>3

\* In the text a blank, or a newline, is written only where pre_char allows it.
LEMMA TextDoublesNothing ==
    ASSUME IInv, BlankSeen, StripText
    PROVE  ~DoublesBlank
<1> SUFFICES ASSUME DoublesBlank PROVE FALSE
  OBVIOUS
<1>1. /\ CtxState = "text" /\ rest # <<>> /\ dst # <<>>
      /\ dst \in Seq(Byte) /\ Cur \in Byte /\ Len(dst) \in Nat
  BY Start, LenProperties DEF StripText, Iterate, DoublesBlank, Bytes
<1>2. /\ Len(dst') > Len(dst)
      /\ \/ dst'[Len(dst) + 1] \in Blanks /\ dst[Len(dst)] \in Blanks \cup {"\n"}
         \/ dst'[Len(dst) + 1] = "\n" /\ dst[Len(dst)] = "\n"
  BY DEF DoublesBlank
<1>3. dst' # dst
  BY ONLY <1>1, <1>2
<1>4. CASE SkipBlank \/ SkipNewLine \/ SkipReturn
  BY <1>3, <1>4 DEF SkipBlank, SkipNewLine, SkipReturn, IncRpos
<1>5. ASSUME CopyRpos PROVE dst'[Len(dst) + 1] = Cur
  BY <1>1, <1>5, NextAppended DEF CopyRpos, CopyChar
<1>6. CASE Slash
  <2>1. CopyRposTwice /\ Count >= 2 /\ rest[1] = "/"
    BY <1>3, <1>6 DEF Slash, IncRposTwice, CacheRpos, Cur
  <2>2. rest[1] \in Byte /\ rest[2] \in Byte
    BY <2>1, TailTwiceFacts DEF Count, IInv, TypeOK, CtxTypeOK
  <2>3. dst'[Len(dst) + 1] = "/"
    BY <1>1, <2>1, <2>2, NextAppended DEF CopyRposTwice
  <2> QED BY <1>2, <2>3 DEF Blanks
<1>7. CASE OpenQuote
  BY <1>2, <1>5, <1>7 DEF OpenQuote, Openings, Blanks
<1>8. CASE KeepNewLine
  <2>1. dst[Len(dst)] = "\n"
    BY <1>2, <1>5, <1>8 DEF KeepNewLine, Blanks
  <2> QED BY <1>1, <1>8, <2>1 DEF KeepNewLine, BlankSeen, LineEnds
<1>9. CASE TextOther
  <2>1. Cur \in Blanks /\ dst[Len(dst)] \in Blanks \cup {"\n"}
    BY <1>2, <1>5, <1>9 DEF TextOther
  <2>2. pre \in Blanks \cup {"\n"}
    BY <1>1, <2>1 DEF BlankSeen
  <2> QED BY <1>9, <2>1, <2>2 DEF TextOther, DropsBlank
<1> QED BY <1>4, <1>6, <1>7, <1>8, <1>9 DEF StripText

\* In every document, whatever was stripped in between, no blank is written
\* behind a blank or at the head of a line and no empty line is, but for the
\* ' ' of a line comment.
THEOREM BlanksAreCollapsed == Spec => BlanksCollapse
<1>1. Init => IInv /\ BlankSeen
  BY InitInv
<1>2. IInv /\ BlankSeen /\ [Next]_vars => IInv' /\ BlankSeen'
  BY NextInv, BlankSeenKept
<1>3. ASSUME IInv, BlankSeen, [Next]_vars, DoublesBlank, CtxState # "quote"
      PROVE  CtxState = "comment_line" /\ dst' = Append(dst, " ")
  <2>1. dst' # dst /\ busy /\ dst' # <<>>
    <3>1. Len(dst) \in Nat /\ Len(dst') > Len(dst)
      BY <1>3, LenProperties DEF IInv, TypeOK, CtxTypeOK, DoublesBlank
    <3> QED BY <1>3, <3>1 DEF DoublesBlank
  <2>2. ~StripText
    BY <1>3, TextDoublesNothing
  <2>3. ~StripComment /\ ~StripQuote /\ ~ReceiveBuffer /\ ~Deliver
    BY <1>3, <2>1 DEF StripComment, StripQuote, Iterate, ReceiveBuffer, Receive,
                ReceiveSpecial, EnterMinifier, Deliver, IncRpos, IncRposTwice, CacheRpos
  <2>4. CASE StripLineComment
    BY <2>1, <2>4 DEF StripLineComment, Iterate, IncRpos, CopyChar
  <2>5. CASE UNCHANGED vars
    BY <2>1, <2>5 DEF vars, ctxVars
  <2> QED BY <1>3, <2>2, <2>3, <2>4, <2>5 DEF Next, StripBuffer
<1> QED BY <1>1, <1>2, <1>3, PTL DEF Spec, BlanksCollapse

------------------------------------------------------------------------------
(* JsMinify implements JsContract                                          *)

Pending == cache \o rest

\* What an iteration may do to the stream: a step of the contract, or nothing.
Rewritten == Contract!Rewrite \/ UNCHANGED <<Pending, dst, stack, quote>>

\* While a buffer is stripped nothing is withheld, and what is pending is what
\* rpos has not reached.
LEMMA PendingIsRest ==
    ASSUME IInv, rest # <<>>
    PROVE  /\ cache = <<>> /\ Pending = rest
           /\ rest \in Seq(Byte) /\ Cur = Pending[1]
<1>1. cache = <<>> /\ rest \in Seq(Byte)
  BY DEF IInv, TypeOK, CtxTypeOK, WithheldOne
<1>2. <<>> \o rest = rest
  BY ONLY <1>1
<1> QED BY <1>1, <1>2 DEF Pending, Cur

\* Stepping over bytes consumes them from the stream; withholding one does not.
LEMMA StreamMoves ==
    ASSUME IInv, rest # <<>>
    PROVE  /\ IncRpos => Contract!OmitOne
           /\ IncRposTwice /\ Count >= 2 => Contract!OmitTwo
           /\ CopyRpos => Contract!KeepOne
           /\ CopyRposTwice /\ Count >= 2 => Contract!KeepTwo
           /\ CacheRpos => Pending' = Pending /\ dst' = dst
<1>1. /\ cache = <<>> /\ Pending = rest /\ rest \in Seq(Byte)
      /\ Cur = Pending[1] /\ Cur \in Byte
  <2>1. Bytes
    BY DEF IInv, TypeOK, CtxTypeOK, Bytes
  <2> QED BY <2>1, PendingIsRest, CurIsByte
<1>2. ASSUME cache' = <<>>, rest' \in Seq(Byte)
      PROVE  Pending' = rest'
  <2>1. <<>> \o rest' = rest'
    BY ONLY <1>2
  <2> QED BY <1>2, <2>1 DEF Pending
<1>3. Tail(rest) \in Seq(Byte)
  BY <1>1, TailFacts
<1>4. Count >= 2 => Tail(Tail(rest)) \in Seq(Byte)
  BY <1>1, TailTwiceFacts DEF Count
<1>5. IncRpos => Contract!OmitOne
  BY <1>1, <1>2, <1>3 DEF IncRpos, Contract!OmitOne, Pending
<1>6. IncRposTwice /\ Count >= 2 => Contract!OmitTwo
  BY <1>1, <1>2, <1>4 DEF IncRposTwice, Contract!OmitTwo, Pending
<1>7. CopyRpos => Contract!KeepOne
  BY <1>1, <1>2, <1>3 DEF CopyRpos, CopyChar, Contract!KeepOne, Pending
<1>8. CopyRposTwice /\ Count >= 2 => Contract!KeepTwo
  BY <1>1, <1>2, <1>4 DEF CopyRposTwice, Contract!KeepTwo, Pending
<1>9. ASSUME CacheRpos PROVE Pending' = Pending /\ dst' = dst
  <2>1. cache' = Append(<<>>, Cur) /\ Len(rest) = 1 /\ rest' = Tail(rest) /\ dst' = dst
    BY <1>1, <1>9 DEF CacheRpos, Count
  <2>2. Tail(rest) = <<>>
    BY <1>1, <2>1, TailFacts, EmptySeq
  <2>3. rest = Append(<<>>, rest[1])
    BY ONLY <1>1, <2>1, rest \in Seq(Byte)
  <2>4. Append(<<>>, rest[1]) \o <<>> = Append(<<>>, rest[1])
    BY <1>1 DEF Cur
  <2> QED BY <1>1, <2>1, <2>2, <2>3, <2>4 DEF Pending, Cur
<1> QED BY <1>5, <1>6, <1>7, <1>8, <1>9

\* The contract sees the two bytes the minifier looks at.
LEMMA LookAhead ==
    ASSUME IInv, rest # <<>>
    PROVE  /\ Contract!Sees(1) /\ Cur = Pending[1]
           /\ Contract!Sees(2) <=> Count >= 2
           /\ \A a, b : StartsWith(a, b) <=> Count >= 2 /\ Cur = a /\ Pending[2] = b
           /\ Contract!Inside = CtxState
BY PendingIsRest, TailFacts DEF Contract!Sees, Count, StartsWith, Contract!Inside, CtxState,
   Pending, Cur

\* An iteration in the text.
LEMMA TextImplements ==
    ASSUME IInv, StripText
    PROVE  Rewritten
<1>1. rest # <<>> /\ CtxState = "text" /\ Contract!Plain /\ Cur = Pending[1]
  BY LookAhead DEF StripText, Iterate, Contract!Plain
<1>2. CASE SkipBlank \/ SkipNewLine \/ SkipReturn
  <2>1. Contract!OmitOne
    BY <1>1, <1>2, StreamMoves DEF SkipBlank, SkipNewLine, SkipReturn
  <2>2. Cur \in Contract!Blank /\ UNCHANGED <<stack, quote>>
    BY <1>2 DEF SkipBlank, SkipNewLine, SkipReturn, DropsBlank, Blanks, Contract!Blank
  <2>3. Contract!OmitBlank
    BY <1>1, <2>1, <2>2 DEF Contract!OmitBlank, Pending
  <2> QED BY <2>3 DEF Rewritten, Contract!Rewrite
<1>3. CASE KeepNewLine \/ TextOther
  <2>1. Contract!KeepOne
    BY <1>1, <1>3, StreamMoves DEF KeepNewLine, TextOther
  <2>2. Cur \notin {"/", "[", "\r"} \cup Contract!QuoteMark /\ UNCHANGED <<stack, quote>>
    BY <1>3 DEF KeepNewLine, TextOther, Openings, Contract!QuoteMark
  <2>3. Contract!KeepByte
    BY <1>1, <2>1, <2>2 DEF Contract!KeepByte, Pending
  <2> QED BY <2>3 DEF Rewritten, Contract!Rewrite
<1>4. CASE OpenQuote
  <2>1. Contract!KeepOne
    BY <1>1, <1>4, StreamMoves DEF OpenQuote
  <2>2. /\ Cur \in Contract!QuoteMark \cup {"["} /\ PushState("quote")
        /\ quote' = IF Cur = "[" THEN "]" ELSE Cur
    BY <1>4 DEF OpenQuote, Openings, Contract!QuoteMark
  <2>3. Contract!KeepOpening
    BY <1>1, <2>1, <2>2 DEF Contract!KeepOpening, Contract!Enter, PushState, Pending
  <2> QED BY <2>3 DEF Rewritten, Contract!Rewrite
<1>5. CASE Slash
  <2>1. Cur = "/" /\ quote' = quote
    BY <1>5 DEF Slash
  <2>2. ASSUME NEW b, StartsWith("/", b) PROVE Contract!Sees(2) /\ Pending[2] = b /\ Count >= 2
    BY <1>1, <2>2, LookAhead
  <2>3. CASE StartsWith("/", "*") /\ IncRposTwice /\ PushState("comment")
    <3>1. Contract!OmitTwo /\ Contract!Sees(2) /\ Pending[2] = "*"
      BY <1>1, <2>2, <2>3, StreamMoves
    <3>2. Contract!OmitCommentOpening
      BY <1>1, <2>1, <2>3, <3>1
         DEF Contract!OmitCommentOpening, Contract!Enter, PushState, Pending
    <3> QED BY <3>2 DEF Rewritten, Contract!Rewrite
  <2>4. CASE StartsWith("/", "/") /\ IncRposTwice /\ PushState("comment_line")
    <3>1. Contract!OmitTwo /\ Contract!Sees(2) /\ Pending[2] = "/"
      BY <1>1, <2>2, <2>4, StreamMoves
    <3>2. Contract!OmitCommentOpening
      BY <1>1, <2>1, <2>4, <3>1
         DEF Contract!OmitCommentOpening, Contract!Enter, PushState, Pending
    <3> QED BY <3>2 DEF Rewritten, Contract!Rewrite
  <2>5. CASE /\ Count >= 2 /\ ~StartsWith("/", "*") /\ ~StartsWith("/", "/")
             /\ CopyRposTwice /\ UNCHANGED stack
    <3>1. Contract!KeepTwo /\ Contract!Sees(2)
      BY <1>1, <2>5, StreamMoves, LookAhead
    <3>2. Pending[2] # "*" /\ Pending[2] # "/"
      BY <1>1, <2>1, <2>5, LookAhead
    <3>3. Contract!KeepSlash
      BY <1>1, <2>1, <2>5, <3>1, <3>2 DEF Contract!KeepSlash, Pending
    <3> QED BY <3>3 DEF Rewritten, Contract!Rewrite
  <2>6. CASE CacheRpos /\ UNCHANGED stack
    BY <1>1, <2>1, <2>6, StreamMoves DEF Rewritten, Pending
  <2> QED BY <1>5, <2>3, <2>4, <2>5, <2>6 DEF Slash
<1> QED BY <1>2, <1>3, <1>4, <1>5 DEF StripText

\* An iteration inside a line comment.
LEMMA LineCommentImplements ==
    ASSUME IInv, StripLineComment
    PROVE  Rewritten
<1>1. rest # <<>> /\ CtxState = "comment_line" /\ quote' = quote
  BY DEF StripLineComment, Iterate
<1>2. /\ Contract!Inside = "comment_line" /\ Contract!Sees(1) /\ Cur = Pending[1]
      /\ Pending = rest /\ cache = <<>> /\ rest \in Seq(Byte)
  BY <1>1, LookAhead, PendingIsRest
<1>3. CASE Cur = "\n" /\ CopyChar(" ") /\ PopState
  <2>1. Pending' = Tail(Pending)
    <3>1. Tail(rest) \in Seq(Byte) /\ rest' = Tail(rest) /\ cache' = <<>>
      BY <1>1, <1>2, <1>3, TailFacts DEF CopyChar
    <3>2. <<>> \o Tail(rest) = Tail(rest)
      BY ONLY <3>1
    <3> QED BY <1>2, <3>1, <3>2 DEF Pending
  <2>2. dst' = Append(dst, " ")
    BY <1>3 DEF CopyChar
  <2>3. Contract!OmitLineComment
    BY <1>1, <1>2, <1>3, <2>1, <2>2
       DEF Contract!OmitLineComment, Contract!Leave, PopState, Pending
  <2> QED BY <2>3 DEF Rewritten, Contract!Rewrite
<1>4. CASE Cur # "\n" /\ IncRpos /\ UNCHANGED <<stack, pre>>
  <2>1. Contract!OmitOne
    BY <1>1, <1>4, StreamMoves
  <2>2. Contract!OmitLineComment
    BY <1>1, <1>2, <1>4, <2>1 DEF Contract!OmitLineComment, Pending
  <2> QED BY <2>2 DEF Rewritten, Contract!Rewrite
<1> QED BY <1>3, <1>4 DEF StripLineComment

\* An iteration inside a comment.
LEMMA CommentImplements ==
    ASSUME IInv, StripComment
    PROVE  Rewritten
<1>1. rest # <<>> /\ CtxState = "comment" /\ quote' = quote
  BY DEF StripComment, Iterate
<1>2. CASE StartsWith("*", "/") /\ IncRposTwice /\ PopState
  <2>1. Contract!OmitTwo
    BY <1>1, <1>2, StreamMoves DEF StartsWith
  <2>2. Contract!OmitComment
    BY <1>1, <1>2, <2>1, LookAhead DEF Contract!OmitComment, Contract!Leave, PopState, Pending
  <2> QED BY <2>2 DEF Rewritten, Contract!Rewrite
<1>3. CASE CacheRpos /\ UNCHANGED stack
  BY <1>1, <1>3, StreamMoves DEF Rewritten, Pending
<1>4. CASE /\ ~StartsWith("*", "/") /\ ~(Cur = "*" /\ Count = 1)
           /\ IncRpos /\ UNCHANGED stack
  <2>1. Contract!OmitOne
    BY <1>1, <1>4, StreamMoves
  <2>2. Count >= 1 /\ Count \in Nat
    BY <1>1, PendingIsRest, TailFacts DEF Count
  <2>3. Cur # "*" \/ (Count >= 2 /\ Cur = "*" /\ Pending[2] # "/")
    BY <1>1, <1>4, <2>2, LookAhead
  <2>4. Contract!OmitComment
    BY <1>1, <1>4, <2>1, <2>3, LookAhead DEF Contract!OmitComment, Pending
  <2> QED BY <2>4 DEF Rewritten, Contract!Rewrite
<1> QED BY <1>2, <1>3, <1>4 DEF StripComment

\* An iteration inside a quoted text.
LEMMA QuoteImplements ==
    ASSUME IInv, StripQuote
    PROVE  Rewritten
<1>1. rest # <<>> /\ CtxState = "quote" /\ quote' = quote
  BY DEF StripQuote, Iterate
<1>2. CASE Cur = "\\" /\ Count > 1 /\ CopyRposTwice /\ UNCHANGED stack
  <2>1. Count >= 2
    BY <1>1, <1>2, PendingIsRest, TailFacts DEF Count
  <2>2. Contract!KeepTwo
    BY <1>1, <1>2, <2>1, StreamMoves
  <2>3. Contract!KeepQuoted
    BY <1>1, <1>2, <2>1, <2>2, LookAhead DEF Contract!KeepQuoted, Pending
  <2> QED BY <2>3 DEF Rewritten, Contract!Rewrite
<1>3. CASE CacheRpos /\ UNCHANGED stack
  BY <1>1, <1>3, StreamMoves DEF Rewritten, Pending
<1>4. CASE Cur = quote /\ CopyRpos /\ PopState
  <2>1. Contract!KeepOne
    BY <1>1, <1>4, StreamMoves
  <2>2. Contract!KeepQuoted
    BY <1>1, <1>4, <2>1, LookAhead DEF Contract!KeepQuoted, Contract!Leave, PopState, Pending
  <2> QED BY <2>2 DEF Rewritten, Contract!Rewrite
<1>5. CASE Cur \notin {"\\", quote} /\ CopyRpos /\ UNCHANGED stack
  <2>1. Contract!KeepOne
    BY <1>1, <1>5, StreamMoves
  <2>2. Contract!KeepQuoted
    BY <1>1, <1>5, <2>1, LookAhead DEF Contract!KeepQuoted, Pending
  <2> QED BY <2>2 DEF Rewritten, Contract!Rewrite
<1> QED BY <1>2, <1>3, <1>4, <1>5 DEF StripQuote

\* A received buffer extends the stream behind the withheld byte; one that is
\* not in memory loses that byte, or does nothing when there is none.
LEMMA ReceiveImplements ==
    ASSUME IInv, ReceiveBuffer
    PROVE  [Contract!CNext]_(Contract!cvars)
<1>2. /\ Bytes
      /\ rest' \in Seq(Byte) /\ cache' = <<>> /\ dst' = <<>>
      /\ stack' = stack /\ quote' = quote /\ ~busy
      /\ inMemory \in BOOLEAN
  <2>1. Bytes /\ inMemory \in BOOLEAN
    BY DEF IInv, TypeOK, CtxTypeOK, Bytes
  <2> QED BY <2>1, ReceiveFacts DEF ReceiveBuffer
<1>3. rest = <<>> /\ dst = <<>>
  BY <1>2 DEF IInv, Idle
<1>5. Pending = cache
  <2>1. cache \o <<>> = cache
    BY <1>3 DEF Bytes
  <2> QED BY <1>3, <2>1 DEF Pending
<1>6. Pending' = rest'
  <2>1. <<>> \o rest' = rest'
    BY ONLY <1>2
  <2> QED BY <1>2, <2>1 DEF Pending
<1>7. ASSUME NEW chunk \in Chunk, Receive(chunk) PROVE Contract!Arrive
  <2>1. rest' = cache \o chunk /\ chunk \in Seq(Byte) /\ inMemory' = TRUE
    BY <1>2, <1>7, ReceiveAppends
  <2>2. /\ cache \o chunk \in Seq(Byte)
        /\ Len(cache \o chunk) >= Len(cache)
        /\ \A i \in 1..Len(cache) : (cache \o chunk)[i] = cache[i]
    BY <1>2, <2>1 DEF Bytes
  <2> QED BY <1>2, <1>3, <1>5, <1>6, <2>1, <2>2 DEF Contract!Arrive, Pending
<1>8. CASE ReceiveSpecial
  <2>1. rest' = <<>> /\ inMemory' = FALSE
    BY <1>8 DEF ReceiveSpecial, EnterMinifier
  <2>2. CASE cache = <<>>
    <3>1. Contract!Flush
      BY <1>2, <1>3, <1>5, <1>6, <2>1, <2>2 DEF Contract!Flush, Pending
    <3> QED BY <3>1 DEF Contract!CNext
  <2>3. CASE cache # <<>>
    <3>1. Len(cache) = 1 /\ cache \in Seq(Byte) /\ inMemory
      BY <1>2, <2>3 DEF IInv, WithheldOne, SpecialEmpty, Bytes
    <3>2. cache = <<cache[1]>>
      BY ONLY <3>1
    <3>3. \/ CtxState = "text" /\ cache[1] = "/"
          \/ CtxState = "comment" /\ cache[1] = "*"
          \/ CtxState = "quote" /\ cache[1] = "\\"
      BY <2>3 DEF IInv, WithheldOne
    <3>4. Contract!LosePending
      BY <1>2, <1>3, <1>5, <1>6, <2>1, <2>3, <3>1 DEF Contract!LosePending, Pending
    <3>5. Contract!LoseBegun
      BY <1>2, <1>5, <3>2, <3>3, <3>4
         DEF Contract!LoseBegun, Contract!Inside, CtxState, Pending
    <3> QED BY <3>5 DEF Contract!CNext
  <2> QED BY <2>2, <2>3
<1> QED BY <1>7, <1>8 DEF ReceiveBuffer, Contract!CNext

\* However the response is cut into buffers, the minifier is a step-by-step
\* implementation of the contract of the whole stream.
THEOREM Refinement == Spec => ImplementsContract
<1>1. Init => Contract!CInit
  <2>1. <<>> \o <<>> = <<>>
    OBVIOUS
  <2> QED BY <2>1 DEF Init, CtxInit, Contract!CInit, NUL
<1>2. IInv /\ [Next]_vars => [Contract!CNext]_(Contract!cvars)
  <2> SUFFICES ASSUME IInv, [Next]_vars PROVE [Contract!CNext]_(Contract!cvars)
    OBVIOUS
  <2>1. CASE ReceiveBuffer
    BY <2>1, ReceiveImplements
  <2>2. CASE StripBuffer
    <3>1. Rewritten
      BY <2>2, TextImplements, CommentImplements, LineCommentImplements, QuoteImplements
         DEF StripBuffer
    <3>2. inMemory' = inMemory
      BY <2>2, TextFacts, CommentFacts, LineCommentFacts, QuoteFacts
         DEF StripBuffer, IterationFacts
    <3> QED BY <3>1, <3>2 DEF Rewritten, Contract!CNext, Contract!cvars, Pending
  <2>3. CASE Deliver
    BY <2>3 DEF Deliver, Contract!CNext, Contract!Send
  <2>4. CASE UNCHANGED vars
    BY <2>4 DEF vars, ctxVars, Contract!cvars
  <2> QED BY <2>1, <2>2, <2>3, <2>4 DEF Next
<1> QED BY <1>1, <1>2, Invariance, PTL DEF Spec, ImplementsContract, Contract!CSpec

==============================================================================
