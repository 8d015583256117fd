-------------------------- MODULE CssMinify_proofs --------------------------
(***************************************************************************)
(* Proofs about CssMinify, for every document, every set of bytes and      *)
(* every way of cutting the document into buffers.                         *)
(***************************************************************************)
EXTENDS CssMinify, MinifyCtx_proofs

\* Between two buffers nothing is read or written.
Idle == ~busy => rest = <<>> /\ dst = <<>>

StackInv == stack \in Seq(State) /\ StackShape

\* A comment that was opened outside the braces.
OverText == CtxState = "comment" /\ Len(stack) = 2

\* What makes TextBlanksCollapse inductive: wherever the text goes on next, a
\* blank at the end of the buffer is the pre_char the test will read.
BlankSeen ==
    /\ dst # <<>> /\ dst[Len(dst)] \in {" ", "\t"} /\ (CtxState = "text" \/ OverText)
       => pre \in {" ", "\t"}
    /\ CtxState = "quote" => quote \in Quotes

IInv == TypeOK /\ StackInv /\ Idle /\ InPlace /\ WithheldOne /\ SpecialEmpty

------------------------------------------------------------------------------
(* The state stack                                                         *)

\* A comment or a quoted text opens on the text or on a brace.
LEMMA PushKeepsShape ==
    ASSUME StackInv, NEW s \in {"comment", "quote"},
           CtxState \in {"text", "brace"}, PushState(s)
    PROVE  StackInv'
<1>1. /\ stack' = Append(stack, s) /\ s \in State
      /\ stack \in Seq(State) /\ Len(stack) \in 1..3 /\ stack[1] = "text"
      /\ Len(stack) = 1 \/ (Len(stack) = 2 /\ stack[2] = "brace")
  BY DEF StackInv, StackShape, PushState, CtxState, State
<1>2. /\ stack' \in Seq(State) /\ Len(stack') = Len(stack) + 1
      /\ stack'[Len(stack) + 1] = s
      /\ \A i \in 1..Len(stack) : stack'[i] = stack[i]
  BY ONLY <1>1
<1>3. CASE Len(stack) = 1
  BY <1>1, <1>2, <1>3 DEF StackInv, StackShape
<1>4. CASE Len(stack) = 2 /\ stack[2] = "brace"
  BY <1>1, <1>2, <1>4 DEF StackInv, StackShape
<1> QED BY <1>1, <1>3, <1>4

\* A brace opens on the text only.
LEMMA PushBraceKeepsShape ==
    ASSUME StackInv, CtxState = "text", PushState("brace")
    PROVE  StackInv'
<1>1. stack \in Seq(State) /\ "brace" \in State /\ stack' = Append(stack, "brace")
  BY DEF StackInv, PushState, State
<1>2. Len(stack) = 1 /\ stack[1] = "text"
  BY DEF StackInv, StackShape, CtxState
<1>3. /\ stack' \in Seq(State) /\ Len(stack') = Len(stack) + 1
      /\ stack'[Len(stack) + 1] = "brace"
      /\ \A i \in 1..Len(stack) : stack'[i] = stack[i]
  BY ONLY <1>1
<1> QED BY <1>2, <1>3 DEF StackInv, StackShape

\* A comment or a quoted text is left for what it was opened on.
LEMMA PopKeepsShape ==
    ASSUME StackInv, CtxState \in {"comment", "quote"}, PopState
    PROVE  StackInv'
<1>1. stack \in Seq(State) /\ stack' = SubSeq(stack, 1, Len(stack) - 1)
  BY DEF StackInv, PopState
<1>2. Len(stack) = 2 \/ Len(stack) = 3
  BY DEF StackInv, StackShape, CtxState
<1> DEFINE n == Len(stack) - 1
<1>3. n \in 1..Len(stack) /\ n = Len(stack) - 1
  BY ONLY <1>2
<1> HIDE DEF n
<1>4. /\ stack' \in Seq(State) /\ Len(stack') = n
      /\ \A i \in 1..n : stack'[i] = stack[i]
  <2>1. SubSeq(stack, 1, n) \in Seq(State) /\ Len(SubSeq(stack, 1, n)) = n
    BY ONLY <1>1, <1>3
  <2>2. \A i \in 1..n : SubSeq(stack, 1, n)[i] = stack[i]
    BY ONLY <1>1, <1>3
  <2>3. stack' = SubSeq(stack, 1, n)
    BY ONLY <1>1, <1>3
  <2> QED BY ONLY <2>1, <2>2, <2>3
<1>5. CASE Len(stack) = 2
  BY <1>3, <1>4, <1>5 DEF StackInv, StackShape
<1>6. CASE Len(stack) = 3
  BY <1>3, <1>4, <1>6 DEF StackInv, StackShape
<1> QED BY <1>2, <1>5, <1>6

\* A closing brace ends every state.
LEMMA TextIsShape ==
    ASSUME SetState("text") PROVE StackInv'
<1>1. /\ <<"text">> \in Seq(State) /\ Len(<<"text">>) = 1
      /\ <<"text">>[1] = "text"
  BY DEF State
<1> QED BY <1>1 DEF SetState, StackInv, StackShape

\* The shape is about the stack alone.
LEMMA SameStack ==
    ASSUME StackInv, UNCHANGED stack PROVE StackInv'
BY DEF StackInv, StackShape

------------------------------------------------------------------------------
(* One iteration of the loop                                               *)

\* Every iteration is one of the five moves, keeps the stack in shape, and
\* withholds a byte only if it is the one its state waits for.
IterationFacts ==
    /\ busy /\ rest # <<>> /\ UNCHANGED <<size, busy, inMemory>>
    /\ Moves
    /\ StackInv'
    /\ quote' \in Byte \cup {NUL}
    /\ nochange' \in BOOLEAN /\ braceLoop' \in BOOLEAN
    /\ UpdatePre
    /\ CacheRpos => /\ stack' = stack
                    /\ Cur = CASE CtxState = "comment" -> "*"
                               [] CtxState = "quote"   -> "\\"
                               [] OTHER                -> "/"

\* A slash opens a comment, is copied with its successor or is withheld.
LEMMA SlashFacts ==
    ASSUME IInv, CtxState \in {"text", "brace"}, rest # <<>>, Slash
    PROVE  /\ Moves /\ StackInv' /\ quote' = quote
           /\ CacheRpos => stack' = stack /\ Cur = "/"
<1>1. CASE StartsWith("/", "*") /\ IncRposTwice /\ PushState("comment")
  BY <1>1, PushKeepsShape DEF Slash, IInv, Moves, StartsWith, CacheRpos, Count
<1>2. CASE Count >= 2 /\ ~StartsWith("/", "*") /\ CopyRposTwice /\ UNCHANGED stack
  BY <1>2, SameStack DEF Slash, IInv, Moves, CacheRpos, Count
<1>3. CASE CacheRpos /\ UNCHANGED stack
  BY <1>3, SameStack DEF Slash, IInv, Moves
<1> QED BY <1>1, <1>2, <1>3 DEF Slash

\* An opening quote is remembered and copied.
LEMMA OpenQuoteFacts ==
    ASSUME IInv, CtxState \in {"text", "brace"}, rest # <<>>, OpenQuote
    PROVE  /\ Moves /\ StackInv' /\ quote' \in Byte \cup {NUL} /\ ~CacheRpos
<1>1. Bytes
  BY DEF IInv, TypeOK, CtxTypeOK, Bytes
<1>2. quote' \in Byte
  BY <1>1, CurIsByte DEF OpenQuote
<1>3. Moves /\ StackInv'
  BY PushKeepsShape DEF OpenQuote, IInv, Moves
<1> QED BY <1>1, <1>2, <1>3, OnlyCacheRposCaches DEF OpenQuote

\* An iteration in the text, outside the braces.
LEMMA TextFacts ==
    ASSUME IInv, StripText
    PROVE  IterationFacts
<1>1. /\ busy /\ rest # <<>> /\ CtxState = "text" /\ UNCHANGED <<size, busy, inMemory>>
      /\ nochange' \in BOOLEAN /\ braceLoop' \in BOOLEAN /\ UpdatePre
  BY DEF StripText, Iterate
<1>2. Bytes /\ StackInv /\ quote \in Byte \cup {NUL}
  BY DEF IInv, TypeOK, CtxTypeOK, Bytes
<1>3. CASE TextSpace
  BY <1>1, <1>2, <1>3, SameStack, OnlyCacheRposCaches DEF TextSpace, IterationFacts, Moves
<1>4. CASE Slash
  BY <1>1, <1>2, <1>4, SlashFacts DEF IterationFacts
<1>5. CASE OpenQuote
  BY <1>1, <1>2, <1>5, OpenQuoteFacts DEF IterationFacts
<1>6. CASE OpenBrace
  BY <1>1, <1>2, <1>6, PushBraceKeepsShape, OnlyCacheRposCaches
     DEF OpenBrace, IterationFacts, Moves
<1>7. CASE TextNewLine
  BY <1>1, <1>2, <1>7, SameStack, OnlyCacheRposCaches DEF TextNewLine, IterationFacts, Moves
<1>8. CASE TextOther
  BY <1>1, <1>2, <1>8, SameStack, OnlyCacheRposCaches DEF TextOther, IterationFacts, Moves
<1> QED BY <1>3, <1>4, <1>5, <1>6, <1>7, <1>8 DEF StripText

\* An iteration inside the braces.
LEMMA BraceFacts ==
    ASSUME IInv, StripBrace
    PROVE  IterationFacts
<1>1. /\ busy /\ rest # <<>> /\ CtxState = "brace" /\ UNCHANGED <<size, busy, inMemory>>
      /\ nochange' \in BOOLEAN /\ braceLoop' \in BOOLEAN /\ UpdatePre
  BY DEF StripBrace, Iterate, IInv, TypeOK, CtxTypeOK
<1>2. Bytes /\ StackInv /\ quote \in Byte \cup {NUL}
  BY DEF IInv, TypeOK, CtxTypeOK, Bytes
<1>3. CASE CloseBrace
  BY <1>1, <1>2, <1>3, TextIsShape, OnlyCacheRposCaches DEF CloseBrace, IterationFacts, Moves
<1>4. CASE BraceBlank
  BY <1>1, <1>2, <1>4, SameStack, OnlyCacheRposCaches DEF BraceBlank, IterationFacts, Moves
<1>5. CASE Slash
  BY <1>1, <1>2, <1>5, SlashFacts DEF IterationFacts
<1>6. CASE OpenQuote
  BY <1>1, <1>2, <1>6, OpenQuoteFacts DEF IterationFacts
<1>7. CASE BraceOther
  BY <1>1, <1>2, <1>7, SameStack, OnlyCacheRposCaches DEF BraceOther, IterationFacts, Moves
<1> QED BY <1>3, <1>4, <1>5, <1>6, <1>7 DEF StripBrace

\* An iteration inside a comment.
LEMMA CommentFacts ==
    ASSUME IInv, StripComment
    PROVE  IterationFacts
<1>1. /\ busy /\ rest # <<>> /\ CtxState = "comment" /\ UNCHANGED <<size, busy, inMemory>>
      /\ nochange' \in BOOLEAN /\ braceLoop' \in BOOLEAN /\ UpdatePre
      /\ quote' \in Byte \cup {NUL}
  BY DEF StripComment, Iterate, IInv, TypeOK, CtxTypeOK
<1>2. Bytes /\ StackInv
  BY DEF IInv, TypeOK, CtxTypeOK, Bytes
<1>3. CASE StartsWith("*", "/") /\ IncRposTwice /\ PopState
  <2>1. Moves /\ StackInv'
    BY <1>1, <1>2, <1>3, PopKeepsShape DEF Moves, StartsWith
  <2>2. ~CacheRpos
    BY <1>2, <1>3, OnlyCacheRposCaches
  <2> QED BY <1>1, <2>1, <2>2 DEF IterationFacts
<1>4. CASE Cur = "*" /\ CacheRpos /\ UNCHANGED stack
  BY <1>1, <1>2, <1>4, SameStack DEF IterationFacts, Moves
<1>5. CASE IncRpos /\ UNCHANGED stack
  BY <1>1, <1>2, <1>5, SameStack, OnlyCacheRposCaches DEF IterationFacts, Moves
<1> QED BY <1>3, <1>4, <1>5 DEF StripComment

\* An iteration inside a quoted text.
LEMMA QuoteFacts ==
    ASSUME IInv, StripQuote
    PROVE  IterationFacts
<1>1. /\ busy /\ rest # <<>> /\ CtxState = "quote" /\ UNCHANGED <<size, busy, inMemory>>
      /\ nochange' \in BOOLEAN /\ braceLoop' \in BOOLEAN /\ UpdatePre
      /\ quote' \in Byte \cup {NUL}
  BY DEF StripQuote, Iterate, IInv, TypeOK, CtxTypeOK
<1>2. Bytes /\ StackInv
  BY DEF IInv, TypeOK, CtxTypeOK, Bytes
<1>3. CASE Count > 1 /\ CopyRposTwice /\ UNCHANGED stack
  <2>1. Count \in Nat
    BY <1>2 DEF Count, Bytes
  <2>2. Moves
    BY <1>3, <2>1 DEF Moves
  <2> QED BY <1>1, <1>2, <1>3, <2>2, SameStack, OnlyCacheRposCaches DEF IterationFacts
<1>4. CASE Cur = "\\" /\ CacheRpos /\ UNCHANGED stack
  BY <1>1, <1>2, <1>4, SameStack DEF IterationFacts, Moves
<1>5. CASE CopyRpos /\ PopState
  BY <1>1, <1>2, <1>5, PopKeepsShape, OnlyCacheRposCaches DEF IterationFacts, Moves
<1>6. CASE CopyRpos /\ UNCHANGED stack
  BY <1>1, <1>2, <1>6, SameStack, OnlyCacheRposCaches DEF IterationFacts, Moves
<1> QED BY <1>3, <1>4, <1>5, <1>6 DEF StripQuote

\* An iteration keeps the invariant.
LEMMA IterationKeepsIInv ==
    ASSUME IInv, IterationFacts
    PROVE  IInv'
<1>1. Bytes /\ rest # <<>> /\ Moves /\ busy /\ cache = <<>>
  BY DEF IInv, TypeOK, CtxTypeOK, Bytes, IterationFacts, WithheldOne
<1>2. /\ rest' \in Seq(Byte) /\ dst' \in Seq(Byte) /\ cache' \in Seq(Byte)
      /\ Len(dst') + Len(rest') + Len(cache') <= Len(dst) + Len(rest) + Len(cache)
      /\ cache' = cache \/ (rest' = <<>> /\ cache' = Append(cache, Cur))
  BY <1>1, MoveFacts
<1>3. pre' \in Byte \cup {NUL}
  BY <1>2, UpdatePreType DEF IInv, TypeOK, CtxTypeOK, IterationFacts
<1>4. TypeOK'
  BY <1>2, <1>3 DEF IInv, TypeOK, CtxTypeOK, IterationFacts, StackInv
<1>5. Idle' /\ StackInv'
  BY <1>1 DEF IterationFacts, Idle
<1>6. InPlace'
  <2>1. Len(dst) + Len(rest) + Len(cache) <= size
    BY <1>1 DEF IInv, InPlace
  <2>2. /\ size' = size /\ size \in Nat
        /\ Len(dst) \in Nat /\ Len(rest) \in Nat /\ Len(cache) \in Nat
        /\ Len(dst') \in Nat /\ Len(rest') \in Nat /\ Len(cache') \in Nat
    BY <1>1, <1>2 DEF IterationFacts, IInv, TypeOK, CtxTypeOK, Bytes
  <2>3. Len(dst') + Len(rest') + Len(cache') <= size'
    BY ONLY <1>2, <2>1, <2>2
  <2> QED BY <2>3 DEF InPlace
<1>7. WithheldOne'
  <2>1. CASE CacheRpos
    <3>1. rest' = <<>> /\ cache' = <<Cur>>
      <4>1. cache' = Append(<<>>, Cur) /\ Cur \in Byte
        BY <1>1, <2>1, CurIsByte DEF CacheRpos
      <4>2. Len(cache') = 1
        BY <4>1
      <4> QED BY <1>1, <1>2, <4>1, <4>2
    <3>2. CtxState' = CtxState
      BY <2>1 DEF IterationFacts, CtxState
    <3>3. Cur = CASE CtxState = "comment" -> "*"
                  [] CtxState = "quote"   -> "\\"
                  [] OTHER                -> "/"
      BY <2>1 DEF IterationFacts
    <3> QED BY <3>1, <3>2, <3>3 DEF WithheldOne
  <2>2. CASE ~CacheRpos
    BY <1>1, <2>2, OnlyCacheRposCaches DEF Moves, WithheldOne
  <2> QED BY <2>1, <2>2
<1>8. SpecialEmpty'
  BY <1>1 DEF IInv, SpecialEmpty, IterationFacts
<1> QED BY <1>4, <1>5, <1>6, <1>7, <1>8 DEF IInv

\* A received buffer: its size is what it holds, the withheld bytes included.
LEMMA ReceiveKeepsIInv ==
    ASSUME IInv, ReceiveBuffer
    PROVE  IInv'
<1>3. Bytes
  BY DEF IInv, TypeOK, CtxTypeOK, Bytes
<1>4. /\ rest' \in Seq(Byte) /\ dst' \in Seq(Byte) /\ cache' \in Seq(Byte)
      /\ dst' = <<>> /\ cache' = <<>> /\ busy' = TRUE
      /\ size' = Len(rest') /\ size' \in Nat
      /\ stack' = stack /\ quote' = quote /\ pre' = pre /\ nochange' = nochange
      /\ inMemory' \in BOOLEAN /\ SpecialEmpty'
  BY <1>3, ReceiveFacts DEF ReceiveBuffer
<1>5. braceLoop' = FALSE
  BY DEF ReceiveBuffer
<1>6. TypeOK'
  BY <1>4, <1>5 DEF IInv, TypeOK, CtxTypeOK
<1>7. StackInv' /\ Idle' /\ WithheldOne'
  BY <1>4, SameStack DEF IInv, Idle, WithheldOne
<1>8. InPlace'
  BY <1>4 DEF InPlace
<1> QED BY <1>4, <1>6, <1>7, <1>8 DEF IInv

\* A delivered buffer leaves the context to the next one.
LEMMA DeliverKeepsIInv ==
    ASSUME IInv, DeliverBuffer
    PROVE  IInv'
<1>1. TypeOK'
  BY DEF IInv, TypeOK, CtxTypeOK, DeliverBuffer, Deliver
<1>2. StackInv'
  BY SameStack DEF IInv, DeliverBuffer, Deliver
<1>3. Idle' /\ InPlace'
  BY DEF DeliverBuffer, Deliver, Idle, InPlace
<1>4. WithheldOne' /\ SpecialEmpty'
  BY DEF IInv, DeliverBuffer, Deliver, WithheldOne, SpecialEmpty, CtxState
<1> QED BY <1>1, <1>2, <1>3, <1>4 DEF IInv

\* The context ngx_pcalloc clears satisfies the invariant.
LEMMA InitInv == Init => IInv
<1> SUFFICES ASSUME Init PROVE IInv
  OBVIOUS
<1>1. StackInv
  <2>1. <<"text">> \in Seq(State) /\ Len(<<"text">>) = 1 /\ <<"text">>[1] = "text"
    BY DEF State
  <2> QED BY <2>1 DEF Init, CtxInit, StackInv, StackShape
<1>2. TypeOK
  <2>1. rest \in Seq(Byte) /\ dst \in Seq(Byte) /\ cache \in Seq(Byte)
    BY DEF Init, CtxInit
  <2>2. stack \in Seq(State)
    BY <1>1 DEF StackInv
  <2>3. /\ size \in Nat /\ quote \in Byte \cup {NUL} /\ pre \in Byte \cup {NUL}
        /\ nochange \in BOOLEAN /\ busy \in BOOLEAN /\ inMemory \in BOOLEAN
        /\ braceLoop \in BOOLEAN
    BY DEF Init, CtxInit
  <2> QED BY <2>1, <2>2, <2>3 DEF TypeOK, CtxTypeOK
<1> QED BY <1>1, <1>2 DEF Init, CtxInit, IInv, Idle, InPlace, WithheldOne, SpecialEmpty

\* Every step keeps it.
LEMMA NextInv == IInv /\ [Next]_vars => IInv'
<1> SUFFICES ASSUME IInv, [Next]_vars PROVE IInv'
  OBVIOUS
<1>1. CASE ReceiveBuffer
  BY <1>1, ReceiveKeepsIInv
<1>2. CASE StripBuffer
  BY <1>2, TextFacts, BraceFacts, CommentFacts, QuoteFacts, IterationKeepsIInv DEF StripBuffer
<1>3. CASE DeliverBuffer
  BY <1>3, DeliverKeepsIInv
<1>4. CASE UNCHANGED vars
  BY <1>4 DEF vars, ctxVars, IInv, TypeOK, CtxTypeOK, StackInv, StackShape, Idle, InPlace,
              WithheldOne, SpecialEmpty, CtxState
<1> QED BY <1>1, <1>2, <1>3, <1>4 DEF Next

\* The invariant holds in every reachable state.
THEOREM Invariance == Spec => []IInv
<1>1. Init => IInv
  BY InitInv
<1>2. IInv /\ [Next]_vars => IInv'
  BY NextInv
<1> QED BY <1>1, <1>2, PTL DEF Spec

------------------------------------------------------------------------------
(* The properties of the runs                                              *)

\* The context never leaves its types.
THEOREM TypeCorrect == Spec => []TypeOK
<1>1. IInv => TypeOK
  BY DEF IInv
<1> QED BY <1>1, Invariance, PTL

\* The state stack of ngx_minify_ctx_t is never overrun nor emptied, however
\* long the response is.
THEOREM StackBounded == Spec => []StackShape
<1>1. IInv => StackShape
  BY DEF IInv, StackInv
<1> QED BY <1>1, Invariance, PTL

\* The rewrite in place never writes a byte it has not read.
THEOREM RewriteInPlace == Spec => []InPlace
<1>1. IInv => InPlace
  BY DEF IInv
<1> QED BY <1>1, Invariance, PTL

\* What is withheld is one byte, of the state that resumes.
THEOREM OneByteWithheld == Spec => []WithheldOne
<1>1. IInv => WithheldOne
  BY DEF IInv
<1> QED BY <1>1, Invariance, PTL

------------------------------------------------------------------------------
(* Blanks outside the braces                                               *)

\* What is pushed is the state that goes on.
LEMMA PushTop ==
    ASSUME StackInv, NEW s \in State, PushState(s)
    PROVE  CtxState' = s /\ Len(stack') = Len(stack) + 1
<1>1. stack \in Seq(State) /\ stack' = Append(stack, s)
  BY DEF StackInv, PushState
<1>2. Len(stack') = Len(stack) + 1 /\ stack'[Len(stack) + 1] = s
  BY ONLY <1>1, s \in State
<1> QED BY <1>2 DEF CtxState

\* Behind a comment or a quoted text the text goes on, or the brace it is in.
LEMMA PopTop ==
    ASSUME StackInv, CtxState \in {"comment", "quote"}, PopState
    PROVE  \/ Len(stack) = 2 /\ CtxState' = "text"
           \/ Len(stack) = 3 /\ CtxState' = "brace"
<1>1. stack \in Seq(State) /\ stack' = SubSeq(stack, 1, Len(stack) - 1)
  BY DEF StackInv, PopState
<1>2. Len(stack) = 2 \/ Len(stack) = 3
  BY DEF StackInv, StackShape, CtxState
<1> DEFINE n == Len(stack) - 1
<1>a. n \in 1..Len(stack) /\ n \in 1..n /\ n = Len(stack) - 1
  BY ONLY <1>2
<1> HIDE DEF n
<1>b. /\ Len(SubSeq(stack, 1, n)) = n
      /\ \A i \in 1..n : SubSeq(stack, 1, n)[i] = stack[i]
  BY ONLY <1>1, <1>a
<1>3. Len(stack') = Len(stack) - 1 /\ stack'[Len(stack) - 1] = stack[Len(stack) - 1]
  BY ONLY <1>1, <1>a, <1>b
<1>4. stack[1] = "text" /\ (Len(stack) = 3 => stack[2] = "brace")
  BY DEF StackInv, StackShape
<1> QED BY <1>2, <1>3, <1>4 DEF CtxState

\* A slash leads nowhere but into a comment, one state deeper.
LEMMA SlashTop ==
    ASSUME StackInv, Slash
    PROVE  \/ CtxState' = CtxState
           \/ CtxState' = "comment" /\ Len(stack') = Len(stack) + 1
BY PushTop DEF Slash, CtxState, State

\* Every step keeps BlankSeen.
LEMMA BlankSeenKept ==
    ASSUME IInv, BlankSeen, [Next]_vars
    PROVE  BlankSeen'
<1>0. StackInv
  BY DEF IInv
<1>1. CASE ReceiveBuffer \/ DeliverBuffer
  BY <1>1 DEF ReceiveBuffer, Receive, ReceiveSpecial, EnterMinifier, DeliverBuffer, Deliver, BlankSeen, CtxState
<1>2. CASE StripText
  <2>1. dst' # <<>> => pre' = dst'[Len(dst')]
    BY <1>2 DEF StripText, UpdatePre
  <2>2. CtxState' = "quote" => quote' \in Quotes
    <3>1. CASE Slash
      BY <1>0, <1>2, <3>1, SlashTop DEF StripText, Iterate
    <3>2. CASE OpenQuote
      BY <3>2 DEF OpenQuote
    <3>3. CASE OpenBrace
      BY <1>0, <3>3, PushTop DEF OpenBrace, State
    <3>4. CASE UNCHANGED stack
      BY <1>2, <3>4 DEF StripText, Iterate, CtxState
    <3> QED
      BY <1>2, <3>1, <3>2, <3>3, <3>4 DEF StripText, TextSpace, TextNewLine, TextOther
  <2> QED BY <2>1, <2>2 DEF BlankSeen
<1>3. CASE StripBrace
  <2>1. CtxState = "brace" /\ Len(stack) = 2
    BY <1>0, <1>3 DEF StripBrace, Iterate, StackInv, StackShape, CtxState
  <2>2. CASE CloseBrace
    <3>1. dst \in Seq(Byte) /\ Cur = "}" /\ Cur \in Byte /\ dst' = Append(dst, Cur)
      BY <1>3, <2>2, CurIsByte
         DEF CloseBrace, CopyRpos, CopyChar, StripBrace, Iterate, IInv, TypeOK, CtxTypeOK, Bytes
    <3>a. dst'[Len(dst')] = Cur
      BY <3>1, LastAppended
    <3>2. dst'[Len(dst')] = "}"
      BY <3>1, <3>a
    <3>3. CtxState' = "text"
      BY <2>2 DEF CloseBrace, SetState, CtxState
    <3> QED BY <3>2, <3>3 DEF BlankSeen
  <2>3. CASE Slash
    <3>1. \/ CtxState' = "brace"
          \/ CtxState' = "comment" /\ Len(stack') = 3
      BY <1>0, <2>1, <2>3, SlashTop
    <3>2. CtxState' \notin {"text", "quote"} /\ ~OverText'
      BY <3>1 DEF OverText
    <3> QED BY <3>2 DEF BlankSeen
  <2>4. CASE OpenQuote
    <3>1. CtxState' = "quote" /\ quote' \in Quotes
      BY <1>0, <2>4, PushTop DEF OpenQuote, State
    <3> QED BY <3>1 DEF BlankSeen, OverText
  <2>5. CASE UNCHANGED stack
    BY <2>1, <2>5 DEF BlankSeen, OverText, CtxState
  <2> QED BY <1>3, <2>2, <2>3, <2>4, <2>5 DEF StripBrace, BraceBlank, BraceOther
<1>4. CASE StripComment
  <2>1. dst' = dst /\ pre' = pre /\ CtxState = "comment"
    BY <1>4 DEF StripComment, IncRpos, IncRposTwice, CacheRpos, UpdatePre, Iterate
  <2>2. CASE UNCHANGED stack
    BY <2>1, <2>2 DEF BlankSeen, OverText, CtxState
  <2>3. CASE PopState
    BY <1>0, <2>1, <2>3, PopTop DEF BlankSeen, OverText
  <2> QED BY <1>4, <2>2, <2>3 DEF StripComment
<1>5. CASE StripQuote
  <2>1. CtxState = "quote" /\ quote' = quote
    BY <1>5 DEF StripQuote, Iterate
  <2>2. CASE UNCHANGED stack
    BY <2>1, <2>2 DEF BlankSeen, OverText, CtxState
  <2>3. CASE Cur = quote /\ CopyRpos /\ PopState
    <3>1. dst \in Seq(Byte) /\ Cur \in Quotes /\ Cur \in Byte /\ dst' = Append(dst, Cur)
      BY <1>5, <2>1, <2>3, CurIsByte
         DEF CopyRpos, CopyChar, StripQuote, Iterate, IInv, TypeOK, CtxTypeOK, Bytes, BlankSeen
    <3>2. dst'[Len(dst')] = Cur
      BY ONLY <3>1
    <3>3. dst'[Len(dst')] \notin {" ", "\t"}
      BY <3>1, <3>2 DEF Quotes
    <3>4. CtxState' \in {"text", "brace"}
      BY <1>0, <2>1, <2>3, PopTop
    <3> QED BY <3>3, <3>4 DEF BlankSeen, OverText
  <2> QED BY <1>5, <2>2, <2>3 DEF StripQuote
<1>6. CASE UNCHANGED vars
  BY <1>6 DEF vars, ctxVars, BlankSeen, OverText, CtxState
<1> QED BY <1>1, <1>2, <1>3, <1>4, <1>5, <1>6 DEF Next, StripBuffer

\* A blank behind a blank is dropped outside the braces, in every document and
\* however comments, quoted texts and braces stand between the two reads.
THEOREM BlanksCollapse == Spec => TextBlanksCollapse
<1>1. Init => IInv /\ BlankSeen
  BY InitInv DEF Init, CtxInit, BlankSeen, CtxState
<1>2. IInv /\ BlankSeen /\ [Next]_vars => IInv' /\ BlankSeen'
  BY NextInv, BlankSeenKept
<1>3. ASSUME IInv, BlankSeen, [Next]_vars,
             busy, rest # <<>>, CtxState = "text", Cur \in {" ", "\t"},
             dst # <<>>, dst[Len(dst)] \in {" ", "\t"}
      PROVE  dst' = dst
  <2>1. pre \in {" ", "\t"}
    BY <1>3 DEF BlankSeen
  <2>2. CASE StripText
    <3>1. TextSpace
      BY <1>3, <2>2 DEF StripText, Slash, OpenQuote, OpenBrace, TextNewLine, TextOther,
                        Quotes, NewLines
    <3> QED BY <2>1, <3>1 DEF TextSpace, IncRpos
  <2>3. ~StripBrace /\ ~StripComment /\ ~StripQuote /\ ~ReceiveBuffer /\ ~DeliverBuffer
    BY <1>3 DEF StripBrace, StripComment, StripQuote, Iterate, ReceiveBuffer, Receive,
                ReceiveSpecial, EnterMinifier,
                DeliverBuffer, Deliver
  <2>4. CASE UNCHANGED vars
    BY <2>4 DEF vars, ctxVars
  <2> QED BY <1>3, <2>2, <2>3, <2>4 DEF Next, StripBuffer
<1> QED BY <1>1, <1>2, <1>3, PTL DEF Spec, TextBlanksCollapse

------------------------------------------------------------------------------
(* CssMinify implements CssContract                                        *)

Pending == cache \o rest

\* What an iteration may do to the stream: a step of the contract, or nothing.
Rewritten == Contract!Rewrite \/ UNCHANGED <<Pending, dst, stack, quote>>

\* While a buffer is stripped nothing is withheld, and what is pending is what
\* rpos has not reached.
LEMMA PendingIsRest ==
    ASSUME IInv, rest # <<>>
    PROVE  /\ cache = <<>> /\ Pending = rest
           /\ rest \in Seq(Byte) /\ Cur = Pending[1]
<1>1. cache = <<>> /\ rest \in Seq(Byte)
  BY DEF IInv, TypeOK, CtxTypeOK, WithheldOne
<1>2. <<>> \o rest = rest
  BY ONLY <1>1
<1> QED BY <1>1, <1>2 DEF Pending, Cur

\* Stepping over bytes consumes them from the stream; withholding one does not.
LEMMA StreamMoves ==
    ASSUME IInv, rest # <<>>
    PROVE  /\ IncRpos => Contract!OmitOne
           /\ IncRposTwice /\ Count >= 2 => Contract!OmitTwo
           /\ CopyRpos => Contract!KeepOne
           /\ CopyRposTwice /\ Count >= 2 => Contract!KeepTwo
           /\ CacheRpos => Pending' = Pending /\ dst' = dst
<1>1. /\ cache = <<>> /\ Pending = rest /\ rest \in Seq(Byte)
      /\ Cur = Pending[1] /\ Cur \in Byte
  <2>1. Bytes
    BY DEF IInv, TypeOK, CtxTypeOK, Bytes
  <2> QED BY <2>1, PendingIsRest, CurIsByte
<1>2. ASSUME cache' = <<>>, rest' \in Seq(Byte)
      PROVE  Pending' = rest'
  <2>1. <<>> \o rest' = rest'
    BY ONLY <1>2
  <2> QED BY <1>2, <2>1 DEF Pending
<1>3. Tail(rest) \in Seq(Byte)
  BY <1>1, TailFacts
<1>4. Count >= 2 => Tail(Tail(rest)) \in Seq(Byte)
  BY <1>1, TailTwiceFacts DEF Count
<1>5. IncRpos => Contract!OmitOne
  BY <1>1, <1>2, <1>3 DEF IncRpos, Contract!OmitOne, Pending
<1>6. IncRposTwice /\ Count >= 2 => Contract!OmitTwo
  BY <1>1, <1>2, <1>4 DEF IncRposTwice, Contract!OmitTwo, Pending
<1>7. CopyRpos => Contract!KeepOne
  BY <1>1, <1>2, <1>3 DEF CopyRpos, CopyChar, Contract!KeepOne, Pending
<1>8. CopyRposTwice /\ Count >= 2 => Contract!KeepTwo
  BY <1>1, <1>2, <1>4 DEF CopyRposTwice, Contract!KeepTwo, Pending
<1>9. ASSUME CacheRpos PROVE Pending' = Pending /\ dst' = dst
  <2>1. cache' = Append(<<>>, Cur) /\ Len(rest) = 1 /\ rest' = Tail(rest) /\ dst' = dst
    BY <1>1, <1>9 DEF CacheRpos, Count
  <2>2. Tail(rest) = <<>>
    BY <1>1, <2>1, TailFacts, EmptySeq
  <2>3. rest = Append(<<>>, rest[1])
    BY ONLY <1>1, <2>1, rest \in Seq(Byte)
  <2>4. Append(<<>>, rest[1]) \o <<>> = Append(<<>>, rest[1])
    BY <1>1 DEF Cur
  <2> QED BY <1>1, <2>1, <2>2, <2>3, <2>4 DEF Pending, Cur
<1> QED BY <1>5, <1>6, <1>7, <1>8, <1>9

\* The contract sees the two bytes the minifier looks at.
LEMMA LookAhead ==
    ASSUME IInv, rest # <<>>
    PROVE  /\ Contract!Sees(1) /\ Cur = Pending[1]
           /\ Contract!Sees(2) <=> Count >= 2
           /\ \A a, b : StartsWith(a, b) <=> Count >= 2 /\ Cur = a /\ Pending[2] = b
           /\ Contract!Inside = CtxState
BY PendingIsRest, TailFacts DEF Contract!Sees, Count, StartsWith, Contract!Inside, CtxState,
   Pending, Cur

\* A slash outside comments and quoted texts.
LEMMA SlashImplements ==
    ASSUME IInv, rest # <<>>, CtxState \in {"text", "brace"}, Slash
    PROVE  Rewritten
<1>1. CASE StartsWith("/", "*") /\ IncRposTwice /\ PushState("comment")
  <2>1. Contract!OmitTwo
    BY <1>1, StreamMoves DEF StartsWith
  <2>2. Count >= 2 /\ Pending[1] = "/" /\ Pending[2] = "*"
    BY <1>1, LookAhead DEF Slash
  <2>3. UNCHANGED quote
    BY DEF Slash
  <2>4. Contract!Plain /\ Contract!Sees(2)
    BY <2>2, LookAhead DEF Contract!Plain
  <2>5. Contract!OmitCommentOpening
    BY <1>1, <2>1, <2>2, <2>3, <2>4
       DEF Contract!OmitCommentOpening, Contract!Enter, PushState, Pending
  <2> QED BY <2>5 DEF Rewritten, Contract!Rewrite
<1>2. CASE Count >= 2 /\ ~StartsWith("/", "*") /\ CopyRposTwice /\ UNCHANGED stack
  <2>1. Contract!KeepTwo
    BY <1>2, StreamMoves
  <2>2. Contract!KeepSlash
    BY <1>2, <2>1, LookAhead DEF Slash, Contract!KeepSlash, Contract!Plain, Pending
  <2> QED BY <2>2 DEF Rewritten, Contract!Rewrite
<1>3. CASE CacheRpos /\ UNCHANGED stack
  BY <1>3, StreamMoves DEF Slash, Rewritten, Pending
<1> QED BY <1>1, <1>2, <1>3 DEF Slash

\* A quote outside comments and quoted texts.
LEMMA OpenQuoteImplements ==
    ASSUME IInv, rest # <<>>, CtxState \in {"text", "brace"}, OpenQuote
    PROVE  Rewritten
<1>1. Contract!KeepOne
  BY StreamMoves DEF OpenQuote
<1>2. Contract!KeepOpeningQuote
  BY <1>1, LookAhead
     DEF OpenQuote, Contract!KeepOpeningQuote, Contract!Plain, Contract!Enter, PushState,
         Quotes, Contract!QuoteMark, Pending
<1> QED BY <1>2 DEF Rewritten, Contract!Rewrite

\* A blank is dropped outside comments and quoted texts.
LEMMA BlankImplements ==
    ASSUME IInv, rest # <<>>, CtxState \in {"text", "brace"},
           Cur \in {" ", "\t"} \cup NewLines, IncRpos, UNCHANGED <<stack, quote>>
    PROVE  Rewritten
<1>1. Contract!OmitOne
  BY StreamMoves
<1>2. Contract!OmitBlank
  BY <1>1, LookAhead DEF Contract!OmitBlank, Contract!Plain, Contract!Blank, NewLines, Pending
<1> QED BY <1>2 DEF Rewritten, Contract!Rewrite

\* Every other byte is sent, and the braces are followed.
LEMMA KeepImplements ==
    ASSUME IInv, rest # <<>>, CtxState \in {"text", "brace"},
           Cur \notin {"/"} \cup Quotes, CopyRpos, UNCHANGED quote,
           stack' = CASE Cur = "{" /\ CtxState = "text"  -> Append(stack, "brace")
                      [] Cur = "}" /\ CtxState = "brace" -> <<"text">>
                      [] OTHER -> stack
    PROVE  Rewritten
<1>1. Contract!KeepOne
  BY StreamMoves
<1>2. Contract!KeepByte
  BY <1>1, LookAhead DEF Contract!KeepByte, Contract!Plain, Contract!QuoteMark, Quotes, Pending
<1> QED BY <1>2 DEF Rewritten, Contract!Rewrite

\* An iteration in the text.
LEMMA TextImplements ==
    ASSUME IInv, StripText
    PROVE  Rewritten
<1>1. rest # <<>> /\ CtxState = "text" /\ busy
  BY DEF StripText, Iterate
<1>2. CASE TextSpace
  <2>1. CASE IncRpos
    BY <1>1, <1>2, <2>1, BlankImplements DEF TextSpace
  <2>2. CASE CopyRpos
    BY <1>1, <1>2, <2>2, KeepImplements DEF TextSpace, Quotes
  <2> QED BY <1>2, <2>1, <2>2 DEF TextSpace
<1>3. CASE Slash
  BY <1>1, <1>3, SlashImplements
<1>4. CASE OpenQuote
  BY <1>1, <1>4, OpenQuoteImplements
<1>5. CASE OpenBrace
  BY <1>1, <1>5, KeepImplements DEF OpenBrace, Quotes, PushState
<1>6. CASE TextNewLine
  BY <1>1, <1>6, BlankImplements DEF TextNewLine
<1>7. CASE TextOther
  BY <1>1, <1>7, KeepImplements DEF TextOther
<1> QED BY <1>2, <1>3, <1>4, <1>5, <1>6, <1>7 DEF StripText

\* An iteration inside the braces.
LEMMA BraceImplements ==
    ASSUME IInv, StripBrace
    PROVE  Rewritten
<1>1. rest # <<>> /\ CtxState = "brace" /\ busy
  BY DEF StripBrace, Iterate
<1>2. CASE CloseBrace
  BY <1>1, <1>2, KeepImplements DEF CloseBrace, Quotes, SetState
<1>3. CASE BraceBlank
  BY <1>1, <1>3, BlankImplements DEF BraceBlank
<1>4. CASE Slash
  BY <1>1, <1>4, SlashImplements
<1>5. CASE OpenQuote
  BY <1>1, <1>5, OpenQuoteImplements
<1>6. CASE BraceOther
  BY <1>1, <1>6, KeepImplements DEF BraceOther
<1> QED BY <1>2, <1>3, <1>4, <1>5, <1>6 DEF StripBrace

\* An iteration inside a comment.
LEMMA CommentImplements ==
    ASSUME IInv, StripComment
    PROVE  Rewritten
<1>1. rest # <<>> /\ CtxState = "comment" /\ quote' = quote
  BY DEF StripComment, Iterate
<1>2. CASE StartsWith("*", "/") /\ IncRposTwice /\ PopState
  <2>1. Contract!OmitTwo
    BY <1>1, <1>2, StreamMoves DEF StartsWith
  <2>2. Contract!OmitComment
    BY <1>1, <1>2, <2>1, LookAhead DEF Contract!OmitComment, Contract!Leave, PopState, Pending
  <2> QED BY <2>2 DEF Rewritten, Contract!Rewrite
<1>3. CASE CacheRpos /\ UNCHANGED stack
  BY <1>1, <1>3, StreamMoves DEF Rewritten, Pending
<1>4. CASE /\ ~StartsWith("*", "/") /\ ~(Cur = "*" /\ Count = 1)
           /\ IncRpos /\ UNCHANGED stack
  <2>1. Contract!OmitOne
    BY <1>1, <1>4, StreamMoves
  <2>2. Count >= 1 /\ Count \in Nat
    BY <1>1, PendingIsRest, TailFacts DEF Count
  <2>3. Cur # "*" \/ (Count >= 2 /\ Cur = "*" /\ Pending[2] # "/")
    BY <1>1, <1>4, <2>2, LookAhead
  <2>4. Contract!OmitComment
    BY <1>1, <1>4, <2>1, <2>3, LookAhead DEF Contract!OmitComment, Pending
  <2> QED BY <2>4 DEF Rewritten, Contract!Rewrite
<1> QED BY <1>2, <1>3, <1>4 DEF StripComment

\* An iteration inside a quoted text.
LEMMA QuoteImplements ==
    ASSUME IInv, StripQuote
    PROVE  Rewritten
<1>1. rest # <<>> /\ CtxState = "quote" /\ quote' = quote
  BY DEF StripQuote, Iterate
<1>2. CASE Cur = "\\" /\ Count > 1 /\ CopyRposTwice /\ UNCHANGED stack
  <2>1. Count >= 2
    BY <1>1, <1>2, PendingIsRest, TailFacts DEF Count
  <2>2. Contract!KeepTwo
    BY <1>1, <1>2, <2>1, StreamMoves
  <2>3. Contract!KeepQuoted
    BY <1>1, <1>2, <2>1, <2>2, LookAhead DEF Contract!KeepQuoted, Pending
  <2> QED BY <2>3 DEF Rewritten, Contract!Rewrite
<1>3. CASE CacheRpos /\ UNCHANGED stack
  BY <1>1, <1>3, StreamMoves DEF Rewritten, Pending
<1>4. CASE Cur = quote /\ CopyRpos /\ PopState
  <2>1. Contract!KeepOne
    BY <1>1, <1>4, StreamMoves
  <2>2. Contract!KeepQuoted
    BY <1>1, <1>4, <2>1, LookAhead DEF Contract!KeepQuoted, Contract!Leave, PopState, Pending
  <2> QED BY <2>2 DEF Rewritten, Contract!Rewrite
<1>5. CASE Cur \notin {"\\", quote} /\ CopyRpos /\ UNCHANGED stack
  <2>1. Contract!KeepOne
    BY <1>1, <1>5, StreamMoves
  <2>2. Contract!KeepQuoted
    BY <1>1, <1>5, <2>1, LookAhead DEF Contract!KeepQuoted, Pending
  <2> QED BY <2>2 DEF Rewritten, Contract!Rewrite
<1> QED BY <1>2, <1>3, <1>4, <1>5 DEF StripQuote

\* A received buffer extends the stream behind the withheld byte; one that is
\* not in memory loses that byte, or does nothing when there is none.
LEMMA ReceiveImplements ==
    ASSUME IInv, ReceiveBuffer
    PROVE  [Contract!CNext]_(Contract!cvars)
<1>2. /\ Bytes
      /\ rest' \in Seq(Byte) /\ cache' = <<>> /\ dst' = <<>>
      /\ stack' = stack /\ quote' = quote /\ ~busy
      /\ inMemory \in BOOLEAN
  <2>1. Bytes /\ inMemory \in BOOLEAN
    BY DEF IInv, TypeOK, CtxTypeOK, Bytes
  <2> QED BY <2>1, ReceiveFacts DEF ReceiveBuffer
<1>3. rest = <<>> /\ dst = <<>>
  BY <1>2 DEF IInv, Idle
<1>5. Pending = cache
  <2>1. cache \o <<>> = cache
    BY <1>3 DEF Bytes
  <2> QED BY <1>3, <2>1 DEF Pending
<1>6. Pending' = rest'
  <2>1. <<>> \o rest' = rest'
    BY ONLY <1>2
  <2> QED BY <1>2, <2>1 DEF Pending
<1>7. ASSUME NEW chunk \in Chunk, Receive(chunk) PROVE Contract!Arrive
  <2>1. rest' = cache \o chunk /\ chunk \in Seq(Byte) /\ inMemory' = TRUE
    BY <1>2, <1>7, ReceiveAppends
  <2>2. /\ cache \o chunk \in Seq(Byte)
        /\ Len(cache \o chunk) >= Len(cache)
        /\ \A i \in 1..Len(cache) : (cache \o chunk)[i] = cache[i]
    BY <1>2, <2>1 DEF Bytes
  <2> QED BY <1>2, <1>3, <1>5, <1>6, <2>1, <2>2 DEF Contract!Arrive, Pending
<1>8. CASE ReceiveSpecial
  <2>1. rest' = <<>> /\ inMemory' = FALSE
    BY <1>8 DEF ReceiveSpecial, EnterMinifier
  <2>2. CASE cache = <<>>
    <3>1. Contract!Flush
      BY <1>2, <1>3, <1>5, <1>6, <2>1, <2>2 DEF Contract!Flush, Pending
    <3> QED BY <3>1 DEF Contract!CNext
  <2>3. CASE cache # <<>>
    <3>1. Len(cache) = 1 /\ cache \in Seq(Byte) /\ inMemory
      BY <1>2, <2>3 DEF IInv, WithheldOne, SpecialEmpty, Bytes
    <3>2. cache = <<cache[1]>>
      BY ONLY <3>1
    <3>3. \/ CtxState \in {"text", "brace"} /\ cache[1] = "/"
          \/ CtxState = "comment" /\ cache[1] = "*"
          \/ CtxState = "quote" /\ cache[1] = "\\"
      <4>1. CtxState \in State
        BY DEF IInv, StackInv, StackShape, CtxState, State
      <4> QED BY <2>3, <4>1 DEF IInv, WithheldOne, State
    <3>4. Contract!LosePending
      BY <1>2, <1>3, <1>5, <1>6, <2>1, <2>3, <3>1 DEF Contract!LosePending, Pending
    <3>5. Contract!LoseBegun
      BY <1>2, <1>5, <3>2, <3>3, <3>4
         DEF Contract!LoseBegun, Contract!Inside, CtxState, Pending
    <3> QED BY <3>5 DEF Contract!CNext
  <2> QED BY <2>2, <2>3
<1> QED BY <1>7, <1>8 DEF ReceiveBuffer, Contract!CNext

\* However the response is cut into buffers, the minifier is a step-by-step
\* implementation of the contract of the whole stream.
THEOREM Refinement == Spec => ImplementsContract
<1>1. Init => Contract!CInit
  <2>1. <<>> \o <<>> = <<>>
    OBVIOUS
  <2> QED BY <2>1 DEF Init, CtxInit, Contract!CInit, NUL
<1>2. IInv /\ [Next]_vars => [Contract!CNext]_(Contract!cvars)
  <2> SUFFICES ASSUME IInv, [Next]_vars PROVE [Contract!CNext]_(Contract!cvars)
    OBVIOUS
  <2>1. CASE ReceiveBuffer
    BY <2>1, ReceiveImplements
  <2>2. CASE StripBuffer
    <3>1. Rewritten
      BY <2>2, TextImplements, BraceImplements, CommentImplements, QuoteImplements
         DEF StripBuffer
    <3>2. inMemory' = inMemory
      BY <2>2, TextFacts, BraceFacts, CommentFacts, QuoteFacts
         DEF StripBuffer, IterationFacts
    <3> QED BY <3>1, <3>2 DEF Rewritten, Contract!CNext, Contract!cvars, Pending
  <2>3. CASE DeliverBuffer
    BY <2>3 DEF DeliverBuffer, Deliver, Contract!CNext, Contract!Send
  <2>4. CASE UNCHANGED vars
    BY <2>4 DEF vars, ctxVars, Contract!cvars
  <2> QED BY <2>1, <2>2, <2>3, <2>4 DEF Next
<1> QED BY <1>1, <1>2, Invariance, PTL DEF Spec, ImplementsContract, Contract!CSpec

==============================================================================
