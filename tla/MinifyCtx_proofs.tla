-------------------------- MODULE MinifyCtx_proofs --------------------------
(***************************************************************************)
(* Lemmas about the helpers of MinifyCtx: what a move of rpos and wpos     *)
(* returns, bounds and keeps.  The proofs about the minifiers cite them.   *)
(***************************************************************************)
EXTENDS MinifyCtx, SequenceTheorems, TLAPS

Bytes == rest \in Seq(Byte) /\ dst \in Seq(Byte) /\ cache \in Seq(Byte)

\* A buffer that is not in memory leaves nothing to read and nothing withheld.
SpecialEmpty == ~inMemory => rest = <<>> /\ cache = <<>>

\* The ways a loop iteration moves over the buffer.
Moves ==
    \/ IncRpos
    \/ IncRposTwice /\ Count >= 2
    \/ CopyRpos
    \/ CopyRposTwice /\ Count >= 2
    \/ \E c \in Byte : CopyChar(c)
    \/ CacheRpos

\* What is left of a sequence behind its first byte, and behind its second.
LEMMA TailFacts ==
    ASSUME NEW S, NEW s \in Seq(S), s # <<>>
    PROVE  /\ Tail(s) \in Seq(S) /\ Len(Tail(s)) = Len(s) - 1
           /\ Len(s) \in Nat /\ Len(s) >= 1 /\ s[1] \in S
<1>1. Len(s) \in Nat /\ Len(s) >= 1
  BY EmptySeq
<1>2. s[1] \in S
  BY <1>1, ElementOfSeq
<1> QED BY <1>1, <1>2, HeadTailProperties

LEMMA TailTwiceFacts ==
    ASSUME NEW S, NEW s \in Seq(S), Len(s) >= 2
    PROVE  /\ Tail(Tail(s)) \in Seq(S) /\ Len(Tail(Tail(s))) = Len(s) - 2
           /\ s[1] \in S /\ s[2] \in S /\ Len(s) \in Nat
<1>1. s # <<>> /\ Len(s) \in Nat /\ 1 \in 1..Len(s) /\ 2 \in 1..Len(s)
  BY EmptySeq, LenProperties
<1>2. Tail(s) \in Seq(S) /\ Len(Tail(s)) = Len(s) - 1
  BY <1>1, TailFacts
<1>3. Tail(s) # <<>>
  BY <1>1, <1>2, EmptySeq
<1>4. Tail(Tail(s)) \in Seq(S) /\ Len(Tail(Tail(s))) = Len(s) - 2
  BY <1>1, <1>2, <1>3, TailFacts
<1> QED BY <1>1, <1>4, ElementOfSeq

\* What is appended is the last element.
LEMMA LastAppended ==
    ASSUME NEW S, NEW s \in Seq(S), NEW e \in S
    PROVE  Append(s, e)[Len(Append(s, e))] = e
OBVIOUS

\* While the loop runs, *rpos is a byte of the document.
LEMMA CurIsByte == ASSUME Bytes, rest # <<>> PROVE Cur \in Byte
BY TailFacts DEF Bytes, Cur

\* A move keeps the bytes bytes, writes no more than it reads, and withholds
\* nothing unless it withholds the last byte of the buffer.
LEMMA MoveFacts ==
    ASSUME Bytes, rest # <<>>, Moves
    PROVE  /\ rest' \in Seq(Byte) /\ dst' \in Seq(Byte) /\ cache' \in Seq(Byte)
           /\ Len(dst') + Len(rest') + Len(cache') <= Len(dst) + Len(rest) + Len(cache)
           /\ cache' = cache \/ (rest' = <<>> /\ cache' = Append(cache, Cur))
<1>1. /\ rest \in Seq(Byte) /\ dst \in Seq(Byte) /\ cache \in Seq(Byte)
      /\ Len(rest) \in Nat /\ Len(dst) \in Nat /\ Len(cache) \in Nat
      /\ Cur \in Byte
  BY CurIsByte, LenProperties DEF Bytes
<1>2. /\ Tail(rest) \in Seq(Byte) /\ Len(Tail(rest)) = Len(rest) - 1
  BY <1>1, TailFacts
<1>3. CASE IncRpos
  BY <1>1, <1>2, <1>3 DEF IncRpos
<1>4. CASE IncRposTwice /\ Count >= 2
  BY <1>1, <1>4, TailTwiceFacts DEF IncRposTwice, Count
<1>5. CASE CopyRpos
  <2>1. Append(dst, Cur) \in Seq(Byte) /\ Len(Append(dst, Cur)) = Len(dst) + 1
    BY <1>1
  <2> QED BY <1>1, <1>2, <1>5, <2>1 DEF CopyRpos, CopyChar
<1>6. CASE CopyRposTwice /\ Count >= 2
  <2>1. /\ Tail(Tail(rest)) \in Seq(Byte) /\ Len(Tail(Tail(rest))) = Len(rest) - 2
        /\ rest[1] \in Byte /\ rest[2] \in Byte
    BY <1>1, <1>6, TailTwiceFacts DEF Count
  <2>2. Append(dst, rest[1]) \in Seq(Byte) /\ Len(Append(dst, rest[1])) = Len(dst) + 1
    BY <1>1, <2>1
  <2>3. /\ Append(Append(dst, rest[1]), rest[2]) \in Seq(Byte)
        /\ Len(Append(Append(dst, rest[1]), rest[2])) = Len(dst) + 2
    BY <1>1, <2>1, <2>2
  <2>4. rest' \in Seq(Byte) /\ Len(rest') = Len(rest) - 2
    BY <1>6, <2>1 DEF CopyRposTwice
  <2>5. dst' \in Seq(Byte) /\ Len(dst') = Len(dst) + 2
    BY <1>6, <2>3 DEF CopyRposTwice
  <2>6. cache' = cache
    BY <1>6 DEF CopyRposTwice
  <2> QED BY ONLY <1>1, <2>4, <2>5, <2>6
<1>8. CASE \E c \in Byte : CopyChar(c)
  <2>1. PICK c \in Byte : CopyChar(c)
    BY <1>8
  <2>2. Append(dst, c) \in Seq(Byte) /\ Len(Append(dst, c)) = Len(dst) + 1
    BY <1>1
  <2> QED BY <1>1, <1>2, <2>1, <2>2 DEF CopyChar
<1>7. CASE CacheRpos
  <2>1. Append(cache, Cur) \in Seq(Byte) /\ Len(Append(cache, Cur)) = Len(cache) + 1
    BY <1>1
  <2>2. Tail(rest) = <<>>
    BY <1>1, <1>2, <1>7, EmptySeq DEF CacheRpos, Count
  <2> QED BY <1>1, <1>2, <1>7, <2>1, <2>2 DEF CacheRpos
<1> QED BY <1>3, <1>4, <1>5, <1>6, <1>7, <1>8 DEF Moves

\* Only CacheRpos withholds a byte.
LEMMA OnlyCacheRposCaches ==
    ASSUME Bytes,
           IncRpos \/ IncRposTwice \/ CopyRpos \/ CopyRposTwice \/ (\E c \in Byte : CopyChar(c))
    PROVE  ~CacheRpos /\ cache' = cache
<1>1. cache' = cache
  BY DEF IncRpos, IncRposTwice, CopyRpos, CopyChar, CopyRposTwice
<1>2. ASSUME CacheRpos PROVE FALSE
  <2>1. Count = 1 /\ cache' = Append(cache, Cur)
    BY <1>2 DEF CacheRpos
  <2>2. Cur \in Byte
    <3>1. rest # <<>>
      BY <2>1 DEF Count
    <3> QED BY <3>1, CurIsByte
  <2>3. Len(cache') = Len(cache) + 1 /\ Len(cache) \in Nat
    BY <2>1, <2>2, AppendProperties, LenProperties DEF Bytes
  <2> QED BY <1>1, <2>3
<1> QED BY <1>1, <1>2

\* pre_char stays a byte or the zero it started with.
LEMMA UpdatePreType ==
    ASSUME UpdatePre, dst' \in Seq(Byte), pre \in Byte \cup {NUL}
    PROVE  pre' \in Byte \cup {NUL}
<1>1. CASE ~nochange' /\ dst' # <<>>
  <2>1. dst'[Len(dst')] \in Byte
    BY <1>1
  <2> QED BY <1>1, <2>1 DEF UpdatePre
<1>2. CASE ~(~nochange' /\ dst' # <<>>)
  BY <1>2 DEF UpdatePre
<1> QED BY <1>1, <1>2

\* A received buffer: its size is what the minifier is to strip, and nothing
\* stays withheld.
LEMMA ReceiveFacts ==
    ASSUME Bytes, ReceiveSpecial \/ \E chunk \in Chunk : Receive(chunk)
    PROVE  /\ rest' \in Seq(Byte) /\ dst' \in Seq(Byte) /\ cache' \in Seq(Byte)
           /\ dst' = <<>> /\ cache' = <<>> /\ ~busy /\ busy' = TRUE
           /\ size' = Len(rest') /\ size' \in Nat
           /\ stack' = stack /\ quote' = quote /\ pre' = pre /\ nochange' = nochange
           /\ inMemory' \in BOOLEAN /\ SpecialEmpty'
<1>1. <<>> \in Seq(Byte)
  OBVIOUS
<1>2. CASE ReceiveSpecial
  BY <1>1, <1>2, LenProperties DEF ReceiveSpecial, EnterMinifier, SpecialEmpty
<1>3. ASSUME NEW chunk \in Chunk, Receive(chunk)
      PROVE  rest' \in Seq(Byte) /\ Len(rest') \in Nat
  <2>1. chunk \in Seq(Byte)
    BY ChunkAssumption
  <2>2. cache \o chunk \in Seq(Byte)
    BY <2>1 DEF Bytes
  <2> QED BY <1>3, <2>2, LenProperties DEF Receive, EnterMinifier
<1>4. CASE \E chunk \in Chunk : Receive(chunk)
  BY <1>1, <1>3, <1>4 DEF Receive, EnterMinifier, SpecialEmpty
<1> QED BY <1>2, <1>4

\* In a buffer in memory what was withheld stands in front.
LEMMA ReceiveAppends ==
    ASSUME Bytes, NEW chunk \in Chunk, Receive(chunk)
    PROVE  rest' = cache \o chunk /\ chunk \in Seq(Byte) /\ inMemory' = TRUE
BY ChunkAssumption DEF Receive, EnterMinifier
==============================================================================
