------------------------------ MODULE MinifyCtx ------------------------------
(***************************************************************************)
(* The per-response context of the minify filter, ngx_minify_ctx_t, the    *)
(* inline helpers every minifier (css, js, html) is written with, and the  *)
(* part of the body filter that prepends the withheld bytes to the next    *)
(* buffer and hands the rewritten buffer down the chain.                   *)
(*                                                                         *)
(* A buffer is rewritten IN PLACE: wpos starts at rpos and both run over   *)
(* the same memory.  The model keeps the bytes rpos has not reached        *)
(* (rest, so ctx->count = Len(rest)), the bytes wpos has written (dst, so  *)
(* ctx->dstlen = Len(dst)) and the length the buffer started with (size).  *)
(* pre_char2 is written but never read, and is left out.                   *)
(***************************************************************************)
EXTENDS Integers, Sequences

CONSTANTS
    Byte,       \* the bytes a document is made of, one-character strings
    Chunk       \* the buffers the upstream may deliver

ASSUME ChunkAssumption == Chunk \subseteq Seq(Byte)

\* The zero ngx_pcalloc leaves in pre_char and quote_char.
NUL == "NUL"

VARIABLES
    rest,       \* rpos .. rpos + count - 1
    dst,        \* b->pos .. wpos - 1
    size,       \* ngx_buf_size(b) when the minifier was entered
    cache,      \* cache[0 .. cachelen-1], withheld for the next buffer
    stack,      \* state[0 .. sspos]
    quote,      \* quote_char
    pre,        \* pre_char
    nochange,   \* nochange_pre
    busy,       \* a buffer is between the minifier's entry and next_body_filter
    inMemory    \* ngx_buf_in_memory of the buffer last received

ctxVars == <<rest, dst, size, cache, stack, quote, pre, nochange, busy, inMemory>>

\* State: the members of ngx_minify_state_e the minifier uses
CtxTypeOK(State) ==
    /\ rest \in Seq(Byte) /\ dst \in Seq(Byte) /\ cache \in Seq(Byte)
    /\ size \in Nat
    /\ stack \in Seq(State)
    /\ quote \in Byte \cup {NUL} /\ pre \in Byte \cup {NUL}
    /\ nochange \in BOOLEAN /\ busy \in BOOLEAN /\ inMemory \in BOOLEAN

\* ngx_pcalloc zeroes the context: state[0] = minify_state_text, sspos = 0.
CtxInit ==
    /\ rest = <<>> /\ dst = <<>> /\ size = 0 /\ cache = <<>>
    /\ stack = <<"text">>
    /\ quote = NUL /\ pre = NUL
    /\ nochange = FALSE /\ busy = FALSE /\ inMemory = TRUE

------------------------------------------------------------------------------
(* The helpers.  Each one is a conjunct of a loop iteration.               *)

Cur == rest[1]                      \* *ctx->rpos
Count == Len(rest)                  \* ctx->count
CtxState == stack[Len(stack)]       \* CTX_STATE

StartsWith(a, b) == Count >= 2 /\ rest[1] = a /\ rest[2] = b

PushState(s) == stack' = Append(stack, s)
PopState == stack' = SubSeq(stack, 1, Len(stack) - 1)
SetState(s) == stack' = <<s>>

IncRpos == rest' = Tail(rest) /\ UNCHANGED <<dst, cache>>
IncRposTwice == rest' = Tail(Tail(rest)) /\ UNCHANGED <<dst, cache>>
CopyChar(c) == rest' = Tail(rest) /\ dst' = Append(dst, c) /\ UNCHANGED cache
CopyRpos == CopyChar(Cur)
CopyRposTwice ==
    /\ rest' = Tail(Tail(rest))
    /\ dst' = Append(Append(dst, rest[1]), rest[2])
    /\ UNCHANGED cache

\* Mutant: the withheld byte is stepped over by ngx_minify_copy_rpos.
CacheRpos_AlsoCopied ==
    /\ Count = 1
    /\ cache' = Append(cache, Cur)
    /\ rest' = Tail(rest)
    /\ dst' = Append(dst, Cur)

\* ngx_minify_cache of the one byte left, and the ngx_minify_inc_rpos after it
CacheRpos ==
    /\ Count = 1
    /\ cache' = Append(cache, Cur)
    /\ rest' = Tail(rest)
    /\ UNCHANGED dst

\* The end of a loop iteration: pre_char follows the last byte written to
\* this buffer, unless nochange_pre froze it or nothing is written yet.
UpdatePre == pre' = IF ~nochange' /\ dst' # <<>> THEN dst'[Len(dst')] ELSE pre

------------------------------------------------------------------------------
(* The body filter.                                                        *)

\* The minifier is entered with these bytes to strip.
EnterMinifier(bytes) ==
    /\ ~busy
    /\ rest' = bytes
    /\ dst' = <<>>
    /\ size' = Len(bytes)
    /\ busy' = TRUE
    /\ UNCHANGED <<stack, quote, pre, nochange>>

\* Mutant: cachelen is not cleared once its bytes are prepended.
Receive_KeepsCache(chunk) ==
    EnterMinifier(cache \o chunk) /\ UNCHANGED cache /\ inMemory' = TRUE

\* A buffer of the upstream: the withheld bytes are copied in front of it.
\* It may be empty, and nothing depends on its being the last.
Receive(chunk) == EnterMinifier(cache \o chunk) /\ cache' = <<>> /\ inMemory' = TRUE

\* A buffer that is not in memory (it only flushes, or only ends the response):
\* the withheld bytes are copied to its newbuf, but ngx_buf_size, which asks
\* whether a buffer is in memory, still says 0, so the minifier reads none
\* and what was withheld is lost.
ReceiveSpecial == EnterMinifier(<<>>) /\ cache' = <<>> /\ inMemory' = FALSE

\* The minifier's loop has ended: b->last = b->pos + dstlen, and the buffer
\* goes to ngx_http_next_body_filter.
Deliver ==
    /\ busy /\ rest = <<>>
    /\ busy' = FALSE
    /\ dst' = <<>>
    /\ UNCHANGED <<rest, size, cache, stack, quote, pre, nochange, inMemory>>

------------------------------------------------------------------------------
\* wpos never overtakes rpos although bytes withheld from an earlier buffer
\* are put in front of this one: what is written, what is left and what is
\* withheld fit in the buffer the filter allocated.
InPlace == busy => Len(dst) + Len(rest) + Len(cache) <= size

==============================================================================
