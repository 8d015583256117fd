---------------------------- MODULE StreamContract ----------------------------
(***************************************************************************)
(* What the minifiers promise of a response is said of one stream of       *)
(* bytes, without buffers, withheld bytes or pre_char: pending is the part *)
(* of the stream not yet consumed, out what was produced since the last    *)
(* send, nest the constructs the stream is inside of.  A token is consumed *)
(* only when the stream shows all of it.  What follows may be no bytes but *)
(* a mark, to flush or to end the response, which the contract sees only   *)
(* because a token that is pending then may be lost.                       *)
(***************************************************************************)
EXTENDS Integers, Sequences

CONSTANT Byte

VARIABLES pending, out, nest, opening,
          flushed   \* a mark came last, not bytes

cvars == <<pending, out, nest, opening, flushed>>

CInit ==
    /\ pending = <<>> /\ out = <<>>
    /\ nest = <<"text">> /\ opening = "NUL"
    /\ flushed = FALSE

Inside == nest[Len(nest)]
Sees(n) == Len(pending) >= n

\* One or two bytes of the stream are dropped, or sent as they are.
OmitOne == pending' = Tail(pending) /\ out' = out
OmitTwo == pending' = Tail(Tail(pending)) /\ out' = out
KeepOne == pending' = Tail(pending) /\ out' = Append(out, pending[1])
KeepTwo ==
    /\ pending' = Tail(Tail(pending))
    /\ out' = Append(Append(out, pending[1]), pending[2])

Enter(s) == nest' = Append(nest, s)
Leave == nest' = SubSeq(nest, 1, Len(nest) - 1)

\* More of the response arrives behind what is pending.
Arrive ==
    /\ pending' \in Seq(Byte)
    /\ Len(pending') >= Len(pending)
    /\ \A i \in 1..Len(pending) : pending'[i] = pending[i]
    /\ flushed' = FALSE
    /\ UNCHANGED <<out, nest, opening>>

\* A mark arrives.
Flush == flushed' = TRUE /\ UNCHANGED <<pending, out, nest, opening>>

Send == out' = <<>> /\ UNCHANGED <<pending, nest, opening>>

\* A mark that arrives behind bytes takes with it the begun token that is all
\* that is pending.  No other step may lose it, and no second mark.
LosePending ==
    /\ ~flushed /\ flushed' = TRUE
    /\ pending # <<>> /\ pending' = <<>>
    /\ UNCHANGED <<out, opening>>

\* The one byte that begins a token where the stream is.
LoseBegun ==
    /\ LosePending
    /\ \/ Inside \in {"text", "brace"} /\ pending = <<"/">>
       \/ Inside = "comment" /\ pending = <<"*">>
       \/ Inside = "quote" /\ pending = <<"\\">>
    /\ UNCHANGED nest

\* A quoted text is sent byte for byte; a backslash takes its successor along.
KeepQuoted ==
    /\ Inside = "quote" /\ Sees(1)
    /\ \/ pending[1] = "\\" /\ Sees(2) /\ KeepTwo /\ UNCHANGED nest
       \/ pending[1] = opening /\ KeepOne /\ Leave
       \/ pending[1] \notin {"\\", opening} /\ KeepOne /\ UNCHANGED nest
    /\ UNCHANGED opening

\* A comment is dropped up to the star and slash that end it.
OmitComment ==
    /\ Inside = "comment" /\ Sees(1)
    /\ \/ pending[1] # "*" /\ OmitOne /\ UNCHANGED nest
       \/ Sees(2) /\ pending[1] = "*" /\ pending[2] # "/" /\ OmitOne /\ UNCHANGED nest
       \/ Sees(2) /\ pending[1] = "*" /\ pending[2] = "/" /\ OmitTwo /\ Leave
    /\ UNCHANGED opening
==============================================================================
