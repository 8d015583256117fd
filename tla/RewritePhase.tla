---------------------------- MODULE RewritePhase ----------------------------
(***************************************************************************)
(* The rewrite-phase handler of ngx_headers_more and the phase engine it   *)
(* rearranges.  A worker process has ONE array of phase handlers, walked   *)
(* by every request it serves, each with its own index r->phase_handler.   *)
(* The handler has to run after every other handler of the rewrite phase,  *)
(* whatever the order the modules were configured in, so the first request *)
(* that reaches it moves its entry to the end of the phase, in the array,  *)
(* while other requests are somewhere in it.                               *)
(*                                                                         *)
(* Positions FirstRewrite..LastRewrite of the array are the rewrite phase. *)
(* The position before it (find config) is where a request enters it and   *)
(* the one behind it (post rewrite) is where it leaves, to go on or to be  *)
(* sent back by a rewrite of its URI.  The worker is one thread: a handler *)
(* runs to its end before another request moves.  A handler that returns   *)
(* NGX_DONE leaves its request where it is, to run again later, while      *)
(* other requests move.                                                    *)
(***************************************************************************)
EXTENDS Integers, Sequences

CONSTANTS
    Request,        \* requests in flight in one worker process
    Engine,         \* positions 1..Engine of cmcf->phase_engine.handlers
    FirstRewrite, LastRewrite,  \* the rewrite phase in it
    Home            \* the configured position of headers_more's handler

ASSUME EngineAssumption ==
    /\ Engine \in Nat /\ FirstRewrite \in Nat /\ LastRewrite \in Nat /\ Home \in Nat
    /\ 1 < FirstRewrite /\ FirstRewrite <= Home /\ Home <= LastRewrite /\ LastRewrite < Engine

VARIABLES
    handlers,       \* handlers[p]: the handler at position p, named by its
                    \* configured position
    postponed,      \* hmcf->postponed_to_phase_end
    at,             \* at[r]: r->phase_handler; 0 once finalized
    handled         \* handled[r]: the rewrite handlers this pass of r has run

phaseVars == <<handlers, postponed, at, handled>>

Position == 1..Engine

PhaseTypeOK ==
    /\ handlers \in [Position -> Position]
    /\ postponed \in BOOLEAN
    /\ at \in [Request -> 0..Engine]
    /\ handled \in [Request -> Seq(Position)]

PhaseInit ==
    /\ handlers = [p \in Position |-> p]
    /\ postponed = FALSE
    /\ at = [r \in Request |-> FirstRewrite - 1]
    /\ handled = [r \in Request |-> <<>>]

------------------------------------------------------------------------------
InPhase(r) == at[r] \in FirstRewrite..LastRewrite
Handler(r) == handlers[at[r]]

\* Mutant: memmove takes one entry too few, and the last one is overwritten.
Rotated_OneShort(h, from, to) ==
    [p \in Position |-> IF p = to THEN h[from]
                        ELSE IF from <= p /\ p < to - 1 THEN h[p + 1]
                        ELSE h[p]]

\* tmp = *cur_ph; memmove(cur_ph, cur_ph + 1, last_ph - cur_ph); *last_ph = tmp
Rotated(h, from, to) ==
    [p \in Position |-> IF p = to THEN h[from]
                        ELSE IF from <= p /\ p < to THEN h[p + 1]
                        ELSE h[p]]

\* The core's reaction to NGX_DECLINED: ++r->phase_handler, the next one runs.
Advance(r) ==
    /\ at' = [at EXCEPT ![r] = @ + 1]
    /\ handled' = [handled EXCEPT ![r] = Append(@, Handler(r))]

\* find config has chosen the location: a new pass of the phase begins.
EnterPhase(r) ==
    /\ at[r] = FirstRewrite - 1
    /\ at' = [at EXCEPT ![r] = FirstRewrite]
    /\ handled' = [handled EXCEPT ![r] = <<>>]
    /\ UNCHANGED <<handlers, postponed>>

\* post rewrite: the URI was rewritten, and the location is looked up again.
Restart(r) ==
    /\ at[r] = LastRewrite + 1
    /\ at' = [at EXCEPT ![r] = FirstRewrite - 1]
    /\ UNCHANGED <<handlers, postponed, handled>>

\* Another module's rewrite handler declines.
RunOther(r) ==
    /\ InPhase(r) /\ Handler(r) # Home
    /\ Advance(r)
    /\ UNCHANGED <<handlers, postponed>>

\* Mutant: the index is not taken back, so the core steps over the handler
\* that has just moved into the current position.
Postpone_NoRedo(r) ==
    /\ InPhase(r) /\ Handler(r) = Home
    /\ ~postponed /\ at[r] < LastRewrite
    /\ postponed' = TRUE
    /\ handlers' = Rotated(handlers, at[r], LastRewrite)
    /\ at' = [at EXCEPT ![r] = @ + 1]
    /\ UNCHANGED handled

\* Mutant: the call asks for the position to be redone and changes nothing.
Postpone_NothingMoves(r) ==
    /\ InPhase(r) /\ Handler(r) = Home
    /\ ~postponed /\ at[r] < LastRewrite
    /\ UNCHANGED phaseVars

\* ngx_http_headers_more_handler, reached for the first time and not the last
\* of its phase: r->phase_handler-- undoes the core's ++, and the request runs
\* the handler now in this position.
Postpone(r) ==
    /\ InPhase(r) /\ Handler(r) = Home
    /\ ~postponed /\ at[r] < LastRewrite
    /\ postponed' = TRUE
    /\ handlers' = Rotated(handlers, at[r], LastRewrite)
    /\ UNCHANGED <<at, handled>>

\* Mutant: whether the handler is the last of its phase is not asked.
RunCommands_WhereverItIs(r) ==
    /\ InPhase(r) /\ Handler(r) = Home
    /\ postponed' = TRUE
    /\ Advance(r)
    /\ UNCHANGED handlers

\* ngx_http_headers_more_handler runs its input commands and declines.
RunCommands(r) ==
    /\ InPhase(r) /\ Handler(r) = Home
    /\ postponed \/ at[r] = LastRewrite
    /\ postponed' = TRUE
    /\ Advance(r)
    /\ UNCHANGED handlers

\* A command or another module's handler fails, or the request ends.  The
\* call that moves the entry cannot fail; a first call that has nothing to
\* move can, and has set the flag by then.
Fail(r) ==
    /\ at[r] # 0
    /\ ~(InPhase(r) /\ Handler(r) = Home /\ ~postponed /\ at[r] < LastRewrite)
    /\ at' = [at EXCEPT ![r] = 0]
    /\ postponed' = (postponed \/ (InPhase(r) /\ Handler(r) = Home))
    /\ UNCHANGED <<handlers, handled>>

Walk(r) == EnterPhase(r) \/ RunOther(r) \/ Postpone(r) \/ RunCommands(r)

PhaseNext == \E r \in Request : Walk(r) \/ Restart(r) \/ Fail(r)

\* The core runs the phases of a request until it is done with it, and an
\* event handler runs them again for a request that waits.
Fairness == \A r \in Request : WF_phaseVars(Walk(r))

PhaseSpec == PhaseInit /\ [][PhaseNext]_phaseVars /\ Fairness

------------------------------------------------------------------------------
(* Properties                                                              *)

\* The order every pass must see: as configured, headers_more moved last.
FinalOrder ==
    [i \in 1..(LastRewrite - FirstRewrite + 1) |->
        IF i = LastRewrite - FirstRewrite + 1 THEN Home
        ELSE IF FirstRewrite + i - 1 < Home THEN FirstRewrite + i - 1
        ELSE FirstRewrite + i]

\* A request that has left the rewrite phase ran every handler of the phase
\* exactly once and headers_more's last, be it the one that moved the entry,
\* one that waited in the phase meanwhile, or one that came later.
EachHandlerOnce == \A r \in Request : at[r] = LastRewrite + 1 => handled[r] = FinalOrder

\* The move is invisible: every request sees the phase of StaticPhase, whose
\* order never changes.  The call that moves the entry is a stutter.
Static == INSTANCE StaticPhase WITH
    stage <- [r \in Request |-> IF at[r] = 0 THEN "closed"
                                ELSE IF InPhase(r) THEN "phase" ELSE "outside"],
    trace <- handled

ImplementsStatic == Static!SSpec

\* The postponing call makes progress: no request runs the phase's first
\* handlers again and again, every pass ends.
PassEnds == \A r \in Request : InPhase(r) ~> ~InPhase(r)

\* The other phases of the engine are never touched, nor is any handler lost
\* or doubled by the move.
HandlersKept ==
    /\ \A p \in Position : p \notin FirstRewrite..LastRewrite => handlers[p] = p
    /\ \A p, q \in Position : handlers[p] = handlers[q] => p = q

==============================================================================
