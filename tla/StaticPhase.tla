----------------------------- MODULE StaticPhase -----------------------------
(***************************************************************************)
(* What ngx_headers_more promises of the rewrite phase: whoever asks first *)
(* and whatever else is in flight, every pass of every request through the *)
(* phase runs the phase's handlers one after the other in one and the same *)
(* order, the configured one with the headers_more handler moved behind    *)
(* all the others.  Nothing is shared between requests and nothing is ever *)
(* moved: a request only counts the handlers its pass has run.             *)
(***************************************************************************)
EXTENDS Integers, Sequences

CONSTANTS Request, FinalOrder

VARIABLES stage,    \* stage[r]: "outside", "phase" or "closed"
          trace     \* trace[r]: the handlers this pass of r has run

svars == <<stage, trace>>

SInit ==
    /\ stage = [r \in Request |-> "outside"]
    /\ trace = [r \in Request |-> <<>>]

Enter(r) ==
    /\ stage[r] = "outside"
    /\ stage' = [stage EXCEPT ![r] = "phase"]
    /\ trace' = [trace EXCEPT ![r] = <<>>]

RunNext(r) ==
    /\ stage[r] = "phase"
    /\ Len(trace[r]) < Len(FinalOrder)
    /\ trace' = [trace EXCEPT ![r] = Append(trace[r], FinalOrder[Len(trace[r]) + 1])]
    /\ stage' = [stage EXCEPT
         ![r] = IF Len(trace[r]) + 1 = Len(FinalOrder) THEN "outside" ELSE "phase"]

\* The request is finalized: by a handler of the phase or elsewhere.
Close(r) ==
    /\ stage[r] # "closed"
    /\ stage' = [stage EXCEPT ![r] = "closed"]
    /\ UNCHANGED trace

SNext == \E r \in Request : Enter(r) \/ RunNext(r) \/ Close(r)

SSpec == SInit /\ [][SNext]_svars
==============================================================================
