------------------------------ MODULE MCCapCache ------------------------------
(* Two requests for one page, each of which may try twice. *)
EXTENDS CapCache, TLC

Interchangeable == Permutations(Request)
==============================================================================
