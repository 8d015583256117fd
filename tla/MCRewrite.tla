------------------------------ MODULE MCRewrite ------------------------------
(* Three requests of one worker in a phase of four handlers (positions 2..5   *)
(* of an engine of six), headers_more at the second of them: one handler runs *)
(* before it, two behind it.                                                  *)
EXTENDS RewritePhase, TLC
==============================================================================
