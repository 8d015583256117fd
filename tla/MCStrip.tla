------------------------------- MODULE MCStrip --------------------------------
(***************************************************************************)
(* StripFilter for TLC.  "\n" stands for the three breaks, "a" for every   *)
(* letter outside the name pre, "1" for every byte nothing asks about.     *)
(***************************************************************************)
EXTENDS StripFilter

MCLetter == {"p", "r", "e", "P", "R", "E", "a"}
MCByte == MCLetter \cup {" ", "\n", "<", ">", "!", "/", "-", "=", "\"", "'", "1"}
MCLower ==
    [b \in MCByte |-> CASE b = "P" -> "p" [] b = "R" -> "r" [] b = "E" -> "e" [] OTHER -> b]
==============================================================================
