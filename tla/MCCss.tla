-------------------------------- MODULE MCCss --------------------------------
(***************************************************************************)
(* CssMinify for TLC.  Every buffer of at most two bytes over the bytes    *)
(* the code tells apart, so that every token is cut at every place, and    *)
(* longer buffers with a whole comment between blanks, braces and quotes.  *)
(***************************************************************************)
EXTENDS CssMinify

MCByte == {" ", "\n", "\t", "/", "*", "{", "}", "'", "\\", "a"}

UpToTwo(S) == UNION {[1..n -> S] : n \in 0..2}

AroundComment ==
    {before \o <<"/", "*", "*", "/">> \o after :
        before \in UpToTwo({" ", "{"}), after \in UpToTwo({" ", "}", "'"})}

MCChunk == UpToTwo(MCByte) \cup AroundComment
==============================================================================
