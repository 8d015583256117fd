--------------------------------- MODULE MCJs ---------------------------------
(***************************************************************************)
(* JsMinify for TLC.  Every buffer of at most two bytes over the bytes the *)
(* code tells apart, so that every token is cut at every place, and longer *)
(* buffers with a whole comment between blanks, newlines and quotes.       *)
(***************************************************************************)
EXTENDS JsMinify

MCByte == {" ", "\n", "\r", "/", "*", "[", "]", "'", "\\", ";", "a"}

UpToTwo(S) == UNION {[1..n -> S] : n \in 0..2}

AroundComment ==
    {before \o comment \o after :
        before  \in UpToTwo({" ", "\n", "a"}),
        comment \in {<<"/", "*", "*", "/">>, <<"/", "/", "\n">>},
        after   \in UpToTwo({" ", "\n"})}

MCChunk == UpToTwo(MCByte) \cup AroundComment
==============================================================================
