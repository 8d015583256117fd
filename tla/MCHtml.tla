-------------------------------- MODULE MCHtml --------------------------------
(***************************************************************************)
(* HtmlMinify for TLC.  "i" stands for a name of html_skip_tag, "I" for the *)
(* same in capitals, "f" for any other letter; "\n" for the bytes dropped  *)
(* with it.  Every buffer of at most one byte over all the bytes, so that  *)
(* every token is cut at every place; of two bytes over those that decide  *)
(* something; and whole tokens with a byte behind them.                    *)
(***************************************************************************)
EXTENDS HtmlMinify

MCByte == {" ", "\n", "<", ">", "!", "/", "-", "[", "]",
           "i", "I", "f", "C", "D", "A", "T"}
MCLower == [b \in MCByte |-> IF b = "I" THEN "i" ELSE b]
MCSkipTag == {<<"i">>}

Upto(n, S) == UNION {[1..m -> S] : m \in 0..n}

Tokens ==
    {CommentOpen, IeOpen, CommentClose, IeClose, CdataOpen, CdataClose,
     CommentOpen \o CommentClose, <<"-", "f", "-", "-", ">">>,
     <<"<", "!", "[", "f", "f", "f", "f", "f", "f">>,
     <<"<", "i", ">">>, <<"<", "/", "i", ">">>}

MCChunk ==
    Upto(1, MCByte) \cup Upto(2, MCByte \ {"C", "D", "A", "T", "I", "\n"})
        \cup {token \o after : token \in Tokens, after \in Upto(1, {" ", "f", "-"})}
==============================================================================
