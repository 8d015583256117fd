------------------------------- MODULE MCFilter -------------------------------
(***************************************************************************)
(* MinifyFilter for TLC: the responses that differ from a page of type     *)
(* text/html in one respect, configurations in which two levels disagree,  *)
(* and bodies of up to four bytes in chains of one or two buffers.         *)
(***************************************************************************)
EXTENDS MinifyFilter

MCContentType == {"", "text/html", "text/css"}
MCDefaultTypes == [html |-> {"text/html"}, js |-> {"text/js"}, css |-> {"text/css"}]

Silent == [enable |-> [k \in Kind |-> "unset"],
           types |-> [k \in Kind |-> {}], strip |-> "unset"]

MCLevel ==
    {Silent,
     [Silent EXCEPT !.enable.html = "on"],
     [Silent EXCEPT !.enable.html = "off", !.strip = "on"],
     [Silent EXCEPT !.enable.js = "on", !.types.js = {"text/css", "text/html"}]}

Page == [status |-> 200, header_only |-> FALSE, content_type |-> "text/html",
         encoded |-> FALSE, length |-> TRUE]

MCResponse ==
    {Page, [Page EXCEPT !.status = 206], [Page EXCEPT !.header_only = TRUE],
     [Page EXCEPT !.content_type = "text/css"], [Page EXCEPT !.content_type = ""],
     [Page EXCEPT !.encoded = TRUE], [Page EXCEPT !.length = FALSE]}
==============================================================================
