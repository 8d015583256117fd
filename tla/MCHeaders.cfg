SPECIFICATION Spec
CONSTANTS
    Name = {"x-a", "x-b", "host", "content-length", "content-type", "server",
            "cache-control", "accept-ranges", "www-authenticate", "text/css", "404"}
    Covered <- MCCovered
    Text <- MCText
    Number <- MCNumber
    Levels = 2
    Builtin = {"host", "content-length", "content-type"}
    ListSize = 3
    OutBuiltin = {"server", "content-length", "accept-ranges", "www-authenticate"}
    Site = {"config", "input", "output"}
    Directives <- MCDirectives
    Requests <- MCRequestsOf
    Responses <- MCResponsesOf
    MaxRedirects = 1
INVARIANTS CommandsAsWritten SlotsTrue RoomKept RightHeadersRun
PROPERTIES InputEdited OutputEdited
CHECK_DEADLOCK FALSE
