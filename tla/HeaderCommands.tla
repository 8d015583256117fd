---------------------------- MODULE HeaderCommands ----------------------------
(***************************************************************************)
(* The configuration of ngx_headers_more.  Every directive is parsed into  *)
(* a command of the level it stands in; then, from the outermost level     *)
(* inwards, the commands of a level are put in front of those of the next  *)
(* one, in place: its array grows at the end, its commands are moved up    *)
(* one by one, and the others are copied into the room they leave.         *)
(***************************************************************************)
EXTENDS HeaderEdit

CONSTANT Levels     \* http, server, location: 1..Levels, outermost first

ASSUME LevelsAssumption == Levels \in Nat \ {0}

(* An argument of a directive: an option, or a text that is a header or the   *)
(* list of the option before it, depending on where it stands.  The option    *)
(* "empty" is the empty argument, "other" one the directive does not know;    *)
(* key is "" if there is none in the text; statuses is NotDigits if it is no  *)
(* list of numbers.                                                           *)

NotDigits == {-1}

Argument == [option : {"none", "empty", "-t", "-s", "-r", "other"},
             key : Key \cup {"", "*"}, value : Text \cup {""},
             types : SUBSET Text, statuses : SUBSET Int]

Configuration == [1..Levels -> Seq([input : BOOLEAN, clear : BOOLEAN, args : Seq(Argument) \ {<<>>}])]

VARIABLES
    directives,     \* directives[l]: those of level l, each an input or output
                    \* directive that sets or clears, with its arguments
    config,         \* "parse", "merge", "ready", "refused"
    cmds,           \* cmds[l]: conf->cmds of level l
    draft,          \* the command being parsed, and the state of the loop
    merging         \* the level being merged, and the state of its loops

configVars == <<directives, config, cmds, draft, merging>>

Level == 1..Levels

NoCommand == [headers |-> <<>>, types |-> {}, statuses |-> {}, is_input |-> FALSE]
NoDraft == [level |-> 1, arg |-> 0, ignore |-> FALSE, replace |-> FALSE, cmd |-> NoCommand]
NoMerge == [level |-> 2, from |-> "begin", i |-> 0, own |-> 0]

ConfigInit ==
    /\ config = "parse"
    /\ cmds = [l \in Level |-> <<>>]
    /\ draft = NoDraft
    /\ merging = NoMerge

------------------------------------------------------------------------------
(* ngx_http_headers_more_parse_directive                                   *)

Directive == directives[draft.level][Len(cmds[draft.level]) + 1]
Arg == Directive.args[draft.arg]
Parsing == config = "parse" /\ draft.arg > 0
OnArg == Parsing /\ draft.arg <= Len(Directive.args) /\ ~draft.ignore

Refuse == config' = "refused" /\ UNCHANGED <<directives, cmds, draft, merging>>
Draft(d) ==
    /\ draft' = [d EXCEPT !.arg = @ + 1]
    /\ UNCHANGED <<directives, config, cmds, merging>>

BeginDirective ==
    /\ config = "parse" /\ draft.arg = 0
    /\ Len(cmds[draft.level]) < Len(directives[draft.level])
    /\ draft' = [NoDraft EXCEPT !.level = draft.level, !.arg = 1]
    /\ UNCHANGED <<directives, config, cmds, merging>>

\* ignore_next_arg, or an empty argument
SkipArg ==
    /\ Parsing /\ draft.arg <= Len(Directive.args)
    /\ draft.ignore \/ Arg.option = "empty"
    /\ Draft([draft EXCEPT !.ignore = FALSE])

\* ngx_http_headers_more_parse_header: there is a key, and more of it than a *;
\* a clear directive ignores the value.
HeaderArg ==
    /\ OnArg /\ Arg.option = "none"
    /\ IF Arg.key \in {"", "*"} THEN Refuse
       ELSE Draft([draft EXCEPT !.cmd.headers = Append(@,
                [key |-> Arg.key, value |-> IF Directive.clear THEN "" ELSE Arg.value,
                 replace |-> FALSE])])

\* ngx_http_headers_more_parse_types and ngx_http_headers_more_parse_statuses add
\* what the argument lists to what earlier options have listed.
AddTypes(c, list) == [c EXCEPT !.types = @ \cup list.types]
AddStatuses(c, list) == [c EXCEPT !.statuses = @ \cup list.statuses]

\* -t and, of the output directives, -s: the next argument, whatever it is, is
\* their list.
ListOption ==
    /\ OnArg
    /\ Arg.option \in IF Directive.input THEN {"-t"} ELSE {"-t", "-s"}
    /\ IF draft.arg = Len(Directive.args) THEN Refuse
       ELSE LET list == Directive.args[draft.arg + 1]
                With(c) == Draft([draft EXCEPT !.ignore = TRUE, !.cmd = c])
            IN  IF Arg.option = "-t" THEN With(AddTypes(draft.cmd, list))
                ELSE IF list.statuses = NotDigits THEN Refuse
                ELSE With(AddStatuses(draft.cmd, list))

ReplaceOption ==
    /\ OnArg /\ Arg.option = "-r" /\ Directive.input
    /\ Draft([draft EXCEPT !.replace = TRUE])

UnknownOption ==
    /\ OnArg
    /\ Arg.option \in {"other", IF Directive.input THEN "-s" ELSE "-r"}
    /\ Refuse

EndDirective ==
    /\ Parsing /\ draft.arg > Len(Directive.args)
    /\ cmds' = [cmds EXCEPT ![draft.level] = Append(@,
            [draft.cmd EXCEPT
                !.is_input = Directive.input,
                !.headers = [j \in DOMAIN @ |-> [@[j] EXCEPT !.replace = draft.replace]]])]
    /\ draft' = [NoDraft EXCEPT !.level = draft.level]
    /\ UNCHANGED <<directives, config, merging>>

EndLevel ==
    /\ config = "parse" /\ draft.arg = 0
    /\ Len(cmds[draft.level]) = Len(directives[draft.level])
    /\ IF draft.level < Levels
       THEN draft' = [draft EXCEPT !.level = @ + 1] /\ UNCHANGED config
       ELSE config' = "merge" /\ UNCHANGED draft
    /\ UNCHANGED <<directives, cmds, merging>>

------------------------------------------------------------------------------
(* ngx_http_headers_more_merge_loc_conf: conf is level l, prev the one above. *)

Conf == cmds[merging.level]
Prev == cmds[merging.level - 1]
Merge(from) == config = "merge" /\ merging.level <= Levels /\ merging.from = from
SetCommand(n, c) == cmds' = [cmds EXCEPT ![merging.level][n] = c]
NextLevel == merging' = [NoMerge EXCEPT !.level = merging.level + 1]

\* One of the two has no commands: the other's array is used.
MergeOne ==
    /\ Merge("begin") /\ (Conf = <<>> \/ Prev = <<>>)
    /\ cmds' = [cmds EXCEPT ![merging.level] = IF Conf = <<>> THEN Prev ELSE Conf]
    /\ NextLevel
    /\ UNCHANGED <<directives, config, draft>>

\* ngx_array_push_n; what is in the new elements does not matter.
MergeGrow ==
    /\ Merge("begin") /\ Conf # <<>> /\ Prev # <<>>
    /\ cmds' = [cmds EXCEPT ![merging.level] = @ \o [n \in DOMAIN Prev |-> NoCommand]]
    /\ merging' = [merging EXCEPT !.from = "shift", !.own = Len(Conf)]
    /\ UNCHANGED <<directives, config, draft>>

\* Mutant: the commands are moved up in the order they stand in.
MergeShift_Upwards ==
    /\ Merge("shift") /\ merging.i < merging.own
    /\ SetCommand(Len(Prev) + 1 + merging.i, Conf[1 + merging.i])
    /\ merging' = [merging EXCEPT !.i = @ + 1]
    /\ UNCHANGED <<directives, config, draft>>

\* cmd[conf->cmds->nelts - 1 - i] = cmd[orig_len - 1 - i], counted from 1 here
MergeShift ==
    /\ Merge("shift") /\ merging.i < merging.own
    /\ SetCommand(Len(Conf) - merging.i, Conf[merging.own - merging.i])
    /\ merging' = [merging EXCEPT !.i = @ + 1]
    /\ UNCHANGED <<directives, config, draft>>

MergeShifted ==
    /\ Merge("shift") /\ merging.i = merging.own
    /\ merging' = [merging EXCEPT !.from = "copy", !.i = 0]
    /\ UNCHANGED <<directives, config, cmds, draft>>

\* cmd[i] = prev_cmd[i]
MergeCopy ==
    /\ Merge("copy") /\ merging.i < Len(Prev)
    /\ SetCommand(1 + merging.i, Prev[1 + merging.i])
    /\ merging' = [merging EXCEPT !.i = @ + 1]
    /\ UNCHANGED <<directives, config, draft>>

MergeCopied ==
    /\ Merge("copy") /\ merging.i = Len(Prev)
    /\ NextLevel
    /\ UNCHANGED <<directives, config, cmds, draft>>

MergeDone ==
    /\ config = "merge" /\ merging.level > Levels
    /\ config' = "ready"
    /\ UNCHANGED <<directives, cmds, draft, merging>>

ConfigNext ==
    \/ BeginDirective \/ SkipArg \/ HeaderArg \/ ListOption \/ ReplaceOption
    \/ UnknownOption \/ EndDirective \/ EndLevel
    \/ MergeOne \/ MergeGrow \/ MergeShift \/ MergeShifted
    \/ MergeCopy \/ MergeCopied \/ MergeDone

------------------------------------------------------------------------------
(* Properties                                                              *)

\* The positions of the arguments that are the list of the option before them.
Lists(d) ==
    LET isList[i \in 1..Len(d.args)] ==
            i > 1 /\ d.args[i - 1].option \in {"-t", "-s"} /\ ~isList[i - 1]
    IN  {i \in 1..Len(d.args) : isList[i]}

ListsOf(d, option) == {i \in Lists(d) : d.args[i - 1].option = option}

\* What a directive says, read as a whole.
Meant(d) ==
    LET said == (1..Len(d.args)) \ Lists(d)
        Header(a) == [key |-> a.key, value |-> IF d.clear THEN "" ELSE a.value,
                      replace |-> \E i \in said : d.args[i].option = "-r"]
        headers[i \in 0..Len(d.args)] ==
            IF i = 0 THEN <<>>
            ELSE IF i \in said /\ d.args[i].option = "none"
            THEN Append(headers[i - 1], Header(d.args[i]))
            ELSE headers[i - 1]
    IN  [headers |-> headers[Len(d.args)],
         types |-> UNION {d.args[i].types : i \in ListsOf(d, "-t")},
         statuses |-> UNION {d.args[i].statuses : i \in ListsOf(d, "-s")},
         is_input |-> d.input]

MeantOf(l) == [n \in DOMAIN directives[l] |-> Meant(directives[l][n])]

\* A location runs the commands of every level around it, the outermost level's
\* first ("Directives inherited from an upper level scope ... are executed before
\* the directives in the location block"), every one of them once, in the order
\* they are written in and with all its options, wherever those stand.
CommandsAsWritten ==
    config = "ready" => cmds[Levels] = FlattenSeq([l \in Level |-> MeantOf(l)])

==============================================================================
