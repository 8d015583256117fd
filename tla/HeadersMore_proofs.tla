--------------------------- MODULE HeadersMore_proofs ---------------------------
(***************************************************************************)
(* ngx_headers_more: what the directives become, which headers a phase     *)
(* runs, what they do to a request (by the lemmas of HeadersIn_proofs) and *)
(* to a response, and the rewrite phase the handler rearranges.            *)
(*                                                                         *)
(* A directive is read in one loop over its arguments and a location's     *)
(* commands are merged inside the array they are read from: the inductive  *)
(* invariant ConfigInv says of every turn of these loops how much of the   *)
(* meaning is there already.  OutInv relates the pointers of headers_out   *)
(* and the array of Cache-Control to the entries.  RightInv says which     *)
(* headers a phase has run when it is in the middle of them, and that the  *)
(* content type is the one they leave.  PhaseInv is about the array of     *)
(* handlers and the place of every request in it.                          *)
(***************************************************************************)
EXTENDS HeadersMore, RewritePhase, HeadersIn_proofs

------------------------------------------------------------------------------
(* What a directive means, and as much of it as the loop has seen          *)

\* What the recursive definition of Lists says at each position.
LEMMA ListsFacts ==
    ASSUME NEW d, Len(d.args) \in Nat
    PROVE  /\ Lists(d) \subseteq 1..Len(d.args)
           /\ \A i \in 1..Len(d.args) :
                i \in Lists(d) <=> /\ i > 1 /\ d.args[i - 1].option \in {"-t", "-s"}
                                   /\ i - 1 \notin Lists(d)
<1> DEFINE len == Len(d.args)
           Opens(i) == i > 1 /\ d.args[i - 1].option \in {"-t", "-s"}
           G == [x \in {0, 1} \X (1..len) |-> IF Opens(x[2]) /\ x[1] = 0 THEN 1 ELSE 0]
           IsList(f) == f = [i \in 1..len |->
                i > 1 /\ d.args[i - 1].option \in {"-t", "-s"} /\ ~f[i - 1]]
<1>1. PICK g : Unfolds(g, {0, 1}, len, 0, G)
    <2> DEFINE V == {0, 1}
    <2>1. len \in Nat /\ 0 \in V /\ G \in [V \X (1..len) -> V]
        OBVIOUS
    <2> HIDE DEF len, G, V
    <2>2. \E g : Unfolds(g, V, len, 0, G)
        BY <2>1, Recursion
    <2> QED BY <2>2 DEF V
<1>2. ASSUME NEW i \in 1..len
      PROVE  /\ g[i] \in {0, 1} /\ g[i - 1] \in {0, 1}
             /\ g[i] = 1 <=> Opens(i) /\ g[i - 1] = 0
    <2>1. i - 1 \in 0..len /\ i \in 0..len
        OBVIOUS
    <2>2. g[i] \in {0, 1} /\ g[i - 1] \in {0, 1} /\ g[i] = G[<<g[i - 1], i>>]
        BY <1>1, <2>1 DEF Unfolds
    <2>3. <<g[i - 1], i>> \in {0, 1} \X (1..len)
        BY <2>2
    <2> HIDE DEF Opens
    <2>4. G[<<g[i - 1], i>>] = IF Opens(i) /\ g[i - 1] = 0 THEN 1 ELSE 0
        BY <2>3
    <2> QED BY <2>2, <2>4
<1> DEFINE h == [i \in 1..len |-> g[i] = 1]
<1>3. IsList(h)
    <2>1. ASSUME NEW i \in 1..len
          PROVE  (g[i] = 1) = (i > 1 /\ d.args[i - 1].option \in {"-t", "-s"} /\ ~h[i - 1])
        <3>1. CASE i = 1
            BY <1>2, <3>1
        <3>2. CASE i # 1
            <4>1. i - 1 \in 1..len
                BY <3>2
            <4>2. h[i - 1] <=> g[i - 1] = 1
                BY <4>1
            <4>3. ~h[i - 1] <=> g[i - 1] = 0
                <5>1. g[i - 1] = 1 <=> ~(g[i - 1] = 0)
                    BY <1>2
                <5> HIDE DEF h
                <5> QED BY <4>2, <5>1
            <4> QED BY <1>2, <4>3
        <3> QED BY <3>1, <3>2
    <2>2. h = [i \in 1..len |-> g[i] = 1]
        OBVIOUS
    <2> HIDE DEF h, len
    <2> QED BY <2>1, <2>2
<1>4. PICK f : IsList(f) /\ Lists(d) = {i \in 1..len : f[i]}
    <2> DEFINE f == CHOOSE k : IsList(k)
    <2>1. IsList(f)
        <3>1. \E k : IsList(k)
            <4> HIDE DEF IsList, h
            <4> QED BY <1>3, Zenon
        <3> HIDE DEF IsList
        <3> QED BY <3>1, Zenon
    <2>2. Lists(d) = {i \in 1..len : f[i]}
        BY Zenon DEF Lists
    <2> HIDE DEF f, IsList
    <2> QED BY <2>1, <2>2
<1>5. Lists(d) \subseteq 1..len
    BY <1>4
<1>6. ASSUME NEW i \in 1..len
      PROVE  i \in Lists(d) <=> /\ i > 1 /\ d.args[i - 1].option \in {"-t", "-s"}
                                /\ i - 1 \notin Lists(d)
    <2>1. f[i] <=> i > 1 /\ d.args[i - 1].option \in {"-t", "-s"} /\ ~f[i - 1]
        BY <1>4
    <2>2. i \in Lists(d) <=> f[i]
        BY <1>4
    <2>3. i > 1 => i - 1 \in 1..len
        OBVIOUS
    <2>4. i > 1 => (i - 1 \in Lists(d) <=> f[i - 1])
        BY <1>4, <2>3
    <2> QED BY <2>1, <2>2, <2>4
<1> QED BY <1>5, <1>6

\* The arguments that are no lists, and the headers among the first i.
Said(d) == (1..Len(d.args)) \ Lists(d)
Replaces(d) == \E i \in Said(d) : d.args[i].option = "-r"
HeaderOf(d, a) ==
    [key |-> a.key, value |-> IF d.clear THEN "" ELSE a.value, replace |-> Replaces(d)]

\* h[i] are the headers among the first i arguments.
Heads(h, d) ==
    /\ h[0] = <<>>
    /\ \A i \in 1..Len(d.args) :
        h[i] = IF i \in Said(d) /\ d.args[i].option = "none"
               THEN Append(h[i - 1], HeaderOf(d, d.args[i]))
               ELSE h[i - 1]
    /\ Meant(d) = [headers |-> h[Len(d.args)],
                   types |-> UNION {d.args[i].types : i \in ListsOf(d, "-t")},
                   statuses |-> UNION {d.args[i].statuses : i \in ListsOf(d, "-s")},
                   is_input |-> d.input]

HeadersTo(d) == CHOOSE h : Heads(h, d)

\* The recursive function inside Meant, and what Meant makes of it.
LEMMA MeantFacts ==
    ASSUME NEW d, Len(d.args) \in Nat
    PROVE  Heads(HeadersTo(d), d)
<1> DEFINE len == Len(d.args)
           Takes(i) == i \in Said(d) /\ d.args[i].option = "none"
           V == {HeaderOf(d, d.args[i]) : i \in 1..len}
           G == [x \in Seq(V) \X (1..len) |->
                    IF Takes(x[2]) THEN Append(x[1], HeaderOf(d, d.args[x[2]])) ELSE x[1]]
           Rec(f) == f = [i \in 0..len |->
                IF i = 0 THEN <<>>
                ELSE IF Takes(i) THEN Append(f[i - 1], HeaderOf(d, d.args[i])) ELSE f[i - 1]]
<1>1. PICK g : Unfolds(g, Seq(V), len, <<>>, G)
    <2>1. ASSUME NEW x \in Seq(V) \X (1..len)
          PROVE  (IF Takes(x[2]) THEN Append(x[1], HeaderOf(d, d.args[x[2]])) ELSE x[1]) \in Seq(V)
        <3>1. x[1] \in Seq(V) /\ x[2] \in 1..len
            OBVIOUS
        <3>2. HeaderOf(d, d.args[x[2]]) \in V
            BY <3>1
        <3> HIDE DEF V, Takes, len
        <3> QED BY <3>1, <3>2, AppendProperties
    <2> DEFINE W == Seq(V)
               none == <<>>
    <2>2. len \in Nat /\ none \in W /\ G \in [W \X (1..len) -> W]
        <3> HIDE DEF V, Takes, len
        <3> QED BY <2>1 DEF len
    <2> HIDE DEF len, G, W, none
    <2>3. \E g : Unfolds(g, W, len, none, G)
        BY <2>2, Recursion
    <2> QED BY <2>3 DEF W, none
<1>2. ASSUME NEW i \in 1..len
      PROVE  g[i] = IF Takes(i) THEN Append(g[i - 1], HeaderOf(d, d.args[i])) ELSE g[i - 1]
    <2>1. i - 1 \in 0..len /\ i \in 0..len
        OBVIOUS
    <2> HIDE DEF V, Takes
    <2>2. <<g[i - 1], i>> \in Seq(V) \X (1..len) /\ g[i] = G[<<g[i - 1], i>>]
        BY <1>1, <2>1 DEF Unfolds
    <2> QED BY <2>2
<1>3. Rec(g)
    <2>1. g \in [0..len -> Seq(V)] /\ g[0] = <<>>
        BY <1>1 DEF Unfolds
    <2>2. g = [i \in 0..len |-> g[i]]
        BY <2>1
    <2>3. ASSUME NEW i \in 0..len, i # 0 PROVE i \in 1..len
        BY <2>3
    <2> HIDE DEF len, Takes, V, G
    <2> QED BY <1>2, <2>1, <2>2, <2>3
<1> DEFINE h == CHOOSE f : Rec(f)
<1>4. Rec(h)
    <2>1. \E f : Rec(f)
        <3> HIDE DEF Rec
        <3> QED BY <1>3, Zenon
    <2> HIDE DEF Rec
    <2> QED BY <2>1, Zenon
<1>5. Meant(d) = [headers |-> h[Len(d.args)],
                  types |-> UNION {d.args[i].types : i \in ListsOf(d, "-t")},
                  statuses |-> UNION {d.args[i].statuses : i \in ListsOf(d, "-s")},
                  is_input |-> d.input]
    BY Zenon DEF Meant, Said, Replaces, HeaderOf
<1> HIDE DEF h
<1>6. Heads(h, d)
    <2>1. h[0] = <<>>
        <3>1. 0 \in 0..len
            OBVIOUS
        <3> QED BY <1>4, <3>1
    <2>2. ASSUME NEW i \in 1..len
          PROVE  h[i] = IF Takes(i) THEN Append(h[i - 1], HeaderOf(d, d.args[i])) ELSE h[i - 1]
        <3>1. i \in 0..len /\ i # 0
            OBVIOUS
        <3> HIDE DEF Takes
        <3> QED BY <1>4, <3>1
    <2> QED BY <1>5, <2>1, <2>2 DEF Heads
<1>7. \E f : Heads(f, d)
    BY <1>6, Zenon
<1> QED BY <1>7, Zenon DEF HeadersTo

\* A command, a draft of one, and a directive.
CommandType ==
    [headers : Seq(Edit), types : SUBSET Text, statuses : SUBSET Int, is_input : BOOLEAN]
DraftType ==
    [level : Level, arg : Nat, ignore : BOOLEAN, replace : BOOLEAN, cmd : CommandType]
DirectiveType == [input : BOOLEAN, clear : BOOLEAN, args : Seq(Argument)]

\* What the lists among the first a arguments list.
TypesTo(d, a) == UNION {d.args[i].types : i \in {j \in ListsOf(d, "-t") : j <= a}}
StatusesTo(d, a) == UNION {d.args[i].statuses : i \in {j \in ListsOf(d, "-s") : j <= a}}

\* The headers s once it is known whether they replace.
WithReplace(s, r) == [j \in DOMAIN s |-> [s[j] EXCEPT !.replace = r]]

\* The loop of ngx_http_headers_more_parse_directive in front of an argument:
\* the draft is what the directive says in those behind it.
PartlyMeant(d, dr) ==
    /\ dr.arg \in 1..(Len(d.args) + 1)
    /\ dr.ignore <=> dr.arg \in Lists(d)
    /\ dr.replace <=> \E i \in Said(d) : i < dr.arg /\ d.args[i].option = "-r"
    /\ WithReplace(dr.cmd.headers, Replaces(d)) = HeadersTo(d)[dr.arg - 1]
    /\ dr.cmd.types = TypesTo(d, dr.arg)
    /\ dr.cmd.statuses = StatusesTo(d, dr.arg)

\* One argument more is looked at.
LEMMA ListedTo ==
    ASSUME NEW d, Len(d.args) \in Nat, NEW a \in Nat
    PROVE  /\ TypesTo(d, a + 1) = TypesTo(d, a) \cup
                (IF a + 1 \in ListsOf(d, "-t") THEN d.args[a + 1].types ELSE {})
           /\ StatusesTo(d, a + 1) = StatusesTo(d, a) \cup
                (IF a + 1 \in ListsOf(d, "-s") THEN d.args[a + 1].statuses ELSE {})
<1>1. \A o : ListsOf(d, o) \subseteq 1..Len(d.args)
    BY ListsFacts DEF ListsOf
<1>2. \A o : \A j \in ListsOf(d, o) : j <= a + 1 <=> j <= a \/ j = a + 1
    <2>1. \A j \in 1..Len(d.args) : j <= a + 1 <=> j <= a \/ j = a + 1
        OBVIOUS
    <2> QED BY <1>1, <2>1
<1>3. a + 1 <= a + 1
    OBVIOUS
<1>4. \A o : {j \in ListsOf(d, o) : j <= a + 1} =
             {j \in ListsOf(d, o) : j <= a} \cup (IF a + 1 \in ListsOf(d, o) THEN {a + 1} ELSE {})
    BY <1>2, <1>3
<1>5. TypesTo(d, a + 1) = TypesTo(d, a) \cup
            (IF a + 1 \in ListsOf(d, "-t") THEN d.args[a + 1].types ELSE {})
    BY <1>4 DEF TypesTo
<1>6. StatusesTo(d, a + 1) = StatusesTo(d, a) \cup
            (IF a + 1 \in ListsOf(d, "-s") THEN d.args[a + 1].statuses ELSE {})
    BY <1>4 DEF StatusesTo
<1> QED BY <1>5, <1>6

\* The fields of a directive and of its arguments.
LEMMA DirectiveFacts ==
    ASSUME NEW d \in DirectiveType
    PROVE  /\ d.args \in Seq(Argument) /\ Len(d.args) \in Nat
           /\ d.input \in BOOLEAN /\ d.clear \in BOOLEAN
           /\ \A i \in 1..Len(d.args) :
                /\ d.args[i] \in Argument
                /\ d.args[i].option \in {"none", "empty", "-t", "-s", "-r", "other"}
                /\ d.args[i].key \in Key \cup {"", "*"} /\ d.args[i].value \in Text \cup {""}
                /\ d.args[i].types \subseteq Text /\ d.args[i].statuses \subseteq Int
<1>1. d.args \in Seq(Argument) /\ d.input \in BOOLEAN /\ d.clear \in BOOLEAN
    BY DEF DirectiveType
<1>2. Len(d.args) \in Nat /\ \A i \in 1..Len(d.args) : d.args[i] \in Argument
    BY <1>1
<1> QED BY <1>1, <1>2 DEF Argument

\* Setting replace in every header, before or after one is appended.
LEMMA ReplaceSet ==
    ASSUME NEW s \in Seq(Edit), NEW r \in BOOLEAN
    PROVE  /\ WithReplace(s, r) \in Seq(Edit)
           /\ \A e \in Edit : WithReplace(Append(s, e), r)
                                = Append(WithReplace(s, r), [e EXCEPT !.replace = r])
<1> DEFINE w == WithReplace(s, r)
<1>1. \A e \in Edit : [e EXCEPT !.replace = r] \in Edit
    BY DEF Edit
<1>2. DOMAIN s = 1..Len(s) /\ Len(s) \in Nat /\ \A j \in 1..Len(s) : s[j] \in Edit
    OBVIOUS
<1>3. w \in Seq(Edit) /\ Len(w) = Len(s) /\ \A j \in 1..Len(s) : w[j] = [s[j] EXCEPT !.replace = r]
    <2>1. w = [j \in 1..Len(s) |-> [s[j] EXCEPT !.replace = r]]
        BY <1>2, Zenon DEF WithReplace
    <2> HIDE DEF w
    <2>2. w \in [1..Len(s) -> Edit]
        BY <1>1, <1>2, <2>1
    <2> QED BY <1>2, <2>1, <2>2
<1> HIDE DEF w
<1>4. ASSUME NEW e \in Edit
      PROVE  WithReplace(Append(s, e), r) = Append(w, [e EXCEPT !.replace = r])
    <2> DEFINE x == Append(s, e)
               y == Append(w, [e EXCEPT !.replace = r])
    <2>1. /\ x \in Seq(Edit) /\ Len(x) = Len(s) + 1 /\ x[Len(s) + 1] = e
          /\ \A j \in 1..Len(s) : x[j] = s[j]
        BY <1>2
    <2>2. /\ y \in Seq(Edit) /\ Len(y) = Len(s) + 1 /\ y[Len(s) + 1] = [e EXCEPT !.replace = r]
          /\ \A j \in 1..Len(s) : y[j] = w[j]
        <3>1. [e EXCEPT !.replace = r] \in Edit
            BY <1>1
        <3> QED BY <1>2, <1>3, <3>1
    <2> HIDE DEF x, y
    <2>3. DOMAIN x = 1..(Len(s) + 1) /\ DOMAIN y = 1..(Len(s) + 1)
        BY <2>1, <2>2
    <2>4. ASSUME NEW j \in 1..(Len(s) + 1) PROVE y[j] = [x[j] EXCEPT !.replace = r]
        <3>1. j \in 1..Len(s) \/ j = Len(s) + 1
            BY <1>2
        <3> QED BY <1>3, <2>1, <2>2, <3>1
    <2>5. y = [j \in DOMAIN y |-> y[j]]
        BY <2>2
    <2>6. y = [j \in DOMAIN x |-> [x[j] EXCEPT !.replace = r]]
        BY <2>3, <2>4, <2>5
    <2> QED BY <2>6, Zenon DEF WithReplace, x, y
<1> QED BY <1>3, <1>4, Zenon DEF w

\* One turn of the loop.
LEMMA PartlyNext ==
    ASSUME NEW d \in DirectiveType, NEW dr, PartlyMeant(d, dr), dr.arg <= Len(d.args),
           NEW dx, dx.arg = dr.arg + 1,
           dx.ignore <=> dr.arg + 1 \in Lists(d),
           dx.replace <=> dr.replace \/ (~dr.ignore /\ d.args[dr.arg].option = "-r"),
           WithReplace(dx.cmd.headers, Replaces(d)) =
                IF ~dr.ignore /\ d.args[dr.arg].option = "none"
                THEN Append(WithReplace(dr.cmd.headers, Replaces(d)), HeaderOf(d, d.args[dr.arg]))
                ELSE WithReplace(dr.cmd.headers, Replaces(d)),
           dx.cmd.types = dr.cmd.types \cup
                (IF dr.arg + 1 \in ListsOf(d, "-t") THEN d.args[dr.arg + 1].types ELSE {}),
           dx.cmd.statuses = dr.cmd.statuses \cup
                (IF dr.arg + 1 \in ListsOf(d, "-s") THEN d.args[dr.arg + 1].statuses ELSE {})
    PROVE  PartlyMeant(d, dx)
<1> DEFINE a == dr.arg
<1>0. /\ a \in 1..Len(d.args) /\ a \in Nat /\ Len(d.args) \in Nat
      /\ a + 1 \in 1..(Len(d.args) + 1) /\ (a + 1) - 1 = a
    <2>1. Len(d.args) \in Nat
        BY DirectiveFacts
    <2>2. a \in 1..(Len(d.args) + 1) /\ a <= Len(d.args)
        BY DEF PartlyMeant
    <2> QED BY <2>1, <2>2
<1>1. dr.ignore <=> a \notin Said(d)
    BY <1>0 DEF PartlyMeant, Said
<1>2. dx.replace <=> \E i \in Said(d) : i < a + 1 /\ d.args[i].option = "-r"
    <2>1. \A i \in Said(d) : i < a + 1 <=> i < a \/ i = a
        BY <1>0 DEF Said
    <2> QED BY <1>1, <2>1 DEF PartlyMeant
<1>3. WithReplace(dx.cmd.headers, Replaces(d)) = HeadersTo(d)[a]
    <2>1. HeadersTo(d)[a] = IF a \in Said(d) /\ d.args[a].option = "none"
                            THEN Append(HeadersTo(d)[a - 1], HeaderOf(d, d.args[a]))
                            ELSE HeadersTo(d)[a - 1]
        BY <1>0, MeantFacts DEF Heads
    <2>2. WithReplace(dr.cmd.headers, Replaces(d)) = HeadersTo(d)[a - 1]
        BY DEF PartlyMeant
    <2> QED BY <1>1, <2>1, <2>2
<1>4. dx.cmd.types = TypesTo(d, a + 1) /\ dx.cmd.statuses = StatusesTo(d, a + 1)
    <2>1. /\ TypesTo(d, a + 1) = TypesTo(d, a) \cup
                (IF a + 1 \in ListsOf(d, "-t") THEN d.args[a + 1].types ELSE {})
          /\ StatusesTo(d, a + 1) = StatusesTo(d, a) \cup
                (IF a + 1 \in ListsOf(d, "-s") THEN d.args[a + 1].statuses ELSE {})
        BY <1>0, ListedTo
    <2>2. dr.cmd.types = TypesTo(d, a) /\ dr.cmd.statuses = StatusesTo(d, a)
        BY DEF PartlyMeant
    <2> QED BY <2>1, <2>2
<1> QED BY <1>0, <1>2, <1>3, <1>4 DEF PartlyMeant

------------------------------------------------------------------------------
(* The directives are parsed                                               *)

\* In front of the first argument nothing is said.
LEMMA PartlyBegins ==
    ASSUME NEW d \in DirectiveType, NEW l \in Level
    PROVE  PartlyMeant(d, [NoDraft EXCEPT !.level = l, !.arg = 1])
<1> DEFINE dr == [NoDraft EXCEPT !.level = l, !.arg = 1]
<1>0. Len(d.args) \in Nat
    BY DirectiveFacts
<1>1. /\ dr.arg = 1 /\ dr.ignore = FALSE /\ dr.replace = FALSE
      /\ dr.cmd.headers = <<>> /\ dr.cmd.types = {} /\ dr.cmd.statuses = {}
    BY DEF NoDraft, NoCommand
<1> HIDE DEF dr
<1>2. Lists(d) \subseteq 1..Len(d.args) /\ 1 \notin Lists(d)
    <2>1. 1 \in 1..Len(d.args) => 1 \notin Lists(d)
        BY <1>0, ListsFacts
    <2> QED BY <1>0, <2>1, ListsFacts
<1>3. \A i \in 1..Len(d.args) : ~(i < 1) /\ (i <= 1 => i = 1)
    BY <1>0
<1>4. TypesTo(d, 1) = {} /\ StatusesTo(d, 1) = {}
    <2>1. \A o : {j \in ListsOf(d, o) : j <= 1} = {}
        BY <1>2, <1>3 DEF ListsOf
    <2> QED BY <2>1 DEF TypesTo, StatusesTo
<1>5. WithReplace(dr.cmd.headers, Replaces(d)) = HeadersTo(d)[0]
    <2>1. HeadersTo(d)[0] = <<>>
        BY <1>0, MeantFacts DEF Heads
    <2>2. DOMAIN <<>> = {} /\ <<>> = [j \in {} |-> [<<>>[j] EXCEPT !.replace = Replaces(d)]]
        OBVIOUS
    <2> QED BY <1>1, <2>1, <2>2 DEF WithReplace
<1>6. 1 \in 1..(Len(d.args) + 1) /\ 1 - 1 = 0
    BY <1>0
<1>7. ~\E i \in Said(d) : i < 1 /\ d.args[i].option = "-r"
    BY <1>3 DEF Said
<1>8. PartlyMeant(d, dr)
    BY <1>1, <1>2, <1>4, <1>5, <1>6, <1>7 DEF PartlyMeant
<1> QED BY <1>8 DEF dr

\* Behind the last one all of it is, and the finished command is what is meant.
LEMMA PartlyEnds ==
    ASSUME NEW d \in DirectiveType, NEW dr \in DraftType, PartlyMeant(d, dr),
           dr.arg > Len(d.args)
    PROVE  LET c == [dr.cmd EXCEPT
                        !.is_input = d.input,
                        !.headers = [j \in DOMAIN @ |-> [@[j] EXCEPT !.replace = dr.replace]]]
           IN  c = Meant(d) /\ c \in CommandType
<1> DEFINE len == Len(d.args)
           w == [j \in DOMAIN dr.cmd.headers |-> [dr.cmd.headers[j] EXCEPT !.replace = dr.replace]]
           c == [dr.cmd EXCEPT !.is_input = d.input, !.headers = w]
<1>0. len \in Nat /\ dr.arg = len + 1 /\ (len + 1) - 1 = len
      /\ d.input \in BOOLEAN /\ dr.replace \in BOOLEAN /\ dr.cmd \in CommandType
    <2>1. len \in Nat /\ d.input \in BOOLEAN
        BY DirectiveFacts
    <2>2. dr.arg \in 1..(len + 1) /\ dr.arg > len
        BY DEF PartlyMeant
    <2> QED BY <2>1, <2>2 DEF DraftType
<1>1. \A i \in 1..len : i < len + 1 /\ i <= len + 1
    BY <1>0
<1>2. dr.replace = Replaces(d) /\ Replaces(d) \in BOOLEAN
    <2>1. dr.replace <=> Replaces(d)
        BY <1>0, <1>1 DEF PartlyMeant, Replaces, Said
    <2>2. Replaces(d) \in BOOLEAN
        BY DEF Replaces
    <2> QED BY <1>0, <2>1, <2>2
<1>3. w = HeadersTo(d)[len] /\ w \in Seq(Edit)
    <2>1. w = WithReplace(dr.cmd.headers, Replaces(d))
        BY <1>2, Zenon DEF WithReplace
    <2>2. dr.cmd.headers \in Seq(Edit)
        BY <1>0 DEF CommandType
    <2> HIDE DEF w
    <2>3. w = HeadersTo(d)[len]
        BY <1>0, <2>1 DEF PartlyMeant
    <2>4. w \in Seq(Edit)
        BY <1>2, <2>1, <2>2, ReplaceSet
    <2> QED BY <2>3, <2>4
<1> HIDE DEF w
<1>4. /\ dr.cmd.types = UNION {d.args[i].types : i \in ListsOf(d, "-t")}
      /\ dr.cmd.statuses = UNION {d.args[i].statuses : i \in ListsOf(d, "-s")}
    <2>1. \A o : ListsOf(d, o) \subseteq 1..len
        BY <1>0, ListsFacts DEF ListsOf
    <2>2. \A o : {j \in ListsOf(d, o) : j <= len + 1} = ListsOf(d, o)
        BY <1>1, <2>1
    <2> QED BY <1>0, <2>2 DEF PartlyMeant, TypesTo, StatusesTo
<1>5. c = [headers |-> w, types |-> dr.cmd.types, statuses |-> dr.cmd.statuses,
           is_input |-> d.input]
    <2>1. \A r \in CommandType : \A x, y :
            [r EXCEPT !.is_input = x, !.headers = y] =
                [headers |-> y, types |-> r.types, statuses |-> r.statuses, is_input |-> x]
        <3> TAKE r \in CommandType
        <3> TAKE x, y
        <3>1. r = [headers |-> r.headers, types |-> r.types, statuses |-> r.statuses,
                   is_input |-> r.is_input]
            BY DEF CommandType
        <3> DEFINE a == r.headers
                   b == r.types
                   s == r.statuses
                   i == r.is_input
        <3> HIDE DEF a, b, s, i
        <3>2. r = [headers |-> a, types |-> b, statuses |-> s, is_input |-> i]
            BY <3>1 DEF a, b, s, i
        <3>3. [r EXCEPT !.is_input = x]
                = [headers |-> a, types |-> b, statuses |-> s, is_input |-> x]
            BY <3>2
        <3>4. [[headers |-> a, types |-> b, statuses |-> s, is_input |-> x] EXCEPT !.headers = y]
                = [headers |-> y, types |-> b, statuses |-> s, is_input |-> x]
            OBVIOUS
        <3>5. [r EXCEPT !.is_input = x, !.headers = y] = [[r EXCEPT !.is_input = x] EXCEPT !.headers = y]
            OBVIOUS
        <3> QED BY <3>3, <3>4, <3>5 DEF b, s
    <2> QED BY <1>0, <2>1
<1>6. Meant(d) = [headers |-> HeadersTo(d)[len],
                  types |-> UNION {d.args[i].types : i \in ListsOf(d, "-t")},
                  statuses |-> UNION {d.args[i].statuses : i \in ListsOf(d, "-s")},
                  is_input |-> d.input]
    BY <1>0, MeantFacts DEF Heads
<1>7. c = Meant(d)
    BY <1>3, <1>4, <1>5, <1>6
<1>8. c \in CommandType
    BY <1>0, <1>3, <1>5 DEF CommandType
<1> QED BY <1>7, <1>8 DEF c, w

\* The types of the configuration.
ConfigTypes ==
    /\ directives \in Configuration /\ draft \in DraftType
    /\ config \in {"parse", "merge", "ready", "refused"}
    /\ cmds \in [Level -> Seq(CommandType)]

\* A command that is parsed is what its directive means; the levels above the
\* one being read are complete.
ParseInv ==
    /\ merging = NoMerge
    /\ \A l \in Level :
        /\ Len(cmds[l]) <= Len(directives[l])
        /\ \A k \in 1..Len(cmds[l]) : cmds[l][k] = Meant(directives[l][k])
        /\ l < draft.level => Len(cmds[l]) = Len(directives[l])
    /\ draft.arg > 0 =>
        /\ Len(cmds[draft.level]) < Len(directives[draft.level])
        /\ PartlyMeant(Directive, draft)

\* The directive the parser is at is one of the configuration.
LEMMA DirectiveHere ==
    ASSUME ConfigTypes, ParseInv, Len(cmds[draft.level]) < Len(directives[draft.level])
    PROVE  Directive \in DirectiveType
<1>1. draft.level \in Level /\ directives[draft.level] \in Seq(DirectiveType)
    <2>1. draft.level \in Level
        BY DEF ConfigTypes, DraftType
    <2>2. directives[draft.level] \in Seq([input : BOOLEAN, clear : BOOLEAN, args : Seq(Argument) \ {<<>>}])
        BY <2>1 DEF ConfigTypes, Configuration, Level
    <2>3. [input : BOOLEAN, clear : BOOLEAN, args : Seq(Argument) \ {<<>>}] \subseteq DirectiveType
        BY DEF DirectiveType
    <2> QED BY <2>1, <2>2, <2>3, SeqOfSubset
<1>2. cmds[draft.level] \in Seq(CommandType)
    BY <1>1 DEF ConfigTypes
<1>3. Len(cmds[draft.level]) + 1 \in 1..Len(directives[draft.level])
    <2>1. Len(cmds[draft.level]) \in Nat /\ Len(directives[draft.level]) \in Nat
        BY <1>1, <1>2, LenProperties
    <2> QED BY <2>1
<1> QED BY <1>1, <1>3, ElementOfSeq DEF Directive

\* A step that changes nothing but the draft.
LEMMA DraftGoesOn ==
    ASSUME ConfigTypes, ParseInv, UNCHANGED <<directives, config, cmds, merging>>,
           draft' \in DraftType, draft'.level = draft.level,
           Len(cmds[draft.level]) < Len(directives[draft.level]),
           PartlyMeant(Directive, draft')
    PROVE  (ConfigTypes /\ ParseInv)'
<1>1. Directive' = Directive
    BY DEF Directive
<1>2. ConfigTypes'
    BY DEF ConfigTypes
<1>3. ParseInv'
    BY <1>1 DEF ParseInv
<1> QED BY <1>2, <1>3

\* What a turn of the loop may rely on.
LEMMA TurnBegins ==
    ASSUME ConfigTypes, ParseInv, Parsing, draft.arg <= Len(Directive.args)
    PROVE  /\ Directive \in DirectiveType /\ PartlyMeant(Directive, draft)
           /\ Len(cmds[draft.level]) < Len(directives[draft.level])
           /\ draft.arg \in Nat /\ draft.arg \in 1..Len(Directive.args)
           /\ Len(Directive.args) \in Nat /\ Arg \in Argument
           /\ draft.cmd \in CommandType /\ draft \in DraftType
<1>1. /\ PartlyMeant(Directive, draft)
      /\ Len(cmds[draft.level]) < Len(directives[draft.level])
    BY DEF ParseInv, Parsing
<1>2. Directive \in DirectiveType
    BY <1>1, DirectiveHere
<1>3. draft.arg \in Nat /\ draft.cmd \in CommandType /\ draft \in DraftType
    BY DEF ConfigTypes, DraftType
<1>4. Len(Directive.args) \in Nat
    BY <1>2, DirectiveFacts
<1>5. draft.arg \in 1..Len(Directive.args)
    BY <1>3, <1>4 DEF Parsing
<1>6. Arg \in Argument
    BY <1>2, <1>5, DirectiveFacts DEF Arg
<1> QED BY <1>1, <1>2, <1>3, <1>4, <1>5, <1>6

\* The draft with the next argument, field by field.
LEMMA DraftFields ==
    ASSUME NEW d \in DraftType
    PROVE  /\ d.level \in Level /\ d.arg \in Nat /\ d.ignore \in BOOLEAN /\ d.replace \in BOOLEAN
           /\ d.cmd \in CommandType
           /\ LET x == [d EXCEPT !.arg = @ + 1]
              IN  /\ x \in DraftType /\ x.arg = d.arg + 1 /\ x.level = d.level
                  /\ x.ignore = d.ignore /\ x.replace = d.replace /\ x.cmd = d.cmd
    BY DEF DraftType

\* The next argument is a list if this one is an option that has one.
LEMMA NextListed ==
    ASSUME NEW d, Len(d.args) \in Nat, NEW a \in 1..Len(d.args)
    PROVE  /\ a + 1 \in Lists(d) <=> /\ a < Len(d.args) /\ a \notin Lists(d)
                                     /\ d.args[a].option \in {"-t", "-s"}
           /\ \A o : a + 1 \in ListsOf(d, o) <=> a + 1 \in Lists(d) /\ d.args[a].option = o
<1>1. (a + 1) - 1 = a /\ a + 1 > 1 /\ (a + 1 \in 1..Len(d.args) <=> a < Len(d.args))
    OBVIOUS
<1>2. a + 1 \in Lists(d) <=> /\ a < Len(d.args) /\ a \notin Lists(d)
                             /\ d.args[a].option \in {"-t", "-s"}
    BY <1>1, ListsFacts
<1>3. \A o : a + 1 \in ListsOf(d, o) <=> a + 1 \in Lists(d) /\ d.args[a].option = o
    BY <1>1 DEF ListsOf
<1> QED BY <1>2, <1>3

\* An argument that is a list, or empty, is passed over.
LEMMA SkipStep ==
    ASSUME ConfigTypes, ParseInv, SkipArg
    PROVE  (ConfigTypes /\ ParseInv)'
<1> DEFINE d == Directive
           a == draft.arg
<1>1. /\ d \in DirectiveType /\ PartlyMeant(d, draft)
      /\ Len(cmds[draft.level]) < Len(directives[draft.level])
      /\ a \in Nat /\ a \in 1..Len(d.args) /\ Len(d.args) \in Nat /\ draft \in DraftType
    BY TurnBegins DEF SkipArg
<1>2. /\ draft' \in DraftType /\ draft'.arg = a + 1 /\ draft'.level = draft.level
      /\ draft'.ignore = FALSE /\ draft'.replace = draft.replace /\ draft'.cmd = draft.cmd
      /\ UNCHANGED <<directives, config, cmds, merging>>
    <2> DEFINE x == [draft EXCEPT !.ignore = FALSE]
    <2>1. /\ x \in DraftType /\ x.arg = a /\ x.level = draft.level /\ x.ignore = FALSE
          /\ x.replace = draft.replace /\ x.cmd = draft.cmd
        BY <1>1 DEF DraftType
    <2>2. draft' = [x EXCEPT !.arg = @ + 1] /\ UNCHANGED <<directives, config, cmds, merging>>
        BY DEF SkipArg, Draft
    <2> HIDE DEF x
    <2> QED BY <2>1, <2>2, DraftFields
<1>3. draft.ignore \/ d.args[a].option = "empty"
    BY DEF SkipArg, Arg
<1>4. draft.ignore <=> a \in Lists(d)
    BY <1>1 DEF PartlyMeant
<1> DEFINE dx == draft'
<1> HIDE DEF d, a, dx
<1>5. a + 1 \notin Lists(d) /\ a + 1 \notin ListsOf(d, "-t") /\ a + 1 \notin ListsOf(d, "-s")
    BY <1>1, <1>3, <1>4, NextListed
<1>6. PartlyMeant(d, dx)
    <2>1. /\ dx.arg = draft.arg + 1 /\ draft.arg <= Len(d.args)
          /\ dx.ignore <=> draft.arg + 1 \in Lists(d)
          /\ dx.replace <=> draft.replace \/ (~draft.ignore /\ d.args[draft.arg].option = "-r")
        BY <1>1, <1>2, <1>3, <1>5 DEF a, dx
    <2>2. WithReplace(dx.cmd.headers, Replaces(d)) =
                IF ~draft.ignore /\ d.args[draft.arg].option = "none"
                THEN Append(WithReplace(draft.cmd.headers, Replaces(d)), HeaderOf(d, d.args[draft.arg]))
                ELSE WithReplace(draft.cmd.headers, Replaces(d))
        BY <1>2, <1>3 DEF a, dx
    <2>3. /\ dx.cmd.types = draft.cmd.types \cup
                (IF draft.arg + 1 \in ListsOf(d, "-t") THEN d.args[draft.arg + 1].types ELSE {})
          /\ dx.cmd.statuses = draft.cmd.statuses \cup
                (IF draft.arg + 1 \in ListsOf(d, "-s") THEN d.args[draft.arg + 1].statuses ELSE {})
        BY <1>2, <1>5 DEF a, dx
    <2> QED BY <1>1, <2>1, <2>2, <2>3, PartlyNext
<1> QED BY <1>1, <1>2, <1>6, DraftGoesOn DEF d, dx

\* -r: every header of the directive will replace.
LEMMA ReplaceOptionStep ==
    ASSUME ConfigTypes, ParseInv, ReplaceOption
    PROVE  (ConfigTypes /\ ParseInv)'
<1> DEFINE d == Directive
           a == draft.arg
<1>1. /\ d \in DirectiveType /\ PartlyMeant(d, draft)
      /\ Len(cmds[draft.level]) < Len(directives[draft.level])
      /\ a \in Nat /\ a \in 1..Len(d.args) /\ Len(d.args) \in Nat /\ draft \in DraftType
    BY TurnBegins DEF ReplaceOption, OnArg
<1>2. /\ draft' \in DraftType /\ draft'.arg = a + 1 /\ draft'.level = draft.level
      /\ draft'.ignore = FALSE /\ draft'.replace = TRUE /\ draft'.cmd = draft.cmd
      /\ UNCHANGED <<directives, config, cmds, merging>>
    <2> DEFINE x == [draft EXCEPT !.replace = TRUE]
    <2>1. /\ x \in DraftType /\ x.arg = a /\ x.level = draft.level /\ x.ignore = draft.ignore
          /\ x.replace = TRUE /\ x.cmd = draft.cmd
        BY <1>1 DEF DraftType
    <2>2. /\ draft' = [x EXCEPT !.arg = @ + 1] /\ UNCHANGED <<directives, config, cmds, merging>>
          /\ draft.ignore = FALSE
        <3>1. ~draft.ignore /\ draft.ignore \in BOOLEAN
            BY <1>1, DraftFields DEF ReplaceOption, OnArg
        <3> QED BY <3>1 DEF ReplaceOption, Draft
    <2> HIDE DEF x
    <2> QED BY <2>1, <2>2, DraftFields
<1>3. ~draft.ignore /\ d.args[a].option = "-r"
    BY DEF ReplaceOption, OnArg, Arg
<1> DEFINE dx == draft'
<1> HIDE DEF d, a, dx
<1>5. a + 1 \notin Lists(d) /\ a + 1 \notin ListsOf(d, "-t") /\ a + 1 \notin ListsOf(d, "-s")
    BY <1>1, <1>3, NextListed
<1>6. PartlyMeant(d, dx)
    <2>1. /\ dx.arg = draft.arg + 1 /\ draft.arg <= Len(d.args)
          /\ dx.ignore <=> draft.arg + 1 \in Lists(d)
          /\ dx.replace <=> draft.replace \/ (~draft.ignore /\ d.args[draft.arg].option = "-r")
        BY <1>1, <1>2, <1>3, <1>5 DEF a, dx
    <2>2. WithReplace(dx.cmd.headers, Replaces(d)) =
                IF ~draft.ignore /\ d.args[draft.arg].option = "none"
                THEN Append(WithReplace(draft.cmd.headers, Replaces(d)), HeaderOf(d, d.args[draft.arg]))
                ELSE WithReplace(draft.cmd.headers, Replaces(d))
        BY <1>2, <1>3 DEF a, dx
    <2>3. /\ dx.cmd.types = draft.cmd.types \cup
                (IF draft.arg + 1 \in ListsOf(d, "-t") THEN d.args[draft.arg + 1].types ELSE {})
          /\ dx.cmd.statuses = draft.cmd.statuses \cup
                (IF draft.arg + 1 \in ListsOf(d, "-s") THEN d.args[draft.arg + 1].statuses ELSE {})
        BY <1>2, <1>5 DEF a, dx
    <2> QED BY <1>1, <2>1, <2>2, <2>3, PartlyNext
<1> QED BY <1>1, <1>2, <1>6, DraftGoesOn DEF d, dx

\* A refused directive leaves all as it was.
LEMMA RefusedTypes ==
    ASSUME ConfigTypes, Refuse
    PROVE  ConfigTypes' /\ config' = "refused"
    BY DEF ConfigTypes, Refuse

\* A header is appended to those of the draft.
LEMMA HeaderArgStep ==
    ASSUME ConfigTypes, ParseInv, HeaderArg, config' # "refused"
    PROVE  (ConfigTypes /\ ParseInv)'
<1> DEFINE d == Directive
           a == draft.arg
           e == [key |-> Arg.key, value |-> IF d.clear THEN "" ELSE Arg.value, replace |-> FALSE]
           r == Replaces(d)
<1>1. /\ d \in DirectiveType /\ PartlyMeant(d, draft)
      /\ Len(cmds[draft.level]) < Len(directives[draft.level])
      /\ a \in Nat /\ a \in 1..Len(d.args) /\ Len(d.args) \in Nat /\ draft \in DraftType
      /\ Arg \in Argument /\ draft.cmd \in CommandType
    BY TurnBegins DEF HeaderArg, OnArg
<1>2. /\ ~draft.ignore /\ draft.ignore \in BOOLEAN /\ d.args[a].option = "none"
      /\ Arg.key \notin {"", "*"}
    <2>1. draft.ignore \in BOOLEAN
        BY <1>1, DraftFields
    <2> QED BY <2>1 DEF HeaderArg, OnArg, Arg, Refuse
<1>d. Draft([draft EXCEPT !.cmd.headers = Append(@, e)])
    BY DEF HeaderArg, Refuse
<1>3. e \in Edit /\ Arg = d.args[a]
    <2>1. Arg.key \in Key /\ Arg.value \in Text \cup {""}
        BY <1>1, <1>2 DEF Argument
    <2> QED BY <2>1 DEF Edit, Arg
<1>4. HeaderOf(d, d.args[a]) = [e EXCEPT !.replace = r]
    <2>1. [e EXCEPT !.replace = r] =
            [key |-> Arg.key, value |-> IF d.clear THEN "" ELSE Arg.value, replace |-> r]
        <3>1. \A k, v, x : [[key |-> k, value |-> v, replace |-> FALSE] EXCEPT !.replace = x]
                                = [key |-> k, value |-> v, replace |-> x]
            OBVIOUS
        <3> HIDE DEF r, d
        <3> QED BY <3>1 DEF e
    <2> HIDE DEF e, r
    <2> QED BY <1>3, <2>1 DEF HeaderOf, r
<1> HIDE DEF e
<1> DEFINE more == Append(draft.cmd.headers, e)
           cmd == [draft.cmd EXCEPT !.headers = more]
<1>5. draft.cmd.headers \in Seq(Edit) /\ more \in Seq(Edit)
    <2>1. draft.cmd.headers \in Seq(Edit)
        BY <1>1 DEF CommandType
    <2> QED BY <1>3, <2>1, AppendProperties
<1>6. /\ cmd \in CommandType /\ cmd.headers = more /\ cmd.types = draft.cmd.types
      /\ cmd.statuses = draft.cmd.statuses
    <2> HIDE DEF more
    <2> QED BY <1>1, <1>5 DEF CommandType
<1>7. /\ draft' \in DraftType /\ draft'.arg = a + 1 /\ draft'.level = draft.level
      /\ draft'.ignore = FALSE /\ draft'.replace = draft.replace /\ draft'.cmd = cmd
      /\ UNCHANGED <<directives, config, cmds, merging>>
    <2> DEFINE x == [draft EXCEPT !.cmd = cmd]
    <2>0. [draft EXCEPT !.cmd.headers = Append(@, e)] = x
        BY <1>1 DEF DraftType
    <2> HIDE DEF cmd
    <2>1. /\ x \in DraftType /\ x.arg = a /\ x.level = draft.level /\ x.ignore = draft.ignore
          /\ x.replace = draft.replace /\ x.cmd = cmd
        BY <1>1, <1>6 DEF DraftType
    <2> HIDE DEF x
    <2>2. draft' = [x EXCEPT !.arg = @ + 1] /\ UNCHANGED <<directives, config, cmds, merging>>
        BY <1>d, <2>0 DEF Draft
    <2> QED BY <1>2, <2>1, <2>2, DraftFields
<1> DEFINE dx == draft'
<1> HIDE DEF d, a, dx, cmd, more
<1>8. a + 1 \notin Lists(d) /\ a + 1 \notin ListsOf(d, "-t") /\ a + 1 \notin ListsOf(d, "-s")
    BY <1>1, <1>2, NextListed
<1>9. WithReplace(more, r) = Append(WithReplace(draft.cmd.headers, r), HeaderOf(d, d.args[a]))
    <2>1. r \in BOOLEAN
        BY DEF Replaces
    <2> HIDE DEF r
    <2> QED BY <1>3, <1>4, <1>5, <2>1, ReplaceSet DEF more
<1>10. PartlyMeant(d, dx)
    <2> HIDE DEF r
    <2>1. /\ dx.arg = draft.arg + 1 /\ draft.arg <= Len(d.args)
          /\ dx.ignore <=> draft.arg + 1 \in Lists(d)
          /\ dx.replace <=> draft.replace \/ (~draft.ignore /\ d.args[draft.arg].option = "-r")
        <3>1. ~draft.ignore
            BY <1>2
        <3>2. d.args[draft.arg].option # "-r"
            BY <1>2 DEF a
        <3>3. draft.arg <= Len(d.args)
            BY <1>1 DEF a
        <3> QED BY <1>7, <1>8, <3>1, <3>2, <3>3 DEF a, dx
    <2>2. WithReplace(dx.cmd.headers, Replaces(d)) =
                IF ~draft.ignore /\ d.args[draft.arg].option = "none"
                THEN Append(WithReplace(draft.cmd.headers, Replaces(d)), HeaderOf(d, d.args[draft.arg]))
                ELSE WithReplace(draft.cmd.headers, Replaces(d))
        BY <1>2, <1>6, <1>7, <1>9 DEF a, dx, r
    <2>3. /\ dx.cmd.types = draft.cmd.types \cup
                (IF draft.arg + 1 \in ListsOf(d, "-t") THEN d.args[draft.arg + 1].types ELSE {})
          /\ dx.cmd.statuses = draft.cmd.statuses \cup
                (IF draft.arg + 1 \in ListsOf(d, "-s") THEN d.args[draft.arg + 1].statuses ELSE {})
        BY <1>6, <1>7, <1>8 DEF a, dx
    <2> QED BY <1>1, <2>1, <2>2, <2>3, PartlyNext
<1> QED BY <1>1, <1>7, <1>10, DraftGoesOn DEF d, dx

\* -t and -s: the list behind them is added to what is listed.
LEMMA ListOptionStep ==
    ASSUME ConfigTypes, ParseInv, ListOption, config' # "refused"
    PROVE  (ConfigTypes /\ ParseInv)'
<1> DEFINE d == Directive
           a == draft.arg
           list == d.args[a + 1]
           cmd == IF Arg.option = "-t" THEN AddTypes(draft.cmd, list)
                  ELSE AddStatuses(draft.cmd, list)
<1>1. /\ d \in DirectiveType /\ PartlyMeant(d, draft)
      /\ Len(cmds[draft.level]) < Len(directives[draft.level])
      /\ a \in Nat /\ a \in 1..Len(d.args) /\ Len(d.args) \in Nat /\ draft \in DraftType
      /\ draft.cmd \in CommandType /\ draft.ignore \in BOOLEAN
    BY TurnBegins, DraftFields DEF ListOption, OnArg
<1>2. /\ ~draft.ignore /\ d.args[a].option \in {"-t", "-s"} /\ Arg = d.args[a]
      /\ a # Len(d.args)
      /\ Draft([draft EXCEPT !.ignore = TRUE, !.cmd = cmd])
    BY DEF ListOption, OnArg, Arg, Refuse
<1>3. a + 1 \in 1..Len(d.args)
    BY <1>1, <1>2
<1>4. list.types \subseteq Text /\ list.statuses \subseteq Int
    BY <1>1, <1>3, DirectiveFacts
<1>5. /\ cmd \in CommandType /\ cmd.headers = draft.cmd.headers
      /\ Arg.option = "-t" => cmd.types = draft.cmd.types \cup list.types
                              /\ cmd.statuses = draft.cmd.statuses
      /\ Arg.option # "-t" => cmd.types = draft.cmd.types
                              /\ cmd.statuses = draft.cmd.statuses \cup list.statuses
    <2>1. draft.cmd.types \cup list.types \in SUBSET Text
          /\ draft.cmd.statuses \cup list.statuses \in SUBSET Int
        BY <1>1, <1>4 DEF CommandType
    <2> HIDE DEF list, a, d
    <2> QED BY <1>1, <2>1 DEF CommandType, AddTypes, AddStatuses
<1> HIDE DEF cmd
<1>6. /\ draft' \in DraftType /\ draft'.arg = a + 1 /\ draft'.level = draft.level
      /\ draft'.ignore = TRUE /\ draft'.replace = draft.replace /\ draft'.cmd = cmd
      /\ UNCHANGED <<directives, config, cmds, merging>>
    <2> DEFINE x == [draft EXCEPT !.ignore = TRUE, !.cmd = cmd]
    <2>1. /\ x \in DraftType /\ x.arg = a /\ x.level = draft.level /\ x.ignore = TRUE
          /\ x.replace = draft.replace /\ x.cmd = cmd
        BY <1>1, <1>5 DEF DraftType
    <2> HIDE DEF x
    <2>2. draft' = [x EXCEPT !.arg = @ + 1] /\ UNCHANGED <<directives, config, cmds, merging>>
        BY <1>2 DEF Draft, x
    <2> QED BY <2>1, <2>2, DraftFields
<1> DEFINE dx == draft'
<1>7. draft.ignore <=> a \in Lists(d)
    BY <1>1 DEF PartlyMeant
<1> HIDE DEF d, a, dx
<1>8. /\ a + 1 \in Lists(d)
      /\ a + 1 \in ListsOf(d, "-t") <=> Arg.option = "-t"
      /\ a + 1 \in ListsOf(d, "-s") <=> Arg.option # "-t"
    <2>1. a < Len(d.args)
        BY <1>1, <1>2
    <2>2. a + 1 \in Lists(d)
        BY <1>1, <1>2, <1>7, <2>1, NextListed
    <2> QED BY <1>1, <1>2, <2>2, NextListed
<1>9. PartlyMeant(d, dx)
    <2>1. /\ dx.arg = draft.arg + 1 /\ draft.arg <= Len(d.args)
          /\ dx.ignore <=> draft.arg + 1 \in Lists(d)
          /\ dx.replace <=> draft.replace \/ (~draft.ignore /\ d.args[draft.arg].option = "-r")
        BY <1>1, <1>2, <1>6, <1>8 DEF a, dx
    <2>2. WithReplace(dx.cmd.headers, Replaces(d)) =
                IF ~draft.ignore /\ d.args[draft.arg].option = "none"
                THEN Append(WithReplace(draft.cmd.headers, Replaces(d)), HeaderOf(d, d.args[draft.arg]))
                ELSE WithReplace(draft.cmd.headers, Replaces(d))
        BY <1>2, <1>5, <1>6 DEF a, dx
    <2>3. /\ dx.cmd.types = draft.cmd.types \cup
                (IF draft.arg + 1 \in ListsOf(d, "-t") THEN d.args[draft.arg + 1].types ELSE {})
          /\ dx.cmd.statuses = draft.cmd.statuses \cup
                (IF draft.arg + 1 \in ListsOf(d, "-s") THEN d.args[draft.arg + 1].statuses ELSE {})
        BY <1>5, <1>6, <1>8 DEF a, dx
    <2> QED BY <1>1, <2>1, <2>2, <2>3, PartlyNext
<1> QED BY <1>1, <1>6, <1>9, DraftGoesOn DEF d, dx

------------------------------------------------------------------------------
(* The merge of a level with the one above it                              *)

\* A level has the commands of the level above it, as they are there, and its
\* own behind them.
Inherits(c, l) == cmds[l] = cmds[l - 1] \o c[l]

Inherited(c) == cmds[1] = c[1] /\ \A l \in 2..Levels : Inherits(c, l)

\* The state of the merge, and the types of what it works on.
Merging ==
    [level : 2..(Levels + 1), from : {"begin", "shift", "copy"}, i : Nat, own : Nat]

Types(S) ==
    /\ config \in {"merge", "ready"}
    /\ merging \in Merging
    /\ config = "ready" => merging.level > Levels
    /\ cmds \in [Level -> Seq(S)]

\* The levels above the one being merged are done, those below are as parsed.
Done(c) ==
    /\ cmds[1] = c[1]
    /\ \A l \in 2..Levels : l < merging.level => Inherits(c, l)
    /\ \A l \in 2..Levels : l > merging.level => cmds[l] = c[l]

\* What is in the array of the level being merged: its own commands, in front
\* of the hole that i of them have been moved over; then they are all behind
\* it, and i commands of the level above have been copied into it.
Moved(c) ==
    merging.level <= Levels =>
        LET own == c[merging.level]
            above == Len(Prev)
        IN  IF merging.from = "begin" THEN merging.i = 0 /\ Conf = own
            ELSE /\ merging.own = Len(own) /\ Len(Conf) = above + Len(own)
                 /\ IF merging.from = "shift"
                    THEN /\ merging.i <= Len(own)
                         /\ \A k \in 1..Len(own) :
                                Conf[IF k <= Len(own) - merging.i THEN k ELSE above + k] = own[k]
                    ELSE /\ merging.i <= above
                         /\ \A k \in 1..Len(own) : Conf[above + k] = own[k]
                         /\ \A k \in 1..merging.i : Conf[k] = Prev[k]

MergeInv(c, S) == Types(S) /\ Done(c) /\ Moved(c)

\* The numbers of the levels.
LEMMA LevelRange ==
    ASSUME NEW m \in 2..(Levels + 1)
    PROVE  /\ m \in Nat /\ Levels \in Nat /\ 1 \in Level
           /\ m <= Levels => m \in 2..Levels /\ m \in Level /\ m - 1 \in Level
                             /\ m + 1 \in 2..(Levels + 1)
           /\ \A l \in 2..Levels : l \in Nat /\ l \in Level /\ l - 1 \in Level
    BY LevelsAssumption DEF Level

\* What is parsed is what the merge begins with.
LEMMA MergeStarts ==
    ASSUME NEW S, NEW c \in [Level -> Seq(S)],
           config' = "merge" /\ merging' = NoMerge /\ cmds' = c
    PROVE  MergeInv(c, S)'
<1>1. Types(S)'
    BY LevelsAssumption DEF Types, Merging, NoMerge
<1>2. Done(c)'
    <2>1. merging'.level = 2 /\ \A l \in 2..Levels : ~(l < 2)
        BY LevelsAssumption DEF NoMerge
    <2> QED BY <2>1 DEF Done
<1>3. Moved(c)'
    BY DEF Moved, NoMerge, Conf
<1> QED BY <1>1, <1>2, <1>3 DEF MergeInv

\* The level below the merged one is next, and has been left alone.
LEMMA NextLevelBegins ==
    ASSUME NEW S, NEW c \in [Level -> Seq(S)], MergeInv(c, S),
           merging.level <= Levels, cmds' \in [Level -> Seq(S)], UNCHANGED config,
           NextLevel, cmds'[merging.level] = Prev \o c[merging.level],
           \A l \in Level : l # merging.level => cmds'[l] = cmds[l]
    PROVE  MergeInv(c, S)'
<1> DEFINE m == merging.level
<1>1. /\ m \in 2..Levels /\ m + 1 \in 2..(Levels + 1) /\ config # "ready"
      /\ m - 1 \in Level /\ m \in Level /\ 1 \in Level /\ m \in Nat /\ Levels \in Nat
    <2>1. m \in 2..(Levels + 1) /\ (config = "ready" => m > Levels)
        BY DEF MergeInv, Types, Merging
    <2> QED BY <2>1, LevelRange
<1>2. merging' = [level |-> m + 1, from |-> "begin", i |-> 0, own |-> 0]
    BY DEF NextLevel, NoMerge
<1>3. Types(S)'
    BY <1>1, <1>2 DEF MergeInv, Types, Merging
<1>4. Done(c)'
    <2>1. cmds'[1] = c[1]
        BY <1>1 DEF MergeInv, Done
    <2>2. ASSUME NEW l \in 2..Levels, l < m + 1 PROVE Inherits(c, l)'
        <3>1. l - 1 \in Level /\ l \in Level /\ l - 1 # m
            <4>1. l \in Nat /\ m \in Nat /\ l - 1 \in Level /\ l \in Level
                BY <1>1, LevelRange
            <4>2. l - 1 # m
                BY <2>2, <4>1
            <4> QED BY <4>1, <4>2
        <3>2. CASE l = m
            BY <3>1, <3>2 DEF Inherits, Prev
        <3>3. CASE l # m
            <4>1. l < m
                BY <1>1, <2>2, <3>3, SMTT(30)
            <4>2. Inherits(c, l)
                BY <4>1 DEF MergeInv, Done
            <4> QED BY <3>1, <3>3, <4>2 DEF Inherits
        <3> QED BY <3>2, <3>3
    <2>3. ASSUME NEW l \in 2..Levels, l > m + 1 PROVE cmds'[l] = c[l]
        <3>1. l > m /\ l # m /\ l \in Level
            <4>1. l \in Nat /\ m \in Nat /\ l \in Level
                BY <1>1, LevelRange
            <4> QED BY <2>3, <4>1
        <3> QED BY <3>1 DEF MergeInv, Done
    <2> QED BY <1>2, <2>1, <2>2, <2>3 DEF Done
<1>5. Moved(c)'
    <2>1. m + 1 <= Levels => cmds'[m + 1] = c[m + 1]
        <3>1. m + 1 <= Levels => m + 1 \in 2..Levels /\ m + 1 \in Level /\ m + 1 > m
            BY <1>1, LevelRange, SMTT(30)
        <3>2. m + 1 # m
            BY <1>1
        <3> QED BY <3>1, <3>2 DEF MergeInv, Done
    <2> QED BY <1>2, <2>1 DEF Moved, Conf
<1> QED BY <1>3, <1>4, <1>5 DEF MergeInv

\* A step inside a level touches nothing but its array and the loop's state.
LEMMA LevelGoesOn ==
    ASSUME NEW S, NEW c \in [Level -> Seq(S)], MergeInv(c, S),
           merging.level <= Levels, cmds' \in [Level -> Seq(S)], UNCHANGED config,
           merging' \in Merging, merging'.level = merging.level,
           \A l \in Level : l # merging.level => cmds'[l] = cmds[l],
           Moved(c)'
    PROVE  MergeInv(c, S)'
<1> DEFINE m == merging.level
<1>1. /\ m \in 2..Levels /\ config # "ready" /\ 1 \in Level
      /\ \A l \in 2..Levels : l \in Nat /\ l \in Level /\ l - 1 \in Level
      /\ m \in Nat /\ Levels \in Nat
    <2>1. m \in 2..(Levels + 1) /\ (config = "ready" => m > Levels)
        BY DEF MergeInv, Types, Merging
    <2> QED BY <2>1, LevelRange
<1>2. Types(S)'
    BY <1>1 DEF MergeInv, Types
<1>3. Done(c)'
    <2>1. ASSUME NEW l \in 2..Levels, l < m PROVE Inherits(c, l)'
        <3>1. l # m /\ l - 1 # m
            <4>1. l \in Nat /\ m \in Nat
                BY <1>1
            <4> QED BY <2>1, <4>1
        <3>2. Inherits(c, l)
            BY <2>1 DEF MergeInv, Done
        <3> QED BY <1>1, <3>1, <3>2 DEF Inherits
    <2>2. ASSUME NEW l \in 2..Levels, l > m PROVE cmds'[l] = c[l]
        <3>1. l # m /\ l \in Level
            BY <1>1, <2>2
        <3> QED BY <2>2, <3>1 DEF MergeInv, Done
    <2>3. cmds'[1] = c[1]
        <3>1. 1 # m
            BY <1>1
        <3> QED BY <1>1, <3>1 DEF MergeInv, Done
    <2> QED BY <2>1, <2>2, <2>3 DEF Done
<1> QED BY <1>2, <1>3 DEF MergeInv

\* A step of the merge, whatever commands the levels have.
LEMMA MergeStep ==
    ASSUME NEW S, NoCommand \in S, NEW c \in [Level -> Seq(S)], MergeInv(c, S),
           [ConfigNext]_configVars
    PROVE  MergeInv(c, S)'
<1> DEFINE m == merging.level
           own == c[m]
           above == Len(Prev)
<1>t. Types(S) /\ Done(c) /\ Moved(c)
    BY DEF MergeInv
<1>l. m \in 2..(Levels + 1) /\ m \in Nat /\ Levels \in Nat
    BY <1>t, LevelRange DEF Types, Merging
<1>m. m <= Levels => /\ m \in 2..Levels /\ m \in Level /\ m - 1 \in Level
                     /\ Prev \in Seq(S) /\ Conf \in Seq(S) /\ own \in Seq(S)
                     /\ above \in Nat /\ Len(own) \in Nat
    <2> SUFFICES ASSUME m <= Levels
                 PROVE  /\ m \in 2..Levels /\ m \in Level /\ m - 1 \in Level
                        /\ Prev \in Seq(S) /\ Conf \in Seq(S) /\ own \in Seq(S)
                        /\ above \in Nat /\ Len(own) \in Nat
        OBVIOUS
    <2>1. m \in 2..Levels /\ m \in Level /\ m - 1 \in Level
        BY <1>l, LevelRange
    <2>2. cmds[m] \in Seq(S) /\ cmds[m - 1] \in Seq(S) /\ c[m] \in Seq(S)
        BY <1>t, <2>1 DEF Types
    <2>3. above \in Nat /\ Len(own) \in Nat
        BY <2>2, LenProperties DEF Prev
    <2> QED BY <2>1, <2>2, <2>3 DEF Prev, Conf
<1>i. merging.i \in Nat /\ merging.own \in Nat
    BY <1>t DEF Types, Merging
<1>1. CASE MergeOne
    <2>1. m <= Levels /\ Conf = own
        BY <1>1, <1>t DEF MergeOne, Merge, Moved
    <2>2. (IF Conf = <<>> THEN Prev ELSE Conf) = Prev \o own
        BY <1>1, <1>m, <2>1, ConcatEmptySeq DEF MergeOne
    <2>3. /\ cmds' \in [Level -> Seq(S)] /\ cmds'[m] = Prev \o own
          /\ \A l \in Level : l # m => cmds'[l] = cmds[l]
        BY <1>1, <1>t, <1>m, <2>1, <2>2 DEF MergeOne, Types
    <2> QED BY <1>1, <2>1, <2>3, NextLevelBegins DEF MergeOne
<1>2. CASE MergeGrow
    <2>1. m <= Levels /\ Conf = own /\ merging.i = 0
        BY <1>2, <1>t DEF MergeGrow, Merge, Moved
    <2> DEFINE grown == Conf \o [k \in DOMAIN Prev |-> NoCommand]
    <2>2. /\ grown \in Seq(S) /\ Len(grown) = above + Len(own)
          /\ \A k \in 1..Len(own) : grown[k] = own[k]
        <3> DEFINE hole == [k \in DOMAIN Prev |-> NoCommand]
        <3>1. hole \in Seq(S) /\ Len(hole) = above
            BY <1>m, <2>1, SMTT(30)
        <3> HIDE DEF hole
        <3>2. \A k \in 1..Len(own) : k \in 1..(Len(Conf) + above) /\ k <= Len(Conf)
            BY <1>m, <2>1
        <3>3. /\ grown \in Seq(S) /\ Len(grown) = Len(Conf) + above
              /\ \A k \in 1..(Len(Conf) + above) : k <= Len(Conf) => grown[k] = Conf[k]
            <4>1. grown = Conf \o hole
                BY DEF grown, hole
            <4> HIDE DEF grown
            <4>2. Conf \in Seq(S)
                BY <1>m, <2>1
            <4>3. /\ Conf \o hole \in Seq(S) /\ Len(Conf \o hole) = Len(Conf) + Len(hole)
                  /\ \A k \in 1..(Len(Conf) + Len(hole)) : (Conf \o hole)[k] =
                        IF k <= Len(Conf) THEN Conf[k] ELSE hole[k - Len(Conf)]
                BY <3>1, <4>2, ConcatProperties
            <4> QED BY <3>1, <4>1, <4>3
        <3>4. Len(Conf) + above = above + Len(own)
            BY <1>m, <2>1
        <3> QED BY <2>1, <3>2, <3>3, <3>4
    <2> HIDE DEF grown
    <2>3. /\ cmds' = [cmds EXCEPT ![m] = grown] /\ UNCHANGED config
          /\ merging' = [merging EXCEPT !.from = "shift", !.own = Len(Conf)]
        BY <1>2 DEF MergeGrow, grown, Conf
    <2>4. /\ cmds' \in [Level -> Seq(S)] /\ cmds'[m] = grown
          /\ \A l \in Level : l # m => cmds'[l] = cmds[l]
        BY <1>t, <1>m, <2>1, <2>2, <2>3 DEF Types
    <2>5. /\ merging' \in Merging /\ merging'.level = m /\ merging'.from = "shift"
          /\ merging'.i = 0 /\ merging'.own = Len(own)
        BY <1>t, <1>m, <2>1, <2>3 DEF Types, Merging
    <2>6. Moved(c)'
        <3>1. Conf' = grown /\ Prev' = Prev
            BY <1>m, <2>1, <2>4, <2>5, LevelsAssumption DEF Conf, Prev
        <3>2. Len(own) \in Nat
            BY <1>m, <2>1
        <3> QED BY <2>2, <2>5, <3>1, <3>2 DEF Moved
    <2> QED BY <2>1, <2>3, <2>4, <2>5, <2>6, LevelGoesOn
<1>3. CASE MergeShift
    <2>1. /\ m <= Levels /\ merging.from = "shift" /\ merging.i < merging.own
          /\ merging.own = Len(own) /\ Len(Conf) = above + Len(own)
          /\ \A k \in 1..Len(own) :
                Conf[IF k <= Len(own) - merging.i THEN k ELSE above + k] = own[k]
        BY <1>3, <1>t DEF MergeShift, Merge, Moved
    <2> DEFINE j == Len(own) - merging.i
    <2>2. above \in Nat /\ Len(own) \in Nat /\ j \in 1..Len(own) /\ above + j \in 1..Len(Conf)
        BY <1>m, <1>i, <2>1, SMTT(30)
    <2>3. /\ cmds' = [cmds EXCEPT ![m] = [Conf EXCEPT ![above + j] = Conf[j]]]
          /\ merging' = [merging EXCEPT !.i = @ + 1] /\ UNCHANGED config
        <3>1. Len(Conf) - merging.i = above + j /\ merging.own - merging.i = j
            BY <1>i, <2>1, <2>2
        <3> QED BY <1>3, <1>t, <1>m, <2>1, <3>1 DEF MergeShift, SetCommand, Types, Conf
    <2> HIDE DEF j
    <2>4. Conf[j] = own[j] /\ Conf[j] \in S
        <3>1. j <= Len(own) - merging.i /\ j \in 1..Len(Conf)
            BY <1>i, <2>1, <2>2 DEF j
        <3> QED BY <1>m, <2>1, <2>2, <3>1
    <2>5. /\ [Conf EXCEPT ![above + j] = Conf[j]] \in Seq(S)
          /\ Len([Conf EXCEPT ![above + j] = Conf[j]]) = Len(Conf)
          /\ [Conf EXCEPT ![above + j] = Conf[j]][above + j] = own[j]
          /\ \A k \in 1..Len(Conf) : k # above + j => [Conf EXCEPT ![above + j] = Conf[j]][k] = Conf[k]
        BY <1>m, <2>1, <2>2, <2>4
    <2>6. /\ cmds' \in [Level -> Seq(S)] /\ cmds'[m] = [Conf EXCEPT ![above + j] = Conf[j]]
          /\ \A l \in Level : l # m => cmds'[l] = cmds[l]
        BY <1>t, <1>m, <2>1, <2>3, <2>5 DEF Types
    <2>7. /\ merging' \in Merging /\ merging'.level = m /\ merging'.from = "shift"
          /\ merging'.i = merging.i + 1 /\ merging'.own = merging.own
        BY <1>t, <1>i, <2>1, <2>3, SMTT(30) DEF Types, Merging
    <2>8. Moved(c)'
        <3>1. Conf' = [Conf EXCEPT ![above + j] = Conf[j]] /\ Prev' = Prev
            BY <1>m, <2>1, <2>6, <2>7, LevelsAssumption DEF Conf, Prev
        <3>2. ASSUME NEW k \in 1..Len(own)
              PROVE  Conf'[IF k <= Len(own) - (merging.i + 1) THEN k ELSE above + k] = own[k]
            <4>1. CASE k < j
                <5>1. /\ k <= Len(own) - (merging.i + 1) /\ k <= Len(own) - merging.i
                      /\ k \in 1..Len(Conf) /\ k # above + j
                    BY <1>i, <2>1, <2>2, <4>1, SMTT(30) DEF j
                <5> QED BY <2>1, <2>5, <3>1, <5>1
            <4>2. CASE k = j
                <5>1. ~(k <= Len(own) - (merging.i + 1))
                    BY <1>i, <2>2, <4>2 DEF j
                <5> QED BY <2>5, <3>1, <4>2, <5>1
            <4>3. CASE k > j
                <5>1. ~(k <= Len(own) - (merging.i + 1)) /\ ~(k <= Len(own) - merging.i)
                    BY <1>i, <2>2, <4>3, SMTT(30) DEF j
                <5>2. above + k \in 1..Len(Conf) /\ above + k # above + j
                    <6>1. j \in Int /\ k \in Int /\ k > j
                        BY <2>2, <4>3
                    <6> QED BY ONLY <1>i, <2>1, <6>1, k \in 1..Len(own)
                <5> QED BY <2>1, <2>5, <3>1, <5>1, <5>2
            <4> QED BY <2>2, <4>1, <4>2, <4>3
        <3>3. merging.i + 1 <= Len(own)
            BY <1>i, <2>1, <2>2
        <3> QED BY <2>1, <2>5, <2>7, <3>1, <3>2, <3>3 DEF Moved
    <2> QED BY <2>1, <2>3, <2>6, <2>7, <2>8, LevelGoesOn
<1>4. CASE MergeShifted
    <2>1. /\ m <= Levels /\ merging.from = "shift" /\ merging.i = merging.own
          /\ merging.own = Len(own) /\ Len(Conf) = above + Len(own)
          /\ \A k \in 1..Len(own) :
                Conf[IF k <= Len(own) - merging.i THEN k ELSE above + k] = own[k]
          /\ UNCHANGED <<config, cmds>>
        BY <1>4, <1>t DEF MergeShifted, Merge, Moved
    <2>2. /\ merging' \in Merging /\ merging'.level = m /\ merging'.from = "copy"
          /\ merging'.i = 0 /\ merging'.own = merging.own
        BY <1>4, <1>t DEF MergeShifted, Types, Merging
    <2>3. \A k \in 1..Len(own) : Conf[above + k] = own[k]
        <3>1. \A k \in 1..Len(own) : ~(k <= Len(own) - merging.i)
            BY <1>i, <2>1
        <3> QED BY <2>1, <3>1
    <2>4. Conf' = Conf /\ Prev' = Prev /\ above \in Nat
        BY <1>m, <2>1, <2>2 DEF Conf, Prev
    <2>5. Moved(c)'
        BY <2>1, <2>2, <2>3, <2>4 DEF Moved
    <2> QED BY <1>t, <2>1, <2>2, <2>5, LevelGoesOn DEF Types
<1>5. CASE MergeCopy
    <2>1. /\ m <= Levels /\ merging.from = "copy" /\ merging.i < above
          /\ merging.own = Len(own) /\ Len(Conf) = above + Len(own)
          /\ \A k \in 1..Len(own) : Conf[above + k] = own[k]
          /\ \A k \in 1..merging.i : Conf[k] = Prev[k]
        BY <1>5, <1>t DEF MergeCopy, Merge, Moved
    <2> DEFINE j == 1 + merging.i
               copied == [Conf EXCEPT ![j] = Prev[j]]
    <2>2. above \in Nat /\ Len(own) \in Nat /\ j \in 1..above /\ j \in 1..Len(Conf) /\ Prev[j] \in S
        BY <1>m, <1>i, <2>1
    <2>3. /\ cmds' = [cmds EXCEPT ![m] = copied]
          /\ merging' = [merging EXCEPT !.i = @ + 1] /\ UNCHANGED config
        BY <1>5, <1>t, <1>m, <2>1 DEF MergeCopy, SetCommand, Types, Conf
    <2>4. /\ copied \in Seq(S) /\ Len(copied) = Len(Conf) /\ copied[j] = Prev[j]
          /\ \A k \in 1..Len(Conf) : k # j => copied[k] = Conf[k]
        BY <1>m, <2>1, <2>2
    <2> HIDE DEF copied
    <2>5. /\ cmds' \in [Level -> Seq(S)] /\ cmds'[m] = copied
          /\ \A l \in Level : l # m => cmds'[l] = cmds[l]
        BY <1>t, <1>m, <2>1, <2>3, <2>4 DEF Types
    <2>6. /\ merging' \in Merging /\ merging'.level = m /\ merging'.from = "copy"
          /\ merging'.i = j /\ merging'.own = merging.own
        <3>1. merging.i + 1 = j /\ j \in Nat
            BY <1>i
        <3> QED BY <1>t, <2>1, <2>3, <3>1 DEF Types, Merging
    <2>7. Moved(c)'
        <3>1. Conf' = copied /\ Prev' = Prev
            BY <1>m, <2>1, <2>5, <2>6, LevelsAssumption DEF Conf, Prev
        <3>2. \A k \in 1..Len(own) : copied[above + k] = own[k]
            <4>1. \A k \in 1..Len(own) : above + k \in 1..Len(Conf) /\ above + k # j
                BY <2>1, <2>2
            <4> QED BY <2>1, <2>4, <4>1
        <3>3. \A k \in 1..j : copied[k] = Prev[k]
            <4>1. \A k \in 1..j : k = j \/ (k \in 1..merging.i /\ k \in 1..Len(Conf) /\ k # j)
                BY <1>i, <2>1, <2>2
            <4> QED BY <2>1, <2>4, <4>1
        <3> QED BY <2>1, <2>2, <2>4, <2>6, <3>1, <3>2, <3>3 DEF Moved
    <2> QED BY <2>1, <2>3, <2>5, <2>6, <2>7, LevelGoesOn
<1>6. CASE MergeCopied
    <2>1. /\ m <= Levels /\ merging.from = "copy" /\ merging.i = above
          /\ Len(Conf) = above + Len(own) /\ UNCHANGED <<config, cmds>>
          /\ \A k \in 1..Len(own) : Conf[above + k] = own[k]
          /\ \A k \in 1..above : Conf[k] = Prev[k]
        BY <1>6, <1>t DEF MergeCopied, Merge, Moved
    <2>2. Conf = Prev \o own
        <3> DEFINE both == Prev \o own
        <3>0. /\ both \in Seq(S) /\ Len(both) = above + Len(own)
              /\ \A k \in 1..(above + Len(own)) :
                    both[k] = IF k <= above THEN Prev[k] ELSE own[k - above]
            BY <1>m, <2>1, ConcatProperties
        <3> HIDE DEF both
        <3>1. Len(both) = Len(Conf)
            BY <2>1, <3>0
        <3>2. ASSUME NEW k \in 1..Len(Conf) PROVE Conf[k] = both[k]
            <4>1. CASE k <= above
                <5>1. k \in 1..above /\ k \in 1..(above + Len(own))
                    BY <1>m, <2>1, <4>1
                <5> QED BY <1>m, <2>1, <3>0, <4>1, <5>1
            <4>2. CASE k > above
                <5>1. /\ k - above \in 1..Len(own) /\ above + (k - above) = k
                      /\ k \in 1..(above + Len(own)) /\ ~(k <= above)
                    BY <1>m, <2>1, <4>2
                <5>2. Conf[k] = own[k - above]
                    BY <2>1, <5>1
                <5> QED BY <3>0, <5>1, <5>2
            <4> QED BY <1>m, <4>1, <4>2
        <3>3. Conf = both
            BY <1>m, <2>1, <3>0, <3>1, <3>2, SeqEqual
        <3> QED BY <3>3 DEF both
    <2> QED BY <1>6, <1>t, <2>1, <2>2, NextLevelBegins DEF MergeCopied, Types, Conf
<1>7. CASE MergeDone
    <2>1. config' = "ready" /\ UNCHANGED <<cmds, merging>> /\ m > Levels
        BY <1>7 DEF MergeDone
    <2>2. Types(S)' /\ Done(c)'
        BY <1>t, <2>1 DEF Types, Done, Inherits
    <2>3. Moved(c)'
        BY <1>l, <2>1 DEF Moved
    <2> QED BY <2>2, <2>3 DEF MergeInv
<1>8. CASE UNCHANGED configVars
    BY <1>8 DEF configVars, MergeInv, Types, Done, Inherits, Moved, Conf, Prev
<1>9. ~(\/ BeginDirective \/ SkipArg \/ HeaderArg \/ ListOption \/ ReplaceOption
        \/ UnknownOption \/ EndDirective \/ EndLevel)
    <2>1. config # "parse"
        BY <1>t DEF Types
    <2> QED BY <2>1 DEF BeginDirective, SkipArg, HeaderArg, ListOption, ReplaceOption,
               UnknownOption, EndDirective, EndLevel, OnArg, Parsing
<1> QED BY <1>1, <1>2, <1>3, <1>4, <1>5, <1>6, <1>7, <1>8, <1>9 DEF ConfigNext

------------------------------------------------------------------------------
(* From the parser to the merge                                            *)

\* A new draft, in front of the first argument.
LEMMA BeginDirectiveStep ==
    ASSUME ConfigTypes, ParseInv, BeginDirective
    PROVE  (ConfigTypes /\ ParseInv)'
<1>1. /\ Len(cmds[draft.level]) < Len(directives[draft.level]) /\ draft.level \in Level
      /\ draft' = [NoDraft EXCEPT !.level = draft.level, !.arg = 1]
      /\ UNCHANGED <<directives, config, cmds, merging>>
    BY DEF BeginDirective, ConfigTypes, DraftType
<1>2. Directive \in DirectiveType
    BY <1>1, DirectiveHere
<1>3. PartlyMeant(Directive, [NoDraft EXCEPT !.level = draft.level, !.arg = 1])
    BY <1>1, <1>2, PartlyBegins
<1>4. draft' \in DraftType /\ draft'.level = draft.level
    <2>1. NoCommand \in CommandType
        BY DEF NoCommand, CommandType
    <2> QED BY <1>1, <2>1 DEF NoDraft, DraftType
<1>5. PartlyMeant(Directive, draft')
    BY <1>1, <1>3
<1> QED BY <1>1, <1>4, <1>5, DraftGoesOn

\* The command is appended to those of its level.
LEMMA EndDirectiveStep ==
    ASSUME ConfigTypes, ParseInv, EndDirective
    PROVE  (ConfigTypes /\ ParseInv)'
<1> DEFINE l == draft.level
           c == [draft.cmd EXCEPT
                    !.is_input = Directive.input,
                    !.headers = [j \in DOMAIN @ |-> [@[j] EXCEPT !.replace = draft.replace]]]
<1>1. /\ Len(cmds[l]) < Len(directives[l]) /\ PartlyMeant(Directive, draft)
      /\ l \in Level /\ draft \in DraftType /\ Directive \in DirectiveType
    <2>1. Len(cmds[l]) < Len(directives[l]) /\ PartlyMeant(Directive, draft)
        BY DEF ParseInv, EndDirective, Parsing
    <2>2. l \in Level /\ draft \in DraftType
        BY DEF ConfigTypes, DraftType
    <2> QED BY <2>1, <2>2, DirectiveHere
<1>2. c = Meant(Directive) /\ c \in CommandType
    BY <1>1, PartlyEnds DEF EndDirective
<1>3. /\ cmds' = [cmds EXCEPT ![l] = Append(@, c)]
      /\ draft' = [NoDraft EXCEPT !.level = l] /\ UNCHANGED <<directives, config, merging>>
    BY DEF EndDirective
<1> HIDE DEF c
<1>4. /\ cmds \in [Level -> Seq(CommandType)] /\ cmds[l] \in Seq(CommandType)
      /\ Len(cmds[l]) \in Nat /\ Len(directives[l]) \in Nat
    <2>1. cmds \in [Level -> Seq(CommandType)] /\ cmds[l] \in Seq(CommandType)
        BY <1>1 DEF ConfigTypes
    <2>2. directives[l] \in Seq([input : BOOLEAN, clear : BOOLEAN, args : Seq(Argument) \ {<<>>}])
        BY <1>1 DEF ConfigTypes, Configuration, Level
    <2> QED BY <2>1, <2>2, LenProperties
<1> DEFINE new == Append(cmds[l], c)
<1>5. /\ new \in Seq(CommandType) /\ Len(new) = Len(cmds[l]) + 1 /\ new[Len(cmds[l]) + 1] = c
      /\ \A k \in 1..Len(cmds[l]) : new[k] = cmds[l][k]
    BY <1>2, <1>4
<1> HIDE DEF new
<1>6. /\ cmds' \in [Level -> Seq(CommandType)] /\ cmds'[l] = new
      /\ \A k \in Level : k # l => cmds'[k] = cmds[k]
    BY <1>1, <1>3, <1>4, <1>5 DEF new
<1>7. draft' \in DraftType /\ draft'.level = l /\ draft'.arg = 0
    <2>1. NoCommand \in CommandType
        BY DEF NoCommand, CommandType
    <2> QED BY <1>1, <1>3, <2>1 DEF NoDraft, DraftType
<1>8. ConfigTypes'
    BY <1>3, <1>6, <1>7 DEF ConfigTypes
<1>9. ASSUME NEW k \in Level
      PROVE  /\ Len(cmds'[k]) <= Len(directives[k])
             /\ \A j \in 1..Len(cmds'[k]) : cmds'[k][j] = Meant(directives[k][j])
             /\ k < l => Len(cmds'[k]) = Len(directives[k])
    <2>1. CASE k = l
        <3>1. Len(new) <= Len(directives[l]) /\ ~(l < l)
            <4>1. l \in Nat
                BY <1>1, LevelsAssumption DEF Level
            <4> QED BY <1>1, <1>4, <1>5, <4>1
        <3>2. ASSUME NEW j \in 1..Len(new) PROVE new[j] = Meant(directives[l][j])
            <4>1. CASE j \in 1..Len(cmds[l])
                BY <1>1, <1>5, <4>1 DEF ParseInv
            <4>2. CASE j = Len(cmds[l]) + 1
                BY <1>2, <1>5, <4>2 DEF Directive
            <4> QED BY <1>4, <1>5, <4>1, <4>2
        <3> QED BY <1>6, <2>1, <3>1, <3>2
    <2>2. CASE k # l
        BY <1>6, <2>2 DEF ParseInv
    <2> QED BY <2>1, <2>2
<1>10. ParseInv'
    BY <1>3, <1>7, <1>9 DEF ParseInv
<1> QED BY <1>8, <1>10

\* A level that is read has the commands that are meant.
LEMMA MeantLevel ==
    ASSUME ConfigTypes, ParseInv, NEW l \in Level, Len(cmds[l]) = Len(directives[l])
    PROVE  cmds[l] = MeantOf(l)
<1>1. cmds[l] \in Seq(CommandType)
    BY DEF ConfigTypes
<1>2. directives[l] \in Seq([input : BOOLEAN, clear : BOOLEAN, args : Seq(Argument) \ {<<>>}])
    BY DEF ConfigTypes, Configuration, Level
<1>3. DOMAIN directives[l] = 1..Len(directives[l])
    BY <1>2, LenProperties
<1>4. cmds[l] = [k \in 1..Len(cmds[l]) |-> cmds[l][k]]
    BY <1>1, LenProperties
<1>5. \A k \in 1..Len(cmds[l]) : cmds[l][k] = Meant(directives[l][k])
    BY DEF ParseInv
<1> QED BY <1>3, <1>4, <1>5 DEF MeantOf

AsWritten == [l \in Level |-> MeantOf(l)]

\* The next level, or, with the last one, the merge of what is written.
LEMMA EndLevelStep ==
    ASSUME ConfigTypes, ParseInv, EndLevel
    PROVE  /\ ConfigTypes'
           /\ config' = "parse" => ParseInv'
           /\ config' = "merge" => merging' = NoMerge /\ cmds' = AsWritten
<1> DEFINE l == draft.level
<1>1. /\ l \in Level /\ draft \in DraftType /\ Len(cmds[l]) = Len(directives[l])
      /\ UNCHANGED <<directives, cmds, merging>> /\ l \in Nat /\ Levels \in Nat /\ l <= Levels
    <2>1. l \in Level /\ draft \in DraftType
        BY DEF ConfigTypes, DraftType
    <2> QED BY <2>1, LevelsAssumption DEF EndLevel, Level
<1>2. CASE l < Levels
    <2>1. draft' = [draft EXCEPT !.level = @ + 1] /\ config' = config /\ draft.arg = 0
          /\ config = "parse"
        BY <1>2 DEF EndLevel
    <2>2. l + 1 \in Level
        BY <1>1, <1>2 DEF Level
    <2>3. draft' \in DraftType /\ draft'.level = l + 1 /\ draft'.arg = 0
        BY <1>1, <2>1, <2>2 DEF DraftType
    <2>4. ConfigTypes'
        BY <1>1, <2>1, <2>3 DEF ConfigTypes
    <2>5. \A k \in Level : k < l + 1 => k < l \/ k = l
        BY <1>1 DEF Level
    <2>6. ParseInv'
        BY <1>1, <2>3, <2>5 DEF ParseInv
    <2> QED BY <2>1, <2>4, <2>6
<1>3. CASE ~(l < Levels)
    <2>1. config' = "merge" /\ draft' = draft
        BY <1>3 DEF EndLevel
    <2>2. ConfigTypes'
        BY <1>1, <2>1 DEF ConfigTypes
    <2>3. \A k \in Level : k < l \/ k = l
        BY <1>1, <1>3 DEF Level
    <2>4. \A k \in Level : Len(cmds[k]) = Len(directives[k])
        BY <1>1, <2>3 DEF ParseInv
    <2>5. \A k \in Level : cmds[k] = MeantOf(k)
        BY <2>4, MeantLevel
    <2>6. cmds = [k \in Level |-> cmds[k]]
        BY DEF ConfigTypes
    <2>7. cmds = AsWritten
        BY <2>5, <2>6 DEF AsWritten
    <2> QED BY <1>1, <2>1, <2>2, <2>7 DEF ParseInv
<1> QED BY <1>2, <1>3

\* While the directives are parsed, ParseInv; then the merge works on what is
\* meant by them.
ConfigInv ==
    /\ ConfigTypes
    /\ config = "parse" => ParseInv
    /\ config \in {"merge", "ready"} =>
            AsWritten \in [Level -> Seq(CommandType)] /\ MergeInv(AsWritten, CommandType)

\* Nothing is read at first, and the parser is at the first level.
LEMMA ConfigStarts == Init => ConfigInv
<1> SUFFICES ASSUME Init PROVE ConfigInv
    OBVIOUS
<1>1. directives \in Configuration
    BY HeadersMoreAssumption DEF Init
<1>2. /\ config = "parse" /\ cmds = [l \in Level |-> <<>>] /\ draft = NoDraft
      /\ merging = NoMerge
    BY DEF Init, ConfigInit
<1>3. NoDraft \in DraftType /\ NoDraft.level = 1 /\ NoDraft.arg = 0
    <2>1. NoCommand \in CommandType
        BY DEF NoCommand, CommandType
    <2>2. 1 \in Level
        BY LevelsAssumption DEF Level
    <2> QED BY <2>1, <2>2 DEF NoDraft, DraftType
<1>4. cmds \in [Level -> Seq(CommandType)] /\ \A l \in Level : cmds[l] = <<>>
    BY <1>2
<1>5. ConfigTypes
    BY <1>1, <1>2, <1>3, <1>4 DEF ConfigTypes
<1>6. ASSUME NEW l \in Level
      PROVE  /\ Len(cmds[l]) <= Len(directives[l])
             /\ \A k \in 1..Len(cmds[l]) : cmds[l][k] = Meant(directives[l][k])
             /\ ~(l < 1)
    <2>1. directives[l] \in Seq([input : BOOLEAN, clear : BOOLEAN, args : Seq(Argument) \ {<<>>}])
        BY <1>1 DEF Configuration, Level
    <2>2. Len(directives[l]) \in Nat /\ Len(cmds[l]) = 0
        BY <1>4, <2>1, LenProperties
    <2>3. ~(l < 1)
        BY LevelsAssumption DEF Level
    <2> QED BY <2>2, <2>3
<1>7. ParseInv
    BY <1>2, <1>3, <1>6 DEF ParseInv
<1> QED BY <1>2, <1>5, <1>7 DEF ConfigInv

\* A step of the parser.
LEMMA ParseSteps ==
    ASSUME ConfigTypes, ParseInv, config = "parse", ConfigNext
    PROVE  ConfigInv'
<1>1. ASSUME (ConfigTypes /\ ParseInv)', config' = "parse" PROVE ConfigInv'
    BY <1>1 DEF ConfigInv
<1>2. ASSUME Refuse PROVE ConfigInv'
    BY <1>2, RefusedTypes DEF ConfigInv
<1>3. CASE BeginDirective
    BY <1>1, <1>3, BeginDirectiveStep DEF BeginDirective
<1>4. CASE SkipArg
    BY <1>1, <1>4, SkipStep DEF SkipArg, Draft
<1>5. CASE HeaderArg
    <2>1. Refuse \/ config' = "parse"
        BY <1>5 DEF HeaderArg, Draft
    <2> QED BY <1>1, <1>2, <1>5, <2>1, HeaderArgStep
<1>6. CASE ListOption
    <2>1. Refuse \/ config' = "parse"
        BY <1>6 DEF ListOption, Draft
    <2> QED BY <1>1, <1>2, <1>6, <2>1, ListOptionStep
<1>7. CASE ReplaceOption
    BY <1>1, <1>7, ReplaceOptionStep DEF ReplaceOption, Draft
<1>8. CASE UnknownOption
    BY <1>2, <1>8 DEF UnknownOption
<1>9. CASE EndDirective
    BY <1>1, <1>9, EndDirectiveStep DEF EndDirective
<1>10. CASE EndLevel
    <2>1. config' \in {"parse", "merge"}
        BY <1>10 DEF EndLevel
    <2>2. /\ ConfigTypes' /\ (config' = "parse" => ParseInv')
          /\ config' = "merge" => merging' = NoMerge /\ cmds' = AsWritten
        BY <1>10, EndLevelStep
    <2>3. AsWritten' = AsWritten
        BY <1>10 DEF EndLevel, AsWritten, MeantOf
    <2>4. ASSUME config' = "merge"
          PROVE  AsWritten' \in [Level -> Seq(CommandType)] /\ MergeInv(AsWritten, CommandType)'
        <3>1. PICK c : c = AsWritten
            OBVIOUS
        <3>2. cmds' = c /\ merging' = NoMerge /\ c \in [Level -> Seq(CommandType)]
            BY <2>2, <2>4, <3>1 DEF ConfigTypes
        <3>3. MergeInv(c, CommandType)'
            BY <2>4, <3>2, MergeStarts
        <3> QED BY <2>3, <3>1, <3>2, <3>3
    <2> QED BY <2>1, <2>2, <2>4 DEF ConfigInv
<1>11. ~(\/ MergeOne \/ MergeGrow \/ MergeShift \/ MergeShifted
         \/ MergeCopy \/ MergeCopied \/ MergeDone)
    BY DEF MergeOne, MergeGrow, MergeShift, MergeShifted, MergeCopy, MergeCopied, MergeDone, Merge
<1> QED BY <1>3, <1>4, <1>5, <1>6, <1>7, <1>8, <1>9, <1>10, <1>11 DEF ConfigNext

\* A step of the merge.
LEMMA MergeSteps ==
    ASSUME ConfigInv, config \in {"merge", "ready"}, ConfigNext
    PROVE  ConfigInv'
<1>1. UNCHANGED <<directives, draft>>
    <2>1. ~(\/ BeginDirective \/ SkipArg \/ HeaderArg \/ ListOption \/ ReplaceOption
            \/ UnknownOption \/ EndDirective \/ EndLevel)
        BY DEF BeginDirective, SkipArg, HeaderArg, ListOption, ReplaceOption,
               UnknownOption, EndDirective, EndLevel, OnArg, Parsing
    <2> QED BY <2>1 DEF ConfigNext, MergeOne, MergeGrow, MergeShift, MergeShifted,
               MergeCopy, MergeCopied, MergeDone
<1>2. AsWritten' = AsWritten
    BY <1>1 DEF AsWritten, MeantOf
<1>3. PICK c : c = AsWritten
    OBVIOUS
<1>4. MergeInv(c, CommandType)' /\ c \in [Level -> Seq(CommandType)]
    <2>1. NoCommand \in CommandType
        BY DEF NoCommand, CommandType
    <2>2. c \in [Level -> Seq(CommandType)] /\ MergeInv(c, CommandType)
        BY <1>3 DEF ConfigInv
    <2>3. [ConfigNext]_configVars
        OBVIOUS
    <2> QED BY <2>1, <2>2, <2>3, MergeStep
<1>5. ConfigTypes' /\ config' \in {"merge", "ready"}
    BY <1>1, <1>4 DEF MergeInv, Types, ConfigInv, ConfigTypes
<1> QED BY <1>2, <1>3, <1>4, <1>5 DEF ConfigInv

\* No step of the request touches the configuration.
LEMMA ConfigKept == ConfigInv /\ [Next]_vars => ConfigInv'
<1> SUFFICES ASSUME ConfigInv, [Next]_vars PROVE ConfigInv'
    OBVIOUS
<1>1. CASE ConfigNext
    <2>1. CASE config = "parse"
        BY <1>1, <2>1, ParseSteps DEF ConfigInv
    <2>2. CASE config \in {"merge", "ready"}
        BY <1>1, <2>2, MergeSteps
    <2>3. CASE config = "refused"
        BY <1>1, <2>3 DEF ConfigNext, BeginDirective, SkipArg, HeaderArg, ListOption,
           ReplaceOption, UnknownOption, EndDirective, EndLevel, OnArg, Parsing, MergeOne,
           MergeGrow, MergeShift, MergeShifted, MergeCopy, MergeCopied, MergeDone, Merge
    <2> QED BY <2>1, <2>2, <2>3 DEF ConfigInv, ConfigTypes
<1>2. CASE UNCHANGED configVars
    <2>1. UNCHANGED <<directives, config, cmds, draft, merging>>
        BY <1>2 DEF configVars
    <2>2. AsWritten' = AsWritten /\ Directive' = Directive
        BY <2>1 DEF AsWritten, MeantOf, Directive
    <2>3. ConfigTypes' = ConfigTypes
        BY <2>1 DEF ConfigTypes
    <2>4. ParseInv' = ParseInv
        BY <2>1, <2>2 DEF ParseInv
    <2>5. PICK c : c = AsWritten
        OBVIOUS
    <2>6. MergeInv(c, CommandType) => MergeInv(c, CommandType)'
        BY <2>1 DEF MergeInv, Types, Done, Inherits, Moved, Conf, Prev
    <2> QED BY <2>1, <2>2, <2>3, <2>4, <2>5, <2>6 DEF ConfigInv
<1> QED BY <1>1, <1>2 DEF Next, vars, Configure, BeginCommand, EndCommand, EnterRewrite,
       Answer, BeginHeader, RunHeader, ExecOutput, FailHeader, EndRewrite, Redirect, Send

\* What the levels have inherited one by one is all of it in a row.
LEMMA InheritedInARow ==
    ASSUME NEW S, NEW c \in [Level -> Seq(S)], Inherited(c)
    PROVE  cmds[Levels] = FlattenSeq(c)
<1>1. c \in Seq(Seq(S)) /\ Len(c) = Levels /\ Levels \in Nat /\ Levels > 0
      /\ 1 \in 1..Levels /\ Levels \in 1..Levels
    BY LevelsAssumption DEF Level
<1>2. PICK f \in [1..Levels -> Seq(S)] :
          /\ f[1] = c[1]
          /\ \A i \in 2..Levels : f[i] = f[i - 1] \o c[i]
          /\ FlattenSeq(c) = f[Levels]
    BY <1>1, FlattenSteps
<1> DEFINE T == {i \in 1..Levels : f[i] = cmds[i]}
<1>3. 1 \in T
    BY <1>1, <1>2 DEF Inherited
<1>4. ASSUME NEW m \in 1..Levels, m < Levels, m \in T PROVE m + 1 \in T
    <2>1. m + 1 \in 2..Levels /\ m + 1 \in 1..Levels /\ (m + 1) - 1 = m
        BY <1>1, <1>4
    <2>2. f[m + 1] = f[m] \o c[m + 1] /\ cmds[m + 1] = cmds[m] \o c[m + 1]
        BY <1>2, <2>1 DEF Inherited, Inherits
    <2> QED BY <1>4, <2>1, <2>2
<1>5. Levels \in T
    <2> HIDE DEF T
    <2> QED BY <1>1, <1>3, <1>4, Induction
<1> QED BY <1>2, <1>5

\* When the configuration is ready the location has all commands.
LEMMA CommandsFollow == ConfigInv => CommandsAsWritten
<1> SUFFICES ASSUME ConfigInv, config = "ready"
             PROVE  cmds[Levels] = FlattenSeq(AsWritten)
    BY DEF CommandsAsWritten, AsWritten
<1>1. PICK c : c = AsWritten
    OBVIOUS
<1>2. c \in [Level -> Seq(CommandType)] /\ MergeInv(c, CommandType)
    BY <1>1 DEF ConfigInv
<1>3. Inherited(c)
    <2>1. merging.level \in 2..(Levels + 1) /\ merging.level > Levels
        BY <1>2 DEF MergeInv, Types, Merging
    <2>2. \A l \in 2..Levels : l < merging.level
        BY <2>1, LevelRange
    <2> QED BY <1>2, <2>2 DEF MergeInv, Done, Inherited
<1>4. cmds[Levels] = FlattenSeq(c)
    BY <1>2, <1>3, InheritedInARow
<1> QED BY <1>1, <1>4

\* However its arguments are ordered, a directive becomes the command it
\* describes, and when the configuration is ready a location has those of every
\* level around it, outermost first, each once and in the order written: the
\* merge, which moves commands up and copies others into the room they leave,
\* inside one array, loses and doubles none.
THEOREM CommandsAreWritten == Spec => []CommandsAsWritten
BY CommandsFollow, ConfigStarts, ConfigKept, PTL DEF Spec

------------------------------------------------------------------------------
(* The headers of input commands                                          *)

\* The types of the place the request is at.
PlaceInv == site \in Site /\ n \in Nat \ {0} /\ header \in Nat

\* A header of an input command that is executed is one of the configuration.
LEMMA CurrentType ==
    ASSUME ConfigTypes, PlaceInv, Running, header <= Len(Command.headers)
    PROVE  Current \in Edit
<1>1. Commands \in Seq(CommandType)
    <2>1. Levels \in Level
        BY LevelsAssumption DEF Level
    <2> QED BY <2>1 DEF Commands, ConfigTypes
<1>2. Len(Commands) \in Nat /\ n \in 1..Len(Commands)
    <2>1. Len(Commands) \in Nat
        BY <1>1, LenProperties
    <2> QED BY <2>1 DEF Running, PlaceInv
<1>3. Command \in CommandType
    BY <1>1, <1>2, ElementOfSeq DEF Command
<1>4. Command.headers \in Seq(Edit)
    BY <1>3 DEF CommandType
<1>5. Len(Command.headers) \in Nat /\ header \in 1..Len(Command.headers)
    <2>1. Len(Command.headers) \in Nat
        BY <1>4, LenProperties
    <2> QED BY <2>1 DEF Running, PlaceInv
<1> QED BY <1>4, <1>5, ElementOfSeq DEF Current

\* What a step of the module is to the header of the request.
LEMMA StepOfTheList ==
    ASSUME ConfigTypes, PlaceInv, [Next]_vars
    PROVE  \/ \E e \in Edit : BeginEdit(e)
           \/ EditStep
           \/ phase = "read" /\ \E lines \in Seq(Line) : Receive(lines)
           \/ UNCHANGED inVars
<1>1. CASE BeginHeader
    BY <1>1, CurrentType DEF BeginHeader
<1>2. CASE RunHeader
    BY <1>2 DEF RunHeader
<1>3. CASE \E lines \in Requests[site] : EnterRewrite(lines)
    <2>1. PICK lines \in Requests[site] : EnterRewrite(lines)
        BY <1>3
    <2>2. lines \in Seq(Line)
        BY HeadersMoreAssumption DEF PlaceInv
    <2> QED BY <2>1, <2>2 DEF EnterRewrite
<1>4. CASE \/ Configure \/ BeginCommand \/ EndCommand \/ ExecOutput \/ FailHeader
           \/ EndRewrite \/ Redirect \/ Send \/ UNCHANGED vars
           \/ \E answer \in Responses[site] : Answer(answer)
    BY <1>4 DEF Configure, BeginCommand, EndCommand, ExecOutput, FailHeader, EndRewrite,
       Redirect, Send, Answer, vars
<1> QED BY <1>1, <1>2, <1>3, <1>4 DEF Next

\* The counters of the phase.
LEMMA PlaceStep == PlaceInv /\ [Next]_vars => PlaceInv'
<1> SUFFICES ASSUME PlaceInv, [Next]_vars PROVE PlaceInv'
    OBVIOUS
<1>1. \/ site' = site /\ n' = 1 /\ header' = 0
      \/ site' = site /\ n' = n + 1 /\ header' = 0
      \/ site' = site /\ n' = n /\ header' = header + 1
      \/ site' = site /\ n' = n /\ header' = header
    <2>1. CASE \E where, type : GoTo(where, type)
        BY <2>1 DEF GoTo
    <2>2. CASE NextCommand \/ NextHeader
        BY <2>2 DEF NextCommand, NextHeader
    <2>3. CASE UNCHANGED atVars \/ FailHeader
        BY <2>3 DEF atVars, FailHeader
    <2>4. \/ \E where, type : GoTo(where, type)
          \/ NextCommand \/ NextHeader \/ UNCHANGED atVars \/ FailHeader
        <3>1. CASE \/ \E lines \in Requests[site] : EnterRewrite(lines)
                   \/ \E answer \in Responses[site] : Answer(answer)
                   \/ EndRewrite \/ Redirect \/ Send
            BY <3>1, Zenon DEF EnterRewrite, Answer, EndRewrite, Redirect, Send
        <3>2. CASE BeginCommand \/ EndCommand \/ RunHeader \/ ExecOutput
            BY <3>2 DEF BeginCommand, EndCommand, RunHeader, ExecOutput
        <3>3. CASE Configure \/ BeginHeader \/ FailHeader \/ UNCHANGED vars
            BY <3>3 DEF Configure, BeginHeader, vars
        <3> QED BY <3>1, <3>2, <3>3 DEF Next
    <2> QED BY <2>1, <2>2, <2>3, <2>4
<1> QED BY <1>1 DEF PlaceInv

\* Every step keeps the list.
LEMMA RoomStep == RoomInv /\ ConfigTypes /\ PlaceInv /\ [Next]_vars => RoomInv'
<1> SUFFICES ASSUME RoomInv, ConfigTypes, PlaceInv, [Next]_vars PROVE RoomInv'
    OBVIOUS
<1>1. CASE (\E e \in Edit : BeginEdit(e)) \/ EditStep \/ UNCHANGED inVars
    BY <1>1, EditKeepsRoom
<1>2. CASE \E lines \in Seq(Line) : Receive(lines)
    BY <1>2, ReceiveMakesRoom
<1> QED BY <1>1, <1>2, StepOfTheList

\* The empty list of no request.
LEMMA RoomStarts == Init => RoomInv /\ PlaceInv
<1> SUFFICES ASSUME Init PROVE RoomInv /\ PlaceInv
    OBVIOUS
<1> DEFINE part == [cells |-> <<>>, room |-> ListSize]
<1>1. /\ cell = <<>> /\ edit = NoEdit /\ nalloc = ListSize /\ parts = <<part>>
      /\ ListSize \in Nat /\ ListSize > 0
    <2>1. ListSize \in Nat /\ ListSize > 0
        BY HeadersInAssumption
    <2> QED BY <2>1, Zenon DEF Init, InInit
<1>2. part \in Part /\ Len(part.cells) = 0 /\ part.room = ListSize
    BY <1>1 DEF Part
<1> HIDE DEF part
<1>3. parts \in Seq(Part) /\ Len(parts) = 1 /\ \A p \in 1..Len(parts) : parts[p] = part
    BY <1>1, <1>2
<1>4. ListOK(parts, nalloc)
    BY <1>1, <1>2, <1>3 DEF ListOK
<1>5. Distinct(parts, Len(cell))
    <2>1. \A p \in 1..Len(parts) : 1..Len(parts[p].cells) = {}
        BY <1>2, <1>3
    <2> QED BY <2>1 DEF Distinct
<1>6. cell \in Seq(Line)
    BY <1>1
<1>7. PlaceInv
    <2>1. site \in Site /\ n = 1 /\ header = 0
        BY Zenon DEF Init
    <2> QED BY <2>1 DEF PlaceInv
<1> QED BY <1>1, <1>4, <1>5, <1>6, <1>7 DEF RoomInv, CellInv

\* A new line is written inside the room of the last part and over no element
\* of the list, and no element is in two places, however the request is read and
\* whatever headers the commands of its location set and clear: neither removals
\* at both ends of a part, nor splits, nor the removal of whole parts leave
\* nalloc above the room, or at 0, which ngx_list_push would make a part
\* without room from.  All this as long as no removal has failed.
THEOREM RoomIsKept == Spec => []RoomKept
<1> DEFINE Inv == RoomInv /\ ConfigInv /\ PlaceInv
<1>1. Init => Inv
    BY RoomStarts, ConfigStarts
<1>2. Inv /\ [Next]_vars => Inv'
    BY RoomStep, ConfigKept, PlaceStep DEF ConfigInv
<1>3. Inv => RoomKept
    BY ListedOnce DEF RoomInv, ListOK, PushInRoom, Last, RoomKept
<1> QED BY <1>1, <1>2, <1>3, PTL DEF Spec

------------------------------------------------------------------------------
(* Every step: the place of the request, and the headers of its commands   *)

\* No request runs before the configuration is ready, and a header is executed in
\* the rewrite phase, in a command of its location; or the request has failed.
PlaceOfEdit ==
    /\ config # "ready" => phase = "read"
    /\ edit # NoEdit => phase = "failed" \/ (phase = "rewrite" /\ Running)

\* A step keeps it: the commands change, and the phase ends, between two headers.
LEMMA PlaceOfEditStep ==
    ASSUME PlaceOfEdit, ConfigTypes, PlaceInv, [Next]_vars
    PROVE  PlaceOfEdit'
<1>0. n \in Nat /\ Len(Commands) \in Nat
    <2>1. Levels \in Level
        BY LevelsAssumption DEF Level
    <2>2. Commands \in Seq(CommandType)
        BY <2>1 DEF ConfigTypes, Commands
    <2> QED BY <2>2, LenProperties DEF PlaceInv
<1>1. CASE Configure
    <2>1. config # "ready"
        BY <1>1 DEF Configure, ConfigNext, BeginDirective, SkipArg, HeaderArg, ListOption,
           ReplaceOption, UnknownOption, EndDirective, EndLevel, MergeOne, MergeGrow, MergeShift,
           MergeShifted, MergeCopy, MergeCopied, MergeDone, Parsing, OnArg, Merge
    <2>2. phase = "read" /\ edit = NoEdit
        BY <2>1 DEF PlaceOfEdit
    <2>3. phase' = "read" /\ edit' = NoEdit
        BY <1>1, <2>2 DEF Configure, atVars, inVars
    <2> QED BY <2>3 DEF PlaceOfEdit
<1>2. CASE BeginCommand \/ EndCommand \/ EndRewrite \/ Send
           \/ \E answer \in Responses[site] : Answer(answer)
    <2>1. edit' = edit /\ config' = config /\ phase # "read" /\ phase # "failed"
        BY <1>2 DEF BeginCommand, EndCommand, EndRewrite, Send, Answer, inVars, configVars
    <2>r. phase = "rewrite" => edit = NoEdit
        <3>1. CASE BeginCommand
            BY <3>1 DEF BeginCommand, PlaceOfEdit, Running
        <3>2. CASE EndCommand
            BY <3>2 DEF EndCommand
        <3>3. CASE EndRewrite
            <4>1. n > Len(Commands) /\ phase # "failed"
                BY <3>3 DEF EndRewrite
            <4> DEFINE len == Len(Commands)
            <4> HIDE DEF len
            <4>2. n \in Nat /\ len \in Nat /\ n > len
                BY <1>0, <4>1 DEF len
            <4>3. ~(n <= len)
                BY ONLY <4>2
            <4>4. ~Running
                BY <4>3 DEF Running, len
            <4> QED BY <4>1, <4>4 DEF PlaceOfEdit
        <3>4. CASE Send \/ \E answer \in Responses[site] : Answer(answer)
            BY <3>4 DEF Send, Answer
        <3> QED BY <1>2, <3>1, <3>2, <3>3, <3>4
    <2>2. edit = NoEdit /\ config = "ready"
        BY <2>1, <2>r DEF PlaceOfEdit
    <2> QED BY <2>1, <2>2 DEF PlaceOfEdit
<1>3. CASE ExecOutput \/ Redirect
    <2>1. edit' = edit /\ config' = config /\ phase \in {"filter", "content"}
        BY <1>3 DEF ExecOutput, Redirect, inVars, configVars
    <2>2. edit = NoEdit /\ config = "ready"
        BY <2>1 DEF PlaceOfEdit
    <2> QED BY <2>1, <2>2 DEF PlaceOfEdit
<1>4. CASE \E lines \in Requests[site] : EnterRewrite(lines)
    <2>1. edit' = edit /\ config' = "ready" /\ phase = "read"
        BY <1>4 DEF EnterRewrite, Receive, configVars
    <2>2. edit = NoEdit
        BY <2>1 DEF PlaceOfEdit
    <2> QED BY <2>1, <2>2 DEF PlaceOfEdit
<1>5. CASE BeginHeader
    <2>1. phase = "rewrite" /\ Running /\ UNCHANGED <<configVars, atVars>>
        BY <1>5 DEF BeginHeader
    <2>2. phase' = "rewrite" /\ Running' /\ config' = config
        BY <2>1 DEF atVars, configVars, Running, Commands
    <2> QED BY <2>1, <2>2 DEF PlaceOfEdit
<1>6. CASE RunHeader
    <2>1. /\ phase = "rewrite" /\ UNCHANGED configVars
          /\ IF edit' = NoEdit THEN NextHeader ELSE UNCHANGED atVars
        BY <1>6 DEF RunHeader
    <2>2. config' = config /\ config = "ready"
        BY <2>1 DEF configVars, PlaceOfEdit
    <2>3. CASE edit' = NoEdit
        BY <2>2, <2>3 DEF PlaceOfEdit
    <2>4. CASE edit' # NoEdit
        <3>1. edit # NoEdit
            BY <1>6 DEF RunHeader, EditStep, SetThroughSlot, RemoveMatch, ReplaceMatch,
               NothingToDo, PushLine, Pushes, InHelper, Sets
        <3>2. phase' = "rewrite" /\ Running'
            BY <2>1, <2>4, <3>1 DEF atVars, configVars, Running, Commands, PlaceOfEdit
        <3> QED BY <2>2, <3>2 DEF PlaceOfEdit
    <2> QED BY <2>3, <2>4
<1>7. CASE FailHeader
    <2>1. config' = config /\ phase' = "failed" /\ phase # "read"
        BY <1>7 DEF FailHeader, configVars
    <2> QED BY <2>1 DEF PlaceOfEdit
<1>8. CASE UNCHANGED vars
    <2>1. UNCHANGED <<config, phase, edit>> /\ Running' = Running
        BY <1>8 DEF vars, configVars, inVars, atVars, Running, Commands
    <2> QED BY <2>1 DEF PlaceOfEdit
<1> QED BY <1>1, <1>2, <1>3, <1>4, <1>5, <1>6, <1>7, <1>8 DEF Next

\* The pointers and fields of no request.
LEMMA EditStarts == Init => EditInv /\ PlaceOfEdit
<1> SUFFICES ASSUME Init PROVE EditInv /\ PlaceOfEdit
    OBVIOUS
<1>1. /\ cell = <<>> /\ slot = [b \in Builtin |-> 0] /\ server = "" /\ content_length_n = -1
      /\ edit = NoEdit /\ phase = "read"
    BY Zenon DEF Init, InInit
<1>2. Sound
    <2>1. RoomInv /\ spoiled = FALSE
        <3>1. spoiled = FALSE
            BY Zenon DEF Init, InInit
        <3> QED BY <3>1, RoomStarts
    <2> QED BY <2>1 DEF RoomInv, CellInv, Sound
<1>3. \A k : HeadCell(k) = 0
    <2> TAKE k
    <2> SUFFICES ASSUME HeadCell(k) # 0 PROVE FALSE
        OBVIOUS
    <2>1. PICK a, x, b : Found(k, a, x, b)
        BY <1>2, HeadExists
    <2>2. x \in 1..Len(cell)
        BY <2>1 DEF Found, Cells
    <2>3. Len(cell) = 0
        BY <1>1
    <2> QED BY <2>2, <2>3
<1>4. \A k : HeadValue(k) = ""
    BY <1>3 DEF HeadValue
<1>5. ~Clears /\ ~Sets /\ \A k : ~Editing(k)
    BY <1>1 DEF Clears, Sets, Editing
<1>6. SlotInv
    BY <1>1, <1>3 DEF SlotInv
<1>7. WasInv /\ HostInv
    BY <1>4, <1>5 DEF WasInv, HostInv
<1>8. LengthInv
    BY <1>1, <1>4, <1>5 DEF LengthInv, NumberOf
<1> QED BY <1>1, <1>6, <1>7, <1>8 DEF EditInv, Followed, PlaceOfEdit

\* Every step keeps the pointers and fields, and a header that ends has done
\* what it means.
LEMMA EditKept ==
    ASSUME RoomInv, ConfigTypes, PlaceInv, PlaceOfEdit, EditInv, [Next]_vars, ~spoiled'
    PROVE  Followed' /\ EndsAsMeant
<1>1. ~spoiled
    <2>1. CASE RemoveMatch
        BY <2>1 DEF RemoveMatch
    <2>2. CASE ~RemoveMatch
        <3>1. spoiled' = spoiled
            BY <2>2, StepOfTheList DEF BeginEdit, EditStep, SetThroughSlot, ReplaceMatch,
               NothingToDo, PushLine, Receive, inVars
        <3> QED BY <3>1
    <2> QED BY <2>1, <2>2
<1>2. Sound /\ Followed
    BY <1>1 DEF RoomInv, CellInv, Sound, EditInv
<1>3. edit # NoEdit => edit \in Edit /\ IsValue(edit.value)
    <2>1. edit # NoEdit => edit \in Edit
        BY DEF RoomInv, CellInv
    <2> QED BY <2>1, EditNamed
<1>4. CASE \E e \in Edit : BeginEdit(e)
    <2>1. PICK e \in Edit : BeginEdit(e)
        BY <1>4
    <2>2. edit = NoEdit
        BY <2>1 DEF BeginEdit
    <2> QED BY <1>2, <2>1, <2>2, BeginFollows DEF EndsAsMeant
<1>5. CASE SetThroughSlot
    <2>1. edit # NoEdit
        BY <1>5 DEF SetThroughSlot, Sets
    <2> QED BY <1>2, <1>3, <1>5, <2>1, SetThroughSlotFollows
<1>6. CASE RemoveMatch
    BY <1>2, <1>6, RemoveFollows
<1>7. CASE ReplaceMatch
    <2>1. edit # NoEdit
        BY <1>7 DEF ReplaceMatch, Sets
    <2> QED BY <1>2, <1>3, <1>7, <2>1, ReplaceMatchFollows
<1>8. CASE NothingToDo
    BY <1>2, <1>8, NothingFollows
<1>9. CASE PushLine
    <2>1. edit # NoEdit
        BY <1>9 DEF PushLine, Pushes, Sets
    <2> QED BY <1>2, <1>3, <1>9, <2>1, PushFollows
<1>10. CASE phase = "read" /\ \E lines \in Seq(Line) : Receive(lines)
    <2>1. PICK lines \in Seq(Line) : Receive(lines)
        BY <1>10
    <2>2. edit = NoEdit
        BY <1>10 DEF PlaceOfEdit
    <2> QED BY <1>2, <2>1, <2>2, ReceiveFollows DEF EndsAsMeant
<1>11. CASE UNCHANGED inVars
    <2>1. UNCHANGED <<cell, parts, slot, server, content_length_n, edit, was, imposed>>
        BY <1>11 DEF inVars, listVars
    <2>2. /\ \A k : HeadCell(k)' = HeadCell(k) /\ HeadValue(k)' = HeadValue(k)
          /\ Lines' = Lines
        BY <2>1, ListStays
    <2>3. (Sets' <=> Sets) /\ (Clears' <=> Clears) /\ \A k : Editing(k)' <=> Editing(k)
        BY <2>1 DEF Sets, Clears, Editing
    <2>4. SlotInv'
        BY <1>2, <2>1, <2>2, <2>3 DEF Followed, SlotInv
    <2>5. WasInv'
        BY <1>2, <2>1, <2>2, <2>3 DEF Followed, WasInv
    <2>6. HostInv'
        BY <1>2, <2>1, <2>2, <2>3 DEF Followed, HostInv
    <2>7. LengthInv'
        BY <1>2, <2>1, <2>2, <2>3 DEF Followed, LengthInv
    <2> QED BY <2>1, <2>4, <2>5, <2>6, <2>7 DEF Followed, EndsAsMeant
<1> QED BY <1>4, <1>5, <1>6, <1>7, <1>8, <1>9, <1>10, <1>11, StepOfTheList DEF EditStep

\* What the request's list, the configuration, the phase and the header being
\* executed are at every time.
RequestInv == RoomInv /\ ConfigInv /\ PlaceInv /\ PlaceOfEdit /\ EditInv

\* Before the configuration is read there is no request.
LEMMA RequestStarts == Init => RequestInv
BY RoomStarts, ConfigStarts, EditStarts DEF RequestInv

\* Every step keeps all of it.
LEMMA RequestKept == RequestInv /\ [Next]_vars => RequestInv'
<1> SUFFICES ASSUME RequestInv, [Next]_vars PROVE RequestInv'
    OBVIOUS
<1>1. RoomInv /\ ConfigTypes /\ ConfigInv /\ PlaceInv /\ PlaceOfEdit /\ EditInv
    BY DEF RequestInv, ConfigInv
<1>2. RoomInv' /\ ConfigInv' /\ PlaceInv'
    BY <1>1, RoomStep, ConfigKept, PlaceStep
<1>3. PlaceOfEdit'
    BY <1>1, PlaceOfEditStep
<1>4. EditInv'
    BY <1>1, EditKept DEF EditInv
<1> QED BY <1>2, <1>3, <1>4 DEF RequestInv

\* Between two headers the pointers and the fields are those of the list.
LEMMA SlotsFollow == RequestInv => SlotsTrue
<1> SUFFICES ASSUME RequestInv, edit = NoEdit, ~spoiled
             PROVE  /\ \A b \in Builtin :
                        LET i == FirstNamed(Lines, b)
                        IN  slot[b] = IF i = 0 THEN 0 ELSE Listed[i]
                    /\ server = FirstValue(Lines, "host") \/ FirstValue(Lines, "host") = ""
                    /\ LET length == FirstValue(Lines, "content-length")
                       IN  imposed \/ content_length_n
                                        = (IF length = "" THEN -1 ELSE Number[length])
    BY DEF SlotsTrue
<1>1. Sound /\ Followed
    BY DEF RequestInv, RoomInv, CellInv, Sound, EditInv
<1>2. cell \in Seq(Line) /\ Listed \in Seq(Cells(cell)) /\ Lines = LinesOf(cell, Listed)
    BY <1>1, ListedSound DEF Sound
<1>3. \A k : FirstValue(Lines, k) = HeadValue(k)
    <2> TAKE k
    <2>1. FirstValue(LinesOf(cell, Listed), k)
            = IF HeadOf(cell, Listed, k) = 0 THEN "" ELSE cell[HeadOf(cell, Listed, k)].value
        BY ONLY <1>2, HeadValueIs
    <2> QED BY <1>2, <2>1, Zenon DEF HeadValue, HeadCell
<1>4. ~Clears /\ \A k : ~Editing(k)
    BY DEF Clears, Editing
<1>5. \A b \in Builtin : slot[b] = HeadCell(b)
    BY <1>1, <1>4 DEF Followed, SlotInv
<1>6. \A b \in Builtin : LET i == FirstNamed(Lines, b)
                         IN  slot[b] = IF i = 0 THEN 0 ELSE Listed[i]
    BY <1>2, <1>5 DEF HeadCell, HeadOf
<1>7. server = FirstValue(Lines, "host") \/ FirstValue(Lines, "host") = ""
    BY <1>1, <1>3, <1>4 DEF Followed, HostInv
<1>8. imposed \/ content_length_n = NumberOf(FirstValue(Lines, "content-length"))
    BY <1>1, <1>3, <1>4 DEF Followed, LengthInv
<1> QED BY <1>6, <1>7, <1>8 DEF NumberOf

\* The pointers headers_in keeps are to the first lines of their names, and NULL
\* without one, and content_length_n and server follow those lines, after any
\* sequence of headers of the commands of any location that set, replace, add and
\* clear: a removal resets a pointer while other lines of its name are still
\* there, but none of them is left when the header ends.  All this as long as no
\* removal has failed.
THEOREM SlotsAreTrue == Spec => []SlotsTrue
BY SlotsFollow, RequestStarts, RequestKept, PTL DEF Spec

\* A header of an input command that ends has done to the request what it means:
\* a clear has removed every line of its name and no other, a set has changed the
\* first line or added one, whatever parts and holes earlier headers have left in
\* the list, as long as no removal has failed.
THEOREM InputIsEdited == Spec => InputEdited
<1> DEFINE AsMeant == edit # NoEdit /\ edit' = NoEdit /\ ~spoiled' => Lines' = Edited(was, edit)
<1>1. RequestInv /\ [Next]_vars => [AsMeant]_inVars
    <2> SUFFICES ASSUME RequestInv, [Next]_vars, edit # NoEdit, edit' = NoEdit, ~spoiled'
                 PROVE  Lines' = Edited(was, edit)
        OBVIOUS
    <2>1. RoomInv /\ ConfigTypes /\ PlaceInv /\ PlaceOfEdit /\ EditInv
        BY DEF RequestInv, ConfigInv
    <2>2. EndsAsMeant
        BY <2>1, EditKept
    <2> QED BY <2>2 DEF EndsAsMeant
<1>2. Spec => [][AsMeant]_inVars
    BY <1>1, RequestStarts, RequestKept, PTL DEF Spec
<1> QED BY <1>2 DEF InputEdited

------------------------------------------------------------------------------
(* What a header of an output command does to the response                 *)

\* What is picked of a sequence with one more element.
LEMMA PickAppend ==
    ASSUME NEW S, NEW s \in Seq(S), NEW x \in S, NEW places
    PROVE  Picked(Append(s, x), places)
             = Picked(s, places) \o (IF Len(s) + 1 \in places THEN <<x>> ELSE <<>>)
<1> DEFINE One(i, e) == IF i \in places THEN <<e>> ELSE <<>>
           Ones(t) == [i \in DOMAIN t |-> One(i, t[i])]
           more == Append(s, x)
           last == One(Len(s) + 1, x)
<1>1. /\ more \in Seq(S) /\ Len(more) = Len(s) + 1 /\ Len(s) \in Nat
      /\ \A i \in 1..Len(s) : more[i] = s[i]
      /\ more[Len(s) + 1] = x
      /\ DOMAIN s = 1..Len(s) /\ DOMAIN more = 1..(Len(s) + 1)
    BY AppendProperties, LenProperties
<1>2. \A i : \A e \in S : One(i, e) \in Seq(S)
    OBVIOUS
<1> HIDE DEF more, One
<1>3. Ones(s) \in Seq(Seq(S)) /\ last \in Seq(S) /\ Len(Ones(s)) = Len(s)
    <2>1. \A i \in 1..Len(s) : One(i, s[i]) \in Seq(S)
        BY <1>1, <1>2
    <2> QED BY <1>1, <1>2, <2>1
<1> HIDE DEF last
<1>4. Ones(more) = Append(Ones(s), last)
    <2>1. /\ Append(Ones(s), last) \in Seq(Seq(S))
          /\ Len(Append(Ones(s), last)) = Len(s) + 1
          /\ \A i \in 1..Len(s) : Append(Ones(s), last)[i] = Ones(s)[i]
          /\ Append(Ones(s), last)[Len(s) + 1] = last
        BY <1>1, <1>3, AppendProperties
    <2>2. \A i \in 1..(Len(s) + 1) : Ones(more)[i] = Append(Ones(s), last)[i]
        <3>1. \A i \in 1..(Len(s) + 1) : i \in 1..Len(s) \/ i = Len(s) + 1
            BY <1>1
        <3> QED BY <1>1, <2>1, <3>1 DEF last
    <2>3. Ones(more) \in Seq(Seq(S)) /\ Len(Ones(more)) = Len(s) + 1
        <3>1. \A i \in 1..(Len(s) + 1) : One(i, more[i]) \in Seq(S)
            BY <1>1, <1>2
        <3> QED BY <1>1, <3>1
    <2> DEFINE f == Ones(more)
               g == Append(Ones(s), last)
               V == Seq(S)
    <2>4. /\ f \in Seq(V) /\ g \in Seq(V) /\ Len(f) = Len(s) + 1 /\ Len(g) = Len(s) + 1
          /\ \A i \in 1..(Len(s) + 1) : f[i] = g[i]
        BY <2>1, <2>2, <2>3
    <2> HIDE DEF f, g, V
    <2>5. f = g
        BY <2>4, SeqEqual
    <2> QED BY <2>5 DEF f, g
<1>5. FlattenSeq(Append(Ones(s), last)) = FlattenSeq(Ones(s)) \o last
    <2> DEFINE o == Ones(s)
    <2>1. o \in Seq(Seq(S))
        BY <1>3
    <2> HIDE DEF o
    <2>2. FlattenSeq(Append(o, last)) = FlattenSeq(o) \o last
        BY <1>3, <2>1, FlattenAppend
    <2> QED BY <2>2 DEF o
<1>6. Picked(s, places) = FlattenSeq(Ones(s)) /\ Picked(more, places) = FlattenSeq(Ones(more))
    BY DEF Picked, One
<1> QED BY <1>4, <1>5, <1>6 DEF more, last, One

\* What is picked: nothing, or one element, or the elements of the places.
LEMMA PickFacts ==
    ASSUME NEW S, NEW s \in Seq(S), NEW places
    PROVE  /\ Picked(s, places) \in Seq(S)
           /\ ToSet(Picked(s, places)) = {s[i] : i \in places \cap DOMAIN s}
           /\ places \cap DOMAIN s = {} => Picked(s, places) = <<>>
           /\ \A i : places \cap DOMAIN s = {i} => Picked(s, places) = <<s[i]>>
<1> DEFINE At(t) == places \cap DOMAIN t
           Good(t) == /\ Picked(t, places) \in Seq(S)
                      /\ ToSet(Picked(t, places)) = {t[i] : i \in At(t)}
                      /\ At(t) = {} => Picked(t, places) = <<>>
                      /\ \A i : At(t) = {i} => Picked(t, places) = <<t[i]>>
           P == {t \in Seq(S) : Good(t)}
<1>1. <<>> \in P
    <2>1. Picked(<<>>, places) = <<>> /\ <<>> \in Seq(S) /\ At(<<>>) = {}
        <3>1. [i \in DOMAIN <<>> |-> IF i \in places THEN <<<<>>[i]>> ELSE <<>>] = <<>>
            OBVIOUS
        <3> QED BY <3>1, FlattenEmpty DEF Picked
    <2> QED BY <2>1, SmallSets
<1>2. ASSUME NEW t \in Seq(S), NEW x \in S, Good(t) PROVE Append(t, x) \in Seq(S) /\ Good(Append(t, x))
    <2> DEFINE more == Append(t, x)
               end == Len(t) + 1
               x1 == <<x>>
               k == Picked(t, places)
               one == IF end \in places THEN x1 ELSE <<>>
    <2>1. /\ more \in Seq(S) /\ Len(t) \in Nat
          /\ \A i \in 1..Len(t) : more[i] = t[i]
          /\ more[end] = x
          /\ DOMAIN t = 1..Len(t) /\ DOMAIN more = 1..end /\ end \notin DOMAIN t
          /\ DOMAIN more = DOMAIN t \cup {end}
        <3>1. /\ more \in Seq(S) /\ Len(more) = end /\ Len(t) \in Nat
              /\ \A i \in 1..Len(t) : more[i] = t[i]
              /\ more[end] = x
              /\ DOMAIN t = 1..Len(t) /\ DOMAIN more = 1..end
            BY AppendProperties, LenProperties
        <3>2. \A m \in Nat : m + 1 \notin 1..m /\ 1..(m + 1) = 1..m \cup {m + 1}
            OBVIOUS
        <3> HIDE DEF more
        <3> QED BY <3>1, <3>2
    <2>2. Picked(more, places) = k \o one
        BY PickAppend
    <2>3. /\ k \in Seq(S) /\ ToSet(k) = {t[i] : i \in At(t)}
          /\ At(t) = {} => k = <<>>
          /\ \A i : At(t) = {i} => k = <<t[i]>>
        BY <1>2
    <2>4. ToSet(x1) = {x} /\ x1 \in Seq(S) /\ ToSet(<<>>) = {} /\ <<>> \in Seq(S)
        BY SmallSets
    <2> HIDE DEF more, x1, k, Good
    <2>5. /\ one \in Seq(S) /\ (end \in places => one = x1) /\ (end \notin places => one = <<>>)
        BY <2>4
    <2> HIDE DEF one
    <2>6. /\ k \o one \in Seq(S) /\ ToSet(k \o one) = ToSet(k) \cup ToSet(one)
          /\ k \o <<>> = k /\ <<>> \o one = one
        BY <2>3, <2>5, ConcatProperties, ConcatSet, ConcatEmptySeq
    <2> HIDE DEF end
    <2>7. CASE end \in places
        <3>1. At(more) = At(t) \cup {end} /\ end \notin At(t)
            BY <2>1, <2>7
        <3>2. ToSet(k \o one) = {more[i] : i \in At(more)}
            <4>1. {more[i] : i \in At(more)} = {t[i] : i \in At(t)} \cup {x}
                BY <2>1, <3>1
            <4> QED BY <2>3, <2>4, <2>5, <2>6, <2>7, <4>1
        <3>3. At(more) # {}
            BY <3>1
        <3>4. ASSUME NEW i, At(more) = {i} PROVE k \o one = <<more[i]>>
            <4>1. i = end /\ At(t) = {}
                BY <3>1, <3>4
            <4> QED BY <2>1, <2>3, <2>5, <2>6, <2>7, <4>1 DEF x1
        <3> QED BY <2>1, <2>2, <2>6, <3>2, <3>3, <3>4 DEF more, Good
    <2>8. CASE end \notin places
        <3>1. At(more) = At(t)
            BY <2>1, <2>8
        <3>2. \A i \in At(t) : more[i] = t[i]
            BY <2>1
        <3>3. k \o one = k
            BY <2>5, <2>6, <2>8
        <3>4. {more[i] : i \in At(more)} = {t[i] : i \in At(t)}
            BY <3>1, <3>2
        <3>5. ASSUME NEW i, At(more) = {i} PROVE k = <<more[i]>>
            <4>1. At(t) = {i} /\ i \in At(t)
                BY <3>1, <3>5
            <4> QED BY <2>3, <3>2, <4>1
        <3> QED BY <2>1, <2>2, <2>3, <3>1, <3>3, <3>4, <3>5 DEF more, Good
    <2> QED BY <2>1, <2>7, <2>8 DEF more
<1>3. \A t \in P : \A x \in S : Append(t, x) \in P
    <2> HIDE DEF Good
    <2> QED BY <1>2
<1>4. \A t \in Seq(S) : t \in P
    <2> HIDE DEF P
    <2> QED BY <1>1, <1>3, SequenceInduction
<1> QED BY <1>4

\* The entries of a name in a header of a response, those the core sends, and
\* what it sends of them.
PlacesOf(es, key) == {i \in DOMAIN es : es[i].key = key}
LiveAt(es, key) == {i \in DOMAIN es : es[i].key = key /\ es[i].live}
LiveOf(es, key) == Picked([i \in DOMAIN es |-> es[i].value], LiveAt(es, key))

\* What is picked depends on the places picked alone.
LEMMA PickSame ==
    ASSUME NEW s, NEW t, NEW places, NEW others, DOMAIN s = DOMAIN t,
           \A i \in DOMAIN s : i \in places <=> i \in others,
           \A i \in DOMAIN s : i \in places => s[i] = t[i]
    PROVE  Picked(s, places) = Picked(t, others)
<1>1. [i \in DOMAIN s |-> IF i \in places THEN <<s[i]>> ELSE <<>>]
        = [i \in DOMAIN t |-> IF i \in others THEN <<t[i]>> ELSE <<>>]
    OBVIOUS
<1> QED BY <1>1 DEF Picked

\* Sequences with the same domain are as long.
LEMMA SameLength ==
    ASSUME NEW S, NEW T, NEW s \in Seq(S), NEW t \in Seq(T), DOMAIN s = DOMAIN t
    PROVE  Len(s) = Len(t)
<1>1. DOMAIN s = 1..Len(s) /\ DOMAIN t = 1..Len(t) /\ Len(s) \in Nat /\ Len(t) \in Nat
    BY LenProperties
<1>2. ASSUME NEW p \in Nat, NEW q \in Nat, 1..p = 1..q PROVE p = q
    <2>1. (p \in 1..p \/ p = 0) /\ (q \in 1..q \/ q = 0)
        OBVIOUS
    <2> QED BY <1>2, <2>1
<1> QED BY <1>1, <1>2

\* The values of a header's entries.
LEMMA ValuesOf ==
    ASSUME NEW es \in Seq(Entry)
    PROVE  /\ [i \in DOMAIN es |-> es[i].value] \in Seq(Text \cup {""})
           /\ DOMAIN [i \in DOMAIN es |-> es[i].value] = DOMAIN es
           /\ Len([i \in DOMAIN es |-> es[i].value]) = Len(es)
           /\ \A i \in DOMAIN es : [j \in DOMAIN es |-> es[j].value][i] = es[i].value
           /\ \A i \in DOMAIN es : es[i].value \in Text \cup {""} /\ es[i].live \in BOOLEAN
<1> DEFINE v == [i \in DOMAIN es |-> es[i].value]
           V == Text \cup {""}
<1>1. DOMAIN es = 1..Len(es) /\ Len(es) \in Nat /\ \A i \in 1..Len(es) : es[i] \in Entry
    BY LenProperties
<1>2. \A i \in DOMAIN es : es[i].value \in V /\ es[i].live \in BOOLEAN
    BY <1>1 DEF Entry
<1>3. v \in [1..Len(es) -> V]
    BY <1>1, <1>2
<1>4. v \in Seq(V)
    <2> HIDE DEF v, V
    <2> QED BY <1>1, <1>3, SeqDef
<1>5. DOMAIN v = DOMAIN es /\ \A i \in DOMAIN es : v[i] = es[i].value
    OBVIOUS
<1>6. Len(v) = Len(es)
    <2> HIDE DEF v, V
    <2> QED BY <1>4, <1>5, SameLength
<1> QED BY <1>2, <1>4, <1>5, <1>6

\* Nothing, or one line, is sent of a name of which no entry, or one, lives.
LEMMA LiveFacts ==
    ASSUME NEW es \in Seq(Entry), NEW key
    PROVE  /\ LiveOf(es, key) \in Seq(Text \cup {""})
           /\ LiveAt(es, key) = {} => LiveOf(es, key) = <<>>
           /\ \A i : LiveAt(es, key) = {i} => LiveOf(es, key) = <<es[i].value>>
<1> DEFINE vs == [i \in DOMAIN es |-> es[i].value]
           here == LiveAt(es, key)
<1>1. vs \in Seq(Text \cup {""}) /\ DOMAIN vs = DOMAIN es /\ \A i \in DOMAIN es : vs[i] = es[i].value
    BY ValuesOf
<1>2. here \cap DOMAIN vs = here /\ \A i \in here : i \in DOMAIN es
    BY <1>1 DEF LiveAt
<1>3. LiveOf(es, key) = Picked(vs, here)
    BY DEF LiveOf
<1> HIDE DEF vs, here
<1>4. /\ Picked(vs, here) \in Seq(Text \cup {""})
      /\ here = {} => Picked(vs, here) = <<>>
      /\ \A i : here = {i} => Picked(vs, here) = <<vs[i]>>
    <2> DEFINE V == Text \cup {""}
    <2>1. vs \in Seq(V)
        BY <1>1
    <2> HIDE DEF V
    <2>2. /\ Picked(vs, here) \in Seq(V)
          /\ here \cap DOMAIN vs = {} => Picked(vs, here) = <<>>
          /\ \A i : here \cap DOMAIN vs = {i} => Picked(vs, here) = <<vs[i]>>
        BY <2>1, PickFacts
    <2> QED BY <1>2, <2>2 DEF V
<1>5. \A i : here = {i} => vs[i] = es[i].value
    BY <1>1, <1>2
<1> QED BY <1>3, <1>4, <1>5 DEF here

\* What is sent of a name is the same when its entries are.
LEMMA LiveSame ==
    ASSUME NEW es \in Seq(Entry), NEW fs \in Seq(Entry), NEW key, DOMAIN fs = DOMAIN es,
           \A i \in PlacesOf(es, key) \cup PlacesOf(fs, key) : fs[i] = es[i]
    PROVE  LiveOf(fs, key) = LiveOf(es, key)
<1> DEFINE v == [i \in DOMAIN es |-> es[i].value]
           w == [i \in DOMAIN fs |-> fs[i].value]
<1>1. /\ DOMAIN v = DOMAIN es /\ DOMAIN w = DOMAIN es
      /\ \A i \in DOMAIN es : v[i] = es[i].value /\ w[i] = fs[i].value
    OBVIOUS
<1>2. \A i \in DOMAIN es : i \in LiveAt(es, key) <=> i \in LiveAt(fs, key)
    BY DEF LiveAt, PlacesOf
<1>3. \A i \in DOMAIN es : i \in LiveAt(es, key) => v[i] = w[i]
    BY <1>1 DEF LiveAt, PlacesOf
<1>4. LiveOf(fs, key) = Picked(w, LiveAt(fs, key)) /\ LiveOf(es, key) = Picked(v, LiveAt(es, key))
    BY DEF LiveOf
<1> HIDE DEF v, w
<1> QED BY <1>1, <1>2, <1>3, <1>4, PickSame

\* One more entry.
LEMMA EntryAppend ==
    ASSUME NEW es \in Seq(Entry), NEW x \in Entry, NEW key
    PROVE  /\ Append(es, x) \in Seq(Entry) /\ Len(es) \in Nat
           /\ PlacesOf(Append(es, x), key)
                = PlacesOf(es, key) \cup (IF x.key = key THEN {Len(es) + 1} ELSE {})
           /\ LiveAt(Append(es, x), key)
                = LiveAt(es, key) \cup (IF x.key = key /\ x.live THEN {Len(es) + 1} ELSE {})
           /\ LiveOf(Append(es, x), key)
                = LiveOf(es, key) \o (IF x.key = key /\ x.live THEN <<x.value>> ELSE <<>>)
<1> DEFINE more == Append(es, x)
           end == Len(es) + 1
           v == [i \in DOMAIN es |-> es[i].value]
           w == [i \in DOMAIN more |-> more[i].value]
           a == LiveAt(es, key)
           b == LiveAt(more, key)
<1>1. /\ more \in Seq(Entry) /\ Len(more) = Len(es) + 1 /\ Len(es) \in Nat
      /\ \A i \in 1..Len(es) : more[i] = es[i]
      /\ more[end] = x
      /\ DOMAIN es = 1..Len(es) /\ DOMAIN more = 1..end
    BY AppendProperties, LenProperties
<1>2. DOMAIN more = DOMAIN es \cup {end} /\ end \notin DOMAIN es
    <2>1. \A m \in Nat : m + 1 \notin 1..m /\ 1..(m + 1) = 1..m \cup {m + 1}
        OBVIOUS
    <2> HIDE DEF more
    <2> QED BY <1>1, <2>1
<1>3. v \in Seq(Text \cup {""}) /\ DOMAIN v = DOMAIN es /\ Len(v) = Len(es) /\ \A i \in DOMAIN es : v[i] = es[i].value
    BY ValuesOf
<1>4. /\ w \in Seq(Text \cup {""}) /\ DOMAIN w = DOMAIN more /\ Len(w) = Len(more)
      /\ \A i \in DOMAIN more : w[i] = more[i].value
    <2> HIDE DEF more
    <2> QED BY <1>1, ValuesOf
<1>5. x.value \in Text \cup {""}
    BY DEF Entry
<1> HIDE DEF more, end
<1>6. /\ PlacesOf(more, key) = PlacesOf(es, key) \cup (IF x.key = key THEN {end} ELSE {})
      /\ b = a \cup (IF x.key = key /\ x.live THEN {end} ELSE {})
    BY <1>1, <1>2 DEF PlacesOf, LiveAt
<1>7. a \subseteq DOMAIN es
    BY DEF LiveAt
<1>8. LiveOf(es, key) = Picked(v, a) /\ LiveOf(more, key) = Picked(w, b)
    BY DEF LiveOf
<1>9. w = Append(v, x.value)
    <2> DEFINE V == Text \cup {""}
    <2>1. v \in Seq(V) /\ w \in Seq(V) /\ x.value \in V
        BY <1>3, <1>4, <1>5
    <2>2. Len(v) = Len(es) /\ Len(w) = Len(es) + 1
        <3>1. Len(w) = Len(more)
            BY <1>4
        <3> QED BY <1>1, <1>3, <3>1
    <2> HIDE DEF v, w, V
    <2>3. /\ Append(v, x.value) \in Seq(V) /\ Len(Append(v, x.value)) = Len(v) + 1
          /\ \A i \in 1..Len(v) : Append(v, x.value)[i] = v[i]
          /\ Append(v, x.value)[Len(v) + 1] = x.value
        BY <2>1, AppendProperties
    <2>4. \A i \in 1..Len(es) : w[i] = v[i]
        BY <1>1, <1>2, <1>3, <1>4
    <2>5. w[Len(es) + 1] = x.value
        BY <1>1, <1>2, <1>4 DEF end
    <2>6. \A i \in 1..(Len(es) + 1) : i \in 1..Len(es) \/ i = Len(es) + 1
        BY <1>1
    <2>7. \A i \in 1..Len(w) : w[i] = Append(v, x.value)[i]
        BY <2>2, <2>3, <2>4, <2>5, <2>6
    <2> QED BY <2>1, <2>2, <2>3, <2>7, SeqEqual
<1>10. Picked(w, b) = Picked(v, b) \o (IF end \in b THEN <<x.value>> ELSE <<>>)
    <2> DEFINE V == Text \cup {""}
    <2>1. v \in Seq(V) /\ x.value \in V /\ Len(v) + 1 = end
        <3>1. Len(v) = Len(es)
            BY <1>3
        <3> QED BY <1>3, <1>5, <3>1 DEF end
    <2> HIDE DEF v, w, V, b
    <2>2. Picked(Append(v, x.value), b) = Picked(v, b) \o (IF Len(v) + 1 \in b THEN <<x.value>> ELSE <<>>)
        BY <2>1, PickAppend
    <2> QED BY <1>9, <2>1, <2>2
<1>11. Picked(v, b) = Picked(v, a)
    <2>1. DOMAIN v = DOMAIN es /\ \A i \in DOMAIN es : i \in b <=> i \in a
        BY <1>2, <1>3, <1>6
    <2> HIDE DEF v, a, b
    <2> QED BY <2>1, PickSame
<1>12. end \in b <=> x.key = key /\ x.live
    BY <1>2, <1>6, <1>7
<1> QED BY <1>1, <1>6, <1>8, <1>10, <1>11, <1>12 DEF more, end

\* What headers_out says of its entries: a pointer is NULL if and only if there
\* is no entry of its name, and to one of them else, to the only one if the
\* response had no two of them; the array holds the entries of Cache-Control.
PointerInv ==
    \A b \in OutBuiltin :
        /\ pointer[b] = 0 => PlacesOf(entry, b) = {}
        /\ pointer[b] # 0 => pointer[b] \in PlacesOf(entry, b)
        /\ ~Doubled(b) => PlacesOf(entry, b) \subseteq {pointer[b]}

OutInv ==
    /\ entry \in Seq(Entry) /\ pointer \in [OutBuiltin -> Nat] /\ cache_control \in Seq(Nat)
    /\ ToSet(cache_control) = PlacesOf(entry, "cache-control")
    /\ PointerInv

\* The lines the core makes itself.
LEMMA OwnFacts ==
    ASSUME NEW key
    PROVE  /\ key = "server" => OwnLine(key) = IF pointer[key] = 0 THEN <<"nginx">> ELSE <<>>
           /\ key = "content-length" /\ pointer[key] # 0 => OwnLine(key) = <<>>
           /\ key = "content-type"
                => OwnLine(key) = IF content_type = "" THEN <<>> ELSE <<content_type>>
           /\ key = "accept-ranges" => OwnLine(key) = IF allow_ranges THEN <<"bytes">> ELSE <<>>
           /\ key \notin {"server", "content-length", "content-type", "accept-ranges"}
                => OwnLine(key) = <<>>
BY DEF OwnLine

\* The same of the next state.
LEMMA OwnFactsAfter ==
    ASSUME NEW key
    PROVE  /\ key = "server" => OwnLine(key)' = IF pointer'[key] = 0 THEN <<"nginx">> ELSE <<>>
           /\ key = "content-length" /\ pointer'[key] # 0 => OwnLine(key)' = <<>>
           /\ key = "content-type"
                => OwnLine(key)' = IF content_type' = "" THEN <<>> ELSE <<content_type'>>
           /\ key = "accept-ranges" => OwnLine(key)' = IF allow_ranges' THEN <<"bytes">> ELSE <<>>
           /\ key \notin {"server", "content-length", "content-type", "accept-ranges"}
                => OwnLine(key)' = <<>>
BY DEF OwnLine

\* They are the same when what they are made from is.
LEMMA OwnSame ==
    ASSUME NEW key,
           key \in {"server", "content-length"} => pointer'[key] = pointer[key],
           key = "content-length" => out_length' = out_length,
           key = "content-type" => content_type' = content_type,
           key = "accept-ranges" => allow_ranges' = allow_ranges
    PROVE  OwnLine(key)' = OwnLine(key)
<1>1. CASE key = "content-length"
    BY <1>1 DEF OwnLine
<1>2. CASE key = "server"
    <2>1. pointer'[key] = pointer[key]
        BY <1>2
    <2> QED BY <1>2, <2>1, OwnFacts, OwnFactsAfter
<1>3. CASE key = "content-type"
    BY <1>3, OwnFacts, OwnFactsAfter
<1>4. CASE key = "accept-ranges"
    <2>1. allow_ranges' = allow_ranges
        BY <1>4
    <2>2. OwnLine(key) = IF allow_ranges THEN <<"bytes">> ELSE <<>>
        BY <1>4, OwnFacts
    <2>3. OwnLine(key)' = IF allow_ranges' THEN <<"bytes">> ELSE <<>>
        BY <1>4, OwnFactsAfter
    <2> QED BY <2>1, <2>2, <2>3, Zenon
<1>5. CASE key \notin {"server", "content-length", "content-type", "accept-ranges"}
    <2>1. OwnLine(key) = <<>>
        BY <1>5, OwnFacts
    <2>2. OwnLine(key)' = <<>>
        BY <1>5, OwnFactsAfter
    <2> QED BY <2>1, <2>2
<1> QED BY <1>1, <1>2, <1>3, <1>4, <1>5

\* What is sent of a name.
LEMMA SentFacts ==
    ASSUME NEW key
    PROVE  /\ Live(key) = LiveOf(entry, key) /\ Live(key)' = LiveOf(entry', key)
           /\ Sent(key) = LiveOf(entry, key) \o OwnLine(key)
           /\ Sent(key)' = LiveOf(entry', key) \o OwnLine(key)'
BY DEF Sent, Live, LiveOf, LiveAt

\* A name and the keys that name it.
LEMMA NamesFacts ==
    ASSUME NEW e \in Edit
    PROVE  /\ Names(e.key, e.key)
           /\ e.key \notin Wildcard => \A k : Names(e.key, k) <=> k = e.key
           /\ \A k : \A i \in DOMAIN entry :
                Names(e.key, k) /\ entry[i].key = k => i \in Matches(e)
           /\ e.key \notin Wildcard => Matches(e) = PlacesOf(entry, e.key)
BY DEF Names, Matches, PlacesOf

\* A sequence with other elements, at the same places.
LEMMA SeqOver ==
    ASSUME NEW S, NEW s \in Seq(S), NEW f, DOMAIN f = DOMAIN s, f = [i \in DOMAIN f |-> f[i]],
           \A i \in DOMAIN s : f[i] \in S
    PROVE  f \in Seq(S)
<1>1. DOMAIN s = 1..Len(s) /\ Len(s) \in Nat
    BY LenProperties
<1>2. f \in [1..Len(s) -> S]
    BY <1>1
<1> QED BY <1>1, <1>2, SeqDef

\* Entries are written over, and none gets another name.
LEMMA WrittenOver ==
    ASSUME NEW es \in Seq(Entry), NEW fs, DOMAIN fs = DOMAIN es, fs = [i \in DOMAIN fs |-> fs[i]],
           \A i \in DOMAIN es : fs[i] \in Entry /\ fs[i].key = es[i].key
    PROVE  /\ fs \in Seq(Entry)
           /\ \A k : PlacesOf(fs, k) = PlacesOf(es, k)
           /\ \A k : (\A i \in PlacesOf(es, k) : fs[i] = es[i]) => LiveOf(fs, k) = LiveOf(es, k)
           /\ \A k : LiveAt(fs, k) \subseteq PlacesOf(es, k)
<1>1. fs \in Seq(Entry)
    BY SeqOver
<1>2. \A k : PlacesOf(fs, k) = PlacesOf(es, k)
    BY DEF PlacesOf
<1>3. ASSUME NEW k, \A i \in PlacesOf(es, k) : fs[i] = es[i] PROVE LiveOf(fs, k) = LiveOf(es, k)
    <2>1. \A i \in PlacesOf(es, k) \cup PlacesOf(fs, k) : fs[i] = es[i]
        BY <1>2, <1>3
    <2> QED BY <1>1, <2>1, LiveSame
<1>4. \A k : LiveAt(fs, k) \subseteq PlacesOf(es, k)
    BY DEF PlacesOf, LiveAt
<1> QED BY <1>1, <1>2, <1>3, <1>4

\* A new entry is one.
LEMMA NewEntryFacts ==
    ASSUME NEW e \in Edit
    PROVE  /\ NewEntry(e) \in Entry /\ [NewEntry(e) EXCEPT !.live = TRUE] \in Entry
           /\ NewEntry(e).key = e.key /\ NewEntry(e).value = e.value
           /\ NewEntry(e).live <=> e.value # ""
           /\ [NewEntry(e) EXCEPT !.live = TRUE].key = e.key
           /\ [NewEntry(e) EXCEPT !.live = TRUE].value = e.value
           /\ [NewEntry(e) EXCEPT !.live = TRUE].live
           /\ e.key \in Key /\ e.value \in Text \cup {""}
BY DEF NewEntry, Edit, Entry

\* Facts about numbers the provers need stated.
LEMMA SmallNumbers ==
    /\ \A p \in Nat : \A i \in 1..p : i \in Nat
    /\ \A i, m \in Nat : i <= m /\ m <= i => i = m
OBVIOUS

\* The loop over the entries: those the header names are written over, none of
\* them lives without a value, and with one the first of them does alone.
LEMMA RewrittenFacts ==
    ASSUME entry \in Seq(Entry), NEW e \in Edit, NEW v \in Text \cup {""}
    PROVE  /\ Rewritten(e, v) \in Seq(Entry)
           /\ \A k : PlacesOf(Rewritten(e, v), k) = PlacesOf(entry, k)
           /\ \A k : ~Names(e.key, k) => LiveOf(Rewritten(e, v), k) = LiveOf(entry, k)
           /\ \A k : v = "" /\ Names(e.key, k) => LiveOf(Rewritten(e, v), k) = <<>>
           /\ v # "" /\ Matches(e) # {} /\ e.key \notin Wildcard
                => LiveOf(Rewritten(e, v), e.key) = <<v>>
<1> DEFINE r == Rewritten(e, v)
           es == entry
<1>1. DOMAIN es = 1..Len(es) /\ Len(es) \in Nat /\ \A i \in DOMAIN es : es[i] \in Entry
    BY LenProperties
<1>2. /\ DOMAIN r = DOMAIN es /\ r = [i \in DOMAIN r |-> r[i]]
      /\ \A i \in DOMAIN es :
            r[i] = IF i \notin Matches(e) THEN es[i]
                   ELSE IF v # "" /\ \A j \in Matches(e) : i <= j
                   THEN [es[i] EXCEPT !.value = v, !.live = TRUE]
                   ELSE [es[i] EXCEPT !.value = "", !.live = FALSE]
    BY DEF Rewritten
<1>3. ASSUME NEW x \in Entry
      PROVE  /\ [x EXCEPT !.value = v, !.live = TRUE] \in Entry
             /\ [x EXCEPT !.value = v, !.live = TRUE].key = x.key
             /\ [x EXCEPT !.value = v, !.live = TRUE].value = v
             /\ [x EXCEPT !.value = v, !.live = TRUE].live
             /\ [x EXCEPT !.value = "", !.live = FALSE] \in Entry
             /\ [x EXCEPT !.value = "", !.live = FALSE].key = x.key
             /\ ~[x EXCEPT !.value = "", !.live = FALSE].live
    BY DEF Entry
<1> HIDE DEF r
<1>4. ASSUME NEW i \in DOMAIN es PROVE r[i] \in Entry /\ r[i].key = es[i].key
    <2>1. es[i] \in Entry
        BY <1>1
    <2>2. \/ r[i] = es[i]
          \/ r[i] = [es[i] EXCEPT !.value = v, !.live = TRUE]
          \/ r[i] = [es[i] EXCEPT !.value = "", !.live = FALSE]
        BY <1>2
    <2> QED BY <1>3, <2>1, <2>2
<1>5. /\ r \in Seq(Entry)
      /\ \A k : PlacesOf(r, k) = PlacesOf(es, k)
      /\ \A k : (\A i \in PlacesOf(es, k) : r[i] = es[i]) => LiveOf(r, k) = LiveOf(es, k)
      /\ \A k : LiveAt(r, k) \subseteq PlacesOf(es, k)
    BY <1>2, <1>4, WrittenOver
<1>6. ASSUME NEW k, ~Names(e.key, k) PROVE LiveOf(r, k) = LiveOf(es, k)
    <2>1. \A i \in PlacesOf(es, k) : i \in DOMAIN es /\ i \notin Matches(e)
        BY <1>6 DEF PlacesOf, Matches
    <2>2. \A i \in PlacesOf(es, k) : r[i] = es[i]
        BY <1>2, <2>1
    <2> QED BY <1>5, <2>2
<1>7. ASSUME NEW k, Names(e.key, k) PROVE PlacesOf(es, k) \subseteq Matches(e)
    BY <1>7 DEF PlacesOf, Matches
<1>8. ASSUME NEW i \in Matches(e), v = "" \/ ~(\A j \in Matches(e) : i <= j) PROVE ~r[i].live
    <2>1. i \in DOMAIN es
        BY DEF Matches
    <2>2. r[i] = [es[i] EXCEPT !.value = "", !.live = FALSE]
        BY <1>2, <1>8, <2>1
    <2> QED BY <1>1, <1>3, <2>1, <2>2
<1>9. ASSUME NEW k, v = "", Names(e.key, k) PROVE LiveOf(r, k) = <<>>
    <2>1. \A i \in LiveAt(r, k) : i \in Matches(e) /\ r[i].live
        BY <1>5, <1>7, <1>9 DEF LiveAt
    <2>2. LiveAt(r, k) = {}
        BY <1>8, <1>9, <2>1
    <2> QED BY <1>5, <2>2, LiveFacts
<1>10. ASSUME v # "", Matches(e) # {}, e.key \notin Wildcard PROVE LiveOf(r, e.key) = <<v>>
    <2>1. Matches(e) = PlacesOf(es, e.key) /\ Matches(e) \subseteq DOMAIN es
        BY <1>10, NamesFacts DEF Matches
    <2>2. \A i \in Matches(e) : i \in DOMAIN es /\ i \in Nat /\ es[i].key = e.key
        <3>1. \A i \in DOMAIN es : i \in Nat
            BY <1>1, SmallNumbers, Zenon
        <3>2. \A i \in PlacesOf(es, e.key) : es[i].key = e.key
            BY DEF PlacesOf
        <3> QED BY <2>1, <3>1, <3>2
    <2>3. PICK m \in Matches(e) : \A j \in Matches(e) : m <= j
        <3>1. Matches(e) \subseteq Nat
            BY <2>2
        <3> QED BY <1>10, <3>1, LeastNumber
    <2>4. m \in DOMAIN es /\ r[m] = [es[m] EXCEPT !.value = v, !.live = TRUE]
        BY <1>2, <1>10, <2>2, <2>3
    <2>5. r[m].value = v /\ r[m].live /\ r[m].key = e.key /\ m \in DOMAIN r
        <3>1. es[m] \in Entry /\ es[m].key = e.key
            BY <1>1, <2>2, <2>3
        <3>2. r[m].value = v /\ r[m].live /\ r[m].key = es[m].key
            BY <1>3, <2>4, <3>1
        <3> QED BY <1>2, <2>4, <3>1, <3>2
    <2>6. ASSUME NEW i \in LiveAt(r, e.key) PROVE i = m
        <3>1. r[i].live
            BY DEF LiveAt
        <3>2. i \in Matches(e)
            BY <1>5, <2>1
        <3>3. \A j \in Matches(e) : i <= j
            BY <1>8, <3>1, <3>2
        <3>4. i \in Nat /\ m \in Nat
            BY <2>2, <2>3, <3>2
        <3>5. i <= m /\ m <= i
            BY <2>3, <3>2, <3>3
        <3> QED BY <3>4, <3>5, SmallNumbers, Zenon
    <2>7. m \in LiveAt(r, e.key)
        BY <2>5 DEF LiveAt
    <2>8. LiveAt(r, e.key) = {m}
        BY <2>6, <2>7
    <2> QED BY <1>5, <2>5, <2>8, LiveFacts
<1> QED BY <1>5, <1>6, <1>9, <1>10 DEF r

\* What is sent of the entries of each name when the header e has run: for those
\* it names the lines given, for the others what was sent.
EntriesEdited(e, lines) ==
    \A k : LiveOf(entry', k) = IF Names(e.key, k) THEN lines ELSE LiveOf(entry, k)

OneLine(v) == IF v = "" THEN <<>> ELSE <<v>>

\* One more entry, of a name that has none.
LEMMA NewEntryMade ==
    ASSUME entry \in Seq(Entry), NEW e \in Edit, NEW x \in Entry, x.key = e.key,
           PlacesOf(entry, e.key) = {}, entry' = Append(entry, x)
    PROVE  /\ entry' \in Seq(Entry) /\ Len(entry) \in Nat
           /\ \A k : PlacesOf(entry', k) = IF k = e.key THEN {Len(entry) + 1} ELSE PlacesOf(entry, k)
           /\ \A k : k # e.key => LiveOf(entry', k) = LiveOf(entry, k)
           /\ LiveOf(entry, e.key) = <<>>
           /\ LiveOf(entry', e.key) = IF x.live THEN <<x.value>> ELSE <<>>
<1>1. ASSUME NEW k
      PROVE  /\ PlacesOf(entry', k) = PlacesOf(entry, k) \cup (IF x.key = k THEN {Len(entry) + 1} ELSE {})
             /\ LiveOf(entry', k)
                  = LiveOf(entry, k) \o (IF x.key = k /\ x.live THEN <<x.value>> ELSE <<>>)
    BY EntryAppend
<1>2. entry' \in Seq(Entry) /\ Len(entry) \in Nat
    BY EntryAppend
<1>3. \A k : LiveOf(entry, k) \o <<>> = LiveOf(entry, k)
    <2> TAKE k
    <2> DEFINE V == Text \cup {""}
               l == LiveOf(entry, k)
    <2>1. l \in Seq(V)
        BY LiveFacts
    <2> HIDE DEF V, l
    <2>2. l \o <<>> = l
        BY <2>1, ConcatEmptySeq
    <2> QED BY <2>2 DEF l
<1>4. LiveOf(entry, e.key) = <<>>
    <2>1. LiveAt(entry, e.key) = {}
        BY DEF LiveAt, PlacesOf
    <2> QED BY <2>1, LiveFacts
<1>5. LiveOf(entry', e.key) = IF x.live THEN <<x.value>> ELSE <<>>
    <2> DEFINE one == IF x.live THEN <<x.value>> ELSE <<>>
               V == Text \cup {""}
    <2>1. one \in Seq(V)
        <3>1. x.value \in V
            BY DEF Entry
        <3> HIDE DEF V
        <3>2. <<x.value>> \in Seq(V) /\ <<>> \in Seq(V)
            BY <3>1, SmallSets
        <3> QED BY <3>2
    <2>2. LiveOf(entry', e.key) = <<>> \o one
        BY <1>1, <1>4
    <2> HIDE DEF one, V
    <2>3. <<>> \o one = one
        BY <2>1, ConcatEmptySeq
    <2> QED BY <2>2, <2>3 DEF one
<1>6. \A k : PlacesOf(entry', k) = IF k = e.key THEN {Len(entry) + 1} ELSE PlacesOf(entry, k)
    <2> TAKE k
    <2>1. CASE k = e.key
        BY <1>1, <2>1
    <2>2. CASE k # e.key
        <3>1. x.key # k
            BY <2>2
        <3>2. PlacesOf(entry', k)
                = PlacesOf(entry, k) \cup (IF x.key = k THEN {Len(entry) + 1} ELSE {})
            BY <1>1
        <3>3. PlacesOf(entry', k) = PlacesOf(entry, k)
            BY ONLY <3>1, <3>2
        <3> QED BY ONLY <2>2, <3>3
    <2> QED BY <2>1, <2>2
<1>7. ASSUME NEW k, k # e.key PROVE LiveOf(entry', k) = LiveOf(entry, k)
    <2>1. ~(x.key = k /\ x.live)
        BY <1>7
    <2> QED BY <1>1, <1>3, <2>1
<1> QED BY <1>2, <1>4, <1>5, <1>6, <1>7

\* ngx_http_set_header_helper edits the lines of the names of the header.
LEMMA HelperEdits ==
    ASSUME entry \in Seq(Entry), NEW e \in Edit, Helper(e)
    PROVE  /\ entry' \in Seq(Entry)
           /\ \A k : \/ PlacesOf(entry', k) = PlacesOf(entry, k)
                     \/ /\ k = e.key /\ Matches(e) = {}
                        /\ PlacesOf(entry', k) = {Len(entry) + 1}
           /\ e.key \in Wildcard /\ e.value = "" => EntriesEdited(e, <<>>)
           /\ e.key \notin Wildcard => EntriesEdited(e, OneLine(e.value))
<1>1. e.key \in Key /\ e.value \in Text \cup {""} /\ NewEntry(e) \in Entry /\ NewEntry(e).key = e.key
      /\ NewEntry(e).value = e.value /\ (NewEntry(e).live <=> e.value # "")
    BY NewEntryFacts
<1>2. CASE Matches(e) # {} \/ (e.key \in Wildcard /\ e.value = "")
    <2>1. entry' = Rewritten(e, e.value)
        BY <1>2 DEF Helper
    <2>2. /\ entry' \in Seq(Entry)
          /\ \A k : PlacesOf(entry', k) = PlacesOf(entry, k)
          /\ \A k : ~Names(e.key, k) => LiveOf(entry', k) = LiveOf(entry, k)
          /\ \A k : e.value = "" /\ Names(e.key, k) => LiveOf(entry', k) = <<>>
          /\ e.value # "" /\ Matches(e) # {} /\ e.key \notin Wildcard
               => LiveOf(entry', e.key) = <<e.value>>
        BY <1>1, <2>1, RewrittenFacts
    <2>3. ASSUME e.key \notin Wildcard, NEW k, Names(e.key, k) PROVE LiveOf(entry', k) = OneLine(e.value)
        <3>1. k = e.key
            BY <2>3, NamesFacts
        <3> QED BY <1>2, <2>2, <2>3, <3>1 DEF OneLine
    <2> QED BY <2>2, <2>3 DEF EntriesEdited
<1>3. CASE Matches(e) = {} /\ ~(e.key \in Wildcard /\ e.value = "")
    <2>1. entry' = Append(entry, NewEntry(e))
        BY <1>3 DEF Helper
    <2>2. PlacesOf(entry, e.key) = {}
        BY <1>3, NamesFacts DEF PlacesOf
    <2>3. /\ entry' \in Seq(Entry)
          /\ \A k : PlacesOf(entry', k) = IF k = e.key THEN {Len(entry) + 1} ELSE PlacesOf(entry, k)
          /\ \A k : k # e.key => LiveOf(entry', k) = LiveOf(entry, k)
          /\ LiveOf(entry', e.key) = IF NewEntry(e).live THEN <<NewEntry(e).value>> ELSE <<>>
        BY <1>1, <2>1, <2>2, NewEntryMade
    <2>4. LiveOf(entry', e.key) = OneLine(e.value)
        BY <1>1, <2>3 DEF OneLine
    <2>5. e.key \notin Wildcard => EntriesEdited(e, OneLine(e.value))
        BY <2>3, <2>4, NamesFacts DEF EntriesEdited
    <2> QED BY <1>3, <2>3, <2>5
<1> QED BY <1>2, <1>3

\* What a header that runs leaves of the lines of every name.
SentAsMeant(e) ==
    \A key \in Name : ~Doubled(key) =>
        IF ~Names(e.key, key) THEN Sent(key)' = Sent(key)
        ELSE ClearsAbsent(e) \/ Sent(key)' = LinesAfter(key, e)

Clearing(e) == e.key \in Wildcard => e.value = ""

\* Which names have two lines is the response's.
LEMMA DoubledSame == ASSUME response' = response PROVE \A b : Doubled(b)' <=> Doubled(b)
BY DEF Doubled

\* The pointers are as good as they were while no entry of a builtin name is new.
LEMMA PointersKept ==
    ASSUME PointerInv, response' = response, pointer' = pointer,
           \A b \in OutBuiltin : PlacesOf(entry', b) = PlacesOf(entry, b)
    PROVE  PointerInv'
<1> SUFFICES ASSUME NEW b \in OutBuiltin
             PROVE  /\ pointer'[b] = 0 => PlacesOf(entry', b) = {}
                    /\ pointer'[b] # 0 => pointer'[b] \in PlacesOf(entry', b)
                    /\ ~Doubled(b)' => PlacesOf(entry', b) \subseteq {pointer'[b]}
    BY DEF PointerInv, PlacesOf
<1>1. Doubled(b)' <=> Doubled(b)
    BY DoubledSame
<1>2. /\ pointer[b] = 0 => PlacesOf(entry, b) = {}
      /\ pointer[b] # 0 => pointer[b] \in PlacesOf(entry, b)
      /\ ~Doubled(b) => PlacesOf(entry, b) \subseteq {pointer[b]}
    BY DEF PointerInv
<1>3. PlacesOf(entry', b) = PlacesOf(entry, b) /\ pointer'[b] = pointer[b]
    OBVIOUS
<1> QED BY <1>1, <1>2, <1>3

\* The invariant of the next state, part by part.
LEMMA OutInvAfter ==
    ASSUME entry' \in Seq(Entry), pointer' \in [OutBuiltin -> Nat], cache_control' \in Seq(Nat),
           ToSet(cache_control') = PlacesOf(entry', "cache-control"), PointerInv'
    PROVE  OutInv'
BY DEF OutInv, PlacesOf, ToSet

\* Sequences of no element and of one.
LEMMA ShortSeqs == \A S : <<>> \in Seq(S) /\ \A x \in S : <<x>> \in Seq(S)
OBVIOUS

\* Nothing in front of a line the core makes.
LEMMA OwnEmpty == \A key : <<>> \o OwnLine(key) = OwnLine(key)
<1> TAKE key
<1> DEFINE own == OwnLine(key)
           number == CHOOSE v \in Text : Number[v] = out_length
           V == {"nginx", "bytes", number, content_type}
<1>1. own = <<>> \/ \E v \in V : own = <<v>>
    BY DEF OwnLine
<1>2. <<>> \in Seq(V) /\ \A v \in V : <<v>> \in Seq(V)
    <2> HIDE DEF V
    <2> QED OBVIOUS
<1>3. own \in Seq(V)
    BY <1>1, <1>2
<1> HIDE DEF own, V
<1>4. <<>> \o own = own
    BY <1>3, ConcatEmptySeq
<1> QED BY <1>4 DEF own

\* Nothing in front of one line, or behind it.
LEMMA OneLineEmpty ==
    \A v \in Text \cup {""} : OneLine(v) \o <<>> = OneLine(v) /\ <<>> \o OneLine(v) = OneLine(v)
<1> TAKE v \in Text \cup {""}
<1> DEFINE V == Text \cup {""}
           one == OneLine(v)
<1>1. <<v>> \in Seq(V) /\ <<>> \in Seq(V)
    <2>1. v \in V
        OBVIOUS
    <2> HIDE DEF V
    <2> QED BY <2>1, ShortSeqs
<1>2. one \in Seq(V)
    BY <1>1 DEF OneLine
<1> HIDE DEF one, V
<1>3. one \o <<>> = one /\ <<>> \o one = one
    BY <1>2, ConcatEmptySeq
<1> QED BY <1>3 DEF one

\* A header of a name without a pointer of its own, or with a *.
LEMMA SetHeaderMeant ==
    ASSUME OutInv, NEW e \in Edit, SetHeader(e), response' = response
    PROVE  OutInv' /\ (Clearing(e) => SentAsMeant(e))
<1>1. /\ e.key \notin OutBuiltin \cup {"content-type", "cache-control"} /\ Helper(e)
      /\ UNCHANGED <<cache_control, content_type, out_length, allow_ranges, pointer>>
      /\ entry \in Seq(Entry) /\ pointer \in [OutBuiltin -> Nat] /\ cache_control \in Seq(Nat)
      /\ ToSet(cache_control) = PlacesOf(entry, "cache-control") /\ PointerInv
    BY DEF OutInv, SetHeader, Helper
<1>2. /\ entry' \in Seq(Entry)
      /\ \A k : k # e.key => PlacesOf(entry', k) = PlacesOf(entry, k)
      /\ e.key \in Wildcard /\ e.value = "" => EntriesEdited(e, <<>>)
      /\ e.key \notin Wildcard => EntriesEdited(e, OneLine(e.value))
    BY <1>1, HelperEdits
<1>3. OutInv'
    <2>1. \A b \in OutBuiltin : PlacesOf(entry', b) = PlacesOf(entry, b)
        BY <1>1, <1>2
    <2>2. PointerInv'
        BY <1>1, <2>1, PointersKept
    <2>3. PlacesOf(entry', "cache-control") = PlacesOf(entry, "cache-control")
        BY <1>1, <1>2
    <2> QED BY <1>1, <1>2, <2>2, <2>3, OutInvAfter
<1>4. ASSUME Clearing(e), NEW key \in Name PROVE Sent(key)' = IF Names(e.key, key) THEN LinesAfter(key, e) ELSE Sent(key)
    <2>1. OwnLine(key)' = OwnLine(key)
        BY <1>1, OwnSame
    <2>2. /\ Sent(key) = LiveOf(entry, key) \o OwnLine(key)
          /\ Sent(key)' = LiveOf(entry', key) \o OwnLine(key)'
        BY SentFacts
    <2>3. CASE ~Names(e.key, key)
        <3>1. LiveOf(entry', key) = LiveOf(entry, key)
            BY <1>2, <1>4, <2>3 DEF Clearing, EntriesEdited
        <3> QED BY <2>1, <2>2, <2>3, <3>1
    <2>4. CASE Names(e.key, key) /\ e.key \in Wildcard
        <3>1. LiveOf(entry', key) = <<>>
            BY <1>2, <1>4, <2>4 DEF Clearing, EntriesEdited
        <3>2. <<>> \o OwnLine(key) = OwnLine(key)
            BY OwnEmpty
        <3>3. LinesAfter(key, e) = OwnLine(key)
            BY <2>4 DEF LinesAfter
        <3> QED BY <2>1, <2>2, <2>4, <3>1, <3>2, <3>3
    <2>5. CASE Names(e.key, key) /\ e.key \notin Wildcard
        <3>1. LiveOf(entry', key) = OneLine(e.value) /\ key = e.key
            BY <1>2, <2>5, NamesFacts DEF EntriesEdited
        <3>2. OwnLine(key) = <<>>
            BY <1>1, <3>1, HeadersOutAssumption, OwnFacts
        <3>3. OneLine(e.value) \o <<>> = OneLine(e.value)
            <4>1. e.value \in Text \cup {""}
                BY NewEntryFacts
            <4> QED BY <4>1, OneLineEmpty
        <3>4. LinesAfter(key, e) = OneLine(e.value)
            BY <1>1, <2>5, <3>1, HeadersOutAssumption DEF LinesAfter, OneLine
        <3> QED BY <2>1, <2>2, <2>5, <3>1, <3>2, <3>3, <3>4
    <2> QED BY <2>3, <2>4, <2>5
<1>5. Clearing(e) => SentAsMeant(e)
    BY <1>4 DEF SentAsMeant
<1> QED BY <1>3, <1>5

\* What setting the entry a pointer is for does: there is one then and the
\* pointer is at it, and without a second one of the name it alone is sent.
EntrySet(e) ==
    /\ entry' \in Seq(Entry) /\ pointer' \in [OutBuiltin -> Nat]
    /\ pointer'[e.key] # 0 /\ pointer'[e.key] \in PlacesOf(entry', e.key)
    /\ \A b \in OutBuiltin : b # e.key => pointer'[b] = pointer[b]
    /\ \A k : k # e.key => PlacesOf(entry', k) = PlacesOf(entry, k)
    /\ \A k : k # e.key => LiveOf(entry', k) = LiveOf(entry, k)
    /\ PlacesOf(entry, e.key) \subseteq {pointer[e.key]}
         => /\ PlacesOf(entry', e.key) \subseteq {pointer'[e.key]}
            /\ LiveOf(entry', e.key) = OneLine(e.value)

\* ngx_http_set_builtin_header without an entry makes one.
LEMMA NewEntrySet ==
    ASSUME OutInv, NEW e \in Edit, e.key \in OutBuiltin, SetEntry(e), pointer[e.key] = 0
    PROVE  EntrySet(e)
<1>1. entry \in Seq(Entry) /\ pointer \in [OutBuiltin -> Nat] /\ PlacesOf(entry, e.key) = {}
    BY DEF OutInv, PointerInv
<1>2. e.key \notin Wildcard /\ Matches(e) = {}
    <2>1. e.key \notin Wildcard
        BY HeadersOutAssumption
    <2> QED BY <1>1, <2>1, NamesFacts
<1>3. entry' = Append(entry, NewEntry(e)) /\ pointer' = [pointer EXCEPT ![e.key] = Len(entry) + 1]
    BY <1>2 DEF SetEntry, Helper
<1>4. /\ NewEntry(e) \in Entry /\ NewEntry(e).key = e.key /\ NewEntry(e).value = e.value
      /\ (NewEntry(e).live <=> e.value # "")
    BY NewEntryFacts
<1>5. /\ entry' \in Seq(Entry) /\ Len(entry) \in Nat
      /\ \A k : PlacesOf(entry', k) = IF k = e.key THEN {Len(entry) + 1} ELSE PlacesOf(entry, k)
      /\ \A k : k # e.key => LiveOf(entry', k) = LiveOf(entry, k)
      /\ LiveOf(entry', e.key) = IF NewEntry(e).live THEN <<NewEntry(e).value>> ELSE <<>>
    BY <1>1, <1>3, <1>4, NewEntryMade
<1>6. /\ pointer' \in [OutBuiltin -> Nat] /\ pointer'[e.key] = Len(entry) + 1
      /\ pointer'[e.key] # 0
      /\ \A b \in OutBuiltin : b # e.key => pointer'[b] = pointer[b]
    <2>1. Len(entry) + 1 \in Nat /\ Len(entry) + 1 # 0
        BY <1>5
    <2> QED BY <1>1, <1>3, <2>1
<1>7. LiveOf(entry', e.key) = OneLine(e.value)
    BY <1>4, <1>5 DEF OneLine
<1> QED BY <1>5, <1>6, <1>7 DEF EntrySet

\* With an entry it writes that over.
LEMMA OldEntrySet ==
    ASSUME OutInv, NEW e \in Edit, e.key \in OutBuiltin, SetEntry(e), pointer[e.key] # 0
    PROVE  EntrySet(e)
<1> DEFINE p == pointer[e.key]
           es == entry
           fs == [es EXCEPT ![p] = NewEntry(e)]
<1>1. /\ entry \in Seq(Entry) /\ pointer \in [OutBuiltin -> Nat]
      /\ p \in PlacesOf(es, e.key) /\ p \in DOMAIN es /\ es[p].key = e.key
    BY DEF OutInv, PointerInv, PlacesOf
<1>2. entry' = fs /\ pointer' = pointer
    BY DEF SetEntry
<1>3. /\ NewEntry(e) \in Entry /\ NewEntry(e).key = e.key /\ NewEntry(e).value = e.value
      /\ (NewEntry(e).live <=> e.value # "") /\ e.value \in Text \cup {""}
    BY NewEntryFacts
<1>4. /\ DOMAIN fs = DOMAIN es /\ fs = [i \in DOMAIN fs |-> fs[i]]
      /\ fs[p] = NewEntry(e) /\ \A i \in DOMAIN es : i # p => fs[i] = es[i]
    BY <1>1
<1>5. \A i \in DOMAIN es : es[i] \in Entry
    BY <1>1, LenProperties
<1> HIDE DEF fs, p
<1>6. \A i \in DOMAIN es : fs[i] \in Entry /\ fs[i].key = es[i].key
    <2> TAKE i \in DOMAIN es
    <2>1. CASE i = p
        BY <1>1, <1>3, <1>4, <2>1
    <2>2. CASE i # p
        BY <1>4, <1>5, <2>2
    <2> QED BY <2>1, <2>2
<1>7. /\ fs \in Seq(Entry)
      /\ \A k : PlacesOf(fs, k) = PlacesOf(es, k)
      /\ \A k : (\A i \in PlacesOf(es, k) : fs[i] = es[i]) => LiveOf(fs, k) = LiveOf(es, k)
      /\ \A k : LiveAt(fs, k) \subseteq PlacesOf(es, k)
    BY <1>1, <1>4, <1>6, WrittenOver
<1>8. ASSUME NEW k, k # e.key PROVE LiveOf(fs, k) = LiveOf(es, k)
    <2>1. \A i \in PlacesOf(es, k) : i \in DOMAIN es /\ i # p
        BY <1>1, <1>8 DEF PlacesOf
    <2> QED BY <1>4, <1>7, <2>1
<1>9. ASSUME PlacesOf(es, e.key) \subseteq {p} PROVE LiveOf(fs, e.key) = OneLine(e.value)
    <2>1. LiveAt(fs, e.key) \subseteq {p}
        BY <1>7, <1>9
    <2>2. p \in LiveAt(fs, e.key) <=> e.value # ""
        BY <1>1, <1>3, <1>4 DEF LiveAt
    <2>3. CASE e.value = ""
        <3>1. LiveAt(fs, e.key) = {}
            BY <2>1, <2>2, <2>3
        <3> QED BY <1>7, <2>3, <3>1, LiveFacts DEF OneLine
    <2>4. CASE e.value # ""
        <3>1. LiveAt(fs, e.key) = {p}
            BY <2>1, <2>2, <2>4
        <3>2. LiveOf(fs, e.key) = <<fs[p].value>>
            BY <1>7, <3>1, LiveFacts
        <3> QED BY <1>3, <1>4, <2>4, <3>2 DEF OneLine
    <2> QED BY <2>3, <2>4
<1>10. pointer'[e.key] = p /\ p # 0
    BY <1>2 DEF p
<1>11. p \in PlacesOf(fs, e.key)
    BY <1>1, <1>7
<1> QED BY <1>1, <1>2, <1>7, <1>8, <1>9, <1>10, <1>11 DEF EntrySet, p

\* Setting the entry and at most the field that goes with the name does what
\* the header asks for.
LEMMA BuiltinMeant ==
    ASSUME OutInv, NEW e \in Edit, e.key \in OutBuiltin, EntrySet(e),
           response' = response, cache_control' = cache_control, content_type' = content_type,
           e.key # "content-length" => out_length' = out_length,
           e.key # "accept-ranges" => allow_ranges' = allow_ranges,
           e.key = "accept-ranges" => (allow_ranges' <=> allow_ranges /\ e.value # "")
    PROVE  OutInv' /\ SentAsMeant(e)
<1>1. /\ entry' \in Seq(Entry) /\ pointer' \in [OutBuiltin -> Nat]
      /\ pointer'[e.key] # 0 /\ pointer'[e.key] \in PlacesOf(entry', e.key)
      /\ \A b \in OutBuiltin : b # e.key => pointer'[b] = pointer[b]
      /\ \A k : k # e.key => PlacesOf(entry', k) = PlacesOf(entry, k)
      /\ \A k : k # e.key => LiveOf(entry', k) = LiveOf(entry, k)
      /\ PlacesOf(entry, e.key) \subseteq {pointer[e.key]}
           => /\ PlacesOf(entry', e.key) \subseteq {pointer'[e.key]}
              /\ LiveOf(entry', e.key) = OneLine(e.value)
    BY DEF EntrySet
<1>2. /\ cache_control \in Seq(Nat) /\ ToSet(cache_control) = PlacesOf(entry, "cache-control")
      /\ PointerInv
    BY DEF OutInv
<1>3. /\ e.key \notin Wildcard /\ e.key # "content-type" /\ e.key # "cache-control"
      /\ e.key \in Name
    BY HeadersOutAssumption
<1>4. PointerInv'
    <2> SUFFICES ASSUME NEW b \in OutBuiltin
                 PROVE  /\ pointer'[b] = 0 => PlacesOf(entry', b) = {}
                        /\ pointer'[b] # 0 => pointer'[b] \in PlacesOf(entry', b)
                        /\ ~Doubled(b)' => PlacesOf(entry', b) \subseteq {pointer'[b]}
        BY DEF PointerInv, PlacesOf
    <2>1. Doubled(b)' <=> Doubled(b)
        BY DoubledSame
    <2>2. /\ pointer[b] = 0 => PlacesOf(entry, b) = {}
          /\ pointer[b] # 0 => pointer[b] \in PlacesOf(entry, b)
          /\ ~Doubled(b) => PlacesOf(entry, b) \subseteq {pointer[b]}
        BY <1>2 DEF PointerInv
    <2>3. CASE b = e.key
        BY <1>1, <2>1, <2>2, <2>3
    <2>4. CASE b # e.key
        <3>1. pointer'[b] = pointer[b] /\ PlacesOf(entry', b) = PlacesOf(entry, b)
            BY <1>1, <2>4
        <3> QED BY <2>1, <2>2, <3>1
    <2> QED BY <2>3, <2>4
<1>5. OutInv'
    <2>1. PlacesOf(entry', "cache-control") = PlacesOf(entry, "cache-control")
        BY <1>1, <1>3
    <2> QED BY <1>1, <1>2, <1>4, <2>1, OutInvAfter
<1>6. ASSUME NEW key \in Name, ~Doubled(key)
      PROVE  Sent(key)' = IF Names(e.key, key) THEN LinesAfter(key, e) ELSE Sent(key)
    <2>1. /\ Sent(key) = LiveOf(entry, key) \o OwnLine(key)
          /\ Sent(key)' = LiveOf(entry', key) \o OwnLine(key)'
          /\ Live(key) = LiveOf(entry, key)
        BY SentFacts
    <2>2. Names(e.key, key) <=> key = e.key
        BY <1>3, NamesFacts
    <2>3. CASE key # e.key
        <3>1. key \in {"server", "content-length"} => pointer'[key] = pointer[key]
            BY <1>1, <2>3, HeadersOutAssumption
        <3>2. OwnLine(key)' = OwnLine(key)
            BY <2>3, <3>1, OwnSame
        <3> QED BY <1>1, <2>1, <2>2, <2>3, <3>2
    <2>4. CASE key = e.key
        <3>1. PlacesOf(entry, key) \subseteq {pointer[key]}
            BY <1>2, <1>6, <2>4 DEF PointerInv
        <3>2. LiveOf(entry', key) = OneLine(e.value)
            BY <1>1, <2>4, <3>1
        <3>3. OneLine(e.value) \o <<>> = OneLine(e.value) /\ <<>> \o OwnLine(key) = OwnLine(key)
            <4>1. e.value \in Text \cup {""}
                BY NewEntryFacts
            <4> QED BY <4>1, OneLineEmpty, OwnEmpty
        <3>4. CASE key # "accept-ranges"
            <4>1. OwnLine(key)' = <<>>
                BY <1>1, <1>3, <2>4, <3>4, OwnFactsAfter
            <4>2. LinesAfter(key, e) = OneLine(e.value)
                BY <1>3, <2>4, <3>4 DEF LinesAfter, OneLine
            <4> QED BY <2>1, <2>2, <2>4, <3>2, <3>3, <4>1, <4>2
        <3>5. CASE key = "accept-ranges"
            <4>1. OwnLine(key)' = IF allow_ranges' THEN <<"bytes">> ELSE <<>>
                BY <3>5, OwnFactsAfter
            <4>2. OwnLine(key) = IF allow_ranges THEN <<"bytes">> ELSE <<>>
                BY <3>5, OwnFacts
            <4>3. allow_ranges' <=> allow_ranges /\ e.value # ""
                BY <2>4, <3>5
            <4>4. CASE e.value = ""
                <5>1. OwnLine(key)' = <<>>
                    BY <4>1, <4>3, <4>4, Zenon
                <5>2. LinesAfter(key, e) = OneLine(e.value)
                    BY <1>3, <2>4, <4>4 DEF LinesAfter, OneLine
                <5> QED BY <2>1, <2>2, <2>4, <3>2, <3>3, <5>1, <5>2
            <4>5. CASE e.value # ""
                <5>1. OwnLine(key)' = OwnLine(key)
                    <6>1. CASE allow_ranges
                        BY <4>1, <4>2, <4>3, <4>5, <6>1, Zenon
                    <6>2. CASE ~allow_ranges
                        BY <4>1, <4>2, <4>3, <6>2, Zenon
                    <6> QED BY <6>1, <6>2
                <5>2. LinesAfter(key, e) = OneLine(e.value) \o OwnLine(key)
                    BY <1>3, <2>4, <3>5, <4>5 DEF LinesAfter, OneLine
                <5> QED BY <2>1, <2>2, <2>4, <3>2, <5>1, <5>2
            <4> QED BY <4>4, <4>5
        <3> QED BY <3>4, <3>5
    <2> QED BY <2>3, <2>4
<1>7. SentAsMeant(e)
    BY <1>6 DEF SentAsMeant
<1> QED BY <1>5, <1>7

\* A builtin header, with its field if it has one.
LEMMA BuiltinsMeant ==
    ASSUME OutInv, NEW e \in Edit, response' = response,
           SetBuiltinHeader(e) \/ SetContentLength(e) \/ SetAcceptRanges(e)
    PROVE  OutInv' /\ SentAsMeant(e)
<1>1. e.key \in OutBuiltin /\ SetEntry(e)
    BY HeadersOutAssumption DEF SetBuiltinHeader, SetContentLength, SetAcceptRanges
<1>2. EntrySet(e)
    BY <1>1, NewEntrySet, OldEntrySet
<1>3. /\ cache_control' = cache_control /\ content_type' = content_type
      /\ e.key # "content-length" => out_length' = out_length
    BY DEF SetBuiltinHeader, SetContentLength, SetAcceptRanges
<1>4. e.key # "accept-ranges" => allow_ranges' = allow_ranges
    BY DEF SetBuiltinHeader, SetContentLength, SetAcceptRanges
<1>5. e.key = "accept-ranges" => (allow_ranges' <=> allow_ranges /\ e.value # "")
    <2> HAVE e.key = "accept-ranges"
    <2>1. SetAcceptRanges(e)
        BY DEF SetBuiltinHeader, SetContentLength
    <2>2. allow_ranges' = (allow_ranges /\ e.value # "")
        BY <2>1 DEF SetAcceptRanges
    <2> QED BY <2>2, Zenon
<1> QED BY <1>1, <1>2, <1>3, <1>4, <1>5, BuiltinMeant

\* A name that is not in the header keeps its lines, and its own line its source.
LEMMA OthersKept ==
    ASSUME NEW e \in Edit, e.key \notin Wildcard, NEW lines,
           \A k : k # e.key => LiveOf(entry', k) = LiveOf(entry, k),
           pointer' = pointer, out_length' = out_length, allow_ranges' = allow_ranges,
           e.key # "content-type" => content_type' = content_type,
           ClearsAbsent(e) \/ Sent(e.key)' = LinesAfter(e.key, e)
    PROVE  SentAsMeant(e)
<1> SUFFICES ASSUME NEW key \in Name
             PROVE  IF ~Names(e.key, key) THEN Sent(key)' = Sent(key)
                    ELSE ClearsAbsent(e) \/ Sent(key)' = LinesAfter(key, e)
    BY DEF SentAsMeant
<1>1. Names(e.key, key) <=> key = e.key
    BY NamesFacts
<1>2. CASE key = e.key
    <2>1. ClearsAbsent(e) \/ Sent(key)' = LinesAfter(key, e)
        BY <1>2
    <2> QED BY <1>1, <1>2, <2>1
<1>3. CASE key # e.key
    <2>1. /\ Sent(key) = LiveOf(entry, key) \o OwnLine(key)
          /\ Sent(key)' = LiveOf(entry', key) \o OwnLine(key)'
        BY SentFacts
    <2>2. OwnLine(key)' = OwnLine(key)
        BY <1>3, OwnSame
    <2> QED BY <1>1, <1>3, <2>1, <2>2
<1> QED BY <1>2, <1>3

\* Cache-Control with an entry in the array.
LEMMA FirstCacheControlMeant ==
    ASSUME OutInv, NEW e \in Edit, SetCacheControl(e), response' = response, cache_control # <<>>
    PROVE  OutInv' /\ SentAsMeant(e)
<1> DEFINE es == entry
           cc == "cache-control"
           first == cache_control[1]
           fs == [i \in DOMAIN es |->
                    IF i = first THEN NewEntry(e)
                    ELSE IF i \in ToSet(cache_control)
                    THEN [es[i] EXCEPT !.value = "", !.live = FALSE]
                    ELSE es[i]]
<1>1. /\ e.key = cc /\ entry' = fs
      /\ cache_control' = cache_control /\ pointer' = pointer /\ content_type' = content_type
      /\ out_length' = out_length /\ allow_ranges' = allow_ranges
    BY DEF SetCacheControl
<1>2. /\ es \in Seq(Entry) /\ pointer \in [OutBuiltin -> Nat] /\ cache_control \in Seq(Nat)
      /\ ToSet(cache_control) = PlacesOf(es, cc) /\ PointerInv
    BY DEF OutInv
<1>3. e.key \notin Wildcard
    BY <1>1, HeadersOutAssumption
<1>4. first \in PlacesOf(es, cc)
    <2>1. 1 \in DOMAIN cache_control
        BY <1>2
    <2> QED BY <1>2, <2>1 DEF ToSet
<1>5. /\ DOMAIN fs = DOMAIN es /\ fs = [i \in DOMAIN fs |-> fs[i]]
      /\ first \in DOMAIN es /\ fs[first] = NewEntry(e)
      /\ \A i \in PlacesOf(es, cc) : i # first => fs[i] = [es[i] EXCEPT !.value = "", !.live = FALSE]
      /\ \A i \in DOMAIN es : i \notin PlacesOf(es, cc) => fs[i] = es[i]
    BY <1>2, <1>4 DEF PlacesOf
<1>6. \A i \in DOMAIN es : es[i] \in Entry
    BY <1>2, LenProperties
<1>7. /\ NewEntry(e) \in Entry /\ NewEntry(e).key = e.key /\ NewEntry(e).value = e.value
      /\ (NewEntry(e).live <=> e.value # "") /\ e.value \in Text \cup {""}
    BY NewEntryFacts
<1>8. ASSUME NEW x \in Entry
      PROVE  /\ [x EXCEPT !.value = "", !.live = FALSE] \in Entry
             /\ [x EXCEPT !.value = "", !.live = FALSE].key = x.key
             /\ ~[x EXCEPT !.value = "", !.live = FALSE].live
    BY DEF Entry
<1> HIDE DEF fs, first
<1>9. \A i \in DOMAIN es : fs[i] \in Entry /\ fs[i].key = es[i].key
    <2> TAKE i \in DOMAIN es
    <2>1. CASE i = first
        <3>1. es[i].key = cc
            BY <1>4, <2>1 DEF PlacesOf
        <3> QED BY <1>1, <1>5, <1>7, <2>1, <3>1
    <2>2. CASE i \notin PlacesOf(es, cc)
        BY <1>5, <1>6, <2>2
    <2>3. CASE i \in PlacesOf(es, cc) /\ i # first
        <3>1. es[i] \in Entry
            BY <1>6
        <3> QED BY <1>5, <1>8, <2>3, <3>1
    <2> QED BY <2>1, <2>2, <2>3
<1>10. /\ fs \in Seq(Entry)
       /\ \A k : PlacesOf(fs, k) = PlacesOf(es, k)
       /\ \A k : (\A i \in PlacesOf(es, k) : fs[i] = es[i]) => LiveOf(fs, k) = LiveOf(es, k)
       /\ \A k : LiveAt(fs, k) \subseteq PlacesOf(es, k)
    BY <1>2, <1>5, <1>9, WrittenOver
<1>11. \A k : k # e.key => LiveOf(fs, k) = LiveOf(es, k)
    <2> SUFFICES ASSUME NEW k, k # cc PROVE LiveOf(fs, k) = LiveOf(es, k)
        BY <1>1
    <2>1. \A i \in PlacesOf(es, k) : i \in DOMAIN es /\ i \notin PlacesOf(es, cc)
        BY DEF PlacesOf
    <2>2. \A i \in PlacesOf(es, k) : fs[i] = es[i]
        BY <1>5, <2>1
    <2> QED BY <1>10, <2>2
<1>12. LiveOf(fs, cc) = OneLine(e.value)
    <2>1. LiveAt(fs, cc) \subseteq {first}
        <3> SUFFICES ASSUME NEW i \in LiveAt(fs, cc), i # first PROVE FALSE
            OBVIOUS
        <3>1. i \in PlacesOf(es, cc) /\ fs[i].live
            BY <1>10 DEF LiveAt
        <3>2. es[i] \in Entry
            BY <1>6, <3>1 DEF PlacesOf
        <3> QED BY <1>5, <1>8, <3>1, <3>2
    <2>2. first \in LiveAt(fs, cc) <=> e.value # ""
        BY <1>1, <1>5, <1>7 DEF LiveAt
    <2>3. CASE e.value = ""
        <3>1. LiveAt(fs, cc) = {}
            BY <2>1, <2>2, <2>3
        <3> QED BY <1>10, <2>3, <3>1, LiveFacts DEF OneLine
    <2>4. CASE e.value # ""
        <3>1. LiveAt(fs, cc) = {first}
            BY <2>1, <2>2, <2>4
        <3>2. LiveOf(fs, cc) = <<fs[first].value>>
            BY <1>10, <3>1, LiveFacts
        <3> QED BY <1>5, <1>7, <2>4, <3>2 DEF OneLine
    <2> QED BY <2>3, <2>4
<1>13. OutInv'
    <2>1. \A b \in OutBuiltin : PlacesOf(entry', b) = PlacesOf(entry, b)
        BY <1>1, <1>10
    <2>2. PointerInv'
        BY <1>1, <1>2, <2>1, PointersKept
    <2>3. PlacesOf(entry', cc) = PlacesOf(entry, cc)
        BY <1>1, <1>10
    <2> QED BY <1>1, <1>2, <1>10, <2>2, <2>3, OutInvAfter
<1>14. Sent(cc)' = LinesAfter(cc, e)
    <2>1. Sent(cc)' = LiveOf(entry', cc) \o OwnLine(cc)'
        BY SentFacts
    <2>2. OwnLine(cc)' = <<>>
        BY OwnFactsAfter
    <2>3. OneLine(e.value) \o <<>> = OneLine(e.value)
        BY <1>7, OneLineEmpty
    <2>4. LinesAfter(cc, e) = OneLine(e.value)
        BY <1>1, <1>3 DEF LinesAfter, OneLine
    <2> QED BY <1>1, <1>12, <2>1, <2>2, <2>3, <2>4
<1> QED BY <1>1, <1>3, <1>11, <1>13, <1>14, OthersKept

\* Cache-Control without one: a line with the value, if there is a value.
LEMMA NewCacheControlMeant ==
    ASSUME OutInv, NEW e \in Edit, SetCacheControl(e), response' = response, cache_control = <<>>
    PROVE  OutInv' /\ SentAsMeant(e)
<1> DEFINE cc == "cache-control"
           x == [NewEntry(e) EXCEPT !.live = TRUE]
<1>1. /\ e.key = cc /\ entry' = Append(entry, x) /\ cache_control' = <<Len(entry) + 1>>
      /\ pointer' = pointer /\ content_type' = content_type
      /\ out_length' = out_length /\ allow_ranges' = allow_ranges
    BY DEF SetCacheControl
<1>2. /\ entry \in Seq(Entry) /\ pointer \in [OutBuiltin -> Nat] /\ PointerInv
      /\ PlacesOf(entry, cc) = {}
    BY SmallSets DEF OutInv
<1>3. e.key \notin Wildcard /\ e.key \notin OutBuiltin
    BY <1>1, HeadersOutAssumption
<1>4. x \in Entry /\ x.key = e.key /\ x.value = e.value /\ x.live /\ e.value \in Text \cup {""}
    BY NewEntryFacts
<1> HIDE DEF x
<1>5. /\ entry' \in Seq(Entry) /\ Len(entry) \in Nat
      /\ \A k : PlacesOf(entry', k) = IF k = e.key THEN {Len(entry) + 1} ELSE PlacesOf(entry, k)
      /\ \A k : k # e.key => LiveOf(entry', k) = LiveOf(entry, k)
      /\ LiveOf(entry, e.key) = <<>>
      /\ LiveOf(entry', e.key) = IF x.live THEN <<x.value>> ELSE <<>>
    BY <1>1, <1>2, <1>4, NewEntryMade
<1>6. OutInv'
    <2>1. \A b \in OutBuiltin : PlacesOf(entry', b) = PlacesOf(entry, b)
        BY <1>3, <1>5
    <2>2. PointerInv'
        BY <1>1, <1>2, <2>1, PointersKept
    <2>3. ToSet(cache_control') = PlacesOf(entry', cc)
        BY <1>1, <1>5, SmallSets
    <2>4. cache_control' \in Seq(Nat)
        <3>1. Len(entry) + 1 \in Nat
            BY <1>5
        <3> QED BY <1>1, <3>1, ShortSeqs
    <2> QED BY <1>1, <1>2, <1>5, <2>2, <2>3, <2>4, OutInvAfter
<1>7. ClearsAbsent(e) \/ Sent(cc)' = LinesAfter(cc, e)
    <2> SUFFICES ASSUME e.value # "" PROVE Sent(cc)' = LinesAfter(cc, e)
        BY <1>1 DEF ClearsAbsent
    <2>1. Sent(cc)' = LiveOf(entry', cc) \o OwnLine(cc)'
        BY SentFacts
    <2>2. OwnLine(cc)' = <<>>
        BY OwnFactsAfter
    <2>3. <<e.value>> \o <<>> = <<e.value>>
        <3> DEFINE V == Text \cup {""}
                   v == e.value
        <3>1. v \in V
            BY <1>4
        <3> HIDE DEF v, V
        <3>2. <<v>> \in Seq(V)
            BY <3>1, ShortSeqs
        <3>3. <<v>> \o <<>> = <<v>>
            BY <3>2, ConcatEmptySeq
        <3> QED BY <3>3 DEF v
    <2>4. LinesAfter(cc, e) = <<e.value>>
        BY <1>1, <1>3 DEF LinesAfter
    <2> QED BY <1>1, <1>4, <1>5, <2>1, <2>2, <2>3, <2>4
<1> QED BY <1>1, <1>3, <1>5, <1>6, <1>7, OthersKept

\* Content-Type: the field is what is sent, and the entries of the name are not.
LEMMA ContentTypeMeant ==
    ASSUME OutInv, NEW e \in Edit, SetContentType(e), response' = response
    PROVE  OutInv' /\ SentAsMeant(e)
<1> DEFINE ct == "content-type"
<1>1. /\ e.key = ct /\ entry' = Rewritten(e, "") /\ content_type' = e.value
      /\ pointer' = pointer /\ cache_control' = cache_control
      /\ out_length' = out_length /\ allow_ranges' = allow_ranges
    BY DEF SetContentType
<1>2. /\ entry \in Seq(Entry) /\ pointer \in [OutBuiltin -> Nat] /\ cache_control \in Seq(Nat)
      /\ ToSet(cache_control) = PlacesOf(entry, "cache-control") /\ PointerInv
    BY DEF OutInv
<1>3. e.key \notin Wildcard
    BY <1>1, HeadersOutAssumption
<1>4. e.value \in Text \cup {""} /\ \A k : Names(e.key, k) <=> k = e.key
    BY <1>3, NewEntryFacts, NamesFacts
<1>5. /\ entry' \in Seq(Entry)
      /\ \A k : PlacesOf(entry', k) = PlacesOf(entry, k)
      /\ \A k : ~Names(e.key, k) => LiveOf(entry', k) = LiveOf(entry, k)
      /\ \A k : Names(e.key, k) => LiveOf(entry', k) = <<>>
    <2>1. "" \in Text \cup {""}
        OBVIOUS
    <2> DEFINE v == ""
    <2>2. v \in Text \cup {""} /\ v = ""
        BY <2>1
    <2>3. entry' = Rewritten(e, v)
        BY <1>1
    <2> HIDE DEF v
    <2> QED BY <1>2, <2>2, <2>3, RewrittenFacts
<1>6. OutInv'
    <2>1. PointerInv'
        BY <1>1, <1>2, <1>5, PointersKept
    <2> QED BY <1>1, <1>2, <1>5, <2>1, OutInvAfter
<1>7. Sent(ct)' = LinesAfter(ct, e)
    <2>1. Sent(ct)' = LiveOf(entry', ct) \o OwnLine(ct)'
        BY SentFacts
    <2>2. OwnLine(ct)' = OneLine(e.value)
        <3>1. OwnLine(ct)' = IF content_type' = "" THEN <<>> ELSE <<content_type'>>
            BY OwnFactsAfter
        <3> QED BY <1>1, <3>1 DEF OneLine
    <2>3. <<>> \o OneLine(e.value) = OneLine(e.value)
        BY <1>4, OneLineEmpty
    <2>4. LinesAfter(ct, e) = OneLine(e.value)
        BY <1>1, <1>3 DEF LinesAfter, OneLine
    <2> QED BY <1>1, <1>4, <1>5, <2>1, <2>2, <2>3, <2>4
<1>8. \A k : k # e.key => LiveOf(entry', k) = LiveOf(entry, k)
    BY <1>4, <1>5
<1> QED BY <1>1, <1>3, <1>6, <1>7, <1>8, OthersKept

\* One header of an output command, whatever handler it has.
LEMMA ExecMeant ==
    ASSUME OutInv, NEW e \in Edit, ExecHeader(e), response' = response
    PROVE  OutInv' /\ (Clearing(e) => SentAsMeant(e))
<1>1. CASE SetHeader(e)
    BY <1>1, SetHeaderMeant
<1>2. CASE SetBuiltinHeader(e) \/ SetContentLength(e) \/ SetAcceptRanges(e)
    BY <1>2, BuiltinsMeant
<1>3. CASE SetCacheControl(e)
    BY <1>3, FirstCacheControlMeant, NewCacheControlMeant
<1>4. CASE SetContentType(e)
    BY <1>4, ContentTypeMeant
<1> QED BY <1>1, <1>2, <1>3, <1>4 DEF ExecHeader

\* A response comes with a pointer to the last entry of each of the names, and
\* with all entries of Cache-Control in the array.
LEMMA RespondStarts ==
    ASSUME NEW answer \in Answers, Respond(answer), response' = answer
    PROVE  OutInv'
<1> DEFINE lines == answer.lines
           At(key) == {i \in DOMAIN lines : lines[i].key = key}
           es == [i \in DOMAIN lines |->
                    [key |-> lines[i].key, value |-> lines[i].value, live |-> TRUE]]
           Latest(b) == CHOOSE i \in At(b) : \A j \in At(b) : j <= i
           ps == [b \in OutBuiltin |-> IF At(b) = {} THEN 0 ELSE Latest(b)]
           cs == Picked([i \in DOMAIN lines |-> i], At("cache-control"))
<1>1. entry' = es /\ pointer' = ps /\ cache_control' = cs
    BY DEF Respond
<1>2. /\ lines \in Seq(Line) /\ DOMAIN lines = 1..Len(lines) /\ Len(lines) \in Nat
      /\ \A i \in DOMAIN lines : lines[i] \in Line
    <2>1. lines \in Seq(Line)
        BY DEF Answers
    <2> HIDE DEF lines
    <2>2. DOMAIN lines = 1..Len(lines) /\ Len(lines) \in Nat
        BY <2>1, LenProperties
    <2>3. \A i \in DOMAIN lines : lines[i] \in Line
        <3> TAKE i \in DOMAIN lines
        <3>1. i \in 1..Len(lines)
            BY <2>2
        <3> QED BY <2>1, <3>1, ElementOfSeq
    <2> QED BY <2>1, <2>2, <2>3
<1>3. es \in Seq(Entry) /\ \A k : PlacesOf(es, k) = At(k)
    <2>1. \A i \in DOMAIN lines :
            [key |-> lines[i].key, value |-> lines[i].value, live |-> TRUE] \in Entry
        BY <1>2 DEF Line, Entry
    <2>2. DOMAIN es = DOMAIN lines /\ es = [i \in DOMAIN es |-> es[i]]
        OBVIOUS
    <2>3. \A i \in DOMAIN lines : es[i] \in Entry /\ es[i].key = lines[i].key
        BY <2>1
    <2> HIDE DEF es, lines
    <2>4. es \in Seq(Entry)
        BY <1>2, <2>2, <2>3, SeqOver
    <2> QED BY <2>2, <2>3, <2>4 DEF PlacesOf
<1>4. \A k : At(k) \subseteq DOMAIN lines /\ At(k) \subseteq 1..Len(lines)
    BY <1>2
<1> HIDE DEF es, lines
<1>5. ASSUME NEW b, At(b) # {} PROVE Latest(b) \in At(b)
    <2>1. \E x \in At(b) : \A y \in At(b) : y <= x
        <3> DEFINE T == At(b)
                   m == Len(lines)
        <3>1. T # {} /\ T \subseteq 0..m /\ m \in Nat
            <4>1. \A p \in Nat : 1..p \subseteq 0..p
                OBVIOUS
            <4> QED BY <1>2, <1>4, <1>5, <4>1
        <3> HIDE DEF T, m
        <3>2. \E x \in T : \A y \in T : y <= x
            BY <3>1, GreatestNumber
        <3> QED BY <3>2 DEF T
    <2> HIDE DEF At
    <2> QED BY <2>1
<1>6. cs \in Seq(Nat) /\ ToSet(cs) = At("cache-control")
    <2> DEFINE s == [i \in DOMAIN lines |-> i]
               here == At("cache-control")
    <2>1. s \in Seq(Nat) /\ DOMAIN s = DOMAIN lines /\ \A i \in DOMAIN lines : s[i] = i
        <3>1. s \in [1..Len(lines) -> Nat]
            BY <1>2, SmallNumbers
        <3> HIDE DEF s
        <3>2. s \in Seq(Nat)
            BY <1>2, <3>1, SeqDef
        <3> QED BY <3>2 DEF s
    <2>2. here \subseteq DOMAIN lines
        BY <1>4
    <2> HIDE DEF s, here
    <2>3. Picked(s, here) \in Seq(Nat) /\ ToSet(Picked(s, here)) = {s[i] : i \in here \cap DOMAIN s}
        BY <2>1, PickFacts
    <2>4. {s[i] : i \in here \cap DOMAIN s} = here
        BY <2>1, <2>2
    <2> QED BY <2>3, <2>4 DEF s, here
<1>7. ASSUME NEW b \in OutBuiltin
      PROVE  /\ ps[b] = 0 => At(b) = {}
             /\ ps[b] # 0 => ps[b] \in At(b)
             /\ ps[b] \in Nat
             /\ ~Doubled(b)' => At(b) \subseteq {ps[b]}
    <2>1. ps[b] = IF At(b) = {} THEN 0 ELSE Latest(b)
        OBVIOUS
    <2>2. At(b) # {} => Latest(b) \in At(b) /\ Latest(b) \in Nat /\ Latest(b) # 0
        <3> HAVE At(b) # {}
        <3>1. Latest(b) \in At(b)
            BY <1>5
        <3>2. \A p \in Nat : \A i \in 1..p : i \in Nat /\ i # 0
            OBVIOUS
        <3>3. Latest(b) \in 1..Len(lines)
            BY <1>4, <3>1
        <3> HIDE DEF At, Latest
        <3> QED BY <1>2, <3>1, <3>2, <3>3, Zenon
    <2>3. ~Doubled(b)' => \A i, j \in At(b) : i = j
        <3> SUFFICES ASSUME NEW i \in At(b), NEW j \in At(b), i # j PROVE Doubled(b)'
            OBVIOUS
        <3>1. response'.lines = lines
            BY DEF lines
        <3> QED BY <3>1 DEF Doubled
    <2> HIDE DEF ps, Last, At
    <2> QED BY <2>1, <2>2, <2>3
<1> HIDE DEF ps, cs, At
<1>8. ps \in [OutBuiltin -> Nat]
    BY <1>7 DEF ps
<1>9. PointerInv'
    <2> SUFFICES ASSUME NEW b \in OutBuiltin
                 PROVE  /\ pointer'[b] = 0 => PlacesOf(entry', b) = {}
                        /\ pointer'[b] # 0 => pointer'[b] \in PlacesOf(entry', b)
                        /\ ~Doubled(b)' => PlacesOf(entry', b) \subseteq {pointer'[b]}
        BY DEF PointerInv, PlacesOf
    <2> QED BY <1>1, <1>3, <1>7
<1> QED BY <1>1, <1>3, <1>6, <1>8, <1>9, OutInvAfter

\* Before there is a response there is no entry.
LEMMA OutStarts == Init => OutInv
<1> SUFFICES ASSUME Init PROVE OutInv
    OBVIOUS
<1>1. entry = <<>> /\ pointer = [b \in OutBuiltin |-> 0] /\ cache_control = <<>>
    BY DEF Init, OutInit
<1>2. \A k : PlacesOf(entry, k) = {}
    BY <1>1 DEF PlacesOf
<1>3. entry \in Seq(Entry) /\ cache_control \in Seq(Nat) /\ pointer \in [OutBuiltin -> Nat]
    BY <1>1
<1>4. ToSet(cache_control) = {}
    BY <1>1, SmallSets
<1> QED BY <1>1, <1>2, <1>3, <1>4 DEF OutInv, PointerInv

\* A step that leaves the response alone leaves all of this.
LEMMA OutSame ==
    ASSUME OutInv, UNCHANGED outVars, response' = response
    PROVE  OutInv'
<1>1. /\ entry' = entry /\ pointer' = pointer /\ cache_control' = cache_control
    BY DEF outVars
<1>2. PointerInv'
    BY <1>1, PointersKept DEF OutInv
<1> QED BY <1>1, <1>2 DEF OutInv, PlacesOf, ToSet

\* Every step keeps what headers_out says of its entries, and a header that runs
\* leaves what it asks for.
LEMMA OutStep ==
    ASSUME OutInv, ConfigTypes, PlaceInv, [Next]_vars
    PROVE  /\ OutInv'
           /\ ExecOutput => Current \in Edit /\ (Clearing(Current) => SentAsMeant(Current))
<1>1. CASE ExecOutput
    <2>1. ExecHeader(Current) /\ response' = response /\ Running /\ header <= Len(Command.headers)
        BY <1>1 DEF ExecOutput, NextHeader
    <2>2. Current \in Edit
        BY <2>1, CurrentType
    <2> DEFINE e == Current
    <2>3. e \in Edit /\ ExecHeader(e)
        BY <2>1, <2>2
    <2> HIDE DEF e
    <2>4. OutInv' /\ (Clearing(e) => SentAsMeant(e))
        BY <2>1, <2>3, ExecMeant
    <2> QED BY <2>2, <2>4 DEF e
<1>2. ASSUME ~ExecOutput PROVE OutInv'
    <2>1. CASE \E answer \in Responses[site] : Answer(answer)
        <3>1. PICK answer \in Responses[site] : Answer(answer)
            BY <2>1
        <3>2. Responses[site] \subseteq Answers
            BY HeadersMoreAssumption DEF PlaceInv
        <3>3. answer \in Answers /\ Respond(answer) /\ response' = answer
            BY <3>1, <3>2 DEF Answer
        <3> QED BY <3>3, RespondStarts
    <2>2. CASE \/ \E lines \in Requests[site] : EnterRewrite(lines)
               \/ EndRewrite \/ Redirect \/ Send
        <3>1. UNCHANGED outVars /\ response' = response
            BY <2>2 DEF EnterRewrite, EndRewrite, Redirect, Send
        <3> QED BY <3>1, OutSame
    <2>3. CASE BeginCommand \/ EndCommand \/ BeginHeader \/ RunHeader
        <3>1. UNCHANGED outVars /\ response' = response
            BY <2>3 DEF BeginCommand, EndCommand, BeginHeader, RunHeader, NextHeader,
                        NextCommand, atVars
        <3> QED BY <3>1, OutSame
    <2>4. CASE Configure \/ FailHeader \/ UNCHANGED vars
        <3>1. UNCHANGED outVars /\ response' = response
            BY <2>4 DEF Configure, FailHeader, vars, atVars
        <3> QED BY <3>1, OutSame
    <2> QED BY <1>2, <2>1, <2>2, <2>3, <2>4 DEF Next
<1> QED BY <1>1, <1>2

\* A header of an output command that runs leaves one line of its name with its
\* value, or none if it clears, and with a * none of any name it covers; what is
\* sent of every other name stays as it is.  (Nothing is said of a Cache-Control
\* that is cleared and is not there.  The pointers of headers_out are to
\* entries of their names at every time, and Cache-Control's array holds all of
\* its entries, whatever commands have run.)
THEOREM OutputIsEdited == Spec => OutputEdited
<1> DEFINE Meant1 == ExecOutput /\ ~(Current.key \in Wildcard /\ Current.value # "")
                => \A key \in Name : ~Doubled(key) =>
                    IF ~Names(Current.key, key) THEN Sent(key)' = Sent(key)
                    ELSE ClearsAbsent(Current) \/ Sent(key)' = LinesAfter(key, Current)
<1>1. RequestInv /\ OutInv /\ [Next]_vars => [Meant1]_vars
    <2> SUFFICES ASSUME RequestInv, OutInv, [Next]_vars, ExecOutput, Clearing(Current)
                 PROVE  Meant1
        BY DEF Clearing
    <2>1. SentAsMeant(Current)
        BY OutStep DEF RequestInv, ConfigInv
    <2> QED BY <2>1 DEF SentAsMeant
<1>2. RequestInv /\ OutInv /\ [Next]_vars => OutInv'
    BY OutStep DEF RequestInv, ConfigInv
<1>3. Init => OutInv
    BY OutStarts
<1>4. Spec => [][Meant1]_vars
    BY <1>1, <1>2, <1>3, RequestStarts, RequestKept, PTL DEF Spec
<1> QED BY <1>4 DEF OutputEdited

------------------------------------------------------------------------------
(* The headers a phase runs are those of the commands that are for it      *)

\* A content type, or none.
OptionalType == {<<>>} \cup {<<v>> : v \in Text \cup {""}}

\* What a header makes of one.
LEMMA TypeAfterType ==
    ASSUME NEW input, NEW e \in Edit, NEW type \in OptionalType
    PROVE  TypeAfter(input, e, type) \in OptionalType
<1>1. e.value \in Text \cup {""}
    BY DEF Edit
<1> QED BY <1>1 DEF TypeAfter, OptionalType

\* f[j] is the content type behind the first j headers.
Typed(f, input, headers, type) ==
    f = [j \in 0..Len(headers) |->
            IF j = 0 THEN type ELSE TypeAfter(input, headers[j], f[j - 1])]

\* The content types in the middle of a command.
LEMMA TypesFacts ==
    ASSUME NEW input, NEW headers \in Seq(Edit), NEW type \in OptionalType
    PROVE  /\ TypesThrough(input, headers, type)[0] = type
           /\ \A j \in 0..Len(headers) : TypesThrough(input, headers, type)[j] \in OptionalType
           /\ \A j \in 1..Len(headers) :
                TypesThrough(input, headers, type)[j]
                    = TypeAfter(input, headers[j], TypesThrough(input, headers, type)[j - 1])
<1> DEFINE len == Len(headers)
           V == OptionalType
           G == [x \in V \X (1..len) |-> TypeAfter(input, headers[x[2]], x[1])]
           f == TypesThrough(input, headers, type)
<1>1. len \in Nat /\ \A j \in 1..len : headers[j] \in Edit
    BY LenProperties, ElementOfSeq
<1>2. G \in [V \X (1..len) -> V]
    <2>1. ASSUME NEW x \in V \X (1..len) PROVE TypeAfter(input, headers[x[2]], x[1]) \in V
        <3>1. x[1] \in V /\ x[2] \in 1..len
            OBVIOUS
        <3>2. headers[x[2]] \in Edit
            BY <1>1, <3>1
        <3> QED BY <3>1, <3>2, TypeAfterType
    <2> HIDE DEF V, len
    <2> QED BY <2>1
<1>3. PICK g : Unfolds(g, V, len, type, G)
    <2> HIDE DEF V, len, G
    <2>1. type \in V
        BY DEF V
    <2>2. \E g : Unfolds(g, V, len, type, G)
        BY <1>1, <1>2, <2>1, Recursion
    <2> QED BY <2>2
<1>4. ASSUME NEW j \in 1..len PROVE g[j] = TypeAfter(input, headers[j], g[j - 1])
    <2>1. j - 1 \in 0..len /\ g[j - 1] \in V /\ g[j] = G[<<g[j - 1], j>>]
        <3>1. j - 1 \in 0..len
            BY <1>1
        <3> HIDE DEF V, G
        <3> QED BY <1>3, <3>1 DEF Unfolds
    <2> HIDE DEF V
    <2>2. <<g[j - 1], j>> \in V \X (1..len)
        BY <2>1
    <2> QED BY <2>1, <2>2
<1>5. Typed(g, input, headers, type)
    <2> HIDE DEF V, G
    <2>1. g = [j \in 0..len |-> g[j]] /\ g[0] = type
        BY <1>3 DEF Unfolds
    <2>2. \A j \in 0..len : j # 0 => j \in 1..len
        BY <1>1
    <2>3. g = [j \in 0..len |-> IF j = 0 THEN type ELSE TypeAfter(input, headers[j], g[j - 1])]
        BY <1>4, <2>1, <2>2
    <2> QED BY <2>3 DEF Typed
<1>6. Typed(f, input, headers, type)
    <2>1. f = CHOOSE h : Typed(h, input, headers, type)
        BY Zenon DEF TypesThrough, Typed
    <2> HIDE DEF f
    <2>2. \E h : Typed(h, input, headers, type)
        BY <1>5, Zenon
    <2> QED BY <2>1, <2>2, Zenon
<1> HIDE DEF f, V
<1>7. f[0] = type /\ \A j \in 1..len : f[j] = TypeAfter(input, headers[j], f[j - 1])
    <2>1. 0 \in 0..len /\ \A j \in 1..len : j \in 0..len /\ j # 0
        BY <1>1
    <2>2. \A j \in 0..len : f[j] = IF j = 0 THEN type ELSE TypeAfter(input, headers[j], f[j - 1])
        BY <1>6 DEF Typed
    <2> QED BY <2>1, <2>2
<1>8. \A j \in 0..len : f[j] \in OptionalType
    <2> DEFINE bad == {j \in 0..len : f[j] \notin OptionalType}
    <2> SUFFICES ASSUME bad # {} PROVE FALSE
        OBVIOUS
    <2>1. PICK x \in bad : \A y \in bad : x <= y
        <3>1. bad \subseteq Nat
            BY <1>1
        <3> HIDE DEF bad
        <3> QED BY <3>1, LeastNumber
    <2>2. x # 0 /\ x \in 0..len
        BY <1>7
    <2>3. x \in 1..len /\ x - 1 \in 0..len /\ ~(x <= x - 1)
        BY <1>1, <2>2
    <2>4. f[x - 1] \in OptionalType
        BY <2>1, <2>3
    <2>5. f[x] \in OptionalType
        BY <1>1, <1>7, <2>3, <2>4, TypeAfterType
    <2> QED BY <2>5
<1> QED BY <1>7, <1>8 DEF f

\* d[k] are the headers the first k commands have to run, and the type then.
Tells(input, c, before, code) ==
    IF ~Suits(input, c, before.type, code) THEN before
    ELSE [type |-> TypesThrough(input, c.headers, before.type)[Len(c.headers)],
          ran |-> before.ran \o c.headers]
Told(d, commands, input, type, code) ==
    d = [k \in 0..Len(commands) |->
            IF k = 0 THEN [type |-> type, ran |-> <<>>]
            ELSE Tells(input, commands[k], d[k - 1], code)]

\* They are of their types.
LEMMA TellsType ==
    ASSUME NEW input, NEW c \in CommandType, NEW code,
           NEW before \in [type : OptionalType, ran : Seq(Edit)]
    PROVE  Tells(input, c, before, code) \in [type : OptionalType, ran : Seq(Edit)]
<1>1. c.headers \in Seq(Edit) /\ before.type \in OptionalType /\ before.ran \in Seq(Edit)
    BY DEF CommandType
<1>2. Len(c.headers) \in 0..Len(c.headers)
    BY <1>1, LenProperties
<1>3. TypesThrough(input, c.headers, before.type)[Len(c.headers)] \in OptionalType
    BY <1>1, <1>2, TypesFacts
<1>4. before.ran \o c.headers \in Seq(Edit)
    BY <1>1, ConcatProperties
<1> QED BY <1>3, <1>4 DEF Tells

\* The headers that are due, command by command.
LEMMA DueSteps ==
    ASSUME NEW commands \in Seq(CommandType), NEW input, NEW type \in OptionalType, NEW code
    PROVE  /\ Told(DueOf(commands, input, type, code), commands, input, type, code)
           /\ \A k \in 0..Len(commands) :
                DueOf(commands, input, type, code)[k] \in [type : OptionalType, ran : Seq(Edit)]
<1> DEFINE len == Len(commands)
           V == [type : OptionalType, ran : Seq(Edit)]
           base == [type |-> type, ran |-> <<>>]
           G == [x \in V \X (1..len) |-> Tells(input, commands[x[2]], x[1], code)]
           f == DueOf(commands, input, type, code)
<1>1. len \in Nat /\ (\A k \in 1..len : commands[k] \in CommandType) /\ base \in V
    BY LenProperties, ElementOfSeq
<1>2. G \in [V \X (1..len) -> V]
    <2>1. ASSUME NEW x \in V \X (1..len) PROVE Tells(input, commands[x[2]], x[1], code) \in V
        <3> HIDE DEF V, len
        <3>1. x[1] \in V /\ x[2] \in 1..len
            OBVIOUS
        <3>2. commands[x[2]] \in CommandType
            BY <1>1, <3>1
        <3> QED BY <3>1, <3>2, TellsType DEF V
    <2> HIDE DEF V, len
    <2> QED BY <2>1
<1>3. PICK g : Unfolds(g, V, len, base, G)
    <2> HIDE DEF V, len, G, base
    <2>1. \E g : Unfolds(g, V, len, base, G)
        BY <1>1, <1>2, Recursion
    <2> QED BY <2>1
<1> HIDE DEF base
<1>4. ASSUME NEW j \in 1..len PROVE g[j] = Tells(input, commands[j], g[j - 1], code)
    <2>1. j - 1 \in 0..len /\ g[j - 1] \in V /\ g[j] = G[<<g[j - 1], j>>]
        <3>1. j - 1 \in 0..len
            BY <1>1
        <3> HIDE DEF V, G
        <3> QED BY <1>3, <3>1 DEF Unfolds
    <2> HIDE DEF V
    <2>2. <<g[j - 1], j>> \in V \X (1..len)
        BY <2>1
    <2> QED BY <2>1, <2>2
<1>5. Told(g, commands, input, type, code)
    <2> HIDE DEF V, G
    <2>1. g = [j \in 0..len |-> g[j]] /\ g[0] = base
        BY <1>3 DEF Unfolds
    <2>2. \A j \in 0..len : j # 0 => j \in 1..len
        BY <1>1
    <2>3. g = [j \in 0..len |-> IF j = 0 THEN base ELSE Tells(input, commands[j], g[j - 1], code)]
        BY <1>4, <2>1, <2>2
    <2> QED BY <2>3 DEF Told, base
<1>6. Told(f, commands, input, type, code)
    <2>1. f = CHOOSE h : Told(h, commands, input, type, code)
        BY Zenon DEF DueOf, Told, Tells
    <2> HIDE DEF f
    <2>2. \E h : Told(h, commands, input, type, code)
        BY <1>5, Zenon
    <2> QED BY <2>1, <2>2, Zenon
<1> HIDE DEF f, V
<1>7. f[0] = base /\ \A j \in 1..len : f[j] = Tells(input, commands[j], f[j - 1], code)
    <2>1. 0 \in 0..len /\ \A j \in 1..len : j \in 0..len /\ j # 0
        BY <1>1
    <2>2. \A j \in 0..len : f[j] = IF j = 0 THEN base ELSE Tells(input, commands[j], f[j - 1], code)
        BY <1>6 DEF Told, base
    <2> QED BY <2>1, <2>2
<1>8. \A j \in 0..len : f[j] \in V
    <2> DEFINE bad == {j \in 0..len : f[j] \notin V}
    <2> SUFFICES ASSUME bad # {} PROVE FALSE
        OBVIOUS
    <2>1. PICK x \in bad : \A y \in bad : x <= y
        <3>1. bad \subseteq Nat
            BY <1>1
        <3> HIDE DEF bad
        <3> QED BY <3>1, LeastNumber
    <2>2. x # 0 /\ x \in 0..len
        BY <1>1, <1>7
    <2>3. x \in 1..len /\ x - 1 \in 0..len /\ ~(x <= x - 1)
        BY <1>1, <2>2
    <2>4. f[x - 1] \in V
        BY <2>1, <2>3
    <2>5. f[x] \in V
        <3>1. commands[x] \in CommandType
            BY <1>1, <2>3
        <3>2. Tells(input, commands[x], f[x - 1], code) \in V
            BY <2>4, <3>1, TellsType DEF V
        <3> QED BY <1>7, <2>3, <3>2
    <2> QED BY <2>5
<1> QED BY <1>6, <1>8 DEF f, V

\* The first of them, and of a command.
LEMMA DueFirst ==
    ASSUME NEW commands \in Seq(CommandType), NEW input, NEW type \in OptionalType, NEW code
    PROVE  DueOf(commands, input, type, code)[0] = [type |-> type, ran |-> <<>>]
<1>1. 0 \in 0..Len(commands)
    BY LenProperties
<1>2. Told(DueOf(commands, input, type, code), commands, input, type, code)
    BY DueSteps
<1> QED BY <1>1, <1>2 DEF Told

\* A command adds its headers, or none.
LEMMA DueNext ==
    ASSUME NEW commands \in Seq(CommandType), NEW input, NEW type \in OptionalType, NEW code,
           NEW k \in 1..Len(commands)
    PROVE  DueOf(commands, input, type, code)[k]
             = Tells(input, commands[k], DueOf(commands, input, type, code)[k - 1], code)
<1>1. k \in 0..Len(commands) /\ k # 0
    BY LenProperties
<1>2. Told(DueOf(commands, input, type, code), commands, input, type, code)
    BY DueSteps
<1> DEFINE due == DueOf(commands, input, type, code)
<1> HIDE DEF due
<1> QED BY <1>1, <1>2 DEF Told, due

\* A phase is at header h of command k of these, r are the headers it has run, and
\* the message has this type now.
Goes(commands, input, first, code, k, h, r, type) ==
    /\ k \in 1..(Len(commands) + 1)
    /\ LET before == DueOf(commands, input, first, code)[k - 1]
           c == commands[k]
       IN  IF h = 0 THEN type = before.type /\ r = before.ran
           ELSE /\ k <= Len(commands) /\ h \in 1..(Len(c.headers) + 1)
                /\ Suits(input, c, before.type, code)
                /\ type = TypesThrough(input, c.headers, before.type)[h - 1]
                /\ r = before.ran \o SubSeq(c.headers, 1, h - 1)

\* A phase begins with its first command.
LEMMA GoesFirst ==
    ASSUME NEW commands \in Seq(CommandType), NEW input, NEW first \in OptionalType, NEW code
    PROVE  Goes(commands, input, first, code, 1, 0, <<>>, first)
<1>1. 1 \in 1..(Len(commands) + 1) /\ 1 - 1 = 0
    BY LenProperties
<1>2. DueOf(commands, input, first, code)[0] = [type |-> first, ran |-> <<>>]
    BY DueFirst
<1> QED BY <1>1, <1>2 DEF Goes

\* What is known of the command the phase is at.
LEMMA GoesFacts ==
    ASSUME NEW commands \in Seq(CommandType), NEW input, NEW first \in OptionalType, NEW code,
           NEW k \in 1..Len(commands)
    PROVE  /\ k - 1 \in 0..Len(commands) /\ k + 1 \in 1..(Len(commands) + 1) /\ (k + 1) - 1 = k
           /\ k \in 1..(Len(commands) + 1)
           /\ commands[k].headers \in Seq(Edit)
           /\ DueOf(commands, input, first, code)[k - 1].type \in OptionalType
           /\ DueOf(commands, input, first, code)[k - 1].ran \in Seq(Edit)
           /\ DueOf(commands, input, first, code)[k]
                = Tells(input, commands[k], DueOf(commands, input, first, code)[k - 1], code)
<1>1. /\ k - 1 \in 0..Len(commands) /\ k + 1 \in 1..(Len(commands) + 1) /\ (k + 1) - 1 = k
      /\ k \in 1..(Len(commands) + 1)
    BY LenProperties
<1>2. commands[k] \in CommandType
    BY ElementOfSeq
<1>3. commands[k].headers \in Seq(Edit)
    BY <1>2 DEF CommandType
<1>4. DueOf(commands, input, first, code)[k - 1] \in [type : OptionalType, ran : Seq(Edit)]
    BY <1>1, DueSteps
<1>5. DueOf(commands, input, first, code)[k]
        = Tells(input, commands[k], DueOf(commands, input, first, code)[k - 1], code)
    BY DueNext
<1> QED BY <1>1, <1>3, <1>4, <1>5

\* A command that is passed over.
LEMMA GoesPast ==
    ASSUME NEW commands \in Seq(CommandType), NEW input, NEW first \in OptionalType, NEW code,
           NEW k \in 1..Len(commands), NEW r, NEW type,
           Goes(commands, input, first, code, k, 0, r, type),
           commands[k].headers = <<>> \/ ~Suits(input, commands[k], type, code)
    PROVE  Goes(commands, input, first, code, k + 1, 0, r, type)
<1> DEFINE due == DueOf(commands, input, first, code)
           before == due[k - 1]
           c == commands[k]
<1>1. type = before.type /\ r = before.ran
    BY DEF Goes
<1>2. /\ k + 1 \in 1..(Len(commands) + 1) /\ (k + 1) - 1 = k
      /\ before.type \in OptionalType /\ before.ran \in Seq(Edit) /\ due[k] = Tells(input, c, before, code)
    BY GoesFacts
<1>3. due[k].type = type /\ due[k].ran = r
    <2>1. CASE ~Suits(input, c, before.type, code)
        BY <1>1, <1>2, <2>1 DEF Tells
    <2>2. CASE Suits(input, c, before.type, code)
        <3>1. c.headers = <<>>
            BY <1>1, <2>2
        <3>2. Len(c.headers) = 0
            BY <3>1
        <3>3. TypesThrough(input, c.headers, before.type)[0] = before.type
            <4>1. c.headers \in Seq(Edit)
                BY <3>1
            <4> QED BY <1>2, <4>1, TypesFacts
        <3>4. before.ran \o c.headers = before.ran
            BY <1>2, <3>1, ConcatEmptySeq
        <3> HIDE DEF before, c, due
        <3>5. due[k] = [type |-> TypesThrough(input, c.headers, before.type)[Len(c.headers)],
                        ran |-> before.ran \o c.headers]
            BY <1>2, <2>2 DEF Tells
        <3> QED BY <1>1, <3>2, <3>3, <3>4, <3>5
    <2> QED BY <2>1, <2>2
<1> HIDE DEF due
<1> QED BY <1>2, <1>3 DEF Goes, due

\* A command whose headers begin.
LEMMA GoesIn ==
    ASSUME NEW commands \in Seq(CommandType), NEW input, NEW first \in OptionalType, NEW code,
           NEW k \in 1..Len(commands), NEW r, NEW type,
           Goes(commands, input, first, code, k, 0, r, type),
           Suits(input, commands[k], type, code)
    PROVE  Goes(commands, input, first, code, k, 1, r, type)
<1> DEFINE due == DueOf(commands, input, first, code)
           before == due[k - 1]
           c == commands[k]
<1>1. type = before.type /\ r = before.ran
    BY DEF Goes
<1>2. /\ k \in 1..(Len(commands) + 1)
      /\ before.type \in OptionalType /\ before.ran \in Seq(Edit) /\ c.headers \in Seq(Edit)
    BY GoesFacts
<1>3. 1 \in 1..(Len(c.headers) + 1) /\ 1 - 1 = 0 /\ k <= Len(commands) /\ 1 # 0
    BY <1>2, LenProperties
<1>4. SubSeq(c.headers, 1, 0) = <<>>
    BY <1>2
<1>5. before.ran \o SubSeq(c.headers, 1, 0) = r
    BY <1>1, <1>2, <1>4, ConcatEmptySeq
<1>6. TypesThrough(input, c.headers, before.type)[0] = type
    BY <1>1, <1>2, TypesFacts
<1>7. Suits(input, c, before.type, code)
    BY <1>1
<1> QED BY <1>2, <1>3, <1>5, <1>6, <1>7 DEF Goes

\* A header that has run.
LEMMA GoesOnward ==
    ASSUME NEW commands \in Seq(CommandType), NEW input, NEW first \in OptionalType, NEW code,
           NEW k \in 1..Len(commands), NEW h \in 1..Len(commands[k].headers), NEW r, NEW type,
           Goes(commands, input, first, code, k, h, r, type)
    PROVE  Goes(commands, input, first, code, k, h + 1, Append(r, commands[k].headers[h]),
                TypeAfter(input, commands[k].headers[h], type))
<1> DEFINE due == DueOf(commands, input, first, code)
           before == due[k - 1]
           c == commands[k]
           s == c.headers
<1>1. /\ k \in 1..(Len(commands) + 1)
      /\ before.type \in OptionalType /\ before.ran \in Seq(Edit) /\ s \in Seq(Edit)
    BY GoesFacts
<1>2. /\ Len(s) \in Nat /\ h \in Nat /\ h # 0 /\ h + 1 # 0 /\ h + 1 \in 1..(Len(s) + 1)
      /\ (h + 1) - 1 = h /\ h - 1 \in 0..Len(s) /\ s[h] \in Edit
    BY <1>1, LenProperties, ElementOfSeq
<1>3. /\ k <= Len(commands) /\ Suits(input, c, before.type, code)
      /\ type = TypesThrough(input, s, before.type)[h - 1]
      /\ r = before.ran \o SubSeq(s, 1, h - 1)
    BY <1>2 DEF Goes
<1> HIDE DEF s
<1>4. TypesThrough(input, s, before.type)[h] = TypeAfter(input, s[h], type)
    <2>1. h \in 1..Len(s)
        BY DEF s
    <2> HIDE DEF before
    <2> QED BY <1>1, <1>3, <2>1, TypesFacts
<1>5. SubSeq(s, 1, h) = Append(SubSeq(s, 1, h - 1), s[h]) /\ SubSeq(s, 1, h - 1) \in Seq(Edit)
    <2>1. s \in Seq(Edit) /\ h \in 1..Len(s)
        BY <1>1 DEF s
    <2> QED BY ONLY <2>1, <1>2
<1>6. Append(before.ran \o SubSeq(s, 1, h - 1), s[h]) = before.ran \o SubSeq(s, 1, h)
    <2> DEFINE a == before.ran
               b == SubSeq(s, 1, h - 1)
               x == s[h]
    <2>1. a \in Seq(Edit) /\ b \in Seq(Edit) /\ x \in Edit
        BY <1>1, <1>2, <1>5
    <2> HIDE DEF a, b, x
    <2>2. Append(a \o b, x) = a \o Append(b, x)
        <3>1. Put(Cat(a, b), x) = Cat(a, Put(b, x))
            BY ONLY <2>1, AppendBehind
        <3> QED BY ONLY <3>1 DEF Put, Cat
    <2>3. SubSeq(s, 1, h) = Append(b, x)
        BY ONLY <1>5 DEF b, x
    <2> QED BY ONLY <2>2, <2>3 DEF a, b, x
<1> QED BY <1>1, <1>2, <1>3, <1>4, <1>6 DEF Goes, s

\* A command that has ended.
LEMMA GoesOut ==
    ASSUME NEW commands \in Seq(CommandType), NEW input, NEW first \in OptionalType, NEW code,
           NEW k \in 1..Len(commands), NEW h \in Nat \ {0}, NEW r, NEW type,
           Goes(commands, input, first, code, k, h, r, type), h > Len(commands[k].headers)
    PROVE  Goes(commands, input, first, code, k + 1, 0, r, type)
<1> DEFINE due == DueOf(commands, input, first, code)
           before == due[k - 1]
           c == commands[k]
           s == c.headers
<1>1. /\ k + 1 \in 1..(Len(commands) + 1) /\ (k + 1) - 1 = k /\ s \in Seq(Edit)
      /\ before.ran \in Seq(Edit) /\ due[k] = Tells(input, c, before, code)
    BY GoesFacts
<1>2. /\ h \in 1..(Len(s) + 1) /\ Suits(input, c, before.type, code)
      /\ type = TypesThrough(input, s, before.type)[h - 1]
      /\ r = before.ran \o SubSeq(s, 1, h - 1)
    BY DEF Goes
<1>3. h - 1 = Len(s)
    <2>1. Len(s) \in Nat /\ h > Len(s) /\ h \in 1..(Len(s) + 1)
        BY <1>1, <1>2, LenProperties
    <2> HIDE DEF s
    <2> QED BY ONLY <2>1
<1>4. SubSeq(s, 1, Len(s)) = s
    <2> HIDE DEF s
    <2> QED BY ONLY <1>1
<1>5. due[k].type = type /\ due[k].ran = r
    <2> HIDE DEF s, before, due
    <2>1. due[k] = [type |-> TypesThrough(input, s, before.type)[Len(s)], ran |-> before.ran \o s]
        BY <1>1, <1>2 DEF Tells, s
    <2>2. TypesThrough(input, s, before.type)[Len(s)] = type
        BY <1>2, <1>3
    <2>3. before.ran \o s = r
        BY <1>2, <1>3, <1>4
    <2> QED BY <2>1, <2>2, <2>3
<1> HIDE DEF due
<1> QED BY <1>1, <1>5 DEF Goes, due

\* The phase behind its last command.
LEMMA GoesLast ==
    ASSUME NEW commands \in Seq(CommandType), NEW input, NEW first, NEW code,
           NEW k \in Nat, NEW h, NEW r, NEW type,
           Goes(commands, input, first, code, k, h, r, type), k > Len(commands)
    PROVE  r = DueOf(commands, input, first, code)[Len(commands)].ran
<1>1. k - 1 = Len(commands) /\ ~(k <= Len(commands))
    <2>1. Len(commands) \in Nat /\ k \in 1..(Len(commands) + 1)
        BY LenProperties DEF Goes
    <2> QED BY <2>1
<1> QED BY <1>1 DEF Goes

\* The first line of a name behind others: theirs, if they have one.
LEMMA TypeOfAppend ==
    ASSUME NEW s \in Seq(Line), NEW l \in Line
    PROVE  TypeOf(Append(s, l))
             = IF TypeOf(s) # <<>> THEN TypeOf(s)
               ELSE IF l.key = "content-type" THEN <<l.value>> ELSE <<>>
<1> DEFINE t == Append(s, l)
           len == Len(s)
           key == "content-type"
<1>1. /\ t \in Seq(Line) /\ Len(t) = len + 1 /\ len \in Nat /\ t[len + 1] = l
      /\ \A i \in 1..len : t[i] = s[i]
    BY AppendProperties, LenProperties
<1> HIDE DEF t, len, key
<1>2. CASE \E j \in 1..len : s[j].key = key
    <2> DEFINE i == FirstNamed(s, key)
    <2>1. i \in 1..len /\ s[i].key = key /\ \A j \in 1..(i - 1) : s[j].key # key
        BY <1>2, FirstIs DEF len
    <2> HIDE DEF i
    <2>2. i \in 1..Len(t) /\ \A j \in 1..(i - 1) : j \in 1..len
        BY <1>1, <2>1
    <2>3. t[i].key = key /\ \A j \in 1..(i - 1) : t[j].key # key
        BY <1>1, <2>1, <2>2
    <2>4. FirstNamed(t, key) = i
        BY <1>1, <2>2, <2>3, FirstAt
    <2>5. TypeOf(s) = <<s[i].value>> /\ TypeOf(t) = <<t[i].value>>
        BY <2>1, <2>4, <2>2 DEF TypeOf, i, key
    <2> QED BY <1>1, <2>1, <2>5 DEF t
<1>3. CASE ~\E j \in 1..len : s[j].key = key
    <2>1. FirstNamed(s, key) = 0
        <3>1. \A j \in 1..Len(s) : s[j].key # key
            BY <1>3 DEF len
        <3> QED BY ONLY <3>1, s \in Seq(Line), FirstNone
    <2>2. TypeOf(s) = <<>>
        BY <2>1 DEF TypeOf, key
    <2>3. CASE l.key = key
        <3> DEFINE i == len + 1
        <3>1. i \in 1..Len(t) /\ i # 0 /\ \A j \in 1..(i - 1) : j \in 1..len
            BY <1>1
        <3>2. t[i].key = key /\ \A j \in 1..(i - 1) : t[j].key # key
            BY <1>1, <1>3, <2>3, <3>1
        <3> HIDE DEF i
        <3>3. FirstNamed(t, key) = i
            BY <1>1, <3>1, <3>2, FirstAt
        <3>4. TypeOf(t) = <<t[i].value>>
            BY <3>1, <3>3 DEF TypeOf, key
        <3> QED BY <1>1, <2>2, <2>3, <3>4 DEF i, t, key
    <2>4. CASE l.key # key
        <3>1. \A j \in 1..Len(t) : t[j].key # key
            <4>1. \A j \in 1..(len + 1) : j \in 1..len \/ j = len + 1
                BY <1>1
            <4> QED BY <1>1, <1>3, <2>4, <4>1
        <3>2. FirstNamed(t, key) = 0
            BY ONLY <3>1, <1>1, FirstNone
        <3>3. TypeOf(t) = <<>>
            BY <3>2 DEF TypeOf, key
        <3> QED BY <2>2, <2>4, <3>3 DEF t, key
    <2> QED BY <2>3, <2>4
<1> QED BY <1>2, <1>3

\* The lines of other names, with one line more.
LEMMA WithoutAppend ==
    ASSUME NEW s \in Seq(Line), NEW l \in Line, NEW key
    PROVE  Without(Append(s, l), key)
             = IF l.key = key THEN Without(s, key) ELSE Append(Without(s, key), l)
<1> DEFINE one == <<l>>
           w == Without(s, key)
<1>1. one \in Seq(Line) /\ Append(s, l) = s \o one /\ w \in Seq(Line)
    BY WithoutType
<1>2. Without(one, key) = IF l.key = key THEN <<>> ELSE <<l>>
    BY WithoutOne
<1> HIDE DEF one, w
<1>3. Without(s \o one, key) = w \o Without(one, key)
    <2>1. Without(Cat(s, one), key) = Cat(Without(s, key), Without(one, key))
        BY <1>1, WithoutCat
    <2> QED BY ONLY <2>1 DEF Cat, w
<1>4. CASE l.key = key
    BY <1>1, <1>2, <1>3, <1>4, ConcatEmptySeq DEF w
<1>5. CASE l.key # key
    <2>1. w \o <<l>> = Append(w, l)
        BY <1>1
    <2> QED BY <1>1, <1>2, <1>3, <1>5, <2>1 DEF w
<1> QED BY <1>4, <1>5

\* A clear of another name leaves the content type.
LEMMA TypeWithout ==
    ASSUME NEW lines \in Seq(Line), NEW key, key # "content-type"
    PROVE  TypeOf(Without(lines, key)) = TypeOf(lines)
<1> DEFINE P == {s \in Seq(Line) : TypeOf(Without(s, key)) = TypeOf(s)}
<1>1. <<>> \in P
    <2>1. <<>> \in Seq(Line) /\ \A i \in 1..Len(<<>>) : <<>>[i].key # key
        OBVIOUS
    <2>2. Without(<<>>, key) = <<>>
        BY ONLY <2>1, WithoutNone
    <2> QED BY <2>1, <2>2
<1>2. ASSUME NEW s \in Seq(Line), NEW l \in Line, s \in P PROVE Append(s, l) \in P
    <2>1. Append(s, l) \in Seq(Line)
        BY AppendProperties
    <2>2. TypeOf(Without(s, key)) = TypeOf(s) /\ Without(s, key) \in Seq(Line)
        BY <1>2, WithoutType
    <2>3. CASE l.key = key
        BY <2>1, <2>2, <2>3, TypeOfAppend, WithoutAppend
    <2>4. CASE l.key # key
        <3>1. Without(Append(s, l), key) = Append(Without(s, key), l)
            BY <2>4, WithoutAppend
        <3> DEFINE w == Without(s, key)
        <3> HIDE DEF w
        <3>2. w \in Seq(Line) /\ TypeOf(w) = TypeOf(s)
            BY <2>2 DEF w
        <3>3. TypeOf(Append(w, l)) = TypeOf(Append(s, l))
            BY <3>2, TypeOfAppend
        <3> QED BY <2>1, <3>1, <3>3 DEF w
    <2> QED BY <2>3, <2>4
<1> HIDE DEF P
<1>3. \A s \in Seq(Line) : s \in P
    BY <1>1, <1>2, SequenceInduction
<1> QED BY <1>3 DEF P

\* A clear of the content type leaves none.
LEMMA TypeCleared ==
    ASSUME NEW lines \in Seq(Line)
    PROVE  TypeOf(Without(lines, "content-type")) = <<>>
<1> DEFINE key == "content-type"
           P == {s \in Seq(Line) : TypeOf(Without(s, key)) = <<>>}
<1>1. <<>> \in P
    <2>1. <<>> \in Seq(Line) /\ \A i \in 1..Len(<<>>) : <<>>[i].key # key
        OBVIOUS
    <2>2. Without(<<>>, key) = <<>>
        BY ONLY <2>1, WithoutNone
    <2>3. FirstNamed(<<>>, key) = 0
        BY ONLY <2>1, FirstNone
    <2> QED BY <2>1, <2>2, <2>3 DEF TypeOf
<1>2. ASSUME NEW s \in Seq(Line), NEW l \in Line, s \in P PROVE Append(s, l) \in P
    <2>1. Append(s, l) \in Seq(Line)
        BY AppendProperties
    <2>2. TypeOf(Without(s, key)) = <<>> /\ Without(s, key) \in Seq(Line)
        BY <1>2, WithoutType
    <2>3. CASE l.key = key
        BY <2>1, <2>2, <2>3, WithoutAppend
    <2>4. CASE l.key # key
        <3>1. Without(Append(s, l), key) = Append(Without(s, key), l)
            BY <2>4, WithoutAppend
        <3> DEFINE w == Without(s, key)
        <3> HIDE DEF w
        <3>2. w \in Seq(Line) /\ TypeOf(w) = <<>>
            BY <2>2 DEF w
        <3>3. TypeOf(Append(w, l)) = <<>>
            BY <2>4, <3>2, TypeOfAppend
        <3> QED BY <2>1, <3>1, <3>3 DEF w
    <2> QED BY <2>3, <2>4
<1> HIDE DEF P
<1>3. \A s \in Seq(Line) : s \in P
    BY <1>1, <1>2, SequenceInduction
<1> QED BY <1>3 DEF P

\* A line takes another value.
LEMMA TypeReplaced ==
    ASSUME NEW lines \in Seq(Line), NEW i \in 1..Len(lines), NEW v,
           i = FirstNamed(lines, lines[i].key)
    PROVE  TypeOf([lines EXCEPT ![i].value = v])
             = IF lines[i].key = "content-type" THEN <<v>> ELSE TypeOf(lines)
<1> DEFINE new == [lines EXCEPT ![i].value = v]
           key == "content-type"
           f == FirstNamed(lines, key)
<1>0. DOMAIN lines = 1..Len(lines) /\ Len(lines) \in Nat
    BY LenProperties
<1>1. /\ DOMAIN new = DOMAIN lines
      /\ \A j \in DOMAIN lines : new[j].key = lines[j].key /\ (j # i => new[j] = lines[j])
      /\ new[i].value = v
    <2>1. \A j \in 1..Len(lines) : lines[j] \in Line
        BY ElementOfSeq
    <2> QED BY <1>0, <2>1 DEF Line
<1> HIDE DEF new, key
<1>2. FirstNamed(new, key) = f
    <2>1. \A j \in DOMAIN lines : \A m \in 1..(j - 1) : m \in DOMAIN lines
        BY <1>0
    <2>2. (\E j \in DOMAIN new : new[j].key = key) <=> (\E j \in DOMAIN lines : lines[j].key = key)
        BY <1>1
    <2>3. ASSUME NEW j \in DOMAIN lines
          PROVE  (new[j].key = key /\ \A m \in 1..(j - 1) : new[m].key # key)
                   <=> (lines[j].key = key /\ \A m \in 1..(j - 1) : lines[m].key # key)
        BY <1>1, <2>1
    <2>4. {j \in DOMAIN new : new[j].key = key /\ \A m \in 1..(j - 1) : new[m].key # key}
            = {j \in DOMAIN lines : lines[j].key = key /\ \A m \in 1..(j - 1) : lines[m].key # key}
        BY <1>1, <2>3
    <2>5. CASE \E j \in 1..Len(lines) : lines[j].key = key
        <3>1. f \in 1..Len(lines) /\ lines[f].key = key /\ \A m \in 1..(f - 1) : lines[m].key # key
            BY <2>5, FirstIs
        <3> HIDE DEF f
        <3>2. f \in DOMAIN new /\ new[f].key = key /\ \A m \in 1..(f - 1) : new[m].key # key
            BY <1>0, <1>1, <2>3, <3>1
        <3>3. \E j \in DOMAIN new : new[j].key = key
            BY <3>2
        <3>4. ASSUME NEW j \in DOMAIN new, new[j].key = key, \A m \in 1..(j - 1) : new[m].key # key
              PROVE  j = f
            <4>1. j \in 1..Len(lines) /\ f \in 1..Len(lines)
                BY <1>0, <1>1, <3>1
            <4>2. ~(j \in 1..(f - 1)) /\ ~(f \in 1..(j - 1))
                BY <3>2, <3>4
            <4> QED BY <1>0, <4>1, <4>2
        <3> QED BY <3>2, <3>3, <3>4, Zenon DEF FirstNamed, First
    <2>6. CASE ~\E j \in 1..Len(lines) : lines[j].key = key
        <3>1. \A j \in 1..Len(lines) : lines[j].key # key
            BY <2>6
        <3>2. f = 0
            BY ONLY <3>1, lines \in Seq(Line), FirstNone DEF f
        <3>3. ~\E j \in DOMAIN new : new[j].key = key
            BY <1>0, <2>2, <2>6
        <3>4. FirstNamed(new, key) = 0
            BY <3>3, Zenon DEF FirstNamed, First
        <3> QED BY <3>2, <3>4
    <2> QED BY <2>5, <2>6
<1>3. CASE lines[i].key = key
    <2>1. f = i /\ i # 0
        BY <1>0, <1>3
    <2>2. TypeOf(new) = <<v>>
        BY <1>1, <1>2, <2>1 DEF TypeOf, key
    <2> QED BY <1>3, <2>2 DEF new, key
<1>4. CASE lines[i].key # key
    <2>1. f = 0 \/ (f \in 1..Len(lines) /\ lines[f].key = key)
        <3>1. CASE \E j \in 1..Len(lines) : lines[j].key = key
            BY <3>1, FirstIs
        <3>2. CASE ~\E j \in 1..Len(lines) : lines[j].key = key
            <4>1. \A j \in 1..Len(lines) : lines[j].key # key
                BY <3>2
            <4>2. f = 0
                BY ONLY <4>1, lines \in Seq(Line), FirstNone DEF f
            <4> QED BY <4>2
        <3> QED BY <3>1, <3>2
    <2>2. f # i \/ f = 0
        BY <1>4, <2>1
    <2>3. f # 0 => new[f] = lines[f]
        BY <1>0, <1>1, <2>1, <2>2
    <2>4. TypeOf(new) = TypeOf(lines)
        BY <1>2, <2>3, Zenon DEF TypeOf, key, f
    <2> QED BY <1>4, <2>4 DEF new, key
<1> QED BY <1>3, <1>4

\* What a header of an input command makes of the content type.
LEMMA TypeEdited ==
    ASSUME NEW lines \in Seq(Line), NEW e \in Edit
    PROVE  TypeOf(Edited(lines, e)) = TypeAfter(TRUE, e, TypeOf(lines))
<1> DEFINE i == FirstNamed(lines, e.key)
           key == "content-type"
<1>0. e.key \in Key /\ e.value \in Text \cup {""} /\ e.replace \in BOOLEAN
    BY DEF Edit
<1>1. \/ i = 0
      \/ i \in 1..Len(lines) /\ lines[i].key = e.key
    <2>1. CASE \E j \in 1..Len(lines) : lines[j].key = e.key
        BY <2>1, FirstIs
    <2>2. CASE ~\E j \in 1..Len(lines) : lines[j].key = e.key
        <3>1. \A j \in 1..Len(lines) : lines[j].key # e.key
            BY <2>2
        <3>2. i = 0
            BY ONLY <3>1, lines \in Seq(Line), FirstNone DEF i
        <3> QED BY <3>2
    <2> QED BY <2>1, <2>2
<1>2. e.key = key => (TypeOf(lines) = <<>> <=> i = 0)
    BY DEF TypeOf
<1>3. CASE e.value = ""
    <2>1. Edited(lines, e) = Without(lines, e.key)
        BY <1>3 DEF Edited
    <2>2. CASE e.key = key
        <3>1. TypeOf(Without(lines, e.key)) = <<>>
            BY <2>2, TypeCleared
        <3>2. TypeAfter(TRUE, e, TypeOf(lines)) = <<>>
            BY <1>3, <2>2 DEF TypeAfter
        <3> QED BY <2>1, <3>1, <3>2
    <2>3. CASE e.key # key
        BY <2>1, <2>3, TypeWithout DEF TypeAfter
    <2> QED BY <2>2, <2>3
<1>4. CASE e.value # "" /\ i # 0
    <2>1. Edited(lines, e) = [lines EXCEPT ![i].value = e.value]
        BY <1>4 DEF Edited
    <2>2. i \in 1..Len(lines) /\ lines[i].key = e.key /\ i = FirstNamed(lines, lines[i].key)
        BY <1>1, <1>4
    <2> HIDE DEF i
    <2>3. TypeOf(Edited(lines, e)) = IF e.key = key THEN <<e.value>> ELSE TypeOf(lines)
        <3> DEFINE v == e.value
        <3> HIDE DEF v
        <3>1. TypeOf([lines EXCEPT ![i].value = v])
                = IF lines[i].key = key THEN <<v>> ELSE TypeOf(lines)
            BY <2>2, TypeReplaced
        <3> QED BY <2>1, <2>2, <3>1 DEF v
    <2> QED BY <1>2, <1>4, <2>3 DEF TypeAfter
<1>5. CASE e.value # "" /\ i = 0 /\ e.replace
    <2>1. Edited(lines, e) = lines
        BY <1>5 DEF Edited
    <2> QED BY <1>2, <1>5, <2>1 DEF TypeAfter
<1>6. CASE e.value # "" /\ i = 0 /\ ~e.replace
    <2> DEFINE l == [key |-> e.key, value |-> e.value]
    <2>1. Edited(lines, e) = Append(lines, l) /\ l \in Line
        BY <1>0, <1>6 DEF Edited, Line
    <2>2. l.key = e.key /\ l.value = e.value
        OBVIOUS
    <2> HIDE DEF l
    <2>3. TypeOf(Edited(lines, e))
            = IF TypeOf(lines) # <<>> THEN TypeOf(lines)
              ELSE IF l.key = key THEN <<l.value>> ELSE <<>>
        BY <2>1, TypeOfAppend
    <2> QED BY <1>2, <1>6, <2>2, <2>3 DEF TypeAfter
<1> QED BY <1>0, <1>3, <1>4, <1>5, <1>6

\* The content type of a list of lines, or none.
LEMMA TypeOfType ==
    ASSUME NEW lines \in Seq(Line)
    PROVE  /\ TypeOf(lines) \in OptionalType
           /\ FirstNamed(lines, "content-type") = 0
                \/ FirstNamed(lines, "content-type") \in 1..Len(lines)
<1> DEFINE key == "content-type"
           i == FirstNamed(lines, key)
<1>1. i = 0 \/ i \in 1..Len(lines)
    <2> HIDE DEF key
    <2>1. CASE \E j \in 1..Len(lines) : lines[j].key = key
        BY <2>1, FirstIs
    <2>2. CASE ~\E j \in 1..Len(lines) : lines[j].key = key
        <3>1. \A j \in 1..Len(lines) : lines[j].key # key
            BY <2>2
        <3>2. FirstNamed(lines, key) = 0
            BY ONLY <3>1, lines \in Seq(Line), FirstNone
        <3> QED BY <3>2
    <2> QED BY <2>1, <2>2
<1>2. TypeOf(lines) = IF i = 0 THEN <<>> ELSE <<lines[i].value>>
    BY DEF TypeOf
<1> HIDE DEF i
<1>3. i \in 1..Len(lines) => lines[i].value \in Text \cup {""}
    <2> SUFFICES ASSUME i \in 1..Len(lines) PROVE lines[i].value \in Text \cup {""}
        OBVIOUS
    <2>1. lines[i] \in Line
        BY ElementOfSeq
    <2> QED BY <2>1 DEF Line
<1>4. TypeOf(lines) \in OptionalType
    BY <1>1, <1>2, <1>3 DEF OptionalType
<1> QED BY <1>1, <1>4 DEF i

\* The commands of the location.
LEMMA CommandsHere ==
    ASSUME ConfigTypes
    PROVE  Commands \in Seq(CommandType) /\ Len(Commands) \in Nat
<1>1. Levels \in Level
    BY LevelsAssumption DEF Level
<1>2. Commands \in Seq(CommandType)
    BY <1>1 DEF Commands, ConfigTypes
<1> QED BY <1>2, LenProperties

\* A command of the location.
LEMMA CommandHere ==
    ASSUME ConfigTypes, PlaceInv, n <= Len(Commands)
    PROVE  /\ n \in 1..Len(Commands) /\ Command \in CommandType
           /\ Command.headers \in Seq(Edit) /\ Len(Command.headers) \in Nat
<1>1. Commands \in Seq(CommandType) /\ Len(Commands) \in Nat
    BY CommandsHere
<1>2. n \in 1..Len(Commands)
    BY <1>1 DEF PlaceInv
<1>3. Command \in CommandType
    BY <1>1, <1>2, ElementOfSeq DEF Command
<1>4. Command.headers \in Seq(Edit)
    BY <1>3 DEF CommandType
<1>5. Len(Command.headers) \in Nat
    BY <1>4, LenProperties
<1> QED BY <1>2, <1>3, <1>4, <1>5

\* The lines of a request none of whose removals has failed.
LEMMA RequestLines ==
    ASSUME RoomInv, ~spoiled
    PROVE  Lines \in Seq(Line) /\ Listed \in Seq(Cells(cell)) /\ Lines = LinesOf(cell, Listed)
           /\ cell \in Seq(Line)
<1>1. Sound /\ cell \in Seq(Line)
    BY DEF RoomInv, CellInv, Sound
<1>2. Listed \in Seq(Cells(cell)) /\ Lines = LinesOf(cell, Listed)
    BY <1>1, ListedSound
<1>3. LinesOf(cell, Listed) \in Seq(Line)
    BY <1>1, <1>2, LinesType
<1> QED BY <1>1, <1>2, <1>3

\* A removal that has failed is not forgotten.
LEMMA SpoiledStays ==
    ASSUME ConfigTypes, PlaceInv, [Next]_vars, ~spoiled'
    PROVE  ~spoiled
<1>1. CASE RemoveMatch
    BY <1>1 DEF RemoveMatch
<1>2. CASE ~RemoveMatch
    <2>1. spoiled' = spoiled
        BY <1>2, StepOfTheList DEF BeginEdit, EditStep, SetThroughSlot, ReplaceMatch,
           NothingToDo, PushLine, Receive, inVars
    <2> QED BY <2>1
<1> QED BY <1>1, <1>2

\* The pointer to the content type is as good as a search for its line.
LEMMA InputSuits ==
    ASSUME RoomInv, SlotsTrue, ~spoiled, edit = NoEdit
    PROVE  InputFits <=> (Command.types = {} \/ \E t \in Command.types : TypeOf(Lines) = <<t>>)
<1> DEFINE key == "content-type"
           i == FirstNamed(Lines, key)
           type == TypeOf(Lines)
<1>1. /\ Lines \in Seq(Line) /\ Listed \in Seq(Cells(cell)) /\ Lines = LinesOf(cell, Listed)
      /\ cell \in Seq(Line)
    BY RequestLines
<1>2. slot[key] = IF i = 0 THEN 0 ELSE Listed[i]
    BY HeadersInAssumption DEF SlotsTrue
<1>3. i = 0 \/ i \in 1..Len(Lines)
    BY <1>1, TypeOfType
<1>4. type = IF i = 0 THEN <<>> ELSE <<Lines[i].value>>
    BY DEF TypeOf
<1> HIDE DEF i, type, key
<1>5. CASE i = 0
    <2>1. slot[key] = 0 /\ type = <<>>
        BY <1>2, <1>4, <1>5
    <2>2. \A t : type # <<t>>
        BY <2>1
    <2>3. ~(slot[key] # 0)
        BY <2>1
    <2> QED BY <2>2, <2>3, Zenon DEF InputFits, key, type
<1>6. CASE i # 0
    <2>1. i \in 1..Len(Listed) /\ Lines[i] = cell[Listed[i]] /\ Listed[i] # 0
        <3>1. /\ Len(LinesOf(cell, Listed)) = Len(Listed)
              /\ \A j \in 1..Len(Listed) : LinesOf(cell, Listed)[j] = cell[Listed[j]]
                                           /\ Listed[j] \in Nat \ {0}
            BY <1>1, LinesType
        <3>2. i \in 1..Len(Listed)
            BY <1>1, <1>3, <1>6, <3>1
        <3> QED BY <1>1, <3>1, <3>2
    <2>2. slot[key] # 0 /\ type = <<cell[slot[key]].value>>
        BY <1>2, <1>4, <1>6, <2>1
    <2>3. \A t : type = <<t>> <=> t = cell[slot[key]].value
        BY <2>2
    <2>4. (\E t \in Command.types : type = <<t>>) <=> cell[slot[key]].value \in Command.types
        BY <2>3, Zenon
    <2> QED BY <2>2, <2>4, Zenon DEF InputFits, key, type
<1> QED BY <1>5, <1>6

\* A command begins or is passed over as its words say.
LEMMA BeginsIf ==
    ASSUME RoomInv, SlotsTrue, ~spoiled, edit = NoEdit, phase \in {"rewrite", "filter"},
           phase = "filter" => status = response.status /\ content_type \in Text \cup {""},
           Command \in CommandType
    PROVE  (/\ Command.is_input = (phase = "rewrite")
            /\ IF Command.is_input THEN InputFits ELSE OutputFits)
           <=> Suits(phase = "rewrite", Command,
                     IF phase = "filter" THEN IF content_type = "" THEN <<>> ELSE <<content_type>>
                     ELSE TypeOf(Lines), response.status)
<1> DEFINE c == Command
           type == IF content_type = "" THEN <<>> ELSE <<content_type>>
<1>0. c.is_input \in BOOLEAN
    BY DEF CommandType
<1>1. CASE phase = "rewrite"
    <2>1. InputFits <=> (c.types = {} \/ \E t \in c.types : TypeOf(Lines) = <<t>>)
        BY InputSuits
    <2>2. phase # "filter" /\ (phase = "rewrite") = TRUE
        BY <1>1
    <2>3. Suits(TRUE, c, TypeOf(Lines), response.status)
            <=> c.is_input /\ (c.types = {} \/ \E t \in c.types : TypeOf(Lines) = <<t>>)
        BY <1>0 DEF Suits
    <2> QED BY <1>0, <2>1, <2>2, <2>3
<1>2. CASE phase = "filter"
    <2>1. phase # "rewrite" /\ (phase = "rewrite") = FALSE
        BY <1>2
    <2>2. c.types \subseteq Text /\ "" \notin Text
        BY EditAssumption DEF CommandType
    <2>3. (\E t \in c.types : type = <<t>>) <=> content_type \in c.types
        <3>1. CASE content_type = ""
            <4>1. type = <<>> /\ content_type \notin c.types
                BY <2>2, <3>1
            <4>2. \A t : type # <<t>>
                BY <4>1
            <4> QED BY <4>1, <4>2
        <3>2. CASE content_type # ""
            <4>1. type = <<content_type>>
                BY <3>2
            <4>2. \A t : type = <<t>> <=> t = content_type
                BY <4>1
            <4>3. ASSUME NEW t \in c.types, type = <<t>> PROVE content_type \in c.types
                BY <4>2, <4>3
            <4>4. content_type \in c.types => \E t \in c.types : type = <<t>>
                BY <4>1
            <4> QED BY <4>3, <4>4
        <3> QED BY <3>1, <3>2
    <2> HIDE DEF type
    <2>4. Suits(FALSE, c, type, response.status)
            <=> ~c.is_input /\ (c.types = {} \/ content_type \in c.types)
                /\ (c.statuses = {} \/ status \in c.statuses)
        BY <1>0, <1>2, <2>3 DEF Suits
    <2>5. OutputFits <=> (c.types = {} \/ content_type \in c.types)
                         /\ (c.statuses = {} \/ status \in c.statuses)
        BY DEF OutputFits
    <2>6. (IF phase = "filter" THEN IF content_type = "" THEN <<>> ELSE <<content_type>>
           ELSE TypeOf(Lines)) = type
        BY <1>2 DEF type
    <2> QED BY <1>0, <2>1, <2>4, <2>5, <2>6
<1> QED BY <1>1, <1>2

\* The content type of the message the phase is about, as it was before the header
\* being executed.
MessageType ==
    IF phase = "filter" THEN IF content_type = "" THEN <<>> ELSE <<content_type>>
    ELSE TypeOf(IF edit = NoEdit THEN Lines ELSE was)

\* The phase is where the words of the commands and the content types so far lead.
GoingRight ==
    /\ began \in OptionalType
    /\ Goes(Commands, phase = "rewrite", began, response.status, n, header, ran, MessageType)
    /\ edit # NoEdit => /\ phase = "rewrite" /\ n <= Len(Commands)
                        /\ header \in 1..Len(Command.headers)
                        /\ edit = Current /\ was \in Seq(Line)
    /\ phase = "filter" => status = response.status /\ content_type \in Text \cup {""}

RightInv == phase \in {"rewrite", "filter"} /\ ~spoiled => GoingRight

\* A phase begins.
LEMMA PhaseBegins ==
    ASSUME ConfigTypes', began' \in OptionalType, MessageType' = began', n' = 1, header' = 0,
           ran' = <<>>, edit' = NoEdit,
           phase' = "filter" => status' = response'.status /\ content_type' \in Text \cup {""}
    PROVE  GoingRight'
<1>1. Commands' \in Seq(CommandType)
    <2>1. Levels \in Level
        BY ONLY LevelsAssumption DEF Level
    <2> QED BY <2>1 DEF Commands, ConfigTypes
<1>2. Goes(Commands', phase' = "rewrite", began', response'.status, 1, 0, <<>>, began')
    BY <1>1, GoesFirst
<1> QED BY <1>2 DEF GoingRight

\* The request enters the rewrite phase, for the first time or again, or its
\* response the filter.
LEMMA RightStarts ==
    ASSUME RequestInv, RequestInv', ~spoiled,
           \/ \E lines \in Requests[site] : EnterRewrite(lines)
           \/ \E answer \in Responses[site] : Answer(answer)
           \/ Redirect
    PROVE  GoingRight'
<1>0. ConfigTypes' /\ PlaceOfEdit /\ RoomInv /\ site \in Site
    BY DEF RequestInv, ConfigInv, PlaceInv
<1>1. CASE \E lines \in Requests[site] : EnterRewrite(lines)
    <2>1. PICK lines \in Requests[site] : EnterRewrite(lines)
        BY <1>1
    <2>2. lines \in Seq(Line)
        BY <1>0, HeadersMoreAssumption
    <2>3. /\ Receive(lines) /\ phase = "read" /\ phase' = "rewrite" /\ n' = 1 /\ header' = 0
          /\ ran' = <<>> /\ began' = TypeOf(lines)
        BY <2>1 DEF EnterRewrite, GoTo
    <2>4. edit' = NoEdit
        BY <1>0, <2>3 DEF PlaceOfEdit, Receive
    <2>5. Lines' = lines
        BY <2>2, <2>3, ListedRead
    <2>6. MessageType' = began'
        BY <2>3, <2>4, <2>5 DEF MessageType
    <2>7. began' \in OptionalType
        BY <2>2, <2>3, TypeOfType
    <2> QED BY <1>0, <2>3, <2>4, <2>6, <2>7, PhaseBegins
<1>2. CASE Redirect
    <2>1. /\ phase = "content" /\ phase' = "rewrite" /\ n' = 1 /\ header' = 0 /\ ran' = <<>>
          /\ began' = TypeOf(Lines) /\ UNCHANGED <<cell, parts, edit>>
        BY <1>2 DEF Redirect, GoTo, inVars, listVars
    <2>2. edit' = NoEdit
        BY <1>0, <2>1 DEF PlaceOfEdit
    <2>3. Lines' = Lines
        BY <2>1, ListStays
    <2>4. MessageType' = began'
        BY <2>1, <2>2, <2>3 DEF MessageType
    <2>5. began' \in OptionalType
        BY <1>0, <2>1, RequestLines, TypeOfType
    <2> QED BY <1>0, <2>1, <2>2, <2>4, <2>5, PhaseBegins
<1>3. CASE \E answer \in Responses[site] : Answer(answer)
    <2>1. PICK answer \in Responses[site] : Answer(answer)
        BY <1>3
    <2>2. answer \in Answers
        BY <1>0, HeadersMoreAssumption
    <2>3. /\ phase = "content" /\ phase' = "filter" /\ n' = 1 /\ header' = 0 /\ ran' = <<>>
          /\ began' = IF answer.type = "" THEN <<>> ELSE <<answer.type>>
          /\ response' = answer /\ edit' = edit
          /\ content_type' = answer.type /\ status' = answer.status
        BY <2>1 DEF Answer, GoTo, Respond, inVars
    <2>4. edit' = NoEdit
        BY <1>0, <2>3 DEF PlaceOfEdit
    <2>5. answer.type \in Text \cup {""}
        BY <2>2 DEF Answers
    <2>6. MessageType' = began'
        BY <2>3 DEF MessageType
    <2>7. began' \in OptionalType
        BY <2>3, <2>5 DEF OptionalType
    <2> QED BY <1>0, <2>3, <2>4, <2>5, <2>6, <2>7, PhaseBegins
<1> QED BY <1>1, <1>2, <1>3

\* Nothing becomes of the message and of the commands.
LEMMA MessageStays ==
    ASSUME UNCHANGED <<cmds, inVars, outVars, phase>>
    PROVE  /\ MessageType' = MessageType /\ Commands' = Commands
           /\ edit' = edit /\ status' = status /\ content_type' = content_type /\ was' = was
<1>1. UNCHANGED <<cmds, phase, cell, parts, edit, was, content_type, status>>
    BY DEF inVars, listVars, outVars
<1>2. Lines' = Lines
    BY <1>1, ListStays
<1>3. MessageType' = MessageType
    BY <1>1, <1>2 DEF MessageType
<1> QED BY <1>1, <1>3 DEF Commands

\* A command begins, or is passed over.
LEMMA RightBegins ==
    ASSUME RequestInv, SlotsTrue, ~spoiled, GoingRight, BeginCommand
    PROVE  GoingRight'
<1>0. ConfigTypes /\ PlaceInv /\ PlaceOfEdit /\ RoomInv
    BY DEF RequestInv, ConfigInv
<1>1. /\ phase \in {"rewrite", "filter"} /\ n <= Len(Commands) /\ header = 0
      /\ UNCHANGED <<cmds, inVars, outVars>>
    BY DEF BeginCommand, configVars
<1>2. edit = NoEdit
    BY <1>0, <1>1 DEF PlaceOfEdit, Running
<1>3. /\ n \in 1..Len(Commands) /\ Command \in CommandType /\ Commands \in Seq(CommandType)
      /\ Command = Commands[n]
    BY <1>0, <1>1, CommandHere, CommandsHere DEF Command
<1>4. /\ UNCHANGED <<response, phase, ran, began>>
      /\ \/ n' = n /\ header' = 1
         \/ n' = n + 1 /\ header' = 0
    BY <1>1 DEF BeginCommand, NextHeader, NextCommand
<1>5. /\ MessageType' = MessageType /\ Commands' = Commands /\ edit' = NoEdit
      /\ status' = status /\ content_type' = content_type
    BY <1>1, <1>2, <1>4, MessageStays
<1>6. /\ began \in OptionalType
      /\ phase = "filter" => status = response.status /\ content_type \in Text \cup {""}
    BY DEF GoingRight
<1> DEFINE input == phase = "rewrite"
           code == response.status
           Fine == /\ Command.is_input = input
                   /\ IF Command.is_input THEN InputFits ELSE OutputFits
<1>7. Fine <=> Suits(input, Command, MessageType, code)
    BY <1>0, <1>1, <1>2, <1>3, <1>6, BeginsIf DEF MessageType
<1>8. Goes(Commands, input, began, code, n, 0, ran, MessageType)
    BY <1>1 DEF GoingRight
<1>9. Goes(Commands, input, began, code, n', header', ran, MessageType)
    <2>1. CASE Command.headers # <<>> /\ Fine
        <3>1. n' = n /\ header' = 1
            BY <1>1, <2>1 DEF BeginCommand, NextHeader
        <3>2. Suits(input, Commands[n], MessageType, code)
            BY <1>3, <1>7, <2>1
        <3> HIDE DEF input, code
        <3>3. Goes(Commands, input, began, code, n, 1, ran, MessageType)
            BY <1>3, <1>6, <1>8, <3>2, GoesIn
        <3> QED BY <3>1, <3>3
    <2>2. CASE ~(Command.headers # <<>> /\ Fine)
        <3>1. n' = n + 1 /\ header' = 0
            BY <1>1, <2>2 DEF BeginCommand, NextCommand
        <3>2. Commands[n].headers = <<>> \/ ~Suits(input, Commands[n], MessageType, code)
            BY <1>3, <1>7, <2>2
        <3> HIDE DEF input, code
        <3>3. Goes(Commands, input, began, code, n + 1, 0, ran, MessageType)
            BY <1>3, <1>6, <1>8, <3>2, GoesPast
        <3> QED BY <3>1, <3>3
    <2> QED BY <2>1, <2>2
<1>10. Goes(Commands', phase' = "rewrite", began', response'.status, n', header', ran', MessageType')
    BY <1>4, <1>5, <1>9
<1> QED BY <1>4, <1>5, <1>6, <1>10 DEF GoingRight

\* A command ends.
LEMMA RightEnds ==
    ASSUME RequestInv, ~spoiled, GoingRight, EndCommand
    PROVE  GoingRight'
<1>0. ConfigTypes /\ PlaceInv
    BY DEF RequestInv, ConfigInv
<1>1. /\ n <= Len(Commands) /\ header > 0 /\ edit = NoEdit /\ header > Len(Command.headers)
      /\ UNCHANGED <<cmds, inVars, outVars, response, phase, ran, began>>
      /\ n' = n + 1 /\ header' = 0
    BY DEF EndCommand, Running, NextCommand, configVars
<1>2. /\ n \in 1..Len(Commands) /\ Commands \in Seq(CommandType) /\ Command = Commands[n]
      /\ header \in Nat \ {0}
    BY <1>0, <1>1, CommandHere, CommandsHere DEF Command, PlaceInv
<1>3. /\ MessageType' = MessageType /\ Commands' = Commands /\ edit' = NoEdit
      /\ status' = status /\ content_type' = content_type
    BY <1>1, MessageStays
<1>4. /\ began \in OptionalType
      /\ phase = "filter" => status = response.status /\ content_type \in Text \cup {""}
      /\ Goes(Commands, phase = "rewrite", began, response.status, n, header, ran, MessageType)
    BY DEF GoingRight
<1> DEFINE input == phase = "rewrite"
           code == response.status
<1>5. Goes(Commands, input, began, code, n + 1, 0, ran, MessageType)
    <2>1. Goes(Commands, input, began, code, n, header, ran, MessageType)
        BY <1>4
    <2>2. header > Len(Commands[n].headers)
        BY <1>1, <1>2
    <2> HIDE DEF input, code
    <2> QED BY <1>2, <1>4, <2>1, <2>2, GoesOut
<1>6. Goes(Commands', phase' = "rewrite", began', response'.status, n', header', ran', MessageType')
    BY <1>1, <1>3, <1>5
<1> QED BY <1>1, <1>3, <1>4, <1>6 DEF GoingRight

\* The handler of a header of an input command is entered.
LEMMA RightEnters ==
    ASSUME RequestInv, ~spoiled, GoingRight, BeginHeader
    PROVE  GoingRight'
<1>0. ConfigTypes /\ PlaceInv /\ RoomInv
    BY DEF RequestInv, ConfigInv
<1>1. /\ phase = "rewrite" /\ Running /\ header <= Len(Command.headers)
      /\ BeginEdit(Current) /\ UNCHANGED <<cmds, atVars, outVars>>
    BY DEF BeginHeader, configVars
<1>2. n <= Len(Commands) /\ header > 0 /\ edit = NoEdit /\ edit' = Current /\ was' = Lines
    BY <1>1 DEF Running, BeginEdit
<1>3. header \in 1..Len(Command.headers)
    BY <1>0, <1>1, <1>2, CommandHere DEF PlaceInv
<1>4. Current \in Edit /\ Current # NoEdit
    BY <1>0, <1>1, CurrentType, EditNamed
<1>5. /\ Commands' = Commands /\ Command' = Command /\ Current' = Current
      /\ UNCHANGED <<n, header, phase, began, ran, response>>
    BY <1>1 DEF atVars, Commands, Command, Current
<1>6. MessageType' = MessageType
    BY <1>1, <1>2, <1>4, <1>5 DEF MessageType
<1>7. Lines \in Seq(Line)
    BY <1>0, RequestLines
<1>8. Goes(Commands, phase = "rewrite", began, response.status, n, header, ran, MessageType)
      /\ began \in OptionalType
    BY DEF GoingRight
<1>9. Goes(Commands', phase' = "rewrite", began', response'.status, n', header', ran', MessageType')
      /\ began' \in OptionalType
    BY <1>5, <1>6, <1>8
<1>10. /\ phase' = "rewrite" /\ n' <= Len(Commands') /\ header' \in 1..Len(Command'.headers)
       /\ edit' = Current' /\ was' \in Seq(Line)
    BY <1>1, <1>2, <1>3, <1>5, <1>7
<1> QED BY <1>9, <1>10 DEF GoingRight

\* A step of the header being executed, or its end.
LEMMA RightRuns ==
    ASSUME RequestInv, [Next]_vars, ~spoiled, ~spoiled', GoingRight, RunHeader
    PROVE  GoingRight'
<1>0. ConfigTypes /\ PlaceInv /\ RoomInv /\ PlaceOfEdit /\ EditInv
    BY DEF RequestInv, ConfigInv
<1>1. /\ phase = "rewrite" /\ EditStep /\ UNCHANGED <<cmds, outVars>>
      /\ IF edit' = NoEdit THEN NextHeader ELSE UNCHANGED atVars
    BY DEF RunHeader, configVars
<1>2. edit # NoEdit /\ was' = was /\ (edit' = NoEdit \/ edit' = edit)
    <2>1. CASE SetThroughSlot \/ ReplaceMatch \/ NothingToDo
        BY <2>1 DEF SetThroughSlot, ReplaceMatch, NothingToDo, Sets, InHelper, Finish
    <2>2. CASE RemoveMatch \/ PushLine
        BY <2>2 DEF RemoveMatch, PushLine, Pushes, InHelper, Finish
    <2> QED BY <1>1, <2>1, <2>2 DEF EditStep
<1>3. /\ n <= Len(Commands) /\ header \in 1..Len(Command.headers)
      /\ edit = Current /\ was \in Seq(Line) /\ began \in OptionalType
      /\ Goes(Commands, phase = "rewrite", began, response.status, n, header, ran, MessageType)
    BY <1>2 DEF GoingRight
<1>4. /\ Commands' = Commands /\ UNCHANGED <<began, response, phase, n>>
    BY <1>1 DEF Commands, NextHeader, atVars
<1>5. MessageType = TypeOf(was)
    BY <1>1, <1>2 DEF MessageType
<1>6. CASE edit' = NoEdit
    <2>1. EndsAsMeant
        BY <1>0, EditKept
    <2>2. Lines' = Edited(was, Current)
        BY <1>2, <1>3, <1>6, <2>1 DEF EndsAsMeant
    <2>3. Current \in Edit
        BY <1>2, <1>3, <1>0 DEF RoomInv, CellInv
    <2>4. TypeOf(Lines') = TypeAfter(TRUE, Current, TypeOf(was))
        <3> DEFINE e == Current
        <3>1. e \in Edit /\ Lines' = Edited(was, e)
            BY <2>2, <2>3
        <3> HIDE DEF e
        <3>2. TypeOf(Edited(was, e)) = TypeAfter(TRUE, e, TypeOf(was))
            BY <1>3, <3>1, TypeEdited
        <3>3. TypeOf(Lines') = TypeAfter(TRUE, e, TypeOf(was))
            BY <3>1, <3>2
        <3> QED BY <3>3 DEF e
    <2>5. MessageType' = TypeAfter(TRUE, Current, MessageType)
        BY <1>1, <1>4, <1>5, <1>6, <2>4 DEF MessageType
    <2>6. header' = header + 1 /\ ran' = Append(ran, Current)
        BY <1>1, <1>3, <1>6 DEF NextHeader
    <2>7. n \in 1..Len(Commands) /\ Commands \in Seq(CommandType) /\ Command = Commands[n]
        BY <1>0, <1>3, CommandHere, CommandsHere DEF Command
    <2> DEFINE code == response.status
    <2>8. /\ Goes(Commands, TRUE, began, code, n, header, ran, MessageType)
          /\ header \in 1..Len(Commands[n].headers) /\ Current = Commands[n].headers[header]
        <3>1. (phase = "rewrite") = TRUE
            BY <1>1
        <3> QED BY <1>3, <2>7, <3>1 DEF Current
    <2> HIDE DEF code
    <2>9. Goes(Commands, TRUE, began, code, n, header + 1,
               Append(ran, Commands[n].headers[header]),
               TypeAfter(TRUE, Commands[n].headers[header], MessageType))
        BY <1>3, <2>7, <2>8, GoesOnward
    <2>10. Goes(Commands, TRUE, began, code, n, header', ran', MessageType')
        BY <2>5, <2>6, <2>8, <2>9
    <2>11. (phase' = "rewrite") = TRUE /\ phase' # "filter" /\ code = response'.status
        BY <1>1, <1>4 DEF code
    <2>12. Goes(Commands', phase' = "rewrite", began', response'.status, n', header', ran', MessageType')
        BY <1>4, <2>10, <2>11
    <2> QED BY <1>3, <1>4, <1>6, <2>11, <2>12 DEF GoingRight
<1>7. CASE edit' # NoEdit
    <2>1. edit' = edit /\ UNCHANGED <<n, header, phase, began, ran, response>>
        BY <1>1, <1>2, <1>7 DEF atVars
    <2>2. MessageType' = MessageType
        BY <1>1, <1>2, <1>5, <1>7, <2>1 DEF MessageType
    <2>3. Command' = Command /\ Current' = Current
        BY <1>4, <2>1 DEF Command, Current
    <2>4. Goes(Commands', phase' = "rewrite", began', response'.status, n', header', ran', MessageType')
        BY <1>3, <1>4, <2>1, <2>2
    <2> QED BY <1>1, <1>2, <1>3, <1>4, <2>1, <2>3, <2>4 DEF GoingRight
<1> QED BY <1>6, <1>7

\* A header of an output command runs.
LEMMA RightExecutes ==
    ASSUME RequestInv, ~spoiled, GoingRight, ExecOutput
    PROVE  GoingRight'
<1>0. ConfigTypes /\ PlaceInv /\ PlaceOfEdit
    BY DEF RequestInv, ConfigInv
<1>1. /\ phase = "filter" /\ Running /\ header <= Len(Command.headers) /\ ExecHeader(Current)
      /\ UNCHANGED <<cmds, edit>> /\ NextHeader
    BY DEF ExecOutput, configVars, inVars
<1>2. /\ n <= Len(Commands) /\ header > 0 /\ edit = NoEdit /\ edit' = NoEdit
    BY <1>0, <1>1 DEF Running, PlaceOfEdit
<1>3. /\ Commands' = Commands /\ UNCHANGED <<began, response, phase, n>>
      /\ header' = header + 1 /\ ran' = Append(ran, Current)
    BY <1>1, <1>2 DEF Commands, NextHeader
<1>4. Current \in Edit
    BY <1>0, <1>1, CurrentType
<1>5. /\ began \in OptionalType /\ status = response.status /\ content_type \in Text \cup {""}
      /\ Goes(Commands, phase = "rewrite", began, response.status, n, header, ran, MessageType)
    BY <1>1 DEF GoingRight
<1> DEFINE e == Current
<1>6. e \in Edit /\ ExecHeader(e) /\ e = Current
    BY <1>1, <1>4
<1> HIDE DEF e
<1>7. status' = status /\ content_type' = IF e.key = "content-type" THEN e.value ELSE content_type
    <2>1. CASE SetContentType(e)
        BY <2>1 DEF SetContentType
    <2>2. CASE SetHeader(e) \/ SetCacheControl(e)
        BY <2>2 DEF SetHeader, SetCacheControl
    <2>3. CASE SetBuiltinHeader(e) \/ SetContentLength(e) \/ SetAcceptRanges(e)
        <3>1. "content-type" \notin OutBuiltin
            BY HeadersOutAssumption
        <3>2. e.key # "content-type"
            BY <2>3, <3>1 DEF SetBuiltinHeader, SetContentLength, SetAcceptRanges
        <3> QED BY <2>3, <3>2 DEF SetBuiltinHeader, SetContentLength, SetAcceptRanges
    <2> QED BY <1>6, <2>1, <2>2, <2>3 DEF ExecHeader
<1>8. e.value \in Text \cup {""}
    BY <1>6 DEF Edit
<1>9. MessageType = (IF content_type = "" THEN <<>> ELSE <<content_type>>)
      /\ MessageType' = (IF content_type' = "" THEN <<>> ELSE <<content_type'>>)
    BY <1>1, <1>3 DEF MessageType
<1>10. MessageType' = TypeAfter(FALSE, e, MessageType)
    <2>1. CASE e.key = "content-type"
        BY <1>7, <1>9, <2>1 DEF TypeAfter
    <2>2. CASE e.key # "content-type"
        BY <1>7, <1>9, <2>2 DEF TypeAfter
    <2> QED BY <2>1, <2>2
<1>11. n \in 1..Len(Commands) /\ Commands \in Seq(CommandType) /\ Command = Commands[n]
       /\ Len(Command.headers) \in Nat
    BY <1>0, <1>2, CommandHere, CommandsHere DEF Command
<1> DEFINE code == response.status
<1>12. Goes(Commands, FALSE, began, code, n, header, ran, MessageType)
    <2>1. (phase = "rewrite") = FALSE
        BY <1>1
    <2> QED BY <1>5, <2>1
<1>13. header \in 1..Len(Commands[n].headers) /\ e = Commands[n].headers[header]
    BY <1>0, <1>1, <1>2, <1>6, <1>11 DEF Current, PlaceInv
<1> HIDE DEF code
<1>14. Goes(Commands, FALSE, began, code, n, header + 1,
            Append(ran, Commands[n].headers[header]),
            TypeAfter(FALSE, Commands[n].headers[header], MessageType))
    BY <1>5, <1>11, <1>12, <1>13, GoesOnward
<1>15. Goes(Commands, FALSE, began, code, n, header', ran', MessageType')
    BY <1>3, <1>6, <1>10, <1>13, <1>14
<1>16. (phase' = "rewrite") = FALSE /\ phase' = "filter" /\ code = response'.status
    BY <1>1, <1>3 DEF code
<1>17. Goes(Commands', phase' = "rewrite", began', response'.status, n', header', ran', MessageType')
    BY <1>3, <1>15, <1>16
<1>18. began' \in OptionalType /\ status' = response'.status /\ content_type' \in Text \cup {""}
    BY <1>3, <1>5, <1>7, <1>8
<1> QED BY <1>2, <1>17, <1>18 DEF GoingRight

\* Every step keeps it.
LEMMA RightStep ==
    ASSUME RequestInv, RequestInv', RightInv, [Next]_vars
    PROVE  RightInv'
<1> SUFFICES ASSUME phase' \in {"rewrite", "filter"}, ~spoiled' PROVE GoingRight'
    BY DEF RightInv
<1>0. ConfigTypes /\ PlaceInv /\ PlaceOfEdit
    BY DEF RequestInv, ConfigInv
<1>1. ~spoiled
    BY <1>0, SpoiledStays
<1>2. CASE \/ \E lines \in Requests[site] : EnterRewrite(lines)
           \/ \E answer \in Responses[site] : Answer(answer)
           \/ Redirect
    BY <1>1, <1>2, RightStarts
<1>3. CASE BeginCommand
    <2>1. phase \in {"rewrite", "filter"}
        BY <1>3 DEF BeginCommand
    <2> QED BY <1>1, <1>3, <2>1, SlotsFollow, RightBegins DEF RightInv
<1>4. CASE EndCommand
    <2>1. phase \in {"rewrite", "filter"}
        BY <1>4 DEF EndCommand
    <2> QED BY <1>1, <1>4, <2>1, RightEnds DEF RightInv
<1>5. CASE BeginHeader
    <2>1. phase \in {"rewrite", "filter"}
        BY <1>5 DEF BeginHeader
    <2> QED BY <1>1, <1>5, <2>1, RightEnters DEF RightInv
<1>6. CASE RunHeader
    <2>1. phase \in {"rewrite", "filter"}
        BY <1>6 DEF RunHeader
    <2> QED BY <1>1, <1>6, <2>1, RightRuns DEF RightInv
<1>7. CASE ExecOutput
    <2>1. phase \in {"rewrite", "filter"}
        BY <1>7 DEF ExecOutput
    <2> QED BY <1>1, <1>7, <2>1, RightExecutes DEF RightInv
<1>8. CASE Configure
    <2>1. config # "ready"
        BY <1>8 DEF Configure, ConfigNext, BeginDirective, SkipArg, HeaderArg, ListOption,
           ReplaceOption, UnknownOption, EndDirective, EndLevel, MergeOne, MergeGrow, MergeShift,
           MergeShifted, MergeCopy, MergeCopied, MergeDone, Parsing, OnArg, Merge
    <2>2. phase' = "read"
        BY <1>0, <1>8, <2>1 DEF PlaceOfEdit, Configure, atVars
    <2> QED BY <2>2
<1>9. CASE FailHeader \/ EndRewrite \/ Send
    <2>1. phase' \in {"failed", "content", "sent"}
        BY <1>9 DEF FailHeader, EndRewrite, Send, GoTo
    <2> QED BY <2>1
<1>10. CASE UNCHANGED vars
    <2>1. UNCHANGED <<cmds, inVars, outVars, site, response, phase, n, header, ran, began>>
        BY <1>10 DEF vars, configVars, atVars
    <2>2. /\ MessageType' = MessageType /\ Commands' = Commands
          /\ edit' = edit /\ status' = status /\ content_type' = content_type /\ was' = was
        BY <2>1, MessageStays
    <2>3. Command' = Command /\ Current' = Current
        BY <2>1, <2>2 DEF Command, Current
    <2>4. GoingRight
        BY <1>1, <2>1 DEF RightInv
    <2> QED BY <2>1, <2>2, <2>3, <2>4 DEF GoingRight
<1> QED BY <1>2, <1>3, <1>4, <1>5, <1>6, <1>7, <1>8, <1>9, <1>10 DEF Next

\* A phase that ends has run the headers of the commands that were for it, by
\* the words of the directives: of every one whose type and status the message had
\* when its turn came, in the order written, each once, and of no other; whatever
\* levels they were written at, and however earlier headers have changed the type,
\* as long as no removal has failed.
THEOREM RightHeadersAreRun == Spec => []RightHeadersRun
<1>1. RequestInv /\ RightInv => RightHeadersRun
    <2> SUFFICES ASSUME RequestInv, RightInv, phase \in {"rewrite", "filter"},
                        n > Len(Commands), ~spoiled
                 PROVE  ran = Due(phase = "rewrite", began)
        BY DEF RightHeadersRun
    <2>1. GoingRight /\ ConfigTypes /\ PlaceInv /\ PlaceOfEdit /\ ConfigInv
        BY DEF RightInv, RequestInv, ConfigInv
    <2>2. Commands \in Seq(CommandType)
        BY <2>1, CommandsHere
    <2>3. Goes(Commands, phase = "rewrite", began, response.status, n, header, ran, MessageType)
        BY <2>1 DEF GoingRight
    <2>4. Commands = FlattenSeq([l \in Level |-> MeantOf(l)])
        <3>1. config = "ready"
            BY <2>1 DEF PlaceOfEdit
        <3> QED BY <2>1, <3>1, CommandsFollow DEF CommandsAsWritten, Commands
    <2>5. ran = DueOf(Commands, phase = "rewrite", began, response.status)[Len(Commands)].ran
        <3> DEFINE input == phase = "rewrite"
                   code == response.status
        <3>1. Goes(Commands, input, began, code, n, header, ran, MessageType) /\ n \in Nat
            BY <2>1, <2>3 DEF PlaceInv
        <3> HIDE DEF input, code
        <3>2. ran = DueOf(Commands, input, began, code)[Len(Commands)].ran
            BY <2>2, <3>1, GoesLast
        <3> QED BY <3>2 DEF input, code
    <2> QED BY <2>4, <2>5, Zenon DEF Due
<1>2. Init => RightInv
    <2> SUFFICES ASSUME Init PROVE RightInv
        OBVIOUS
    <2>1. phase = "read"
        BY Zenon DEF Init
    <2> QED BY <2>1 DEF RightInv
<1>3. RequestInv /\ RequestInv' /\ RightInv /\ [Next]_vars => RightInv'
    BY RightStep
<1> QED BY <1>1, <1>2, <1>3, RequestStarts, RequestKept, PTL DEF Spec

------------------------------------------------------------------------------
(* The types                                                               *)

\* The list of lines keeps its types, and so do the pointers and the fields.
LEMMA InTypesStep ==
    ASSUME InInv, RoomInv', ConfigTypes, PlaceInv, [Next]_vars
    PROVE  InInv'
<1>1. CellInv'
    BY DEF RoomInv
<1>2. CASE \E e \in Edit : BeginEdit(e)
    <2>1. ListInv' /\ FieldInv'
        BY <1>2, BeginTyped
    <2> QED BY <1>1, <2>1 DEF InInv
<1>3. CASE EditStep
    <2>1. ListInv' /\ FieldInv'
        BY <1>3, EditTyped
    <2> QED BY <1>1, <2>1 DEF InInv
<1>4. CASE \E lines \in Seq(Line) : Receive(lines)
    <2>1. ListInv' /\ FieldInv'
        BY <1>4, ReceiveTyped
    <2> QED BY <1>1, <2>1 DEF InInv
<1>5. CASE UNCHANGED inVars
    BY <1>5 DEF inVars, listVars, InInv, CellInv, ListInv, FieldInv
<1> QED BY <1>2, <1>3, <1>4, <1>5, StepOfTheList

\* The fields of a response.
OutFields ==
    /\ content_type \in Text \cup {""} /\ out_length \in Nat \cup {-1}
    /\ allow_ranges \in BOOLEAN

\* A header of an output command keeps their types.
LEMMA HeaderKeepsFields ==
    ASSUME OutFields, NEW e \in Edit, ExecHeader(e)
    PROVE  OutFields'
<1>1. e.value \in Text \cup {""}
    BY DEF Edit
<1>2. e.value # "" => Number[e.value] \in Nat \cup {-1}
    BY <1>1, EditAssumption
<1>3. content_type' \in {content_type, e.value}
    BY DEF ExecHeader, SetHeader, SetBuiltinHeader, SetContentLength, SetAcceptRanges,
           SetCacheControl, SetContentType
<1>4. out_length' \in Nat \cup {-1}
    BY <1>2 DEF OutFields, ExecHeader, SetHeader, SetBuiltinHeader, SetContentLength,
                SetAcceptRanges, SetCacheControl, SetContentType
<1>5. allow_ranges' \in BOOLEAN
    <2>1. CASE SetAcceptRanges(e)
        BY <2>1 DEF SetAcceptRanges
    <2>2. CASE ~SetAcceptRanges(e)
        <3>1. allow_ranges' = allow_ranges
            BY <2>2 DEF ExecHeader, SetHeader, SetBuiltinHeader, SetContentLength,
                        SetCacheControl, SetContentType
        <3> QED BY <3>1 DEF OutFields
    <2> QED BY <2>1, <2>2
<1> QED BY <1>1, <1>3, <1>4, <1>5 DEF OutFields

\* Every step keeps them.
LEMMA FieldsStep ==
    ASSUME OutFields, ConfigTypes, PlaceInv, [Next]_vars
    PROVE  OutFields'
<1>1. CASE ExecOutput
    <2>1. ExecHeader(Current) /\ Running /\ header <= Len(Command.headers)
        BY <1>1 DEF ExecOutput
    <2>2. Current \in Edit
        BY <2>1, CurrentType
    <2> QED BY <2>1, <2>2, HeaderKeepsFields
<1>2. CASE \E answer \in Responses[site] : Answer(answer)
    <2>1. PICK answer \in Responses[site] : Answer(answer)
        BY <1>2
    <2>2. Responses[site] \subseteq Answers
        BY HeadersMoreAssumption DEF PlaceInv
    <2>3. /\ content_type' = answer.type /\ out_length' = answer.length
          /\ allow_ranges' = answer.ranges
        BY <2>1 DEF Answer, Respond
    <2>4. answer.type \in Text \cup {""} /\ answer.length \in Nat \cup {-1}
          /\ answer.ranges \in BOOLEAN
        BY <2>1, <2>2 DEF Answers
    <2> QED BY <2>3, <2>4 DEF OutFields
<1>3. CASE \/ \E lines \in Requests[site] : EnterRewrite(lines)
           \/ Configure \/ BeginCommand \/ EndCommand \/ BeginHeader \/ RunHeader \/ FailHeader
           \/ EndRewrite \/ Redirect \/ Send \/ UNCHANGED vars
    <2>1. UNCHANGED outVars
        BY <1>3 DEF EnterRewrite, Configure, BeginCommand, EndCommand, BeginHeader, RunHeader,
                    FailHeader, EndRewrite, Redirect, Send, vars
    <2> QED BY <2>1 DEF outVars, OutFields
<1> QED BY <1>1, <1>2, <1>3 DEF Next

\* Where a request can be.
PhaseTypes ==
    /\ phase \in {"read", "rewrite", "content", "filter", "sent", "failed"}
    /\ redirects \in 0..MaxRedirects

\* A step leaves a request where one can be.
LEMMA PhaseTypesStep ==
    ASSUME PhaseTypes, [Next]_vars
    PROVE  PhaseTypes'
<1>1. MaxRedirects \in Nat
    BY HeadersMoreAssumption
<1>2. CASE Redirect
    BY <1>1, <1>2 DEF Redirect, GoTo, PhaseTypes
<1>3. CASE \/ \E lines \in Requests[site] : EnterRewrite(lines)
           \/ \E answer \in Responses[site] : Answer(answer)
           \/ EndRewrite \/ Send
    <2>1. phase' \in {"rewrite", "filter", "content", "sent"} /\ redirects' = redirects
        BY <1>3 DEF EnterRewrite, Answer, EndRewrite, Send, GoTo
    <2> QED BY <2>1 DEF PhaseTypes
<1>4. CASE \/ Configure \/ BeginCommand \/ EndCommand \/ BeginHeader \/ RunHeader
           \/ ExecOutput \/ FailHeader \/ UNCHANGED vars
    <2>1. phase' \in {phase, "failed"} /\ redirects' = redirects
        BY <1>4 DEF Configure, BeginCommand, EndCommand, BeginHeader, RunHeader, ExecOutput,
                    FailHeader, NextHeader, NextCommand, atVars, vars
    <2> QED BY <2>1 DEF PhaseTypes
<1> QED BY <1>2, <1>3, <1>4 DEF Next

\* The places headers_out refers to are entries.
LEMMA OutTypes == OutInv /\ OutFields => OutTypeOK
<1> SUFFICES ASSUME OutInv, OutFields PROVE OutTypeOK
    OBVIOUS
<1>1. /\ entry \in Seq(Entry) /\ pointer \in [OutBuiltin -> Nat] /\ cache_control \in Seq(Nat)
      /\ ToSet(cache_control) = PlacesOf(entry, "cache-control") /\ PointerInv
    BY DEF OutInv
<1>2. Len(entry) \in Nat /\ DOMAIN entry = 1..Len(entry)
    BY <1>1, LenProperties
<1>3. \A key : PlacesOf(entry, key) \subseteq 1..Len(entry)
    BY <1>2 DEF PlacesOf
<1>4. pointer \in [OutBuiltin -> 0..Len(entry)]
    <2>1. \A b \in OutBuiltin : pointer[b] \in 0..Len(entry)
        <3> TAKE b \in OutBuiltin
        <3>1. pointer[b] = 0 \/ pointer[b] \in PlacesOf(entry, b)
            BY <1>1 DEF PointerInv
        <3>2. pointer[b] = 0 \/ pointer[b] \in 1..Len(entry)
            BY <1>3, <3>1, Zenon
        <3> QED BY <1>2, <3>2
    <2> QED BY <1>1, <2>1
<1>5. cache_control \in Seq(1..Len(entry))
    <2> DEFINE C == 1..Len(entry)
               s == cache_control
    <2>1. ToSet(s) \subseteq C /\ s \in Seq(Nat)
        BY <1>1, <1>3, Zenon
    <2> HIDE DEF C, s
    <2>2. Len(s) \in Nat /\ DOMAIN s = 1..Len(s) /\ s = [i \in 1..Len(s) |-> s[i]]
        BY <2>1, LenProperties
    <2>3. \A i \in 1..Len(s) : s[i] \in C
        BY <2>1, <2>2 DEF ToSet
    <2>4. s \in [1..Len(s) -> C]
        BY <2>2, <2>3
    <2>5. s \in Seq(C)
        BY <2>2, <2>4, SeqDef
    <2> QED BY <2>5 DEF s, C
<1> QED BY <1>1, <1>4, <1>5 DEF OutFields, OutTypeOK

\* The variables of the module keep their types, in every configuration and for
\* every request and response: the pointers of headers_in and headers_out, its
\* array of Cache-Control and the elements of the list refer to lines there are,
\* also where a removal has failed in the middle.
THEOREM TypeCorrect == Spec => []TypeOK
<1> DEFINE TypeInv == InInv /\ OutFields /\ PhaseTypes
<1>1. Init => TypeInv
    <2> SUFFICES ASSUME Init PROVE TypeInv
        OBVIOUS
    <2>1. InInv
        BY TypesStart DEF Init
    <2>2. OutFields
        BY DEF Init, OutInit, OutFields
    <2>3. PhaseTypes
        BY HeadersMoreAssumption DEF Init, PhaseTypes
    <2> QED BY <2>1, <2>2, <2>3
<1>2. TypeInv /\ RequestInv /\ RequestInv' /\ [Next]_vars => TypeInv'
    <2> SUFFICES ASSUME TypeInv, RequestInv, RequestInv', [Next]_vars PROVE TypeInv'
        OBVIOUS
    <2>1. ConfigTypes /\ PlaceInv /\ RoomInv'
        BY DEF RequestInv, ConfigInv
    <2> QED BY <2>1, InTypesStep, FieldsStep, PhaseTypesStep
<1>3. TypeInv /\ RequestInv /\ OutInv => TypeOK
    <2> SUFFICES ASSUME TypeInv, RequestInv, OutInv PROVE TypeOK
        OBVIOUS
    <2>1. config \in {"parse", "merge", "ready", "refused"} /\ n \in Nat /\ header \in Nat
        BY DEF RequestInv, ConfigInv, ConfigTypes, PlaceInv
    <2>2. InTypeOK /\ OutTypeOK
        BY InTypes, OutTypes
    <2> QED BY <2>1, <2>2 DEF TypeOK, PhaseTypes
<1>4. RequestInv /\ OutInv /\ [Next]_vars => OutInv'
    BY OutStep DEF RequestInv, ConfigInv
<1> HIDE DEF TypeInv
<1> QED BY <1>1, <1>2, <1>3, <1>4, OutStarts, RequestStarts, RequestKept, PTL DEF Spec

------------------------------------------------------------------------------
(* The rewrite phase the handler rearranges: RewritePhase, for every number *)
(* of requests, every engine and every configured position of the handler   *)

\* The array holds the configured order until the move, and the order with
\* Home behind the rest of the phase after it.
OrderInv ==
    handlers = [p \in Position |->
                   IF ~postponed \/ p \notin Home..LastRewrite THEN p
                   ELSE IF p = LastRewrite THEN Home ELSE p + 1]

\* Before the move no request has passed the handler: this is why moving it
\* under the requests in flight skips or repeats nothing.
NobodyPassed == ~postponed => \A r \in Request : at[r] <= Home

\* A request in the phase, or just behind it, has run what the final order
\* begins with, in that order.
RanInv ==
    \A r \in Request : at[r] \in FirstRewrite..(LastRewrite + 1) =>
        /\ Len(handled[r]) = at[r] - FirstRewrite
        /\ \A i \in 1..Len(handled[r]) : handled[r][i] = FinalOrder[i]

PhaseInv == PhaseTypeOK /\ OrderInv /\ NobodyPassed /\ RanInv

\* The i-th handler of the static order: the handlers of the phase with
\* headers_more moved from its place to the end.
LEMMA FinalOrderAt ==
    ASSUME NEW i \in 1..(LastRewrite - FirstRewrite + 1)
    PROVE  FinalOrder[i] = IF i = LastRewrite - FirstRewrite + 1 THEN Home
                           ELSE IF FirstRewrite + i - 1 < Home THEN FirstRewrite + i - 1
                           ELSE FirstRewrite + i
BY DEF FinalOrder

\* The static order has one entry for every position of the phase.
LEMMA FinalOrderSeq ==
    FinalOrder \in Seq(Position) /\ Len(FinalOrder) = LastRewrite - FirstRewrite + 1
<1>1. LastRewrite - FirstRewrite + 1 \in Nat
  BY EngineAssumption
<1>2. \A i \in 1..(LastRewrite - FirstRewrite + 1) : FinalOrder[i] \in Position
  BY EngineAssumption, FinalOrderAt DEF Position
<1>3. FinalOrder \in [1..(LastRewrite - FirstRewrite + 1) -> Position]
  BY <1>2 DEF FinalOrder
<1> QED BY <1>1, <1>3

\* What a request finds at its position is the next handler of FinalOrder:
\* at or before Home the move has not changed that prefix, behind it the
\* move has happened.
LEMMA NextHandler ==
    ASSUME PhaseInv, NEW r \in Request, InPhase(r), postponed \/ Handler(r) # Home \/ at[r] = LastRewrite
    PROVE  /\ at[r] - FirstRewrite + 1 \in 1..(LastRewrite - FirstRewrite + 1)
           /\ Handler(r) = FinalOrder[at[r] - FirstRewrite + 1]
<1>1. at[r] \in FirstRewrite..LastRewrite /\ at[r] \in Position
      /\ at[r] - FirstRewrite + 1 \in 1..(LastRewrite - FirstRewrite + 1)
  BY EngineAssumption, SMTT(30) DEF PhaseInv, PhaseTypeOK, InPhase, Position
<1>2. Handler(r) = IF ~postponed \/ at[r] \notin Home..LastRewrite THEN at[r]
                   ELSE IF at[r] = LastRewrite THEN Home ELSE at[r] + 1
  <2>1. OrderInv
    BY DEF PhaseInv
  <2> QED BY ONLY <1>1, <2>1 DEF OrderInv, Handler
<1>3. ~postponed => at[r] <= Home
  BY DEF PhaseInv, NobodyPassed
<1>4. FinalOrder[at[r] - FirstRewrite + 1] =
         IF at[r] = LastRewrite THEN Home ELSE IF at[r] < Home THEN at[r] ELSE at[r] + 1
  BY <1>1, FinalOrderAt, EngineAssumption
<1>5. Handler(r) = Home /\ ~postponed => at[r] = LastRewrite
  OBVIOUS
<1>6. postponed \/ at[r] # Home \/ at[r] = LastRewrite
  BY <1>2, <1>5
<1> QED BY <1>1, <1>2, <1>3, <1>4, <1>6, EngineAssumption

\* The phase as post_config leaves it satisfies the invariant.
LEMMA PhaseInitInv == PhaseInit => PhaseInv
<1> SUFFICES ASSUME PhaseInit PROVE PhaseInv
  OBVIOUS
<1>1. handlers \in [Position -> Position] /\ postponed \in BOOLEAN
  BY DEF PhaseInit
<1>2. at \in [Request -> 0..Engine]
  BY EngineAssumption DEF PhaseInit
<1>3. handled \in [Request -> Seq(Position)]
  BY DEF PhaseInit
<1>4. OrderInv
  BY DEF PhaseInit, OrderInv
<1>5. NobodyPassed /\ RanInv
  BY EngineAssumption DEF PhaseInit, NobodyPassed, RanInv
<1> QED BY <1>1, <1>2, <1>3, <1>4, <1>5 DEF PhaseInv, PhaseTypeOK

\* A call that runs a handler appends the next one of FinalOrder.
LEMMA AdvanceInv ==
    ASSUME PhaseInv, NEW r \in Request, InPhase(r),
           postponed \/ Handler(r) # Home \/ at[r] = LastRewrite, Advance(r)
    PROVE  /\ at' \in [Request -> 0..Engine]
           /\ handled' \in [Request -> Seq(Position)]
           /\ RanInv'
<1>1. at[r] \in FirstRewrite..LastRewrite /\ at[r] \in Position
  BY EngineAssumption DEF PhaseInv, PhaseTypeOK, InPhase, Position
<1>2. Handler(r) \in Position
  BY <1>1 DEF PhaseInv, PhaseTypeOK, Handler
<1>3. handled[r] \in Seq(Position) /\ Append(handled[r], Handler(r)) \in Seq(Position)
  BY <1>2 DEF PhaseInv, PhaseTypeOK
<1>4. at' \in [Request -> 0..Engine] /\ at'[r] = at[r] + 1
  <2>1. at[r] + 1 \in 0..Engine
    BY <1>1, EngineAssumption
  <2> QED BY <2>1 DEF PhaseInv, PhaseTypeOK, Advance
<1>5. handled' \in [Request -> Seq(Position)] /\ handled'[r] = Append(handled[r], Handler(r))
  BY <1>3 DEF PhaseInv, PhaseTypeOK, Advance
<1>6. ASSUME NEW q \in Request, at'[q] \in FirstRewrite..(LastRewrite + 1)
      PROVE  /\ Len(handled'[q]) = at'[q] - FirstRewrite
             /\ \A i \in 1..Len(handled'[q]) : handled'[q][i] = FinalOrder[i]
  <2>1. CASE q # r
    <3>1. at'[q] = at[q] /\ handled'[q] = handled[q]
      BY <2>1 DEF PhaseInv, PhaseTypeOK, Advance
    <3> QED BY <1>6, <3>1 DEF PhaseInv, RanInv
  <2>2. CASE q = r
    <3>1. at[r] \in FirstRewrite..(LastRewrite + 1)
      BY <1>1, EngineAssumption
    <3>2. Len(handled[r]) = at[r] - FirstRewrite
          /\ \A i \in 1..Len(handled[r]) : handled[r][i] = FinalOrder[i]
      BY <3>1 DEF PhaseInv, RanInv
    <3>3. Handler(r) = FinalOrder[at[r] - FirstRewrite + 1]
      BY NextHandler
    <3>4. /\ Len(handled'[r]) = Len(handled[r]) + 1
          /\ handled'[r][Len(handled[r]) + 1] = Handler(r)
          /\ \A i \in 1..Len(handled[r]) : handled'[r][i] = handled[r][i]
      BY <1>2, <1>3, <1>5
    <3>5. Len(handled'[r]) = at'[r] - FirstRewrite
      BY <1>1, <1>4, <3>2, <3>4, EngineAssumption
    <3>6. ASSUME NEW i \in 1..Len(handled'[r]) PROVE handled'[r][i] = FinalOrder[i]
      <4>1. CASE i \in 1..Len(handled[r])
        BY <3>2, <3>4, <4>1
      <4>2. CASE i = Len(handled[r]) + 1
        BY <1>1, <3>2, <3>3, <3>4, <4>2, EngineAssumption
      <4> QED BY <1>3, <3>4, <4>1, <4>2
    <3> QED BY <2>2, <3>5, <3>6
  <2> QED BY <2>1, <2>2
<1> QED BY <1>4, <1>5, <1>6 DEF RanInv

\* Every step of every request keeps it.
LEMMA PhaseNextInv == PhaseInv /\ [PhaseNext]_phaseVars => PhaseInv'
<1> SUFFICES ASSUME PhaseInv, [PhaseNext]_phaseVars PROVE PhaseInv'
  OBVIOUS
<1>1. ASSUME NEW r \in Request, EnterPhase(r) PROVE PhaseInv'
  <2>1. handlers' \in [Position -> Position] /\ postponed' \in BOOLEAN
    BY <1>1 DEF EnterPhase, PhaseInv, PhaseTypeOK
  <2>2. at' \in [Request -> 0..Engine]
    BY <1>1, EngineAssumption DEF EnterPhase, PhaseInv, PhaseTypeOK
  <2>3. handled' \in [Request -> Seq(Position)]
    BY <1>1 DEF EnterPhase, PhaseInv, PhaseTypeOK
  <2>4. OrderInv'
    BY <1>1 DEF EnterPhase, PhaseInv, OrderInv
  <2>5. \A q \in Request : q # r => at'[q] = at[q] /\ handled'[q] = handled[q]
    BY <1>1 DEF EnterPhase, PhaseInv, PhaseTypeOK
  <2>6. at'[r] = FirstRewrite /\ handled'[r] = <<>>
    BY <1>1 DEF EnterPhase, PhaseInv, PhaseTypeOK
  <2>7. NobodyPassed'
    <3>1. postponed' = postponed
      BY <1>1 DEF EnterPhase
    <3> QED BY <2>5, <2>6, <3>1, EngineAssumption DEF PhaseInv, NobodyPassed
  <2>8. RanInv'
    BY <2>5, <2>6, EngineAssumption DEF PhaseInv, RanInv
  <2> QED BY <2>1, <2>2, <2>3, <2>4, <2>7, <2>8 DEF PhaseInv, PhaseTypeOK
<1>2. ASSUME NEW r \in Request, Restart(r) PROVE PhaseInv'
  <2>1. /\ handlers' \in [Position -> Position] /\ postponed' \in BOOLEAN
        /\ handled' \in [Request -> Seq(Position)]
    BY <1>2 DEF Restart, PhaseInv, PhaseTypeOK
  <2>2. at' \in [Request -> 0..Engine]
    BY <1>2, EngineAssumption DEF Restart, PhaseInv, PhaseTypeOK
  <2>3. /\ handled' = handled
        /\ \A q \in Request : IF q = r THEN at'[q] = FirstRewrite - 1 ELSE at'[q] = at[q]
    BY <1>2 DEF Restart, PhaseInv, PhaseTypeOK
  <2>4. OrderInv' /\ postponed' = postponed
    BY <1>2 DEF Restart, PhaseInv, OrderInv
  <2>5. NobodyPassed' /\ RanInv'
    BY <2>3, <2>4, EngineAssumption DEF PhaseInv, NobodyPassed, RanInv
  <2> QED BY <2>1, <2>2, <2>4, <2>5 DEF PhaseInv, PhaseTypeOK
<1>3. ASSUME NEW r \in Request, RunOther(r) PROVE PhaseInv'
  <2>1. /\ at' \in [Request -> 0..Engine]
        /\ handled' \in [Request -> Seq(Position)]
        /\ RanInv'
    BY <1>3, AdvanceInv DEF RunOther
  <2>2. handlers' = handlers /\ postponed' = postponed
    BY <1>3 DEF RunOther
  <2>3. OrderInv'
    BY <2>2 DEF PhaseInv, OrderInv
  <2>4. NobodyPassed'
    <3>1. at[r] \in Position /\ Handler(r) # Home /\ InPhase(r)
      BY <1>3, EngineAssumption DEF RunOther, InPhase, PhaseInv, PhaseTypeOK, Position
    <3>2. ~postponed => handlers[at[r]] = at[r]
      BY <3>1 DEF PhaseInv, OrderInv
    <3>3. ~postponed => at[r] <= Home /\ at[r] # Home
      BY <3>1, <3>2 DEF PhaseInv, NobodyPassed, Handler
    <3>4. \A q \in Request : IF q = r THEN at'[q] = at[q] + 1 ELSE at'[q] = at[q]
      BY <1>3 DEF RunOther, Advance, PhaseInv, PhaseTypeOK
    <3> QED BY <2>2, <3>1, <3>3, <3>4, EngineAssumption DEF PhaseInv, NobodyPassed, Position
  <2> QED BY <2>1, <2>2, <2>3, <2>4 DEF PhaseInv, PhaseTypeOK
<1>4. ASSUME NEW r \in Request, Postpone(r) PROVE PhaseInv'
  <2>1. at[r] \in Position /\ ~postponed /\ at[r] < LastRewrite
    BY <1>4, EngineAssumption DEF Postpone, InPhase, PhaseInv, PhaseTypeOK, Position
  <2>2. at[r] = Home
    BY <1>4, <2>1 DEF Postpone, Handler, PhaseInv, OrderInv
  <2>3. \A p \in Position : handlers[p] = p
    BY <2>1 DEF PhaseInv, OrderInv
  <2>4. handlers' = Rotated(handlers, Home, LastRewrite) /\ postponed' /\ at' = at /\ handled' = handled
    BY <1>4, <2>2 DEF Postpone
  <2>5. OrderInv'
    <3>1. \A p \in Position : Home <= p /\ p < LastRewrite => p + 1 \in Position
      BY EngineAssumption DEF Position
    <3> QED BY <2>3, <2>4, <3>1, EngineAssumption DEF Rotated, OrderInv, Position
  <2>6. handlers' \in [Position -> Position]
    BY <2>4, <2>5, EngineAssumption DEF OrderInv, Position
  <2>7. NobodyPassed' /\ RanInv'
    BY <2>4 DEF PhaseInv, NobodyPassed, RanInv
  <2> QED BY <2>4, <2>5, <2>6, <2>7 DEF PhaseInv, PhaseTypeOK
<1>5. ASSUME NEW r \in Request, RunCommands(r) PROVE PhaseInv'
  <2>1. /\ at' \in [Request -> 0..Engine]
        /\ handled' \in [Request -> Seq(Position)]
        /\ RanInv'
    BY <1>5, AdvanceInv DEF RunCommands
  <2>2. handlers' = handlers /\ postponed'
    BY <1>5 DEF RunCommands
  <2>3. at[r] \in Position
    BY <1>5, EngineAssumption DEF RunCommands, InPhase, PhaseInv, PhaseTypeOK, Position
  <2>4. ~postponed => Home = LastRewrite
    BY <1>5, <2>3 DEF RunCommands, Handler, PhaseInv, OrderInv
  <2>5. OrderInv'
    BY <2>2, <2>4, EngineAssumption DEF PhaseInv, OrderInv, Position
  <2>6. NobodyPassed'
    BY <2>2 DEF NobodyPassed
  <2> QED BY <2>1, <2>2, <2>5, <2>6 DEF PhaseInv, PhaseTypeOK
<1>6. ASSUME NEW r \in Request, Fail(r) PROVE PhaseInv'
  <2>1. /\ handlers' \in [Position -> Position] /\ postponed' \in BOOLEAN
        /\ handled' \in [Request -> Seq(Position)]
    BY <1>6 DEF Fail, PhaseInv, PhaseTypeOK
  <2>2. at' \in [Request -> 0..Engine]
    BY <1>6, EngineAssumption DEF Fail, PhaseInv, PhaseTypeOK
  <2>3. /\ handlers' = handlers /\ handled' = handled
        /\ \A q \in Request : IF q = r THEN at'[q] = 0 ELSE at'[q] = at[q]
    BY <1>6 DEF Fail, PhaseInv, PhaseTypeOK
  <2>4. postponed => postponed'
    BY <1>6 DEF Fail
  <2>5. postponed' /\ ~postponed => Home = LastRewrite
    <3> SUFFICES ASSUME postponed', ~postponed PROVE Home = LastRewrite
      OBVIOUS
    <3>1. InPhase(r) /\ Handler(r) = Home /\ ~(at[r] < LastRewrite)
      BY <1>6 DEF Fail
    <3>2. at[r] \in Position /\ at[r] = LastRewrite
      BY <3>1, EngineAssumption DEF InPhase, PhaseInv, PhaseTypeOK, Position
    <3> QED BY <3>1, <3>2 DEF Handler, PhaseInv, OrderInv
  <2>6. OrderInv'
    <3>1. CASE postponed' = postponed
      BY <2>3, <3>1 DEF PhaseInv, OrderInv
    <3>2. CASE postponed' /\ ~postponed
      BY <2>3, <2>5, <3>2, EngineAssumption DEF PhaseInv, OrderInv, Position
    <3> QED BY <2>1, <2>4, <3>1, <3>2 DEF PhaseInv, PhaseTypeOK
  <2>7. NobodyPassed' /\ RanInv'
    BY <2>3, <2>4, EngineAssumption DEF PhaseInv, NobodyPassed, RanInv
  <2> QED BY <2>1, <2>2, <2>6, <2>7 DEF PhaseInv, PhaseTypeOK
<1>7. CASE UNCHANGED phaseVars
  BY <1>7 DEF phaseVars, PhaseInv, PhaseTypeOK, OrderInv, NobodyPassed, RanInv
<1> QED BY <1>1, <1>2, <1>3, <1>4, <1>5, <1>6, <1>7 DEF PhaseNext, Walk

\* The invariant holds in every reachable state.
THEOREM PhaseInvariance == PhaseSpec => []PhaseInv
BY PhaseInitInv, PhaseNextInv, PTL DEF PhaseSpec

\* Every state of the walk is of its type.
THEOREM PhaseTypeCorrect == PhaseSpec => []PhaseTypeOK
<1>1. PhaseInv => PhaseTypeOK
  BY DEF PhaseInv
<1> QED BY <1>1, PhaseInvariance, PTL

\* A request that has left the rewrite phase ran each of its handlers exactly
\* once, in the configured order with headers_more's moved last, whichever
\* request triggered the move and wherever the others were at that moment.
THEOREM HandlersRunOnce == PhaseSpec => []EachHandlerOnce
<1>1. PhaseInv => EachHandlerOnce
  <2> SUFFICES ASSUME PhaseInv, NEW r \in Request, at[r] = LastRewrite + 1
               PROVE  handled[r] = FinalOrder
    BY DEF EachHandlerOnce
  <2>1. handled[r] \in Seq(Position) /\ Len(handled[r]) = LastRewrite - FirstRewrite + 1
        /\ \A i \in 1..Len(handled[r]) : handled[r][i] = FinalOrder[i]
    <3>1. at[r] \in FirstRewrite..(LastRewrite + 1) /\ at[r] - FirstRewrite = LastRewrite - FirstRewrite + 1
      BY EngineAssumption
    <3> QED BY <3>1 DEF PhaseInv, PhaseTypeOK, RanInv
  <2>2. FinalOrder \in Seq(Position) /\ Len(FinalOrder) = LastRewrite - FirstRewrite + 1
    BY FinalOrderSeq
  <2> QED BY <2>1, <2>2
<1> QED BY <1>1, PhaseInvariance, PTL

\* The move loses and doubles no handler and leaves the other phases alone.
THEOREM NoHandlerLost == PhaseSpec => []HandlersKept
<1>1. PhaseInv => HandlersKept
  BY EngineAssumption DEF PhaseInv, OrderInv, HandlersKept, Position
<1> QED BY <1>1, PhaseInvariance, PTL

\* The stage StaticPhase sees of a request.
Stage == [r \in Request |-> IF at[r] = 0 THEN "closed"
                            ELSE IF InPhase(r) THEN "phase" ELSE "outside"]

\* One request moves: the stages of the others are what they were.
LEMMA StageMoves ==
    ASSUME PhaseTypeOK, NEW r \in Request, NEW x \in 0..Engine, at' = [at EXCEPT ![r] = x]
    PROVE  Stage' = [Stage EXCEPT ![r] = IF x = 0 THEN "closed"
                               ELSE IF x \in FirstRewrite..LastRewrite THEN "phase" ELSE "outside"]
BY DEF PhaseTypeOK, Stage, InPhase

\* A call that runs a handler is RunNext, and ends the pass with the last one.
LEMMA AdvanceRunsNext ==
    ASSUME PhaseInv, NEW r \in Request, InPhase(r),
           postponed \/ Handler(r) # Home \/ at[r] = LastRewrite, Advance(r)
    PROVE  Static!RunNext(r)
<1>1. /\ at[r] \in FirstRewrite..LastRewrite /\ at[r] + 1 \in 0..Engine
      /\ at[r] \in FirstRewrite..(LastRewrite + 1) /\ at[r] # 0
  BY EngineAssumption DEF PhaseInv, PhaseTypeOK, InPhase
<1>2. Len(handled[r]) = at[r] - FirstRewrite
  BY <1>1 DEF PhaseInv, RanInv
<1>3. Handler(r) = FinalOrder[Len(handled[r]) + 1]
  BY <1>1, <1>2, NextHandler, EngineAssumption
<1>4. FinalOrder \in Seq(Position) /\ Len(FinalOrder) = LastRewrite - FirstRewrite + 1
  BY FinalOrderSeq
<1>5. at' = [at EXCEPT ![r] = at[r] + 1]
  BY DEF Advance
<1>6. Stage' = [Stage EXCEPT
         ![r] = IF at[r] + 1 = 0 THEN "closed"
                ELSE IF at[r] + 1 \in FirstRewrite..LastRewrite THEN "phase" ELSE "outside"]
  BY <1>1, <1>5, StageMoves DEF PhaseInv
<1>7. Stage' = [Stage EXCEPT
         ![r] = IF Len(handled[r]) + 1 = Len(FinalOrder) THEN "outside" ELSE "phase"]
  <2>1. (IF at[r] + 1 = 0 THEN "closed"
         ELSE IF at[r] + 1 \in FirstRewrite..LastRewrite THEN "phase" ELSE "outside")
        = (IF Len(handled[r]) + 1 = Len(FinalOrder) THEN "outside" ELSE "phase")
    BY <1>1, <1>2, <1>4, EngineAssumption, SMTT(30)
  <2> QED BY <1>6, <2>1
<1>8. Stage[r] = "phase"
  BY <1>1 DEF Stage, InPhase
<1>9. handled' = [handled EXCEPT ![r] = Append(handled[r], FinalOrder[Len(handled[r]) + 1])]
  BY <1>3 DEF Advance
<1>10. Len(handled[r]) < Len(FinalOrder)
  BY <1>1, <1>2, <1>4, EngineAssumption
<1> QED BY <1>7, <1>8, <1>9, <1>10 DEF Static!RunNext, Stage

\* The rewrite phase with its shared, rearranged array implements the static
\* one: every request sees the one order, whatever the others do.
THEOREM Refinement == PhaseSpec => ImplementsStatic
<1>1. PhaseInit => Static!SInit
  <2> SUFFICES ASSUME PhaseInit PROVE Static!SInit
    OBVIOUS
  <2>1. \A r \in Request : at[r] # 0 /\ ~InPhase(r)
    <3>1. \A r \in Request : at[r] = FirstRewrite - 1
      BY DEF PhaseInit
    <3>2. FirstRewrite - 1 # 0 /\ FirstRewrite - 1 \notin FirstRewrite..LastRewrite
      BY EngineAssumption
    <3> QED BY <3>1, <3>2 DEF InPhase
  <2>2. handled = [r \in Request |-> <<>>]
    BY DEF PhaseInit
  <2> QED BY <2>1, <2>2 DEF Static!SInit
<1>2. PhaseInv /\ [PhaseNext]_phaseVars => [Static!SNext]_(Static!svars)
  <2> SUFFICES ASSUME PhaseInv, [PhaseNext]_phaseVars
               PROVE  Static!SNext \/ UNCHANGED Static!svars
    OBVIOUS
  <2>1. PhaseTypeOK
    BY DEF PhaseInv
  <2>2. ASSUME NEW r \in Request, EnterPhase(r) PROVE Static!Enter(r)
    <3>1. at' = [at EXCEPT ![r] = FirstRewrite] /\ FirstRewrite \in 0..Engine
          /\ FirstRewrite # 0 /\ FirstRewrite \in FirstRewrite..LastRewrite
      BY <2>2, EngineAssumption DEF EnterPhase
    <3>2. Stage' = [Stage EXCEPT ![r] = "phase"]
      BY <2>1, <3>1, StageMoves
    <3>3. Stage[r] = "outside"
      BY <2>2, EngineAssumption DEF EnterPhase, Stage, InPhase
    <3>4. handled' = [handled EXCEPT ![r] = <<>>]
      BY <2>2 DEF EnterPhase
    <3> QED BY <3>2, <3>3, <3>4 DEF Static!Enter, Stage
  <2>3. ASSUME NEW r \in Request, Restart(r) PROVE UNCHANGED Static!svars
    <3>1. at' = [at EXCEPT ![r] = FirstRewrite - 1] /\ FirstRewrite - 1 \in 0..Engine
          /\ FirstRewrite - 1 # 0 /\ FirstRewrite - 1 \notin FirstRewrite..LastRewrite
      BY <2>3, EngineAssumption DEF Restart
    <3>2. Stage' = [Stage EXCEPT ![r] = "outside"]
      BY <2>1, <3>1, StageMoves
    <3>3. Stage[r] = "outside"
      BY <2>3, EngineAssumption DEF Restart, Stage, InPhase
    <3>4. Stage' = Stage /\ handled' = handled
      BY <2>3, <3>2, <3>3 DEF Restart, Stage
    <3> QED BY <3>4 DEF Static!svars, Stage
  <2>4. ASSUME NEW r \in Request, RunOther(r) PROVE Static!RunNext(r)
    BY <2>4, AdvanceRunsNext DEF RunOther
  <2>5. ASSUME NEW r \in Request, Postpone(r) PROVE UNCHANGED Static!svars
    BY <2>5 DEF Postpone, Static!svars, InPhase
  <2>6. ASSUME NEW r \in Request, RunCommands(r) PROVE Static!RunNext(r)
    BY <2>6, AdvanceRunsNext DEF RunCommands
  <2>7. ASSUME NEW r \in Request, Fail(r) PROVE Static!Close(r)
    <3>1. at' = [at EXCEPT ![r] = 0] /\ 0 \in 0..Engine
      BY <2>7, EngineAssumption DEF Fail
    <3>2. Stage' = [Stage EXCEPT ![r] = "closed"]
      BY <2>1, <3>1, StageMoves
    <3>3. Stage[r] # "closed" /\ handled' = handled
      BY <2>7 DEF Fail, Stage
    <3> QED BY <3>2, <3>3 DEF Static!Close, Stage
  <2>8. CASE UNCHANGED phaseVars
    BY <2>8 DEF phaseVars, Static!svars, InPhase
  <2> QED BY <2>2, <2>3, <2>4, <2>5, <2>6, <2>7, <2>8 DEF PhaseNext, Walk, Static!SNext
<1> QED BY <1>1, <1>2, PhaseInvariance, PTL DEF PhaseSpec, ImplementsStatic, Static!SSpec

==============================================================================
