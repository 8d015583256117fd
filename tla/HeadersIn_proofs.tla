--------------------------- MODULE HeadersIn_proofs ---------------------------
(***************************************************************************)
(* The list of a request's lines and what a header of an input command     *)
(* does to it, for every list and whatever room its parts have.            *)
(*                                                                         *)
(* RoomInv says of the list that the room the code believes in is there    *)
(* (ListOK) and that no element is in two places (Distinct), which every   *)
(* removal, split and push keeps.  EditInv relates the pointers and fields *)
(* of headers_in to that list, in the middle of a header too, where a      *)
(* clear has reset a pointer and a handler has set a field before the      *)
(* lines follow.  InInv is what stays of the list behind a removal that    *)
(* has failed: its types.                                                  *)
(***************************************************************************)
EXTENDS HeadersIn, SequenceLemmas

------------------------------------------------------------------------------
(* The list of lines: no part runs out of its room                         *)

\* No part runs out of its room, and only a lone part may be empty; the code
\* knows no more room of the last part than there is.
ListOK(ps, known) ==
    /\ ps \in Seq(Part) /\ Len(ps) > 0 /\ known \in Nat \ {0}
    /\ \A p \in 1..Len(ps) : Len(ps[p].cells) <= ps[p].room
    /\ Len(ps) > 1 => \A p \in 1..Len(ps) : Len(ps[p].cells) > 0
    /\ Len(ps[Len(ps)].cells) <= known /\ known <= ps[Len(ps)].room

\* The match the search reports is in the list, and there is none before it:
\* not in its part, and not in an earlier one.
LEMMA MatchIs ==
    ASSUME parts \in Seq(Part),
           \E p \in 1..Len(parts) : \E i \in 1..Len(parts[p].cells) :
                cell[parts[p].cells[i]].key = edit.key
    PROVE  /\ MatchPart \in 1..Len(parts)
           /\ Match(MatchPart) \in 1..Len(parts[MatchPart].cells)
           /\ cell[MatchCell].key = edit.key
           /\ \A i \in 1..(Match(MatchPart) - 1) :
                cell[parts[MatchPart].cells[i]].key # edit.key
           /\ \A p \in 1..(MatchPart - 1) : \A i \in 1..Len(parts[p].cells) :
                cell[parts[p].cells[i]].key # edit.key
<1> DEFINE Holds(p, i) == cell[parts[p].cells[i]].key = edit.key
           ps == {p \in DOMAIN parts : \E i \in DOMAIN parts[p].cells : Holds(p, i)}
<1>1. DOMAIN parts \subseteq Nat /\ DOMAIN parts = 1..Len(parts)
    OBVIOUS
<1>c. \A p \in 1..Len(parts) : parts[p].cells \in Seq(Nat) /\ DOMAIN parts[p].cells = 1..Len(parts[p].cells)
    <2>1. \A p \in 1..Len(parts) : parts[p] \in Part
        BY ElementOfSeq
    <2>2. \A p \in 1..Len(parts) : parts[p].cells \in Seq(Nat)
        BY ONLY <2>1 DEF Part
    <2> QED BY ONLY <2>2, LenProperties
<1>2. ps # {}
    BY <1>1, <1>c
<1>3. PICK x \in ps : \A y \in ps : x <= y
    <2>1. ps \subseteq Nat
        BY <1>1
    <2> HIDE DEF ps
    <2> QED BY <1>2, <2>1, LeastNumber
<1>4. \A j \in 1..(x - 1) : j \in DOMAIN parts /\ j \notin ps
    <2>1. x \in 1..Len(parts)
        BY <1>1
    <2>2. \A j \in 1..(x - 1) : j \in 1..Len(parts) /\ ~(x <= j)
        BY <2>1
    <2> QED BY <1>1, <1>3, <2>2
<1>5. MatchPart \in ps /\ \A j \in 1..(MatchPart - 1) : j \notin ps
    <2> DEFINE Fst(p) == /\ \E i \in DOMAIN parts[p].cells : Holds(p, i)
                         /\ \A j \in 1..(p - 1) : ~(\E i \in DOMAIN parts[j].cells : Holds(j, i))
    <2>1. \A j \in 1..(x - 1) : ~(\E i \in DOMAIN parts[j].cells : Holds(j, i))
        BY <1>4
    <2>2. x \in DOMAIN parts /\ Fst(x)
        <3>1. x \in DOMAIN parts /\ \E i \in DOMAIN parts[x].cells : Holds(x, i)
            OBVIOUS
        <3> QED BY ONLY <2>1, <3>1
    <2>3. MatchPart = CHOOSE p \in DOMAIN parts : Fst(p)
        BY <1>2, Zenon DEF MatchPart, First
    <2>4. MatchPart \in DOMAIN parts /\ Fst(MatchPart)
        <3> HIDE DEF Fst
        <3> QED BY <2>2, <2>3
    <2> QED BY <2>4
<1> DEFINE m == MatchPart
           is == {i \in DOMAIN parts[m].cells : Holds(m, i)}
<1>6. parts[m].cells \in Seq(Nat)
    BY <1>1, <1>5, <1>c
<1>7. is # {} /\ is \subseteq Nat /\ DOMAIN parts[m].cells = 1..Len(parts[m].cells)
    <2>1. DOMAIN parts[m].cells = 1..Len(parts[m].cells)
        BY <1>5, <1>1, <1>c
    <2>2. is # {}
        BY <1>5
    <2>3. is \subseteq Nat
        BY <2>1
    <2> QED BY ONLY <2>1, <2>2, <2>3
<1> HIDE DEF m
<1>8. PICK i \in is : \A j \in is : i <= j
    <2> HIDE DEF is
    <2> QED BY <1>7, LeastNumber
<1>9. \A j \in 1..(i - 1) : j \in DOMAIN parts[m].cells /\ j \notin is
    <2>1. i \in 1..Len(parts[m].cells)
        BY <1>7
    <2>2. \A j \in 1..(i - 1) : j \in 1..Len(parts[m].cells) /\ ~(i <= j)
        <3>1. Len(parts[m].cells) \in Nat
            BY ONLY <1>6, LenProperties
        <3> QED BY ONLY <2>1, <3>1
    <2> QED BY <1>7, <1>8, <2>2
<1>10. Match(m) \in is /\ \A j \in 1..(Match(m) - 1) : ~Holds(m, j)
    <2> DEFINE Fst(k) == Holds(m, k) /\ \A j \in 1..(k - 1) : ~Holds(m, j)
    <2>1. \A j \in 1..(i - 1) : ~Holds(m, j)
        BY <1>9
    <2>2. i \in DOMAIN parts[m].cells /\ Fst(i)
        <3>1. i \in DOMAIN parts[m].cells /\ Holds(m, i)
            OBVIOUS
        <3> QED BY ONLY <2>1, <3>1
    <2>3. Match(m) = CHOOSE k \in DOMAIN parts[m].cells : Fst(k)
        BY <1>7, Zenon DEF Match, First
    <2>4. Match(m) \in DOMAIN parts[m].cells /\ Fst(Match(m))
        <3> HIDE DEF Fst
        <3> QED BY <2>2, <2>3
    <2> QED BY <2>4
<1>11. cell[MatchCell].key = edit.key
    BY <1>10 DEF MatchCell, m
<1>12. \A p \in 1..(m - 1) : \A j \in 1..Len(parts[p].cells) : ~Holds(p, j)
    <2>1. \A p \in 1..(m - 1) : p \in 1..Len(parts)
        BY <1>1, <1>5 DEF m
    <2> QED BY <1>1, <1>5, <1>c, <2>1 DEF m
<1> QED BY <1>1, <1>5, <1>7, <1>10, <1>11, <1>12 DEF m

\* What the search reports.
LEMMA MatchFound ==
    ASSUME parts \in Seq(Part)
    PROVE  MatchPart # 0 <=>
                \E p \in 1..Len(parts) : \E i \in 1..Len(parts[p].cells) :
                    cell[parts[p].cells[i]].key = edit.key
<1>1. DOMAIN parts = 1..Len(parts) /\ \A p \in 1..Len(parts) : parts[p] \in Part
    OBVIOUS
<1>2. \A p \in 1..Len(parts) : DOMAIN parts[p].cells = 1..Len(parts[p].cells)
    BY <1>1 DEF Part
<1>3. MatchPart # 0 => \E p \in 1..Len(parts) : \E i \in 1..Len(parts[p].cells) :
                            cell[parts[p].cells[i]].key = edit.key
    BY <1>1, <1>2 DEF MatchPart, First
<1>4. (\E p \in 1..Len(parts) : \E i \in 1..Len(parts[p].cells) :
            cell[parts[p].cells[i]].key = edit.key) => MatchPart \in 1..Len(parts)
    BY MatchIs
<1>5. MatchPart \in 1..Len(parts) => MatchPart # 0
    BY LenProperties
<1> QED BY <1>3, <1>4, <1>5

\* A part with the room it needs; one that may be the last.
Fits(q) == q \in Part /\ Len(q.cells) <= q.room
Ends(q, known) == known \in Nat \ {0} /\ Len(q.cells) <= known /\ known <= q.room

\* A part of a list with room.
LEMMA PartFits ==
    ASSUME NEW ps, NEW known, ListOK(ps, known), NEW p \in 1..Len(ps)
    PROVE  Fits(ps[p]) /\ ps[p].cells \in Seq(Nat) /\ ps[p].room \in Int
<1>1. ps[p] \in Part
    BY DEF ListOK
<1> QED BY <1>1 DEF ListOK, Fits, Part

\* Another part in the place of one.
LEMMA ReplacePart ==
    ASSUME NEW ps, NEW known, ListOK(ps, known), NEW p \in 1..Len(ps),
           NEW q, Fits(q), Len(q.cells) > 0,
           NEW k \in Nat \ {0}, IF p = Len(ps) THEN Ends(q, k) ELSE k = known
    PROVE  ListOK([ps EXCEPT ![p] = q], k)
<1> DEFINE new == [ps EXCEPT ![p] = q]
<1>1. /\ new \in Seq(Part) /\ Len(new) = Len(ps) /\ new[p] = q
      /\ \A j \in 1..Len(ps) : j # p => new[j] = ps[j]
    BY DEF ListOK, Fits
<1> HIDE DEF new
<1>2. /\ \A j \in 1..Len(new) : Len(new[j].cells) <= new[j].room
      /\ Len(new) > 1 => \A j \in 1..Len(new) : Len(new[j].cells) > 0
    BY <1>1 DEF ListOK, Fits
<1>3. Len(ps) \in 1..Len(ps) /\ Len(new) > 0
    BY <1>1 DEF ListOK
<1>4. Len(new[Len(new)].cells) <= k /\ k <= new[Len(new)].room
    BY <1>1, <1>3 DEF ListOK, Ends
<1>5. ListOK(new, k)
    BY <1>1, <1>2, <1>3, <1>4 DEF ListOK
<1> QED BY <1>5 DEF new

\* The elements behind the first p.
LEMMA SubSeqBehind ==
    ASSUME NEW S, NEW s \in Seq(S), NEW p \in 1..Len(s)
    PROVE  LET b == SubSeq(s, p + 1, Len(s))
           IN  /\ b \in Seq(S) /\ Len(b) = Len(s) - p
               /\ \A j \in 1..(Len(s) - p) : b[j] = s[p + j]
<1> DEFINE b == SubSeq(s, p + 1, Len(s))
<1>1. \A j \in (p + 1)..Len(s) : s[j] \in S
    OBVIOUS
<1>2. /\ b \in Seq(S)
      /\ Len(b) = IF p + 1 <= Len(s) THEN Len(s) - (p + 1) + 1 ELSE 0
      /\ \A j \in 1..(Len(s) - (p + 1) + 1) : b[j] = s[p + 1 + j - 1]
    BY <1>1, SubSeqProperties
<1> HIDE DEF b
<1>3. Len(s) \in Nat /\ p \in Nat /\ p <= Len(s)
    OBVIOUS
<1>4. Len(b) = Len(s) - p
    BY <1>2, <1>3
<1>5. ASSUME NEW j \in 1..(Len(s) - p) PROVE b[j] = s[p + j]
    <2>1. j \in 1..(Len(s) - (p + 1) + 1) /\ p + 1 + j - 1 = p + j
        BY <1>3
    <2> QED BY <1>2, <2>1
<1>6. b \in Seq(S) /\ Len(b) = Len(s) - p /\ \A j \in 1..(Len(s) - p) : b[j] = s[p + j]
    BY <1>2, <1>4, <1>5
<1> QED BY <1>6 DEF b

\* A sequence with an element inserted behind the first p.
LEMMA InsertElements ==
    ASSUME NEW S, NEW s \in Seq(S), NEW p \in 1..Len(s), NEW q \in S
    PROVE  /\ InsertAt(s, p + 1, q) \in Seq(S)
           /\ Len(InsertAt(s, p + 1, q)) = Len(s) + 1
           /\ \A j \in 1..p : InsertAt(s, p + 1, q)[j] = s[j]
           /\ InsertAt(s, p + 1, q)[p + 1] = q
           /\ \A j \in (p + 2)..(Len(s) + 1) : InsertAt(s, p + 1, q)[j] = s[j - 1]
<1> DEFINE a == SubSeq(s, 1, p)
           b == SubSeq(s, p + 1, Len(s))
           m == a \o <<q>>
<1>1. a \in Seq(S) /\ Len(a) = p /\ \A j \in 1..p : a[j] = s[j]
    <2>1. \A j \in 1..p : s[j] \in S
        OBVIOUS
    <2> QED BY <2>1, SubSeqProperties
<1>2. /\ b \in Seq(S) /\ Len(b) = Len(s) - p
      /\ \A j \in 1..(Len(s) - p) : b[j] = s[p + j]
    BY SubSeqBehind
<1> HIDE DEF a, b
<1>3. m \in Seq(S) /\ Len(m) = p + 1 /\ m[p + 1] = q /\ \A j \in 1..p : m[j] = s[j]
    BY <1>1
<1> HIDE DEF m
<1>4. /\ m \o b \in Seq(S) /\ Len(m \o b) = Len(m) + Len(b)
      /\ \A j \in 1..(Len(m) + Len(b)) :
            (m \o b)[j] = IF j <= Len(m) THEN m[j] ELSE b[j - Len(m)]
    BY <1>2, <1>3, ConcatProperties
<1>5. InsertAt(s, p + 1, q) = m \o b
    <2>1. (p + 1) - 1 = p
        OBVIOUS
    <2>2. InsertAt(s, p + 1, q) = SubSeq(s, 1, (p + 1) - 1) \o <<q>> \o SubSeq(s, p + 1, Len(s))
        BY Zenon DEF InsertAt
    <2>3. SubSeq(s, 1, (p + 1) - 1) = a
        BY <2>1, Zenon DEF a
    <2>4. SubSeq(s, p + 1, Len(s)) = b
        BY Zenon DEF b
    <2>5. InsertAt(s, p + 1, q) = a \o <<q>> \o b
        BY <2>2, <2>3, <2>4, Zenon
    <2> QED BY <2>5, Zenon DEF m
<1>6. Len(s) \in Nat /\ Len(m) + Len(b) = Len(s) + 1
    BY <1>2, <1>3
<1>7. \A j \in 1..p : j \in 1..(Len(m) + Len(b)) /\ j <= Len(m)
    BY <1>3, <1>6
<1>8. p + 1 \in 1..(Len(m) + Len(b)) /\ p + 1 <= Len(m)
    BY <1>3, <1>6
<1>9. ASSUME NEW j \in (p + 2)..(Len(s) + 1) PROVE (m \o b)[j] = s[j - 1]
    <2>1. /\ j \in 1..(Len(m) + Len(b)) /\ ~(j <= Len(m)) /\ j - Len(m) \in 1..(Len(s) - p)
          /\ p + (j - Len(m)) = j - 1
        BY <1>3, <1>6
    <2> QED BY <1>2, <1>4, <2>1
<1> QED BY <1>3, <1>4, <1>5, <1>6, <1>7, <1>8, <1>9

\* A new part behind one that is not empty.
LEMMA InsertPart ==
    ASSUME NEW ps, NEW known, ListOK(ps, known), NEW p \in 1..Len(ps), Len(ps[p].cells) > 0,
           NEW q, Fits(q), Len(q.cells) > 0,
           NEW k \in Nat \ {0}, IF p = Len(ps) THEN Ends(q, k) ELSE k = known
    PROVE  ListOK(InsertAt(ps, p + 1, q), k)
<1> DEFINE new == InsertAt(ps, p + 1, q)
<1>0. ps \in Seq(Part) /\ Len(ps) \in Nat /\ q \in Part
    BY DEF ListOK, Fits
<1>1. /\ new \in Seq(Part) /\ Len(new) = Len(ps) + 1 /\ new[p + 1] = q
      /\ \A j \in 1..p : new[j] = ps[j]
      /\ \A j \in (p + 2)..(Len(ps) + 1) : new[j] = ps[j - 1]
    <2>1. \A s \in Seq(Part) : \A i \in 1..Len(s) : \A e \in Part :
            /\ InsertAt(s, i + 1, e) \in Seq(Part)
            /\ Len(InsertAt(s, i + 1, e)) = Len(s) + 1
            /\ \A j \in 1..i : InsertAt(s, i + 1, e)[j] = s[j]
            /\ InsertAt(s, i + 1, e)[i + 1] = e
            /\ \A j \in (i + 2)..(Len(s) + 1) : InsertAt(s, i + 1, e)[j] = s[j - 1]
        BY InsertElements
    <2> QED BY <1>0, <2>1, ZenonT(60)
<1> HIDE DEF new
<1>2. \A j \in 1..Len(ps) : Len(ps[j].cells) > 0
    <2>1. CASE Len(ps) > 1
        BY <2>1 DEF ListOK
    <2>2. CASE ~(Len(ps) > 1)
        <3>1. \A j \in 1..Len(ps) : j = p
            BY <1>0, <2>2
        <3> QED BY <3>1
    <2> QED BY <2>1, <2>2
<1>3. \A j \in 1..Len(new) : new[j] = q \/ \E i \in 1..Len(ps) : new[j] = ps[i]
    <2> TAKE j \in 1..Len(new)
    <2>1. CASE j \in 1..p
        <3>1. j \in 1..Len(ps)
            BY <1>0, <2>1
        <3> QED BY <1>1, <2>1, <3>1
    <2>2. CASE j = p + 1
        BY <1>1, <2>2
    <2>3. CASE j \in (p + 2)..(Len(ps) + 1)
        <3>1. j - 1 \in 1..Len(ps)
            BY <1>0, <2>3
        <3> QED BY <1>1, <2>3, <3>1
    <2> QED BY <1>0, <1>1, <2>1, <2>2, <2>3
<1>4. \A j \in 1..Len(new) : Len(new[j].cells) <= new[j].room /\ Len(new[j].cells) > 0
    BY <1>2, <1>3 DEF ListOK, Fits
<1>5. Len(new[Len(new)].cells) <= k /\ k <= new[Len(new)].room
    <2>1. CASE p = Len(ps)
        BY <1>1, <2>1 DEF Ends
    <2>2. CASE p # Len(ps)
        <3>1. /\ Len(ps) + 1 \in (p + 2)..(Len(ps) + 1) /\ (Len(ps) + 1) - 1 = Len(ps)
            <4>1. p \in Nat /\ p <= Len(ps)
                BY <1>0
            <4> QED BY <1>0, <2>2, <4>1
        <3>2. new[Len(new)] = ps[Len(ps)]
            <4>1. new[Len(ps) + 1] = ps[(Len(ps) + 1) - 1]
                BY <1>1, <3>1
            <4> QED BY <1>1, <3>1, <4>1
        <3> QED BY <2>2, <3>2 DEF ListOK
    <2> QED BY <2>1, <2>2
<1>6. ListOK(new, k)
    BY <1>0, <1>1, <1>4, <1>5 DEF ListOK
<1> QED BY <1>6 DEF new

\* A sequence without its element p.
LEMMA RemoveElements ==
    ASSUME NEW S, NEW s \in Seq(S), NEW p \in 2..Len(s)
    PROVE  /\ RemoveAt(s, p) \in Seq(S)
           /\ Len(RemoveAt(s, p)) = Len(s) - 1
           /\ \A j \in 1..(p - 1) : RemoveAt(s, p)[j] = s[j]
           /\ \A j \in p..(Len(s) - 1) : RemoveAt(s, p)[j] = s[j + 1]
<1> DEFINE a == SubSeq(s, 1, p - 1)
           b == SubSeq(s, p + 1, Len(s))
<1>1. a \in Seq(S) /\ Len(a) = p - 1 /\ \A j \in 1..(p - 1) : a[j] = s[j]
    <2>1. \A j \in 1..(p - 1) : s[j] \in S
        OBVIOUS
    <2>2. /\ a \in Seq(S) /\ Len(a) = IF 1 <= p - 1 THEN p - 1 - 1 + 1 ELSE 0
          /\ \A j \in 1..(p - 1 - 1 + 1) : a[j] = s[1 + j - 1]
        BY <2>1, SubSeqProperties
    <2> HIDE DEF a
    <2>3. 1 <= p - 1 /\ p - 1 - 1 + 1 = p - 1 /\ \A j \in 1..(p - 1) : 1 + j - 1 = j
        OBVIOUS
    <2> QED BY <2>2, <2>3
<1>2. /\ b \in Seq(S) /\ Len(b) = Len(s) - p
      /\ \A j \in 1..(Len(s) - p) : b[j] = s[p + j]
    BY SubSeqBehind
<1>3. RemoveAt(s, p) = a \o b
    BY DEF RemoveAt
<1> HIDE DEF a, b
<1>4. /\ a \o b \in Seq(S) /\ Len(a \o b) = Len(a) + Len(b)
      /\ \A j \in 1..(Len(a) + Len(b)) :
            (a \o b)[j] = IF j <= Len(a) THEN a[j] ELSE b[j - Len(a)]
    BY <1>1, <1>2, ConcatProperties
<1>5. Len(s) \in Nat /\ Len(a) + Len(b) = Len(s) - 1
    BY <1>1, <1>2
<1>6. \A j \in 1..(p - 1) : j \in 1..(Len(a) + Len(b)) /\ j <= Len(a)
    BY <1>1, <1>5
<1>7. ASSUME NEW j \in p..(Len(s) - 1) PROVE (a \o b)[j] = s[j + 1]
    <2>1. /\ j \in 1..(Len(a) + Len(b)) /\ ~(j <= Len(a)) /\ j - Len(a) \in 1..(Len(s) - p)
          /\ p + (j - Len(a)) = j + 1
        BY <1>1, <1>5
    <2> QED BY <1>2, <1>4, <2>1
<1> QED BY <1>1, <1>3, <1>4, <1>5, <1>6, <1>7

\* A part is removed that is not the first.
LEMMA RemovePart ==
    ASSUME NEW ps, NEW known, ListOK(ps, known), NEW p \in 2..Len(ps),
           NEW k, k = IF p = Len(ps) THEN Len(ps[p - 1].cells) ELSE known
    PROVE  ListOK(RemoveAt(ps, p), k)
<1> DEFINE new == RemoveAt(ps, p)
<1>0. ps \in Seq(Part) /\ Len(ps) \in Nat
    BY DEF ListOK
<1>1. /\ new \in Seq(Part) /\ Len(new) = Len(ps) - 1
      /\ \A j \in 1..(p - 1) : new[j] = ps[j]
      /\ \A j \in p..(Len(ps) - 1) : new[j] = ps[j + 1]
    BY <1>0, RemoveElements
<1> HIDE DEF new
<1>2. \A j \in 1..Len(ps) : Len(ps[j].cells) > 0 /\ Len(ps[j].cells) <= ps[j].room
    <2>1. Len(ps) > 1
        BY <1>0
    <2> QED BY <2>1 DEF ListOK
<1>3. \A j \in 1..Len(new) : \E i \in 1..Len(ps) : new[j] = ps[i]
    <2> TAKE j \in 1..Len(new)
    <2>1. CASE j \in 1..(p - 1)
        <3>1. j \in 1..Len(ps)
            BY <1>0, <2>1
        <3> QED BY <1>1, <2>1, <3>1
    <2>2. CASE j \in p..(Len(ps) - 1)
        <3>1. j + 1 \in 1..Len(ps)
            BY <1>0, <2>2
        <3> QED BY <1>1, <2>2, <3>1
    <2>3. j \in 1..(p - 1) \/ j \in p..(Len(ps) - 1)
        <3>1. Len(ps) \in Nat /\ Len(new) = Len(ps) - 1
            BY <1>0, <1>1
        <3> QED BY ONLY <3>1, p \in 2..Len(ps), j \in 1..Len(new)
    <2> QED BY <2>1, <2>2, <2>3
<1>4. \A j \in 1..Len(new) : Len(new[j].cells) <= new[j].room /\ Len(new[j].cells) > 0
    BY <1>2, <1>3
<1>5. /\ k \in Nat \ {0}
      /\ Len(new[Len(new)].cells) <= k /\ k <= new[Len(new)].room
    <2>1. CASE p = Len(ps)
        <3>1. p - 1 \in 1..(p - 1) /\ p - 1 \in 1..Len(ps)
            BY <1>0
        <3>2. ps[p - 1].cells \in Seq(Nat)
            BY <3>1, PartFits
        <3>3. Len(ps[p - 1].cells) \in Nat /\ Len(ps[p - 1].cells) > 0
            BY <1>2, <3>1, <3>2
        <3>4. new[Len(new)] = ps[p - 1]
            BY <1>1, <2>1, <3>1
        <3> QED BY <1>2, <2>1, <3>1, <3>3, <3>4
    <2>2. CASE p # Len(ps)
        <3>1. Len(ps) - 1 \in p..(Len(ps) - 1) /\ Len(ps) - 1 + 1 = Len(ps)
            BY <1>0, <2>2
        <3>2. new[Len(new)] = ps[Len(ps)]
            BY <1>1, <3>1
        <3> QED BY <2>2, <3>2 DEF ListOK
    <2> QED BY <2>1, <2>2
<1>6. Len(new) > 0
    BY <1>0, <1>1
<1>7. ListOK(new, k)
    BY <1>1, <1>4, <1>5, <1>6 DEF ListOK
<1> QED BY <1>7 DEF new

\* A full last part.
LEMMA FullEnd ==
    ASSUME NEW q, NEW known \in Nat, known > 0, Len(q.cells) = known, known <= q.room
    PROVE  Ends(q, known) /\ known \in Nat \ {0}
    BY DEF Ends

\* The arithmetic of a removal at the end.
LEMMA OneLess ==
    ASSUME NEW known \in Nat, NEW i \in 1..known, i # 1
    PROVE  /\ known - 1 \in Nat \ {0} /\ 1 <= known - 1 /\ known - 1 > 0 /\ known - 1 \in Int /\ known \in Int
           /\ (known - 1) - 1 + 1 = known - 1
    OBVIOUS

\* A removal that succeeds leaves a list with room.
LEMMA RemovalFits ==
    ASSUME ListOK(parts, nalloc), NEW p \in 1..Len(parts),
           NEW i \in 1..Len(parts[p].cells), NEW o \in Removals(p, i), o.ok
    PROVE  ListOK(o.parts, o.nalloc)
<1> DEFINE old == parts[p]
           len == Len(old.cells)
<1>0. /\ old.cells \in Seq(Nat) /\ len \in Nat /\ len > 0 /\ old.room \in Int
      /\ len <= old.room /\ old.cells # <<>> /\ Len(parts) \in Nat
      /\ nalloc \in Nat \ {0} /\ parts \in Seq(Part) /\ i \in 1..len
    <2>1. old.cells \in Seq(Nat) /\ old.room \in Int /\ len <= old.room
        BY PartFits DEF Fits
    <2> QED BY <2>1 DEF ListOK
<1> HIDE DEF old
<1>1. CASE i = 1
    <2> DEFINE rest == [cells |-> Tail(old.cells), room |-> old.room - 1]
    <2>1. /\ rest.cells \in Seq(Nat) /\ Len(rest.cells) = len - 1
          /\ rest.room \in Int /\ Len(rest.cells) <= rest.room
        <3>1. Tail(old.cells) \in Seq(Nat) /\ Len(Tail(old.cells)) = len - 1
            BY <1>0, HeadTailProperties
        <3> QED BY <1>0, <3>1
    <2>2. Fits(rest)
        BY <2>1 DEF Fits, Part
    <2>3. o = RemoveHead(p)
        BY <1>1 DEF Removals
    <2>4. o = IF rest.cells # <<>>
              THEN Outcome([parts EXCEPT ![p] = rest],
                           IF p = Len(parts) THEN Len(rest.cells) ELSE nalloc, TRUE)
              ELSE IF p = 1 THEN Outcome([parts EXCEPT ![p] = rest], nalloc, FALSE)
              ELSE Outcome(RemoveAt(parts, p),
                     IF p = Len(parts) THEN Len(parts[p - 1].cells) ELSE nalloc, TRUE)
        BY <2>3 DEF RemoveHead, old
    <2> HIDE DEF rest
    <2>5. CASE rest.cells # <<>>
        <3> DEFINE k == IF p = Len(parts) THEN Len(rest.cells) ELSE nalloc
        <3>1. Len(rest.cells) \in Nat /\ Len(rest.cells) > 0
            BY <2>1, <2>5
        <3>2. /\ k \in Nat \ {0}
              /\ IF p = Len(parts) THEN Ends(rest, k) ELSE k = nalloc
            <4>1. Ends(rest, Len(rest.cells))
                BY <2>1, <3>1, FullEnd
            <4>2. CASE p = Len(parts)
                BY <3>1, <4>1, <4>2
            <4>3. CASE p # Len(parts)
                BY <1>0, <4>3
            <4> QED BY <4>2, <4>3
        <3>3. o.parts = [parts EXCEPT ![p] = rest] /\ o.nalloc = k
            BY <2>4, <2>5 DEF Outcome
        <3> HIDE DEF k
        <3> QED BY <2>2, <3>1, <3>2, <3>3, ReplacePart
    <2>6. CASE rest.cells = <<>>
        <3>1. p # 1
            BY <2>4, <2>6 DEF Outcome
        <3>2. p \in 2..Len(parts)
            BY <1>0, <3>1
        <3>3. /\ o.parts = RemoveAt(parts, p)
              /\ o.nalloc = IF p = Len(parts) THEN Len(parts[p - 1].cells) ELSE nalloc
            BY <2>4, <2>6, <3>1 DEF Outcome
        <3> QED BY <3>2, <3>3, RemovePart
    <2> QED BY <2>5, <2>6
<1>2. CASE i # 1 /\ i = len
    <2> DEFINE q == [cells |-> Front(old.cells), room |-> old.room]
               k == IF p = Len(parts) THEN len - 1 ELSE nalloc
    <2>1. Front(old.cells) \in Seq(Nat) /\ Len(Front(old.cells)) = len - 1
        <3>1. \A j \in 1..(len - 1) : old.cells[j] \in Nat
            BY <1>0, SMTT(30)
        <3>2. len \in Int /\ len - 1 \in Int /\ 1 <= len - 1 /\ (len - 1) - 1 + 1 = len - 1
            BY <1>0, <1>2, OneLess
        <3>3. /\ SubSeq(old.cells, 1, len - 1) \in Seq(Nat)
              /\ Len(SubSeq(old.cells, 1, len - 1)) = len - 1
            BY <3>1, <3>2, SubSeqProperties
        <3> QED BY <3>3 DEF Front
    <2>2. Fits(q) /\ Len(q.cells) = len - 1 /\ q.room = old.room
        BY <1>0, <2>1, SMTT(30) DEF Fits, Part
    <2>3. o.parts = [parts EXCEPT ![p] = q] /\ o.nalloc = k
        <3>1. old \in Part
            BY <1>0 DEF old
        <3>2. [old EXCEPT !.cells = Front(@)] = q
            BY <3>1 DEF Part
        <3>3. o = Outcome([parts EXCEPT ![p].cells = Front(@)], k, TRUE)
            BY <1>2 DEF Removals, RemoveEnd, old
        <3>4. [parts EXCEPT ![p].cells = Front(@)] = [parts EXCEPT ![p] = q]
            BY <1>0, <3>2 DEF old
        <3> HIDE DEF q, k
        <3> QED BY <3>3, <3>4 DEF Outcome
    <2>4. len - 1 \in Nat \ {0} /\ len - 1 <= old.room /\ len - 1 > 0
        <3>1. len - 1 \in Nat \ {0} /\ len - 1 > 0
            BY <1>0, <1>2, OneLess
        <3> QED BY <1>0, <3>1
    <2>5. k \in Nat \ {0} /\ (IF p = Len(parts) THEN Ends(q, k) ELSE k = nalloc)
        BY <1>0, <2>2, <2>4 DEF Ends
    <2> HIDE DEF q, k
    <2>6. Len(q.cells) > 0
        BY <2>2, <2>4
    <2> QED BY <2>2, <2>3, <2>5, <2>6, ReplacePart
<1>3. CASE i # 1 /\ i # len
    <2> DEFINE new == [cells |-> SubSeq(old.cells, i + 1, len), room |-> old.room - i]
               cut == [cells |-> SubSeq(old.cells, 1, i - 1), room |-> i]
               k == IF p = Len(parts) THEN Len(new.cells) ELSE nalloc
               j == IF p = Len(parts) THEN i - 1 ELSE nalloc
    <2>0. i \in Nat /\ i > 1 /\ i < len
        BY <1>0, <1>3 DEF old
    <2>1. /\ SubSeq(old.cells, i + 1, len) \in Seq(Nat)
          /\ Len(SubSeq(old.cells, i + 1, len)) = len - i
        <3>1. i \in 1..Len(old.cells)
            BY <1>0, <2>0
        <3> QED BY <1>0, <3>1, SubSeqBehind
    <2>2. /\ SubSeq(old.cells, 1, i - 1) \in Seq(Nat)
          /\ Len(SubSeq(old.cells, 1, i - 1)) = i - 1
        <3>1. \A u \in 1..(i - 1) : old.cells[u] \in Nat
            BY <1>0, <2>0
        <3>2. i - 1 \in Int /\ 1 <= i - 1 /\ (i - 1) - 1 + 1 = i - 1
            BY <2>0
        <3> QED BY <3>1, <3>2, SubSeqProperties
    <2>3. Fits(new) /\ Len(new.cells) = len - i /\ new.room = old.room - i
        <3>1. old.room - i \in Int /\ len - i <= old.room - i
            BY <1>0, <2>0
        <3>2. new \in Part /\ Len(new.cells) = len - i /\ new.room = old.room - i
            BY <2>1, <3>1 DEF Part
        <3> QED BY <3>1, <3>2 DEF Fits
    <2>4. Fits(cut) /\ Len(cut.cells) = i - 1 /\ cut.room = i
        <3>1. i \in Int /\ i - 1 <= i
            BY <2>0
        <3>2. cut \in Part /\ Len(cut.cells) = i - 1 /\ cut.room = i
            BY <2>2, <3>1 DEF Part
        <3> QED BY <3>1, <3>2 DEF Fits
    <2>5. o = Outcome(InsertAt([parts EXCEPT ![p] = cut], p + 1, new), k, TRUE)
        BY <1>3 DEF Removals, Split, Outcome, old
    <2> HIDE DEF new, cut
    <2>6. /\ Len(new.cells) \in Nat \ {0} /\ Len(new.cells) <= new.room
          /\ Len(cut.cells) \in Nat \ {0} /\ Len(cut.cells) > 0 /\ Len(new.cells) > 0
        <3>1. /\ len - i \in Nat \ {0} /\ len - i > 0 /\ len - i <= old.room - i
              /\ i - 1 \in Nat \ {0} /\ i - 1 > 0
            <4>1. len \in Nat /\ i \in Nat /\ i > 1 /\ i < len /\ old.room \in Int /\ len <= old.room
                BY <1>0, <2>0
            <4> HIDE DEF len
            <4> QED BY ONLY <4>1, SMTT(30)
        <3> QED BY <2>3, <2>4, <3>1
    <2>7. j \in Nat \ {0} /\ (IF p = Len(parts) THEN Ends(cut, j) ELSE j = nalloc)
        BY <1>0, <2>0, <2>4 DEF Ends
    <2> HIDE DEF j
    <2>8. ListOK([parts EXCEPT ![p] = cut], j)
        BY <2>4, <2>6, <2>7, ReplacePart
    <2> DEFINE ps == [parts EXCEPT ![p] = cut]
    <2>9. Len(ps) = Len(parts) /\ ps[p] = cut
        BY <1>0
    <2> HIDE DEF ps
    <2>10. k \in Nat \ {0} /\ (IF p = Len(ps) THEN Ends(new, k) ELSE k = j)
        BY <1>0, <2>6, <2>9 DEF Ends, j
    <2> HIDE DEF k
    <2>11. ListOK(ps, j) /\ p \in 1..Len(ps) /\ Len(ps[p].cells) > 0
        BY <2>6, <2>8, <2>9 DEF ps
    <2>12. ListOK(InsertAt(ps, p + 1, new), k)
        BY <2>3, <2>6, <2>10, <2>11, InsertPart
    <2> QED BY <2>5, <2>12 DEF Outcome, ps
<1> QED BY <1>1, <1>2, <1>3

\* A new part behind a full one.
LEMMA AppendPart ==
    ASSUME NEW ps, NEW known, ListOK(ps, known), Len(ps[Len(ps)].cells) = known,
           NEW q, Fits(q), Ends(q, known), Len(q.cells) > 0
    PROVE  ListOK(Append(ps, q), known)
<1> DEFINE new == Append(ps, q)
<1>0. ps \in Seq(Part) /\ Len(ps) \in Nat /\ Len(ps) > 0 /\ q \in Part /\ known \in Nat \ {0}
    BY DEF ListOK, Fits
<1>1. /\ new \in Seq(Part) /\ Len(new) = Len(ps) + 1 /\ new[Len(ps) + 1] = q
      /\ \A j \in 1..Len(ps) : new[j] = ps[j]
    BY <1>0
<1> HIDE DEF new
<1>2. \A j \in 1..Len(ps) : Len(ps[j].cells) > 0
    <2>1. CASE Len(ps) > 1
        BY <2>1 DEF ListOK
    <2>2. CASE ~(Len(ps) > 1)
        <3>1. \A j \in 1..Len(ps) : j = Len(ps)
            BY <1>0, <2>2
        <3> QED BY <1>0, <3>1
    <2> QED BY <2>1, <2>2
<1>3. \A j \in 1..Len(new) : j \in 1..Len(ps) \/ j = Len(ps) + 1
    BY <1>0, <1>1
<1>4. \A j \in 1..Len(new) : Len(new[j].cells) <= new[j].room /\ Len(new[j].cells) > 0
    BY <1>1, <1>2, <1>3 DEF ListOK, Fits
<1>5. Len(new) > 0 /\ new[Len(new)] = q
    BY <1>0, <1>1
<1>6. ListOK(new, known)
    BY <1>0, <1>1, <1>4, <1>5 DEF ListOK, Ends
<1> QED BY <1>6 DEF new

\* A new part for a full one, or one more element in the last.
LEMMA PushFits ==
    ASSUME ListOK(parts, nalloc), NEW c \in Nat, nalloc' = nalloc,
           parts' = IF Len(parts[Len(parts)].cells) = nalloc
                    THEN Append(parts, [cells |-> <<c>>, room |-> nalloc])
                    ELSE [parts EXCEPT ![Len(parts)].cells = Append(@, c)]
    PROVE  ListOK(parts, nalloc)'
<1> DEFINE last == Len(parts)
           old == parts[last]
<1>0. /\ last \in 1..Len(parts) /\ last \in Nat /\ parts \in Seq(Part)
      /\ nalloc \in Nat \ {0} /\ Len(old.cells) <= nalloc /\ nalloc <= old.room
    BY DEF ListOK
<1>1. old.cells \in Seq(Nat) /\ old.room \in Int /\ Len(old.cells) \in Nat /\ old \in Part
    <2>1. old.cells \in Seq(Nat) /\ old.room \in Int /\ old \in Part
        BY <1>0, PartFits DEF Fits
    <2> QED BY <2>1
<1>2. CASE Len(old.cells) = nalloc
    <2> DEFINE q == [cells |-> <<c>>, room |-> nalloc]
    <2>1. q.cells \in Seq(Nat) /\ Len(q.cells) = 1 /\ q.room = nalloc /\ q \in Part
        BY <1>0 DEF Part
    <2>2. parts' = Append(parts, q)
        BY <1>2
    <2> HIDE DEF q
    <2>3. Fits(q) /\ Ends(q, nalloc) /\ Len(q.cells) > 0
        BY <1>0, <2>1 DEF Fits, Ends
    <2>4. ListOK(Append(parts, q), nalloc)
        BY <1>2, <2>3, AppendPart
    <2> QED BY <2>2, <2>4 DEF ListOK
<1>3. CASE Len(old.cells) # nalloc
    <2> DEFINE q == [cells |-> Append(old.cells, c), room |-> old.room]
    <2>1. Append(old.cells, c) \in Seq(Nat) /\ Len(Append(old.cells, c)) = Len(old.cells) + 1
        BY <1>1
    <2>2. /\ q \in Part /\ q.room = old.room /\ Len(q.cells) = Len(old.cells) + 1
          /\ [old EXCEPT !.cells = Append(@, c)] = q
        <3>1. q \in Part /\ q.room = old.room /\ Len(q.cells) = Len(old.cells) + 1
            BY <1>1, <2>1 DEF Part
        <3>2. \A r \in Part : \A t : [r EXCEPT !.cells = t] = [cells |-> t, room |-> r.room]
            BY DEF Part
        <3> QED BY <1>1, <3>1, <3>2
    <2>3. parts' = [parts EXCEPT ![last] = q]
        <3>1. parts' = [parts EXCEPT ![last].cells = Append(@, c)]
            BY <1>3
        <3> HIDE DEF q
        <3>2. [parts EXCEPT ![last].cells = Append(@, c)]
                = [parts EXCEPT ![last] = [old EXCEPT !.cells = Append(@, c)]]
            BY <1>0
        <3> QED BY <2>2, <3>1, <3>2
    <2> HIDE DEF q
    <2>4. /\ Len(old.cells) + 1 <= nalloc /\ Len(old.cells) + 1 > 0
          /\ Len(old.cells) + 1 <= old.room
        BY <1>0, <1>1, <1>3
    <2>5. Fits(q) /\ Ends(q, nalloc) /\ Len(q.cells) > 0
        BY <1>0, <2>2, <2>4 DEF Fits, Ends
    <2>6. ListOK([parts EXCEPT ![last] = q], nalloc)
        BY <1>0, <2>5, ReplacePart
    <2> QED BY <2>3, <2>6 DEF ListOK
<1> QED BY <1>2, <1>3

------------------------------------------------------------------------------
(* The list of lines: no element is in two places                          *)

\* No element is in two places of the list; all are among the first made.
Distinct(ps, made) ==
    /\ \A p \in 1..Len(ps) : \A i \in 1..Len(ps[p].cells) : ps[p].cells[i] \in 1..made
    /\ \A p, q \in 1..Len(ps) : \A i \in 1..Len(ps[p].cells) : \A j \in 1..Len(ps[q].cells) :
            ps[p].cells[i] = ps[q].cells[j] => p = q /\ i = j

\* q is the run of cells of old behind its first t.
RunOf(q, old, t) ==
    \A i \in 1..Len(q.cells) : t + i \in 1..Len(old.cells) /\ q.cells[i] = old.cells[t + i]

\* Part r of new is the run behind the first d[r] cells of part o[r] of old,
\* and the runs of one part do not overlap.
Runs(new, old, o, d) ==
    /\ \A r \in 1..Len(new) : /\ o[r] \in 1..Len(old) /\ d[r] \in Nat
                              /\ RunOf(new[r], old[o[r]], d[r])
    /\ \A r, s \in 1..Len(new) : r # s /\ o[r] = o[s] =>
            \A i \in 1..Len(new[r].cells) : \A j \in 1..Len(new[s].cells) : d[r] + i # d[s] + j

\* A part is a run of itself.
LEMMA SameRun ==
    ASSUME NEW q \in Part
    PROVE  RunOf(q, q, 0)
<1>1. Len(q.cells) \in Nat
    BY DEF Part
<1>2. \A i \in 1..Len(q.cells) : 0 + i = i
    BY <1>1
<1> QED BY <1>2 DEF RunOf

\* A list of such runs has no element twice if the list it is made from has not.
LEMMA RunsDistinct ==
    ASSUME NEW old, NEW made, Distinct(old, made), NEW new, NEW o, NEW d, Runs(new, old, o, d)
    PROVE  Distinct(new, made)
<1>a. \A r \in 1..Len(new) :
        /\ o[r] \in 1..Len(old) /\ d[r] \in Nat
        /\ \A i \in 1..Len(new[r].cells) :
            /\ d[r] + i \in 1..Len(old[o[r]].cells)
            /\ new[r].cells[i] = old[o[r]].cells[d[r] + i]
    BY DEF Runs, RunOf
<1>b. \A r, s \in 1..Len(new) : r # s /\ o[r] = o[s] =>
            \A i \in 1..Len(new[r].cells) : \A j \in 1..Len(new[s].cells) : d[r] + i # d[s] + j
    BY DEF Runs
<1>1. \A r \in 1..Len(new) : \A i \in 1..Len(new[r].cells) : new[r].cells[i] \in 1..made
    <2> TAKE r \in 1..Len(new)
    <2> TAKE i \in 1..Len(new[r].cells)
    <2>1. /\ o[r] \in 1..Len(old) /\ d[r] + i \in 1..Len(old[o[r]].cells)
          /\ new[r].cells[i] = old[o[r]].cells[d[r] + i]
        BY <1>a
    <2>2. \A p \in 1..Len(old) : \A k \in 1..Len(old[p].cells) : old[p].cells[k] \in 1..made
        BY DEF Distinct
    <2> QED BY ONLY <2>1, <2>2
<1>2. ASSUME NEW r \in 1..Len(new), NEW s \in 1..Len(new),
             NEW i \in 1..Len(new[r].cells), NEW j \in 1..Len(new[s].cells),
             new[r].cells[i] = new[s].cells[j]
      PROVE  r = s /\ i = j
    <2>1. /\ o[r] \in 1..Len(old) /\ d[r] + i \in 1..Len(old[o[r]].cells)
          /\ new[r].cells[i] = old[o[r]].cells[d[r] + i]
          /\ o[s] \in 1..Len(old) /\ d[s] + j \in 1..Len(old[o[s]].cells)
          /\ new[s].cells[j] = old[o[s]].cells[d[s] + j]
        BY <1>a
    <2>2. o[r] = o[s] /\ d[r] + i = d[s] + j
        <3>1. \A p, q \in 1..Len(old) :
                \A k \in 1..Len(old[p].cells) : \A l \in 1..Len(old[q].cells) :
                    old[p].cells[k] = old[q].cells[l] => p = q /\ k = l
            BY DEF Distinct
        <3>2. old[o[r]].cells[d[r] + i] = old[o[s]].cells[d[s] + j]
            BY <1>2, <2>1
        <3> DEFINE p == o[r]
                   q == o[s]
                   k == d[r] + i
                   l == d[s] + j
        <3>3. /\ p \in 1..Len(old) /\ q \in 1..Len(old) /\ k \in 1..Len(old[p].cells)
              /\ l \in 1..Len(old[q].cells) /\ old[p].cells[k] = old[q].cells[l]
            BY <2>1, <3>2
        <3> HIDE DEF p, q, k, l
        <3>4. p = q /\ k = l
            BY ONLY <3>1, <3>3, SMTT(30)
        <3> QED BY <3>4 DEF p, q, k, l
    <2>3. r = s
        BY <1>b, <2>2
    <2> QED BY <1>a, <2>2, <2>3
<1> QED BY <1>1, <1>2 DEF Distinct

\* What FlattenSeq makes of sequences without a common element, or one twice.
LEMMA FlattenInjective ==
    ASSUME NEW S, NEW seqs \in Seq(Seq(S)), Len(seqs) > 0,
           \A p, q \in 1..Len(seqs) : \A i \in 1..Len(seqs[p]) : \A j \in 1..Len(seqs[q]) :
                seqs[p][i] = seqs[q][j] => p = q /\ i = j
    PROVE  IsInjective(FlattenSeq(seqs))
<1> DEFINE len == Len(seqs)
<1>0. len \in Nat /\ len > 0 /\ 1 \in 1..len /\ len \in 1..len
      /\ \A i \in 1..len : seqs[i] \in Seq(S) /\ Len(seqs[i]) \in Nat
    <2>1. len \in Nat /\ \A i \in 1..len : seqs[i] \in Seq(S)
        OBVIOUS
    <2> QED BY <2>1, LenProperties
<1>1. PICK f \in [1..len -> Seq(S)] :
          /\ f[1] = seqs[1]
          /\ \A i \in 2..len : f[i] = f[i - 1] \o seqs[i]
          /\ FlattenSeq(seqs) = f[len]
    BY <1>0, FlattenSteps
<1> DEFINE From(m) == \A k \in 1..Len(f[m]) :
                        \E p \in 1..m : \E i \in 1..Len(seqs[p]) : f[m][k] = seqs[p][i]
           Once(m) == \A k, l \in 1..Len(f[m]) : f[m][k] = f[m][l] => k = l
           T == {m \in 1..len : From(m) /\ Once(m)}
<1>2. 1 \in T
    <2>1. From(1)
        <3>1. 1 \in 1..1
            OBVIOUS
        <3> QED BY <1>0, <1>1, <3>1
    <2>2. Once(1)
        BY <1>0, <1>1
    <2> HIDE DEF From, Once
    <2> QED BY <1>0, <2>1, <2>2
<1>3. ASSUME NEW m \in 1..len, m < len, m \in T PROVE m + 1 \in T
    <2>1. m + 1 \in 2..len /\ m + 1 \in 1..len /\ (m + 1) - 1 = m /\ m \in 1..(m + 1)
          /\ m + 1 \in 1..(m + 1) /\ m \in Nat
        BY <1>0, <1>3
    <2> DEFINE a == f[m]
               b == seqs[m + 1]
               both == f[m + 1]
    <2>2. a \in Seq(S) /\ b \in Seq(S) /\ both = a \o b /\ Len(a) \in Nat /\ Len(b) \in Nat
        <3>1. a \in Seq(S) /\ b \in Seq(S) /\ both = a \o b
            BY <1>0, <1>1, <2>1
        <3> QED BY <3>1, LenProperties
    <2>3. From(m) /\ Once(m)
        BY <1>3
    <2> HIDE DEF a, b, both
    <2>4. /\ Len(both) = Len(a) + Len(b)
          /\ \A k \in 1..(Len(a) + Len(b)) :
                both[k] = IF k <= Len(a) THEN a[k] ELSE b[k - Len(a)]
        BY <2>2, ConcatProperties
    <2>5. \A k \in 1..(Len(a) + Len(b)) :
            \/ k \in 1..Len(a) /\ k <= Len(a)
            \/ k - Len(a) \in 1..Len(b) /\ ~(k <= Len(a))
        BY <2>2
    <2>6. \A k \in 1..Len(a) : \E p \in 1..m : \E i \in 1..Len(seqs[p]) : a[k] = seqs[p][i]
        BY <2>3 DEF a
    <2>7. From(m + 1)
        <3> SUFFICES ASSUME NEW k \in 1..(Len(a) + Len(b))
                     PROVE  \E p \in 1..(m + 1) : \E i \in 1..Len(seqs[p]) : both[k] = seqs[p][i]
            BY <2>4 DEF both
        <3>1. CASE k \in 1..Len(a) /\ k <= Len(a)
            <4>1. PICK p \in 1..m : \E i \in 1..Len(seqs[p]) : a[k] = seqs[p][i]
                BY <2>6, <3>1
            <4>2. p \in 1..(m + 1)
                BY <2>1
            <4> QED BY <2>4, <3>1, <4>1, <4>2
        <3>2. CASE k - Len(a) \in 1..Len(b) /\ ~(k <= Len(a))
            <4>1. both[k] = seqs[m + 1][k - Len(a)] /\ k - Len(a) \in 1..Len(seqs[m + 1])
                BY <2>4, <3>2 DEF b
            <4> QED BY <2>1, <4>1
        <3> QED BY <2>5, <3>1, <3>2
    <2>8. \A k \in 1..Len(a) : \A i \in 1..Len(b) : a[k] # b[i]
        <3> SUFFICES ASSUME NEW k \in 1..Len(a), NEW j \in 1..Len(b), a[k] = b[j] PROVE FALSE
            OBVIOUS
        <3>1. PICK p \in 1..m : \E i \in 1..Len(seqs[p]) : a[k] = seqs[p][i]
            BY <2>6
        <3>2. PICK i \in 1..Len(seqs[p]) : a[k] = seqs[p][i]
            BY <3>1
        <3>3. p \in 1..len /\ p # m + 1
            BY <1>0, <1>3, <2>1
        <3>4. j \in 1..Len(seqs[m + 1]) /\ b[j] = seqs[m + 1][j]
            BY DEF b
        <3>5. seqs[p][i] = seqs[m + 1][j]
            BY <3>2, <3>4
        <3> QED BY <2>1, <3>3, <3>4, <3>5
    <2>9. Once(m + 1)
        <3> SUFFICES ASSUME NEW k \in 1..(Len(a) + Len(b)), NEW l \in 1..(Len(a) + Len(b)),
                            both[k] = both[l]
                     PROVE  k = l
            BY <2>4 DEF both
        <3>1. CASE k <= Len(a) /\ l <= Len(a)
            <4>1. k \in 1..Len(a) /\ l \in 1..Len(a) /\ a[k] = a[l]
                BY <2>4, <2>5, <3>1
            <4> QED BY <2>3, <4>1 DEF a
        <3>2. CASE ~(k <= Len(a)) /\ ~(l <= Len(a))
            <4>1. k - Len(a) \in 1..Len(b) /\ l - Len(a) \in 1..Len(b) /\ b[k - Len(a)] = b[l - Len(a)]
                BY <2>4, <2>5, <3>2
            <4>2. \A i, j \in 1..Len(b) : b[i] = b[j] => i = j
                BY <2>1, SMTT(30) DEF b
            <4>3. k - Len(a) = l - Len(a)
                BY <4>1, <4>2
            <4> QED BY <2>2, <4>3
        <3>3. CASE k <= Len(a) /\ ~(l <= Len(a))
            BY <2>4, <2>5, <2>8, <3>3
        <3>4. CASE ~(k <= Len(a)) /\ l <= Len(a)
            <4>1. l \in 1..Len(a) /\ k - Len(a) \in 1..Len(b) /\ a[l] = b[k - Len(a)]
                BY <2>4, <2>5, <3>4
            <4> QED BY <2>8, <4>1
        <3> QED BY <3>1, <3>2, <3>3, <3>4
    <2> HIDE DEF From, Once
    <2> QED BY <2>1, <2>7, <2>9
<1>4. len \in T
    <2> HIDE DEF T, len
    <2> QED BY <1>0, <1>2, <1>3, Induction
<1>5. Once(len) /\ f[len] \in Seq(S)
    BY <1>0, <1>1, <1>4
<1>6. DOMAIN f[len] = 1..Len(f[len])
    BY <1>5, LenProperties
<1> QED BY <1>1, <1>5, <1>6 DEF IsInjective

\* A part is replaced by a run of its cells.
LEMMA ReplaceDistinct ==
    ASSUME NEW ps \in Seq(Part), NEW made, Distinct(ps, made), NEW p \in 1..Len(ps), NEW q,
           NEW t \in Nat, RunOf(q, ps[p], t)
    PROVE  Distinct([ps EXCEPT ![p] = q], made)
<1> DEFINE new == [ps EXCEPT ![p] = q]
           o == [r \in 1..Len(ps) |-> r]
           d == [r \in 1..Len(ps) |-> IF r = p THEN t ELSE 0]
<1>1. /\ Len(new) = Len(ps) /\ new[p] = q
      /\ \A j \in 1..Len(ps) : j # p => new[j] = ps[j]
    OBVIOUS
<1>2. \A j \in 1..Len(ps) : ps[j] \in Part
    OBVIOUS
<1> HIDE DEF new
<1>3. ASSUME NEW r \in 1..Len(new)
      PROVE  /\ o[r] \in 1..Len(ps) /\ d[r] \in Nat /\ RunOf(new[r], ps[o[r]], d[r])
             /\ o[r] = r
    BY <1>1, <1>2, SameRun
<1>4. \A r, s \in 1..Len(new) : r # s => o[r] # o[s]
    BY <1>3
<1> HIDE DEF o, d
<1>5. Runs(new, ps, o, d)
    BY <1>3, <1>4 DEF Runs
<1>6. Distinct(new, made)
    BY <1>5, RunsDistinct
<1> QED BY <1>6 DEF new

\* A part is removed.
LEMMA RemoveDistinct ==
    ASSUME NEW ps \in Seq(Part), NEW made, Distinct(ps, made), NEW p \in 2..Len(ps)
    PROVE  Distinct(RemoveAt(ps, p), made)
<1> DEFINE new == RemoveAt(ps, p)
           o == [r \in 1..(Len(ps) - 1) |-> IF r < p THEN r ELSE r + 1]
           d == [r \in 1..(Len(ps) - 1) |-> 0]
<1>1. /\ Len(new) = Len(ps) - 1
      /\ \A j \in 1..(p - 1) : new[j] = ps[j]
      /\ \A j \in p..(Len(ps) - 1) : new[j] = ps[j + 1]
    BY RemoveElements
<1>2. Len(ps) \in Nat /\ \A j \in 1..Len(ps) : ps[j] \in Part
    OBVIOUS
<1> HIDE DEF new
<1>3. ASSUME NEW r \in 1..(Len(ps) - 1)
      PROVE  /\ o[r] \in 1..Len(ps) /\ d[r] = 0 /\ new[r] = ps[o[r]]
             /\ o[r] = IF r < p THEN r ELSE r + 1
    <2>1. CASE r < p
        <3>1. r \in 1..(p - 1) /\ r \in 1..Len(ps)
            BY <1>2, <2>1
        <3> QED BY <1>1, <2>1, <3>1
    <2>2. CASE ~(r < p)
        <3>1. r \in p..(Len(ps) - 1) /\ r + 1 \in 1..Len(ps)
            BY <1>2, <2>2
        <3> QED BY <1>1, <2>2, <3>1
    <2> QED BY <2>1, <2>2
<1> HIDE DEF o, d
<1>4. \A r \in 1..Len(new) : o[r] \in 1..Len(ps) /\ d[r] \in Nat /\ RunOf(new[r], ps[o[r]], d[r])
    BY <1>1, <1>2, <1>3, SameRun
<1>5. ASSUME NEW r \in 1..(Len(ps) - 1), NEW s \in 1..(Len(ps) - 1), r # s PROVE o[r] # o[s]
    <2>1. (IF r < p THEN r ELSE r + 1) # (IF s < p THEN s ELSE s + 1)
        BY <1>2, <1>5
    <2> QED BY <1>3, <2>1
<1>6. \A r, s \in 1..Len(new) : r # s => o[r] # o[s]
    BY <1>1, <1>5
<1>7. Runs(new, ps, o, d)
    BY <1>4, <1>6 DEF Runs
<1>8. Distinct(new, made)
    BY <1>7, RunsDistinct
<1> QED BY <1>8 DEF new

\* InsertElements of a list of parts.
LEMMA InsertedPart ==
    \A s \in Seq(Part) : \A i \in 1..Len(s) : \A e \in Part :
        /\ InsertAt(s, i + 1, e) \in Seq(Part)
        /\ Len(InsertAt(s, i + 1, e)) = Len(s) + 1
        /\ \A j \in 1..i : InsertAt(s, i + 1, e)[j] = s[j]
        /\ InsertAt(s, i + 1, e)[i + 1] = e
        /\ \A j \in (i + 2)..(Len(s) + 1) : InsertAt(s, i + 1, e)[j] = s[j - 1]
BY InsertElements

\* A part is replaced by two runs of its cells that do not overlap.
LEMMA SplitDistinct ==
    ASSUME NEW ps \in Seq(Part), NEW made, Distinct(ps, made), NEW p \in 1..Len(ps),
           NEW t \in Nat, NEW cut \in Part, NEW q \in Part,
           RunOf(cut, ps[p], 0), Len(cut.cells) <= t, RunOf(q, ps[p], t)
    PROVE  Distinct(InsertAt([ps EXCEPT ![p] = cut], p + 1, q), made)
<1> DEFINE mid == [ps EXCEPT ![p] = cut]
           new == InsertAt(mid, p + 1, q)
           o == [r \in 1..(Len(ps) + 1) |-> IF r <= p THEN r ELSE r - 1]
           d == [r \in 1..(Len(ps) + 1) |-> IF r = p + 1 THEN t ELSE 0]
<1>0. Len(ps) \in Nat /\ p \in Nat /\ \A j \in 1..Len(ps) : ps[j] \in Part
    OBVIOUS
<1>1. /\ mid \in Seq(Part) /\ Len(mid) = Len(ps) /\ mid[p] = cut
      /\ \A j \in 1..Len(ps) : j # p => mid[j] = ps[j]
    OBVIOUS
<1> HIDE DEF mid
<1>2. /\ Len(new) = Len(ps) + 1 /\ new[p + 1] = q
      /\ \A j \in 1..p : new[j] = mid[j]
      /\ \A j \in (p + 2)..(Len(ps) + 1) : new[j] = mid[j - 1]
    <2>1. p \in 1..Len(mid)
        BY <1>1
    <2>3. /\ Len(new) = Len(mid) + 1 /\ new[p + 1] = q
          /\ \A j \in 1..p : new[j] = mid[j]
          /\ \A j \in (p + 2)..(Len(mid) + 1) : new[j] = mid[j - 1]
        BY <1>1, <2>1, InsertedPart, ZenonT(60)
    <2> QED BY <1>1, <2>3
<1> HIDE DEF new
<1>3. ASSUME NEW r \in 1..(Len(ps) + 1)
      PROVE  /\ o[r] \in 1..Len(ps) /\ d[r] \in Nat /\ RunOf(new[r], ps[o[r]], d[r])
             /\ o[r] = (IF r <= p THEN r ELSE r - 1) /\ d[r] = (IF r = p + 1 THEN t ELSE 0)
    <2>0. o[r] = (IF r <= p THEN r ELSE r - 1) /\ d[r] = (IF r = p + 1 THEN t ELSE 0)
        OBVIOUS
    <2> HIDE DEF o, d
    <2>1. CASE r = p + 1
        <3>1. o[r] = p /\ d[r] = t
            <4>1. ~(p + 1 <= p) /\ (p + 1) - 1 = p
                BY <1>0
            <4> QED BY <2>0, <2>1, <4>1
        <3> QED BY <1>2, <2>0, <2>1, <3>1
    <2>2. CASE r = p
        <3>1. o[r] = p /\ d[r] = 0 /\ r \in 1..p /\ p \in 1..p
            BY <1>0, <2>0, <2>2
        <3>2. new[r] = cut
            BY <1>1, <1>2, <2>2, <3>1
        <3> QED BY <2>0, <3>1, <3>2
    <2>3. CASE r # p /\ r # p + 1
        <3>1. o[r] \in 1..Len(ps) /\ o[r] # p /\ d[r] = 0
            BY <1>0, <2>0, <2>3
        <3>2. new[r] = mid[o[r]]
            <4>1. CASE r <= p
                <5>1. r \in 1..p /\ o[r] = r
                    BY <1>0, <2>0, <4>1
                <5> QED BY <1>2, <5>1
            <4>2. CASE ~(r <= p)
                <5>1. r \in (p + 2)..(Len(ps) + 1) /\ o[r] = r - 1
                    BY <1>0, <2>0, <2>3, <4>2
                <5> QED BY <1>2, <5>1
            <4> QED BY <4>1, <4>2
        <3>3. new[r] = ps[o[r]] /\ ps[o[r]] \in Part
            BY <1>0, <1>1, <3>1, <3>2
        <3> QED BY <2>0, <3>1, <3>3, SameRun
    <2> QED BY <2>1, <2>2, <2>3
<1>4. ASSUME NEW r \in 1..(Len(ps) + 1), NEW s \in 1..(Len(ps) + 1), r # s, o[r] = o[s],
             NEW i \in 1..Len(new[r].cells), NEW j \in 1..Len(new[s].cells)
      PROVE  d[r] + i # d[s] + j
    <2>1. o[r] = (IF r <= p THEN r ELSE r - 1) /\ o[s] = (IF s <= p THEN s ELSE s - 1)
          /\ d[r] = (IF r = p + 1 THEN t ELSE 0) /\ d[s] = (IF s = p + 1 THEN t ELSE 0)
        BY <1>3
    <2> HIDE DEF o, d
    <2>2. (r = p /\ s = p + 1) \/ (s = p /\ r = p + 1)
        <3>1. (IF r <= p THEN r ELSE r - 1) = (IF s <= p THEN s ELSE s - 1)
            BY <1>4, <2>1
        <3>2. r \in Int /\ s \in Int /\ r # s
            BY <1>0, <1>4
        <3> QED BY ONLY <1>0, <3>1, <3>2
    <2>3. p \in 1..p /\ p # p + 1 /\ Len(cut.cells) \in Nat /\ Len(q.cells) \in Nat
        BY <1>0, SMTT(30) DEF Part
    <2>4. new[p] = cut /\ new[p + 1] = q
        BY <1>1, <1>2, <2>3
    <2>5. CASE r = p /\ s = p + 1
        <3>1. d[r] = 0 /\ d[s] = t /\ i \in 1..Len(cut.cells) /\ j \in 1..Len(q.cells)
            BY <2>1, <2>3, <2>4, <2>5
        <3>2. 0 + i # t + j
            BY <2>3, <3>1
        <3> QED BY <3>1, <3>2
    <2>6. CASE s = p /\ r = p + 1
        <3>1. d[r] = t /\ d[s] = 0 /\ j \in 1..Len(cut.cells) /\ i \in 1..Len(q.cells)
            BY <2>1, <2>3, <2>4, <2>6
        <3>2. t + i # 0 + j
            BY <2>3, <3>1
        <3> QED BY <3>1, <3>2
    <2> QED BY <2>2, <2>5, <2>6
<1> HIDE DEF o, d
<1>5. \A r \in 1..Len(new) : o[r] \in 1..Len(ps) /\ d[r] \in Nat /\ RunOf(new[r], ps[o[r]], d[r])
    BY <1>2, <1>3
<1>6. \A r, s \in 1..Len(new) : r # s /\ o[r] = o[s] =>
            \A i \in 1..Len(new[r].cells) : \A j \in 1..Len(new[s].cells) : d[r] + i # d[s] + j
    BY <1>2, <1>4
<1>7. Runs(new, ps, o, d)
    BY <1>5, <1>6 DEF Runs
<1>8. Distinct(new, made)
    BY <1>7, RunsDistinct
<1> QED BY <1>8 DEF new, mid

\* A part with other cells.
LEMMA OtherCells ==
    \A r \in Part : \A t : [r EXCEPT !.cells = t] = [cells |-> t, room |-> r.room]
BY DEF Part

\* A removal that succeeds leaves every element in one place at most.
LEMMA RemovalDistinct ==
    ASSUME ListOK(parts, nalloc), NEW made, Distinct(parts, made), NEW p \in 1..Len(parts),
           NEW i \in 1..Len(parts[p].cells), NEW o \in Removals(p, i), o.ok
    PROVE  Distinct(o.parts, made)
<1> DEFINE old == parts[p]
           len == Len(old.cells)
<1>0. /\ old.cells \in Seq(Nat) /\ len \in Nat /\ len > 0 /\ old \in Part
      /\ parts \in Seq(Part) /\ i \in 1..len
    <2>1. old.cells \in Seq(Nat) /\ old \in Part
        BY PartFits DEF Fits
    <2> QED BY <2>1 DEF ListOK
<1>1. CASE i = 1
    <2> DEFINE rest == [cells |-> Tail(old.cells), room |-> old.room - 1]
    <2>1. RunOf(rest, old, 1)
        <3>1. /\ Len(Tail(old.cells)) = len - 1
              /\ \A j \in 1..(len - 1) : Tail(old.cells)[j] = old.cells[j + 1]
            BY <1>0, HeadTailProperties
        <3>2. \A j \in 1..(len - 1) : 1 + j \in 1..len /\ 1 + j = j + 1
            BY <1>0
        <3> QED BY <3>1, <3>2 DEF RunOf
    <2>2. o = RemoveHead(p)
        BY <1>1 DEF Removals
    <2>3. o = IF rest.cells # <<>>
              THEN Outcome([parts EXCEPT ![p] = rest],
                           IF p = Len(parts) THEN Len(rest.cells) ELSE nalloc, TRUE)
              ELSE IF p = 1 THEN Outcome([parts EXCEPT ![p] = rest], nalloc, FALSE)
              ELSE Outcome(RemoveAt(parts, p),
                     IF p = Len(parts) THEN Len(parts[p - 1].cells) ELSE nalloc, TRUE)
        BY <2>2 DEF RemoveHead
    <2> HIDE DEF rest
    <2>4. CASE o.parts = [parts EXCEPT ![p] = rest]
        <3>1. 1 \in Nat /\ Distinct(parts, made) /\ p \in 1..Len(parts)
            OBVIOUS
        <3>2. Distinct([parts EXCEPT ![p] = rest], made)
            BY <1>0, <2>1, <3>1, ReplaceDistinct
        <3> QED BY <2>4, <3>2
    <2>5. CASE o.parts = RemoveAt(parts, p) /\ p # 1
        <3>1. p \in 2..Len(parts)
            BY <1>0, <2>5
        <3> QED BY <1>0, <2>5, <3>1, RemoveDistinct
    <2> QED BY <2>3, <2>4, <2>5 DEF Outcome
<1>2. CASE i # 1 /\ i = len
    <2> DEFINE q == [cells |-> Front(old.cells), room |-> old.room]
    <2>1. RunOf(q, old, 0)
        <3>1. \A j \in 1..(len - 1) : old.cells[j] \in Nat
            BY <1>0
        <3>2. len \in Int /\ len - 1 \in Int /\ 1 <= len - 1 /\ (len - 1) - 1 + 1 = len - 1
            BY <1>0, <1>2, OneLess
        <3>3. /\ Len(SubSeq(old.cells, 1, len - 1)) = len - 1
              /\ \A j \in 1..(len - 1) : SubSeq(old.cells, 1, len - 1)[j] = old.cells[1 + j - 1]
            BY <3>1, <3>2, SubSeqProperties
        <3>4. \A j \in 1..(len - 1) : 0 + j \in 1..len /\ 0 + j = 1 + j - 1
            BY <1>0
        <3> QED BY <3>3, <3>4 DEF RunOf, Front
    <2>2. o.parts = [parts EXCEPT ![p] = q]
        <3>1. [old EXCEPT !.cells = Front(@)] = q
            BY <1>0, OtherCells
        <3>2. o.parts = [parts EXCEPT ![p].cells = Front(@)]
            BY <1>2 DEF Removals, RemoveEnd, Outcome
        <3>3. [parts EXCEPT ![p].cells = Front(@)] = [parts EXCEPT ![p] = q]
            BY <1>0, <3>1
        <3> HIDE DEF q
        <3> QED BY <3>2, <3>3
    <2> HIDE DEF q
    <2>3. 0 \in Nat /\ Distinct(parts, made) /\ p \in 1..Len(parts)
        OBVIOUS
    <2>4. Distinct([parts EXCEPT ![p] = q], made)
        BY <1>0, <2>1, <2>3, ReplaceDistinct
    <2> QED BY <2>2, <2>4
<1>3. CASE i # 1 /\ i # len
    <2> DEFINE new == [cells |-> SubSeq(old.cells, i + 1, len), room |-> old.room - i]
               cut == [cells |-> SubSeq(old.cells, 1, i - 1), room |-> i]
    <2>0. i \in Nat /\ i > 1 /\ i < len
        BY <1>0, <1>3
    <2>1. new \in Part /\ RunOf(new, old, i)
        <3>1. /\ SubSeq(old.cells, i + 1, len) \in Seq(Nat)
              /\ Len(SubSeq(old.cells, i + 1, len)) = len - i
              /\ \A j \in 1..(len - i) : SubSeq(old.cells, i + 1, len)[j] = old.cells[i + j]
            <4>1. i \in 1..Len(old.cells)
                BY <1>0, <2>0
            <4> QED BY <1>0, <4>1, SubSeqBehind
        <3>2. \A j \in 1..(len - i) : i + j \in 1..len
            BY <1>0, <2>0
        <3>3. old.room - i \in Int
            BY <1>0, <2>0 DEF Part
        <3> QED BY <3>1, <3>2, <3>3 DEF RunOf, Part
    <2>2. cut \in Part /\ RunOf(cut, old, 0) /\ Len(cut.cells) <= i
        <3>1. \A u \in 1..(i - 1) : old.cells[u] \in Nat
            BY <1>0, <2>0
        <3>2. i - 1 \in Int /\ 1 <= i - 1 /\ (i - 1) - 1 + 1 = i - 1
            BY <2>0
        <3>3. /\ SubSeq(old.cells, 1, i - 1) \in Seq(Nat)
              /\ Len(SubSeq(old.cells, 1, i - 1)) = i - 1
              /\ \A j \in 1..(i - 1) : SubSeq(old.cells, 1, i - 1)[j] = old.cells[1 + j - 1]
            BY <3>1, <3>2, SubSeqProperties
        <3>4. /\ \A j \in 1..(i - 1) : 0 + j \in 1..len /\ 0 + j = 1 + j - 1
              /\ i - 1 <= i /\ i \in Int
            BY <1>0, <2>0
        <3> QED BY <3>3, <3>4 DEF RunOf, Part
    <2>3. o.parts = InsertAt([parts EXCEPT ![p] = cut], p + 1, new)
        BY <1>3 DEF Removals, Split, Outcome
    <2> HIDE DEF new, cut
    <2> QED BY <1>0, <2>0, <2>1, <2>2, <2>3, SplitDistinct
<1> QED BY <1>0, <1>1, <1>2, <1>3

\* One place of new has an element that no list had, the others what ps has there.
Grown(new, ps, made, P, I) ==
    \A r \in 1..Len(new) : \A i \in 1..Len(new[r].cells) :
        \/ r = P /\ i = I /\ new[r].cells[i] = made + 1
        \/ /\ r \in 1..Len(ps) /\ i \in 1..Len(ps[r].cells)
           /\ new[r].cells[i] = ps[r].cells[i]

\* A new element in one place.
LEMMA FreshDistinct ==
    ASSUME NEW ps, NEW made \in Nat, Distinct(ps, made), NEW new, NEW P, NEW I,
           Grown(new, ps, made, P, I)
    PROVE  Distinct(new, made + 1)
<1>0. \A r \in 1..Len(new) : \A i \in 1..Len(new[r].cells) :
        \/ r = P /\ i = I /\ new[r].cells[i] = made + 1
        \/ /\ r \in 1..Len(ps) /\ i \in 1..Len(ps[r].cells)
           /\ new[r].cells[i] = ps[r].cells[i]
    BY DEF Grown
<1>1. \A p \in 1..Len(ps) : \A i \in 1..Len(ps[p].cells) :
        /\ ps[p].cells[i] \in 1..made /\ ps[p].cells[i] \in 1..(made + 1)
        /\ ps[p].cells[i] # made + 1
    BY DEF Distinct
<1>2. made + 1 \in 1..(made + 1)
    OBVIOUS
<1>3. \A r \in 1..Len(new) : \A i \in 1..Len(new[r].cells) : new[r].cells[i] \in 1..(made + 1)
    BY <1>0, <1>1, <1>2
<1>4. \A r, s \in 1..Len(new) : \A i \in 1..Len(new[r].cells) : \A j \in 1..Len(new[s].cells) :
        new[r].cells[i] = new[s].cells[j] => r = s /\ i = j
    BY <1>0, <1>1, SMTT(30) DEF Distinct
<1> QED BY <1>3, <1>4 DEF Distinct

\* A line is pushed, into the last part or a new one.
LEMMA PushDistinct ==
    ASSUME ListOK(parts, nalloc), NEW made \in Nat, Distinct(parts, made),
           parts' = IF Len(parts[Len(parts)].cells) = nalloc
                    THEN Append(parts, [cells |-> <<made + 1>>, room |-> nalloc])
                    ELSE [parts EXCEPT ![Len(parts)].cells = Append(@, made + 1)]
    PROVE  Distinct(parts', made + 1)
<1> DEFINE last == Len(parts)
           old == parts[last]
<1>0. last \in 1..Len(parts) /\ last \in Nat /\ parts \in Seq(Part) /\ nalloc \in Nat
    BY DEF ListOK
<1>1. old.cells \in Seq(Nat) /\ Len(old.cells) \in Nat /\ old \in Part
    <2>1. old.cells \in Seq(Nat) /\ old \in Part
        BY <1>0, PartFits DEF Fits
    <2> QED BY <2>1
<1>2. CASE Len(old.cells) = nalloc
    <2> DEFINE q == [cells |-> <<made + 1>>, room |-> nalloc]
               new == Append(parts, q)
    <2>1. Len(q.cells) = 1 /\ q.cells[1] = made + 1 /\ q \in Part
        BY <1>0 DEF Part
    <2>2. parts' = new
        BY <1>2
    <2> HIDE DEF q
    <2>3. Len(new) = last + 1 /\ new[last + 1] = q /\ \A j \in 1..last : new[j] = parts[j]
        BY <1>0, <2>1
    <2> HIDE DEF new
    <2>4. \A r \in 1..(last + 1) : r \in 1..last \/ r = last + 1
        BY <1>0
    <2>5. Grown(new, parts, made, last + 1, 1)
        BY <2>1, <2>3, <2>4 DEF Grown
    <2> QED BY <2>2, <2>5, FreshDistinct
<1>3. CASE Len(old.cells) # nalloc
    <2> DEFINE q == [cells |-> Append(old.cells, made + 1), room |-> old.room]
               new == [parts EXCEPT ![last] = q]
               k == Len(old.cells) + 1
    <2>1. Len(q.cells) = k /\ q.cells[k] = made + 1 /\ \A j \in 1..Len(old.cells) : q.cells[j] = old.cells[j]
        BY <1>1
    <2>2. parts' = new
        <3>1. parts' = [parts EXCEPT ![last].cells = Append(@, made + 1)]
            BY <1>3
        <3>3. [old EXCEPT !.cells = Append(@, made + 1)] = q
            BY <1>1, OtherCells
        <3> HIDE DEF q
        <3>4. [parts EXCEPT ![last].cells = Append(@, made + 1)]
                = [parts EXCEPT ![last] = [old EXCEPT !.cells = Append(@, made + 1)]]
            BY <1>0
        <3> QED BY <3>1, <3>3, <3>4
    <2> HIDE DEF q
    <2>3. Len(new) = last /\ new[last] = q /\ \A j \in 1..last : j # last => new[j] = parts[j]
        BY <1>0
    <2> HIDE DEF new
    <2>4. \A i \in 1..k : i \in 1..Len(old.cells) \/ i = k
        BY <1>1
    <2>5. Grown(new, parts, made, last, k)
        BY <2>1, <2>3, <2>4 DEF Grown
    <2> HIDE DEF k
    <2> QED BY <2>2, <2>5, FreshDistinct
<1> QED BY <1>2, <1>3

------------------------------------------------------------------------------
(* A request is read                                                       *)

\* Multiplication by a natural number is monotonic.
LEMMA Times ==
    ASSUME NEW a \in Nat, NEW b \in Nat, NEW z \in Nat
    PROVE  /\ a * z \in Nat
           /\ (a + 1) * z = a * z + z
           /\ a <= b => a * z <= b * z
<1>1. a * z \in Nat
    OBVIOUS
<1>2. (a + 1) * z = a * z + z
    OBVIOUS
<1>3. ASSUME a <= b PROVE a * z <= b * z
    <2>1. b - a \in Nat
        BY <1>3
    <2>2. (b - a) * z \in Nat
        BY <2>1
    <2>3. b * z = a * z + (b - a) * z
        OBVIOUS
    <2> QED BY <1>1, <2>2, <2>3
<1> QED BY <1>1, <1>2, <1>3

\* The lesser of two numbers.
LEMMA LesserOf ==
    ASSUME NEW a \in Int, NEW b \in Int
    PROVE  Min({a, b}) = IF a <= b THEN a ELSE b
BY DEF Min

\* How many lines are read into the parts before p, and the cells of part p.
Behind(p) == (p - 1) * ListSize
RunRead(L, p) == SubSeq([i \in 1..L |-> i], Behind(p) + 1, Min({p * ListSize, L}))

\* The cells of a part as it is read: they are numbered on from those before.
LEMMA RunIsRead ==
    ASSUME NEW L \in Nat, NEW p \in Nat \ {0}, Behind(p) < L \/ p = 1
    PROVE  /\ RunRead(L, p) \in Seq(Nat) /\ Len(RunRead(L, p)) \in Nat
           /\ Len(RunRead(L, p)) <= ListSize
           /\ Behind(p) < L => Len(RunRead(L, p)) > 0
           /\ Behind(p) + Len(RunRead(L, p)) = IF p * ListSize <= L THEN p * ListSize ELSE L
           /\ \A i \in 1..Len(RunRead(L, p)) :
                RunRead(L, p)[i] = Behind(p) + i /\ RunRead(L, p)[i] \in 1..L
<1> DEFINE all == [i \in 1..L |-> i]
           low == Behind(p)
           high == p * ListSize
           end == Min({high, L})
           cells == SubSeq(all, low + 1, end)
<1>1. ListSize \in Nat /\ ListSize > 0
    BY HeadersInAssumption
<1>2. low \in Nat /\ high \in Nat /\ high = low + ListSize
    <2>1. p - 1 \in Nat /\ (p - 1) + 1 = p
        OBVIOUS
    <2>2. /\ (p - 1) * ListSize \in Nat
          /\ ((p - 1) + 1) * ListSize = (p - 1) * ListSize + ListSize
        BY <1>1, <2>1, Times
    <2> QED BY <1>1, <2>1, <2>2 DEF Behind
<1>3. p = 1 => low = 0
    BY <1>1 DEF Behind
<1> HIDE DEF low, high
<1>4. end = IF high <= L THEN high ELSE L
    BY <1>2, LesserOf
<1>5. end \in Nat /\ end <= L /\ end <= low + ListSize /\ low <= end /\ (low < L => low < end)
    <2>1. low <= L
        BY <1>2, <1>3 DEF low
    <2>2. (low < L => low < L) /\ low <= L
        BY <2>1
    <2> QED BY <1>1, <1>2, <1>4, <2>1
<1> HIDE DEF end
<1>6. \A i \in (low + 1)..end : i \in 1..L /\ all[i] = i /\ all[i] \in Nat
    BY <1>2, <1>5
<1>7. low + 1 \in Int /\ end \in Int
    BY <1>2, <1>5
<1>8. /\ cells \in Seq(Nat)
      /\ Len(cells) = IF low + 1 <= end THEN end - (low + 1) + 1 ELSE 0
      /\ \A i \in 1..(end - (low + 1) + 1) : cells[i] = all[(low + 1) + i - 1]
    BY <1>6, <1>7, SubSeqProperties
<1> HIDE DEF cells
<1>9. Len(cells) = end - low
    BY <1>2, <1>5, <1>8
<1>10. ASSUME NEW i \in 1..Len(cells) PROVE cells[i] = low + i /\ cells[i] \in 1..L
    <2>1. /\ i \in 1..(end - (low + 1) + 1) /\ (low + 1) + i - 1 = low + i
          /\ low + i \in (low + 1)..end
        BY <1>2, <1>5, <1>9
    <2>2. cells[i] = all[low + i]
        BY <1>8, <2>1
    <2> QED BY <1>6, <2>1, <2>2
<1>11. Len(cells) \in Nat /\ Len(cells) <= ListSize /\ (low < L => Len(cells) > 0)
    BY <1>1, <1>2, <1>5, <1>9
<1>12. low + Len(cells) = IF high <= L THEN high ELSE L
    BY <1>2, <1>4, <1>5, <1>9
<1> QED BY <1>8, <1>10, <1>11, <1>12 DEF RunRead, cells, low, high, end

\* The parts of a request that is read are numbered without a gap.
LEMMA PartsRead ==
    ASSUME NEW L \in Nat
    PROVE  \E K \in Nat \ {0} :
            {p \in 1..L : Behind(p) < L} \cup {1} = 1..K
<1> DEFINE Holds(p) == Behind(p) < L
           parted == {p \in 1..L : Holds(p)} \cup {1}
           T == {p \in Nat \ {0} : p \notin parted}
<1>1. ListSize \in Nat /\ ListSize > 0
    BY HeadersInAssumption
<1>2. ASSUME NEW p \in Nat \ {0}, NEW q \in Nat \ {0}, p <= q, Holds(q)
      PROVE  Holds(p)
    <2>1. p - 1 \in Nat /\ q - 1 \in Nat /\ p - 1 <= q - 1
        BY <1>2
    <2>2. (p - 1) * ListSize <= (q - 1) * ListSize
        BY <1>1, <2>1, Times
    <2>3. (p - 1) * ListSize \in Nat /\ (q - 1) * ListSize \in Nat
        BY <1>1, <2>1, Times
    <2> QED BY <1>2, <2>2, <2>3 DEF Behind
<1> HIDE DEF Holds
<1>3. parted \subseteq Nat \ {0} /\ 1 \in parted
    OBVIOUS
<1>4. \E t \in T : \A y \in T : t <= y
    <2>1. CASE L = 0
        <3>1. 2 \in T
            BY <2>1
        <3>2. T \subseteq Nat /\ T # {}
            BY <3>1
        <3> HIDE DEF T
        <3> QED BY <3>2, LeastNumber
    <2>2. CASE L # 0
        <3>1. L + 1 \in T
            BY <2>2
        <3>2. T \subseteq Nat /\ T # {}
            BY <3>1
        <3> HIDE DEF T
        <3> QED BY <3>2, LeastNumber
    <2> QED BY <2>1, <2>2
<1>5. PICK t \in T : \A y \in T : t <= y
    BY <1>4
<1>6. t \in Nat /\ t > 1 /\ t \notin parted
    BY <1>3, <1>5
<1>7. ASSUME NEW p \in Nat \ {0} PROVE p \in parted <=> p \in 1..(t - 1)
    <2>1. CASE p < t
        <3>1. p \notin T
            BY <1>5, <1>6, <2>1
        <3> QED BY <1>6, <2>1, <3>1
    <2>2. CASE ~(p < t)
        <3>1. t <= p
            BY <1>6, <2>2
        <3>2. t > L \/ ~Holds(t)
            BY <1>6
        <3>3. p > L \/ ~Holds(p)
            BY <1>2, <1>6, <3>1, <3>2
        <3> QED BY <1>6, <3>1, <3>3
    <2> QED BY <2>1, <2>2
<1>8. t - 1 \in Nat \ {0} /\ 1..(t - 1) \subseteq Nat \ {0}
    BY <1>6
<1>9. parted = 1..(t - 1)
    <2> HIDE DEF parted
    <2> QED BY <1>3, <1>7, <1>8
<1> QED BY <1>8, <1>9 DEF Holds

\* The lines before two parts differ by those of a part at least.
LEMMA RunsApart ==
    ASSUME NEW p \in Nat \ {0}, NEW q \in Nat \ {0}
    PROVE  /\ Behind(p) \in Nat
           /\ p < q => Behind(p) + ListSize <= Behind(q)
<1>0. ListSize \in Nat
    BY HeadersInAssumption
<1>1. p - 1 \in Nat /\ q - 1 \in Nat /\ p \in Nat /\ (p - 1) + 1 = p
    OBVIOUS
<1>2. Behind(p) \in Nat /\ p * ListSize = Behind(p) + ListSize
    <2>1. /\ (p - 1) * ListSize \in Nat
          /\ ((p - 1) + 1) * ListSize = (p - 1) * ListSize + ListSize
        BY <1>0, <1>1, Times
    <2> QED BY <1>1, <2>1 DEF Behind
<1>3. p <= q - 1 => p * ListSize <= Behind(q)
    BY <1>0, <1>1, Times DEF Behind
<1>4. p < q => p <= q - 1
    OBVIOUS
<1> QED BY <1>2, <1>3, <1>4

\* The list of a request that is read has its room and each element once.
LEMMA ReceiveMakes ==
    ASSUME NEW lines \in Seq(Line), Receive(lines)
    PROVE  ListOK(parts', nalloc') /\ Distinct(parts', Len(lines))
<1> DEFINE L == Len(lines)
           Holds(p) == Behind(p) < L
           parted == {p \in 1..L : Holds(p)} \cup {1}
           part(p) == [cells |-> RunRead(L, p), room |-> ListSize]
<1>0. L \in Nat /\ DOMAIN lines = 1..L /\ ListSize \in Nat /\ ListSize > 0
    BY LenProperties, HeadersInAssumption
<1>1. parts' = [p \in parted |-> part(p)] /\ nalloc' = ListSize
    BY <1>0 DEF Receive, Behind, RunRead
<1>2. PICK K \in Nat \ {0} : parted = 1..K
    BY <1>0, PartsRead
<1> HIDE DEF Holds, part
<1>3. \A p \in 1..K : p \in Nat \ {0} /\ (Holds(p) \/ p = 1)
    BY <1>2
<1>4. \A p \in 1..K :
        /\ RunRead(L, p) \in Seq(Nat) /\ Len(RunRead(L, p)) \in Nat
        /\ Len(RunRead(L, p)) <= ListSize
        /\ Holds(p) => Len(RunRead(L, p)) > 0
        /\ \A i \in 1..Len(RunRead(L, p)) :
                RunRead(L, p)[i] = Behind(p) + i /\ RunRead(L, p)[i] \in 1..L
    BY <1>0, <1>3, RunIsRead DEF Holds
<1>5. K > 1 => \A p \in 1..K : Holds(p)
    <2> SUFFICES ASSUME K > 1 PROVE \A p \in 1..K : Holds(p)
        OBVIOUS
    <2>1. 2 \in 1..L
        BY <1>2
    <2>2. Holds(1)
        <3>1. Behind(1) = 0
            BY <1>0 DEF Behind
        <3> QED BY <1>0, <2>1, <3>1 DEF Holds
    <2> QED BY <1>3, <2>2
<1> HIDE DEF parted, L
<1> DEFINE new == [p \in 1..K |-> part(p)]
<1>6. /\ new \in Seq(Part) /\ Len(new) = K
      /\ \A p \in 1..K : new[p].cells = RunRead(L, p) /\ new[p].room = ListSize
    <2>1. \A p \in 1..K : part(p) \in Part
        BY <1>0, <1>4 DEF Part, part
    <2>2. \A p \in 1..K : new[p] = part(p)
        OBVIOUS
    <2>3. new \in Seq(Part) /\ Len(new) = K
        BY <2>1
    <2> QED BY <2>2, <2>3 DEF part
<1>7. parts' = new
    BY <1>1, <1>2
<1> HIDE DEF new
<1>8. ListOK(new, ListSize)
    <2>1. K \in 1..K
        OBVIOUS
    <2>2. \A p \in 1..Len(new) : Len(new[p].cells) <= new[p].room
        BY <1>4, <1>6
    <2>3. Len(new) > 1 => \A p \in 1..Len(new) : Len(new[p].cells) > 0
        BY <1>4, <1>5, <1>6
    <2>4. Len(new[Len(new)].cells) <= ListSize /\ ListSize <= new[Len(new)].room
        BY <1>0, <1>4, <1>6, <2>1
    <2> QED BY <1>0, <1>6, <2>2, <2>3, <2>4 DEF ListOK
<1>9. Distinct(new, L)
    <2>1. \A p \in 1..Len(new) : \A i \in 1..Len(new[p].cells) : new[p].cells[i] \in 1..L
        BY <1>4, <1>6
    <2>2. ASSUME NEW p \in 1..Len(new), NEW q \in 1..Len(new), NEW i \in 1..Len(new[p].cells),
                 NEW j \in 1..Len(new[q].cells), new[p].cells[i] = new[q].cells[j]
          PROVE  p = q /\ i = j
        <3>1. Behind(p) + i = Behind(q) + j
            BY <1>4, <1>6, <2>2
        <3>2. i \in 1..ListSize /\ j \in 1..ListSize
            <4>1. /\ Len(new[p].cells) <= ListSize /\ Len(new[p].cells) \in Nat
                  /\ Len(new[q].cells) <= ListSize /\ Len(new[q].cells) \in Nat
                BY <1>4, <1>6
            <4> QED BY <1>0, <4>1
        <3>3. /\ Behind(p) \in Nat /\ Behind(q) \in Nat
              /\ p < q => Behind(p) + ListSize <= Behind(q)
              /\ q < p => Behind(q) + ListSize <= Behind(p)
            BY <1>3, <1>6, RunsApart
        <3>4. p = q
            BY <1>0, <1>3, <1>6, <3>1, <3>2, <3>3
        <3> QED BY <1>0, <3>1, <3>2, <3>3, <3>4
    <2> QED BY <2>1, <2>2 DEF Distinct
<1> QED BY <1>1, <1>7, <1>8, <1>9 DEF L

------------------------------------------------------------------------------
(* The headers of input commands                                           *)

\* The types of the lines and of the header being executed.
CellInv == cell \in Seq(Line) /\ edit \in Edit \cup {NoEdit}

\* The elements that have been made are in the list once at most, and the last
\* part has the room the code believes it has.
RoomInv ==
    /\ CellInv
    /\ ~spoiled => ListOK(parts, nalloc) /\ Distinct(parts, Len(cell))

\* A line is given another value.
LEMMA ValueSet ==
    ASSUME NEW s \in Seq(Line), NEW i, NEW v \in Text \cup {""}
    PROVE  /\ [s EXCEPT ![i].value = v] \in Seq(Line)
           /\ Len([s EXCEPT ![i].value = v]) = Len(s)
<1> DEFINE new == [s EXCEPT ![i].value = v]
           e == [s[i] EXCEPT !.value = v]
<1>1. CASE i \in 1..Len(s)
    <2>1. s[i] \in Line
        BY <1>1, ElementOfSeq
    <2>2. e \in Line
        BY <2>1 DEF Line
    <2>3. new = [s EXCEPT ![i] = e]
        OBVIOUS
    <2> HIDE DEF e, new
    <2>4. [s EXCEPT ![i] = e] \in Seq(Line) /\ Len([s EXCEPT ![i] = e]) = Len(s)
        BY <1>1, <2>2, ExceptSeq, ZenonT(60)
    <2> QED BY <2>3, <2>4, Zenon DEF new
<1>2. CASE i \notin 1..Len(s)
    <2>1. DOMAIN s = 1..Len(s)
        BY LenProperties
    <2>2. s = [j \in 1..Len(s) |-> s[j]]
        BY LenProperties
    <2>3. new = s
        BY <1>2, <2>1, <2>2
    <2> QED BY <2>3, Zenon
<1> QED BY <1>1, <1>2

\* What becomes of the elements when a header is executed: a line is made, or
\* one is given another value.
LEMMA CellStep ==
    ASSUME CellInv, (\E e \in Edit : BeginEdit(e)) \/ EditStep \/ UNCHANGED inVars
    PROVE  CellInv' /\ (Len(cell') = Len(cell) \/ (PushLine /\ Len(cell') = Len(cell) + 1))
<1>1. edit' \in Edit \cup {NoEdit}
    BY DEF CellInv, BeginEdit, EditStep, SetThroughSlot, RemoveMatch, ReplaceMatch,
           NothingToDo, PushLine, Finish, inVars
<1> SUFFICES /\ cell' \in Seq(Line)
             /\ Len(cell') = Len(cell) \/ (PushLine /\ Len(cell') = Len(cell) + 1)
    BY <1>1 DEF CellInv
<1>2. cell \in Seq(Line) /\ "" \in Text \cup {""}
    BY DEF CellInv
<1>3. edit # NoEdit => edit.key \in Key /\ edit.value \in Text \cup {""}
    BY DEF CellInv, Edit
<1>4. CASE PushLine
    <2> DEFINE line == [key |-> edit.key, value |-> edit.value]
    <2>1. line \in Line
        BY <1>3, <1>4 DEF PushLine, Pushes, InHelper, Line, Sets
    <2>2. cell' = Append(cell, line)
        BY <1>4 DEF PushLine
    <2> HIDE DEF line
    <2>3. Append(cell, line) \in Seq(Line) /\ Len(Append(cell, line)) = Len(cell) + 1
        BY <1>2, <2>1, AppendProperties, Zenon
    <2> QED BY <1>4, <2>2, <2>3, Zenon
<1>5. CASE \E e \in Edit : BeginEdit(e)
    <2>1. PICK e \in Edit : BeginEdit(e)
        BY <1>5
    <2>2. cell' = cell \/ cell' = [cell EXCEPT ![slot[e.key]].value = ""]
        BY <2>1 DEF BeginEdit
    <2>3. /\ [cell EXCEPT ![slot[e.key]].value = ""] \in Seq(Line)
          /\ Len([cell EXCEPT ![slot[e.key]].value = ""]) = Len(cell)
        BY <1>2, ValueSet, Zenon
    <2>9. cell' \in Seq(Line) /\ Len(cell') = Len(cell)
        BY <1>2, <2>2, <2>3, Zenon
    <2> QED BY <2>9
<1>6. CASE SetThroughSlot
    <2>1. /\ cell' = [cell EXCEPT ![SlotCell].value = edit.value]
          /\ edit.value \in Text \cup {""}
        BY <1>3, <1>6 DEF SetThroughSlot, Sets
    <2>9. cell' \in Seq(Line) /\ Len(cell') = Len(cell)
        BY <1>2, <2>1, ValueSet, Zenon
    <2> QED BY <2>9
<1>7. CASE ReplaceMatch
    <2>1. /\ cell' = [cell EXCEPT ![MatchCell].value = edit.value]
          /\ edit.value \in Text \cup {""}
        BY <1>3, <1>7 DEF ReplaceMatch, InHelper
    <2>9. cell' \in Seq(Line) /\ Len(cell') = Len(cell)
        BY <1>2, <2>1, ValueSet, Zenon
    <2> QED BY <2>9
<1>8. CASE RemoveMatch
    <2>1. cell' = cell \/ cell' = [cell EXCEPT ![MatchCell].value = ""]
        BY <1>8 DEF RemoveMatch
    <2>2. /\ [cell EXCEPT ![MatchCell].value = ""] \in Seq(Line)
          /\ Len([cell EXCEPT ![MatchCell].value = ""]) = Len(cell)
        BY <1>2, ValueSet, Zenon
    <2>9. cell' \in Seq(Line) /\ Len(cell') = Len(cell)
        BY <1>2, <2>1, <2>2, Zenon
    <2> QED BY <2>9
<1>9. CASE NothingToDo \/ UNCHANGED inVars
    <2>1. cell' = cell
        BY <1>9 DEF NothingToDo, inVars, listVars
    <2>9. cell' \in Seq(Line) /\ Len(cell') = Len(cell)
        BY <1>2, <2>1, Zenon
    <2> QED BY <2>9
<1> QED BY <1>4, <1>5, <1>6, <1>7, <1>8, <1>9 DEF EditStep

\* A step of a header of an input command keeps the list.
LEMMA EditKeepsRoom ==
    ASSUME RoomInv, (\E e \in Edit : BeginEdit(e)) \/ EditStep \/ UNCHANGED inVars
    PROVE  RoomInv'
<1> SUFFICES ASSUME ~spoiled'
             PROVE  ListOK(parts', nalloc') /\ Distinct(parts', Len(cell'))
    BY CellStep DEF RoomInv, ListOK, Distinct
<1>0. Len(cell) \in Nat /\ (Len(cell') = Len(cell) \/ (PushLine /\ Len(cell') = Len(cell) + 1))
    <2>1. Len(cell) \in Nat
        BY LenProperties DEF RoomInv, CellInv
    <2> QED BY <2>1, CellStep DEF RoomInv
<1>1. ASSUME UNCHANGED <<parts, nalloc, spoiled>>, Len(cell') = Len(cell)
      PROVE  ListOK(parts', nalloc') /\ Distinct(parts', Len(cell'))
    BY <1>1 DEF RoomInv
<1>2. CASE RemoveMatch
    <2>1. PICK o \in Removals(MatchPart, Match(MatchPart)) :
            /\ parts' = o.parts /\ nalloc' = o.nalloc
            /\ IF o.ok THEN UNCHANGED spoiled /\ cell' = cell ELSE spoiled' = TRUE
        BY <1>2 DEF RemoveMatch
    <2>2. o.ok /\ ~spoiled /\ cell' = cell
        BY <2>1
    <2>3. ListOK(parts, nalloc) /\ Distinct(parts, Len(cell))
        BY <2>2 DEF RoomInv
    <2>4. /\ MatchPart \in 1..Len(parts)
          /\ Match(MatchPart) \in 1..Len(parts[MatchPart].cells)
        <3>1. parts \in Seq(Part) /\ MatchPart # 0
            BY <1>2, <2>3 DEF RemoveMatch, ListOK
        <3> QED BY <3>1, MatchFound, MatchIs
    <2>5. ListOK(o.parts, o.nalloc)
        BY <2>2, <2>3, <2>4, RemovalFits
    <2>6. Distinct(o.parts, Len(cell))
        BY <2>2, <2>3, <2>4, RemovalDistinct
    <2> QED BY <2>1, <2>2, <2>5, <2>6
<1>3. CASE PushLine
    <2>1. ListOK(parts, nalloc) /\ Distinct(parts, Len(cell))
        BY <1>3 DEF RoomInv, PushLine
    <2>2. parts' = IF Len(parts[Len(parts)].cells) = nalloc
                   THEN Append(parts, [cells |-> <<Len(cell) + 1>>, room |-> nalloc])
                   ELSE [parts EXCEPT ![Len(parts)].cells = Append(@, Len(cell) + 1)]
        BY <1>3 DEF PushLine
    <2>3. Len(cell) + 1 \in Nat /\ nalloc' = nalloc
        BY <1>0, <1>3 DEF PushLine
    <2>4. Len(cell') = Len(cell) + 1
        <3>1. cell' = Append(cell, [key |-> edit.key, value |-> edit.value])
            BY <1>3 DEF PushLine
        <3> QED BY <3>1 DEF RoomInv, CellInv
    <2>5. ListOK(parts, nalloc)'
        BY <2>1, <2>2, <2>3, PushFits
    <2>6. Distinct(parts', Len(cell) + 1)
        BY <1>0, <2>1, <2>2, PushDistinct
    <2> QED BY <2>4, <2>5, <2>6
<1>4. CASE ~PushLine /\ \E e \in Edit : BeginEdit(e)
    BY <1>0, <1>1, <1>4 DEF BeginEdit
<1>5. CASE ~PushLine /\ (SetThroughSlot \/ ReplaceMatch \/ NothingToDo)
    BY <1>0, <1>1, <1>5 DEF SetThroughSlot, ReplaceMatch, NothingToDo, listVars
<1>6. CASE ~PushLine /\ UNCHANGED inVars
    BY <1>0, <1>1, <1>6 DEF inVars, listVars
<1> QED BY <1>2, <1>3, <1>4, <1>5, <1>6 DEF EditStep

\* A request that is read has a list as it should be.
LEMMA ReceiveMakesRoom ==
    ASSUME RoomInv, NEW lines \in Seq(Line), Receive(lines)
    PROVE  RoomInv'
<1>1. ListOK(parts', nalloc') /\ Distinct(parts', Len(lines))
    BY ReceiveMakes
<1>2. cell' = lines /\ edit' = edit
    BY DEF Receive
<1> QED BY <1>1, <1>2 DEF RoomInv, CellInv

\* A list of distinct elements, part by part, is one without an element twice.
LEMMA ListedOnce ==
    ASSUME NEW made, ListOK(parts, nalloc), Distinct(parts, made)
    PROVE  IsInjective(Listed)
<1> DEFINE seqs == [p \in DOMAIN parts |-> parts[p].cells]
<1>1. parts \in Seq(Part) /\ Len(parts) \in Nat /\ Len(parts) > 0 /\ DOMAIN parts = 1..Len(parts)
    BY DEF ListOK
<1>2. \A p \in 1..Len(parts) : seqs[p] = parts[p].cells /\ parts[p].cells \in Seq(Nat)
    BY <1>1, PartFits
<1>3. seqs \in Seq(Seq(Nat)) /\ Len(seqs) = Len(parts)
    BY <1>1, <1>2
<1> HIDE DEF seqs
<1>4. \A p, q \in 1..Len(seqs) : \A i \in 1..Len(seqs[p]) : \A j \in 1..Len(seqs[q]) :
        seqs[p][i] = seqs[q][j] => p = q /\ i = j
    <2>1. \A p, q \in 1..Len(parts) :
            \A i \in 1..Len(parts[p].cells) : \A j \in 1..Len(parts[q].cells) :
                parts[p].cells[i] = parts[q].cells[j] => p = q /\ i = j
        BY DEF Distinct
    <2> SUFFICES ASSUME NEW p \in 1..Len(seqs), NEW q \in 1..Len(seqs),
                        NEW i \in 1..Len(seqs[p]), NEW j \in 1..Len(seqs[q]),
                        seqs[p][i] = seqs[q][j]
                 PROVE  p = q /\ i = j
        OBVIOUS
    <2>2. /\ p \in 1..Len(parts) /\ q \in 1..Len(parts)
          /\ seqs[p] = parts[p].cells /\ seqs[q] = parts[q].cells
        BY <1>2, <1>3
    <2>3. /\ i \in 1..Len(parts[p].cells) /\ j \in 1..Len(parts[q].cells)
          /\ parts[p].cells[i] = parts[q].cells[j]
        BY <2>2
    <2> QED BY <2>1, <2>2, <2>3
<1>5. IsInjective(FlattenSeq(seqs))
    BY <1>1, <1>3, <1>4, FlattenInjective
<1> QED BY <1>5 DEF Listed, ListedIn, seqs

------------------------------------------------------------------------------
(* The places before and behind an element                                 *)

\* An element, what is before it and what is behind it.
LEMMA AroundElement ==
    ASSUME NEW S, NEW s \in Seq(S), NEW i \in 1..Len(s)
    PROVE  /\ SubSeq(s, 1, i - 1) \in Seq(S) /\ SubSeq(s, i + 1, Len(s)) \in Seq(S)
           /\ Len(SubSeq(s, 1, i - 1)) = i - 1
           /\ \A j \in 1..(i - 1) : SubSeq(s, 1, i - 1)[j] = s[j]
           /\ s = (SubSeq(s, 1, i - 1) \o <<s[i]>>) \o SubSeq(s, i + 1, Len(s))
<1> DEFINE a == SubSeq(s, 1, i - 1)
           b == SubSeq(s, i + 1, Len(s))
<1>0. Len(s) \in Nat /\ i \in Nat /\ i - 1 \in Int /\ s[i] \in S
    BY LenProperties, ElementOfSeq
<1>1. a \in Seq(S) /\ Len(a) = i - 1 /\ \A j \in 1..(i - 1) : a[j] = s[j]
    <2>1. \A j \in 1..(i - 1) : s[j] \in S
        <3>1. \A j \in 1..(i - 1) : j \in 1..Len(s)
            BY <1>0
        <3> QED BY <3>1, ElementOfSeq
    <2>2. /\ a \in Seq(S)
          /\ Len(a) = IF 1 <= i - 1 THEN (i - 1) - 1 + 1 ELSE 0
          /\ \A j \in 1..((i - 1) - 1 + 1) : a[j] = s[1 + j - 1]
        BY <1>0, <2>1, SubSeqProperties
    <2>3. /\ (i - 1) - 1 + 1 = i - 1 /\ \A j \in 1..(i - 1) : 1 + j - 1 = j
          /\ ~(1 <= i - 1) => i - 1 = 0
        BY <1>0
    <2> HIDE DEF a
    <2> QED BY <2>2, <2>3
<1>2. b \in Seq(S) /\ Len(b) = Len(s) - i /\ \A j \in 1..(Len(s) - i) : b[j] = s[i + j]
    BY SubSeqBehind
<1> HIDE DEF a, b
<1>3. s = (a \o <<s[i]>>) \o b
    <2> DEFINE t == (a \o <<s[i]>>) \o b
    <2>1. /\ t \in Seq(S) /\ Len(t) = Len(a) + 1 + Len(b)
          /\ \A j \in 1..Len(a) : t[j] = a[j]
          /\ t[Len(a) + 1] = s[i]
          /\ \A j \in (Len(a) + 2)..(Len(a) + 1 + Len(b)) : t[j] = b[j - Len(a) - 1]
        BY <1>0, <1>1, <1>2, ThreeRuns
    <2> HIDE DEF t
    <2>2. Len(t) = Len(s)
        BY <1>0, <1>1, <1>2, <2>1
    <2>3. ASSUME NEW j \in 1..Len(s) PROVE s[j] = t[j]
        <3>1. CASE j < i
            <4>1. j \in 1..(i - 1) /\ j \in 1..Len(a)
                BY <1>0, <1>1, <3>1
            <4> QED BY <1>1, <2>1, <4>1
        <3>2. CASE j = i
            BY <1>0, <1>1, <2>1, <3>2
        <3>3. CASE j > i
            <4>1. /\ j \in (Len(a) + 2)..(Len(a) + 1 + Len(b)) /\ j - Len(a) - 1 = j - i
                  /\ j - i \in 1..(Len(s) - i) /\ i + (j - i) = j
                BY <1>0, <1>1, <1>2, <3>3
            <4> QED BY <1>2, <2>1, <4>1
        <3> QED BY <1>0, <3>1, <3>2, <3>3
    <2>4. s = t
        BY <2>1, <2>2, <2>3, SeqEqual
    <2> QED BY <2>4 DEF t
<1> QED BY <1>1, <1>2, <1>3 DEF a, b

------------------------------------------------------------------------------
(* The first line of a name                                                *)

\* The first line of the name is the one with the name and none before it.
LEMMA FirstAt ==
    ASSUME NEW S, NEW s \in Seq(S), NEW key, NEW i \in 1..Len(s), s[i].key = key,
           \A j \in 1..(i - 1) : s[j].key # key
    PROVE  FirstNamed(s, key) = i
<1> DEFINE Is(k) == s[k].key = key /\ \A j \in 1..(k - 1) : s[j].key # key
<1>1. DOMAIN s = 1..Len(s) /\ Len(s) \in Nat
    BY LenProperties
<1>2. \A k \in 1..Len(s) : Is(k) => k = i
    <2>1. \A k \in 1..Len(s) : k < i => k \in 1..(i - 1)
        BY <1>1
    <2>2. \A k \in 1..Len(s) : i < k => i \in 1..(k - 1)
        BY <1>1
    <2>3. \A k \in 1..Len(s) : k < i \/ k = i \/ i < k
        BY <1>1
    <2> QED BY <2>1, <2>2, <2>3
<1>3. Is(i)
    OBVIOUS
<1> HIDE DEF Is
<1>4. (CHOOSE k \in 1..Len(s) : Is(k)) = i
    BY <1>2, <1>3
<1>5. (CHOOSE k \in DOMAIN s : Is(k)) = i
    BY <1>1, <1>4
<1> QED BY <1>1, <1>5 DEF FirstNamed, First, Is

\* There is none.
LEMMA FirstNone ==
    ASSUME NEW S, NEW s \in Seq(S), NEW key, \A j \in 1..Len(s) : s[j].key # key
    PROVE  FirstNamed(s, key) = 0
<1>1. DOMAIN s = 1..Len(s)
    BY LenProperties
<1> QED BY <1>1 DEF FirstNamed, First

\* There is a first one of those there are.
LEMMA FirstIs ==
    ASSUME NEW S, NEW s \in Seq(S), NEW key, \E j \in 1..Len(s) : s[j].key = key
    PROVE  /\ FirstNamed(s, key) \in 1..Len(s) /\ s[FirstNamed(s, key)].key = key
           /\ \A j \in 1..(FirstNamed(s, key) - 1) : s[j].key # key
<1> DEFINE is == {j \in 1..Len(s) : s[j].key = key}
<1>1. is \subseteq Nat /\ is # {} /\ Len(s) \in Nat
    BY LenProperties
<1>2. PICK i \in is : \A j \in is : i <= j
    <2> HIDE DEF is
    <2> QED BY <1>1, LeastNumber
<1>3. \A j \in 1..(i - 1) : j \in 1..Len(s) /\ ~(i <= j)
    <2>1. i \in 1..Len(s)
        OBVIOUS
    <2> QED BY ONLY <1>1, <2>1
<1>4. \A j \in 1..(i - 1) : s[j].key # key
    BY <1>2, <1>3
<1>5. FirstNamed(s, key) = i
    BY <1>4, FirstAt
<1> QED BY <1>4, <1>5

\* The elements of c.
Cells(c) == 1..Len(c)

\* The lines of the elements l, and the first of them of a name.
LinesOf(c, l) == [i \in DOMAIN l |-> c[l[i]]]
HeadOf(c, l, key) ==
    LET i == FirstNamed(LinesOf(c, l), key) IN IF i = 0 THEN 0 ELSE l[i]
HasKey(c, l, key) == \E i \in 1..Len(l) : c[l[i]].key = key

\* The lines of elements that are there.
LEMMA LinesType ==
    ASSUME NEW L, NEW c \in Seq(L), NEW l \in Seq(Cells(c))
    PROVE  /\ LinesOf(c, l) \in Seq(L) /\ Len(LinesOf(c, l)) = Len(l) /\ Len(l) \in Nat
           /\ \A i \in 1..Len(l) : LinesOf(c, l)[i] = c[l[i]] /\ l[i] \in Cells(c) /\ l[i] \in Nat \ {0}
<1>1. DOMAIN l = 1..Len(l) /\ Len(l) \in Nat /\ Len(c) \in Nat
    BY LenProperties
<1>2. \A i \in 1..Len(l) : l[i] \in Cells(c) /\ c[l[i]] \in L
    <2>1. \A x \in Cells(c) : c[x] \in L
        BY ElementOfSeq DEF Cells
    <2> QED BY <2>1, ElementOfSeq
<1>3. \A i \in 1..Len(l) : l[i] \in Nat \ {0}
    BY <1>1, <1>2 DEF Cells
<1>4. LinesOf(c, l) \in Seq(L) /\ Len(LinesOf(c, l)) = Len(l)
    BY <1>1, <1>2 DEF LinesOf
<1> QED BY <1>1, <1>2, <1>3, <1>4 DEF LinesOf

\* The first element of a name, behind others that have not the name.
LEMMA HeadBehind ==
    ASSUME NEW L, NEW c \in Seq(L), NEW a \in Seq(Cells(c)), NEW x \in Cells(c),
           NEW b \in Seq(Cells(c)), NEW key, c[x].key = key, ~HasKey(c, a, key)
    PROVE  /\ FirstNamed(LinesOf(c, (a \o <<x>>) \o b), key) = Len(a) + 1
           /\ HeadOf(c, (a \o <<x>>) \o b, key) = x
<1> DEFINE l == (a \o <<x>>) \o b
           s == LinesOf(c, l)
<1>1. /\ l \in Seq(Cells(c)) /\ Len(a) \in Nat /\ Len(b) \in Nat
      /\ Len(l) = Len(a) + 1 + Len(b) /\ l[Len(a) + 1] = x
      /\ \A i \in 1..Len(a) : l[i] = a[i]
    BY ThreeRuns
<1> HIDE DEF l
<1>2. /\ s \in Seq(L) /\ Len(s) = Len(l) /\ \A i \in 1..Len(l) : s[i] = c[l[i]]
    <2>1. l \in Seq(Cells(c)) /\ c \in Seq(L)
        BY <1>1
    <2> QED BY ONLY <2>1, LinesType
<1> HIDE DEF s
<1>3. Len(a) + 1 \in 1..Len(s) /\ (Len(a) + 1) - 1 = Len(a) /\ \A j \in 1..Len(a) : j \in 1..Len(l)
    BY <1>1, <1>2
<1>4. s[Len(a) + 1].key = key /\ \A j \in 1..((Len(a) + 1) - 1) : s[j].key # key
    <2>1. \A j \in 1..Len(a) : c[a[j]].key # key
        BY DEF HasKey
    <2> QED BY <1>1, <1>2, <1>3, <2>1
<1>5. FirstNamed(s, key) = Len(a) + 1
    <2> DEFINE i == Len(a) + 1
    <2>1. i \in 1..Len(s) /\ s[i].key = key /\ \A j \in 1..(i - 1) : s[j].key # key
        BY <1>3, <1>4
    <2> HIDE DEF i
    <2>2. FirstNamed(s, key) = i
        BY <1>2, <2>1, FirstAt
    <2> QED BY <2>2 DEF i
<1>6. HeadOf(c, l, key) = x
    <2>1. Len(a) + 1 # 0
        BY <1>1
    <2> QED BY <1>1, <1>5, <2>1 DEF HeadOf, s
<1> QED BY <1>5, <1>6 DEF l, s

\* There is none.
LEMMA HeadNone ==
    ASSUME NEW L, NEW c \in Seq(L), NEW l \in Seq(Cells(c)), NEW key, ~HasKey(c, l, key)
    PROVE  FirstNamed(LinesOf(c, l), key) = 0 /\ HeadOf(c, l, key) = 0
<1>1. /\ LinesOf(c, l) \in Seq(L) /\ Len(LinesOf(c, l)) = Len(l)
      /\ \A i \in 1..Len(l) : LinesOf(c, l)[i] = c[l[i]]
    BY LinesType
<1>2. FirstNamed(LinesOf(c, l), key) = 0
    BY <1>1, FirstNone DEF HasKey
<1> QED BY <1>2 DEF HeadOf

\* There is one: the list is what is before it, the element, and the rest.
LEMMA HeadFound ==
    ASSUME NEW L, NEW c \in Seq(L), NEW l \in Seq(Cells(c)), NEW key, HasKey(c, l, key)
    PROVE  \E a, b \in Seq(Cells(c)) : \E x \in Cells(c) :
                /\ l = (a \o <<x>>) \o b /\ ~HasKey(c, a, key) /\ c[x].key = key
                /\ HeadOf(c, l, key) = x
<1> DEFINE s == LinesOf(c, l)
           i == FirstNamed(s, key)
<1>1. s \in Seq(L) /\ Len(s) = Len(l) /\ \A j \in 1..Len(l) : s[j] = c[l[j]]
    BY LinesType
<1> HIDE DEF s
<1>2. i \in 1..Len(s) /\ s[i].key = key /\ \A j \in 1..(i - 1) : s[j].key # key
    BY <1>1, FirstIs DEF HasKey
<1> HIDE DEF i
<1> DEFINE a == SubSeq(l, 1, i - 1)
           b == SubSeq(l, i + 1, Len(l))
<1>3. /\ a \in Seq(Cells(c)) /\ b \in Seq(Cells(c)) /\ Len(a) = i - 1
      /\ \A j \in 1..(i - 1) : a[j] = l[j]
      /\ l = (a \o <<l[i]>>) \o b
    <2>1. i \in 1..Len(l)
        BY <1>1, <1>2
    <2> QED BY <2>1, AroundElement
<1> HIDE DEF a, b
<1>4. ~HasKey(c, a, key)
    <2>1. \A j \in 1..(i - 1) : j \in 1..Len(l)
        <3>1. i \in 1..Len(l) /\ Len(l) \in Nat
            BY <1>1, <1>2, LenProperties
        <3> QED BY <3>1
    <2>2. ASSUME NEW j \in 1..(i - 1) PROVE c[a[j]].key # key
        <3>1. a[j] = l[j] /\ s[j] = c[l[j]] /\ s[j].key # key
            BY <1>1, <1>2, <1>3, <2>1
        <3> QED BY <3>1
    <2> QED BY <1>3, <2>2 DEF HasKey
<1>5. l[i] \in Cells(c) /\ c[l[i]].key = key
    BY <1>1, <1>2, LinesType
<1>6. HeadOf(c, l, key) = l[i]
    <2>1. i # 0
        BY <1>2
    <2> QED BY <2>1 DEF HeadOf, i, s
<1> QED BY <1>3, <1>4, <1>5, <1>6

------------------------------------------------------------------------------
(* The heads of two runs, and of lines that have changed                   *)

\* The first element of a name is found, and has the name, if there is one.
LEMMA HeadIs ==
    ASSUME NEW L, NEW c \in Seq(L), NEW l \in Seq(Cells(c)), NEW key
    PROVE  /\ HeadOf(c, l, key) = 0 <=> ~HasKey(c, l, key)
           /\ FirstNamed(LinesOf(c, l), key) = 0 <=> ~HasKey(c, l, key)
           /\ FirstNamed(LinesOf(c, l), key) # 0 =>
                /\ FirstNamed(LinesOf(c, l), key) \in 1..Len(l)
                /\ HeadOf(c, l, key) = l[FirstNamed(LinesOf(c, l), key)]
           /\ HeadOf(c, l, key) # 0 =>
                HeadOf(c, l, key) \in Cells(c) /\ c[HeadOf(c, l, key)].key = key
           /\ HeadOf(c, l, key) \in Nat
<1> DEFINE s == LinesOf(c, l)
           i == FirstNamed(s, key)
<1>1. CASE ~HasKey(c, l, key)
    BY <1>1, HeadNone
<1>2. CASE HasKey(c, l, key)
    <2>1. /\ s \in Seq(L) /\ Len(s) = Len(l) /\ Len(l) \in Nat
          /\ \A j \in 1..Len(l) : s[j] = c[l[j]] /\ l[j] \in Cells(c) /\ l[j] \in Nat \ {0}
        BY LinesType
    <2> HIDE DEF s
    <2>2. i \in 1..Len(s) /\ s[i].key = key
        <3>1. \E j \in 1..Len(s) : s[j].key = key
            BY <1>2, <2>1 DEF HasKey
        <3> QED BY ONLY <2>1, <3>1, FirstIs DEF i
    <2>3. HeadOf(c, l, key) = IF i = 0 THEN 0 ELSE l[i]
        BY Zenon DEF HeadOf, s
    <2> HIDE DEF i
    <2>4. i # 0 /\ HeadOf(c, l, key) = l[i] /\ l[i] \in Cells(c) /\ c[l[i]].key = key /\ l[i] \in Nat \ {0}
        BY <2>1, <2>2, <2>3
    <2> QED BY <1>2, <2>1, <2>2, <2>4 DEF i, s
<1> QED BY <1>1, <1>2

\* The value of the first line of a name.
LEMMA HeadValueIs ==
    ASSUME NEW L, NEW c \in Seq(L), NEW l \in Seq(Cells(c)), NEW key
    PROVE  FirstValue(LinesOf(c, l), key)
             = IF HeadOf(c, l, key) = 0 THEN "" ELSE c[HeadOf(c, l, key)].value
<1> DEFINE s == LinesOf(c, l)
           i == FirstNamed(s, key)
<1>1. FirstValue(s, key) = IF i = 0 THEN "" ELSE s[i].value
    BY DEF FirstValue
<1>2. /\ HeadOf(c, l, key) = 0 <=> i = 0
      /\ i # 0 => i \in 1..Len(l) /\ HeadOf(c, l, key) = l[i]
    BY HeadIs
<1>3. i # 0 => s[i] = c[l[i]]
    BY <1>2, LinesType
<1> QED BY <1>1, <1>2, <1>3

\* Of two runs the first that has the name.
LEMMA HasKeyConcat ==
    ASSUME NEW c, NEW T, NEW a \in Seq(T), NEW b \in Seq(T), NEW key
    PROVE  HasKey(c, a \o b, key) <=> HasKey(c, a, key) \/ HasKey(c, b, key)
<1>1. /\ Len(a) \in Nat /\ Len(b) \in Nat /\ Len(a \o b) = Len(a) + Len(b)
      /\ \A i \in 1..(Len(a) + Len(b)) :
            (a \o b)[i] = IF i <= Len(a) THEN a[i] ELSE b[i - Len(a)]
    BY ConcatProperties, LenProperties
<1>2. ASSUME NEW i \in 1..Len(a), c[a[i]].key = key PROVE HasKey(c, a \o b, key)
    <2>1. i \in 1..(Len(a) + Len(b)) /\ i <= Len(a)
        BY <1>1
    <2>2. (a \o b)[i] = a[i]
        BY <1>1, <2>1
    <2> QED BY <1>1, <1>2, <2>1, <2>2 DEF HasKey
<1>3. ASSUME NEW i \in 1..Len(b), c[b[i]].key = key PROVE HasKey(c, a \o b, key)
    <2>1. Len(a) + i \in 1..(Len(a) + Len(b)) /\ ~(Len(a) + i <= Len(a)) /\ (Len(a) + i) - Len(a) = i
        BY <1>1
    <2>2. (a \o b)[Len(a) + i] = b[i]
        BY <1>1, <2>1
    <2> QED BY <1>1, <1>3, <2>1, <2>2 DEF HasKey
<1>4. ASSUME NEW i \in 1..(Len(a) + Len(b)), c[(a \o b)[i]].key = key
      PROVE  HasKey(c, a, key) \/ HasKey(c, b, key)
    <2>1. CASE i <= Len(a)
        <3>1. i \in 1..Len(a)
            BY <1>1, <2>1
        <3> QED BY <1>1, <1>4, <2>1, <3>1 DEF HasKey
    <2>2. CASE ~(i <= Len(a))
        <3>1. i - Len(a) \in 1..Len(b)
            BY <1>1, <2>2
        <3> QED BY <1>1, <1>4, <2>2, <3>1 DEF HasKey
    <2> QED BY <2>1, <2>2
<1> QED BY <1>1, <1>2, <1>3, <1>4 DEF HasKey

\* Runs are joined in any order.
LEMMA SecondRun ==
    ASSUME NEW S, NEW a \in Seq(S), NEW p \in Seq(S), NEW x \in S, NEW q \in Seq(S)
    PROVE  Cat(a, Cat(Cat(p, <<x>>), q)) = Cat(Cat(Cat(a, p), <<x>>), q)
<1> DEFINE one == <<x>>
<1>1. one \in Seq(S)
    OBVIOUS
<1> HIDE DEF one
<1>2. p \o one \in Seq(S)
    BY ONLY <1>1, p \in Seq(S), ConcatType
<1>3. Cat(Cat(a, Cat(p, one)), q) = Cat(a, Cat(Cat(p, one), q))
    <2>1. Cat(p, one) \in Seq(S)
        BY ONLY <1>2 DEF Cat
    <2> QED BY ONLY <2>1, a \in Seq(S), q \in Seq(S), CatAssociative
<1>4. Cat(Cat(a, p), one) = Cat(a, Cat(p, one))
    BY ONLY <1>1, a \in Seq(S), p \in Seq(S), CatAssociative
<1>5. Cat(a, Cat(Cat(p, one), q)) = Cat(Cat(Cat(a, p), one), q)
    BY ONLY <1>3, <1>4
<1> QED BY ONLY <1>5 DEF one

\* An element of the second run, behind others that have not the name.
LEMMA HeadSecond ==
    ASSUME NEW L, NEW c \in Seq(L), NEW a \in Seq(Cells(c)), NEW p \in Seq(Cells(c)),
           NEW x \in Cells(c), NEW q \in Seq(Cells(c)), NEW key,
           c[x].key = key, ~HasKey(c, a, key), ~HasKey(c, p, key)
    PROVE  /\ HeadOf(c, a \o ((p \o <<x>>) \o q), key) = x
           /\ HeadOf(c, (p \o <<x>>) \o q, key) = x
<1>1. a \o ((p \o <<x>>) \o q) = ((a \o p) \o <<x>>) \o q
    <2> DEFINE T == Cells(c)
    <2>1. a \in Seq(T) /\ p \in Seq(T) /\ x \in T /\ q \in Seq(T)
        OBVIOUS
    <2> HIDE DEF T
    <2>2. Cat(a, Cat(Cat(p, <<x>>), q)) = Cat(Cat(Cat(a, p), <<x>>), q)
        BY ONLY <2>1, SecondRun
    <2> QED BY ONLY <2>2 DEF Cat
<1>2. a \o p \in Seq(Cells(c)) /\ ~HasKey(c, a \o p, key)
    <2>1. a \o p \in Seq(Cells(c))
        BY ConcatType
    <2>2. HasKey(c, a \o p, key) <=> HasKey(c, a, key) \/ HasKey(c, p, key)
        BY HasKeyConcat
    <2> QED BY <2>1, <2>2
<1>3. HeadOf(c, (p \o <<x>>) \o q, key) = x
    BY HeadBehind
<1> DEFINE r == a \o p
<1>4. r \in Seq(Cells(c)) /\ ~HasKey(c, r, key)
    BY <1>2
<1> HIDE DEF r
<1>5. HeadOf(c, (r \o <<x>>) \o q, key) = x
    BY <1>4, HeadBehind
<1> QED BY <1>1, <1>3, <1>5 DEF r

\* The head of two runs is that of the first one that has the name.
LEMMA HeadConcat ==
    ASSUME NEW L, NEW c \in Seq(L), NEW a \in Seq(Cells(c)), NEW b \in Seq(Cells(c)), NEW key
    PROVE  HeadOf(c, a \o b, key)
             = IF HasKey(c, a, key) THEN HeadOf(c, a, key) ELSE HeadOf(c, b, key)
<1> DEFINE T == Cells(c)
<1>0. a \o b \in Seq(T)
    BY ConcatProperties
<1>1. CASE HasKey(c, a, key)
    <2>1. PICK p, q \in Seq(T), x \in T :
            a = (p \o <<x>>) \o q /\ ~HasKey(c, p, key) /\ c[x].key = key
        <3>1. \E p, q \in Seq(T) : \E x \in T :
                /\ a = (p \o <<x>>) \o q /\ ~HasKey(c, p, key) /\ c[x].key = key
                /\ HeadOf(c, a, key) = x
            BY ONLY <1>1, c \in Seq(L), a \in Seq(Cells(c)), HeadFound
        <3> QED BY ONLY <3>1
    <2>2. p \o <<x>> \in Seq(T) /\ q \o b \in Seq(T)
        <3>1. <<x>> \in Seq(T) /\ p \in Seq(T) /\ q \in Seq(T) /\ b \in Seq(T)
            BY <2>1
        <3> HIDE DEF T
        <3> QED BY ONLY <3>1, ConcatType
    <2>3. a \o b = (p \o <<x>>) \o (q \o b)
        <3> DEFINE r == p \o <<x>>
        <3>1. r \in Seq(T) /\ q \in Seq(T) /\ b \in Seq(T) /\ a = r \o q
            BY <2>1, <2>2
        <3> HIDE DEF r, T
        <3>2. Cat(Cat(r, q), b) = Cat(r, Cat(q, b))
            BY ONLY <3>1, CatAssociative
        <3>3. (r \o q) \o b = r \o (q \o b)
            BY ONLY <3>2 DEF Cat
        <3> QED BY ONLY <3>1, <3>3 DEF r
    <2>4. HeadOf(c, a \o b, key) = x
        <3> DEFINE r == q \o b
        <3>1. /\ r \in Seq(Cells(c)) /\ c \in Seq(L) /\ p \in Seq(Cells(c)) /\ x \in Cells(c)
              /\ ~HasKey(c, p, key) /\ c[x].key = key
            BY <2>1, <2>2
        <3> HIDE DEF r
        <3>2. HeadOf(c, (p \o <<x>>) \o r, key) = x
            BY ONLY <3>1, HeadBehind
        <3> QED BY ONLY <2>3, <3>2 DEF r
    <2>5. HeadOf(c, a, key) = x
        <3>1. /\ c \in Seq(L) /\ p \in Seq(Cells(c)) /\ x \in Cells(c) /\ q \in Seq(Cells(c))
              /\ ~HasKey(c, p, key) /\ c[x].key = key
            BY <2>1
        <3>2. HeadOf(c, (p \o <<x>>) \o q, key) = x
            BY ONLY <3>1, HeadBehind
        <3> QED BY ONLY <2>1, <3>2
    <2> QED BY <1>1, <2>4, <2>5
<1>2. CASE ~HasKey(c, a, key) /\ HasKey(c, b, key)
    <2>1. PICK p, q \in Seq(T), x \in T :
            b = (p \o <<x>>) \o q /\ ~HasKey(c, p, key) /\ c[x].key = key
        BY <1>2, HeadFound
    <2>2. ~HasKey(c, a, key)
        BY <1>2
    <2>3. /\ HeadOf(c, a \o ((p \o <<x>>) \o q), key) = x
          /\ HeadOf(c, (p \o <<x>>) \o q, key) = x
        <3>0. /\ ~HasKey(c, p, key) /\ ~HasKey(c, a, key) /\ c \in Seq(L) /\ p \in Seq(Cells(c))
              /\ a \in Seq(Cells(c))
              /\ q \in Seq(Cells(c)) /\ x \in Cells(c) /\ c[x].key = key
            BY <2>1, <2>2
        <3> QED BY ONLY <3>0, HeadSecond
    <2> QED BY <1>2, <2>1, <2>3
<1>3. CASE ~HasKey(c, a, key) /\ ~HasKey(c, b, key)
    <2>1. ~HasKey(c, a \o b, key)
        BY <1>3, HasKeyConcat
    <2>2. HeadOf(c, a \o b, key) = 0 /\ HeadOf(c, b, key) = 0
        BY <1>0, <1>3, <2>1, HeadNone
    <2> QED BY <1>3, <2>2
<1> QED BY <1>1, <1>2, <1>3

\* One element.
LEMMA HeadOne ==
    ASSUME NEW L, NEW c \in Seq(L), NEW x \in Cells(c), NEW key
    PROVE  /\ HasKey(c, <<x>>, key) <=> c[x].key = key
           /\ HeadOf(c, <<x>>, key) = IF c[x].key = key THEN x ELSE 0
<1> DEFINE l == <<x>>
<1>1. l \in Seq(Cells(c)) /\ Len(l) = 1 /\ l[1] = x /\ \A i \in 1..Len(l) : i = 1
    OBVIOUS
<1> HIDE DEF l
<1>2. HasKey(c, l, key) <=> c[x].key = key
    BY <1>1 DEF HasKey
<1>3. CASE c[x].key = key
    <2>1. HeadOf(c, l, key) # 0
        BY <1>1, <1>2, <1>3, HeadIs
    <2>2. HeadOf(c, l, key) = l[FirstNamed(LinesOf(c, l), key)] /\ FirstNamed(LinesOf(c, l), key) \in 1..Len(l)
        <3>1. HasKey(c, l, key)
            BY <1>2, <1>3
        <3>2. FirstNamed(LinesOf(c, l), key) # 0
            BY <1>1, <3>1, HeadIs
        <3> QED BY <1>1, <3>2, HeadIs
    <2> QED BY <1>1, <1>2, <1>3, <2>2 DEF l
<1>4. CASE c[x].key # key
    <2>1. HeadOf(c, l, key) = 0
        BY <1>1, <1>2, <1>4, HeadNone
    <2> QED BY <1>2, <1>4, <2>1 DEF l
<1> QED BY <1>3, <1>4

\* An element that has not the name may go.
LEMMA HeadWithout ==
    ASSUME NEW L, NEW c \in Seq(L), NEW a \in Seq(Cells(c)), NEW x \in Cells(c),
           NEW b \in Seq(Cells(c)), NEW key, c[x].key # key
    PROVE  HeadOf(c, (a \o <<x>>) \o b, key) = HeadOf(c, a \o b, key)
<1>1. <<x>> \in Seq(Cells(c)) /\ a \o <<x>> \in Seq(Cells(c))
    BY ThreeRuns
<1>2. HeadOf(c, (a \o <<x>>) \o b, key)
        = IF HasKey(c, a \o <<x>>, key) THEN HeadOf(c, a \o <<x>>, key) ELSE HeadOf(c, b, key)
    <2> DEFINE r == a \o <<x>>
    <2>1. r \in Seq(Cells(c))
        BY <1>1
    <2> HIDE DEF r
    <2>2. HeadOf(c, r \o b, key) = IF HasKey(c, r, key) THEN HeadOf(c, r, key) ELSE HeadOf(c, b, key)
        BY <2>1, HeadConcat
    <2> QED BY <2>2 DEF r
<1>3. HeadOf(c, a \o b, key)
        = IF HasKey(c, a, key) THEN HeadOf(c, a, key) ELSE HeadOf(c, b, key)
    BY HeadConcat
<1>4. HasKey(c, a \o <<x>>, key) <=> HasKey(c, a, key)
    BY <1>1, HasKeyConcat, HeadOne
<1>5. HasKey(c, a, key) => HeadOf(c, a \o <<x>>, key) = HeadOf(c, a, key)
    BY <1>1, HeadConcat
<1> QED BY <1>2, <1>3, <1>4, <1>5

\* The names of the elements decide.
LEMMA HeadSame ==
    ASSUME NEW L, NEW c \in Seq(L), NEW d \in Seq(L), Len(c) <= Len(d),
           \A x \in Cells(c) : d[x].key = c[x].key,
           NEW l \in Seq(Cells(c)), NEW key
    PROVE  HeadOf(d, l, key) = HeadOf(c, l, key) /\ (HasKey(d, l, key) <=> HasKey(c, l, key))
<1>0. Cells(c) \subseteq Cells(d)
    <2>1. Len(c) \in Nat /\ Len(d) \in Nat
        BY LenProperties
    <2> QED BY <2>1 DEF Cells
<1>1. ASSUME NEW k \in Seq(Cells(c)) PROVE k \in Seq(Cells(d)) /\ (HasKey(d, k, key) <=> HasKey(c, k, key))
    <2>1. k \in Seq(Cells(d))
        BY <1>0, SeqOfSubset
    <2>2. \A i \in 1..Len(k) : k[i] \in Cells(c)
        BY ElementOfSeq
    <2> QED BY <2>1, <2>2 DEF HasKey
<1>2. CASE HasKey(c, l, key)
    <2>1. PICK p, q \in Seq(Cells(c)), x \in Cells(c) :
            l = (p \o <<x>>) \o q /\ ~HasKey(c, p, key) /\ c[x].key = key
            /\ HeadOf(c, l, key) = x
        BY <1>2, HeadFound
    <2>2. HeadOf(c, l, key) = x
        BY <2>1
    <2>3. ~HasKey(d, p, key) /\ d[x].key = key /\ x \in Cells(d) /\ p \in Seq(Cells(d)) /\ q \in Seq(Cells(d))
        BY <1>0, <1>1, <2>1
    <2>4. HeadOf(d, (p \o <<x>>) \o q, key) = x
        BY <2>3, HeadBehind
    <2>5. HeadOf(d, l, key) = x
        BY <2>1, <2>4
    <2> QED BY <1>1, <2>2, <2>5
<1>3. CASE ~HasKey(c, l, key)
    BY <1>1, <1>3, HeadNone
<1> QED BY <1>2, <1>3

------------------------------------------------------------------------------
(* The lines of every other name                                           *)

\* The lines of two runs.
LEMMA LinesConcat ==
    ASSUME NEW L, NEW c \in Seq(L), NEW a \in Seq(Cells(c)), NEW b \in Seq(Cells(c))
    PROVE  LinesOf(c, a \o b) = LinesOf(c, a) \o LinesOf(c, b)
<1> DEFINE s == LinesOf(c, a)
           t == LinesOf(c, b)
           l == a \o b
           u == LinesOf(c, l)
<1>1. /\ l \in Seq(Cells(c)) /\ Len(l) = Len(a) + Len(b)
      /\ \A i \in 1..(Len(a) + Len(b)) : l[i] = IF i <= Len(a) THEN a[i] ELSE b[i - Len(a)]
    BY ConcatProperties
<1>2. /\ s \in Seq(L) /\ Len(s) = Len(a) /\ Len(a) \in Nat
      /\ \A i \in 1..Len(a) : s[i] = c[a[i]]
    BY LinesType
<1>3. /\ t \in Seq(L) /\ Len(t) = Len(b) /\ Len(b) \in Nat
      /\ \A i \in 1..Len(b) : t[i] = c[b[i]]
    BY LinesType
<1>4. /\ u \in Seq(L) /\ Len(u) = Len(l) /\ \A i \in 1..Len(l) : u[i] = c[l[i]]
    <2> HIDE DEF l
    <2> QED BY <1>1, LinesType
<1> HIDE DEF s, t, l, u
<1>5. /\ s \o t \in Seq(L) /\ Len(s \o t) = Len(s) + Len(t)
      /\ \A i \in 1..(Len(s) + Len(t)) : (s \o t)[i] = IF i <= Len(s) THEN s[i] ELSE t[i - Len(s)]
    <2>1. s \in Seq(L) /\ t \in Seq(L)
        BY <1>2, <1>3
    <2> QED BY ONLY <2>1, ConcatProperties
<1>6. ASSUME NEW i \in 1..Len(u) PROVE u[i] = (s \o t)[i]
    <2>1. i \in 1..(Len(a) + Len(b)) /\ i \in 1..Len(l) /\ i \in 1..(Len(s) + Len(t))
        BY <1>1, <1>2, <1>3, <1>4
    <2>2. CASE i <= Len(a)
        <3>1. i \in 1..Len(a) /\ i <= Len(s)
            BY <1>2, <2>1, <2>2
        <3>2. l[i] = a[i] /\ u[i] = c[l[i]] /\ (s \o t)[i] = s[i] /\ s[i] = c[a[i]]
            BY <1>1, <1>2, <1>4, <1>5, <2>1, <2>2, <3>1
        <3> QED BY <3>2
    <2>3. CASE ~(i <= Len(a))
        <3>1. i - Len(a) \in 1..Len(b) /\ ~(i <= Len(s)) /\ i - Len(s) = i - Len(a)
            BY <1>2, <1>3, <2>1, <2>3
        <3>2. l[i] = b[i - Len(a)] /\ u[i] = c[l[i]] /\ (s \o t)[i] = t[i - Len(a)]
              /\ t[i - Len(a)] = c[b[i - Len(a)]]
            BY <1>1, <1>3, <1>4, <1>5, <2>1, <2>3, <3>1
        <3> QED BY <3>2
    <2> QED BY <2>2, <2>3
<1>7. Len(u) = Len(s \o t)
    BY <1>1, <1>2, <1>3, <1>4, <1>5
<1>8. u = s \o t
    BY <1>4, <1>5, <1>6, <1>7, SeqEqual
<1> QED BY <1>8 DEF u, s, t, l

\* What Without joins.
Chosen(lines, key) == [i \in DOMAIN lines |-> IF lines[i].key = key THEN <<>> ELSE <<lines[i]>>]

\* It is a row of sequences of lines, of one or none each.
LEMMA ChosenType ==
    ASSUME NEW L, NEW s \in Seq(L), NEW key
    PROVE  /\ Chosen(s, key) \in Seq(Seq(L)) /\ Len(Chosen(s, key)) = Len(s) /\ Len(s) \in Nat
           /\ \A i \in 1..Len(s) :
                Chosen(s, key)[i] = IF s[i].key = key THEN <<>> ELSE <<s[i]>>
           /\ Without(s, key) = FlattenSeq(Chosen(s, key))
<1>1. DOMAIN s = 1..Len(s) /\ Len(s) \in Nat
    BY LenProperties
<1>2. \A i \in 1..Len(s) : (IF s[i].key = key THEN <<>> ELSE <<s[i]>>) \in Seq(L)
    BY ElementOfSeq
<1>3. Chosen(s, key) \in Seq(Seq(L)) /\ Len(Chosen(s, key)) = Len(s)
    BY <1>1, <1>2 DEF Chosen
<1> QED BY <1>1, <1>3 DEF Chosen, Without

\* Lines remain.
LEMMA WithoutType ==
    ASSUME NEW L, NEW s \in Seq(L), NEW key
    PROVE  Without(s, key) \in Seq(L)
BY ChosenType, FlattenType

\* The lines of every other name of two runs.
LEMMA WithoutCat ==
    ASSUME NEW L, NEW s \in Seq(L), NEW t \in Seq(L), NEW key
    PROVE  Without(Cat(s, t), key) = Cat(Without(s, key), Without(t, key))
<1> DEFINE u == s \o t
           cs == Chosen(s, key)
           ct == Chosen(t, key)
           cu == Chosen(u, key)
           Pick(x) == IF x.key = key THEN <<>> ELSE <<x>>
<1>1. /\ u \in Seq(L) /\ Len(u) = Len(s) + Len(t)
      /\ \A i \in 1..(Len(s) + Len(t)) : u[i] = IF i <= Len(s) THEN s[i] ELSE t[i - Len(s)]
    BY ConcatProperties
<1>2. /\ cs \in Seq(Seq(L)) /\ Len(cs) = Len(s) /\ Len(s) \in Nat
      /\ \A i \in 1..Len(s) : cs[i] = Pick(s[i])
      /\ Without(s, key) = FlattenSeq(cs)
    BY ChosenType
<1>3. /\ ct \in Seq(Seq(L)) /\ Len(ct) = Len(t) /\ Len(t) \in Nat
      /\ \A i \in 1..Len(t) : ct[i] = Pick(t[i])
      /\ Without(t, key) = FlattenSeq(ct)
    BY ChosenType
<1>4. /\ cu \in Seq(Seq(L)) /\ Len(cu) = Len(u)
      /\ \A i \in 1..Len(u) : cu[i] = Pick(u[i])
      /\ Without(u, key) = FlattenSeq(cu)
    <2> HIDE DEF u
    <2> QED BY <1>1, ChosenType
<1> HIDE DEF u, cs, ct, cu, Pick
<1>5. /\ cs \o ct \in Seq(Seq(L)) /\ Len(cs \o ct) = Len(cs) + Len(ct)
      /\ \A i \in 1..(Len(cs) + Len(ct)) :
            (cs \o ct)[i] = IF i <= Len(cs) THEN cs[i] ELSE ct[i - Len(cs)]
    <2> DEFINE S == Seq(L)
    <2>1. cs \in Seq(S) /\ ct \in Seq(S)
        BY <1>2, <1>3
    <2> HIDE DEF S
    <2>2. /\ cs \o ct \in Seq(S) /\ Len(cs \o ct) = Len(cs) + Len(ct)
          /\ \A i \in 1..(Len(cs) + Len(ct)) :
                (cs \o ct)[i] = IF i <= Len(cs) THEN cs[i] ELSE ct[i - Len(cs)]
        BY ONLY <2>1, ConcatProperties
    <2> QED BY <2>2 DEF S
<1>6. ASSUME NEW i \in 1..Len(cu) PROVE cu[i] = (cs \o ct)[i]
    <2>1. i \in 1..(Len(s) + Len(t)) /\ i \in 1..Len(u) /\ i \in 1..(Len(cs) + Len(ct))
        BY <1>1, <1>2, <1>3, <1>4
    <2>2. CASE i <= Len(s)
        <3>1. i \in 1..Len(s) /\ i <= Len(cs)
            BY <1>2, <2>1, <2>2
        <3>2. u[i] = s[i] /\ cu[i] = Pick(u[i]) /\ (cs \o ct)[i] = cs[i] /\ cs[i] = Pick(s[i])
            BY <1>1, <1>2, <1>4, <1>5, <2>1, <2>2, <3>1
        <3> QED BY <3>2
    <2>3. CASE ~(i <= Len(s))
        <3>1. i - Len(s) \in 1..Len(t) /\ ~(i <= Len(cs)) /\ i - Len(cs) = i - Len(s)
            BY <1>2, <1>3, <2>1, <2>3
        <3>2. u[i] = t[i - Len(s)] /\ cu[i] = Pick(u[i]) /\ (cs \o ct)[i] = ct[i - Len(s)]
              /\ ct[i - Len(s)] = Pick(t[i - Len(s)])
            BY <1>1, <1>3, <1>4, <1>5, <2>1, <2>3, <3>1
        <3> QED BY <3>2
    <2> QED BY <2>2, <2>3
<1>7. Len(cu) = Len(cs \o ct)
    BY <1>1, <1>2, <1>3, <1>4, <1>5
<1>8. cu = Cat(cs, ct)
    <2> DEFINE S == Seq(L)
    <2>1. cu \in Seq(S) /\ cs \o ct \in Seq(S)
        BY <1>4, <1>5
    <2> HIDE DEF S
    <2>2. cu = cs \o ct
        BY <1>6, <1>7, <2>1, SeqEqual
    <2> QED BY ONLY <2>2 DEF Cat
<1>9. FlattenSeq(Cat(cs, ct)) = Cat(FlattenSeq(cs), FlattenSeq(ct))
    <2>1. FlattenSeq(cs \o ct) = FlattenSeq(cs) \o FlattenSeq(ct)
        BY <1>2, <1>3, FlattenConcat
    <2> QED BY ONLY <2>1 DEF Cat
<1>10. u = Cat(s, t)
    BY ONLY TRUE DEF u, Cat
<1> QED BY ONLY <1>2, <1>3, <1>4, <1>8, <1>9, <1>10

\* The same of their concatenation.
LEMMA WithoutConcat ==
    ASSUME NEW L, NEW s \in Seq(L), NEW t \in Seq(L), NEW key
    PROVE  Without(s \o t, key) = Without(s, key) \o Without(t, key)
<1>1. Without(Cat(s, t), key) = Cat(Without(s, key), Without(t, key))
    BY WithoutCat
<1> QED BY ONLY <1>1 DEF Cat

\* One line.
LEMMA WithoutOne ==
    ASSUME NEW L, NEW x \in L, NEW key
    PROVE  Without(<<x>>, key) = IF x.key = key THEN <<>> ELSE <<x>>
<1> DEFINE s == <<x>>
           one == IF x.key = key THEN <<>> ELSE <<x>>
<1>1. s \in Seq(L) /\ Len(s) = 1 /\ s[1] = x /\ one \in Seq(L)
    OBVIOUS
<1>2. Chosen(s, key) = <<one>>
    <2>1. DOMAIN s = {1}
        OBVIOUS
    <2>2. \A i \in {1} : (IF s[i].key = key THEN <<>> ELSE <<s[i]>>) = one
        OBVIOUS
    <2>3. Chosen(s, key) = [i \in {1} |-> one]
        <3> HIDE DEF s, one
        <3> QED BY <2>1, <2>2 DEF Chosen
    <2>4. [i \in {1} |-> one] = <<one>>
        <3> HIDE DEF one
        <3> QED OBVIOUS
    <2> QED BY <2>3, <2>4
<1> HIDE DEF s, one
<1>3. Without(s, key) = FlattenSeq(<<one>>)
    BY <1>1, <1>2, ChosenType
<1>4. FlattenSeq(<<one>>) = one
    BY <1>1, FlattenOne
<1> QED BY <1>3, <1>4 DEF s, one

\* There is nothing to leave out.
LEMMA WithoutNone ==
    ASSUME NEW L, NEW s \in Seq(L), NEW key, \A i \in 1..Len(s) : s[i].key # key
    PROVE  Without(s, key) = s
<1> DEFINE K == {x \in L : x.key # key}
           P == {t \in Seq(K) : Without(t, key) = t}
<1>1. <<>> \in P
    <2>1. Chosen(<<>>, key) = <<>>
        BY DEF Chosen
    <2>2. <<>> \in Seq(K) /\ <<>> \in Seq(L)
        OBVIOUS
    <2>3. Without(<<>>, key) = <<>>
        <3>1. Without(<<>>, key) = FlattenSeq(Chosen(<<>>, key))
            BY Zenon DEF Without, Chosen
        <3> QED BY <2>1, <3>1, FlattenEmpty
    <2> QED BY <2>2, <2>3
<1>2. ASSUME NEW t \in Seq(K), NEW x \in K, t \in P PROVE Append(t, x) \in P
    <2>1. Append(t, x) = t \o <<x>> /\ Append(t, x) \in Seq(K) /\ <<x>> \in Seq(K)
        BY AppendIsConcat, AppendProperties
    <2>2. Without(t \o <<x>>, key) = Without(t, key) \o Without(<<x>>, key)
        <3> DEFINE one == <<x>>
        <3>1. one \in Seq(K)
            BY <2>1
        <3> HIDE DEF one, K
        <3>2. Without(Cat(t, one), key) = Cat(Without(t, key), Without(one, key))
            BY <3>1, WithoutCat
        <3> QED BY ONLY <3>2 DEF one, Cat
    <2>3. Without(<<x>>, key) = <<x>>
        <3>1. x \in L /\ x.key # key
            OBVIOUS
        <3> QED BY ONLY <3>1, WithoutOne
    <2>4. Without(t, key) = t
        BY <1>2
    <2> QED BY <2>1, <2>2, <2>3, <2>4
<1>3. s \in Seq(K)
    <2>1. DOMAIN s = 1..Len(s) /\ Len(s) \in Nat /\ \A i \in 1..Len(s) : s[i] \in K
        BY LenProperties, ElementOfSeq
    <2>2. s = [i \in 1..Len(s) |-> s[i]]
        BY LenProperties
    <2> HIDE DEF K
    <2> QED BY <2>1, <2>2
<1> HIDE DEF P, K
<1>4. s \in P
    BY <1>1, <1>2, <1>3, SequenceInduction
<1> QED BY <1>4 DEF P

\* A line of the name may be there or not.
LEMMA WithoutAround ==
    ASSUME NEW L, NEW a \in Seq(L), NEW one \in Seq(L), NEW b \in Seq(L), NEW key,
           Without(one, key) = <<>>
    PROVE  Without(Cat(Cat(a, one), b), key) = Cat(Without(a, key), Without(b, key))
<1> DEFINE w == Without(a, key)
<1>1. \A s, t \in Seq(L) : Without(Cat(s, t), key) = Cat(Without(s, key), Without(t, key))
    BY WithoutCat
<1>2. Cat(a, one) \in Seq(L)
    BY CatType
<1>3. Without(Cat(a, one), key) = Cat(w, <<>>)
    BY <1>1
<1>4. w \in Seq(L)
    BY WithoutType
<1> HIDE DEF w
<1>5. Cat(w, <<>>) = w
    BY ONLY <1>4, ConcatEmptySeq DEF Cat
<1>6. Without(Cat(Cat(a, one), b), key) = Cat(w, Without(b, key))
    BY <1>1, <1>2, <1>3, <1>5
<1> QED BY ONLY <1>6 DEF w

------------------------------------------------------------------------------
(* What an edit does to the lines                                          *)

\* An element of its own in a list without an element twice.
Alone(a, x, b) == /\ \A i \in 1..Len(a) : a[i] # x
                  /\ \A i \in 1..Len(b) : b[i] # x

\* There no element is twice.
LEMMA AloneInList ==
    ASSUME NEW T, NEW a \in Seq(T), NEW x \in T, NEW b \in Seq(T), NEW l, l = (a \o <<x>>) \o b,
           IsInjective(l)
    PROVE  Alone(a, x, b)
<1>1. /\ l \in Seq(T) /\ Len(a) \in Nat /\ Len(b) \in Nat
      /\ Len(l) = Len(a) + 1 + Len(b)
      /\ \A i \in 1..Len(a) : l[i] = a[i]
      /\ l[Len(a) + 1] = x
      /\ \A i \in (Len(a) + 2)..(Len(a) + 1 + Len(b)) : l[i] = b[i - Len(a) - 1]
    <2> DEFINE m == (a \o <<x>>) \o b
    <2>1. /\ m \in Seq(T) /\ Len(a) \in Nat /\ Len(b) \in Nat
          /\ Len(m) = Len(a) + 1 + Len(b)
          /\ \A i \in 1..Len(a) : m[i] = a[i]
          /\ m[Len(a) + 1] = x
          /\ \A i \in (Len(a) + 2)..(Len(a) + 1 + Len(b)) : m[i] = b[i - Len(a) - 1]
        BY ONLY a \in Seq(T), x \in T, b \in Seq(T), ThreeRuns DEF m
    <2>2. l = m
        OBVIOUS
    <2> HIDE DEF m
    <2> QED BY ONLY <2>1, <2>2
<1>2. \A i, j \in 1..Len(l) : l[i] = l[j] => i = j
    BY <1>1, LenProperties DEF IsInjective
<1>3. Len(a) + 1 \in 1..Len(l)
    BY <1>1
<1>4. ASSUME NEW i \in 1..Len(a) PROVE a[i] # x
    <2>1. i \in 1..Len(l) /\ i # Len(a) + 1
        BY <1>1
    <2> QED BY <1>1, <1>2, <1>3, <2>1
<1>5. ASSUME NEW i \in 1..Len(b) PROVE b[i] # x
    <2>1. /\ i + Len(a) + 1 \in (Len(a) + 2)..(Len(a) + 1 + Len(b))
          /\ i + Len(a) + 1 \in 1..Len(l) /\ i + Len(a) + 1 # Len(a) + 1
          /\ (i + Len(a) + 1) - Len(a) - 1 = i
        BY <1>1
    <2> QED BY <1>1, <1>2, <1>3, <2>1
<1> QED BY <1>4, <1>5 DEF Alone

\* d has other values than c in element x alone.
Revalued(d, c, x) ==
    /\ Len(d) = Len(c) /\ d[x].key = c[x].key
    /\ \A y \in Cells(c) : y # x => d[y] = c[y]

\* Elements that stay.
LEMMA LinesStay ==
    ASSUME NEW L, NEW c \in Seq(L), NEW d \in Seq(L), NEW l \in Seq(Cells(c)),
           \A i \in 1..Len(l) : d[l[i]] = c[l[i]]
    PROVE  LinesOf(d, l) = LinesOf(c, l)
<1>1. DOMAIN l = 1..Len(l)
    BY LenProperties
<1> QED BY <1>1 DEF LinesOf

\* The lines around an element.
LEMMA LinesAround ==
    ASSUME NEW L, NEW c \in Seq(L), NEW a \in Seq(Cells(c)), NEW x \in Cells(c),
           NEW b \in Seq(Cells(c))
    PROVE  LinesOf(c, (a \o <<x>>) \o b) = (LinesOf(c, a) \o <<c[x]>>) \o LinesOf(c, b)
<1> DEFINE one == <<x>>
           r == a \o one
<1>1. one \in Seq(Cells(c)) /\ LinesOf(c, one) = <<c[x]>>
    <2>1. DOMAIN one = {1} /\ one[1] = x
        OBVIOUS
    <2>2. LinesOf(c, one) = [i \in {1} |-> c[x]]
        <3> HIDE DEF one
        <3> QED BY <2>1 DEF LinesOf
    <2> QED BY <2>2
<1> HIDE DEF one
<1>2. r \in Seq(Cells(c))
    BY <1>1, ConcatProperties
<1>3. LinesOf(c, r) = LinesOf(c, a) \o LinesOf(c, one)
    BY <1>1, LinesConcat
<1> HIDE DEF r
<1>4. LinesOf(c, r \o b) = LinesOf(c, r) \o LinesOf(c, b)
    BY <1>2, LinesConcat
<1> QED BY <1>1, <1>3, <1>4 DEF r, one

\* A line of the name may go: the others are the same.
LEMMA EditRemoves ==
    ASSUME NEW L, NEW c \in Seq(L), NEW a \in Seq(Cells(c)), NEW x \in Cells(c),
           NEW b \in Seq(Cells(c)), NEW key, c[x].key = key
    PROVE  Without(LinesOf(c, (a \o <<x>>) \o b), key) = Without(LinesOf(c, a \o b), key)
<1> DEFINE s == LinesOf(c, a)
           t == LinesOf(c, b)
<1>1. s \in Seq(L) /\ t \in Seq(L) /\ c[x] \in L
    BY LinesType, ElementOfSeq DEF Cells
<1>2. LinesOf(c, (a \o <<x>>) \o b) = (s \o <<c[x]>>) \o t
    BY LinesAround
<1>3. LinesOf(c, a \o b) = s \o t
    BY LinesConcat
<1> HIDE DEF s, t
<1>4. Without((s \o <<c[x]>>) \o t, key) = Without(s, key) \o Without(t, key)
    <2> DEFINE one == <<c[x]>>
    <2>1. one \in Seq(L) /\ Without(one, key) = <<>>
        BY <1>1, WithoutOne
    <2>2. s \in Seq(L) /\ t \in Seq(L)
        BY <1>1
    <2> HIDE DEF one
    <2>3. Without((s \o one) \o t, key) = Without(s, key) \o Without(t, key)
        <3>1. Without(Cat(Cat(s, one), t), key) = Cat(Without(s, key), Without(t, key))
            BY ONLY <2>1, <2>2, WithoutAround
        <3> QED BY ONLY <3>1 DEF Cat
    <2> QED BY <2>3 DEF one
<1>5. Without(s \o t, key) = Without(s, key) \o Without(t, key)
    <2>1. Without(Cat(s, t), key) = Cat(Without(s, key), Without(t, key))
        BY ONLY <1>1, WithoutCat
    <2> QED BY ONLY <2>1 DEF Cat
<1> QED BY <1>2, <1>3, <1>4, <1>5

\* It may get another value: then it has that in its place, and the others are the same.
LEMMA EditRevalues ==
    ASSUME NEW L, NEW c \in Seq(L), NEW a \in Seq(Cells(c)), NEW x \in Cells(c),
           NEW b \in Seq(Cells(c)), Alone(a, x, b), NEW d \in Seq(L), Revalued(d, c, x),
           NEW key, c[x].key = key
    PROVE  /\ LinesOf(d, (a \o <<x>>) \o b)
                = [LinesOf(c, (a \o <<x>>) \o b) EXCEPT ![Len(a) + 1] = d[x]]
           /\ Without(LinesOf(d, (a \o <<x>>) \o b), key)
                = Without(LinesOf(c, (a \o <<x>>) \o b), key)
<1> DEFINE s == LinesOf(c, a)
           t == LinesOf(c, b)
<1>0. Cells(d) = Cells(c)
    BY DEF Cells, Revalued
<1>1. s \in Seq(L) /\ t \in Seq(L) /\ c[x] \in L /\ d[x] \in L
    BY <1>0, LinesType, ElementOfSeq DEF Cells
<1>2. LinesOf(c, (a \o <<x>>) \o b) = (s \o <<c[x]>>) \o t
    BY LinesAround
<1>3. LinesOf(d, (a \o <<x>>) \o b) = (s \o <<d[x]>>) \o t
    <2>1. \A i \in 1..Len(a) : d[a[i]] = c[a[i]]
        BY ElementOfSeq DEF Alone, Revalued
    <2>2. \A i \in 1..Len(b) : d[b[i]] = c[b[i]]
        BY ElementOfSeq DEF Alone, Revalued
    <2>3. LinesOf(d, a) = s /\ LinesOf(d, b) = t
        BY <2>1, <2>2, LinesStay
    <2>4. LinesOf(d, (a \o <<x>>) \o b) = (LinesOf(d, a) \o <<d[x]>>) \o LinesOf(d, b)
        <3>1. /\ a \in Seq(Cells(d)) /\ b \in Seq(Cells(d)) /\ x \in Cells(d) /\ d \in Seq(L)
            BY <1>0
        <3> QED BY ONLY <3>1, LinesAround
    <2> QED BY <2>3, <2>4
<1>4. Len(a) = Len(s)
    BY LinesType
<1> HIDE DEF s, t
<1>5. (s \o <<d[x]>>) \o t = [(s \o <<c[x]>>) \o t EXCEPT ![Len(a) + 1] = d[x]]
    <2> DEFINE u == (s \o <<c[x]>>) \o t
               v == (s \o <<d[x]>>) \o t
    <2>0. \A y \in L :
            LET z == (s \o <<y>>) \o t
            IN  /\ z \in Seq(L) /\ Len(s) \in Nat /\ Len(t) \in Nat /\ Len(z) = Len(s) + 1 + Len(t)
                /\ \A i \in 1..Len(s) : z[i] = s[i]
                /\ z[Len(s) + 1] = y
                /\ \A i \in (Len(s) + 2)..(Len(s) + 1 + Len(t)) : z[i] = t[i - Len(s) - 1]
        BY ONLY <1>1, ThreeRuns
    <2>1. /\ u \in Seq(L) /\ Len(s) \in Nat /\ Len(t) \in Nat /\ Len(u) = Len(s) + 1 + Len(t)
          /\ \A i \in 1..Len(s) : u[i] = s[i]
          /\ u[Len(s) + 1] = c[x]
          /\ \A i \in (Len(s) + 2)..(Len(s) + 1 + Len(t)) : u[i] = t[i - Len(s) - 1]
        BY ONLY <1>1, <2>0
    <2>2. /\ v \in Seq(L) /\ Len(v) = Len(s) + 1 + Len(t)
          /\ \A i \in 1..Len(s) : v[i] = s[i]
          /\ v[Len(s) + 1] = d[x]
          /\ \A i \in (Len(s) + 2)..(Len(s) + 1 + Len(t)) : v[i] = t[i - Len(s) - 1]
        BY ONLY <1>1, <2>0
    <2> HIDE DEF u, v
    <2> DEFINE w == [u EXCEPT ![Len(s) + 1] = d[x]]
    <2>3. Len(s) + 1 \in 1..Len(u)
        BY <2>1
    <2>4. /\ w \in Seq(L) /\ Len(w) = Len(u)
          /\ \A j \in 1..Len(u) : w[j] = IF j = Len(s) + 1 THEN d[x] ELSE u[j]
        BY <1>1, <2>1, <2>3, ExceptSeq
    <2> HIDE DEF w
    <2>5. ASSUME NEW i \in 1..Len(v) PROVE v[i] = w[i]
        <3>1. i \in 1..Len(s) \/ i = Len(s) + 1 \/ i \in (Len(s) + 2)..(Len(s) + 1 + Len(t))
            BY <2>1, <2>2
        <3>2. i \in 1..Len(u) /\ (i # Len(s) + 1 => w[i] = u[i])
            BY <2>1, <2>2, <2>4
        <3> QED BY <2>1, <2>2, <2>3, <2>4, <3>1, <3>2
    <2>6. v = w
        BY <2>1, <2>2, <2>4, <2>5, SeqEqual
    <2> QED BY <1>4, <2>6 DEF u, v, w
<1>6. d[x].key = key
    BY DEF Revalued
<1>7. Without(LinesOf(d, (a \o <<x>>) \o b), key) = Without(LinesOf(c, (a \o <<x>>) \o b), key)
    <2>1. Without(LinesOf(c, (a \o <<x>>) \o b), key) = Without(LinesOf(c, a \o b), key)
        BY EditRemoves
    <2>2. Without(LinesOf(d, (a \o <<x>>) \o b), key) = Without(LinesOf(d, a \o b), key)
        <3>1. /\ a \in Seq(Cells(d)) /\ b \in Seq(Cells(d)) /\ x \in Cells(d) /\ d \in Seq(L)
              /\ d[x].key = key
            BY <1>0, <1>6
        <3> QED BY ONLY <3>1, EditRemoves
    <2>3. LinesOf(d, a \o b) = LinesOf(c, a \o b)
        <3> DEFINE l == a \o b
        <3>1. /\ l \in Seq(Cells(c)) /\ Len(l) = Len(a) + Len(b) /\ Len(a) \in Nat /\ Len(b) \in Nat
              /\ \A i \in 1..(Len(a) + Len(b)) : l[i] = IF i <= Len(a) THEN a[i] ELSE b[i - Len(a)]
            BY ConcatProperties, LenProperties
        <3> HIDE DEF l
        <3>2. \A i \in 1..Len(l) : i \in 1..Len(a) \/ (~(i <= Len(a)) /\ i - Len(a) \in 1..Len(b))
            BY <3>1
        <3>3. \A i \in 1..Len(l) : l[i] # x /\ l[i] \in Cells(c)
            BY <3>1, <3>2, ElementOfSeq DEF Alone
        <3>4. \A i \in 1..Len(l) : d[l[i]] = c[l[i]]
            BY <3>3 DEF Revalued
        <3>5. LinesOf(d, l) = LinesOf(c, l)
            BY ONLY <3>1, <3>4, c \in Seq(L), d \in Seq(L), LinesStay
        <3> QED BY <3>5 DEF l
    <2> QED BY <2>1, <2>2, <2>3
<1> QED BY <1>2, <1>3, <1>5, <1>7

------------------------------------------------------------------------------
(* The elements of the list, part by part                                  *)

CellsOf(ps) == [p \in DOMAIN ps |-> ps[p].cells]

\* The runs of elements of the parts.
LEMMA CellsOfType ==
    ASSUME NEW ps \in Seq(Part), NEW T, \A p \in 1..Len(ps) : ps[p].cells \in Seq(T)
    PROVE  /\ CellsOf(ps) \in Seq(Seq(T)) /\ Len(CellsOf(ps)) = Len(ps) /\ Len(ps) \in Nat
           /\ \A p \in 1..Len(ps) : CellsOf(ps)[p] = ps[p].cells
           /\ ListedIn(ps) = FlattenSeq(CellsOf(ps))
<1>1. DOMAIN ps = 1..Len(ps) /\ Len(ps) \in Nat
    BY LenProperties
<1>2. CellsOf(ps) \in Seq(Seq(T)) /\ Len(CellsOf(ps)) = Len(ps)
    BY <1>1 DEF CellsOf
<1> QED BY <1>1, <1>2 DEF CellsOf, ListedIn

\* A part has elements.
LEMMA PartCells ==
    ASSUME NEW ps \in Seq(Part)
    PROVE  \A p \in 1..Len(ps) : ps[p] \in Part /\ ps[p].cells \in Seq(Nat)
<1>1. \A p \in 1..Len(ps) : ps[p] \in Part
    BY ElementOfSeq
<1> QED BY <1>1 DEF Part

\* The elements come from the parts.
LEMMA ListedType ==
    ASSUME NEW ps \in Seq(Part), NEW T, \A p \in 1..Len(ps) : ps[p].cells \in Seq(T)
    PROVE  ListedIn(ps) \in Seq(T)
BY CellsOfType, FlattenType

\* So has a list of parts.
LEMMA ListedNat ==
    ASSUME NEW ps \in Seq(Part)
    PROVE  ListedIn(ps) \in Seq(Nat)
BY PartCells, ListedType

\* The elements of two rows of parts.
LEMMA ListedConcat ==
    ASSUME NEW a \in Seq(Part), NEW b \in Seq(Part)
    PROVE  ListedIn(a \o b) = ListedIn(a) \o ListedIn(b)
<1> DEFINE ps == a \o b
           ca == CellsOf(a)
           cb == CellsOf(b)
           cs == CellsOf(ps)
           S == Seq(Nat)
<1>1. /\ ps \in Seq(Part) /\ Len(ps) = Len(a) + Len(b)
      /\ \A i \in 1..(Len(a) + Len(b)) : ps[i] = IF i <= Len(a) THEN a[i] ELSE b[i - Len(a)]
    BY ConcatProperties
<1>2. /\ ca \in Seq(S) /\ Len(ca) = Len(a) /\ Len(a) \in Nat
      /\ \A p \in 1..Len(a) : ca[p] = a[p].cells
      /\ ListedIn(a) = FlattenSeq(ca)
    BY PartCells, CellsOfType
<1>3. /\ cb \in Seq(S) /\ Len(cb) = Len(b) /\ Len(b) \in Nat
      /\ \A p \in 1..Len(b) : cb[p] = b[p].cells
      /\ ListedIn(b) = FlattenSeq(cb)
    BY PartCells, CellsOfType
<1>4. /\ cs \in Seq(S) /\ Len(cs) = Len(ps)
      /\ \A p \in 1..Len(ps) : cs[p] = ps[p].cells
      /\ ListedIn(ps) = FlattenSeq(cs)
    <2> HIDE DEF ps
    <2> QED BY <1>1, PartCells, CellsOfType
<1> HIDE DEF ps, ca, cb, cs, S
<1>5. /\ ca \o cb \in Seq(S) /\ Len(ca \o cb) = Len(ca) + Len(cb)
      /\ \A i \in 1..(Len(ca) + Len(cb)) :
            (ca \o cb)[i] = IF i <= Len(ca) THEN ca[i] ELSE cb[i - Len(ca)]
    <2>1. ca \in Seq(S) /\ cb \in Seq(S)
        BY <1>2, <1>3
    <2> QED BY ONLY <2>1, ConcatProperties
<1>6. ASSUME NEW i \in 1..Len(cs) PROVE cs[i] = (ca \o cb)[i]
    <2>1. i \in 1..(Len(a) + Len(b)) /\ i \in 1..Len(ps) /\ i \in 1..(Len(ca) + Len(cb))
        BY <1>1, <1>2, <1>3, <1>4
    <2>2. CASE i <= Len(a)
        <3>1. i \in 1..Len(a) /\ i <= Len(ca)
            BY <1>2, <2>1, <2>2
        <3>2. ps[i] = a[i] /\ cs[i] = ps[i].cells /\ (ca \o cb)[i] = ca[i] /\ ca[i] = a[i].cells
            BY <1>1, <1>2, <1>4, <1>5, <2>1, <2>2, <3>1
        <3> QED BY <3>2
    <2>3. CASE ~(i <= Len(a))
        <3>1. i - Len(a) \in 1..Len(b) /\ ~(i <= Len(ca)) /\ i - Len(ca) = i - Len(a)
            BY <1>2, <1>3, <2>1, <2>3
        <3>2. ps[i] = b[i - Len(a)] /\ cs[i] = ps[i].cells /\ (ca \o cb)[i] = cb[i - Len(a)]
              /\ cb[i - Len(a)] = b[i - Len(a)].cells
            BY <1>1, <1>3, <1>4, <1>5, <2>1, <2>3, <3>1
        <3> QED BY <3>2
    <2> QED BY <2>2, <2>3
<1>7. Len(cs) = Len(ca \o cb)
    BY <1>1, <1>2, <1>3, <1>4, <1>5
<1>8. cs = ca \o cb
    BY <1>4, <1>5, <1>6, <1>7, SeqEqual
<1>9. FlattenSeq(ca \o cb) = FlattenSeq(ca) \o FlattenSeq(cb)
    BY <1>2, <1>3, FlattenConcat DEF S
<1> QED BY <1>2, <1>3, <1>4, <1>8, <1>9 DEF ps

\* The elements of one part.
LEMMA ListedOfOne ==
    ASSUME NEW q \in Part
    PROVE  ListedIn(<<q>>) = q.cells
<1> DEFINE ps == <<q>>
<1>1. ps \in Seq(Part) /\ DOMAIN ps = {1} /\ ps[1] = q /\ q.cells \in Seq(Nat)
    BY DEF Part
<1> HIDE DEF ps
<1>2. CellsOf(ps) = [p \in {1} |-> q.cells]
    BY <1>1 DEF CellsOf
<1>3. CellsOf(ps) = <<q.cells>>
    BY <1>2
<1>4. FlattenSeq(<<q.cells>>) = q.cells
    BY <1>1, FlattenOne
<1>5. ListedIn(ps) = FlattenSeq(CellsOf(ps))
    BY Zenon DEF ListedIn, CellsOf
<1> QED BY <1>3, <1>4, <1>5 DEF ps

\* One part between two rows.
LEMMA ListedAround ==
    ASSUME NEW a \in Seq(Part), NEW q \in Part, NEW b \in Seq(Part), NEW ps,
           ps = Cat(Cat(a, <<q>>), b)
    PROVE  ListedIn(ps) = Cat(Cat(ListedIn(a), q.cells), ListedIn(b))
<1> DEFINE one == <<q>>
           r == a \o one
<1>1. one \in Seq(Part) /\ ListedIn(one) = q.cells
    BY ListedOfOne
<1> HIDE DEF one
<1>2. r \in Seq(Part)
    BY <1>1, ConcatProperties
<1>3. ListedIn(r) = ListedIn(a) \o ListedIn(one)
    BY <1>1, ListedConcat
<1> HIDE DEF r
<1>4. ListedIn(r \o b) = ListedIn(r) \o ListedIn(b)
    BY <1>2, ListedConcat
<1>5. ListedIn(Cat(r, b)) = Cat(ListedIn(r), ListedIn(b))
    BY ONLY <1>4 DEF Cat
<1>6. ListedIn(r) = Cat(ListedIn(a), q.cells)
    BY ONLY <1>1, <1>3 DEF Cat
<1>7. ps = Cat(r, b)
    <2>1. r = Cat(a, <<q>>)
        BY ONLY TRUE DEF r, one, Cat
    <2>2. ps = Cat(Cat(a, <<q>>), b)
        OBVIOUS
    <2> QED BY ONLY <2>1, <2>2
<1> QED BY ONLY <1>5, <1>6, <1>7

\* The parts before and behind one.
Ahead(ps, p) == SubSeq(ps, 1, p - 1)
Rest(ps, p) == SubSeq(ps, p + 1, Len(ps))

\* They are the same if that one is replaced.
LEMMA ReplacedAround ==
    ASSUME NEW ps \in Seq(Part), NEW p \in 1..Len(ps), NEW q \in Part
    PROVE  LET new == [ps EXCEPT ![p] = q]
           IN  /\ new \in Seq(Part) /\ Len(new) = Len(ps) /\ new[p] = q
               /\ Ahead(new, p) = Ahead(ps, p) /\ Rest(new, p) = Rest(ps, p)
<1> DEFINE new == [ps EXCEPT ![p] = q]
<1>0. Len(ps) \in Nat /\ p \in Nat
    BY LenProperties
<1>1. /\ new \in Seq(Part) /\ Len(new) = Len(ps)
      /\ \A j \in 1..Len(ps) : new[j] = IF j = p THEN q ELSE ps[j]
    BY ExceptSeq
<1> HIDE DEF new
<1>2. p \in 1..Len(new)
    BY <1>1
<1>3. /\ Ahead(new, p) \in Seq(Part) /\ Len(Ahead(new, p)) = p - 1
      /\ \A j \in 1..(p - 1) : Ahead(new, p)[j] = new[j]
    BY <1>1, <1>2, AroundElement DEF Ahead
<1>4. /\ Ahead(ps, p) \in Seq(Part) /\ Len(Ahead(ps, p)) = p - 1
      /\ \A j \in 1..(p - 1) : Ahead(ps, p)[j] = ps[j]
    BY AroundElement DEF Ahead
<1>5. /\ Rest(new, p) \in Seq(Part) /\ Len(Rest(new, p)) = Len(new) - p
      /\ \A j \in 1..(Len(new) - p) : Rest(new, p)[j] = new[p + j]
    BY <1>1, <1>2, SubSeqBehind DEF Rest
<1>6. /\ Rest(ps, p) \in Seq(Part) /\ Len(Rest(ps, p)) = Len(ps) - p
      /\ \A j \in 1..(Len(ps) - p) : Rest(ps, p)[j] = ps[p + j]
    BY SubSeqBehind DEF Rest
<1>7. Ahead(new, p) = Ahead(ps, p)
    <2>1. \A j \in 1..(p - 1) : j \in 1..Len(ps) /\ j # p
        BY <1>0
    <2>2. \A j \in 1..(p - 1) : Ahead(new, p)[j] = Ahead(ps, p)[j]
        BY <1>1, <1>3, <1>4, <2>1
    <2> QED BY <1>3, <1>4, <2>2, SeqEqual
<1>8. Rest(new, p) = Rest(ps, p)
    <2>1. \A j \in 1..(Len(ps) - p) : p + j \in 1..Len(ps) /\ p + j # p
        BY <1>0
    <2>2. \A j \in 1..(Len(ps) - p) : Rest(new, p)[j] = Rest(ps, p)[j]
        BY <1>1, <1>5, <1>6, <2>1
    <2> QED BY <1>1, <1>5, <1>6, <2>2, SeqEqual
<1> QED BY <1>0, <1>1, <1>7, <1>8 DEF new

\* ps is q between two rows of parts.
Between(ps, a, q, b) ==
    /\ a \in Seq(Part) /\ q \in Part /\ b \in Seq(Part)
    /\ ps = Cat(Cat(a, <<q>>), b)

\* Its elements are between theirs.
LEMMA ListedBetween ==
    ASSUME NEW ps, NEW a, NEW q, NEW b, Between(ps, a, q, b)
    PROVE  ListedIn(ps) = Cat(Cat(ListedIn(a), q.cells), ListedIn(b))
<1>1. a \in Seq(Part) /\ q \in Part /\ b \in Seq(Part) /\ ps = Cat(Cat(a, <<q>>), b)
    BY DEF Between
<1> QED BY ONLY <1>1, ListedAround

\* A list with one part replaced.
LEMMA ListedReplaced ==
    ASSUME NEW ps \in Seq(Part), NEW p \in 1..Len(ps), NEW q \in Part, NEW new,
           new = [ps EXCEPT ![p] = q]
    PROVE  /\ ListedIn(new) = (ListedIn(Ahead(ps, p)) \o q.cells) \o ListedIn(Rest(ps, p))
           /\ Ahead(ps, p) \in Seq(Part) /\ Rest(ps, p) \in Seq(Part)
<1>1. /\ new \in Seq(Part) /\ Len(new) = Len(ps) /\ new[p] = q
      /\ Ahead(new, p) = Ahead(ps, p) /\ Rest(new, p) = Rest(ps, p)
    BY ReplacedAround, Zenon
<1>2. /\ new = (Ahead(new, p) \o <<new[p]>>) \o Rest(new, p)
      /\ Ahead(new, p) \in Seq(Part) /\ Rest(new, p) \in Seq(Part)
    BY <1>1, AroundElement, Zenon DEF Ahead, Rest
<1>3. new = Cat(Cat(Ahead(ps, p), <<q>>), Rest(ps, p))
    <2>1. new = Cat(Cat(Ahead(new, p), <<new[p]>>), Rest(new, p))
        BY ONLY <1>2 DEF Cat
    <2> QED BY ONLY <1>1, <2>1
<1>4. Ahead(ps, p) \in Seq(Part) /\ Rest(ps, p) \in Seq(Part)
    BY <1>1, <1>2
<1>5. Between(new, Ahead(ps, p), q, Rest(ps, p))
    BY <1>3, <1>4 DEF Between
<1>6. ListedIn(new) = (ListedIn(Ahead(ps, p)) \o q.cells) \o ListedIn(Rest(ps, p))
    <2>1. ListedIn(new) = Cat(Cat(ListedIn(Ahead(ps, p)), q.cells), ListedIn(Rest(ps, p)))
        BY ONLY <1>5, ListedBetween
    <2> QED BY ONLY <2>1 DEF Cat
<1> QED BY <1>4, <1>6

\* A list around one of its parts.
LEMMA ListedAt ==
    ASSUME NEW ps \in Seq(Part), NEW p \in 1..Len(ps)
    PROVE  ListedIn(ps) = (ListedIn(Ahead(ps, p)) \o ps[p].cells) \o ListedIn(Rest(ps, p))
<1>1. ps = [ps EXCEPT ![p] = ps[p]] /\ ps[p] \in Part
    BY LenProperties, ElementOfSeq
<1> QED BY <1>1, ListedReplaced

\* A list with one part in the place of one, and another behind it.
LEMMA ListedSplit ==
    ASSUME NEW ps \in Seq(Part), NEW p \in 1..Len(ps), NEW cut \in Part, NEW q \in Part, NEW new,
           new = InsertAt([ps EXCEPT ![p] = cut], p + 1, q)
    PROVE  ListedIn(new)
             = Cat(Cat(Cat(ListedIn(Ahead(ps, p)), cut.cells), q.cells), ListedIn(Rest(ps, p)))
<1> DEFINE mid == [ps EXCEPT ![p] = cut]
           f == SubSeq(mid, 1, p)
<1>0. p \in Nat /\ Len(ps) \in Nat /\ p \in Int
    BY LenProperties
<1>1. /\ mid \in Seq(Part) /\ Len(mid) = Len(ps) /\ mid[p] = cut
      /\ Ahead(mid, p) = Ahead(ps, p) /\ Rest(mid, p) = Rest(ps, p)
    BY ReplacedAround
<1>2. new = InsertAt(mid, p + 1, q)
    OBVIOUS
<1> HIDE DEF mid
<1>3. f = Ahead(mid, p) \o <<mid[p]>>
    <2>1. 1 \in 1..Len(mid) /\ p \in 1..Len(mid)
        BY <1>0, <1>1
    <2> QED BY <1>1, <2>1, SubSeqRecursiveSecond DEF Ahead
<1>4. Ahead(ps, p) \in Seq(Part) /\ Rest(ps, p) \in Seq(Part)
    BY AroundElement DEF Ahead, Rest
<1>5. f = Ahead(ps, p) \o <<cut>>
    BY <1>1, <1>3
<1>6. new = (f \o <<q>>) \o Rest(ps, p)
    <2>1. (p + 1) - 1 = p
        BY <1>0
    <2> HIDE DEF f
    <2> QED BY <1>1, <1>2, <2>1 DEF InsertAt, f, Rest
<1> HIDE DEF f
<1>7. f \in Seq(Part) /\ ListedIn(f) = ListedIn(Ahead(ps, p)) \o cut.cells
    <2> DEFINE one == <<cut>>
    <2>1. one \in Seq(Part) /\ ListedIn(one) = cut.cells
        BY ListedOfOne
    <2> HIDE DEF one
    <2>2. f = Ahead(ps, p) \o one
        BY <1>5 DEF one
    <2>3. Ahead(ps, p) \o one \in Seq(Part)
        BY <1>4, <2>1, ConcatProperties
    <2>4. ListedIn(Ahead(ps, p) \o one) = ListedIn(Ahead(ps, p)) \o ListedIn(one)
        BY <1>4, <2>1, ListedConcat
    <2> QED BY <2>1, <2>2, <2>3, <2>4
<1>8. ListedIn(new) = Cat(Cat(ListedIn(f), q.cells), ListedIn(Rest(ps, p)))
    <2>1. new = Cat(Cat(f, <<q>>), Rest(ps, p))
        BY ONLY <1>6 DEF Cat
    <2>2. Between(new, f, q, Rest(ps, p))
        BY ONLY <1>4, <1>7, <2>1, q \in Part DEF Between
    <2> QED BY ONLY <2>2, ListedBetween
<1>9. ListedIn(f) = Cat(ListedIn(Ahead(ps, p)), cut.cells)
    BY ONLY <1>7 DEF Cat
<1> QED BY ONLY <1>8, <1>9

\* A list with one part taken out.
LEMMA ListedTaken ==
    ASSUME NEW ps \in Seq(Part), NEW p \in 1..Len(ps), NEW new, new = RemoveAt(ps, p)
    PROVE  ListedIn(new) = ListedIn(Ahead(ps, p)) \o ListedIn(Rest(ps, p))
<1>1. Ahead(ps, p) \in Seq(Part) /\ Rest(ps, p) \in Seq(Part)
    BY AroundElement DEF Ahead, Rest
<1>2. new = Ahead(ps, p) \o Rest(ps, p)
    BY DEF RemoveAt, Ahead, Rest
<1> QED BY <1>1, <1>2, ListedConcat

------------------------------------------------------------------------------
(* The list around an element, and without it                              *)

\* The elements in the list have been made.
LEMMA PlacedCells ==
    ASSUME NEW ps \in Seq(Part), NEW c, Distinct(ps, Len(c))
    PROVE  /\ \A p \in 1..Len(ps) : ps[p].cells \in Seq(Cells(c))
           /\ ListedIn(ps) \in Seq(Cells(c))
<1>1. \A p \in 1..Len(ps) : ps[p].cells \in Seq(Nat)
    BY PartCells
<1>2. \A p \in 1..Len(ps) : ps[p].cells \in Seq(Cells(c))
    <2> TAKE p \in 1..Len(ps)
    <2> DEFINE s == ps[p].cells
    <2>1. s \in Seq(Nat) /\ \A i \in 1..Len(s) : s[i] \in Cells(c)
        BY <1>1 DEF Distinct, Cells
    <2> HIDE DEF s
    <2>2. s \in Seq(Cells(c))
        BY <2>1, SeqDef, LenProperties
    <2> QED BY <2>2 DEF s
<1> QED BY <1>2, ListedType

\* The elements before and behind element i of part p.
Before(p, i) == ListedIn(Ahead(parts, p)) \o SubSeq(parts[p].cells, 1, i - 1)
Beyond(p, i) ==
    SubSeq(parts[p].cells, i + 1, Len(parts[p].cells)) \o ListedIn(Rest(parts, p))

\* The four runs they are made of.
LEMMA AroundTypes ==
    ASSUME parts \in Seq(Part), Distinct(parts, Len(cell)), NEW p \in 1..Len(parts),
           NEW i \in 1..Len(parts[p].cells)
    PROVE  /\ parts[p].cells \in Seq(Cells(cell)) /\ parts[p].cells[i] \in Cells(cell)
           /\ ListedIn(Ahead(parts, p)) \in Seq(Cells(cell))
           /\ SubSeq(parts[p].cells, 1, i - 1) \in Seq(Cells(cell))
           /\ SubSeq(parts[p].cells, i + 1, Len(parts[p].cells)) \in Seq(Cells(cell))
           /\ ListedIn(Rest(parts, p)) \in Seq(Cells(cell))
           /\ Before(p, i) \in Seq(Cells(cell)) /\ Beyond(p, i) \in Seq(Cells(cell))
<1>1. \A q \in 1..Len(parts) : parts[q].cells \in Seq(Cells(cell))
    BY PlacedCells
<1>2. Ahead(parts, p) \in Seq(Part) /\ Rest(parts, p) \in Seq(Part)
    BY AroundElement DEF Ahead, Rest
<1>3. /\ \A q \in 1..Len(Ahead(parts, p)) : q \in 1..Len(parts) /\ Ahead(parts, p)[q] = parts[q]
      /\ \A q \in 1..Len(Rest(parts, p)) :
            p + q \in 1..Len(parts) /\ Rest(parts, p)[q] = parts[p + q]
    <2>1. Len(parts) \in Nat /\ p \in Nat
        BY LenProperties
    <2>2. Len(Ahead(parts, p)) = p - 1 /\ \A q \in 1..(p - 1) : Ahead(parts, p)[q] = parts[q]
        BY AroundElement DEF Ahead
    <2>3. /\ Len(Rest(parts, p)) = Len(parts) - p
          /\ \A q \in 1..(Len(parts) - p) : Rest(parts, p)[q] = parts[p + q]
        BY SubSeqBehind DEF Rest
    <2>4. /\ \A q \in 1..(p - 1) : q \in 1..Len(parts)
          /\ \A q \in 1..(Len(parts) - p) : p + q \in 1..Len(parts)
        BY ONLY <2>1, p \in 1..Len(parts)
    <2> QED BY <2>2, <2>3, <2>4
<1>4. ListedIn(Ahead(parts, p)) \in Seq(Cells(cell))
    <2>1. \A q \in 1..Len(Ahead(parts, p)) : Ahead(parts, p)[q].cells \in Seq(Cells(cell))
        BY <1>1, <1>3
    <2> QED BY ONLY <1>2, <2>1, ListedType
<1>5. ListedIn(Rest(parts, p)) \in Seq(Cells(cell))
    <2>1. \A q \in 1..Len(Rest(parts, p)) : Rest(parts, p)[q].cells \in Seq(Cells(cell))
        BY <1>1, <1>3
    <2> QED BY ONLY <1>2, <2>1, ListedType
<1>6. parts[p].cells \in Seq(Cells(cell))
    BY <1>1
<1>7. /\ SubSeq(parts[p].cells, 1, i - 1) \in Seq(Cells(cell))
      /\ SubSeq(parts[p].cells, i + 1, Len(parts[p].cells)) \in Seq(Cells(cell))
    BY ONLY <1>6, i \in 1..Len(parts[p].cells), AroundElement
<1>8. parts[p].cells[i] \in Cells(cell)
    BY ONLY <1>6, i \in 1..Len(parts[p].cells), ElementOfSeq
<1>9. Before(p, i) \in Seq(Cells(cell))
    BY ONLY <1>4, <1>7, ConcatProperties DEF Before
<1>10. Beyond(p, i) \in Seq(Cells(cell))
    BY ONLY <1>5, <1>7, ConcatProperties DEF Beyond
<1> QED BY <1>4, <1>5, <1>6, <1>7, <1>8, <1>9, <1>10

\* Runs that join.
Joined(S, a, h, x, t, b) ==
    a \in Seq(S) /\ h \in Seq(S) /\ x \in S /\ t \in Seq(S) /\ b \in Seq(S)

\* A run inside the second of three runs, as the second of three.
LEMMA Rejoined ==
    ASSUME NEW S, NEW a, NEW h, NEW x, NEW t, NEW b, Joined(S, a, h, x, t, b)
    PROVE  (a \o ((h \o <<x>>) \o t)) \o b = ((a \o h) \o <<x>>) \o (t \o b)
<1> DEFINE one == <<x>>
           m == Cat(Cat(a, h), one)
<1>1. a \in Seq(S) /\ h \in Seq(S) /\ x \in S /\ t \in Seq(S) /\ b \in Seq(S)
    BY DEF Joined
<1>2. Cat(a, Cat(Cat(h, one), t)) = Cat(m, t)
    BY ONLY <1>1, SecondRun
<1>3. one \in Seq(S)
    BY <1>1
<1> HIDE DEF one
<1>4. m \in Seq(S)
    <2>1. Cat(a, h) \in Seq(S)
        BY ONLY <1>1, CatType
    <2> QED BY ONLY <1>3, <2>1, CatType
<1> HIDE DEF m
<1>5. Cat(Cat(m, t), b) = Cat(m, Cat(t, b))
    BY ONLY <1>1, <1>4, CatAssociative
<1>6. Cat(Cat(a, Cat(Cat(h, one), t)), b) = Cat(m, Cat(t, b))
    BY ONLY <1>2, <1>5
<1> QED BY ONLY <1>6 DEF Cat, m, one

\* The list is what is before an element, the element, and what is behind it.
LEMMA ListedHere ==
    ASSUME parts \in Seq(Part), Distinct(parts, Len(cell)), NEW p \in 1..Len(parts),
           NEW i \in 1..Len(parts[p].cells)
    PROVE  Listed = (Before(p, i) \o <<parts[p].cells[i]>>) \o Beyond(p, i)
<1> DEFINE a == ListedIn(Ahead(parts, p))
           h == SubSeq(parts[p].cells, 1, i - 1)
           x == parts[p].cells[i]
           t == SubSeq(parts[p].cells, i + 1, Len(parts[p].cells))
           b == ListedIn(Rest(parts, p))
           S == Cells(cell)
<1>1. a \in Seq(S) /\ h \in Seq(S) /\ x \in S /\ t \in Seq(S) /\ b \in Seq(S)
    BY AroundTypes
<1>2. parts[p].cells = (h \o <<x>>) \o t
    <2>1. parts[p].cells \in Seq(S)
        BY AroundTypes
    <2> QED BY ONLY <2>1, i \in 1..Len(parts[p].cells), AroundElement
<1>3. Listed = (a \o parts[p].cells) \o b
    BY ListedAt DEF Listed
<1>4. Listed = (a \o ((h \o <<x>>) \o t)) \o b
    BY ONLY <1>2, <1>3
<1> HIDE DEF a, h, x, t, b, S
<1>5. Joined(S, a, h, x, t, b)
    BY <1>1 DEF Joined
<1>6. Listed = ((a \o h) \o <<x>>) \o (t \o b)
    <2>1. (a \o ((h \o <<x>>) \o t)) \o b = ((a \o h) \o <<x>>) \o (t \o b)
        BY ONLY <1>5, Rejoined
    <2> QED BY ONLY <1>4, <2>1
<1> QED BY ONLY <1>6 DEF Before, Beyond, a, h, x, t, b

\* Four runs that join.
Apart(S, a, h, t, b) ==
    a \in Seq(S) /\ h \in Seq(S) /\ t \in Seq(S) /\ b \in Seq(S)

\* The last two of four runs that join, joined first.
LEMMA Regrouped ==
    ASSUME NEW S, NEW a, NEW h, NEW t, NEW b, Apart(S, a, h, t, b)
    PROVE  ((a \o h) \o t) \o b = (a \o h) \o (t \o b)
<1> DEFINE k == a \o h
<1>1. k \in Seq(S)
    BY ConcatProperties DEF Apart
<1>2. t \in Seq(S) /\ b \in Seq(S)
    BY DEF Apart
<1> HIDE DEF k
<1>3. (k \o t) \o b = k \o (t \o b)
    BY ONLY <1>1, <1>2, ConcatAssociative
<1> QED BY <1>3 DEF k

\* A removal that succeeds leaves what is before the element and what is behind it.
LEMMA RemovalTakes ==
    ASSUME ListOK(parts, nalloc), Distinct(parts, Len(cell)), NEW p \in 1..Len(parts),
           NEW i \in 1..Len(parts[p].cells), NEW o \in Removals(p, i), o.ok
    PROVE  ListedIn(o.parts) = Before(p, i) \o Beyond(p, i)
<1> DEFINE old == parts[p]
           len == Len(old.cells)
           a == ListedIn(Ahead(parts, p))
           h == SubSeq(old.cells, 1, i - 1)
           t == SubSeq(old.cells, i + 1, len)
           b == ListedIn(Rest(parts, p))
           S == Cells(cell)
<1>0. parts \in Seq(Part) /\ old \in Part /\ Len(parts) \in Nat /\ p \in Nat
    BY LenProperties, ElementOfSeq DEF ListOK
<1>1. a \in Seq(S) /\ h \in Seq(S) /\ t \in Seq(S) /\ b \in Seq(S) /\ old.cells \in Seq(S)
    BY <1>0, AroundTypes
<1>2. old.cells \in Seq(Nat) /\ old.room \in Int /\ len \in Nat /\ i \in 1..len
    BY <1>0, PartCells, LenProperties DEF Part
<1>3. Before(p, i) \o Beyond(p, i) = (a \o h) \o (t \o b)
    BY DEF Before, Beyond
<1>r. h \in Seq(Nat) /\ t \in Seq(Nat)
    BY <1>2, AroundElement
<1> HIDE DEF old, h, t, a, b, S
<1>4. ((a \o h) \o t) \o b = (a \o h) \o (t \o b)
    <2>1. Apart(S, a, h, t, b)
        BY <1>1 DEF Apart
    <2> QED BY ONLY <2>1, Regrouped
<1>e. a \o <<>> = a /\ <<>> \o (t \o b) = t \o b /\ h \o <<>> = h
      /\ (a \o h) \o <<>> = a \o h /\ <<>> \o b = b
    <2>1. t \o b \in Seq(S) /\ a \o h \in Seq(S)
        BY <1>1, ConcatProperties
    <2>2. \A s \in Seq(S) : s \o <<>> = s /\ <<>> \o s = s
        BY ConcatEmptySeq
    <2> QED BY <1>1, <2>1, <2>2
<1>5. CASE i = 1
    <2> DEFINE rest == [cells |-> Tail(old.cells), room |-> old.room - 1]
    <2>1. h = <<>> /\ Tail(old.cells) = t
        <3>1. h = <<>>
            <4>1. Len(h) = 0
                BY ONLY <1>2, <1>5, AroundElement DEF h
            <4> QED BY ONLY <4>1, <1>r, EmptySeq
        <3>2. Tail(old.cells) = t
            <4>1. len > 0
                BY ONLY <1>2
            <4>2. Tail(old.cells) \in Seq(Nat) /\ Len(Tail(old.cells)) = len - 1
                  /\ \A j \in 1..(len - 1) : Tail(old.cells)[j] = old.cells[j + 1]
                BY <1>2, <4>1
            <4>3. Len(t) = len - 1 /\ \A j \in 1..(len - 1) : t[j] = old.cells[1 + j]
                BY ONLY <1>2, <1>5, SubSeqBehind DEF t
            <4>4. \A j \in 1..(len - 1) : j + 1 = 1 + j
                BY ONLY <1>2
            <4> QED BY <1>r, <4>2, <4>3, <4>4, SeqEqual
        <3> QED BY <3>1, <3>2
    <2>2. rest \in Part /\ rest.cells = t
        BY <1>2, <1>r, <2>1 DEF Part
    <2>3. o = IF rest.cells # <<>>
              THEN Outcome([parts EXCEPT ![p] = rest],
                           IF p = Len(parts) THEN Len(rest.cells) ELSE nalloc, TRUE)
              ELSE IF p = 1 THEN Outcome([parts EXCEPT ![p] = rest], nalloc, FALSE)
              ELSE Outcome(RemoveAt(parts, p),
                     IF p = Len(parts) THEN Len(parts[p - 1].cells) ELSE nalloc, TRUE)
        BY <1>5 DEF Removals, RemoveHead, old
    <2> HIDE DEF rest
    <2>4. CASE rest.cells # <<>>
        <3>1. o.parts = [parts EXCEPT ![p] = rest]
            BY <2>3, <2>4 DEF Outcome
        <3>2. ListedIn(o.parts) = (a \o t) \o b
            <4>1. ListedIn(o.parts) = (a \o rest.cells) \o b
                BY ONLY <1>0, <2>2, <3>1, p \in 1..Len(parts), ListedReplaced DEF a, b
            <4> QED BY <2>2, <4>1
        <3>3. a \o h = a
            BY <1>e, <2>1
        <3>4. (a \o t) \o b = (a \o h) \o (t \o b)
            BY <1>4, <3>3
        <3> QED BY <1>3, <3>2, <3>4
    <2>5. CASE rest.cells = <<>>
        <3>1. o.parts = RemoveAt(parts, p)
            <4>1. p # 1
                BY <2>3, <2>5 DEF Outcome
            <4> QED BY <2>3, <2>5, <4>1 DEF Outcome
        <3>2. ListedIn(o.parts) = a \o b
            BY ONLY <1>0, <3>1, p \in 1..Len(parts), ListedTaken DEF a, b
        <3>3. h = <<>> /\ t = <<>>
            BY <2>1, <2>2, <2>5
        <3>4. (a \o h) \o (t \o b) = a \o b
            BY <1>e, <3>3
        <3> QED BY <1>3, <3>2, <3>4
    <2> QED BY <2>4, <2>5
<1>6. CASE i # 1 /\ i = len
    <2> DEFINE q == [cells |-> Front(old.cells), room |-> old.room]
    <2>1. Front(old.cells) = h
        BY <1>6 DEF Front, h
    <2>2. q \in Part /\ q.cells = h
        BY <1>2, <1>r, <2>1 DEF Part
    <2>3. o.parts = [parts EXCEPT ![p] = q]
        <3>1. old \in Part
            BY <1>0
        <3>2. [old EXCEPT !.cells = Front(@)] = q
            BY ONLY <3>1 DEF Part
        <3>3. o = Outcome([parts EXCEPT ![p].cells = Front(@)],
                          IF p = Len(parts) THEN len - 1 ELSE nalloc, TRUE)
            BY <1>6 DEF Removals, RemoveEnd, old
        <3>4. [parts EXCEPT ![p].cells = Front(@)] = [parts EXCEPT ![p] = q]
            BY <1>0, <3>2 DEF old
        <3> HIDE DEF q
        <3> QED BY <3>3, <3>4 DEF Outcome
    <2>4. ListedIn(o.parts) = (a \o h) \o b
        <3>1. ListedIn(o.parts) = (a \o q.cells) \o b
            <4> HIDE DEF q
            <4> QED BY ONLY <1>0, <2>2, <2>3, p \in 1..Len(parts), ListedReplaced DEF a, b
        <3> QED BY <2>2, <3>1
    <2>5. t = <<>>
        <3>1. Len(t) = 0
            BY ONLY <1>2, <1>6, SubSeqBehind DEF t
        <3> QED BY ONLY <3>1, <1>r, EmptySeq
    <2>6. (a \o h) \o (t \o b) = (a \o h) \o b
        BY <1>e, <2>5
    <2> QED BY <1>3, <2>4, <2>6
<1>7. CASE i # 1 /\ i # len
    <2> DEFINE q == [cells |-> SubSeq(old.cells, i + 1, Len(old.cells)), room |-> old.room - i]
               cut == [cells |-> SubSeq(old.cells, 1, i - 1), room |-> i]
    <2>1. q.cells = t /\ cut.cells = h
        BY DEF t, h
    <2>2. q \in Part /\ cut \in Part
        <3>1. i \in Int /\ old.room - i \in Int
            BY ONLY <1>2
        <3>2. q.cells \in Seq(Nat) /\ cut.cells \in Seq(Nat)
            BY <1>r, <2>1
        <3>3. q = [cells |-> q.cells, room |-> old.room - i]
              /\ cut = [cells |-> cut.cells, room |-> i]
            OBVIOUS
        <3> HIDE DEF q, cut
        <3> QED BY ONLY <3>1, <3>2, <3>3 DEF Part
    <2>3. o = Split(p, i)
        <3>1. o \in {Split(p, i), Outcome(parts, nalloc, FALSE)}
            BY <1>7 DEF Removals, old
        <3> QED BY <3>1 DEF Outcome
    <2>4. o.parts = InsertAt([parts EXCEPT ![p] = cut], p + 1, q)
        BY <2>3 DEF Split, Outcome, old
    <2> HIDE DEF q, cut
    <2>5. ListedIn(o.parts) = ((a \o cut.cells) \o q.cells) \o b
        <3>1. parts \in Seq(Part)
            BY <1>0
        <3>2. ListedIn(o.parts) = Cat(Cat(Cat(a, cut.cells), q.cells), b)
            BY ONLY <3>1, <2>2, <2>4, p \in 1..Len(parts), ListedSplit DEF a, b
        <3> QED BY ONLY <3>2 DEF Cat
    <2> QED BY <1>3, <1>4, <2>1, <2>5
<1> QED BY <1>5, <1>6, <1>7

------------------------------------------------------------------------------
(* The first line of a name in the list of a request                       *)

\* The first element in the list with a name, or 0, and its value.
HeadCell(key) == HeadOf(cell, Listed, key)
HeadValue(key) == IF HeadCell(key) = 0 THEN "" ELSE cell[HeadCell(key)].value

\* A list as it should be, of lines.
Sound == cell \in Seq(Line) /\ ListOK(parts, nalloc) /\ Distinct(parts, Len(cell))

\* The first element x of a name, what is before it and what is behind it.
Found(key, a, x, b) ==
    /\ a \in Seq(Cells(cell)) /\ x \in Cells(cell) /\ b \in Seq(Cells(cell))
    /\ Listed = (a \o <<x>>) \o b
    /\ ~HasKey(cell, a, key) /\ cell[x].key = key
    /\ Alone(a, x, b)
    /\ HeadCell(key) = x /\ FirstNamed(Lines, key) = Len(a) + 1

\* What such a list is.
LEMMA ListedSound ==
    ASSUME Sound
    PROVE  /\ parts \in Seq(Part) /\ Listed \in Seq(Cells(cell)) /\ IsInjective(Listed)
           /\ Lines = LinesOf(cell, Listed)
<1>1. parts \in Seq(Part)
    BY DEF Sound, ListOK
<1>2. Listed \in Seq(Cells(cell))
    BY <1>1, PlacedCells DEF Sound, Listed
<1>3. IsInjective(Listed)
    BY ListedOnce DEF Sound
<1> QED BY <1>1, <1>2, <1>3 DEF Lines, LinesOf

\* What is needed to have found it.
LEMMA FoundIf ==
    ASSUME Sound, NEW key, NEW a \in Seq(Cells(cell)), NEW x \in Cells(cell),
           NEW b \in Seq(Cells(cell)), Listed = (a \o <<x>>) \o b,
           ~HasKey(cell, a, key), cell[x].key = key
    PROVE  Found(key, a, x, b)
<1>1. IsInjective(Listed) /\ Lines = LinesOf(cell, Listed) /\ cell \in Seq(Line)
    BY ListedSound DEF Sound
<1>2. Alone(a, x, b)
    <2>1. IsInjective(Listed)
        BY <1>1
    <2> QED BY ONLY <2>1, a \in Seq(Cells(cell)), x \in Cells(cell), b \in Seq(Cells(cell)),
                    Listed = (a \o <<x>>) \o b, AloneInList
<1>3. /\ FirstNamed(LinesOf(cell, (a \o <<x>>) \o b), key) = Len(a) + 1
      /\ HeadOf(cell, (a \o <<x>>) \o b, key) = x
    <2>1. /\ cell \in Seq(Line) /\ a \in Seq(Cells(cell)) /\ x \in Cells(cell) /\ b \in Seq(Cells(cell))
          /\ cell[x].key = key /\ ~HasKey(cell, a, key)
        BY <1>1
    <2> QED BY ONLY <2>1, HeadBehind
<1>4. FirstNamed(Lines, key) = Len(a) + 1 /\ HeadCell(key) = x
    BY <1>1, <1>3 DEF HeadCell
<1> QED BY <1>2, <1>4 DEF Found

\* If there is a line of the name there is a first one.
LEMMA HeadExists ==
    ASSUME Sound, NEW key, HeadCell(key) # 0
    PROVE  \E a, x, b : Found(key, a, x, b)
<1>1. Listed \in Seq(Cells(cell)) /\ cell \in Seq(Line)
    BY ListedSound DEF Sound
<1>2. HasKey(cell, Listed, key)
    BY <1>1, HeadIs DEF HeadCell
<1>3. PICK a, b \in Seq(Cells(cell)) : \E x \in Cells(cell) :
                /\ Listed = (a \o <<x>>) \o b /\ ~HasKey(cell, a, key) /\ cell[x].key = key
                /\ HeadOf(cell, Listed, key) = x
    BY <1>1, <1>2, HeadFound
<1>4. PICK x \in Cells(cell) :
                /\ Listed = (a \o <<x>>) \o b /\ ~HasKey(cell, a, key) /\ cell[x].key = key
    BY <1>3
<1>5. Found(key, a, x, b)
    BY <1>4, FoundIf
<1> QED BY <1>5

\* The match the search reports is the first line of the name.
LEMMA MatchIsHead ==
    ASSUME Sound, MatchPart # 0
    PROVE  /\ MatchPart \in 1..Len(parts)
           /\ Match(MatchPart) \in 1..Len(parts[MatchPart].cells)
           /\ Found(edit.key, Before(MatchPart, Match(MatchPart)), MatchCell,
                    Beyond(MatchPart, Match(MatchPart)))
<1> DEFINE p == MatchPart
           i == Match(p)
           a == Before(p, i)
           b == Beyond(p, i)
<1>1. parts \in Seq(Part) /\ Distinct(parts, Len(cell)) /\ cell \in Seq(Line)
    BY ListedSound DEF Sound
<1>2. \E q \in 1..Len(parts) : \E j \in 1..Len(parts[q].cells) :
                cell[parts[q].cells[j]].key = edit.key
    BY <1>1, MatchFound
<1>3. /\ p \in 1..Len(parts) /\ i \in 1..Len(parts[p].cells)
      /\ cell[MatchCell].key = edit.key
      /\ \A j \in 1..(i - 1) : cell[parts[p].cells[j]].key # edit.key
      /\ \A q \in 1..(p - 1) : \A j \in 1..Len(parts[q].cells) :
                cell[parts[q].cells[j]].key # edit.key
    BY <1>1, <1>2, MatchIs
<1>c. MatchCell = parts[p].cells[i]
    BY DEF MatchCell
<1> HIDE DEF p, i, a, b
<1>4. /\ a \in Seq(Cells(cell)) /\ b \in Seq(Cells(cell)) /\ MatchCell \in Cells(cell)
      /\ ListedIn(Ahead(parts, p)) \in Seq(Cells(cell))
      /\ SubSeq(parts[p].cells, 1, i - 1) \in Seq(Cells(cell))
      /\ parts[p].cells \in Seq(Cells(cell))
    BY <1>1, <1>3, <1>c, AroundTypes DEF a, b
<1>5. Listed = (a \o <<MatchCell>>) \o b
    BY <1>1, <1>3, <1>c, ListedHere DEF a, b
<1>6. ~HasKey(cell, SubSeq(parts[p].cells, 1, i - 1), edit.key)
    <2>1. /\ Len(SubSeq(parts[p].cells, 1, i - 1)) = i - 1
          /\ \A j \in 1..(i - 1) : SubSeq(parts[p].cells, 1, i - 1)[j] = parts[p].cells[j]
        BY <1>3, <1>4, AroundElement
    <2> QED BY <1>3, <2>1 DEF HasKey
<1>7. ~HasKey(cell, ListedIn(Ahead(parts, p)), edit.key)
    <2> DEFINE T == {x \in Nat : cell[x].key # edit.key}
               ps == Ahead(parts, p)
    <2>1. ps \in Seq(Part) /\ Len(ps) = p - 1 /\ \A q \in 1..(p - 1) : ps[q] = parts[q]
        BY <1>1, <1>3, AroundElement DEF Ahead
    <2>2. \A q \in 1..Len(ps) : ps[q].cells \in Seq(T)
        <3> TAKE q \in 1..Len(ps)
        <3> DEFINE s == ps[q].cells
        <3>1. s \in Seq(Nat)
            BY <2>1, PartCells
        <3>a. q \in 1..(p - 1) /\ ps[q] = parts[q]
            <4> HIDE DEF ps
            <4> QED BY ONLY q \in 1..Len(ps), <2>1
        <3>b. \A j \in 1..Len(parts[q].cells) : cell[parts[q].cells[j]].key # edit.key
            BY ONLY <1>3, <3>a
        <3>2. \A j \in 1..Len(s) : cell[s[j]].key # edit.key
            BY ONLY <3>a, <3>b, Zenon DEF s
        <3>3. \A j \in 1..Len(s) : s[j] \in T
            <4> HIDE DEF s
            <4> QED BY <3>1, <3>2
        <3> HIDE DEF s, T
        <3>4. s \in Seq(T)
            BY <3>1, <3>3, SeqDef, LenProperties
        <3> QED BY <3>4 DEF s
    <2>3. ListedIn(ps) \in Seq(T)
        <3> HIDE DEF ps, T
        <3> QED BY <2>1, <2>2, ListedType
    <2> DEFINE l == ListedIn(ps)
    <2> HIDE DEF l
    <2>4. \A j \in 1..Len(l) : l[j] \in T
        <3> HIDE DEF T
        <3> QED BY <2>3, ElementOfSeq DEF l
    <2>5. ~HasKey(cell, l, edit.key)
        BY <2>4 DEF HasKey
    <2> QED BY <2>5 DEF l
<1>8. ~HasKey(cell, a, edit.key)
    BY <1>4, <1>6, <1>7, HasKeyConcat DEF a, Before
<1>9. Found(edit.key, a, MatchCell, b)
    BY <1>3, <1>4, <1>5, <1>8, FoundIf
<1> QED BY <1>3, <1>9 DEF p, i, a, b

\* The search finds nothing if there is no line of the name.
LEMMA MatchNone ==
    ASSUME Sound, MatchPart = 0
    PROVE  HeadCell(edit.key) = 0 /\ FirstNamed(Lines, edit.key) = 0
           /\ ~HasKey(cell, Listed, edit.key)
<1>1. parts \in Seq(Part) /\ Listed \in Seq(Cells(cell)) /\ cell \in Seq(Line)
      /\ Lines = LinesOf(cell, Listed)
    BY ListedSound DEF Sound
<1>2. ASSUME HeadCell(edit.key) # 0
      PROVE  FALSE
    <2> DEFINE T == {x \in Nat : cell[x].key # edit.key}
    <2>1. \A q \in 1..Len(parts) : parts[q].cells \in Seq(T)
        <3> TAKE q \in 1..Len(parts)
        <3> DEFINE s == parts[q].cells
        <3>1. s \in Seq(Nat)
            BY <1>1, PartCells
        <3>2. \A j \in 1..Len(s) : cell[s[j]].key # edit.key
            BY <1>1, MatchFound
        <3>3. \A j \in 1..Len(s) : s[j] \in T
            <4> HIDE DEF s
            <4> QED BY <3>1, <3>2
        <3> HIDE DEF s, T
        <3>4. s \in Seq(T)
            BY <3>1, <3>3, SeqDef, LenProperties
        <3> QED BY <3>4 DEF s
    <2>2. Listed \in Seq(T)
        <3> HIDE DEF T
        <3> QED BY <1>1, <2>1, ListedType DEF Listed
    <2>3. \A j \in 1..Len(Listed) : Listed[j] \in T
        <3> HIDE DEF T
        <3> QED BY <2>2, ElementOfSeq
    <2>4. HasKey(cell, Listed, edit.key)
        BY <1>1, <1>2, HeadIs DEF HeadCell
    <2> QED BY <2>3, <2>4 DEF HasKey
<1>3. /\ HeadOf(cell, Listed, edit.key) = 0 <=> ~HasKey(cell, Listed, edit.key)
      /\ FirstNamed(LinesOf(cell, Listed), edit.key) = 0 <=> ~HasKey(cell, Listed, edit.key)
    BY <1>1, HeadIs
<1> QED BY <1>1, <1>2, <1>3 DEF HeadCell

------------------------------------------------------------------------------
(* What the steps of a header do to the list                               *)

\* The first lines of the other names stay what they are.
OthersStay(key) ==
    \A k : k # key => HeadCell(k)' = HeadCell(k) /\ HeadValue(k)' = HeadValue(k)

\* What a line may have as its value.
IsValue(v) == v \in Text \cup {""}

\* An element gets another value.
Revalue(x, v) == cell' = [cell EXCEPT ![x].value = v] /\ parts' = parts

\* The first line of a name gets another value.
LEMMA HeadRevalued ==
    ASSUME Sound, NEW key, NEW a, NEW x, NEW b, Found(key, a, x, b), NEW v, IsValue(v),
           Revalue(x, v)
    PROVE  /\ \A k : HeadCell(k)' = HeadCell(k)
           /\ OthersStay(key)
           /\ HeadValue(key)' = v
           /\ Lines' = [Lines EXCEPT ![FirstNamed(Lines, key)].value = v]
           /\ Without(Lines', key) = Without(Lines, key)
<1>0. cell' = [cell EXCEPT ![x].value = v] /\ parts' = parts
    BY DEF Revalue
<1>1. cell \in Seq(Line) /\ Listed \in Seq(Cells(cell)) /\ Lines = LinesOf(cell, Listed)
    BY ListedSound DEF Sound
<1>c. cell \in Seq(Line)
    BY <1>1
<1>n. Len(cell) \in Nat /\ DOMAIN cell = Cells(cell)
    BY <1>c, LenProperties DEF Cells
<1>2. cell' \in Seq(Line) /\ Len(cell') = Len(cell)
    <2>1. cell \in Seq(Line)
        BY <1>1
    <2>2. v \in Text \cup {""}
        BY DEF IsValue
    <2>3. /\ [cell EXCEPT ![x].value = v] \in Seq(Line)
          /\ Len([cell EXCEPT ![x].value = v]) = Len(cell)
        BY <2>1, <2>2, ValueSet, Zenon
    <2> QED BY <1>0, <2>3, Zenon
<1>3. /\ a \in Seq(Cells(cell)) /\ x \in Cells(cell) /\ b \in Seq(Cells(cell))
      /\ Listed = (a \o <<x>>) \o b /\ cell[x].key = key /\ Alone(a, x, b)
      /\ HeadCell(key) = x /\ FirstNamed(Lines, key) = Len(a) + 1
    BY DEF Found
<1>4. /\ cell'[x] = [cell[x] EXCEPT !.value = v] /\ cell'[x].key = cell[x].key /\ cell'[x].value = v
      /\ \A y \in Cells(cell) : y # x => cell'[y] = cell[y]
    <2>1. cell[x] \in Line /\ DOMAIN cell = Cells(cell) /\ x \in DOMAIN cell
        <3>1. DOMAIN cell = Cells(cell)
            BY <1>n
        <3>2. cell[x] \in Line
            BY <1>1, <1>3, ElementOfSeq DEF Cells
        <3> QED BY <1>3, <3>1, <3>2
    <2>2. cell'[x] = [cell[x] EXCEPT !.value = v]
        BY <1>0, <2>1
    <2>3. cell'[x].key = cell[x].key /\ cell'[x].value = v
        BY <2>1, <2>2 DEF Line
    <2>4. \A y \in Cells(cell) : y # x => cell'[y] = cell[y]
        BY <1>0, <2>1
    <2> QED BY <2>2, <2>3, <2>4
<1>5. Listed' = Listed /\ Lines' = LinesOf(cell', Listed)
    <2>1. Listed' = Listed
        BY <1>0 DEF Listed
    <2>2. Lines' = LinesOf(cell', Listed')
        BY DEF Lines, LinesOf
    <2> QED BY <2>1, <2>2, Zenon
<1>6. \A k : HeadCell(k)' = HeadCell(k)
    <2>1. \A y \in Cells(cell) : cell'[y].key = cell[y].key
        BY <1>4
    <2>2. Len(cell) <= Len(cell')
        <3>1. Len(cell') = Len(cell)
            BY <1>2
        <3> QED BY ONLY <1>n, <3>1
    <2>3. \A k : HeadOf(cell', Listed, k) = HeadOf(cell, Listed, k)
        BY ONLY <1>1, <1>2, <2>1, <2>2, HeadSame
    <2> QED BY <1>5, <2>3 DEF HeadCell
<1>7. \A k : k # key => HeadValue(k)' = HeadValue(k)
    <2>1. \A k : HeadCell(k) # 0 => HeadCell(k) \in Cells(cell) /\ cell[HeadCell(k)].key = k
        <3> TAKE k
        <3>1. HeadOf(cell, Listed, k) # 0 => HeadOf(cell, Listed, k) \in Cells(cell)
                    /\ cell[HeadOf(cell, Listed, k)].key = k
            BY ONLY <1>1, HeadIs
        <3> QED BY <3>1, Zenon DEF HeadCell
    <2>2. \A k : k # key /\ HeadCell(k) # 0 => HeadCell(k) # x
        BY <1>3, <2>1
    <2>3. \A y \in Cells(cell) : y # x => cell'[y] = cell[y]
        BY <1>4
    <2> QED BY ONLY <1>6, <2>1, <2>2, <2>3, Zenon DEF HeadValue
<1>8. HeadValue(key)' = v
    <2>1. x # 0
        <3>1. x \in 1..Len(cell) /\ Len(cell) \in Nat
            BY <1>n, <1>3 DEF Cells
        <3> QED BY <3>1
    <2> QED BY <1>3, <1>4, <1>6, <2>1 DEF HeadValue
<1>9. /\ LinesOf(cell', (a \o <<x>>) \o b)
            = [LinesOf(cell, (a \o <<x>>) \o b) EXCEPT ![Len(a) + 1] = cell'[x]]
      /\ Without(LinesOf(cell', (a \o <<x>>) \o b), key)
            = Without(LinesOf(cell, (a \o <<x>>) \o b), key)
    <2>1. Revalued(cell', cell, x)
        BY <1>2, <1>4 DEF Revalued
    <2> QED BY ONLY <1>1, <1>2, <1>3, <2>1, EditRevalues
<1>10. Without(Lines', key) = Without(Lines, key)
    BY <1>1, <1>3, <1>5, <1>9
<1>11. Lines' = [Lines EXCEPT ![FirstNamed(Lines, key)].value = v]
    <2> DEFINE i == Len(a) + 1
    <2>1. Lines[i] = cell[x]
        <3>1. /\ \A j \in 1..Len(Listed) : LinesOf(cell, Listed)[j] = cell[Listed[j]]
              /\ Len(Listed) \in Nat
            BY <1>1, LinesType
        <3>2. i \in 1..Len(Listed) /\ Listed[i] = x
            <4>1. /\ Len(a) \in Nat /\ Len(b) \in Nat
                  /\ Len((a \o <<x>>) \o b) = Len(a) + 1 + Len(b)
                  /\ ((a \o <<x>>) \o b)[Len(a) + 1] = x
                BY <1>3, ThreeRuns
            <4>2. i \in 1..(Len(a) + 1 + Len(b))
                BY ONLY <4>1
            <4> QED BY <1>3, <4>1, <4>2
        <3> QED BY <1>1, <3>1, <3>2
    <2>2. Lines' = [Lines EXCEPT ![i] = cell'[x]]
        BY <1>1, <1>3, <1>5, <1>9
    <2> HIDE DEF i
    <2>3. Lines' = [Lines EXCEPT ![i].value = v]
        BY <1>4, <2>1, <2>2
    <2> QED BY <1>3, <2>3 DEF i
<1> QED BY <1>6, <1>7, <1>8, <1>10, <1>11 DEF OthersStay

\* The first line of a name is removed.
LEMMA HeadRemoved ==
    ASSUME Sound, MatchPart # 0, NEW o \in Removals(MatchPart, Match(MatchPart)), o.ok,
           parts' = o.parts, cell' = cell
    PROVE  /\ OthersStay(edit.key)
           /\ Without(Lines', edit.key) = Without(Lines, edit.key)
<1> DEFINE a == Before(MatchPart, Match(MatchPart))
           b == Beyond(MatchPart, Match(MatchPart))
           x == MatchCell
           key == edit.key
<1>1. /\ MatchPart \in 1..Len(parts) /\ Match(MatchPart) \in 1..Len(parts[MatchPart].cells)
      /\ Found(key, a, x, b)
    BY MatchIsHead
<1>2. Listed' = a \o b
    <2>1. ListOK(parts, nalloc) /\ Distinct(parts, Len(cell))
        BY DEF Sound
    <2>2. ListedIn(o.parts) = a \o b
        BY <1>1, <2>1, RemovalTakes
    <2> QED BY <2>2 DEF Listed
<1> HIDE DEF a, b, x, key
<1>3. /\ a \in Seq(Cells(cell)) /\ x \in Cells(cell) /\ b \in Seq(Cells(cell))
      /\ Listed = (a \o <<x>>) \o b /\ cell[x].key = key
    BY <1>1 DEF Found
<1>4. cell \in Seq(Line) /\ Lines = LinesOf(cell, Listed) /\ Lines' = LinesOf(cell, Listed')
    BY ListedSound DEF Sound, Lines, LinesOf
<1>5. \A k : k # key => HeadCell(k)' = HeadCell(k)
    <2>1. \A k : cell[x].key # k => HeadOf(cell, (a \o <<x>>) \o b, k) = HeadOf(cell, a \o b, k)
        BY ONLY <1>3, <1>4, HeadWithout
    <2>2. \A k : HeadCell(k)' = HeadOf(cell, a \o b, k)
        BY <1>2 DEF HeadCell
    <2> QED BY <1>3, <2>1, <2>2 DEF HeadCell
<1>6. \A k : k # key => HeadValue(k)' = HeadValue(k)
    <2> TAKE k
    <2> HAVE k # key
    <2>1. HeadCell(k)' = HeadCell(k)
        BY <1>5
    <2>2. HeadValue(k)' = IF HeadCell(k)' = 0 THEN "" ELSE cell'[HeadCell(k)'].value
        BY DEF HeadValue
    <2>3. HeadValue(k) = IF HeadCell(k) = 0 THEN "" ELSE cell[HeadCell(k)].value
        BY DEF HeadValue
    <2> QED BY <2>1, <2>2, <2>3, Zenon
<1>7. Without(LinesOf(cell, (a \o <<x>>) \o b), key) = Without(LinesOf(cell, a \o b), key)
    BY ONLY <1>3, <1>4, EditRemoves
<1>8. Without(Lines', key) = Without(Lines, key)
    BY <1>2, <1>3, <1>4, <1>7
<1> QED BY <1>5, <1>6, <1>8 DEF OthersStay, key

\* The list of a request with an element more.
LEMMA ListedPushed ==
    ASSUME ListOK(parts, nalloc), NEW c \in Nat,
           parts' = IF Len(parts[Len(parts)].cells) = nalloc
                    THEN Append(parts, [cells |-> <<c>>, room |-> nalloc])
                    ELSE [parts EXCEPT ![Len(parts)].cells = Append(@, c)]
    PROVE  Listed' = Listed \o <<c>>
<1> DEFINE one == <<c>>
           last == Len(parts)
           old == parts[last]
<1>1. parts \in Seq(Part) /\ last \in Nat /\ last \in 1..Len(parts) /\ nalloc \in Int
    <2>1. parts \in Seq(Part) /\ Len(parts) > 0 /\ nalloc \in Int
        BY DEF ListOK
    <2> QED BY <2>1
<1>2. old \in Part /\ old.cells \in Seq(Nat) /\ old.room \in Int
    BY <1>1, PartCells, ElementOfSeq DEF Part
<1>3. one \in Seq(Nat) /\ Append(old.cells, c) = old.cells \o one
      /\ Append(old.cells, c) \in Seq(Nat)
    <2> DEFINE o == old.cells
    <2>1. o \in Seq(Nat) /\ c \in Nat
        BY <1>2
    <2> HIDE DEF old, o
    <2>2. Append(o, c) = o \o <<c>>
        BY ONLY <2>1, AppendIsConcat
    <2>3. Append(o, c) \in Seq(Nat) /\ <<c>> \in Seq(Nat)
        BY ONLY <2>1, AppendProperties
    <2> QED BY ONLY <2>2, <2>3 DEF o, one
<1>4. Listed' = ListedIn(parts')
    BY DEF Listed
<1> HIDE DEF one, last, old
<1>5. CASE Len(old.cells) = nalloc
    <2> DEFINE q == [cells |-> one, room |-> nalloc]
               end == <<q>>
    <2>1. q \in Part /\ q.cells = one
        BY <1>1, <1>3 DEF Part
    <2>2. parts' = Append(parts, q)
        BY <1>5 DEF old, last, one
    <2> HIDE DEF q
    <2>3. end \in Seq(Part) /\ ListedIn(end) = one
        BY <2>1, ListedOfOne
    <2>4. parts' = parts \o end
        BY <1>1, <2>1, <2>2, AppendIsConcat
    <2> HIDE DEF end
    <2>5. ListedIn(parts \o end) = ListedIn(parts) \o ListedIn(end)
        BY <1>1, <2>3, ListedConcat
    <2> QED BY <1>4, <2>3, <2>4, <2>5 DEF Listed, one
<1>6. CASE Len(old.cells) # nalloc
    <2> DEFINE q == [cells |-> Append(old.cells, c), room |-> old.room]
               a == ListedIn(Ahead(parts, last))
    <2>1. q \in Part /\ q.cells = old.cells \o one
        BY <1>2, <1>3 DEF Part
    <2>2. parts' = [parts EXCEPT ![last] = q]
        <3>1. parts' = [parts EXCEPT ![last].cells = Append(@, c)]
            BY <1>6 DEF old, last
        <3>2. [old EXCEPT !.cells = Append(@, c)] = q
            <4>1. old \in Part
                BY <1>2
            <4> QED BY ONLY <4>1, OtherCells
        <3> QED BY <3>1, <3>2 DEF old
    <2> HIDE DEF q
    <2>3. Rest(parts, last) = <<>> /\ ListedIn(<<>>) = <<>>
        <3>1. Rest(parts, last) \in Seq(Part) /\ Len(Rest(parts, last)) = 0
            <4>1. parts \in Seq(Part)
                BY <1>1
            <4>2. Len(Rest(parts, last)) = Len(parts) - last
                BY <1>1, <4>1, SubSeqBehind DEF Rest
            <4>3. Rest(parts, last) \in Seq(Part)
                BY <1>1, <4>1, SubSeqBehind DEF Rest
            <4> QED BY <1>1, <4>2, <4>3 DEF last
        <3>2. Rest(parts, last) = <<>>
            BY ONLY <3>1, EmptySeq
        <3>3. ListedIn(<<>>) = <<>>
            <4>1. [p \in DOMAIN <<>> |-> (<<>>)[p].cells] = <<>>
                OBVIOUS
            <4> QED BY <4>1, FlattenEmpty DEF ListedIn
        <3> QED BY <3>2, <3>3
    <2>4. ListedIn(parts') = (a \o q.cells) \o ListedIn(<<>>)
        <3>1. parts \in Seq(Part) /\ last \in 1..Len(parts) /\ q \in Part
            BY <1>1, <2>1
        <3>2. ListedIn(parts') = (a \o q.cells) \o ListedIn(Rest(parts, last))
            BY ONLY <2>2, <3>1, ListedReplaced
        <3> HIDE DEF a
        <3> QED BY <2>3, <3>2
    <2>5. Listed = (a \o old.cells) \o ListedIn(<<>>)
        BY <1>1, <2>3, ListedAt DEF Listed, old
    <2>6. a \in Seq(Nat)
        <3>1. Ahead(parts, last) \in Seq(Part)
            BY <1>1, AroundElement DEF Ahead
        <3> QED BY <3>1, ListedNat
    <2> HIDE DEF a
    <2>7. (a \o old.cells) \o one = a \o (old.cells \o one)
        <3>1. old.cells \in Seq(Nat)
            BY <1>2
        <3>2. one \in Seq(Nat)
            BY <1>3
        <3> DEFINE T == Nat
                   o == old.cells
        <3>3. a \in Seq(T) /\ o \in Seq(T) /\ one \in Seq(T)
            BY <2>6, <3>1, <3>2
        <3> HIDE DEF T, o
        <3>4. (a \o o) \o one = a \o (o \o one)
            BY ONLY <3>3, ConcatAssociative
        <3> QED BY ONLY <3>4 DEF o
    <2>8. /\ (a \o (old.cells \o one)) \o <<>> = a \o (old.cells \o one)
          /\ (a \o old.cells) \o <<>> = a \o old.cells
        <3>1. a \o old.cells \in Seq(Nat)
            BY ONLY <1>2, <2>6, ConcatProperties
        <3>2. a \o (old.cells \o one) \in Seq(Nat)
            BY ONLY <1>2, <1>3, <2>6, ConcatProperties
        <3> QED BY ONLY <3>1, <3>2, ConcatEmptySeq
    <2>9. Listed' = a \o (old.cells \o one) /\ Listed = a \o old.cells
        BY <1>4, <2>1, <2>3, <2>4, <2>5, <2>8
    <2> QED BY <2>7, <2>9 DEF one
<1> QED BY <1>5, <1>6

\* A line is added.
LEMMA HeadPushed ==
    ASSUME Sound, NEW line \in Line, HeadCell(line.key) = 0, cell' = Append(cell, line),
           Listed' = Listed \o <<Len(cell) + 1>>
    PROVE  /\ OthersStay(line.key)
           /\ HeadCell(line.key)' = Len(cell) + 1 /\ HeadValue(line.key)' = line.value
           /\ Lines' = Append(Lines, line)
<1> DEFINE c == Len(cell) + 1
           one == <<c>>
<1>1. cell \in Seq(Line)
    BY DEF Sound
<1>2. Listed \in Seq(Cells(cell)) /\ Lines = LinesOf(cell, Listed)
    BY ListedSound
<1>3. /\ cell' \in Seq(Line) /\ Len(cell') = c /\ cell'[c] = line /\ c \in Nat /\ c # 0
      /\ Len(cell) \in Nat /\ Len(cell) <= Len(cell')
      /\ \A y \in Cells(cell) : cell'[y] = cell[y]
    BY <1>1 DEF Cells
<1>4. Cells(cell) \subseteq Cells(cell') /\ c \in Cells(cell')
    BY <1>3 DEF Cells
<1>5. Listed \in Seq(Cells(cell')) /\ one \in Seq(Cells(cell'))
    BY <1>2, <1>4, SeqOfSubset
<1>l. Lines' = LinesOf(cell', Listed')
    BY DEF Lines, LinesOf
<1> HIDE DEF c
<1>6. \A k : HeadOf(cell', Listed, k) = HeadCell(k)
             /\ (HasKey(cell', Listed, k) <=> HasKey(cell, Listed, k))
    <2>1. \A y \in Cells(cell) : cell'[y].key = cell[y].key
        BY <1>3
    <2>2. cell' \in Seq(Line) /\ Len(cell) <= Len(cell')
        BY <1>3
    <2> TAKE k
    <2>3. HeadOf(cell', Listed, k) = HeadOf(cell, Listed, k)
          /\ (HasKey(cell', Listed, k) <=> HasKey(cell, Listed, k))
        BY ONLY <1>1, <1>2, <2>1, <2>2, HeadSame
    <2> QED BY <2>3, Zenon DEF HeadCell
<1>7. \A k : HasKey(cell, Listed, k) <=> HeadCell(k) # 0
    <2> TAKE k
    <2>1. HeadOf(cell, Listed, k) = 0 <=> ~HasKey(cell, Listed, k)
        BY ONLY <1>1, <1>2, HeadIs
    <2> QED BY <2>1, Zenon DEF HeadCell
<1>8. \A k : HeadOf(cell', one, k) = IF line.key = k THEN c ELSE 0
    <2> TAKE k
    <2>1. cell' \in Seq(Line) /\ cell'[c] = line
        BY <1>3
    <2>2. HeadOf(cell', <<c>>, k) = IF cell'[c].key = k THEN c ELSE 0
        BY ONLY <1>4, <2>1, HeadOne
    <2> QED BY <2>1, <2>2, Zenon
<1> HIDE DEF one
<1>9. \A k : HeadCell(k)' = IF HeadCell(k) # 0 THEN HeadCell(k)
                            ELSE IF line.key = k THEN c ELSE 0
    <2> TAKE k
    <2>1. HeadOf(cell', Listed \o one, k)
            = IF HasKey(cell', Listed, k) THEN HeadOf(cell', Listed, k) ELSE HeadOf(cell', one, k)
        BY ONLY <1>3, <1>5, HeadConcat
    <2>2. HeadCell(k)' = HeadOf(cell', Listed \o one, k)
        BY DEF HeadCell, one, c
    <2> QED BY <1>6, <1>7, <1>8, <2>1, <2>2
<1>10. HeadCell(line.key)' = c
    BY <1>9
<1>11. HeadValue(line.key)' = line.value
    BY <1>3, <1>10 DEF HeadValue
<1>12. \A k : k # line.key => HeadCell(k)' = HeadCell(k)
    BY <1>9
<1>13. \A k : k # line.key => HeadValue(k)' = HeadValue(k)
    <2> TAKE k
    <2> HAVE k # line.key
    <2>1. HeadCell(k)' = HeadCell(k)
        BY <1>12
    <2>2. HeadCell(k) # 0 => HeadCell(k) \in Cells(cell)
        <3>1. HeadOf(cell, Listed, k) # 0 => HeadOf(cell, Listed, k) \in Cells(cell)
            BY ONLY <1>1, <1>2, HeadIs
        <3> QED BY <3>1, Zenon DEF HeadCell
    <2>3. HeadValue(k)' = IF HeadCell(k)' = 0 THEN "" ELSE cell'[HeadCell(k)'].value
        BY DEF HeadValue
    <2>4. HeadValue(k) = IF HeadCell(k) = 0 THEN "" ELSE cell[HeadCell(k)].value
        BY DEF HeadValue
    <2>5. HeadCell(k) # 0 => cell'[HeadCell(k)] = cell[HeadCell(k)]
        BY <1>3, <2>2
    <2> QED BY <2>1, <2>3, <2>4, <2>5, Zenon
<1>14. Lines' = Append(Lines, line)
    <2>1. LinesOf(cell', Listed \o one) = LinesOf(cell', Listed) \o LinesOf(cell', one)
        BY <1>3, <1>5, LinesConcat
    <2>2. LinesOf(cell', Listed) = LinesOf(cell, Listed)
        <3>1. \A i \in 1..Len(Listed) : cell'[Listed[i]] = cell[Listed[i]]
            BY <1>2, <1>3, ElementOfSeq
        <3>2. cell' \in Seq(Line)
            BY <1>3
        <3> QED BY ONLY <1>1, <1>2, <3>1, <3>2, LinesStay
    <2>3. LinesOf(cell', one) = <<line>>
        BY <1>3 DEF LinesOf, one
    <2>4. Lines \in Seq(Line)
        BY <1>1, <1>2, LinesType
    <2>5. Append(Lines, line) = Lines \o <<line>>
        BY <2>4, AppendIsConcat
    <2>6. Listed' = Listed \o one
        BY DEF one, c
    <2> QED BY <1>2, <1>l, <2>1, <2>2, <2>3, <2>5, <2>6
<1> QED BY <1>10, <1>11, <1>12, <1>13, <1>14 DEF OthersStay, c

------------------------------------------------------------------------------
(* The pointers and the fields follow the list                             *)

NumberOf(v) == IF v = "" THEN -1 ELSE Number[v]
Editing(key) == edit # NoEdit /\ edit.key = key

\* A pointer is to the first line of its name, or has been reset by the clear
\* that runs.
SlotInv ==
    /\ slot \in [Builtin -> Nat]
    /\ \A b \in Builtin : slot[b] = HeadCell(b) \/ (slot[b] = 0 /\ Clears /\ edit.key = b)

\* A set changes nothing before it ends, a clear no line of another name.
WasInv ==
    /\ Sets => Lines = was
    /\ Clears => Without(Lines, edit.key) = Without(was, edit.key)

\* The fields that two handlers set when they are entered: until they end the
\* list may be behind.
HostInv ==
    IF Editing("host") THEN server = edit.value
    ELSE server = HeadValue("host") \/ HeadValue("host") = ""

LengthInv ==
    IF Editing("content-length")
    THEN /\ content_length_n = NumberOf(edit.value)
         /\ Sets /\ edit.replace /\ HeadCell("content-length") = 0 => imposed
    ELSE imposed \/ content_length_n = NumberOf(HeadValue("content-length"))

Followed == SlotInv /\ WasInv /\ HostInv /\ LengthInv
EditInv == ~spoiled => Followed

\* A header of the configuration has a name.
LEMMA EditNamed ==
    ASSUME NEW e \in Edit
    PROVE  e # NoEdit /\ e.key # "" /\ IsValue(e.value)
<1>1. e.key \in Key /\ e.value \in Text \cup {""}
    BY DEF Edit
<1>2. e.key # ""
    BY <1>1, EditAssumption
<1>3. NoEdit.key = ""
    BY DEF NoEdit
<1> QED BY <1>1, <1>2, <1>3 DEF IsValue

\* Nothing becomes of the list.
LEMMA ListStays ==
    ASSUME UNCHANGED <<cell, parts>>
    PROVE  /\ \A k : HeadCell(k)' = HeadCell(k) /\ HeadValue(k)' = HeadValue(k)
           /\ Lines' = Lines
<1>1. Listed' = Listed
    BY DEF Listed
<1>2. Lines' = Lines
    BY <1>1 DEF Lines
<1>3. \A k : HeadCell(k)' = HeadCell(k)
    BY <1>1 DEF HeadCell
<1>4. \A k : HeadValue(k)' = HeadValue(k)
    <2> TAKE k
    <2>1. HeadCell(k)' = HeadCell(k)
        BY <1>3
    <2>2. HeadValue(k)' = IF HeadCell(k)' = 0 THEN "" ELSE cell'[HeadCell(k)'].value
        BY DEF HeadValue
    <2>3. HeadValue(k) = IF HeadCell(k) = 0 THEN "" ELSE cell[HeadCell(k)].value
        BY DEF HeadValue
    <2> QED BY <2>1, <2>2, <2>3, Zenon
<1> QED BY <1>2, <1>3, <1>4

\* The handler of a header is entered: at most the value of its first line is
\* emptied.
LEMMA BeginChanges ==
    ASSUME Sound, SlotInv, edit = NoEdit, NEW e \in Edit, BeginEdit(e)
    PROVE  /\ \A k : HeadCell(k)' = HeadCell(k)
           /\ OthersStay(e.key)
           /\ e.value # "" => Lines' = Lines
           /\ Without(Lines', e.key) = Without(Lines, e.key)
<1>1. parts' = parts
    BY DEF BeginEdit
<1>2. CASE e.value = "" /\ e.key \in Builtin /\ slot[e.key] # 0
    <2>1. HeadCell(e.key) = slot[e.key] /\ HeadCell(e.key) # 0
        BY <1>2 DEF SlotInv, Clears
    <2>2. PICK a, x, b : Found(e.key, a, x, b)
        BY <2>1, HeadExists
    <2>3. cell' = [cell EXCEPT ![x].value = ""]
        <3>1. x = slot[e.key]
            BY <2>1, <2>2 DEF Found
        <3> QED BY <1>2, <3>1 DEF BeginEdit
    <2>4. IsValue("")
        BY DEF IsValue
    <2> DEFINE key == e.key
    <2> HIDE DEF key
    <2>5. Found(key, a, x, b)
        BY <2>2 DEF key
    <2>6. /\ \A k : HeadCell(k)' = HeadCell(k)
          /\ OthersStay(key)
          /\ Without(Lines', key) = Without(Lines, key)
        <3>1. Revalue(x, "")
            BY <1>1, <2>3 DEF Revalue
        <3> QED BY <2>4, <2>5, <3>1, HeadRevalued
    <2> QED BY <1>2, <2>6 DEF key
<1>3. CASE ~(e.value = "" /\ e.key \in Builtin /\ slot[e.key] # 0)
    <2>1. cell' = cell
        BY <1>3 DEF BeginEdit
    <2> QED BY <1>1, <2>1, ListStays DEF OthersStay
<1> QED BY <1>2, <1>3

\* Entered, a handler leaves the fields as it says, the list as it was.
LEMMA BeginFollows ==
    ASSUME Sound, Followed, NEW e \in Edit, BeginEdit(e)
    PROVE  Followed'
<1>0. edit = NoEdit /\ edit' = e /\ was' = Lines /\ slot' = slot
    BY DEF BeginEdit
<1>1. e # NoEdit /\ ~Clears /\ ~Sets
    BY <1>0, EditNamed DEF Clears, Sets
<1>2. /\ \A k : HeadCell(k)' = HeadCell(k)
      /\ OthersStay(e.key)
      /\ e.value # "" => Lines' = Lines
      /\ Without(Lines', e.key) = Without(Lines, e.key)
    BY <1>0, BeginChanges DEF Followed
<1>3. SlotInv'
    <2>1. \A b \in Builtin : slot[b] = HeadCell(b)
        BY <1>1 DEF Followed, SlotInv
    <2>2. slot' \in [Builtin -> Nat] /\ \A b \in Builtin : slot'[b] = HeadCell(b)'
        BY <1>0, <1>2, <2>1 DEF Followed, SlotInv
    <2> QED BY <2>2 DEF SlotInv
<1>4. WasInv'
    <2>1. Sets' => e.value # ""
        BY <1>0 DEF Sets
    <2>2. Sets' => Lines' = was'
        BY <1>0, <1>2, <2>1
    <2>3. Clears' => Without(Lines', edit'.key) = Without(was', edit'.key)
        BY <1>0, <1>2
    <2> QED BY <2>2, <2>3 DEF WasInv
<1>5. HostInv'
    <2>1. CASE e.key = "host"
        <3>1. Editing("host")' /\ server' = e.value
            BY <1>0, <1>1, <2>1 DEF Editing, BeginEdit
        <3> QED BY <1>0, <3>1 DEF HostInv
    <2>2. CASE e.key # "host"
        <3>1. ~Editing("host")' /\ ~Editing("host") /\ server' = server
            BY <1>0, <2>2 DEF Editing, BeginEdit
        <3>2. HeadValue("host")' = HeadValue("host")
            BY <1>2, <2>2 DEF OthersStay
        <3>3. server = HeadValue("host") \/ HeadValue("host") = ""
            BY <3>1 DEF Followed, HostInv
        <3> QED BY <3>1, <3>2, <3>3 DEF HostInv
    <2> QED BY <2>1, <2>2
<1>6. LengthInv'
    <2> DEFINE cl == "content-length"
    <2> HIDE DEF cl
    <2>1. CASE e.key = cl
        <3>1. Editing(cl)' /\ content_length_n' = NumberOf(edit'.value)
            <4>1. content_length_n' = IF e.value = "" THEN -1 ELSE Number[e.value]
                BY <2>1 DEF BeginEdit, cl
            <4>2. Editing(cl)'
                BY <1>0, <1>1, <2>1 DEF Editing
            <4> QED BY <1>0, <4>1, <4>2 DEF NumberOf
        <3>2. Sets' /\ edit'.replace /\ HeadCell(cl)' = 0 => imposed'
            <4>1. imposed' = (e.value # "" /\ e.replace /\ ~(FirstNamed(Lines, e.key) # 0))
                BY <2>1 DEF BeginEdit, cl
            <4>2. Sets' => e.value # ""
                BY <1>0 DEF Sets
            <4>3. HeadCell(cl) = 0 => FirstNamed(Lines, cl) = 0
                <5>1. cell \in Seq(Line)
                    BY DEF Sound
                <5>2. Listed \in Seq(Cells(cell)) /\ Lines = LinesOf(cell, Listed)
                    BY ListedSound
                <5>3. /\ HeadOf(cell, Listed, cl) = 0 <=> ~HasKey(cell, Listed, cl)
                      /\ FirstNamed(LinesOf(cell, Listed), cl) = 0 <=> ~HasKey(cell, Listed, cl)
                    BY ONLY <5>1, <5>2, HeadIs
                <5> QED BY <5>2, <5>3 DEF HeadCell
            <4>4. HeadCell(cl)' = HeadCell(cl)
                BY <1>2
            <4> QED BY <1>0, <2>1, <4>1, <4>2, <4>3, <4>4
        <3> QED BY <3>1, <3>2 DEF LengthInv, cl
    <2>2. CASE e.key # cl
        <3>1. ~Editing(cl)' /\ ~Editing(cl)
            BY <1>0, <2>2 DEF Editing
        <3>2. content_length_n' = content_length_n /\ imposed' = imposed
            BY <2>2 DEF BeginEdit, cl
        <3>3. HeadValue(cl)' = HeadValue(cl)
            BY <1>2, <2>2 DEF OthersStay
        <3>4. imposed \/ content_length_n = NumberOf(HeadValue(cl))
            BY <3>1 DEF Followed, LengthInv, cl
        <3>5. imposed' \/ content_length_n' = NumberOf(HeadValue(cl)')
            BY <3>2, <3>3, <3>4
        <3> QED BY <3>1, <3>5 DEF LengthInv, cl
    <2> QED BY <2>1, <2>2
<1> QED BY <1>3, <1>4, <1>5, <1>6 DEF Followed

\* A header ends: its name has the value it gives, or none and is not to be added.
LEMMA EndFollows ==
    ASSUME Followed, edit # NoEdit, edit' = NoEdit, NEW key, key = edit.key, OthersStay(key),
           slot' \in [Builtin -> Nat], \A b \in Builtin : slot'[b] = HeadCell(b)',
           UNCHANGED <<server, content_length_n, imposed>>,
           \/ HeadValue(key)' = edit.value
           \/ HeadValue(key)' = "" /\ (Sets => edit.replace /\ HeadCell(key) = 0)
    PROVE  Followed'
<1>1. \A k : ~Editing(k)'
    BY DEF Editing
<1>2. SlotInv'
    BY DEF SlotInv
<1>3. WasInv'
    BY DEF WasInv, Sets, Clears
<1>4. edit.value # "" => Sets
    BY DEF Sets
<1>5. HostInv'
    <2>1. CASE key = "host"
        <3>1. server = edit.value
            BY <2>1 DEF Followed, HostInv, Editing
        <3>2. server' = HeadValue("host")' \/ HeadValue("host")' = ""
            BY <2>1, <3>1
        <3> QED BY <1>1, <3>2 DEF HostInv
    <2>2. CASE key # "host"
        <3>1. server = HeadValue("host") \/ HeadValue("host") = ""
            BY <2>2 DEF Followed, HostInv, Editing
        <3>2. HeadValue("host")' = HeadValue("host")
            BY <2>2 DEF OthersStay
        <3>3. server' = HeadValue("host")' \/ HeadValue("host")' = ""
            BY <3>1, <3>2
        <3> QED BY <1>1, <3>3 DEF HostInv
    <2> QED BY <2>1, <2>2
<1>6. LengthInv'
    <2> DEFINE cl == "content-length"
    <2> HIDE DEF cl
    <2>1. CASE key = cl
        <3>1. /\ content_length_n = NumberOf(edit.value)
              /\ Sets /\ edit.replace /\ HeadCell(cl) = 0 => imposed
            BY <2>1 DEF Followed, LengthInv, Editing, cl
        <3>2. CASE HeadValue(cl)' = edit.value
            <4>1. content_length_n' = NumberOf(HeadValue(cl)')
                BY <3>1, <3>2
            <4> QED BY <1>1, <4>1 DEF LengthInv, cl
        <3>3. CASE HeadValue(cl)' = "" /\ edit.value # ""
            <4>1. edit.replace /\ HeadCell(cl) = 0
                BY <1>4, <2>1, <3>3
            <4>2. imposed'
                BY <1>4, <3>1, <3>3, <4>1
            <4> QED BY <1>1, <4>2 DEF LengthInv
        <3> QED BY <2>1, <3>2, <3>3
    <2>2. CASE key # cl
        <3>1. imposed \/ content_length_n = NumberOf(HeadValue(cl))
            BY <2>2 DEF Followed, LengthInv, Editing, cl
        <3>2. HeadValue(cl)' = HeadValue(cl)
            BY <2>2 DEF OthersStay
        <3>3. imposed' \/ content_length_n' = NumberOf(HeadValue(cl)')
            BY <3>1, <3>2
        <3> QED BY <1>1, <3>3 DEF LengthInv, cl
    <2> QED BY <2>1, <2>2
<1> QED BY <1>2, <1>3, <1>5, <1>6 DEF Followed

\* What InputEdited says of a step.
EndsAsMeant == edit # NoEdit /\ edit' = NoEdit => Lines' = Edited(was, edit)

\* What a set of a name there is a line of means.
LEMMA EditedThere ==
    ASSUME WasInv, Sets, FirstNamed(Lines, edit.key) # 0
    PROVE  Edited(was, edit) = [Lines EXCEPT ![FirstNamed(Lines, edit.key)].value = edit.value]
<1>1. was = Lines /\ edit.value # ""
    BY DEF WasInv, Sets
<1> QED BY <1>1 DEF Edited

\* The first line of the name takes the value, found through the pointer or by
\* the search.
LEMMA SetFollows ==
    ASSUME Sound, Followed, IsValue(edit.value), Sets, NEW a, NEW x, NEW b,
           Found(edit.key, a, x, b),
           cell' = [cell EXCEPT ![x].value = edit.value], parts' = parts,
           edit' = NoEdit, UNCHANGED <<server, content_length_n, imposed>>,
           slot' = slot \/ (edit.key \in Builtin /\ slot' = [slot EXCEPT ![edit.key] = x])
    PROVE  Followed' /\ EndsAsMeant
<1>k. PICK key, v : key = edit.key /\ v = edit.value
    OBVIOUS
<1>0. edit # NoEdit /\ v # ""
    BY <1>k DEF Sets
<1>c. ~Clears
    BY <1>0, <1>k DEF Clears
<1>1. Found(key, a, x, b) /\ IsValue(v) /\ Revalue(x, v)
    BY <1>k DEF Revalue
<1>2. /\ \A k : HeadCell(k)' = HeadCell(k)
      /\ OthersStay(key)
      /\ HeadValue(key)' = v
      /\ Lines' = [Lines EXCEPT ![FirstNamed(Lines, key)].value = v]
    BY <1>1, HeadRevalued
<1>3. HeadCell(key) = x /\ FirstNamed(Lines, key) # 0
    <2>1. FirstNamed(Lines, key) = Len(a) + 1 /\ a \in Seq(Cells(cell)) /\ HeadCell(key) = x
        BY <1>1 DEF Found
    <2>2. Len(a) \in Nat
        BY <2>1, LenProperties
    <2> QED BY ONLY <2>1, <2>2
<1>4. \A k \in Builtin : slot[k] = HeadCell(k)
    BY <1>c DEF Followed, SlotInv
<1>5. slot' \in [Builtin -> Nat] /\ \A k \in Builtin : slot'[k] = HeadCell(k)'
    <2>1. slot \in [Builtin -> Nat]
        BY DEF Followed, SlotInv
    <2>2. key \in Builtin => [slot EXCEPT ![key] = x] = slot
        BY <1>3, <1>4, <2>1
    <2>3. slot' = slot
        BY <1>k, <2>2
    <2> QED BY <1>2, <1>4, <2>1, <2>3
<1>6. Followed'
    <2>1. HeadValue(key)' = edit.value
        BY <1>2, <1>k
    <2> QED BY <1>0, <1>2, <1>5, <1>k, <2>1, EndFollows
<1>7. EndsAsMeant
    <2>1. Edited(was, edit) = [Lines EXCEPT ![FirstNamed(Lines, key)].value = v]
        BY <1>3, <1>k, EditedThere DEF Followed
    <2> QED BY <1>2, <2>1 DEF EndsAsMeant
<1> QED BY <1>6, <1>7

\* Through a pointer, which is to the first line of its name.
LEMMA SetThroughSlotFollows ==
    ASSUME Sound, Followed, IsValue(edit.value), SetThroughSlot
    PROVE  Followed' /\ EndsAsMeant
<1>1. /\ Sets /\ SlotCell # 0 /\ edit' = NoEdit /\ slot' = slot /\ parts' = parts
      /\ cell' = [cell EXCEPT ![SlotCell].value = edit.value]
      /\ UNCHANGED <<server, content_length_n, imposed>>
    BY DEF SetThroughSlot, Finish
<1>2. edit.key \in Builtin /\ SlotCell = slot[edit.key]
    BY <1>1 DEF SlotCell, IsBuiltin
<1>3. HeadCell(edit.key) = SlotCell
    BY <1>1, <1>2 DEF Followed, SlotInv, Sets, Clears
<1>4. PICK a, x, b : Found(edit.key, a, x, b)
    BY <1>1, <1>3, HeadExists
<1>5. x = SlotCell
    BY <1>3, <1>4 DEF Found
<1>6. cell' = [cell EXCEPT ![x].value = edit.value]
    BY <1>1, <1>5
<1> QED BY <1>1, <1>4, <1>6, SetFollows

\* By the search, which finds the first line of the name.
LEMMA ReplaceMatchFollows ==
    ASSUME Sound, Followed, IsValue(edit.value), ReplaceMatch
    PROVE  Followed' /\ EndsAsMeant
<1>1. /\ Sets /\ MatchPart # 0 /\ edit' = NoEdit /\ parts' = parts
      /\ cell' = [cell EXCEPT ![MatchCell].value = edit.value]
      /\ UNCHANGED <<server, content_length_n, imposed>>
      /\ slot' = IF edit.key \in Builtin THEN [slot EXCEPT ![edit.key] = MatchCell] ELSE slot
    BY DEF ReplaceMatch, Finish, SetSlotTo, IsBuiltin
<1>2. PICK a, x, b : x = MatchCell /\ Found(edit.key, a, x, b)
    BY <1>1, MatchIsHead
<1>3. /\ cell' = [cell EXCEPT ![x].value = edit.value]
      /\ slot' = slot \/ (edit.key \in Builtin /\ slot' = [slot EXCEPT ![edit.key] = x])
    BY <1>1, <1>2
<1> QED BY <1>1, <1>2, <1>3, SetFollows

\* There is no line of the name, and none is wanted.
LEMMA NothingFollows ==
    ASSUME Sound, Followed, NothingToDo
    PROVE  Followed' /\ EndsAsMeant
<1>k. PICK key : key = edit.key
    OBVIOUS
<1>1. /\ edit # NoEdit /\ MatchPart = 0 /\ (Clears \/ edit.replace) /\ edit' = NoEdit
      /\ UNCHANGED <<cell, parts, slot, server, content_length_n, imposed>>
    BY DEF NothingToDo, InHelper, Finish, listVars
<1>2. HeadCell(key) = 0 /\ FirstNamed(Lines, key) = 0 /\ ~HasKey(cell, Listed, key)
    BY <1>1, <1>k, MatchNone
<1>3. /\ \A k : HeadCell(k)' = HeadCell(k) /\ HeadValue(k)' = HeadValue(k)
      /\ Lines' = Lines
    BY <1>1, ListStays
<1>4. HeadValue(key)' = ""
    <2>1. HeadValue(key) = ""
        BY <1>2 DEF HeadValue
    <2> QED BY <1>3, <2>1
<1>5. slot' \in [Builtin -> Nat] /\ \A b \in Builtin : slot'[b] = HeadCell(b)'
    BY <1>1, <1>2, <1>3, <1>k DEF Followed, SlotInv
<1>6. OthersStay(key)
    BY <1>3 DEF OthersStay
<1>7. Sets => edit.replace
    BY <1>1 DEF Sets, Clears
<1>8. Followed'
    BY <1>1, <1>2, <1>4, <1>5, <1>6, <1>7, <1>k, EndFollows
<1>9. Lines' = Edited(was, edit)
    <2>1. CASE edit.value = ""
        <3>1. Without(Lines, key) = Without(was, key)
            BY <1>1, <1>k, <2>1 DEF Followed, WasInv, Clears
        <3>2. Without(Lines, key) = Lines
            <4>1. cell \in Seq(Line) /\ Listed \in Seq(Cells(cell)) /\ Lines = LinesOf(cell, Listed)
                BY ListedSound DEF Sound
            <4>2. /\ Lines \in Seq(Line) /\ Len(Lines) = Len(Listed)
                  /\ \A i \in 1..Len(Listed) : Lines[i] = cell[Listed[i]]
                BY <4>1, LinesType
            <4>3. \A i \in 1..Len(Lines) : Lines[i].key # key
                BY <1>2, <4>2 DEF HasKey
            <4>4. Lines \in Seq(Line)
                BY <4>2
            <4> QED BY ONLY <4>3, <4>4, WithoutNone
        <3>3. Edited(was, edit) = Without(was, key)
            BY <1>k, <2>1 DEF Edited
        <3> QED BY <1>3, <3>1, <3>2, <3>3
    <2>2. CASE edit.value # ""
        <3>1. Sets /\ edit.replace
            BY <1>1, <1>7, <2>2 DEF Sets
        <3>2. Lines = was
            BY <3>1 DEF Followed, WasInv
        <3>3. Edited(was, edit) = was
            BY <1>2, <1>k, <2>2, <3>1, <3>2 DEF Edited
        <3> QED BY <1>3, <3>2, <3>3
    <2> QED BY <2>1, <2>2
<1> QED BY <1>8, <1>9 DEF EndsAsMeant

\* A line of the name is added behind the others.
LEMMA PushFollows ==
    ASSUME Sound, Followed, edit \in Edit, PushLine
    PROVE  Followed' /\ EndsAsMeant
<1> DEFINE new == [key |-> edit.key, value |-> edit.value]
<1>k. PICK key, line, c : key = edit.key /\ line = new /\ c = Len(cell) + 1
    OBVIOUS
<1>1. /\ edit # NoEdit /\ edit.value # "" /\ MatchPart = 0 /\ ~edit.replace /\ edit' = NoEdit
      /\ UNCHANGED <<server, content_length_n, imposed>>
      /\ slot' = IF key \in Builtin THEN [slot EXCEPT ![key] = c] ELSE slot
      /\ cell' = Append(cell, line)
    BY <1>k DEF PushLine, Pushes, Sets, Finish, SetSlotTo, IsBuiltin
<1>2. HeadCell(key) = 0 /\ FirstNamed(Lines, key) = 0
    BY <1>1, <1>k, MatchNone
<1>3. line \in Line /\ line.key = key /\ line.value = edit.value
    BY <1>k DEF Edit, Line
<1>4. c \in Nat
    <2>1. Len(cell) \in Nat
        BY LenProperties DEF Sound
    <2> QED BY <1>k, <2>1
<1>5. Listed' = Listed \o <<c>>
    <2>1. ListOK(parts, nalloc)
        BY DEF Sound
    <2>2. parts' = IF Len(parts[Len(parts)].cells) = nalloc
                   THEN Append(parts, [cells |-> <<c>>, room |-> nalloc])
                   ELSE [parts EXCEPT ![Len(parts)].cells = Append(@, c)]
        BY <1>k DEF PushLine
    <2> QED BY ONLY <1>4, <2>1, <2>2, ListedPushed
<1>6. /\ OthersStay(key)
      /\ HeadCell(key)' = c /\ HeadValue(key)' = edit.value
      /\ Lines' = Append(Lines, line)
    <2>1. HeadCell(line.key) = 0
        BY <1>2, <1>3
    <2>2. Listed' = Listed \o <<Len(cell) + 1>>
        BY <1>5, <1>k
    <2>3. /\ OthersStay(line.key)
          /\ HeadCell(line.key)' = Len(cell) + 1 /\ HeadValue(line.key)' = line.value
          /\ Lines' = Append(Lines, line)
        BY <1>1, <1>3, <2>1, <2>2, HeadPushed
    <2> QED BY <1>3, <1>k, <2>3
<1>7. slot' \in [Builtin -> Nat] /\ \A b \in Builtin : slot'[b] = HeadCell(b)'
    <2>1. slot \in [Builtin -> Nat] /\ \A b \in Builtin : slot[b] = HeadCell(b)
        BY <1>1 DEF Followed, SlotInv, Clears
    <2>2. \A b \in Builtin : b # key => HeadCell(b)' = HeadCell(b)
        BY <1>6 DEF OthersStay
    <2> QED BY <1>1, <1>4, <1>6, <2>1, <2>2
<1>8. Followed'
    BY <1>1, <1>6, <1>7, <1>k, EndFollows
<1>9. Lines' = Edited(was, edit)
    <2>1. Lines = was
        BY <1>1 DEF Followed, WasInv, Sets
    <2>2. Edited(was, edit) = Append(was, new)
        BY <1>1, <1>2, <1>k, <2>1 DEF Edited
    <2> QED BY <1>6, <1>k, <2>1, <2>2
<1> QED BY <1>8, <1>9 DEF EndsAsMeant

\* A line of the name is removed and the search goes on.
LEMMA RemoveFollows ==
    ASSUME Sound, Followed, RemoveMatch, ~spoiled'
    PROVE  Followed' /\ EndsAsMeant
<1>k. PICK key : key = edit.key
    OBVIOUS
<1>1. PICK o \in Removals(MatchPart, Match(MatchPart)) :
        /\ parts' = o.parts
        /\ IF o.ok THEN SetSlotTo(0) /\ UNCHANGED <<cell, edit, spoiled>>
           ELSE spoiled' = TRUE
    BY DEF RemoveMatch
<1>2. o.ok /\ cell' = cell /\ edit' = edit
      /\ slot' = IF key \in Builtin THEN [slot EXCEPT ![key] = 0] ELSE slot
    BY <1>1, <1>k DEF SetSlotTo, IsBuiltin
<1>3. /\ edit # NoEdit /\ edit.value = "" /\ MatchPart # 0
      /\ UNCHANGED <<server, content_length_n, was, imposed>>
    BY DEF RemoveMatch, Clears
<1>4. OthersStay(edit.key) /\ Without(Lines', edit.key) = Without(Lines, edit.key)
    BY <1>1, <1>2, <1>3, HeadRemoved
<1>5. OthersStay(key) /\ Without(Lines', key) = Without(Lines, key)
    BY <1>4, <1>k
<1>c. Clears' /\ Clears /\ ~Sets' /\ edit'.key = key
    BY <1>2, <1>3, <1>k DEF Clears, Sets
<1>6. SlotInv'
    <2>1. slot \in [Builtin -> Nat] /\ \A b \in Builtin : b # key => slot[b] = HeadCell(b)
        BY <1>k DEF Followed, SlotInv
    <2>2. slot' \in [Builtin -> Nat] /\ \A b \in Builtin :
                slot'[b] = HeadCell(b)' \/ (slot'[b] = 0 /\ b = key)
        BY <1>2, <1>5, <2>1 DEF OthersStay
    <2> QED BY <1>c, <2>2 DEF SlotInv
<1>7. WasInv'
    <2>1. Without(Lines, key) = Without(was, key)
        BY <1>c, <1>k DEF Followed, WasInv
    <2>2. Without(Lines', edit'.key) = Without(was', edit'.key)
        BY <1>3, <1>5, <1>c, <2>1
    <2> QED BY <1>c, <2>2 DEF WasInv
<1>8. \A k : Editing(k)' <=> Editing(k)
    BY <1>2 DEF Editing
<1>9. HostInv'
    <2>1. CASE key = "host"
        <3>1. server = edit.value /\ Editing("host")
            BY <1>3, <1>k, <2>1 DEF Followed, HostInv, Editing
        <3> QED BY <1>2, <1>3, <1>8, <3>1 DEF HostInv
    <2>2. CASE key # "host"
        <3>1. (server = HeadValue("host") \/ HeadValue("host") = "") /\ ~Editing("host")
            BY <1>k, <2>2 DEF Followed, HostInv, Editing
        <3>2. HeadValue("host")' = HeadValue("host")
            BY <1>5, <2>2 DEF OthersStay
        <3>3. server' = HeadValue("host")' \/ HeadValue("host")' = ""
            BY <1>3, <3>1, <3>2
        <3> QED BY <1>8, <3>1, <3>3 DEF HostInv
    <2> QED BY <2>1, <2>2
<1>10. LengthInv'
    <2> DEFINE cl == "content-length"
    <2> HIDE DEF cl
    <2>1. CASE key = cl
        <3>1. content_length_n = NumberOf(edit.value) /\ Editing(cl)
            BY <1>3, <1>k, <2>1 DEF Followed, LengthInv, Editing, cl
        <3>2. content_length_n' = NumberOf(edit'.value)
            BY <1>2, <1>3, <3>1
        <3> QED BY <1>8, <1>c, <3>1, <3>2 DEF LengthInv, cl
    <2>2. CASE key # cl
        <3>1. (imposed \/ content_length_n = NumberOf(HeadValue(cl))) /\ ~Editing(cl)
            BY <1>k, <2>2 DEF Followed, LengthInv, Editing, cl
        <3>2. HeadValue(cl)' = HeadValue(cl)
            BY <1>5, <2>2 DEF OthersStay
        <3>3. imposed' \/ content_length_n' = NumberOf(HeadValue(cl)')
            BY <1>3, <3>1, <3>2
        <3> QED BY <1>8, <3>1, <3>3 DEF LengthInv, cl
    <2> QED BY <2>1, <2>2
<1>11. EndsAsMeant
    BY <1>2, <1>3 DEF EndsAsMeant
<1> QED BY <1>6, <1>7, <1>9, <1>10, <1>11 DEF Followed

------------------------------------------------------------------------------
(* A request that is read                                                  *)

\* How many lines are read when part p is full, or all are.
ReadTo(L, p) == Behind(p) + Len(RunRead(L, p))

\* The runs of a request that is read, joined, count all its lines.
LEMMA RunsJoined ==
    ASSUME NEW L \in Nat, NEW K \in Nat \ {0},
           {p \in 1..L : Behind(p) < L} \cup {1} = 1..K
    PROVE  FlattenSeq([p \in 1..K |-> RunRead(L, p)]) = [i \in 1..L |-> i]
<1> DEFINE runs == [p \in 1..K |-> RunRead(L, p)]
<1>0. ListSize \in Nat /\ ListSize > 0
    BY HeadersInAssumption
<1>1. \A p \in 1..K : p \in Nat \ {0} /\ (Behind(p) < L \/ p = 1)
    OBVIOUS
<1>2. \A p \in 1..K :
        /\ RunRead(L, p) \in Seq(Nat) /\ Len(RunRead(L, p)) \in Nat
        /\ Behind(p) + Len(RunRead(L, p)) = IF p * ListSize <= L THEN p * ListSize ELSE L
        /\ \A i \in 1..Len(RunRead(L, p)) : RunRead(L, p)[i] = Behind(p) + i
    <2> TAKE p \in 1..K
    <2>1. p \in Nat \ {0} /\ (Behind(p) < L \/ p = 1)
        BY <1>1
    <2> QED BY ONLY L \in Nat, <2>1, RunIsRead
<1>3. \A p \in 1..K : Behind(p) \in Nat /\ ReadTo(L, p) \in Nat
    BY <1>1, <1>2, RunsApart DEF ReadTo
<1>4. runs \in Seq(Seq(Nat)) /\ Len(runs) = K /\ \A p \in 1..K : runs[p] = RunRead(L, p)
    BY <1>2
<1> HIDE DEF runs
<1>5. PICK f \in [1..Len(runs) -> Seq(Nat)] :
              /\ f[1] = runs[1]
              /\ \A i \in 2..Len(runs) : f[i] = f[i - 1] \o runs[i]
              /\ FlattenSeq(runs) = f[Len(runs)]
    <2>1. Len(runs) > 0
        BY <1>4
    <2> QED BY <1>4, <2>1, FlattenSteps
<1> DEFINE Counts(s, m) == s \in Seq(Nat) /\ Len(s) = m /\ \A i \in 1..m : s[i] = i
           T == {p \in 1..K : Counts(f[p], ReadTo(L, p))}
<1>6. 1 \in T
    <2>1. 1 \in 1..K /\ f[1] = RunRead(L, 1)
        BY <1>4, <1>5
    <2>2. Behind(1) = 0
        BY <1>0 DEF Behind
    <2>3. ReadTo(L, 1) = Len(RunRead(L, 1))
        BY <1>2, <2>1, <2>2 DEF ReadTo
    <2> QED BY <1>2, <2>1, <2>2, <2>3
<1>7. ASSUME NEW m \in 1..K, m < K, m \in T PROVE m + 1 \in T
    <2> DEFINE q == m + 1
               run == RunRead(L, q)
               d == ReadTo(L, m)
    <2>1. q \in 2..K /\ q \in 1..K /\ q - 1 = m
        BY <1>7
    <2>2. d \in Nat /\ Counts(f[m], d)
        BY <1>3, <1>7
    <2>3. Behind(q) = d
        <3>1. Behind(q) < L
            BY <1>1, <2>1
        <3>2. Behind(q) = m * ListSize
            BY <2>1 DEF Behind
        <3>3. m * ListSize \in Nat
            <4>1. m \in Nat
                OBVIOUS
            <4> QED BY ONLY <1>0, <4>1, Times
        <3>4. d = IF m * ListSize <= L THEN m * ListSize ELSE L
            BY <1>2 DEF ReadTo
        <3> DEFINE z == m * ListSize
        <3> HIDE DEF z, d
        <3>5. Behind(q) < L /\ Behind(q) = z /\ z \in Nat /\ d = IF z <= L THEN z ELSE L
            BY <3>1, <3>2, <3>3, <3>4 DEF z
        <3> HIDE DEF q
        <3> QED BY ONLY <3>5, L \in Nat
    <2>4. /\ run \in Seq(Nat) /\ Len(run) \in Nat /\ ReadTo(L, q) = d + Len(run)
          /\ \A i \in 1..Len(run) : run[i] = d + i
        BY <1>2, <2>1, <2>3 DEF ReadTo
    <2>5. f[q] = f[m] \o run
        BY <1>4, <1>5, <2>1
    <2> HIDE DEF q, run, d
    <2>6. /\ f[q] \in Seq(Nat) /\ Len(f[q]) = d + Len(run)
          /\ \A i \in 1..(d + Len(run)) : f[q][i] = IF i <= d THEN f[m][i] ELSE run[i - d]
        <3>1. f[m] \in Seq(Nat) /\ Len(f[m]) = d
            BY <2>2
        <3>2. run \in Seq(Nat)
            BY <2>4
        <3>3. f[m] \o run \in Seq(Nat) /\ Len(f[m] \o run) = Len(f[m]) + Len(run)
            BY <3>1, <3>2, ConcatProperties
        <3>4. \A i \in 1..(Len(f[m]) + Len(run)) :
                (f[m] \o run)[i] = IF i <= Len(f[m]) THEN f[m][i] ELSE run[i - Len(f[m])]
            BY <3>1, <3>2, ConcatProperties
        <3> QED BY <2>5, <3>1, <3>3, <3>4
    <2>7. \A i \in 1..(d + Len(run)) : f[q][i] = i
        <3> TAKE i \in 1..(d + Len(run))
        <3>1. CASE i <= d
            <4>1. i \in 1..d
                BY <2>2, <2>4, <3>1
            <4> QED BY <2>2, <2>6, <3>1, <4>1
        <3>2. CASE ~(i <= d)
            <4>1. i - d \in 1..Len(run) /\ d + (i - d) = i
                BY <2>2, <2>4, <3>2
            <4> QED BY <2>4, <2>6, <3>2, <4>1
        <3> QED BY <3>1, <3>2
    <2>8. Counts(f[q], ReadTo(L, q))
        BY <2>4, <2>6, <2>7
    <2> HIDE DEF Counts
    <2> QED BY <2>1, <2>8 DEF q
<1>8. K \in T
    <2> HIDE DEF T
    <2>1. K \in 1..K
        OBVIOUS
    <2> QED BY <1>6, <1>7, <2>1, Induction
<1>9. ReadTo(L, K) = L
    <2>1. K + 1 \notin 1..K /\ K \in 1..K
        OBVIOUS
    <2>2. K + 1 > L \/ ~(Behind(K + 1) < L)
        <3> DEFINE S == {p \in 1..L : Behind(p) < L} \cup {1}
        <3>1. K + 1 \notin S
            <4>1. S = 1..K
                OBVIOUS
            <4> HIDE DEF S
            <4> QED BY <2>1, <4>1
        <3>2. K + 1 \notin 1..L \/ ~(Behind(K + 1) < L)
            BY <3>1
        <3>3. K + 1 \notin 1..L => K + 1 > L
            OBVIOUS
        <3> QED BY <3>2, <3>3
    <2>3. Behind(K + 1) = K * ListSize
        BY DEF Behind
    <2>4. K * ListSize \in Nat /\ K <= K * ListSize
        <3>1. ListSize - 1 \in Nat /\ K \in Nat
            BY <1>0
        <3>2. (ListSize - 1) * K \in Nat /\ ((ListSize - 1) + 1) * K = (ListSize - 1) * K + K
            BY <3>1, Times
        <3>3. (ListSize - 1) + 1 = ListSize /\ ListSize * K = K * ListSize
            BY <1>0
        <3> QED BY <3>1, <3>2, <3>3
    <2>5. ~(K * ListSize < L)
        BY <2>2, <2>3, <2>4
    <2> QED BY <1>2, <2>1, <2>4, <2>5 DEF ReadTo
<1>10. f[K] = [i \in 1..L |-> i]
    <2>1. f[K] \in Seq(Nat) /\ Len(f[K]) = L /\ \A i \in 1..L : f[K][i] = i
        BY <1>8, <1>9
    <2> DEFINE g == f[K]
    <2> HIDE DEF g
    <2>2. g \in Seq(Nat) /\ Len(g) = L /\ \A i \in 1..L : g[i] = i
        BY <2>1 DEF g
    <2>3. g = [i \in 1..L |-> i]
        BY ONLY <2>2
    <2> QED BY <2>3 DEF g
<1> QED BY <1>4, <1>5, <1>10 DEF runs

\* The list of a request that is read has its lines in order.
LEMMA ListedRead ==
    ASSUME NEW lines \in Seq(Line), Receive(lines)
    PROVE  Listed' = [i \in 1..Len(lines) |-> i] /\ Lines' = lines
<1> DEFINE L == Len(lines)
           Holds(p) == Behind(p) < L
           parted == {p \in 1..L : Holds(p)} \cup {1}
           part(p) == [cells |-> RunRead(L, p), room |-> ListSize]
<1>0. L \in Nat /\ DOMAIN lines = 1..L
    BY LenProperties
<1>1. parts' = [p \in parted |-> part(p)] /\ cell' = lines
    BY <1>0 DEF Receive, Behind, RunRead
<1>2. PICK K \in Nat \ {0} : parted = 1..K
    BY <1>0, PartsRead
<1>3. FlattenSeq([p \in 1..K |-> RunRead(L, p)]) = [i \in 1..L |-> i]
    <2>1. {p \in 1..L : Behind(p) < L} \cup {1} = 1..K
        BY <1>2
    <2> HIDE DEF L
    <2> QED BY <1>0, <2>1, RunsJoined
<1>4. Listed' = FlattenSeq([p \in 1..K |-> RunRead(L, p)])
    <2> HIDE DEF L, parted
    <2>1. parts' = [p \in 1..K |-> part(p)]
        BY <1>1, <1>2
    <2>2. DOMAIN parts' = 1..K /\ \A p \in 1..K : parts'[p].cells = RunRead(L, p)
        BY <2>1
    <2>3. [p \in DOMAIN parts' |-> parts'[p].cells] = [p \in 1..K |-> RunRead(L, p)]
        BY <2>2
    <2>4. Listed' = FlattenSeq([p \in DOMAIN parts' |-> parts'[p].cells])
        BY DEF Listed, ListedIn
    <2> QED BY <2>3, <2>4
<1>5. Listed' = [i \in 1..L |-> i]
    BY <1>3, <1>4
<1>6. Lines' = lines
    <2>1. Lines' = [i \in DOMAIN Listed' |-> lines[Listed'[i]]]
        BY <1>1 DEF Lines
    <2>2. DOMAIN Listed' = 1..L /\ \A i \in 1..L : Listed'[i] = i
        BY <1>5
    <2>3. Lines' = [i \in 1..L |-> lines[i]]
        BY <2>1, <2>2
    <2>4. lines = [i \in 1..L |-> lines[i]]
        BY <1>0
    <2> QED BY <2>3, <2>4
<1> QED BY <1>5, <1>6

\* Its pointers and fields are those of its first lines.
LEMMA ReceiveFollows ==
    ASSUME Followed, edit = NoEdit, NEW lines \in Seq(Line), Receive(lines)
    PROVE  Followed'
<1>1. /\ edit' = edit /\ imposed' = imposed /\ cell' = lines
      /\ slot' = [b \in Builtin |-> FirstNamed(lines, b)]
      /\ server' = FirstValue(lines, "host")
    BY DEF Receive
<1>2. Listed' = [i \in 1..Len(lines) |-> i] /\ Lines' = lines
    BY ListedRead
<1>0. Len(lines) \in Nat
    BY LenProperties
<1>3. \A k : FirstNamed(lines, k) = 0 \/ FirstNamed(lines, k) \in 1..Len(lines)
    <2> TAKE k
    <2>1. CASE \E j \in 1..Len(lines) : lines[j].key = k
        BY <2>1, FirstIs
    <2>2. CASE ~\E j \in 1..Len(lines) : lines[j].key = k
        <3>1. \A j \in 1..Len(lines) : lines[j].key # k
            BY <2>2
        <3>2. FirstNamed(lines, k) = 0
            BY ONLY <3>1, lines \in Seq(Line), FirstNone
        <3> QED BY <3>2
    <2> QED BY <2>1, <2>2
<1>4. \A k : HeadCell(k)' = FirstNamed(lines, k)
    <2> TAKE k
    <2>1. HeadCell(k)' = IF FirstNamed(Lines', k) = 0 THEN 0 ELSE Listed'[FirstNamed(Lines', k)]
        BY Zenon DEF HeadCell, HeadOf, LinesOf, Lines
    <2> QED BY <1>2, <1>3, <2>1
<1>5. \A k : HeadValue(k)' = FirstValue(lines, k)
    <2> TAKE k
    <2>1. HeadCell(k)' = FirstNamed(lines, k)
        BY <1>4
    <2>2. HeadValue(k)' = IF HeadCell(k)' = 0 THEN "" ELSE cell'[HeadCell(k)'].value
        BY DEF HeadValue
    <2>3. FirstValue(lines, k)
            = IF FirstNamed(lines, k) = 0 THEN "" ELSE lines[FirstNamed(lines, k)].value
        BY DEF FirstValue
    <2> QED BY <1>1, <2>1, <2>2, <2>3
<1>6. \A k : ~Editing(k)'
    BY <1>1 DEF Editing
<1>7. SlotInv'
    <2>1. \A k \in Builtin : slot'[k] = HeadCell(k)'
        BY <1>1, <1>4
    <2>2. slot' \in [Builtin -> Nat]
        <3>1. \A k \in Builtin : FirstNamed(lines, k) \in Nat
            BY <1>0, <1>3
        <3> QED BY <1>1, <3>1
    <2> QED BY <2>1, <2>2 DEF SlotInv
<1>8. WasInv'
    BY <1>1 DEF WasInv, Sets, Clears
<1>9. HostInv'
    <2>1. server' = HeadValue("host")'
        BY <1>1, <1>5
    <2> QED BY <1>6, <2>1 DEF HostInv
<1>10. LengthInv'
    <2> DEFINE cl == "content-length"
    <2> HIDE DEF cl
    <2>1. content_length_n' = NumberOf(FirstValue(lines, cl))
        BY DEF Receive, NumberOf, cl
    <2>2. content_length_n' = NumberOf(HeadValue(cl)')
        BY <1>5, <2>1
    <2> QED BY <1>6, <2>2 DEF LengthInv, cl
<1> QED BY <1>7, <1>8, <1>9, <1>10 DEF Followed

------------------------------------------------------------------------------
(* The types of the list, the pointers and the fields                      *)

\* The list by its types alone, also where a removal has failed: parts of these
\* many elements, one at least, and a number.
Placed(made) == [cells : Seq(1..made), room : Int]
ListTyped(ps, known, made) == ps \in Seq(Placed(made)) /\ Len(ps) > 0 /\ known \in Nat

\* It is a list of parts.
LEMMA PlacedParts ==
    ASSUME NEW made \in Nat, NEW ps \in Seq(Placed(made))
    PROVE  /\ ps \in Seq(Part) /\ Len(ps) \in Nat /\ DOMAIN ps = 1..Len(ps)
           /\ \A p \in 1..Len(ps) : /\ ps[p] \in Placed(made) /\ ps[p].cells \in Seq(1..made)
                                    /\ ps[p].room \in Int
<1>1. Len(ps) \in Nat /\ DOMAIN ps = 1..Len(ps)
    BY LenProperties
<1>2. \A p \in 1..Len(ps) : ps[p] \in Placed(made)
    BY ElementOfSeq
<1>3. Placed(made) \subseteq Part
    <2>1. 1..made \subseteq Nat
        OBVIOUS
    <2>2. Seq(1..made) \subseteq Seq(Nat)
        BY <2>1, SeqOfSubset
    <2> QED BY <2>2 DEF Placed, Part
<1>4. ps \in Seq(Part)
    BY <1>3, SeqOfSubset
<1> QED BY <1>1, <1>2, <1>4 DEF Placed

\* One more element is made.
LEMMA PlacedGrow ==
    ASSUME NEW made \in Nat, NEW ps \in Seq(Placed(made))
    PROVE  ps \in Seq(Placed(made + 1))
<1>1. 1..made \subseteq 1..(made + 1)
    OBVIOUS
<1>2. Seq(1..made) \subseteq Seq(1..(made + 1))
    BY <1>1, SeqOfSubset
<1>3. Placed(made) \subseteq Placed(made + 1)
    BY <1>2 DEF Placed
<1> QED BY <1>3, SeqOfSubset

\* A part of elements that have been made.
LEMMA PartPlaced ==
    ASSUME NEW made, NEW t \in Seq(1..made), NEW n \in Int
    PROVE  [cells |-> t, room |-> n] \in Placed(made)
BY DEF Placed

\* A stretch of a sequence.
LEMMA StretchType ==
    ASSUME NEW S, NEW s \in Seq(S), NEW a \in Nat \ {0}, NEW b \in Int, b <= Len(s)
    PROVE  SubSeq(s, a, b) \in Seq(S)
<1>1. \A j \in a..b : s[j] \in S
    <2> TAKE j \in a..b
    <2>0. Len(s) \in Nat
        BY LenProperties
    <2>1. j \in 1..Len(s)
        BY ONLY <2>0, j \in a..b, a \in Nat \ {0}, b \in Int, b <= Len(s)
    <2> QED BY <2>1, ElementOfSeq
<1> QED BY <1>1, SubSeqProperties

\* A part is exchanged, inserted or taken out.
LEMMA TypedChanges ==
    ASSUME NEW made \in Nat, NEW ps \in Seq(Placed(made)), NEW p \in 1..Len(ps),
           NEW q \in Placed(made)
    PROVE  /\ [ps EXCEPT ![p] = q] \in Seq(Placed(made)) /\ Len([ps EXCEPT ![p] = q]) = Len(ps)
           /\ InsertAt(ps, p + 1, q) \in Seq(Placed(made))
           /\ Len(InsertAt(ps, p + 1, q)) = Len(ps) + 1
           /\ p # 1 => RemoveAt(ps, p) \in Seq(Placed(made)) /\ Len(RemoveAt(ps, p)) = Len(ps) - 1
<1> DEFINE S == Placed(made)
<1>1. [ps EXCEPT ![p] = q] \in Seq(S) /\ Len([ps EXCEPT ![p] = q]) = Len(ps)
    <2> HIDE DEF S
    <2>1. ps \in Seq(S) /\ q \in S
        BY DEF S
    <2> QED BY <2>1, ExceptSeq, ZenonT(60)
<1>2. InsertAt(ps, p + 1, q) \in Seq(S) /\ Len(InsertAt(ps, p + 1, q)) = Len(ps) + 1
    <2>1. ps \in Seq(S) /\ q \in S
        OBVIOUS
    <2> HIDE DEF S
    <2> QED BY <2>1, InsertElements
<1>3. p # 1 => RemoveAt(ps, p) \in Seq(S) /\ Len(RemoveAt(ps, p)) = Len(ps) - 1
    <2> SUFFICES ASSUME p # 1
                 PROVE  RemoveAt(ps, p) \in Seq(S) /\ Len(RemoveAt(ps, p)) = Len(ps) - 1
        OBVIOUS
    <2>1. ps \in Seq(S)
        OBVIOUS
    <2>2. p \in 2..Len(ps)
        BY LenProperties
    <2> HIDE DEF S
    <2> QED BY <2>1, <2>2, RemoveElements, Zenon
<1> QED BY <1>1, <1>2, <1>3

\* A removal that succeeds or fails leaves such a list.
LEMMA RemovalTyped ==
    ASSUME NEW made \in Nat, ListTyped(parts, nalloc, made), NEW p \in 1..Len(parts),
           NEW i \in 1..Len(parts[p].cells), NEW o \in Removals(p, i)
    PROVE  ListTyped(o.parts, o.nalloc, made)
<1> DEFINE old == parts[p]
           len == Len(old.cells)
           C == 1..made
           S == Placed(made)
<1>1. /\ parts \in Seq(S) /\ Len(parts) \in Nat /\ Len(parts) > 0 /\ nalloc \in Nat
      /\ old.cells \in Seq(C) /\ old.room \in Int /\ len \in Nat /\ i \in 1..len
      /\ \A j \in 1..Len(parts) : parts[j].cells \in Seq(C)
    <2>1. parts \in Seq(S)
        BY DEF ListTyped
    <2>2. \A j \in 1..Len(parts) : parts[j].cells \in Seq(C) /\ parts[j].room \in Int
        BY <2>1, PlacedParts
    <2> QED BY <2>1, <2>2, LenProperties DEF ListTyped
<1>2. CASE i = 1
    <2> DEFINE rest == [cells |-> Tail(old.cells), room |-> old.room - 1]
    <2>1. o = IF rest.cells # <<>>
              THEN Outcome([parts EXCEPT ![p] = rest],
                           IF p = Len(parts) THEN Len(rest.cells) ELSE nalloc, TRUE)
              ELSE IF p = 1 THEN Outcome([parts EXCEPT ![p] = rest], nalloc, FALSE)
              ELSE Outcome(RemoveAt(parts, p),
                     IF p = Len(parts) THEN Len(parts[p - 1].cells) ELSE nalloc, TRUE)
        BY <1>2 DEF Removals, RemoveHead
    <2>2. Tail(old.cells) \in Seq(C)
        <3>1. old.cells # <<>>
            BY <1>1
        <3> HIDE DEF C, old
        <3> QED BY <1>1, <3>1, HeadTailProperties
    <2>3. rest \in S /\ Len(rest.cells) \in Nat
        <3>1. Len(Tail(old.cells)) \in Nat
            BY <2>2, LenProperties
        <3>2. Tail(old.cells) \in Seq(1..made) /\ old.room - 1 \in Int
            BY <1>1, <2>2
        <3>3. rest \in S
            BY ONLY <3>2, PartPlaced
        <3> QED BY ONLY <3>1, <3>3
    <2>4. p # 1 => Len(parts[p - 1].cells) \in Nat
        <3> SUFFICES ASSUME p # 1 PROVE Len(parts[p - 1].cells) \in Nat
            OBVIOUS
        <3>1. p - 1 \in 1..Len(parts)
            BY <1>1
        <3>2. parts[p - 1].cells \in Seq(C)
            BY <1>1, <3>1
        <3> QED BY <3>2, LenProperties
    <2>5. /\ [parts EXCEPT ![p] = rest] \in Seq(S) /\ Len([parts EXCEPT ![p] = rest]) = Len(parts)
          /\ p # 1 => RemoveAt(parts, p) \in Seq(S) /\ Len(RemoveAt(parts, p)) = Len(parts) - 1
        BY <1>1, <2>3, TypedChanges
    <2>6. p # 1 => Len(parts) - 1 > 0
        BY <1>1
    <2>7. /\ o.parts \in {[parts EXCEPT ![p] = rest]} \cup {s \in {RemoveAt(parts, p)} : p # 1}
          /\ o.nalloc \in Nat
        <3> HIDE DEF rest, S
        <3> QED BY <1>1, <2>1, <2>3, <2>4 DEF Outcome
    <2> HIDE DEF rest
    <2> QED BY <1>1, <2>5, <2>6, <2>7 DEF ListTyped
<1>3. CASE i # 1 /\ i = len
    <2> DEFINE q == [cells |-> Front(old.cells), room |-> old.room]
               k == IF p = Len(parts) THEN len - 1 ELSE nalloc
    <2>1. len - 1 \in Nat
        BY <1>1
    <2>2. Front(old.cells) \in Seq(C)
        <3> HIDE DEF C, old, len
        <3>1. len - 1 <= len /\ len - 1 \in Int /\ 1 \in Nat \ {0}
            BY <1>1
        <3>2. SubSeq(old.cells, 1, len - 1) \in Seq(C)
            BY <1>1, <3>1, StretchType DEF len
        <3> QED BY <3>2 DEF Front, len
    <2>3. q \in S
        BY <1>1, <2>2 DEF Placed
    <2>4. o.parts = [parts EXCEPT ![p] = q] /\ o.nalloc = k
        <3>1. old \in Placed(made)
            BY <1>1, ElementOfSeq
        <3>2. [old EXCEPT !.cells = Front(@)] = q
            BY <3>1 DEF Placed
        <3>3. o = Outcome([parts EXCEPT ![p].cells = Front(@)], k, TRUE)
            BY <1>3 DEF Removals, RemoveEnd
        <3>4. [parts EXCEPT ![p].cells = Front(@)] = [parts EXCEPT ![p] = [old EXCEPT !.cells = Front(@)]]
            OBVIOUS
        <3> HIDE DEF q, k
        <3> QED BY <3>2, <3>3, <3>4 DEF Outcome
    <2>5. k \in Nat
        BY <1>1, <2>1
    <2> HIDE DEF q, k
    <2> QED BY <1>1, <2>3, <2>4, <2>5, TypedChanges DEF ListTyped
<1>4. CASE i # 1 /\ i # len
    <2> DEFINE new == [cells |-> SubSeq(old.cells, i + 1, len), room |-> old.room - i]
               cut == [cells |-> SubSeq(old.cells, 1, i - 1), room |-> i]
               k == IF p = Len(parts) THEN Len(new.cells) ELSE nalloc
    <2>1. SubSeq(old.cells, i + 1, len) \in Seq(C) /\ SubSeq(old.cells, 1, i - 1) \in Seq(C)
        <3>1. i + 1 \in Nat \ {0} /\ len \in Int /\ len <= len /\ i - 1 \in Int /\ i - 1 <= len
              /\ 1 \in Nat \ {0}
            BY <1>1
        <3> HIDE DEF C, old
        <3> QED BY <1>1, <3>1, StretchType
    <2>2. new \in S /\ cut \in S /\ Len(new.cells) \in Nat
        <3>1. Len(SubSeq(old.cells, i + 1, len)) \in Nat
            BY <2>1, LenProperties
        <3>2. /\ SubSeq(old.cells, i + 1, len) \in Seq(1..made) /\ SubSeq(old.cells, 1, i - 1) \in Seq(1..made)
              /\ old.room - i \in Int /\ i \in Int
            BY <1>1, <2>1
        <3>3. new \in S /\ cut \in S
            BY ONLY <3>2, PartPlaced
        <3> QED BY ONLY <3>1, <3>3
    <2>3. o = Outcome(InsertAt([parts EXCEPT ![p] = cut], p + 1, new), k, TRUE)
          \/ o = Outcome(parts, nalloc, FALSE)
        BY <1>4 DEF Removals, Split
    <2>4. k \in Nat
        BY <1>1, <2>2
    <2> HIDE DEF new, cut, k
    <2>5. [parts EXCEPT ![p] = cut] \in Seq(S) /\ Len([parts EXCEPT ![p] = cut]) = Len(parts)
        BY <1>1, <2>2, TypedChanges
    <2> DEFINE mid == [parts EXCEPT ![p] = cut]
    <2> HIDE DEF mid
    <2>6. mid \in Seq(S) /\ Len(mid) = Len(parts) /\ p \in 1..Len(mid)
        BY <2>5 DEF mid
    <2>7. InsertAt(mid, p + 1, new) \in Seq(S) /\ Len(InsertAt(mid, p + 1, new)) = Len(mid) + 1
        BY <2>2, <2>6, TypedChanges
    <2>8. \/ o.parts = InsertAt(mid, p + 1, new) /\ o.nalloc = k
          \/ o.parts = parts /\ o.nalloc = nalloc
        BY <2>3 DEF Outcome, mid
    <2> QED BY <1>1, <2>4, <2>6, <2>7, <2>8 DEF ListTyped
<1> QED BY <1>2, <1>3, <1>4

\* The types of the list, of the pointers to it, and of the fields.
ListInv == ListTyped(parts, nalloc, Len(cell)) /\ slot \in [Builtin -> 0..Len(cell)]
FieldInv ==
    /\ server \in Text \cup {""} /\ content_length_n \in Nat \cup {-1}
    /\ was \in Seq(Line) /\ spoiled \in BOOLEAN /\ imposed \in BOOLEAN
InInv == CellInv /\ ListInv /\ FieldInv

\* The lines of such a list.
LEMMA TypedLines ==
    ASSUME CellInv, ListInv
    PROVE  Lines \in Seq(Line) /\ Len(cell) \in Nat
<1>1. cell \in Seq(Line) /\ Len(cell) \in Nat
    BY LenProperties DEF CellInv
<1>2. parts \in Seq(Part) /\ \A p \in 1..Len(parts) : parts[p].cells \in Seq(Cells(cell))
    BY <1>1, PlacedParts DEF ListInv, ListTyped, Cells
<1>3. Listed \in Seq(Cells(cell))
    BY <1>2, ListedType DEF Listed
<1>4. LinesOf(cell, Listed) \in Seq(Line)
    BY <1>1, <1>3, LinesType
<1>5. Lines = LinesOf(cell, Listed)
    BY DEF Lines, LinesOf
<1> QED BY <1>1, <1>4, <1>5

\* The first line of a name among others.
LEMMA FirstRange ==
    ASSUME NEW lines \in Seq(Line), NEW key
    PROVE  /\ FirstNamed(lines, key) = 0 \/ FirstNamed(lines, key) \in 1..Len(lines)
           /\ FirstNamed(lines, key) \in 0..Len(lines)
           /\ FirstValue(lines, key) \in Text \cup {""}
<1> DEFINE i == FirstNamed(lines, key)
<1>1. i = 0 \/ i \in 1..Len(lines)
    <2>1. CASE \E j \in 1..Len(lines) : lines[j].key = key
        BY <2>1, FirstIs
    <2>2. CASE ~\E j \in 1..Len(lines) : lines[j].key = key
        <3>1. \A j \in 1..Len(lines) : lines[j].key # key
            BY <2>2
        <3>2. FirstNamed(lines, key) = 0
            BY ONLY <3>1, lines \in Seq(Line), FirstNone
        <3> QED BY <3>2
    <2> QED BY <2>1, <2>2
<1>2. FirstValue(lines, key) = IF i = 0 THEN "" ELSE lines[i].value
    BY DEF FirstValue
<1> HIDE DEF i
<1>3. Len(lines) \in Nat
    BY LenProperties
<1>4. i \in 0..Len(lines)
    BY <1>1, <1>3
<1>5. i # 0 => lines[i].value \in Text \cup {""}
    <2> SUFFICES ASSUME i # 0 PROVE lines[i].value \in Text \cup {""}
        OBVIOUS
    <2>1. lines[i] \in Line
        BY <1>1, ElementOfSeq
    <2> QED BY <2>1 DEF Line
<1> QED BY <1>1, <1>2, <1>4, <1>5 DEF i

\* A header of an input command is begun.
LEMMA BeginTyped ==
    ASSUME InInv, NEW e \in Edit, BeginEdit(e)
    PROVE  ListInv' /\ FieldInv'
<1>1. Lines \in Seq(Line)
    BY TypedLines DEF InInv
<1>2. e.key \in Key /\ e.value \in Text \cup {""}
    BY DEF Edit
<1>3. e.value # "" => Number[e.value] \in Nat \cup {-1}
    BY <1>2, EditAssumption
<1>4. UNCHANGED <<parts, nalloc, slot, spoiled>> /\ was' = Lines
    BY DEF BeginEdit
<1>5. server' \in {server, e.value} /\ imposed' \in {imposed, e.value # "" /\ e.replace
                                                       /\ ~(FirstNamed(Lines, e.key) # 0)}
    BY DEF BeginEdit
<1>6. content_length_n' \in {content_length_n, -1} \cup {Number[v] : v \in {e.value} \ {""}}
    BY DEF BeginEdit
<1>7. Len(cell') = Len(cell)
    <2>1. CellInv
        BY DEF InInv
    <2>2. cell' = cell \/ cell' = [cell EXCEPT ![slot[e.key]].value = ""]
        BY DEF BeginEdit
    <2>3. cell \in Seq(Line) /\ "" \in Text \cup {""}
        BY <2>1 DEF CellInv
    <2>4. Len([cell EXCEPT ![slot[e.key]].value = ""]) = Len(cell)
        BY <2>3, ValueSet, Zenon
    <2> QED BY <2>2, <2>4, Zenon
<1>8. ListInv'
    BY <1>4, <1>7 DEF InInv, ListInv
<1>9. FieldInv'
    <2>1. server' \in Text \cup {""}
        BY <1>2, <1>5 DEF InInv, FieldInv
    <2>2. imposed' \in BOOLEAN
        BY <1>5 DEF InInv, FieldInv
    <2>3. content_length_n' \in Nat \cup {-1}
        BY <1>3, <1>6 DEF InInv, FieldInv
    <2> QED BY <1>1, <1>4, <2>1, <2>2, <2>3 DEF InInv, FieldInv
<1> QED BY <1>8, <1>9

\* The element a search finds.
LEMMA MatchTyped ==
    ASSUME InInv, MatchPart # 0
    PROVE  /\ MatchPart \in 1..Len(parts) /\ Match(MatchPart) \in 1..Len(parts[MatchPart].cells)
           /\ MatchCell \in 0..Len(cell)
<1>1. Len(cell) \in Nat
    BY TypedLines DEF InInv
<1>2. /\ parts \in Seq(Part)
      /\ \A p \in 1..Len(parts) : parts[p].cells \in Seq(1..Len(cell))
    BY <1>1, PlacedParts DEF InInv, ListInv, ListTyped
<1>3. MatchPart \in 1..Len(parts) /\ Match(MatchPart) \in 1..Len(parts[MatchPart].cells)
    BY <1>2, MatchFound, MatchIs
<1>4. MatchCell \in 1..Len(cell)
    <2> DEFINE s == parts[MatchPart].cells
               i == Match(MatchPart)
               C == 1..Len(cell)
    <2>1. s \in Seq(C) /\ i \in 1..Len(s)
        BY <1>2, <1>3
    <2> HIDE DEF s, i, C
    <2>2. s[i] \in C
        BY <2>1, ElementOfSeq
    <2> QED BY <2>2 DEF s, i, C, MatchCell
<1> QED BY <1>1, <1>3, <1>4

\* A pointer is set.
LEMMA SlotTyped ==
    ASSUME NEW made \in Nat, slot \in [Builtin -> 0..made], NEW c \in 0..made, SetSlotTo(c)
    PROVE  slot' \in [Builtin -> 0..made]
BY DEF SetSlotTo, IsBuiltin

\* And it goes on, and ends.
LEMMA EditTyped ==
    ASSUME InInv, EditStep
    PROVE  ListInv' /\ FieldInv'
<1>0. /\ Len(cell) \in Nat /\ slot \in [Builtin -> 0..Len(cell)] /\ cell \in Seq(Line)
      /\ ListTyped(parts, nalloc, Len(cell)) /\ FieldInv /\ spoiled \in BOOLEAN
    BY TypedLines DEF InInv, ListInv, CellInv, FieldInv
<1>1. Len(cell') = Len(cell) \/ (PushLine /\ Len(cell') = Len(cell) + 1)
    BY CellStep DEF InInv
<1>2. UNCHANGED <<server, content_length_n, was, imposed>>
    BY DEF EditStep, SetThroughSlot, RemoveMatch, ReplaceMatch, NothingToDo, PushLine
<1>3. spoiled' \in BOOLEAN
    BY <1>0 DEF EditStep, SetThroughSlot, RemoveMatch, ReplaceMatch, NothingToDo, PushLine
<1>4. FieldInv'
    BY <1>0, <1>2, <1>3 DEF FieldInv
<1>5. CASE PushLine
    <2> DEFINE c == Len(cell) + 1
               last == Len(parts)
    <2>1. /\ cell' = Append(cell, [key |-> edit.key, value |-> edit.value])
          /\ parts' = IF Len(parts[last].cells) = nalloc
                      THEN Append(parts, [cells |-> <<c>>, room |-> nalloc])
                      ELSE [parts EXCEPT ![last].cells = Append(@, c)]
          /\ SetSlotTo(c) /\ nalloc' = nalloc
        BY <1>5 DEF PushLine
    <2>2. Len(cell') = c /\ c \in Nat /\ c \in 1..c
        BY <1>0, <2>1
    <2>3. parts \in Seq(Placed(c)) /\ last \in Nat /\ last > 0 /\ last \in 1..last
        BY <1>0, PlacedGrow, PlacedParts DEF ListTyped
    <2>4. parts[last].cells \in Seq(1..c) /\ parts[last] \in Placed(c) /\ nalloc \in Int
        BY <1>0, <2>2, <2>3, PlacedParts DEF ListTyped
    <2> HIDE DEF c
    <2>5. [cells |-> <<c>>, room |-> nalloc] \in Placed(c)
        BY <2>2, <2>4 DEF Placed
    <2>6. [parts[last] EXCEPT !.cells = Append(@, c)] \in Placed(c)
        <3> DEFINE s == parts[last].cells
        <3>1. Append(s, c) \in Seq(1..c)
            BY <2>2, <2>4
        <3> QED BY <2>4, <3>1 DEF Placed
    <2>7. /\ Append(parts, [cells |-> <<c>>, room |-> nalloc]) \in Seq(Placed(c))
          /\ Len(Append(parts, [cells |-> <<c>>, room |-> nalloc])) = last + 1
        <3> DEFINE q == [cells |-> <<c>>, room |-> nalloc]
                   S == Placed(c)
        <3>1. q \in S /\ parts \in Seq(S)
            BY <2>3, <2>5
        <3> HIDE DEF q, S
        <3>2. Append(parts, q) \in Seq(S) /\ Len(Append(parts, q)) = Len(parts) + 1
            BY <3>1, AppendProperties
        <3> QED BY <3>2 DEF q, S
    <2>8. /\ [parts EXCEPT ![last].cells = Append(@, c)] \in Seq(Placed(c))
          /\ Len([parts EXCEPT ![last].cells = Append(@, c)]) = last
        <3> DEFINE q == [parts[last] EXCEPT !.cells = Append(@, c)]
        <3>1. [parts EXCEPT ![last].cells = Append(@, c)] = [parts EXCEPT ![last] = q]
            OBVIOUS
        <3>2. q \in Placed(c)
            BY <2>6
        <3> HIDE DEF q
        <3>3. [parts EXCEPT ![last] = q] \in Seq(Placed(c)) /\ Len([parts EXCEPT ![last] = q]) = last
            BY <2>2, <2>3, <3>2, TypedChanges
        <3> QED BY <3>1, <3>3
    <2>9. ListTyped(parts', nalloc', c)
        <3>1. last + 1 > 0
            BY <2>3
        <3> HIDE DEF last
        <3> QED BY <1>0, <2>1, <2>3, <2>7, <2>8, <3>1 DEF ListTyped
    <2>10. slot' \in [Builtin -> 0..c]
        <3>1. 0..Len(cell) \subseteq 0..c /\ c \in 0..c
            BY <1>0, <2>2 DEF c
        <3>2. slot \in [Builtin -> 0..c]
            BY <1>0, <3>1
        <3> QED BY <2>1, <2>2, <3>1, <3>2, SlotTyped
    <2>11. ListInv'
        BY <2>2, <2>9, <2>10 DEF ListInv
    <2> QED BY <1>4, <2>11
<1>6. CASE ~PushLine
    <2>1. Len(cell') = Len(cell)
        BY <1>1, <1>6
    <2>2. CASE SetThroughSlot \/ NothingToDo
        <3>1. UNCHANGED <<parts, nalloc, slot>>
            BY <2>2 DEF SetThroughSlot, NothingToDo, listVars
        <3> QED BY <1>0, <1>4, <2>1, <3>1 DEF ListInv
    <2>3. CASE ReplaceMatch
        <3>1. UNCHANGED <<parts, nalloc>> /\ SetSlotTo(MatchCell) /\ MatchPart # 0
            BY <2>3 DEF ReplaceMatch
        <3>2. MatchCell \in 0..Len(cell)
            BY <3>1, MatchTyped
        <3>3. slot' \in [Builtin -> 0..Len(cell)]
            BY <1>0, <3>1, <3>2, SlotTyped
        <3> QED BY <1>0, <1>4, <2>1, <3>1, <3>3 DEF ListInv
    <2>4. CASE RemoveMatch
        <3>1. MatchPart # 0
            BY <2>4 DEF RemoveMatch
        <3>2. PICK o \in Removals(MatchPart, Match(MatchPart)) :
                /\ parts' = o.parts /\ nalloc' = o.nalloc
                /\ SetSlotTo(0) \/ SetSlotTo(MatchCell)
            BY <2>4 DEF RemoveMatch
        <3>3. /\ MatchPart \in 1..Len(parts) /\ Match(MatchPart) \in 1..Len(parts[MatchPart].cells)
              /\ MatchCell \in 0..Len(cell) /\ 0 \in 0..Len(cell)
            BY <1>0, <3>1, MatchTyped
        <3>4. ListTyped(o.parts, o.nalloc, Len(cell))
            BY <1>0, <3>3, RemovalTyped
        <3>5. slot' \in [Builtin -> 0..Len(cell)]
            BY <1>0, <3>2, <3>3, SlotTyped
        <3> QED BY <1>4, <2>1, <3>2, <3>4, <3>5 DEF ListInv
    <2> QED BY <1>6, <2>2, <2>3, <2>4 DEF EditStep
<1> QED BY <1>5, <1>6

\* A request that is read has a list of its lines.
LEMMA ReceiveTyped ==
    ASSUME InInv, NEW lines \in Seq(Line), Receive(lines)
    PROVE  ListInv' /\ FieldInv'
<1>1. Len(lines) \in Nat /\ cell' = lines
    BY LenProperties DEF Receive
<1>2. ListOK(parts', nalloc') /\ Distinct(parts', Len(lines))
    BY ReceiveMakes
<1>3. /\ parts' \in Seq(Part) /\ Len(parts') > 0 /\ nalloc' \in Nat
      /\ \A p \in 1..Len(parts') : parts'[p].cells \in Seq(1..Len(lines))
    <2>1. parts' \in Seq(Part) /\ Len(parts') > 0 /\ nalloc' \in Nat
        BY <1>2 DEF ListOK
    <2>2. \A p \in 1..Len(parts') : parts'[p].cells \in Seq(Cells(lines))
        BY <1>2, <2>1, PlacedCells
    <2> QED BY <2>1, <2>2 DEF Cells
<1>4. parts' \in Seq(Placed(Len(lines)))
    <2> DEFINE ps == parts'
               S == Placed(Len(lines))
    <2>1. \A p \in 1..Len(ps) : ps[p] \in S
        <3> TAKE p \in 1..Len(ps)
        <3>1. ps[p] \in Part
            BY <1>3, ElementOfSeq
        <3> QED BY <1>3, <3>1 DEF Part, Placed
    <2>2. ps \in Seq(Part)
        BY <1>3
    <2> HIDE DEF ps, S
    <2>3. Len(ps) \in Nat /\ ps = [p \in 1..Len(ps) |-> ps[p]]
        BY <2>2, LenProperties
    <2>4. ps \in [1..Len(ps) -> S]
        BY <2>1, <2>3
    <2>5. ps \in Seq(S)
        BY <2>3, <2>4, SeqDef
    <2> QED BY <2>5 DEF ps, S
<1>5. slot' \in [Builtin -> 0..Len(lines)]
    <2>1. slot' = [b \in Builtin |-> FirstNamed(lines, b)]
        BY DEF Receive
    <2>2. \A b \in Builtin : FirstNamed(lines, b) \in 0..Len(lines)
        BY FirstRange
    <2> QED BY <2>1, <2>2
<1>6. ListInv'
    BY <1>1, <1>3, <1>4, <1>5 DEF ListInv, ListTyped
<1>7. FieldInv'
    <2> DEFINE length == FirstValue(lines, "content-length")
    <2>1. server' = FirstValue(lines, "host") /\ UNCHANGED <<was, spoiled, imposed>>
          /\ content_length_n' = IF length = "" THEN -1 ELSE Number[length]
        BY DEF Receive
    <2>2. FirstValue(lines, "host") \in Text \cup {""} /\ length \in Text \cup {""}
        BY FirstRange
    <2> HIDE DEF length
    <2>3. length # "" => Number[length] \in Nat \cup {-1}
        BY <2>2, EditAssumption
    <2>4. content_length_n' \in Nat \cup {-1}
        BY <2>1, <2>3
    <2> QED BY <2>1, <2>2, <2>4 DEF InInv, FieldInv
<1> QED BY <1>6, <1>7

\* No request has been read.
LEMMA TypesStart == ASSUME InInit PROVE InInv
<1> DEFINE part == [cells |-> <<>>, room |-> ListSize]
<1>1. ListSize \in Nat
    BY HeadersInAssumption
<1>2. /\ cell = <<>> /\ parts = <<part>> /\ nalloc = ListSize /\ slot = [b \in Builtin |-> 0]
      /\ server = "" /\ content_length_n = -1 /\ edit = NoEdit /\ was = <<>>
      /\ spoiled = FALSE /\ imposed = FALSE
    BY Zenon DEF InInit
<1>3. Len(cell) = 0 /\ cell \in Seq(Line) /\ was \in Seq(Line)
    <2>1. cell = <<>> /\ was = <<>>
        BY <1>2
    <2>2. Len(<<>>) = 0 /\ <<>> \in Seq(Line)
        BY EmptySeq
    <2> QED BY <2>1, <2>2, Zenon
<1>4. part \in Placed(0)
    BY <1>1 DEF Placed
<1>5. parts \in Seq(Placed(0)) /\ Len(parts) = 1
    <2> DEFINE S == Placed(0)
    <2>1. parts = <<part>> /\ part \in S
        BY <1>2, <1>4
    <2> HIDE DEF part, S
    <2>2. <<part>> \in Seq(S) /\ Len(<<part>>) = 1
        BY <2>1
    <2> QED BY <2>1, <2>2 DEF S
<1> HIDE DEF part
<1>6. ListInv
    <2>1. ListTyped(parts, nalloc, 0)
        <3>1. nalloc \in Nat
            BY <1>1, <1>2
        <3> QED BY <1>5, <3>1 DEF ListTyped
    <2>2. slot \in [Builtin -> 0..0]
        <3>1. slot = [b \in Builtin |-> 0]
            BY <1>2, Zenon
        <3>2. 0 \in 0..0
            OBVIOUS
        <3> QED BY ONLY <3>1, <3>2
    <2> QED BY <1>3, <2>1, <2>2 DEF ListInv
<1>7. FieldInv
    BY <1>2, <1>3 DEF FieldInv
<1> QED BY <1>2, <1>3, <1>6, <1>7 DEF InInv, CellInv

\* What the types of the request are, in all.
LEMMA InTypes == InInv => InTypeOK
<1> SUFFICES ASSUME InInv PROVE InTypeOK
    OBVIOUS
<1>1. Len(cell) \in Nat /\ cell \in Seq(Line) /\ DOMAIN cell = 1..Len(cell)
      /\ edit \in Edit \cup {NoEdit}
    BY LenProperties DEF InInv, CellInv
<1>2. /\ parts \in Seq(Placed(Len(cell))) /\ Len(parts) > 0 /\ nalloc \in Nat
      /\ slot \in [Builtin -> 0..Len(cell)]
    BY DEF InInv, ListInv, ListTyped
<1>3. /\ parts \in Seq(Part) /\ DOMAIN parts = 1..Len(parts)
      /\ \A p \in 1..Len(parts) : parts[p].cells \in Seq(1..Len(cell))
    BY <1>1, <1>2, PlacedParts
<1>4. parts # <<>>
    BY <1>2
<1>5. \A p \in DOMAIN parts : ToSet(parts[p].cells) \subseteq DOMAIN cell
    <2> TAKE p \in DOMAIN parts
    <2> DEFINE s == parts[p].cells
               C == 1..Len(cell)
    <2>1. s \in Seq(C)
        BY <1>3
    <2> HIDE DEF s, C
    <2>2. ToSet(s) \subseteq C
        BY <2>1, ElementOfSeq DEF ToSet
    <2> QED BY <1>1, <2>2 DEF s, C
<1>6. FieldInv
    BY DEF InInv
<1> QED BY <1>1, <1>2, <1>3, <1>4, <1>5, <1>6 DEF InTypeOK, FieldInv

===============================================================================
