---------------------------- MODULE SequenceLemmas ----------------------------
(***************************************************************************)
(* Lemmas about numbers and sequences the proofs of several components     *)
(* need: induction over both, functions by recursion, and what FlattenSeq  *)
(* of the community modules returns, which they define by recursion.       *)
(***************************************************************************)
EXTENDS Integers, Sequences, SequencesExt, SequenceTheorems, WellFoundedInduction, TLAPS

------------------------------------------------------------------------------
(* Numbers and recursion                                                   *)

\* A set of natural numbers that is not empty has a least one.
LEMMA LeastNumber ==
    ASSUME NEW T, T \subseteq Nat, T # {}
    PROVE  \E x \in T : \A y \in T : x <= y
<1>1. PICK x \in T : \A y \in T : ~(<<y, x>> \in OpToRel(<, Nat))
    BY NatLessThanWellFounded, WFMin
<1>2. ASSUME NEW y \in T PROVE x <= y
    <2>1. x \in Nat /\ y \in Nat /\ <<y, x>> \in Nat \X Nat
        OBVIOUS
    <2>2. ~(y < x)
        BY <1>1, <2>1 DEF OpToRel
    <2> QED BY <2>1, <2>2
<1> QED BY <1>2

\* A set of numbers up to m that is not empty has a greatest one.
LEMMA GreatestNumber ==
    ASSUME NEW m \in Nat, NEW T, T \subseteq 0..m, T # {}
    PROVE  \E x \in T : \A y \in T : y <= x
<1> DEFINE D == {m - x : x \in T}
<1>1. D \subseteq Nat /\ D # {}
    <2>1. \A x \in T : m - x \in Nat
        OBVIOUS
    <2>2. \E x \in T : m - x \in D
        OBVIOUS
    <2> QED BY <2>1, <2>2
<1>2. PICK d \in D : \A y \in D : d <= y
    <2> HIDE DEF D
    <2> QED BY <1>1, LeastNumber
<1>3. PICK x \in T : d = m - x
    BY <1>2
<1>4. \A y \in T : y <= x
    <2> TAKE y \in T
    <2>1. m - y \in D
        OBVIOUS
    <2>2. m - x <= m - y
        BY <1>2, <1>3, <2>1
    <2>3. x \in Int /\ y \in Int
        OBVIOUS
    <2> QED BY <2>2, <2>3
<1> QED BY <1>4

\* Induction over the numbers from 1 to n, for a set of them.
LEMMA Induction ==
    ASSUME NEW len \in Nat, NEW T, 1 \in T, \A m \in 1..len : m < len /\ m \in T => m + 1 \in T
    PROVE  \A m \in 1..len : m \in T
<1> SUFFICES ASSUME NEW m \in 1..len, m \notin T PROVE FALSE
    OBVIOUS
<1> DEFINE bad == {k \in 1..len : k \notin T}
<1>1. PICK x \in bad : \A y \in bad : x <= y
    <2>1. bad \subseteq Nat /\ bad # {}
        OBVIOUS
    <2> HIDE DEF bad
    <2> QED BY <2>1, LeastNumber
<1>2. x \in 1..len /\ x \notin T /\ x # 1
    OBVIOUS
<1>3. x - 1 \in 1..len /\ x - 1 < len /\ (x - 1) + 1 = x /\ ~(x <= x - 1)
    BY <1>2
<1>4. x - 1 \in T
    BY <1>1, <1>3
<1> QED BY <1>2, <1>3, <1>4

\* f[i] is what G makes of f[i - 1] and i, from base on.
Unfolds(f, V, len, base, G) ==
    /\ f \in [0..len -> V] /\ f[0] = base
    /\ \A i \in 1..len : f[i] = G[<<f[i - 1], i>>]

\* A function defined by recursion over the numbers from 0 to len exists.
LEMMA Recursion ==
    ASSUME NEW V, NEW len \in Nat, NEW base \in V, NEW G \in [V \X (1..len) -> V]
    PROVE  \E f : Unfolds(f, V, len, base, G)
<1> DEFINE Rec(f, m) == /\ f \in [0..m -> V] /\ f[0] = base
                        /\ \A i \in 1..m : f[i] = G[<<f[i - 1], i>>]
           T == {m \in 0..len : \E f : Rec(f, m)}
<1>1. 0 \in T
    <2> DEFINE f == [i \in 0..0 |-> base]
    <2>1. f \in [0..0 -> V] /\ f[0] = base /\ \A i \in 1..0 : FALSE
        OBVIOUS
    <2>2. Rec(f, 0)
        BY <2>1
    <2>3. \E g : Rec(g, 0)
        <3> HIDE DEF Rec, f
        <3> QED BY <2>2, Zenon
    <2> HIDE DEF Rec
    <2> QED BY <2>3
<1>2. ASSUME NEW m \in 0..len, m < len, m \in T PROVE m + 1 \in T
    <2>1. PICK f : Rec(f, m)
        BY <1>2
    <2> DEFINE h == [i \in 0..(m + 1) |-> IF i = m + 1 THEN G[<<f[m], m + 1>>] ELSE f[i]]
    <2>2. m + 1 \in 0..len /\ m + 1 \in 1..len /\ m \in 0..m /\ m # m + 1 /\ m \in 0..(m + 1)
        BY <1>2
    <2>3. f[m] \in V /\ G[<<f[m], m + 1>>] \in V
        <3>1. f[m] \in V
            BY <2>1, <2>2
        <3>2. <<f[m], m + 1>> \in V \X (1..len)
            BY <2>2, <3>1
        <3> QED BY <3>1, <3>2
    <2>4. ASSUME NEW i \in 0..(m + 1), i # m + 1 PROVE i \in 0..m /\ h[i] = f[i] /\ f[i] \in V
        <3>1. i \in 0..m
            BY <1>2, <2>4
        <3> QED BY <2>1, <2>4, <3>1
    <2>5. h \in [0..(m + 1) -> V]
        BY <2>3, <2>4
    <2>6. h[0] = base
        <3>1. 0 \in 0..(m + 1) /\ 0 # m + 1
            BY <1>2
        <3> QED BY <2>1, <2>4, <3>1
    <2>7. ASSUME NEW i \in 1..(m + 1) PROVE h[i] = G[<<h[i - 1], i>>]
        <3>0. i \in 0..(m + 1) /\ i - 1 \in 0..(m + 1) /\ i - 1 # m + 1
            BY <1>2
        <3>1. CASE i = m + 1
            <4>1. h[i] = G[<<f[m], m + 1>>] /\ i - 1 = m
                BY <1>2, <3>0, <3>1
            <4>2. h[m] = f[m]
                BY <2>2, <2>4
            <4> QED BY <3>1, <4>1, <4>2
        <3>2. CASE i # m + 1
            <4>1. i \in 1..m
                BY <1>2, <3>2
            <4>2. h[i] = f[i] /\ h[i - 1] = f[i - 1]
                BY <2>4, <3>0, <3>2
            <4> QED BY <2>1, <4>1, <4>2
        <3> QED BY <3>1, <3>2
    <2>8. Rec(h, m + 1)
        <3> HIDE DEF h
        <3> QED BY <2>5, <2>6, <2>7
    <2>9. \E g : Rec(g, m + 1)
        <3> HIDE DEF Rec, h
        <3> QED BY <2>8, Zenon
    <2> HIDE DEF Rec
    <2> QED BY <2>2, <2>9
<1>3. len \in T
    <2> DEFINE bad == {k \in 0..len : k \notin T}
    <2> HIDE DEF T
    <2>0. len \in 0..len
        OBVIOUS
    <2> SUFFICES ASSUME bad # {} PROVE FALSE
        BY <2>0
    <2>1. PICK x \in bad : \A y \in bad : x <= y
        <3>1. bad \subseteq Nat
            OBVIOUS
        <3> HIDE DEF bad
        <3> QED BY <3>1, LeastNumber
    <2>2. x \in 0..len /\ x \notin T /\ x # 0
        BY <1>1
    <2>3. x - 1 \in 0..len /\ x - 1 < len /\ (x - 1) + 1 = x /\ ~(x <= x - 1)
        BY <2>2
    <2>4. x - 1 \in T
        BY <2>1, <2>3
    <2> QED BY <1>2, <2>2, <2>3, <2>4
<1>4. PICK f : Rec(f, len)
    BY <1>3
<1>5. Unfolds(f, V, len, base, G)
    BY <1>4 DEF Unfolds
<1> QED BY <1>5

------------------------------------------------------------------------------
(* Sequences                                                               *)

\* Induction over sequences, for a set of them.
LEMMA SequenceInduction ==
    ASSUME NEW S, NEW P, <<>> \in P, \A s \in Seq(S) : \A x \in S : s \in P => Append(s, x) \in P
    PROVE  \A s \in Seq(S) : s \in P
<1> SUFFICES ASSUME NEW s0 \in Seq(S), s0 \notin P PROVE FALSE
    OBVIOUS
<1> DEFINE bad == {s \in Seq(S) : s \notin P}
           lens == {Len(s) : s \in bad}
<1>1. lens \subseteq Nat /\ lens # {}
    <2>1. \A s \in bad : Len(s) \in Nat
        BY LenProperties
    <2> QED BY <2>1
<1>2. PICK least \in lens : \A m \in lens : least <= m
    <2> HIDE DEF lens
    <2> QED BY <1>1, LeastNumber
<1>3. PICK s \in bad : Len(s) = least
    BY <1>2
<1>4. s # <<>>
    BY <1>3
<1>5. PICK t \in Seq(S), x \in S : s = Append(t, x)
    BY <1>3, <1>4, SequenceEmptyOrAppend
<1>6. t \notin P
    BY <1>3, <1>5
<1>7. Len(t) \in Nat /\ Len(s) = Len(t) + 1
    BY <1>5, AppendProperties, LenProperties
<1>8. Len(t) \in lens
    BY <1>6
<1> QED BY <1>2, <1>3, <1>7, <1>8

\* a \o b and Append(s, x) under names of their own: an equality of such terms is one of
\* terms and not, as that of concatenations is to the solver, one of their elements.
Cat(a, b) == a \o b
Put(s, x) == Append(s, x)

\* The order in which three sequences are joined does not matter.
LEMMA CatAssociative ==
    ASSUME NEW S, NEW a \in Seq(S), NEW b \in Seq(S), NEW c \in Seq(S)
    PROVE  Cat(Cat(a, b), c) = Cat(a, Cat(b, c))
<1>1. (a \o b) \o c = a \o (b \o c)
    BY ConcatAssociative
<1> QED BY ONLY <1>1 DEF Cat

\* Two sequences over a set, one after the other, are a sequence over it.
LEMMA ConcatType ==
    ASSUME NEW S, NEW a \in Seq(S), NEW b \in Seq(S)
    PROVE  a \o b \in Seq(S)
BY ConcatProperties

\* The same of Cat.
LEMMA CatType ==
    ASSUME NEW S, NEW a \in Seq(S), NEW b \in Seq(S)
    PROVE  Cat(a, b) \in Seq(S)
BY ConcatType DEF Cat

\* An element behind two sequences is behind the second one.
LEMMA AppendBehind ==
    ASSUME NEW S, NEW a \in Seq(S), NEW b \in Seq(S), NEW x \in S
    PROVE  Put(Cat(a, b), x) = Cat(a, Put(b, x))
<1> DEFINE one == <<x>>
           c == a \o b
<1>1. one \in Seq(S)
    OBVIOUS
<1>2. c \in Seq(S)
    BY ConcatType
<1>3. Append(b, x) = b \o one
    BY AppendIsConcat
<1> HIDE DEF c
<1>4. Append(c, x) = c \o one
    <2>1. Append(c, x) = c \o <<x>>
        BY ONLY <1>2, x \in S, AppendIsConcat
    <2> QED BY <2>1
<1> HIDE DEF one
<1>5. Cat(Cat(a, b), one) = Cat(a, Cat(b, one))
    BY <1>1, CatAssociative
<1>6. Put(Cat(a, b), x) = Cat(Cat(a, b), one)
    BY ONLY <1>4 DEF Put, Cat, c
<1>7. Put(b, x) = Cat(b, one)
    BY ONLY <1>3 DEF Put, Cat
<1> QED BY ONLY <1>5, <1>6, <1>7

\* Three runs in a row.
LEMMA ThreeRuns ==
    ASSUME NEW S, NEW a \in Seq(S), NEW x \in S, NEW b \in Seq(S)
    PROVE  /\ <<x>> \in Seq(S) /\ a \o <<x>> \in Seq(S) /\ (a \o <<x>>) \o b \in Seq(S)
           /\ Len(a) \in Nat /\ Len(b) \in Nat
           /\ Len((a \o <<x>>) \o b) = Len(a) + 1 + Len(b)
           /\ \A i \in 1..Len(a) : ((a \o <<x>>) \o b)[i] = a[i]
           /\ ((a \o <<x>>) \o b)[Len(a) + 1] = x
           /\ \A i \in (Len(a) + 2)..(Len(a) + 1 + Len(b)) :
                ((a \o <<x>>) \o b)[i] = b[i - Len(a) - 1]
<1>0. Len(a) \in Nat /\ Len(b) \in Nat
    BY LenProperties
<1>1. <<x>> \in Seq(S) /\ Len(<<x>>) = 1 /\ <<x>>[1] = x
    OBVIOUS
<1> DEFINE one == <<x>>
<1>s. one \in Seq(S) /\ Len(one) = 1
    BY <1>1
<1> HIDE DEF one
<1>2. /\ a \o one \in Seq(S) /\ Len(a \o one) = Len(a) + 1
      /\ \A i \in 1..(Len(a) + 1) : (a \o one)[i] = IF i <= Len(a) THEN a[i] ELSE one[i - Len(a)]
    <2>1. /\ a \o one \in Seq(S) /\ Len(a \o one) = Len(a) + Len(one)
          /\ \A i \in 1..(Len(a) + Len(one)) :
                (a \o one)[i] = IF i <= Len(a) THEN a[i] ELSE one[i - Len(a)]
        BY <1>s, ConcatProperties
    <2> QED BY <1>s, <2>1
<1> DEFINE t == a \o one
<1>t. t \in Seq(S)
    BY <1>2
<1> HIDE DEF t
<1>3. /\ t \o b \in Seq(S) /\ Len(t \o b) = Len(t) + Len(b)
      /\ \A i \in 1..(Len(t) + Len(b)) : (t \o b)[i] = IF i <= Len(t) THEN t[i] ELSE b[i - Len(t)]
    BY <1>t, ConcatProperties
<1>4. Len(t) = Len(a) + 1
    BY <1>2 DEF t
<1>5. \A i \in 1..Len(a) : (t \o b)[i] = a[i]
    <2>1. \A i \in 1..Len(a) : i \in 1..(Len(t) + Len(b)) /\ i <= Len(t) /\ i \in 1..(Len(a) + 1) /\ i <= Len(a)
        BY <1>0, <1>4
    <2> QED BY <1>2, <1>3, <2>1 DEF t
<1>6. (t \o b)[Len(a) + 1] = x
    <2>1. /\ Len(a) + 1 \in 1..(Len(t) + Len(b)) /\ Len(a) + 1 <= Len(t)
          /\ Len(a) + 1 \in 1..(Len(a) + 1) /\ ~(Len(a) + 1 <= Len(a)) /\ (Len(a) + 1) - Len(a) = 1
        BY <1>0, <1>4
    <2>2. t[Len(a) + 1] = one[(Len(a) + 1) - Len(a)]
        BY <1>2, <2>1 DEF t
    <2> QED BY <1>1, <1>3, <2>1, <2>2 DEF one
<1>7. \A i \in (Len(a) + 2)..(Len(a) + 1 + Len(b)) : (t \o b)[i] = b[i - Len(a) - 1]
    <2>1. \A i \in (Len(a) + 2)..(Len(a) + 1 + Len(b)) :
            i \in 1..(Len(t) + Len(b)) /\ ~(i <= Len(t)) /\ i - Len(t) = i - Len(a) - 1
        BY <1>0, <1>4
    <2> QED BY <1>3, <2>1
<1>8. Len(t \o b) = Len(a) + 1 + Len(b)
    BY <1>0, <1>3, <1>4
<1> QED BY <1>0, <1>1, <1>2, <1>3, <1>5, <1>6, <1>7, <1>8 DEF one, t

\* What is in two sequences one after the other.
LEMMA ConcatSet ==
    ASSUME NEW S, NEW a \in Seq(S), NEW b \in Seq(S)
    PROVE  ToSet(a \o b) = ToSet(a) \cup ToSet(b)
<1>0. /\ Len(a) \in Nat /\ Len(b) \in Nat
      /\ a \o b \in Seq(S) /\ Len(a \o b) = Len(a) + Len(b)
      /\ \A i \in 1..(Len(a) + Len(b)) : (a \o b)[i] = IF i <= Len(a) THEN a[i] ELSE b[i - Len(a)]
      /\ DOMAIN a = 1..Len(a) /\ DOMAIN b = 1..Len(b) /\ DOMAIN (a \o b) = 1..(Len(a) + Len(b))
    BY ConcatProperties, LenProperties
<1> DEFINE c == a \o b
<1> HIDE DEF c
<1>1. ASSUME NEW x \in ToSet(c) PROVE x \in ToSet(a) \cup ToSet(b)
    <2>1. PICK i \in 1..(Len(a) + Len(b)) : x = c[i]
        BY <1>0 DEF ToSet, c
    <2>2. CASE i <= Len(a)
        <3>1. i \in 1..Len(a) /\ c[i] = a[i]
            BY <1>0, <2>2 DEF c
        <3> QED BY <1>0, <2>1, <3>1 DEF ToSet
    <2>3. CASE ~(i <= Len(a))
        <3>1. i - Len(a) \in 1..Len(b) /\ c[i] = b[i - Len(a)]
            BY <1>0, <2>3 DEF c
        <3> QED BY <1>0, <2>1, <3>1 DEF ToSet
    <2> QED BY <2>2, <2>3
<1>2. ASSUME NEW x \in ToSet(a) PROVE x \in ToSet(c)
    <2>1. PICK i \in 1..Len(a) : x = a[i]
        BY <1>0 DEF ToSet
    <2>2. i \in 1..(Len(a) + Len(b)) /\ i <= Len(a)
        BY <1>0
    <2>3. c[i] = x
        BY <1>0, <2>1, <2>2 DEF c
    <2> QED BY <1>0, <2>2, <2>3 DEF ToSet, c
<1>3. ASSUME NEW x \in ToSet(b) PROVE x \in ToSet(c)
    <2>1. PICK i \in 1..Len(b) : x = b[i]
        BY <1>0 DEF ToSet
    <2>2. i + Len(a) \in 1..(Len(a) + Len(b)) /\ ~(i + Len(a) <= Len(a)) /\ (i + Len(a)) - Len(a) = i
        BY <1>0
    <2>3. c[i + Len(a)] = x
        BY <1>0, <2>1, <2>2 DEF c
    <2> QED BY <1>0, <2>2, <2>3 DEF ToSet, c
<1> QED BY <1>1, <1>2, <1>3 DEF c

\* What is in no element, and in one.
LEMMA SmallSets == ToSet(<<>>) = {} /\ \A x : ToSet(<<x>>) = {x}
BY DEF ToSet

------------------------------------------------------------------------------
(* Sequences joined by FlattenSeq                                          *)

\* FlattenSeq joins the sequences one by one.
LEMMA FlattenSteps ==
    ASSUME NEW S, NEW seqs \in Seq(Seq(S)), Len(seqs) > 0
    PROVE  \E f \in [1..Len(seqs) -> Seq(S)] :
              /\ f[1] = seqs[1]
              /\ \A i \in 2..Len(seqs) : f[i] = f[i - 1] \o seqs[i]
              /\ FlattenSeq(seqs) = f[Len(seqs)]
<1> DEFINE len == Len(seqs)
           G == [x \in Seq(S) \X (1..len) |-> x[1] \o seqs[x[2]]]
           Flat(f) == f = [i \in 1..len |-> IF i = 1 THEN seqs[i] ELSE f[i - 1] \o seqs[i]]
<1>0. len \in Nat /\ len # 0 /\ 1 \in 1..len /\ \A i \in 1..len : seqs[i] \in Seq(S)
    OBVIOUS
<1>1. <<>> \in Seq(S) /\ G \in [Seq(S) \X (1..len) -> Seq(S)]
    <2>1. ASSUME NEW x \in Seq(S) \X (1..len) PROVE x[1] \o seqs[x[2]] \in Seq(S)
        <3>1. x[1] \in Seq(S) /\ seqs[x[2]] \in Seq(S)
            BY <1>0
        <3> QED BY <3>1, ConcatProperties
    <2> QED BY <2>1
<1>2. PICK g \in [0..len -> Seq(S)] : g[0] = <<>> /\ \A i \in 1..len : g[i] = G[<<g[i - 1], i>>]
    <2> DEFINE V == Seq(S)
               none == <<>>
    <2>1. len \in Nat /\ none \in V /\ G \in [V \X (1..len) -> V]
        BY <1>0, <1>1
    <2> HIDE DEF len, G, V, none
    <2>2. \E g : Unfolds(g, V, len, none, G)
        BY <2>1, Recursion
    <2> QED BY <2>2 DEF V, none, Unfolds
<1>3. ASSUME NEW i \in 1..len PROVE g[i] = g[i - 1] \o seqs[i] /\ g[i] \in Seq(S) /\ g[i - 1] \in Seq(S)
    <2>1. i - 1 \in 0..len /\ i \in 0..len
        BY <1>0
    <2>2. <<g[i - 1], i>> \in Seq(S) \X (1..len)
        BY <2>1
    <2>3. G[<<g[i - 1], i>>] = g[i - 1] \o seqs[i]
        BY <2>2
    <2> QED BY <1>2, <2>1, <2>3
<1>4. g[1] = seqs[1]
    <2>1. g[1] = g[0] \o seqs[1]
        <3>1. 1 - 1 = 0
            OBVIOUS
        <3> QED BY <1>0, <1>3, <3>1
    <2> QED BY <1>0, <1>2, <2>1, ConcatEmptySeq
<1> DEFINE h == [i \in 1..len |-> g[i]]
<1>5. ASSUME NEW i \in 1..len PROVE h[i] = IF i = 1 THEN seqs[i] ELSE h[i - 1] \o seqs[i]
    <2>1. CASE i = 1
        BY <1>4, <2>1
    <2>2. CASE i # 1
        <3>1. i - 1 \in 1..len
            BY <1>0, <2>2
        <3> QED BY <1>3, <2>2, <3>1
    <2> QED BY <2>1, <2>2
<1>6. Flat(h)
    <2>1. h = [i \in 1..len |-> h[i]]
        OBVIOUS
    <2> HIDE DEF h
    <2> QED BY <1>5, <2>1
<1> DEFINE f == CHOOSE k : Flat(k)
<1>7. Flat(f)
    <2>1. \E k : Flat(k)
        <3> HIDE DEF Flat, h
        <3> QED BY <1>6, Zenon
    <2> HIDE DEF Flat
    <2> QED BY <2>1, Zenon
<1>8. FlattenSeq(seqs) = f[len]
    BY <1>0, Zenon DEF FlattenSeq
<1> HIDE DEF f, h
<1>9. /\ DOMAIN f = 1..len /\ f = [i \in 1..len |-> f[i]] /\ f[1] = seqs[1]
      /\ \A i \in 2..len : f[i] = f[i - 1] \o seqs[i]
    <2>1. \A i \in 2..len : i \in 1..len /\ i # 1
        BY <1>0
    <2> QED BY <1>0, <1>7, <2>1
<1> DEFINE T == {i \in 1..len : f[i] = g[i]}
<1>10. \A i \in 1..len : i \in T
    <2>1. 1 \in T
        BY <1>0, <1>4, <1>9
    <2>2. ASSUME NEW m \in 1..len, m < len, m \in T PROVE m + 1 \in T
        <3>1. m + 1 \in 2..len /\ m + 1 \in 1..len /\ (m + 1) - 1 = m
            BY <1>0, <2>2
        <3>2. f[m + 1] = f[m] \o seqs[m + 1] /\ g[m + 1] = g[m] \o seqs[m + 1]
            BY <1>3, <1>9, <3>1
        <3> QED BY <2>2, <3>1, <3>2
    <2> HIDE DEF T, len
    <2> QED BY <1>0, <2>1, <2>2, Induction
<1>11. f \in [1..len -> Seq(S)]
    BY <1>3, <1>9, <1>10
<1> QED BY <1>8, <1>9, <1>11

\* Nothing is joined.
LEMMA FlattenEmpty == FlattenSeq(<<>>) = <<>>
BY DEF FlattenSeq

\* One more sequence is joined at the end.
LEMMA FlattenAppend ==
    ASSUME NEW S, NEW seqs \in Seq(Seq(S)), NEW s \in Seq(S)
    PROVE  FlattenSeq(Append(seqs, s)) = FlattenSeq(seqs) \o s /\ FlattenSeq(seqs) \in Seq(S)
<1> DEFINE len == Len(seqs)
           more == Append(seqs, s)
<1>0. /\ more \in Seq(Seq(S)) /\ Len(more) = len + 1 /\ len \in Nat
      /\ \A i \in 1..len : more[i] = seqs[i]
      /\ more[len + 1] = s
    BY AppendProperties, LenProperties
<1> HIDE DEF more
<1>1. PICK g \in [1..Len(more) -> Seq(S)] :
        /\ g[1] = more[1]
        /\ \A i \in 2..Len(more) : g[i] = g[i - 1] \o more[i]
        /\ FlattenSeq(more) = g[Len(more)]
    <2>1. Len(more) > 0
        BY <1>0
    <2> QED BY <1>0, <2>1, FlattenSteps
<1>2. CASE len = 0
    <2>1. seqs = <<>>
        BY <1>2
    <2>2. FlattenSeq(seqs) = <<>>
        BY <2>1, FlattenEmpty
    <2>3. FlattenSeq(more) = s
        BY <1>0, <1>1, <1>2
    <2>4. <<>> \o s = s /\ <<>> \in Seq(S)
        BY ConcatEmptySeq
    <2> QED BY <2>2, <2>3, <2>4 DEF more
<1>3. CASE len > 0
    <2>1. PICK f \in [1..len -> Seq(S)] :
            /\ f[1] = seqs[1]
            /\ \A i \in 2..len : f[i] = f[i - 1] \o seqs[i]
            /\ FlattenSeq(seqs) = f[len]
        BY <1>3, FlattenSteps
    <2> DEFINE T == {i \in 1..len : g[i] = f[i]}
    <2> HIDE DEF len
    <2>2. 1 \in T
        BY <1>0, <1>1, <1>3, <2>1
    <2>3. ASSUME NEW m \in 1..len, m < len, m \in T PROVE m + 1 \in T
        <3>1. m + 1 \in 2..len /\ m + 1 \in 1..len /\ (m + 1) - 1 = m /\ m + 1 \in 2..Len(more)
            BY <1>0, <2>3
        <3>2. f[m + 1] = f[m] \o seqs[m + 1] /\ g[m + 1] = g[m] \o more[m + 1]
            BY <1>1, <2>1, <3>1
        <3> QED BY <1>0, <2>3, <3>1, <3>2
    <2> HIDE DEF T
    <2>4. \A i \in 1..len : i \in T
        BY <1>0, <2>2, <2>3, Induction
    <2>5. g[len] = f[len]
        BY <1>0, <1>3, <2>4 DEF T
    <2>6. g[len + 1] = g[len] \o more[len + 1]
        <3>1. len + 1 \in 2..Len(more) /\ (len + 1) - 1 = len
            BY <1>0, <1>3
        <3> QED BY <1>1, <3>1
    <2>7. f[len] \in Seq(S)
        BY <1>0, <1>3, <2>1
    <2>8. FlattenSeq(more) = FlattenSeq(seqs) \o s
        BY <1>0, <1>1, <2>1, <2>5, <2>6
    <2> QED BY <2>1, <2>7, <2>8 DEF more
<1> QED BY <1>0, <1>2, <1>3

\* What is joined.
LEMMA FlattenType ==
    ASSUME NEW S, NEW seqs \in Seq(Seq(S))
    PROVE  FlattenSeq(seqs) \in Seq(S)
<1>1. <<>> \in Seq(S)
    OBVIOUS
<1> QED BY <1>1, FlattenAppend

\* One sequence is joined.
LEMMA FlattenOne ==
    ASSUME NEW S, NEW s \in Seq(S)
    PROVE  FlattenSeq(<<s>>) = s
<1>1. <<s>> = Append(<<>>, s) /\ <<>> \in Seq(Seq(S))
    OBVIOUS
<1>2. FlattenSeq(Append(<<>>, s)) = FlattenSeq(<<>>) \o s
    BY <1>1, FlattenAppend
<1> QED BY <1>1, <1>2, FlattenEmpty, ConcatEmptySeq

\* Two rows are joined one after the other.
LEMMA FlattenConcat ==
    ASSUME NEW S, NEW a \in Seq(Seq(S)), NEW b \in Seq(Seq(S))
    PROVE  FlattenSeq(a \o b) = FlattenSeq(a) \o FlattenSeq(b)
<1> DEFINE P == {t \in Seq(Seq(S)) : FlattenSeq(a \o t) = FlattenSeq(a) \o FlattenSeq(t)}
<1>0. FlattenSeq(a) \in Seq(S)
    BY FlattenType
<1>1. <<>> \in P
    <2>1. a \o <<>> = a /\ <<>> \in Seq(Seq(S))
        BY ConcatEmptySeq
    <2>2. FlattenSeq(a) \o <<>> = FlattenSeq(a)
        BY <1>0, ConcatEmptySeq
    <2> QED BY <2>1, <2>2, FlattenEmpty
<1>2. ASSUME NEW t \in Seq(Seq(S)), NEW x \in Seq(S), t \in P PROVE Append(t, x) \in P
    <2>1. Append(t, x) \in Seq(Seq(S)) /\ a \o t \in Seq(Seq(S)) /\ FlattenSeq(t) \in Seq(S)
        <3>1. Append(t, x) \in Seq(Seq(S))
            BY AppendProperties
        <3>2. a \o t \in Seq(Seq(S))
            BY ConcatType
        <3> QED BY <3>1, <3>2, FlattenType
    <2>2. a \o Append(t, x) = Append(a \o t, x)
        <3> DEFINE V == Seq(S)
        <3>1. a \in Seq(V) /\ t \in Seq(V) /\ x \in V
            OBVIOUS
        <3> HIDE DEF V
        <3>2. Cat(a, Put(t, x)) = Put(Cat(a, t), x)
            BY ONLY <3>1, AppendBehind
        <3> QED BY ONLY <3>2 DEF Put, Cat
    <2>3. FlattenSeq(Append(a \o t, x)) = FlattenSeq(a \o t) \o x
        BY <2>1, FlattenAppend
    <2>4. FlattenSeq(Append(t, x)) = FlattenSeq(t) \o x
        BY FlattenAppend
    <2>5. FlattenSeq(a \o t) = FlattenSeq(a) \o FlattenSeq(t)
        BY <1>2
    <2>6. (FlattenSeq(a) \o FlattenSeq(t)) \o x = FlattenSeq(a) \o (FlattenSeq(t) \o x)
        <3> DEFINE fa == FlattenSeq(a)
                   ft == FlattenSeq(t)
        <3>1. fa \in Seq(S) /\ ft \in Seq(S)
            BY <1>0, <2>1
        <3> HIDE DEF fa, ft
        <3>2. Cat(Cat(fa, ft), x) = Cat(fa, Cat(ft, x))
            BY ONLY <3>1, x \in Seq(S), CatAssociative
        <3> QED BY ONLY <3>2 DEF Cat, fa, ft
    <2>7. FlattenSeq(a \o Append(t, x)) = FlattenSeq(a) \o FlattenSeq(Append(t, x))
        BY <2>2, <2>3, <2>4, <2>5, <2>6
    <2> QED BY <2>1, <2>7
<1> HIDE DEF P
<1>3. \A t \in Seq(Seq(S)) : t \in P
    <2> DEFINE V == Seq(S)
    <2>1. \A t \in Seq(V) : \A x \in V : t \in P => Append(t, x) \in P
        BY <1>2
    <2> HIDE DEF V
    <2>2. \A t \in Seq(V) : t \in P
        BY <1>1, <2>1, SequenceInduction
    <2> QED BY <2>2 DEF V
<1> QED BY <1>3 DEF P

\* Sequences over a set are sequences over a larger one.
LEMMA SeqOfSubset ==
    ASSUME NEW A, NEW B, A \subseteq B, NEW s \in Seq(A)
    PROVE  s \in Seq(B)
<1>1. Len(s) \in Nat /\ s \in [1..Len(s) -> B]
    OBVIOUS
<1> QED BY <1>1

==============================================================================
