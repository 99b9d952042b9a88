----------------------------- MODULE ListTheorems -----------------------------
(***************************************************************************)
(* What queues and lists that hold nobody twice do to the set of their     *)
(* elements and to their places: the lemmas that the proofs share.         *)
(***************************************************************************)
EXTENDS Integers, FiniteSets, SequencesExt, FiniteSetTheorems, SequenceTheorems,
        WellFoundedInduction, TLAPS

\* Every nonempty set of naturals has a least element.
LEMMA LeastNatural ==
    ASSUME NEW T, T \subseteq Nat, T # {}
    PROVE  \E x \in T : \A y \in T : x <= y
    <1> DEFINE R == OpToRel(<, Nat)
    <1>1. IsWellFoundedOn(R, Nat)
        BY NatLessThanWellFounded
    <1>2. \A x, y \in Nat : <<y, x>> \in R <=> y < x
        BY DEF OpToRel
    <1> HIDE DEF R
    <1>3. PICK x \in T : \A y \in T : ~(<<y, x>> \in R)
        BY <1>1, WFMin
    <1>4. \A y \in T : ~(y < x)
        BY <1>2, <1>3, Zenon
    <1> QED BY <1>3, <1>4

\* What each of n steps makes of an element of S, and what is made of base by and by.
StepsOf(n, S) == [1 .. n -> [S -> S]]
MadeBy(g, n, S, base, F) ==
    g \in [0 .. n -> S] /\ g[0] = base /\ \A i \in 1 .. n : g[i] = F[i][g[i - 1]]

\* A function that is defined by recursion along the numbers up to n exists.
LEMMA Recursion ==
    ASSUME NEW S, NEW base \in S, NEW n \in Nat, NEW F \in StepsOf(n, S)
    PROVE  \E g : MadeBy(g, n, S, base, F)
    <1> DEFINE Made(m) == \E g : MadeBy(g, m, S, base, F)
               T == {m \in 0 .. n : ~Made(m)}
    <1> HIDE DEF Made
    <1> SUFFICES ASSUME T # {} PROVE FALSE
        <2>1. n \in 0 .. n
            OBVIOUS
        <2>2. Made(n)
            BY <2>1
        <2> QED BY <2>2 DEF Made
    <1>1. T \subseteq Nat
        OBVIOUS
    <1>2. PICK m \in T : \A y \in T : m <= y
        BY <1>1, LeastNatural
    <1>3. m # 0
        <2> DEFINE g == [i \in 0 .. 0 |-> base]
        <2>1. MadeBy(g, 0, S, base, F)
            BY DEF MadeBy
        <2>2. Made(0)
            BY <2>1 DEF Made
        <2> QED BY <1>2, <2>2
    <1>4. m \in Nat /\ m <= n /\ m - 1 \in 0 .. n /\ m - 1 \in Nat /\ ~(m <= m - 1)
        BY <1>2, <1>3
    <1>0. Made(m - 1)
        BY <1>2, <1>4
    <1>a. PICK h : MadeBy(h, m - 1, S, base, F)
        BY <1>0 DEF Made
    <1>5. /\ h \in [0 .. m - 1 -> S] /\ h[0] = base
          /\ \A i \in 1 .. m - 1 : h[i] = F[i][h[i - 1]]
        BY <1>a DEF MadeBy
    <1> DEFINE g == [i \in 0 .. m |-> IF i = m THEN F[m][h[m - 1]] ELSE h[i]]
    <1>6. h[m - 1] \in S /\ F[m] \in [S -> S]
        BY <1>3, <1>4, <1>5 DEF StepsOf
    <1>7. F[m][h[m - 1]] \in S
        BY <1>6
    <1>8. ASSUME NEW i \in 0 .. m, i # m PROVE i \in 0 .. m - 1 /\ g[i] = h[i] /\ h[i] \in S
        BY <1>4, <1>5, <1>8
    <1>9. g \in [0 .. m -> S]
        BY <1>7, <1>8
    <1>10. g[0] = base
        BY <1>3, <1>4, <1>5
    <1>11. ASSUME NEW i \in 1 .. m PROVE g[i] = F[i][g[i - 1]]
        <2>1. i - 1 \in 0 .. m /\ i - 1 # m /\ i \in 0 .. m
            BY <1>4
        <2>2. g[i - 1] = h[i - 1]
            BY <1>8, <2>1
        <2>3. CASE i = m
            BY <2>1, <2>2, <2>3
        <2>4. CASE i # m
            <3>1. i \in 1 .. m - 1
                BY <1>4, <2>4
            <3>2. g[i] = h[i] /\ h[i] = F[i][h[i - 1]]
                BY <1>5, <1>8, <2>1, <2>4, <3>1
            <3> QED BY <2>2, <3>2
        <2> QED BY <2>3, <2>4
    <1> HIDE DEF g
    <1>12. Made(m)
        BY <1>9, <1>10, <1>11 DEF Made, MadeBy
    <1> QED BY <1>2, <1>12

\* The same for a step that is repeated.
Repeats(g, n, S, base, F) ==
    g \in [0 .. n -> S] /\ g[0] = base /\ \A i \in 1 .. n : g[i] = F[g[i - 1]]

LEMMA RepeatedSteps ==
    ASSUME NEW S, NEW base \in S, NEW n \in Nat, NEW F \in [S -> S]
    PROVE  \E g : Repeats(g, n, S, base, F)
    <1> DEFINE G == [i \in 1 .. n |-> F]
    <1>1. G \in StepsOf(n, S)
        BY DEF StepsOf
    <1>2. \A i \in 1 .. n : G[i] = F
        OBVIOUS
    <1> HIDE DEF G
    <1>3. PICK g : MadeBy(g, n, S, base, G)
        BY <1>1, Recursion
    <1>4. g \in [0 .. n -> S] /\ g[0] = base /\ \A i \in 1 .. n : g[i] = G[i][g[i - 1]]
        BY <1>3 DEF MadeBy
    <1>5. Repeats(g, n, S, base, F)
        BY <1>2, <1>4 DEF Repeats
    <1> QED BY <1>5

\* What holds at first, and after each step if it held before, holds after all of them.
LEMMA StaysIn ==
    ASSUME NEW n \in Nat, NEW S, NEW f, f[0] \in S[0],
           \A i \in 1 .. n : f[i - 1] \in S[i - 1] => f[i] \in S[i]
    PROVE  \A i \in 0 .. n : f[i] \in S[i]
    <1> DEFINE T == {i \in 0 .. n : f[i] \notin S[i]}
    <1> SUFFICES ASSUME T # {} PROVE FALSE
        OBVIOUS
    <1>1. T \subseteq Nat
        OBVIOUS
    <1>2. PICK i \in T : \A y \in T : i <= y
        BY <1>1, LeastNatural
    <1>3. i \in 1 .. n /\ i - 1 \in 0 .. n /\ ~(i <= i - 1)
        BY <1>2
    <1>4. f[i - 1] \in S[i - 1]
        BY <1>2, <1>3
    <1> QED BY <1>2, <1>3, <1>4

(* Sequences without repetition. *)

LEMMA InToSet ==
    ASSUME NEW S, NEW s \in Seq(S)
    PROVE  /\ ToSet(s) \subseteq S
           /\ \A x : x \in ToSet(s) <=> \E i \in 1 .. Len(s) : s[i] = x
    BY LenProperties, ElementOfSeq DEF ToSet

\* The empty sequence and those of one element.
LEMMA ShortSeqs ==
    /\ ToSet(<<>>) = {} /\ IsInjective(<<>>) /\ Len(<<>>) = 0 /\ \A S : <<>> \in Seq(S)
    /\ \A x : ToSet(<<x>>) = {x} /\ IsInjective(<<x>>) /\ Len(<<x>>) = 1
    BY DEF ToSet, IsInjective

LEMMA ConcatSet ==
    ASSUME NEW S, NEW s \in Seq(S), NEW t \in Seq(S)
    PROVE  /\ s \o t \in Seq(S)
           /\ Len(s \o t) = Len(s) + Len(t)
           /\ ToSet(s \o t) = ToSet(s) \cup ToSet(t)
           /\ IsInjective(s) /\ IsInjective(t) /\ ToSet(s) \cap ToSet(t) = {}
                 => IsInjective(s \o t)
    <1> DEFINE c == s \o t
    <1>1. /\ c \in Seq(S) /\ Len(c) = Len(s) + Len(t)
          /\ \A i \in 1 .. Len(s) + Len(t) : c[i] = IF i <= Len(s) THEN s[i] ELSE t[i - Len(s)]
        BY ConcatProperties
    <1>2. /\ DOMAIN c = 1 .. Len(s) + Len(t)
          /\ DOMAIN s = 1 .. Len(s) /\ DOMAIN t = 1 .. Len(t)
          /\ Len(s) \in Nat /\ Len(t) \in Nat
        BY <1>1, LenProperties
    <1> HIDE DEF c
    <1>3. \A i \in 1 .. Len(s) : i \in DOMAIN c /\ c[i] = s[i]
        BY <1>1, <1>2
    <1>4. \A i \in 1 .. Len(t) : i + Len(s) \in DOMAIN c /\ c[i + Len(s)] = t[i]
        <2> SUFFICES ASSUME NEW i \in 1 .. Len(t)
                     PROVE  i + Len(s) \in DOMAIN c /\ c[i + Len(s)] = t[i]
            OBVIOUS
        <2>1. /\ i + Len(s) \in 1 .. Len(s) + Len(t) /\ ~(i + Len(s) <= Len(s))
              /\ (i + Len(s)) - Len(s) = i
            BY <1>2
        <2> QED BY <1>1, <1>2, <2>1
    <1>5. \A i \in DOMAIN c : \/ i \in 1 .. Len(s) /\ c[i] = s[i]
                              \/ i - Len(s) \in 1 .. Len(t) /\ c[i] = t[i - Len(s)]
        <2> SUFFICES ASSUME NEW i \in 1 .. Len(s) + Len(t)
                     PROVE  \/ i \in 1 .. Len(s) /\ c[i] = s[i]
                            \/ i - Len(s) \in 1 .. Len(t) /\ c[i] = t[i - Len(s)]
            BY <1>2
        <2>1. CASE i <= Len(s)
            BY <1>1, <1>2, <2>1
        <2>2. CASE i > Len(s)
            BY <1>1, <1>2, <2>2
        <2> QED BY <1>2, <2>1, <2>2
    <1>6. ToSet(c) = ToSet(s) \cup ToSet(t)
        <2>1. ASSUME NEW x \in ToSet(c) PROVE x \in ToSet(s) \cup ToSet(t)
            BY <1>2, <1>5, <2>1 DEF ToSet
        <2>2. ASSUME NEW x \in ToSet(s) PROVE x \in ToSet(c)
            BY <1>2, <1>3, <2>2 DEF ToSet
        <2>3. ASSUME NEW x \in ToSet(t) PROVE x \in ToSet(c)
            BY <1>2, <1>4, <2>3 DEF ToSet
        <2> QED BY <2>1, <2>2, <2>3
    <1>7. ASSUME IsInjective(s), IsInjective(t), ToSet(s) \cap ToSet(t) = {}
          PROVE  IsInjective(c)
        <2> SUFFICES ASSUME NEW i \in DOMAIN c, NEW j \in DOMAIN c, c[i] = c[j]
                     PROVE  i = j
            BY DEF IsInjective
        <2>1. CASE i \in 1 .. Len(s) /\ j \in 1 .. Len(s)
            <3>1. s[i] = s[j]
                BY <1>3, <2>1
            <3> QED BY <1>2, <1>7, <2>1, <3>1 DEF IsInjective
        <2>2. CASE i - Len(s) \in 1 .. Len(t) /\ j - Len(s) \in 1 .. Len(t)
            <3>0. i \in Int /\ j \in Int
                BY <1>2
            <3>1. t[i - Len(s)] = t[j - Len(s)]
                BY <1>2, <1>5, <2>2
            <3>2. i - Len(s) = j - Len(s)
                BY <1>2, <1>7, <2>2, <3>1 DEF IsInjective
            <3> QED BY <1>2, <3>0, <3>2
        <2>3. CASE i \in 1 .. Len(s) /\ j - Len(s) \in 1 .. Len(t)
            <3>1. c[i] \in ToSet(s) /\ c[j] \in ToSet(t)
                BY <1>2, <1>5, <2>3 DEF ToSet
            <3> QED BY <1>7, <3>1
        <2>4. CASE j \in 1 .. Len(s) /\ i - Len(s) \in 1 .. Len(t)
            <3>1. c[j] \in ToSet(s) /\ c[i] \in ToSet(t)
                BY <1>2, <1>5, <2>4 DEF ToSet
            <3> QED BY <1>7, <3>1
        <2> QED BY <1>5, <2>1, <2>2, <2>3, <2>4
    <1> QED BY <1>1, <1>6, <1>7 DEF c

LEMMA AppendSet ==
    ASSUME NEW S, NEW s \in Seq(S), NEW x \in S
    PROVE  /\ Append(s, x) \in Seq(S)
           /\ ToSet(Append(s, x)) = ToSet(s) \cup {x}
           /\ IsInjective(s) /\ x \notin ToSet(s) => IsInjective(Append(s, x))
           /\ Len(Append(s, x)) = Len(s) + 1
    <1> DEFINE one == <<x>>
    <1>1. Append(s, x) = s \o one /\ one \in Seq(S)
        BY AppendIsConcat
    <1>2. ToSet(one) = {x} /\ IsInjective(one) /\ Len(one) = 1
        BY ShortSeqs
    <1> HIDE DEF one
    <1>3. /\ s \o one \in Seq(S)
          /\ Len(s \o one) = Len(s) + Len(one)
          /\ ToSet(s \o one) = ToSet(s) \cup ToSet(one)
          /\ IsInjective(s) /\ IsInjective(one) /\ ToSet(s) \cap ToSet(one) = {}
                => IsInjective(s \o one)
        BY <1>1, ConcatSet
    <1> QED BY <1>1, <1>2, <1>3

LEMMA TailSet ==
    ASSUME NEW S, NEW s \in Seq(S), s # <<>>, IsInjective(s)
    PROVE  /\ Tail(s) \in Seq(S) /\ IsInjective(Tail(s))
           /\ Head(s) \in ToSet(s) /\ Head(s) \in S
           /\ ToSet(Tail(s)) = ToSet(s) \ {Head(s)}
    <1>1. /\ Head(s) \in S /\ Tail(s) \in Seq(S)
          /\ DOMAIN s = 1 .. Len(s) /\ Len(s) \in Nat \ {0}
          /\ Len(Tail(s)) = Len(s) - 1
          /\ \A i \in 1 .. Len(Tail(s)) : Tail(s)[i] = s[i + 1]
          /\ Head(s) = s[1]
        BY HeadTailProperties, LenProperties, EmptySeq
    <1>2. DOMAIN Tail(s) = 1 .. (Len(s) - 1)
        BY <1>1, LenProperties
    <1>3. \A i \in DOMAIN Tail(s) : i + 1 \in DOMAIN s /\ Tail(s)[i] = s[i + 1]
        BY <1>1, <1>2
    <1>4. IsInjective(Tail(s))
        <2> SUFFICES ASSUME NEW i \in DOMAIN Tail(s), NEW j \in DOMAIN Tail(s),
                            Tail(s)[i] = Tail(s)[j]
                     PROVE  i = j
            BY DEF IsInjective
        <2>1. i + 1 = j + 1
            BY <1>3 DEF IsInjective
        <2> QED BY <1>1, <1>2, <2>1
    <1>5. Head(s) \in ToSet(s)
        BY <1>1 DEF ToSet
    <1>6. ASSUME NEW x \in ToSet(Tail(s)) PROVE x \in ToSet(s) \ {Head(s)}
        <2>1. PICK i \in DOMAIN Tail(s) : x = Tail(s)[i]
            BY <1>6 DEF ToSet
        <2>2. x = s[i + 1] /\ i + 1 \in DOMAIN s /\ i + 1 # 1 /\ 1 \in DOMAIN s
            BY <1>1, <1>2, <1>3, <2>1
        <2> QED BY <1>1, <2>2 DEF ToSet, IsInjective
    <1>7. ASSUME NEW x \in ToSet(s), x # Head(s) PROVE x \in ToSet(Tail(s))
        <2>1. PICK i \in DOMAIN s : x = s[i]
            BY <1>7 DEF ToSet
        <2>2. i - 1 \in DOMAIN Tail(s) /\ (i - 1) + 1 = i
            BY <1>1, <1>2, <1>7, <2>1
        <2>3. Tail(s)[i - 1] = x
            BY <1>3, <2>1, <2>2
        <2> QED BY <2>2, <2>3 DEF ToSet
    <1> QED BY <1>1, <1>4, <1>5, <1>6, <1>7

\* Taking the front from a queue to whose end something was added.
LEMMA TailOfConcat ==
    ASSUME NEW S, NEW s \in Seq(S), NEW t \in Seq(S), s # <<>>
    PROVE  s \o t # <<>> /\ Head(s \o t) = Head(s)
    <1>1. /\ s \o t \in Seq(S) /\ Len(s \o t) = Len(s) + Len(t)
          /\ \A i \in 1 .. Len(s) + Len(t) :
                (s \o t)[i] = IF i <= Len(s) THEN s[i] ELSE t[i - Len(s)]
        BY ConcatProperties
    <1>2. Len(s) \in Nat \ {0} /\ Len(t) \in Nat
        BY LenProperties, EmptySeq
    <1>3. s \o t # <<>>
        BY <1>1, <1>2
    <1>4. (s \o t)[1] = s[1]
        BY <1>1, <1>2
    <1> QED BY <1>1, <1>3, <1>4, HeadTailProperties

LEMMA ConsSet ==
    ASSUME NEW S, NEW s \in Seq(S), NEW x \in S
    PROVE  /\ <<x>> \o s \in Seq(S)
           /\ ToSet(<<x>> \o s) = {x} \cup ToSet(s)
           /\ IsInjective(s) /\ x \notin ToSet(s) => IsInjective(<<x>> \o s)
           /\ Len(<<x>> \o s) = Len(s) + 1
    <1> DEFINE one == <<x>>
    <1>1. one \in Seq(S) /\ ToSet(one) = {x} /\ IsInjective(one) /\ Len(one) = 1
        BY ShortSeqs
    <1> HIDE DEF one
    <1>2. /\ one \o s \in Seq(S) /\ Len(one \o s) = Len(one) + Len(s)
          /\ ToSet(one \o s) = ToSet(one) \cup ToSet(s)
          /\ IsInjective(one) /\ IsInjective(s) /\ ToSet(one) \cap ToSet(s) = {}
                => IsInjective(one \o s)
        BY <1>1, ConcatSet, ZenonT(40)
    <1>3. Len(s) \in Nat
        BY LenProperties
    <1>4. /\ one \o s \in Seq(S) /\ ToSet(one \o s) = {x} \cup ToSet(s)
          /\ IsInjective(s) /\ x \notin ToSet(s) => IsInjective(one \o s)
          /\ Len(one \o s) = Len(s) + 1
        BY <1>1, <1>2, <1>3
    <1> QED BY <1>4 DEF one

\* Taking an element out of the middle.
LEMMA ConsPlaces ==
    ASSUME NEW S, NEW s \in Seq(S), NEW x \in S
    PROVE  /\ (<<x>> \o s)[1] = x
           /\ \A i \in 1 .. Len(s) : (<<x>> \o s)[i + 1] = s[i]
    <1> DEFINE one == <<x>>
    <1>1. one \in Seq(S) /\ Len(one) = 1 /\ one[1] = x
        OBVIOUS
    <1>2. Len(s) \in Nat
        BY LenProperties
    <1> HIDE DEF one
    <1>3. \A i \in 1 .. Len(one) + Len(s) : (one \o s)[i] = IF i <= Len(one) THEN one[i] ELSE s[i - Len(one)]
        BY <1>1, ConcatProperties
    <1>4. 1 \in 1 .. Len(one) + Len(s) /\ 1 <= Len(one)
        BY <1>1, <1>2
    <1>5. ASSUME NEW i \in 1 .. Len(s) PROVE (one \o s)[i + 1] = s[i]
        <2>1. i + 1 \in 1 .. Len(one) + Len(s) /\ ~(i + 1 <= Len(one)) /\ (i + 1) - Len(one) = i
            BY <1>1, <1>2
        <2> QED BY <1>3, <2>1
    <1>6. (one \o s)[1] = x
        <2>1. (one \o s)[1] = one[1]
            BY <1>3, <1>4
        <2> QED BY <1>1, <2>1
    <1> QED BY <1>5, <1>6 DEF one

\* The beginning and the end of a sequence.
LEMMA SubSeqPlaces ==
    ASSUME NEW S, NEW s \in Seq(S), NEW n \in 0 .. Len(s)
    PROVE  /\ SubSeq(s, 1, n) \in Seq(S) /\ Len(SubSeq(s, 1, n)) = n
           /\ \A i \in 1 .. n : SubSeq(s, 1, n)[i] = s[i]
           /\ SubSeq(s, n + 1, Len(s)) \in Seq(S)
           /\ Len(SubSeq(s, n + 1, Len(s))) = Len(s) - n
           /\ \A i \in 1 .. Len(s) - n : SubSeq(s, n + 1, Len(s))[i] = s[n + i]
    <1> DEFINE f == SubSeq(s, 1, n)
               b == SubSeq(s, n + 1, Len(s))
    <1>1. Len(s) \in Nat /\ n \in Nat /\ n <= Len(s) /\ \A i \in 1 .. Len(s) : s[i] \in S
        BY LenProperties, ElementOfSeq
    <1>2. /\ f \in Seq(S) /\ Len(f) = IF 1 <= n THEN n - 1 + 1 ELSE 0
          /\ \A i \in 1 .. n - 1 + 1 : f[i] = s[1 + i - 1]
        <2>1. 1 \in Int /\ n \in Int /\ \A i \in 1 .. n : s[i] \in S
            BY <1>1
        <2> QED BY <2>1, SubSeqProperties
    <1>3. /\ b \in Seq(S) /\ Len(b) = IF n + 1 <= Len(s) THEN Len(s) - (n + 1) + 1 ELSE 0
          /\ \A i \in 1 .. Len(s) - (n + 1) + 1 : b[i] = s[(n + 1) + i - 1]
        <2>1. n + 1 \in Int /\ Len(s) \in Int /\ \A i \in n + 1 .. Len(s) : s[i] \in S
            BY <1>1
        <2> QED BY <2>1, SubSeqProperties
    <1> HIDE DEF f, b
    <1>4. Len(f) = n
        BY <1>1, <1>2
    <1>5. \A i \in 1 .. n : f[i] = s[i]
        <2>1. \A i \in 1 .. n : i \in 1 .. n - 1 + 1 /\ 1 + i - 1 = i
            BY <1>1
        <2> QED BY <1>2, <2>1
    <1>6. Len(b) = Len(s) - n
        <2>1. CASE n + 1 <= Len(s)
            BY <1>1, <1>3, <2>1
        <2>2. CASE ~(n + 1 <= Len(s))
            <3>1. Len(s) = n
                BY <1>1, <2>2
            <3>2. Len(b) = 0
                BY <1>3, <2>2
            <3> QED BY <1>1, <3>1, <3>2
        <2> QED BY <2>1, <2>2
    <1>7. \A i \in 1 .. Len(s) - n : b[i] = s[n + i]
        <2>1. \A i \in 1 .. Len(s) - n : i \in 1 .. Len(s) - (n + 1) + 1 /\ (n + 1) + i - 1 = n + i
            BY <1>1
        <2> QED BY <1>3, <2>1
    <1> QED BY <1>2, <1>3, <1>4, <1>5, <1>6, <1>7 DEF f, b

\* The first of a sequence and the rest.
LEMMA HeadTailCons ==
    ASSUME NEW S, NEW s \in Seq(S), s # <<>>
    PROVE  s = <<Head(s)>> \o Tail(s) /\ Head(s) = s[1]
    <1>1. Len(s) \in Nat \ {0} /\ 1 \in 1 .. Len(s) /\ Len(s) \in 1 .. Len(s)
        BY EmptySeq
    <1>2. SubSeq(s, 1, Len(s)) = <<s[1]>> \o SubSeq(s, 1 + 1, Len(s))
        BY <1>1, SubSeqRecursiveFirst
    <1>3. SubSeq(s, 1, Len(s)) = s /\ SubSeq(s, 2, Len(s)) = Tail(s) /\ 1 + 1 = 2
        BY SubSeqFull, TailIsSubSeq
    <1>4. Head(s) = s[1]
        OBVIOUS
    <1> QED BY <1>2, <1>3, <1>4

\* What is behind a beginning.
LEMMA RestOfConcat ==
    ASSUME NEW S, NEW x \in Seq(S), NEW y \in Seq(S)
    PROVE  SubSeq(x \o y, Len(x) + 1, Len(x \o y)) = y
    <1> DEFINE s == x \o y
               n == Len(x)
               r == SubSeq(s, n + 1, Len(s))
    <1>1. n \in Nat /\ Len(y) \in Nat
        BY LenProperties
    <1>2. /\ s \in Seq(S) /\ Len(s) = n + Len(y)
          /\ \A i \in 1 .. n + Len(y) : s[i] = IF i <= n THEN x[i] ELSE y[i - n]
        BY ConcatProperties
    <1> HIDE DEF s, n
    <1>3. n \in 0 .. Len(s) /\ Len(s) - n = Len(y)
        BY <1>1, <1>2
    <1>4. r \in Seq(S) /\ Len(r) = Len(s) - n /\ \A i \in 1 .. Len(s) - n : r[i] = s[n + i]
        BY <1>2, <1>3, SubSeqPlaces
    <1> HIDE DEF r
    <1>5. ASSUME NEW i \in 1 .. Len(y) PROVE r[i] = y[i]
        <2>1. n + i \in 1 .. n + Len(y) /\ ~(n + i <= n) /\ (n + i) - n = i
            BY <1>1
        <2> QED BY <1>2, <1>3, <1>4, <2>1
    <1>6. r = y
        BY <1>3, <1>4, <1>5, SeqEqual
    <1> QED BY <1>6 DEF r, s, n

LEMMA RemoveAtSet ==
    ASSUME NEW S, NEW s \in Seq(S), IsInjective(s), NEW n \in 1 .. Len(s)
    PROVE  /\ RemoveAt(s, n) \in Seq(S) /\ IsInjective(RemoveAt(s, n))
           /\ ToSet(RemoveAt(s, n)) = ToSet(s) \ {s[n]}
           /\ Len(RemoveAt(s, n)) = Len(s) - 1
    <1> DEFINE f == SubSeq(s, 1, n - 1)
               b == SubSeq(s, n + 1, Len(s))
    <1>1. Len(s) \in Nat /\ DOMAIN s = 1 .. Len(s) /\ \A i \in 1 .. Len(s) : s[i] \in S
        BY LenProperties, ElementOfSeq
    <1>2. /\ f \in Seq(S) /\ Len(f) = n - 1
          /\ \A i \in 1 .. n - 1 : f[i] = s[i]
        <2>1. 1 \in Int /\ n - 1 \in Int /\ \A i \in 1 .. n - 1 : s[i] \in S
            BY <1>1
        <2>2. /\ f \in Seq(S) /\ Len(f) = IF 1 <= n - 1 THEN (n - 1) - 1 + 1 ELSE 0
              /\ \A i \in 1 .. (n - 1) - 1 + 1 : f[i] = s[1 + i - 1]
            BY <2>1, SubSeqProperties
        <2> HIDE DEF f
        <2>3. Len(f) = n - 1
            BY <1>1, <2>2
        <2>4. \A i \in 1 .. n - 1 : i \in 1 .. (n - 1) - 1 + 1 /\ 1 + i - 1 = i
            BY <1>1
        <2> QED BY <2>2, <2>3, <2>4
    <1>3. /\ b \in Seq(S) /\ Len(b) = Len(s) - n
          /\ \A i \in 1 .. Len(s) - n : b[i] = s[n + i]
        <2>1. n + 1 \in Int /\ Len(s) \in Int /\ \A i \in n + 1 .. Len(s) : s[i] \in S
            BY <1>1
        <2>2. /\ b \in Seq(S) /\ Len(b) = IF n + 1 <= Len(s) THEN Len(s) - (n + 1) + 1 ELSE 0
              /\ \A i \in 1 .. Len(s) - (n + 1) + 1 : b[i] = s[(n + 1) + i - 1]
            BY <2>1, SubSeqProperties
        <2> HIDE DEF b
        <2>3. Len(b) = Len(s) - n
            <3>1. CASE n + 1 <= Len(s)
                <4>1. Len(b) = Len(s) - (n + 1) + 1
                    BY <2>2, <3>1
                <4> QED BY <1>1, <4>1
            <3>2. CASE ~(n + 1 <= Len(s))
                <4>1. Len(b) = 0
                    BY <2>2, <3>2
                <4>2. n \in 1 .. Len(s) /\ Len(s) \in Nat
                    BY <1>1
                <4>3. Len(s) = n
                    BY <3>2, <4>2
                <4> QED BY <4>1, <4>2, <4>3
            <3> QED BY <3>1, <3>2
        <2>4. \A i \in 1 .. Len(s) - n : i \in 1 .. Len(s) - (n + 1) + 1 /\ (n + 1) + i - 1 = n + i
            BY <1>1
        <2> QED BY <2>2, <2>3, <2>4
    <1> HIDE DEF f, b
    <1>4. DOMAIN f = 1 .. n - 1 /\ DOMAIN b = 1 .. Len(s) - n
        BY <1>2, <1>3, LenProperties
    <1>5. /\ \A x \in ToSet(f) : \E i \in 1 .. n - 1 : x = s[i]
          /\ \A x \in ToSet(b) : \E i \in n + 1 .. Len(s) : x = s[i]
        <2>1. ASSUME NEW x \in ToSet(f) PROVE \E i \in 1 .. n - 1 : x = s[i]
            BY <1>2, <1>4, <2>1 DEF ToSet
        <2>2. ASSUME NEW x \in ToSet(b) PROVE \E i \in n + 1 .. Len(s) : x = s[i]
            <3>1. PICK j \in 1 .. Len(s) - n : x = b[j]
                BY <1>4, <2>2 DEF ToSet
            <3>2. n + j \in n + 1 .. Len(s) /\ x = s[n + j]
                BY <1>1, <1>3, <3>1
            <3> QED BY <3>2
        <2> QED BY <2>1, <2>2
    <1>6. IsInjective(f)
        <2> SUFFICES ASSUME NEW i \in 1 .. n - 1, NEW j \in 1 .. n - 1, f[i] = f[j]
                     PROVE  i = j
            BY <1>4 DEF IsInjective
        <2>1. i \in DOMAIN s /\ j \in DOMAIN s /\ s[i] = s[j]
            BY <1>1, <1>2
        <2> QED BY <2>1 DEF IsInjective
    <1>7. IsInjective(b)
        <2> SUFFICES ASSUME NEW i \in 1 .. Len(s) - n, NEW j \in 1 .. Len(s) - n, b[i] = b[j]
                     PROVE  i = j
            BY <1>4 DEF IsInjective
        <2>1. n + i \in DOMAIN s /\ n + j \in DOMAIN s /\ s[n + i] = s[n + j]
            BY <1>1, <1>3
        <2>2. n + i = n + j
            BY <2>1 DEF IsInjective
        <2> QED BY <1>1, <2>2
    <1>8. ToSet(f) \cap ToSet(b) = {}
        <2> SUFFICES ASSUME NEW x \in ToSet(f), x \in ToSet(b) PROVE FALSE
            OBVIOUS
        <2>1. PICK i \in 1 .. n - 1 : x = s[i]
            BY <1>5
        <2>2. PICK j \in n + 1 .. Len(s) : x = s[j]
            BY <1>5
        <2>3. i \in DOMAIN s /\ j \in DOMAIN s /\ i # j
            BY <1>1
        <2> QED BY <2>1, <2>2, <2>3 DEF IsInjective
    <1>9. ToSet(f) \cup ToSet(b) = ToSet(s) \ {s[n]}
        <2>1. ASSUME NEW x \in ToSet(f) \cup ToSet(b) PROVE x \in ToSet(s) /\ x # s[n]
            <3>1. PICK i \in 1 .. Len(s) : x = s[i] /\ i # n
                <4>1. CASE x \in ToSet(f)
                    <5>1. PICK i \in 1 .. n - 1 : x = s[i]
                        BY <1>5, <4>1
                    <5>2. i \in 1 .. Len(s) /\ i # n
                        BY <1>1
                    <5> QED BY <5>1, <5>2
                <4>2. CASE x \in ToSet(b)
                    <5>1. PICK i \in n + 1 .. Len(s) : x = s[i]
                        BY <1>5, <4>2
                    <5>2. i \in 1 .. Len(s) /\ i # n
                        BY <1>1
                    <5> QED BY <5>1, <5>2
                <4> QED BY <2>1, <4>1, <4>2
            <3> QED BY <1>1, <3>1 DEF ToSet, IsInjective
        <2>2. ASSUME NEW x \in ToSet(s), x # s[n] PROVE x \in ToSet(f) \cup ToSet(b)
            <3>1. PICK i \in 1 .. Len(s) : x = s[i]
                BY <1>1, <2>2 DEF ToSet
            <3>2. CASE i < n
                <4>1. i \in DOMAIN f /\ f[i] = x
                    BY <1>1, <1>2, <1>4, <3>1, <3>2
                <4> QED BY <4>1 DEF ToSet
            <3>3. CASE i > n
                <4>1. i - n \in 1 .. Len(s) - n /\ n + (i - n) = i
                    BY <1>1, <3>3
                <4>2. i - n \in DOMAIN b /\ b[i - n] = x
                    BY <1>3, <1>4, <3>1, <4>1
                <4> QED BY <4>2 DEF ToSet
            <3> QED BY <1>1, <2>2, <3>1, <3>2, <3>3
        <2> QED BY <2>1, <2>2
    <1>10. /\ f \o b \in Seq(S) /\ IsInjective(f \o b) /\ Len(f \o b) = Len(f) + Len(b)
           /\ ToSet(f \o b) = ToSet(f) \cup ToSet(b)
        <2>1. f \in Seq(S) /\ b \in Seq(S)
            BY <1>2, <1>3
        <2>2. /\ f \o b \in Seq(S) /\ Len(f \o b) = Len(f) + Len(b)
              /\ ToSet(f \o b) = ToSet(f) \cup ToSet(b)
              /\ IsInjective(f) /\ IsInjective(b) /\ ToSet(f) \cap ToSet(b) = {}
                    => IsInjective(f \o b)
            BY <2>1, ConcatSet
        <2> QED BY <1>6, <1>7, <1>8, <2>2
    <1>11. RemoveAt(s, n) = f \o b
        BY DEF RemoveAt, f, b
    <1>12. Len(f) + Len(b) = Len(s) - 1
        BY <1>1, <1>2, <1>3
    <1> QED BY <1>9, <1>10, <1>11, <1>12

LEMMA RemoveFirstSet ==
    ASSUME NEW S, NEW s \in Seq(S), IsInjective(s), NEW x \in ToSet(s)
    PROVE  /\ RemoveFirst(s, x) \in Seq(S) /\ IsInjective(RemoveFirst(s, x))
           /\ ToSet(RemoveFirst(s, x)) = ToSet(s) \ {x}
           /\ Len(RemoveFirst(s, x)) = Len(s) - 1
    <1>1. PICK n \in 1 .. Len(s) : s[n] = x
        BY InToSet
    <1>2. {i \in 1 .. Len(s) : s[i] = x} = {n}
        BY <1>1, LenProperties DEF IsInjective
    <1>3. Min({n}) = n
        BY DEF Min
    <1>4. RemoveFirst(s, x) = RemoveAt(s, n)
        BY <1>1, <1>2, <1>3 DEF RemoveFirst, SelectInSeq
    <1>5. /\ RemoveAt(s, n) \in Seq(S) /\ IsInjective(RemoveAt(s, n))
          /\ ToSet(RemoveAt(s, n)) = ToSet(s) \ {s[n]}
          /\ Len(RemoveAt(s, n)) = Len(s) - 1
        BY RemoveAtSet
    <1> QED BY <1>1, <1>4, <1>5

LEMMA RemoveFirstPlaces ==
    ASSUME NEW S, NEW s \in Seq(S), IsInjective(s), NEW n \in 1 .. Len(s)
    PROVE  \A i \in 1 .. Len(s) - 1 : RemoveFirst(s, s[n])[i] = IF i < n THEN s[i] ELSE s[i + 1]
    <1> DEFINE f == SubSeq(s, 1, n - 1)
               b == SubSeq(s, n + 1, Len(s))
    <1>1. Len(s) \in Nat /\ DOMAIN s = 1 .. Len(s) /\ \A i \in 1 .. Len(s) : s[i] \in S
        BY LenProperties, ElementOfSeq
    <1>2. RemoveFirst(s, s[n]) = f \o b
        <2>1. {i \in 1 .. Len(s) : s[i] = s[n]} = {n}
            BY <1>1 DEF IsInjective
        <2>2. Min({n}) = n
            BY DEF Min
        <2> QED BY <2>1, <2>2 DEF RemoveFirst, SelectInSeq, RemoveAt
    <1>3. /\ f \in Seq(S) /\ Len(f) = IF 1 <= n - 1 THEN (n - 1) - 1 + 1 ELSE 0
          /\ \A i \in 1 .. (n - 1) - 1 + 1 : f[i] = s[1 + i - 1]
        <2>1. 1 \in Int /\ n - 1 \in Int /\ \A i \in 1 .. n - 1 : s[i] \in S
            BY <1>1
        <2> QED BY <2>1, SubSeqProperties
    <1>4. /\ b \in Seq(S) /\ Len(b) = IF n + 1 <= Len(s) THEN Len(s) - (n + 1) + 1 ELSE 0
          /\ \A i \in 1 .. Len(s) - (n + 1) + 1 : b[i] = s[(n + 1) + i - 1]
        <2>1. n + 1 \in Int /\ Len(s) \in Int /\ \A i \in n + 1 .. Len(s) : s[i] \in S
            BY <1>1
        <2> QED BY <2>1, SubSeqProperties
    <1> HIDE DEF f, b
    <1>5. Len(f) = n - 1 /\ Len(b) = Len(s) - n
        <2>1. Len(f) = IF 1 <= n - 1 THEN (n - 1) - 1 + 1 ELSE 0
            BY <1>3
        <2>2. Len(b) = IF n + 1 <= Len(s) THEN Len(s) - (n + 1) + 1 ELSE 0
            BY <1>4
        <2>3. n \in 1 .. Len(s) /\ Len(s) \in Nat
            BY <1>1
        <2>4. Len(f) = n - 1
            BY <2>1, <2>3
        <2>5. Len(b) = Len(s) - n
            <3>1. CASE n + 1 <= Len(s)
                BY <2>2, <2>3, <3>1
            <3>2. CASE ~(n + 1 <= Len(s))
                <4>1. Len(s) = n
                    BY <2>3, <3>2
                <4>2. Len(b) = 0
                    BY <2>2, <3>2
                <4> QED BY <2>3, <4>1, <4>2
            <3> QED BY <3>1, <3>2
        <2> QED BY <2>4, <2>5
    <1>6. \A i \in 1 .. Len(f) + Len(b) : (f \o b)[i] = IF i <= Len(f) THEN f[i] ELSE b[i - Len(f)]
        BY <1>3, <1>4, ConcatProperties
    <1>7. ASSUME NEW i \in 1 .. Len(s) - 1
          PROVE  (f \o b)[i] = IF i < n THEN s[i] ELSE s[i + 1]
        <2>1. i \in 1 .. Len(f) + Len(b)
            BY <1>1, <1>5
        <2>2. CASE i < n
            <3>1. i <= Len(f) /\ i \in 1 .. (n - 1) - 1 + 1 /\ 1 + i - 1 = i
                BY <1>1, <1>5, <2>2
            <3> QED BY <1>3, <1>6, <2>1, <2>2, <3>1
        <2>3. CASE ~(i < n)
            <3>1. /\ ~(i <= Len(f)) /\ i - Len(f) \in 1 .. Len(s) - (n + 1) + 1
                  /\ (n + 1) + (i - Len(f)) - 1 = i + 1
                BY <1>1, <1>5, <2>3
            <3> QED BY <1>4, <1>6, <2>1, <2>3, <3>1
        <2> QED BY <2>2, <2>3
    <1> QED BY <1>2, <1>7

LEMMA FrontSet ==
    ASSUME NEW S, NEW s \in Seq(S), IsInjective(s), s # <<>>
    PROVE  /\ Front(s) \in Seq(S) /\ IsInjective(Front(s))
           /\ ToSet(Front(s)) = ToSet(s) \ {Last(s)}
           /\ Last(s) \in ToSet(s) /\ Last(s) \in S
           /\ Len(Front(s)) = Len(s) - 1
    <1>1. Len(s) \in Nat /\ Len(s) # 0 /\ DOMAIN s = 1 .. Len(s)
        BY LenProperties, EmptySeq
    <1>2. Len(s) \in 1 .. Len(s)
        BY <1>1
    <1>3. /\ RemoveAt(s, Len(s)) \in Seq(S) /\ IsInjective(RemoveAt(s, Len(s)))
          /\ ToSet(RemoveAt(s, Len(s))) = ToSet(s) \ {s[Len(s)]}
          /\ Len(RemoveAt(s, Len(s))) = Len(s) - 1
        BY <1>2, RemoveAtSet
    <1>4. RemoveAt(s, Len(s)) = Front(s)
        <2>1. SubSeq(s, Len(s) + 1, Len(s)) = <<>>
            <3>1. Len(s) + 1 \in Int /\ Len(s) \in Int /\ Len(s) < Len(s) + 1
                BY <1>1
            <3> QED BY <3>1, SubSeqEmpty
        <2>2. SubSeq(s, 1, Len(s) - 1) \in Seq(S)
            <3>1. 1 \in Int /\ Len(s) - 1 \in Int /\ \A i \in 1 .. Len(s) - 1 : s[i] \in S
                BY <1>1, ElementOfSeq
            <3> QED BY <3>1, SubSeqProperties
        <2>3. SubSeq(s, 1, Len(s) - 1) \o <<>> = SubSeq(s, 1, Len(s) - 1)
            BY <2>2, ConcatEmptySeq
        <2> QED BY <2>1, <2>3 DEF RemoveAt, Front
    <1>5. Last(s) = s[Len(s)] /\ Last(s) \in ToSet(s) /\ Last(s) \in S
        BY <1>1, <1>2, ElementOfSeq DEF Last, ToSet
    <1> QED BY <1>3, <1>4, <1>5

LEMMA InjectiveLen ==
    ASSUME NEW S, NEW s \in Seq(S), IsInjective(s)
    PROVE  IsFiniteSet(ToSet(s)) /\ Cardinality(ToSet(s)) = Len(s) /\ Len(s) \in Nat
    <1>1. DOMAIN s = 1 .. Len(s) /\ Len(s) \in Nat /\ s \in [1 .. Len(s) -> ToSet(s)]
        BY LenProperties DEF ToSet
    <1>2. s \in Bijection(1 .. Len(s), ToSet(s))
        <2>1. s \in Surjection(1 .. Len(s), ToSet(s))
            BY <1>1 DEF Surjection, ToSet
        <2>2. s \in Injection(1 .. Len(s), ToSet(s))
            BY <1>1 DEF Injection, IsInjective
        <2> QED BY <2>1, <2>2 DEF Bijection
    <1>3. IsFiniteSet(1 .. Len(s)) /\ Cardinality(1 .. Len(s)) = Len(s)
        <2>1. 1 \in Int /\ Len(s) \in Int
            BY <1>1
        <2>2. IsFiniteSet(1 .. Len(s))
              /\ Cardinality(1 .. Len(s)) = IF 1 > Len(s) THEN 0 ELSE Len(s) - 1 + 1
            BY <2>1, FS_Interval
        <2> QED BY <1>1, <2>2
    <1>4. ExistsBijection(1 .. Len(s), ToSet(s))
        BY <1>2 DEF ExistsBijection
    <1> QED BY <1>1, <1>3, <1>4, FS_Bijection

-----------------------------------------------------------------------------
(* Cardinalities. *)

LEMMA CardDisjoint ==
    ASSUME NEW A, NEW B, IsFiniteSet(A), IsFiniteSet(B), A \cap B = {}
    PROVE  /\ IsFiniteSet(A \cup B)
           /\ Cardinality(A \cup B) = Cardinality(A) + Cardinality(B)
           /\ Cardinality(A) \in Nat /\ Cardinality(B) \in Nat
    <1>1. Cardinality(A \cap B) = 0
        BY FS_EmptySet
    <1>2. Cardinality(A) \in Nat /\ Cardinality(B) \in Nat
        BY FS_CardinalityType
    <1>3. /\ IsFiniteSet(A \cup B)
          /\ Cardinality(A \cup B) = Cardinality(A) + Cardinality(B) - Cardinality(A \cap B)
        BY FS_Union
    <1> QED BY <1>1, <1>2, <1>3

(* FlattenSeq. *)

\* The sequences that are made of the first ones of s.
IsFlat(h, s, A) ==
    /\ h \in [0 .. Len(s) -> Seq(A)] /\ h[0] = <<>>
    /\ \A i \in 1 .. Len(s) : h[i] = h[i - 1] \o s[i]

LEMMA FlatExists ==
    ASSUME NEW A, NEW s \in Seq(Seq(A))
    PROVE  \E h : IsFlat(h, s, A)
    <1> DEFINE S == Seq(A)
               n == Len(s)
               F == [i \in 1 .. n |-> [x \in S |-> x \o s[i]]]
    <1>1. n \in Nat /\ \A i \in 1 .. n : s[i] \in S
        BY LenProperties, ElementOfSeq
    <1>2. \A i \in 1 .. n, x \in S : x \o s[i] \in S
        BY <1>1, ConcatProperties
    <1>3. <<>> \in S
        OBVIOUS
    <1> HIDE DEF S, n
    <1>4. F \in StepsOf(n, S) /\ \A i \in 1 .. n, x \in S : F[i][x] = x \o s[i]
        BY <1>2 DEF StepsOf
    <1> HIDE DEF F
    <1>5. PICK h : MadeBy(h, n, S, <<>>, F)
        BY <1>1, <1>3, <1>4, Recursion
    <1>6. h \in [0 .. n -> S] /\ h[0] = <<>> /\ \A i \in 1 .. n : h[i] = F[i][h[i - 1]]
        BY <1>5 DEF MadeBy
    <1>7. ASSUME NEW i \in 1 .. n PROVE h[i] = h[i - 1] \o s[i]
        <2>1. i - 1 \in 0 .. n
            BY <1>1
        <2> QED BY <1>4, <1>6, <2>1
    <1> QED BY <1>6, <1>7 DEF IsFlat, S, n

LEMMA FlattenIs ==
    ASSUME NEW A, NEW s \in Seq(Seq(A)), NEW h, IsFlat(h, s, A)
    PROVE  FlattenSeq(s) = h[Len(s)]
    <1> DEFINE n == Len(s)
               Is(g) == g = [i \in 1 .. n |-> IF i = 1 THEN s[i] ELSE g[i - 1] \o s[i]]
               flat == CHOOSE g : Is(g)
               g == [i \in 1 .. n |-> h[i]]
    <1>1. n \in Nat /\ \A i \in 1 .. n : s[i] \in Seq(A)
        BY LenProperties, ElementOfSeq
    <1>2. h \in [0 .. n -> Seq(A)] /\ h[0] = <<>> /\ \A i \in 1 .. n : h[i] = h[i - 1] \o s[i]
        BY DEF IsFlat
    <1>3. CASE n = 0
        <2>1. FlattenSeq(s) = s
            BY <1>3 DEF FlattenSeq
        <2>2. s = <<>>
            BY <1>3, EmptySeq
        <2> QED BY <1>2, <1>3, <2>1, <2>2
    <1>4. CASE n # 0
        <2>1. FlattenSeq(s) = flat[n]
            BY <1>4 DEF FlattenSeq
        <2>2. \A i \in 1 .. n : <<>> \o s[i] = s[i]
            BY <1>1, ConcatEmptySeq
        <2> HIDE DEF n
        <2>3. ASSUME NEW i \in 1 .. n
              PROVE  h[i] = IF i = 1 THEN s[i] ELSE h[i - 1] \o s[i]
            <3>1. CASE i = 1
                <4>1. i - 1 = 0
                    BY <3>1
                <4> QED BY <1>2, <2>2, <3>1, <4>1
            <3>2. CASE i # 1
                BY <1>2, <3>2
            <3> QED BY <3>1, <3>2
        <2>4. ASSUME NEW i \in 1 .. n
              PROVE  h[i] = IF i = 1 THEN s[i] ELSE g[i - 1] \o s[i]
            <3>1. CASE i = 1
                BY <2>3, <3>1
            <3>2. CASE i # 1
                <4>1. i - 1 \in 1 .. n
                    BY <1>1, <3>2
                <4> QED BY <2>3, <3>2, <4>1
            <3> QED BY <3>1, <3>2
        <2>5. Is(g)
            BY <2>4
        <2> HIDE DEF g
        <2>6. Is(flat)
            BY <2>5
        <2>7. \A i \in 1 .. n : flat[i] = IF i = 1 THEN s[i] ELSE flat[i - 1] \o s[i]
            BY <2>6
        <2> HIDE DEF flat
        <2> DEFINE T == {i \in 1 .. n : flat[i] # h[i]}
        <2>8. T = {}
            <3> SUFFICES ASSUME T # {} PROVE FALSE
                OBVIOUS
            <3>1. T \subseteq Nat
                OBVIOUS
            <3>2. PICK i \in T : \A y \in T : i <= y
                BY <3>1, LeastNatural
            <3>3. CASE i = 1
                BY <2>3, <2>7, <3>2, <3>3
            <3>4. CASE i # 1
                <4>1. i - 1 \in 1 .. n /\ ~(i <= i - 1) /\ i \in 1 .. n
                    BY <1>1, <3>2, <3>4
                <4>2. flat[i - 1] = h[i - 1]
                    BY <3>2, <4>1
                <4> QED BY <2>3, <2>7, <3>2, <3>4, <4>1, <4>2
            <3> QED BY <3>3, <3>4
        <2>9. n \in 1 .. n
            BY <1>1, <1>4
        <2>10. flat[n] = h[n]
            BY <2>8, <2>9
        <2> QED BY <2>1, <2>10 DEF n
    <1> QED BY <1>3, <1>4

LEMMA FlattenType ==
    ASSUME NEW A, NEW s \in Seq(Seq(A))
    PROVE  FlattenSeq(s) \in Seq(A)
    <1>1. PICK h : IsFlat(h, s, A)
        BY FlatExists
    <1>2. FlattenSeq(s) = h[Len(s)]
        BY <1>1, FlattenIs
    <1>3. Len(s) \in 0 .. Len(s)
        BY LenProperties
    <1> QED BY <1>1, <1>2, <1>3 DEF IsFlat

LEMMA FlattenEmpty == FlattenSeq(<<>>) = <<>>
    BY DEF FlattenSeq

LEMMA FlattenAppend ==
    ASSUME NEW A, NEW s \in Seq(Seq(A)), NEW x \in Seq(A)
    PROVE  FlattenSeq(Append(s, x)) = FlattenSeq(s) \o x
    <1> DEFINE n == Len(s)
               t == Append(s, x)
    <1>1. n \in Nat
        BY LenProperties
    <1>2. PICK h : IsFlat(h, s, A)
        BY FlatExists
    <1>3. FlattenSeq(s) = h[n]
        BY <1>2, FlattenIs
    <1>4. h \in [0 .. n -> Seq(A)] /\ h[0] = <<>> /\ \A i \in 1 .. n : h[i] = h[i - 1] \o s[i]
        BY <1>2 DEF IsFlat
    <1>5. /\ t \in Seq(Seq(A)) /\ Len(t) = n + 1
          /\ \A i \in 1 .. n : t[i] = s[i]
          /\ t[n + 1] = x
        BY AppendProperties
    <1>6. h[n] \in Seq(A) /\ h[n] \o x \in Seq(A)
        <2>1. n \in 0 .. n
            BY <1>1
        <2>2. h[n] \in Seq(A)
            BY <1>4, <2>1
        <2> QED BY <2>2, ConcatProperties
    <1> HIDE DEF n, t
    <1> DEFINE g == [i \in 0 .. n + 1 |-> IF i = n + 1 THEN h[n] \o x ELSE h[i]]
    <1>7. ASSUME NEW i \in 0 .. n + 1, i # n + 1 PROVE i \in 0 .. n /\ g[i] = h[i] /\ h[i] \in Seq(A)
        <2>1. i \in 0 .. n
            BY <1>1, <1>7
        <2> QED BY <1>4, <1>7, <2>1
    <1>8. g[n + 1] = h[n] \o x
        BY <1>1
    <1>9. g \in [0 .. n + 1 -> Seq(A)]
        BY <1>6, <1>7
    <1> HIDE DEF g
    <1>10. g[0] = <<>>
        <2>1. 0 \in 0 .. n + 1 /\ 0 # n + 1
            BY <1>1
        <2> QED BY <1>4, <1>7, <2>1
    <1>11. ASSUME NEW i \in 1 .. n + 1 PROVE g[i] = g[i - 1] \o t[i]
        <2>1. i - 1 \in 0 .. n + 1 /\ i - 1 # n + 1 /\ i \in 0 .. n + 1
            BY <1>1
        <2>2. g[i - 1] = h[i - 1]
            BY <1>7, <2>1
        <2>3. CASE i = n + 1
            <3>1. i - 1 = n
                BY <1>1, <2>3
            <3> QED BY <1>5, <1>8, <2>2, <2>3, <3>1
        <2>4. CASE i # n + 1
            <3>1. i \in 1 .. n
                BY <1>1, <2>4
            <3>2. g[i] = h[i]
                BY <1>7, <2>1, <2>4
            <3> QED BY <1>4, <1>5, <2>2, <3>1, <3>2
        <2> QED BY <2>3, <2>4
    <1>12. IsFlat(g, t, A)
        BY <1>5, <1>9, <1>10, <1>11 DEF IsFlat
    <1>13. FlattenSeq(t) = g[n + 1]
        BY <1>5, <1>12, FlattenIs
    <1> QED BY <1>3, <1>8, <1>13 DEF t

LEMMA FlattenConcat ==
    ASSUME NEW A, NEW s \in Seq(Seq(A)), NEW t \in Seq(Seq(A))
    PROVE  FlattenSeq(s \o t) = FlattenSeq(s) \o FlattenSeq(t)
    <1> DEFINE n == Len(t)
               f == FlattenSeq(s)
               P(k) == FlattenSeq(s \o SubSeq(t, 1, k)) = f \o FlattenSeq(SubSeq(t, 1, k))
               T == {k \in 0 .. n : ~P(k)}
    <1>1. n \in Nat /\ n \in 0 .. n
        BY LenProperties
    <1>2. f \in Seq(A)
        BY FlattenType
    <1>3. T = {}
        <2> SUFFICES ASSUME T # {} PROVE FALSE
            OBVIOUS
        <2>1. T \subseteq Nat
            OBVIOUS
        <2>2. PICK k \in T : \A y \in T : k <= y
            BY <2>1, LeastNatural
        <2>3. k \in 0 .. n /\ k \in Nat
            BY <2>2
        <2>4. CASE k = 0
            <3>1. SubSeq(t, 1, 0) = <<>>
                <4>1. SubSeq(t, 1, 0) \in Seq(Seq(A)) /\ Len(SubSeq(t, 1, 0)) = 0
                    BY <2>3, <2>4, SubSeqPlaces
                <4> QED BY <4>1, EmptySeq
            <3>2. s \o <<>> = s /\ f \o <<>> = f
                BY <1>2, ConcatEmptySeq
            <3>3. P(0)
                BY <3>1, <3>2, FlattenEmpty
            <3> QED BY <2>2, <2>4, <3>3
        <2>5. CASE k # 0
            <3> DEFINE j == k - 1
                       a == SubSeq(t, 1, j)
                       b == SubSeq(t, 1, k)
                       x == t[k]
            <3>1. j \in 0 .. n /\ ~(k <= j) /\ j + 1 = k /\ k \in 1 .. n /\ j \in Nat
                BY <1>1, <2>3, <2>5
            <3>2. P(j)
                BY <2>2, <3>1
            <3>3. a \in Seq(Seq(A)) /\ Len(a) = j /\ \A i \in 1 .. j : a[i] = t[i]
                BY <3>1, SubSeqPlaces, SMTT(30)
            <3>4. b \in Seq(Seq(A)) /\ Len(b) = k /\ \A i \in 1 .. k : b[i] = t[i]
                BY <2>3, SubSeqPlaces, SMTT(30)
            <3>5. x \in Seq(A)
                BY <3>1, ElementOfSeq
            <3> HIDE DEF a, b, x, j
            <3>6. b = Append(a, x)
                <4> DEFINE c == Append(a, x)
                <4>1. /\ c \in Seq(Seq(A)) /\ Len(c) = j + 1
                      /\ \A i \in 1 .. j : c[i] = a[i]
                      /\ c[j + 1] = x
                    BY <3>3, <3>5, AppendProperties, SMTT(30)
                <4> HIDE DEF c
                <4>2. ASSUME NEW i \in 1 .. k PROVE b[i] = c[i]
                    <5>1. CASE i = k
                        BY <3>1, <3>4, <4>1, <5>1 DEF x
                    <5>2. CASE i # k
                        <6>1. i \in 1 .. j
                            BY <3>1, <5>2
                        <6> QED BY <3>3, <3>4, <4>1, <6>1
                    <5> QED BY <5>1, <5>2
                <4>3. b = c
                    BY <3>1, <3>4, <4>1, <4>2, SeqEqual
                <4> QED BY <4>3 DEF c
            <3>7. s \o b = Append(s \o a, x)
                <4> DEFINE S == Seq(A)
                           one == <<x>>
                <4>0. one \in Seq(S) /\ a \in Seq(S) /\ s \in Seq(S) /\ x \in S
                    BY <3>3, <3>5
                <4>1. s \o a \in Seq(S)
                    BY <4>0, ConcatProperties
                <4>2. Append(a, x) = a \o one /\ Append(s \o a, x) = (s \o a) \o one
                    BY <4>0, <4>1, AppendIsConcat
                <4> HIDE DEF S, one, P, T
                <4>3. (s \o a) \o one = s \o (a \o one)
                    BY <4>0, ConcatAssociative, SMTT(30)
                <4> QED BY <3>6, <4>2, <4>3
            <3>8. s \o a \in Seq(Seq(A)) /\ FlattenSeq(a) \in Seq(A)
                BY <3>3, ConcatProperties, FlattenType
            <3>9. FlattenSeq(s \o b) = FlattenSeq(s \o a) \o x
                BY <3>5, <3>7, <3>8, FlattenAppend
            <3>10. FlattenSeq(b) = FlattenSeq(a) \o x
                BY <3>3, <3>5, <3>6, FlattenAppend
            <3>11. (f \o FlattenSeq(a)) \o x = f \o (FlattenSeq(a) \o x)
                <4> DEFINE u == FlattenSeq(a)
                <4>1. f \in Seq(A) /\ u \in Seq(A) /\ x \in Seq(A)
                    BY <1>2, <3>5, <3>8
                <4> HIDE DEF f, u, P, T
                <4>2. (f \o u) \o x = f \o (u \o x)
                    BY <4>1, ConcatAssociative, SMTT(30)
                <4> QED BY <4>2 DEF u
            <3>12. FlattenSeq(s \o a) = f \o FlattenSeq(a)
                BY <3>2 DEF a
            <3>13. P(k)
                BY <3>9, <3>10, <3>11, <3>12 DEF b
            <3> QED BY <2>2, <3>13
        <2> QED BY <2>4, <2>5
    <1>4. P(n)
        BY <1>1, <1>3
    <1>5. SubSeq(t, 1, n) = t
        BY SubSeqFull
    <1> QED BY <1>4, <1>5

LEMMA FlattenOne ==
    ASSUME NEW A, NEW x \in Seq(A)
    PROVE  FlattenSeq(<<x>>) = x
    <1>1. <<>> \in Seq(Seq(A)) /\ Append(<<>>, x) = <<x>>
        OBVIOUS
    <1>2. FlattenSeq(Append(<<>>, x)) = FlattenSeq(<<>>) \o x
        BY <1>1, FlattenAppend
    <1>3. <<>> \o x = x
        BY ConcatEmptySeq
    <1> QED BY <1>1, <1>2, <1>3, FlattenEmpty

===============================================================================
