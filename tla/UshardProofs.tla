----------------------------- MODULE UshardProofs -----------------------------
(***************************************************************************)
(* Proofs about Ushard for every number of writers, readers and merge      *)
(* threads, every tier width and every slice limit: slices are unlinked    *)
(* and freed when they may be, no overfull tier is forgotten (SliceInv);   *)
(* and, on top of that, no committed entry is lost and no stale one        *)
(* shows, so that a ushard implements Store (EntryInv).  At the end, about *)
(* MergeIterator: what a ushard_iterator yields (MergeInv).                *)
(***************************************************************************)
EXTENDS UshardInv, MergeIterator, ListTheorems

(* Newest entries. *)

\* Whatever entry a set holds for a key, its newest one for that key is at
\* least as new.
LEMMA NewestDominates ==
    ASSUME NEW S, S \subseteq Entry,
           NEW n \in Nat, \A e \in S : e.idx <= n,
           NEW f \in S
    PROVE  \E g \in Newest(S) : g.key = f.key /\ f.idx <= g.idx
    <1> DEFINE Same == {e \in S : e.key = f.key}
               Ages == {n - e.idx : e \in Same}
    <1>1. Ages \subseteq Nat
        BY DEF Entry
    <1>2. Ages # {}
        OBVIOUS
    <1>3. PICK a \in Ages : \A b \in Ages : a <= b
        BY <1>1, <1>2, LeastNatural
    <1>4. PICK g \in Same : a = n - g.idx
        BY <1>3
    <1>5. \A e \in Same : e.idx <= g.idx
        <2> SUFFICES ASSUME NEW e \in Same PROVE e.idx <= g.idx
            OBVIOUS
        <2>1. n - g.idx <= n - e.idx
            BY <1>3, <1>4
        <2>2. e.idx \in Nat /\ g.idx \in Nat
            BY DEF Entry
        <2> QED BY <2>1, <2>2
    <1>6. g \in Newest(S)
        BY <1>5 DEF Newest
    <1> QED BY <1>5, <1>6

-----------------------------------------------------------------------------
(* Tier maps. *)

\* A slice is in a tier map if it is somewhere in a tier.
LEMMA SlicesOfMember ==
    ASSUME NEW D, NEW tm \in [Tiers -> Seq(D)], NEW s
    PROVE  s \in SlicesOf(tm) <=> \E t \in Tiers : \E i \in 1 .. Len(tm[t]) : tm[t][i] = s
    BY LenProperties DEF SlicesOf

LEMMA TakenMember ==
    ASSUME NEW tm, NEW counts, NEW s
    PROVE  s \in Taken(tm, counts) <=>
               \E t \in Tiers : \E i \in 1 .. counts[t] : tm[t][i] = s
    BY DEF Taken

LEMMA TakenSame ==
    ASSUME NEW tm, NEW new, NEW counts,
           \A t \in Tiers : \A i \in 1 .. counts[t] : new[t][i] = tm[t][i]
    PROVE  Taken(new, counts) = Taken(tm, counts)
    <1>1. ASSUME NEW s \in Taken(new, counts) PROVE s \in Taken(tm, counts)
        BY <1>1 DEF Taken
    <1>2. ASSUME NEW s \in Taken(tm, counts) PROVE s \in Taken(new, counts)
        BY <1>2 DEF Taken
    <1> QED BY <1>1, <1>2

\* Adding a slice appends it to its tier.
LEMMA AddedShape ==
    ASSUME NEW D, NEW tm \in [Tiers -> Seq(D)], NEW t \in Tiers, NEW s \in D
    PROVE  LET new == Added(tm, t, s)
           IN  /\ new \in [Tiers -> Seq(D)]
               /\ \A u \in Tiers \ {t} : new[u] = tm[u]
               /\ Len(new[t]) = Len(tm[t]) + 1
               /\ \A i \in 1 .. Len(tm[t]) : new[t][i] = tm[t][i]
               /\ new[t][Len(tm[t]) + 1] = s
    BY AppendProperties DEF Added

\* Removing cuts the front off every tier.
LEMMA RemovedShape ==
    ASSUME NEW D, NEW tm \in [Tiers -> Seq(D)], NEW counts \in [Tiers -> Nat],
           Within(tm, counts)
    PROVE  /\ Removed(tm, counts) \in [Tiers -> Seq(D)]
           /\ \A t \in Tiers :
                 /\ Len(Removed(tm, counts)[t]) = Len(tm[t]) - counts[t]
                 /\ \A i \in 1 .. Len(Removed(tm, counts)[t]) :
                       Removed(tm, counts)[t][i] = tm[t][i + counts[t]]
    <1> SUFFICES ASSUME NEW t \in Tiers
                 PROVE  LET q == SubSeq(tm[t], counts[t] + 1, Len(tm[t]))
                        IN  /\ q \in Seq(D)
                            /\ Len(q) = Len(tm[t]) - counts[t]
                            /\ \A i \in 1 .. Len(q) : q[i] = tm[t][i + counts[t]]
        BY DEF Removed
    <1>1. /\ tm[t] \in Seq(D) /\ Len(tm[t]) \in Nat /\ counts[t] \in Nat
          /\ counts[t] <= Len(tm[t])
        BY LenProperties DEF Within
    <1>2. \A i \in counts[t] + 1 .. Len(tm[t]) : tm[t][i] \in D
        BY <1>1, ElementOfSeq
    <1>3. LET q == SubSeq(tm[t], counts[t] + 1, Len(tm[t]))
          IN  /\ q \in Seq(D)
              /\ Len(q) = IF counts[t] + 1 <= Len(tm[t])
                          THEN Len(tm[t]) - (counts[t] + 1) + 1 ELSE 0
              /\ \A i \in 1 .. Len(tm[t]) - (counts[t] + 1) + 1 :
                    q[i] = tm[t][counts[t] + 1 + i - 1]
        <2>1. counts[t] + 1 \in Int /\ Len(tm[t]) \in Int
            BY <1>1
        <2> QED BY <1>2, <2>1, SubSeqProperties
    <1> QED BY <1>1, <1>3

\* The slices after an add.
LEMMA AddedSlices ==
    ASSUME NEW D, NEW tm \in [Tiers -> Seq(D)], NEW t \in Tiers, NEW s \in D
    PROVE  /\ SlicesOf(Added(tm, t, s)) = SlicesOf(tm) \cup {s}
           /\ Distinct(tm) /\ s \notin SlicesOf(tm) => Distinct(Added(tm, t, s))
           /\ \A counts \in [Tiers -> Nat] :
                 Within(tm, counts) =>
                     /\ Taken(Added(tm, t, s), counts) = Taken(tm, counts)
                     /\ Within(Added(tm, t, s), counts)
    <1> DEFINE new == Added(tm, t, s)
    <1>1. /\ new \in [Tiers -> Seq(D)]
          /\ \A u \in Tiers \ {t} : new[u] = tm[u]
          /\ Len(new[t]) = Len(tm[t]) + 1
          /\ \A i \in 1 .. Len(tm[t]) : new[t][i] = tm[t][i]
          /\ new[t][Len(tm[t]) + 1] = s
        BY AddedShape
    <1>2. \A u \in Tiers : /\ Len(tm[u]) \in Nat /\ DOMAIN tm[u] = 1 .. Len(tm[u])
                           /\ Len(new[u]) \in Nat /\ DOMAIN new[u] = 1 .. Len(new[u])
        BY <1>1, LenProperties
    <1> HIDE DEF new
    <1>3. SlicesOf(new) = SlicesOf(tm) \cup {s}
        <2>1. ASSUME NEW x \in SlicesOf(new) PROVE x \in SlicesOf(tm) \cup {s}
            <3>0. PICK u \in Tiers : \E i \in 1 .. Len(new[u]) : new[u][i] = x
                BY <1>1, <2>1, SlicesOfMember
            <3>1. PICK i \in 1 .. Len(new[u]) : new[u][i] = x
                BY <3>0
            <3>2. CASE u # t
                BY <1>1, <3>1, <3>2, SlicesOfMember
            <3>3. CASE u = t /\ i = Len(tm[t]) + 1
                BY <1>1, <3>1, <3>3
            <3>4. CASE u = t /\ i <= Len(tm[t])
                <4>1. i \in 1 .. Len(tm[t]) /\ tm[t][i] = x
                    BY <1>1, <1>2, <3>1, <3>4
                <4> QED BY <4>1, SlicesOfMember
            <3> QED BY <1>1, <1>2, <3>1, <3>2, <3>3, <3>4
        <2>2. ASSUME NEW x \in SlicesOf(tm) PROVE x \in SlicesOf(new)
            <3>0. PICK u \in Tiers : \E i \in 1 .. Len(tm[u]) : tm[u][i] = x
                BY <2>2, SlicesOfMember
            <3>1. PICK i \in 1 .. Len(tm[u]) : tm[u][i] = x
                BY <3>0
            <3>2. i \in 1 .. Len(new[u]) /\ new[u][i] = x
                BY <1>1, <1>2, <3>1
            <3> QED BY <1>1, <3>2, SlicesOfMember
        <2>3. s \in SlicesOf(new)
            <3>1. Len(tm[t]) + 1 \in 1 .. Len(new[t])
                BY <1>1, <1>2
            <3> QED BY <1>1, <3>1, SlicesOfMember
        <2> QED BY <2>1, <2>2, <2>3
    <1>4. ASSUME Distinct(tm), s \notin SlicesOf(tm)
          PROVE  Distinct(new)
        <2>1. \A u \in Tiers : \A i \in 1 .. Len(tm[u]) : tm[u][i] # s
            BY <1>4, SlicesOfMember
        <2> SUFFICES ASSUME NEW u \in Tiers, NEW v \in Tiers,
                            NEW i \in DOMAIN new[u], NEW j \in DOMAIN new[v],
                            new[u][i] = new[v][j]
                     PROVE  u = v /\ i = j
            BY DEF Distinct
        <2>2. \A w \in Tiers : \A k \in 1 .. Len(new[w]) :
                 \/ k \in 1 .. Len(tm[w]) /\ new[w][k] = tm[w][k]
                 \/ w = t /\ k = Len(tm[t]) + 1 /\ new[w][k] = s
            <3> SUFFICES ASSUME NEW w \in Tiers, NEW k \in 1 .. Len(new[w])
                         PROVE  \/ k \in 1 .. Len(tm[w]) /\ new[w][k] = tm[w][k]
                                \/ w = t /\ k = Len(tm[t]) + 1 /\ new[w][k] = s
                OBVIOUS
            <3>1. CASE w # t
                BY <1>1, <3>1
            <3>2. CASE w = t
                <4>1. k \in 1 .. Len(tm[t]) \/ k = Len(tm[t]) + 1
                    BY <1>1, <1>2, <3>2
                <4> QED BY <1>1, <3>2, <4>1
            <3> QED BY <3>1, <3>2
        <2>3. CASE i \in 1 .. Len(tm[u]) /\ j \in 1 .. Len(tm[v])
            <3>1. tm[u][i] = tm[v][j]
                BY <1>1, <2>3
            <3> QED BY <1>2, <1>4, <2>3, <3>1 DEF Distinct
        <2>4. i \in 1 .. Len(new[u]) /\ j \in 1 .. Len(new[v])
            BY <1>2
        <2>5. CASE u = t /\ i = Len(tm[t]) + 1 /\ new[u][i] = s
            BY <2>1, <2>2, <2>4, <2>5
        <2>6. CASE v = t /\ j = Len(tm[t]) + 1 /\ new[v][j] = s
            BY <2>1, <2>2, <2>4, <2>6
        <2> QED BY <2>2, <2>3, <2>4, <2>5, <2>6
    <1>5. ASSUME NEW counts \in [Tiers -> Nat], Within(tm, counts)
          PROVE  Taken(new, counts) = Taken(tm, counts) /\ Within(new, counts)
        <2>1. \A u \in Tiers : \A i \in 1 .. counts[u] : new[u][i] = tm[u][i]
            <3> SUFFICES ASSUME NEW u \in Tiers, NEW i \in 1 .. counts[u]
                         PROVE  new[u][i] = tm[u][i]
                OBVIOUS
            <3>1. i \in 1 .. Len(tm[u])
                BY <1>2, <1>5 DEF Within
            <3> QED BY <1>1, <3>1
        <2>2. ASSUME NEW u \in Tiers PROVE counts[u] <= Len(new[u])
            <3>1. /\ counts[u] <= Len(tm[u])
                  /\ counts[u] \in Nat /\ Len(tm[u]) \in Nat
                BY <1>2, <1>5 DEF Within
            <3>2. Len(new[u]) = Len(tm[u]) \/ Len(new[u]) = Len(tm[u]) + 1
                BY <1>1
            <3> QED BY <3>1, <3>2
        <2> QED BY <2>1, <2>2, TakenSame DEF Within
    <1> QED BY <1>3, <1>4, <1>5 DEF new

\* The slices after a removal, and what it means for a job that captured slices
\* of other tiers.
LEMMA RemovedSlices ==
    ASSUME NEW D, NEW tm \in [Tiers -> Seq(D)], NEW counts \in [Tiers -> Nat],
           Within(tm, counts), Distinct(tm)
    PROVE  LET new == Removed(tm, counts)
           IN  /\ SlicesOf(new) = SlicesOf(tm) \ Taken(tm, counts)
               /\ Distinct(new)
               /\ \A other \in [Tiers -> Nat] :
                     /\ Within(tm, other)
                     /\ \A t \in Tiers : other[t] = 0 \/ counts[t] = 0
                     =>  /\ Within(new, other)
                         /\ Taken(new, other) = Taken(tm, other)
    <1> DEFINE new == Removed(tm, counts)
    <1>1. /\ new \in [Tiers -> Seq(D)]
          /\ \A t \in Tiers :
                /\ Len(new[t]) = Len(tm[t]) - counts[t]
                /\ \A i \in 1 .. Len(new[t]) : new[t][i] = tm[t][i + counts[t]]
        BY RemovedShape
    <1>0. new \in [Tiers -> Seq(D)]
        BY <1>1
    <1>2. \A u \in Tiers : /\ Len(tm[u]) \in Nat /\ DOMAIN tm[u] = 1 .. Len(tm[u])
                           /\ Len(new[u]) \in Nat /\ DOMAIN new[u] = 1 .. Len(new[u])
                           /\ counts[u] \in Nat /\ counts[u] <= Len(tm[u])
        BY <1>1, LenProperties DEF Within
    <1> HIDE DEF new
    <1>3. \A t, u \in Tiers : \A i \in 1 .. Len(tm[t]), j \in 1 .. Len(tm[u]) :
             tm[t][i] = tm[u][j] => t = u /\ i = j
        BY <1>2 DEF Distinct
    <1>4. SlicesOf(new) = SlicesOf(tm) \ Taken(tm, counts)
        <2>1. ASSUME NEW x \in SlicesOf(new)
              PROVE  x \in SlicesOf(tm) \ Taken(tm, counts)
            <3>1. PICK t \in Tiers : \E i \in 1 .. Len(new[t]) : new[t][i] = x
                BY <1>0, <2>1, SlicesOfMember
            <3>2. PICK i \in 1 .. Len(new[t]) : new[t][i] = x
                BY <3>1
            <3>3. i + counts[t] \in 1 .. Len(tm[t]) /\ tm[t][i + counts[t]] = x
                BY <1>1, <1>2, <3>2
            <3>4. x \in SlicesOf(tm)
                BY <3>3, SlicesOfMember
            <3>5. ASSUME x \in Taken(tm, counts) PROVE FALSE
                <4>1. PICK u \in Tiers : \E j \in 1 .. counts[u] : tm[u][j] = x
                    BY <3>5, TakenMember
                <4>2. PICK j \in 1 .. counts[u] : tm[u][j] = x
                    BY <4>1
                <4>3. j \in 1 .. Len(tm[u])
                    BY <1>2
                <4>4. u = t /\ j = i + counts[t]
                    BY <1>3, <3>3, <4>2, <4>3
                <4> QED BY <1>2, <4>4
            <3> QED BY <3>4, <3>5
        <2>2. ASSUME NEW x \in SlicesOf(tm), x \notin Taken(tm, counts)
              PROVE  x \in SlicesOf(new)
            <3>1. PICK t \in Tiers : \E i \in 1 .. Len(tm[t]) : tm[t][i] = x
                BY <2>2, SlicesOfMember
            <3>2. PICK i \in 1 .. Len(tm[t]) : tm[t][i] = x
                BY <3>1
            <3>3. i \notin 1 .. counts[t]
                BY <2>2, <3>2, TakenMember
            <3>4. /\ i - counts[t] \in 1 .. Len(new[t])
                  /\ (i - counts[t]) + counts[t] = i
                BY <1>1, <1>2, <3>3
            <3>5. new[t][i - counts[t]] = x
                BY <1>1, <3>2, <3>4
            <3> QED BY <1>0, <3>4, <3>5, SlicesOfMember
        <2> QED BY <2>1, <2>2
    <1>5. Distinct(new)
        <2> SUFFICES ASSUME NEW t \in Tiers, NEW u \in Tiers,
                            NEW i \in DOMAIN new[t], NEW j \in DOMAIN new[u],
                            new[t][i] = new[u][j]
                     PROVE  t = u /\ i = j
            BY DEF Distinct
        <2>1. /\ i \in 1 .. Len(new[t]) /\ j \in 1 .. Len(new[u])
              /\ i + counts[t] \in 1 .. Len(tm[t]) /\ j + counts[u] \in 1 .. Len(tm[u])
            BY <1>1, <1>2, SMTT(30)
        <2>2. tm[t][i + counts[t]] = tm[u][j + counts[u]]
            BY <1>1, <2>1
        <2>3. t = u /\ i + counts[t] = j + counts[u]
            BY <1>3, <2>1, <2>2
        <2> QED BY <1>2, <2>1, <2>3
    <1>6. ASSUME NEW other \in [Tiers -> Nat],
                 Within(tm, other),
                 \A t \in Tiers : other[t] = 0 \/ counts[t] = 0
          PROVE  /\ Within(new, other)
                 /\ Taken(new, other) = Taken(tm, other)
        <2>1. \A t \in Tiers : other[t] <= Len(new[t])
            <3> SUFFICES ASSUME NEW t \in Tiers PROVE other[t] <= Len(new[t])
                OBVIOUS
            <3>1. /\ Len(new[t]) = Len(tm[t]) - counts[t]
                  /\ Len(tm[t]) \in Nat /\ counts[t] \in Nat /\ other[t] \in Nat
                  /\ other[t] <= Len(tm[t]) /\ (other[t] = 0 \/ counts[t] = 0)
                  /\ counts[t] <= Len(tm[t])
                BY <1>1, <1>2, <1>6 DEF Within
            <3> QED BY <3>1
        <2>2. ASSUME NEW t \in Tiers, NEW i \in 1 .. other[t]
              PROVE  new[t][i] = tm[t][i]
            <3>1. counts[t] = 0 /\ i \in 1 .. Len(new[t]) /\ i + counts[t] = i
                BY <1>2, <1>6, <2>1
            <3> QED BY <1>1, <3>1
        <2> QED BY <2>1, <2>2, TakenSame DEF Within
    <1> QED BY <1>4, <1>5, <1>6 DEF new

\* Every slice has a tier of the tier map.
LEMMA TierOfTiers == \A S : tier_of(S) \subseteq Tiers
    <1> SUFFICES ASSUME NEW S PROVE tier_of(S) \subseteq Tiers
        OBVIOUS
    <1> DEFINE n == Cardinality(S)
               Bits == {b \in 0 .. (WordBits - 1) : 2^b <= n}
    <1>1. IsFiniteSet(0 .. (WordBits - 1)) /\ Cardinality(0 .. (WordBits - 1)) = WordBits
        BY FS_Interval, WordBitsAssumption
    <1>2. Bits \in SUBSET (0 .. (WordBits - 1))
        OBVIOUS
    <1>3. Cardinality(Bits) \in 0 .. WordBits
        <2> HIDE DEF Bits
        <2>1. IsFiniteSet(Bits) /\ Cardinality(Bits) <= WordBits
            BY <1>1, <1>2, FS_Subset
        <2> QED BY <2>1, FS_CardinalityType, WordBitsAssumption
    <1>4. BitLength(n) \in 0 .. WordBits
        BY <1>3 DEF BitLength
    <1> QED BY <1>4 DEF tier_of, Tiers

-----------------------------------------------------------------------------
(* Pieces of actions. *)

\* ~slice leaves what somebody holds alone.
LEMMA ReapShape ==
    ASSUME NEW held, NEW marked, NEW stored \in Seq(SUBSET Entry),
           Reap(held, marked, stored)
    PROVE  /\ freed' = marked \ held
           /\ contents' \in Seq(SUBSET Entry)
           /\ DOMAIN contents' = DOMAIN stored
           /\ \A s \in DOMAIN stored : s \in held => contents'[s] = stored[s]
           /\ \A s \in DOMAIN stored : contents'[s] \subseteq stored[s]
    <1>1. /\ DOMAIN stored = 1 .. Len(stored) /\ Len(stored) \in Nat
          /\ \A s \in DOMAIN stored : stored[s] \in SUBSET Entry
        BY LenProperties, ElementOfSeq
    <1>2. contents' \in [1 .. Len(stored) -> SUBSET Entry]
        BY <1>1 DEF Reap
    <1>3. contents' \in Seq(SUBSET Entry)
        BY <1>1, <1>2, IsASeq
    <1> QED BY <1>1, <1>3 DEF Reap

\* cb->merge changes the state of waiting threads only.
LEMMA RequestShape ==
    ASSUME merge_cond \in Seq(MergeThreads), merge_requests \in Seq(Tiers),
           \A i, j \in DOMAIN merge_cond : merge_cond[i] = merge_cond[j] => i = j,
           NEW reqs \in Seq(Tiers), NEW jb, Request(reqs, jb)
    PROVE  /\ merge_requests' \in Seq(Tiers)
           /\ merge_cond' \in Seq(MergeThreads)
           /\ DOMAIN jobs' = MergeThreads /\ jobs' = [m \in MergeThreads |-> jobs'[m]]
           /\ \A m \in MergeThreads :
                 \/ jobs'[m] = jb[m]
                 \/ jobs'[m] = Looking /\ \E i \in DOMAIN merge_cond : merge_cond[i] = m
           /\ \A i \in DOMAIN merge_cond' :
                 /\ \E j \in DOMAIN merge_cond : merge_cond'[i] = merge_cond[j]
                 /\ jobs'[merge_cond'[i]] = jb[merge_cond'[i]]
           /\ \A i, j \in DOMAIN merge_cond' : merge_cond'[i] = merge_cond'[j] => i = j
    <1> DEFINE n == IF Len(reqs) < Len(merge_cond) THEN Len(reqs) ELSE Len(merge_cond)
               woken == {merge_cond[i] : i \in 1 .. n}
               rest == SubSeq(merge_cond, n + 1, Len(merge_cond))
    <1>1. /\ merge_requests' = merge_requests \o reqs
          /\ merge_cond' = rest
          /\ jobs' = [m \in MergeThreads |-> IF m \in woken THEN Looking ELSE jb[m]]
        BY DEF Request
    <1>2. /\ Len(merge_cond) \in Nat /\ DOMAIN merge_cond = 1 .. Len(merge_cond)
          /\ Len(reqs) \in Nat
          /\ \A i \in 1 .. Len(merge_cond) : merge_cond[i] \in MergeThreads
        BY LenProperties, ElementOfSeq
    <1>3. n \in 0 .. Len(merge_cond)
        BY <1>2
    <1> HIDE DEF n
    <1>4. /\ rest \in Seq(MergeThreads)
          /\ Len(rest) = IF n + 1 <= Len(merge_cond) THEN Len(merge_cond) - (n + 1) + 1 ELSE 0
          /\ \A i \in 1 .. Len(merge_cond) - (n + 1) + 1 : rest[i] = merge_cond[n + 1 + i - 1]
        <2>1. n + 1 \in Int /\ Len(merge_cond) \in Int
            BY <1>2, <1>3
        <2>2. \A i \in n + 1 .. Len(merge_cond) : merge_cond[i] \in MergeThreads
            BY <1>2, <1>3
        <2> QED BY <2>1, <2>2, SubSeqProperties
    <1> HIDE DEF rest
    <1>5. /\ DOMAIN rest = 1 .. (Len(merge_cond) - n)
          /\ \A i \in DOMAIN rest : i + n \in 1 .. Len(merge_cond) /\ rest[i] = merge_cond[i + n]
        <2>1. DOMAIN rest = 1 .. Len(rest)
            BY <1>4, LenProperties
        <2>0. n \in Nat /\ Len(merge_cond) \in Nat /\ n <= Len(merge_cond)
            BY <1>2, <1>3
        <2>2. Len(rest) = Len(merge_cond) - n
            <3>1. CASE n + 1 <= Len(merge_cond)
                BY <1>4, <2>0, <3>1
            <3>2. CASE n = Len(merge_cond)
                BY <1>4, <2>0, <3>2
            <3> QED BY <2>0, <3>1, <3>2
        <2>3. ASSUME NEW i \in 1 .. (Len(merge_cond) - n)
              PROVE  i + n \in 1 .. Len(merge_cond) /\ rest[i] = merge_cond[i + n]
            <3>1. i \in 1 .. Len(merge_cond) - (n + 1) + 1 /\ n + 1 + i - 1 = i + n
                BY <1>2, <1>3
            <3>2. i + n \in 1 .. Len(merge_cond)
                BY <1>2, <1>3
            <3> QED BY <1>4, <3>1, <3>2
        <2> QED BY <2>1, <2>2, <2>3
    <1>6. \A i \in DOMAIN rest : rest[i] \notin woken /\ rest[i] \in MergeThreads
        <2> SUFFICES ASSUME NEW i \in DOMAIN rest
                     PROVE  rest[i] \notin woken /\ rest[i] \in MergeThreads
            OBVIOUS
        <2>1. ASSUME NEW k \in 1 .. n, rest[i] = merge_cond[k] PROVE FALSE
            <3>1. /\ k \in DOMAIN merge_cond /\ i + n \in DOMAIN merge_cond
                  /\ merge_cond[i + n] = merge_cond[k]
                BY <1>2, <1>3, <1>5, <2>1
            <3>2. i + n = k
                BY <3>1
            <3>3. i \in Nat \ {0} /\ n \in Nat
                BY <1>2, <1>3, <1>5
            <3> QED BY <3>2, <3>3
        <2> QED BY <1>2, <1>5, <2>1
    <1>7. \A i, j \in DOMAIN rest : rest[i] = rest[j] => i = j
        <2> SUFFICES ASSUME NEW i \in DOMAIN rest, NEW j \in DOMAIN rest, rest[i] = rest[j]
                     PROVE  i = j
            OBVIOUS
        <2>1. i + n = j + n
            BY <1>2, <1>5
        <2> QED BY <1>2, <1>3, <1>5, <2>1
    <1>8. \A m \in woken : \E i \in DOMAIN merge_cond : merge_cond[i] = m
        BY <1>2, <1>3
    <1>9. merge_requests' \in Seq(Tiers)
        BY <1>1, ConcatProperties
    <1>10. \A i \in DOMAIN rest : \E j \in DOMAIN merge_cond : rest[i] = merge_cond[j]
        BY <1>2, <1>5
    <1> HIDE DEF woken
    <1> QED BY <1>1, <1>4, <1>6, <1>7, <1>8, <1>9, <1>10

\* The jobs after requests were made by threads that do not wait, given what
\* they were before, jb.
LEMMA RequestJobs ==
    ASSUME TypeOK, CondQueue,
           NEW reqs \in Seq(Tiers), NEW jb \in [MergeThreads -> JobType],
           \A i \in DOMAIN merge_cond : jb[merge_cond[i]].at = "wait",
           Request(reqs, jb)
    PROVE  /\ merge_requests' \in Seq(Tiers)
           /\ merge_cond' \in Seq(MergeThreads)
           /\ CondQueue'
           /\ jobs' \in [MergeThreads -> JobType]
           /\ \A m \in MergeThreads :
                 jobs'[m] = jb[m] \/ (jobs'[m] = Looking /\ jb[m].at = "wait")
    <1>0. Looking \in JobType
        BY DEF Looking, JobType, NoCounts
    <1>1. /\ merge_cond \in Seq(MergeThreads) /\ merge_requests \in Seq(Tiers)
          /\ \A i, j \in DOMAIN merge_cond : merge_cond[i] = merge_cond[j] => i = j
        BY DEF TypeOK, CondQueue
    <1>2. /\ merge_requests' \in Seq(Tiers)
          /\ merge_cond' \in Seq(MergeThreads)
          /\ DOMAIN jobs' = MergeThreads /\ jobs' = [m \in MergeThreads |-> jobs'[m]]
          /\ \A m \in MergeThreads :
                \/ jobs'[m] = jb[m]
                \/ jobs'[m] = Looking /\ \E i \in DOMAIN merge_cond : merge_cond[i] = m
          /\ \A i \in DOMAIN merge_cond' :
                /\ \E j \in DOMAIN merge_cond : merge_cond'[i] = merge_cond[j]
                /\ jobs'[merge_cond'[i]] = jb[merge_cond'[i]]
          /\ \A i, j \in DOMAIN merge_cond' : merge_cond'[i] = merge_cond'[j] => i = j
        BY <1>1, RequestShape
    <1>3. \A m \in MergeThreads :
             jobs'[m] = jb[m] \/ (jobs'[m] = Looking /\ jb[m].at = "wait")
        BY <1>2
    <1>4. jobs' \in [MergeThreads -> JobType]
        BY <1>0, <1>2, <1>3
    <1>5. \A i \in DOMAIN merge_cond' : jobs'[merge_cond'[i]].at = "wait"
        BY <1>2
    <1> QED BY <1>2, <1>3, <1>4, <1>5 DEF CondQueue

-----------------------------------------------------------------------------
(* What two jobs may do to each other. *)

\* A compaction has no other job beside it.
LEMMA CompactAlone ==
    ASSUME JobScopes, NEW m \in MergeThreads, NEW n \in MergeThreads, m # n
    PROVE  jobs[m].at # "compact"
    BY CompactingAloneAssumption DEF JobScopes

\* Two jobs have captured from different tiers.
LEMMA JobsApart ==
    ASSUME TypeOK, JobScopes,
           NEW m \in MergeThreads, NEW n \in MergeThreads, m # n, Busy(m), Busy(n)
    PROVE  \A t \in Tiers : jobs[m].counts[t] = 0 \/ jobs[n].counts[t] = 0
    <1>1. jobs[m].at = "merge" /\ jobs[n].at = "merge"
        BY CompactAlone DEF Busy
    <1>2. jobs[m].scope \cap jobs[n].scope = {}
        BY DEF JobScopes
    <1> QED BY <1>1, <1>2 DEF JobScopes

\* A slice of an unlocked tier is not unlinked when nobody compacts.
LEMMA UnlockedIsLinked ==
    ASSUME TypeOK, SlicesDistinct, CapturedInFront, JobScopes, UnlinkedSlices,
           \A n \in MergeThreads : jobs[n].at # "compact",
           NEW t \in Tiers, t \notin tier_locks, NEW i \in DOMAIN m_tier_map[t]
    PROVE  m_tier_map[t][i] \notin unlinked
    <1> SUFFICES ASSUME m_tier_map[t][i] \in unlinked PROVE FALSE
        OBVIOUS
    <1>1. m_tier_map \in [Tiers -> Seq(DOMAIN contents)]
        BY DEF TypeOK
    <1>2. \A u \in Tiers : /\ DOMAIN m_tier_map[u] = 1 .. Len(m_tier_map[u])
                           /\ Len(m_tier_map[u]) \in Nat
        BY <1>1, LenProperties
    <1>3. m_tier_map[t][i] \in get_slices
        BY <1>1, <1>2, SlicesOfMember DEF get_slices
    <1>4. PICK n \in MergeThreads : m_tier_map[t][i] \in jobs[n].sources
        BY <1>3 DEF UnlinkedSlices
    <1>5. /\ Busy(n) /\ jobs[n].sources = Taken(m_tier_map, jobs[n].counts)
          /\ Within(m_tier_map, jobs[n].counts)
          /\ jobs[n].counts \in [Tiers -> Nat]
        BY <1>4 DEF CapturedInFront, TypeOK, JobType
    <1>6. PICK u \in Tiers : \E j \in 1 .. jobs[n].counts[u] : m_tier_map[u][j] = m_tier_map[t][i]
        BY <1>4, <1>5, TakenMember
    <1>7. PICK j \in 1 .. jobs[n].counts[u] : m_tier_map[u][j] = m_tier_map[t][i]
        BY <1>6
    <1>8. j \in DOMAIN m_tier_map[u]
        BY <1>2, <1>5, <1>7 DEF Within
    <1>9. u = t
        BY <1>7, <1>8 DEF SlicesDistinct, Distinct
    <1>10. jobs[n].counts[t] # 0
        BY <1>5, <1>7, <1>9
    <1>11. jobs[n].at = "merge"
        BY <1>5 DEF Busy
    <1> QED BY <1>10, <1>11 DEF JobScopes

-----------------------------------------------------------------------------
(* SliceInv is inductive: one lemma per action. *)

LEMMA SliceInit == Init => SliceInv
    <1> SUFFICES ASSUME Init PROVE SliceInv
        OBVIOUS
    <1> USE DEF Init
    <1>1. <<>> \in Seq(SUBSET Entry) /\ <<>> \in Seq(Tiers) /\ <<>> \in Seq(MergeThreads)
          /\ <<>> \in Seq(DOMAIN contents) /\ DOMAIN <<>> = {}
        OBVIOUS
    <1>2. Looking \in JobType
        BY DEF Looking, JobType, NoCounts
    <1>3. TypeOK
        BY <1>1, <1>2 DEF TypeOK
    <1>4. SlicesDistinct
        BY <1>1 DEF SlicesDistinct, Distinct
    <1>5. \A m \in MergeThreads : jobs[m].at = "look" /\ jobs[m].sources = {}
        BY DEF Looking
    <1>6. CapturedInFront /\ JobScopes
        BY <1>5 DEF CapturedInFront, JobScopes, Busy
    <1>7. UnlinkedSlices /\ FreedSlices
        BY <1>1 DEF UnlinkedSlices, FreedSlices
    <1> QED BY <1>1, <1>3, <1>4, <1>6, <1>7 DEF SliceInv, CondQueue, UnlinkedOnce

\* The entries of a new update have their types.
LEMMA UpdateType ==
    ASSUME NEW n \in Nat, NEW b \in Batches
    PROVE  Update(n, b.puts, b.dels) \in SUBSET Entry
    BY BatchesAssumption DEF Update, Entry

LEMMA SliceBegin ==
    ASSUME SliceInv, NEW w \in Writers, NEW batch \in Batches, Begin(w, batch)
    PROVE  SliceInv'
    <1>1. idx' \in Nat /\ idx + 1 \in Nat
        BY DEF Begin, SliceInv, TypeOK
    <1>2. writers' \in [Writers -> SUBSET Entry]
        BY <1>1, UpdateType DEF Begin, SliceInv, TypeOK
    <1>3. TypeOK'
        BY <1>1, <1>2 DEF Begin, SliceInv, TypeOK, JobType
    <1> QED BY <1>3 DEF Begin, SliceInv, SlicesDistinct, CapturedInFront, JobScopes, Busy,
                        UnlinkedSlices, get_slices, FreedSlices, CondQueue, UnlinkedOnce

LEMMA SliceRollback ==
    ASSUME SliceInv, NEW w \in Writers, Rollback(w)
    PROVE  SliceInv'
    <1>1. TypeOK'
        BY DEF Rollback, SliceInv, TypeOK, JobType
    <1> QED BY <1>1 DEF Rollback, SliceInv, SlicesDistinct, CapturedInFront, JobScopes, Busy,
                        UnlinkedSlices, get_slices, FreedSlices, CondQueue, UnlinkedOnce

LEMMA SliceOpen ==
    ASSUME SliceInv, NEW r \in Readers, Open(r)
    PROVE  SliceInv'
    <1>0. get_slices \subseteq DOMAIN contents
        <2>1. m_tier_map \in [Tiers -> Seq(DOMAIN contents)]
            BY DEF SliceInv, TypeOK
        <2> QED BY <2>1, ElementOfSeq, LenProperties DEF get_slices, SlicesOf
    <1>1. TypeOK'
        BY <1>0 DEF Open, SliceInv, TypeOK, JobType
    <1>2. Referenced(m_tier_map, jobs, readers') = Referenced(m_tier_map, jobs, readers)
        <2>1. /\ readers' = [readers EXCEPT ![r] = get_slices] /\ readers[r] = {}
              /\ DOMAIN readers = Readers
            BY DEF Open, SliceInv, TypeOK
        <2> QED BY <2>1 DEF Referenced, get_slices
    <1> QED BY <1>1, <1>2 DEF Open, SliceInv, SlicesDistinct, CapturedInFront, JobScopes, Busy,
                        UnlinkedSlices, get_slices, FreedSlices, CondQueue, UnlinkedOnce

LEMMA SliceClose ==
    ASSUME SliceInv, NEW r \in Readers, Close(r)
    PROVE  SliceInv'
    <1>1. /\ freed' = unlinked \ Referenced(m_tier_map, jobs, readers')
          /\ contents' \in Seq(SUBSET Entry)
          /\ DOMAIN contents' = DOMAIN contents
        BY ReapShape DEF Close, SliceInv, TypeOK
    <1>2. TypeOK'
        BY <1>1 DEF Close, SliceInv, TypeOK, JobType
    <1> QED BY <1>1, <1>2 DEF Close, SliceInv, SlicesDistinct, CapturedInFront, JobScopes, Busy,
                        UnlinkedSlices, get_slices, FreedSlices, CondQueue, UnlinkedOnce

LEMMA SliceDrop ==
    ASSUME SliceInv, Drop
    PROVE  SliceInv'
    <1>1. /\ freed' = unlinked' \ Referenced(m_tier_map', jobs, readers)
          /\ contents' \in Seq(SUBSET Entry)
          /\ DOMAIN contents' = DOMAIN contents
        BY ReapShape DEF Drop, SliceInv, TypeOK
    <1>0. get_slices \subseteq DOMAIN contents
        <2>1. m_tier_map \in [Tiers -> Seq(DOMAIN contents)]
            BY DEF SliceInv, TypeOK
        <2> QED BY <2>1, ElementOfSeq, LenProperties DEF get_slices, SlicesOf
    <1>2. /\ m_tier_map' \in [Tiers -> Seq(DOMAIN contents)]
          /\ SlicesOf(m_tier_map') = {}
        BY DEF Drop, SlicesOf
    <1>3. TypeOK'
        BY <1>0, <1>1, <1>2 DEF Drop, SliceInv, TypeOK, JobType
    <1>4. \A m \in MergeThreads : ~Busy(m) /\ jobs[m].sources = {}
        BY DEF Drop, SliceInv, CapturedInFront
    <1>5. UnlinkedOnce'
        BY <1>4 DEF Drop, SliceInv, UnlinkedSlices, UnlinkedOnce
    <1>6. SlicesDistinct'
        BY DEF Drop, SlicesDistinct, Distinct
    <1>7. CapturedInFront' /\ JobScopes'
        BY <1>4 DEF Drop, CapturedInFront, JobScopes, Busy
    <1>8. UnlinkedSlices' /\ FreedSlices'
        BY <1>0, <1>1, <1>2 DEF Drop, SliceInv, UnlinkedSlices, FreedSlices, get_slices
    <1> QED BY <1>3, <1>5, <1>6, <1>7, <1>8 DEF Drop, SliceInv, CondQueue

LEMMA SliceMergeSkip ==
    ASSUME SliceInv, NEW m \in MergeThreads, MergeSkip(m)
    PROVE  SliceInv'
    <1>1. merge_requests' \in Seq(Tiers)
        BY HeadTailProperties DEF MergeSkip, SliceInv, TypeOK
    <1>2. TypeOK'
        BY <1>1 DEF MergeSkip, SliceInv, TypeOK, JobType
    <1> QED BY <1>2 DEF MergeSkip, SliceInv, SlicesDistinct, CapturedInFront, JobScopes, Busy,
                        UnlinkedSlices, get_slices, FreedSlices, CondQueue, UnlinkedOnce

\* One job changes from one that holds nothing to one that holds nothing.
LEMMA SliceMergeWait ==
    ASSUME SliceInv, NEW m \in MergeThreads, MergeWait(m)
    PROVE  SliceInv'
    <1>1. Waiting \in JobType /\ Waiting.at = "wait" /\ Waiting.sources = {}
        BY DEF Waiting, JobType, NoCounts
    <1>2. /\ jobs \in [MergeThreads -> JobType]
          /\ jobs' = [jobs EXCEPT ![m] = Waiting]
          /\ merge_cond \in Seq(MergeThreads)
          /\ merge_cond' = Append(merge_cond, m)
        BY DEF MergeWait, SliceInv, TypeOK
    <1>3. /\ jobs' \in [MergeThreads -> JobType]
          /\ jobs'[m] = Waiting
          /\ \A n \in MergeThreads \ {m} : jobs'[n] = jobs[n]
        BY <1>1, <1>2
    <1>4. /\ merge_cond' \in Seq(MergeThreads)
          /\ DOMAIN merge_cond = 1 .. Len(merge_cond) /\ Len(merge_cond) \in Nat
          /\ DOMAIN merge_cond' = 1 .. Len(merge_cond) + 1
          /\ \A i \in 1 .. Len(merge_cond) : merge_cond'[i] = merge_cond[i]
          /\ merge_cond'[Len(merge_cond) + 1] = m
          /\ \A i \in 1 .. Len(merge_cond) : merge_cond[i] \in MergeThreads
        BY <1>2, AppendProperties, LenProperties, ElementOfSeq
    <1>5. TypeOK'
        BY <1>3, <1>4 DEF MergeWait, SliceInv, TypeOK, JobType
    <1>6. jobs[m].at = "look" /\ jobs[m].sources = {}
        BY DEF MergeWait, SliceInv, CapturedInFront, Busy
    <1>7. \A n \in MergeThreads : jobs'[n].sources = jobs[n].sources
        BY <1>1, <1>3, <1>6
    <1>8. Referenced(m_tier_map, jobs', readers) = Referenced(m_tier_map, jobs, readers)
        BY <1>7 DEF Referenced
    <1>9. CapturedInFront'
        <2> SUFFICES ASSUME NEW n \in MergeThreads
                     PROVE  /\ jobs'[n].at \in {"merge", "compact"} =>
                                  /\ Within(m_tier_map, jobs'[n].counts)
                                  /\ jobs'[n].sources = Taken(m_tier_map, jobs'[n].counts)
                                  /\ jobs'[n].sources \subseteq unlinked
                            /\ jobs'[n].at \notin {"merge", "compact"} => jobs'[n].sources = {}
            BY DEF MergeWait, CapturedInFront, Busy
        <2>1. CASE n = m
            BY <1>1, <1>3, <2>1
        <2>2. CASE n # m
            BY <1>3, <2>2 DEF SliceInv, CapturedInFront, Busy
        <2> QED BY <2>1, <2>2
    <1>10. JobScopes'
        BY <1>1, <1>3 DEF MergeWait, SliceInv, JobScopes, Busy
    <1>11. UnlinkedSlices' /\ FreedSlices'
        BY <1>7, <1>8 DEF MergeWait, SliceInv, UnlinkedSlices, FreedSlices, get_slices
    <1>12. CondQueue'
        <2>0. \A i \in 1 .. Len(merge_cond) : jobs[merge_cond[i]].at = "wait"
            BY <1>4 DEF SliceInv, CondQueue
        <2>1. \A i \in 1 .. Len(merge_cond) : merge_cond[i] # m
            BY <1>6, <2>0
        <2>2. ASSUME NEW i \in DOMAIN merge_cond' PROVE jobs'[merge_cond'[i]].at = "wait"
            <3>1. CASE i = Len(merge_cond) + 1
                BY <1>1, <1>3, <1>4, <3>1
            <3>2. CASE i \in 1 .. Len(merge_cond)
                BY <1>3, <1>4, <2>0, <2>1, <3>2
            <3> QED BY <1>4, <3>1, <3>2
        <2>3. ASSUME NEW i \in DOMAIN merge_cond', NEW j \in DOMAIN merge_cond',
                     merge_cond'[i] = merge_cond'[j]
              PROVE  i = j
            <3>1. CASE i = Len(merge_cond) + 1 /\ j \in 1 .. Len(merge_cond)
                BY <1>4, <2>1, <2>3, <3>1
            <3>2. CASE j = Len(merge_cond) + 1 /\ i \in 1 .. Len(merge_cond)
                BY <1>4, <2>1, <2>3, <3>2
            <3>3. CASE i \in 1 .. Len(merge_cond) /\ j \in 1 .. Len(merge_cond)
                BY <1>4, <2>3, <3>3 DEF SliceInv, CondQueue
            <3> QED BY <1>4, <3>1, <3>2, <3>3
        <2> QED BY <2>2, <2>3 DEF CondQueue
    <1> QED BY <1>5, <1>9, <1>10, <1>11, <1>12
            DEF MergeWait, SliceInv, SlicesDistinct, UnlinkedOnce

\* A job starts: what it captures is linked and in the tier map, and nobody
\* else's.
LEMMA SliceCapture ==
    ASSUME SliceInv, NEW m \in MergeThreads, ~Busy(m), jobs[m].at # "wait",
           NEW job \in JobType, Capture(m, job),
           job.at \in {"merge", "compact"}, job.at = "compact" => Compacting,
           Within(m_tier_map, job.counts), job.sources = Taken(m_tier_map, job.counts),
           job.sources \subseteq get_slices, job.sources \cap unlinked = {},
           job.at = "merge" => /\ job.scope \subseteq tier_locks'
                               /\ \A t \in Tiers \ job.scope : job.counts[t] = 0,
           \A n \in MergeThreads \ {m} : Busy(n) => job.scope \cap jobs[n].scope = {},
           tier_locks \subseteq tier_locks', tier_locks' \subseteq Tiers,
           merge_requests' \in Seq(Tiers),
           UNCHANGED <<idx, writers, contents, m_tier_map, freed, readers, merge_cond,
                       dropped, committed>>
    PROVE  SliceInv'
    <1>1. /\ jobs \in [MergeThreads -> JobType]
          /\ jobs' = [jobs EXCEPT ![m] = job]
          /\ unlinked' = unlinked \cup job.sources
          /\ double_unlink' = (double_unlink \/ unlinked \cap job.sources # {})
        BY DEF Capture, SliceInv, TypeOK
    <1>2. /\ jobs' \in [MergeThreads -> JobType]
          /\ jobs'[m] = job
          /\ \A n \in MergeThreads \ {m} : jobs'[n] = jobs[n]
        BY <1>1
    <1>3. job.sources \subseteq DOMAIN contents
        BY DEF JobType
    <1>4. UnlinkedOnce' /\ double_unlink' = FALSE
        BY <1>1 DEF SliceInv, UnlinkedOnce, TypeOK
    <1>5. TypeOK'
        BY <1>1, <1>2, <1>3, <1>4 DEF SliceInv, TypeOK, JobType
    <1>6. jobs[m].sources = {}
        BY DEF SliceInv, CapturedInFront
    <1>7. UNION {jobs'[n].sources : n \in MergeThreads}
          = (UNION {jobs[n].sources : n \in MergeThreads}) \cup job.sources
        <2>1. ASSUME NEW s, s \in UNION {jobs'[n].sources : n \in MergeThreads}
              PROVE  s \in (UNION {jobs[n].sources : n \in MergeThreads}) \cup job.sources
            BY <1>2, <2>1
        <2>2. ASSUME NEW s, s \in UNION {jobs[n].sources : n \in MergeThreads}
              PROVE  s \in UNION {jobs'[n].sources : n \in MergeThreads}
            <3>1. PICK n \in MergeThreads : s \in jobs[n].sources
                BY <2>2
            <3>2. n # m
                BY <1>6, <3>1
            <3> QED BY <1>2, <3>1, <3>2
        <2>3. ASSUME NEW s \in job.sources
              PROVE  s \in UNION {jobs'[n].sources : n \in MergeThreads}
            BY <1>2, <2>3
        <2> QED BY <2>1, <2>2, <2>3
    <1>8. Referenced(m_tier_map, jobs', readers) = Referenced(m_tier_map, jobs, readers)
        BY <1>7 DEF Referenced, get_slices
    <1>9. CapturedInFront'
        <2> SUFFICES ASSUME NEW n \in MergeThreads
                     PROVE  /\ jobs'[n].at \in {"merge", "compact"} =>
                                  /\ Within(m_tier_map, jobs'[n].counts)
                                  /\ jobs'[n].sources = Taken(m_tier_map, jobs'[n].counts)
                                  /\ jobs'[n].sources \subseteq unlinked'
                            /\ jobs'[n].at \notin {"merge", "compact"} => jobs'[n].sources = {}
            BY DEF CapturedInFront, Busy
        <2>1. CASE n = m
            BY <1>1, <1>2, <2>1
        <2>2. CASE n # m
            <3>1. jobs'[n] = jobs[n]
                BY <1>2, <2>2
            <3> QED BY <1>1, <3>1 DEF SliceInv, CapturedInFront, Busy
        <2> QED BY <2>1, <2>2
    <1>10. JobScopes'
        <2>1. ASSUME NEW n \in MergeThreads
              PROVE  /\ jobs'[n].at = "merge" =>
                           /\ jobs'[n].scope \subseteq tier_locks'
                           /\ \A t \in Tiers \ jobs'[n].scope : jobs'[n].counts[t] = 0
                     /\ jobs'[n].at = "compact" => Compacting
            <3>1. CASE n = m
                BY <1>2, <3>1
            <3>2. CASE n # m
                BY <1>2, <3>2 DEF SliceInv, JobScopes
            <3> QED BY <3>1, <3>2
        <2>2. ASSUME NEW n \in MergeThreads, NEW l \in MergeThreads,
                     jobs'[n].at \in {"merge", "compact"}, jobs'[l].at \in {"merge", "compact"},
                     n # l
              PROVE  jobs'[n].scope \cap jobs'[l].scope = {}
            <3>1. CASE n = m
                BY <1>2, <2>2, <3>1 DEF Busy
            <3>2. CASE l = m
                BY <1>2, <2>2, <3>2 DEF Busy
            <3>3. CASE n # m /\ l # m
                BY <1>2, <2>2, <3>3 DEF SliceInv, JobScopes, Busy
            <3> QED BY <3>1, <3>2, <3>3
        <2> QED BY <2>1, <2>2 DEF JobScopes, Busy
    <1>11. UnlinkedSlices'
        BY <1>1, <1>7 DEF SliceInv, UnlinkedSlices, get_slices
    <1>12. FreedSlices'
        <2>1. job.sources \subseteq Referenced(m_tier_map, jobs, readers)
            BY DEF Referenced, get_slices
        <2> QED BY <1>1, <1>8, <2>1 DEF SliceInv, FreedSlices
    <1>13. CondQueue'
        <2>1. \A i \in DOMAIN merge_cond : merge_cond[i] \in MergeThreads
            BY LenProperties, ElementOfSeq DEF SliceInv, TypeOK
        <2>2. \A i \in DOMAIN merge_cond : merge_cond[i] # m
            BY DEF SliceInv, CondQueue
        <2> QED BY <1>2, <2>1, <2>2 DEF SliceInv, CondQueue
    <1> QED BY <1>4, <1>5, <1>9, <1>10, <1>11, <1>12, <1>13 DEF SliceInv, SlicesDistinct

LEMMA SliceMergeStart ==
    ASSUME SliceInv, NEW m \in MergeThreads, MergeStart(m)
    PROVE  SliceInv'
    <1> DEFINE t == Head(merge_requests)
               counts == [NoCounts EXCEPT ![t] = Len(m_tier_map[t])]
               sources == {m_tier_map[t][i] : i \in DOMAIN m_tier_map[t]}
               job == [at |-> "merge", scope |-> {t}, counts |-> counts, sources |-> sources]
    <1>1. /\ merge_requests \in Seq(Tiers) /\ merge_requests # <<>>
          /\ merge_requests' = Tail(merge_requests)
          /\ t \notin tier_locks
          /\ tier_locks' = tier_locks \cup {t}
          /\ Capture(m, job)
          /\ jobs[m].at = "look"
          /\ UNCHANGED <<idx, writers, contents, m_tier_map, freed, readers, merge_cond,
                         dropped, committed>>
        BY DEF MergeStart, SliceInv, TypeOK
    <1>2. t \in Tiers /\ merge_requests' \in Seq(Tiers)
        BY <1>1, HeadTailProperties
    <1>3. m_tier_map \in [Tiers -> Seq(DOMAIN contents)]
        BY DEF SliceInv, TypeOK
    <1>4. \A u \in Tiers : /\ DOMAIN m_tier_map[u] = 1 .. Len(m_tier_map[u])
                           /\ Len(m_tier_map[u]) \in Nat
                           /\ \A i \in 1 .. Len(m_tier_map[u]) : m_tier_map[u][i] \in DOMAIN contents
        BY <1>3, LenProperties, ElementOfSeq
    <1> HIDE DEF t
    <1>5. /\ counts \in [Tiers -> Nat] /\ counts[t] = Len(m_tier_map[t])
          /\ \A u \in Tiers \ {t} : counts[u] = 0
        BY <1>2, <1>4 DEF NoCounts
    <1>6. sources \subseteq DOMAIN contents /\ sources \subseteq get_slices
        BY <1>2, <1>4 DEF get_slices, SlicesOf
    <1>7. \A n \in MergeThreads : jobs[n].at # "compact"
        <2> SUFFICES ASSUME NEW n \in MergeThreads PROVE jobs[n].at # "compact"
            OBVIOUS
        <2>1. CASE n = m
            BY <1>1, <2>1
        <2>2. CASE n # m
            BY <2>2, CompactAlone DEF SliceInv
        <2> QED BY <2>1, <2>2
    <1>8. sources \cap unlinked = {}
        BY <1>1, <1>2, <1>7, UnlockedIsLinked DEF SliceInv
    <1> HIDE DEF counts
    <1>9. Within(m_tier_map, counts)
        BY <1>2, <1>4, <1>5 DEF Within
    <1>10. sources = Taken(m_tier_map, counts)
        <2>1. ASSUME NEW s \in sources PROVE s \in Taken(m_tier_map, counts)
            <3>1. PICK i \in DOMAIN m_tier_map[t] : s = m_tier_map[t][i]
                BY <2>1
            <3>2. i \in 1 .. counts[t]
                BY <1>2, <1>4, <1>5, <3>1
            <3> QED BY <1>2, <3>1, <3>2, TakenMember
        <2>2. ASSUME NEW s \in Taken(m_tier_map, counts) PROVE s \in sources
            <3>1. PICK u \in Tiers : \E i \in 1 .. counts[u] : m_tier_map[u][i] = s
                BY <2>2, TakenMember
            <3>2. PICK i \in 1 .. counts[u] : m_tier_map[u][i] = s
                BY <3>1
            <3>3. u = t
                BY <1>5, <3>2
            <3>4. i \in DOMAIN m_tier_map[t]
                BY <1>2, <1>4, <1>5, <3>2, <3>3
            <3> QED BY <3>2, <3>3, <3>4
        <2> QED BY <2>1, <2>2
    <1>11. \A n \in MergeThreads \ {m} : Busy(n) => {t} \cap jobs[n].scope = {}
        BY <1>1, <1>7 DEF SliceInv, JobScopes, Busy
    <1> HIDE DEF sources
    <1>12. job \in JobType
        BY <1>2, <1>5, <1>6 DEF JobType
    <1>13. /\ job.at = "merge" /\ job.scope = {t} /\ job.counts = counts
           /\ job.sources = sources
        OBVIOUS
    <1> HIDE DEF job
    <1>14. tier_locks' \subseteq Tiers /\ tier_locks \subseteq tier_locks' /\ t \in tier_locks'
        BY <1>1, <1>2 DEF SliceInv, TypeOK
    <1>15. ~Busy(m) /\ jobs[m].at # "wait"
        BY <1>1 DEF Busy
    <1>16. /\ \A n \in MergeThreads \ {m} : Busy(n) => job.scope \cap jobs[n].scope = {}
           /\ \A u \in Tiers \ job.scope : job.counts[u] = 0
        BY <1>5, <1>11, <1>13
    <1> QED BY <1>1, <1>2, <1>6, <1>8, <1>9, <1>10, <1>12, <1>13, <1>14, <1>15, <1>16,
               SliceCapture

LEMMA CompactorMerges == \A m \in Compactors : Compacting /\ m \in MergeThreads
    BY DEF Compactors

LEMMA SliceCompactStart ==
    ASSUME SliceInv, NEW m \in MergeThreads, Compacting, CompactStart(m)
    PROVE  SliceInv'
    <1> DEFINE counts == [u \in Tiers |-> Len(m_tier_map[u])]
               job == [at |-> "compact", scope |-> Tiers, counts |-> counts,
                       sources |-> get_slices]
    <1>1. /\ Compacting
          /\ Capture(m, job)
          /\ jobs[m].at = "look"
          /\ UNCHANGED <<idx, writers, contents, m_tier_map, freed, readers,
                         merge_requests, merge_cond, tier_locks, dropped, committed>>
        BY DEF CompactStart
    <1>3. m_tier_map \in [Tiers -> Seq(DOMAIN contents)]
        BY DEF SliceInv, TypeOK
    <1>4. \A u \in Tiers : /\ DOMAIN m_tier_map[u] = 1 .. Len(m_tier_map[u])
                           /\ Len(m_tier_map[u]) \in Nat
                           /\ \A i \in 1 .. Len(m_tier_map[u]) : m_tier_map[u][i] \in DOMAIN contents
        BY <1>3, LenProperties, ElementOfSeq
    <1>5. counts \in [Tiers -> Nat] /\ \A u \in Tiers : counts[u] = Len(m_tier_map[u])
        BY <1>4
    <1>6. get_slices \subseteq DOMAIN contents
        BY <1>4 DEF get_slices, SlicesOf
    <1>7. \A n \in MergeThreads : n = m
        BY <1>1, CompactingAloneAssumption
    <1>8. get_slices \cap unlinked = {}
        <2>1. jobs[m].sources = {}
            BY <1>1 DEF SliceInv, CapturedInFront, Busy
        <2> QED BY <1>7, <2>1 DEF SliceInv, UnlinkedSlices
    <1> HIDE DEF counts
    <1>9. Within(m_tier_map, counts)
        BY <1>4, <1>5 DEF Within
    <1>10. get_slices = Taken(m_tier_map, counts)
        <2>1. ASSUME NEW s \in get_slices PROVE s \in Taken(m_tier_map, counts)
            <3>1. s \in SlicesOf(m_tier_map)
                BY <2>1 DEF get_slices
            <3>2. PICK u \in Tiers : \E i \in 1 .. Len(m_tier_map[u]) : m_tier_map[u][i] = s
                BY <1>3, <3>1, SlicesOfMember
            <3>3. \E i \in 1 .. counts[u] : m_tier_map[u][i] = s
                BY <1>5, <3>2
            <3> QED BY <3>3, TakenMember
        <2>2. ASSUME NEW s \in Taken(m_tier_map, counts) PROVE s \in get_slices
            BY <1>3, <1>5, <2>2, SlicesOfMember, TakenMember DEF get_slices
        <2> QED BY <2>1, <2>2
    <1>12. job \in JobType
        BY <1>5, <1>6 DEF JobType
    <1>13. /\ job.at = "compact" /\ job.counts = counts /\ job.sources = get_slices
        OBVIOUS
    <1> HIDE DEF job
    <1>14. /\ tier_locks' \subseteq Tiers /\ tier_locks \subseteq tier_locks'
           /\ merge_requests' \in Seq(Tiers)
        BY <1>1 DEF SliceInv, TypeOK
    <1>15. ~Busy(m) /\ jobs[m].at # "wait"
        BY <1>1 DEF Busy
    <1>16. \A n \in MergeThreads \ {m} : Busy(n) => job.scope \cap jobs[n].scope = {}
        BY <1>7
    <1> QED BY <1>1, <1>8, <1>9, <1>10, <1>12, <1>13, <1>14, <1>15, <1>16, SliceCapture

LEMMA SliceCommit ==
    ASSUME SliceInv, NEW w \in Writers, Commit(w)
    PROVE  SliceInv'
    <1> DEFINE new == Len(contents) + 1
    <1>1. PICK t \in tier_of(writers[w]) :
             /\ contents' = Append(contents, writers[w])
             /\ m_tier_map' = Added(m_tier_map, t, new)
             /\ Request(IF Overfull(m_tier_map', t) THEN <<t>> ELSE <<>>, jobs)
        BY DEF Commit
    <1>2. /\ committed' = committed \cup writers[w]
          /\ writers' = [writers EXCEPT ![w] = {}]
          /\ UNCHANGED <<idx, unlinked, freed, readers, tier_locks, dropped, double_unlink>>
        BY DEF Commit
    <1>3. t \in Tiers
        BY TierOfTiers
    <1>4. /\ contents \in Seq(SUBSET Entry) /\ writers[w] \in SUBSET Entry
          /\ Len(contents) \in Nat /\ DOMAIN contents = 1 .. Len(contents)
        BY LenProperties DEF SliceInv, TypeOK
    <1>5. /\ contents' \in Seq(SUBSET Entry) /\ DOMAIN contents' = 1 .. new
          /\ DOMAIN contents \subseteq DOMAIN contents' /\ new \in DOMAIN contents'
          /\ DOMAIN contents' = DOMAIN contents \cup {new} /\ new \notin DOMAIN contents
        <2>1. contents' \in Seq(SUBSET Entry) /\ Len(contents') = new
            BY <1>1, <1>4, AppendProperties
        <2> QED BY <1>4, <2>1, LenProperties
    <1>6. m_tier_map \in [Tiers -> Seq(DOMAIN contents)]
        BY DEF SliceInv, TypeOK
    <1>7. m_tier_map \in [Tiers -> Seq(DOMAIN contents')]
        <2> SUFFICES ASSUME NEW u \in Tiers PROVE m_tier_map[u] \in Seq(DOMAIN contents')
            BY <1>6
        <2>1. m_tier_map[u] \in Seq(DOMAIN contents)
            BY <1>6
        <2> QED BY <1>5, <2>1, SeqMonotonic
    <1>8. get_slices \subseteq DOMAIN contents
        BY <1>6, ElementOfSeq, LenProperties DEF get_slices, SlicesOf
    <1> HIDE DEF new
    <1>9. m_tier_map' \in [Tiers -> Seq(DOMAIN contents')]
        BY <1>1, <1>3, <1>5, <1>7, AddedShape
    <1>10. /\ SlicesOf(m_tier_map') = get_slices \cup {new}
           /\ Distinct(m_tier_map')
           /\ \A counts \in [Tiers -> Nat] :
                 Within(m_tier_map, counts) =>
                     /\ Taken(m_tier_map', counts) = Taken(m_tier_map, counts)
                     /\ Within(m_tier_map', counts)
        <2>1. Distinct(m_tier_map) /\ new \notin SlicesOf(m_tier_map)
            BY <1>5, <1>8 DEF SliceInv, SlicesDistinct, get_slices
        <2> QED BY <1>1, <1>3, <1>5, <1>7, <2>1, AddedSlices DEF get_slices
    <1>11. /\ merge_requests' \in Seq(Tiers)
           /\ merge_cond' \in Seq(MergeThreads)
           /\ CondQueue'
           /\ jobs' \in [MergeThreads -> JobType]
           /\ \A m \in MergeThreads :
                 jobs'[m] = jobs[m] \/ (jobs'[m] = Looking /\ jobs[m].at = "wait")
        <2> DEFINE reqs == IF Overfull(m_tier_map', t) THEN <<t>> ELSE <<>>
        <2>1. reqs \in Seq(Tiers)
            BY <1>3
        <2>2. jobs \in [MergeThreads -> JobType] /\ Request(reqs, jobs)
            BY <1>1 DEF SliceInv, TypeOK
        <2>3. TypeOK /\ CondQueue /\ \A i \in DOMAIN merge_cond : jobs[merge_cond[i]].at = "wait"
            BY DEF SliceInv, CondQueue
        <2> HIDE DEF reqs
        <2> QED BY <2>1, <2>2, <2>3, RequestJobs
    <1>12. \A m \in MergeThreads :
              \/ jobs'[m] = jobs[m]
              \/ /\ jobs'[m] = Looking /\ jobs'[m].sources = {} /\ jobs[m].sources = {}
                 /\ jobs'[m].at \notin {"merge", "compact"}
        <2>1. Looking.sources = {} /\ Looking.at = "look"
            BY DEF Looking
        <2>2. \A m \in MergeThreads : jobs[m].at = "wait" => jobs[m].sources = {}
            BY DEF SliceInv, CapturedInFront, Busy
        <2> QED BY <1>11, <2>1, <2>2
    <1>13. \A m \in MergeThreads : jobs'[m].sources = jobs[m].sources
        BY <1>12
    <1>14. TypeOK'
        <2>1. JobType \subseteq JobType'
            BY <1>5 DEF JobType
        <2>2. jobs' \in [MergeThreads -> JobType']
            BY <1>11, <2>1
        <2>3. readers' \in [Readers -> SUBSET (DOMAIN contents')]
            BY <1>2, <1>5 DEF SliceInv, TypeOK
        <2>4. writers' \in [Writers -> SUBSET Entry] /\ committed' \subseteq Entry
            BY <1>2 DEF SliceInv, TypeOK
        <2> QED BY <1>2, <1>5, <1>9, <1>11, <2>2, <2>3, <2>4 DEF SliceInv, TypeOK
    <1>15. CapturedInFront'
        <2> SUFFICES ASSUME NEW n \in MergeThreads
                     PROVE  /\ jobs'[n].at \in {"merge", "compact"} =>
                                  /\ Within(m_tier_map', jobs'[n].counts)
                                  /\ jobs'[n].sources = Taken(m_tier_map', jobs'[n].counts)
                                  /\ jobs'[n].sources \subseteq unlinked'
                            /\ jobs'[n].at \notin {"merge", "compact"} => jobs'[n].sources = {}
            BY DEF CapturedInFront, Busy
        <2>1. jobs[n].counts \in [Tiers -> Nat]
            BY DEF SliceInv, TypeOK, JobType
        <2>2. CASE jobs'[n] = jobs[n]
            BY <1>2, <1>10, <2>1, <2>2 DEF SliceInv, CapturedInFront, Busy
        <2> QED BY <1>12, <2>2
    <1>16. JobScopes'
        BY <1>2, <1>12 DEF SliceInv, JobScopes, Busy
    <1>17. UnlinkedSlices'
        <2>1. unlinked' = unlinked /\ unlinked \subseteq DOMAIN contents
            BY <1>2 DEF SliceInv, TypeOK
        <2>2. UNION {jobs'[m].sources : m \in MergeThreads}
              = UNION {jobs[m].sources : m \in MergeThreads}
            BY <1>13
        <2> QED BY <1>5, <1>10, <2>1, <2>2 DEF SliceInv, UnlinkedSlices, get_slices
    <1>18. FreedSlices'
        <2>1. unlinked' = unlinked /\ unlinked \subseteq DOMAIN contents /\ freed' = freed
            BY <1>2 DEF SliceInv, TypeOK
        <2>2. Referenced(m_tier_map', jobs', readers')
              = Referenced(m_tier_map, jobs, readers) \cup {new}
            BY <1>2, <1>10, <1>13 DEF Referenced, get_slices
        <2> QED BY <1>5, <2>1, <2>2 DEF SliceInv, FreedSlices
    <1> QED BY <1>2, <1>10, <1>11, <1>14, <1>15, <1>16, <1>17, <1>18
            DEF SliceInv, SlicesDistinct, UnlinkedOnce

\* What a merge or a compaction writes is among what it read.
LEMMA TargetSubset ==
    ASSUME TypeOK, NEW m \in MergeThreads
    PROVE  /\ Target(jobs[m]) \subseteq EntriesOf(jobs[m].sources)
           /\ EntriesOf(jobs[m].sources) \subseteq Entry
           /\ Target(jobs[m]) \subseteq Entry
    <1>1. jobs[m].sources \subseteq DOMAIN contents
        BY DEF TypeOK, JobType
    <1>2. \A s \in DOMAIN contents : contents[s] \subseteq Entry
        BY LenProperties, ElementOfSeq DEF TypeOK
    <1>3. EntriesOf(jobs[m].sources) \subseteq Entry
        BY <1>1, <1>2 DEF EntriesOf
    <1>4. Target(jobs[m]) \subseteq EntriesOf(jobs[m].sources)
        BY DEF Target, Live, Newest
    <1> QED BY <1>3, <1>4

\* The requests of remove_from are tiers.
LEMMA RemoveRequestsType ==
    ASSUME NEW tm, NEW scope \in SUBSET Tiers, NEW q \in RemoveRequests(tm, scope)
    PROVE  q \in Seq(Tiers)
    <1> DEFINE over == {t \in scope : Overfull(tm, t)}
    <1>1. IsFiniteSet(Tiers)
        <2> DEFINE f == [b \in 0 .. WordBits |-> b \div TierDivisor]
        <2>1. f \in Surjection(0 .. WordBits, Tiers)
            BY DEF Surjection, Tiers
        <2>2. IsFiniteSet(0 .. WordBits)
            BY FS_Interval, WordBitsAssumption
        <2> HIDE DEF f
        <2> QED BY <2>1, <2>2, FS_Surjection
    <1>2. over \subseteq Tiers
        OBVIOUS
    <1> HIDE DEF over
    <1>3. Cardinality(over) \in Nat
        BY <1>1, <1>2, FS_Subset, FS_CardinalityType
    <1>4. q \in [1 .. Cardinality(over) -> over]
        BY DEF RemoveRequests, over
    <1>5. q \in [1 .. Cardinality(over) -> Tiers]
        BY <1>2, <1>4
    <1> QED BY <1>3, <1>5, IsASeq

\* What the end of a job does to the state, in the terms of the invariant.
LEMMA FinishShape ==
    ASSUME SliceInv, NEW m \in MergeThreads, Finish(m)
    PROVE  LET new == Len(contents) + 1
           IN  /\ contents' \in Seq(SUBSET Entry)
               /\ DOMAIN contents' = DOMAIN contents \cup {new} /\ new \notin DOMAIN contents
               /\ m_tier_map' \in [Tiers -> Seq(DOMAIN contents')]
               /\ get_slices \subseteq DOMAIN contents
               /\ get_slices' = (get_slices \cup {new}) \ jobs[m].sources
               /\ Distinct(m_tier_map')
               /\ \A n \in MergeThreads \ {m} :
                     Busy(n) => /\ Within(m_tier_map', jobs[n].counts)
                                /\ Taken(m_tier_map', jobs[n].counts)
                                   = Taken(m_tier_map, jobs[n].counts)
               /\ merge_requests' \in Seq(Tiers)
               /\ merge_cond' \in Seq(MergeThreads)
               /\ CondQueue'
               /\ jobs' \in [MergeThreads -> JobType]
               /\ jobs'[m] = Looking
               /\ \A n \in MergeThreads \ {m} :
                     jobs'[n] = jobs[n] \/ (jobs'[n] = Looking /\ jobs[n].at = "wait")
               /\ freed' = unlinked \ Referenced(m_tier_map', jobs', readers)
               /\ contents'[new] = Target(jobs[m])
               /\ \A s \in DOMAIN contents :
                     /\ contents'[s] \subseteq contents[s]
                     /\ s \in Referenced(m_tier_map', jobs', readers) => contents'[s] = contents[s]
    <1> DEFINE new == Len(contents) + 1
               job == jobs[m]
               stored == Append(contents, Target(job))
    <1>1. PICK t \in tier_of(Target(job)) :
             LET added == Added(m_tier_map, t, new)
             IN  /\ m_tier_map' = Removed(added, job.counts)
                 /\ \E q \in RemoveRequests(m_tier_map', job.scope) :
                       Request((IF Overfull(added, t) THEN <<t>> ELSE <<>>) \o q,
                               [jobs EXCEPT ![m] = Looking])
                 /\ Reap(Referenced(m_tier_map', jobs', readers), unlinked, stored)
        BY DEF Finish
    <1> DEFINE added == Added(m_tier_map, t, new)
    <1>2. PICK q \in RemoveRequests(m_tier_map', job.scope) :
             Request((IF Overfull(added, t) THEN <<t>> ELSE <<>>) \o q,
                     [jobs EXCEPT ![m] = Looking])
        BY <1>1
    <1>3. t \in Tiers
        BY TierOfTiers
    <1>4. /\ job \in JobType /\ job.counts \in [Tiers -> Nat] /\ job.scope \in SUBSET Tiers
          /\ job.sources \subseteq DOMAIN contents
          /\ jobs \in [MergeThreads -> JobType]
          /\ Busy(m)
        BY DEF SliceInv, TypeOK, JobType, Finish
    <1>5. /\ contents \in Seq(SUBSET Entry) /\ Target(job) \in SUBSET Entry
          /\ Len(contents) \in Nat /\ DOMAIN contents = 1 .. Len(contents)
        BY LenProperties, TargetSubset DEF SliceInv, TypeOK
    <1>6. /\ stored \in Seq(SUBSET Entry) /\ DOMAIN stored = DOMAIN contents \cup {new}
          /\ new \notin DOMAIN contents
          /\ stored[new] = Target(job)
          /\ \A s \in DOMAIN contents : stored[s] = contents[s]
        <2>1. /\ stored \in Seq(SUBSET Entry) /\ Len(stored) = new
              /\ \A i \in 1 .. Len(contents) : stored[i] = contents[i]
              /\ stored[new] = Target(job)
            BY <1>5, AppendProperties
        <2>2. DOMAIN stored = 1 .. new
            BY <2>1, LenProperties
        <2> HIDE DEF stored
        <2> QED BY <1>5, <2>1, <2>2
    <1>7. m_tier_map \in [Tiers -> Seq(DOMAIN contents)]
        BY DEF SliceInv, TypeOK
    <1>8. get_slices \subseteq DOMAIN contents
        BY <1>7, ElementOfSeq, LenProperties DEF get_slices, SlicesOf
    <1> HIDE DEF stored
    <1>9. m_tier_map \in [Tiers -> Seq(DOMAIN stored)]
        <2> SUFFICES ASSUME NEW u \in Tiers PROVE m_tier_map[u] \in Seq(DOMAIN stored)
            BY <1>7
        <2>1. m_tier_map[u] \in Seq(DOMAIN contents) /\ DOMAIN contents \subseteq DOMAIN stored
            BY <1>6, <1>7
        <2> QED BY <2>1, SeqMonotonic
    <1>10. new \in DOMAIN stored /\ new \notin get_slices
        BY <1>6, <1>8
    <1> HIDE DEF new
    <1>11. added \in [Tiers -> Seq(DOMAIN stored)]
        BY <1>3, <1>9, <1>10, AddedShape
    <1>12. /\ SlicesOf(added) = get_slices \cup {new}
           /\ Distinct(added)
           /\ \A counts \in [Tiers -> Nat] :
                 Within(m_tier_map, counts) =>
                     /\ Taken(added, counts) = Taken(m_tier_map, counts)
                     /\ Within(added, counts)
        <2>1. Distinct(m_tier_map) /\ new \notin SlicesOf(m_tier_map)
            BY <1>10 DEF SliceInv, SlicesDistinct, get_slices
        <2> QED BY <1>3, <1>9, <1>10, <2>1, AddedSlices DEF get_slices
    <1>13. m_tier_map' = Removed(added, job.counts)
        BY <1>1
    <1> HIDE DEF added
    <1>14. /\ Within(m_tier_map, job.counts)
           /\ job.sources = Taken(m_tier_map, job.counts)
        BY <1>4 DEF SliceInv, CapturedInFront
    <1>15. Within(added, job.counts) /\ Taken(added, job.counts) = job.sources
        BY <1>4, <1>12, <1>14
    <1>16. m_tier_map' \in [Tiers -> Seq(DOMAIN stored)]
        BY <1>4, <1>11, <1>13, <1>15, RemovedShape
    <1>17. /\ SlicesOf(m_tier_map') = (get_slices \cup {new}) \ job.sources
           /\ Distinct(m_tier_map')
           /\ \A other \in [Tiers -> Nat] :
                 /\ Within(added, other)
                 /\ \A u \in Tiers : other[u] = 0 \/ job.counts[u] = 0
                 =>  /\ Within(m_tier_map', other)
                     /\ Taken(m_tier_map', other) = Taken(added, other)
        <2>1. /\ SlicesOf(Removed(added, job.counts)) = SlicesOf(added) \ Taken(added, job.counts)
              /\ Distinct(Removed(added, job.counts))
              /\ \A other \in [Tiers -> Nat] :
                    /\ Within(added, other)
                    /\ \A u \in Tiers : other[u] = 0 \/ job.counts[u] = 0
                    =>  /\ Within(Removed(added, job.counts), other)
                        /\ Taken(Removed(added, job.counts), other) = Taken(added, other)
            <3> HIDE DEF job
            <3> QED BY <1>4, <1>11, <1>12, <1>15, RemovedSlices
        <2>2. SlicesOf(Removed(added, job.counts)) = (get_slices \cup {new}) \ job.sources
            BY <1>12, <1>15, <2>1
        <2> QED BY <1>13, <2>1, <2>2
    <1>18. ASSUME NEW n \in MergeThreads \ {m}, Busy(n)
           PROVE  /\ Within(m_tier_map', jobs[n].counts)
                  /\ Taken(m_tier_map', jobs[n].counts) = Taken(m_tier_map, jobs[n].counts)
        <2>1. jobs[n].counts \in [Tiers -> Nat] /\ Within(m_tier_map, jobs[n].counts)
            BY <1>18 DEF SliceInv, CapturedInFront, TypeOK, JobType
        <2>2. \A u \in Tiers : jobs[n].counts[u] = 0 \/ job.counts[u] = 0
            BY <1>4, <1>18, JobsApart DEF SliceInv
        <2> QED BY <1>12, <1>17, <2>1, <2>2
    <1>19. /\ merge_requests' \in Seq(Tiers)
           /\ merge_cond' \in Seq(MergeThreads)
           /\ CondQueue'
           /\ jobs' \in [MergeThreads -> JobType]
           /\ \A n \in MergeThreads :
                 \/ jobs'[n] = [jobs EXCEPT ![m] = Looking][n]
                 \/ jobs'[n] = Looking /\ [jobs EXCEPT ![m] = Looking][n].at = "wait"
        <2> DEFINE first == IF Overfull(added, t) THEN <<t>> ELSE <<>>
                   reqs == first \o q
                   jb == [jobs EXCEPT ![m] = Looking]
        <2>1. first \in Seq(Tiers)
            BY <1>3
        <2>2. q \in Seq(Tiers)
            BY <1>4, RemoveRequestsType
        <2> HIDE DEF first
        <2>3. reqs \in Seq(Tiers)
            BY <2>1, <2>2, ConcatProperties
        <2>4. Looking \in JobType
            BY DEF Looking, JobType, NoCounts
        <2>5. jb \in [MergeThreads -> JobType]
            BY <1>4, <2>4
        <2>6. Request(reqs, jb)
            BY <1>2 DEF first
        <2>7. \A i \in DOMAIN merge_cond : merge_cond[i] \in MergeThreads
            BY LenProperties, ElementOfSeq DEF SliceInv, TypeOK
        <2>8. \A i \in DOMAIN merge_cond : jobs[merge_cond[i]].at = "wait"
            BY DEF SliceInv, CondQueue
        <2>9. \A i \in DOMAIN merge_cond : merge_cond[i] # m
            BY <1>4, <2>8 DEF Busy
        <2>10. \A i \in DOMAIN merge_cond : jb[merge_cond[i]].at = "wait"
            BY <1>4, <2>7, <2>8, <2>9
        <2>11. TypeOK /\ CondQueue
            BY DEF SliceInv
        <2> HIDE DEF reqs, jb
        <2>12. /\ merge_requests' \in Seq(Tiers)
               /\ merge_cond' \in Seq(MergeThreads)
               /\ CondQueue'
               /\ jobs' \in [MergeThreads -> JobType]
               /\ \A n \in MergeThreads :
                     jobs'[n] = jb[n] \/ (jobs'[n] = Looking /\ jb[n].at = "wait")
            BY <2>3, <2>5, <2>6, <2>10, <2>11, RequestJobs
        <2> QED BY <2>12 DEF jb
    <1>20. jobs'[m] = Looking
        BY <1>4, <1>19
    <1>21. \A n \in MergeThreads \ {m} :
              jobs'[n] = jobs[n] \/ (jobs'[n] = Looking /\ jobs[n].at = "wait")
        BY <1>4, <1>19
    <1>22. /\ freed' = unlinked \ Referenced(m_tier_map', jobs', readers)
           /\ contents' \in Seq(SUBSET Entry)
           /\ DOMAIN contents' = DOMAIN stored
           /\ \A s \in DOMAIN stored :
                 s \in Referenced(m_tier_map', jobs', readers) => contents'[s] = stored[s]
           /\ \A s \in DOMAIN stored : contents'[s] \subseteq stored[s]
        <2>1. Reap(Referenced(m_tier_map', jobs', readers), unlinked, stored)
            BY <1>1
        <2> QED BY <1>6, <2>1, ReapShape
    <1>23. new \in Referenced(m_tier_map', jobs', readers)
        BY <1>4, <1>6, <1>17 DEF Referenced
    <1>24. contents'[new] = Target(job)
        BY <1>6, <1>22, <1>23
    <1>25. \A s \in DOMAIN contents :
              /\ contents'[s] \subseteq contents[s]
              /\ s \in Referenced(m_tier_map', jobs', readers) => contents'[s] = contents[s]
        BY <1>6, <1>22
    <1> QED BY <1>6, <1>8, <1>16, <1>17, <1>18, <1>19, <1>20, <1>21, <1>22, <1>24, <1>25
            DEF new, get_slices

LEMMA SliceFinish ==
    ASSUME SliceInv, NEW m \in MergeThreads, Finish(m)
    PROVE  SliceInv'
    <1> DEFINE new == Len(contents) + 1
    <1>1. /\ contents' \in Seq(SUBSET Entry)
          /\ DOMAIN contents' = DOMAIN contents \cup {new} /\ new \notin DOMAIN contents
          /\ m_tier_map' \in [Tiers -> Seq(DOMAIN contents')]
          /\ get_slices \subseteq DOMAIN contents
          /\ get_slices' = (get_slices \cup {new}) \ jobs[m].sources
          /\ Distinct(m_tier_map')
          /\ \A n \in MergeThreads \ {m} :
                Busy(n) => /\ Within(m_tier_map', jobs[n].counts)
                           /\ Taken(m_tier_map', jobs[n].counts)
                              = Taken(m_tier_map, jobs[n].counts)
          /\ merge_requests' \in Seq(Tiers)
          /\ merge_cond' \in Seq(MergeThreads)
          /\ CondQueue'
          /\ jobs' \in [MergeThreads -> JobType]
          /\ jobs'[m] = Looking
          /\ \A n \in MergeThreads \ {m} :
                jobs'[n] = jobs[n] \/ (jobs'[n] = Looking /\ jobs[n].at = "wait")
          /\ freed' = unlinked \ Referenced(m_tier_map', jobs', readers)
        BY FinishShape
    <1>2. /\ Busy(m)
          /\ tier_locks' = IF jobs[m].at = "merge" THEN tier_locks \ jobs[m].scope
                                                   ELSE tier_locks
          /\ UNCHANGED <<idx, writers, unlinked, readers, dropped, double_unlink, committed>>
        BY DEF Finish
    <1> HIDE DEF new
    <1>3. Looking.sources = {} /\ Looking.at = "look"
        BY DEF Looking
    <1>4. \A n \in MergeThreads \ {m} :
             jobs'[n] = jobs[n] \/ (jobs'[n] = Looking /\ jobs[n].sources = {})
        <2>1. \A n \in MergeThreads : jobs[n].at = "wait" => jobs[n].sources = {}
            BY DEF SliceInv, CapturedInFront, Busy
        <2> QED BY <1>1, <2>1
    <1>5. \A n \in MergeThreads :
             jobs'[n].at \in {"merge", "compact"} => n # m /\ jobs'[n] = jobs[n] /\ Busy(n)
        BY <1>1, <1>3, <1>4 DEF Busy
    <1>6. TypeOK'
        <2>1. JobType \subseteq JobType'
            BY <1>1 DEF JobType
        <2>2. jobs' \in [MergeThreads -> JobType']
            BY <1>1, <2>1
        <2>3. readers' \in [Readers -> SUBSET (DOMAIN contents')]
            BY <1>1, <1>2 DEF SliceInv, TypeOK
        <2>4. tier_locks' \subseteq Tiers /\ unlinked' \subseteq DOMAIN contents' /\ freed' \subseteq unlinked'
            BY <1>1, <1>2 DEF SliceInv, TypeOK
        <2>5. /\ idx' \in Nat /\ writers' \in [Writers -> SUBSET Entry]
              /\ dropped' \in BOOLEAN /\ double_unlink' \in BOOLEAN /\ committed' \subseteq Entry
            BY <1>2 DEF SliceInv, TypeOK
        <2> QED BY <1>1, <2>2, <2>3, <2>4, <2>5 DEF TypeOK
    <1>7. CapturedInFront'
        <2> SUFFICES ASSUME NEW n \in MergeThreads
                     PROVE  /\ jobs'[n].at \in {"merge", "compact"} =>
                                  /\ Within(m_tier_map', jobs'[n].counts)
                                  /\ jobs'[n].sources = Taken(m_tier_map', jobs'[n].counts)
                                  /\ jobs'[n].sources \subseteq unlinked'
                            /\ jobs'[n].at \notin {"merge", "compact"} => jobs'[n].sources = {}
            BY DEF CapturedInFront, Busy
        <2>1. CASE jobs'[n].at \in {"merge", "compact"}
            <3>1. n # m /\ jobs'[n] = jobs[n] /\ Busy(n)
                BY <1>5, <2>1
            <3> QED BY <1>1, <1>2, <2>1, <3>1 DEF SliceInv, CapturedInFront
        <2>2. CASE jobs'[n].at \notin {"merge", "compact"}
            <3>1. CASE n = m
                BY <1>1, <1>3, <2>2, <3>1
            <3>2. CASE n # m
                BY <1>3, <1>4, <2>2, <3>2 DEF SliceInv, CapturedInFront, Busy
            <3> QED BY <3>1, <3>2
        <2> QED BY <2>1, <2>2
    <1>8. JobScopes'
        <2>1. ASSUME NEW n \in MergeThreads
              PROVE  /\ jobs'[n].at = "merge" =>
                           /\ jobs'[n].scope \subseteq tier_locks'
                           /\ \A t \in Tiers \ jobs'[n].scope : jobs'[n].counts[t] = 0
                     /\ jobs'[n].at = "compact" => Compacting
            <3> SUFFICES ASSUME jobs'[n].at \in {"merge", "compact"}
                         PROVE  /\ jobs'[n].at = "merge" =>
                                      /\ jobs'[n].scope \subseteq tier_locks'
                                      /\ \A t \in Tiers \ jobs'[n].scope : jobs'[n].counts[t] = 0
                                /\ jobs'[n].at = "compact" => Compacting
                OBVIOUS
            <3>1. n # m /\ jobs'[n] = jobs[n] /\ Busy(n)
                BY <1>5
            <3>2. jobs[n].scope \cap jobs[m].scope = {}
                BY <1>2, <3>1 DEF SliceInv, JobScopes
            <3> QED BY <1>2, <3>1, <3>2 DEF SliceInv, JobScopes
        <2>2. ASSUME NEW n \in MergeThreads, NEW l \in MergeThreads,
                     jobs'[n].at \in {"merge", "compact"}, jobs'[l].at \in {"merge", "compact"},
                     n # l
              PROVE  jobs'[n].scope \cap jobs'[l].scope = {}
            <3>1. jobs'[n] = jobs[n] /\ Busy(n) /\ jobs'[l] = jobs[l] /\ Busy(l)
                BY <1>5, <2>2
            <3> QED BY <2>2, <3>1 DEF SliceInv, JobScopes
        <2> QED BY <2>1, <2>2 DEF JobScopes, Busy
    <1>9. UnlinkedSlices'
        <2>1. /\ unlinked' = unlinked /\ unlinked \subseteq DOMAIN contents
              /\ jobs[m].sources \subseteq unlinked
            BY <1>2 DEF SliceInv, TypeOK, CapturedInFront
        <2>2. ASSUME NEW s \in unlinked', s \in get_slices'
              PROVE  \E n \in MergeThreads : s \in jobs'[n].sources
            <3>1. s \in get_slices /\ s \notin jobs[m].sources
                BY <1>1, <2>1, <2>2
            <3>2. PICK n \in MergeThreads : s \in jobs[n].sources
                BY <2>1, <3>1 DEF SliceInv, UnlinkedSlices
            <3>3. jobs'[n] = jobs[n]
                BY <1>4, <3>1, <3>2
            <3> QED BY <3>2, <3>3
        <2>3. ASSUME NEW s \in DOMAIN contents' PROVE s \in unlinked' \cup get_slices'
            BY <1>1, <2>1, <2>3 DEF SliceInv, UnlinkedSlices
        <2> QED BY <2>2, <2>3 DEF UnlinkedSlices
    <1>10. FreedSlices'
        BY <1>1, <1>2 DEF FreedSlices
    <1> QED BY <1>1, <1>2, <1>6, <1>7, <1>8, <1>9, <1>10
            DEF SliceInv, SlicesDistinct, UnlinkedOnce

\* Every step preserves SliceInv.
LEMMA SliceNext == SliceInv /\ [Next]_vars => SliceInv'
    <1> SUFFICES ASSUME SliceInv, [Next]_vars PROVE SliceInv'
        OBVIOUS
    <1>1. ASSUME NEW w \in Writers, NEW batch \in Batches, Begin(w, batch) PROVE SliceInv'
        BY <1>1, SliceBegin
    <1>2. ASSUME NEW w \in Writers, Commit(w) PROVE SliceInv'
        BY <1>2, SliceCommit
    <1>3. ASSUME NEW w \in Writers, Rollback(w) PROVE SliceInv'
        BY <1>3, SliceRollback
    <1>4. ASSUME NEW r \in Readers, Open(r) PROVE SliceInv'
        BY <1>4, SliceOpen
    <1>5. ASSUME NEW r \in Readers, Close(r) PROVE SliceInv'
        BY <1>5, SliceClose
    <1>6. CASE Drop
        BY <1>6, SliceDrop
    <1>7. ASSUME NEW m \in MergeThreads, MergeStart(m) PROVE SliceInv'
        BY <1>7, SliceMergeStart
    <1>8. ASSUME NEW m \in MergeThreads, MergeSkip(m) PROVE SliceInv'
        BY <1>8, SliceMergeSkip
    <1>9. ASSUME NEW m \in MergeThreads, MergeWait(m) PROVE SliceInv'
        BY <1>9, SliceMergeWait
    <1>10. ASSUME NEW m \in MergeThreads, Finish(m) PROVE SliceInv'
        BY <1>10, SliceFinish
    <1>11. ASSUME NEW m \in Compactors, CompactStart(m) PROVE SliceInv'
        BY <1>11, SliceCompactStart, CompactorMerges
    <1>12. CASE UNCHANGED vars
        BY <1>12 DEF vars, SliceInv, TypeOK, JobType, SlicesDistinct, CapturedInFront, JobScopes,
                     Busy, UnlinkedSlices, get_slices, FreedSlices, CondQueue, UnlinkedOnce
    <1> QED BY <1>1, <1>2, <1>3, <1>4, <1>5, <1>6, <1>7, <1>8, <1>9, <1>10, <1>11, <1>12
            DEF Next, MergeStep

\* SliceInv holds in every reachable state.
THEOREM SlicesConsistent == Spec => []SliceInv
    BY SliceInit, SliceNext, PTL DEF Spec

\* The state of a ushard has its types, for every number of threads and updates.
THEOREM UshardTypes == Spec => []TypeOK
    <1>1. SliceInv => TypeOK
        BY DEF SliceInv
    <1> QED BY <1>1, SlicesConsistent, PTL

\* slice::unlink never finds m_unlink already set (tyrdbs/slice.cpp): merges on
\* different tiers, a compaction and ~ushard never take the same slice.
THEOREM NoSliceUnlinkedTwice == Spec => []UnlinkedOnce
    <1>1. SliceInv => UnlinkedOnce
        BY DEF SliceInv
    <1> QED BY <1>1, SlicesConsistent, PTL

\* ~slice gives the pages back exactly when the tier map, the merges and the
\* iterators have all let go of the slice.
THEOREM PagesFreedInTime == Spec => []FreedIffUnreferenced
    <1>1. SliceInv => FreedIffUnreferenced
        <2> SUFFICES ASSUME SliceInv, NEW s \in DOMAIN contents
                     PROVE  s \in freed <=> s \notin Referenced(m_tier_map, jobs, readers)
            BY DEF FreedIffUnreferenced
        <2>1. freed = unlinked \ Referenced(m_tier_map, jobs, readers)
            BY DEF SliceInv, FreedSlices
        <2>2. s \in unlinked \cup get_slices
            BY DEF SliceInv, UnlinkedSlices
        <2>3. get_slices \subseteq Referenced(m_tier_map, jobs, readers)
            BY DEF get_slices, Referenced
        <2> QED BY <2>1, <2>2, <2>3
    <1> QED BY <1>1, SlicesConsistent, PTL

-----------------------------------------------------------------------------
(* No overfull tier is forgotten. *)

\* A tier is asked for in a queue of requests.
Requested(reqs, t) == \E i \in DOMAIN reqs : reqs[i] = t

\* Requests that are queued stay queued when others are appended, and the
\* appended ones are queued.
LEMMA RequestedConcat ==
    ASSUME NEW q \in Seq(Tiers), NEW r \in Seq(Tiers), NEW t
    PROVE  Requested(q \o r, t) <=> Requested(q, t) \/ Requested(r, t)
    <1>1. /\ q \o r \in Seq(Tiers)
          /\ Len(q \o r) = Len(q) + Len(r)
          /\ \A i \in 1 .. Len(q) + Len(r) :
                (q \o r)[i] = IF i <= Len(q) THEN q[i] ELSE r[i - Len(q)]
        BY ConcatProperties
    <1>2. /\ DOMAIN (q \o r) = 1 .. Len(q) + Len(r)
          /\ DOMAIN q = 1 .. Len(q) /\ DOMAIN r = 1 .. Len(r)
          /\ Len(q) \in Nat /\ Len(r) \in Nat
        BY <1>1, LenProperties
    <1> DEFINE c == q \o r
    <1> HIDE DEF c
    <1>3. ASSUME Requested(c, t) PROVE Requested(q, t) \/ Requested(r, t)
        <2>1. PICK i \in 1 .. Len(q) + Len(r) : c[i] = t
            BY <1>2, <1>3 DEF Requested, c
        <2>2. CASE i <= Len(q)
            BY <1>1, <1>2, <2>1, <2>2 DEF Requested, c
        <2>3. CASE i > Len(q)
            <3>1. i - Len(q) \in 1 .. Len(r) /\ r[i - Len(q)] = t
                BY <1>1, <1>2, <2>1, <2>3 DEF c
            <3> QED BY <1>2, <3>1 DEF Requested
        <2> QED BY <1>2, <2>2, <2>3
    <1>4. ASSUME Requested(q, t) PROVE Requested(c, t)
        <2>1. PICK i \in 1 .. Len(q) : q[i] = t
            BY <1>2, <1>4 DEF Requested
        <2>2. i \in 1 .. Len(q) + Len(r) /\ i <= Len(q)
            BY <1>2
        <2> QED BY <1>1, <1>2, <2>1, <2>2 DEF Requested, c
    <1>5. ASSUME Requested(r, t) PROVE Requested(c, t)
        <2>1. PICK i \in 1 .. Len(r) : r[i] = t
            BY <1>2, <1>5 DEF Requested
        <2>2. /\ i + Len(q) \in 1 .. Len(q) + Len(r) /\ ~(i + Len(q) <= Len(q))
              /\ (i + Len(q)) - Len(q) = i
            BY <1>2
        <2> QED BY <1>1, <1>2, <2>1, <2>2 DEF Requested, c
    <1> QED BY <1>3, <1>4, <1>5 DEF c

\* Taking the first request loses no other.
LEMMA RequestedTail ==
    ASSUME NEW q \in Seq(Tiers), q # <<>>, NEW t, Requested(q, t), t # Head(q)
    PROVE  Requested(Tail(q), t)
    <1>1. /\ DOMAIN q = 1 .. Len(q) /\ Len(q) \in Nat
          /\ Tail(q) \in Seq(Tiers) /\ Len(Tail(q)) = Len(q) - 1
          /\ \A i \in 1 .. Len(Tail(q)) : Tail(q)[i] = q[i + 1]
          /\ Head(q) = q[1]
        BY HeadTailProperties, LenProperties
    <1>2. PICK i \in 1 .. Len(q) : q[i] = t
        BY <1>1 DEF Requested
    <1>3. i - 1 \in 1 .. Len(Tail(q)) /\ (i - 1) + 1 = i
        BY <1>1, <1>2
    <1>4. DOMAIN Tail(q) = 1 .. Len(Tail(q))
        BY <1>1, LenProperties
    <1> QED BY <1>1, <1>2, <1>3, <1>4 DEF Requested

\* remove_from asks for every tier of its scope that is still overfull.
LEMMA RemoveRequestsAll ==
    ASSUME NEW tm, NEW scope \in SUBSET Tiers, NEW q \in RemoveRequests(tm, scope),
           NEW t \in scope, Overfull(tm, t)
    PROVE  Requested(q, t)
    BY DEF RemoveRequests, Requested

\* The end of a job, which unlocks the tiers of its scope: adding the result
\* asks for the tier that it makes overfull, removing for the tiers of the scope.
LEMMA OverfullFinish ==
    ASSUME SliceInv, OverfullIsScheduled, NEW m \in MergeThreads, Finish(m)
    PROVE  OverfullIsScheduled'
    <1> DEFINE new == Len(contents) + 1
               job == jobs[m]
    <1>1. PICK t \in tier_of(Target(job)) :
             LET added == Added(m_tier_map, t, new)
             IN  /\ m_tier_map' = Removed(added, job.counts)
                 /\ \E q \in RemoveRequests(m_tier_map', job.scope) :
                       Request((IF Overfull(added, t) THEN <<t>> ELSE <<>>) \o q,
                               [jobs EXCEPT ![m] = Looking])
                 /\ tier_locks' = IF job.at = "merge" THEN tier_locks \ job.scope
                                                      ELSE tier_locks
        BY DEF Finish
    <1> DEFINE added == Added(m_tier_map, t, new)
               first == IF Overfull(added, t) THEN <<t>> ELSE <<>>
    <1>2. PICK q \in RemoveRequests(m_tier_map', job.scope) :
             merge_requests' = merge_requests \o (first \o q)
        BY <1>1 DEF Request
    <1>3. t \in Tiers
        BY TierOfTiers
    <1>4. /\ job.counts \in [Tiers -> Nat] /\ job.scope \in SUBSET Tiers
          /\ Within(m_tier_map, job.counts)
          /\ merge_requests \in Seq(Tiers)
        BY DEF SliceInv, TypeOK, JobType, Finish, CapturedInFront
    <1> DEFINE D == DOMAIN contents \cup {new}
    <1>5. m_tier_map \in [Tiers -> Seq(D)]
        <2> SUFFICES ASSUME NEW u \in Tiers PROVE m_tier_map[u] \in Seq(D)
            BY DEF SliceInv, TypeOK
        <2>1. m_tier_map[u] \in Seq(DOMAIN contents)
            BY DEF SliceInv, TypeOK
        <2> QED BY <2>1, SeqMonotonic
    <1> HIDE DEF new, job
    <1>6. new \in D
        OBVIOUS
    <1> HIDE DEF D
    <1>7. /\ added \in [Tiers -> Seq(D)]
          /\ \A u \in Tiers \ {t} : added[u] = m_tier_map[u]
          /\ Len(added[t]) = Len(m_tier_map[t]) + 1
        BY <1>3, <1>5, <1>6, AddedShape
    <1>8. Within(added, job.counts)
        BY <1>3, <1>4, <1>5, <1>6, AddedSlices
    <1> HIDE DEF added
    <1>9. \A u \in Tiers : Len(m_tier_map'[u]) = Len(added[u]) - job.counts[u]
        <2>1. m_tier_map' = Removed(added, job.counts)
            BY <1>1 DEF added
        <2>2. added \in [Tiers -> Seq(D)] /\ job.counts \in [Tiers -> Nat]
            BY <1>4, <1>7
        <2>3. \A u \in Tiers : Len(Removed(added, job.counts)[u]) = Len(added[u]) - job.counts[u]
            BY <1>8, <2>2, RemovedShape, SMTT(30)
        <2> QED BY <2>1, <2>3
    <1>10. \A u \in Tiers : /\ Len(added[u]) \in Nat /\ Len(m_tier_map[u]) \in Nat
                            /\ job.counts[u] \in Nat
        BY <1>4, <1>5, <1>7, LenProperties
    <1>11. first \in Seq(Tiers) /\ q \in Seq(Tiers)
        BY <1>3, <1>4, RemoveRequestsType
    <1>12. first \o q \in Seq(Tiers)
        BY <1>11, ConcatProperties
    <1>13. \A u \in Tiers :
              Requested(merge_requests', u) <=>
                  Requested(merge_requests, u) \/ Requested(first, u) \/ Requested(q, u)
        BY <1>2, <1>4, <1>11, <1>12, RequestedConcat
    <1> SUFFICES ASSUME NEW u \in Tiers, Overfull(m_tier_map', u)
                 PROVE  u \in tier_locks' \/ Requested(merge_requests', u)
        BY DEF OverfullIsScheduled, Requested
    <1>14. Overfull(added, u)
        BY <1>9, <1>10, MaxSlicesAssumption DEF Overfull
    <1>15. CASE u = t
        <2>1. Requested(first, u)
            BY <1>14, <1>15 DEF Requested
        <2> QED BY <1>13, <2>1
    <1>16. CASE u # t
        <2>1. Overfull(m_tier_map, u)
            BY <1>7, <1>14, <1>16 DEF Overfull
        <2>2. CASE Requested(merge_requests, u)
            BY <1>13, <2>2
        <2>3. CASE u \in tier_locks /\ u \notin tier_locks'
            <3>1. u \in job.scope
                BY <1>1, <2>3 DEF job
            <3>2. Requested(q, u)
                BY <1>4, <3>1, RemoveRequestsAll
            <3> QED BY <1>13, <3>2
        <2> QED BY <2>1, <2>2, <2>3 DEF OverfullIsScheduled, Requested
    <1> QED BY <1>15, <1>16

\* An add asks for the tier that it makes overfull.
LEMMA OverfullCommit ==
    ASSUME SliceInv, OverfullIsScheduled, NEW w \in Writers, Commit(w)
    PROVE  OverfullIsScheduled'
    <1> DEFINE new == Len(contents) + 1
               D == DOMAIN contents \cup {new}
    <1>1. PICK t \in tier_of(writers[w]) :
             /\ m_tier_map' = Added(m_tier_map, t, new)
             /\ merge_requests' =
                    merge_requests \o (IF Overfull(m_tier_map', t) THEN <<t>> ELSE <<>>)
             /\ tier_locks' = tier_locks
        BY DEF Commit, Request
    <1> DEFINE reqs == IF Overfull(m_tier_map', t) THEN <<t>> ELSE <<>>
    <1>2. t \in Tiers /\ merge_requests \in Seq(Tiers)
        BY TierOfTiers DEF SliceInv, TypeOK
    <1>3. m_tier_map \in [Tiers -> Seq(D)]
        <2> SUFFICES ASSUME NEW u \in Tiers PROVE m_tier_map[u] \in Seq(D)
            BY DEF SliceInv, TypeOK
        <2>1. m_tier_map[u] \in Seq(DOMAIN contents)
            BY DEF SliceInv, TypeOK
        <2> QED BY <2>1, SeqMonotonic
    <1>4. new \in D
        OBVIOUS
    <1> HIDE DEF D, new
    <1>5. \A u \in Tiers \ {t} : m_tier_map'[u] = m_tier_map[u]
        BY <1>1, <1>2, <1>3, <1>4, AddedShape
    <1>6. reqs \in Seq(Tiers)
        BY <1>2
    <1>7. \A u \in Tiers : Requested(merge_requests', u) <=>
                              Requested(merge_requests, u) \/ Requested(reqs, u)
        BY <1>1, <1>2, <1>6, RequestedConcat
    <1> SUFFICES ASSUME NEW u \in Tiers, Overfull(m_tier_map', u)
                 PROVE  u \in tier_locks' \/ Requested(merge_requests', u)
        BY DEF OverfullIsScheduled, Requested
    <1>8. CASE u = t
        <2>1. Requested(reqs, u)
            BY <1>8 DEF Requested
        <2> QED BY <1>7, <2>1
    <1>9. CASE u # t
        BY <1>1, <1>5, <1>7, <1>9 DEF OverfullIsScheduled, Requested, Overfull
    <1> QED BY <1>8, <1>9

\* A request is taken only to lock its tier, or when the tier is locked or not
\* overfull.
LEMMA OverfullTake ==
    ASSUME SliceInv, OverfullIsScheduled, NEW m \in MergeThreads,
           MergeStart(m) \/ MergeSkip(m)
    PROVE  OverfullIsScheduled'
    <1> DEFINE h == Head(merge_requests)
    <1>1. /\ merge_requests \in Seq(Tiers) /\ merge_requests # <<>>
          /\ merge_requests' = Tail(merge_requests)
          /\ m_tier_map' = m_tier_map
          /\ tier_locks \subseteq tier_locks'
          /\ h \in tier_locks' \/ ~Overfull(m_tier_map, h)
        BY DEF MergeStart, MergeSkip, SliceInv, TypeOK
    <1> HIDE DEF h
    <1> SUFFICES ASSUME NEW u \in Tiers, Overfull(m_tier_map, u), u \notin tier_locks'
                 PROVE  Requested(merge_requests', u)
        BY <1>1 DEF OverfullIsScheduled, Requested
    <1>2. Requested(merge_requests, u)
        BY <1>1 DEF OverfullIsScheduled, Requested
    <1>3. u # Head(merge_requests)
        BY <1>1 DEF h
    <1> QED BY <1>1, <1>2, <1>3, RequestedTail

\* Every step keeps OverfullIsScheduled.
LEMMA OverfullNext == SliceInv /\ OverfullIsScheduled /\ [Next]_vars => OverfullIsScheduled'
    <1> SUFFICES ASSUME SliceInv, OverfullIsScheduled, [Next]_vars
                 PROVE  OverfullIsScheduled'
        OBVIOUS
    <1>0. ASSUME UNCHANGED <<m_tier_map, merge_requests, tier_locks>>
          PROVE  OverfullIsScheduled'
        BY <1>0 DEF OverfullIsScheduled
    <1>1. ASSUME NEW w \in Writers, NEW batch \in Batches, Begin(w, batch)
          PROVE  OverfullIsScheduled'
        BY <1>0, <1>1 DEF Begin
    <1>2. ASSUME NEW w \in Writers, Commit(w) PROVE OverfullIsScheduled'
        BY <1>2, OverfullCommit
    <1>3. ASSUME NEW w \in Writers, Rollback(w) PROVE OverfullIsScheduled'
        BY <1>0, <1>3 DEF Rollback
    <1>4. ASSUME NEW r \in Readers, Open(r) \/ Close(r) PROVE OverfullIsScheduled'
        BY <1>0, <1>4 DEF Open, Close
    <1>5. CASE Drop
        <2>1. \A t \in Tiers : Len(m_tier_map'[t]) = 0
            BY <1>5 DEF Drop
        <2> QED BY <2>1, MaxSlicesAssumption DEF OverfullIsScheduled, Overfull
    <1>6. ASSUME NEW m \in MergeThreads, MergeStart(m) \/ MergeSkip(m)
          PROVE  OverfullIsScheduled'
        BY <1>6, OverfullTake
    <1>7. ASSUME NEW m \in MergeThreads, MergeWait(m) \/ CompactStart(m)
          PROVE  OverfullIsScheduled'
        BY <1>0, <1>7 DEF MergeWait, CompactStart
    <1>8. ASSUME NEW m \in MergeThreads, Finish(m) PROVE OverfullIsScheduled'
        BY <1>8, OverfullFinish
    <1>9. CASE UNCHANGED vars
        BY <1>0, <1>9 DEF vars
    <1> QED BY <1>1, <1>2, <1>3, <1>4, <1>5, <1>6, <1>7, <1>8, <1>9, CompactorMerges
              DEF Next, MergeStep

\* Although merge_thread drops requests for locked tiers, an overfull tier is
\* always locked or asked for: unlocking it after a merge, remove_from asks again
\* (ushard::remove_from, merge_thread), for every number of merge threads.
THEOREM NoOverfullTierForgotten == Spec => []OverfullIsScheduled
    <1>1. Init => OverfullIsScheduled
        <2>1. Init => \A t \in Tiers : Len(m_tier_map[t]) = 0
            BY DEF Init
        <2> QED BY <2>1, MaxSlicesAssumption DEF OverfullIsScheduled, Overfull
    <1> QED BY <1>1, OverfullNext, SlicesConsistent, PTL DEF Spec


(***************************************************************************)
(* The entries: EntryInv is inductive, and Store is implemented.           *)
(***************************************************************************)

(* The entries of the slices. *)

\* What the slices in the tier map and those of the jobs hold is referenced.
LEMMA HeldIsReferenced ==
    /\ get_slices \subseteq Referenced(m_tier_map, jobs, readers)
    /\ \A m \in MergeThreads : jobs[m].sources \subseteq Referenced(m_tier_map, jobs, readers)
    BY DEF Referenced, get_slices

\* Slices that keep their contents keep their entries.
LEMMA EntriesSame ==
    ASSUME NEW X, \A s \in X : contents'[s] = contents[s]
    PROVE  UNION {contents'[s] : s \in X} = EntriesOf(X)
    BY DEF EntriesOf

\* A job has captured slices of the tier map.
LEMMA SourcesInMap ==
    ASSUME SliceInv, NEW m \in MergeThreads, Busy(m)
    PROVE  jobs[m].sources \subseteq get_slices
    <1>1. /\ jobs[m].sources = Taken(m_tier_map, jobs[m].counts)
          /\ Within(m_tier_map, jobs[m].counts)
          /\ jobs[m].counts \in [Tiers -> Nat]
          /\ m_tier_map \in [Tiers -> Seq(DOMAIN contents)]
        BY DEF SliceInv, CapturedInFront, TypeOK, JobType
    <1> SUFFICES ASSUME NEW s \in jobs[m].sources PROVE s \in get_slices
        OBVIOUS
    <1> DEFINE c == jobs[m].counts
    <1>2. PICK t \in Tiers : \E i \in 1 .. c[t] : m_tier_map[t][i] = s
        <2>1. c \in [Tiers -> Nat] /\ Within(m_tier_map, c) /\ s \in Taken(m_tier_map, c)
            BY <1>1
        <2> HIDE DEF c
        <2> DEFINE d == c
        <2>2. s \in Taken(m_tier_map, d)
            BY <2>1
        <2> HIDE DEF d
        <2>3. \E t \in Tiers : \E i \in 1 .. d[t] : m_tier_map[t][i] = s
            BY <2>2, TakenMember
        <2> QED BY <2>3 DEF d
    <1>3. PICK i \in 1 .. jobs[m].counts[t] : m_tier_map[t][i] = s
        BY <1>2
    <1>4. i \in 1 .. Len(m_tier_map[t])
        <2>1. /\ jobs[m].counts[t] <= Len(m_tier_map[t]) /\ jobs[m].counts[t] \in Nat
              /\ Len(m_tier_map[t]) \in Nat
            BY <1>1, LenProperties DEF Within
        <2> QED BY <2>1
    <1> QED BY <1>1, <1>3, <1>4, SlicesOfMember DEF get_slices

-----------------------------------------------------------------------------
(* NumberedOnce. *)

\* An entry of an update is determined by its key.
LEMMA RecordFields ==
    ASSUME NEW K, NEW n, NEW b, NEW e \in [key : K, idx : {n}, deleted : {b}]
    PROVE  /\ e = [key |-> e.key, idx |-> n, deleted |-> b]
           /\ e.key \in K /\ e.idx = n
    <1>1. PICK k \in K : e = [key |-> k, idx |-> n, deleted |-> b]
        <2>1. e = [key |-> e.key, idx |-> e.idx, deleted |-> e.deleted]
            OBVIOUS
        <2>2. e.key \in K /\ e.idx \in {n} /\ e.deleted \in {b}
            OBVIOUS
        <2> QED BY <2>1, <2>2
    <1> QED BY <1>1

\* Fewer entries are numbered as well.
LEMMA NumberedFewer ==
    ASSUME NumberedOnce, AllEntries' \subseteq AllEntries, idx' = idx
    PROVE  NumberedOnce'
    BY DEF NumberedOnce

LEMMA NumberedBegin ==
    ASSUME SliceInv, NumberedOnce, NEW w \in Writers, NEW batch \in Batches, Begin(w, batch)
    PROVE  NumberedOnce'
    <1> DEFINE U == Update(idx + 1, batch.puts, batch.dels)
    <1>1. /\ idx \in Nat /\ idx' = idx + 1 /\ committed' = committed
          /\ writers \in [Writers -> SUBSET Entry]
          /\ writers' = [writers EXCEPT ![w] = U]
        BY DEF Begin, SliceInv, TypeOK
    <1>2. AllEntries \subseteq Entry
        BY DEF SliceInv, TypeOK, AllEntries
    <1>3. \A e \in AllEntries : e.idx \in Nat
        BY <1>2 DEF Entry
    <1>4. /\ \A e \in U : e.idx = idx + 1
          /\ \A e, f \in U : e.key = f.key => e = f
        <2>1. batch.puts \cap batch.dels = {}
            BY BatchesAssumption
        <2>2. \A e \in U : /\ e.idx = idx + 1
                           /\ e = [key |-> e.key, idx |-> idx + 1, deleted |-> e.deleted]
                           /\ \/ e.key \in batch.puts /\ e.deleted = FALSE
                              \/ e.key \in batch.dels /\ e.deleted = TRUE
            <3> DEFINE P == [key : batch.puts, idx : {idx + 1}, deleted : {FALSE}]
                       D == [key : batch.dels, idx : {idx + 1}, deleted : {TRUE}]
            <3>1. \A e \in U : e \in P \/ e \in D
                BY DEF Update
            <3>2. \A e \in P : /\ e = [key |-> e.key, idx |-> idx + 1, deleted |-> FALSE]
                               /\ e.key \in batch.puts /\ e.idx = idx + 1
                <4> SUFFICES ASSUME NEW e \in [key : batch.puts, idx : {idx + 1}, deleted : {FALSE}]
                             PROVE  /\ e = [key |-> e.key, idx |-> idx + 1, deleted |-> FALSE]
                                    /\ e.key \in batch.puts /\ e.idx = idx + 1
                    OBVIOUS
                <4> QED BY RecordFields, Zenon
            <3>3. \A e \in D : /\ e = [key |-> e.key, idx |-> idx + 1, deleted |-> TRUE]
                               /\ e.key \in batch.dels /\ e.idx = idx + 1
                <4> SUFFICES ASSUME NEW e \in [key : batch.dels, idx : {idx + 1}, deleted : {TRUE}]
                             PROVE  /\ e = [key |-> e.key, idx |-> idx + 1, deleted |-> TRUE]
                                    /\ e.key \in batch.dels /\ e.idx = idx + 1
                    OBVIOUS
                <4> QED BY RecordFields, Zenon
            <3> HIDE DEF P, D, U
            <3> QED BY <3>1, <3>2, <3>3
        <2> HIDE DEF U
        <2>3. ASSUME NEW e \in U, NEW f \in U, e.key = f.key PROVE e = f
            <3>1. e.deleted = f.deleted
                BY <2>1, <2>2, <2>3, ZenonT(40)
            <3> QED BY <2>2, <2>3, <3>1
        <2> QED BY <2>2, <2>3
    <1> HIDE DEF U
    <1>5. \A e \in AllEntries' : e \in AllEntries \/ e \in U
        BY <1>1 DEF AllEntries
    <1>6. ASSUME NEW e \in AllEntries' PROVE e.idx <= idx'
        BY <1>1, <1>3, <1>4, <1>5 DEF NumberedOnce
    <1>7. ASSUME NEW e \in AllEntries', NEW f \in AllEntries', e.key = f.key, e.idx = f.idx
          PROVE  e = f
        <2>1. CASE e \in AllEntries /\ f \in AllEntries
            BY <1>7, <2>1 DEF NumberedOnce
        <2>2. CASE e \in U /\ f \in U
            BY <1>4, <1>7, <2>2
        <2>3. CASE e \in U /\ f \in AllEntries
            BY <1>1, <1>3, <1>4, <1>7, <2>3 DEF NumberedOnce
        <2>4. CASE f \in U /\ e \in AllEntries
            BY <1>1, <1>3, <1>4, <1>7, <2>4 DEF NumberedOnce
        <2> QED BY <1>5, <2>1, <2>2, <2>3, <2>4
    <1> QED BY <1>6, <1>7 DEF NumberedOnce

-----------------------------------------------------------------------------
(* EntryInv is inductive: one lemma per action that changes what it speaks of. *)

\* A step that changes neither the updates nor the slices in the tier map nor
\* what the slices somebody holds contain.
LEMMA EntryQuiet ==
    ASSUME SliceInv, EntryInv,
           UNCHANGED <<idx, writers, committed, m_tier_map>>,
           \A s \in get_slices : contents'[s] = contents[s],
           \A m \in MergeThreads : jobs'[m].at = "compact" => jobs'[m] = jobs[m]
    PROVE  EntryInv'
    <1>1. get_slices' = get_slices
        BY DEF get_slices
    <1>2. EntriesOf(get_slices)' = EntriesOf(get_slices)
        BY <1>1 DEF EntriesOf
    <1>3. NumberedOnce'
        BY DEF EntryInv, NumberedOnce, AllEntries
    <1>4. CommittedKept'
        BY <1>2 DEF EntryInv, CommittedKept, Accounted
    <1>5. CommitsInOrder'
        <2> SUFFICES ASSUME Compacting
                     PROVE  /\ \A w \in Writers : \A e \in writers'[w], c \in committed' : c.idx < e.idx
                            /\ \A m \in MergeThreads :
                                  jobs'[m].at = "compact" =>
                                     \A e \in EntriesOf(jobs[m].sources)',
                                        f \in EntriesOf(get_slices \ jobs[m].sources)' : e.idx < f.idx
            BY DEF CommitsInOrder
        <2>1. \A w \in Writers : \A e \in writers'[w], c \in committed' : c.idx < e.idx
            BY DEF EntryInv, CommitsInOrder
        <2>2. ASSUME NEW m \in MergeThreads, jobs'[m].at = "compact",
                     NEW e \in EntriesOf(jobs[m].sources)',
                     NEW f \in EntriesOf(get_slices \ jobs[m].sources)'
              PROVE  e.idx < f.idx
            <3>1. jobs'[m] = jobs[m] /\ Busy(m) /\ jobs[m].at = "compact"
                BY <2>2 DEF Busy
            <3>2. jobs[m].sources \subseteq get_slices
                BY <3>1, SourcesInMap
            <3>3. e \in EntriesOf(jobs[m].sources)
                BY <2>2, <3>1, <3>2 DEF EntriesOf
            <3>4. f \in EntriesOf(get_slices \ jobs[m].sources)
                BY <1>1, <2>2, <3>1 DEF EntriesOf
            <3> QED BY <3>1, <3>3, <3>4 DEF EntryInv, CommitsInOrder
        <2> QED BY <2>1, <2>2
    <1> QED BY <1>3, <1>4, <1>5 DEF EntryInv

LEMMA EntryBegin ==
    ASSUME SliceInv, EntryInv, NEW w \in Writers, NEW batch \in Batches, Begin(w, batch)
    PROVE  EntryInv'
    <1> DEFINE U == Update(idx + 1, batch.puts, batch.dels)
    <1>1. /\ idx \in Nat /\ idx' = idx + 1
          /\ writers \in [Writers -> SUBSET Entry]
          /\ writers' = [writers EXCEPT ![w] = U]
          /\ committed \subseteq Entry
          /\ UNCHANGED <<contents, m_tier_map, jobs, committed>>
        BY DEF Begin, SliceInv, TypeOK
    <1>2. NumberedOnce'
        BY NumberedBegin DEF EntryInv
    <1>3. get_slices' = get_slices /\ EntriesOf(get_slices)' = EntriesOf(get_slices)
        BY <1>1 DEF get_slices, EntriesOf
    <1>4. CommittedKept'
        BY <1>1, <1>3 DEF EntryInv, CommittedKept, Accounted
    <1>5. ASSUME Compacting, NEW v \in Writers, NEW e \in writers'[v], NEW c \in committed
          PROVE  c.idx < e.idx
        <2>1. v = w /\ e \in U
            BY <1>1, <1>5, CompactingAloneAssumption
        <2>2. e.idx = idx + 1
            BY <2>1 DEF Update
        <2>3. c.idx <= idx /\ c.idx \in Nat
            BY <1>1 DEF EntryInv, NumberedOnce, AllEntries, Entry
        <2> QED BY <1>1, <2>2, <2>3
    <1>6. CommitsInOrder'
        <2>1. ASSUME NEW m \in MergeThreads
              PROVE  EntriesOf(jobs[m].sources)' = EntriesOf(jobs[m].sources)
                     /\ EntriesOf(get_slices \ jobs[m].sources)' = EntriesOf(get_slices \ jobs[m].sources)
            BY <1>1, <1>3 DEF EntriesOf
        <2> QED BY <1>1, <1>5, <2>1 DEF EntryInv, CommitsInOrder
    <1> QED BY <1>2, <1>4, <1>6 DEF EntryInv

LEMMA EntryRollback ==
    ASSUME SliceInv, EntryInv, NEW w \in Writers, Rollback(w)
    PROVE  EntryInv'
    <1>1. /\ writers \in [Writers -> SUBSET Entry]
          /\ writers' = [writers EXCEPT ![w] = {}]
          /\ UNCHANGED <<idx, contents, m_tier_map, jobs, committed>>
        BY DEF Rollback, SliceInv, TypeOK
    <1>2. \A v \in Writers : writers'[v] \subseteq writers[v]
        BY <1>1
    <1>3. AllEntries' \subseteq AllEntries
        BY <1>1, <1>2 DEF AllEntries
    <1>4. NumberedOnce'
        BY <1>1, <1>3, NumberedFewer DEF EntryInv
    <1>5. get_slices' = get_slices /\ EntriesOf(get_slices)' = EntriesOf(get_slices)
        BY <1>1 DEF get_slices, EntriesOf
    <1>6. CommittedKept'
        BY <1>1, <1>5 DEF EntryInv, CommittedKept, Accounted
    <1>7. CommitsInOrder'
        <2>1. ASSUME NEW m \in MergeThreads
              PROVE  EntriesOf(jobs[m].sources)' = EntriesOf(jobs[m].sources)
                     /\ EntriesOf(get_slices \ jobs[m].sources)' = EntriesOf(get_slices \ jobs[m].sources)
            BY <1>1, <1>5 DEF EntriesOf
        <2> QED BY <1>1, <1>2, <2>1 DEF EntryInv, CommitsInOrder
    <1> QED BY <1>4, <1>6, <1>7 DEF EntryInv

LEMMA EntryClose ==
    ASSUME SliceInv, EntryInv, NEW r \in Readers, Close(r)
    PROVE  EntryInv'
    <1>1. /\ UNCHANGED <<idx, writers, committed, m_tier_map, jobs>>
          /\ contents \in Seq(SUBSET Entry)
          /\ Reap(Referenced(m_tier_map, jobs, readers'), unlinked, contents)
        BY DEF Close, SliceInv, TypeOK
    <1>2. get_slices \subseteq DOMAIN contents
        BY ElementOfSeq, LenProperties DEF SliceInv, TypeOK, get_slices, SlicesOf
    <1>3. get_slices \subseteq Referenced(m_tier_map, jobs, readers')
        BY DEF Referenced, get_slices
    <1>4. \A s \in get_slices : contents'[s] = contents[s]
        BY <1>1, <1>2, <1>3, ReapShape
    <1>5. \A m \in MergeThreads : jobs'[m].at = "compact" => jobs'[m] = jobs[m]
        BY <1>1
    <1> QED BY <1>1, <1>4, <1>5, EntryQuiet

LEMMA EntryDrop ==
    ASSUME SliceInv, EntryInv, Drop
    PROVE  EntryInv'
    <1>1. /\ committed' = {}
          /\ m_tier_map' = [t \in Tiers |-> <<>>]
          /\ UNCHANGED <<idx, writers, jobs>>
          /\ \A m \in MergeThreads : ~Busy(m)
        BY DEF Drop
    <1>2. get_slices' = {}
        BY <1>1 DEF get_slices, SlicesOf
    <1>3. AllEntries' \subseteq AllEntries
        BY <1>1 DEF AllEntries
    <1>4. NumberedOnce'
        BY <1>1, <1>3, NumberedFewer DEF EntryInv
    <1>5. CommittedKept'
        BY <1>1, <1>2 DEF CommittedKept, EntriesOf
    <1>6. CommitsInOrder'
        BY <1>1 DEF CommitsInOrder, Busy
    <1> QED BY <1>4, <1>5, <1>6 DEF EntryInv

\* Starting a merge changes no entry; a compaction captures all there are.
LEMMA EntryMergeStart ==
    ASSUME SliceInv, EntryInv, NEW m \in MergeThreads, MergeStart(m)
    PROVE  EntryInv'
    <1>1. UNCHANGED <<idx, writers, committed, m_tier_map, contents>>
        BY DEF MergeStart
    <1> DEFINE t == Head(merge_requests)
               job == [at |-> "merge", scope |-> {t},
                       counts |-> [NoCounts EXCEPT ![t] = Len(m_tier_map[t])],
                       sources |-> {m_tier_map[t][i] : i \in DOMAIN m_tier_map[t]}]
    <1>2. jobs' = [jobs EXCEPT ![m] = job]
        BY DEF MergeStart, Capture
    <1>4. job.at = "merge"
        OBVIOUS
    <1> HIDE DEF job
    <1>3. \A n \in MergeThreads : jobs'[n].at = "compact" => jobs'[n] = jobs[n]
        BY <1>2, <1>4 DEF SliceInv, TypeOK
    <1> QED BY <1>1, <1>3, EntryQuiet

LEMMA EntryCompactStart ==
    ASSUME SliceInv, EntryInv, NEW m \in MergeThreads, Compacting, CompactStart(m)
    PROVE  EntryInv'
    <1>1. UNCHANGED <<idx, writers, committed, m_tier_map, contents>> /\ Compacting
        BY DEF CompactStart
    <1>2. jobs'[m].sources = get_slices
        BY DEF CompactStart, Capture, SliceInv, TypeOK
    <1>3. get_slices' = get_slices /\ EntriesOf(get_slices)' = EntriesOf(get_slices)
        BY <1>1 DEF get_slices, EntriesOf
    <1>4. NumberedOnce'
        BY <1>1 DEF EntryInv, NumberedOnce, AllEntries
    <1>5. CommittedKept'
        BY <1>1, <1>3 DEF EntryInv, CommittedKept, Accounted
    <1>6. ASSUME NEW n \in MergeThreads
          PROVE  EntriesOf(get_slices \ jobs[n].sources)' = {}
        <2>1. n = m
            BY <1>1, CompactingAloneAssumption
        <2> QED BY <1>2, <1>3, <2>1 DEF EntriesOf
    <1>7. CommitsInOrder'
        BY <1>1, <1>6 DEF EntryInv, CommitsInOrder
    <1> QED BY <1>4, <1>5, <1>7 DEF EntryInv

\* Merging Q into its newest entries keeps every entry accounted for.
LEMMA MergeKeeps ==
    ASSUME NEW R, NEW Q, Q \subseteq Entry, R \subseteq Entry,
           NEW n \in Nat, \A f \in Q : f.idx <= n,
           NEW e \in Entry, Accounted(e, R \cup Q)
    PROVE  Accounted(e, R \cup Newest(Q))
    <1>0. Newest(Q) \subseteq Q
        BY DEF Newest
    <1>1. CASE \E f \in R \cup Q : f.key = e.key /\ e.idx <= f.idx
        <2>1. PICK f \in R \cup Q : f.key = e.key /\ e.idx <= f.idx
            BY <1>1
        <2>2. CASE f \in R
            BY <2>1, <2>2 DEF Accounted
        <2>3. CASE f \in Q
            <3>1. PICK g \in Newest(Q) : g.key = f.key /\ f.idx <= g.idx
                BY <2>3, NewestDominates
            <3>2. e.idx \in Nat /\ f.idx \in Nat /\ g.idx \in Nat
                BY <1>0, <2>3, <3>1 DEF Entry
            <3>3. g.key = e.key /\ e.idx <= g.idx
                BY <2>1, <3>1, <3>2
            <3> QED BY <3>1, <3>3 DEF Accounted
        <2> QED BY <2>1, <2>2, <2>3
    <1>2. CASE ~ \E f \in R \cup Q : f.key = e.key /\ e.idx <= f.idx
        BY <1>0, <1>2 DEF Accounted
    <1> QED BY <1>1, <1>2

\* So does compacting it, when what is not compacted is newer.
LEMMA CompactKeeps ==
    ASSUME NEW R, NEW Q, Q \subseteq Entry, R \subseteq Entry, Q \subseteq committed,
           Compacting,
           NEW n \in Nat, \A f \in Q : f.idx <= n,
           \A f \in Q, h \in R : f.idx < h.idx,
           NEW e \in Entry, Accounted(e, R \cup Q)
    PROVE  Accounted(e, R \cup Live(Q))
    <1>0. Live(Q) \subseteq Newest(Q) /\ Newest(Q) \subseteq Q
        BY DEF Newest, Live
    <1>1. CASE \E f \in R \cup Q : f.key = e.key /\ e.idx <= f.idx
        <2>1. PICK f \in R \cup Q : f.key = e.key /\ e.idx <= f.idx
            BY <1>1
        <2>2. CASE f \in R
            BY <2>1, <2>2 DEF Accounted
        <2>3. CASE f \in Q
            <3>1. PICK g \in Newest(Q) : g.key = f.key /\ f.idx <= g.idx
                BY <2>3, NewestDominates
            <3>2. e.idx \in Nat /\ f.idx \in Nat /\ g.idx \in Nat
                BY <1>0, <2>3, <3>1 DEF Entry
            <3>3. g.key = e.key /\ e.idx <= g.idx
                BY <2>1, <3>1, <3>2
            <3>4. CASE ~g.deleted
                BY <3>1, <3>3, <3>4 DEF Accounted, Live
            <3>5. CASE g.deleted
                <4>1. g \in committed
                    BY <1>0, <3>1
                <4>2. CASE \A h \in R \cup Live(Q) : h.key # e.key
                    BY <3>3, <3>5, <4>1, <4>2 DEF Accounted
                <4>3. CASE \E h \in R \cup Live(Q) : h.key = e.key
                    <5>1. PICK h \in R \cup Live(Q) : h.key = e.key
                        BY <4>3
                    <5>2. h.idx \in Nat
                        BY <1>0 DEF Entry
                    <5>3. g.idx <= h.idx
                        <6>1. CASE h \in R
                            <7>1. g.idx < h.idx
                                BY <1>0, <3>1, <6>1
                            <7> QED BY <3>2, <5>2, <7>1
                        <6>2. CASE h \in Live(Q)
                            BY <1>0, <3>1, <3>3, <5>1, <6>2 DEF Newest
                        <6> QED BY <6>1, <6>2
                    <5>4. e.idx <= h.idx
                        BY <3>2, <3>3, <5>2, <5>3
                    <5> QED BY <5>1, <5>4 DEF Accounted
                <4> QED BY <4>2, <4>3
            <3> QED BY <3>4, <3>5
        <2> QED BY <2>1, <2>2, <2>3
    <1>2. CASE ~ \E f \in R \cup Q : f.key = e.key /\ e.idx <= f.idx
        BY <1>0, <1>2 DEF Accounted
    <1> QED BY <1>1, <1>2

LEMMA EntryFinish ==
    ASSUME SliceInv, EntryInv, NEW m \in MergeThreads, Finish(m)
    PROVE  EntryInv'
    <1> DEFINE new == Len(contents) + 1
               R == EntriesOf(get_slices \ jobs[m].sources)
               Q == EntriesOf(jobs[m].sources)
    <1>1. /\ DOMAIN contents' = DOMAIN contents \cup {new} /\ new \notin DOMAIN contents
          /\ get_slices \subseteq DOMAIN contents
          /\ get_slices' = (get_slices \cup {new}) \ jobs[m].sources
          /\ contents'[new] = Target(jobs[m])
          /\ \A s \in DOMAIN contents :
                s \in Referenced(m_tier_map', jobs', readers) => contents'[s] = contents[s]
          /\ jobs'[m] = Looking
          /\ \A n \in MergeThreads \ {m} :
                jobs'[n] = jobs[n] \/ (jobs'[n] = Looking /\ jobs[n].at = "wait")
        BY FinishShape
    <1>2. UNCHANGED <<idx, writers, committed>> /\ Busy(m)
        BY DEF Finish
    <1>3. /\ contents \in Seq(SUBSET Entry) /\ idx \in Nat /\ committed \subseteq Entry
          /\ jobs[m].sources \subseteq DOMAIN contents
        BY DEF SliceInv, TypeOK, JobType
    <1> HIDE DEF new
    <1>4. \A s \in get_slices \ jobs[m].sources : contents'[s] = contents[s]
        <2>1. get_slices' \subseteq Referenced(m_tier_map', jobs', readers)
            BY DEF Referenced, get_slices
        <2> QED BY <1>1, <2>1
    <1>5. EntriesOf(get_slices)' = R \cup Target(jobs[m])
        <2>1. get_slices' = (get_slices \ jobs[m].sources) \cup {new}
            BY <1>1, <1>3
        <2> QED BY <1>1, <1>4, <2>1 DEF EntriesOf
    <1>6. EntriesOf(get_slices) = R \cup Q
        <2>1. jobs[m].sources \subseteq get_slices
            BY <1>2, SourcesInMap
        <2> QED BY <2>1 DEF EntriesOf
    <1>7. /\ R \cup Q \subseteq committed
          /\ R \subseteq Entry /\ Q \subseteq Entry
          /\ \A e \in R \cup Q : e.idx <= idx
          /\ \A e \in committed : e \in Entry /\ Accounted(e, R \cup Q)
        BY <1>3, <1>6 DEF EntryInv, CommittedKept, NumberedOnce, AllEntries
    <1>8. NumberedOnce'
        BY <1>2 DEF EntryInv, NumberedOnce, AllEntries
    <1>9. Target(jobs[m]) \subseteq Q
        BY TargetSubset DEF SliceInv
    <1>10. \A e \in committed : Accounted(e, R \cup Target(jobs[m]))
        <2> SUFFICES ASSUME NEW e \in committed PROVE Accounted(e, R \cup Target(jobs[m]))
            OBVIOUS
        <2>1. CASE jobs[m].at = "merge"
            <3>1. Target(jobs[m]) = Newest(Q)
                BY <2>1 DEF Target
            <3> HIDE DEF R, Q
            <3>2. Accounted(e, R \cup Newest(Q))
                BY <1>3, <1>7, MergeKeeps
            <3> QED BY <3>1, <3>2
        <2>2. CASE jobs[m].at = "compact"
            <3>1. Target(jobs[m]) = Live(Q)
                BY <2>2 DEF Target
            <3>2. Compacting
                BY <2>2 DEF SliceInv, JobScopes
            <3>3. \A f \in Q, h \in R : f.idx < h.idx
                BY <2>2, <3>2 DEF EntryInv, CommitsInOrder
            <3> HIDE DEF R, Q
            <3>4. Accounted(e, R \cup Live(Q))
                BY <1>3, <1>7, <3>2, <3>3, CompactKeeps
            <3> QED BY <3>1, <3>4
        <2> QED BY <1>2, <2>1, <2>2 DEF Busy
    <1>11. CommittedKept'
        <2> HIDE DEF R, Q
        <2>1. EntriesOf(get_slices)' \subseteq committed'
            BY <1>2, <1>5, <1>7, <1>9
        <2>2. \A e \in committed' : Accounted(e, EntriesOf(get_slices))'
            BY <1>2, <1>5, <1>10 DEF Accounted
        <2> QED BY <2>1, <2>2 DEF CommittedKept
    <1>12. CommitsInOrder'
        <2>1. ASSUME NEW n \in MergeThreads PROVE jobs'[n].at # "compact"
            <3>0. Looking.at = "look"
                BY DEF Looking
            <3>1. CASE n = m
                BY <1>1, <3>0, <3>1
            <3>2. CASE n # m
                <4>1. jobs[n].at # "compact"
                    BY <3>2, CompactAlone DEF SliceInv
                <4> QED BY <1>1, <3>0, <3>2, <4>1
            <3> QED BY <3>1, <3>2
        <2> QED BY <1>2, <2>1 DEF EntryInv, CommitsInOrder
    <1> QED BY <1>8, <1>11, <1>12 DEF EntryInv

LEMMA EntryCommit ==
    ASSUME SliceInv, EntryInv, NEW w \in Writers, Commit(w)
    PROVE  EntryInv'
    <1> DEFINE new == Len(contents) + 1
               W == writers[w]
               S == EntriesOf(get_slices)
    <1>1. PICK t \in tier_of(W) :
             /\ contents' = Append(contents, W)
             /\ m_tier_map' = Added(m_tier_map, t, new)
             /\ Request(IF Overfull(m_tier_map', t) THEN <<t>> ELSE <<>>, jobs)
        BY DEF Commit
    <1>2. /\ committed' = committed \cup W
          /\ writers' = [writers EXCEPT ![w] = {}]
          /\ idx' = idx
        BY DEF Commit
    <1>3. /\ contents \in Seq(SUBSET Entry) /\ W \in SUBSET Entry /\ committed \subseteq Entry
          /\ writers \in [Writers -> SUBSET Entry]
          /\ Len(contents) \in Nat /\ DOMAIN contents = 1 .. Len(contents)
          /\ m_tier_map \in [Tiers -> Seq(DOMAIN contents)]
          /\ idx \in Nat
        BY LenProperties DEF SliceInv, TypeOK
    <1>4. /\ \A s \in DOMAIN contents : contents'[s] = contents[s]
          /\ contents'[new] = W
          /\ new \notin DOMAIN contents
        BY <1>1, <1>3, AppendProperties
    <1>5. get_slices \subseteq DOMAIN contents
        BY <1>3, ElementOfSeq, LenProperties DEF get_slices, SlicesOf
    <1> HIDE DEF new
    <1>6. get_slices' = get_slices \cup {new}
        <2>1. t \in Tiers
            BY TierOfTiers
        <2>2. m_tier_map \in [Tiers -> Seq(DOMAIN contents \cup {new})]
            <3> SUFFICES ASSUME NEW u \in Tiers
                         PROVE  m_tier_map[u] \in Seq(DOMAIN contents \cup {new})
                BY <1>3
            <3>1. m_tier_map[u] \in Seq(DOMAIN contents)
                BY <1>3
            <3> QED BY <3>1, SeqMonotonic
        <2>3. SlicesOf(Added(m_tier_map, t, new)) = SlicesOf(m_tier_map) \cup {new}
            <3>1. new \in DOMAIN contents \cup {new}
                OBVIOUS
            <3> QED BY <2>1, <2>2, <3>1, AddedSlices
        <2> QED BY <1>1, <2>3 DEF get_slices
    <1>7. EntriesOf(get_slices)' = S \cup W
        BY <1>4, <1>5, <1>6 DEF EntriesOf
    <1>8. /\ S \subseteq committed
          /\ \A e \in committed : Accounted(e, S)
          /\ \A e \in committed : e.idx \in Nat
          /\ \A e \in W : e.idx \in Nat
        BY <1>3 DEF EntryInv, CommittedKept, Entry
    <1>9. Compacting => \A e \in W, c \in committed : c.idx < e.idx
        BY DEF EntryInv, CommitsInOrder
    <1>10. NumberedOnce'
        <2>1. AllEntries' \subseteq AllEntries
            BY <1>2, <1>3 DEF AllEntries
        <2> QED BY <1>2, <2>1, NumberedFewer DEF EntryInv
    <1>11. CommittedKept'
        <2> HIDE DEF S, W
        <2>1. EntriesOf(get_slices)' \subseteq committed'
            BY <1>2, <1>7, <1>8
        <2>2. ASSUME NEW e \in committed' PROVE Accounted(e, EntriesOf(get_slices))'
            <3>1. CASE e \in W
                BY <1>7, <1>8, <3>1 DEF Accounted
            <3>2. CASE e \in committed /\ \E f \in S : f.key = e.key /\ e.idx <= f.idx
                BY <1>7, <3>2 DEF Accounted
            <3>3. CASE /\ e \in committed
                       /\ Compacting
                       /\ \A f \in S : f.key # e.key
                       /\ \E d \in committed : d.deleted /\ d.key = e.key /\ e.idx <= d.idx
                <4>1. CASE \E f \in W : f.key = e.key
                    <5>1. PICK f \in W : f.key = e.key
                        BY <4>1
                    <5>2. e.idx < f.idx /\ e.idx \in Nat /\ f.idx \in Nat
                        BY <1>8, <1>9, <3>3
                    <5>3. e.idx <= f.idx
                        BY <5>2
                    <5> QED BY <1>7, <5>1, <5>3 DEF Accounted
                <4>2. CASE \A f \in W : f.key # e.key
                    BY <1>2, <1>7, <3>3, <4>2 DEF Accounted
                <4> QED BY <4>1, <4>2
            <3>4. e \in W \/ (e \in committed /\ Accounted(e, S))
                BY <1>2, <1>8
            <3> QED BY <3>1, <3>2, <3>3, <3>4 DEF Accounted
        <2> QED BY <2>1, <2>2 DEF CommittedKept
    <1>12. CommitsInOrder'
        <2> SUFFICES ASSUME Compacting
                     PROVE  /\ \A v \in Writers : \A e \in writers'[v], c \in committed' : c.idx < e.idx
                            /\ \A m \in MergeThreads :
                                  jobs'[m].at = "compact" =>
                                     \A e \in EntriesOf(jobs[m].sources)',
                                        f \in EntriesOf(get_slices \ jobs[m].sources)' : e.idx < f.idx
            BY DEF CommitsInOrder
        <2>1. \A v \in Writers : writers'[v] = {}
            BY <1>2, <1>3, CompactingAloneAssumption
        <2>2. ASSUME NEW m \in MergeThreads, jobs'[m].at = "compact",
                     NEW e \in EntriesOf(jobs[m].sources)',
                     NEW f \in EntriesOf(get_slices \ jobs[m].sources)'
              PROVE  e.idx < f.idx
            <3>1. jobs'[m] = jobs[m]
                <4>1. \/ jobs'[m] = jobs[m]
                      \/ jobs'[m] = Looking
                    BY <1>1 DEF Request
                <4>2. Looking.at = "look"
                    BY DEF Looking
                <4> QED BY <2>2, <4>1, <4>2
            <3>2. Busy(m) /\ jobs[m].at = "compact"
                BY <2>2, <3>1 DEF Busy
            <3>3. jobs[m].sources \subseteq get_slices
                BY <3>2, SourcesInMap
            <3>4. e \in EntriesOf(jobs[m].sources) /\ e \in S
                BY <1>4, <1>5, <2>2, <3>1, <3>3 DEF EntriesOf
            <3>5. f \in EntriesOf(get_slices \ jobs[m].sources) \/ f \in W
                BY <1>4, <1>5, <1>6, <2>2, <3>1 DEF EntriesOf
            <3>6. CASE f \in EntriesOf(get_slices \ jobs[m].sources)
                BY <3>2, <3>4, <3>6 DEF EntryInv, CommitsInOrder
            <3>7. CASE f \in W
                <4>1. e \in committed
                    BY <1>8, <3>4
                <4> QED BY <1>9, <3>7, <4>1
            <3> QED BY <3>5, <3>6, <3>7
        <2> QED BY <2>1, <2>2
    <1> QED BY <1>10, <1>11, <1>12 DEF EntryInv

LEMMA EntryInit == Init => EntryInv
    <1> SUFFICES ASSUME Init PROVE EntryInv
        OBVIOUS
    <1>1. /\ idx = 0 /\ committed = {} /\ \A w \in Writers : writers[w] = {}
          /\ \A m \in MergeThreads : jobs[m].at = "look"
        BY DEF Init, Looking
    <1>2. get_slices = {}
        BY DEF Init, get_slices, SlicesOf
    <1>3. EntriesOf(get_slices) = {}
        BY <1>2 DEF EntriesOf
    <1> QED BY <1>1, <1>3 DEF EntryInv, NumberedOnce, AllEntries, CommittedKept, CommitsInOrder

\* Every step preserves EntryInv.
LEMMA EntryNext == SliceInv /\ EntryInv /\ [Next]_vars => EntryInv'
    <1> SUFFICES ASSUME SliceInv, EntryInv, [Next]_vars PROVE EntryInv'
        OBVIOUS
    <1>1. ASSUME NEW w \in Writers, NEW batch \in Batches, Begin(w, batch) PROVE EntryInv'
        BY <1>1, EntryBegin
    <1>2. ASSUME NEW w \in Writers, Commit(w) PROVE EntryInv'
        BY <1>2, EntryCommit
    <1>3. ASSUME NEW w \in Writers, Rollback(w) PROVE EntryInv'
        BY <1>3, EntryRollback
    <1>4. ASSUME NEW r \in Readers, Open(r) PROVE EntryInv'
        BY <1>4, EntryQuiet DEF Open
    <1>5. ASSUME NEW r \in Readers, Close(r) PROVE EntryInv'
        BY <1>5, EntryClose
    <1>6. CASE Drop
        BY <1>6, EntryDrop
    <1>7. ASSUME NEW m \in MergeThreads, MergeStart(m) PROVE EntryInv'
        BY <1>7, EntryMergeStart
    <1>8. ASSUME NEW m \in MergeThreads, MergeSkip(m) PROVE EntryInv'
        BY <1>8, EntryQuiet DEF MergeSkip
    <1>9. ASSUME NEW m \in MergeThreads, MergeWait(m) PROVE EntryInv'
        <2>1. \A n \in MergeThreads : jobs'[n].at = "compact" => jobs'[n] = jobs[n]
            <3>1. jobs' = [jobs EXCEPT ![m] = Waiting] /\ DOMAIN jobs = MergeThreads
                BY <1>9 DEF MergeWait, SliceInv, TypeOK
            <3>2. Waiting.at = "wait"
                BY DEF Waiting
            <3> QED BY <3>1, <3>2
        <2> QED BY <1>9, <2>1, EntryQuiet DEF MergeWait
    <1>10. ASSUME NEW m \in MergeThreads, Finish(m) PROVE EntryInv'
        BY <1>10, EntryFinish
    <1>11. ASSUME NEW m \in Compactors, CompactStart(m) PROVE EntryInv'
        BY <1>11, EntryCompactStart, CompactorMerges
    <1>12. CASE UNCHANGED vars
        BY <1>12, EntryQuiet DEF vars
    <1> QED BY <1>1, <1>2, <1>3, <1>4, <1>5, <1>6, <1>7, <1>8, <1>9, <1>10, <1>11, <1>12
            DEF Next, MergeStep

\* The invariant makes what a reader sees right.
LEMMA EntryInvView ==
    ASSUME SliceInv, EntryInv
    PROVE  NewestCommittedVisible
    <1> DEFINE S == EntriesOf(get_slices)
    <1>1. /\ S \subseteq committed /\ committed \subseteq Entry
          /\ \A e \in committed : Accounted(e, S)
          /\ \A e, f \in committed : e.key = f.key /\ e.idx = f.idx => e = f
        BY DEF SliceInv, TypeOK, EntryInv, CommittedKept, NumberedOnce, AllEntries
    <1>2. \A e \in committed : e.idx \in Nat
        BY <1>1 DEF Entry
    <1> HIDE DEF S
    <1>3. ASSUME NEW g \in Live(S) PROVE g \in Live(committed)
        <2>1. g \in S /\ ~g.deleted /\ \A f \in S : f.key = g.key => f.idx <= g.idx
            BY <1>3 DEF Live, Newest
        <2>2. ASSUME NEW c \in committed, c.key = g.key PROVE c.idx <= g.idx
            <3>1. PICK f \in S : f.key = c.key /\ c.idx <= f.idx
                BY <1>1, <2>1, <2>2 DEF Accounted
            <3>2. f.idx <= g.idx
                BY <2>1, <2>2, <3>1
            <3>3. c.idx \in Nat /\ f.idx \in Nat /\ g.idx \in Nat
                BY <1>1, <1>2, <2>1, <3>1
            <3> QED BY <3>1, <3>2, <3>3
        <2> QED BY <1>1, <2>1, <2>2 DEF Live, Newest
    <1>4. ASSUME NEW g \in Live(committed) PROVE g \in Live(S)
        <2>1. g \in committed /\ ~g.deleted /\ \A f \in committed : f.key = g.key => f.idx <= g.idx
            BY <1>4 DEF Live, Newest
        <2>2. g \in S
            <3>1. CASE \E f \in S : f.key = g.key /\ g.idx <= f.idx
                <4>1. PICK f \in S : f.key = g.key /\ g.idx <= f.idx
                    BY <3>1
                <4>2. f \in committed /\ f.idx <= g.idx
                    BY <1>1, <2>1, <4>1
                <4>3. f.idx = g.idx
                    BY <1>2, <2>1, <4>1, <4>2
                <4> QED BY <1>1, <2>1, <4>1, <4>2, <4>3
            <3>2. CASE \E d \in committed : d.deleted /\ d.key = g.key /\ g.idx <= d.idx
                <4>1. PICK d \in committed : d.deleted /\ d.key = g.key /\ g.idx <= d.idx
                    BY <3>2
                <4>2. d.idx <= g.idx
                    BY <2>1, <4>1
                <4>3. d.idx = g.idx
                    BY <1>2, <2>1, <4>1, <4>2
                <4>4. d = g
                    BY <1>1, <2>1, <4>1, <4>3
                <4> QED BY <2>1, <4>1, <4>4
            <3> QED BY <1>1, <2>1, <3>1, <3>2 DEF Accounted
        <2> QED BY <1>1, <2>1, <2>2 DEF Live, Newest
    <1>5. Live(S) = Live(committed)
        BY <1>3, <1>4
    <1> QED BY <1>5 DEF NewestCommittedVisible, View, S

\* No committed entry is lost and no stale or deleted one shows, for every
\* number of writers, readers and merge threads and every tier limit: ushard::add,
\* merge and compact leave what a reader sees (ushard_iterator) to the commits.
THEOREM ReadersSeeNewestCommitted == Spec => []NewestCommittedVisible
    <1>1. Init => SliceInv /\ EntryInv
        BY SliceInit, EntryInit
    <1>2. SliceInv /\ EntryInv /\ [Next]_vars => SliceInv' /\ EntryInv'
        BY SliceNext, EntryNext
    <1>3. SliceInv /\ EntryInv => NewestCommittedVisible
        BY EntryInvView
    <1> QED BY <1>1, <1>2, <1>3, PTL DEF Spec

-----------------------------------------------------------------------------
(* A ushard implements Store. *)

\* What the open readers see.
Snapshots == [r \in Readers |-> Live(EntriesOf(readers[r]))]

\* Readers hold slices that exist, and what they hold is referenced.
LEMMA ReadersHold ==
    ASSUME SliceInv, NEW r \in Readers
    PROVE  /\ readers[r] \subseteq DOMAIN contents
           /\ \A tm, jb : readers[r] \subseteq Referenced(tm, jb, readers)
    BY DEF SliceInv, TypeOK, Referenced

\* Snapshots stay as they are when nobody opens or closes and the slices that
\* readers hold keep their contents.
LEMMA SnapshotsSame ==
    ASSUME readers' = readers,
           \A r \in Readers : \A s \in readers[r] : contents'[s] = contents[s]
    PROVE  Snapshots' = Snapshots
    <1>1. ASSUME NEW r \in Readers PROVE EntriesOf(readers[r])' = EntriesOf(readers[r])
        BY DEF EntriesOf
    <1> QED BY <1>1 DEF Snapshots

\* No entries, nothing to see.
LEMMA EmptyView == Live({}) = {} /\ EntriesOf({}) = {}
    BY DEF Live, Newest, EntriesOf

\* An add changes no slice that a reader holds.
LEMMA SnapshotsCommit ==
    ASSUME SliceInv, NEW w \in Writers, Commit(w)
    PROVE  Snapshots' = Snapshots
    <1>1. /\ readers' = readers
          /\ contents' = Append(contents, writers[w])
          /\ contents \in Seq(SUBSET Entry) /\ writers[w] \in SUBSET Entry
        BY DEF Commit, SliceInv, TypeOK
    <1>2. \A s \in DOMAIN contents : contents'[s] = contents[s]
        BY <1>1, AppendProperties, LenProperties
    <1> QED BY <1>1, <1>2, ReadersHold, SnapshotsSame

\* A merge or compaction that ends frees no slice that a reader holds.
LEMMA SnapshotsFinish ==
    ASSUME SliceInv, NEW m \in MergeThreads, Finish(m)
    PROVE  Snapshots' = Snapshots
    <1>1. readers' = readers
        BY DEF Finish
    <1>2. \A s \in DOMAIN contents :
             s \in Referenced(m_tier_map', jobs', readers) => contents'[s] = contents[s]
        BY FinishShape
    <1> QED BY <1>1, <1>2, ReadersHold, SnapshotsSame

\* Neither does dropping the ushard under an open reader.
LEMMA SnapshotsDrop ==
    ASSUME SliceInv, Drop
    PROVE  Snapshots' = Snapshots
    <1>1. /\ readers' = readers
          /\ contents \in Seq(SUBSET Entry)
          /\ Reap(Referenced(m_tier_map', jobs, readers), unlinked', contents)
        BY DEF Drop, SliceInv, TypeOK
    <1>2. \A s \in DOMAIN contents :
             s \in Referenced(m_tier_map', jobs, readers) => contents'[s] = contents[s]
        BY <1>1, ReapShape
    <1> QED BY <1>1, <1>2, ReadersHold, SnapshotsSame

\* A reader that closes frees no slice of another reader.
LEMMA SnapshotsClose ==
    ASSUME SliceInv, NEW r \in Readers, Close(r)
    PROVE  Snapshots' = [Snapshots EXCEPT ![r] = {}]
    <1>1. /\ readers \in [Readers -> SUBSET (DOMAIN contents)]
          /\ readers' = [readers EXCEPT ![r] = {}]
          /\ contents \in Seq(SUBSET Entry)
          /\ Reap(Referenced(m_tier_map, jobs, readers'), unlinked, contents)
        BY DEF Close, SliceInv, TypeOK
    <1>2. \A s \in DOMAIN contents :
             s \in Referenced(m_tier_map, jobs, readers') => contents'[s] = contents[s]
        BY <1>1, ReapShape
    <1>3. Live(EntriesOf(readers[r]))' = {}
        BY <1>1 DEF EntriesOf, Live, Newest
    <1>4. ASSUME NEW q \in Readers, q # r
          PROVE  Live(EntriesOf(readers[q]))' = Live(EntriesOf(readers[q]))
        <2>1. readers'[q] = readers[q] /\ readers[q] \subseteq DOMAIN contents
            BY <1>1, <1>4
        <2>2. readers'[q] \subseteq Referenced(m_tier_map, jobs, readers')
            BY DEF Referenced
        <2>3. EntriesOf(readers[q])' = EntriesOf(readers[q])
            BY <1>2, <2>1, <2>2 DEF EntriesOf
        <2> QED BY <2>3
    <1> QED BY <1>3, <1>4 DEF Snapshots

\* A reader that opens sees what the tier map shows.
LEMMA SnapshotsOpen ==
    ASSUME SliceInv, NEW r \in Readers, Open(r)
    PROVE  /\ Snapshots[r] = {}
           /\ Snapshots' = [Snapshots EXCEPT ![r] = View]
    <1>1. /\ readers \in [Readers -> SUBSET (DOMAIN contents)]
          /\ readers' = [readers EXCEPT ![r] = get_slices]
          /\ readers[r] = {}
          /\ contents' = contents
        BY DEF Open, SliceInv, TypeOK
    <1>2. Live(EntriesOf(readers[r]))' = View
        BY <1>1 DEF View, EntriesOf
    <1>3. ASSUME NEW q \in Readers, q # r
          PROVE  Live(EntriesOf(readers[q]))' = Live(EntriesOf(readers[q]))
        BY <1>1, <1>3 DEF EntriesOf
    <1>4. Snapshots[r] = {}
        BY <1>1, EmptyView DEF Snapshots
    <1> QED BY <1>2, <1>3, <1>4 DEF Snapshots

\* Every step is a step of Store or changes nothing of it.
LEMMA UshardStep ==
    ASSUME SliceInv, NewestCommittedVisible, NewestCommittedVisible', [Next]_vars
    PROVE  [AbstractStore!StoreNext]_<<idx, writers, committed, View, Snapshots>>
    <1> DEFINE StoreStep ==
                   \/ \E w \in Writers :
                         \/ \E puts, dels \in SUBSET Keys :
                               puts \cap dels = {} /\ puts \cup dels # {}
                               /\ AbstractStore!StoreBegin(w, puts, dels)
                         \/ AbstractStore!StoreCommit(w)
                         \/ AbstractStore!StoreRollback(w)
                   \/ \E r \in Readers : AbstractStore!StoreOpen(r) \/ AbstractStore!StoreClose(r)
                   \/ AbstractStore!StoreDrop
               Stutter == UNCHANGED <<idx, writers, committed, View, Snapshots>>
    <1>0. committed' = committed => View' = View
        BY DEF NewestCommittedVisible
    <1>a. contents' = contents /\ readers' = readers => Snapshots' = Snapshots
        BY SnapshotsSame
    <1>1. ASSUME NEW w \in Writers, NEW batch \in Batches, Begin(w, batch) PROVE StoreStep
        <2>1. /\ batch.puts \in SUBSET Keys /\ batch.dels \in SUBSET Keys
              /\ batch.puts \cap batch.dels = {} /\ batch.puts \cup batch.dels # {}
            BY BatchesAssumption
        <2>2. AbstractStore!StoreBegin(w, batch.puts, batch.dels)
            BY <1>0, <1>a, <1>1
               DEF Begin, AbstractStore!StoreBegin, AbstractStore!Update, Update, Snapshots
        <2> QED BY <2>1, <2>2
    <1>2. ASSUME NEW w \in Writers, Commit(w) PROVE StoreStep
        <2>1. Snapshots' = Snapshots
            BY <1>2, SnapshotsCommit
        <2>2. AbstractStore!StoreCommit(w)
            BY <1>2, <2>1 DEF Commit, AbstractStore!StoreCommit, AbstractStore!Live,
               AbstractStore!Newest, Live, Newest, NewestCommittedVisible, Snapshots
        <2> QED BY <2>2
    <1>3. ASSUME NEW w \in Writers, Rollback(w) PROVE StoreStep
        <2>1. AbstractStore!StoreRollback(w)
            BY <1>0, <1>a, <1>3 DEF Rollback, AbstractStore!StoreRollback, Snapshots
        <2> QED BY <2>1
    <1>4. ASSUME NEW r \in Readers, Open(r) PROVE StoreStep
        <2>1. AbstractStore!StoreOpen(r)
            BY <1>0, <1>4, SnapshotsOpen DEF Open, AbstractStore!StoreOpen, Snapshots
        <2> QED BY <2>1
    <1>5. ASSUME NEW r \in Readers, Close(r) PROVE StoreStep
        <2>1. AbstractStore!StoreClose(r)
            BY <1>0, <1>5, SnapshotsClose DEF Close, AbstractStore!StoreClose, Snapshots
        <2> QED BY <2>1
    <1>6. ASSUME Drop PROVE StoreStep
        <2>1. committed' = {} /\ idx' = idx /\ writers' = writers
            BY <1>6 DEF Drop
        <2>2. View' = {}
            BY <2>1, EmptyView DEF NewestCommittedVisible
        <2>3. AbstractStore!StoreDrop
            BY <1>6, <2>1, <2>2, SnapshotsDrop DEF AbstractStore!StoreDrop, Snapshots
        <2> QED BY <2>3
    <1>7. ASSUME NEW m \in MergeThreads,
                 MergeStart(m) \/ MergeSkip(m) \/ MergeWait(m) \/ CompactStart(m)
          PROVE  Stutter
        BY <1>0, <1>a, <1>7 DEF MergeStart, MergeSkip, MergeWait, CompactStart
    <1>8. ASSUME NEW m \in MergeThreads, Finish(m) PROVE Stutter
        BY <1>0, <1>8, SnapshotsFinish DEF Finish
    <1>9. ASSUME UNCHANGED vars PROVE Stutter
        BY <1>0, <1>a, <1>9 DEF vars
    <1>10. StoreStep \/ Stutter
        <2> HIDE DEF StoreStep, Stutter
        <2> QED BY <1>1, <1>2, <1>3, <1>4, <1>5, <1>6, <1>7, <1>8, <1>9, CompactorMerges
              DEF Next, MergeStep
    <1> QED BY <1>10 DEF AbstractStore!StoreNext

\* A ushard implements Store: commits take effect at once and whole, a reader
\* keeps what it saw when it opened although slices are merged, compacted, freed
\* or dropped under it, and nothing else is visible, for every number of writers,
\* readers and merge threads.
THEOREM UshardImplementsStore == Spec => RefinesStore
    <1>1. Init => AbstractStore!StoreInit
        <2> SUFFICES ASSUME Init PROVE AbstractStore!StoreInit
            OBVIOUS
        <2>0. get_slices = {}
            BY DEF Init, get_slices, SlicesOf
        <2>1. View = {}
            BY <2>0, EmptyView DEF View
        <2>2. \A r \in Readers : Live(EntriesOf(readers[r])) = {}
            BY EmptyView DEF Init
        <2> QED BY <2>1, <2>2 DEF Init, AbstractStore!StoreInit
    <1>2. SliceInv /\ NewestCommittedVisible /\ NewestCommittedVisible' /\ [Next]_vars
             => [AbstractStore!StoreNext]_(AbstractStore!storeVars)
        BY UshardStep DEF AbstractStore!storeVars, Snapshots
    <1> QED BY <1>1, <1>2, SlicesConsistent, ReadersSeeNewestCommitted, PTL
            DEF Spec, RefinesStore, AbstractStore!StoreSpec

-----------------------------------------------------------------------------
(* The elements of a merging iterator. *)

\* What the iterator of a slice has still to give is a run of parts: one idx per
\* key, the parts of a value one after the other up to the one with eor.
OneValuePerKey(e) ==
    \A p, q \in e : p.key = q.key => /\ p.idx = q.idx
                                     /\ p.part = q.part => p = q
                                     /\ p.eor => q.part <= p.part

PartsFollow(e) == \A p \in e : ~p.eor => \E q \in e : q.key = p.key /\ q.part = p.part + 1

Run(e) == e # {} /\ e \subseteq Part /\ OneValuePerKey(e) /\ PartsFollow(e)

\* No two elements have the same entry.
Apart(elements) ==
    \A i, j \in DOMAIN elements : i # j =>
        \A p \in elements[i], q \in elements[j] : p.key = q.key => p.idx # q.idx

ElementsOK(elements) ==
    /\ elements \in Seq(SUBSET Part)
    /\ \A i \in DOMAIN elements : Run(elements[i])
    /\ Apart(elements)

Ordered(elements) == \A i, j \in DOMAIN elements : i < j => cmp(elements[i], elements[j])

Left(elements) == UNION ToSet(elements)

LEMMA PartNumbers ==
    ASSUME NEW p \in Part
    PROVE  p.key \in Nat \ {0} /\ p.key \in Keys /\ p.idx \in Nat /\ p.part \in Nat
    <1>1. Cardinality(Slices) \in Nat
        BY SlicesAssumption, FS_CardinalityType
    <1>2. p.key \in Keys /\ p.idx \in 1 .. Cardinality(Slices) /\ p.part \in 1 .. MaxParts
        BY DEF Part
    <1>3. p.idx \in Nat
        BY <1>1, <1>2
    <1>4. p.part \in Nat
        BY <1>2, MaxPartsAssumption
    <1>5. p.key \in Nat \ {0}
        BY <1>2, KeysAssumption
    <1> QED BY <1>2, <1>3, <1>4, <1>5

\* The current part of an element is its first one.
LEMMA CurrentIsFirst ==
    ASSUME NEW e, Run(e)
    PROVE  /\ Current(e) \in e /\ Current(e) \in Part
           /\ \A q \in e : q = Current(e) \/ Before(Current(e), q)
    <1> DEFINE K == {p.key : p \in e}
    <1>1. e # {} /\ e \subseteq Part
        BY DEF Run
    <1>2. \A p \in e : p.key \in Nat /\ p.part \in Nat
        BY <1>1, PartNumbers
    <1>3. K # {} /\ K \subseteq Nat
        BY <1>1, <1>2
    <1>4. PICK k \in K : \A l \in K : k <= l
        BY <1>3, LeastNatural
    <1> DEFINE N == {p.part : p \in {q \in e : q.key = k}}
    <1>5. N # {} /\ N \subseteq Nat
        BY <1>2, <1>4
    <1>6. PICK n \in N : \A m \in N : n <= m
        BY <1>5, LeastNatural
    <1>7. PICK p \in e : p.key = k /\ p.part = n
        BY <1>6
    <1>8. \A q \in e : p = q \/ Before(p, q)
        <2> SUFFICES ASSUME NEW q \in e PROVE p = q \/ Before(p, q)
            OBVIOUS
        <2>1. p.key <= q.key
            BY <1>4, <1>7
        <2>2. q.key = p.key => p.part <= q.part
            BY <1>6, <1>7
        <2>3. q.key = p.key /\ q.part = p.part => p = q
            BY DEF Run, OneValuePerKey
        <2> QED BY <2>1, <2>2, <2>3, <1>2, <1>7 DEF Before
    <1>9. Current(e) \in e /\ \A q \in e : Current(e) = q \/ Before(Current(e), q)
        BY <1>8 DEF Current
    <1> QED BY <1>1, <1>9

\* slice_iterator::next leaves a run, which begins further on.
LEMMA RestIsRun ==
    ASSUME NEW e, Run(e)
    PROVE  /\ Rest(e) \subseteq e
           /\ \A p \in e : p = Current(e) \/ p \in Rest(e)
           /\ \A p \in Rest(e) : Before(Current(e), p)
           /\ Rest(e) # {} => Run(Rest(e))
    <1>1. /\ Current(e) \in e /\ Current(e) \in Part
          /\ \A q \in e : q = Current(e) \/ Before(Current(e), q)
        BY CurrentIsFirst
    <1>2. /\ Rest(e) \subseteq e
          /\ \A p \in e : p = Current(e) \/ p \in Rest(e)
          /\ \A p \in Rest(e) : Before(Current(e), p)
        BY <1>1 DEF Rest
    <1>3. ASSUME Rest(e) # {} PROVE Run(Rest(e))
        <2>1. PartsFollow(Rest(e))
            <3> SUFFICES ASSUME NEW p \in Rest(e), ~p.eor
                         PROVE  \E q \in Rest(e) : q.key = p.key /\ q.part = p.part + 1
                BY DEF PartsFollow
            <3>1. PICK q \in e : q.key = p.key /\ q.part = p.part + 1
                BY <1>2 DEF Run, PartsFollow
            <3>2. p \in Part /\ q \in Part
                BY <1>2 DEF Run
            <3>3. /\ p.key \in Nat /\ p.part \in Nat /\ q.key \in Nat /\ q.part \in Nat
                  /\ Current(e).key \in Nat /\ Current(e).part \in Nat
                BY <1>1, <3>2, PartNumbers
            <3>4. Before(Current(e), p)
                BY <1>2
            <3>5. q # Current(e)
                BY <3>1, <3>3, <3>4 DEF Before
            <3> QED BY <1>2, <3>1, <3>5
        <2>2. Rest(e) \subseteq Part
            BY <1>2 DEF Run
        <2>3. OneValuePerKey(Rest(e))
            BY <1>2 DEF Run, OneValuePerKey
        <2> QED BY <1>3, <2>1, <2>2, <2>3 DEF Run
    <1> QED BY <1>2, <1>3

\* A value that has more parts goes on in the same element.
LEMMA MoreParts ==
    ASSUME NEW e, Run(e), ~Current(e).eor
    PROVE  /\ Rest(e) # {}
           /\ Current(Rest(e)) \in Rest(e)
           /\ Current(Rest(e)).key = Current(e).key /\ Current(Rest(e)).idx = Current(e).idx
    <1>1. Current(e) \in e /\ Current(e) \in Part
        BY CurrentIsFirst
    <1>2. PICK q \in e : q.key = Current(e).key /\ q.part = Current(e).part + 1
        BY <1>1 DEF Run, PartsFollow
    <1>3. Current(e).part \in Nat /\ Current(e).key \in Nat
        BY <1>1, PartNumbers
    <1>4. q # Current(e)
        BY <1>2, <1>3
    <1>5. q \in Rest(e)
        BY <1>4, RestIsRun
    <1>6. Run(Rest(e))
        BY <1>5, RestIsRun
    <1> DEFINE r == Current(Rest(e))
    <1>7. r \in Rest(e) /\ r \in Part /\ (q = r \/ Before(r, q))
        BY <1>5, <1>6, CurrentIsFirst
    <1>8. Before(Current(e), r) /\ r \in e
        BY <1>7, RestIsRun
    <1>9. r.key \in Nat
        BY <1>7, PartNumbers
    <1> HIDE DEF r
    <1>10. r.key = Current(e).key
        BY <1>2, <1>3, <1>7, <1>8, <1>9 DEF Before
    <1>11. r.idx = Current(e).idx
        BY <1>1, <1>8, <1>10 DEF Run, OneValuePerKey
    <1> QED BY <1>5, <1>7, <1>10, <1>11 DEF r


\* cmp tells apart any two elements that do not have the same entry.
LEMMA CmpTotal ==
    ASSUME NEW e1, NEW e2, Run(e1), Run(e2),
           \A p \in e1, q \in e2 : p.key = q.key => p.idx # q.idx
    PROVE  cmp(e1, e2) \/ cmp(e2, e1)
    <1>1. Current(e1) \in e1 /\ Current(e1) \in Part /\ Current(e2) \in e2 /\ Current(e2) \in Part
        BY CurrentIsFirst
    <1>2. /\ Current(e1).key \in Nat /\ Current(e1).idx \in Nat
          /\ Current(e2).key \in Nat /\ Current(e2).idx \in Nat
        BY <1>1, PartNumbers
    <1>3. Current(e1).key = Current(e2).key => Current(e1).idx # Current(e2).idx
        BY <1>1
    <1> QED BY <1>2, <1>3 DEF cmp

LEMMA CmpTransitive ==
    ASSUME NEW e1, NEW e2, NEW e3, Run(e1), Run(e2), Run(e3), cmp(e1, e2), cmp(e2, e3)
    PROVE  cmp(e1, e3)
    <1>1. Current(e1) \in Part /\ Current(e2) \in Part /\ Current(e3) \in Part
        BY CurrentIsFirst
    <1>2. /\ Current(e1).key \in Nat /\ Current(e1).idx \in Nat
          /\ Current(e2).key \in Nat /\ Current(e2).idx \in Nat
          /\ Current(e3).key \in Nat /\ Current(e3).idx \in Nat
        BY <1>1, PartNumbers
    <1> QED BY <1>2 DEF cmp

\* In order, the last element has the least key, and of those with this key the
\* newest entry.
LEMMA LastIsNewest ==
    ASSUME NEW elements, ElementsOK(elements), Ordered(elements), elements # <<>>
    PROVE  /\ Len(elements) \in DOMAIN elements /\ Run(Last(elements))
           /\ Last(elements) = elements[Len(elements)]
           /\ \A i \in DOMAIN elements : \A p \in elements[i] :
                 /\ Current(Last(elements)).key <= p.key
                 /\ p.key = Current(Last(elements)).key /\ i # Len(elements)
                       => p.idx < Current(Last(elements)).idx
    <1> DEFINE l == elements[Len(elements)]
    <1>1. elements \in Seq(SUBSET Part) /\ \A i \in DOMAIN elements : Run(elements[i])
        BY DEF ElementsOK
    <1>2. DOMAIN elements = 1 .. Len(elements) /\ Len(elements) \in Nat \ {0}
        BY <1>1, LenProperties, EmptySeq
    <1>3. Len(elements) \in DOMAIN elements /\ Run(l)
        BY <1>1, <1>2
    <1>4. Last(elements) = l
        BY DEF Last
    <1>5. ASSUME NEW i \in DOMAIN elements, NEW p \in elements[i]
          PROVE  /\ Current(l).key <= p.key
                 /\ p.key = Current(l).key /\ i # Len(elements) => p.idx < Current(l).idx
        <2> HIDE DEF l
        <2> DEFINE e == elements[i]
        <2>1. Run(e)
            BY <1>1
        <2>2. Current(e) \in e /\ Current(e) \in Part /\ (p = Current(e) \/ Before(Current(e), p))
            BY <2>1, CurrentIsFirst
        <2>3. p \in Part /\ p.key = Current(e).key => p.idx = Current(e).idx
            BY <2>1, <2>2 DEF Run, OneValuePerKey
        <2>4. Current(l) \in Part
            BY <1>3, CurrentIsFirst
        <2>5. p \in Part
            BY <2>1 DEF Run
        <2>6. /\ p.key \in Nat /\ p.idx \in Nat /\ Current(e).key \in Nat /\ Current(e).idx \in Nat
              /\ Current(l).key \in Nat /\ Current(l).idx \in Nat
            BY <2>2, <2>4, <2>5, PartNumbers
        <2>7. i = Len(elements) \/ cmp(e, l)
            BY <1>2, <1>3 DEF Ordered, l
        <2>8. i = Len(elements) => e = l
            BY DEF l
        <2> HIDE DEF e
        <2>9. CASE i = Len(elements)
            BY <2>2, <2>6, <2>8, <2>9 DEF Before
        <2>10. CASE i # Len(elements) /\ cmp(e, l)
            BY <2>2, <2>3, <2>5, <2>6, <2>10 DEF Before, cmp
        <2> QED BY <2>7, <2>9, <2>10
    <1> QED BY <1>3, <1>4, <1>5

\* The order that std::sort makes is strict.
LEMMA SortedIsOrdered ==
    ASSUME NEW elements, ElementsOK(elements), Sorted(elements)
    PROVE  Ordered(elements)
    <1> SUFFICES ASSUME NEW i \in DOMAIN elements, NEW j \in DOMAIN elements, i < j
                 PROVE  cmp(elements[i], elements[j])
        BY DEF Ordered
    <1>1. Run(elements[i]) /\ Run(elements[j])
        BY DEF ElementsOK
    <1>2. elements \in Seq(SUBSET Part)
        BY DEF ElementsOK
    <1>3. DOMAIN elements = 1 .. Len(elements) /\ Len(elements) \in Nat
        BY <1>2, LenProperties
    <1>4. i # j
        BY <1>3
    <1>5. \A p \in elements[i], q \in elements[j] : p.key = q.key => p.idx # q.idx
        BY <1>4 DEF ElementsOK, Apart
    <1>6. cmp(elements[i], elements[j]) \/ cmp(elements[j], elements[i])
        BY <1>1, <1>5, CmpTotal
    <1> QED BY <1>6 DEF Sorted

LEMMA FrontProperties ==
    ASSUME NEW S, NEW s \in Seq(S), s # <<>>
    PROVE  /\ Front(s) \in Seq(S) /\ Len(Front(s)) = Len(s) - 1
           /\ Len(s) \in Nat \ {0} /\ DOMAIN s = 1 .. Len(s)
           /\ DOMAIN Front(s) = 1 .. Len(s) - 1
           /\ \A i \in 1 .. Len(s) - 1 : Front(s)[i] = s[i]
    <1>1. Len(s) \in Nat \ {0} /\ DOMAIN s = 1 .. Len(s)
        BY LenProperties, EmptySeq
    <1>2. 1 \in Int /\ Len(s) - 1 \in Int /\ \A i \in 1 .. Len(s) - 1 : s[i] \in S
        BY <1>1, ElementOfSeq
    <1> DEFINE f == SubSeq(s, 1, Len(s) - 1)
    <1>3. /\ f \in Seq(S)
          /\ Len(f) = IF 1 <= Len(s) - 1 THEN Len(s) - 1 - 1 + 1 ELSE 0
          /\ \A i \in 1 .. Len(s) - 1 - 1 + 1 : f[i] = s[1 + i - 1]
        BY <1>2, SubSeqProperties
    <1> HIDE DEF f
    <1>4. Len(f) = Len(s) - 1
        <2>1. CASE 1 <= Len(s) - 1
            BY <1>1, <1>3, <2>1
        <2>2. CASE ~(1 <= Len(s) - 1)
            BY <1>1, <1>3, <2>2
        <2> QED BY <2>1, <2>2
    <1>5. DOMAIN f = 1 .. Len(s) - 1
        BY <1>3, <1>4, LenProperties
    <1>6. ASSUME NEW i \in 1 .. Len(s) - 1 PROVE f[i] = s[i]
        <2>1. i \in 1 .. Len(s) - 1 - 1 + 1 /\ 1 + i - 1 = i
            BY <1>1
        <2> QED BY <1>3, <2>1
    <1> QED BY <1>1, <1>3, <1>4, <1>5, <1>6 DEF Front, f

\* r is s with x behind its first n elements.
Inserted(r, s, n, x) ==
    /\ Len(r) = Len(s) + 1 /\ DOMAIN r = 1 .. Len(s) + 1
    /\ \A i \in 1 .. n : r[i] = s[i]
    /\ r[n + 1] = x
    /\ \A i \in n + 2 .. Len(s) + 1 : r[i] = s[i - 1]

LEMMA InsertAtProperties ==
    ASSUME NEW S, NEW s \in Seq(S), NEW x \in S, NEW n \in 0 .. Len(s)
    PROVE  InsertAt(s, n + 1, x) \in Seq(S) /\ Inserted(InsertAt(s, n + 1, x), s, n, x)
    <1> DEFINE a == SubSeq(s, 1, (n + 1) - 1)
               b == SubSeq(s, n + 1, Len(s))
               c == a \o <<x>>
               r == c \o b
    <1>1. Len(s) \in Nat /\ n \in Nat /\ n <= Len(s)
        BY LenProperties
    <1>2. 1 \in Int /\ (n + 1) - 1 \in Int /\ \A i \in 1 .. (n + 1) - 1 : s[i] \in S
        BY <1>1, ElementOfSeq
    <1>3. /\ a \in Seq(S)
          /\ Len(a) = IF 1 <= (n + 1) - 1 THEN (n + 1) - 1 - 1 + 1 ELSE 0
          /\ \A i \in 1 .. (n + 1) - 1 - 1 + 1 : a[i] = s[1 + i - 1]
        BY <1>2, SubSeqProperties
    <1>4. n + 1 \in Int /\ Len(s) \in Int /\ \A i \in n + 1 .. Len(s) : s[i] \in S
        BY <1>1, ElementOfSeq
    <1>5. /\ b \in Seq(S)
          /\ Len(b) = IF n + 1 <= Len(s) THEN Len(s) - (n + 1) + 1 ELSE 0
          /\ \A i \in 1 .. Len(s) - (n + 1) + 1 : b[i] = s[n + 1 + i - 1]
        BY <1>4, SubSeqProperties
    <1> HIDE DEF a, b
    <1>6. Len(a) = n /\ \A i \in 1 .. n : a[i] = s[i]
        <2>1. Len(a) = n
            BY <1>1, <1>3
        <2>2. ASSUME NEW i \in 1 .. n PROVE a[i] = s[i]
            <3>1. i \in 1 .. (n + 1) - 1 - 1 + 1 /\ 1 + i - 1 = i
                BY <1>1
            <3> QED BY <1>3, <3>1
        <2> QED BY <2>1, <2>2
    <1>7. Len(b) = Len(s) - n
        BY <1>1, <1>5
    <1>8. /\ <<x>> \in Seq(S) /\ Len(<<x>>) = 1 /\ <<x>>[1] = x
        OBVIOUS
    <1>9. /\ c \in Seq(S) /\ Len(c) = Len(a) + Len(<<x>>)
          /\ \A i \in 1 .. Len(a) + Len(<<x>>) :
                c[i] = IF i <= Len(a) THEN a[i] ELSE <<x>>[i - Len(a)]
        BY <1>3, <1>8, ConcatProperties
    <1> HIDE DEF c
    <1>10. Len(c) = n + 1 /\ c[n + 1] = x /\ \A i \in 1 .. n : c[i] = s[i]
        <2>1. Len(c) = n + 1
            BY <1>6, <1>8, <1>9
        <2>2. n + 1 \in 1 .. Len(a) + Len(<<x>>) /\ ~(n + 1 <= Len(a)) /\ (n + 1) - Len(a) = 1
            BY <1>1, <1>6, <1>8
        <2>3. c[n + 1] = x
            BY <1>8, <1>9, <2>2
        <2>4. ASSUME NEW i \in 1 .. n PROVE c[i] = s[i]
            <3>1. i \in 1 .. Len(a) + Len(<<x>>) /\ i <= Len(a)
                BY <1>1, <1>6, <1>8
            <3> QED BY <1>6, <1>9, <3>1
        <2> QED BY <2>1, <2>3, <2>4
    <1>11. /\ r \in Seq(S) /\ Len(r) = Len(c) + Len(b)
           /\ \A i \in 1 .. Len(c) + Len(b) : r[i] = IF i <= Len(c) THEN c[i] ELSE b[i - Len(c)]
        <2>1. b \in Seq(S) /\ c \in Seq(S)
            BY <1>5, <1>9
        <2> QED BY ONLY <2>1, ConcatProperties
    <1> HIDE DEF r
    <1>12. Len(r) = Len(s) + 1
        BY <1>1, <1>7, <1>10, <1>11
    <1>13. DOMAIN r = 1 .. Len(s) + 1
        BY <1>11, <1>12, LenProperties
    <1>14. ASSUME NEW i \in 1 .. n PROVE r[i] = s[i]
        <2>1. i \in 1 .. Len(c) + Len(b) /\ i <= Len(c)
            BY <1>1, <1>7, <1>10
        <2> QED BY <1>10, <1>11, <2>1
    <1>15. r[n + 1] = x
        <2>1. n + 1 \in 1 .. Len(c) + Len(b) /\ n + 1 <= Len(c)
            BY <1>1, <1>7, <1>10
        <2> QED BY <1>10, <1>11, <2>1
    <1>16. ASSUME NEW i \in n + 2 .. Len(s) + 1 PROVE r[i] = s[i - 1]
        <2>1. /\ i \in 1 .. Len(c) + Len(b) /\ ~(i <= Len(c)) /\ i - Len(c) = i - (n + 1)
              /\ i - (n + 1) \in 1 .. Len(s) - (n + 1) + 1
              /\ n + 1 + (i - (n + 1)) - 1 = i - 1
            BY <1>1, <1>7, <1>10
        <2>2. r[i] = b[i - (n + 1)]
            BY <1>11, <2>1
        <2>3. b[i - (n + 1)] = s[n + 1 + (i - (n + 1)) - 1]
            BY <1>5, <2>1
        <2> QED BY <2>1, <2>2, <2>3
    <1>17. r = InsertAt(s, n + 1, x)
        BY DEF r, c, a, b, InsertAt
    <1>18. Inserted(r, s, n, x)
        BY <1>12, <1>13, <1>14, <1>15, <1>16 DEF Inserted
    <1> QED BY <1>11, <1>17, <1>18

\* Where lower_bound finds the place of e: everything before it is before e, and
\* nothing behind it.
LEMMA LowerBoundSplits ==
    ASSUME NEW elements, ElementsOK(elements), Ordered(elements), NEW e, Run(e)
    PROVE  /\ LowerBound(elements, e) \in 0 .. Len(elements)
           /\ \A i \in 1 .. Len(elements) :
                 cmp(elements[i], e) <=> i <= LowerBound(elements, e)
    <1> DEFINE T == {i \in 1 .. Len(elements) : ~cmp(elements[i], e)} \cup {Len(elements) + 1}
    <1>1. elements \in Seq(SUBSET Part) /\ \A i \in DOMAIN elements : Run(elements[i])
        BY DEF ElementsOK
    <1>2. DOMAIN elements = 1 .. Len(elements) /\ Len(elements) \in Nat
        BY <1>1, LenProperties
    <1>3. T \subseteq Nat /\ T # {}
        BY <1>2
    <1>4. PICK m \in T : \A i \in T : m <= i
        BY <1>3, LeastNatural
    <1>5. m - 1 \in 0 .. Len(elements)
        BY <1>2, <1>4
    <1>6. ASSUME NEW i \in 1 .. Len(elements)
          PROVE  cmp(elements[i], e) <=> i <= m - 1
        <2>1. CASE i <= m - 1
            <3>1. ~(m <= i)
                BY <1>2, <1>3, <1>4, <2>1
            <3> QED BY <1>4, <2>1, <3>1
        <2>2. CASE i = m
            <3>1. m # Len(elements) + 1
                BY <1>2, <2>2
            <3>2. ~cmp(elements[m], e)
                BY <1>4, <3>1
            <3> QED BY <1>2, <2>2, <3>2
        <2>3. CASE i > m
            <3>1. m \in 1 .. Len(elements) /\ ~(i <= m - 1) /\ m # Len(elements) + 1
                BY <1>2, <1>3, <1>4, <2>3
            <3>2. ~cmp(elements[m], e)
                BY <1>4, <3>1
            <3>3. cmp(elements[m], elements[i])
                BY <1>2, <2>3, <3>1 DEF Ordered
            <3>4. Run(elements[m]) /\ Run(elements[i])
                BY <1>1, <1>2, <3>1
            <3>5. ~cmp(elements[i], e)
                BY <3>2, <3>3, <3>4, CmpTransitive
            <3> QED BY <3>1, <3>5
        <2> QED BY <1>2, <1>3, <1>4, <2>1, <2>2, <2>3
    <1>7. \E n \in 0 .. Len(elements) :
             \A i \in 1 .. Len(elements) : cmp(elements[i], e) <=> i <= n
        BY <1>5, <1>6
    <1> QED BY <1>7 DEF LowerBound

LEMMA LeftOf ==
    ASSUME NEW elements \in Seq(SUBSET Part)
    PROVE  \A p : p \in Left(elements) <=> \E i \in 1 .. Len(elements) : p \in elements[i]
    <1>1. \A x : x \in ToSet(elements) <=> \E i \in 1 .. Len(elements) : elements[i] = x
        BY InToSet
    <1> QED BY <1>1 DEF Left

\* All elements but the last.
LEMMA FrontElements ==
    ASSUME NEW elements, ElementsOK(elements), Ordered(elements), elements # <<>>
    PROVE  /\ ElementsOK(Front(elements)) /\ Ordered(Front(elements))
           /\ Len(Front(elements)) = Len(elements) - 1 /\ Len(elements) \in Nat \ {0}
           /\ DOMAIN Front(elements) = 1 .. Len(elements) - 1
           /\ DOMAIN elements = 1 .. Len(elements)
           /\ \A i \in 1 .. Len(elements) - 1 :
                 i \in DOMAIN elements /\ i # Len(elements) /\ Front(elements)[i] = elements[i]
    <1>1. elements \in Seq(SUBSET Part)
        BY DEF ElementsOK
    <1> DEFINE f == Front(elements)
    <1>2. /\ f \in Seq(SUBSET Part) /\ Len(f) = Len(elements) - 1
          /\ Len(elements) \in Nat \ {0} /\ DOMAIN elements = 1 .. Len(elements)
          /\ DOMAIN f = 1 .. Len(elements) - 1
          /\ \A i \in 1 .. Len(elements) - 1 : f[i] = elements[i]
        BY <1>1, FrontProperties
    <1> HIDE DEF f
    <1>3. \A i \in DOMAIN f : i \in DOMAIN elements /\ i # Len(elements) /\ f[i] = elements[i]
        BY <1>2
    <1>4. \A i \in DOMAIN f : Run(f[i])
        BY <1>3 DEF ElementsOK
    <1>5. Apart(f)
        BY <1>3 DEF ElementsOK, Apart
    <1>6. Ordered(f)
        BY <1>3 DEF Ordered
    <1> QED BY <1>2, <1>3, <1>4, <1>5, <1>6 DEF ElementsOK, f

\* Elements that are parts of other ones, each of a different one.
LEMMA PartsOfElements ==
    ASSUME NEW elements, ElementsOK(elements), NEW r \in Seq(SUBSET Part),
           NEW src \in [DOMAIN r -> DOMAIN elements],
           \A i, j \in DOMAIN r : src[i] = src[j] => i = j,
           \A i \in DOMAIN r : Run(r[i]) /\ r[i] \subseteq elements[src[i]]
    PROVE  ElementsOK(r)
    <1> SUFFICES Apart(r)
        BY DEF ElementsOK
    <1> SUFFICES ASSUME NEW i \in DOMAIN r, NEW j \in DOMAIN r, i # j,
                        NEW p \in r[i], NEW q \in r[j], p.key = q.key
                 PROVE  p.idx # q.idx
        BY DEF Apart
    <1>1. src[i] # src[j] /\ src[i] \in DOMAIN elements /\ src[j] \in DOMAIN elements
        OBVIOUS
    <1>2. p \in elements[src[i]] /\ q \in elements[src[j]]
        OBVIOUS
    <1> QED BY <1>1, <1>2 DEF ElementsOK, Apart

\* The last element with its current part taken, in the place that advance gives
\* it, or gone if nothing is left of it: the elements are in order again.
LEMMA AdvanceElements ==
    ASSUME NEW elements, ElementsOK(elements), Ordered(elements), elements # <<>>
    PROVE  /\ ElementsOK(advance(elements)) /\ Ordered(advance(elements))
           /\ \A p : p \in Left(advance(elements)) <=>
                 p \in Rest(Last(elements)) \/ \E i \in 1 .. Len(elements) - 1 : p \in elements[i]
    <1> DEFINE o == Front(elements)
               rest == Rest(Last(elements))
               N == Len(elements)
    <1>1. /\ ElementsOK(o) /\ Ordered(o)
          /\ Len(o) = N - 1 /\ N \in Nat \ {0}
          /\ DOMAIN o = 1 .. N - 1 /\ DOMAIN elements = 1 .. N
          /\ \A i \in 1 .. N - 1 : i \in DOMAIN elements /\ i # N /\ o[i] = elements[i]
        BY FrontElements
    <1>2. Run(Last(elements)) /\ Last(elements) = elements[N]
        BY LastIsNewest
    <1>3. rest \subseteq elements[N] /\ (rest # {} => Run(rest))
        BY <1>2, RestIsRun
    <1>4. advance(elements) = IF rest = {} THEN o ELSE InsertAt(o, LowerBound(o, rest) + 1, rest)
        BY DEF advance
    <1> HIDE DEF o, rest, N
    <1>5. o \in Seq(SUBSET Part)
        BY <1>1 DEF ElementsOK
    <1>6. CASE rest = {}
        <2>1. advance(elements) = o
            BY <1>4, <1>6
        <2>2. \A p : p \in Left(o) <=> \E i \in 1 .. N - 1 : p \in elements[i]
            BY <1>1, <1>5, LeftOf
        <2> QED BY <1>1, <1>6, <2>1, <2>2 DEF rest, N
    <1>7. CASE rest # {}
        <2> DEFINE n == LowerBound(o, rest)
                   r == InsertAt(o, n + 1, rest)
        <2>1. Run(rest) /\ rest \in SUBSET Part
            BY <1>3, <1>7 DEF Run
        <2>2. n \in 0 .. Len(o) /\ \A i \in 1 .. Len(o) : cmp(o[i], rest) <=> i <= n
            BY <1>1, <2>1, LowerBoundSplits
        <2> HIDE DEF n
        <2>3. /\ r \in Seq(SUBSET Part)
              /\ Len(r) = Len(o) + 1 /\ DOMAIN r = 1 .. Len(o) + 1
              /\ \A i \in 1 .. n : r[i] = o[i]
              /\ r[n + 1] = rest
              /\ \A i \in n + 2 .. Len(o) + 1 : r[i] = o[i - 1]
            <3>1. Len(o) \in Nat /\ r \in Seq(SUBSET Part) /\ Inserted(r, o, n, rest)
                BY <1>5, <2>1, <2>2, InsertAtProperties, LenProperties
            <3> HIDE DEF r
            <3> QED BY <3>1 DEF Inserted
        <2> HIDE DEF r
        <2>4. DOMAIN r = 1 .. N /\ Len(r) = N /\ n \in 0 .. N - 1
            BY <1>1, <2>2, <2>3
        <2> DEFINE src == [i \in 1 .. N |-> IF i <= n THEN i ELSE IF i = n + 1 THEN N ELSE i - 1]
        <2>5. src \in [DOMAIN r -> DOMAIN elements]
            BY <1>1, <2>4
        <2>6. \A i, j \in DOMAIN r : src[i] = src[j] => i = j
            BY <1>1, <2>4
        <2>7. ASSUME NEW i \in DOMAIN r
              PROVE  /\ Run(r[i]) /\ r[i] \subseteq elements[src[i]]
                     /\ i \in 1 .. n \/ i = n + 1 \/ i \in n + 2 .. N
                     /\ i \in 1 .. n => i \in 1 .. N - 1 /\ r[i] = o[i]
                     /\ i \in n + 2 .. N => i - 1 \in 1 .. N - 1 /\ r[i] = o[i - 1]
            <3>1. i \in 1 .. n \/ i = n + 1 \/ i \in n + 2 .. N
                BY <1>1, <2>4
            <3>2. CASE i \in 1 .. n
                <4>1. i \in 1 .. N - 1 /\ r[i] = o[i] /\ src[i] = i /\ i # n + 1 /\ i \notin n + 2 .. N
                    BY <1>1, <2>3, <2>4, <3>2
                <4>2. Run(o[i]) /\ o[i] = elements[i]
                    BY <1>1, <4>1 DEF ElementsOK
                <4> QED BY <3>1, <4>1, <4>2
            <3>3. CASE i = n + 1
                <4>1. r[i] = rest /\ src[i] = N /\ i \notin 1 .. n /\ i \notin n + 2 .. N
                    BY <1>1, <2>3, <2>4, <3>3
                <4> QED BY <1>3, <2>1, <3>1, <4>1
            <3>4. CASE i \in n + 2 .. N
                <4>1. i - 1 \in 1 .. N - 1 /\ i \in n + 2 .. Len(o) + 1 /\ i \notin 1 .. n
                      /\ src[i] = i - 1
                    BY <1>1, <2>4, <3>4
                <4>2. r[i] = o[i - 1]
                    BY <2>3, <4>1
                <4>3. Run(o[i - 1]) /\ o[i - 1] = elements[i - 1]
                    BY <1>1, <4>1 DEF ElementsOK
                <4> QED BY <3>1, <4>1, <4>2, <4>3
            <3> QED BY <3>1, <3>2, <3>3, <3>4
        <2> HIDE DEF src
        <2>8. ElementsOK(r)
            BY <2>3, <2>5, <2>6, <2>7, PartsOfElements
        <2>9. Ordered(r)
            <3> SUFFICES ASSUME NEW i \in DOMAIN r, NEW j \in DOMAIN r, i < j
                         PROVE  cmp(r[i], r[j])
                BY DEF Ordered
            <3>1. n \in Nat /\ N \in Nat /\ i \in Nat /\ j \in Nat
                BY <1>1, <2>4
            <3>2. \A k, l \in 1 .. N - 1 : k < l => cmp(o[k], o[l])
                BY <1>1 DEF Ordered
            <3>3. CASE i \in 1 .. n /\ j \in 1 .. n
                BY <2>7, <3>2, <3>3
            <3>4. CASE i \in 1 .. n /\ j = n + 1
                <4>1. i \in 1 .. Len(o) /\ i <= n
                    BY <1>1, <2>7, <3>4
                <4> QED BY <2>2, <2>3, <3>4, <4>1
            <3>5. CASE i \in 1 .. n /\ j \in n + 2 .. N
                <4>1. i < j - 1
                    BY <3>1, <3>5
                <4> QED BY <2>7, <3>2, <3>5, <4>1
            <3>6. CASE i = n + 1 /\ j \in n + 2 .. N
                <4>1. j - 1 \in 1 .. Len(o) /\ ~(j - 1 <= n)
                    BY <1>1, <2>7, <3>1, <3>6
                <4>2. ~cmp(r[j], r[i])
                    BY <2>2, <2>3, <2>7, <3>6, <4>1
                <4>3. Run(r[i]) /\ Run(r[j]) /\ i # j
                    BY <2>7, <3>1
                <4>4. \A p \in r[i], q \in r[j] : p.key = q.key => p.idx # q.idx
                    BY <2>8, <4>3 DEF ElementsOK, Apart
                <4> QED BY <4>2, <4>3, <4>4, CmpTotal
            <3>7. CASE i \in n + 2 .. N /\ j \in n + 2 .. N
                <4>1. i - 1 < j - 1
                    BY <3>1
                <4> QED BY <2>7, <3>2, <3>7, <4>1
            <3>8. \/ i \in 1 .. n /\ j \in 1 .. n
                  \/ i \in 1 .. n /\ j = n + 1
                  \/ i \in 1 .. n /\ j \in n + 2 .. N
                  \/ i = n + 1 /\ j \in n + 2 .. N
                  \/ i \in n + 2 .. N /\ j \in n + 2 .. N
                <4>1. i \in 1 .. N /\ j \in 1 .. N
                    BY <2>4
                <4> QED BY ONLY <3>1, <4>1, i < j
            <3> QED BY <3>3, <3>4, <3>5, <3>6, <3>7, <3>8
        <2>10. \A p : p \in Left(r) <=> p \in rest \/ \E i \in 1 .. N - 1 : p \in elements[i]
            <3>1. \A p : p \in Left(r) <=> \E i \in 1 .. N : p \in r[i]
                BY <2>3, <2>4, LeftOf
            <3>2. ASSUME NEW i \in 1 .. N, NEW p \in r[i]
                  PROVE  p \in rest \/ \E k \in 1 .. N - 1 : p \in elements[k]
                <4>1. CASE i \in 1 .. n
                    BY <1>1, <2>4, <2>7, <3>2, <4>1
                <4>2. CASE i = n + 1
                    BY <2>3, <3>2, <4>2
                <4>3. CASE i \in n + 2 .. N
                    BY <1>1, <2>4, <2>7, <3>2, <4>3
                <4> QED BY <2>4, <2>7, <4>1, <4>2, <4>3
            <3>3. ASSUME NEW k \in 1 .. N - 1
                  PROVE  \E i \in 1 .. N : r[i] = elements[k]
                <4>1. CASE k <= n
                    <5>1. k \in 1 .. n /\ k \in 1 .. N
                        BY <1>1, <2>4, <4>1
                    <5> QED BY <1>1, <2>3, <5>1
                <4>2. CASE ~(k <= n)
                    <5>1. k + 1 \in n + 2 .. Len(o) + 1 /\ k + 1 \in 1 .. N /\ (k + 1) - 1 = k
                        BY <1>1, <2>4, <4>2
                    <5>2. r[k + 1] = o[k]
                        BY <2>3, <5>1
                    <5> QED BY <1>1, <5>1, <5>2
                <4> QED BY <4>1, <4>2
            <3>4. n + 1 \in 1 .. N /\ r[n + 1] = rest
                BY <1>1, <2>3, <2>4
            <3> QED BY <3>1, <3>2, <3>3, <3>4
        <2>11. advance(elements) = r
            BY <1>4, <1>7 DEF r, n
        <2> QED BY <2>8, <2>9, <2>10, <2>11 DEF rest, N
    <1> QED BY <1>6, <1>7

\* The next part of the same value leaves the order alone.
LEMMA NextPartElements ==
    ASSUME NEW elements, ElementsOK(elements), Ordered(elements), elements # <<>>,
           ~Current(Last(elements)).eor
    PROVE  LET r == Append(Front(elements), Rest(Last(elements)))
           IN  /\ ElementsOK(r) /\ Ordered(r) /\ r # <<>>
               /\ Last(r) = Rest(Last(elements))
               /\ \A p : p \in Left(r) <=>
                     p \in Rest(Last(elements)) \/ \E i \in 1 .. Len(elements) - 1 : p \in elements[i]
    <1> DEFINE o == Front(elements)
               rest == Rest(Last(elements))
               N == Len(elements)
               r == Append(o, rest)
    <1>1. /\ ElementsOK(o) /\ Ordered(o)
          /\ Len(o) = N - 1 /\ N \in Nat \ {0}
          /\ DOMAIN o = 1 .. N - 1 /\ DOMAIN elements = 1 .. N
          /\ \A i \in 1 .. N - 1 : i \in DOMAIN elements /\ i # N /\ o[i] = elements[i]
        BY FrontElements
    <1>2. Run(Last(elements)) /\ Last(elements) = elements[N]
        BY LastIsNewest
    <1>3. /\ rest # {}
          /\ Current(rest).key = Current(elements[N]).key
          /\ Current(rest).idx = Current(elements[N]).idx
        BY <1>2, MoreParts
    <1>4. rest \subseteq elements[N] /\ Run(rest)
        BY <1>2, <1>3, RestIsRun
    <1> HIDE DEF o, rest, N
    <1>5. o \in Seq(SUBSET Part) /\ rest \in SUBSET Part
        BY <1>1, <1>4 DEF ElementsOK, Run
    <1>6. /\ r \in Seq(SUBSET Part) /\ Len(r) = Len(o) + 1
          /\ \A i \in 1 .. Len(o) : r[i] = o[i]
          /\ r[Len(o) + 1] = rest
        BY <1>5, AppendProperties
    <1> HIDE DEF r
    <1>7. Len(r) = N /\ DOMAIN r = 1 .. N /\ r # <<>>
        BY <1>1, <1>6, LenProperties, EmptySeq
    <1>8. r[N] = rest /\ \A i \in 1 .. N - 1 : r[i] = elements[i] /\ i \in 1 .. N
        BY <1>1, <1>6
    <1> DEFINE src == [i \in 1 .. N |-> i]
    <1>9. ASSUME NEW i \in DOMAIN r PROVE Run(r[i]) /\ r[i] \subseteq elements[src[i]]
        <2>1. i = N \/ i \in 1 .. N - 1
            BY <1>1, <1>7
        <2>2. src[i] = i
            BY <1>7
        <2>3. \A k \in 1 .. N : Run(elements[k])
            BY <1>1 DEF ElementsOK
        <2> QED BY <1>4, <1>8, <2>1, <2>2, <2>3
    <1>10. src \in [DOMAIN r -> DOMAIN elements] /\ \A i, j \in DOMAIN r : src[i] = src[j] => i = j
        BY <1>1, <1>7
    <1> HIDE DEF src
    <1>11. ElementsOK(r)
        BY <1>6, <1>9, <1>10, PartsOfElements
    <1>12. Ordered(r)
        <2> SUFFICES ASSUME NEW i \in DOMAIN r, NEW j \in DOMAIN r, i < j
                     PROVE  cmp(r[i], r[j])
            BY DEF Ordered
        <2>1. i \in 1 .. N - 1 /\ i \in DOMAIN elements /\ j \in DOMAIN elements
            BY <1>1, <1>7
        <2>2. cmp(elements[i], elements[j])
            BY <2>1 DEF Ordered
        <2>3. r[i] = elements[i]
            BY <1>8, <2>1
        <2>4. CASE j = N
            BY <1>3, <1>8, <2>2, <2>3, <2>4 DEF cmp
        <2>5. CASE j # N
            <3>1. j \in 1 .. N - 1
                BY <1>1, <2>1, <2>5
            <3> QED BY <1>8, <2>2, <2>3, <3>1
        <2> QED BY <2>4, <2>5
    <1>13. \A p : p \in Left(r) <=> p \in rest \/ \E i \in 1 .. N - 1 : p \in elements[i]
        <2>1. \A p : p \in Left(r) <=> \E i \in 1 .. N : p \in r[i]
            BY <1>6, <1>7, LeftOf
        <2>2. \A i \in 1 .. N : i = N \/ i \in 1 .. N - 1
            BY <1>1
        <2>3. N \in 1 .. N
            BY <1>1
        <2> QED BY <1>8, <2>1, <2>2, <2>3
    <1>14. Last(r) = rest
        BY <1>7, <1>8 DEF Last
    <1> QED BY <1>7, <1>11, <1>12, <1>13, <1>14 DEF r, o, rest, N

-----------------------------------------------------------------------------
(* What next() has yielded and what is left. *)

AllParts == UNION {slices[s] : s \in Slices}

InRange(p) == p.key >= min_key /\ ~OutOfBounds(p)

LEMMA WantedIsNewest ==
    \A p : p \in Wanted <=> /\ p \in AllParts /\ InRange(p)
                            /\ \A q \in AllParts : q.key = p.key => q.idx <= p.idx
    <1> DEFINE entries == {[key |-> p.key, idx |-> p.idx, deleted |-> FALSE] : p \in AllParts}
    <1>1. \A p : p \in Wanted <=>
             /\ p \in AllParts /\ InRange(p)
             /\ \E e \in Newest(entries) : e.key = p.key /\ e.idx = p.idx
        BY DEF Wanted, AllParts, InRange
    <1>2. ASSUME NEW p \in AllParts
          PROVE  (\E e \in Newest(entries) : e.key = p.key /\ e.idx = p.idx)
                    <=> \A q \in AllParts : q.key = p.key => q.idx <= p.idx
        <2> DEFINE f == [key |-> p.key, idx |-> p.idx, deleted |-> FALSE]
        <2>1. f \in entries /\ f.key = p.key /\ f.idx = p.idx
            OBVIOUS
        <2>2. ASSUME NEW e \in Newest(entries), e.key = p.key, e.idx = p.idx,
                     NEW q \in AllParts, q.key = p.key
              PROVE  q.idx <= p.idx
            <3> DEFINE g == [key |-> q.key, idx |-> q.idx, deleted |-> FALSE]
            <3>1. g \in entries /\ g.key = q.key /\ g.idx = q.idx
                OBVIOUS
            <3> HIDE DEF g, entries
            <3>2. g.key = e.key => g.idx <= e.idx
                BY <2>2, <3>1 DEF Newest
            <3> QED BY <2>2, <3>1, <3>2
        <2>3. ASSUME \A q \in AllParts : q.key = p.key => q.idx <= p.idx
              PROVE  f \in Newest(entries)
            <3>1. ASSUME NEW g \in entries, g.key = f.key PROVE g.idx <= f.idx
                <4>1. PICK q \in AllParts : g = [key |-> q.key, idx |-> q.idx, deleted |-> FALSE]
                    OBVIOUS
                <4>2. g.key = q.key /\ g.idx = q.idx
                    BY <4>1
                <4> QED BY <2>1, <2>3, <3>1, <4>2
            <3> HIDE DEF f, entries
            <3> QED BY <2>1, <3>1 DEF Newest
        <2> HIDE DEF f, entries
        <2> QED BY <2>1, <2>2, <2>3
    <1> HIDE DEF entries
    <1> QED BY <1>1, <1>2

\* The elements es, the key last and the output o of a merge of the slices.
Given(es, last, o) ==
    /\ ElementsOK(es) /\ last \in Nat /\ o \in Seq(Part)
    /\ \A p \in Left(es) : p \in AllParts /\ p.key >= min_key
    /\ \A p \in AllParts : InRange(p) => p \in Left(es) \/ p.key <= last
    /\ Wanted \subseteq ToSet(o) \cup Left(es)
    /\ ToSet(o) \subseteq Wanted
    /\ \A i, j \in DOMAIN o : i < j => Before(o[i], o[j])
    /\ \A q \in ToSet(o) : q.key <= last
    /\ last = Unbounded => o = <<>>

\* Once it has begun, it is at an entry with the key last, which it has yielded, or,
\* in its loop, at one that this hides.
At(es, last, lp, o) ==
    es # <<>> /\ last # Unbounded =>
        /\ Ordered(es) /\ Current(Last(es)).key = last
        /\ lp => \A p \in Left(es) : p.key = last => p \notin Wanted
        /\ ~lp => o # <<>> /\ Last(o) = Current(Last(es))

MergeInv ==
    /\ AllParts \subseteq Part /\ min_key \in Nat /\ m_max_key \in Nat
    /\ Given(m_elements, m_last_key, out)
    /\ At(m_elements, m_last_key, loop, out)
    /\ ended => m_elements = <<>>

LEMMA AppendOut ==
    ASSUME NEW o \in Seq(Part), NEW x \in Part,
           \A i, j \in DOMAIN o : i < j => Before(o[i], o[j]),
           \A q \in ToSet(o) : Before(q, x)
    PROVE  /\ Append(o, x) \in Seq(Part) /\ Append(o, x) # <<>>
           /\ ToSet(Append(o, x)) = ToSet(o) \cup {x}
           /\ Last(Append(o, x)) = x
           /\ \A i, j \in DOMAIN Append(o, x) : i < j => Before(Append(o, x)[i], Append(o, x)[j])
    <1> DEFINE r == Append(o, x)
    <1>1. /\ r \in Seq(Part) /\ Len(r) = Len(o) + 1
          /\ \A i \in 1 .. Len(o) : r[i] = o[i]
          /\ r[Len(o) + 1] = x
        BY AppendProperties
    <1>2. ToSet(r) = ToSet(o) \cup {x}
        BY AppendSet
    <1> HIDE DEF r
    <1>3. /\ Len(o) \in Nat /\ DOMAIN o = 1 .. Len(o) /\ DOMAIN r = 1 .. Len(o) + 1
          /\ \A i \in 1 .. Len(o) : o[i] \in ToSet(o)
        BY <1>1, LenProperties, InToSet
    <1>4. r # <<>> /\ Last(r) = x
        BY <1>1, <1>3, EmptySeq DEF Last
    <1>5. ASSUME NEW i \in DOMAIN r, NEW j \in DOMAIN r, i < j PROVE Before(r[i], r[j])
        <2>1. i \in 1 .. Len(o)
            BY <1>3, <1>5
        <2>2. CASE j \in 1 .. Len(o)
            BY <1>1, <1>3, <1>5, <2>1, <2>2
        <2>3. CASE j = Len(o) + 1
            BY <1>1, <1>3, <2>1, <2>3
        <2> QED BY <1>3, <2>2, <2>3
    <1> QED BY <1>1, <1>2, <1>4, <1>5 DEF r

\* The current part of the last element is the next to yield if its key is new.
LEMMA YieldNewKey ==
    ASSUME AllParts \subseteq Part, min_key \in Nat, m_max_key \in Nat,
           NEW es, NEW last, NEW o, NEW x, Given(es, last, o),
           es # <<>>, Ordered(es), x = Current(Last(es)), x.key > last, ~OutOfBounds(x)
    PROVE  /\ Given(es, x.key, Append(o, x))
           /\ At(es, x.key, FALSE, Append(o, x))
    <1>1. ElementsOK(es) /\ last \in Nat /\ o \in Seq(Part)
        BY DEF Given
    <1>2. /\ Len(es) \in DOMAIN es /\ Run(Last(es)) /\ Last(es) = es[Len(es)]
          /\ \A i \in DOMAIN es : \A p \in es[i] :
                /\ x.key <= p.key
                /\ p.key = x.key /\ i # Len(es) => p.idx < x.idx
        BY <1>1, LastIsNewest
    <1>3. DOMAIN es = 1 .. Len(es) /\ \A p : p \in Left(es) <=> \E i \in 1 .. Len(es) : p \in es[i]
        BY <1>1, LenProperties, LeftOf DEF ElementsOK
    <1>4. x \in Last(es) /\ x \in Part
        BY <1>2, CurrentIsFirst
    <1>5. x \in Left(es)
        BY <1>2, <1>3, <1>4
    <1>6. x \in AllParts /\ x.key >= min_key /\ InRange(x)
        BY <1>5 DEF Given, InRange
    <1>7. x.key \in Nat \ {0} /\ x.idx \in Nat
        BY <1>4, PartNumbers
    <1>8. ASSUME NEW q \in AllParts, q.key = x.key PROVE q.idx <= x.idx
        <2>1. q \in Part /\ InRange(q)
            BY <1>6, <1>8 DEF InRange, OutOfBounds
        <2>2. q \in Left(es)
            BY <1>1, <1>7, <1>8, <2>1 DEF Given
        <2>3. PICK i \in 1 .. Len(es) : q \in es[i]
            BY <1>3, <2>2
        <2>4. q.idx \in Nat
            BY <2>1, PartNumbers
        <2>5. CASE i = Len(es)
            <3>1. q.idx = x.idx
                BY <1>2, <1>4, <1>8, <2>3, <2>5 DEF Run, OneValuePerKey
            <3> QED BY <1>7, <3>1
        <2>6. CASE i # Len(es)
            <3>1. i \in DOMAIN es
                BY <1>3
            <3>2. q.idx < x.idx
                BY <1>2, <1>8, <2>3, <2>6, <3>1
            <3> QED BY <1>7, <2>4, <3>2
        <2> QED BY <2>5, <2>6
    <1>9. x \in Wanted
        BY <1>6, <1>8, WantedIsNewest
    <1>10. \A q \in ToSet(o) : q \in Part /\ q.key \in Nat /\ q.key <= last
        <2>1. ToSet(o) \subseteq Part
            BY <1>1, InToSet
        <2> QED BY <2>1, PartNumbers DEF Given
    <1>11. \A q \in ToSet(o) : Before(q, x)
        BY <1>1, <1>7, <1>10 DEF Before
    <1> DEFINE r == Append(o, x)
    <1>12. /\ r \in Seq(Part) /\ r # <<>> /\ ToSet(r) = ToSet(o) \cup {x} /\ Last(r) = x
           /\ \A i, j \in DOMAIN r : i < j => Before(r[i], r[j])
        BY <1>1, <1>4, <1>11, AppendOut DEF Given
    <1> HIDE DEF r
    <1>13. /\ ToSet(r) \subseteq Wanted
           /\ Wanted \subseteq ToSet(r) \cup Left(es)
        BY <1>9, <1>12 DEF Given
    <1>14. \A q \in ToSet(r) : q.key <= x.key
        BY <1>1, <1>7, <1>10, <1>12
    <1>15. \A p \in AllParts : InRange(p) => p \in Left(es) \/ p.key <= x.key
        <2>1. \A p \in AllParts : p.key \in Nat
            BY PartNumbers
        <2> QED BY <1>1, <1>7, <2>1 DEF Given
    <1>16. Given(es, x.key, r)
        BY <1>7, <1>12, <1>13, <1>14, <1>15 DEF Given, Unbounded
    <1>17. At(es, x.key, FALSE, r)
        BY <1>12 DEF At
    <1> QED BY <1>16, <1>17 DEF r

\* When the last element is out of bounds, or there is none, everything that is
\* wanted was yielded.
LEMMA EndIsComplete ==
    ASSUME AllParts \subseteq Part, min_key \in Nat, m_max_key \in Nat,
           NEW es, NEW last, NEW o, NEW next \in Nat, Given(es, last, o), last <= next,
           es # <<>> => Ordered(es) /\ OutOfBounds(Current(Last(es))),
           next = Unbounded => last = Unbounded
    PROVE  Given(<<>>, next, o)
    <1>1. ElementsOK(es) /\ last \in Nat /\ o \in Seq(Part)
        BY DEF Given
    <1>2. ASSUME NEW p \in Left(es) PROVE ~InRange(p)
        <2>1. DOMAIN es = 1 .. Len(es) /\ \A q : q \in Left(es) <=> \E i \in 1 .. Len(es) : q \in es[i]
            BY <1>1, LenProperties, LeftOf DEF ElementsOK
        <2>2. PICK i \in 1 .. Len(es) : p \in es[i]
            BY <2>1
        <2>3. es # <<>>
            BY <2>2
        <2> DEFINE x == Current(Last(es))
        <2>4. Run(Last(es)) /\ x.key <= p.key
            BY <1>1, <2>1, <2>2, <2>3, LastIsNewest
        <2>5. x \in Part /\ p \in AllParts
            BY <2>4, CurrentIsFirst DEF Given
        <2>6. x.key \in Nat /\ p.key \in Nat
            BY <2>5, PartNumbers
        <2>7. OutOfBounds(x)
            BY <2>3
        <2> HIDE DEF x
        <2> QED BY <2>4, <2>6, <2>7 DEF InRange, OutOfBounds
    <1>3. Wanted \subseteq ToSet(o)
        BY <1>2, WantedIsNewest DEF Given
    <1>4. ElementsOK(<<>>) /\ Left(<<>>) = {}
        BY ShortSeqs DEF ElementsOK, Apart, Left
    <1>5. \A p \in AllParts : InRange(p) => p.key <= next
        <2>1. \A p \in AllParts : p.key \in Nat
            BY PartNumbers
        <2> QED BY <1>1, <1>2, <2>1 DEF Given
    <1>6. \A q \in ToSet(o) : q.key <= next
        <2>1. \A q \in ToSet(o) : q.key \in Nat
            BY <1>1, InToSet, PartNumbers
        <2> QED BY <1>1, <2>1 DEF Given
    <1> QED BY <1>1, <1>3, <1>4, <1>5, <1>6 DEF Given

LEMMA LastIndex ==
    ASSUME NEW n \in Nat
    PROVE  /\ \A i \in 1 .. n - 1 : i \in 1 .. n /\ i # n
           /\ \A i \in 1 .. n : i = n \/ (i \in 1 .. n - 1 /\ i < n /\ n \in 1 .. n)
    OBVIOUS

\* Leaving an entry that was yielded whole, or one that is hidden, loses nothing.
LEMMA AdvanceLosesNothing ==
    ASSUME AllParts \subseteq Part,
           NEW es, NEW last, NEW lp, NEW o, Given(es, last, o), At(es, last, lp, o),
           es # <<>>, last # Unbounded, lp \/ Current(Last(es)).eor
    PROVE  /\ Given(advance(es), last, o) /\ Ordered(advance(es))
           /\ \A p \in Left(advance(es)) : /\ last <= p.key
                                           /\ p.key = last => p \notin Wanted
    <1> DEFINE c == Current(Last(es))
               new == advance(es)
    <1>1. ElementsOK(es) /\ Ordered(es) /\ last \in Nat /\ o \in Seq(Part)
        BY DEF Given, At
    <1>2. /\ ElementsOK(new) /\ Ordered(new)
          /\ \A p : p \in Left(new) <=>
                p \in Rest(Last(es)) \/ \E i \in 1 .. Len(es) - 1 : p \in es[i]
        BY <1>1, AdvanceElements
    <1>3. /\ Len(es) \in DOMAIN es /\ Run(Last(es)) /\ Last(es) = es[Len(es)]
          /\ \A i \in DOMAIN es : \A p \in es[i] :
                /\ c.key <= p.key
                /\ p.key = c.key /\ i # Len(es) => p.idx < c.idx
        BY <1>1, LastIsNewest
    <1>4. /\ c.key = last
          /\ lp => \A p \in Left(es) : p.key = last => p \notin Wanted
          /\ ~lp => o # <<>> /\ Last(o) = c
        BY DEF At
    <1>5. /\ DOMAIN es = 1 .. Len(es) /\ Len(es) \in Nat
          /\ \A p : p \in Left(es) <=> \E i \in 1 .. Len(es) : p \in es[i]
        BY <1>1, LenProperties, LeftOf DEF ElementsOK
    <1>6. /\ Rest(Last(es)) \subseteq Last(es)
          /\ \A p \in Last(es) : p = c \/ p \in Rest(Last(es))
          /\ \A p \in Rest(Last(es)) : Before(c, p)
        BY <1>3, RestIsRun
    <1>7. c \in Last(es) /\ c \in Part
        BY <1>3, CurrentIsFirst
    <1> HIDE DEF c, new
    <1>8. \A i \in 1 .. Len(es) - 1 : i \in DOMAIN es /\ i # Len(es)
        BY <1>5, LastIndex
    <1>9. /\ \A p \in Left(new) : p \in Left(es)
          /\ \A p \in Left(es) : p = c \/ p \in Left(new)
        <2>1. \A i \in 1 .. Len(es) : i = Len(es) \/ i \in 1 .. Len(es) - 1
            BY <1>5, LastIndex
        <2> QED BY <1>2, <1>3, <1>5, <1>6, <1>8, <2>1
    <1>10. ASSUME NEW p \in Left(new) PROVE last <= p.key
        BY <1>3, <1>4, <1>5, <1>9
    <1>11. ASSUME ~lp PROVE c \in ToSet(o) /\ c \in Wanted
        <2>1. Len(o) \in 1 .. Len(o) /\ Last(o) = o[Len(o)]
            BY <1>1, <1>4, <1>11, LenProperties, EmptySeq DEF Last
        <2>2. c \in ToSet(o)
            BY <1>1, <1>4, <1>11, <2>1, InToSet
        <2> QED BY <2>2 DEF Given
    <1>12. ASSUME NEW p \in Left(new), p.key = last PROVE p \notin Wanted
        <2>1. CASE lp
            BY <1>4, <1>9, <1>12, <2>1
        <2>2. CASE ~lp
            <3>1. p \in AllParts /\ p \in Part /\ c \in AllParts
                BY <1>9, <1>11, <2>2, WantedIsNewest DEF Given
            <3>2. /\ p.idx \in Nat /\ c.idx \in Nat /\ p.part \in Nat /\ c.part \in Nat
                  /\ p.key \in Nat /\ c.key \in Nat
                BY <1>7, <3>1, PartNumbers
            <3>3. p \notin Rest(Last(es))
                <4> SUFFICES ASSUME p \in Rest(Last(es)) PROVE FALSE
                    OBVIOUS
                <4>1. Before(c, p) /\ p \in Last(es)
                    BY <1>6
                <4>2. c.eor
                    BY <2>2 DEF c
                <4>3. p.part <= c.part
                    BY <1>3, <1>4, <1>7, <1>12, <4>1, <4>2 DEF Run, OneValuePerKey
                <4> QED BY <1>4, <1>12, <3>2, <4>1, <4>3 DEF Before
            <3>4. PICK i \in 1 .. Len(es) - 1 : p \in es[i]
                BY <1>2, <3>3
            <3>5. p.idx < c.idx
                BY <1>3, <1>4, <1>8, <1>12, <3>4
            <3> QED BY <1>4, <1>12, <3>1, <3>2, <3>5, WantedIsNewest
        <2> QED BY <2>1, <2>2
    <1>13. c \notin Wanted \/ c \in ToSet(o)
        <2>1. CASE lp
            <3>1. c \in Left(es)
                BY <1>3, <1>5, <1>7
            <3> QED BY <1>4, <2>1, <3>1
        <2>2. CASE ~lp
            BY <1>11, <2>2
        <2> QED BY <2>1, <2>2
    <1>14. Wanted \subseteq ToSet(o) \cup Left(new)
        BY <1>9, <1>13 DEF Given
    <1>15. \A p \in AllParts : InRange(p) => p \in Left(new) \/ p.key <= last
        BY <1>1, <1>4, <1>9 DEF Given
    <1>16. \A p \in Left(new) : p \in AllParts /\ p.key >= min_key
        BY <1>9 DEF Given
    <1>17. Given(new, last, o)
        BY <1>2, <1>14, <1>15, <1>16 DEF Given
    <1> QED BY <1>2, <1>10, <1>12, <1>17 DEF new

\* The next part of a value belongs behind those that were yielded.
LEMMA YieldNextPart ==
    ASSUME AllParts \subseteq Part,
           NEW es, NEW last, NEW o, Given(es, last, o), At(es, last, FALSE, o),
           es # <<>>, last # Unbounded, ~Current(Last(es)).eor,
           NEW r, r = Append(Front(es), Rest(Last(es))), NEW x, x = Current(Last(r))
    PROVE  Given(r, last, Append(o, x)) /\ At(r, last, FALSE, Append(o, x))
    <1> DEFINE c == Current(Last(es))
    <1>1. ElementsOK(es) /\ Ordered(es) /\ last \in Nat /\ o \in Seq(Part)
        BY DEF Given, At
    <1>2. /\ ElementsOK(r) /\ Ordered(r) /\ r # <<>> /\ Last(r) = Rest(Last(es))
          /\ \A p : p \in Left(r) <=>
                p \in Rest(Last(es)) \/ \E i \in 1 .. Len(es) - 1 : p \in es[i]
        BY <1>1, NextPartElements
    <1>3. Len(es) \in DOMAIN es /\ Run(Last(es)) /\ Last(es) = es[Len(es)]
        BY <1>1, LastIsNewest
    <1>4. c.key = last /\ o # <<>> /\ Last(o) = c
        BY DEF At
    <1>5. /\ DOMAIN es = 1 .. Len(es) /\ Len(es) \in Nat
          /\ \A p : p \in Left(es) <=> \E i \in 1 .. Len(es) : p \in es[i]
        BY <1>1, LenProperties, LeftOf DEF ElementsOK
    <1>6. /\ Rest(Last(es)) \subseteq Last(es)
          /\ \A p \in Last(es) : p = c \/ p \in Rest(Last(es))
          /\ \A p \in Rest(Last(es)) : Before(c, p)
        BY <1>3, RestIsRun
    <1>7. c \in Last(es) /\ c \in Part
        BY <1>3, CurrentIsFirst
    <1>8. x \in Rest(Last(es)) /\ x.key = c.key /\ x.idx = c.idx
        BY <1>2, <1>3, MoreParts
    <1> HIDE DEF c
    <1>9. /\ \A p \in Left(r) : p \in Left(es)
          /\ \A p \in Left(es) : p = c \/ p \in Left(r)
        <2>1. \A i \in 1 .. Len(es) : i = Len(es) \/ i \in 1 .. Len(es) - 1
            BY <1>5, LastIndex
        <2>2. \A i \in 1 .. Len(es) - 1 : i \in 1 .. Len(es)
            BY <1>5, LastIndex
        <2> QED BY <1>2, <1>3, <1>5, <1>6, <2>1, <2>2
    <1>10. c \in ToSet(o) /\ c \in Wanted
        <2>1. Len(o) \in 1 .. Len(o) /\ Last(o) = o[Len(o)]
            BY <1>1, <1>4, LenProperties, EmptySeq DEF Last
        <2>2. c \in ToSet(o)
            BY <1>1, <1>4, <2>1, InToSet
        <2> QED BY <2>2 DEF Given
    <1>11. x \in Left(r) /\ x \in AllParts /\ x \in Part
        BY <1>2, <1>8, <1>9 DEF Given
    <1>12. x \in Wanted
        <2>1. InRange(x)
            BY <1>8, <1>10, WantedIsNewest DEF InRange, OutOfBounds
        <2> QED BY <1>8, <1>10, <1>11, <2>1, WantedIsNewest
    <1>13. \A q \in ToSet(o) : Before(q, x)
        <2> SUFFICES ASSUME NEW q \in ToSet(o) PROVE Before(q, x)
            OBVIOUS
        <2>1. PICK i \in 1 .. Len(o) : o[i] = q
            BY <1>1, InToSet
        <2>2. DOMAIN o = 1 .. Len(o) /\ Len(o) \in Nat /\ Last(o) = o[Len(o)]
            BY <1>1, LenProperties DEF Last
        <2>3. q = c \/ Before(q, c)
            <3>1. CASE i = Len(o)
                BY <1>4, <2>1, <2>2, <3>1
            <3>2. CASE i # Len(o)
                <4>1. i < Len(o) /\ i \in DOMAIN o /\ Len(o) \in DOMAIN o
                    BY <2>1, <2>2, <3>2, LastIndex
                <4>2. Before(o[i], o[Len(o)])
                    BY <4>1 DEF Given
                <4> QED BY <1>4, <2>1, <2>2, <4>2
            <3> QED BY <3>1, <3>2
        <2>4. q \in Part
            BY <1>1, InToSet
        <2>5. /\ q.key \in Nat /\ q.part \in Nat /\ c.key \in Nat /\ c.part \in Nat
              /\ x.key \in Nat /\ x.part \in Nat
            BY <1>7, <1>11, <2>4, PartNumbers
        <2>6. Before(c, x)
            BY <1>6, <1>8
        <2> QED BY <2>3, <2>5, <2>6 DEF Before
    <1> DEFINE a == Append(o, x)
    <1>14. /\ a \in Seq(Part) /\ a # <<>> /\ ToSet(a) = ToSet(o) \cup {x} /\ Last(a) = x
           /\ \A i, j \in DOMAIN a : i < j => Before(a[i], a[j])
        BY <1>1, <1>11, <1>13, AppendOut DEF Given
    <1> HIDE DEF a
    <1>15. ToSet(a) \subseteq Wanted /\ Wanted \subseteq ToSet(a) \cup Left(r)
        BY <1>9, <1>10, <1>12, <1>14 DEF Given
    <1>16. \A q \in ToSet(a) : q.key <= last
        BY <1>1, <1>4, <1>8, <1>14 DEF Given
    <1>17. \A p \in AllParts : InRange(p) => p \in Left(r) \/ p.key <= last
        BY <1>1, <1>4, <1>9 DEF Given
    <1>18. \A p \in Left(r) : p \in AllParts /\ p.key >= min_key
        BY <1>9 DEF Given
    <1>19. Given(r, last, a)
        BY <1>1, <1>2, <1>14, <1>15, <1>16, <1>17, <1>18 DEF Given
    <1>20. At(r, last, FALSE, a)
        BY <1>2, <1>4, <1>8, <1>14 DEF At
    <1> QED BY <1>19, <1>20 DEF a

-----------------------------------------------------------------------------
(* The invariant. *)

\* The sequences of the elements of a set have all of them, once each.
LEMMA AllInSequence ==
    ASSUME NEW S, IsFiniteSet(S), NEW f \in SetToSeqs(S)
    PROVE  f \in Seq(S) /\ ToSet(f) = S /\ \A i, j \in DOMAIN f : f[i] = f[j] => i = j
    <1>1. Cardinality(S) \in Nat
        BY FS_CardinalityType
    <1>2. /\ f \in [1 .. Cardinality(S) -> S]
          /\ \A i, j \in 1 .. Cardinality(S) : i # j => f[i] # f[j]
        BY DEF SetToSeqs
    <1>3. f \in Seq(S) /\ DOMAIN f = 1 .. Cardinality(S)
        BY <1>1, <1>2, IsASeq
    <1>4. Len(f) = Cardinality(S)
        BY <1>1, <1>3, LenProperties
    <1>5. \A i, j \in DOMAIN f : f[i] = f[j] => i = j
        BY <1>2, <1>3
    <1>6. IsInjective(f)
        BY <1>5 DEF IsInjective
    <1>7. Cardinality(ToSet(f)) = Cardinality(S)
        BY <1>3, <1>4, <1>6, InjectiveLen
    <1>8. ToSet(f) \subseteq S
        BY <1>3, InToSet
    <1>9. ToSet(f) = S
        BY <1>7, <1>8, FS_Subset
    <1> QED BY <1>3, <1>5, <1>9

\* No two elements are equal, so that there are finitely many.
LEMMA ElementsDiffer ==
    ASSUME NEW es, ElementsOK(es)
    PROVE  /\ IsFiniteSet(ToSet(es))
           /\ \A i, j \in DOMAIN es : es[i] = es[j] => i = j
    <1>1. \A i, j \in DOMAIN es : es[i] = es[j] => i = j
        <2> SUFFICES ASSUME NEW i \in DOMAIN es, NEW j \in DOMAIN es, es[i] = es[j], i # j
                     PROVE  FALSE
            OBVIOUS
        <2>1. PICK p \in es[i] : TRUE
            BY DEF ElementsOK, Run
        <2>2. p \in es[j] /\ p.key = p.key /\ p.idx = p.idx
            BY <2>1
        <2> QED BY <2>1, <2>2 DEF ElementsOK, Apart
    <1>2. es \in Seq(SUBSET Part)
        BY DEF ElementsOK
    <1>3. IsInjective(es)
        BY <1>1 DEF IsInjective
    <1> QED BY <1>1, <1>2, <1>3, InjectiveLen

\* Any order of the same elements.
LEMMA Reordered ==
    ASSUME NEW es, ElementsOK(es), NEW new \in SetToSeqs(ToSet(es))
    PROVE  ElementsOK(new) /\ ToSet(new) = ToSet(es) /\ Left(new) = Left(es)
    <1> DEFINE S == ToSet(es)
    <1>1. IsFiniteSet(S)
        BY ElementsDiffer
    <1>2. es \in Seq(SUBSET Part)
        BY DEF ElementsOK
    <1>3. /\ DOMAIN es = 1 .. Len(es) /\ S \subseteq SUBSET Part
          /\ \A x : x \in S <=> \E i \in 1 .. Len(es) : es[i] = x
        BY <1>2, InToSet, LenProperties
    <1> HIDE DEF S
    <1>4. new \in Seq(S) /\ ToSet(new) = S /\ \A i, j \in DOMAIN new : new[i] = new[j] => i = j
        BY <1>1, AllInSequence DEF S
    <1>5. new \in Seq(SUBSET Part)
        BY <1>3, <1>4, SeqMonotonic
    <1>6. \A i \in DOMAIN new : new[i] \in S
        BY <1>4, ElementOfSeq, LenProperties
    <1>7. \A i \in DOMAIN new : \E k \in DOMAIN es : es[k] = new[i]
        BY <1>3, <1>6
    <1>8. \A i \in DOMAIN new : Run(new[i])
        BY <1>7 DEF ElementsOK
    <1>9. Apart(new)
        <2> SUFFICES ASSUME NEW i \in DOMAIN new, NEW j \in DOMAIN new, i # j,
                            NEW p \in new[i], NEW q \in new[j], p.key = q.key
                     PROVE  p.idx # q.idx
            BY DEF Apart
        <2>1. PICK k \in DOMAIN es : es[k] = new[i]
            BY <1>7
        <2>2. PICK l \in DOMAIN es : es[l] = new[j]
            BY <1>7
        <2>3. k # l
            BY <1>4, <2>1, <2>2
        <2> QED BY <2>1, <2>2, <2>3 DEF ElementsOK, Apart
    <1>10. Left(new) = Left(es)
        BY <1>4 DEF Left, S
    <1> QED BY <1>4, <1>5, <1>8, <1>9, <1>10 DEF ElementsOK, S

LEMMA PartsEqual ==
    ASSUME NEW p \in Part, NEW q \in Part,
           p.key = q.key, p.idx = q.idx, p.part = q.part, p.eor = q.eor
    PROVE  p = q
    <1>1. p = [key |-> p.key, idx |-> p.idx, part |-> p.part, eor |-> p.eor]
        BY DEF Part
    <1>2. q = [key |-> q.key, idx |-> q.idx, part |-> q.part, eor |-> q.eor]
        BY DEF Part
    <1> QED BY <1>1, <1>2, Zenon

\* What a slice has to give is a run, and no two slices have the same entry.
LEMMA SlicesAreRuns ==
    ASSUME NEW parts \in [Slices -> [Keys -> 0 .. MaxParts]],
           NEW idxs \in [Keys -> Bijection(Slices, 1 .. Cardinality(Slices))],
           slices = SliceContents(parts, idxs)
    PROVE  /\ \A s \in Slices : slices[s] \subseteq Part
           /\ \A s \in Slices : From(s) # {} => Run(From(s))
           /\ \A s, t \in Slices : s # t =>
                 \A p \in slices[s], q \in slices[t] : p.key = q.key => p.idx # q.idx
    <1>1. \A s \in Slices : \A p : p \in slices[s] <=>
             /\ p \in Part /\ p.idx = idxs[p.key][s]
             /\ p.part <= parts[s][p.key]
             /\ p.eor = (p.part = parts[s][p.key])
        BY DEF SliceContents
    <1>2. \A s \in Slices : slices[s] \subseteq Part
        BY <1>1
    <1>3. \A s \in Slices, k \in Keys : parts[s][k] \in Nat /\ parts[s][k] <= MaxParts
        BY MaxPartsAssumption
    <1>4. ASSUME NEW s \in Slices, From(s) # {} PROVE Run(From(s))
        <2>1. \A p : p \in From(s) <=> p \in slices[s] /\ p.key >= min_key
            BY DEF From
        <2>2. OneValuePerKey(From(s))
            <3> SUFFICES ASSUME NEW p \in From(s), NEW q \in From(s), p.key = q.key
                         PROVE  /\ p.idx = q.idx
                                /\ p.part = q.part => p = q
                                /\ p.eor => q.part <= p.part
                BY DEF OneValuePerKey
            <3>1. p \in Part /\ q \in Part
                BY <1>1, <2>1
            <3>2. p.idx = q.idx
                BY <1>1, <2>1
            <3>3. p.eor = (p.part = parts[s][p.key]) /\ q.eor = (q.part = parts[s][q.key])
                BY <1>1, <2>1
            <3>4. ASSUME p.part = q.part PROVE p = q
                <4>1. p.eor = q.eor
                    BY <3>3, <3>4
                <4> QED BY <3>1, <3>2, <3>4, <4>1, PartsEqual
            <3>5. p.eor => q.part <= p.part
                <4>1. q.part <= parts[s][p.key]
                    BY <1>1, <2>1
                <4> QED BY <3>3, <4>1
            <3> QED BY <3>2, <3>4, <3>5
        <2>3. PartsFollow(From(s))
            <3> SUFFICES ASSUME NEW p \in From(s), ~p.eor
                         PROVE  \E q \in From(s) : q.key = p.key /\ q.part = p.part + 1
                BY DEF PartsFollow
            <3>1. p \in Part /\ p.key >= min_key /\ p.part # parts[s][p.key] /\ p.part <= parts[s][p.key]
                  /\ p.idx = idxs[p.key][s]
                BY <1>1, <2>1
            <3>2. p.key \in Keys /\ p.part \in Nat /\ p.part \in 1 .. MaxParts
                  /\ p.idx \in 1 .. Cardinality(Slices)
                BY <3>1, PartNumbers DEF Part
            <3>3. parts[s][p.key] \in Nat /\ parts[s][p.key] <= MaxParts
                BY <1>3, <3>2
            <3>4. p.part + 1 <= parts[s][p.key] /\ p.part + 1 \in 1 .. MaxParts
                BY <3>1, <3>2, <3>3, MaxPartsAssumption
            <3> DEFINE b == (p.part + 1 = parts[s][p.key])
                       q == [key |-> p.key, idx |-> p.idx, part |-> p.part + 1, eor |-> b]
            <3>5. b \in BOOLEAN
                OBVIOUS
            <3> HIDE DEF b
            <3>6. q \in Part
                BY <3>2, <3>4, <3>5 DEF Part
            <3>7. q.key = p.key /\ q.idx = p.idx /\ q.part = p.part + 1 /\ q.eor = b
                OBVIOUS
            <3> HIDE DEF q
            <3>8. q.eor = (q.part = parts[s][q.key])
                BY <3>7 DEF b
            <3>9. q \in slices[s]
                BY <1>1, <3>1, <3>4, <3>6, <3>7, <3>8
            <3>10. q \in From(s)
                BY <2>1, <3>1, <3>7, <3>9
            <3> QED BY <3>7, <3>10
        <2>4. From(s) \subseteq Part
            BY <1>2, <2>1
        <2> QED BY <1>4, <2>2, <2>3, <2>4 DEF Run
    <1>5. ASSUME NEW s \in Slices, NEW t \in Slices, s # t,
                 NEW p \in slices[s], NEW q \in slices[t], p.key = q.key
          PROVE  p.idx # q.idx
        <2>1. p \in Part /\ p.idx = idxs[p.key][s] /\ q.idx = idxs[p.key][t]
            BY <1>1, <1>5
        <2>2. p.key \in Keys
            BY <2>1, PartNumbers
        <2>3. idxs[p.key] \in Injection(Slices, 1 .. Cardinality(Slices))
            BY <2>2 DEF Bijection
        <2> QED BY <1>5, <2>1, <2>3 DEF Injection, IsInjective
    <1> QED BY <1>2, <1>4, <1>5

LEMMA MergeInitInv ==
    ASSUME MergeInit
    PROVE  MergeInv
    <1> DEFINE kept == {s \in Slices : From(s) # {} /\ ~OutOfBounds(Current(From(s)))}
               S == {From(s) : s \in kept}
    <1>1. PICK parts \in [Slices -> [Keys -> 0 .. MaxParts]],
               idxs \in [Keys -> Bijection(Slices, 1 .. Cardinality(Slices))] :
                  slices = SliceContents(parts, idxs)
        BY DEF MergeInit
    <1>2. /\ \A s \in Slices : slices[s] \subseteq Part
          /\ \A s \in Slices : From(s) # {} => Run(From(s))
          /\ \A s, t \in Slices : s # t =>
                \A p \in slices[s], q \in slices[t] : p.key = q.key => p.idx # q.idx
        BY <1>1, SlicesAreRuns
    <1>3. /\ m_elements \in SetToSeqs(S)
          /\ m_last_key = 0 /\ out = <<>> /\ loop = FALSE /\ ended = FALSE
        BY DEF MergeInit, Unbounded
    <1>4. min_key \in Nat /\ m_max_key \in Nat
        BY KeysAssumption DEF MergeInit, Unbounded
    <1>5. AllParts \subseteq Part
        BY <1>2 DEF AllParts
    <1>6. IsFiniteSet(S)
        <2>1. kept \subseteq Slices
            OBVIOUS
        <2> DEFINE f == [s \in kept |-> From(s)]
        <2>2. f \in Surjection(kept, S)
            BY DEF Surjection
        <2>3. IsFiniteSet(kept)
            BY <2>1, SlicesAssumption, FS_Subset
        <2> HIDE DEF f, kept, S
        <2> QED BY <2>2, <2>3, FS_Surjection
    <1>7. \A x : x \in S <=> \E s \in kept : x = From(s)
        OBVIOUS
    <1>8. \A s \in kept : /\ s \in Slices /\ From(s) # {} /\ From(s) \subseteq Part
                          /\ From(s) \subseteq slices[s] /\ Run(From(s))
        BY <1>2 DEF From
    <1>9. S \subseteq SUBSET Part
        BY <1>7, <1>8
    <1>10. ASSUME NEW p \in AllParts, InRange(p) PROVE \E x \in S : p \in x
        <2>1. PICK s \in Slices : p \in slices[s]
            BY <1>10 DEF AllParts
        <2>2. p \in From(s) /\ p \in Part
            BY <1>2, <1>10, <2>1 DEF From, InRange
        <2>3. Run(From(s))
            BY <1>2, <2>2
        <2>4. Current(From(s)) \in Part /\ (p = Current(From(s)) \/ Before(Current(From(s)), p))
            BY <2>2, <2>3, CurrentIsFirst
        <2>5. p.key \in Nat /\ Current(From(s)).key \in Nat
            BY <2>2, <2>4, PartNumbers
        <2>6. Current(From(s)).key <= p.key
            BY <2>4, <2>5 DEF Before
        <2>7. ~OutOfBounds(Current(From(s)))
            BY <1>4, <1>10, <2>5, <2>6 DEF InRange, OutOfBounds
        <2>8. s \in kept
            BY <2>2, <2>7
        <2> QED BY <2>2, <2>8
    <1> HIDE DEF kept, S
    <1>11. /\ m_elements \in Seq(S) /\ ToSet(m_elements) = S
           /\ \A i, j \in DOMAIN m_elements : m_elements[i] = m_elements[j] => i = j
        BY <1>3, <1>6, AllInSequence
    <1>12. m_elements \in Seq(SUBSET Part)
        BY <1>9, <1>11, SeqMonotonic
    <1>13. \A i \in DOMAIN m_elements : \E s \in kept : m_elements[i] = From(s)
        <2>1. \A i \in DOMAIN m_elements : m_elements[i] \in S
            BY <1>11, ElementOfSeq, LenProperties
        <2> QED BY <1>7, <2>1
    <1>14. ElementsOK(m_elements)
        <2>1. \A i \in DOMAIN m_elements : Run(m_elements[i])
            BY <1>8, <1>13
        <2>2. Apart(m_elements)
            <3> SUFFICES ASSUME NEW i \in DOMAIN m_elements, NEW j \in DOMAIN m_elements, i # j,
                                NEW p \in m_elements[i], NEW q \in m_elements[j], p.key = q.key
                         PROVE  p.idx # q.idx
                BY DEF Apart
            <3>1. PICK s \in kept : m_elements[i] = From(s)
                BY <1>13
            <3>2. PICK t \in kept : m_elements[j] = From(t)
                BY <1>13
            <3>3. s # t
                BY <1>11, <3>1, <3>2
            <3>4. s \in Slices /\ t \in Slices /\ p \in slices[s] /\ q \in slices[t]
                BY <1>8, <3>1, <3>2
            <3> QED BY <1>2, <3>3, <3>4
        <2> QED BY <1>12, <2>1, <2>2 DEF ElementsOK
    <1>15. \A p \in Left(m_elements) : p \in AllParts /\ p.key >= min_key
        <2> SUFFICES ASSUME NEW p \in Left(m_elements) PROVE p \in AllParts /\ p.key >= min_key
            OBVIOUS
        <2>1. PICK s \in kept : p \in From(s)
            BY <1>7, <1>11 DEF Left
        <2> QED BY <1>8, <2>1 DEF From, AllParts
    <1>16. \A p \in AllParts : InRange(p) => p \in Left(m_elements)
        BY <1>10, <1>11 DEF Left
    <1>17. Wanted \subseteq Left(m_elements)
        BY <1>16, WantedIsNewest
    <1>18. ToSet(out) = {} /\ out \in Seq(Part) /\ DOMAIN out = {}
        BY <1>3, ShortSeqs
    <1>19. Given(m_elements, m_last_key, out)
        BY <1>3, <1>14, <1>15, <1>16, <1>17, <1>18 DEF Given
    <1>20. At(m_elements, m_last_key, loop, out)
        BY <1>3 DEF At, Unbounded
    <1> QED BY <1>3, <1>4, <1>5, <1>19, <1>20 DEF MergeInv

LEMMA MergeStepInv ==
    ASSUME MergeInv, [MergeNext]_mergeVars
    PROVE  MergeInv'
    <1>1. /\ AllParts \subseteq Part /\ min_key \in Nat /\ m_max_key \in Nat
          /\ Given(m_elements, m_last_key, out)
          /\ At(m_elements, m_last_key, loop, out)
          /\ ended => m_elements = <<>>
        BY DEF MergeInv
    <1>2. ElementsOK(m_elements) /\ m_last_key \in Nat /\ out \in Seq(Part)
        BY <1>1 DEF Given
    <1>3. slices' = slices /\ min_key' = min_key /\ m_max_key' = m_max_key
        BY DEF MergeNext, mergeVars, First, NextPart, Advance, NoElements
    <1>4. SUFFICES /\ Given(m_elements', m_last_key', out')
                   /\ At(m_elements', m_last_key', loop', out')
                   /\ ended' => m_elements' = <<>>
        <2>1. AllParts' = AllParts /\ Wanted' = Wanted
            BY <1>3 DEF AllParts, Wanted, OutOfBounds
        <2>2. \A p : InRange(p)' <=> InRange(p)
            BY <1>3 DEF InRange, OutOfBounds
        <2>3. Given(m_elements, m_last_key, out)'
            BY <1>3, <1>4, <2>1, <2>2 DEF Given
        <2>4. At(m_elements, m_last_key, loop, out)'
            BY <1>4, <2>1 DEF At
        <2> QED BY <1>1, <1>3, <1>4, <2>1, <2>3, <2>4 DEF MergeInv
    <1>5. At(<<>>, m_last_key', loop', out')
        BY DEF At
    <1>6. CASE First
        <2>1. m_elements # <<>> /\ m_last_key = 0
            BY <1>6 DEF First, Unbounded
        <2>2. PICK es \in SetToSeqs(ToSet(m_elements)) :
                 /\ Sorted(es) /\ m_last_key' = Current(Last(es)).key
                 /\ IF OutOfBounds(Current(Last(es))) THEN Ended ELSE Yielded(es)
            BY <1>6 DEF First
        <2> DEFINE x == Current(Last(es))
        <2>3. ElementsOK(es) /\ ToSet(es) = ToSet(m_elements) /\ Left(es) = Left(m_elements)
            BY <1>2, <2>2, Reordered
        <2>4. Ordered(es)
            BY <2>2, <2>3, SortedIsOrdered
        <2>5. es # <<>>
            <3>1. m_elements \in Seq(SUBSET Part)
                BY <1>2 DEF ElementsOK
            <3>2. Len(m_elements) \in Nat \ {0}
                BY <2>1, <3>1, LenProperties, EmptySeq
            <3>3. 1 \in 1 .. Len(m_elements)
                BY <3>2
            <3>4. m_elements[1] \in ToSet(es)
                BY <2>3, <3>1, <3>3, InToSet
            <3> QED BY <3>4, ShortSeqs
        <2>6. Given(es, m_last_key, out)
            BY <1>1, <2>3 DEF Given
        <2>7. Run(Last(es))
            BY <2>3, <2>4, <2>5, LastIsNewest
        <2>8. x.key \in Nat \ {0}
            BY <2>7, CurrentIsFirst, PartNumbers
        <2>9. CASE OutOfBounds(x)
            <3>1. Ended
                BY <2>2, <2>9
            <3>2. m_last_key <= x.key /\ (x.key = Unbounded => m_last_key = Unbounded)
                BY <2>1, <2>8 DEF Unbounded
            <3>3. Given(<<>>, x.key, out)
                BY <1>1, <2>4, <2>6, <2>8, <2>9, <3>2, EndIsComplete
            <3> QED BY <1>5, <2>2, <3>1, <3>3 DEF Ended
        <2>10. CASE ~OutOfBounds(x)
            <3>1. Yielded(es)
                BY <2>2, <2>10
            <3>2. x.key > m_last_key
                BY <2>1, <2>8
            <3>3. Given(es, x.key, Append(out, x)) /\ At(es, x.key, FALSE, Append(out, x))
                BY <1>1, <2>4, <2>5, <2>6, <2>10, <3>2, YieldNewKey
            <3>4. /\ m_elements' = es /\ out' = Append(out, x) /\ loop' = FALSE /\ ended' = ended
                  /\ m_last_key' = x.key
                BY <2>2, <3>1 DEF Yielded
            <3> QED BY <1>1, <2>1, <3>3, <3>4
        <2> QED BY <2>9, <2>10
    <1>7. CASE NextPart
        <2> DEFINE r == Append(Front(m_elements), Rest(Last(m_elements)))
                   x == Current(Last(r))
        <2>1. /\ m_elements # <<>> /\ m_last_key # Unbounded /\ ~loop
              /\ ~Current(Last(m_elements)).eor
              /\ m_elements' = r /\ out' = Append(out, x) /\ loop' = FALSE /\ ended' = ended
              /\ m_last_key' = m_last_key
            BY <1>7 DEF NextPart, Yielded
        <2>2. At(m_elements, m_last_key, FALSE, out)
            BY <1>1, <2>1 DEF At
        <2>3. Given(r, m_last_key, Append(out, x)) /\ At(r, m_last_key, FALSE, Append(out, x))
            BY <1>1, <2>1, <2>2, YieldNextPart
        <2> QED BY <1>1, <2>1, <2>3
    <1>8. CASE Advance
        <2> DEFINE es == advance(m_elements)
                   x == Current(Last(es))
                   more == es # <<>> /\ ~OutOfBounds(x)
        <2>1. /\ m_elements # <<>> /\ m_last_key # Unbounded
              /\ loop \/ Current(Last(m_elements)).eor
            BY <1>8 DEF Advance
        <2>2. \/ ~more /\ Ended /\ m_last_key' = m_last_key
              \/ /\ more /\ x.key # m_last_key
                 /\ Yielded(es) /\ m_last_key' = x.key
              \/ /\ more /\ x.key = m_last_key
                 /\ m_elements' = es /\ loop' = TRUE
                 /\ m_last_key' = m_last_key /\ out' = out /\ ended' = ended
            BY <1>8 DEF Advance
        <2>3. /\ Given(es, m_last_key, out) /\ Ordered(es)
              /\ \A p \in Left(es) : m_last_key <= p.key /\ (p.key = m_last_key => p \notin Wanted)
            BY <1>1, <2>1, AdvanceLosesNothing
        <2> HIDE DEF es
        <2>4. ASSUME es # <<>> PROVE x \in Left(es) /\ x.key \in Nat
            <3>1. ElementsOK(es) /\ es \in Seq(SUBSET Part)
                BY <2>3 DEF Given, ElementsOK
            <3>2. Len(es) \in DOMAIN es /\ Run(Last(es)) /\ Last(es) = es[Len(es)]
                BY <2>3, <2>4, <3>1, LastIsNewest
            <3>3. x \in Last(es) /\ x \in Part
                BY <3>2, CurrentIsFirst
            <3>4. DOMAIN es = 1 .. Len(es)
                BY <3>1, LenProperties
            <3>5. x \in Left(es)
                BY <3>1, <3>2, <3>3, <3>4, LeftOf
            <3> QED BY <3>3, <3>5, PartNumbers
        <2>5. CASE ~more /\ Ended /\ m_last_key' = m_last_key
            <3>1. es # <<>> => Ordered(es) /\ OutOfBounds(Current(Last(es)))
                BY <2>3, <2>5
            <3>2. m_last_key <= m_last_key
                BY <1>2
            <3>3. Given(<<>>, m_last_key, out)
                BY <1>1, <1>2, <2>3, <3>1, <3>2, EndIsComplete
            <3> QED BY <1>5, <2>5, <3>3 DEF Ended
        <2>6. CASE more /\ x.key # m_last_key /\ Yielded(es) /\ m_last_key' = x.key
            <3>1. x.key > m_last_key
                BY <1>2, <2>3, <2>4, <2>6
            <3>2. Given(es, x.key, Append(out, x)) /\ At(es, x.key, FALSE, Append(out, x))
                BY <1>1, <2>3, <2>6, <3>1, YieldNewKey
            <3>3. /\ m_elements' = es /\ out' = Append(out, x) /\ loop' = FALSE /\ ended' = ended
                  /\ m_last_key' = x.key
                BY <2>6 DEF Yielded
            <3> QED BY <1>1, <2>1, <3>2, <3>3
        <2>7. CASE /\ more /\ x.key = m_last_key
                   /\ m_elements' = es /\ loop' = TRUE
                   /\ m_last_key' = m_last_key /\ out' = out /\ ended' = ended
            <3>1. At(es, m_last_key, TRUE, out)
                BY <2>3, <2>7 DEF At
            <3> QED BY <1>1, <2>1, <2>3, <2>7, <3>1
        <2> QED BY <2>2, <2>5, <2>6, <2>7
    <1>9. CASE NoElements
        BY <1>1, <1>5, <1>9 DEF NoElements, Ended
    <1>10. CASE UNCHANGED mergeVars
        BY <1>1, <1>10 DEF mergeVars
    <1> QED BY <1>6, <1>7, <1>8, <1>9, <1>10 DEF MergeNext

LEMMA MergeInvYields ==
    ASSUME MergeInv
    PROVE  YieldsNewestInOrder
    <1>1. /\ AllParts \subseteq Part
          /\ Given(m_elements, m_last_key, out)
          /\ At(m_elements, m_last_key, loop, out)
          /\ ended => m_elements = <<>>
        BY DEF MergeInv
    <1>2. ElementsOK(m_elements) /\ m_last_key \in Nat /\ out \in Seq(Part)
        BY <1>1 DEF Given
    <1>3. Left(<<>>) = {}
        BY ShortSeqs DEF Left
    <1>4. ended => Wanted \subseteq ToSet(out)
        BY <1>1, <1>3 DEF Given
    <1>5. ASSUME NEW p \in Wanted \ ToSet(out), NEW q \in ToSet(out) PROVE Before(q, p)
        <2>1. p \in Left(m_elements) /\ p \in Part /\ q \in Part /\ q.key <= m_last_key
            BY <1>1, <1>2, InToSet DEF Given
        <2>2. /\ p.key \in Nat /\ p.part \in Nat /\ q.key \in Nat /\ q.part \in Nat
              /\ p.idx \in Nat
            BY <2>1, PartNumbers
        <2>3. m_elements # <<>> /\ out # <<>>
            BY <1>3, <2>1, ShortSeqs
        <2>4. m_last_key # Unbounded
            BY <1>1, <2>3 DEF Given
        <2> DEFINE c == Current(Last(m_elements))
        <2>5. Ordered(m_elements) /\ c.key = m_last_key
            BY <1>1, <2>3, <2>4 DEF At
        <2>6. /\ Len(m_elements) \in DOMAIN m_elements /\ Run(Last(m_elements))
              /\ Last(m_elements) = m_elements[Len(m_elements)]
              /\ \A i \in DOMAIN m_elements : \A r \in m_elements[i] :
                    /\ c.key <= r.key
                    /\ r.key = c.key /\ i # Len(m_elements) => r.idx < c.idx
            BY <1>2, <2>3, <2>5, LastIsNewest
        <2>7. PICK i \in DOMAIN m_elements : p \in m_elements[i]
            BY <1>2, <2>1, LeftOf, LenProperties DEF ElementsOK
        <2>8. /\ c \in Last(m_elements) /\ c \in Part
              /\ \A r \in Last(m_elements) : r = c \/ Before(c, r)
            BY <2>6, CurrentIsFirst
        <2>9. c.key \in Nat /\ c.idx \in Nat /\ c.part \in Nat
            BY <2>8, PartNumbers
        <2> HIDE DEF c
        <2>10. c.key <= p.key
            BY <2>6, <2>7
        <2>11. CASE p.key # m_last_key
            BY <2>1, <2>2, <2>5, <2>9, <2>10, <2>11 DEF Before
        <2>12. CASE p.key = m_last_key
            <3>1. ~loop
                BY <1>1, <2>1, <2>3, <2>4, <2>12 DEF At
            <3>2. Last(out) = c
                BY <1>1, <2>3, <2>4, <3>1 DEF At, c
            <3>3. DOMAIN out = 1 .. Len(out) /\ Len(out) \in Nat /\ Last(out) = out[Len(out)]
                BY <1>2, LenProperties DEF Last
            <3>4. Len(out) \in 1 .. Len(out)
                BY <1>2, <2>3, LenProperties, EmptySeq
            <3>5. c \in ToSet(out)
                BY <1>2, <3>2, <3>3, <3>4, InToSet
            <3>6. c \in Wanted
                BY <1>1, <3>5 DEF Given
            <3>7. c.idx <= p.idx
                BY <2>5, <2>12, <3>6, WantedIsNewest
            <3>8. i = Len(m_elements)
                BY <2>2, <2>5, <2>6, <2>7, <2>9, <2>12, <3>7
            <3>9. Before(c, p)
                BY <2>6, <2>7, <2>8, <3>5, <3>8
            <3>10. q = c \/ Before(q, c)
                <4>1. PICK k \in 1 .. Len(out) : out[k] = q
                    BY <1>2, InToSet
                <4>2. CASE k = Len(out)
                    BY <3>2, <3>3, <4>1, <4>2
                <4>3. CASE k # Len(out)
                    <5>1. k < Len(out)
                        BY <3>3, <4>1, <4>3, LastIndex
                    <5>2. Before(out[k], out[Len(out)])
                        BY <1>1, <3>3, <3>4, <5>1 DEF Given
                    <5> QED BY <3>2, <3>3, <4>1, <5>2
                <4> QED BY <4>2, <4>3
            <3> QED BY <2>2, <2>9, <3>9, <3>10 DEF Before
        <2> QED BY <2>11, <2>12
    <1>6. ToSet(out) \subseteq Wanted /\ \A i, j \in DOMAIN out : i < j => Before(out[i], out[j])
        BY <1>1 DEF Given
    <1> QED BY <1>4, <1>5, <1>6 DEF YieldsNewestInOrder

\* For any number of slices, keys and parts, and for any range: next() yields the
\* parts of the newest entries and no others, in order and without leaving any out
\* (ushard_iterator::next and advance, ushard.cpp:64-240).
THEOREM MergeYieldsNewestInOrder == MergeSpec => []YieldsNewestInOrder
    <1>1. MergeInit => MergeInv
        BY MergeInitInv
    <1>2. MergeInv /\ [MergeNext]_mergeVars => MergeInv'
        BY MergeStepInv
    <1>3. MergeInv => YieldsNewestInOrder
        BY MergeInvYields
    <1> QED BY <1>1, <1>2, <1>3, PTL DEF MergeSpec

=============================================================================
