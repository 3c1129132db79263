--------------------------- MODULE ConfigLoadProofs ---------------------------
(* Theorems about loading the configuration, for any files, variables and     *)
(* edits.  The values are trees: what the recursive functions on them compute *)
(* is proved by induction on the depth of a tree and the length of a path.    *)
EXTENDS ConfigLoad, FiniteSetTheorems, WellFoundedInduction, TLAPS

USE BoundAssumption

-----------------------------------------------------------------------------
(* Induction on the naturals                                                 *)

\* A set of naturals has a least member: of the intervals up to its members one
\* is minimal, since those below a bound are finite.
LEMMA LeastNatural ==
  ASSUME NEW T \in SUBSET Nat, NEW n \in T
  PROVE  \E m \in T : \A k \in T : m <= k
<1> DEFINE S == {1..m : m \in {k \in T : k <= n}}
<1>1. IsFiniteSet(1..n)
  BY FS_Interval
<1>2. IsWellFoundedOn(StrictSubsetOrdering(1..n), SUBSET (1..n))
  BY <1>1, FS_StrictSubsetOrderingWellFounded, FS_FiniteSubsetsOfFinite
<1>3. S \subseteq SUBSET (1..n) /\ S # {}
  OBVIOUS
<1>4. PICK B \in S : \A C \in S : ~(<<C, B>> \in StrictSubsetOrdering(1..n))
  BY <1>2, <1>3, WFMin
<1>5. PICK m \in T : m <= n /\ B = 1..m
  OBVIOUS
<1>6. ASSUME NEW k \in T, k < m PROVE FALSE
  <2>1. 1..k \in S
    BY <1>6, <1>5
  <2>2. 1..k \subseteq 1..m /\ m \in 1..m /\ m \notin 1..k
    BY <1>6
  <2>3. <<1..k, B>> \in StrictSubsetOrdering(1..n)
    BY <2>1, <2>2, <1>5, <1>3 DEF StrictSubsetOrdering
  <2>4. QED
    BY <2>1, <2>3, <1>4
<1>7. QED
  BY <1>6

\* What 0 has and every number hands on to the next, all of them have.
LEMMA Induction ==
  ASSUME NEW S \in SUBSET Nat, 0 \in S, \A n \in S : n + 1 \in S
  PROVE  S = Nat
<1>1. ASSUME NEW x \in Nat \ S PROVE FALSE
  <2>1. PICK m \in Nat \ S : \A k \in Nat \ S : m <= k
    BY <1>1, LeastNatural
  <2>2. m - 1 \in Nat /\ m - 1 \in S
    BY <2>1
  <2>3. QED
    BY <2>1, <2>2
<1>2. QED
  BY <1>1

-----------------------------------------------------------------------------
(* The recursive functions are what their definitions say                    *)

\* The values one segment further down.
Further(S) == UNION {{<<Append(x[1], k), x[2].table[k]>> : k \in Keys(x[2])} : x \in S}

\* Below is the recursion that its definition states, from one length to the next.
LEMMA BelowUnfolds ==
  ASSUME NEW v
  PROVE  /\ Below(v, 0) = {<<<<>>, v>>}
         /\ \A n \in Nat : Below(v, n + 1) = Below(v, n) \cup Further(Below(v, n))
<1> DEFINE Chain(g, n) == /\ DOMAIN g = 0..n /\ g[0] = {<<<<>>, v>>}
                          /\ \A m \in 1..n : g[m] = g[m - 1] \cup Further(g[m - 1])
           S == {n \in Nat : \E g : Chain(g, n)}
           f == [n \in Nat |-> (CHOOSE g : Chain(g, n))[n]]
           Within(g) == [n \in Nat |-> IF n = 0 THEN {<<<<>>, v>>}
                                       ELSE g[n - 1] \cup Further(g[n - 1])]
<1>1. S = Nat
  <2>1. 0 \in S
    <3>1. Chain([m \in 0..0 |-> {<<<<>>, v>>}], 0)
      OBVIOUS
    <3>2. QED
      BY <3>1
  <2>2. ASSUME NEW n \in S PROVE n + 1 \in S
    <3>1. PICK g : Chain(g, n)
      OBVIOUS
    <3> DEFINE h == [m \in 0..(n + 1) |-> IF m = n + 1 THEN g[n] \cup Further(g[n]) ELSE g[m]]
    <3>2. Chain(h, n + 1)
      BY <3>1
    <3> HIDE DEF h, Chain
    <3>3. QED
      BY <3>2
  <2>3. QED
    BY <2>1, <2>2, Induction
<1>2. ASSUME NEW g, NEW n \in Nat, Chain(g, n), NEW h, NEW l \in Nat, Chain(h, l)
      PROVE  \A m \in Nat : m <= n /\ m <= l => g[m] = h[m]
  <2> DEFINE R == {m \in Nat : m <= n /\ m <= l => g[m] = h[m]}
  <2>1. 0 \in R
    BY <1>2
  <2>2. ASSUME NEW m \in R PROVE m + 1 \in R
    <3>1. m + 1 \in Nat /\ (m + 1) - 1 = m
      OBVIOUS
    <3>2. ASSUME m + 1 <= n, m + 1 <= l PROVE g[m + 1] = h[m + 1]
      <4>1. g[m] = h[m] /\ m + 1 \in 1..n /\ m + 1 \in 1..l
        BY <3>2
      <4>2. g[m + 1] = g[m] \cup Further(g[m]) /\ h[m + 1] = h[m] \cup Further(h[m])
        BY <1>2, <3>1, <4>1
      <4>3. QED
        BY <4>1, <4>2
    <3>3. QED
      BY <3>1, <3>2
  <2>3. R = Nat
    BY <2>1, <2>2, Induction
  <2>4. QED
    BY <2>3
<1>3. \A n \in Nat : Chain(CHOOSE g : Chain(g, n), n)
  BY <1>1
<1> HIDE DEF Chain
<1>4. f[0] = {<<<<>>, v>>}
  BY <1>3 DEF Chain
<1>5. ASSUME NEW n \in Nat PROVE f[n + 1] = f[n] \cup Further(f[n])
  <2> DEFINE g == CHOOSE g : Chain(g, n)
             h == CHOOSE e : Chain(e, n + 1)
  <2>1. Chain(g, n) /\ Chain(h, n + 1)
    BY <1>3
  <2> HIDE DEF g, h
  <2>2. g[n] = h[n]
    BY <1>2, <2>1
  <2>3. h[n + 1] = h[n] \cup Further(h[n])
    BY <2>1 DEF Chain
  <2>4. f[n] = g[n] /\ f[n + 1] = h[n + 1]
    BY DEF g, h
  <2>5. QED
    BY <2>2, <2>3, <2>4
<1> HIDE DEF f
<1>6. f = Within(f)
  <2>1. \A n \in Nat : f[n] = Within(f)[n]
    <3> SUFFICES ASSUME NEW n \in Nat PROVE f[n] = Within(f)[n]
      OBVIOUS
    <3>1. CASE n = 0
      BY <1>4, <3>1
    <3>2. CASE n # 0
      <4>1. n - 1 \in Nat /\ (n - 1) + 1 = n
        BY <3>2
      <4>2. f[n] = f[n - 1] \cup Further(f[n - 1])
        BY <1>5, <4>1
      <4>3. QED
        BY <3>2, <4>2
    <3>3. QED
      BY <3>1, <3>2
  <2>2. QED
    BY <2>1 DEF f
<1> DEFINE within == CHOOSE g : g = Within(g)
<1>7. within = Within(within)
  BY <1>6
<1>8. \A n \in Nat : Below(v, n) = within[n]
  BY DEF Below, Further
<1> HIDE DEF within
<1>9. within[0] = {<<<<>>, v>>}
  BY <1>7
<1>10. ASSUME NEW n \in Nat PROVE within[n + 1] = within[n] \cup Further(within[n])
  <2>1. n + 1 \in Nat /\ n + 1 # 0 /\ (n + 1) - 1 = n
    OBVIOUS
  <2>2. Within(within)[n + 1] = within[n] \cup Further(within[n])
    BY <2>1
  <2>3. QED
    BY <1>7, <2>2
<1>11. QED
  BY <1>8, <1>9, <1>10

\* Along follows a path from the root, segment by segment.
LEMMA AlongUnfolds ==
  ASSUME NEW root, NEW path, Len(path) \in Nat
  PROVE  LET at == Along(root, path) IN
         /\ at[0] = root
         /\ \A i \in 1..Len(path) :
               at[i] = IF path[i] \in Keys(at[i - 1]) THEN at[i - 1].table[path[i]] ELSE EmptyTable
<1> DEFINE L == Len(path)
           Step(w, i) == IF path[i] \in Keys(w) THEN w.table[path[i]] ELSE EmptyTable
           Walk(g, n) == [i \in 0..n |-> IF i = 0 THEN root ELSE Step(g[i - 1], i)]
           S == {n \in Nat : \E g : g = Walk(g, n)}
<1> HIDE DEF Step
<1>1. S = Nat
  <2>1. 0 \in S
    <3>1. [i \in 0..0 |-> root] = Walk([i \in 0..0 |-> root], 0)
      OBVIOUS
    <3>2. QED
      BY <3>1
  <2>2. ASSUME NEW n \in S PROVE n + 1 \in S
    <3>1. PICK g : g = Walk(g, n)
      OBVIOUS
    <3> DEFINE h == [i \in 0..(n + 1) |-> IF i = n + 1 THEN Step(g[n], n + 1) ELSE g[i]]
    <3>2. \A i \in 0..(n + 1) : h[i] = Walk(h, n + 1)[i]
      <4> SUFFICES ASSUME NEW i \in 0..(n + 1) PROVE h[i] = Walk(h, n + 1)[i]
        OBVIOUS
      <4>1. CASE i = 0
        BY <3>1, <4>1
      <4>2. CASE i \in 1..n
        <5>1. g[i] = Step(g[i - 1], i)
          BY <3>1, <4>2
        <5>2. h[i] = g[i] /\ h[i - 1] = g[i - 1]
          BY <4>2
        <5>3. QED
          BY <4>2, <5>1, <5>2
      <4>3. CASE i = n + 1
        BY <4>3
      <4>4. QED
        BY <4>1, <4>2, <4>3
    <3>3. h = Walk(h, n + 1)
      BY <3>2
    <3> HIDE DEF h, Walk
    <3>4. QED
      BY <3>3
  <2>3. QED
    BY <2>1, <2>2, Induction
<1>2. \E g : g = Walk(g, L)
  BY <1>1
<1> DEFINE at == CHOOSE g : g = Walk(g, L)
<1>3. at = Walk(at, L)
  BY <1>2
<1>4. Along(root, path) = at
  BY DEF Along, Step
<1> HIDE DEF at
<1>5. at[0] = root
  BY <1>3
<1>6. ASSUME NEW i \in 1..L PROVE at[i] = Step(at[i - 1], i)
  <2>1. i \in 0..L /\ i # 0
    OBVIOUS
  <2>2. Walk(at, L)[i] = Step(at[i - 1], i)
    BY <2>1
  <2>3. QED
    BY <1>3, <2>2
<1>7. QED
  BY <1>4, <1>5, <1>6 DEF Step

\* What set_nested makes of the values along a path.
IsSet(new, at, path, value) ==
    /\ new[Len(path)] = value
    /\ \A i \in 0..(Len(path) - 1) :
          new[i] = IF IsTable(at[i]) THEN Insert(at[i], path[i + 1], new[i + 1]) ELSE at[i]

\* set_nested is the value at the path's end, put into what was along it.
LEMMA SetUnfolds ==
  ASSUME NEW root, NEW path, Len(path) \in Nat, path # <<>>, NEW value
  PROVE  \E new : IsSet(new, Along(root, path), path, value) /\ set_nested(root, path, value) = new[0]
<1> DEFINE L == Len(path)
           at == Along(root, path)
           Put(w, i) == IF IsTable(at[i]) THEN Insert(at[i], path[i + 1], w) ELSE at[i]
           Back(g, n) == [i \in (L - n)..L |-> IF i = L THEN value ELSE Put(g[i + 1], i)]
           S == {n \in Nat : \E g : g = Back(g, n)}
<1> HIDE DEF Put
<1>1. S = Nat
  <2>1. 0 \in S
    <3>1. [i \in (L - 0)..L |-> value] = Back([i \in (L - 0)..L |-> value], 0)
      OBVIOUS
    <3>2. QED
      BY <3>1
  <2>2. ASSUME NEW n \in S PROVE n + 1 \in S
    <3>1. PICK g : g = Back(g, n)
      OBVIOUS
    <3> DEFINE j == L - (n + 1)
               h == [i \in j..L |-> IF i = j THEN Put(g[j + 1], j) ELSE g[i]]
    <3>2. \A i \in j..L : h[i] = Back(h, n + 1)[i]
      <4> SUFFICES ASSUME NEW i \in j..L PROVE h[i] = Back(h, n + 1)[i]
        OBVIOUS
      <4>1. CASE i = L
        BY <3>1, <4>1
      <4>2. CASE i # L /\ i # j
        <5>1. g[i] = Put(g[i + 1], i)
          BY <3>1, <4>2
        <5>2. h[i] = g[i] /\ h[i + 1] = g[i + 1]
          BY <4>2
        <5>3. QED
          BY <4>2, <5>1, <5>2
      <4>3. CASE i = j
        BY <4>3
      <4>4. QED
        BY <4>1, <4>2, <4>3
    <3>3. h = Back(h, n + 1)
      BY <3>2
    <3> HIDE DEF h, Back
    <3>4. QED
      BY <3>3
  <2>3. QED
    BY <2>1, <2>2, Induction
<1> DEFINE Whole(g) == [i \in 0..L |-> IF i = L THEN value ELSE Put(g[i + 1], i)]
<1>2. \E g : g = Whole(g)
  <2>1. PICK g : g = Back(g, L)
    BY <1>1
  <2>2. Back(g, L) = Whole(g)
    OBVIOUS
  <2>3. QED
    BY <2>1, <2>2
<1> DEFINE new == CHOOSE g : g = Whole(g)
<1>3. new = Whole(new)
  BY <1>2
<1>4. set_nested(root, path, value) = new[0]
  BY DEF set_nested, Put
<1> HIDE DEF new, at
<1>5. new[L] = value
  BY <1>3
<1>6. ASSUME NEW i \in 0..(L - 1) PROVE new[i] = Put(new[i + 1], i)
  <2>1. i \in 0..L /\ i # L
    OBVIOUS
  <2>2. Whole(new)[i] = Put(new[i + 1], i)
    BY <2>1
  <2>3. QED
    BY <1>3, <2>2
<1>7. IsSet(new, at, path, value)
  BY <1>5, <1>6 DEF IsSet, Put
<1>8. QED
  BY <1>4, <1>7 DEF at

\* One unfolding of Merge, in terms of what it makes of a base's values.
Merging(g, base) == [overlay \in Values |->
    IF IsTable(base) /\ IsTable(overlay)
    THEN Table([k \in Keys(base) \cup Keys(overlay) |->
                   IF k \notin Keys(overlay) THEN base.table[k]
                   ELSE IF k \notin Keys(base) THEN overlay.table[k]
                   ELSE g[base.table[k]][overlay.table[k]]])
    ELSE overlay]

\* A merge looks no further than what is at the base's keys.
LEMMA MergingIsLocal ==
  ASSUME NEW g, NEW h, NEW base, \A k \in Keys(base) : g[base.table[k]] = h[base.table[k]]
  PROVE  Merging(g, base) = Merging(h, base)
<1>1. ASSUME NEW overlay \in Values
      PROVE  [k \in Keys(base) \cup Keys(overlay) |->
                 IF k \notin Keys(overlay) THEN base.table[k]
                 ELSE IF k \notin Keys(base) THEN overlay.table[k]
                 ELSE g[base.table[k]][overlay.table[k]]]
           = [k \in Keys(base) \cup Keys(overlay) |->
                 IF k \notin Keys(overlay) THEN base.table[k]
                 ELSE IF k \notin Keys(base) THEN overlay.table[k]
                 ELSE h[base.table[k]][overlay.table[k]]]
  OBVIOUS
<1>2. QED
  BY <1>1 DEF Merging

\* deep_merge is the recursion that its definition states: the depth of the base
\* bounds it, since a value at a key is less deep.
LEMMA MergeUnfolds ==
  ASSUME NEW base \in Values, NEW overlay \in Values
  PROVE  deep_merge(base, overlay) =
            IF IsTable(base) /\ IsTable(overlay)
            THEN Table([k \in Keys(base) \cup Keys(overlay) |->
                           IF k \notin Keys(overlay) THEN base.table[k]
                           ELSE IF k \notin Keys(base) THEN overlay.table[k]
                           ELSE deep_merge(base.table[k], overlay.table[k])])
            ELSE overlay
<1> DEFINE V(n) == {b \in Values : Depth[b] < n}
           Chain(g, n) == DOMAIN g = V(n) /\ \A b \in V(n) : g[b] = Merging(g, b)
           S == {n \in Nat : \E g : Chain(g, n)}
           f == [b \in Values |-> (CHOOSE g : Chain(g, Depth[b] + 1))[b]]
           All(g) == [b \in Values |-> Merging(g, b)]
<1>1. \A b \in Values : /\ Depth[b] \in Nat
                        /\ \A k \in Keys(b) : b.table[k] \in Values /\ Depth[b.table[k]] < Depth[b]
  BY ValuesAssumption
<1>2. S = Nat
  <2>1. 0 \in S
    <3>1. Chain([b \in {} |-> b], 0)
      BY <1>1
    <3> HIDE DEF Chain
    <3>2. QED
      BY <3>1
  <2>2. ASSUME NEW n \in S PROVE n + 1 \in S
    <3>1. PICK g : Chain(g, n)
      OBVIOUS
    <3> DEFINE h == [b \in V(n + 1) |-> Merging(g, b)]
    <3>2. ASSUME NEW b \in V(n + 1) PROVE h[b] = Merging(h, b)
      <4>1. ASSUME NEW k \in Keys(b) PROVE h[b.table[k]] = g[b.table[k]]
        <5>1. b.table[k] \in V(n) /\ b.table[k] \in V(n + 1)
          BY <1>1
        <5>2. QED
          BY <3>1, <5>1
      <4> HIDE DEF V
      <4>2. h[b] = Merging(g, b)
        OBVIOUS
      <4> HIDE DEF h
      <4>3. QED
        BY <4>1, <4>2, MergingIsLocal
    <3>3. Chain(h, n + 1)
      BY <3>2
    <3> HIDE DEF h, Chain
    <3>4. QED
      BY <3>3
  <2>3. QED
    BY <2>1, <2>2, Induction
<1>3. ASSUME NEW n \in Nat, NEW g, Chain(g, n), NEW l \in Nat, NEW h, Chain(h, l)
      PROVE  \A b \in V(n) \cap V(l) : g[b] = h[b]
  <2> DEFINE R == {m \in Nat : \A b \in V(n) \cap V(l) : Depth[b] < m => g[b] = h[b]}
  <2>1. 0 \in R
    BY <1>1
  <2>2. ASSUME NEW m \in R PROVE m + 1 \in R
    <3> SUFFICES ASSUME NEW b \in V(n) \cap V(l), Depth[b] < m + 1 PROVE g[b] = h[b]
      OBVIOUS
    <3>1. ASSUME NEW k \in Keys(b) PROVE g[b.table[k]] = h[b.table[k]]
      <4>1. b.table[k] \in V(n) \cap V(l) /\ Depth[b.table[k]] < m
        BY <1>1
      <4>2. QED
        BY <4>1
    <3>2. Merging(g, b) = Merging(h, b)
      BY <3>1, MergingIsLocal
    <3>3. QED
      BY <1>3, <3>2
  <2>3. R = Nat
    BY <2>1, <2>2, Induction
  <2>4. QED
    BY <1>1, <2>3
<1>4. \A n \in Nat : Chain(CHOOSE g : Chain(g, n), n)
  BY <1>2
<1>5. ASSUME NEW b \in Values PROVE f[b] = Merging(f, b)
  <2> DEFINE g == CHOOSE g : Chain(g, Depth[b] + 1)
  <2>1. Chain(g, Depth[b] + 1) /\ b \in V(Depth[b] + 1) /\ Depth[b] + 1 \in Nat
    <3>1. b \in V(Depth[b] + 1) /\ Depth[b] + 1 \in Nat
      BY <1>1
    <3> HIDE DEF Chain
    <3>2. QED
      BY <1>4, <3>1
  <2>2. f[b] = g[b]
    OBVIOUS
  <2> HIDE DEF g
  <2>3. ASSUME NEW k \in Keys(b) PROVE f[b.table[k]] = g[b.table[k]]
    <3> DEFINE c == b.table[k]
               h == CHOOSE e : Chain(e, Depth[c] + 1)
    <3>1. c \in Values /\ Depth[c] < Depth[b] /\ Depth[c] \in Nat /\ Depth[b] \in Nat
      BY <1>1
    <3>2. Chain(h, Depth[c] + 1) /\ Depth[c] + 1 \in Nat
      <4>1. Depth[c] + 1 \in Nat
        BY <3>1
      <4> HIDE DEF Chain, c
      <4>2. QED
        BY <1>4, <4>1
    <3>3. f[c] = h[c]
      BY <3>1
    <3>4. c \in V(Depth[b] + 1) \cap V(Depth[c] + 1)
      BY <3>1
    <3> HIDE DEF c, h, f, Chain, V
    <3>5. QED
      BY <1>3, <2>1, <3>2, <3>3, <3>4 DEF c
  <2> HIDE DEF f
  <2>4. Merging(f, b) = Merging(g, b)
    BY <2>3, MergingIsLocal
  <2>5. QED
    BY <2>1, <2>2, <2>4
<1>6. f = All(f)
  BY <1>5
<1> HIDE DEF f
<1> DEFINE merge == CHOOSE g : g = All(g)
<1>7. merge = All(merge)
  BY <1>6
<1>8. Merge = merge
  BY DEF Merge, Merging
<1>9. Merge[base] = Merging(Merge, base)
  BY <1>7, <1>8
<1>10. QED
  BY <1>9 DEF Merging, deep_merge

-----------------------------------------------------------------------------
(* A value by its paths                                                      *)

\* Paths, each with a value.
ArePaths(S) == \A x \in S : x = <<x[1], x[2]>> /\ \E X : x[1] \in Seq(X)

\* One segment in front of every path.
Under(k, S) == {<<<<k>> \o x[1], x[2]>> : x \in S}

\* A segment more, at either end of a path, and it is a path.
LEMMA AppendIsSeq ==
  ASSUME NEW X, NEW p \in Seq(X), NEW k
  PROVE  Append(p, k) \in Seq(X \cup {k}) /\ <<k>> \o p \in Seq(X \cup {k})
<1>1. p \in Seq(X \cup {k})
  OBVIOUS
<1>2. <<k>> \in Seq(X \cup {k})
  OBVIOUS
<1>3. QED
  BY <1>1, <1>2

\* A segment in front and one behind may be added in either order.
LEMMA AppendUnder ==
  ASSUME NEW X, NEW p \in Seq(X), NEW k, NEW j
  PROVE  Append(<<k>> \o p, j) = <<k>> \o Append(p, j)
<1> DEFINE Y == X \cup {k, j}
<1>1. p \in Seq(Y) /\ <<k>> \in Seq(Y) /\ j \in Y
  OBVIOUS
<1> HIDE DEF Y
<1>2. QED
  BY <1>1

\* What is a segment further down is at a key of what is above it.
LEMMA InFurther ==
  ASSUME NEW S, NEW y
  PROVE  y \in Further(S) <=> \E x \in S : \E k \in Keys(x[2]) : y = <<Append(x[1], k), x[2].table[k]>>
BY DEF Further

\* What is under a segment has it in front.
LEMMA InUnder ==
  ASSUME NEW S, NEW k, NEW y
  PROVE  y \in Under(k, S) <=> \E x \in S : y = <<<<k>> \o x[1], x[2]>>
BY DEF Under

\* One segment further down there are paths again.
LEMMA FurtherArePaths ==
  ASSUME NEW S, ArePaths(S)
  PROVE  ArePaths(Further(S))
<1>1. ASSUME NEW y \in Further(S)
      PROVE  y = <<y[1], y[2]>> /\ \E X : y[1] \in Seq(X)
  <2>1. PICK x \in S : \E k \in Keys(x[2]) : y = <<Append(x[1], k), x[2].table[k]>>
    BY InFurther
  <2>2. PICK k \in Keys(x[2]) : y = <<Append(x[1], k), x[2].table[k]>>
    BY <2>1
  <2>3. PICK X : x[1] \in Seq(X)
    BY DEF ArePaths
  <2>4. Append(x[1], k) \in Seq(X \cup {k})
    BY <2>3, AppendIsSeq
  <2>5. QED
    BY <2>2, <2>4
<1>2. QED
  BY <1>1 DEF ArePaths

\* What is below a value has paths, and the value itself the empty one.
LEMMA BelowArePaths ==
  ASSUME NEW v, NEW n \in Nat
  PROVE  ArePaths(Below(v, n)) /\ <<<<>>, v>> \in Below(v, n)
<1> DEFINE S == {m \in Nat : ArePaths(Below(v, m)) /\ <<<<>>, v>> \in Below(v, m)}
<1>1. 0 \in S
  <2>1. <<>> \in Seq({})
    OBVIOUS
  <2>2. ArePaths({<<<<>>, v>>})
    <3>1. <<<<>>, v>>[1] = <<>> /\ <<<<>>, v>>[2] = v
      OBVIOUS
    <3>2. QED
      BY <2>1, <3>1 DEF ArePaths
  <2>3. Below(v, 0) = {<<<<>>, v>>}
    BY BelowUnfolds
  <2>4. QED
    BY <2>2, <2>3
<1>2. ASSUME NEW m \in S PROVE m + 1 \in S
  <2>1. ArePaths(Further(Below(v, m)))
    BY FurtherArePaths
  <2>2. Below(v, m + 1) = Below(v, m) \cup Further(Below(v, m))
    BY BelowUnfolds
  <2>3. ArePaths(Below(v, m + 1))
    BY <2>1, <2>2 DEF ArePaths
  <2>4. QED
    BY <2>2, <2>3
<1>3. S = Nat
  BY <1>1, <1>2, Induction
<1>4. QED
  BY <1>3

\* Going down and putting a segment in front may be done in either order.
LEMMA FurtherUnder ==
  ASSUME NEW S, ArePaths(S), NEW k
  PROVE  Further(Under(k, S)) = Under(k, Further(S))
<1>1. ASSUME NEW x \in S, NEW j
      PROVE  Append(<<k>> \o x[1], j) = <<k>> \o Append(x[1], j)
  BY AppendUnder DEF ArePaths
<1>2. ASSUME NEW y \in Further(Under(k, S)) PROVE y \in Under(k, Further(S))
  <2>1. PICK z \in Under(k, S) : \E j \in Keys(z[2]) : y = <<Append(z[1], j), z[2].table[j]>>
    BY InFurther
  <2>2. PICK j \in Keys(z[2]) : y = <<Append(z[1], j), z[2].table[j]>>
    BY <2>1
  <2>3. PICK x \in S : z = <<<<k>> \o x[1], x[2]>>
    BY InUnder
  <2> DEFINE w == <<Append(x[1], j), x[2].table[j]>>
  <2>4. w \in Further(S)
    BY <2>2, <2>3, InFurther
  <2>5. y = <<<<k>> \o w[1], w[2]>>
    BY <1>1, <2>2, <2>3
  <2> HIDE DEF w
  <2>6. QED
    BY <2>4, <2>5, InUnder
<1>3. ASSUME NEW y \in Under(k, Further(S)) PROVE y \in Further(Under(k, S))
  <2>1. PICK w \in Further(S) : y = <<<<k>> \o w[1], w[2]>>
    BY InUnder
  <2>2. PICK x \in S : \E j \in Keys(x[2]) : w = <<Append(x[1], j), x[2].table[j]>>
    BY InFurther
  <2>3. PICK j \in Keys(x[2]) : w = <<Append(x[1], j), x[2].table[j]>>
    BY <2>2
  <2> DEFINE z == <<<<k>> \o x[1], x[2]>>
  <2>4. z \in Under(k, S)
    BY InUnder
  <2>5. j \in Keys(z[2]) /\ y = <<Append(z[1], j), z[2].table[j]>>
    BY <1>1, <2>1, <2>3
  <2> HIDE DEF z
  <2>6. QED
    BY <2>4, <2>5, InFurther
<1>4. QED
  BY <1>2, <1>3

\* From the top: what is below a value is it, and what is below each of its keys.
ByKeys(v, n) == {<<<<>>, v>>} \cup UNION {Under(k, Below(v.table[k], n)) : k \in Keys(v)}

\* What a value has below it, one segment down.
LEMMA FurtherOne ==
  ASSUME NEW v, NEW y
  PROVE  y \in Further({<<<<>>, v>>}) <=> \E k \in Keys(v) : y = <<<<k>>, v.table[k]>>
<1> DEFINE x == <<<<>>, v>>
<1>1. x[1] = <<>> /\ x[2] = v /\ \A k : Append(<<>>, k) = <<k>>
  OBVIOUS
<1> HIDE DEF x
<1>2. y \in Further({x}) <=> \E k \in Keys(x[2]) : y = <<Append(x[1], k), x[2].table[k]>>
  BY InFurther
<1>3. y \in Further({x}) <=> \E k \in Keys(v) : y = <<<<k>>, v.table[k]>>
  BY <1>1, <1>2
<1>4. QED
  BY <1>3 DEF x

\* A value under a segment has the segment for its path.
LEMMA UnderOne ==
  ASSUME NEW k, NEW w, NEW y
  PROVE  y \in Under(k, {<<<<>>, w>>}) <=> y = <<<<k>>, w>>
<1> DEFINE x == <<<<>>, w>>
<1>1. x[1] = <<>> /\ x[2] = w /\ <<k>> \o <<>> = <<k>>
  OBVIOUS
<1> HIDE DEF x
<1>2. y \in Under(k, {x}) <=> y = <<<<k>> \o x[1], x[2]>>
  BY InUnder
<1>3. QED
  BY <1>1, <1>2 DEF x

\* Both are done node by node.
LEMMA Unions ==
  ASSUME NEW S, NEW T, NEW k
  PROVE  /\ Further(S \cup T) = Further(S) \cup Further(T)
         /\ Under(k, S \cup T) = Under(k, S) \cup Under(k, T)
<1>1. ASSUME NEW y PROVE y \in Further(S \cup T) <=> y \in Further(S) \/ y \in Further(T)
  BY InFurther
<1>2. Under(k, S \cup T) = Under(k, S) \cup Under(k, T)
  BY DEF Under
<1>3. QED
  BY <1>1, <1>2

\* What is below a value, by its keys rather than by length.
LEMMA BelowByKeys ==
  ASSUME NEW v, NEW n \in Nat
  PROVE  Below(v, n + 1) = ByKeys(v, n)
<1> DEFINE S == {m \in Nat : Below(v, m + 1) = ByKeys(v, m)}
           F == Further({<<<<>>, v>>})
<1>1. ASSUME NEW y
      PROVE  y \in F <=> \E k \in Keys(v) : y = <<<<k>>, v.table[k]>>
  BY FurtherOne
<1>2. 0 \in S
  <2>1. Below(v, 1) = {<<<<>>, v>>} \cup F
    <3>1. 0 + 1 = 1
      OBVIOUS
    <3>2. QED
      BY <3>1, BelowUnfolds
  <2>2. \A k : Below(v.table[k], 0) = {<<<<>>, v.table[k]>>}
    BY BelowUnfolds
  <2>3. ASSUME NEW y
        PROVE  y \in UNION {Under(k, Below(v.table[k], 0)) : k \in Keys(v)} <=> y \in F
    <3> DEFINE D(k) == Below(v.table[k], 0)
    <3>1. ASSUME NEW k, NEW z PROVE z \in Under(k, D(k)) <=> z = <<<<k>>, v.table[k]>>
      BY <2>2, UnderOne
    <3> HIDE DEF D
    <3>2. y \in UNION {Under(k, D(k)) : k \in Keys(v)} <=> \E k \in Keys(v) : y = <<<<k>>, v.table[k]>>
      BY <3>1
    <3>3. QED
      BY <1>1, <3>2 DEF D
  <2>4. F = UNION {Under(k, Below(v.table[k], 0)) : k \in Keys(v)}
    BY <2>3
  <2>5. 0 + 1 = 1
    OBVIOUS
  <2>6. Below(v, 1) = ByKeys(v, 0)
    BY <2>1, <2>4 DEF ByKeys
  <2>7. QED
    BY <2>5, <2>6
<1>3. ASSUME NEW m \in S PROVE m + 1 \in S
  <2> DEFINE B(k) == Below(v.table[k], m)
             C(k) == Below(v.table[k], m + 1)
             T == UNION {Under(k, B(k)) : k \in Keys(v)}
             U == UNION {Under(k, C(k)) : k \in Keys(v)}
  <2>1. Below(v, m + 1) = {<<<<>>, v>>} \cup T
    BY DEF ByKeys
  <2>2. Below(v, (m + 1) + 1) = Below(v, m + 1) \cup Further(Below(v, m + 1))
    <3>1. m + 1 \in Nat
      OBVIOUS
    <3>2. QED
      BY <3>1, BelowUnfolds
  <2>3. Below(v, (m + 1) + 1) = ({<<<<>>, v>>} \cup T) \cup (F \cup Further(T))
    <3> DEFINE R == {<<<<>>, v>>}
    <3> HIDE DEF R, T
    <3>1. Further(R \cup T) = Further(R) \cup Further(T)
      BY Unions
    <3>2. QED
      BY <2>1, <2>2, <3>1 DEF R
  <2>4. \A k : C(k) = B(k) \cup Further(B(k)) /\ ArePaths(B(k)) /\ <<<<>>, v.table[k]>> \in B(k)
    BY BelowUnfolds, BelowArePaths
  <2> HIDE DEF B, C, F
  <2>6. ASSUME NEW k PROVE Under(k, C(k)) = Under(k, B(k)) \cup Further(Under(k, B(k)))
    <3>1. Further(Under(k, B(k))) = Under(k, Further(B(k)))
      BY <2>4, FurtherUnder
    <3>2. C(k) = B(k) \cup Further(B(k))
      BY <2>4
    <3>3. QED
      BY <3>1, <3>2, Unions
  <2>7. ASSUME NEW k \in Keys(v) PROVE <<<<k>>, v.table[k]>> \in T
    <3> DEFINE x == <<<<>>, v.table[k]>>
    <3>1. <<k>> \o <<>> = <<k>> /\ x[1] = <<>> /\ x[2] = v.table[k] /\ x \in B(k)
      BY <2>4
    <3> HIDE DEF x
    <3>2. <<<<k>>, v.table[k]>> \in Under(k, B(k))
      BY <3>1, InUnder
    <3>3. QED
      BY <3>2
  <2>8. ASSUME NEW y PROVE y \in Further(T) <=> \E k \in Keys(v) : y \in Further(Under(k, B(k)))
    BY InFurther
  <2>9. ASSUME NEW y PROVE y \in U <=> y \in T \/ y \in Further(T)
    BY <2>6, <2>8
  <2>10. F \subseteq T
    BY <1>1, <2>7
  <2> HIDE DEF T, U
  <2>11. Below(v, (m + 1) + 1) = {<<<<>>, v>>} \cup U
    BY <2>3, <2>9, <2>10
  <2>12. ByKeys(v, m + 1) = {<<<<>>, v>>} \cup U
    BY DEF ByKeys, U, C
  <2>13. m + 1 \in Nat
    OBVIOUS
  <2>14. QED
    BY <2>11, <2>12, <2>13
<1>4. S = Nat
  BY <1>2, <1>3, Induction
<1>5. QED
  BY <1>4

\* The nodes of a value, up to a depth.
NodesTo(v, n) == {[path |-> x[1], leaf |-> Leaf(x[2])] : x \in Below(v, n)}

\* A value's own node, and the nodes of what is at one of its keys.
Top(v)     == [path |-> <<>>, leaf |-> Leaf(v)]
Down(k, S) == {[path |-> <<k>> \o x.path, leaf |-> x.leaf] : x \in S}

\* The nodes of any value have paths.
AreNodes(S) == \A x \in S : x = [path |-> x.path, leaf |-> x.leaf] /\ \E X : x.path \in Seq(X)

\* The same for nodes.
LEMMA NodesByKeys ==
  ASSUME NEW v, NEW n \in Nat
  PROVE  /\ NodesTo(v, 0) = {Top(v)}
         /\ NodesTo(v, n + 1) = {Top(v)} \cup UNION {Down(k, NodesTo(v.table[k], n)) : k \in Keys(v)}
<1> DEFINE Node(x) == [path |-> x[1], leaf |-> Leaf(x[2])]
           root == <<<<>>, v>>
<1>1. Node(root) = Top(v)
  BY DEF Top
<1>2. Below(v, 0) = {root} /\ Below(v, n + 1) = ByKeys(v, n)
  BY BelowUnfolds, BelowByKeys
<1>3. ASSUME NEW k, NEW S PROVE {Node(x) : x \in Under(k, S)} = Down(k, {Node(x) : x \in S})
  <2>1. ASSUME NEW x \in S
        PROVE  Node(<<<<k>> \o x[1], x[2]>>) = [path |-> <<k>> \o Node(x).path, leaf |-> Node(x).leaf]
    OBVIOUS
  <2> HIDE DEF Node
  <2>2. {Node(x) : x \in Under(k, S)} = {Node(<<<<k>> \o x[1], x[2]>>) : x \in S}
    BY DEF Under
  <2>3. Down(k, {Node(x) : x \in S})
           = {[path |-> <<k>> \o Node(x).path, leaf |-> Node(x).leaf] : x \in S}
    BY DEF Down
  <2>4. QED
    BY <2>1, <2>2, <2>3
<1>4. \A w, m : NodesTo(w, m) = {Node(x) : x \in Below(w, m)}
  BY DEF NodesTo
<1> HIDE DEF Node, root
<1>5. NodesTo(v, 0) = {Top(v)}
  BY <1>1, <1>2, <1>4
<1>6. NodesTo(v, n + 1) = {Node(x) : x \in {root} \cup UNION {Under(k, Below(v.table[k], n)) : k \in Keys(v)}}
  BY <1>2, <1>4 DEF ByKeys, root
<1>7. NodesTo(v, n + 1) = {Top(v)} \cup UNION {{Node(x) : x \in Under(k, Below(v.table[k], n))} : k \in Keys(v)}
  BY <1>1, <1>6
<1>8. \A k : {Node(x) : x \in Under(k, Below(v.table[k], n))} = Down(k, NodesTo(v.table[k], n))
  BY <1>3, <1>4
<1>9. QED
  BY <1>5, <1>7, <1>8

\* Nodes have paths, and a value's own is among its nodes.
LEMMA NodesHavePaths ==
  ASSUME NEW v, NEW n \in Nat
  PROVE  AreNodes(NodesTo(v, n)) /\ Top(v) \in NodesTo(v, n)
<1>1. ArePaths(Below(v, n)) /\ <<<<>>, v>> \in Below(v, n)
  BY BelowArePaths
<1>2. AreNodes(NodesTo(v, n))
  BY <1>1 DEF AreNodes, ArePaths, NodesTo
<1>3. [path |-> <<<<>>, v>>[1], leaf |-> Leaf(<<<<>>, v>>[2])] \in NodesTo(v, n)
  BY <1>1 DEF NodesTo
<1>4. QED
  BY <1>2, <1>3 DEF Top

\* A node under a key has the key in front of its path.
LEMMA InDown ==
  ASSUME NEW S, NEW k, NEW y
  PROVE  y \in Down(k, S) <=> \E x \in S : y = [path |-> <<k>> \o x.path, leaf |-> x.leaf]
BY DEF Down

\* A prefix, segment by segment.
LEMMA Prefix ==
  ASSUME NEW X, NEW p \in Seq(X), NEW q \in Seq(X)
  PROVE  IsPrefix(p, q) <=> Len(p) <= Len(q) /\ \A i \in 1..Len(p) : p[i] = q[i]
<1>1. ASSUME Len(p) <= Len(q)
      PROVE  SubSeq(p, 1, Len(p)) = SubSeq(q, 1, Len(p)) <=> \A i \in 1..Len(p) : p[i] = q[i]
  <2> DEFINE s == SubSeq(p, 1, Len(p))
             t == SubSeq(q, 1, Len(p))
  <2>1. s \in Seq(X) /\ Len(s) = Len(p) /\ \A i \in 1..Len(p) : s[i] = p[i]
    OBVIOUS
  <2>2. t \in Seq(X) /\ Len(t) = Len(p) /\ \A i \in 1..Len(p) : t[i] = q[i]
    BY <1>1
  <2> HIDE DEF s, t
  <2>3. s = t <=> \A i \in 1..Len(p) : s[i] = t[i]
    BY <2>1, <2>2
  <2>4. QED
    BY <2>1, <2>2, <2>3 DEF s, t
<1>2. QED
  BY <1>1 DEF IsPrefix

\* The empty path is a prefix of any.
LEMMA EmptyPrefix ==
  ASSUME NEW X, NEW q \in Seq(X)
  PROVE  IsPrefix(<<>>, q)
<1>1. SubSeq(q, 1, 0) = <<>> /\ SubSeq(<<>>, 1, 0) = <<>> /\ Len(<<>>) = 0 /\ Len(q) \in Nat
  OBVIOUS
<1>2. QED
  BY <1>1 DEF IsPrefix

\* Paths with a segment in front differ, or are prefixes, as their rests do.
LEMMA Fronts ==
  ASSUME NEW X, NEW p \in Seq(X), NEW Y, NEW q \in Seq(Y), NEW k, NEW j
  PROVE  /\ <<k>> \o p # <<>>
         /\ <<k>> \o p = <<j>> \o q <=> k = j /\ p = q
         /\ IsStrictPrefix(<<>>, <<j>> \o q)
         /\ ~IsStrictPrefix(<<k>> \o p, <<>>)
         /\ IsStrictPrefix(<<k>> \o p, <<j>> \o q) <=> k = j /\ IsStrictPrefix(p, q)
<1> DEFINE Z == X \cup Y \cup {k, j}
           kp == <<k>> \o p
           jq == <<j>> \o q
<1>1. p \in Seq(Z) /\ q \in Seq(Z) /\ <<>> \in Seq(Z) /\ k \in Z /\ j \in Z
  OBVIOUS
<1> HIDE DEF Z
<1>2. /\ kp \in Seq(Z) /\ Len(kp) = Len(p) + 1 /\ kp[1] = k
      /\ \A i \in 1..Len(p) : kp[i + 1] = p[i]
      /\ \A i \in 2..(Len(p) + 1) : kp[i] = p[i - 1]
  BY <1>1
<1>3. /\ jq \in Seq(Z) /\ Len(jq) = Len(q) + 1 /\ jq[1] = j
      /\ \A i \in 1..Len(q) : jq[i + 1] = q[i]
      /\ \A i \in 2..(Len(q) + 1) : jq[i] = q[i - 1]
  BY <1>1
<1> HIDE DEF kp, jq
<1>4. kp # <<>>
  BY <1>2
<1>5. kp = jq <=> k = j /\ p = q
  <2>1. ASSUME kp = jq PROVE k = j /\ p = q
    <3>1. k = j /\ Len(p) = Len(q)
      BY <2>1, <1>2, <1>3, <1>1
    <3>2. \A i \in 1..Len(p) : p[i] = q[i]
      BY <2>1, <1>2, <1>3, <3>1
    <3>3. QED
      BY <1>1, <3>1, <3>2
  <2>2. QED
    BY <2>1 DEF kp, jq
<1>6. IsPrefix(kp, jq) <=> k = j /\ IsPrefix(p, q)
  <2>1. IsPrefix(kp, jq) <=> Len(kp) <= Len(jq) /\ \A i \in 1..Len(kp) : kp[i] = jq[i]
    BY <1>2, <1>3, Prefix
  <2>2. IsPrefix(p, q) <=> Len(p) <= Len(q) /\ \A i \in 1..Len(p) : p[i] = q[i]
    BY <1>1, Prefix
  <2>3. Len(p) \in Nat /\ Len(q) \in Nat
    OBVIOUS
  <2>4. ASSUME IsPrefix(kp, jq) PROVE k = j /\ IsPrefix(p, q)
    <3>1. Len(p) <= Len(q) /\ 1 \in 1..Len(kp)
      BY <2>4, <2>1, <2>3, <1>2, <1>3
    <3>2. ASSUME NEW i \in 1..Len(p) PROVE p[i] = q[i]
      <4>1. i + 1 \in 1..Len(kp) /\ i \in 1..Len(q)
        BY <3>1, <2>3, <1>2
      <4>2. QED
        BY <2>4, <2>1, <4>1, <1>2, <1>3
    <3>3. QED
      BY <2>4, <2>1, <2>2, <3>1, <3>2, <1>2, <1>3
  <2>5. ASSUME k = j, IsPrefix(p, q) PROVE IsPrefix(kp, jq)
    <3>1. Len(kp) <= Len(jq)
      BY <2>5, <2>2, <2>3, <1>2, <1>3
    <3>2. ASSUME NEW i \in 1..Len(kp) PROVE kp[i] = jq[i]
      <4>1. CASE i = 1
        BY <2>5, <4>1, <1>2, <1>3
      <4>2. CASE i # 1
        <5>1. i \in 2..(Len(p) + 1) /\ i \in 2..(Len(q) + 1) /\ i - 1 \in 1..Len(p)
          BY <4>2, <2>5, <2>2, <2>3, <1>2
        <5>2. QED
          BY <5>1, <2>5, <2>2, <1>2, <1>3
      <4>3. QED
        BY <4>1, <4>2
    <3>3. QED
      BY <2>1, <3>1, <3>2
  <2>6. QED
    BY <2>4, <2>5
<1>7. IsStrictPrefix(<<>>, jq)
  <2>1. IsPrefix(<<>>, jq)
    BY <1>3, EmptyPrefix
  <2>2. <<>> # jq
    BY <1>3
  <2>3. QED
    BY <2>1, <2>2 DEF IsStrictPrefix
<1>8. ~IsStrictPrefix(kp, <<>>)
  <2>1. IsPrefix(kp, <<>>) => Len(kp) <= Len(<<>>)
    BY DEF IsPrefix
  <2>2. QED
    BY <2>1, <1>2 DEF IsStrictPrefix
<1>9. QED
  BY <1>4, <1>5, <1>6, <1>7, <1>8 DEF IsStrictPrefix, kp, jq

-----------------------------------------------------------------------------
(* What a merge shows                                                        *)

\* A node of the base that no node of the overlay hides.
Shown(x, S) ==
    /\ \A y \in S : y.path # x.path
    /\ \A y \in S : ~IsTable(y.leaf) => ~IsStrictPrefix(y.path, x.path)

Overlaid(S, T) == T \cup {x \in S : Shown(x, T)}

\* The values are what they are assumed to be.
LEMMA Valued ==
  ASSUME NEW v \in Values
  PROVE  /\ IsTable(v) => v = Table([k \in Keys(v) |-> v.table[k]]) /\ Leaf(v) = EmptyTable
         /\ ~IsTable(v) => Keys(v) = {}
         /\ IsTable(Leaf(v)) <=> IsTable(v)
         /\ \A k \in Keys(v) : v.table[k] \in Values
<1>1. IsTable(v) => v = Table([k \in Keys(v) |-> v.table[k]])
  BY ValuesAssumption
<1>2. ASSUME NEW t PROVE Leaf(Table(t)) = EmptyTable
  BY DEF Leaf, Table, EmptyTable, Value
<1>3. IsTable(v) => Leaf(v) = EmptyTable
  BY <1>1, <1>2
<1>4. IsTable(Leaf(v)) <=> IsTable(v)
  BY DEF IsTable, Leaf, Value
<1>5. QED
  BY <1>1, <1>3, <1>4, ValuesAssumption

\* A table is what it was made of.
LEMMA OfTable ==
  ASSUME NEW t
  PROVE  IsTable(Table(t)) /\ Table(t).table = t /\ Keys(Table(t)) = DOMAIN t
BY DEF IsTable, Table, Keys, Value

\* Below a key, only what the overlay has below the key hides anything.
LEMMA ShownBelow ==
  ASSUME NEW o \in Values, IsTable(o), NEW n \in Nat,
         NEW k, NEW X, NEW p \in Seq(X), NEW l
  PROVE  LET x == [path |-> <<k>> \o p, leaf |-> l]
             y == [path |-> p, leaf |-> l]
         IN Shown(x, NodesTo(o, n + 1)) <=> (k \in Keys(o) => Shown(y, NodesTo(o.table[k], n)))
<1> DEFINE x == [path |-> <<k>> \o p, leaf |-> l]
           y == [path |-> p, leaf |-> l]
           D(j) == NodesTo(o.table[j], n)
           Hides(z, w) == z.path = w.path \/ (~IsTable(z.leaf) /\ IsStrictPrefix(z.path, w.path))
<1>1. \A w, S : Shown(w, S) <=> \A z \in S : ~Hides(z, w)
  BY DEF Shown
<1>2. ~Hides(Top(o), x)
  <2>1. Top(o).path = <<>> /\ IsTable(Top(o).leaf) /\ x.path = <<k>> \o p
    BY Valued DEF Top
  <2>2. <<k>> \o p # <<>>
    BY Fronts
  <2>3. QED
    BY <2>1, <2>2
<1>3. ASSUME NEW j \in Keys(o), NEW z \in D(j)
      PROVE  Hides([path |-> <<j>> \o z.path, leaf |-> z.leaf], x) <=> j = k /\ Hides(z, y)
  <2>1. AreNodes(D(j))
    BY NodesHavePaths
  <2> DEFINE q == z.path
             w == [path |-> <<j>> \o z.path, leaf |-> z.leaf]
  <2>2. PICK Y : q \in Seq(Y)
    BY <2>1 DEF AreNodes
  <2>3. w.path = <<j>> \o q /\ w.leaf = z.leaf /\ x.path = <<k>> \o p /\ y.path = p
    OBVIOUS
  <2> HIDE DEF q, w, x, y
  <2>4. <<j>> \o q = <<k>> \o p <=> j = k /\ q = p
    BY <2>2, Fronts
  <2>5. IsStrictPrefix(<<j>> \o q, <<k>> \o p) <=> j = k /\ IsStrictPrefix(q, p)
    BY <2>2, Fronts
  <2>6. Hides(w, x) <=> j = k /\ Hides(z, y)
    BY <2>3, <2>4, <2>5 DEF q
  <2>7. QED
    BY <2>6 DEF w
<1>4. NodesTo(o, n + 1) = {Top(o)} \cup UNION {Down(j, D(j)) : j \in Keys(o)}
  BY NodesByKeys
<1> HIDE DEF D, Hides, x, y
<1>5. ASSUME NEW j \in Keys(o)
      PROVE  (\A z \in Down(j, D(j)) : ~Hides(z, x)) <=> (j = k => \A z \in D(j) : ~Hides(z, y))
  <2>1. (\A z \in Down(j, D(j)) : ~Hides(z, x))
           <=> \A z \in D(j) : ~Hides([path |-> <<j>> \o z.path, leaf |-> z.leaf], x)
    BY DEF Down
  <2>2. QED
    BY <2>1, <1>3
<1>6. (\A z \in NodesTo(o, n + 1) : ~Hides(z, x))
         <=> \A j \in Keys(o) : \A z \in Down(j, D(j)) : ~Hides(z, x)
  BY <1>2, <1>4
<1>7. QED
  BY <1>1, <1>5, <1>6 DEF x, y, D

\* Nothing of the base is shown beside an overlay that is no table.
LEMMA NothingShown ==
  ASSUME NEW o \in Values, ~IsTable(o), NEW n \in Nat, NEW X, NEW x, x.path \in Seq(X)
  PROVE  ~Shown(x, NodesTo(o, n))
<1>1. Top(o) \in NodesTo(o, n) /\ Top(o).path = <<>> /\ ~IsTable(Top(o).leaf)
  BY NodesHavePaths, Valued DEF Top
<1>2. <<>> \in Seq(X)
  OBVIOUS
<1>3. CASE x.path = <<>>
  BY <1>1, <1>3 DEF Shown
<1>4. CASE x.path # <<>>
  <2>1. IsPrefix(<<>>, x.path)
    BY EmptyPrefix
  <2>2. IsStrictPrefix(<<>>, x.path)
    BY <2>1, <1>4 DEF IsStrictPrefix
  <2>3. QED
    BY <1>1, <2>2 DEF Shown
<1>5. QED
  BY <1>3, <1>4

\* What has nothing below it has one node.
LEMMA BareNodes ==
  ASSUME NEW v, Keys(v) = {}, NEW n \in Nat
  PROVE  NodesTo(v, n) = {Top(v)}
<1>1. CASE n = 0
  BY <1>1, NodesByKeys
<1>2. CASE n # 0
  <2>1. n - 1 \in Nat /\ (n - 1) + 1 = n
    BY <1>2
  <2>2. NodesTo(v, (n - 1) + 1)
           = {Top(v)} \cup UNION {Down(k, NodesTo(v.table[k], n - 1)) : k \in Keys(v)}
    BY <2>1, NodesByKeys
  <2>3. QED
    BY <2>1, <2>2
<1>3. QED
  BY <1>1, <1>2

\* Of two tables, the nodes of what a merge makes are those below each key.
LEMMA MergeNodesTo ==
  ASSUME NEW n \in Nat
  PROVE  \A b, o \in Values : NodesTo(deep_merge(b, o), n) = Overlaid(NodesTo(b, n), NodesTo(o, n))
<1> DEFINE Holds(b, o, m) == NodesTo(deep_merge(b, o), m) = Overlaid(NodesTo(b, m), NodesTo(o, m))
           S == {m \in Nat : \A b, o \in Values : Holds(b, o, m)}
<1>1. ASSUME NEW b \in Values, NEW o \in Values, ~IsTable(o), NEW m \in Nat PROVE Holds(b, o, m)
  <2>1. deep_merge(b, o) = o
    BY <1>1, MergeUnfolds
  <2>2. ASSUME NEW x \in NodesTo(b, m) PROVE ~Shown(x, NodesTo(o, m))
    <3>1. PICK X : x.path \in Seq(X)
      BY NodesHavePaths DEF AreNodes
    <3>2. QED
      BY <1>1, <3>1, NothingShown
  <2>3. QED
    BY <2>1, <2>2 DEF Overlaid
<1>2. ASSUME NEW v, NEW w, NEW T, Top(w) \in T PROVE ~Shown(Top(v), T)
  BY <1>2 DEF Shown, Top
<1>3. ASSUME NEW b \in Values, NEW o \in Values, IsTable(b), IsTable(o)
      PROVE  /\ Top(deep_merge(b, o)) = Top(o)
             /\ Keys(deep_merge(b, o)) = Keys(b) \cup Keys(o)
             /\ \A k \in Keys(b) \cup Keys(o) :
                   deep_merge(b, o).table[k] = IF k \notin Keys(o) THEN b.table[k]
                                               ELSE IF k \notin Keys(b) THEN o.table[k]
                                               ELSE deep_merge(b.table[k], o.table[k])
  <2> DEFINE t == [k \in Keys(b) \cup Keys(o) |->
                      IF k \notin Keys(o) THEN b.table[k]
                      ELSE IF k \notin Keys(b) THEN o.table[k]
                      ELSE deep_merge(b.table[k], o.table[k])]
  <2>1. deep_merge(b, o) = Table(t)
    BY <1>3, MergeUnfolds
  <2>2. Leaf(o) = EmptyTable /\ Leaf(Table(t)) = EmptyTable
    BY <1>3, Valued DEF Leaf, EmptyTable, Table, Value
  <2>3. Keys(Table(t)) = DOMAIN t /\ Table(t).table = t
    BY OfTable
  <2>4. QED
    BY <2>1, <2>2, <2>3 DEF Top
<1>4. ASSUME NEW b \in Values, NEW o \in Values, ~IsTable(b), IsTable(o), NEW m \in Nat
      PROVE  Holds(b, o, m)
  <2>1. deep_merge(b, o) = o
    BY <1>4, MergeUnfolds
  <2>2. Keys(b) = {}
    BY <1>4, Valued
  <2>3. NodesTo(b, m) = {Top(b)}
    BY <2>2, BareNodes
  <2>4. ~Shown(Top(b), NodesTo(o, m))
    BY <1>2, NodesHavePaths
  <2>5. QED
    BY <2>1, <2>3, <2>4 DEF Overlaid
<1>5. 0 \in S
  <2> SUFFICES ASSUME NEW b \in Values, NEW o \in Values, IsTable(b), IsTable(o) PROVE Holds(b, o, 0)
    BY <1>1, <1>4
  <2>1. NodesTo(deep_merge(b, o), 0) = {Top(o)} /\ NodesTo(o, 0) = {Top(o)} /\ NodesTo(b, 0) = {Top(b)}
    <3>1. \A v : NodesTo(v, 0) = {Top(v)}
      BY NodesByKeys
    <3>2. QED
      BY <1>3, <3>1
  <2>2. ~Shown(Top(b), {Top(o)})
    BY <1>2
  <2>3. QED
    BY <2>1, <2>2 DEF Overlaid
<1>6. ASSUME NEW m \in S PROVE m + 1 \in S
  <2> SUFFICES ASSUME NEW b \in Values, NEW o \in Values, IsTable(b), IsTable(o)
               PROVE  Holds(b, o, m + 1)
    BY <1>1, <1>4
  <2> DEFINE r == deep_merge(b, o)
             B(k) == NodesTo(b.table[k], m)
             O(k) == NodesTo(o.table[k], m)
             R(k) == NodesTo(r.table[k], m)
             T == NodesTo(o, m + 1)
  <2>1. /\ NodesTo(r, m + 1) = {Top(r)} \cup UNION {Down(k, R(k)) : k \in Keys(r)}
        /\ NodesTo(b, m + 1) = {Top(b)} \cup UNION {Down(k, B(k)) : k \in Keys(b)}
        /\ T = {Top(o)} \cup UNION {Down(k, O(k)) : k \in Keys(o)}
    <3>1. NodesTo(r, m + 1) = {Top(r)} \cup UNION {Down(k, R(k)) : k \in Keys(r)}
      BY NodesByKeys
    <3>2. NodesTo(b, m + 1) = {Top(b)} \cup UNION {Down(k, B(k)) : k \in Keys(b)}
      BY NodesByKeys
    <3>3. T = {Top(o)} \cup UNION {Down(k, O(k)) : k \in Keys(o)}
      BY NodesByKeys
    <3>4. QED
      BY <3>1, <3>2, <3>3
  <2>2. Top(r) = Top(o) /\ Keys(r) = Keys(b) \cup Keys(o)
    BY <1>3
  <2>3. ~Shown(Top(b), T)
    BY <1>2, NodesHavePaths
  <2>4. ASSUME NEW k \in Keys(b), NEW y \in B(k)
        PROVE  Shown([path |-> <<k>> \o y.path, leaf |-> y.leaf], T)
                  <=> (k \in Keys(o) => Shown(y, O(k)))
    <3>1. PICK X : y.path \in Seq(X)
      BY NodesHavePaths DEF AreNodes
    <3>2. y = [path |-> y.path, leaf |-> y.leaf]
      BY NodesHavePaths DEF AreNodes
    <3>3. QED
      BY <3>1, <3>2, ShownBelow
  <2>5. ASSUME NEW k \in Keys(b), k \notin Keys(o) PROVE R(k) = B(k)
    BY <1>3, <2>5
  <2>6. ASSUME NEW k \in Keys(o), k \notin Keys(b) PROVE R(k) = O(k)
    BY <1>3, <2>6
  <2>7. ASSUME NEW k \in Keys(b) \cap Keys(o) PROVE R(k) = Overlaid(B(k), O(k))
    <3>1. r.table[k] = deep_merge(b.table[k], o.table[k])
      BY <1>3
    <3>2. b.table[k] \in Values /\ o.table[k] \in Values
      BY Valued
    <3>3. QED
      BY <3>1, <3>2
  <2> HIDE DEF r, B, O, R, T
  <2>8. ASSUME NEW x
        PROVE  x \in NodesTo(r, m + 1) <=> x \in T \/ (x \in NodesTo(b, m + 1) /\ Shown(x, T))
    <3> DEFINE InB(k) == k \in Keys(b) /\ \E y \in B(k) : x = [path |-> <<k>> \o y.path, leaf |-> y.leaf]
               InO(k) == k \in Keys(o) /\ \E y \in O(k) : x = [path |-> <<k>> \o y.path, leaf |-> y.leaf]
               InR(k) == k \in Keys(r) /\ \E y \in R(k) : x = [path |-> <<k>> \o y.path, leaf |-> y.leaf]
    <3>1. /\ x \in NodesTo(r, m + 1) <=> x = Top(o) \/ \E k : InR(k)
          /\ x \in NodesTo(b, m + 1) <=> x = Top(b) \/ \E k : InB(k)
          /\ x \in T <=> x = Top(o) \/ \E k : InO(k)
      <4>1. \A k, Q : x \in Down(k, Q) <=> \E y \in Q : x = [path |-> <<k>> \o y.path, leaf |-> y.leaf]
        BY InDown
      <4>2. x \in NodesTo(r, m + 1) <=> x = Top(o) \/ \E k \in Keys(r) : x \in Down(k, R(k))
        BY <2>1, <2>2
      <4>3. x \in NodesTo(b, m + 1) <=> x = Top(b) \/ \E k \in Keys(b) : x \in Down(k, B(k))
        BY <2>1
      <4>4. x \in T <=> x = Top(o) \/ \E k \in Keys(o) : x \in Down(k, O(k))
        BY <2>1
      <4>5. QED
        BY <4>1, <4>2, <4>3, <4>4
    <3>2. ASSUME NEW k PROVE InR(k) <=> InO(k) \/ (InB(k) /\ Shown(x, T))
      <4>1. CASE k \notin Keys(b)
        BY <4>1, <2>2, <2>6
      <4>2. CASE k \in Keys(b) /\ k \notin Keys(o)
        <5>1. InB(k) => Shown(x, T)
          BY <4>2, <2>4
        <5>2. InR(k) <=> InB(k)
          BY <4>2, <2>2, <2>5
        <5>3. QED
          BY <4>2, <5>1, <5>2
      <4>3. CASE k \in Keys(b) \cap Keys(o)
        <5>1. R(k) = O(k) \cup {y \in B(k) : Shown(y, O(k))}
          BY <4>3, <2>7 DEF Overlaid
        <5>2. (\E y \in R(k) : x = [path |-> <<k>> \o y.path, leaf |-> y.leaf])
                <=> \/ \E y \in O(k) : x = [path |-> <<k>> \o y.path, leaf |-> y.leaf]
                    \/ \E y \in B(k) : /\ x = [path |-> <<k>> \o y.path, leaf |-> y.leaf]
                                       /\ Shown(y, O(k))
          BY <5>1
        <5>3. (\E y \in B(k) : /\ x = [path |-> <<k>> \o y.path, leaf |-> y.leaf]
                               /\ Shown(y, O(k)))
                <=> (\E y \in B(k) : x = [path |-> <<k>> \o y.path, leaf |-> y.leaf]) /\ Shown(x, T)
          <6>1. ASSUME NEW y \in B(k), x = [path |-> <<k>> \o y.path, leaf |-> y.leaf]
                PROVE  Shown(x, T) <=> Shown(y, O(k))
            BY <4>3, <6>1, <2>4
          <6>2. QED
            BY <6>1
        <5>4. QED
          BY <4>3, <2>2, <5>2, <5>3
      <4>4. QED
        BY <4>1, <4>2, <4>3
    <3> HIDE DEF InB, InO, InR
    <3>3. QED
      BY <2>3, <3>1, <3>2
  <2>9. NodesTo(r, m + 1) = Overlaid(NodesTo(b, m + 1), T)
    BY <2>8 DEF Overlaid
  <2>10. QED
    BY <2>9 DEF r, T
<1>7. S = Nat
  BY <1>5, <1>6, Induction
<1>8. QED
  BY <1>7

-----------------------------------------------------------------------------
(* What set_nested leaves alone                                              *)

\* A path that from segment i on goes the way of another, as far as both go.
Meets(r, path, i) == \A m \in 1..Len(r) : i + m <= Len(path) => r[m] = path[i + m]

\* Nodes that differ only where a path goes.
DifferAlong(S, T, path, i) == \A x \in (S \ T) \cup (T \ S) : Meets(x.path, path, i)

\* A path that meets another from the next segment on meets it from this one on,
\* with this one in front.
LEMMA MeetsFront ==
  ASSUME NEW path, Len(path) \in Nat, NEW i \in 0..(Len(path) - 1), NEW X, NEW r \in Seq(X),
         Meets(r, path, i + 1)
  PROVE  Meets(<<path[i + 1]>> \o r, path, i)
<1> DEFINE k == path[i + 1]
           s == <<k>> \o r
<1> HIDE DEF k
<1>1. /\ Len(s) = Len(r) + 1 /\ s[1] = k
      /\ \A m \in 2..(Len(r) + 1) : s[m] = r[m - 1]
  <2> DEFINE Z == X \cup {k}
  <2>1. r \in Seq(Z) /\ k \in Z
    OBVIOUS
  <2> HIDE DEF Z
  <2>2. QED
    BY <2>1
<1>2. Len(r) \in Nat
  OBVIOUS
<1> HIDE DEF s
<1>3. ASSUME NEW m \in 1..Len(s), i + m <= Len(path) PROVE s[m] = path[i + m]
  <2>1. CASE m = 1
    BY <1>1, <2>1 DEF k
  <2>2. CASE m # 1
    <3>1. m \in 2..(Len(r) + 1) /\ m - 1 \in 1..Len(r) /\ (i + 1) + (m - 1) = i + m
      BY <1>1, <1>2, <2>2
    <3>2. r[m - 1] = path[(i + 1) + (m - 1)]
      BY <1>3, <3>1 DEF Meets
    <3>3. QED
      BY <1>1, <3>1, <3>2
  <2>3. QED
    BY <2>1, <2>2
<1>4. QED
  BY <1>3 DEF Meets, s, k

\* A table with one key set has the other keys as before.
LEMMA OfInsert ==
  ASSUME NEW v, NEW key, NEW new
  PROVE  LET w == Insert(v, key, new) IN
         /\ IsTable(w)
         /\ Keys(w) = Keys(v) \cup {key}
         /\ w.table[key] = new
         /\ \A k \in Keys(v) : k # key => w.table[k] = v.table[k]
<1> DEFINE t == [k \in Keys(v) \cup {key} |-> IF k = key THEN new ELSE v.table[k]]
<1>1. Insert(v, key, new) = Table(t)
  BY DEF Insert
<1>2. IsTable(Table(t)) /\ Table(t).table = t /\ Keys(Table(t)) = DOMAIN t
  BY OfTable
<1>3. QED
  BY <1>1, <1>2

\* One level of set_nested: what differs below, differs below the segment.
LEMMA InsertDiffers ==
  ASSUME NEW path, Len(path) \in Nat, NEW i \in 0..(Len(path) - 1), NEW v, NEW new, NEW n \in Nat,
         DifferAlong(NodesTo(new, n),
                     NodesTo(IF path[i + 1] \in Keys(v) THEN v.table[path[i + 1]] ELSE EmptyTable, n),
                     path, i + 1)
  PROVE  DifferAlong(NodesTo(Insert(v, path[i + 1], new), n + 1), NodesTo(v, n + 1), path, i)
<1> DEFINE key == path[i + 1]
           w == Insert(v, key, new)
           old == IF key \in Keys(v) THEN v.table[key] ELSE EmptyTable
<1>1. /\ Keys(w) = Keys(v) \cup {key} /\ w.table[key] = new
      /\ \A k \in Keys(v) : k # key => w.table[k] = v.table[k]
  BY OfInsert
<1>2. DifferAlong(NodesTo(new, n), NodesTo(old, n), path, i + 1)
  OBVIOUS
<1>3. ASSUME NEW y, NEW X, y.path \in Seq(X), Meets(y.path, path, i + 1)
      PROVE  Meets([path |-> <<key>> \o y.path, leaf |-> y.leaf].path, path, i)
  BY <1>3, MeetsFront
<1>4. \A u : Meets(Top(u).path, path, i)
  BY DEF Meets, Top
<1>5. ASSUME NEW y \in NodesTo(new, n), y \notin NodesTo(old, n) \/ key \notin Keys(v)
      PROVE  Meets(y.path, path, i + 1)
  <2>1. CASE y \notin NodesTo(old, n)
    BY <1>2, <2>1 DEF DifferAlong
  <2>2. CASE y \in NodesTo(old, n)
    <3>1. key \notin Keys(v) /\ old = EmptyTable
      BY <1>5, <2>2
    <3>2. Keys(EmptyTable) = {}
      BY OfTable DEF EmptyTable
    <3>3. y = Top(old)
      BY <2>2, <3>1, <3>2, BareNodes
    <3>4. QED
      BY <3>3 DEF Meets, Top
  <2>3. QED
    BY <2>1, <2>2
<1>6. ASSUME NEW y \in NodesTo(old, n), y \notin NodesTo(new, n) PROVE Meets(y.path, path, i + 1)
  BY <1>2, <1>6 DEF DifferAlong
<1>7. \A u, x : x \in NodesTo(u, n + 1) <=>
         \/ x = Top(u)
         \/ \E k \in Keys(u) : \E y \in NodesTo(u.table[k], n) : x = [path |-> <<k>> \o y.path, leaf |-> y.leaf]
  <2> TAKE u, x
  <2>1. NodesTo(u, n + 1) = {Top(u)} \cup UNION {Down(k, NodesTo(u.table[k], n)) : k \in Keys(u)}
    BY NodesByKeys
  <2>2. \A k : x \in Down(k, NodesTo(u.table[k], n))
                 <=> \E y \in NodesTo(u.table[k], n) : x = [path |-> <<k>> \o y.path, leaf |-> y.leaf]
    BY InDown
  <2>3. QED
    BY <2>1, <2>2
<1>8. \A u : \A y \in NodesTo(u, n) : \E X : y.path \in Seq(X)
  BY NodesHavePaths DEF AreNodes
<1>9. key \in Keys(v) => old = v.table[key]
  OBVIOUS
<1> HIDE DEF w, old, key
<1>10. ASSUME NEW x \in NodesTo(w, n + 1), x \notin NodesTo(v, n + 1) PROVE Meets(x.path, path, i)
  <2>1. CASE x = Top(w)
    BY <1>4, <2>1
  <2>2. CASE x # Top(w)
    <3>1. NodesTo(w, n + 1) = {Top(w)} \cup UNION {Down(k, NodesTo(w.table[k], n)) : k \in Keys(w)}
      BY NodesByKeys
    <3>2. PICK k \in Keys(w) : x \in Down(k, NodesTo(w.table[k], n))
      BY <2>2, <3>1
    <3>3. PICK y \in NodesTo(w.table[k], n) : x = [path |-> <<k>> \o y.path, leaf |-> y.leaf]
      BY <3>2 DEF Down
    <3>4. ~(k \in Keys(v) /\ y \in NodesTo(v.table[k], n))
      BY <1>7, <1>10, <3>3
    <3>5. k = key
      BY <1>1, <3>3, <3>4
    <3>6. y \in NodesTo(new, n) /\ (y \notin NodesTo(old, n) \/ key \notin Keys(v))
      BY <1>1, <1>9, <3>3, <3>4, <3>5
    <3>7. QED
      BY <1>3, <1>5, <1>8, <3>3, <3>5, <3>6
  <2>3. QED
    BY <2>1, <2>2
<1>11. ASSUME NEW x \in NodesTo(v, n + 1), x \notin NodesTo(w, n + 1) PROVE Meets(x.path, path, i)
  <2>1. CASE x = Top(v)
    BY <1>4, <2>1
  <2>2. CASE x # Top(v)
    <3>1. NodesTo(v, n + 1) = {Top(v)} \cup UNION {Down(k, NodesTo(v.table[k], n)) : k \in Keys(v)}
      BY NodesByKeys
    <3>2. PICK k \in Keys(v) : x \in Down(k, NodesTo(v.table[k], n))
      BY <2>2, <3>1
    <3>3. PICK y \in NodesTo(v.table[k], n) : x = [path |-> <<k>> \o y.path, leaf |-> y.leaf]
      BY <3>2 DEF Down
    <3>4. y \notin NodesTo(w.table[k], n)
      BY <1>1, <1>7, <1>11, <3>3
    <3>5. k = key
      BY <1>1, <3>3, <3>4
    <3>6. y \in NodesTo(old, n) /\ y \notin NodesTo(new, n)
      BY <1>1, <1>9, <3>3, <3>4, <3>5
    <3>7. QED
      BY <1>3, <1>6, <1>8, <3>3, <3>5, <3>6
  <2>3. QED
    BY <2>1, <2>2
<1>12. QED
  BY <1>10, <1>11 DEF DifferAlong, w, key

\* From the end of the path back to the root, level by level.
LEMMA SetDiffersAlong ==
  ASSUME NEW root, NEW path, Len(path) \in Nat, path # <<>>, NEW value, NEW n \in Nat
  PROVE  DifferAlong(NodesTo(set_nested(root, path, value), n), NodesTo(root, n), path, 0)
<1> DEFINE L == Len(path)
           at == Along(root, path)
<1>1. PICK new : IsSet(new, at, path, value) /\ set_nested(root, path, value) = new[0]
  BY SetUnfolds
<1>2. /\ at[0] = root
      /\ \A i \in 1..L :
            at[i] = IF path[i] \in Keys(at[i - 1]) THEN at[i - 1].table[path[i]] ELSE EmptyTable
  BY AlongUnfolds
<1> HIDE DEF at
<1> DEFINE Differ(i) == \A m \in Nat : DifferAlong(NodesTo(new[i], m), NodesTo(at[i], m), path, i)
           S == {j \in Nat : j <= L => Differ(L - j)}
<1>3. 0 \in S
  <2>1. ASSUME NEW x PROVE Meets(x.path, path, L - 0)
    BY DEF Meets
  <2>2. Differ(L - 0)
    BY <2>1 DEF DifferAlong
  <2>3. QED
    BY <2>2
<1>4. ASSUME NEW j \in S PROVE j + 1 \in S
  <2> SUFFICES ASSUME j + 1 <= L PROVE Differ(L - (j + 1))
    OBVIOUS
  <2> DEFINE i == L - (j + 1)
  <2>1. i \in 0..(L - 1) /\ i + 1 = L - j /\ i + 1 \in 1..L /\ (i + 1) - 1 = i
    OBVIOUS
  <2> HIDE DEF i
  <2>2. Differ(i + 1)
    BY <2>1
  <2>3. new[i] = IF IsTable(at[i]) THEN Insert(at[i], path[i + 1], new[i + 1]) ELSE at[i]
    BY <1>1, <2>1 DEF IsSet
  <2>4. at[i + 1] = IF path[i + 1] \in Keys(at[i]) THEN at[i].table[path[i + 1]] ELSE EmptyTable
    BY <1>2, <2>1
  <2>5. ASSUME NEW m \in Nat PROVE DifferAlong(NodesTo(new[i], m), NodesTo(at[i], m), path, i)
    <3>1. CASE ~IsTable(at[i])
      BY <2>3, <3>1 DEF DifferAlong
    <3>2. CASE m = 0
      <4>1. NodesTo(new[i], m) = {Top(new[i])} /\ NodesTo(at[i], m) = {Top(at[i])}
        BY <3>2, NodesByKeys
      <4>2. \A u : Meets(Top(u).path, path, i)
        BY DEF Meets, Top
      <4>3. QED
        BY <4>1, <4>2 DEF DifferAlong
    <3>3. CASE IsTable(at[i]) /\ m # 0
      <4>1. m - 1 \in Nat /\ (m - 1) + 1 = m
        BY <3>3
      <4>2. DifferAlong(NodesTo(new[i + 1], m - 1), NodesTo(at[i + 1], m - 1), path, i + 1)
        BY <2>2, <4>1
      <4>3. DifferAlong(NodesTo(Insert(at[i], path[i + 1], new[i + 1]), (m - 1) + 1),
                        NodesTo(at[i], (m - 1) + 1), path, i)
        BY <2>1, <2>4, <4>1, <4>2, InsertDiffers
      <4>4. QED
        BY <2>3, <3>3, <4>1, <4>3
    <3>4. QED
      BY <3>1, <3>2, <3>3
  <2>6. QED
    BY <2>5 DEF i
<1>5. S = Nat
  BY <1>3, <1>4, Induction
<1>6. L <= L /\ L - L = 0
  OBVIOUS
<1>7. Differ(L - L)
  BY <1>5, <1>6
<1>8. Differ(0)
  BY <1>6, <1>7
<1>9. QED
  BY <1>1, <1>2, <1>8

\* Only what is on the way of the path, or below its end, is changed.
LEMMA SetStaysInPlace ==
  ASSUME NEW root, NEW W, NEW path \in Seq(W), path # <<>>, NEW value,
         NEW x \in (Nodes(set_nested(root, path, value)) \ Nodes(root))
                       \cup (Nodes(root) \ Nodes(set_nested(root, path, value)))
  PROVE  IsPrefix(path, x.path) \/ IsPrefix(x.path, path)
<1>1. \A v : Nodes(v) = NodesTo(v, MaxPath)
  BY DEF Nodes, NodesTo
<1>2. MaxPath \in Nat /\ Len(path) \in Nat
  BY BoundAssumption
<1>3. Meets(x.path, path, 0)
  BY <1>1, <1>2, SetDiffersAlong DEF DifferAlong
<1>4. PICK X : x.path \in Seq(X)
  BY <1>1, <1>2, NodesHavePaths DEF AreNodes
<1> DEFINE Z == X \cup W
           r == x.path
<1>5. r \in Seq(Z) /\ path \in Seq(Z) /\ Len(r) \in Nat
  BY <1>4
<1> HIDE DEF Z, r
<1>6. \A m \in 1..Len(r) : m <= Len(path) => r[m] = path[m]
  BY <1>2, <1>3, <1>5 DEF Meets, r
<1>7. CASE Len(r) <= Len(path)
  <2>1. IsPrefix(r, path) <=> Len(r) <= Len(path) /\ \A m \in 1..Len(r) : r[m] = path[m]
    BY <1>5, Prefix
  <2>2. QED
    BY <1>2, <1>5, <1>6, <1>7, <2>1 DEF r
<1>8. CASE Len(path) <= Len(r)
  <2>1. IsPrefix(path, r) <=> Len(path) <= Len(r) /\ \A m \in 1..Len(path) : path[m] = r[m]
    BY <1>5, Prefix
  <2>2. QED
    BY <1>2, <1>5, <1>6, <1>8, <2>1 DEF r
<1>9. QED
  BY <1>2, <1>5, <1>7, <1>8

-----------------------------------------------------------------------------
(* The invariant                                                             *)

\* The layers are put one over the other, the user's file first, and nothing
\* else is done before the environment.
Layering ==
    /\ filesOnly = deep_merge(read["user"], read["project"])
    /\ phase \in {"exists", "guard", "read"} =>
          /\ merged = filesOnly /\ merged = read["user"] /\ read["project"] = EmptyTable
          /\ file = "user" => read["user"] = EmptyTable

\* What is returned was deserialized and validated as it is.
Accepted ==
    /\ result = "none" <=> phase # "returned"
    /\ result = "ok" => ForgeclawConfig(merged) /\ validate(merged)

IInv == TypeOK /\ Layering /\ EnvironmentStaysInPlace /\ Accepted

\* Nothing put over a table, or under it, leaves the table.
LEMMA MergeTables ==
  ASSUME NEW t \in Trees \cup {EmptyTable}
  PROVE  /\ t \in Values /\ IsTable(t)
         /\ deep_merge(EmptyTable, t) = t /\ deep_merge(t, EmptyTable) = t
         /\ \A u \in Trees : IsTable(deep_merge(t, u))
<1>1. EmptyTable \in Values /\ t \in Values /\ IsTable(t) /\ IsTable(EmptyTable)
  BY ValuesAssumption, OfTable DEF EmptyTable
<1>2. Keys(EmptyTable) = {}
  BY OfTable DEF EmptyTable
<1>3. t = Table([k \in Keys(t) |-> t.table[k]])
  BY <1>1, Valued
<1>4. deep_merge(EmptyTable, t) = t
  <2> DEFINE f == [k \in Keys(EmptyTable) \cup Keys(t) |->
                      IF k \notin Keys(t) THEN EmptyTable.table[k]
                      ELSE IF k \notin Keys(EmptyTable) THEN t.table[k]
                      ELSE deep_merge(EmptyTable.table[k], t.table[k])]
  <2>1. deep_merge(EmptyTable, t) = Table(f)
    BY <1>1, MergeUnfolds
  <2>2. f = [k \in Keys(t) |-> t.table[k]]
    BY <1>2
  <2>3. QED
    BY <1>3, <2>1, <2>2
<1>5. deep_merge(t, EmptyTable) = t
  <2> DEFINE f == [k \in Keys(t) \cup Keys(EmptyTable) |->
                      IF k \notin Keys(EmptyTable) THEN t.table[k]
                      ELSE IF k \notin Keys(t) THEN EmptyTable.table[k]
                      ELSE deep_merge(t.table[k], EmptyTable.table[k])]
  <2>1. deep_merge(t, EmptyTable) = Table(f)
    BY <1>1, MergeUnfolds
  <2>2. f = [k \in Keys(t) |-> t.table[k]]
    BY <1>2
  <2>3. QED
    BY <1>3, <2>1, <2>2
<1>6. ASSUME NEW u \in Trees PROVE IsTable(deep_merge(t, u))
  <2>1. u \in Values /\ IsTable(u)
    BY ValuesAssumption
  <2> DEFINE f == [k \in Keys(t) \cup Keys(u) |->
                      IF k \notin Keys(u) THEN t.table[k]
                      ELSE IF k \notin Keys(t) THEN u.table[k]
                      ELSE deep_merge(t.table[k], u.table[k])]
  <2>2. deep_merge(t, u) = Table(f)
    BY <1>1, <2>1, MergeUnfolds
  <2> HIDE DEF f
  <2>3. QED
    BY <2>2, OfTable
<1>7. QED
  BY <1>1, <1>4, <1>5, <1>6

\* A variable is set at a path, and leaves a table a table.
LEMMA Overrides ==
  ASSUME NEW variable \in Variables, IsOverride(variable), NEW root
  PROVE  /\ \E W : normalize_env_path(variable.path) \in Seq(W)
         /\ normalize_env_path(variable.path) # <<>>
         /\ IsTable(root) => IsTable(Override(root, variable))
<1> DEFINE parts == variable.path
           path == normalize_env_path(parts)
           W == DOMAIN Lower \cup {Lower[w] : w \in DOMAIN Lower}
<1>1. parts \in Seq(DOMAIN Lower) /\ Len(parts) >= 2 /\ Len(parts) \in Nat
  BY VariablesAssumption DEF IsOverride
<1> HIDE DEF parts
<1>2. path = [i \in 1..Len(parts) |->
                 IF i = 2 /\ Lower[parts[1]] \in MAP_SECTIONS THEN parts[i] ELSE Lower[parts[i]]]
  BY <1>1 DEF normalize_env_path
<1>3. \A i \in 1..Len(parts) : parts[i] \in DOMAIN Lower
  BY <1>1
<1>4. path \in [1..Len(parts) -> W]
  BY <1>2, <1>3
<1> HIDE DEF path, W
<1>5. path \in Seq(W) /\ Len(path) = Len(parts)
  BY <1>1, <1>4
<1>6. path # <<>> /\ Len(path) \in Nat /\ Len(path) # 0
  BY <1>1, <1>5
<1>7. ASSUME IsTable(root) PROVE IsTable(Override(root, variable))
  <2> DEFINE value == parse_env_value(variable.raw)
             at == Along(root, path)
  <2>1. PICK new : IsSet(new, at, path, value) /\ set_nested(root, path, value) = new[0]
    BY <1>6, SetUnfolds
  <2>2. at[0] = root
    BY <1>6, AlongUnfolds
  <2> HIDE DEF at, value
  <2>3. 0 \in 0..(Len(path) - 1)
    BY <1>6
  <2>4. new[0] = Insert(at[0], path[0 + 1], new[0 + 1])
    BY <1>7, <2>1, <2>2, <2>3 DEF IsSet
  <2>5. IsTable(new[0])
    BY <2>4, OfInsert
  <2>6. QED
    BY <2>1, <2>5 DEF Override, path, parts, value
<1>8. QED
  BY <1>5, <1>6, <1>7 DEF path, parts

\* At first nothing has been read and nothing is merged.
LEMMA Begins ==
  Init => IInv
<1> SUFFICES ASSUME Init PROVE IInv
  OBVIOUS
<1> USE DEF Init
<1>1. TypeOK
  <2>1. IsTable(merged)
    BY MergeTables
  <2>2. disk \in [Files -> OnDisk]
    BY DEF OnDisk
  <2>3. phase \in {"exists", "guard"} /\ file \in Files
    BY DEF home_config_path, Files
  <2>4. env \subseteq Variables /\ pending \subseteq env
    OBVIOUS
  <2>5. mode = "single" => file = "project" /\ pending = {}
    OBVIOUS
  <2>6. read \in [Files -> Trees \cup {EmptyTable}] /\ edits \in 0..MaxEdits
    OBVIOUS
  <2>7. result \in ConfigError \cup {"none", "ok"}
    OBVIOUS
  <2>8. QED
    BY <2>1, <2>2, <2>3, <2>4, <2>5, <2>6, <2>7 DEF TypeOK
<1>2. Layering
  BY MergeTables DEF Layering, Files
<1>3. EnvironmentStaysInPlace
  BY DEF EnvironmentStaysInPlace
<1>4. Accepted
  BY DEF Accepted
<1>5. QED
  BY <1>1, <1>2, <1>3, <1>4 DEF IInv

\* The property speaks of three variables,
LEMMA InPlaceIsKept ==
  ASSUME EnvironmentStaysInPlace, env' = env, merged' = merged, filesOnly' = filesOnly
  PROVE  EnvironmentStaysInPlace'
BY DEF EnvironmentStaysInPlace

\* and says nothing while nothing is overridden.
LEMMA InPlaceAtFirst ==
  ASSUME filesOnly' = merged'
  PROVE  EnvironmentStaysInPlace'
BY DEF EnvironmentStaysInPlace

\* Whatever load_layered returns.
LEMMA Returning ==
  ASSUME IInv, NEW res \in ConfigError \cup {"ok"}, Return(res), phase # "returned",
         res = "ok" => ForgeclawConfig(merged) /\ validate(merged)
  PROVE  IInv'
<1> USE DEF Return
<1>1. TypeOK'
  BY DEF IInv, TypeOK
<1>2. Layering'
  BY DEF IInv, Layering
<1>3. EnvironmentStaysInPlace'
  BY InPlaceIsKept DEF IInv
<1>4. Accepted'
  <2>1. res # "none"
    BY DEF ConfigError
  <2>2. QED
    BY <2>1 DEF Accepted
<1>5. QED
  BY <1>1, <1>2, <1>3, <1>4 DEF IInv

\* A layer done, by reading the file or by passing it over.
LEMMA LayerDone ==
  ASSUME IInv, phase \in {"exists", "read"}, NextLayer, filesOnly' = merged',
         IsTable(merged'), read' \in [Files -> Trees \cup {EmptyTable}],
         merged' = deep_merge(read'["user"], read'["project"]),
         file = "user" => merged' = read'["user"] /\ read'["project"] = EmptyTable,
         UNCHANGED <<mode, disk, edits, env, pending, result>>
  PROVE  IInv'
<1>1. \/ file = "user" /\ file' = "project" /\ phase' = "exists"
      \/ file = "project" /\ file' = "project" /\ phase' = "env"
  BY DEF NextLayer, IInv, TypeOK, Files
<1>2. TypeOK'
  BY <1>1 DEF IInv, TypeOK, Files
<1>3. Layering'
  BY <1>1 DEF Layering
<1>4. EnvironmentStaysInPlace'
  BY InPlaceAtFirst
<1>5. Accepted'
  BY <1>1 DEF IInv, Accepted
<1>6. QED
  BY <1>2, <1>3, <1>4, <1>5 DEF IInv

\* A step of load_layered, and an edit of a file, keep all of it.
LEMMA Steps ==
  IInv /\ [Next]_vars => IInv'
<1> SUFFICES ASSUME IInv, [Next]_vars PROVE IInv'
  OBVIOUS
<1>0. /\ read \in [Files -> Trees \cup {EmptyTable}] /\ file \in Files
      /\ phase \in {"exists", "guard", "read", "env", "returned"}
      /\ disk \in [Files -> OnDisk]
  BY DEF IInv, TypeOK
<1>1. CASE Passed
  <2>1. read["user"] \in Trees \cup {EmptyTable}
    BY <1>0 DEF Files
  <2>2. /\ merged = filesOnly /\ filesOnly = deep_merge(read["user"], read["project"])
        /\ merged = read["user"] /\ read["project"] = EmptyTable
    BY <1>1 DEF Passed, IInv, Layering
  <2>3. IsTable(merged)
    BY DEF IInv, TypeOK
  <2>4. QED
    BY <1>0, <1>1, <2>2, <2>3, LayerDone DEF Passed
<1>2. CASE Exists \/ read_guarded
  <2>1. /\ phase \in {"exists", "guard"} /\ phase' \in {"guard", "read"}
        /\ UNCHANGED <<mode, disk, edits, file, merged, read, env, pending, filesOnly, result>>
    BY <1>2 DEF Exists, read_guarded
  <2>2. TypeOK'
    BY <2>1 DEF IInv, TypeOK
  <2>3. Layering'
    BY <2>1 DEF IInv, Layering
  <2>4. EnvironmentStaysInPlace'
    BY <2>1, InPlaceIsKept DEF IInv
  <2>5. Accepted'
    BY <2>1 DEF IInv, Accepted
  <2>6. QED
    BY <2>2, <2>3, <2>4, <2>5 DEF IInv
<1>3. CASE GuardFails \/ ReadFails
  <2>1. phase \in {"guard", "read"} /\ \E res \in ConfigError : Return(res)
    BY <1>3 DEF GuardFails, ReadFails, ConfigError
  <2>2. PICK res \in ConfigError : Return(res)
    BY <2>1
  <2>3. res # "ok" /\ res \in ConfigError \cup {"ok"} /\ phase # "returned"
    BY <2>1 DEF ConfigError
  <2>4. QED
    BY <2>2, <2>3, Returning
<1>4. CASE read_toml
  <2> DEFINE t == disk[file].tree
             u == read["user"]
  <2>1. t \in Trees
    <3>1. disk[file] \in OnDisk /\ disk[file].state \in {"huge", "fine"}
      BY <1>0, <1>4 DEF read_toml
    <3>2. QED
      BY <3>1 DEF OnDisk, Absent
  <2>2. /\ merged = u /\ read["project"] = EmptyTable /\ phase = "read"
        /\ file = "user" => u = EmptyTable
    BY <1>4 DEF read_toml, IInv, Layering
  <2>3. u \in Trees \cup {EmptyTable}
    BY <1>0 DEF Files
  <2>4. merged' = deep_merge(u, t) /\ read' = [read EXCEPT ![file] = t] /\ filesOnly' = merged'
    BY <1>4, <2>2 DEF read_toml
  <2> HIDE DEF t
  <2>5. read' \in [Files -> Trees \cup {EmptyTable}]
    BY <1>0, <2>1, <2>4
  <2>6. IsTable(merged')
    BY <2>1, <2>3, <2>4, MergeTables
  <2>7. CASE file = "user"
    <3>1. read'["user"] = t /\ read'["project"] = EmptyTable
      BY <1>0, <2>2, <2>4, <2>7 DEF Files
    <3>2. merged' = t /\ deep_merge(t, EmptyTable) = t
      BY <2>1, <2>2, <2>4, <2>7, MergeTables
    <3>3. QED
      BY <1>4, <2>2, <2>4, <2>5, <2>6, <3>1, <3>2, LayerDone DEF read_toml
  <2>8. CASE file = "project"
    <3>1. read'["user"] = u /\ read'["project"] = t
      BY <1>0, <2>4, <2>8 DEF Files
    <3>2. QED
      BY <1>4, <2>2, <2>4, <2>5, <2>6, <2>8, <3>1, LayerDone DEF read_toml
  <2>9. QED
    BY <1>0, <2>7, <2>8 DEF Files
<1>5. CASE apply_env_overrides
  <2>1. PICK variable \in pending :
           /\ pending' = pending \ {variable}
           /\ merged' = IF IsOverride(variable) THEN Override(merged, variable) ELSE merged
    BY <1>5 DEF apply_env_overrides
  <2>2. /\ phase = "env" /\ variable \in env /\ variable \in Variables /\ IsTable(merged)
        /\ UNCHANGED <<mode, disk, edits, phase, file, read, env, filesOnly, result>>
    BY <1>5 DEF apply_env_overrides, IInv, TypeOK
  <2>3. IsTable(merged')
    BY <2>1, <2>2, Overrides
  <2>4. TypeOK'
    BY <2>1, <2>2, <2>3 DEF IInv, TypeOK
  <2>5. Layering'
    BY <2>2 DEF IInv, Layering
  <2>6. Accepted'
    BY <2>2 DEF IInv, Accepted
  <2>7. CASE ~IsOverride(variable)
    BY <2>1, <2>2, <2>4, <2>5, <2>6, <2>7, InPlaceIsKept DEF IInv
  <2>8. CASE IsOverride(variable)
    <3> DEFINE path == normalize_env_path(variable.path)
               paths == {normalize_env_path(v.path) : v \in {w \in env : IsOverride(w)}}
               Touched(p) == \E q \in paths : IsPrefix(q, p) \/ IsPrefix(p, q)
    <3>1. path \in paths
      BY <2>2, <2>8
    <3>2. PICK W : path \in Seq(W) /\ path # <<>>
      BY <2>2, <2>8, Overrides
    <3>3. merged' = set_nested(merged, path, parse_env_value(variable.raw))
      BY <2>1, <2>8 DEF Override
    <3> HIDE DEF path, paths
    <3>4. ASSUME NEW x \in (Nodes(merged') \ Nodes(merged)) \cup (Nodes(merged) \ Nodes(merged'))
          PROVE  Touched(x.path)
      BY <3>1, <3>2, <3>3, SetStaysInPlace
    <3>5. ASSUME NEW x \in (Nodes(merged) \ Nodes(filesOnly)) \cup (Nodes(filesOnly) \ Nodes(merged))
          PROVE  Touched(x.path)
      BY DEF IInv, EnvironmentStaysInPlace, paths
    <3> HIDE DEF Touched
    <3>6. ASSUME NEW x \in (Nodes(merged') \ Nodes(filesOnly)) \cup (Nodes(filesOnly) \ Nodes(merged'))
          PROVE  Touched(x.path)
      BY <3>4, <3>5
    <3>7. EnvironmentStaysInPlace'
      BY <2>2, <3>6 DEF EnvironmentStaysInPlace, Touched, paths
    <3>8. QED
      BY <2>4, <2>5, <2>6, <3>7 DEF IInv
  <2>9. QED
    BY <2>7, <2>8
<1>6. CASE Finish
  <2>1. /\ phase = "env"
        /\ Return(IF ~ForgeclawConfig(merged) THEN "Parse"
                  ELSE IF ~validate(merged) THEN "Validation" ELSE "ok")
    BY <1>6 DEF Finish
  <2> DEFINE res == IF ~ForgeclawConfig(merged) THEN "Parse"
                    ELSE IF ~validate(merged) THEN "Validation" ELSE "ok"
  <2>2. /\ res \in ConfigError \cup {"ok"}
        /\ res = "ok" => ForgeclawConfig(merged) /\ validate(merged)
    BY DEF ConfigError
  <2> HIDE DEF res
  <2>3. Return(res) /\ phase # "returned"
    BY <2>1 DEF res
  <2>4. QED
    BY <2>2, <2>3, Returning
<1>7. CASE Edit
  <2>1. /\ UNCHANGED <<mode, phase, file, merged, read, env, pending, filesOnly, result>>
        /\ edits' = edits + 1 /\ edits < MaxEdits /\ edits \in 0..MaxEdits
    BY <1>7 DEF Edit, IInv, TypeOK
  <2>2. disk' \in [Files -> OnDisk]
    <3>1. PICK f \in {file, "project"}, new \in OnDisk : disk' = [disk EXCEPT ![f] = new]
      BY <1>7 DEF Edit
    <3> HIDE DEF OnDisk
    <3>2. QED
      BY <1>0, <3>1 DEF Files
  <2>3. edits' \in 0..MaxEdits
    BY <2>1, BoundAssumption
  <2>4. TypeOK'
    BY <2>1, <2>2, <2>3 DEF IInv, TypeOK
  <2>5. Layering'
    BY <2>1 DEF IInv, Layering
  <2>6. EnvironmentStaysInPlace'
    BY <2>1, InPlaceIsKept DEF IInv
  <2>7. Accepted'
    BY <2>1 DEF IInv, Accepted
  <2>8. QED
    BY <2>4, <2>5, <2>6, <2>7 DEF IInv
<1>8. CASE UNCHANGED vars
  <2>1. TypeOK' /\ Layering' /\ EnvironmentStaysInPlace' /\ Accepted'
    BY <1>8 DEF vars, IInv, TypeOK, Layering, EnvironmentStaysInPlace, Accepted
  <2>2. QED
    BY <2>1 DEF IInv
<1>9. QED
  BY <1>1, <1>2, <1>3, <1>4, <1>5, <1>6, <1>7, <1>8 DEF Next, load_layered

-----------------------------------------------------------------------------
(* What follows                                                              *)

\* What is merged of the files, in terms of paths.
LEMMA FilesByPaths ==
  ASSUME TypeOK, Layering
  PROVE  ProjectOverUser
<1> DEFINE user == Nodes(read["user"])
           project == Nodes(read["project"])
<1>1. read["user"] \in Values /\ read["project"] \in Values
  <2>1. read["user"] \in Trees \cup {EmptyTable} /\ read["project"] \in Trees \cup {EmptyTable}
    BY DEF TypeOK, Files
  <2>2. QED
    BY <2>1, ValuesAssumption
<1>2. \A v : Nodes(v) = NodesTo(v, MaxPath)
  BY DEF Nodes, NodesTo
<1>3. MaxPath \in Nat
  BY BoundAssumption
<1>4. Nodes(deep_merge(read["user"], read["project"])) = Overlaid(user, project)
  BY <1>1, <1>2, <1>3, MergeNodesTo
<1>5. Nodes(filesOnly) = Overlaid(user, project)
  BY <1>4 DEF Layering
<1> HIDE DEF user, project
<1>6. Nodes(filesOnly) = project \cup
         {n \in user :
             /\ \A p \in project : p.path # n.path
             /\ \A p \in project : ~IsTable(p.leaf) => ~IsStrictPrefix(p.path, n.path)}
  BY <1>5 DEF Overlaid, Shown
<1>7. QED
  BY <1>6 DEF ProjectOverUser, user, project

\* A node, less the first segment of its path.
IsRest(y, x) ==
    /\ y.leaf = x.leaf
    /\ Len(y.path) = Len(x.path) - 1
    /\ \A i \in 1..Len(y.path) : y.path[i] = x.path[i + 1]

\* A node is there by following its path from key to key.
LEMMA NodeIsBelow ==
  ASSUME NEW v, NEW n \in Nat, NEW x \in NodesTo(v, n), Len(x.path) > 0
  PROVE  /\ n - 1 \in Nat
         /\ x.path[1] \in Keys(v)
         /\ \E y \in NodesTo(v.table[x.path[1]], n - 1) : IsRest(y, x)
<1>1. x # Top(v)
  BY DEF Top
<1>2. CASE n = 0
  BY <1>1, <1>2, NodesByKeys
<1>3. CASE n # 0
  <2>1. n - 1 \in Nat /\ (n - 1) + 1 = n
    BY <1>3
  <2>2. NodesTo(v, (n - 1) + 1)
           = {Top(v)} \cup UNION {Down(k, NodesTo(v.table[k], n - 1)) : k \in Keys(v)}
    BY <2>1, NodesByKeys
  <2>3. PICK k \in Keys(v) : x \in Down(k, NodesTo(v.table[k], n - 1))
    BY <1>1, <2>1, <2>2
  <2>4. PICK y \in NodesTo(v.table[k], n - 1) : x = [path |-> <<k>> \o y.path, leaf |-> y.leaf]
    BY <2>3 DEF Down
  <2>5. PICK X : y.path \in Seq(X)
    BY <2>1, NodesHavePaths DEF AreNodes
  <2> DEFINE p == y.path
  <2>6. /\ Len(<<k>> \o p) = Len(p) + 1 /\ (<<k>> \o p)[1] = k
        /\ \A i \in 1..Len(p) : (<<k>> \o p)[i + 1] = p[i]
    <3> DEFINE Z == X \cup {k}
    <3>1. p \in Seq(Z) /\ k \in Z
      BY <2>5
    <3> HIDE DEF Z, p
    <3>2. QED
      BY <3>1
  <2>7. Len(p) \in Nat
    BY <2>5
  <2>8. x.path = <<k>> \o p /\ x.leaf = y.leaf
    BY <2>4
  <2> HIDE DEF p
  <2>9. x.path[1] = k /\ Len(p) = Len(x.path) - 1 /\ \A i \in 1..Len(p) : p[i] = x.path[i + 1]
    BY <2>6, <2>7, <2>8
  <2>10. QED
    BY <2>1, <2>8, <2>9 DEF p, IsRest
<1>4. QED
  BY <1>2, <1>3

\* The node with the empty path is the value's own.
LEMMA TopIsAlone ==
  ASSUME NEW v, NEW n \in Nat, NEW x \in NodesTo(v, n), Len(x.path) = 0
  PROVE  x.leaf = Leaf(v)
<1>1. CASE x = Top(v)
  BY <1>1 DEF Top
<1>2. CASE x # Top(v)
  <2>1. n # 0
    BY <1>2, NodesByKeys
  <2>2. n - 1 \in Nat /\ (n - 1) + 1 = n
    BY <2>1
  <2>3. NodesTo(v, (n - 1) + 1)
           = {Top(v)} \cup UNION {Down(k, NodesTo(v.table[k], n - 1)) : k \in Keys(v)}
    BY <2>2, NodesByKeys
  <2>4. PICK k \in Keys(v) : x \in Down(k, NodesTo(v.table[k], n - 1))
    BY <1>2, <2>2, <2>3
  <2>5. PICK y \in NodesTo(v.table[k], n - 1) : x = [path |-> <<k>> \o y.path, leaf |-> y.leaf]
    BY <2>4 DEF Down
  <2>6. PICK X : y.path \in Seq(X)
    BY <2>2, NodesHavePaths DEF AreNodes
  <2> DEFINE p == y.path
             Z == X \cup {k}
  <2>7. p \in Seq(Z) /\ k \in Z
    BY <2>6
  <2> HIDE DEF Z, p
  <2>8. Len(<<k>> \o p) = Len(p) + 1 /\ Len(p) \in Nat
    BY <2>7
  <2>9. QED
    BY <2>5, <2>8 DEF p
<1>3. QED
  BY <1>1, <1>2

\* What is a node of the value at a key is one under the key.
LEMMA KeyIsNode ==
  ASSUME NEW v, NEW n \in Nat, NEW k \in Keys(v), NEW y \in NodesTo(v.table[k], n)
  PROVE  [path |-> <<k>> \o y.path, leaf |-> y.leaf] \in NodesTo(v, n + 1)
<1>1. NodesTo(v, n + 1) = {Top(v)} \cup UNION {Down(j, NodesTo(v.table[j], n)) : j \in Keys(v)}
  BY NodesByKeys
<1>2. [path |-> <<k>> \o y.path, leaf |-> y.leaf] \in Down(k, NodesTo(v.table[k], n))
  BY DEF Down
<1>3. QED
  BY <1>1, <1>2

\* Three segments down.
LEMMA ThirdNode ==
  ASSUME NEW v, NEW n \in Nat, NEW x \in NodesTo(v, n), Len(x.path) = 3
  PROVE  LET a == x.path[1]
             b == x.path[2]
             c == x.path[3]
         IN /\ a \in Keys(v) /\ b \in Keys(v.table[a]) /\ c \in Keys(v.table[a].table[b])
            /\ x.leaf = Leaf(v.table[a].table[b].table[c])
            /\ n - 2 \in Nat
<1> DEFINE a == x.path[1]
           b == x.path[2]
           c == x.path[3]
           v1 == v.table[a]
           v2 == v1.table[b]
           v3 == v2.table[c]
           n1 == n - 1
           n2 == n1 - 1
           n3 == n2 - 1
<1>1. n1 \in Nat /\ a \in Keys(v)
  BY NodeIsBelow
<1>2. PICK y \in NodesTo(v1, n1) : IsRest(y, x)
  BY NodeIsBelow
<1>3. Len(y.path) = 2 /\ y.path[1] = b /\ y.path[2] = c
  BY <1>2 DEF IsRest
<1> HIDE DEF v1, n1, b, c
<1>4. n2 \in Nat /\ b \in Keys(v1)
  BY <1>1, <1>3, NodeIsBelow
<1>5. PICK z \in NodesTo(v2, n2) : IsRest(z, y)
  BY <1>1, <1>3, NodeIsBelow
<1>6. Len(z.path) = 1 /\ z.path[1] = c
  BY <1>3, <1>5 DEF IsRest
<1> HIDE DEF v2, n2
<1>7. n3 \in Nat /\ c \in Keys(v2)
  BY <1>4, <1>6, NodeIsBelow
<1>8. PICK u \in NodesTo(v3, n3) : IsRest(u, z)
  BY <1>4, <1>6, NodeIsBelow
<1>9. Len(u.path) = 0
  BY <1>6, <1>8 DEF IsRest
<1> HIDE DEF v3, n3
<1>10. u.leaf = Leaf(v3)
  BY <1>7, <1>9, TopIsAlone
<1>11. x.leaf = Leaf(v3)
  BY <1>2, <1>5, <1>8, <1>10 DEF IsRest
<1>12. n - 2 \in Nat
  BY <1>4 DEF n1, n2
<1>13. QED
  BY <1>1, <1>4, <1>7, <1>11, <1>12 DEF v1, v2, v3, b, c

\* Two segments in a row.
LEMMA Pair ==
  ASSUME NEW a, NEW b
  PROVE  <<a>> \o <<b>> = <<a, b>>
<1>1. PICK p : p = <<b>> /\ p \in Seq({a, b})
  <2>1. <<b>> \in Seq({a, b})
    OBVIOUS
  <2>2. QED
    BY <2>1, Zenon
<1>2. PICK q : q = <<a, b>> /\ q \in Seq({a, b})
  <2>1. <<a, b>> \in Seq({a, b})
    OBVIOUS
  <2>2. QED
    BY <2>1, Zenon
<1>3. Len(p) = 1 /\ p[1] = b /\ Len(q) = 2 /\ q[1] = a /\ q[2] = b
  BY <1>1, <1>2
<1>4. PICK Z : Z = {a, b}
  OBVIOUS
<1>5. p \in Seq(Z) /\ q \in Seq(Z) /\ a \in Z
  BY <1>1, <1>2, <1>4
<1>6. /\ <<a>> \o p \in Seq(Z) /\ Len(<<a>> \o p) = Len(p) + 1 /\ (<<a>> \o p)[1] = a
      /\ \A i \in 1..Len(p) : (<<a>> \o p)[i + 1] = p[i]
  BY <1>5
<1>7. (<<a>> \o p)[2] = b
  BY <1>3, <1>6
<1>8. <<a>> \o p = q
  BY <1>3, <1>5, <1>6, <1>7
<1>9. QED
  BY <1>1, <1>2, <1>8

\* And two segments down.
LEMMA SecondNode ==
  ASSUME NEW v, NEW n \in Nat, n - 2 \in Nat, NEW a \in Keys(v), NEW b \in Keys(v.table[a])
  PROVE  [path |-> <<a, b>>, leaf |-> Leaf(v.table[a].table[b])] \in NodesTo(v, n)
<1> DEFINE v1 == v.table[a]
           v2 == v1.table[b]
           y == [path |-> <<b>>, leaf |-> Leaf(v2)]
<1>1. n - 1 \in Nat /\ (n - 2) + 1 = n - 1 /\ (n - 1) + 1 = n
  OBVIOUS
<1>2. Top(v2) \in NodesTo(v2, n - 2) /\ Top(v2).path = <<>> /\ Top(v2).leaf = Leaf(v2)
  BY NodesHavePaths DEF Top
<1>3. <<b>> \o <<>> = <<b>> /\ <<a>> \o <<b>> = <<a, b>>
  <2>1. <<b>> \o <<>> = <<b>>
    OBVIOUS
  <2>2. <<a>> \o <<b>> = <<a, b>>
    BY Pair
  <2>3. QED
    BY <2>1, <2>2
<1>4. [path |-> <<b>> \o Top(v2).path, leaf |-> Top(v2).leaf] \in NodesTo(v1, (n - 2) + 1)
  BY <1>2, KeyIsNode
<1>5. y \in NodesTo(v1, n - 1)
  BY <1>1, <1>2, <1>3, <1>4
<1>6. [path |-> <<a>> \o y.path, leaf |-> y.leaf] \in NodesTo(v, (n - 1) + 1)
  BY <1>1, <1>5, KeyIsNode
<1>7. y.path = <<b>> /\ y.leaf = Leaf(v2)
  OBVIOUS
<1>8. QED
  BY <1>1, <1>3, <1>6, <1>7

\* What a configuration that serde and validate accept refers to is there.
LEMMA AcceptedRefers ==
  ASSUME ForgeclawConfig(merged), validate(merged),
         NEW g \in Keys(merged.table["groups"]),
         NEW section \in {"providers", "channels", "budget_pools"}, NEW name,
         <<section, name>> \in References(merged.table["groups"].table[g])
  PROVE  /\ section \in Keys(merged) /\ name \in Keys(merged.table[section])
         /\ IsTable(merged.table[section].table[name])
<1>1. "groups" \in Keys(merged)
  BY DEF ForgeclawConfig, Struct
<1>2. g \in Names(merged, "groups")
  BY <1>1 DEF Names
<1>3. <<section, name>>[2] \in Names(merged, <<section, name>>[1])
  BY <1>2 DEF validate
<1>4. name \in Names(merged, section)
  BY <1>3
<1>5. section \in Keys(merged) /\ name \in Keys(merged.table[section])
  BY <1>4 DEF Names
<1>6. IsTable(merged.table[section].table[name])
  <2>1. CASE section = "providers"
    <3>1. MapOf(merged.table["providers"], ProviderConfig)
      BY <1>5, <2>1 DEF ForgeclawConfig, Fields
    <3>2. ProviderConfig(merged.table[section].table[name])
      BY <1>5, <2>1, <3>1 DEF MapOf
    <3>3. QED
      BY <3>2 DEF ProviderConfig, Struct
  <2>2. CASE section = "channels"
    <3>1. MapOf(merged.table["channels"], ChannelConfig)
      BY <1>5, <2>2 DEF ForgeclawConfig, Fields
    <3>2. ChannelConfig(merged.table[section].table[name])
      BY <1>5, <2>2, <3>1 DEF MapOf
    <3>3. QED
      BY <3>2 DEF ChannelConfig, Struct
  <2>3. CASE section = "budget_pools"
    <3>1. MapOf(merged.table["budget_pools"], BudgetPoolConfig)
      BY <1>5, <2>3 DEF ForgeclawConfig, Fields
    <3>2. BudgetPoolConfig(merged.table[section].table[name])
      BY <1>5, <2>3, <3>1 DEF MapOf
    <3>3. QED
      BY <3>2 DEF BudgetPoolConfig, Struct
  <2>4. QED
    BY <2>1, <2>2, <2>3
<1>7. QED
  BY <1>5, <1>6

\* The references by paths are those that validate looks at.
LEMMA AcceptedHolds ==
  ASSUME Accepted
  PROVE  ReferencesHold
<1> DEFINE nodes == Nodes(merged)
           Defined(section, name) ==
               \E m \in nodes : m.path = <<section, name>> /\ IsTable(m.leaf)
<1> SUFFICES ASSUME result = "ok", NEW n \in nodes, Len(n.path) = 3, n.path[1] = "groups"
             PROVE  CASE n.path[3] = "channel"     -> Defined("channels", n.leaf.data)
                      [] n.path[3] = "provider"    -> Defined("providers", n.leaf.data)
                      [] n.path[3] = "budget_pool" -> Defined("budget_pools", n.leaf.data)
                      [] n.path[3] = "fallback"    ->
                             \A i \in DOMAIN n.leaf.items :
                                 Defined("providers", n.leaf.items[i].table["provider"].data)
                      [] OTHER -> TRUE
  BY DEF ReferencesHold
<1>1. ForgeclawConfig(merged) /\ validate(merged)
  BY DEF Accepted
<1>2. nodes = NodesTo(merged, MaxPath) /\ MaxPath \in Nat
  BY BoundAssumption DEF Nodes, NodesTo
<1> DEFINE g == n.path[2]
           field == n.path[3]
           group == merged.table["groups"].table[g]
<1>3. /\ g \in Keys(merged.table["groups"]) /\ field \in Keys(group)
      /\ n.leaf = Leaf(group.table[field])
      /\ MaxPath - 2 \in Nat
  <2> DEFINE a == n.path[1]
             b == n.path[2]
             c == n.path[3]
  <2>1. n \in NodesTo(merged, MaxPath) /\ MaxPath \in Nat
    BY <1>2
  <2>2. /\ b \in Keys(merged.table[a]) /\ c \in Keys(merged.table[a].table[b])
        /\ n.leaf = Leaf(merged.table[a].table[b].table[c])
        /\ MaxPath - 2 \in Nat
    BY <2>1, ThirdNode
  <2>3. QED
    BY <2>2
<1> HIDE DEF nodes, g, field, group
<1>4. ASSUME NEW section \in {"providers", "channels", "budget_pools"}, NEW name,
             <<section, name>> \in References(group)
      PROVE  Defined(section, name)
  <2> DEFINE value == merged.table[section].table[name]
             m == [path |-> <<section, name>>, leaf |-> Leaf(value)]
  <2>1. /\ section \in Keys(merged) /\ name \in Keys(merged.table[section])
        /\ IsTable(value)
    BY <1>1, <1>3, <1>4, AcceptedRefers DEF group
  <2>2. m \in nodes
    BY <1>2, <1>3, <2>1, SecondNode
  <2>3. IsTable(Leaf(value))
    BY <2>1 DEF IsTable, Leaf, Value
  <2>4. m.path = <<section, name>> /\ IsTable(m.leaf)
    BY <2>3
  <2>5. QED
    BY <2>2, <2>4
<1>5. n.leaf.data = group.table[field].data /\ n.leaf.items = group.table[field].items
  BY <1>3 DEF Leaf, Value
<1>6. GroupConfig(group)
  <2>1. MapOf(merged.table["groups"], GroupConfig)
    BY <1>1 DEF ForgeclawConfig, Fields, Struct
  <2>2. QED
    BY <1>3, <2>1 DEF MapOf, group
<1>7. CASE field = "channel"
  <2>1. <<"channels", n.leaf.data>> \in References(group)
    BY <1>5, <1>7 DEF References
  <2>2. Defined("channels", n.leaf.data)
    BY <1>4, <2>1
  <2>3. QED
    BY <1>7, <2>2 DEF field
<1>8. CASE field = "provider"
  <2>1. <<"providers", n.leaf.data>> \in References(group)
    BY <1>5, <1>8 DEF References
  <2>2. Defined("providers", n.leaf.data)
    BY <1>4, <2>1
  <2>3. QED
    BY <1>8, <2>2 DEF field
<1>9. CASE field = "budget_pool"
  <2>1. <<"budget_pools", n.leaf.data>> \in References(group)
    BY <1>3, <1>5, <1>9 DEF References
  <2>2. Defined("budget_pools", n.leaf.data)
    BY <1>4, <2>1
  <2>3. QED
    BY <1>9, <2>2 DEF field
<1>10. CASE field = "fallback"
  <2>1. ASSUME NEW i \in DOMAIN n.leaf.items
        PROVE  Defined("providers", n.leaf.items[i].table["provider"].data)
    <3>1. <<"providers", n.leaf.items[i].table["provider"].data>> \in References(group)
      BY <1>3, <1>5, <1>10 DEF References
    <3>2. QED
      BY <1>4, <3>1
  <2>2. QED
    BY <1>10, <2>1 DEF field
<1>11. CASE field \notin {"channel", "provider", "budget_pool", "fallback"}
  BY <1>11 DEF field
<1>12. QED
  BY <1>7, <1>8, <1>9, <1>10, <1>11

\* The invariant holds of every load: of any files and variables, whatever is
\* edited meanwhile.
THEOREM Inductive == Spec => []IInv
<1>1. Init => IInv
  BY Begins
<1>2. IInv /\ [Next]_vars => IInv'
  BY Steps
<1>3. QED
  BY <1>1, <1>2, PTL DEF Spec

\* What is merged is a table throughout, and a load is in one phase and at one
\* file (load_layered, read_toml, set_nested).
THEOREM Typing == Spec => []TypeOK
<1>1. IInv => TypeOK
  BY DEF IInv
<1>2. QED
  BY <1>1, Inductive, PTL

\* The project's file takes precedence over the user's, key by key and however
\* deep the tables are (deep_merge).
THEOREM ProjectIsOverUser == Spec => []ProjectOverUser
<1>1. IInv => ProjectOverUser
  BY FilesByPaths DEF IInv
<1>2. QED
  BY <1>1, Inductive, PTL

\* The environment changes nothing but what its variables name, whatever their
\* number and order (apply_env_overrides, set_nested).
THEOREM EnvironmentInPlace == Spec => []EnvironmentStaysInPlace
<1>1. IInv => EnvironmentStaysInPlace
  BY DEF IInv
<1>2. QED
  BY <1>1, Inductive, PTL

\* A configuration that is returned refers to nothing that it does not have
\* (validate, after every layer).
THEOREM ReturnedIsConsistent == Spec => []ReferencesHold
<1>1. IInv => ReferencesHold
  BY AcceptedHolds DEF IInv
<1>2. QED
  BY <1>1, Inductive, PTL
=============================================================================
