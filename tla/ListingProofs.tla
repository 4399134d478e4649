--------------------------- MODULE ListingProofs ---------------------------
(***************************************************************************)
(* What a client that follows the continuation tokens misses and sees      *)
(* twice, for any keys, page sizes and changes by other clients.           *)
(***************************************************************************)
EXTENDS Listing, FiniteSetTheorems, TLAPS

-----------------------------------------------------------------------------
(***************************************************************************)
(* The queries.                                                            *)
(***************************************************************************)
\* The ranks of the rows are their positions in the order of the keys.
LEMMA RankFacts ==
    ASSUME NEW S, S \subseteq Nat, IsFiniteSet(S)
    PROVE  /\ \A k \in S : Rank(S, k) \in Nat
           /\ \A k, l \in S : k < l <=> Rank(S, k) < Rank(S, l)
           /\ \A k \in S : \A i \in 0 .. Rank(S, k) : \E l \in S : Rank(S, l) = i
<1> DEFINE n == Cardinality(S)
           below(k) == {l \in S : l < k}
           rank == [k \in S |-> Rank(S, k)]
<1>1. n \in Nat
  BY FS_CardinalityType
<1> HIDE DEF n
<1>2. ASSUME NEW k \in S PROVE IsFiniteSet(below(k)) /\ Rank(S, k) \in 0 .. n - 1
  <2>1. below(k) \in SUBSET S /\ below(k) # S
    OBVIOUS
  <2>2. IsFiniteSet(below(k)) /\ Cardinality(below(k)) <= n /\ Cardinality(below(k)) # n
    BY <2>1, FS_Subset DEF n
  <2>3. Cardinality(below(k)) \in Nat
    BY <2>2, FS_CardinalityType
  <2> QED
    BY <1>1, <2>2, <2>3 DEF Rank
<1>3. \A k \in S : Rank(S, k) \in Nat /\ Rank(S, k) <= n - 1
  <2> SUFFICES ASSUME NEW k \in S PROVE Rank(S, k) \in Nat /\ Rank(S, k) <= n - 1
    OBVIOUS
  <2>1. Rank(S, k) \in 0 .. n - 1
    BY <1>2
  <2> QED
    BY <1>1, <2>1
<1>4. ASSUME NEW k \in S, NEW l \in S, k < l PROVE Rank(S, k) < Rank(S, l)
  <2>1. below(k) \in SUBSET below(l) /\ below(k) # below(l)
    <3>1. \A x \in S : x \in Nat
      OBVIOUS
    <3>2. k \in below(l) /\ k \notin below(k)
      BY <1>4, <3>1
    <3>3. \A x \in below(k) : x \in below(l)
      BY <1>4, <3>1
    <3> QED
      BY <3>2, <3>3
  <2>2. Cardinality(below(k)) <= Cardinality(below(l)) /\ Cardinality(below(k)) # Cardinality(below(l))
    BY <1>2, <2>1, FS_Subset
  <2>3. Rank(S, k) \in Nat /\ Rank(S, l) \in Nat
    BY <1>3
  <2> QED
    BY <2>2, <2>3 DEF Rank
<1>5. \A k, l \in S : k < l <=> Rank(S, k) < Rank(S, l)
  <2> SUFFICES ASSUME NEW k \in S, NEW l \in S, Rank(S, k) < Rank(S, l) PROVE k < l
    BY <1>4
  <2>1. Rank(S, k) \in Nat /\ Rank(S, l) \in Nat /\ k \in Nat /\ l \in Nat
    BY <1>3
  <2>2. k # l /\ ~(l < k)
    BY <1>4, <2>1
  <2> QED
    BY <2>1, <2>2
<1>6. \A k, l \in S : Rank(S, k) = Rank(S, l) => k = l
  <2> SUFFICES ASSUME NEW k \in S, NEW l \in S, Rank(S, k) = Rank(S, l) PROVE k = l
    OBVIOUS
  <2>1. k \in Nat /\ l \in Nat /\ Rank(S, k) \in Nat
    BY <1>3
  <2>2. ~(k < l) /\ ~(l < k)
    BY <1>4, <2>1
  <2> QED
    BY <2>1, <2>2
<1>7. IsFiniteSet(0 .. n - 1) /\ Cardinality(0 .. n - 1) = n
  BY <1>1, FS_Interval
<1>8. rank \in Injection(S, 0 .. n - 1)
  <2>1. rank \in [S -> 0 .. n - 1]
    BY <1>2
  <2>2. \A c, d \in S : rank[c] = rank[d] => c = d
    BY <1>6
  <2> QED
    BY <2>1, <2>2 DEF Injection, IsInjective
<1>9. rank \in Surjection(S, 0 .. n - 1)
  BY <1>7, <1>8, FS_Injection DEF n
<1>10. \A i \in 0 .. n - 1 : \E k \in S : Rank(S, k) = i
  BY <1>9 DEF Surjection
<1>11. ASSUME NEW k \in S, NEW i \in 0 .. Rank(S, k) PROVE i \in 0 .. n - 1
  BY <1>1, <1>3
<1> QED
  BY <1>3, <1>5, <1>10, <1>11

\* A query that returns fewer rows than it may has returned the last one; one that
\* returns as many has one at every position.
LEMMA LimitFacts ==
    ASSUME NEW S, S \subseteq Nat, IsFiniteSet(S), NEW n \in Nat, NEW skip \in Nat
    PROVE  /\ Cardinality(Limit(S, n, skip)) # n => \A k \in S : Rank(S, k) < skip + n
           /\ Cardinality(Limit(S, n, skip)) = n =>
                 \A i \in skip .. skip + n - 1 : \E k \in Limit(S, n, skip) : Rank(S, k) = i
<1> DEFINE found == Limit(S, n, skip)
           I == skip .. skip + n - 1
           rank == [k \in found |-> Rank(S, k)]
<1>1. found \subseteq S /\ \A k \in S : k \in found <=> Rank(S, k) \in I
  <2>1. \A k \in S : Rank(S, k) \in Nat
    BY RankFacts
  <2> QED
    BY <2>1 DEF Limit
<1>2. IsFiniteSet(I) /\ Cardinality(I) = n
  <2>1. skip \in Int /\ skip + n - 1 \in Int
    OBVIOUS
  <2>2. IsFiniteSet(I) /\ Cardinality(I) = IF skip > skip + n - 1 THEN 0 ELSE (skip + n - 1) - skip + 1
    BY <2>1, FS_Interval
  <2> HIDE DEF I
  <2> QED
    BY <2>2
<1> HIDE DEF found, I
<1>3. rank \in Injection(found, I)
  <2>1. rank \in [found -> I]
    BY <1>1
  <2>2. \A c, d \in found : rank[c] = rank[d] => c = d
    <3> SUFFICES ASSUME NEW c \in found, NEW d \in found, Rank(S, c) = Rank(S, d) PROVE c = d
      OBVIOUS
    <3>1. c \in S /\ d \in S /\ c \in Nat /\ d \in Nat
      BY <1>1
    <3>2. Rank(S, c) \in Nat
      BY <3>1, RankFacts
    <3>3. ~(c < d) /\ ~(d < c)
      <4>1. \A k, l \in S : k < l <=> Rank(S, k) < Rank(S, l)
        BY RankFacts
      <4> QED
        BY <3>1, <3>2, <4>1
    <3> QED
      BY <3>1, <3>3
  <2> QED
    BY <2>1, <2>2 DEF Injection, IsInjective
<1>4. IsFiniteSet(found) /\ (Cardinality(found) = n <=> rank \in Surjection(found, I))
  BY <1>2, <1>3, FS_Injection
<1>5. Cardinality(found) = n => \A i \in I : \E k \in found : Rank(S, k) = i
  BY <1>4 DEF Surjection
<1>6. ASSUME Cardinality(found) # n, NEW k \in S PROVE Rank(S, k) < skip + n
  <2> SUFFICES ASSUME ~(Rank(S, k) < skip + n) PROVE FALSE
    OBVIOUS
  <2>1. Rank(S, k) \in Nat
    BY RankFacts
  <2>2. \A i \in I : i \in 0 .. Rank(S, k)
    BY <2>1 DEF I
  <2>3. \A i \in I : \E l \in S : Rank(S, l) = i
    BY <2>2, RankFacts
  <2>4. \A i \in I : \E l \in found : rank[l] = i
    BY <1>1, <2>3
  <2>5. rank \in Surjection(found, I)
    <3>1. rank \in [found -> I]
      BY <1>1
    <3> QED
      BY <2>4, <3>1 DEF Surjection
  <2> QED
    BY <1>4, <1>6, <2>5
<1> QED
  BY <1>5, <1>6 DEF found, I

\* The page: the rows at the positions after skip, max of them if there are more.
LEMMA PageFacts ==
    ASSUME NEW S, S \subseteq Nat, IsFiniteSet(S), NEW skip \in Nat, max \in Nat \ {0}
    PROVE  LET found == Limit(S, max + 1, skip)
               page == Page(found)
           IN  /\ ~HasMore(found) => page = {k \in S : skip <= Rank(S, k)}
               /\ HasMore(found) =>
                     /\ page = {k \in S : skip <= Rank(S, k) /\ Rank(S, k) < skip + max}
                     /\ Max(page) \in page /\ \A k \in page : k <= Max(page)
<1> DEFINE found == Limit(S, max + 1, skip)
           page == Page(found)
           upTo == {k \in S : skip <= Rank(S, k) /\ Rank(S, k) < skip + max}
<1>1. /\ \A k \in S : Rank(S, k) \in Nat /\ k \in Nat
      /\ \A k, l \in S : k < l <=> Rank(S, k) < Rank(S, l)
  BY RankFacts
<1>2. found = {k \in S : skip <= Rank(S, k) /\ Rank(S, k) < skip + (max + 1)}
  BY DEF Limit
<1>3. /\ ~HasMore(found) => \A k \in S : Rank(S, k) < skip + (max + 1)
      /\ HasMore(found) => \A i \in skip .. skip + (max + 1) - 1 : \E k \in found : Rank(S, k) = i
  <2>1. max + 1 \in Nat
    OBVIOUS
  <2> QED
    BY <2>1, LimitFacts DEF HasMore
<1> HIDE DEF found
<1>4. CASE ~HasMore(found)
  <2>1. page = found
    BY <1>4 DEF Page
  <2> QED
    BY <1>2, <1>3, <1>4, <2>1 DEF found
<1>5. CASE HasMore(found)
  <2>1. skip + max \in skip .. skip + (max + 1) - 1 /\ skip + max - 1 \in skip .. skip + (max + 1) - 1
    OBVIOUS
  <2>2. PICK m \in found : Rank(S, m) = skip + max
    BY <1>3, <1>5, <2>1
  <2>3. PICK b \in found : Rank(S, b) = skip + max - 1
    BY <1>3, <1>5, <2>1
  <2>4. found \subseteq S /\ m \in S /\ b \in S
    BY <1>2
  <2>5. \A k \in found : m >= k /\ (Rank(S, k) = skip + max => k = m)
    <3> SUFFICES ASSUME NEW k \in found PROVE m >= k /\ (Rank(S, k) = skip + max => k = m)
      OBVIOUS
    <3>1. k \in S /\ Rank(S, k) \in Nat /\ k \in Nat /\ m \in Nat /\ Rank(S, k) < skip + (max + 1)
      BY <1>1, <1>2, <2>4
    <3>2. ~(m < k)
      BY <1>1, <2>2, <2>4, <3>1
    <3>3. Rank(S, k) = skip + max => ~(k < m)
      BY <1>1, <2>2, <2>4, <3>1
    <3> QED
      BY <3>1, <3>2, <3>3
  <2>6. Max(found) = m
    <3>1. \A x \in found : (\A y \in found : x >= y) => x = m
      <4> SUFFICES ASSUME NEW x \in found, x >= m PROVE x = m
        OBVIOUS
      <4>1. x \in Nat /\ m \in Nat /\ m >= x
        BY <1>1, <2>4, <2>5
      <4> QED
        BY <4>1
    <3> QED
      BY <2>5, <3>1 DEF Max
  <2>7. page = upTo
    <3>1. page = found \ {m}
      BY <1>5, <2>6 DEF Page
    <3>2. ASSUME NEW k \in S PROVE k \in found \ {m} <=> k \in upTo
      <4>1. Rank(S, k) \in Nat
        BY <1>1
      <4>2. k \in found => (k # m <=> Rank(S, k) # skip + max)
        BY <2>2, <2>5
      <4>3. k \in found <=> skip <= Rank(S, k) /\ Rank(S, k) < skip + (max + 1)
        BY <1>2
      <4>4. k \in upTo <=> skip <= Rank(S, k) /\ Rank(S, k) < skip + max
        OBVIOUS
      <4> HIDE DEF upTo
      <4> QED
        BY <4>1, <4>2, <4>3, <4>4
    <3>3. found \ {m} \subseteq S /\ upTo \subseteq S
      BY <2>4
    <3> HIDE DEF upTo, page
    <3> QED
      BY <3>1, <3>2, <3>3
  <2>8. b \in page /\ \A k \in page : b >= k
    <3>1. b \in upTo
      <4>1. skip <= skip + max - 1 /\ skip + max - 1 < skip + max
        OBVIOUS
      <4> QED
        BY <2>3, <2>4, <4>1
    <3>2. ASSUME NEW k \in upTo PROVE b >= k
      <4>1. k \in S /\ k \in Nat /\ b \in Nat /\ Rank(S, k) \in Nat /\ Rank(S, k) < skip + max
        BY <1>1, <2>4
      <4>2. ~(Rank(S, b) < Rank(S, k))
        BY <2>3, <4>1
      <4>3. ~(b < k)
        BY <1>1, <2>4, <4>1, <4>2
      <4> QED
        BY <4>1, <4>3
    <3> HIDE DEF upTo, page
    <3> QED
      BY <2>7, <3>1, <3>2
  <2>9. \A k \in page : k \in Nat
    BY <1>1, <2>7
  <2> HIDE DEF page
  <2>10. Max(page) \in page /\ \A k \in page : Max(page) >= k
    BY <2>8 DEF Max
  <2>11. \A k \in page : k <= Max(page)
    BY <2>9, <2>10
  <2> QED
    BY <1>5, <2>7, <2>10, <2>11 DEF found, page
<1> QED
  BY <1>4, <1>5

-----------------------------------------------------------------------------
(***************************************************************************)
(* The invariant.                                                          *)
(***************************************************************************)
Types ==
    /\ max \in Nat \ {0}
    /\ delimiter \in BOOLEAN
    /\ first \in {0, 1}
    /\ after \in Nat
    /\ op # "ListObjectsV2" => after = 0
    /\ token \in Nat
    /\ client \in {"asking", "checked", "done", "refused", "failed"}
    /\ client = "checked" => op = "ListParts"
    /\ rows \subseteq Keys
    /\ stable \subseteq rows
    /\ keys \in [Keys -> 0 .. 2]
    /\ puts \in Nat
    /\ deletions \in Nat

Asking == client \in {"asking", "checked"}

\* The parts that were listed are those below the marker, and none is missing.
PartsBelowMarker ==
    op = "ListParts" /\ Asking =>
        /\ \A k \in Keys : keys[k] > 0 => k < token
        /\ \A k \in stable : k < token => keys[k] > 0

\* The rows the next page is cut from.
Candidates == {k \in rows : k > after}

\* Without deletions, what was not shown is not on a page before the next.
UnshownAhead ==
    op = "ListObjectsV2" /\ Asking /\ deletions = 0 =>
        \A k \in stable : k > after => Shown(k) \/ Offset <= Rank(Candidates, k)

\* Without additions, what was listed is not on the next page or one after it.
ListedBehind ==
    op = "ListObjectsV2" /\ Asking /\ first = 1 /\ puts = 0 =>
        /\ token >= 1
        /\ \A k \in rows : keys[k] > 0 => k > after /\ Rank(Candidates, k) < Offset

IndInv == Types /\ PartsBelowMarker /\ UnshownAhead /\ ListedBehind /\ NothingMissed /\ NoRepeats

-----------------------------------------------------------------------------
\* What rows are added moves a key back, what rows are removed moves it forward.
LEMMA RankGrows ==
    ASSUME NEW S, NEW T, IsFiniteSet(T), S \subseteq T, NEW k
    PROVE  Rank(S, k) \in Nat /\ Rank(T, k) \in Nat /\ Rank(S, k) <= Rank(T, k)
<1> DEFINE s == {l \in S : l < k}
           t == {l \in T : l < k}
<1>1. s \subseteq t /\ t \subseteq T
  OBVIOUS
<1> HIDE DEF s, t
<1>2. IsFiniteSet(t)
  BY <1>1, FS_Subset
<1>3. IsFiniteSet(s) /\ Cardinality(s) <= Cardinality(t)
  BY <1>1, <1>2, FS_Subset
<1> QED
  BY <1>2, <1>3, FS_CardinalityType DEF Rank, s, t

\* The rows a page is cut from are finitely many numbers, and so is the offset.
LEMMA Queries ==
    ASSUME Types
    PROVE  /\ Candidates \subseteq Nat /\ IsFiniteSet(Candidates)
           /\ {k \in rows : k >= token} \subseteq Nat /\ IsFiniteSet({k \in rows : k >= token})
           /\ Offset \in Nat
<1>1. rows \subseteq Nat /\ IsFiniteSet(rows)
  BY KeysAssumption, FS_Subset DEF Types
<1>2. Candidates \subseteq rows /\ {k \in rows : k >= token} \subseteq rows
  BY DEF Candidates
<1>3. Offset \in Nat
  <2>1. CASE token = 0
    BY <2>1 DEF Offset
  <2>2. CASE token # 0
    <3>1. token - 1 \in Nat /\ max \in Nat
      BY <2>2 DEF Types
    <3>2. (token - 1) * max \in Nat
      BY <3>1
    <3> QED
      BY <2>2, <3>2 DEF Offset
  <2> QED
    BY <2>1, <2>2
<1> QED
  BY <1>1, <1>2, <1>3, FS_Subset

\* Nothing is listed at first.
LEMMA InitInv == Init => IndInv
<1> SUFFICES ASSUME Init PROVE IndInv
  OBVIOUS
<1>1. Types
  BY KeysAssumption, PageSizesAssumption DEF Init, Types
<1>2. PartsBelowMarker
  <2>1. op = "ListParts" => token = 0
    BY DEF Init
  <2>2. \A k \in stable : k \in Nat
    BY KeysAssumption DEF Init
  <2> QED
    BY <2>1, <2>2 DEF Init, PartsBelowMarker
<1>3. UnshownAhead
  <2>1. Offset = 0
    <3>1. CASE token = 0
      BY <3>1 DEF Offset
    <3>2. CASE token = 1
      <4>1. Offset = (1 - 1) * max /\ max \in Nat
        BY <1>1, <3>2 DEF Offset, Types
      <4>2. (1 - 1) * max = 0
        BY <4>1
      <4> QED
        BY <4>1, <4>2
    <3> QED
      BY <3>1, <3>2 DEF Init
  <2>2. \A k \in stable : k > after => Rank(Candidates, k) \in Nat
    <3>1. \A k : Rank(Candidates, k) \in Nat
      BY <1>1, Queries, RankGrows
    <3> QED
      BY <3>1
  <2> QED
    BY <2>1, <2>2 DEF UnshownAhead
<1>4. ListedBehind
  BY KeysAssumption DEF Init, ListedBehind
<1>5. NothingMissed /\ NoRepeats
  BY DEF Init, NothingMissed, NoRepeats
<1> QED
  BY <1>1, <1>2, <1>3, <1>4, <1>5 DEF IndInv

\* A page of ListObjectsV2.
LEMMA ObjectsInv == ASSUME IndInv, ListObjectsV2 PROVE IndInv'
<1> DEFINE S == Candidates
           found == ObjectRows
           page == Page(found)
           collapsed(k) == delimiter /\ Prefix[k] # NoPrefix
<1>1. /\ Types /\ UNCHANGED <<op, max, delimiter, after, first, rows, exists, stable, puts, deletions>>
      /\ op = "ListObjectsV2" /\ client = "asking"
  BY DEF IndInv, ListObjectsV2, request, table
<1>2. S \subseteq Nat /\ IsFiniteSet(S) /\ Offset \in Nat /\ max \in Nat \ {0} /\ token \in Nat
  BY <1>1, Queries DEF Types
<1>3. /\ ~HasMore(found) => page = {k \in S : Offset <= Rank(S, k)}
      /\ HasMore(found) => page = {k \in S : Offset <= Rank(S, k) /\ Rank(S, k) < Offset + max}
  <2>1. found = Limit(S, max + 1, Offset)
    BY DEF ObjectRows, Candidates
  <2> HIDE DEF S
  <2> QED
    BY <1>2, <2>1, PageFacts
<1>4. \A k : Rank(Candidates, k)' = Rank(S, k)
  <2>1. Candidates' = S
    BY <1>1 DEF Candidates
  <2> QED
    BY <2>1 DEF Rank
<1>5. /\ keys' = [k \in Keys |-> IF k \in page /\ ~collapsed(k) THEN IF keys[k] = 0 THEN 1 ELSE 2 ELSE keys[k]]
      /\ prefixes' = prefixes \cup {Prefix[k] : k \in {q \in page : collapsed(q)}}
  BY DEF ListObjectsV2, Show
<1>6. S \subseteq rows /\ rows \subseteq Keys /\ keys \in [Keys -> 0 .. 2]
  BY <1>1 DEF Candidates, Types
<1>7. \A k : Rank(S, k) \in Nat
  BY <1>2, RankGrows
<1> HIDE DEF S, found, page, collapsed
<1>8. \A k \in Keys : /\ keys'[k] \in 0 .. 2
                      /\ keys[k] > 0 => keys'[k] > 0
                      /\ k \in page /\ keys[k] = 0 => keys'[k] <= 1
                      /\ k \notin page => keys'[k] = keys[k]
  BY <1>5, <1>6
<1>9. ASSUME NEW k \in Keys PROVE (Shown(k) \/ k \in page) => Shown(k)'
  <2>1. UNCHANGED Prefix
    OBVIOUS
  <2>2. Shown(k)' <=> keys'[k] > 0 \/ (delimiter /\ Prefix[k] \in prefixes')
    BY <1>1 DEF Shown
  <2>3. CASE Shown(k)
    BY <1>5, <1>8, <2>2, <2>3 DEF Shown
  <2>4. CASE k \in page /\ collapsed(k)
    BY <1>5, <2>2, <2>4 DEF collapsed
  <2>5. CASE k \in page /\ ~collapsed(k)
    BY <1>5, <1>6, <2>2, <2>5
  <2> QED
    BY <2>3, <2>4, <2>5
<1>10. \/ HasMore(found) /\ token' = token + 1 /\ client' = "asking"
       \/ ~HasMore(found) /\ client' = "done" /\ token' = token
  BY DEF ListObjectsV2, NextContinuationToken, found
<1>11. Types'
  <2>1. keys' \in [Keys -> 0 .. 2]
    BY <1>5, <1>8
  <2> QED
    BY <1>1, <1>10, <2>1 DEF Types
<1>12. PartsBelowMarker'
  BY <1>1 DEF PartsBelowMarker
<1>13. HasMore(found) => /\ Offset' \in Nat /\ Offset' <= Offset + max
                         /\ token >= 1 => Offset' = Offset + max
  <2> SUFFICES ASSUME HasMore(found)
               PROVE  Offset' \in Nat /\ Offset' <= Offset + max /\ (token >= 1 => Offset' = Offset + max)
    OBVIOUS
  <2>1. token' = token + 1 /\ max' = max /\ token + 1 # 0
    BY <1>1, <1>2, <1>10
  <2>2. Offset' = ((token + 1) - 1) * max
    BY <2>1 DEF Offset
  <2>3. Offset' = token * max
    BY <1>2, <2>2
  <2>4. CASE token = 0
    BY <1>2, <2>3, <2>4 DEF Offset
  <2>5. CASE token # 0
    <3>1. Offset = (token - 1) * max
      BY <2>5 DEF Offset
    <3>2. token * max = (token - 1) * max + max
      BY <1>2
    <3>3. Offset' = Offset + max
      BY <2>3, <3>1, <3>2
    <3>4. Offset + max \in Nat
      BY <1>2
    <3> QED
      BY <3>3, <3>4
  <2> QED
    BY <2>4, <2>5
<1>14. UnshownAhead'
  <2> SUFFICES ASSUME client' = "asking", deletions = 0, NEW k \in stable, k > after
               PROVE  Shown(k)' \/ Offset' <= Rank(S, k)
    BY <1>1, <1>4, <1>10 DEF UnshownAhead, Asking
  <2>1. HasMore(found) /\ k \in Keys /\ k \in S
    BY <1>1, <1>10 DEF S, Candidates, Types
  <2>2. Shown(k) \/ Offset <= Rank(S, k)
    BY <1>1 DEF IndInv, UnshownAhead, Asking, S
  <2>3. CASE Shown(k)
    BY <1>9, <2>1, <2>3
  <2>4. CASE Offset <= Rank(S, k) /\ Rank(S, k) < Offset + max
    BY <1>3, <1>9, <2>1, <2>4
  <2>5. CASE ~(Rank(S, k) < Offset + max)
    <3>1. Rank(S, k) \in Nat /\ Offset' \in Nat /\ Offset + max \in Nat
      BY <1>2, <1>13, <1>7, <2>1
    <3>2. Offset' <= Offset + max
      BY <1>13, <2>1
    <3> QED
      BY <2>5, <3>1, <3>2
  <2> QED
    BY <2>2, <2>3, <2>4, <2>5
<1>15. ASSUME first = 1, puts = 0, NEW k \in page PROVE keys[k] = 0
  <2>1. k \in S /\ Offset <= Rank(S, k) /\ k \in rows /\ k \in Keys
    BY <1>3, <1>6
  <2>2. keys[k] > 0 => Rank(S, k) < Offset
    BY <1>1, <1>15, <2>1 DEF IndInv, ListedBehind, Asking, S
  <2>3. Rank(S, k) \in Nat /\ keys[k] \in 0 .. 2
    BY <1>6, <1>7, <2>1
  <2> QED
    BY <1>2, <2>1, <2>2, <2>3
<1>16. ListedBehind'
  <2> SUFFICES ASSUME client' = "asking", first = 1, puts = 0
               PROVE  token' >= 1 /\ \A k \in rows : keys'[k] > 0 => k > after /\ Rank(S, k) < Offset'
    BY <1>1, <1>4, <1>10 DEF ListedBehind, Asking
  <2>1. HasMore(found) /\ token' = token + 1 /\ token >= 1
    BY <1>1, <1>10 DEF IndInv, ListedBehind, Asking
  <2>2. Offset' = Offset + max
    BY <1>13, <2>1
  <2>3. ASSUME NEW k \in rows, keys'[k] > 0 PROVE k > after /\ Rank(S, k) < Offset'
    <3>1. CASE k \in page
      <4>1. k \in S /\ Rank(S, k) < Offset + max
        BY <1>3, <2>1, <3>1
      <4> QED
        BY <2>2, <4>1 DEF S, Candidates
    <3>2. CASE k \notin page
      <4>1. keys[k] > 0
        BY <1>6, <1>8, <2>3, <3>2
      <4>2. k > after /\ Rank(S, k) < Offset
        BY <1>1, <2>3, <4>1 DEF IndInv, ListedBehind, Asking, S
      <4>3. Rank(S, k) \in Nat
        BY <1>7
      <4> QED
        BY <1>2, <2>2, <4>2, <4>3
    <3> QED
      BY <3>1, <3>2
  <2>4. token' >= 1
    BY <1>2, <2>1
  <2> QED
    BY <2>3, <2>4
<1>17. NothingMissed'
  <2> SUFFICES ASSUME client' = "done", deletions = 0, NEW k \in stable, k > after PROVE Shown(k)'
    BY <1>1 DEF NothingMissed
  <2>1. ~HasMore(found) /\ k \in Keys /\ k \in S
    BY <1>1, <1>10 DEF S, Candidates, Types
  <2>2. Shown(k) \/ Offset <= Rank(S, k)
    BY <1>1 DEF IndInv, UnshownAhead, Asking, S
  <2> QED
    BY <1>3, <1>9, <2>1, <2>2
<1>18. NoRepeats'
  <2> SUFFICES ASSUME first = 1, puts = 0, NEW k \in Keys PROVE keys'[k] <= 1
    BY <1>1 DEF NoRepeats
  <2>1. keys[k] <= 1
    BY DEF IndInv, NoRepeats
  <2> QED
    BY <1>8, <1>15, <2>1
<1> QED
  BY <1>11, <1>12, <1>14, <1>16, <1>17, <1>18 DEF IndInv

\* A page of ListParts.
LEMMA PartsInv == ASSUME IndInv, ListParts PROVE IndInv'
<1> DEFINE S == {k \in rows : k >= token}
           found == PartRows
           page == Page(found)
<1>1. /\ Types /\ UNCHANGED <<op, max, delimiter, after, first, rows, exists, stable, puts, deletions>>
      /\ op = "ListParts" /\ client = "checked" /\ UNCHANGED prefixes
  BY DEF IndInv, ListParts, request, table, Types
<1>2. S \subseteq Nat /\ IsFiniteSet(S) /\ max \in Nat \ {0} /\ token \in Nat
  BY <1>1, Queries DEF Types
<1>3. \A k : Rank(S, k) \in Nat
  BY <1>2, RankGrows
<1>4. /\ ~HasMore(found) => page = S
      /\ HasMore(found) => page = {k \in S : Rank(S, k) < max}
                           /\ Max(page) \in page /\ \A k \in page : k <= Max(page)
  <2>1. found = Limit(S, max + 1, 0)
    BY DEF PartRows
  <2> HIDE DEF S
  <2>2. /\ ~HasMore(found) => page = {k \in S : 0 <= Rank(S, k)}
        /\ HasMore(found) => page = {k \in S : 0 <= Rank(S, k) /\ Rank(S, k) < 0 + max}
                             /\ Max(page) \in page /\ \A k \in page : k <= Max(page)
    BY <1>2, <2>1, PageFacts
  <2>3. \A k : 0 <= Rank(S, k) /\ (Rank(S, k) < 0 + max <=> Rank(S, k) < max)
    BY <1>2, <1>3
  <2> HIDE DEF page, found
  <2> QED
    BY <2>2, <2>3
<1>5. /\ keys' = [k \in Keys |-> IF k \in page THEN IF keys[k] = 0 THEN 1 ELSE 2 ELSE keys[k]]
      /\ \/ HasMore(found) /\ token' = Max(page) + 1 /\ client' = "asking"
         \/ ~HasMore(found) /\ client' = "done" /\ token' = token
  BY DEF ListParts, NextPartNumberMarker
<1>6. S \subseteq rows /\ rows \subseteq Keys /\ stable \subseteq rows /\ keys \in [Keys -> 0 .. 2] /\ Keys \subseteq Nat
  BY <1>1, KeysAssumption DEF Types
<1>7. \A k, l \in S : k < l <=> Rank(S, k) < Rank(S, l)
  <2> HIDE DEF S
  <2> QED
    BY <1>2, RankFacts
<1>8. \A k \in S : k \in rows /\ k >= token
  OBVIOUS
<1>9. \A k \in rows : k >= token => k \in S
  OBVIOUS
<1> HIDE DEF S, found, page
<1>10. page \subseteq S
  BY <1>4
<1>11. /\ \A k \in Keys : keys[k] > 0 => k < token
       /\ \A k \in stable : k < token => keys[k] > 0
       /\ \A k \in Keys : keys[k] <= 1
  BY <1>1 DEF IndInv, PartsBelowMarker, Asking, NoRepeats
<1>12. \A k \in page : keys[k] = 0
  <2> SUFFICES ASSUME NEW k \in page PROVE keys[k] = 0
    OBVIOUS
  <2>1. k \in Keys /\ k >= token /\ k \in Nat /\ keys[k] \in 0 .. 2
    BY <1>6, <1>8, <1>10
  <2> QED
    BY <1>2, <1>11, <2>1
<1>13. \A k \in Keys : /\ keys'[k] \in 0 .. 1
                       /\ keys'[k] > 0 <=> k \in page \/ keys[k] > 0
  <2> SUFFICES ASSUME NEW k \in Keys
               PROVE  keys'[k] \in 0 .. 1 /\ (keys'[k] > 0 <=> k \in page \/ keys[k] > 0)
    OBVIOUS
  <2>1. keys[k] \in 0 .. 2 /\ keys[k] <= 1
    BY <1>6, <1>11
  <2>2. CASE k \in page
    BY <1>5, <1>12, <2>2
  <2>3. CASE k \notin page
    BY <1>5, <2>1, <2>3
  <2> QED
    BY <2>2, <2>3
<1>14. HasMore(found) => Max(page) \in Nat /\ Max(page) >= token
  <2> SUFFICES ASSUME HasMore(found) PROVE Max(page) \in Nat /\ Max(page) >= token
    OBVIOUS
  <2>1. Max(page) \in S
    BY <1>4, <1>10
  <2> QED
    BY <1>2, <1>8, <2>1
<1>15. Types'
  <2>1. keys' \in [Keys -> 0 .. 2]
    <3>1. \A k \in Keys : keys'[k] \in 0 .. 2
      BY <1>13
    <3> QED
      BY <1>5, <3>1
  <2>2. token' \in Nat
    BY <1>2, <1>5, <1>14
  <2> QED
    BY <1>1, <1>5, <2>1, <2>2 DEF Types
<1>16. PartsBelowMarker'
  <2> SUFFICES ASSUME client' = "asking"
               PROVE  /\ \A k \in Keys : keys'[k] > 0 => k < token'
                      /\ \A k \in stable : k < token' => keys'[k] > 0
    BY <1>1, <1>5 DEF PartsBelowMarker, Asking
  <2>1. /\ HasMore(found) /\ token' = Max(page) + 1 /\ Max(page) \in Nat /\ Max(page) >= token
        /\ Max(page) \in S
    BY <1>4, <1>5, <1>10, <1>14
  <2>2. ASSUME NEW k \in Keys, keys'[k] > 0 PROVE k < token'
    <3>1. k \in Nat /\ (k \in page \/ keys[k] > 0)
      BY <1>6, <1>13, <2>2
    <3>2. CASE k \in page
      BY <1>4, <2>1, <3>1, <3>2
    <3>3. CASE keys[k] > 0
      BY <1>2, <1>11, <2>1, <3>1, <3>3
    <3> QED
      BY <3>1, <3>2, <3>3
  <2>3. ASSUME NEW k \in stable, k < token' PROVE keys'[k] > 0
    <3>1. k \in Nat /\ k \in Keys /\ k \in rows
      BY <1>6
    <3>2. CASE k < token
      BY <1>11, <1>13, <3>1, <3>2
    <3>3. CASE ~(k < token)
      <4>1. k \in S
        BY <1>2, <1>9, <3>1, <3>3
      <4>2. ~(Max(page) < k)
        BY <2>1, <2>3, <3>1
      <4>3. ~(Rank(S, Max(page)) < Rank(S, k))
        BY <1>7, <2>1, <4>1, <4>2
      <4>4. Rank(S, Max(page)) < max
        BY <1>4, <2>1
      <4>5. Rank(S, k) < max
        BY <1>2, <1>3, <4>3, <4>4
      <4> QED
        BY <1>4, <1>13, <2>1, <3>1, <4>1, <4>5
    <3> QED
      BY <3>2, <3>3
  <2> QED
    BY <2>2, <2>3
<1>17. UnshownAhead' /\ ListedBehind'
  BY <1>1 DEF UnshownAhead, ListedBehind
<1>18. NothingMissed'
  <2> SUFFICES ASSUME client' = "done", NEW k \in stable PROVE keys'[k] > 0
    BY <1>1 DEF NothingMissed, Shown
  <2>1. k \in Nat /\ k \in Keys /\ k \in rows /\ ~HasMore(found)
    BY <1>5, <1>6
  <2>2. CASE k < token
    BY <1>11, <1>13, <2>1, <2>2
  <2>3. CASE ~(k < token)
    BY <1>2, <1>4, <1>9, <1>13, <2>1, <2>3
  <2> QED
    BY <2>2, <2>3
<1>19. NoRepeats'
  BY <1>13 DEF NoRepeats
<1> QED
  BY <1>15, <1>16, <1>17, <1>18, <1>19 DEF IndInv

\* The other steps of the client's requests, and the changes by other clients.
LEMMA OthersInv ==
    ASSUME IndInv, Refuse \/ CheckUpload \/ EndUpload \/ \E k \in Keys : Put(k) \/ Delete(k)
    PROVE  IndInv'
<1>1. /\ UNCHANGED <<op, max, delimiter, after, first, token, keys, prefixes>>
      /\ Types
  BY DEF IndInv, Refuse, CheckUpload, EndUpload, Put, Delete, request, table
<1>2. Types'
  <2>1. CASE Refuse \/ CheckUpload
    BY <1>1, <2>1 DEF Refuse, CheckUpload, Types, table
  <2>2. CASE EndUpload
    BY <1>1, <2>2 DEF EndUpload, Types
  <2>3. ASSUME NEW k \in Keys, Put(k) \/ Delete(k) PROVE Types'
    BY <1>1, <2>3 DEF Put, Delete, Types
  <2> QED
    BY <2>1, <2>2, <2>3
<1>3. UNCHANGED Offset /\ \A k : Shown(k)' = Shown(k)
  BY <1>1 DEF Offset, Shown
<1>4. NoRepeats'
  <2>1. puts' = 0 => puts = 0
    BY <1>1 DEF Types, Refuse, CheckUpload, EndUpload, Put, Delete, table
  <2> QED
    BY <1>1, <2>1 DEF IndInv, NoRepeats
<1>5. Asking /\ client' # "done" /\ stable' \subseteq stable
  BY DEF Refuse, CheckUpload, EndUpload, Put, Delete, table, Asking
<1>6. NothingMissed'
  BY <1>5 DEF NothingMissed
<1>7. PartsBelowMarker'
  BY <1>1, <1>5 DEF IndInv, PartsBelowMarker
<1>8. /\ deletions' = 0 => (deletions = 0 /\ rows \subseteq rows') \/ op # "ListObjectsV2"
      /\ puts' = 0 => puts = 0 /\ rows' \subseteq rows
  <2>1. CASE Refuse \/ CheckUpload
    BY <2>1 DEF Refuse, CheckUpload, table
  <2>2. CASE EndUpload
    BY <1>1, <2>2 DEF EndUpload
  <2>3. ASSUME NEW k \in Keys, Put(k) PROVE UNCHANGED deletions /\ rows \subseteq rows' /\ puts' # 0
    BY <1>1, <2>3 DEF Put, Types
  <2>4. ASSUME NEW k \in Keys, Delete(k) PROVE UNCHANGED puts /\ rows' \subseteq rows /\ deletions' # 0
    BY <1>1, <2>4 DEF Delete, Types
  <2> QED
    BY <2>1, <2>2, <2>3, <2>4
<1>9. /\ Candidates' = {k \in rows' : k > after}
      /\ IsFiniteSet(Candidates) /\ IsFiniteSet(Candidates') /\ Offset \in Nat
  <2>1. Candidates' = {k \in rows' : k > after}
    BY <1>1 DEF Candidates
  <2>2. Candidates' \subseteq Keys
    BY <1>2, <2>1 DEF Types
  <2>3. IsFiniteSet(Candidates')
    BY <2>2, KeysAssumption, FS_Subset
  <2> QED
    BY <1>1, <2>1, <2>3, Queries
<1>10. \A k : Rank(Candidates, k)' = Rank(Candidates', k)
  BY DEF Rank
<1>11. UnshownAhead'
  <2> SUFFICES ASSUME op = "ListObjectsV2", deletions' = 0, NEW k \in stable', k > after
               PROVE  Shown(k) \/ Offset <= Rank(Candidates', k)
    BY <1>1, <1>3, <1>10 DEF UnshownAhead
  <2>1. deletions = 0 /\ rows \subseteq rows' /\ k \in stable
    BY <1>5, <1>8
  <2>2. Shown(k) \/ Offset <= Rank(Candidates, k)
    BY <1>5, <2>1 DEF IndInv, UnshownAhead
  <2>3. Candidates \subseteq Candidates'
    BY <1>9, <2>1 DEF Candidates
  <2>4. /\ Rank(Candidates, k) \in Nat /\ Rank(Candidates', k) \in Nat
        /\ Rank(Candidates, k) <= Rank(Candidates', k)
    BY <1>9, <2>3, RankGrows
  <2> QED
    BY <1>9, <2>2, <2>4
<1>12. ListedBehind'
  <2> SUFFICES ASSUME op = "ListObjectsV2", first = 1, puts' = 0
               PROVE  token >= 1 /\ \A k \in rows' : keys[k] > 0 => k > after /\ Rank(Candidates', k) < Offset
    BY <1>1, <1>3, <1>10 DEF ListedBehind
  <2>1. puts = 0 /\ rows' \subseteq rows
    BY <1>8
  <2>2. token >= 1 /\ \A k \in rows : keys[k] > 0 => k > after /\ Rank(Candidates, k) < Offset
    BY <1>5, <2>1 DEF IndInv, ListedBehind
  <2>3. Candidates' \subseteq Candidates
    BY <1>9, <2>1 DEF Candidates
  <2>4. \A k : /\ Rank(Candidates, k) \in Nat /\ Rank(Candidates', k) \in Nat
               /\ Rank(Candidates', k) <= Rank(Candidates, k)
    BY <1>9, <2>3, RankGrows
  <2> QED
    BY <1>9, <2>1, <2>2, <2>4
<1> QED
  BY <1>2, <1>4, <1>6, <1>7, <1>11, <1>12 DEF IndInv

\* Every step keeps the invariant.
LEMMA NextInv == IndInv /\ [Next]_vars => IndInv'
<1> SUFFICES ASSUME IndInv, [Next]_vars PROVE IndInv'
  OBVIOUS
<1>1. CASE UNCHANGED vars
  <2>1. UNCHANGED <<op, max, delimiter, after, first, token, client, rows, exists, stable, puts, deletions,
                    keys, prefixes>>
    BY <1>1 DEF vars, request, table
  <2>2. Candidates' = Candidates /\ Offset' = Offset /\ \A k : Shown(k)' = Shown(k)
    BY <2>1 DEF Candidates, Offset, Shown
  <2>3. \A k : Rank(Candidates, k)' = Rank(Candidates, k)
    BY <2>2 DEF Rank
  <2> QED
    BY <2>1, <2>2, <2>3 DEF IndInv, Types, Asking, PartsBelowMarker, UnshownAhead, ListedBehind,
                            NothingMissed, NoRepeats
<1> QED
  BY <1>1, ObjectsInv, PartsInv, OthersInv DEF Next, Handle, Terminated

-----------------------------------------------------------------------------
\* The inductive invariant holds of every listing.
THEOREM Invariance == Spec => []IndInv
BY InitInv, NextInv, PTL DEF Spec

\* A client that followed the tokens to the end has seen every part that was there
\* all the time, and every object if none was deleted meanwhile, for any keys, page
\* size, delimiter and start-after.
THEOREM NothingMissedAlways == Spec => []NothingMissed
<1>1. IndInv => NothingMissed
  BY DEF IndInv
<1> QED
  BY Invariance, <1>1, PTL

\* ListParts lists no part twice, and ListObjectsV2 no key twice to a client that
\* starts with page 1 while no object is added.
THEOREM NoRepeatsAlways == Spec => []NoRepeats
<1>1. IndInv => NoRepeats
  BY DEF IndInv
<1> QED
  BY Invariance, <1>1, PTL
=============================================================================
