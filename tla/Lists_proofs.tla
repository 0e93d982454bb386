----------------------------- MODULE Lists_proofs -----------------------------
(***************************************************************************)
(* Lemmas about Lists, for lists of any length: the places of a set are    *)
(* counted and put in order, without induction over the list.              *)
(***************************************************************************)
EXTENDS Lists, Integers, Sequences, FiniteSetTheorems, TLAPS

UpTo(places, i) == {j \in places : j <= i}

Rank(places, i) == Cardinality(UpTo(places, i))

LEMMA PlacesFinite ==
    ASSUME NEW n \in Nat, NEW places \in SUBSET (1..n)
    PROVE  IsFiniteSet(places) /\ Cardinality(places) \in Nat
<1>1. IsFiniteSet(1..n)
    BY FS_Interval, 0 \in Int, 1 \in Int
<1>2. IsFiniteSet(places)
    BY <1>1, FS_Subset
<1> QED BY <1>2, FS_CardinalityType

LEMMA RankRange ==
    ASSUME NEW n \in Nat, NEW places \in SUBSET (1..n), NEW i \in places
    PROVE  Rank(places, i) \in 1..Cardinality(places)
<1>1. UpTo(places, i) \in SUBSET (1..n) /\ UpTo(places, i) \in SUBSET places
    BY DEF UpTo
<1>2. Cardinality(UpTo(places, i)) \in Nat /\ IsFiniteSet(UpTo(places, i))
    BY <1>1, PlacesFinite
<1>3. Cardinality(UpTo(places, i)) <= Cardinality(places)
    BY <1>1, PlacesFinite, FS_Subset
<1>4. UpTo(places, i) # {}
    BY DEF UpTo
<1>5. Cardinality(UpTo(places, i)) # 0
    BY <1>2, <1>4, FS_EmptySet
<1>6. Cardinality(places) \in Nat
    BY PlacesFinite
<1> QED BY <1>2, <1>3, <1>5, <1>6 DEF Rank

\* A later place has a greater rank.
LEMMA RankMonotonic ==
    ASSUME NEW n \in Nat, NEW places \in SUBSET (1..n),
           NEW i \in places, NEW k \in places, i < k
    PROVE  Rank(places, i) < Rank(places, k)
<1>0. i \in Int /\ k \in Int /\ \A j \in places : j \in Int
    OBVIOUS
<1>1. /\ UpTo(places, i) \in SUBSET UpTo(places, k)
      /\ k \in UpTo(places, k) /\ k \notin UpTo(places, i)
    <2>1. \A j \in UpTo(places, i) : j \in UpTo(places, k)
        BY <1>0 DEF UpTo
    <2>2. k \in UpTo(places, k) /\ k \notin UpTo(places, i)
        BY <1>0 DEF UpTo
    <2> QED BY <2>1, <2>2
<1>2. UpTo(places, k) \in SUBSET (1..n)
    BY DEF UpTo
<1>3. IsFiniteSet(UpTo(places, k)) /\ Cardinality(UpTo(places, k)) \in Nat
    BY <1>2, PlacesFinite
<1>4. Cardinality(UpTo(places, i)) \in Nat
    BY <1>1, <1>2, PlacesFinite
<1>5. /\ Cardinality(UpTo(places, i)) <= Cardinality(UpTo(places, k))
      /\ Cardinality(UpTo(places, i)) # Cardinality(UpTo(places, k))
    BY <1>1, <1>3, FS_Subset
<1> QED BY <1>3, <1>4, <1>5 DEF Rank

\* Every rank up to the number of places is taken.
LEMMA RankTaken ==
    ASSUME NEW n \in Nat, NEW places \in SUBSET (1..n), NEW r \in 1..Cardinality(places)
    PROVE  \E i \in places : Rank(places, i) = r
<1>1. IsFiniteSet(places) /\ Cardinality(places) \in Nat
    BY PlacesFinite
<1>2. \A i \in places : Rank(places, i) \in 1..Cardinality(places)
    BY RankRange
<1>3. \A i, k \in places : i < k => Rank(places, i) < Rank(places, k)
    BY RankMonotonic
<1>4. \A i, k \in places : Rank(places, i) = Rank(places, k) => i = k
    BY <1>1, <1>2, <1>3
<1> DEFINE rank == [i \in places |-> Rank(places, i)]
<1>5. rank \in Injection(places, 1..Cardinality(places))
    BY <1>2, <1>4 DEF Injection, IsInjective
<1>6. IsFiniteSet(1..Cardinality(places)) /\ Cardinality(1..Cardinality(places)) = Cardinality(places)
    <2>1. 1 \in Int /\ Cardinality(places) \in Int
        BY <1>1
    <2> QED BY <1>1, <2>1, FS_Interval
<1>7. rank \in Surjection(places, 1..Cardinality(places))
    BY <1>1, <1>5, <1>6, FS_Injection
<1> QED BY <1>7 DEF Surjection

\* A set of places has a first one.
LEMMA FirstPlace ==
    ASSUME NEW n \in Nat, NEW places \in SUBSET (1..n), places # {}
    PROVE  \E i \in places : \A k \in places : i <= k
<1>1. 1 \in 1..Cardinality(places)
    BY PlacesFinite, FS_EmptySet
<1>2. PICK i \in places : Rank(places, i) = 1
    BY <1>1, RankTaken
<1>3. \A k \in places : k < i => Rank(places, k) < 1 /\ Rank(places, k) \in 1..Cardinality(places)
    BY <1>2, RankMonotonic, RankRange
<1>4. \A k \in places : ~(k < i)
    BY <1>3, PlacesFinite
<1> QED BY <1>4

\* Nth is what its name says, and puts the places in order.
LEMMA NthPlace ==
    ASSUME NEW n \in Nat, NEW places \in SUBSET (1..n), NEW r \in 1..Cardinality(places)
    PROVE  Nth(places, r) \in places /\ Rank(places, Nth(places, r)) = r
<1>1. \E i \in places : Cardinality({j \in places : j <= i}) = r
    BY RankTaken DEF Rank, UpTo
<1> QED BY <1>1 DEF Nth, Rank, UpTo

LEMMA NthAscends ==
    ASSUME NEW n \in Nat, NEW places \in SUBSET (1..n),
           NEW r \in 1..Cardinality(places), NEW q \in 1..Cardinality(places), r < q
    PROVE  Nth(places, r) < Nth(places, q)
<1>1. /\ Nth(places, r) \in places /\ Rank(places, Nth(places, r)) = r
      /\ Nth(places, q) \in places /\ Rank(places, Nth(places, q)) = q
    BY NthPlace
<1>2. Cardinality(places) \in Nat
    BY PlacesFinite
<1>3. \A i, k \in places : i < k => Rank(places, i) < Rank(places, k)
    BY RankMonotonic
<1>4. \A i \in places : i \in Int
    OBVIOUS
<1>5. \A q_i \in places, r_i \in places : ~(Rank(places, q_i) < Rank(places, r_i)) => ~(q_i < r_i)
    BY <1>3
<1> DEFINE i == Nth(places, r)
           k == Nth(places, q)
<1>6. i \in Int /\ k \in Int /\ i # k /\ ~(k < i)
    <2>1. ~(q < r) /\ q # r /\ q \in Int /\ r \in Int
        BY <1>2
    <2> QED BY <1>1, <1>4, <1>5, <2>1
<1> QED BY <1>6

\* In a run of places the i-th is the i-th.
LEMMA NthOfRun ==
    ASSUME NEW a \in Nat, NEW k \in Nat
    PROVE  /\ Cardinality((a + 1)..(a + k)) = k
           /\ \A i \in 1..k : Nth((a + 1)..(a + k), i) = a + i
<1> DEFINE run == (a + 1)..(a + k)
<1>1. \A b \in Nat : Cardinality((a + 1)..(a + b)) = b
    <2>1. ASSUME NEW b \in Nat PROVE Cardinality((a + 1)..(a + b)) = b
        <3>1. a + 1 \in Int /\ a + b \in Int
            OBVIOUS
        <3>2. Cardinality((a + 1)..(a + b)) = IF a + 1 > a + b THEN 0 ELSE (a + b) - (a + 1) + 1
            BY <3>1, FS_Interval
        <3> QED BY <3>2
    <2> QED BY <2>1
<1>2. run \in SUBSET (1..(a + k)) /\ a + k \in Nat
    OBVIOUS
<1>3. ASSUME NEW i \in 1..k PROVE Nth(run, i) = a + i
    <2>1. i \in 1..Cardinality(run)
        BY <1>1
    <2>2. Nth(run, i) \in run /\ Rank(run, Nth(run, i)) = i
        BY <1>2, <2>1, NthPlace
    <2>3. PICK b \in 1..k : Nth(run, i) = a + b
        <3>1. Nth(run, i) - a \in 1..k /\ Nth(run, i) = a + (Nth(run, i) - a)
            BY <2>2
        <3> QED BY <3>1
    <2>4. UpTo(run, a + b) = (a + 1)..(a + b)
        BY DEF UpTo
    <2>5. Rank(run, a + b) = b
        BY <1>1, <2>4 DEF Rank
    <2> QED BY <2>2, <2>3, <2>5
<1> QED BY <1>1, <1>3

-------------------------------------------------------------------------------
(* Lists as a whole.                                                        *)

\* A listing is a list, each entry of which is one of the entries listed.
LEMMA ListingIsList ==
    ASSUME NEW S, NEW list \in Listings(S), Cardinality(S) \in Nat
    PROVE  /\ list \in Seq(S)
           /\ Len(list) \in Nat /\ DOMAIN list = 1..Len(list)
           /\ \A i \in DOMAIN list : list[i] \in S
<1>1. PICK n \in 0..Cardinality(S) : list \in Injection(1..n, S)
    BY DEF Listings
<1>2. n \in Nat /\ list \in [1..n -> S]
    BY <1>1 DEF Injection
<1> QED BY <1>2

\* Collected lists every place of the set, and nothing else, from the smallest up.
LEMMA CollectedPlaces ==
    ASSUME NEW n \in Nat, NEW places \in SUBSET (1..n)
    PROVE  LET c == Collected(places)
           IN  /\ c \in Seq(1..n)
               /\ DOMAIN c = 1..Len(c) /\ Len(c) = Cardinality(places)
               /\ \A r \in DOMAIN c : c[r] \in places
               /\ \A i \in places : \E r \in DOMAIN c : c[r] = i
               /\ \A r, q \in DOMAIN c : r < q => c[r] < c[q]
<1> DEFINE c == Collected(places)
           k == Cardinality(places)
<1>1. k \in Nat
    BY PlacesFinite
<1>2. \A r \in 1..k : Nth(places, r) \in places /\ Rank(places, Nth(places, r)) = r
    BY NthPlace
<1>3. c = [r \in 1..k |-> Nth(places, r)]
    BY DEF Collected
<1> HIDE DEF c, k
<1>4. DOMAIN c = 1..k /\ \A r \in 1..k : c[r] = Nth(places, r)
    BY <1>3
<1>5. c \in [1..k -> 1..n]
    BY <1>2, <1>3
<1>6. c \in Seq(1..n) /\ Len(c) = k
    BY <1>1, <1>5
<1>7. \A i \in places : \E r \in 1..k : c[r] = i
    <2>1. SUFFICES ASSUME NEW i \in places PROVE \E r \in 1..k : c[r] = i
        OBVIOUS
    <2>2. Rank(places, i) \in 1..k
        BY RankRange DEF k
    <2> DEFINE r == Rank(places, i)
               j == Nth(places, r)
    <2>3. j \in places /\ Rank(places, j) = r
        BY <1>2, <2>2
    <2>4. r \in Int /\ i \in Int /\ j \in Int
        <3>1. \A place \in places : place \in Int
            OBVIOUS
        <3> HIDE DEF r, j
        <3>2. r \in 1..k
            BY <2>2 DEF r
        <3> QED BY <1>1, <2>1, <2>3, <3>1, <3>2
    <2>5. i < j => r < Rank(places, j)
        BY <2>3, RankMonotonic
    <2>6. j < i => Rank(places, j) < r
        BY <2>3, RankMonotonic
    <2> HIDE DEF r, j
    <2>7. j = i
        BY <2>3, <2>4, <2>5, <2>6
    <2> QED BY <1>4, <2>2, <2>7 DEF r, j
<1>8. \A r, q \in 1..k : r < q => Nth(places, r) < Nth(places, q)
    BY NthAscends DEF k
<1> QED BY <1>1, <1>2, <1>4, <1>6, <1>7, <1>8 DEF c, k

-------------------------------------------------------------------------------
(* Ascending lists.                                                         *)

Ascending(v) == \A a, b \in DOMAIN v : a < b => v[a] < v[b]

LEMMA SeqFacts ==
    ASSUME NEW S, NEW s \in Seq(S)
    PROVE  Len(s) \in Nat /\ DOMAIN s = 1..Len(s) /\ \A i \in DOMAIN s : s[i] \in S
OBVIOUS

LEMMA Joined ==
    ASSUME NEW S, NEW a \in Seq(S), NEW b \in Seq(S)
    PROVE  /\ a \o b \in Seq(S) /\ Len(a \o b) = Len(a) + Len(b)
           /\ \A i \in 1..Len(a) : (a \o b)[i] = a[i]
           /\ \A i \in 1..Len(b) : (a \o b)[Len(a) + i] = b[i]
OBVIOUS

LEMMA SameList ==
    ASSUME NEW S, NEW a \in Seq(S), NEW b \in Seq(S), Len(a) = Len(b),
           \A i \in 1..Len(a) : a[i] = b[i]
    PROVE  a = b
OBVIOUS

LEMMA Part ==
    ASSUME NEW S, NEW v \in Seq(S), NEW f \in 0..Len(v), NEW l \in f..Len(v)
    PROVE  /\ SubSeq(v, f + 1, l) \in Seq(S) /\ Len(SubSeq(v, f + 1, l)) = l - f
           /\ \A i \in 1..(l - f) : SubSeq(v, f + 1, l)[i] = v[f + i]
<1>1. \A i \in (f + 1)..l : v[i] \in S
    OBVIOUS
<1> QED BY <1>1

LEMMA Cut ==
    ASSUME NEW S, NEW v \in Seq(S), NEW a \in 0..Len(v), NEW b \in a..Len(v), NEW c \in b..Len(v)
    PROVE  SubSeq(v, a + 1, c) = SubSeq(v, a + 1, b) \o SubSeq(v, b + 1, c)
<1>0. Len(v) \in Nat /\ a \in Nat /\ b \in Nat /\ c \in Nat /\ a <= b /\ b <= c /\ c <= Len(v)
    OBVIOUS
<1>1. \A f \in 0..Len(v) : \A l \in f..Len(v) :
          /\ SubSeq(v, f + 1, l) \in Seq(S) /\ Len(SubSeq(v, f + 1, l)) = l - f
          /\ \A i \in 1..(l - f) : SubSeq(v, f + 1, l)[i] = v[f + i]
    BY Part
<1> DEFINE x == SubSeq(v, a + 1, b)
           y == SubSeq(v, b + 1, c)
           z == SubSeq(v, a + 1, c)
<1>2. /\ x \in Seq(S) /\ Len(x) = b - a /\ \A i \in 1..(b - a) : x[i] = v[a + i]
      /\ y \in Seq(S) /\ Len(y) = c - b /\ \A i \in 1..(c - b) : y[i] = v[b + i]
      /\ z \in Seq(S) /\ Len(z) = c - a /\ \A i \in 1..(c - a) : z[i] = v[a + i]
    BY <1>0, <1>1
<1> HIDE DEF x, y, z
<1> DEFINE w == x \o y
<1>3. /\ w \in Seq(S) /\ Len(w) = Len(x) + Len(y)
      /\ \A i \in 1..Len(x) : w[i] = x[i]
      /\ \A i \in 1..Len(y) : w[Len(x) + i] = y[i]
    <2>1. x \in Seq(S) /\ y \in Seq(S)
        BY <1>2
    <2> QED BY <2>1, Joined
<1> HIDE DEF w
<1>4. /\ Len(w) = c - a
      /\ \A i \in 1..(b - a) : w[i] = v[a + i]
      /\ \A i \in 1..(c - b) : w[(b - a) + i] = v[b + i]
    <2>1. Len(x) = b - a /\ Len(y) = c - b
        BY <1>2
    <2>2. (b - a) + (c - b) = c - a
        BY <1>0
    <2>3. \A i \in 1..(b - a) : w[i] = x[i]
        BY <1>3, <2>1, Zenon
    <2>4. \A i \in 1..(c - b) : w[(b - a) + i] = y[i]
        BY <1>3, <2>1, Zenon
    <2> QED BY <1>2, <1>3, <2>1, <2>2, <2>3, <2>4
<1>5. ASSUME NEW i \in 1..(c - a) PROVE z[i] = w[i]
    <2>1. CASE i <= b - a
        <3>1. i \in 1..(b - a)
            BY <1>0, <2>1
        <3> QED BY <1>2, <1>4, <3>1
    <2>2. CASE i > b - a
        <3>1. i - (b - a) \in 1..(c - b) /\ (b - a) + (i - (b - a)) = i /\ b + (i - (b - a)) = a + i
            BY <1>0, <2>2
        <3> QED BY <1>2, <1>4, <3>1
    <2> QED BY <1>0, <2>1, <2>2
<1>6. z = w
    <2>1. z \in Seq(S) /\ w \in Seq(S) /\ Len(z) = Len(w) /\ \A i \in 1..Len(z) : z[i] = w[i]
        BY <1>2, <1>3, <1>4, <1>5
    <2> QED BY <2>1, SameList
<1> QED BY <1>6 DEF w, x, y, z

SameNumbers(v, w) ==
    /\ \A a \in DOMAIN v : \E b \in DOMAIN w : v[a] = w[b]
    /\ \A b \in DOMAIN w : \E a \in DOMAIN v : v[a] = w[b]

\* An ascending list is a prefix of every ascending list of the same numbers.
LEMMA SameNumbersPrefix ==
    ASSUME NEW v \in Seq(Int), NEW w \in Seq(Int), Ascending(v), Ascending(w),
           SameNumbers(v, w)
    PROVE  \A r \in DOMAIN v : r \in DOMAIN w /\ v[r] = w[r]
<1> DEFINE differ == {r \in DOMAIN v : ~(r \in DOMAIN w /\ v[r] = w[r])}
<1> SUFFICES ASSUME differ # {} PROVE FALSE
    OBVIOUS
<1>1. /\ Len(v) \in Nat /\ DOMAIN v = 1..Len(v) /\ Len(w) \in Nat /\ DOMAIN w = 1..Len(w)
      /\ \A a \in DOMAIN v : v[a] \in Int
      /\ \A b \in DOMAIN w : w[b] \in Int
    BY SeqFacts
<1>2. differ \in SUBSET (1..Len(v))
    BY <1>1
<1>3. PICK r \in differ : \A k \in differ : r <= k
    <2> HIDE DEF differ
    <2> QED BY <1>1, <1>2, FirstPlace
<1>4. \A a \in DOMAIN v : a < r => a \in DOMAIN w /\ v[a] = w[a]
    <2>1. SUFFICES ASSUME NEW a \in DOMAIN v, a < r, a \in differ PROVE FALSE
        OBVIOUS
    <2>2. a \in Int /\ r \in Int /\ r <= a
        BY <1>1, <1>3, <2>1
    <2> QED BY <2>1, <2>2
<1>r. r \in DOMAIN v /\ r \in Int /\ ~(r \in DOMAIN w /\ v[r] = w[r])
    BY <1>1, <1>3
<1> HIDE DEF differ
<1>5. PICK q \in DOMAIN w : v[r] = w[q]
    BY <1>r DEF SameNumbers
<1>6. q > r
    <2>1. r \in DOMAIN v /\ r \in Int /\ q \in Int
        BY <1>1, <1>r
    <2>2. q # r
        BY <1>5, <1>r
    <2>3. SUFFICES ASSUME q < r PROVE FALSE
        BY <2>1, <2>2
    <2>4. q \in DOMAIN v /\ v[q] = v[r]
        BY <1>1, <1>5, <2>1, <2>3, <1>4
    <2>5. v[q] < v[r]
        BY <2>1, <2>3, <2>4 DEF Ascending
    <2> QED BY <1>1, <2>4, <2>5
<1>7. r \in DOMAIN w
    BY <1>1, <1>r, <1>6
<1>8. PICK a \in DOMAIN v : v[a] = w[r]
    BY <1>7 DEF SameNumbers
<1>9. r \in DOMAIN v /\ r \in Int /\ a \in Int /\ v[r] \in Int /\ w[r] \in Int
    BY <1>1, <1>r, <1>7
<1>10. CASE a < r
    <2>1. a \in DOMAIN w /\ w[a] = w[r]
        BY <1>4, <1>8, <1>10
    <2>2. w[a] < w[r]
        BY <1>7, <1>10, <2>1 DEF Ascending
    <2> QED BY <1>9, <2>1, <2>2
<1>11. CASE a = r
    BY <1>r, <1>7, <1>8, <1>11
<1>12. CASE a > r
    <2>1. v[r] < v[a]
        BY <1>9, <1>12 DEF Ascending
    <2>2. w[r] < w[q]
        BY <1>6, <1>7 DEF Ascending
    <2>3. v[a] = w[r] /\ w[q] = v[r]
        BY <1>5, <1>8
    <2> QED BY <1>9, <2>1, <2>2, <2>3
<1> QED BY <1>9, <1>10, <1>11, <1>12

\* Collected is the only list of the places of a set in order.
LEMMA OnlyCollected ==
    ASSUME NEW n \in Nat, NEW places \in SUBSET (1..n), NEW v \in Seq(Int), Ascending(v),
           \A r \in DOMAIN v : v[r] \in places,
           \A i \in places : \E r \in DOMAIN v : v[r] = i
    PROVE  v = Collected(places)
<1> DEFINE c == Collected(places)
<1>1. /\ c \in Seq(1..n)
      /\ \A r \in DOMAIN c : c[r] \in places
      /\ \A i \in places : \E r \in DOMAIN c : c[r] = i
      /\ \A r, q \in DOMAIN c : r < q => c[r] < c[q]
    BY CollectedPlaces
<1> HIDE DEF c
<1>2. c \in Seq(Int) /\ Ascending(c)
    BY <1>1 DEF Ascending
<1>3. SameNumbers(v, c) /\ SameNumbers(c, v)
    BY <1>1 DEF SameNumbers
<1>4. /\ \A r \in DOMAIN v : r \in DOMAIN c /\ v[r] = c[r]
      /\ \A r \in DOMAIN c : r \in DOMAIN v /\ c[r] = v[r]
    BY <1>2, <1>3, SameNumbersPrefix
<1>5. DOMAIN v = DOMAIN c
    BY <1>4
<1>6. v = c
    BY <1>2, <1>4, <1>5
<1> QED BY <1>6 DEF c

\* The places of two lists put together: those of the first, then those of the second.
LEMMA CollectedJoin ==
    ASSUME NEW n \in Nat, NEW m \in Nat, NEW P \in SUBSET (1..n), NEW Q \in SUBSET (1..m),
           NEW both \in SUBSET (1..(n + m)),
           \A i \in 1..n : i \in both <=> i \in P,
           \A j \in 1..m : n + j \in both <=> j \in Q
    PROVE  /\ Len(Collected(both)) = Len(Collected(P)) + Len(Collected(Q))
           /\ \A r \in 1..Len(Collected(P)) : Collected(both)[r] = Collected(P)[r]
           /\ \A r \in 1..Len(Collected(Q)) :
                 Collected(both)[Len(Collected(P)) + r] = n + Collected(Q)[r]
<1> DEFINE p == Collected(P)
           q == Collected(Q)
<1>1. /\ p \in Seq(1..n) /\ DOMAIN p = 1..Len(p) /\ Len(p) \in Nat
      /\ \A r \in DOMAIN p : p[r] \in P /\ p[r] \in 1..n
      /\ \A i \in P : \E r \in DOMAIN p : p[r] = i
      /\ \A r, s \in DOMAIN p : r < s => p[r] < p[s]
    <2>1. /\ p \in Seq(1..n)
          /\ DOMAIN p = 1..Len(p) /\ Len(p) = Cardinality(P)
          /\ \A r \in DOMAIN p : p[r] \in P
          /\ \A i \in P : \E r \in DOMAIN p : p[r] = i
          /\ \A r, s \in DOMAIN p : r < s => p[r] < p[s]
        BY CollectedPlaces
    <2>2. Cardinality(P) \in Nat
        BY PlacesFinite
    <2> QED BY <2>1, <2>2
<1>2. /\ q \in Seq(1..m) /\ DOMAIN q = 1..Len(q) /\ Len(q) \in Nat
      /\ \A r \in DOMAIN q : q[r] \in Q /\ q[r] \in 1..m
      /\ \A i \in Q : \E r \in DOMAIN q : q[r] = i
      /\ \A r, s \in DOMAIN q : r < s => q[r] < q[s]
    <2>1. /\ q \in Seq(1..m)
          /\ DOMAIN q = 1..Len(q) /\ Len(q) = Cardinality(Q)
          /\ \A r \in DOMAIN q : q[r] \in Q
          /\ \A i \in Q : \E r \in DOMAIN q : q[r] = i
          /\ \A r, s \in DOMAIN q : r < s => q[r] < q[s]
        BY CollectedPlaces
    <2>2. Cardinality(Q) \in Nat
        BY PlacesFinite
    <2> QED BY <2>1, <2>2
<1> HIDE DEF p, q
<1> DEFINE shifted == [r \in 1..Len(q) |-> n + q[r]]
           v == p \o shifted
<1>3. shifted \in Seq(Int) /\ Len(shifted) = Len(q)
    BY <1>2
<1>4. /\ v \in Seq(Int) /\ DOMAIN v = 1..(Len(p) + Len(q))
      /\ \A r \in 1..Len(p) : v[r] = p[r]
      /\ \A r \in 1..Len(q) : v[Len(p) + r] = n + q[r]
    <2>1. p \in Seq(Int)
        BY <1>1
    <2> QED BY <1>1, <1>2, <1>3, <2>1
<1>5. \A r \in DOMAIN v : r \in 1..Len(p) \/ \E s \in 1..Len(q) : r = Len(p) + s
    <2>1. SUFFICES ASSUME NEW r \in 1..(Len(p) + Len(q)), r \notin 1..Len(p)
                   PROVE  \E s \in 1..Len(q) : r = Len(p) + s
        BY <1>4
    <2>2. r - Len(p) \in 1..Len(q) /\ r = Len(p) + (r - Len(p))
        BY <1>1, <1>2, <2>1
    <2> QED BY <2>2
<1> HIDE DEF v
<1>6. n + m \in Nat /\ (\A i \in P : i \in both) /\ (\A j \in Q : n + j \in both)
    OBVIOUS
<1>7. Ascending(v)
    <2>1. SUFFICES ASSUME NEW a \in DOMAIN v, NEW b \in DOMAIN v, a < b PROVE v[a] < v[b]
        BY DEF Ascending
    <2>2. CASE a \in 1..Len(p) /\ b \in 1..Len(p)
        BY <1>1, <1>4, <2>1, <2>2
    <2>3. ASSUME a \in 1..Len(p), NEW s \in 1..Len(q), b = Len(p) + s
          PROVE  v[a] < v[b]
        <3>1. v[a] = p[a] /\ v[b] = n + q[s] /\ p[a] \in 1..n /\ q[s] \in 1..m
            BY <1>1, <1>2, <1>4, <2>3
        <3> QED BY <3>1
    <2>4. ASSUME NEW r \in 1..Len(q), a = Len(p) + r, NEW s \in 1..Len(q), b = Len(p) + s
          PROVE  v[a] < v[b]
        <3>1. v[a] = n + q[r] /\ v[b] = n + q[s] /\ q[r] \in 1..m /\ q[s] \in 1..m
            BY <1>2, <1>4, <2>4
        <3>2. r < s
            <4>1. r \in Int /\ s \in Int /\ Len(p) \in Int
                BY <1>1, <1>2
            <4>2. Len(p) + r < Len(p) + s
                BY <2>1, <2>4
            <4>3. \A x, y, z \in Int : x + y < x + z => y < z
                OBVIOUS
            <4> QED BY <4>1, <4>2, <4>3
        <3>3. q[r] < q[s]
            BY <1>2, <3>2
        <3>4. \A x, y, z \in Int : y < z => x + y < x + z
            OBVIOUS
        <3>5. n \in Int /\ q[r] \in Int /\ q[s] \in Int
            BY <3>1
        <3> QED BY <3>1, <3>3, <3>4, <3>5
    <2>5. ASSUME NEW r \in 1..Len(q), a = Len(p) + r PROVE b \notin 1..Len(p)
        BY <1>1, <1>2, <2>1, <2>5
    <2> QED BY <1>5, <2>2, <2>3, <2>4, <2>5
<1>8. \A r \in DOMAIN v : v[r] \in both
    <2>1. \A r \in 1..Len(p) : v[r] \in both
        BY <1>1, <1>4, <1>6
    <2>2. \A r \in 1..Len(q) : v[Len(p) + r] \in both
        BY <1>2, <1>4, <1>6
    <2> QED BY <1>5, <2>1, <2>2
<1>9. \A i \in both : \E r \in DOMAIN v : v[r] = i
    <2>1. \A r \in 1..Len(p) : r \in DOMAIN v
        BY <1>1, <1>2, <1>4
    <2>2. \A r \in 1..Len(q) : Len(p) + r \in DOMAIN v
        BY <1>1, <1>2, <1>4
    <2>3. \A i \in P : \E r \in DOMAIN v : v[r] = i
        BY <1>1, <1>4, <2>1
    <2>4. \A j \in Q : \E r \in DOMAIN v : v[r] = n + j
        BY <1>2, <1>4, <2>2
    <2>5. \A i \in both : i \in P \/ \E j \in Q : i = n + j
        <3>1. TAKE i \in both
        <3>2. CASE i \in 1..n
            BY <3>2
        <3>3. CASE i \notin 1..n
            <4>1. i - n \in 1..m /\ i = n + (i - n)
                BY <3>3
            <4> QED BY <4>1
        <3> QED BY <3>2, <3>3
    <2> QED BY <2>3, <2>4, <2>5
<1>10. v = Collected(both)
    BY <1>4, <1>6, <1>7, <1>8, <1>9, OnlyCollected
<1>11. Len(v) = Len(p) + Len(q)
    BY <1>1, <1>2, <1>4
<1> QED BY <1>1, <1>2, <1>4, <1>10, <1>11 DEF p, q
==================================================================================
