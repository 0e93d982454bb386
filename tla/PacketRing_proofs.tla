-------------------------- MODULE PacketRing_proofs ---------------------------
(***************************************************************************)
(* Theorems about PacketRing, for every ring size, every bound on the      *)
(* packets, every set of protocols and contents, and any table height.     *)
(***************************************************************************)
EXTENDS PacketRing, Lists_proofs, SequenceTheorems

-------------------------------------------------------------------------------
(* What it is to be the filtered list, without computing it.               *)

InOrder(ps) == \A i, j \in DOMAIN ps : i < j => ps[i].no < ps[j].no

IsFiltered(v, ps, e, m) ==
    /\ v \in Seq(1..MaxSeq)
    /\ Ascending(v)
    /\ \A r \in DOMAIN v : \E i \in DOMAIN ps : Passes(ps[i], e, m) /\ v[r] = ps[i].no
    /\ \A i \in DOMAIN ps : Passes(ps[i], e, m) => \E r \in DOMAIN v : v[r] = ps[i].no

LEMMA TailFacts ==
    ASSUME NEW S, NEW s \in Seq(S), s # <<>>
    PROVE  /\ Tail(s) \in Seq(S) /\ Len(Tail(s)) = Len(s) - 1
           /\ DOMAIN Tail(s) = 1..(Len(s) - 1)
           /\ \A i \in DOMAIN Tail(s) : i + 1 \in DOMAIN s /\ Tail(s)[i] = s[i + 1]
OBVIOUS

LEMMA NotLast ==
    ASSUME NEW n \in Nat, NEW i \in 1..n, i # n
    PROVE  i \in 1..(n - 1) /\ i + 1 \in 1..n
OBVIOUS

LEMMA IsSequence ==
    ASSUME NEW S, NEW n \in Nat, NEW f \in [1..n -> S]
    PROVE  f \in Seq(S)
BY SeqDef

LEMMA Numbers ==
    ASSUME NEW no \in 1..MaxSeq
    PROVE  no \in Int /\ no >= 1
BY RingAssumption

LEMMA RingFacts ==
    ASSUME NEW ps \in Seq(Packet)
    PROVE  /\ Len(ps) \in Nat /\ DOMAIN ps = 1..Len(ps)
           /\ \A i \in DOMAIN ps : ps[i] \in Packet /\ ps[i].no \in 1..MaxSeq /\ ps[i].no \in Int
<1>1. Len(ps) \in Nat /\ DOMAIN ps = 1..Len(ps) /\ \A i \in DOMAIN ps : ps[i] \in Packet
    BY SeqFacts
<1>2. \A p \in Packet : p.no \in 1..MaxSeq
    BY DEF Packet
<1> QED BY <1>1, <1>2, Numbers

LEMMA ViewFacts ==
    ASSUME NEW v \in Seq(1..MaxSeq)
    PROVE  /\ Len(v) \in Nat /\ DOMAIN v = 1..Len(v)
           /\ \A r \in DOMAIN v : v[r] \in Int /\ v[r] >= 1
           /\ v \in Seq(Int)
<1>1. Len(v) \in Nat /\ DOMAIN v = 1..Len(v) /\ \A r \in DOMAIN v : v[r] \in 1..MaxSeq
    BY SeqFacts
<1>2. \A r \in DOMAIN v : v[r] \in Int /\ v[r] >= 1
    BY <1>1, Numbers
<1>3. v = [r \in 1..Len(v) |-> v[r]]
    OBVIOUS
<1> QED BY <1>1, <1>2, <1>3

LEMMA FilteredIsFiltered ==
    ASSUME NEW ps \in Seq(Packet), InOrder(ps), NEW e, NEW m
    PROVE  IsFiltered(Filtered(ps, e, m), ps, e, m)
<1> DEFINE kept == {i \in DOMAIN ps : Passes(ps[i], e, m)}
           v == Filtered(ps, e, m)
<1>1. Len(ps) \in Nat /\ DOMAIN ps = 1..Len(ps) /\ \A i \in DOMAIN ps : ps[i].no \in 1..MaxSeq
    BY RingFacts
<1>2. kept \in SUBSET (1..Len(ps))
    BY <1>1
<1>3. Cardinality(kept) \in Nat
    BY <1>1, <1>2, PlacesFinite
<1>4. v = [r \in 1..Cardinality(kept) |-> ps[Nth(kept, r)].no]
    BY DEF Filtered
<1>5. \A r \in 1..Cardinality(kept) : Nth(kept, r) \in kept
    <2> HIDE DEF kept
    <2> QED BY <1>1, <1>2, NthPlace
<1>6. v \in Seq(1..MaxSeq)
    <2>1. \A r \in 1..Cardinality(kept) : ps[Nth(kept, r)].no \in 1..MaxSeq
        BY <1>1, <1>5
    <2>2. v \in [1..Cardinality(kept) -> 1..MaxSeq]
        <3> HIDE DEF kept
        <3> QED BY <1>4, <2>1
    <2> HIDE DEF kept, v
    <2> QED BY <1>3, <2>2, IsSequence
<1>7. Ascending(v)
    <2>1. \A a, b \in 1..Cardinality(kept) : a < b => Nth(kept, a) < Nth(kept, b)
        <3> HIDE DEF kept
        <3> QED BY <1>1, <1>2, NthAscends
    <2> QED BY <1>4, <1>5, <2>1 DEF Ascending, InOrder
<1>8. \A r \in DOMAIN v : \E i \in DOMAIN ps : Passes(ps[i], e, m) /\ v[r] = ps[i].no
    BY <1>4, <1>5
<1>9. ASSUME NEW i \in DOMAIN ps, Passes(ps[i], e, m)
      PROVE  \E r \in DOMAIN v : v[r] = ps[i].no
    <2>1. i \in kept
        BY <1>9
    <2> DEFINE r == Rank(kept, i)
    <2>2. r \in 1..Cardinality(kept)
        <3> HIDE DEF kept
        <3> QED BY <1>1, <1>2, <2>1, RankRange
    <2>3. Nth(kept, r) \in kept /\ Rank(kept, Nth(kept, r)) = r
        <3> HIDE DEF kept, r
        <3> QED BY <1>1, <1>2, <2>2, NthPlace
    <2>4. Nth(kept, r) = i
        <3>1. \A a, b \in kept : a < b => Rank(kept, a) < Rank(kept, b)
            <4> HIDE DEF kept
            <4> QED BY <1>1, <1>2, RankMonotonic
        <3>2. i \in Int /\ Nth(kept, r) \in Int /\ r \in Int
            BY <1>1, <1>2, <2>1, <2>2, <2>3
        <3>3. Rank(kept, i) = r
            OBVIOUS
        <3> HIDE DEF kept, r
        <3> QED BY <2>1, <2>3, <3>1, <3>2, <3>3
    <2> QED BY <1>4, <2>2, <2>4
<1> QED BY <1>6, <1>7, <1>8, <1>9 DEF IsFiltered

LEMMA FilteredUnique ==
    ASSUME NEW v, NEW w, NEW ps \in Seq(Packet), NEW e, NEW m,
           IsFiltered(v, ps, e, m), IsFiltered(w, ps, e, m)
    PROVE  v = w
<1>1. v \in Seq(Int) /\ w \in Seq(Int) /\ Ascending(v) /\ Ascending(w)
    BY ViewFacts DEF IsFiltered
<1>2. SameNumbers(v, w) /\ SameNumbers(w, v)
    <2>1. \A a \in DOMAIN v : \E i \in DOMAIN ps : Passes(ps[i], e, m) /\ v[a] = ps[i].no
        BY DEF IsFiltered
    <2>2. \A b \in DOMAIN w : \E i \in DOMAIN ps : Passes(ps[i], e, m) /\ w[b] = ps[i].no
        BY DEF IsFiltered
    <2>3. \A i \in DOMAIN ps : Passes(ps[i], e, m) => \E a \in DOMAIN v : v[a] = ps[i].no
        BY DEF IsFiltered
    <2>4. \A i \in DOMAIN ps : Passes(ps[i], e, m) => \E b \in DOMAIN w : w[b] = ps[i].no
        BY DEF IsFiltered
    <2>5. \A a \in DOMAIN v : \E b \in DOMAIN w : v[a] = w[b]
        <3>1. TAKE a \in DOMAIN v
        <3>2. PICK i \in DOMAIN ps : Passes(ps[i], e, m) /\ v[a] = ps[i].no
            BY <2>1
        <3> QED BY <2>4, <3>2
    <2>6. \A b \in DOMAIN w : \E a \in DOMAIN v : v[a] = w[b]
        <3>1. TAKE b \in DOMAIN w
        <3>2. PICK i \in DOMAIN ps : Passes(ps[i], e, m) /\ w[b] = ps[i].no
            BY <2>2
        <3> QED BY <2>3, <3>2
    <2>7. SameNumbers(v, w)
        BY <2>5, <2>6 DEF SameNumbers
    <2>8. SameNumbers(w, v)
        <3>1. /\ \A b \in DOMAIN w : \E a \in DOMAIN v : w[b] = v[a]
              /\ \A a \in DOMAIN v : \E b \in DOMAIN w : w[b] = v[a]
            BY <2>5, <2>6
        <3> QED BY <3>1 DEF SameNumbers
    <2> QED BY <2>7, <2>8
<1>3. \A r \in DOMAIN v : r \in DOMAIN w /\ v[r] = w[r]
    BY <1>1, <1>2, SameNumbersPrefix
<1>4. \A r \in DOMAIN w : r \in DOMAIN v /\ v[r] = w[r]
    <2>1. \A r \in DOMAIN w : r \in DOMAIN v /\ w[r] = v[r]
        BY <1>1, <1>2, SameNumbersPrefix
    <2> QED BY <2>1
<1>5. Len(v) = Len(w)
    BY <1>1, <1>3, <1>4
<1> QED BY <1>1, <1>3, <1>5

LEMMA ArrivalFiltered ==
    ASSUME NEW v, NEW ps \in Seq(Packet), NEW p \in Packet, NEW e, NEW m,
           IsFiltered(v, ps, e, m), \A i \in DOMAIN ps : ps[i].no < p.no
    PROVE  IsFiltered(IF Passes(p, e, m) THEN Append(v, p.no) ELSE v, Append(ps, p), e, m)
<1>1. v \in Seq(1..MaxSeq) /\ p.no \in 1..MaxSeq
    BY DEF IsFiltered, Packet
<1>2. /\ DOMAIN Append(ps, p) = 1..(Len(ps) + 1) /\ DOMAIN ps = 1..Len(ps) /\ Len(ps) \in Nat
      /\ \A i \in DOMAIN ps : Append(ps, p)[i] = ps[i]
      /\ Append(ps, p)[Len(ps) + 1] = p
    OBVIOUS
<1>3. CASE ~Passes(p, e, m)
    BY <1>1, <1>2, <1>3 DEF IsFiltered
<1>4. CASE Passes(p, e, m)
    <2> DEFINE w == Append(v, p.no)
    <2>1. /\ w \in Seq(1..MaxSeq) /\ DOMAIN v = 1..Len(v) /\ Len(v) \in Nat
          /\ DOMAIN w = 1..(Len(v) + 1) /\ w[Len(v) + 1] = p.no
          /\ \A r \in DOMAIN v : w[r] = v[r]
        BY <1>1
    <2>2. \A r \in DOMAIN v : v[r] < p.no
        BY DEF IsFiltered
    <2> HIDE DEF w
    <2>3. Ascending(w)
        BY <2>1, <2>2 DEF Ascending, IsFiltered
    <2>4. \A r \in DOMAIN w : \E i \in DOMAIN Append(ps, p) :
              Passes(Append(ps, p)[i], e, m) /\ w[r] = Append(ps, p)[i].no
        <3>1. TAKE r \in DOMAIN w
        <3>2. CASE r \in DOMAIN v
            BY <1>2, <2>1, <3>2 DEF IsFiltered
        <3>3. CASE r = Len(v) + 1
            BY <1>2, <1>4, <2>1, <3>3
        <3> QED BY <2>1, <3>2, <3>3
    <2>5. \A i \in DOMAIN Append(ps, p) : Passes(Append(ps, p)[i], e, m) =>
              \E r \in DOMAIN w : w[r] = Append(ps, p)[i].no
        <3>1. TAKE i \in DOMAIN Append(ps, p)
        <3>2. CASE i \in DOMAIN ps
            BY <1>2, <2>1, <3>2 DEF IsFiltered
        <3>3. CASE i = Len(ps) + 1
            BY <1>2, <2>1, <3>3
        <3> QED BY <1>2, <3>2, <3>3
    <2>6. IsFiltered(w, Append(ps, p), e, m)
        BY <2>1, <2>3, <2>4, <2>5 DEF IsFiltered
    <2> QED BY <1>4, <2>6 DEF w
<1> QED BY <1>3, <1>4

LEMMA EvictionFiltered ==
    ASSUME NEW v, NEW ps \in Seq(Packet), ps # <<>>, InOrder(ps), NEW e, NEW m,
           IsFiltered(v, ps, e, m)
    PROVE  IsFiltered(IF v # <<>> /\ Head(v) = Head(ps).no THEN Tail(v) ELSE v, Tail(ps), e, m)
<1>1. /\ v \in Seq(1..MaxSeq) /\ DOMAIN v = 1..Len(v) /\ Len(v) \in Nat
      /\ \A r \in DOMAIN v : v[r] \in Int
    BY ViewFacts DEF IsFiltered
<1>2. /\ Tail(ps) \in Seq(Packet) /\ Len(ps) \in Nat /\ DOMAIN ps = 1..Len(ps) /\ 1 \in DOMAIN ps
      /\ DOMAIN Tail(ps) = 1..(Len(ps) - 1) /\ Head(ps) = ps[1]
      /\ \A i \in DOMAIN Tail(ps) : Tail(ps)[i] = ps[i + 1]
      /\ \A i \in DOMAIN ps : ps[i].no \in Int
    BY RingFacts
<1>3. \A i \in DOMAIN ps : i # 1 => i - 1 \in DOMAIN Tail(ps) /\ Tail(ps)[i - 1] = ps[i]
    BY <1>2
<1>4. CASE v # <<>> /\ Head(v) = Head(ps).no
    <2> DEFINE w == Tail(v)
    <2>1. /\ w \in Seq(1..MaxSeq) /\ DOMAIN w = 1..(Len(v) - 1) /\ 1 \in DOMAIN v
          /\ \A r \in DOMAIN w : w[r] = v[r + 1] /\ r + 1 \in DOMAIN v
          /\ v[1] = ps[1].no
        BY <1>1, <1>2, <1>4
    <2> HIDE DEF w
    <2>2. \A r \in DOMAIN v : r # 1 => r - 1 \in DOMAIN w /\ w[r - 1] = v[r]
        BY <1>1, <2>1
    <2>3. Ascending(w)
        BY <1>1, <2>1 DEF Ascending, IsFiltered
    <2>4. \A r \in DOMAIN w : \E i \in DOMAIN Tail(ps) :
              Passes(Tail(ps)[i], e, m) /\ w[r] = Tail(ps)[i].no
        <3>1. TAKE r \in DOMAIN w
        <3>2. PICK i \in DOMAIN ps : Passes(ps[i], e, m) /\ v[r + 1] = ps[i].no
            <4>1. r + 1 \in DOMAIN v
                BY <2>1
            <4> QED BY <4>1 DEF IsFiltered
        <3>3. v[1] < v[r + 1]
            <4>1. r + 1 \in DOMAIN v /\ 1 < r + 1
                BY <1>1, <2>1
            <4> QED BY <2>1, <4>1 DEF IsFiltered, Ascending
        <3>4. i # 1
            BY <1>1, <2>1, <3>2, <3>3
        <3> QED BY <1>3, <2>1, <3>2, <3>4
    <2>5. \A i \in DOMAIN Tail(ps) : Passes(Tail(ps)[i], e, m) =>
              \E r \in DOMAIN w : w[r] = Tail(ps)[i].no
        <3>1. SUFFICES ASSUME NEW i \in DOMAIN Tail(ps), Passes(Tail(ps)[i], e, m)
                       PROVE  \E r \in DOMAIN w : w[r] = Tail(ps)[i].no
            OBVIOUS
        <3>2. i + 1 \in DOMAIN ps /\ Tail(ps)[i] = ps[i + 1] /\ ps[1].no < ps[i + 1].no
            BY <1>2 DEF InOrder
        <3>3. PICK r \in DOMAIN v : v[r] = ps[i + 1].no
            BY <3>1, <3>2 DEF IsFiltered
        <3>4. r # 1
            BY <1>2, <2>1, <3>2, <3>3
        <3> QED BY <2>2, <3>2, <3>3, <3>4
    <2>6. IsFiltered(w, Tail(ps), e, m)
        BY <2>1, <2>3, <2>4, <2>5 DEF IsFiltered
    <2> QED BY <1>4, <2>6 DEF w
<1>5. CASE ~(v # <<>> /\ Head(v) = Head(ps).no)
    <2>1. \A r \in DOMAIN v : v[r] # ps[1].no
        <3>1. SUFFICES ASSUME NEW r \in DOMAIN v, v[r] = ps[1].no PROVE FALSE
            OBVIOUS
        <3>2. 1 \in DOMAIN v /\ v # <<>> /\ Head(v) = v[1] /\ r # 1
            <4>1. Len(v) # 0
                BY <1>1, <3>1
            <4>2. v # <<>> /\ Head(v) = v[1]
                BY <1>1, <4>1
            <4> QED BY <1>1, <1>2, <1>5, <3>1, <4>1, <4>2
        <3>3. v[1] < v[r]
            <4>1. 1 < r
                BY <1>1, <3>2
            <4> QED BY <3>2, <4>1 DEF IsFiltered, Ascending
        <3>4. PICK i \in DOMAIN ps : v[1] = ps[i].no
            BY <3>2 DEF IsFiltered
        <3>5. ps[1].no <= ps[i].no
            BY <1>2 DEF InOrder
        <3> QED BY <1>1, <1>2, <3>1, <3>2, <3>3, <3>4, <3>5
    <2>2. \A r \in DOMAIN v : \E i \in DOMAIN Tail(ps) :
              Passes(Tail(ps)[i], e, m) /\ v[r] = Tail(ps)[i].no
        <3>1. TAKE r \in DOMAIN v
        <3>2. PICK i \in DOMAIN ps : Passes(ps[i], e, m) /\ v[r] = ps[i].no
            BY DEF IsFiltered
        <3> QED BY <1>3, <2>1, <3>2
    <2>3. \A i \in DOMAIN Tail(ps) : Passes(Tail(ps)[i], e, m) =>
              \E r \in DOMAIN v : v[r] = Tail(ps)[i].no
        BY <1>2 DEF IsFiltered
    <2>4. IsFiltered(v, Tail(ps), e, m)
        BY <2>2, <2>3 DEF IsFiltered
    <2> QED BY <1>5, <2>4
<1> QED BY <1>4, <1>5

-------------------------------------------------------------------------------
(* The inductive invariant.  Beside the checked invariants it says, of a   *)
(* capture with no number skipped, that the ring ends with the number read *)
(* last and has the one before it in the place before it.                  *)

Contiguous ==
    ~missed => \A i \in DOMAIN packets : packets[i].no = seq - Len(packets) + i

FilteredView == IsFiltered(view, packets, enabled, matching)

IInv == TypeOK /\ FilteredView /\ Contiguous /\ FollowPinsCursor /\ CursorInView

LEMMA EmptyFiltered == ASSUME NEW e, NEW m PROVE IsFiltered(<<>>, <<>>, e, m)
BY DEF IsFiltered, Ascending

LEMMA InitIInv == Init => IInv
<1> SUFFICES ASSUME Init PROVE IInv
    OBVIOUS
<1> USE DEF Init
<1>1. TypeOK
    <2>1. packets \in Seq(Packet) /\ Len(packets) <= Capacity /\ view \in Seq(1..MaxSeq)
        BY RingAssumption
    <2>2. DOMAIN packets = {}
        OBVIOUS
    <2>3. seq \in 0..MaxSeq /\ selected \in Nat
        BY RingAssumption DEF NoRow
    <2> QED BY <2>1, <2>2, <2>3 DEF TypeOK
<1>2. FilteredView
    BY EmptyFiltered DEF FilteredView
<1>3. Contiguous /\ FollowPinsCursor /\ CursorInView
    BY DEF Contiguous, FollowPinsCursor, CursorInView, NoRow
<1> QED BY <1>1, <1>2, <1>3 DEF IInv

\* The ring after a packet has come in.
RingAfter(p) == Append(IF Full THEN Tail(packets) ELSE packets, p)

LEMMA PushedRing ==
    ASSUME TypeOK, NEW p \in Packet, p.no = seq + 1
    PROVE  /\ RingAfter(p) \in Seq(Packet) /\ Len(RingAfter(p)) <= Capacity
           /\ InOrder(RingAfter(p))
           /\ \A i \in DOMAIN RingAfter(p) : RingAfter(p)[i].no <= seq + 1
           /\ Contiguous => (~missed => \A i \in DOMAIN RingAfter(p) :
                  RingAfter(p)[i].no = seq + 1 - Len(RingAfter(p)) + i)
<1>1. /\ Len(packets) \in Nat /\ DOMAIN packets = 1..Len(packets) /\ packets \in Seq(Packet)
      /\ \A i \in DOMAIN packets : packets[i].no \in Int /\ packets[i].no <= seq
      /\ Len(packets) <= Capacity /\ Capacity \in Nat \ {0} /\ seq \in Nat
      /\ InOrder(packets)
    BY RingFacts, RingAssumption DEF TypeOK, InOrder
<1>2. CASE ~Full
    <2>1. /\ RingAfter(p) \in Seq(Packet) /\ Len(RingAfter(p)) = Len(packets) + 1
          /\ DOMAIN RingAfter(p) = 1..(Len(packets) + 1)
          /\ \A i \in DOMAIN packets : RingAfter(p)[i] = packets[i]
          /\ RingAfter(p)[Len(packets) + 1] = p
        BY <1>1, <1>2 DEF RingAfter
    <2>2. \A i \in 1..(Len(packets) + 1) : i \in DOMAIN packets \/ i = Len(packets) + 1
        <3>1. Len(packets) \in Nat /\ DOMAIN packets = 1..Len(packets)
            BY <1>1
        <3> QED BY <3>1
    <2>3. Len(RingAfter(p)) <= Capacity
        <3>1. Len(packets) # Capacity /\ Len(packets) \in Nat /\ Capacity \in Nat /\ Len(packets) <= Capacity
            BY <1>1, <1>2 DEF Full
        <3>2. Len(RingAfter(p)) = Len(packets) + 1
            BY <2>1
        <3> QED BY <3>1, <3>2
    <2>4. InOrder(RingAfter(p))
        <3> SUFFICES ASSUME NEW i \in DOMAIN RingAfter(p), NEW j \in DOMAIN RingAfter(p), i < j
                     PROVE  RingAfter(p)[i].no < RingAfter(p)[j].no
            BY DEF InOrder
        <3>1. i \in DOMAIN packets
            BY <1>1, <2>1
        <3>2. CASE j \in DOMAIN packets
            BY <1>1, <2>1, <3>1, <3>2 DEF InOrder
        <3>3. CASE j = Len(packets) + 1
            BY <1>1, <2>1, <3>1, <3>3
        <3> QED BY <2>1, <2>2, <3>2, <3>3
    <2>5. \A i \in DOMAIN RingAfter(p) : RingAfter(p)[i].no <= seq + 1
        BY <1>1, <2>1, <2>2
    <2>6. Contiguous /\ ~missed => \A i \in DOMAIN RingAfter(p) :
              RingAfter(p)[i].no = seq + 1 - Len(RingAfter(p)) + i
        BY <1>1, <2>1, <2>2 DEF Contiguous
    <2> QED BY <2>1, <2>3, <2>4, <2>5, <2>6
<1>3. CASE Full
    <2>1. /\ RingAfter(p) \in Seq(Packet) /\ Len(RingAfter(p)) = Len(packets)
          /\ DOMAIN RingAfter(p) = 1..Len(packets)
          /\ \A i \in 1..(Len(packets) - 1) : RingAfter(p)[i] = packets[i + 1]
          /\ RingAfter(p)[Len(packets)] = p
        <3>1. packets # <<>> /\ Len(packets) = Capacity
            BY <1>1, <1>3 DEF Full
        <3>2. /\ Tail(packets) \in Seq(Packet) /\ Len(Tail(packets)) = Len(packets) - 1
              /\ \A i \in 1..(Len(packets) - 1) : Tail(packets)[i] = packets[i + 1]
            BY <1>1, <3>1
        <3> QED BY <1>1, <1>3, <3>1, <3>2 DEF RingAfter
    <2>2. \A i \in 1..Len(packets) :
              \/ i \in 1..(Len(packets) - 1) /\ i + 1 \in DOMAIN packets
              \/ i = Len(packets)
        <3>1. \A n \in Nat : \A i \in 1..n : i = n \/ (i \in 1..(n - 1) /\ i + 1 \in 1..n)
            BY NotLast
        <3>2. Len(packets) \in Nat /\ DOMAIN packets = 1..Len(packets)
            BY <1>1
        <3> QED BY <3>1, <3>2
    <2>3. InOrder(RingAfter(p))
        <3> SUFFICES ASSUME NEW i \in DOMAIN RingAfter(p), NEW j \in DOMAIN RingAfter(p), i < j
                     PROVE  RingAfter(p)[i].no < RingAfter(p)[j].no
            BY DEF InOrder
        <3>1. i \in 1..(Len(packets) - 1) /\ i + 1 \in DOMAIN packets
            BY <1>1, <2>1
        <3>2. CASE j \in 1..(Len(packets) - 1) /\ j + 1 \in DOMAIN packets
            BY <1>1, <2>1, <3>1, <3>2 DEF InOrder
        <3>3. CASE j = Len(packets)
            BY <1>1, <2>1, <3>1, <3>3
        <3> QED BY <2>1, <2>2, <3>2, <3>3
    <2>4. ASSUME NEW i \in DOMAIN RingAfter(p)
          PROVE  /\ RingAfter(p)[i].no <= seq + 1
                 /\ Contiguous /\ ~missed =>
                       RingAfter(p)[i].no = seq + 1 - Len(RingAfter(p)) + i
        <3>1. CASE i \in 1..(Len(packets) - 1) /\ i + 1 \in DOMAIN packets
            <4>1. RingAfter(p)[i].no = packets[i + 1].no /\ packets[i + 1].no <= seq
                BY <1>1, <2>1, <3>1
            <4>2. Contiguous /\ ~missed => packets[i + 1].no = seq - Len(packets) + (i + 1)
                BY <3>1 DEF Contiguous
            <4>3. i \in Int /\ packets[i + 1].no \in Int /\ seq \in Int /\ Len(packets) \in Int
                BY <1>1, <3>1
            <4> QED BY <2>1, <4>1, <4>2, <4>3
        <3>2. CASE i = Len(packets)
            <4>1. RingAfter(p)[i].no = seq + 1 /\ seq \in Int /\ Len(packets) \in Int
                BY <1>1, <2>1, <3>2
            <4> QED BY <2>1, <3>2, <4>1
        <3> QED BY <2>1, <2>2, <3>1, <3>2
    <2> QED BY <1>1, <2>1, <2>3, <2>4
<1> QED BY <1>2, <1>3

LEMMA PushedView ==
    ASSUME TypeOK, FilteredView, NEW p \in Packet, p.no = seq + 1
    PROVE  IsFiltered(IF Passes(p, enabled, matching) THEN Append(RowsLeft, p.no) ELSE RowsLeft,
                      RingAfter(p), enabled, matching)
<1> DEFINE left == IF Full THEN Tail(packets) ELSE packets
<1>0. Full => packets # <<>>
    BY RingAssumption DEF Full
<1>1. /\ Len(packets) \in Nat /\ DOMAIN packets = 1..Len(packets) /\ packets \in Seq(Packet)
      /\ \A i \in DOMAIN packets : packets[i].no \in Int /\ packets[i].no < p.no
      /\ InOrder(packets)
    BY RingFacts, RingAssumption DEF TypeOK, InOrder
<1>2. /\ left \in Seq(Packet)
      /\ \A i \in DOMAIN left : left[i].no < p.no
      /\ IsFiltered(RowsLeft, left, enabled, matching)
    <2>1. CASE ~Full
        BY <1>1, <2>1 DEF FilteredView, RowsLeft, EvictsRow
    <2>2. CASE Full
        <3>1. /\ Tail(packets) \in Seq(Packet)
              /\ \A i \in DOMAIN Tail(packets) :
                    i + 1 \in DOMAIN packets /\ Tail(packets)[i] = packets[i + 1]
            <4>1. packets \in Seq(Packet) /\ packets # <<>>
                BY <1>0, <1>1, <2>2
            <4> QED BY <4>1, TailFacts
        <3>2. RowsLeft = IF view # <<>> /\ Head(view) = Head(packets).no THEN Tail(view) ELSE view
            BY <2>2 DEF RowsLeft, EvictsRow
        <3>3. IsFiltered(RowsLeft, Tail(packets), enabled, matching)
            <4>1. packets \in Seq(Packet) /\ packets # <<>> /\ InOrder(packets)
                BY <1>0, <1>1, <2>2
            <4>2. IsFiltered(view, packets, enabled, matching)
                BY DEF FilteredView
            <4> QED BY <3>2, <4>1, <4>2, EvictionFiltered
        <3> QED BY <1>1, <2>2, <3>1, <3>3
    <2> QED BY <2>1, <2>2
<1> HIDE DEF left
<1>3. IsFiltered(IF Passes(p, enabled, matching) THEN Append(RowsLeft, p.no) ELSE RowsLeft,
                 Append(left, p), enabled, matching)
    BY <1>2, ArrivalFiltered
<1> QED BY <1>3 DEF left, RingAfter

LEMMA LoseIInv == IInv /\ Lose => IInv'
<1> SUFFICES ASSUME IInv, Lose PROVE IInv'
    OBVIOUS
<1> USE DEF Lose, ring, filters
<1>1. TypeOK'
    <2>1. seq' \in 0..MaxSeq /\ missed' \in BOOLEAN
        BY RingAssumption DEF IInv, TypeOK
    <2>2. \A i \in DOMAIN packets : packets[i].no <= seq + 1
        BY RingFacts, RingAssumption DEF IInv, TypeOK
    <2> QED BY <2>1, <2>2 DEF IInv, TypeOK
<1>2. FilteredView'
    BY DEF IInv, FilteredView
<1>3. Contiguous'
    <2>1. packets = <<>> => DOMAIN packets = {}
        OBVIOUS
    <2> QED BY <2>1 DEF IInv, Contiguous
<1>4. FollowPinsCursor' /\ CursorInView'
    BY DEF IInv, FollowPinsCursor, CursorInView
<1> QED BY <1>1, <1>2, <1>3, <1>4 DEF IInv

\* What evicting does to the rows and to a cursor that was in them.
LEMMA LeftRows ==
    ASSUME TypeOK
    PROVE  /\ RowsLeft \in Seq(1..MaxSeq) /\ Len(RowsLeft) \in Nat
           /\ EvictsRow => Len(RowsLeft) = Len(view) - 1 /\ view # <<>>
           /\ ~EvictsRow => RowsLeft = view
<1>1. view \in Seq(1..MaxSeq) /\ Len(view) \in Nat
    BY ViewFacts DEF TypeOK
<1>2. CASE EvictsRow
    <2>1. view # <<>> /\ RowsLeft = Tail(view)
        BY <1>2 DEF EvictsRow, RowsLeft
    <2>2. Tail(view) \in Seq(1..MaxSeq) /\ Len(Tail(view)) = Len(view) - 1
        BY <1>1, <2>1, TailFacts
    <2> QED BY <1>2, <2>1, <2>2
<1>3. CASE ~EvictsRow
    BY <1>1, <1>3 DEF RowsLeft
<1> QED BY <1>2, <1>3

LEMMA PushCursor ==
    ASSUME IInv, NEW p \in Packet, Push(p)
    PROVE  /\ selected' \in Nat
           /\ follow => selected' = Len(view')
           /\ selected' <= Len(view') \/ (view' = <<>> /\ selected' = 1)
<1>1. /\ view \in Seq(1..MaxSeq) /\ Len(view) \in Nat /\ selected \in Nat
      /\ selected <= Len(view) \/ (view = <<>> /\ selected = 1)
    BY ViewFacts DEF IInv, TypeOK, CursorInView
<1>2. /\ RowsLeft \in Seq(1..MaxSeq) /\ Len(RowsLeft) \in Nat
      /\ EvictsRow => Len(RowsLeft) = Len(view) - 1 /\ view # <<>>
      /\ ~EvictsRow => RowsLeft = view
    BY LeftRows DEF IInv
<1>3. /\ view' \in Seq(1..MaxSeq) /\ Len(view') \in Nat
      /\ Len(view') = Len(RowsLeft) \/ Len(view') = Len(RowsLeft) + 1
      /\ Len(view') = 0 => view' = <<>>
    <2>1. p.no \in 1..MaxSeq
        BY DEF Packet
    <2>2. view' = RowsLeft \/ view' = Append(RowsLeft, p.no)
        BY DEF Push
    <2>3. view' \in Seq(1..MaxSeq) /\ (Len(view') = Len(RowsLeft) \/ Len(view') = Len(RowsLeft) + 1)
        <3>1. /\ Append(RowsLeft, p.no) \in Seq(1..MaxSeq)
              /\ Len(Append(RowsLeft, p.no)) = Len(RowsLeft) + 1
            BY <1>2, <2>1
        <3> QED BY <1>2, <2>2, <3>1
    <2> QED BY <2>3
<1>4. selected' = IF follow THEN Len(view') ELSE RowAfterShift(selected, EvictsRow)
    BY DEF Push
<1>5. CASE follow
    BY <1>3, <1>4, <1>5
<1>6. CASE ~follow /\ ~EvictsRow
    <2>1. selected' = selected /\ RowsLeft = view
        BY <1>2, <1>4, <1>6 DEF RowAfterShift
    <2>2. CASE selected <= Len(view)
        BY <1>1, <1>3, <1>6, <2>1, <2>2
    <2>3. CASE view = <<>> /\ selected = 1
        <3>1. Len(view) = 0
            BY <2>3
        <3> QED BY <1>1, <1>3, <1>6, <2>1, <2>3, <3>1
    <2> QED BY <1>1, <2>2, <2>3
<1>7. CASE ~follow /\ EvictsRow
    <2>1. /\ selected' = IF selected = 0 THEN 0 ELSE IF selected = 1 THEN 1 ELSE selected - 1
          /\ Len(RowsLeft) = Len(view) - 1 /\ selected <= Len(view)
        BY <1>1, <1>2, <1>4, <1>7 DEF RowAfterShift, NoRow
    <2> QED BY <1>1, <1>2, <1>3, <1>7, <2>1
<1> QED BY <1>5, <1>6, <1>7

LEMMA ArriveIInv == IInv /\ Arrive => IInv'
<1> SUFFICES ASSUME IInv, Arrive PROVE IInv'
    OBVIOUS
<1>1. /\ seq \in Nat /\ seq + 1 \in 1..MaxSeq /\ seq' = seq + 1
      /\ UNCHANGED <<follow, paused, enabled, matching>>
    BY RingAssumption DEF Arrive, IInv, TypeOK, filters
<1>2. CASE paused
    <2> USE DEF ring
    <2>0. UNCHANGED <<packets, view, selected>> /\ missed' = (missed \/ packets # <<>>)
        BY <1>2 DEF Arrive
    <2>1. TypeOK'
        <3>1. seq' \in 0..MaxSeq /\ missed' \in BOOLEAN
            BY <1>1, <2>0, RingAssumption
        <3>2. \A i \in DOMAIN packets : packets[i].no <= seq + 1
            BY <1>1, RingFacts DEF IInv, TypeOK
        <3> QED BY <1>1, <2>0, <3>1, <3>2 DEF IInv, TypeOK
    <2>2. FilteredView'
        BY <1>1, <2>0 DEF IInv, FilteredView
    <2>3. Contiguous'
        <3>1. packets = <<>> => DOMAIN packets = {}
            OBVIOUS
        <3> QED BY <2>0, <3>1 DEF IInv, Contiguous
    <2>4. FollowPinsCursor' /\ CursorInView'
        BY <1>1, <2>0 DEF IInv, FollowPinsCursor, CursorInView
    <2> QED BY <2>1, <2>2, <2>3, <2>4 DEF IInv
<1>3. CASE ~paused
    <2>1. PICK p \in Packet : Push(p) /\ p.no = seq + 1 /\ missed' = missed
        <3>1. PICK proto \in Protos, content \in Contents :
                  Push([no |-> seq + 1, proto |-> proto, content |-> content])
            BY <1>3 DEF Arrive
        <3>2. [no |-> seq + 1, proto |-> proto, content |-> content] \in Packet
            BY <1>1 DEF Packet
        <3>3. missed' = missed
            BY <1>3 DEF Arrive
        <3> QED BY <3>1, <3>2, <3>3
    <2>2. packets' = RingAfter(p)
        BY <2>1 DEF Push, RingAfter
    <2>3. view' = IF Passes(p, enabled, matching) THEN Append(RowsLeft, p.no) ELSE RowsLeft
        BY <2>1 DEF Push
    <2>4. IsFiltered(view', packets', enabled, matching)
        BY <2>1, <2>2, <2>3, PushedView DEF IInv
    <2>5. FilteredView'
        BY <1>1, <2>4 DEF FilteredView
    <2>6. /\ packets' \in Seq(Packet) /\ Len(packets') <= Capacity
          /\ InOrder(packets')
          /\ \A i \in DOMAIN packets' : packets'[i].no <= seq + 1
          /\ ~missed => \A i \in DOMAIN packets' : packets'[i].no = seq + 1 - Len(packets') + i
        <3>1. /\ RingAfter(p) \in Seq(Packet) /\ Len(RingAfter(p)) <= Capacity
              /\ InOrder(RingAfter(p))
              /\ \A i \in DOMAIN RingAfter(p) : RingAfter(p)[i].no <= seq + 1
              /\ Contiguous => (~missed => \A i \in DOMAIN RingAfter(p) :
                     RingAfter(p)[i].no = seq + 1 - Len(RingAfter(p)) + i)
            BY <2>1, PushedRing DEF IInv
        <3> QED BY <2>2, <3>1 DEF IInv
    <2>7. /\ selected' \in Nat
          /\ follow => selected' = Len(view')
          /\ selected' <= Len(view') \/ (view' = <<>> /\ selected' = 1)
        BY <2>1, PushCursor
    <2>8. TypeOK'
        <3>1. view' \in Seq(1..MaxSeq) /\ seq' \in 0..MaxSeq
            BY <1>1, <2>4, RingAssumption DEF IsFiltered
        <3> QED BY <1>1, <2>1, <2>6, <2>7, <3>1 DEF IInv, TypeOK, InOrder
    <2>9. Contiguous' /\ FollowPinsCursor' /\ CursorInView'
        BY <1>1, <2>1, <2>6, <2>7 DEF Contiguous, FollowPinsCursor, CursorInView
    <2> QED BY <2>5, <2>8, <2>9 DEF IInv
<1> QED BY <1>2, <1>3

\* Restart and clear_packets leave the empty ring of a fresh capture.
LEMMA EmptyIInv ==
    ASSUME IInv, EmptyRing, seq' = seq \/ seq' = 0, UNCHANGED <<follow, paused, filters>>
    PROVE  IInv'
<1> USE DEF EmptyRing, filters
<1>1. TypeOK'
    <2>1. packets' \in Seq(Packet) /\ Len(packets') <= Capacity /\ view' \in Seq(1..MaxSeq)
        BY RingAssumption
    <2>2. DOMAIN packets' = {}
        OBVIOUS
    <2>3. seq' \in 0..MaxSeq /\ selected' \in Nat
        BY RingAssumption DEF IInv, TypeOK, NoRow
    <2> QED BY <2>1, <2>2, <2>3 DEF IInv, TypeOK
<1>2. FilteredView'
    BY EmptyFiltered DEF FilteredView
<1>3. Contiguous' /\ FollowPinsCursor' /\ CursorInView'
    <2>1. selected' = Len(view') /\ DOMAIN packets' = {} /\ Len(view') = 0
        BY DEF NoRow
    <2> QED BY <2>1 DEF Contiguous, FollowPinsCursor, CursorInView
<1> QED BY <1>1, <1>2, <1>3 DEF IInv

\* The row the anchor leads to is the first one at or after it, if there is one.
LEMMA AnchorRow ==
    ASSUME view' \in Seq(1..MaxSeq), NEW anchor \in Int
    PROVE  /\ RowAtOrAfter(anchor) \in Nat /\ RowAtOrAfter(anchor) <= Len(view')
           /\ \/ /\ RowAtOrAfter(anchor) \in DOMAIN view'
                 /\ view'[RowAtOrAfter(anchor)] >= anchor
                 /\ \A j \in 1..(RowAtOrAfter(anchor) - 1) : view'[j] < anchor
              \/ /\ RowAtOrAfter(anchor) = Len(view')
                 /\ \A i \in DOMAIN view' : view'[i] < anchor
<1> DEFINE after == {i \in DOMAIN view' : view'[i] >= anchor}
<1>1. Len(view') \in Nat /\ DOMAIN view' = 1..Len(view') /\ \A i \in DOMAIN view' : view'[i] \in Int
    BY ViewFacts
<1>2. CASE after = {}
    <2>1. \A i \in DOMAIN view' : ~(view'[i] >= anchor) /\ view'[i] < anchor
        BY <1>1, <1>2
    <2>2. RowAtOrAfter(anchor) = Len(view')
        BY <2>1 DEF RowAtOrAfter
    <2> QED BY <1>1, <2>1, <2>2
<1>3. CASE after # {}
    <2>1. PICK i \in after : \A k \in after : i <= k
        <3>1. after \in SUBSET (1..Len(view'))
            BY <1>1
        <3> HIDE DEF after
        <3> QED BY <1>1, <1>3, <3>1, FirstPlace
    <2>2. i \in DOMAIN view' /\ view'[i] >= anchor /\ i \in Nat /\ i <= Len(view')
        BY <1>1, <2>1
    <2>3. \A j \in 1..(i - 1) : view'[j] < anchor
        <3>1. SUFFICES ASSUME NEW j \in 1..(i - 1) PROVE view'[j] < anchor
            OBVIOUS
        <3>2. j \in DOMAIN view' /\ j \in Int /\ ~(i <= j)
            BY <1>1, <2>2
        <3>3. j \notin after
            BY <2>1, <3>2
        <3> QED BY <1>1, <3>2, <3>3
    <2>4. \E k \in DOMAIN view' :
              view'[k] >= anchor /\ \A j \in 1..(k - 1) : view'[j] < anchor
        BY <2>2, <2>3
    <2>5. RowAtOrAfter(anchor) = CHOOSE k \in DOMAIN view' :
              view'[k] >= anchor /\ \A j \in 1..(k - 1) : view'[j] < anchor
        BY <2>2 DEF RowAtOrAfter
    <2>6. /\ RowAtOrAfter(anchor) \in DOMAIN view'
          /\ view'[RowAtOrAfter(anchor)] >= anchor
          /\ \A j \in 1..(RowAtOrAfter(anchor) - 1) : view'[j] < anchor
        BY <2>4, <2>5
    <2> QED BY <1>1, <2>6
<1> QED BY <1>2, <1>3

\* A row shows a number that is in the ring, or none.
LEMMA ShownNumber == ASSUME TypeOK, NEW row PROVE ShownAt(row) \in Int
<1>1. \A i \in DOMAIN packets : packets[i].no \in Int
    BY RingFacts DEF TypeOK
<1>2. ASSUME row \in DOMAIN view, IndexOf(view[row]) # 0
      PROVE  IndexOf(view[row]) \in DOMAIN packets
    <2> DEFINE no == view[row]
    <2>1. no \in Int /\ Len(packets) \in Nat /\ DOMAIN packets = 1..Len(packets)
        BY <1>2, ViewFacts, RingFacts DEF TypeOK
    <2>2. /\ no - Head(packets).no \in 0..(Len(packets) - 1)
          /\ IndexOf(no) = no - Head(packets).no + 1
        BY <1>2 DEF IndexOf
    <2> HIDE DEF no
    <2>3. IndexOf(no) \in 1..Len(packets)
        BY <2>1, <2>2
    <2> QED BY <2>1, <2>3 DEF no
<1> QED BY <1>1, <1>2 DEF ShownAt

LEMMA RebuildIInv ==
    ASSUME IInv, Rebuild, enabled' \subseteq Protos, matching' \subseteq Contents
    PROVE  IInv'
<1>1. /\ view' = Filtered(packets, enabled', matching') /\ selected' = RowAfterRebuild
      /\ UNCHANGED <<seq, packets, follow, paused, missed>>
    BY DEF Rebuild
<1>2. IsFiltered(view', packets, enabled', matching')
    BY <1>1, FilteredIsFiltered DEF IInv, TypeOK, InOrder
<1>3. view' \in Seq(1..MaxSeq) /\ Len(view') \in Nat
    BY <1>2, ViewFacts DEF IsFiltered
<1>4. selected' \in Nat /\ selected' <= Len(view') /\ (follow => selected' = Len(view'))
    <2>1. ShownAt(selected) \in Int
        BY ShownNumber DEF IInv
    <2>2. /\ RowAtOrAfter(ShownAt(selected)) \in Nat
          /\ RowAtOrAfter(ShownAt(selected)) <= Len(view')
        BY <1>3, <2>1, AnchorRow
    <2> QED BY <1>1, <1>3, <2>2 DEF RowAfterRebuild, NoRow
<1>5. TypeOK'
    BY <1>1, <1>3, <1>4 DEF IInv, TypeOK
<1>6. FilteredView'
    BY <1>1, <1>2 DEF FilteredView
<1>7. Contiguous' /\ FollowPinsCursor' /\ CursorInView'
    BY <1>1, <1>4 DEF IInv, Contiguous, FollowPinsCursor, CursorInView
<1> QED BY <1>5, <1>6, <1>7 DEF IInv

\* A key of the table changes the cursor and the two switches, and nothing else.
LEMMA CursorKeyIInv ==
    ASSUME IInv, UNCHANGED <<seq, packets, view, filters, missed>>,
           selected' \in Nat, follow' \in BOOLEAN, paused' \in BOOLEAN,
           FollowPinsCursor', CursorInView'
    PROVE  IInv'
<1>1. TypeOK'
    BY DEF IInv, TypeOK, filters
<1>2. FilteredView' /\ Contiguous'
    BY DEF IInv, FilteredView, Contiguous, filters
<1> QED BY <1>1, <1>2 DEF IInv

LEMMA MoveByIInv ==
    ASSUME IInv, NEW delta \in Int, MoveBy(delta)
    PROVE  IInv'
<1>1. /\ Len(view) \in Nat /\ selected \in Nat /\ paused \in BOOLEAN /\ follow \in BOOLEAN
      /\ view = <<>> \/ Len(view) >= 1
      /\ FollowPinsCursor
    BY ViewFacts DEF IInv, TypeOK
<1>2. UNCHANGED <<seq, packets, view, paused, filters, missed>>
    BY DEF MoveBy, cursorFrame
<1>3. CASE view = <<>>
    <2>1. selected' = 0 /\ follow' = follow /\ Len(view') = 0
        BY <1>2, <1>3 DEF MoveBy, NoRow
    <2> QED BY <1>1, <1>2, <2>1, CursorKeyIInv DEF FollowPinsCursor, CursorInView
<1>4. CASE view # <<>>
    <2> DEFINE current == IF selected = NoRow THEN 1 ELSE selected
               target == current + delta
               row == IF target < 1 THEN 1 ELSE IF target > Len(view) THEN Len(view) ELSE target
    <2>1. selected' = row /\ follow' = (row = Len(view))
        BY <1>4 DEF MoveBy, FollowAfterMove
    <2>2. row \in Nat /\ row <= Len(view)
        <3>1. target \in Int
            BY <1>1 DEF NoRow
        <3> HIDE DEF target
        <3> QED BY <1>1, <1>4, <3>1
    <2> HIDE DEF row
    <2>3. FollowPinsCursor' /\ CursorInView' /\ selected' \in Nat /\ follow' \in BOOLEAN
        BY <1>2, <2>1, <2>2 DEF FollowPinsCursor, CursorInView
    <2> QED BY <1>1, <1>2, <2>3, CursorKeyIInv
<1> QED BY <1>3, <1>4

LEMMA NextIInv == IInv /\ [Next]_vars => IInv'
<1> SUFFICES ASSUME IInv, [Next]_vars PROVE IInv'
    OBVIOUS
<1> USE DEF filters, ring
<1>1. /\ Len(view) \in Nat /\ selected \in Nat /\ paused \in BOOLEAN /\ follow \in BOOLEAN
      /\ enabled \subseteq Protos /\ matching \subseteq Contents
      /\ FollowPinsCursor /\ CursorInView
    BY ViewFacts DEF IInv, TypeOK
<1>2. CASE Lose
    BY <1>2, LoseIInv
<1>3. CASE Arrive
    BY <1>3, ArriveIInv
<1>4. CASE Restart
    BY <1>4, EmptyIInv DEF Restart
<1>5. CASE Clear
    BY <1>5, EmptyIInv DEF Clear
<1>6. CASE ToggleProto
    <2>1. enabled' \subseteq Protos /\ matching' = matching /\ Rebuild
        BY <1>1, <1>6 DEF ToggleProto
    <2> QED BY <1>1, <2>1, RebuildIInv
<1>7. CASE EditFilter
    <2>1. enabled' = enabled /\ matching' \subseteq Contents /\ Rebuild
        BY <1>7 DEF EditFilter
    <2> QED BY <1>1, <2>1, RebuildIInv
<1>8. CASE ResetFilters
    BY <1>8, RebuildIInv DEF ResetFilters
<1>9. CASE TogglePause
    <2>1. UNCHANGED <<seq, packets, view, selected, follow, enabled, matching, missed>> /\ paused' \in BOOLEAN
        BY <1>1, <1>9 DEF TogglePause
    <2>2. FollowPinsCursor' /\ CursorInView'
        BY <1>1, <2>1 DEF FollowPinsCursor, CursorInView
    <2> QED BY <1>1, <2>1, <2>2, CursorKeyIInv
<1>10. CASE ToggleFollow
    <2>1. /\ UNCHANGED <<seq, packets, view, paused, enabled, matching, missed>> /\ follow' \in BOOLEAN
          /\ follow' = ~follow /\ selected' = IF follow THEN selected ELSE Len(view)
        BY <1>1, <1>10 DEF ToggleFollow, cursorFrame
    <2>2. FollowPinsCursor' /\ CursorInView' /\ selected' \in Nat
        BY <1>1, <2>1 DEF FollowPinsCursor, CursorInView
    <2> QED BY <1>1, <2>1, <2>2, CursorKeyIInv
<1>11. CASE ToFirst
    <2>1. /\ UNCHANGED <<seq, packets, view, paused, enabled, matching, missed>>
          /\ follow' = FALSE /\ selected' = IF view = <<>> THEN NoRow ELSE 1
        BY <1>11 DEF ToFirst, cursorFrame
    <2>2. view # <<>> => 1 <= Len(view)
        BY <1>1, ViewFacts DEF IInv, TypeOK
    <2>3. FollowPinsCursor' /\ CursorInView' /\ selected' \in Nat
        BY <1>1, <2>1, <2>2 DEF FollowPinsCursor, CursorInView, NoRow
    <2> QED BY <1>1, <2>1, <2>3, CursorKeyIInv
<1>12. CASE ToLast
    <2>1. /\ UNCHANGED <<seq, packets, view, paused, enabled, matching, missed>>
          /\ follow' = TRUE /\ selected' = Len(view)
        BY <1>12 DEF ToLast, cursorFrame
    <2>2. FollowPinsCursor' /\ CursorInView' /\ selected' \in Nat
        BY <1>1, <2>1 DEF FollowPinsCursor, CursorInView
    <2> QED BY <1>1, <2>1, <2>2, CursorKeyIInv
<1>13. CASE MoveBy(1) \/ MoveBy(-1)
    <2>1. 1 \in Int /\ -1 \in Int
        OBVIOUS
    <2> QED BY <1>13, <2>1, MoveByIInv
<1>14. CASE \E height \in Heights : PageBy(height)
    <2>1. PICK height \in Heights : MoveBy(height) \/ MoveBy(-height)
        BY <1>14 DEF PageBy
    <2>2. height \in Int /\ -height \in Int
        BY RingAssumption
    <2> QED BY <2>1, <2>2, MoveByIInv
<1>15. CASE UNCHANGED vars
    <2>1. TypeOK'
        BY <1>15 DEF IInv, TypeOK, vars
    <2>2. FilteredView' /\ Contiguous'
        BY <1>15 DEF IInv, FilteredView, Contiguous, vars
    <2>3. FollowPinsCursor' /\ CursorInView'
        BY <1>15 DEF IInv, FollowPinsCursor, CursorInView, vars
    <2> QED BY <2>1, <2>2, <2>3 DEF IInv
<1> QED
    BY <1>2, <1>3, <1>4, <1>5, <1>6, <1>7, <1>8, <1>9, <1>10, <1>11, <1>12, <1>13, <1>14, <1>15
    DEF Next, Change, Key

\* The inductive invariant holds in every state.
THEOREM InductiveInvariant == Spec => []IInv
<1>1. Init => IInv
    BY InitIInv
<1>2. IInv /\ [Next]_vars => IInv'
    BY NextIInv
<1> QED BY <1>1, <1>2, PTL DEF Spec

-------------------------------------------------------------------------------
(* What follows from it.                                                   *)

\* The ring holds at most --buffer packets, oldest first, and nothing younger than
\* the packet read last; view, cursor and switches have their types.
THEOREM TypeCorrect == Spec => []TypeOK
<1>1. IInv => TypeOK
    BY DEF IInv
<1> QED BY <1>1, InductiveInvariant, PTL

LEMMA ViewComputed == IInv => ViewIsFilteredRing
<1> SUFFICES ASSUME IInv PROVE ViewIsFilteredRing
    OBVIOUS
<1>1. packets \in Seq(Packet) /\ InOrder(packets)
    BY DEF IInv, TypeOK, InOrder
<1>2. IsFiltered(view, packets, enabled, matching)
    BY DEF IInv, FilteredView
<1>3. IsFiltered(Filtered(packets, enabled, matching), packets, enabled, matching)
    BY <1>1, FilteredIsFiltered
<1> QED BY <1>1, <1>2, <1>3, FilteredUnique DEF ViewIsFilteredRing

\* The list push_packet maintains one packet at a time is always the one rebuild_view
\* would compute from the ring: no stale row, none missing, none out of order.
THEOREM ViewMaintained == Spec => []ViewIsFilteredRing
<1>1. IInv => ViewIsFilteredRing
    BY ViewComputed
<1> QED BY <1>1, InductiveInvariant, PTL

\* While following, the cursor is on the newest row after any change: arrival,
\* eviction, filter edit, clear or key.
THEOREM FollowsNewest == Spec => []FollowPinsCursor
<1>1. IInv => FollowPinsCursor
    BY DEF IInv
<1> QED BY <1>1, InductiveInvariant, PTL

\* The cursor never points past the list, but for a 1 kept over an emptied list.
THEOREM CursorWithinView == Spec => []CursorInView
<1>1. IInv => CursorInView
    BY DEF IInv
<1> QED BY <1>1, InductiveInvariant, PTL

LEMMA RowFound == IInv => RowsResolve
<1> SUFFICES ASSUME IInv, ~missed, NEW row \in DOMAIN view PROVE ShownAt(row) = view[row]
    BY DEF RowsResolve
<1>1. /\ Len(packets) \in Nat /\ DOMAIN packets = 1..Len(packets) /\ packets \in Seq(Packet)
      /\ \A i \in DOMAIN packets : packets[i].no \in Int
      /\ seq \in Int
    BY RingFacts, RingAssumption DEF IInv, TypeOK
<1>2. PICK i \in DOMAIN packets : view[row] = packets[i].no
    BY DEF IInv, FilteredView, IsFiltered
<1>3. /\ packets[i].no = seq - Len(packets) + i
      /\ packets[1].no = seq - Len(packets) + 1
      /\ 1 \in DOMAIN packets /\ i \in 1..Len(packets)
    BY <1>1 DEF IInv, Contiguous
<1>4. packets # <<>> /\ Head(packets) = packets[1]
    BY <1>1, <1>3
<1>5. /\ packets[i].no - packets[1].no = i - 1
      /\ i - 1 \in 0..(Len(packets) - 1)
      /\ (i - 1) + 1 = i /\ i # 0
    BY <1>1, <1>3
<1>6. IndexOf(view[row]) = i
    BY <1>2, <1>4, <1>5 DEF IndexOf
<1> QED BY <1>2, <1>5, <1>6 DEF ShownAt

\* Where no number was skipped, index_of takes every row to the packet it stands for.
THEOREM RowsFound == Spec => []RowsResolve
<1>1. IInv => RowsResolve
    BY RowFound
<1> QED BY <1>1, InductiveInvariant, PTL

LEMMA ArrivalKeepsCursor ==
    ASSUME IInv, Arrive, ~follow, CursorNo # 0
    PROVE  \/ CursorNo' = CursorNo
           \/ EvictsRow /\ CursorNo = Head(packets).no
              /\ (view' = <<>> \/ CursorNo' = Head(view'))
<1>1. /\ view \in Seq(1..MaxSeq) /\ Len(view) \in Nat /\ DOMAIN view = 1..Len(view)
      /\ selected \in DOMAIN view /\ CursorNo = view[selected] /\ selected \in Int
    BY ViewFacts DEF IInv, TypeOK, CursorNo
<1>2. CASE paused
    BY <1>2 DEF Arrive, ring, CursorNo
<1>3. CASE ~paused
    <2>1. PICK p \in Packet : Push(p)
        <3>1. PICK proto \in Protos, content \in Contents :
                  Push([no |-> seq + 1, proto |-> proto, content |-> content])
            BY <1>3 DEF Arrive
        <3>2. [no |-> seq + 1, proto |-> proto, content |-> content] \in Packet
            BY RingAssumption DEF Packet, Arrive, IInv, TypeOK
        <3> QED BY <3>1, <3>2
    <2>2. /\ RowsLeft \in Seq(1..MaxSeq) /\ Len(RowsLeft) \in Nat
          /\ EvictsRow => Len(RowsLeft) = Len(view) - 1 /\ view # <<>>
          /\ ~EvictsRow => RowsLeft = view
        BY LeftRows DEF IInv
    <2>3. /\ view' = RowsLeft \/ view' = Append(RowsLeft, p.no)
          /\ selected' = RowAfterShift(selected, EvictsRow)
        BY <2>1 DEF Push
    <2>4. /\ DOMAIN RowsLeft \subseteq DOMAIN view'
          /\ \A r \in DOMAIN RowsLeft : view'[r] = RowsLeft[r]
          /\ view' \in Seq(1..MaxSeq)
        <3>1. /\ DOMAIN Append(RowsLeft, p.no) = 1..(Len(RowsLeft) + 1)
              /\ DOMAIN RowsLeft = 1..Len(RowsLeft)
              /\ \A r \in DOMAIN RowsLeft : Append(RowsLeft, p.no)[r] = RowsLeft[r]
              /\ Append(RowsLeft, p.no) \in Seq(1..MaxSeq)
            BY <2>2 DEF Packet
        <3>2. CASE view' = RowsLeft
            BY <2>2, <3>2
        <3>3. CASE view' = Append(RowsLeft, p.no)
            <4>1. DOMAIN RowsLeft \subseteq 1..(Len(RowsLeft) + 1)
                BY <2>2, <3>1
            <4> QED BY <3>1, <3>3, <4>1
        <3> QED BY <2>3, <3>2, <3>3
    <2>5. CASE ~EvictsRow
        <3>1. selected' = selected /\ RowsLeft = view
            BY <2>2, <2>3, <2>5 DEF RowAfterShift
        <3> QED BY <1>1, <2>4, <3>1 DEF CursorNo
    <2>6. CASE EvictsRow /\ selected # 1
        <3>1. selected' = selected - 1 /\ RowsLeft = Tail(view) /\ view # <<>>
            BY <1>1, <2>2, <2>3, <2>6 DEF RowAfterShift, RowsLeft, NoRow
        <3>2. /\ DOMAIN Tail(view) = 1..(Len(view) - 1)
              /\ \A r \in DOMAIN Tail(view) : Tail(view)[r] = view[r + 1]
            BY <1>1, <3>1, TailFacts
        <3>3. selected - 1 \in DOMAIN Tail(view) /\ (selected - 1) + 1 = selected
            BY <1>1, <2>6, <3>2
        <3>4. selected' \in DOMAIN view' /\ view'[selected'] = view[selected]
            BY <2>4, <3>1, <3>2, <3>3
        <3> QED BY <1>1, <3>4 DEF CursorNo
    <2>7. CASE EvictsRow /\ selected = 1
        <3>1. CursorNo = Head(packets).no
            <4>1. Head(view) = Head(packets).no
                BY <2>7 DEF EvictsRow
            <4>2. Head(view) = view[1]
                BY <1>1, <2>7
            <4> QED BY <1>1, <2>7, <4>1, <4>2
        <3>2. selected' = 1
            BY <2>3, <2>7 DEF RowAfterShift, NoRow
        <3>3. view' = <<>> \/ (1 \in DOMAIN view' /\ Head(view') = view'[1])
            BY <2>4
        <3> QED BY <2>7, <3>1, <3>2, <3>3 DEF CursorNo
    <2> QED BY <2>5, <2>6, <2>7
<1> QED BY <1>2, <1>3

\* An arriving packet leaves the cursor of a person reading history on its packet,
\* or on the oldest row left when that packet is the one evicted.
THEOREM CursorStaysPut == Spec => CursorStays
<1>1. IInv /\ [Next]_vars =>
          [Arrive /\ ~follow /\ CursorNo # 0 =>
              \/ CursorNo' = CursorNo
              \/ EvictsRow /\ CursorNo = Head(packets).no
                 /\ (view' = <<>> \/ CursorNo' = Head(view'))]_vars
    BY ArrivalKeepsCursor
<1> QED BY <1>1, InductiveInvariant, PTL DEF Spec, CursorStays

LEMMA RebuildKeepsAnchor ==
    ASSUME IInv, Rebuild, IInv', ~follow, ~missed, CursorNo # 0, view' # <<>>
    PROVE  \/ CursorNo' >= CursorNo
              /\ \A i \in DOMAIN view' : ~(CursorNo <= view'[i] /\ view'[i] < CursorNo')
           \/ CursorNo' = view'[Len(view')]
              /\ \A i \in DOMAIN view' : view'[i] < CursorNo
<1>1. /\ selected \in DOMAIN view /\ CursorNo = view[selected] /\ CursorNo \in Int
      /\ ShownAt(selected) = CursorNo
    <2>1. selected \in DOMAIN view /\ CursorNo = view[selected]
        BY DEF CursorNo
    <2> QED BY <2>1, ViewFacts, RowFound DEF RowsResolve, IInv, TypeOK
<1>2. selected' = RowAtOrAfter(CursorNo)
    BY <1>1 DEF Rebuild, RowAfterRebuild
<1>3. /\ view' \in Seq(1..MaxSeq) /\ Len(view') \in Nat /\ DOMAIN view' = 1..Len(view')
      /\ \A i \in DOMAIN view' : view'[i] \in Int
      /\ Ascending(view')
    <2>1. view' \in Seq(1..MaxSeq) /\ Ascending(view')
        BY DEF IInv, FilteredView, IsFiltered
    <2> QED BY <2>1, ViewFacts
<1>4. \/ /\ RowAtOrAfter(CursorNo) \in DOMAIN view'
         /\ view'[RowAtOrAfter(CursorNo)] >= CursorNo
         /\ \A j \in 1..(RowAtOrAfter(CursorNo) - 1) : view'[j] < CursorNo
      \/ /\ RowAtOrAfter(CursorNo) = Len(view')
         /\ \A i \in DOMAIN view' : view'[i] < CursorNo
    BY <1>1, <1>3, AnchorRow
<1>5. CASE /\ RowAtOrAfter(CursorNo) \in DOMAIN view'
           /\ view'[RowAtOrAfter(CursorNo)] >= CursorNo
           /\ \A j \in 1..(RowAtOrAfter(CursorNo) - 1) : view'[j] < CursorNo
    <2>1. CursorNo' = view'[selected'] /\ selected' \in DOMAIN view' /\ CursorNo' >= CursorNo
        BY <1>2, <1>5 DEF CursorNo
    <2>2. ASSUME NEW i \in DOMAIN view', CursorNo <= view'[i], view'[i] < CursorNo'
          PROVE  FALSE
        <3>1. i \in Int /\ selected' \in Int /\ i >= 1
            BY <1>3, <2>1, <2>2
        <3>2. ~(i < selected')
            <4>1. SUFFICES ASSUME i < selected' PROVE FALSE
                OBVIOUS
            <4>2. i \in 1..(selected' - 1)
                BY <3>1, <4>1
            <4>3. view'[i] < CursorNo
                BY <1>2, <1>5, <4>2
            <4> QED BY <1>1, <1>3, <2>2, <4>3
        <3>3. i = selected' \/ view'[selected'] < view'[i]
            BY <1>3, <2>1, <2>2, <3>1, <3>2 DEF Ascending
        <3> QED BY <1>3, <2>1, <2>2, <3>3
    <2> QED BY <2>1, <2>2
<1>6. CASE /\ RowAtOrAfter(CursorNo) = Len(view')
           /\ \A i \in DOMAIN view' : view'[i] < CursorNo
    <2>1. Len(view') \in DOMAIN view'
        BY <1>3
    <2>2. CursorNo' = view'[Len(view')]
        BY <1>2, <1>6, <2>1 DEF CursorNo
    <2> QED BY <1>6, <2>2
<1> QED BY <1>4, <1>5, <1>6

\* A filter change keeps the cursor on its packet if the new list shows it, else on
\* the next packet shown, else on the last one.
THEOREM AnchorIsKept == Spec => AnchorKept
<1>1. ToggleProto \/ EditFilter \/ ResetFilters => Rebuild
    BY DEF ToggleProto, EditFilter, ResetFilters
<1>2. IInv /\ IInv' /\ [Next]_vars =>
          [(ToggleProto \/ EditFilter \/ ResetFilters) /\ ~follow /\ ~missed
              /\ CursorNo # 0 /\ view' # <<>> =>
              \/ CursorNo' >= CursorNo
                 /\ \A i \in DOMAIN view' : ~(CursorNo <= view'[i] /\ view'[i] < CursorNo')
              \/ CursorNo' = view'[Len(view')]
                 /\ \A i \in DOMAIN view' : view'[i] < CursorNo]_vars
    BY <1>1, RebuildKeepsAnchor
<1> QED BY <1>2, InductiveInvariant, PTL DEF Spec, AnchorKept
===============================================================================
