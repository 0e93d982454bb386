-------------------------- MODULE PortsScreen_proofs --------------------------
(***************************************************************************)
(* Theorems about the ports screen, put together from those about the line *)
(* editor, for every alphabet of characters one to four bytes wide and     *)
(* lines of any length, and those about collect(), for any number of       *)
(* sockets and processes, any programs, and anything the processes do      *)
(* between two of its readings.                                            *)
(***************************************************************************)
EXTENDS PortsScreen, Lists_proofs

-------------------------------------------------------------------------------
(* The line editor.                                                          *)

Byte == Chars \X (1..4)

\* What is known of one byte of whole characters.
WholeAt(bytes, i) ==
    /\ bytes[i][2] <= Width[bytes[i][1]]
    /\ bytes[i][2] > 1 =>
          i > 1 /\ bytes[i - 1] = <<bytes[i][1], bytes[i][2] - 1>>
    /\ bytes[i][2] < Width[bytes[i][1]] =>
          i < Len(bytes) /\ bytes[i + 1] = <<bytes[i][1], bytes[i][2] + 1>>

\* Boundary of any run of bytes.
Edge(bytes, i) == i \in 0..Len(bytes) /\ (i < Len(bytes) => bytes[i + 1][2] = 1)

LEMMA ByteParts ==
    ASSUME NEW b \in Byte
    PROVE  b[1] \in Chars /\ b[2] \in Nat /\ b[2] >= 1 /\ b[2] <= 4 /\ b = <<b[1], b[2]>>
BY DEF Byte

LEMMA Widths ==
    ASSUME NEW c \in Chars
    PROVE  Width[c] \in Nat /\ Width[c] >= 1 /\ Width[c] <= 4
<1>1. Width[c] \in 1..4
    BY LineAssumption
<1> QED BY <1>1

LEMMA Bytes ==
    ASSUME NEW bytes \in Seq(Byte)
    PROVE  /\ Len(bytes) \in Nat /\ DOMAIN bytes = 1..Len(bytes)
           /\ \A i \in 1..Len(bytes) :
                 /\ bytes[i] \in Byte /\ bytes[i][1] \in Chars
                 /\ bytes[i][2] \in Nat /\ bytes[i][2] >= 1
                 /\ Width[bytes[i][1]] \in Nat
                 /\ bytes[i] = <<bytes[i][1], bytes[i][2]>>
<1>1. Len(bytes) \in Nat /\ DOMAIN bytes = 1..Len(bytes) /\ \A i \in 1..Len(bytes) : bytes[i] \in Byte
    OBVIOUS
<1> QED BY <1>1, ByteParts, Widths

LEMMA Whole ==
    ASSUME NEW bytes
    PROVE  WellFormed(bytes) <=> bytes \in Seq(Byte) /\ \A i \in 1..Len(bytes) : WholeAt(bytes, i)
BY DEF WellFormed, WholeAt, Byte

\* The first byte of a line starts a character, and so does the one at an edge.
LEMMA EdgeAtEnds ==
    ASSUME NEW bytes, WellFormed(bytes)
    PROVE  Edge(bytes, 0) /\ Edge(bytes, Len(bytes))
<1>1. /\ Len(bytes) \in Nat
      /\ \A i \in 1..Len(bytes) : WholeAt(bytes, i) /\ bytes[i][2] \in Nat /\ bytes[i][2] >= 1
    BY Whole, Bytes
<1>2. 0 < Len(bytes) => bytes[1][2] = 1
    <2>1. SUFFICES ASSUME 0 < Len(bytes), bytes[1][2] # 1 PROVE FALSE
        OBVIOUS
    <2>2. 1 \in 1..Len(bytes)
        BY <1>1, <2>1
    <2>3. bytes[1][2] > 1
        BY <1>1, <2>1, <2>2
    <2> QED BY <1>1, <2>2, <2>3 DEF WholeAt
<1> QED BY <1>1, <1>2 DEF Edge

\* The byte before an edge is the last one of its character.
LEMMA BeforeEdge ==
    ASSUME NEW bytes, WellFormed(bytes), NEW i, Edge(bytes, i), i # 0
    PROVE  bytes[i][2] = Width[bytes[i][1]]
<1>1. /\ i \in 1..Len(bytes) /\ Len(bytes) \in Nat
      /\ WholeAt(bytes, i) /\ bytes[i][2] \in Nat /\ bytes[i][2] >= 1 /\ Width[bytes[i][1]] \in Nat
    BY Whole, Bytes DEF Edge
<1>2. SUFFICES ASSUME bytes[i][2] < Width[bytes[i][1]] PROVE FALSE
    BY <1>1 DEF WholeAt
<1>3. i < Len(bytes) /\ bytes[i + 1] = <<bytes[i][1], bytes[i][2] + 1>>
    BY <1>1, <1>2 DEF WholeAt
<1>4. bytes[i + 1][2] = bytes[i][2] + 1 /\ bytes[i + 1][2] = 1
    BY <1>3 DEF Edge
<1> QED BY <1>1, <1>4

\* The character behind an edge, byte by byte, and the edge at its end.
LEMMA CharacterAt ==
    ASSUME NEW bytes, WellFormed(bytes), NEW i, Edge(bytes, i), i < Len(bytes)
    PROVE  LET c == bytes[i + 1][1]
           IN  /\ Edge(bytes, i + Width[c])
               /\ \A k \in 1..Width[c] : bytes[i + k] = <<c, k>>
<1> DEFINE c == bytes[i + 1][1]
           n == Width[c]
<1>1. /\ i \in Nat /\ i + 1 \in 1..Len(bytes) /\ Len(bytes) \in Nat
      /\ bytes \in Seq(Byte)
      /\ \A k \in 1..Len(bytes) : /\ WholeAt(bytes, k)
                                  /\ bytes[k][1] \in Chars /\ bytes[k][2] \in Nat /\ bytes[k][2] >= 1
                                  /\ bytes[k] = <<bytes[k][1], bytes[k][2]>>
    BY Whole, Bytes DEF Edge
<1>2. c \in Chars /\ n \in Nat /\ n >= 1 /\ n <= 4
    BY <1>1, Widths
<1>3. bytes[i + 1] = <<c, 1>>
    BY <1>1 DEF Edge
<1>4. ASSUME NEW k \in 1..3, k < n, i + k \in 1..Len(bytes), bytes[i + k] = <<c, k>>
      PROVE  i + (k + 1) \in 1..Len(bytes) /\ bytes[i + (k + 1)] = <<c, k + 1>>
    <2>1. WholeAt(bytes, i + k) /\ bytes[i + k][1] = c /\ bytes[i + k][2] = k
        BY <1>1, <1>4
    <2>2. i + k < Len(bytes) /\ bytes[(i + k) + 1] = <<c, k + 1>>
        BY <1>4, <2>1 DEF WholeAt
    <2>3. (i + k) + 1 = i + (k + 1) /\ i + (k + 1) \in 1..Len(bytes)
        BY <1>1, <2>2
    <2> QED BY <2>2, <2>3
<1> HIDE DEF c, n
<1>5. /\ i + n \in 1..Len(bytes) /\ bytes[i + n] = <<c, n>>
      /\ \A k \in 1..n : bytes[i + k] = <<c, k>>
    <2>1. n > 1 => i + 2 \in 1..Len(bytes) /\ bytes[i + 2] = <<c, 2>>
        BY <1>1, <1>3, <1>4
    <2>2. n > 2 => i + 3 \in 1..Len(bytes) /\ bytes[i + 3] = <<c, 3>>
        BY <1>2, <1>4, <2>1
    <2>3. n > 3 => i + 4 \in 1..Len(bytes) /\ bytes[i + 4] = <<c, 4>>
        BY <1>2, <1>4, <2>2
    <2>4. n = 1 \/ n = 2 \/ n = 3 \/ n = 4
        BY <1>2
    <2>5. \A k \in 1..n : k = 1 \/ (k = 2 /\ n > 1) \/ (k = 3 /\ n > 2) \/ (k = 4 /\ n > 3)
        BY <1>2
    <2>6. i + n \in 1..Len(bytes) /\ bytes[i + n] = <<c, n>>
        BY <1>1, <1>3, <2>1, <2>2, <2>3, <2>4
    <2>7. \A k \in 1..n : bytes[i + k] = <<c, k>>
        BY <1>3, <2>1, <2>2, <2>3, <2>5
    <2> QED BY <2>6, <2>7
<1>6. i + n < Len(bytes) => bytes[(i + n) + 1][2] = 1
    <2>1. SUFFICES ASSUME i + n < Len(bytes), bytes[(i + n) + 1][2] # 1 PROVE FALSE
        OBVIOUS
    <2> DEFINE k == (i + n) + 1
    <2>2. k \in 1..Len(bytes) /\ k - 1 = i + n
        BY <1>1, <1>2, <2>1
    <2>3. WholeAt(bytes, k) /\ bytes[k][2] \in Nat /\ bytes[k][2] > 1
        BY <1>1, <2>1, <2>2
    <2> HIDE DEF k
    <2>4. <<c, n>> = <<bytes[k][1], bytes[k][2] - 1>>
        BY <1>5, <2>2, <2>3 DEF WholeAt
    <2>5. bytes[k][1] = c /\ bytes[k][2] = n + 1
        BY <1>2, <2>3, <2>4
    <2>6. bytes[k][2] <= Width[bytes[k][1]]
        BY <2>3 DEF WholeAt
    <2> QED BY <1>2, <2>5, <2>6 DEF n
<1>7. Edge(bytes, i + n)
    BY <1>1, <1>2, <1>5, <1>6 DEF Edge
<1> QED BY <1>5, <1>7 DEF n, c

-------------------------------------------------------------------------------
(* Whole characters cut at edges and put together are whole characters.    *)

LEMMA PrefixWhole ==
    ASSUME NEW bytes, WellFormed(bytes), NEW f, Edge(bytes, f)
    PROVE  WellFormed(SubSeq(bytes, 1, f)) /\ Len(SubSeq(bytes, 1, f)) = f
<1> DEFINE p == SubSeq(bytes, 1, f)
<1>1. /\ bytes \in Seq(Byte) /\ Len(bytes) \in Nat /\ f \in 0..Len(bytes)
      /\ \A i \in 1..Len(bytes) : WholeAt(bytes, i) /\ bytes[i][2] \in Nat /\ Width[bytes[i][1]] \in Nat
    BY Whole, Bytes DEF Edge
<1>2. p \in Seq(Byte) /\ Len(p) = f /\ \A i \in 1..f : p[i] = bytes[i]
    BY <1>1
<1> HIDE DEF p
<1>3. ASSUME NEW i \in 1..f PROVE WholeAt(p, i)
    <2>1. WholeAt(bytes, i) /\ i \in 1..Len(bytes) /\ p[i] = bytes[i]
        BY <1>1, <1>2
    <2>2. i > 1 => p[i - 1] = bytes[i - 1]
        BY <1>1, <1>2
    <2>3. i < f => p[i + 1] = bytes[i + 1]
        BY <1>1, <1>2
    <2>4. bytes[i][2] < Width[bytes[i][1]] => i < f
        <3>1. i = f => bytes[i][2] = Width[bytes[i][1]]
            BY <1>1, BeforeEdge
        <3> QED BY <1>1, <2>1, <3>1
    <2> QED BY <1>2, <2>1, <2>2, <2>3, <2>4 DEF WholeAt
<1>4. WellFormed(p)
    BY <1>2, <1>3, Whole
<1> QED BY <1>2, <1>4 DEF p

LEMMA SuffixWhole ==
    ASSUME NEW bytes, WellFormed(bytes), NEW l, Edge(bytes, l)
    PROVE  WellFormed(SubSeq(bytes, l + 1, Len(bytes)))
<1> DEFINE s == SubSeq(bytes, l + 1, Len(bytes))
           m == Len(bytes) - l
<1>1. /\ bytes \in Seq(Byte) /\ Len(bytes) \in Nat /\ l \in 0..Len(bytes)
      /\ \A i \in 1..Len(bytes) : WholeAt(bytes, i) /\ bytes[i][2] \in Nat /\ Width[bytes[i][1]] \in Nat
    BY Whole, Bytes DEF Edge
<1>2. s \in Seq(Byte) /\ Len(s) = m /\ m \in Nat /\ \A i \in 1..m : s[i] = bytes[l + i]
    BY <1>1
<1> HIDE DEF s
<1>3. ASSUME NEW i \in 1..m PROVE WholeAt(s, i)
    <2>1. l + i \in 1..Len(bytes) /\ s[i] = bytes[l + i]
        BY <1>1, <1>2
    <2>2. WholeAt(bytes, l + i)
        BY <1>1, <2>1
    <2>3. i > 1 => s[i - 1] = bytes[(l + i) - 1]
        <3>1. i > 1 => i - 1 \in 1..m /\ l + (i - 1) = (l + i) - 1
            BY <1>1, <1>2
        <3> QED BY <1>2, <3>1
    <2>4. l + i < Len(bytes) => i < m /\ s[i + 1] = bytes[(l + i) + 1]
        <3>1. l + i < Len(bytes) => i + 1 \in 1..m /\ l + (i + 1) = (l + i) + 1 /\ i < m
            BY <1>1, <1>2
        <3> QED BY <1>2, <3>1
    <2>5. bytes[l + i][2] > 1 => i > 1
        <3>1. i = 1 => bytes[l + i][2] = 1
            BY <1>1, <2>1 DEF Edge
        <3> QED BY <1>1, <1>2, <2>1, <3>1
    <2> QED BY <1>2, <2>1, <2>2, <2>3, <2>4, <2>5 DEF WholeAt
<1>4. WellFormed(s)
    BY <1>2, <1>3, Whole
<1> QED BY <1>4 DEF s

LEMMA JoinWhole ==
    ASSUME NEW a, NEW b, WellFormed(a), WellFormed(b)
    PROVE  WellFormed(a \o b) /\ Edge(a \o b, Len(a)) /\ Len(a \o b) = Len(a) + Len(b)
<1> DEFINE j == a \o b
<1>1. /\ a \in Seq(Byte) /\ b \in Seq(Byte) /\ Len(a) \in Nat /\ Len(b) \in Nat
      /\ \A i \in 1..Len(a) : WholeAt(a, i) /\ a[i][2] \in Nat /\ Width[a[i][1]] \in Nat
      /\ \A i \in 1..Len(b) : WholeAt(b, i) /\ b[i][2] \in Nat /\ Width[b[i][1]] \in Nat
    BY Whole, Bytes
<1>2. /\ j \in Seq(Byte) /\ Len(j) = Len(a) + Len(b)
      /\ \A i \in 1..Len(a) : j[i] = a[i]
      /\ \A i \in 1..Len(b) : j[Len(a) + i] = b[i]
    BY <1>1
<1> HIDE DEF j
<1>3. ASSUME NEW i \in 1..Len(a) PROVE WholeAt(j, i)
    <2>1. WholeAt(a, i) /\ j[i] = a[i]
        BY <1>1, <1>2
    <2>2. i > 1 => j[i - 1] = a[i - 1]
        BY <1>1, <1>2
    <2>3. i < Len(a) => j[i + 1] = a[i + 1] /\ i < Len(j)
        <3>1. i < Len(a) => i + 1 \in 1..Len(a) /\ i < Len(a) + Len(b)
            BY <1>1
        <3> QED BY <1>2, <3>1
    <2> QED BY <2>1, <2>2, <2>3 DEF WholeAt
<1>4. ASSUME NEW i \in 1..Len(b) PROVE WholeAt(j, Len(a) + i)
    <2>1. WholeAt(b, i) /\ j[Len(a) + i] = b[i]
        BY <1>1, <1>2
    <2>2. i > 1 => j[(Len(a) + i) - 1] = b[i - 1] /\ Len(a) + i > 1
        <3>1. i > 1 => i - 1 \in 1..Len(b) /\ Len(a) + (i - 1) = (Len(a) + i) - 1 /\ Len(a) + i > 1
            BY <1>1
        <3> QED BY <1>2, <3>1
    <2>3. i < Len(b) => j[(Len(a) + i) + 1] = b[i + 1] /\ Len(a) + i < Len(j)
        <3>1. i < Len(b) =>
                  i + 1 \in 1..Len(b) /\ Len(a) + (i + 1) = (Len(a) + i) + 1 /\ Len(a) + i < Len(a) + Len(b)
            BY <1>1
        <3> QED BY <1>2, <3>1
    <2> QED BY <2>1, <2>2, <2>3 DEF WholeAt
<1>5. \A i \in 1..Len(j) : WholeAt(j, i)
    <2>1. TAKE i \in 1..Len(j)
    <2>2. CASE i <= Len(a)
        BY <1>1, <1>3, <2>2
    <2>3. CASE i > Len(a)
        <3>1. i - Len(a) \in 1..Len(b) /\ Len(a) + (i - Len(a)) = i
            BY <1>1, <1>2, <2>3
        <3> QED BY <1>4, <3>1
    <2> QED BY <1>1, <2>2, <2>3
<1>6. WellFormed(j)
    BY <1>2, <1>5, Whole
<1>7. Edge(j, Len(a))
    <2>1. Len(a) < Len(j) => 1 \in 1..Len(b) /\ b[1][2] = 1
        BY <1>1, <1>2, EdgeAtEnds DEF Edge
    <2>2. Len(a) < Len(j) => j[Len(a) + 1][2] = 1
        BY <1>2, <2>1
    <2> QED BY <1>1, <1>2, <2>2 DEF Edge
<1> QED BY <1>2, <1>6, <1>7 DEF j

LEMMA EncodeWhole ==
    ASSUME NEW c \in Chars
    PROVE  WellFormed(Encode(c)) /\ Len(Encode(c)) = Width[c]
<1>1. Width[c] \in Nat /\ Width[c] >= 1 /\ Width[c] <= 4
    BY Widths
<1>2. /\ Encode(c) \in Seq(Byte) /\ Len(Encode(c)) = Width[c]
      /\ \A j \in 1..Width[c] : Encode(c)[j] = <<c, j>>
    BY <1>1 DEF Encode, Byte
<1>3. ASSUME NEW i \in 1..Width[c] PROVE WholeAt(Encode(c), i)
    <2>1. Encode(c)[i] = <<c, i>> /\ Encode(c)[i][1] = c /\ Encode(c)[i][2] = i
        BY <1>2
    <2>2. i > 1 => Encode(c)[i - 1] = <<c, i - 1>>
        BY <1>1, <1>2
    <2>3. i < Width[c] => Encode(c)[i + 1] = <<c, i + 1>>
        BY <1>1, <1>2
    <2> QED BY <1>1, <1>2, <2>1, <2>2, <2>3 DEF WholeAt
<1> QED BY <1>2, <1>3, Whole

LEMMA EncodeBytes ==
    ASSUME NEW c \in Chars
    PROVE  /\ Encode(c) \in Seq(Byte) /\ Len(Encode(c)) = Width[c]
           /\ \A k \in 1..Width[c] : Encode(c)[k] = <<c, k>>
<1>1. Encode(c) \in Seq(Byte) /\ Len(Encode(c)) = Width[c]
    BY EncodeWhole, Whole
<1>2. \A k \in 1..Width[c] : Encode(c)[k] = <<c, k>>
    BY DEF Encode
<1> QED BY <1>1, <1>2

LEMMA NothingWhole == WellFormed(<<>>)
BY DEF WellFormed

-------------------------------------------------------------------------------
(* The characters of a line.                                               *)

Leads(bytes) == {i \in DOMAIN bytes : bytes[i][2] = 1}

LEMMA LeadsCollected ==
    ASSUME NEW bytes \in Seq(Byte)
    PROVE  LET firsts == Collected(Leads(bytes))
           IN  /\ Leads(bytes) \in SUBSET (1..Len(bytes))
               /\ firsts \in Seq(1..Len(bytes)) /\ Len(firsts) \in Nat
               /\ \A r \in DOMAIN firsts : firsts[r] \in Leads(bytes)
               /\ \A i \in Leads(bytes) : \E r \in DOMAIN firsts : firsts[r] = i
               /\ Decode(bytes) \in Seq(Chars) /\ Len(Decode(bytes)) = Len(firsts)
               /\ \A r \in 1..Len(firsts) : Decode(bytes)[r] = bytes[firsts[r]][1]
<1> DEFINE firsts == Collected(Leads(bytes))
<1>1. Leads(bytes) \in SUBSET (1..Len(bytes)) /\ Len(bytes) \in Nat
    BY Bytes DEF Leads
<1>2. /\ firsts \in Seq(1..Len(bytes))
      /\ DOMAIN firsts = 1..Len(firsts) /\ Len(firsts) = Cardinality(Leads(bytes))
      /\ \A r \in DOMAIN firsts : firsts[r] \in Leads(bytes)
      /\ \A i \in Leads(bytes) : \E r \in DOMAIN firsts : firsts[r] = i
    BY <1>1, CollectedPlaces
<1>3. Decode(bytes) = [r \in DOMAIN firsts |-> bytes[firsts[r]][1]]
    BY DEF Decode, Leads
<1> HIDE DEF firsts
<1>4. Len(firsts) \in Nat /\ \A r \in 1..Len(firsts) : bytes[firsts[r]][1] \in Chars
    BY <1>1, <1>2, Bytes
<1>5. /\ Decode(bytes) \in Seq(Chars) /\ Len(Decode(bytes)) = Len(firsts)
      /\ \A r \in 1..Len(firsts) : Decode(bytes)[r] = bytes[firsts[r]][1]
    BY <1>2, <1>3, <1>4
<1> QED BY <1>1, <1>2, <1>4, <1>5 DEF firsts

\* Every character of a run of bytes is that of a first byte, and every first byte has one.
LEMMA Decoded ==
    ASSUME NEW bytes \in Seq(Byte)
    PROVE  /\ Decode(bytes) \in Seq(Chars) /\ Len(Decode(bytes)) \in Nat
           /\ \A n \in 1..Len(Decode(bytes)) : \E i \in Leads(bytes) : Decode(bytes)[n] = bytes[i][1]
           /\ Leads(bytes) # {} => Decode(bytes) # <<>>
<1> DEFINE firsts == Collected(Leads(bytes))
<1>1. /\ Leads(bytes) \in SUBSET (1..Len(bytes))
      /\ firsts \in Seq(1..Len(bytes)) /\ Len(firsts) \in Nat
      /\ \A r \in DOMAIN firsts : firsts[r] \in Leads(bytes)
      /\ \A i \in Leads(bytes) : \E r \in DOMAIN firsts : firsts[r] = i
      /\ Decode(bytes) \in Seq(Chars) /\ Len(Decode(bytes)) = Len(firsts)
      /\ \A r \in 1..Len(firsts) : Decode(bytes)[r] = bytes[firsts[r]][1]
    BY LeadsCollected
<1> HIDE DEF firsts
<1>2. DOMAIN firsts = 1..Len(firsts)
    BY <1>1
<1>5. Leads(bytes) # {} => Len(firsts) # 0
    BY <1>1, <1>2
<1>6. Leads(bytes) # {} => Decode(bytes) # <<>>
    BY <1>1, <1>5
<1> QED BY <1>1, <1>2, <1>6

LEMMA DecodeJoin ==
    ASSUME NEW a \in Seq(Byte), NEW b \in Seq(Byte)
    PROVE  Decode(a \o b) = Decode(a) \o Decode(b)
<1> DEFINE j == a \o b
           p == Collected(Leads(a))
           q == Collected(Leads(b))
           v == Collected(Leads(j))
<1>1. /\ j \in Seq(Byte) /\ DOMAIN j = 1..(Len(a) + Len(b)) /\ Len(a) \in Nat /\ Len(b) \in Nat
      /\ Len(j) = Len(a) + Len(b)
      /\ \A i \in 1..Len(a) : j[i] = a[i]
      /\ \A i \in 1..Len(b) : j[Len(a) + i] = b[i]
    OBVIOUS
<1> HIDE DEF j
<1>2. /\ Leads(a) \in SUBSET (1..Len(a))
      /\ p \in Seq(1..Len(a)) /\ Len(p) \in Nat
      /\ Decode(a) \in Seq(Chars) /\ Len(Decode(a)) = Len(p)
      /\ \A r \in 1..Len(p) : Decode(a)[r] = a[p[r]][1]
    BY LeadsCollected
<1>3. /\ Leads(b) \in SUBSET (1..Len(b))
      /\ q \in Seq(1..Len(b)) /\ Len(q) \in Nat
      /\ Decode(b) \in Seq(Chars) /\ Len(Decode(b)) = Len(q)
      /\ \A r \in 1..Len(q) : Decode(b)[r] = b[q[r]][1]
    BY LeadsCollected
<1>4. /\ Leads(j) \in SUBSET (1..(Len(a) + Len(b)))
      /\ Decode(j) \in Seq(Chars) /\ Len(Decode(j)) = Len(v)
      /\ \A r \in 1..Len(v) : Decode(j)[r] = j[v[r]][1]
    BY <1>1, LeadsCollected
<1>5. /\ \A i \in 1..Len(a) : i \in Leads(j) <=> i \in Leads(a)
      /\ \A i \in 1..Len(b) : Len(a) + i \in Leads(j) <=> i \in Leads(b)
    <2>1. DOMAIN a = 1..Len(a) /\ DOMAIN b = 1..Len(b)
        OBVIOUS
    <2>2. /\ \A i \in 1..Len(a) : i \in 1..(Len(a) + Len(b))
          /\ \A i \in 1..Len(b) : Len(a) + i \in 1..(Len(a) + Len(b))
        BY <1>1
    <2> QED BY <1>1, <2>1, <2>2 DEF Leads
<1>6. /\ Len(v) = Len(p) + Len(q)
      /\ \A r \in 1..Len(p) : v[r] = p[r]
      /\ \A r \in 1..Len(q) : v[Len(p) + r] = Len(a) + q[r]
    <2> DEFINE n == Len(a)
               m == Len(b)
               P == Leads(a)
               Q == Leads(b)
               both == Leads(j)
    <2>1. /\ n \in Nat /\ m \in Nat /\ P \in SUBSET (1..n) /\ Q \in SUBSET (1..m)
          /\ both \in SUBSET (1..(n + m))
          /\ \A i \in 1..n : i \in both <=> i \in P
          /\ \A i \in 1..m : n + i \in both <=> i \in Q
        BY <1>1, <1>2, <1>3, <1>4, <1>5
    <2> HIDE DEF n, m, P, Q, both
    <2>2. /\ Len(Collected(both)) = Len(Collected(P)) + Len(Collected(Q))
          /\ \A r \in 1..Len(Collected(P)) : Collected(both)[r] = Collected(P)[r]
          /\ \A r \in 1..Len(Collected(Q)) :
                Collected(both)[Len(Collected(P)) + r] = n + Collected(Q)[r]
        BY <2>1, CollectedJoin, ZenonT(60)
    <2> QED BY <2>2 DEF n, m, P, Q, both
<1> HIDE DEF p, q, v
<1>7. /\ \A r \in 1..Len(p) : p[r] \in 1..Len(a) /\ r \in 1..Len(v)
      /\ \A r \in 1..Len(q) : q[r] \in 1..Len(b) /\ Len(p) + r \in 1..Len(v)
    BY <1>2, <1>3, <1>6
<1>8. \A r \in 1..Len(p) : Decode(j)[r] = Decode(a)[r]
    BY <1>1, <1>2, <1>4, <1>6, <1>7
<1>9. \A r \in 1..Len(q) : Decode(j)[Len(p) + r] = Decode(b)[r]
    <2>1. TAKE r \in 1..Len(q)
    <2>2. Decode(j)[Len(p) + r] = j[v[Len(p) + r]][1]
        BY <1>4, <1>7
    <2>3. j[v[Len(p) + r]] = b[q[r]]
        BY <1>1, <1>6, <1>7
    <2> QED BY <1>3, <2>2, <2>3
<1> DEFINE w == Decode(a) \o Decode(b)
<1>10. /\ w \in Seq(Chars) /\ Len(w) = Len(p) + Len(q)
       /\ \A r \in 1..Len(p) : w[r] = Decode(a)[r]
       /\ \A r \in 1..Len(q) : w[Len(p) + r] = Decode(b)[r]
    <2>1. \A x, y \in Seq(Chars) :
              /\ x \o y \in Seq(Chars) /\ Len(x \o y) = Len(x) + Len(y)
              /\ \A r \in 1..Len(x) : (x \o y)[r] = x[r]
              /\ \A r \in 1..Len(y) : (x \o y)[Len(x) + r] = y[r]
        BY Joined
    <2>2. ASSUME NEW x \in Seq(Chars), NEW y \in Seq(Chars), Len(x) = Len(p), Len(y) = Len(q)
          PROVE  /\ x \o y \in Seq(Chars) /\ Len(x \o y) = Len(p) + Len(q)
                 /\ \A r \in 1..Len(p) : (x \o y)[r] = x[r]
                 /\ \A r \in 1..Len(q) : (x \o y)[Len(p) + r] = y[r]
        <3>1. /\ x \o y \in Seq(Chars) /\ Len(x \o y) = Len(x) + Len(y)
              /\ \A r \in 1..Len(x) : (x \o y)[r] = x[r]
              /\ \A r \in 1..Len(y) : (x \o y)[Len(x) + r] = y[r]
            BY <2>1
        <3> QED BY <3>1, <2>2, Zenon
    <2>3. /\ Decode(a) \in Seq(Chars) /\ Decode(b) \in Seq(Chars)
          /\ Len(Decode(a)) = Len(p) /\ Len(Decode(b)) = Len(q)
        BY <1>2, <1>3
    <2> QED BY <2>2, <2>3, Zenon
<1> HIDE DEF w
<1>11. ASSUME NEW r \in 1..(Len(p) + Len(q)) PROVE Decode(j)[r] = w[r]
    <2>1. CASE r <= Len(p)
        <3>1. r \in 1..Len(p)
            BY <1>2, <1>3, <2>1
        <3> QED BY <1>8, <1>10, <3>1
    <2>2. CASE r > Len(p)
        <3>1. r - Len(p) \in 1..Len(q) /\ r = Len(p) + (r - Len(p))
            BY <1>2, <1>3, <2>2
        <3> QED BY <1>9, <1>10, <3>1
    <2> QED BY <1>2, <1>3, <2>1, <2>2
<1>12. Decode(j) = w
    BY <1>4, <1>6, <1>10, <1>11, SameList
<1> QED BY <1>12 DEF j, w

LEMMA DecodeNothing == Decode(<<>>) = <<>>
<1>1. <<>> \in Seq(Byte) /\ Leads(<<>>) = {}
    BY DEF Leads
<1>2. Decode(<<>>) \in Seq(Chars) /\ Len(Decode(<<>>)) \in Nat
      /\ \A n \in 1..Len(Decode(<<>>)) : \E i \in Leads(<<>>) : Decode(<<>>)[n] = <<>>[i][1]
    BY <1>1, Decoded
<1>3. Len(Decode(<<>>)) = 0
    BY <1>1, <1>2
<1> QED BY <1>2, <1>3

LEMMA DecodeCharacter == ASSUME NEW c \in Chars PROVE Decode(Encode(c)) = <<c>>
<1> DEFINE one == <<1>>
<1>1. Width[c] \in Nat /\ Width[c] >= 1 /\ Encode(c) \in Seq(Byte) /\ Len(Encode(c)) = Width[c]
    BY EncodeWhole, Widths, Whole
<1>2. \A j \in 1..Width[c] : Encode(c)[j] = <<c, j>>
    BY DEF Encode
<1>3. Leads(Encode(c)) = {1}
    BY <1>1, <1>2 DEF Leads
<1>4. one \in Seq(Int) /\ DOMAIN one = {1} /\ Len(one) = 1 /\ one[1] = 1
    OBVIOUS
<1> HIDE DEF one
<1>5. one = Collected({1})
    <2>1. Ascending(one)
        BY <1>4 DEF Ascending
    <2>2. {1} \in SUBSET (1..1) /\ 1 \in Nat
        OBVIOUS
    <2> QED BY <1>4, <2>1, <2>2, OnlyCollected
<1>6. /\ Decode(Encode(c)) \in Seq(Chars) /\ Len(Decode(Encode(c))) = Len(one)
      /\ \A r \in 1..Len(one) : Decode(Encode(c))[r] = Encode(c)[one[r]][1]
    <2>1. \A x \in Seq(Byte) :
              /\ Decode(x) \in Seq(Chars) /\ Len(Decode(x)) = Len(Collected(Leads(x)))
              /\ \A r \in 1..Len(Collected(Leads(x))) : Decode(x)[r] = x[Collected(Leads(x))[r]][1]
        BY LeadsCollected
    <2>2. Collected(Leads(Encode(c))) = one
        BY <1>3, <1>5
    <2> QED BY <1>1, <2>1, <2>2, Zenon
<1>7. Encode(c)[1][1] = c
    BY <1>1, <1>2
<1> QED BY <1>4, <1>6, <1>7

-------------------------------------------------------------------------------
(* The operations.                                                         *)

LEMMA SpliceWhole ==
    ASSUME OnBoundary, NEW f, NEW l, Edge(value, f), Edge(value, l),
           NEW bytes, WellFormed(bytes), Splice(f, l, bytes)
    PROVE  WellFormed(value') /\ Edge(value', f) /\ Edge(value', f + Len(bytes))
<1> DEFINE head == SubSeq(value, 1, f)
           tail == SubSeq(value, l + 1, Len(value))
<1>1. WellFormed(value) /\ value' = head \o bytes \o tail
    BY DEF OnBoundary, Splice
<1>2. WellFormed(head) /\ Len(head) = f /\ WellFormed(tail)
    BY <1>1, PrefixWhole, SuffixWhole
<1> HIDE DEF head, tail
<1>3. /\ head \in Seq(Byte) /\ bytes \in Seq(Byte) /\ tail \in Seq(Byte)
      /\ Len(bytes) \in Nat /\ f \in Nat
    BY <1>2, Whole, Bytes
<1>4. (head \o bytes) \o tail = head \o (bytes \o tail)
    BY <1>3
<1>5. WellFormed(head \o bytes) /\ Len(head \o bytes) = f + Len(bytes) /\ WellFormed(bytes \o tail)
    BY <1>2, JoinWhole
<1>6. WellFormed(value') /\ Edge(value', f + Len(bytes))
    BY <1>1, <1>2, <1>5, JoinWhole
<1>7. Edge(value', f)
    BY <1>1, <1>2, <1>4, <1>5, JoinWhole
<1> QED BY <1>6, <1>7

LEMMA BoundaryIsEdge == \A i : Boundary(i) <=> Edge(value, i)
BY DEF Boundary, Edge

LEMMA MovedOnBoundary ==
    ASSUME OnBoundary, Edge(value', cursor'), WellFormed(value')
    PROVE  OnBoundary'
BY DEF OnBoundary, Boundary, Edge

LEMMA ClearOnBoundary == Clear => OnBoundary' /\ WellFormed(value')
<1> SUFFICES ASSUME Clear PROVE OnBoundary' /\ WellFormed(value')
    OBVIOUS
<1>1. value' = <<>> /\ cursor' = 0
    BY DEF Clear
<1>2. WellFormed(value') /\ Edge(value', cursor')
    BY <1>1, NothingWhole, EdgeAtEnds
<1> QED BY <1>2 DEF OnBoundary, Boundary, Edge

LEMMA LoadOnBoundary ==
    ASSUME NEW bytes, WellFormed(bytes), WithValue(bytes)
    PROVE  OnBoundary'
<1>1. value' = bytes /\ cursor' = Len(bytes)
    BY DEF WithValue
<1>2. WellFormed(value') /\ Edge(value', cursor')
    BY <1>1, EdgeAtEnds
<1> QED BY <1>2 DEF OnBoundary, Boundary, Edge

LEMMA MoveOnBoundary == OnBoundary /\ Move => OnBoundary' /\ UNCHANGED value
<1> SUFFICES ASSUME OnBoundary, Move PROVE OnBoundary' /\ UNCHANGED value
    OBVIOUS
<1>1. WellFormed(value) /\ Edge(value, cursor)
    BY BoundaryIsEdge DEF OnBoundary
<1>2. UNCHANGED value
    BY DEF Move, Left, Right, Home, End
<1>3. Edge(value, cursor')
    <2>1. CASE Left
        BY <2>1, BoundaryIsEdge DEF Left, PrevBoundary
    <2>2. CASE Right
        BY <1>1, <2>2, CharacterAt DEF Right, NextBoundary
    <2>3. CASE Home \/ End
        BY <1>1, <2>3, EdgeAtEnds DEF Home, End
    <2> QED BY <2>1, <2>2, <2>3 DEF Move
<1> QED BY <1>1, <1>2, <1>3, MovedOnBoundary

LEMMA EditOnBoundary == OnBoundary /\ Edit => OnBoundary' /\ WellFormed(value')
<1> SUFFICES ASSUME OnBoundary, Edit PROVE WellFormed(value') /\ Edge(value', cursor')
    BY MovedOnBoundary
<1>1. WellFormed(value) /\ Edge(value, cursor) /\ Len(value) \in Nat
    BY BoundaryIsEdge, Whole, Bytes DEF OnBoundary
<1>2. Len(<<>>) = 0 /\ WellFormed(<<>>)
    BY NothingWhole
<1>3. ASSUME NEW c \in Chars, Insert(c) PROVE WellFormed(value') /\ Edge(value', cursor')
    BY <1>1, <1>3, EncodeWhole, SpliceWhole DEF Insert
<1>4. CASE Backspace
    <2>1. PICK i \in 0..Len(value) :
              /\ PrevBoundary(i)
              /\ Splice(i, i + Width[value[i + 1][1]], <<>>)
              /\ cursor' = i
        BY <1>4 DEF Backspace
    <2>2. Edge(value, i) /\ i < Len(value)
        BY <1>1, <2>1, BoundaryIsEdge DEF PrevBoundary, Edge
    <2>3. Edge(value, i + Width[value[i + 1][1]])
        BY <1>1, <2>2, CharacterAt
    <2> QED BY <1>2, <2>1, <2>2, <2>3, SpliceWhole
<1>5. CASE Delete
    <2>1. PICK i \in 0..Len(value) :
              NextBoundary(i) /\ Splice(cursor, i, <<>>) /\ cursor' = cursor
        BY <1>5 DEF Delete
    <2>2. Edge(value, i)
        BY <1>1, <2>1, CharacterAt DEF NextBoundary
    <2> QED BY <1>1, <1>2, <2>1, <2>2, SpliceWhole
<1>6. CASE DeleteWord
    <2>1. PICK start \in 0..cursor, stop \in 0..cursor :
              /\ TrimEnd(stop) /\ WordStart(start, stop)
              /\ Splice(start, cursor, <<>>)
              /\ cursor' = start
        BY <1>6 DEF DeleteWord
    <2>2. Edge(value, start)
        <3>1. CASE start = 0
            BY <1>1, <3>1, EdgeAtEnds
        <3>2. ASSUME NEW i \in 0..(stop - 1), value[i + 1][2] = 1,
                     start = i + Width[value[i + 1][1]]
              PROVE  Edge(value, start)
            <4>1. cursor \in 0..Len(value)
                BY <1>1 DEF Edge
            <4>2. i \in 0..Len(value) /\ i < Len(value)
                BY <1>1, <4>1
            <4>3. Edge(value, i)
                BY <3>2, <4>2 DEF Edge
            <4> QED BY <1>1, <3>2, <4>2, <4>3, CharacterAt
        <3> QED BY <2>1, <3>1, <3>2 DEF WordStart
    <2> QED BY <1>1, <1>2, <2>1, <2>2, SpliceWhole
<1>7. CASE DeleteToStart
    <2>1. Splice(0, cursor, <<>>) /\ cursor' = 0
        BY <1>7 DEF DeleteToStart
    <2> QED BY <1>1, <1>2, <2>1, EdgeAtEnds, SpliceWhole
<1> QED BY <1>3, <1>4, <1>5, <1>6, <1>7 DEF Edit

-------------------------------------------------------------------------------
(* The editor moves a cursor between characters.                           *)

Before == Decode(SubSeq(value, 1, cursor))
After == Decode(SubSeq(value, cursor + 1, Len(value)))

\* A line cut in two.
LEMMA CutInTwo ==
    ASSUME NEW bytes \in Seq(Byte), NEW i \in 0..Len(bytes)
    PROVE  /\ SubSeq(bytes, 1, i) \in Seq(Byte) /\ Len(SubSeq(bytes, 1, i)) = i
           /\ SubSeq(bytes, i + 1, Len(bytes)) \in Seq(Byte)
           /\ bytes = SubSeq(bytes, 1, i) \o SubSeq(bytes, i + 1, Len(bytes))
<1>1. i \in Nat /\ Len(bytes) \in Nat /\ i <= Len(bytes)
    OBVIOUS
<1>2. /\ SubSeq(bytes, 0 + 1, Len(bytes)) = SubSeq(bytes, 0 + 1, i) \o SubSeq(bytes, i + 1, Len(bytes))
      /\ SubSeq(bytes, 0 + 1, i) \in Seq(Byte) /\ Len(SubSeq(bytes, 0 + 1, i)) = i - 0
      /\ SubSeq(bytes, i + 1, Len(bytes)) \in Seq(Byte)
    <2>1. /\ 0 \in 0..Len(bytes) /\ i \in 0..Len(bytes) /\ Len(bytes) \in i..Len(bytes)
          /\ i \in i..Len(bytes)
        BY <1>1
    <2>2. SubSeq(bytes, 0 + 1, Len(bytes)) = SubSeq(bytes, 0 + 1, i) \o SubSeq(bytes, i + 1, Len(bytes))
        BY <2>1, Cut, Zenon
    <2>3. SubSeq(bytes, 0 + 1, i) \in Seq(Byte) /\ Len(SubSeq(bytes, 0 + 1, i)) = i - 0
        BY <2>1, Part, Zenon
    <2>4. SubSeq(bytes, i + 1, Len(bytes)) \in Seq(Byte)
        BY <2>1, Part, Zenon
    <2> QED BY <2>2, <2>3, <2>4
<1>3. 0 + 1 = 1 /\ i - 0 = i /\ SubSeq(bytes, 1, Len(bytes)) = bytes
    BY <1>1
<1> QED BY <1>2, <1>3

LEMMA LineDecoded ==
    ASSUME OnBoundary
    PROVE  /\ Before \in Seq(Chars) /\ After \in Seq(Chars)
           /\ Decode(value) = Before \o After
           /\ cursor \in 0..Len(value) /\ value \in Seq(Byte)
<1>1. value \in Seq(Byte) /\ cursor \in 0..Len(value)
    BY Whole DEF OnBoundary, Boundary
<1> DEFINE x == SubSeq(value, 1, cursor)
           y == SubSeq(value, cursor + 1, Len(value))
<1>2. x \in Seq(Byte) /\ y \in Seq(Byte) /\ value = x \o y
    BY <1>1, CutInTwo
<1> HIDE DEF x, y
<1>3. Decode(x) \in Seq(Chars) /\ Decode(y) \in Seq(Chars) /\ Decode(value) = Decode(x) \o Decode(y)
    BY <1>2, Decoded, DecodeJoin
<1> QED BY <1>1, <1>3 DEF x, y, Before, After

\* The character behind an edge is the next one after those before it.
LEMMA StepOver ==
    ASSUME NEW bytes, NEW i, NEW j, WellFormed(bytes), Edge(bytes, i), i < Len(bytes),
           j = i + Width[bytes[i + 1][1]]
    PROVE  /\ bytes[i + 1][1] \in Chars /\ j \in (i + 1)..Len(bytes) /\ Edge(bytes, j)
           /\ Decode(SubSeq(bytes, 1, j)) = Append(Decode(SubSeq(bytes, 1, i)), bytes[i + 1][1])
           /\ Decode(SubSeq(bytes, i + 1, Len(bytes)))
                  = <<bytes[i + 1][1]>> \o Decode(SubSeq(bytes, j + 1, Len(bytes)))
<1> DEFINE c == bytes[i + 1][1]
<1>1. bytes \in Seq(Byte) /\ Len(bytes) \in Nat /\ i \in 0..Len(bytes) /\ i + 1 \in 1..Len(bytes) /\ c \in Chars
    BY Whole, Bytes DEF Edge
<1>2. Width[c] \in Nat /\ Width[c] >= 1
    BY <1>1, Widths
<1>3. Edge(bytes, j) /\ \A k \in 1..Width[c] : bytes[i + k] = <<c, k>>
    BY CharacterAt
<1>j. j = i + Width[c]
    OBVIOUS
<1> HIDE DEF c
<1>4. j \in (i + 1)..Len(bytes) /\ j - i = Width[c]
    BY <1>1, <1>2, <1>3, <1>j DEF Edge
<1> DEFINE head == SubSeq(bytes, 0 + 1, i)
           char == SubSeq(bytes, i + 1, j)
           tail == SubSeq(bytes, j + 1, Len(bytes))
<1>5. /\ 0 \in 0..Len(bytes) /\ i \in 0..Len(bytes) /\ i \in i..Len(bytes) /\ j \in i..Len(bytes)
      /\ j \in 0..Len(bytes) /\ j \in j..Len(bytes) /\ Len(bytes) \in j..Len(bytes)
      /\ Len(bytes) \in Len(bytes)..Len(bytes)
    BY <1>1, <1>4
<1>6. /\ head \in Seq(Byte) /\ tail \in Seq(Byte)
      /\ char \in Seq(Byte) /\ Len(char) = j - i /\ \A k \in 1..(j - i) : char[k] = bytes[i + k]
    <2>1. head \in Seq(Byte)
        BY <1>1, <1>5, Part, Zenon
    <2>2. tail \in Seq(Byte)
        BY <1>1, <1>5, Part, Zenon
    <2>3. char \in Seq(Byte) /\ Len(char) = j - i /\ \A k \in 1..(j - i) : char[k] = bytes[i + k]
        BY <1>1, <1>5, Part, Zenon
    <2> QED BY <2>1, <2>2, <2>3
<1>c. SubSeq(bytes, 0 + 1, j) = head \o char /\ SubSeq(bytes, i + 1, Len(bytes)) = char \o tail
    <2>1. SubSeq(bytes, 0 + 1, j) = head \o char
        BY <1>1, <1>5, Cut, Zenon
    <2>2. SubSeq(bytes, i + 1, Len(bytes)) = char \o tail
        BY <1>1, <1>5, Cut, Zenon
    <2> QED BY <2>1, <2>2
<1> HIDE DEF head, char, tail
<1>7. char = Encode(c)
    <2>1. /\ Encode(c) \in Seq(Byte) /\ Len(Encode(c)) = Width[c]
          /\ \A k \in 1..Width[c] : Encode(c)[k] = <<c, k>>
        BY <1>1, EncodeBytes, Zenon
    <2>2. Len(char) = Width[c] /\ \A k \in 1..Width[c] : char[k] = <<c, k>>
        BY <1>3, <1>4, <1>6
    <2>3. char \in Seq(Byte) /\ Len(char) = Len(Encode(c)) /\ \A k \in 1..Len(char) : char[k] = Encode(c)[k]
        BY <1>6, <2>1, <2>2
    <2> QED BY <2>1, <2>3, SameList
<1>8. Decode(char) = <<c>>
    BY <1>1, <1>7, DecodeCharacter
<1>9. Decode(head \o char) = Append(Decode(head), c)
    <2>1. Decode(head) \in Seq(Chars) /\ Decode(head \o char) = Decode(head) \o <<c>>
        BY <1>6, <1>8, Decoded, DecodeJoin
    <2> QED BY <1>1, <2>1
<1>10. Decode(char \o tail) = <<c>> \o Decode(tail)
    BY <1>6, <1>8, DecodeJoin
<1>11. 0 + 1 = 1
    OBVIOUS
<1> QED BY <1>1, <1>3, <1>4, <1>c, <1>9, <1>10, <1>11 DEF head, tail, c

\* The cursor is behind the character that prev_boundary finds.
LEMMA CharacterBefore ==
    ASSUME OnBoundary, NEW i, PrevBoundary(i)
    PROVE  Edge(value, i) /\ i < Len(value) /\ cursor = i + Width[value[i + 1][1]]
<1> DEFINE c == value[i + 1][1]
           n == Width[c]
<1>1. WellFormed(value) /\ Edge(value, cursor) /\ Edge(value, i) /\ i < cursor
    BY BoundaryIsEdge DEF OnBoundary, PrevBoundary
<1>2. i \in Nat /\ cursor \in 0..Len(value) /\ Len(value) \in Nat /\ i < Len(value)
    BY <1>1, Whole, Bytes DEF Edge
<1>3. /\ Edge(value, i + n)
      /\ \A k \in 1..n : value[i + k] = <<c, k>>
    BY <1>1, <1>2, CharacterAt
<1>4. n \in Nat /\ n >= 1
    <2>1. i + 1 \in 1..Len(value)
        BY <1>2
    <2>2. c \in Chars
        BY <1>1, <2>1, Whole, Bytes
    <2> QED BY <2>2, Widths
<1> HIDE DEF c, n
<1>5. ~(i + n < cursor)
    <2>1. SUFFICES ASSUME i + n < cursor PROVE FALSE
        OBVIOUS
    <2>2. i + n \in (i + 1)..(cursor - 1)
        BY <1>2, <1>4, <2>1
    <2> QED BY <1>3, <2>2, BoundaryIsEdge DEF PrevBoundary
<1>6. ~(cursor < i + n)
    <2>1. SUFFICES ASSUME cursor < i + n PROVE FALSE
        OBVIOUS
    <2> DEFINE k == (cursor - i) + 1
    <2>2. k \in 1..n /\ i + k = cursor + 1 /\ k # 1
        BY <1>1, <1>2, <1>4, <2>1
    <2> HIDE DEF k
    <2>3. value[cursor + 1] = <<c, k>>
        BY <1>3, <2>2
    <2>4. cursor < Len(value)
        BY <1>2, <1>3, <1>4, <2>1 DEF Edge
    <2> QED BY <1>1, <2>2, <2>3, <2>4 DEF Edge
<1>7. cursor = i + n
    BY <1>2, <1>4, <1>5, <1>6
<1> QED BY <1>1, <1>2, <1>7 DEF c, n

\* What an edit leaves on either side of the cursor.
LEMMA Spliced ==
    ASSUME OnBoundary, NEW f, NEW l, Edge(value, f), Edge(value, l),
           NEW bytes, WellFormed(bytes), Splice(f, l, bytes), cursor' = f + Len(bytes)
    PROVE  /\ Before' = Decode(SubSeq(value, 1, f)) \o Decode(bytes)
           /\ After' = Decode(SubSeq(value, l + 1, Len(value)))
<1> DEFINE head == SubSeq(value, 1, f)
           tail == SubSeq(value, l + 1, Len(value))
<1>1. value \in Seq(Byte) /\ f \in 0..Len(value) /\ l \in 0..Len(value) /\ bytes \in Seq(Byte)
    BY Whole DEF OnBoundary, Edge
<1>2. head \in Seq(Byte) /\ Len(head) = f /\ tail \in Seq(Byte)
    BY <1>1, CutInTwo
<1>3. value' = (head \o bytes) \o tail
    BY DEF Splice
<1> HIDE DEF head, tail
<1>4. /\ head \o bytes \in Seq(Byte) /\ Len(head \o bytes) = cursor'
    BY <1>1, <1>2, Joined
<1> DEFINE left == head \o bytes
<1>5. SubSeq(left \o tail, 1, Len(left)) = left /\ SubSeq(left \o tail, Len(left) + 1, Len(left \o tail)) = tail
    <2>1. left \in Seq(Byte)
        BY <1>4
    <2> HIDE DEF left
    <2>2. /\ left \o tail \in Seq(Byte) /\ Len(left \o tail) = Len(left) + Len(tail)
          /\ \A i \in 1..Len(left) : (left \o tail)[i] = left[i]
          /\ \A i \in 1..Len(tail) : (left \o tail)[Len(left) + i] = tail[i]
          /\ Len(left) \in Nat /\ Len(tail) \in Nat
        BY <1>2, <2>1, Joined, SeqFacts
    <2> QED BY <1>2, <2>1, <2>2
<1>6. SubSeq(value', 1, cursor') = left /\ SubSeq(value', cursor' + 1, Len(value')) = tail
    BY <1>3, <1>4, <1>5
<1>7. Decode(left) = Decode(head) \o Decode(bytes)
    BY <1>1, <1>2, DecodeJoin
<1> QED BY <1>6, <1>7 DEF Before, After, head, tail

LEMMA LastOf ==
    ASSUME NEW s \in Seq(Chars), NEW c \in Chars
    PROVE  /\ Append(s, c) # <<>> /\ SubSeq(Append(s, c), 1, Len(Append(s, c)) - 1) = s
           /\ Append(s, c)[Len(Append(s, c))] = c
OBVIOUS

LEMMA FirstOf ==
    ASSUME NEW s \in Seq(Chars), NEW c \in Chars
    PROVE  <<c>> \o s # <<>> /\ Head(<<c>> \o s) = c /\ Tail(<<c>> \o s) = s
<1> DEFINE j == <<c>> \o s
<1>1. /\ j \in Seq(Chars) /\ Len(j) = 1 + Len(s) /\ j[1] = c
      /\ \A i \in 1..Len(s) : j[1 + i] = s[i]
    OBVIOUS
<1> HIDE DEF j
<1>2. j # <<>> /\ Head(j) = c /\ Tail(j) \in Seq(Chars) /\ Len(Tail(j)) = Len(s)
      /\ \A i \in 1..Len(s) : Tail(j)[i] = j[1 + i]
    BY <1>1
<1>3. Tail(j) = s
    BY <1>1, <1>2, SameList
<1> QED BY <1>2, <1>3 DEF j

\* Nothing is added to the text before the cursor where nothing is put in.
LEMMA Removed ==
    ASSUME OnBoundary, NEW f, NEW l, Edge(value, f), Edge(value, l),
           Splice(f, l, <<>>), cursor' = f
    PROVE  /\ Before' = Decode(SubSeq(value, 1, f))
           /\ After' = Decode(SubSeq(value, l + 1, Len(value)))
<1>1. f \in Nat /\ value \in Seq(Byte) /\ f \in 0..Len(value)
    BY Whole DEF Edge, OnBoundary
<1>2. cursor' = f + Len(<<>>)
    BY <1>1
<1>3. /\ Before' = Decode(SubSeq(value, 1, f)) \o Decode(<<>>)
      /\ After' = Decode(SubSeq(value, l + 1, Len(value)))
    BY <1>2, NothingWhole, Spliced
<1>4. Decode(SubSeq(value, 1, f)) \in Seq(Chars)
    BY <1>1, CutInTwo, Decoded
<1> QED BY <1>3, <1>4, DecodeNothing

LEMMA InsertFollows ==
    ASSUME OnBoundary, NEW c \in Chars, Insert(c)
    PROVE  Cursor!Insert(c)
<1>1. Edge(value, cursor) /\ Splice(cursor, cursor, Encode(c)) /\ cursor' = cursor + Len(Encode(c))
    BY BoundaryIsEdge, EncodeWhole DEF OnBoundary, Insert
<1>2. Before' = Before \o Decode(Encode(c)) /\ After' = After
    <2>1. /\ Before' = Decode(SubSeq(value, 1, cursor)) \o Decode(Encode(c))
          /\ After' = Decode(SubSeq(value, cursor + 1, Len(value)))
        BY <1>1, EncodeWhole, Spliced
    <2> QED BY <2>1 DEF Before, After
<1>3. Before' = Append(Before, c)
    <2>1. Decode(Encode(c)) = <<c>> /\ Before \in Seq(Chars)
        BY LineDecoded, DecodeCharacter
    <2> HIDE DEF Before
    <2>2. \A s \in Seq(Chars) : s \o <<c>> = Append(s, c)
        OBVIOUS
    <2> QED BY <1>2, <2>1, <2>2, Zenon
<1> QED BY <1>2, <1>3 DEF Cursor!Insert, Before, After

LEMMA BackspaceFollows ==
    ASSUME OnBoundary, Backspace
    PROVE  Cursor!Backspace
<1>1. PICK i \in 0..Len(value) :
          PrevBoundary(i) /\ Splice(i, i + Width[value[i + 1][1]], <<>>) /\ cursor' = i
    BY DEF Backspace
<1> DEFINE c == value[i + 1][1]
<1>2. WellFormed(value) /\ Edge(value, cursor) /\ Edge(value, i) /\ i < Len(value) /\ cursor = i + Width[c]
    BY <1>1, CharacterBefore, BoundaryIsEdge DEF OnBoundary
<1>3. Before' = Decode(SubSeq(value, 1, i)) /\ After' = After
    BY <1>1, <1>2, Removed DEF After
<1>4. c \in Chars /\ Before = Append(Decode(SubSeq(value, 1, i)), c)
    BY <1>2, StepOver DEF Before
<1>5. Decode(SubSeq(value, 1, i)) \in Seq(Chars)
    BY LineDecoded, CutInTwo, Decoded
<1> HIDE DEF c
<1>6. Before # <<>> /\ Before' = SubSeq(Before, 1, Len(Before) - 1)
    BY <1>3, <1>4, <1>5, LastOf
<1> QED BY <1>3, <1>6 DEF Cursor!Backspace, Cursor!Front, Before, After

LEMMA DeleteFollows ==
    ASSUME OnBoundary, Delete
    PROVE  Cursor!Delete
<1>1. PICK i \in 0..Len(value) : NextBoundary(i) /\ Splice(cursor, i, <<>>) /\ cursor' = cursor
    BY DEF Delete
<1> DEFINE c == value[cursor + 1][1]
<1>2. WellFormed(value) /\ Edge(value, cursor) /\ cursor < Len(value) /\ i = cursor + Width[c]
    BY <1>1, BoundaryIsEdge DEF OnBoundary, NextBoundary
<1>3. c \in Chars /\ Edge(value, i) /\ After = <<c>> \o Decode(SubSeq(value, i + 1, Len(value)))
    BY <1>2, StepOver DEF After
<1>4. Before' = Before /\ After' = Decode(SubSeq(value, i + 1, Len(value)))
    BY <1>1, <1>2, <1>3, Removed DEF Before
<1>5. Decode(SubSeq(value, i + 1, Len(value))) \in Seq(Chars)
    BY LineDecoded, CutInTwo, Decoded
<1> HIDE DEF c
<1>6. After # <<>> /\ After' = Tail(After)
    BY <1>3, <1>4, <1>5, FirstOf
<1> QED BY <1>4, <1>6 DEF Cursor!Delete, Before, After

LEMMA DeleteToStartFollows ==
    ASSUME OnBoundary, DeleteToStart
    PROVE  Cursor!DeleteToStart
<1>1. Splice(0, cursor, <<>>) /\ cursor' = 0
    BY DEF DeleteToStart
<1>2. WellFormed(value) /\ Edge(value, cursor) /\ Edge(value, 0)
    BY BoundaryIsEdge, EdgeAtEnds DEF OnBoundary
<1>3. Before' = Decode(SubSeq(value, 1, 0)) /\ After' = After
    BY <1>1, <1>2, Removed DEF After
<1>4. SubSeq(value, 1, 0) = <<>>
    BY LineDecoded
<1> QED BY <1>3, <1>4, DecodeNothing DEF Cursor!DeleteToStart, Before, After

LEMMA MoveFollows ==
    ASSUME OnBoundary, Move
    PROVE  Cursor!Left \/ Cursor!Right \/ Cursor!Home \/ Cursor!End
<1>0. WellFormed(value) /\ Edge(value, cursor) /\ value' = value
    BY BoundaryIsEdge, MoveOnBoundary DEF OnBoundary
<1>1. /\ Before' = Decode(SubSeq(value, 1, cursor'))
      /\ After' = Decode(SubSeq(value, cursor' + 1, Len(value)))
    BY <1>0 DEF Before, After
<1>2. CASE Left
    <2>1. PICK i \in 0..Len(value) : PrevBoundary(i) /\ cursor' = i
        BY <1>2 DEF Left
    <2> DEFINE c == value[i + 1][1]
    <2>2. Edge(value, i) /\ i < Len(value) /\ cursor = i + Width[c]
        BY <2>1, CharacterBefore
    <2>3. /\ c \in Chars
          /\ Before = Append(Decode(SubSeq(value, 1, i)), c)
          /\ Decode(SubSeq(value, i + 1, Len(value))) = <<c>> \o After
        BY <1>0, <2>2, StepOver DEF Before, After
    <2>4. Decode(SubSeq(value, 1, i)) \in Seq(Chars)
        BY LineDecoded, CutInTwo, Decoded
    <2> HIDE DEF c
    <2>5. /\ Before # <<>> /\ Before' = SubSeq(Before, 1, Len(Before) - 1)
          /\ After' = <<Before[Len(Before)]>> \o After
        BY <1>1, <2>1, <2>3, <2>4, LastOf
    <2> QED BY <2>5 DEF Cursor!Left, Cursor!Front, Cursor!Last, Before, After
<1>3. CASE Right
    <2>1. PICK i \in 0..Len(value) : NextBoundary(i) /\ cursor' = i
        BY <1>3 DEF Right
    <2> DEFINE c == value[cursor + 1][1]
    <2>2. cursor < Len(value) /\ i = cursor + Width[c]
        BY <2>1 DEF NextBoundary
    <2>3. /\ c \in Chars
          /\ Decode(SubSeq(value, 1, i)) = Append(Before, c)
          /\ After = <<c>> \o Decode(SubSeq(value, i + 1, Len(value)))
        BY <1>0, <2>2, StepOver DEF Before, After
    <2>4. Decode(SubSeq(value, i + 1, Len(value))) \in Seq(Chars)
        BY LineDecoded, CutInTwo, Decoded
    <2> HIDE DEF c
    <2>5. After # <<>> /\ Before' = Append(Before, Head(After)) /\ After' = Tail(After)
        BY <1>1, <2>1, <2>3, <2>4, FirstOf
    <2> QED BY <2>5 DEF Cursor!Right, Before, After
<1>4. value \in Seq(Byte) /\ Len(value) \in Nat /\ Decode(value) = Before \o After
    BY LineDecoded, Bytes
<1>5. CASE Home
    <2>1. cursor' = 0
        BY <1>5 DEF Home
    <2>2. SubSeq(value, 1, 0) = <<>> /\ SubSeq(value, 0 + 1, Len(value)) = value
        BY <1>4
    <2>3. Before' = <<>> /\ After' = Before \o After
        BY <1>1, <1>4, <2>1, <2>2, DecodeNothing
    <2> QED BY <2>3 DEF Cursor!Home, Cursor!text, Before, After
<1>6. CASE End
    <2>1. cursor' = Len(value)
        BY <1>6 DEF End
    <2>2. SubSeq(value, 1, Len(value)) = value /\ SubSeq(value, Len(value) + 1, Len(value)) = <<>>
        BY <1>4
    <2>3. Before' = Before \o After /\ After' = <<>>
        BY <1>1, <1>4, <2>1, <2>2, DecodeNothing
    <2> QED BY <2>3 DEF Cursor!End, Cursor!text, Before, After
<1> QED BY <1>2, <1>3, <1>5, <1>6 DEF Move

\* A part of the line has the characters whose first bytes are in it.
LEMMA PartDecoded ==
    ASSUME NEW bytes \in Seq(Byte), NEW f \in 0..Len(bytes), NEW l \in f..Len(bytes)
    PROVE  /\ SubSeq(bytes, f + 1, l) \in Seq(Byte)
           /\ Decode(SubSeq(bytes, f + 1, l)) \in Seq(Chars)
           /\ \A n \in 1..Len(Decode(SubSeq(bytes, f + 1, l))) :
                 \E k \in (f + 1)..l :
                    bytes[k][2] = 1 /\ Decode(SubSeq(bytes, f + 1, l))[n] = bytes[k][1]
           /\ f < l /\ bytes[f + 1][2] = 1 => Decode(SubSeq(bytes, f + 1, l)) # <<>>
<1> DEFINE p == SubSeq(bytes, f + 1, l)
<1>1. /\ p \in Seq(Byte) /\ Len(p) = l - f
      /\ \A i \in 1..(l - f) : p[i] = bytes[f + i]
    BY Part
<1>2. f \in Nat /\ l \in Nat /\ f <= l
    OBVIOUS
<1> HIDE DEF p
<1>3. DOMAIN p = 1..(l - f)
    BY <1>1
<1>4. /\ Decode(p) \in Seq(Chars)
      /\ \A n \in 1..Len(Decode(p)) : \E i \in Leads(p) : Decode(p)[n] = p[i][1]
      /\ Leads(p) # {} => Decode(p) # <<>>
    BY <1>1, Decoded
<1>5. ASSUME NEW i \in Leads(p)
      PROVE  \E k \in (f + 1)..l : bytes[k][2] = 1 /\ p[i][1] = bytes[k][1]
    <2>1. i \in 1..(l - f) /\ p[i][2] = 1
        BY <1>3 DEF Leads
    <2>2. f + i \in (f + 1)..l /\ p[i] = bytes[f + i]
        BY <1>1, <1>2, <2>1
    <2> QED BY <2>1, <2>2
<1>6. f < l /\ bytes[f + 1][2] = 1 => Leads(p) # {}
    <2>1. SUFFICES ASSUME f < l, bytes[f + 1][2] = 1 PROVE 1 \in Leads(p)
        OBVIOUS
    <2>2. 1 \in 1..(l - f)
        BY <1>2, <2>1
    <2> QED BY <1>1, <1>3, <2>1, <2>2 DEF Leads
<1>7. \A n \in 1..Len(Decode(p)) :
          \E k \in (f + 1)..l : bytes[k][2] = 1 /\ Decode(p)[n] = bytes[k][1]
    BY <1>4, <1>5
<1> QED BY <1>1, <1>4, <1>6, <1>7 DEF p

\* Ctrl+W on the text b leaves a.
WordGone(b, a) ==
    \E start, stop \in 0..Len(b) :
        /\ start <= stop
        /\ \A i \in (stop + 1)..Len(b) : b[i] \in Spaces
        /\ \A i \in (start + 1)..stop : b[i] \notin Spaces
        /\ stop = start => start = 0
        /\ start > 0 => b[start] \in Spaces
        /\ a = SubSeq(b, 1, start)

\* Text, then a word, then white space: all but the text is what Ctrl+W takes away.
LEMMA WordTakenAway ==
    ASSUME NEW a \in Seq(Chars), NEW w \in Seq(Chars), NEW s \in Seq(Chars),
           \A i \in 1..Len(w) : w[i] \notin Spaces,
           \A i \in 1..Len(s) : s[i] \in Spaces,
           w = <<>> => a = <<>>,
           a # <<>> => a[Len(a)] \in Spaces
    PROVE  WordGone(a \o (w \o s), a)
<1> DEFINE ws == w \o s
           b == a \o ws
           start == Len(a)
           stop == Len(a) + Len(w)
<1>1. Len(a) \in Nat /\ Len(w) \in Nat /\ Len(s) \in Nat
    OBVIOUS
<1>2. /\ ws \in Seq(Chars) /\ Len(ws) = Len(w) + Len(s)
      /\ \A i \in 1..Len(w) : ws[i] = w[i]
      /\ \A i \in 1..Len(s) : ws[Len(w) + i] = s[i]
    BY Joined
<1> HIDE DEF ws
<1>4. /\ b \in Seq(Chars) /\ Len(b) = Len(a) + Len(ws)
      /\ \A i \in 1..Len(a) : b[i] = a[i]
      /\ \A i \in 1..Len(ws) : b[Len(a) + i] = ws[i]
    <2>1. a \in Seq(Chars) /\ ws \in Seq(Chars)
        BY <1>2
    <2>2. /\ a \o ws \in Seq(Chars) /\ Len(a \o ws) = Len(a) + Len(ws)
          /\ \A i \in 1..Len(a) : (a \o ws)[i] = a[i]
          /\ \A i \in 1..Len(ws) : (a \o ws)[Len(a) + i] = ws[i]
        BY <2>1, Joined
    <2> QED BY <2>2
<1> HIDE DEF b
<1>5. Len(b) = stop + Len(s) /\ start \in 0..Len(b) /\ stop \in 0..Len(b) /\ start <= stop
    BY <1>1, <1>2, <1>4
<1>6. ASSUME NEW i \in (stop + 1)..Len(b) PROVE b[i] \in Spaces
    <2> DEFINE k == i - stop
    <2>1. k \in 1..Len(s) /\ Len(w) + k \in 1..Len(ws) /\ i = Len(a) + (Len(w) + k)
        BY <1>1, <1>2, <1>5
    <2> HIDE DEF k
    <2>2. b[i] = ws[Len(w) + k]
        BY <1>4, <2>1
    <2>3. ws[Len(w) + k] = s[k]
        BY <1>2, <2>1
    <2> QED BY <2>1, <2>2, <2>3
<1>7. ASSUME NEW i \in (start + 1)..stop PROVE b[i] \notin Spaces
    <2> DEFINE k == i - start
    <2>1. k \in 1..Len(w) /\ k \in 1..Len(ws) /\ i = Len(a) + k
        BY <1>1, <1>2
    <2> HIDE DEF k
    <2> QED BY <1>2, <1>4, <2>1
<1>8. stop = start => start = 0
    <2>1. stop = start => Len(w) = 0
        BY <1>1
    <2> QED BY <2>1
<1>9. start > 0 => b[start] \in Spaces
    <2>1. start > 0 => a # <<>> /\ start \in 1..Len(a)
        BY <1>1
    <2> QED BY <1>4, <2>1
<1>10. a = SubSeq(b, 1, start)
    <2>1. 0 \in 0..Len(b) /\ start \in 0..Len(b) /\ start - 0 = start /\ 0 + 1 = 1
          /\ \A i \in 1..start : 0 + i = i
        BY <1>1, <1>5
    <2>2. /\ SubSeq(b, 0 + 1, start) \in Seq(Chars) /\ Len(SubSeq(b, 0 + 1, start)) = start - 0
          /\ \A i \in 1..(start - 0) : SubSeq(b, 0 + 1, start)[i] = b[0 + i]
        BY <1>4, <2>1, Part
    <2>3. /\ SubSeq(b, 1, start) \in Seq(Chars) /\ Len(SubSeq(b, 1, start)) = start
          /\ \A i \in 1..start : SubSeq(b, 1, start)[i] = b[i]
        BY <2>1, <2>2
    <2> QED BY <1>4, <2>3, SameList
<1> HIDE DEF start, stop
<1>11. WordGone(b, a)
    BY <1>5, <1>6, <1>7, <1>8, <1>9, <1>10 DEF WordGone
<1> QED BY <1>11 DEF b, ws

LEMMA DeleteWordFollows ==
    ASSUME OnBoundary, DeleteWord
    PROVE  Cursor!DeleteWord
<1>1. PICK start \in 0..cursor, stop \in 0..cursor :
          TrimEnd(stop) /\ WordStart(start, stop) /\ Splice(start, cursor, <<>>) /\ cursor' = start
    BY DEF DeleteWord
<1>2. /\ WellFormed(value) /\ Edge(value, cursor) /\ value \in Seq(Byte)
      /\ cursor \in 0..Len(value) /\ Len(value) \in Nat
    BY BoundaryIsEdge, LineDecoded, Bytes DEF OnBoundary
<1> DEFINE a == SubSeq(value, 0 + 1, start)
           w == SubSeq(value, start + 1, stop)
           s == SubSeq(value, stop + 1, cursor)
<1> DEFINE BehindSpace == Decode(a) # <<>> /\ Decode(a)[Len(Decode(a))] \in Spaces
<1>0. start = 0 => Decode(a) = <<>>
    <2>1. start = 0 => a = <<>>
        BY <1>2
    <2> QED BY <2>1, DecodeNothing
\* The word starts behind a white space, or the line has none before stop.
<1>3. /\ start <= stop /\ Edge(value, start)
      /\ \A k \in (start + 1)..stop : value[k][2] = 1 => ~IsSpace(value[k])
      /\ start = stop => start = 0
      /\ start > 0 => BehindSpace
    <2>1. CASE start = 0 /\ \A i \in 1..stop : ~IsSpace(value[i])
        BY <1>2, <2>1, EdgeAtEnds
    <2>2. ASSUME NEW i \in 0..(stop - 1), IsSpace(value[i + 1]), value[i + 1][2] = 1,
                 \A j \in (i + 2)..stop : ~(IsSpace(value[j]) /\ value[j][2] = 1),
                 start = i + Width[value[i + 1][1]]
          PROVE  /\ start < stop /\ Edge(value, start)
                 /\ \A k \in (start + 1)..stop : value[k][2] = 1 => ~IsSpace(value[k])
                 /\ BehindSpace
        <3> DEFINE c == value[i + 1][1]
        <3>1. i \in Nat /\ i \in 0..Len(value) /\ i < Len(value) /\ i < stop /\ stop \in Nat
            BY <1>2
        <3>2. Edge(value, i)
            BY <2>2, <3>1 DEF Edge
        <3>3. /\ c \in Chars /\ start \in (i + 1)..Len(value) /\ Edge(value, start)
              /\ Decode(SubSeq(value, 1, start)) = Append(Decode(SubSeq(value, 1, i)), c)
            BY <1>2, <2>2, <3>1, <3>2, StepOver
        <3>4. \A k \in 1..Width[c] : value[i + k] = <<c, k>>
            BY <1>2, <3>1, <3>2, CharacterAt
        <3>5. c \in Spaces /\ Width[c] \in Nat /\ start = i + Width[c]
            BY <2>2, <3>3, Widths DEF IsSpace
        <3> HIDE DEF c
        <3>6. start < stop
            <4>1. SUFFICES ASSUME stop <= start PROVE FALSE
                BY <3>1, <3>3
            <4>2. stop - i \in 1..Width[c] /\ i + (stop - i) = stop /\ stop > 0
                BY <3>1, <3>5, <4>1
            <4>3. value[stop] = <<c, stop - i>>
                BY <3>4, <4>2
            <4>4. value[stop][1] = c
                BY <4>3
            <4> QED BY <1>1, <3>5, <4>2, <4>4 DEF TrimEnd, IsSpace
        <3>7. \A k \in (start + 1)..stop : value[k][2] = 1 => ~IsSpace(value[k])
            <4>1. \A k \in (start + 1)..stop : k \in (i + 2)..stop
                BY <3>1, <3>3
            <4> QED BY <2>2, <4>1
        <3>8. BehindSpace
            <4>1. Decode(SubSeq(value, 1, i)) \in Seq(Chars)
                BY <1>2, <3>1, CutInTwo, Decoded
            <4>2. Decode(a) = Append(Decode(SubSeq(value, 1, i)), c)
                BY <3>3
            <4> QED BY <3>3, <3>5, <4>1, <4>2, LastOf
        <3> QED BY <3>1, <3>3, <3>6, <3>7, <3>8
    <2>3. start \in Nat /\ stop \in Nat
        BY <1>2
    <2>4. WordStart(start, stop)
        BY <1>1
    <2> HIDE DEF BehindSpace
    <2> QED BY <2>1, <2>2, <2>3, <2>4 DEF WordStart
<1>4. /\ 0 \in 0..Len(value) /\ start \in 0..Len(value) /\ start \in start..cursor /\ stop \in start..cursor
      /\ stop \in 0..Len(value) /\ start \in 0..Len(value) /\ cursor \in stop..Len(value)
      /\ stop \in start..Len(value) /\ cursor \in start..Len(value) /\ cursor \in 0..Len(value)
    BY <1>2, <1>3
<1>5. SubSeq(value, 0 + 1, cursor) = a \o (w \o s)
    <2>1. SubSeq(value, 0 + 1, cursor) = a \o SubSeq(value, start + 1, cursor)
        BY <1>2, <1>4, Cut, Zenon
    <2>2. SubSeq(value, start + 1, cursor) = w \o s
        BY <1>2, <1>4, Cut, Zenon
    <2> QED BY <2>1, <2>2
<1>6. /\ a \in Seq(Byte) /\ Decode(a) \in Seq(Chars)
      /\ w \in Seq(Byte) /\ Decode(w) \in Seq(Chars)
      /\ s \in Seq(Byte) /\ Decode(s) \in Seq(Chars)
    <2>1. a \in Seq(Byte) /\ Decode(a) \in Seq(Chars)
        BY <1>2, <1>4, PartDecoded, Zenon
    <2>2. w \in Seq(Byte) /\ Decode(w) \in Seq(Chars)
        BY <1>2, <1>4, PartDecoded, Zenon
    <2>3. s \in Seq(Byte) /\ Decode(s) \in Seq(Chars)
        BY <1>2, <1>4, PartDecoded, Zenon
    <2> QED BY <2>1, <2>2, <2>3
<1>7. \A n \in 1..Len(Decode(w)) : Decode(w)[n] \notin Spaces
    <2>1. TAKE n \in 1..Len(Decode(w))
    <2>2. PICK k \in (start + 1)..stop : value[k][2] = 1 /\ Decode(w)[n] = value[k][1]
        BY <1>2, <1>4, PartDecoded, Zenon
    <2> QED BY <1>3, <2>2 DEF IsSpace
<1>8. \A n \in 1..Len(Decode(s)) : Decode(s)[n] \in Spaces
    <2>1. TAKE n \in 1..Len(Decode(s))
    <2>2. PICK k \in (stop + 1)..cursor : value[k][2] = 1 /\ Decode(s)[n] = value[k][1]
        BY <1>2, <1>4, PartDecoded, Zenon
    <2> QED BY <1>1, <2>2 DEF TrimEnd, IsSpace
<1>9. Decode(w) = <<>> => Decode(a) = <<>>
    <2>1. start < stop => Decode(w) # <<>>
        <3>1. start < stop => value[start + 1][2] = 1
            BY <1>2, <1>3, <1>4 DEF Edge
        <3> QED BY <1>2, <1>4, <3>1, PartDecoded, Zenon
    <2> QED BY <1>0, <1>2, <1>3, <2>1
<1>10. Decode(a) # <<>> => Decode(a)[Len(Decode(a))] \in Spaces
    BY <1>0, <1>2, <1>3
<1>11. Before = Decode(a) \o (Decode(w) \o Decode(s))
    <2>1. w \o s \in Seq(Byte)
        BY <1>6, Joined
    <2>2. /\ Decode(a \o (w \o s)) = Decode(a) \o Decode(w \o s)
          /\ Decode(w \o s) = Decode(w) \o Decode(s)
        BY <1>6, <2>1, DecodeJoin
    <2>3. 0 + 1 = 1
        OBVIOUS
    <2> QED BY <1>5, <2>2, <2>3 DEF Before
<1>12. Before' = Decode(a) /\ After' = After
    <2>1. Before' = Decode(SubSeq(value, 1, start)) /\ After' = After
        BY <1>1, <1>2, <1>3, Removed DEF After
    <2> QED BY <2>1
<1> HIDE DEF a, w, s
<1>13. WordGone(Before, Before')
    <2> DEFINE da == Decode(a)
               dw == Decode(w)
               ds == Decode(s)
    <2>2. /\ da \in Seq(Chars) /\ dw \in Seq(Chars) /\ ds \in Seq(Chars)
          /\ \A i \in 1..Len(dw) : dw[i] \notin Spaces
          /\ \A i \in 1..Len(ds) : ds[i] \in Spaces
          /\ dw = <<>> => da = <<>>
          /\ da # <<>> => da[Len(da)] \in Spaces
          /\ Before = da \o (dw \o ds)
        BY <1>6, <1>7, <1>8, <1>9, <1>10, <1>11
    <2>3. da = Decode(a)
        OBVIOUS
    <2> HIDE DEF da, dw, ds
    <2>1. WordGone(da \o (dw \o ds), da)
        BY <2>2, WordTakenAway
    <2> QED BY <1>12, <2>1, <2>2, <2>3
<1> QED BY <1>12, <1>13 DEF Cursor!DeleteWord, WordGone, Before, After

EditKept == Cursor!Backspace \/ Cursor!Delete \/ Cursor!DeleteWord \/ Cursor!DeleteToStart

\* Each key that changes the text is the step of TextCursor of its name.
LEMMA EditFollows ==
    ASSUME OnBoundary, Edit
    PROVE  \/ Len(Decode(value)) < MaxChars /\ \E c \in Chars : Cursor!Insert(c)
           \/ EditKept
<1>1. ASSUME NEW c \in Chars, Len(Decode(value)) < MaxChars, Insert(c)
      PROVE  Len(Decode(value)) < MaxChars /\ \E d \in Chars : Cursor!Insert(d)
    BY <1>1, InsertFollows
<1>2. CASE Backspace
    BY <1>2, BackspaceFollows DEF EditKept
<1>3. CASE Delete
    BY <1>3, DeleteFollows DEF EditKept
<1>4. CASE DeleteWord
    BY <1>4, DeleteWordFollows DEF EditKept
<1>5. CASE DeleteToStart
    BY <1>5, DeleteToStartFollows DEF EditKept
<1> QED BY <1>1, <1>2, <1>3, <1>4, <1>5 DEF Edit

\* A line is no longer than a line may be.
Fits(bytes) == Len(Decode(bytes)) <= MaxChars

LEMMA LengthsOf ==
    ASSUME OnBoundary
    PROVE  /\ Len(Before) \in Nat /\ Len(After) \in Nat
           /\ Len(Decode(value)) = Len(Before) + Len(After)
BY LineDecoded

LEMMA LengthsAfter ==
    ASSUME OnBoundary'
    PROVE  /\ Len(Before') \in Nat /\ Len(After') \in Nat
           /\ Len(Decode(value')) = Len(Before') + Len(After')
<1>1. WellFormed(value') /\ Boundary(cursor)'
    BY DEF OnBoundary
<1>2. value' \in Seq(Byte) /\ cursor' \in 0..Len(value')
    BY <1>1, Whole DEF Boundary
<1> DEFINE x == SubSeq(value', 1, cursor')
           y == SubSeq(value', cursor' + 1, Len(value'))
<1>3. x \in Seq(Byte) /\ y \in Seq(Byte) /\ value' = x \o y
    BY <1>2, CutInTwo
<1> HIDE DEF x, y
<1>4. Decode(x) \in Seq(Chars) /\ Decode(y) \in Seq(Chars) /\ Decode(value') = Decode(x) \o Decode(y)
    BY <1>3, Decoded, DecodeJoin
<1>5. /\ Len(Decode(x)) \in Nat /\ Len(Decode(y)) \in Nat
      /\ Len(Decode(value')) = Len(Decode(x)) + Len(Decode(y))
    BY <1>4
<1> QED BY <1>5 DEF x, y, Before, After

LEMMA EditFits ==
    ASSUME OnBoundary, Edit, Fits(value)
    PROVE  Fits(value')
<1>1. /\ Len(Before) \in Nat /\ Len(After) \in Nat /\ Before \in Seq(Chars) /\ After \in Seq(Chars)
      /\ Len(Decode(value)) = Len(Before) + Len(After) /\ MaxChars \in Nat
      /\ Len(Before) + Len(After) <= MaxChars
    BY LengthsOf, LineDecoded, LineAssumption DEF Fits
<1>2. /\ Len(Before') \in Nat /\ Len(After') \in Nat
      /\ Len(Decode(value')) = Len(Before') + Len(After')
    BY EditOnBoundary, LengthsAfter
<1>3. CASE Len(Decode(value)) < MaxChars /\ \E c \in Chars : Cursor!Insert(c)
    <2>1. PICK c \in Chars : Before' = Append(Before, c) /\ After' = After
        BY <1>3 DEF Cursor!Insert, Before, After
    <2>2. Len(Before') = Len(Before) + 1 /\ Len(After') = Len(After)
        BY <1>1, <2>1
    <2> QED BY <1>1, <1>2, <1>3, <2>2 DEF Fits
<1>4. CASE Cursor!Backspace
    <2>1. Before # <<>> /\ Before' = SubSeq(Before, 1, Len(Before) - 1) /\ After' = After
        BY <1>4 DEF Cursor!Backspace, Cursor!Front, Before, After
    <2>2. Len(Before') <= Len(Before) /\ Len(After') = Len(After)
        BY <1>1, <2>1
    <2> QED BY <1>1, <1>2, <2>2 DEF Fits
<1>5. CASE Cursor!Delete
    <2>1. After # <<>> /\ After' = Tail(After) /\ Before' = Before
        BY <1>5 DEF Cursor!Delete, Before, After
    <2>2. Len(After') <= Len(After) /\ Len(Before') = Len(Before)
        BY <1>1, <2>1
    <2> QED BY <1>1, <1>2, <2>2 DEF Fits
<1>6. CASE Cursor!DeleteWord
    <2>1. (\E start \in 0..Len(Before) : Before' = SubSeq(Before, 1, start)) /\ After' = After
        BY <1>6 DEF Cursor!DeleteWord, Before, After
    <2>2. Len(Before') <= Len(Before) /\ Len(After') = Len(After)
        BY <1>1, <2>1
    <2> QED BY <1>1, <1>2, <2>2 DEF Fits
<1>7. CASE Cursor!DeleteToStart
    <2>1. Before' = <<>> /\ After' = After
        BY <1>7 DEF Cursor!DeleteToStart, Before, After
    <2>2. Len(Before') <= Len(Before) /\ Len(After') = Len(After)
        BY <1>1, <2>1
    <2> QED BY <1>1, <1>2, <2>2 DEF Fits
<1> QED BY EditFollows, <1>3, <1>4, <1>5, <1>6, <1>7 DEF EditKept

LEMMA NothingFits == Fits(<<>>)
BY DecodeNothing, LineAssumption DEF Fits

\* A prompt opened on a text, or emptied, is a load.
LEMMA LoadFollows ==
    ASSUME NEW bytes, WellFormed(bytes), Fits(bytes), value' = bytes, cursor' = Len(bytes)
    PROVE  Cursor!Load
<1>1. bytes \in Seq(Byte)
    BY Whole
<1>2. SubSeq(bytes, 1, Len(bytes)) = bytes /\ SubSeq(bytes, Len(bytes) + 1, Len(bytes)) = <<>>
    BY <1>1
<1>3. Before' = Decode(bytes) /\ After' = <<>>
    BY <1>2, DecodeNothing DEF Before, After
<1>4. Decode(bytes) \in Seq(Chars)
    BY <1>1, Decoded
<1> QED BY <1>3, <1>4 DEF Cursor!Load, Before, After, Fits

LEMMA ClearFollows == Clear => Cursor!Load
<1> SUFFICES ASSUME Clear PROVE Cursor!Load
    OBVIOUS
<1>1. value' = <<>> /\ cursor' = Len(<<>>)
    BY DEF Clear
<1> QED BY <1>1, NothingWhole, NothingFits, LoadFollows

-------------------------------------------------------------------------------
(* The reading of the sockets.                                               *)

Running == Programs \cup {Nobody}

Row == [inode : Inodes, pid : {NoPid} \cup Pids, connections : Nat,
        process : Running, command : Running \cup {Unread}]

Typed ==
    /\ step \in {"tables", "walk", "names", "done", "failed"}
    /\ table \in 1..5
    /\ step = "tables" => table <= 4 /\ pid = NoPid
    /\ step \in {"walk", "names"} => table = 5
    /\ program \in [Pids -> Running]
    /\ leads \in [Pids -> [Fds -> Inodes \cup {NoSocket}]]
    /\ bound \in Seq(Inodes) /\ established \subseteq Inodes /\ fds \subseteq Fds
    /\ pid \in Nat /\ (fds # {} => pid \in Pids)
    /\ found \in [Inodes -> {NoPid} \cup Pids]
    /\ rows \in Seq(Row)
    /\ rows # <<>> => step = "names"
    /\ kept \subseteq Inodes /\ steady \subseteq Pids \X Fds \X Inodes

\* What was there all along is there, and what is held was held.
Observed ==
    /\ kept \subseteq OpenSockets
    /\ \A h \in steady : leads[h[1]][h[2]] = h[3]
    /\ Held \subseteq held

\* A table read so far has given every socket it could not miss, and each once: no
\* socket is in two tables.
TablesRead ==
    /\ \A i \in kept : Socket[i].table < table =>
          /\ IsBoundForInput(i) => i \in Wanted
          /\ IsConnection(i) /\ ~IsBoundForInput(i) => i \in established
    /\ \A k \in 1..Len(bound) : Socket[bound[k]].table < table
    /\ \A j, k \in 1..Len(bound) : bound[j] = bound[k] => j = k

\* The walk has been past a process with all of its descriptors, or past one of them.
Passed(p, fd) == step = "names" \/ (step = "walk" /\ (p < pid \/ (p = pid /\ fd \notin fds)))

\* A socket behind a descriptor the walk has been past has an owner, that process or
\* another.
Walked ==
    \A h \in steady :
        h[3] \in Wanted /\ Readable(h[1]) /\ h[1] \notin recycled /\ Passed(h[1], h[2])
           => found[h[3]] # NoPid

\* An owner's pid had the socket open, and what runs under it now did, unless the pid
\* changed hands.
OwnersHeld ==
    \A i \in Inodes :
        found[i] # NoPid =>
           /\ \E prog \in Programs : <<found[i], prog, i>> \in held
           /\ found[i] \notin recycled /\ program[found[i]] # Nobody
                 => <<found[i], program[found[i]], i>> \in held

\* The row of a socket, before and after its command line is read.
RowTrue(r, i) ==
    /\ r.inode = i /\ r.pid = found[i] /\ r.connections = Connections(i)
    /\ r.pid = NoPid => r.process = Nobody /\ r.command \in {Nobody, Unread}
    /\ r.pid # NoPid /\ r.pid \notin recycled =>
          /\ r.process # Nobody => <<r.pid, r.process, i>> \in held
          /\ r.command \notin {Nobody, Unread} => <<r.pid, r.command, i>> \in held

RowsTrue ==
    /\ Len(rows) <= Len(bound)
    /\ \A k \in 1..Len(rows) : RowTrue(rows[k], bound[k])

SocketsInv == Typed /\ Observed /\ TablesRead /\ Walked /\ OwnersHeld /\ RowsTrue

LEMMA Distinct ==
    /\ Nobody # Unread /\ Unread \notin Running /\ NoPid \notin Pids /\ NoPid \in Nat
    /\ \A p \in Pids : p \in Nat /\ p > NoPid
    /\ NoSocket \notin Inodes
BY SocketsAssumption DEF Nobody, Unread, Running, NoPid, Pids

LEMMA SocketTables ==
    ASSUME NEW i \in Inodes
    PROVE  Socket[i].table \in Int /\ Socket[i].table >= 1 /\ Socket[i].table < 5
<1>1. Socket[i].table \in Tables
    BY SocketsAssumption
<1> QED BY <1>1 DEF Tables

\* The sockets wanted are those on the rows of the tables.
LEMMA WantedRows ==
    ASSUME NEW i
    PROVE  i \in Wanted <=> \E k \in DOMAIN bound : bound[k] = i
BY DEF Wanted, Range

\* Who has a socket open, in terms of what the descriptors lead to.
LEMMA HeldAre ==
    ASSUME NEW p \in Pids, NEW fd \in Fds, leads[p][fd] \in Inodes, program[p] \in Programs
    PROVE  <<p, program[p], leads[p][fd]>> \in Held
<1> DEFINE h == <<p, program[p], leads[p][fd]>>
<1>1. h \in Pids \X Programs \X Inodes /\ h[1] = p /\ h[2] = program[p] /\ h[3] = leads[p][fd]
    OBVIOUS
<1>2. Holds(h[1], h[3])
    BY <1>1 DEF Holds
<1> QED BY <1>1, <1>2 DEF Held

LEMMA InitSockets == SocketsInit => SocketsInv
<1> SUFFICES ASSUME SocketsInit PROVE SocketsInv
    OBVIOUS
<1> USE DEF SocketsInit
<1>1. bound = <<>> /\ rows = <<>> /\ step = "tables" /\ table = 1
      /\ found = [i \in Inodes |-> NoPid] /\ pid = NoPid
    OBVIOUS
<1>2. Typed
    <2>1. kept \subseteq Inodes /\ steady \subseteq Pids \X Fds \X Inodes
        BY DEF OpenSockets
    <2>2. program \in [Pids -> Running] /\ <<>> \in Seq(Inodes) /\ <<>> \in Seq(Row)
        BY DEF Running
    <2> QED BY <1>1, <2>1, <2>2 DEF Typed, NoPid
<1>3. Observed
    BY DEF Observed
<1>4. TablesRead
    <2>1. \A i \in kept : ~(Socket[i].table < table)
        BY <1>1, <1>2, SocketTables DEF Typed
    <2>2. 1..Len(bound) = {}
        BY <1>1
    <2> QED BY <2>1, <2>2 DEF TablesRead
<1>5. Walked
    BY <1>1 DEF Walked, Passed
<1>6. OwnersHeld
    BY <1>1 DEF OwnersHeld
<1>7. RowsTrue
    <2>1. Len(rows) = 0 /\ Len(bound) = 0
        BY <1>1
    <2> QED BY <2>1 DEF RowsTrue
<1> QED BY <1>2, <1>3, <1>4, <1>5, <1>6, <1>7 DEF SocketsInv

\* The reading over, nothing is left of it.
LEMMA ForgetSockets ==
    ASSUME Forget, step' \in {"done", "failed"}
    PROVE  SocketsInv'
<1> USE DEF Forget
<1>1. /\ bound' = <<>> /\ rows' = <<>> /\ table' = 1
      /\ kept' = {} /\ steady' = {} /\ found' = [i \in Inodes |-> NoPid]
      /\ leads' = [p \in Pids |-> Closed] /\ program' = [p \in Pids |-> Nobody]
    OBVIOUS
<1>2. Typed'
    <2>1. leads' \in [Pids -> [Fds -> Inodes \cup {NoSocket}]] /\ program' \in [Pids -> Running]
        BY <1>1 DEF Closed, Running
    <2>2. <<>> \in Seq(Inodes) /\ <<>> \in Seq(Row)
        OBVIOUS
    <2> QED BY <1>1, <2>1, <2>2 DEF Typed, NoPid
<1>3. Observed'
    <2>1. \A h \in Pids \X Programs \X Inodes : h[1] \in Pids /\ h[2] \in Programs
        OBVIOUS
    <2>2. \A h \in Pids \X Programs \X Inodes : h[2] # program'[h[1]]
        BY <1>1, <2>1, SocketsAssumption
    <2>3. Held' = {}
        BY <2>2 DEF Held
    <2> QED BY <1>1, <2>3 DEF Observed
<1>4. TablesRead'
    BY <1>1 DEF TablesRead
<1>5. Walked'
    BY <1>1 DEF Walked
<1>6. OwnersHeld'
    BY <1>1 DEF OwnersHeld
<1>7. RowsTrue'
    BY <1>1 DEF RowsTrue
<1> QED BY <1>2, <1>3, <1>4, <1>5, <1>6, <1>7 DEF SocketsInv

\* What the descriptors lead to after one of them is changed, or some are closed.
LEMMA LeadsAfter ==
    ASSUME leads \in [Pids -> [Fds -> Inodes \cup {NoSocket}]], NEW p \in Pids
    PROVE  /\ \A fd \in Fds, target \in Inodes \cup {NoSocket} :
                 [leads EXCEPT ![p][fd] = target] \in [Pids -> [Fds -> Inodes \cup {NoSocket}]]
           /\ [leads EXCEPT ![p] = Closed] \in [Pids -> [Fds -> Inodes \cup {NoSocket}]]
           /\ \A q \in Pids, closed \in SUBSET Fds :
                 [leads EXCEPT ![p] = Without(leads[q], closed)]
                     \in [Pids -> [Fds -> Inodes \cup {NoSocket}]]
<1>1. Closed \in [Fds -> Inodes \cup {NoSocket}]
    BY DEF Closed
<1>2. ASSUME NEW q \in Pids, NEW closed \in SUBSET Fds
      PROVE  Without(leads[q], closed) \in [Fds -> Inodes \cup {NoSocket}]
    BY DEF Without
<1>3. ASSUME NEW fd \in Fds, NEW target \in Inodes \cup {NoSocket}
      PROVE  [leads[p] EXCEPT ![fd] = target] \in [Fds -> Inodes \cup {NoSocket}]
    OBVIOUS
<1>4. \A d \in [Fds -> Inodes \cup {NoSocket}] :
          [leads EXCEPT ![p] = d] \in [Pids -> [Fds -> Inodes \cup {NoSocket}]]
    OBVIOUS
<1>5. ASSUME NEW fd \in Fds, NEW target \in Inodes \cup {NoSocket}
      PROVE  [leads EXCEPT ![p][fd] = target] \in [Pids -> [Fds -> Inodes \cup {NoSocket}]]
    BY <1>3
<1> QED BY <1>1, <1>2, <1>4, <1>5

\* What a process may do leaves alone what runs under the pids that keep it.
LEMMA ProcessesChange ==
    ASSUME Typed, ProcessStep
    PROVE  /\ program' \in [Pids -> Running]
           /\ leads' \in [Pids -> [Fds -> Inodes \cup {NoSocket}]]
           /\ recycled \subseteq recycled'
           /\ \A p \in Pids : p \notin recycled' /\ program'[p] # Nobody => program'[p] = program[p]
           /\ kept' \subseteq kept /\ kept' \subseteq OpenSockets'
           /\ steady' \subseteq steady /\ \A h \in steady' : leads'[h[1]][h[2]] = h[3]
           /\ held \subseteq held' /\ Held' \subseteq held'
           /\ UNCHANGED <<readerVars, listeners>>
<1>1. /\ kept' \subseteq kept /\ kept' \subseteq OpenSockets'
      /\ steady' \subseteq steady /\ \A h \in steady' : leads'[h[1]][h[2]] = h[3]
      /\ held \subseteq held' /\ Held' \subseteq held'
      /\ UNCHANGED <<readerVars, listeners>>
    BY DEF ProcessStep
<1>2. PICK p \in Pids :
          \/ \E fd \in Fds, target \in Inodes \cup {NoSocket} : Redirect(p, fd, target)
          \/ Exit(p)
          \/ \E prog \in Programs : Start(p, prog) \/ Exec(p, prog)
    BY DEF ProcessStep
<1>3. program \in [Pids -> Running] /\ leads \in [Pids -> [Fds -> Inodes \cup {NoSocket}]]
    BY DEF Typed
<1>4. ASSUME NEW fd \in Fds, NEW target \in Inodes \cup {NoSocket}, Redirect(p, fd, target)
      PROVE  /\ leads' \in [Pids -> [Fds -> Inodes \cup {NoSocket}]]
             /\ program' = program /\ recycled' = recycled
    BY <1>3, <1>4, LeadsAfter DEF Redirect
<1>5. CASE Exit(p)
    <2>1. /\ program' = [program EXCEPT ![p] = Nobody] /\ recycled' = recycled
          /\ leads' \in [Pids -> [Fds -> Inodes \cup {NoSocket}]]
        BY <1>3, <1>5, LeadsAfter DEF Exit
    <2>2. program' \in [Pids -> Running] /\ program'[p] = Nobody
          /\ \A q \in Pids : q # p => program'[q] = program[q]
        BY <1>3, <2>1 DEF Running
    <2> QED BY <1>1, <1>3, <2>1, <2>2
<1>6. ASSUME NEW prog \in Programs, Start(p, prog) \/ Exec(p, prog)
      PROVE  /\ program' \in [Pids -> Running]
             /\ leads' \in [Pids -> [Fds -> Inodes \cup {NoSocket}]]
             /\ recycled \subseteq recycled'
             /\ \A q \in Pids : q \notin recycled' /\ program'[q] # Nobody => program'[q] = program[q]
    <2>1. program' = [program EXCEPT ![p] = prog] /\ recycled' = recycled \cup {p}
        BY <1>6 DEF Start, Exec
    <2>2. program' \in [Pids -> Running]
          /\ \A q \in Pids : q # p => program'[q] = program[q]
        BY <1>3, <2>1 DEF Running
    <2>3. PICK q \in Pids, closed \in SUBSET Fds :
              leads' = [leads EXCEPT ![p] = Without(leads[q], closed)]
        BY <1>6 DEF Start, Exec
    <2>4. leads' \in [Pids -> [Fds -> Inodes \cup {NoSocket}]]
        BY <1>3, <2>3, LeadsAfter
    <2> QED BY <2>1, <2>2, <2>4
<1> QED BY <1>1, <1>2, <1>3, <1>4, <1>5, <1>6

LEMMA ProcessStepSockets == SocketsInv /\ ProcessStep => SocketsInv'
<1> SUFFICES ASSUME SocketsInv, ProcessStep PROVE SocketsInv'
    OBVIOUS
<1> USE DEF readerVars
<1>1. /\ program' \in [Pids -> Running] /\ leads' \in [Pids -> [Fds -> Inodes \cup {NoSocket}]]
      /\ recycled \subseteq recycled'
      /\ \A p \in Pids : p \notin recycled' /\ program'[p] # Nobody => program'[p] = program[p]
      /\ kept' \subseteq kept /\ kept' \subseteq OpenSockets'
      /\ steady' \subseteq steady /\ \A h \in steady' : leads'[h[1]][h[2]] = h[3]
      /\ held \subseteq held' /\ Held' \subseteq held'
      /\ UNCHANGED <<step, table, bound, established, pid, fds, found, rows, listeners>>
    BY ProcessesChange DEF SocketsInv
<1>2. Typed'
    BY <1>1 DEF SocketsInv, Typed
<1>3. Observed'
    BY <1>1 DEF Observed
<1>4. Wanted' = Wanted
    BY <1>1 DEF Wanted
<1>5. TablesRead'
    BY <1>1, <1>4 DEF SocketsInv, TablesRead
<1>6. Walked'
    <2>1. \A h \in steady' : h \in steady /\ h[1] \in Pids
        BY <1>1 DEF SocketsInv, Typed
    <2>2. \A p \in Pids : Readable(p)' /\ p \notin recycled' => Readable(p) /\ p \notin recycled
        BY <1>1 DEF Readable
    <2>3. \A p, fd : Passed(p, fd)' => Passed(p, fd)
        BY <1>1 DEF Passed
    <2> QED BY <1>1, <1>4, <2>1, <2>2, <2>3 DEF SocketsInv, Walked
<1>7. OwnersHeld'
    <2>1. \A i \in Inodes : found[i] # NoPid => found[i] \in Pids
        BY DEF SocketsInv, Typed
    <2> QED BY <1>1, <2>1 DEF SocketsInv, OwnersHeld
<1>8. RowsTrue'
    <2>1. \A i : Connections(i)' = Connections(i)
        BY <1>1 DEF Connections
    <2>2. ASSUME NEW r, NEW i, RowTrue(r, i) PROVE RowTrue(r, i)'
        BY <1>1, <2>1, <2>2 DEF RowTrue
    <2> QED BY <1>1, <2>2 DEF SocketsInv, RowsTrue
<1> QED BY <1>2, <1>3, <1>5, <1>6, <1>7, <1>8 DEF SocketsInv

-------------------------------------------------------------------------------
(* The readings of collect().                                              *)

\* Any order of a set's members is a list of them, each in one place.
LEMMA InOrder ==
    ASSUME NEW S \in SUBSET Inodes, NEW order \in Bijection(1..Cardinality(S), S)
    PROVE  /\ order \in Seq(Inodes) /\ Len(order) \in Nat
           /\ \A k \in 1..Len(order) : order[k] \in S
           /\ \A i \in S : \E k \in 1..Len(order) : order[k] = i
           /\ \A j, k \in 1..Len(order) : order[j] = order[k] => j = k
<1>1. Cardinality(S) \in Nat
    BY SocketsAssumption, FS_Subset, FS_CardinalityType
<1>2. /\ order \in [1..Cardinality(S) -> S]
      /\ \A j, k \in 1..Cardinality(S) : order[j] = order[k] => j = k
      /\ \A i \in S : \E k \in 1..Cardinality(S) : order[k] = i
    BY DEF Bijection, Injection, Surjection, IsInjective
<1>3. order \in Seq(S) /\ Len(order) = Cardinality(S)
    BY <1>1, <1>2
<1>4. order \in Seq(Inodes)
    BY <1>3
<1> QED BY <1>1, <1>2, <1>3, <1>4

LEMMA ReadTableSockets == SocketsInv /\ ReadTable => SocketsInv'
<1> SUFFICES ASSUME SocketsInv, ReadTable PROVE SocketsInv'
    OBVIOUS
<1> USE DEF processVars, seenVars
<1> DEFINE listed == ParseTable(table)
           accepting == {i \in listed : IsBoundForInput(i)}
<1>1. /\ step = "tables" /\ table \in 1..4 /\ pid = NoPid /\ rows = <<>>
      /\ established' =
            established \cup {i \in listed : ~IsBoundForInput(i) /\ IsConnection(i)}
      /\ step' \in {"tables", "names", "walk"}
      /\ step' = "tables" <=> table < 4
      /\ step' = "names" => bound' = <<>>
      /\ table' = table + 1
      /\ UNCHANGED <<program, leads, pid, fds, found, rows, kept, steady, held, recycled>>
    BY DEF ReadTable, SocketsInv, Typed
<1>2. PICK order \in Bijection(1..Cardinality(accepting), accepting) : bound' = bound \o order
    BY DEF ReadTable
<1>3. /\ listed \subseteq Inodes /\ accepting \subseteq Inodes
      /\ \A i \in listed : i \in OpenSockets /\ Socket[i].table = table
    BY DEF ParseTable, OpenSockets
<1>4. \A i \in OpenSockets : Socket[i].table = table => i \in listed
    BY DEF ParseTable
<1>5. \A i : i \in accepting <=> i \in listed /\ IsBoundForInput(i)
    OBVIOUS
<1> HIDE DEF listed, accepting
<1>6. /\ order \in Seq(Inodes) /\ Len(order) \in Nat
      /\ \A k \in 1..Len(order) : order[k] \in accepting
      /\ \A i \in accepting : \E k \in 1..Len(order) : order[k] = i
      /\ \A j, k \in 1..Len(order) : order[j] = order[k] => j = k
    BY <1>3, InOrder
<1>7. bound \in Seq(Inodes) /\ Len(bound) \in Nat /\ DOMAIN bound = 1..Len(bound)
    BY SeqFacts DEF SocketsInv, Typed
<1>8. /\ bound' \in Seq(Inodes) /\ Len(bound') = Len(bound) + Len(order)
      /\ DOMAIN bound' = 1..(Len(bound) + Len(order))
      /\ \A k \in 1..Len(bound) : bound'[k] = bound[k]
      /\ \A k \in 1..Len(order) : bound'[Len(bound) + k] = order[k]
    <2>1. /\ bound' \in Seq(Inodes) /\ Len(bound') = Len(bound) + Len(order)
          /\ \A k \in 1..Len(bound) : bound'[k] = bound[k]
          /\ \A k \in 1..Len(order) : bound'[Len(bound) + k] = order[k]
        BY <1>2, <1>6, <1>7, Joined
    <2> QED BY <2>1, SeqFacts
<1>9. \A k \in 1..Len(bound') : k \in 1..Len(bound) \/ k - Len(bound) \in 1..Len(order)
    BY <1>6, <1>7, <1>8
<1>10. \A k \in 1..Len(bound') : k \notin 1..Len(bound) =>
           bound'[k] = order[k - Len(bound)] /\ bound'[k] \in accepting
    <2>1. \A k \in 1..Len(bound') : k = Len(bound) + (k - Len(bound))
        BY <1>6, <1>7, <1>8
    <2> QED BY <1>6, <1>8, <1>9, <2>1
<1>11. \A k \in 1..Len(bound') :
           /\ k \in 1..Len(bound) => Socket[bound'[k]].table < table
           /\ k \notin 1..Len(bound) => Socket[bound'[k]].table = table
    <2>1. \A k \in 1..Len(bound) : Socket[bound[k]].table < table
        BY DEF SocketsInv, TablesRead
    <2> QED BY <1>3, <1>5, <1>8, <1>10, <2>1
<1>12. Typed'
    <2>1. table' \in 1..5 /\ (step' = "tables" => table' <= 4) /\ (step' # "tables" => table' = 5)
        BY <1>1
    <2>2. established' \subseteq Inodes
        BY <1>1, <1>3 DEF SocketsInv, Typed
    <2> QED BY <1>1, <1>8, <2>1, <2>2 DEF SocketsInv, Typed
<1>13. Observed'
    BY <1>1 DEF SocketsInv, Observed, Held, Holds, OpenSockets
<1>14. TablesRead'
    <2>1. ASSUME NEW i \in kept, Socket[i].table < table'
          PROVE  /\ IsBoundForInput(i) => i \in Wanted'
                 /\ IsConnection(i) /\ ~IsBoundForInput(i) => i \in established'
        <3>1. i \in OpenSockets /\ i \in Inodes
            BY DEF SocketsInv, Observed, Typed
        <3>2. Socket[i].table \in Int
            BY <3>1, SocketTables
        <3>3. CASE Socket[i].table < table
            <4>1. IsConnection(i) /\ ~IsBoundForInput(i) => i \in established'
                BY <1>1, <3>3 DEF SocketsInv, TablesRead
            <4>2. ASSUME IsBoundForInput(i) PROVE i \in Wanted'
                <5>1. i \in Wanted
                    BY <3>3, <4>2 DEF SocketsInv, TablesRead
                <5>2. PICK k \in 1..Len(bound) : bound[k] = i
                    BY <1>7, <5>1, WantedRows
                <5>3. k \in DOMAIN bound' /\ bound'[k] = i
                    BY <1>6, <1>7, <1>8, <5>2
                <5> QED BY <5>3 DEF Wanted, Range
            <4> QED BY <4>1, <4>2
        <3>4. CASE Socket[i].table = table
            <4>1. i \in listed
                BY <1>4, <3>1, <3>4
            <4>2. ASSUME IsBoundForInput(i) PROVE i \in Wanted'
                <5>1. PICK k \in 1..Len(order) : order[k] = i
                    BY <1>5, <1>6, <4>1, <4>2
                <5>2. Len(bound) + k \in DOMAIN bound' /\ bound'[Len(bound) + k] = i
                    BY <1>6, <1>7, <1>8, <5>1
                <5> QED BY <5>2 DEF Wanted, Range
            <4> QED BY <1>1, <4>1, <4>2
        <3> QED BY <1>1, <2>1, <3>2, <3>3, <3>4
    <2>2. ASSUME NEW k \in 1..Len(bound') PROVE Socket[bound'[k]].table < table'
        <3>1. bound'[k] \in Inodes
            BY <1>8
        <3>2. Socket[bound'[k]].table \in Int
            BY <3>1, SocketTables
        <3> QED BY <1>1, <1>11, <3>2
    <2>3. ASSUME NEW j \in 1..Len(bound'), NEW k \in 1..Len(bound'), bound'[j] = bound'[k] PROVE j = k
        <3>1. Socket[bound'[k]].table \in Int
            <4>1. bound'[k] \in Inodes
                BY <1>8
            <4> QED BY <4>1, SocketTables
        <3>2. j \in 1..Len(bound) <=> k \in 1..Len(bound)
            BY <1>1, <1>11, <2>3, <3>1
        <3>3. CASE j \in 1..Len(bound)
            BY <1>8, <2>3, <3>2, <3>3 DEF SocketsInv, TablesRead
        <3>4. CASE j \notin 1..Len(bound)
            <4>1. j - Len(bound) = k - Len(bound)
                BY <1>6, <1>9, <1>10, <2>3, <3>2, <3>4
            <4> QED BY <1>7, <4>1
        <3> QED BY <3>3, <3>4
    <2>4. \A i : (IsBoundForInput(i)' <=> IsBoundForInput(i)) /\ (IsConnection(i)' <=> IsConnection(i))
        BY DEF IsBoundForInput, IsConnection
    <2> QED BY <1>1, <2>1, <2>2, <2>3, <2>4 DEF TablesRead
<1>15. Walked'
    <2>1. ASSUME NEW h \in steady, h[3] \in Wanted', Passed(h[1], h[2])' PROVE FALSE
        <3>1. h[1] \in Pids /\ h[1] \in Nat /\ h[1] > NoPid
            BY Distinct DEF SocketsInv, Typed
        <3>2. step' # "names"
            <4>1. bound' # <<>>
                BY <2>1 DEF Wanted, Range
            <4> QED BY <1>1, <4>1
        <3>3. ~(h[1] < NoPid) /\ h[1] # NoPid
            BY <3>1 DEF NoPid
        <3> QED BY <1>1, <2>1, <3>2, <3>3 DEF Passed
    <2> QED BY <1>1, <2>1 DEF Walked
<1>16. OwnersHeld'
    BY <1>1 DEF SocketsInv, OwnersHeld
<1>17. RowsTrue'
    <2>1. Len(rows') = 0 /\ 1..0 = {}
        BY <1>1
    <2>2. Len(rows') <= Len(bound')
        BY <1>6, <1>7, <1>8, <2>1
    <2> QED BY <2>1, <2>2 DEF RowsTrue
<1> QED BY <1>12, <1>13, <1>14, <1>15, <1>16, <1>17 DEF SocketsInv

\* Everything but the walk's place is as it was.
LEMMA WalkedOn ==
    ASSUME SocketsInv, step = "walk", step' \in {"walk", "names"},
           pid' \in Nat, fds' \subseteq Fds, fds' # {} => pid' \in Pids, found' \in [Inodes -> {NoPid} \cup Pids],
           Walked', OwnersHeld',
           UNCHANGED <<processVars, table, bound, established, rows, listeners, seenVars>>
    PROVE  SocketsInv'
<1> USE DEF processVars, seenVars
<1>1. rows = <<>>
    BY DEF SocketsInv, Typed
<1>2. Typed'
    BY <1>1 DEF SocketsInv, Typed
<1>3. Observed'
    BY DEF SocketsInv, Observed, Held, Holds, OpenSockets
<1>4. TablesRead'
    BY DEF SocketsInv, TablesRead, Wanted
<1>5. RowsTrue'
    <2>1. Len(rows') = 0 /\ 1..0 = {} /\ Len(bound') = Len(bound) /\ Len(rows) <= Len(bound)
        BY <1>1 DEF SocketsInv, RowsTrue
    <2> QED BY <1>1, <2>1 DEF RowsTrue
<1> QED BY <1>2, <1>3, <1>4, <1>5 DEF SocketsInv

\* What is known of a descriptor that has led to one socket all along.
LEMMA SteadyLeads ==
    ASSUME SocketsInv, NEW h \in steady
    PROVE  /\ h[1] \in Pids /\ h[1] \in Nat /\ h[2] \in Fds /\ h[3] \in Inodes
           /\ leads[h[1]][h[2]] = h[3] /\ h[3] # NoSocket
BY Distinct DEF SocketsInv, Observed, Typed

LEMMA NextProcessSockets == SocketsInv /\ NextProcess => SocketsInv'
<1> SUFFICES ASSUME SocketsInv, NextProcess PROVE SocketsInv'
    OBVIOUS
<1>1. /\ step = "walk" /\ fds = {} /\ pid \in Nat
      /\ found \in [Inodes -> {NoPid} \cup Pids]
      /\ UNCHANGED <<processVars, table, bound, established, found, rows, listeners, seenVars>>
    BY DEF NextProcess, SocketsInv, Typed
<1>2. OwnersHeld'
    BY <1>1 DEF SocketsInv, OwnersHeld, processVars, seenVars
<1>3. Wanted' = Wanted
    BY <1>1 DEF Wanted
<1>4. \A p : Readable(p)' <=> Readable(p)
    BY <1>1 DEF Readable, processVars
<1>5. \A h \in steady : h[3] \in Wanted /\ Readable(h[1]) /\ h[1] \notin recycled /\ h[1] <= pid
          => found[h[3]] # NoPid
    <2>1. \A h \in steady : h[1] <= pid => Passed(h[1], h[2])
        BY <1>1, SteadyLeads DEF Passed
    <2> QED BY <2>1 DEF SocketsInv, Walked
<1>6. CASE \E p \in Pids : p > pid /\ Readable(p)
    <2>1. PICK p \in Pids :
              /\ p > pid /\ Readable(p) /\ \A q \in Pids : pid < q /\ q < p => ~Readable(q)
              /\ pid' = p /\ step' = step
              /\ fds' \in SUBSET Fds /\ \A fd \in Fds : leads[p][fd] # NoSocket => fd \in fds'
        BY <1>6 DEF NextProcess
    <2>2. p \in Nat /\ fds' \subseteq Fds
        BY <2>1, Distinct
    <2>3. Walked'
        <3> SUFFICES ASSUME NEW h \in steady, h[3] \in Wanted, Readable(h[1]), h[1] \notin recycled,
                            Passed(h[1], h[2])'
                     PROVE  found[h[3]] # NoPid
            BY <1>1, <1>3, <1>4 DEF Walked, seenVars
        <3>1. h[1] < p \/ (h[1] = p /\ h[2] \notin fds')
            BY <1>1, <2>1 DEF Passed
        <3>2. h[1] = p => h[2] \in fds'
            BY <2>1, SteadyLeads
        <3>3. h[1] < p
            BY <3>1, <3>2
        <3>4. h[1] <= pid
            BY <1>1, <2>1, <2>2, <3>3, SteadyLeads
        <3> QED BY <1>5, <3>4
    <2> QED BY <1>1, <1>2, <2>1, <2>2, <2>3, WalkedOn
<1>7. CASE ~\E p \in Pids : p > pid /\ Readable(p)
    <2>1. step' = "names" /\ UNCHANGED <<pid, fds>> /\ fds' = {}
        BY <1>1, <1>7 DEF NextProcess
    <2>2. Walked'
        <3> SUFFICES ASSUME NEW h \in steady, h[3] \in Wanted, Readable(h[1]), h[1] \notin recycled
                     PROVE  found[h[3]] # NoPid
            BY <1>1, <1>3, <1>4 DEF Walked, seenVars
        <3>1. h[1] <= pid
            BY <1>1, <1>7, SteadyLeads
        <3> QED BY <1>5, <3>1
    <2>3. fds \subseteq Fds
        BY DEF SocketsInv, Typed
    <2> QED BY <1>1, <1>2, <2>1, <2>2, <2>3, WalkedOn
<1> QED BY <1>6, <1>7

LEMMA ReadLinkSockets == ASSUME SocketsInv, NEW fd \in Fds, ReadLink(fd) PROVE SocketsInv'
<1> DEFINE i == Target(fd)
<1>1. /\ step = "walk" /\ fd \in fds /\ pid \in Nat /\ fds \subseteq Fds
      /\ pid \in Pids /\ found \in [Inodes -> {NoPid} \cup Pids]
      /\ UNCHANGED <<processVars, table, bound, established, pid, rows, listeners, seenVars>>
    BY DEF ReadLink, SocketsInv, Typed
<1>2. \A p : Readable(p)' <=> Readable(p)
    BY <1>1 DEF Readable, processVars
<1>3. Wanted' = Wanted
    BY <1>1 DEF Wanted
<1>4. CASE i \in Wanted
    <2>1. i \in Inodes /\ i # NoSocket
        <3>1. PICK k \in DOMAIN bound : bound[k] = i
            BY <1>4, WantedRows
        <3>2. bound[k] \in Inodes
            BY DEF SocketsInv, Typed
        <3> QED BY <3>1, <3>2, Distinct
    <2>2. Readable(pid) /\ leads[pid][fd] = i
        BY <2>1 DEF Target
    <2>3. pid \in Pids /\ pid # NoPid /\ program[pid] \in Programs
        <3>1. pid \in Pids
            BY <1>1
        <3>2. program[pid] \in Running /\ program[pid] # Nobody
            BY <2>2, <3>1 DEF SocketsInv, Typed, Readable
        <3> QED BY <3>1, <3>2, Distinct DEF Running
    <2>4. <<pid, program[pid], i>> \in held
        <3>1. <<pid, program[pid], i>> \in Held
            BY <2>1, <2>2, <2>3, HeldAre
        <3> QED BY <3>1 DEF SocketsInv, Observed
    <2>5. /\ found' = [found EXCEPT ![i] = pid]
          /\ step' \in {"walk", "names"} /\ fds' \subseteq Fds
          /\ step' = "names" => \A j \in Wanted : found'[j] # NoPid
          /\ step' = "walk" => fds' = fds \ {fd}
        BY <1>1, <1>4 DEF ReadLink, Attributed
    <2> HIDE DEF i
    <2>6. /\ found' \in [Inodes -> {NoPid} \cup Pids] /\ found'[i] = pid
          /\ \A j \in Inodes : j # i => found'[j] = found[j]
        BY <1>1, <2>1, <2>3, <2>5
    <2>7. OwnersHeld'
        BY <1>1, <2>3, <2>4, <2>6 DEF SocketsInv, OwnersHeld, processVars, seenVars
    <2>8. Walked'
        <3> SUFFICES ASSUME NEW h \in steady, h[3] \in Wanted, Readable(h[1]), h[1] \notin recycled,
                            Passed(h[1], h[2])'
                     PROVE  found'[h[3]] # NoPid
            BY <1>1, <1>2, <1>3 DEF Walked, seenVars
        <3>1. h[3] \in Inodes /\ leads[h[1]][h[2]] = h[3]
            BY SteadyLeads
        <3>2. CASE h[3] = i
            BY <2>3, <2>6, <3>2
        <3>3. CASE step' = "names"
            BY <2>5, <3>3
        <3>4. CASE h[3] # i /\ step' = "walk"
            <4>1. ~(h[1] = pid /\ h[2] = fd)
                BY <2>2, <3>1, <3>4
            <4>2. Passed(h[1], h[2])
                BY <1>1, <2>5, <3>4, <4>1 DEF Passed
            <4> QED BY <2>6, <3>1, <3>4, <4>2 DEF SocketsInv, Walked
        <3> QED BY <2>5, <3>2, <3>3, <3>4
    <2> QED BY <1>1, <2>5, <2>6, <2>7, <2>8, WalkedOn
<1>5. CASE i \notin Wanted
    <2>1. found' = found /\ fds' = fds \ {fd} /\ step' = step
        BY <1>5 DEF ReadLink
    <2>2. OwnersHeld'
        BY <1>1, <2>1 DEF SocketsInv, OwnersHeld, processVars, seenVars
    <2>3. Walked'
        <3> SUFFICES ASSUME NEW h \in steady, h[3] \in Wanted, Readable(h[1]), h[1] \notin recycled,
                            Passed(h[1], h[2])'
                     PROVE  found[h[3]] # NoPid
            BY <1>1, <1>2, <1>3, <2>1 DEF Walked, seenVars
        <3>1. leads[h[1]][h[2]] = h[3]
            BY SteadyLeads
        <3>2. ~(h[1] = pid /\ h[2] = fd)
            BY <1>5, <3>1 DEF Target
        <3>3. Passed(h[1], h[2])
            BY <1>1, <2>1, <3>2 DEF Passed
        <3> QED BY <3>3 DEF SocketsInv, Walked
    <2> QED BY <1>1, <2>1, <2>2, <2>3, WalkedOn
<1> QED BY <1>4, <1>5

\* Only the rows change.
LEMMA RowsOn ==
    ASSUME SocketsInv, step = "names", rows' \in Seq(Row), RowsTrue',
           UNCHANGED <<processVars, step, table, bound, established, pid, fds, found,
                       listeners, seenVars>>
    PROVE  SocketsInv'
<1> USE DEF processVars, seenVars
<1>1. Typed'
    BY DEF SocketsInv, Typed
<1>2. Observed'
    BY DEF SocketsInv, Observed, Held, Holds, OpenSockets
<1>3. TablesRead'
    BY DEF SocketsInv, TablesRead, Wanted
<1>4. Walked'
    BY DEF SocketsInv, Walked, Readable, Passed, Wanted
<1>5. OwnersHeld'
    BY DEF SocketsInv, OwnersHeld
<1> QED BY <1>1, <1>2, <1>3, <1>4, <1>5 DEF SocketsInv

LEMMA ConnectionsNat == ASSUME Typed, NEW i PROVE Connections(i) \in Nat
<1>1. {c \in established : Socket[c].port = Socket[i].port} \subseteq Inodes
    BY DEF Typed
<1>2. IsFiniteSet({c \in established : Socket[c].port = Socket[i].port})
    BY <1>1, SocketsAssumption, FS_Subset
<1> QED BY <1>2, FS_CardinalityType DEF Connections

\* What is read of a socket's owner: nothing, or what held the socket.
LEMMA TextTrue ==
    ASSUME SocketsInv, NEW i \in Inodes, NEW unreadable
    PROVE  /\ found[i] \in {NoPid} \cup Pids
           /\ Text(found[i], unreadable) \in Running
           /\ found[i] = NoPid => Text(found[i], unreadable) = Nobody
           /\ found[i] # NoPid /\ found[i] \notin recycled /\ Text(found[i], unreadable) # Nobody
                 => <<found[i], Text(found[i], unreadable), i>> \in held
<1>1. found[i] \in {NoPid} \cup Pids /\ program \in [Pids -> Running]
    BY DEF SocketsInv, Typed
<1>2. \/ Text(found[i], unreadable) = Nobody
      \/ found[i] # NoPid /\ Text(found[i], unreadable) = program[found[i]]
    BY DEF Text
<1>3. found[i] = NoPid => Text(found[i], unreadable) = Nobody
    BY DEF Text
<1>4. Nobody \in Running
    BY DEF Running
<1>5. found[i] # NoPid /\ found[i] \notin recycled /\ program[found[i]] # Nobody
          => <<found[i], program[found[i]], i>> \in held
    BY DEF SocketsInv, OwnersHeld
<1> QED BY <1>1, <1>2, <1>3, <1>4, <1>5

LEMMA ReadNameSockets == SocketsInv /\ ReadName => SocketsInv'
<1> SUFFICES ASSUME SocketsInv, ReadName PROVE SocketsInv'
    OBVIOUS
<1> DEFINE n == Len(rows)
           i == bound[n + 1]
           row == [inode |-> i, pid |-> found[i], connections |-> Connections(i),
                   process |-> Text(Asked(i), Nameless), command |-> Unread]
<1>1. /\ step = "names" /\ n < Len(bound) /\ rows' = Append(rows, row)
      /\ UNCHANGED <<processVars, step, table, bound, established, pid, fds, found,
                     listeners, seenVars>>
    BY DEF ReadName
<1>2. rows \in Seq(Row) /\ n \in Nat /\ Len(bound) \in Nat /\ i \in Inodes
    <2>1. rows \in Seq(Row) /\ bound \in Seq(Inodes)
        BY DEF SocketsInv, Typed
    <2>2. n \in Nat /\ Len(bound) \in Nat
        BY <2>1
    <2>3. n + 1 \in 1..Len(bound)
        BY <1>1, <2>2
    <2> QED BY <2>1, <2>2, <2>3
<1> HIDE DEF i
<1>3. /\ found[i] \in {NoPid} \cup Pids
      /\ Text(Asked(i), Nameless) \in Running
      /\ found[i] = NoPid => Text(Asked(i), Nameless) = Nobody
      /\ found[i] # NoPid /\ found[i] \notin recycled /\ Text(Asked(i), Nameless) # Nobody
            => <<found[i], Text(Asked(i), Nameless), i>> \in held
    BY <1>2, TextTrue DEF Asked
<1>4. row \in Row
    <2>1. Connections(i) \in Nat
        BY ConnectionsNat DEF SocketsInv
    <2> QED BY <1>2, <1>3, <2>1 DEF Row
<1>5. RowTrue(row, i)
    <2>1. /\ row.inode = i /\ row.pid = found[i] /\ row.connections = Connections(i)
          /\ row.process = Text(Asked(i), Nameless) /\ row.command = Unread
        OBVIOUS
    <2> HIDE DEF row
    <2> QED BY <1>3, <2>1 DEF RowTrue
<1> HIDE DEF row, n
<1>6. /\ rows' \in Seq(Row) /\ Len(rows') = n + 1
      /\ \A k \in 1..n : rows'[k] = rows[k]
      /\ rows'[n + 1] = row
    BY <1>1, <1>2, <1>4 DEF n
<1>7. RowsTrue'
    <2>1. Len(rows') <= Len(bound')
        BY <1>1, <1>2, <1>6
    <2>2. ASSUME NEW k \in 1..Len(rows') PROVE RowTrue(rows'[k], bound[k])
        <3>1. k \in 1..n \/ k = n + 1
            BY <1>2, <1>6
        <3>2. k \in 1..n => RowTrue(rows'[k], bound[k])
            BY <1>6 DEF SocketsInv, RowsTrue, n
        <3> QED BY <1>5, <1>6, <3>1, <3>2 DEF i, n
    <2>3. ASSUME NEW k \in 1..Len(rows') PROVE RowTrue(rows[k], bound[k])'
        <3>1. RowTrue(rows'[k], bound[k])
            BY <2>2
        <3>2. bound' = bound
            BY <1>1
        <3> QED BY <1>1, <3>1, <3>2 DEF RowTrue, Connections, processVars, seenVars
    <2> QED BY <2>1, <2>3 DEF RowsTrue
<1> QED BY <1>1, <1>6, <1>7, RowsOn

LEMMA ReadCommandSockets == SocketsInv /\ ReadCommand => SocketsInv'
<1> SUFFICES ASSUME SocketsInv, ReadCommand PROVE SocketsInv'
    OBVIOUS
<1> DEFINE n == Len(rows)
           r == rows[n]
           i == bound[n]
           text == Text(Asked(r.inode), Bare)
           row == [r EXCEPT !.command = text]
<1>1. /\ rows' = [rows EXCEPT ![n].command = text]
      /\ \E k \in DOMAIN rows : rows[k].command = Unread
      /\ UNCHANGED <<processVars, step, table, bound, established, pid, fds, found,
                     listeners, seenVars>>
    BY DEF ReadCommand, NamesRead
<1>2. /\ rows \in Seq(Row) /\ bound \in Seq(Inodes) /\ n \in 1..Len(rows) /\ n \in 1..Len(bound)
      /\ r \in Row /\ i \in Inodes /\ step = "names"
    <2>1. rows \in Seq(Row) /\ bound \in Seq(Inodes) /\ n \in Nat /\ DOMAIN rows = 1..n
          /\ Len(bound) \in Nat /\ n <= Len(bound)
        BY DEF SocketsInv, Typed, RowsTrue
    <2>2. n # 0 /\ rows # <<>>
        BY <1>1, <2>1
    <2>3. n \in 1..Len(rows) /\ n \in 1..Len(bound)
        BY <2>1, <2>2
    <2> QED BY <2>1, <2>2, <2>3 DEF SocketsInv, Typed
<1>3. RowTrue(r, i)
    BY <1>2 DEF SocketsInv, RowsTrue
<1>4. /\ found[i] \in {NoPid} \cup Pids /\ text \in Running
      /\ found[i] = NoPid => text = Nobody
      /\ found[i] # NoPid /\ found[i] \notin recycled /\ text # Nobody => <<found[i], text, i>> \in held
    <2>1. r.inode = i
        BY <1>3 DEF RowTrue
    <2> QED BY <1>2, <2>1, TextTrue DEF Asked
<1> HIDE DEF text
<1>5. /\ row \in Row /\ row.inode = r.inode /\ row.pid = r.pid
      /\ row.connections = r.connections /\ row.process = r.process /\ row.command = text
    <2> HIDE DEF r
    <2> QED BY <1>2, <1>4 DEF Row
<1>6. RowTrue(row, i)
    <2> HIDE DEF row, r, i
    <2> QED BY <1>3, <1>4, <1>5 DEF RowTrue
<1>7. /\ rows' \in Seq(Row) /\ Len(rows') = Len(rows) /\ rows'[n] = row
      /\ \A k \in 1..Len(rows) : k # n => rows'[k] = rows[k]
    <2>1. rows' = [rows EXCEPT ![n] = row]
        BY <1>1
    <2> HIDE DEF row, n
    <2> QED BY <1>2, <1>5, <2>1
<1> HIDE DEF row
<1>8. RowsTrue'
    <2>1. Len(rows') <= Len(bound')
        BY <1>1, <1>7 DEF SocketsInv, RowsTrue
    <2>2. ASSUME NEW k \in 1..Len(rows') PROVE RowTrue(rows[k], bound[k])'
        <3>1. RowTrue(rows'[k], bound[k])
            BY <1>6, <1>7 DEF SocketsInv, RowsTrue
        <3>2. bound' = bound
            BY <1>1
        <3> QED BY <1>1, <3>1, <3>2 DEF RowTrue, Connections, processVars, seenVars
    <2> QED BY <2>1, <2>2 DEF RowsTrue
<1> QED BY <1>1, <1>2, <1>7, <1>8, RowsOn

LEMMA NextSockets == SocketsInv /\ [SocketsNext]_socketVars => SocketsInv'
<1> SUFFICES ASSUME SocketsInv, [SocketsNext]_socketVars PROVE SocketsInv'
    OBVIOUS
<1>1. CASE ProcessStep
    BY <1>1, ProcessStepSockets
<1>2. CASE ReadTable
    BY <1>2, ReadTableSockets
<1>3. CASE CannotRead
    BY <1>3, ForgetSockets DEF CannotRead
<1>4. CASE NextProcess
    BY <1>4, NextProcessSockets
<1>5. ASSUME NEW fd \in Fds, ReadLink(fd) PROVE SocketsInv'
    BY <1>5, ReadLinkSockets
<1>6. CASE ReadName
    BY <1>6, ReadNameSockets
<1>7. CASE ReadCommand
    BY <1>7, ReadCommandSockets
<1>8. CASE Return
    BY <1>8, ForgetSockets DEF Return
<1>9. CASE UNCHANGED socketVars
    <2> USE DEF socketVars, processVars, readerVars, seenVars
    <2>1. Typed'
        BY <1>9 DEF SocketsInv, Typed
    <2>2. Observed'
        BY <1>9 DEF SocketsInv, Observed, Held, Holds, OpenSockets
    <2>3. TablesRead'
        BY <1>9 DEF SocketsInv, TablesRead, Wanted
    <2>4. Walked'
        BY <1>9 DEF SocketsInv, Walked, Readable, Passed, Wanted
    <2>5. OwnersHeld'
        BY <1>9 DEF SocketsInv, OwnersHeld
    <2>6. RowsTrue'
        BY <1>9 DEF SocketsInv, RowsTrue, RowTrue, Connections
    <2> QED BY <2>1, <2>2, <2>3, <2>4, <2>5, <2>6 DEF SocketsInv
<1> QED BY <1>1, <1>2, <1>3, <1>4, <1>5, <1>6, <1>7, <1>8, <1>9 DEF SocketsNext, Collect

-------------------------------------------------------------------------------
(* What collect() returns.                                                 *)

\* The list has every row in one place.
LEMMA ListedOnce ==
    ASSUME SocketsInv, Return
    PROVE  /\ step = "names" /\ table = 5
           /\ \A k \in DOMAIN listeners' :
                 /\ listeners'[k] \in Row /\ listeners'[k].command # Unread
                 /\ \E i \in Inodes : RowTrue(listeners'[k], i)
           /\ \A i \in Wanted : \E k \in DOMAIN listeners' : Listed(i) = {k}
<1>1. /\ step = "names" /\ table = 5 /\ Len(rows) = Len(bound)
      /\ \A k \in DOMAIN rows : rows[k].command # Unread
    BY DEF Return, NamesRead, SocketsInv, Typed
<1>2. /\ rows \in Seq(Row) /\ DOMAIN rows = 1..Len(rows)
      /\ bound \in Seq(Inodes) /\ DOMAIN bound = 1..Len(bound)
    BY DEF SocketsInv, Typed
<1>3. PICK order \in Bijection(DOMAIN rows, DOMAIN rows) :
          listeners' = [k \in DOMAIN rows |-> rows[order[k]]]
    BY DEF Return
<1>4. /\ order \in [DOMAIN rows -> DOMAIN rows]
      /\ \A j, k \in DOMAIN rows : order[j] = order[k] => j = k
      /\ \A n \in DOMAIN rows : \E k \in DOMAIN rows : order[k] = n
    BY <1>3 DEF Bijection, Injection, Surjection, IsInjective
<1>5. /\ DOMAIN listeners' = DOMAIN rows
      /\ \A k \in DOMAIN rows : order[k] \in DOMAIN rows /\ listeners'[k] = rows[order[k]]
    BY <1>3, <1>4
<1>6. \A n \in DOMAIN rows : RowTrue(rows[n], bound[n]) /\ bound[n] \in Inodes /\ rows[n].inode = bound[n]
    BY <1>1, <1>2 DEF SocketsInv, RowsTrue, RowTrue
<1>7. ASSUME NEW i \in Wanted PROVE \E k \in DOMAIN listeners' : Listed(i) = {k}
    <2>1. PICK n \in DOMAIN rows : bound[n] = i
        BY <1>1, <1>2, WantedRows
    <2>2. PICK k \in DOMAIN rows : order[k] = n
        BY <1>4
    <2>3. listeners'[k].inode = i
        BY <1>5, <1>6, <2>1, <2>2
    <2>4. ASSUME NEW j \in DOMAIN rows, listeners'[j].inode = i PROVE j = k
        <3>1. bound[order[j]] = bound[n] /\ order[j] \in 1..Len(bound) /\ n \in 1..Len(bound)
            BY <1>1, <1>2, <1>5, <1>6, <2>1, <2>4
        <3>2. order[j] = n
            BY <3>1 DEF SocketsInv, TablesRead
        <3> QED BY <1>4, <2>2, <3>2
    <2> QED BY <1>5, <2>3, <2>4 DEF Listed
<1>8. ASSUME NEW k \in DOMAIN listeners'
      PROVE  /\ listeners'[k] \in Row /\ listeners'[k].command # Unread
             /\ \E i \in Inodes : RowTrue(listeners'[k], i)
    <2>1. order[k] \in DOMAIN rows /\ listeners'[k] = rows[order[k]]
        BY <1>5
    <2> QED BY <1>1, <1>2, <1>6, <2>1
<1> QED BY <1>1, <1>7, <1>8

\* A socket that listened all along is listed once, with an owner if one was to be found.
LEMMA KeptIsListed ==
    ASSUME SocketsInv, Return, NEW i \in kept, IsBoundForInput(i)
    PROVE  /\ Cardinality(Listed(i)) = 1
           /\ \A k \in Listed(i) : listeners'[k].pid = found[i] /\ listeners'[k].connections = Connections(i)
           /\ \A h \in steady : h[3] = i /\ Readable(h[1]) /\ h[1] \notin recycled => found[i] # NoPid
<1>1. step = "names" /\ table = 5 /\ i \in Inodes
    BY ListedOnce DEF SocketsInv, Typed
<1>2. Socket[i].table < table
    BY <1>1, SocketTables
<1>3. i \in Wanted
    BY <1>2 DEF SocketsInv, TablesRead
<1>4. PICK k \in DOMAIN listeners' : Listed(i) = {k}
    BY <1>3, ListedOnce
<1>5. Cardinality(Listed(i)) = 1
    BY <1>4, FS_Singleton
<1>6. listeners'[k].inode = i /\ \E j \in Inodes : RowTrue(listeners'[k], j)
    BY <1>4, ListedOnce DEF Listed
<1>7. listeners'[k].pid = found[i] /\ listeners'[k].connections = Connections(i)
    BY <1>6 DEF RowTrue
<1>8. \A h \in steady : Passed(h[1], h[2])
    BY <1>1 DEF Passed
<1>9. \A h \in steady : h[3] = i /\ Readable(h[1]) /\ h[1] \notin recycled => found[i] # NoPid
    BY <1>3, <1>8 DEF SocketsInv, Walked
<1> QED BY <1>4, <1>5, <1>7, <1>9

\* Every connection that lasted is counted.
LEMMA LastingCounted ==
    ASSUME SocketsInv, Return, NEW i
    PROVE  Connections(i) >= Cardinality({c \in kept : IsConnection(c) /\ Socket[c].port = Socket[i].port})
<1> DEFINE lasting == {c \in kept : IsConnection(c) /\ Socket[c].port = Socket[i].port}
           counted == {c \in established : Socket[c].port = Socket[i].port}
<1>1. lasting \subseteq counted
    <2> SUFFICES ASSUME NEW c \in kept, IsConnection(c) PROVE c \in established
        OBVIOUS
    <2>1. ~IsBoundForInput(c)
        BY DEF IsConnection, IsBoundForInput
    <2>2. Socket[c].table < table
        <3>1. table = 5 /\ c \in Inodes
            BY ListedOnce DEF SocketsInv, Typed
        <3> QED BY <3>1, SocketTables
    <2> QED BY <2>1, <2>2 DEF SocketsInv, TablesRead
<1>2. IsFiniteSet(counted)
    <2>1. counted \subseteq Inodes
        BY DEF SocketsInv, Typed
    <2> QED BY <2>1, SocketsAssumption, FS_Subset
<1>3. Connections(i) = Cardinality(counted)
    BY DEF Connections
<1> HIDE DEF counted
<1>4. Cardinality(lasting) <= Cardinality(counted) /\ IsFiniteSet(lasting)
    BY <1>1, <1>2, FS_Subset
<1> HIDE DEF lasting
<1>5. Cardinality(counted) >= Cardinality(lasting)
    BY <1>2, <1>4, FS_CardinalityType
<1> QED BY <1>3, <1>5 DEF lasting

LEMMA SteadyIsListed ==
    ASSUME SocketsInv, Return, NEW i \in kept
    PROVE  LET Owned == \E h \in steady : h[3] = i /\ Readable(h[1]) /\ h[1] \notin recycled
           IN  IsBoundForInput(i) =>
                  /\ Cardinality(Listed(i)) = 1
                  /\ \A k \in Listed(i) :
                        /\ Owned => listeners'[k].pid # NoPid
                        /\ listeners'[k].connections >=
                              Cardinality({c \in kept : IsConnection(c)
                                              /\ Socket[c].port = Socket[i].port})
BY KeptIsListed, LastingCounted

LEMMA RowNamesOwner ==
    ASSUME SocketsInv, Return, NEW k \in DOMAIN listeners'
    PROVE  LET row == listeners'[k]
               Had(prog) == <<row.pid, prog, row.inode>> \in held
           IN  IF row.pid = NoPid
               THEN DescribeProcess(row) = Nobody
               ELSE /\ \E prog \in Programs : Had(prog)
                    /\ row.pid \notin recycled =>
                          \A text \in {row.process, row.command} \ {Nobody} : Had(text)
<1> DEFINE row == listeners'[k]
<1>1. PICK i \in Inodes : RowTrue(row, i)
    BY ListedOnce
<1>2. row.command # Unread
    BY ListedOnce
<1> HIDE DEF row
<1>3. row.inode = i /\ row.pid = found[i]
    BY <1>1 DEF RowTrue
<1>4. row.pid = NoPid => DescribeProcess(row) = Nobody
    BY <1>1, <1>2 DEF RowTrue, DescribeProcess
<1>5. row.pid # NoPid => \E prog \in Programs : <<row.pid, prog, row.inode>> \in held
    BY <1>3 DEF SocketsInv, OwnersHeld
<1>6. row.pid # NoPid /\ row.pid \notin recycled =>
          \A text \in {row.process, row.command} \ {Nobody} : <<row.pid, text, row.inode>> \in held
    BY <1>1, <1>2, <1>3 DEF RowTrue
<1> QED BY <1>4, <1>5, <1>6 DEF row

-------------------------------------------------------------------------------
(* The search.                                                               *)

\* A run of characters between white space.
Run(q, a, b) ==
    /\ a \in 1..Len(q) /\ b \in 1..Len(q) /\ a <= b
    /\ \A i \in a..b : q[i] \notin Spaces
    /\ a > 1 => q[a - 1] \in Spaces
    /\ b < Len(q) => q[b + 1] \in Spaces

LEMMA TermsAreRuns ==
    ASSUME NEW q, NEW t
    PROVE  t \in Terms(q) <=> \E a, b \in 1..Len(q) : Run(q, a, b) /\ t = SubSeq(q, a, b)
<1>1. ASSUME t \in Terms(q) PROVE \E a, b \in 1..Len(q) : Run(q, a, b) /\ t = SubSeq(q, a, b)
    <2>1. PICK r \in (1..Len(q)) \X (1..Len(q)) :
              /\ t = SubSeq(q, r[1], r[2])
              /\ r[1] <= r[2]
              /\ \A i \in r[1]..r[2] : q[i] \notin Spaces
              /\ r[1] > 1 => q[r[1] - 1] \in Spaces
              /\ r[2] < Len(q) => q[r[2] + 1] \in Spaces
        BY <1>1 DEF Terms
    <2>2. r[1] \in 1..Len(q) /\ r[2] \in 1..Len(q)
        OBVIOUS
    <2> QED BY <2>1, <2>2 DEF Run
<1>2. ASSUME NEW a \in 1..Len(q), NEW b \in 1..Len(q), Run(q, a, b), t = SubSeq(q, a, b)
      PROVE  t \in Terms(q)
    <2>1. /\ <<a, b>> \in (1..Len(q)) \X (1..Len(q))
          /\ <<a, b>>[1] = a /\ <<a, b>>[2] = b
        OBVIOUS
    <2> QED BY <1>2, <2>1 DEF Terms, Run
<1> QED BY <1>1, <1>2

\* A text and a character behind it.
LEMMA Appended ==
    ASSUME NEW q \in Seq(Forms), NEW x \in Forms
    PROVE  /\ Len(q) \in Nat /\ Append(q, x) \in Seq(Forms) /\ Len(Append(q, x)) = Len(q) + 1
           /\ \A i \in 1..Len(q) : Append(q, x)[i] = q[i] /\ q[i] \in Forms
           /\ Append(q, x)[Len(q) + 1] = x
OBVIOUS

\* What lies before the end of a text is not changed by a character behind it.
LEMMA SubSeqKept ==
    ASSUME NEW q \in Seq(Forms), NEW x \in Forms, NEW a \in 1..Len(q), NEW b \in 1..Len(q)
    PROVE  SubSeq(Append(q, x), a, b) = SubSeq(q, a, b)
OBVIOUS

LEMMA SubSeqStarts ==
    ASSUME NEW q \in Seq(Forms), NEW a \in 1..Len(q), NEW b \in a..Len(q)
    PROVE  /\ SubSeq(q, a, b) \in Seq(Forms) /\ Len(SubSeq(q, a, b)) = b - a + 1
           /\ SubSeq(q, a, b) # <<>> /\ SubSeq(q, a, b)[1] = q[a]
<1>1. a \in Nat /\ b \in Nat /\ Len(q) \in Nat /\ a >= 1 /\ a <= b /\ b <= Len(q)
    OBVIOUS
<1>2. SubSeq(q, a, b) \in Seq(Forms) /\ Len(SubSeq(q, a, b)) = b - a + 1
    BY <1>1
<1>3. SubSeq(q, a, b)[1] = q[a]
    BY <1>1
<1>4. \A s \in Seq(Forms) : Len(s) >= 1 => s # <<>>
    OBVIOUS
<1> QED BY <1>1, <1>2, <1>3, <1>4

LEMMA SubSeqOne ==
    ASSUME NEW q \in Seq(Forms), NEW e \in 1..Len(q)
    PROVE  SubSeq(q, e, e) = <<q[e]>>
<1>1. e \in Nat /\ Len(q) \in Nat /\ e \in e..Len(q) /\ q[e] \in Forms
    OBVIOUS
<1>2. /\ SubSeq(q, e, e) \in Seq(Forms) /\ Len(SubSeq(q, e, e)) = e - e + 1
      /\ SubSeq(q, e, e)[1] = q[e]
    BY <1>1, SubSeqStarts
<1>3. <<q[e]>> \in Seq(Forms) /\ Len(<<q[e]>>) = 1 /\ <<q[e]>>[1] = q[e]
    BY <1>1
<1>4. Len(SubSeq(q, e, e)) = 1 /\ \A i \in 1..1 : i = 1
    BY <1>1, <1>2
<1>5. \A i \in 1..Len(SubSeq(q, e, e)) : SubSeq(q, e, e)[i] = <<q[e]>>[i]
    BY <1>2, <1>3, <1>4, Zenon
<1> QED BY <1>2, <1>3, <1>4, <1>5, SameList

\* A run that ends before the end of a text, or at it before white space, stays one,
\* and is all there was.
LEMMA RunKept ==
    ASSUME NEW q \in Seq(Forms), NEW x \in Forms, NEW a \in 1..Len(q), NEW b \in 1..Len(q),
           b < Len(q) \/ x \in Spaces
    PROVE  Run(Append(q, x), a, b) <=> Run(q, a, b)
<1>1. /\ Len(q) \in Nat /\ Len(Append(q, x)) = Len(q) + 1
      /\ \A i \in 1..Len(q) : Append(q, x)[i] = q[i]
      /\ Append(q, x)[Len(q) + 1] = x
    BY Appended
<1>2. /\ a \in 1..Len(Append(q, x)) /\ b \in 1..Len(Append(q, x)) /\ b < Len(Append(q, x))
      /\ \A i \in a..b : i \in 1..Len(q)
      /\ a > 1 => a - 1 \in 1..Len(q)
    BY <1>1
<1>3. b < Len(q) => b + 1 \in 1..Len(q)
    BY <1>1
<1>4. b < Len(q) => Append(q, x)[b + 1] = q[b + 1]
    BY <1>1, <1>3
<1>5. ~(b < Len(q)) => Append(q, x)[b + 1] = x /\ x \in Spaces
    <2>1. ~(b < Len(q)) => b = Len(q)
        BY <1>1
    <2> QED BY <1>1, <2>1
<1> QED BY <1>1, <1>2, <1>4, <1>5 DEF Run

\* White space ends the run at the end of a text.
LEMMA RunBeforeSpace ==
    ASSUME NEW q \in Seq(Forms), NEW x \in Spaces, NEW a, NEW b, Run(Append(q, x), a, b)
    PROVE  a \in 1..Len(q) /\ b \in 1..Len(q)
<1>0. x \in Forms
    BY PortsAssumption
<1>1. /\ Len(q) \in Nat /\ Len(Append(q, x)) = Len(q) + 1 /\ Append(q, x)[Len(q) + 1] = x
    BY <1>0, Appended
<1>2. a \in 1..(Len(q) + 1) /\ b \in 1..(Len(q) + 1) /\ a <= b /\ Append(q, x)[b] \notin Spaces
    BY <1>1 DEF Run
<1>3. b # Len(q) + 1
    BY <1>1, <1>2
<1> QED BY <1>1, <1>2, <1>3

LEMMA TermsBeforeSpace ==
    ASSUME NEW q \in Seq(Forms), NEW x \in Spaces
    PROVE  Terms(Append(q, x)) = Terms(q)
<1>0. x \in Forms
    BY PortsAssumption
<1>1. /\ Len(q) \in Nat /\ Len(Append(q, x)) = Len(q) + 1
    BY <1>0, Appended
<1>2. ASSUME NEW t \in Terms(q) PROVE t \in Terms(Append(q, x))
    <2>1. PICK a, b \in 1..Len(q) : Run(q, a, b) /\ t = SubSeq(q, a, b)
        BY TermsAreRuns
    <2>2. Run(Append(q, x), a, b) /\ t = SubSeq(Append(q, x), a, b)
        BY <1>0, <2>1, RunKept, SubSeqKept
    <2>3. a \in 1..Len(Append(q, x)) /\ b \in 1..Len(Append(q, x))
        BY <1>1
    <2> QED BY <2>2, <2>3, TermsAreRuns
<1>3. ASSUME NEW t \in Terms(Append(q, x)) PROVE t \in Terms(q)
    <2>1. PICK a, b \in 1..Len(Append(q, x)) :
              Run(Append(q, x), a, b) /\ t = SubSeq(Append(q, x), a, b)
        BY TermsAreRuns
    <2>2. a \in 1..Len(q) /\ b \in 1..Len(q)
        BY <2>1, RunBeforeSpace
    <2>3. Run(q, a, b) /\ t = SubSeq(q, a, b)
        BY <1>0, <2>1, <2>2, RunKept, SubSeqKept
    <2> QED BY <2>2, <2>3, TermsAreRuns
<1> QED BY <1>2, <1>3

\* The text ends in white space, or is empty.
Gap(q) == q = <<>> \/ q[Len(q)] \in Spaces

\* Behind a gap a character starts a term.
LEMMA TermsBehindGap ==
    ASSUME NEW q \in Seq(Forms), NEW x \in Forms, x \notin Spaces, Gap(q)
    PROVE  Terms(Append(q, x)) = Terms(q) \cup {<<x>>}
<1>1. /\ Len(q) \in Nat /\ Len(Append(q, x)) = Len(q) + 1 /\ Append(q, x)[Len(q) + 1] = x
      /\ Append(q, x) \in Seq(Forms)
      /\ \A i \in 1..Len(q) : Append(q, x)[i] = q[i]
    BY Appended
<1>2. Len(q) # 0 => q[Len(q)] \in Spaces
    BY <1>1 DEF Gap
<1>3. ASSUME NEW t \in Terms(q) PROVE t \in Terms(Append(q, x))
    <2>1. PICK a, b \in 1..Len(q) : Run(q, a, b) /\ t = SubSeq(q, a, b)
        BY TermsAreRuns
    <2>2. b < Len(q)
        <3>1. b \in a..b /\ q[b] \notin Spaces
            BY <2>1 DEF Run
        <3>2. b # Len(q)
            BY <1>1, <1>2, <3>1
        <3> QED BY <1>1, <3>2
    <2>3. Run(Append(q, x), a, b) /\ t = SubSeq(Append(q, x), a, b)
        BY <2>1, <2>2, RunKept, SubSeqKept
    <2>4. a \in 1..Len(Append(q, x)) /\ b \in 1..Len(Append(q, x))
        BY <1>1
    <2> QED BY <2>3, <2>4, TermsAreRuns
<1>4. <<x>> \in Terms(Append(q, x))
    <2> DEFINE e == Len(q) + 1
    <2>1. e \in 1..Len(Append(q, x)) /\ SubSeq(Append(q, x), e, e) = <<x>>
        <3>1. e \in 1..Len(Append(q, x))
            BY <1>1
        <3>2. SubSeq(Append(q, x), e, e) = <<Append(q, x)[e]>>
            BY <1>1, <3>1, SubSeqOne
        <3> QED BY <1>1, <3>1, <3>2
    <2>2. Run(Append(q, x), e, e)
        <3>1. \A i \in e..e : Append(q, x)[i] = x
            BY <1>1
        <3>2. e > 1 => Append(q, x)[e - 1] \in Spaces
            BY <1>1, <1>2
        <3> QED BY <1>1, <2>1, <3>1, <3>2 DEF Run
    <2> QED BY <2>1, <2>2, TermsAreRuns
<1>5. ASSUME NEW t \in Terms(Append(q, x)) PROVE t \in Terms(q) \cup {<<x>>}
    <2>1. PICK a, b \in 1..Len(Append(q, x)) :
              Run(Append(q, x), a, b) /\ t = SubSeq(Append(q, x), a, b)
        BY TermsAreRuns
    <2>2. /\ a \in Nat /\ b \in Nat /\ a >= 1 /\ a <= b /\ b <= Len(q) + 1
          /\ \A i \in a..b : Append(q, x)[i] \notin Spaces
        BY <1>1, <2>1 DEF Run
    <2>3. Len(q) # 0 => Len(q) \notin a..b
        BY <1>1, <1>2, <2>2
    <2>4. CASE b = Len(q) + 1
        <3>1. a = b
            BY <1>1, <2>2, <2>3, <2>4
        <3>2. t = <<x>>
            BY <1>1, <2>1, <2>4, <3>1, SubSeqOne
        <3> QED BY <3>2
    <2>5. CASE b # Len(q) + 1
        <3>1. b < Len(q) /\ a \in 1..Len(q) /\ b \in 1..Len(q)
            BY <1>1, <2>2, <2>3, <2>5
        <3>2. Run(q, a, b) /\ t = SubSeq(q, a, b)
            BY <2>1, <3>1, RunKept, SubSeqKept
        <3> QED BY <3>1, <3>2, TermsAreRuns
    <2> QED BY <2>4, <2>5
<1> QED BY <1>3, <1>4, <1>5

\* A text that another one begins with.
Begins(now, was) ==
    /\ now \in Seq(Forms) /\ was \in Seq(Forms)
    /\ Len(was) <= Len(now) /\ \A i \in 1..Len(was) : now[i] = was[i]

\* A term at the end of a text is negated.
Negated(q) ==
    \E a \in 1..Len(q) : /\ q[a] = Bang
                         /\ a > 1 => q[a - 1] \in Spaces
                         /\ \A j \in a..Len(q) : q[j] \notin Spaces

LEMMA SubSeqBegins ==
    ASSUME NEW was, NEW now, Begins(now, was),
           NEW a \in 1..Len(was), NEW b \in a..Len(was), NEW e \in b..Len(now)
    PROVE  Begins(SubSeq(now, a, e), SubSeq(was, a, b))
<1>1. /\ Len(was) \in Nat /\ Len(now) \in Nat /\ Len(was) <= Len(now)
      /\ now \in Seq(Forms) /\ was \in Seq(Forms)
      /\ \A i \in 1..Len(was) : now[i] = was[i]
    BY SeqFacts DEF Begins
<1>2. a \in Nat /\ b \in Nat /\ e \in Nat /\ a >= 1 /\ a <= b /\ b <= e /\ b <= Len(was) /\ e <= Len(now)
    BY <1>1
<1>3. SubSeq(was, a, b) \in Seq(Forms) /\ Len(SubSeq(was, a, b)) = b - a + 1
      /\ \A i \in 1..(b - a + 1) : SubSeq(was, a, b)[i] = was[a + i - 1]
    BY <1>1, <1>2
<1>4. SubSeq(now, a, e) \in Seq(Forms) /\ Len(SubSeq(now, a, e)) = e - a + 1
      /\ \A i \in 1..(e - a + 1) : SubSeq(now, a, e)[i] = now[a + i - 1]
    BY <1>1, <1>2
<1>5. \A i \in 1..(b - a + 1) : i \in 1..(e - a + 1) /\ a + i - 1 \in 1..Len(was)
    BY <1>1, <1>2
<1>6. b - a + 1 <= e - a + 1
    BY <1>2
<1> QED BY <1>1, <1>3, <1>4, <1>5, <1>6 DEF Begins

\* A run that ends before the end of a text is one in every text that begins with it.
LEMMA RunBegins ==
    ASSUME NEW was, NEW now, Begins(now, was), NEW a, NEW b, Run(was, a, b), b < Len(was)
    PROVE  Run(now, a, b) /\ a \in 1..Len(now) /\ b \in 1..Len(now)
<1>1. /\ Len(was) \in Nat /\ Len(now) \in Nat /\ Len(was) <= Len(now)
      /\ \A i \in 1..Len(was) : now[i] = was[i]
    BY SeqFacts DEF Begins
<1>2. /\ a \in 1..Len(was) /\ b \in 1..Len(was) /\ a <= b
      /\ \A i \in a..b : was[i] \notin Spaces
      /\ a > 1 => was[a - 1] \in Spaces
      /\ was[b + 1] \in Spaces
    BY DEF Run
<1>3. /\ a \in 1..Len(now) /\ b \in 1..Len(now)
      /\ \A i \in a..b : i \in 1..Len(was)
      /\ a > 1 => a - 1 \in 1..Len(was)
      /\ b + 1 \in 1..Len(was)
    BY <1>1, <1>2
<1> QED BY <1>1, <1>2, <1>3 DEF Run

\* A run at the end of a text goes on to the next white space.
LEMMA RunGoesOn ==
    ASSUME NEW was, NEW now, Begins(now, was), NEW a, Run(was, a, Len(was))
    PROVE  \E e \in Len(was)..Len(now) : Run(now, a, e)
<1> DEFINE m == Len(was)
           n == Len(now)
           ends == {e \in 1..n : m <= e /\ (e < n => now[e + 1] \in Spaces)}
<1>1. m \in Nat /\ n \in Nat /\ m <= n /\ \A i \in 1..m : now[i] = was[i]
    BY SeqFacts DEF Begins
<1>2. /\ a \in 1..m /\ \A i \in a..m : was[i] \notin Spaces
      /\ a > 1 => was[a - 1] \in Spaces
    BY DEF Run
<1> HIDE DEF m, n
<1>3. m \in 1..n /\ n \in ends /\ ends \in SUBSET (1..n)
    BY <1>1, <1>2
<1>4. PICK e \in ends : \A k \in ends : e <= k
    BY <1>1, <1>3, FirstPlace
<1>5. e \in 1..n /\ m <= e /\ (e < n => now[e + 1] \in Spaces)
    OBVIOUS
<1> HIDE DEF ends
<1>6. \A i \in a..e : now[i] \notin Spaces
    <2> SUFFICES ASSUME NEW i \in a..e, now[i] \in Spaces PROVE FALSE
        OBVIOUS
    <2>1. i \in Nat /\ a \in Nat /\ a >= 1 /\ a <= i /\ i <= e /\ e <= n
        BY <1>1, <1>2, <1>5
    <2>2. CASE i <= m
        BY <1>1, <1>2, <2>1, <2>2
    <2>3. CASE i > m
        <3>1. i - 1 \in 1..n /\ m <= i - 1 /\ (i - 1) + 1 = i
            <4>1. m >= 1 /\ i \in Nat /\ m <= i - 1 /\ i - 1 <= n
                BY <1>1, <1>3, <2>1, <2>3
            <4> QED BY <1>1, <4>1
        <3>2. i - 1 \in ends
            BY <3>1 DEF ends
        <3>3. e <= i - 1
            BY <1>4, <3>2
        <3> QED BY <1>5, <2>1, <3>3
    <2> QED BY <1>1, <2>1, <2>2, <2>3
<1>7. a > 1 => now[a - 1] \in Spaces
    <2>1. a > 1 => a - 1 \in 1..m
        BY <1>1, <1>2
    <2> QED BY <1>1, <1>2, <2>1
<1>8. a \in 1..n /\ e \in 1..n /\ a <= e /\ e \in m..n
    BY <1>1, <1>2, <1>5
<1>9. Run(now, a, e)
    BY <1>5, <1>6, <1>7, <1>8 DEF Run, n
<1> QED BY <1>8, <1>9 DEF m, n

\* In a text that begins with another, the last term may be longer, and the others are
\* what they were.
LEMMA TermsGrow ==
    ASSUME NEW was, NEW now, Begins(now, was), NEW t \in Terms(was)
    PROVE  \/ t \in Terms(now)
           \/ /\ t \in Seq(Forms) /\ t # <<>> /\ (t[1] = Bang => Negated(was))
              /\ \E u \in Terms(now) : Begins(u, t)
<1>1. was \in Seq(Forms) /\ now \in Seq(Forms) /\ Len(was) \in Nat /\ Len(now) \in Nat
    BY SeqFacts DEF Begins
<1>2. PICK a, b \in 1..Len(was) : Run(was, a, b) /\ t = SubSeq(was, a, b)
    BY TermsAreRuns
<1>3. a <= b /\ b \in a..Len(was)
    BY <1>1, <1>2 DEF Run
<1>4. CASE b < Len(was)
    <2>1. Run(now, a, b) /\ a \in 1..Len(now) /\ b \in 1..Len(now)
        BY <1>2, <1>4, RunBegins
    <2>2. SubSeq(now, a, b) = t
        <3>1. /\ Len(was) <= Len(now) /\ \A i \in 1..Len(was) : now[i] = was[i]
            BY DEF Begins
        <3>2. b \in b..Len(now)
            BY <1>1, <2>1
        <3>3. Begins(SubSeq(now, a, b), SubSeq(was, a, b))
            BY <1>3, <3>2, SubSeqBegins
        <3>4. Len(SubSeq(now, a, b)) = b - a + 1 /\ Len(SubSeq(was, a, b)) = b - a + 1
            BY <1>1, <1>3, <2>1, SubSeqStarts
        <3>5. /\ SubSeq(now, a, b) \in Seq(Forms) /\ SubSeq(was, a, b) \in Seq(Forms)
              /\ \A i \in 1..Len(SubSeq(was, a, b)) : SubSeq(now, a, b)[i] = SubSeq(was, a, b)[i]
            BY <3>3 DEF Begins
        <3>6. SubSeq(now, a, b) = SubSeq(was, a, b)
            BY <3>4, <3>5, SameList
        <3> QED BY <1>2, <3>6
    <2> QED BY <2>1, <2>2, TermsAreRuns
<1>5. CASE ~(b < Len(was))
    <2>1. b = Len(was)
        BY <1>1, <1>3, <1>5
    <2>2. PICK e \in Len(was)..Len(now) : Run(now, a, e)
        BY <1>2, <2>1, RunGoesOn
    <2>3. SubSeq(now, a, e) \in Terms(now)
        <3>1. a \in 1..Len(now) /\ e \in 1..Len(now)
            BY <2>2 DEF Run
        <3> QED BY <2>2, <3>1, TermsAreRuns
    <2>4. Begins(SubSeq(now, a, e), t)
        <3>1. e \in b..Len(now)
            BY <2>1
        <3> QED BY <1>2, <1>3, <3>1, SubSeqBegins
    <2>5. t \in Seq(Forms) /\ t # <<>> /\ t[1] = was[a]
        BY <1>1, <1>2, <1>3, SubSeqStarts
    <2>6. t[1] = Bang => Negated(was)
        BY <1>2, <2>1, <2>5 DEF Run, Negated
    <2> QED BY <2>3, <2>4, <2>5, <2>6
<1> QED BY <1>4, <1>5

\* Where a term is found, so is what it begins with.
LEMMA ContainsLess ==
    ASSUME NEW word \in Seq(Forms), NEW t, NEW u, Begins(u, t), Contains(word, u)
    PROVE  Contains(word, t)
<1>1. /\ Len(t) \in Nat /\ Len(u) \in Nat /\ Len(word) \in Nat /\ Len(t) <= Len(u)
      /\ t \in Seq(Forms) /\ u \in Seq(Forms)
      /\ \A i \in 1..Len(t) : u[i] = t[i]
    BY SeqFacts DEF Begins
<1>2. PICK first \in 1..(Len(word) - Len(u) + 1) :
          SubSeq(word, first, first + Len(u) - 1) = u
    BY DEF Contains
<1>3. first \in Nat /\ first >= 1 /\ first + Len(u) - 1 <= Len(word)
    BY <1>1, <1>2
<1>4. first \in 1..(Len(word) - Len(t) + 1)
    BY <1>1, <1>3
<1>5. \A i \in 1..Len(u) : u[i] = word[first + i - 1]
    <2>1. \A i \in 1..Len(u) : SubSeq(word, first, first + Len(u) - 1)[i] = word[first + i - 1]
        BY <1>1, <1>3
    <2> QED BY <1>2, <2>1
<1>6. SubSeq(word, first, first + Len(t) - 1) = t
    <2> DEFINE v == SubSeq(word, first, first + Len(t) - 1)
    <2>1. v \in Seq(Forms) /\ Len(v) = Len(t) /\ \A i \in 1..Len(t) : v[i] = word[first + i - 1]
        BY <1>1, <1>3
    <2> HIDE DEF v
    <2>2. \A i \in 1..Len(t) : i \in 1..Len(u)
        BY <1>1
    <2>3. \A i \in 1..Len(v) : v[i] = t[i]
        BY <1>1, <1>5, <2>1, <2>2
    <2>4. v = t
        BY <1>1, <2>1, <2>3, SameList
    <2> QED BY <2>4 DEF v
<1> QED BY <1>4, <1>6 DEF Contains

LEMMA WordsTyped ==
    ASSUME NEW row \in Row, row.command # Unread, NEW word \in Haystack(row)
    PROVE  word \in Seq(Forms)
<1>1. PICK source \in {row.inode, row.process, row.command} \ {Nobody} : word \in Words[source]
    BY DEF Haystack
<1>2. row.inode \in Inodes /\ row.process \in Running /\ row.command \in Running
    BY DEF Row
<1>3. source \in Inodes \cup Programs
    BY <1>1, <1>2 DEF Running
<1>4. Words[source] \in SUBSET Seq(Forms)
    BY <1>3, PortsAssumption
<1> QED BY <1>1, <1>4

\* A row that meets a longer term meets the term, unless it is negated.
LEMMA MeetsLess ==
    ASSUME NEW row \in Row, row.command # Unread,
           NEW t \in Seq(Forms), t # <<>>, t[1] # Bang, NEW u, Begins(u, t),
           Meets(row, u)
    PROVE  Meets(row, t)
<1>1. Head(t) = t[1] /\ Head(u) = t[1]
    <2>1. Len(t) \in Nat /\ Len(t) # 0 /\ u \in Seq(Forms) /\ Len(t) <= Len(u)
        BY DEF Begins
    <2>2. 1 \in 1..Len(t)
        BY <2>1
    <2>3. u[1] = t[1] /\ u # <<>>
        BY <2>1, <2>2 DEF Begins
    <2> QED BY <2>1, <2>3
<1>2. Found(row, u)
    BY <1>1 DEF Meets
<1>3. Found(row, t)
    BY <1>2, WordsTyped, ContainsLess DEF Found
<1> QED BY <1>1, <1>3 DEF Meets

LEMMA MatchesLess ==
    ASSUME NEW row \in Row, row.command # Unread,
           NEW was, NEW now, Begins(now, was), ~Negated(was), Matches(row, now)
    PROVE  Matches(row, was)
<1> SUFFICES ASSUME NEW t \in Terms(was) PROVE Meets(row, t)
    BY DEF Matches
<1>1. CASE t \in Terms(now)
    BY <1>1 DEF Matches
<1>2. CASE /\ t \in Seq(Forms) /\ t # <<>> /\ (t[1] = Bang => Negated(was))
           /\ \E u \in Terms(now) : Begins(u, t)
    <2>1. PICK u \in Terms(now) : Begins(u, t)
        BY <1>2
    <2>2. Meets(row, u)
        BY DEF Matches
    <2> QED BY <1>2, <2>1, <2>2, MeetsLess
<1> QED BY <1>1, <1>2, TermsGrow

\* A `!` of a term to come excludes nothing.
LEMMA MeetsBang == ASSUME NEW row PROVE Meets(row, <<Bang>>)
<1>1. Head(<<Bang>>) = Bang /\ Tail(<<Bang>>) = <<>>
    OBVIOUS
<1> QED BY <1>1 DEF Meets

\* White space, and the `!` of a term to come, ask nothing more of a row.
LEMMA MatchesSame ==
    ASSUME NEW row, NEW q \in Seq(Forms), NEW x \in Forms, x \in Spaces \/ (Gap(q) /\ x = Bang)
    PROVE  Matches(row, Append(q, x)) <=> Matches(row, q)
<1>1. CASE x \in Spaces
    <2>1. Terms(Append(q, x)) = Terms(q)
        BY <1>1, TermsBeforeSpace
    <2> QED BY <2>1 DEF Matches
<1>2. CASE x \notin Spaces
    <2>1. Terms(Append(q, x)) = Terms(q) \cup {<<Bang>>}
        BY <1>2, TermsBehindGap
    <2> QED BY <2>1, MeetsBang DEF Matches
<1> QED BY <1>1, <1>2

\* A query no longer than a line may be is a text that can be lowered.
LEMMA LoweredTyped ==
    ASSUME NEW bytes \in Seq(Byte), Fits(bytes)
    PROVE  Decode(bytes) \in Texts /\ Lowered(bytes) \in Seq(Forms)
<1>1. Decode(bytes) \in Seq(Chars)
    BY Decoded
<1>2. Len(Decode(bytes)) \in 0..MaxChars
    BY <1>1, LineAssumption DEF Fits
<1>3. Decode(bytes) \in [1..Len(Decode(bytes)) -> Chars]
    BY <1>1
<1>4. Decode(bytes) \in Texts
    BY <1>2, <1>3 DEF Texts
<1> QED BY <1>4, PortsAssumption DEF Lowered

\* White space and `!` at the end of the query are so at the end of the text searched for.
LEMMA LoweredAfter ==
    ASSUME NEW bytes \in Seq(Byte), NEW c \in Spaces \cup {Bang},
           Fits(bytes), Fits(bytes \o Encode(c))
    PROVE  Lowered(bytes \o Encode(c)) = Append(Lowered(bytes), c)
<1>0. c \in Chars
    BY LineAssumption, PortsAssumption
<1>1. /\ Decode(bytes) \in Seq(Chars) /\ Encode(c) \in Seq(Byte)
      /\ Decode(bytes \o Encode(c)) = Decode(bytes) \o <<c>>
    BY <1>0, Decoded, EncodeBytes, DecodeJoin, DecodeCharacter
<1>2. \A s \in Seq(Chars) : s \o <<c>> = Append(s, c) /\ Len(s \o <<c>>) = Len(s) + 1 /\ Len(s) \in Nat
    BY <1>0
<1>3. /\ Decode(bytes \o Encode(c)) = Append(Decode(bytes), c)
      /\ Len(Decode(bytes \o Encode(c))) = Len(Decode(bytes)) + 1
    BY <1>1, <1>2, Zenon
<1>4. Len(Decode(bytes)) < MaxChars
    BY <1>1, <1>2, <1>3, LineAssumption DEF Fits
<1>5. Decode(bytes) \in Texts
    BY LoweredTyped
<1>6. Lower[Append(Decode(bytes), c)] = Append(Lower[Decode(bytes)], c)
    BY <1>4, <1>5, PortsAssumption
<1> QED BY <1>3, <1>6 DEF Lowered

\* What SearchNarrows says of a query and one character more.
LEMMA TypedNarrows ==
    ASSUME NEW list, \A k \in DOMAIN list : list[k] \in Row /\ list[k].command # Unread,
           NEW bytes \in Seq(Byte), Fits(bytes),
           NEW c \in Chars, bytes \o Encode(c) \in Seq(Byte), Fits(bytes \o Encode(c)),
           NEW was, was = Lowered(bytes), NEW now, now = Lowered(bytes \o Encode(c))
    PROVE  /\ Len(was) <= Len(now) /\ SubSeq(now, 1, Len(was)) = was /\ ~Negated(was)
                 => RowsMatching(list, bytes \o Encode(c)) \subseteq RowsMatching(list, bytes)
           /\ c \in Spaces \/ (Gap(was) /\ c = Bang)
                 => RowsMatching(list, bytes \o Encode(c)) = RowsMatching(list, bytes)
           /\ DOMAIN was = 1..Len(was)
<1>1. was \in Seq(Forms) /\ now \in Seq(Forms) /\ Len(was) \in Nat /\ DOMAIN was = 1..Len(was)
    <2>1. was \in Seq(Forms) /\ now \in Seq(Forms)
        BY LoweredTyped
    <2> QED BY <2>1, SeqFacts
<1>2. /\ RowsMatching(list, bytes) = {k \in DOMAIN list : Matches(list[k], was)}
      /\ RowsMatching(list, bytes \o Encode(c)) = {k \in DOMAIN list : Matches(list[k], now)}
    BY DEF RowsMatching
<1>3. ASSUME Len(was) <= Len(now), SubSeq(now, 1, Len(was)) = was, ~Negated(was)
      PROVE  RowsMatching(list, bytes \o Encode(c)) \subseteq RowsMatching(list, bytes)
    <2>1. \A i \in 1..Len(was) : SubSeq(now, 1, Len(was))[i] = now[i]
        BY <1>1, <1>3
    <2>2. Begins(now, was)
        BY <1>1, <1>3, <2>1 DEF Begins
    <2> QED BY <1>2, <1>3, <2>2, MatchesLess
<1>4. ASSUME c \in Spaces \/ (Gap(was) /\ c = Bang)
      PROVE  RowsMatching(list, bytes \o Encode(c)) = RowsMatching(list, bytes)
    <2>1. now = Append(was, c)
        BY <1>4, LoweredAfter
    <2>2. c \in Forms
        BY <1>4, PortsAssumption
    <2> QED BY <1>1, <1>2, <1>4, <2>1, <2>2, MatchesSame
<1> QED BY <1>1, <1>3, <1>4

-------------------------------------------------------------------------------
(* The screen.                                                               *)

\* The query in force is whole characters too, so that it can be opened again, and
\* neither it nor the line is longer than a line may be.
PortsInv ==
    /\ SocketsInv /\ OnBoundary /\ WellFormed(ports_query)
    /\ Fits(value) /\ Fits(ports_query)

LEMMA InitPorts == PortsInit => PortsInv
<1> SUFFICES ASSUME PortsInit PROVE PortsInv
    OBVIOUS
<1>1. SocketsInv
    BY InitSockets DEF PortsInit
<1>2. value = <<>> /\ cursor = 0 /\ ports_query = <<>>
    BY DEF PortsInit, LineInit
<1>3. WellFormed(value) /\ Edge(value, cursor) /\ WellFormed(ports_query)
    BY <1>2, NothingWhole, EdgeAtEnds
<1>4. Fits(value) /\ Fits(ports_query)
    BY <1>2, NothingFits
<1> QED BY <1>1, <1>3, <1>4, BoundaryIsEdge DEF PortsInv, OnBoundary

LEMMA SocketsUnchanged == SocketsInv /\ UNCHANGED socketVars => SocketsInv'
BY NextSockets

LEMMA LineUnchanged == OnBoundary /\ UNCHANGED lineVars => OnBoundary'
BY DEF OnBoundary, Boundary, lineVars

LEMMA NextPorts == PortsInv /\ [PortsNext]_screenVars => PortsInv'
<1> SUFFICES ASSUME PortsInv, [PortsNext]_screenVars PROVE PortsInv'
    OBVIOUS
<1> USE DEF PortsInv
<1>1. CASE Refresh
    <2>1. SocketsInv'
        BY <1>1, NextSockets DEF Refresh
    <2>2. OnBoundary' /\ value' = value /\ ports_query' = ports_query
        BY <1>1, LineUnchanged DEF Refresh, lineVars
    <2> QED BY <2>1, <2>2
<1>2. CASE OpenPrompt
    <2>1. OnBoundary' /\ value' = ports_query /\ ports_query' = ports_query
        BY <1>2, LoadOnBoundary DEF OpenPrompt, WithValue
    <2> QED BY <1>2, <2>1, SocketsUnchanged DEF OpenPrompt
<1>3. CASE EditQuery
    <2>1. OnBoundary' /\ WellFormed(value') /\ ports_query' = value'
        BY <1>3, EditOnBoundary DEF EditQuery
    <2>2. Fits(value')
        BY <1>3, EditFits DEF EditQuery
    <2> QED BY <1>3, <2>1, <2>2, SocketsUnchanged DEF EditQuery
<1>4. CASE MoveCaret
    <2>1. OnBoundary' /\ value' = value /\ ports_query' = ports_query
        BY <1>4, MoveOnBoundary DEF MoveCaret, promptVars
    <2> QED BY <1>4, <2>1, SocketsUnchanged DEF MoveCaret
<1>5. CASE Enter
    <2>1. OnBoundary' /\ value' = <<>> /\ ports_query' = ports_query
        BY <1>5, ClearOnBoundary DEF Enter, Clear
    <2> QED BY <1>5, <2>1, NothingFits, SocketsUnchanged DEF Enter
<1>6. CASE Esc
    <2>1. OnBoundary' /\ value' = <<>> /\ ports_query' = <<>>
        BY <1>6, ClearOnBoundary DEF Esc, Clear
    <2> QED BY <1>6, <2>1, NothingWhole, NothingFits, SocketsUnchanged DEF Esc
<1>7. CASE ClearQuery
    <2>1. OnBoundary' /\ value' = value /\ ports_query' = <<>>
        BY <1>7, LineUnchanged DEF ClearQuery, lineVars
    <2> QED BY <1>7, <2>1, NothingWhole, NothingFits, SocketsUnchanged DEF ClearQuery
<1>8. CASE UNCHANGED screenVars
    <2>1. OnBoundary' /\ value' = value /\ ports_query' = ports_query
        BY <1>8, LineUnchanged DEF screenVars, promptVars, lineVars
    <2> QED BY <1>8, <2>1, SocketsUnchanged DEF screenVars
<1> QED BY <1>1, <1>2, <1>3, <1>4, <1>5, <1>6, <1>7, <1>8 DEF PortsNext, Keys

LEMMA PortsInvariant == PortsSpec => []PortsInv
<1>1. PortsInit => PortsInv
    BY InitPorts
<1>2. PortsInv /\ [PortsNext]_screenVars => PortsInv'
    BY NextPorts
<1> QED BY <1>1, <1>2, PTL DEF PortsSpec

\* No key of the prompt cuts a character or leaves the cursor inside one, whatever
\* the characters are: the slices of LineInput never panic.
THEOREM CursorOnBoundary == PortsSpec => []OnBoundary
<1>1. PortsInv => OnBoundary
    BY DEF PortsInv
<1> QED BY <1>1, PortsInvariant, PTL

\* The line starts as an empty text.
LEMMA InitCursor == PortsInit => Cursor!Init
<1> SUFFICES ASSUME PortsInit PROVE Cursor!Init
    OBVIOUS
<1>1. value = <<>> /\ cursor = 0
    BY DEF PortsInit, LineInit
<1>2. SubSeq(value, 1, cursor) = <<>> /\ SubSeq(value, cursor + 1, Len(value)) = <<>>
    BY <1>1
<1> QED BY <1>2, DecodeNothing DEF Cursor!Init

LEMMA CursorUnchanged == UNCHANGED lineVars => UNCHANGED Cursor!vars
<1> SUFFICES ASSUME value' = value, cursor' = cursor PROVE UNCHANGED Cursor!vars
    BY DEF lineVars
<1> QED BY DEF Cursor!vars

\* Every key of the prompt is a step of the text and its cursor, and nothing else is.
LEMMA NextCursor == PortsInv /\ [PortsNext]_screenVars => [Cursor!Next]_(Cursor!vars)
<1> SUFFICES ASSUME PortsInv, [PortsNext]_screenVars PROVE Cursor!Next \/ UNCHANGED Cursor!vars
    OBVIOUS
<1> USE DEF PortsInv
<1>1. CASE Refresh \/ ClearQuery \/ UNCHANGED screenVars
    <2>1. UNCHANGED lineVars
        BY <1>1 DEF Refresh, ClearQuery, screenVars
    <2> QED BY <2>1, CursorUnchanged
<1>2. CASE OpenPrompt
    <2>1. Cursor!Load
        BY <1>2, LoadFollows DEF OpenPrompt, WithValue
    <2> QED BY <2>1 DEF Cursor!Next
<1>3. CASE EditQuery
    <2>1. (\E c \in Chars : Cursor!Insert(c)) \/ EditKept
        BY <1>3, EditFollows DEF EditQuery
    <2> QED BY <2>1 DEF Cursor!Next, EditKept
<1>4. CASE MoveCaret
    <2>1. Cursor!Left \/ Cursor!Right \/ Cursor!Home \/ Cursor!End
        BY <1>4, MoveFollows DEF MoveCaret
    <2> QED BY <2>1 DEF Cursor!Next
<1>5. CASE Enter \/ Esc
    <2>1. Cursor!Load
        BY <1>5, ClearFollows DEF Enter, Esc
    <2> QED BY <2>1 DEF Cursor!Next
<1> QED BY <1>1, <1>2, <1>3, <1>4, <1>5 DEF PortsNext, Keys

\* The editor, which moves over bytes, does what a text of characters with a cursor
\* between two of them does: every key is that text's step, however wide characters are.
THEOREM EditorIsCursor == PortsSpec => CursorSpec
<1>1. PortsInit => Cursor!Init
    BY InitCursor
<1>2. PortsInv /\ [PortsNext]_screenVars => [Cursor!Next]_(Cursor!vars)
    BY NextCursor
<1> QED BY <1>1, <1>2, PortsInvariant, PTL DEF PortsSpec, CursorSpec, Cursor!Spec

\* A socket that listened all through the reading is in the list once; with an owner,
\* if a readable process had it all along behind one descriptor; and with every
\* connection on its port that lasted.
THEOREM SteadySocketsListed == PortsSpec => SteadyListed
<1>1. PortsInv /\ [PortsNext]_screenVars =>
          [Return => \A i \in kept :
              LET Owned == \E h \in steady : h[3] = i /\ Readable(h[1]) /\ h[1] \notin recycled
              IN  IsBoundForInput(i) =>
                     /\ Cardinality(Listed(i)) = 1
                     /\ \A k \in Listed(i) :
                           /\ Owned => listeners'[k].pid # NoPid
                           /\ listeners'[k].connections >=
                                 Cardinality({c \in kept : IsConnection(c)
                                                 /\ Socket[c].port = Socket[i].port})]_socketVars
    BY SteadyIsListed DEF PortsInv
<1> QED BY <1>1, PortsInvariant, PTL DEF PortsSpec, SteadyListed

\* The pid beside a socket had it open during the reading, and the name and command
\* line are those of the program that had, unless the pid changed hands meanwhile.
THEOREM NamesTrueOwner == PortsSpec => NamesOwner
<1>1. PortsInv /\ [PortsNext]_screenVars =>
          [Return => \A k \in DOMAIN listeners' :
              LET row == listeners'[k]
                  Had(prog) == <<row.pid, prog, row.inode>> \in held
              IN  IF row.pid = NoPid
                  THEN DescribeProcess(row) = Nobody
                  ELSE /\ \E prog \in Programs : Had(prog)
                       /\ row.pid \notin recycled =>
                             \A text \in {row.process, row.command} \ {Nobody} : Had(text)]_socketVars
    BY RowNamesOwner DEF PortsInv
<1> QED BY <1>1, PortsInvariant, PTL DEF PortsSpec, NamesOwner

-------------------------------------------------------------------------------
(* What the view shows.                                                      *)

\* The list shows rows that collect() has finished with, and the view is the search of
\* it for the query in force.
ListRead == \A k \in DOMAIN listeners : listeners[k] \in Row /\ listeners[k].command # Unread
ViewCurrent == Listening => ports_view = RowsMatching(listeners, ports_query)
SearchInv == ListRead /\ ViewCurrent

LEMMA ListKept ==
    ASSUME SocketsInv, ListRead, SocketsNext
    PROVE  ListRead'
<1>1. CASE Return
    BY <1>1, ListedOnce DEF ListRead
<1>2. CASE CannotRead
    <2>1. listeners' = <<>>
        BY <1>2 DEF CannotRead
    <2>2. DOMAIN <<>> = {}
        OBVIOUS
    <2> QED BY <2>1, <2>2 DEF ListRead
<1>3. ASSUME UNCHANGED listeners PROVE ListRead'
    BY <1>3 DEF ListRead
<1>4. CASE ProcessStep
    BY <1>3, <1>4 DEF ProcessStep
<1>5. CASE ReadTable
    BY <1>3, <1>5 DEF ReadTable
<1>6. CASE NextProcess
    BY <1>3, <1>6 DEF NextProcess
<1>7. CASE ReadName \/ ReadCommand
    BY <1>3, <1>7 DEF ReadName, ReadCommand
<1>8. ASSUME NEW fd \in Fds, ReadLink(fd) PROVE ListRead'
    BY <1>3, <1>8 DEF ReadLink
<1> QED BY <1>1, <1>2, <1>4, <1>5, <1>6, <1>7, <1>8 DEF SocketsNext, Collect

LEMMA NextSearch == PortsInv /\ SearchInv /\ [PortsNext]_screenVars => SearchInv'
<1> SUFFICES ASSUME PortsInv, SearchInv, [PortsNext]_screenVars PROVE ListRead' /\ ViewCurrent'
    BY DEF SearchInv
<1> USE DEF SearchInv
<1>1. ASSUME UNCHANGED listeners PROVE ListRead'
    BY <1>1 DEF ListRead
<1>2. ASSUME UNCHANGED <<socketVars, ports_query, ports_view>> PROVE ViewCurrent'
    <2>1. Listening' = Listening /\ listeners' = listeners
        BY <1>2 DEF Listening, socketVars, readerVars
    <2> QED BY <1>2, <2>1 DEF ViewCurrent
<1>3. ASSUME RebuildPortsView PROVE ViewCurrent'
    BY <1>3 DEF RebuildPortsView, ViewCurrent
<1>4. CASE Refresh
    <2>1. ViewCurrent'
        <3>1. Listening' => step' \in {"done", "failed"}
            BY DEF Listening
        <3> QED BY <1>3, <1>4, <3>1 DEF Refresh, ViewCurrent
    <2>2. ListRead'
        BY <1>4, ListKept DEF Refresh, PortsInv
    <2> QED BY <2>1, <2>2
<1>5. CASE OpenPrompt \/ MoveCaret \/ Enter \/ UNCHANGED screenVars
    BY <1>1, <1>2, <1>5 DEF OpenPrompt, MoveCaret, Enter, screenVars, promptVars, socketVars
<1>6. CASE EditQuery \/ Esc \/ ClearQuery
    BY <1>1, <1>3, <1>6 DEF EditQuery, Esc, ClearQuery, socketVars
<1> QED BY <1>4, <1>5, <1>6 DEF PortsNext, Keys

LEMMA SearchInvariant == PortsSpec => []SearchInv
<1>1. PortsInit => SearchInv
    BY DEF PortsInit, SocketsInit, SearchInv, ListRead, ViewCurrent, Listening
<1>2. PortsInv /\ SearchInv /\ [PortsNext]_screenVars => SearchInv'
    BY NextSearch
<1> QED BY <1>1, <1>2, PortsInvariant, PTL DEF PortsSpec

\* Only an edit of the prompt makes the query longer.
LEMMA LongerIsEdit ==
    ASSUME PortsInv, [PortsNext]_screenVars, NEW c \in Chars, open, ports_query' = ports_query \o Encode(c)
    PROVE  EditQuery
<1>1. ports_query \in Seq(Byte) /\ Encode(c) \in Seq(Byte) /\ Len(Encode(c)) >= 1
    <2>1. Len(Encode(c)) = Width[c] /\ Width[c] >= 1
        BY EncodeBytes, Widths
    <2> QED BY <2>1, EncodeBytes, Whole DEF PortsInv
<1>2. ports_query \o Encode(c) # ports_query /\ ports_query \o Encode(c) # <<>>
    <2>1. /\ Len(ports_query \o Encode(c)) = Len(ports_query) + Len(Encode(c))
          /\ Len(ports_query) \in Nat /\ Len(Encode(c)) \in Nat
        BY <1>1
    <2>2. Len(ports_query \o Encode(c)) # Len(ports_query) /\ Len(ports_query \o Encode(c)) # Len(<<>>)
        BY <1>1, <2>1
    <2> QED BY <2>2
<1>3. ports_query' # ports_query /\ ports_query' # <<>>
    BY <1>2
<1> QED BY <1>3 DEF PortsNext, Keys, Refresh, OpenPrompt, MoveCaret, Enter, Esc, ClearQuery,
                    screenVars, promptVars

\* What SearchNarrows says of one step.
Narrows ==
    \A c \in Chars :
        open /\ ports_query' = ports_query \o Encode(c) =>
           LET was == Lowered(ports_query)
               now == Lowered(ports_query')
               begins == Len(was) <= Len(now) /\ SubSeq(now, 1, Len(was)) = was
               gap == was = <<>> \/ was[Len(was)] \in Spaces
               negated == \E i \in DOMAIN was :
                             /\ was[i] = Bang
                             /\ i > 1 => was[i - 1] \in Spaces
                             /\ \A j \in i..Len(was) : was[j] \notin Spaces
           IN  /\ begins /\ ~negated => ports_view' \subseteq ports_view
               /\ c \in Spaces \/ (gap /\ c = Bang) => ports_view' = ports_view

LEMMA StepNarrows == PortsInv /\ SearchInv /\ [PortsNext]_screenVars => Narrows
<1> SUFFICES ASSUME PortsInv, SearchInv, [PortsNext]_screenVars,
                    NEW c \in Chars, open, ports_query' = ports_query \o Encode(c)
             PROVE  LET was == Lowered(ports_query)
                        now == Lowered(ports_query')
                        begins == Len(was) <= Len(now) /\ SubSeq(now, 1, Len(was)) = was
                        gap == was = <<>> \/ was[Len(was)] \in Spaces
                        negated == \E i \in DOMAIN was :
                                      /\ was[i] = Bang
                                      /\ i > 1 => was[i - 1] \in Spaces
                                      /\ \A j \in i..Len(was) : was[j] \notin Spaces
                    IN  /\ begins /\ ~negated => ports_view' \subseteq ports_view
                        /\ c \in Spaces \/ (gap /\ c = Bang) => ports_view' = ports_view
    BY DEF Narrows
<1> DEFINE was == Lowered(ports_query)
           now == Lowered(ports_query \o Encode(c))
<1>1. EditQuery
    BY LongerIsEdit
<1>2. ports_view = RowsMatching(listeners, ports_query)
    BY <1>1 DEF EditQuery, SearchInv, ViewCurrent
<1>3. ports_view' = RowsMatching(listeners, ports_query \o Encode(c))
    BY <1>1 DEF EditQuery, RebuildPortsView, socketVars
<1>4. \A k \in DOMAIN listeners : listeners[k] \in Row /\ listeners[k].command # Unread
    BY DEF SearchInv, ListRead
<1>5. /\ ports_query \in Seq(Byte) /\ Fits(ports_query)
      /\ ports_query \o Encode(c) \in Seq(Byte) /\ Fits(ports_query \o Encode(c))
    <2>1. PortsInv'
        BY NextPorts
    <2>2. WellFormed(ports_query') /\ Fits(ports_query')
        BY <2>1 DEF PortsInv, WellFormed, Fits, Decode
    <2>3. WellFormed(ports_query \o Encode(c)) /\ Fits(ports_query \o Encode(c))
        BY <2>2
    <2> QED BY <2>3, Whole DEF PortsInv
<1>6. /\ Len(was) <= Len(now) /\ SubSeq(now, 1, Len(was)) = was /\ ~Negated(was)
            => RowsMatching(listeners, ports_query \o Encode(c)) \subseteq RowsMatching(listeners, ports_query)
      /\ c \in Spaces \/ (Gap(was) /\ c = Bang)
            => RowsMatching(listeners, ports_query \o Encode(c)) = RowsMatching(listeners, ports_query)
      /\ DOMAIN was = 1..Len(was)
    BY <1>4, <1>5, TypedNarrows
<1>7. Lowered(ports_query') = now
    OBVIOUS
<1> HIDE DEF was, now
<1> QED BY <1>2, <1>3, <1>6, <1>7 DEF Gap, Negated, was

\* Typing at the end of the query never brings a row back, unless the term being typed
\* is negated or the character changes how the text before it is lowered, and white
\* space or the `!` of a term to come changes nothing: for every list, every query and
\* any words.
THEOREM TypingNarrows == PortsSpec => SearchNarrows
<1>1. PortsInv /\ SearchInv /\ [PortsNext]_screenVars => [Narrows]_screenVars
    BY StepNarrows
<1> QED BY <1>1, PortsInvariant, SearchInvariant, PTL DEF PortsSpec, SearchNarrows, Narrows
===============================================================================
